------------------------ MODULE SharedActors_proofs ------------------------
(***************************************************************************)
(* Proofs about actors that share something: the threads and processes     *)
(* with a lock (OsloCommon), the threads that initialise and configure the *)
(* machines of a router with the driver's object (RouterDriver), the       *)
(* callers of the plugin with its clients (SharedClients), operators with  *)
(* the database they migrate (DbMigration), programs with the bus          *)
(* (RpcMessages), an update with the deletion of its service               *)
(* (ServiceUpdate), and the checks of a policy with the credentials they   *)
(* are asked of (OsloCommon). Of each part: its invariant holds at the     *)
(* start and every step keeps it.                                          *)
(***************************************************************************)
EXTENDS OsloCommon, RouterDriver, SharedClients, DbMigration, RpcMessages, ServiceUpdate,
        FiniteSetTheorems, SequenceTheorems, TLAPS

(***************************************************************************)
(* OsloCommon                                                              *)
(***************************************************************************)

(* The numbers of semaphores are not that of none.                         *)
LEMMA SemNumbers == Sem \subseteq Nat /\ NoSem \notin Sem
  <1>1. Cardinality(Thread) \in Nat
    BY LockAssumption, FS_CardinalityType
  <1>. QED
    BY <1>1 DEF Sem, NoSem

LEMMA NamesOfThreads ==
  ASSUME LockTypeOK, NEW t \in Thread
  PROVE  /\ Name(t) \in LockName /\ ProcessOf[t] \in LockProcess
         /\ Name(t) = Manager => ~ errand[t].external
  <1>1. errand[t] \in UNION {ErrandsOf[u] : u \in Thread}
    BY DEF LockTypeOK
  <1>2. Name(t) \in LockName
    BY <1>1 DEF Name, LockName
  <1>. QED
    BY <1>2, LockAssumption DEF LockTypeOK, Name

LEMMA ReferredBy ==
  ASSUME NEW p, NEW ref, NEW s
  PROVE  s \in Referred(p, ref) <=> s # NoSem /\ \E t \in Thread : ProcessOf[t] = p /\ ref[t] = s
  BY DEF Referred

(* What makes the rest so.                                                 *)
LockBase == LockTypeOK /\ Registered /\ HeldByOne /\ FileLocked /\ NothingLeft

(* One thread of a process at most holds the lock of a name.               *)
LEMMA OneHolder ==
  ASSUME LockTypeOK, Registered, HeldByOne, NEW t \in Thread, NEW u \in Thread,
         Holds(t), Holds(u), ProcessOf[t] = ProcessOf[u], Name(t) = Name(u)
  PROVE  t = u
  <1>1. Refers(t) /\ Refers(u)
    BY DEF Registered
  <1>2. semOf[ProcessOf[t]][Name(t)] = mySem[t] /\ semOf[ProcessOf[u]][Name(u)] = mySem[u]
    BY <1>1, NamesOfThreads DEF Registered
  <1>. QED
    BY <1>2 DEF HeldByOne

LEMMA LockExclusive == LockBase => Exclusive
  <1>. SUFFICES ASSUME LockBase, NEW t \in Thread, NEW u \in Thread, t # u, In(t), In(u),
                       Name(t) = Name(u)
                PROVE  ProcessOf[t] # ProcessOf[u] /\ ~ (errand[t].external /\ errand[u].external)
    BY DEF Exclusive
  <1>1. Holds(t) /\ Holds(u)
    BY DEF In, Holds
  <1>2. ProcessOf[t] # ProcessOf[u]
    BY <1>1, OneHolder DEF LockBase
  <1>3. ASSUME errand[t].external, errand[u].external PROVE FALSE
    <2>1. Name(t) # Manager
      BY <1>3, NamesOfThreads DEF LockBase
    <2>2. lockPc[t] = "inside" /\ lockPc[u] = "inside"
      BY <2>1 DEF In, LockBase, FileLocked
    <2>3. fileOf[Name(t)] = ProcessOf[t] /\ fileOf[Name(u)] = ProcessOf[u]
      BY <1>3, <2>2 DEF In, LockBase, FileLocked
    <2>. QED
      BY <2>3, <1>2
  <1>. QED
    BY <1>2, <1>3

LEMMA LockSame == LockBase => SameSemaphore
  <1>. SUFFICES ASSUME LockBase, NEW t \in Thread, NEW u \in Thread,
                       ProcessOf[t] = ProcessOf[u], Refers(t), Refers(u)
                PROVE  mySem[t] = mySem[u] <=> Name(t) = Name(u)
    BY DEF SameSemaphore, Refers
  <1>1. /\ semOf[ProcessOf[t]][Name(t)] = mySem[t]
        /\ semOf[ProcessOf[t]][Name(u)] = mySem[u]
        /\ semOf[ProcessOf[t]][Name(u)] = mySem[t] <=> Name(u) = Name(t)
    BY NamesOfThreads DEF LockBase, Registered
  <1>. QED
    BY <1>1

LEMMA LockGoesOn == LockBase => SomeoneGoesOn
  <1>. SUFFICES ASSUME LockBase, NEW t \in Thread, Alive(t), lockPc[t] \in {"acquire", "file"}
                PROVE  \E u \in Thread :
                         /\ Alive(u)
                         /\ \/ lockPc[u] \in {"register", "inside", "making", "release"}
                            \/ lockPc[u] = "acquire" /\ mySem[u] \notin semHeld[ProcessOf[u]]
                            \/ lockPc[u] = "file" /\ FileFree(u)
    BY DEF SomeoneGoesOn
  <1>1. CASE lockPc[t] = "acquire" /\ mySem[t] \notin semHeld[ProcessOf[t]]
    BY <1>1
  <1>2. ASSUME NEW u \in Thread, Alive(u), lockPc[u] = "file", ~ FileFree(u)
        PROVE  \E v \in Thread : Alive(v) /\ lockPc[v] \in {"inside", "release"}
    <2>1. Name(u) \in LockName
      BY NamesOfThreads DEF LockBase
    <2>. QED
      BY <1>2, <2>1 DEF FileFree, LockBase, NothingLeft
  <1>3. CASE lockPc[t] = "acquire" /\ mySem[t] \in semHeld[ProcessOf[t]]
    <2>1. PICK u \in Thread : ProcessOf[u] = ProcessOf[t] /\ Holds(u)
      BY <1>3, NamesOfThreads DEF LockBase, HeldByOne
    <2>2. Alive(u)
      BY <2>1 DEF Alive
    <2>. QED
      BY <1>2, <2>1, <2>2 DEF Holds
  <1>4. CASE lockPc[t] = "file"
    BY <1>2, <1>4
  <1>. QED
    BY <1>1, <1>3, <1>4

-----------------------------------------------------------------------------
Standing == {"idle", "register", "acquire", "file", "inside", "making", "release", "done"}

LEMMA StandingOf ==
  ASSUME LockTypeOK, NEW t \in Thread, NEW at \in Standing, LockGoes(t, at)
  PROVE  /\ lockPc' \in [Thread -> Standing] /\ lockPc'[t] = at
         /\ \A u \in Thread : u # t => lockPc'[u] = lockPc[u]
  BY DEF LockTypeOK, LockGoes, Standing

(* A thread goes on without a semaphore, or with the one it holds.         *)
LEMMA PlaceMoved ==
  ASSUME LockBase, NEW t \in Thread, NEW at \in Standing \ {"acquire"}, LockGoes(t, at),
         UNCHANGED <<errand, semVars>>, lockPc[t] # "acquire",
         Holds(t) <=> at \in {"file", "inside", "making", "release"}
  PROVE  Registered' /\ HeldByOne'
  <1>1. /\ lockPc'[t] = at
        /\ \A u \in Thread : u # t => lockPc'[u] = lockPc[u]
    BY StandingOf DEF LockBase
  <1>2. \A u \in Thread : /\ Holds(u)' <=> Holds(u)
                          /\ lockPc'[u] = "acquire" <=> lockPc[u] = "acquire"
    BY <1>1 DEF Holds
  <1>3. \A u \in Thread : Name(u)' = Name(u) /\ Refers(u)' = Refers(u)
    BY DEF Name, Refers, semVars
  <1>4. Registered'
    BY <1>2, <1>3 DEF LockBase, Registered, semVars, LockName
  <1>5. HeldByOne'
    BY <1>2 DEF LockBase, HeldByOne, semVars
  <1>. QED
    BY <1>4, <1>5

(* Types, but for what a step changes.                                     *)
LEMMA GetInstanceKept ==
  ASSUME LockBase, OneInstance, NEW t \in Thread, GetInstance(t) \/ CallLocked(t)
  PROVE  LockBase' /\ OneInstance'
  <1>1. PICK at \in {"done", "register"} :
          LockGoes(t, at) /\ UNCHANGED <<errand, semVars, fileOf, managerVars>>
    BY DEF GetInstance, CallLocked
  <1>2. lockPc[t] = "idle"
    BY DEF GetInstance, CallLocked
  <1>3. /\ lockPc' \in [Thread -> Standing] /\ lockPc'[t] = at
        /\ \A u \in Thread : u # t => lockPc'[u] = lockPc[u]
    BY <1>1, StandingOf DEF LockBase, Standing
  <1>4. Registered' /\ HeldByOne'
    <2>1. at \in Standing \ {"acquire"}
      BY DEF Standing
    <2>2. ~ Holds(t) /\ at \notin {"file", "inside", "making", "release"} /\ lockPc[t] # "acquire"
      BY <1>2 DEF Holds
    <2>. QED
      BY <1>1, <2>1, <2>2, PlaceMoved
  <1>5. LockTypeOK'
    BY <1>1, <1>3 DEF LockBase, LockTypeOK, semVars, managerVars, Standing
  <1>6. FileLocked'
    BY <1>1, <1>3 DEF LockBase, FileLocked, managerVars, Alive, Name
  <1>7. NothingLeft'
    BY <1>1, <1>2, <1>3 DEF LockBase, NothingLeft, managerVars, Alive, Name
  <1>8. OneInstance'
    BY <1>1 DEF OneInstance, managerVars
  <1>. QED
    BY <1>4, <1>5, <1>6, <1>7, <1>8 DEF LockBase

LEMMA LockFileKept ==
  ASSUME LockBase, OneInstance, NEW t \in Thread, LockFile(t)
  PROVE  LockBase' /\ OneInstance'
  <1>1. /\ lockPc[t] = "file" /\ Alive(t) /\ FileFree(t) /\ LockGoes(t, "inside")
        /\ fileOf' = [fileOf EXCEPT ![Name(t)] = ProcessOf[t]]
        /\ UNCHANGED <<errand, semVars, managerVars>>
    BY DEF LockFile
  <1>2. Name(t) \in LockName /\ ProcessOf[t] \in LockProcess
    BY NamesOfThreads DEF LockBase
  <1>3. /\ lockPc' \in [Thread -> Standing] /\ lockPc'[t] = "inside"
        /\ \A u \in Thread : u # t => lockPc'[u] = lockPc[u]
    BY <1>1, StandingOf DEF LockBase, Standing
  <1>4. Registered' /\ HeldByOne'
    <2>1. "inside" \in Standing \ {"acquire"}
      BY DEF Standing
    <2>2. Holds(t) /\ "inside" \in {"file", "inside", "making", "release"} /\ lockPc[t] # "acquire"
      BY <1>1 DEF Holds
    <2>. QED
      BY <1>1, <2>1, <2>2, PlaceMoved
  <1>5. /\ fileOf' \in [LockName -> LockProcess \cup {NoProcess}]
        /\ fileOf'[Name(t)] = ProcessOf[t]
        /\ \A n \in LockName : n # Name(t) => fileOf'[n] = fileOf[n]
    BY <1>1, <1>2 DEF LockBase, LockTypeOK
  <1>6. LockTypeOK'
    BY <1>1, <1>3, <1>5 DEF LockBase, LockTypeOK, semVars, managerVars, Standing, LockName
  <1>7. ASSUME NEW u \in Thread, u # t, Alive(u), lockPc[u] = "inside", errand[u].external
        PROVE  fileOf'[Name(u)] = ProcessOf[u]
    <2>1. fileOf[Name(u)] = ProcessOf[u]
      BY <1>7 DEF LockBase, FileLocked
    <2>2. CASE Name(u) # Name(t)
      BY <2>1, <2>2, <1>5, NamesOfThreads DEF LockBase
    <2>3. CASE Name(u) = Name(t)
      <3>1. ProcessOf[u] = ProcessOf[t]
        BY <2>1, <2>3, <1>1, NamesOfThreads, LockAssumption DEF FileFree, NoProcess, LockBase
      <3>2. Holds(t) /\ Holds(u)
        BY <1>1, <1>7 DEF Holds
      <3>. QED
        BY <3>1, <3>2, <2>3, <1>7, OneHolder DEF LockBase
    <2>. QED
      BY <2>2, <2>3
  <1>8. FileLocked'
    BY <1>1, <1>3, <1>5, <1>7 DEF LockBase, FileLocked, managerVars, Alive, Name
  <1>9. NothingLeft'
    <2>. SUFFICES ASSUME NEW n \in LockName, fileOf'[n] # NoProcess
                  PROVE  \E u \in Thread :
                           /\ Alive(u)' /\ ProcessOf[u] = fileOf'[n] /\ Name(u)' = n
                           /\ errand'[u].external /\ lockPc'[u] \in {"inside", "release"}
      BY DEF NothingLeft, LockName
    <2>1. CASE n = Name(t)
      <3>1. Alive(t)' /\ Name(t)' = n /\ errand'[t].external
        BY <1>1, <2>1 DEF Alive, Name, managerVars, LockBase, FileLocked
      <3>. QED
        BY <3>1, <2>1, <1>3, <1>5
    <2>2. CASE n # Name(t)
      <3>1. PICK u \in Thread : /\ Alive(u) /\ ProcessOf[u] = fileOf[n] /\ Name(u) = n
                                /\ errand[u].external /\ lockPc[u] \in {"inside", "release"}
        BY <2>2, <1>5 DEF LockBase, NothingLeft
      <3>2. u # t
        BY <1>1, <3>1
      <3>. QED
        BY <3>1, <3>2, <1>1, <1>3, <1>5, <2>2 DEF Alive, Name, managerVars
    <2>. QED
      BY <2>1, <2>2
  <1>10. OneInstance'
    BY <1>1 DEF OneInstance, managerVars
  <1>. QED
    BY <1>4, <1>6, <1>8, <1>9, <1>10 DEF LockBase

(* Going on inside the lock, without a file.                               *)
LEMMA InsideKept ==
  ASSUME LockBase, OneInstance, NEW t \in Thread, NoLockPath(t) \/ InsideLock(t)
  PROVE  LockBase' /\ OneInstance'
  <1>1. PICK at \in {"making", "release"} :
          /\ LockGoes(t, at) /\ UNCHANGED <<errand, semVars, fileOf, managerVars>>
          /\ at = "making" => Name(t) = Manager /\ ~ instance[ProcessOf[t]]
    BY DEF NoLockPath, InsideLock
  <1>2. lockPc[t] \in {"file", "inside"}
    BY DEF NoLockPath, InsideLock
  <1>3. /\ lockPc' \in [Thread -> Standing] /\ lockPc'[t] = at
        /\ \A u \in Thread : u # t => lockPc'[u] = lockPc[u]
    BY <1>1, StandingOf DEF LockBase, Standing
  <1>4. Registered' /\ HeldByOne'
    <2>1. at \in Standing \ {"acquire"}
      BY DEF Standing
    <2>2. Holds(t) /\ at \in {"file", "inside", "making", "release"} /\ lockPc[t] # "acquire"
      BY <1>2 DEF Holds
    <2>. QED
      BY <1>1, <2>1, <2>2, PlaceMoved
  <1>5. LockTypeOK'
    BY <1>1, <1>3 DEF LockBase, LockTypeOK, semVars, managerVars, Standing
  <1>6. FileLocked'
    BY <1>1, <1>3 DEF LockBase, FileLocked, managerVars, Alive, Name
  <1>7. NothingLeft'
    <2>. SUFFICES ASSUME NEW n \in LockName, fileOf[n] # NoProcess
                  PROVE  \E u \in Thread :
                           /\ Alive(u)' /\ ProcessOf[u] = fileOf[n] /\ Name(u)' = n
                           /\ errand'[u].external /\ lockPc'[u] \in {"inside", "release"}
      BY <1>1 DEF NothingLeft, LockName
    <2>1. PICK u \in Thread : /\ Alive(u) /\ ProcessOf[u] = fileOf[n] /\ Name(u) = n
                              /\ errand[u].external /\ lockPc[u] \in {"inside", "release"}
      BY DEF LockBase, NothingLeft
    <2>2. at = "release" \/ u # t
      BY <1>1, <2>1, NamesOfThreads DEF LockBase
    <2>. QED
      BY <2>1, <2>2, <1>1, <1>3 DEF Alive, Name, managerVars
  <1>8. OneInstance'
    BY <1>1 DEF OneInstance, managerVars
  <1>. QED
    BY <1>4, <1>5, <1>6, <1>7, <1>8 DEF LockBase

LEMMA MakeInstanceKept ==
  ASSUME LockBase, OneInstance, NEW t \in Thread, MakeInstance(t)
  PROVE  LockBase' /\ OneInstance'
  <1>. DEFINE p == ProcessOf[t]
  <1>1. /\ lockPc[t] = "making" /\ LockGoes(t, "release")
        /\ \/ /\ instance' = [instance EXCEPT ![p] = TRUE]
              /\ plugins' = [plugins EXCEPT ![p] = @ + 1]
           \/ UNCHANGED <<instance, plugins>>
        /\ UNCHANGED <<errand, semVars, fileOf, dead>>
    BY DEF MakeInstance
  <1>2. /\ lockPc' \in [Thread -> Standing] /\ lockPc'[t] = "release"
        /\ \A u \in Thread : u # t => lockPc'[u] = lockPc[u]
    BY <1>1, StandingOf DEF LockBase, Standing
  <1>3. Registered' /\ HeldByOne'
    <2>1. "release" \in Standing \ {"acquire"}
      BY DEF Standing
    <2>2. Holds(t) /\ "release" \in {"file", "inside", "making", "release"} /\ lockPc[t] # "acquire"
      BY <1>1 DEF Holds
    <2>. QED
      BY <1>1, <2>1, <2>2, PlaceMoved
  <1>4. ~ instance[p] /\ Name(t) = Manager /\ p \in LockProcess
    BY <1>1, NamesOfThreads DEF LockBase, FileLocked
  <1>5. /\ instance' \in [LockProcess -> BOOLEAN] /\ plugins' \in [LockProcess -> Nat]
        /\ \A q \in LockProcess : q # p => instance'[q] = instance[q] /\ plugins'[q] = plugins[q]
    <2>1. instance \in [LockProcess -> BOOLEAN] /\ plugins \in [LockProcess -> Nat]
      BY DEF LockBase, LockTypeOK
    <2>2. plugins[p] + 1 \in Nat
      BY <2>1, <1>4
    <2>. QED
      BY <2>1, <2>2, <1>1, <1>4
  <1>6. OneInstance'
    <2>1. plugins[p] = 0
      <3>1. plugins[p] \in Nat
        BY <1>4 DEF LockBase, LockTypeOK
      <3>2. plugins[p] <= 1 /\ plugins[p] # 1
        BY <1>4 DEF OneInstance
      <3>. QED
        BY <3>1, <3>2
    <2>2. plugins'[p] <= 1 /\ (instance'[p] <=> plugins'[p] = 1)
      BY <2>1, <1>1, <1>4 DEF LockBase, LockTypeOK
    <2>. QED
      BY <2>2, <1>5 DEF OneInstance
  <1>7. LockTypeOK'
    BY <1>1, <1>2, <1>5 DEF LockBase, LockTypeOK, semVars, Standing
  <1>8. ASSUME NEW u \in Thread, u # t, lockPc[u] = "making" PROVE ProcessOf[u] # p
    <2>1. Holds(t) /\ Holds(u) /\ Name(u) = Manager
      BY <1>1, <1>8 DEF Holds, LockBase, FileLocked
    <2>. QED
      BY <2>1, <1>4, <1>8, OneHolder DEF LockBase
  <1>9. FileLocked'
    <2>1. \A u \in Thread : lockPc'[u] = "making" => Name(u)' = Manager /\ ~ instance'[ProcessOf[u]]
      BY <1>1, <1>2, <1>5, <1>8, NamesOfThreads DEF LockBase, FileLocked, Name
    <2>. QED
      BY <2>1, <1>1, <1>2 DEF LockBase, FileLocked, Alive, Name
  <1>10. NothingLeft'
    BY <1>1, <1>2 DEF LockBase, NothingLeft, Alive, Name
  <1>. QED
    BY <1>3, <1>6, <1>7, <1>9, <1>10 DEF LockBase

LEMMA AcquireKept ==
  ASSUME LockBase, OneInstance, NEW t \in Thread, Acquire(t)
  PROVE  LockBase' /\ OneInstance'
  <1>. DEFINE p == ProcessOf[t]
  <1>1. PICK at \in {"file", "inside"} :
          /\ LockGoes(t, at) /\ (at = "file" <=> errand[t].external)
          /\ lockPc[t] = "acquire" /\ mySem[t] \notin semHeld[p]
          /\ semHeld' = [semHeld EXCEPT ![p] = @ \cup {mySem[t]}]
          /\ UNCHANGED <<errand, semOf, mySem, fileOf, managerVars>>
    BY DEF Acquire
  <1>2. /\ lockPc' \in [Thread -> Standing] /\ lockPc'[t] = at
        /\ \A u \in Thread : u # t => lockPc'[u] = lockPc[u]
    BY <1>1, StandingOf DEF LockBase, Standing
  <1>3. p \in LockProcess /\ mySem[t] \in Sem /\ mySem[t] # NoSem /\ ~ Holds(t)
    BY <1>1, NamesOfThreads DEF LockBase, LockTypeOK, Registered, Refers, Holds
  <1>4. /\ semHeld' \in [LockProcess -> SUBSET Sem] /\ semHeld'[p] = semHeld[p] \cup {mySem[t]}
        /\ \A q \in LockProcess : q # p => semHeld'[q] = semHeld[q]
    <2>1. semHeld \in [LockProcess -> SUBSET Sem]
      BY DEF LockBase, LockTypeOK
    <2>. QED
      BY <2>1, <1>1, <1>3
  <1>5. LockTypeOK'
    <2>1. mySem[t] \in Referred(p, mySem)
      BY <1>3, ReferredBy
    <2>2. \A q \in LockProcess : semHeld'[q] \subseteq Referred(q, mySem)
      BY <2>1, <1>4 DEF LockBase, LockTypeOK
    <2>. QED
      BY <2>2, <1>1, <1>2, <1>4 DEF LockBase, LockTypeOK, managerVars, Standing
  <1>6. \A u \in Thread : /\ Name(u)' = Name(u) /\ Refers(u)' = Refers(u)
                          /\ Holds(u)' <=> Holds(u) \/ u = t
    BY <1>1, <1>2 DEF Name, Refers, Holds
  <1>7. Registered'
    BY <1>1, <1>2, <1>6 DEF LockBase, Registered, LockName
  <1>8. HeldByOne'
    <2>1. \A u \in Thread : Holds(u) /\ ProcessOf[u] = p => mySem[u] # mySem[t]
      BY <1>1 DEF LockBase, HeldByOne
    <2>2. \A u \in Thread : Holds(u)' => mySem[u] \in semHeld'[ProcessOf[u]]
      BY <1>3, <1>4, <1>6, NamesOfThreads DEF LockBase, HeldByOne
    <2>3. \A u, v \in Thread : Holds(u)' /\ Holds(v)' /\ ProcessOf[u] = ProcessOf[v]
            => u = v \/ mySem[u] # mySem[v]
      BY <2>1, <1>6 DEF LockBase, HeldByOne
    <2>4. \A q \in LockProcess : \A s \in semHeld'[q] :
            \E u \in Thread : ProcessOf[u] = q /\ Holds(u)' /\ mySem[u] = s
      BY <1>4, <1>6 DEF LockBase, HeldByOne
    <2>. QED
      BY <2>2, <2>3, <2>4, <1>1 DEF HeldByOne
  <1>9. FileLocked'
    <2>1. \A u \in Thread : u # t => (lockPc'[u] = lockPc[u] /\ (Alive(u)' <=> Alive(u)) /\ Name(u)' = Name(u))
      BY <1>1, <1>2 DEF Alive, Name, managerVars
    <2>2. (lockPc'[t] = "file" => errand'[t].external) /\ lockPc'[t] # "making"
      BY <1>1, <1>2
    <2>3. lockPc'[t] = "inside" => ~ errand'[t].external
      BY <1>1, <1>2
    <2>. QED
      BY <2>1, <2>2, <2>3, <1>1 DEF LockBase, FileLocked, managerVars
  <1>10. NothingLeft'
    BY <1>1, <1>2 DEF LockBase, NothingLeft, managerVars, Alive, Name
  <1>11. OneInstance'
    BY <1>1 DEF OneInstance, managerVars
  <1>. QED
    BY <1>5, <1>7, <1>8, <1>9, <1>10, <1>11 DEF LockBase

LEMMA CrashKept ==
  ASSUME LockBase, OneInstance, NEW p \in LockProcess, CrashOf(p)
  PROVE  LockBase' /\ OneInstance'
  <1>1. /\ dead' = dead \cup {p}
        /\ fileOf' = [n \in LockName |-> IF fileOf[n] = p THEN NoProcess ELSE fileOf[n]]
        /\ UNCHANGED <<lockPc, errand, semVars, instance, plugins>>
    BY DEF CrashOf
  <1>2. fileOf' \in [LockName -> LockProcess \cup {NoProcess}]
    BY <1>1 DEF LockBase, LockTypeOK
  <1>3. LockTypeOK'
    BY <1>1, <1>2 DEF LockBase, LockTypeOK, semVars, LockName
  <1>4. Registered' /\ HeldByOne'
    BY <1>1 DEF LockBase, Registered, HeldByOne, semVars, Refers, Holds, Name, LockName
  <1>5. \A u \in Thread : /\ Alive(u)' <=> Alive(u) /\ ProcessOf[u] # p
                          /\ Name(u)' = Name(u) /\ Name(u) \in LockName
    BY <1>1, NamesOfThreads DEF Alive, Name, LockBase
  <1>6. FileLocked'
    <2>1. ASSUME NEW u \in Thread, Alive(u)', lockPc[u] = "inside", errand[u].external
          PROVE  fileOf'[Name(u)] = ProcessOf[u]
      <3>1. fileOf[Name(u)] = ProcessOf[u] /\ ProcessOf[u] # p /\ Name(u) \in LockName
        BY <1>5, <2>1 DEF LockBase, FileLocked
      <3>. QED
        BY <3>1, <1>1
    <2>2. \A u \in Thread : /\ lockPc[u] = "file" => errand[u].external
                            /\ lockPc[u] = "making" => Name(u) = Manager /\ ~ instance[ProcessOf[u]]
      BY DEF LockBase, FileLocked
    <2>. QED
      BY <2>1, <2>2, <1>1, <1>5 DEF FileLocked
  <1>7. NothingLeft'
    <2>. SUFFICES ASSUME NEW n \in LockName, fileOf'[n] # NoProcess
                  PROVE  \E u \in Thread :
                           /\ Alive(u)' /\ ProcessOf[u] = fileOf'[n] /\ Name(u)' = n
                           /\ errand[u].external /\ lockPc[u] \in {"inside", "release"}
      BY <1>1 DEF NothingLeft, LockName
    <2>1. fileOf'[n] = fileOf[n] /\ fileOf[n] # p
      BY <1>1
    <2>. QED
      BY <2>1, <1>5 DEF LockBase, NothingLeft
  <1>8. OneInstance'
    BY <1>1 DEF OneInstance
  <1>. QED
    BY <1>3, <1>4, <1>6, <1>7, <1>8 DEF LockBase

LEMMA RegisterKept ==
  ASSUME LockBase, OneInstance, NEW t \in Thread, Register(t)
  PROVE  LockBase' /\ OneInstance'
  <1>. DEFINE p == ProcessOf[t]
              old == semOf[p][Name(t)]
  <1>1. PICK s \in (IF old # NoSem THEN {old} ELSE Sem \ Referred(p, mySem)) :
          /\ mySem' = [mySem EXCEPT ![t] = s]
          /\ semOf' = [semOf EXCEPT ![p][Name(t)] = s]
    BY DEF Register
  <1>2. /\ lockPc[t] = "register" /\ LockGoes(t, "acquire")
        /\ UNCHANGED <<errand, semHeld, fileOf, managerVars>>
    BY DEF Register
  <1>3. /\ lockPc' \in [Thread -> Standing] /\ lockPc'[t] = "acquire"
        /\ \A u \in Thread : u # t => lockPc'[u] = lockPc[u]
    BY <1>2, StandingOf DEF LockBase, Standing
  <1>4. p \in LockProcess /\ Name(t) \in LockName /\ mySem[t] = NoSem
    BY <1>2, NamesOfThreads DEF LockBase, Registered, Refers, Holds
  <1>5. s \in Sem /\ s # NoSem
    <2>1. old \in Sem \cup {NoSem}
      BY <1>4 DEF LockBase, LockTypeOK
    <2>. QED
      BY <2>1, <1>1, SemNumbers
  <1>6. /\ mySem' \in [Thread -> Sem \cup {NoSem}] /\ mySem'[t] = s
        /\ \A u \in Thread : u # t => mySem'[u] = mySem[u]
    BY <1>1, <1>5 DEF LockBase, LockTypeOK
  <1>7. /\ semOf' \in [LockProcess -> [LockName -> Sem \cup {NoSem}]]
        /\ semOf'[p][Name(t)] = s
        /\ \A q \in LockProcess, n \in LockName :
             q # p \/ n # Name(t) => semOf'[q][n] = semOf[q][n]
    <2>1. semOf \in [LockProcess -> [LockName -> Sem \cup {NoSem}]]
      BY DEF LockBase, LockTypeOK
    <2>2. semOf' = [semOf EXCEPT ![p] = [semOf[p] EXCEPT ![Name(t)] = s]]
      BY <1>1
    <2>3. /\ [semOf[p] EXCEPT ![Name(t)] = s] \in [LockName -> Sem \cup {NoSem}]
          /\ [semOf[p] EXCEPT ![Name(t)] = s][Name(t)] = s
          /\ \A n \in LockName : n # Name(t) => [semOf[p] EXCEPT ![Name(t)] = s][n] = semOf[p][n]
      BY <2>1, <1>4, <1>5
    <2>. HIDE DEF p
    <2>. QED
      BY <2>1, <2>2, <2>3, <1>4
  <1>8. \A q \in LockProcess : Referred(q, mySem) \subseteq Referred(q, mySem')
    <2>1. ASSUME NEW q \in LockProcess, NEW r \in Referred(q, mySem) PROVE r \in Referred(q, mySem')
      <3>1. PICK u \in Thread : ProcessOf[u] = q /\ mySem[u] = r /\ r # NoSem
        BY <2>1, ReferredBy
      <3>2. mySem'[u] = r
        BY <3>1, <1>4, <1>6
      <3>. QED
        BY <3>1, <3>2, ReferredBy
    <2>. QED
      BY <2>1
  <1>9. LockTypeOK'
    <2>1. s \in Referred(p, mySem')
      BY <1>5, <1>6, ReferredBy
    <2>2. ASSUME NEW q \in LockProcess PROVE semHeld[q] \subseteq Referred(q, mySem')
      BY <1>8 DEF LockBase, LockTypeOK
    <2>3. ASSUME NEW q \in LockProcess, NEW n \in LockName
          PROVE  semOf'[q][n] \in Referred(q, mySem') \cup {NoSem}
      <3>1. CASE q = p /\ n = Name(t)
        BY <3>1, <2>1, <1>7
      <3>2. CASE ~ (q = p /\ n = Name(t))
        <4>1. semOf'[q][n] = semOf[q][n] /\ semOf[q][n] \in Referred(q, mySem) \cup {NoSem}
          BY <3>2, <1>7 DEF LockBase, LockTypeOK
        <4>. QED
          BY <4>1, <1>8
      <3>. QED
        BY <3>1, <3>2
    <2>4. \A u \in Thread : errand'[u] \in ErrandsOf[u]
      BY <1>2 DEF LockBase, LockTypeOK
    <2>. QED
      BY <2>2, <2>3, <2>4, <1>2, <1>3, <1>6, <1>7 DEF LockBase, LockTypeOK, managerVars, Standing, LockName
  <1>10. \A u \in Thread : Name(u)' = Name(u) /\ (Holds(u)' <=> Holds(u)) /\ Name(u) \in LockName
    BY <1>2, <1>3, NamesOfThreads DEF Name, Holds, LockBase
  <1>11. ASSUME NEW u \in Thread, u # t, Refers(u), ProcessOf[u] = p
         PROVE  mySem[u] = s <=> Name(u) = Name(t)
    <2>1. semOf[p][Name(t)] = mySem[u] <=> Name(t) = Name(u)
      BY <1>11, <1>4 DEF LockBase, Registered
    <2>2. CASE old # NoSem
      BY <2>1, <2>2, <1>1
    <2>3. CASE old = NoSem
      <3>1. mySem[u] \in Referred(p, mySem)
        BY <1>11, ReferredBy DEF Refers
      <3>2. mySem[u] # s /\ Name(t) # Name(u)
        BY <3>1, <2>1, <2>3, <1>1, <1>11 DEF Refers
      <3>. QED
        BY <3>2
    <2>. QED
      BY <2>2, <2>3
  <1>12. ASSUME NEW n \in LockName PROVE semOf'[p][n] = s <=> n = Name(t)
    <2>1. CASE n = Name(t)
      BY <2>1, <1>7
    <2>2. CASE n # Name(t)
      <3>1. semOf'[p][n] = semOf[p][n] /\ semOf[p][n] \in Referred(p, mySem) \cup {NoSem}
        BY <2>2, <1>4, <1>7 DEF LockBase, LockTypeOK
      <3>2. ASSUME semOf[p][n] = s PROVE FALSE
        <4>1. PICK u \in Thread : ProcessOf[u] = p /\ mySem[u] = s
          BY <3>1, <3>2, <1>5, ReferredBy
        <4>2. u # t /\ Refers(u)
          BY <4>1, <1>4, <1>5 DEF Refers
        <4>3. Name(u) = Name(t) /\ n = Name(u)
          BY <4>1, <4>2, <3>2, <1>11 DEF LockBase, Registered
        <4>. QED
          BY <4>3, <2>2
      <3>. QED
        BY <3>1, <3>2, <2>2
    <2>. QED
      BY <2>1, <2>2
  <1>13. Registered'
    <2>1. ASSUME NEW u \in Thread
          PROVE  /\ Refers(u)' <=> Holds(u)' \/ lockPc'[u] = "acquire"
                 /\ Refers(u)' => \A n \in LockName : semOf'[ProcessOf[u]][n] = mySem'[u] <=> n = Name(u)
      <3>1. CASE u = t
        BY <3>1, <1>3, <1>5, <1>6, <1>12 DEF Refers
      <3>2. CASE u # t
        <4>1. Refers(u)' <=> Refers(u)
          BY <3>2, <1>6 DEF Refers
        <4>2. Refers(u)' <=> Holds(u)' \/ lockPc'[u] = "acquire"
          BY <4>1, <3>2, <1>3, <1>10 DEF LockBase, Registered
        <4>3. ASSUME Refers(u), NEW n \in LockName
              PROVE  semOf'[ProcessOf[u]][n] = mySem'[u] <=> n = Name(u)
          <5>1. CASE ProcessOf[u] = p /\ n = Name(t)
            BY <5>1, <4>3, <3>2, <1>6, <1>7, <1>11
          <5>2. CASE ~ (ProcessOf[u] = p /\ n = Name(t))
            <6>1. semOf'[ProcessOf[u]][n] = semOf[ProcessOf[u]][n]
              BY <5>2, <1>7, NamesOfThreads DEF LockBase
            <6>. QED
              BY <6>1, <4>3, <3>2, <1>6 DEF LockBase, Registered
          <5>. QED
            BY <5>1, <5>2
        <4>. QED
          BY <4>1, <4>2, <4>3
      <3>. QED
        BY <3>1, <3>2
    <2>. QED
      BY <2>1, <1>2, <1>10 DEF Registered, LockName
  <1>14. HeldByOne'
    <2>1. \A u \in Thread : Holds(u) => u # t /\ mySem'[u] = mySem[u]
      BY <1>2, <1>6 DEF Holds
    <2>. QED
      BY <2>1, <1>2, <1>10 DEF LockBase, HeldByOne
  <1>15. FileLocked'
    BY <1>2, <1>3 DEF LockBase, FileLocked, managerVars, Alive, Name
  <1>16. NothingLeft'
    BY <1>2, <1>3 DEF LockBase, NothingLeft, managerVars, Alive, Name
  <1>17. OneInstance'
    BY <1>2 DEF OneInstance, managerVars
  <1>. QED
    BY <1>9, <1>13, <1>14, <1>15, <1>16, <1>17 DEF LockBase

LEMMA ReleaseKept ==
  ASSUME LockBase, OneInstance, NEW t \in Thread, Release(t)
  PROVE  LockBase' /\ OneInstance'
  <1>. DEFINE p == ProcessOf[t]
  <1>1. /\ lockPc[t] = "release" /\ LockGoes(t, "done")
        /\ mySem' = [mySem EXCEPT ![t] = NoSem] /\ semOf' = Weak(p, mySem', semOf)
        /\ semHeld' = [semHeld EXCEPT ![p] = @ \ {mySem[t]}]
        /\ fileOf' = [fileOf EXCEPT ![Name(t)] =
                         IF errand[t].external /\ @ = p THEN NoProcess ELSE @]
        /\ UNCHANGED <<errand, managerVars>>
    BY DEF Release
  <1>2. /\ lockPc' \in [Thread -> Standing] /\ lockPc'[t] = "done"
        /\ \A u \in Thread : u # t => lockPc'[u] = lockPc[u]
    BY <1>1, StandingOf DEF LockBase, Standing
  <1>3. p \in LockProcess /\ Name(t) \in LockName /\ Holds(t)
    BY <1>1, NamesOfThreads DEF LockBase, Holds
  <1>4. /\ mySem' \in [Thread -> Sem \cup {NoSem}] /\ mySem'[t] = NoSem
        /\ \A u \in Thread : u # t => mySem'[u] = mySem[u]
    BY <1>1 DEF LockBase, LockTypeOK
  <1>5. /\ semHeld' \in [LockProcess -> SUBSET Sem] /\ semHeld'[p] = semHeld[p] \ {mySem[t]}
        /\ \A q \in LockProcess : q # p => semHeld'[q] = semHeld[q]
    <2>1. semHeld \in [LockProcess -> SUBSET Sem]
      BY DEF LockBase, LockTypeOK
    <2>. QED
      BY <2>1, <1>1, <1>3
  <1>6. /\ semOf' \in [LockProcess -> [LockName -> Sem \cup {NoSem}]]
        /\ \A n \in LockName :
             semOf'[p][n] = IF semOf[p][n] \in Referred(p, mySem') THEN semOf[p][n] ELSE NoSem
        /\ \A q \in LockProcess : q # p => semOf'[q] = semOf[q]
    <2>. DEFINE f == [n \in LockName |->
                        IF semOf[p][n] \in Referred(p, mySem') THEN semOf[p][n] ELSE NoSem]
    <2>1. semOf \in [LockProcess -> [LockName -> Sem \cup {NoSem}]]
      BY DEF LockBase, LockTypeOK
    <2>2. f \in [LockName -> Sem \cup {NoSem}]
      BY <2>1, <1>3
    <2>3. semOf' = [semOf EXCEPT ![p] = f]
      BY <1>1 DEF Weak
    <2>4. semOf'[p] = f /\ semOf' \in [LockProcess -> [LockName -> Sem \cup {NoSem}]]
          /\ \A q \in LockProcess : q # p => semOf'[q] = semOf[q]
      <3>. HIDE DEF f
      <3>. QED
        BY <2>1, <2>2, <2>3, <1>3
    <2>. QED
      BY <2>4
  <1>7. /\ fileOf' \in [LockName -> LockProcess \cup {NoProcess}]
        /\ \A n \in LockName : fileOf'[n] = fileOf[n] \/ (n = Name(t) /\ errand[t].external
                                    /\ fileOf[n] = p /\ fileOf'[n] = NoProcess)
        /\ errand[t].external /\ fileOf[Name(t)] = p => fileOf'[Name(t)] = NoProcess
    BY <1>1, <1>3 DEF LockBase, LockTypeOK
  <1>8. \A u \in Thread : Name(u)' = Name(u) /\ (Holds(u)' <=> Holds(u) /\ u # t)
                         /\ (Alive(u)' <=> Alive(u)) /\ Name(u) \in LockName
    BY <1>1, <1>2, NamesOfThreads DEF Name, Holds, LockBase, Alive, managerVars
  <1>9. LockTypeOK'
    <2>1. ASSUME NEW q \in LockProcess, NEW s \in semHeld'[q]
          PROVE  s \in Referred(q, mySem')
      <3>1. s \in semHeld[q] /\ (q = p => s # mySem[t])
        BY <2>1, <1>5
      <3>2. PICK u \in Thread : ProcessOf[u] = q /\ Holds(u) /\ mySem[u] = s
        BY <3>1 DEF LockBase, HeldByOne
      <3>3. u # t /\ mySem'[u] = s /\ s # NoSem
        BY <3>1, <3>2, <1>4 DEF LockBase, Registered, Refers
      <3>. QED
        BY <3>2, <3>3, ReferredBy
    <2>2. ASSUME NEW q \in LockProcess, NEW n \in LockName
          PROVE  semOf'[q][n] \in Referred(q, mySem') \cup {NoSem}
      <3>1. CASE q = p
        BY <3>1, <1>6
      <3>2. CASE q # p
        <4>1. semOf'[q][n] = semOf[q][n] /\ semOf[q][n] \in Referred(q, mySem) \cup {NoSem}
          BY <3>2, <1>6 DEF LockBase, LockTypeOK
        <4>2. ASSUME semOf[q][n] # NoSem PROVE semOf[q][n] \in Referred(q, mySem')
          <5>1. PICK u \in Thread : ProcessOf[u] = q /\ mySem[u] = semOf[q][n]
            BY <4>1, <4>2, ReferredBy
          <5>2. mySem'[u] = semOf[q][n]
            BY <5>1, <3>2, <1>4
          <5>. QED
            BY <5>1, <5>2, <4>2, ReferredBy
        <4>. QED
          BY <4>1, <4>2
      <3>. QED
        BY <3>1, <3>2
    <2>3. \A u \in Thread : errand'[u] \in ErrandsOf[u]
      BY <1>1 DEF LockBase, LockTypeOK
    <2>. QED
      BY <2>1, <2>2, <2>3, <1>1, <1>2, <1>4, <1>5, <1>6, <1>7
      DEF LockBase, LockTypeOK, managerVars, Standing, LockName
  <1>10. Registered'
    <2>1. ASSUME NEW u \in Thread
          PROVE  /\ Refers(u)' <=> Holds(u)' \/ lockPc'[u] = "acquire"
                 /\ Refers(u)' => \A n \in LockName : semOf'[ProcessOf[u]][n] = mySem'[u] <=> n = Name(u)
      <3>1. CASE u = t
        BY <3>1, <1>2, <1>4, <1>8 DEF Refers
      <3>2. CASE u # t
        <4>1. Refers(u)' <=> Refers(u)
          BY <3>2, <1>4 DEF Refers
        <4>2. Refers(u)' <=> Holds(u)' \/ lockPc'[u] = "acquire"
          BY <4>1, <3>2, <1>2, <1>8 DEF LockBase, Registered
        <4>3. ASSUME Refers(u), NEW n \in LockName
              PROVE  semOf'[ProcessOf[u]][n] = mySem'[u] <=> n = Name(u)
          <5>1. semOf[ProcessOf[u]][n] = mySem[u] <=> n = Name(u)
            BY <4>3 DEF LockBase, Registered
          <5>2. CASE ProcessOf[u] = p
            <6>1. mySem[u] \in Referred(p, mySem') /\ mySem[u] # NoSem /\ mySem'[u] = mySem[u]
              BY <5>2, <4>3, <3>2, <1>4, ReferredBy DEF Refers
            <6>2. semOf'[p][n] = mySem[u] <=> semOf[p][n] = mySem[u]
              BY <6>1, <1>6
            <6>. QED
              BY <6>1, <6>2, <5>1, <5>2
          <5>3. CASE ProcessOf[u] # p
            BY <5>1, <5>3, <3>2, <1>4, <1>6, NamesOfThreads DEF LockBase
          <5>. QED
            BY <5>2, <5>3
        <4>. QED
          BY <4>1, <4>2, <4>3
      <3>. QED
        BY <3>1, <3>2
    <2>. QED
      BY <2>1, <1>8 DEF Registered, LockName
  <1>11. HeldByOne'
    <2>1. \A u \in Thread : Holds(u) /\ u # t /\ ProcessOf[u] = p => mySem[u] # mySem[t]
      BY <1>3 DEF LockBase, HeldByOne
    <2>2. \A u \in Thread : Holds(u)' => mySem'[u] \in semHeld'[ProcessOf[u]]
      BY <2>1, <1>4, <1>5, <1>8, NamesOfThreads DEF LockBase, HeldByOne
    <2>3. \A u, v \in Thread : Holds(u)' /\ Holds(v)' /\ ProcessOf[u] = ProcessOf[v]
            => u = v \/ mySem'[u] # mySem'[v]
      BY <1>4, <1>8 DEF LockBase, HeldByOne
    <2>4. ASSUME NEW q \in LockProcess, NEW s \in semHeld'[q]
          PROVE  \E u \in Thread : ProcessOf[u] = q /\ Holds(u)' /\ mySem'[u] = s
      <3>1. s \in semHeld[q] /\ (q = p => s # mySem[t])
        BY <2>4, <1>5
      <3>2. PICK u \in Thread : ProcessOf[u] = q /\ Holds(u) /\ mySem[u] = s
        BY <3>1 DEF LockBase, HeldByOne
      <3>3. u # t
        BY <3>1, <3>2
      <3>. QED
        BY <3>2, <3>3, <1>4, <1>8
    <2>. QED
      BY <2>2, <2>3, <2>4 DEF HeldByOne
  <1>12. FileLocked'
    <2>1. ASSUME NEW u \in Thread, u # t, Alive(u), lockPc[u] = "inside", errand[u].external
          PROVE  fileOf'[Name(u)] = ProcessOf[u]
      <3>1. fileOf[Name(u)] = ProcessOf[u] /\ Holds(u)
        BY <2>1 DEF LockBase, FileLocked, Holds
      <3>2. ~ (Name(u) = Name(t) /\ ProcessOf[u] = p)
        BY <3>1, <2>1, <1>3, OneHolder DEF LockBase
      <3>. QED
        BY <3>1, <3>2, <1>7, <1>8
    <2>2. \A u \in Thread : u # t =>
            /\ lockPc[u] = "file" => errand[u].external
            /\ lockPc[u] = "making" => Name(u) = Manager /\ ~ instance[ProcessOf[u]]
      BY DEF LockBase, FileLocked
    <2>. QED
      BY <2>1, <2>2, <1>1, <1>2, <1>8 DEF FileLocked, managerVars
  <1>13. NothingLeft'
    <2>. SUFFICES ASSUME NEW n \in LockName, fileOf'[n] # NoProcess
                  PROVE  \E u \in Thread :
                           /\ Alive(u)' /\ ProcessOf[u] = fileOf'[n] /\ Name(u)' = n
                           /\ errand'[u].external /\ lockPc'[u] \in {"inside", "release"}
      BY <1>1 DEF NothingLeft, LockName
    <2>1. fileOf'[n] = fileOf[n]
      BY <1>7
    <2>2. PICK u \in Thread : /\ Alive(u) /\ ProcessOf[u] = fileOf[n] /\ Name(u) = n
                              /\ errand[u].external /\ lockPc[u] \in {"inside", "release"}
      BY <2>1 DEF LockBase, NothingLeft
    <2>3. u # t
      BY <2>1, <2>2, <1>7
    <2>. QED
      BY <2>1, <2>2, <2>3, <1>1, <1>2, <1>8
  <1>14. OneInstance'
    BY <1>1 DEF OneInstance, managerVars
  <1>. QED
    BY <1>9, <1>10, <1>11, <1>12, <1>13, <1>14 DEF LockBase

LEMMA LockStarts == LockInit => LockInv
  <1>. SUFFICES ASSUME LockInit PROVE LockBase /\ OneInstance
    BY LockExclusive, LockSame, LockGoesOn DEF LockInv, LockBase
  <1>1. LockTypeOK
    BY DEF LockInit, LockTypeOK, NoProcess, NoSem, Referred
  <1>2. Registered /\ HeldByOne /\ FileLocked
    BY LockAssumption DEF LockInit, Registered, HeldByOne, FileLocked, Refers, Holds
  <1>3. NothingLeft /\ OneInstance
    BY DEF LockInit, NothingLeft, OneInstance
  <1>. QED
    BY <1>1, <1>2, <1>3 DEF LockBase

LEMMA LockKept == LockInv /\ [LockNext]_lockVars => LockInv'
  <1>1. LockInv => LockBase /\ OneInstance
    BY DEF LockInv, LockBase
  <1>2. ASSUME LockBase, OneInstance, LockNext PROVE LockBase' /\ OneInstance'
    BY <1>2, GetInstanceKept, RegisterKept, AcquireKept, LockFileKept, InsideKept, MakeInstanceKept,
       ReleaseKept, CrashKept DEF LockNext, LockStep
  <1>3. ASSUME LockBase, OneInstance, UNCHANGED lockVars PROVE LockBase' /\ OneInstance'
    <2>1. LockTypeOK' /\ Registered'
      BY <1>3 DEF lockVars, semVars, managerVars, LockBase, LockTypeOK, Registered, Refers, Holds, Name, LockName
    <2>2. HeldByOne' /\ FileLocked'
      BY <1>3 DEF lockVars, semVars, managerVars, LockBase, HeldByOne, FileLocked, Holds, Name, Alive
    <2>3. NothingLeft' /\ OneInstance'
      BY <1>3 DEF lockVars, semVars, managerVars, LockBase, NothingLeft, OneInstance, Name, Alive
    <2>. QED
      BY <2>1, <2>2, <2>3 DEF LockBase
  <1>4. LockBase' => Exclusive' /\ SameSemaphore' /\ SomeoneGoesOn'
    BY LockExclusive, LockSame, LockGoesOn, PTL
  <1>. QED
    BY <1>1, <1>2, <1>3, <1>4 DEF LockInv, LockBase

(***************************************************************************)
(* RouterDriver                                                            *)
(***************************************************************************)

WorkPlaces == {"idle", "operation", "poll", "session", "read", "put", "route", "commit", "save"}
RouterWorks == [at : WorkPlaces, event : Event, left : SUBSET (Card \cup RuleSet), n : 0 .. Polls]
RouterOutcomes == [Event -> {"none", "COMPLETE", "ERROR"}]
RouterBoxes == [open : SUBSET Event, pending : [Event -> SUBSET (Card \cup RuleSet)],
          running : SUBSET (Card \cup RuleSet), saved : SUBSET (Card \cup RuleSet),
          default : BOOLEAN]
RouterTroubles == SUBSET {"refused", "failed"}

(* What the properties promise of one instance.                            *)
PromiseOk(o, b, t, m) ==
  /\ t = {} => /\ o["init"] = "COMPLETE" /\ m = {} => Card \subseteq b.saved
               /\ o["config"] = "COMPLETE" => RuleSet \subseteq b.saved
  /\ "refused" \notin t => /\ b.running \cap Card \in {{}, Card}
                           /\ b.running \cap RuleSet \in {{}, RuleSet}
  /\ ~ b.default => "refused" \in t \/ RuleSet \subseteq b.pending["config"]
  /\ \A e \in Event :
       o[e] = "ERROR" =>
         t # {} \/ (e = "config" /\ "config" \in b.open /\ b.pending["config"] = {})

InstanceOk(w, o, b, t, m) == PlaceOk(w, o, b) /\ SettingsOk(w, o, b, t, m) /\ PromiseOk(o, b, t, m)

LEMMA RulesApart == Card \cap RuleSet = {}
  BY DriverAssumption DEF RuleSet

(* The next of the settings that are left is one of them all.              *)
LEMMA NextInRules ==
  ASSUME NEW rest \in SUBSET RuleSet, rest # {}
  PROVE  Rules[Len(Rules) - Cardinality(rest) + 1] \in RuleSet
  <1>. DEFINE n == Len(Rules)
  <1>1. n \in Nat /\ DOMAIN Rules = 1 .. n
    BY DriverAssumption
  <1>2. IsFiniteSet(1 .. n) /\ Cardinality(1 .. n) = n
    <2>. HIDE DEF n
    <2>1. n \in Int /\ 1 \in Int
      BY <1>1
    <2>2. IsFiniteSet(1 .. n) /\ Cardinality(1 .. n) = IF 1 > n THEN 0 ELSE n - 1 + 1
      BY <2>1, FS_Interval
    <2>. QED
      BY <2>2, <1>1
  <1>3. IsFiniteSet(RuleSet) /\ Cardinality(RuleSet) <= n
    <2>1. [k \in 1 .. n |-> Rules[k]] \in Surjection(1 .. n, RuleSet)
      BY <1>1 DEF Surjection, RuleSet
    <2>. HIDE DEF n
    <2>. QED
      BY <2>1, <1>2, FS_Surjection
  <1>4. IsFiniteSet(rest) /\ Cardinality(rest) \in Nat /\ Cardinality(rest) <= n
    <2>1. IsFiniteSet(rest) /\ Cardinality(rest) <= Cardinality(RuleSet)
      BY <1>3, FS_Subset
    <2>. QED
      BY <2>1, <1>1, <1>3, FS_CardinalityType
  <1>5. Cardinality(rest) # 0
    BY <1>4, FS_EmptySet
  <1>6. n - Cardinality(rest) + 1 \in 1 .. n
    BY <1>1, <1>4, <1>5
  <1>. QED
    BY <1>1, <1>6 DEF RuleSet

-----------------------------------------------------------------------------
(* What each step makes of an instance.                                    *)

EndedWork == [at |-> "idle", event |-> "config", left |-> {}, n |-> 0]

LEMMA IdleTyped == EndedWork \in RouterWorks
  BY DriverAssumption DEF EndedWork, RouterWorks, WorkPlaces, Event

(* The event goes wrong.                                                   *)
LEMMA FailOk ==
  ASSUME NEW w \in RouterWorks, NEW o \in RouterOutcomes, NEW b \in RouterBoxes, NEW a \in {"refused", "failed"},
         NEW m, InstanceOk(w, o, b, {}, m), w.at # "idle"
  PROVE  /\ [o EXCEPT ![w.event] = "ERROR"] \in RouterOutcomes
         /\ InstanceOk(EndedWork, [o EXCEPT ![w.event] = "ERROR"], b, {a}, m)
  <1>1. o[w.event] = "none" /\ w.event \in Event
    BY DEF InstanceOk, PlaceOk, RouterWorks, RouterOutcomes, Event
  <1>. DEFINE p == [o EXCEPT ![w.event] = "ERROR"]
  <1>2. p \in RouterOutcomes /\ p[w.event] = "ERROR" /\ \A e \in Event : e # w.event => p[e] = o[e]
    BY <1>1 DEF RouterOutcomes
  <1>3. p["init"] # "none"
    BY <1>1, <1>2 DEF InstanceOk, PlaceOk, Event, RouterOutcomes
  <1>. HIDE DEF p
  <1>4. PlaceOk(EndedWork, p, b)
    BY <1>3 DEF PlaceOk, EndedWork
  <1>5. SettingsOk(EndedWork, p, b, {a}, m)
    <2>1. p["config"] = "none" => w.event = "init"
      BY <1>1, <1>2 DEF Event
    <2>. QED
      BY <2>1 DEF InstanceOk, SettingsOk, EndedWork
  <1>6. PromiseOk(p, b, {a}, m)
    BY DEF InstanceOk, PromiseOk
  <1>. QED
    BY <1>2, <1>4, <1>5, <1>6 DEF InstanceOk, p

(* A call that is answered changes the place and what is left.             *)
LEMMA BeginOk ==
  ASSUME NEW w \in RouterWorks, NEW o \in RouterOutcomes, NEW b \in RouterBoxes, NEW t \in RouterTroubles,
         NEW m, InstanceOk(w, o, b, t, m), w.at = "idle", NEW at \in {"session", "operation"},
         at = "session" => o["init"] = "none",
         at = "operation" => o["init"] = "COMPLETE" /\ o["config"] = "none"
  PROVE  LET v == [w EXCEPT !.at = at] IN v \in RouterWorks /\ InstanceOk(v, o, b, t, m)
  <1>. DEFINE v == [w EXCEPT !.at = at]
  <1>1. /\ v \in RouterWorks /\ v.at = at /\ v.event = w.event /\ v.left = w.left
    BY DEF RouterWorks, WorkPlaces
  <1>. HIDE DEF v
  <1>2. PlaceOk(v, o, b)
    BY <1>1 DEF InstanceOk, PlaceOk, RouterWorks, Event
  <1>3. SettingsOk(v, o, b, t, m)
    BY <1>1 DEF InstanceOk, SettingsOk
  <1>. QED
    BY <1>1, <1>2, <1>3 DEF InstanceOk, v

(* The steps before a session is opened.                                   *)
Nearer(w, v, t, a) ==
  /\ w.at \in {"operation", "poll"} /\ v.event = w.event /\ v.at \in {"poll", "session"}
  /\ v.left = {} \/ (v.at = "session" /\ v.left = RuleSet)
  /\ t \subseteq a

LEMMA BeforeSessionOk ==
  ASSUME NEW w \in RouterWorks, NEW o \in RouterOutcomes, NEW b \in RouterBoxes, NEW t \in RouterTroubles, NEW m,
         NEW v \in RouterWorks, NEW a \in RouterTroubles, InstanceOk(w, o, b, t, m), Nearer(w, v, t, a)
  PROVE  InstanceOk(v, o, b, a, m)
  <1>1. w.event = "config"
    BY DEF InstanceOk, PlaceOk, Nearer
  <1>2. PlaceOk(v, o, b)
    BY <1>1 DEF InstanceOk, PlaceOk, Nearer
  <1>3. SettingsOk(v, o, b, a, m)
    <2>1. o["config"] = "none"
      BY DEF InstanceOk, PlaceOk, RouterOutcomes, Event, Nearer
    <2>. QED
      BY <1>1, <2>1 DEF InstanceOk, SettingsOk, Nearer
  <1>4. PromiseOk(o, b, a, m)
    BY DEF InstanceOk, PromiseOk, Nearer
  <1>. QED
    BY <1>2, <1>3, <1>4 DEF InstanceOk

(* A session for config, which ends when there is nothing to put.          *)
LEMMA ConfigSessionOk ==
  ASSUME NEW w \in RouterWorks, NEW o \in RouterOutcomes, NEW b \in RouterBoxes, NEW t \in RouterTroubles,
         NEW m, InstanceOk(w, o, b, t, m), w.at = "session", w.event = "config"
  PROVE  LET c == [b EXCEPT !.open = @ \cup {"config"}]
             v == [w EXCEPT !.at = "put"] IN
         /\ c \in RouterBoxes /\ v \in RouterWorks
         /\ w.left = {} => /\ [o EXCEPT !["config"] = "ERROR"] \in RouterOutcomes
                           /\ InstanceOk(EndedWork, [o EXCEPT !["config"] = "ERROR"], c, t, m)
         /\ w.left # {} => InstanceOk(v, o, c, t, m)
  <1>. DEFINE c == [b EXCEPT !.open = @ \cup {"config"}]
              v == [w EXCEPT !.at = "put"]
              p == [o EXCEPT !["config"] = "ERROR"]
  <1>1. /\ c \in RouterBoxes /\ "config" \in c.open /\ c.pending = b.pending /\ c.running = b.running
        /\ c.saved = b.saved /\ c.default = b.default /\ \A e \in b.open : e \in c.open
    BY DEF RouterBoxes, Event
  <1>2. v \in RouterWorks /\ v.at = "put" /\ v.event = "config" /\ v.left = w.left
    BY DEF RouterWorks, WorkPlaces
  <1>3. p \in RouterOutcomes /\ p["config"] = "ERROR" /\ p["init"] = o["init"]
    BY DEF RouterOutcomes, Event
  <1>. HIDE DEF c, v, p
  <1>4. o["config"] = "none" /\ b.pending["config"] = {}
    BY DEF InstanceOk, PlaceOk, SettingsOk, RouterOutcomes, Event
  <1>5. w.left # {} => InstanceOk(v, o, c, t, m)
    <2>. SUFFICES ASSUME w.left # {} PROVE InstanceOk(v, o, c, t, m)
      OBVIOUS
    <2>1. PlaceOk(v, o, c)
      BY <1>1, <1>2 DEF InstanceOk, PlaceOk
    <2>2. SettingsOk(v, o, c, t, m)
      BY <1>1, <1>2 DEF InstanceOk, SettingsOk, PlaceOk
    <2>3. PromiseOk(o, c, t, m)
      BY <1>1 DEF InstanceOk, PromiseOk
    <2>. QED
      BY <2>1, <2>2, <2>3 DEF InstanceOk
  <1>6. InstanceOk(EndedWork, p, c, t, m)
    <2>1. PlaceOk(EndedWork, p, c)
      BY <1>3 DEF InstanceOk, PlaceOk, EndedWork
    <2>2. SettingsOk(EndedWork, p, c, t, m)
      BY <1>1, <1>4 DEF InstanceOk, SettingsOk, EndedWork
    <2>3. PromiseOk(p, c, t, m)
      <3>1. \A e \in Event : e = "config" \/ p[e] = o[e]
        BY <1>3 DEF Event
      <3>2. t = {} => /\ p["init"] = "COMPLETE" /\ m = {} => Card \subseteq c.saved
                      /\ p["config"] = "COMPLETE" => RuleSet \subseteq c.saved
        BY <1>1, <1>3 DEF InstanceOk, PromiseOk
      <3>3. \A e \in Event :
              p[e] = "ERROR" =>
                t # {} \/ (e = "config" /\ "config" \in c.open /\ c.pending["config"] = {})
        BY <3>1, <1>1, <1>4 DEF InstanceOk, PromiseOk
      <3>. QED
        BY <3>2, <3>3, <1>1 DEF InstanceOk, PromiseOk
    <2>. QED
      BY <2>1, <2>2, <2>3 DEF InstanceOk
  <1>. QED
    BY <1>1, <1>2, <1>3, <1>5, <1>6 DEF c, v, p

LEMMA InitSessionOk ==
  ASSUME NEW w \in RouterWorks, NEW o \in RouterOutcomes, NEW b \in RouterBoxes, NEW t \in RouterTroubles,
         NEW m, InstanceOk(w, o, b, t, m), w.at = "session", w.event = "init"
  PROVE  LET c == [b EXCEPT !.open = @ \cup {"init"}]
             v == [w EXCEPT !.at = "read"] IN
         /\ c \in RouterBoxes /\ v \in RouterWorks /\ InstanceOk(v, o, c, t, m) /\ "init" \in c.open
  <1>. DEFINE c == [b EXCEPT !.open = @ \cup {"init"}]
              v == [w EXCEPT !.at = "read"]
  <1>1. /\ c \in RouterBoxes /\ "init" \in c.open /\ c.pending = b.pending /\ c.running = b.running
        /\ c.saved = b.saved /\ c.default = b.default /\ \A e \in b.open : e \in c.open
    BY DEF RouterBoxes, Event
  <1>2. v \in RouterWorks /\ v.at = "read" /\ v.event = "init" /\ v.left = w.left
    BY DEF RouterWorks, WorkPlaces
  <1>. HIDE DEF c, v
  <1>3. PlaceOk(v, o, c)
    BY <1>1, <1>2 DEF InstanceOk, PlaceOk
  <1>4. SettingsOk(v, o, c, t, m)
    BY <1>1, <1>2 DEF InstanceOk, SettingsOk
  <1>5. PromiseOk(o, c, t, m)
    BY <1>1 DEF InstanceOk, PromiseOk
  <1>. QED
    BY <1>1, <1>2, <1>3, <1>4, <1>5 DEF InstanceOk, c, v

LEMMA ReadCardsOk ==
  ASSUME NEW w \in RouterWorks, NEW o \in RouterOutcomes, NEW b \in RouterBoxes, NEW t \in RouterTroubles,
         NEW m, InstanceOk(w, o, b, t, m), w.at = "read"
  PROVE  LET bare == Card \ b.running
             v == [w EXCEPT !.left = bare, !.at = IF bare = {} THEN "commit" ELSE "put"] IN
         v \in RouterWorks /\ InstanceOk(v, o, b, t, m)
  <1>. DEFINE bare == Card \ b.running
              at == IF bare = {} THEN "commit" ELSE "put"
              v == [w EXCEPT !.left = bare, !.at = at]
  <1>1. /\ v \in RouterWorks /\ v.at = at /\ v.event = w.event /\ v.left = bare
        /\ at \in {"commit", "put"} /\ (at = "commit" <=> bare = {})
    BY DEF RouterWorks, WorkPlaces
  <1>. HIDE DEF v, at
  <1>2. w.event = "init"
    BY DEF InstanceOk, PlaceOk
  <1>3. PlaceOk(v, o, b)
    BY <1>1, <1>2 DEF InstanceOk, PlaceOk
  <1>4. SettingsOk(v, o, b, t, m)
    BY <1>1, <1>2 DEF InstanceOk, SettingsOk
  <1>. QED
    BY <1>1, <1>3, <1>4 DEF InstanceOk, v, at

(* A setting that is put, or refused.                                      *)
LEMMA PutOk ==
  ASSUME NEW w \in RouterWorks, NEW o \in RouterOutcomes, NEW b \in RouterBoxes, NEW t \in RouterTroubles,
         NEW m, InstanceOk(w, o, b, t, m), w.at = "put",
         NEW s, s \in (IF w.event = "init" THEN Card ELSE RuleSet), NEW v \in RouterWorks,
         v.left = w.left \ {s}, v.event = w.event,
         v.at = (IF v.left # {} THEN "put" ELSE IF w.event = "init" THEN "commit" ELSE "route"),
         NEW a \in RouterTroubles, t \subseteq a, NEW c \in RouterBoxes,
         c.open = b.open /\ c.running = b.running /\ c.saved = b.saved /\ c.default = b.default,
         \/ c.pending = [b.pending EXCEPT ![w.event] = @ \cup {s}]
         \/ "refused" \in a /\ c.pending = b.pending
  PROVE  InstanceOk(v, o, c, a, m)
  <1>1. b.pending \in [Event -> SUBSET (Card \cup RuleSet)] /\ w.event \in {"init", "config"}
    BY DEF RouterBoxes, RouterWorks, Event
  <1>2. /\ c.pending["init"] \in {b.pending["init"], b.pending["init"] \cup {s}}
        /\ c.pending["config"] \in {b.pending["config"], b.pending["config"] \cup {s}}
        /\ w.event = "init" => c.pending["config"] = b.pending["config"]
        /\ w.event = "config" => c.pending["init"] = b.pending["init"]
        /\ "refused" \notin a /\ w.event = "init" => c.pending["init"] = b.pending["init"] \cup {s}
        /\ "refused" \notin a /\ w.event = "config" => c.pending["config"] = b.pending["config"] \cup {s}
    BY <1>1 DEF Event
  <1>3. v.at \in {"put", "commit", "route"} /\ (v.at = "put" <=> v.left # {})
        /\ (v.at = "commit" => w.event = "init") /\ (v.at = "route" => w.event = "config")
    BY <1>1
  <1>4. /\ o["init"] # "COMPLETE" \/ w.event = "config"
        /\ w.event = "config" => o["config"] = "none" /\ "config" \in b.open
        /\ o["config"] = "none"
    BY <1>1 DEF InstanceOk, PlaceOk
  <1>5. PlaceOk(v, o, c)
    BY <1>1, <1>3, <1>4 DEF InstanceOk, PlaceOk
  <1>6. SettingsOk(v, o, c, a, m)
    <2>1. /\ c.pending["init"] \subseteq Card /\ c.pending["config"] \subseteq RuleSet
          /\ c.saved \subseteq c.running
      BY <1>1, <1>2 DEF InstanceOk, SettingsOk
    <2>2. w.event = "init" => c.pending["config"] = {}
      BY <1>2 DEF InstanceOk, SettingsOk
    <2>3. "refused" \notin a =>
            /\ w.event = "init" => Card \subseteq c.running \cup c.pending["init"] \cup v.left
            /\ w.event = "config" => RuleSet \subseteq c.pending["config"] \cup v.left
      BY <1>2 DEF InstanceOk, SettingsOk
    <2>. QED
      BY <2>1, <2>2, <2>3, <1>3 DEF SettingsOk
  <1>7. PromiseOk(o, c, a, m)
    <2>1. ~ c.default => "refused" \in a \/ RuleSet \subseteq c.pending["config"]
      BY <1>2 DEF InstanceOk, PromiseOk
    <2>2. \A e \in Event : o[e] = "ERROR" => t # {}
      BY <1>4 DEF InstanceOk, PromiseOk, Event
    <2>. QED
      BY <2>1, <2>2 DEF InstanceOk, PromiseOk
  <1>. QED
    BY <1>5, <1>6, <1>7 DEF InstanceOk

(* The route is dropped, the session committed: what goes on afterwards.   *)
LEMMA RouteOk ==
  ASSUME NEW w \in RouterWorks, NEW o \in RouterOutcomes, NEW b \in RouterBoxes, NEW t \in RouterTroubles,
         NEW m, InstanceOk(w, o, b, t, m), w.at = "route"
  PROVE  LET v == [w EXCEPT !.at = "commit"]
             c == [b EXCEPT !.default = FALSE] IN
         v \in RouterWorks /\ c \in RouterBoxes /\ InstanceOk(v, o, c, t, m)
  <1>. DEFINE v == [w EXCEPT !.at = "commit"]
              c == [b EXCEPT !.default = FALSE]
  <1>1. /\ v \in RouterWorks /\ v.at = "commit" /\ v.event = w.event /\ v.left = w.left
    BY DEF RouterWorks, WorkPlaces
  <1>2. /\ c \in RouterBoxes /\ c.open = b.open /\ c.pending = b.pending /\ c.running = b.running
        /\ c.saved = b.saved
    BY DEF RouterBoxes
  <1>. HIDE DEF v, c
  <1>3. w.event = "config" /\ w.left = {}
    BY DEF InstanceOk, PlaceOk
  <1>4. PlaceOk(v, o, c)
    BY <1>1, <1>2, <1>3 DEF InstanceOk, PlaceOk
  <1>5. SettingsOk(v, o, c, t, m)
    BY <1>1, <1>2, <1>3 DEF InstanceOk, SettingsOk
  <1>6. PromiseOk(o, c, t, m)
    BY <1>2, <1>3 DEF InstanceOk, PromiseOk, SettingsOk
  <1>. QED
    BY <1>1, <1>2, <1>4, <1>5, <1>6 DEF InstanceOk, v, c

(* What a commit that the machine does, whatever it answers, puts in effect*)
(* together.                                                               *)
Committed(b, e) == [b EXCEPT !.running = @ \cup b.pending[e]]

LEMMA CommittedOk ==
  ASSUME NEW w \in RouterWorks, NEW o \in RouterOutcomes, NEW b \in RouterBoxes, NEW t \in RouterTroubles,
         NEW m, InstanceOk(w, o, b, t, m), w.at = "commit"
  PROVE  /\ Committed(b, w.event) \in RouterBoxes
         /\ InstanceOk(w, o, Committed(b, w.event), t, m)
  <1>. DEFINE c == Committed(b, w.event)
  <1>1. w.event \in Event /\ b.pending[w.event] \subseteq Card \cup RuleSet /\ w.left = {}
    BY DEF InstanceOk, PlaceOk, RouterBoxes, RouterWorks
  <1>2. /\ c \in RouterBoxes /\ c.open = b.open /\ c.pending = b.pending
        /\ c.running = b.running \cup b.pending[w.event]
        /\ c.saved = b.saved /\ c.default = b.default
    BY <1>1 DEF RouterBoxes, Committed
  <1>. HIDE DEF c
  <1>3. PlaceOk(w, o, c)
    BY <1>2 DEF InstanceOk, PlaceOk
  <1>4. SettingsOk(w, o, c, t, m)
    BY <1>2 DEF InstanceOk, SettingsOk
  <1>5. PromiseOk(o, c, t, m)
    <2>1. "refused" \notin t => /\ c.running \cap Card \in {{}, Card}
                               /\ c.running \cap RuleSet \in {{}, RuleSet}
      <3>. SUFFICES ASSUME "refused" \notin t
                    PROVE  c.running \cap Card \in {{}, Card} /\ c.running \cap RuleSet \in {{}, RuleSet}
        OBVIOUS
      <3>1. b.running \cap Card \in {{}, Card} /\ b.running \cap RuleSet \in {{}, RuleSet}
        BY DEF InstanceOk, PromiseOk
      <3>2. CASE w.event = "init"
        <4>1. Card \subseteq c.running /\ b.pending["init"] \subseteq Card
          BY <3>2, <1>1, <1>2 DEF InstanceOk, SettingsOk
        <4>2. c.running \cap RuleSet = b.running \cap RuleSet
          BY <4>1, <3>2, <1>2, RulesApart
        <4>. QED
          BY <4>1, <4>2, <3>1
      <3>3. CASE w.event = "config"
        <4>1. RuleSet \subseteq c.running /\ b.pending["config"] \subseteq RuleSet
          BY <3>3, <1>1, <1>2 DEF InstanceOk, SettingsOk
        <4>2. c.running \cap Card = b.running \cap Card
          BY <4>1, <3>3, <1>2, RulesApart
        <4>. QED
          BY <4>1, <4>2, <3>1
      <3>. QED
        BY <3>2, <3>3, <1>1 DEF Event
    <2>. QED
      BY <2>1, <1>2 DEF InstanceOk, PromiseOk
  <1>. QED
    BY <1>2, <1>3, <1>4, <1>5 DEF InstanceOk, c

(* After a commit that was done, or refused, or of a session not its own,  *)
(* the thread goes on to save.                                             *)
LEMMA ToSaveOk ==
  ASSUME NEW w \in RouterWorks, NEW o \in RouterOutcomes, NEW b \in RouterBoxes, NEW t \in RouterTroubles,
         NEW m, InstanceOk(w, o, b, t, m), w.at = "commit",
         t = {} /\ ~ (w.event = "init" /\ m # {}) => b.pending[w.event] \subseteq b.running
  PROVE  LET v == [w EXCEPT !.at = "save"] IN v \in RouterWorks /\ InstanceOk(v, o, b, t, m)
  <1>. DEFINE v == [w EXCEPT !.at = "save"]
  <1>1. /\ v \in RouterWorks /\ v.at = "save" /\ v.event = w.event /\ v.left = w.left
    BY DEF RouterWorks, WorkPlaces
  <1>. HIDE DEF v
  <1>2. w.left = {} /\ w.event \in {"init", "config"}
    BY DEF InstanceOk, PlaceOk, RouterWorks, Event
  <1>3. PlaceOk(v, o, b)
    BY <1>1, <1>2 DEF InstanceOk, PlaceOk
  <1>4. SettingsOk(v, o, b, t, m)
    BY <1>1, <1>2 DEF InstanceOk, SettingsOk, PlaceOk
  <1>. QED
    BY <1>1, <1>3, <1>4 DEF InstanceOk, v

(* More went wrong: less is promised.                                      *)
LEMMA TroubleOk ==
  ASSUME NEW w \in RouterWorks, NEW o \in RouterOutcomes, NEW b \in RouterBoxes, NEW m,
         NEW t \in RouterTroubles, InstanceOk(w, o, b, t, m), NEW a \in RouterTroubles, t \subseteq a
  PROVE  InstanceOk(w, o, b, a, m)
  <1>1. SettingsOk(w, o, b, a, m)
    BY DEF InstanceOk, SettingsOk
  <1>2. PromiseOk(o, b, a, m)
    BY DEF InstanceOk, PromiseOk
  <1>. QED
    BY <1>1, <1>2 DEF InstanceOk

LEMMA SaveOk ==
  ASSUME NEW w \in RouterWorks, NEW o \in RouterOutcomes, NEW b \in RouterBoxes, NEW t \in RouterTroubles,
         NEW m, NEW c \in RouterBoxes, InstanceOk(w, o, b, t, m), w.at = "save",
         c = b \/ c = [b EXCEPT !.saved = b.running],
         t = {} /\ ~ (w.event = "init" /\ m # {}) => c.saved = c.running
  PROVE  LET p == [o EXCEPT ![w.event] = "COMPLETE"] IN
         p \in RouterOutcomes /\ InstanceOk(EndedWork, p, c, t, m)
  <1>. DEFINE p == [o EXCEPT ![w.event] = "COMPLETE"]
  <1>1. o[w.event] = "none" /\ w.event \in Event
    BY DEF InstanceOk, PlaceOk, RouterWorks, RouterOutcomes, Event
  <1>2. p \in RouterOutcomes /\ p[w.event] = "COMPLETE" /\ \A e \in Event : e # w.event => p[e] = o[e]
    BY <1>1 DEF RouterOutcomes
  <1>. HIDE DEF p
  <1>3. /\ c.open = b.open /\ c.pending = b.pending /\ c.running = b.running /\ c.default = b.default
        /\ c.saved \in {b.saved, b.running}
    BY DEF RouterBoxes
  <1>4. p["init"] # "none" /\ (p["config"] = "none" => w.event = "init")
    BY <1>1, <1>2 DEF InstanceOk, PlaceOk, Event, RouterOutcomes
  <1>5. PlaceOk(EndedWork, p, c)
    BY <1>4 DEF PlaceOk, EndedWork
  <1>6. SettingsOk(EndedWork, p, c, t, m)
    BY <1>3, <1>4 DEF InstanceOk, SettingsOk, EndedWork
  <1>7. PromiseOk(p, c, t, m)
    <2>1. t = {} => /\ p["init"] = "COMPLETE" /\ m = {} => Card \subseteq c.saved
                    /\ p["config"] = "COMPLETE" => RuleSet \subseteq c.saved
      <3>. SUFFICES ASSUME t = {}
                    PROVE  /\ p["init"] = "COMPLETE" /\ m = {} => Card \subseteq c.saved
                           /\ p["config"] = "COMPLETE" => RuleSet \subseteq c.saved
        OBVIOUS
      <3>1. CASE w.event = "init"
        <4>1. p["config"] = "none"
          BY <3>1, <1>2 DEF InstanceOk, PlaceOk, Event, RouterOutcomes
        <4>. QED
          BY <4>1, <3>1, <1>3 DEF InstanceOk, SettingsOk
      <3>2. CASE w.event = "config"
        <4>1. p["init"] = o["init"] /\ RuleSet \subseteq c.saved
          BY <3>2, <1>2, <1>3 DEF InstanceOk, SettingsOk, Event
        <4>2. o["init"] = "COMPLETE" /\ m = {} => Card \subseteq c.saved
          BY <1>3 DEF InstanceOk, PromiseOk, SettingsOk
        <4>. QED
          BY <4>1, <4>2
      <3>. QED
        BY <3>1, <3>2, <1>1 DEF Event
    <2>2. \A e \in Event : p[e] = "ERROR" => o[e] = "ERROR"
      BY <1>1, <1>2
    <2>3. \A e \in Event :
            p[e] = "ERROR" =>
              t # {} \/ (e = "config" /\ "config" \in c.open /\ c.pending["config"] = {})
      BY <2>2, <1>3 DEF InstanceOk, PromiseOk
    <2>4. (~ c.default => "refused" \in t \/ RuleSet \subseteq c.pending["config"])
          /\ ("refused" \notin t => /\ c.running \cap Card \in {{}, Card}
                                    /\ c.running \cap RuleSet \in {{}, RuleSet})
      BY <1>3 DEF InstanceOk, PromiseOk
    <2>. QED
      BY <2>1, <2>3, <2>4 DEF PromiseOk
  <1>. QED
    BY <1>2, <1>5, <1>6, <1>7 DEF InstanceOk, p

-----------------------------------------------------------------------------
(* The steps, of which each is of one instance.                            *)

RouterTyped ==
  /\ work \in [RouterVm -> RouterWorks] /\ outcome \in [RouterVm -> RouterOutcomes]
  /\ box \in [RouterVm -> RouterBoxes] /\ troubles \in [RouterVm -> RouterTroubles]

RouterOk(i) == InstanceOk(work[i], outcome[i], box[i], troubles[i], mixed \cap {i})

RouterBase ==
  /\ RouterTypeOK /\ GivesUpLast
  /\ \A i \in RouterVm : RouterOk(i) /\ SessionOwn(i)

LEMMA RouterTypes == RouterTypeOK => RouterTyped
  BY DEF RouterTypeOK, RouterTyped, RouterWorks, RouterOutcomes, RouterBoxes, RouterTroubles, WorkPlaces

LEMMA RouterInvBase == RouterInv <=> RouterBase
  <1>1. CompleteMeansSaved /\ AllOrNone /\ RouteGoesLast /\ ErrorForCause
          <=> \A i \in RouterVm : PromiseOk(outcome[i], box[i], troubles[i], mixed \cap {i})
    BY DEF PromiseOk, CompleteMeansSaved, AllOrNone, RouteGoesLast, ErrorForCause
  <1>. QED
    BY <1>1 DEF RouterInv, RouterBase, RouterOk, InstanceOk

LEMMA RouterStarts == RouterInit => RouterInv
  <1>. SUFFICES ASSUME RouterInit PROVE RouterBase
    BY RouterInvBase
  <1>1. PICK set \in {{}, Card} :
          box = [i \in RouterVm |-> [open |-> {}, pending |-> [e \in Event |-> {}],
                                   running |-> set, saved |-> set, default |-> TRUE]]
    BY DEF RouterInit
  <1>2. RouterTypeOK /\ GivesUpLast
    <2>1. object = NoSession /\ mixed \subseteq RouterVm
      BY DEF RouterInit
    <2>2. 0 \in 0 .. Polls /\ 0 \in 0 .. Tries
      BY DriverAssumption
    <2>3. /\ work \in [RouterVm -> [at : {"idle", "operation", "poll", "session", "read", "put",
                                           "route", "commit", "save"},
                          event : Event, left : SUBSET (Card \cup RuleSet), n : 0 .. Polls]]
          /\ outcome \in [RouterVm -> [Event -> {"none", "COMPLETE", "ERROR"}]]
      BY <2>2 DEF RouterInit, Event
    <2>4. box \in [RouterVm -> [open : SUBSET Event, pending : [Event -> SUBSET (Card \cup RuleSet)],
                         running : SUBSET (Card \cup RuleSet),
                         saved : SUBSET (Card \cup RuleSet), default : BOOLEAN]]
      BY <1>1 DEF Event
    <2>5. troubles \in [RouterVm -> SUBSET {"refused", "failed"}]
      BY DEF RouterInit
    <2>6. /\ ssh \in [state : {"unused", "idle", "retry", "client", "nothing"}, tries : 0 .. Tries,
                      connected : BOOLEAN]
          /\ GivesUpLast
      BY <2>2 DEF RouterInit, GivesUpLast
    <2>. QED
      BY <2>1, <2>3, <2>4, <2>5, <2>6 DEF RouterTypeOK
  <1>3. ASSUME NEW i \in RouterVm PROVE RouterOk(i) /\ SessionOwn(i)
    <2>1. /\ work[i] = [at |-> "idle", event |-> "init", left |-> {}, n |-> 0]
          /\ outcome[i] = [e \in Event |-> "none"] /\ troubles[i] = {} /\ mixed = {}
          /\ box[i] = [open |-> {}, pending |-> [e \in Event |-> {}],
                      running |-> set, saved |-> set, default |-> TRUE]
      BY <1>1 DEF RouterInit
    <2>2. PlaceOk(work[i], outcome[i], box[i])
      BY <2>1 DEF PlaceOk, Event
    <2>3. SettingsOk(work[i], outcome[i], box[i], troubles[i], mixed \cap {i})
      BY <2>1 DEF SettingsOk, Event
    <2>4. PromiseOk(outcome[i], box[i], troubles[i], mixed \cap {i})
      BY <2>1, RulesApart DEF PromiseOk, Event
    <2>. QED
      BY <2>1, <2>2, <2>3, <2>4 DEF RouterOk, InstanceOk, SessionOwn
  <1>. QED
    BY <1>2, <1>3 DEF RouterBase

(* One instance goes on, and what is said of it holds; the others keep     *)
(* still, and their sessions are not taken.                                *)
LEMMA RouterMoves ==
  ASSUME RouterBase, NEW i \in RouterVm, NEW w \in RouterWorks, NEW o \in RouterOutcomes, NEW b \in RouterBoxes,
         NEW t \in RouterTroubles, work' = [work EXCEPT ![i] = w], outcome' = [outcome EXCEPT ![i] = o],
         box' = [box EXCEPT ![i] = b], troubles' = [troubles EXCEPT ![i] = t],
         UNCHANGED <<object, mixed, ssh>>, InstanceOk(w, o, b, t, mixed \cap {i}),
         \A e \in box[i].open : e \in b.open,
         w.event = "init" /\ w.at \in {"read", "put", "commit", "save"} =>
           work[i].event = "init" /\ work[i].at \in {"read", "put", "commit", "save"}
  PROVE  RouterBase'
  <1>1. RouterTyped
    BY RouterTypes DEF RouterBase
  <1>2. /\ work' \in [RouterVm -> RouterWorks] /\ outcome' \in [RouterVm -> RouterOutcomes]
        /\ box' \in [RouterVm -> RouterBoxes] /\ troubles' \in [RouterVm -> RouterTroubles]
        /\ work'[i] = w /\ outcome'[i] = o /\ box'[i] = b /\ troubles'[i] = t
    BY <1>1 DEF RouterTyped
  <1>3. \A j \in RouterVm \ {i} : /\ work'[j] = work[j] /\ outcome'[j] = outcome[j]
                                /\ box'[j] = box[j] /\ troubles'[j] = troubles[j]
    BY <1>1 DEF RouterTyped
  <1>4. RouterTypeOK' /\ GivesUpLast'
    <2>1. object # NoSession => object[1] \in RouterVm /\ "init" \in box'[object[1]].open
      BY <1>2, <1>3 DEF RouterBase, RouterTypeOK
    <2>2. /\ object \in {NoSession} \cup RouterVm \X {"init"} /\ mixed \subseteq RouterVm
          /\ ssh \in [state : {"unused", "idle", "retry", "client", "nothing"}, tries : 0 .. Tries,
                      connected : BOOLEAN]
      BY DEF RouterBase, RouterTypeOK
    <2>3. GivesUpLast'
      BY DEF RouterBase, GivesUpLast
    <2>. QED
      BY <2>1, <2>2, <2>3, <1>2 DEF RouterTypeOK, RouterWorks, RouterOutcomes, RouterBoxes, RouterTroubles, WorkPlaces
  <1>5. ASSUME NEW j \in RouterVm PROVE RouterOk(j)' /\ SessionOwn(j)'
    <2>1. CASE j = i
      BY <2>1, <1>2 DEF RouterBase, RouterOk, SessionOwn
    <2>2. CASE j # i
      BY <2>2, <1>3 DEF RouterBase, RouterOk, SessionOwn
    <2>. QED
      BY <2>1, <2>2
  <1>. QED
    BY <1>4, <1>5 DEF RouterBase

LEMMA GotCases ==
  ASSUME RouterTyped, NEW i \in RouterVm, NEW a \in Replies(i), Got(i, a)
  PROVE  /\ UNCHANGED object
         /\ \/ a = "ok" /\ troubles' = [troubles EXCEPT ![i] = troubles[i]]
            \/ /\ a \in {"refused", "failed"} /\ troubles[i] = {}
               /\ troubles' = [troubles EXCEPT ![i] = {a}]
  BY DEF RouterTyped, Replies, Got

LEMMA RouterAt ==
  ASSUME RouterBase, NEW i \in RouterVm
  PROVE  /\ work[i] \in RouterWorks /\ outcome[i] \in RouterOutcomes /\ box[i] \in RouterBoxes
         /\ troubles[i] \in RouterTroubles /\ RouterTyped
         /\ work = [work EXCEPT ![i] = work[i]] /\ outcome = [outcome EXCEPT ![i] = outcome[i]]
         /\ box = [box EXCEPT ![i] = box[i]] /\ troubles = [troubles EXCEPT ![i] = troubles[i]]
         /\ InstanceOk(work[i], outcome[i], box[i], troubles[i], mixed \cap {i})
  BY RouterTypes DEF RouterBase, RouterTyped, RouterOk

LEMMA ReturnsAs ==
  ASSUME RouterBase, NEW i \in RouterVm, NEW status, Returns(i, status)
  PROVE  /\ work' = [work EXCEPT ![i] = EndedWork]
         /\ outcome' = [outcome EXCEPT ![i] = [outcome[i] EXCEPT ![work[i].event] = status]]
  BY DEF Returns, EndedWork

(* An event goes wrong by what its machine did.                            *)
LEMMA FailKept ==
  ASSUME RouterBase, NEW i \in RouterVm, NEW a \in {"refused", "failed"}, troubles[i] = {},
         NEW b \in RouterBoxes, InstanceOk(work[i], outcome[i], b, {}, mixed \cap {i}),
         \A e \in box[i].open : e \in b.open, box' = [box EXCEPT ![i] = b],
         troubles' = [troubles EXCEPT ![i] = {a}], Returns(i, "ERROR"),
         UNCHANGED <<object, mixed, ssh>>, work[i].at # "idle"
  PROVE  RouterBase'
  <1>1. PICK o \in RouterOutcomes : /\ o = [outcome[i] EXCEPT ![work[i].event] = "ERROR"]
                              /\ InstanceOk(EndedWork, o, b, {a}, mixed \cap {i})
    <2>1. work[i] \in RouterWorks /\ outcome[i] \in RouterOutcomes
      BY RouterAt
    <2>. QED
      BY <2>1, FailOk
  <1>2. work' = [work EXCEPT ![i] = EndedWork] /\ outcome' = [outcome EXCEPT ![i] = o]
    BY <1>1, ReturnsAs
  <1>3. EndedWork \in RouterWorks /\ {a} \in RouterTroubles /\ EndedWork.at = "idle"
    BY IdleTyped DEF RouterTroubles, EndedWork
  <1>. QED
    BY <1>1, <1>2, <1>3, RouterMoves

(* ... and the machine did nothing else.                                   *)
LEMMA FailPlainKept ==
  ASSUME RouterBase, NEW i \in RouterVm, NEW a \in Replies(i) \ {"ok"}, Got(i, a),
         Returns(i, "ERROR"), UNCHANGED <<box, mixed, ssh>>, work[i].at # "idle"
  PROVE  RouterBase'
  <1>1. /\ a \in {"refused", "failed"} /\ troubles[i] = {}
        /\ troubles' = [troubles EXCEPT ![i] = {a}] /\ UNCHANGED object
    <2>1. RouterTyped
      BY RouterAt
    <2>. QED
      BY <2>1, GotCases
  <1>2. /\ box[i] \in RouterBoxes /\ box' = [box EXCEPT ![i] = box[i]]
        /\ InstanceOk(work[i], outcome[i], box[i], {}, mixed \cap {i})
    BY <1>1, RouterAt
  <1>. QED
    BY <1>1, <1>2, FailKept

(* The thread goes on, and its event does not end.                         *)
LEMMA GoesOnKept ==
  ASSUME RouterBase, NEW i \in RouterVm, NEW v \in RouterWorks, NEW b \in RouterBoxes, NEW t \in RouterTroubles,
         InstanceOk(v, outcome[i], b, t, mixed \cap {i}), work' = [work EXCEPT ![i] = v],
         box' = [box EXCEPT ![i] = b], \A e \in box[i].open : e \in b.open,
         troubles' = [troubles EXCEPT ![i] = t],
         v.event = "init" /\ v.at \in {"read", "put", "commit", "save"} =>
           work[i].event = "init" /\ work[i].at \in {"read", "put", "commit", "save"},
         UNCHANGED <<outcome, object, mixed, ssh>>
  PROVE  RouterBase'
  <1>1. outcome[i] \in RouterOutcomes /\ outcome' = [outcome EXCEPT ![i] = outcome[i]]
    BY RouterAt
  <1>. QED
    BY <1>1, RouterMoves

(* What an answer does to the troubles: nothing, or it is the first.       *)
LEMMA AnswerAs ==
  ASSUME RouterBase, NEW i \in RouterVm, NEW a \in Replies(i), Got(i, a)
  PROVE  \E t \in RouterTroubles :
           /\ troubles' = [troubles EXCEPT ![i] = t] /\ troubles[i] \subseteq t
           /\ (a = "ok" => t = troubles[i]) /\ (a # "ok" => t = {a} /\ troubles[i] = {})
           /\ UNCHANGED object
  <1>1. RouterTyped /\ troubles[i] \in RouterTroubles
    BY RouterAt
  <1>2. /\ UNCHANGED object
        /\ \/ a = "ok" /\ troubles' = [troubles EXCEPT ![i] = troubles[i]]
           \/ /\ a \in {"refused", "failed"} /\ troubles[i] = {}
              /\ troubles' = [troubles EXCEPT ![i] = {a}]
    BY <1>1, GotCases
  <1>3. CASE a = "ok" /\ troubles' = [troubles EXCEPT ![i] = troubles[i]]
    BY <1>1, <1>2, <1>3
  <1>4. CASE /\ a \in {"refused", "failed"} /\ troubles[i] = {}
             /\ troubles' = [troubles EXCEPT ![i] = {a}]
    <2>1. {a} \in RouterTroubles
      BY <1>4 DEF RouterTroubles
    <2>. QED
      BY <2>1, <1>2, <1>4
  <1>. QED
    BY <1>2, <1>3, <1>4

LEMMA BeginKept ==
  ASSUME RouterBase, NEW i \in RouterVm, BeginEvent(i)
  PROVE  RouterBase'
  <1>1. PICK at \in {"session", "operation"} :
          /\ WorkGoes(i, at) /\ (at = "session" => outcome[i]["init"] = "none")
          /\ at = "operation" => outcome[i]["init"] = "COMPLETE" /\ outcome[i]["config"] = "none"
    BY DEF BeginEvent
  <1>2. work[i].at = "idle" /\ UNCHANGED <<object, outcome, box, troubles, mixed, ssh>>
    BY DEF BeginEvent
  <1>3. /\ work[i] \in RouterWorks /\ outcome[i] \in RouterOutcomes /\ box[i] \in RouterBoxes
        /\ troubles[i] \in RouterTroubles
        /\ InstanceOk(work[i], outcome[i], box[i], troubles[i], mixed \cap {i})
        /\ box = [box EXCEPT ![i] = box[i]] /\ troubles = [troubles EXCEPT ![i] = troubles[i]]
    BY RouterAt
  <1>4. PICK v \in RouterWorks : /\ v = [work[i] EXCEPT !.at = at]
                           /\ InstanceOk(v, outcome[i], box[i], troubles[i], mixed \cap {i})
    BY <1>1, <1>2, <1>3, BeginOk
  <1>5. work' = [work EXCEPT ![i] = v] /\ v.at = at
    BY <1>1, <1>3, <1>4 DEF WorkGoes, RouterWorks
  <1>. QED
    BY <1>2, <1>3, <1>4, <1>5, GoesOnKept

LEMMA BeforeKept ==
  ASSUME RouterBase, NEW i \in RouterVm, NEW v \in RouterWorks, NEW t \in RouterTroubles,
         Nearer(work[i], v, troubles[i], t), work' = [work EXCEPT ![i] = v],
         troubles' = [troubles EXCEPT ![i] = t], UNCHANGED <<object, outcome, box, mixed, ssh>>
  PROVE  RouterBase'
  <1>1. /\ work[i] \in RouterWorks /\ outcome[i] \in RouterOutcomes /\ box[i] \in RouterBoxes
        /\ troubles[i] \in RouterTroubles
        /\ InstanceOk(work[i], outcome[i], box[i], troubles[i], mixed \cap {i})
        /\ box = [box EXCEPT ![i] = box[i]]
    BY RouterAt
  <1>2. InstanceOk(v, outcome[i], box[i], t, mixed \cap {i})
    BY <1>1, BeforeSessionOk
  <1>3. v.at \notin {"read", "put", "commit", "save"}
    BY DEF Nearer
  <1>. QED
    BY <1>1, <1>2, <1>3, GoesOnKept

LEMMA AskInterfacesKept ==
  ASSUME RouterBase, NEW i \in RouterVm, AskInterfaces(i)
  PROVE  RouterBase'
  <1>1. PICK a \in Replies(i) :
          /\ Got(i, a)
          /\ IF a = "ok" THEN WorkGoes(i, "poll") /\ UNCHANGED outcome ELSE Returns(i, "ERROR")
    BY DEF AskInterfaces
  <1>2. work[i].at = "operation" /\ UNCHANGED <<box, mixed, ssh>>
    BY DEF AskInterfaces
  <1>3. CASE a = "ok"
    <2>1. PICK v \in RouterWorks : /\ v.event = work[i].event /\ v.at = "poll" /\ v.left = {}
                             /\ work' = [work EXCEPT ![i] = v]
      <3>. DEFINE v == [work[i] EXCEPT !.at = "poll"]
      <3>1. v \in RouterWorks /\ v.event = work[i].event /\ v.at = "poll" /\ v.left = {}
        BY <1>2, RouterAt DEF RouterWorks, WorkPlaces, InstanceOk, PlaceOk
      <3>. QED
        BY <3>1, <1>1, <1>3 DEF WorkGoes
    <2>2. PICK t \in RouterTroubles : /\ troubles' = [troubles EXCEPT ![i] = t] /\ troubles[i] \subseteq t
                                /\ UNCHANGED object
      BY <1>1, AnswerAs
    <2>3. Nearer(work[i], v, troubles[i], t) /\ UNCHANGED <<object, outcome, box, mixed, ssh>>
      BY <1>1, <1>2, <1>3, <2>1, <2>2 DEF Nearer
    <2>. QED
      BY <2>1, <2>2, <2>3, BeforeKept
  <1>4. CASE a # "ok"
    BY <1>1, <1>2, <1>4, FailPlainKept
  <1>. QED
    BY <1>3, <1>4

LEMMA NotReadyKept ==
  ASSUME RouterBase, NEW i \in RouterVm, NotReady(i)
  PROVE  RouterBase'
  <1>1. work[i].at = "poll" /\ UNCHANGED <<outcome, troubles, object, box, mixed, ssh>>
    BY DEF NotReady
  <1>2. /\ work[i] \in RouterWorks /\ troubles[i] \in RouterTroubles /\ work[i].left = {}
        /\ troubles = [troubles EXCEPT ![i] = troubles[i]]
    BY <1>1, RouterAt DEF InstanceOk, PlaceOk
  <1>3. PICK v \in RouterWorks : /\ v.event = work[i].event /\ v.at \in {"poll", "session"} /\ v.left = {}
                           /\ work' = [work EXCEPT ![i] = v]
    <2>1. CASE work[i].n = Polls
      <3>. DEFINE v == [work[i] EXCEPT !.at = "session"]
      <3>1. v \in RouterWorks /\ v.event = work[i].event /\ v.at = "session" /\ v.left = {}
        BY <1>2 DEF RouterWorks, WorkPlaces
      <3>2. work' = [work EXCEPT ![i] = v]
        BY <2>1 DEF NotReady, WorkGoes
      <3>. QED
        BY <3>1, <3>2
    <2>2. CASE work[i].n # Polls
      <3>. DEFINE v == [work[i] EXCEPT !.n = @ + 1]
      <3>1. v \in RouterWorks /\ v.event = work[i].event /\ v.at = "poll" /\ v.left = {}
        BY <1>1, <1>2, <2>2, DriverAssumption DEF RouterWorks, WorkPlaces
      <3>2. work' = [work EXCEPT ![i] = v]
        BY <2>2 DEF NotReady
      <3>. QED
        BY <3>1, <3>2
    <2>. QED
      BY <2>1, <2>2
  <1>4. /\ Nearer(work[i], v, troubles[i], troubles[i])
        /\ UNCHANGED <<object, outcome, box, mixed, ssh>>
        /\ troubles' = [troubles EXCEPT ![i] = troubles[i]]
    BY <1>1, <1>2, <1>3 DEF Nearer
  <1>. QED
    BY <1>2, <1>3, <1>4, BeforeKept

LEMMA ReadInterfacesKept ==
  ASSUME RouterBase, NEW i \in RouterVm, ReadInterfaces(i)
  PROVE  RouterBase'
  <1>1. work[i].at = "poll" /\ UNCHANGED <<box, mixed, ssh>>
    BY DEF ReadInterfaces
  <1>2. work[i] \in RouterWorks /\ work[i].left = {} /\ work \in [RouterVm -> RouterWorks]
    BY <1>1, RouterAt DEF InstanceOk, PlaceOk, RouterTyped
  <1>3. ASSUME NEW a \in Replies(i), Got(i, a), UNCHANGED outcome, NEW v \in RouterWorks,
               v.event = work[i].event, v.at = "session", v.left \in {{}, RuleSet},
               work' = [work EXCEPT ![i] = v]
        PROVE  RouterBase'
    <2>1. PICK t \in RouterTroubles : /\ troubles' = [troubles EXCEPT ![i] = t] /\ troubles[i] \subseteq t
                                /\ UNCHANGED object
      BY <1>3, AnswerAs
    <2>2. Nearer(work[i], v, troubles[i], t) /\ UNCHANGED <<object, outcome, box, mixed, ssh>>
      BY <1>1, <1>3, <2>1 DEF Nearer
    <2>. QED
      BY <1>3, <2>1, <2>2, BeforeKept
  <1>4. CASE work' = [work EXCEPT ![i].at = "session", ![i].left = RuleSet] /\ Got(i, "ok") /\ UNCHANGED outcome
    <2>. DEFINE v == [work[i] EXCEPT !.at = "session", !.left = RuleSet]
    <2>1. v \in RouterWorks /\ v.event = work[i].event /\ v.at = "session" /\ v.left = RuleSet
      BY <1>2 DEF RouterWorks, WorkPlaces
    <2>2. work' = [work EXCEPT ![i] = v]
      BY <1>4, <1>2
    <2>3. "ok" \in Replies(i)
      BY DEF Replies
    <2>. HIDE DEF v
    <2>. QED
      BY <1>4, <2>1, <2>2, <2>3, <1>3
  <1>5. CASE "refused" \in Replies(i) /\ Got(i, "refused") /\ WorkGoes(i, "session") /\ UNCHANGED outcome
    <2>. DEFINE v == [work[i] EXCEPT !.at = "session"]
    <2>1. v \in RouterWorks /\ v.event = work[i].event /\ v.at = "session" /\ v.left = {}
      BY <1>2 DEF RouterWorks, WorkPlaces
    <2>2. work' = [work EXCEPT ![i] = v]
      BY <1>5 DEF WorkGoes
    <2>. HIDE DEF v
    <2>. QED
      BY <1>5, <2>1, <2>2, <1>3
  <1>6. CASE "failed" \in Replies(i) /\ Got(i, "failed") /\ Returns(i, "ERROR")
    <2>1. "failed" \in Replies(i) \ {"ok"} /\ work[i].at # "idle"
      BY <1>1, <1>6
    <2>. QED
      BY <1>1, <1>6, <2>1, FailPlainKept
  <1>. QED
    BY <1>4, <1>5, <1>6 DEF ReadInterfaces

(* A session for config goes to its own object; without the public         *)
(* interface the event ends.                                               *)
LEMMA OpenConfigKept ==
  ASSUME RouterBase, NEW i \in RouterVm, work[i].at = "session", work[i].event = "config",
         Got(i, "ok"), box' = [box EXCEPT ![i].open = @ \cup {"config"}],
         IF work[i].left = {} THEN Returns(i, "ERROR") ELSE WorkGoes(i, "put") /\ UNCHANGED outcome,
         UNCHANGED <<mixed, ssh>>
  PROVE  RouterBase'
  <1>1. /\ work[i] \in RouterWorks /\ outcome[i] \in RouterOutcomes /\ box[i] \in RouterBoxes
        /\ troubles[i] \in RouterTroubles
        /\ InstanceOk(work[i], outcome[i], box[i], troubles[i], mixed \cap {i})
        /\ troubles = [troubles EXCEPT ![i] = troubles[i]]
    BY RouterAt
  <1>2. troubles' = [troubles EXCEPT ![i] = troubles[i]] /\ UNCHANGED <<object, mixed, ssh>>
    BY <1>1 DEF Got
  <1>3. PICK c \in RouterBoxes :
          /\ c = [box[i] EXCEPT !.open = @ \cup {"config"}]
          /\ work[i].left = {} =>
               /\ [outcome[i] EXCEPT !["config"] = "ERROR"] \in RouterOutcomes
               /\ InstanceOk(EndedWork, [outcome[i] EXCEPT !["config"] = "ERROR"], c, troubles[i], mixed \cap {i})
          /\ work[i].left # {} =>
               /\ [work[i] EXCEPT !.at = "put"] \in RouterWorks
               /\ InstanceOk([work[i] EXCEPT !.at = "put"], outcome[i], c, troubles[i], mixed \cap {i})
    BY <1>1, ConfigSessionOk
  <1>4. box' = [box EXCEPT ![i] = c] /\ \A e \in box[i].open : e \in c.open
    BY <1>1, <1>3 DEF RouterBoxes
  <1>5. CASE work[i].left = {}
    <2>1. PICK o \in RouterOutcomes : /\ o = [outcome[i] EXCEPT !["config"] = "ERROR"]
                                /\ InstanceOk(EndedWork, o, c, troubles[i], mixed \cap {i})
      BY <1>3, <1>5
    <2>2. work' = [work EXCEPT ![i] = EndedWork] /\ outcome' = [outcome EXCEPT ![i] = o]
      BY <1>5, <2>1, ReturnsAs
    <2>3. EndedWork \in RouterWorks /\ EndedWork.at = "idle"
      BY IdleTyped DEF EndedWork
    <2>. QED
      BY <1>1, <1>2, <1>4, <2>1, <2>2, <2>3, RouterMoves
  <1>6. CASE work[i].left # {}
    <2>1. PICK v \in RouterWorks : /\ v = [work[i] EXCEPT !.at = "put"]
                             /\ InstanceOk(v, outcome[i], c, troubles[i], mixed \cap {i})
      BY <1>3, <1>6
    <2>2. work' = [work EXCEPT ![i] = v] /\ UNCHANGED outcome /\ v.event = "config"
      BY <1>1, <1>6, <2>1 DEF WorkGoes, RouterWorks
    <2>. QED
      BY <1>1, <1>2, <1>4, <2>1, <2>2, GoesOnKept
  <1>. QED
    BY <1>5, <1>6

(* Whose session was another's is promised less.                           *)
LEMMA MixedOk ==
  ASSUME NEW w, NEW o, NEW b, NEW t, NEW m, NEW n, InstanceOk(w, o, b, t, m), n = {} => m = {}
  PROVE  InstanceOk(w, o, b, t, n)
  BY DEF InstanceOk, SettingsOk, PromiseOk

(* A session for init goes to the object of all: the others that are under *)
(* way with it name this one from now on.                                  *)
LEMMA OpenInitKept ==
  ASSUME RouterBase, NEW i \in RouterVm, work[i].at = "session", work[i].event = "init",
         UNCHANGED <<troubles, outcome, ssh>>, object' = <<i, "init">>,
         box' = [box EXCEPT ![i].open = @ \cup {"init"}], WorkGoes(i, "read"),
         mixed' = mixed \cup {j \in RouterVm \ {i} : /\ work[j].event = "init"
                                                   /\ work[j].at \in {"read", "put", "commit", "save"}}
  PROVE  RouterBase'
  <1>1. /\ work[i] \in RouterWorks /\ outcome[i] \in RouterOutcomes /\ box[i] \in RouterBoxes
        /\ troubles[i] \in RouterTroubles /\ RouterTyped
        /\ InstanceOk(work[i], outcome[i], box[i], troubles[i], mixed \cap {i})
    BY RouterAt
  <1>2. PICK c \in RouterBoxes, v \in RouterWorks :
          /\ c = [box[i] EXCEPT !.open = @ \cup {"init"}] /\ v = [work[i] EXCEPT !.at = "read"]
          /\ InstanceOk(v, outcome[i], c, troubles[i], mixed \cap {i}) /\ "init" \in c.open
    BY <1>1, InitSessionOk
  <1>3. work' = [work EXCEPT ![i] = v] /\ box' = [box EXCEPT ![i] = c]
    BY <1>2 DEF WorkGoes
  <1>4. /\ work' \in [RouterVm -> RouterWorks] /\ box' \in [RouterVm -> RouterBoxes]
        /\ work'[i] = v /\ box'[i] = c
    BY <1>1, <1>3 DEF RouterTyped
  <1>5. \A j \in RouterVm \ {i} : work'[j] = work[j] /\ box'[j] = box[j]
    BY <1>1, <1>3 DEF RouterTyped
  <1>6. RouterTypeOK' /\ GivesUpLast'
    <2>1. /\ object' \in {NoSession} \cup RouterVm \X {"init"} /\ object'[1] = i
          /\ mixed' \subseteq RouterVm
      BY DEF RouterBase, RouterTypeOK
    <2>2. /\ ssh \in [state : {"unused", "idle", "retry", "client", "nothing"}, tries : 0 .. Tries,
                      connected : BOOLEAN]
          /\ GivesUpLast
      BY DEF RouterBase, RouterTypeOK
    <2>3. GivesUpLast'
      BY <2>2 DEF GivesUpLast
    <2>4. outcome \in [RouterVm -> RouterOutcomes] /\ troubles \in [RouterVm -> RouterTroubles]
      BY <1>1 DEF RouterTyped
    <2>. QED
      BY <2>1, <2>2, <2>3, <2>4, <1>2, <1>4 DEF RouterTypeOK, RouterWorks, RouterOutcomes, RouterBoxes, RouterTroubles, WorkPlaces
  <1>7. ASSUME NEW j \in RouterVm PROVE RouterOk(j)' /\ SessionOwn(j)'
    <2>1. CASE j = i
      <3>1. mixed' \cap {i} = mixed \cap {i}
        OBVIOUS
      <3>. QED
        BY <2>1, <3>1, <1>2, <1>4 DEF RouterOk, SessionOwn
    <2>2. CASE j # i
      <3>1. work'[j] = work[j] /\ box'[j] = box[j]
        BY <2>2, <1>5
      <3>2. InstanceOk(work[j], outcome[j], box[j], troubles[j], mixed \cap {j})
        BY DEF RouterBase, RouterOk
      <3>3. mixed' \cap {j} = {} => mixed \cap {j} = {}
        OBVIOUS
      <3>4. InstanceOk(work[j], outcome[j], box[j], troubles[j], mixed' \cap {j})
        BY <3>2, <3>3, MixedOk
      <3>5. SessionOwn(j)'
        BY <2>2, <3>1 DEF SessionOwn
      <3>. QED
        BY <3>1, <3>4, <3>5 DEF RouterOk
    <2>. QED
      BY <2>1, <2>2
  <1>. QED
    BY <1>6, <1>7 DEF RouterBase

LEMMA OpenSessionKept ==
  ASSUME RouterBase, NEW i \in RouterVm, OpenSession(i)
  PROVE  RouterBase'
  <1>1. work[i].at = "session" /\ UNCHANGED ssh
    BY DEF OpenSession
  <1>2. CASE /\ Got(i, "ok") /\ box' = [box EXCEPT ![i].open = @ \cup {work[i].event}]
             /\ work[i].event = "config"
             /\ IF work[i].left = {} THEN Returns(i, "ERROR") ELSE WorkGoes(i, "put") /\ UNCHANGED outcome
             /\ UNCHANGED mixed
    BY <1>1, <1>2, OpenConfigKept
  <1>3. CASE /\ UNCHANGED troubles /\ object' = <<i, "init">>
             /\ box' = [box EXCEPT ![i].open = @ \cup {work[i].event}]
             /\ work[i].event = "init" /\ WorkGoes(i, "read")
             /\ mixed' = mixed \cup {j \in RouterVm \ {i} : /\ work[j].event = "init"
                                                          /\ work[j].at \in {"read", "put", "commit", "save"}}
             /\ UNCHANGED outcome
    BY <1>1, <1>3, OpenInitKept
  <1>4. CASE /\ \E a \in Replies(i) \ {"ok"} : Got(i, a)
             /\ Returns(i, "ERROR") /\ UNCHANGED <<box, mixed>>
    BY <1>1, <1>4, FailPlainKept
  <1>. QED
    BY <1>2, <1>3, <1>4 DEF OpenSession

LEMMA ReadCardsKept ==
  ASSUME RouterBase, NEW i \in RouterVm, ReadCards(i)
  PROVE  RouterBase'
  <1>1. PICK a \in Replies(i) :
          /\ Got(i, a)
          /\ IF a = "ok"
             THEN /\ LET bare == Card \ box[i].running IN
                     work' = [work EXCEPT ![i].left = bare,
                                          ![i].at = IF bare = {} THEN "commit" ELSE "put"]
                  /\ UNCHANGED outcome
             ELSE Returns(i, "ERROR")
    BY DEF ReadCards
  <1>2. work[i].at = "read" /\ UNCHANGED <<box, mixed, ssh>>
    BY DEF ReadCards
  <1>3. CASE a = "ok"
    <2>1. /\ work[i] \in RouterWorks /\ outcome[i] \in RouterOutcomes /\ box[i] \in RouterBoxes
          /\ troubles[i] \in RouterTroubles /\ work \in [RouterVm -> RouterWorks]
          /\ InstanceOk(work[i], outcome[i], box[i], troubles[i], mixed \cap {i})
          /\ box = [box EXCEPT ![i] = box[i]]
      BY RouterAt DEF RouterTyped
    <2>2. PICK t \in RouterTroubles : /\ troubles' = [troubles EXCEPT ![i] = t] /\ t = troubles[i]
                                /\ UNCHANGED object
      BY <1>1, <1>3, AnswerAs
    <2>. DEFINE bare == Card \ box[i].running
    <2>3. PICK v \in RouterWorks :
            /\ v = [work[i] EXCEPT !.left = bare, !.at = IF bare = {} THEN "commit" ELSE "put"]
            /\ InstanceOk(v, outcome[i], box[i], troubles[i], mixed \cap {i})
      BY <1>2, <2>1, ReadCardsOk
    <2>4. work' = [work EXCEPT ![i] = v]
      BY <1>1, <1>3, <2>1, <2>3
    <2>5. work[i].event = "init"
      BY <1>2, <2>1 DEF InstanceOk, PlaceOk
    <2>6. UNCHANGED <<outcome, object, mixed, ssh>> /\ box' = [box EXCEPT ![i] = box[i]]
      BY <1>1, <1>2, <1>3, <2>1, <2>2
    <2>. HIDE DEF bare
    <2>. QED
      BY <1>2, <2>1, <2>2, <2>3, <2>4, <2>5, <2>6, GoesOnKept
  <1>4. CASE a # "ok"
    BY <1>1, <1>2, <1>4, FailPlainKept
  <1>. QED
    BY <1>3, <1>4

(* The setting that is next is one of those of the event.                  *)
LEMMA NextSettingIn ==
  ASSUME NEW i \in RouterVm, NEW o, NEW b, work[i] \in RouterWorks, PlaceOk(work[i], o, b),
         work[i].at = "put"
  PROVE  NextSetting(i) \in (IF work[i].event = "init" THEN Card ELSE RuleSet)
  <1>1. work[i].left # {} /\ work[i].left \subseteq (IF work[i].event = "init" THEN Card ELSE RuleSet)
    BY DEF PlaceOk
  <1>2. CASE work[i].event = "init"
    BY <1>1, <1>2 DEF NextSetting
  <1>3. CASE work[i].event # "init"
    <2>1. Rules[Len(Rules) - Cardinality(work[i].left) + 1] \in RuleSet
      BY <1>1, <1>3, NextInRules
    <2>. QED
      BY <1>3, <2>1 DEF NextSetting
  <1>. QED
    BY <1>2, <1>3

LEMMA PutKept ==
  ASSUME RouterBase, NEW i \in RouterVm, Put(i)
  PROVE  RouterBase'
  <1>1. PICK a \in Replies(i) :
          /\ Got(i, a) /\ PutPending(i, a)
          /\ IF a = "failed" THEN Returns(i, "ERROR")
             ELSE /\ LET rest == work[i].left \ {NextSetting(i)} IN
                     work' = [work EXCEPT ![i].left = rest, ![i].at = AfterPuts(i, rest)]
                  /\ UNCHANGED outcome
    BY DEF Put
  <1>2. work[i].at = "put" /\ UNCHANGED <<mixed, ssh>>
    BY DEF Put
  <1>3. CASE a = "failed"
    <2>1. UNCHANGED box /\ Returns(i, "ERROR") /\ a \in Replies(i) \ {"ok"}
      BY <1>1, <1>3 DEF PutPending
    <2>. QED
      BY <1>1, <1>2, <2>1, FailPlainKept
  <1>4. CASE a # "failed"
    <2>1. /\ work[i] \in RouterWorks /\ outcome[i] \in RouterOutcomes /\ box[i] \in RouterBoxes
          /\ troubles[i] \in RouterTroubles /\ work \in [RouterVm -> RouterWorks] /\ box \in [RouterVm -> RouterBoxes]
          /\ InstanceOk(work[i], outcome[i], box[i], troubles[i], mixed \cap {i})
      BY RouterAt DEF RouterTyped
    <2>2. PICK t \in RouterTroubles :
            /\ troubles' = [troubles EXCEPT ![i] = t] /\ troubles[i] \subseteq t
            /\ (a = "ok" => t = troubles[i]) /\ (a # "ok" => t = {a} /\ troubles[i] = {})
            /\ UNCHANGED object
      BY <1>1, AnswerAs
    <2>3. PICK s : s = NextSetting(i)
      OBVIOUS
    <2>4. s \in (IF work[i].event = "init" THEN Card ELSE RuleSet)
      BY <1>2, <2>1, <2>3, NextSettingIn DEF InstanceOk
    <2>5. PICK v \in RouterWorks :
            /\ v.left = work[i].left \ {s} /\ v.event = work[i].event
            /\ v.at = (IF v.left # {} THEN "put" ELSE IF work[i].event = "init" THEN "commit" ELSE "route")
            /\ work' = [work EXCEPT ![i] = v]
      <3>. DEFINE rest == work[i].left \ {s}
                  v == [work[i] EXCEPT !.left = rest, !.at = AfterPuts(i, rest)]
      <3>1. v \in RouterWorks /\ v.left = rest /\ v.event = work[i].event /\ v.at = AfterPuts(i, rest)
        BY <2>1 DEF RouterWorks, WorkPlaces, AfterPuts
      <3>2. work' = [work EXCEPT ![i] = v]
        BY <1>1, <1>4, <2>1, <2>3
      <3>. HIDE DEF v
      <3>. QED
        BY <3>1, <3>2 DEF AfterPuts
    <2>6. PICK c \in RouterBoxes :
            /\ box' = [box EXCEPT ![i] = c] /\ c.open = box[i].open /\ c.running = box[i].running
            /\ c.saved = box[i].saved /\ c.default = box[i].default
            /\ \/ c.pending = [box[i].pending EXCEPT ![work[i].event] = @ \cup {s}]
               \/ "refused" \in t /\ c.pending = box[i].pending
      <3>1. CASE a = "ok"
        <4>. DEFINE p == [box[i].pending EXCEPT ![work[i].event] = @ \cup {s}]
                    c == [box[i] EXCEPT !.pending = p]
        <4>1. p \in [Event -> SUBSET (Card \cup RuleSet)]
          BY <2>1, <2>4 DEF RouterBoxes
        <4>2. box' = [box EXCEPT ![i] = c]
          BY <1>1, <3>1, <2>1, <2>3 DEF PutPending
        <4>. HIDE DEF p
        <4>3. /\ c \in RouterBoxes /\ c.open = box[i].open /\ c.running = box[i].running
              /\ c.saved = box[i].saved /\ c.default = box[i].default /\ c.pending = p
          BY <4>1, <2>1 DEF RouterBoxes
        <4>. HIDE DEF c
        <4>. QED
          BY <4>2, <4>3 DEF p
      <3>2. CASE a # "ok"
        <4>1. box' = [box EXCEPT ![i] = box[i]]
          BY <1>1, <3>2, <2>1 DEF PutPending
        <4>2. "refused" \in t
          BY <3>2, <1>4, <2>2 DEF Replies
        <4>. QED
          BY <4>1, <4>2, <2>1
      <3>. QED
        BY <3>1, <3>2
    <2>7. InstanceOk(v, outcome[i], c, t, mixed \cap {i})
      BY <1>2, <2>1, <2>2, <2>4, <2>5, <2>6, PutOk
    <2>8. v.event = work[i].event /\ \A e \in box[i].open : e \in c.open
      BY <2>5, <2>6
    <2>9. UNCHANGED <<outcome, object, mixed, ssh>>
      BY <1>1, <1>2, <1>4, <2>2
    <2>. QED
      BY <1>2, <2>2, <2>5, <2>6, <2>7, <2>8, <2>9, GoesOnKept
  <1>. QED
    BY <1>3, <1>4

LEMMA DropRouteKept ==
  ASSUME RouterBase, NEW i \in RouterVm, DropRoute(i)
  PROVE  RouterBase'
  <1>1. work[i].at = "route" /\ UNCHANGED <<mixed, ssh>>
    BY DEF DropRoute
  <1>2. CASE /\ Got(i, "ok") /\ box' = [box EXCEPT ![i].default = FALSE]
             /\ WorkGoes(i, "commit") /\ UNCHANGED outcome
    <2>1. /\ work[i] \in RouterWorks /\ outcome[i] \in RouterOutcomes /\ box[i] \in RouterBoxes
          /\ troubles[i] \in RouterTroubles /\ troubles = [troubles EXCEPT ![i] = troubles[i]]
          /\ InstanceOk(work[i], outcome[i], box[i], troubles[i], mixed \cap {i})
      BY RouterAt
    <2>2. PICK v \in RouterWorks, c \in RouterBoxes :
            /\ v = [work[i] EXCEPT !.at = "commit"] /\ c = [box[i] EXCEPT !.default = FALSE]
            /\ InstanceOk(v, outcome[i], c, troubles[i], mixed \cap {i})
      BY <1>1, <2>1, RouteOk
    <2>3. work' = [work EXCEPT ![i] = v] /\ box' = [box EXCEPT ![i] = c]
      BY <1>2, <2>2 DEF WorkGoes
    <2>4. v.event = "config" /\ \A e \in box[i].open : e \in c.open
      BY <1>1, <2>1, <2>2 DEF InstanceOk, PlaceOk, RouterWorks, RouterBoxes
    <2>5. troubles' = [troubles EXCEPT ![i] = troubles[i]] /\ UNCHANGED <<outcome, object, mixed, ssh>>
      BY <1>1, <1>2, <2>1 DEF Got
    <2>. QED
      BY <2>1, <2>2, <2>3, <2>4, <2>5, GoesOnKept
  <1>3. CASE "failed" \in Replies(i) /\ Got(i, "failed") /\ Returns(i, "ERROR") /\ UNCHANGED box
    <2>1. "failed" \in Replies(i) \ {"ok"} /\ work[i].at # "idle"
      BY <1>1, <1>3
    <2>. QED
      BY <1>1, <1>3, <2>1, FailPlainKept
  <1>. QED
    BY <1>2, <1>3 DEF DropRoute

(* A thread that commits or saves names a session that its machine has, of *)
(* its own event, unless another took the object's from it.                *)
LEMMA NamedOwn ==
  ASSUME RouterBase, NEW i \in RouterVm, work[i].at \in {"commit", "save"}
  PROVE  /\ Knows(i, SessionNamed(i)) => SessionNamed(i)[2] = work[i].event
         /\ ~ Knows(i, SessionNamed(i)) => work[i].event = "init" /\ mixed \cap {i} # {}
  <1>1. /\ work[i] \in RouterWorks /\ box[i] \in RouterBoxes /\ PlaceOk(work[i], outcome[i], box[i])
        /\ work[i].event \in {"init", "config"}
    BY RouterAt DEF InstanceOk, RouterWorks, Event
  <1>2. CASE work[i].event = "config"
    BY <1>1, <1>2 DEF PlaceOk, Knows, SessionNamed
  <1>3. CASE work[i].event = "init"
    <2>1. SessionNamed(i) = object
      BY <1>3 DEF SessionNamed
    <2>2. /\ object \in {NoSession} \cup RouterVm \X {"init"}
          /\ object # NoSession => "init" \in box[object[1]].open
      BY DEF RouterBase, RouterTypeOK
    <2>3. "none" \notin box[i].open
      BY <1>1 DEF RouterBoxes, Event
    <2>4. Knows(i, object) => object[2] = "init"
      BY <2>2, <2>3 DEF Knows, NoSession
    <2>5. i \notin mixed => object = <<i, "init">>
      BY <1>3 DEF RouterBase, SessionOwn
    <2>6. i \notin mixed => Knows(i, object)
      BY <2>2, <2>5 DEF Knows, NoSession
    <2>. QED
      BY <1>3, <2>1, <2>4, <2>6
  <1>. QED
    BY <1>1, <1>2, <1>3

LEMMA CommitSessionKept ==
  ASSUME RouterBase, NEW i \in RouterVm, CommitSession(i)
  PROVE  RouterBase'
  <1>1. PICK a \in Replies(i) :
          /\ Got(i, a)
          /\ box' = IF a = "refused" \/ ~ Knows(i, SessionNamed(i)) THEN box
                    ELSE [box EXCEPT ![i].running = @ \cup box[i].pending[SessionNamed(i)[2]]]
          /\ IF a = "failed" THEN Returns(i, "ERROR") ELSE WorkGoes(i, "save") /\ UNCHANGED outcome
    BY DEF CommitSession
  <1>2. work[i].at = "commit" /\ UNCHANGED <<mixed, ssh>>
    BY DEF CommitSession
  <1>3. /\ work[i] \in RouterWorks /\ outcome[i] \in RouterOutcomes /\ box[i] \in RouterBoxes
        /\ troubles[i] \in RouterTroubles /\ box = [box EXCEPT ![i] = box[i]]
        /\ InstanceOk(work[i], outcome[i], box[i], troubles[i], mixed \cap {i})
    BY RouterAt
  <1>4. PICK t \in RouterTroubles :
          /\ troubles' = [troubles EXCEPT ![i] = t] /\ troubles[i] \subseteq t
          /\ (a = "ok" => t = troubles[i]) /\ (a # "ok" => t = {a} /\ troubles[i] = {})
          /\ UNCHANGED object
    BY <1>1, AnswerAs
  <1>5. PICK c \in RouterBoxes :
          /\ box' = [box EXCEPT ![i] = c] /\ \A e \in box[i].open : e \in c.open
          /\ InstanceOk(work[i], outcome[i], c, troubles[i], mixed \cap {i})
          /\ a = "ok" /\ ~ (work[i].event = "init" /\ mixed \cap {i} # {}) =>
               c.pending[work[i].event] \subseteq c.running
    <2>1. CASE a = "refused" \/ ~ Knows(i, SessionNamed(i))
      <3>1. box' = [box EXCEPT ![i] = box[i]]
        BY <2>1, <1>1, <1>3
      <3>2. a = "ok" => work[i].event = "init" /\ mixed \cap {i} # {}
        BY <2>1, <1>2, NamedOwn
      <3>. QED
        BY <3>1, <3>2, <1>3
    <2>2. CASE a # "refused" /\ Knows(i, SessionNamed(i))
      <3>1. SessionNamed(i)[2] = work[i].event
        BY <2>2, <1>2, NamedOwn
      <3>2. box' = [box EXCEPT ![i] = Committed(box[i], work[i].event)]
        BY <2>2, <3>1, <1>1 DEF Committed
      <3>3. PICK c \in RouterBoxes : /\ c = Committed(box[i], work[i].event)
                               /\ InstanceOk(work[i], outcome[i], c, troubles[i], mixed \cap {i})
        BY <1>2, <1>3, CommittedOk
      <3>4. c.open = box[i].open /\ c.pending[work[i].event] \subseteq c.running
        BY <3>3, <1>3 DEF Committed, RouterBoxes
      <3>. QED
        BY <3>2, <3>3, <3>4
    <2>. QED
      BY <2>1, <2>2
  <1>6. CASE a = "failed"
    <2>1. /\ InstanceOk(work[i], outcome[i], c, {}, mixed \cap {i}) /\ a \in {"refused", "failed"}
          /\ troubles[i] = {} /\ troubles' = [troubles EXCEPT ![i] = {a}] /\ Returns(i, "ERROR")
          /\ UNCHANGED <<object, mixed, ssh>> /\ work[i].at # "idle"
      BY <1>1, <1>2, <1>4, <1>5, <1>6
    <2>. QED
      BY <1>5, <2>1, FailKept
  <1>7. CASE a # "failed"
    <2>1. InstanceOk(work[i], outcome[i], c, t, mixed \cap {i})
      BY <1>3, <1>4, <1>5, TroubleOk
    <2>2. t = {} /\ ~ (work[i].event = "init" /\ mixed \cap {i} # {}) =>
            c.pending[work[i].event] \subseteq c.running
      BY <1>4, <1>5
    <2>3. PICK v \in RouterWorks : /\ v = [work[i] EXCEPT !.at = "save"]
                             /\ InstanceOk(v, outcome[i], c, t, mixed \cap {i})
      BY <1>2, <1>3, <2>1, <2>2, ToSaveOk
    <2>4. work' = [work EXCEPT ![i] = v] /\ v.event = work[i].event
      BY <1>1, <1>3, <1>7, <2>3 DEF WorkGoes, RouterWorks
    <2>5. UNCHANGED <<outcome, object, mixed, ssh>>
      BY <1>1, <1>2, <1>4, <1>7
    <2>. QED
      BY <1>2, <1>4, <1>5, <2>3, <2>4, <2>5, GoesOnKept
  <1>. QED
    BY <1>6, <1>7

LEMMA SaveSessionKept ==
  ASSUME RouterBase, NEW i \in RouterVm, SaveSession(i)
  PROVE  RouterBase'
  <1>1. PICK a \in Replies(i) :
          /\ Got(i, a)
          /\ box' = IF a # "ok" \/ ~ Knows(i, SessionNamed(i)) THEN box
                    ELSE [box EXCEPT ![i].saved = box[i].running]
          /\ Returns(i, IF a = "failed" THEN "ERROR" ELSE "COMPLETE")
    BY DEF SaveSession
  <1>2. work[i].at = "save" /\ UNCHANGED <<mixed, ssh>>
    BY DEF SaveSession
  <1>3. /\ work[i] \in RouterWorks /\ outcome[i] \in RouterOutcomes /\ box[i] \in RouterBoxes
        /\ troubles[i] \in RouterTroubles /\ box = [box EXCEPT ![i] = box[i]]
        /\ InstanceOk(work[i], outcome[i], box[i], troubles[i], mixed \cap {i})
    BY RouterAt
  <1>4. CASE a = "failed"
    <2>1. UNCHANGED box /\ Returns(i, "ERROR") /\ a \in Replies(i) \ {"ok"} /\ work[i].at # "idle"
      BY <1>1, <1>2, <1>4
    <2>. QED
      BY <1>1, <1>2, <2>1, FailPlainKept
  <1>5. CASE a # "failed"
    <2>1. PICK t \in RouterTroubles :
            /\ troubles' = [troubles EXCEPT ![i] = t] /\ troubles[i] \subseteq t
            /\ (a = "ok" => t = troubles[i]) /\ (a # "ok" => t = {a} /\ troubles[i] = {})
            /\ UNCHANGED object
      BY <1>1, AnswerAs
    <2>2. InstanceOk(work[i], outcome[i], box[i], t, mixed \cap {i})
      BY <1>3, <2>1, TroubleOk
    <2>3. PICK c \in RouterBoxes :
            /\ box' = [box EXCEPT ![i] = c] /\ (c = box[i] \/ c = [box[i] EXCEPT !.saved = box[i].running])
            /\ t = {} /\ ~ (work[i].event = "init" /\ mixed \cap {i} # {}) => c.saved = c.running
      <3>1. CASE a # "ok" \/ ~ Knows(i, SessionNamed(i))
        <4>1. box' = [box EXCEPT ![i] = box[i]]
          BY <3>1, <1>1, <1>3
        <4>2. t # {} \/ (work[i].event = "init" /\ mixed \cap {i} # {})
          BY <3>1, <1>2, <2>1, NamedOwn
        <4>. QED
          BY <4>1, <4>2, <1>3
      <3>2. CASE a = "ok" /\ Knows(i, SessionNamed(i))
        <4>. DEFINE c == [box[i] EXCEPT !.saved = box[i].running]
        <4>1. c \in RouterBoxes /\ c.saved = c.running
          BY <1>3 DEF RouterBoxes
        <4>2. box' = [box EXCEPT ![i] = c]
          BY <3>2, <1>1
        <4>. QED
          BY <4>1, <4>2
      <3>. QED
        BY <3>1, <3>2
    <2>4. PICK o \in RouterOutcomes : /\ o = [outcome[i] EXCEPT ![work[i].event] = "COMPLETE"]
                                /\ InstanceOk(EndedWork, o, c, t, mixed \cap {i})
      BY <1>2, <1>3, <2>2, <2>3, SaveOk
    <2>5. work' = [work EXCEPT ![i] = EndedWork] /\ outcome' = [outcome EXCEPT ![i] = o]
      BY <1>1, <1>5, <2>4, ReturnsAs
    <2>6. EndedWork \in RouterWorks /\ EndedWork.at = "idle" /\ \A e \in box[i].open : e \in c.open
      BY <1>3, <2>3, IdleTyped DEF EndedWork, RouterBoxes
    <2>7. UNCHANGED <<object, mixed, ssh>>
      BY <1>2, <2>1
    <2>. QED
      BY <2>1, <2>3, <2>4, <2>5, <2>6, <2>7, RouterMoves
  <1>. QED
    BY <1>4, <1>5

(* get_ssh_conn keeps apart from the driver.                               *)
LEMMA SshKept ==
  ASSUME RouterBase, SshStep
  PROVE  RouterBase'
  <1>1. UNCHANGED <<object, work, outcome, box, troubles, mixed>>
    BY DEF SshStep, FirstTry, TryAgain
  <1>2. Tries \in Nat /\ ssh \in [state : {"unused", "idle", "retry", "client", "nothing"},
                                  tries : 0 .. Tries, connected : BOOLEAN]
    BY DriverAssumption DEF RouterBase, RouterTypeOK
  <1>3. /\ ssh' \in [state : {"unused", "idle", "retry", "client", "nothing"}, tries : 0 .. Tries,
                     connected : BOOLEAN]
        /\ GivesUpLast'
    <2>1. CASE FirstTry
      BY <2>1, <1>2 DEF FirstTry, GivesUpLast
    <2>2. CASE TryAgain
      <3>1. CASE ssh.tries < Tries /\ ssh' = [ssh EXCEPT !.state = "client", !.connected = TRUE]
        BY <3>1, <1>2 DEF GivesUpLast
      <3>2. CASE ssh.tries < Tries /\ ssh.state = "retry" /\ ssh' = [ssh EXCEPT !.tries = @ + 1]
        <4>1. ssh.tries + 1 \in 0 .. Tries
          BY <3>2, <1>2
        <4>. QED
          BY <4>1, <3>2, <1>2 DEF GivesUpLast
      <3>3. CASE ssh.tries = Tries /\ ssh' = [ssh EXCEPT !.state = "client"]
        BY <3>3, <1>2 DEF GivesUpLast
      <3>. QED
        BY <2>2, <3>1, <3>2, <3>3 DEF TryAgain
    <2>. QED
      BY <2>1, <2>2 DEF SshStep
  <1>4. RouterTypeOK'
    BY <1>1, <1>3 DEF RouterBase, RouterTypeOK
  <1>5. ASSUME NEW i \in RouterVm PROVE RouterOk(i)' /\ SessionOwn(i)'
    BY <1>1 DEF RouterBase, RouterOk, SessionOwn
  <1>. QED
    BY <1>3, <1>4, <1>5 DEF RouterBase

LEMMA RouterSame == ASSUME RouterBase, UNCHANGED routerVars PROVE RouterBase'
  <1>1. UNCHANGED <<object, work, outcome, box, troubles, mixed, ssh>>
    BY DEF routerVars
  <1>2. RouterTypeOK' /\ GivesUpLast'
    BY <1>1 DEF RouterBase, RouterTypeOK, GivesUpLast
  <1>3. ASSUME NEW i \in RouterVm PROVE RouterOk(i)' /\ SessionOwn(i)'
    BY <1>1 DEF RouterBase, RouterOk, SessionOwn
  <1>. QED
    BY <1>2, <1>3 DEF RouterBase

LEMMA RouterKept == RouterInv /\ [RouterNext]_routerVars => RouterInv'
  <1>. SUFFICES ASSUME RouterBase, [RouterNext]_routerVars PROVE RouterBase'
    BY RouterInvBase, PTL
  <1>1. CASE UNCHANGED routerVars
    BY <1>1, RouterSame
  <1>2. ASSUME NEW i \in RouterVm, BeginEvent(i) \/ RouterStep(i) PROVE RouterBase'
    BY <1>2, BeginKept, AskInterfacesKept, NotReadyKept, ReadInterfacesKept, OpenSessionKept,
       ReadCardsKept, PutKept, DropRouteKept, CommitSessionKept, SaveSessionKept DEF RouterStep
  <1>3. CASE SshStep
    BY <1>3, SshKept
  <1>. QED
    BY <1>1, <1>2, <1>3 DEF RouterNext

(***************************************************************************)
(* SharedClients                                                           *)
(***************************************************************************)

-----------------------------------------------------------------------------
(* Sequences *)

LEMMA TodoTail ==
  ASSUME NEW s \in Seq(ApiCalls), s # << >>
  PROVE  /\ Tail(s) \in Seq(ApiCalls) /\ Len(s) \in Nat /\ Len(s) >= 1 /\ Len(Tail(s)) = Len(s) - 1
         /\ Head(s) = s[1] /\ s[1] \in ApiCalls /\ (Len(s) = 1 <=> Tail(s) = << >>)
         /\ \A k \in 1 .. Len(s) - 1 : Tail(s)[k] = s[k + 1]
  <1>. DEFINE t == Tail(s)
  <1>1. /\ t \in Seq(ApiCalls) /\ Len(s) \in Nat /\ Len(s) >= 1 /\ Len(t) = Len(s) - 1
        /\ Head(s) = s[1] /\ s[1] \in ApiCalls
        /\ \A k \in 1 .. Len(s) - 1 : t[k] = s[k + 1]
    OBVIOUS
  <1>2. Len(s) = 1 <=> t = << >>
    <2>. HIDE DEF t
    <2>. QED
      BY <1>1
  <1>. QED
    BY <1>1, <1>2

(* What is looked at was made, or will be, when a call is done.            *)
LEMMA MadeAfter ==
  ASSUME NEW s \in Seq(ApiCalls), s # << >>, NEW held, NEW more, MadeBefore(s, held), held \subseteq more,
         Head(s)[1] = "make" => \E x \in more : x[1] = Head(s)[2]
  PROVE  MadeBefore(Tail(s), more)
  <1>. DEFINE t == Tail(s)
  <1>1. /\ Len(s) \in Nat /\ Len(s) >= 1 /\ Len(t) = Len(s) - 1 /\ Head(s) = s[1]
        /\ \A k \in 1 .. Len(s) - 1 : t[k] = s[k + 1]
    BY TodoTail
  <1>. HIDE DEF t
  <1>2. ASSUME NEW k \in 1 .. Len(t), t[k][1] = "look"
        PROVE  \/ \E x \in more : x[1] = t[k][2]
               \/ \E j \in 1 .. k - 1 : t[j] = <<"make", t[k][2]>>
    <2>1. PICK n \in 1 .. Len(s) : t[k] = s[n] /\ k \in Nat /\ n - 1 = k
      <3>1. k + 1 \in 1 .. Len(s) /\ t[k] = s[k + 1] /\ k \in Nat /\ k + 1 - 1 = k
        BY <1>1
      <3>. QED
        BY <3>1
    <2>2. \/ \E x \in held : x[1] = t[k][2]
          \/ \E j \in 1 .. k : s[j] = <<"make", t[k][2]>>
      <3>1. s[n][1] = "look"
        BY <1>2, <2>1
      <3>2. \/ \E x \in held : x[1] = s[n][2]
            \/ \E j \in 1 .. n - 1 : s[j] = <<"make", s[n][2]>>
        BY <3>1 DEF MadeBefore
      <3>. QED
        BY <2>1, <3>2
    <2>3. CASE \E x \in held : x[1] = t[k][2]
      BY <2>3
    <2>4. ASSUME NEW j \in 1 .. k, s[j] = <<"make", t[k][2]>>
          PROVE  \/ \E x \in more : x[1] = t[k][2]
                 \/ \E h \in 1 .. k - 1 : t[h] = <<"make", t[k][2]>>
      <3>1. CASE j = 1
        <4>1. Head(s)[1] = "make" /\ Head(s)[2] = t[k][2]
          BY <2>4, <3>1, <1>1
        <4>. QED
          BY <4>1
      <3>2. CASE j # 1
        <4>1. j - 1 \in 1 .. k - 1 /\ j - 1 \in 1 .. Len(s) - 1 /\ j - 1 + 1 = j
          BY <3>2, <2>1, <1>1
        <4>2. t[j - 1] = s[j]
          BY <4>1, <1>1
        <4>. QED
          BY <4>1, <4>2, <2>4
      <3>. QED
        BY <3>1, <3>2
    <2>. QED
      BY <2>2, <2>3, <2>4
  <1>. QED
    BY <1>2 DEF MadeBefore, t

(* A new last element of a sequence in which none is twice.                *)
OnlyOnce(s) == \A j, k \in DOMAIN s : s[j] = s[k] => j = k
ItemsOf(s) == {s[k] : k \in DOMAIN s}

LEMMA AddedOnce ==
  ASSUME NEW S, NEW s \in Seq(S), NEW e \in S, OnlyOnce(s), e \notin ItemsOf(s)
  PROVE  s \o <<e>> \in Seq(S) /\ OnlyOnce(s \o <<e>>) /\ ItemsOf(s \o <<e>>) = ItemsOf(s) \cup {e}
  <1>. DEFINE t == s \o <<e>>
              n == Len(s)
  <1>1. /\ t \in Seq(S) /\ n \in Nat /\ Len(t) = n + 1 /\ t[n + 1] = e
        /\ \A k \in 1 .. n : t[k] = s[k]
        /\ DOMAIN s = 1 .. n /\ DOMAIN t = 1 .. n + 1
    OBVIOUS
  <1>. HIDE DEF t, n
  <1>2. 1 .. n + 1 = (1 .. n) \cup {n + 1} /\ n + 1 \notin 1 .. n
    BY <1>1
  <1>3. \A k \in 1 .. n : t[k] # e
    BY <1>1 DEF ItemsOf
  <1>4. OnlyOnce(t)
    BY <1>1, <1>2, <1>3 DEF OnlyOnce
  <1>5. ItemsOf(t) = ItemsOf(s) \cup {e}
    BY <1>1, <1>2 DEF ItemsOf
  <1>. QED
    BY <1>1, <1>4, <1>5 DEF t

-----------------------------------------------------------------------------
(* The callers                                                             *)

Callers == [at : {"idle", "nova", "neutron", "work", "done", "failed"},
            todo : Seq(ApiCalls), made : SUBSET (Api \X Tenant)]

(* What the invariant says of one caller.                                  *)
CallerOk(c) ==
  /\ CallerSound(c)
  /\ caller[c].at = "failed" => c \in keystoneNo \/ c \in expired \/ Strangers(c) # {}
  /\ \A x \in caller[c].made : x[2] = tenantOf[c] \/ \E d \in crossed[c] : tenantOf[d] = x[2]
  /\ caller[c].at = "failed" /\ c \notin keystoneNo => Head(caller[c].todo)[1] \in {"make", "look"}

ListedTrue ==
  \A m \in Vm \ listing.left : listing.flavor[m] = FlavorOf[m] /\ listing.image[m] = ImageOf[m]

OsBase ==
  /\ OsTypeOK /\ ClientsFollow /\ ListingSound /\ OnlyOnce(listing.asked) /\ ListedTrue /\ HostFound
  /\ \A c \in Caller : CallerOk(c)

LEMMA OsInvBase == ClientsInv <=> OsBase
  <1>1. FailsForClients /\ MadeForTenant /\ AdminGoesOn /\ (\A c \in Caller : CallerSound(c))
          <=> \A c \in Caller : CallerOk(c)
    BY DEF FailsForClients, MadeForTenant, AdminGoesOn, CallerOk
  <1>2. ListingTrue <=> ListedTrue /\ OnlyOnce(listing.asked)
    BY DEF ListingTrue, ListedTrue, OnlyOnce
  <1>3. ClientsFollow => ClientsOfOne
    BY DEF ClientsFollow, ClientsOfOne
  <1>. QED
    BY <1>1, <1>2, <1>3 DEF ClientsInv, OsBase

LEMMA OsStarts == OsInit => ClientsInv
  <1>. SUFFICES ASSUME OsInit PROVE OsBase
    BY OsInvBase
  <1>1. /\ tenantOf \in [Caller -> Tenant \cup {Nobody}] /\ osClient = [a \in Api |-> Nobody]
        /\ expired = {} /\ keystoneNo = {} /\ crossed = [c \in Caller |-> {}]
    BY ClientsAssumption DEF OsInit
  <1>2. caller \in [Caller -> [at : {"idle"}, todo : Jobs, made : {{}}]]
    BY DEF OsInit
  <1>3. ASSUME NEW c \in Caller
        PROVE  /\ caller[c] \in Callers /\ caller[c].at = "idle" /\ caller[c].made = {}
               /\ caller[c].todo # << >> /\ Head(caller[c].todo) = <<"auth">>
               /\ MadeBefore(caller[c].todo, {})
               /\ tenantOf[c] = Nobody => Len(caller[c].todo) = 1
    <2>1. caller[c] \in [at : {"idle"}, todo : Jobs, made : {{}}]
      BY <1>2
    <2>2. caller[c].at = "idle" /\ caller[c].made = {} /\ caller[c].todo \in Jobs
      BY <2>1
    <2>3. /\ caller[c].todo \in Seq(ApiCalls) /\ caller[c].todo # << >>
          /\ Head(caller[c].todo) = <<"auth">> /\ MadeBefore(caller[c].todo, {})
      BY <2>2, ClientsAssumption
    <2>4. caller[c] \in Callers
      BY <2>1, <2>2, <2>3 DEF Callers
    <2>5. tenantOf[c] = Nobody => Len(caller[c].todo) = 1
      <3>. DEFINE one == <<<<"auth">>>>
      <3>1. Len(one) = 1
        OBVIOUS
      <3>2. tenantOf[c] = Nobody => caller[c].todo = one
        BY DEF OsInit
      <3>. HIDE DEF one
      <3>. QED
        BY <3>1, <3>2
    <2>. QED
      BY <2>2, <2>3, <2>4, <2>5
  <1>4. PICK on \in BOOLEAN :
          listing = [on |-> on, left |-> Vm, asked |-> << >>, flavor |-> [m \in Vm |-> NotKnown],
                     image |-> [m \in Vm |-> NotKnown], host |-> NoHost]
    <2>1. listing \in [on : BOOLEAN, left : {Vm}, asked : {<< >>}, flavor : {[m \in Vm |-> NotKnown]},
                       image : {[m \in Vm |-> NotKnown]}, host : {NoHost}]
      BY DEF OsInit
    <2>. QED
      BY <2>1
  <1>5. caller \in [Caller -> Callers]
    BY <1>2, <1>3
  <1>6. OsTypeOK
    <2>1. osClient \in [Api -> Caller \cup {Nobody}] /\ crossed \in [Caller -> SUBSET Caller]
      BY <1>1
    <2>2. \A c \in Caller : /\ caller[c].at = "done" <=> caller[c].todo = << >>
                            /\ tenantOf[c] = Nobody => caller[c].made = {}
      BY <1>3
    <2>3. /\ DOMAIN listing = {"on", "left", "asked", "flavor", "image", "host"}
          /\ listing.left \subseteq Vm /\ DOMAIN listing.flavor = Vm /\ DOMAIN listing.image = Vm
      BY <1>4
    <2>. QED
      BY <1>1, <1>5, <2>1, <2>2, <2>3 DEF OsTypeOK, Callers
  <1>7. ClientsFollow
    BY <1>1 DEF ClientsFollow, Api
  <1>8. /\ ListingSound /\ OnlyOnce(listing.asked) /\ ListedTrue /\ HostFound
    BY <1>4 DEF ListingSound, OnlyOnce, ListedTrue, HostFound, NoHost
  <1>9. ASSUME NEW c \in Caller PROVE CallerOk(c)
    BY <1>3 DEF CallerOk, CallerSound
  <1>. QED
    BY <1>6, <1>7, <1>8, <1>9 DEF OsBase

(* A caller that keeps still while another makes clients: those it works   *)
(* with from now on are the other's, which crossed it.                     *)
LEMMA OthersStay ==
  ASSUME NEW d \in Caller, CallerOk(d), OsTypeOK, UNCHANGED tenantOf, caller'[d] = caller[d],
         expired \subseteq expired', keystoneNo \subseteq keystoneNo',
         crossed[d] \subseteq crossed'[d],
         caller[d].at \in {"neutron", "work"} =>
           \A a \in Api : osClient'[a] = osClient[a] \/ osClient'[a] \in crossed'[d]
  PROVE  CallerOk(d)'
  <1>1. CallerSound(d)'
    BY DEF CallerOk, CallerSound, Api
  <1>2. Strangers(d) # {} => Strangers(d)' # {}
    BY DEF Strangers
  <1>3. (caller[d].at = "failed" => d \in keystoneNo \/ d \in expired \/ Strangers(d) # {})'
    BY <1>2 DEF CallerOk
  <1>. QED
    BY <1>1, <1>3 DEF CallerOk

LEMMA ListingStays ==
  ASSUME OsBase, UNCHANGED listing
  PROVE  ListingSound' /\ OnlyOnce(listing.asked)' /\ ListedTrue' /\ HostFound'
  <1>1. ListingSound' /\ ListedTrue'
    BY DEF OsBase, ListingSound, ListedTrue
  <1>2. OnlyOnce(listing.asked)'
    BY DEF OsBase, OnlyOnce
  <1>3. HostFound'
    BY DEF OsBase, HostFound
  <1>. QED
    BY <1>1, <1>2, <1>3

(* One caller goes on with the clients that are there.                     *)
LEMMA CallerMoves ==
  ASSUME OsBase, NEW c \in Caller, NEW w \in Callers, caller' = [caller EXCEPT ![c] = w],
         keystoneNo' \in SUBSET Caller, keystoneNo \subseteq keystoneNo',
         UNCHANGED <<tenantOf, osClient, expired, crossed, listing>>, CallerOk(c)',
         w.at = "done" <=> w.todo = << >>, tenantOf[c] = Nobody => w.made = {},
         caller[c].at = "neutron" => keystoneNo' # {}
  PROVE  OsBase'
  <1>1. caller \in [Caller -> Callers]
    BY DEF OsBase, OsTypeOK, Callers
  <1>2. /\ caller' \in [Caller -> Callers] /\ caller'[c] = w
        /\ \A d \in Caller \ {c} : caller'[d] = caller[d]
    BY <1>1
  <1>3. OsTypeOK'
    BY <1>2 DEF OsBase, OsTypeOK, Callers
  <1>4. ClientsFollow'
    BY <1>2 DEF OsBase, ClientsFollow
  <1>5. ListingSound' /\ OnlyOnce(listing.asked)' /\ ListedTrue' /\ HostFound'
    BY ListingStays
  <1>6. ASSUME NEW d \in Caller \ {c} PROVE CallerOk(d)'
    <2>1. CallerOk(d) /\ OsTypeOK /\ caller'[d] = caller[d]
      BY <1>2 DEF OsBase
    <2>. QED
      BY <2>1, OthersStay
  <1>. QED
    BY <1>3, <1>4, <1>5, <1>6 DEF OsBase

LEMMA CallerTyped ==
  ASSUME OsBase, NEW c \in Caller
  PROVE  /\ caller[c] \in Callers /\ CallerOk(c) /\ tenantOf[c] \in Tenant \cup {Nobody}
         /\ (caller[c].at = "done" <=> caller[c].todo = << >>)
         /\ (tenantOf[c] = Nobody => caller[c].made = {})
         /\ crossed[c] \subseteq Caller /\ expired \subseteq Caller /\ keystoneNo \subseteq Caller
         /\ caller \in [Caller -> Callers]
  BY DEF OsBase, OsTypeOK, Callers

LEMMA BeginAuthKept == ASSUME OsBase, NEW c \in Caller, BeginAuth(c) PROVE OsBase'
  <1>1. /\ caller[c] \in Callers /\ CallerOk(c) /\ (caller[c].at = "done" <=> caller[c].todo = << >>)
        /\ (tenantOf[c] = Nobody => caller[c].made = {}) /\ keystoneNo \subseteq Caller
        /\ caller \in [Caller -> Callers]
    BY CallerTyped
  <1>2. /\ caller[c].at \in {"idle", "work"} /\ Head(caller[c].todo) = <<"auth">>
        /\ UNCHANGED <<tenantOf, osClient, expired, keystoneNo, crossed, listing>>
    BY DEF BeginAuth
  <1>3. PICK w \in Callers : /\ w.at = "nova" /\ w.todo = caller[c].todo /\ w.made = caller[c].made
                             /\ caller' = [caller EXCEPT ![c] = w]
    <2>. DEFINE w == [caller[c] EXCEPT !.at = "nova"]
    <2>1. w \in Callers /\ w.at = "nova" /\ w.todo = caller[c].todo /\ w.made = caller[c].made
      BY <1>1 DEF Callers
    <2>2. caller' = [caller EXCEPT ![c] = w]
      BY DEF BeginAuth, CallerGoes
    <2>. QED
      BY <2>1, <2>2
  <1>4. caller'[c] = w
    BY <1>1, <1>3
  <1>5. CallerOk(c)'
    <2>1. CallerSound(c)'
      BY <1>1, <1>2, <1>3, <1>4 DEF CallerOk, CallerSound
    <2>. QED
      BY <2>1, <1>1, <1>2, <1>3, <1>4 DEF CallerOk
  <1>6. /\ keystoneNo' \in SUBSET Caller /\ keystoneNo \subseteq keystoneNo'
        /\ UNCHANGED <<tenantOf, osClient, expired, crossed, listing>>
        /\ (w.at = "done" <=> w.todo = << >>) /\ (tenantOf[c] = Nobody => w.made = {})
        /\ caller[c].at = "neutron" => keystoneNo' # {}
    BY <1>1, <1>2, <1>3
  <1>. QED
    BY <1>3, <1>5, <1>6, CallerMoves

LEMMA KeystoneKept == ASSUME OsBase, NEW c \in Caller, KeystoneRefuses(c) PROVE OsBase'
  <1>1. /\ caller[c] \in Callers /\ CallerOk(c) /\ (caller[c].at = "done" <=> caller[c].todo = << >>)
        /\ (tenantOf[c] = Nobody => caller[c].made = {}) /\ keystoneNo \subseteq Caller
        /\ caller \in [Caller -> Callers]
    BY CallerTyped
  <1>2. /\ caller[c].at \in {"nova", "neutron"} /\ keystoneNo' = keystoneNo \cup {c}
        /\ UNCHANGED <<tenantOf, osClient, expired, crossed, listing>>
    BY DEF KeystoneRefuses
  <1>3. PICK w \in Callers : /\ w.at = "failed" /\ w.todo = caller[c].todo /\ w.made = caller[c].made
                             /\ caller' = [caller EXCEPT ![c] = w]
    <2>. DEFINE w == [caller[c] EXCEPT !.at = "failed"]
    <2>1. w \in Callers /\ w.at = "failed" /\ w.todo = caller[c].todo /\ w.made = caller[c].made
      BY <1>1 DEF Callers
    <2>2. caller' = [caller EXCEPT ![c] = w]
      BY DEF KeystoneRefuses, CallerFails
    <2>. QED
      BY <2>1, <2>2
  <1>4. caller'[c] = w
    BY <1>1, <1>3
  <1>5. CallerOk(c)'
    <2>1. CallerSound(c)'
      BY <1>1, <1>2, <1>3, <1>4 DEF CallerOk, CallerSound
    <2>. QED
      BY <2>1, <1>1, <1>2, <1>3, <1>4 DEF CallerOk
  <1>6. /\ keystoneNo' \in SUBSET Caller /\ keystoneNo \subseteq keystoneNo'
        /\ (w.at = "done" <=> w.todo = << >>) /\ (tenantOf[c] = Nobody => w.made = {})
        /\ caller[c].at = "neutron" => keystoneNo' # {}
    BY <1>1, <1>2, <1>3
  <1>. QED
    BY <1>2, <1>3, <1>5, <1>6, CallerMoves

(* A call that is done leaves the rest to do.                              *)
LEMMA AfterCallAs ==
  ASSUME OsBase, NEW c \in Caller, NEW held \in SUBSET (Api \X Tenant), AfterCall(c, held),
         caller[c].todo # << >>
  PROVE  \E w \in Callers :
           /\ caller' = [caller EXCEPT ![c] = w] /\ caller'[c] = w
           /\ w.todo = Tail(caller[c].todo) /\ w.made = held
           /\ w.at \in {"done", "work"} /\ (w.at = "done" <=> w.todo = << >>)
           /\ w.at = "done" <=> Len(caller[c].todo) = 1
  <1>. DEFINE s == caller[c].todo
              w == [at |-> IF Len(s) = 1 THEN "done" ELSE "work", todo |-> Tail(s), made |-> held]
  <1>1. caller[c] \in Callers /\ caller \in [Caller -> Callers]
    BY CallerTyped
  <1>2. s \in Seq(ApiCalls) /\ s # << >>
    BY <1>1 DEF Callers
  <1>3. Tail(s) \in Seq(ApiCalls) /\ (Len(s) = 1 <=> Tail(s) = << >>)
    BY <1>2, TodoTail
  <1>4. caller' = [caller EXCEPT ![c] = w]
    BY DEF AfterCall
  <1>5. w \in Callers /\ w.todo = Tail(s) /\ w.made = held /\ w.at \in {"done", "work"}
        /\ (w.at = "done" <=> Len(s) = 1)
    BY <1>3 DEF Callers
  <1>. HIDE DEF w
  <1>6. caller'[c] = w
    BY <1>1, <1>4
  <1>. QED
    BY <1>3, <1>4, <1>5, <1>6

(* The clients of whoever is under way are from now on c's.                *)
LEMMA CrossingAs ==
  ASSUME OsBase, NEW c \in Caller, crossed' = Crossing(c)
  PROVE  /\ crossed' \in [Caller -> SUBSET Caller] /\ crossed'[c] = crossed[c]
         /\ \A d \in Caller : crossed[d] \subseteq crossed'[d]
         /\ \A d \in Caller \ {c} : caller[d].at \in {"neutron", "work"} => c \in crossed'[d]
  BY DEF OsBase, OsTypeOK, Crossing, Underway

LEMMA AuthNovaKept == ASSUME OsBase, NEW c \in Caller, AuthNova(c) PROVE OsBase'
  <1>1. /\ caller[c] \in Callers /\ CallerOk(c) /\ (caller[c].at = "done" <=> caller[c].todo = << >>)
        /\ (tenantOf[c] = Nobody => caller[c].made = {})
        /\ caller \in [Caller -> Callers]
    BY CallerTyped
  <1>2. /\ caller[c].at = "nova" /\ osClient' = [osClient EXCEPT !["nova"] = c, !["glance"] = c]
        /\ crossed' = Crossing(c) /\ UNCHANGED <<tenantOf, expired, keystoneNo, listing>>
    BY DEF AuthNova
  <1>3. PICK w \in Callers : /\ w.at = "neutron" /\ w.todo = caller[c].todo /\ w.made = caller[c].made
                             /\ caller' = [caller EXCEPT ![c] = w]
    <2>. DEFINE w == [caller[c] EXCEPT !.at = "neutron"]
    <2>1. w \in Callers /\ w.at = "neutron" /\ w.todo = caller[c].todo /\ w.made = caller[c].made
      BY <1>1 DEF Callers
    <2>2. caller' = [caller EXCEPT ![c] = w]
      BY DEF AuthNova, CallerGoes
    <2>. QED
      BY <2>1, <2>2
  <1>4. /\ caller' \in [Caller -> Callers] /\ caller'[c] = w
        /\ \A d \in Caller \ {c} : caller'[d] = caller[d]
    BY <1>1, <1>3
  <1>5. /\ crossed' \in [Caller -> SUBSET Caller] /\ crossed'[c] = crossed[c]
        /\ \A d \in Caller : crossed[d] \subseteq crossed'[d]
        /\ \A d \in Caller \ {c} : caller[d].at \in {"neutron", "work"} => c \in crossed'[d]
    BY <1>2, CrossingAs
  <1>6. /\ osClient' \in [Api -> Caller \cup {Nobody}] /\ osClient'["nova"] = c
        /\ osClient'["glance"] = c /\ osClient'["neutron"] = osClient["neutron"]
        /\ \A a \in Api : osClient'[a] = osClient[a] \/ osClient'[a] = c
    BY <1>2 DEF OsBase, OsTypeOK, Api
  <1>7. OsTypeOK'
    <2>1. \A d \in Caller : /\ caller'[d].at = "done" <=> caller'[d].todo = << >>
                            /\ tenantOf[d] = Nobody => caller'[d].made = {}
      <3>1. w.todo # << >> /\ (tenantOf[c] = Nobody => w.made = {})
        BY <1>1, <1>2, <1>3
      <3>. QED
        BY <3>1, <1>3, <1>4 DEF OsBase, OsTypeOK
    <2>. QED
      BY <2>1, <1>2, <1>4, <1>5, <1>6 DEF OsBase, OsTypeOK, Callers
  <1>8. ClientsFollow'
    BY <1>3, <1>4, <1>6 DEF ClientsFollow
  <1>9. ListingSound' /\ OnlyOnce(listing.asked)' /\ ListedTrue' /\ HostFound'
    BY <1>2, ListingStays
  <1>10. ASSUME NEW d \in Caller \ {c} PROVE CallerOk(d)'
    <2>1. CallerOk(d) /\ OsTypeOK /\ caller'[d] = caller[d]
      BY <1>4 DEF OsBase
    <2>2. /\ UNCHANGED tenantOf /\ expired \subseteq expired' /\ keystoneNo \subseteq keystoneNo'
          /\ crossed[d] \subseteq crossed'[d]
          /\ caller[d].at \in {"neutron", "work"} =>
               \A a \in Api : osClient'[a] = osClient[a] \/ osClient'[a] \in crossed'[d]
      BY <1>2, <1>5, <1>6
    <2>. QED
      BY <2>1, <2>2, OthersStay
  <1>11. CallerOk(c)'
    <2>1. CallerSound(c)'
      BY <1>1, <1>2, <1>3, <1>4, <1>6 DEF CallerOk, CallerSound
    <2>. QED
      BY <2>1, <1>1, <1>2, <1>3, <1>4, <1>5 DEF CallerOk
  <1>. QED
    BY <1>7, <1>8, <1>9, <1>10, <1>11 DEF OsBase

LEMMA AuthNeutronKept == ASSUME OsBase, NEW c \in Caller, AuthNeutron(c) PROVE OsBase'
  <1>1. /\ caller[c] \in Callers /\ CallerOk(c) /\ (caller[c].at = "done" <=> caller[c].todo = << >>)
        /\ (tenantOf[c] = Nobody => caller[c].made = {})
        /\ caller \in [Caller -> Callers]
    BY CallerTyped
  <1>2. /\ caller[c].at = "neutron" /\ osClient' = [osClient EXCEPT !["neutron"] = c]
        /\ crossed' = Crossing(c) /\ UNCHANGED <<tenantOf, expired, keystoneNo, listing>>
    BY DEF AuthNeutron
  <1>3. PICK w \in Callers :
          /\ caller' = [caller EXCEPT ![c] = w] /\ w.todo = Tail(caller[c].todo)
          /\ w.made = caller[c].made /\ w.at \in {"done", "work"} /\ (w.at = "done" <=> w.todo = << >>)
          /\ w.at = "done" <=> Len(caller[c].todo) = 1
    <2>1. /\ caller[c].made \in SUBSET (Api \X Tenant) /\ AfterCall(c, caller[c].made)
          /\ caller[c].todo # << >>
      BY <1>1, <1>2 DEF Callers, AuthNeutron
    <2>. QED
      BY <2>1, AfterCallAs
  <1>4. /\ caller' \in [Caller -> Callers] /\ caller'[c] = w
        /\ \A d \in Caller \ {c} : caller'[d] = caller[d]
    BY <1>1, <1>3
  <1>5. /\ crossed' \in [Caller -> SUBSET Caller] /\ crossed'[c] = crossed[c]
        /\ \A d \in Caller : crossed[d] \subseteq crossed'[d]
        /\ \A d \in Caller \ {c} : caller[d].at \in {"neutron", "work"} => c \in crossed'[d]
    BY <1>2, CrossingAs
  <1>6. /\ osClient' \in [Api -> Caller \cup {Nobody}] /\ osClient'["nova"] = osClient["nova"]
        /\ osClient'["glance"] = osClient["glance"] /\ osClient'["neutron"] = c
        /\ \A a \in Api : osClient'[a] = osClient[a] \/ osClient'[a] = c
    BY <1>2 DEF OsBase, OsTypeOK, Api
  <1>7. OsTypeOK'
    BY <1>1, <1>2, <1>3, <1>4, <1>5, <1>6 DEF OsBase, OsTypeOK, Callers
  <1>8. ClientsFollow'
    <2>1. osClient'["nova"] = osClient'["glance"]
      BY <1>6 DEF OsBase, ClientsFollow
    <2>2. osClient["nova"] \in {c} \cup crossed[c]
      BY <1>1, <1>2 DEF CallerOk, CallerSound
    <2>3. (\A d \in Caller : crossed'[d] = {}) => osClient'["neutron"] = osClient'["nova"]
      BY <2>2, <1>5, <1>6
    <2>. QED
      BY <2>1, <2>3 DEF ClientsFollow
  <1>9. ListingSound' /\ OnlyOnce(listing.asked)' /\ ListedTrue' /\ HostFound'
    BY <1>2, ListingStays
  <1>10. ASSUME NEW d \in Caller \ {c} PROVE CallerOk(d)'
    <2>1. CallerOk(d) /\ OsTypeOK /\ caller'[d] = caller[d]
      BY <1>4 DEF OsBase
    <2>2. /\ UNCHANGED tenantOf /\ expired \subseteq expired' /\ keystoneNo \subseteq keystoneNo'
          /\ crossed[d] \subseteq crossed'[d]
          /\ caller[d].at \in {"neutron", "work"} =>
               \A a \in Api : osClient'[a] = osClient[a] \/ osClient'[a] \in crossed'[d]
      BY <1>2, <1>5, <1>6
    <2>. QED
      BY <2>1, <2>2, OthersStay
  <1>11. CallerOk(c)'
    <2>1. MadeBefore(w.todo, w.made)
      <3>1. /\ caller[c].todo \in Seq(ApiCalls) /\ caller[c].todo # << >>
            /\ MadeBefore(caller[c].todo, caller[c].made) /\ Head(caller[c].todo) = <<"auth">>
        BY <1>1, <1>2 DEF Callers, CallerOk, CallerSound
      <3>2. Head(caller[c].todo)[1] # "make"
        BY <3>1
      <3>3. MadeBefore(Tail(caller[c].todo), caller[c].made)
        BY <3>1, <3>2, MadeAfter
      <3>. QED
        BY <3>3, <1>3
    <2>2. CallerSound(c)'
      <3>1. tenantOf[c] = Nobody => w.at = "done" /\ w.todo = << >>
        BY <1>1, <1>2, <1>3 DEF CallerOk, CallerSound
      <3>2. osClient["nova"] \in {c} \cup crossed[c]
        BY <1>1, <1>2 DEF CallerOk, CallerSound
      <3>. QED
        BY <2>1, <3>1, <3>2, <1>2, <1>3, <1>4, <1>5, <1>6 DEF CallerSound
    <2>. QED
      BY <2>2, <1>1, <1>2, <1>3, <1>4, <1>5 DEF CallerOk
  <1>. QED
    BY <1>7, <1>8, <1>9, <1>10, <1>11 DEF OsBase

LEMMA TokenExpiresKept == ASSUME OsBase, NEW c \in Caller, TokenExpires(c) PROVE OsBase'
  <1>1. /\ expired' = expired \cup {c}
        /\ UNCHANGED <<tenantOf, osClient, caller, keystoneNo, crossed, listing>>
    BY DEF TokenExpires
  <1>2. OsTypeOK' /\ ClientsFollow'
    BY <1>1 DEF OsBase, OsTypeOK, ClientsFollow
  <1>3. ListingSound' /\ OnlyOnce(listing.asked)' /\ ListedTrue' /\ HostFound'
    BY <1>1, ListingStays
  <1>4. ASSUME NEW d \in Caller PROVE CallerOk(d)'
    <2>1. CallerOk(d) /\ OsTypeOK /\ caller'[d] = caller[d]
      BY <1>1 DEF OsBase
    <2>2. /\ UNCHANGED tenantOf /\ expired \subseteq expired' /\ keystoneNo \subseteq keystoneNo'
          /\ crossed[d] \subseteq crossed'[d]
          /\ \A a \in Api : osClient'[a] = osClient[a]
      BY <1>1
    <2>. QED
      BY <2>1, <2>2, OthersStay
  <1>. QED
    BY <1>2, <1>3, <1>4 DEF OsBase

(* Who is at work is somebody's, and its clients are its own or those of   *)
(* one that crossed it.                                                    *)
LEMMA AtWork ==
  ASSUME OsBase, NEW c \in Caller, caller[c].at = "work"
  PROVE  /\ tenantOf[c] \in Tenant /\ caller[c].todo \in Seq(ApiCalls) /\ caller[c].todo # << >>
         /\ Head(caller[c].todo) \in ApiCalls
         /\ \A a \in Api : /\ osClient[a] \in {c} \cup crossed[c]
                           /\ tenantOf[osClient[a]] \in Tenant \cup {Nobody}
  <1>1. /\ caller[c] \in Callers /\ CallerOk(c) /\ tenantOf[c] \in Tenant \cup {Nobody}
        /\ (caller[c].at = "done" <=> caller[c].todo = << >>) /\ crossed[c] \subseteq Caller
    BY CallerTyped
  <1>2. tenantOf[c] \in Tenant
    BY <1>1 DEF CallerOk, CallerSound
  <1>3. caller[c].todo \in Seq(ApiCalls) /\ caller[c].todo # << >>
    BY <1>1 DEF Callers
  <1>4. Head(caller[c].todo) \in ApiCalls
    BY <1>3, TodoTail
  <1>5. \A a \in Api : osClient[a] \in {c} \cup crossed[c]
    BY <1>1 DEF CallerOk, CallerSound, Api, OsBase, ClientsFollow
  <1>6. \A d \in Caller : tenantOf[d] \in Tenant \cup {Nobody}
    BY DEF OsBase, OsTypeOK
  <1>. QED
    BY <1>1, <1>2, <1>3, <1>4, <1>5, <1>6

(* A call that is let in.                                                  *)
LEMMA CallDoneKept ==
  ASSUME OsBase, NEW c \in Caller, NEW held \in SUBSET (Api \X Tenant), caller[c].at = "work",
         AfterCall(c, held), caller[c].made \subseteq held,
         Head(caller[c].todo)[1] = "make" => \E x \in held : x[1] = Head(caller[c].todo)[2],
         \A x \in held : x \in caller[c].made \/ \E a \in Api : x[2] = tenantOf[osClient[a]],
         UNCHANGED <<tenantOf, osClient, expired, keystoneNo, crossed, listing>>
  PROVE  OsBase'
  <1>1. /\ caller[c] \in Callers /\ CallerOk(c) /\ keystoneNo \subseteq Caller
    BY CallerTyped
  <1>2. /\ tenantOf[c] \in Tenant /\ caller[c].todo \in Seq(ApiCalls) /\ caller[c].todo # << >>
        /\ \A a \in Api : osClient[a] \in {c} \cup crossed[c]
    BY AtWork
  <1>3. PICK w \in Callers :
          /\ caller' = [caller EXCEPT ![c] = w] /\ caller'[c] = w
          /\ w.todo = Tail(caller[c].todo) /\ w.made = held /\ w.at \in {"done", "work"}
          /\ (w.at = "done" <=> w.todo = << >>)
    BY <1>2, AfterCallAs
  <1>4. MadeBefore(w.todo, w.made)
    <2>1. MadeBefore(caller[c].todo, caller[c].made)
      BY <1>1 DEF CallerOk, CallerSound
    <2>2. MadeBefore(Tail(caller[c].todo), held)
      BY <2>1, <1>2, MadeAfter
    <2>. QED
      BY <2>2, <1>3
  <1>5. tenantOf[c] # Nobody
    BY <1>2, ClientsAssumption
  <1>6. CallerOk(c)'
    <2>1. CallerSound(c)'
      BY <1>1, <1>2, <1>3, <1>4, <1>5 DEF CallerSound, Api
    <2>2. \A x \in held : x[2] = tenantOf[c] \/ \E d \in crossed[c] : tenantOf[d] = x[2]
      BY <1>1, <1>2 DEF CallerOk
    <2>. QED
      BY <2>1, <2>2, <1>3 DEF CallerOk
  <1>7. /\ keystoneNo' \in SUBSET Caller /\ keystoneNo \subseteq keystoneNo'
        /\ (w.at = "done" <=> w.todo = << >>) /\ (tenantOf[c] = Nobody => w.made = {})
        /\ caller[c].at = "neutron" => keystoneNo' # {}
    BY <1>1, <1>3, <1>5
  <1>. QED
    BY <1>3, <1>6, <1>7, CallerMoves

(* A call that is not.                                                     *)
LEMMA CallFailsKept ==
  ASSUME OsBase, NEW c \in Caller, caller[c].at = "work", CallerFails(c),
         Head(caller[c].todo)[1] \in {"make", "look"}, c \in expired \/ Strangers(c) # {},
         UNCHANGED <<tenantOf, osClient, expired, keystoneNo, crossed, listing>>
  PROVE  OsBase'
  <1>1. /\ caller[c] \in Callers /\ CallerOk(c) /\ (caller[c].at = "done" <=> caller[c].todo = << >>)
        /\ (tenantOf[c] = Nobody => caller[c].made = {}) /\ keystoneNo \subseteq Caller
        /\ caller \in [Caller -> Callers]
    BY CallerTyped
  <1>2. PICK w \in Callers : /\ w.at = "failed" /\ w.todo = caller[c].todo /\ w.made = caller[c].made
                             /\ caller' = [caller EXCEPT ![c] = w]
    <2>. DEFINE w == [caller[c] EXCEPT !.at = "failed"]
    <2>1. w \in Callers /\ w.at = "failed" /\ w.todo = caller[c].todo /\ w.made = caller[c].made
      BY <1>1 DEF Callers
    <2>2. caller' = [caller EXCEPT ![c] = w]
      BY DEF CallerFails
    <2>. QED
      BY <2>1, <2>2
  <1>3. caller'[c] = w
    BY <1>1, <1>2
  <1>4. Strangers(c)' = Strangers(c)
    BY DEF Strangers
  <1>5. CallerOk(c)'
    <2>1. CallerSound(c)'
      BY <1>1, <1>2, <1>3 DEF CallerOk, CallerSound
    <2>. QED
      BY <2>1, <1>1, <1>2, <1>3, <1>4 DEF CallerOk
  <1>6. /\ keystoneNo' \in SUBSET Caller /\ keystoneNo \subseteq keystoneNo'
        /\ (w.at = "done" <=> w.todo = << >>) /\ (tenantOf[c] = Nobody => w.made = {})
        /\ caller[c].at = "neutron" => keystoneNo' # {}
    BY <1>1, <1>2
  <1>. QED
    BY <1>2, <1>5, <1>6, CallerMoves

(* A client that does not let c in, is c's with an old token or a          *)
(* stranger's.                                                             *)
LEMMA NotLetIn ==
  ASSUME OsBase, NEW c \in Caller, caller[c].at = "work", NEW a \in Api, ~ LetIn(osClient[a])
  PROVE  c \in expired \/ Strangers(c) # {}
  <1>1. tenantOf[c] \in Tenant /\ osClient[a] \in {c} \cup crossed[c]
    BY AtWork
  <1>2. CASE osClient[a] = c
    BY <1>1, <1>2, ClientsAssumption DEF LetIn
  <1>3. CASE osClient[a] \in crossed[c]
    <2>1. osClient[a] \in Strangers(c)
      BY <1>1, <1>3, ClientsAssumption DEF LetIn, Strangers
    <2>. QED
      BY <2>1
  <1>. QED
    BY <1>1, <1>2, <1>3

LEMMA MakeKept == ASSUME OsBase, NEW c \in Caller, Make(c) PROVE OsBase'
  <1>1. PICK api : /\ api = Head(caller[c].todo)[2]
                   /\ IF LetIn(osClient[api])
                      THEN AfterCall(c, caller[c].made \cup {<<api, tenantOf[osClient[api]]>>})
                      ELSE CallerFails(c)
    BY DEF Make
  <1>2. /\ caller[c].at = "work" /\ Head(caller[c].todo)[1] = "make"
        /\ UNCHANGED <<tenantOf, osClient, expired, keystoneNo, crossed, listing>>
    BY DEF Make, Asks
  <1>3. api \in Api /\ tenantOf[osClient[api]] \in Tenant \cup {Nobody} /\ caller[c] \in Callers
    <2>1. Head(caller[c].todo) \in ApiCalls
      BY <1>2, AtWork
    <2>2. api \in Api
      BY <2>1, <1>1, <1>2 DEF ApiCalls
    <2>. QED
      BY <2>2, <1>2, AtWork, CallerTyped
  <1>4. CASE LetIn(osClient[api])
    <2>. DEFINE x == <<api, tenantOf[osClient[api]]>>
                held == caller[c].made \cup {x}
    <2>1. held \in SUBSET (Api \X Tenant)
      BY <1>3, <1>4 DEF LetIn, Callers
    <2>2. x[1] = Head(caller[c].todo)[2] /\ x \in held /\ AfterCall(c, held)
      BY <1>1, <1>4
    <2>3. \A y \in held : y \in caller[c].made \/ \E a \in Api : y[2] = tenantOf[osClient[a]]
      BY <1>3
    <2>4. caller[c].made \subseteq held
      OBVIOUS
    <2>. HIDE DEF held, x
    <2>. QED
      BY <2>1, <2>2, <2>3, <2>4, <1>2, CallDoneKept
  <1>5. CASE ~ LetIn(osClient[api])
    <2>1. c \in expired \/ Strangers(c) # {}
      BY <1>2, <1>3, <1>5, NotLetIn
    <2>. QED
      BY <2>1, <1>1, <1>2, <1>5, CallFailsKept
  <1>. QED
    BY <1>4, <1>5

LEMMA LookKept == ASSUME OsBase, NEW c \in Caller, Look(c) PROVE OsBase'
  <1>1. PICK api : /\ api = Head(caller[c].todo)[2]
                   /\ IF LetIn(osClient[api]) /\ <<api, tenantOf[osClient[api]]>> \in caller[c].made
                      THEN AfterCall(c, caller[c].made)
                      ELSE CallerFails(c)
    BY DEF Look
  <1>2. /\ caller[c].at = "work" /\ Head(caller[c].todo)[1] = "look"
        /\ UNCHANGED <<tenantOf, osClient, expired, keystoneNo, crossed, listing>>
    BY DEF Look, Asks
  <1>3. /\ caller[c].todo \in Seq(ApiCalls) /\ caller[c].todo # << >>
        /\ Head(caller[c].todo) \in ApiCalls /\ tenantOf[c] \in Tenant
        /\ \A a \in Api : osClient[a] \in {c} \cup crossed[c]
    BY <1>2, AtWork
  <1>4. api \in Api /\ caller[c] \in Callers /\ CallerOk(c)
    BY <1>1, <1>2, <1>3, CallerTyped DEF ApiCalls
  <1>5. CASE AfterCall(c, caller[c].made)
    <2>1. caller[c].made \in SUBSET (Api \X Tenant)
      BY <1>4 DEF Callers
    <2>2. Head(caller[c].todo)[1] # "make"
      BY <1>2
    <2>. QED
      BY <2>1, <2>2, <1>2, <1>5, CallDoneKept
  <1>6. CASE ~ LetIn(osClient[api]) /\ CallerFails(c)
    <2>1. c \in expired \/ Strangers(c) # {}
      BY <1>2, <1>4, <1>6, NotLetIn
    <2>. QED
      BY <2>1, <1>2, <1>6, CallFailsKept
  <1>7. CASE <<api, tenantOf[osClient[api]]>> \notin caller[c].made /\ CallerFails(c)
    <2>1. PICK x \in caller[c].made : x[1] = api
      <3>1. 1 \in 1 .. Len(caller[c].todo) /\ Head(caller[c].todo) = caller[c].todo[1]
            /\ 1 .. 1 - 1 = {}
        BY <1>3, TodoTail
      <3>2. MadeBefore(caller[c].todo, caller[c].made)
        BY <1>4 DEF CallerOk, CallerSound
      <3>. QED
        BY <3>1, <3>2, <1>1, <1>2 DEF MadeBefore
    <2>2. x = <<api, x[2]>>
      BY <2>1, <1>4 DEF Callers
    <2>3. x[2] # tenantOf[osClient[api]]
      BY <2>2, <1>7
    <2>4. x[2] = tenantOf[c] \/ \E d \in crossed[c] : tenantOf[d] = x[2]
      BY <1>4 DEF CallerOk
    <2>5. \E d \in crossed[c] : tenantOf[d] # tenantOf[c]
      BY <2>3, <2>4, <1>3, <1>4
    <2>6. Strangers(c) # {}
      BY <2>5 DEF Strangers
    <2>. QED
      BY <2>6, <1>2, <1>7, CallFailsKept
  <1>. QED
    BY <1>1, <1>5, <1>6, <1>7

LEMMA AdministerKept == ASSUME OsBase, NEW c \in Caller, Administer(c) PROVE OsBase'
  <1>1. /\ caller[c].at = "work" /\ Head(caller[c].todo)[1] = "admin"
        /\ AfterCall(c, caller[c].made)
        /\ UNCHANGED <<tenantOf, osClient, expired, keystoneNo, crossed, listing>>
    BY DEF Administer, Asks
  <1>2. caller[c].made \in SUBSET (Api \X Tenant) /\ Head(caller[c].todo)[1] # "make"
    BY <1>1, CallerTyped DEF Callers
  <1>. QED
    BY <1>1, <1>2, CallDoneKept

-----------------------------------------------------------------------------
(* The listing                                                             *)

Tagged == UNION {AskedFor(m) : m \in Vm}
ReadOf(rest) == UNION {AskedFor(m) : m \in Vm \ rest}

(* What is in the sequence already is not added to it again.               *)
LEMMA AddedIfNew ==
  ASSUME NEW s \in Seq(Tagged), NEW e \in Tagged, OnlyOnce(s), NEW t,
         t = s \o (IF e \in ItemsOf(s) THEN << >> ELSE <<e>>)
  PROVE  t \in Seq(Tagged) /\ OnlyOnce(t) /\ ItemsOf(t) = ItemsOf(s) \cup {e}
  <1>1. CASE e \in ItemsOf(s)
    <2>1. t = s
      BY <1>1
    <2>. QED
      BY <2>1, <1>1
  <1>2. CASE e \notin ItemsOf(s)
    <2>1. t = s \o <<e>>
      BY <1>2
    <2>. QED
      BY <2>1, <1>2, AddedOnce
  <1>. QED
    BY <1>1, <1>2

LEMMA ReadGrows ==
  ASSUME NEW rest \in SUBSET Vm, NEW m \in rest
  PROVE  ReadOf(rest \ {m}) = ReadOf(rest) \cup AskedFor(m)
  <1>1. Vm \ (rest \ {m}) = (Vm \ rest) \cup {m}
    OBVIOUS
  <1>. QED
    BY <1>1 DEF ReadOf

(* The flavor and the image of a machine are remembered when one that is   *)
(* listed has them.                                                        *)
LEMMA RememberedRead ==
  ASSUME OsBase, NEW m \in listing.left
  PROVE  /\ Remembered(FlavorOf, m) <=> <<"flavor", FlavorOf[m]>> \in ReadOf(listing.left)
         /\ ImageOf[m] # NotKnown =>
              (Remembered(ImageOf, m) <=> <<"image", ImageOf[m]>> \in ReadOf(listing.left))
  <1>1. \A n \in Vm : ListedVm(n) <=> n \in Vm \ listing.left
    <2>1. \A n \in Vm \ listing.left : listing.flavor[n] # NotKnown
      BY ClientsAssumption DEF OsBase, ListedTrue
    <2>2. \A n \in listing.left : listing.flavor[n] = NotKnown
      BY DEF OsBase, ListingSound
    <2>. QED
      BY <2>1, <2>2 DEF ListedVm
  <1>2. ASSUME NEW n \in Vm
        PROVE  /\ <<"flavor", FlavorOf[m]>> \in AskedFor(n) <=> FlavorOf[n] = FlavorOf[m]
               /\ ImageOf[m] # NotKnown =>
                    (<<"image", ImageOf[m]>> \in AskedFor(n) <=> ImageOf[n] = ImageOf[m])
    <2>1. <<"flavor", FlavorOf[m]>> \in AskedFor(n) <=> FlavorOf[n] = FlavorOf[m]
      BY DEF AskedFor
    <2>2. ImageOf[m] # NotKnown =>
            (<<"image", ImageOf[m]>> \in AskedFor(n) <=> ImageOf[n] = ImageOf[m])
      BY DEF AskedFor
    <2>. QED
      BY <2>1, <2>2
  <1>3. \A e : e \in ReadOf(listing.left) <=> \E n \in Vm \ listing.left : e \in AskedFor(n)
    BY DEF ReadOf
  <1>4. \A of : Remembered(of, m) <=> \E n \in Vm \ listing.left : of[n] = of[m]
    BY <1>1 DEF Remembered
  <1>5. Remembered(FlavorOf, m) <=> <<"flavor", FlavorOf[m]>> \in ReadOf(listing.left)
    BY <1>2, <1>3, <1>4
  <1>6. ImageOf[m] # NotKnown =>
          (Remembered(ImageOf, m) <=> <<"image", ImageOf[m]>> \in ReadOf(listing.left))
    BY <1>2, <1>3, <1>4
  <1>. QED
    BY <1>5, <1>6

LEMMA ListingKept == ASSUME OsBase, NEW m \in Vm, WithFlavorAndImage(m) PROVE OsBase'
  <1>. DEFINE fl == <<"flavor", FlavorOf[m]>>
              im == <<"image", ImageOf[m]>>
              s == listing.asked
              one == s \o (IF Remembered(FlavorOf, m) THEN << >> ELSE <<fl>>)
              two == one \o (IF Remembered(ImageOf, m) \/ ImageOf[m] = NotKnown THEN << >> ELSE <<im>>)
  <1>1. /\ m \in listing.left /\ UNCHANGED <<tenantOf, osClient, caller, expired, keystoneNo, crossed>>
        /\ DOMAIN listing = {"on", "left", "asked", "flavor", "image", "host"}
        /\ listing.left \in SUBSET Vm /\ DOMAIN listing.flavor = Vm /\ DOMAIN listing.image = Vm
    BY DEF WithFlavorAndImage, OsBase, OsTypeOK
  <1>2. s \in Seq(Tagged) /\ OnlyOnce(s) /\ ItemsOf(s) = ReadOf(listing.left)
    BY DEF OsBase, ListingSound, ItemsOf, ReadOf, Tagged
  <1>3. one \in Seq(Tagged) /\ OnlyOnce(one) /\ ItemsOf(one) = ReadOf(listing.left) \cup {fl}
    <2>1. fl \in Tagged
      BY DEF Tagged, AskedFor
    <2>2. one = s \o (IF fl \in ItemsOf(s) THEN << >> ELSE <<fl>>)
      BY <1>1, <1>2, RememberedRead
    <2>. HIDE DEF one, fl, s
    <2>. QED
      BY <1>2, <2>1, <2>2, AddedIfNew
  <1>4. two \in Seq(Tagged) /\ OnlyOnce(two) /\ ItemsOf(two) = ReadOf(listing.left) \cup AskedFor(m)
    <2>. HIDE DEF one
    <2>1. CASE ImageOf[m] = NotKnown
      <3>1. two = one /\ AskedFor(m) = {fl}
        BY <2>1, <1>3 DEF AskedFor
      <3>. QED
        BY <3>1, <1>3
    <2>2. CASE ImageOf[m] # NotKnown
      <3>1. AskedFor(m) = {fl, im} /\ im \in Tagged /\ im # fl
        BY <2>2 DEF AskedFor, Tagged
      <3>2. Remembered(ImageOf, m) <=> im \in ItemsOf(one)
        BY <2>2, <1>1, <1>3, <3>1, RememberedRead
      <3>3. two = one \o (IF im \in ItemsOf(one) THEN << >> ELSE <<im>>)
        BY <2>2, <3>2
      <3>. HIDE DEF two, im, fl
      <3>4. two \in Seq(Tagged) /\ OnlyOnce(two) /\ ItemsOf(two) = ItemsOf(one) \cup {im}
        BY <1>3, <3>1, <3>3, AddedIfNew
      <3>. QED
        BY <1>3, <3>1, <3>4
    <2>. QED
      BY <2>1, <2>2
  <1>. HIDE DEF one
  <1>5. listing' = [listing EXCEPT !.left = @ \ {m}, !.flavor[m] = FlavorOf[m], !.image[m] = ImageOf[m],
                                   !.asked = two]
    BY <1>1 DEF WithFlavorAndImage, FlavorTaken, one
  <1>. HIDE DEF two
  <1>6. /\ DOMAIN listing' = DOMAIN listing /\ listing'.left = listing.left \ {m}
        /\ listing'.asked = two /\ listing'.host = listing.host
        /\ listing'.flavor = [listing.flavor EXCEPT ![m] = FlavorOf[m]]
        /\ listing'.image = [listing.image EXCEPT ![m] = ImageOf[m]]
    BY <1>1, <1>5
  <1>7. /\ listing'.flavor[m] = FlavorOf[m] /\ listing'.image[m] = ImageOf[m]
        /\ DOMAIN listing'.flavor = Vm /\ DOMAIN listing'.image = Vm
        /\ \A n \in Vm \ {m} : /\ listing'.flavor[n] = listing.flavor[n]
                               /\ listing'.image[n] = listing.image[n]
    BY <1>1, <1>6
  <1>8. OsTypeOK' /\ ClientsFollow'
    BY <1>1, <1>6, <1>7 DEF OsBase, OsTypeOK, ClientsFollow
  <1>9. ListingSound'
    <2>1. \A n \in listing'.left : listing'.flavor[n] = NotKnown
      BY <1>1, <1>6, <1>7 DEF OsBase, ListingSound
    <2>2. ItemsOf(two) = ReadOf(listing'.left)
      BY <1>1, <1>4, <1>6, ReadGrows
    <2>. QED
      BY <2>1, <2>2, <1>4, <1>6 DEF ListingSound, ItemsOf, ReadOf, Tagged
  <1>10. OnlyOnce(listing.asked)'
    BY <1>4, <1>6 DEF OnlyOnce
  <1>11. ListedTrue'
    BY <1>1, <1>6, <1>7 DEF OsBase, ListedTrue
  <1>12. HostFound'
    BY <1>6 DEF OsBase, HostFound
  <1>13. ASSUME NEW c \in Caller PROVE CallerOk(c)'
    BY <1>1 DEF OsBase, CallerOk, CallerSound, Strangers
  <1>. QED
    BY <1>8, <1>9, <1>10, <1>11, <1>12, <1>13 DEF OsBase

(* The host is that of its name or the first whose name begins it.         *)
LEMMA FoundAs ==
  ASSUME NEW list \in [1 .. 2 -> Hypervisor], NEW name \in Hypervisor, name \in {list[1], list[2]}
  PROVE  \/ FindResource(list, name) = name
         \/ FindResource(list, name) = list[1] /\ <<list[1], name>> \in PrefixOf
  <1>. DEFINE hits == {k \in DOMAIN list : NameMatches(list[k], name)}
  <1>1. <<name, name>> \in PrefixOf /\ DOMAIN list = {1, 2}
    BY ClientsAssumption
  <1>2. CASE 1 \in hits
    <2>1. (CHOOSE k \in hits : \A j \in hits : k <= j) = 1
      <3>1. \A j \in hits : 1 <= j
        BY <1>1
      <3>2. \A k \in hits : (\A j \in hits : k <= j) => k = 1
        BY <1>1, <1>2
      <3>. HIDE DEF hits
      <3>. QED
        BY <1>2, <3>1, <3>2
    <2>2. FindResource(list, name) = list[1]
      BY <1>2, <2>1 DEF FindResource
    <2>3. <<list[1], name>> \in PrefixOf
      BY <1>2 DEF NameMatches
    <2>. QED
      BY <2>2, <2>3
  <1>3. CASE 1 \notin hits
    <2>1. list[1] # name /\ list[2] = name
      BY <1>1, <1>3 DEF NameMatches
    <2>2. hits = {2}
      BY <1>1, <1>3, <2>1 DEF NameMatches
    <2>3. (CHOOSE k \in hits : \A j \in hits : k <= j) = 2
      BY <2>2
    <2>4. FindResource(list, name) = list[2]
      BY <2>2, <2>3 DEF FindResource
    <2>. QED
      BY <2>1, <2>4
  <1>. QED
    BY <1>2, <1>3

LEMMA CheckHostKept == ASSUME OsBase, CheckHost PROVE OsBase'
  <1>1. PICK list \in [1 .. 2 -> Hypervisor], name \in Hypervisor :
          listing' = [listing EXCEPT !.host = [list |-> list, asked |-> name,
                                               found |-> FindResource(list, name)]]
    BY DEF CheckHost
  <1>2. /\ UNCHANGED <<tenantOf, osClient, caller, expired, keystoneNo, crossed>>
        /\ DOMAIN listing = {"on", "left", "asked", "flavor", "image", "host"}
    BY DEF CheckHost, OsBase, OsTypeOK
  <1>3. PICK found : found = FindResource(list, name)
    OBVIOUS
  <1>4. /\ DOMAIN listing' = DOMAIN listing /\ listing'.left = listing.left
        /\ listing'.asked = listing.asked /\ listing'.flavor = listing.flavor
        /\ listing'.image = listing.image
        /\ listing'.host = [list |-> list, asked |-> name, found |-> found]
    BY <1>1, <1>2, <1>3
  <1>5. OsTypeOK' /\ ClientsFollow'
    BY <1>2, <1>4 DEF OsBase, OsTypeOK, ClientsFollow
  <1>6. ListingSound' /\ OnlyOnce(listing.asked)' /\ ListedTrue'
    <2>1. ListingSound'
      <3>1. /\ \A m \in listing.left : listing.flavor[m] = NotKnown
            /\ listing.asked \in Seq(Tagged) /\ ItemsOf(listing.asked) = ReadOf(listing.left)
        BY DEF OsBase, ListingSound, ItemsOf, ReadOf, Tagged
      <3>2. /\ \A m \in listing'.left : listing'.flavor[m] = NotKnown
            /\ listing'.asked \in Seq(Tagged) /\ ItemsOf(listing'.asked) = ReadOf(listing'.left)
        BY <3>1, <1>4
      <3>. QED
        BY <3>2 DEF ListingSound, ItemsOf, ReadOf, Tagged
    <2>2. ListedTrue'
      BY <1>4 DEF OsBase, ListedTrue
    <2>3. OnlyOnce(listing.asked)'
      BY <1>4 DEF OsBase, OnlyOnce
    <2>. QED
      BY <2>1, <2>2, <2>3
  <1>7. HostFound'
    <2>1. /\ listing'.host.list = list /\ listing'.host.asked = name /\ listing'.host.found = found
          /\ DOMAIN list = {1, 2}
      BY <1>4
    <2>2. name \in {list[1], list[2]} =>
            found = name \/ (found = list[1] /\ <<list[1], name>> \in PrefixOf)
      BY <1>3, FoundAs
    <2>. QED
      BY <2>1, <2>2 DEF HostFound
  <1>8. ASSUME NEW c \in Caller PROVE CallerOk(c)'
    BY <1>2 DEF OsBase, CallerOk, CallerSound, Strangers
  <1>. QED
    BY <1>5, <1>6, <1>7, <1>8 DEF OsBase

LEMMA OsSame == ASSUME OsBase, UNCHANGED osVars PROVE OsBase'
  <1>1. UNCHANGED <<tenantOf, osClient, caller, expired, keystoneNo, crossed, listing>>
    BY DEF osVars
  <1>2. OsTypeOK' /\ ClientsFollow'
    BY <1>1 DEF OsBase, OsTypeOK, ClientsFollow
  <1>3. ListingSound' /\ OnlyOnce(listing.asked)' /\ ListedTrue' /\ HostFound'
    BY <1>1, ListingStays
  <1>4. ASSUME NEW c \in Caller PROVE CallerOk(c)'
    BY <1>1 DEF OsBase, CallerOk, CallerSound, Strangers
  <1>. QED
    BY <1>2, <1>3, <1>4 DEF OsBase

LEMMA OsKept == ClientsInv /\ [OsNext]_osVars => ClientsInv'
  <1>. SUFFICES ASSUME OsBase, [OsNext]_osVars PROVE OsBase'
    BY OsInvBase, PTL
  <1>1. CASE UNCHANGED osVars
    BY <1>1, OsSame
  <1>2. ASSUME NEW c \in Caller,
               \/ BeginAuth(c) \/ KeystoneRefuses(c) \/ AuthNova(c) \/ AuthNeutron(c)
               \/ TokenExpires(c) \/ Make(c) \/ Look(c) \/ Administer(c)
        PROVE  OsBase'
    BY <1>2, BeginAuthKept, KeystoneKept, AuthNovaKept, AuthNeutronKept, TokenExpiresKept,
       MakeKept, LookKept, AdministerKept
  <1>3. CASE CheckHost
    BY <1>3, CheckHostKept
  <1>4. ASSUME NEW m \in Vm, WithFlavorAndImage(m) PROVE OsBase'
    BY <1>4, ListingKept
  <1>. QED
    BY <1>1, <1>2, <1>3, <1>4 DEF OsNext

(***************************************************************************)
(* DbMigration: the commands of the operators                              *)
(***************************************************************************)

MigBase ==
  /\ MigTypeOK /\ RunsApart /\ (\A o \in Operator : RunSound(o)) /\ MadeStays
  /\ TablesSound /\ SavedSound /\ VersionSound

LEMMA PlacesOfRevisions ==
  /\ DOMAIN Revisions = 1 .. 3 /\ ToSet(Revisions) = {"none", "folsom", "second"}
  /\ PlaceOf("none") = 1 /\ PlaceOf("folsom") = 2 /\ PlaceOf("second") = 3
  <1>1. DOMAIN Revisions = 1 .. 3
    BY DEF Revisions
  <1>2. Revisions[1] = "none" /\ Revisions[2] = "folsom" /\ Revisions[3] = "second"
    BY DEF Revisions
  <1>3. \A i \in 1 .. 3 : i = 1 \/ i = 2 \/ i = 3
    OBVIOUS
  <1>4. PlaceOf("none") = 1
    BY <1>1, <1>2, <1>3 DEF PlaceOf
  <1>5. PlaceOf("folsom") = 2
    BY <1>1, <1>2, <1>3 DEF PlaceOf
  <1>6. PlaceOf("second") = 3
    BY <1>1, <1>2, <1>3 DEF PlaceOf
  <1>7. ToSet(Revisions) = {"none", "folsom", "second"}
    BY <1>1, <1>2, <1>3 DEF ToSet
  <1>. QED
    BY <1>1, <1>4, <1>5, <1>6, <1>7

LEMMA TablesByPlace ==
  /\ DOMAIN Tables = 1 .. 5 /\ Len(Tables) = 5
  /\ \A i \in 1 .. 5 : Tables[i] \in AllTables
  /\ \A t \in AllTables : \E i \in 1 .. 5 : Tables[i] = t
  /\ \A i, j \in 1 .. 5 : Tables[i] = Tables[j] => i = j
  /\ Tables[4] = "vduconfigurations"
  /\ \A i \in 1 .. 5 : Tables[i] = "servicetemplates" => i = 3
  /\ Tables[3] = "servicetemplates"
  <1>1. DOMAIN Tables = 1 .. 5 /\ Len(Tables) = 5
    BY DEF Tables
  <1>2. /\ Tables[1] = "networkservices" /\ Tables[2] = "vdus" /\ Tables[3] = "servicetemplates"
        /\ Tables[4] = "vduconfigurations" /\ Tables[5] = "users"
    BY DEF Tables
  <1>3. \A i \in 1 .. 5 : i = 1 \/ i = 2 \/ i = 3 \/ i = 4 \/ i = 5
    OBVIOUS
  <1>4. AllTables = {Tables[i] : i \in 1 .. 5}
    BY <1>1 DEF AllTables, ToSet
  <1>5. \A i, j \in 1 .. 5 : Tables[i] = Tables[j] => i = j
    BY <1>2, <1>3
  <1>6. \A i \in 1 .. 5 : Tables[i] = "servicetemplates" => i = 3
    BY <1>2, <1>3
  <1>. QED
    BY <1>1, <1>2, <1>4, <1>5, <1>6

LEMMA CommandIs ==
  ASSUME NEW c \in AlembicCommands
  PROVE  /\ c.cmd \in {"upgrade", "downgrade", "stamp", "check_migration", "revision"}
         /\ c.engine \in {"", "MyISAM"} /\ c.sql \in BOOLEAN
         /\ c.cmd = "stamp" => c.rev \in {"folsom", "none"}
         /\ EngineAsked(c) \in Engines /\ EngineAsked(c) # ""
  BY DEF AlembicCommands, EngineAsked, Engines

LEMMA NoCommandIs == NoCommand.cmd = "none" /\ ~NoCommand.sql
  BY DEF NoCommand

Joined(a, b) == a \o b

LEMMA JoinedIs ==
  ASSUME NEW S, NEW a \in Seq(S), NEW b \in Seq(S), NEW m \in Nat, NEW n \in Nat,
         Len(a) = m, Len(b) = n
  PROVE  /\ Joined(a, b) \in Seq(S) /\ Len(Joined(a, b)) = m + n
         /\ \A i \in 1 .. m : Joined(a, b)[i] = a[i]
         /\ \A i \in 1 .. n : Joined(a, b)[m + i] = b[i]
  <1>1. Joined(a, b) \in Seq(S) /\ Len(Joined(a, b)) = m + n
    BY DEF Joined
  <1>2. \A i \in 1 .. m : Joined(a, b)[i] = a[i]
    BY DEF Joined
  <1>3. \A i \in 1 .. n : Joined(a, b)[m + i] = b[i]
    BY DEF Joined
  <1>. QED
    BY <1>1, <1>2, <1>3

LEMMA NothingJoined ==
  ASSUME NEW S, NEW a \in Seq(S)
  PROVE  Joined(a, << >>) = a /\ Joined(<< >>, a) = a
  <1>1. Joined(a, << >>) = a
    BY DEF Joined
  <1>2. Joined(<< >>, a) = a
    BY DEF Joined
  <1>. QED
    BY <1>1, <1>2

(* The scripts, statement by statement.                                    *)
LEMMA CreatesAre ==
  /\ Creates \in Seq(Statements) /\ Len(Creates) = 5
  /\ \A i \in 1 .. 5 : Creates[i] = [does |-> "create", what |-> Tables[i]]
  BY TablesByPlace DEF Creates, Statements

LEMMA DropsAre ==
  /\ Drops \in Seq(Statements) /\ Len(Drops) = 5
  /\ \A i \in 1 .. 5 : Drops[i] = [does |-> "drop", what |-> Tables[i]]
  BY TablesByPlace DEF Drops, Statements

RecordOf(rev) == [does |-> "record", what |-> rev]

LEMMA RecordIs ==
  ASSUME NEW i \in 1 .. 3
  PROVE  /\ Record(i) \in Seq(Statements) /\ Len(Record(i)) = 1
         /\ Record(i)[1] = RecordOf(Revisions[i])
  <1>1. [does |-> "record", what |-> Revisions[i]] \in Statements
    BY PlacesOfRevisions DEF Statements, ToSet
  <1>. QED
    BY <1>1 DEF Record, RecordOf

(* Five statements in a row are of the tables, one by one.                 *)
AllTablesBut(S, deed, k) ==
  \A i \in 1 .. 5 : S[i + k] = [does |-> deed, what |-> Tables[i]]

LengthIs(S, n) == Len(S) = n

LEMMA TablesThen ==
  ASSUME NEW A \in Seq(Statements), NEW b \in Seq(Statements), NEW deed, NEW rev,
         LengthIs(A, 5), AllTablesBut(A, deed, 0), LengthIs(b, 1), b[1] = RecordOf(rev)
  PROVE  /\ Joined(A, b) \in Seq(Statements) /\ Len(Joined(A, b)) = 6
         /\ AllTablesBut(Joined(A, b), deed, 0) /\ Joined(A, b)[6] = RecordOf(rev)
  <1>0. \A m, n \in Nat : Len(A) = m /\ Len(b) = n =>
           /\ Joined(A, b) \in Seq(Statements) /\ Len(Joined(A, b)) = m + n
           /\ \A i \in 1 .. m : Joined(A, b)[i] = A[i]
           /\ \A i \in 1 .. n : Joined(A, b)[m + i] = b[i]
    BY JoinedIs
  <1>1. /\ Joined(A, b) \in Seq(Statements) /\ Len(Joined(A, b)) = 5 + 1
        /\ \A i \in 1 .. 5 : Joined(A, b)[i] = A[i]
        /\ \A i \in 1 .. 1 : Joined(A, b)[5 + i] = b[i]
    BY <1>0 DEF LengthIs
  <1>4. Joined(A, b)[5 + 1] = b[1]
    BY <1>1
  <1>. QED
    BY <1>1, <1>4 DEF AllTablesBut

LEMMA ThenRecord ==
  ASSUME NEW A \in Seq(Statements), NEW b \in Seq(Statements), NEW deed, NEW rev, NEW end,
         LengthIs(A, 6), AllTablesBut(A, deed, 0), A[6] = RecordOf(end),
         LengthIs(b, 1), b[1] = RecordOf(rev)
  PROVE  /\ Joined(A, b) \in Seq(Statements) /\ Len(Joined(A, b)) = 7
         /\ AllTablesBut(Joined(A, b), deed, 0)
         /\ Joined(A, b)[6] = RecordOf(end) /\ Joined(A, b)[7] = RecordOf(rev)
  <1>0. \A m, n \in Nat : Len(A) = m /\ Len(b) = n =>
           /\ Joined(A, b) \in Seq(Statements) /\ Len(Joined(A, b)) = m + n
           /\ \A i \in 1 .. m : Joined(A, b)[i] = A[i]
           /\ \A i \in 1 .. n : Joined(A, b)[m + i] = b[i]
    BY JoinedIs
  <1>1. /\ Joined(A, b) \in Seq(Statements) /\ Len(Joined(A, b)) = 6 + 1
        /\ \A i \in 1 .. 6 : Joined(A, b)[i] = A[i]
        /\ \A i \in 1 .. 1 : Joined(A, b)[6 + i] = b[i]
    BY <1>0 DEF LengthIs
  <1>4. Joined(A, b)[6 + 1] = b[1]
    BY <1>1
  <1>. QED
    BY <1>1, <1>4 DEF AllTablesBut

LEMMA RecordThen ==
  ASSUME NEW A \in Seq(Statements), NEW b \in Seq(Statements), NEW deed, NEW rev, NEW end,
         LengthIs(A, 6), AllTablesBut(A, deed, 0), A[6] = RecordOf(end),
         LengthIs(b, 1), b[1] = RecordOf(rev)
  PROVE  /\ Joined(b, A) \in Seq(Statements) /\ Len(Joined(b, A)) = 7
         /\ AllTablesBut(Joined(b, A), deed, 1)
         /\ Joined(b, A)[1] = RecordOf(rev) /\ Joined(b, A)[7] = RecordOf(end)
  <1>0. \A m, n \in Nat : Len(b) = m /\ Len(A) = n =>
           /\ Joined(b, A) \in Seq(Statements) /\ Len(Joined(b, A)) = m + n
           /\ \A i \in 1 .. m : Joined(b, A)[i] = b[i]
           /\ \A i \in 1 .. n : Joined(b, A)[m + i] = A[i]
    BY JoinedIs
  <1>1. /\ Joined(b, A) \in Seq(Statements) /\ Len(Joined(b, A)) = 1 + 6
        /\ \A i \in 1 .. 1 : Joined(b, A)[i] = b[i]
        /\ \A i \in 1 .. 6 : Joined(b, A)[1 + i] = A[i]
    BY <1>0 DEF LengthIs
  <1>4. Joined(b, A)[1 + 6] = A[6]
    BY <1>1
  <1>5. \A i \in 1 .. 5 : Joined(b, A)[i + 1] = A[i]
    BY <1>1
  <1>. QED
    BY <1>1, <1>4, <1>5 DEF AllTablesBut

LEMMA RecordsAre ==
  /\ Record(1) \in Seq(Statements) /\ Len(Record(1)) = 1 /\ Record(1)[1] = RecordOf("none")
  /\ Record(2) \in Seq(Statements) /\ Len(Record(2)) = 1 /\ Record(2)[1] = RecordOf("folsom")
  /\ Record(3) \in Seq(Statements) /\ Len(Record(3)) = 1 /\ Record(3)[1] = RecordOf("second")
  <1>1. Revisions[1] = "none" /\ Revisions[2] = "folsom" /\ Revisions[3] = "second"
    BY DEF Revisions
  <1>. QED
    BY <1>1, RecordIs

LEMMA UpScriptIs ==
  /\ LET S == UpScript(1, 2) IN
     /\ S \in Seq(Statements) /\ Len(S) = 6
     /\ AllTablesBut(S, "create", 0) /\ S[6] = RecordOf("folsom")
  /\ LET S == UpScript(1, 3) IN
     /\ S \in Seq(Statements) /\ Len(S) = 7
     /\ AllTablesBut(S, "create", 0) /\ S[6] = RecordOf("folsom") /\ S[7] = RecordOf("second")
  /\ UpScript(2, 3) = Record(3)
  /\ \A from, to \in 1 .. 3 : ~ (from = 1 /\ to > 1) /\ ~ (from < 3 /\ to = 3)
       => UpScript(from, to) = << >>
  <1>1. AllTablesBut(Creates, "create", 0)
    BY CreatesAre DEF AllTablesBut
  <1>2. LET A == Joined(Creates, Record(2)) IN
        /\ A \in Seq(Statements) /\ Len(A) = 6
        /\ AllTablesBut(A, "create", 0) /\ A[6] = RecordOf("folsom")
    BY <1>1, CreatesAre, RecordsAre, TablesThen DEF LengthIs
  <1>3. UpScript(1, 2) = Joined(Creates, Record(2))
    <2>1. UpScript(1, 2) = Joined(Joined(Creates, Record(2)), << >>)
      BY DEF UpScript, Joined
    <2>. QED
      BY <2>1, <1>2, NothingJoined
  <1>4. UpScript(1, 3) = Joined(Joined(Creates, Record(2)), Record(3))
    BY DEF UpScript, Joined
  <1>5. LET S == Joined(Joined(Creates, Record(2)), Record(3)) IN
        /\ S \in Seq(Statements) /\ Len(S) = 7
        /\ AllTablesBut(S, "create", 0) /\ S[6] = RecordOf("folsom") /\ S[7] = RecordOf("second")
    <2>. DEFINE A == Joined(Creates, Record(2))
                b == Record(3)
    <2>1. /\ A \in Seq(Statements) /\ Len(A) = 6 /\ AllTablesBut(A, "create", 0)
          /\ A[6] = RecordOf("folsom") /\ b \in Seq(Statements) /\ Len(b) = 1
          /\ b[1] = RecordOf("second")
      BY <1>2, RecordsAre
    <2>. HIDE DEF A, b
    <2>2. /\ Joined(A, b) \in Seq(Statements) /\ Len(Joined(A, b)) = 7
          /\ AllTablesBut(Joined(A, b), "create", 0)
          /\ Joined(A, b)[6] = RecordOf("folsom") /\ Joined(A, b)[7] = RecordOf("second")
      BY <2>1, ThenRecord DEF LengthIs
    <2>. QED
      BY <2>2 DEF A, b
  <1>6. UpScript(2, 3) = Record(3)
    <2>1. UpScript(2, 3) = Joined(<< >>, Record(3))
      BY DEF UpScript, Joined
    <2>. QED
      BY <2>1, RecordsAre, NothingJoined
  <1>7. ASSUME NEW from \in 1 .. 3, NEW to \in 1 .. 3,
               ~ (from = 1 /\ to > 1), ~ (from < 3 /\ to = 3)
        PROVE  UpScript(from, to) = << >>
    <2>1. UpScript(from, to) = << >> \o << >>
      BY <1>7 DEF UpScript, Joined
    <2>. QED
      BY <2>1
  <1>8. LET S == UpScript(1, 3) IN
        /\ S \in Seq(Statements) /\ Len(S) = 7
        /\ AllTablesBut(S, "create", 0) /\ S[6] = RecordOf("folsom") /\ S[7] = RecordOf("second")
    BY <1>4, <1>5
  <1>9. LET S == UpScript(1, 2) IN
        /\ S \in Seq(Statements) /\ Len(S) = 6
        /\ AllTablesBut(S, "create", 0) /\ S[6] = RecordOf("folsom")
    BY <1>2, <1>3
  <1>. QED
    BY <1>6, <1>7, <1>8, <1>9

LEMMA DownIs ==
  /\ LET S == Down(2, 1) IN
     /\ S \in Seq(Statements) /\ Len(S) = 6
     /\ AllTablesBut(S, "drop", 0) /\ S[6] = RecordOf("none")
  /\ LET S == Down(3, 1) IN
     /\ S \in Seq(Statements) /\ Len(S) = 7
     /\ AllTablesBut(S, "drop", 1) /\ S[1] = RecordOf("folsom") /\ S[7] = RecordOf("none")
  /\ Down(3, 2) = Record(2)
  /\ \A from, to \in 1 .. 3 : ~ (from > 1 /\ to = 1) /\ ~ (from = 3 /\ to < 3)
       => Down(from, to) = << >>
  <1>1. AllTablesBut(Drops, "drop", 0)
    BY DropsAre DEF AllTablesBut
  <1>2. LET A == Joined(Drops, Record(1)) IN
        /\ A \in Seq(Statements) /\ Len(A) = 6
        /\ AllTablesBut(A, "drop", 0) /\ A[6] = RecordOf("none")
    BY <1>1, DropsAre, RecordsAre, TablesThen DEF LengthIs
  <1>3. Down(2, 1) = Joined(Drops, Record(1))
    <2>1. Down(2, 1) = Joined(<< >>, Joined(Drops, Record(1)))
      BY DEF Down, Joined
    <2>. QED
      BY <2>1, <1>2, NothingJoined
  <1>4. Down(3, 1) = Joined(Record(2), Joined(Drops, Record(1)))
    BY DEF Down, Joined
  <1>5. LET S == Joined(Record(2), Joined(Drops, Record(1))) IN
        /\ S \in Seq(Statements) /\ Len(S) = 7
        /\ AllTablesBut(S, "drop", 1) /\ S[1] = RecordOf("folsom") /\ S[7] = RecordOf("none")
    <2>. DEFINE A == Joined(Drops, Record(1))
                b == Record(2)
    <2>1. /\ A \in Seq(Statements) /\ Len(A) = 6 /\ AllTablesBut(A, "drop", 0)
          /\ A[6] = RecordOf("none") /\ b \in Seq(Statements) /\ Len(b) = 1
          /\ b[1] = RecordOf("folsom")
      BY <1>2, RecordsAre
    <2>. HIDE DEF A, b
    <2>2. /\ Joined(b, A) \in Seq(Statements) /\ Len(Joined(b, A)) = 7
          /\ AllTablesBut(Joined(b, A), "drop", 1)
          /\ Joined(b, A)[1] = RecordOf("folsom") /\ Joined(b, A)[7] = RecordOf("none")
      BY <2>1, RecordThen DEF LengthIs
    <2>. QED
      BY <2>2 DEF A, b
  <1>6. Down(3, 2) = Record(2)
    <2>1. Down(3, 2) = Joined(Record(2), << >>)
      BY DEF Down, Joined
    <2>. QED
      BY <2>1, RecordsAre, NothingJoined
  <1>7. ASSUME NEW from \in 1 .. 3, NEW to \in 1 .. 3,
               ~ (from > 1 /\ to = 1), ~ (from = 3 /\ to < 3)
        PROVE  Down(from, to) = << >>
    <2>1. Down(from, to) = << >> \o << >>
      BY <1>7 DEF Down, Joined
    <2>. QED
      BY <2>1
  <1>8. LET S == Down(3, 1) IN
        /\ S \in Seq(Statements) /\ Len(S) = 7
        /\ AllTablesBut(S, "drop", 1) /\ S[1] = RecordOf("folsom") /\ S[7] = RecordOf("none")
    BY <1>4, <1>5
  <1>9. LET S == Down(2, 1) IN
        /\ S \in Seq(Statements) /\ Len(S) = 6
        /\ AllTablesBut(S, "drop", 0) /\ S[6] = RecordOf("none")
    BY <1>2, <1>3
  <1>. QED
    BY <1>6, <1>7, <1>8, <1>9

(* The six kinds of statement a run may come to.                           *)
IsCreate(o) == command[o].cmd = "upgrade" /\ saved[o][2] = "none" /\ changed[o] \in 0 .. 4
IsFirst(o) == command[o].cmd = "upgrade" /\ saved[o][2] = "none" /\ changed[o] = 5
IsSecond(o) ==
  /\ command[o].cmd = "upgrade"
  /\ \/ saved[o][2] = "none" /\ changed[o] = 6
     \/ saved[o][2] = "folsom" /\ changed[o] = 0
IsBack(o) == command[o].cmd = "downgrade" /\ saved[o][2] = "second" /\ changed[o] = 0
Downwards(o) ==
  /\ command[o].cmd = "downgrade" /\ saved[o][2] \in {"folsom", "second"}
  /\ saved[o][2] = "second" => changed[o] >= 1
IsDrop(o) == Downwards(o) /\ Gone(o) \in 0 .. 4
IsStart(o) == Downwards(o) /\ Gone(o) = 5

TableStatement(deed, i) == [does |-> deed, what |-> Tables[i]]

LEMMA RestFacts ==
  ASSUME MigTypeOK, NEW o \in Operator, RunSound(o), Executing(o)
  PROVE  /\ changed[o] \in Nat /\ todo[o] \in Seq(Statements)
         /\ saved[o][2] \in {"none", "folsom", "second"}
         /\ command[o].cmd \in {"upgrade", "downgrade"}
         /\ \E to \in 1 .. 3 :
              LET S == IF command[o].cmd = "upgrade"
                         THEN UpScript(PlaceOf(saved[o][2]), to)
                         ELSE Down(PlaceOf(saved[o][2]), to) IN
              /\ Len(S) = changed[o] + Len(todo[o])
              /\ todo[o] # << >> => Len(todo[o]) > 0 /\ Head(todo[o]) = S[changed[o] + 1]
  <1>1. changed[o] \in Nat /\ todo[o] \in Seq(Statements)
    BY DEF MigTypeOK
  <1>2. saved[o][2] \in {"none", "folsom", "second"}
    BY PlacesOfRevisions DEF MigTypeOK
  <1>3. command[o].cmd \in {"upgrade", "downgrade"}
    BY DEF RunSound
  <1>4. PICK to \in 1 .. 3 : RestOf(o, ScriptTo(o, to))
    BY PlacesOfRevisions DEF RunSound
  <1>5. todo[o] # << >> => Len(todo[o]) > 0 /\ 1 \in DOMAIN todo[o] /\ Head(todo[o]) = todo[o][1]
    BY <1>1
  <1>. QED
    BY <1>1, <1>2, <1>3, <1>4, <1>5 DEF RestOf, ScriptTo

LEMMA ScriptLengths ==
  /\ Len(UpScript(1, 2)) = 6 /\ Len(UpScript(1, 3)) = 7 /\ Len(UpScript(2, 3)) = 1
  /\ Len(Down(2, 1)) = 6 /\ Len(Down(3, 1)) = 7 /\ Len(Down(3, 2)) = 1
  <1>1. Len(UpScript(1, 2)) = 6
    BY UpScriptIs
  <1>2. Len(UpScript(1, 3)) = 7
    BY UpScriptIs
  <1>3. Len(UpScript(2, 3)) = 1
    BY UpScriptIs, RecordsAre
  <1>4. Len(Down(2, 1)) = 6
    BY DownIs
  <1>5. Len(Down(3, 1)) = 7
    BY DownIs
  <1>6. Len(Down(3, 2)) = 1
    BY DownIs, RecordsAre
  <1>. QED
    BY <1>1, <1>2, <1>3, <1>4, <1>5, <1>6

LEMMA UpNext ==
  ASSUME NEW to \in 1 .. 3, NEW rev \in {"none", "folsom", "second"},
         NEW n \in Nat, n + 1 <= Len(UpScript(PlaceOf(rev), to))
  PROVE  LET h == UpScript(PlaceOf(rev), to)[n + 1] IN
         \/ rev = "none" /\ n \in 0 .. 4 /\ h = TableStatement("create", n + 1)
         \/ rev = "none" /\ n = 5 /\ h = RecordOf("folsom")
         \/ rev = "none" /\ n = 6 /\ h = RecordOf("second")
         \/ rev = "folsom" /\ n = 0 /\ h = RecordOf("second")
  <1>1. CASE rev = "none" /\ to = 2
    <2>1. \A i \in 1 .. 5 : UpScript(1, 2)[i + 0] = TableStatement("create", i)
      BY UpScriptIs DEF AllTablesBut, TableStatement
    <2>2. n \in 0 .. 5 /\ UpScript(1, 2)[6] = RecordOf("folsom")
      BY <1>1, UpScriptIs, PlacesOfRevisions
    <2>. QED
      BY <1>1, <2>1, <2>2, PlacesOfRevisions
  <1>2. CASE rev = "none" /\ to = 3
    <2>1. \A i \in 1 .. 5 : UpScript(1, 3)[i + 0] = TableStatement("create", i)
      BY UpScriptIs DEF AllTablesBut, TableStatement
    <2>2. UpScript(1, 3)[6] = RecordOf("folsom") /\ UpScript(1, 3)[7] = RecordOf("second")
      BY UpScriptIs
    <2>3. Len(UpScript(1, 3)) = 7
      BY ScriptLengths
    <2>5. UpScript(PlaceOf(rev), to) = UpScript(1, 3)
      BY <1>2, PlacesOfRevisions
    <2>6. n + 1 <= 7
      BY <2>3, <2>5
    <2>4. n \in 0 .. 4 \/ n = 5 \/ n = 6
      BY <2>6
    <2>. QED
      BY <1>2, <2>1, <2>2, <2>4, PlacesOfRevisions
  <1>3. CASE rev = "folsom" /\ to = 3
    <2>1. UpScript(PlaceOf(rev), to) = Record(3)
      BY <1>3, UpScriptIs, PlacesOfRevisions
    <2>2. Record(3)[1] = RecordOf("second")
      BY RecordsAre
    <2>4. UpScript(PlaceOf(rev), to) = UpScript(2, 3) /\ Len(UpScript(2, 3)) = 1
      BY <1>3, PlacesOfRevisions, ScriptLengths
    <2>5. n + 1 <= 1
      BY <2>4
    <2>3. n = 0
      BY <2>5
    <2>. QED
      BY <1>3, <2>1, <2>2, <2>3
  <1>4. CASE rev = "none" /\ to = 1
    BY <1>4, UpScriptIs, PlacesOfRevisions
  <1>5. CASE rev = "folsom" /\ to # 3
    BY <1>5, UpScriptIs, PlacesOfRevisions
  <1>6. CASE rev = "second"
    BY <1>6, UpScriptIs, PlacesOfRevisions
  <1>. QED
    BY <1>1, <1>2, <1>3, <1>4, <1>5, <1>6

LEMMA DownNext ==
  ASSUME NEW to \in 1 .. 3, NEW rev \in {"none", "folsom", "second"},
         NEW n \in Nat, n + 1 <= Len(Down(PlaceOf(rev), to))
  PROVE  LET h == Down(PlaceOf(rev), to)[n + 1] IN
         \/ rev = "folsom" /\ n \in 0 .. 4 /\ h = TableStatement("drop", n + 1)
         \/ rev = "folsom" /\ n = 5 /\ h = RecordOf("none")
         \/ rev = "second" /\ n = 0 /\ h = RecordOf("folsom")
         \/ rev = "second" /\ n \in 1 .. 5 /\ h = TableStatement("drop", n)
         \/ rev = "second" /\ n = 6 /\ h = RecordOf("none")
  <1>1. CASE rev = "folsom" /\ to = 1
    <2>1. \A i \in 1 .. 5 : Down(2, 1)[i + 0] = TableStatement("drop", i)
      BY DownIs DEF AllTablesBut, TableStatement
    <2>2. n \in 0 .. 5 /\ Down(2, 1)[6] = RecordOf("none")
      BY <1>1, DownIs, PlacesOfRevisions
    <2>. QED
      BY <1>1, <2>1, <2>2, PlacesOfRevisions
  <1>2. CASE rev = "second" /\ to = 1
    <2>1. \A i \in 1 .. 5 : Down(3, 1)[i + 1] = TableStatement("drop", i)
      BY DownIs DEF AllTablesBut, TableStatement
    <2>2. Down(3, 1)[1] = RecordOf("folsom") /\ Down(3, 1)[7] = RecordOf("none")
      BY DownIs
    <2>3. Len(Down(3, 1)) = 7
      BY ScriptLengths
    <2>5. Down(PlaceOf(rev), to) = Down(3, 1)
      BY <1>2, PlacesOfRevisions
    <2>6. n + 1 <= 7
      BY <2>3, <2>5
    <2>4. n = 0 \/ n \in 1 .. 5 \/ n = 6
      BY <2>6
    <2>. QED
      BY <1>2, <2>1, <2>2, <2>4, PlacesOfRevisions
  <1>3. CASE rev = "second" /\ to = 2
    BY <1>3, DownIs, PlacesOfRevisions, RecordsAre
  <1>4. CASE rev = "second" /\ to = 3
    BY <1>4, DownIs, PlacesOfRevisions
  <1>5. CASE rev = "folsom" /\ to # 1
    BY <1>5, DownIs, PlacesOfRevisions
  <1>6. CASE rev = "none"
    BY <1>6, DownIs, PlacesOfRevisions
  <1>. QED
    BY <1>1, <1>2, <1>3, <1>4, <1>5, <1>6

LEMMA NextIs ==
  ASSUME MigTypeOK, NEW o \in Operator, RunSound(o), todo[o] # << >>
  PROVE  /\ Executing(o) /\ changed[o] \in Nat
         /\ \/ IsCreate(o) /\ Head(todo[o]) = TableStatement("create", changed[o] + 1)
            \/ IsFirst(o) /\ Head(todo[o]) = RecordOf("folsom")
            \/ IsSecond(o) /\ Head(todo[o]) = RecordOf("second")
            \/ IsBack(o) /\ Head(todo[o]) = RecordOf("folsom")
            \/ IsDrop(o) /\ Head(todo[o]) = TableStatement("drop", Gone(o) + 1)
            \/ IsStart(o) /\ Head(todo[o]) = RecordOf("none")
  <1>1. Executing(o)
    BY DEF RunSound
  <1>2. changed[o] \in Nat /\ todo[o] \in Seq(Statements) /\ Len(todo[o]) \in Nat
    BY <1>1, RestFacts
  <1>3. CASE command[o].cmd = "upgrade"
    <2>1. PICK to \in 1 .. 3 :
            /\ changed[o] + 1 <= Len(UpScript(PlaceOf(saved[o][2]), to))
            /\ Head(todo[o]) = UpScript(PlaceOf(saved[o][2]), to)[changed[o] + 1]
      BY <1>1, <1>2, <1>3, RestFacts
    <2>2. saved[o][2] \in {"none", "folsom", "second"}
      BY <1>1, RestFacts
    <2>3. \/ saved[o][2] = "none" /\ changed[o] \in 0 .. 4
             /\ Head(todo[o]) = TableStatement("create", changed[o] + 1)
          \/ saved[o][2] = "none" /\ changed[o] = 5 /\ Head(todo[o]) = RecordOf("folsom")
          \/ saved[o][2] = "none" /\ changed[o] = 6 /\ Head(todo[o]) = RecordOf("second")
          \/ saved[o][2] = "folsom" /\ changed[o] = 0 /\ Head(todo[o]) = RecordOf("second")
      BY <1>2, <2>1, <2>2, UpNext
    <2>. QED
      BY <1>1, <1>2, <1>3, <2>3 DEF IsCreate, IsFirst, IsSecond
  <1>4. CASE command[o].cmd = "downgrade"
    <2>1. PICK to \in 1 .. 3 :
            /\ changed[o] + 1 <= Len(Down(PlaceOf(saved[o][2]), to))
            /\ Head(todo[o]) = Down(PlaceOf(saved[o][2]), to)[changed[o] + 1]
      BY <1>1, <1>2, <1>4, RestFacts
    <2>2. saved[o][2] \in {"none", "folsom", "second"}
      BY <1>1, RestFacts
    <2>3. \/ saved[o][2] = "folsom" /\ changed[o] \in 0 .. 4
             /\ Head(todo[o]) = TableStatement("drop", changed[o] + 1)
          \/ saved[o][2] = "folsom" /\ changed[o] = 5 /\ Head(todo[o]) = RecordOf("none")
          \/ saved[o][2] = "second" /\ changed[o] = 0 /\ Head(todo[o]) = RecordOf("folsom")
          \/ saved[o][2] = "second" /\ changed[o] \in 1 .. 5
             /\ Head(todo[o]) = TableStatement("drop", changed[o])
          \/ saved[o][2] = "second" /\ changed[o] = 6 /\ Head(todo[o]) = RecordOf("none")
      BY <1>2, <2>1, <2>2, DownNext
    <2>4. Gone(o) = IF saved[o][2] = "second" /\ changed[o] > 0 THEN changed[o] - 1 ELSE changed[o]
      BY <1>4 DEF Gone
    <2>5. CASE saved[o][2] = "folsom"
      <3>1. Gone(o) = changed[o]
        BY <2>4, <2>5
      <3>. QED
        BY <1>1, <1>2, <1>4, <2>3, <2>5, <3>1 DEF IsDrop, IsStart, Downwards
    <2>6. CASE saved[o][2] = "second" /\ changed[o] > 0
      <3>1. Gone(o) = changed[o] - 1 /\ Gone(o) + 1 = changed[o]
        BY <1>2, <2>4, <2>6
      <3>. QED
        BY <1>1, <1>2, <1>4, <2>3, <2>6, <3>1 DEF IsDrop, IsStart, Downwards
    <2>7. CASE saved[o][2] = "second" /\ changed[o] = 0
      BY <1>1, <1>2, <1>4, <2>3, <2>7 DEF IsBack
    <2>. QED
      BY <1>2, <2>3, <2>5, <2>6, <2>7
  <1>. QED
    BY <1>1, <1>3, <1>4, RestFacts

(* A run that is through is not between two statements of its tables.      *)
LEMMA ThroughIs ==
  ASSUME MigTypeOK, NEW o \in Operator, RunSound(o), todo[o] = << >> \/ changed[o] = 0
  PROVE  ~ Between(o)
  <1> SUFFICES ASSUME Executing(o), Gone(o) \in 1 .. 5 PROVE FALSE
    BY TablesByPlace DEF Between
  <1>1. changed[o] \in Nat /\ saved[o][2] \in {"none", "folsom", "second"}
    BY RestFacts
  <1>2. todo[o] = << >>
    BY <1>1 DEF Gone
  <1>3. CASE command[o].cmd = "upgrade"
    <2>1. PICK to \in 1 .. 3 : Len(UpScript(PlaceOf(saved[o][2]), to)) = changed[o]
      BY <1>1, <1>2, <1>3, RestFacts
    <2>2. saved[o][2] = "none" /\ changed[o] \in 1 .. 5
      BY <1>1, <1>3 DEF Gone
    <2>. QED
      BY <2>1, <2>2, UpScriptIs, PlacesOfRevisions
  <1>4. CASE command[o].cmd = "downgrade"
    <2>1. PICK to \in 1 .. 3 : Len(Down(PlaceOf(saved[o][2]), to)) = changed[o]
      BY <1>1, <1>2, <1>4, RestFacts
    <2>2. \/ saved[o][2] # "second" /\ changed[o] \in 1 .. 5
          \/ saved[o][2] = "second" /\ changed[o] \in 2 .. 6
      BY <1>1, <1>4 DEF Gone
    <2>4. CASE saved[o][2] = "second"
      <3>1. PlaceOf(saved[o][2]) = 3
        BY <2>4, PlacesOfRevisions
      <3>2. CASE to = 1
        <4>1. changed[o] = 7
          BY <2>1, <3>1, <3>2, ScriptLengths
        <4>. QED
          BY <2>2, <2>4, <4>1
      <3>3. CASE to = 2
        <4>1. changed[o] = 1
          BY <2>1, <3>1, <3>3, ScriptLengths
        <4>. QED
          BY <2>2, <2>4, <4>1
      <3>4. CASE to = 3
        <4>1. Down(3, 3) = << >>
          BY DownIs
        <4>2. changed[o] = 0
          BY <2>1, <3>1, <3>4, <4>1
        <4>. QED
          BY <2>2, <2>4, <4>2
      <3>. QED
        BY <3>2, <3>3, <3>4
    <2>5. CASE saved[o][2] # "second"
      BY <1>1, <2>1, <2>2, <2>5, DownIs, PlacesOfRevisions
    <2>. QED
      BY <2>4, <2>5
  <1>. QED
    BY <1>3, <1>4, RestFacts

(* What is between commands is what the last run left.                     *)
LEMMA MigrationPromises == MigBase => TablesAsVersion /\ AllOrNoTable
  <1> SUFFICES ASSUME MigBase, NobodyRuns, Transactional \/ blemish = {}
               PROVE  AsTold(tableIs, version)
    BY DEF TablesAsVersion, AllOrNoTable, AsTold, WholeIn, NoneIn, Whole, NobodyRuns, AllTables,
           Tables
  <1>1. \A o \in Operator : ~ Executing(o)
    BY NoCommandIs DEF MigBase, NobodyRuns, RunSound
  <1>. QED
    BY <1>1 DEF MigBase, TablesSound, Between

LEMMA MigrationStarts == MigrationInit => MigrationInv
  <1> SUFFICES ASSUME MigrationInit PROVE MigrationInv
    OBVIOUS
  <1>1. \A o \in Operator : /\ ~ Executing(o) /\ todo[o] = <<>> /\ changed[o] = 0
                           /\ ~ Between(o)
    BY DEF MigrationInit, Executing, Between
  <1>2. MigTypeOK
    <2>1. tableIs \in [AllTables -> Engines \cup {"absent"}] /\ version \in ToSet(Revisions)
      BY PlacesOfRevisions DEF MigrationInit
    <2>2. saved \in [Operator -> [AllTables -> Engines \cup {"absent"}] \X ToSet(Revisions)]
      BY <2>1 DEF MigrationInit
    <2>3. todo \in [Operator -> Seq(Statements)]
      <3>1. << >> \in Seq(Statements)
        OBVIOUS
      <3>. QED
        BY <3>1 DEF MigrationInit
    <2>. QED
      BY <2>1, <2>2, <2>3 DEF MigrationInit, MigTypeOK
  <1>3. RunsApart /\ (\A o \in Operator : RunSound(o)) /\ MadeStays
    BY <1>1 DEF RunsApart, RunSound, MadeStays
  <1>4. AsTold(tableIs, version)
    BY DEF MigrationInit, AsTold, NoneIn
  <1>5. TablesSound /\ SavedSound /\ VersionSound
    BY <1>1, <1>4 DEF TablesSound, SavedSound, VersionSound
  <1>6. MigBase
    BY <1>2, <1>3, <1>5 DEF MigBase
  <1>. QED
    BY <1>6, MigrationPromises DEF MigBase, MigrationInv

(* A run that a step leaves alone stays sound, and where it is.            *)
Alone(p) ==
  /\ engineOf'[p] = engineOf[p] /\ command'[p] = command[p] /\ endedHow'[p] = endedHow[p]
  /\ todo'[p] = todo[p] /\ changed'[p] = changed[p] /\ saved'[p] = saved[p]

LEMMA AloneKept ==
  ASSUME NEW p \in Operator, Alone(p)
  PROVE  /\ Executing(p)' <=> Executing(p)
         /\ Gone(p)' = Gone(p) /\ (Between(p)' <=> Between(p))
         /\ RunSound(p) => RunSound(p)'
         /\ tableIs' = tableIs => (TablesOf(p)' <=> TablesOf(p))
  <1>1. Executing(p)' <=> Executing(p)
    BY DEF Alone, Executing
  <1>2. Gone(p)' = Gone(p)
    BY DEF Alone, Gone
  <1>3. Between(p)' <=> Between(p)
    BY <1>1, <1>2 DEF Between
  <1>4. RunSound(p) => RunSound(p)'
    <2>1. \A to : RestOf(p, ScriptTo(p, to)) => RestOf(p, ScriptTo(p, to))'
      BY DEF Alone, RestOf, ScriptTo
    <2>. QED
      BY <1>1, <2>1 DEF Alone, RunSound
  <1>5. tableIs' = tableIs => (TablesOf(p)' <=> TablesOf(p))
    BY <1>2 DEF Alone, TablesOf
  <1>. QED
    BY <1>1, <1>2, <1>3, <1>4, <1>5

LEMMA EndsAs ==
  ASSUME MigTypeOK, NEW o \in Operator, NEW how, CommandEnds(o, how)
  PROVE  /\ ~ Executing(o)' /\ RunSound(o)'
         /\ \A p \in Operator : p # o => Alone(p)
         /\ blemish \subseteq blemish' /\ dialect' = dialect
         /\ ~ (how # "well" /\ Transactional /\ changed[o] > 0)
              => /\ tableIs' = tableIs /\ version' = version
                 /\ how # "well" /\ changed[o] > 0 => "halfway" \in blemish'
         /\ how # "well" /\ Transactional /\ changed[o] > 0
              => tableIs' = saved[o][1] /\ version' = saved[o][2] /\ blemish' = blemish
  <1>1. engineOf'[o] = "" /\ todo'[o] = << >> /\ changed'[o] = 0
    BY DEF CommandEnds, MigTypeOK
  <1>2. \A p \in Operator : p # o => Alone(p)
    BY DEF CommandEnds, MigTypeOK, Alone
  <1>3. /\ blemish \subseteq blemish' /\ dialect' = dialect
        /\ ~ (how # "well" /\ Transactional /\ changed[o] > 0)
              => /\ tableIs' = tableIs /\ version' = version
                 /\ how # "well" /\ changed[o] > 0 => "halfway" \in blemish'
        /\ how # "well" /\ Transactional /\ changed[o] > 0
              => tableIs' = saved[o][1] /\ version' = saved[o][2] /\ blemish' = blemish
    BY DEF CommandEnds
  <1>. QED
    BY <1>1, <1>2, <1>3 DEF Executing, RunSound

LEMMA EndsTyped ==
  ASSUME MigTypeOK, NEW o \in Operator, NEW how \in {"well", "failed", "died"},
         CommandEnds(o, how)
  PROVE  MigTypeOK'
  <1>1. tableIs' \in [AllTables -> Engines \cup {"absent"}] /\ version' \in ToSet(Revisions)
    <2>1. saved[o] \in [AllTables -> Engines \cup {"absent"}] \X ToSet(Revisions)
      BY DEF MigTypeOK
    <2>2. /\ saved[o][1] \in [AllTables -> Engines \cup {"absent"}]
          /\ saved[o][2] \in ToSet(Revisions)
      BY <2>1
    <2>3. tableIs' \in {tableIs, saved[o][1]} /\ version' \in {version, saved[o][2]}
      BY DEF CommandEnds
    <2>4. tableIs \in [AllTables -> Engines \cup {"absent"}] /\ version \in ToSet(Revisions)
      BY DEF MigTypeOK
    <2>5. version' \in ToSet(Revisions)
      BY <2>2, <2>3, <2>4
    <2>6. tableIs' = tableIs \/ tableIs' = saved[o][1]
      BY <2>3
    <2>7. CASE tableIs' = tableIs
      BY <2>4, <2>5, <2>7, Zenon
    <2>8. CASE tableIs' = saved[o][1]
      BY <2>2, <2>5, <2>8, Zenon
    <2>. QED
      BY <2>6, <2>7, <2>8
  <1>2. command' \in [Operator -> AlembicCommands \cup {NoCommand}]
    BY DEF CommandEnds, MigTypeOK
  <1>3. todo' \in [Operator -> Seq(Statements)]
    <2>1. << >> \in Seq(Statements)
      OBVIOUS
    <2>. QED
      BY <2>1 DEF CommandEnds, MigTypeOK
  <1>4. engineOf' \in [Operator -> Engines \cup {""}] /\ changed' \in [Operator -> Nat]
    BY DEF CommandEnds, MigTypeOK
  <1>5. endedHow' \in [Operator -> {"none", "well", "failed", "died"}]
    BY DEF CommandEnds, MigTypeOK
  <1>6. blemish' \subseteq {"halfway", "crossed", "stamped"}
    BY DEF CommandEnds, MigTypeOK
  <1>. QED
    BY <1>1, <1>2, <1>3, <1>4, <1>5, <1>6 DEF CommandEnds, MigTypeOK

(* However a command ends, at the end of its script or before: what it has *)
(* done is taken back, or the tables are as the script leaves them, or     *)
(* something was left halfway.                                             *)
LEMMA EndsKept ==
  ASSUME MigBase, NEW o \in Operator, NEW how \in {"well", "failed", "died"},
         CommandEnds(o, how), how = "well" => todo[o] = << >>
  PROVE  MigBase'
  <1>. DEFINE back == how # "well" /\ Transactional /\ changed[o] > 0
  <1>1. MigTypeOK /\ MigTypeOK' /\ \A p \in Operator : RunSound(p)
    BY EndsTyped DEF MigBase
  <1>2. /\ ~ Executing(o)' /\ RunSound(o)'
        /\ blemish \subseteq blemish' /\ (Transactional' <=> Transactional)
        /\ ~ back => /\ tableIs' = tableIs /\ version' = version
                     /\ how # "well" /\ changed[o] > 0 => "halfway" \in blemish'
        /\ back => tableIs' = saved[o][1] /\ version' = saved[o][2] /\ blemish' = blemish
    BY <1>1, EndsAs DEF Transactional
  <1>3. \A p \in Operator : p # o => Alone(p)
    BY <1>1, EndsAs
  <1>4. \A p \in Operator : p # o =>
          /\ Executing(p)' <=> Executing(p)
          /\ Gone(p)' = Gone(p) /\ (Between(p)' <=> Between(p))
          /\ RunSound(p) => RunSound(p)'
          /\ tableIs' = tableIs => (TablesOf(p)' <=> TablesOf(p))
    BY <1>3, AloneKept
  <1>5. back => Executing(o) /\ \A p \in Operator : ~ Executing(p)'
    <2>1. back => Executing(o)
      BY <1>1 DEF RunSound
    <2>2. Executing(o) /\ Transactional => \A p \in Operator : p # o => ~ Executing(p)
      BY DEF MigBase, RunsApart
    <2>. QED
      BY <1>2, <1>4, <2>1, <2>2
  <1>6. RunsApart'
    BY <1>2, <1>3, <1>4 DEF MigBase, RunsApart, Alone
  <1>7. \A p \in Operator : RunSound(p)'
    BY <1>1, <1>2, <1>4
  <1>8. MadeStays'
    <2>1. CASE back
      BY <1>5, <2>1 DEF MadeStays
    <2>2. CASE ~ back
      BY <1>2, <1>3, <1>4, <2>2 DEF MigBase, MadeStays, Alone
    <2>. QED
      BY <2>1, <2>2
  <1>9. TablesSound'
    <2>1. CASE back
      <3>1. \A p \in Operator : ~ Between(p)'
        BY <1>5, <2>1 DEF Between
      <3>2. AsTold(saved[o][1], saved[o][2])
        BY <1>5, <2>1 DEF MigBase, SavedSound
      <3>3. AsTold(tableIs, version)'
        BY <1>2, <2>1, <3>2 DEF AsTold, WholeIn, NoneIn
      <3>. QED
        BY <3>1, <3>3 DEF TablesSound
    <2>2. CASE ~ back
      <3>. SUFFICES ASSUME Transactional' \/ blemish' = {}
                    PROVE  /\ \A p \in Operator : Between(p)' =>
                                /\ TablesOf(p)'
                                /\ \A q \in Operator : Between(q)' => q = p
                           /\ (\A p \in Operator : ~Between(p)') => AsTold(tableIs, version)'
        BY DEF TablesSound
      <3>1. Transactional \/ blemish = {}
        BY <1>2
      <3>2. todo[o] = << >> \/ changed[o] = 0
        <4>1. changed[o] \in Nat
          BY <1>1 DEF MigTypeOK
        <4>2. CASE how # "well" /\ changed[o] > 0
          BY <1>2, <2>2, <4>2
        <4>. QED
          BY <4>1, <4>2
      <3>3. ~ Between(o) /\ ~ Between(o)'
        BY <1>1, <1>2, <3>2, ThroughIs DEF Between
      <3>4. \A p \in Operator : Between(p)' <=> Between(p)
        BY <1>4, <3>3
      <3>5. \A p \in Operator : Between(p) => /\ TablesOf(p)
                                            /\ \A q \in Operator : Between(q) => q = p
        BY <3>1 DEF MigBase, TablesSound
      <3>6. AsTold(tableIs, version) => AsTold(tableIs, version)'
        BY <1>2, <2>2 DEF AsTold, WholeIn, NoneIn
      <3>7. (\A p \in Operator : ~ Between(p)) => AsTold(tableIs, version)
        BY <3>1 DEF MigBase, TablesSound
      <3>8. \A p \in Operator : Between(p)' => TablesOf(p)'
        BY <1>2, <1>4, <2>2, <3>3, <3>5
      <3>. QED
        BY <3>4, <3>5, <3>6, <3>7, <3>8
    <2>. QED
      BY <2>1, <2>2
  <1>10. SavedSound'
    <2>1. CASE back
      BY <1>5, <2>1 DEF SavedSound
    <2>2. CASE ~ back
      <3>1. \A tables, told : AsTold(tables, told) => AsTold(tables, told)'
        BY <1>2 DEF AsTold, WholeIn, NoneIn
      <3>. QED
        BY <1>2, <1>3, <1>4, <2>2, <3>1 DEF MigBase, SavedSound, Alone
    <2>. QED
      BY <2>1, <2>2
  <1>11. VersionSound'
    <2>1. CASE back
      BY <1>5, <2>1 DEF VersionSound
    <2>2. CASE ~ back
      <3>. SUFFICES ASSUME blemish' = {}, NEW p \in Operator, p # o, Executing(p)
                    PROVE  (IF command[p].cmd = "upgrade"
                             THEN saved[p][2] # "none" \/ changed[p] > Len(Tables)
                                    => version # "none"
                             ELSE /\ changed[p] = 0 => version = saved[p][2]
                                  /\ saved[p][2] = "second" /\ changed[p] = 1
                                       => version = "folsom"
                                  /\ \A i \in DOMAIN Tables : i > Gone(p) =>
                                       tableIs[Tables[i]] = saved[p][1][Tables[i]]
                                  /\ Gone(p) \in 3 .. 5 =>
                                       /\ ~Transactional
                                       /\ saved[p][1]["vduconfigurations"] # "InnoDB")'
        BY <1>2, <1>4 DEF VersionSound
      <3>1. blemish = {}
        BY <1>2
      <3>. QED
        BY <1>2, <1>3, <1>4, <2>2, <3>1 DEF MigBase, VersionSound, Alone
    <2>. QED
      BY <2>1, <2>2
  <1>. QED
    BY <1>1, <1>6, <1>7, <1>8, <1>9, <1>10, <1>11 DEF MigBase

(* Where nobody's run is concerned, or only the version is stamped over,   *)
(* what holds of the runs and the tables stays.                            *)
LEMMA QuietKept ==
  ASSUME NEW o \in Operator, MigBase, MigTypeOK',
         ~ Executing(o), ~ Executing(o)', RunSound(o)',
         \A p \in Operator : p # o => Alone(p),
         tableIs' = tableIs, dialect' = dialect, blemish \subseteq blemish',
         \/ version' = version
         \/ blemish' # {} /\ (Transactional => \A p \in Operator : ~ Executing(p))
  PROVE  MigBase'
  <1>1. MigTypeOK /\ (\A p \in Operator : RunSound(p)) /\ (Transactional' <=> Transactional)
    BY DEF MigBase, Transactional
  <1>2. \A p \in Operator : p # o =>
          /\ Executing(p)' <=> Executing(p)
          /\ Gone(p)' = Gone(p) /\ (Between(p)' <=> Between(p))
          /\ RunSound(p) => RunSound(p)'
          /\ tableIs' = tableIs => (TablesOf(p)' <=> TablesOf(p))
    BY AloneKept
  <1>3. \A p \in Operator : Executing(p)' <=> Executing(p)
    BY <1>2
  <1>4. \A p \in Operator : Between(p)' <=> Between(p)
    BY <1>2 DEF Between
  <1>5. \A p \in Operator : Executing(p) => p # o
    OBVIOUS
  <1>6. \A tables, told : (blemish' = {} => blemish = {})
                           /\ (AsTold(tables, told) => AsTold(tables, told)')
    BY DEF AsTold, WholeIn, NoneIn
  <1>7. RunsApart'
    BY <1>1, <1>3, <1>5 DEF MigBase, RunsApart, Alone
  <1>8. \A p \in Operator : RunSound(p)'
    BY <1>1, <1>2
  <1>9. MadeStays'
    BY <1>2, <1>3, <1>5 DEF MigBase, MadeStays, Alone
  <1>10. TablesSound'
    <2>. SUFFICES ASSUME Transactional' \/ blemish' = {}
                  PROVE  /\ \A p \in Operator : Between(p)' =>
                              /\ TablesOf(p)'
                              /\ \A q \in Operator : Between(q)' => q = p
                         /\ (\A p \in Operator : ~Between(p)') => AsTold(tableIs, version)'
      BY DEF TablesSound
    <2>1. Transactional \/ blemish = {}
      BY <1>1, <1>6
    <2>2. /\ \A p \in Operator : Between(p) =>
               /\ TablesOf(p)
               /\ \A q \in Operator : Between(q) => q = p
          /\ (\A p \in Operator : ~Between(p)) => AsTold(tableIs, version)
      BY <2>1 DEF MigBase, TablesSound
    <2>3. \A p \in Operator : Between(p) => p # o
      BY DEF Between
    <2>4. AsTold(tableIs, version) => AsTold(tableIs, version)'
      BY DEF AsTold, WholeIn, NoneIn
    <2>5. \A p \in Operator : Between(p)' => TablesOf(p)'
      BY <1>2, <1>4, <2>2, <2>3
    <2>. QED
      BY <1>4, <2>2, <2>4, <2>5
  <1>11. SavedSound'
    <2>. SUFFICES ASSUME Transactional', NEW p \in Operator, Executing(p)'
                  PROVE  (/\ AsTold(saved[p][1], saved[p][2])
                          /\ changed[p] = 0 => saved[p] = <<tableIs, version>>)'
      BY DEF SavedSound
    <2>1. Executing(p) /\ Transactional /\ Alone(p) /\ version' = version
      BY <1>1, <1>3, <1>5
    <2>2. /\ AsTold(saved[p][1], saved[p][2])
          /\ changed[p] = 0 => saved[p] = <<tableIs, version>>
      BY <2>1 DEF MigBase, SavedSound
    <2>3. AsTold(saved[p][1], saved[p][2])'
      BY <2>1, <2>2 DEF Alone, AsTold, WholeIn, NoneIn
    <2>. QED
      BY <2>1, <2>2, <2>3 DEF Alone
  <1>12. VersionSound'
    <2>1. CASE blemish' # {}
      BY <2>1 DEF VersionSound
    <2>2. CASE blemish' = {}
      <3>1. blemish = {} /\ version' = version
        BY <1>6, <2>2
      <3>. QED
        BY <1>1, <1>2, <1>3, <1>5, <3>1 DEF MigBase, VersionSound, Alone
    <2>. QED
      BY <2>1, <2>2
  <1>. QED
    BY <1>7, <1>8, <1>9, <1>10, <1>11, <1>12 DEF MigBase

LEMMA LaunchKept ==
  ASSUME NEW o \in Operator, NEW c \in AlembicCommands, MigBase, Launch(o, c)
  PROVE  MigBase'
  <1>1. MigTypeOK /\ RunSound(o)
    BY DEF MigBase
  <1>2. ~ Executing(o)
    BY <1>1, NoCommandIs DEF RunSound, Launch
  <1>3. ~ Executing(o)' /\ RunSound(o)'
    BY <1>1, <1>2 DEF Launch, Executing, RunSound
  <1>4. \A p \in Operator : p # o => Alone(p)
    BY <1>1 DEF Launch, Alone, MigTypeOK
  <1>5. MigTypeOK'
    <2>1. command' \in [Operator -> AlembicCommands \cup {NoCommand}]
      BY <1>1 DEF Launch, MigTypeOK
    <2>2. commands' \in Nat
      <3>1. commands \in Nat /\ commands' = commands + 1
        BY <1>1 DEF Launch, MigTypeOK
      <3>. QED
        BY <3>1
    <2>3. endedHow' \in [Operator -> {"none", "well", "failed", "died"}]
      <3>1. /\ endedHow \in [Operator -> {"none", "well", "failed", "died"}]
            /\ endedHow' = [endedHow EXCEPT ![o] = "none"]
        BY <1>1 DEF Launch, MigTypeOK
      <3>. QED
        BY <3>1
    <2>. QED
      BY <1>1, <2>1, <2>2, <2>3 DEF Launch, MigTypeOK
  <1>6. tableIs' = tableIs /\ dialect' = dialect /\ blemish' = blemish /\ version' = version
    BY DEF Launch
  <1>. QED
    BY <1>2, <1>3, <1>4, <1>5, <1>6, QuietKept

LEMMA StampKept ==
  ASSUME NEW o \in Operator, MigBase, Stamp(o)
  PROVE  MigBase'
  <1>1. MigTypeOK /\ RunSound(o)
    BY DEF MigBase
  <1>2. ~ Executing(o)
    BY <1>1 DEF RunSound, Stamp
  <1>3. ~ Executing(o)' /\ RunSound(o)'
    BY <1>1, <1>2 DEF Stamp, Executing, RunSound
  <1>4. \A p \in Operator : p # o => Alone(p)
    BY <1>1 DEF Stamp, Alone, MigTypeOK
  <1>5. command[o].rev \in {"folsom", "none"}
    <2>1. command[o] \in AlembicCommands \cup {NoCommand} /\ command[o].cmd = "stamp"
      BY <1>1 DEF Stamp, MigTypeOK
    <2>2. command[o] \in AlembicCommands
      BY <2>1, NoCommandIs
    <2>. QED
      BY <2>1, <2>2, CommandIs
  <1>6. MigTypeOK'
    BY <1>1, <1>5, PlacesOfRevisions DEF Stamp, MigTypeOK
  <1>7. tableIs' = tableIs /\ dialect' = dialect /\ blemish' # {} /\ blemish \subseteq blemish'
    BY DEF Stamp
  <1>8. Transactional => \A p \in Operator : ~ Executing(p)
    BY DEF Stamp, Executing
  <1>. QED
    BY <1>2, <1>3, <1>4, <1>6, <1>7, <1>8, QuietKept

LEMMA CheckoutKept ==
  ASSUME MigBase, Checkout
  PROVE  MigBase'
  <1>1. MigTypeOK /\ \A o \in Operator : RunSound(o)
    BY DEF MigBase
  <1>2. \A o \in Operator : Alone(o) /\ ~ Executing(o)
    BY <1>1, NoCommandIs DEF Checkout, Alone, RunSound
  <1>3. \A o \in Operator : ~ Executing(o)' /\ RunSound(o)' /\ ~ Between(o) /\ ~ Between(o)'
    BY <1>1, <1>2, AloneKept DEF Between
  <1>4. MigTypeOK'
    BY <1>1 DEF Checkout, MigTypeOK
  <1>5. AsTold(tableIs, version)' <=> AsTold(tableIs, version)
    BY DEF Checkout, AsTold, WholeIn, NoneIn
  <1>6. TablesSound'
    BY <1>3, <1>5 DEF MigBase, TablesSound, Checkout, Transactional
  <1>. QED
    BY <1>3, <1>4, <1>6 DEF MigBase, RunsApart, MadeStays, SavedSound, VersionSound

LEMMA ScriptsAre ==
  ASSUME NEW from \in 1 .. 3, NEW to \in 1 .. 3
  PROVE  UpScript(from, to) \in Seq(Statements) /\ Down(from, to) \in Seq(Statements)
  <1>0. << >> \in Seq(Statements)
    OBVIOUS
  <1>1. UpScript(from, to) \in Seq(Statements)
    <2>1. CASE from = 1 /\ to = 2
      BY <2>1, UpScriptIs
    <2>2. CASE from = 1 /\ to = 3
      BY <2>2, UpScriptIs
    <2>3. CASE from = 2 /\ to = 3
      BY <2>3, UpScriptIs, RecordsAre
    <2>4. CASE ~ (from = 1 /\ to > 1) /\ ~ (from < 3 /\ to = 3)
      BY <1>0, <2>4, UpScriptIs
    <2>. QED
      BY <2>1, <2>2, <2>3, <2>4
  <1>2. Down(from, to) \in Seq(Statements)
    <2>1. CASE from = 2 /\ to = 1
      BY <2>1, DownIs
    <2>2. CASE from = 3 /\ to = 1
      BY <2>2, DownIs
    <2>3. CASE from = 3 /\ to = 2
      BY <2>3, DownIs, RecordsAre
    <2>4. CASE ~ (from > 1 /\ to = 1) /\ ~ (from = 3 /\ to < 3)
      BY <1>0, <2>4, DownIs
    <2>. QED
      BY <2>1, <2>2, <2>3, <2>4
  <1>. QED
    BY <1>1, <1>2

(* A run begins with its whole script to come, laid out from the version   *)
(* it finds, and with what it would be taken back to.                      *)
RunBegins(o) ==
  /\ ~ Executing(o) /\ Executing(o)' /\ command'[o] = command[o]
  /\ changed[o] = 0 /\ changed'[o] = 0 /\ ~ Between(o) /\ Gone(o)' = 0
  /\ saved'[o] = <<tableIs, version>>
  /\ \A p \in Operator : p # o => Alone(p)
  /\ tableIs' = tableIs /\ version' = version /\ dialect' = dialect
  /\ Transactional => \A p \in Operator : ~ Executing(p)
  /\ blemish \subseteq blemish'
  /\ "crossed" \notin blemish' =>
       \A p \in Operator : Executing(p) => command[o].cmd = "upgrade" /\ command[p].cmd = "upgrade"

LEMMA BeginsAs ==
  ASSUME NEW o \in Operator, MigBase, RunOnline(o)
  PROVE  RunBegins(o) /\ RunSound(o)' /\ MigTypeOK'
  <1>. DEFINE c == command[o]
              from == PlaceOf(version)
              script == IF c.cmd = "upgrade" THEN UpScript(from, Target(c, from))
                                             ELSE Down(from, Target(c, from))
  <1>1. MigTypeOK /\ RunSound(o)
    BY DEF MigBase
  <1>2. ~ Executing(o) /\ changed[o] = 0
    BY <1>1 DEF RunOnline, Executing, RunSound
  <1>3. c \in AlembicCommands /\ c.cmd \in {"upgrade", "downgrade"} /\ ~ c.sql
    <2>1. c \in AlembicCommands \cup {NoCommand} /\ c.cmd \in {"upgrade", "downgrade"}
      BY <1>1 DEF RunOnline, MigTypeOK
    <2>. QED
      BY <2>1, NoCommandIs DEF RunOnline
  <1>4. EngineAsked(c) \in Engines /\ EngineAsked(c) # ""
    BY <1>3, CommandIs
  <1>5. engineOf' = [engineOf EXCEPT ![o] = EngineAsked(c)]
    BY DEF RunOnline
  <1>6. engineOf'[o] = EngineAsked(c) /\ Executing(o)'
    BY <1>1, <1>4, <1>5 DEF MigTypeOK, Executing
  <1>7. from \in 1 .. 3 /\ Target(c, from) \in 1 .. 3
    <2>1. version \in {"none", "folsom", "second"}
      BY <1>1, PlacesOfRevisions DEF MigTypeOK
    <2>2. Target(c, from) \in DOMAIN Revisions
      BY DEF RunOnline, Reachable
    <2>. QED
      BY <2>1, <2>2, PlacesOfRevisions
  <1>. HIDE DEF from
  <1>8. script \in Seq(Statements) /\ Len(script) \in Nat
    <2>1. script \in Seq(Statements)
      BY <1>7, ScriptsAre
    <2>. HIDE DEF script
    <2>. QED
      BY <2>1
  <1>9. todo' = [todo EXCEPT ![o] = script] /\ saved' = [saved EXCEPT ![o] = <<tableIs, version>>]
    BY DEF RunOnline, from
  <1>10. UNCHANGED <<dialect, tableIs, version, files, headFile, checkouts, command, changed,
                     endedHow, commands>>
    BY DEF RunOnline
  <1>11. todo'[o] = script /\ saved'[o] = <<tableIs, version>>
    BY <1>1, <1>9 DEF MigTypeOK
  <1>12. RunSound(o)'
    <2>1. PICK goal \in 1 .. 3 : goal = Target(c, from)
      BY <1>7
    <2>6. saved'[o][2] = version /\ command'[o] = c
      BY <1>10, <1>11
    <2>7. ScriptTo(o, goal)' = script
      BY <2>1, <2>6 DEF ScriptTo, from
    <2>2. \E to \in DOMAIN Revisions : ScriptTo(o, to)' = script
      BY <2>7, PlacesOfRevisions
    <2>. HIDE DEF script
    <2>3. Len(script) = changed'[o] + Len(todo'[o])
      BY <1>2, <1>8, <1>10, <1>11
    <2>4. \A i \in DOMAIN todo'[o] : todo'[o][i] = script[changed'[o] + i]
      BY <1>2, <1>8, <1>10, <1>11
    <2>5. \E to \in DOMAIN Revisions : RestOf(o, ScriptTo(o, to))'
      BY <2>2, <2>3, <2>4 DEF RestOf
    <2>. QED
      BY <1>3, <1>6, <1>10, <2>5 DEF RunSound
  <1>13. MigTypeOK'
    <2>1. engineOf' \in [Operator -> Engines \cup {""}]
      BY <1>1, <1>4, <1>5 DEF MigTypeOK
    <2>2. todo' \in [Operator -> Seq(Statements)]
      <3>. HIDE DEF script
      <3>. QED
        BY <1>1, <1>8, <1>9 DEF MigTypeOK
    <2>3. saved' \in [Operator -> [AllTables -> Engines \cup {"absent"}] \X ToSet(Revisions)]
      <3>1. <<tableIs, version>> \in [AllTables -> Engines \cup {"absent"}] \X ToSet(Revisions)
        BY <1>1 DEF MigTypeOK
      <3>. QED
        BY <1>1, <1>9, <3>1 DEF MigTypeOK
    <2>4. blemish' \subseteq {"halfway", "crossed", "stamped"}
      BY <1>1 DEF RunOnline, MigTypeOK
    <2>. QED
      BY <1>1, <1>10, <2>1, <2>2, <2>3, <2>4 DEF MigTypeOK
  <1>14. \A p \in Operator : p # o => Alone(p)
    BY <1>1, <1>5, <1>9, <1>10 DEF Alone, MigTypeOK
  <1>15. Gone(o)' = 0 /\ ~ Between(o)
    BY <1>2, <1>10 DEF Gone, Between
  <1>16. Transactional => \A p \in Operator : ~ Executing(p)
    BY DEF RunOnline, Executing
  <1>17. /\ blemish \subseteq blemish'
         /\ "crossed" \notin blemish' =>
              \A p \in Operator : Executing(p) =>
                command[o].cmd = "upgrade" /\ command[p].cmd = "upgrade"
    BY DEF RunOnline, Executing
  <1>. QED
    BY <1>2, <1>6, <1>10, <1>11, <1>12, <1>13, <1>14, <1>15, <1>16, <1>17 DEF RunBegins

LEMMA BeginsKept ==
  ASSUME NEW o \in Operator, MigBase, RunBegins(o), RunSound(o)', MigTypeOK'
  PROVE  MigBase'
  <1>1. MigTypeOK /\ (\A p \in Operator : RunSound(p)) /\ (Transactional' <=> Transactional)
    BY DEF MigBase, Transactional, RunBegins
  <1>2. \A p \in Operator : p # o => Alone(p)
    BY DEF RunBegins
  <1>3. \A p \in Operator : p # o =>
          /\ Executing(p)' <=> Executing(p)
          /\ Gone(p)' = Gone(p) /\ (Between(p)' <=> Between(p))
          /\ RunSound(p) => RunSound(p)'
          /\ tableIs' = tableIs => (TablesOf(p)' <=> TablesOf(p))
    BY <1>2, AloneKept
  <1>4. ~ Executing(o) /\ Executing(o)' /\ command'[o] = command[o]
    BY DEF RunBegins
  <1>5. Gone(o)' = 0 /\ ~ Between(o) /\ ~ Between(o)' /\ changed'[o] = 0
    <2>1. Gone(o)' = 0 /\ ~ Between(o) /\ changed'[o] = 0
      BY DEF RunBegins
    <2>2. 0 \notin DOMAIN Tables
      BY TablesByPlace
    <2>. QED
      BY <2>1, <2>2 DEF Between
  <1>6. \A p \in Operator : Between(p)' <=> Between(p)
    BY <1>3, <1>5
  <1>7. tableIs' = tableIs /\ version' = version /\ saved'[o] = <<tableIs, version>>
    BY DEF RunBegins
  <1>8. Transactional => \A p \in Operator : ~ Executing(p)
    BY DEF RunBegins
  <1>9. /\ blemish \subseteq blemish'
        /\ "crossed" \notin blemish' =>
             \A p \in Operator : Executing(p) =>
               command[o].cmd = "upgrade" /\ command[p].cmd = "upgrade"
    BY DEF RunBegins
  <1>10. \A tables, told : (blemish' = {} => blemish = {})
                            /\ (AsTold(tables, told) => AsTold(tables, told)')
    BY <1>9 DEF AsTold, WholeIn, NoneIn
  <1>11. RunsApart'
    <2>. SUFFICES ASSUME NEW p \in Operator, NEW q \in Operator, p # q,
                         Executing(p)', Executing(q)'
                  PROVE  /\ ~ Transactional'
                         /\ "crossed" \notin blemish' =>
                              command'[p].cmd = "upgrade" /\ command'[q].cmd = "upgrade"
      BY DEF RunsApart
    <2>1. CASE p # o /\ q # o
      BY <1>1, <1>2, <1>3, <1>9, <2>1 DEF MigBase, RunsApart, Alone
    <2>2. CASE p = o
      BY <1>1, <1>2, <1>3, <1>4, <1>8, <1>9, <2>2 DEF Alone
    <2>3. CASE q = o
      BY <1>1, <1>2, <1>3, <1>4, <1>8, <1>9, <2>3 DEF Alone
    <2>. QED
      BY <2>1, <2>2, <2>3
  <1>12. \A p \in Operator : RunSound(p)'
    BY <1>1, <1>3
  <1>13. MadeStays'
    <2>. SUFFICES ASSUME "crossed" \notin blemish', NEW p \in Operator, Executing(p)',
                         command'[p].cmd = "upgrade", NEW i \in DOMAIN Tables, i <= Gone(p)'
                  PROVE  tableIs'[Tables[i]] # "absent"
      BY DEF MadeStays
    <2>1. p # o
      <3>1. i \in 1 .. 5
        BY TablesByPlace
      <3>. QED
        BY <1>5, <3>1
    <2>. QED
      BY <1>2, <1>3, <1>7, <1>9, <2>1 DEF MigBase, MadeStays, Alone
  <1>14. TablesSound'
    <2>. SUFFICES ASSUME Transactional' \/ blemish' = {}
                  PROVE  /\ \A p \in Operator : Between(p)' =>
                              /\ TablesOf(p)'
                              /\ \A q \in Operator : Between(q)' => q = p
                         /\ (\A p \in Operator : ~Between(p)') => AsTold(tableIs, version)'
      BY DEF TablesSound
    <2>1. Transactional \/ blemish = {}
      BY <1>1, <1>10
    <2>2. /\ \A p \in Operator : Between(p) =>
               /\ TablesOf(p)
               /\ \A q \in Operator : Between(q) => q = p
          /\ (\A p \in Operator : ~Between(p)) => AsTold(tableIs, version)
      BY <2>1 DEF MigBase, TablesSound
    <2>3. AsTold(tableIs, version) => AsTold(tableIs, version)'
      BY <1>7, <1>9 DEF AsTold, WholeIn, NoneIn
    <2>4. \A p \in Operator : Between(p)' => TablesOf(p)'
      BY <1>3, <1>5, <1>6, <1>7, <2>2
    <2>. QED
      BY <1>6, <2>2, <2>3, <2>4
  <1>15. SavedSound'
    <2>. SUFFICES ASSUME Transactional', NEW p \in Operator, Executing(p)'
                  PROVE  (/\ AsTold(saved[p][1], saved[p][2])
                          /\ changed[p] = 0 => saved[p] = <<tableIs, version>>)'
      BY DEF SavedSound
    <2>1. p = o /\ \A q \in Operator : ~ Between(q)
      BY <1>1, <1>3, <1>8 DEF Between
    <2>2. AsTold(tableIs, version)
      BY <1>1, <2>1 DEF MigBase, TablesSound
    <2>3. AsTold(tableIs, version)'
      BY <1>7, <1>9, <2>2 DEF AsTold, WholeIn, NoneIn
    <2>4. saved'[o] = <<tableIs', version'>>
      BY <1>7
    <2>5. AsTold(saved[o][1], saved[o][2])'
      BY <2>3, <2>4
    <2>. QED
      BY <2>1, <2>4, <2>5
  <1>16. VersionSound'
    <2>1. CASE blemish' # {}
      BY <2>1 DEF VersionSound
    <2>2. CASE blemish' = {}
      <3>. SUFFICES ASSUME NEW p \in Operator, Executing(p)'
                    PROVE  (IF command[p].cmd = "upgrade"
                             THEN saved[p][2] # "none" \/ changed[p] > Len(Tables)
                                    => version # "none"
                             ELSE /\ changed[p] = 0 => version = saved[p][2]
                                  /\ saved[p][2] = "second" /\ changed[p] = 1
                                       => version = "folsom"
                                  /\ \A i \in DOMAIN Tables : i > Gone(p) =>
                                       tableIs[Tables[i]] = saved[p][1][Tables[i]]
                                  /\ Gone(p) \in 3 .. 5 =>
                                       /\ ~Transactional
                                       /\ saved[p][1]["vduconfigurations"] # "InnoDB")'
        BY DEF VersionSound
      <3>1. blemish = {}
        BY <1>10, <2>2
      <3>2. CASE p # o
        BY <1>1, <1>2, <1>3, <1>7, <3>1, <3>2 DEF MigBase, VersionSound, Alone
      <3>3. CASE p = o
        <4>1. saved'[o][1] = tableIs' /\ saved'[o][2] = version'
          BY <1>7
        <4>2. ~ (changed'[o] > Len(Tables)) /\ changed'[o] # 1 /\ Gone(o)' \notin 3 .. 5
          BY <1>5, TablesByPlace
        <4>. QED
          BY <3>3, <4>1, <4>2
      <3>. QED
        BY <3>2, <3>3
    <2>. QED
      BY <2>1, <2>2
  <1>. QED
    BY <1>11, <1>12, <1>13, <1>14, <1>15, <1>16 DEF MigBase

(* A statement is executed: what the run does, whatever the statement.     *)
Executes(o) ==
  /\ Executing(o) /\ Executing(o)' /\ command'[o] = command[o] /\ saved'[o] = saved[o]
  /\ changed[o] \in Nat /\ changed'[o] = changed[o] + 1
  /\ dialect' = dialect /\ blemish' = blemish
  /\ \A p \in Operator : p # o => Alone(p)

(* Of the six kinds of statement, each changes its table or the version.   *)
MakingTables(o) ==
  /\ IsCreate(o) /\ Gone(o) = changed[o] /\ Gone(o)' = Gone(o) + 1 /\ version' = version
  /\ tableIs[Tables[Gone(o) + 1]] = "absent"
  /\ tableIs' = [tableIs EXCEPT ![Tables[Gone(o) + 1]] = engineOf[o]]

RecordsFirst(o) == IsFirst(o) /\ Gone(o) = 5 /\ Gone(o)' = 6 /\ version' = "folsom"

RecordsSecond(o) ==
  /\ IsSecond(o) /\ version' = "second"
  /\ \/ Gone(o) = 0 /\ Gone(o)' = 0
     \/ Gone(o) = 6 /\ Gone(o)' = 7

GoesBack(o) == IsBack(o) /\ Gone(o) = 0 /\ Gone(o)' = 0 /\ version' = "folsom"

Dropping(o) ==
  /\ IsDrop(o) /\ Gone(o)' = Gone(o) + 1 /\ version' = version
  /\ tableIs[Tables[Gone(o) + 1]] # "absent" /\ ~ Kept(Tables[Gone(o) + 1])
  /\ tableIs' = [tableIs EXCEPT ![Tables[Gone(o) + 1]] = "absent"]

RecordsStart(o) == IsStart(o) /\ Gone(o) = 5 /\ Gone(o)' = 6 /\ version' = "none"

Recording(o) ==
  tableIs' = tableIs /\ (RecordsFirst(o) \/ RecordsSecond(o) \/ GoesBack(o) \/ RecordsStart(o))

LEMMA TailIs ==
  ASSUME NEW S, NEW t \in Seq(S), t # << >>
  PROVE  /\ Tail(t) \in Seq(S) /\ Len(t) \in Nat /\ Len(Tail(t)) \in Nat
         /\ Len(t) = 1 + Len(Tail(t))
         /\ \A i \in DOMAIN Tail(t) : i \in Nat /\ i + 1 \in DOMAIN t /\ Tail(t)[i] = t[i + 1]
  OBVIOUS

LEMMA ExecutesAs ==
  ASSUME NEW o \in Operator, MigTypeOK, RunSound(o), Execute(o)
  PROVE  Executes(o) /\ RunSound(o)'
  <1>1. Executing(o) /\ todo[o] # << >>
    BY DEF Execute, RunSound
  <1>2. changed[o] \in Nat /\ todo[o] \in Seq(Statements)
    BY DEF MigTypeOK
  <1>3. changed'[o] = changed[o] + 1 /\ todo'[o] = Tail(todo[o])
    BY DEF Execute, MigTypeOK
  <1>4. /\ UNCHANGED <<dialect, files, headFile, checkouts, command, engineOf, saved, endedHow,
                        commands, blemish>>
        /\ \A p \in Operator : p # o => Alone(p)
    BY DEF Execute, MigTypeOK, Alone
  <1>5. Executes(o)
    BY <1>1, <1>2, <1>3, <1>4 DEF Executes, Executing
  <1>6. PICK to \in DOMAIN Revisions : RestOf(o, ScriptTo(o, to))
    BY <1>1 DEF RunSound
  <1>. DEFINE S == ScriptTo(o, to)
              t == todo[o]
              n == changed[o]
  <1>7. Len(S) = n + Len(t) /\ \A i \in DOMAIN t : t[i] = S[n + i]
    BY <1>6 DEF RestOf
  <1>8. S' = S
    BY <1>4 DEF ScriptTo
  <1>9. /\ Tail(t) \in Seq(Statements) /\ Len(t) \in Nat /\ Len(Tail(t)) \in Nat
        /\ Len(t) = 1 + Len(Tail(t))
        /\ \A i \in DOMAIN Tail(t) : i \in Nat /\ i + 1 \in DOMAIN t /\ Tail(t)[i] = t[i + 1]
    BY <1>1, <1>2, TailIs
  <1>. HIDE DEF S, t, n
  <1>10. Len(S) = (n + 1) + Len(Tail(t))
    BY <1>2, <1>7, <1>9 DEF n
  <1>11. \A i \in DOMAIN Tail(t) : Tail(t)[i] = S[(n + 1) + i]
    <2>. SUFFICES ASSUME NEW i \in DOMAIN Tail(t) PROVE Tail(t)[i] = S[(n + 1) + i]
      OBVIOUS
    <2>1. i \in Nat /\ i + 1 \in DOMAIN t /\ Tail(t)[i] = t[i + 1]
      BY <1>9
    <2>2. t[i + 1] = S[n + (i + 1)]
      BY <1>7, <2>1
    <2>3. n + (i + 1) = (n + 1) + i
      BY <1>2, <2>1 DEF n
    <2>. QED
      BY <2>1, <2>2, <2>3
  <1>12. RestOf(o, ScriptTo(o, to))'
    BY <1>3, <1>8, <1>10, <1>11 DEF RestOf, S, n, t
  <1>. QED
    BY <1>1, <1>4, <1>5, <1>12 DEF RunSound, Executing

LEMMA ExecutesKinds ==
  ASSUME NEW o \in Operator, MigTypeOK, RunSound(o), Execute(o)
  PROVE  MakingTables(o) \/ Dropping(o) \/ Recording(o)
  <1>1. Executes(o)
    BY ExecutesAs
  <1>2. /\ changed[o] \in Nat /\ changed'[o] = changed[o] + 1
        /\ command'[o] = command[o] /\ saved'[o] = saved[o]
    BY <1>1 DEF Executes
  <1>. DEFINE s == Head(todo[o])
  <1>3. /\ Possible(s)
        /\ tableIs' = CASE s.does = "create" -> [tableIs EXCEPT ![s.what] = engineOf[o]]
                      [] s.does = "drop" -> [tableIs EXCEPT ![s.what] = "absent"]
                      [] s.does = "record" -> tableIs
        /\ version' = IF s.does = "record" THEN s.what ELSE version
        /\ todo[o] # << >>
    BY DEF Execute
  <1>. HIDE DEF s
  <1>4. \/ IsCreate(o) /\ s = TableStatement("create", changed[o] + 1)
        \/ IsFirst(o) /\ s = RecordOf("folsom")
        \/ IsSecond(o) /\ s = RecordOf("second")
        \/ IsBack(o) /\ s = RecordOf("folsom")
        \/ IsDrop(o) /\ s = TableStatement("drop", Gone(o) + 1)
        \/ IsStart(o) /\ s = RecordOf("none")
    BY <1>3, NextIs DEF s
  <1>5. \A rev : s = RecordOf(rev) => tableIs' = tableIs /\ version' = rev
    BY <1>3 DEF RecordOf
  <1>6. \A i : s = TableStatement("create", i) =>
          /\ tableIs[Tables[i]] = "absent" /\ version' = version
          /\ tableIs' = [tableIs EXCEPT ![Tables[i]] = engineOf[o]]
    BY <1>3 DEF TableStatement, Possible
  <1>7. \A i : s = TableStatement("drop", i) =>
          /\ tableIs[Tables[i]] # "absent" /\ ~ Kept(Tables[i]) /\ version' = version
          /\ tableIs' = [tableIs EXCEPT ![Tables[i]] = "absent"]
    BY <1>3 DEF TableStatement, Possible
  <1>8. IsCreate(o) => Gone(o) = changed[o] /\ Gone(o)' = changed[o] + 1
    BY <1>2 DEF IsCreate, Gone
  <1>9. IsFirst(o) => Gone(o) = 5 /\ Gone(o)' = 6
    BY <1>2 DEF IsFirst, Gone
  <1>10. IsSecond(o) => \/ Gone(o) = 0 /\ Gone(o)' = 0
                        \/ Gone(o) = 6 /\ Gone(o)' = 7
    BY <1>2 DEF IsSecond, Gone
  <1>11. IsBack(o) => Gone(o) = 0 /\ Gone(o)' = 0
    BY <1>2 DEF IsBack, Gone
  <1>12. Downwards(o) => Gone(o)' = Gone(o) + 1
    BY <1>2 DEF Downwards, Gone
  <1>13. CASE IsCreate(o) /\ s = TableStatement("create", changed[o] + 1)
    BY <1>6, <1>8, <1>13 DEF MakingTables
  <1>14. CASE IsDrop(o) /\ s = TableStatement("drop", Gone(o) + 1)
    BY <1>7, <1>12, <1>14 DEF Dropping, IsDrop
  <1>15. CASE IsFirst(o) /\ s = RecordOf("folsom")
    BY <1>5, <1>9, <1>15 DEF Recording, RecordsFirst
  <1>16. CASE IsSecond(o) /\ s = RecordOf("second")
    BY <1>5, <1>10, <1>16 DEF Recording, RecordsSecond
  <1>17. CASE IsBack(o) /\ s = RecordOf("folsom")
    BY <1>5, <1>11, <1>17 DEF Recording, GoesBack
  <1>18. CASE IsStart(o) /\ s = RecordOf("none")
    BY <1>5, <1>12, <1>18 DEF Recording, RecordsStart, IsStart
  <1>. QED
    BY <1>4, <1>13, <1>14, <1>15, <1>16, <1>17, <1>18

LEMMA ExecutesTyped ==
  ASSUME NEW o \in Operator, MigTypeOK, RunSound(o), Execute(o)
  PROVE  MigTypeOK'
  <1>. DEFINE s == Head(todo[o])
  <1>1. Executes(o)
    BY ExecutesAs
  <1>2. changed[o] \in Nat /\ todo[o] \in Seq(Statements) /\ todo[o] # << >>
    BY DEF MigTypeOK, Execute
  <1>3. s \in Statements /\ Tail(todo[o]) \in Seq(Statements)
    BY <1>2
  <1>. HIDE DEF s
  <1>4. \/ s.does \in {"create", "drop"} /\ s.what \in AllTables
        \/ s.does = "record" /\ s.what \in ToSet(Revisions)
    <2>1. \/ s \in [does : {"create", "drop"}, what : AllTables]
          \/ s \in [does : {"record"}, what : ToSet(Revisions)]
      BY <1>3 DEF Statements
    <2>2. CASE s \in [does : {"create", "drop"}, what : AllTables]
      BY <2>2
    <2>3. CASE s \in [does : {"record"}, what : ToSet(Revisions)]
      BY <2>3
    <2>. QED
      BY <2>1, <2>2, <2>3
  <1>5. engineOf[o] \in Engines
    <2>1. engineOf[o] \in Engines \cup {""}
      BY DEF MigTypeOK
    <2>2. engineOf[o] # ""
      BY <1>1 DEF Executes, Executing
    <2>. QED
      BY <2>1, <2>2
  <1>6. version' \in ToSet(Revisions)
    <2>1. version' = IF s.does = "record" THEN s.what ELSE version
      BY DEF Execute, s
    <2>2. version \in ToSet(Revisions)
      BY DEF MigTypeOK
    <2>. QED
      BY <1>4, <2>1, <2>2
  <1>7. tableIs' \in [AllTables -> Engines \cup {"absent"}]
    <2>1. tableIs \in [AllTables -> Engines \cup {"absent"}]
      BY DEF MigTypeOK
    <2>2. tableIs' = CASE s.does = "create" -> [tableIs EXCEPT ![s.what] = engineOf[o]]
                     [] s.does = "drop" -> [tableIs EXCEPT ![s.what] = "absent"]
                     [] s.does = "record" -> tableIs
      BY DEF Execute, s
    <2>3. \A x \in Engines \cup {"absent"} :
            [tableIs EXCEPT ![s.what] = x] \in [AllTables -> Engines \cup {"absent"}]
      BY <2>1
    <2>4. CASE s.does = "create"
      BY <1>5, <2>2, <2>3, <2>4
    <2>5. CASE s.does = "drop"
      BY <2>2, <2>3, <2>5
    <2>6. CASE s.does = "record"
      BY <2>1, <2>2, <2>6
    <2>. QED
      BY <1>4, <2>4, <2>5, <2>6
  <1>8. todo' \in [Operator -> Seq(Statements)]
    BY <1>3 DEF Execute, MigTypeOK
  <1>9. changed' \in [Operator -> Nat]
    <2>1. changed \in [Operator -> Nat] /\ changed' = [changed EXCEPT ![o] = @ + 1]
      BY DEF Execute, MigTypeOK
    <2>. QED
      BY <1>2, <2>1
  <1>. QED
    BY <1>6, <1>7, <1>8, <1>9 DEF Execute, MigTypeOK

(* Where nothing was crossed, nobody runs beside a downgrade, and beside   *)
(* an upgrade only upgrades do.                                            *)
LEMMA Company ==
  ASSUME NEW o \in Operator, RunsApart, Executing(o), NEW p \in Operator, p # o, Executing(p)
  PROVE  /\ ~ Transactional
         /\ "crossed" \notin blemish => command[o].cmd = "upgrade" /\ command[p].cmd = "upgrade"
  BY DEF RunsApart

LEMMA ExecutesCommon ==
  ASSUME NEW o \in Operator, MigBase, Executes(o), RunSound(o)'
  PROVE  RunsApart' /\ (\A p \in Operator : RunSound(p)') /\ SavedSound'
  <1>1. /\ (\A p \in Operator : RunSound(p)) /\ (Transactional' <=> Transactional)
        /\ \A p \in Operator : p # o => Alone(p)
    BY DEF MigBase, Transactional, Executes
  <1>2. \A p \in Operator : p # o =>
          /\ Executing(p)' <=> Executing(p)
          /\ RunSound(p) => RunSound(p)'
    BY <1>1, AloneKept
  <1>3. \A p \in Operator : (Executing(p)' <=> Executing(p)) /\ command'[p] = command[p]
    BY <1>1, <1>2 DEF Executes, Alone
  <1>4. RunsApart'
    BY <1>1, <1>3 DEF MigBase, RunsApart, Executes
  <1>5. \A p \in Operator : RunSound(p)'
    BY <1>1, <1>2
  <1>6. SavedSound'
    <2>. SUFFICES ASSUME Transactional', NEW p \in Operator, Executing(p)'
                  PROVE  (/\ AsTold(saved[p][1], saved[p][2])
                          /\ changed[p] = 0 => saved[p] = <<tableIs, version>>)'
      BY DEF SavedSound
    <2>1. p = o
      BY <1>1, <1>3, Company DEF MigBase, Executes
    <2>2. AsTold(saved[o][1], saved[o][2])
      BY <1>1 DEF MigBase, SavedSound, Executes
    <2>3. saved'[o] = saved[o] /\ blemish' = blemish /\ changed[o] \in Nat
          /\ changed'[o] = changed[o] + 1
      BY DEF Executes
    <2>4. changed'[o] # 0
      BY <2>3
    <2>5. AsTold(saved[o][1], saved[o][2])'
      BY <2>2, <2>3 DEF AsTold, WholeIn, NoneIn
    <2>. QED
      BY <2>1, <2>4, <2>5
  <1>. QED
    BY <1>4, <1>5, <1>6

(* The first table missing where none is between: there is none at all;    *)
(* nor is another between when the first table is missing.                 *)
LEMMA NextAlone ==
  ASSUME NEW o \in Operator, MigBase, Executing(o), Transactional \/ blemish = {},
         MakingTables(o) \/ Dropping(o)
  PROVE  /\ \A p \in Operator : Between(p) => p = o
         /\ \A i \in 1 .. 5 :
              tableIs[Tables[i]] = "absent" <=> (command[o].cmd = "upgrade") # (i <= Gone(o))
         /\ Gone(o) \in 0 .. 4
  <1>1. Gone(o) \in 0 .. 4
    BY DEF MakingTables, Dropping, IsCreate, IsDrop
  <1>2. /\ \A p \in Operator : Between(p) =>
             /\ TablesOf(p)
             /\ \A q \in Operator : Between(q) => q = p
        /\ (\A p \in Operator : ~Between(p)) => AsTold(tableIs, version)
    BY DEF MigBase, TablesSound
  <1>3. CASE Gone(o) # 0
    <2>1. Between(o)
      BY <1>1, <1>3, TablesByPlace DEF Between
    <2>. QED
      BY <1>1, <1>2, <2>1, TablesByPlace DEF TablesOf
  <1>4. CASE Gone(o) = 0
    <2>1. ASSUME NEW p \in Operator, Between(p) PROVE FALSE
      <3>1. p # o /\ Executing(p)
        BY <1>4, <2>1, TablesByPlace DEF Between
      <3>2. ~ Transactional /\ blemish = {}
        BY <3>1, Company DEF MigBase
      <3>3. command[o].cmd = "upgrade" /\ command[p].cmd = "upgrade"
        BY <3>1, <3>2, Company DEF MigBase
      <3>4. MakingTables(o)
        BY <3>3 DEF Dropping, IsDrop, Downwards
      <3>5. tableIs[Tables[1]] = "absent"
        BY <1>4, <3>4 DEF MakingTables
      <3>6. Gone(p) \in 1 .. 5 /\ TablesOf(p)
        BY <1>2, <2>1, TablesByPlace DEF Between
      <3>7. tableIs[Tables[1]] # "absent"
        BY <3>3, <3>6, TablesByPlace DEF TablesOf
      <3>. QED
        BY <3>5, <3>7
    <2>2. AsTold(tableIs, version)
      BY <1>2, <2>1
    <2>3. WholeIn(tableIs) \/ NoneIn(tableIs)
      BY <2>2 DEF AsTold
    <2>4. \A i \in 1 .. 5 : Tables[i] \in AllTables /\ ~ (i <= Gone(o))
      BY <1>4, TablesByPlace
    <2>5. CASE MakingTables(o)
      <3>1. tableIs[Tables[1]] = "absent"
        BY <1>4, <2>5 DEF MakingTables
      <3>2. NoneIn(tableIs)
        BY <2>3, <2>4, <3>1 DEF WholeIn
      <3>3. command[o].cmd = "upgrade"
        BY <2>5 DEF MakingTables, IsCreate
      <3>. QED
        BY <1>1, <2>1, <2>4, <3>2, <3>3 DEF NoneIn
    <2>6. CASE Dropping(o)
      <3>1. tableIs[Tables[1]] # "absent"
        BY <1>4, <2>6 DEF Dropping
      <3>2. WholeIn(tableIs)
        BY <2>3, <2>4, <3>1 DEF NoneIn
      <3>3. command[o].cmd = "downgrade"
        BY <2>6 DEF Dropping, IsDrop, Downwards
      <3>. QED
        BY <1>1, <2>1, <2>4, <3>2, <3>3 DEF WholeIn
    <2>. QED
      BY <2>5, <2>6
  <1>. QED
    BY <1>3, <1>4

(* What VersionSound says of one run.                                      *)
VersionOf(p) ==
  IF command[p].cmd = "upgrade"
    THEN saved[p][2] # "none" \/ changed[p] > Len(Tables) => version # "none"
    ELSE /\ changed[p] = 0 => version = saved[p][2]
         /\ saved[p][2] = "second" /\ changed[p] = 1 => version = "folsom"
         /\ \A i \in DOMAIN Tables : i > Gone(p) => tableIs[Tables[i]] = saved[p][1][Tables[i]]
         /\ Gone(p) \in 3 .. 5 => /\ ~Transactional
                                  /\ saved[p][1]["vduconfigurations"] # "InnoDB"

LEMMA VersionOfEach ==
  /\ VersionSound /\ blemish = {} => \A p \in Operator : Executing(p) => VersionOf(p)
  /\ (blemish' = {} => \A p \in Operator : Executing(p)' => VersionOf(p)') => VersionSound'
  <1>1. VersionSound <=> (blemish = {} => \A p \in Operator : Executing(p) => VersionOf(p))
    BY DEF VersionSound, VersionOf
  <1>2. VersionSound' <=> (blemish' = {} => \A p \in Operator : Executing(p)' => VersionOf(p)')
    BY DEF VersionSound, VersionOf
  <1>. QED
    BY <1>1, <1>2

LEMMA OthersKept ==
  ASSUME NEW o \in Operator, Executes(o), NEW p \in Operator, p # o
  PROVE  /\ Alone(p) /\ (Executing(p)' <=> Executing(p)) /\ Gone(p)' = Gone(p)
         /\ Between(p)' <=> Between(p)
         /\ tableIs' = tableIs => (TablesOf(p)' <=> TablesOf(p))
         /\ command[p].cmd = "upgrade" /\ VersionOf(p) /\ (version' = version \/ version' # "none")
              => VersionOf(p)'
  <1>1. Alone(p)
    BY DEF Executes
  <1>2. /\ Executing(p)' <=> Executing(p)
        /\ Gone(p)' = Gone(p) /\ (Between(p)' <=> Between(p))
        /\ tableIs' = tableIs => (TablesOf(p)' <=> TablesOf(p))
    BY <1>1, AloneKept
  <1>3. command[p].cmd = "upgrade" /\ VersionOf(p) /\ (version' = version \/ version' # "none")
          => VersionOf(p)'
    BY <1>1 DEF Alone, VersionOf
  <1>. QED
    BY <1>1, <1>2, <1>3

TableBecomes(k, x) == tableIs' = [tableIs EXCEPT ![Tables[k]] = x]

LEMMA OneTableChanges ==
  ASSUME MigTypeOK, NEW k \in 1 .. 5, NEW x, TableBecomes(k, x)
  PROVE  \A i \in 1 .. 5 :
           tableIs'[Tables[i]] = IF i = k THEN x ELSE tableIs[Tables[i]]
  <1>1. \A i \in 1 .. 5 : Tables[i] \in DOMAIN tableIs
    BY TablesByPlace DEF MigTypeOK
  <1>2. \A i \in 1 .. 5 : Tables[i] = Tables[k] => i = k
    BY TablesByPlace
  <1>. QED
    BY <1>1, <1>2 DEF TableBecomes

(* What TablesSound says, once it is known where the runs are.             *)
LEMMA TablesBetween ==
  ASSUME NEW o \in Operator, Between(o)', TablesOf(o)', \A p \in Operator : Between(p)' => p = o
  PROVE  TablesSound'
  BY DEF TablesSound

LEMMA CreatingKept ==
  ASSUME NEW o \in Operator, MigBase, MigTypeOK', Executes(o), MakingTables(o)
  PROVE  MadeStays' /\ TablesSound' /\ VersionSound'
  <1>1. PICK g \in 0 .. 4 : Gone(o) = g /\ changed[o] = g
    BY DEF MakingTables, IsCreate
  <1>2. /\ Gone(o)' = g + 1 /\ changed'[o] = g + 1 /\ version' = version /\ blemish' = blemish
        /\ command'[o] = command[o] /\ command[o].cmd = "upgrade" /\ saved'[o] = saved[o]
        /\ saved[o][2] = "none" /\ Executing(o) /\ Executing(o)'
        /\ tableIs' = [tableIs EXCEPT ![Tables[g + 1]] = engineOf[o]]
    BY <1>1 DEF MakingTables, IsCreate, Executes
  <1>3. engineOf[o] # "absent" /\ MigTypeOK
    BY DEF MigBase, MigTypeOK, Engines
  <1>4. \A i \in 1 .. 5 :
          tableIs'[Tables[i]] = IF i = g + 1 THEN engineOf[o] ELSE tableIs[Tables[i]]
    <2>1. PICK k \in 1 .. 5 : k = g + 1
      OBVIOUS
    <2>2. MigTypeOK
      BY <1>3
    <2>3. TableBecomes(k, engineOf[o])
      BY <1>2, <2>1 DEF TableBecomes
    <2>4. \A i \in 1 .. 5 :
            tableIs'[Tables[i]] = IF i = k THEN engineOf[o] ELSE tableIs[Tables[i]]
      BY <2>2, <2>3, OneTableChanges
    <2>. QED
      BY <2>1, <2>4
  <1>5. MadeStays'
    <2>. SUFFICES ASSUME "crossed" \notin blemish', NEW p \in Operator, Executing(p)',
                         command'[p].cmd = "upgrade", NEW i \in 1 .. 5, i <= Gone(p)'
                  PROVE  tableIs'[Tables[i]] # "absent"
      BY TablesByPlace DEF MadeStays
    <2>1. \A q \in Operator : Executing(q) /\ command[q].cmd = "upgrade" /\ i <= Gone(q)
            => tableIs[Tables[i]] # "absent"
      BY <1>2, TablesByPlace DEF MigBase, MadeStays
    <2>2. CASE i = g + 1
      BY <1>3, <1>4, <2>2
    <2>3. CASE i # g + 1 /\ p = o
      <3>1. i <= Gone(o)
        BY <1>1, <1>2, <2>3
      <3>. QED
        BY <1>2, <1>4, <2>1, <2>3, <3>1
    <2>4. CASE i # g + 1 /\ p # o
      <3>1. Executing(p) /\ command[p].cmd = "upgrade" /\ i <= Gone(p)
        BY <2>4, OthersKept DEF Alone
      <3>. QED
        BY <1>4, <2>1, <2>4, <3>1
    <2>. QED
      BY <2>2, <2>3, <2>4
  <1>6. TablesSound'
    <2>. SUFFICES ASSUME Transactional' \/ blemish' = {} PROVE TablesSound'
      BY DEF TablesSound
    <2>1. Transactional \/ blemish = {}
      BY DEF Executes, Transactional
    <2>2. /\ \A p \in Operator : Between(p) => p = o
          /\ \A i \in 1 .. 5 :
               tableIs[Tables[i]] = "absent" <=> (command[o].cmd = "upgrade") # (i <= Gone(o))
      BY <1>2, <2>1, NextAlone
    <2>3. Between(o)'
      BY <1>2, TablesByPlace DEF Between
    <2>4. \A p \in Operator : Between(p)' => p = o
      BY <2>2, OthersKept
    <2>5. \A i \in 1 .. 5 : tableIs'[Tables[i]] = "absent" <=> ~ (i <= g + 1)
      <3>. SUFFICES ASSUME NEW i \in 1 .. 5
                    PROVE  tableIs'[Tables[i]] = "absent" <=> ~ (i <= g + 1)
        OBVIOUS
      <3>1. tableIs[Tables[i]] = "absent" <=> ~ (i <= g)
        BY <1>1, <1>2, <2>2
      <3>. QED
        BY <1>3, <1>4, <3>1
    <2>6. TablesOf(o)'
      BY <1>2, <2>5, TablesByPlace DEF TablesOf
    <2>. QED
      BY <2>3, <2>4, <2>6, TablesBetween
  <1>7. VersionSound'
    <2>. SUFFICES ASSUME blemish' = {}, NEW p \in Operator, Executing(p)' PROVE VersionOf(p)'
      BY VersionOfEach
    <2>1. CASE p = o
      <3>1. ~ (changed'[o] > Len(Tables))
        BY <1>2, TablesByPlace
      <3>. QED
        BY <1>2, <2>1, <3>1 DEF VersionOf
    <2>2. CASE p # o
      <3>1. Executing(p) /\ command[p].cmd = "upgrade"
        BY <1>2, <2>2, OthersKept, Company DEF MigBase
      <3>2. VersionOf(p)
        BY <1>2, <3>1, VersionOfEach DEF MigBase
      <3>. QED
        BY <1>2, <2>2, <3>1, <3>2, OthersKept
    <2>. QED
      BY <2>1, <2>2
  <1>. QED
    BY <1>5, <1>6, <1>7

LEMMA DroppingKept ==
  ASSUME NEW o \in Operator, MigBase, MigTypeOK', Executes(o), Dropping(o)
  PROVE  MadeStays' /\ TablesSound' /\ VersionSound'
  <1>1. PICK g \in 0 .. 4 : Gone(o) = g
    BY DEF Dropping, IsDrop
  <1>2. /\ Gone(o)' = g + 1 /\ version' = version /\ blemish' = blemish
        /\ changed'[o] = changed[o] + 1 /\ changed[o] \in Nat
        /\ command'[o] = command[o] /\ command[o].cmd = "downgrade" /\ saved'[o] = saved[o]
        /\ saved[o][2] = "second" => changed[o] >= 1
        /\ Executing(o) /\ Executing(o)'
        /\ tableIs' = [tableIs EXCEPT ![Tables[g + 1]] = "absent"]
        /\ ~ Kept(Tables[g + 1])
    BY <1>1 DEF Dropping, IsDrop, Downwards, Executes
  <1>3. MigTypeOK /\ (Transactional' <=> Transactional)
    BY DEF MigBase, Executes, Transactional
  <1>4. \A i \in 1 .. 5 :
          tableIs'[Tables[i]] = IF i = g + 1 THEN "absent" ELSE tableIs[Tables[i]]
    <2>1. PICK k \in 1 .. 5 : k = g + 1
      OBVIOUS
    <2>2. MigTypeOK
      BY <1>3
    <2>3. TableBecomes(k, "absent")
      BY <1>2, <2>1 DEF TableBecomes
    <2>4. \A i \in 1 .. 5 :
            tableIs'[Tables[i]] = IF i = k THEN "absent" ELSE tableIs[Tables[i]]
      BY <2>2, <2>3, OneTableChanges
    <2>. QED
      BY <2>1, <2>4
  <1>5. "crossed" \notin blemish => \A p \in Operator : Executing(p)' => p = o
    BY <1>2, OthersKept, Company DEF MigBase
  <1>6. MadeStays'
    BY <1>2, <1>5 DEF MadeStays
  <1>7. TablesSound'
    <2>. SUFFICES ASSUME Transactional' \/ blemish' = {} PROVE TablesSound'
      BY DEF TablesSound
    <2>1. Transactional \/ blemish = {}
      BY <1>2, <1>3
    <2>2. /\ \A p \in Operator : Between(p) => p = o
          /\ \A i \in 1 .. 5 :
               tableIs[Tables[i]] = "absent" <=> (command[o].cmd = "upgrade") # (i <= Gone(o))
      BY <1>2, <2>1, NextAlone
    <2>3. Between(o)'
      BY <1>2, TablesByPlace DEF Between
    <2>4. \A p \in Operator : Between(p)' => p = o
      BY <2>2, OthersKept
    <2>5. \A i \in 1 .. 5 : tableIs'[Tables[i]] = "absent" <=> i <= g + 1
      <3>. SUFFICES ASSUME NEW i \in 1 .. 5
                    PROVE  tableIs'[Tables[i]] = "absent" <=> i <= g + 1
        OBVIOUS
      <3>1. tableIs[Tables[i]] = "absent" <=> i <= g
        BY <1>1, <1>2, <2>2
      <3>. QED
        BY <1>4, <3>1
    <2>6. TablesOf(o)'
      BY <1>2, <2>5, TablesByPlace DEF TablesOf
    <2>. QED
      BY <2>3, <2>4, <2>6, TablesBetween
  <1>8. VersionSound'
    <2>. SUFFICES ASSUME blemish' = {} PROVE VersionOf(o)'
      BY <1>2, <1>5, VersionOfEach
    <2>1. VersionOf(o) /\ blemish = {}
      BY <1>2, VersionOfEach DEF MigBase
    <2>2. /\ \A i \in 1 .. 5 : i > g => tableIs[Tables[i]] = saved[o][1][Tables[i]]
          /\ g \in 3 .. 5 => ~ Transactional /\ saved[o][1]["vduconfigurations"] # "InnoDB"
      BY <1>1, <1>2, <2>1, TablesByPlace DEF VersionOf
    <2>3. \A i \in DOMAIN Tables : i > g + 1 => tableIs'[Tables[i]] = saved'[o][1][Tables[i]]
      BY <1>2, <1>4, <2>2, TablesByPlace
    <2>4. g + 1 \in 3 .. 5 =>
            ~ Transactional' /\ saved'[o][1]["vduconfigurations"] # "InnoDB"
      <3>1. CASE g \in 3 .. 4
        BY <1>2, <1>3, <2>2, <3>1
      <3>2. CASE g = 2
        <4>1. Tables[g + 1] = "servicetemplates" /\ Tables[4] = "vduconfigurations"
          BY <3>2, TablesByPlace
        <4>2. tableIs[Tables[4]] # "absent" /\ tableIs[Tables[4]] = saved[o][1][Tables[4]]
          BY <1>1, <1>2, <2>1, <2>2, <3>2, NextAlone
        <4>3. ~ Transactional /\ tableIs["vduconfigurations"] # "InnoDB"
          BY <1>2, <4>1, <4>2 DEF Kept
        <4>. QED
          BY <1>2, <1>3, <4>1, <4>2, <4>3
      <3>. QED
        BY <3>1, <3>2
    <2>5. changed'[o] # 0 /\ ~ (saved'[o][2] = "second" /\ changed'[o] = 1)
      BY <1>2
    <2>. QED
      BY <1>2, <2>3, <2>4, <2>5 DEF VersionOf
  <1>. QED
    BY <1>6, <1>7, <1>8

LEMMA RecordingKept ==
  ASSUME NEW o \in Operator, MigBase, MigTypeOK', Executes(o), Recording(o)
  PROVE  MadeStays' /\ TablesSound' /\ VersionSound'
  <1>1. /\ tableIs' = tableIs /\ blemish' = blemish /\ command'[o] = command[o]
        /\ saved'[o] = saved[o] /\ changed'[o] = changed[o] + 1 /\ changed[o] \in Nat
        /\ Executing(o) /\ Executing(o)'
    BY DEF Recording, Executes
  <1>2. \/ Gone(o) = 5 /\ Gone(o)' = 6
        \/ Gone(o) = 0 /\ Gone(o)' = 0
        \/ Gone(o) = 6 /\ Gone(o)' = 7
    BY DEF Recording, RecordsFirst, RecordsSecond, GoesBack, RecordsStart
  <1>3. MigTypeOK /\ (Transactional' <=> Transactional)
    BY DEF MigBase, Executes, Transactional
  <1>4. command[o].cmd = "downgrade" /\ "crossed" \notin blemish =>
          \A p \in Operator : Executing(p)' => p = o
    BY <1>1, OthersKept, Company DEF MigBase
  <1>5. \/ command[o].cmd = "upgrade" /\ version' \in {"folsom", "second"}
        \/ command[o].cmd = "downgrade"
    BY DEF Recording, RecordsFirst, RecordsSecond, GoesBack, RecordsStart, IsFirst, IsSecond,
           IsBack, IsStart, Downwards
  <1>6. MadeStays'
    <2>. SUFFICES ASSUME "crossed" \notin blemish', NEW p \in Operator, Executing(p)',
                         command'[p].cmd = "upgrade", NEW i \in 1 .. 5, i <= Gone(p)'
                  PROVE  tableIs'[Tables[i]] # "absent"
      BY TablesByPlace DEF MadeStays
    <2>1. Executing(p) /\ command[p].cmd = "upgrade" /\ i <= Gone(p)
      <3>1. CASE p = o
        BY <1>1, <1>2, <3>1
      <3>2. CASE p # o
        BY <3>2, OthersKept DEF Alone
      <3>. QED
        BY <3>1, <3>2
    <2>. QED
      BY <1>1, <2>1, TablesByPlace DEF MigBase, MadeStays
  <1>7. TablesSound'
    <2>. SUFFICES ASSUME Transactional \/ blemish = {}
                  PROVE  /\ \A p \in Operator : Between(p)' =>
                              /\ TablesOf(p)'
                              /\ \A q \in Operator : Between(q)' => q = p
                         /\ (\A p \in Operator : ~Between(p)') => AsTold(tableIs, version)'
      BY <1>1, <1>3 DEF TablesSound
    <2>1. /\ \A p \in Operator : Between(p) =>
               /\ TablesOf(p)
               /\ \A q \in Operator : Between(q) => q = p
          /\ (\A p \in Operator : ~Between(p)) => AsTold(tableIs, version)
      BY DEF MigBase, TablesSound
    <2>2. ~ Between(o)'
      BY <1>2, TablesByPlace DEF Between
    <2>3. \A p \in Operator : Between(p)' => Between(p) /\ p # o /\ TablesOf(p)'
      BY <1>1, <2>1, <2>2, OthersKept
    <2>4. (\A p \in Operator : ~Between(p)') => AsTold(tableIs, version)'
      <3>1. CASE Gone(o) = 5
        <4>1. TablesOf(o)
          BY <1>1, <2>1, <3>1, TablesByPlace DEF Between
        <4>2. CASE RecordsFirst(o)
          <5>1. command[o].cmd = "upgrade" /\ version' = "folsom"
            BY <4>2 DEF RecordsFirst, IsFirst
          <5>2. \A i \in 1 .. 5 : tableIs[Tables[i]] # "absent"
            BY <3>1, <4>1, <5>1, TablesByPlace DEF TablesOf
          <5>3. WholeIn(tableIs) /\ ~ NoneIn(tableIs)
            BY <5>2, TablesByPlace DEF WholeIn, NoneIn
          <5>. QED
            BY <1>1, <5>1, <5>3 DEF AsTold, WholeIn, NoneIn
        <4>3. CASE RecordsStart(o)
          <5>1. command[o].cmd = "downgrade" /\ version' = "none"
            BY <4>3 DEF RecordsStart, IsStart, Downwards
          <5>2. \A i \in 1 .. 5 : tableIs[Tables[i]] = "absent"
            BY <3>1, <4>1, <5>1, TablesByPlace DEF TablesOf
          <5>3. NoneIn(tableIs)
            BY <5>2, TablesByPlace DEF NoneIn
          <5>. QED
            BY <1>1, <5>1, <5>3 DEF AsTold, WholeIn, NoneIn
        <4>. QED
          BY <3>1, <4>2, <4>3 DEF Recording, RecordsSecond, GoesBack
      <3>2. CASE Gone(o) # 5
        <4>. SUFFICES ASSUME \A p \in Operator : ~Between(p)' PROVE AsTold(tableIs, version)'
          OBVIOUS
        <4>1. ~ Between(o)
          BY <1>2, <3>2, TablesByPlace DEF Between
        <4>2. AsTold(tableIs, version)
          BY <2>1, <4>1, OthersKept
        <4>3. blemish = {} => version # "none" /\ version' # "none"
          <5>. SUFFICES ASSUME blemish = {} PROVE version # "none" /\ version' # "none"
            OBVIOUS
          <5>1. VersionOf(o)
            BY <1>1, VersionOfEach DEF MigBase
          <5>2. RecordsSecond(o) \/ GoesBack(o)
            BY <3>2 DEF Recording, RecordsFirst, RecordsStart
          <5>3. CASE RecordsSecond(o)
            <6>1. /\ command[o].cmd = "upgrade" /\ version' = "second"
                  /\ saved[o][2] = "folsom" \/ changed[o] = 6
              BY <5>3 DEF RecordsSecond, IsSecond
            <6>2. changed[o] = 6 => changed[o] > Len(Tables)
              BY TablesByPlace
            <6>. QED
              BY <5>1, <6>1, <6>2 DEF VersionOf
          <5>4. CASE GoesBack(o)
            BY <5>1, <5>4 DEF GoesBack, IsBack, VersionOf
          <5>. QED
            BY <5>2, <5>3, <5>4
        <4>. QED
          BY <1>1, <4>2, <4>3 DEF AsTold, WholeIn, NoneIn
      <3>. QED
        BY <3>1, <3>2
    <2>. QED
      BY <2>1, <2>3, <2>4
  <1>8. VersionSound'
    <2>. SUFFICES ASSUME blemish' = {}, NEW p \in Operator, Executing(p)' PROVE VersionOf(p)'
      BY VersionOfEach
    <2>1. blemish = {}
      BY <1>1
    <2>2. CASE p # o
      <3>1. Executing(p) /\ command[o].cmd = "upgrade" /\ command[p].cmd = "upgrade"
        BY <1>1, <2>1, <2>2, OthersKept, Company DEF MigBase
      <3>2. VersionOf(p)
        BY <2>1, <3>1, VersionOfEach DEF MigBase
      <3>3. version' # "none"
        BY <1>5, <3>1
      <3>. QED
        BY <2>2, <3>1, <3>2, <3>3, OthersKept
    <2>3. CASE p = o /\ command[o].cmd = "upgrade"
      BY <1>1, <1>5, <2>3 DEF VersionOf
    <2>4. CASE p = o /\ command[o].cmd = "downgrade"
      <3>1. VersionOf(o)
        BY <1>1, <2>1, VersionOfEach DEF MigBase
      <3>2. /\ \A i \in DOMAIN Tables : i > Gone(o) =>
                 tableIs[Tables[i]] = saved[o][1][Tables[i]]
        BY <2>4, <3>1 DEF VersionOf
      <3>3. \A i \in DOMAIN Tables : i > Gone(o)' =>
              tableIs'[Tables[i]] = saved'[o][1][Tables[i]]
        BY <1>1, <1>2, <3>2, TablesByPlace
      <3>4. Gone(o)' \notin 3 .. 5 /\ changed'[o] # 0
        BY <1>1, <1>2
      <3>5. saved'[o][2] = "second" /\ changed'[o] = 1 => version' = "folsom"
        <4>. SUFFICES ASSUME saved[o][2] = "second", changed[o] = 0 PROVE version' = "folsom"
          BY <1>1
        <4>1. GoesBack(o)
          BY <2>4 DEF Recording, RecordsFirst, IsFirst, RecordsSecond, IsSecond, RecordsStart,
                      IsStart, Downwards
        <4>. QED
          BY <4>1 DEF GoesBack
      <3>. QED
        BY <1>1, <2>4, <3>3, <3>4, <3>5 DEF VersionOf
    <2>. QED
      BY <1>5, <2>2, <2>3, <2>4
  <1>. QED
    BY <1>6, <1>7, <1>8

LEMMA ExecuteKept ==
  ASSUME NEW o \in Operator, MigBase, Execute(o)
  PROVE  MigBase'
  <1>1. MigTypeOK /\ RunSound(o)
    BY DEF MigBase
  <1>2. Executes(o) /\ RunSound(o)' /\ MigTypeOK'
    BY <1>1, ExecutesAs, ExecutesTyped
  <1>3. RunsApart' /\ (\A p \in Operator : RunSound(p)') /\ SavedSound'
    BY <1>2, ExecutesCommon
  <1>4. MadeStays' /\ TablesSound' /\ VersionSound'
    BY <1>1, <1>2, ExecutesKinds, CreatingKept, DroppingKept, RecordingKept
  <1>. QED
    BY <1>2, <1>3, <1>4 DEF MigBase

(* Every step of an operator keeps what is said of the runs.               *)
LEMMA CommandKept ==
  ASSUME NEW o \in Operator, MigBase, CommandStep(o)
  PROVE  MigBase'
  <1>1. MigTypeOK /\ RunSound(o)
    BY DEF MigBase
  <1>2. CASE \E c \in AlembicCommands : Launch(o, c)
    BY <1>2, LaunchKept
  <1>3. CASE RunOnline(o)
    BY <1>3, BeginsAs, BeginsKept
  <1>4. CASE RunOffline(o) \/ RefusedOffline(o) \/ StampFails(o) \/ Check(o) \/ Revision(o)
    <2>1. ~ Executing(o)
      BY <1>1, <1>4 DEF RunOffline, RefusedOffline, StampFails, Check, Revision, RunSound, Executing
    <2>2. todo[o] = << >>
      BY <1>1, <2>1 DEF RunSound
    <2>3. PICK how \in {"well", "failed"} : CommandEnds(o, how)
      BY <1>4 DEF RunOffline, RefusedOffline, StampFails, Check, Revision
    <2>. QED
      BY <2>2, <2>3, EndsKept
  <1>5. CASE Breaks(o) \/ Dies(o)
    <2>1. CommandEnds(o, "failed") \/ CommandEnds(o, "died")
      BY <1>5 DEF Breaks, Dies
    <2>. QED
      BY <2>1, EndsKept
  <1>6. CASE CommandDone(o)
    BY <1>6, EndsKept DEF CommandDone
  <1>7. CASE Execute(o)
    BY <1>7, ExecuteKept
  <1>8. CASE Stamp(o)
    BY <1>8, StampKept
  <1>. QED
    BY <1>2, <1>3, <1>4, <1>5, <1>6, <1>7, <1>8 DEF CommandStep

LEMMA MigrationKept ==
  MigrationInv /\ [MigrationNext]_migrationVars => MigrationInv'
  <1>. SUFFICES ASSUME MigBase, [MigrationNext]_migrationVars PROVE MigBase'
    <2>1. MigBase' => (TablesAsVersion /\ AllOrNoTable)'
      BY MigrationPromises, PTL
    <2>. QED
      BY <2>1 DEF MigrationInv, MigBase
  <1>1. CASE Checkout
    BY <1>1, CheckoutKept
  <1>2. CASE \E o \in Operator : CommandStep(o)
    BY <1>2, CommandKept
  <1>3. CASE UNCHANGED migrationVars
    <2>1. MigTypeOK'
      BY <1>3 DEF MigBase, MigTypeOK, migrationVars
    <2>2. RunsApart'
      BY <1>3 DEF MigBase, RunsApart, Executing, Transactional, migrationVars
    <2>3. \A p \in Operator : Alone(p)
      BY <1>3 DEF Alone, migrationVars
    <2>4. \A p \in Operator : RunSound(p)' /\ (Executing(p)' <=> Executing(p))
            /\ (Between(p)' <=> Between(p)) /\ Gone(p)' = Gone(p)
            /\ (TablesOf(p)' <=> TablesOf(p))
      BY <1>3, <2>3, AloneKept DEF MigBase, migrationVars
    <2>5. MadeStays'
      BY <1>3, <2>4 DEF MigBase, MadeStays, migrationVars
    <2>6. \A tables, told : AsTold(tables, told)' <=> AsTold(tables, told)
      BY <1>3 DEF AsTold, WholeIn, NoneIn, migrationVars
    <2>7. AsTold(tableIs, version)' <=> AsTold(tableIs, version)
      BY <1>3 DEF AsTold, WholeIn, NoneIn, migrationVars
    <2>8. TablesSound'
      BY <1>3, <2>4, <2>7 DEF MigBase, TablesSound, Transactional, migrationVars
    <2>9. SavedSound'
      BY <1>3, <2>4 DEF MigBase, SavedSound, AsTold, WholeIn, NoneIn, Transactional, migrationVars
    <2>10. VersionSound'
      BY <1>3, <2>4 DEF MigBase, VersionSound, Transactional, migrationVars
    <2>. QED
      BY <2>1, <2>2, <2>4, <2>5, <2>8, <2>9, <2>10 DEF MigBase
  <1>. QED
    BY <1>1, <1>2, <1>3 DEF MigrationNext

(* Only a statement that is executed moves a run on.                       *)
LEMMA MovesOn ==
  ASSUME MigBase, [MigrationNext]_migrationVars, NEW o \in Operator, changed'[o] = changed[o] + 1
  PROVE  Execute(o)
  <1>1. MigTypeOK
    BY DEF MigBase
  <1>2. changed[o] \in Nat
    BY <1>1 DEF MigTypeOK
  <1>3. changed'[o] # changed[o] /\ changed'[o] # 0
    BY <1>2
  <1>4. PICK p \in Operator : CommandStep(p)
    BY <1>3 DEF MigrationNext, Checkout, migrationVars
  <1>5. \A how : ~ CommandEnds(p, how)
    <2>. SUFFICES ASSUME NEW how, CommandEnds(p, how) PROVE FALSE
      OBVIOUS
    <2>1. changed' = [changed EXCEPT ![p] = 0]
      BY DEF CommandEnds
    <2>2. changed'[o] \in {0, changed[o]}
      BY <1>1, <2>1 DEF MigTypeOK
    <2>. QED
      BY <1>3, <2>2
  <1>6. Execute(p)
    BY <1>3, <1>4, <1>5 DEF CommandStep, Launch, RunOnline, RunOffline, RefusedOffline, Breaks,
                            CommandDone, Dies, Stamp, StampFails, Check, Revision
  <1>7. p = o
    BY <1>1, <1>3, <1>6 DEF Execute, MigTypeOK
  <1>. QED
    BY <1>6, <1>7

LEMMA UpgradedStep ==
  ASSUME MigBase, [MigrationNext]_migrationVars, NEW o \in Operator,
         command[o].cmd = "upgrade", RecordedHere(o, "folsom")
  PROVE  Whole \/ "crossed" \in blemish
  <1>1. MigTypeOK /\ RunSound(o) /\ Execute(o)
    BY MovesOn DEF MigBase, RecordedHere
  <1>2. todo[o] # << >> /\ Head(todo[o]) = RecordOf("folsom")
    BY <1>1 DEF Execute, RecordedHere, RecordOf
  <1>3. /\ Executing(o) /\ changed[o] \in Nat
        /\ \/ IsCreate(o) /\ Head(todo[o]) = TableStatement("create", changed[o] + 1)
           \/ IsFirst(o) /\ Head(todo[o]) = RecordOf("folsom")
           \/ IsSecond(o) /\ Head(todo[o]) = RecordOf("second")
           \/ IsBack(o) /\ Head(todo[o]) = RecordOf("folsom")
           \/ IsDrop(o) /\ Head(todo[o]) = TableStatement("drop", Gone(o) + 1)
           \/ IsStart(o) /\ Head(todo[o]) = RecordOf("none")
    BY <1>1, <1>2, NextIs
  <1>4. IsFirst(o)
    BY <1>2, <1>3 DEF TableStatement, RecordOf, IsBack
  <1>5. Gone(o) = 5
    BY <1>4 DEF IsFirst, Gone
  <1>6. "crossed" \notin blemish => \A i \in 1 .. 5 : tableIs[Tables[i]] # "absent"
    BY <1>3, <1>5, TablesByPlace DEF MigBase, MadeStays
  <1>. QED
    BY <1>6, TablesByPlace DEF Whole

LEMMA DowngradedStep ==
  ASSUME MigBase, [MigrationNext]_migrationVars, NEW o \in Operator,
         command[o].cmd = "downgrade", RecordedHere(o, "none"), blemish = {}
  PROVE  /\ \A t \in AllTables : tableIs[t] = "absent"
         /\ ~ Transactional /\ saved[o][1]["vduconfigurations"] # "InnoDB"
  <1>1. MigTypeOK /\ RunSound(o) /\ Execute(o)
    BY MovesOn DEF MigBase, RecordedHere
  <1>2. todo[o] # << >> /\ Head(todo[o]) = RecordOf("none")
    BY <1>1 DEF Execute, RecordedHere, RecordOf
  <1>3. /\ Executing(o) /\ changed[o] \in Nat
        /\ \/ IsCreate(o) /\ Head(todo[o]) = TableStatement("create", changed[o] + 1)
           \/ IsFirst(o) /\ Head(todo[o]) = RecordOf("folsom")
           \/ IsSecond(o) /\ Head(todo[o]) = RecordOf("second")
           \/ IsBack(o) /\ Head(todo[o]) = RecordOf("folsom")
           \/ IsDrop(o) /\ Head(todo[o]) = TableStatement("drop", Gone(o) + 1)
           \/ IsStart(o) /\ Head(todo[o]) = RecordOf("none")
    BY <1>1, <1>2, NextIs
  <1>4. Gone(o) = 5
    BY <1>2, <1>3 DEF TableStatement, RecordOf, IsStart
  <1>5. TablesOf(o) /\ VersionOf(o)
    BY <1>3, <1>4, TablesByPlace, VersionOfEach DEF MigBase, TablesSound, Between
  <1>6. \A i \in 1 .. 5 : tableIs[Tables[i]] = "absent"
    BY <1>4, <1>5, TablesByPlace DEF TablesOf
  <1>7. ~ Transactional /\ saved[o][1]["vduconfigurations"] # "InnoDB"
    BY <1>4, <1>5 DEF VersionOf
  <1>. QED
    BY <1>6, <1>7, TablesByPlace

LEMMA WritingStep ==
  ASSUME MigBase, [MigrationNext]_migrationVars, <<tableIs, version>>' # <<tableIs, version>>
  PROVE  \E o \in Operator : todo[o] # << >> \/ changed[o] > 0 \/ command[o].cmd = "stamp"
  <1>1. PICK o \in Operator : CommandStep(o)
    BY DEF MigrationNext, Checkout, migrationVars
  <1>2. \A how : CommandEnds(o, how) => changed[o] > 0
    BY DEF CommandEnds
  <1>3. Execute(o) \/ Stamp(o) \/ \E how : CommandEnds(o, how)
    BY <1>1 DEF CommandStep, Launch, RunOnline, RunOffline, RefusedOffline, Breaks,
                CommandDone, Dies, StampFails, Check, Revision
  <1>. QED
    BY <1>2, <1>3 DEF Execute, Stamp

LEMMA EngineStep ==
  ASSUME MigBase, [MigrationNext]_migrationVars, NEW o \in Operator, NEW t \in AllTables,
         changed'[o] = changed[o] + 1, tableIs[t] = "absent", tableIs'[t] # "absent"
  PROVE  tableIs'[t] = IF command[o].engine = "" THEN "InnoDB" ELSE command[o].engine
  <1>1. MigTypeOK /\ RunSound(o) /\ Execute(o)
    BY MovesOn DEF MigBase
  <1>2. Executes(o) /\ (MakingTables(o) \/ Dropping(o) \/ Recording(o))
    BY <1>1, ExecutesAs, ExecutesKinds
  <1>3. engineOf[o] = EngineAsked(command[o])
    BY <1>1, <1>2 DEF RunSound, Executes
  <1>4. MakingTables(o)
    BY <1>1, <1>2 DEF Dropping, Recording, MigTypeOK
  <1>5. tableIs'[t] = engineOf[o]
    BY <1>1, <1>4 DEF MakingTables, MigTypeOK
  <1>. QED
    BY <1>3, <1>5 DEF EngineAsked

LEMMA StepScripts ==
  /\ \A from \in 1 .. 3 : from + 1 \in 1 .. 3 =>
       \A i \in DOMAIN UpScript(from, from + 1) :
         UpScript(from, from + 1)[i].does = "record"
           => PlaceOf(UpScript(from, from + 1)[i].what) = from + 1
  /\ \A from \in 1 .. 3 : from - 1 \in 1 .. 3 =>
       \A i \in DOMAIN Down(from, from - 1) :
         Down(from, from - 1)[i].does = "record"
           => PlaceOf(Down(from, from - 1)[i].what) = from - 1
  <1>1. \A i \in 1 .. 1 : i = 1
    OBVIOUS
  <1>2. \A i \in 1 .. 6 : i \in 1 .. 5 \/ i = 6
    OBVIOUS
  <1>3. \A i \in DOMAIN UpScript(1, 2) :
          UpScript(1, 2)[i].does = "record" => PlaceOf(UpScript(1, 2)[i].what) = 2
    <2>. DEFINE S == UpScript(1, 2)
    <2>1. S \in Seq(Statements) /\ Len(S) = 6 /\ AllTablesBut(S, "create", 0)
          /\ S[6] = RecordOf("folsom")
      BY UpScriptIs
    <2>. HIDE DEF S
    <2>2. \A i \in 1 .. 5 : S[i] = [does |-> "create", what |-> Tables[i]]
      BY <2>1 DEF AllTablesBut
    <2>3. \A i \in DOMAIN S : S[i].does = "record" => PlaceOf(S[i].what) = 2
      <3>1. DOMAIN S = 1 .. 6
        BY <2>1
      <3>2. PlaceOf(S[6].what) = 2
        BY <2>1, PlacesOfRevisions DEF RecordOf
      <3>. QED
        BY <1>2, <2>2, <3>1, <3>2
    <2>. QED
      BY <2>3 DEF S
  <1>4. \A i \in DOMAIN Down(2, 1) :
          Down(2, 1)[i].does = "record" => PlaceOf(Down(2, 1)[i].what) = 1
    <2>. DEFINE S == Down(2, 1)
    <2>1. S \in Seq(Statements) /\ Len(S) = 6 /\ AllTablesBut(S, "drop", 0)
          /\ S[6] = RecordOf("none")
      BY DownIs
    <2>. HIDE DEF S
    <2>2. \A i \in 1 .. 5 : S[i] = [does |-> "drop", what |-> Tables[i]]
      BY <2>1 DEF AllTablesBut
    <2>3. \A i \in DOMAIN S : S[i].does = "record" => PlaceOf(S[i].what) = 1
      <3>1. DOMAIN S = 1 .. 6
        BY <2>1
      <3>2. PlaceOf(S[6].what) = 1
        BY <2>1, PlacesOfRevisions DEF RecordOf
      <3>. QED
        BY <1>2, <2>2, <3>1, <3>2
    <2>. QED
      BY <2>3 DEF S
  <1>5. \A i \in DOMAIN UpScript(2, 3) : PlaceOf(UpScript(2, 3)[i].what) = 3
    <2>. DEFINE S == Record(3)
    <2>1. S \in Seq(Statements) /\ Len(S) = 1 /\ S[1] = RecordOf("second")
      BY RecordsAre
    <2>. HIDE DEF S
    <2>2. \A i \in DOMAIN S : PlaceOf(S[i].what) = 3
      <3>1. DOMAIN S = 1 .. 1
        BY <2>1
      <3>2. PlaceOf(S[1].what) = 3
        BY <2>1, PlacesOfRevisions DEF RecordOf
      <3>. QED
        BY <1>1, <3>1, <3>2
    <2>. QED
      BY <2>2, UpScriptIs DEF S
  <1>6. \A i \in DOMAIN Down(3, 2) : PlaceOf(Down(3, 2)[i].what) = 2
    <2>. DEFINE S == Record(2)
    <2>1. S \in Seq(Statements) /\ Len(S) = 1 /\ S[1] = RecordOf("folsom")
      BY RecordsAre
    <2>. HIDE DEF S
    <2>2. \A i \in DOMAIN S : PlaceOf(S[i].what) = 2
      <3>1. DOMAIN S = 1 .. 1
        BY <2>1
      <3>2. PlaceOf(S[1].what) = 2
        BY <2>1, PlacesOfRevisions DEF RecordOf
      <3>. QED
        BY <1>1, <3>1, <3>2
    <2>. QED
      BY <2>2, DownIs DEF S
  <1>7. \A from \in 1 .. 3 : from + 1 \in 1 .. 3 =>
          \/ from = 1 /\ from + 1 = 2
          \/ from = 2 /\ from + 1 = 3
    OBVIOUS
  <1>8. \A from \in 1 .. 3 : from - 1 \in 1 .. 3 =>
          \/ from = 2 /\ from - 1 = 1
          \/ from = 3 /\ from - 1 = 2
    OBVIOUS
  <1>. QED
    BY <1>3, <1>4, <1>5, <1>6, <1>7, <1>8

LEMMA PlacesOfVersions ==
  ASSUME NEW v \in {"none", "folsom", "second"}
  PROVE  PlaceOf(v) \in 1 .. 3
  BY PlacesOfRevisions

LEMMA TargetOfStep ==
  ASSUME NEW c, NEW from, c.delta = 1
  PROVE  Target(c, from) = IF c.cmd = "upgrade" THEN from + 1 ELSE from - 1
  BY DEF Target

LEMMA NeighbourStep ==
  ASSUME MigBase, [MigrationNext]_migrationVars, NEW o \in Operator,
         engineOf[o] = "", engineOf'[o] # "", command[o].delta = 1,
         NEW i \in DOMAIN todo'[o], todo'[o][i].does = "record"
  PROVE  PlaceOf(todo'[o][i].what) \in {PlaceOf(version) + 1, PlaceOf(version) - 1}
  <1>1. MigTypeOK
    BY DEF MigBase
  <1>2. PICK p \in Operator : CommandStep(p)
    BY DEF MigrationNext, Checkout, migrationVars
  <1>3. \A how : ~ CommandEnds(p, how)
    <2>. SUFFICES ASSUME NEW how, CommandEnds(p, how) PROVE FALSE
      OBVIOUS
    <2>1. engineOf' = [engineOf EXCEPT ![p] = ""]
      BY DEF CommandEnds
    <2>. QED
      BY <1>1, <2>1 DEF MigTypeOK
  <1>4. RunOnline(p)
    BY <1>2, <1>3 DEF CommandStep, Launch, RunOffline, RefusedOffline, Breaks, Execute,
                      CommandDone, Dies, Stamp, StampFails, Check, Revision
  <1>5. p = o
    BY <1>1, <1>4 DEF RunOnline, MigTypeOK
  <1>. DEFINE c == command[o]
              from == PlaceOf(version)
  <1>6. from \in 1 .. 3
    <2>1. version \in {"none", "folsom", "second"}
      BY <1>1, PlacesOfRevisions DEF MigTypeOK
    <2>. QED
      BY <2>1, PlacesOfVersions
  <1>7. Target(c, from) \in 1 .. 3
    BY <1>4, <1>5, PlacesOfRevisions DEF RunOnline, Reachable
  <1>8. todo'[o] = IF c.cmd = "upgrade" THEN UpScript(from, Target(c, from))
                                         ELSE Down(from, Target(c, from))
    BY <1>1, <1>4, <1>5 DEF RunOnline, MigTypeOK
  <1>9. Target(c, from) = IF c.cmd = "upgrade" THEN from + 1 ELSE from - 1
    BY TargetOfStep
  <1>. HIDE DEF from
  <1>10. CASE c.cmd = "upgrade"
    <2>1. todo'[o] = UpScript(from, from + 1) /\ from + 1 \in 1 .. 3
      BY <1>7, <1>8, <1>9, <1>10
    <2>2. PlaceOf(todo'[o][i].what) = from + 1
      BY <1>6, <2>1, StepScripts
    <2>. QED
      BY <2>2 DEF from
  <1>11. CASE c.cmd # "upgrade"
    <2>1. todo'[o] = Down(from, from - 1) /\ from - 1 \in 1 .. 3
      BY <1>7, <1>8, <1>9, <1>11
    <2>2. PlaceOf(todo'[o][i].what) = from - 1
      BY <1>6, <2>1, StepScripts
    <2>. QED
      BY <2>2 DEF from
  <1>. QED
    BY <1>10, <1>11

(* The steps of the migrations are what is meant of them.                  *)
MigrationSteps ==
  /\ (\E o \in Operator : command[o].cmd = "upgrade" /\ RecordedHere(o, "folsom"))
       => Whole \/ "crossed" \in blemish
  /\ \A o \in Operator :
       (command[o].cmd = "downgrade" /\ RecordedHere(o, "none"))
         => \/ blemish # {}
            \/ /\ \A t \in AllTables : tableIs[t] = "absent"
               /\ ~Transactional /\ saved[o][1]["vduconfigurations"] # "InnoDB"
  /\ <<tableIs, version>>' # <<tableIs, version>>
       => \E o \in Operator : todo[o] # <<>> \/ changed[o] > 0 \/ command[o].cmd = "stamp"
  /\ \A o \in Operator, t \in AllTables :
       (changed'[o] = changed[o] + 1 /\ tableIs[t] = "absent" /\ tableIs'[t] # "absent")
         => tableIs'[t] = IF command[o].engine = "" THEN "InnoDB" ELSE command[o].engine
  /\ \A o \in Operator :
       (engineOf[o] = "" /\ engineOf'[o] # "" /\ command[o].delta = 1)
         => \A i \in DOMAIN todo'[o] :
              todo'[o][i].does = "record"
                => PlaceOf(todo'[o][i].what) \in {PlaceOf(version) + 1, PlaceOf(version) - 1}

LEMMA MigrationStepsMeant ==
  ASSUME MigrationInv, [MigrationNext]_migrationVars
  PROVE  MigrationSteps
  <1>1. MigBase
    BY DEF MigrationInv, MigBase
  <1>. QED
    BY <1>1, UpgradedStep, DowngradedStep, WritingStep, EngineStep, NeighbourStep
       DEF MigrationSteps

(***************************************************************************)
(* RpcMessages                                                             *)
(***************************************************************************)

Hop == Consumer \cup {Copied}

(* A consumer is of a program, and no copy; a plugin has one.              *)
LEMMA ConsumerFacts ==
  ASSUME NEW c \in Consumer
  PROVE  /\ c.program \in Program /\ c.k \in Listens(c.program) /\ c # Copied
         /\ c = [program |-> c.program, start |-> c.start, k |-> c.k, topic |-> c.topic]
         /\ c.topic = Topics(c.program, c.k)
         /\ c.program \in PluginOf => c.start = 1
  <1>1. c.program \in Program /\ c.k \in Listens(c.program) /\ c.k \in 1 .. 3
    BY DEF Consumer
  <1>2. c = [program |-> c.program, start |-> c.start, k |-> c.k, topic |-> c.topic]
    BY DEF Consumer
  <1>3. c # Copied
    BY <1>1 DEF Copied
  <1>. QED
    BY <1>1, <1>2, <1>3 DEF Consumer

LEMMA OneOfPlugin ==
  ASSUME NEW c \in Consumer, NEW d \in Consumer, c.program = d.program,
         c.program \in PluginOf
  PROVE  c = d
  <1>1. c.k = 1 /\ d.k = 1 /\ c.start = 1 /\ d.start = 1
    BY ConsumerFacts DEF Listens
  <1>2. c.topic = d.topic
    BY <1>1, ConsumerFacts
  <1>. QED
    BY <1>1, <1>2, ConsumerFacts

(* What leads over a way and one hop more, and over what a way with one hop*)
(* more does.                                                              *)
LEMMA FollowsAppend ==
  ASSUME NEW w \in Seq(Hop), NEW x \in Seq(Hop), NEW c \in Hop
  PROVE  Follows(x, Append(w, c)) <=> Follows(x, w) /\ Len(w) < Len(x) /\ x[Len(w) + 1] = c
  <1>1. /\ Len(Append(w, c)) = Len(w) + 1 /\ Append(w, c)[Len(w) + 1] = c
        /\ \A j \in 1 .. Len(w) : Append(w, c)[j] = w[j]
    OBVIOUS
  <1>2. Len(w) \in Nat /\ Len(x) \in Nat
    OBVIOUS
  <1>. QED
    BY <1>1, <1>2 DEF Follows

LEMMA AppendFollows ==
  ASSUME NEW S, NEW v \in Seq(S), NEW w \in Seq(S), NEW d \in S
  PROVE  /\ Follows(Append(v, d), w) => Follows(v, w) \/ Append(v, d) = w
         /\ Beyond(Append(v, d), w) => Beyond(v, w) \/ v = w
         /\ Follows(v, v) /\ ~ Beyond(v, v)
  <1>. DEFINE x == Append(v, d)
  <1>1. /\ x \in Seq(S) /\ Len(x) = Len(v) + 1 /\ x[Len(v) + 1] = d
        /\ \A j \in 1 .. Len(v) : x[j] = v[j]
    OBVIOUS
  <1>2. Len(w) \in Nat /\ Len(v) \in Nat
    OBVIOUS
  <1>. HIDE DEF x
  <1>3. Follows(x, w) /\ Len(w) <= Len(v) => Follows(v, w)
    BY <1>1, <1>2 DEF Follows
  <1>4. Follows(x, w) /\ Len(w) = Len(v) + 1 => x = w
    <2>. SUFFICES ASSUME Follows(x, w), Len(w) = Len(v) + 1 PROVE x = w
      OBVIOUS
    <2>1. \A j \in 1 .. Len(w) : x[j] = w[j]
      BY DEF Follows
    <2>. QED
      BY <1>1, <2>1, SeqEqual
  <1>5. Follows(x, w) => Follows(v, w) \/ x = w
    BY <1>1, <1>2, <1>3, <1>4 DEF Follows
  <1>6. Beyond(x, w) => Beyond(v, w) \/ v = w
    <2>. SUFFICES ASSUME Beyond(x, w) PROVE Beyond(v, w) \/ v = w
      OBVIOUS
    <2>1. Follows(x, w) /\ Len(w) <= Len(v) /\ x[Len(w) + 1] # Copied
      BY <1>1, <1>2 DEF Beyond
    <2>2. Follows(v, w)
      BY <2>1, <1>3
    <2>3. CASE Len(w) < Len(v)
      <3>1. x[Len(w) + 1] = v[Len(w) + 1]
        BY <1>1, <1>2, <2>3
      <3>. QED
        BY <2>1, <2>2, <2>3, <3>1 DEF Beyond
    <2>4. CASE Len(w) = Len(v)
      <3>1. \A j \in 1 .. Len(w) : v[j] = w[j]
        BY <2>2 DEF Follows
      <3>. QED
        BY <2>4, <3>1, SeqEqual
    <2>. QED
      BY <2>1, <2>3, <2>4, <1>2
  <1>7. Follows(v, v) /\ ~ Beyond(v, v)
    BY <1>2 DEF Follows, Beyond
  <1>. QED
    BY <1>5, <1>6, <1>7 DEF x

LEMMA AppendLast ==
  ASSUME NEW S, NEW w \in Seq(S), NEW c \in S
  PROVE  /\ Append(w, c) \in Seq(S) /\ Append(w, c) # << >> /\ Last(Append(w, c)) = c
         /\ Front(Append(w, c)) = w /\ Range(w) \subseteq Range(Append(w, c))
  <1>1. /\ Append(w, c) \in Seq(S) /\ Append(w, c) # << >> /\ Len(Append(w, c)) = Len(w) + 1
        /\ Append(w, c)[Len(w) + 1] = c
        /\ \A j \in 1 .. Len(w) : Append(w, c)[j] = w[j]
    OBVIOUS
  <1>2. Last(Append(w, c)) = c
    BY <1>1 DEF Last
  <1>3. Front(Append(w, c)) = w
    <2>1. /\ Front(Append(w, c)) \in Seq(S) /\ Len(Front(Append(w, c))) = Len(w)
          /\ \A j \in 1 .. Len(w) : Front(Append(w, c))[j] = Append(w, c)[j]
      BY <1>1 DEF Front
    <2>. QED
      BY <1>1, <2>1, SeqEqual
  <1>4. Range(w) \subseteq Range(Append(w, c))
    BY <1>1 DEF Range
  <1>. QED
    BY <1>1, <1>2, <1>3, <1>4

(* A way that is not empty is a way and its last hop.                      *)
LEMMA FrontLast ==
  ASSUME NEW S, NEW w \in Seq(S), w # << >>
  PROVE  Front(w) \in Seq(S) /\ Last(w) \in S /\ w = Append(Front(w), Last(w))
  <1>1. Len(w) \in Nat \ {0} /\ Last(w) = w[Len(w)] /\ Last(w) \in S
    <2>1. Len(w) \in Nat /\ Len(w) # 0
      BY EmptySeq
    <2>. QED
      BY <2>1 DEF Last
  <1>2. /\ Front(w) \in Seq(S) /\ Len(Front(w)) = Len(w) - 1
        /\ \A j \in 1 .. Len(w) - 1 : Front(w)[j] = w[j]
    <2>1. \A j \in 1 .. Len(w) - 1 : w[j] \in S
      BY <1>1
    <2>. DEFINE n == Len(w) - 1
                u == SubSeq(w, 1, n)
    <2>2. 1 \in Int /\ n \in Nat /\ n \in Int
      BY <1>1
    <2>. HIDE DEF n
    <2>3. \A j \in 1 .. n : w[j] \in S
      BY <2>1 DEF n
    <2>4. /\ u \in Seq(S) /\ Len(u) = IF 1 <= n THEN n - 1 + 1 ELSE 0
          /\ \A j \in 1 .. n - 1 + 1 : u[j] = w[1 + j - 1]
      BY <2>2, <2>3, SubSeqProperties
    <2>. HIDE DEF u
    <2>5. Len(u) = n
      BY <2>2, <2>4
    <2>6. \A j \in 1 .. n : u[j] = w[j]
      BY <2>2, <2>4
    <2>. QED
      BY <2>4, <2>5, <2>6 DEF Front, u, n
  <1>3. /\ Append(Front(w), Last(w)) \in Seq(S) /\ Len(Append(Front(w), Last(w))) = Len(w)
        /\ \A j \in 1 .. Len(w) : Append(Front(w), Last(w))[j] = w[j]
    BY <1>1, <1>2
  <1>. QED
    BY <1>1, <1>2, <1>3, SeqEqual

LEMMA CopiedWay ==
  /\ <<Copied>> \in Seq(Hop) /\ Append(<< >>, Copied) = <<Copied>> /\ <<Copied>> # << >>
  /\ Last(<<Copied>>) = Copied /\ Received(<<Copied>>) = << >> /\ Received(<< >>) = << >>
  /\ Copied \in Range(<<Copied>>) /\ Range(<< >>) = {}
  <1>1. <<Copied>> \in Seq(Hop) /\ Append(<< >>, Copied) = <<Copied>> /\ <<Copied>> # << >>
    BY DEF Hop
  <1>2. Last(<<Copied>>) = Copied /\ Copied \in Range(<<Copied>>) /\ Range(<< >>) = {}
    BY DEF Last, Range
  <1>3. Received(<<Copied>>) = << >> /\ Received(<< >>) = << >>
    <2>1. Tail(<<Copied>>) = << >>
      OBVIOUS
    <2>. QED
      BY <1>1, <2>1 DEF Received
  <1>. QED
    BY <1>1, <1>2, <1>3

(* A context that is sent arrives as what it was.                          *)
LEMMA Passed ==
  ASSUME NEW c, NEW o, NEW w, IdentityOf(c, o), AdminOf(c, o, w)
  PROVE  LET d == Deserialize(ToDict(c), o) IN
         /\ DOMAIN d = ContextFields /\ d.session = 0
         /\ IdentityOf(d, o) /\ AdminOf(d, o, w)
  <1>. DEFINE t == ToDict(c)
              d == Deserialize(t, o)
  <1>1. /\ Get(t, "user_id") = c.user /\ Get(t, "user") = c.user
        /\ Get(t, "tenant_id") = c.tenant /\ Get(t, "project_id") = c.tenant
        /\ Get(t, "is_admin") = c.admin /\ Get(t, "auth_token") = c.token
        /\ Get(t, "user_name") = c.userName /\ Get(t, "tenant_name") = c.tenantName
        /\ Get(t, "request_id") = c.request
    BY DEF ToDict, Get
  <1>. HIDE DEF t
  <1>2. /\ d.user = c.user /\ d.tenant = c.tenant /\ d.admin = c.admin /\ d.token = c.token
        /\ d.userName = c.userName /\ d.tenantName = c.tenantName
        /\ d.request = Or(c.request, o) /\ d.session = 0 /\ DOMAIN d = ContextFields
    BY <1>1 DEF Deserialize, NewContext, Or, ContextFields
  <1>. HIDE DEF d
  <1>3. IdentityOf(d, o)
    <2>1. CASE o \notin DOMAIN Outdated
      <3>1. Identity(c) = Identity(Original(o))
        BY <2>1 DEF IdentityOf
      <3>2. c.request = Original(o).request
        BY <3>1 DEF Identity
      <3>3. c.request = NoValue => o = NoValue
        BY <3>2 DEF Original, NewContext, Or
      <3>4. Or(c.request, o) = c.request
        BY <3>3 DEF Or
      <3>5. Identity(d) = Identity(c)
        BY <1>2, <3>4 DEF Identity
      <3>. QED
        BY <2>1, <3>1, <3>5 DEF IdentityOf
    <2>2. CASE o \in DOMAIN Outdated
      BY <2>2, <1>2 DEF IdentityOf
    <2>. QED
      BY <2>1, <2>2
  <1>4. AdminOf(d, o, w)
    BY <1>2 DEF AdminOf
  <1>. QED
    BY <1>2, <1>3, <1>4 DEF d, t

(* What a context is that a request begins with, and what becomes of an    *)
(* outdated one.                                                           *)
LEMMA Begins ==
  ASSUME NEW r \in DOMAIN Asking \cup Program, r \in Program => r \notin PluginOf
  PROVE  /\ DOMAIN Original(r) = ContextFields /\ Original(r).session = 0
         /\ IdentityOf(Original(r), r) /\ AdminOf(Original(r), r, << >>)
  <1>1. DOMAIN Original(r) = ContextFields /\ Original(r).session = 0
    BY DEF Original, NewContext, ContextFields
  <1>2. IdentityOf(Original(r), r)
    BY RpcAssumption DEF IdentityOf
  <1>3. r \notin Program => Original(r).admin # "True"
    BY RpcAssumption DEF Original, NewContext, Get, NoValue
  <1>. QED
    BY <1>1, <1>2, <1>3 DEF AdminOf

LEMMA OutdatedRead ==
  ASSUME NEW o \in DOMAIN Outdated
  PROVE  /\ IdentityOf(Deserialize(Outdated[o], o), o)
         /\ AdminOf(Deserialize(Outdated[o], o), o, << >>)
  <1>. DEFINE d == Outdated[o]
              c == Deserialize(d, o)
  <1>1. /\ "is_admin" \notin DOMAIN d /\ Has(d, {"user_id", "user"})
        /\ Has(d, {"tenant_id", "project_id"})
    BY RpcAssumption
  <1>2. /\ c.user = Or(Get(d, "user_id"), Get(d, "user"))
        /\ c.tenant = Or(Get(d, "tenant_id"), Get(d, "project_id"))
        /\ c.admin = Get(d, "is_admin")
    BY DEF Deserialize, NewContext
  <1>. HIDE DEF c, d
  <1>3. c.user \in {d[k] : k \in DOMAIN d \cap {"user", "user_id"}}
    BY <1>1, <1>2 DEF Has, Or, Get, NoValue
  <1>4. c.tenant \in {d[k] : k \in DOMAIN d \cap {"project_id", "tenant_id"}}
    BY <1>1, <1>2 DEF Has, Or, Get, NoValue
  <1>5. c.admin # "True"
    BY <1>1, <1>2 DEF Get, NoValue
  <1>. QED
    BY <1>3, <1>4, <1>5 DEF c, d, IdentityOf, AdminOf

(* What the invariant says of ways, in one place.                          *)
LEMMA WayFacts ==
  ASSUME RpcTypeOK
  PROVE  /\ \A x \in Everything : x.way \in Seq(Hop) /\ x.origin \in Origins
         /\ \A m \in casts : \A c \in m.to : c \in Consumer /\ c.program \notin ended
         /\ \A m \in casts : m.to # {}
  <1>1. /\ \A h \in holding : HoldingTypeOK(h)
        /\ \A m \in casts : CastTypeOK(m)
        /\ \A c \in listening : Started(c) /\ c.program \notin ended
    BY DEF RpcTypeOK
  <1>2. \A h \in holding : h.way \in Seq(Hop) /\ h.origin \in Origins
    BY <1>1 DEF HoldingTypeOK, Hop
  <1>3. \A m \in casts : m.way \in Seq(Hop) /\ m.origin \in Origins
    BY <1>1 DEF CastTypeOK, Hop
  <1>4. \A m \in casts : m.to # {} /\ m.to \subseteq listening
    BY <1>1 DEF CastTypeOK
  <1>. QED
    BY <1>1, <1>2, <1>3, <1>4 DEF Everything, Started

LEMMA RpcStarts == RpcInit => RpcInv
  <1>. SUFFICES ASSUME RpcInit PROVE RpcInv
    OBVIOUS
  <1>1. holding = {} /\ casts = {} /\ listening = {} /\ ended = {} /\ sessions = 0
    BY DEF RpcInit
  <1>2. starts \in [Program -> 0 .. MaxStarts] /\ \A p \in PluginOf : starts[p] <= 1
    BY RpcAssumption DEF RpcInit
  <1>3. RpcTypeOK
    BY <1>1, <1>2, RpcAssumption DEF RpcTypeOK
  <1>4. CastsSound /\ SendersSound /\ WaysSound
    BY <1>1 DEF CastsSound, SendersSound, WaysSound, HeldOnce, UnsentFresh, PendingFresh,
                CopyBeside
  <1>5. IdentityKept /\ AdminByCopyOnly /\ SessionsApart /\ HandledOnce /\ NothingMissed
    BY <1>1 DEF IdentityKept, AdminByCopyOnly, SessionsApart, HandledOnce, NothingMissed
  <1>. QED
    BY <1>3, <1>4, <1>5 DEF RpcInv

(* A start adds consumers that nothing was sent to.                        *)
LEMMA StartConsumersKept ==
  ASSUME RpcInv, NEW p \in Program, StartConsumers(p)
  PROVE  RpcInv'
  <1>. DEFINE new == {[program |-> p, start |-> starts[p] + 1, k |-> k,
                       topic |-> Topics(p, k)] : k \in Listens(p)}
  <1>1. /\ p \notin ended /\ starts[p] < IF p \in PluginOf THEN 1 ELSE MaxStarts
        /\ starts' = [starts EXCEPT ![p] = @ + 1] /\ listening' = listening \cup new
        /\ ended' = ended /\ casts' = casts /\ holding' = holding /\ sessions' = sessions
    BY DEF StartConsumers
  <1>2. /\ starts \in [Program -> 0 .. MaxStarts] /\ ended \subseteq Program
        /\ \A q \in PluginOf : starts[q] <= 1
        /\ sessions \in 0 .. MaxSessions
        /\ \A c \in listening : Started(c) /\ c.program \notin ended
        /\ \A h \in holding : HoldingTypeOK(h)
        /\ \A m \in casts : CastTypeOK(m)
    BY DEF RpcInv, RpcTypeOK
  <1>3. /\ starts' \in [Program -> 0 .. MaxStarts] /\ \A q \in PluginOf : starts'[q] <= 1
        /\ \A q \in Program : starts[q] <= starts'[q]
        /\ starts'[p] = starts[p] + 1 /\ starts[p] + 1 \in 1 .. MaxStarts
        /\ p \in PluginOf => starts[p] + 1 = 1
    BY <1>1, <1>2, RpcAssumption
  <1>4. \A c \in new : /\ c \in Consumer /\ c.program = p /\ c.start = starts[p] + 1
    <2>. SUFFICES ASSUME NEW k \in Listens(p)
                  PROVE  [program |-> p, start |-> starts[p] + 1, k |-> k,
                          topic |-> Topics(p, k)] \in Consumer
      OBVIOUS
    <2>1. k \in 1 .. 3
      BY DEF Listens
    <2>2. Topics(p, k) \in {Topics(q, j) : q \in Program, j \in 1 .. 3}
      BY <2>1
    <2>. QED
      BY <1>3, <2>1, <2>2 DEF Consumer
  <1>5. \A c : Started(c) => Started(c)' /\ c \notin new
    <2>. SUFFICES ASSUME NEW c, Started(c) PROVE Started(c)' /\ c \notin new
      OBVIOUS
    <2>1. c \in Consumer /\ c.start <= starts[c.program] /\ c.program \in Program
      BY ConsumerFacts DEF Started
    <2>2. c.start \in Nat /\ starts[c.program] \in Nat /\ starts'[c.program] \in Nat
      BY <1>2, <1>3, <2>1, RpcAssumption DEF Consumer
    <2>3. Started(c)'
      BY <1>3, <2>1, <2>2 DEF Started
    <2>. QED
      BY <1>4, <2>1, <2>2, <2>3
  <1>6. \A c \in listening' : Started(c)' /\ c.program \notin ended'
    BY <1>1, <1>2, <1>3, <1>4, <1>5 DEF Started
  <1>. HIDE DEF new
  <1>7. \A h \in holding : HoldingTypeOK(h)' /\ \A c \in h.to : Started(c)
    BY <1>1, <1>2, <1>5 DEF HoldingTypeOK
  <1>8. \A m \in casts : CastTypeOK(m)'
    BY <1>1, <1>2 DEF CastTypeOK
  <1>9. RpcTypeOK'
    <2>1. /\ ended' \subseteq Program /\ sessions' \in 0 .. MaxSessions
      BY <1>1, <1>2
    <2>2. \A h \in holding' : HoldingTypeOK(h)'
      BY <1>1, <1>7
    <2>3. \A m \in casts' : CastTypeOK(m)'
      BY <1>1, <1>8
    <2>. QED
      BY <1>3, <1>6, <2>1, <2>2, <2>3 DEF RpcTypeOK
  <1>10. (CastsSound /\ SendersSound /\ WaysSound)'
    BY <1>1 DEF RpcInv, CastsSound, SendersSound, WaysSound, HeldOnce, UnsentFresh,
                PendingFresh, CopyBeside, Everything
  <1>11. (IdentityKept /\ AdminByCopyOnly /\ SessionsApart /\ HandledOnce)'
    BY <1>1 DEF RpcInv, IdentityKept, AdminByCopyOnly, SessionsApart, HandledOnce
  <1>12. NothingMissed'
    <2>1. \A h \in holding : \A c \in h.to : c \in listening' => c \in listening
      BY <1>1, <1>5, <1>7
    <2>. QED
      BY <1>1, <2>1 DEF RpcInv, NothingMissed
  <1>. QED
    BY <1>9, <1>10, <1>11, <1>12 DEF RpcInv

(* What a program ends with: its consumers, its contexts, its part of the  *)
(* casts. What its consumers had to get, nobody else has to.               *)
LEMMA ProcessEndsKept ==
  ASSUME RpcInv, NEW p \in Program, ProcessEnds(p)
  PROVE  RpcInv'
  <1>. DEFINE E == ConsumersEnding(p)
  <1>1. /\ ended' = ended \cup {p} /\ listening' = listening \ E
        /\ holding' = {h \in holding : h.at # p}
        /\ casts' = {[m EXCEPT !.to = @ \ E] : m \in {n \in casts : ~ n.to \subseteq E}}
        /\ starts' = starts /\ sessions' = sessions
        /\ E = {c \in listening : c.program = p}
    BY DEF ProcessEnds, ConsumersEnding
  <1>. HIDE DEF E
  <1>2. /\ starts \in [Program -> 0 .. MaxStarts] /\ ended \subseteq Program
        /\ \A q \in PluginOf : starts[q] <= 1
        /\ sessions \in 0 .. MaxSessions
        /\ \A c \in listening : Started(c) /\ c.program \notin ended
        /\ \A h \in holding : HoldingTypeOK(h)
        /\ \A m \in casts : CastTypeOK(m)
    BY DEF RpcInv, RpcTypeOK
  <1>3. /\ \A m \in casts' : \E n \in casts :
             /\ m = [n EXCEPT !.to = @ \ E] /\ ~ n.to \subseteq E
        /\ \A n \in casts : ~ n.to \subseteq E => [n EXCEPT !.to = @ \ E] \in casts'
    BY <1>1
  <1>4. \A n \in casts : LET m == [n EXCEPT !.to = @ \ E] IN
          /\ DOMAIN m = DOMAIN n /\ m.origin = n.origin /\ m.way = n.way /\ m.dict = n.dict
          /\ m.fanout = n.fanout /\ m.to = n.to \ E
    BY <1>2 DEF CastTypeOK
  <1>5. \A m \in casts' : \E n \in casts :
          /\ DOMAIN m = DOMAIN n /\ m.origin = n.origin /\ m.way = n.way /\ m.dict = n.dict
          /\ m.fanout = n.fanout /\ m.to = n.to \ E /\ m.to # {}
          /\ m = [n EXCEPT !.to = @ \ E]
    <2>. SUFFICES ASSUME NEW m \in casts'
                  PROVE  \E n \in casts :
                    /\ DOMAIN m = DOMAIN n /\ m.origin = n.origin /\ m.way = n.way
                    /\ m.dict = n.dict /\ m.fanout = n.fanout /\ m.to = n.to \ E
                    /\ m.to # {} /\ m = [n EXCEPT !.to = @ \ E]
      OBVIOUS
    <2>1. PICK n \in casts : m = [n EXCEPT !.to = @ \ E] /\ ~ n.to \subseteq E
      BY <1>3
    <2>2. /\ DOMAIN m = DOMAIN n /\ m.origin = n.origin /\ m.way = n.way
          /\ m.dict = n.dict /\ m.fanout = n.fanout /\ m.to = n.to \ E
      BY <1>4, <2>1
    <2>3. m.to # {}
      BY <2>1, <2>2
    <2>. QED
      BY <2>1, <2>2, <2>3
  <1>6. holding' \subseteq holding /\ \A h \in holding' : h.at # p
    BY <1>1
  <1>7. \A x \in Everything' : \E y \in Everything : x.way = y.way /\ x.origin = y.origin
    BY <1>5, <1>6 DEF Everything
  <1>8. RpcTypeOK'
    <2>1. \A h \in holding' : HoldingTypeOK(h)'
      BY <1>1, <1>2, <1>6 DEF HoldingTypeOK, Started
    <2>2. \A m \in casts' : CastTypeOK(m)'
      <3>. SUFFICES ASSUME NEW m \in casts' PROVE CastTypeOK(m)'
        OBVIOUS
      <3>1. PICK n \in casts :
              /\ DOMAIN m = DOMAIN n /\ m.origin = n.origin /\ m.way = n.way
              /\ m.fanout = n.fanout /\ m.to = n.to \ E /\ m.to # {}
        BY <1>5
      <3>2. CastTypeOK(n)
        BY <1>2
      <3>. QED
        BY <1>1, <3>1, <3>2 DEF CastTypeOK
    <2>3. \A c \in listening' : Started(c)' /\ c.program \notin ended'
      BY <1>1, <1>2 DEF Started
    <2>4. ended' \subseteq Program
      BY <1>1, <1>2
    <2>. QED
      BY <1>1, <1>2, <2>1, <2>2, <2>3, <2>4 DEF RpcTypeOK
  <1>9. CastsSound'
    <2>1. CastsSound
      BY DEF RpcInv
    <2>. QED
      BY <1>5, <2>1 DEF CastsSound
  <1>10. SendersSound'
    <2>1. SendersSound
      BY DEF RpcInv
    <2>2. \A x, y \in (holding \cup casts)' : x.origin = y.origin
      BY <1>7, <2>1 DEF SendersSound, Everything
    <2>3. \A m \in casts' : /\ m.fanout <=> Fanned(m.origin, m.way)
                            /\ m.fanout => \A c \in m.to : c.program \in PluginOf
      BY <1>5, <2>1 DEF SendersSound
    <2>. QED
      BY <1>6, <2>1, <2>2, <2>3 DEF SendersSound
  <1>11. HeldOnce'
    <2>1. HeldOnce
      BY DEF RpcInv, WaysSound
    <2>2. \A m, n \in casts' : m.way = n.way => m = n
      <3>. SUFFICES ASSUME NEW m \in casts', NEW n \in casts', m.way = n.way PROVE m = n
        OBVIOUS
      <3>1. PICK v \in casts : m.way = v.way /\ m = [v EXCEPT !.to = @ \ E]
        BY <1>5
      <3>2. PICK w \in casts : n.way = w.way /\ n = [w EXCEPT !.to = @ \ E]
        BY <1>5
      <3>3. v = w
        BY <2>1, <3>1, <3>2 DEF HeldOnce
      <3>. QED
        BY <3>1, <3>2, <3>3
    <2>. QED
      BY <1>6, <2>1, <2>2 DEF HeldOnce
  <1>12. UnsentFresh'
    <2>1. UnsentFresh
      BY DEF RpcInv, WaysSound
    <2>. QED
      BY <1>5, <1>6, <1>7, <2>1 DEF UnsentFresh
  <1>13. PendingFresh'
    <2>1. PendingFresh
      BY DEF RpcInv, WaysSound
    <2>. SUFFICES ASSUME NEW m \in casts', NEW x \in Everything'
                  PROVE  /\ \A c \in m.to : ~ Follows(x.way, Append(m.way, c))
                         /\ ~ m.fanout => ~ Beyond(x.way, m.way)
      BY DEF PendingFresh
    <2>2. PICK n \in casts : m.way = n.way /\ m.fanout = n.fanout /\ m.to = n.to \ E
      BY <1>5
    <2>3. PICK y \in Everything : x.way = y.way
      BY <1>7
    <2>. QED
      BY <2>1, <2>2, <2>3 DEF PendingFresh
  <1>14. CopyBeside'
    <2>1. CopyBeside
      BY DEF RpcInv, WaysSound
    <2>. SUFFICES ASSUME NEW h \in holding', NEW x \in Everything',
                         h.way = << >>, x.way # << >>, x.way[1] = Copied
                  PROVE  \E i \in holding' : i.way = <<Copied>> /\ i.at = h.at
      BY DEF CopyBeside
    <2>2. PICK y \in Everything : x.way = y.way
      BY <1>7
    <2>3. PICK i \in holding : i.way = <<Copied>> /\ i.at = h.at
      BY <1>6, <2>1, <2>2 DEF CopyBeside
    <2>. QED
      BY <1>1, <2>3
  <1>15. (IdentityKept /\ AdminByCopyOnly /\ SessionsApart /\ HandledOnce)'
    <2>1. IdentityKept /\ AdminByCopyOnly /\ SessionsApart /\ HandledOnce
      BY DEF RpcInv
    <2>. QED
      BY <1>6, <2>1 DEF IdentityKept, AdminByCopyOnly, SessionsApart, HandledOnce
  <1>16. NothingMissed'
    <2>1. NothingMissed /\ SendersSound
      BY DEF RpcInv
    <2>. SUFFICES ASSUME NEW h \in holding', NEW c \in h.to, c \in listening', h.at \notin PluginOf
                  PROVE  \/ \E i \in holding' : i.origin = h.origin /\ i.way = Append(h.way, c)
                         \/ \E m \in casts' : m.origin = h.origin /\ m.way = h.way /\ c \in m.to
      BY DEF NothingMissed
    <2>2. /\ h \in holding /\ c \in listening /\ c \notin E /\ c.program # p /\ c \in Consumer
          /\ h.way \in Seq(Hop)
      BY <1>1, <1>2, <1>6 DEF Started, HoldingTypeOK, Hop
    <2>3. \/ \E i \in holding : i.origin = h.origin /\ i.way = Append(h.way, c)
          \/ \E m \in casts : m.origin = h.origin /\ m.way = h.way /\ c \in m.to
      BY <2>1, <2>2 DEF NothingMissed
    <2>4. ASSUME NEW i \in holding, i.origin = h.origin, i.way = Append(h.way, c)
          PROVE  i \in holding'
      <3>1. i.way # << >> /\ Last(i.way) = c /\ c # Copied
        BY <2>2, <2>4, AppendLast, ConsumerFacts DEF Hop
      <3>2. i.at = c.program
        BY <2>1, <3>1 DEF SendersSound
      <3>. QED
        BY <1>1, <2>2, <3>2
    <2>5. ASSUME NEW m \in casts, m.origin = h.origin, m.way = h.way, c \in m.to
          PROVE  \E n \in casts' : n.origin = h.origin /\ n.way = h.way /\ c \in n.to
      <3>. DEFINE n == [m EXCEPT !.to = @ \ E]
      <3>1. ~ m.to \subseteq E
        BY <2>2, <2>5
      <3>2. n \in casts'
        BY <1>3, <3>1
      <3>3. n.origin = m.origin /\ n.way = m.way /\ n.to = m.to \ E
        BY <1>4
      <3>. HIDE DEF n
      <3>. QED
        BY <2>2, <2>5, <3>2, <3>3
    <2>. QED
      BY <2>3, <2>4, <2>5
  <1>. QED
    BY <1>8, <1>9, <1>10, <1>11, <1>12, <1>13, <1>14, <1>15, <1>16 DEF RpcInv, WaysSound

(* A request begins where nothing else is.                                 *)
LEMMA AskKept ==
  ASSUME RpcInv, NEW p \in Program, NEW r \in DOMAIN Asking \cup Program, Ask(p, r)
  PROVE  RpcInv'
  <1>. DEFINE h == Holding(p, r, << >>, Original(r))
  <1>1. /\ p \notin ended /\ holding = {} /\ casts = {} /\ holding' = {h} /\ casts' = {}
        /\ starts' = starts /\ ended' = ended /\ listening' = listening
        /\ sessions' = sessions
        /\ IF r \in Program THEN p \notin PluginOf /\ r = p ELSE p \in PluginOf
    BY DEF Ask, NoOther
  <1>2. /\ DOMAIN h = {"at", "origin", "way", "ctx", "to", "sent"} /\ h.at = p
        /\ h.origin = r /\ h.way = << >> /\ h.ctx = Original(r) /\ h.to = {}
        /\ h.sent = FALSE
    BY DEF Holding
  <1>3. /\ DOMAIN Original(r) = ContextFields /\ Original(r).session = 0
        /\ IdentityOf(Original(r), r) /\ AdminOf(Original(r), r, << >>)
    BY <1>1, Begins
  <1>. HIDE DEF h
  <1>4. RpcTypeOK'
    <2>1. RpcTypeOK
      BY DEF RpcInv
    <2>2. HoldingTypeOK(h)'
      <3>1. << >> \in Seq(Consumer \cup {Copied}) /\ 0 \in 0 .. sessions /\ r \in Origins
        BY <2>1 DEF RpcTypeOK, Origins
      <3>. QED
        BY <1>1, <1>2, <1>3, <3>1 DEF HoldingTypeOK
    <2>. QED
      BY <1>1, <2>1, <2>2 DEF RpcTypeOK, Started
  <1>5. CastsSound'
    BY <1>1 DEF CastsSound
  <1>6. SendersSound'
    <2>1. h.at \notin PluginOf <=> Fanned(h.origin, h.way)
      BY <1>1, <1>2 DEF Fanned
    <2>. QED
      BY <1>1, <1>2, <2>1 DEF SendersSound
  <1>7. WaysSound'
    <2>1. ~ Beyond(<< >>, << >>)
      BY DEF Beyond
    <2>. QED
      BY <1>1, <1>2, <2>1
         DEF WaysSound, HeldOnce, UnsentFresh, PendingFresh, CopyBeside, Everything
  <1>8. (IdentityKept /\ AdminByCopyOnly /\ SessionsApart)'
    BY <1>1, <1>2, <1>3 DEF IdentityKept, AdminByCopyOnly, SessionsApart
  <1>9. (HandledOnce /\ NothingMissed)'
    BY <1>1, <1>2 DEF HandledOnce, SameCast, NothingMissed
  <1>. QED
    BY <1>4, <1>5, <1>6, <1>7, <1>8, <1>9 DEF RpcInv

LEMMA SendOutdatedKept ==
  ASSUME RpcInv, NEW p \in Program, NEW r \in DOMAIN Outdated, SendOutdated(r, p)
  PROVE  RpcInv'
  <1>. PICK m : m = Cast(r, << >>, Outdated[r], TopicOf[p].node, FALSE)
    OBVIOUS
  <1>1. /\ Listeners(TopicOf[p].node) # {} /\ holding = {} /\ casts = {} /\ holding' = {}
        /\ casts' = {m} /\ starts' = starts /\ ended' = ended
        /\ listening' = listening /\ sessions' = sessions
    BY DEF SendOutdated, NoOther
  <1>2. /\ DOMAIN m = {"origin", "way", "dict", "fanout", "to"} /\ m.origin = r
        /\ m.way = << >> /\ m.dict = Outdated[r] /\ m.fanout = FALSE
        /\ m.to = Listeners(TopicOf[p].node)
    BY DEF Cast
  <1>3. m.to \subseteq listening /\ m.to # {}
    BY <1>1, <1>2 DEF Listeners
  <1>4. RpcTypeOK'
    <2>1. RpcTypeOK
      BY DEF RpcInv
    <2>2. CastTypeOK(m)'
      <3>1. << >> \in Seq(Consumer \cup {Copied}) /\ r \in Origins
        BY DEF Origins
      <3>. QED
        BY <1>1, <1>2, <1>3, <3>1 DEF CastTypeOK
    <2>. QED
      BY <1>1, <2>1, <2>2 DEF RpcTypeOK, Started
  <1>5. CastsSound'
    BY <1>1, <1>2, OutdatedRead DEF CastsSound
  <1>6. SendersSound'
    <2>1. ~ Fanned(r, << >>)
      BY RpcAssumption DEF Fanned
    <2>. QED
      BY <1>1, <1>2, <2>1 DEF SendersSound
  <1>7. WaysSound'
    <2>1. ~ Beyond(<< >>, << >>)
      BY DEF Beyond
    <2>2. \A c \in m.to : ~ Follows(<< >>, Append(<< >>, c))
      BY DEF Follows
    <2>. QED
      BY <1>1, <1>2, <2>1, <2>2
         DEF WaysSound, HeldOnce, UnsentFresh, PendingFresh, CopyBeside, Everything
  <1>8. (IdentityKept /\ AdminByCopyOnly /\ SessionsApart /\ HandledOnce /\ NothingMissed)'
    BY <1>1 DEF IdentityKept, AdminByCopyOnly, SessionsApart, HandledOnce, NothingMissed
  <1>. QED
    BY <1>4, <1>5, <1>6, <1>7, <1>8 DEF RpcInv

(* When one context is replaced by one of the same way, each context is    *)
(* still there, and where it was.                                          *)
LEMMA Replaced ==
  ASSUME RpcInv, NEW h \in holding, NEW g, holding' = (holding \ {h}) \cup {g},
         g.at = h.at, g.origin = h.origin, g.way = h.way
  PROVE  /\ \A i \in holding' : \E j \in holding :
              /\ i.at = j.at /\ i.origin = j.origin /\ i.way = j.way
              /\ (i = j /\ j # h) \/ (i = g /\ j = h)
         /\ \A j \in holding : \E i \in holding' :
              i.at = j.at /\ i.origin = j.origin /\ i.way = j.way
         /\ \A i, j \in holding' : i.way = j.way => i = j
         /\ HandledOnce'
  <1>1. HeldOnce /\ HandledOnce
    BY DEF RpcInv, WaysSound
  <1>2. \A i \in holding' : \E j \in holding :
           /\ i.at = j.at /\ i.origin = j.origin /\ i.way = j.way
           /\ (i = j /\ j # h) \/ (i = g /\ j = h)
    OBVIOUS
  <1>3. \A j \in holding : \E i \in holding' :
           i.at = j.at /\ i.origin = j.origin /\ i.way = j.way
    OBVIOUS
  <1>4. \A i, j \in holding' : i.way = j.way => i = j
    <2>. SUFFICES ASSUME NEW i \in holding', NEW j \in holding', i.way = j.way PROVE i = j
      OBVIOUS
    <2>1. PICK v \in holding : i.way = v.way /\ ((i = v /\ v # h) \/ (i = g /\ v = h))
      BY <1>2
    <2>2. PICK w \in holding : j.way = w.way /\ ((j = w /\ w # h) \/ (j = g /\ w = h))
      BY <1>2
    <2>3. v = w
      BY <1>1, <2>1, <2>2 DEF HeldOnce
    <2>. QED
      BY <2>1, <2>2, <2>3
  <1>5. HandledOnce'
    <2>. SUFFICES ASSUME NEW i \in holding', NEW j \in holding', SameCast(i, j)
                  PROVE  i.at # j.at /\ {i.at, j.at} \subseteq PluginOf
      BY DEF HandledOnce
    <2>1. PICK v \in holding : /\ i.at = v.at /\ i.origin = v.origin /\ i.way = v.way
                               /\ (i = v /\ v # h) \/ (i = g /\ v = h)
      BY <1>2
    <2>2. PICK w \in holding : /\ j.at = w.at /\ j.origin = w.origin /\ j.way = w.way
                               /\ (j = w /\ w # h) \/ (j = g /\ w = h)
      BY <1>2
    <2>3. v # w
      BY <2>1, <2>2 DEF SameCast
    <2>4. SameCast(v, w)
      BY <2>1, <2>2, <2>3 DEF SameCast
    <2>. QED
      BY <1>1, <2>1, <2>2, <2>4 DEF HandledOnce
  <1>. QED
    BY <1>2, <1>3, <1>4, <1>5

(* The session that is opened is nobody's yet.                             *)
LEMMA SessionAskedKept ==
  ASSUME RpcInv, NEW h \in holding, SessionAsked(h)
  PROVE  RpcInv'
  <1>a. PICK g : g = [h EXCEPT !.ctx.session = sessions + 1]
    OBVIOUS
  <1>1. /\ h.at \in PluginOf /\ sessions < MaxSessions /\ sessions' = sessions + 1
        /\ holding' = (holding \ {h}) \cup {g}
        /\ starts' = starts /\ ended' = ended /\ listening' = listening /\ casts' = casts
    BY <1>a DEF SessionAsked
  <1>2. /\ starts \in [Program -> 0 .. MaxStarts] /\ ended \subseteq Program
        /\ \A q \in PluginOf : starts[q] <= 1
        /\ sessions \in 0 .. MaxSessions
        /\ \A c \in listening : Started(c) /\ c.program \notin ended
        /\ \A i \in holding : HoldingTypeOK(i)
        /\ \A m \in casts : CastTypeOK(m)
    BY DEF RpcInv, RpcTypeOK
  <1>3. /\ DOMAIN h = {"at", "origin", "way", "ctx", "to", "sent"}
        /\ DOMAIN h.ctx = ContextFields
    BY <1>2 DEF HoldingTypeOK
  <1>4. /\ DOMAIN g = DOMAIN h /\ g.at = h.at /\ g.origin = h.origin /\ g.way = h.way
        /\ g.to = h.to /\ g.sent = h.sent
        /\ g.ctx = [h.ctx EXCEPT !.session = sessions + 1]
    BY <1>a, <1>3
  <1>5. /\ DOMAIN g.ctx = ContextFields /\ g.ctx.session = sessions + 1
        /\ g.ctx.user = h.ctx.user /\ g.ctx.tenant = h.ctx.tenant
        /\ g.ctx.admin = h.ctx.admin /\ Identity(g.ctx) = Identity(h.ctx)
    BY <1>3, <1>4 DEF ContextFields, Identity
  <1>6. /\ \A i \in holding' : \E j \in holding :
             /\ i.at = j.at /\ i.origin = j.origin /\ i.way = j.way
             /\ (i = j /\ j # h) \/ (i = g /\ j = h)
        /\ \A j \in holding : \E i \in holding' :
             i.at = j.at /\ i.origin = j.origin /\ i.way = j.way
        /\ \A i, j \in holding' : i.way = j.way => i = j
        /\ HandledOnce'
    <2>1. /\ holding' = (holding \ {h}) \cup {g} /\ g.at = h.at /\ g.origin = h.origin
          /\ g.way = h.way
      BY <1>1, <1>4
    <2>. QED
      BY <2>1, Replaced, Zenon
  <1>7. \A i \in holding' : \E j \in holding :
           /\ i.at = j.at /\ i.origin = j.origin /\ i.way = j.way /\ i.to = j.to
           /\ i.sent = j.sent
    <2>1. g.to = h.to /\ g.sent = h.sent
      BY <1>4
    <2>. QED
      BY <1>6, <2>1
  <1>8. \A x \in Everything' : \E y \in Everything : x.way = y.way /\ x.origin = y.origin
    BY <1>1, <1>6 DEF Everything
  <1>9. RpcTypeOK'
    <2>1. \A i \in holding \ {h} : HoldingTypeOK(i)'
      <3>. SUFFICES ASSUME NEW i \in holding \ {h} PROVE HoldingTypeOK(i)'
        OBVIOUS
      <3>1. i.ctx.session \in 0 .. sessions'
        BY <1>1, <1>2 DEF HoldingTypeOK
      <3>. QED
        BY <1>1, <1>2, <3>1 DEF HoldingTypeOK, Started
    <2>2. HoldingTypeOK(g)'
      <3>1. g.ctx.session \in 0 .. sessions'
        BY <1>1, <1>2, <1>5
      <3>2. HoldingTypeOK(h)
        BY <1>2
      <3>. QED
        BY <1>1, <1>3, <1>4, <1>5, <3>1, <3>2 DEF HoldingTypeOK, Started
    <2>3. \A m \in casts' : CastTypeOK(m)'
      BY <1>1, <1>2 DEF CastTypeOK
    <2>4. sessions' \in 0 .. MaxSessions
      BY <1>1, <1>2, RpcAssumption
    <2>. QED
      BY <1>1, <1>2, <2>1, <2>2, <2>3, <2>4 DEF RpcTypeOK, Started
  <1>10. CastsSound'
    BY <1>1 DEF RpcInv, CastsSound
  <1>11. SendersSound'
    <2>1. SendersSound
      BY DEF RpcInv
    <2>2. \A x, y \in (holding \cup casts)' : x.origin = y.origin
      BY <1>8, <2>1 DEF SendersSound, Everything
    <2>. QED
      BY <1>1, <1>7, <2>1, <2>2 DEF SendersSound
  <1>12. WaysSound'
    <2>1. HeldOnce /\ UnsentFresh /\ PendingFresh /\ CopyBeside
      BY DEF RpcInv, WaysSound
    <2>2. HeldOnce'
      BY <1>1, <1>6, <2>1 DEF HeldOnce
    <2>3. UnsentFresh'
      BY <1>1, <1>7, <1>8, <2>1 DEF UnsentFresh
    <2>4. PendingFresh'
      BY <1>1, <1>8, <2>1 DEF PendingFresh
    <2>5. CopyBeside'
      <3>. SUFFICES ASSUME NEW i \in holding', NEW x \in Everything',
                           i.way = << >>, x.way # << >>, x.way[1] = Copied
                    PROVE  \E k \in holding' : k.way = <<Copied>> /\ k.at = i.at
        BY DEF CopyBeside
      <3>1. PICK j \in holding : i.way = j.way /\ i.at = j.at
        BY <1>6
      <3>2. PICK y \in Everything : x.way = y.way
        BY <1>8
      <3>3. PICK k \in holding : k.way = <<Copied>> /\ k.at = j.at
        BY <2>1, <3>1, <3>2 DEF CopyBeside
      <3>. QED
        BY <1>6, <3>1, <3>3
    <2>. QED
      BY <2>2, <2>3, <2>4, <2>5 DEF WaysSound
  <1>13. (IdentityKept /\ AdminByCopyOnly)'
    <2>1. IdentityOf(g.ctx, g.origin) /\ AdminOf(g.ctx, g.origin, g.way)
      BY <1>4, <1>5 DEF RpcInv, IdentityKept, IdentityOf, AdminByCopyOnly, AdminOf
    <2>. QED
      BY <1>1, <2>1 DEF RpcInv, IdentityKept, AdminByCopyOnly
  <1>14. SessionsApart'
    <2>1. \A i \in holding : i.ctx.session \in 0 .. sessions
      BY <1>2 DEF HoldingTypeOK
    <2>2. \A i \in holding : i.ctx.session # g.ctx.session
      BY <1>2, <1>5, <2>1
    <2>3. SessionsApart
      BY DEF RpcInv
    <2>. SUFFICES ASSUME NEW i \in holding', NEW j \in holding', i.ctx.session # 0,
                         i.ctx.session = j.ctx.session
                  PROVE  i.origin = j.origin /\ Received(i.way) = Received(j.way)
      BY DEF SessionsApart
    <2>4. CASE i = g /\ j = g
      BY <2>4
    <2>5. CASE i # g /\ j # g
      BY <1>1, <2>3, <2>5 DEF SessionsApart
    <2>. QED
      BY <1>1, <2>2, <2>4, <2>5
  <1>15. NothingMissed'
    <2>. SUFFICES ASSUME NEW i \in holding', NEW c \in i.to, c \in listening', i.at \notin PluginOf
                  PROVE  \/ \E k \in holding' : k.origin = i.origin /\ k.way = Append(i.way, c)
                         \/ \E m \in casts' : m.origin = i.origin /\ m.way = i.way /\ c \in m.to
      BY DEF NothingMissed
    <2>1. PICK j \in holding : i.at = j.at /\ i.origin = j.origin /\ i.way = j.way /\ i.to = j.to
      BY <1>7
    <2>2. NothingMissed
      BY DEF RpcInv
    <2>3. \/ \E k \in holding : k.origin = j.origin /\ k.way = Append(j.way, c)
          \/ \E m \in casts : m.origin = j.origin /\ m.way = j.way /\ c \in m.to
      BY <1>1, <2>1, <2>2 DEF NothingMissed
    <2>. QED
      BY <1>1, <1>6, <2>1, <2>3
  <1>. QED
    BY <1>6, <1>9, <1>10, <1>11, <1>12, <1>13, <1>14, <1>15 DEF RpcInv

(* A copy is made beside its original, while there is none and nothing of  *)
(* one is there.                                                           *)
LEMMA ElevateKept ==
  ASSUME RpcInv, NEW h \in holding, Elevate(h)
  PROVE  RpcInv'
  <1>. DEFINE plain == Holding(h.at, h.origin, Append(h.way, Copied), h.ctx)
  <1>a. PICK g : g = [plain EXCEPT !.ctx.admin = "True"]
    OBVIOUS
  <1>1. /\ h.at \in PluginOf /\ h.way = << >> /\ holding' = holding \cup {g}
        /\ \A i \in holding : i.origin = h.origin => i.way # <<Copied>>
        /\ starts' = starts /\ ended' = ended /\ listening' = listening
        /\ casts' = casts /\ sessions' = sessions
    BY <1>a, CopiedWay DEF Elevate
  <1>2. /\ starts \in [Program -> 0 .. MaxStarts] /\ ended \subseteq Program
        /\ \A q \in PluginOf : starts[q] <= 1
        /\ sessions \in 0 .. MaxSessions
        /\ \A c \in listening : Started(c) /\ c.program \notin ended
        /\ \A i \in holding : HoldingTypeOK(i)
        /\ \A m \in casts : CastTypeOK(m)
    BY DEF RpcInv, RpcTypeOK
  <1>3. /\ CastsSound /\ SendersSound /\ HeldOnce /\ UnsentFresh /\ PendingFresh /\ CopyBeside
        /\ IdentityKept /\ AdminByCopyOnly /\ SessionsApart /\ HandledOnce /\ NothingMissed
    BY DEF RpcInv, WaysSound
  <1>4. h.at \in Program \ ended /\ h.origin \in Origins /\ DOMAIN h.ctx = ContextFields
    BY <1>2 DEF HoldingTypeOK
  <1>5. /\ DOMAIN g = {"at", "origin", "way", "ctx", "to", "sent"} /\ g.at = h.at
        /\ g.origin = h.origin /\ g.way = <<Copied>> /\ g.to = {} /\ g.sent = FALSE
        /\ g.ctx = [h.ctx EXCEPT !.admin = "True"]
    BY <1>a, <1>1, CopiedWay DEF Holding
  <1>6. /\ DOMAIN g.ctx = ContextFields /\ g.ctx.session = h.ctx.session
        /\ g.ctx.user = h.ctx.user /\ g.ctx.tenant = h.ctx.tenant
        /\ Identity(g.ctx) = Identity(h.ctx)
    BY <1>4, <1>5 DEF ContextFields, Identity
  <1>7. \A i \in holding : i.way # <<Copied>>
    BY <1>1, <1>3 DEF SendersSound
  <1>8. \A x \in Everything : x.way # << >> => x.way[1] # Copied
    BY <1>1, <1>3, <1>7 DEF CopyBeside
  <1>9. \A x \in Everything' : x \in Everything \/ x = g
    BY <1>1 DEF Everything
  <1>10. Everything \subseteq Everything' /\ h \in Everything
    BY <1>1 DEF Everything
  <1>11. \A x \in Everything : x.way \in Seq(Hop)
    BY WayFacts DEF RpcInv
  <1>12. Len(<<Copied>>) = 1 /\ <<Copied>>[1] = Copied
    OBVIOUS
  <1>13. RpcTypeOK'
    <2>1. HoldingTypeOK(g)'
      <3>1. <<Copied>> \in Seq(Consumer \cup {Copied})
        OBVIOUS
      <3>2. HoldingTypeOK(h)
        BY <1>2
      <3>. QED
        BY <1>1, <1>4, <1>5, <1>6, <3>1, <3>2 DEF HoldingTypeOK
    <2>2. \A i \in holding : HoldingTypeOK(i)'
      BY <1>1, <1>2 DEF HoldingTypeOK, Started
    <2>3. \A m \in casts' : CastTypeOK(m)'
      BY <1>1, <1>2 DEF CastTypeOK
    <2>. QED
      BY <1>1, <1>2, <2>1, <2>2, <2>3 DEF RpcTypeOK, Started
  <1>14. CastsSound'
    BY <1>1, <1>3 DEF CastsSound
  <1>15. SendersSound'
    <2>0. \A x \in Everything' : x.origin = h.origin
      <3>1. \A x \in Everything : x.origin = h.origin
        BY <1>3, <1>10 DEF SendersSound, Everything
      <3>. QED
        BY <1>5, <1>9, <3>1
    <2>1. \A x, y \in (holding \cup casts)' : x.origin = y.origin
      BY <2>0 DEF Everything
    <2>2. g.at \in PluginOf /\ ~ Fanned(g.origin, g.way) /\ Last(g.way) = Copied
      BY <1>1, <1>5, CopiedWay DEF Fanned
    <2>. QED
      BY <1>1, <1>3, <1>5, <2>1, <2>2 DEF SendersSound
  <1>16. HeldOnce'
    <2>1. \A i \in holding : i.way # g.way
      BY <1>5, <1>7
    <2>2. casts' = casts /\ holding' = holding \cup {g}
      BY <1>1
    <2>. QED
      BY <1>3, <2>1, <2>2 DEF HeldOnce
  <1>17. ASSUME NEW w, w \in Seq(Hop) PROVE ~ Beyond(<<Copied>>, w)
    BY <1>12, <1>17 DEF Beyond
  <1>18. UnsentFresh'
    <2>1. \A x \in Everything : ~ Beyond(x.way, <<Copied>>) /\ (x \in casts => x.way # <<Copied>>)
      <3>. SUFFICES ASSUME NEW x \in Everything
                    PROVE  ~ Beyond(x.way, <<Copied>>) /\ x.way # <<Copied>>
        OBVIOUS
      <3>1. x.way \in Seq(Hop)
        BY <1>11
      <3>2. CASE x.way = << >>
        BY <3>2, <1>12, CopiedWay DEF Beyond
      <3>3. CASE x.way # << >>
        <4>1. x.way[1] # Copied
          BY <1>8, <3>3
        <4>. QED
          BY <4>1, <1>12 DEF Beyond, Follows
      <3>. QED
        BY <3>2, <3>3
    <2>. SUFFICES ASSUME NEW i \in holding', ~ i.sent
                  PROVE  /\ \A m \in casts' : m.way # i.way
                         /\ \A x \in Everything' : ~ Beyond(x.way, i.way)
      BY DEF UnsentFresh
    <2>2. CASE i = g
      <3>1. ~ Beyond(g.way, g.way)
        BY <1>5, <1>17, CopiedWay
      <3>2. g.way = <<Copied>> /\ casts' = casts
        BY <1>1, <1>5
      <3>3. \A m \in casts' : m.way # <<Copied>>
        BY <2>1, <3>2 DEF Everything
      <3>4. \A x \in Everything' : ~ Beyond(x.way, <<Copied>>)
        BY <1>9, <2>1, <3>1, <3>2
      <3>. QED
        BY <2>2, <3>2, <3>3, <3>4
    <2>3. CASE i \in holding
      <3>1. ~ Beyond(g.way, i.way)
        BY <1>5, <1>11, <1>17, <2>3 DEF Everything
      <3>. QED
        BY <1>1, <1>3, <1>9, <2>3, <3>1 DEF UnsentFresh
    <2>. QED
      BY <1>1, <2>2, <2>3
  <1>19. PendingFresh'
    <2>. SUFFICES ASSUME NEW m \in casts
                  PROVE  /\ \A c \in m.to : ~ Follows(g.way, Append(m.way, c))
                         /\ ~ Beyond(g.way, m.way)
      BY <1>1, <1>3, <1>9 DEF PendingFresh
    <2>1. m.way \in Seq(Hop) /\ \A c \in m.to : c \in Hop /\ c # Copied
      BY WayFacts, ConsumerFacts DEF RpcInv, Everything, Hop
    <2>2. ASSUME NEW c \in m.to PROVE ~ Follows(g.way, Append(m.way, c))
      <3>1. Follows(<<Copied>>, Append(m.way, c))
            <=> /\ Follows(<<Copied>>, m.way) /\ Len(m.way) < Len(<<Copied>>)
                /\ <<Copied>>[Len(m.way) + 1] = c
        <4>1. <<Copied>> \in Seq(Hop) /\ m.way \in Seq(Hop) /\ c \in Hop
          BY <2>1, CopiedWay
        <4>. QED
          BY <4>1, FollowsAppend
      <3>2. Len(m.way) < 1 => Len(m.way) + 1 = 1
        BY <2>1
      <3>. QED
        BY <1>5, <1>12, <2>1, <3>1, <3>2
    <2>3. ~ Beyond(g.way, m.way)
      BY <1>5, <1>17, <2>1
    <2>. QED
      BY <2>2, <2>3
  <1>20. CopyBeside'
    <2>. SUFFICES ASSUME NEW i \in holding', i.way = << >>
                  PROVE  \E k \in holding' : k.way = <<Copied>> /\ k.at = i.at
      BY DEF CopyBeside
    <2>1. i \in holding
      BY <1>1, <1>5, CopiedWay
    <2>2. i = h
      BY <1>1, <1>3, <2>1 DEF HeldOnce
    <2>. QED
      BY <1>1, <1>5, <2>2
  <1>21. (IdentityKept /\ AdminByCopyOnly)'
    <2>1. IdentityOf(g.ctx, g.origin)
      <3>1. IdentityOf(h.ctx, h.origin)
        BY <1>3 DEF IdentityKept
      <3>2. g.origin = h.origin
        BY <1>5
      <3>. QED
        BY <1>6, <3>1, <3>2 DEF IdentityOf
    <2>2. AdminOf(g.ctx, g.origin, g.way)
      BY <1>5, CopiedWay DEF AdminOf
    <2>. QED
      BY <1>1, <1>3, <2>1, <2>2 DEF IdentityKept, AdminByCopyOnly
  <1>22. SessionsApart'
    <2>1. Received(g.way) = Received(h.way)
      BY <1>1, <1>5, CopiedWay
    <2>. QED
      <3>1. holding' = holding \cup {g} /\ g.origin = h.origin
        BY <1>1, <1>5
      <3>2. g.ctx.session = h.ctx.session
        BY <1>6
      <3>3. SessionsApart
        BY <1>3
      <3>4. ASSUME NEW i \in holding, i.ctx.session = g.ctx.session, g.ctx.session # 0
            PROVE  i.origin = g.origin /\ Received(i.way) = Received(g.way)
        BY <2>1, <3>1, <3>2, <3>3, <3>4 DEF SessionsApart
      <3>. HIDE DEF Received
      <3>. SUFFICES ASSUME NEW i \in holding', NEW j \in holding', i.ctx.session # 0,
                           i.ctx.session = j.ctx.session
                    PROVE  i.origin = j.origin /\ Received(i.way) = Received(j.way)
        BY DEF SessionsApart
      <3>5. CASE i \in holding /\ j \in holding
        BY <3>3, <3>5 DEF SessionsApart
      <3>6. CASE i = g /\ j \in holding
        BY <3>4, <3>6
      <3>7. CASE j = g /\ i \in holding
        BY <3>4, <3>7
      <3>8. CASE i = g /\ j = g
        BY <3>8
      <3>. QED
        BY <3>1, <3>5, <3>6, <3>7, <3>8
  <1>23. HandledOnce'
    <2>1. Last(g.way) = Copied
      BY <1>5, CopiedWay
    <2>2. holding' = holding \cup {g}
      BY <1>1
    <2>3. \A i : ~ SameCast(g, i) /\ ~ SameCast(i, g)
      BY <2>1 DEF SameCast
    <2>4. HandledOnce
      BY <1>3
    <2>. SUFFICES ASSUME NEW i \in holding', NEW j \in holding', SameCast(i, j)
                  PROVE  i.at # j.at /\ {i.at, j.at} \subseteq PluginOf
      BY DEF HandledOnce
    <2>5. i \in holding /\ j \in holding
      BY <2>2, <2>3
    <2>. QED
      BY <2>4, <2>5 DEF HandledOnce
  <1>24. NothingMissed'
    <2>1. holding' = holding \cup {g} /\ casts' = casts /\ listening' = listening
      BY <1>1
    <2>2. g.to = {}
      BY <1>5
    <2>3. NothingMissed
      BY <1>3
    <2>. SUFFICES ASSUME NEW i \in holding', NEW c \in i.to \cap listening', i.at \notin PluginOf
                  PROVE  \/ \E j \in holding' : j.origin = i.origin /\ j.way = Append(i.way, c)
                         \/ \E m \in casts' : m.origin = i.origin /\ m.way = i.way /\ c \in m.to
      BY DEF NothingMissed
    <2>4. i \in holding /\ c \in i.to \cap listening
      BY <2>1, <2>2
    <2>5. \/ \E j \in holding : j.origin = i.origin /\ j.way = Append(i.way, c)
          \/ \E m \in casts : m.origin = i.origin /\ m.way = i.way /\ c \in m.to
      BY <2>3, <2>4 DEF NothingMissed
    <2>. QED
      BY <2>1, <2>5
  <1>. QED
    BY <1>13, <1>14, <1>15, <1>16, <1>18, <1>19, <1>20, <1>21, <1>22, <1>23, <1>24
       DEF RpcInv, WaysSound

(* Whoever gets what a plugin's ways and topics say: no service has the    *)
(* topic of a plugin.                                                      *)
LEMMA ListenersOfPlugin ==
  ASSUME RpcTypeOK, NEW p \in PluginOf, NEW c \in Listeners(TopicOf[p].name)
  PROVE  c.program \in PluginOf
  <1>1. c \in Consumer /\ c.topic = TopicOf[p].name
    BY DEF Listeners, RpcTypeOK, Started
  <1>2. c.program \in Program /\ c.topic = Topics(c.program, c.k)
    BY <1>1, ConsumerFacts
  <1>3. c.topic \in {TopicOf[c.program].name, TopicOf[c.program].node}
    BY <1>2 DEF Topics
  <1>. QED
    BY <1>1, <1>2, <1>3, RpcAssumption

(* A context is sent once; nothing of the cast was there before.           *)
LEMMA SendToKept ==
  ASSUME RpcInv, NEW h \in holding, NEW topic, SendTo(h, topic),
         h.at \notin PluginOf => \E p \in PluginOf : topic = TopicOf[p].name
  PROVE  RpcInv'
  <1>a. PICK cast : cast = Cast(h.origin, h.way, ToDict(h.ctx), topic, h.at \notin PluginOf)
    OBVIOUS
  <1>b. PICK g : g = [h EXCEPT !.sent = TRUE, !.to = cast.to]
    OBVIOUS
  <1>1. /\ ~ h.sent /\ casts' = casts \cup {m \in {cast} : m.to # {}}
        /\ holding' = (holding \ {h}) \cup {g}
        /\ starts' = starts /\ ended' = ended /\ listening' = listening
        /\ sessions' = sessions
    BY <1>a, <1>b DEF SendTo
  <1>2. /\ starts \in [Program -> 0 .. MaxStarts] /\ ended \subseteq Program
        /\ \A q \in PluginOf : starts[q] <= 1
        /\ sessions \in 0 .. MaxSessions
        /\ \A c \in listening : Started(c) /\ c.program \notin ended
        /\ \A i \in holding : HoldingTypeOK(i)
        /\ \A m \in casts : CastTypeOK(m)
    BY DEF RpcInv, RpcTypeOK
  <1>3. /\ RpcTypeOK /\ CastsSound /\ SendersSound /\ HeldOnce /\ UnsentFresh /\ PendingFresh
        /\ CopyBeside /\ IdentityKept /\ AdminByCopyOnly /\ SessionsApart /\ NothingMissed
    BY DEF RpcInv, WaysSound
  <1>4. /\ DOMAIN cast = {"origin", "way", "dict", "fanout", "to"} /\ cast.origin = h.origin
        /\ cast.way = h.way /\ cast.dict = ToDict(h.ctx)
        /\ cast.fanout = (h.at \notin PluginOf) /\ cast.to = Listeners(topic)
    BY <1>a DEF Cast
  <1>5. DOMAIN h = {"at", "origin", "way", "ctx", "to", "sent"}
    BY <1>2 DEF HoldingTypeOK
  <1>6. /\ DOMAIN g = DOMAIN h /\ g.at = h.at /\ g.origin = h.origin /\ g.way = h.way
        /\ g.ctx = h.ctx /\ g.sent = TRUE /\ g.to = cast.to
    BY <1>b, <1>5
  <1>7. cast.to \subseteq listening
    BY <1>4 DEF Listeners
  <1>8. /\ \A i \in holding' : \E j \in holding :
             /\ i.at = j.at /\ i.origin = j.origin /\ i.way = j.way
             /\ (i = j /\ j # h) \/ (i = g /\ j = h)
        /\ \A j \in holding : \E i \in holding' :
             i.at = j.at /\ i.origin = j.origin /\ i.way = j.way
        /\ \A i, j \in holding' : i.way = j.way => i = j
        /\ HandledOnce'
    <2>1. /\ holding' = (holding \ {h}) \cup {g} /\ g.at = h.at /\ g.origin = h.origin
          /\ g.way = h.way
      BY <1>1, <1>6
    <2>. QED
      BY <2>1, Replaced, Zenon
  <1>9. \A i \in holding' : \E j \in holding :
           i.at = j.at /\ i.origin = j.origin /\ i.way = j.way /\ i.ctx = j.ctx
    BY <1>6, <1>8
  <1>10. \A x \in Everything' : \E y \in Everything : x.way = y.way /\ x.origin = y.origin
    <2>1. \A x \in casts' : x \in casts \/ x = cast
      BY <1>1
    <2>2. h \in Everything /\ casts \subseteq Everything /\ holding \subseteq Everything
      BY DEF Everything
    <2>. QED
      BY <1>4, <1>9, <2>1, <2>2 DEF Everything
  <1>11. /\ \A m \in casts' : m \in casts \/ (m = cast /\ cast.to # {})
         /\ casts \subseteq casts' /\ (cast.to # {} => cast \in casts')
    BY <1>1
  <1>12. h.origin \in Origins /\ h.way \in Seq(Hop) /\ h.way \in Seq(Consumer \cup {Copied})
    BY <1>2 DEF HoldingTypeOK, Hop
  <1>13. RpcTypeOK'
    <2>1. \A i \in holding \ {h} : HoldingTypeOK(i)'
      BY <1>1, <1>2 DEF HoldingTypeOK, Started
    <2>2. HoldingTypeOK(g)'
      <3>1. \A c \in g.to : Started(c)'
        BY <1>1, <1>2, <1>6, <1>7 DEF Started
      <3>2. HoldingTypeOK(h)
        BY <1>2
      <3>. QED
        BY <1>1, <1>5, <1>6, <3>1, <3>2 DEF HoldingTypeOK
    <2>3. \A m \in casts : CastTypeOK(m)'
      BY <1>1, <1>2 DEF CastTypeOK
    <2>4. cast.to # {} => CastTypeOK(cast)'
      BY <1>1, <1>4, <1>7, <1>12 DEF CastTypeOK
    <2>5. \A m \in casts' : CastTypeOK(m)'
      BY <1>11, <2>3, <2>4
    <2>. QED
      BY <1>1, <1>2, <2>1, <2>2, <2>5 DEF RpcTypeOK, Started
  <1>14. CastsSound'
    <2>1. IdentityOf(h.ctx, h.origin) /\ AdminOf(h.ctx, h.origin, h.way)
      BY <1>3 DEF IdentityKept, AdminByCopyOnly
    <2>2. /\ IdentityOf(Deserialize(ToDict(h.ctx), h.origin), h.origin)
          /\ AdminOf(Deserialize(ToDict(h.ctx), h.origin), h.origin, h.way)
      BY <2>1, Passed
    <2>. QED
      BY <1>3, <1>4, <1>11, <2>2 DEF CastsSound
  <1>15. SendersSound'
    <2>1. \A x, y \in (holding \cup casts)' : x.origin = y.origin
      BY <1>3, <1>10 DEF SendersSound, Everything
    <2>2. h.at \notin PluginOf <=> Fanned(h.origin, h.way)
      BY <1>3 DEF SendersSound
    <2>3. cast.fanout => \A c \in cast.to : c.program \in PluginOf
      BY <1>3, <1>4, ListenersOfPlugin
    <2>4. \A m \in casts' : /\ m.fanout <=> Fanned(m.origin, m.way)
                            /\ m.fanout => \A c \in m.to : c.program \in PluginOf
      <3>1. cast.fanout <=> Fanned(cast.origin, cast.way)
        BY <1>4, <2>2
      <3>2. \A m \in casts : /\ m.fanout <=> Fanned(m.origin, m.way)
                             /\ m.fanout => \A c \in m.to : c.program \in PluginOf
        BY <1>3 DEF SendersSound
      <3>. QED
        BY <1>11, <2>3, <3>1, <3>2
    <2>5. \A i \in holding' : i.to # {} => i.sent
      BY <1>1, <1>3, <1>6 DEF SendersSound
    <2>. QED
      BY <1>3, <1>9, <2>1, <2>4, <2>5 DEF SendersSound
  <1>16. HeldOnce'
    <2>1. \A m \in casts : m.way # cast.way
      BY <1>1, <1>3, <1>4 DEF UnsentFresh
    <2>2. \A m, n \in casts' : m.way = n.way => m = n
      BY <1>3, <1>11, <2>1 DEF HeldOnce
    <2>. QED
      BY <1>8, <2>2 DEF HeldOnce
  <1>17. UnsentFresh'
    <2>. SUFFICES ASSUME NEW i \in holding', ~ i.sent
                  PROVE  /\ \A m \in casts' : m.way # i.way
                         /\ \A x \in Everything' : ~ Beyond(x.way, i.way)
      BY DEF UnsentFresh
    <2>1. i \in holding /\ i # h
      BY <1>1, <1>6
    <2>2. i.way # cast.way
      BY <1>3, <1>4, <2>1 DEF HeldOnce
    <2>3. \A m \in casts' : m.way # i.way
      BY <1>3, <1>11, <2>1, <2>2 DEF UnsentFresh
    <2>4. \A x \in Everything : ~ Beyond(x.way, i.way)
      BY <1>3, <2>1 DEF UnsentFresh
    <2>. QED
      BY <1>10, <2>3, <2>4
  <1>18. PendingFresh'
    <2>1. \A y \in Everything : ~ Beyond(y.way, h.way)
      BY <1>1, <1>3 DEF UnsentFresh
    <2>2. \A y \in Everything : y.way \in Seq(Hop)
      BY <1>3, WayFacts
    <2>3. ASSUME NEW c \in cast.to, NEW y \in Everything
          PROVE  ~ Follows(y.way, Append(h.way, c))
      <3>1. c \in Hop /\ c # Copied
        BY <1>2, <1>7, ConsumerFacts DEF Started, Hop
      <3>2. Follows(y.way, Append(h.way, c))
            <=> /\ Follows(y.way, h.way) /\ Len(h.way) < Len(y.way)
                /\ y.way[Len(h.way) + 1] = c
        <4>1. y.way \in Seq(Hop) /\ h.way \in Seq(Hop) /\ c \in Hop
          BY <1>12, <2>2, <3>1
        <4>. QED
          BY <4>1, FollowsAppend
      <3>. QED
        BY <2>1, <3>1, <3>2 DEF Beyond
    <2>4. ASSUME NEW m \in casts', NEW y \in Everything
          PROVE  /\ \A c \in m.to : ~ Follows(y.way, Append(m.way, c))
                 /\ ~ m.fanout => ~ Beyond(y.way, m.way)
      <3>1. CASE m \in casts
        BY <1>3, <3>1 DEF PendingFresh
      <3>2. CASE m = cast
        BY <1>4, <2>1, <2>3, <3>2
      <3>. QED
        BY <1>11, <3>1, <3>2
    <2>. QED
      BY <1>10, <2>4 DEF PendingFresh
  <1>19. CopyBeside'
    <2>. SUFFICES ASSUME NEW i \in holding', NEW x \in Everything',
                         i.way = << >>, x.way # << >>, x.way[1] = Copied
                  PROVE  \E k \in holding' : k.way = <<Copied>> /\ k.at = i.at
      BY DEF CopyBeside
    <2>1. PICK j \in holding : i.way = j.way /\ i.at = j.at
      BY <1>9
    <2>2. PICK y \in Everything : x.way = y.way
      BY <1>10
    <2>3. PICK k \in holding : k.way = <<Copied>> /\ k.at = j.at
      BY <1>3, <2>1, <2>2 DEF CopyBeside
    <2>. QED
      BY <1>8, <2>1, <2>3
  <1>20. (IdentityKept /\ AdminByCopyOnly)'
    BY <1>3, <1>9 DEF IdentityKept, AdminByCopyOnly
  <1>21. SessionsApart'
    <2>1. SessionsApart
      BY <1>3
    <2>. SUFFICES ASSUME NEW i \in holding', NEW j \in holding', i.ctx.session # 0,
                         i.ctx.session = j.ctx.session
                  PROVE  i.origin = j.origin /\ Received(i.way) = Received(j.way)
      BY DEF SessionsApart
    <2>2. PICK v \in holding : i.origin = v.origin /\ i.way = v.way /\ i.ctx = v.ctx
      BY <1>9
    <2>3. PICK w \in holding : j.origin = w.origin /\ j.way = w.way /\ j.ctx = w.ctx
      BY <1>9
    <2>4. v.origin = w.origin /\ Received(v.way) = Received(w.way)
      BY <2>1, <2>2, <2>3 DEF SessionsApart
    <2>. QED
      BY <2>2, <2>3, <2>4
  <1>22. NothingMissed'
    <2>. SUFFICES ASSUME NEW i \in holding', NEW c \in i.to, c \in listening', i.at \notin PluginOf
                  PROVE  \/ \E j \in holding' : j.origin = i.origin /\ j.way = Append(i.way, c)
                         \/ \E m \in casts' : m.origin = i.origin /\ m.way = i.way /\ c \in m.to
      BY DEF NothingMissed
    <2>1. CASE i = g
      BY <1>4, <1>6, <1>11, <2>1
    <2>2. CASE i \in holding
      <3>1. \/ \E j \in holding : j.origin = i.origin /\ j.way = Append(i.way, c)
            \/ \E m \in casts : m.origin = i.origin /\ m.way = i.way /\ c \in m.to
        BY <1>1, <1>3, <2>2 DEF NothingMissed
      <3>. QED
        BY <1>8, <1>11, <3>1
    <2>. QED
      BY <1>1, <2>1, <2>2
  <1>. QED
    BY <1>8, <1>13, <1>14, <1>15, <1>16, <1>17, <1>18, <1>19, <1>20, <1>21, <1>22
       DEF RpcInv, WaysSound

(* A consumer that takes a cast begins a way that nobody is on: of a cast  *)
(* to one it is the only one, of a cast to all it is the plugin's only one.*)
LEMMA DeliverKept ==
  ASSUME RpcInv, NEW m \in casts, NEW c \in m.to, Deliver(m, c)
  PROVE  RpcInv'
  <1>a. PICK g : g = Holding(c.program, m.origin, Append(m.way, c),
                             Deserialize(m.dict, m.origin))
    OBVIOUS
  <1>b. PICK n : n = [m EXCEPT !.to = Left(m, c)]
    OBVIOUS
  <1>1. /\ casts' = (casts \ {m}) \cup {k \in {n} : k.to # {}}
        /\ holding' = holding \cup {g}
        /\ starts' = starts /\ ended' = ended /\ listening' = listening
        /\ sessions' = sessions
    BY <1>a, <1>b DEF Deliver
  <1>2. /\ starts \in [Program -> 0 .. MaxStarts] /\ ended \subseteq Program
        /\ \A q \in PluginOf : starts[q] <= 1
        /\ sessions \in 0 .. MaxSessions
        /\ \A d \in listening : Started(d) /\ d.program \notin ended
        /\ \A i \in holding : HoldingTypeOK(i)
        /\ \A q \in casts : CastTypeOK(q)
    BY DEF RpcInv, RpcTypeOK
  <1>3. /\ RpcTypeOK /\ CastsSound /\ SendersSound /\ HeldOnce /\ UnsentFresh /\ PendingFresh
        /\ CopyBeside /\ IdentityKept /\ AdminByCopyOnly /\ SessionsApart /\ HandledOnce
        /\ NothingMissed
    BY DEF RpcInv, WaysSound
  <1>4. /\ c \in Consumer /\ c \in Hop /\ c # Copied /\ c.program \in Program \ ended
        /\ c \in listening
    <2>1. c \in listening /\ c \in Consumer /\ c.program \notin ended
      BY <1>2 DEF CastTypeOK, Started
    <2>. QED
      BY <2>1, ConsumerFacts DEF Hop
  <1>5. /\ DOMAIN m = {"origin", "way", "dict", "fanout", "to"} /\ m.way \in Seq(Hop)
        /\ m.origin \in Origins /\ m.fanout \in BOOLEAN /\ m.to \subseteq listening
    BY <1>2 DEF CastTypeOK, Hop
  <1>6. /\ DOMAIN n = DOMAIN m /\ n.origin = m.origin /\ n.way = m.way /\ n.dict = m.dict
        /\ n.fanout = m.fanout /\ n.to = Left(m, c)
    BY <1>b, <1>5
  <1>7. /\ n.to \subseteq m.to \ {c} /\ (n.to # {} => m.fanout)
        /\ m.fanout => n.to = m.to \ {c}
    BY <1>6 DEF Left
  <1>8. /\ DOMAIN g = {"at", "origin", "way", "ctx", "to", "sent"} /\ g.at = c.program
        /\ g.origin = m.origin /\ g.way = Append(m.way, c) /\ g.to = {} /\ g.sent = FALSE
        /\ g.ctx = Deserialize(m.dict, m.origin)
    BY <1>a DEF Holding
  <1>9. /\ Append(m.way, c) \in Seq(Hop) /\ Append(m.way, c) # << >>
        /\ Last(Append(m.way, c)) = c /\ Front(Append(m.way, c)) = m.way
        /\ Range(m.way) \subseteq Range(Append(m.way, c))
    BY <1>4, <1>5, AppendLast
  <1>10. DOMAIN g.ctx = ContextFields /\ g.ctx.session = 0
    BY <1>8 DEF Deserialize, NewContext, ContextFields
  <1>11. \A k \in casts' : (k \in casts /\ k # m) \/ (k = n /\ n.to # {})
    BY <1>1
  <1>12. \A k \in casts : k # m => k \in casts'
    BY <1>1
  <1>13. n.to # {} => n \in casts'
    BY <1>1
  <1>14. \A x \in Everything' : x = g \/ \E y \in Everything : x.way = y.way /\ x.origin = y.origin
    BY <1>1, <1>6, <1>11 DEF Everything
  <1>15. m \in Everything /\ casts \subseteq Everything /\ holding \subseteq Everything
    BY DEF Everything
  <1>16. \A x \in Everything : x.way \in Seq(Hop) /\ x.origin = m.origin
    BY <1>3, <1>15, WayFacts DEF SendersSound, Everything
  <1>17. \A x \in Everything : /\ ~ Follows(x.way, g.way) /\ x.way # g.way
                               /\ ~ Beyond(x.way, g.way)
    <2>1. \A x \in Everything : ~ Follows(x.way, g.way)
      BY <1>3, <1>8 DEF PendingFresh
    <2>2. Follows(g.way, g.way)
      BY <1>8, <1>9 DEF Follows
    <2>. QED
      BY <2>1, <2>2 DEF Beyond
  <1>18. \A w \in Seq(Hop) :
           /\ Follows(g.way, w) => Follows(m.way, w) \/ g.way = w
           /\ Beyond(g.way, w) => Beyond(m.way, w) \/ m.way = w
    BY <1>4, <1>5, <1>8, AppendFollows
  <1>19. RpcTypeOK'
    <2>1. \A i \in holding : HoldingTypeOK(i)'
      BY <1>1, <1>2 DEF HoldingTypeOK, Started
    <2>2. HoldingTypeOK(g)'
      <3>1. 0 \in 0 .. sessions
        BY <1>2
      <3>2. g.way \in Seq(Consumer \cup {Copied})
        BY <1>8, <1>9 DEF Hop
      <3>. QED
        BY <1>1, <1>4, <1>5, <1>8, <1>10, <3>1, <3>2 DEF HoldingTypeOK
    <2>3. \A k \in casts : CastTypeOK(k)'
      BY <1>1, <1>2 DEF CastTypeOK
    <2>4. n.to # {} => CastTypeOK(n)'
      <3>1. n.way \in Seq(Consumer \cup {Copied})
        BY <1>5, <1>6 DEF Hop
      <3>. QED
        BY <1>1, <1>5, <1>6, <1>7, <3>1 DEF CastTypeOK
    <2>5. \A k \in casts' : CastTypeOK(k)'
      BY <1>11, <2>3, <2>4
    <2>6. \A i \in holding' : HoldingTypeOK(i)'
      BY <1>1, <2>1, <2>2
    <2>. QED
      BY <1>1, <1>2, <2>5, <2>6 DEF RpcTypeOK, Started
  <1>20. CastsSound'
    <2>1. \A k \in casts' : \E q \in casts :
             k.dict = q.dict /\ k.origin = q.origin /\ k.way = q.way
      BY <1>6, <1>11
    <2>. QED
      BY <1>3, <2>1 DEF CastsSound
  <1>21. g.at \notin PluginOf <=> Fanned(g.origin, g.way)
    BY <1>4, <1>8, <1>9 DEF Fanned
  <1>22. /\ m.fanout <=> Fanned(m.origin, m.way)
         /\ m.fanout => \A d \in m.to : d.program \in PluginOf
    BY <1>3 DEF SendersSound
  <1>23. SendersSound'
    <2>1. \A x \in Everything' : x.origin = m.origin
      BY <1>8, <1>14, <1>16
    <2>2. \A x, y \in (holding \cup casts)' : x.origin = y.origin
      BY <2>1 DEF Everything
    <2>3. \A k \in casts' : /\ k.fanout <=> Fanned(k.origin, k.way)
                            /\ k.fanout => \A d \in k.to : d.program \in PluginOf
      <3>1. /\ n.fanout <=> Fanned(n.origin, n.way)
            /\ n.fanout => \A d \in n.to : d.program \in PluginOf
        BY <1>6, <1>7, <1>22
      <3>2. \A k \in casts : /\ k.fanout <=> Fanned(k.origin, k.way)
                             /\ k.fanout => \A d \in k.to : d.program \in PluginOf
        BY <1>3 DEF SendersSound
      <3>. QED
        BY <1>11, <3>1, <3>2
    <2>4. Last(g.way) = g.at \/ Last(g.way).program = g.at
      BY <1>8, <1>9
    <2>5. Fanned(g.origin, Front(g.way)) => g.at \in PluginOf
      BY <1>8, <1>9, <1>22
    <2>6. /\ g.way # << >> /\ Last(g.way) # Copied => g.at = Last(g.way).program
          /\ g.to # {} => g.sent
      BY <1>8, <1>9
    <2>7. holding' = holding \cup {g}
      BY <1>1
    <2>8. SendersSound
      BY <1>3
    <2>. QED
      BY <1>21, <2>2, <2>3, <2>5, <2>6, <2>7, <2>8 DEF SendersSound
  <1>24. HeldOnce'
    <2>1. \A i \in holding : i.way # g.way
      BY <1>15, <1>17
    <2>2. \A i, j \in holding' : i.way = j.way => i = j
      BY <1>1, <1>3, <2>1 DEF HeldOnce
    <2>3. \A k \in casts : k # m => k.way # n.way
      BY <1>3, <1>6 DEF HeldOnce
    <2>4. \A k, l \in casts' : k.way = l.way => k = l
      BY <1>3, <1>11, <2>3 DEF HeldOnce
    <2>. QED
      BY <2>2, <2>4 DEF HeldOnce
  <1>25. UnsentFresh'
    <2>. SUFFICES ASSUME NEW i \in holding', ~ i.sent
                  PROVE  /\ \A k \in casts' : k.way # i.way
                         /\ \A x \in Everything' : ~ Beyond(x.way, i.way)
      BY DEF UnsentFresh
    <2>1. CASE i = g
      <3>1. \A k \in casts' : k.way # g.way
        BY <1>6, <1>11, <1>15, <1>17
      <3>2. ~ Beyond(g.way, g.way)
        BY <1>8, <1>9 DEF Beyond
      <3>3. \A x \in Everything' : ~ Beyond(x.way, g.way)
        BY <1>14, <1>17, <3>2
      <3>. QED
        BY <2>1, <3>1, <3>3
    <2>2. CASE i \in holding
      <3>1. /\ \A k \in casts : k.way # i.way
            /\ \A x \in Everything : ~ Beyond(x.way, i.way)
        BY <1>3, <2>2 DEF UnsentFresh
      <3>2. i.way \in Seq(Hop)
        BY <1>15, <1>16, <2>2
      <3>3. ~ Beyond(g.way, i.way)
        BY <1>15, <1>18, <3>1, <3>2
      <3>4. \A k \in casts' : k.way # i.way
        BY <1>6, <1>11, <3>1
      <3>. QED
        BY <1>14, <3>1, <3>3, <3>4
    <2>. QED
      BY <1>1, <2>1, <2>2
  <1>26. PendingFresh'
    <2>1. ASSUME NEW k \in casts, NEW x \in Everything
          PROVE  /\ \A d \in k.to : ~ Follows(x.way, Append(k.way, d))
                 /\ ~ k.fanout => ~ Beyond(x.way, k.way)
      BY <1>3 DEF PendingFresh
    <2>2. \A k \in casts : k.way \in Seq(Hop) /\ \A d \in k.to : d \in Hop
      BY <1>3, <1>15, WayFacts DEF Hop
    <2>3. ASSUME NEW k \in casts, k # m
          PROVE  /\ \A d \in k.to : ~ Follows(g.way, Append(k.way, d))
                 /\ ~ k.fanout => ~ Beyond(g.way, k.way)
      <3>1. k.way # m.way
        BY <1>3, <2>3 DEF HeldOnce
      <3>2. ASSUME NEW d \in k.to PROVE ~ Follows(g.way, Append(k.way, d))
        <4>1. /\ Append(k.way, d) \in Seq(Hop) /\ Front(Append(k.way, d)) = k.way
          BY <2>2, <3>2, AppendLast
        <4>2. g.way # Append(k.way, d)
          BY <1>8, <1>9, <3>1, <4>1
        <4>3. ~ Follows(m.way, Append(k.way, d))
          BY <1>15, <2>1, <3>2
        <4>. QED
          BY <1>18, <4>1, <4>2, <4>3
      <3>3. ~ k.fanout => ~ Beyond(g.way, k.way)
        BY <1>15, <1>18, <2>1, <2>2, <3>1
      <3>. QED
        BY <3>2, <3>3
    <2>4. ASSUME NEW d \in n.to PROVE ~ Follows(g.way, Append(n.way, d))
      <3>1. d \in Hop /\ d # c
        BY <1>7, <2>2, <2>4
      <3>2. Append(m.way, d) \in Seq(Hop) /\ Last(Append(m.way, d)) = d
        BY <1>5, <3>1, AppendLast
      <3>3. g.way # Append(m.way, d)
        BY <1>8, <1>9, <3>1, <3>2
      <3>4. ~ Follows(m.way, Append(m.way, d))
        BY <1>7, <1>15, <2>1, <2>4
      <3>. QED
        BY <1>6, <1>18, <3>2, <3>3, <3>4
    <2>. SUFFICES ASSUME NEW k \in casts', NEW x \in Everything'
                  PROVE  /\ \A d \in k.to : ~ Follows(x.way, Append(k.way, d))
                         /\ ~ k.fanout => ~ Beyond(x.way, k.way)
      BY DEF PendingFresh
    <2>5. CASE k \in casts /\ k # m
      BY <1>14, <2>1, <2>3, <2>5
    <2>6. CASE k = n /\ n.to # {}
      <3>1. \A y \in Everything : \A d \in n.to : ~ Follows(y.way, Append(n.way, d))
        BY <1>6, <1>7, <2>1
      <3>. QED
        BY <1>6, <1>7, <1>14, <2>4, <2>6, <3>1
    <2>. QED
      BY <1>11, <2>5, <2>6
  <1>27. CopyBeside'
    <2>. SUFFICES ASSUME NEW i \in holding', NEW x \in Everything',
                         i.way = << >>, x.way # << >>, x.way[1] = Copied
                  PROVE  \E k \in holding' : k.way = <<Copied>> /\ k.at = i.at
      BY DEF CopyBeside
    <2>1. i \in holding
      BY <1>1, <1>8, <1>9
    <2>2. PICK y \in Everything : y.way # << >> /\ y.way[1] = Copied
      <3>1. CASE x = g
        <4>1. m.way # << >>
          BY <1>4, <1>5, <1>8, <3>1
        <4>2. g.way[1] = m.way[1]
          BY <1>4, <1>5, <1>8, <4>1, EmptySeq
        <4>. QED
          BY <1>15, <3>1, <4>1, <4>2
      <3>2. CASE x # g
        BY <1>14, <3>2
      <3>. QED
        BY <3>1, <3>2
    <2>3. PICK k \in holding : k.way = <<Copied>> /\ k.at = i.at
      BY <1>3, <2>1, <2>2 DEF CopyBeside
    <2>. QED
      BY <1>1, <2>3
  <1>28. (IdentityKept /\ AdminByCopyOnly)'
    <2>1. IdentityOf(g.ctx, g.origin) /\ AdminOf(g.ctx, g.origin, m.way)
      BY <1>3, <1>8 DEF CastsSound
    <2>2. AdminOf(g.ctx, g.origin, g.way)
      BY <1>8, <1>9, <2>1 DEF AdminOf
    <2>. QED
      BY <1>1, <1>3, <2>1, <2>2 DEF IdentityKept, AdminByCopyOnly
  <1>29. SessionsApart'
    <2>1. SessionsApart /\ holding' = holding \cup {g} /\ g.ctx.session = 0
      BY <1>1, <1>3, <1>10
    <2>. QED
      BY <2>1 DEF SessionsApart
  <1>30. HandledOnce'
    <2>1. ASSUME NEW i \in holding, i.way # << >>, Front(i.way) = m.way, Last(i.way) # Copied
          PROVE  i.at # g.at /\ i.at \in PluginOf /\ g.at \in PluginOf
      <3>1. i.way \in Seq(Hop) /\ i.origin = m.origin
        BY <1>15, <1>16
      <3>2. Last(i.way) \in Hop /\ i.way = Append(m.way, Last(i.way))
        BY <2>1, <3>1, FrontLast
      <3>3. Len(i.way) = Len(m.way) + 1 /\ i.way[Len(m.way) + 1] = Last(i.way)
        BY <1>5, <3>2
      <3>4. Follows(i.way, m.way)
        BY <1>5, <3>2 DEF Follows
      <3>5. Beyond(i.way, m.way)
        BY <1>5, <2>1, <3>3, <3>4 DEF Beyond
      <3>6. m.fanout
        BY <1>3, <1>15, <3>5 DEF PendingFresh
      <3>7. i.at \in PluginOf /\ i.at = Last(i.way).program
        BY <1>3, <1>22, <2>1, <3>1, <3>6 DEF SendersSound
      <3>8. g.at \in PluginOf
        BY <1>8, <1>22, <3>6
      <3>9. ASSUME i.at = g.at PROVE FALSE
        <4>1. Last(i.way) \in Consumer
          BY <2>1, <3>2 DEF Hop
        <4>2. Last(i.way) = c
          BY <1>4, <1>8, <3>7, <3>8, <3>9, <4>1, OneOfPlugin
        <4>. QED
          BY <1>8, <1>15, <1>17, <3>2, <4>2
      <3>. QED
        BY <3>7, <3>8, <3>9
    <2>2. g.way # << >> /\ Front(g.way) = m.way /\ Last(g.way) # Copied
      BY <1>4, <1>8, <1>9
    <2>3. holding' = holding \cup {g}
      BY <1>1
    <2>4. HandledOnce
      BY <1>3
    <2>. SUFFICES ASSUME NEW i \in holding', NEW j \in holding', SameCast(i, j)
                  PROVE  i.at # j.at /\ {i.at, j.at} \subseteq PluginOf
      BY DEF HandledOnce
    <2>5. /\ i # j /\ Len(i.way) = Len(j.way) /\ i.way # << >> /\ Front(i.way) = Front(j.way)
          /\ Last(i.way) # Copied /\ Last(j.way) # Copied
      BY DEF SameCast
    <2>6. j.way # << >>
      <3>1. i.way \in Seq(Hop) /\ j.way \in Seq(Hop)
        BY <1>8, <1>9, <1>15, <1>16, <2>3
      <3>. QED
        BY <2>5, <3>1, EmptySeq
    <2>7. CASE i = g /\ j \in holding
      BY <2>1, <2>2, <2>5, <2>6, <2>7
    <2>8. CASE j = g /\ i \in holding
      BY <2>1, <2>2, <2>5, <2>8
    <2>9. CASE i \in holding /\ j \in holding
      BY <2>4, <2>9 DEF HandledOnce
    <2>. QED
      BY <2>3, <2>5, <2>7, <2>8, <2>9
  <1>31. NothingMissed'
    <2>. SUFFICES ASSUME NEW i \in holding', NEW d \in i.to, d \in listening', i.at \notin PluginOf
                  PROVE  \/ \E j \in holding' : j.origin = i.origin /\ j.way = Append(i.way, d)
                         \/ \E k \in casts' : k.origin = i.origin /\ k.way = i.way /\ d \in k.to
      BY DEF NothingMissed
    <2>1. i \in holding /\ d \in listening
      BY <1>1, <1>8
    <2>2. \/ \E j \in holding : j.origin = i.origin /\ j.way = Append(i.way, d)
          \/ \E k \in casts : k.origin = i.origin /\ k.way = i.way /\ d \in k.to
      BY <1>3, <2>1 DEF NothingMissed
    <2>3. CASE \E j \in holding : j.origin = i.origin /\ j.way = Append(i.way, d)
      BY <1>1, <2>3
    <2>4. ASSUME NEW k \in casts, k.origin = i.origin, k.way = i.way, d \in k.to
          PROVE  \/ \E j \in holding' : j.origin = i.origin /\ j.way = Append(i.way, d)
                 \/ \E q \in casts' : q.origin = i.origin /\ q.way = i.way /\ d \in q.to
      <3>1. CASE k # m
        BY <1>12, <2>4, <3>1
      <3>2. CASE k = m /\ d = c
        BY <1>1, <1>8, <2>4, <3>2
      <3>3. CASE k = m /\ d # c
        <4>1. Fanned(i.origin, i.way)
          BY <1>3, <2>1 DEF SendersSound
        <4>2. m.fanout
          BY <1>22, <2>4, <3>3, <4>1
        <4>3. d \in n.to
          BY <1>7, <2>4, <3>3, <4>2
        <4>. QED
          BY <1>6, <1>13, <2>4, <3>3, <4>3
      <3>. QED
        BY <3>1, <3>2, <3>3
    <2>. QED
      BY <2>2, <2>3, <2>4
  <1>. QED
    BY <1>19, <1>20, <1>23, <1>24, <1>25, <1>26, <1>27, <1>28, <1>29, <1>30, <1>31
       DEF RpcInv, WaysSound

(* Every step of the bus keeps the invariant, and so does one beside it.   *)
LEMMA RpcKept == RpcInv /\ [RpcNext]_rpcVars => RpcInv'
  <1>1. ASSUME RpcInv, UNCHANGED rpcVars PROVE RpcInv'
    <2>1. /\ starts' = starts /\ ended' = ended /\ listening' = listening /\ casts' = casts
          /\ holding' = holding /\ sessions' = sessions
      BY <1>1 DEF rpcVars
    <2>2. RpcTypeOK'
      <3>1. RpcTypeOK
        BY <1>1 DEF RpcInv
      <3>2. \A h \in holding : HoldingTypeOK(h)'
        BY <2>1, <3>1 DEF RpcTypeOK, HoldingTypeOK, Started
      <3>3. \A m \in casts : CastTypeOK(m)'
        BY <2>1, <3>1 DEF RpcTypeOK, CastTypeOK
      <3>. QED
        BY <2>1, <3>1, <3>2, <3>3 DEF RpcTypeOK, Started
    <2>3. (CastsSound /\ SendersSound /\ WaysSound)'
      BY <1>1, <2>1 DEF RpcInv, CastsSound, SendersSound, WaysSound, HeldOnce, UnsentFresh,
                        PendingFresh, CopyBeside, Everything
    <2>4. (IdentityKept /\ AdminByCopyOnly /\ SessionsApart /\ HandledOnce /\ NothingMissed)'
      BY <1>1, <2>1 DEF RpcInv, IdentityKept, AdminByCopyOnly, SessionsApart, HandledOnce,
                        NothingMissed
    <2>. QED
      BY <2>2, <2>3, <2>4 DEF RpcInv
  <1>. SUFFICES ASSUME RpcInv, RpcNext PROVE RpcInv'
    BY <1>1
  <1>2. ASSUME NEW p \in Program, StartConsumers(p) PROVE RpcInv'
    BY <1>2, StartConsumersKept
  <1>3. ASSUME NEW p \in Program, ProcessEnds(p) PROVE RpcInv'
    BY <1>3, ProcessEndsKept
  <1>4. ASSUME NEW p \in Program, NEW r \in DOMAIN Asking \cup Program, Ask(p, r) PROVE RpcInv'
    BY <1>4, AskKept
  <1>5. ASSUME NEW p \in Program, NEW r \in DOMAIN Outdated, SendOutdated(r, p) PROVE RpcInv'
    BY <1>5, SendOutdatedKept
  <1>6. ASSUME NEW p \in Program, NEW h \in holding, SendCast(h, p) PROVE RpcInv'
    BY <1>6, SendToKept DEF SendCast
  <1>7. ASSUME NEW p \in Program, NEW h \in holding, SendAck(h, p) PROVE RpcInv'
    BY <1>7, SendToKept DEF SendAck
  <1>8. ASSUME NEW h \in holding, SessionAsked(h) PROVE RpcInv'
    BY <1>8, SessionAskedKept
  <1>9. ASSUME NEW h \in holding, Elevate(h) PROVE RpcInv'
    BY <1>9, ElevateKept
  <1>10. ASSUME NEW m \in casts, NEW c \in m.to, Deliver(m, c) PROVE RpcInv'
    BY <1>10, DeliverKept
  <1>. QED
    BY <1>2, <1>3, <1>4, <1>5, <1>6, <1>7, <1>8, <1>9, <1>10 DEF RpcNext

(***************************************************************************)
(* ServiceUpdate                                                           *)
(***************************************************************************)

LEMMA UpdateStarts == UpdateInit => UpdateInv
  <1> SUFFICES ASSUME UpdateInit PROVE UpdateInv
    OBVIOUS
  <1>1. UpdateTypeOK
    <2>1. NotAsking \in UpdateRequests
      BY DEF NotAsking, UpdateRequests
    <2>2. restarts \in 0 .. MaxRestarts
      BY UpdateAssumption DEF UpdateInit
    <2>. QED
      BY <2>1, <2>2 DEF UpdateInit, UpdateTypeOK
  <1>2. ProxyHeld /\ MessagesMeant /\ LaunchesMeant
    BY DEF UpdateInit, ProxyHeld, MessagesMeant, LaunchesMeant, NotAsking
  <1>. QED
    BY <1>1, <1>2 DEF UpdateInv

(* A request that goes on keeps what it asks; one that is answered is over.*)
LEMMA RequestGoesOn ==
  ASSUME UpdateTypeOK, NEW c \in Asker, asked[c].pc \in {"begun", "read", "casting"},
         NEW at \in {"read", "casting"}, GoesOn(c, at)
  PROVE  /\ asked' \in [Asker -> UpdateRequests]
         /\ \A d \in Asker : d # c => asked'[d] = asked[d]
         /\ asked'[c].pc = at /\ asked'[c].of = asked[c].of /\ asked'[c].vdu = asked[c].vdu
  <1>. DEFINE new == [asked[c] EXCEPT !.pc = at]
  <1>1. asked \in [Asker -> UpdateRequests] /\ asked[c] \in UpdateRequests
    BY DEF UpdateTypeOK
  <1>2. asked[c] \in [pc : {"begun", "read", "casting"}, of : Owner, vdu : AskedVdu, way : WayIn]
    BY <1>1 DEF UpdateRequests, UpdateOutcomes
  <1>3. /\ new \in [pc : {"begun", "read", "casting"}, of : Owner, vdu : AskedVdu, way : WayIn]
        /\ new.pc = at /\ new.of = asked[c].of /\ new.vdu = asked[c].vdu
    BY <1>2
  <1>4. new \in UpdateRequests
    BY <1>3 DEF UpdateRequests
  <1>5. asked' = [asked EXCEPT ![c] = new]
    BY DEF GoesOn
  <1>. HIDE DEF new
  <1>. QED
    BY <1>1, <1>3, <1>4, <1>5

LEMMA RequestAnswered ==
  ASSUME UpdateTypeOK, NEW c \in Asker, NEW ending \in UpdateOutcomes, AnsweredWith(c, ending)
  PROVE  /\ asked' \in [Asker -> UpdateRequests]
         /\ \A d \in Asker : d # c => asked'[d] = asked[d]
         /\ asked'[c].pc = ending
  <1>. DEFINE new == [NotAsking EXCEPT !.pc = ending]
  <1>1. asked \in [Asker -> UpdateRequests]
    BY DEF UpdateTypeOK
  <1>2. new \in UpdateRequests /\ new.pc = ending
    BY DEF NotAsking, UpdateRequests
  <1>3. asked' = [asked EXCEPT ![c] = new]
    BY DEF AnsweredWith
  <1>. HIDE DEF new
  <1>. QED
    BY <1>1, <1>2, <1>3

LEMMA OngoingRequest ==
  ASSUME UpdateTypeOK, NEW c \in Asker, asked[c].pc \in {"begun", "read", "casting"}
  PROVE  asked[c].of \in Owner /\ asked[c].vdu \in AskedVdu
  <1>1. asked[c] \in UpdateRequests
    BY DEF UpdateTypeOK
  <1>. QED
    BY <1>1 DEF UpdateRequests, UpdateOutcomes

(* The steps of a deployment, a manager or a deletion of one service.      *)
LEMMA ServiceStepKept ==
  ASSUME UpdateInv, NEW o \in Owner,
         \/ RowCreated(o) \/ LaunchFails(o) \/ StartManager(o) \/ RecordProxy(o)
         \/ ManagerListens(o) \/ ManagerEnds(o)
         \/ DeleteVnfm(o) \/ DeletionFails(o) \/ RowRemoved(o)
  PROVE  UpdateInv'
  <1>1. UpdateTypeOK /\ ProxyHeld /\ MessagesMeant /\ LaunchesMeant
    BY DEF UpdateInv
  <1>2. UNCHANGED <<asked, restarts>>
    BY DEF RowCreated, LaunchFails, StartManager, RecordProxy, ManagerListens, ManagerEnds,
           DeleteVnfm, DeletionFails, RowRemoved, serviceVars
  <1>3. /\ rowState \in [Owner -> {"none", "here", "deleting", "gone"}]
        /\ launch \in [Owner -> {"none", "booting", "starting", "invoked", "over"}]
        /\ agentMapping \subseteq Owner
        /\ managerIs \in [Owner -> {"down", "starting", "ready"}]
        /\ managerInbox \subseteq [to : Owner, vdu : AskedVdu]
    BY <1>1 DEF UpdateTypeOK
  <1>4. /\ rowState' \in [Owner -> {"none", "here", "deleting", "gone"}]
        /\ launch' \in [Owner -> {"none", "booting", "starting", "invoked", "over"}]
        /\ agentMapping' \subseteq Owner
        /\ managerIs' \in [Owner -> {"down", "starting", "ready"}]
        /\ managerInbox' \subseteq managerInbox
    BY <1>3 DEF RowCreated, LaunchFails, StartManager, RecordProxy, ManagerListens, ManagerEnds,
                DeleteVnfm, DeletionFails, RowRemoved, serviceVars
  <1>5. UpdateTypeOK'
    BY <1>1, <1>2, <1>3, <1>4 DEF UpdateTypeOK
  <1>6. /\ \A p \in Owner \ {o} : /\ rowState'[p] = rowState[p] /\ launch'[p] = launch[p]
                                  /\ managerIs'[p] = managerIs[p]
                                  /\ p \in agentMapping' <=> p \in agentMapping
        /\ agentMapping \subseteq agentMapping'
    BY <1>3 DEF RowCreated, LaunchFails, StartManager, RecordProxy, ManagerListens, ManagerEnds,
                DeleteVnfm, DeletionFails, RowRemoved, serviceVars
  <1>7. /\ rowState[o] # "none" => rowState'[o] # "none"
        /\ launch'[o] = "invoked" => launch[o] = "invoked" \/ o \in agentMapping'
        /\ o \in agentMapping' => o \in agentMapping \/ launch[o] = "starting"
    BY <1>3 DEF RowCreated, LaunchFails, StartManager, RecordProxy, ManagerListens, ManagerEnds,
                DeleteVnfm, DeletionFails, RowRemoved, serviceVars
  <1>8. managerIs'[o] # "down" => launch'[o] \notin {"none", "booting"}
    BY <1>1, <1>3 DEF LaunchesMeant, RowCreated, LaunchFails, StartManager, RecordProxy,
           ManagerListens, ManagerEnds, DeleteVnfm, DeletionFails, RowRemoved, serviceVars
  <1>9. launch'[o] = "none" <=> rowState'[o] = "none"
    BY <1>1, <1>3 DEF LaunchesMeant, RowCreated, LaunchFails, StartManager, RecordProxy,
           ManagerListens, ManagerEnds, DeleteVnfm, DeletionFails, RowRemoved, serviceVars
  <1>10. ProxyHeld'
    <2>1. ASSUME NEW p \in Owner, launch'[p] = "invoked" PROVE p \in agentMapping'
      BY <2>1, <1>1, <1>6, <1>7 DEF ProxyHeld
    <2>2. ASSUME NEW p \in agentMapping' PROVE rowState'[p] # "none"
      BY <1>1, <1>4, <1>6, <1>7 DEF ProxyHeld, LaunchesMeant
    <2>. QED
      BY <2>1, <2>2 DEF ProxyHeld
  <1>11. MessagesMeant'
    <2>1. ASSUME NEW m \in managerInbox' PROVE managerIs'[m.to] = "ready"
      <3>1. m \in managerInbox /\ m.to \in Owner /\ managerIs[m.to] = "ready"
        BY <1>1, <1>3, <1>4 DEF MessagesMeant
      <3>2. CASE m.to # o
        BY <3>1, <3>2, <1>6
      <3>3. CASE m.to = o
        BY <3>1, <3>3, <2>1, <1>1, <1>3 DEF RowCreated, LaunchFails, StartManager, RecordProxy,
           ManagerListens, ManagerEnds, DeleteVnfm, DeletionFails, RowRemoved, serviceVars,
           LaunchesMeant
      <3>. QED
        BY <3>2, <3>3
    <2>2. ASSUME NEW m \in managerInbox' PROVE m.vdu \in OwnerVdus[m.to]
      BY <1>1, <1>4 DEF MessagesMeant
    <2>. QED
      BY <2>1, <2>2 DEF MessagesMeant
  <1>12. LaunchesMeant'
    <2>1. ASSUME NEW p \in Owner
          PROVE  /\ launch'[p] = "none" <=> rowState'[p] = "none"
                 /\ managerIs'[p] # "down" => launch'[p] \notin {"none", "booting"}
      BY <1>1, <1>6, <1>8, <1>9 DEF LaunchesMeant
    <2>2. ASSUME NEW c \in Asker, asked[c].pc \in {"read", "casting"}
          PROVE  rowState'[asked[c].of] # "none"
      BY <2>2, <1>1, <1>6, <1>7, OngoingRequest DEF LaunchesMeant
    <2>3. ASSUME NEW c \in Asker, asked[c].pc = "casting"
          PROVE  asked[c].of \in agentMapping' /\ asked[c].vdu \in OwnerVdus[asked[c].of]
      BY <2>3, <1>1, <1>6 DEF LaunchesMeant
    <2>. QED
      BY <1>2, <2>1, <2>2, <2>3 DEF LaunchesMeant
  <1>. QED
    BY <1>5, <1>10, <1>11, <1>12 DEF UpdateInv

LEMMA PluginRestartKept ==
  ASSUME UpdateInv, PluginRestart
  PROVE  UpdateInv'
  <1>1. /\ UpdateTypeOK /\ MessagesMeant /\ LaunchesMeant
        /\ restarts < MaxRestarts /\ restarts' = restarts + 1
        /\ agentMapping' = {} /\ asked' = [c \in Asker |-> NotAsking]
        /\ launch' = [o \in Owner |-> IF launch[o] = "none" THEN "none" ELSE "over"]
        /\ rowState' = [o \in Owner |-> IF rowState[o] = "deleting" THEN "here" ELSE rowState[o]]
        /\ UNCHANGED <<managerIs, managerInbox>>
    BY DEF PluginRestart, UpdateInv
  <1>2. NotAsking \in UpdateRequests /\ NotAsking.pc = "idle"
    BY DEF NotAsking, UpdateRequests
  <1>3. restarts' \in 0 .. MaxRestarts
    BY <1>1, UpdateAssumption DEF UpdateTypeOK
  <1>4. \A o \in Owner : /\ launch'[o] \in {"none", "over"}
                         /\ launch'[o] = "none" <=> launch[o] = "none"
                         /\ rowState'[o] = "none" <=> rowState[o] = "none"
    BY <1>1
  <1>5. UpdateTypeOK'
    BY <1>1, <1>2, <1>3 DEF UpdateTypeOK
  <1>6. ProxyHeld'
    BY <1>1, <1>4 DEF ProxyHeld
  <1>7. MessagesMeant'
    BY <1>1 DEF MessagesMeant
  <1>8. \A c \in Asker : asked'[c].pc = "idle"
    BY <1>1, <1>2
  <1>9. LaunchesMeant'
    BY <1>1, <1>4, <1>8 DEF LaunchesMeant
  <1>. QED
    BY <1>5, <1>6, <1>7, <1>9 DEF UpdateInv

LEMMA AskUpdateKept ==
  ASSUME UpdateInv, NEW c \in Asker, NEW o \in Owner, NEW n \in AskedVdu, NEW via \in WayIn,
         AskUpdate(c, o, n, via)
  PROVE  UpdateInv'
  <1>. DEFINE new == [pc |-> "begun", of |-> o, vdu |-> n, way |-> via]
  <1>1. /\ UpdateTypeOK /\ ProxyHeld /\ MessagesMeant /\ LaunchesMeant
        /\ asked' = [asked EXCEPT ![c] = new]
        /\ UNCHANGED <<rowState, launch, agentMapping, managerIs, managerInbox, restarts>>
    BY DEF AskUpdate, UpdateInv, serviceVars
  <1>2. new \in UpdateRequests /\ new.pc = "begun"
    BY DEF UpdateRequests
  <1>. HIDE DEF new
  <1>3. asked \in [Asker -> UpdateRequests]
    BY <1>1 DEF UpdateTypeOK
  <1>4. /\ asked' \in [Asker -> UpdateRequests] /\ asked'[c].pc = "begun"
        /\ \A d \in Asker : d # c => asked'[d] = asked[d]
    BY <1>1, <1>2, <1>3
  <1>5. UpdateTypeOK' /\ ProxyHeld' /\ MessagesMeant'
    BY <1>1, <1>4 DEF UpdateTypeOK, ProxyHeld, MessagesMeant
  <1>6. LaunchesMeant'
    BY <1>1, <1>4 DEF LaunchesMeant
  <1>. QED
    BY <1>5, <1>6 DEF UpdateInv

LEMMA ReadServiceKept ==
  ASSUME UpdateInv, NEW c \in Asker, ReadService(c)
  PROVE  UpdateInv'
  <1>1. /\ UpdateTypeOK /\ ProxyHeld /\ MessagesMeant /\ LaunchesMeant
        /\ asked[c].pc = "begun"
        /\ UNCHANGED <<rowState, launch, agentMapping, managerIs, managerInbox, restarts>>
    BY DEF ReadService, UpdateInv, serviceVars
  <1>2. /\ asked' \in [Asker -> UpdateRequests]
        /\ \A d \in Asker : d # c => asked'[d] = asked[d]
        /\ \/ asked'[c].pc = "TypeError"
           \/ /\ asked'[c].pc = "read" /\ asked'[c].of = asked[c].of
              /\ rowState[asked[c].of] # "none"
    <2>1. CASE FoundByNsdId(asked[c].of)
      <3>1. GoesOn(c, "read") /\ rowState[asked[c].of] # "none"
        BY <2>1 DEF ReadService, FoundByNsdId
      <3>. QED
        BY <3>1, <1>1, RequestGoesOn
    <2>2. CASE ~FoundByNsdId(asked[c].of)
      <3>1. AnsweredWith(c, "TypeError") /\ "TypeError" \in UpdateOutcomes
        BY <2>2 DEF ReadService, UpdateOutcomes
      <3>. QED
        BY <3>1, <1>1, RequestAnswered
    <2>. QED
      BY <2>1, <2>2
  <1>3. UpdateTypeOK' /\ ProxyHeld' /\ MessagesMeant'
    BY <1>1, <1>2 DEF UpdateTypeOK, ProxyHeld, MessagesMeant
  <1>4. LaunchesMeant'
    <2>1. ASSUME NEW d \in Asker, asked'[d].pc \in {"read", "casting"}
          PROVE  rowState[asked'[d].of] # "none"
      BY <2>1, <1>1, <1>2 DEF LaunchesMeant
    <2>2. ASSUME NEW d \in Asker, asked'[d].pc = "casting"
          PROVE  asked'[d].of \in agentMapping /\ asked'[d].vdu \in OwnerVdus[asked'[d].of]
      BY <2>2, <1>1, <1>2 DEF LaunchesMeant
    <2>. QED
      BY <1>1, <2>1, <2>2 DEF LaunchesMeant
  <1>. QED
    BY <1>3, <1>4 DEF UpdateInv

(* What the check of a request comes to.                                   *)
LEMMA UpdateChecked ==
  ASSUME UpdateInv, NEW c \in Asker, CheckUpdate(c)
  PROVE  /\ asked[c].pc = "read" /\ asked[c].of \in Owner
         /\ asked' \in [Asker -> UpdateRequests]
         /\ \A d \in Asker : d # c => asked'[d] = asked[d]
         /\ agentMapping' \in {agentMapping, agentMapping \cup {asked[c].of}}
         /\ \/ asked'[c].pc = "NoVduforNsd"
            \/ asked'[c].pc = "KeyError" /\ asked[c].of \notin agentMapping
            \/ /\ asked'[c].pc = "casting"
               /\ asked'[c].of = asked[c].of /\ asked'[c].vdu = asked[c].vdu
               /\ asked[c].of \in agentMapping' /\ asked[c].vdu \in OwnerVdus[asked[c].of]
  <1>1. UpdateTypeOK /\ asked[c].pc = "read"
    BY DEF UpdateInv, CheckUpdate, RefuseUpdate, UpdateService, UpdateConfiguration
  <1>2. asked[c].of \in Owner
    BY <1>1, OngoingRequest
  <1>3. CASE RefuseUpdate(c)
    <2>1. /\ AnsweredWith(c, "NoVduforNsd") /\ UNCHANGED agentMapping
          /\ "NoVduforNsd" \in UpdateOutcomes
      BY <1>3 DEF RefuseUpdate, UpdateOutcomes
    <2>. QED
      BY <2>1, <1>1, <1>2, RequestAnswered
  <1>4. CASE UpdateService(c)
    <2>1. /\ GoesOn(c, "casting") /\ agentMapping' = agentMapping \cup {asked[c].of}
          /\ asked[c].vdu \in OwnerVdus[asked[c].of]
      BY <1>4 DEF UpdateService
    <2>. QED
      BY <2>1, <1>1, <1>2, RequestGoesOn
  <1>5. CASE UpdateConfiguration(c) /\ asked[c].of \in agentMapping
    <2>1. /\ GoesOn(c, "casting") /\ UNCHANGED agentMapping
          /\ asked[c].vdu \in OwnerVdus[asked[c].of]
      BY <1>5 DEF UpdateConfiguration
    <2>. QED
      BY <2>1, <1>1, <1>2, <1>5, RequestGoesOn
  <1>6. CASE UpdateConfiguration(c) /\ asked[c].of \notin agentMapping
    <2>1. /\ AnsweredWith(c, "KeyError") /\ UNCHANGED agentMapping
          /\ "KeyError" \in UpdateOutcomes
      BY <1>6 DEF UpdateConfiguration, UpdateOutcomes
    <2>. QED
      BY <2>1, <1>1, <1>2, <1>6, RequestAnswered
  <1>. QED
    BY <1>3, <1>4, <1>5, <1>6 DEF CheckUpdate

LEMMA CheckUpdateKept ==
  ASSUME UpdateInv, NEW c \in Asker, CheckUpdate(c)
  PROVE  UpdateInv'
  <1>1. /\ UpdateTypeOK /\ ProxyHeld /\ MessagesMeant /\ LaunchesMeant
        /\ UNCHANGED <<rowState, launch, managerIs, managerInbox, restarts>>
    BY DEF CheckUpdate, UpdateInv, serviceVars
  <1>2. /\ asked[c].pc = "read" /\ asked[c].of \in Owner
        /\ asked' \in [Asker -> UpdateRequests]
        /\ \A d \in Asker : d # c => asked'[d] = asked[d]
        /\ agentMapping' \in {agentMapping, agentMapping \cup {asked[c].of}}
        /\ asked'[c].pc \in {"NoVduforNsd", "KeyError", "casting"}
        /\ asked'[c].pc = "casting" =>
             /\ asked'[c].of = asked[c].of /\ asked'[c].vdu = asked[c].vdu
             /\ asked[c].of \in agentMapping' /\ asked[c].vdu \in OwnerVdus[asked[c].of]
    BY UpdateChecked
  <1>3. rowState[asked[c].of] # "none"
    BY <1>1, <1>2 DEF LaunchesMeant
  <1>4. UpdateTypeOK' /\ MessagesMeant'
    BY <1>1, <1>2 DEF UpdateTypeOK, MessagesMeant
  <1>5. ProxyHeld'
    BY <1>1, <1>2, <1>3 DEF ProxyHeld
  <1>6. LaunchesMeant'
    <2>1. ASSUME NEW d \in Asker, asked'[d].pc \in {"read", "casting"}
          PROVE  rowState[asked'[d].of] # "none"
      BY <2>1, <1>1, <1>2, <1>3 DEF LaunchesMeant
    <2>2. ASSUME NEW d \in Asker, asked'[d].pc = "casting"
          PROVE  asked'[d].of \in agentMapping' /\ asked'[d].vdu \in OwnerVdus[asked'[d].of]
      BY <2>2, <1>1, <1>2 DEF LaunchesMeant
    <2>. QED
      BY <1>1, <2>1, <2>2 DEF LaunchesMeant
  <1>. QED
    BY <1>4, <1>5, <1>6 DEF UpdateInv

LEMMA CastUpdateKept ==
  ASSUME UpdateInv, NEW c \in Asker, CastUpdate(c)
  PROVE  UpdateInv'
  <1>. DEFINE msg == [to |-> asked[c].of, vdu |-> asked[c].vdu]
  <1>1. /\ UpdateTypeOK /\ ProxyHeld /\ MessagesMeant /\ LaunchesMeant
        /\ asked[c].pc = "casting" /\ AnsweredWith(c, "cast")
        /\ managerInbox' = managerInbox \cup {m \in {msg} : managerIs[m.to] = "ready"}
        /\ UNCHANGED <<rowState, launch, agentMapping, managerIs, restarts>>
    BY DEF CastUpdate, UpdateInv, serviceVars
  <1>2. "cast" \in UpdateOutcomes
    BY DEF UpdateOutcomes
  <1>3. /\ asked' \in [Asker -> UpdateRequests] /\ asked'[c].pc = "cast"
        /\ \A d \in Asker : d # c => asked'[d] = asked[d]
    BY <1>1, <1>2, RequestAnswered
  <1>4. /\ msg \in [to : Owner, vdu : AskedVdu] /\ msg.vdu \in OwnerVdus[msg.to]
    BY <1>1, OngoingRequest DEF LaunchesMeant
  <1>. HIDE DEF msg
  <1>5. UpdateTypeOK'
    BY <1>1, <1>3, <1>4 DEF UpdateTypeOK
  <1>6. MessagesMeant'
    BY <1>1, <1>4 DEF MessagesMeant
  <1>7. ProxyHeld' /\ LaunchesMeant'
    BY <1>1, <1>3 DEF ProxyHeld, LaunchesMeant
  <1>. QED
    BY <1>5, <1>6, <1>7 DEF UpdateInv

LEMMA UpdateVduConfigurationKept ==
  ASSUME UpdateInv, NEW m \in managerInbox, UpdateVduConfiguration(m)
  PROVE  UpdateInv'
  <1>1. /\ UpdateTypeOK /\ ProxyHeld /\ MessagesMeant /\ LaunchesMeant
        /\ managerInbox' = managerInbox \ {m}
        /\ UNCHANGED <<rowState, launch, agentMapping, managerIs, asked, restarts>>
    BY DEF UpdateVduConfiguration, UpdateInv, serviceVars
  <1>2. UpdateTypeOK' /\ MessagesMeant'
    BY <1>1 DEF UpdateTypeOK, MessagesMeant
  <1>3. ProxyHeld' /\ LaunchesMeant'
    BY <1>1 DEF ProxyHeld, LaunchesMeant
  <1>. QED
    BY <1>2, <1>3 DEF UpdateInv

LEMMA UpdateKept == UpdateInv /\ [UpdateNext]_updateVars => UpdateInv'
  <1>1. ASSUME UpdateInv, UNCHANGED updateVars PROVE UpdateInv'
    <2>1. UpdateTypeOK' /\ ProxyHeld'
      BY <1>1 DEF updateVars, serviceVars, UpdateInv, UpdateTypeOK, ProxyHeld
    <2>2. MessagesMeant' /\ LaunchesMeant'
      BY <1>1 DEF updateVars, serviceVars, UpdateInv, MessagesMeant, LaunchesMeant
    <2>. QED
      BY <2>1, <2>2 DEF UpdateInv
  <1>. QED
    BY <1>1, ServiceStepKept, PluginRestartKept, AskUpdateKept, ReadServiceKept,
       CheckUpdateKept, CastUpdateKept, UpdateVduConfigurationKept DEF UpdateNext

(* The request that a step of UpdateNext takes further.                    *)
LEMMA RequestMoved ==
  ASSUME UpdateInv, [UpdateNext]_updateVars, NEW c \in Asker, asked'[c] # asked[c]
  PROVE  \/ asked'[c].pc = "idle" \/ asked'[c].pc = "begun" \/ ReadService(c)
         \/ CheckUpdate(c) \/ CastUpdate(c)
  <1>1. asked \in [Asker -> UpdateRequests] /\ UpdateTypeOK
    BY DEF UpdateInv, UpdateTypeOK
  <1>2. CASE PluginRestart
    BY <1>2 DEF PluginRestart, NotAsking
  <1>3. ASSUME NEW d \in Asker, NEW o, NEW n, NEW via, AskUpdate(d, o, n, via)
        PROVE  asked'[c].pc = "begun"
    <2>1. asked' = [asked EXCEPT ![d] = [pc |-> "begun", of |-> o, vdu |-> n, way |-> via]]
      BY <1>3 DEF AskUpdate
    <2>2. d = c
      BY <1>1, <2>1
    <2>. QED
      BY <1>1, <2>1, <2>2
  <1>4. ASSUME NEW d \in Asker, ReadService(d) PROVE d = c
    <2>1. \/ GoesOn(d, "read") \/ AnsweredWith(d, "TypeError")
      BY <1>4 DEF ReadService
    <2>. QED
      BY <1>1, <2>1 DEF GoesOn, AnsweredWith
  <1>5. ASSUME NEW d \in Asker, CheckUpdate(d) PROVE d = c
    <2>1. \A e \in Asker : e # d => asked'[e] = asked[e]
      BY <1>5, UpdateChecked
    <2>. QED
      BY <2>1
  <1>6. ASSUME NEW d \in Asker, CastUpdate(d) PROVE d = c
    BY <1>1, <1>6 DEF CastUpdate, AnsweredWith
  <1>7. \/ PluginRestart
        \/ \E d \in Asker, o \in Owner, n \in AskedVdu, via \in WayIn : AskUpdate(d, o, n, via)
        \/ \E d \in Asker : ReadService(d) \/ CheckUpdate(d) \/ CastUpdate(d)
    BY DEF UpdateNext, updateVars, RowCreated, LaunchFails, StartManager, RecordProxy,
           ManagerListens, ManagerEnds, DeleteVnfm, DeletionFails, RowRemoved,
           UpdateVduConfiguration
  <1>. QED
    BY <1>2, <1>3, <1>4, <1>5, <1>6, <1>7

LEMMA NoProxyStep ==
  ASSUME UpdateInv, [UpdateNext]_updateVars, NEW c \in Asker,
         asked[c].pc = "read", asked'[c].pc = "KeyError"
  PROVE  launch[asked[c].of] # "invoked"
  <1>1. UpdateTypeOK /\ ProxyHeld
    BY DEF UpdateInv
  <1>2. asked'[c] # asked[c]
    OBVIOUS
  <1>3. ReadService(c) \/ CheckUpdate(c) \/ CastUpdate(c)
    BY <1>2, RequestMoved
  <1>4. CheckUpdate(c)
    BY <1>3 DEF ReadService, CastUpdate
  <1>5. asked[c].of \in Owner /\ asked[c].of \notin agentMapping
    BY <1>4, UpdateChecked
  <1>. QED
    BY <1>1, <1>5 DEF ProxyHeld

LEMMA GoneStep ==
  ASSUME UpdateInv, [UpdateNext]_updateVars, NEW c \in Asker,
         asked[c].pc = "begun", ~FoundByNsdId(asked[c].of)
  PROVE  asked'[c].pc # "read"
  <1>1. UpdateTypeOK
    BY DEF UpdateInv
  <1>2. SUFFICES ASSUME asked'[c].pc = "read" PROVE FALSE
    OBVIOUS
  <1>3. asked'[c] # asked[c]
    BY <1>2
  <1>4. ReadService(c) \/ CheckUpdate(c) \/ CastUpdate(c)
    BY <1>2, <1>3, RequestMoved
  <1>5. ~CheckUpdate(c)
    BY UpdateChecked
  <1>6. ReadService(c)
    BY <1>4, <1>5 DEF CastUpdate
  <1>7. AnsweredWith(c, "TypeError") /\ "TypeError" \in UpdateOutcomes
    BY <1>6 DEF ReadService, UpdateOutcomes
  <1>. QED
    BY <1>1, <1>2, <1>7, RequestAnswered

(* A set of places has a first one.                                        *)
LEMMA LeastPlace ==
  ASSUME NEW S \in SUBSET Nat, S # {}
  PROVE  \E i \in S : \A j \in S : i <= j
<1>1. PICK R : R = OpToRel(<, Nat)
  OBVIOUS
<1>2. IsWellFoundedOn(R, Nat)
  BY <1>1, NatLessThanWellFounded
<1>3. \A j, k \in Nat : <<j, k>> \in R <=> j < k
  BY <1>1 DEF OpToRel
<1>4. PICK i \in S : \A j \in S : ~ (<<j, i>> \in R)
  BY <1>2, WFMin
<1>5. ASSUME NEW j \in S PROVE i <= j
  <2>1. i \in Nat /\ j \in Nat
    OBVIOUS
  <2>2. ~ (j < i)
    BY <1>3, <1>4, <2>1
  <2> QED
    BY <2>1, <2>2
<1> QED
  BY <1>5

(***************************************************************************)
(* OsloCommon: the rules of the policy                                     *)
(***************************************************************************)


LEMMA PolFirst ==
  ASSUME NEW S \in SUBSET Nat, S # {}
  PROVE  FirstOf(S) \in S /\ \A j \in S : FirstOf(S) <= j
<1>1. \E i \in S : \A j \in S : i <= j
  BY LeastPlace
<1> QED
  BY <1>1 DEF FirstOf

LEMMA PolFirstIs ==
  ASSUME NEW S \in SUBSET Nat, NEW i \in S, \A j \in Nat : j < i => j \notin S
  PROVE  FirstOf(S) = i
<1>1. PICK f : f = FirstOf(S)
  OBVIOUS
<1>2. f \in S /\ f <= i
  BY <1>1, PolFirst
<1>3. f \in Nat /\ i \in Nat
  BY <1>2
<1> QED
  BY <1>1, <1>2, <1>3

(* A case with another answer is a case, too, with everything else as is.  *)
LEMMA KnownCase ==
  ASSUME NEW c \in Case, NEW answer \in {"T", "F"}
  PROVE  /\ Known(c, answer) \in Case /\ Known(c, answer).a = answer
         /\ Known(c, answer).r = c.r /\ Known(c, answer).default = c.default
BY DEF Case, Known

LEMMA AtomAnswers ==
  ASSUME NEW w \in Atoms, NEW c \in Case
  PROVE  /\ ParseCheck(w)[c] = CASE w = "a" -> c.a [] w = "r" -> OfRule(c)
                                 [] w = "@" -> "T" [] w = "x" -> "F"
         /\ ParseCheck(w)[c] \in CheckAnswer
         /\ c.a # "E" => ParseCheck(w)[c] # "E"
<1>1. ParseCheck(w)[c] = CASE w = "a" -> c.a [] w = "r" -> OfRule(c)
                           [] w = "@" -> "T" [] w = "x" -> "F"
  BY DEF ParseCheck
<1>2. OfRule(c) \in {"T", "F"}
  BY DEF OfRule, Case
<1>3. c.a \in CheckAnswer
  BY DEF Case, CheckAnswer
<1> QED
  BY <1>1, <1>2, <1>3 DEF Atoms, CheckAnswer

LEMMA AtomSteady ==
  ASSUME NEW w \in Atoms
  PROVE  ParseCheck(w) \in [Case -> CheckAnswer] /\ Steady(ParseCheck(w))
<1>1. ParseCheck(w) \in [Case -> CheckAnswer]
  <2>1. \A c \in Case : ParseCheck(w)[c] \in CheckAnswer
    BY AtomAnswers
  <2> QED
    BY <2>1 DEF ParseCheck
<1>2. ASSUME NEW c \in Case, NEW answer \in {"T", "F"}, c.a = "E", ParseCheck(w)[c] # "E"
      PROVE  ParseCheck(w)[Known(c, answer)] = ParseCheck(w)[c]
  <2>1. PICK d \in Case : d = Known(c, answer)
    BY KnownCase
  <2>2. OfRule(d) = OfRule(c)
    BY <2>1, KnownCase DEF OfRule
  <2>3. w # "a"
    BY <1>2, AtomAnswers
  <2> QED
    BY <2>1, <2>2, <2>3, AtomAnswers
<1> QED
  BY <1>1, <1>2 DEF Steady

LEMMA NotSteady ==
  ASSUME NEW x \in [Case -> CheckAnswer], Steady(x)
  PROVE  NotCheck(x) \in [Case -> CheckAnswer] /\ Steady(NotCheck(x))
<1>1. \A c \in Case : /\ NotCheck(x)[c] \in CheckAnswer /\ x[c] \in CheckAnswer
                      /\ x[c] = "T" => NotCheck(x)[c] = "F"
                      /\ x[c] = "F" => NotCheck(x)[c] = "T"
                      /\ x[c] = "E" => NotCheck(x)[c] = "E"
  BY DEF NotCheck, CheckAnswer
<1>2. NotCheck(x) \in [Case -> CheckAnswer]
  BY <1>1 DEF NotCheck
<1>3. ASSUME NEW c \in Case, NEW answer \in {"T", "F"}, c.a = "E", NotCheck(x)[c] # "E"
      PROVE  NotCheck(x)[Known(c, answer)] = NotCheck(x)[c]
  <2>1. Known(c, answer) \in Case
    BY KnownCase
  <2>2. x[c] \in {"T", "F"}
    BY <1>1, <1>3 DEF CheckAnswer
  <2>3. x[Known(c, answer)] = x[c]
    BY <1>3, <2>2 DEF Steady
  <2> QED
    BY <1>1, <2>1, <2>2, <2>3
<1> QED
  BY <1>2, <1>3 DEF Steady

LEMMA AndSteady ==
  ASSUME NEW x \in [Case -> CheckAnswer], NEW y \in [Case -> CheckAnswer], Steady(x), Steady(y)
  PROVE  AndCheck(x, y) \in [Case -> CheckAnswer] /\ Steady(AndCheck(x, y))
<1>1. \A c \in Case : /\ x[c] = "T" => AndCheck(x, y)[c] = y[c]
                      /\ x[c] # "T" => AndCheck(x, y)[c] = x[c]
  BY DEF AndCheck
<1>2. AndCheck(x, y) \in [Case -> CheckAnswer]
  BY <1>1 DEF AndCheck
<1>3. ASSUME NEW c \in Case, NEW answer \in {"T", "F"}, c.a = "E", AndCheck(x, y)[c] # "E"
      PROVE  AndCheck(x, y)[Known(c, answer)] = AndCheck(x, y)[c]
  <2>1. Known(c, answer) \in Case
    BY KnownCase
  <2>2. x[c] # "E"
    BY <1>1, <1>3
  <2>3. x[Known(c, answer)] = x[c]
    BY <1>3, <2>2 DEF Steady
  <2>4. x[c] = "T" => y[Known(c, answer)] = y[c]
    BY <1>1, <1>3 DEF Steady
  <2> QED
    BY <1>1, <2>1, <2>3, <2>4
<1> QED
  BY <1>2, <1>3 DEF Steady

LEMMA OrSteady ==
  ASSUME NEW x \in [Case -> CheckAnswer], NEW y \in [Case -> CheckAnswer], Steady(x), Steady(y)
  PROVE  OrCheck(x, y) \in [Case -> CheckAnswer] /\ Steady(OrCheck(x, y))
<1>1. \A c \in Case : /\ x[c] = "F" => OrCheck(x, y)[c] = y[c]
                      /\ x[c] # "F" => OrCheck(x, y)[c] = x[c]
  BY DEF OrCheck
<1>2. OrCheck(x, y) \in [Case -> CheckAnswer]
  BY <1>1 DEF OrCheck
<1>3. ASSUME NEW c \in Case, NEW answer \in {"T", "F"}, c.a = "E", OrCheck(x, y)[c] # "E"
      PROVE  OrCheck(x, y)[Known(c, answer)] = OrCheck(x, y)[c]
  <2>1. Known(c, answer) \in Case
    BY KnownCase
  <2>2. x[c] # "E"
    BY <1>1, <1>3
  <2>3. x[Known(c, answer)] = x[c]
    BY <1>3, <2>2 DEF Steady
  <2>4. x[c] = "F" => y[Known(c, answer)] = y[c]
    BY <1>1, <1>3 DEF Steady
  <2> QED
    BY <1>1, <2>1, <2>3, <2>4
<1> QED
  BY <1>2, <1>3 DEF Steady

(* An "and" answers as the first of its checks that is not true.           *)
LEMMA AllOfIs ==
  ASSUME NEW list \in Seq(Atoms), NEW c \in Case
  PROVE  /\ (\A i \in DOMAIN list : ParseCheck(list[i])[c] = "T") => AllOf(list)[c] = "T"
         /\ \A i \in DOMAIN list :
              /\ ParseCheck(list[i])[c] # "T"
              /\ \A j \in 1 .. i - 1 : ParseCheck(list[j])[c] = "T"
              => AllOf(list)[c] = ParseCheck(list[i])[c]
<1>1. PICK against : against = {i \in DOMAIN list : ParseCheck(list[i])[c] # "T"}
  OBVIOUS
<1>2. AllOf(list)[c] = IF against = {} THEN "T" ELSE ParseCheck(list[FirstOf(against)])[c]
  BY <1>1 DEF AllOf
<1>3. against \in SUBSET Nat /\ DOMAIN list = 1 .. Len(list)
  BY <1>1
<1>4. ASSUME NEW i \in DOMAIN list, ParseCheck(list[i])[c] # "T",
             \A j \in 1 .. i - 1 : ParseCheck(list[j])[c] = "T"
      PROVE  AllOf(list)[c] = ParseCheck(list[i])[c]
  <2>1. i \in against /\ i \in Nat
    BY <1>1, <1>3, <1>4
  <2>2. \A j \in Nat : j < i => j \notin against
    BY <1>1, <1>3, <1>4
  <2>3. FirstOf(against) = i
    BY <1>3, <2>1, <2>2, PolFirstIs
  <2> QED
    BY <1>2, <2>1, <2>3
<1> QED
  BY <1>1, <1>2, <1>4

(* One of its checks is the first that is not true, if there is one.       *)
LEMMA AllOfWays ==
  ASSUME NEW list \in Seq(Atoms), NEW c \in Case
  PROVE  \/ \A i \in DOMAIN list : ParseCheck(list[i])[c] = "T"
         \/ \E i \in DOMAIN list : /\ ParseCheck(list[i])[c] # "T"
                                   /\ \A j \in 1 .. i - 1 : ParseCheck(list[j])[c] = "T"
<1>1. PICK against : against = {i \in DOMAIN list : ParseCheck(list[i])[c] # "T"}
  OBVIOUS
<1>2. against \in SUBSET Nat /\ DOMAIN list = 1 .. Len(list) /\ Len(list) \in Nat
  BY <1>1
<1>3. CASE against # {}
  <2>1. FirstOf(against) \in against /\ \A j \in against : FirstOf(against) <= j
    BY <1>2, <1>3, PolFirst
  <2>2. PICK i : i = FirstOf(against)
    OBVIOUS
  <2>3. i \in DOMAIN list /\ ParseCheck(list[i])[c] # "T" /\ i \in Nat
    BY <1>1, <1>2, <2>1, <2>2
  <2>4. \A j \in 1 .. i - 1 : ParseCheck(list[j])[c] = "T"
    BY <1>1, <1>2, <2>1, <2>2, <2>3
  <2> QED
    BY <2>3, <2>4
<1> QED
  BY <1>1, <1>3

LEMMA AllOfSteady ==
  ASSUME NEW list \in Seq(Atoms)
  PROVE  AllOf(list) \in [Case -> CheckAnswer] /\ Steady(AllOf(list))
<1>0. \A i \in DOMAIN list : list[i] \in Atoms
  OBVIOUS
<1>1. \A c \in Case : AllOf(list)[c] \in CheckAnswer
  BY <1>0, AllOfIs, AllOfWays, AtomAnswers DEF CheckAnswer
<1>2. AllOf(list) \in [Case -> CheckAnswer]
  BY <1>1 DEF AllOf
<1>3. ASSUME NEW c \in Case, NEW answer \in {"T", "F"}, c.a = "E", AllOf(list)[c] # "E"
      PROVE  AllOf(list)[Known(c, answer)] = AllOf(list)[c]
  <2>1. PICK d \in Case : d = Known(c, answer)
    BY KnownCase
  <2>2. \A i \in DOMAIN list :
          ParseCheck(list[i])[c] # "E" => ParseCheck(list[i])[d] = ParseCheck(list[i])[c]
    BY <1>0, <1>3, <2>1, AtomSteady DEF Steady
  <2>3. CASE \A i \in DOMAIN list : ParseCheck(list[i])[c] = "T"
    BY <2>1, <2>2, <2>3, AllOfIs
  <2>4. CASE \E i \in DOMAIN list : /\ ParseCheck(list[i])[c] # "T"
                                    /\ \A j \in 1 .. i - 1 : ParseCheck(list[j])[c] = "T"
    <3>1. PICK i \in DOMAIN list : /\ ParseCheck(list[i])[c] # "T"
                                   /\ \A j \in 1 .. i - 1 : ParseCheck(list[j])[c] = "T"
      BY <2>4
    <3>2. AllOf(list)[c] = ParseCheck(list[i])[c]
      BY <3>1, AllOfIs
    <3>3. ParseCheck(list[i])[d] = ParseCheck(list[i])[c]
      BY <1>3, <2>2, <3>2
    <3>4. \A j \in 1 .. i - 1 : j \in DOMAIN list
      OBVIOUS
    <3>5. \A j \in 1 .. i - 1 : ParseCheck(list[j])[d] = "T"
      BY <2>2, <3>1, <3>4
    <3>6. AllOf(list)[d] = ParseCheck(list[i])[d]
      BY <3>1, <3>3, <3>5, AllOfIs
    <3> QED
      BY <2>1, <3>2, <3>3, <3>6
  <2> QED
    BY <2>3, <2>4, AllOfWays
<1> QED
  BY <1>2, <1>3 DEF Steady

(* An "or" of them answers as the first that is not false.                 *)
LEMMA ListCheckIs ==
  ASSUME NEW lists \in Seq(Seq(Atoms)), NEW c \in Case, lists # << >>
  PROVE  /\ (\A i \in DOMAIN lists : lists[i] # << >> => AllOf(lists[i])[c] = "F")
              => ListCheck(lists)[c] = "F"
         /\ \A i \in DOMAIN lists :
              /\ lists[i] # << >> /\ AllOf(lists[i])[c] # "F"
              /\ \A j \in 1 .. i - 1 : lists[j] # << >> => AllOf(lists[j])[c] = "F"
              => ListCheck(lists)[c] = AllOf(lists[i])[c]
<1>1. PICK for : for = {i \in DOMAIN lists : lists[i] # << >> /\ AllOf(lists[i])[c] # "F"}
  OBVIOUS
<1>2. ListCheck(lists)[c] = IF for = {} THEN "F" ELSE AllOf(lists[FirstOf(for)])[c]
  BY <1>1 DEF ListCheck
<1>3. for \in SUBSET Nat /\ DOMAIN lists = 1 .. Len(lists)
  BY <1>1
<1>4. ASSUME NEW i \in DOMAIN lists, lists[i] # << >>, AllOf(lists[i])[c] # "F",
             \A j \in 1 .. i - 1 : lists[j] # << >> => AllOf(lists[j])[c] = "F"
      PROVE  ListCheck(lists)[c] = AllOf(lists[i])[c]
  <2>1. i \in for /\ i \in Nat
    BY <1>1, <1>3, <1>4
  <2>2. ASSUME NEW j \in Nat, j < i PROVE j \notin for
    <3>1. SUFFICES ASSUME j \in for PROVE FALSE
      OBVIOUS
    <3>2. j \in DOMAIN lists /\ j \in 1 .. i - 1
      BY <1>1, <1>3, <2>1, <2>2, <3>1
    <3> QED
      BY <1>1, <1>4, <3>1, <3>2
  <2>3. FirstOf(for) = i
    BY <1>3, <2>1, <2>2, PolFirstIs
  <2> QED
    BY <1>2, <2>1, <2>3
<1> QED
  BY <1>1, <1>2, <1>4

LEMMA ListCheckWays ==
  ASSUME NEW lists \in Seq(Seq(Atoms)), NEW c \in Case
  PROVE  \/ \A i \in DOMAIN lists : lists[i] # << >> => AllOf(lists[i])[c] = "F"
         \/ \E i \in DOMAIN lists :
              /\ lists[i] # << >> /\ AllOf(lists[i])[c] # "F"
              /\ \A j \in 1 .. i - 1 : lists[j] # << >> => AllOf(lists[j])[c] = "F"
<1>1. PICK for : for = {i \in DOMAIN lists : lists[i] # << >> /\ AllOf(lists[i])[c] # "F"}
  OBVIOUS
<1>2. for \in SUBSET Nat /\ DOMAIN lists = 1 .. Len(lists) /\ Len(lists) \in Nat
  BY <1>1
<1>3. CASE for # {}
  <2>1. FirstOf(for) \in for /\ \A j \in for : FirstOf(for) <= j
    BY <1>2, <1>3, PolFirst
  <2>2. PICK i : i = FirstOf(for)
    OBVIOUS
  <2>3. i \in DOMAIN lists /\ lists[i] # << >> /\ AllOf(lists[i])[c] # "F" /\ i \in Nat
    BY <1>1, <1>2, <2>1, <2>2
  <2>4. ASSUME NEW j \in 1 .. i - 1, lists[j] # << >> PROVE AllOf(lists[j])[c] = "F"
    <3>1. j \notin for
      BY <1>2, <2>1, <2>2, <2>3
    <3>2. j \in DOMAIN lists
      BY <1>2, <2>3
    <3> QED
      BY <1>1, <2>4, <3>1, <3>2
  <2> QED
    BY <2>3, <2>4
<1> QED
  BY <1>1, <1>3

LEMMA ListSteady ==
  ASSUME NEW lists \in Seq(Seq(Atoms)), lists # << >>
  PROVE  ListCheck(lists) \in [Case -> CheckAnswer] /\ Steady(ListCheck(lists))
<1>0. \A i \in DOMAIN lists : lists[i] \in Seq(Atoms)
  OBVIOUS
<1>1. \A i \in DOMAIN lists, c \in Case : AllOf(lists[i])[c] \in CheckAnswer
  BY <1>0, AllOfSteady
<1>2. ASSUME NEW c \in Case PROVE ListCheck(lists)[c] \in CheckAnswer
  <2>1. CASE \A i \in DOMAIN lists : lists[i] # << >> => AllOf(lists[i])[c] = "F"
    BY <2>1, ListCheckIs DEF CheckAnswer
  <2>2. CASE \E i \in DOMAIN lists :
               /\ lists[i] # << >> /\ AllOf(lists[i])[c] # "F"
               /\ \A j \in 1 .. i - 1 : lists[j] # << >> => AllOf(lists[j])[c] = "F"
    <3>1. \E i \in DOMAIN lists : ListCheck(lists)[c] = AllOf(lists[i])[c]
      BY <2>2, ListCheckIs
    <3> QED
      BY <1>1, <3>1
  <2> QED
    BY <2>1, <2>2, ListCheckWays
<1>3. ListCheck(lists) \in [Case -> CheckAnswer]
  BY <1>2 DEF ListCheck
<1>4. ASSUME NEW c \in Case, NEW answer \in {"T", "F"}, c.a = "E", ListCheck(lists)[c] # "E"
      PROVE  ListCheck(lists)[Known(c, answer)] = ListCheck(lists)[c]
  <2>1. PICK d \in Case : d = Known(c, answer)
    BY KnownCase
  <2>2. \A i \in DOMAIN lists :
          AllOf(lists[i])[c] # "E" => AllOf(lists[i])[d] = AllOf(lists[i])[c]
    BY <1>0, <1>4, <2>1, AllOfSteady DEF Steady
  <2>3. CASE \A i \in DOMAIN lists : lists[i] # << >> => AllOf(lists[i])[c] = "F"
    <3>1. \A i \in DOMAIN lists : lists[i] # << >> => AllOf(lists[i])[d] = "F"
      BY <2>2, <2>3
    <3>2. ListCheck(lists)[d] = "F"
      BY <3>1, ListCheckIs
    <3>3. ListCheck(lists)[c] = "F"
      BY <2>3, ListCheckIs
    <3> QED
      BY <2>1, <3>2, <3>3
  <2>4. CASE \E i \in DOMAIN lists :
               /\ lists[i] # << >> /\ AllOf(lists[i])[c] # "F"
               /\ \A j \in 1 .. i - 1 : lists[j] # << >> => AllOf(lists[j])[c] = "F"
    <3>1. PICK i \in DOMAIN lists :
               /\ lists[i] # << >> /\ AllOf(lists[i])[c] # "F"
               /\ \A j \in 1 .. i - 1 : lists[j] # << >> => AllOf(lists[j])[c] = "F"
      BY <2>4
    <3>2. ListCheck(lists)[c] = AllOf(lists[i])[c]
      BY <3>1, ListCheckIs
    <3>3. AllOf(lists[i])[d] = AllOf(lists[i])[c]
      BY <1>4, <2>2, <3>2
    <3>4. \A j \in 1 .. i - 1 : j \in DOMAIN lists
      OBVIOUS
    <3>5. \A j \in 1 .. i - 1 : lists[j] # << >> => AllOf(lists[j])[d] = "F"
      BY <2>2, <3>1, <3>4
    <3>6. ListCheck(lists)[d] = AllOf(lists[i])[d]
      BY <3>1, <3>3, <3>5, ListCheckIs
    <3> QED
      BY <2>1, <3>2, <3>3, <3>6
  <2> QED
    BY <2>3, <2>4, ListCheckWays
<1> QED
  BY <1>3, <1>4 DEF Steady

(* Where nothing is missing, a list of lists is true if one list is.       *)
LEMMA ListTrue ==
  ASSUME NEW lists \in Seq(Seq(Atoms)), lists # << >>, NEW c \in Case, c.a # "E"
  PROVE  ListCheck(lists)[c] = "T" <=>
           \E i \in DOMAIN lists :
             lists[i] # << >> /\ \A k \in DOMAIN lists[i] : ParseCheck(lists[i][k])[c] = "T"
<1>0. \A i \in DOMAIN lists : lists[i] \in Seq(Atoms)
  OBVIOUS
<1>1. ASSUME NEW list \in Seq(Atoms)
      PROVE  /\ AllOf(list)[c] \in {"T", "F"}
             /\ AllOf(list)[c] = "T" <=> \A k \in DOMAIN list : ParseCheck(list[k])[c] = "T"
  <2>1. \A i \in DOMAIN list : ParseCheck(list[i])[c] \in {"T", "F"}
    <3>1. \A i \in DOMAIN list : list[i] \in Atoms
      OBVIOUS
    <3> QED
      BY <3>1, AtomAnswers DEF CheckAnswer
  <2>2. CASE \A i \in DOMAIN list : ParseCheck(list[i])[c] = "T"
    BY <2>2, AllOfIs
  <2>3. CASE \E i \in DOMAIN list : /\ ParseCheck(list[i])[c] # "T"
                                    /\ \A j \in 1 .. i - 1 : ParseCheck(list[j])[c] = "T"
    BY <2>1, <2>3, AllOfIs
  <2> QED
    BY <2>2, <2>3, AllOfWays
<1>2. CASE \A i \in DOMAIN lists : lists[i] # << >> => AllOf(lists[i])[c] = "F"
  <2>1. ListCheck(lists)[c] = "F"
    BY <1>2, ListCheckIs
  <2> QED
    BY <1>0, <1>1, <1>2, <2>1
<1>3. CASE \E i \in DOMAIN lists :
             /\ lists[i] # << >> /\ AllOf(lists[i])[c] # "F"
             /\ \A j \in 1 .. i - 1 : lists[j] # << >> => AllOf(lists[j])[c] = "F"
  <2>1. PICK i \in DOMAIN lists :
             /\ lists[i] # << >> /\ AllOf(lists[i])[c] # "F"
             /\ \A j \in 1 .. i - 1 : lists[j] # << >> => AllOf(lists[j])[c] = "F"
    BY <1>3
  <2>2. AllOf(lists[i])[c] = "T"
    BY <1>0, <1>1, <2>1
  <2>3. ListCheck(lists)[c] = "T"
    BY <2>1, <2>2, ListCheckIs
  <2> QED
    BY <1>0, <1>1, <2>1, <2>2, <2>3
<1> QED
  BY <1>2, <1>3, ListCheckWays

LEMMA SteadyCalls ==
  PolTypeOK /\ SteadyChecks => MissingNeverAllows /\ ListAsText
<1> SUFFICES ASSUME PolTypeOK, SteadyChecks, polPc = "judged"
             PROVE  MissingNeverAllows /\ ListAsText
  BY DEF MissingNeverAllows, ListAsText
<1>1. listRule \in Seq(Seq(Atoms))
  BY DEF PolTypeOK
<1>2. [a |-> "T", r |-> "T", default |-> "T"] \in Case
  BY DEF Case
<1>3. DOMAIN ruleCheck = Case => ruleCheck \in [Case -> CheckAnswer] /\ Steady(ruleCheck)
  <2>1. DOMAIN NoCheck = {}
    BY DEF NoCheck
  <2> QED
    BY <1>1, <1>2, <2>1, ListSteady DEF SteadyChecks
<1>4. ASSUME NEW c \in Case, c.a = "E", Verdict(c) = "T", NEW answer \in {"T", "F"}
      PROVE  Verdict([c EXCEPT !.a = answer]) = "T"
  <2>1. Known(c, answer) = [c EXCEPT !.a = answer] /\ Known(c, answer) \in Case
    BY KnownCase DEF Known
  <2>2. DOMAIN ruleCheck = Case /\ ruleCheck[c] = "T"
    BY <1>4 DEF Verdict
  <2>3. ruleCheck[Known(c, answer)] = "T"
    BY <1>3, <1>4, <2>2 DEF Steady
  <2> QED
    BY <2>1, <2>2, <2>3 DEF Verdict
<1>5. MissingNeverAllows
  BY <1>4 DEF MissingNeverAllows
<1>6. ASSUME listRule # << >>, NEW c \in Case, c.a # "E"
      PROVE  Verdict(c) = "T" <=>
               \E i \in DOMAIN listRule :
                 /\ listRule[i] # << >>
                 /\ \A k \in DOMAIN listRule[i] : ParseCheck(listRule[i][k])[c] = "T"
  <2>1. ruleCheck = ListCheck(listRule)
    BY <1>6 DEF SteadyChecks
  <2>2. DOMAIN ruleCheck = Case
    BY <2>1 DEF ListCheck
  <2>3. Verdict(c) = "T" <=> ListCheck(listRule)[c] = "T"
    BY <2>1, <2>2 DEF Verdict
  <2> QED
    BY <1>1, <1>6, <2>3, ListTrue
<1>7. ListAsText
  BY <1>6 DEF ListAsText
<1> QED
  BY <1>5, <1>7

-----------------------------------------------------------------------------
StackItem == [tok : TokenName, val : [Case -> CheckAnswer]]

LEMMA WordsTokens ==
  ASSUME NEW w \in RuleWords
  PROVE  WordTokens(w) \in Seq(TokenName) /\ Len(WordTokens(w)) <= 2
<1>1. w \in TokenName /\ {"(", ")", "a", "r", "x"} \subseteq TokenName
  BY DEF TokenName, Atoms
<1>2. \/ \E p, q \in TokenName : WordTokens(w) = <<p, q>>
      \/ WordTokens(w) = <<w>>
  BY <1>1 DEF WordTokens
<1>3. ASSUME NEW p \in TokenName, NEW q \in TokenName PROVE <<p, q>> \in Seq(TokenName) /\ Len(<<p, q>>) = 2
  OBVIOUS
<1>4. <<w>> \in Seq(TokenName) /\ Len(<<w>>) = 1
  BY <1>1
<1>5. PICK t : t = WordTokens(w)
  OBVIOUS
<1>6. CASE t = <<w>>
  BY <1>4, <1>5, <1>6
<1>7. CASE \E p, q \in TokenName : t = <<p, q>>
  BY <1>3, <1>5, <1>7
<1> QED
  BY <1>2, <1>5, <1>6, <1>7

LEMMA TokenItem ==
  ASSUME NEW w \in TokenName
  PROVE  TokenOf(w) \in StackItem /\ Steady(TokenOf(w).val) /\ (TokenOf(w).tok = "not" => w = "not")
<1>1. FalseCheck \in [Case -> CheckAnswer]
  BY DEF FalseCheck, CheckAnswer
<1>2. \A c \in Case, answer \in {"T", "F"} : FalseCheck[Known(c, answer)] = FalseCheck[c]
  BY KnownCase DEF FalseCheck
<1>3. Steady(FalseCheck)
  BY <1>2 DEF Steady
<1>4. CASE w \in Atoms
  <2>1. TokenOf(w).tok = "check" /\ TokenOf(w).val = ParseCheck(w)
        /\ TokenOf(w) = [tok |-> "check", val |-> ParseCheck(w)]
    BY <1>4 DEF TokenOf
  <2>2. "check" \in TokenName
    BY DEF TokenName
  <2> QED
    BY <1>4, <2>1, <2>2, AtomSteady DEF StackItem
<1>5. CASE w \notin Atoms
  <2>1. TokenOf(w).tok = w /\ TokenOf(w).val = FalseCheck
        /\ TokenOf(w) = [tok |-> w, val |-> FalseCheck]
    BY <1>5 DEF TokenOf
  <2> QED
    BY <1>1, <1>3, <2>1 DEF StackItem
<1> QED
  BY <1>4, <1>5

(* The first of the last n places.                                         *)
LEMMA PlaceOfLast ==
  ASSUME NEW n \in {2, 3}, NEW l \in Nat, l >= n
  PROVE  \E m \in Nat : m = l - n + 1 /\ m > 0 /\ m <= l
<1>1. l - n + 1 \in Nat /\ l - n + 1 > 0 /\ l - n + 1 <= l
  <2>1. CASE n = 2
    BY <2>1
  <2>2. CASE n = 3
    BY <2>2
  <2> QED
    BY <2>1, <2>2
<1> QED
  BY <1>1

(* What is on top of the stack, and what it is reduced to.                 *)
LEMMA TopIs ==
  ASSUME PolTypeOK, NEW n \in {2, 3}, Len(stack) >= n
  PROVE  /\ Len(Top(n)) = n /\ DOMAIN Toks(Top(n)) = 1 .. n /\ Len(stack) \in Nat
         /\ \A i \in 1 .. n : /\ Top(n)[i] = stack[Len(stack) - n + i]
                              /\ Len(stack) - n + i \in DOMAIN stack
                              /\ Toks(Top(n))[i] = stack[Len(stack) - n + i].tok
<1>1. stack \in Seq(StackItem) /\ Len(stack) \in Nat /\ DOMAIN stack = 1 .. Len(stack)
  BY DEF PolTypeOK, StackItem
<1>2. PICK t : t = Top(n)
  OBVIOUS
<1>3. /\ Len(t) = n /\ DOMAIN t = 1 .. n
      /\ \A i \in 1 .. n : t[i] = stack[Len(stack) - n + i]
  <2>1. PICK l \in Nat : l = Len(stack) /\ l >= n
    BY <1>1
  <2>2. PICK m \in Nat : m = l - n + 1 /\ m > 0 /\ m <= l
    BY <2>1, PlaceOfLast
  <2>3. PICK S : stack \in Seq(S)
    BY <1>1
  <2>4. \A i \in m .. l : stack[i] \in S
    <3>1. \A i \in m .. l : i \in 1 .. l
      BY <2>2
    <3> QED
      BY <2>1, <2>3, <3>1, LenProperties
  <2>5. t = SubSeq(stack, m, l)
    BY <1>2, <2>1, <2>2 DEF Top
  <2>6. /\ t \in Seq(S) /\ Len(t) = l - m + 1
        /\ \A i \in 1 .. l - m + 1 : t[i] = stack[m + i - 1]
    BY <2>2, <2>4, <2>5, SubSeqProperties
  <2>7. l - m + 1 = n /\ \A i \in 1 .. n : m + i - 1 = l - n + i
    BY <2>1, <2>2
  <2>8. DOMAIN t = 1 .. Len(t)
    BY <2>6, LenProperties
  <2>9. \A i \in 1 .. n : t[i] = stack[l - n + i]
    BY <2>6, <2>7
  <2> QED
    BY <2>1, <2>6, <2>7, <2>8, <2>9
<1>4. DOMAIN Toks(t) = 1 .. n /\ \A i \in 1 .. n : Toks(t)[i] = t[i].tok
  BY <1>3 DEF Toks
<1> QED
  BY <1>1, <1>2, <1>3, <1>4

LEMMA NotUnreduced ==
  ASSUME PolTypeOK, ~Reducible, Len(stack) >= 2
  PROVE  ~(stack[Len(stack) - 1].tok = "not" /\ stack[Len(stack)].tok = "check")
<1> SUFFICES ASSUME stack[Len(stack) - 1].tok = "not", stack[Len(stack)].tok = "check"
             PROVE  FALSE
  OBVIOUS
<1>1. DOMAIN Toks(Top(2)) = 1 .. 2 /\ Toks(Top(2))[1] = "not" /\ Toks(Top(2))[2] = "check"
  BY TopIs
<1>2. Toks(Top(2)) = <<"not", "check">>
  BY <1>1 DEF Toks
<1>3. Reductions(<<"not", "check">>) = "check"
  BY DEF Reductions
<1> QED
  BY <1>2, <1>3 DEF Reducible, TopMatches

LEMMA ShortSequence ==
  ASSUME NEW S, NEW n \in Nat, NEW s \in SeqOf(S, n)
  PROVE  s \in Seq(S)
<1>1. PICK m \in 0 .. n : s \in [1 .. m -> S]
  BY DEF SeqOf
<1> QED
  BY <1>1

LEMMA PolStarts == PolInit => PolInv
<1> SUFFICES ASSUME PolInit PROVE PolInv
  OBVIOUS
<1>1. listRule \in Seq(Seq(Atoms))
  <2>1. PICK n \in 0 .. MaxLists : listRule \in [1 .. n -> SeqOf(Atoms, MaxLists)]
    BY DEF PolInit, SeqOf
  <2>2. \A i \in 1 .. n : listRule[i] \in Seq(Atoms)
    BY <2>1, ShortSequence, PolicyAssumption
  <2>3. PICK T : T = Seq(Atoms)
    OBVIOUS
  <2>4. listRule \in [1 .. n -> T] /\ n \in Nat
    BY <2>1, <2>2, <2>3, PolicyAssumption
  <2>5. listRule \in Seq(T)
    BY <2>4
  <2> QED
    BY <2>3, <2>5
<1>2. PolTypeOK
  BY <1>1, PolicyAssumption DEF PolInit, PolTypeOK
<1>3. SteadyChecks
  BY DEF PolInit, SteadyChecks
<1> QED
  BY <1>2, <1>3, SteadyCalls DEF PolInv

(* What the steps leave alone.                                             *)
LEMMA NextWordKept == ASSUME PolInv, NextWord PROVE PolInv'
<1>1. UNCHANGED <<stack, polPc, listRule, ruleCheck>> /\ polPc = "reading"
  BY DEF NextWord
<1>2. PICK w \in RuleWords : polText' = Append(polText, w) /\ waiting' = WordTokens(w)
  BY DEF NextWord
<1>3. polText \in Seq(RuleWords) /\ Len(polText) < MaxWords /\ Len(polText) \in Nat
  BY DEF NextWord, PolInv, PolTypeOK
<1>4. polText' \in Seq(RuleWords) /\ Len(polText') <= MaxWords
  BY <1>2, <1>3, PolicyAssumption
<1>5. waiting' \in Seq(TokenName) /\ Len(waiting') <= 2
  BY <1>2, WordsTokens
<1>6. PolTypeOK'
  BY <1>1, <1>4, <1>5 DEF PolInv, PolTypeOK
<1>7. SteadyChecks' /\ MissingNeverAllows' /\ ListAsText'
  BY <1>1 DEF PolInv, SteadyChecks, MissingNeverAllows, ListAsText
<1> QED
  BY <1>6, <1>7 DEF PolInv

LEMMA ShiftKept == ASSUME PolInv, Shift PROVE PolInv'
<1>1. UNCHANGED <<polText, polPc, listRule, ruleCheck>> /\ ~Reducible /\ PolTypeOK /\ SteadyChecks
  BY DEF Shift, PolInv
<1>2. PICK w : w = Head(waiting) /\ stack' = Append(stack, TokenOf(w)) /\ waiting' = Tail(waiting)
  BY DEF Shift
<1>3. waiting \in Seq(TokenName) /\ waiting # << >> /\ Len(waiting) <= 2
  BY DEF Shift, PolInv, PolTypeOK
<1>4. w \in TokenName /\ waiting' \in Seq(TokenName) /\ Len(waiting') <= 2
  BY <1>2, <1>3
<1>5. PICK item \in StackItem : item = TokenOf(w) /\ Steady(item.val)
  BY <1>4, TokenItem
<1>6. stack \in Seq(StackItem) /\ Len(stack) \in Nat
  BY <1>1 DEF PolTypeOK, StackItem
<1>7. /\ stack' \in Seq(StackItem) /\ Len(stack') = Len(stack) + 1
      /\ stack'[Len(stack) + 1] = item
      /\ \A i \in 1 .. Len(stack) : stack'[i] = stack[i]
  BY <1>2, <1>5, <1>6
<1>8. ASSUME NEW k \in 1 .. Len(stack') - 1, stack'[k].tok = "not"
      PROVE  stack'[k + 1].tok # "check" \/ k = Len(stack') - 1
  <2>1. CASE k = Len(stack)
    BY <1>6, <1>7, <2>1
  <2>2. CASE k = Len(stack) - 1
    <3>1. Len(stack) >= 2 /\ k \in 1 .. Len(stack) /\ k + 1 = Len(stack)
      BY <1>6, <1>7, <1>8, <2>2
    <3>2. stack[Len(stack) - 1].tok = "not"
      BY <1>7, <1>8, <2>2, <3>1
    <3>3. stack[Len(stack)].tok # "check"
      BY <1>1, <3>1, <3>2, NotUnreduced
    <3> QED
      BY <1>6, <1>7, <3>1, <3>3
  <2>3. CASE k < Len(stack) - 1
    <3>1. k \in 1 .. Len(stack) - 1 /\ k + 1 \in 1 .. Len(stack) /\ k \in 1 .. Len(stack)
      BY <1>6, <1>7, <1>8, <2>3
    <3>2. stack[k].tok = "not" => stack[k + 1].tok # "check" \/ k = Len(stack) - 1
      BY <1>1, <3>1 DEF PolTypeOK
    <3> QED
      BY <1>6, <1>7, <1>8, <2>3, <3>1, <3>2
  <2> QED
    BY <1>6, <1>7, <1>8, <2>1, <2>2, <2>3
<1>9. PolTypeOK'
  BY <1>1, <1>4, <1>7, <1>8 DEF PolTypeOK, StackItem
<1>10. ASSUME NEW i \in DOMAIN stack' PROVE Steady(stack'[i].val)
  <2>1. i \in 1 .. Len(stack) \/ i = Len(stack) + 1
    BY <1>6, <1>7
  <2> QED
    BY <1>1, <1>5, <1>6, <1>7, <2>1 DEF SteadyChecks
<1>11. SteadyChecks'
  BY <1>1, <1>10 DEF SteadyChecks, Steady, Known
<1> QED
  BY <1>9, <1>11, SteadyCalls, PTL DEF PolInv

(* What a reducer makes of checks is a check that is as steady as they are.*)
LEMMA ReducedItem ==
  ASSUME PolTypeOK, SteadyChecks, NEW n \in {2, 3}, TopMatches(n)
  PROVE  Reduced(Top(n)) \in StackItem /\ Steady(Reduced(Top(n)).val)
<1>1. PICK items : items = Top(n)
  OBVIOUS
<1>2. PICK toks : toks = Toks(items)
  OBVIOUS
<1>3. /\ Len(items) = n /\ Len(stack) >= n /\ DOMAIN toks = 1 .. n
      /\ \A i \in 1 .. n : /\ items[i] = stack[Len(stack) - n + i]
                            /\ Len(stack) - n + i \in DOMAIN stack
                            /\ toks[i] = items[i].tok
  BY <1>1, <1>2, TopIs DEF TopMatches
<1>4. stack \in Seq(StackItem)
  BY DEF PolTypeOK, StackItem
<1>5. \A i \in 1 .. n : items[i] \in StackItem
  BY <1>3, <1>4
<1>6. \A i \in 1 .. n : items[i].val \in [Case -> CheckAnswer]
  BY <1>5 DEF StackItem
<1>7. \A i \in 1 .. n : Steady(items[i].val)
  BY <1>3 DEF SteadyChecks
<1>8. Reductions(toks) # "none"
  BY <1>1, <1>2 DEF TopMatches
<1>9. Reductions(toks) \in TokenName
  <2>1. Reductions(toks) \in {"check", "and_expr", "or_expr"}
    BY <1>8 DEF Reductions
  <2> QED
    BY <2>1 DEF TokenName
<1>10. n = 3 => toks[1] = "(" \/ (toks[1] # "(" /\ toks[2] = "and")
                \/ (toks[1] # "(" /\ toks[2] = "or")
  BY <1>3, <1>8 DEF Reductions
<1>11. PICK val : val = Combined(items)
  OBVIOUS
<1>12. val \in [Case -> CheckAnswer] /\ Steady(val)
  <2>1. CASE n = 2
    <3>1. val = NotCheck(items[2].val)
      BY <1>3, <1>11, <2>1 DEF Combined
    <3> QED
      BY <1>6, <1>7, <2>1, <3>1, NotSteady
  <2>2. CASE n = 3 /\ toks[1] = "("
    <3>1. val = items[2].val
      BY <1>3, <1>11, <2>2 DEF Combined
    <3> QED
      BY <1>6, <1>7, <2>2, <3>1
  <2>3. CASE n = 3 /\ toks[1] # "(" /\ toks[2] = "and"
    <3>1. val = AndCheck(items[1].val, items[3].val)
      BY <1>3, <1>11, <2>3 DEF Combined
    <3> QED
      BY <1>6, <1>7, <2>3, <3>1, AndSteady
  <2>4. CASE n = 3 /\ toks[1] # "(" /\ toks[2] = "or"
    <3>1. val = OrCheck(items[1].val, items[3].val)
      BY <1>3, <1>11, <2>4 DEF Combined
    <3> QED
      BY <1>6, <1>7, <2>4, <3>1, OrSteady
  <2> QED
    BY <1>10, <2>1, <2>2, <2>3, <2>4
<1>13. Reduced(items) = [tok |-> Reductions(toks), val |-> val]
  BY <1>2, <1>11 DEF Reduced
<1>14. PICK r : r = Reduced(items)
  OBVIOUS
<1>15. r = [tok |-> Reductions(toks), val |-> val] /\ r.val = val
  BY <1>13, <1>14
<1>16. r \in StackItem
  BY <1>9, <1>12, <1>15 DEF StackItem
<1> QED
  BY <1>1, <1>12, <1>14, <1>15, <1>16

LEMMA ReduceKept == ASSUME PolInv, Reduce PROVE PolInv'
<1>1. /\ UNCHANGED <<polText, waiting, polPc, listRule, ruleCheck>>
      /\ PolTypeOK /\ SteadyChecks
  BY DEF Reduce, PolInv
<1>2. PICK n \in {2, 3} :
        /\ TopMatches(n)
        /\ stack' = Append(SubSeq(stack, 1, Len(stack) - n), Reduced(Top(n)))
  BY DEF Reduce
<1>3. PICK item \in StackItem : item = Reduced(Top(n)) /\ Steady(item.val)
  BY <1>1, <1>2, ReducedItem
<1>4. stack \in Seq(StackItem) /\ Len(stack) \in Nat /\ Len(stack) >= n
  BY <1>1, <1>2 DEF PolTypeOK, StackItem, TopMatches
<1>5. PICK front : front = SubSeq(stack, 1, Len(stack) - n)
  OBVIOUS
<1>6. /\ front \in Seq(StackItem) /\ Len(front) = Len(stack) - n
      /\ \A i \in 1 .. Len(stack) - n : front[i] = stack[i]
  BY <1>4, <1>5
<1>7. /\ stack' \in Seq(StackItem) /\ Len(stack') = Len(stack) - n + 1
      /\ stack'[Len(stack) - n + 1] = item
      /\ \A i \in 1 .. Len(stack) - n : stack'[i] = stack[i]
  BY <1>2, <1>3, <1>4, <1>5, <1>6
<1>8. ASSUME NEW k \in 1 .. Len(stack') - 1, stack'[k].tok = "not", k # Len(stack') - 1
      PROVE  stack'[k + 1].tok # "check"
  <2>1. k \in 1 .. Len(stack) - 1 /\ k # Len(stack) - 1
        /\ k \in 1 .. Len(stack) - n /\ k + 1 \in 1 .. Len(stack) - n
    BY <1>4, <1>7, <1>8
  <2>2. stack[k].tok = "not" => stack[k + 1].tok # "check"
    BY <1>1, <2>1 DEF PolTypeOK
  <2> QED
    BY <1>7, <1>8, <2>1, <2>2
<1>9. PolTypeOK'
  BY <1>1, <1>7, <1>8 DEF PolTypeOK, StackItem
<1>10. ASSUME NEW i \in DOMAIN stack' PROVE Steady(stack'[i].val)
  <2>1. i \in 1 .. Len(stack) - n \/ i = Len(stack) - n + 1
    BY <1>4, <1>7
  <2> QED
    BY <1>1, <1>3, <1>4, <1>7, <2>1 DEF SteadyChecks
<1>11. SteadyChecks'
  BY <1>1, <1>10 DEF SteadyChecks, Steady, Known
<1> QED
  BY <1>9, <1>11, SteadyCalls, PTL DEF PolInv

LEMMA ConstantSteady ==
  ASSUME NEW x, x \in {TrueCheck, FalseCheck}
  PROVE  x \in [Case -> CheckAnswer] /\ Steady(x)
<1>1. \A c \in Case : /\ TrueCheck[c] = "T" /\ FalseCheck[c] = "F"
  BY DEF TrueCheck, FalseCheck
<1>2. TrueCheck \in [Case -> CheckAnswer] /\ FalseCheck \in [Case -> CheckAnswer]
  BY DEF TrueCheck, FalseCheck, CheckAnswer
<1>3. \A c \in Case, answer \in {"T", "F"} : x[Known(c, answer)] = x[c]
  BY <1>1, KnownCase
<1> QED
  BY <1>2, <1>3 DEF Steady

LEMMA TextRuleKept == ASSUME PolInv, ParseTextRule PROVE PolInv'
<1>1. /\ UNCHANGED <<polText, waiting, stack, listRule>> /\ listRule = << >>
      /\ polPc' = "judged" /\ ruleCheck' = Result /\ PolTypeOK /\ SteadyChecks
  BY DEF ParseTextRule, PolInv
<1>2. Result = NoCheck \/ (Result \in [Case -> CheckAnswer] /\ Steady(Result))
  <2>1. CASE Result \in {TrueCheck, FalseCheck, NoCheck}
    BY <2>1, ConstantSteady
  <2>2. CASE Len(stack) = 1 /\ Result = stack[1].val
    <3>2. stack \in Seq(StackItem)
      BY <1>1 DEF PolTypeOK, StackItem
    <3>3. 1 \in DOMAIN stack /\ stack[1] \in StackItem
      BY <2>2, <3>2
    <3>1. 1 \in DOMAIN stack /\ stack[1].val \in [Case -> CheckAnswer]
      BY <3>3 DEF StackItem
    <3> QED
      BY <1>1, <2>2, <3>1 DEF SteadyChecks
  <2> QED
    BY <2>1, <2>2 DEF Result
<1>3. PolTypeOK'
  BY <1>1 DEF PolTypeOK
<1>4. PICK x : x = Result
  OBVIOUS
<1>5. ruleCheck' = x /\ (x = NoCheck \/ (x \in [Case -> CheckAnswer] /\ Steady(x)))
  BY <1>1, <1>2, <1>4
<1>6. SteadyChecks'
  BY <1>1, <1>5 DEF SteadyChecks, Steady, Known
<1> QED
  BY <1>3, <1>6, SteadyCalls, PTL DEF PolInv

LEMMA ListRuleKept == ASSUME PolInv, ParseListRule PROVE PolInv'
<1>1. /\ UNCHANGED <<polText, waiting, stack, listRule>> /\ listRule # << >>
      /\ polPc' = "judged" /\ ruleCheck' = ListCheck(listRule) /\ PolTypeOK /\ SteadyChecks
  BY DEF ParseListRule, PolInv
<1>3. PolTypeOK'
  BY <1>1 DEF PolTypeOK
<1>6. SteadyChecks'
  BY <1>1 DEF SteadyChecks
<1> QED
  BY <1>3, <1>6, SteadyCalls, PTL DEF PolInv

LEMMA PolKept == PolInv /\ [PolNext]_polVars => PolInv'
<1> SUFFICES ASSUME PolInv, [PolNext]_polVars PROVE PolInv'
  OBVIOUS
<1>1. CASE UNCHANGED polVars
  BY <1>1 DEF polVars, PolInv, PolTypeOK, SteadyChecks, MissingNeverAllows, ListAsText, Verdict
<1> QED
  BY <1>1, NextWordKept, ShiftKept, ReduceKept, TextRuleKept, ListRuleKept DEF PolNext
=============================================================================
