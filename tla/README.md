# OpenVNFManager in TLA+

OpenVNFManager brings network services up on OpenStack: a server (`vnfsvc`) boots the machines of a
service in dependency order and a process per service (`vnf-manager`) configures them; a command line client talks
to the server's REST API. This directory holds TLA+ modules of these programs, the TLC runs that check them
on small instances, and TLAPS proofs that hold for services of any size.

Paths below are relative to the repository; `plugin.py` is `vnfsvc/vnfsvc/plugin.py`, `vnf_manager.py`
is `vnfmanager/vnfmanager/vnf_manager.py`, `vnf_db.py` is `vnfsvc/vnfsvc/db/vnf/vnf_db.py`.

## 1. Inventory

### The parts and the state they keep

| part | state | operations |
|---|---|---|
| **vnfsvc plugin** (`plugin.py`), one object in the server | `ns_dict[nsd_id]` per service (acknowledge_list, configured, errored, config-event, conf_generated, deployed_vdus, is_manager_invoked), `agent_mapping`; attributes overwritten by every request (independent_vdus, template_id, parser objects, clients) | create_service, delete_service, update_service, update_configuration, create/delete_template, create_activate, diagnostics; RPC handler send_ack |
| **deploy_vnfs**, a green thread per service | its place in the code, the VDUs of the current round | _create_vnfds → _launch_vnfds → _boot_vdu, _invoke_vnf_manager → _resolve_dependency → wait_for_acknowledgment, then ns_postConfigure |
| **delete_vnfs**, a green thread per deletion | loop indices; reads the module global `service_db_dict` (`vnf_db.py:38`) | delete_vtap_and_vnfm, delete_vdus, delete_router_interfaces, delete_ports, delete_db_dict |
| **database** (`vnf_db.py`) | rows NetworkService, Vdu, ServiceTemplate, VduConfiguration | status, instances, host updates; delete_service_model fills the global |
| **vnf-manager** (`vnf_manager.py`), a process per service | `drv_conf` (the VDUs it knows, which instances are COMPLETE), `launchd_threads_info`, a condition | start on a configuration file, configure_vdus, postConfigure, update_vdu_configuration, monitor_thread_pool |
| **worker threads** (ImplThread) | an entry of `launchd_threads_info` each | run a driver, store the result, notify |
| **template catalog** | rows, the file `templates.json`, flavors and images on OpenStack | create_template, delete_template, create_activate |
| **OpenStack** (external) | machines, ports, flavors, images | calls that may fail or answer late |
| **pre-configuration** (`nsdmanager.py`, `parser_utils_vnfd.py`) | interfaces on routers, ports, a puppet master, before the service has a row | preconfigure, fixed ports, the manager's ports; taken away by a deletion |
| **the clients of OpenStack in the plugin** (`client/client.py`) | novaclient, glanceclient, neutronclient, overwritten by every caller | auth, listings that combine several calls |
| **REST and WSGI** (`wsgi.py`, `api/`) | the request and its items; which were made and must be undone | filters, decoding, checking, create/update/delete/list, paging, encoding |
| **parsers** (`common/yaml`, `parser_utils*.py`) | the descriptor put together so far | NSD, VNFD; the document of a service (`_generate_ns_info`) |
| **drivers** (`vyatta.py`, `sshadapter.py`) | session_id, a candidate configuration on the router | init, postconfigure, ssh with retries |
| **RPC** (`common/rpc.py`, `context.py`) | consumers, contexts and their copies | start, stop, cast, serialise, elevate |
| **processes** (`service.py`, `server/`, oslo's `service.py`) | signal handlers, services, loops, sockets | launch, wait, restart, stop, report state |
| **client** (`python-vnfsvcclient`) | token, endpoint, format; the words of a command | parse, authenticate, look up, send, retry, print |
| **migrations** (`db/migration`) | tables, recorded version, HEAD file, several operators | upgrade, downgrade, stamp, check, revision |
| **oslo** (`lockutils`, `policy`) | semaphores and lock files; rules | synchronized; parsing and checking of rules |

### How they interact

* REST request → plugin method, on a green thread of the server; `deploy_vnfs` and `delete_vnfs` are spawned and
  the request returns.
* plugin → manager: casts `configure_vdus` and `postConfigure` (`plugin.py:1996-2028`), not fanned out, dropped when
  nobody listens on the topic. The first configuration goes by file.
* manager → plugin: cast `send_ack` (`vnf_manager.py:333-349`), handled between the steps of the green threads
  (`plugin.py:2029-2074`).
* shared memory: `ns_dict` between `deploy_vnfs` and `send_ack`; `service_db_dict` between all deletions;
  `launchd_threads_info` between handlers, workers and monitor; the attributes of the plugin between all requests; the driver object and
  its session between the init threads of a VDU's instances.
* client → server: words → a method of the client by name → a path → a controller by path → a handler of the plugin by name; five tables
  that nothing compares.

### What is hard

Everything is cooperative (eventlet): a thread gives way at I/O, sleep and lock waits, and state read before is used after.
Waits have no timeouts. Casts may be lost. Neither process survives a restart with its state, and nobody
supervises the manager. The individual hazards, each at its line, are listed under `hazards` in `PROJECT.json`.

### What makes each part correct

* *Bringing up*: machines of a VDU are created only when everything it depends on is configured; ACTIVE means configured;
  a failure is reported; a deployment ends if everyone answers.
* *Manager*: an instance is initialised once, and before it is post-configured; acknowledgements are true.
* *Worker threads*: each thread is reported exactly once, with its own result; no lost wake-up; nobody keeps the lock.
* *Deletion*: only machines of services that were to be deleted go; a finished deletion leaves none.
* *Catalog*: a template in the catalog can be instantiated; failed uploads leave nothing behind.
* *REST*: what reaches the plugin was let in, checked and converted; a bulk is created wholly or undone; pages meet every row.
* *Database*: a row is found again and is the right one, wherever the server ended.
* *Descriptors and data*: each machine gets its own networks, user data and lifecycle data.
* *Client*: a command is sent as it was written, and not twice when it must not be.
* *Bus*: a message is handled once, with the identity it was sent with.
* *Processes*: signals are served, loops end, a server that has started serves.
* *Migrations*: the recorded version tells the tables.

## 2. Plan

Order of work. (1) to (9) exist and are described below; (10) is what is left.

1. `NetworkService`, `Deployment`, `VNFManager`, composed in `NSOrchestration`; abstract specification
   `OrderedBringUp`. Proofs: type correctness, inductive invariant, the main safety properties, refinement.
2. `WorkerPool` with abstract specification `ThreadReports`, the promise `VNFManager` relies on.
3. `ServiceDeletion`, several deletions and deployments. Proofs: type correctness, `OnlyAskedLose`, `DeletedMeansGone`.
4. `TemplateCatalog`: uploads that overlap, `templates.json` against the rows, cleanup after a failed upload, activation.
5. `SharedPlugin`: several services in one plugin, sharing `independent_vdus`, `template_id`, `lfevent_details`,
   `configured_instances` and the clients.
6. What waits, polls, retries or restarts: `BootVdu`, `ServiceNetwork`, `ClientSession`, `ServiceLife`, composed in `MCProcesses`, with liveness.
7. A request from the words of a command to the rows of the database: `CommandLine`, `CommandRoutes`, `XmlCodec`, `WsgiPipeline`, `RestRequest`,
   `AttributeRules`, `RestListing`, `ServiceTables`; what descriptors turn into: `DescriptorParsers`, `LifecycleData`.
8. Actors that share something: `SharedClients`, `RouterDriver`, `OsloCommon`, `RpcMessages`, `ServiceUpdate`, `DbMigration`. (7) and (8) are composed in `MCRequests`.
9. Proofs of `WorkerPool` with its refinement of `ThreadReports`, of the order of post-configuration in `NSOrchestration`, of `SharedPlugin`,
   `TemplateCatalog` and `DeletedMeansGone`; of all invariants of `MCProcesses`; of `RpcMessages` and `ServiceUpdate`
   (`MessagesTrue`); of `SharedClients`, `RouterDriver` and the locks of `OsloCommon` (`ActorsApart`); of `DbMigration` and
   `ServiceTables` (`DatabaseTrue`), the action properties in `StepsMeant`; of `RestRequest`, `WsgiPipeline`, `AttributeRules` and the checks of a policy rule
   (`RequestsScreened`), `RestListing` (`AnswersTrue`), `CommandLine` and `CommandRoutes` (`CommandsTrue`), `DescriptorParsers` and `LifecycleData` (`DescriptorsTrue`).
10. Left: what a policy rule means by its grammar (`ParsedAsMeant`) and that a document survives XML (`XmlCodec`), the two halves of `TextsMeant`. Both are
   functions of a text or a tree of any depth and would need induction over data.

## 3. The modules and the code

Every definition that stands for code is listed under `map` in `PROJECT.json` with the lines it stands for. Operators
whose comment begins with "Mutant:" are deliberately wrong versions of the definition after them; they are used
nowhere, and substituting one for its definition makes the run named in `PROJECT.json` fail.

### A step

Both processes are monkey-patched by eventlet: a green thread runs until it does I/O over sockets, sleeps, or waits for a
lock. What lies between two such points is one action. The database driver is MySQLdb, a C extension that blocks the whole
process, so database calls do *not* separate steps, while calls to nova, neutron, glance, keystone and ansible and RPC casts do.

### Bringing up one service: `NetworkService`, `Deployment`, `VNFManager`, `NSOrchestration`

`NetworkService` has the constants a descriptor yields (VDUs, instances, dependencies, which events name a driver) and
what plugin and manager share: machines, the manager's process, casts and acknowledgements on their way. A unit of work
is an event (`init` or `config`) of an instance; `done` is the set of units whose work a machine really carries, a fact
neither process can see. `OrderedBringUp` speaks of it, which is what makes `DependencyOrder` an end-to-end property.

| `Deployment` | code |
|---|---|
| `pc`, `batch`, `round`, `waiting`, `postQueue` | where the green thread `deploy_vnfs` is, and its local lists |
| `deployed`, `confGenerated`, `mgrInvoked`, `ackList`, `configured`, `errored`, `cfgAck`, `cfgErrored` | entries of `ns_dict[nsd_id]`; `configured` is a list because its length ends the loop of `plugin.py:847` |
| `CreateVnfds`, `BootStart`, `BootDone`, `BootError` | `_create_vnfds`, `_launch_vnfds`, `_boot_vdu` |
| `InvokeManager` and its failures, `SendConfigure` | `_generate_vnfm_conf` and what is done with the configuration: a file and a new process first, casts later |
| `WaitDone`, `WaitRaise`, `ResolveRound`, `ResolveDone` | `wait_for_acknowledgment`, `_resolve_dependency` |
| `ConfigDetails`, `PostConfigure`, `PostRound`, `WaitPostDone`, `PostDone` | `get_ns_config_details`, `ns_postConfigure`, the end of `deploy_vnfs` |
| `SendAck` with `InitAck`, `ConfigAck` | the RPC handler: `build_acknowledge_list`, `buildConfigAck` |
| `ApiFailure`, `Restart` | an exception nothing catches; the server's memory lost |

| `VNFManager` | code |
|---|---|
| `drvConf`, `complete`, `threads` | `drv_conf` and its `COMPLETE` lists, `launchd_threads_info` |
| `MgrStart`, `MgrConstructed`, `MgrListen` | `__init__` works through the file *before* the service declares its queue |
| `ConfigureVdus`, `PostConfigureCast`, `ConfigureInstance` | the handlers and `_configure_vdu` |
| `ConfigureService`, `MonitorAck` | a driver's thread; the monitor, one thread at a time (`WorkerPool` has the details) |
| `MgrStartFails`, `ConfigureVdusFails`, `AckFailure`, `MgrCrash` | drivers that cannot be imported, missing addresses, a process nobody supervises |

`NSOrchestration` interleaves the two; `NSOrchestrationInv` adds the inductive invariant and `CycleNeverBoots`.
Abstracted: a VDU has one name (the plugin says `vnf:vdu`, the manager `vdu`); the several instances of a VDU are booted in one step.

### The manager's threads: `WorkerPool`, `ThreadReports`

`info` is `launchd_threads_info` (by the four hex digits `Id` a thread is given, `vnf_manager.py:264`), `lock` the condition's
lock, `worker[u]` an `ImplThread`, `monitor` the place in `monitor_thread_pool`. `StoreResult` is the locked end of `run` with its
`notify`, which is lost unless the monitor waits; `MonitorWait`/`MonitorWake` are the two halves of `condition.wait`.
`SendAckFails`, `KillThread` and the second disjunct of `StoreResult` are the ways a thread ends with the lock held. `clash` is
a history variable: an identifier was given while it was in use. `ThreadReports` says what `VNFManager` takes for granted.

### Deleting: `ServiceDeletion`

`dict` is the module global `service_db_dict` (`vnf_db.py:38`), filled by `DeleteService` and read by every deletion in progress. `pc[r]`,
`idx`, `last`, `todo` are the progress of `delete_service`/`delete_vnfs` for request `r`; `row` and `recorded` the rows' status and
instances columns; `up` and `mgr` what really runs. Deployments appear only with the steps a deletion can get between,
`CreateServers` and `RecordInstances` apart, because the ids reach the database a round trip after the servers exist.

### The catalog: `TemplateCatalog`

An upload goes through its VNFDs (`nth`) and their flavors and images (`made`), holding the copy `snap` of `templates.json` it loaded
at the start; `json` is the file. `UploadFails`, `TemplateCleanup` and `CleanupEnds` are the except clause of `get_vnf_details`;
`DeleteTemplate` to `DeleteTemplateInfo` are `delete_template`; `Activate` is `create_activate`, whose lookup of the template always fails
(`vnf_db.py:499` uses a variable before it is assigned), so that a template cannot be deactivated. `overlapped` is a history variable.

### Several services in one plugin: `SharedPlugin`

The first five variables are attributes of the plugin object, the others are indexed by service. The module keeps the steps of
`create_service` and `deploy_vnfs` that touch those attributes, apart wherever a call that yields lies between: `Launch` looks a VDU up
under `template_id` as it is then (`plugin.py:876`), `WaitIndependent` waits for `independent_vdus` as it is after the manager was started
(`plugin.py:846`), `GenerateConf` passes over instances named in `configured_instances`, `Booted` polls with the clients last made by
anybody, an acknowledgement's handler included. Failures of OpenStack, several instances and the order of post-configuration are
left to `Deployment`: what goes wrong here goes wrong although nothing fails.

### What waits and retries: `BootVdu`, `ServiceNetwork`, `ClientSession`, `ServiceLife`

* `BootVdu` opens the step `BootDone` of `Deployment`: `left` and `at` are the list of `_boot_vdu` and the place of the for-loop in it, which it shrinks
  under itself (`plugin.py:1290-1302`); `active` is compared with `!=`. That it still returns every machine once is `BootComplete`.
* `ServiceNetwork`: `ifaces`, `ports` and `puppet` are what exists on OpenStack, `netPc` the request that makes them, `delPc` the deletion that removes whatever
  it finds on the networks of its service. `netFault` notes for which services a call was refused.
* `ClientSession`: one call of the client with `retry_request`, the second attempt after a 401, and the `format` that `APIParamsCall` sets and restores.
* `ServiceLife`: first the launcher of the vnf-manager (`Launcher.wait`, `Services.restart`, a HUP or TERM at any time, the state report whose loop
  stops itself), then the start of the server's processes, their consumers and their port.

### A request: `CommandLine`, `CommandRoutes`, `XmlCodec`, `WsgiPipeline`, `RestRequest`, `AttributeRules`, `RestListing`

* `CommandLine`: words to commands (`run`, `run_subcommand`), unknown options to values (`parse_args_to_dict`), names to rows that others create and delete
  meanwhile, then the values a command sends and the table it prints.
* `CommandRoutes` follows each command through the five tables and names the three resources whose commands end nowhere
  (`ThreeDeadEnds`): `register` has no handler, `metric` and `service_driver` no route.
* `XmlCodec`: writer and reader of both sides over documents of one resource.
* `WsgiPipeline`: filters down to an application and up again, exceptions included; a body read in parts of any size; the two kinds of application of `wsgi.py`.
* `RestRequest`: `Controller.create`, `update`, `delete` with `prepare_request_body`, the bulk and its undo. `AttributeRules` has the validators and conversions one by one,
  `RestListing` pages (emulated and native, either direction, rows that come and go) and fields.

### Rows and descriptors: `ServiceTables`, `DescriptorParsers`, `LifecycleData`

* `ServiceTables`: first the rows of one service's VDUs, found by names that lie inside one another; then services, templates and VDU configurations, one statement
  per step, with a crash of the server between any two (`Crash`).
* `DescriptorParsers`: from the networks of an NSD and the interfaces of a VNFD to the networks of each VDU's cards; then the document of a running service.
* `LifecycleData`: what the events of a VDU say of other machines, filled in when their addresses are known; then the user data file each launch writes anew.

### Actors that share: `SharedClients`, `RouterDriver`, `OsloCommon`, `RpcMessages`, `ServiceUpdate`, `DbMigration`

* `SharedClients`: the three attributes every caller of `auth` replaces; `ClientsOfOne` says when a request keeps the clients of its tenant.
* `RouterDriver`: init threads of two instances over one driver object, config threads with one each, and what the router has pending, running and saved.
* `OsloCommon`: the semaphores of `lockutils` (weak references) with the lock file between processes, around `VNFSvcManager.get_instance`; then the parser
  of policy rules, a reduction of the stack per step.
* `RpcMessages`: three consumers per start, none of which a stop ends; contexts copied, elevated, serialised.
* `ServiceUpdate`: `update_service` and `update_configuration` against the rest of a service's life. The row is committed (`RowCreated`) long before the manager is
  started (`StartManager`) and its proxy recorded in `agent_mapping` (`RecordProxy`); a deployment may fail before either (`LaunchFails`), the manager may not have its queue yet
  or have ended, and a deletion or a restart of the plugin may come at any time. What the manager does with its VDUs is in `VNFManager`.
* `DbMigration`: the commands of two operators, statement by statement, on a database with or without transactional DDL.

The parts of `MCProcesses` and of `MCRequests` have no variable in common. `turn` is chosen at the start and says which of them a behaviour is about; the others keep
still. A property of these two runs is therefore a conjunction of what its parts promise, each a named and commented definition of its module,
type invariants included; `turn = ... =>` spares TLC the parts that do not move.

## 4. The runs

| run | instance | shows | states |
|---|---|---|---|
| `orch_faults` | four VDUs in a diamond, one with two instances, with and without drivers for both events; all six kinds of fault | `DependencyOrder`, `ActiveMeansInitDone`, `InitErrorKeepsInactive`, `ConfiguredOnce`, `PostConfigureOrder`, `InitBeforeConfig`, the inductive invariant `IInv` (with the types), the refinement of `OrderedBringUp` | 15 427 |
| `orch_live` | the same; machines, drivers and API calls may fail | `DeploymentEnds`, `FailureReported` | 3 526 |
| `pool_clash` | three threads, three identifiers that may be given twice, casts may fail | `PoolInv` (types, `LockReleased`, inductive), `NoMissedResult`, `AckedOnce`, `EveryThreadAcked`, the refinement of `ThreadReports` as long as no identifier has clashed | 225 202 |
| `delete_any` | two services with two VDUs and one, one manager remote, two requests for any of them at any time; failing machines and calls | `OnlyAskedLose` | 1 599 176 |
| `delete_serial` | one VDU has two machines; requests one at a time, for services that are deployed | `DeletedMeansGone`, `DeletionCompletes` | 11 296 |
| `delete_overlap` | as before, the requests may overlap | *violates* `DeletedMeansGone` | |
| `catalog_any` | two uploads of one service with two VNFDs in different order; deletions, all faults | `CatalogInv` (types, `PartsKept`, inductive), `DeletedFlavorsGone`, `FailedLeavesFinished`; `FilesListed` and `NamesUnique` as long as requests do not overlap | 27 706 |
| `catalog_files` | uploads of two services that overlap | *violates* `DescriptorListed` | |
| `shared_any` | two services whose templates have VDUs of the same names in different orders | `PluginInv` (types, `EventsComplete`, `ActiveMeansConfigured`, inductive), `OrderKept`; `OwnTemplate` and `BroughtUpAlone` as long as services come one at a time | 15 164 |
| `shared_overlap` | the same | *violates* `BroughtUp` | |
| `processes` | launches of up to three machines on two networks; two services, one with a puppet master, their networks apart; two retries; a HUP twice and a TERM; two servers after one port for three seconds | `BringUpTrue`, `ProcessesTrue`; `LoopsEnd`, `SignalsServed` | 194 087 |
| `requests` | each part of (7) and (8) of the plan, see below | `RequestsScreened`, `AnswersTrue`, `CommandsTrue`, `TextsMeant`, `DescriptorsTrue`, `DatabaseTrue`, `ActorsApart`, `MessagesTrue`; the action properties in `StepsMeant` | 689 361 |

| property | conjuncts, by module |
|---|---|
| `BringUpTrue` | `BootVdu`: BootInv (CreationSound, PollSound, BootComplete, BootRecorded, BootReachable; inductive). `ServiceNetwork`: NetInv (PortsPlaced, PuppetKnown, KeysSound, LaidSound, ClearingSound; inductive), NetKept, NetCleared |
| `ProcessesTrue` | `ClientSession`: SessionInv (UnderWaySound, RunsBounded, SuccessRan, GivesUpLate, FormatRestored). `ServiceLife`: LifeInv (LauncherSound, OneLoopEach, ExitIsClean), ServerInv (StartSound, ServesWholly, NewcomerOnly, FailsForReason); all three inductive |
| `LoopsEnd` | `BootVdu`: BootEnds. `ServiceNetwork`: NetAnswered. `ClientSession`: CallEnds. `ServiceLife`: StartEnds |
| `SignalsServed` | `ServiceLife`: FailureEnds, HangupRestarts, StoppedStaysStopped |
| `RequestsScreened` | `RestRequest`: RestInv (ItemsKept, RestPhases, MadeAsKnown, UndoneSoFar, Screened, RefusedUntouched, BulkUndone, CreatedAll). `WsgiPipeline`: HttpInv (PassedFilters, TaggedBehind, FaultsOnTheWay, NoAnonymousCall, TaggedAlways, FaultsInKind, BodyBounded, DecodedAsAnswered). `AttributeRules`: RuleInv (CheckedSoFar, CollectedSoFar, VerdictFixed, TakenAsRuled, TakenAgain, PairsKept). `OsloCommon`: PolInv (MissingNeverAllows, ListAsText, SteadyChecks); all inductive |
| `AnswersTrue` | `RestListing`: ListInv (WalkSound, WalkComplete, WalkOrdered, PagesAgree), ViewInv (FieldsApart, AskedShown, NothingElseShown, FieldsHarmless); both inductive |
| `CommandsTrue` | `CommandLine`: CliInv (HelpHarmless, DomainKept, ParsedAsWritten, StatusTrue, TargetFound, ParsedSoFar), ValuesInv (FieldsReach, NetworksReach, VdusReach, OnlyMeantSent, PrintedTrue, SentAsComposed). `CommandRoutes`: RoutesInv (CommandSoFar, ThreeDeadEnds, ChangesOnlyOwn, LookedUpThere, KeysUnderstood, HandedAsDeclared); all inductive |
| `TextsMeant` | `OsloCommon`: ParsedAsMeant. `XmlCodec`: XmlRoundTrip, XmlNothingInvented, XmlLastItem |
| `DescriptorsTrue` | `DescriptorParsers`: DescInv (WiredAsDescribed, ParsedWhenComplete, FixedPorts, CardOrder, ReadSoFar), DocInv (DocumentWhole, ArtifactOfLast, IdsApart, NoInnerNames, DumpTrue, RoundsInOrder, WrittenWhole). `LifecycleData`: LfInv (DataOfOneMachine, FailsForCause, LostForCause, LfSoFar), UdInv (AllFilledIn, OwnRun, NetworkFirst, IndexForeign, FailsForMark, FileSoFar); all inductive |
| `DatabaseTrue` | `ServiceTables`: RowsInv (RowsAlone, RowsTrue, LookupsTrue, NamesApart), TablesInv (TemplatesListed, RowsListed, NoOrphans, ConfiguredWholly, BootedAsDescribed, MachinesKept). `DbMigration`: MigrationInv (RunsApart, RunSound, MadeStays, TablesSound, SavedSound, VersionSound, TablesAsVersion, AllOrNoTable); all inductive |
| `ActorsApart` | `SharedClients`: ClientsInv (FailsForClients, MadeForTenant, ClientsOfOne, AdminGoesOn, ListingTrue, HostFound, CallerSound, ClientsFollow, ListingSound). `OsloCommon`: LockInv (Exclusive, OneInstance, SameSemaphore, NothingLeft, SomeoneGoesOn, Registered, HeldByOne, FileLocked). `RouterDriver`: RouterInv (CompleteMeansSaved, AllOrNone, RouteGoesLast, ErrorForCause, GivesUpLast, PlaceOk, SettingsOk, SessionOwn); all three inductive |
| `MessagesTrue` | `RpcMessages`: RpcInv (CastsSound, SendersSound, WaysSound, IdentityKept, AdminByCopyOnly, SessionsApart, HandledOnce, NothingMissed). `ServiceUpdate`: UpdateInv (ProxyHeld, MessagesMeant, LaunchesMeant); both inductive |
| `StepsMeant` | `CommandLine`: OneRowMeant. `ServiceTables`: OneTemplateMeant, InfoTrue. `DescriptorParsers`: DumpSettled. `DbMigration`: UpgradedWholly, DowngradedWholly, OnlyRunsWrite, EngineAsAsked, OneStepOnly. `ServiceUpdate`: NoProxyYet, GoneIsRefused |

### Why the bounds are enough

*Diamond.* It is the smallest graph with a VDU that has two dependencies, a dependency with two dependents, three rounds and two VDUs in a round; the
VDU with two instances is one others wait for, so that counting acknowledgements matters. The theorems of section 6 hold for every graph.
*Threads.* Two threads with one identifier need two, a third contends for the lock meanwhile.
*Deletions.* Two requests are needed to overwrite the global; the services have different numbers of VDUs, so that the index of one
runs over the end of the other's list. A third adds nothing a second does not do in two steps.
*Uploads.* Each may be refused, fail, be deleted and be followed by the other; two overlap in every way.
*Services.* The templates differ in what is independent, both ways: each may wait for too many VDUs and for too few.
*Processes.* Of three machines the middle one may be removed from the list under the loop, and the last passed over. One retry that fails and one that
works need two. The second HUP may come while the first is served. Of two servers one finds the port taken.
*Requests.* Bulks of three items, so that the undo has two to go through; tables of three rows, two of which are equal in each column, with limits smaller and
larger than them; five words for a rule, what `a and b or c` takes; VDU names of which one lies in another (`a` in `ab`, `web` in `webcache`); two templates
of one type, one with two flavours; four threads in two processes on two locks; two operators with two commands between them (`DatabaseSafe` is of any number; a third and a fourth were gone through as well while it was being proved, too long for a run kept here); two instances of a router with
one network card and one setting each; a bus with two plugins and a manager; a service with a deployment, two updates at a time and one restart. Bodies are up to `MaxLength`, four, long and may be twice
the limit; the values of a body are nested at most `Deepest`, four, deep; up to `MaxSpecs`, four, items lie behind the words a command knows.
No run has a state constraint. The only unbounded quantity, the sequence of templates a VDU is booted from, ends by itself: a VDU is launched again only by
a round that begins too early. Deadlock is not checked anywhere because every one of these systems ends: a deployment, an upload or a deletion is over,
and a thread that waits for a lost message waits for ever.

### What the violations show

* `delete_overlap`: a delete request replaces the dictionary a deletion in progress goes through; that one removes the rows of its
  service and leaves machines of it running.
* `catalog_files`: an upload writes back the copy of `templates.json` it loaded before another upload was done; the other's template is in
  the catalog and its descriptor nowhere.
* `shared_overlap`: a service waits for a VDU only another service has, its machines booted from the other's template.

Some hazards are only half covered, because the code gives no promise there; `PROJECT.json` says at each which half: an ERROR overwritten by a later ACTIVE, a deployment
nobody resumes after a restart, a dropped cast, machines created while their service is deleted, templates of one name uploaded at once, the session two routers share.

More was met while reading and is in the models, where the properties say what holds in spite of it:

* A deletion between the creation of servers and the record of their ids leaves the servers (`ServiceDeletion`; `DeletedMeansGone` holds of deployed services).
* A cyclic dependency is accepted and then neither reported nor given up (proved: `CycleSafe`); `create_activate` cannot deactivate a template.
* A VDU with several machines is post-configured with the data of the last (`DataOfOneMachine`), and one without 'config' event with that of its 'init'.
* The XML client sends a list of several items as its last (`XmlLastItem`), and of several `--vdus` the last alone.
* Two services with a network or a router in common: the deletion of one takes the other's interfaces and ports (the exception `Sharers` in `NetKept`).
* `update_configuration` finds the row of a service whatever its status, and raises a KeyError where this plugin has not invoked the manager: while machines are booted,
  after a deployment that failed before, and after a restart (`NoProxyYet`). `update_service` makes a proxy of its own and is answered even if nobody listens.
  An update never reaches a driver, because `update_vdu_configuration` calls `_configure_vdu` with too few arguments and reports 'UPDATE FAILED'.
* The state report calls a method the server does not have and stops its own loop; a stopped service goes on taking casts, as its connection has no `close`.
* Two init threads of a router may commit each other's session (the exception in `CompleteMeansSaved`).
* Rules such as `a and b or c` are not parsed but denied (`ParsedAsMeant`), and a rule that is missing may allow where another asks for it under a `not` (the exception in `MissingNeverAllows`).
* Where DDL is not transactional a migration that fails half way cannot be taken up again, and a downgrade beside another command leaves tables that are not those
  of the version (the exceptions `blemish` in `TablesAsVersion`). Any of them may happen after another: that `blemish` has to keep all that happened came out
  of the proof: the two commands of the run are too few to tell.

## 5. Fairness

*`orch_live`.* Weak fairness of the plugin's green thread, of its handler for each acknowledgement, of the manager's start, handlers and threads, and of nova
answering one way or the other. Eventlet runs every thread that is ready and every loop here sleeps or does I/O, except the one of a cyclic
dependency, which the instance has not. Nothing is assumed of faults: a driver *may* always fail. `DeploymentEnds` excludes behaviours in
which a cast was dropped or a process died, after which the code does wait for ever; `FailureReported` only those in which a process died.
*`pool_clash`.* Weak fairness of the monitor and of each thread while it runs its driver, strong fairness of storing a result, for which a
thread needs the lock others take and release in between. The semaphore eventlet builds the lock from queues its waiters, so each has its turn.
*`delete_serial`.* Weak fairness of each deletion: it is a loop over calls that return or raise.
*`shared_any`.* Weak fairness of each service's thread and of each acknowledgement.
*`processes`.* Weak fairness of every thread that can go on: the launch, each service's creation, the call of the client, launcher and service of the manager's
process, the start of each server; and of nova, which in the end makes a machine ACTIVE or ERROR. Nothing is assumed of failures or signals. The wait for the
puppet master ends unless its machine is in ERROR, which `NetAnswered` says.

## 6. What is proved

TLAPS checks every proof from nothing but the assumptions on constants, which the modules state and every run evaluates:

* `ServiceAssumption`: finitely many VDUs and instances, every VDU has an instance; dependencies arbitrary, cyclic or naming what does not exist.
* `PoolAssumption`: the values that stand for "nobody" and the monitor are no units or identifiers.
* `SharedAssumption`: a template has some VDUs, finitely many, that depend on VDUs of it.
* `CatalogAssumption`: an upload lists a VNFD once (they are keys of a dictionary), no part belongs to two VNFDs, a VNFD ends with a flavor.
* `DeletionAssumption`: a service lists a VDU once (a key of its row's dictionary), no VDU belongs to two services.
* `NetAssumption`: what a service names of networks lies on networks of its own, with a network for management if it has a puppet master.
* `BootAssumption`, `RetriesAssumption`, `MaxHupsAssumption`, `ServerAssumption`: bounds are numbers, and values that stand for "nobody" are no processes.
* `RpcAssumption`: requests, programs and messages of an older program have names of their own; a plugin listens on topics no manager listens
  on; headers do not make a request an administrator's; an older program's message names its user and tenant under one of the keys it used.
* `UpdateAssumption`: the bound of restarts is a natural number.
* `LockAssumption`: finitely many threads, and who makes the plugin does so under a lock of its process (`get_instance` is `synchronized` without a file).
* `DriverAssumption`: the texts of a router's firewall rules are no network cards.
* `RowsAssumption`: a name occurs in itself; a descriptor lists a VDU once (they are keys of a dictionary).
* `CommandLineAssumption`, `CommandValuesAssumption`, `KindsAssumption`: finitely many ids of rows and fields; what stands for "no row", "no id", "no VDU", "no column" or no
  network at all is none of them; the kinds of commands are those there are.
* `RestAssumption`: a bulk may have an item. `PipelineAssumption`: every pipeline begins with `request_id` and has `catch_errors`, `authtoken` and `keystonecontext`, as the
  one of `vnfsvc/etc/api-paste.ini` does. `RuleAssumption`: a conversion is one of those there are, and lists of pairs are sequences.
* `ListingAssumption`: finitely many rows, their ids and columns compare as numbers do; some limit is configured. `ViewsAssumption`: the columns of a resource and
  those its policy is about are attributes of it, and the key is a column.
* `PolicyAssumption`: lengths are numbers.
* `DescriptorsAssumption`, `NetworksAssumption`, `DocumentAssumption`, `LifecycleAssumption`, `UserDataAssumption`: descriptors are of the VDUs, networks and interfaces there are,
  finitely many interfaces; a VDU has a machine and is in a round; a name lies in itself; "no network" is none.
* `ClientsAssumption`: every caller logs in first and looks at nothing it does not make a client for, as the callers in `plugin.py` do; nobody's
  acknowledgement is no tenant; a machine has a flavor; a name begins itself.

| module | theorems |
|---|---|
| `NSOrchestration_proofs` | `TypeCorrect`, `Invariance` (`IInv`), and from it `OrderSafe`, `ActiveSafe`, `ErrorSafe`, `ConfiguredOnceSafe`, `PostOrderSafe`, `InitFirstSafe`, `CycleSafe`; `Refinement`: every step of plugin and manager is a step of `OrderedBringUp` or changes nothing it sees |
| `ServiceDeletion_proofs` | `TypeCorrect`, `OnlyAskedLoses` (a property of steps), `DeletedGone` |
| `SharedPlugin_proofs` | `PluginSafe` (`PluginInv`), `OrderKeptSafe`, `OwnTemplateSafe` |
| `TemplateCatalog_proofs` | `CatalogSafe` (`CatalogInv`), `DeletedFlavorsGoneSafe`, `FailedLeavesFinishedSafe`, `FilesListedSafe`, `NamesUniqueSafe` |
| `MCProcesses_proofs` | `BringUpSafe` (`BringUpTrue`), `ProcessesSafe` (`ProcessesTrue`): all invariants of `BootVdu`, `ServiceNetwork`, `ClientSession`, `ServiceLife`; of `WorkerPool`, `PoolSafe` (`PoolInv`), `NothingMissed`, `AckedOnceSafe` and the refinement of `ThreadReports`, `ReportsRefined` |
| `MCRequests_proofs` | `RequestsSafe` (`RequestsScreened`), `AnswersSafe` (`AnswersTrue`), `CommandsSafe` (`CommandsTrue`), `DescriptorsSafe` (`DescriptorsTrue`), `DatabaseSafe` (`DatabaseTrue`), `ActorsSafe` (`ActorsApart`), `MessagesSafe` (`MessagesTrue`): all invariants of the modules of (7) and (8) of the plan but for `TextsMeant`; `StepsSafe` (`StepsMeant`): all eleven properties of steps |

The theorems of `MCRequests_proofs` rest on lemmas of three places, one section per part, each ending in the two lemmas that its invariant holds at the start and is kept by every step: `RequestParts_proofs`
has requests, rows and descriptors, `SharedActors_proofs` the lock, policy, router, clients, migrations, messages and updates, `MCRequests_proofs` itself `CommandLine`.

**The argument for `DependencyOrder`.** It is not inductive: that machines exist only after their dependencies are configured depends on what
the plugin *believes*, and its belief on how acknowledgements are counted. `IInv == TypeOK /\ WorkInv /\ PlanInv /\ PostInv` closes the gap.
`WorkInv` follows the initial configuration of an instance: it is at one place at a time (to do, in a thread, in an acknowledgement, recorded), so it
is acknowledged once; results and acknowledgements are true; hence a list of as many acknowledgements as there are instances names all of them
(a fact about finite sets: `WholeSet`), and a VDU in `configured` is configured, and listed once. `ErroredSpent` keeps a VDU with a failed
instance from ever being counted. `PlanInv` ties that to the plugin's progress: what is about to be launched, or has machines, depends only
on VDUs in `configured`; past the loop all VDUs are in it. Each conjunct is broken by a step unless the others hold; TLC checks `IInv` in `orch_faults`.

**The order of post-configuration.** The keys `ns_postConfigure` goes by say that *some* instance of a VDU has acknowledged, or that there was nothing to
do (`Served`). `PostInv` follows that: such a key is true, and whatever is asked for, on its way or in a thread is of a VDU that is initialised
and depends on VDUs that are served. It needs `PlanInv` where the plugin leaves its loop and `Truthful` where an acknowledgement is recorded.

**The manager's threads.** `LockHeld` says where each holder of the lock stands, `ScanWhole` that the monitor's list has every result it has not seen, so that it
waits only when there is none (`NoMissedResult`): a result can only be stored while nobody scans, and a lost `notify` means that a scan comes. `EntriesOwned`
ties an entry to the thread last given its identifier, and is what makes `AckedOnce` true even when identifiers clash: a unit that
was acknowledged has no entry but the one in hand. `ResultsOwn` says, as long as none has clashed, that what is stored is the thread's own result; with it every step is one of
`ThreadReports` or invisible to it. The refinement stops at a clash: the specification it implements is `[Reports!Next \/ clash']_<<threadOf, acks>>`.

**The argument for `OnlyAskedLose`.** `DInv` says that whatever is in the global dictionary, and in the rest of any deletion's loop, belongs to
services somebody asked to delete: requests only ever fill the dictionary with their own target, and nobody withdraws a request. So a
deletion may take the wrong machines, those of another request, but none of a service nobody wanted deleted.

**The argument for `DeletedMeansGone`.** `DeletedGone` is of `SerialSpec`, the specification of the run `delete_serial`, and supposes that calls to OpenStack
do not raise (`"api" \notin Faults`; a call that raises ends `delete_vnfs` half way); machines may still end in ERROR, and other services be brought up meanwhile. The invariant,
`SerialInv`, was checked by TLC on the constants of that run. `ServiceSound` says that the rows list the machines a service has, but between their
creation and the record of their ids; `DeletionSound`, that the global dictionary is of the service that is deleted, and that what is left of it are the
machines of the VDU the loop is at and of those after it (`LeftAfter`), which are apart because no VDU is listed twice.

**Services in one plugin.** `ListsSound` holds whatever overlaps: `ns_dict` is by service, so its lists have VDUs of the service alone, and what a
round begins with depends on what is configured, although `_resolve_dependency` may have waited for VDUs of another service. `LoneService` is of the
attributes: as long as nobody has overlapped they are those of the only service under way, which then waits for the very round it has launched (`RoundSound`); without that
a VDU could be launched twice and `OwnTemplate` would not be kept.

**The catalog.** `UploadSound` tells from the place of an upload and its counters what there is of it on OpenStack: parts of VNFDs that are finished, and those
noted of the one it is at. No step touches the parts of another upload, whatever overlaps, so `PartsKept`, `DeletedFlavorsGone` and
`FailedLeavesFinished` need nothing else. `LoneRequest` has what names and files rest on while requests come one at a time: no template has come by the
name of the one that is uploaded since it looked, and the copy it will write back has the files of all the others. `FilesListed` speaks of the files no template of
another name has too; of all VNFDs it would not be true: a service of another name with a VNFD of the same name takes the entry over.

**Booting.** `PollSound` ties the loop to the list it shrinks: the machines still in the list and those taken from it are the ones launched, each once,
and the counter the loop compares with `!=` is the number of those taken. So it meets the number of machines exactly when the list is empty, and not before.

**Networks of services.** `NetKept` follows from `LaidSound`, which says what a request has laid at each of its places, and `NetCleared` from `ClearingSound`,
which says what is left when a deletion has made its lists. What a deletion takes from another service lies on a network or a router both have (`Sharers`), because its lists
are of the networks and the router of its own; the port on the network of managers is on no service's network (`PortsPlaced`), so no deletion takes it.

**Sessions and processes.** `UnderWaySound` bounds what ran of a call by the attempts made; a call that ran and may not be repeated leaves the loop. `LauncherSound` and
`StartSound` say where the other thread may be for each place of the first; the rest follows case by case.

**The bus.** `HandledOnce` is about messages that are copied: a context goes over to another program with every cast, and a cast that is fanned out
goes to all consumers of its topic. The proof names each context by its way, the consumers it was taken by, and shows that ways are unique. `PendingFresh`
says that nothing has gone the way a cast on the bus has still to go, `UnsentFresh` that nothing has come of a context its holder has not sent, `CopyBeside` that a
copy has its original. A consumer that takes a cast lengthens its way, by itself, and is struck off those who have to get it; of a cast to one all
are. So two contexts of one cast were handled at different programs: only casts of managers go to all, they go to plugins alone, and a plugin
has one consumer. `NothingMissed` holds because a program that ends takes only its own consumers with it. The lemmas say of each operator of the module (`SendTo`, `Deliver`, `Ask`, `Elevate`...) what it keeps of the invariant.

**Updates.** A request that was checked is cast later, and between its steps the deployment may fail, the row go and the plugin restart. `LaunchesMeant` keeps what survives that: who
casts has found a row, a VDU of it and a proxy, since nothing leaves `agent_mapping` but by a restart, which ends the requests too. `MessagesMeant` follows for the message it sends; it
is on its way only to a manager that listens, because one that ends takes its queue with it. `ProxyHeld` is what `NoProxyYet` needs: where a manager was invoked, the proxy is there.

**Locks.** `Exclusive` for threads of one process follows from the dictionary of semaphores: `Registered` says that a thread that refers to a semaphore has the one
registered under the name of its lock, and no other name's; the entry cannot disappear while somebody refers to it (a `WeakValueDictionary`), so whoever comes meanwhile gets
the same. `HeldByOne` makes what is taken somebody's, and only his. Between processes it is the file (`FileLocked`, `NothingLeft`), and only when the lock is external to both: of two that
are not, or of one that is, nothing is claimed. `SomeoneGoesOn` needs that a thread waits for at most one semaphore and then for one file, whose holder waits for nothing.

**Routers.** What a thread is at, what it has left and what the machine has of it belong together, instance by instance: `PlaceOk` says which event may be where, `SettingsOk`
that what was sent to a machine that refuses nothing, and what is left to send, is all of it, until the save makes it permanent. A step for one instance can disturb another's by one thing only, the
`session_id` that the init threads share in the driver's object: `SessionOwn` says that it is the thread's own unless another has opened a session since it did (`mixed`). So
`CompleteMeansSaved` has exactly this exception.

**Clients.** `CallerSound` says whose the clients are that a caller works with: its own, or those of one that replaced them while it went on. The clients of one that was done before are
gone, because every caller logs in first. `ClientsFollow` is about the two halves of a login, nova and glance before neutron: they are of one caller when none is half way and
keystone refused nobody. In the listing of a host's machines `ListingSound` ties what has been asked to the machines that were read, which is what lets `ListingTrue` say that nothing is asked for twice.

**Migrations.** A run lays out its script once, from the version it reads, and goes through it a statement at a time; what is true of the tables meanwhile depends on how far it is. `RunSound` says
that what a run has still to do is the rest of that script, from the version it saved when it began. `RunsApart` says who runs beside whom: on a database
with transactional DDL nobody, elsewhere upgrades beside upgrades, unless a downgrade crossed. An upgrade only makes tables, so what it has passed is there (`MadeStays`), and a second one
breaks on the first table it finds. `TablesSound` puts that together: with no blemish at most one run is between its first table and the revision that tells of it, the tables are those up to its place,
and when none is between they are as the version says, which is `TablesAsVersion` when nobody runs. `SavedSound` says the same of what a transaction is taken back to, for `AllOrNoTable`. `VersionSound`
follows a run past the first revision, and has what `DowngradedWholly` needs: the third table is referred to by the fourth, so a downgrade gets past it only where no foreign key is enforced.

**Rows.** A row is found by the name of its VDU, as a part of its key. `RowsAlone` is what keeps names that lie inside one another from mixing rows up: two rows under one key
cannot be entered, so a service that got past `populate_vdu_details` has under each key its own VDU alone. Hence the name of a VDU matches one key, the first match is the last, and the events
and user data found are its own (`OneMatch`). That two VDUs of one name are refused even under two VNFDs (`NamesApart`) is the other side of it.

**Tables.** The half about templates and the half about services meet in two places: the template a service names is one of the table when it is entered, and the configuration it is
booted by is one of that template's (`ConfiguredWholly` lets no other in). `RowsListed` has what deletions need: a service that is entered has a row for each VDU
it lists, so an error of `get_manager_info` means that a removal is under way or was cut off (`InfoTrue`), and one not yet entered has had no machine, so that its new rows are true (`MachinesKept`).

**A request.** `RestInv` follows `Controller` through its places: an item is prepared before the plugin is called (`ItemsKept`), nothing is made before that (`RestPhases`, hence `RefusedUntouched`), and the undo has
dealt with all items below `undo` but those whose deletion was refused (`UndoneSoFar`), which is `BulkUndone` when it has reached the end. `Screened` is kept because what `prepare_request_body` is through with is never touched again.

**The pipeline.** A request is at a place `pos` of the pipeline. `PassedFilters` says what it owes to each filter it is past: a token that keystone vouched for, a context, a bound on what is read. The assumption on pipelines
makes `NoAnonymousCall` of it, since whoever is called is past all of them. On the way up an exception has the filter that catches it still before it (`TaggedBehind`), and no filter turns a fault of the application into
something else (`FaultsOnTheWay`). The length of a body and of its parts is any number.

**Rules of attributes.** The check goes through the keys in any order; `CheckedSoFar` says that what is found good is what the conversion makes of what came, and the rest is as it came. `TakenAgain` needs that every conversion
is idempotent and that a converted value passes the validator the unconverted one passed: the lemmas go through conversions and validators one by one.

**Policy rules.** A missing key makes a check raise a KeyError, which `check` takes for false. That this never lets anybody in is not a property of the answer alone: a `not` turns false into true. What is inductive is `Steady`: a check
that answers without the credentials' key at all answers the same whatever the key were. The atoms are steady, and `not`, `and`, `or` and the lists keep it, because a KeyError below them is a KeyError of theirs unless the answer was settled
before (`AndCheck` and `OrCheck` go on from left to right and stop). A check is a function of what is asked, so no induction over the text is needed: the invariant is of whatever lies on the stack.

**A walk.** Rows are ordered by the columns asked for and then by id, a total order of the finite table (`RowOrder`, which a lemma shows to be one). `WalkSound` says that what was seen is in order and that a row that stayed was seen or
comes after the marker; a page is the rows after the marker, cut off at the limit. A row that is deleted is taken out of both sides, unless it is the marker. `PagesAgree` compares what the API cuts out of the whole table with
what the database is asked for: both are the sorted rows on one side of the marker. `FieldsApart` has what the fields are put together from, so what is added for sorting and paging is what is taken out.

**A command.** `TargetFound` ties the row a command acts on to its look-up; ids are never used again, so that a row of that id is the one that was found, or is gone. `CommandSoFar` says which handlers have run at each of the five tables; that a body has the keys a
resource declares is then a matter of the tables, which are finite and written out in `CommandRoutes`: the lemmas go through them.

**Unknown options.** `ParsedAsWritten` compares `parse_args_to_dict`, one item per step with its half dozen local variables, with what was written: the segment behind the first occurrence of each option. `SoFar` says that the option that
is open is counted as written up to here (`TakenAs`), that the others are closed and final, because a segment ends at the next option (`ClosedAs`), and that each option's argument was handed on once, so that the one taken back for
`action=clear` is the last of the list and no other. Items are any sequence.

**Values.** `known` and `extra` are, before and after they are merged, what was typed in both places, and the request is a function of them (`RequestMade`), whose parts the lemmas go through kind by kind: the last pair of a network counts (`LastPair`). A list's
columns are those of the first row, by their place in the order asked for; that the places increase is a lemma on the `k`-th smallest of a finite set of numbers.

**Descriptors.** The two parsers go through networks and interfaces in any order; `ReadSoFar` says what has been read. A connection point has the network that joins it, so `WiredAsDescribed` needs no more than that `joined` never names a network that does
not. `CardOrder` rests on how cards are sorted: the one on the management network first, if there is one.

**Documents.** `RoundsInOrder` is what makes `DocumentWhole` true: a round begins when everything of those before is acknowledged, so an acknowledgement is sent with all that the manager knows, and whichever of the last round comes last brings all VDUs with it.
`WrittenWhole` keeps of the document what it was written of.

**Lifecycle data and user data.** Data are of VDUs that are up, and only a machine whose name another service has used is left out (`LfSoFar`). `FileSoFar` says of the file, at each of its three stages, which lines of the program stand in front of which commands;
`NetworkFirst`, `OwnRun` and `AllFilledIn` are read off that. A mark is filled in by the names a VDU's name lies in, so an index above one is another VDU's (`IndexForeign`).

**Properties of steps.** Each follows from the invariant of its part in the state before the step: `OneRowMeant` and `OneTemplateMeant` from counting (one row of a finite table), `DumpSettled` from `DumpTrue`, `NoProxyYet` from
`ProxyHeld`, `GoneIsRefused` because a deletion is final.

## 7. What is only model-checked

Liveness and everything that rests on fairness or ENABLED, which the prover does not reach: `DeploymentEnds`, `FailureReported`, `EveryThreadAcked`,
`DeletionCompletes`, `BroughtUpAlone`, `LoopsEnd`, `SignalsServed`.

`TextsMeant`, of the run `requests`: that a text is parsed as the grammar of policy rules has it (`ParsedAsMeant`), and that what goes through XML comes back (`XmlRoundTrip`, `XmlNothingInvented`, `XmlLastItem`). Both compare a function of
a text or tree with another, defined by recursion; that they agree on every input would need induction over the input. TLC goes through all texts of up to five words and all documents nested up to four deep that `MCRequests` lists.

## 8. What is not modelled

* **The diagnostics of the plugin:** `create_diagnostic` uses `diagnostics.DiagnosticsManager`, which the repository does not have; the command and its
  route are in `CommandLine` and `CommandRoutes`.
* **`vnffg.py`** is imported by nothing; **`agent/linux`** of the vnf-manager (neutron's `ip_lib.py`) neither.
* **OpenStack clients:** but for what `SharedClients` and `BootVdu` have, wrappers of one call each; the calls are steps of their callers that may fail or answer late.
* **Parsers:** the copying of values no other value depends on; YAML itself.
* **oslo:** `ProcessLauncher` (services are launched with one worker), `log.py`, `gettextutils.py`, `jsonutils.py` and the like.
* **`heal_script.py`** of the migrations, which compares models and tables by alembic's autogeneration.
* **Configuration, logging, exceptions:** options, formats and texts.
* The text of scripts and playbooks, the addresses of ports, iptables rules.
