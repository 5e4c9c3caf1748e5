CONSTANTS
  VnfdName = {"fa", "lb"}
  VduName = {"a", "b", "ab"}
  Inside <- InsideNames
  Descriptors <- ThreeVdus
  MaxItems = 3
  RowId = {1, 2, 3}
  Column <- TwoColumns
  Sortable = {"a", "b", "hidden"}
  MaxLimits <- SomeLimits
  MaxAsked = 3
  Bodies <- XmlBodies
  Singular <- XmlSingular
  PluralsOf <- XmlPlurals
  NamespaceOf <- XmlNamespace
  LinkKeys = {"services_links"}
  Deepest = 4
  Uuid = {"u1", "u2"}
  RowName = {"u1", "n"}
  MaxArgs = 3
  MaxSpecs = 4
  DescVdu = {"v", "w"}
  Vld = {"mgmt-if", "x", "y"}
  MgmtIf = "mgmt-if"
  Point = {"p", "q"}
  Iface = {"e0", "e1"}
  Descriptions <- DescSome
  LfVdu = {"a", "b", "c"}
  LfIface = {"e", "f"}
  NameInside <- NamesInside
  Unnameable = {}
  LfServices <- LfSome
  Pipelines <- SomePipelines
  MaxLength = 4
  BodyLimit = 2
  Caller = {"r1", "r2"}
  Tenant = {"A", "B"}
  Nobody = "nobody"
  Tenancies <- OsTenants
  Jobs <- OsJobs
  FlavorOf <- OsFlavors
  ImageOf <- OsImages
  Hypervisor = {"c1", "c10", "c2"}
  PrefixOf <- OsPrefix
  Template = {"t1", "t2"}
  TypeOf <- TbType
  VdusOf <- TbVdus
  Service = {"s1", "s2"}
  WantedType <- TbWanted
  WantedFlavour <- TbFlavour
  Machine = {"m1", "m2"}
  MaxMachines = 1
  ViewKind = {"services", "diagnostics", "templates"}
  PrimaryKey = "id"
  MaxSorts = 1
  Attribute = {"id", "status", "vdus", "tenant_id", "name", "files"}
  ColumnsOf <- VwColumns
  KnownOf <- VwKnown
  PolicyOf <- VwPolicy
  Trims <- VwTrims
  Key = {"a", "b"}
  RuleSpecs <- RlSpecs
  Data <- RlData
  Lists <- RlPairLists
  Field = {"f", "g"}
  Net = {"n1", "n2"}
  NetId = {"i1", "i2"}
  Vdu = {"v1", "v2"}
  Kinds = {"list", "show", "driver", "create", "activate", "diagnose", "update"}
  MaxRows = 2
  RuleWords = {"a", "(a", "r)", "and", "or", "not"}
  MaxWords = 5
  MaxLists = 2
  DocVdu = {"db", "web", "webcache"}
  Artifacts = {"db", "web"}
  RoundOf <- DocRounds
  Copies <- DocCopies
  NamedIn <- DocNamed
  UserVdu = {"web", "webcache", "db", "app"}
  WithinName <- UdWithin
  OwnCommands <- UdOwn
  InstancesOf <- UdMachines
  RouterVm = {"a", "b"}
  Card = {"c1"}
  Rules <- TwoRules
  Polls = 0
  Tries = 1
  Thread = {"t1", "t2", "t3", "t4"}
  LockProcess = {"p", "q"}
  ProcessOf <- LockProcesses
  Manager = "manager"
  ErrandsOf <- LockErrands
  Program = {"a", "b", "m"}
  PluginOf = {"a", "b"}
  TopicOf <- RpcTopics
  Asking <- RpcAsking
  Outdated <- RpcOutdated
  MayEnd = {"a"}
  MaxStarts = 1
  MaxSessions = 2
  Operator = {"o1", "o2"}
  MaxCommands = 2
  MaxCheckouts = 1
  Owner = {"a"}
  Asker = {"c1", "c2"}
  MaxRestarts = 1
  OwnerVdus <- UpdateVdus
  AskedVdu = {"vm", "fw"}
SPECIFICATION Spec
CHECK_DEADLOCK FALSE
INVARIANTS
  RequestsScreened
  AnswersTrue
  CommandsTrue
  TextsMeant
  DescriptorsTrue
  DatabaseTrue
  ActorsApart
  MessagesTrue
PROPERTY StepsMeant
