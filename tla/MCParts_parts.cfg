SPECIFICATION Spec
CONSTANTS
    Pair = {a, b}
    Twins = {c, d}
    Serve = Serve
    None = None
    Before = Before
    LaunchNames = {"n", "m"}
    FailureLimit = 2
    MaxFaults = 3
    MaxPeople = 1
    Commands = {}
    RunsKept = 1
    MaxRuns = 2
    MaxRestarts = 1
    MaxFailures = 0
    MayReusePid = FALSE
    BridgeAsks = 3
    BridgeTrouble = 2
    Reporters = {"n"}
    Ring = 2
    Page = 1
    MaxEvents = 4
    MaxBoots = 2
    MaxPolls = 4
    MaxSealed = 3
    InstanceNames = {"x", "y"}
    MaxInstanceOps = 2
    MaxInstanceChanges = 2
    MaxChunks = 2
    MaxKeys = 1
    NetNames = {"x", "y"}
    Subnets = {1, 2, 3}
    HostSubnets = {3}
    MaxNetOps = 3
    Deliveries = {"d"}
    Single = {"s"}
    Crowd = {"d", "e"}
    IdsKept = 1
    MaxRequests = 2
    MaxCrowded = 3
    MaxLost = 1
    PushTrouble = 1
    ShareNames = {1}
    ShareOps = 2
    ShareTrouble = 1
    ImageBuilds = {"b"}
    ImageMade = {"w"}
    ImageAliases = {"x"}
    ImageSenders = 2
    ImageJobs = 1
    ImageChanges = 2
    PoolMachines = {"i"}
    PoolFingerprints = {"f"}
    PoolVolumes = {"v"}
    PoolProfiles = {"p"}
    PoolSize = 2
    PoolChanges = 2
    LifeWork = 2
    LifeStarts = 2
    LifeTrouble = 1
    HostPeers = {"p"}
    HostFabrics = {"f"}
    HostGuests = {"g"}
    HostChanges = 2
    StackNames = {1, 2}
    FlowSteps = {"a", "b", "c"}
    FlowTemplate <- LaunchedTemplates
    FlowLayouts <- FewLayouts
    BootUses = {"r"}
    BootSettings = 1
    FabricNodes = {1, 2, 3}
    FabricFounders = {{1}, {1, 2}}
    FabricPrefixes = {"p"}
    FabricSubnets = {1, 2, 3}
    FabricOps = 2
    FabricFaults = 1
    CliCommand = CliCommand
    LockoutAfter = 1
    FailureMemory = 2
    RecheckSeconds = 1
    LastUsedFlush = 1
    SessionLifetime = 2
    AuthClock = 2
    MaxLogins = 1
    AuthChanges = 1
    AuthAsks = 2
SYMMETRY Sym
INVARIANTS
    FailingIsMarked
    NothingIsSkipped
    RecordsTellTheTruth
    HostKeepsItsWay
    SealedOpens
    TagsAreItsOwn
    SubnetsApart
    NothingIsHalfDone
    ExitIsTold
    RunsAreRepeated
    OnlyTheEntitled
    SharesAreDone
    FabricsHold
    OnePassIsEnough
    ArrivesWhole
    DeliveredOnce
    StackHolds
    LaunchAsPromised
    ReferencesHold
    NextIsFirst
PROPERTIES
    NeededIsKept
    OwnRunsAreUndisturbed
    OnlyShownOrOwn
    OnlyShownIsTaken
CHECK_DEADLOCK FALSE
