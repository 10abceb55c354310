------------------------------- MODULE Parts --------------------------------
(* What the components that MCParts puts side by side are given: their constants, *)
(* and variables to stand for theirs.                                             *)
CONSTANTS
    Pair, Twins,   \* two sets of two: nodes, processes or threads; runs, or what people ask for
    Serve,         \* the process of `serve`
    None, Before,  \* no value; the launch of an earlier day
    \* Launches: the names, LAUNCH_FAILURE_LIMIT, and the bounds.
    LaunchNames, FailureLimit, MaxFaults, MaxPeople,
    \* Runs: those of the command line, TASK_RUNS_KEPT, and the bounds; Bridge: the bounds.
    Commands, RunsKept, MaxRuns, MaxRestarts, MaxFailures, MayReusePid, BridgeAsks, BridgeTrouble,
    \* Events: the members, the ring and the answer, and the bounds.
    Reporters, Ring, Page, MaxEvents, MaxBoots, MaxPolls,
    \* Seal: the bound.
    MaxSealed,
    \* Instances, and Terminal: the names, and the bounds.
    InstanceNames, MaxInstanceOps, MaxInstanceChanges, MaxChunks, MaxKeys,
    \* Networks: their names, the blocks, those the host has, and the bound.
    NetNames, Subnets, HostSubnets, MaxNetOps,
    \* Triggers, then Crowded, for one member with more deliveries than it remembers.
    Deliveries, Single, Crowd, IdsKept, MaxRequests, MaxCrowded, MaxLost,
    \* Push: the bound; TemplateRuns: the names, and the bounds.
    PushTrouble, ShareNames, ShareOps, ShareTrouble,
    \* Images: what a remote serves, what is made here, the names, IMAGE_SEND_WORKERS, and the bounds.
    ImageBuilds, ImageMade, ImageAliases, ImageSenders, ImageJobs, ImageChanges,
    \* Pool: what lies on it, and the bounds; Life: the bounds.
    PoolMachines, PoolFingerprints, PoolVolumes, PoolProfiles, PoolSize, PoolChanges,
    LifeWork, LifeStarts, LifeTrouble,
    \* Host, the node's half of its fabrics: the names, and the bound.
    HostPeers, HostFabrics, HostGuests, HostChanges,
    \* Stacks: the names on a member.
    StackNames,
    \* Flow: the steps, what each launches and their stages; Boot: the runs, and the bound.
    FlowSteps, FlowTemplate, FlowLayouts, BootUses, BootSettings,
    \* Fabric: the hosts, who founds, the blocks and their subnets, and the bounds.
    FabricNodes, FabricFounders, FabricPrefixes, FabricSubnets, FabricOps, FabricFaults,
    \* Auth: a command, the sizes in auth.py, and the bounds.
    CliCommand, LockoutAfter, FailureMemory, RecheckSeconds, LastUsedFlush, SessionLifetime,
    AuthClock, MaxLogins, AuthChanges, AuthAsks

VARIABLES part, s1, s2, s3, s4, s5, s6, s7, s8, s9, s10, s11, s12, s13, s14, s15, s16
=============================================================================
