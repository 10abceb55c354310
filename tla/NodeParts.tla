----------------------------- MODULE NodeParts ------------------------------
(* Components of one node: what NodePartsProof proves about.                     *)
EXTENDS Parts

Launches == INSTANCE Launches WITH
    Procs <- Pair, Threads <- Twins, Names <- LaunchNames, Limit <- FailureLimit,
    th <- s1, creates <- s2, instances <- s3, lock <- s4, tripping <- s5, streak <- s6,
    mark <- s7, lifting <- s8, faults <- s9, people <- s10, lapsed <- s11

Runs == INSTANCE TaskRuns WITH
    ServeRuns <- Twins, CliRuns <- Commands, Kept <- RunsKept, MaxRuns <- MaxRuns,
    MaxRestarts <- MaxRestarts, MaxFailures <- MaxFailures, MayReusePid <- MayReusePid,
    alive <- s1, pids <- s2, stage <- s3, result <- s4, stopped <- s5, stopping <- s6,
    live <- s7, requested <- s8, instances <- s9, started <- s10, file <- s11, saves <- s12,
    sweep <- s13, restarts <- s14, failures <- s15, overlapped <- s16

Bridge == INSTANCE LanBridge WITH
    MaxAsks <- BridgeAsks, MaxTrouble <- BridgeTrouble,
    named <- s1, auto <- s2, own <- s3, back <- s4, made <- s5, up <- s6, doing <- s7,
    plan <- s8, failed <- s9, undone <- s10, cut <- s11, unfound <- s12, asks <- s13, trouble <- s14

Seal == INSTANCE SealKey WITH
    Procs <- Pair, Secrets <- Twins, MaxOps <- MaxSealed,
    key <- s1, held <- s2, at <- s3, op <- s4, mine <- s5, records <- s6, ops <- s7

Instances == INSTANCE Instances WITH
    Names <- InstanceNames, MaxOps <- MaxInstanceOps, MaxChanges <- MaxInstanceChanges,
    template <- s1, stack <- s2, has <- s3, inst <- s4, op <- s5, thread <- s6, taken <- s7,
    ops <- s8, changes <- s9

Terminal == INSTANCE Terminal WITH
    MaxChunks <- MaxChunks, MaxKeys <- MaxKeys,
    kind <- s1, guest <- s2, wire <- s3, data <- s4, in <- s5, out <- s6, page <- s7, code <- s8,
    late <- s9, keys <- s10

Networks == INSTANCE Networks WITH
    Threads <- Pair, Names <- NetNames, MaxOps <- MaxNetOps,
    net <- s1, used <- s2, apart <- s3, lock <- s4, job <- s5, through <- s6, late <- s7,
    overwritten <- s8, ops <- s9

Images == INSTANCE Images WITH
    Nodes <- Pair, Builds <- ImageBuilds, Made <- ImageMade, Aliases <- ImageAliases,
    Senders <- ImageSenders, MaxJobs <- ImageJobs, MaxChanges <- ImageChanges,
    held <- s1, alias <- s2, pins <- s3, launched <- s4, based <- s5, job <- s6,
    prune <- s7, changes <- s8

Pool == INSTANCE StoragePool WITH
    Machines <- PoolMachines, Fingerprints <- PoolFingerprints, Volumes <- PoolVolumes,
    Profiles <- PoolProfiles, MaxSize <- PoolSize, MaxChanges <- PoolChanges,
    pool <- s1, instance <- s2, image <- s3, volume <- s4, profile <- s5, foreign <- s6, job <- s7,
    crossed <- s8, changes <- s9

Life == INSTANCE ServeLife WITH
    MaxWork <- LifeWork, MaxStarts <- LifeStarts, MaxTrouble <- LifeTrouble,
    files <- s1, cluster <- s2, serves <- s3, at <- s4, restart <- s5, setup <- s6, work <- s7,
    starts <- s8, trouble <- s9

Boot == INSTANCE Bootstrap WITH
    Uses <- BootUses, MaxSettings <- BootSettings,
    saved <- s1, run <- s2, latest <- s3, settings <- s4

Host == INSTANCE FabricHost WITH
    Peers <- HostPeers, Fabrics <- HostFabrics, Guests <- HostGuests, MaxChanges <- HostChanges,
    mine <- s1, peer <- s2, held <- s3, foreign <- s4, host <- s5, guest <- s6, pass <- s7,
    launch <- s8, alone <- s9, changes <- s10

Flow == INSTANCE StackFlow WITH
    Steps <- FlowSteps, Template <- FlowTemplate, Layouts <- FlowLayouts,
    flow <- s1, declared <- s2, entered <- s3, at <- s4, stage <- s5, step <- s6, warned <- s7,
    shown <- s8, handed <- s9, given <- s10
=============================================================================
