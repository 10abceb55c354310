---------------------------- MODULE ClusterParts ----------------------------
(* Components that members of a cluster share: what ClusterPartsProof proves about. *)
EXTENDS Parts

Push == INSTANCE SyncPush WITH
    Nodes <- Pair, MaxTrouble <- PushTrouble,
    held <- s1, sync <- s2, crossed <- s3, faults <- s4, trouble <- s5

Records == INSTANCE References WITH
    Members <- Pair, Ops <- Twins, MaxLost <- MaxLost,
    shipped <- s1, held <- s2, op <- s3, crossed <- s4, lost <- s5

Events == INSTANCE EventRing WITH
    Nodes <- Reporters,
    boot <- s1, count <- s2, hits <- s3, cursor <- s4, read <- s5, got <- s6, since <- s7,
    polls <- s8

Stacks == INSTANCE StackLife WITH
    Members <- Pair, Asks <- Twins, Names <- StackNames, MaxTrouble <- MaxLost,
    defined <- s1, secret <- s2, run <- s3, ask <- s4, instances <- s5, crossed <- s6,
    raced <- s7, trouble <- s8

TemplateRuns == INSTANCE TemplateRuns WITH
    Nodes <- Pair, Names <- ShareNames, MaxOps <- ShareOps, MaxTrouble <- ShareTrouble,
    instances <- s1, run <- s2, op <- s3, shares <- s4, ops <- s5, trouble <- s6

Fabric == INSTANCE Fabric WITH
    Nodes <- FabricNodes, Founders <- FabricFounders, Fabrics <- Twins, Prefixes <- FabricPrefixes,
    Subnets <- FabricSubnets, MaxOps <- FabricOps, MaxFaults <- FabricFaults,
    members <- s1, claim <- s2, said <- s3, routes <- s4, marked <- s5, skipped <- s6,
    rewrites <- s7, op <- s8, jobs <- s9, ops <- s10, faults <- s11
=============================================================================
