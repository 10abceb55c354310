------------------------------- MODULE MCParts ------------------------------
(* Components that share no state, checked in one run: a behaviour is one of     *)
(* them from its initial states on, and `part` says which.  Its variables are    *)
(* s1, s2, ...; those it has no use for stay idle.  Each property is the         *)
(* component's own, for the behaviours that are the component's.                 *)
EXTENDS NodeParts, ClusterParts, Integers, Sequences, FiniteSets, TLC

vars == <<part, s1, s2, s3, s4, s5, s6, s7, s8, s9, s10, s11, s12, s13, s14, s15, s16>>
Sym == Permutations(Pair) \cup Permutations(Twins)

-----------------------------------------------------------------------------
(* What runs on one node. *)

Auth == INSTANCE AuthProof WITH
    Threads <- Pair, Cli <- CliCommand, Limit <- LockoutAfter, Memory <- FailureMemory,
    Recheck <- RecheckSeconds, Flush <- LastUsedFlush, Lifetime <- SessionLifetime,
    MaxTime <- AuthClock, MaxLogins <- MaxLogins, MaxChanges <- AuthChanges, MaxAsks <- AuthAsks,
    now <- s1, file <- s2, cache <- s3, group <- s4, gave <- s5, sessions <- s6, job <- s7,
    failures <- s8, guesses <- s9, used <- s10, overlap <- s11, revoked <- s12, count <- s13

-----------------------------------------------------------------------------
(* What the members of a cluster share. *)

Triggers == INSTANCE TaskTriggersProof WITH
    Members <- Pair, Remembered <- IdsKept, Skip <- TRUE, MaxTrouble <- MaxLost,
    known <- s1, process <- s2, request <- s3, live <- s4, started <- s5, lapsed <- s6,
    trouble <- s7, webhook <- s8

\* One member, and more deliveries than it remembers.
Crowded == INSTANCE TaskTriggersProof WITH
    Members <- Single, Deliveries <- Crowd, Remembered <- IdsKept, Skip <- FALSE,
    MaxRequests <- MaxCrowded, MaxTrouble <- MaxLost,
    known <- s1, process <- s2, request <- s3, live <- s4, started <- s5, lapsed <- s6,
    trouble <- s7, webhook <- s8

\* Flow: two launches of one template and one of another, in a stage or two, or in three.
LaunchedTemplates == [s \in FlowSteps |-> IF s = "c" THEN "u" ELSE "t"]
FewLayouts ==
    {[a |-> 1, b |-> x[1], c |-> x[2]] : x \in {<<1, 1>>, <<1, 2>>, <<2, 1>>, <<2, 2>>, <<2, 3>>}}

\* A zone that keeps its time, and zones that go back or forward by an hour or half of one.
Zones ==
    {[at |-> 99, by |-> 0]} \cup {[at |-> t, by |-> b] : t \in {8, 10}, b \in {-2, -1}}
    \cup {[at |-> t, by |-> b] : t \in {6, 8}, b \in {1, 2}}

Cron == INSTANCE Cron WITH
    Ticks <- 2, Hours <- 3, Days <- 2, Months <- 2, Weekdays <- 3, MaxTime <- 14,
    schedule <- s1, zone <- s2, now <- s3, slot <- s4

-----------------------------------------------------------------------------
\* What the proofs about these components take their constants to be.
ASSUME PartsFit ==
    /\ Launches!LimitAssumption /\ Auth!AuthAssumption
    /\ Seal!SealAssumption /\ Twins # {}
    /\ Events!RingAssumption
    /\ Networks!NetAssumption /\ Images!ImagesAssumption
    /\ Push!NodesAssumption /\ Stacks!StackAssumption /\ TemplateRuns!NamesAssumption
    /\ Flow!FlowAssumption /\ Boot!UsesAssumption /\ Fabric!FabricAssumption
    /\ Runs!RunsAssumption /\ Runs!BoundsAssumption

After14 == s15 = 0 /\ s16 = 0
After13 == s14 = 0 /\ After14
After11 == s12 = 0 /\ s13 = 0 /\ After13
After10 == s11 = 0 /\ After11
After9 == s10 = 0 /\ After10
After8 == s9 = 0 /\ After9
After7 == s8 = 0 /\ After8
After6 == s7 = 0 /\ After7
After5 == s6 = 0 /\ After6
After4 == s5 = 0 /\ After5

Init ==
    \/ part = "launches" /\ Launches!Init /\ After11
    \/ part = "images" /\ Images!Init /\ (\A n \in Pair : Cardinality(s4[n]) < 2) /\ After8
    \/ part = "events" /\ Events!Init /\ After8
    \/ part = "runs" /\ Runs!Init
    \/ part = "bridge" /\ Bridge!Init /\ After14
    \/ part = "seal" /\ Seal!Init /\ After7
    \/ part = "instances" /\ Instances!Init /\ After9
    \/ part = "networks" /\ Networks!Init /\ After9
    \/ part = "life" /\ Life!Init /\ s1 = {} /\ After9
    \/ part = "terminal" /\ Terminal!Init /\ After10
    \/ part = "pool" /\ Pool!Init /\ After9
    \/ part = "bootstrap" /\ Boot!Init /\ After4
    \/ part = "auth" /\ Auth!Init /\ s4 = "admin" /\ After13
    \/ part = "templates" /\ TemplateRuns!Init /\ (\A n \in Pair : \A i \in s1[n] : i.name = 2) /\ After6
    \/ part = "fabric" /\ Fabric!Init /\ s5 = (IF s2[1] = Fabric!Nothing THEN {1} ELSE s1) /\ After11
    \/ part = "host" /\ Host!Init /\ After10
    \/ part = "sync" /\ Push!Init /\ After5
    \/ part = "triggers" /\ Triggers!Init /\ s8.secret /\ After8
    \/ part = "crowded" /\ Crowded!Init /\ s8.secret /\ s8.offered = Crowd /\ After8
    \/ part = "stacks" /\ Stacks!Init /\ After8
    \/ part = "flow" /\ Flow!Init /\ After10
    \/ part = "records" /\ Records!Init /\ After5
    \/ part = "cron" /\ Cron!Init /\ After4

Rest14 == <<part, s15, s16>>
Rest13 == <<s14, Rest14>>
Rest11 == <<s12, s13, Rest13>>
Rest10 == <<s11, Rest11>>
Rest9 == <<s10, Rest10>>
Rest8 == <<s9, Rest9>>
Rest7 == <<s8, Rest8>>
Rest6 == <<s7, Rest7>>
Rest5 == <<s6, Rest6>>
Rest4 == <<s5, Rest5>>

Next ==
    \/ part = "launches" /\ Launches!Next /\ UNCHANGED Rest11
    \/ part = "images" /\ Images!Next /\ UNCHANGED Rest8
    \/ part = "events" /\ Events!Next /\ UNCHANGED Rest8
    \/ part = "runs" /\ Runs!Next /\ UNCHANGED part
    \/ part = "bridge" /\ Bridge!Next /\ UNCHANGED Rest14
    \/ part = "seal" /\ Seal!Next /\ UNCHANGED Rest7
    \/ part = "instances" /\ Instances!Next /\ UNCHANGED Rest9
    \/ part = "networks" /\ Networks!Next /\ UNCHANGED Rest9
    \/ part = "life" /\ Life!Next /\ UNCHANGED Rest9
    \/ part = "terminal" /\ Terminal!Next /\ UNCHANGED Rest10
    \/ part = "pool" /\ Pool!Next /\ UNCHANGED Rest9
    \/ part = "bootstrap" /\ Boot!Next /\ UNCHANGED Rest4
    \/ part = "auth" /\ Auth!Next /\ UNCHANGED Rest13
    \/ part = "templates" /\ TemplateRuns!Next /\ UNCHANGED Rest6
    \/ part = "fabric" /\ Fabric!Next /\ UNCHANGED Rest11
    \/ part = "host" /\ Host!Next /\ UNCHANGED Rest10
    \/ part = "sync" /\ Push!Next /\ UNCHANGED Rest5
    \/ part = "triggers" /\ Triggers!Next /\ UNCHANGED Rest8
    \/ part = "crowded" /\ Crowded!Next /\ UNCHANGED Rest8
    \/ part = "stacks" /\ Stacks!Next /\ UNCHANGED Rest8
    \/ part = "flow" /\ Flow!Next /\ UNCHANGED Rest10
    \/ part = "records" /\ Records!Next /\ UNCHANGED Rest5
    \/ part = "cron" /\ Cron!Next /\ UNCHANGED Rest4

Spec == Init /\ [][Next]_vars

-----------------------------------------------------------------------------
FailingIsMarked == part = "launches" => Launches!FailingIsMarked
NeededIsKept == [][part = "images" => Images!NeededStays]_vars
NothingIsSkipped == part = "events" => Events!NothingIsSkipped
RecordsTellTheTruth == part = "runs" => Runs!RecordsTellTheTruth
OwnRunsAreUndisturbed == [][part = "runs" => Runs!Undisturbed(Twins)]_vars
HostKeepsItsWay == part = "bridge" => Bridge!HostKeepsItsWay
SealedOpens == part = "seal" => Seal!SealedOpens
TagsAreItsOwn == part = "instances" => Instances!TagsAreItsOwn
SubnetsApart == part = "networks" => Networks!SubnetsApart
ExitIsTold == part = "terminal" => Terminal!ExitIsTold
OnlyShownIsTaken == [][part = "pool" => Pool!TakesShown]_vars
RunsAreRepeated == part = "bootstrap" => Boot!RunsAreRepeated
NothingIsHalfDone == part = "life" => Life!NothingIsHalfDone
OnlyTheEntitled == part = "auth" => Auth!OnlyTheEntitled
SharesAreDone == part = "templates" => TemplateRuns!SharesAreDone
FabricsHold == part = "fabric" => Fabric!FabricsHold
OnePassIsEnough == part = "host" => Host!OnePassIsEnough
ArrivesWhole == part = "sync" => Push!ArrivesWhole
DeliveredOnce ==
    /\ part = "triggers" => Triggers!DeliveredOnce
    /\ part = "crowded" => Crowded!DeliveredOnce
StackHolds == part = "stacks" => Stacks!StackHolds
OnlyShownOrOwn == [][part = "stacks" => Stacks!ShownOrOwn]_vars
LaunchAsPromised == part = "flow" => Flow!LaunchAsPromised
ReferencesHold == part = "records" => Records!ReferencesHold
NextIsFirst == part = "cron" => Cron!NextIsFirst
=============================================================================
