----------------------------- MODULE MCPartsProof ---------------------------
(* What the proofs of the components say of the behaviours that MCParts puts      *)
(* side by side: each is one component's from its first state on.                 *)
EXTENDS MCParts, NodePartsProof, ClusterPartsProof, TLAPS

\* A behaviour stays the component it began as.
LEMMA PartStays == ASSUME [Next]_vars PROVE part' = part
  BY DEF Next, vars, Rest4, Rest5, Rest6, Rest7, Rest8, Rest9, Rest10, Rest11, Rest13, Rest14

-----------------------------------------------------------------------------
\* Deliveries: two members, and one that forgets.
LEMMA TriggersMove == ASSUME [Next]_vars, part = "triggers" PROVE [Triggers!Next]_(Triggers!triggerVars)
  BY DEF Next, vars, Triggers!triggerVars

LEMMA CrowdedMoves == ASSUME [Next]_vars, part = "crowded" PROVE [Crowded!Next]_(Crowded!triggerVars)
  BY DEF Next, vars, Crowded!triggerVars

(* A member's process starts one run of a delivery it remembers at most, and none  *)
(* of one it said it could not place: with any members and deliveries, where a      *)
(* task skips overlapping runs and where it does not, however few deliveries a      *)
(* member remembers (receive_webhook() and invoke(), src/waterpump/tasks.py).       *)
THEOREM TriggersPartHolds == Spec => []DeliveredOnce
  <1> DEFINE Inv == /\ part = "triggers" => Triggers!DeliveryInv
                    /\ part = "crowded" => Crowded!DeliveryInv
  <1>1. Init => Inv
    BY Triggers!DeliveryInit, Crowded!DeliveryInit DEF Init
  <1>2. ASSUME Inv, [Next]_vars PROVE Inv'
    <2>1. CASE part = "triggers"
      <3>1. Triggers!DeliveryInv /\ [Triggers!Next]_(Triggers!triggerVars)
        BY <1>2, <2>1, TriggersMove
      <3>2. Triggers!DeliveryInv'
        BY <3>1, Triggers!DeliveryStep
      <3>3. QED
        BY <1>2, <2>1, <3>2, PartStays
    <2>2. CASE part = "crowded"
      <3>1. Crowded!DeliveryInv /\ [Crowded!Next]_(Crowded!triggerVars)
        BY <1>2, <2>2, CrowdedMoves
      <3>2. Crowded!DeliveryInv'
        BY <3>1, Crowded!DeliveryStep
      <3>3. QED
        BY <1>2, <2>2, <3>2, PartStays
    <2>3. QED
      BY <1>2, <2>1, <2>2, PartStays
  <1>3. Inv => DeliveredOnce
    BY Triggers!DeliveryGives, Crowded!DeliveryGives DEF DeliveredOnce
  <1>4. QED
    BY <1>1, <1>2, <1>3, PTL DEF Spec

-----------------------------------------------------------------------------
(* Who a caller is.                                                          *)
LEMMA AuthMoves == ASSUME [Next]_vars, part = "auth" PROVE [Auth!Next]_(Auth!authVars)
  BY DEF Next, vars, Auth!authVars

(* With any threads and commands, limits and lifetimes, and whatever is changed when: a *)
(* session lets its caller in only as what the account is, with the password it has and  *)
(* the role its groups gave it lately, a token nobody who came after it was revoked or    *)
(* had expired, and no more passwords are tried than the throttle and the threads allow   *)
(* (auth.py, AuthService; but for a login that a change falls into, and for a command     *)
(* and `serve` rewriting the tokens at once).                                             *)
THEOREM AuthPartHolds == Spec => []OnlyTheEntitled
  <1> DEFINE Inv == part = "auth" => Auth!AuthInv
  <1>1. Init => Inv
    BY PartsFit, Auth!AuthInit DEF Init
  <1>2. Inv /\ [Next]_vars => Inv'
    BY PartsFit, PartStays, AuthMoves, Auth!AuthStep
  <1>3. Inv => OnlyTheEntitled
    BY Auth!AuthGives DEF OnlyTheEntitled
  <1>4. QED
    BY <1>1, <1>2, <1>3, PTL DEF Spec

-----------------------------------------------------------------------------
(* Moving the network card onto a bridge.                                    *)
LEMMA BridgeMoves == ASSUME [Next]_vars, part = "bridge" PROVE [Bridge!Next]_(Bridge!vars)
  BY DEF Next, vars, Bridge!vars

(* Whatever NetworkManager refuses and wherever the helper or the host stops, in  *)
(* any number of conversions and reversions: one that was undone has put back what *)
(* it could, and some connection of the card comes up by itself as long as no      *)
(* reversion failed or found no connection to go back to (hostnet.py,              *)
(* lan_convert_plan, lan_revert_plan and apply).                                    *)
THEOREM BridgePartHolds == Spec => []HostKeepsItsWay
  <1> DEFINE Inv == part = "bridge" => Bridge!WayInv
  <1>1. Init => Inv
    BY BridgeWayInit DEF Init
  <1>2. Inv /\ [Next]_vars => Inv'
    BY PartStays, BridgeMoves, BridgeWayStep
  <1>3. Inv => HostKeepsItsWay
    BY DEF HostKeepsItsWay, Bridge!WayInv
  <1>4. QED
    BY <1>1, <1>2, <1>3, PTL DEF Spec

-----------------------------------------------------------------------------
(* Creates, and the streak that puts the node into maintenance.              *)
LEMMA LaunchesMoves == ASSUME [Next]_vars, part = "launches" PROVE [Launches!Next]_(Launches!launchVars)
  BY DEF Next, vars, Launches!launchVars

(* No streak of failed launches that is long enough is left without a mark on the *)
(* node, whatever limit, threads and processes there are, but for a mark that could *)
(* not be written or that was lifted under the thread that set it (_note_launch).   *)
THEOREM LaunchesPartHolds == Spec => []FailingIsMarked
  <1> DEFINE Inv == part = "launches" => Launches!LaunchInv
  <1>1. Init => Inv
    BY PartsFit, LaunchesLaunchInit DEF Init
  <1>2. Inv /\ [Next]_vars => Inv'
    BY PartsFit, PartStays, LaunchesMoves, LaunchesLaunchStep
  <1>3. Inv => FailingIsMarked
    BY LaunchesLaunchGives DEF FailingIsMarked
  <1>4. QED
    BY <1>1, <1>2, <1>3, PTL DEF Spec

-----------------------------------------------------------------------------
(* Making a template's instances.                                            *)
LEMMA InstancesMoves == ASSUME [Next]_vars, part = "instances" PROVE [Instances!Next]_(Instances!instVars)
  BY DEF Next, vars, Instances!instVars

(* Whatever is launched, recreated, edited, taken away or torn down in whichever     *)
(* order, an instance whose create worked has the stack it was told, or the one of   *)
(* the instance it replaced, and its source's only if that instance had it already   *)
(* (_create_from_template, _detach_clone, recreate_instances).                        *)
THEOREM InstancesPartHolds == Spec => []TagsAreItsOwn
  <1> DEFINE Inv == part = "instances" => Instances!TagInv
  <1>1. Init => Inv
    BY InstancesTagInit DEF Init
  <1>2. Inv /\ [Next]_vars => Inv'
    BY PartStays, InstancesMoves, InstancesTagStep
  <1>3. Inv => TagsAreItsOwn
    BY DEF TagsAreItsOwn, Instances!TagInv
  <1>4. QED
    BY <1>1, <1>2, <1>3, PTL DEF Spec

-----------------------------------------------------------------------------
(* A terminal in the browser.                                                *)
LEMMA TerminalMoves == ASSUME [Next]_vars, part = "terminal" PROVE [Terminal!Next]_(Terminal!vars)
  BY DEF Next, vars, Terminal!vars

(* However much is printed, and whichever end breaks off when: a page that stayed has *)
(* everything that a shell printed which ended by itself, in order, and then what it    *)
(* exited with, unless the daemon took too long (_bridge, exit_code).                    *)
THEOREM TerminalPartHolds == Spec => []ExitIsTold
  <1> DEFINE Inv == part = "terminal" => Terminal!TellInv
  <1>1. Init => Inv
    BY TerminalTellInit DEF Init
  <1>2. Inv /\ [Next]_vars => Inv'
    BY PartStays, TerminalMoves, TerminalTellStep
  <1>3. Inv => ExitIsTold
    BY TerminalTellGives DEF ExitIsTold
  <1>4. QED
    BY <1>1, <1>2, <1>3, PTL DEF Spec

-----------------------------------------------------------------------------
(* Records that name other records.                                          *)
LEMMA RecordsMoves == ASSUME [Next]_vars, part = "records" PROVE [Records!Next]_(Records!vars)
  BY DEF Next, vars, Records!vars

(* With any members and any number of saves and deletions: one after another, and told *)
(* to everybody, they leave no record that names what is not there; and what was deleted *)
(* is gone from every member that was told, unless somebody saves it (refuse_in_use).     *)
THEOREM RecordsPartHolds == Spec => []ReferencesHold
  <1> DEFINE Inv == part = "records" => Records!ReferencesInv
  <1>1. Init => Inv
    BY RecordsReferencesInit DEF Init
  <1>2. Inv /\ [Next]_vars => Inv'
    BY PartStays, RecordsMoves, RecordsReferencesStep
  <1>3. Inv => ReferencesHold
    BY RecordsReferencesGive DEF ReferencesHold
  <1>4. QED
    BY <1>1, <1>2, <1>3, PTL DEF Spec

-----------------------------------------------------------------------------
(* Secrets at rest.                                                          *)
LEMMA SealMoves == ASSUME [Next]_vars, part = "seal" PROVE [Seal!Next]_(Seal!vars)
  BY DEF Next, vars, Seal!vars

(* Every value kept opens with the key in the key file, for any number of processes *)
(* that make a key at once, set and clear secrets and die on the way (store.py,      *)
(* _secrets_key and update_auth).                                                    *)
THEOREM SecretsPartHolds == Spec => []SealedOpens
  <1> DEFINE Inv == part = "seal" => Seal!SealInv
  <1>1. Init => Inv
    BY PartsFit, SealInit DEF Init
  <1>2. Inv /\ [Next]_vars => Inv'
    BY PartsFit, PartStays, SealMoves, SealStep
  <1>3. Inv => SealedOpens
    BY SealGives DEF SealedOpens
  <1>4. QED
    BY <1>1, <1>2, <1>3, PTL DEF Spec

-----------------------------------------------------------------------------
(* The runs of a task on one node.                                           *)
LEMMA RunsMoves == ASSUME [Next]_vars, part = "runs" PROVE [Runs!Next]_(Runs!vars)
  BY DEF Next, vars, Runs!vars

(* Whatever ends `serve` when, and whatever a command works beside it: no record says *)
(* that a run which was stopped ended by itself, or that one which goes on is lost; what *)
(* a run came to stays on record, but where another process was saving or the sweeper     *)
(* was at work as it was written; and no run that is over leaves its instance unless the   *)
(* daemon failed (tasks.py, _start to sweep; store.py, save_task_run).                      *)
THEOREM RunsPartHolds == Spec => []RecordsTellTheTruth
  <1> DEFINE Inv == part = "runs" => Runs!RunsInv
  <1>1. Init => Inv
    BY PartsFit, RunsInit DEF Init
  <1>2. Inv /\ [Next]_vars => Inv'
    BY PartsFit, PartStays, RunsMoves, RunsStep
  <1>3. Inv => RecordsTellTheTruth
    BY RunsTell DEF RecordsTellTheTruth
  <1>4. QED
    BY <1>1, <1>2, <1>3, PTL DEF Spec

(* Nor does anything, the sweeper least of all, take the instance of a run of this      *)
(* process that nobody stopped: what was listed, what was on record and what was live    *)
(* were read at three moments, and each reading errs on the side of leaving it alone.     *)
THEOREM RunsPartLeavesAlone == Spec => OwnRunsAreUndisturbed
  <1> DEFINE Inv == part = "runs" => Runs!RunsInv
  <1>1. Init => Inv
    BY PartsFit, RunsInit DEF Init
  <1>2. Inv /\ [Next]_vars => Inv'
    BY PartsFit, PartStays, RunsMoves, RunsStep
  <1>3. Inv /\ [Next]_vars => (part = "runs" => Runs!Undisturbed(Twins))
    BY PartsFit, RunsMoves, RunsUndisturbed
  <1>4. QED
    BY <1>1, <1>2, <1>3, PTL DEF Spec, OwnRunsAreUndisturbed

-----------------------------------------------------------------------------
(* Definitions pushed to another member.                                     *)
LEMMA PushMoves == ASSUME [Next]_vars, part = "sync" PROVE [Push!Next]_(Push!syncVars)
  BY DEF Next, vars, Push!syncVars

(* Whatever people save and delete, at either end, and whatever call fails: while      *)
(* nobody changed anything since the sync began, what was accepted is what was sent,   *)
(* what it names is there at every moment of the push, and from an end whose records    *)
(* fit together everything is accepted unless a call failed (sync, _sync_to).            *)
THEOREM SyncPartHolds == Spec => []ArrivesWhole
  <1> DEFINE Inv == part = "sync" => Push!SyncInv
  <1>1. Init => Inv
    BY PartsFit, PushSyncInit DEF Init
  <1>2. Inv /\ [Next]_vars => Inv'
    BY PartsFit, PartStays, PushMoves, PushSyncStep
  <1>3. Inv => ArrivesWhole
    BY DEF ArrivesWhole, Push!SyncInv, Push!ArrivesWhole
  <1>4. QED
    BY <1>1, <1>2, <1>3, PTL DEF Spec

-----------------------------------------------------------------------------
(* The host's networks.                                                      *)
LEMMA NetworksMoves == ASSUME [Next]_vars, part = "networks" PROVE [Networks!Next]_(Networks!netVars)
  BY DEF Next, vars, Networks!netVars

(* No two bridges of a host come to be on one block, nor one on a block that the     *)
(* host has, whatever names and blocks there are and whatever is created, changed and *)
(* deleted at once in `serve` and by commands; the exceptions are a bridge whose        *)
(* settings a fabric's gateway wrote back from before a change, and one whose block    *)
(* came from a request that had looked before another process wrote, which no lock     *)
(* keeps apart (service.py, _networks_lock).                                            *)
THEOREM NetworksPartHolds == Spec => []SubnetsApart
  <1> DEFINE Inv == part = "networks" => Networks!ApartInv
  <1>1. Init => Inv
    BY PartsFit, NetworksApartInit DEF Init
  <1>2. Inv /\ [Next]_vars => Inv'
    BY PartsFit, PartStays, NetworksMoves, NetworksApartStep
  <1>3. Inv => SubnetsApart
    BY DEF SubnetsApart, Networks!ApartInv
  <1>4. QED
    BY <1>1, <1>2, <1>3, PTL DEF Spec

-----------------------------------------------------------------------------
(* The event log.                                                            *)
LEMMA EventsMoves == ASSUME [Next]_vars, part = "events" PROVE [Events!Next]_(Events!ringVars)
  BY DEF Next, vars, Events!ringVars

(* Whatever the sizes of a ring and a page, and however answers are cut short, come  *)
(* late, fail or get lost while nodes restart: a reader that follows its cursors is    *)
(* given every matching event up to them that it was not told may be missing, and none *)
(* beyond them (eventlog.py read(), cluster.py logs()).                                *)
THEOREM EventsPartHolds == Spec => []NothingIsSkipped
  <1> DEFINE Inv == part = "events" => Events!RingInv
  <1>1. Init => Inv
    BY PartsFit, EventsRingInit DEF Init
  <1>2. Inv /\ [Next]_vars => Inv'
    BY PartsFit, PartStays, EventsMoves, EventsRingStep
  <1>3. Inv => NothingIsSkipped
    BY DEF NothingIsSkipped, Events!RingInv, Events!Follows, Events!HasAll,
       Events!NothingIsSkipped
  <1>4. QED
    BY <1>1, <1>2, <1>3, PTL DEF Spec

-----------------------------------------------------------------------------
(* Applying the settings, and serve coming and going.                        *)
LEMMA LifeMoves == ASSUME [Next]_vars, part = "life" PROVE [Life!Next]_(Life!serveVars)
  BY DEF Next, vars, Life!serveVars

(* However often a node is configured, reset, restarted and killed between two files: *)
(* it never listens on the network without a login, a certificate and an account; and  *)
(* no swarm or task run is cut short by a process that ends of itself, unless it began  *)
(* in the process's last moments or took longer than the grace (nodesetup.py apply(),   *)
(* server.py serve()).                                                                  *)
THEOREM LifePartHolds == Spec => []NothingIsHalfDone
  <1> DEFINE Inv == part = "life" => Life!LifeInv
  <1>1. Init => Inv
    BY LifeInit DEF Init
  <1>2. Inv /\ [Next]_vars => Inv'
    BY PartStays, LifeMoves, LifeStep
  <1>3. Inv => NothingIsHalfDone
    BY LifeGives DEF NothingIsHalfDone
  <1>4. QED
    BY <1>1, <1>2, <1>3, PTL DEF Spec

-----------------------------------------------------------------------------
(* Images.                                                                   *)
LEMMA ImagesMoves == ASSUME [Next]_vars, part = "images" PROVE [Images!Next]_(Images!imageVars)
  BY DEF Next, vars, Images!imageVars

(* With any members, images, names and jobs, whatever is pinned, fetched, sent, launched *)
(* and deleted between the readings of a prune: it deletes no image that one and the same *)
(* need kept from its beginning on, and none made here (service.py, prune_images()).       *)
THEOREM ImagesPartHolds == Spec => NeededIsKept
  <1> DEFINE Inv == part = "images" => Images!ImagesInv
  <1>1. Init => Inv
    BY PartsFit, ImagesInit DEF Init
  <1>2. Inv /\ [Next]_vars => Inv'
    BY PartsFit, PartStays, ImagesMoves, ImagesStep
  <1>3. Inv /\ [Next]_vars => (part = "images" => Images!NeededStays)
    BY PartsFit, ImagesMoves, ImagesGives
  <1>4. QED
    BY <1>1, <1>2, <1>3, PTL DEF Spec, NeededIsKept

-----------------------------------------------------------------------------
(* A storage pool and what lies on it.                                       *)
LEMMA PoolMoves == ASSUME [Next]_vars, part = "pool" PROVE [Pool!Next]_(Pool!poolVars)
  BY DEF Next, vars, Pool!poolVars

(* Whatever lies on a pool and whoever else uses the daemon meanwhile: the deletion      *)
(* takes only what was on the list that was confirmed and still has to do with the pool,   *)
(* takes nothing else out of a profile, and never a zpool that it found imported, unless    *)
(* somebody imports it after that look (service.py, delete_storage_pool()).                 *)
THEOREM PoolPartHolds == Spec => OnlyShownIsTaken
  <1> DEFINE Inv == part = "pool" => Pool!PoolInv
  <1>1. Init => Inv
    BY PoolInit DEF Init
  <1>2. Inv /\ [Next]_vars => Inv'
    BY PartStays, PoolMoves, PoolStep
  <1>3. Inv /\ [Next]_vars => (part = "pool" => Pool!TakesShown)
    BY PoolMoves, PoolGives
  <1>4. QED
    BY <1>1, <1>2, <1>3, PTL DEF Spec, OnlyShownIsTaken

-----------------------------------------------------------------------------
(* What is asked of one stack.                                               *)
LEMMA StacksMoves == ASSUME [Next]_vars, part = "stacks" PROVE [Stacks!Next]_(Stacks!vars)
  BY DEF Next, vars, Stacks!vars

(* Whatever is asked of a stack, from however many members at once, and whatever fails  *)
(* or goes unheard: two runs of it go at once only when each began before the other's     *)
(* member was asked; one value of its secret is used while nothing is deleted, nothing     *)
(* lost and no launch crosses another's first; and a deletion is done only when what it     *)
(* was confirmed for is gone (stacks.py, _busy, _settle_secrets, delete_stack).             *)
THEOREM StacksPartHolds == Spec => []StackHolds
  <1> DEFINE Inv == part = "stacks" => Stacks!StackInv
  <1>1. Init => Inv
    BY PartsFit, StacksInvInit DEF Init
  <1>2. Inv /\ [Next]_vars => Inv'
    BY PartsFit, PartStays, StacksMoves, StacksInvStep
  <1>3. Inv => StackHolds
    BY StacksInvGives DEF StackHolds
  <1>4. QED
    BY <1>1, <1>2, <1>3, PTL DEF Spec

(* And nothing is destroyed but what a person confirmed, by the teardown of the swarm    *)
(* run that made it, or because it has the name of such an instance that is gone since   *)
(* (_confirmed, _swarm_teardown).                                                         *)
THEOREM StacksPartTakesShown == Spec => OnlyShownOrOwn
  <1> DEFINE Inv == part = "stacks" => Stacks!StackInv
  <1>1. Init => Inv
    BY PartsFit, StacksInvInit DEF Init
  <1>2. Inv /\ [Next]_vars => Inv'
    BY PartsFit, PartStays, StacksMoves, StacksInvStep
  <1>3. Inv /\ [Next]_vars => (part = "stacks" => Stacks!ShownOrOwn)
    BY PartsFit, StacksMoves, StacksInvTakes
  <1>4. QED
    BY <1>1, <1>2, <1>3, PTL DEF Spec, OnlyShownOrOwn

-----------------------------------------------------------------------------
(* Runs over a template's instances.                                         *)
LEMMA TemplateRunsMoves == ASSUME [Next]_vars, part = "templates" PROVE [TemplateRuns!Next]_(TemplateRuns!runVars)
  BY DEF Next, vars, TemplateRuns!runVars

(* Whoever launches, destroys and recreates at once, from whichever members and over any *)
(* names, and whatever fails or goes unheard: a node has one share of the template at     *)
(* work, and a share that did all it was asked, undisturbed, leaves on its node what was   *)
(* asked for and no more (destroy_instances(), recreate_instances(), launch_template()).    *)
THEOREM TemplatesPartHolds == Spec => []SharesAreDone
  <1> DEFINE Inv == part = "templates" => TemplateRuns!SharesInv
  <1>1. Init => Inv
    BY PartsFit, TemplateRunsInvInit DEF Init
  <1>2. Inv /\ [Next]_vars => Inv'
    BY PartsFit, PartStays, TemplateRunsMoves, TemplateRunsInvStep
  <1>3. Inv => SharesAreDone
    BY TemplateRunsInvGives DEF SharesAreDone
  <1>4. QED
    BY <1>1, <1>2, <1>3, PTL DEF Spec

-----------------------------------------------------------------------------
(* A node's half of its fabrics.                                             *)
LEMMA HostMoves == ASSUME [Next]_vars, part = "host" PROVE [Host!Next]_(Host!hostVars)
  BY DEF Next, vars, Host!hostVars

(* With any peers, fabrics and instances, whatever was there before and wherever the *)
(* helper stopped: a pass that nothing crossed leaves bridges, routes and firewall as   *)
(* the records want them, and every instance on the LAN with its way to every fabric;   *)
(* so has an instance its way after a launch that nothing crossed (fabric.py, hostnet.py). *)
THEOREM HostPartHolds == Spec => []OnePassIsEnough
  <1> DEFINE Inv == part = "host" => Host!HostInv
  <1>1. Init => Inv
    BY HostInit DEF Init
  <1>2. Inv /\ [Next]_vars => Inv'
    BY PartStays, HostMoves, HostStep
  <1>3. Inv => OnePassIsEnough
    BY HostGives DEF OnePassIsEnough
  <1>4. QED
    BY <1>1, <1>2, <1>3, PTL DEF Spec

-----------------------------------------------------------------------------
(* Modules run inside an instance.                                           *)
LEMMA BootMoves == ASSUME [Next]_vars, part = "bootstrap" PROVE [Boot!Next]_(Boot!bootstrapVars)
  BY DEF Next, vars, Boot!bootstrapVars

(* For any runs of any modules, repeated or not, whatever is saved meanwhile: a repeat  *)
(* gets its own value or the saved one, never the first's; no module runs without its     *)
(* secret; and after a run whose values nobody saved over, a new one starts from them      *)
(* (bootstrap.py, environment(), remember()).                                              *)
THEOREM BootPartHolds == Spec => []RunsAreRepeated
  <1> DEFINE Inv == part = "bootstrap" => Boot!BootInv
  <1>1. Init => Inv
    BY PartsFit, BootInit DEF Init
  <1>2. Inv /\ [Next]_vars => Inv'
    BY PartsFit, PartStays, BootMoves, BootStep
  <1>3. Inv => RunsAreRepeated
    BY BootGives DEF RunsAreRepeated
  <1>4. QED
    BY <1>1, <1>2, <1>3, PTL DEF Spec

-----------------------------------------------------------------------------
(* What the steps of a stack hand on.                                        *)
LEMMA FlowMoves == ASSUME [Next]_vars, part = "flow" PROVE [Flow!Next]_(Flow!flowVars)
  BY DEF Next, vars, Flow!flowVars

(* For any steps and templates, in three stages at most: a stack that was saved and      *)
(* passed the preflight gives no module nothing, whichever steps are over first, and       *)
(* what its preview showed is what the launch gives, or a mask (stacks.py,                  *)
(* _check_references(), _static_handed(), handed_values()).                                 *)
THEOREM FlowPartHolds == Spec => []LaunchAsPromised
  <1> DEFINE Inv == part = "flow" => Flow!FlowInv
  <1>1. Init => Inv
    BY PartsFit, FlowInit DEF Init
  <1>2. Inv /\ [Next]_vars => Inv'
    BY PartsFit, PartStays, FlowMoves, FlowStep
  <1>3. Inv => LaunchAsPromised
    BY DEF LaunchAsPromised, Flow!FlowInv
  <1>4. QED
    BY <1>1, <1>2, <1>3, PTL DEF Spec

-----------------------------------------------------------------------------
(* Fabrics over the members.                                                 *)
LEMMA FabricMoves == ASSUME [Next]_vars, part = "fabric" PROVE [Fabric!Next]_(Fabric!fabricVars)
  BY DEF Next, vars, Fabric!fabricVars

(* With any hosts, fabrics and blocks, however creates, extends, deletes, joins, marks of  *)
(* maintenance and rewritings for the LAN's sake cross, and whatever fails: no node holds   *)
(* two fabrics over one block, and none forgets its routes, unless it was in maintenance or  *)
(* its helper refused when last it looked; and after a change that nothing crossed and      *)
(* that ended well, each node it gave a subnet has it alone and both ends route, such nodes  *)
(* excepted, or nothing is left (fabric.py, create(), extend(), delete(), accept_claim(),   *)
(* _reapply(), sync_lan(), enrolment_claims()).                                             *)
THEOREM FabricPartHolds == Spec => []FabricsHold
  <1> DEFINE Inv == part = "fabric" => Fabric!FabricInv
  <1>1. Init => Inv
    BY PartsFit, FabricInit DEF Init
  <1>2. Inv /\ [Next]_vars => Inv'
    BY PartsFit, PartStays, FabricMoves, FabricStep
  <1>3. Inv => FabricsHold
    BY PartsFit, FabricGives DEF FabricsHold
  <1>4. QED
    BY <1>1, <1>2, <1>3, PTL DEF Spec
=============================================================================
