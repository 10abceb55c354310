# waterpump in TLA+

A verification project for **waterpump** (`src/`), a web UI, CLI and API for LXD/Incus
that federates any number of hosts into a leaderless cluster: one Python process
(`waterpump serve`) per node, no consensus service, no shared database.  Every node keeps
JSON files and some in-memory state, and the nodes call one another over HTTPS.

What is hard to test in such a program is not the single request but the crossings: two
candidates for one occurrence, a call that timed out and arrives anyway, a process that
dies between two writes, a list read before a call and used after it.  The models here
are about those.

## 1. Inventory

| Component | State it keeps | Operations | Hard behaviour |
|---|---|---|---|
| **Task vote** `tasks.py`, `store.py` grants | `grants.json` per node; the scheduler's `upcoming` table, contender threads | `_loop`, `_contend`, `_negotiate`, `grant`, `release_grant` | two candidates, late calls, restarts, clocks, members joining |
| **Task runs** `tasks.py`, `store.py` run files | `_live`, `_deadlines`, `_threads`, `_stopping`, remembered deliveries in memory; one record per run on disk; tagged instances in the daemon | `_start`, `_execute`, `cancel_run`, `cancel_all`, `sweep`, `invoke`, `receive_webhook`, `_forward` | a timer or a cancel against the job's own end; sweeper against a live run; a process that dies; several processes on one node; redelivered webhooks |
| **Cron** `cron.py`, the loop of `tasks.py` | the slot each node keeps | `Schedule.next_after` | every node must compute the same second, over changes of the clocks |
| **Stack and swarm runs** `stacks.py` | run records in memory, step statuses, kept secrets | `launch`, `launch_swarms`, `destroy`, `delete_stack`, `_execute`, `cancel`, `_swarm_teardown`, `_await_template_run` | stages in order, steps in parallel, cancellation, asks from several members, a member that is silent |
| **Definitions** `cluster.py` (sync, reconcile), `store.py` ledger | one JSON file per template, profile, group, stack, task, pin, setting, module; the change ledger with tombstones | `save_*`, `delete_*`, `_propagate`, `reconcile`, `sync`, `_adopt`, `_remove_local` | a deletion against an edit; a member that was away; records that name one another |
| **Membership and credential** `cluster.py` | member records, invites, the cluster secret, peer tokens | `create_invite`, `enroll`, `join`, `announce`, `sync_members`, `evict_node`, `rotate_secret`, `leave` | concurrent joins and evictions, half a rotation |
| **Template runs and launches** `service.py`, `cluster.py` | `_runs`, `_creating`, launch-failure streak, maintenance record | `launch_template`, `run_template`, `recreate_instances`, `_note_launch` | shares that cross on several nodes, names, a streak that trips maintenance |
| **Health and app checks** `health.py`, `service.py` | results per instance, the checker's queue | `check_health`, `AppChecker`, `Tracker.evaluate`, `fold_app` | an answer for a check that was replaced; two threads folding one record |
| **Fabrics** `fabric.py`, `hostnet.py`, `fabrichelper.py` | claims per node on its member record, host routes, bridges | `create`, `extend`, `delete`, `accept_claim`, `reapply`, `leave` | two nodes claiming one subnet, a host's pass beside launches and leaving |
| **Host network** `service.py`, `hostnet.py` | the daemon's networks, NetworkManager's connections | `create_network`, `update_network`, `convert_nic`, `revert_lan_bridge` | the only card moved onto a bridge step by step |
| **Storage pools** `service.py`, `cli.py` | the daemon's pools and what lies on them | `create_storage`, `delete_storage`, volumes | a confirmed list against a world that changes |
| **Images and pins** `cluster.py`, `service.py` | image jobs in memory, pin records | `publish`, `copy_image`, `fetch_pin`, `prune_images` | a prune against a launch, a pin or a copy |
| **Event log** `eventlog.py` | ring buffer with sequence numbers, cursors | `event`, `read`, `logs` | a cursor older than the ring or of another boot |
| **Secrets at rest** `secretbox.py`, `store.py` | `secrets.key`, sealed values | `seal`, `open_`, `_secrets_key` | two processes creating the key |
| **Bootstrap and images catalogue** `bootstrap.py`, `simplestreams.py` | saved values of module parameters | runs of modules in an instance | repeats, defaults, what is remembered |
| **HTTP server, clients, node setup** `server.py`, `nodeclient.py`, `lxd.py`, `websocket.py`, `configure.py`, `nodesetup.py` | listen, login, certificate and account files; sockets | start, stop, re-exec, configure, reset, terminal | a failure between two files, the order of a shutdown, two threads on one socket |
| **Command line and terminal** `cli.py`, `top.py`, `stackreport.py` | none of its own | prompts, rendering | none that the other models do not carry |
| **Authentication** `auth.py`, `pam.py`, `server.py` | users, tokens and the cache of both; sessions, throttle counters in memory | `login`, `confirm`, `authenticate`, `authenticate_token`, `logout`, the commands that change users | records read in one step and acted on in a later one, beside a command of another process |
| **Metrics** `metrics.py` | ring of points | `record`, `read` | not modelled |
| **Web UI, shell modules, units** `web/`, `modules/`, `systemd/` | browser state | - | not modelled |

PROJECT.json lists every component with its sources and, under `hazards`, the lines where
each hazard bites.

### How the parts interact

- **Calls.** A node calls another over HTTPS with the cluster credential; every call has a
  timeout, and a call that timed out may still be served.  A call to oneself is a function
  call.
- **Shared state.** Definitions, member records and the change ledger are files of each
  node, replicated by pushes and by reconciliation; run histories, grants and the key are
  files of one node that several processes (`serve`, a CLI command) write.
- **Threads.** Inside `serve`: the scheduler round (which also sweeps), one contender
  thread per occurrence, one thread and one timer per task run, a driver and a thread per
  step of a stack run, followers, the reconciler, the health round and the checker, the
  fabric's clock, and the HTTP handlers beside all of them.
- **Stacks use launches, as tasks do.** A stack step starts a template run on this node,
  which starts a share on each member and polls it; health gates read the health records;
  teardowns list instances on every member.  A task run launches one instance by the same
  service and removes it the same way the sweeper does.
- **The daemon and the kernel** belong to everybody: other people make, change and delete
  instances, networks, volumes and routes between any two calls of waterpump's.

### What makes each component correct

| Component | Properties |
|---|---|
| Task vote | one occurrence is started at most once; what backs a winner is not given away; losers hold nothing up |
| Task runs | a run keeps its instance until it is done or stopped; every run leaves a record that says what happened; nothing stays behind; a delivery runs once |
| Cron | every node computes the same next firing, the first there is |
| Stack and swarm runs | swarms in their order; what was begun is torn down; a teardown takes only what bears a name it was shown or made; every run ends; what a preview shows is what is given |
| Definitions | members that talked are level; a deletion sticks; conflicts are left; nothing names what is not there; a push arrives whole |
| Membership | a code admits one node, unless another process undoes that; an evicted node is out; a rotation strands only whom it reports |
| Template runs and launches | runs of a template follow one another; a share that went through is whole; a failing node is marked; an instance has its own tags |
| Health | what is shown is a result of the check that is saved |
| Fabrics | no two subnets overlap; a change that is done is everywhere; one pass leaves nothing to do |
| Host network | no two bridges that one process made on one block; a host keeps the way it is reached by |
| Storage pools, images | nothing is deleted that was not shown, or that is needed |
| Event log, secrets, bootstrap | a reader misses nothing untold; what is kept opens; a repeat has its own values |
| Server | never listening without a login; a shutdown ends what runs; an exit code after the last output |
| Authentication | a session or a token lets in nobody who lost what it stands for; passwords are tried no faster than the throttle says |

## 2. Plan

Built: everything in section 3.  Left, in the order of what it would add:

1. Proofs about `Membership` (`AdmittedAndHeard`, then `ReportsAreTrue`; see the limits in section 6),
   then about the parts of `MCParts` that are only checked so far (section 8); `LaunchInv`, `TagInv`
   and `AuthInv` show the shape.
2. Whose turn an occurrence is: `rank()`, the hand-off between turns and the skew that is
   vetoed, as a refinement of the delay and the veto that `TaskVote` leaves open.
3. A reconciliation under clocks that differ between members.
4. The LAN functions of the cluster (`cluster.py`), which drive `LanBridge` and `Networks` on
   several nodes.

## 3. Modules

| Module | Models | State and actions against the code |
|---|---|---|
| `Occurrence` | the promise of `docs/tasks.md` on one occurrence | `started`: at most one candidacy |
| `TaskVote` | `tasks.py` `_loop` ... `grant`; `store.py` grants | `upcoming` is the scheduler's table, `stage`/`voters`/`answer` the contender's locals, `grants` the file, `net` the calls; it implements `Occurrence` |
| `TaskRuns` | `tasks.py` `_start` ... `sweep`; `store.py` `save_task_run`; `server.py` `_stop_tasks`, `_reexec` | `stage` is where a run's thread is, `live` is `_live`, `stopped` its mark, `file` the history; a save is two steps under its process's lock; the sweep is its three readings, then one deletion or record at a time |
| `TaskTriggers` | `tasks.py` `invoke`, `receive_webhook`, `_forward` | `request` is a handler and its locals, `known` the remembered ids, `webhook` the definition; answers are lost, members die |
| `Cron` | `cron.py`; the table of `_loop` | `slot` is what one node keeps; `NextAfter` is the walk; `First` the definition it is compared with |
| `StackRun` | `stacks.py` `_execute`, `_run_step`, `_launch`, `_await_*`, `_swarm_teardown` | `at`/`driver` the driver's loop, `thread`/`state` a step's thread and record, `following` the followers, `share` a node's part in a launch, `tear` the loop of a teardown |
| `StackLife` | `stacks.py` `launch_stack` ... `delete_stack`, `_settle_secrets`, `_busy`, `_start` | `ask` is a request and what it has read, `secret` what each member keeps, `run` the run in its memory, `instances` what there is, known by node and name; who launched one is a ghost |
| `StackFlow` | `stacks.py` save, preflight, preview, `_fill`, `handed_values` | `declared`/`entered` the definition, `shown` the preview, `given`/`handed` the values |
| `Definitions` | `cluster.py` `_propagate`, `_reconcile_pass`, `_inward`, `_outward`; `store.py` `_tracked` | `copy` the record, `changes` the ledger entry, `calls` pushes and deletions under way, `pass` the locals of a pass |
| `References` | `store.py` `dependents`; the saves and deletes of each kind | `held` each member's records, `op` a save or a deletion from its checks to its last push |
| `SyncPush` | `cluster.py` `sync`, `_sync_payload`, `_sync_to` | `sync` the items, in the order they go out; `Accepts` what the far side checks |
| `Membership` | `cluster.py` invites to `rotate_secret`, `leave` | `held`/`accepts`/`known` the three files, `op` an operation's locals, `calls` HTTP calls, `writes` handlers between two files, `rewrites` another process of the node between reading a file and writing it back |
| `TemplateRuns` | `cluster.py` and `service.py` `launch_template` ... `recreate_instances` | `run` the coordinator's record, `shares` each node's part, `op` the confirmed list |
| `Launches` | `service.py` `_note_launch`, maintenance; `store.py` streak | `th` creates, `lock`/`tripping` per process, `streak`/`mark` the files |
| `Instances` | `service.py` `create_container`, `_detach_clone`, revisions | `op` what a launch read, `thread` one create, `inst` what the daemon has, with the stack tag it is `handed` |
| `Images` | `cluster.py`, `service.py` publish to prune | `job` an image job, `prune` what a prune has read |
| `Health` | `health.py`, `service.py` `check_health` | `target`/`due`/`atWork` the checker, `round` a health round, `result` its answer, `shown` the record |
| `Fabric` | `fabric.py`, `cluster.py` claims | `claim` each node's own, `said` what others heard, `op` a create, extend, delete or join, `routes` what is programmed, `skipped` (ghost) who was passed over in maintenance or by a failing helper, `rewrites` a `sync_lan()` between reading and writing the file |
| `FabricHost` | `fabric.py` `reapply`; `hostnet.py`, `fabrichelper.py` | `pass` one pass and its readings, `host` the kernel, `guest` instances on the LAN |
| `LanBridge` | `hostnet.py`, `fabrichelper.py` conversions | `plan` the commands left, `named` the card's connections that name it, `auto` those that come up by themselves, `own` the one a conversion switched off, `back` the one `_previous_connection()` found, `up`/`made` what holds the card and what was made |
| `Networks` | `service.py` networks; bridges of `fabric.py` | `net` the daemon's, `apart` the requests that are commands of a process of their own, `lock` the lock of `serve`'s process, `job` a request and what it read |
| `StoragePool` | `service.py`, `cli.py` storage | `job.shown` the list that was confirmed, the rest the daemon's and ZFS's |
| `EventRing` | `eventlog.py`; `logs()` of `cluster.py` | `hits` what matches, `cursor` the reader's, `read` a node's answer |
| `SealKey` | `store.py` `_secrets_key`, sealed records | `key` the file, `mine` what a process has in hand |
| `Bootstrap` | `bootstrap.py`, `service.py` saved values | `run.got` what each module was given, `saved` what is remembered |
| `Auth` | `auth.py` `login` ... `update_auth`, its callers in `server.py` | `file`/`cache` the records on disk and in memory, `sessions` the table, with those that were closed, `job` a login, a request or a command and what it has read, `asked` the clock it read last, `gave` when a group last gave a role |
| `ServeLife` | `server.py` `serve`; `nodesetup.py` | `files` on disk, `serves` what the process read, `setup` a configure under way, `work` what is going |
| `Terminal` | `server.py` terminal; `websocket.py` | `in`/`out` the two threads, `wire`/`data`/`page` the sockets |
| `Parts`, `NodeParts`, `ClusterParts` | - | constants and variables of the components that `MCParts` checks, and the instances that are proved about: those of one node, those members share |
| `*Proof` | - | proofs about the module of that name (section 8); `MCPartsProof` brings them together as theorems of what `MCParts` runs |
| `MC*` | - | instances for TLC |

`MCParts` is the union of twenty-two components that share no state (one of them in two instances), and `MCLive` of two: a
behaviour is one component's from its initial states on, `part` says which, and
`s1` ... `s16` are its variables, instantiated by `INSTANCE ... WITH`; those a component has no use for
stay 0.  Each property is the component's own, for its behaviours (`part = "x" => ...`).  It is a
way to run many small models in one run of TLC, and composes nothing.

Abstractions a reader should know of:

- **One occurrence** (`TaskVote`): grants are keyed by task and slot and two keys never
  meet, except that a claim for one drops the expired grants of all (`DropExpired`).  A clock is
  reduced to where it stands against the slot: before it, due, late (past `late_limit()`), expired
  (`GRANT_KEEP` later).  A voter may veto for any reason at any time, and must once it is late.
- **One task on one node** (`TaskRuns`): the job is one step; `_check()` and `_update()` in
  between are folded into the step they lead to.  **One instance per share** (`StackRun`).
- **One definition** (`Definitions`), one of each kind (`SyncPush`), one stack (`StackLife`), one
  template (`TemplateRuns`, `Instances`), one pool (`StoragePool`).
- **Cron's calendar is small**: two ticks to an hour, three hours to a day, two days to a month,
  two months, three weekdays; every loop of the walk still turns over.
- **A webhook definition** (`TaskTriggers`) is one for all members: its replication is `Definitions`'.

## 4. Runs

| Run | Instance | Distinct states | Shows |
|---|---|---|---|
| `restart` | 3 members, 2 candidates, 1 restart, a stray call of one of them | 1.1 M | `VoteInv` is an invariant as it stands; the vote implements `Occurrence` |
| `joiner` | 2 founders, a joiner that stands too, a clock set back | 2.9 M | one start with members that disagree on who votes; the winner's grants hold; losers hold nothing |
| `twice` | 3 members, a candidate whose clock is set back, 2 tries | violation | it runs the occurrence again: its grants still back it |
| `swarms` | 2 swarms on 2 nodes, all six kinds of trouble once | 0.1 M | `SequenceHolds`: order, teardown, nothing left; `RunEnds` (liveness) |
| `settle` | 3 interchangeable members, one more save, a deletion, a pass, a fault | 1.7 M | an undisturbed pass levels and overwrites nothing; what is gone stays gone |
| `ops` | 3 interchangeable nodes, a code, 2 operations, 1 trouble | 3.5 M | a code admits one node that no other process brings back; an operation that had the cluster to itself did what it reports |
| `live` | runs of `serve` and of a CLI process; one instance's app check | 0.3 M | liveness: what is left is swept and closed; each instance comes to show the saved check's result |
| `parts` | twenty-two components, below | 3.2 M | one invariant or action property each, two for task runs' and stacks' |
| `sweptalive` | `serve` and a CLI run | violation | a lost record makes the sweeper take a live run's instance |
| `localonly` | 3 members | violation | `--local-only` is not local after the next pass |
| `keptunused` | 2 launches of a stack on 2 members | violation | a refused launch leaves its secret in place of the one in use |
| `clocks` | a schedule as the clocks go forward | violation | nodes that start at different moments keep different slots |

The parts of `parts`, with their distinct states when run by themselves:

| Part | Module | States | Bounds | Property |
|---|---|---|---|---|
| launches | `Launches` | 105 k | 2 processes, 2 threads, 2 names, a limit of 2, 3 faults, 1 act of people | `FailingIsMarked` |
| images | `Images` | 122 k | 2 nodes, 2 images, 1 job, 2 changes, one name at most launched by the first templates | `NeededIsKept` |
| events | `EventRing` | 54 k | a ring of 2, pages of 1, 4 events, 2 boots, 4 polls | `NothingIsSkipped` |
| runs | `TaskRuns` | RRR k | 2 runs of `serve`, a history of 1, a restart | `RecordsTellTheTruth`, `OwnRunsAreUndisturbed` |
| bridge | `LanBridge` | BBB k | 2 connections of the card, 3 asks, 2 troubles | `HostKeepsItsWay` |
| seal | `SealKey` | 1 k | 2 processes, 2 secrets, 3 operations | `SealedOpens` |
| instances | `Instances` | III k | 2 names, 2 operations, 2 changes | `TagsAreItsOwn` |
| networks | `Networks` | NNN k | 2 requests at once, each `serve`'s or a command's, 2 names, 3 blocks, 3 operations | `SubnetsApart` |
| life | `ServeLife` | 240 k | a node not configured yet, 2 pieces of work, 2 starts, 1 trouble | `NothingIsHalfDone` |
| terminal | `Terminal` | 23 k | 2 chunks, 1 key | `ExitIsTold` |
| pool | `StoragePool` | 100 k | one of each thing on it, 2 changes by others | `OnlyShownIsTaken` |
| bootstrap | `Bootstrap` | 17 k | 1 run of up to three modules, 1 change of settings | `RunsAreRepeated` |
| template runs | `TemplateRuns` | 235 k | 2 nodes, each with nothing or the instance 2, 2 operations, 1 trouble | `SharesAreDone` |
| fabric | `Fabric` | 135 k | 3 nodes, one or two of them members at first, in maintenance node 1 alone or, where a fabric stands, every member; 2 fabrics, 3 subnets, 2 operations, 1 fault | `FabricsHold` |
| host | `FabricHost` | 228 k | 1 peer, 1 fabric, 1 guest, 2 changes | `OnePassIsEnough` |
| sync | `SyncPush` | 244 k | 2 nodes, 1 trouble | `ArrivesWhole` |
| triggers | `TaskTriggers` | 9 k | 2 members, 1 delivery, 2 requests, 1 remembered id, 1 trouble | `DeliveredOnce` |
| crowded | `TaskTriggers` | 41 k | 1 member, 2 deliveries, 3 requests, 1 remembered id, 1 trouble | `DeliveredOnce` |
| stacks | `StackLife` | SSS k | 2 members, 2 asks, 2 names on each member, 1 trouble | `StackHolds`, `OnlyShownOrOwn` |
| flow | `StackFlow` | 136 k | 3 launches of 2 templates, five layouts | `LaunchAsPromised` |
| records | `References` | 24 k | 2 members, 2 operations, 1 lost push | `ReferencesHold` |
| auth | `Auth` | 305 k | 2 threads and a command, an account that is in a group at first, 1 login, 1 change, 2 requests, a clock of 2 | `OnlyTheEntitled` |
| cron | `Cron` | 40 k | all schedules of the small calendar, nine zones | `NextIsFirst` |

**Bounds and why they are enough.**

- *Vote.*  Three members are the smallest number in which a majority is not everyone and
  two majorities meet in one.  Two candidates are enough for two starts.  A restart and a stray call
  are each enough for what they break in the mutants; a step back and a second try are
  what `twice` needs.  The proofs remove these bounds, and the number of nodes.
- *Task runs.*  A history of one beside two runs is where it drops a run that is at work.
  Two restarts (`live`) allow a sweep to be cut short; two refusals allow the run's end and the
  first sweep to fail both.
- *Stack run.*  Two swarms have a boundary between them; the first has a followed launch
  on both nodes, a script beside it and a stage after it, the second a launch that is waited
  for and a health gate.  One of each failure: a second of the same kind meets the same branches.
- *Definitions.*  Three members: one that passes and two that disagree.  Three seconds
  allow equal, older and newer stamps.  The initial state is an edit that reached any non-empty
  set of the members.  One pass in all is one at a time with everything else beside it, since other
  passes act on a member as pushes and deletions do; `DefinitionsProof` has no bound on
  them.
- *Membership.*  Three nodes: one that acts, one that is acted on, one that has to hear of it.
  Two operations cross; each is a sequence of calls, any of which one trouble may make fail,
  come late, or be cut short by a crash; or the trouble is a file that another process writes back.
- *Two of each elsewhere.*  A crossing needs two actors; a streak, a ring and a history are at
  their limit with one more than they keep; the property of every part is broken, within these
  bounds, by a mutant of the code.
- *Cron.*  The zones keep their time, or change it once, on the hour: back or forward by one
  tick (half an hour) or by two.  Schedules do not put `*/n` in a field of days (section 6).
- *Triggers* starts with the webhook's secret set; it may be taken away and set again.  A second
  delivery pushes the first out of what is remembered (`crowded`), which takes no second member.

Deadlock is checked in `sweptalive` only.  In the other runs the bounded system does come to rest:
the operations, changes and faults of its bounds are spent, or the run of the swarms is over
(and `RunEnds` says that it always comes to that).

## 5. Fairness

Three specifications state it, each weakly, and only for steps that the code itself takes:

- `TaskRuns!Fairness` (in `MCLive`, as `RunsFairness`): a run's thread goes on, and its job ends
  since its timer stops it; the daemon answers (its client has a timeout); `serve` is started
  again by its service manager (`systemd/waterpump.service`), and its loop sweeps every
  `SWEEP_SECONDS`.  Nothing is assumed of people or of CLI commands; deletions are refused at most
  `MaxFailures` times.
- `StackRun!Fairness`: the driver, each step's thread and each follower go on: a script has
  a timeout, a health gate and the wait for an instance have deadlines, polling a
  peer's share ends with `REMOTE_RUN_DEADLINE`; a node makes or fails to make what it took up.
  Nothing is assumed of Stop, of dismissals, or of a member's answer.
- `HealthFairness` (in `MCLive`): rounds begin and end, the checker takes up what is due and a
  check answers or times out, an instance that was built starts, and a save's word reaches the
  checker or the next round does.  Nothing is assumed of the people who save and restart; they
  do so at most `MaxChanges` times.

Under the fairness of one part the other part's behaviours are not constrained: every
conjunct of `MCLive` names the part it is about.

## 6. Where code and documents part

Five runs each find a disagreement with a line that they quote (PROJECT.json, `findings`):

1. **A record lost between processes** (`sweptalive`).  `save_task_run()` reads and replaces
   the history under a lock of its own process.  `serve` and a CLI run of the task
   can lose one another's record; without it the sweeper destroys the CLI run's instance.
2. **Local only** (`localonly`).  `docs/cluster.md:615` has `--local-only` leave the other
   copies alone.  It leaves a tombstone like any deletion, which the next pass spreads.
3. **A refused launch keeps its secret** (`keptunused`).  `launch_stack()` reads what is kept before
   it asks whether the stack is busy, and keeps a value before `_start()` can refuse.
4. **The hour after spring** (`clocks`).  `next_after()` walks wall times, so a node that starts
   after the clocks went forward walks over the times they skipped and keeps a later slot.
5. **Twice for one occurrence** (`twice`).  "Clocks decide when a node tries, never whether two runs happen"
   (`tasks.py:24-26`, `docs/tasks.md:199-200`).  A node whose clock is set back across a slot it ran stands
   for it again, and the grants of its first run, which name it, count for the second
   (`store.py:1336-1337`).

Thirteen definitions more state what a document or a comment promises and the code does not keep to; no run
checks them, and TLC finds each violated when it is given to the run of its module:

- `TaskRuns!LostWasGoing` (`docs/tasks.md:91`: lost is a run that was going when serve stopped): the sweeper
  reads the history before `_live`, so it may rewrite the final record of a run that ended in between as
  lost (`tasks.py:1309-1333`).  `FinalRecordStands`, a part of `RecordsTellTheTruth`, exempts just the runs that ended
  during a sweep (`overlapped`).
- `Networks!AllApart` (`_check_subnets_free()`): `_networks_lock` is one process's
  (`service.py:402-405`), so a command (`cli.py:3154-3168`, `5427-5439`) and a request of `serve` may both get
  one block; `ChangesStay` (`service.py:3338`): `_offer_gateway()` (`fabric.py:909-933`) writes
  settings back without the lock, and a command under another one.
- `LanBridge!RevertedToOwn` (`docs/lan.md:122-123`: a reversion brings the card's own connection back):
  `_previous_connection()` (`hostnet.py:937-951`) looks for one that names the card, finds none when the
  profile does not, and may pick another; the bridge is deleted all the same.
- `Fabric!RoutesAreFrozen` (`fabric.py:687-690`, `docs/cluster.md:348-350`): `leave()` programs the routes of a
  host in maintenance when the coordinator's record of the mark is behind.
- `StackLife!LaunchedLaterStays` (`stacks.py:1902-1903`): what is confirmed is compared and destroyed by node and
  name, and a relaunch gives the same names again.
- `Membership!SingleUse` (`docs/cluster.md:153`): `update_auth()` (`store.py:1059-1060`, `1097-1111`) has the lock of one
  process; a command that makes or revokes a code beside `serve` may write a spent one back.
- `Instances!NoneIsTaken` (`service.py:936-941`): a clone whose detaching failed, and that was
  recreated, stays in its source's stack; `RevisionIsItsOwn` (`docs/templates.md:145`): the revision is
  read at another moment than the template (`service.py:2656-2671`).
- `StackFlow!HandedIsGiven` (`stacks.py:2585-2590`): what was entered for a parameter reaches every
  module of that name, but a step that does not set it hands on its template's value;
  `SecretsAreWarnedOf` (`docs/security.md:339-341`): a secret that comes by way of another step is not
  warned of.
- `ServeLife!NoneIsCutShort` (`nodesetup.py`, `blocked()`): what is going is asked before the files
  are saved, and work begins until the process is replaced.
- `Health!StreakIsOfOneCheck` (`health.py:511-516`): a changed check that reaches the scheduler with a
  round, because another process saved it, goes on counting the streak of the one before.

**Limits**, met while modelling, of the code or of what the models vary:

- *Vote.*  With **two joiners** during one occurrence, who know of different members, two
  majorities need not meet; the proofs assume at most one.  With clocks set back (`Jumpy` not empty)
  `VoteInv` is not an invariant, and within one try `AtMostOnce` holds (`joiner`); a second
  try breaks it (`twice`).  A **missed** occurrence may be recorded although a later candidacy ran
  it, and goes unrecorded when the last node of the order does not stand.  A stray call that arrives
  after its release leaves a **grant** that nobody uses until it expires (`Slow` names
  the members whom one may reach so, and `LosersHoldNothing` is about the others).
- *Task runs.*  With **pids reused** (`MayReusePid`) a record that
  names a stranger counts as at work, and what is left is not swept.
- *Cron.*  A field of days that begins with `*` counts as unrestricted (`cron.py:67-68`), so
  `*/2` there is not looked at when the other one is `*` (`docs/tasks.md:177`: "steps ... all work").
- *Launches.*  A create that failed before the maintenance was lifted may count after it, and mark the
  node again with fewer failures than the limit.  The other way about, while the thread that marked the
  node still tells the members, failures that come after a person lifted the mark count and mark nothing
  (`lapsed` exempts them).
- *Authentication.*  A login that a change of password falls into may keep the access of the old one
  (`crossed`), and a token's use that is written back while another process revokes it may bring it back
  (`overlap`): the lock of the records is one process's.
- *Stacks.*  One failed poll of a peer's share ends the launch for the teardown, and the instance may
  appear after it (`unwatched`).  A **member that does not answer** ends a swarm's teardown at its first
  listing; the step is recorded as failed, and the instances stay.
- *Definitions.*  A **push that arrives after the deletion** that followed it brings the definition
  back, so `GoneIsGone` asks for no push under way.  A tombstone is **re-stamped** by every member that
  receives it, so it may outlive a save that a third node made in between.
- *A push by hand* (`SyncPush`).  A comment (`cluster.py:2393`) has the far side check that secrets
  are declared; `adopt_secrets()` (`stacks.py:368`) checks nothing.  A module whose source cannot be read
  is left out without a word (`cluster.py:2388` has it reported).
- *Membership.*  `HeldIsAccepted` exempts a node told one credential twice (`retold`), by the answer to its join
  and by a rotation's call that comes late: leaving between the two files it writes, it may end holding
  a credential it does not accept.  It exempts, too, a node whose token records another process wrote back
  (`_touch()`, `auth.py:338-349`, beside a command).  That other process's own change counts as a step of its own, before
  or after.  A rotation that begins while members hold different credentials may leave an older one
  accepted (`cluster.py:906-911`).
- *Bridges.*  Whose connection a reversion goes back to is not claimed, and after one that found none (`unfound`)
  or failed (`cut`) nothing is.
- *Stacks by name.*  Instances that others make outside of the stack under a name it has used are left out.
  That a deletion is done only when all it was shown is gone (`DeletedIsDestroyed`) is said of the instances
  themselves, which the ghost `by` tells apart; the code goes by names alone.
- *Images.*  A prune reads each need at a moment of its own, so an image whose need changes its
  kind meanwhile may go; a publish sets its alias after `check_publish()` looked for it.
- *Fabrics.*  A change is reported as done although a member in maintenance, or one whose helper failed, was passed
  over (`_reapply()`, `fabric.py:796-805`): `ChangeIsDone` and `RoutesFollow` name those (`skipped`), and the next pass
  or the end of the maintenance puts them right.  `sync_lan()` writes the node's file back without the lock
  (`fabric.py:771`, `1597-1613`), and may drop a claim just accepted; such a change did not have the cluster to itself.
  `refresh_lan()` and `refresh_shims()` run in maintenance although the host is to
  stay as it was (`refuse_here()`); one peer whose subnet is out of reach makes the helper refuse the
  whole list of routes; an older reading of the instances in a pass that crosses a launch drops the new
  one's shim route until the next pass.
- *Terminal.*  `WebSocket.close()` says goodbye under the send lock, which a writer holds that is
  stuck on a guest that does not read: such a session is not broken off.
- *Firewall* (`Networks`).  Two syncs that cross may leave the older list in place until the next
  round.
- *Bootstrap.*  Two runs in one instance share the path of a script; a run that ends writes back the
  difference from defaults it read at its start, over a person's change in between; modules that share the
  name of a parameter remember the later one's value for both.
- *Storage.*  A thing known by its name may be another by the next step, and a profile is written
  without its ETag, so an edit that crosses is lost; steps that cross so are left out of the property
  (`crossed`).

## 7. What the models show to hold

Beside the table of runs: a vote survives restarts, lost and late calls and a joiner; a pass of the
reconciler that nobody disturbs never overwrites a copy; nothing brings back what is gone, but a late push;
a join code admits one node unless another process brings it back; whatever an operation on the membership that
had the cluster to itself reports is true;
swarms are torn down in order; a teardown of a stack takes out only what bears
the name of something it was confirmed for or made; a
node that keeps failing is marked; a prune takes nothing needed; a reader of the event log is told of every gap;
one key survives two that were made at once; configuring a node leaves it at no step without a
login; a converted card that did not come up is put back; a fabric's routes
follow its claims wherever nobody was passed over.

## 8. Proofs

All checked by TLAPS, for every value of the constants.

**`TaskVoteProof`.**  Assumes, besides the ASSUMEs of `TaskVote` (a finite set of nodes, some
of them founders, distinct ranks), `Jumpy = {}` and at most one joiner, each stated
in the theorems; `TypeCorrect` assumes neither.

`AtMostOnce` is not inductive: nothing in it speaks of the candidate that still collects
answers.  `VoteInv` adds

- `StandsOnce`: a slot leaves the table when its node stands, and cannot come back, because
  the clock is past it (this is what a step back breaks);
- `BackingIsHeld`: whoever granted a candidate that still asks, or has won, holds that
  grant until it expires, and expired members veto;
- `BackingIsExclusive`: so no member backs two candidates;
- `RunsAreFinal`: a winner is through, and a release is a loser's;
- `VotersCoverFounders`: whoever asks, asks all the founders.

Then two winners would have two majorities, of two sets that differ by the joiner only; these
meet (`QuorumsMeet`, from cardinalities), in a member that backs both.  From it follow
`OccurrenceRunsAtMostOnce`, `WinnerIsBacked`, and
`VoteImplementsPromise`: the step that adds to `ran` maps to `Occurrence!Start`, every
other to a stutter.

`LosersGiveBack` is about what a lost candidacy leaves.  It assumes that nobody
restarts and no clock is set back, and leaves out the members of `Slow`, whom a call may reach after
its timeout (each may keep a grant until it expires).  `LoserInv`
says that a request on its way is one its sender waits for, and that each grant is accounted for: its
candidate counts on it, has asked for it to be dropped, or did not lose.

**`DefinitionsProof`.**  Assumes `BoundsAssumption` only: any set of members, any number of edits,
deletions, passes and faults.  `PassLevels` speaks of a pass that is over, and follows from
what holds on the way there, `SettleInv`: as long as nothing else happened (`calm`)

- `StillSo`: what the pass read of each member is how it still is;
- `Ready`: when it pulls it has no copy, when it removes it has one, and when it settles, any
  member it is not level with is one that `_outward()` acts on, because adopting or
  dropping stamped its ledger no older than any it read;
- `Telling`: the members it has yet to tell are exactly those it is not level with.

`ConflictsAreLeft` follows: a pull happens where there is no copy, a push goes where there is
none.  `GoneIsGone` needs only the types: every step that makes a copy out of another takes
it from a push or from a member that has it now.

**`StackRunProof`.**  Assumes the ASSUMEs of `StackRun`: any plan in which each swarm is named once,
its stages follow one another, and its teardown is its last stage and alone in it, which is how
`launch_swarms()` lays a plan out.  `SequenceHolds` is not inductive: nothing in it says where a thread may be,
or what a share is still to do.  `StackInv` adds

- `ThreadsFit`, `StatesFit`, `BegunFits`: threads go at the driver's stage only, what is on a step's
  record fits its thread, and no teardown of a swarm that begun was passed over.  So when a stage is
  started with no verdict against it, all stages before it ended, and followers were joined where the
  swarm changes; and a teardown that runs in spite of one is of a swarm that started, so after the earlier ones
  were done;
- `SharesFit`: a template run that is over has no share that is watched and still to create;
- `TearFits`: once a round saw the launches over, no launch of the run is going or starts, and the round's list
  and what was dealt with before is all there is of the swarm, but for shares nobody watches; what was
  dealt with and is there is a failure.

The first layer is shown once for each way a thread moves, and the others for each action that touches a launch or
the teardown's loop.

**The parts.**  A component of `MCParts` is proved about by itself and for every value of its constants:
in `TaskTriggersProof`, `AuthProof`, `NodePartsProof` (what lives on one node) and `ClusterPartsProof`
(what members share), as lemmas `...Init`, `...Step` and `...Gives` on an inductive invariant.
`MCPartsProof` shows that a behaviour stays the part it began as and that its steps are that part's
(`PartStays`, `...Moves`), and concludes what `MCParts` runs check, `Spec => []P`.  The lemmas are
kept in several modules because the provers slow down with the instances in sight.  What is assumed of
constants is `PartsFit`: what each component declares as its assumption (finite sets, limits that are
not zero, words that stand for nothing else, images that are either a remote's or made here), with the bounds any numbers.  The invariants:

- *Task runs* (`RunsPartHolds`, `RunsPartLeavesAlone`; `RunsInv`): a run is in `_live` exactly from its start
  until it is decided (`LiveIsGoing`); what its job came to stands until then, and a stop outweighs it
  (`Decided`); a process saves one record at a time, and what it is to write is still so (`SavesAreTold`); and
  whatever the sweeper has read and is yet to act on is of a run that is past (`SweptIsPast`).  No history,
  whenever it was read, says what a run could still belie (`Told`): that makes rewriting one harmless.
- *Launches* (`LaunchesPartHolds`; `LaunchInv`): the flag that holds others back is up only while a thread is
  about to mark the node, or has (`SomeoneTrips`); a streak that is long enough is marked, or a thread is on
  its way to it, or a person is about to start it over (`StreakIsSeen`).  Writing it showed a case that the
  bounds had hidden, a mark lifted while its thread still tells the members: `lapsed` covers it
  (section 6).
- *Instances* (`InstancesPartHolds`; `TagInv`): a thread is of the launch at work, and what it makes says what it
  was told, at the latest before it is started; of a clone whose detaching failed, that is its source's tag
  (`handed`).
- *Bridge* (`BridgePartHolds`; `WayInv`): what is left of a plan, and what there is by then.  A conversion keeps
  the card's own connection down only once the port is there; an undoing goes on whatever failed; a reversion
  goes back to a connection that names the card, ends at its first failure, and one that found none is only
  the two deletions.
- *Secrets* (`SecretsPartHolds`; `SealInv`): what each process has in hand was sealed or read under the key of the
  file, which is linked into place once and never replaced.
- *Terminal* (`TerminalPartHolds`; `TellInv`): while it is read, what a shell printed is with the page, in the
  reader's hand or on the wire, in this order, and behind it the end (`Flows`); after that, it was
  read to its end, and the exit follows (`Told`).
- *Networks* (`NetworksPartHolds`; `ApartInv`): a request of `serve` that has read and is to write
  holds its lock alone (`HoldsTheLock`), a command holds none that counts, and who read before another process wrote is
  `late`; of the others, what it is to make is still clear of the rest, and what it is to write either
  keeps its block or is clear (`StillClear`).  Steps outside of the lock, the deletion and the gateway's,
  move no block that nobody wrote over (`NoneMoves`).
- *Server* (`LifePartHolds`; `LifeInv`): the address is the last file that an apply writes and the first that
  a reset takes away, on disk as in what `serve` read (`AddressLast`), and what a setup has left to do fits what
  is there by now (`SetupFits`); whatever is cut short was given up by the teardown that went before
  (`TornDown`).
- *Images* (`ImagesPartHolds`; `ImagesInv`): a build's own alias names that build alone, in the daemons and in the
  jobs under way (`AliasesFit`), so that a build that stays keeps what it is called; and whatever a prune
  has read of a need that there was all along speaks for the image (`PruneFits`).  Writing it showed that a
  template could launch none of the builds a prune looks at: the model has them by alias and
  fingerprint now.
- *Storage* (`PoolPartHolds`; `PoolInv`): what the deletion has left was on the list (`LeftIsShown`), and has to do
  with the pool unless somebody touched it (`LeftIsDue`); what it goes by of a profile and of the zpool is
  so unless somebody changed it since (`ReadingHolds`).
- *Triggers* (`TriggersPartHolds`, and `DeliveriesRunOnce` of the component; `DeliveryInv`): a request
  that was let through is in what its process remembers, or that id was pushed out (`PassedIsKnown`); two are let
  through of one id only when it was (`OnePasses`); a request whose process is gone is cut off and does not
  count against the new one's memory (`OfItsProcess`); each run is its own request's (`RunIsRequests`).
- *Authentication* (`AuthPartHolds`; `AuthInv`): what is kept under the file's stamp is the file
  (`CacheFits`), so what a request goes by is something the file said since it was asked (`RecordsFit`); a
  session's credential is its password's, and its role was the groups' when it was last checked, or a change
  crossed its login (`SessionFits`); who rewrites the tokens does so alone, unless two overlap
  (`WritesFit`); and every password tried was counted as failed or is still being tried (`Throttled`).  A
  session keeps what it was opened with after it was closed, so that a request that came with it goes by
  it still (`ComesFit`).
- *Events* (`EventsPartHolds`; `RingInv`): a read under way brings nothing from before the cursor
  (`NothingEarly`), one that waits has seen all there was (`WaitsForMore`), and one that answers brings everything
  between the cursor and where it ends, or says that some may be missing (`AnswersInFull`, `HasAll`).  Lemmas
  on `Min` and `Max` of a set of numbers carry the cut of a page.
- *Records* (`RecordsPartHolds`; `ReferencesInv`): while nothing crosses and no push is lost, all members have the
  same records and these fit, or one operation is halfway from such records to others that fit
  (`OneByOne`); whatever was deleted is gone wherever that was told, unless it was saved again
  (`DeletedSoFar`).
- *Sync* (`SyncPartHolds`; `SyncInv`): while nobody changes them, what was read is what is there
  (`ReadIsThere`), and what is read takes along what it names (`NamedGoesAlong`), before it in the order of
  the push (`InOrder`).  Writing it showed that the far side completes a selection from what its modules declare
  (`Completed`), which the model had left out.
- *Template runs* (`TemplatesPartHolds`; `SharesInv`): an operation has a number of its own and one share on each
  node (`NumbersFit`); the run on a node's record is the one of the share at work there (`RunsFit`), which
  makes it the only one; and a share that nobody disturbs has made or taken out exactly what it ticked off so
  far, or has skipped all because it found something else than was confirmed (`ShareFits`).
- *Host* (`HostPartHolds`; `HostInv`): what a pass that nothing crossed has brought about so far (`PassFits`), in
  its order: bridges, then routes and firewall as wanted and no peer out of reach (`Carried`), then the guests one
  by one, then the shims; and what a launch has (`LaunchFits`).  A host without a fabric has no firewall of
  ours at any time.
- *Stacks* (`StacksPartHolds`, `StacksPartTakesShown`; `StackInv`): a run is known to its own member, went
  past every peer, and is to destroy what it was confirmed for or made (`AsksFit`); what was launched comes of
  an ask that is past its launches, so what was destroyed is not made again (`MadeByLaunch`, on which
  `DeletionsFit` rests); no two instances have one name on one member (`NamesApart`), and a swarm's teardown
  knows all its run made (`OwnAreKnown`), so an instance that goes by its name alone took that of one that was shown
  and has gone (`Replaces`); and in calm there is one value that everybody holds, read or used, or one ask alone that
  has made it and is yet to tell (`OneValue`).
- *Launch values* (`FlowPartHolds`; `FlowInv`): what is worked out beforehand of a step, stage by stage from
  the steps before it, is what that step hands on once it began (`HandedFits`), so the value a preview
  showed is what a later step is given, and what a launch names was handed on by then.  For three stages at
  most: what more of them work out is induction over data.
- *Bootstrap* (`BootPartHolds`; `BootInv`): what a module got is worked out of what its run began with and of
  nothing that came after (`RunFits`), and what was remembered last is what its run's modules got
  (`LatestFits`).  Lemmas on how often a module is in a list carry the repeats.
- *Fabrics* (`FabricPartHolds`; `FabricInv`): what a node holds, and what a thread or a `sync_lan()` is about to
  write back, is apart whatever crosses (`PrefixesApart`, `ReadsApart`); what is programmed follows from the claims
  and records of a node, but for those passed over or taking a claim (`RoutesFollow`).  Of a change that has the cluster to itself
  (`CalmFits`): each subnet is with its node or due to it alone (`GivenOut`), what a deletion has left to take is in a
  thread's hand (`Cleared`), what a joining node is yet to take collides with nobody (`Joined`), and who
  answered the last levelling was told (`Levels`).  Lemmas on a member's place among its set carry the
  allocation.  Writing it showed that the claim had been too strong: two nodes that join at once through
  different members may be offered one subnet, and no `extend` puts that right, so only the nodes that a change
  gives a subnet have it alone.  It showed as well that the model had left out the refusal when a
  block has no subnet left.

**Model-checked only.**  `AdmittedAndHeard` and `ReportsAreTrue` (`Membership`): an inductive invariant for them
is not written.  Out of
the prover's reach are `NextIsFirst`, which is about a recursive operator, and liveness (`RunEnds`, `GoneIsSettled`,
`ShowsWhatIsSaved`).

## 9. Not modelled

Whole components: **Metrics** (a ring written by one thread), **Web UI**, **shell modules and units**
(scripts and a browser client of the API).  Of the others:

- *Vote:* whose turn it is and the hand-off between turns (any eligible node may stand in
  the window), the measured skew (a voter may veto), evictions during an occurrence.
- *Task runs:* live output, the reading of another node's runs.
- *Stack runs:* reports, exports, the content of steps; script steps in `StackFlow`.
- *Definitions:* clocks that differ between members, the thirty days of a tombstone,
  `drop_tombstones()` on joining, groups that rename, modules that shadow built-in ones, users; in
  `SyncPush` pins, profiles, groups and settings, which drag nothing, and calls given up that
  arrive late.
- *Membership:* what a member record says beside its presence.
- *Launches:* quick fixes of one instance, the assembling of an instance's configuration; the names
  on nodes that cannot be reached, which `_share_names()` takes for free.
- *Health:* baselines of samples, notices.
- *Fabrics and networks:* the firewall rules beyond which fabrics they keep apart, a helper that is not installed
  (`available()` false), the order of several fabrics' bridges, old LAN routes on a guest that is on both,
  the LAN functions of `cluster.py`.
- *Host network:* addresses given by DHCP and their leases, several cards.
- *Storage:* the content of volumes, pools of several members at once.
- *Event log:* syslog destinations, the ingest from the daemon.
- *Secrets:* the cipher; and records that two processes rewrite at once (the store's lock is one
  process's), where `held` keeps the later write whole.
- *Authentication:* the roles a route asks for, a trusted proxy, `member_login`, minting tokens and the
  static one of the configuration, the saved settings, the throttle per address; PAM itself is external.
- *Server and client:* routing, wire formats, argument parsing, prompts, rendering.
