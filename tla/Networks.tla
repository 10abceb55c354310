------------------------------ MODULE Networks ------------------------------
(***************************************************************************)
(* The networks of one node: made, changed and deleted by several requests   *)
(* at once, put onto the LAN, set up for a fabric, and let through Docker's   *)
(* firewall (src/waterpump/service.py, the bridges of fabric.py).             *)
(*                                                                           *)
(* Creating and changing hold the lock of the networks from what they read    *)
(* to what they write; deleting, a fabric's gateway and the firewall do not.   *)
(* The lock is one process's: a command's (cli.py, cmd_network_create and       *)
(* cmd_network_set, cmd_init, cmd_fabric) does not keep out those of `serve`.   *)
(***************************************************************************)
EXTENDS Naturals, FiniteSets

CONSTANTS
    Threads,     \* requests at work at once
    Names,       \* names of networks
    Subnets,     \* blocks that do not overlap one another
    HostSubnets, \* those of them the host's own interfaces have
    MaxOps       \* bound: requests, and what becomes of instances

\* No block is the word for one the daemon is to find.
NetAssumption == 0 \notin Subnets /\ HostSubnets \subseteq Subnets

VARIABLES
    net,        \* net[x]: the network x as the daemon has it, or NoNet
    used,       \* the names with an instance on them
    apart,      \* the requests that are commands, each in a process of its own
    lock,       \* who holds the lock of the networks in the process of `serve`
    job,        \* job[t]: the request t is at work on, and what it has read
    through,    \* the LAN bridges that Docker's firewall lets through
    late,       \* requests that read before another process wrote, and are to write
    overwritten,\* names whose settings were written from before another change
    ops         \* so far, bounded as above

netVars == <<net, used, apart, lock, job, through, late, overwritten, ops>>

NoNet == [kind |-> "none"]
Idle == [at |-> "idle"]
Free == {}
AnyBlock == 0

\* The bridge that `init` makes, of a subnet; one over a spare card or a macvlan.
Bridge(subnet, fabric) ==
    [kind |-> "bridge", subnet |-> subnet, fabric |-> fabric]
Lan(kind) == [kind |-> kind, subnet |-> AnyBlock, fabric |-> FALSE]

Init ==
    /\ net = [x \in Names |-> NoNet] /\ used = {} /\ lock = Free
    /\ apart \in SUBSET Threads /\ job = [t \in Threads |-> Idle]
    /\ through = {} /\ late = {} /\ overwritten = {} /\ ops = 0

There(x) == net[x].kind # "none"
LanBridges == {x \in Names : net[x].kind = "lan"}

(* _subnets_in_use(): of every interface but x. *)
InUse(x) ==
    HostSubnets \cup ({net[y].subnet : y \in {z \in Names \ {x} : net[z].kind = "bridge"}} \ {AnyBlock})

Asked(t) == job[t] = Idle /\ ops < MaxOps /\ ops' = ops + 1
To(t, step) == job' = [job EXCEPT ![t] = step]
Works(t, at) == job[t].at = at
Ends(t) == To(t, Idle)

-----------------------------------------------------------------------------
(* The requests begin: each has passed what it checks of its own arguments. *)

Ask(t, op, x, subnet) ==
    /\ Asked(t)
    /\ op = "change" => subnet # AnyBlock
    /\ To(t, [at |-> op, x |-> x, subnet |-> subnet, fabric |-> FALSE])
    /\ UNCHANGED <<net, used, apart, lock, through, late, overwritten>>

(* ensure_bridge() of a fabric: its subnet is a claim, made before.  A network of  *)
(* the name that no fabric made is refused.                                         *)
EnsureBridge(t, x, subnet) ==
    /\ Asked(t) /\ subnet # AnyBlock
    /\ To(t, IF There(x) /\ ~(net[x].kind = "bridge" /\ net[x].fabric) THEN Idle
             ELSE [at |-> IF There(x) THEN "change" ELSE "create", x |-> x,
                   subnet |-> subnet, fabric |-> TRUE])
    /\ UNCHANGED <<net, used, apart, lock, through, late, overwritten>>

(* initialize(): a bridge of an automatic block when none is managed yet, which it  *)
(* looks up before it has the lock, and with no check of its own.                     *)
Initialize(t, x) ==
    /\ Asked(t)
    /\ To(t, IF \E y \in Names : There(y) THEN Idle
             ELSE [at |-> "init", x |-> x, subnet |-> AnyBlock, fabric |-> FALSE])
    /\ UNCHANGED <<net, used, apart, lock, through, late, overwritten>>

-----------------------------------------------------------------------------
\* The mutant: what is in use is looked at before the lock is taken.
Unlocked(t) == lock' = lock

\* _networks_lock: "It only covers this process, not lxc or a second waterpump."
Takes(t) == IF t \in apart THEN lock' = lock ELSE lock = Free /\ lock' = {t}

\* What t writes the requests of other processes that have read did not see.
Passes(t) ==
    late' = (late \cup {u \in Threads \ {t} :
                 job[u].at \in {"make", "write"} /\ (t \in apart \/ u \in apart)}) \ {t}

\* A chosen block overlaps none; an automatic one is the daemon's to find.
BlockFree(x, subnet) == subnet = AnyBlock \/ subnet \notin InUse(x)

(* create_network() and create_lan_network(), under the lock: what is there is read. *)
CreateReads(t) ==
    LET j == job[t] IN
    /\ j.at \in {"create", "lan", "macvlan", "init"}
    /\ Takes(t)
    /\ LET goes == j.at = "init" \/ (~There(j.x) /\ BlockFree(j.x, j.subnet)) IN
         To(t, IF goes
               THEN [at |-> "make", x |-> j.x, subnet |-> j.subnet, fabric |-> j.fabric,
                     kind |-> IF j.at \in {"create", "init"} THEN "bridge" ELSE j.at]
               ELSE [at |-> "refused"])
    /\ UNCHANGED <<net, used, apart, through, late, overwritten, ops>>

(* The daemon refuses a name that is taken, and finds a free block itself. *)
Make(t) ==
    LET j == job[t] IN
    /\ Works(t, "make") /\ lock' = lock \ {t} /\ Passes(t)
    /\ \/ /\ There(j.x) /\ Ends(t) /\ UNCHANGED <<net, overwritten>>
       \/ /\ ~There(j.x) /\ j.kind # "bridge"
          /\ net' = [net EXCEPT ![j.x] = Lan(j.kind)] /\ UNCHANGED overwritten
          /\ To(t, IF j.kind = "lan" THEN [at |-> "firewall"] ELSE Idle)
       \/ /\ ~There(j.x) /\ j.kind = "bridge"
          /\ \E subnet \in IF j.subnet = AnyBlock THEN Subnets \ InUse(j.x) ELSE {j.subnet} :
                net' = [net EXCEPT ![j.x] = Bridge(subnet, j.fabric)]
          /\ overwritten' = IF t \in late /\ j.subnet # AnyBlock
                            THEN overwritten \cup {j.x} ELSE overwritten
          /\ To(t, IF j.fabric THEN [at |-> "offer", x |-> j.x] ELSE Idle)
    /\ UNCHANGED <<used, apart, through, ops>>

(* update_network(), under the lock: what is not there, or is on the LAN, is refused; *)
(* only a block that changes is checked.                                              *)
ChangeReads(t) ==
    LET j == job[t]
        now == net[j.x]
    IN  /\ Works(t, "change") /\ Takes(t)
        /\ To(t, IF /\ now.kind = "bridge"
                    /\ (j.subnet = now.subnet \/ BlockFree(j.x, j.subnet))
                 THEN [at |-> "write", x |-> j.x, fabric |-> j.fabric, was |-> now,
                       value |-> [now EXCEPT !.subnet = j.subnet]]
                 ELSE [at |-> "refused"])
        /\ UNCHANGED <<net, used, apart, through, late, overwritten, ops>>

\* The daemon takes the whole of the settings, if the network is still there.
Put(j, crossed) ==
    IF net[j.x].kind = "bridge"
    THEN /\ net' = [net EXCEPT ![j.x] = [j.value EXCEPT !.fabric = net[j.x].fabric]]
         /\ overwritten' = overwritten \cup (IF net[j.x] # j.was \/ crossed THEN {j.x} ELSE {})
    ELSE UNCHANGED <<net, overwritten>>

Write(t) ==
    /\ Works(t, "write") /\ lock' = lock \ {t} /\ Passes(t)
    /\ Put(job[t], t \in late /\ job[t].value.subnet # job[t].was.subnet)
    /\ To(t, IF job[t].fabric /\ There(job[t].x) THEN [at |-> "offer", x |-> job[t].x] ELSE Idle)
    /\ UNCHANGED <<used, apart, through, ops>>

Refused(t) ==
    /\ Works(t, "refused") /\ lock' = lock \ {t} /\ Ends(t)
    /\ UNCHANGED <<net, used, apart, through, late, overwritten, ops>>

(* _offer_gateway(): the settings are read and written outside of the lock, when the  *)
(* route the bridge offers is not the one it should.                                  *)
OfferReads(t) ==
    LET now == net[job[t].x] IN
    /\ Works(t, "offer")
    /\ \/ Ends(t)
       \/ /\ now.kind = "bridge"
          /\ To(t, [at |-> "gateway", x |-> job[t].x, was |-> now,
                    value |-> now])
    /\ UNCHANGED <<net, used, apart, lock, through, late, overwritten, ops>>

Offer(t) ==
    /\ Works(t, "gateway") /\ Put(job[t], FALSE) /\ Ends(t)
    /\ UNCHANGED <<used, apart, lock, through, late, ops>>

-----------------------------------------------------------------------------
(* delete_network(): refused while anything is on it; the daemon looks again. *)
DeleteReads(t) ==
    /\ Works(t, "delete")
    /\ To(t, IF There(job[t].x) /\ job[t].x \notin used
             THEN [at |-> "destroy", x |-> job[t].x, kind |-> net[job[t].x].kind] ELSE Idle)
    /\ UNCHANGED <<net, used, apart, lock, through, late, overwritten, ops>>

Destroy(t) ==
    LET x == job[t].x
        gone == There(x) /\ x \notin used
    IN  /\ Works(t, "destroy")
        /\ net' = IF gone THEN [net EXCEPT ![x] = NoNet] ELSE net
        /\ overwritten' = IF gone THEN overwritten \ {x} ELSE overwritten
        /\ To(t, IF gone /\ job[t].kind = "lan" THEN [at |-> "firewall"] ELSE Idle)
        /\ UNCHANGED <<used, apart, lock, through, late, ops>>

(* An instance is put on a network, or leaves it. *)
Attach(x) ==
    /\ There(x) /\ ops < MaxOps /\ ops' = ops + 1
    /\ used' = IF x \in used THEN used \ {x} ELSE used \cup {x}
    /\ UNCHANGED <<net, apart, lock, job, through, late, overwritten>>

-----------------------------------------------------------------------------
(* sync_lan_firewall(): the LAN bridges are listed, and the helper keeps the rules    *)
(* at just those; one that is a bridge no more has it refuse the list.               *)
FirewallReads(t) ==
    /\ Works(t, "firewall")
    /\ To(t, [at |-> "rules", bridges |-> LanBridges])
    /\ UNCHANGED <<net, used, apart, lock, through, late, overwritten, ops>>

Rules(t) ==
    /\ Works(t, "rules") /\ Ends(t)
    /\ through' = IF job[t].bridges \subseteq LanBridges THEN job[t].bridges ELSE through
    /\ UNCHANGED <<net, used, apart, lock, late, overwritten, ops>>

(* _reapply_round() of the fabric's clock, where there is a LAN bridge; and Docker,   *)
(* which makes its rules anew when it restarts.                                       *)
Round(t) ==
    /\ Asked(t) /\ t \notin apart /\ LanBridges # {} /\ To(t, [at |-> "firewall"])
    /\ UNCHANGED <<net, used, apart, lock, through, late, overwritten>>

DockerRestarts ==
    /\ ops < MaxOps /\ ops' = ops + 1 /\ through' = {}
    /\ UNCHANGED <<net, used, apart, lock, job, late, overwritten>>

Next ==
    \/ \E t \in Threads, x \in Names, subnet \in Subnets \cup {AnyBlock} :
          \/ \E op \in {"create", "change"} : Ask(t, op, x, subnet)
          \/ EnsureBridge(t, x, subnet)
    \/ \E t \in Threads, x \in Names :
          Initialize(t, x) \/ \E op \in {"lan", "macvlan", "delete"} : Ask(t, op, x, AnyBlock)
    \/ \E t \in Threads :
          \/ CreateReads(t) \/ Make(t) \/ ChangeReads(t) \/ Write(t) \/ Refused(t)
          \/ OfferReads(t) \/ Offer(t) \/ DeleteReads(t) \/ Destroy(t)
          \/ FirewallReads(t) \/ Rules(t) \/ Round(t)
    \/ \E x \in Names : Attach(x)
    \/ DockerRestarts

Spec == Init /\ [][Next]_netVars

-----------------------------------------------------------------------------
(* No two bridges of the host are on one block, nor is one on a block the host has:   *)
(* "a bridge on a subnet the host already routes elsewhere (the LAN, docker0, another  *)
(* bridge) quietly breaks traffic to both" (_check_subnets_free).  Not meant is a       *)
(* bridge whose settings a fabric's gateway wrote back from before a change, nor one    *)
(* that got its block from a request that had looked before another process wrote.      *)
SubnetsApart ==
    \A x \in Names \ overwritten : net[x].kind = "bridge" =>
        /\ net[x].subnet \notin HostSubnets
        /\ \A y \in Names \ (overwritten \cup {x}) :
              net[y].kind = "bridge" => net[y].subnet # net[x].subnet

(* The same of every bridge, as _check_subnets_free() would have it.  It does not hold: *)
(* a command and a request of `serve`, each under a lock of its own, look at once and    *)
(* both get the block.                                                                    *)
AllApart ==
    \A x, y \in Names : x # y /\ net[x].kind = "bridge" /\ net[y].kind = "bridge" =>
        net[x].subnet # net[y].subnet

(* update_network(): "the merge below starts from what the previous update left, not    *)
(* from before it".  It does not hold: _offer_gateway() does not take the lock, and a    *)
(* command takes one of its own.                                                          *)
ChangesStay == overwritten = {}
-----------------------------------------------------------------------------
(* Why it holds: the inductive invariant, proved in NodePartsProof.             *)

Nets ==
    {NoNet} \cup [kind : {"bridge"}, subnet : Subnets, fabric : BOOLEAN]
    \cup [kind : {"lan", "macvlan"}, subnet : {AnyBlock}, fabric : {FALSE}]

\* What a request may be at, and what it carries there.
AskJobs == [at : {"create", "lan", "macvlan", "delete"}, x : Names,
            subnet : Subnets \cup {AnyBlock}, fabric : BOOLEAN]
InitJobs == [at : {"init"}, x : Names, subnet : {AnyBlock}, fabric : BOOLEAN]
ChangeJobs == [at : {"change"}, x : Names, subnet : Subnets, fabric : BOOLEAN]
MakeJobs == [at : {"make"}, x : Names, subnet : Subnets \cup {AnyBlock}, fabric : BOOLEAN,
             kind : {"bridge", "lan", "macvlan"}]
WriteJobs == [at : {"write"}, x : Names, fabric : BOOLEAN, was : Nets, value : Nets]
GatewayJobs == [at : {"gateway"}, x : Names, was : Nets, value : Nets]
OfferJobs == [at : {"offer"}, x : Names]
DestroyJobs == [at : {"destroy"}, x : Names, kind : {"none", "bridge", "lan", "macvlan"}]
OtherJobs == {Idle} \cup [at : {"refused"}] \cup [at : {"firewall"}]
             \cup [at : {"rules"}, bridges : SUBSET Names]

Jobs == AskJobs \cup InitJobs \cup ChangeJobs \cup MakeJobs \cup WriteJobs \cup GatewayJobs
        \cup OfferJobs \cup DestroyJobs \cup OtherJobs

\* The networks, what requests carry, and who holds the lock keep their types.
TypeOK ==
    /\ net \in [Names -> Nets]
    /\ job \in [Threads -> Jobs]
    /\ lock = Free \/ \E t \in Threads : lock = {t}
    /\ overwritten \in SUBSET Names /\ apart \in SUBSET Threads

Holding == {"make", "write", "refused"}

\* A request of `serve` that has read and is to write has the lock to itself.
HoldsTheLock == \A t \in Threads \ apart : job[t].at \in Holding => lock = {t}

\* Nothing but x, that nobody wrote over, is on the block.
Clear(x, subnet) ==
    /\ subnet \notin HostSubnets
    /\ \A y \in Names \ (overwritten \cup {x}) : net[y].kind = "bridge" => net[y].subnet # subnet

\* What is to be made or moved is still clear of the rest, unless others passed it.
MakeIsClear == \A t \in Threads \ late :
    job[t].at = "make" /\ job[t].kind = "bridge" /\ job[t].subnet # AnyBlock =>
        Clear(job[t].x, job[t].subnet)
WriteIsClear == \A t \in Threads : job[t].at = "write" =>
    /\ job[t].value.kind = "bridge" /\ job[t].was.kind = "bridge"
    /\ t \in late \/ job[t].value.subnet = job[t].was.subnet \/ Clear(job[t].x, job[t].value.subnet)
GatewayKeeps == \A t \in Threads : job[t].at = "gateway" =>
    job[t].value = job[t].was /\ job[t].was.kind = "bridge"
StillClear == MakeIsClear /\ WriteIsClear /\ GatewayKeeps

ApartInv == TypeOK /\ HoldsTheLock /\ StillClear /\ SubnetsApart

\* What nobody wrote over was on its block before.
NoneMoves == \A y \in Names \ overwritten' : net'[y].kind = "bridge" =>
    /\ y \notin overwritten /\ net[y].kind = "bridge" /\ net'[y].subnet = net[y].subnet

\* A request that goes on to j takes the lock, leaves it, or has nothing to do with it.
LockFits(t, j) ==
    \/ lock' = lock /\ (t \in apart \/ j.at \notin Holding)
    \/ lock = Free /\ lock' = {t}
    \/ lock = {t} /\ lock' = lock \ {t} /\ j.at \notin Holding

\* What a request has read, as it goes on to write.
Ready(j) ==
    /\ j.at = "make" /\ j.kind = "bridge" /\ j.subnet # AnyBlock => Clear(j.x, j.subnet)
    /\ j.at = "write" =>
          /\ j.value.kind = "bridge" /\ j.was.kind = "bridge"
          /\ j.value.subnet = j.was.subnet \/ Clear(j.x, j.value.subnet)
    /\ j.at = "gateway" => j.value = j.was /\ j.was.kind = "bridge"

\* What is left of that for one that another process passed.
ReadLate(j) ==
    /\ j.at = "write" => j.value.kind = "bridge" /\ j.was.kind = "bridge"
    /\ j.at = "gateway" => j.value = j.was /\ j.was.kind = "bridge"
=============================================================================
