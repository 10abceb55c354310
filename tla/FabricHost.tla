----------------------------- MODULE FabricHost -----------------------------
(* One node's half of its fabrics: the kernel's routes to the peers' subnets,  *)
(* its bridges and firewall, and what its instances on the LAN need to reach    *)
(* every fabric.  A pass brings them up to what the settings and the member     *)
(* records say (src/waterpump/fabric.py, hostnet.py, fabrichelper.py).          *)
EXTENDS Integers, FiniteSets

CONSTANTS
    Peers, Fabrics,
    Guests,       \* instances that may be on a macvlan of this host
    MaxChanges    \* bound: changes of the world

VARIABLES
    mine,      \* the fabrics this node is on (fabric.json)
    peer,      \* peer[p]: the fabrics p claims a subnet in, and where it is reached
    held,      \* this node is in maintenance
    foreign,   \* names of fabrics that a network of somebody else's has here
    host,      \* bridges, routes, firewall, and the routes of the shim
    guest,     \* guest[g]: does it run, has it a lease, is it on a fabric too, its routes
    pass,      \* the pass that is at work
    launch,    \* an instance that is being configured after its launch
    alone,     \* nothing changed, failed or crossed since the pass, or the launch, began
    changes

hostVars == <<mine, peer, held, foreign, host, guest, pass, launch, alone, changes>>

Far == "far"                    \* not on a network this host is attached to
Gateway == "gateway"            \* this node's own address in a fabric
Addresses == {"one", "other"}

Rest == [at |-> "rest", want |-> {}, left |-> {}, asked |-> FALSE]
NoOne == [of |-> "none", at |-> "rest", want |-> {}]

-----------------------------------------------------------------------------
(* Routes. *)

Way(p, f) == [to |-> p, fabric |-> f, via |-> peer[p].via]

(* desired_routes(): to every peer in every fabric of ours. *)
Desired == UNION {{Way(p, f) : f \in mine \cap peer[p].claims} : p \in Peers}

\* current_routes(): where ours go, which is all that is ever removed.
Ways(routes) == {[to |-> r.to, fabric |-> r.fabric, via |-> r.via] : r \in routes}

(* status(): what the route to a peer's subnet is worth. *)
RouteState(p, f) ==
    IF Way(p, f) \in Ways(host.routes) THEN IF peer[p].via = Far THEN "unreachable" ELSE "ok"
    ELSE IF \E r \in host.routes : r.to = p /\ r.fabric = f THEN "wrong" ELSE "missing"

(* _member_state(), as the overview of any member has it of this one. *)
MemberState(f) ==
    IF f \notin mine THEN "absent"
    ELSE IF f \notin host.bridges THEN "bridge"
    ELSE IF \E p \in Peers : Way(p, f) \in Desired /\ RouteState(p, f) # "ok" THEN "routes"
    ELSE "ok"

\* _source_for(): the bridge's own address, once the host has it.
Source(f) == IF f \in host.bridges THEN Gateway ELSE "none"

From(w) == [to |-> w.to, fabric |-> w.fabric, via |-> w.via, source |-> Source(w.fabric)]

\* Mutant: a route is left alone when it goes to the right node.
ByGateway(want) ==
    {r \in host.routes : Ways({r}) \subseteq want} \cup {From(w) : w \in want \ Ways(host.routes)}

(* route_commands(): what is there becomes what is wanted, from the right address. *)
Programmed(want) == {From(w) : w \in want}

(* status() counts them: what a pass would change. *)
Pending == Programmed(Desired) # host.routes

\* The helper takes gateways it is connected to, and fabrics of the settings it reads.
Refused(want) == \E w \in want : w.via = Far \/ w.fabric \notin mine

(* firewall_ruleset(): of the settings the helper reads, the whole table anew; a *)
(* fabric is kept apart from each other one there is.                            *)
Firewall(fabrics) == {[fabric |-> f, apart |-> fabrics \ {f}] : f \in fabrics}

\* It stops at the first command that fails: the firewall is the last.
Stopped(want) ==
    {[host EXCEPT !.routes = {r \in @ : \A d \in done : d.to # r.to \/ d.fabric # r.fabric} \cup done] :
        done \in SUBSET Programmed(want)}

-----------------------------------------------------------------------------
(* Instances on the LAN. *)

(* macvlan_instances(): those with a NIC on a fabric go through that. *)
OnLan == {g \in Guests : guest[g].runs /\ ~guest[g].fabric}

(* lan_guest_routes(): to each member's subnets, its own host's by the shim. *)
GuestRoutes ==
    (UNION {{Way(p, f) : f \in peer[p].claims} : p \in {q \in Peers : peer[q].via # Far}})
    \cup {[to |-> "here", fabric |-> f, via |-> Gateway] : f \in mine}

(* configure_lan_guest(): nothing is set before the guest has an address. *)
Configured(g) == IF guest[g].lease # "none" THEN [guest EXCEPT ![g].routes = GuestRoutes] ELSE guest

\* refresh_shims() reads the instances with their addresses as the daemon shows them ...
Shown == {g \in OnLan : guest[g].lease = "shown"}

-----------------------------------------------------------------------------
Init ==
    /\ mine \in SUBSET Fabrics
    /\ peer = [p \in Peers |-> [claims |-> Fabrics, via |-> "one"]]
    /\ held = FALSE /\ foreign \in SUBSET mine
    /\ host = [bridges |-> {}, routes |-> {}, wall |-> {}, shims |-> {}]
    /\ guest = [g \in Guests |-> [runs |-> FALSE, lease |-> "none", fabric |-> FALSE, routes |-> {}]]
    /\ pass = Rest /\ launch = NoOne /\ alone = FALSE /\ changes = 0

\* A pass: of the loop or a change of the membership, or asked for (apply).
Begin(asked) ==
    /\ pass.at \in {"rest", "over"}
    /\ pass' = [Rest EXCEPT !.asked = asked,
                  !.at = IF asked \/ (~held /\ (mine # {} \/ host.routes # {}))
                         THEN "bridges" ELSE "instances"]
    /\ alone' = (launch.at \in {"rest", "over"} /\ ~held)
    /\ launch' = IF launch.at = "over" THEN NoOne ELSE launch
    /\ UNCHANGED <<mine, peer, held, foreign, host, guest, changes>>

\* One bridge that cannot be ours keeps none of the others back.
EnsureBridges ==
    /\ pass.at = "bridges"
    /\ host' = [host EXCEPT !.bridges = (@ \cup mine) \ foreign]
    /\ pass' = [pass EXCEPT !.at = "routes"]
    /\ alone' = (alone /\ mine \cap foreign = {})
    /\ UNCHANGED <<mine, peer, held, foreign, guest, launch, changes>>

\* What is wanted is read here, and programmed by the helper.
Reads ==
    /\ pass.at = "routes"
    /\ pass' = [pass EXCEPT !.at = "helper", !.want = Desired]
    /\ UNCHANGED <<mine, peer, held, foreign, host, guest, launch, alone, changes>>

Helper ==
    /\ pass.at = "helper"
    /\ \/ ~Refused(pass.want)
            /\ host' = [host EXCEPT !.routes = Programmed(pass.want), !.wall = Firewall(mine)]
            /\ UNCHANGED alone
       \/ ~Refused(pass.want) /\ host' \in Stopped(pass.want) /\ alone' = FALSE
       \/ Refused(pass.want) /\ alone' = FALSE /\ UNCHANGED host
    /\ pass' = [pass EXCEPT !.at = IF pass.asked THEN "over" ELSE "instances", !.want = {}]
    /\ UNCHANGED <<mine, peer, held, foreign, guest, launch, changes>>

\* refresh_lan(): each instance there was, and then the shims.
RefreshLan ==
    /\ pass.at = "instances"
    /\ pass' = [pass EXCEPT !.at = "guests", !.left = OnLan]
    /\ UNCHANGED <<mine, peer, held, foreign, host, guest, launch, alone, changes>>

ConfigureGuest(g) ==
    /\ pass.at = "guests" /\ g \in pass.left
    /\ guest' = Configured(g)
    /\ pass' = [pass EXCEPT !.left = @ \ {g}]
    /\ alone' = (alone /\ guest[g].lease = "shown")
    /\ UNCHANGED <<mine, peer, held, foreign, host, launch, changes>>

ReadsAddresses ==
    /\ pass.at = "guests" /\ pass.left = {}
    /\ pass' = [pass EXCEPT !.at = "shims", !.want = Shown]
    /\ UNCHANGED <<mine, peer, held, foreign, host, guest, launch, alone, changes>>

\* ... and the helper makes the shim's routes those (shim_commands).
RefreshShims ==
    /\ pass.at = "shims"
    /\ host' = [host EXCEPT !.shims = pass.want]
    /\ pass' = [pass EXCEPT !.at = "over", !.want = {}]
    /\ UNCHANGED <<mine, peer, held, foreign, guest, launch, alone, changes>>

-----------------------------------------------------------------------------
(* configure_new_lan_instance(), after a launch. *)

Changed == changes < MaxChanges /\ changes' = changes + 1 /\ alone' = FALSE

Launch(g) ==
    /\ ~guest[g].runs /\ launch.at = "rest" /\ pass.at \in {"rest", "over"}
    /\ alone' = TRUE
    /\ guest' = [guest EXCEPT ![g].runs = TRUE, ![g].lease = "none", ![g].fabric = FALSE, ![g].routes = {}]
    /\ launch' = [NoOne EXCEPT !.of = g, !.at = "routes"]
    /\ pass' = Rest
    /\ UNCHANGED <<mine, peer, held, foreign, host, changes>>

\* A lease is there before the daemon shows it.
Lease(g) ==
    /\ guest[g].runs /\ guest[g].lease # "shown"
    /\ guest' = [guest EXCEPT ![g].lease = IF @ = "none" THEN "taken" ELSE "shown"]
    /\ UNCHANGED <<mine, peer, held, foreign, host, pass, launch, alone, changes>>

LaunchRoutes ==
    /\ launch.at = "routes"
    /\ \/ launch.of \in OnLan /\ guest' = Configured(launch.of)
            /\ launch' = [launch EXCEPT !.at = "waits"]
            /\ alone' = (alone /\ guest[launch.of].lease # "none")    \* it waits half a minute
       \/ launch.of \notin OnLan /\ launch' = NoOne /\ UNCHANGED <<guest, alone>>
    /\ UNCHANGED <<mine, peer, held, foreign, host, pass, changes>>

\* Fifteen seconds for the daemon to show the address, and it reads without it.
Waits ==
    /\ launch' = [launch EXCEPT !.at = "shims", !.want = Shown]
    /\ alone' = (alone /\ launch.of \in Shown)

LaunchReads ==
    /\ launch.at = "waits" /\ Waits
    /\ UNCHANGED <<mine, peer, held, foreign, host, guest, pass, changes>>

LaunchShims ==
    /\ launch.at = "shims"
    /\ host' = [host EXCEPT !.shims = launch.want]
    /\ launch' = [launch EXCEPT !.at = "over"]
    /\ UNCHANGED <<mine, peer, held, foreign, guest, pass, alone, changes>>

-----------------------------------------------------------------------------
(* What changes beside it. *)

PeerChanges(p) ==
    /\ Changed
    /\ \/ \E f \in Fabrics : peer' = [peer EXCEPT ![p].claims = (@ \ {f}) \cup ({f} \ @)]
       \/ \E a \in (Addresses \cup {Far}) \ {peer[p].via} : peer' = [peer EXCEPT ![p].via = a]
    /\ UNCHANGED <<mine, held, foreign, host, guest, pass, launch>>

\* A pass follows on a claim that is taken.
ClaimTaken(f) ==
    /\ f \notin mine /\ Changed
    /\ mine' = mine \cup {f}
    /\ UNCHANGED <<peer, held, foreign, host, guest, pass, launch>>

(* leave(): not while an instance is on it; what is left is programmed at once, and *)
(* then the bridge goes.  No two programs at a time (_lock).                        *)
Leave(f) ==
    /\ f \in mine /\ pass.at \notin {"bridges", "routes", "helper"} /\ \A g \in Guests : ~guest[g].fabric
    /\ Changed
    /\ mine' = mine \ {f}
    /\ LET want == {w \in Desired : w.fabric # f} IN
         host' = IF \E w \in want : w.via = Far THEN [host EXCEPT !.bridges = @ \ {f}]
                 ELSE [host EXCEPT !.bridges = @ \ {f}, !.routes = Programmed(want), !.wall = Firewall(mine')]
    /\ UNCHANGED <<peer, held, foreign, guest, pass, launch>>

\* Somebody removes the network that had the name.
Freed(f) ==
    /\ f \in foreign /\ Changed
    /\ foreign' = foreign \ {f}
    /\ UNCHANGED <<mine, peer, held, host, guest, pass, launch>>

Maintenance ==
    /\ Changed
    /\ held' = ~held
    /\ UNCHANGED <<mine, peer, foreign, host, guest, pass, launch>>

\* Routes, firewall and shims are the kernel's; bridges the daemon brings back.
Reboot ==
    /\ Changed
    /\ host' = [host EXCEPT !.routes = {}, !.wall = {}, !.shims = {}]
    /\ guest' = [g \in Guests |-> [guest[g] EXCEPT !.lease = "none", !.routes = {}]]
    /\ pass' = Rest /\ launch' = NoOne
    /\ UNCHANGED <<mine, peer, held, foreign>>

Stops(g) ==
    /\ guest[g].runs /\ Changed
    /\ guest' = [guest EXCEPT ![g].runs = FALSE, ![g].lease = "none", ![g].routes = {}]
    /\ UNCHANGED <<mine, peer, held, foreign, host, pass, launch>>

\* attach() and detach(): not in maintenance.  What it had of the LAN's routes it keeps.
Attach(g) ==
    /\ guest[g].runs /\ ~guest[g].fabric /\ mine # {} /\ ~held /\ Changed
    /\ guest' = [guest EXCEPT ![g].fabric = TRUE]
    /\ UNCHANGED <<mine, peer, held, foreign, host, pass, launch>>

Detach(g) ==
    /\ guest[g].runs /\ guest[g].fabric /\ ~held /\ Changed
    /\ guest' = [guest EXCEPT ![g].fabric = FALSE]
    /\ UNCHANGED <<mine, peer, held, foreign, host, pass, launch>>

Next ==
    \/ \E asked \in BOOLEAN : Begin(asked)
    \/ EnsureBridges \/ Reads \/ Helper \/ RefreshLan \/ ReadsAddresses \/ RefreshShims
    \/ \E g \in Guests : ConfigureGuest(g) \/ Launch(g) \/ Lease(g) \/ Stops(g) \/ Attach(g) \/ Detach(g)
    \/ LaunchRoutes \/ LaunchReads \/ LaunchShims
    \/ \E p \in Peers : PeerChanges(p)
    \/ \E f \in Fabrics : ClaimTaken(f) \/ Leave(f) \/ Freed(f)
    \/ Maintenance \/ Reboot

-----------------------------------------------------------------------------
\* Every instance on the LAN reaches every fabric, and the host's are reached from it.
Reached(g) == guest[g].routes = GuestRoutes /\ g \in host.shims

(* A pass that nothing crossed leaves nothing to be done, whatever was there        *)
(* before it: every member is shown it as well, no route is pending or goes from the *)
(* wrong address, and no instance on the LAN is without its way to every fabric.     *)
(* So has an instance its way after its launch, when its address shows in time.      *)
OnePassIsEnough ==
    /\ pass.at = "over" /\ alone =>
          /\ ~Pending /\ \A r \in host.routes : r.source = Gateway
          /\ host.wall = Firewall(mine)
          /\ \A f \in mine : MemberState(f) = "ok"
          /\ ~pass.asked => host.shims = OnLan /\ \A g \in OnLan : Reached(g)
    /\ launch.at = "over" /\ alone /\ pass.at = "rest" => Reached(launch.of)

-----------------------------------------------------------------------------
(* Why it holds: what a pass that nothing crossed has done so far, and so a launch. *)

Walls == [fabric : Fabrics, apart : SUBSET Fabrics]
PeerWays == [to : Peers, fabric : Fabrics, via : Addresses \cup {Far}]
HostWays == [to : Peers, fabric : Fabrics, via : Addresses \cup {Far}, source : {Gateway, "none"}]
GuestWays == [to : Peers \cup {"here"}, fabric : Fabrics, via : Addresses \cup {Far, Gateway}]

Hosts == [bridges : SUBSET Fabrics, routes : SUBSET HostWays, wall : SUBSET Walls, shims : SUBSET Guests]
Instances == [runs : BOOLEAN, lease : {"none", "taken", "shown"}, fabric : BOOLEAN, routes : SUBSET GuestWays]
Launches == [of : Guests \cup {"none"}, at : {"rest", "routes", "waits", "shims", "over"}, want : SUBSET Guests]

PassOK ==
    /\ pass \in [at : {"rest", "bridges", "routes", "helper", "instances", "guests", "shims", "over"},
                 want : {pass.want}, left : SUBSET Guests, asked : BOOLEAN]
    /\ pass.at = "helper" => pass.want \subseteq PeerWays
    /\ pass.at = "shims" => pass.want \subseteq Guests

LaunchOK == launch \in Launches /\ (launch.at # "rest" => launch.of \in Guests)

TypeOK ==
    /\ mine \subseteq Fabrics /\ foreign \subseteq Fabrics /\ held \in BOOLEAN /\ alone \in BOOLEAN
    /\ peer \in [Peers -> [claims : SUBSET Fabrics, via : Addresses \cup {Far}]]
    /\ host \in Hosts /\ guest \in [Guests -> Instances]
    /\ PassOK /\ LaunchOK

\* Bridges, routes and firewall are as wanted, and every peer is on a network of ours.
Carried ==
    /\ mine \subseteq host.bridges
    /\ host.routes = Programmed(Desired) /\ host.wall = Firewall(mine)
    /\ \A w \in Desired : w.via # Far

Knows(g) == guest[g].lease = "shown" /\ guest[g].routes = GuestRoutes

PassFits ==
    /\ pass.at \in {"routes", "helper"} => mine \subseteq host.bridges
    /\ pass.at = "helper" => pass.want = Desired
    /\ pass.at \in {"instances", "guests", "shims", "over"} => Carried
    /\ pass.at = "guests" => \A g \in OnLan \ pass.left : Knows(g)
    /\ pass.at = "shims" => pass.want = OnLan
    /\ pass.at = "over" /\ ~pass.asked => host.shims = OnLan
    /\ pass.at = "shims" \/ (pass.at = "over" /\ ~pass.asked) => \A g \in OnLan : Knows(g)

LaunchFits ==
    /\ launch.at \in {"waits", "shims", "over"} => guest[launch.of].routes = GuestRoutes
    /\ launch.at = "shims" => launch.of \in launch.want
    /\ launch.at = "over" => launch.of \in host.shims

Quiet ==
    /\ alone /\ pass.at # "rest" => launch.at = "rest" /\ PassFits
    /\ alone /\ pass.at = "rest" => LaunchFits

HostInv == TypeOK /\ (mine = {} => host.wall = {}) /\ Quiet
=============================================================================
