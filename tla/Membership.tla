----------------------------- MODULE Membership -----------------------------
(***************************************************************************)
(* Who is in the cluster, and with which credential (src/waterpump/        *)
(* cluster.py): join codes, joining, levelling the member lists, rotating  *)
(* the credential, evicting a node and leaving.                            *)
(*                                                                         *)
(* Every node keeps three files: the credential it presents, the token     *)
(* records of the credentials it accepts, and a record for each other      *)
(* member.  An operation is one thread of the node a person is talking to; *)
(* it calls the others side by side (_fanout), and a call may fail, or be  *)
(* given up and arrive all the same.  A node that stores a credential, or  *)
(* gives one up, writes two files one after the other.  Each file is read  *)
(* and written back whole under a lock of one process (update_auth()), so  *)
(* that a command beside `serve` may write one back as it was before.      *)
(***************************************************************************)
EXTENDS Naturals, FiniteSets

CONSTANTS
    Nodes,       \* hosts that run waterpump
    Codes,       \* join codes that may be issued
    MaxOps,      \* bound: operations that people begin
    MaxTrouble   \* bound: calls that fail although the other node is willing,
                 \* processes that die, and files written back by another process

ASSUME BoundsAssumption == MaxOps \in Nat /\ MaxTrouble \in Nat

VARIABLES
    held,      \* held[n]: the credential n presents (auth/cluster.json), or None
    accepts,   \* accepts[n]: the cluster credentials among n's token records
    known,     \* known[n]: the members n has a record of
    invites,   \* invites[n]: the join codes n issued that are not spent
    admitted,  \* who was admitted with which code
    op,        \* op[n]: the operation n is at, and its locals
    calls,     \* the HTTP calls between nodes under way
    writes,    \* handlers and operations between their first file and their second
    retold,    \* the nodes that were given a credential they had already
    rewrites,  \* another process of a node has read a file and will write it back
    undone,    \* the codes and the nodes' token records that this brought back
    issued,    \* credentials made so far
    begun, faults, crashes      \* so far, bounded as above

vars == <<held, accepts, known, invites, admitted, op, calls, writes, retold, rewrites, undone,
          issued, begun, faults, crashes>>

\* What the other process of a node has to do with.
rewriting == <<rewrites, undone>>
others == <<retold, rewriting>>

None == 0

Idle == [kind |-> "idle"]

Resting(o) == o.kind \in {"idle", "done"}

InCluster(n) == held[n] # None

\* A node outside any cluster asks its callers for nothing (_principal).
Admits(n, cred) == InCluster(n) => cred \in accepts[n]

\* What _peers_only() lets through.
IsPeer(n, cred) == InCluster(n) /\ cred \in accepts[n]

Call(kind, from, to, cred, arg) ==
    [kind |-> kind, from |-> from, to |-> to, cred |-> cred, arg |-> arg, awaited |-> TRUE]

\* The second half of a handler: the secret file.  `caller` is who waits for it.
Write(at, cred, caller) == [at |-> at, cred |-> cred, caller |-> caller]

\* Nobody else is doing anything.
Quiet == calls = {} /\ writes = {} /\ rewrites = {} /\ \A n \in Nodes : Resting(op[n])

\* n and those it has a record of present one credential, and take it.
Level(n) == InCluster(n) /\ \A p \in known[n] \cup {n} : held[p] = held[n] /\ held[n] \in accepts[p]

\* The locals every operation has: the members it calls and those still to be
\* called, who did not answer, and those among them that were willing; `alone`
\* and `level` say whether anything else went on since it began, and how it
\* found the cluster.
Operation(n, kind) ==
    [kind |-> kind, peers |-> known[n], left |-> known[n], bad |-> {}, missed |-> {}, got |-> {},
     old |-> held[n], new |-> None, who |-> n, stood |-> TRUE,
     alone |-> Quiet, level |-> Level(n)]

\* Something else goes on beside an operation; what one reported is no longer news.
Beside(o) == IF Resting(o) THEN Idle ELSE [o EXCEPT !.alone = FALSE]

Begin(n, o) ==
    /\ Resting(op[n]) /\ begun < MaxOps
    /\ begun' = begun + 1
    /\ op' = [m \in Nodes |-> IF m = n THEN o ELSE Beside(op[m])]

Done(o) == [of |-> o.kind, kind |-> "done", bad |-> o.bad, missed |-> o.missed,
            reached |-> o.peers \ o.bad, old |-> o.old, new |-> o.new, who |-> o.who,
            stood |-> o.stood, alone |-> o.alone, level |-> o.level]

-----------------------------------------------------------------------------
Init ==
    \E members \in SUBSET Nodes :
        /\ members # {}
        /\ held = [n \in Nodes |-> IF n \in members THEN 1 ELSE None]
        /\ accepts = [n \in Nodes |-> IF n \in members THEN {1} ELSE {}]
        /\ known = [n \in Nodes |-> IF n \in members THEN members \ {n} ELSE {}]
        /\ invites = [n \in Nodes |-> {}]
        /\ admitted = {}
        /\ op = [n \in Nodes |-> Idle]
        /\ calls = {} /\ writes = {} /\ retold = {} /\ issued = 1
        /\ rewrites = {} /\ undone = {}
        /\ begun = 0 /\ faults = 0 /\ crashes = 0

\* The credentials n presents, is about to present, or is replacing.
Having(n) ==
    {held[n]} \cup {w.cred : w \in {v \in writes : v.at = n}}
    \cup (IF op[n].kind = "rotate" THEN {op[n].old} ELSE {})

(* _install_secret(): the token records in one write, the secret in the next. *)
InstallTokens(n, cred, revoke) ==
    /\ accepts' = [accepts EXCEPT ![n] = (@ \ ({revoke} \ {cred})) \cup {cred}]
    /\ retold' = IF cred \in Having(n) THEN retold \cup {n} ELSE retold

(* _stand_down(): the member records and the token first, the secret last. *)
DropTokens(n) ==
    /\ known' = [known EXCEPT ![n] = {}]
    /\ accepts' = [accepts EXCEPT ![n] = @ \ {held[n]}]

-----------------------------------------------------------------------------
(* Join codes. *)

(* create_invite(), and _form_cluster() when there is none yet. *)
Invite(n, code) ==
    /\ \A m \in Nodes : code \notin invites[m]
    /\ \A a \in admitted : a[1] # code
    /\ \A w \in rewrites : code \notin w.read
    /\ invites' = [invites EXCEPT ![n] = @ \cup {code}]
    /\ IF InCluster(n) THEN UNCHANGED <<held, accepts, issued>>
       ELSE /\ issued' = issued + 1
            /\ held' = [held EXCEPT ![n] = issued']
            /\ accepts' = [accepts EXCEPT ![n] = @ \cup {issued'}]
    /\ op' = [m \in Nodes |-> Beside(op[m])]
    /\ UNCHANGED <<known, admitted, calls, writes, begun, faults, crashes, others>>

(* revoke_invite(), or the code's time is up. *)
Revoke(n, code) ==
    /\ code \in invites[n]
    /\ invites' = [invites EXCEPT ![n] = @ \ {code}]
    /\ UNCHANGED <<held, accepts, known, admitted, op, calls, writes, issued, begun,
                   faults, crashes, others>>

(* join(), as far as the call to the node whose code it is. *)
Join(n, by, code) ==
    /\ ~InCluster(n) /\ by # n
    /\ code \in invites[by]
    /\ Begin(n, [Operation(n, "ask") EXCEPT !.who = by, !.new = code, !.level = Level(by) /\ known[n] = {}])
    /\ UNCHANGED <<held, accepts, known, invites, admitted, calls, writes, issued,
                   faults, crashes, others>>

\* The joiner's thread goes no further.
Refused(n) == op' = [op EXCEPT ![n] = Idle]

(* _redeem()'s first look, which spares the file. *)
EnrollCheck(n) ==
    /\ op[n].kind = "ask"
    /\ LET by == op[n].who IN
         IF InCluster(by) /\ op[n].new \in invites[by]
         THEN op' = [op EXCEPT ![n].kind = "redeem"] ELSE Refused(n)
    /\ UNCHANGED <<held, accepts, known, invites, admitted, calls, writes, issued, begun,
                   faults, crashes, others>>

\* Mutant: the first look is enough.
RedeemableAsSeen(by, code) == TRUE

\* What _redeem() asks for when it has the file to itself.
Redeemable(by, code) == code \in invites[by]

(* _redeem()'s write, and remembering the joiner before anything is answered. *)
EnrollRedeem(n) ==
    /\ op[n].kind = "redeem"
    /\ LET by == op[n].who  code == op[n].new IN
         IF Redeemable(by, code)
         THEN /\ invites' = [invites EXCEPT ![by] = @ \ {code}]
              /\ admitted' = admitted \cup {<<code, n>>}
              /\ known' = [known EXCEPT ![by] = @ \cup {n}]
              /\ op' = [op EXCEPT ![n].kind = "enrolled"]
         ELSE Refused(n) /\ UNCHANGED <<invites, admitted, known>>
    /\ UNCHANGED <<held, accepts, calls, writes, issued, begun, faults, crashes, others>>

(* enroll()'s answer, with the credential and the members as they are now, and *)
(* join() storing the token.                                                   *)
EnrollAnswer(n) ==
    /\ op[n].kind = "enrolled"
    /\ LET by == op[n].who IN
         IF InCluster(by)
         THEN /\ op' = [op EXCEPT ![n].kind = "install", ![n].new = held[by],
                                  ![n].got = (known[by] \cup {by}) \ {n}]
              /\ InstallTokens(n, held[by], None)
              /\ writes' = writes \cup {Write(n, held[by], n)}
         ELSE Refused(n) /\ UNCHANGED <<accepts, writes, retold>>
    /\ UNCHANGED <<held, known, invites, admitted, calls, issued, begun, faults, crashes,
                   rewriting>>

\* The joiner's call fails after the code was spent.
EnrollLost(n) ==
    /\ op[n].kind = "enrolled" /\ faults + crashes < MaxTrouble
    /\ faults' = faults + 1
    /\ Refused(n)
    /\ UNCHANGED <<held, accepts, known, invites, admitted, calls, writes, issued, begun,
                   crashes, others>>

(* The members that came with the answer, and then sync_members(). *)
JoinRemember(n) ==
    /\ op[n].kind = "install"
    /\ \A w \in writes : w.caller # n
    /\ known' = [known EXCEPT ![n] = @ \cup op[n].got]
    /\ op' = [op EXCEPT ![n].kind = "sync", ![n].got = {},
                        ![n].peers = known'[n], ![n].left = known'[n]]
    /\ UNCHANGED <<held, accepts, invites, admitted, calls, writes, issued, begun,
                   faults, crashes, others>>

-----------------------------------------------------------------------------
(* The operations that call every member. *)

(* sync_members() *)
Refresh(n) ==
    /\ InCluster(n)
    /\ Begin(n, Operation(n, "sync"))
    /\ UNCHANGED <<held, accepts, known, invites, admitted, calls, writes, issued,
                   faults, crashes, others>>

(* rotate_secret() *)
Rotate(n) ==
    /\ InCluster(n)
    /\ issued' = issued + 1
    /\ Begin(n, [Operation(n, "rotate") EXCEPT !.new = issued'])
    /\ UNCHANGED <<held, accepts, known, invites, admitted, calls, writes, faults, crashes, others>>

(* evict_node(): the node itself is told first. *)
Evict(n, who) ==
    /\ who \in known[n]
    /\ Begin(n, [Operation(n, "evict") EXCEPT !.who = who, !.left = {who}])
    /\ UNCHANGED <<held, accepts, known, invites, admitted, calls, writes, issued,
                   faults, crashes, others>>

(* leave(): the members are told first, where there is a credential to tell them *)
(* with; it also clears what a half-made stand-down left.                        *)
Leave(n) ==
    /\ InCluster(n) \/ known[n] # {}
    /\ LET told == IF InCluster(n) THEN known[n] ELSE {} IN
         Begin(n, [Operation(n, "leave") EXCEPT !.peers = told, !.left = told])
    /\ UNCHANGED <<held, accepts, known, invites, admitted, calls, writes, issued,
                   faults, crashes, others>>

Calling == {"sync", "rotate", "evict", "tell", "leave"}

\* The call an operation makes, and what it carries.
CallOf(kind) == CASE kind = "sync" -> "announce" [] kind = "rotate" -> "switch"
                  [] kind = "evict" -> "evicted" [] OTHER -> "forget"

Carried(o) == IF o.kind = "rotate" THEN o.new ELSE o.who

(* One of the fan-out's threads: client() takes the record and the credential of *)
(* this moment, and raises when one of them is gone.                             *)
Send(n, p) ==
    /\ op[n].kind \in Calling /\ p \in op[n].left
    /\ IF InCluster(n) /\ p \in known[n]
       THEN /\ calls' = calls \cup {Call(CallOf(op[n].kind), n, p, held[n], Carried(op[n]))}
            /\ op' = [op EXCEPT ![n].left = @ \ {p}]
       ELSE /\ op' = [op EXCEPT ![n].left = @ \ {p}, ![n].bad = @ \cup {p}]
            /\ UNCHANGED calls
    /\ UNCHANGED <<held, accepts, known, invites, admitted, writes, issued, begun, faults,
                   crashes, others>>

\* The caller hears back, if it still waits.
Answered(c, ok) ==
    op' = IF ~c.awaited THEN op
          ELSE [op EXCEPT ![c.from].bad = IF ok THEN @ ELSE @ \cup {c.to},
                          ![c.from].got = IF ok THEN @ \cup {c.to} ELSE @]

(* announce(): the caller is remembered, and gets the list of this node's members. *)
ServeAnnounce(c) ==
    /\ c.kind = "announce" /\ c \in calls
    /\ calls' = calls \ {c}
    /\ IF Admits(c.to, c.cred)
       THEN /\ known' = [known EXCEPT ![c.to] = @ \cup {c.from}]
            /\ op' = IF c.awaited
                     THEN [op EXCEPT ![c.from].got = @ \cup {c.to} \cup known[c.to]] ELSE op
       ELSE Answered(c, FALSE) /\ UNCHANGED known
    /\ UNCHANGED <<held, accepts, invites, admitted, writes, issued, begun, faults, crashes, others>>

(* drop_member() *)
ServeForget(c) ==
    /\ c.kind = "forget" /\ c \in calls
    /\ calls' = calls \ {c}
    /\ IF IsPeer(c.to, c.cred)
       THEN known' = [known EXCEPT ![c.to] = @ \ {c.arg}] /\ Answered(c, c.to # c.arg)
       ELSE Answered(c, FALSE) /\ UNCHANGED known
    /\ UNCHANGED <<held, accepts, invites, admitted, writes, issued, begun, faults, crashes, others>>

(* evicted(): a node that is in no cluster says so to anyone. *)
ServeEvicted(c) ==
    /\ c.kind = "evicted" /\ c \in calls
    /\ calls' = calls \ {c}
    /\ IF IsPeer(c.to, c.cred)
       THEN /\ DropTokens(c.to)
            /\ writes' = writes \cup {Write(c.to, None, IF c.awaited THEN c.from ELSE c.to)}
            /\ UNCHANGED op
       ELSE Answered(c, ~InCluster(c.to)) /\ UNCHANGED <<accepts, known, writes>>
    /\ UNCHANGED <<held, invites, admitted, issued, begun, faults, crashes, others>>

(* accept_secret(): the one it presents until now goes from those it accepts. *)
ServeSwitch(c) ==
    /\ c.kind = "switch" /\ c \in calls
    /\ calls' = calls \ {c}
    /\ IF IsPeer(c.to, c.cred)
       THEN /\ InstallTokens(c.to, c.arg, held[c.to])
            /\ writes' = writes \cup {Write(c.to, c.arg, IF c.awaited THEN c.from ELSE c.to)}
            /\ UNCHANGED op
       ELSE Answered(c, FALSE) /\ UNCHANGED <<accepts, writes, retold>>
    /\ UNCHANGED <<held, known, invites, admitted, issued, begun, faults, crashes, rewriting>>

(* The secret file is written, and a handler answers. *)
Finish(w) ==
    /\ w \in writes
    /\ held' = [held EXCEPT ![w.at] = w.cred]
    /\ writes' = writes \ {w}
    /\ op' = IF w.caller = w.at THEN op ELSE [op EXCEPT ![w.caller].got = @ \cup {w.at}]
    /\ UNCHANGED <<accepts, known, invites, admitted, calls, issued, begun, faults, crashes, others>>

\* The caller sees an error, and the call never arrives, or does so later on.
Fail(c, late) ==
    /\ c \in calls /\ c.awaited /\ faults + crashes < MaxTrouble
    /\ faults' = faults + 1
    /\ calls' = (calls \ {c}) \cup (IF late THEN {[c EXCEPT !.awaited = FALSE]} ELSE {})
    /\ op' = [op EXCEPT ![c.from].bad = @ \cup {c.to}, ![c.from].missed = @ \cup {c.to}]
    /\ UNCHANGED <<held, accepts, known, invites, admitted, writes, issued, begun, crashes, others>>

\* Every thread of the fan-out is back.
Through(n) ==
    /\ op[n].kind \in Calling /\ op[n].left = {}
    /\ \A c \in calls : ~(c.from = n /\ c.awaited)
    /\ \A w \in writes : w.caller # n \/ w.at = n

(* remember_members() over the answers: gossip brings in whoever is new. *)
Learned(n) == op[n].got \ {n}

SyncEnds(n) ==
    /\ Through(n) /\ op[n].kind = "sync"
    /\ known' = [known EXCEPT ![n] = @ \cup Learned(n)]
    /\ op' = [op EXCEPT ![n] = Done(@)]
    /\ UNCHANGED <<held, accepts, invites, admitted, calls, writes, issued, begun, faults,
                   crashes, others>>

(* The node that rotates is the last to switch. *)
RotateEnds(n) ==
    /\ Through(n) /\ op[n].kind = "rotate"
    /\ InstallTokens(n, op[n].new, op[n].old)
    /\ writes' = writes \cup {Write(n, op[n].new, n)}
    /\ op' = [op EXCEPT ![n].kind = "settle"]
    /\ UNCHANGED <<held, known, invites, admitted, calls, issued, begun, faults, crashes,
                   rewriting>>

(* _forget() here, then _tell_peers(). *)
EvictForgets(n) ==
    /\ Through(n) /\ op[n].kind = "evict"
    /\ known' = [known EXCEPT ![n] = @ \ {op[n].who}]
    /\ op' = [op EXCEPT ![n].kind = "tell", ![n].peers = known'[n], ![n].left = known'[n],
                        ![n].stood = op[n].bad = {}, ![n].bad = {}, ![n].missed = {},
                        ![n].got = {}]
    /\ UNCHANGED <<held, accepts, invites, admitted, calls, writes, issued, begun, faults,
                   crashes, others>>

\* Mutant: a node that could not be told is left with its credential.
NeverRotates(n) == FALSE

\* The credential is replaced only where the node could not be told.
MustRotate(n) == ~op[n].stood /\ InCluster(n)

TellEnds(n) ==
    /\ Through(n) /\ op[n].kind = "tell"
    /\ IF MustRotate(n)
       THEN /\ issued' = issued + 1
            /\ op' = [op EXCEPT ![n].kind = "rotate", ![n].peers = known[n], ![n].left = known[n],
                                ![n].bad = {}, ![n].missed = {}, ![n].old = held[n], ![n].new = issued']
       ELSE op' = [op EXCEPT ![n] = Done(@)] /\ UNCHANGED issued
    /\ UNCHANGED <<held, accepts, known, invites, admitted, calls, writes, begun, faults,
                   crashes, others>>

(* Told or not, the node gives everything up. *)
LeaveEnds(n) ==
    /\ Through(n) /\ op[n].kind = "leave"
    /\ DropTokens(n)
    /\ writes' = writes \cup {Write(n, None, n)}
    /\ op' = [op EXCEPT ![n].kind = "settle", ![n].new = None]
    /\ UNCHANGED <<held, invites, admitted, calls, issued, begun, faults, crashes, others>>

Settled(n) ==
    /\ op[n].kind = "settle"
    /\ \A w \in writes : w.at # n \/ w.caller # n
    /\ op' = [op EXCEPT ![n] = [Done(@) EXCEPT !.of = IF op[n].new = None THEN "leave"
                                                      ELSE "rotate"]]
    /\ UNCHANGED <<held, accepts, known, invites, admitted, calls, writes, issued, begun,
                   faults, crashes, others>>

(* The process dies: its thread, and any second file that was still to come. *)
Crash(n) ==
    /\ faults + crashes < MaxTrouble
    /\ crashes' = crashes + 1
    /\ writes' = {IF w.caller = n THEN [w EXCEPT !.caller = w.at] ELSE w :
                    w \in {v \in writes : v.at # n}}
    /\ calls' = {IF c.from = n THEN [c EXCEPT !.awaited = FALSE] ELSE c : c \in calls}
    /\ op' = [m \in Nodes |->
                IF m = n THEN Idle
                ELSE IF \E w \in writes : w.at = n /\ w.caller = m
                     THEN [op[m] EXCEPT !.bad = @ \cup {n}, !.missed = @ \cup {n}]
                     ELSE op[m]]
    /\ UNCHANGED <<held, accepts, known, invites, admitted, issued, begun, faults, others>>

(* update_auth() of a command beside `serve`, or of _touch() beside a command: it  *)
(* reads the codes, or the token records ...                                       *)
ProcessReads(n, read) ==
    /\ faults + crashes < MaxTrouble
    /\ faults' = faults + 1
    /\ rewrites' = rewrites \cup {read}
    /\ op' = [m \in Nodes |-> Beside(op[m])]
    /\ UNCHANGED <<held, accepts, known, invites, admitted, calls, writes, retold, undone,
                   issued, begun, crashes>>

(* ... and writes them back.  Its own change to them counts as a step of its own.  *)
ProcessWrites(w) ==
    /\ rewrites' = rewrites \ {w}
    /\ IF w.file = "invites"
       THEN /\ invites' = [invites EXCEPT ![w.at] = w.read]
            /\ undone' = undone \cup (w.read \ invites[w.at])
            /\ UNCHANGED accepts
       ELSE /\ accepts' = [accepts EXCEPT ![w.at] = w.read]
            /\ undone' = IF w.read = accepts[w.at] THEN undone ELSE undone \cup {w.at}
            /\ UNCHANGED invites
    /\ UNCHANGED <<held, known, admitted, op, calls, writes, retold, issued, begun, faults,
                   crashes>>

Next ==
    \/ \E n \in Nodes, code \in Codes :
          \/ Invite(n, code) \/ Revoke(n, code)
          \/ \E by \in Nodes : Join(n, by, code)
    \/ \E n \in Nodes :
          \/ EnrollCheck(n) \/ EnrollRedeem(n) \/ EnrollAnswer(n) \/ EnrollLost(n)
          \/ JoinRemember(n)
          \/ Refresh(n) \/ Rotate(n) \/ Leave(n)
          \/ \E p \in Nodes : Evict(n, p) \/ Send(n, p)
          \/ SyncEnds(n) \/ RotateEnds(n) \/ EvictForgets(n) \/ TellEnds(n)
          \/ LeaveEnds(n) \/ Settled(n) \/ Crash(n)
          \/ ProcessReads(n, [at |-> n, file |-> "invites", read |-> invites[n]])
          \/ ProcessReads(n, [at |-> n, file |-> "tokens", read |-> accepts[n]])
    \/ \E w \in rewrites : ProcessWrites(w)
    \/ \E c \in calls :
          \/ ServeAnnounce(c) \/ ServeForget(c) \/ ServeEvicted(c) \/ ServeSwitch(c)
          \/ \E late \in BOOLEAN : Fail(c, late)
    \/ \E w \in writes : Finish(w)

Spec == Init /\ [][Next]_vars

-----------------------------------------------------------------------------
Report(n, of) == op[n].kind = "done" /\ op[n].of = of /\ op[n].alone

(* A join code admits one node, however many present it and at whatever        *)
(* moment: _redeem() looks without the file's lock and looks again with it.    *)
(* A code that another process brought back from an older file is exempt.      *)
OneNodePerCode == \A a, b \in admitted : a[1] = b[1] /\ a[1] \notin undone => a[2] = b[2]

(* A node takes the calls it makes to itself (local_api() counts on it) through *)
(* every crossing of rotations, joins and evictions: the token of the           *)
(* credential it presents is never the one that a rotation takes away.  Exempt: *)
(* a node given a credential it had already, and one whose token records        *)
(* another process wrote back as they were before.                              *)
HeldIsAccepted ==
    crashes = 0 =>
        \A n \in Nodes \ (retold \cup undone) :
            InCluster(n) /\ (\A w \in writes : w.at # n) => held[n] \in accepts[n]

(* A code admits one node, and a node of the cluster is heard, in every order   *)
(* of what its processes do, as long as none of them takes another's change     *)
(* back.                                                                        *)
AdmittedAndHeard == OneNodePerCode /\ HeldIsAccepted

(* What docs/cluster.md:153 says of a code, "single use": it is not while a     *)
(* command of another process rewrites the file in between.                     *)
SingleUse == \A a, b \in admitted : a[1] = b[1] => a[2] = b[2]

(* A rotation that ended, with nothing else going on: whoever it does not      *)
(* report as stranded has the new credential and takes it, and no longer takes *)
(* the old one; whoever it does report was out of reach.                       *)
RotationSwitches ==
    \A n \in Nodes :
        Report(n, "rotate") /\ op[n].level =>
            /\ op[n].bad \subseteq op[n].missed
            /\ \A p, q \in op[n].reached \cup {n} :
                  /\ held[p] = op[n].new /\ held[p] \in accepts[q]
                  /\ op[n].old \notin accepts[q]

(* A node that was evicted, with nothing else going on, can call none of the   *)
(* members the eviction reached, whether it was told or the credential was     *)
(* rotated; and none of those it told lists it.                                *)
EvictedIsOut ==
    \A n \in Nodes :
        /\ Report(n, "rotate") /\ op[n].level /\ op[n].who # n =>
              \A p \in op[n].reached \cup {n} : held[op[n].who] \notin accepts[p]
        /\ Report(n, "tell") /\ op[n].level =>
              /\ held[op[n].who] = None
              /\ \A p \in op[n].reached \cup {n} : op[n].who \notin known[p]

(* Levelling the member list, or joining, with nothing else going on and       *)
(* everyone in reach: those it called know the node and it knows whom they     *)
(* know, and they take one another's calls.                                    *)
SyncLevels ==
    \A n \in Nodes :
        Report(n, "sync") /\ op[n].level /\ op[n].missed = {} =>
            /\ op[n].bad = {}
            /\ \A p \in op[n].reached :
                  /\ n \in known[p] /\ known[p] \ {n} \subseteq known[n]
                  /\ held[p] \in accepts[n] /\ held[n] \in accepts[p]

(* A node that left holds nothing of the cluster, from whatever state it left, *)
(* the half-made one of a crash included; whom it told no longer lists it.     *)
LeftHoldsNothing ==
    \A n \in Nodes :
        Report(n, "leave") =>
            /\ held[n] = None /\ known[n] = {} /\ op[n].old \notin accepts[n]
            /\ \A p \in op[n].reached : n \notin known[p]

(* What an operation that had the cluster to itself reports is how the cluster *)
(* is, whichever of its calls failed or came late: after a rotation, an        *)
(* eviction, a levelling of the member lists, a join, a leaving.               *)
ReportsAreTrue == RotationSwitches /\ EvictedIsOut /\ SyncLevels /\ LeftHoldsNothing
=============================================================================
