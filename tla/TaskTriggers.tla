---------------------------- MODULE TaskTriggers ----------------------------
(***************************************************************************)
(* Runs of a task that are asked for: by a person or another program, and by   *)
(* the webhook deliveries of a forge (src/waterpump/tasks.py).                  *)
(*                                                                              *)
(* The member that is asked places the run: it goes through the eligible        *)
(* members, in an order of this request's own, until one takes it.  A delivery   *)
(* has an id, which the process that received it remembers, so that the forge    *)
(* may send it again.                                                            *)
(***************************************************************************)
EXTENDS Naturals, Sequences, FiniteSets, SequencesExt

CONSTANTS
    Members,     \* all of them eligible
    Deliveries,  \* ids of deliveries
    Remembered,  \* WEBHOOK_REMEMBERED
    Skip,        \* whether the task's overlap is "skip"
    MaxRequests, \* bound: requests received
    MaxTrouble   \* bound: calls that fail, members that decline, restarts

VARIABLES
    webhook,   \* the task's: whether its secret is the forge's, and the deliveries whose job
               \* is queued and asks for labels that the task offers
    known,     \* known[m]: ids m's process remembers, the oldest first
    process,   \* process[m]: which process of m this is
    request,   \* the requests, in the order they came
    live,      \* live[m]: runs at work on m
    started,   \* every run that was started, by its request
    lapsed,    \* ids that a process has forgotten because of others, or by its end
    trouble    \* so far, bounded by MaxTrouble

triggerVars == <<webhook, known, process, request, live, started, lapsed, trouble>>

Nobody == "nobody"
ByHand == "by hand"   \* a request that is not a delivery

Webhooks == [secret : BOOLEAN, offered : SUBSET Deliveries]

Init ==
    /\ webhook \in Webhooks
    /\ known = [m \in Members |-> <<>>] /\ process = [m \in Members |-> 1]
    /\ request = <<>> /\ live = [m \in Members |-> {}] /\ started = {} /\ lapsed = {}
    /\ trouble = 0

Troubled == trouble < MaxTrouble /\ trouble' = trouble + 1

Requests == DOMAIN request
\* A request that is over has nobody to try.
Becomes(k, at) ==
    request' = [request EXCEPT ![k].at = at, ![k].asking = Nobody,
                   ![k].tried = IF at \in {"verified", "placing"} THEN @ ELSE {}]

(* A delivery, or an invocation. *)
Arrives(m, id) ==
    /\ Len(request) < MaxRequests
    /\ request' = Append(request, [id |-> id, by |-> m, process |-> process[m],
                                   at |-> IF id = ByHand THEN "placing" ELSE "received",
                                   tried |-> {}, asking |-> Nobody])
    /\ UNCHANGED <<webhook, known, process, live, started, lapsed, trouble>>

-----------------------------------------------------------------------------
(* receive_webhook(): what cannot be verified is refused, whatever the reason; the *)
(* task is then read again.                                                        *)
Verified(k) ==
    /\ request[k].at = "received"
    /\ Becomes(k, IF webhook.secret THEN "verified" ELSE "403")
    /\ UNCHANGED <<webhook, known, process, live, started, lapsed, trouble>>

GitHubIgnored(id) == id \notin webhook.offered

(* The first of an id goes on, and the oldest id is forgotten when there are too   *)
(* many (_first_delivery); a delivery that the task does not take is not remembered. *)
FirstDelivery(k) ==
    LET r == request[k]  m == r.by IN
    /\ r.at = "verified"
    /\ IF GitHubIgnored(r.id) \/ Contains(known[m], r.id)
       THEN Becomes(k, "ignored") /\ UNCHANGED <<known, lapsed>>
       ELSE LET all == Append(known[m], r.id)
                keep == IF Len(all) > Remembered THEN Tail(all) ELSE all
            IN /\ known' = [known EXCEPT ![m] = keep]
               /\ lapsed' = lapsed \cup {<<m, i>> : i \in ToSet(all) \ ToSet(keep)}
               /\ Becomes(k, "placing")
    /\ UNCHANGED <<webhook, process, live, started, trouble>>

\* Mutant: any failure may be tried again.
ForgetsAll(r, code) == RemoveFirst(known[r.by], r.id)

\* Not taken: a redelivery may try again, unless a member may have it.
Forgets(r, code) == IF code = "504" THEN known[r.by] ELSE RemoveFirst(known[r.by], r.id)

Fails(k, code) ==
    /\ known' = [known EXCEPT ![request[k].by] =
                   IF request[k].id = ByHand THEN @ ELSE Forgets(request[k], code)]
    /\ Becomes(k, code)

-----------------------------------------------------------------------------
(* invoke(). *)

\* overlap: skip first asks around; a member that does not answer counts as idle.
Overlaps(k) ==
    /\ Skip /\ request[k].at = "placing" /\ request[k].tried = {} /\ request[k].asking = Nobody
    /\ \E m \in Members : live[m] # {}
    /\ Fails(k, "503")
    /\ UNCHANGED <<webhook, process, live, started, lapsed, trouble>>

\* declines(), and a run of a task that must not overlap (_run_here).
Refuses(m) == Skip /\ live[m] # {}

Runs(m, k) ==
    /\ live' = [live EXCEPT ![m] = @ \cup {k}]
    /\ started' = started \cup {[request |-> k, id |-> request[k].id, by |-> request[k].by,
                                 process |-> request[k].process, on |-> m]}

(* This member's own turn. *)
RunsHere(k) ==
    LET m == request[k].by IN
    /\ request[k].at = "placing" /\ request[k].asking = Nobody /\ m \notin request[k].tried
    /\ ~Refuses(m)
    /\ Runs(m, k) /\ Becomes(k, "202")
    /\ UNCHANGED <<webhook, known, process, lapsed, trouble>>

\* A task that is at work here ends the placing; a member that declines is passed over.
RefusesHere(k) ==
    LET m == request[k].by IN
    /\ request[k].at = "placing" /\ request[k].asking = Nobody /\ m \notin request[k].tried
    /\ \/ Refuses(m) /\ Fails(k, "503") /\ UNCHANGED trouble
       \/ Troubled /\ request' = [request EXCEPT ![k].tried = @ \cup {m}] /\ UNCHANGED known
    /\ UNCHANGED <<webhook, process, live, started, lapsed>>

(* _forward(): the candidate runs it here, or refuses. *)
Forwards(k, m) ==
    /\ request[k].at = "placing" /\ request[k].asking = Nobody
    /\ m \notin request[k].tried \cup {request[k].by}
    /\ request' = [request EXCEPT ![k].asking = m, ![k].tried = @ \cup {m}]
    /\ UNCHANGED <<webhook, known, process, live, started, lapsed, trouble>>

Takes(k) ==
    LET m == request[k].asking IN
    /\ request[k].at = "placing" /\ m # Nobody /\ ~Refuses(m)
    /\ Runs(m, k)
    /\ request' = [request EXCEPT ![k].at = "taken"]
    /\ UNCHANGED <<webhook, known, process, lapsed, trouble>>

TookIt(k) ==
    /\ request[k].at = "taken"
    /\ Becomes(k, "202")
    /\ UNCHANGED <<webhook, known, process, live, started, lapsed, trouble>>

\* It refuses, or cannot be reached: on to the next.
PassedOver(k) ==
    LET m == request[k].asking IN
    /\ request[k].at = "placing" /\ m # Nobody
    /\ \/ Refuses(m) /\ UNCHANGED trouble
       \/ Troubled
    /\ request' = [request EXCEPT ![k].asking = Nobody]
    /\ UNCHANGED <<webhook, known, process, live, started, lapsed>>

(* It was sent and not answered: the candidate may have started the run, or may   *)
(* yet do so; nobody else is asked.                                               *)
Unanswered(k) ==
    /\ request[k].at \in {"placing", "taken"} /\ request[k].asking # Nobody /\ Troubled
    /\ \/ /\ request[k].at = "placing" /\ ~Refuses(request[k].asking)
          /\ Runs(request[k].asking, k)
       \/ UNCHANGED <<live, started>>
    /\ Fails(k, "504")
    /\ UNCHANGED <<webhook, process, lapsed>>

\* Nobody is left, or no time is.
Unplaced(k) ==
    /\ request[k].at = "placing" /\ request[k].asking = Nobody
    /\ request[k].tried = Members \/ (request[k].id # ByHand /\ request[k].tried # {})
    /\ Fails(k, "503")
    /\ UNCHANGED <<webhook, process, live, started, lapsed, trouble>>

\* A person edits the task, or its secret.
EditWebhook(new) ==
    /\ Troubled /\ new # webhook /\ webhook' = new
    /\ UNCHANGED <<known, process, request, live, started, lapsed>>

RunEnds(m, k) ==
    /\ k \in live[m] /\ live' = [live EXCEPT ![m] = @ \ {k}]
    /\ UNCHANGED <<webhook, known, process, request, started, lapsed, trouble>>

\* serve starts anew: its requests end without an answer, and it remembers nothing.
Restart(m) ==
    /\ Troubled
    /\ process' = [process EXCEPT ![m] = @ + 1]
    /\ known' = [known EXCEPT ![m] = <<>>]
    /\ live' = [live EXCEPT ![m] = {}]
    /\ request' = [k \in Requests |-> IF request[k].by = m /\ request[k].at \in {"received", "verified", "placing", "taken"}
                                      THEN [request[k] EXCEPT !.at = "cut off", !.asking = Nobody, !.tried = {}]
                                      ELSE request[k]]
    /\ UNCHANGED <<webhook, started, lapsed>>

Next ==
    \/ \E m \in Members :
          \/ \E id \in Deliveries \cup {ByHand} : Arrives(m, id)
          \/ Restart(m)
          \/ \E k \in Requests : Forwards(k, m) \/ RunEnds(m, k)
    \/ \E new \in Webhooks : EditWebhook(new)
    \/ \E k \in Requests :
          \/ Verified(k) \/ FirstDelivery(k) \/ Overlaps(k) \/ RunsHere(k) \/ RefusesHere(k)
          \/ Takes(k) \/ TookIt(k) \/ PassedOver(k) \/ Unanswered(k) \/ Unplaced(k)

Spec == Init /\ [][Next]_triggerVars

-----------------------------------------------------------------------------
(* However often a forge sends a delivery to a member, and however its answers get *)
(* lost, that member's process starts at most one run of it while it remembers the  *)
(* id ("so it cannot run twice", tasks.py); what it says it could not place has      *)
(* been started nowhere; and an id that it remembers has a run, may have one or is   *)
(* being placed, so that no delivery is lost for having been refused, ignored or     *)
(* left unplaced before ("Not taken, so a redelivery must be allowed to try again"). *)
DeliveredOnce ==
    /\ \A s, t \in started :
          s.id = t.id /\ s.id # ByHand /\ s.by = t.by /\ s.process = t.process /\ <<s.by, s.id>> \notin lapsed =>
             s = t
    /\ \A s \in started : request[s.request].at # "503"
    /\ \A m \in Members : \A id \in ToSet(known[m]) : \E k \in Requests :
          /\ request[k].id = id /\ request[k].by = m /\ request[k].process = process[m]
          /\ request[k].at \in {"placing", "taken", "202", "504"}
=============================================================================
