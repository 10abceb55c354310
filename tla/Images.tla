------------------------------- MODULE Images -------------------------------
(***************************************************************************)
(* Images of a cluster: made of a snapshot, copied from node to node,        *)
(* pinned, fetched, pruned and deleted (src/waterpump/service.py and          *)
(* cluster.py).                                                               *)
(*                                                                            *)
(* A node's images and the aliases that name them are its daemon's; pins and  *)
(* templates are its copies of shared definitions.  A job is a thread of the   *)
(* node it was asked at, which sends to several nodes at a time; a prune is a  *)
(* thread that reads what is needed, one kind of need after another, and only  *)
(* then lists and deletes.  All of these run beside one another.               *)
(***************************************************************************)
EXTENDS Naturals, FiniteSets

CONSTANTS
    Nodes,     \* cluster members
    Builds,    \* images a remote serves: downloaded, pinned, pruned
    Made,      \* images made of snapshots here
    Aliases,   \* names people give images
    Senders,   \* IMAGE_SEND_WORKERS
    MaxJobs,   \* bound: jobs begun
    MaxChanges \* bound: what people do beside the jobs, and what fails

VARIABLES
    held,      \* held[n]: images in n's daemon
    alias,     \* alias[n][a]: the image a names there, or NoImage
    pins,      \* pins[n]: pinned builds, as n's copy has it
    launched,  \* launched[n]: what n's templates launch as local:<name>
    based,     \* based[n]: images that instances there were made from
    job,       \* the jobs, running or over
    prune,     \* prune[n]: n's prune
    changes    \* so far, bounded by MaxChanges

imageVars == <<held, alias, pins, launched, based, job, prune, changes>>

NoImage == "noImage"
AllImages == Builds \cup Made

ImagesAssumption == Builds \cap Made = {} /\ NoImage \notin AllImages

\* A fetched build has an alias of its own (pin_alias): the build stands for it.  A
\* template may name any of them, and a build by its fingerprint besides.
PinAlias(b) == <<"pin", b>>
Fingerprint(i) == <<"fingerprint", i>>
Given == {"alias"} \X Aliases
Names == Given \cup {PinAlias(b) : b \in Builds}
Launchable == Names \cup {Fingerprint(b) : b \in Builds}

NoPrune == [at |-> "rest", still |-> {}, only |-> {}, pinned |-> {}, named |-> {}, based |-> {}, list |-> {}]

Named(n, i) == {a \in Names : alias[n][a] = i}
Called(n, i) == Named(n, i) \cup {Fingerprint(i)}

\* What keeps an image on n, each need with its kind.
Needs(n) == ({"based"} \X based[n]) \cup ({"pinned"} \X pins[n])
            \cup ({"launched"} \X {i \in held[n] : Called(n, i) \cap launched[n] # {}})

\* A prune at work remembers which needs there were all along.
Remembering == prune' = [n \in Nodes |-> [prune[n] EXCEPT !.still = @ \cap Needs(n)']]

Init ==
    /\ held = [n \in Nodes |-> {}] /\ alias = [n \in Nodes |-> [a \in Names |-> NoImage]]
    /\ pins = [n \in Nodes |-> {}] /\ launched \in [Nodes -> SUBSET Launchable]
    /\ based = [n \in Nodes |-> {}] /\ job = <<>> /\ prune = [n \in Nodes |-> NoPrune]
    /\ changes = 0

Changed == changes < MaxChanges /\ changes' = changes + 1

-----------------------------------------------------------------------------
(* Jobs. *)

Busy(n, a) == \E k \in DOMAIN job : job[k].node = n /\ job[k].alias = a /\ job[k].at # "done"

\* _track_image_job(): one job at a time for an alias, from one node.
Tracked(n, j) ==
    /\ Cardinality(DOMAIN job) < MaxJobs /\ ~Busy(n, j.alias)
    /\ job' = [k \in DOMAIN job \cup {Cardinality(DOMAIN job) + 1} |->
                 IF k \in DOMAIN job THEN job[k] ELSE j]

Job(n, a, i, to, at) ==
    [node |-> n, alias |-> a, image |-> i, waiting |-> to, sending |-> {}, failed |-> {},
     got |-> {}, at |-> at, ok |-> FALSE]

(* publish_snapshot(): the alias must be free when it is asked ... *)
Publish(n, i, a, to) ==
    /\ alias[n][a] = NoImage /\ i \notin held[n]
    /\ Tracked(n, Job(n, a, i, to \ {n}, "publish"))
    /\ UNCHANGED <<held, alias, pins, launched, based, prune, changes>>

(* ... and when the work starts; then the daemon makes the image, and then it is named. *)
PublishStarts(k) ==
    /\ job[k].at = "publish"
    /\ job' = [job EXCEPT ![k].at = IF alias[job[k].node][job[k].alias] = NoImage THEN "making" ELSE "done"]
    /\ UNCHANGED <<held, alias, pins, launched, based, prune, changes>>

PublishMade(k) ==
    /\ job[k].at = "making"
    /\ held' = [held EXCEPT ![job[k].node] = @ \cup {job[k].image}]
    /\ job' = [job EXCEPT ![k].at = "name"]
    /\ UNCHANGED <<alias, pins, launched, based, prune, changes>>

\* set_alias() of either client: the daemon refuses an image it does not have.
PublishNamed(k) ==
    LET j == job[k] IN
    /\ j.at = "name"
    /\ IF j.image \in held[j.node]
       THEN /\ alias' = [alias EXCEPT ![j.node][j.alias] = j.image]
            /\ job' = [job EXCEPT ![k].at = "copy"]
       ELSE job' = [job EXCEPT ![k].at = "done"] /\ UNCHANGED alias
    /\ UNCHANGED <<held, pins, launched, based, changes>> /\ Remembering

(* copy_image(): an image that is here, by its alias. *)
Copy(n, a, to) ==
    /\ alias[n][a] # NoImage /\ to \ {n} # {}
    /\ Tracked(n, Job(n, a, alias[n][a], to \ {n}, "copy"))
    /\ UNCHANGED <<held, alias, pins, launched, based, prune, changes>>

(* pin_image(): the pin is saved and shared, and its build fetched everywhere. *)
Pin(n, b) ==
    /\ b \notin pins[n]
    /\ pins' = [pins EXCEPT ![n] = @ \cup {b}]
    /\ \/ Tracked(n, Job(n, PinAlias(b), b, Nodes \ {n}, "fetch"))
       \/ Busy(n, PinAlias(b)) /\ UNCHANGED job
    /\ UNCHANGED <<held, alias, launched, based, changes>> /\ Remembering

FetchAgain(n, b) ==
    /\ b \in pins[n]
    /\ Tracked(n, Job(n, PinAlias(b), b, Nodes \ {n}, "fetch"))
    /\ UNCHANGED <<held, alias, pins, launched, based, prune, changes>>

(* fetch_pin() of the service: pulled if it is not here, and then named. *)
Fetched(k) ==
    LET j == job[k] IN
    /\ j.at = "fetch" /\ j.image \in pins[j.node]
    /\ held' = [held EXCEPT ![j.node] = @ \cup {j.image}]
    /\ job' = [job EXCEPT ![k].at = "name"]
    /\ UNCHANGED <<alias, pins, launched, based, prune, changes>>

FetchFails(k) ==
    /\ job[k].at = "fetch"
    /\ \/ job[k].image \notin pins[job[k].node] /\ UNCHANGED changes
       \/ job[k].image \notin held[job[k].node] /\ Changed
    /\ job' = [job EXCEPT ![k].at = "done"]
    /\ UNCHANGED <<held, alias, pins, launched, based, prune>>

Sends(k, m) ==
    /\ job[k].at = "copy" /\ m \in job[k].waiting /\ Cardinality(job[k].sending) < Senders
    /\ job' = [job EXCEPT ![k].waiting = @ \ {m}, ![k].sending = @ \cup {m}]
    /\ UNCHANGED <<held, alias, pins, launched, based, prune, changes>>

(* _send_image(): adopted if it is there, else exported and received; an image *)
(* that is gone here cannot be exported.  An alias the other has already moves.  *)
Arrives(k, m) ==
    LET j == job[k] IN
    /\ m \in j.sending
    /\ j.image \in held[m] \cup held[j.node]
    /\ held' = [held EXCEPT ![m] = @ \cup {j.image}]
    /\ alias' = [alias EXCEPT ![m][j.alias] = j.image]
    /\ job' = [job EXCEPT ![k].sending = @ \ {m}, ![k].got = @ \cup {m}]
    /\ UNCHANGED <<pins, launched, based, changes>> /\ Remembering

\* What arrived damaged is discarded.
SendFails(k, m) ==
    LET j == job[k] IN
    /\ m \in j.sending
    /\ \/ j.image \notin held[m] \cup held[j.node] /\ UNCHANGED changes
       \/ Changed
    /\ job' = [job EXCEPT ![k].sending = @ \ {m}, ![k].failed = @ \cup {m}]
    /\ UNCHANGED <<held, alias, pins, launched, based, prune>>

JobEnds(k) ==
    /\ job[k].at = "copy" /\ job[k].waiting = {} /\ job[k].sending = {}
    /\ job' = [job EXCEPT ![k].at = "done", ![k].ok = job[k].failed = {}]
    /\ UNCHANGED <<held, alias, pins, launched, based, prune, changes>>

-----------------------------------------------------------------------------
(* What people do beside that. *)

\* unpin_image(): unless a template launches it by name (pins of templates: Definitions).
Unpin(n, b) ==
    /\ b \in pins[n] /\ Changed
    /\ pins' = [pins EXCEPT ![n] = @ \ {b}]
    /\ UNCHANGED <<held, alias, launched, based, job>> /\ Remembering

\* The pin reaches a member, or its deletion does.
PinTravels(n, m) ==
    /\ pins[n] # pins[m] /\ Changed
    /\ pins' = [pins EXCEPT ![m] = pins[n]]
    /\ UNCHANGED <<held, alias, launched, based, job>> /\ Remembering

SaveTemplate(n, names) ==
    /\ names # launched[n] /\ Changed
    /\ launched' = [launched EXCEPT ![n] = names]
    /\ UNCHANGED <<held, alias, pins, based, job>> /\ Remembering

\* image_source(): the pinned build, pulled by the daemon when it is not here.
LaunchPinned(n, b) ==
    /\ b \in pins[n] /\ Changed
    /\ held' = [held EXCEPT ![n] = @ \cup {b}] /\ based' = [based EXCEPT ![n] = @ \cup {b}]
    /\ UNCHANGED <<alias, pins, launched, job>> /\ Remembering

InstanceGoes(n, i) ==
    /\ i \in based[n] /\ Changed
    /\ based' = [based EXCEPT ![n] = @ \ {i}]
    /\ UNCHANGED <<held, alias, pins, launched, job>> /\ Remembering

\* An image goes, and its aliases with it.
Goes(n, i) ==
    /\ held' = [held EXCEPT ![n] = @ \ {i}]
    /\ alias' = [alias EXCEPT ![n] = [a \in Names |-> IF @[a] = i THEN NoImage ELSE @[a]]]

\* delete_image()
DeleteImage(n, i) ==
    /\ i \in held[n] /\ Named(n, i) \cap launched[n] = {} /\ Changed
    /\ Goes(n, i)
    /\ UNCHANGED <<pins, launched, based, job>> /\ Remembering

-----------------------------------------------------------------------------
(* prune_images(): what instances were made from, then the pins, then what       *)
(* templates launch; then the images are listed, and deleted one by one.  A       *)
(* prune that follows a preview deletes only what it showed.                      *)

Unneeded(n) == {i \in held[n] \cap Builds : \A need \in Needs(n) : need[2] # i}

PruneBegins(n, previewed) ==
    /\ prune[n].at = "rest" /\ Changed
    /\ prune' = [prune EXCEPT ![n] = [NoPrune EXCEPT !.at = "pins", !.still = Needs(n),
                    !.based = based[n], !.only = IF previewed THEN Unneeded(n) ELSE Builds]]
    /\ UNCHANGED <<held, alias, pins, launched, based, job>>

\* Mutant: pins are not asked.
NoPins(n) == {}

PinsRead(n) == pins[n]

PruneReadsPins(n) ==
    /\ prune[n].at = "pins"
    /\ prune' = [prune EXCEPT ![n].at = "templates", ![n].pinned = PinsRead(n)]
    /\ UNCHANGED <<held, alias, pins, launched, based, job, changes>>

PruneReadsTemplates(n) ==
    /\ prune[n].at = "templates"
    /\ prune' = [prune EXCEPT ![n].at = "list", ![n].named = launched[n]]
    /\ UNCHANGED <<held, alias, pins, launched, based, job, changes>>

PruneLists(n) ==
    LET p == prune[n] IN
    /\ p.at = "list"
    /\ prune' = [prune EXCEPT ![n].at = "delete",
         ![n].list = {i \in held[n] \cap Builds \cap p.only :
                        i \notin p.based \cup p.pinned /\ Called(n, i) \cap p.named = {}}]
    /\ UNCHANGED <<held, alias, pins, launched, based, job, changes>>

PruneDeletes(n, i) ==
    /\ prune[n].at = "delete" /\ i \in prune[n].list
    /\ Goes(n, i)
    /\ prune' = [prune EXCEPT ![n].list = @ \ {i}]
    /\ UNCHANGED <<pins, launched, based, job, changes>>

PruneEnds(n) ==
    /\ prune[n].at = "delete" /\ prune[n].list = {}
    /\ prune' = [prune EXCEPT ![n] = NoPrune]
    /\ UNCHANGED <<held, alias, pins, launched, based, job, changes>>

Next ==
    \/ \E n \in Nodes :
          \/ \E a \in Given, i \in Made, to \in SUBSET Nodes : Publish(n, i, a, to)
          \/ \E a \in Names, to \in SUBSET Nodes : Copy(n, a, to)
          \/ \E b \in Builds : Pin(n, b) \/ FetchAgain(n, b) \/ Unpin(n, b) \/ LaunchPinned(n, b)
          \/ \E m \in Nodes : PinTravels(n, m)
          \/ \E names \in SUBSET Launchable : SaveTemplate(n, names)
          \/ \E i \in AllImages : InstanceGoes(n, i) \/ DeleteImage(n, i) \/ PruneDeletes(n, i)
          \/ \E previewed \in BOOLEAN : PruneBegins(n, previewed)
          \/ PruneReadsPins(n) \/ PruneReadsTemplates(n) \/ PruneLists(n) \/ PruneEnds(n)
    \/ \E k \in DOMAIN job :
          \/ PublishStarts(k) \/ PublishMade(k) \/ PublishNamed(k) \/ Fetched(k) \/ FetchFails(k)
          \/ JobEnds(k)
          \/ \E m \in Nodes : Sends(k, m) \/ Arrives(k, m) \/ SendFails(k, m)

Spec == Init /\ [][Next]_imageVars

-----------------------------------------------------------------------------
(* Whatever happens between the readings of a prune, it deletes no image that was  *)
(* needed in one and the same way from its beginning on, and none that was made    *)
(* of a snapshot.  (An image whose need changes its kind meanwhile, launched from   *)
(* a pin that then goes, may be deleted: each kind is read at a moment of its own.) *)
NeededStays ==
    \A n \in Nodes, i \in AllImages :
        PruneDeletes(n, i) => i \in Builds /\ \A need \in prune[n].still : need[2] # i
NeededIsKept == [][NeededStays]_imageVars
-----------------------------------------------------------------------------
(* Why it holds: the inductive invariant, proved in NodePartsProof.            *)

Jobs == [node : Nodes, alias : Names, image : AllImages, waiting : SUBSET Nodes,
         sending : SUBSET Nodes, failed : SUBSET Nodes, got : SUBSET Nodes,
         at : {"publish", "making", "name", "fetch", "copy", "done"}, ok : BOOLEAN]

Prunes == [at : {"rest", "pins", "templates", "list", "delete"},
           still : SUBSET ({"based", "pinned", "launched"} \X AllImages), only : SUBSET Builds,
           pinned : SUBSET Builds, named : SUBSET Launchable, based : SUBSET Builds,
           list : SUBSET Builds]

TypeOK ==
    /\ held \in [Nodes -> SUBSET AllImages] /\ alias \in [Nodes -> [Names -> AllImages \cup {NoImage}]]
    /\ pins \in [Nodes -> SUBSET Builds] /\ launched \in [Nodes -> SUBSET Launchable]
    /\ based \in [Nodes -> SUBSET Builds] /\ prune \in [Nodes -> Prunes]
    /\ \A k \in DOMAIN job : job[k] \in Jobs

\* A build's alias names it and no other image, and no other name does.
Fits(a, i) == \A b \in Builds : a = PinAlias(b) <=> i = b

AliasesFit ==
    /\ \A n \in Nodes, a \in Names : alias[n][a] # NoImage => Fits(a, alias[n][a])
    /\ \A k \in DOMAIN job : Fits(job[k].alias, job[k].image)

\* What a prune read of a need that there was all along tells of it, and it lists nothing
\* that has one.
PruneFits(n) ==
    LET p == prune[n]
    IN /\ p.still \subseteq Needs(n)
       /\ \A b \in Builds :
             /\ <<"based", b>> \in p.still => b \in p.based
             /\ p.at \in {"templates", "list", "delete"} /\ <<"pinned", b>> \in p.still => b \in p.pinned
             /\ p.at \in {"list", "delete"} /\ <<"launched", b>> \in p.still =>
                   Called(n, b) \cap p.named # {}
             /\ p.at = "delete" /\ b \in p.list => \A need \in p.still : need[2] # b

\* A build that stays keeps what it is called: a step of the proof.
NamesStay ==
    \A n \in Nodes, b \in Builds : b \in held[n] /\ b \in held'[n] => Called(n, b) \subseteq Called(n, b)'

\* A step leaves jobs whose names fit their images: another of the proof.
JobsStand == \A k \in DOMAIN job' : job'[k] \in Jobs /\ Fits(job'[k].alias, job'[k].image)

ImagesInv == TypeOK /\ AliasesFit /\ \A n \in Nodes : PruneFits(n)
=============================================================================
