----------------------------- MODULE StoragePool -----------------------------
(* A storage pool of one daemon and everything that lies on it: made, grown, and  *)
(* deleted with all of it by somebody who was shown a list (src/waterpump/        *)
(* service.py, the storage commands of cli.py).  Other people use the daemon all  *)
(* the while, and ZFS keeps a zpool of its own beneath the daemon's.              *)
EXTENDS Integers, FiniteSets

CONSTANTS
    Machines, Fingerprints, Volumes, Profiles,
    MaxSize,      \* bound: sizes of the pool and of a volume
    MaxChanges    \* bound: changes by other people

VARIABLES
    pool,       \* the pool's record, its size and the zpool beneath
    instance,   \* instance[i]: whether it is there, where its root lies, what it has attached
    image,      \* image[f]: there, and a copy of it on the pool
    volume,     \* volume[v]: 0, or the size of the custom volume v of the pool
    profile,    \* profile[p]: where its disks lie
    foreign,    \* a bucket, or something of another project, is on the pool
    job,        \* the deletion: what was shown, and what has been done of it
    crossed,    \* instances, profiles and zpool that somebody changed since the job read them
    changes

poolVars == <<pool, instance, image, volume, profile, foreign, job, crossed, changes>>

Places == {"pool", "elsewhere"}
Drivers == {"dir", "zfs", "ceph"}
\* LOCAL_STORAGE_DRIVERS, and each is available here.
Local == Drivers \ {"ceph"}
Manageable == pool.driver \in Local
Gone == [is |-> FALSE, on |-> "elsewhere", with |-> {}]

\* What the daemon says uses the pool, and what uses its volumes.
Stored == {i \in Machines : instance[i].is /\ instance[i].on = "pool"}
Users(v) == {i \in Machines : instance[i].is /\ v \in instance[i].with}
Cached == {f \in Fingerprints : image[f] = "pool"}
There == {v \in Volumes : volume[v] > 0}
Naming == {p \in Profiles : "pool" \in profile[p]}
InUse == Stored \cup Cached \cup There \cup Naming # {} \/ foreign

(* _storage_pool_delete_plan() *)
Plan ==
    [instances |-> Stored, attached |-> UNION {Users(v) : v \in There} \ Stored,
     images |-> Cached, volumes |-> There, profiles |-> Naming, other |-> foreign]

NoPlan == [instances |-> {}, attached |-> {}, images |-> {}, volumes |-> {}, profiles |-> {}, other |-> FALSE]
NoJob == [at |-> "none", force |-> FALSE, shown |-> NoPlan, left |-> NoPlan, of |-> {}, read |-> {}]

Init ==
    /\ \E d \in Drivers : pool = [is |-> TRUE, driver |-> d, size |-> 1,
                                  zpool |-> IF d = "zfs" THEN "imported" ELSE "none"]
    /\ instance \in [Machines -> {Gone} \cup [is : {TRUE}, on : Places, with : SUBSET Volumes]]
    /\ volume = [v \in Volumes |-> 1]
    /\ image \in [Fingerprints -> {"none", "pool", "elsewhere"}]
    /\ profile \in [Profiles -> {{"elsewhere"}, {"pool", "elsewhere"}}]
    /\ foreign \in BOOLEAN
    /\ job = NoJob /\ crossed = {} /\ changes = 0

-----------------------------------------------------------------------------
(* The deletion. *)

\* storage(): the person is shown the plan, and types the name, or does not force it.
Show(force) ==
    /\ job.at \in {"none", "told", "failed"} /\ pool.is
    /\ job' = [NoJob EXCEPT !.at = "asked", !.force = force, !.shown = Plan]
    /\ crossed' = {}
    /\ UNCHANGED <<pool, instance, image, volume, profile, foreign, changes>>

\* Mutant: what is there by now is what was asked for.
AsFound(shown, plan) == TRUE

\* expected_plan is the plan, or a 409.
AsShown(shown, plan) == shown = plan

(* delete_storage_pool() up to the first change: refused, or begun. *)
Refused ==
    \/ ~Manageable
    \/ job.force /\ (~AsShown(job.shown, Plan) \/ Plan.other)
    \/ ~job.force /\ InUse

Begin ==
    /\ job.at = "asked"
    /\ job' = [job EXCEPT !.at = IF ~pool.is \/ Refused THEN "told" ELSE "removes",
                          !.left = IF job.force THEN Plan ELSE NoPlan]
    /\ crossed' = {}
    /\ UNCHANGED <<pool, instance, image, volume, profile, foreign, changes>>

Working == job.at = "removes"

\* Stored instances first, then those with a volume of the pool: stopped and deleted.
InstanceGoes(i) ==
    /\ Working /\ i \in job.left.instances \cup job.left.attached
    /\ i \in job.left.attached => job.left.instances = {}
    /\ IF instance[i].is
       THEN instance' = [instance EXCEPT ![i] = Gone] /\ job' = [job EXCEPT
               !.left.instances = @ \ {i}, !.left.attached = @ \ {i}]
       ELSE job' = [job EXCEPT !.at = "failed"] /\ UNCHANGED instance
    /\ UNCHANGED <<pool, image, volume, profile, foreign, crossed, changes>>

\* A profile is read, and written back without its disks on the pool.
ProfileRead(p) ==
    /\ Working /\ p \in job.left.profiles /\ job.left.instances \cup job.left.attached = {}
    /\ job' = [job EXCEPT !.at = "profile", !.of = {p}, !.read = profile[p]]
    /\ crossed' = crossed \ {<<"profile", p>>}
    /\ UNCHANGED <<pool, instance, image, volume, profile, foreign, changes>>

ProfileWritten(p) ==
    /\ job.at = "profile" /\ p \in job.of
    /\ profile' = [profile EXCEPT ![p] = job.read \ {"pool"}]
    /\ job' = [job EXCEPT !.at = "removes", !.left.profiles = @ \ {p}, !.of = {}, !.read = {}]
    /\ UNCHANGED <<pool, instance, image, volume, foreign, crossed, changes>>

\* A cached image goes from every pool.
ImageGoes(f) ==
    /\ Working /\ f \in job.left.images /\ job.left.profiles \cup job.left.instances \cup job.left.attached = {}
    /\ image' = [image EXCEPT ![f] = "none"]
    /\ job' = IF image[f] = "none" THEN [job EXCEPT !.at = "failed"]
              ELSE [job EXCEPT !.left.images = @ \ {f}]
    /\ UNCHANGED <<pool, instance, volume, profile, foreign, crossed, changes>>

\* The daemon refuses a volume that somebody attached meanwhile.
VolumeGoes(v) ==
    /\ Working /\ v \in job.left.volumes
    /\ job.left.images \cup job.left.profiles \cup job.left.instances \cup job.left.attached = {}
    /\ IF volume[v] > 0 /\ Users(v) = {}
       THEN volume' = [volume EXCEPT ![v] = 0] /\ job' = [job EXCEPT !.left.volumes = @ \ {v}]
       ELSE job' = [job EXCEPT !.at = "failed"] /\ UNCHANGED volume
    /\ UNCHANGED <<pool, instance, image, profile, foreign, crossed, changes>>

\* "if the daemon rejects a later step, resources removed by earlier steps cannot be restored"
Rejected ==
    /\ job.at \in {"removes", "profile", "unregister"}
    /\ job' = [job EXCEPT !.at = "failed"]
    /\ UNCHANGED <<pool, instance, image, volume, profile, foreign, crossed, changes>>

Done == job.left = [NoPlan EXCEPT !.other = job.left.other]

\* A zpool that is imported would be destroyed: the person is asked to export it.
Imported == pool.driver = "zfs" /\ pool.zpool = "imported"

Detached == job' = [job EXCEPT !.at = IF Imported THEN "told" ELSE "unregister"]

Looks ==
    /\ Working /\ Done
    /\ Detached
    /\ crossed' = crossed \ {<<"zpool">>}
    /\ UNCHANGED <<pool, instance, image, volume, profile, foreign, changes>>

\* The daemon takes its own pool apart with what lies beneath, unless it is in use.
Unregister ==
    /\ job.at = "unregister"
    /\ IF pool.is /\ ~InUse
       THEN /\ pool' = [pool EXCEPT !.is = FALSE, !.zpool = IF Imported THEN "destroyed" ELSE @]
            /\ job' = [job EXCEPT !.at = "deleted"]
       ELSE job' = [job EXCEPT !.at = "failed"] /\ UNCHANGED pool
    /\ UNCHANGED <<instance, image, volume, profile, foreign, crossed, changes>>

-----------------------------------------------------------------------------
(* What else is asked of waterpump, and of the daemon. *)

Changed(what) ==
    /\ changes < MaxChanges /\ changes' = changes + 1
    /\ crossed' = crossed \cup what
    /\ UNCHANGED <<foreign, job>>

(* create_storage_pool(): of a driver of the host's own. *)
Create(d) ==
    /\ Changed({}) /\ ~pool.is /\ d \in Local
    /\ pool' = [is |-> TRUE, driver |-> d, size |-> 1,
                zpool |-> IF d = "zfs" THEN "imported" ELSE pool.zpool]
    /\ UNCHANGED <<instance, image, volume, profile>>

(* update_storage_pool(): of a loop-backed pool, and never smaller. *)
Grow(to) ==
    /\ Changed({}) /\ pool.is /\ pool.driver \in Local \ {"dir"} /\ to > pool.size
    /\ pool' = [pool EXCEPT !.size = to]
    /\ UNCHANGED <<instance, image, volume, profile>>

(* create_storage_volume(), update_storage_volume(), delete_storage_volume() *)
VolumeSet(v, to) ==
    /\ Changed({}) /\ pool.is /\ Manageable
    /\ to # volume[v] /\ (to = 0 => Users(v) = {}) /\ (to # 0 => to > volume[v])
    /\ volume' = [volume EXCEPT ![v] = to]
    /\ UNCHANGED <<pool, instance, image, profile>>

\* Instances come, go, and have volumes attached; profiles are edited; images are fetched.
Launch(i, on, with) ==
    /\ Changed({<<"instance", i>>}) /\ ~instance[i].is /\ (on = "pool" => pool.is) /\ with \subseteq There
    /\ instance' = [instance EXCEPT ![i] = [is |-> TRUE, on |-> on, with |-> with]]
    /\ UNCHANGED <<pool, image, volume, profile>>

Delete(i) ==
    /\ Changed({<<"instance", i>>}) /\ instance[i].is
    /\ instance' = [instance EXCEPT ![i] = Gone]
    /\ UNCHANGED <<pool, image, volume, profile>>

Attach(i, v) ==
    /\ Changed({<<"instance", i>>}) /\ instance[i].is /\ v \in There \ instance[i].with
    /\ instance' = [instance EXCEPT ![i].with = @ \cup {v}]
    /\ UNCHANGED <<pool, image, volume, profile>>

EditProfile(p, disks) ==
    /\ Changed({<<"profile", p>>}) /\ disks # profile[p] /\ ("pool" \in disks => pool.is)
    /\ profile' = [profile EXCEPT ![p] = disks]
    /\ UNCHANGED <<pool, instance, image, volume>>

Fetch(f, to) ==
    /\ Changed({}) /\ image[f] # to /\ (to = "pool" => pool.is)
    /\ image' = [image EXCEPT ![f] = to]
    /\ UNCHANGED <<pool, instance, volume, profile>>

\* The operator exports the zpool, and may import it again.
Zpool(to) ==
    /\ Changed({<<"zpool">>}) /\ pool.zpool \in {"imported", "exported"} \ {to}
    /\ pool' = [pool EXCEPT !.zpool = to]
    /\ UNCHANGED <<instance, image, volume, profile>>

Next ==
    \/ \E force \in BOOLEAN : Show(force)
    \/ Begin \/ Rejected \/ Looks \/ Unregister
    \/ \E i \in Machines : InstanceGoes(i) \/ Delete(i)
    \/ \E p \in Profiles : ProfileRead(p) \/ ProfileWritten(p)
    \/ \E f \in Fingerprints : ImageGoes(f) \/ (\E to \in {"none", "pool", "elsewhere"} : Fetch(f, to))
    \/ \E v \in Volumes : VolumeGoes(v) \/ (\E to \in 0 .. MaxSize : VolumeSet(v, to))
    \/ \E d \in Drivers : Create(d)
    \/ \E to \in 2 .. MaxSize : Grow(to)
    \/ \E i \in Machines, on \in Places, with \in SUBSET Volumes : Launch(i, on, with)
    \/ \E i \in Machines, v \in Volumes : Attach(i, v)
    \/ \E p \in Profiles, disks \in SUBSET Places : EditProfile(p, disks)
    \/ \E to \in {"imported", "exported"} : Zpool(to)

Spec == Init /\ [][Next]_poolVars
-----------------------------------------------------------------------------
(* "Force deletion shows the complete cascade before it starts ... If the resource  *)
(* list changes after confirmation, or an unknown resource type is present, deletion *)
(* stops before making any changes"; "it never asks LXD to delete an imported        *)
(* backing zpool" (docs/daemons-and-storage.md).  Whatever others do meanwhile, the  *)
(* deletion takes what was on the list and what still has to do with the pool, takes *)
(* nothing else out of a profile, and leaves no pool that something lies on.         *)
TakesShown ==
    changes' = changes =>
        /\ \A i \in Machines : instance[i] # instance'[i] =>
              /\ job.force /\ i \in job.shown.instances \cup job.shown.attached
              /\ <<"instance", i>> \notin crossed => instance[i].on = "pool" \/ instance[i].with # {}
        /\ \A f \in Fingerprints : image[f] # image'[f] => job.force /\ f \in job.shown.images
        /\ \A v \in Volumes : volume[v] # volume'[v] => v \in job.shown.volumes /\ Users(v) = {}
        /\ \A p \in Profiles : profile[p] # profile'[p] =>
              /\ p \in job.shown.profiles
              /\ <<"profile", p>> \notin crossed => profile'[p] = profile[p] \ {"pool"}
        /\ foreign => pool'.is = pool.is
        /\ pool'.zpool = "destroyed" => <<"zpool">> \in crossed \/ pool.zpool = "destroyed"
-----------------------------------------------------------------------------
(* Why it holds: the inductive invariant, proved in NodePartsProof.             *)

Instance == [is : BOOLEAN, on : Places, with : SUBSET Volumes]
Pools == [is : BOOLEAN, driver : Drivers, size : Int,
          zpool : {"none", "imported", "exported", "destroyed"}]
Plans == [instances : SUBSET Machines, attached : SUBSET Machines, images : SUBSET Fingerprints,
          volumes : SUBSET Volumes, profiles : SUBSET Profiles, other : BOOLEAN]
Jobs == [at : {"none", "asked", "told", "failed", "removes", "profile", "unregister", "deleted"},
         force : BOOLEAN, shown : Plans, left : Plans, of : SUBSET Profiles, read : SUBSET Places]

TypeOK ==
    /\ pool \in Pools
    /\ instance \in [Machines -> Instance] /\ image \in [Fingerprints -> {"none", "pool", "elsewhere"}]
    /\ volume \in [Volumes -> Int] /\ profile \in [Profiles -> SUBSET Places]
    /\ foreign \in BOOLEAN /\ job \in Jobs /\ changes \in Int

\* What is left to do was on the list, and without force there is nothing.
Covers(plan, left) ==
    /\ left.instances \subseteq plan.instances /\ left.attached \subseteq plan.attached
    /\ left.images \subseteq plan.images /\ left.volumes \subseteq plan.volumes
    /\ left.profiles \subseteq plan.profiles

LeftIsShown ==
    job.at \in {"removes", "profile", "unregister"} =>
        /\ pool.is
        /\ Covers(IF job.force THEN job.shown ELSE NoPlan, job.left)

\* An instance that nobody touched since has to do with the pool as it did.
LeftIsDue ==
    job.at \in {"removes", "profile"} =>
        \A i \in Machines : <<"instance", i>> \notin crossed =>
            /\ i \in job.left.instances => instance[i].on = "pool"
            /\ i \in job.left.attached => instance[i].with # {}

\* A profile that nobody edited since is as it was read, and nobody imported the zpool.
ReadingHolds ==
    /\ job.at = "profile" =>
          /\ job.of \subseteq job.left.profiles
          /\ \A p \in job.of : <<"profile", p>> \notin crossed => profile[p] = job.read
    /\ job.at = "unregister" /\ Imported => <<"zpool">> \in crossed

PoolInv == TypeOK /\ LeftIsShown /\ LeftIsDue /\ ReadingHolds
=============================================================================
