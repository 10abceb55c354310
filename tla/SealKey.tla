------------------------------ MODULE SealKey -------------------------------
(***************************************************************************)
(* Secrets at rest on one node (src/waterpump/store.py, _secrets_key to    *)
(* rename_stack_secrets, update_auth and _write_json; secretbox.py): the   *)
(* key is made by whoever needs it first, `serve` or a CLI command, and    *)
(* every value is sealed under it before the records are read, changed and *)
(* written as a whole.  The store's lock is one process's.                 *)
(***************************************************************************)
EXTENDS Naturals, FiniteSets

CONSTANTS
    Procs,         \* the processes: `serve`, and CLI commands
    Secrets,       \* the secrets of a stack or a task
    None,          \* no key, no value
    MaxOps         \* bound: how many changes are begun

\* No process is the absence of one.
SealAssumption == None \notin Procs

VARIABLES
    key,           \* the process whose key the key file holds, or None
    held,          \* held[s]: under whose key the value of s is sealed, or None
    at,            \* at[p]: where p's change is
    op,            \* op[p]: which secret it is about and what is to become of it
    mine,          \* mine[p]: the key p uses, or has made and not put in place
    records,       \* records[p]: the records p read
    ops            \* so far, bounded by MaxOps

vars == <<key, held, at, op, mine, records, ops>>

Keys == Procs \cup {None}

Records == [Secrets -> Keys]

Init ==
    /\ key = None /\ held = [s \in Secrets |-> None]
    /\ at = [p \in Procs |-> "idle"] /\ op = [p \in Procs |-> [s |-> CHOOSE s \in Secrets : TRUE,
                                                               to |-> "set"]]
    /\ mine = [p \in Procs |-> None] /\ records = [p \in Procs |-> [s \in Secrets |-> None]]
    /\ ops = 0

\* set_stack_secret(), replace_stack_secrets(), or clear_stack_secret(), which
\* needs no key.
Begin(p, s, to) ==
    /\ at[p] = "idle" /\ ops < MaxOps /\ ops' = ops + 1
    /\ op' = [op EXCEPT ![p] = [s |-> s, to |-> to]]
    /\ at' = [at EXCEPT ![p] = IF to = "clear" THEN "sealed" ELSE "keyless"]
    /\ UNCHANGED <<key, held, mine, records>>

\* The key file is read; where there is none a key is made and written aside.
ReadKey(p) ==
    /\ at[p] = "keyless"
    /\ IF key # None
       THEN mine' = [mine EXCEPT ![p] = key] /\ at' = [at EXCEPT ![p] = "sealed"]
       ELSE mine' = [mine EXCEPT ![p] = p] /\ at' = [at EXCEPT ![p] = "made"]
    /\ UNCHANGED <<key, held, op, records, ops>>

RenameKey(p) ==
    /\ at[p] = "made" /\ at' = [at EXCEPT ![p] = "sealed"]
    /\ key' = mine[p]
    /\ UNCHANGED <<held, op, mine, records, ops>>

\* link() puts it in place unless another process was first: then its key is read.
LinkKey(p) ==
    /\ at[p] = "made" /\ at' = [at EXCEPT ![p] = "sealed"]
    /\ IF key = None
       THEN key' = mine[p] /\ UNCHANGED mine
       ELSE mine' = [mine EXCEPT ![p] = key] /\ UNCHANGED key
    /\ UNCHANGED <<held, op, records, ops>>

\* update_auth(): the records are read, ...
ReadRecords(p) ==
    /\ at[p] = "sealed" /\ at' = [at EXCEPT ![p] = "read"]
    /\ records' = [records EXCEPT ![p] = held]
    /\ UNCHANGED <<key, held, op, mine, ops>>

\* ... changed, and replaced at once, whatever another process wrote since.
WriteRecords(p) ==
    /\ at[p] = "read" /\ at' = [at EXCEPT ![p] = "idle"]
    /\ held' = [records[p] EXCEPT ![op[p].s] = IF op[p].to = "set" THEN mine[p] ELSE None]
    /\ UNCHANGED <<key, op, mine, records, ops>>

\* The process ends: nothing it did not put in place is left.
Die(p) ==
    /\ at[p] # "idle" /\ at' = [at EXCEPT ![p] = "idle"]
    /\ UNCHANGED <<key, held, op, mine, records, ops>>

Next ==
    \E p \in Procs :
        \/ \E s \in Secrets, to \in {"set", "clear"} : Begin(p, s, to)
        \/ ReadKey(p) \/ LinkKey(p) \/ ReadRecords(p) \/ WriteRecords(p) \/ Die(p)

Spec == Init /\ [][Next]_vars

-----------------------------------------------------------------------------
(* Every value kept opens with the key in the key file, whichever process sealed  *)
(* it and however many made a key at once (_secrets_key): none is lost to a key   *)
(* that was overwritten.                                                          *)
SealedOpens == \A s \in Secrets : held[s] # None => held[s] = key

-----------------------------------------------------------------------------
(* Why it holds: the inductive invariant, proved in NodePartsProof.             *)

\* Every variable keeps its type.
TypeOK ==
    /\ key \in Keys
    /\ held \in Records
    /\ at \in [Procs -> {"idle", "keyless", "made", "sealed", "read"}]
    /\ op \in [Procs -> [s : Secrets, to : {"set", "clear"}]]
    /\ mine \in [Procs -> Keys]
    /\ records \in [Procs -> Records]

\* Nobody seals under a key that is not in place, or that another could replace.
SealsUnderIt ==
    \A p \in Procs : at[p] \in {"sealed", "read"} /\ op[p].to = "set" =>
        key # None /\ mine[p] = key

\* A key is made aside under its maker's name.
MadeIsOwn == \A p \in Procs : at[p] = "made" => mine[p] = p

\* What a process has read, and may write back later, opens too.
ReadOpens == \A p \in Procs : at[p] = "read" => \A s \in Secrets : records[p][s] \in {None, key}

HeldOpens == \A s \in Secrets : held[s] \in {None, key}

SealInv == TypeOK /\ SealsUnderIt /\ MadeIsOwn /\ ReadOpens /\ HeldOpens
=============================================================================
