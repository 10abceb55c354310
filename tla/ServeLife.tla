------------------------------ MODULE ServeLife ------------------------------
(***************************************************************************)
(* The life of `serve`: what it reads when it starts, the configuring and     *)
(* resetting of the node one file at a time, and its end by Ctrl-C, SIGTERM,   *)
(* a restart of its own, or a crash, with the work that goes on meanwhile      *)
(* (src/waterpump/server.py, nodesetup.py).                                    *)
(*                                                                             *)
(* `serve` is started without flags.  A person configures or resets one thing   *)
(* at a time, in the UI or with the command.                                     *)
(***************************************************************************)
EXTENDS Naturals, Sequences, FiniteSets

CONSTANTS
    MaxWork,    \* bound: pieces of work at once
    MaxStarts,  \* bound: processes, one after another
    MaxTrouble  \* bound: steps that fail, crashes, and signals after the first

VARIABLES
    files,    \* what is saved: "admin", "certificate", "login", "address"
    cluster,  \* the node holds a cluster credential
    serves,   \* what the process read of them when it started
    at,       \* where the process is, from serving to its end
    restart,  \* a restart was asked for, and not begun yet
    setup,    \* the configuring or resetting at work, and what is left of it
    work,     \* work[w]: the piece of work w, or NoWork
    starts, trouble   \* so far, bounded as above

serveVars == <<files, cluster, serves, at, restart, setup, work, starts, trouble>>

Pieces == 1 .. MaxWork
Kinds == {"run", "swarm", "task"}
NoWork == [at |-> "none"]
NoSetup == [at |-> "idle"]

Alive == at # "down"
Trouble == trouble < MaxTrouble /\ trouble' = trouble + 1
Going(kinds) == {w \in Pieces : work[w].at = "goes" /\ work[w].kind \in kinds}

Init ==
    /\ files \in {{}, {"admin"}, {"admin", "certificate", "login", "address"}}
    /\ cluster = FALSE /\ serves = files /\ at = "serving" /\ restart = FALSE
    /\ setup = NoSetup /\ work = [w \in Pieces |-> NoWork] /\ starts = 1 /\ trouble = 0

-----------------------------------------------------------------------------
(* apply() and reset(): each saves or removes one file after another. *)

ApplySteps == <<"admin", "certificate", "login", "address">>
ResetSteps == <<"address", "login", "certificate">>

(* NodeSetup.blocked(): what a restart would cut short, as it is at this moment. *)
Blocked == restart \/ cluster \/ Going(Kinds) # {}

(* configure() with check(): an account is given, or there is one to log in with.  The   *)
(* command on the host asks no server, and restarts none.                                 *)
Configure(by) ==
    /\ setup = NoSetup /\ ~cluster
    /\ by = "ui" => at = "serving" /\ ~Blocked
    /\ \E given \in BOOLEAN :
          /\ given \/ "admin" \in files
          /\ setup' = [at |-> by, does |-> "apply",
                       left |-> IF given THEN ApplySteps ELSE Tail(ApplySteps)]
    /\ UNCHANGED <<files, cluster, serves, at, restart, work, starts, trouble>>

Reset ==
    /\ setup = NoSetup /\ ~cluster
    /\ setup' = [at |-> "cli", does |-> "reset", left |-> ResetSteps]
    /\ UNCHANGED <<files, cluster, serves, at, restart, work, starts, trouble>>

\* The next file is saved, or removed.
SetupStep ==
    /\ setup # NoSetup /\ setup.left # <<>>
    /\ files' = IF setup.does = "apply" THEN files \cup {Head(setup.left)}
                ELSE files \ {Head(setup.left)}
    /\ setup' = [setup EXCEPT !.left = Tail(@)]
    /\ UNCHANGED <<cluster, serves, at, restart, work, starts, trouble>>

\* A step raises: what was saved before it stays.
SetupFails ==
    /\ setup # NoSetup /\ setup.left # <<>> /\ Trouble
    /\ setup' = NoSetup
    /\ UNCHANGED <<files, cluster, serves, at, restart, work, starts>>

(* The request is answered, and the process is told to restart: request_restart(). *)
SetupEnds ==
    /\ setup # NoSetup /\ setup.left = <<>>
    /\ setup' = NoSetup
    /\ restart' = (setup.at = "ui" \/ restart)
    /\ UNCHANGED <<files, cluster, serves, at, work, starts, trouble>>

\* The node joins a cluster, which takes a certificate and an address, or leaves it.
JoinsOrLeaves ==
    /\ at = "serving"
    /\ ~cluster => {"certificate", "address"} \subseteq serves
    /\ cluster' = ~cluster
    /\ UNCHANGED <<files, serves, at, restart, setup, work, starts, trouble>>

-----------------------------------------------------------------------------
(* Work begins while the process lives: by its scheduler, or in a request that was     *)
(* accepted before the listener closed, which is what `late` says.                       *)
Begin(w, kind) ==
    /\ Alive /\ work[w].at \in {"none", "done"}
    /\ work' = [work EXCEPT ![w] = [at |-> "goes", kind |-> kind, late |-> at # "serving"]]
    /\ UNCHANGED <<files, cluster, serves, at, restart, setup, starts, trouble>>

WorkEnds(w) ==
    /\ Alive /\ work[w].at = "goes"
    /\ work' = [work EXCEPT ![w] = [at |-> "done"]]
    /\ UNCHANGED <<files, cluster, serves, at, restart, setup, starts, trouble>>

-----------------------------------------------------------------------------
(* How serve stops.  Each ending stops what is going, or waits for it; a signal that    *)
(* comes meanwhile ends the process there.                                               *)

CtrlC ==
    /\ at = "serving" /\ at' = "waits"
    /\ UNCHANGED <<files, cluster, serves, restart, setup, work, starts, trouble>>

\* The mutant: the process is replaced as soon as the listener is closed.
ReplacesAtOnce == "gone"

(* request_restart(): the listener closes; _stop_swarms() and _stop_tasks() are next. *)
AfterShutdown == "swarms"

Shutdown ==
    /\ at = "serving" /\ restart
    /\ at' = AfterShutdown
    /\ UNCHANGED <<files, cluster, serves, restart, setup, work, starts, trouble>>

SigTerm ==
    /\ at = "serving" /\ at' = "swarms"
    /\ UNCHANGED <<files, cluster, serves, restart, setup, work, starts, trouble>>

(* _wait_for_background_work(): until nothing is left. *)
WaitEnds ==
    /\ at = "waits" /\ Going(Kinds) = {}
    /\ at' = IF restart THEN "swarms" ELSE "gone"
    /\ UNCHANGED <<files, cluster, serves, restart, setup, work, starts, trouble>>

(* _stop_swarms() and _stop_tasks(): those there were are torn down, or the grace has    *)
(* run out for them; one that begins after the list is made is not in it.                 *)
Stopped(kind) ==
    \/ /\ \A w \in Going({kind}) : work[w].late
       /\ UNCHANGED <<work, trouble>>
    \/ /\ Trouble
       /\ work' = [w \in Pieces |-> IF w \in Going({kind}) THEN [work[w] EXCEPT !.late = TRUE]
                                    ELSE work[w]]

SwarmsEnd ==
    /\ at = "swarms" /\ Stopped("swarm") /\ at' = "tasks"
    /\ UNCHANGED <<files, cluster, serves, restart, setup, starts>>

TasksEnd ==
    /\ at = "tasks" /\ Stopped("task") /\ at' = "gone"
    /\ UNCHANGED <<files, cluster, serves, restart, setup, starts>>

\* What is going ends with the process, and so does a request.
Over(how) ==
    /\ at' = "down"
    /\ work' = [w \in Pieces |->
          IF work[w].at # "goes" THEN work[w]
          ELSE [at |-> "cut", kind |-> work[w].kind, late |-> work[w].late, by |-> how]]
    /\ setup' = IF setup.at = "ui" THEN NoSetup ELSE setup

Ends ==
    /\ at = "gone" /\ Over("stop")
    /\ UNCHANGED <<files, cluster, serves, restart, starts, trouble>>

(* A crash, or another signal while it is stopping: nothing is waited for. *)
Dies ==
    /\ Alive /\ Trouble /\ restart' = FALSE /\ Over("signal")
    /\ UNCHANGED <<files, cluster, serves, starts>>

(* _reexec(), or a person or the service manager: everything is read from the files. *)
Starts ==
    /\ at = "down" /\ starts < MaxStarts /\ starts' = starts + 1
    /\ at' = "serving" /\ serves' = files /\ restart' = FALSE
    /\ work' = [w \in Pieces |-> NoWork]
    /\ UNCHANGED <<files, cluster, setup, trouble>>

Next ==
    \/ \E by \in {"ui", "cli"} : Configure(by)
    \/ Reset \/ SetupStep \/ SetupFails \/ SetupEnds \/ JoinsOrLeaves
    \/ \E w \in Pieces : WorkEnds(w) \/ \E kind \in Kinds : Begin(w, kind)
    \/ CtrlC \/ Shutdown \/ SigTerm \/ WaitEnds \/ SwarmsEnd \/ TasksEnd
    \/ Ends \/ Dies \/ Starts

Spec == Init /\ [][Next]_serveVars

-----------------------------------------------------------------------------
(* "A failure part way leaves the node where it was, never listening on the network    *)
(* without a login" (apply() of nodesetup.py), nor without a certificate or an account  *)
(* to log in with: whatever fails, dies or restarts between two files, and resets.       *)
AddressIsLast == "address" \in serves => serves = {"admin", "certificate", "login", "address"}

(* "A swarm is ended properly ... A task run likewise" (serve()): neither is cut short by *)
(* a process that ends of itself, unless it began when the process was ending already, or  *)
(* its teardown took longer than the grace.                                                *)
EndedProperly ==
    \A w \in Pieces : work[w].at = "cut" /\ work[w].kind \in {"swarm", "task"} =>
        work[w].by = "signal" \/ work[w].late

\* However often it is configured, restarted and stopped.
NothingIsHalfDone == AddressIsLast /\ EndedProperly

(* "Restarting is a new process: these would stop half done" (NodeSetup.blocked()): a     *)
(* restart cuts nothing short.  It fails: what is going is asked before the files are       *)
(* saved, and work begins until the process is replaced.                                    *)
NoneIsCutShort ==
    restart /\ at = "down" => \A w \in Pieces : work[w].at = "cut" =>
        work[w].by = "signal" \/ work[w].late
-----------------------------------------------------------------------------
(* Why it holds: the inductive invariant, proved in NodePartsProof.              *)

Files == {"admin", "certificate", "login", "address"}

Work == {NoWork, [at |-> "done"]}
            \cup [at : {"goes"}, kind : Kinds, late : BOOLEAN]
            \cup [at : {"cut"}, kind : Kinds, late : BOOLEAN, by : {"stop", "signal"}]

TypeOK ==
    /\ files \subseteq Files /\ serves \subseteq Files
    /\ at \in {"serving", "waits", "swarms", "tasks", "gone", "down"}
    /\ work \in [Pieces -> Work]

AddressLast(saved) == "address" \in saved => saved = Files

\* How far a configuring is: the files before the ones that are left are saved.
Applying ==
    \/ setup.left = ApplySteps
    \/ setup.left = <<"certificate", "login", "address">> /\ "admin" \in files
    \/ setup.left = <<"login", "address">> /\ {"admin", "certificate"} \subseteq files
    \/ setup.left = <<"address">> /\ {"admin", "certificate", "login"} \subseteq files
    \/ setup.left = <<>>

\* A resetting takes the address away first.
Resetting ==
    \/ setup.left = ResetSteps
    \/ setup.left \in {<<"login", "certificate">>, <<"certificate">>, <<>>} /\ "address" \notin files

SetupFits ==
    \/ setup = NoSetup
    \/ setup.does = "apply" /\ Applying
    \/ setup.does = "reset" /\ Resetting

\* Once the teardown of a kind is over, what goes of it began late.
TornDown ==
    \A w \in Pieces : work[w].at = "goes" =>
        /\ at \in {"tasks", "gone"} /\ work[w].kind = "swarm" => work[w].late
        /\ at = "gone" /\ work[w].kind = "task" => work[w].late

LifeInv ==
    /\ TypeOK /\ AddressLast(files) /\ AddressLast(serves)
    /\ SetupFits /\ TornDown /\ EndedProperly
=============================================================================
