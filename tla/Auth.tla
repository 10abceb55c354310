-------------------------------- MODULE Auth --------------------------------
(* Who a caller is (src/waterpump/auth.py, AuthService; store.py, update_auth;     *)
(* server.py, _principal and _handle_auth), with password logins on: one name,      *)
(* known to `users.json` and to the system (PAM), the sessions opened with either   *)
(* password, and one API token of `tokens.json`.  The requests `serve` answers are   *)
(* threads of one process, and share a cache of the two files, the sessions and the  *)
(* failures; a CLI command changes the files beside them.                            *)
(*                                                                                *)
(* A password is known by its number: each one set is another.  PAM's is 1, which   *)
(* is nobody's while the name is in no group.  Time moves in steps.                   *)
EXTENDS Integers, FiniteSets

CONSTANTS
    Threads, Cli,  \* the threads of `serve`; a CLI command
    None,
    Limit,         \* LOCKOUT_AFTER: failures until the name is locked
    Memory,        \* _FAILURE_MEMORY
    Recheck,       \* RECHECK_SECONDS: how long a PAM role is taken as read
    Flush,         \* LAST_USED_FLUSH
    Lifetime,      \* a session's lifetime
    MaxTime,       \* bound: the clock
    MaxLogins,     \* bound: sessions opened
    MaxChanges,    \* bound: what people change
    MaxAsks        \* bound: requests

AuthAssumption ==
    /\ IsFiniteSet(Threads) /\ Cli \notin Threads
    /\ Limit \in Nat \ {0} /\ Recheck \in Nat \ {0}
    /\ Memory \in Nat /\ Flush \in Nat /\ Lifetime \in Nat /\ MaxLogins \in Nat
    /\ None \notin {"read", "admin", "local", "pam", "token"}

VARIABLES
    now,
    file,      \* file[kind]: the stamp (auth_mtime) and the record of each file
    cache,     \* cache[kind]: what `serve` keeps of it, and the stamp it was read under
    group,     \* the role the name's groups give it, or None
    gave,      \* gave[role]: when the groups last gave it
    sessions,  \* sessions[s]: the s-th session that was opened; a thread may still have one that is gone
    job,       \* job[p]: what thread or command p is doing
    failures,  \* failed logins of the name: how many, and when the last was
    guesses,   \* passwords tried since the clock moved or one was right
    used,      \* when `serve` last saw the token
    overlap,   \* `serve` and the command were changing the tokens at once
    revoked,   \* the token's revocation was written
    count      \* logins, changes and requests so far, each bounded

authVars == <<now, file, cache, group, gave, sessions, job, failures, guesses, used, overlap,
              revoked, count>>

Roles == {"read", "admin"}
Kinds == {"users", "tokens"}
Procs == Threads \cup {Cli}
Never == -(Memory + Recheck + Flush)

\* A thread with nothing to do.
\* `asked` is what it last read the clock as.
Idle == [at |-> "idle", via |-> None, word |-> 0, role |-> None, s |-> 0, asked |-> 0, stamp |-> 0,
         seen |-> {}, crossed |-> FALSE, to |-> None, read |-> None]

\* Which file a job is about.
KindOf(j) == IF j.via = "token" THEN "tokens" ELSE "users"

Init ==
    /\ now = 0 /\ group \in {None, "admin"}
    /\ gave = [r \in Roles |-> IF r = group THEN 0 ELSE Never]
    /\ file = [users |-> [stamp |-> 1, rec |-> [word |-> 2, role |-> "admin"]],
               tokens |-> [stamp |-> 1, rec |-> [role |-> "read", ends |-> 1, used |-> Never]]]
    /\ cache = [k \in Kinds |-> [stamp |-> 0, rec |-> None]]
    /\ sessions = [s \in 1 .. MaxLogins |-> None] /\ job = [p \in Procs |-> Idle]
    /\ failures = [many |-> 0, last |-> Never] /\ guesses = 0 /\ used = Never
    /\ overlap = FALSE /\ revoked = FALSE
    /\ count = [logins |-> 0, changes |-> 0, asks |-> 0]

Is(p, at) == job[p].at = at
Count(what, bound) == count[what] < bound /\ count' = [count EXCEPT ![what] = @ + 1]

\* A request begins: what its file says until it is answered is `seen`.
Asks(t, j) ==
    /\ Is(t, "idle") /\ Count("asks", MaxAsks)
    /\ job' = [job EXCEPT ![t] = [j EXCEPT !.asked = now, !.seen = {file[KindOf(j)].rec}]]

(* _records(): the file's stamp is taken; what is kept under that stamp is as good  *)
(* as the file.                                                                    *)
Stat(t) ==
    /\ job[t].at \in {"check", "remember", "records", "find", "reread"} /\ job[t].stamp = 0
    /\ job' = [job EXCEPT ![t].stamp = file[KindOf(job[t])].stamp]
    /\ UNCHANGED <<now, file, cache, group, gave, sessions, failures, guesses, used, overlap,
                   revoked, count>>

\* Mutant: what is kept is good whatever the stamp.
KeptForever(t) == LET k == KindOf(job[t])
                  IN IF cache[k].stamp # 0 THEN cache[k].rec ELSE file[k].rec

Kept(t) == LET k == KindOf(job[t])
           IN IF cache[k].stamp = job[t].stamp THEN cache[k].rec ELSE file[k].rec

Reads(t, at) ==
    /\ Is(t, at) /\ job[t].stamp # 0
    /\ cache' = [cache EXCEPT ![KindOf(job[t])] = [stamp |-> job[t].stamp, rec |-> Kept(t)]]

-----------------------------------------------------------------------------
(* login() and confirm(): the throttle, the password, then what becomes of it. *)

\* _check_throttle(): the wait doubles with each failure past the limit.
Locked ==
    /\ failures.many >= Limit
    /\ now < failures.last + (IF failures.many = Limit THEN 1 ELSE 2)

Attempt(t, word) ==
    /\ ~Locked /\ count.logins < MaxLogins
    /\ Asks(t, [Idle EXCEPT !.at = "check", !.word = word])
    /\ guesses' = guesses + 1
    /\ UNCHANGED <<now, file, cache, group, gave, sessions, failures, used, overlap, revoked>>

\* The person behind a session is asked for the password again.
Confirm(t, word) ==
    /\ ~Locked /\ Is(t, "in") /\ job[t].via \in {"local", "pam"}
    /\ job' = [job EXCEPT ![t] = [Idle EXCEPT !.at = "check", !.word = word, !.to = "confirm"]]
    /\ guesses' = guesses + 1
    /\ UNCHANGED <<now, file, cache, group, gave, sessions, failures, used, overlap, revoked, count>>

\* _login_local(); where it refuses, _login_pam() reads the groups first.
CheckLocal(t) ==
    /\ Reads(t, "check")
    /\ LET rec == Kept(t)
           right == rec # None /\ rec.word = job[t].word
       IN job' = [job EXCEPT ![t] = [@ EXCEPT !.stamp = 0, !.at = IF right THEN "passed" ELSE "pam",
                                       !.via = IF right THEN "local" ELSE "pam",
                                       !.role = IF right THEN rec.role ELSE group]]
    /\ UNCHANGED <<now, file, group, gave, sessions, failures, guesses, used, overlap, revoked, count>>

CheckPam(t) ==
    /\ Is(t, "pam")
    /\ job' = [job EXCEPT ![t].at = IF job[t].word = 1 /\ job[t].role # None THEN "passed" ELSE "failed"]
    /\ UNCHANGED <<now, file, cache, group, gave, sessions, failures, guesses, used, overlap,
                   revoked, count>>

\* _record_failure(): one that is long past is forgotten.
Fails(t) ==
    /\ Is(t, "failed") /\ job' = [job EXCEPT ![t] = Idle]
    /\ failures' = [many |-> IF now - failures.last > Memory THEN 1 ELSE failures.many + 1, last |-> now]
    /\ UNCHANGED <<now, file, cache, group, gave, sessions, guesses, used, overlap, revoked, count>>

Passes(t) ==
    /\ Is(t, "passed") /\ failures' = [many |-> 0, last |-> Never] /\ guesses' = 0
    /\ job' = [job EXCEPT ![t] =
                  IF @.to = "confirm" THEN Idle
                  ELSE [@ EXCEPT !.asked = now, !.at = IF job[t].via = "local" THEN "remember" ELSE "open"]]
    /\ UNCHANGED <<now, file, cache, group, gave, sessions, used, overlap, revoked, count>>

\* The session keeps the record's hash, to end with it.
Opened(t, credential) ==
    /\ Count("logins", MaxLogins)
    /\ sessions' = [s \in 1 .. MaxLogins |->
          IF s = count.logins + 1
          THEN [via |-> job[t].via, role |-> job[t].role, credential |-> credential,
                ends |-> job[t].asked + Lifetime, checked |-> job[t].asked, open |-> TRUE,
                word |-> job[t].word, crossed |-> job[t].crossed]
          ELSE IF sessions[s] # None /\ sessions[s].ends <= job[t].asked
          THEN [sessions[s] EXCEPT !.open = FALSE] ELSE sessions[s]]
    /\ job' = [job EXCEPT ![t] = Idle]
    /\ UNCHANGED <<now, file, group, gave, failures, guesses, used, overlap, revoked>>

OpenLocal(t) ==
    Reads(t, "remember") /\ Opened(t, IF Kept(t) = None THEN 0 ELSE Kept(t).word)

OpenPam(t) == Is(t, "open") /\ Opened(t, 0) /\ UNCHANGED cache

-----------------------------------------------------------------------------
(* session_principal() and logout(). *)

Open(s) == sessions[s] # None /\ sessions[s].open
Drop(s) == [sessions EXCEPT ![s].open = FALSE]

\* A session that is past its time is dropped.
Comes(t, s) ==
    /\ Open(s)
    /\ IF sessions[s].ends <= now
       THEN /\ Is(t, "idle") /\ Count("asks", MaxAsks) /\ UNCHANGED job
            /\ sessions' = Drop(s)
       ELSE /\ Asks(t, [Idle EXCEPT !.via = sessions[s].via, !.s = s,
                           !.at = IF sessions[s].via = "local" THEN "records" ELSE "role"])
            /\ UNCHANGED sessions
    /\ UNCHANGED <<now, file, cache, group, gave, failures, guesses, used, overlap, revoked>>

\* What _current_role() says: None ends the session.
Answer(t, role) ==
    /\ job' = [job EXCEPT ![t] = IF role = None THEN Idle ELSE [@ EXCEPT !.at = "in", !.role = role]]
    /\ UNCHANGED <<now, file, group, gave, failures, guesses, overlap, revoked, count>>

AnswerLocal(t) ==
    /\ Reads(t, "records") /\ job[t].via = "local" /\ UNCHANGED used
    /\ LET rec == Kept(t)
           role == IF rec # None /\ rec.word = sessions[job[t].s].credential THEN rec.role ELSE None
       IN Answer(t, role) /\ sessions' = IF role = None THEN Drop(job[t].s) ELSE sessions

\* A role that was read lately is taken as it is; other threads may have set it by now.
AnswerPam(t) ==
    /\ Is(t, "role") /\ UNCHANGED <<cache, used>>
    /\ LET session == sessions[job[t].s]
       IN IF job[t].asked - session.checked < Recheck
          THEN /\ Answer(t, session.role)
               /\ sessions' = IF session.role = None THEN Drop(job[t].s) ELSE sessions
          ELSE /\ job' = [job EXCEPT ![t].at = "keep", ![t].role = group]
               /\ UNCHANGED <<now, file, group, gave, sessions, failures, guesses, overlap, revoked, count>>

\* Else the groups are read, and then it is kept, for everybody who has the session.
KeepRole(t) ==
    /\ Is(t, "keep") /\ UNCHANGED <<cache, used>>
    /\ Answer(t, job[t].role)
    /\ LET session == sessions[job[t].s]
       IN sessions' = [sessions EXCEPT ![job[t].s] =
                          [session EXCEPT !.role = job[t].role, !.checked = job[t].asked,
                                          !.open = session.open /\ job[t].role # None]]

Logout(t, s) ==
    /\ Is(t, "idle") /\ Open(s) /\ Count("asks", MaxAsks)
    /\ sessions' = Drop(s)
    /\ UNCHANGED <<now, file, cache, group, gave, job, failures, guesses, used, overlap, revoked>>

(* authenticate_token(), which reads the clock itself; _touch() when its last use is *)
(* long past.                                                                        *)

Present(t) ==
    /\ Asks(t, [Idle EXCEPT !.at = "records", !.via = "token"])
    /\ UNCHANGED <<now, file, cache, group, gave, sessions, failures, guesses, used, overlap, revoked>>

AnswerToken(t) ==
    /\ Reads(t, "records") /\ job[t].via = "token" /\ UNCHANGED sessions
    /\ LET rec == Kept(t)
           good == rec # None /\ rec.ends > now
           last == IF used # Never THEN used ELSE rec.used
       IN IF good /\ now - last >= Flush
          THEN /\ used' = now
               /\ job' = [job EXCEPT ![t] = [@ EXCEPT !.at = "change", !.to = "touch",
                                               !.role = rec.role, !.asked = now]]
               /\ UNCHANGED <<now, file, group, gave, failures, guesses, overlap, revoked, count>>
          ELSE used' = (IF good THEN now ELSE used) /\ Answer(t, IF good THEN rec.role ELSE None)

Answered(t) ==
    /\ Is(t, "in") /\ job' = [job EXCEPT ![t] = Idle]
    /\ UNCHANGED <<now, file, cache, group, gave, sessions, failures, guesses, used, overlap,
                   revoked, count>>

-----------------------------------------------------------------------------
(* set_user(), remove_user(), adopt_user() and revoke_token(), by a request or a      *)
(* command.                                                                         *)

Change(p, j) ==
    /\ Is(p, "idle") /\ Count("changes", MaxChanges)
    /\ job' = [job EXCEPT ![p] = j]
    /\ UNCHANGED <<now, file, cache, group, gave, sessions, failures, guesses, used, overlap, revoked>>

\* A password of its own, a role, or both.
SetUser(p, word, role) ==
    /\ word # 0 \/ role # None
    /\ Change(p, [Idle EXCEPT !.at = "change", !.via = "local", !.to = "set", !.word = word, !.role = role])

RemoveUser(p) == Change(p, [Idle EXCEPT !.at = "change", !.via = "local", !.to = "remove"])

\* A record from another member, as it stands.
AdoptUser(t, word, role) ==
    Change(t, [Idle EXCEPT !.at = "change", !.via = "local", !.to = "adopt", !.word = word, !.role = role])

\* It is looked up first: by a command, which has kept nothing, in the file.
RevokeToken(p) ==
    /\ p = Cli => file.tokens.rec # None
    /\ Change(p, [Idle EXCEPT !.at = IF p = Cli THEN "change" ELSE "find", !.via = "token", !.to = "revoke"])

FindToken(t) ==
    /\ Reads(t, "find")
    /\ job' = [job EXCEPT ![t] = IF Kept(t) = None THEN Idle ELSE [@ EXCEPT !.at = "change"]]
    /\ UNCHANGED <<now, file, group, gave, sessions, failures, guesses, used, overlap, revoked, count>>

\* update_auth() holds a lock, but only its own process's.
UpdateReads(p) ==
    /\ Is(p, "change") /\ (p \in Threads => \A t \in Threads : ~Is(t, "write"))
    /\ LET kind == KindOf(job[p])
       IN /\ job' = [job EXCEPT ![p].at = "write", ![p].read = file[kind].rec]
          /\ overlap' = (overlap \/ \E q \in Procs : Is(q, "write") /\ KindOf(job[q]) = kind /\ kind = "tokens")
    /\ UNCHANGED <<now, file, cache, group, gave, sessions, failures, guesses, used, revoked, count>>

\* A user that is not there yet is made with the least of the roles.
UserBecomes(j) ==
    IF j.to = "remove" THEN None
    ELSE IF j.to = "adopt" \/ j.read = None
         THEN [word |-> j.word, role |-> IF j.role = None THEN "read" ELSE j.role]
    ELSE [word |-> IF j.word = 0 THEN j.read.word ELSE j.word,
          role |-> IF j.role = None THEN j.read.role ELSE j.role]

\* _touch() writes nothing for a token that is gone; revoke_token().
TokenBecomes(j) == IF j.to = "touch" /\ j.read # None THEN [j.read EXCEPT !.used = j.asked] ELSE None

Becomes(j) == IF KindOf(j) = "tokens" THEN TokenBecomes(j) ELSE UserBecomes(j)

\* A new user needs a password.
Refused(j) == j.to = "set" /\ j.read = None /\ j.word = 0

\* What a thread does after its write: go on, forget when the token was seen, or read
\* the record it made.
Afterwards(p) ==
    LET on(at) == [job[p] EXCEPT !.at = at, !.stamp = 0]
    IN IF job[p].to = "touch" THEN on("in")
       ELSE IF p \in Threads /\ job[p].to = "revoke" THEN on("forget")
       ELSE IF p \in Threads /\ job[p].to = "set" /\ ~Refused(job[p]) THEN on("reread")
       ELSE Idle

\* A login is crossed by what changes between its check and its session.
LoggingIn(p) == job[p].at \in {"check", "pam", "passed", "remember", "open"}

\* The file is replaced as a whole, under a stamp of its own.
UpdateWrites(p) ==
    /\ Is(p, "write")
    /\ LET kind == KindOf(job[p])
           rec == IF Refused(job[p]) THEN file[kind].rec ELSE Becomes(job[p])
       IN /\ file' = IF Refused(job[p]) THEN file
                     ELSE [file EXCEPT ![kind] = [stamp |-> @.stamp + 1, rec |-> rec]]
          /\ job' = [q \in Procs |->
                        IF q = p THEN Afterwards(p)
                        ELSE IF KindOf(job[q]) # kind THEN job[q]
                        ELSE [job[q] EXCEPT !.seen = IF Is(q, "records") THEN @ \cup {rec} ELSE @,
                                            !.crossed = @ \/ LoggingIn(q)]]
    /\ revoked' = (revoked \/ job[p].to = "revoke")
    /\ UNCHANGED <<now, cache, group, gave, sessions, failures, guesses, used, overlap, count>>

Forgets(t) ==
    /\ Is(t, "forget") /\ job' = [job EXCEPT ![t] = Idle] /\ used' = Never
    /\ UNCHANGED <<now, file, cache, group, gave, sessions, failures, guesses, overlap, revoked, count>>

Rereads(t) ==
    /\ Reads(t, "reread") /\ job' = [job EXCEPT ![t] = Idle]
    /\ UNCHANGED <<now, file, group, gave, sessions, failures, guesses, used, overlap, revoked, count>>

\* Who manages the host moves the name between its groups.
GroupMoves(role) ==
    /\ role # group /\ Count("changes", MaxChanges) /\ group' = role
    /\ gave' = [r \in Roles |-> IF r = role THEN now ELSE gave[r]]
    /\ job' = [p \in Procs |-> [job[p] EXCEPT !.crossed = @ \/ LoggingIn(p)]]
    /\ UNCHANGED <<now, file, cache, sessions, failures, guesses, used, overlap, revoked>>

Tick ==
    /\ now < MaxTime /\ now' = now + 1 /\ guesses' = 0
    /\ gave' = [r \in Roles |-> IF r = group THEN now + 1 ELSE gave[r]]
    /\ UNCHANGED <<file, cache, group, sessions, job, failures, used, overlap, revoked, count>>

\* A password that nobody had.
New == count.changes + 3

Next ==
    \/ \E t \in Threads :
          \/ \E word \in 1 .. count.changes + 2 : Attempt(t, word) \/ Confirm(t, word)
          \/ Stat(t) \/ CheckLocal(t) \/ CheckPam(t) \/ Fails(t) \/ Passes(t)
          \/ OpenLocal(t) \/ OpenPam(t) \/ AnswerLocal(t) \/ AnswerPam(t) \/ KeepRole(t)
          \/ Present(t) \/ AnswerToken(t) \/ Answered(t) \/ FindToken(t) \/ Forgets(t) \/ Rereads(t)
          \/ \E s \in 1 .. MaxLogins : Comes(t, s) \/ Logout(t, s)
          \/ \E role \in Roles : AdoptUser(t, New, role)
    \/ \E p \in Procs :
          \/ \E word \in {0, New}, role \in Roles \cup {None} : SetUser(p, word, role)
          \/ RemoveUser(p) \/ RevokeToken(p) \/ UpdateReads(p) \/ UpdateWrites(p)
    \/ \E role \in Roles \cup {None} : GroupMoves(role)
    \/ Tick

Spec == Init /\ [][Next]_authVars

-----------------------------------------------------------------------------
(* A session lets its caller in as what the account is, and only while the account  *)
(* has the password it was opened with: "a password changed from anywhere ... ends   *)
(* the sessions opened with the old one", at the latest for the next request, however *)
(* the cache, the sessions and the file were caught; a PAM role is given up           *)
(* RECHECK_SECONDS after the groups gave it up.  A login that the change falls into    *)
(* may keep what it read before it (auth.py, _current_role and login).                *)
SessionsHold ==
    \A t \in Threads : Is(t, "in") =>
        /\ job[t].via = "local" =>
              \E rec \in job[t].seen \ {None} :
                  rec.role = job[t].role /\ (rec.word = sessions[job[t].s].word \/ sessions[job[t].s].crossed)
        /\ job[t].via = "pam" =>
              gave[job[t].role] > job[t].asked - Recheck \/ sessions[job[t].s].crossed

(* A token lets in nobody who came after it was revoked or had expired, and one that *)
(* was revoked is not written back by a request that still used it, unless the        *)
(* command that revoked it and `serve` were rewriting the file at once                *)
(* (authenticate_token(), _touch(), update_auth()).                                   *)
TokensHold ==
    /\ \A t \in Threads : Is(t, "in") /\ job[t].via = "token" =>
          \E rec \in job[t].seen \ {None} : rec.role = job[t].role /\ rec.ends > job[t].asked
    /\ revoked /\ ~overlap => file.tokens.rec = None

(* Passwords are tried no faster than the throttle says, but for the requests that   *)
(* had passed it before the last failure was recorded (_check_throttle() and          *)
(* _record_failure() are two turns of the lock).                                      *)
ThrottleHolds == guesses < Limit + Cardinality(Threads)

OnlyTheEntitled == SessionsHold /\ TokensHold /\ ThrottleHolds

-----------------------------------------------------------------------------
(* Why it holds: the inductive invariant, proved in AuthProof.                  *)

Users == [word : Nat, role : Roles]
Tokens == [role : Roles, ends : Int, used : Int]
Recs(kind) == {None} \cup (IF kind = "tokens" THEN Tokens ELSE Users)
Records == {None} \cup Users \cup Tokens
Sessions == [via : {"local", "pam"}, role : Roles \cup {None}, credential : Nat, ends : Int, checked : Int,
             open : BOOLEAN, word : Nat, crossed : BOOLEAN]
Places == {"idle", "check", "pam", "failed", "passed", "remember", "open", "records", "role", "keep", "in",
           "find", "change", "write", "forget", "reread"}
Errands == {None, "confirm", "touch", "set", "adopt", "remove", "revoke"}
Jobs == [at : Places, via : {None, "local", "pam", "token"}, word : Nat, role : Roles \cup {None},
         s : Nat, asked : Nat, stamp : Nat,
         seen : SUBSET Records, crossed : BOOLEAN, to : Errands, read : Records]
Counts == [logins : Nat, changes : Nat, asks : Nat]

TypeOK ==
    /\ now \in Nat /\ group \in Roles \cup {None} /\ gave \in [Roles -> Int]
    /\ file \in [Kinds -> [stamp : Nat, rec : Records]]
    /\ cache \in [Kinds -> [stamp : Nat, rec : Records]]
    /\ \A k \in Kinds : file[k].rec \in Recs(k) /\ cache[k].rec \in Recs(k) /\ file[k].stamp # 0
    /\ sessions \in [1 .. MaxLogins -> {None} \cup Sessions]
    /\ job \in [Procs -> Jobs]
    /\ failures \in [many : Nat, last : Int] /\ guesses \in Nat
    /\ used \in Int /\ overlap \in BOOLEAN /\ revoked \in BOOLEAN
    /\ count \in Counts

\* What the groups give the name they give it now; nothing was given or failed later.
GroupFits ==
    /\ group # None => gave[group] = now
    /\ failures.last <= now /\ \A r \in Roles : gave[r] <= now

\* What is kept under the file's stamp is the file.
CacheFits == \A k \in Kinds :
    cache[k].stamp <= file[k].stamp /\ (cache[k].stamp = file[k].stamp => cache[k].rec = file[k].rec)

\* Its credential is the password's, and its role was the groups' when it was checked.
SessionFits(session) ==
    session.crossed \/ IF session.via = "local" THEN session.credential = session.word
                       ELSE session.role = None \/ gave[session.role] >= session.checked

SessionsFit == \A s \in 1 .. MaxLogins :
    IF s <= count.logins THEN sessions[s] \in Sessions /\ SessionFits(sessions[s]) ELSE sessions[s] = None

\* A login that nothing crossed goes by what still is so.
LoginFits(p) ==
    /\ job[p].at = "check" => job[p].via = None
    /\ job[p].at = "pam" => job[p].via = "pam"
    /\ job[p].at = "passed" => job[p].via \in {"local", "pam"} /\ job[p].role # None
    /\ job[p].at = "remember" => job[p].via = "local" /\ job[p].role # None
    /\ job[p].at = "open" => job[p].via = "pam" /\ job[p].role # None
    /\ ~job[p].crossed =>
          /\ job[p].stamp # 0 => job[p].stamp = file.users.stamp
          /\ job[p].at \in {"passed", "remember"} /\ job[p].via = "local" =>
                file.users.rec # None /\ file.users.rec.word = job[p].word
          /\ job[p].at # "check" /\ job[p].via = "pam" => job[p].role = group

\* What a request may go by is what its file said since it was asked.
RecordsFit(p) ==
    LET k == KindOf(job[p])
    IN /\ file[k].rec \in job[p].seen
       /\ job[p].stamp # 0 /\ cache[k].stamp = job[p].stamp => cache[k].rec \in job[p].seen

\* A request that came with a session has it still.
ComesFit(p) ==
    /\ job[p].s \in 1 .. MaxLogins /\ job[p].s <= count.logins
    /\ sessions[job[p].s].via = job[p].via

TokenFits(p) == \E rec \in job[p].seen \ {None} : rec.role = job[p].role /\ rec.ends > job[p].asked

InFits(p) ==
    /\ job[p].via = "local" =>
          \E rec \in job[p].seen \ {None} :
              rec.role = job[p].role /\ (rec.word = sessions[job[p].s].word \/ sessions[job[p].s].crossed)
    /\ job[p].via = "pam" => job[p].role # None
    /\ job[p].via = "pam" => gave[job[p].role] > job[p].asked - Recheck \/ sessions[job[p].s].crossed
    /\ job[p].via = "token" => TokenFits(p)

ChangeFits(p) ==
    /\ job[p].via = "token" => job[p].to \in {"touch", "revoke"}
    /\ job[p].via # "token" => job[p].to \in {"set", "adopt", "remove"} /\ job[p].via = "local"
    /\ job[p].to = "adopt" => job[p].role # None
    /\ job[p].to = "touch" => TokenFits(p) /\ p \in Threads
    /\ job[p].at = "write" => job[p].read \in Recs(KindOf(job[p]))

JobFits(p) ==
    /\ job[p].asked <= now /\ job[p].stamp <= file[KindOf(job[p])].stamp
    /\ job[p].at \in {"check", "pam", "passed", "remember", "open"} => LoginFits(p)
    /\ job[p].at \in {"records", "role", "keep", "in"} /\ job[p].via # "token" => ComesFit(p)
    /\ job[p].at = "records" => job[p].via \in {"local", "token"} /\ RecordsFit(p)
    /\ job[p].at \in {"role", "keep"} => job[p].via = "pam"
    /\ job[p].at = "keep" => job[p].role = None \/ gave[job[p].role] >= job[p].asked
    /\ job[p].at = "in" => InFits(p)
    /\ job[p].at = "find" => job[p].via = "token" /\ job[p].to = "revoke"
    /\ job[p].at \in {"change", "write"} => ChangeFits(p)

\* While nobody overlaps, who rewrites the tokens does so alone.
WritesFit ==
    ~overlap =>
        /\ \A p, q \in Procs :
              Is(p, "write") /\ Is(q, "write") /\ job[p].via = "token" /\ job[q].via = "token" => p = q
        /\ \A p \in Procs :
              Is(p, "write") /\ job[p].via = "token" => job[p].read = file.tokens.rec
        /\ revoked => file.tokens.rec = None

\* Every password tried was counted as failed, or its request is still at it.
Trying == {t \in Threads : job[t].at \in {"check", "pam", "passed", "failed"}}
Throttled ==
    /\ guesses <= (IF failures.last = now THEN failures.many ELSE 0) + Cardinality(Trying)
    /\ ThrottleHolds

AuthInv ==
    /\ TypeOK /\ GroupFits /\ CacheFits /\ SessionsFit
    /\ \A p \in Procs : JobFits(p)
    /\ WritesFit /\ Throttled
=============================================================================
