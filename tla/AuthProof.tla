----------------------------- MODULE AuthProof ------------------------------
(* Proofs about Auth: that its invariant holds at first, that each step keeps it,   *)
(* and that it gives OnlyTheEntitled.  The theorem for the runs is in MCPartsProof.  *)
EXTENDS Auth, FiniteSetTheorems, TLAPS

LEMMA KindsOf == \A j : KindOf(j) \in Kinds /\ Kinds = {"users", "tokens"}
  BY DEF KindOf, Kinds

LEMMA IdleIs ==
    /\ Idle \in Jobs /\ Idle.at = "idle" /\ Idle.via = None /\ Idle.stamp = 0 /\ Idle.asked = 0
    /\ Idle.crossed = FALSE /\ Idle.to = None
  <1>1. None \in Records /\ None \in Roles \cup {None} /\ None \in {None, "local", "pam", "token"}
        /\ {} \in SUBSET Records /\ None \in Errands /\ "idle" \in Places
    BY DEF Records, Errands, Places
  <1>2. Idle \in Jobs
    <2> HIDE DEF Records, Roles, Sessions
    <2>1. QED
      BY <1>1 DEF Idle, Jobs
  <1>3. QED
    BY <1>2 DEF Idle

LEMMA Fields ==
    ASSUME TypeOK, NEW p \in Procs
    PROVE  /\ job[p] \in Jobs /\ job[p].at \in Places /\ job[p].via \in {None, "local", "pam", "token"}
           /\ job[p].word \in Nat /\ job[p].role \in Roles \cup {None} /\ job[p].s \in Nat
           /\ job[p].asked \in Nat /\ job[p].stamp \in Nat
           /\ job[p].seen \in SUBSET Records /\ job[p].crossed \in BOOLEAN
           /\ job[p].to \in Errands /\ job[p].read \in Records
           /\ KindOf(job[p]) \in Kinds
  <1>1. job[p] \in Jobs
    BY DEF TypeOK
  <1>2. QED
    BY <1>1 DEF Jobs, KindOf, Kinds

LEMMA Files ==
    ASSUME TypeOK, NEW k \in Kinds
    PROVE  /\ file[k].stamp \in Nat /\ file[k].stamp # 0 /\ file[k].rec \in Recs(k) /\ file[k].rec \in Records
           /\ cache[k].stamp \in Nat /\ cache[k].rec \in Recs(k) /\ cache[k].rec \in Records
  BY DEF TypeOK

LEMMA AuthInit == AuthAssumption /\ Init => AuthInv
  <1> SUFFICES ASSUME AuthAssumption, Init PROVE AuthInv
    OBVIOUS
  <1>1. \A p \in Procs : job[p] = Idle
    BY DEF Init
  <1>2. TypeOK
    <2>1. group \in Roles \cup {None} /\ gave \in [Roles -> Int] /\ now = 0
      BY DEF Init, Roles, Never, AuthAssumption
    <2>2. Never \in Int
      BY DEF Never, AuthAssumption
    <2>3. /\ file["users"] = [stamp |-> 1, rec |-> [word |-> 2, role |-> "admin"]]
          /\ file["tokens"] = [stamp |-> 1, rec |-> [role |-> "read", ends |-> 1, used |-> Never]]
          /\ file = [k \in Kinds |-> file[k]]
      BY DEF Init, Kinds
    <2>4. [word |-> 2, role |-> "admin"] \in Users /\ [role |-> "read", ends |-> 1, used |-> Never] \in Tokens
      BY <2>2 DEF Users, Tokens, Roles
    <2>5. /\ file \in [Kinds -> [stamp : Nat, rec : Records]]
          /\ \A k \in Kinds : file[k].rec \in Recs(k) /\ file[k].stamp # 0
      BY <2>3, <2>4 DEF Kinds, Recs, Records
    <2>6. /\ cache \in [Kinds -> [stamp : Nat, rec : Records]]
          /\ \A k \in Kinds : cache[k].rec \in Recs(k)
      BY DEF Init, Recs, Records
    <2>7. sessions \in [1 .. MaxLogins -> {None} \cup Sessions] /\ job \in [Procs -> Jobs]
      BY IdleIs DEF Init
    <2>8. /\ failures \in [many : Nat, last : Int] /\ guesses \in Nat
          /\ used \in Int /\ overlap \in BOOLEAN /\ revoked \in BOOLEAN /\ count \in Counts
      BY <2>2 DEF Init, Counts
    <2>9. QED
      BY <2>1, <2>5, <2>6, <2>7, <2>8 DEF TypeOK
  <1>3. GroupFits
    BY DEF Init, GroupFits, Never, AuthAssumption, Roles
  <1>4. CacheFits
    BY <1>2, Files DEF Init, CacheFits
  <1>5. SessionsFit
    BY DEF Init, SessionsFit
  <1>6. \A p \in Procs : JobFits(p)
    BY <1>1, <1>2, IdleIs, Files, KindsOf DEF JobFits, Init
  <1>7. WritesFit
    BY <1>1, IdleIs DEF WritesFit, Is, Init
  <1>8. Throttled
    <2>1. Trying = {} /\ Cardinality(Trying) = 0
      BY <1>1, IdleIs, FS_EmptySet DEF Trying, Procs
    <2>2. guesses = 0 /\ failures.many = 0 /\ Cardinality(Threads) \in Nat /\ Limit \in Nat \ {0}
      BY FS_CardinalityType DEF Init, AuthAssumption
    <2>3. QED
      BY <2>1, <2>2 DEF Throttled, ThrottleHolds
  <1>9. QED
    BY <1>2, <1>3, <1>4, <1>5, <1>6, <1>7, <1>8 DEF AuthInv

-----------------------------------------------------------------------------
\* A session that ends, or whose role is read again, stays the one it is.
SessionsStay ==
    /\ count'.logins \in Nat /\ count.logins \in Nat /\ count'.logins >= count.logins
    /\ \A s \in 1 .. MaxLogins : s <= count.logins =>
          /\ sessions'[s].via = sessions[s].via /\ sessions'[s].word = sessions[s].word
          /\ sessions'[s].crossed = sessions[s].crossed

\* What a job goes by still fits it when other jobs move on: what is kept is what was
\* kept or what the file says.
LEMMA OthersFit ==
    ASSUME TypeOK, NEW q \in Procs, JobFits(q), job'[q] = job[q],
           file' = file, group' = group, now' = now, gave' = gave,
           \A k \in Kinds : \/ cache'[k].rec = file[k].rec
                            \/ cache'[k].stamp = cache[k].stamp /\ cache'[k].rec = cache[k].rec,
           SessionsStay
    PROVE  JobFits(q)'
  <1>1. KindOf(job[q]) \in Kinds /\ KindOf(job'[q]) = KindOf(job[q])
    BY Fields
  <1>2. LoginFits(q) => LoginFits(q)'
    BY DEF LoginFits
  <1>3. JobFits(q) /\ job[q].at = "records" => (RecordsFit(q) => RecordsFit(q)')
    BY <1>1 DEF RecordsFit
  <1>4. ComesFit(q) => ComesFit(q)'
    BY DEF ComesFit, SessionsStay
  <1>5. InFits(q) /\ (job[q].via # "token" => ComesFit(q)) => InFits(q)'
    BY DEF InFits, TokenFits, ComesFit, SessionsStay
  <1>6. ChangeFits(q) => ChangeFits(q)'
    BY <1>1 DEF ChangeFits, TokenFits
  <1>7. QED
    BY <1>1, <1>2, <1>3, <1>4, <1>5, <1>6 DEF JobFits

LEMMA SessionsSame ==
    ASSUME TypeOK, SessionsFit, sessions' = sessions, gave' = gave, count' = count
    PROVE  sessions' \in [1 .. MaxLogins -> {None} \cup Sessions] /\ SessionsFit' /\ SessionsStay
  <1>1. count.logins \in Nat
    BY DEF TypeOK, Counts
  <1>2. QED
    BY <1>1 DEF TypeOK, SessionsFit, SessionFits, SessionsStay

\* One job moves on to j.
LEMMA OneMoves ==
    ASSUME TypeOK, NEW p \in Procs, NEW j \in Jobs, job' = [job EXCEPT ![p] = j]
    PROVE  job' \in [Procs -> Jobs] /\ job'[p] = j /\ \A q \in Procs \ {p} : job'[q] = job[q]
  BY DEF TypeOK

\* Who is not rewriting a file, and does not begin to, is nothing to who is.
LEMMA WritesStay ==
    ASSUME TypeOK, WritesFit, NEW p \in Procs, \A q \in Procs \ {p} : job'[q] = job[q],
           job'[p].at # "write", file' = file, overlap' = overlap, revoked' = revoked
    PROVE  WritesFit'
  BY DEF WritesFit, Is

LEMMA TryingIs ==
    ASSUME AuthAssumption
    PROVE  /\ IsFiniteSet(Trying) /\ Cardinality(Trying) \in Nat
           /\ Cardinality(Threads) \in Nat /\ Cardinality(Trying) <= Cardinality(Threads)
  <1>1. Trying \in SUBSET Threads /\ IsFiniteSet(Threads)
    BY DEF Trying, AuthAssumption
  <1>2. QED
    BY <1>1, FS_Subset, FS_CardinalityType

\* As long as as many passwords are being tried, and as many have failed.
LEMMA ThrottleStays ==
    ASSUME Throttled, NEW p \in Procs, \A q \in Procs \ {p} : job'[q] = job[q],
           p \in Threads =>
               (job'[p].at \in {"check", "pam", "passed", "failed"}
                   <=> job[p].at \in {"check", "pam", "passed", "failed"}),
           guesses' = guesses, failures' = failures, now' = now
    PROVE  Throttled'
  <1>1. Trying' = Trying
    BY DEF Trying, Procs
  <1>2. QED
    BY <1>1 DEF Throttled, ThrottleHolds

LEMMA CountIs ==
    ASSUME TypeOK, NEW what \in {"logins", "changes", "asks"}, NEW bound, Count(what, bound)
    PROVE  /\ count' \in Counts /\ count.logins \in Nat /\ count.changes \in Nat
           /\ count'.logins = IF what = "logins" THEN count.logins + 1 ELSE count.logins
  <1>1. /\ count \in Counts /\ count' = [count EXCEPT ![what] = @ + 1]
        /\ count.logins \in Nat /\ count.changes \in Nat /\ count.asks \in Nat
    BY DEF TypeOK, Counts, Count
  <1>2. CASE what = "logins"
    <2>1. count' = [count EXCEPT !.logins = count.logins + 1]
      BY <1>1, <1>2
    <2>2. QED
      BY <1>1, <1>2, <2>1 DEF Counts
  <1>3. CASE what = "changes"
    <2>1. count' = [count EXCEPT !.changes = count.changes + 1]
      BY <1>1, <1>3
    <2>2. QED
      BY <1>1, <1>3, <2>1 DEF Counts
  <1>4. CASE what = "asks"
    <2>1. count' = [count EXCEPT !.asks = count.asks + 1]
      BY <1>1, <1>4
    <2>2. QED
      BY <1>1, <1>4, <2>1 DEF Counts
  <1>5. QED
    BY <1>2, <1>3, <1>4

\* A step of one job, which may fill the cache, and open and end sessions.
LEMMA JobSteps ==
    ASSUME AuthInv, NEW p \in Procs, job' \in [Procs -> Jobs], \A q \in Procs \ {p} : job'[q] = job[q],
           now' = now, file' = file, group' = group, gave' = gave, revoked' = revoked,
           overlap' = overlap \/ overlap' = TRUE, used' \in Int,
           cache' \in [Kinds -> [stamp : Nat, rec : Records]], CacheFits',
           \A k \in Kinds : cache'[k].rec \in Recs(k),
           \A k \in Kinds : \/ cache'[k].rec = file[k].rec
                            \/ cache'[k].stamp = cache[k].stamp /\ cache'[k].rec = cache[k].rec,
           sessions' \in [1 .. MaxLogins -> {None} \cup Sessions], SessionsFit',
           SessionsStay,
           count' \in Counts,
           failures' \in [many : Nat, last : Int], failures'.last <= now, guesses' \in Nat,
           JobFits(p)', WritesFit', Throttled'
    PROVE  AuthInv'
  <1>1. TypeOK'
    BY DEF AuthInv, TypeOK
  <1>2. GroupFits'
    BY DEF AuthInv, GroupFits
  <1>3. ASSUME NEW q \in Procs PROVE JobFits(q)'
    <2>1. CASE q # p
      BY <2>1, OthersFit DEF AuthInv
    <2>2. QED
      BY <2>1
  <1>4. QED
    BY <1>1, <1>2, <1>3 DEF AuthInv

\* One that leaves the cache and the sessions alone.
LEMMA OneStep ==
    ASSUME AuthInv, NEW p \in Procs, NEW j \in Jobs, job' = [job EXCEPT ![p] = j],
           now' = now, file' = file, cache' = cache, group' = group, gave' = gave,
           sessions' = sessions, overlap' = overlap \/ overlap' = TRUE, revoked' = revoked, used' = used,
           count' \in Counts, count'.logins = count.logins,
           failures' \in [many : Nat, last : Int], failures'.last <= now, guesses' \in Nat,
           JobFits(p)', WritesFit', Throttled'
    PROVE  AuthInv'
  <1>1. job' \in [Procs -> Jobs] /\ job'[p] = j /\ \A q \in Procs \ {p} : job'[q] = job[q]
    BY OneMoves DEF AuthInv
  <1>2. /\ cache' \in [Kinds -> [stamp : Nat, rec : Records]] /\ CacheFits'
        /\ \A k \in Kinds : cache'[k].rec \in Recs(k)
    BY DEF AuthInv, TypeOK, CacheFits
  <1>3. sessions' \in [1 .. MaxLogins -> {None} \cup Sessions] /\ SessionsFit' /\ SessionsStay
    <2>1. count.logins \in Nat
      BY DEF AuthInv, TypeOK, Counts
    <2>2. QED
      BY <2>1 DEF AuthInv, TypeOK, SessionsFit, SessionFits, SessionsStay
  <1>4. used' \in Int
    BY DEF AuthInv, TypeOK
  <1>5. QED
    BY <1>1, <1>2, <1>3, <1>4, JobSteps

LEMMA StatStep ==
    ASSUME AuthAssumption, AuthInv, NEW t \in Threads, Stat(t) PROVE AuthInv'
  <1> DEFINE j == [job[t] EXCEPT !.stamp = file[KindOf(job[t])].stamp]
  <1>1. t \in Procs /\ TypeOK /\ JobFits(t)
    BY DEF AuthInv, Procs
  <1>2. KindOf(job[t]) \in Kinds /\ file[KindOf(job[t])].stamp \in Nat
    BY <1>1, Fields, Files
  <1>3. /\ j \in Jobs /\ j.at = job[t].at /\ j.via = job[t].via /\ j.role = job[t].role
        /\ j.word = job[t].word /\ j.s = job[t].s /\ j.asked = job[t].asked
        /\ j.seen = job[t].seen /\ j.crossed = job[t].crossed /\ j.to = job[t].to
        /\ j.stamp = file[KindOf(job[t])].stamp
    <2>1. job[t] \in Jobs
      BY <1>1, Fields
    <2>2. QED
      BY <1>2, <2>1 DEF Jobs
  <1>4. /\ job' = [job EXCEPT ![t] = j] /\ job[t].at \in {"check", "remember", "records", "find", "reread"}
        /\ now' = now /\ file' = file /\ cache' = cache /\ group' = group /\ gave' = gave
        /\ sessions' = sessions /\ failures' = failures /\ guesses' = guesses /\ used' = used
        /\ overlap' = overlap /\ revoked' = revoked /\ count' = count
    BY DEF Stat
  <1> HIDE DEF j
  <1>5. job'[t] = j /\ \A q \in Procs \ {t} : job'[q] = job[q]
    BY <1>1, <1>3, <1>4, OneMoves
  <1>6. JobFits(t)'
    <2>1. KindOf(j) = KindOf(job[t])
      BY <1>3 DEF KindOf
    <2>2. job[t].at \in {"check", "remember"} => LoginFits(t)'
      <3>1. job[t].at \in {"check", "remember"} => KindOf(j) = "users" /\ LoginFits(t)
        BY <1>1, <1>3, <1>4 DEF JobFits, LoginFits, KindOf, AuthAssumption
      <3>2. QED
        BY <1>3, <1>4, <1>5, <2>1, <3>1 DEF LoginFits
    <2>3. job[t].at = "records" => RecordsFit(t)'
      BY <1>1, <1>2, <1>3, <1>4, <1>5, <2>1 DEF JobFits, RecordsFit, AuthInv, CacheFits
    <2>4. ComesFit(t) => ComesFit(t)'
      BY <1>3, <1>4, <1>5 DEF ComesFit
    <2>5. QED
      BY <1>1, <1>2, <1>3, <1>4, <1>5, <2>1, <2>2, <2>3, <2>4 DEF JobFits
  <1>7. WritesFit' /\ Throttled'
    BY <1>1, <1>3, <1>4, <1>5, WritesStay, ThrottleStays DEF AuthInv
  <1>8. /\ count' \in Counts /\ failures' \in [many : Nat, last : Int] /\ failures'.last <= now /\ guesses' \in Nat
    BY <1>4 DEF AuthInv, TypeOK, GroupFits
  <1>9. QED
    BY <1>1, <1>3, <1>4, <1>6, <1>7, <1>8, OneStep

-----------------------------------------------------------------------------
\* Nothing is asked of who does nothing.
LEMMA IdleFits ==
    ASSUME AuthAssumption, NEW p \in Procs, job'[p] = Idle, now' \in Nat,
           file' \in [Kinds -> [stamp : Nat, rec : Records]]
    PROVE  JobFits(p)'
  <1>1. KindOf(Idle) \in Kinds /\ file'[KindOf(Idle)].stamp \in Nat
    BY KindsOf
  <1>2. QED
    BY <1>1, IdleIs DEF JobFits

\* One more password is tried.
LEMMA GuessCounted ==
    ASSUME AuthAssumption, TypeOK, Throttled, ~Locked, NEW t \in Threads,
           job[t].at \notin {"check", "pam", "passed", "failed"}, job'[t].at = "check",
           \A q \in Procs \ {t} : job'[q] = job[q],
           guesses' = guesses + 1, failures' = failures, now' = now
    PROVE  Throttled'
  <1>1. Trying' = Trying \cup {t} /\ t \notin Trying
    BY DEF Trying, Procs
  <1>2. Cardinality(Trying') = Cardinality(Trying) + 1
    BY <1>1, TryingIs, FS_AddElement
  <1>3. Trying' \in SUBSET Threads /\ Cardinality(Trying') <= Cardinality(Threads)
    BY FS_Subset DEF Trying, AuthAssumption
  <1>4. /\ guesses \in Nat /\ now \in Nat /\ failures.many \in Nat /\ failures.last \in Int
        /\ Limit \in Nat \ {0}
    BY DEF TypeOK, AuthAssumption
  <1>5. failures.last = now => failures.many < Limit
    BY <1>4 DEF Locked
  <1>6. QED
    BY <1>2, <1>3, <1>4, <1>5, TryingIs DEF Throttled, ThrottleHolds

\* One password was wrong.
LEMMA FailureCounted ==
    ASSUME AuthAssumption, TypeOK, Throttled, failures.last <= now, NEW t \in Threads, job[t].at = "failed",
           job'[t].at = "idle", \A q \in Procs \ {t} : job'[q] = job[q],
           guesses' = guesses, now' = now,
           failures'.many = (IF now - failures.last > Memory THEN 1 ELSE failures.many + 1),
           failures'.last = now
    PROVE  Throttled'
  <1>1. Trying' = Trying \ {t} /\ t \in Trying
    BY DEF Trying, Procs
  <1>2. Cardinality(Trying') = Cardinality(Trying) - 1
    BY <1>1, TryingIs, FS_RemoveElement
  <1>3. /\ guesses \in Nat /\ now \in Nat /\ failures.many \in Nat /\ failures.last \in Int
        /\ Memory \in Nat
    BY DEF TypeOK, AuthAssumption
  <1>4. QED
    BY <1>2, <1>3, TryingIs DEF Throttled, ThrottleHolds

\* A request that begins.
LEMMA AsksIs ==
    ASSUME TypeOK, NEW t \in Procs, NEW i \in Jobs, Asks(t, i)
    PROVE  \E j \in Jobs :
              /\ job' = [job EXCEPT ![t] = j] /\ job[t].at = "idle"
              /\ j.at = i.at /\ j.via = i.via /\ j.word = i.word /\ j.role = i.role /\ j.s = i.s
              /\ j.stamp = i.stamp /\ j.crossed = i.crossed
              /\ j.to = i.to /\ j.read = i.read /\ j.asked = now /\ KindOf(j) = KindOf(i)
              /\ j.seen = {file[KindOf(i)].rec}
              /\ count' \in Counts /\ count'.logins = count.logins
  <1> DEFINE j == [i EXCEPT !.asked = now, !.seen = {file[KindOf(i)].rec}]
  <1>1. KindOf(i) \in Kinds /\ file[KindOf(i)].rec \in Records /\ now \in Nat
    BY KindsOf, Files DEF TypeOK
  <1>2. /\ j \in Jobs
        /\ j.at = i.at /\ j.via = i.via /\ j.word = i.word /\ j.role = i.role /\ j.s = i.s
        /\ j.stamp = i.stamp /\ j.crossed = i.crossed
        /\ j.to = i.to /\ j.read = i.read /\ j.asked = now /\ j.seen = {file[KindOf(i)].rec}
    BY <1>1 DEF Jobs
  <1>3. /\ job' = [job EXCEPT ![t] = j] /\ job[t].at = "idle" /\ Count("asks", MaxAsks)
    BY DEF Asks, Is
  <1> HIDE DEF j
  <1>4. KindOf(j) = KindOf(i)
    BY <1>2 DEF KindOf
  <1>5. count' \in Counts /\ count'.logins = count.logins
    BY <1>3, CountIs
  <1>6. QED
    BY <1>2, <1>3, <1>4, <1>5

LEMMA AttemptStep ==
    ASSUME AuthAssumption, AuthInv, NEW t \in Threads, NEW word \in Nat, Attempt(t, word) PROVE AuthInv'
  <1> DEFINE i == [Idle EXCEPT !.at = "check", !.word = word]
  <1>1. t \in Procs /\ TypeOK
    BY DEF AuthInv, Procs
  <1>2. i \in Jobs /\ i.at = "check" /\ i.via = None /\ i.stamp = 0 /\ i.crossed = FALSE
    <2>1. "check" \in Places
      BY DEF Places
    <2>2. QED
      BY <2>1, IdleIs DEF Jobs
  <1>3. /\ Asks(t, i) /\ ~Locked /\ guesses' = guesses + 1
        /\ now' = now /\ file' = file /\ cache' = cache /\ group' = group /\ gave' = gave
        /\ sessions' = sessions /\ failures' = failures /\ used' = used
        /\ overlap' = overlap /\ revoked' = revoked
    BY DEF Attempt
  <1> HIDE DEF i
  <1>4. PICK j \in Jobs :
              /\ job' = [job EXCEPT ![t] = j] /\ job[t].at = "idle"
              /\ j.at = i.at /\ j.via = i.via /\ j.stamp = i.stamp /\ j.crossed = i.crossed /\ j.asked = now
              /\ count' \in Counts /\ count'.logins = count.logins
    BY <1>1, <1>2, <1>3, AsksIs
  <1>5. job'[t] = j /\ \A q \in Procs \ {t} : job'[q] = job[q]
    BY <1>1, <1>4, OneMoves
  <1>6. JobFits(t)'
    <2>1. LoginFits(t)'
      BY <1>2, <1>4, <1>5 DEF LoginFits
    <2>2. KindOf(j) \in Kinds /\ file[KindOf(j)].stamp \in Nat /\ now \in Nat
      BY <1>1, KindsOf, Files DEF TypeOK
    <2>3. QED
      BY <1>2, <1>3, <1>4, <1>5, <2>1, <2>2 DEF JobFits
  <1>7. WritesFit' /\ Throttled'
    <2>1. Throttled /\ WritesFit
      BY DEF AuthInv
    <2>2. WritesFit'
      BY <1>1, <1>2, <1>3, <1>4, <1>5, <2>1, WritesStay
    <2>3. QED
      BY <1>1, <1>2, <1>3, <1>4, <1>5, <2>1, <2>2, GuessCounted
  <1>8. failures' \in [many : Nat, last : Int] /\ failures'.last <= now /\ guesses' \in Nat
    BY <1>3 DEF AuthInv, TypeOK, GroupFits
  <1>9. QED
    BY <1>1, <1>3, <1>4, <1>6, <1>7, <1>8, OneStep

LEMMA ConfirmStep ==
    ASSUME AuthAssumption, AuthInv, NEW t \in Threads, NEW word \in Nat, Confirm(t, word) PROVE AuthInv'
  <1> DEFINE j == [Idle EXCEPT !.at = "check", !.word = word, !.to = "confirm"]
  <1>1. t \in Procs /\ TypeOK
    BY DEF AuthInv, Procs
  <1>2. /\ j \in Jobs /\ j.at = "check" /\ j.via = None /\ j.stamp = 0 /\ j.crossed = FALSE /\ j.asked = 0
    <2>1. "check" \in Places /\ "confirm" \in Errands
      BY DEF Places, Errands
    <2>2. QED
      BY <2>1, IdleIs DEF Jobs
  <1>3. /\ job' = [job EXCEPT ![t] = j] /\ job[t].at = "in" /\ ~Locked /\ guesses' = guesses + 1
        /\ now' = now /\ file' = file /\ cache' = cache /\ group' = group /\ gave' = gave
        /\ sessions' = sessions /\ failures' = failures /\ used' = used
        /\ overlap' = overlap /\ revoked' = revoked /\ count' = count
    BY DEF Confirm, Is
  <1> HIDE DEF j
  <1>4. job'[t] = j /\ \A q \in Procs \ {t} : job'[q] = job[q]
    BY <1>1, <1>2, <1>3, OneMoves
  <1>5. JobFits(t)'
    <2>1. LoginFits(t)'
      BY <1>2, <1>4 DEF LoginFits
    <2>2. KindOf(j) \in Kinds /\ file[KindOf(j)].stamp \in Nat /\ now \in Nat
      BY <1>1, KindsOf, Files DEF TypeOK
    <2>3. QED
      BY <1>2, <1>3, <1>4, <2>1, <2>2 DEF JobFits
  <1>6. WritesFit' /\ Throttled'
    <2>1. Throttled /\ WritesFit
      BY DEF AuthInv
    <2>2. WritesFit'
      BY <1>1, <1>2, <1>3, <1>4, <2>1, WritesStay
    <2>3. QED
      BY <1>1, <1>2, <1>3, <1>4, <2>1, <2>2, GuessCounted
  <1>7. /\ failures' \in [many : Nat, last : Int] /\ failures'.last <= now /\ guesses' \in Nat
        /\ count' \in Counts /\ count'.logins = count.logins
    BY <1>3 DEF AuthInv, TypeOK, GroupFits
  <1>8. QED
    BY <1>1, <1>2, <1>3, <1>5, <1>6, <1>7, OneStep

LEMMA CheckPamStep ==
    ASSUME AuthAssumption, AuthInv, NEW t \in Threads, CheckPam(t) PROVE AuthInv'
  <1> DEFINE at == IF job[t].word = 1 /\ job[t].role # None THEN "passed" ELSE "failed"
             j == [job[t] EXCEPT !.at = at]
  <1>1. t \in Procs /\ TypeOK /\ JobFits(t)
    BY DEF AuthInv, Procs
  <1>2. /\ j \in Jobs /\ j.at = at /\ j.via = job[t].via /\ j.role = job[t].role /\ j.word = job[t].word
        /\ j.asked = job[t].asked /\ j.crossed = job[t].crossed /\ j.stamp = job[t].stamp
    <2>1. job[t] \in Jobs /\ at \in Places
      BY <1>1, Fields DEF Places
    <2>2. QED
      BY <2>1 DEF Jobs
  <1>3. /\ job' = [job EXCEPT ![t] = j] /\ job[t].at = "pam"
        /\ now' = now /\ file' = file /\ cache' = cache /\ group' = group /\ gave' = gave
        /\ sessions' = sessions /\ failures' = failures /\ used' = used /\ guesses' = guesses
        /\ overlap' = overlap /\ revoked' = revoked /\ count' = count
    BY DEF CheckPam, Is
  <1> HIDE DEF j
  <1>4. job'[t] = j /\ \A q \in Procs \ {t} : job'[q] = job[q]
    BY <1>1, <1>2, <1>3, OneMoves
  <1>5. JobFits(t)'
    <2>1. at = "passed" => LoginFits(t)'
      BY <1>1, <1>2, <1>3, <1>4 DEF LoginFits, JobFits
    <2>2. KindOf(j) = KindOf(job[t])
      BY <1>2 DEF KindOf
    <2>3. QED
      BY <1>1, <1>2, <1>3, <1>4, <2>1, <2>2 DEF JobFits
  <1>6. WritesFit' /\ Throttled'
    BY <1>1, <1>2, <1>3, <1>4, WritesStay, ThrottleStays DEF AuthInv
  <1>7. /\ failures' \in [many : Nat, last : Int] /\ failures'.last <= now /\ guesses' \in Nat
        /\ count' \in Counts /\ count'.logins = count.logins
    BY <1>3 DEF AuthInv, TypeOK, GroupFits
  <1>8. QED
    BY <1>1, <1>2, <1>3, <1>5, <1>6, <1>7, OneStep

LEMMA FailsStep ==
    ASSUME AuthAssumption, AuthInv, NEW t \in Threads, Fails(t) PROVE AuthInv'
  <1>1. t \in Procs /\ TypeOK /\ Idle \in Jobs
    BY IdleIs DEF AuthInv, Procs
  <1>2. /\ job' = [job EXCEPT ![t] = Idle] /\ job[t].at = "failed"
        /\ now' = now /\ file' = file /\ cache' = cache /\ group' = group /\ gave' = gave
        /\ sessions' = sessions /\ used' = used /\ guesses' = guesses
        /\ overlap' = overlap /\ revoked' = revoked /\ count' = count
        /\ failures' = [many |-> IF now - failures.last > Memory THEN 1 ELSE failures.many + 1, last |-> now]
    BY DEF Fails, Is
  <1>3. job'[t] = Idle /\ \A q \in Procs \ {t} : job'[q] = job[q]
    BY <1>1, <1>2, OneMoves
  <1>4. JobFits(t)'
    BY <1>1, <1>2, <1>3, IdleFits DEF TypeOK
  <1>5. WritesFit'
    BY <1>1, <1>2, <1>3, IdleIs, WritesStay DEF AuthInv
  <1>6. Throttled'
    <2>1. Throttled /\ failures.last <= now
      BY DEF AuthInv, GroupFits
    <2>2. QED
      BY <1>1, <1>2, <1>3, <2>1, IdleIs, FailureCounted
  <1>7. /\ failures' \in [many : Nat, last : Int] /\ failures'.last <= now /\ guesses' \in Nat
        /\ count' \in Counts /\ count'.logins = count.logins
    BY <1>2 DEF AuthInv, TypeOK
  <1>8. QED
    BY <1>1, <1>2, <1>4, <1>5, <1>6, <1>7, OneStep

LEMMA AnsweredStep ==
    ASSUME AuthAssumption, AuthInv, NEW t \in Threads, Answered(t) PROVE AuthInv'
  <1>1. t \in Procs /\ TypeOK /\ Idle \in Jobs
    BY IdleIs DEF AuthInv, Procs
  <1>2. /\ job' = [job EXCEPT ![t] = Idle] /\ job[t].at = "in"
        /\ now' = now /\ file' = file /\ cache' = cache /\ group' = group /\ gave' = gave
        /\ sessions' = sessions /\ used' = used /\ guesses' = guesses /\ failures' = failures
        /\ overlap' = overlap /\ revoked' = revoked /\ count' = count
    BY DEF Answered, Is
  <1>3. job'[t] = Idle /\ \A q \in Procs \ {t} : job'[q] = job[q]
    BY <1>1, <1>2, OneMoves
  <1>4. JobFits(t)'
    BY <1>1, <1>2, <1>3, IdleFits DEF TypeOK
  <1>5. WritesFit' /\ Throttled'
    BY <1>1, <1>2, <1>3, IdleIs, WritesStay, ThrottleStays DEF AuthInv
  <1>6. /\ failures' \in [many : Nat, last : Int] /\ failures'.last <= now /\ guesses' \in Nat
        /\ count' \in Counts /\ count'.logins = count.logins
    BY <1>2 DEF AuthInv, TypeOK, GroupFits
  <1>7. QED
    BY <1>1, <1>2, <1>4, <1>5, <1>6, OneStep

LEMMA PassesStep ==
    ASSUME AuthAssumption, AuthInv, NEW t \in Threads, Passes(t) PROVE AuthInv'
  <1> DEFINE at == IF job[t].via = "local" THEN "remember" ELSE "open"
             k == [job[t] EXCEPT !.asked = now, !.at = at]
             j == IF job[t].to = "confirm" THEN Idle ELSE k
  <1>1. t \in Procs /\ TypeOK /\ JobFits(t) /\ now \in Nat
    BY DEF AuthInv, Procs, TypeOK
  <1>2. /\ k \in Jobs /\ k.at = at /\ k.via = job[t].via /\ k.role = job[t].role /\ k.word = job[t].word
        /\ k.asked = now /\ k.crossed = job[t].crossed /\ k.stamp = job[t].stamp
    <2>1. job[t] \in Jobs /\ at \in Places
      BY <1>1, Fields DEF Places
    <2>2. QED
      BY <1>1, <2>1 DEF Jobs
  <1>3. /\ job' = [job EXCEPT ![t] = j] /\ job[t].at = "passed" /\ guesses' = 0
        /\ now' = now /\ file' = file /\ cache' = cache /\ group' = group /\ gave' = gave
        /\ sessions' = sessions /\ used' = used
        /\ overlap' = overlap /\ revoked' = revoked /\ count' = count
        /\ failures' = [many |-> 0, last |-> Never]
    BY DEF Passes, Is
  <1>4. j = Idle \/ j = k
    OBVIOUS
  <1> HIDE DEF j, k
  <1>5. j \in Jobs /\ j.at \in {"idle", "remember", "open"}
    BY <1>2, <1>4, IdleIs
  <1>6. job'[t] = j /\ \A q \in Procs \ {t} : job'[q] = job[q]
    BY <1>1, <1>5, <1>3, OneMoves
  <1>7. JobFits(t)'
    <2>1. ASSUME j = Idle PROVE JobFits(t)'
      BY <1>1, <1>3, <1>6, <2>1, IdleFits DEF TypeOK
    <2>2. ASSUME j = k PROVE JobFits(t)'
      <3>1. LoginFits(t)'
        BY <1>1, <1>2, <1>3, <1>6, <2>2 DEF LoginFits, JobFits
      <3>2. KindOf(j) = KindOf(job[t])
        BY <1>2, <2>2 DEF KindOf
      <3>3. QED
        BY <1>1, <1>2, <1>3, <1>6, <2>2, <3>1, <3>2 DEF JobFits
    <2>3. QED
      BY <1>4, <2>1, <2>2
  <1>8. WritesFit'
    BY <1>1, <1>3, <1>5, <1>6, WritesStay DEF AuthInv
  <1>9. failures' \in [many : Nat, last : Int] /\ failures'.last <= now /\ guesses' \in Nat
    BY <1>1, <1>3 DEF Never, AuthAssumption
  <1>10. Throttled'
    <2>1. Trying' \in SUBSET Threads /\ Cardinality(Trying') \in Nat /\ Cardinality(Threads) \in Nat
      BY FS_Subset, FS_CardinalityType DEF Trying, AuthAssumption
    <2>2. Limit \in Nat \ {0}
      BY DEF AuthAssumption
    <2>3. QED
      BY <1>3, <2>1, <2>2 DEF Throttled, ThrottleHolds
  <1>11. count' \in Counts /\ count'.logins = count.logins
    BY <1>3 DEF AuthInv, TypeOK
  <1>12. QED
    BY <1>1, <1>3, <1>5, <1>7, <1>8, <1>9, <1>10, <1>11, OneStep

LEMMA PresentStep ==
    ASSUME AuthAssumption, AuthInv, NEW t \in Threads, Present(t) PROVE AuthInv'
  <1> DEFINE i == [Idle EXCEPT !.at = "records", !.via = "token"]
  <1>1. t \in Procs /\ TypeOK
    BY DEF AuthInv, Procs
  <1>2. i \in Jobs /\ i.at = "records" /\ i.via = "token" /\ i.stamp = 0
    <2>1. "records" \in Places
      BY DEF Places
    <2>2. QED
      BY <2>1, IdleIs DEF Jobs
  <1>3. /\ Asks(t, i)
        /\ now' = now /\ file' = file /\ cache' = cache /\ group' = group /\ gave' = gave
        /\ sessions' = sessions /\ failures' = failures /\ used' = used /\ guesses' = guesses
        /\ overlap' = overlap /\ revoked' = revoked
    BY DEF Present
  <1> HIDE DEF i
  <1>4. PICK j \in Jobs :
              /\ job' = [job EXCEPT ![t] = j] /\ job[t].at = "idle"
              /\ j.at = i.at /\ j.via = i.via /\ j.stamp = i.stamp /\ j.asked = now
              /\ KindOf(j) = KindOf(i) /\ j.seen = {file[KindOf(i)].rec}
              /\ count' \in Counts /\ count'.logins = count.logins
    BY <1>1, <1>2, <1>3, AsksIs
  <1>5. job'[t] = j /\ \A q \in Procs \ {t} : job'[q] = job[q]
    BY <1>1, <1>4, OneMoves
  <1>6. JobFits(t)'
    <2>1. RecordsFit(t)'
      BY <1>2, <1>3, <1>4, <1>5 DEF RecordsFit
    <2>2. KindOf(j) \in Kinds /\ file[KindOf(j)].stamp \in Nat /\ now \in Nat
      BY <1>1, KindsOf, Files DEF TypeOK
    <2>3. QED
      BY <1>2, <1>3, <1>4, <1>5, <2>1, <2>2 DEF JobFits
  <1>7. WritesFit' /\ Throttled'
    BY <1>1, <1>2, <1>3, <1>4, <1>5, WritesStay, ThrottleStays DEF AuthInv
  <1>8. failures' \in [many : Nat, last : Int] /\ failures'.last <= now /\ guesses' \in Nat
    BY <1>3 DEF AuthInv, TypeOK, GroupFits
  <1>9. QED
    BY <1>1, <1>3, <1>4, <1>6, <1>7, <1>8, OneStep

\* A session that is dropped keeps what it was.
LEMMA DropIs ==
    ASSUME TypeOK, SessionsFit, NEW s \in 1 .. MaxLogins, s <= count.logins, sessions' = Drop(s),
           gave' = gave, count.logins \in Nat, count'.logins = count.logins
    PROVE  sessions' \in [1 .. MaxLogins -> {None} \cup Sessions] /\ SessionsFit' /\ SessionsStay
  <1> DEFINE x == [sessions[s] EXCEPT !.open = FALSE]
  <1>1. /\ sessions \in [1 .. MaxLogins -> {None} \cup Sessions] /\ sessions[s] \in Sessions
        /\ SessionFits(sessions[s])
    BY DEF TypeOK, SessionsFit
  <1>2. sessions' = [sessions EXCEPT ![s] = x]
    BY DEF Drop
  <1>3. /\ x \in Sessions /\ x.via = sessions[s].via /\ x.word = sessions[s].word
        /\ x.crossed = sessions[s].crossed /\ x.role = sessions[s].role
        /\ x.credential = sessions[s].credential /\ x.checked = sessions[s].checked
    BY <1>1 DEF Sessions
  <1> HIDE DEF x
  <1>4. sessions'[s] = x /\ \A r \in 1 .. MaxLogins : r # s => sessions'[r] = sessions[r]
    BY <1>1, <1>2
  <1>5. SessionFits(sessions[s])'
    BY <1>1, <1>3, <1>4 DEF SessionFits
  <1>6. \A r \in 1 .. MaxLogins : r # s /\ SessionFits(sessions[r]) => SessionFits(sessions[r])'
    BY <1>4 DEF SessionFits
  <1>7. SessionsFit'
    BY <1>1, <1>3, <1>4, <1>5, <1>6 DEF SessionsFit
  <1>8. QED
    BY <1>1, <1>2, <1>3, <1>4, <1>7 DEF SessionsStay

\* A session is dropped, by a request that does nothing else.
LEMMA DropStep ==
    ASSUME AuthAssumption, AuthInv, NEW t \in Threads, NEW s \in 1 .. MaxLogins, job[t].at = "idle",
           Count("asks", MaxAsks), Open(s), sessions' = Drop(s),
           job' = job, now' = now, file' = file, cache' = cache, group' = group, gave' = gave,
           failures' = failures, used' = used, guesses' = guesses, overlap' = overlap, revoked' = revoked
    PROVE  AuthInv'
  <1>1. t \in Procs /\ TypeOK /\ JobFits(t)
    BY DEF AuthInv, Procs
  <1>2. count' \in Counts /\ count'.logins = count.logins /\ count.logins \in Nat
    BY <1>1, CountIs
  <1>3. sessions' \in [1 .. MaxLogins -> {None} \cup Sessions] /\ SessionsFit' /\ SessionsStay
    <2>1. s <= count.logins /\ SessionsFit
      BY DEF Open, AuthInv, SessionsFit
    <2>2. QED
      BY <1>1, <1>2, <2>1, DropIs
  <1>4. /\ cache' \in [Kinds -> [stamp : Nat, rec : Records]] /\ CacheFits'
        /\ \A k \in Kinds : cache'[k].rec \in Recs(k)
    BY DEF AuthInv, TypeOK, CacheFits
  <1>5. JobFits(t)'
    BY <1>1, <1>2, <1>3, OthersFit
  <1>6. WritesFit' /\ Throttled'
    BY <1>1, WritesStay, ThrottleStays DEF AuthInv
  <1>7. failures' \in [many : Nat, last : Int] /\ failures'.last <= now /\ guesses' \in Nat /\ used' \in Int
    BY DEF AuthInv, TypeOK, GroupFits
  <1>8. job' \in [Procs -> Jobs]
    BY <1>1 DEF TypeOK
  <1>9. QED
    BY <1>1, <1>2, <1>3, <1>4, <1>5, <1>6, <1>7, <1>8, JobSteps

LEMMA LogoutStep ==
    ASSUME AuthAssumption, AuthInv, NEW t \in Threads, NEW s \in 1 .. MaxLogins, Logout(t, s) PROVE AuthInv'
  <1>1. /\ job[t].at = "idle" /\ Count("asks", MaxAsks) /\ sessions' = Drop(s) /\ Open(s)
        /\ job' = job /\ now' = now /\ file' = file /\ cache' = cache /\ group' = group /\ gave' = gave
        /\ failures' = failures /\ used' = used /\ guesses' = guesses /\ overlap' = overlap /\ revoked' = revoked
    BY DEF Logout, Is
  <1>2. QED
    BY <1>1, DropStep

LEMMA ComesStep ==
    ASSUME AuthAssumption, AuthInv, NEW t \in Threads, NEW s \in 1 .. MaxLogins, Comes(t, s) PROVE AuthInv'
  <1>1. /\ now' = now /\ file' = file /\ cache' = cache /\ group' = group /\ gave' = gave
        /\ failures' = failures /\ used' = used /\ guesses' = guesses /\ overlap' = overlap /\ revoked' = revoked
        /\ Open(s) /\ sessions[s] # None
    BY DEF Comes, Open
  <1>2. ASSUME sessions[s].ends <= now PROVE AuthInv'
    <2>1. /\ job[t].at = "idle" /\ Count("asks", MaxAsks) /\ sessions' = Drop(s)
          /\ job' = job /\ Open(s)
      BY <1>2 DEF Comes, Is
    <2>2. QED
      BY <1>1, <2>1, DropStep
  <1>3. ASSUME ~(sessions[s].ends <= now) PROVE AuthInv'
    <2> DEFINE at == IF sessions[s].via = "local" THEN "records" ELSE "role"
               i == [Idle EXCEPT !.via = sessions[s].via, !.s = s, !.at = at]
    <2>1. t \in Procs /\ TypeOK
      BY DEF AuthInv, Procs
    <2>2. sessions[s] \in Sessions /\ sessions[s].via \in {"local", "pam"} /\ s <= count.logins
      BY <1>1 DEF Sessions, AuthInv, SessionsFit
    <2>3. /\ i \in Jobs /\ i.at = at /\ i.via = sessions[s].via /\ i.stamp = 0 /\ i.s = s
      <3>1. at \in Places /\ sessions[s].via \in {None, "local", "pam", "token"}
            /\ s \in Nat
        BY <2>2 DEF Places
      <3> HIDE DEF at
      <3>2. QED
        BY <3>1, IdleIs DEF Jobs
    <2>4. Asks(t, i) /\ sessions' = sessions
      BY <1>3 DEF Comes
    <2> HIDE DEF i
    <2>5. PICK j \in Jobs :
              /\ job' = [job EXCEPT ![t] = j] /\ job[t].at = "idle"
              /\ j.at = i.at /\ j.via = i.via /\ j.stamp = i.stamp /\ j.asked = now
              /\ j.s = i.s
              /\ KindOf(j) = KindOf(i) /\ j.seen = {file[KindOf(i)].rec}
              /\ count' \in Counts /\ count'.logins = count.logins
      BY <2>1, <2>3, <2>4, AsksIs
    <2>6. job'[t] = j /\ \A q \in Procs \ {t} : job'[q] = job[q]
      BY <2>1, <2>5, OneMoves
    <2>7. JobFits(t)'
      <3>1. RecordsFit(t)'
        BY <1>1, <2>3, <2>5, <2>6 DEF RecordsFit
      <3>2. ComesFit(t)'
        BY <1>1, <2>2, <2>3, <2>4, <2>5, <2>6 DEF ComesFit
      <3>3. KindOf(j) \in Kinds /\ file[KindOf(j)].stamp \in Nat /\ now \in Nat
        BY <2>1, KindsOf, Files DEF TypeOK
      <3>4. QED
        BY <1>1, <2>2, <2>3, <2>5, <2>6, <3>1, <3>2, <3>3 DEF JobFits
    <2>8. WritesFit' /\ Throttled'
      BY <1>1, <2>1, <2>3, <2>4, <2>5, <2>6, WritesStay, ThrottleStays DEF AuthInv
    <2>9. failures' \in [many : Nat, last : Int] /\ failures'.last <= now /\ guesses' \in Nat
      BY <1>1 DEF AuthInv, TypeOK, GroupFits
    <2>10. QED
      BY <1>1, <2>1, <2>4, <2>5, <2>7, <2>8, <2>9, OneStep
  <1>4. QED
    BY <1>2, <1>3

-----------------------------------------------------------------------------
\* Somebody begins to change what an account is.
LEMMA ChangeStep ==
    ASSUME AuthAssumption, AuthInv, NEW p \in Procs, NEW i \in Jobs, i.at \in {"change", "find"},
           i.stamp = 0, i.asked = 0,
           \/ i.via = "token" /\ i.to = "revoke"
           \/ i.via = "local" /\ i.to \in {"set", "adopt", "remove"} /\ i.at = "change"
              /\ (i.to = "adopt" => i.role # None),
           Change(p, i)
    PROVE  AuthInv'
  <1>1. TypeOK
    BY DEF AuthInv
  <1>2. job[p].at = "idle" /\ Count("changes", MaxChanges)
    BY DEF Change, Is
  <1>3. count' \in Counts /\ count'.logins = count.logins
    BY <1>1, <1>2, CountIs
  <1>4. /\ job' = [job EXCEPT ![p] = i]
        /\ now' = now /\ file' = file /\ cache' = cache /\ group' = group /\ gave' = gave
        /\ sessions' = sessions /\ failures' = failures /\ used' = used /\ guesses' = guesses
        /\ overlap' = overlap /\ revoked' = revoked
    BY DEF Change
  <1>5. job'[p] = i /\ \A q \in Procs \ {p} : job'[q] = job[q]
    BY <1>1, <1>4, OneMoves
  <1>6. JobFits(p)'
    <2>1. i.at = "change" => ChangeFits(p)'
      BY <1>5 DEF ChangeFits
    <2>2. KindOf(i) \in Kinds /\ file[KindOf(i)].stamp \in Nat /\ now \in Nat
      BY <1>1, KindsOf, Files DEF TypeOK
    <2>3. QED
      BY <1>4, <1>5, <2>1, <2>2 DEF JobFits
  <1>7. WritesFit' /\ Throttled'
    BY <1>1, <1>2, <1>4, <1>5, WritesStay, ThrottleStays DEF AuthInv
  <1>8. failures' \in [many : Nat, last : Int] /\ failures'.last <= now /\ guesses' \in Nat
    BY <1>4 DEF AuthInv, TypeOK, GroupFits
  <1>9. QED
    BY <1>3, <1>4, <1>6, <1>7, <1>8, OneStep

LEMMA NewIs == ASSUME TypeOK PROVE New \in Nat
  BY DEF TypeOK, Counts, New

LEMMA SetUserStep ==
    ASSUME AuthAssumption, AuthInv, NEW p \in Procs, NEW word \in {0, New}, NEW role \in Roles \cup {None},
           SetUser(p, word, role)
    PROVE  AuthInv'
  <1> DEFINE i == [Idle EXCEPT !.at = "change", !.via = "local", !.to = "set", !.word = word, !.role = role]
  <1>1. word \in Nat /\ "change" \in Places /\ "set" \in Errands
    BY NewIs DEF AuthInv, Places, Errands
  <1>2. i \in Jobs /\ i.at = "change" /\ i.via = "local" /\ i.to = "set" /\ i.stamp = 0 /\ i.asked = 0
    BY <1>1, IdleIs DEF Jobs
  <1>3. Change(p, i)
    BY DEF SetUser
  <1> HIDE DEF i
  <1>4. QED
    BY <1>2, <1>3, ChangeStep

LEMMA RemoveUserStep ==
    ASSUME AuthAssumption, AuthInv, NEW p \in Procs, RemoveUser(p) PROVE AuthInv'
  <1> DEFINE i == [Idle EXCEPT !.at = "change", !.via = "local", !.to = "remove"]
  <1>1. "change" \in Places /\ "remove" \in Errands
    BY DEF Places, Errands
  <1>2. i \in Jobs /\ i.at = "change" /\ i.via = "local" /\ i.to = "remove" /\ i.stamp = 0 /\ i.asked = 0
    BY <1>1, IdleIs DEF Jobs
  <1>3. Change(p, i)
    BY DEF RemoveUser
  <1> HIDE DEF i
  <1>4. QED
    BY <1>2, <1>3, ChangeStep

LEMMA AdoptUserStep ==
    ASSUME AuthAssumption, AuthInv, NEW t \in Threads, NEW role \in Roles, AdoptUser(t, New, role)
    PROVE  AuthInv'
  <1> DEFINE i == [Idle EXCEPT !.at = "change", !.via = "local", !.to = "adopt", !.word = New, !.role = role]
  <1>1. New \in Nat /\ "change" \in Places /\ "adopt" \in Errands
    BY NewIs DEF AuthInv, Places, Errands
  <1>2. /\ i \in Jobs /\ i.at = "change" /\ i.via = "local" /\ i.to = "adopt" /\ i.stamp = 0
        /\ i.asked = 0 /\ i.role = role
    BY <1>1, IdleIs DEF Jobs
  <1>3. Change(t, i) /\ t \in Procs /\ role # None
    BY DEF AdoptUser, Procs, Roles, AuthAssumption
  <1> HIDE DEF i
  <1>4. QED
    BY <1>2, <1>3, ChangeStep

LEMMA RevokeTokenStep ==
    ASSUME AuthAssumption, AuthInv, NEW p \in Procs, RevokeToken(p) PROVE AuthInv'
  <1> DEFINE at == IF p = Cli THEN "change" ELSE "find"
             i == [Idle EXCEPT !.at = at, !.via = "token", !.to = "revoke"]
  <1>1. at \in Places /\ at \in {"change", "find"} /\ "revoke" \in Errands
    BY DEF Places, Errands
  <1>2. Change(p, i)
    BY DEF RevokeToken
  <1> HIDE DEF at
  <1>3. i \in Jobs /\ i.at = at /\ i.via = "token" /\ i.to = "revoke" /\ i.stamp = 0 /\ i.asked = 0
    BY <1>1, IdleIs DEF Jobs
  <1> HIDE DEF i
  <1>4. QED
    BY <1>1, <1>2, <1>3, ChangeStep

LEMMA UpdateReadsStep ==
    ASSUME AuthAssumption, AuthInv, NEW p \in Procs, UpdateReads(p) PROVE AuthInv'
  <1> DEFINE kind == KindOf(job[p])
             j == [job[p] EXCEPT !.at = "write", !.read = file[kind].rec]
  <1>1. TypeOK /\ JobFits(p) /\ kind \in Kinds
    BY KindsOf DEF AuthInv
  <1>2. /\ j \in Jobs /\ j.at = "write" /\ j.via = job[p].via /\ j.to = job[p].to /\ j.stamp = job[p].stamp
        /\ j.asked = job[p].asked /\ j.read = file[kind].rec /\ j.role = job[p].role /\ j.seen = job[p].seen
    <2>1. job[p] \in Jobs /\ "write" \in Places /\ file[kind].rec \in Records
      BY <1>1, Fields, Files DEF Places
    <2> HIDE DEF kind, Records, Places
    <2>2. QED
      BY <2>1 DEF Jobs
  <1>3. /\ job[p].at = "change" /\ job' = [job EXCEPT ![p].at = "write", ![p].read = file[kind].rec]
        /\ overlap' = (overlap \/ \E q \in Procs :
                                      job[q].at = "write" /\ KindOf(job[q]) = kind /\ kind = "tokens")
        /\ now' = now /\ file' = file /\ cache' = cache /\ group' = group /\ gave' = gave
        /\ sessions' = sessions /\ failures' = failures /\ used' = used /\ guesses' = guesses
        /\ revoked' = revoked /\ count' = count
    BY DEF UpdateReads, Is
  <1>4. job' = [job EXCEPT ![p] = j]
    <2>1. job \in [Procs -> Jobs]
      BY <1>1 DEF TypeOK
    <2>2. QED
      BY <1>3, <2>1
  <1>5. KindOf(j) = kind
    BY <1>2 DEF KindOf
  <1> HIDE DEF j
  <1>6. job'[p] = j /\ \A q \in Procs \ {p} : job'[q] = job[q]
    BY <1>1, <1>2, <1>4, OneMoves
  <1>7. JobFits(p)'
    <2>1. file[kind].rec \in Recs(kind)
      BY <1>1, Files
    <2>2. ChangeFits(p)'
      <3> HIDE DEF kind
      <3>1. ChangeFits(p)
        BY <1>1, <1>3 DEF JobFits
      <3>2. TokenFits(p) => TokenFits(p)'
        BY <1>2, <1>6 DEF TokenFits
      <3>3. QED
        BY <1>2, <1>5, <1>6, <2>1, <3>1, <3>2 DEF ChangeFits
    <2>3. QED
      BY <1>1, <1>2, <1>3, <1>5, <1>6, <2>2 DEF JobFits
  <1>8. WritesFit'
    <2> SUFFICES ASSUME ~overlap' PROVE WritesFit'
      BY DEF WritesFit
    <2>1. ~overlap /\ (kind = "tokens" => \A q \in Procs : job[q].at = "write" => KindOf(job[q]) # kind)
      BY <1>3
    <2>2. \A q \in Procs : KindOf(job[q]) = "tokens" <=> job[q].via = "token"
      BY DEF KindOf
    <2>3. kind = "tokens" <=> j.via = "token"
      BY <1>2, <2>2
    <2>4. \A q \in Procs : job[q].at = "write" /\ job[q].via = "token" /\ j.via = "token" => FALSE
      BY <2>1, <2>2, <2>3
    <2> HIDE DEF kind
    <2>5. /\ \A q, r \in Procs : job[q].at = "write" /\ job[r].at = "write" /\ job[q].via = "token"
                                  /\ job[r].via = "token" => q = r
          /\ \A q \in Procs : job[q].at = "write" /\ job[q].via = "token" => job[q].read = file.tokens.rec
          /\ revoked => file.tokens.rec = None
      BY <2>1 DEF AuthInv, WritesFit, Is
    <2>6. j.via = "token" => j.read = file.tokens.rec
      BY <1>2, <2>3
    <2>7. \A q, r \in Procs : job'[q].at = "write" /\ job'[r].at = "write" /\ job'[q].via = "token"
                              /\ job'[r].via = "token" => q = r
      BY <1>6, <2>4, <2>5
    <2>8. \A q \in Procs : job'[q].at = "write" /\ job'[q].via = "token" => job'[q].read = file.tokens.rec
      BY <1>6, <2>5, <2>6
    <2>9. QED
      BY <1>3, <2>5, <2>7, <2>8 DEF WritesFit, Is
  <1>9. Throttled'
    BY <1>1, <1>2, <1>3, <1>6, ThrottleStays DEF AuthInv
  <1>10. /\ failures' \in [many : Nat, last : Int] /\ failures'.last <= now /\ guesses' \in Nat
         /\ count' \in Counts /\ count'.logins = count.logins
    BY <1>3 DEF AuthInv, TypeOK, GroupFits
  <1>11. overlap' = overlap \/ overlap' = TRUE
    BY <1>1, <1>3 DEF TypeOK
  <1>12. QED
    BY <1>2, <1>3, <1>4, <1>7, <1>8, <1>9, <1>10, <1>11, OneStep

-----------------------------------------------------------------------------
\* What a job reads of its file: what the file says, or what it said under the stamp
\* the job took.
LEMMA ReadsIs ==
    ASSUME AuthInv, NEW t \in Procs, NEW at, Reads(t, at), file' = file
    PROVE  /\ job[t].at = at /\ job[t].stamp # 0 /\ Kept(t) \in Recs(KindOf(job[t]))
           /\ cache' \in [Kinds -> [stamp : Nat, rec : Records]] /\ CacheFits'
           /\ \A k \in Kinds : cache'[k].rec \in Recs(k)
           /\ \A k \in Kinds : \/ cache'[k].rec = file[k].rec
                               \/ cache'[k].stamp = cache[k].stamp /\ cache'[k].rec = cache[k].rec
           /\ job[t].stamp = file[KindOf(job[t])].stamp => Kept(t) = file[KindOf(job[t])].rec
           /\ at = "records" => Kept(t) \in job[t].seen
  <1> DEFINE k == KindOf(job[t])
             c == [stamp |-> job[t].stamp, rec |-> Kept(t)]
  <1>1. TypeOK /\ CacheFits /\ JobFits(t) /\ k \in Kinds
    BY KindsOf DEF AuthInv
  <1>2. job[t].at = at /\ job[t].stamp # 0 /\ cache' = [cache EXCEPT ![k] = c]
    BY DEF Reads, Is
  <1>3. Kept(t) = IF cache[k].stamp = job[t].stamp THEN cache[k].rec ELSE file[k].rec
    BY DEF Kept
  <1> HIDE DEF k
  <1>4. Kept(t) \in Recs(k) /\ Kept(t) \in Records /\ job[t].stamp \in Nat
    BY <1>1, <1>3, Files, Fields
  <1>5. /\ c \in [stamp : Nat, rec : Records] /\ c.stamp = job[t].stamp /\ c.rec = Kept(t)
    BY <1>4
  <1> HIDE DEF c
  <1>6. /\ cache' \in [Kinds -> [stamp : Nat, rec : Records]]
        /\ cache'[k] = c /\ \A i \in Kinds : i # k => cache'[i] = cache[i]
    <2>1. cache \in [Kinds -> [stamp : Nat, rec : Records]]
      BY <1>1 DEF TypeOK
    <2>2. QED
      BY <1>1, <1>2, <1>5, <2>1
  <1>7. \A i \in Kinds : cache'[i].rec \in Recs(i)
    BY <1>1, <1>4, <1>5, <1>6, Files
  <1>8. \A i \in Kinds : \/ cache'[i].rec = file[i].rec
                         \/ cache'[i].stamp = cache[i].stamp /\ cache'[i].rec = cache[i].rec
    <2>1. cache'[k].stamp = job[t].stamp /\ cache'[k].rec = Kept(t)
      BY <1>5, <1>6
    <2>2. cache'[k].rec = file[k].rec \/ (cache'[k].stamp = cache[k].stamp /\ cache'[k].rec = cache[k].rec)
      BY <1>3, <2>1
    <2>3. ASSUME NEW i \in Kinds, i # k
          PROVE  cache'[i].stamp = cache[i].stamp /\ cache'[i].rec = cache[i].rec
      BY <1>6, <2>3
    <2>4. QED
      BY <2>2, <2>3
  <1>9. /\ job[t].stamp <= file[k].stamp
        /\ at = "records" => /\ file[k].rec \in job[t].seen
                             /\ cache[k].stamp = job[t].stamp => cache[k].rec \in job[t].seen
    BY <1>1, <1>2 DEF JobFits, RecordsFit, k
  <1>10. job[t].stamp = file[k].stamp => Kept(t) = file[k].rec
    BY <1>1, <1>3 DEF CacheFits
  <1>11. CacheFits'
    BY <1>1, <1>5, <1>6, <1>9, <1>10 DEF CacheFits
  <1>12. at = "records" => Kept(t) \in job[t].seen
    BY <1>3, <1>9
  <1>13. QED
    BY <1>2, <1>4, <1>6, <1>7, <1>8, <1>10, <1>11, <1>12 DEF k

\* One that reads its file, and leaves the sessions alone.
LEMMA ReadStep ==
    ASSUME AuthInv, NEW t \in Procs, NEW at, Reads(t, at), NEW j \in Jobs, job' = [job EXCEPT ![t] = j],
           now' = now, file' = file, group' = group, gave' = gave, sessions' = sessions,
           failures' = failures, guesses' = guesses, used' = used, overlap' = overlap, revoked' = revoked,
           count' = count, job[t].at \notin {"check", "pam", "passed", "failed"},
           j.at \notin {"check", "pam", "passed", "failed", "write"}, JobFits(t)'
    PROVE  AuthInv'
  <1>1. TypeOK
    BY DEF AuthInv
  <1>2. job' \in [Procs -> Jobs] /\ job'[t] = j /\ \A q \in Procs \ {t} : job'[q] = job[q]
    BY <1>1, OneMoves
  <1>3. /\ cache' \in [Kinds -> [stamp : Nat, rec : Records]] /\ CacheFits'
        /\ \A k \in Kinds : cache'[k].rec \in Recs(k)
        /\ \A k \in Kinds : \/ cache'[k].rec = file[k].rec
                            \/ cache'[k].stamp = cache[k].stamp /\ cache'[k].rec = cache[k].rec
    BY ReadsIs
  <1>4. sessions' \in [1 .. MaxLogins -> {None} \cup Sessions] /\ SessionsFit' /\ SessionsStay
    BY SessionsSame DEF AuthInv
  <1>5. WritesFit' /\ Throttled'
    BY <1>1, <1>2, WritesStay, ThrottleStays DEF AuthInv
  <1>6. /\ failures' \in [many : Nat, last : Int] /\ failures'.last <= now /\ guesses' \in Nat
        /\ count' \in Counts /\ used' \in Int
    BY DEF AuthInv, TypeOK, GroupFits
  <1>7. QED
    BY <1>2, <1>3, <1>4, <1>5, <1>6, JobSteps

LEMMA FindTokenStep ==
    ASSUME AuthAssumption, AuthInv, NEW t \in Threads, FindToken(t) PROVE AuthInv'
  <1> DEFINE found == [job[t] EXCEPT !.at = "change"]
             j == IF Kept(t) = None THEN Idle ELSE found
  <1>1. t \in Procs /\ TypeOK /\ JobFits(t)
    BY DEF AuthInv, Procs
  <1>2. /\ Reads(t, "find") /\ job[t].at = "find" /\ job' = [job EXCEPT ![t] = j]
        /\ now' = now /\ file' = file /\ group' = group /\ gave' = gave
        /\ sessions' = sessions /\ failures' = failures /\ used' = used /\ guesses' = guesses
        /\ overlap' = overlap /\ revoked' = revoked /\ count' = count
    BY DEF FindToken, Reads, Is
  <1>3. /\ found \in Jobs /\ found.at = "change" /\ found.via = job[t].via /\ found.to = job[t].to
        /\ found.asked = job[t].asked /\ found.stamp = job[t].stamp /\ KindOf(found) = KindOf(job[t])
    <2>1. job[t] \in Jobs /\ "change" \in Places
      BY <1>1, Fields DEF Places
    <2> HIDE DEF Places
    <2>2. QED
      BY <2>1 DEF Jobs, KindOf
  <1>4. j = Idle \/ j = found
    OBVIOUS
  <1> HIDE DEF j, found
  <1>5. j \in Jobs /\ j.at \in {"idle", "change"}
    BY <1>3, <1>4, IdleIs
  <1>6. job'[t] = j
    BY <1>1, <1>2, <1>5, OneMoves
  <1>7. JobFits(t)'
    <2>1. ASSUME j = Idle PROVE JobFits(t)'
      BY <1>1, <1>2, <1>6, <2>1, IdleFits DEF TypeOK
    <2>2. ASSUME j = found PROVE JobFits(t)'
      <3>1. ChangeFits(t)'
        BY <1>1, <1>2, <1>3, <1>6, <2>2 DEF JobFits, ChangeFits
      <3>2. QED
        BY <1>1, <1>2, <1>3, <1>6, <2>2, <3>1 DEF JobFits
    <2>3. QED
      BY <1>4, <2>1, <2>2
  <1>8. QED
    BY <1>1, <1>2, <1>5, <1>7, ReadStep

LEMMA RereadsStep ==
    ASSUME AuthAssumption, AuthInv, NEW t \in Threads, Rereads(t) PROVE AuthInv'
  <1>1. t \in Procs /\ TypeOK
    BY DEF AuthInv, Procs
  <1>2. /\ Reads(t, "reread") /\ job[t].at = "reread" /\ job' = [job EXCEPT ![t] = Idle]
        /\ now' = now /\ file' = file /\ group' = group /\ gave' = gave
        /\ sessions' = sessions /\ failures' = failures /\ used' = used /\ guesses' = guesses
        /\ overlap' = overlap /\ revoked' = revoked /\ count' = count
    BY DEF Rereads, Reads, Is
  <1>3. job'[t] = Idle
    BY <1>1, <1>2, IdleIs, OneMoves
  <1>4. JobFits(t)'
    BY <1>1, <1>2, <1>3, IdleFits DEF TypeOK
  <1>5. QED
    BY <1>1, <1>2, <1>4, IdleIs, ReadStep

LEMMA ForgetsStep ==
    ASSUME AuthAssumption, AuthInv, NEW t \in Threads, Forgets(t) PROVE AuthInv'
  <1>1. t \in Procs /\ TypeOK /\ Idle \in Jobs /\ Never \in Int
    BY IdleIs DEF AuthInv, Procs, Never, AuthAssumption
  <1>2. /\ job' = [job EXCEPT ![t] = Idle] /\ job[t].at = "forget" /\ used' = Never
        /\ now' = now /\ file' = file /\ cache' = cache /\ group' = group /\ gave' = gave
        /\ sessions' = sessions /\ guesses' = guesses /\ failures' = failures
        /\ overlap' = overlap /\ revoked' = revoked /\ count' = count
    BY DEF Forgets, Is
  <1>3. job' \in [Procs -> Jobs] /\ job'[t] = Idle /\ \A q \in Procs \ {t} : job'[q] = job[q]
    BY <1>1, <1>2, OneMoves
  <1>4. JobFits(t)'
    BY <1>1, <1>2, <1>3, IdleFits DEF TypeOK
  <1>5. WritesFit' /\ Throttled'
    BY <1>1, <1>2, <1>3, IdleIs, WritesStay, ThrottleStays DEF AuthInv
  <1>6. /\ failures' \in [many : Nat, last : Int] /\ failures'.last <= now /\ guesses' \in Nat
        /\ count' \in Counts /\ used' \in Int
    BY <1>1, <1>2 DEF AuthInv, TypeOK, GroupFits
  <1>7. /\ cache' \in [Kinds -> [stamp : Nat, rec : Records]] /\ CacheFits'
        /\ \A k \in Kinds : cache'[k].rec \in Recs(k)
        /\ \A k \in Kinds : \/ cache'[k].rec = file[k].rec
                            \/ cache'[k].stamp = cache[k].stamp /\ cache'[k].rec = cache[k].rec
    BY <1>2 DEF AuthInv, TypeOK, CacheFits
  <1>8. sessions' \in [1 .. MaxLogins -> {None} \cup Sessions] /\ SessionsFit' /\ SessionsStay
    BY <1>2, SessionsSame DEF AuthInv
  <1>9. QED
    BY <1>1, <1>2, <1>3, <1>4, <1>5, <1>6, <1>7, <1>8, JobSteps

LEMMA CheckLocalStep ==
    ASSUME AuthAssumption, AuthInv, NEW t \in Threads, CheckLocal(t) PROVE AuthInv'
  <1> DEFINE rec == Kept(t)
             right == rec # None /\ rec.word = job[t].word
             at == IF right THEN "passed" ELSE "pam"
             via == IF right THEN "local" ELSE "pam"
             role == IF right THEN rec.role ELSE group
             j == [job[t] EXCEPT !.stamp = 0, !.at = at, !.via = via, !.role = role]
  <1>1. t \in Procs /\ TypeOK /\ JobFits(t)
    BY DEF AuthInv, Procs
  <1>2. /\ Reads(t, "check") /\ job' = [job EXCEPT ![t] = j]
        /\ now' = now /\ file' = file /\ group' = group /\ gave' = gave
        /\ sessions' = sessions /\ failures' = failures /\ used' = used /\ guesses' = guesses
        /\ overlap' = overlap /\ revoked' = revoked /\ count' = count
    BY DEF CheckLocal
  <1>3. job[t].at = "check" /\ job[t].via = None /\ KindOf(job[t]) = "users"
    BY <1>1, <1>2 DEF JobFits, LoginFits, Reads, Is, KindOf, AuthAssumption
  <1>4. /\ cache' \in [Kinds -> [stamp : Nat, rec : Records]] /\ CacheFits'
        /\ \A k \in Kinds : cache'[k].rec \in Recs(k)
        /\ \A k \in Kinds : \/ cache'[k].rec = file[k].rec
                            \/ cache'[k].stamp = cache[k].stamp /\ cache'[k].rec = cache[k].rec
    BY <1>1, <1>2, ReadsIs
  <1>5. /\ job[t].stamp # 0 /\ rec \in {None} \cup Users
        /\ job[t].stamp = file.users.stamp => rec = file.users.rec
    BY <1>1, <1>2, <1>3, ReadsIs DEF Recs
  <1>6. right => rec.role \in Roles /\ rec.role # None
    BY <1>5 DEF Users, Roles, AuthAssumption
  <1>7. /\ j \in Jobs /\ j.at = at /\ j.via = via /\ j.role = role /\ j.stamp = 0 /\ j.word = job[t].word
        /\ j.asked = job[t].asked /\ j.crossed = job[t].crossed
    <2>1. job[t] \in Jobs /\ at \in Places /\ via \in {None, "local", "pam", "token"}
          /\ role \in Roles \cup {None}
      BY <1>1, <1>6, Fields DEF Places, TypeOK
    <2> HIDE DEF at, via, role
    <2>2. QED
      BY <2>1 DEF Jobs
  <1> HIDE DEF j
  <1>8. job' \in [Procs -> Jobs] /\ job'[t] = j /\ \A q \in Procs \ {t} : job'[q] = job[q]
    BY <1>1, <1>2, <1>7, OneMoves
  <1>9. JobFits(t)'
    <2>1. ~job[t].crossed => job[t].stamp = file.users.stamp
      BY <1>1, <1>3, <1>5 DEF JobFits, LoginFits
    <2>2. right /\ ~job[t].crossed => file.users.rec # None /\ file.users.rec.word = job[t].word
      BY <1>5, <2>1
    <2> HIDE DEF rec
    <2>3. LoginFits(t)'
      BY <1>2, <1>6, <1>7, <1>8, <2>2 DEF LoginFits
    <2>4. KindOf(j) \in Kinds /\ file[KindOf(j)].stamp \in Nat
      BY <1>1, KindsOf, Files
    <2>5. QED
      BY <1>1, <1>2, <1>7, <1>8, <2>3, <2>4 DEF JobFits
  <1>10. WritesFit' /\ Throttled'
    BY <1>1, <1>2, <1>3, <1>7, <1>8, WritesStay, ThrottleStays DEF AuthInv
  <1>11. /\ failures' \in [many : Nat, last : Int] /\ failures'.last <= now /\ guesses' \in Nat
         /\ count' \in Counts /\ used' \in Int
    BY <1>2 DEF AuthInv, TypeOK, GroupFits, Counts
  <1>12. sessions' \in [1 .. MaxLogins -> {None} \cup Sessions] /\ SessionsFit' /\ SessionsStay
    BY <1>2, SessionsSame DEF AuthInv
  <1>13. QED
    BY <1>1, <1>2, <1>4, <1>8, <1>9, <1>10, <1>11, <1>12, JobSteps

\* A session that is opened with what fits it.
LEMMA OpenedFits ==
    ASSUME AuthAssumption, AuthInv, NEW t \in Threads, NEW credential \in Nat, Opened(t, credential),
           job[t].via \in {"local", "pam"}, job[t].role \in Roles,
           job[t].at \notin {"check", "pam", "passed", "failed"},
           job[t].crossed \/ (IF job[t].via = "local" THEN credential = job[t].word
                              ELSE gave[job[t].role] >= job[t].asked),
           cache' \in [Kinds -> [stamp : Nat, rec : Records]], CacheFits',
           \A k \in Kinds : cache'[k].rec \in Recs(k),
           \A k \in Kinds : \/ cache'[k].rec = file[k].rec
                            \/ cache'[k].stamp = cache[k].stamp /\ cache'[k].rec = cache[k].rec
    PROVE  AuthInv'
  <1> DEFINE n == count.logins + 1
             session == [via |-> job[t].via, role |-> job[t].role, credential |-> credential,
                         ends |-> job[t].asked + Lifetime, checked |-> job[t].asked, open |-> TRUE,
                         word |-> job[t].word, crossed |-> job[t].crossed]
             dropped(s) == [sessions[s] EXCEPT !.open = FALSE]
  <1>1. t \in Procs /\ TypeOK /\ SessionsFit /\ Lifetime \in Nat /\ Idle \in Jobs
    BY IdleIs DEF AuthInv, Procs, AuthAssumption
  <1>2. /\ Count("logins", MaxLogins) /\ job' = [job EXCEPT ![t] = Idle]
        /\ now' = now /\ file' = file /\ group' = group /\ gave' = gave
        /\ failures' = failures /\ used' = used /\ guesses' = guesses
        /\ overlap' = overlap /\ revoked' = revoked
        /\ sessions' = [s \in 1 .. MaxLogins |->
               IF s = n THEN session
               ELSE IF sessions[s] # None /\ sessions[s].ends <= job[t].asked THEN dropped(s) ELSE sessions[s]]
    BY DEF Opened
  <1>3. count' \in Counts /\ count'.logins = n /\ count.logins \in Nat
    BY <1>1, <1>2, CountIs
  <1>4. /\ session \in Sessions /\ session.via = job[t].via /\ session.role = job[t].role
        /\ session.credential = credential /\ session.checked = job[t].asked
        /\ session.word = job[t].word /\ session.crossed = job[t].crossed
    <2>1. job[t].asked \in Nat /\ job[t].word \in Nat /\ job[t].crossed \in BOOLEAN
      BY <1>1, Fields
    <2>2. job[t].asked + Lifetime \in Int
      BY <1>1, <2>1
    <2>3. QED
      BY <2>1, <2>2 DEF Sessions
  <1>5. SessionFits(session)
    BY <1>4 DEF SessionFits
  <1> HIDE DEF session
  <1>6. ASSUME NEW s \in 1 .. MaxLogins, s # n, s <= count.logins
        PROVE  /\ sessions'[s] \in Sessions /\ SessionFits(sessions[s])'
               /\ sessions'[s].via = sessions[s].via /\ sessions'[s].word = sessions[s].word
               /\ sessions'[s].crossed = sessions[s].crossed
    <2>1. sessions[s] \in Sessions /\ SessionFits(sessions[s])
      BY <1>1, <1>6 DEF SessionsFit
    <2>2. /\ dropped(s) \in Sessions /\ dropped(s).via = sessions[s].via /\ dropped(s).word = sessions[s].word
          /\ dropped(s).crossed = sessions[s].crossed /\ dropped(s).role = sessions[s].role
          /\ dropped(s).credential = sessions[s].credential /\ dropped(s).checked = sessions[s].checked
      BY <2>1 DEF Sessions
    <2>3. sessions'[s] = dropped(s) \/ sessions'[s] = sessions[s]
      BY <1>2, <1>6
    <2> HIDE DEF dropped
    <2>4. QED
      BY <1>2, <2>1, <2>2, <2>3 DEF SessionFits
  <1>7. ASSUME NEW s \in 1 .. MaxLogins, s # n, ~(s <= count.logins)
        PROVE  sessions'[s] = None
    <2>1. sessions[s] = None
      BY <1>1, <1>7 DEF SessionsFit
    <2>2. QED
      BY <1>2, <1>7, <2>1
  <1>8. \A s \in 1 .. MaxLogins : s = n => sessions'[s] = session /\ SessionFits(sessions[s])'
    BY <1>2, <1>5 DEF SessionFits
  <1> HIDE DEF n, dropped
  <1>9. /\ sessions' \in [1 .. MaxLogins -> {None} \cup Sessions] /\ SessionsFit' /\ SessionsStay
    <2>1. \A s \in 1 .. MaxLogins : sessions'[s] \in {None} \cup Sessions
      BY <1>4, <1>6, <1>7, <1>8
    <2>2. sessions' = [s \in 1 .. MaxLogins |-> sessions'[s]]
      BY <1>2
    <2>3. sessions' \in [1 .. MaxLogins -> {None} \cup Sessions]
      BY <2>1, <2>2
    <2>4. SessionsFit'
      <3> SUFFICES ASSUME NEW s \in 1 .. MaxLogins
                   PROVE  IF s <= count'.logins THEN sessions'[s] \in Sessions /\ SessionFits(sessions[s])'
                          ELSE sessions'[s] = None
        BY DEF SessionsFit
      <3>1. CASE s = n
        BY <1>3, <1>4, <1>8, <3>1 DEF n
      <3>2. CASE s # n /\ s <= count.logins
        BY <1>3, <1>6, <3>2 DEF n
      <3>3. CASE s # n /\ ~(s <= count.logins)
        BY <1>3, <1>7, <3>3 DEF n
      <3>4. QED
        BY <3>1, <3>2, <3>3
    <2>5. SessionsStay
      <3>1. \A s \in 1 .. MaxLogins : s <= count.logins => s # n
        BY <1>3 DEF n
      <3>2. QED
        BY <1>3, <1>6, <3>1 DEF SessionsStay, n
    <2>6. QED
      BY <2>3, <2>4, <2>5
  <1>10. job' \in [Procs -> Jobs] /\ job'[t] = Idle /\ \A q \in Procs \ {t} : job'[q] = job[q]
    BY <1>1, <1>2, OneMoves
  <1>11. JobFits(t)'
    BY <1>1, <1>2, <1>10, IdleFits DEF TypeOK
  <1>12. WritesFit' /\ Throttled'
    BY <1>1, <1>2, <1>10, IdleIs, WritesStay, ThrottleStays DEF AuthInv
  <1>13. /\ failures' \in [many : Nat, last : Int] /\ failures'.last <= now /\ guesses' \in Nat
         /\ used' \in Int
    BY <1>2, <1>3 DEF AuthInv, TypeOK, GroupFits
  <1>14. QED
    BY <1>1, <1>2, <1>3, <1>9, <1>10, <1>11, <1>12, <1>13, JobSteps

LEMMA OpenLocalStep ==
    ASSUME AuthAssumption, AuthInv, NEW t \in Threads, OpenLocal(t) PROVE AuthInv'
  <1> DEFINE rec == Kept(t)
             credential == IF rec = None THEN 0 ELSE rec.word
  <1>1. t \in Procs /\ TypeOK /\ JobFits(t)
    BY DEF AuthInv, Procs
  <1>2. Reads(t, "remember") /\ Opened(t, credential) /\ file' = file
    BY DEF OpenLocal, Opened
  <1>3. job[t].at = "remember" /\ LoginFits(t)
    BY <1>1, <1>2 DEF JobFits, Reads, Is
  <1>4. job[t].via = "local" /\ job[t].role \in Roles /\ KindOf(job[t]) = "users"
    <2>1. job[t].via = "local" /\ job[t].role # None
      BY <1>3 DEF LoginFits
    <2>2. QED
      BY <1>1, <2>1, Fields DEF KindOf
  <1>5. /\ job[t].stamp # 0 /\ rec \in {None} \cup Users
        /\ job[t].stamp = file.users.stamp => rec = file.users.rec
    BY <1>1, <1>2, <1>4, ReadsIs DEF Recs
  <1>6. ~job[t].crossed => /\ job[t].stamp = file.users.stamp
                          /\ file.users.rec # None /\ file.users.rec.word = job[t].word
    BY <1>3, <1>4, <1>5 DEF LoginFits
  <1>7. credential \in Nat /\ (~job[t].crossed => credential = job[t].word)
    BY <1>5, <1>6 DEF Users
  <1>8. /\ cache' \in [Kinds -> [stamp : Nat, rec : Records]] /\ CacheFits'
        /\ \A k \in Kinds : cache'[k].rec \in Recs(k)
        /\ \A k \in Kinds : \/ cache'[k].rec = file[k].rec
                            \/ cache'[k].stamp = cache[k].stamp /\ cache'[k].rec = cache[k].rec
    BY <1>1, <1>2, ReadsIs
  <1> HIDE DEF credential
  <1>9. QED
    BY <1>2, <1>3, <1>4, <1>7, <1>8, OpenedFits

LEMMA OpenPamStep ==
    ASSUME AuthAssumption, AuthInv, NEW t \in Threads, OpenPam(t) PROVE AuthInv'
  <1>1. t \in Procs /\ TypeOK /\ JobFits(t) /\ GroupFits
    BY DEF AuthInv, Procs
  <1>2. job[t].at = "open" /\ Opened(t, 0) /\ file' = file /\ cache' = cache
    BY DEF OpenPam, Opened, Is
  <1>3. /\ job[t].via = "pam" /\ job[t].role # None
        /\ ~job[t].crossed => job[t].role = group
    BY <1>1, <1>2 DEF JobFits, LoginFits
  <1>4. job[t].role \in Roles /\ job[t].asked <= now
    BY <1>1, <1>3, Fields DEF JobFits
  <1>5. ~job[t].crossed => gave[job[t].role] >= job[t].asked
    <2>1. now \in Nat /\ job[t].asked \in Nat
      BY <1>1, Fields DEF TypeOK
    <2>2. QED
      BY <1>1, <1>3, <1>4, <2>1 DEF GroupFits
  <1>6. /\ cache' \in [Kinds -> [stamp : Nat, rec : Records]] /\ CacheFits'
        /\ \A k \in Kinds : cache'[k].rec \in Recs(k)
        /\ \A k \in Kinds : \/ cache'[k].rec = file[k].rec
                            \/ cache'[k].stamp = cache[k].stamp /\ cache'[k].rec = cache[k].rec
    BY <1>1, <1>2 DEF TypeOK, CacheFits, AuthInv
  <1>7. QED
    BY <1>2, <1>3, <1>4, <1>5, <1>6, OpenedFits

-----------------------------------------------------------------------------
\* Where a request stands once it was answered, or ended.
LEMMA AnswerIs ==
    ASSUME TypeOK, NEW t \in Procs, NEW role \in Roles \cup {None}, Answer(t, role)
    PROVE  \E j \in Jobs :
              /\ job' = [job EXCEPT ![t] = j]
              /\ \/ role = None /\ j = Idle
                 \/ /\ role # None /\ j.at = "in" /\ j.role = role
                    /\ j.via = job[t].via /\ j.word = job[t].word /\ j.s = job[t].s
                    /\ j.stamp = job[t].stamp /\ j.asked = job[t].asked
                    /\ j.seen = job[t].seen /\ KindOf(j) = KindOf(job[t])
  <1> DEFINE i == [job[t] EXCEPT !.at = "in", !.role = role]
  <1>1. ASSUME role = None PROVE job' = [job EXCEPT ![t] = Idle]
    BY <1>1 DEF Answer
  <1>2. ASSUME role # None PROVE job' = [job EXCEPT ![t] = i]
    BY <1>2 DEF Answer
  <1>3. /\ i \in Jobs /\ i.at = "in" /\ i.role = role
        /\ i.via = job[t].via /\ i.word = job[t].word /\ i.s = job[t].s
        /\ i.stamp = job[t].stamp /\ i.asked = job[t].asked
        /\ i.seen = job[t].seen
    <2>1. job[t] \in Jobs /\ "in" \in Places
      BY Fields DEF Places
    <2> HIDE DEF Places
    <2>2. QED
      BY <2>1 DEF Jobs
  <1> HIDE DEF i
  <1>4. KindOf(i) = KindOf(job[t])
    BY <1>3 DEF KindOf
  <1>5. QED
    BY <1>1, <1>2, <1>3, <1>4, IdleIs

LEMMA AnswerLocalStep ==
    ASSUME AuthAssumption, AuthInv, NEW t \in Threads, AnswerLocal(t) PROVE AuthInv'
  <1> DEFINE rec == Kept(t)
             s == job[t].s
             role == IF rec # None /\ rec.word = sessions[s].credential THEN rec.role ELSE None
  <1>1. t \in Procs /\ TypeOK /\ JobFits(t)
    BY DEF AuthInv, Procs
  <1>2. /\ Reads(t, "records") /\ job[t].via = "local" /\ used' = used /\ Answer(t, role)
        /\ sessions' = (IF role = None THEN Drop(s) ELSE sessions)
        /\ now' = now /\ file' = file /\ group' = group /\ gave' = gave
        /\ failures' = failures /\ guesses' = guesses /\ overlap' = overlap /\ revoked' = revoked /\ count' = count
    BY DEF AnswerLocal, Answer
  <1>3. job[t].at = "records" /\ KindOf(job[t]) = "users" /\ ComesFit(t)
    BY <1>1, <1>2 DEF JobFits, Reads, Is, KindOf
  <1>4. /\ rec \in {None} \cup Users /\ rec \in job[t].seen
    BY <1>1, <1>2, <1>3, ReadsIs DEF Recs
  <1>5. role \in Roles \cup {None} /\ (role # None => rec # None /\ rec.role = role
                                         /\ rec.word = sessions[s].credential)
    BY <1>4 DEF Users
  <1>6. /\ cache' \in [Kinds -> [stamp : Nat, rec : Records]] /\ CacheFits'
        /\ \A k \in Kinds : cache'[k].rec \in Recs(k)
        /\ \A k \in Kinds : \/ cache'[k].rec = file[k].rec
                            \/ cache'[k].stamp = cache[k].stamp /\ cache'[k].rec = cache[k].rec
    BY <1>1, <1>2, ReadsIs
  <1>7. /\ s \in 1 .. MaxLogins /\ s <= count.logins /\ count.logins \in Nat
        /\ sessions[s].crossed \/ sessions[s].credential = sessions[s].word
    <2>1. s \in 1 .. MaxLogins /\ s <= count.logins /\ sessions[s].via = "local"
      BY <1>2, <1>3 DEF ComesFit
    <2>2. SessionFits(sessions[s]) /\ count.logins \in Nat
      BY <2>1 DEF AuthInv, SessionsFit, TypeOK, Counts
    <2>3. QED
      BY <2>1, <2>2 DEF SessionFits
  <1> HIDE DEF role, rec, s
  <1>8. PICK j \in Jobs :
              /\ job' = [job EXCEPT ![t] = j]
              /\ \/ role = None /\ j = Idle
                 \/ /\ role # None /\ j.at = "in" /\ j.role = role /\ j.via = job[t].via
                    /\ j.s = s /\ j.stamp = job[t].stamp /\ j.asked = job[t].asked
                    /\ j.seen = job[t].seen /\ KindOf(j) = KindOf(job[t])
    BY <1>1, <1>2, <1>5, AnswerIs DEF s
  <1>9. job' \in [Procs -> Jobs] /\ job'[t] = j /\ \A q \in Procs \ {t} : job'[q] = job[q]
    BY <1>1, <1>8, OneMoves
  <1>10. JobFits(t)'
    <2>1. ASSUME role = None PROVE JobFits(t)'
      BY <1>1, <1>2, <1>8, <1>9, <2>1, IdleFits DEF TypeOK
    <2>2. ASSUME role # None PROVE JobFits(t)'
      <3>1. rec \in job[t].seen \ {None} /\ rec.role = role
            /\ (rec.word = sessions[s].word \/ sessions[s].crossed)
        BY <1>4, <1>5, <1>7, <2>2
      <3>2. InFits(t)'
        BY <1>2, <1>8, <1>9, <2>2, <3>1 DEF InFits
      <3>3. ComesFit(t)'
        BY <1>2, <1>3, <1>8, <1>9, <2>2 DEF ComesFit, s
      <3>4. QED
        BY <1>1, <1>2, <1>8, <1>9, <2>2, <3>2, <3>3 DEF JobFits
    <2>3. QED
      BY <2>1, <2>2
  <1>11. sessions' \in [1 .. MaxLogins -> {None} \cup Sessions] /\ SessionsFit' /\ SessionsStay
    <2>1. SessionsFit
      BY DEF AuthInv
    <2>2. ASSUME role = None
          PROVE  sessions' \in [1 .. MaxLogins -> {None} \cup Sessions] /\ SessionsFit' /\ SessionsStay
      BY <1>1, <1>2, <1>7, <2>1, <2>2, DropIs
    <2>3. ASSUME role # None
          PROVE  sessions' \in [1 .. MaxLogins -> {None} \cup Sessions] /\ SessionsFit' /\ SessionsStay
      BY <1>1, <1>2, <2>1, <2>3, SessionsSame
    <2>4. QED
      BY <2>2, <2>3
  <1>12. WritesFit' /\ Throttled'
    <2>1. j.at \in {"idle", "in"}
      BY <1>8, IdleIs
    <2>2. QED
      BY <1>1, <1>2, <1>3, <1>9, <2>1, WritesStay, ThrottleStays DEF AuthInv
  <1>13. /\ failures' \in [many : Nat, last : Int] /\ failures'.last <= now /\ guesses' \in Nat
         /\ count' \in Counts /\ used' \in Int
    BY <1>2 DEF AuthInv, TypeOK, GroupFits, Counts
  <1>14. QED
    BY <1>1, <1>2, <1>6, <1>9, <1>10, <1>11, <1>12, <1>13, JobSteps

\* What is asked of a request that was let in with a session, or was refused.
LEMMA AnsweredFits ==
    ASSUME AuthAssumption, AuthInv, NEW t \in Threads, NEW role \in Roles \cup {None}, Answer(t, role),
           job[t].at \in {"role", "keep"}, cache' = cache, used' = used,
           role # None => gave[role] > job[t].asked - Recheck \/ sessions[job[t].s].crossed,
           sessions' \in [1 .. MaxLogins -> {None} \cup Sessions], SessionsFit', SessionsStay
    PROVE  AuthInv'
  <1> DEFINE s == job[t].s
  <1>1. t \in Procs /\ TypeOK /\ JobFits(t)
    BY DEF AuthInv, Procs
  <1>2. /\ now' = now /\ file' = file /\ group' = group /\ gave' = gave
        /\ failures' = failures /\ guesses' = guesses /\ overlap' = overlap /\ revoked' = revoked /\ count' = count
    BY DEF Answer
  <1>3. ComesFit(t) /\ job[t].via = "pam"
    BY <1>1 DEF JobFits
  <1>4. PICK j \in Jobs :
              /\ job' = [job EXCEPT ![t] = j]
              /\ \/ role = None /\ j = Idle
                 \/ /\ role # None /\ j.at = "in" /\ j.role = role /\ j.via = job[t].via
                    /\ j.s = s /\ j.stamp = job[t].stamp /\ j.asked = job[t].asked
                    /\ j.seen = job[t].seen /\ KindOf(j) = KindOf(job[t])
    BY <1>1, AnswerIs
  <1>5. job' \in [Procs -> Jobs] /\ job'[t] = j /\ \A q \in Procs \ {t} : job'[q] = job[q]
    BY <1>1, <1>4, OneMoves
  <1>6. JobFits(t)'
    <2>1. ASSUME role = None PROVE JobFits(t)'
      BY <1>1, <1>2, <1>4, <1>5, <2>1, IdleFits DEF TypeOK
    <2>2. ASSUME role # None PROVE JobFits(t)'
      <3>1. sessions'[s].crossed = sessions[s].crossed /\ sessions'[s].via = sessions[s].via
        BY <1>3 DEF ComesFit, SessionsStay
      <3>2. InFits(t)'
        BY <1>2, <1>3, <1>4, <1>5, <2>2, <3>1 DEF InFits
      <3>3. ComesFit(t)'
        BY <1>2, <1>3, <1>4, <1>5, <2>2, <3>1 DEF ComesFit
      <3>4. QED
        BY <1>1, <1>2, <1>3, <1>4, <1>5, <2>2, <3>2, <3>3 DEF JobFits
    <2>3. QED
      BY <2>1, <2>2
  <1>7. WritesFit' /\ Throttled'
    <2>1. j.at \in {"idle", "in"}
      BY <1>4, IdleIs
    <2>2. QED
      BY <1>1, <1>2, <1>5, <2>1, WritesStay, ThrottleStays DEF AuthInv
  <1>8. /\ failures' \in [many : Nat, last : Int] /\ failures'.last <= now /\ guesses' \in Nat
        /\ count' \in Counts /\ used' \in Int
    BY <1>2 DEF AuthInv, TypeOK, GroupFits
  <1>9. /\ cache' \in [Kinds -> [stamp : Nat, rec : Records]] /\ CacheFits'
        /\ \A k \in Kinds : cache'[k].rec \in Recs(k)
        /\ \A k \in Kinds : \/ cache'[k].rec = file[k].rec
                            \/ cache'[k].stamp = cache[k].stamp /\ cache'[k].rec = cache[k].rec
    BY <1>1, <1>2 DEF TypeOK, CacheFits, AuthInv
  <1>10. QED
    BY <1>1, <1>2, <1>5, <1>6, <1>7, <1>8, <1>9, JobSteps

LEMMA AnswerPamStep ==
    ASSUME AuthAssumption, AuthInv, NEW t \in Threads, AnswerPam(t) PROVE AuthInv'
  <1> DEFINE s == job[t].s
             session == sessions[s]
  <1>1. t \in Procs /\ TypeOK /\ JobFits(t) /\ SessionsFit /\ GroupFits
    BY DEF AuthInv, Procs
  <1>2. job[t].at = "role" /\ cache' = cache /\ used' = used
    BY DEF AnswerPam, Is
  <1>3. ComesFit(t) /\ job[t].via = "pam" /\ job[t].asked <= now
    BY <1>1, <1>2 DEF JobFits
  <1>4. /\ s \in 1 .. MaxLogins /\ s <= count.logins /\ job[t].asked \in Nat /\ now \in Nat
        /\ gave \in [Roles -> Int] /\ group \in Roles \cup {None} /\ Recheck \in Nat \ {0}
        /\ count.logins \in Nat
    BY <1>1, <1>3, Fields DEF ComesFit, TypeOK, AuthAssumption, Counts
  <1>5. /\ session.role \in Roles \cup {None} /\ session.checked \in Int
        /\ session.crossed \/ session.role = None \/ gave[session.role] >= session.checked
    <2>1. session \in Sessions /\ SessionFits(session) /\ session.via = "pam"
      BY <1>1, <1>3, <1>4 DEF SessionsFit, ComesFit
    <2> HIDE DEF session
    <2>2. QED
      BY <2>1 DEF SessionFits, Sessions
  <1>6. ASSUME job[t].asked - session.checked < Recheck PROVE AuthInv'
    <2>1. /\ Answer(t, session.role)
          /\ sessions' = IF session.role = None THEN Drop(s) ELSE sessions
          /\ gave' = gave /\ count' = count
      BY <1>6 DEF AnswerPam, Answer
    <2> HIDE DEF session
    <2>2. session.role # None => gave[session.role] > job[t].asked - Recheck \/ session.crossed
      <3>1. session.role # None => gave[session.role] \in Int
        BY <1>4, <1>5
      <3>2. QED
        BY <1>4, <1>5, <1>6, <3>1
    <2>3. sessions' \in [1 .. MaxLogins -> {None} \cup Sessions] /\ SessionsFit' /\ SessionsStay
      <3>1. ASSUME session.role = None
            PROVE  sessions' \in [1 .. MaxLogins -> {None} \cup Sessions] /\ SessionsFit' /\ SessionsStay
        BY <1>1, <1>4, <2>1, <3>1, DropIs
      <3>2. ASSUME session.role # None
            PROVE  sessions' \in [1 .. MaxLogins -> {None} \cup Sessions] /\ SessionsFit' /\ SessionsStay
        BY <1>1, <2>1, <3>2, SessionsSame
      <3>3. QED
        BY <3>1, <3>2
    <2>4. session.role # None => gave[session.role] > job[t].asked - Recheck \/ sessions[job[t].s].crossed
      BY <2>2 DEF session
    <2>5. QED
      BY <1>2, <1>5, <2>1, <2>3, <2>4, AnsweredFits
  <1>7. ASSUME ~(job[t].asked - session.checked < Recheck) PROVE AuthInv'
    <2> DEFINE j == [job[t] EXCEPT !.at = "keep", !.role = group]
    <2>1. /\ j \in Jobs /\ j.at = "keep" /\ j.role = group /\ j.via = "pam" /\ j.s = s
          /\ j.asked = job[t].asked /\ j.stamp = job[t].stamp /\ KindOf(j) = KindOf(job[t])
      <3>1. job[t] \in Jobs /\ "keep" \in Places
        BY <1>1, Fields DEF Places
      <3> HIDE DEF Places
      <3>2. QED
        BY <1>3, <1>4, <3>1 DEF Jobs, KindOf
    <2>2. /\ job' = [job EXCEPT ![t].at = "keep", ![t].role = group]
          /\ now' = now /\ file' = file /\ group' = group /\ gave' = gave /\ sessions' = sessions
          /\ failures' = failures /\ guesses' = guesses /\ overlap' = overlap /\ revoked' = revoked
          /\ count' = count
      BY <1>7 DEF AnswerPam
    <2>3. job' = [job EXCEPT ![t] = j]
      <3>1. job \in [Procs -> Jobs]
        BY <1>1 DEF TypeOK
      <3>2. QED
        BY <2>2, <3>1
    <2> HIDE DEF j
    <2>4. job'[t] = j /\ \A q \in Procs \ {t} : job'[q] = job[q]
      BY <1>1, <2>1, <2>3, OneMoves
    <2>5. JobFits(t)'
      <3>1. ComesFit(t)'
        BY <1>3, <2>1, <2>2, <2>4 DEF ComesFit
      <3>2. group # None => gave[group] >= job[t].asked
        BY <1>1, <1>3, <1>4 DEF GroupFits
      <3>3. QED
        BY <1>1, <2>1, <2>2, <2>4, <3>1, <3>2 DEF JobFits
    <2>6. WritesFit' /\ Throttled'
      BY <1>1, <1>2, <2>1, <2>2, <2>4, WritesStay, ThrottleStays DEF AuthInv
    <2>7. /\ failures' \in [many : Nat, last : Int] /\ failures'.last <= now /\ guesses' \in Nat
          /\ count' \in Counts
      BY <2>2 DEF AuthInv, TypeOK, GroupFits
    <2>8. QED
      BY <1>1, <1>2, <2>1, <2>2, <2>3, <2>5, <2>6, <2>7, OneStep
  <1>8. QED
    BY <1>6, <1>7

LEMMA KeepRoleStep ==
    ASSUME AuthAssumption, AuthInv, NEW t \in Threads, KeepRole(t) PROVE AuthInv'
  <1> DEFINE s == job[t].s
             role == job[t].role
             open == sessions[s].open /\ role # None
             kept == [sessions[s] EXCEPT !.role = role, !.checked = job[t].asked, !.open = open]
  <1>1. t \in Procs /\ TypeOK /\ JobFits(t) /\ SessionsFit
    BY DEF AuthInv, Procs
  <1>2. job[t].at = "keep" /\ cache' = cache /\ used' = used /\ Answer(t, role) /\ gave' = gave /\ count' = count
    BY DEF KeepRole, Is, Answer
  <1>3. /\ ComesFit(t) /\ job[t].via = "pam"
        /\ role = None \/ gave[role] >= job[t].asked
    BY <1>1, <1>2 DEF JobFits
  <1>4. /\ s \in 1 .. MaxLogins /\ s <= count.logins /\ job[t].asked \in Nat /\ role \in Roles \cup {None}
        /\ gave \in [Roles -> Int] /\ Recheck \in Nat \ {0} /\ count.logins \in Nat
    BY <1>1, <1>3, Fields DEF ComesFit, TypeOK, AuthAssumption, Counts
  <1>5. sessions[s] \in Sessions /\ sessions[s].via = "pam"
    BY <1>1, <1>3, <1>4 DEF SessionsFit, ComesFit
  <1>6. /\ kept \in Sessions /\ kept.via = "pam" /\ kept.word = sessions[s].word
        /\ kept.crossed = sessions[s].crossed /\ kept.role = role /\ kept.checked = job[t].asked
    <2>1. open \in BOOLEAN /\ job[t].asked \in Int
      BY <1>4, <1>5 DEF Sessions
    <2> HIDE DEF open, role, s
    <2>2. QED
      BY <1>4, <1>5, <2>1 DEF Sessions
  <1>7. sessions' = [sessions EXCEPT ![s] = kept]
    BY DEF KeepRole
  <1> HIDE DEF kept, open
  <1>8. /\ sessions' \in [1 .. MaxLogins -> {None} \cup Sessions]
        /\ sessions'[s] = kept /\ \A r \in 1 .. MaxLogins : r # s => sessions'[r] = sessions[r]
    <2>1. sessions \in [1 .. MaxLogins -> {None} \cup Sessions]
      BY <1>1 DEF TypeOK
    <2> HIDE DEF s
    <2>2. QED
      BY <1>4, <1>6, <1>7, <2>1
  <1>9. SessionsFit'
    <2>1. \A r \in 1 .. MaxLogins : r = s => SessionFits(sessions[r])'
      BY <1>2, <1>3, <1>6, <1>8 DEF SessionFits
    <2>2. \A r \in 1 .. MaxLogins : r # s /\ SessionFits(sessions[r]) => SessionFits(sessions[r])'
      BY <1>2, <1>8 DEF SessionFits
    <2> HIDE DEF s
    <2>3. QED
      BY <1>1, <1>2, <1>4, <1>6, <1>8, <2>1, <2>2 DEF SessionsFit
  <1>10. SessionsStay
    <2> HIDE DEF s
    <2>1. QED
      BY <1>2, <1>4, <1>5, <1>6, <1>8 DEF SessionsStay
  <1>11. role # None => gave[role] > job[t].asked - Recheck \/ sessions[job[t].s].crossed
    <2>1. role # None => gave[role] \in Int
      BY <1>4
    <2>2. QED
      BY <1>3, <1>4, <2>1
  <1>12. QED
    BY <1>2, <1>4, <1>8, <1>9, <1>10, <1>11, AnsweredFits

LEMMA AnswerTokenStep ==
    ASSUME AuthAssumption, AuthInv, NEW t \in Threads, AnswerToken(t) PROVE AuthInv'
  <1> DEFINE rec == Kept(t)
             good == rec # None /\ rec.ends > now
             last == IF used # Never THEN used ELSE rec.used
             due == good /\ now - last >= Flush
             role == IF good THEN rec.role ELSE None
             i == [job[t] EXCEPT !.at = "change", !.to = "touch", !.role = rec.role, !.asked = now]
  <1>1. t \in Procs /\ TypeOK /\ JobFits(t)
    BY DEF AuthInv, Procs
  <1>2. /\ Reads(t, "records") /\ job[t].via = "token" /\ sessions' = sessions
        /\ now' = now /\ file' = file /\ group' = group /\ gave' = gave
        /\ failures' = failures /\ guesses' = guesses /\ overlap' = overlap /\ revoked' = revoked /\ count' = count
        /\ IF due THEN used' = now /\ job' = [job EXCEPT ![t] = i]
           ELSE used' = (IF good THEN now ELSE used) /\ Answer(t, role)
    BY DEF AnswerToken, Answer
  <1>3. job[t].at = "records" /\ KindOf(job[t]) = "tokens"
    BY <1>2 DEF Reads, Is, KindOf
  <1>4. rec \in {None} \cup Tokens /\ rec \in job[t].seen
    BY <1>1, <1>2, <1>3, ReadsIs DEF Recs
  <1>5. /\ now \in Nat /\ used \in Int /\ job[t].asked \in Nat /\ job[t].asked <= now
    BY <1>1, Fields DEF TypeOK, JobFits
  <1>6. /\ cache' \in [Kinds -> [stamp : Nat, rec : Records]] /\ CacheFits'
        /\ \A k \in Kinds : cache'[k].rec \in Recs(k)
        /\ \A k \in Kinds : \/ cache'[k].rec = file[k].rec
                            \/ cache'[k].stamp = cache[k].stamp /\ cache'[k].rec = cache[k].rec
    BY <1>1, <1>2, ReadsIs
  <1>7. good => /\ rec \in job[t].seen \ {None} /\ rec.ends > job[t].asked /\ rec.ends > now
                /\ rec.role \in Roles /\ rec.role # None
    BY <1>4, <1>5 DEF Tokens, Roles, AuthAssumption
  <1>8. role \in Roles \cup {None} /\ (role # None => good /\ role = rec.role)
    BY <1>7
  <1>9. good => /\ i \in Jobs /\ i.at = "change" /\ i.to = "touch" /\ i.role = rec.role /\ i.via = job[t].via
                /\ i.stamp = job[t].stamp /\ i.asked = now
                /\ i.seen = job[t].seen
    <2>1. job[t] \in Jobs /\ "change" \in Places /\ "touch" \in Errands
      BY <1>1, Fields DEF Places, Errands
    <2> HIDE DEF Places, Errands, rec
    <2>2. QED
      BY <1>5, <1>7, <2>1 DEF Jobs
  <1>10. good => KindOf(i) = KindOf(job[t])
    <2> HIDE DEF i
    <2>1. QED
      BY <1>9 DEF KindOf
  <1> HIDE DEF i, rec, role, good, due
  <1>11. PICK j \in Jobs :
              /\ job' = [job EXCEPT ![t] = j]
              /\ \/ j = Idle
                 \/ /\ j.at \in {"in", "change"} /\ (j.at = "change" => j.to = "touch")
                    /\ good /\ j.role = rec.role /\ j.via = job[t].via
                    /\ j.stamp = job[t].stamp /\ j.asked \in {job[t].asked, now}
                    /\ j.seen = job[t].seen /\ KindOf(j) = KindOf(job[t])
    <2>1. ASSUME due PROVE good /\ job' = [job EXCEPT ![t] = i]
      BY <1>2, <2>1 DEF due
    <2>2. ASSUME ~due PROVE Answer(t, role)
      BY <1>2, <2>2
    <2>3. ASSUME ~due
          PROVE  \E j \in Jobs :
              /\ job' = [job EXCEPT ![t] = j]
              /\ \/ role = None /\ j = Idle
                 \/ /\ role # None /\ j.at = "in" /\ j.role = role /\ j.via = job[t].via
                    /\ j.stamp = job[t].stamp /\ j.asked = job[t].asked
                    /\ j.seen = job[t].seen /\ KindOf(j) = KindOf(job[t])
      BY <1>1, <1>8, <2>2, <2>3, AnswerIs
    <2>4. QED
      BY <1>8, <1>9, <1>10, <2>1, <2>3
  <1>12. job' \in [Procs -> Jobs] /\ job'[t] = j /\ \A q \in Procs \ {t} : job'[q] = job[q]
    BY <1>1, <1>11, OneMoves
  <1>13. JobFits(t)'
    <2>1. ASSUME j = Idle PROVE JobFits(t)'
      BY <1>1, <1>2, <1>12, <2>1, IdleFits DEF TypeOK
    <2>2. ASSUME j.at \in {"in", "change"}, j.at = "change" => j.to = "touch",
                 good, j.role = rec.role, j.via = job[t].via,
                 j.stamp = job[t].stamp, j.asked \in {job[t].asked, now},
                 j.seen = job[t].seen, KindOf(j) = KindOf(job[t])
          PROVE  JobFits(t)'
      <3>1. TokenFits(t)'
        BY <1>7, <1>12, <2>2 DEF TokenFits
      <3>2. j.at = "in" => InFits(t)'
        BY <1>2, <1>12, <2>2, <3>1 DEF InFits
      <3>3. j.at = "change" => ChangeFits(t)'
        BY <1>2, <1>12, <2>2, <3>1 DEF ChangeFits
      <3>4. QED
        BY <1>1, <1>2, <1>5, <1>12, <2>2, <3>2, <3>3 DEF JobFits
    <2>3. QED
      BY <1>11, <2>1, <2>2
  <1>14. WritesFit' /\ Throttled'
    <2>1. j.at \in {"idle", "in", "change"}
      BY <1>11, IdleIs
    <2>2. QED
      BY <1>1, <1>2, <1>3, <1>12, <2>1, WritesStay, ThrottleStays DEF AuthInv
  <1>15. /\ failures' \in [many : Nat, last : Int] /\ failures'.last <= now /\ guesses' \in Nat
         /\ count' \in Counts /\ used' \in Int
    BY <1>2, <1>5 DEF AuthInv, TypeOK, GroupFits, Counts
  <1>16. sessions' \in [1 .. MaxLogins -> {None} \cup Sessions] /\ SessionsFit' /\ SessionsStay
    BY <1>2, SessionsSame DEF AuthInv
  <1>17. QED
    BY <1>1, <1>2, <1>6, <1>12, <1>13, <1>14, <1>15, <1>16, JobSteps

-----------------------------------------------------------------------------
\* What the groups give is only ever given later.
LEMMA GroupMovesStep ==
    ASSUME AuthAssumption, AuthInv, NEW role \in Roles \cup {None}, GroupMoves(role) PROVE AuthInv'
  <1>1. /\ role # group /\ Count("changes", MaxChanges) /\ group' = role
        /\ gave' = [r \in Roles |-> IF r = role THEN now ELSE gave[r]]
        /\ job' = [p \in Procs |-> [job[p] EXCEPT !.crossed = @ \/ LoggingIn(p)]]
        /\ now' = now /\ file' = file /\ cache' = cache /\ sessions' = sessions /\ failures' = failures
        /\ guesses' = guesses /\ used' = used /\ overlap' = overlap /\ revoked' = revoked
    BY DEF GroupMoves
  <1>2. TypeOK /\ GroupFits /\ CacheFits /\ SessionsFit /\ WritesFit /\ Throttled
        /\ \A p \in Procs : JobFits(p)
    BY DEF AuthInv
  <1>3. count' \in Counts /\ count'.logins = count.logins
    BY <1>1, <1>2, CountIs
  <1>4. ASSUME NEW p \in Procs
        PROVE  /\ job'[p] \in Jobs /\ job'[p].at = job[p].at /\ job'[p].via = job[p].via /\ job'[p].word = job[p].word
               /\ job'[p].role = job[p].role /\ job'[p].s = job[p].s
               /\ job'[p].asked = job[p].asked /\ job'[p].stamp = job[p].stamp /\ job'[p].seen = job[p].seen
               /\ job'[p].to = job[p].to /\ job'[p].read = job[p].read
               /\ LoggingIn(p) => job'[p].crossed
               /\ KindOf(job'[p]) = KindOf(job[p])
    <2> DEFINE j == [job[p] EXCEPT !.crossed = @ \/ LoggingIn(p)]
    <2>1. job[p] \in Jobs /\ job[p].crossed \in BOOLEAN
      BY <1>2, Fields
    <2>2. (job[p].crossed \/ LoggingIn(p)) \in BOOLEAN
      OBVIOUS
    <2>3. /\ j \in Jobs /\ j.at = job[p].at /\ j.via = job[p].via /\ j.word = job[p].word
          /\ j.role = job[p].role /\ j.s = job[p].s
          /\ j.asked = job[p].asked /\ j.stamp = job[p].stamp /\ j.seen = job[p].seen
          /\ j.to = job[p].to /\ j.read = job[p].read
          /\ LoggingIn(p) => j.crossed
      BY <2>1, <2>2 DEF Jobs
    <2>4. job'[p] = j
      BY <1>1
    <2> HIDE DEF j
    <2>5. QED
      BY <2>3, <2>4 DEF KindOf
  <1>5. job' \in [Procs -> Jobs]
    <2>1. job' = [p \in Procs |-> job'[p]]
      BY <1>1
    <2>2. QED
      BY <1>4, <2>1
  <1>6. /\ gave' \in [Roles -> Int] /\ \A r \in Roles : gave'[r] >= gave[r] /\ gave'[r] <= now
        /\ group' # None => gave'[group'] = now
    BY <1>1, <1>2 DEF TypeOK, GroupFits
  <1>7. TypeOK'
    BY <1>1, <1>2, <1>3, <1>5, <1>6 DEF TypeOK
  <1>8. GroupFits' /\ CacheFits'
    BY <1>1, <1>2, <1>6 DEF GroupFits, CacheFits
  <1>9. \A x \in Sessions : SessionFits(x) => x.crossed \/ (IF x.via = "local" THEN x.credential = x.word
                                                            ELSE x.role = None \/ gave'[x.role] >= x.checked)
    BY <1>2, <1>6 DEF SessionFits, Sessions, TypeOK
  <1>10. SessionsFit'
    <2>1. \A x \in Sessions : SessionFits(x) => SessionFits(x)'
      BY <1>9 DEF SessionFits
    <2>2. QED
      BY <1>1, <1>2, <1>3, <2>1 DEF SessionsFit
  <1>11. ASSUME NEW p \in Procs PROVE JobFits(p)'
    <2>1. LoggingIn(p) /\ LoginFits(p) => LoginFits(p)'
      BY <1>4 DEF LoginFits
    <2>2. RecordsFit(p) => RecordsFit(p)'
      BY <1>1, <1>4 DEF RecordsFit
    <2>3. ComesFit(p) => ComesFit(p)'
      BY <1>1, <1>3, <1>4 DEF ComesFit
    <2>4. TokenFits(p) => TokenFits(p)'
      BY <1>4 DEF TokenFits
    <2>5. InFits(p) => InFits(p)'
      <3>1. job[p].role # None => gave'[job[p].role] >= gave[job[p].role] /\ gave[job[p].role] \in Int
                                  /\ gave'[job[p].role] \in Int /\ job[p].asked \in Nat
        BY <1>2, <1>6, Fields DEF TypeOK
      <3>2. Recheck \in Nat
        BY DEF AuthAssumption
      <3>3. job'[p].s = job[p].s /\ sessions'[job'[p].s] = sessions[job[p].s]
        BY <1>1, <1>4
      <3>4. SUFFICES ASSUME InFits(p) PROVE InFits(p)'
        OBVIOUS
      <3>5. job[p].via = "local" =>
              \E rec \in job'[p].seen \ {None} :
                  rec.role = job'[p].role /\ (rec.word = sessions'[job'[p].s].word \/ sessions'[job'[p].s].crossed)
        BY <1>4, <3>3, <3>4 DEF InFits
      <3>6. job[p].via = "pam" =>
              /\ job'[p].role # None
              /\ gave'[job'[p].role] > job'[p].asked - Recheck \/ sessions'[job'[p].s].crossed
        BY <1>4, <3>1, <3>2, <3>3, <3>4 DEF InFits
      <3>7. QED
        BY <1>4, <2>4, <3>4, <3>5, <3>6 DEF InFits
    <2>6. ChangeFits(p) => ChangeFits(p)'
      BY <1>4, <2>4 DEF ChangeFits
    <2>7. JobFits(p) /\ (job[p].at \in {"check", "pam", "passed", "remember", "open"} => LoggingIn(p))
      BY <1>2 DEF LoggingIn
    <2>8. job[p].role = None \/ gave[job[p].role] >= job[p].asked =>
              job[p].role = None \/ gave'[job[p].role] >= job[p].asked
      BY <1>2, <1>6, Fields DEF TypeOK
    <2>9. QED
      BY <1>1, <1>4, <2>1, <2>2, <2>3, <2>5, <2>6, <2>7, <2>8 DEF JobFits
  <1>12. WritesFit'
    <2>1. /\ \A p \in Procs : job'[p].at = job[p].at
          /\ \A p \in Procs : job'[p].via = job[p].via
          /\ \A p \in Procs : job'[p].read = job[p].read
      BY <1>4
    <2>2. WritesFit
      BY <1>2
    <2> SUFFICES ASSUME ~overlap PROVE WritesFit'
      BY <1>1 DEF WritesFit
    <2>3. /\ \A p, q \in Procs : job[p].at = "write" /\ job[q].at = "write" /\ job[p].via = "token"
                                  /\ job[q].via = "token" => p = q
          /\ \A p \in Procs : job[p].at = "write" /\ job[p].via = "token" => job[p].read = file.tokens.rec
          /\ revoked => file.tokens.rec = None
      BY <2>2 DEF WritesFit, Is
    <2>4. /\ \A p, q \in Procs : job'[p].at = "write" /\ job'[q].at = "write" /\ job'[p].via = "token"
                                  /\ job'[q].via = "token" => p = q
          /\ \A p \in Procs : job'[p].at = "write" /\ job'[p].via = "token" => job'[p].read = file.tokens.rec
      BY <2>1, <2>3
    <2>5. QED
      BY <1>1, <2>3, <2>4 DEF WritesFit, Is
  <1>13. Throttled'
    <2>1. Trying' = Trying
      BY <1>4 DEF Trying, Procs
    <2>2. QED
      BY <1>1, <1>2, <2>1 DEF Throttled, ThrottleHolds
  <1>14. QED
    BY <1>7, <1>8, <1>10, <1>11, <1>12, <1>13 DEF AuthInv

LEMMA TickStep ==
    ASSUME AuthAssumption, AuthInv, Tick PROVE AuthInv'
  <1>1. /\ now' = now + 1 /\ guesses' = 0
        /\ gave' = [r \in Roles |-> IF r = group THEN now + 1 ELSE gave[r]]
        /\ file' = file /\ cache' = cache /\ group' = group /\ sessions' = sessions /\ job' = job
        /\ failures' = failures /\ used' = used /\ overlap' = overlap /\ revoked' = revoked /\ count' = count
    BY DEF Tick
  <1>2. TypeOK /\ GroupFits /\ CacheFits /\ SessionsFit /\ WritesFit /\ Throttled
        /\ \A p \in Procs : JobFits(p)
    BY DEF AuthInv
  <1>3. now \in Nat /\ now + 1 \in Nat
    BY <1>2 DEF TypeOK
  <1>4. /\ gave' \in [Roles -> Int] /\ \A r \in Roles : gave'[r] >= gave[r] /\ gave'[r] <= now + 1
        /\ group # None => gave'[group] = now + 1
    BY <1>1, <1>2, <1>3 DEF TypeOK, GroupFits
  <1>5. TypeOK'
    BY <1>1, <1>2, <1>3, <1>4 DEF TypeOK
  <1>6. GroupFits'
    <2>1. failures.last \in Int
      BY <1>2 DEF TypeOK
    <2>2. QED
      BY <1>1, <1>2, <1>3, <1>4, <2>1 DEF GroupFits
  <1>7. CacheFits'
    BY <1>1, <1>2 DEF CacheFits
  <1>8. \A x \in Sessions : SessionFits(x) => x.crossed \/ (IF x.via = "local" THEN x.credential = x.word
                                                            ELSE x.role = None \/ gave'[x.role] >= x.checked)
    BY <1>2, <1>4 DEF SessionFits, Sessions, TypeOK
  <1>9. SessionsFit'
    <2>1. \A x \in Sessions : SessionFits(x) => SessionFits(x)'
      BY <1>8 DEF SessionFits
    <2>2. QED
      BY <1>1, <1>2, <2>1 DEF SessionsFit
  <1>10. ASSUME NEW p \in Procs PROVE JobFits(p)'
    <2>1. LoginFits(p) => LoginFits(p)'
      BY <1>1 DEF LoginFits
    <2>2. RecordsFit(p) => RecordsFit(p)'
      BY <1>1 DEF RecordsFit
    <2>3. ComesFit(p) => ComesFit(p)'
      BY <1>1 DEF ComesFit
    <2>4. TokenFits(p) => TokenFits(p)'
      BY <1>1 DEF TokenFits
    <2>5. InFits(p) => InFits(p)'
      <3>1. job[p].role # None => gave'[job[p].role] >= gave[job[p].role] /\ gave[job[p].role] \in Int
                                  /\ gave'[job[p].role] \in Int /\ job[p].asked \in Nat
        BY <1>2, <1>4, Fields DEF TypeOK
      <3>2. Recheck \in Nat
        BY DEF AuthAssumption
      <3>3. QED
        BY <1>1, <2>4, <3>1, <3>2 DEF InFits
    <2>6. ChangeFits(p) => ChangeFits(p)'
      BY <1>1, <2>4 DEF ChangeFits
    <2>7. JobFits(p) /\ job[p].asked \in Nat
      BY <1>2, Fields
    <2>8. job[p].role = None \/ gave[job[p].role] >= job[p].asked =>
              job[p].role = None \/ gave'[job[p].role] >= job[p].asked
      BY <1>2, <1>4, Fields DEF TypeOK
    <2>9. QED
      BY <1>1, <1>3, <2>1, <2>2, <2>3, <2>5, <2>6, <2>7, <2>8 DEF JobFits
  <1>11. WritesFit'
    BY <1>1, <1>2 DEF WritesFit, Is
  <1>12. Throttled'
    <2>1. Trying' = Trying
      BY <1>1 DEF Trying
    <2>2. failures.last \in Int /\ failures.last <= now /\ Limit \in Nat \ {0}
      BY <1>2 DEF TypeOK, GroupFits, AuthAssumption
    <2>3. QED
      BY <1>1, <1>3, <2>1, <2>2, TryingIs DEF Throttled, ThrottleHolds
  <1>13. QED
    BY <1>5, <1>6, <1>7, <1>9, <1>10, <1>11, <1>12 DEF AuthInv

\* What a file is rewritten with is a record of it.
LEMMA BecomesIs ==
    ASSUME AuthAssumption, AuthInv, NEW p \in Procs, job[p].at = "write", ~Refused(job[p])
    PROVE  /\ Becomes(job[p]) \in Recs(KindOf(job[p]))
           /\ job[p].to = "revoke" => Becomes(job[p]) = None
           /\ job[p].via = "token" /\ job[p].read = None => Becomes(job[p]) = None
           /\ job[p].to \in {"touch", "revoke"} <=> KindOf(job[p]) = "tokens"
  <1>1. TypeOK /\ JobFits(p) /\ ChangeFits(p)
    BY DEF AuthInv, JobFits
  <1>2. /\ job[p].read \in Recs(KindOf(job[p])) /\ job[p].word \in Nat /\ job[p].asked \in Nat
        /\ job[p].role \in Roles \cup {None}
    BY <1>1, Fields DEF ChangeFits
  <1>3. /\ job[p].to \in {"touch", "revoke"} <=> KindOf(job[p]) = "tokens"
        /\ job[p].via = "token" <=> KindOf(job[p]) = "tokens"
    BY <1>1 DEF ChangeFits, KindOf
  <1>4. ASSUME KindOf(job[p]) = "tokens"
        PROVE  /\ TokenBecomes(job[p]) \in Recs("tokens")
               /\ job[p].to = "revoke" => TokenBecomes(job[p]) = None
               /\ job[p].read = None => TokenBecomes(job[p]) = None
    BY <1>2, <1>4 DEF TokenBecomes, Recs, Tokens
  <1>5. ASSUME KindOf(job[p]) # "tokens" PROVE UserBecomes(job[p]) \in Recs(KindOf(job[p]))
    <2>1. job[p].read \in {None} \cup Users
      BY <1>2, <1>5 DEF Recs
    <2>2. ASSUME job[p].read # None
          PROVE  [word |-> IF job[p].word = 0 THEN job[p].read.word ELSE job[p].word,
                  role |-> IF job[p].role = None THEN job[p].read.role ELSE job[p].role] \in Users
      BY <1>2, <2>1, <2>2 DEF Users
    <2>3. [word |-> job[p].word, role |-> IF job[p].role = None THEN "read" ELSE job[p].role] \in Users
      BY <1>2 DEF Users, Roles
    <2>4. QED
      BY <1>5, <2>2, <2>3 DEF UserBecomes, Recs
  <1>6. QED
    BY <1>3, <1>4, <1>5 DEF Becomes

\* What the write does to who is about the same file: a request learns what it may go
\* by now, a login is crossed.
LEMMA WriteTouches ==
    ASSUME TypeOK, NEW q \in Procs, NEW rec \in Records,
           job'[q] = [job[q] EXCEPT !.seen = IF Is(q, "records") THEN @ \cup {rec} ELSE @,
                                    !.crossed = @ \/ LoggingIn(q)]
    PROVE  /\ job'[q] \in Jobs /\ job'[q].at = job[q].at /\ job'[q].via = job[q].via /\ job'[q].word = job[q].word
           /\ job'[q].role = job[q].role /\ job'[q].s = job[q].s
           /\ job'[q].asked = job[q].asked /\ job'[q].stamp = job[q].stamp
           /\ job'[q].to = job[q].to /\ job'[q].read = job[q].read
           /\ job'[q].seen = (IF job[q].at = "records" THEN job[q].seen \cup {rec} ELSE job[q].seen)
           /\ LoggingIn(q) => job'[q].crossed
           /\ KindOf(job'[q]) = KindOf(job[q])
  <1> DEFINE seen == IF job[q].at = "records" THEN job[q].seen \cup {rec} ELSE job[q].seen
             crossed == job[q].crossed \/ LoggingIn(q)
             j == [job[q] EXCEPT !.seen = seen, !.crossed = crossed]
  <1>1. job[q] \in Jobs /\ job[q].crossed \in BOOLEAN /\ job[q].seen \in SUBSET Records
    BY Fields
  <1>2. seen \in SUBSET Records /\ crossed \in BOOLEAN
    BY <1>1
  <1>3. job'[q] = j
    BY DEF Is
  <1>4. LoggingIn(q) => crossed
    OBVIOUS
  <1> HIDE DEF seen, crossed
  <1>5. /\ j \in Jobs /\ j.at = job[q].at /\ j.via = job[q].via /\ j.word = job[q].word
        /\ j.role = job[q].role /\ j.s = job[q].s
        /\ j.asked = job[q].asked /\ j.stamp = job[q].stamp
        /\ j.to = job[q].to /\ j.read = job[q].read /\ j.seen = seen /\ j.crossed = crossed
    BY <1>1, <1>2 DEF Jobs
  <1> HIDE DEF j
  <1>6. QED
    BY <1>3, <1>4, <1>5 DEF KindOf, seen

\* Who wrote goes on, forgets, reads what it wrote or is done.
LEMMA AfterwardsIs ==
    ASSUME TypeOK, NEW p \in Procs, JobFits(p)
    PROVE  /\ Afterwards(p) \in Jobs /\ Afterwards(p).at \in {"idle", "in", "forget", "reread"}
           /\ Afterwards(p).at = "in" =>
                 /\ job[p].to = "touch" /\ Afterwards(p).via = job[p].via
                 /\ Afterwards(p).role = job[p].role /\ Afterwards(p).seen = job[p].seen
                 /\ Afterwards(p).asked = job[p].asked
           /\ Afterwards(p).asked <= now /\ Afterwards(p).stamp = 0
  <1>1. job[p] \in Jobs /\ job[p].asked <= now /\ now \in Nat
    BY Fields DEF TypeOK, JobFits
  <1>2. ASSUME NEW at \in {"in", "forget", "reread"}
        PROVE  LET j == [job[p] EXCEPT !.at = at, !.stamp = 0]
               IN  /\ j \in Jobs /\ j.at = at /\ j.via = job[p].via /\ j.role = job[p].role
                   /\ j.seen = job[p].seen /\ j.asked = job[p].asked /\ j.stamp = 0
    <2>1. at \in Places
      BY <1>2 DEF Places
    <2> HIDE DEF Places
    <2>2. QED
      BY <1>1, <2>1 DEF Jobs
  <1>3. CASE job[p].to = "touch"
    BY <1>1, <1>2, <1>3 DEF Afterwards
  <1>4. CASE job[p].to # "touch" /\ p \in Threads /\ job[p].to = "revoke"
    BY <1>1, <1>2, <1>4 DEF Afterwards
  <1>5. CASE job[p].to # "touch" /\ ~(p \in Threads /\ job[p].to = "revoke")
             /\ p \in Threads /\ job[p].to = "set" /\ ~Refused(job[p])
    BY <1>1, <1>2, <1>5 DEF Afterwards
  <1>6. CASE job[p].to # "touch" /\ ~(p \in Threads /\ job[p].to = "revoke")
             /\ ~(p \in Threads /\ job[p].to = "set" /\ ~Refused(job[p]))
    BY <1>1, <1>6, IdleIs DEF Afterwards
  <1>7. QED
    BY <1>3, <1>4, <1>5, <1>6

LEMMA UpdateWritesStep ==
    ASSUME AuthAssumption, AuthInv, NEW p \in Procs, UpdateWrites(p) PROVE AuthInv'
  <1> DEFINE kind == KindOf(job[p])
             refused == Refused(job[p])
             rec == IF refused THEN file[kind].rec ELSE Becomes(job[p])
             entry == [stamp |-> file[kind].stamp + 1, rec |-> rec]
             mine == Afterwards(p)
  <1>1. /\ TypeOK /\ GroupFits /\ CacheFits /\ SessionsFit /\ WritesFit /\ Throttled
        /\ \A q \in Procs : JobFits(q)
        /\ kind \in Kinds
    BY KindsOf DEF AuthInv
  <1>2. /\ job[p].at = "write"
        /\ file' = IF refused THEN file ELSE [file EXCEPT ![kind] = entry]
        /\ revoked' = (revoked \/ job[p].to = "revoke")
        /\ used' = used /\ now' = now /\ cache' = cache /\ group' = group /\ gave' = gave /\ sessions' = sessions
        /\ failures' = failures /\ guesses' = guesses /\ overlap' = overlap /\ count' = count
    BY DEF UpdateWrites, Is
  <1>3. job' = [q \in Procs |->
                   IF q = p THEN mine
                   ELSE IF KindOf(job[q]) # kind THEN job[q]
                   ELSE [job[q] EXCEPT !.seen = IF Is(q, "records") THEN @ \cup {rec} ELSE @,
                                       !.crossed = @ \/ LoggingIn(q)]]
    BY DEF UpdateWrites
  <1>4. ChangeFits(p)
    BY <1>1, <1>2 DEF JobFits
  <1>5. /\ rec \in Recs(kind)
        /\ job[p].to = "revoke" => ~refused /\ rec = None
        /\ job[p].via = "token" => ~refused
        /\ job[p].via = "token" /\ job[p].read = None => rec = None
        /\ job[p].to \in {"touch", "revoke"} <=> kind = "tokens"
        /\ job[p].via = "token" <=> kind = "tokens"
    <2>1. file[kind].rec \in Recs(kind)
      BY <1>1, Files
    <2>2. /\ job[p].to \in {"touch", "revoke"} <=> kind = "tokens"
          /\ job[p].via = "token" <=> kind = "tokens"
          /\ job[p].via = "token" => job[p].to # "set"
      BY <1>4 DEF ChangeFits, KindOf
    <2>3. ASSUME refused
          PROVE  /\ rec \in Recs(kind) /\ job[p].to # "revoke" /\ job[p].via # "token"
      BY <2>1, <2>2, <2>3 DEF Refused
    <2>4. ASSUME ~refused
          PROVE  /\ rec \in Recs(kind)
                 /\ job[p].to = "revoke" => rec = None
                 /\ job[p].via = "token" /\ job[p].read = None => rec = None
      BY <1>2, <2>4, BecomesIs
    <2> HIDE DEF kind, rec
    <2>5. QED
      BY <2>2, <2>3, <2>4
  <1>6. rec \in Records
    BY <1>5 DEF Recs, Records
  <1>7. entry \in [stamp : Nat, rec : Records] /\ entry.stamp = file[kind].stamp + 1 /\ entry.rec = rec
        /\ entry.stamp # 0
    <2>1. file[kind].stamp \in Nat
      BY <1>1, Files
    <2> HIDE DEF rec
    <2>2. QED
      BY <1>6, <2>1
  <1>8. /\ mine \in Jobs /\ mine.at \in {"idle", "in", "forget", "reread"}
        /\ mine.at = "in" =>
              /\ job[p].to = "touch" /\ mine.via = job[p].via /\ mine.role = job[p].role
              /\ mine.seen = job[p].seen /\ mine.asked = job[p].asked
        /\ mine.asked <= now /\ mine.stamp = 0
    BY <1>1, AfterwardsIs
  <1>9. ~refused => file' = [file EXCEPT ![kind] = entry]
    BY <1>2
  <1> HIDE DEF mine, entry, rec
  <1>10. /\ file' \in [Kinds -> [stamp : Nat, rec : Records]]
         /\ \A k \in Kinds : k # kind \/ refused => file'[k] = file[k]
         /\ ~refused => file'[kind] = entry
    <2>1. file \in [Kinds -> [stamp : Nat, rec : Records]]
      BY <1>1 DEF TypeOK
    <2> HIDE DEF kind
    <2>2. ASSUME refused PROVE file' = file
      BY <1>2, <2>2
    <2>3. ASSUME ~refused PROVE file' = [file EXCEPT ![kind] = entry]
      BY <1>9, <2>3
    <2> HIDE DEF refused
    <2>4. QED
      BY <1>1, <1>7, <2>1, <2>2, <2>3
  <1>11. file'[kind].rec = rec
    <2>1. ASSUME refused PROVE file'[kind].rec = rec
      <3>1. rec = file[kind].rec
        BY <2>1 DEF rec
      <3>2. file'[kind] = file[kind]
        BY <1>1, <1>10, <2>1
      <3>3. QED
        BY <3>1, <3>2
    <2>2. ASSUME ~refused PROVE file'[kind].rec = rec
      BY <1>7, <1>10, <2>2
    <2>3. QED
      BY <2>1, <2>2
  <1>12. \A k \in Kinds : /\ file'[k].rec \in Recs(k) /\ file'[k].stamp \in Nat /\ file'[k].stamp # 0
                          /\ file'[k].stamp >= file[k].stamp
                          /\ file'[k].stamp = file[k].stamp => file'[k] = file[k]
    <2> SUFFICES ASSUME NEW k \in Kinds
                 PROVE  /\ file'[k].rec \in Recs(k) /\ file'[k].stamp \in Nat /\ file'[k].stamp # 0
                        /\ file'[k].stamp >= file[k].stamp
                        /\ file'[k].stamp = file[k].stamp => file'[k] = file[k]
      OBVIOUS
    <2>1. file[k].stamp \in Nat /\ file[k].stamp # 0 /\ file[k].rec \in Recs(k)
      BY <1>1, Files
    <2>2. ASSUME k # kind \/ refused PROVE file'[k] = file[k]
      BY <1>10, <2>2
    <2>3. ASSUME k = kind, ~refused PROVE file'[k] = entry /\ entry.stamp = file[k].stamp + 1 /\ entry.rec \in Recs(k)
      BY <1>5, <1>7, <1>10, <2>3
    <2> HIDE DEF kind, refused
    <2>4. QED
      BY <2>1, <2>2, <2>3
  <1>13. job'[p] = mine
    BY <1>3
  <1>14. ASSUME NEW q \in Procs, q # p, KindOf(job[q]) # kind PROVE job'[q] = job[q]
    BY <1>3, <1>14
  <1>15. ASSUME NEW q \in Procs, q # p, KindOf(job[q]) = kind
         PROVE  job'[q] = [job[q] EXCEPT !.seen = IF Is(q, "records") THEN @ \cup {rec} ELSE @,
                                         !.crossed = @ \/ LoggingIn(q)]
    BY <1>3, <1>15
  <1>16. ASSUME NEW q \in Procs, q # p
         PROVE  /\ job'[q] \in Jobs /\ job'[q].at = job[q].at /\ job'[q].via = job[q].via
                /\ job'[q].role = job[q].role /\ job'[q].read = job[q].read /\ job'[q].to = job[q].to
    BY <1>1, <1>6, <1>14, <1>15, <1>16, WriteTouches, Fields
  <1>17. job' \in [Procs -> Jobs]
    <2>1. job' = [q \in Procs |-> job'[q]]
      BY <1>3
    <2>2. \A q \in Procs : job'[q] \in Jobs
      BY <1>8, <1>13, <1>16
    <2>3. QED
      BY <2>1, <2>2
  <1>18. TypeOK'
    <2>1. used' \in Int /\ revoked' \in BOOLEAN
      BY <1>1, <1>2 DEF TypeOK
    <2>2. \A k \in Kinds : file'[k].rec \in Recs(k) /\ cache'[k].rec \in Recs(k) /\ file'[k].stamp # 0
      BY <1>1, <1>2, <1>12, Files
    <2>3. QED
      BY <1>1, <1>2, <1>10, <1>17, <2>1, <2>2 DEF TypeOK
  <1>19. GroupFits' /\ SessionsFit'
    BY <1>1, <1>2 DEF GroupFits, SessionsFit, SessionFits
  <1>20. CacheFits'
    <2> SUFFICES ASSUME NEW k \in Kinds
                 PROVE  /\ cache[k].stamp <= file'[k].stamp
                        /\ cache[k].stamp = file'[k].stamp => cache[k].rec = file'[k].rec
      BY <1>2 DEF CacheFits
    <2>1. cache[k].stamp \in Nat /\ file[k].stamp \in Nat
      BY <1>1, Files
    <2>2. cache[k].stamp <= file[k].stamp /\ (cache[k].stamp = file[k].stamp => cache[k].rec = file[k].rec)
      BY <1>1 DEF CacheFits
    <2>3. QED
      BY <1>12, <2>1, <2>2
  <1>21. JobFits(p)'
    <2>1. mine.at = "in" => InFits(p)' /\ mine.via = "token"
      <3>1. job[p].to = "touch" => TokenFits(p) /\ job[p].via = "token"
        BY <1>4 DEF ChangeFits
      <3>2. QED
        BY <1>8, <1>13, <3>1 DEF InFits, TokenFits
    <2>2. KindOf(mine) \in Kinds /\ file'[KindOf(mine)].stamp \in Nat
      BY <1>12, KindsOf
    <2>3. QED
      BY <1>2, <1>8, <1>13, <2>1, <2>2 DEF JobFits
  <1>22. ASSUME NEW q \in Procs, q # p PROVE JobFits(q)'
    <2> DEFINE mykind == KindOf(job[q])
    <2>1. JobFits(q) /\ mykind \in Kinds /\ file[mykind].stamp \in Nat /\ job[q].stamp \in Nat
          /\ file'[mykind].stamp \in Nat /\ file'[mykind].stamp >= file[mykind].stamp
      BY <1>1, <1>12, Fields, Files
    <2>2. ASSUME mykind # kind PROVE JobFits(q)'
      <3>1. job'[q] = job[q] /\ file'[mykind] = file[mykind]
        BY <1>10, <1>14, <1>22, <2>1, <2>2
      <3>2. LoginFits(q) => (mykind = "users" => LoginFits(q)')
        BY <1>2, <3>1 DEF LoginFits
      <3>3. LoginFits(q) /\ job[q].at \in {"check", "pam", "passed", "remember", "open"} => mykind = "users"
        BY DEF LoginFits, KindOf, AuthAssumption
      <3>4. RecordsFit(q) => RecordsFit(q)'
        BY <1>2, <3>1 DEF RecordsFit
      <3>5. ComesFit(q) => ComesFit(q)'
        BY <1>2, <3>1 DEF ComesFit
      <3>6. InFits(q) => InFits(q)'
        BY <1>2, <3>1 DEF InFits, TokenFits
      <3>7. ChangeFits(q) => ChangeFits(q)'
        BY <1>2, <3>1 DEF ChangeFits, TokenFits
      <3>8. QED
        BY <1>2, <2>1, <3>1, <3>2, <3>3, <3>4, <3>5, <3>6, <3>7 DEF JobFits
    <2>3. ASSUME mykind = kind PROVE JobFits(q)'
      <3>1. /\ job'[q].at = job[q].at /\ job'[q].via = job[q].via /\ job'[q].word = job[q].word
            /\ job'[q].role = job[q].role /\ job'[q].s = job[q].s
            /\ job'[q].asked = job[q].asked /\ job'[q].stamp = job[q].stamp
            /\ job'[q].to = job[q].to /\ job'[q].read = job[q].read
            /\ job'[q].seen = (IF job[q].at = "records" THEN job[q].seen \cup {rec} ELSE job[q].seen)
            /\ LoggingIn(q) => job'[q].crossed
            /\ KindOf(job'[q]) = mykind
        BY <1>1, <1>6, <1>15, <1>22, <2>3, WriteTouches
      <3>2. LoggingIn(q) /\ LoginFits(q) => LoginFits(q)'
        BY <3>1 DEF LoginFits
      <3>3. job[q].at = "records" /\ RecordsFit(q) => RecordsFit(q)'
        <4>1. file'[mykind].rec = rec
          BY <1>11, <2>3
        <4>2. QED
          BY <1>2, <3>1, <4>1 DEF RecordsFit
      <3>4. ComesFit(q) => ComesFit(q)'
        BY <1>2, <3>1 DEF ComesFit
      <3>5. TokenFits(q) => TokenFits(q)'
        BY <3>1 DEF TokenFits
      <3>6. InFits(q) /\ job[q].at = "in" => InFits(q)'
        BY <1>2, <3>1, <3>5 DEF InFits
      <3>7. ChangeFits(q) => ChangeFits(q)'
        BY <3>1, <3>5 DEF ChangeFits
      <3>8. job[q].at \in {"check", "pam", "passed", "remember", "open"} => LoggingIn(q)
        BY DEF LoggingIn
      <3> HIDE DEF mykind
      <3>9. file[mykind].stamp = file[KindOf(job[q])].stamp
        BY DEF mykind
      <3>10. QED
        BY <1>2, <2>1, <3>1, <3>2, <3>3, <3>4, <3>6, <3>7, <3>8, <3>9 DEF JobFits
    <2>4. QED
      BY <2>2, <2>3
  <1>23. WritesFit'
    <2> SUFFICES ASSUME ~overlap PROVE WritesFit'
      BY <1>2 DEF WritesFit
    <2>1. /\ \A q, r \in Procs : job[q].at = "write" /\ job[r].at = "write" /\ job[q].via = "token"
                                  /\ job[r].via = "token" => q = r
          /\ \A q \in Procs : job[q].at = "write" /\ job[q].via = "token" => job[q].read = file.tokens.rec
          /\ revoked => file.tokens.rec = None
      BY <1>1 DEF WritesFit, Is
    <2>2. \A q \in Procs : job'[q].at = "write" => /\ q # p /\ job[q].at = "write" /\ job'[q].via = job[q].via
                                                    /\ job'[q].read = job[q].read
      BY <1>8, <1>13, <1>16
    <2>3. \A q, r \in Procs : job'[q].at = "write" /\ job'[r].at = "write" /\ job'[q].via = "token"
                              /\ job'[r].via = "token" => q = r
      BY <2>1, <2>2
    <2>4. ASSUME kind = "tokens"
          PROVE  /\ \A q \in Procs : job'[q].at = "write" => job'[q].via # "token"
                 /\ revoked' => file'.tokens.rec = None
      <3>1. job[p].via = "token"
        BY <1>5, <2>4
      <3>2. \A q \in Procs : job'[q].at = "write" => job'[q].via # "token"
        BY <1>2, <2>1, <2>2, <3>1
      <3>3. file'.tokens.rec = rec
        BY <1>11, <2>4
      <3>4. revoked' => rec = None
        <4>1. job[p].read = file.tokens.rec
          BY <1>2, <2>1, <3>1
        <4>2. QED
          BY <1>2, <1>5, <2>1, <3>1, <4>1
      <3>5. QED
        BY <3>2, <3>3, <3>4
    <2>5. ASSUME kind # "tokens"
          PROVE  /\ file'.tokens = file.tokens /\ revoked' = revoked
      <3>1. "tokens" \in Kinds
        BY DEF Kinds
      <3>2. file'["tokens"] = file["tokens"]
        BY <1>10, <2>5, <3>1
      <3>3. job[p].to # "revoke"
        BY <1>5, <2>5
      <3>4. revoked' = revoked
        BY <1>1, <1>2, <3>3 DEF TypeOK
      <3>5. QED
        BY <3>2, <3>4
    <2>6. \A q \in Procs : job'[q].at = "write" /\ job'[q].via = "token" => job'[q].read = file'.tokens.rec
      BY <2>1, <2>2, <2>4, <2>5
    <2>7. revoked' => file'.tokens.rec = None
      BY <2>1, <2>4, <2>5
    <2>8. QED
      BY <2>3, <2>6, <2>7 DEF WritesFit, Is
  <1>24. Throttled'
    <2>1. Trying' = Trying
      BY <1>2, <1>8, <1>13, <1>16 DEF Trying, Procs
    <2>2. QED
      BY <1>1, <1>2, <2>1 DEF Throttled, ThrottleHolds
  <1>25. QED
    BY <1>18, <1>19, <1>20, <1>21, <1>22, <1>23, <1>24 DEF AuthInv

-----------------------------------------------------------------------------
LEMMA AuthNext == AuthAssumption /\ AuthInv /\ Next => AuthInv'
  <1> SUFFICES ASSUME AuthAssumption, AuthInv, Next PROVE AuthInv'
    OBVIOUS
  <1>1. ASSUME NEW t \in Threads, NEW word \in 1 .. count.changes + 2, Attempt(t, word) \/ Confirm(t, word)
        PROVE  AuthInv'
    <2>1. word \in Nat
      BY DEF AuthInv, TypeOK, Counts
    <2>2. QED
      BY <1>1, <2>1, AttemptStep, ConfirmStep
  <1>2. ASSUME NEW t \in Threads,
               \/ Stat(t) \/ CheckLocal(t) \/ CheckPam(t) \/ Fails(t) \/ Passes(t)
               \/ OpenLocal(t) \/ OpenPam(t) \/ AnswerLocal(t) \/ AnswerPam(t) \/ KeepRole(t)
               \/ Present(t) \/ AnswerToken(t) \/ Answered(t) \/ FindToken(t) \/ Forgets(t) \/ Rereads(t)
        PROVE  AuthInv'
    BY <1>2, StatStep, CheckLocalStep, CheckPamStep, FailsStep, PassesStep, OpenLocalStep, OpenPamStep,
       AnswerLocalStep, AnswerPamStep, KeepRoleStep, PresentStep, AnswerTokenStep, AnsweredStep,
       FindTokenStep, ForgetsStep, RereadsStep
  <1>3. ASSUME NEW t \in Threads, NEW s \in 1 .. MaxLogins, Comes(t, s) \/ Logout(t, s) PROVE AuthInv'
    BY <1>3, ComesStep, LogoutStep
  <1>4. ASSUME NEW p \in Procs,
               \/ \E word \in {0, New}, role \in Roles \cup {None} : SetUser(p, word, role)
               \/ RemoveUser(p) \/ RevokeToken(p)
        PROVE  AuthInv'
    BY <1>4, SetUserStep, RemoveUserStep, RevokeTokenStep
  <1>5. ASSUME NEW p \in Procs, UpdateReads(p) \/ UpdateWrites(p) PROVE AuthInv'
    BY <1>5, UpdateReadsStep, UpdateWritesStep
  <1>6. ASSUME NEW role \in Roles \cup {None}, GroupMoves(role) PROVE AuthInv'
    BY <1>6, GroupMovesStep
  <1>7. QED
    BY <1>1, <1>2, <1>3, <1>4, <1>5, <1>6, AdoptUserStep, TickStep DEF Next

LEMMA AuthStays == AuthInv /\ UNCHANGED authVars => AuthInv'
  <1> SUFFICES ASSUME AuthInv, UNCHANGED authVars PROVE AuthInv'
    OBVIOUS
  <1>1. /\ now' = now /\ file' = file /\ cache' = cache /\ group' = group /\ gave' = gave
        /\ sessions' = sessions /\ job' = job /\ failures' = failures /\ guesses' = guesses
        /\ used' = used /\ overlap' = overlap /\ revoked' = revoked /\ count' = count
    BY DEF authVars
  <1>2. TypeOK' /\ GroupFits' /\ CacheFits'
    BY <1>1 DEF AuthInv, TypeOK, GroupFits, CacheFits
  <1>3. SessionsFit'
    BY <1>1 DEF AuthInv, SessionsFit, SessionFits
  <1>4. ASSUME NEW p \in Procs PROVE JobFits(p)'
    <2>1. LoginFits(p) => LoginFits(p)'
      BY <1>1 DEF LoginFits
    <2>2. RecordsFit(p) => RecordsFit(p)'
      BY <1>1 DEF RecordsFit
    <2>3. ComesFit(p) => ComesFit(p)'
      BY <1>1 DEF ComesFit, SessionFits
    <2>4. InFits(p) => InFits(p)'
      BY <1>1 DEF InFits, TokenFits
    <2>5. ChangeFits(p) => ChangeFits(p)'
      BY <1>1 DEF ChangeFits, TokenFits
    <2>6. JobFits(p)
      BY DEF AuthInv
    <2>7. QED
      BY <1>1, <2>1, <2>2, <2>3, <2>4, <2>5, <2>6 DEF JobFits
  <1>5. WritesFit'
    BY <1>1 DEF AuthInv, WritesFit, Is
  <1>6. Throttled'
    <2>1. Trying' = Trying
      BY <1>1 DEF Trying
    <2>2. QED
      BY <1>1, <2>1 DEF AuthInv, Throttled, ThrottleHolds
  <1>7. QED
    BY <1>2, <1>3, <1>4, <1>5, <1>6 DEF AuthInv

LEMMA AuthStep == AuthAssumption /\ AuthInv /\ [Next]_authVars => AuthInv'
  BY AuthNext, AuthStays

\* The invariant lets in only who is entitled.
LEMMA AuthGives == AuthInv => OnlyTheEntitled
  <1> SUFFICES ASSUME AuthInv PROVE OnlyTheEntitled
    OBVIOUS
  <1>1. \A t \in Threads : t \in Procs /\ JobFits(t)
    BY DEF AuthInv, Procs
  <1>2. \A t \in Threads : job[t].at = "in" => InFits(t)
    BY <1>1 DEF JobFits
  <1>3. SessionsHold
    BY <1>2 DEF SessionsHold, InFits, Is
  <1>4. TokensHold
    BY <1>2 DEF TokensHold, InFits, TokenFits, Is, AuthInv, WritesFit
  <1>5. QED
    BY <1>3, <1>4 DEF OnlyTheEntitled, AuthInv, Throttled
=============================================================================
