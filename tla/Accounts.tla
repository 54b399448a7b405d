------------------------------- MODULE Accounts -------------------------------
(***************************************************************************)
(* Accounts of the example: models/verification.go, user.go, session.go,   *)
(* key.go and user_jwt.go.                                                 *)
(*                                                                         *)
(* A user proves that a receiver, a phone or an email, is theirs by a code *)
(* sent to it, and with the verified row signs up or resets the password.  *)
(* Requests run concurrently.  A read-write transaction of Spanner is one  *)
(* step, but it may be aborted and run again, and variables its function   *)
(* has assigned keep their values; DoVerification reads a row and updates  *)
(* it later.  Sending the code, the provider and the format of names and   *)
(* passwords are left out.                                                 *)
(***************************************************************************)
EXTENDS Integers, Sequences, FiniteSets

CONSTANTS
    Request,         \* requests that may run at one time
    Receiver, Code, Password, UserId,
    Interval,        \* config.SMSDeliveryInterval
    Lifetime,        \* 30 minutes
    Window,          \* of the limiter in DoVerification, 60 minutes
    ValidateLimit,   \* config.VerificationValidateLimit
    CleanupLimit,    \* sessions one cleanup deletes at most, 1000
    MaxTime, MaxVerifications, MaxSessions, MaxResets,    \* bounds
    MaxAborts, MaxFailures, MaxLostReplies     \* bounds on faults

AccountsAssumption ==
    /\ {Interval, Lifetime, Window, ValidateLimit} \subseteq Nat \ {0}
    /\ {CleanupLimit, MaxVerifications, MaxSessions, MaxResets, MaxAborts, MaxFailures,
      MaxLostReplies} \subseteq Nat
    /\ MaxTime \in Nat \ {0} /\ IsFiniteSet(Request)

VARIABLES
    now,
    requests,        \* what each running request holds
    verifications,   \* table verifications
    users,           \* table users
    sessions,        \* table sessions, each with the password that opened it
    keys, poolKeys,  \* tables keys and pool_keys: user ids
    unanswered,      \* users whose insert into the pool is not answered and tried again
    tries,           \* the limiter's sorted set of each receiver: score of each member
    issued,          \* ids of verifications given out
    inserted,        \* history: inserts into verifications
    entered,         \* history: codes entered for a receiver
    consumed, reused,     \* history: verifications used, used more than once
    signedUp, lost,  \* history: sign-ups; users whose insert took effect unanswered
    overfull,        \* history: users with more sessions than one cleanup deletes
    resets, opened, aborts, failures

pool == <<poolKeys, unanswered, lost>>
accounts == <<users, sessions, keys, pool, signedUp, overfull, resets, opened, failures>>
history == <<inserted, entered, consumed, reused>>
vars == <<now, requests, verifications, accounts, tries, issued, history, aborts>>

Idle == [step |-> "idle"]

Init ==
    /\ now = 1
    /\ requests = [p \in Request |-> Idle]
    /\ verifications = <<>> /\ users = <<>> /\ sessions = {}
    /\ keys = {} /\ poolKeys = {} /\ unanswered = {} /\ signedUp = {} /\ lost = {}
    /\ tries = [r \in Receiver |-> <<>>]
    /\ issued = 0
    /\ inserted = <<>> /\ entered = {} /\ consumed = {} /\ reused = {}
    /\ overfull = {}
    /\ resets = 0 /\ opened = 0 /\ aborts = 0 /\ failures = 0

Tick ==
    /\ now < MaxTime
    /\ now' = now + 1
    /\ UNCHANGED <<requests, verifications, accounts, tries, issued, history, aborts>>

Reply(p) == requests' = [requests EXCEPT ![p] = Idle]

-----------------------------------------------------------------------------
(* CreateVerification.                                                     *)

BeginVerification(p, r, c) ==
    /\ requests[p] = Idle /\ issued < MaxVerifications
    /\ issued' = issued + 1
    /\ requests' = [requests EXCEPT ![p] =
         [step |-> "insert", id |-> issued + 1,
          row |-> [receiver |-> r, code |-> c, created |-> now, verified |-> FALSE]]]
    /\ UNCHANGED <<now, verifications, accounts, tries, history, aborts>>

\* Ids of a receiver's rows of which none is newer: those checkVerificationFrequency and
\* findVerificationByReceiverAndCode may read.
Newest(ids) ==
    {i \in ids : \A j \in ids : verifications[j].created <= verifications[i].created}
RowsOf(r) == {i \in DOMAIN verifications : verifications[i].receiver = r}

\* Mutant: no interval between two codes.
RecentNever(i) == FALSE
Recent(i) == verifications[i].created > now - Interval

InsertVerification(p) ==
    /\ requests[p].step = "insert"
    /\ LET id == requests[p].id
           row == requests[p].row
           last == Newest(RowsOf(row.receiver))
           recent == {i \in last : Recent(i)}
       IN  \/ /\ recent # {}
              /\ Reply(p)
              /\ UNCHANGED <<verifications, inserted, aborts>>
           \/ \E i \in recent :      \* aborted, with vf = last
                /\ aborts < MaxAborts /\ aborts' = aborts + 1
                /\ requests' = [requests EXCEPT ![p].id = i, ![p].row = verifications[i]]
                /\ UNCHANGED <<verifications, inserted>>
           \/ /\ \A i \in last : ~ Recent(i)
              /\ Reply(p)
              /\ UNCHANGED aborts
              /\ IF id \in DOMAIN verifications       \* AlreadyExists
                 THEN UNCHANGED <<verifications, inserted>>
                 ELSE /\ verifications' = [i \in DOMAIN verifications \cup {id} |->
                                             IF i = id THEN row ELSE verifications[i]]
                      /\ inserted' = Append(inserted, [id |-> id, receiver |-> row.receiver,
                                                       created |-> row.created, at |-> now])
    /\ UNCHANGED <<now, accounts, tries, issued, entered, consumed, reused>>

-----------------------------------------------------------------------------
(* DoVerification.                                                         *)

FindVerification(p, id, code) ==
    /\ requests[p] = Idle
    /\ id \in DOMAIN verifications
    /\ requests' = [requests EXCEPT ![p] =
         [step |-> "check", id |-> id, row |-> verifications[id], code |-> code]]
    /\ entered' = entered \cup {<<verifications[id].receiver, code>>}
    /\ UNCHANGED <<now, verifications, accounts, tries, issued, inserted, consumed, reused, aborts>>

\* Members of the limiter's set that ZREMRANGEBYSCORE leaves, and the set of them.
Live(r) == {m \in DOMAIN tries[r] : tries[r][m] > now - Window}
LiveTries(r) == [m \in Live(r) |-> tries[r][m]]

\* A member that is new.
Unused(r) == CHOOSE m \in 1..(Cardinality(Live(r)) + 1) : m \notin Live(r)

\* The limit on wrong codes is checked before a code is matched and counted after.
\* Mutant: it is not checked.
MayTryAlways(r) == TRUE
MayTry(r) == ValidateLimit - Cardinality(Live(r)) >= 1

CheckLimit(p) ==
    /\ requests[p].step = "check"
    /\ LET r == requests[p].row.receiver IN
       /\ tries' = [tries EXCEPT ![r] = LiveTries(r)]
       /\ IF MayTry(r) THEN requests' = [requests EXCEPT ![p].step = "match"] ELSE Reply(p)
    /\ UNCHANGED <<now, verifications, accounts, issued, history, aborts>>

\* The verification that is meant: the one asked for, or the newest of the receiver
\* with this code.  Mutant: the newest of the receiver.
MeantAnyCode(q) ==
    IF q.row.code = q.code THEN {[id |-> q.id, row |-> q.row]}
    ELSE {[id |-> i, row |-> verifications[i]] : i \in Newest(RowsOf(q.row.receiver))}
Meant(q) ==
    IF q.row.code = q.code THEN {[id |-> q.id, row |-> q.row]}
    ELSE {[id |-> i, row |-> verifications[i]] :
            i \in Newest({j \in RowsOf(q.row.receiver) : verifications[j].code = q.code})}

Expired(row) == now > row.created + Lifetime

MatchCode(p) ==
    /\ requests[p].step = "match"
    /\ LET q == requests[p]
           r == q.row.receiver
       IN  \/ /\ Meant(q) = {} \/ \E v \in Meant(q) : Expired(v.row)
              /\ tries' = [tries EXCEPT ![r] = [m \in Live(r) \cup {Unused(r)} |->
                                               IF m \in Live(r) THEN @[m] ELSE now]]
              /\ Reply(p)
           \/ /\ \E v \in Meant(q) :
                   /\ ~ Expired(v.row)
                   /\ requests' = [requests EXCEPT ![p] = [step |-> "update", id |-> v.id]]
              /\ tries' = [tries EXCEPT ![r] = <<>>]
    /\ UNCHANGED <<now, verifications, accounts, issued, history, aborts>>

\* An update of a row that was deleted since is an error.
UpdateVerification(p) ==
    /\ requests[p].step = "update"
    /\ LET id == requests[p].id IN
       IF id \in DOMAIN verifications
       THEN verifications' = [verifications EXCEPT ![id].verified = TRUE]
       ELSE UNCHANGED verifications
    /\ Reply(p)
    /\ UNCHANGED <<now, accounts, tries, issued, history, aborts>>

-----------------------------------------------------------------------------
(* CreateOrResetUser, CreateSession: one transaction each.                 *)

\* Mutants: the verification stays; the key stays in the pool,
\* or is not stored; no session is deleted.
WithoutKept(id) == verifications
Without(id) == [i \in DOMAIN verifications \ {id} |-> verifications[i]]
RestOfPoolKept(u) == poolKeys
RestOfPool(u) == poolKeys \ {u}

KeysWith(u) == keys \cup {u}

\* The key is inserted, and the transaction fails as a whole for a user who has one.
\* Mutant: it is stored over the other.
KeyFreeAlways(u) == TRUE
KeyFree(u) == u \notin keys

SessionsOf(u) == {s \in sessions : s.user = u}

\* cleanupSessions; it reports no error of its query.
DeletedNone(u) == {{}}
Deleted(u) ==
    IF Cardinality(SessionsOf(u)) <= CleanupLimit THEN {SessionsOf(u)}
    ELSE {gone \in SUBSET SessionsOf(u) : Cardinality(gone) = CleanupLimit}
Cleanup(u, password) ==
    \E gone \in Deleted(u) \cup {{}} :
        /\ \/ gone \in Deleted(u) /\ UNCHANGED failures
           \/ gone = {} /\ failures < MaxFailures /\ failures' = failures + 1
        /\ sessions' = (sessions \ gone) \cup
             {[user |-> u, id |-> opened + 1, password |-> password]}

UserOf(r) == {u \in DOMAIN users : users[u].receiver = r}

CreateOrResetUser(id, password) ==
    /\ resets < MaxResets /\ opened < MaxSessions
    /\ id \in DOMAIN verifications /\ verifications[id].verified
    /\ resets' = resets + 1 /\ opened' = opened + 1
    /\ verifications' = Without(id)
    /\ consumed' = consumed \cup {id}
    /\ reused' = reused \cup ({id} \cap consumed)
    /\ LET r == verifications[id].receiver IN
       \/ \E u \in UserOf(r) :
            /\ users' = [users EXCEPT ![u].password = password]
            /\ overfull' = IF Cardinality(SessionsOf(u)) > CleanupLimit
                           THEN overfull \cup {u} ELSE overfull
            /\ Cleanup(u, password)
            /\ UNCHANGED <<keys, poolKeys, signedUp>>
       \/ /\ UserOf(r) = {}
          /\ \E u \in poolKeys :
               /\ KeyFree(u)
               /\ signedUp' = signedUp \cup {[user |-> u, receiver |-> r]}
               /\ users' = [v \in DOMAIN users \cup {u} |->
                              IF v = u THEN [receiver |-> r, password |-> password] ELSE users[v]]
               /\ keys' = KeysWith(u)
               /\ poolKeys' = RestOfPool(u)
               /\ sessions' = sessions \cup
                    {[user |-> u, id |-> opened + 1, password |-> password]}
          /\ UNCHANGED <<overfull, failures>>
    /\ UNCHANGED <<now, requests, unanswered, lost, tries, issued, inserted, entered, aborts>>

\* readUserByPhone, readUserByEmail and the comparison of the password.
CreateSession(r, password) ==
    /\ opened < MaxSessions
    /\ \E u \in UserOf(r) :
         /\ users[u].password = password
         /\ sessions' = sessions \cup {[user |-> u, id |-> opened + 1, password |-> password]}
    /\ opened' = opened + 1
    /\ UNCHANGED <<now, requests, verifications, users, keys, pool, signedUp, overfull, resets,
                   failures, tries, issued, history, aborts>>

\* GeneratePoolKey inserts a user that is new, and does so again until it is told that
\* it did: after a lost answer also a user who was consumed since.  While the row is there
\* the insert fails.
PersistPoolKey(u) ==
    /\ u \notin poolKeys
    /\ u \notin keys \/ u \in unanswered
    /\ poolKeys' = poolKeys \cup {u}
    /\ \/ unanswered' = unanswered \ {u} /\ UNCHANGED lost
       \/ /\ Cardinality(lost) < MaxLostReplies
          /\ unanswered' = unanswered \cup {u} /\ lost' = lost \cup {u}
    /\ UNCHANGED <<now, requests, verifications, users, sessions, keys, signedUp, overfull,
                   resets, opened, failures, tries, issued, history, aborts>>

\* AuthenticateWithToken: the user a session stands for.
Authenticated(s) == {u \in DOMAIN users \cap keys : s \in sessions /\ s.user = u}

Next ==
    \/ Tick
    \/ \E p \in Request :
         \/ \E r \in Receiver, c \in Code : BeginVerification(p, r, c)
         \/ \E id \in 1..MaxVerifications, c \in Code : FindVerification(p, id, c)
         \/ InsertVerification(p) \/ CheckLimit(p) \/ MatchCode(p) \/ UpdateVerification(p)
    \/ \E id \in 1..MaxVerifications, w \in Password : CreateOrResetUser(id, w)
    \/ \E r \in Receiver, w \in Password : CreateSession(r, w)
    \/ \E u \in UserId : PersistPoolKey(u)

Spec == Init /\ [][Next]_vars

-----------------------------------------------------------------------------
Row == [receiver : Receiver, code : Code, created : 1..MaxTime, verified : BOOLEAN]

\* Types, and that the rows of users, keys and sessions belong together.
TypeOK ==
    /\ now \in 1..MaxTime
    /\ \A id \in DOMAIN verifications : id \in 1..issued /\ verifications[id] \in Row
    /\ DOMAIN users = keys
    /\ keys \cup poolKeys \subseteq UserId
    /\ \A s \in sessions : s.user \in keys /\ s.id \in 1..opened

\* Whoever has signed up once keeps the user and the key, and nobody else gets them: the
\* transaction that creates a user consumes the key (consumePoolKey), and fails for one
\* that is taken (CreateOrResetUser).  The pool has a taken key only if the answer to its
\* insert was lost, and the row consumed before GeneratePoolKey inserts it again.
OneOwner ==
    /\ keys \cap poolKeys \subseteq lost
    /\ signedUp = {[user |-> u, receiver |-> users[u].receiver] : u \in DOMAIN users}
    /\ \A a, b \in signedUp : a.user = b.user <=> a.receiver = b.receiver

\* A verification is verified only if its code was entered for its receiver, also when
\* another of the receiver was asked for, or it was deleted meanwhile (DoVerification).
VerifiedByItsCode ==
    \A id \in DOMAIN verifications : verifications[id].verified =>
        <<verifications[id].receiver, verifications[id].code>> \in entered

\* A verification is used once.  Only after CreateVerification was aborted may it come
\* back: its function has assigned vf = last and then inserts that row again.
ReuseNeedsAbort == reused # {} => aborts > 0

\* After a reset of the password no session authenticates that was opened with another
\* one, but for more than CleanupLimit sessions or a query that failed unseen.
ResetEndsSessions ==
    \A s \in sessions : \A u \in Authenticated(s) :
        s.password = users[u].password \/ u \in overfull \/ failures > 0

\* Requests that run at one time may each try one wrong code too many, but no more.
GuessesAreBounded ==
    \A r \in Receiver : Cardinality(Live(r)) <= ValidateLimit + Cardinality(Request) - 1

\* Between an insert and the creation of the row before it is the interval of two codes,
\* unless that row was used, also for requests that run at one time.
CodesArePaced ==
    \A j \in DOMAIN inserted : \A i \in 1..(j - 1) :
        \/ inserted[i].receiver # inserted[j].receiver
        \/ inserted[i].id \in consumed
        \/ inserted[j].at - inserted[i].created >= Interval
=============================================================================
