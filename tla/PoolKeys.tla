------------------------------- MODULE PoolKeys -------------------------------
(***************************************************************************)
(* Users of the network that the exchange and the example create for       *)
(* themselves: AddBroker in persistence/broker.go, and GeneratePoolKey in  *)
(* example/models/pool_key.go with the service that calls it for ever.     *)
(*                                                                         *)
(* Both create a user, set its PIN and store a row.  The example also      *)
(* sends two transfers, of which the second carries the user's public key  *)
(* to the exchange.  It repeats each part until it succeeds; AddBroker     *)
(* gives up.  A call may fail, or take effect and fail all the same, and   *)
(* the process may die.                                                    *)
(***************************************************************************)
EXTENDS Integers, FiniteSets

CONSTANTS
    PinSetOnce,      \* whether the network refuses a PIN for a user who has one
    TraceStrict,     \* whether it refuses another transfer with a known trace id
    MaxUsers, MaxRestarts, MaxFailures, MaxLostReplies    \* bounds

PoolKeysAssumption ==
    /\ {PinSetOnce, TraceStrict} \subseteq BOOLEAN
    /\ {MaxUsers, MaxRestarts, MaxFailures, MaxLostReplies} \subseteq Nat

Kind == {"pool", "broker"}
User == 1..MaxUsers

VARIABLES
    created,         \* users at the network
    netPin,          \* their PIN there: the number of the try that set it, 0 for none
    registered,      \* the key the exchange has for them, likewise
    job,             \* what each kind of process is doing
    poolKeys,        \* table pool_keys, by user
    keys,            \* users with a row in table keys
    brokers,         \* table brokers, by user
    loaded,          \* brokers the running exchange knows
    orphans,         \* history: users that were given up
    restarts, failures,
    lost             \* calls whose answer was lost, as user and step

network == <<created, netPin, registered>>
tables == <<poolKeys, keys, brokers>>
faults == <<restarts, failures, lost>>
vars == <<network, job, tables, loaded, orphans, faults>>

Idle == [step |-> "idle", user |-> 0, tries |-> 1, pin |-> 0, ocean |-> 0]

Init ==
    /\ created = 0
    /\ netPin = [u \in User |-> 0] /\ registered = [u \in User |-> 0]
    /\ job = [k \in Kind |-> Idle]
    /\ poolKeys = <<>> /\ keys = {} /\ brokers = <<>>
    /\ loaded = {} /\ orphans = {}
    /\ restarts = 0 /\ failures = 0 /\ lost = {}

\* A call of a job with its effect, what its caller does if it is told so, and if not.
\* The answer of a step is lost once at most.
Call(k, effect, none, ok, err) ==
    \/ effect /\ ok /\ UNCHANGED <<failures, lost>>
    \/ /\ Cardinality(lost) < MaxLostReplies
       /\ <<job[k].user, job[k].step>> \notin lost
       /\ lost' = lost \cup {<<job[k].user, job[k].step>>}
       /\ effect /\ err /\ UNCHANGED failures
    \/ failures < MaxFailures /\ failures' = failures + 1 /\ none /\ err /\ UNCHANGED lost

\* After an error GeneratePoolKey repeats the part with a fresh PIN or key; AddBroker
\* returns the error.  Mutant: both do.
GiveUp(k) == job' = [job EXCEPT ![k] = Idle] /\ orphans' = orphans \cup {job[k].user}
AfterErrorNever(k) == job' = [job EXCEPT ![k] = Idle] /\ UNCHANGED orphans
AfterError(k) ==
    IF k = "broker" THEN GiveUp(k)
    ELSE job' = [job EXCEPT ![k].tries = @ + 1] /\ UNCHANGED orphans

\* The user in the answer.
NewUser == created + 1

CreateUser(k) ==
    /\ job[k].step = "idle" /\ created < MaxUsers
    /\ Call(k, created' = created + 1, UNCHANGED created,
            job' = [job EXCEPT ![k].step = "pin", ![k].user = NewUser] /\ UNCHANGED orphans,
            orphans' = orphans \cup (1..created' \ 1..created) /\ UNCHANGED job)
    /\ UNCHANGED <<netPin, registered, tables, loaded, restarts>>

\* The PIN and the key of the current try.  Mutants: those of the first one.
FirstTry(k) == 1
PinOf(k) == job[k].tries
OceanKeyOf(k) == job[k].tries

PinRefused(k) == PinSetOnce /\ netPin[job[k].user] # 0

SetupPIN(k) ==
    /\ job[k].step = "pin"
    /\ IF PinRefused(k)
       THEN k = "broker" /\ GiveUp(k) /\ UNCHANGED <<netPin, failures, lost>>
       ELSE Call(k, netPin' = [netPin EXCEPT ![job[k].user] = job[k].tries], UNCHANGED netPin,
                 /\ job' = [job EXCEPT ![k].step = IF k = "pool" THEN "ocean" ELSE "persist",
                                       ![k].tries = 1, ![k].pin = PinOf(k)]
                 /\ UNCHANGED orphans,
                 AfterError(k))
    /\ UNCHANGED <<created, registered, tables, loaded, restarts>>

\* The transfer with the key has one trace id for a user, so that only the first takes
\* effect, and a second is answered as the first or refused.
KeyRefused(k) == TraceStrict /\ registered[job[k].user] # 0

SetupOceanKey(k) ==
    /\ job[k].step = "ocean" /\ ~ KeyRefused(k)
    /\ Call(k, registered' = [registered EXCEPT ![job[k].user] = IF @ = 0 THEN job[k].tries ELSE @],
            UNCHANGED registered,
            /\ job' = [job EXCEPT ![k].step = "persist", ![k].tries = 1, ![k].ocean = OceanKeyOf(k)]
            /\ UNCHANGED orphans,
            AfterError(k))
    /\ UNCHANGED <<created, netPin, tables, loaded, restarts>>

With(table, u, row) == [v \in DOMAIN table \cup {u} |-> IF v = u THEN row ELSE table[v]]

\* Mutant: a job that is done goes on.
DoneNot(k) == job[k]
Done(k) == Idle

\* The rows are inserted, which fails if there is one.
PersistKey ==
    /\ job["pool"].step = "persist" /\ job["pool"].user \notin DOMAIN poolKeys
    /\ LET j == job["pool"] IN
       Call("pool", poolKeys' = With(poolKeys, j.user, [pin |-> j.pin, ocean |-> j.ocean]),
            UNCHANGED poolKeys,
            job' = [job EXCEPT !["pool"] = Done("pool")],
            UNCHANGED job)
    /\ UNCHANGED <<network, keys, brokers, loaded, orphans, restarts>>

PersistBroker ==
    /\ job["broker"].step = "persist"
    /\ LET j == job["broker"] IN
       Call("broker", brokers' = With(brokers, j.user, j.pin), UNCHANGED brokers,
            job' = [job EXCEPT !["broker"] = Idle], job' = [job EXCEPT !["broker"] = Idle])
    /\ UNCHANGED <<network, poolKeys, keys, loaded, orphans, restarts>>

\* consumePoolKey and the insert of the key, in the transaction of CreateOrResetUser;
\* it fails for a user who has a key.  Mutant: the pool keeps its row.
RestOfPoolKept(u) == poolKeys
RestOfPool(u) == [v \in DOMAIN poolKeys \ {u} |-> poolKeys[v]]

ConsumePoolKey(u) ==
    /\ u \in DOMAIN poolKeys \ keys
    /\ keys' = keys \cup {u}
    /\ poolKeys' = RestOfPool(u)
    /\ UNCHANGED <<network, job, brokers, loaded, orphans, faults>>

\* The exchange is started, and AllBrokers read once.
RunExchange ==
    /\ loaded' = DOMAIN brokers
    /\ UNCHANGED <<network, job, tables, orphans, faults>>

Restart(k) ==
    /\ restarts < MaxRestarts /\ job[k] # Idle
    /\ restarts' = restarts + 1
    /\ GiveUp(k)
    /\ UNCHANGED <<network, tables, loaded, failures, lost>>

GeneratePoolKey == CreateUser("pool") \/ SetupPIN("pool") \/ SetupOceanKey("pool") \/ PersistKey
AddBroker == CreateUser("broker") \/ SetupPIN("broker") \/ PersistBroker

Next ==
    \/ GeneratePoolKey
    \/ AddBroker
    \/ \E u \in User : ConsumePoolKey(u)
    \/ RunExchange
    \/ \E k \in Kind : Restart(k)

Spec == Init /\ [][Next]_vars

\* The service goes on.
FairSpec == Spec /\ WF_vars(GeneratePoolKey)

-----------------------------------------------------------------------------
TypeOK ==
    /\ created \in 0..MaxUsers
    /\ \A k \in Kind : job[k].user \in 0..created /\ job[k].pin \in Nat /\ job[k].ocean \in Nat
    /\ job["pool"] = Idle \/ job["pool"].user # job["broker"].user
    /\ keys \cup DOMAIN poolKeys \cup DOMAIN brokers \subseteq 1..created
    /\ DOMAIN brokers \cap (keys \cup DOMAIN poolKeys) = {}

\* The PIN in a row of pool_keys or brokers is the one the network has, whatever was
\* tried before (setupPIN).
StoredPinOpens ==
    /\ \A u \in DOMAIN poolKeys : poolKeys[u].pin = netPin[u]
    /\ \A u \in DOMAIN brokers : brokers[u] = netPin[u]

\* The key in a row of pool_keys is the one the exchange was given, unless an answer was
\* lost: then setupOceanKey stores a later key than the transfer carried.
OceanKeyNeedsReply ==
    \A u \in DOMAIN poolKeys : poolKeys[u].ocean = registered[u] \/ <<u, "ocean">> \in lost

\* A user who is in use comes back to the pool only if the answer to the insert was lost
\* and the row consumed before persist inserts it again.
PoolIsUnused == \A u \in keys \cap DOMAIN poolKeys : <<u, "persist">> \in lost

\* GeneratePoolKey repeats something that cannot succeed.
Stuck ==
    \/ job["pool"].step = "pin" /\ PinRefused("pool")
    \/ job["pool"].step = "ocean" /\ KeyRefused("pool")
    \/ job["pool"].step = "persist" /\ job["pool"].user \in DOMAIN poolKeys

\* Its loops end, but for the one of a step whose answer was lost.
StuckNeedsLostReply == Stuck => <<job["pool"].user, job["pool"].step>> \in lost

\* Every user the service creates gets into the pool, unless it dies or is stuck.
EveryUserIsPooled ==
    \A u \in User : job["pool"].user = u ~> u \in DOMAIN poolKeys \cup keys \cup orphans \/ Stuck
=============================================================================
