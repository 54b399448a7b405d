---------------------------- MODULE TransferMutex ----------------------------
(***************************************************************************)
(* sendTransfer of mixin.go: the goroutines PollTransfers, one for every   *)
(* broker, take a mutex of the recipient and the asset before they call    *)
(* the network.  tmap.fetch keeps the mutexes in a sync.Map and makes one  *)
(* when it finds none; its Load, Store and Load are three steps.           *)
(***************************************************************************)
EXTENDS Integers, FiniteSets

CONSTANTS
    Broker,      \* the goroutines
    Key,         \* sums of recipient and asset modulo 100
    NoKey,
    MaxMutexes   \* bound on the mutexes that are made

MutexAssumption ==
    /\ NoKey \notin Key /\ MaxMutexes \in Nat
    /\ IsFiniteSet(Key) /\ IsFiniteSet(Broker)

VARIABLES
    stored,   \* tmap: stored[k] is the mutex of k, 0 without one
    made,     \* mutexes made so far; their numbers are 1..made
    holder,   \* holder[x]: the goroutines inside mutex x
    pc,       \* pc[b]: where sendTransfer of b is
    key,      \* key[b]: the key of its transfer
    mutex,    \* mutex[b]: the mutex it has made or fetched, 0 before
    raced     \* history: raced[b]: during its fetch a mutex of the key was to be stored

vars == <<stored, made, holder, pc, key, mutex, raced>>

Init ==
    /\ stored = [k \in Key |-> 0] /\ made = 0
    /\ holder = [x \in 1..MaxMutexes |-> {}]
    /\ pc = [b \in Broker |-> "IDLE"] /\ key = [b \in Broker |-> NoKey]
    /\ mutex = [b \in Broker |-> 0] /\ raced = [b \in Broker |-> FALSE]

Goto(b, l) == pc' = [pc EXCEPT ![b] = l]
Fetching(b) == pc[b] \in {"STORE", "LOAD"}

\* The first Load.  Mutant: a mutex is made without looking.
MissingAlways(k) == TRUE
Missing(k) == stored[k] = 0

Load(b, k) ==
    /\ pc[b] = "IDLE"
    /\ key' = [key EXCEPT ![b] = k]
    /\ IF Missing(k)
       THEN /\ made < MaxMutexes /\ made' = made + 1
            /\ mutex' = [mutex EXCEPT ![b] = made + 1]
            /\ Goto(b, "STORE")
            /\ raced' = [n \in Broker |->
                  \/ n = b /\ \E m \in Broker \ {b} : pc[m] = "STORE" /\ key[m] = k
                  \/ n # b /\ (raced[n] \/ (Fetching(n) /\ key[n] = k))]
       ELSE /\ Goto(b, "LOAD")
            /\ raced' = [raced EXCEPT ![b] = \E m \in Broker \ {b} : pc[m] = "STORE" /\ key[m] = k]
            /\ UNCHANGED <<made, mutex>>
    /\ UNCHANGED <<stored, holder>>

Store(b) ==
    /\ pc[b] = "STORE"
    /\ stored' = [stored EXCEPT ![key[b]] = mutex[b]]
    /\ Goto(b, "LOAD")
    /\ UNCHANGED <<made, holder, key, mutex, raced>>

Fetched(b) == stored[key[b]]

LoadAgain(b) ==
    /\ pc[b] = "LOAD"
    /\ mutex' = [mutex EXCEPT ![b] = Fetched(b)]
    /\ Goto(b, "LOCK")
    /\ UNCHANGED <<stored, made, holder, key, raced>>

Lock(b) ==
    /\ pc[b] = "LOCK" /\ holder[mutex[b]] = {}
    /\ holder' = [holder EXCEPT ![mutex[b]] = {b}]
    /\ Goto(b, "SEND")
    /\ UNCHANGED <<stored, made, key, mutex, raced>>

\* bot.CreateTransfer returns, with or without an error, and so does the deferred Unlock.
Unlock(b) ==
    /\ pc[b] = "SEND"
    /\ holder' = [holder EXCEPT ![mutex[b]] = {}]
    /\ Goto(b, "IDLE")
    /\ key' = [key EXCEPT ![b] = NoKey]
    /\ mutex' = [mutex EXCEPT ![b] = 0] /\ raced' = [raced EXCEPT ![b] = FALSE]
    /\ UNCHANGED <<stored, made>>

SendTransfer(b) == Store(b) \/ LoadAgain(b) \/ Lock(b) \/ Unlock(b)

Next == \E b \in Broker : SendTransfer(b) \/ \E k \in Key : Load(b, k)

Spec == Init /\ [][Next]_vars

-----------------------------------------------------------------------------
TypeOK ==
    /\ stored \in [Key -> 0..MaxMutexes] /\ made \in 0..MaxMutexes
    /\ pc \in [Broker -> {"IDLE", "STORE", "LOAD", "LOCK", "SEND"}]
    /\ key \in [Broker -> Key \cup {NoKey}]
    /\ mutex \in [Broker -> 0..MaxMutexes] /\ raced \in [Broker -> BOOLEAN]
    /\ \A b \in Broker : pc[b] \in {"LOCK", "SEND"} => mutex[b] # 0
    /\ holder \in [1..MaxMutexes -> SUBSET Broker]
    /\ \A x \in 1..MaxMutexes : holder[x] = {b \in Broker : pc[b] = "SEND" /\ mutex[b] = x}

\* Two transfers of one recipient and asset are under way at a time only when one of
\* the two goroutines fetched its mutex while another one was making the first mutex
\* of the key: from then on, nobody else ever overlaps (tmap.fetch).
OnlyFirstFetchesOverlap ==
    \A b, c \in Broker :
        b # c /\ pc[b] = "SEND" /\ pc[c] = "SEND" /\ key[b] = key[c] => raced[b] \/ raced[c]

\* A mutex of a key is made only while there is none, so their number is bounded by
\* the goroutines that race for the first one.
OneMutexPerRacer == made <= Cardinality(Key) * Cardinality(Broker)
=============================================================================
