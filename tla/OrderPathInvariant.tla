------------------------- MODULE OrderPathInvariant -------------------------
(***************************************************************************)
(* Inductive invariants of the parts of OrderPath.  TLC checks them on the *)
(* small instances; PathProofs proves them for every value of the          *)
(* constants.                                                              *)
(***************************************************************************)
EXTENDS OrderPath, Sequences, FiniteSets

-----------------------------------------------------------------------------
(* TransferMutex.                                                          *)

Fetching(b) == pc[b] \in {"STORE", "LOAD"}

\* What sendTransfer has in each of its steps; a mutex is held by one.
SendersOK ==
    /\ \A b \in Sender :
         /\ pc[b] # "IDLE" => key[b] \in MutexKey
         /\ pc[b] = "STORE" => mutex[b] # 0
         /\ pc[b] = "LOAD" => stored[key[b]] # 0
    /\ \A b, c \in Sender :
         pc[b] = "SEND" /\ pc[c] = "SEND" /\ mutex[b] = mutex[c] => b = c

\* Whoever fetches without a race sees nobody else store a mutex of its key, and so has
\* the one that stays.
Others(b) == {c \in Sender \ {b} : pc[c] = "STORE" /\ key[c] = key[b]}

UnracedOK ==
    \A b \in Sender : ~ raced[b] =>
        /\ Fetching(b) => Others(b) = {}
        /\ pc[b] \in {"LOCK", "SEND"} => Others(b) = {} /\ mutex[b] = stored[key[b]]

\* The keys and goroutines that have made a mutex, or need none any more.
Racers == {x \in MutexKey \X Sender : stored[x[1]] # 0 \/ (pc[x[2]] = "STORE" /\ key[x[2]] = x[1])}

MutexInv == Mutexes!TypeOK /\ SendersOK /\ UnracedOK /\ made <= Cardinality(Racers)

-----------------------------------------------------------------------------
(* Actions.                                                                *)

Create(o) == <<o, "CREATE">>
Cancel(o) == <<o, "CANCEL">>

\* Rows of table actions: the CANCEL of an order is not older than its CREATE.
TablesOK ==
    /\ IsFiniteSet({x \in Poller!Key : actions[x] # 0})
    /\ \A x \in Poller!Key : actions[x] <= clock
    /\ \A o \in Order :
         /\ state[o] = "PENDING" => actions[Create(o)] # 0
         /\ actions[Cancel(o)] # 0 => type[o] = "LIMIT" /\ actions[Create(o)] <= actions[Cancel(o)]

\* The engine has every order it was given while the tables call it PENDING.
BookOK ==
    /\ Poller!BookMatchesTable /\ Poller!BookIsByAge
    /\ \A i \in 1..Len(resting) : resting[i] \in createIndex
    /\ \A o \in createIndex \cup cancelIndex : state[o] # "ABSENT"
    /\ \A o \in createIndex : state[o] = "PENDING" =>
         /\ \E i \in 1..Len(resting) : resting[i] = o
         /\ actions[Create(o)] <= attached

\* The listed actions are in order from the checkpoint on.  Those of an order that the
\* engine does not have are not stale.
BatchOK ==
    /\ attached <= clock
    /\ \A i \in 1..Len(batch) :
         /\ batch[i].createdAt >= attached
         /\ \A j \in 1..Len(batch) : i < j => batch[i].createdAt <= batch[j].createdAt
         /\ state[batch[i].key[1]] # "ABSENT"
         /\ batch[i].key[1] \notin createIndex => actions[batch[i].key] = batch[i].createdAt

\* What was not attached is neither behind the checkpoint nor behind a listed action,
\* unless it is listed before that.
NothingPassed ==
    \A x \in Poller!Key : actions[x] # 0 /\ ~ Poller!Attached(x) =>
        /\ actions[x] >= attached
        /\ \A i \in 1..Len(batch) : actions[x] < batch[i].createdAt =>
             \E j \in 1..(i - 1) : batch[j].key = x

\* Only a cancellation that is as old as its order came before it.
CancelsTied ==
    \A o \in cancelIndex : state[o] = "PENDING" => actions[Cancel(o)] = actions[Create(o)]

ActionInv == Poller!TypeOK /\ TablesOK /\ BookOK /\ BatchOK /\ NothingPassed /\ CancelsTied

-----------------------------------------------------------------------------
(* Listing.                                                                *)

\* What is remembered of the lists is remembered of orders that have a row.
RemembersOrders ==
    /\ IsFiniteSet({o \in Order : listState[o] # "ABSENT"})
    /\ steady \in [Reader!Listed -> SUBSET Order] /\ given \in [Reader!Listed -> SUBSET Order]
    /\ early \subseteq {o \in Order : listState[o] # "ABSENT"}

\* Of the list it reads, the client has what comes before its offset.
HasUpToOffset ==
    reading \in Reader!Listed =>
        /\ order = "ASC" => start = 0
        /\ \A o \in steady[reading] : Reader!InRange(o) => o \in given[reading] \/ Reader!Since(o)

\* An order that existed when the client began was on the first list or will be on the second.
OnOneList ==
    /\ reading = "PENDING" => \A o \in early : o \in steady["PENDING"] \/ listState[o] = "DONE"
    /\ reading \in {"DONE", "END"} =>
         \A o \in early : Reader!InRange(o) => o \in given["PENDING"] \cup steady["DONE"]

ListingInv ==
    Reader!TypeOK /\ RemembersOrders /\ HasUpToOffset /\ OnOneList /\ Reader!SteadyOrdersAreListed

-----------------------------------------------------------------------------
(* Snapshots.                                                              *)

At(i) == log[i].createdAt
Said(i) == log[i].s

LogOK ==
    /\ log \in Seq([s : Network!SnapshotRecord, createdAt : Nat])
    /\ \A i \in 1..Len(log) :
         /\ At(i) \in 1..(i + 1) /\ Said(i).cancels < i
         /\ Cardinality({j \in 1..Len(log) : At(j) = At(i)}) <= SnapshotTies

\* What is left of a page goes on where the poller is.
PageOK ==
    /\ page \in Seq(Nat)
    /\ \A x \in 1..Len(page) : page[x] = page[1] + (x - 1)

\* The offset of a page, which is written only afterwards.
Offset == IF property = 0 THEN checkpoint ELSE property

CheckpointsOK ==
    /\ property = 0 <=> first = 0
    /\ first <= property /\ property <= Network!Now + 1
    /\ property = first \/ property <= Network!Now
    /\ polling =>
         /\ 0 < checkpoint /\ property <= checkpoint /\ checkpoint <= Network!Now + 1
         /\ property # 0 => checkpoint = first \/ checkpoint <= Network!Now
    /\ page # <<>> => Offset <= checkpoint /\ checkpoint <= At(page[1])
    /\ property = 0 /\ polling =>
         /\ \A i \in handled : At(i) <= checkpoint
         /\ \A x \in 1..Len(page) : At(page[x]) <= checkpoint
    /\ failures \in Nat
    /\ failures = 0 => \A i \in seen : At(i) <= IF polling THEN checkpoint ELSE property

\* What was processed, now or before a restart.  While a page is read it is behind the
\* checkpoint or before the page, and takes whole created_at.
HandledOK ==
    /\ polling /\ first # 0 =>
         \A i \in 1..Len(log) :
             At(i) >= first /\ (At(i) < checkpoint \/ (page # <<>> /\ i < page[1])) => i \in handled
    /\ \A i \in handled, j \in 1..Len(log) : j < i /\ At(j) = At(i) => j \in handled
    /\ page # <<>> => \A j \in 1..Len(log) : j < page[1] /\ At(j) = At(page[1]) => j \in handled

\* What was processed since the start is the log from some snapshot on.
SeenOK ==
    /\ \A i \in seen, j \in (1..Len(log)) \ seen :
         j < i => At(j) < IF property = 0 THEN At(i) ELSE property
    /\ page # <<>> => \A j \in 1..Len(log) : j < page[1] /\ At(j) >= Offset => j \in seen

\* The orders of the processed snapshots, and the cancellations that reached them or
\* came before the first checkpoint.
OrdersOK ==
    /\ cancelled \subseteq 1..Len(log)
    /\ \A i \in handled : Network!Outcome(Said(i)) = "ORDER" => orderState[i] # "ABSENT"
    /\ \A i \in handled :
         LET o == Said(i).cancels
         IN  /\ Network!Outcome(Said(i)) = "CANCEL"
             /\ Network!Outcome(Said(o)) = "ORDER" /\ Said(o).type = "LIMIT"
             /\ Said(o).opponent = Said(i).opponent
             => \/ o \in cancelled \/ orderState[o] = "DONE"
                \/ At(o) < IF first = 0 THEN At(i) ELSE first

\* A user has the last key it was seen to send, unless another one is being processed.
SentBy(u, i) == Network!Outcome(Said(i)) = "KEY" /\ Said(i).opponent = u
LastSeen(u, i) == i \in seen /\ SentBy(u, i) /\ \A j \in seen : SentBy(u, j) => j <= i
SentByNoOther(u, k) == \A j \in 1..Len(log) : Said(j).key = k => SentBy(u, j)

KeysOK ==
    \A u \in User :
        /\ publicKey[u] # NoKey => \E i \in handled : SentBy(u, i) /\ Said(i).key = publicKey[u]
        /\ \A i \in seen : LastSeen(u, i) /\ SentByNoOther(u, Said(i).key) =>
             \/ publicKey[u] = Said(i).key
             \/ page # <<>> /\ page[1] \notin seen /\ SentBy(u, page[1])

SnapshotInv ==
    /\ Network!TypeOK /\ Network!NothingSkipped
    /\ LogOK /\ PageOK /\ CheckpointsOK /\ HandledOK /\ SeenOK /\ OrdersOK /\ KeysOK

-----------------------------------------------------------------------------
(* ClientOrders, for one choice c of its constants.                        *)

\* Every request there was an effect of, or may still be.
AllRequests == requests \cup success \cup {x.request : x \in network}

\* A form counts its successes in its trace id; every success was a request.
ClientCounts(c) ==
    /\ Client(c)!TypeOK
    /\ IsFiniteSet(requests)
    /\ trace <= c.maxSubmits + sent - Cardinality(requests)

\* What the number and the trace id of a request say.
IdsOK(c, r) ==
    /\ r.no \in 1..sent
    /\ r.from = <<>> => r.trace = 2 * c.maxSubmits + r.no
    /\ r.from # <<>> =>
         /\ r.from \in Client(c)!Form
         /\ r.intent \in 0..done /\ r.trace = r.intent + 1

RequestsOK(c) ==
    /\ \A r \in AllRequests :
         /\ IdsOK(c, r)
         /\ r.order \in Client(c)!Asked
         /\ r.from # <<>> => Client(c)!ValidateOrder(r.order)
    /\ \A r, t \in AllRequests : r.no = t.no => r = t

\* A transfer is the order of its request, or cancels it under an id of its own.
IsOrder(c, x) ==
    /\ x.s = Client(c)!OrderTransfer(x.request.order, x.request.trace)
    /\ ~ Client(c)!BadData(x.request.order)
IsCancel(c, x) ==
    x.s = Client(c)!CancelTransfer(3 * c.maxSubmits + x.request.no, x.request.trace)

NetworkOK(c) == \A x \in network : IsOrder(c, x) \/ IsCancel(c, x)

\* A success has an order with its trace id.
SuccessOK(c) == \A r \in success : \E x \in network : IsOrder(c, x) /\ x.s.trace = r.trace

ClientInv(c) == ClientCounts(c) /\ RequestsOK(c) /\ NetworkOK(c) /\ SuccessOK(c)

ClientsInv ==
    IF part = "values" THEN ClientInv(ValuesCase) ELSE ClientInv(RetriesCase)
=============================================================================
