------------------------------- MODULE Actions -------------------------------
(***************************************************************************)
(* The way of orders and cancellations to the books when snapshots share a *)
(* created_at: persistence/action.go, PollOrderActions of exchange.go and  *)
(* the two indexes of the engine.  (In Exchange no two actions share one.) *)
(*                                                                         *)
(* Snapshots come in order of created_at, which may be the same for        *)
(* several; their actions are written one after the other.  The poller     *)
(* lists from its checkpoint on, which it includes, so the engine gets     *)
(* actions again and drops those its indexes know.  The books of all       *)
(* markets are one here, without prices: an order that is put on a book    *)
(* rests until something fills it or it is cancelled.                      *)
(***************************************************************************)
EXTENDS Integers, Sequences, SequencesExt, FiniteSetsExt

CONSTANTS
    Order,
    Limit,         \* rows that ListPendingActions reads at most, 500 in the code
    MaxTime,       \* bound on the distinct created_at
    MaxRestarts    \* bound on crashes

ActionsAssumption ==
    Limit \in Nat \ {0, 1} /\ MaxTime \in Nat \ {0} /\ MaxRestarts \in Nat

Action == {"CREATE", "CANCEL"}
Key == Order \X Action

VARIABLES
    type,        \* type[o]: "LIMIT" or "MARKET"
    state,       \* state[o]: table orders, "ABSENT" without a row
    actions,     \* actions[o, a]: created_at in table actions, 0 without a row
    clock,       \* created_at of the newest snapshot
    checkpoint,  \* PollOrderActions: created_at of the last attached action
    batch,       \* PollOrderActions: the listed actions it has not attached, in order
    createIndex, cancelIndex,  \* of the engine
    resting,     \* orders on the book, in the order they were put there
    restarts     \* number of crashes

tables == <<type, state, actions>>
poller == <<checkpoint, batch>>
engine == <<createIndex, cancelIndex, resting>>
vars == <<tables, clock, poller, engine, restarts>>

Init ==
    /\ type \in [Order -> {"LIMIT", "MARKET"}]
    /\ state = [o \in Order |-> "ABSENT"]
    /\ actions = [x \in Key |-> 0]
    /\ clock = 1
    /\ checkpoint = 0 /\ batch = <<>>
    /\ createIndex = {} /\ cancelIndex = {} /\ resting = <<>>
    /\ restarts = 0

-----------------------------------------------------------------------------
(* Snapshots.                                                              *)

Tick ==
    /\ clock < MaxTime /\ clock' = clock + 1
    /\ UNCHANGED <<tables, poller, engine, restarts>>

CreateOrderAction(o) ==
    /\ state[o] = "ABSENT"
    /\ state' = [state EXCEPT ![o] = "PENDING"]
    /\ actions' = [actions EXCEPT ![<<o, "CREATE">>] = clock]
    /\ UNCHANGED <<type, clock, poller, engine, restarts>>

CancelOrderAction(o) ==
    /\ actions[<<o, "CANCEL">>] = 0
    /\ state[o] = "PENDING" /\ type[o] = "LIMIT"
    /\ actions' = [actions EXCEPT ![<<o, "CANCEL">>] = clock]
    /\ UNCHANGED <<type, state, clock, poller, engine, restarts>>

-----------------------------------------------------------------------------
(* ListPendingActions: ORDER BY created_at leaves open in which order rows     *)
(* with the same created_at come, and which of them LIMIT cuts off.            *)

\* Mutant: what has the created_at of the checkpoint is left out.
SinceAfter(x) == actions[x] > checkpoint
Since(x) == actions[x] >= checkpoint

\* Mutant: the newest come first.
SortedDesc(s) == \A i, j \in DOMAIN s : i < j => actions[s[i]] >= actions[s[j]]
Sorted(s) == \A i, j \in DOMAIN s : i < j => actions[s[i]] <= actions[s[j]]

ListPendingActions ==
    LET pending == {x \in Key : actions[x] # 0 /\ Since(x)}
        number == IF Cardinality(pending) < Limit THEN Cardinality(pending) ELSE Limit
    IN  /\ batch = <<>>
        /\ \E listed \in kSubset(number, pending) :
             /\ \A x \in listed, y \in pending \ listed : Sorted(<<x, y>>)
             /\ \E s \in SetToSeqs(listed) :
                  Sorted(s) /\ batch' = [i \in DOMAIN s |-> [key |-> s[i], createdAt |-> actions[s[i]]]]
        /\ UNCHANGED <<tables, clock, checkpoint, engine, restarts>>

-----------------------------------------------------------------------------
(* The engine.  An order that ends is DONE in the tables, and its actions are  *)
(* deleted in the same transaction.                                            *)

End(o) ==
    /\ state' = [state EXCEPT ![o] = "DONE"]
    /\ actions' = [x \in Key |-> IF x[1] = o THEN 0 ELSE actions[x]]

\* Mutant: an order is created as often as it is listed.
KnownNever(o) == FALSE
Known(o) == o \in createIndex

\* A MARKET order ends in any case.  cancelIndex is not looked at.
CreateOrder(o) ==
    /\ createIndex' = createIndex \cup {o}
    /\ UNCHANGED cancelIndex
    /\ IF Known(o)
       THEN UNCHANGED <<state, actions, resting>>
       ELSE \/ type[o] = "LIMIT" /\ resting' = Append(resting, o) /\ UNCHANGED <<state, actions>>
            \/ End(o) /\ UNCHANGED resting

Position(o) == CHOOSE i \in DOMAIN resting : resting[i] = o
Without(o) == RemoveAt(resting, Position(o))

CancelOrder(o) ==
    /\ cancelIndex' = cancelIndex \cup {o}
    /\ UNCHANGED createIndex
    /\ IF o \notin cancelIndex /\ o \in ToSet(resting)
       THEN End(o) /\ resting' = Without(o)
       ELSE UNCHANGED <<state, actions, resting>>

\* ensureProcessOrderAction.
EnsureProcessOrderAction ==
    /\ batch # <<>>
    /\ LET o == Head(batch).key[1]
       IN  IF Head(batch).key[2] = "CREATE" THEN CreateOrder(o) ELSE CancelOrder(o)
    /\ checkpoint' = Head(batch).createdAt
    /\ batch' = Tail(batch)
    /\ UNCHANGED <<type, clock, restarts>>

\* A resting order is filled by another one.
FillOrder(o) ==
    /\ o \in ToSet(resting)
    /\ End(o) /\ resting' = Without(o)
    /\ UNCHANGED <<type, clock, poller, createIndex, cancelIndex, restarts>>

PollOrderActions == ListPendingActions \/ EnsureProcessOrderAction

\* A new poller begins at time zero.  Mutant: where the last one was.
CheckpointKept == checkpoint
CheckpointAtStart == 0

Restart ==
    /\ restarts < MaxRestarts
    /\ restarts' = restarts + 1
    /\ checkpoint' = CheckpointAtStart /\ batch' = <<>>
    /\ createIndex' = {} /\ cancelIndex' = {} /\ resting' = <<>>
    /\ UNCHANGED <<tables, clock>>

Next ==
    \/ Tick
    \/ \E o \in Order : CreateOrderAction(o) \/ CancelOrderAction(o) \/ FillOrder(o)
    \/ PollOrderActions
    \/ Restart

Spec == Init /\ [][Next]_vars

\* A listing that finds nothing new changes nothing and is no step of the poller.
FairSpec == Spec /\ WF_vars(PollOrderActions)

-----------------------------------------------------------------------------
\* Only orders that are PENDING have actions.
TypeOK ==
    /\ type \in [Order -> {"LIMIT", "MARKET"}]
    /\ state \in [Order -> {"ABSENT", "PENDING", "DONE"}]
    /\ actions \in [Key -> 0..MaxTime] /\ \A x \in Key : actions[x] # 0 => state[x[1]] = "PENDING"
    /\ clock \in 1..MaxTime
    /\ checkpoint \in 0..MaxTime
    /\ batch \in Seq([key : Key, createdAt : 1..clock])
    /\ createIndex \cup cancelIndex \subseteq Order /\ resting \in Seq(Order)
    /\ restarts \in 0..MaxRestarts

\* The book holds an order at most once and only while the tables call it PENDING,
\* though the poller lists the actions at its checkpoint again and again and holds
\* actions of orders that have ended meanwhile (createOrder, cancelOrder).
BookMatchesTable ==
    \A i \in DOMAIN resting :
        /\ state[resting[i]] = "PENDING"
        /\ \A j \in DOMAIN resting : i # j => resting[i] # resting[j]

\* Orders stand on the book by age, before and after a restart; only orders of one
\* created_at may change places.
BookIsByAge ==
    \A i, j \in DOMAIN resting : i < j =>
        actions[<<resting[i], "CREATE">>] <= actions[<<resting[j], "CREATE">>]

\* A cancellation the engine has taken has ended its order, unless the two snapshots
\* share one created_at: then it may come first, and is lost until a restart, for
\* createOrder does not look at cancelIndex and cancelOrder drops it from then on.
CancelsLandUnlessTied ==
    \A o \in cancelIndex \cap ToSet(resting) :
        actions[<<o, "CANCEL">>] = actions[<<o, "CREATE">>]

\* Full listings of the same actions, all of them known to the engine, for ever.
Stalled ==
    LET tied == {x \in Key : actions[x] # 0 /\ actions[x] = checkpoint}
    IN  Cardinality(tied) >= Limit

Attached(x) == x[1] \in IF x[2] = "CREATE" THEN createIndex ELSE cancelIndex

\* The poller passes over nothing: what it has left behind is known to the engine,
\* although it reads pages of Limit rows, and rows at its checkpoint are still being
\* written.
NothingLeftBehind ==
    \A x \in Key : actions[x] # 0 /\ actions[x] < checkpoint => Attached(x)

\* Every order and cancellation gets to the engine, crash or not, or its order ends;
\* unless Limit of them share a created_at, where the poller stays.
EveryActionIsAttached ==
    \A x \in Key : actions[x] # 0 ~> (Attached(x) \/ actions[x] = 0 \/ Stalled)
=============================================================================
