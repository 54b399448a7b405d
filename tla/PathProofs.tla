----------------------------- MODULE PathProofs -----------------------------
(***************************************************************************)
(* Proofs about the parts of OrderPath, for every value of the constants.  *)
(* The inductive invariants are in OrderPathInvariant.                     *)
(***************************************************************************)
EXTENDS OrderPathInvariant, FiniteSetTheorems, TLAPS

-----------------------------------------------------------------------------
(* TransferMutex: sendTransfer and tmap.fetch.                             *)

USE DEF Mutexes!Goto

\* The operators of an instance that come from a library are those of the library.
LEMMA MutexLibrary ==
    \A S : /\ Mutexes!IsFiniteSet(S) <=> IsFiniteSet(S)
           /\ Mutexes!Cardinality(S) = Cardinality(S)
  <1>1. \A S : Mutexes!IsFiniteSet(S) <=> IsFiniteSet(S)
    BY DEF Mutexes!IsFiniteSet, IsFiniteSet
  <1>2. \A S : Mutexes!Cardinality(S) = Cardinality(S)
    BY DEF Mutexes!Cardinality, Cardinality
  <1> QED
    BY <1>1, <1>2

LEMMA MutexConstants ==
    /\ NoMutexKey \notin MutexKey /\ MaxMutexes \in Nat
    /\ IsFiniteSet(MutexKey) /\ IsFiniteSet(Sender)
  BY MutexAssumption, MutexLibrary DEF Mutexes!MutexAssumption

LEMMA MutexInit == PathInit => MutexInv
  <1> SUFFICES ASSUME PathInit PROVE MutexInv
    OBVIOUS
  <1>1. Mutexes!Init
    BY DEF PathInit
  <1>2. MaxMutexes \in Nat /\ NoMutexKey \notin MutexKey
    BY MutexConstants
  <1>3. Mutexes!TypeOK
    <2>1. \A x \in 1..MaxMutexes : holder[x] = {b \in Sender : pc[b] = "SEND" /\ mutex[b] = x}
      BY <1>1 DEF Mutexes!Init
    <2> QED
      BY <1>1, <1>2, <2>1 DEF Mutexes!Init, Mutexes!TypeOK
  <1>4. SendersOK /\ UnracedOK
    BY <1>1 DEF Mutexes!Init, SendersOK, UnracedOK, Fetching, Others
  <1>5. Racers = {}
    BY <1>1 DEF Mutexes!Init, Racers
  <1> QED
    BY <1>1, <1>3, <1>4, <1>5, FS_EmptySet DEF MutexInv, Mutexes!Init

LEMMA MutexTypes ==
    ASSUME Mutexes!TypeOK, SendersOK, Mutexes!Next
    PROVE  Mutexes!TypeOK' /\ SendersOK'
  <1> USE MutexConstants
  <1>1. PICK b \in Sender : Mutexes!SendTransfer(b) \/ \E k \in MutexKey : Mutexes!Load(b, k)
    BY DEF Mutexes!Next
  <1>2. CASE \E k \in MutexKey : Mutexes!Load(b, k)
    <2>1. PICK k \in MutexKey : Mutexes!Load(b, k)
      BY <1>2
    <2>2. SendersOK'
      <3>1. \A c \in Sender : pc'[c] = "SEND" => pc[c] = "SEND" /\ mutex'[c] = mutex[c]
        BY <2>1 DEF Mutexes!TypeOK, Mutexes!Load
      <3>2. \A c \in Sender :
              /\ pc'[c] # "IDLE" => key'[c] \in MutexKey
              /\ pc'[c] = "STORE" => mutex'[c] # 0
              /\ pc'[c] = "LOAD" => stored'[key'[c]] # 0
        BY <2>1 DEF Mutexes!TypeOK, SendersOK, Mutexes!Load, Mutexes!Missing
      <3> QED
        BY <3>1, <3>2 DEF SendersOK
    <2>3. \A x \in 1..MaxMutexes : holder'[x] = {c \in Sender : pc'[c] = "SEND" /\ mutex'[c] = x}
      BY <2>1 DEF Mutexes!TypeOK, Mutexes!Load
    <2>4. raced' \in [Sender -> BOOLEAN]
      BY <2>1, Zenon DEF Mutexes!TypeOK, Mutexes!Load
    <2>5. made' \in 0..MaxMutexes /\ mutex' \in [Sender -> 0..MaxMutexes]
      <3>1. made' \in 0..MaxMutexes /\ (mutex' = mutex \/ mutex' = [mutex EXCEPT ![b] = made'])
        BY <2>1 DEF Mutexes!TypeOK, Mutexes!Load
      <3> QED
        BY <3>1 DEF Mutexes!TypeOK
    <2>6. /\ pc' \in [Sender -> {"IDLE", "STORE", "LOAD", "LOCK", "SEND"}]
          /\ key' \in [Sender -> MutexKey \cup {NoMutexKey}]
      BY <2>1 DEF Mutexes!TypeOK, Mutexes!Load
    <2>7. \A c \in Sender : pc'[c] \in {"LOCK", "SEND"} => mutex'[c] # 0
      BY <2>1 DEF Mutexes!TypeOK, Mutexes!Load
    <2>8. stored' = stored /\ holder' = holder
      BY <2>1 DEF Mutexes!Load
    <2> QED
      BY <2>2, <2>3, <2>4, <2>5, <2>6, <2>7, <2>8, Zenon DEF Mutexes!TypeOK
  <1>3. CASE Mutexes!Store(b)
    <2>1. \A c \in Sender : (pc'[c] = "SEND") <=> (pc[c] = "SEND")
      BY <1>3 DEF Mutexes!TypeOK, Mutexes!Store
    <2>2. SendersOK'
      BY <1>3, <2>1 DEF Mutexes!TypeOK, SendersOK, Mutexes!Store
    <2>3. \A x \in 1..MaxMutexes : holder'[x] = {c \in Sender : pc'[c] = "SEND" /\ mutex'[c] = x}
      BY <1>3, <2>1 DEF Mutexes!TypeOK, Mutexes!Store
    <2> QED
      BY <1>3, <2>2, <2>3 DEF Mutexes!TypeOK, Mutexes!Store
  <1>4. CASE Mutexes!LoadAgain(b)
    <2>1. \A c \in Sender : pc'[c] = "SEND" => pc[c] = "SEND" /\ c # b
      BY <1>4 DEF Mutexes!TypeOK, Mutexes!LoadAgain
    <2>2. SendersOK'
      BY <1>4, <2>1 DEF Mutexes!TypeOK, SendersOK, Mutexes!LoadAgain, Mutexes!Fetched
    <2>3. \A c \in Sender : pc'[c] \in {"LOCK", "SEND"} => mutex'[c] # 0
      BY <1>4 DEF Mutexes!TypeOK, SendersOK, Mutexes!LoadAgain, Mutexes!Fetched
    <2>4. \A x \in 1..MaxMutexes : holder'[x] = {c \in Sender : pc'[c] = "SEND" /\ mutex'[c] = x}
      BY <1>4, <2>1 DEF Mutexes!TypeOK, Mutexes!LoadAgain
    <2> QED
      BY <1>4, <2>2, <2>3, <2>4 DEF Mutexes!TypeOK, SendersOK, Mutexes!LoadAgain, Mutexes!Fetched
  <1>5. CASE Mutexes!Lock(b)
    <2>1. SendersOK'
      BY <1>5 DEF Mutexes!TypeOK, SendersOK, Mutexes!Lock
    <2>2. ASSUME NEW x \in 1..MaxMutexes
          PROVE  holder'[x] = {c \in Sender : pc'[c] = "SEND" /\ mutex'[c] = x}
      BY <1>5 DEF Mutexes!TypeOK, Mutexes!Lock
    <2> QED
      BY <1>5, <2>1, <2>2 DEF Mutexes!TypeOK, Mutexes!Lock
  <1>6. CASE Mutexes!Unlock(b)
    <2>1. SendersOK'
      BY <1>6 DEF Mutexes!TypeOK, SendersOK, Mutexes!Unlock
    <2>2. ASSUME NEW x \in 1..MaxMutexes
          PROVE  holder'[x] = {c \in Sender : pc'[c] = "SEND" /\ mutex'[c] = x}
      <3>1. holder[mutex[b]] = {b}
        BY <1>6 DEF Mutexes!TypeOK, SendersOK, Mutexes!Unlock
      <3> QED
        BY <1>6, <3>1 DEF Mutexes!TypeOK, Mutexes!Unlock
    <2> QED
      BY <1>6, <2>1, <2>2 DEF Mutexes!TypeOK, Mutexes!Unlock
  <1> QED
    BY <1>1, <1>2, <1>3, <1>4, <1>5, <1>6 DEF Mutexes!SendTransfer

LEMMA MutexUnraced ==
    ASSUME Mutexes!TypeOK, SendersOK, UnracedOK, Mutexes!Next
    PROVE  UnracedOK'
  <1>1. PICK b \in Sender : Mutexes!SendTransfer(b) \/ \E k \in MutexKey : Mutexes!Load(b, k)
    BY DEF Mutexes!Next
  <1>2. CASE \E k \in MutexKey : Mutexes!Load(b, k)
    <2>1. PICK k \in MutexKey : Mutexes!Load(b, k)
      BY <1>2
    <2>2. CASE Mutexes!Missing(k)
      BY <2>1, <2>2 DEF Mutexes!TypeOK, SendersOK, UnracedOK, Others, Fetching, Mutexes!Load, Mutexes!Missing, Mutexes!Fetching
    <2>3. CASE ~ Mutexes!Missing(k)
      BY <2>1, <2>3 DEF Mutexes!TypeOK, SendersOK, UnracedOK, Others, Fetching, Mutexes!Load
    <2> QED
      BY <2>2, <2>3
  <1>3. CASE Mutexes!Store(b)
    BY <1>3 DEF Mutexes!TypeOK, SendersOK, UnracedOK, Others, Fetching, Mutexes!Store
  <1>4. CASE Mutexes!LoadAgain(b)
    BY <1>4 DEF Mutexes!TypeOK, SendersOK, UnracedOK, Others, Fetching, Mutexes!LoadAgain, Mutexes!Fetched
  <1>5. CASE Mutexes!Lock(b)
    BY <1>5 DEF Mutexes!TypeOK, SendersOK, UnracedOK, Others, Fetching, Mutexes!Lock
  <1>6. CASE Mutexes!Unlock(b)
    BY <1>6 DEF Mutexes!TypeOK, SendersOK, UnracedOK, Others, Fetching, Mutexes!Unlock
  <1> QED
    BY <1>1, <1>2, <1>3, <1>4, <1>5, <1>6 DEF Mutexes!SendTransfer

\* Every mutex is made by a goroutine that has not made one of the key before.
LEMMA RacersFinite == IsFiniteSet(Racers) /\ Cardinality(Racers) <= Cardinality(MutexKey) * Cardinality(Sender)
  <1>1. /\ IsFiniteSet(MutexKey \X Sender)
        /\ Cardinality(MutexKey \X Sender) = Cardinality(MutexKey) * Cardinality(Sender)
    BY MutexConstants, FS_Product
  <1>2. Racers \in SUBSET (MutexKey \X Sender)
    BY DEF Racers
  <1> QED
    BY <1>1, <1>2, FS_Subset

LEMMA MutexCount ==
    ASSUME Mutexes!TypeOK, SendersOK, made <= Cardinality(Racers), Mutexes!Next
    PROVE  (made <= Cardinality(Racers))'
  <1> DEFINE R == Racers
             S == Racers'
  <1>1. IsFiniteSet(R) /\ Cardinality(R) \in Nat
    BY RacersFinite, FS_CardinalityType
  <1>2. PICK b \in Sender : Mutexes!SendTransfer(b) \/ \E k \in MutexKey : Mutexes!Load(b, k)
    BY DEF Mutexes!Next
  <1>3. IsFiniteSet(S) /\ Cardinality(S) \in Nat
    <2>1. S \in SUBSET (MutexKey \X Sender)
      BY DEF Racers
    <2>2. IsFiniteSet(MutexKey \X Sender)
      BY MutexConstants, FS_Product
    <2>3. IsFiniteSet(S)
      BY <2>1, <2>2, FS_Subset
    <2> QED
      BY <2>3, FS_CardinalityType
  <1>4. ASSUME R \subseteq S, made' = made PROVE made' <= Cardinality(S)
    <2>1. Cardinality(R) <= Cardinality(S)
      BY <1>3, <1>4, FS_Subset
    <2> QED
      BY <1>1, <1>3, <1>4, <2>1 DEF Mutexes!TypeOK
  <1>5. CASE \E k \in MutexKey : Mutexes!Load(b, k)
    <2>1. PICK k \in MutexKey : Mutexes!Load(b, k)
      BY <1>5
    <2>2. CASE Mutexes!Missing(k)
      <3>1. <<k, b>> \notin R
        BY <2>1, <2>2 DEF Mutexes!Load, Mutexes!Missing, Racers
      <3>2. S = R \cup {<<k, b>>}
        BY <2>1, <2>2 DEF Mutexes!Load, Racers, Mutexes!TypeOK
      <3>3. Cardinality(S) = Cardinality(R) + 1
        BY <1>1, <3>1, <3>2, FS_AddElement
      <3>4. made' = made + 1
        BY <2>1, <2>2 DEF Mutexes!Load
      <3> QED
        BY <1>1, <3>3, <3>4 DEF Mutexes!TypeOK
    <2>3. CASE ~ Mutexes!Missing(k)
      <3>1. R \subseteq S /\ made' = made
        BY <2>1, <2>3 DEF Mutexes!Load, Racers, Mutexes!TypeOK
      <3> QED
        BY <1>4, <3>1
    <2> QED
      BY <2>2, <2>3
  <1>6. CASE Mutexes!SendTransfer(b)
    <2>1. made' = made
      BY <1>6 DEF Mutexes!SendTransfer, Mutexes!Store, Mutexes!LoadAgain, Mutexes!Lock, Mutexes!Unlock
    <2>2. CASE Mutexes!Store(b)
      <3>1. R \subseteq S
        BY <2>2 DEF Mutexes!Store, Racers, Mutexes!TypeOK, SendersOK
      <3> QED
        BY <1>4, <2>1, <3>1
    <2>3. CASE Mutexes!LoadAgain(b) \/ Mutexes!Lock(b) \/ Mutexes!Unlock(b)
      <3>1. R \subseteq S
        BY <2>3 DEF Mutexes!LoadAgain, Mutexes!Lock, Mutexes!Unlock, Racers, Mutexes!TypeOK
      <3> QED
        BY <1>4, <2>1, <3>1
    <2> QED
      BY <1>6, <2>2, <2>3 DEF Mutexes!SendTransfer
  <1> QED
    BY <1>2, <1>5, <1>6

\* The invariant of the mutexes.
THEOREM MutexInvariance == PathSpec => []MutexInv
  <1>1. MutexInv /\ [PathNext]_pathVars => MutexInv'
    <2> SUFFICES ASSUME MutexInv, [PathNext]_pathVars PROVE MutexInv'
      OBVIOUS
    <2>1. CASE Mutexes!Next
      BY <2>1, MutexTypes, MutexUnraced, MutexCount DEF MutexInv
    <2>2. CASE UNCHANGED mutexVars
      BY <2>2 DEF mutexVars, MutexInv, Mutexes!TypeOK, SendersOK, UnracedOK, Fetching, Others, Racers
    <2> QED
      BY <2>1, <2>2
      DEF PathNext, SnapshotStep, ClientStep, ActionStep, ListStep, MutexStep, MoneyStep, pathVars
  <1> QED
    BY MutexInit, <1>1, PTL DEF PathSpec

\* However the goroutines of the brokers interleave in tmap.fetch, two transfers of one
\* recipient and asset are under way at a time only if one of them has fetched its mutex
\* while another was making the first one, and the mutexes are bounded.
THEOREM TransfersAreApart == PathSpec => []TransfersOfOneKey
  <1>1. MutexInv => TransfersOfOneKey
    <2> SUFFICES ASSUME MutexInv PROVE TransfersOfOneKey
      OBVIOUS
    <2>1. Mutexes!OnlyFirstFetchesOverlap
      BY DEF MutexInv, SendersOK, UnracedOK, Mutexes!OnlyFirstFetchesOverlap
    <2>2. Mutexes!OneMutexPerRacer
      <3>1. made \in Nat /\ Cardinality(Racers) \in Nat
        BY RacersFinite, FS_CardinalityType, MutexConstants DEF MutexInv, Mutexes!TypeOK
      <3>2. Cardinality(MutexKey) * Cardinality(Sender) \in Nat
        BY MutexConstants, FS_CardinalityType
      <3> QED
        BY <3>1, <3>2, RacersFinite, MutexLibrary DEF MutexInv, Mutexes!OneMutexPerRacer
    <2> QED
      BY <2>1, <2>2 DEF MutexInv, TransfersOfOneKey
  <1> QED
    BY <1>1, MutexInvariance, PTL

-----------------------------------------------------------------------------
(* Actions: the poller and the indexes of the engine.                      *)

USE DEF Poller!Action, Poller!Key, Create, Cancel

LEMMA PollerLibrary ==
    \A S : /\ Poller!IsFiniteSet(S) <=> IsFiniteSet(S)
           /\ Poller!Cardinality(S) = Cardinality(S)
  <1>1. \A S : Poller!IsFiniteSet(S) <=> IsFiniteSet(S)
    BY DEF Poller!IsFiniteSet, IsFiniteSet
  <1>2. \A S : Poller!Cardinality(S) = Cardinality(S)
    BY DEF Poller!Cardinality, Cardinality
  <1> QED
    BY <1>1, <1>2

LEMMA PollerKeys ==
    /\ \A o \in Order : Create(o) \in Poller!Key /\ Cancel(o) \in Poller!Key
    /\ \A x \in Poller!Key : x[1] \in Order /\ (x = Create(x[1]) \/ x = Cancel(x[1]))
    /\ \A o, n \in Order : Create(o) # Cancel(n)
  OBVIOUS

LEMMA PollerAttached ==
    ASSUME NEW o \in Order
    PROVE  /\ Poller!Attached(Create(o)) <=> o \in createIndex
           /\ Poller!Attached(Cancel(o)) <=> o \in cancelIndex
  BY DEF Poller!Attached

LEMMA PollerConstants ==
    ActionLimit \in Nat \ {0, 1} /\ ActionTime \in Nat \ {0} /\ EngineRestarts \in Nat
  BY ActionsAssumption DEF Poller!ActionsAssumption

\* A sequence without one of its elements.
LEMMA RemoveAtFacts ==
    ASSUME NEW X, NEW s \in Seq(X), NEW k \in 1..Len(s), NEW r, r = Poller!RemoveAt(s, k)
    PROVE  /\ r \in Seq(X) /\ Len(r) = Len(s) - 1
           /\ \A i \in 1..Len(r) : r[i] = IF i < k THEN s[i] ELSE s[i + 1]
  <1> DEFINE f == SubSeq(s, 1, k - 1)
             l == SubSeq(s, k + 1, Len(s))
  <1>1. /\ f \in Seq(X) /\ Len(f) = k - 1
        /\ \A i \in 1..(k - 1) : f[i] = s[i]
    OBVIOUS
  <1>2. /\ l \in Seq(X) /\ Len(l) = Len(s) - k
        /\ \A i \in 1..(Len(s) - k) : l[i] = s[k + i]
    OBVIOUS
  <1>3. r = f \o l
    BY DEF Poller!RemoveAt
  <1> HIDE DEF f, l
  <1>4. /\ r \in Seq(X) /\ Len(r) = Len(f) + Len(l)
        /\ \A i \in 1..Len(f) : r[i] = f[i]
        /\ \A i \in (Len(f) + 1)..(Len(f) + Len(l)) : r[i] = l[i - Len(f)]
    <2>1. /\ f \o l \in Seq(X) /\ Len(f \o l) = Len(f) + Len(l)
          /\ \A i \in 1..Len(f) : (f \o l)[i] = f[i]
          /\ \A i \in (Len(f) + 1)..(Len(f) + Len(l)) : (f \o l)[i] = l[i - Len(f)]
      <3>1. f \in Seq(X) /\ l \in Seq(X) /\ Len(f) \in Nat /\ Len(l) \in Nat
        BY <1>1, <1>2
      <3>2. f \o l \in Seq(X) /\ Len(f \o l) = Len(f) + Len(l)
        BY <3>1
      <3>3. ASSUME NEW i \in 1..Len(f) PROVE (f \o l)[i] = f[i]
        BY <3>1
      <3>4. ASSUME NEW i \in (Len(f) + 1)..(Len(f) + Len(l)) PROVE (f \o l)[i] = l[i - Len(f)]
        BY <3>1
      <3> QED
        BY <3>2, <3>3, <3>4
    <2> QED
      BY <1>3, <2>1, Zenon
  <1>5. Len(r) = Len(s) - 1
    BY <1>1, <1>2, <1>4
  <1>6. ASSUME NEW i \in 1..Len(r), i < k PROVE r[i] = s[i]
    BY <1>1, <1>4, <1>6
  <1>7. ASSUME NEW i \in 1..Len(r), ~ i < k PROVE r[i] = s[i + 1]
    <2>1. i - (k - 1) \in 1..(Len(s) - k)
      BY <1>5, <1>7
    <2>2. r[i] = l[i - (k - 1)]
      BY <1>1, <1>2, <1>4, <1>7, <2>1
    <2>3. l[i - (k - 1)] = s[k + (i - (k - 1))] /\ k + (i - (k - 1)) = i + 1
      BY <1>2, <2>1
    <2> QED
      BY <2>2, <2>3
  <1> QED
    BY <1>4, <1>5, <1>6, <1>7

\* The book without order o.
LEMMA WithoutFacts ==
    ASSUME Poller!TypeOK, Poller!BookMatchesTable, NEW o \in Order, o \in Poller!ToSet(resting),
           NEW r, r = Poller!Without(o)
    PROVE  /\ r \in Seq(Order)
           /\ \A i \in 1..Len(r) : \E j \in 1..Len(resting) : r[i] = resting[j] /\ r[i] # o
           /\ \A i \in 1..Len(resting) : resting[i] # o => \E j \in 1..Len(r) : r[j] = resting[i]
           /\ \A i, j \in 1..Len(r) : i < j =>
                r[i] # r[j] /\ (Poller!BookIsByAge => actions[Create(r[i])] <= actions[Create(r[j])])
  <1>1. resting \in Seq(Order) /\ DOMAIN resting = 1..Len(resting) /\ Len(resting) \in Nat
    BY DEF Poller!TypeOK
  <1>2. PICK k \in 1..Len(resting) : k = Poller!Position(o) /\ resting[k] = o
    BY <1>1 DEF Poller!Position, Poller!ToSet
  <1>3. \A i \in 1..Len(resting) : i # k => resting[i] # o
    BY <1>1, <1>2 DEF Poller!BookMatchesTable
  <1>4. r = Poller!RemoveAt(resting, k)
    BY <1>2 DEF Poller!Without
  <1>5. /\ r \in Seq(Order) /\ Len(r) = Len(resting) - 1
        /\ \A i \in 1..Len(r) : r[i] = IF i < k THEN resting[i] ELSE resting[i + 1]
    <2>1. PICK X : X = Order
      OBVIOUS
    <2>2. resting \in Seq(X)
      BY <1>1, <2>1
    <2>3. k \in 1..Len(resting)
      BY <1>2
    <2>4. /\ r \in Seq(X) /\ Len(r) = Len(resting) - 1
          /\ \A i \in 1..Len(r) : r[i] = IF i < k THEN resting[i] ELSE resting[i + 1]
      BY ONLY <1>4, <2>2, <2>3, RemoveAtFacts
    <2> QED
      BY <2>1, <2>4
  <1>6. \A i \in 1..Len(r) : \E j \in 1..Len(resting) : r[i] = resting[j] /\ r[i] # o
    BY <1>1, <1>3, <1>5
  <1>7. ASSUME NEW i \in 1..Len(resting), resting[i] # o PROVE \E j \in 1..Len(r) : r[j] = resting[i]
    <2>1. CASE i < k
      <3>1. i \in 1..Len(r) /\ r[i] = resting[i]
        BY <1>1, <1>5, <2>1
      <3> QED
        BY <3>1
    <2>2. CASE i > k
      <3>1. i - 1 \in 1..Len(r) /\ r[i - 1] = resting[i]
        BY <1>1, <1>5, <2>2
      <3> QED
        BY <3>1
    <2> QED
      BY <1>2, <1>7, <2>1, <2>2
  <1>8. ASSUME NEW i \in 1..Len(r), NEW j \in 1..Len(r), i < j
        PROVE  r[i] # r[j] /\ (Poller!BookIsByAge => actions[Create(r[i])] <= actions[Create(r[j])])
    <2> DEFINE at(x) == IF x < k THEN x ELSE x + 1
    <2>1. at(i) \in 1..Len(resting) /\ at(j) \in 1..Len(resting) /\ at(i) < at(j)
      BY <1>1, <1>5, <1>8
    <2>2. r[i] = resting[at(i)] /\ r[j] = resting[at(j)]
      BY <1>5
    <2> HIDE DEF at
    <2>3. resting[at(i)] # resting[at(j)]
      BY <1>1, <2>1 DEF Poller!BookMatchesTable
    <2>4. Poller!BookIsByAge => actions[Create(resting[at(i)])] <= actions[Create(resting[at(j)])]
      BY <1>1, <2>1 DEF Poller!BookIsByAge
    <2> QED
      BY <2>2, <2>3, <2>4
  <1> QED
    BY <1>5, <1>6, <1>7, <1>8

\* What a listing may be: a sorted page of the actions from the checkpoint on, and what
\* is not on it comes after it.
Page(n, s) ==
    /\ batch' = [i \in 1..n |-> [key |-> s[i], createdAt |-> actions[s[i]]]]
    /\ \A i \in 1..n : actions[s[i]] # 0 /\ actions[s[i]] >= attached
    /\ \A i, j \in 1..n : i < j => actions[s[i]] <= actions[s[j]]
    /\ \A x \in Poller!Key : actions[x] # 0 /\ actions[x] >= attached =>
         \/ \E j \in 1..n : s[j] = x
         \/ \A i \in 1..n : actions[s[i]] <= actions[x]

LEMMA ListEffect ==
    ASSUME ActionInv, Poller!ListPendingActions
    PROVE  \E n \in Nat : \E s \in [1..n -> Poller!Key] : Page(n, s)
  <1> DEFINE pending == {x \in Poller!Key : actions[x] # 0 /\ Poller!Since(x)}
  <1>1. IsFiniteSet(pending)
    <2>1. pending \in SUBSET {x \in Poller!Key : actions[x] # 0}
      OBVIOUS
    <2> QED
      BY <2>1, FS_Subset DEF ActionInv, TablesOK
  <1>a. PICK listed \in SUBSET pending :
          /\ \A x \in listed, y \in pending \ listed : Poller!Sorted(<<x, y>>)
          /\ \E s \in Poller!SetToSeqs(listed) :
               /\ Poller!Sorted(s)
               /\ batch' = [i \in DOMAIN s |-> [key |-> s[i], createdAt |-> actions[s[i]]]]
    BY DEF Poller!ListPendingActions, Poller!kSubset
  <1>2. PICK s \in Poller!SetToSeqs(listed) :
          /\ Poller!Sorted(s)
          /\ batch' = [i \in DOMAIN s |-> [key |-> s[i], createdAt |-> actions[s[i]]]]
    BY <1>a
  <1>3. IsFiniteSet(listed)
    BY <1>1, FS_Subset
  <1>4. PICK n \in Nat : n = Cardinality(listed)
    BY <1>3, FS_CardinalityType
  <1>5. s \in [1..n -> listed] /\ \A i, j \in 1..n : i # j => s[i] # s[j]
    BY <1>4, PollerLibrary DEF Poller!SetToSeqs
  <1>6. s \in Injection(1..n, listed)
    BY <1>5 DEF Injection, IsInjective
  <1>7. Cardinality(1..n) = n
    BY FS_Interval
  <1>8. s \in Surjection(1..n, listed)
    BY <1>3, <1>4, <1>6, <1>7, FS_Injection
  <1>9. \A x \in listed : \E j \in 1..n : s[j] = x
    BY <1>8 DEF Surjection
  <1>10. \A x \in Poller!Key : actions[x] \in Nat
    BY DEF ActionInv, Poller!TypeOK
  <1>11. ASSUME NEW x \in pending \ listed, NEW y \in listed PROVE actions[y] <= actions[x]
    <2>1. Poller!Sorted(<<y, x>>)
      BY <1>a
    <2>2. actions[<<y, x>>[1]] <= actions[<<y, x>>[2]]
      BY <2>1 DEF Poller!Sorted
    <2> QED
      BY <2>2
  <1>12. \A i, j \in 1..n : i < j => actions[s[i]] <= actions[s[j]]
    BY <1>2, <1>5 DEF Poller!Sorted
  <1>13. s \in [1..n -> Poller!Key] /\ \A i \in 1..n : actions[s[i]] # 0 /\ actions[s[i]] >= attached
    BY <1>5 DEF Poller!Since
  <1>14. batch' = [i \in 1..n |-> [key |-> s[i], createdAt |-> actions[s[i]]]]
    BY <1>2, <1>5
  <1>15. ASSUME NEW x \in Poller!Key, actions[x] # 0, actions[x] >= attached
         PROVE  (\E j \in 1..n : s[j] = x) \/ \A i \in 1..n : actions[s[i]] <= actions[x]
    <2>1. x \in pending
      BY <1>15 DEF Poller!Since
    <2> QED
      BY <1>5, <1>9, <1>11, <2>1
  <1> QED
    BY <1>12, <1>13, <1>14, <1>15 DEF Page

\* What the writes to the tables change.
LEMMA PollerTypes ==
    ASSUME Poller!TypeOK
    PROVE  /\ type \in [Order -> {"LIMIT", "MARKET"}]
           /\ state \in [Order -> {"ABSENT", "PENDING", "DONE"}]
           /\ actions \in [Poller!Key -> Nat] /\ \A x \in Poller!Key : actions[x] <= ActionTime
           /\ \A o \in Order : actions[Create(o)] # 0 \/ actions[Cancel(o)] # 0 => state[o] = "PENDING"
           /\ clock \in Nat /\ clock > 0 /\ clock <= ActionTime
           /\ attached \in Nat /\ attached <= ActionTime
           /\ Len(batch) \in Nat /\ DOMAIN batch = 1..Len(batch)
           /\ \A i \in 1..Len(batch) : batch[i].createdAt \in 1..clock /\ batch[i].key \in Poller!Key
           /\ createIndex \subseteq Order /\ cancelIndex \subseteq Order
           /\ resting \in Seq(Order) /\ Len(resting) \in Nat
  <1>1. batch \in Seq([key : Poller!Key, createdAt : 1..clock]) /\ clock \in 1..ActionTime
    BY DEF Poller!TypeOK
  <1>2. PICK R : R = [key : Poller!Key, createdAt : 1..clock]
    OBVIOUS
  <1>3. batch \in Seq(R)
    BY <1>1, <1>2
  <1>4. /\ Len(batch) \in Nat /\ DOMAIN batch = 1..Len(batch)
        /\ \A i \in 1..Len(batch) : batch[i] \in R
    BY <1>3
  <1>5. \A i \in 1..Len(batch) : batch[i].createdAt \in 1..clock /\ batch[i].key \in Poller!Key
    BY <1>2, <1>4
  <1>6. /\ type \in [Order -> {"LIMIT", "MARKET"}]
        /\ state \in [Order -> {"ABSENT", "PENDING", "DONE"}]
        /\ createIndex \subseteq Order /\ cancelIndex \subseteq Order
        /\ resting \in Seq(Order) /\ Len(resting) \in Nat
    BY DEF Poller!TypeOK
  <1>7. clock \in Nat /\ clock > 0 /\ clock <= ActionTime /\ attached \in Nat /\ attached <= ActionTime
    BY <1>1, PollerConstants DEF Poller!TypeOK
  <1>8. actions \in [Poller!Key -> 0..ActionTime]
    BY DEF Poller!TypeOK
  <1>9. actions \in [Poller!Key -> Nat] /\ \A x \in Poller!Key : actions[x] <= ActionTime
    BY <1>8, PollerConstants
  <1>10. \A o \in Order : actions[Create(o)] # 0 \/ actions[Cancel(o)] # 0 => state[o] = "PENDING"
    BY <1>8, PollerKeys DEF Poller!TypeOK
  <1> QED
    BY <1>4, <1>5, <1>6, <1>7, <1>9, <1>10

LEMMA EndEffect ==
    ASSUME Poller!TypeOK, NEW o \in Order, Poller!End(o)
    PROVE  /\ state' \in [Order -> {"ABSENT", "PENDING", "DONE"}]
           /\ actions' \in [Poller!Key -> 0..ActionTime]
           /\ \A n \in Order : state'[n] = IF n = o THEN "DONE" ELSE state[n]
           /\ \A x \in Poller!Key : actions'[x] = IF x[1] = o THEN 0 ELSE actions[x]
           /\ \A n \in Order : /\ actions'[Create(n)] = IF n = o THEN 0 ELSE actions[Create(n)]
                               /\ actions'[Cancel(n)] = IF n = o THEN 0 ELSE actions[Cancel(n)]
  <1>1. \A x \in Poller!Key : actions'[x] = IF x[1] = o THEN 0 ELSE actions[x]
    BY DEF Poller!End
  <1>2. actions' \in [Poller!Key -> 0..ActionTime]
    BY PollerConstants DEF Poller!End, Poller!TypeOK
  <1>3. \A n \in Order : Create(n)[1] = n /\ Cancel(n)[1] = n
    OBVIOUS
  <1> QED
    BY <1>1, <1>2, <1>3, PollerKeys DEF Poller!End, Poller!TypeOK

LEMMA CreateEffect ==
    ASSUME Poller!TypeOK, NEW o \in Order, Poller!CreateOrderAction(o)
    PROVE  /\ state' \in [Order -> {"ABSENT", "PENDING", "DONE"}]
           /\ actions' \in [Poller!Key -> 0..ActionTime]
           /\ \A n \in Order : state'[n] = IF n = o THEN "PENDING" ELSE state[n]
           /\ \A x \in Poller!Key : actions'[x] = IF x = Create(o) THEN clock ELSE actions[x]
  BY DEF Poller!CreateOrderAction, Poller!TypeOK

LEMMA CancelEffect ==
    ASSUME Poller!TypeOK, NEW o \in Order, Poller!CancelOrderAction(o)
    PROVE  /\ state' = state
           /\ actions' \in [Poller!Key -> 0..ActionTime]
           /\ \A x \in Poller!Key : actions'[x] = IF x = Cancel(o) THEN clock ELSE actions[x]
  BY DEF Poller!CancelOrderAction, Poller!TypeOK

\* ensureProcessOrderAction takes the first listed action to the engine.
Takes(o, action) ==
    /\ batch # <<>> /\ batch[1].key = <<o, action>>
    /\ attached' = batch[1].createdAt /\ batch' = Tail(batch)
    /\ UNCHANGED <<type, clock, crashes>>

LEMMA EnsureEffect ==
    ASSUME ActionInv, Poller!EnsureProcessOrderAction
    PROVE  \E o \in Order :
             \/ Takes(o, "CREATE") /\ Poller!CreateOrder(o)
             \/ Takes(o, "CANCEL") /\ Poller!CancelOrder(o)
  <1>1. batch # <<>> /\ Poller!TypeOK
    BY DEF ActionInv, Poller!EnsureProcessOrderAction
  <1>2. 1 \in 1..Len(batch) /\ Head(batch) = batch[1] /\ batch[1].key \in Poller!Key
    BY <1>1, PollerTypes
  <1>3. PICK o \in Order : batch[1].key = Create(o) \/ batch[1].key = Cancel(o)
    BY <1>2, PollerKeys
  <1>4. CASE batch[1].key = Create(o)
    BY <1>1, <1>2, <1>4 DEF Poller!EnsureProcessOrderAction, Takes
  <1>5. CASE batch[1].key = Cancel(o)
    BY <1>1, <1>2, <1>5 DEF Poller!EnsureProcessOrderAction, Takes
  <1> QED
    BY <1>3, <1>4, <1>5

LEMMA TakesTail ==
    ASSUME Poller!TypeOK, NEW o, NEW action, Takes(o, action)
    PROVE  /\ 1 \in 1..Len(batch) /\ Len(batch') = Len(batch) - 1 /\ Len(batch) \in Nat
           /\ batch' \in Seq([key : Poller!Key, createdAt : 1..clock'])
           /\ \A i \in 1..Len(batch') : i + 1 \in 1..Len(batch) /\ batch'[i] = batch[i + 1]
           /\ attached' \in 1..clock /\ clock' = clock
  <1>1. PICK R : R = [key : Poller!Key, createdAt : 1..clock]
    OBVIOUS
  <1>2. batch \in Seq(R) /\ batch # <<>>
    BY <1>1 DEF Poller!TypeOK, Takes
  <1>3. batch' = Tail(batch) /\ clock' = clock /\ attached' = batch[1].createdAt
    BY DEF Takes
  <1>4. Len(batch) \in Nat /\ Len(batch) > 0 /\ batch[1] \in R
    BY <1>2
  <1>a. Tail(batch) \in Seq(R)
    BY <1>2, <1>4
  <1>5. PICK t \in Seq(R) : t = Tail(batch)
    BY <1>a
  <1>6. Len(t) = Len(batch) - 1 /\ \A i \in 1..Len(t) : t[i] = batch[i + 1]
    BY <1>2, <1>5
  <1>7. t = batch'
    BY <1>3, <1>5
  <1>8. batch' \in Seq([key : Poller!Key, createdAt : 1..clock'])
    BY <1>1, <1>3, <1>5, <1>7, Zenon
  <1>9. attached' \in 1..clock
    BY <1>1, <1>3, <1>4
  <1>10. Len(batch') = Len(batch) - 1 /\ \A i \in 1..Len(batch') : batch'[i] = batch[i + 1]
    BY <1>6, <1>7, Zenon
  <1>11. \A i \in 1..Len(batch') : i + 1 \in 1..Len(batch)
    BY <1>4, <1>10
  <1>12. 1 \in 1..Len(batch)
    BY <1>4
  <1> QED
    BY <1>3, <1>4, <1>8, <1>9, <1>10, <1>11, <1>12

LEMMA ActionTypes == ASSUME ActionInv, Poller!Next PROVE Poller!TypeOK'
  <1> USE PollerConstants
  <1>0. Poller!TypeOK /\ Poller!BookMatchesTable
    BY DEF ActionInv, BookOK
  <1>1. CASE Poller!Tick
    <2>1. clock' \in 1..ActionTime /\ clock' \in Nat /\ clock' > clock
      BY <1>0, <1>1 DEF Poller!Tick, Poller!TypeOK
    <2>2. batch' \in Seq([key : Poller!Key, createdAt : 1..clock'])
      <3>1. PICK R, S : R = [key : Poller!Key, createdAt : 1..clock] /\ S = [key : Poller!Key, createdAt : 1..clock']
        OBVIOUS
      <3>2. R \subseteq S
        BY <1>0, <2>1, <3>1 DEF Poller!TypeOK
      <3>3. batch \in Seq(R) /\ batch' = batch
        BY <1>0, <1>1, <3>1 DEF Poller!TypeOK, Poller!Tick, Poller!poller
      <3>4. batch \in Seq(S)
        BY <3>2, <3>3
      <3> QED
        BY <3>1, <3>3, <3>4
    <2> QED
      BY <1>0, <1>1, <2>1, <2>2 DEF Poller!Tick, Poller!TypeOK, Poller!tables, Poller!poller, Poller!engine
  <1>2. ASSUME NEW o \in Order, Poller!CreateOrderAction(o) PROVE Poller!TypeOK'
    <2>1. \A x \in Poller!Key : actions'[x] # 0 => state'[x[1]] = "PENDING"
      BY <1>0, <1>2, CreateEffect, PollerKeys DEF Poller!TypeOK
    <2> QED
      BY <1>0, <1>2, <2>1, CreateEffect
      DEF Poller!CreateOrderAction, Poller!TypeOK, Poller!poller, Poller!engine
  <1>3. ASSUME NEW o \in Order, Poller!CancelOrderAction(o) PROVE Poller!TypeOK'
    <2>1. \A x \in Poller!Key : actions'[x] # 0 => state'[x[1]] = "PENDING"
      BY <1>0, <1>3, CancelEffect, PollerKeys DEF Poller!TypeOK, Poller!CancelOrderAction
    <2> QED
      BY <1>0, <1>3, <2>1, CancelEffect
      DEF Poller!CancelOrderAction, Poller!TypeOK, Poller!poller, Poller!engine
  <1>4. ASSUME NEW o \in Order, Poller!End(o) PROVE \A x \in Poller!Key : actions'[x] # 0 => state'[x[1]] = "PENDING"
    BY <1>0, <1>4, EndEffect, PollerKeys DEF Poller!TypeOK
  <1>5. ASSUME NEW o \in Order, Poller!FillOrder(o) PROVE Poller!TypeOK'
    <2>1. resting' \in Seq(Order)
      <3>1. o \in Poller!ToSet(resting) /\ resting' = Poller!Without(o)
        BY <1>5 DEF Poller!FillOrder
      <3> QED
        BY <1>0, <3>1, WithoutFacts
    <2> QED
      BY <1>0, <1>4, <1>5, <2>1, EndEffect DEF Poller!FillOrder, Poller!TypeOK, Poller!poller
  <1>6. CASE Poller!ListPendingActions
    <2>0. PICK n \in Nat : \E s \in [1..n -> Poller!Key] : Page(n, s)
      BY <1>6, ListEffect
    <2>1. PICK s \in [1..n -> Poller!Key] :
            /\ batch' = [i \in 1..n |-> [key |-> s[i], createdAt |-> actions[s[i]]]]
            /\ \A i \in 1..n : actions[s[i]] # 0
      BY <2>0 DEF Page
    <2>2. clock' = clock /\ \A i \in 1..n : s[i] \in Poller!Key /\ actions[s[i]] \in 1..clock
      BY <1>0, <1>6, <2>1 DEF Poller!ListPendingActions, Poller!TypeOK, ActionInv, TablesOK
    <2>3. PICK R : R = [key : Poller!Key, createdAt : 1..clock']
      OBVIOUS
    <2>4. \A i \in 1..n : [key |-> s[i], createdAt |-> actions[s[i]]] \in R
      BY <2>2, <2>3
    <2>5. batch' \in Seq(R)
      BY <2>1, <2>4
    <2>6. batch' \in Seq([key : Poller!Key, createdAt : 1..clock'])
      BY <2>3, <2>5
    <2> QED
      BY <1>0, <1>6, <2>6 DEF Poller!ListPendingActions, Poller!TypeOK, Poller!tables, Poller!engine
  <1>7. CASE Poller!EnsureProcessOrderAction
    <2>1. PICK o \in Order : \/ Takes(o, "CREATE") /\ Poller!CreateOrder(o)
                             \/ Takes(o, "CANCEL") /\ Poller!CancelOrder(o)
      BY <1>7, EnsureEffect
    <2>2. batch' \in Seq([key : Poller!Key, createdAt : 1..clock'])
      BY <1>0, <2>1, TakesTail
    <2>3. attached' \in 0..ActionTime
      <3>1. attached' \in 1..clock
        BY <1>0, <2>1, TakesTail
      <3> QED
        BY <1>0, <3>1 DEF Poller!TypeOK
    <2>4. resting' \in Seq(Order)
      <3>0. resting \in Seq(Order)
        BY <1>0 DEF Poller!TypeOK
      <3>1. CASE resting' = Append(resting, o) \/ resting' = resting
        <4>1. Append(resting, o) \in Seq(Order)
          BY <3>0
        <4> QED
          BY <3>0, <3>1, <4>1
      <3>2. CASE o \in Poller!ToSet(resting) /\ resting' = Poller!Without(o)
        BY <1>0, <3>2, WithoutFacts
      <3> QED
        BY <2>1, <3>1, <3>2 DEF Poller!CreateOrder, Poller!CancelOrder
    <2>5. Poller!End(o) \/ UNCHANGED <<state, actions>>
      BY <2>1 DEF Poller!CreateOrder, Poller!CancelOrder
    <2>6. createIndex' \cup cancelIndex' \subseteq Order
      BY <1>0, <2>1 DEF Poller!TypeOK, Poller!CreateOrder, Poller!CancelOrder
    <2>7. UNCHANGED <<type, clock, crashes>>
      BY <2>1 DEF Takes
    <2>8. CASE Poller!End(o)
      BY <1>0, <1>4, <2>2, <2>3, <2>4, <2>6, <2>7, <2>8, EndEffect DEF Poller!TypeOK
    <2>9. CASE UNCHANGED <<state, actions>>
      BY <1>0, <2>2, <2>3, <2>4, <2>6, <2>7, <2>9 DEF Poller!TypeOK
    <2> QED
      BY <2>5, <2>8, <2>9
  <1>8. CASE Poller!Restart
    <2>1. batch' \in Seq([key : Poller!Key, createdAt : 1..clock']) /\ resting' \in Seq(Order)
      BY <1>8 DEF Poller!Restart
    <2> QED
      BY <1>0, <1>8, <2>1 DEF Poller!Restart, Poller!TypeOK, Poller!tables, Poller!CheckpointAtStart
  <1> QED
    BY <1>1, <1>2, <1>3, <1>5, <1>6, <1>7, <1>8 DEF Poller!Next, Poller!PollOrderActions
\* The tables.
LEMMA TablesKept ==
    ASSUME ActionInv, Poller!Next
    PROVE  TablesOK'
  <1>0. Poller!TypeOK /\ TablesOK
    BY DEF ActionInv
  <1> DEFINE S == {x \in Poller!Key : actions[x] # 0}
             T == {x \in Poller!Key : actions'[x] # 0}
  <1>1. IsFiniteSet(S)
    BY <1>0 DEF TablesOK
  <1>2. CASE UNCHANGED <<type, state, actions>> /\ clock' \in Nat /\ clock <= clock'
    BY <1>0, <1>2, PollerTypes DEF TablesOK
  <1>3. ASSUME NEW o \in Order, Poller!CreateOrderAction(o) PROVE TablesOK'
    <2>1. actions[Create(o)] = 0 /\ actions[Cancel(o)] = 0 /\ clock' = clock /\ type' = type
      BY <1>0, <1>3, PollerTypes DEF Poller!CreateOrderAction
    <2>2. T = S \cup {Create(o)}
      BY <1>0, <1>3, CreateEffect, PollerTypes, PollerKeys
    <2>3. IsFiniteSet(T)
      <3> HIDE DEF S, T
      <3> QED
        BY <1>1, <2>2, FS_AddElement
    <2>4. ASSUME NEW x \in Poller!Key PROVE actions'[x] <= clock'
      <3>1. actions'[x] = clock \/ actions'[x] = actions[x]
        BY <1>0, <1>3, CreateEffect
      <3>2. actions[x] <= clock /\ clock <= clock /\ clock' = clock
        BY <1>0, <2>1, PollerTypes DEF TablesOK
      <3> QED
        BY <3>1, <3>2
    <2>5. \A n \in Order : /\ actions'[Cancel(n)] = actions[Cancel(n)]
                           /\ actions'[Create(n)] = IF n = o THEN clock ELSE actions[Create(n)]
      BY <1>0, <1>3, CreateEffect
    <2>6. ASSUME NEW n \in Order
          PROVE  /\ state'[n] = "PENDING" => actions'[Create(n)] # 0
                 /\ actions'[Cancel(n)] # 0 => type'[n] = "LIMIT" /\ actions'[Create(n)] <= actions'[Cancel(n)]
      BY <1>0, <1>3, <2>1, <2>5, CreateEffect, PollerTypes DEF TablesOK
    <2> QED
      BY <2>3, <2>4, <2>6 DEF TablesOK
  <1>4. ASSUME NEW o \in Order, Poller!CancelOrderAction(o) PROVE TablesOK'
    <2>1. T = S \cup {Cancel(o)}
      BY <1>0, <1>4, CancelEffect, PollerTypes, PollerKeys
    <2>2. IsFiniteSet(T)
      <3> HIDE DEF S, T
      <3> QED
        BY <1>1, <2>1, FS_AddElement
    <2>3. clock' = clock /\ type' = type /\ type[o] = "LIMIT" /\ state' = state
      BY <1>4 DEF Poller!CancelOrderAction
    <2>4. ASSUME NEW x \in Poller!Key PROVE actions'[x] <= clock'
      <3>1. actions'[x] = clock \/ actions'[x] = actions[x]
        BY <1>0, <1>4, CancelEffect
      <3>2. actions[x] <= clock /\ clock <= clock /\ clock' = clock
        BY <1>0, <2>3, PollerTypes DEF TablesOK
      <3> QED
        BY <3>1, <3>2
    <2>5. \A n \in Order : /\ actions'[Create(n)] = actions[Create(n)]
                           /\ actions'[Cancel(n)] = IF n = o THEN clock ELSE actions[Cancel(n)]
      BY <1>0, <1>4, CancelEffect
    <2>6. ASSUME NEW n \in Order
          PROVE  /\ state'[n] = "PENDING" => actions'[Create(n)] # 0
                 /\ actions'[Cancel(n)] # 0 => type'[n] = "LIMIT" /\ actions'[Create(n)] <= actions'[Cancel(n)]
      BY <1>0, <2>3, <2>5, PollerKeys DEF TablesOK
    <2> QED
      BY <2>2, <2>4, <2>6 DEF TablesOK
  <1>5. ASSUME NEW o \in Order, Poller!End(o), type' = type, clock' = clock PROVE TablesOK'
    <2>1. T \in SUBSET S
      BY <1>0, <1>5, EndEffect
    <2>2. IsFiniteSet(T)
      <3> HIDE DEF S, T
      <3> QED
        BY <1>1, <2>1, FS_Subset
    <2>3. \A x \in Poller!Key : actions'[x] <= clock'
      <3>1. \A x \in Poller!Key : actions[x] <= clock' /\ 0 <= clock'
        BY <1>0, <1>5, PollerTypes DEF TablesOK
      <3>2. \A x \in Poller!Key : actions'[x] = IF x[1] = o THEN 0 ELSE actions[x]
        BY <1>0, <1>5, EndEffect
      <3>3. ASSUME NEW x \in Poller!Key PROVE actions'[x] <= clock'
        <4>1. actions'[x] = 0 \/ actions'[x] = actions[x]
          BY <3>2
        <4> QED
          BY <3>1, <4>1
      <3> QED
        BY <3>3
    <2>4. ASSUME NEW n \in Order
          PROVE  /\ state'[n] = "PENDING" => actions'[Create(n)] # 0
                 /\ actions'[Cancel(n)] # 0 => type'[n] = "LIMIT" /\ actions'[Create(n)] <= actions'[Cancel(n)]
      BY <1>0, <1>5, EndEffect DEF TablesOK
    <2> QED
      BY <2>2, <2>3, <2>4 DEF TablesOK
  <1>6. CASE Poller!EnsureProcessOrderAction
    <2>1. PICK o \in Order : \/ Takes(o, "CREATE") /\ Poller!CreateOrder(o)
                             \/ Takes(o, "CANCEL") /\ Poller!CancelOrder(o)
      BY <1>6, EnsureEffect
    <2>2. type' = type /\ clock' = clock /\ (Poller!End(o) \/ UNCHANGED <<state, actions>>)
      BY <2>1 DEF Takes, Poller!CreateOrder, Poller!CancelOrder
    <2> QED
      BY <1>0, <1>2, <1>5, <2>2, PollerTypes
  <1>7. ASSUME NEW o \in Order, Poller!FillOrder(o) PROVE TablesOK'
    BY <1>5, <1>7 DEF Poller!FillOrder
  <1>8. CASE Poller!Tick \/ Poller!ListPendingActions \/ Poller!Restart
    BY <1>0, <1>2, <1>8, PollerTypes DEF Poller!Tick, Poller!ListPendingActions, Poller!Restart, Poller!tables
  <1> QED
    BY <1>3, <1>4, <1>6, <1>7, <1>8 DEF Poller!Next, Poller!PollOrderActions
\* What an order that ends leaves on the book.
LEMMA BookEnds ==
    ASSUME ActionInv, NEW o \in Order, Poller!End(o), o \in Poller!ToSet(resting),
           resting' = Poller!Without(o), createIndex' = createIndex,
           cancelIndex' \subseteq cancelIndex \cup {o}, attached' \in Nat, attached <= attached'
    PROVE  BookOK'
  <1>0. /\ Poller!TypeOK /\ Poller!BookMatchesTable /\ Poller!BookIsByAge /\ BookOK
        /\ resting \in Seq(Order) /\ DOMAIN resting = 1..Len(resting)
    BY PollerTypes DEF ActionInv, BookOK
  <1>1. PICK r : r = resting'
    OBVIOUS
  <1>2. /\ r \in Seq(Order) /\ Len(r) \in Nat /\ DOMAIN r = 1..Len(r)
        /\ \A i \in 1..Len(r) : \E j \in 1..Len(resting) : r[i] = resting[j] /\ r[i] # o
        /\ \A i \in 1..Len(resting) : resting[i] # o => \E j \in 1..Len(r) : r[j] = resting[i]
        /\ \A i, j \in 1..Len(r) : i < j =>
             r[i] # r[j] /\ actions[Create(r[i])] <= actions[Create(r[j])]
    <2>1. r = Poller!Without(o)
      BY <1>1
    <2>2. r \in Seq(Order)
      BY <1>0, <2>1, WithoutFacts
    <2>3. Len(r) \in Nat /\ DOMAIN r = 1..Len(r)
      BY <2>2
    <2>4. \A i \in 1..Len(r) : \E j \in 1..Len(resting) : r[i] = resting[j] /\ r[i] # o
      BY <1>0, <2>1, WithoutFacts
    <2>6. \A i \in 1..Len(resting) : resting[i] # o => \E j \in 1..Len(r) : r[j] = resting[i]
      BY <1>0, <2>1, WithoutFacts
    <2>5. \A i, j \in 1..Len(r) : i < j =>
            r[i] # r[j] /\ actions[Create(r[i])] <= actions[Create(r[j])]
      BY <1>0, <2>1, WithoutFacts
    <2> QED
      BY <2>2, <2>3, <2>4, <2>5, <2>6, Zenon
  <1>3. /\ \A n \in Order : n # o => state'[n] = state[n] /\ actions'[Create(n)] = actions[Create(n)]
        /\ state'[o] = "DONE"
    BY <1>0, EndEffect
  <1>4. \A i \in 1..Len(resting) : resting[i] \in Order
    BY <1>0
  <1>5. o \in createIndex /\ createIndex \subseteq Order /\ cancelIndex \subseteq Order
    <2>1. PICK i \in 1..Len(resting) : resting[i] = o
      BY <1>0 DEF Poller!ToSet
    <2> QED
      BY <1>0, <2>1, PollerTypes DEF BookOK
  <1>6. ASSUME NEW i \in 1..Len(r), NEW j \in 1..Len(r), i # j PROVE r[i] # r[j]
    <2>1. i < j \/ j < i
      BY <1>2, <1>6
    <2>2. i < j => r[i] # r[j]
      BY <1>2
    <2>3. j < i => r[j] # r[i]
      BY <1>2
    <2> QED
      BY <2>1, <2>2, <2>3
  <1>7. ASSUME NEW i \in 1..Len(r) PROVE state'[r[i]] = "PENDING" /\ r[i] \in createIndex'
    <2>1. PICK j \in 1..Len(resting) : r[i] = resting[j] /\ r[i] # o
      BY <1>2
    <2>2. state[resting[j]] = "PENDING" /\ resting[j] \in createIndex
      BY <1>0 DEF Poller!BookMatchesTable, BookOK
    <2> QED
      BY <1>3, <1>4, <2>1, <2>2
  <1>8. ASSUME NEW i \in 1..Len(r), NEW j \in 1..Len(r), i < j
        PROVE  actions'[Create(r[i])] <= actions'[Create(r[j])]
    <2>1. r[i] \in Order /\ r[j] \in Order /\ r[i] # o /\ r[j] # o
      BY <1>2, <1>4
    <2>2. actions[Create(r[i])] <= actions[Create(r[j])]
      BY <1>2, <1>8
    <2> QED
      BY <1>3, <2>1, <2>2
  <1>9. Poller!BookMatchesTable' /\ Poller!BookIsByAge'
    BY <1>1, <1>2, <1>6, <1>7, <1>8 DEF Poller!BookMatchesTable, Poller!BookIsByAge
  <1>10. \A n \in createIndex' \cup cancelIndex' : state'[n] # "ABSENT"
    BY <1>0, <1>3, <1>5 DEF BookOK
  <1>11. ASSUME NEW n \in createIndex', state'[n] = "PENDING"
         PROVE  (\E i \in 1..Len(r) : r[i] = n) /\ actions'[Create(n)] <= attached'
    <2>1. n # o /\ n \in Order /\ n \in createIndex /\ state[n] = "PENDING"
      BY <1>3, <1>5, <1>11
    <2>2. PICK i \in 1..Len(resting) : resting[i] = n
      BY <1>0, <2>1 DEF BookOK
    <2>3. actions[Create(n)] \in Nat /\ actions[Create(n)] <= attached /\ attached \in Nat
      BY <1>0, <2>1, PollerTypes DEF BookOK
    <2>4. actions'[Create(n)] <= attached'
      BY <1>3, <2>1, <2>3
    <2> QED
      BY <1>2, <2>1, <2>2, <2>4
  <1> QED
    BY <1>1, <1>7, <1>9, <1>10, <1>11 DEF BookOK
\* The book and the two indexes.
LEMMA BookKept ==
    ASSUME ActionInv, Poller!Next
    PROVE  BookOK'
  <1>0. /\ Poller!TypeOK /\ TablesOK /\ BatchOK /\ Poller!BookMatchesTable /\ Poller!BookIsByAge /\ BookOK
        /\ resting \in Seq(Order) /\ DOMAIN resting = 1..Len(resting) /\ Len(resting) \in Nat
        /\ \A i \in 1..Len(resting) :
             resting[i] \in Order /\ state[resting[i]] = "PENDING" /\ resting[i] \in createIndex
        /\ createIndex \subseteq Order /\ cancelIndex \subseteq Order /\ attached \in Nat
    <2>1. Poller!TypeOK /\ TablesOK /\ BatchOK /\ Poller!BookMatchesTable /\ Poller!BookIsByAge /\ BookOK
      BY DEF ActionInv, BookOK
    <2>2. /\ resting \in Seq(Order) /\ Len(resting) \in Nat
          /\ createIndex \subseteq Order /\ cancelIndex \subseteq Order /\ attached \in Nat
      BY <2>1, PollerTypes
    <2>3. DOMAIN resting = 1..Len(resting) /\ \A i \in 1..Len(resting) : resting[i] \in Order
      BY <2>2
    <2>4. \A i \in 1..Len(resting) : state[resting[i]] = "PENDING" /\ resting[i] \in createIndex
      BY <2>1, <2>3 DEF Poller!BookMatchesTable, BookOK
    <2> QED
      BY <2>1, <2>2, <2>3, <2>4, Zenon
  <1>1. ASSUME UNCHANGED Poller!engine, attached' \in Nat, attached <= attached',
               \A n \in Order : state[n] # "ABSENT" =>
                 state'[n] = state[n] /\ actions'[Create(n)] = actions[Create(n)]
        PROVE  BookOK'
    <2>1. createIndex' = createIndex /\ cancelIndex' = cancelIndex /\ resting' = resting
      BY <1>1 DEF Poller!engine
    <2>2. Poller!BookMatchesTable'
      BY <1>0, <1>1, <2>1 DEF Poller!BookMatchesTable
    <2>3. Poller!BookIsByAge'
      <3>1. ASSUME NEW i \in 1..Len(resting), NEW j \in 1..Len(resting), i < j
            PROVE  actions'[Create(resting[i])] <= actions'[Create(resting[j])]
        <4>1. actions[Create(resting[i])] <= actions[Create(resting[j])]
          BY <1>0, <3>1 DEF Poller!BookIsByAge
        <4> QED
          BY <1>0, <1>1, <4>1
      <3> QED
        BY <1>0, <2>1, <3>1 DEF Poller!BookIsByAge
    <2>4. \A n \in createIndex \cup cancelIndex : state'[n] # "ABSENT" /\ state[n] # "ABSENT"
      BY <1>0, <1>1 DEF BookOK
    <2>5. ASSUME NEW n \in createIndex, state'[n] = "PENDING"
          PROVE  (\E i \in 1..Len(resting) : resting[i] = n) /\ actions'[Create(n)] <= attached'
      <3>1. n \in Order /\ state[n] = "PENDING"
        BY <1>0, <1>1, <2>4, <2>5
      <3>2. actions[Create(n)] \in Nat /\ actions[Create(n)] <= attached
        BY <1>0, <3>1, PollerTypes DEF BookOK
      <3>3. actions'[Create(n)] <= attached'
        BY <1>0, <1>1, <3>1, <3>2
      <3> QED
        BY <1>0, <3>1, <3>3 DEF BookOK
    <2> QED
      BY <1>0, <2>1, <2>2, <2>3, <2>4, <2>5 DEF BookOK
  <1>2. CASE Poller!Tick
    BY <1>0, <1>1, <1>2 DEF Poller!Tick, Poller!tables, Poller!poller
  <1>3. CASE Poller!ListPendingActions
    BY <1>0, <1>1, <1>3 DEF Poller!ListPendingActions, Poller!tables
  <1>4. ASSUME NEW o \in Order, Poller!CreateOrderAction(o) PROVE BookOK'
    <2>1. \A n \in Order : n # o => state'[n] = state[n] /\ actions'[Create(n)] = actions[Create(n)]
      BY <1>0, <1>4, CreateEffect
    <2>2. state[o] = "ABSENT" /\ attached' = attached /\ UNCHANGED Poller!engine
      BY <1>4 DEF Poller!CreateOrderAction, Poller!poller
    <2> QED
      BY <1>0, <1>1, <2>1, <2>2
  <1>5. ASSUME NEW o \in Order, Poller!CancelOrderAction(o) PROVE BookOK'
    <2>1. \A n \in Order : state'[n] = state[n] /\ actions'[Create(n)] = actions[Create(n)]
      BY <1>0, <1>5, CancelEffect
    <2>2. attached' = attached /\ UNCHANGED Poller!engine
      BY <1>5 DEF Poller!CancelOrderAction, Poller!poller
    <2> QED
      BY <1>0, <1>1, <2>1, <2>2
  <1>6. ASSUME NEW o \in Order, Poller!FillOrder(o) PROVE BookOK'
    BY <1>0, <1>6, BookEnds DEF Poller!FillOrder, Poller!poller
  <1>7. ASSUME NEW o \in Order, NEW action \in {"CREATE", "CANCEL"}, Takes(o, action)
        PROVE  /\ attached' \in Nat /\ attached <= attached' /\ attached' = batch[1].createdAt
               /\ state[o] # "ABSENT"
               /\ o \notin createIndex => actions[<<o, action>>] = attached' /\ state[o] = "PENDING"
    <2>1. /\ 1 \in 1..Len(batch) /\ attached' = batch[1].createdAt /\ batch[1].key = <<o, action>>
          /\ attached' \in 1..clock
      BY <1>0, <1>7, TakesTail DEF Takes
    <2>2. attached <= attached' /\ state[o] # "ABSENT" /\ (o \notin createIndex => actions[<<o, action>>] = attached')
      BY <1>0, <2>1 DEF BatchOK
    <2>3. attached' \in Nat /\ attached' # 0
      BY <1>0, <2>1, PollerTypes
    <2>4. actions[<<o, action>>] # 0 => state[o] = "PENDING"
      <3>1. <<o, action>> \in Poller!Key /\ <<o, action>>[1] = o
        BY <1>7 DEF Poller!Key
      <3>2. \A x \in Poller!Key : actions[x] # 0 => state[x[1]] = "PENDING"
        BY <1>0 DEF Poller!TypeOK
      <3> QED
        BY <3>1, <3>2
    <2> QED
      BY <2>1, <2>2, <2>3, <2>4
  <1>8. ASSUME NEW o \in Order, Takes(o, "CREATE"), Poller!CreateOrder(o) PROVE BookOK'
    <2>1. CASE o \in createIndex
      <3>1. UNCHANGED Poller!engine /\ UNCHANGED <<state, actions>>
        BY <1>8, <2>1 DEF Poller!CreateOrder, Poller!Known, Poller!engine
      <3> QED
        BY <1>0, <1>1, <1>7, <1>8, <3>1
    <2>2. CASE o \notin createIndex /\ resting' = Append(resting, o) /\ UNCHANGED <<state, actions>>
      <3>0. Append(resting, o) \in Seq(Order)
        <4>1. resting \in Seq(Order) /\ o \in Order
          BY <1>0
        <4> QED
          BY <4>1
      <3>1. PICK r \in Seq(Order) : r = Append(resting, o)
        BY <3>0
      <3>2. /\ Len(r) = Len(resting) + 1 /\ DOMAIN r = 1..Len(r)
            /\ \A i \in 1..Len(resting) : r[i] = resting[i]
            /\ r[Len(resting) + 1] = o
        BY <1>0, <3>1
      <3>3. /\ resting' = r /\ state' = state /\ actions' = actions
            /\ createIndex' = createIndex \cup {o} /\ cancelIndex' = cancelIndex
        BY <1>8, <2>2, <3>1 DEF Poller!CreateOrder
      <3>4. /\ attached' \in Nat /\ attached <= attached' /\ state[o] = "PENDING"
            /\ actions[Create(o)] = attached'
        BY <1>7, <1>8, <2>2
      <3>5. \A i \in 1..Len(resting) : resting[i] # o /\ actions[Create(resting[i])] <= attached'
        <4>1. ASSUME NEW i \in 1..Len(resting) PROVE resting[i] # o /\ actions[Create(resting[i])] <= attached'
          <5>1. actions[Create(resting[i])] <= attached /\ actions[Create(resting[i])] \in Nat
            BY <1>0, PollerTypes DEF BookOK
          <5> QED
            BY <1>0, <2>2, <3>4, <5>1
        <4> QED
          BY <4>1
      <3>6. \A i \in 1..Len(r) : state[r[i]] = "PENDING" /\ r[i] \in createIndex \cup {o}
        BY <1>0, <3>2, <3>4
      <3>7. ASSUME NEW i \in 1..Len(r), NEW j \in 1..Len(r), i < j
            PROVE  r[i] # r[j] /\ actions[Create(r[i])] <= actions[Create(r[j])]
        <4>1. CASE j = Len(resting) + 1
          <5>1. i \in 1..Len(resting) /\ r[i] = resting[i] /\ r[j] = o
            BY <1>0, <3>2, <3>7, <4>1
          <5> QED
            BY <3>4, <3>5, <5>1
        <4>2. CASE j # Len(resting) + 1
          <5>1. i \in 1..Len(resting) /\ j \in 1..Len(resting) /\ r[i] = resting[i] /\ r[j] = resting[j]
            BY <1>0, <3>2, <3>7, <4>2
          <5>2. resting[i] # resting[j]
            BY <1>0, <3>7, <5>1 DEF Poller!BookMatchesTable
          <5>3. actions[Create(resting[i])] <= actions[Create(resting[j])]
            BY <1>0, <3>7, <5>1 DEF Poller!BookIsByAge
          <5> QED
            BY <5>1, <5>2, <5>3
        <4> QED
          BY <4>1, <4>2
      <3>8. ASSUME NEW i \in 1..Len(r), NEW j \in 1..Len(r), i # j PROVE r[i] # r[j]
        <4>1. i < j \/ j < i
          BY <1>0, <3>2, <3>8
        <4> QED
          BY <3>7, <4>1
      <3>9. Poller!BookMatchesTable'
        BY <3>2, <3>3, <3>6, <3>8 DEF Poller!BookMatchesTable
      <3>10. Poller!BookIsByAge'
        BY <3>2, <3>3, <3>7 DEF Poller!BookIsByAge
      <3>11. \A n \in createIndex' \cup cancelIndex' : state'[n] # "ABSENT"
        BY <1>0, <3>3, <3>4 DEF BookOK
      <3>12. ASSUME NEW n \in createIndex', state'[n] = "PENDING"
             PROVE  (\E i \in 1..Len(r) : r[i] = n) /\ actions'[Create(n)] <= attached'
        <4>1. CASE n = o
          <5>1. Len(resting) + 1 \in 1..Len(r)
            BY <1>0, <3>2
          <5> QED
            BY <3>2, <3>3, <3>4, <4>1, <5>1
        <4>2. CASE n # o
          <5>1. n \in createIndex /\ n \in Order /\ state[n] = "PENDING"
            BY <1>0, <3>3, <3>12, <4>2
          <5>2. PICK i \in 1..Len(resting) : resting[i] = n
            BY <1>0, <5>1 DEF BookOK
          <5>3. i \in 1..Len(r) /\ r[i] = n
            BY <1>0, <3>2, <5>2
          <5> QED
            BY <3>3, <3>5, <5>2, <5>3
        <4> QED
          BY <4>1, <4>2
      <3> QED
        BY <3>3, <3>6, <3>9, <3>10, <3>11, <3>12 DEF BookOK
    <2>3. CASE o \notin createIndex /\ Poller!End(o) /\ resting' = resting
      <3>1. /\ createIndex' = createIndex \cup {o} /\ cancelIndex' = cancelIndex
            /\ attached' \in Nat /\ attached <= attached'
        BY <1>7, <1>8 DEF Poller!CreateOrder
      <3>2. /\ \A n \in Order : n # o => state'[n] = state[n] /\ actions'[Create(n)] = actions[Create(n)]
            /\ state'[o] = "DONE"
        BY <1>0, <2>3, EndEffect
      <3>3. \A i \in 1..Len(resting) : resting[i] # o
        BY <1>0, <2>3
      <3>4. Poller!BookMatchesTable'
        <4>1. ASSUME NEW i \in 1..Len(resting)
              PROVE  /\ state'[resting[i]] = "PENDING"
                     /\ \A j \in 1..Len(resting) : i # j => resting[i] # resting[j]
          <5>1. resting[i] \in Order /\ resting[i] # o /\ state[resting[i]] = "PENDING"
            BY <1>0, <3>3
          <5>2. state'[resting[i]] = "PENDING"
            BY <3>2, <5>1
          <5>3. \A j \in 1..Len(resting) : i # j => resting[i] # resting[j]
            BY <1>0 DEF Poller!BookMatchesTable
          <5> QED
            BY <5>2, <5>3
        <4>2. resting' = resting /\ DOMAIN resting = 1..Len(resting)
          BY <1>0, <2>3
        <4> QED
          BY <4>1, <4>2 DEF Poller!BookMatchesTable
      <3>5. Poller!BookIsByAge'
        <4>1. ASSUME NEW i \in 1..Len(resting), NEW j \in 1..Len(resting), i < j
              PROVE  actions'[Create(resting[i])] <= actions'[Create(resting[j])]
          <5>1. actions[Create(resting[i])] <= actions[Create(resting[j])]
            BY <1>0, <4>1 DEF Poller!BookIsByAge
          <5> QED
            BY <1>0, <3>2, <3>3, <5>1
        <4> QED
          BY <1>0, <2>3, <4>1 DEF Poller!BookIsByAge
      <3>6. \A n \in createIndex' \cup cancelIndex' : state'[n] # "ABSENT"
        BY <1>0, <3>1, <3>2 DEF BookOK
      <3>7. ASSUME NEW n \in createIndex', state'[n] = "PENDING"
            PROVE  (\E i \in 1..Len(resting) : resting[i] = n) /\ actions'[Create(n)] <= attached'
        <4>1. n # o /\ n \in createIndex /\ n \in Order /\ state[n] = "PENDING"
          BY <1>0, <3>1, <3>2, <3>7
        <4>2. actions[Create(n)] \in Nat /\ actions[Create(n)] <= attached
          BY <1>0, <4>1, PollerTypes DEF BookOK
        <4>3. actions'[Create(n)] <= attached'
          BY <1>0, <3>1, <3>2, <4>1, <4>2
        <4> QED
          BY <1>0, <4>1, <4>3 DEF BookOK
      <3> QED
        BY <1>0, <2>3, <3>1, <3>4, <3>5, <3>6, <3>7 DEF BookOK
    <2> QED
      BY <1>8, <2>1, <2>2, <2>3 DEF Poller!CreateOrder, Poller!Known
  <1>9. ASSUME NEW o \in Order, Takes(o, "CANCEL"), Poller!CancelOrder(o) PROVE BookOK'
    <2>1. attached' \in Nat /\ attached <= attached' /\ state[o] # "ABSENT"
      BY <1>7, <1>9
    <2>2. createIndex' = createIndex /\ cancelIndex' = cancelIndex \cup {o}
      BY <1>9 DEF Poller!CancelOrder
    <2>3. CASE o \in Poller!ToSet(resting) /\ Poller!End(o) /\ resting' = Poller!Without(o)
      BY <2>1, <2>2, <2>3, BookEnds
    <2>4. CASE UNCHANGED <<state, actions, resting>>
      <3>1. Poller!BookMatchesTable' /\ Poller!BookIsByAge'
        BY <1>0, <2>4 DEF Poller!BookMatchesTable, Poller!BookIsByAge
      <3>2. \A n \in createIndex' \cup cancelIndex' : state'[n] # "ABSENT"
        BY <1>0, <2>1, <2>2, <2>4 DEF BookOK
      <3>3. ASSUME NEW n \in createIndex, state[n] = "PENDING"
            PROVE  (\E i \in 1..Len(resting) : resting[i] = n) /\ actions[Create(n)] <= attached'
        <4>1. n \in Order /\ actions[Create(n)] <= attached
          BY <1>0, <3>3 DEF BookOK
        <4>2. actions[Create(n)] \in Nat
          BY <1>0, <4>1, PollerTypes
        <4> QED
          BY <1>0, <2>1, <3>3, <4>1, <4>2 DEF BookOK
      <3> QED
        BY <1>0, <2>2, <2>4, <3>1, <3>2, <3>3 DEF BookOK
    <2> QED
      BY <1>9, <2>3, <2>4 DEF Poller!CancelOrder
  <1>10. CASE Poller!Restart
    BY <1>10 DEF Poller!Restart, BookOK, Poller!BookMatchesTable, Poller!BookIsByAge
  <1> QED
    BY <1>2, <1>3, <1>4, <1>5, <1>6, <1>8, <1>9, <1>10, EnsureEffect
    DEF Poller!Next, Poller!PollOrderActions
\* The listed actions, and that the checkpoint passes over none.
LEMMA BatchKept ==
    ASSUME ActionInv, Poller!Next
    PROVE  BatchOK' /\ NothingPassed'
  <1>0. /\ Poller!TypeOK /\ TablesOK /\ BookOK /\ BatchOK /\ NothingPassed
        /\ \A x \in Poller!Key : actions[x] \in Nat /\ actions[x] <= clock
        /\ \A x \in Poller!Key : actions[x] # 0 => state[x[1]] = "PENDING"
        /\ clock \in Nat /\ clock > 0 /\ attached \in Nat /\ attached <= clock /\ Len(batch) \in Nat
        /\ \A i \in 1..Len(batch) :
             /\ batch[i].createdAt \in 1..clock /\ batch[i].key \in Poller!Key
             /\ batch[i].key[1] \in Order /\ state[batch[i].key[1]] # "ABSENT"
             /\ batch[i].key[1] \notin createIndex => actions[batch[i].key] = batch[i].createdAt
    <2>1. Poller!TypeOK /\ TablesOK /\ BookOK /\ BatchOK /\ NothingPassed
      BY DEF ActionInv
    <2>2. \A x \in Poller!Key : actions[x] \in Nat /\ actions[x] <= clock
      BY <2>1, PollerTypes DEF TablesOK
    <2>3. \A x \in Poller!Key : actions[x] # 0 => state[x[1]] = "PENDING"
      BY <2>1 DEF Poller!TypeOK
    <2>4. clock \in Nat /\ clock > 0 /\ attached \in Nat /\ attached <= clock /\ Len(batch) \in Nat
      BY <2>1, PollerTypes DEF BatchOK
    <2>5. \A i \in 1..Len(batch) : /\ batch[i].createdAt \in 1..clock /\ batch[i].key \in Poller!Key
                                   /\ batch[i].key[1] \in Order
      BY <2>1, PollerTypes, PollerKeys
    <2>6. \A i \in 1..Len(batch) :
            /\ state[batch[i].key[1]] # "ABSENT"
            /\ batch[i].key[1] \notin createIndex => actions[batch[i].key] = batch[i].createdAt
      BY <2>1 DEF BatchOK
    <2> QED
      BY <2>1, <2>2, <2>3, <2>4, <2>5, <2>6, Zenon
  \* Nothing is attached, and what is written is written now.
  <1>1. ASSUME UNCHANGED <<attached, batch, createIndex, cancelIndex>>, clock' \in Nat, clock <= clock',
               \A x \in Poller!Key : actions'[x] = actions[x] \/ (actions'[x] = clock /\ actions[x] = 0) \/ actions'[x] = 0,
               \A i \in 1..Len(batch) :
                 /\ state'[batch[i].key[1]] # "ABSENT"
                 /\ batch[i].key[1] \notin createIndex => actions'[batch[i].key] = actions[batch[i].key]
        PROVE  BatchOK' /\ NothingPassed'
    <2>1. BatchOK'
      <3>1. attached' <= clock'
        BY <1>0, <1>1
      <3>2. ASSUME NEW i \in 1..Len(batch)
            PROVE  /\ batch[i].createdAt >= attached
                   /\ \A j \in 1..Len(batch) : i < j => batch[i].createdAt <= batch[j].createdAt
                   /\ state'[batch[i].key[1]] # "ABSENT"
                   /\ batch[i].key[1] \notin createIndex => actions'[batch[i].key] = batch[i].createdAt
        BY <1>0, <1>1 DEF BatchOK
      <3> QED
        BY <1>1, <3>1, <3>2 DEF BatchOK
    <2>2. ASSUME NEW x \in Poller!Key, actions'[x] # 0, ~ Poller!Attached(x)'
          PROVE  /\ actions'[x] >= attached
                 /\ \A i \in 1..Len(batch) : actions'[x] < batch[i].createdAt =>
                      \E j \in 1..(i - 1) : batch[j].key = x
      <3>1. ~ Poller!Attached(x)
        BY <1>1, <2>2 DEF Poller!Attached
      <3>2. CASE actions'[x] = actions[x]
        BY <1>0, <2>2, <3>1, <3>2 DEF NothingPassed
      <3>3. CASE actions'[x] = clock
        BY <1>0, <3>3
      <3> QED
        BY <1>1, <2>2, <3>2, <3>3
    <2> QED
      BY <1>1, <2>1, <2>2 DEF NothingPassed
  <1>2. CASE Poller!Tick
    <2>1. /\ UNCHANGED <<attached, batch, createIndex, cancelIndex>> /\ actions' = actions /\ state' = state
          /\ clock' \in Nat /\ clock <= clock'
      BY <1>0, <1>2 DEF Poller!Tick, Poller!tables, Poller!poller, Poller!engine
    <2> QED
      BY <1>0, <1>1, <2>1
  <1>3. ASSUME NEW o \in Order, Poller!CreateOrderAction(o) PROVE BatchOK' /\ NothingPassed'
    <2>1. /\ UNCHANGED <<attached, batch, createIndex, cancelIndex>> /\ clock' = clock
          /\ state[o] = "ABSENT"
      BY <1>3 DEF Poller!CreateOrderAction, Poller!poller, Poller!engine
    <2>2. actions[Create(o)] = 0
      BY <1>0, <2>1, PollerTypes
    <2>3. \A x \in Poller!Key : actions'[x] = actions[x] \/ (actions'[x] = clock /\ actions[x] = 0)
      BY <1>0, <1>3, <2>2, CreateEffect
    <2>4. ASSUME NEW i \in 1..Len(batch)
          PROVE  /\ state'[batch[i].key[1]] # "ABSENT"
                 /\ actions'[batch[i].key] = actions[batch[i].key]
      <3>1. batch[i].key[1] # o /\ batch[i].key # Create(o)
        BY <1>0, <2>1
      <3>2. state'[batch[i].key[1]] = state[batch[i].key[1]] /\ actions'[batch[i].key] = actions[batch[i].key]
        BY <1>0, <1>3, <3>1, CreateEffect
      <3> QED
        BY <1>0, <3>2
    <2> QED
      BY <1>0, <1>1, <2>1, <2>3, <2>4
  <1>4. ASSUME NEW o \in Order, Poller!CancelOrderAction(o) PROVE BatchOK' /\ NothingPassed'
    <2>1. /\ UNCHANGED <<attached, batch, createIndex, cancelIndex>> /\ clock' = clock /\ state' = state
          /\ actions[Cancel(o)] = 0
      BY <1>4 DEF Poller!CancelOrderAction, Poller!poller, Poller!engine
    <2>2. \A x \in Poller!Key : actions'[x] = actions[x] \/ (actions'[x] = clock /\ actions[x] = 0)
      BY <1>0, <1>4, <2>1, CancelEffect
    <2>3. ASSUME NEW i \in 1..Len(batch), batch[i].key[1] \notin createIndex
          PROVE  actions'[batch[i].key] = actions[batch[i].key]
      <3>1. batch[i].key # Cancel(o)
        <4>1. actions[batch[i].key] = batch[i].createdAt /\ batch[i].createdAt \in 1..clock
          BY <1>0, <2>3
        <4>2. clock \in Nat /\ actions[Cancel(o)] = 0
          BY <1>0, <2>1
        <4> QED
          BY <4>1, <4>2
      <3> QED
        BY <1>0, <1>4, <3>1, CancelEffect
    <2> QED
      BY <1>0, <1>1, <2>1, <2>2, <2>3
  <1>5. ASSUME NEW o \in Order, Poller!FillOrder(o) PROVE BatchOK' /\ NothingPassed'
    <2>1. /\ UNCHANGED <<attached, batch, createIndex, cancelIndex>> /\ clock' = clock /\ Poller!End(o)
          /\ o \in Poller!ToSet(resting)
      BY <1>5 DEF Poller!FillOrder, Poller!poller
    <2>2. o \in createIndex
      BY <1>0, <2>1, PollerTypes DEF Poller!ToSet, BookOK
    <2>3. \A x \in Poller!Key : actions'[x] = actions[x] \/ actions'[x] = 0
      BY <1>0, <2>1, EndEffect
    <2>4. ASSUME NEW i \in 1..Len(batch)
          PROVE  /\ state'[batch[i].key[1]] # "ABSENT"
                 /\ batch[i].key[1] \notin createIndex => actions'[batch[i].key] = actions[batch[i].key]
      BY <1>0, <2>1, <2>2, EndEffect
    <2> QED
      BY <1>0, <1>1, <2>1, <2>3, <2>4
  <1>6. CASE Poller!Restart
    <2>1. attached' = 0 /\ batch' = <<>> /\ clock' = clock /\ actions' = actions /\ state' = state
      BY <1>6 DEF Poller!Restart, Poller!CheckpointAtStart, Poller!tables
    <2> QED
      BY <1>0, <2>1 DEF BatchOK, NothingPassed
  <1>7. CASE Poller!ListPendingActions
    <2>0. PICK n \in Nat : \E s \in [1..n -> Poller!Key] : Page(n, s)
      BY <1>7, ListEffect
    <2>1. PICK s \in [1..n -> Poller!Key] :
             /\ batch' = [i \in 1..n |-> [key |-> s[i], createdAt |-> actions[s[i]]]]
             /\ \A i \in 1..n : actions[s[i]] # 0 /\ actions[s[i]] >= attached
             /\ \A i, j \in 1..n : i < j => actions[s[i]] <= actions[s[j]]
             /\ \A x \in Poller!Key : actions[x] # 0 /\ actions[x] >= attached =>
                  \/ \E j \in 1..n : s[j] = x
                  \/ \A i \in 1..n : actions[s[i]] <= actions[x]
      BY <2>0 DEF Page
    <2>2. /\ attached' = attached /\ createIndex' = createIndex /\ cancelIndex' = cancelIndex
          /\ clock' = clock /\ actions' = actions /\ state' = state
      BY <1>7 DEF Poller!ListPendingActions, Poller!tables, Poller!engine
    <2>3. PICK b : b = batch'
      OBVIOUS
    <2>4. Len(b) = n /\ \A i \in 1..n : b[i].key = s[i] /\ b[i].createdAt = actions[s[i]]
      <3>1. b = [i \in 1..n |-> [key |-> s[i], createdAt |-> actions[s[i]]]]
        BY <2>1, <2>3
      <3> QED
        BY <3>1
    <2>5. \A i \in 1..n : s[i] \in Poller!Key /\ state[s[i][1]] = "PENDING"
      BY <1>0, <2>1
    <2>6. BatchOK'
      BY <1>0, <2>1, <2>2, <2>3, <2>4, <2>5 DEF BatchOK
    <2>7. ASSUME NEW x \in Poller!Key, actions[x] # 0, ~ Poller!Attached(x)
          PROVE  /\ actions[x] >= attached
                 /\ \A i \in 1..n : actions[x] < b[i].createdAt => \E j \in 1..(i - 1) : b[j].key = x
      <3>1. actions[x] >= attached
        BY <1>0, <2>7 DEF NothingPassed
      <3>2. ASSUME NEW i \in 1..n, actions[x] < b[i].createdAt PROVE \E j \in 1..(i - 1) : b[j].key = x
        <4>1. actions[x] \in Nat /\ actions[s[i]] \in Nat /\ actions[x] < actions[s[i]]
          BY <1>0, <2>4, <2>5, <3>2
        <4>2. PICK j \in 1..n : s[j] = x
          <5>1. \/ \E j \in 1..n : s[j] = x
                \/ \A h \in 1..n : actions[s[h]] <= actions[x]
            BY <2>1, <2>7, <3>1
          <5>2. ~ (actions[s[i]] <= actions[x])
            BY <4>1
          <5> QED
            BY <3>2, <5>1, <5>2
        <4>3. j < i
          BY <2>1, <4>1, <4>2
        <4> QED
          BY <2>4, <4>2, <4>3
      <3> QED
        BY <3>1, <3>2
    <2>8. NothingPassed'
      BY <2>2, <2>3, <2>4, <2>7 DEF NothingPassed, Poller!Attached
    <2> QED
      BY <2>6, <2>8
  <1>8. ASSUME NEW o \in Order, NEW action \in {"CREATE", "CANCEL"}, Takes(o, action),
               createIndex \subseteq createIndex', cancelIndex \subseteq cancelIndex',
               action = "CREATE" => o \in createIndex', action = "CANCEL" => o \in cancelIndex',
               UNCHANGED <<state, actions>> \/ (Poller!End(o) /\ o \in createIndex')
        PROVE  BatchOK' /\ NothingPassed'
    <2>1. PICK b : b = batch'
      OBVIOUS
    <2>2. /\ 1 \in 1..Len(batch) /\ Len(b) = Len(batch) - 1 /\ Len(b) \in Nat
          /\ \A i \in 1..Len(b) : i + 1 \in 1..Len(batch) /\ b[i] = batch[i + 1]
          /\ attached' \in 1..clock /\ clock' = clock
          /\ attached' = batch[1].createdAt /\ batch[1].key = <<o, action>>
      BY <1>0, <1>8, <2>1, TakesTail DEF Takes
    <2>3. \A n \in Order : state[n] # "ABSENT" => state'[n] # "ABSENT"
      BY <1>0, <1>8, EndEffect
    <2>4. \A x \in Poller!Key : actions'[x] = actions[x] \/ (actions'[x] = 0 /\ x[1] \in createIndex')
      <3>1. CASE UNCHANGED <<state, actions>>
        BY <3>1
      <3>2. CASE Poller!End(o) /\ o \in createIndex'
        BY <1>0, <3>2, EndEffect
      <3> QED
        BY <1>8, <3>1, <3>2
    <2>5. ASSUME NEW i \in 1..Len(b)
          PROVE  /\ b[i].createdAt >= attached'
                 /\ \A j \in 1..Len(b) : i < j => b[i].createdAt <= b[j].createdAt
                 /\ state'[b[i].key[1]] # "ABSENT"
                 /\ b[i].key[1] \notin createIndex' => actions'[b[i].key] = b[i].createdAt
      <3>1. i + 1 \in 1..Len(batch) /\ b[i] = batch[i + 1] /\ 1 < i + 1
        BY <2>2
      <3>2. batch[1].createdAt <= batch[i + 1].createdAt
        BY <1>0, <2>2, <3>1 DEF BatchOK
      <3>3. ASSUME NEW j \in 1..Len(b), i < j PROVE b[i].createdAt <= b[j].createdAt
        <4>1. j + 1 \in 1..Len(batch) /\ b[j] = batch[j + 1] /\ i + 1 < j + 1
          BY <2>2, <3>3
        <4> QED
          BY <1>0, <3>1, <4>1 DEF BatchOK
      <3>4. b[i].key \in Poller!Key /\ b[i].key[1] \in Order /\ state'[b[i].key[1]] # "ABSENT"
        BY <1>0, <2>3, <3>1
      <3>5. b[i].key[1] \notin createIndex' => actions'[b[i].key] = b[i].createdAt
        BY <1>0, <1>8, <2>4, <3>1, <3>4
      <3>6. b[i].createdAt >= attached'
        BY <1>0, <2>2, <3>1, <3>2
      <3> QED
        BY <3>3, <3>4, <3>5, <3>6
    <2>6. BatchOK'
      <3>1. attached' <= clock'
        BY <1>0, <2>2
      <3> QED
        BY <2>1, <2>5, <3>1 DEF BatchOK
    <2>7. ASSUME NEW x \in Poller!Key, actions'[x] # 0, ~ Poller!Attached(x)'
          PROVE  /\ actions'[x] >= attached'
                 /\ \A i \in 1..Len(b) : actions'[x] < b[i].createdAt => \E j \in 1..(i - 1) : b[j].key = x
      <3>1. ~ Poller!Attached(x) /\ actions'[x] = actions[x] /\ x # <<o, action>>
        BY <1>8, <2>4, <2>7 DEF Poller!Attached
      <3>2. \A i \in 1..Len(batch) : actions[x] < batch[i].createdAt => \E j \in 1..(i - 1) : batch[j].key = x
        BY <1>0, <2>7, <3>1 DEF NothingPassed
      <3>3. ~ actions[x] < batch[1].createdAt
        BY <2>2, <3>2
      <3>4. actions'[x] >= attached'
        BY <1>0, <2>2, <3>1, <3>3
      <3>5. ASSUME NEW i \in 1..Len(b), actions'[x] < b[i].createdAt PROVE \E j \in 1..(i - 1) : b[j].key = x
        <4>1. i + 1 \in 1..Len(batch) /\ actions[x] < batch[i + 1].createdAt
          BY <2>2, <3>1, <3>5
        <4>2. PICK k \in 1..i : batch[k].key = x
          BY <3>2, <4>1
        <4>3. k - 1 \in 1..(i - 1) /\ k - 1 \in 1..Len(b)
          BY <2>2, <3>1, <4>2
        <4>4. b[k - 1] = batch[k]
          BY <2>2, <4>3
        <4> QED
          BY <4>2, <4>3, <4>4
      <3> QED
        BY <3>4, <3>5
    <2>8. NothingPassed'
      BY <2>1, <2>7 DEF NothingPassed
    <2> QED
      BY <2>6, <2>8
  <1>9. ASSUME NEW o \in Order, Takes(o, "CREATE"), Poller!CreateOrder(o) PROVE BatchOK' /\ NothingPassed'
    BY <1>8, <1>9 DEF Poller!CreateOrder
  <1>10. ASSUME NEW o \in Order, Takes(o, "CANCEL"), Poller!CancelOrder(o) PROVE BatchOK' /\ NothingPassed'
    <2>1. o \in Poller!ToSet(resting) => o \in createIndex
      BY <1>0, PollerTypes DEF Poller!ToSet, BookOK
    <2> QED
      BY <1>8, <1>10, <2>1 DEF Poller!CancelOrder
  <1> QED
    BY <1>2, <1>3, <1>4, <1>5, <1>6, <1>7, <1>9, <1>10, EnsureEffect
    DEF Poller!Next, Poller!PollOrderActions
\* Cancellations that came before their orders.
LEMMA TiedKept ==
    ASSUME ActionInv, Poller!Next
    PROVE  CancelsTied'
  <1>0. /\ Poller!TypeOK /\ TablesOK /\ BookOK /\ BatchOK /\ NothingPassed /\ CancelsTied
        /\ cancelIndex \subseteq Order /\ createIndex \subseteq Order
        /\ \A n \in cancelIndex : state[n] # "ABSENT"
    <2>1. Poller!TypeOK /\ TablesOK /\ BookOK /\ BatchOK /\ NothingPassed /\ CancelsTied
      BY DEF ActionInv
    <2> QED
      BY <2>1, PollerTypes DEF BookOK
  <1>1. ASSUME NEW o \in Order, Poller!End(o), cancelIndex' \subseteq cancelIndex \cup {o}
        PROVE  CancelsTied'
    <2>1. ASSUME NEW n \in Order
          PROVE  /\ state'[n] = IF n = o THEN "DONE" ELSE state[n]
                 /\ n # o => actions'[Create(n)] = actions[Create(n)] /\ actions'[Cancel(n)] = actions[Cancel(n)]
      BY <1>0, <1>1, EndEffect
    <2> QED
      BY <1>0, <1>1, <2>1 DEF CancelsTied
  <1>2. ASSUME cancelIndex' = cancelIndex, UNCHANGED <<state, actions>> PROVE CancelsTied'
    BY <1>0, <1>2 DEF CancelsTied
  <1>3. ASSUME NEW o \in Order, Poller!CreateOrderAction(o) PROVE CancelsTied'
    <2>1. o \notin cancelIndex /\ cancelIndex' = cancelIndex
      BY <1>0, <1>3 DEF Poller!CreateOrderAction, Poller!engine
    <2>2. \A n \in Order : n # o => /\ state'[n] = state[n] /\ actions'[Create(n)] = actions[Create(n)]
                                    /\ actions'[Cancel(n)] = actions[Cancel(n)]
      BY <1>0, <1>3, CreateEffect
    <2> QED
      BY <1>0, <2>1, <2>2 DEF CancelsTied
  <1>4. ASSUME NEW o \in Order, Poller!CancelOrderAction(o) PROVE CancelsTied'
    <2>1. state[o] = "PENDING" /\ actions[Cancel(o)] = 0 /\ cancelIndex' = cancelIndex /\ state' = state
      BY <1>4 DEF Poller!CancelOrderAction, Poller!engine
    <2>2. o \notin cancelIndex
      BY <1>0, <2>1 DEF CancelsTied, TablesOK
    <2>3. \A n \in Order : n # o => /\ actions'[Create(n)] = actions[Create(n)]
                                    /\ actions'[Cancel(n)] = actions[Cancel(n)]
      BY <1>0, <1>4, CancelEffect
    <2> QED
      BY <1>0, <2>1, <2>2, <2>3 DEF CancelsTied
  <1>5. ASSUME NEW o \in Order, Takes(o, "CREATE"), Poller!CreateOrder(o) PROVE CancelsTied'
    BY <1>1, <1>2, <1>5 DEF Poller!CreateOrder
  <1>6. ASSUME NEW o \in Order, Takes(o, "CANCEL"), Poller!CancelOrder(o) PROVE CancelsTied'
    <2>1. cancelIndex' = cancelIndex \cup {o}
      BY <1>6 DEF Poller!CancelOrder
    <2>2. CASE Poller!End(o)
      BY <1>1, <2>1, <2>2
    <2>3. CASE o \in cancelIndex /\ UNCHANGED <<state, actions>>
      <3>1. cancelIndex' = cancelIndex
        BY <2>1, <2>3
      <3> QED
        BY <1>2, <2>3, <3>1
    \* It comes first: its order is pending and not behind the checkpoint.
    <2>4. CASE o \notin Poller!ToSet(resting) /\ UNCHANGED <<state, actions>>
      <3>1. ASSUME state[o] = "PENDING" PROVE actions[Cancel(o)] = actions[Create(o)]
        <4>0. DOMAIN resting = 1..Len(resting)
          BY <1>0, PollerTypes
        <4>1. o \notin createIndex
          BY <1>0, <2>4, <3>1, <4>0 DEF BookOK, Poller!ToSet
        <4>2. /\ 1 \in 1..Len(batch) /\ batch[1].key = Cancel(o) /\ batch[1].createdAt \in Nat
              /\ batch[1].createdAt # 0
          BY <1>0, <1>6, TakesTail, PollerTypes DEF Takes
        <4>3. actions[Cancel(o)] = batch[1].createdAt
          BY <1>0, <4>1, <4>2 DEF BatchOK
        <4>4. actions[Create(o)] # 0 /\ ~ Poller!Attached(Create(o)) /\ Create(o) \in Poller!Key
          BY <1>0, <3>1, <4>1, PollerAttached, PollerKeys DEF TablesOK
        <4>5. actions[Create(o)] < batch[1].createdAt => \E j \in 1..0 : batch[j].key = Create(o)
          BY <1>0, <4>2, <4>4 DEF NothingPassed
        <4>6. actions[Create(o)] <= actions[Cancel(o)]
          BY <1>0, <4>2, <4>3 DEF TablesOK
        <4>7. actions[Create(o)] \in Nat
          BY <1>0, <4>4, PollerTypes
        <4> QED
          BY <4>2, <4>3, <4>5, <4>6, <4>7
      <3> QED
        BY <1>0, <2>1, <2>4, <3>1 DEF CancelsTied
    <2> QED
      BY <1>6, <2>2, <2>3, <2>4 DEF Poller!CancelOrder
  <1>7. ASSUME NEW o \in Order, Poller!FillOrder(o) PROVE CancelsTied'
    BY <1>1, <1>7 DEF Poller!FillOrder
  <1>8. CASE Poller!Tick \/ Poller!ListPendingActions
    BY <1>2, <1>8 DEF Poller!Tick, Poller!ListPendingActions, Poller!tables, Poller!engine
  <1>9. CASE Poller!Restart
    BY <1>9 DEF Poller!Restart, CancelsTied
  <1> QED
    BY <1>3, <1>4, <1>5, <1>6, <1>7, <1>8, <1>9, EnsureEffect
    DEF Poller!Next, Poller!PollOrderActions
LEMMA ActionInit == PathInit => ActionInv
  <1> SUFFICES ASSUME PathInit PROVE ActionInv
    OBVIOUS
  <1>0. Poller!Init
    BY DEF PathInit
  <1>1. Poller!TypeOK
    <2>1. ActionTime \in Nat \ {0} /\ EngineRestarts \in Nat
      BY PollerConstants
    <2>2. clock \in 1..ActionTime
      BY <1>0, <2>1 DEF Poller!Init
    <2>3. createIndex = {} /\ cancelIndex = {} /\ batch = <<>> /\ resting = <<>>
      BY <1>0 DEF Poller!Init
    <2>4. batch \in Seq([key : Poller!Key, createdAt : 1..clock]) /\ resting \in Seq(Order)
      BY <2>3
    <2> QED
      BY <1>0, <2>1, <2>2, <2>3, <2>4 DEF Poller!Init, Poller!TypeOK
  <1>2. TablesOK
    <2>1. {x \in Poller!Key : actions[x] # 0} = {}
      BY <1>0 DEF Poller!Init
    <2>2. IsFiniteSet({x \in Poller!Key : actions[x] # 0})
      BY <2>1, FS_EmptySet
    <2>3. \A x \in Poller!Key : actions[x] = 0
      BY <1>0 DEF Poller!Init
    <2> QED
      BY <1>0, <2>2, <2>3, PollerKeys DEF Poller!Init, TablesOK
  <1>3. BookOK
    BY <1>0 DEF Poller!Init, BookOK, Poller!BookMatchesTable, Poller!BookIsByAge
  <1>4. BatchOK /\ CancelsTied
    BY <1>0 DEF Poller!Init, BatchOK, CancelsTied
  <1>5. NothingPassed
    BY <1>0 DEF Poller!Init, NothingPassed
  <1> QED
    BY <1>1, <1>2, <1>3, <1>4, <1>5 DEF ActionInv

\* The invariant of the poller and the engine.
THEOREM ActionInvariance == PathSpec => []ActionInv
  <1>1. ActionInv /\ [PathNext]_pathVars => ActionInv'
    <2> SUFFICES ASSUME ActionInv, [PathNext]_pathVars PROVE ActionInv'
      OBVIOUS
    <2>1. CASE Poller!Next
      BY <2>1, ActionTypes, TablesKept, BookKept, BatchKept, TiedKept DEF ActionInv
    <2>2. CASE UNCHANGED actionVars
      <3>1. /\ UNCHANGED <<type, state, actions, clock, attached, batch>>
            /\ UNCHANGED <<createIndex, cancelIndex, resting, crashes>>
        BY <2>2 DEF actionVars
      <3>2. Poller!TypeOK' /\ TablesOK' /\ CancelsTied'
        BY <3>1 DEF ActionInv, Poller!TypeOK, TablesOK, CancelsTied
      <3>3. BookOK'
        BY <3>1 DEF ActionInv, BookOK, Poller!BookMatchesTable, Poller!BookIsByAge
      <3>4. BatchOK' /\ NothingPassed'
        BY <3>1 DEF ActionInv, BatchOK, NothingPassed, Poller!Attached
      <3> QED
        BY <3>2, <3>3, <3>4 DEF ActionInv
    <2> QED
      BY <2>1, <2>2
      DEF PathNext, SnapshotStep, ClientStep, ActionStep, ListStep, MutexStep, MoneyStep, pathVars
  <1> QED
    BY ActionInit, <1>1, PTL DEF PathSpec

\* Whatever the order of the rows that share a created_at and wherever LIMIT cuts them
\* off, with any number of crashes: the engine has each order the tables call PENDING
\* once and by age, no order and no cancellation is left behind the checkpoint, and a
\* cancellation that has reached the engine has ended its order unless the two share
\* one created_at (ListPendingActions, PollOrderActions, createOrder and cancelOrder).
THEOREM OrdersReachTheBook == PathSpec => []ActionsReachTheBook
  <1>1. ActionInv => ActionsReachTheBook
    <2> SUFFICES ASSUME ActionInv PROVE ActionsReachTheBook
      OBVIOUS
    <2>1. Poller!TypeOK /\ Poller!BookMatchesTable /\ Poller!BookIsByAge
      BY DEF ActionInv, BookOK
    <2>2. Poller!CancelsLandUnlessTied
      <3>1. ASSUME NEW o \in cancelIndex \cap Poller!ToSet(resting)
            PROVE  actions[Cancel(o)] = actions[Create(o)]
        <4>1. state[o] = "PENDING"
          BY <2>1, <3>1 DEF Poller!BookMatchesTable, Poller!ToSet
        <4> QED
          BY <3>1, <4>1 DEF ActionInv, CancelsTied
      <3> QED
        BY <3>1 DEF Poller!CancelsLandUnlessTied
    <2>3. Poller!NothingLeftBehind
      <3>1. ASSUME NEW x \in Poller!Key, actions[x] # 0, actions[x] < attached PROVE Poller!Attached(x)
        <4>1. actions[x] \in Nat /\ attached \in Nat
          BY <2>1, PollerTypes
        <4> QED
          BY <3>1, <4>1 DEF ActionInv, NothingPassed
      <3> QED
        BY <3>1 DEF Poller!NothingLeftBehind
    <2> QED
      BY <2>1, <2>2, <2>3 DEF ActionsReachTheBook
  <1> QED
    BY <1>1, ActionInvariance, PTL
-----------------------------------------------------------------------------
(* Listing: UserOrders and its client.                                     *)

USE DEF Reader!Listed

LEMMA ReaderLibrary ==
    \A S : /\ Reader!IsFiniteSet(S) <=> IsFiniteSet(S)
           /\ Reader!Cardinality(S) = Cardinality(S)
  <1>1. \A S : Reader!IsFiniteSet(S) <=> IsFiniteSet(S)
    BY DEF Reader!IsFiniteSet, IsFiniteSet
  <1>2. \A S : Reader!Cardinality(S) = Cardinality(S)
    BY DEF Reader!Cardinality, Cardinality
  <1> QED
    BY <1>1, <1>2

LEMMA ReaderConstants == ListLimit \in Nat \ {0} /\ ListTime \in Nat \ {0} /\ MaxSkew \in 0..ListTime
  BY ListingAssumption DEF Reader!ListingAssumption

LEMMA ReaderTypes ==
    ASSUME ListingInv
    PROVE  /\ listState \in [Order -> {"PENDING", "DONE", "ABSENT"}]
           /\ createdAt \in [Order -> Nat] /\ \A o \in Order : createdAt[o] <= listClock
           /\ listClock \in Nat /\ listClock > 0 /\ listClock <= ListTime
           /\ order \in {"ASC", "DESC"} /\ start \in Nat /\ offset \in Nat
           /\ steady \in [Reader!Listed -> SUBSET Order] /\ given \in [Reader!Listed -> SUBSET Order]
           /\ \A s \in Reader!Listed : \A o \in steady[s] : o \in Order /\ listState[o] = s
           /\ \A o \in early : o \in Order /\ listState[o] # "ABSENT"
           /\ \A o \in given["DONE"] : listState[o] = "DONE"
  <1>1. listClock \in Nat /\ listClock > 0 /\ listClock <= ListTime
    BY ReaderConstants DEF ListingInv, Reader!TypeOK
  <1>2. createdAt \in [Order -> 0..listClock] /\ {start, offset} \subseteq 0..ListTime
    BY DEF ListingInv, Reader!TypeOK
  <1>3. createdAt \in [Order -> Nat] /\ \A o \in Order : createdAt[o] <= listClock
    BY <1>1, <1>2
  <1> QED
    BY <1>1, <1>2, <1>3, ReaderConstants DEF ListingInv, RemembersOrders, Reader!TypeOK

\* A page holds only orders that were asked for.  One that is not on it comes after all
\* of them, and then the page is full.
LEMMA PageOfOrders ==
    ASSUME ListingInv, NEW st \in Reader!Listed, NEW s \in Reader!UserOrders(st)
    PROVE  /\ Len(s) \in Nat /\ DOMAIN s = 1..Len(s)
           /\ \A i \in 1..Len(s) : s[i] \in Order /\ listState[s[i]] = st
           /\ \A o \in Order : listState[o] = st /\ Reader!Since(o) =>
                \/ \E i \in 1..Len(s) : s[i] = o
                \/ Len(s) = ListLimit /\ \A i \in 1..Len(s) : ~ Reader!Before(o, s[i])
  <1> DEFINE rows == {o \in Order : Reader!InState(o, st) /\ Reader!Since(o)}
             number == IF Reader!Cardinality(rows) < ListLimit THEN Reader!Cardinality(rows) ELSE ListLimit
  <1>1. IsFiniteSet(rows)
    <2>1. rows \in SUBSET {o \in Order : listState[o] # "ABSENT"}
      BY DEF Reader!InState
    <2> QED
      BY <2>1, FS_Subset DEF ListingInv, RemembersOrders
  <1>2. PICK shown \in Reader!kSubset(number, rows) :
          s \in Reader!SetToSeqs(shown) /\ \A o \in shown, n \in rows \ shown : ~ Reader!Before(n, o)
    BY DEF Reader!UserOrders
  <1>3. shown \in SUBSET rows /\ Cardinality(shown) = number
    BY <1>2, ReaderLibrary DEF Reader!kSubset
  <1>4. IsFiniteSet(shown)
    BY <1>1, <1>3, FS_Subset
  <1>5. PICK k \in Nat : k = Cardinality(shown)
    BY <1>4, FS_CardinalityType
  <1>6. s \in [1..k -> shown] /\ \A i, j \in 1..k : i # j => s[i] # s[j]
    BY <1>2, <1>5, ReaderLibrary DEF Reader!SetToSeqs
  <1>7. s \in Injection(1..k, shown)
    BY <1>6 DEF Injection, IsInjective
  <1>8. Cardinality(1..k) = k
    BY FS_Interval
  <1>9. s \in Surjection(1..k, shown)
    BY <1>4, <1>5, <1>7, <1>8, FS_Injection
  <1>10. \A o \in shown : \E i \in 1..k : s[i] = o
    BY <1>9 DEF Surjection
  <1>11. Len(s) = k /\ DOMAIN s = 1..k
    BY <1>6
  <1>12. \A i \in 1..k : s[i] \in Order /\ listState[s[i]] = st
    BY <1>3, <1>6 DEF Reader!InState
  <1>13. ASSUME NEW o \in rows \ shown PROVE k = ListLimit
    <2>1. shown # rows
      BY <1>13
    <2>2. Cardinality(shown) # Cardinality(rows)
      BY <1>1, <1>3, <2>1, FS_Subset
    <2> QED
      BY <1>3, <1>5, <2>2, ReaderLibrary
  <1>14. ASSUME NEW o \in Order, listState[o] = st, Reader!Since(o)
         PROVE  \/ \E i \in 1..k : s[i] = o
                \/ k = ListLimit /\ \A i \in 1..k : ~ Reader!Before(o, s[i])
    <2>1. o \in rows
      BY <1>14 DEF Reader!InState
    <2>2. CASE o \in shown
      BY <1>10, <2>2
    <2>3. CASE o \notin shown
      <3>1. \A i \in 1..k : ~ Reader!Before(o, s[i])
        BY <1>2, <1>6, <2>1, <2>3
      <3> QED
        BY <1>13, <2>1, <2>3, <3>1
    <2> QED
      BY <2>2, <2>3
  <1> QED
    BY <1>11, <1>12, <1>14
LEMMA ListingInit == PathInit => ListingInv
  <1> SUFFICES ASSUME PathInit PROVE ListingInv
    OBVIOUS
  <1>0. Reader!Init
    BY DEF PathInit
  <1>1. Reader!TypeOK
    BY <1>0, ReaderConstants DEF Reader!Init, Reader!TypeOK
  <1>2. RemembersOrders
    <2>1. {o \in Order : listState[o] # "ABSENT"} = {}
      BY <1>0 DEF Reader!Init
    <2>2. IsFiniteSet({o \in Order : listState[o] # "ABSENT"})
      BY <2>1, FS_EmptySet
    <2> QED
      BY <1>0, <2>2 DEF Reader!Init, RemembersOrders
  <1> QED
    BY <1>0, <1>1, <1>2
    DEF Reader!Init, ListingInv, HasUpToOffset, OnOneList, Reader!SteadyOrdersAreListed

\* The tables change while the client reads.
LEMMA ListingWrites ==
    ASSUME ListingInv,
           Reader!Tick \/ \E o \in Order : Reader!CreateOrder(o) \/ Reader!EndOrder(o)
    PROVE  ListingInv'
  <1> USE ReaderTypes, ReaderConstants
  <1>0. UNCHANGED <<reading, order, start, offset, given, early>>
    BY DEF Reader!Tick, Reader!CreateOrder, Reader!EndOrder, Reader!client
  <1>1. CASE Reader!Tick
    <2>1. UNCHANGED <<listState, createdAt, steady>> /\ listClock' \in 1..ListTime /\ listClock <= listClock'
      BY <1>1 DEF Reader!Tick
    <2>2. Reader!TypeOK'
      BY <1>0, <2>1 DEF ListingInv, Reader!TypeOK
    <2>3. RemembersOrders' /\ HasUpToOffset' /\ OnOneList' /\ Reader!SteadyOrdersAreListed'
      BY <1>0, <2>1 DEF ListingInv, RemembersOrders, HasUpToOffset, OnOneList, Reader!SteadyOrdersAreListed,
                        Reader!InRange, Reader!Since
    <2> QED
      BY <2>2, <2>3 DEF ListingInv
  <1>2. ASSUME NEW o \in Order, Reader!CreateOrder(o) PROVE ListingInv'
    <2>1. /\ listState[o] = "ABSENT" /\ UNCHANGED <<listClock, steady>>
          /\ listState' \in [Order -> {"PENDING", "DONE", "ABSENT"}] /\ createdAt' \in [Order -> 0..listClock]
          /\ \A n \in Order : listState'[n] = IF n = o THEN "PENDING" ELSE listState[n]
          /\ \A n \in Order : n # o => createdAt'[n] = createdAt[n]
      BY <1>2 DEF Reader!CreateOrder
    <2>2. \A s \in Reader!Listed : o \notin steady[s]
      BY <2>1
    <2>3. o \notin early /\ o \notin given["DONE"]
      BY <2>1
    <2>4. Reader!TypeOK'
      BY <1>0, <2>1, <2>2, <2>3 DEF ListingInv, Reader!TypeOK
    <2>5. {n \in Order : listState'[n] # "ABSENT"} = {n \in Order : listState[n] # "ABSENT"} \cup {o}
      BY <2>1
    <2>6. IsFiniteSet({n \in Order : listState'[n] # "ABSENT"})
      <3>1. PICK S : S = {n \in Order : listState[n] # "ABSENT"}
        OBVIOUS
      <3>2. IsFiniteSet(S \cup {o})
        BY <3>1, FS_AddElement DEF ListingInv, RemembersOrders
      <3> QED
        BY <2>5, <3>1, <3>2, Zenon
    <2>7. RemembersOrders'
      BY <1>0, <2>1, <2>5, <2>6 DEF ListingInv, RemembersOrders
    <2>8. \A n \in Order : n # o => /\ Reader!InRange(n)' <=> Reader!InRange(n)
                                    /\ Reader!Since(n)' <=> Reader!Since(n)
      BY <1>0, <2>1 DEF Reader!InRange, Reader!Since
    <2>9. HasUpToOffset'
      BY <1>0, <2>1, <2>2, <2>8 DEF ListingInv, HasUpToOffset
    <2>10. OnOneList'
      BY <1>0, <2>1, <2>3, <2>8 DEF ListingInv, OnOneList
    <2>11. Reader!SteadyOrdersAreListed'
      BY <1>0, <2>1, <2>2, <2>8 DEF ListingInv, Reader!SteadyOrdersAreListed
    <2> QED
      BY <2>4, <2>7, <2>9, <2>10, <2>11 DEF ListingInv
  <1>3. ASSUME NEW o \in Order, Reader!EndOrder(o) PROVE ListingInv'
    <2>1. /\ listState[o] = "PENDING" /\ UNCHANGED <<listClock, createdAt>>
          /\ listState' \in [Order -> {"PENDING", "DONE", "ABSENT"}]
          /\ \A n \in Order : listState'[n] = IF n = o THEN "DONE" ELSE listState[n]
          /\ steady' \in [Reader!Listed -> SUBSET Order]
          /\ steady'["PENDING"] = steady["PENDING"] \ {o} /\ steady'["DONE"] = steady["DONE"]
      BY <1>3 DEF Reader!EndOrder
    <2>2. Reader!TypeOK'
      BY <1>0, <2>1 DEF ListingInv, Reader!TypeOK
    <2>3. {n \in Order : listState'[n] # "ABSENT"} = {n \in Order : listState[n] # "ABSENT"}
      BY <2>1
    <2>4. RemembersOrders'
      BY <1>0, <2>1, <2>3 DEF ListingInv, RemembersOrders
    <2>5. \A n \in Order : /\ Reader!InRange(n)' <=> Reader!InRange(n)
                           /\ Reader!Since(n)' <=> Reader!Since(n)
      BY <1>0, <2>1 DEF Reader!InRange, Reader!Since
    <2>6. HasUpToOffset'
      BY <1>0, <2>1, <2>5 DEF ListingInv, HasUpToOffset
    <2>7. OnOneList'
      BY <1>0, <2>1, <2>5 DEF ListingInv, OnOneList
    <2>8. Reader!SteadyOrdersAreListed'
      BY <1>0, <2>1, <2>5 DEF ListingInv, Reader!SteadyOrdersAreListed
    <2> QED
      BY <2>2, <2>4, <2>6, <2>7, <2>8 DEF ListingInv
  <1> QED
    BY <1>1, <1>2, <1>3

LEMMA ListingBegins ==
    ASSUME ListingInv, Reader!Begin
    PROVE  ListingInv'
  <1> USE ReaderTypes, ReaderConstants
  <1>1. /\ reading = "NONE" /\ reading' = "PENDING" /\ order' \in {"ASC", "DESC"}
        /\ UNCHANGED <<listState, createdAt, listClock, given>> /\ offset' = start'
        /\ early' = {o \in Order : listState[o] # "ABSENT"}
    BY DEF Reader!Begin, Reader!Ask, Reader!table
  <1>2. start' \in 0..ListTime /\ (order' = "ASC" => start' = 0)
    BY <1>1 DEF Reader!Begin
  <1>3. /\ steady' \in [Reader!Listed -> SUBSET Order]
        /\ steady'["PENDING"] = {o \in Order : listState[o] = "PENDING"} /\ steady'["DONE"] = steady["DONE"]
    BY DEF Reader!Begin, Reader!Ask
  <1>4. Reader!TypeOK'
    BY <1>1, <1>2, <1>3 DEF ListingInv, Reader!TypeOK
  <1>5. RemembersOrders'
    BY <1>1, <1>3 DEF ListingInv, RemembersOrders
  <1>6. \A o \in Order : Reader!InRange(o)' => Reader!Since(o)'
    BY <1>1, <1>2 DEF Reader!InRange, Reader!Since
  <1>7. HasUpToOffset'
    BY <1>1, <1>2, <1>3, <1>6 DEF HasUpToOffset
  <1>8. OnOneList' /\ Reader!SteadyOrdersAreListed'
    BY <1>1, <1>3 DEF OnOneList, Reader!SteadyOrdersAreListed
  <1> QED
    BY <1>4, <1>5, <1>7, <1>8 DEF ListingInv
LEMMA ListingReads ==
    ASSUME ListingInv, Reader!ReadPage
    PROVE  ListingInv'
  <1> USE ReaderTypes, ReaderConstants
  <1>0. PICK st \in Reader!Listed : st = reading
    BY DEF Reader!ReadPage
  <1>1. PICK s \in Reader!UserOrders(st) :
          /\ given' = [given EXCEPT ![st] = @ \cup Reader!ToSet(s)]
          /\ IF Len(s) = ListLimit
             THEN offset' = Reader!NextOffset(s) /\ UNCHANGED <<reading, steady>>
             ELSE Reader!Ask(IF st = "PENDING" THEN "DONE" ELSE "END", start)
          /\ UNCHANGED <<listState, createdAt, listClock, order, start, early>>
    BY <1>0 DEF Reader!ReadPage, Reader!table
  <1>2. /\ Len(s) \in Nat /\ DOMAIN s = 1..Len(s)
        /\ \A i \in 1..Len(s) : s[i] \in Order /\ listState[s[i]] = st
        /\ \A o \in Order : listState[o] = st /\ Reader!Since(o) =>
             \/ \E i \in 1..Len(s) : s[i] = o
             \/ Len(s) = ListLimit /\ \A i \in 1..Len(s) : ~ Reader!Before(o, s[i])
    BY PageOfOrders
  <1> DEFINE rows == Reader!ToSet(s)
  <1>3. /\ \A o \in rows : o \in Order /\ listState[o] = st
        /\ \A i \in 1..Len(s) : s[i] \in rows
    <2>1. rows = {s[i] : i \in 1..Len(s)}
      BY <1>2 DEF Reader!ToSet
    <2> QED
      BY ONLY <1>2, <2>1
  <1> HIDE DEF rows
  <1>4. /\ given' \in [Reader!Listed -> SUBSET Order]
        /\ given'[st] = given[st] \cup rows
        /\ \A l \in Reader!Listed : l # st => given'[l] = given[l]
    BY <1>0, <1>1, <1>3 DEF rows
  <1>5. \A o \in given'["DONE"] : listState[o] = "DONE"
    BY <1>3, <1>4
  <1>6. \A o \in Order : Reader!InRange(o)' <=> Reader!InRange(o)
    BY <1>0, <1>1 DEF Reader!InRange
  <1>7. \A o \in steady[st] : Reader!InRange(o) => o \in given[st] \/ Reader!Since(o)
    BY <1>0, <1>1 DEF ListingInv, HasUpToOffset
  \* A full page moves the offset to its last order, and what is left is not before that.
  <1>8. CASE Len(s) = ListLimit
    <2>1. Len(s) \in 1..Len(s) /\ Reader!NextOffset(s) = createdAt[s[Len(s)]]
      BY <1>2, <1>8 DEF Reader!NextOffset, Reader!Last
    <2>2. PICK last \in Order : last = s[Len(s)] /\ last \in rows
      BY <1>2, <1>3, <2>1
    <2>3. offset' = createdAt[last] /\ UNCHANGED <<reading, steady>>
      BY <1>0, <1>1, <1>8, <2>1, <2>2
    <2>4. ASSUME NEW o \in steady[st], Reader!InRange(o) PROVE o \in given'[st] \/ Reader!Since(o)'
      <3>1. o \in Order /\ listState[o] = st
        OBVIOUS
      <3>2. o \in given[st] \/ Reader!Since(o)
        BY <1>7, <2>4
      <3>3. CASE \E i \in 1..Len(s) : s[i] = o
        BY <1>3, <1>4, <3>3
      <3>4. CASE ~ Reader!Before(o, last)
        <4>1. createdAt[o] \in Nat /\ createdAt[last] \in Nat
          BY <3>1
        <4> QED
          BY <1>0, <1>1, <2>3, <3>4, <4>1 DEF Reader!Before, Reader!Since
      <3> QED
        BY <1>2, <1>4, <2>1, <2>2, <3>1, <3>2, <3>3, <3>4
    <2>5. Reader!TypeOK'
      <3>1. offset' \in 0..ListTime
        BY <2>3
      <3> QED
        BY <1>0, <1>1, <1>4, <1>5, <2>3, <3>1 DEF ListingInv, Reader!TypeOK
    <2>6. RemembersOrders'
      BY <1>0, <1>1, <1>4, <2>3 DEF ListingInv, RemembersOrders
    <2>7. HasUpToOffset'
      BY <1>0, <1>1, <1>6, <2>3, <2>4 DEF ListingInv, HasUpToOffset
    <2>8. OnOneList'
      BY <1>0, <1>1, <1>4, <1>6, <2>3 DEF ListingInv, OnOneList
    <2>9. Reader!SteadyOrdersAreListed'
      BY <1>0, <1>1, <1>4, <1>6, <2>3 DEF ListingInv, Reader!SteadyOrdersAreListed
    <2> QED
      BY <2>5, <2>6, <2>7, <2>8, <2>9 DEF ListingInv
  \* A page that is not full is the end of the list.
  <1>9. CASE Len(s) # ListLimit
    <2>1. \A o \in steady[st] : Reader!InRange(o) => o \in given'[st]
      <3>1. ASSUME NEW o \in steady[st], Reader!InRange(o) PROVE o \in given'[st]
        <4>1. o \in Order /\ listState[o] = st
          OBVIOUS
        <4>2. o \in given[st] \/ \E i \in 1..Len(s) : s[i] = o
          BY <1>2, <1>7, <1>9, <3>1, <4>1
        <4> QED
          BY <1>3, <1>4, <4>2
      <3> QED
        BY <3>1
    <2>2. CASE st = "PENDING"
      <3>1. /\ reading = "PENDING" /\ reading' = "DONE" /\ offset' = start
            /\ steady' \in [Reader!Listed -> SUBSET Order]
            /\ steady'["PENDING"] = steady["PENDING"] /\ steady'["DONE"] = {o \in Order : listState[o] = "DONE"}
        BY <1>0, <1>1, <1>9, <2>2 DEF Reader!Ask
      <3>2. Reader!TypeOK'
        BY <1>0, <1>1, <1>4, <1>5, <3>1 DEF ListingInv, Reader!TypeOK
      <3>3. RemembersOrders'
        BY <1>0, <1>1, <1>4, <3>1 DEF ListingInv, RemembersOrders
      <3>4. HasUpToOffset'
        <4>1. order = "ASC" => start = 0
          BY <3>1 DEF ListingInv, HasUpToOffset
        <4>2. \A o \in Order : Reader!InRange(o) => Reader!Since(o)'
          BY <1>0, <1>1, <3>1, <4>1 DEF Reader!InRange, Reader!Since
        <4> QED
          BY <1>0, <1>1, <1>6, <3>1, <4>1, <4>2 DEF HasUpToOffset
      <3>5. OnOneList'
        BY <1>0, <1>1, <1>6, <2>1, <2>2, <3>1 DEF ListingInv, OnOneList
      <3>6. Reader!SteadyOrdersAreListed'
        BY <1>0, <1>1, <1>6, <2>1, <2>2, <3>1 DEF Reader!SteadyOrdersAreListed
      <3> QED
        BY <3>2, <3>3, <3>4, <3>5, <3>6 DEF ListingInv
    <2>3. CASE st = "DONE"
      <3>1. reading = "DONE" /\ reading' = "END" /\ offset' = start /\ steady' = steady
        BY <1>0, <1>1, <1>9, <2>3 DEF Reader!Ask
      <3>2. Reader!TypeOK'
        BY <1>0, <1>1, <1>4, <1>5, <3>1 DEF ListingInv, Reader!TypeOK
      <3>3. RemembersOrders'
        BY <1>0, <1>1, <1>4, <3>1 DEF ListingInv, RemembersOrders
      <3>4. HasUpToOffset'
        BY <3>1 DEF HasUpToOffset
      <3>5. OnOneList'
        BY <1>0, <1>1, <1>4, <1>6, <2>3, <3>1 DEF ListingInv, OnOneList
      <3>6. Reader!SteadyOrdersAreListed'
        BY <1>0, <1>1, <1>4, <1>6, <2>1, <2>3, <3>1 DEF ListingInv, Reader!SteadyOrdersAreListed
      <3> QED
        BY <3>2, <3>3, <3>4, <3>5, <3>6 DEF ListingInv
    <2> QED
      BY <2>2, <2>3
  <1> QED
    BY <1>8, <1>9

\* The invariant of the listing.
THEOREM ListingInvariance == PathSpec => []ListingInv
  <1>1. ListingInv /\ [PathNext]_pathVars => ListingInv'
    <2> SUFFICES ASSUME ListingInv, [PathNext]_pathVars PROVE ListingInv'
      OBVIOUS
    <2>1. CASE Reader!Next
      BY <2>1, ListingWrites, ListingBegins, ListingReads DEF Reader!Next
    <2>2. CASE UNCHANGED listVars
      BY <2>2 DEF listVars, ListingInv, Reader!TypeOK, RemembersOrders, HasUpToOffset, OnOneList,
                  Reader!SteadyOrdersAreListed, Reader!InRange, Reader!Since
    <2> QED
      BY <2>1, <2>2
      DEF PathNext, SnapshotStep, ClientStep, ActionStep, ListStep, MutexStep, MoneyStep, pathVars
  <1> QED
    BY ListingInit, <1>1, PTL DEF PathSpec

\* Whoever reads the pages of UserOrders to the end, in either order and with any limit,
\* is given every order that was in the state asked for all the while, and every order
\* that existed when it began on one of the two lists, whatever is made and ends
\* meanwhile and however the orders of one created_at are cut.
THEOREM ReadersMissNothing == PathSpec => []ListsAreComplete
  <1>1. ListingInv => ListsAreComplete
    <2> SUFFICES ASSUME ListingInv PROVE ListsAreComplete
      OBVIOUS
    <2>1. Reader!NothingFallsBetween
      <3>1. ASSUME reading = "END", NEW o \in early, Reader!InRange(o)
            PROVE  o \in given["PENDING"] \cup given["DONE"]
        <4>1. o \in given["PENDING"] \cup steady["DONE"]
          BY <3>1 DEF ListingInv, OnOneList
        <4> QED
          BY <3>1, <4>1 DEF ListingInv, Reader!SteadyOrdersAreListed
      <3> QED
        BY <3>1 DEF Reader!NothingFallsBetween
    <2> QED
      BY <2>1 DEF ListingInv, ListsAreComplete
  <1> QED
    BY <1>1, ListingInvariance, PTL

-----------------------------------------------------------------------------
(* Settlement: the instance of the path obeys the theorems of SettlementProofs. *)

LEMMA MoneySpec == PathSpec => Money!Spec
  <1>1. PathInit => Money!Init
    BY DEF PathInit
  <1>2. [PathNext]_pathVars => [Money!Next]_(Money!vars)
    <2> SUFFICES ASSUME [PathNext]_pathVars PROVE [Money!Next]_(Money!vars)
      OBVIOUS
    <2>1. CASE Money!Next
      BY <2>1
    <2>2. CASE UNCHANGED moneyVars
      BY <2>2 DEF moneyVars, Money!vars, Money!tables, Money!poller, Money!network
    <2> QED
      BY <2>1, <2>2
      DEF PathNext, SnapshotStep, ClientStep, ActionStep, ListStep, MutexStep, MoneyStep, pathVars
  <1> QED
    BY <1>1, <1>2, PTL DEF PathSpec, Money!Spec

\* What the transfers of a taker of two makers are: no broker owes more than it holds or
\* keeps more than fees, every transfer finds its trade (Transact, processTransfer), and
\* transfers of one recipient and asset are apart (tmap.fetch).
THEOREM TransfersAreAsOwed == PathSpec => []TransfersAreRight
  <1>1. PathSpec => []Money!SettlementIInv
    BY MoneySpec, MoneyAssumption, Money!SettlementInvariance, PTL
  <1>2. PathSpec => []Money!TradeTransfersExplained
    BY MoneySpec, MoneyAssumption, Money!TransfersHaveTheirTrade, PTL
  <1>3. Money!SettlementIInv /\ Money!TradeTransfersExplained /\ TransfersOfOneKey
          => TransfersAreRight
    BY DEF Money!SettlementIInv, TransfersAreRight
  <1> QED
    BY <1>1, <1>2, <1>3, TransfersAreApart, PTL
=============================================================================
