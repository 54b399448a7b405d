--------------------------- MODULE SnapshotProofs ---------------------------
(***************************************************************************)
(* Proofs about the snapshots the exchange reads, and about the orders the *)
(* example sends it, for every value of the constants.  The inductive      *)
(* invariants, SnapshotInv and ClientsInv, are in OrderPathInvariant.      *)
(***************************************************************************)
EXTENDS OrderPathInvariant, FiniteSetTheorems, WellFoundedInduction, TLAPS

-----------------------------------------------------------------------------
(* The log of the network and the place of an offset in it.                *)

\* Every non-empty set of finite subsets of S has a member without a smaller one.
LEMMA SmallestSet ==
    ASSUME NEW S, IsFiniteSet(S), NEW T, T \subseteq SUBSET S, T # {}
    PROVE  \E u \in T : \A v \in T : v \subseteq u => v = u
  <1>1. T \subseteq FiniteSubsetsOf(S)
    BY FS_Subset DEF FiniteSubsetsOf
  <1>2. IsWellFoundedOn(StrictSubsetOrdering(S), FiniteSubsetsOf(S))
    BY FS_StrictSubsetOrderingWellFounded
  <1>3. PICK u \in T : \A v \in T : ~ (<<v, u>> \in StrictSubsetOrdering(S))
    BY <1>1, <1>2, WFMin
  <1>4. ASSUME NEW v \in T, v \subseteq u PROVE v = u
    <2>1. v \in SUBSET S /\ u \in SUBSET S
      OBVIOUS
    <2> QED
      BY <1>3, <1>4, <2>1 DEF StrictSubsetOrdering
  <1> QED
    BY <1>4

\* Every non-empty set of numbers up to n has a least one.
LEMMA LeastNumber ==
    ASSUME NEW n \in Nat, NEW T \in SUBSET (0..n), T # {}
    PROVE  \E k \in T : \A m \in T : k <= m
  <1> DEFINE Up == {0..m : m \in T}
  <1>1. PICK S : S = 0..n
    OBVIOUS
  <1>2. IsFiniteSet(S)
    BY <1>1, FS_Interval
  <1>3. Up \subseteq SUBSET S /\ Up # {}
    <2>1. Up \subseteq SUBSET S
      BY <1>1
    <2>2. PICK m \in T : TRUE
      OBVIOUS
    <2> QED
      BY <2>1, <2>2
  <1> HIDE DEF Up
  <1>4. PICK u \in Up : \A v \in Up : v \subseteq u => v = u
    BY <1>2, <1>3, SmallestSet
  <1>5. PICK k \in T : u = 0..k
    BY DEF Up
  <1>6. ASSUME NEW m \in T, m < k PROVE FALSE
    <2>1. 0..m \in Up /\ 0..m \subseteq 0..k /\ k \in 0..k /\ k \notin 0..m
      BY <1>6 DEF Up
    <2> QED
      BY <1>4, <1>5, <2>1
  <1> QED
    BY <1>6

LEMMA SnapshotConstants ==
    /\ PageLimit \in Nat /\ SnapshotTies \in Nat /\ 1 <= SnapshotTies /\ SnapshotTies < PageLimit
    /\ MaxSnapshots \in Nat /\ NoKey \notin PublicKey /\ NoUser \notin User
    /\ \A c \in AnyContent \cup FewContent : c \in Network!SnapshotRecord
  BY SnapshotsAssumption, ContentAssumption
  DEF Network!SnapshotsAssumption, Network!IngestAssumption

\* The operators of the instance that come from a library are those of the library.
LEMMA SnapshotLibrary == \A S : Network!Cardinality(S) = Cardinality(S)
  BY DEF Network!Cardinality, Cardinality

LEMMA LogTypes ==
    ASSUME LogOK
    PROVE  /\ Len(log) \in Nat /\ DOMAIN log = 1..Len(log)
           /\ \A i \in 1..Len(log) :
                /\ At(i) \in Nat /\ At(i) >= 1 /\ At(i) <= i + 1
                /\ Said(i) \in Network!SnapshotRecord
                /\ Said(i).cancels \in Nat /\ Said(i).cancels < i
  <1>1. PICK R : R = [s : Network!SnapshotRecord, createdAt : Nat]
    OBVIOUS
  <1>2. log \in Seq(R)
    BY <1>1 DEF LogOK
  <1>3. Len(log) \in Nat /\ DOMAIN log = 1..Len(log) /\ \A i \in 1..Len(log) : log[i] \in R
    BY <1>2
  <1>4. ASSUME NEW i \in 1..Len(log)
        PROVE  Said(i) \in Network!SnapshotRecord /\ Said(i).cancels \in Nat
    BY <1>1, <1>3 DEF Said, Network!SnapshotRecord
  <1>5. ASSUME NEW i \in 1..Len(log)
        PROVE  At(i) \in Nat /\ At(i) >= 1 /\ At(i) <= i + 1 /\ Said(i).cancels < i
    <2>1. At(i) \in 1..(i + 1) /\ Said(i).cancels < i
      BY <1>5 DEF LogOK
    <2> QED
      BY <1>3, <1>5, <2>1
  <1> QED
    BY <1>3, <1>4, <1>5

\* Snapshots are numbered by their age; the newest is as new as Now.
LEMMA LogSorted ==
    ASSUME LogOK, Network!TypeOK
    PROVE  /\ \A i, j \in 1..Len(log) : i <= j => At(i) <= At(j)
           /\ Network!Now \in Nat /\ Network!Now >= 1 /\ Network!Now <= Len(log) + 1
           /\ \A i \in 1..Len(log) : At(i) <= Network!Now
  <1>1. ASSUME NEW i \in 1..Len(log), NEW j \in 1..Len(log), i <= j PROVE At(i) <= At(j)
    <2>1. At(i) \in Nat /\ Len(log) \in Nat
      BY LogTypes
    <2>2. i < j => At(i) <= At(j)
      BY LogTypes DEF Network!TypeOK, At
    <2> QED
      BY <1>1, <2>1, <2>2
  <1>2. CASE log = <<>>
    BY <1>1, <1>2, LogTypes DEF Network!Now
  <1>3. CASE log # <<>>
    <2>1. Len(log) \in 1..Len(log)
      BY <1>3, LogTypes
    <2>2. Network!Now = At(Len(log))
      BY <1>3 DEF Network!Now, At
    <2> QED
      BY <1>1, <2>1, <2>2, LogTypes
  <1> QED
    BY <1>2, <1>3

\* The snapshots before an offset are the first of the log.
LEMMA BeforeOffset ==
    ASSUME LogOK, Network!TypeOK, NEW t \in Nat
    PROVE  /\ Network!Before(t) \in 0..Len(log)
           /\ \A i \in 1..Len(log) : At(i) < t <=> i <= Network!Before(t)
  <1>1. PICK L \in Nat : L = Len(log) /\ \A i \in 1..L : At(i) \in Nat
    BY LogTypes
  <1>2. PICK T \in SUBSET (0..L) : T = {m \in 0..L : \A i \in 1..L : At(i) < t => i <= m}
    OBVIOUS
  <1>3. L \in T
    BY <1>1, <1>2
  <1>4. PICK k \in T : \A m \in T : k <= m
    BY <1>1, <1>3, LeastNumber
  <1>5. k \in 0..L /\ \A i \in 1..L : At(i) < t => i <= k
    BY <1>2, <1>4
  <1>6. ASSUME NEW i \in 1..L, i <= k, ~ (At(i) < t) PROVE FALSE
    <2>1. k - 1 \in 0..L /\ k \in 1..L /\ ~ (k <= k - 1)
      BY <1>1, <1>5, <1>6
    <2>2. ASSUME NEW j \in 1..L, At(j) < t PROVE j <= k - 1
      <3>1. j <= k
        BY <1>5, <2>2
      <3>2. j # k
        <4>1. At(i) <= At(k)
          BY <1>1, <1>6, <2>1, LogSorted
        <4> QED
          BY <1>1, <1>6, <2>1, <2>2, <4>1
      <3> QED
        BY <1>1, <1>5, <3>1, <3>2
    <2>3. k - 1 \in T
      BY <1>2, <2>1, <2>2
    <2> QED
      BY <1>4, <2>1, <2>3
  <1>7. \A i \in 1..L : At(i) < t <=> i <= k
    BY <1>5, <1>6
  <1>8. \E n \in 0..Len(log) : \A i \in DOMAIN log : log[i].createdAt < t <=> i <= n
    BY <1>1, <1>5, <1>7, LogTypes DEF At
  <1>9. /\ Network!Before(t) \in 0..Len(log)
        /\ \A i \in DOMAIN log : log[i].createdAt < t <=> i <= Network!Before(t)
    BY <1>8 DEF Network!Before
  <1> QED
    BY <1>9, LogTypes DEF At

-----------------------------------------------------------------------------
(* What the invariant says of the poller and of the page it reads.         *)

LEMMA SnapshotTypes ==
    ASSUME SnapshotInv
    PROVE  /\ property \in Nat /\ checkpoint \in Nat /\ first \in Nat /\ failures \in Nat
           /\ polling \in BOOLEAN /\ (page # <<>> => polling)
           /\ seen \subseteq handled /\ handled \subseteq 1..Len(log)
           /\ Len(log) \in Nat /\ Len(log) <= MaxSnapshots
           /\ Network!Now \in Nat /\ Network!Now >= 1 /\ Network!Now <= Len(log) + 1
  <1>1. {property, checkpoint, first} \subseteq 0..(MaxSnapshots + 2)
    BY DEF SnapshotInv, Network!TypeOK
  <1>2. property \in Nat /\ checkpoint \in Nat /\ first \in Nat /\ failures \in Nat
    BY <1>1, SnapshotConstants DEF SnapshotInv, CheckpointsOK
  <1>3. /\ polling \in BOOLEAN /\ (page # <<>> => polling)
        /\ seen \subseteq handled /\ handled \subseteq DOMAIN log
        /\ Len(log) <= MaxSnapshots
    BY DEF SnapshotInv, Network!TypeOK
  <1> QED
    BY <1>2, <1>3, LogTypes, LogSorted DEF SnapshotInv

LEMMA PageTypes ==
    ASSUME SnapshotInv
    PROVE  /\ Len(page) \in Nat /\ DOMAIN page = 1..Len(page) /\ (page = <<>> <=> Len(page) = 0)
           /\ \A x \in 1..Len(page) :
                page[x] \in 1..Len(log) /\ page[x] = page[1] + (x - 1) /\ page[1] \in 1..Len(log)
  <1>1. Len(page) \in Nat /\ DOMAIN page = 1..Len(page) /\ (page = <<>> <=> Len(page) = 0)
    BY DEF SnapshotInv, PageOK
  <1>2. \A x \in 1..Len(page) : page[x] \in 1..Len(log)
    BY <1>1, LogTypes DEF SnapshotInv, Network!TypeOK
  <1>3. ASSUME NEW x \in 1..Len(page) PROVE 1 \in 1..Len(page)
    BY <1>1
  <1> QED
    BY <1>1, <1>2, <1>3 DEF SnapshotInv, PageOK

\* The rest p of a page begins with the snapshot after its first, h.
Rest(h, p) ==
    /\ h \in 1..Len(log) /\ Head(page) = h
    /\ p \in Seq(Nat) /\ Len(p) \in Nat /\ DOMAIN p = 1..Len(p)
    /\ p # <<>> => p[1] = h + 1 /\ p[1] \in 1..Len(log)
    /\ \A x \in 1..Len(p) : /\ p[x] = p[1] + (x - 1) /\ p[x] \in 1..Len(log)
                            /\ \E y \in 1..Len(page) : p[x] = page[y]

LEMMA TailOfPage ==
    ASSUME SnapshotInv, page # <<>>
    PROVE  Rest(page[1], Tail(page))
  <1> SUFFICES ASSUME NEW p, p = Tail(page) PROVE Rest(page[1], p)
    OBVIOUS
  <1>1. Len(page) \in Nat /\ Len(page) > 0 /\ 1 \in 1..Len(page)
    BY PageTypes
  <1>2. page \in Seq(Nat)
    BY DEF SnapshotInv, PageOK
  <1>3. p \in Seq(Nat) /\ Len(p) = Len(page) - 1 /\ \A x \in 1..Len(p) : p[x] = page[x + 1]
    BY <1>1, <1>2
  <1>4. Len(p) \in Nat /\ DOMAIN p = 1..Len(p) /\ (p # <<>> => 1 \in 1..Len(p))
    BY <1>3
  <1>5. ASSUME NEW x \in 1..Len(p)
        PROVE  /\ x + 1 \in 1..Len(page) /\ 2 \in 1..Len(page)
               /\ p[x] = page[x + 1] /\ p[1] = page[2]
    BY <1>1, <1>3, <1>4, <1>5
  <1>6. ASSUME NEW x \in 1..Len(p)
        PROVE  /\ p[x] = page[1] + x /\ p[1] = page[1] + 1
               /\ p[x] \in 1..Len(log) /\ p[1] \in 1..Len(log)
               /\ \E y \in 1..Len(page) : p[x] = page[y]
    <2>1. page[x + 1] = page[1] + ((x + 1) - 1) /\ page[2] = page[1] + (2 - 1)
      BY <1>5, PageTypes
    <2>2. page[x + 1] \in 1..Len(log) /\ page[2] \in 1..Len(log) /\ page[1] \in Nat
      BY <1>1, <1>5, PageTypes
    <2> QED
      BY <1>5, <2>1, <2>2
  <1>7. page[1] \in 1..Len(log) /\ Head(page) = page[1]
    BY <1>1, <1>2, PageTypes
  <1>8. ASSUME NEW x \in 1..Len(p) PROVE p[x] = p[1] + (x - 1)
    <2>1. x \in Nat /\ page[1] \in Nat /\ p[x] = page[1] + x /\ p[1] = page[1] + 1
      BY <1>4, <1>6, <1>7
    <2> QED
      BY <2>1
  <1> QED
    BY <1>3, <1>4, <1>6, <1>7, <1>8 DEF Rest

LEMMA SnapshotInit == PathInit => SnapshotInv
  <1> SUFFICES ASSUME PathInit PROVE SnapshotInv
    OBVIOUS
  <1>1. /\ log = <<>> /\ page = <<>> /\ Len(log) = 0 /\ Len(page) = 0
        /\ property = 0 /\ checkpoint = 0 /\ first = 0 /\ failures = 0 /\ polling = FALSE
        /\ seen = {} /\ handled = {} /\ cancelled = {} /\ refundRow = {}
        /\ orderState = [i \in Network!Number |-> "ABSENT"]
        /\ publicKey = [u \in User |-> NoKey]
    BY DEF PathInit, Network!Init
  <1>2. Network!Now = 1
    BY <1>1 DEF Network!Now
  <1>3. Network!TypeOK
    <2>1. {property, checkpoint, first} \subseteq 0..(MaxSnapshots + 2) /\ Len(log) <= MaxSnapshots
      BY <1>1, SnapshotConstants
    <2>2. /\ orderState \in [Network!Number -> {"ABSENT", "PENDING", "DONE"}]
          /\ publicKey \in [User -> PublicKey \cup {NoKey}]
      BY <1>1
    <2>3. DOMAIN log = {} /\ DOMAIN page = {}
      BY <1>1
    <2>5. polling \in BOOLEAN /\ page = <<>>
      BY ONLY <1>1
    <2>4. /\ seen \subseteq handled /\ refundRow \subseteq handled /\ handled \subseteq DOMAIN log
          /\ \A o \in cancelled : orderState[o] = "PENDING"
      BY <1>1
    <2> QED
      BY <2>1, <2>2, <2>3, <2>4, <2>5 DEF Network!TypeOK
  <1>4. Network!NothingSkipped /\ LogOK /\ PageOK
    BY <1>1 DEF Network!NothingSkipped, LogOK, PageOK
  <1>5. CheckpointsOK
    BY <1>1, <1>2 DEF CheckpointsOK
  <1>6. HandledOK /\ SeenOK /\ OrdersOK
    BY <1>1 DEF HandledOK, SeenOK, OrdersOK
  <1>7. KeysOK
    BY <1>1 DEF KeysOK
  <1> QED
    BY <1>3, <1>4, <1>5, <1>6, <1>7 DEF SnapshotInv

-----------------------------------------------------------------------------
(* The steps of the poller that process nothing.                           *)

LEMMA RequestKeeps == ASSUME SnapshotInv, Network!RequestMixinNetwork PROVE SnapshotInv'
  <1>1. PICK t \in IF property = 0 THEN {Network!Now, Network!Now + 1} ELSE {property} :
          checkpoint' = t /\ page' = Network!Listed(t)
    BY DEF Network!RequestMixinNetwork
  <1>2. /\ t \in Nat /\ 0 < t /\ property <= t /\ t <= Network!Now + 1
        /\ property # 0 => t = property /\ (t = first \/ t <= Network!Now)
        /\ property = 0 => Network!Now <= t
    BY <1>1, SnapshotTypes DEF SnapshotInv, CheckpointsOK
  <1>3. PICK k \in 0..Len(log) :
          /\ k = Network!Before(t)
          /\ \A i \in 1..Len(log) : At(i) < t <=> i <= k
    BY <1>2, BeforeOffset DEF SnapshotInv
  <1>4. PICK n \in Nat : n = Network!Size(k) /\ k + n <= Len(log)
    BY <1>3, SnapshotTypes, SnapshotConstants DEF Network!Size
  <1>5. PICK p \in Seq(Nat) : p = [x \in 1..n |-> k + x]
    <2>1. \A x \in 1..n : k + x \in Nat
      <3>1. k \in Nat
        BY <1>3, SnapshotTypes
      <3> QED
        BY ONLY <1>4, <3>1
    <2>2. [x \in 1..n |-> k + x] \in [1..n -> Nat]
      BY <2>1
    <2>3. PICK p : p = [x \in 1..n |-> k + x]
      OBVIOUS
    <2>4. p \in [1..n -> Nat]
      BY <2>2, <2>3
    <2>5. p \in Seq(Nat)
      BY <1>4, <2>4
    <2> QED
      BY <2>3, <2>5
  <1>6. page' = p /\ Len(p) = n /\ DOMAIN p = 1..n /\ \A x \in 1..n : p[x] = k + x
    BY <1>1, <1>3, <1>4, <1>5 DEF Network!Listed
  <1>7. ASSUME NEW x \in 1..n
        PROVE  p[x] \in 1..Len(log) /\ p[x] = p[1] + (x - 1) /\ p[1] = k + 1 /\ k + 1 \in 1..Len(log)
    <2>1. 1 \in 1..n /\ k \in Nat /\ x \in Nat /\ x <= n /\ 1 <= x /\ Len(log) \in Nat
      BY <1>3, <1>4, SnapshotTypes
    <2>2. p[x] = k + x /\ p[1] = k + 1
      BY <1>6, <2>1
    <2> QED
      BY <1>4, <2>1, <2>2
  <1>8. p # <<>> => p[1] = k + 1 /\ k + 1 \in 1..Len(log)
    <2>1. p # <<>> => 1 \in 1..n
      BY <1>5, <1>6
    <2> QED
      BY <1>7, <2>1
  <1>9. /\ UNCHANGED <<log, property, seen, handled, first, failures>>
        /\ UNCHANGED <<orderState, cancelled, publicKey, refundRow>>
        /\ ~ polling /\ polling' = TRUE /\ page = <<>> /\ checkpoint' = t
    <2>1. page = <<>>
      BY SnapshotTypes DEF Network!RequestMixinNetwork
    <2> QED
      BY <1>1, <2>1 DEF Network!RequestMixinNetwork, Network!tables, Network!history, Network!faults
  <1>10. Network!Now' = Network!Now
    BY <1>9 DEF Network!Now
  <1>11. Network!TypeOK'
    <2>1. t \in 0..(MaxSnapshots + 2)
      BY <1>2, SnapshotTypes, SnapshotConstants
    <2>2. \A x \in DOMAIN p : p[x] \in DOMAIN log
      BY <1>6, <1>7, LogTypes DEF SnapshotInv
    <2> QED
      BY <1>6, <1>9, <2>1, <2>2 DEF SnapshotInv, Network!TypeOK
  <1>12. Network!NothingSkipped' /\ LogOK'
    BY <1>9 DEF SnapshotInv, Network!NothingSkipped, LogOK, At, Said
  <1>13. PageOK'
    BY <1>6, <1>7 DEF PageOK
  <1>14. CheckpointsOK'
    <2>1. page' # <<>> => t <= At(p[1])
      BY <1>2, <1>3, <1>6, <1>8, LogTypes DEF SnapshotInv
    <2>2. \A i \in handled : At(i) <= Network!Now
      BY SnapshotTypes, LogSorted DEF SnapshotInv
    <2>3. \A x \in 1..n : At(p[x]) <= Network!Now
      BY <1>7, LogSorted DEF SnapshotInv
    <2>4. /\ \A i \in handled : At(i) \in Nat
          /\ \A x \in 1..n : At(p[x]) \in Nat
      BY <1>7, LogTypes, SnapshotTypes DEF SnapshotInv
    <2>5. property = 0 => /\ \A i \in handled : At(i) <= t
                          /\ \A x \in 1..n : At(p[x]) <= t
      <3>1. property = 0 => t \in Nat /\ Network!Now \in Nat /\ Network!Now <= t
        BY <1>2, SnapshotTypes
      <3>2. property = 0 => \A i \in handled : At(i) <= t
        BY ONLY <2>2, <2>4, <3>1
      <3>3. property = 0 => \A x \in 1..n : At(p[x]) <= t
        BY ONLY <2>3, <2>4, <3>1
      <3> QED
        BY <3>2, <3>3
    <2>6. failures = 0 => \A i \in seen : At(i) <= t
      <3>1. failures = 0 => \A i \in seen : At(i) <= property
        BY <1>9 DEF SnapshotInv, CheckpointsOK
      <3>2. seen \subseteq handled
        BY SnapshotTypes
      <3> QED
        BY <1>2, <2>5, <3>1, <3>2
    <2>7. /\ property = 0 <=> first = 0
          /\ first <= property /\ property <= Network!Now + 1
          /\ property = first \/ property <= Network!Now
          /\ failures \in Nat
      BY DEF SnapshotInv, CheckpointsOK
    <2> QED
      BY <1>2, <1>6, <1>9, <1>10, <2>1, <2>5, <2>6, <2>7 DEF CheckpointsOK, At, Offset
  <1>15. HandledOK'
    <2>1. first # 0 => property = t
      BY <1>2 DEF SnapshotInv, CheckpointsOK
    <2>2. ASSUME NEW i \in 1..Len(log), first # 0, At(i) >= first, At(i) < t PROVE i \in handled
      <3>1. At(i) \in Nat /\ first \in Nat /\ property \in Nat /\ DOMAIN log = 1..Len(log)
        BY LogTypes, SnapshotTypes DEF SnapshotInv
      <3>2. At(i) \in first..(property - 1)
        BY <2>1, <2>2, <3>1
      <3> QED
        BY <2>2, <3>1, <3>2 DEF SnapshotInv, Network!NothingSkipped, At
    <2>3. ASSUME NEW i \in 1..Len(log), p # <<>>, i < p[1] PROVE At(i) < t /\ At(i) # At(p[1])
      <3>1. i <= k /\ ~ (p[1] <= k) /\ p[1] \in 1..Len(log)
        BY <1>3, <1>8, <2>3
      <3>2. At(i) \in Nat /\ At(p[1]) \in Nat /\ At(i) < t /\ ~ (At(p[1]) < t)
        BY <1>3, <3>1, LogTypes DEF SnapshotInv
      <3> QED
        BY <1>2, <3>2
    <2>4. \A i \in handled, j \in 1..Len(log) : j < i /\ At(j) = At(i) => j \in handled
      BY DEF SnapshotInv, HandledOK
    <2> QED
      BY <1>6, <1>9, <2>2, <2>3, <2>4 DEF HandledOK, At
  <1>16. SeenOK'
    <2>1. \A i \in seen, j \in (1..Len(log)) \ seen :
            j < i => At(j) < IF property = 0 THEN At(i) ELSE property
      BY DEF SnapshotInv, SeenOK
    <2>2. ASSUME NEW j \in 1..Len(log), p # <<>>, j < p[1] PROVE ~ (At(j) >= t)
      <3>1. j <= k
        BY <1>3, <1>8, <2>2
      <3>2. At(j) \in Nat /\ At(j) < t
        BY <1>3, <3>1, LogTypes DEF SnapshotInv
      <3> QED
        BY <1>2, <3>2
    <2>3. Offset' = t
      BY <1>2, <1>9 DEF Offset
    <2> QED
      BY <1>6, <1>9, <2>1, <2>2, <2>3 DEF SeenOK, At
  <1>17. OrdersOK'
    BY <1>9 DEF SnapshotInv, OrdersOK, At, Said
  <1>18. KeysOK'
    BY <1>9 DEF SnapshotInv, KeysOK, SentBy, LastSeen, SentByNoOther, Said
  <1> QED
    BY <1>11, <1>12, <1>13, <1>14, <1>15, <1>16, <1>17, <1>18 DEF SnapshotInv

LEMMA SkipKeeps == ASSUME SnapshotInv, Network!SkipSeen PROVE SnapshotInv'
  <1>1. PICK p : p = Tail(page)
    OBVIOUS
  <1>2. PICK h : h = page[1]
    OBVIOUS
  <1>a. page # <<>> /\ Head(page) \in seen
    BY DEF Network!SkipSeen
  <1>b. Rest(h, p)
    BY <1>1, <1>2, <1>a, TailOfPage
  <1>3. /\ h \in 1..Len(log) /\ page # <<>> /\ h \in seen
        /\ p \in Seq(Nat) /\ Len(p) \in Nat /\ DOMAIN p = 1..Len(p)
        /\ p # <<>> => p[1] = h + 1 /\ p[1] \in 1..Len(log)
        /\ \A x \in 1..Len(p) : /\ p[x] = p[1] + (x - 1) /\ p[x] \in 1..Len(log)
                                /\ \E y \in 1..Len(page) : p[x] = page[y]
    BY <1>a, <1>b DEF Rest
  <1>4. /\ UNCHANGED <<log, property, checkpoint, polling, seen, handled, first, failures>>
        /\ UNCHANGED <<orderState, cancelled, publicKey, refundRow>>
        /\ page' = p
    BY <1>1 DEF Network!SkipSeen, Network!tables, Network!history, Network!faults
  <1>5. Network!Now' = Network!Now /\ Offset' = Offset
    BY <1>4 DEF Network!Now, Offset
  <1>6. polling /\ h \in handled
    BY <1>3, SnapshotTypes
  <1>7. ASSUME p # <<>>
        PROVE  h <= p[1] /\ At(h) <= At(p[1]) /\ At(h) \in Nat /\ At(p[1]) \in Nat
    BY <1>3, <1>7, LogTypes, LogSorted DEF SnapshotInv
  <1>8. Network!TypeOK'
    <2>1. \A x \in DOMAIN p : p[x] \in DOMAIN log
      BY <1>3, LogTypes DEF SnapshotInv
    <2> QED
      BY <1>3, <1>4, <2>1 DEF SnapshotInv, Network!TypeOK
  <1>9. Network!NothingSkipped' /\ LogOK'
    BY <1>4 DEF SnapshotInv, Network!NothingSkipped, LogOK, At, Said
  <1>10. PageOK'
    BY <1>3, <1>4 DEF PageOK
  <1>11. CheckpointsOK'
    <2>1. CheckpointsOK
      BY DEF SnapshotInv
    <2>2. Offset <= checkpoint /\ checkpoint <= At(h)
      BY <1>2, <1>3, <2>1 DEF CheckpointsOK
    <2>3. p # <<>> => checkpoint <= At(p[1])
      BY <1>7, <2>2, SnapshotTypes
    <2>4. DOMAIN page = 1..Len(page)
      BY PageTypes
    <2>5. property = 0 => \A x \in 1..Len(p) : At(p[x]) <= checkpoint
      BY <1>3, <1>6, <2>1 DEF CheckpointsOK
    <2> QED
      BY <1>4, <1>5, <2>1, <2>2, <2>3, <2>5 DEF CheckpointsOK, At
  <1>12. HandledOK'
    <2>1. HandledOK
      BY DEF SnapshotInv
    <2>2. ASSUME NEW i \in 1..Len(log), p # <<>>, i < p[1] PROVE i = h \/ i < h
      BY <1>3, <2>2, SnapshotTypes
    <2>3. ASSUME NEW i \in 1..Len(log), first # 0, At(i) >= first,
                 At(i) < checkpoint \/ (p # <<>> /\ i < p[1])
          PROVE  i \in handled
      BY <1>2, <1>3, <1>6, <2>1, <2>2, <2>3 DEF HandledOK
    <2>4. ASSUME NEW j \in 1..Len(log), p # <<>>, j < p[1], At(j) = At(p[1]) PROVE j \in handled
      <3>1. j < h => At(j) = At(h)
        BY <1>3, <1>7, <2>4, LogTypes, LogSorted DEF SnapshotInv
      <3> QED
        BY <1>2, <1>3, <1>6, <2>1, <2>2, <2>4, <3>1 DEF HandledOK
    <2> QED
      BY <1>4, <2>1, <2>3, <2>4 DEF HandledOK, At
  <1>13. SeenOK'
    <2>1. SeenOK
      BY DEF SnapshotInv
    <2>2. ASSUME NEW j \in 1..Len(log), p # <<>>, j < p[1], At(j) >= Offset PROVE j \in seen
      <3>1. j = h \/ j < h
        BY <1>3, <2>2, SnapshotTypes
      <3> QED
        BY <1>2, <1>3, <2>1, <2>2, <3>1 DEF SeenOK
    <2> QED
      BY <1>4, <1>5, <2>1, <2>2 DEF SeenOK, At
  <1>14. OrdersOK'
    BY <1>4 DEF SnapshotInv, OrdersOK, At, Said
  <1>15. KeysOK'
    <2>1. KeysOK /\ page[1] \in seen
      BY <1>2, <1>3 DEF SnapshotInv
    <2> QED
      BY <1>4, <2>1 DEF KeysOK, SentBy, LastSeen, SentByNoOther, Said
  <1> QED
    BY <1>8, <1>9, <1>10, <1>11, <1>12, <1>13, <1>14, <1>15 DEF SnapshotInv

LEMMA WriteTimeKeeps == ASSUME SnapshotInv, Network!WriteTimeProperty PROVE SnapshotInv'
  <1>1. /\ UNCHANGED <<log, checkpoint, page, seen, handled>>
        /\ UNCHANGED <<orderState, cancelled, publicKey, refundRow>>
        /\ polling /\ polling' = FALSE /\ page = <<>>
    BY DEF Network!WriteTimeProperty, Network!tables
  <1>2. Network!Now' = Network!Now
    BY <1>1 DEF Network!Now
  <1>3. /\ checkpoint \in Nat /\ 0 < checkpoint /\ property <= checkpoint
        /\ checkpoint <= Network!Now + 1 /\ checkpoint \in 0..(MaxSnapshots + 2)
        /\ property # 0 => checkpoint = first \/ checkpoint <= Network!Now
        /\ property \in Nat /\ first \in Nat /\ first <= property /\ (property = 0 <=> first = 0)
        /\ failures \in Nat
    BY <1>1, SnapshotTypes DEF SnapshotInv, CheckpointsOK, Network!TypeOK
  <1>4. LogOK' /\ PageOK' /\ KeysOK'
    BY <1>1 DEF SnapshotInv, LogOK, PageOK, KeysOK, SentBy, LastSeen, SentByNoOther, At, Said
  <1>5. CASE failures' = failures + 1 /\ UNCHANGED <<property, first>>
    <2>1. Network!TypeOK' /\ Network!NothingSkipped'
      BY <1>1, <1>5 DEF SnapshotInv, Network!TypeOK, Network!NothingSkipped
    <2>2. CheckpointsOK'
      <3>1. failures' \in Nat /\ failures' # 0
        BY <1>3, <1>5
      <3> QED
        BY <1>1, <1>2, <1>5, <3>1 DEF SnapshotInv, CheckpointsOK, At
    <2>3. HandledOK' /\ SeenOK' /\ OrdersOK'
      BY <1>1, <1>5 DEF SnapshotInv, HandledOK, SeenOK, OrdersOK, At, Said
    <2> QED
      BY <1>4, <2>1, <2>2, <2>3 DEF SnapshotInv
  <1>6. CASE /\ property' = checkpoint /\ first' = IF first = 0 THEN checkpoint ELSE first
             /\ UNCHANGED failures
    <2>1. /\ first' \in 0..(MaxSnapshots + 2) /\ first' # 0 /\ property' # 0 /\ first' <= property'
          /\ property' = first' \/ property' <= Network!Now
      BY <1>3, <1>6 DEF SnapshotInv, Network!TypeOK
    <2>2. Network!TypeOK'
      BY <1>1, <1>3, <1>6, <2>1 DEF SnapshotInv, Network!TypeOK
    <2>3. Network!NothingSkipped'
      <3>1. ASSUME NEW i \in DOMAIN log, At(i) \in first'..(checkpoint - 1) PROVE i \in handled
        <4>1. i \in 1..Len(log) /\ At(i) \in Nat /\ At(i) < checkpoint /\ At(i) >= first'
          BY <1>3, <2>1, <3>1, LogTypes DEF SnapshotInv
        <4>2. first # 0 /\ first' = first
          BY <1>3, <1>6, <4>1
        <4> QED
          BY <1>1, <4>1, <4>2 DEF SnapshotInv, HandledOK
      <3> QED
        BY <1>1, <1>6, <3>1 DEF Network!NothingSkipped, At
    <2>4. CheckpointsOK'
      BY <1>1, <1>2, <1>3, <1>6, <2>1 DEF SnapshotInv, CheckpointsOK, At
    <2>5. HandledOK'
      BY <1>1, <1>6 DEF SnapshotInv, HandledOK, At
    <2>6. ASSUME first = 0
          PROVE  \A i \in handled : At(i) <= checkpoint /\ At(i) \in Nat
      BY <1>1, <1>3, <2>6, LogTypes, SnapshotTypes DEF SnapshotInv, CheckpointsOK
    <2>7. SeenOK'
      <3>1. ASSUME NEW i \in seen, NEW j \in (1..Len(log)) \ seen, j < i PROVE At(j) < checkpoint
        <4>1. At(j) < (IF property = 0 THEN At(i) ELSE property) /\ At(j) \in Nat /\ i \in handled
          BY <3>1, LogTypes, SnapshotTypes DEF SnapshotInv, SeenOK
        <4> QED
          BY <1>3, <2>6, <4>1
      <3> QED
        BY <1>1, <1>6, <2>1, <3>1 DEF SeenOK, At
    <2>8. OrdersOK'
      <3>1. ASSUME NEW i \in handled,
                   Network!Outcome(Said(i)) = "CANCEL",
                   Network!Outcome(Said(Said(i).cancels)) = "ORDER", Said(Said(i).cancels).type = "LIMIT",
                   Said(Said(i).cancels).opponent = Said(i).opponent
            PROVE  \/ Said(i).cancels \in cancelled \/ orderState[Said(i).cancels] = "DONE"
                   \/ At(Said(i).cancels) < first'
        <4>1. i \in 1..Len(log) /\ Said(i).cancels # 0
          BY <3>1, SnapshotTypes DEF Network!Outcome, Network!NoSnapshot
        <4>2. Said(i).cancels \in 1..Len(log) /\ At(Said(i).cancels) \in Nat
          BY <4>1, LogTypes DEF SnapshotInv
        <4>3. \/ Said(i).cancels \in cancelled \/ orderState[Said(i).cancels] = "DONE"
              \/ At(Said(i).cancels) < IF first = 0 THEN At(i) ELSE first
          BY <3>1 DEF SnapshotInv, OrdersOK
        <4> QED
          BY <1>3, <1>6, <2>6, <4>2, <4>3
      <3> QED
        BY <1>1, <2>1, <3>1 DEF SnapshotInv, OrdersOK, At, Said
    <2> QED
      BY <1>4, <2>2, <2>3, <2>4, <2>5, <2>7, <2>8 DEF SnapshotInv
  <1> QED
    BY <1>5, <1>6 DEF Network!WriteTimeProperty

-----------------------------------------------------------------------------
(* The step that processes a snapshot.                                     *)

\* What the outcomes of processSnapshot tell of a snapshot.
LEMMA OutcomeFacts ==
    ASSUME LogOK, NEW i \in 1..Len(log)
    PROVE  /\ Network!Outcome(Said(i)) = "KEY" => Said(i).opponent \in User /\ Said(i).key \in PublicKey
           /\ Network!Outcome(Said(i)) = "CANCEL" =>
                Said(i).cancels \in 1..Len(log) /\ Said(i).cancels < i
  <1>1. Said(i) \in Network!SnapshotRecord /\ Said(i).cancels < i /\ Len(log) \in Nat
    BY LogTypes
  <1>2. /\ Said(i).opponent \in User \cup {NoUser} /\ Said(i).key \in PublicKey \cup {NoKey}
        /\ Said(i).cancels \in Nat
    BY <1>1 DEF Network!SnapshotRecord
  <1>3. Network!Outcome(Said(i)) = "KEY" => Said(i).opponent # NoUser /\ Said(i).key # NoKey
    BY DEF Network!Outcome, Network!Ignored
  <1>4. Network!Outcome(Said(i)) = "CANCEL" => Said(i).cancels # 0
    BY DEF Network!Outcome, Network!NoSnapshot
  <1> QED
    BY <1>1, <1>2, <1>3, <1>4

Tables(h) ==
    /\ orderState' \in [Network!Number -> {"ABSENT", "PENDING", "DONE"}]
    /\ \A o \in Network!Number : o # h \/ orderState[o] # "ABSENT" => orderState'[o] = orderState[o]
    /\ orderState'[h] = "DONE" => orderState[h] = "DONE"
    /\ Network!Outcome(Said(h)) = "ORDER" => orderState'[h] # "ABSENT"
    /\ cancelled \subseteq cancelled' /\ cancelled' \subseteq 1..Len(log)
    /\ \A o \in cancelled' : orderState'[o] = "PENDING"
    /\ Network!Outcome(Said(h)) = "CANCEL" /\ Network!MayCancel(h, Said(h).cancels) =>
         Said(h).cancels \in cancelled'
    /\ refundRow' \subseteq refundRow \cup {h}

Keys(h) ==
    /\ publicKey' \in [User -> PublicKey \cup {NoKey}]
    /\ \A u \in User : publicKey'[u] # publicKey[u] => SentBy(u, h) /\ publicKey'[u] = Said(h).key
    /\ \A u \in User : SentBy(u, h) =>
         \/ publicKey'[u] = Said(h).key
         \/ \E v \in User : publicKey[v] = Said(h).key /\ publicKey' = publicKey

LEMMA WriteEffect ==
    ASSUME SnapshotInv, NEW h \in 1..Len(log), Network!Write(h)
    PROVE  Tables(h) /\ Keys(h)
  <1>1. /\ orderState \in [Network!Number -> {"ABSENT", "PENDING", "DONE"}]
        /\ publicKey \in [User -> PublicKey \cup {NoKey}]
        /\ \A o \in cancelled : orderState[o] = "PENDING"
        /\ cancelled \subseteq 1..Len(log) /\ LogOK
    BY DEF SnapshotInv, Network!TypeOK, OrdersOK
  <1>2. h \in Network!Number
    BY SnapshotTypes, SnapshotConstants DEF Network!Number
  <1>3. PICK out : out = Network!Outcome(Said(h))
    OBVIOUS
  <1>4. CASE out \in {"IGNORED", "REFUND"}
    <2>1. UNCHANGED <<orderState, cancelled, publicKey>> /\ refundRow' \subseteq refundRow \cup {h}
      BY <1>3, <1>4 DEF Network!Write, Network!WriteRefund, Network!tables, Said
    <2> QED
      BY <1>1, <1>2, <1>3, <1>4, <2>1 DEF Tables, Keys, SentBy
  <1>5. CASE out = "KEY"
    <2>1. UNCHANGED <<orderState, cancelled, refundRow>>
      BY <1>3, <1>5 DEF Network!Write, Network!WriteKey, Said
    <2>2. PICK u \in User, k \in PublicKey : u = Said(h).opponent /\ k = Said(h).key
      BY <1>1, <1>3, <1>5, OutcomeFacts
    <2>3. publicKey' = IF \E v \in User : publicKey[v] = k THEN publicKey ELSE [publicKey EXCEPT ![u] = k]
      BY <1>3, <1>5, <2>2 DEF Network!Write, Network!WriteKey, Network!KeyTaken, Said
    <2>4. Tables(h)
      BY <1>1, <1>2, <1>3, <1>5, <2>1 DEF Tables
    <2>5. \A v \in User : SentBy(v, h) <=> v = u
      BY <1>3, <1>5, <2>2 DEF SentBy
    <2>6. Keys(h)
      BY <1>1, <2>2, <2>3, <2>5 DEF Keys
    <2> QED
      BY <2>4, <2>6
  <1>6. CASE out = "CANCEL"
    <2>1. /\ UNCHANGED <<orderState, publicKey, refundRow>>
          /\ cancelled' = IF Network!MayCancel(h, Said(h).cancels)
                          THEN cancelled \cup {Said(h).cancels} ELSE cancelled
      BY <1>3, <1>6 DEF Network!Write, Network!WriteCancel, Said
    <2>2. Said(h).cancels \in 1..Len(log)
      BY <1>1, <1>3, <1>6, OutcomeFacts
    <2>3. Tables(h)
      BY <1>1, <1>2, <1>3, <1>6, <2>1, <2>2 DEF Tables, Network!MayCancel
    <2> QED
      BY <1>1, <1>3, <1>6, <2>1, <2>3 DEF Keys, SentBy
  <1>7. CASE out = "ORDER"
    <2>1. /\ UNCHANGED <<cancelled, publicKey, refundRow>>
          /\ orderState' = IF orderState[h] # "ABSENT" THEN orderState
                           ELSE [orderState EXCEPT ![h] = "PENDING"]
      BY <1>3, <1>7 DEF Network!Write, Network!WriteOrder, Network!Exists, Said
    <2>2. Tables(h)
      BY <1>1, <1>2, <1>3, <1>7, <2>1 DEF Tables
    <2> QED
      BY <1>1, <1>3, <1>7, <2>1, <2>2 DEF Keys, SentBy
  <1> QED
    BY <1>3, <1>4, <1>5, <1>6, <1>7 DEF Network!Write, Said

\* What the poller knows when it comes to a snapshot h that it has not seen.
Facing(h) ==
    /\ h = page[1] /\ h \in 1..Len(log) /\ h \notin seen /\ page # <<>> /\ polling
    /\ 0 < checkpoint /\ property <= checkpoint /\ checkpoint <= At(h) /\ At(h) \in Nat
    /\ At(h) <= Network!Now
    /\ property = 0 => checkpoint = At(h) /\ \A i \in handled : At(i) <= At(h)
    /\ first # 0 => \A i \in 1..Len(log) : At(i) >= first /\ i < h => i \in handled
    /\ \A j \in 1..Len(log) : j < h /\ At(j) = At(h) => j \in handled
    /\ \A j \in 1..Len(log) : j < h /\ At(j) >= Offset => j \in seen

LEMMA FacingNext ==
    ASSUME SnapshotInv, page # <<>>, Head(page) \notin seen
    PROVE  Facing(page[1])
  <1> SUFFICES ASSUME NEW h, h = page[1] PROVE Facing(h)
    OBVIOUS
  <1>1. Rest(page[1], Tail(page))
    BY TailOfPage
  <1>2. h \in 1..Len(log) /\ h \notin seen /\ polling
    BY <1>1, SnapshotTypes DEF Rest
  <1>3. At(h) \in Nat /\ At(h) <= Network!Now
    BY <1>2, LogTypes, LogSorted DEF SnapshotInv
  <1>4. CheckpointsOK /\ HandledOK /\ SeenOK
    BY DEF SnapshotInv
  <1>5. /\ 0 < checkpoint /\ property <= checkpoint /\ checkpoint <= At(h)
        /\ property = 0 => /\ \A i \in handled : At(i) <= checkpoint
                           /\ At(h) <= checkpoint
    <2>1. 1 \in 1..Len(page)
      BY PageTypes
    <2> QED
      BY <1>2, <1>4, <2>1 DEF CheckpointsOK
  <1>6. property = 0 => checkpoint = At(h)
    BY <1>3, <1>5, SnapshotTypes
  <1>7. /\ first # 0 => \A i \in 1..Len(log) : At(i) >= first /\ i < h => i \in handled
        /\ \A j \in 1..Len(log) : j < h /\ At(j) = At(h) => j \in handled
    BY <1>2, <1>4 DEF HandledOK
  <1>8. \A j \in 1..Len(log) : j < h /\ At(j) >= Offset => j \in seen
    BY <1>4 DEF SeenOK
  <1> QED
    BY <1>2, <1>3, <1>5, <1>6, <1>7, <1>8 DEF Facing

\* Everything the poller has seen is older than the snapshot it comes to.
LEMMA SeenIsOlder ==
    ASSUME SnapshotInv, NEW h, Facing(h), NEW i \in seen
    PROVE  i < h
  <1>1. i \in 1..Len(log) /\ h \in (1..Len(log)) \ seen /\ At(i) \in Nat /\ At(h) \in Nat /\ i # h
    BY SnapshotTypes, LogTypes DEF SnapshotInv, Facing
  <1>2. h < i => At(h) < IF property = 0 THEN At(i) ELSE property
    BY <1>1 DEF SnapshotInv, SeenOK
  <1>3. property = 0 => At(i) <= At(h)
    BY SnapshotTypes DEF Facing
  <1>4. property # 0 => property <= At(h)
    BY <1>1, SnapshotTypes DEF Facing
  <1> QED
    BY <1>1, <1>2, <1>3, <1>4, SnapshotTypes

\* The tables and the history, whether the reply of the write is lost or not.
LEMMA HandledOnceMore ==
    ASSUME SnapshotInv, NEW h, Facing(h), Tables(h), UNCHANGED <<log, first>>,
           handled' = handled \cup {h}
    PROVE  /\ OrdersOK'
           /\ \A i \in handled', j \in 1..Len(log) : j < i /\ At(j) = At(i) => j \in handled'
           /\ property = 0 => \A i \in handled' : At(i) <= At(h)
  <1>1. /\ h \in 1..Len(log) /\ h \in Network!Number /\ handled \subseteq 1..Len(log)
        /\ \A i \in 1..Len(log) : i \in Network!Number /\ At(i) \in Nat
        /\ Len(log) \in Nat /\ first \in Nat
    BY SnapshotTypes, SnapshotConstants, LogTypes DEF SnapshotInv, Facing, Network!Number
  <1>2. \A i \in handled', j \in 1..Len(log) : j < i /\ At(j) = At(i) => j \in handled'
    BY DEF SnapshotInv, HandledOK, Facing
  <1>3. property = 0 => \A i \in handled' : At(i) <= At(h)
    BY <1>1 DEF Facing
  <1>4. ASSUME NEW o \in Network!Number
        PROVE  /\ orderState[o] # "ABSENT" => orderState'[o] # "ABSENT"
               /\ orderState[o] = "DONE" => orderState'[o] = "DONE"
    BY <1>1 DEF Tables
  <1>5. \A i \in handled' : Network!Outcome(Said(i)) = "ORDER" => orderState'[i] # "ABSENT"
    BY <1>1, <1>4 DEF SnapshotInv, OrdersOK, Tables
  <1>6. ASSUME NEW i \in handled', NEW o, o = Said(i).cancels,
               Network!Outcome(Said(i)) = "CANCEL",
               Network!Outcome(Said(o)) = "ORDER", Said(o).type = "LIMIT",
               Said(o).opponent = Said(i).opponent
        PROVE  \/ o \in cancelled' \/ orderState'[o] = "DONE"
               \/ At(o) < IF first = 0 THEN At(i) ELSE first
    <2>1. i \in 1..Len(log) /\ o \in 1..Len(log) /\ o < i /\ o \in Network!Number
      BY <1>1, <1>6, OutcomeFacts DEF SnapshotInv
    <2>2. CASE i \in handled
      <3>1. \/ o \in cancelled \/ orderState[o] = "DONE"
            \/ At(o) < IF first = 0 THEN At(i) ELSE first
        BY <1>6, <2>2 DEF SnapshotInv, OrdersOK
      <3> QED
        BY <1>4, <2>1, <3>1 DEF Tables
    <2>3. CASE i = h
      <3>1. CASE orderState[o] = "PENDING"
        BY <1>6, <2>3, <3>1 DEF Tables, Network!MayCancel, Said
      <3>2. CASE orderState[o] = "DONE"
        BY <1>4, <2>1, <3>2
      <3>3. CASE orderState[o] = "ABSENT"
        <4>1. o \notin handled
          BY <1>6, <3>3 DEF SnapshotInv, OrdersOK
        <4>2. At(o) <= At(h) /\ At(o) \in Nat /\ At(h) \in Nat
          BY <1>1, <2>1, <2>3, LogSorted DEF SnapshotInv
        <4>3. At(o) # At(h)
          BY <2>1, <2>3, <4>1 DEF Facing
        <4>4. first # 0 => ~ (At(o) >= first)
          BY <2>1, <2>3, <4>1 DEF Facing
        <4> QED
          BY <1>1, <2>3, <4>2, <4>3, <4>4
      <3>4. orderState[o] \in {"ABSENT", "PENDING", "DONE"}
        BY <2>1 DEF SnapshotInv, Network!TypeOK
      <3> QED
        BY <3>1, <3>2, <3>3, <3>4
    <2> QED
      BY <2>2, <2>3
  <1>7. cancelled' \subseteq 1..Len(log)
    BY DEF Tables
  <1>8. OrdersOK'
    BY <1>5, <1>6, <1>7 DEF OrdersOK, At, Said
  <1> QED
    BY <1>2, <1>3, <1>8

\* A user whose key was processed last has it, though somebody's key is processed now.
LEMMA KeysKept ==
    ASSUME SnapshotInv, NEW h, Facing(h), Keys(h), UNCHANGED log, handled' = handled \cup {h},
           \/ seen' = seen \cup {h}
           \/ UNCHANGED <<seen, page>>
    PROVE  KeysOK'
  <1>1. /\ h \in 1..Len(log) /\ h \notin seen /\ handled \subseteq 1..Len(log) /\ seen \subseteq handled
        /\ Len(log) \in Nat
    BY SnapshotTypes DEF Facing
  <1>2. KeysOK
    BY DEF SnapshotInv
  <1>3. ASSUME NEW u \in User, publicKey'[u] # NoKey
        PROVE  \E i \in handled' : SentBy(u, i) /\ Said(i).key = publicKey'[u]
    <2>1. CASE publicKey'[u] = publicKey[u]
      BY <1>2, <1>3, <2>1 DEF KeysOK
    <2>2. CASE publicKey'[u] # publicKey[u]
      BY <2>2 DEF Keys
    <2> QED
      BY <2>1, <2>2
  <1>4. ASSUME NEW u \in User, SentBy(u, h), SentByNoOther(u, Said(h).key)
        PROVE  publicKey'[u] = Said(h).key
    <2> SUFFICES ASSUME NEW v \in User, publicKey[v] = Said(h).key, publicKey' = publicKey
                 PROVE  publicKey[u] = Said(h).key
      BY <1>4 DEF Keys
    <2>1. Said(h).key # NoKey
      BY <1>1, <1>4, OutcomeFacts, SnapshotConstants DEF SnapshotInv, SentBy
    <2>2. PICK j \in handled : SentBy(v, j) /\ Said(j).key = publicKey[v]
      BY <1>2, <2>1 DEF KeysOK
    <2>3. SentBy(u, j)
      BY <1>1, <1>4, <2>2 DEF SentByNoOther
    <2>4. u = v
      BY <2>2, <2>3 DEF SentBy
    <2> QED
      BY <2>4
  <1>5. ASSUME NEW u \in User, ~ SentBy(u, h), NEW i \in seen,
               \A j \in seen : SentBy(u, j) => j <= i, SentBy(u, i), SentByNoOther(u, Said(i).key)
        PROVE  publicKey'[u] = Said(i).key
    <2>1. publicKey[u] = Said(i).key
      BY <1>2, <1>5 DEF KeysOK, LastSeen, Facing
    <2> QED
      BY <1>5, <2>1 DEF Keys
  <1>6. ASSUME NEW u \in User, NEW i \in seen', SentBy(u, i), \A j \in seen' : SentBy(u, j) => j <= i,
               SentByNoOther(u, Said(i).key)
        PROVE  \/ publicKey'[u] = Said(i).key
               \/ page' # <<>> /\ page'[1] \notin seen' /\ SentBy(u, page'[1])
    <2>1. CASE ~ SentBy(u, h)
      BY <1>5, <1>6, <2>1 DEF SentBy
    <2>2. CASE SentBy(u, h) /\ UNCHANGED <<seen, page>>
      BY <2>2 DEF Facing
    <2>3. CASE SentBy(u, h) /\ seen' = seen \cup {h}
      <3>1. h <= i /\ (i \in seen => i < h) /\ i \in 1..Len(log)
        BY <1>1, <1>6, <2>3, SeenIsOlder
      <3>2. i = h
        BY <1>1, <1>6, <2>3, <3>1
      <3> QED
        BY <1>4, <1>6, <2>3, <3>2
    <2> QED
      BY <2>1, <2>2, <2>3
  <1> QED
    BY <1>3, <1>6 DEF KeysOK, SentBy, LastSeen, SentByNoOther, Said

LEMMA ProcessKeeps == ASSUME SnapshotInv, Network!ProcessSnapshot PROVE SnapshotInv'
  <1>1. PICK h : h = page[1]
    OBVIOUS
  <1>2. PICK p : p = Tail(page)
    OBVIOUS
  <1>3. page # <<>> /\ Head(page) \notin seen /\ Network!Write(Head(page))
    BY DEF Network!ProcessSnapshot
  <1>4. Rest(h, p) /\ Facing(h)
    BY <1>1, <1>2, <1>3, TailOfPage, FacingNext
  <1>5. Head(page) = h /\ h \in 1..Len(log) /\ At(h) \in Nat
    BY <1>4 DEF Rest, Facing
  <1>6. Tables(h) /\ Keys(h)
    BY <1>3, <1>5, WriteEffect
  <1>7. /\ UNCHANGED <<log, property, polling, first, failures>> /\ handled' = handled \cup {h}
        /\ \/ checkpoint' = At(h) /\ seen' = seen \cup {h} /\ page' = p
           \/ UNCHANGED <<checkpoint, seen, page>>
    BY <1>2, <1>5 DEF Network!ProcessSnapshot, Network!Advance, At
  <1>8. Network!Now' = Network!Now
    BY <1>7 DEF Network!Now
  <1>9. /\ OrdersOK'
        /\ \A i \in handled', j \in 1..Len(log) : j < i /\ At(j) = At(i) => j \in handled'
        /\ property = 0 => \A i \in handled' : At(i) <= At(h)
    BY <1>4, <1>6, <1>7, HandledOnceMore
  <1>10. KeysOK'
    BY <1>4, <1>6, <1>7, KeysKept
  <1>11. LogOK' /\ Network!NothingSkipped'
    BY <1>7 DEF SnapshotInv, LogOK, Network!NothingSkipped, At, Said
  <1>12. PageOK'
    BY <1>4, <1>7 DEF SnapshotInv, PageOK, Rest
  <1>13. Network!TypeOK'
    <2>1. /\ h \in DOMAIN log /\ At(h) \in 0..(MaxSnapshots + 2)
          /\ \A x \in DOMAIN p : p[x] \in DOMAIN log
      BY <1>4, <1>5, SnapshotTypes, SnapshotConstants, LogTypes, LogSorted DEF SnapshotInv, Rest, Facing
    <2>2. polling
      BY <1>4 DEF Facing
    <2> QED
      BY <1>6, <1>7, <2>1, <2>2 DEF SnapshotInv, Network!TypeOK, Tables, Keys
  <1>14. CASE UNCHANGED <<checkpoint, seen, page>>
    <2>1. Offset' = Offset
      BY <1>7, <1>14 DEF Offset
    <2>2. CheckpointsOK'
      BY <1>4, <1>7, <1>8, <1>9, <1>14, <2>1 DEF SnapshotInv, CheckpointsOK, Facing, At
    <2>3. HandledOK' /\ SeenOK'
      BY <1>7, <1>9, <1>14, <2>1 DEF SnapshotInv, HandledOK, SeenOK, At
    <2> QED
      BY <1>9, <1>10, <1>11, <1>12, <1>13, <2>2, <2>3 DEF SnapshotInv
  <1>15. CASE checkpoint' = At(h) /\ seen' = seen \cup {h} /\ page' = p
    <2>1. ASSUME p # <<>>
          PROVE  p[1] = h + 1 /\ At(h) <= At(p[1]) /\ At(p[1]) \in Nat /\ p[1] \in 1..Len(log)
      BY <1>4, <1>5, <2>1, LogTypes, LogSorted DEF SnapshotInv, Rest
    <2>2. CheckpointsOK'
      <3>1. CheckpointsOK
        BY DEF SnapshotInv
      <3>2. property = 0 => /\ \A i \in handled' : At(i) <= At(h)
                            /\ \A x \in 1..Len(p) : At(p[x]) <= At(h)
        <4>1. ASSUME property = 0, NEW x \in 1..Len(p) PROVE At(p[x]) <= At(h)
          <5>1. PICK y \in 1..Len(page) : p[x] = page[y]
            BY <1>4, <4>1 DEF Rest
          <5> QED
            BY <1>4, <3>1, <4>1, <5>1 DEF CheckpointsOK, Facing
        <4> QED
          BY <1>9, <4>1
      <3>3. failures = 0 => \A i \in seen \cup {h} : At(i) <= At(h)
        <4>1. ASSUME failures = 0, NEW i \in seen PROVE At(i) <= At(h)
          <5>1. At(i) <= checkpoint /\ checkpoint <= At(h)
            BY <1>4, <3>1, <4>1 DEF CheckpointsOK, Facing
          <5>2. At(i) \in Nat /\ checkpoint \in Nat
            BY <4>1, SnapshotTypes, LogTypes DEF SnapshotInv
          <5> QED
            BY <1>5, <5>1, <5>2
        <4> QED
          BY <1>5, <4>1
      <3>4. /\ 0 < At(h) /\ property <= At(h) /\ At(h) <= Network!Now
            /\ property \in Nat /\ checkpoint \in Nat
        BY <1>4, <1>5, SnapshotTypes DEF Facing
      <3>5. Offset' <= At(h) /\ (p # <<>> => At(h) <= At(p[1]))
        BY <1>5, <1>7, <1>15, <2>1, <3>4 DEF Offset
      <3>6. At(h) <= Network!Now + 1
        BY <1>5, <3>4, SnapshotTypes
      <3>7. /\ property = 0 <=> first = 0
            /\ first <= property /\ property <= Network!Now + 1
            /\ property = first \/ property <= Network!Now
            /\ failures \in Nat
        BY <3>1 DEF CheckpointsOK
      <3>8. polling /\ polling' = polling /\ DOMAIN p = 1..Len(p)
        BY <1>4, <1>7 DEF Facing, Rest
      <3> QED
        BY <1>7, <1>8, <1>15, <3>2, <3>3, <3>4, <3>5, <3>6, <3>7, <3>8 DEF CheckpointsOK, At
    <2>3. HandledOK'
      <3>1. ASSUME NEW i \in 1..Len(log), first # 0, At(i) >= first,
                   At(i) < At(h) \/ (p # <<>> /\ i < p[1])
            PROVE  i \in handled'
        <4>1. i <= h
          BY <1>5, <2>1, <3>1, LogTypes, LogSorted DEF SnapshotInv
        <4>2. i < h => i \in handled
          BY <1>4, <3>1 DEF Facing
        <4> QED
          BY <1>5, <1>7, <4>1, <4>2, SnapshotTypes
      <3>2. ASSUME NEW j \in 1..Len(log), p # <<>>, j < p[1], At(j) = At(p[1]) PROVE j \in handled'
        <4>1. j <= h
          BY <1>5, <2>1, <3>2, SnapshotTypes
        <4>2. At(j) = At(h)
          BY <1>5, <2>1, <3>2, <4>1, LogTypes, LogSorted DEF SnapshotInv
        <4>3. j < h => j \in handled
          BY <1>4, <4>2 DEF Facing
        <4> QED
          BY <1>5, <1>7, <4>1, <4>3, SnapshotTypes
      <3> QED
        BY <1>7, <1>9, <1>15, <3>1, <3>2 DEF HandledOK, At
    <2>4. SeenOK'
      <3>1. ASSUME NEW i \in seen \cup {h}, NEW j \in (1..Len(log)) \ (seen \cup {h}), j < i
            PROVE  At(j) < IF property = 0 THEN At(i) ELSE property
        <4>1. i \in seen => At(j) < IF property = 0 THEN At(i) ELSE property
          BY <3>1 DEF SnapshotInv, SeenOK
        <4>2. i = h => ~ (At(j) >= Offset)
          BY <1>4, <3>1 DEF Facing
        <4>3. At(j) \in Nat /\ checkpoint \in Nat /\ property \in Nat
          BY <3>1, SnapshotTypes, LogTypes DEF SnapshotInv
        <4>4. property = 0 => checkpoint = At(h)
          BY <1>4 DEF Facing
        <4> QED
          BY <3>1, <4>1, <4>2, <4>3, <4>4 DEF Offset
      <3>2. ASSUME NEW j \in 1..Len(log), p # <<>>, j < p[1], At(j) >= Offset' PROVE j \in seen \cup {h}
        <4>1. j <= h
          BY <1>5, <2>1, <3>2, SnapshotTypes
        <4>2. Offset' = Offset
          BY <1>4, <1>7, <1>15 DEF Offset, Facing
        <4>3. j < h => j \in seen
          BY <1>4, <3>2, <4>2 DEF Facing
        <4> QED
          BY <1>5, <4>1, <4>3, SnapshotTypes
      <3> QED
        BY <1>7, <1>15, <3>1, <3>2 DEF SeenOK, At
    <2> QED
      BY <1>9, <1>10, <1>11, <1>12, <1>13, <2>2, <2>3, <2>4 DEF SnapshotInv
  <1> QED
    BY <1>7, <1>14, <1>15

-----------------------------------------------------------------------------
(* The steps of the others: a snapshot arrives, an order ends, a refund is *)
(* sent, the process crashes.                                              *)

\* The log g goes on with a snapshot r, and what was there stays.
Longer(g, r) ==
    /\ Len(g) = Len(log) + 1 /\ DOMAIN g = 1..(Len(log) + 1)
    /\ \A i \in 1..Len(log) : g[i] = log[i]
    /\ g[Len(log) + 1] = r
    /\ r \in [s : Network!SnapshotRecord, createdAt : Nat]
    /\ r.s.cancels <= Len(log)
    /\ r.createdAt \in {Network!Now, Network!Now + 1}
    /\ Cardinality({i \in 1..Len(log) : At(i) = r.createdAt}) < SnapshotTies

LEMMA ArriveEffect ==
    ASSUME SnapshotInv, NEW c \in AnyContent \cup FewContent, Network!Arrive(c)
    PROVE  /\ \E r : Longer(log', r)
           /\ LogOK' /\ Len(log) < MaxSnapshots
  <1>1. PICK t \in {Network!Now, Network!Now + 1} :
          /\ Network!Cardinality({i \in DOMAIN log : log[i].createdAt = t}) < SnapshotTies
          /\ log' = Append(log, [s |-> [c EXCEPT !.trace = IF @ = Network!NoSnapshot THEN @ ELSE Len(log) + 1],
                                 createdAt |-> t])
    BY DEF Network!Arrive
  <1>2. PICK s : s = [c EXCEPT !.trace = IF @ = Network!NoSnapshot THEN @ ELSE Len(log) + 1]
    OBVIOUS
  <1>3. /\ c \in Network!SnapshotRecord /\ c.cancels <= Len(log) /\ Len(log) < MaxSnapshots
        /\ Len(log) \in Nat
    BY SnapshotConstants, SnapshotTypes DEF Network!Arrive
  <1>4. s \in Network!SnapshotRecord /\ s.cancels = c.cancels /\ s.cancels \in Nat
    <2>1. PICK n \in Nat : n = IF c.trace = Network!NoSnapshot THEN c.trace ELSE Len(log) + 1
      <3>1. c.trace \in Nat
        BY <1>3 DEF Network!SnapshotRecord
      <3>2. Len(log) + 1 \in Nat
        BY <1>3
      <3> QED
        BY <3>1, <3>2
    <2>2. s = [c EXCEPT !.trace = n]
      BY <1>2, <2>1
    <2> QED
      BY <1>3, <2>1, <2>2 DEF Network!SnapshotRecord
  <1>5. PICK r : r = [s |-> s, createdAt |-> t]
    OBVIOUS
  <1>6. PICK R : R = [s : Network!SnapshotRecord, createdAt : Nat]
    OBVIOUS
  <1>7. t \in Nat /\ r \in R
    BY <1>1, <1>4, <1>5, <1>6, SnapshotTypes
  <1>8. log \in Seq(R) /\ DOMAIN log = 1..Len(log)
    BY <1>6, LogTypes DEF SnapshotInv, LogOK
  <1>9. PICK g \in Seq(R) : g = Append(log, r)
    <2>1. Append(log, r) \in Seq(R)
      BY <1>7, <1>8
    <2> QED
      BY <2>1
  <1>10. /\ log' = g /\ Len(g) = Len(log) + 1 /\ DOMAIN g = 1..(Len(log) + 1)
         /\ \A i \in 1..Len(log) : g[i] = log[i]
         /\ g[Len(log) + 1] = r
    BY <1>1, <1>2, <1>3, <1>5, <1>8, <1>9
  <1>11. Cardinality({i \in 1..Len(log) : At(i) = t}) < SnapshotTies
    BY <1>1, <1>8, SnapshotLibrary DEF At
  <1>12. Longer(g, r)
    BY <1>1, <1>3, <1>4, <1>5, <1>6, <1>7, <1>10, <1>11 DEF Longer
  <1>13. PICK L \in Nat : L = Len(log)
    BY <1>3
  <1>a. ASSUME NEW x PROVE {j \in 1..(L + 1) : g[j].createdAt = x}
                             = {j \in 1..L : At(j) = x} \cup (IF x = t THEN {L + 1} ELSE {})
    BY <1>5, <1>10, <1>13 DEF At
  <1>b. Cardinality({j \in 1..(L + 1) : g[j].createdAt = t}) <= SnapshotTies
    <2>1. PICK T : T = {j \in 1..L : At(j) = t}
      OBVIOUS
    <2>2. T \in SUBSET (1..L) /\ L + 1 \notin T
      BY <1>13, <2>1
    <2>3. IsFiniteSet(T)
      <3>1. IsFiniteSet(1..L)
        BY <1>13, FS_Interval
      <3> QED
        BY <2>2, <3>1, FS_Subset
    <2>4. Cardinality(T \cup {L + 1}) = Cardinality(T) + 1 /\ Cardinality(T) \in Nat
      BY <2>2, <2>3, FS_AddElement, FS_CardinalityType
    <2>5. Cardinality(T) < SnapshotTies
      BY <1>11, <1>13, <2>1
    <2>6. PICK U : U = {j \in 1..(L + 1) : g[j].createdAt = t}
      OBVIOUS
    <2>7. U = T \cup {L + 1}
      BY <1>a, <2>1, <2>6
    <2>8. Cardinality(U) <= SnapshotTies
      BY <2>4, <2>5, <2>7, SnapshotConstants
    <2> QED
      BY <2>6, <2>8
  <1>14. ASSUME NEW i \in 1..(L + 1)
         PROVE  /\ g[i].createdAt \in 1..(i + 1) /\ g[i].s.cancels < i
                /\ Cardinality({j \in 1..(L + 1) : g[j].createdAt = g[i].createdAt}) <= SnapshotTies
    <2>1. CASE i = L + 1
      <3>1. g[i].createdAt = t /\ g[i].s.cancels = c.cancels
        BY <1>4, <1>5, <1>10, <1>13, <2>1
      <3>2. t \in 1..(i + 1) /\ c.cancels < i
        BY <1>1, <1>3, <1>4, <1>13, <2>1, SnapshotTypes
      <3> QED
        BY <1>b, <3>1, <3>2
    <2>2. CASE i # L + 1
      <3>1. i \in 1..L /\ g[i].createdAt = At(i) /\ g[i].s = Said(i)
        BY <1>10, <1>13, <2>2 DEF At, Said
      <3>2. /\ At(i) \in 1..(i + 1) /\ Said(i).cancels < i
            /\ Cardinality({j \in 1..L : At(j) = At(i)}) <= SnapshotTies
        BY <1>13, <3>1 DEF SnapshotInv, LogOK
      <3>3. At(i) # t => {j \in 1..(L + 1) : g[j].createdAt = At(i)} = {j \in 1..L : At(j) = At(i)}
        BY <1>a
      <3> QED
        BY <1>b, <3>1, <3>2, <3>3
    <2> QED
      BY <2>1, <2>2
  <1>15. LogOK'
    <2>1. log' = g /\ Len(g) = L + 1 /\ g \in Seq([s : Network!SnapshotRecord, createdAt : Nat])
      BY <1>6, <1>9, <1>10, <1>13
    <2> QED
      BY <1>14, <2>1 DEF LogOK, At, Said
  <1> QED
    BY <1>3, <1>10, <1>12, <1>15

LEMMA ArriveKeeps ==
    ASSUME SnapshotInv, NEW c \in AnyContent \cup FewContent, Network!Arrive(c)
    PROVE  SnapshotInv'
  <1>1. PICK r : Longer(log', r)
    BY ArriveEffect
  <1>2. PICK g : g = log'
    OBVIOUS
  <1>3. PICK L \in Nat, t \in Nat : L = Len(log) /\ t = r.createdAt
    BY <1>1, SnapshotTypes DEF Longer
  <1>4. /\ Len(g) = L + 1 /\ DOMAIN g = 1..(L + 1) /\ \A i \in 1..L : g[i] = log[i]
        /\ g[L + 1].createdAt = t /\ t \in {Network!Now, Network!Now + 1}
    BY <1>1, <1>2, <1>3 DEF Longer
  <1>5. /\ UNCHANGED <<property, checkpoint, page, polling, seen, handled, first, failures>>
        /\ UNCHANGED <<orderState, cancelled, publicKey, refundRow>>
    BY DEF Network!Arrive, Network!poller, Network!tables, Network!history, Network!faults
  <1>6. /\ L < MaxSnapshots /\ handled \subseteq 1..L /\ seen \subseteq 1..L
        /\ \A i \in 1..L : At(i) \in Nat /\ At(i) <= t /\ g[i].createdAt = At(i) /\ g[i].s = Said(i)
        /\ Network!Now \in Nat /\ Network!Now <= t
    <2>1. L < MaxSnapshots /\ handled \subseteq 1..L /\ seen \subseteq 1..L
      BY <1>3, ArriveEffect, SnapshotTypes
    <2>2. Network!Now \in Nat /\ Network!Now <= t
      BY <1>3, <1>4, SnapshotTypes
    <2>3. \A i \in 1..L : At(i) \in Nat /\ At(i) <= Network!Now
      BY <1>3, LogTypes, LogSorted DEF SnapshotInv
    <2>4. \A i \in 1..L : At(i) <= t
      BY ONLY <1>3, <2>2, <2>3
    <2>5. \A i \in 1..L : g[i].createdAt = At(i) /\ g[i].s = Said(i)
      BY <1>4 DEF At, Said
    <2> QED
      BY <2>1, <2>2, <2>3, <2>4, <2>5
  <1>7. Network!Now' = t
    BY <1>2, <1>4 DEF Network!Now
  <1>8. LogOK' /\ PageOK'
    BY <1>5, ArriveEffect DEF SnapshotInv, PageOK
  <1>9. \A x \in 1..Len(page) : page[x] \in 1..L /\ page[1] \in 1..L
    BY <1>3, PageTypes
  <1>10. page # <<>> => page[1] \in 1..L
    <2>1. page # <<>> => 1 \in 1..Len(page)
      BY PageTypes
    <2> QED
      BY <1>9, <2>1
  <1>11. Network!TypeOK'
    <2>1. ASSUME NEW i \in 1..(L + 1), NEW j \in 1..(L + 1), i < j
          PROVE  g[i].createdAt <= g[j].createdAt
      <3>1. i \in 1..L
        BY <2>1
      <3>2. j # L + 1 => j \in 1..L /\ At(i) <= At(j)
        BY <1>3, <2>1, <3>1, LogSorted DEF SnapshotInv
      <3> QED
        BY <1>4, <1>6, <3>1, <3>2
    <2>2. \A x \in DOMAIN page : page[x] \in 1..(L + 1)
      BY <1>9, PageTypes
    <2>3. L + 1 <= MaxSnapshots /\ handled \subseteq 1..(L + 1)
      BY <1>6, SnapshotConstants
    <2> QED
      BY <1>2, <1>4, <1>5, <2>1, <2>2, <2>3 DEF SnapshotInv, Network!TypeOK
  <1>12. Network!NothingSkipped'
    <2>1. ASSUME NEW i \in 1..(L + 1), first # 0, g[i].createdAt \in first..(property - 1)
          PROVE  i \in handled
      <3>1. CASE i = L + 1
        <4>1. property = first \/ property <= Network!Now
          BY DEF SnapshotInv, CheckpointsOK
        <4>2. t >= first /\ t < property /\ first \in Nat /\ property \in Nat
          BY <1>4, <2>1, <3>1, SnapshotTypes
        <4> QED
          BY <1>6, <4>1, <4>2
      <3>2. CASE i # L + 1
        <4>1. i \in DOMAIN log /\ log[i].createdAt \in first..(property - 1)
          BY <1>3, <1>4, <2>1, <3>2, LogTypes DEF SnapshotInv
        <4> QED
          BY <2>1, <4>1 DEF SnapshotInv, Network!NothingSkipped
      <3> QED
        BY <3>1, <3>2
    <2> QED
      BY <1>2, <1>4, <1>5, <2>1 DEF Network!NothingSkipped
  <1>13. CheckpointsOK'
    <2>1. CheckpointsOK
      BY DEF SnapshotInv
    <2>2. property \in Nat /\ checkpoint \in Nat /\ first \in Nat /\ DOMAIN page = 1..Len(page)
      BY SnapshotTypes, PageTypes
    <2>3. /\ property <= t + 1 /\ (property = first \/ property <= t)
          /\ polling => checkpoint <= t + 1 /\ (property # 0 => checkpoint = first \/ checkpoint <= t)
      BY <1>6, <2>1, <2>2 DEF CheckpointsOK
    <2>4. page # <<>> => g[page[1]].createdAt = At(page[1])
      BY <1>6, <1>10
    <2>5. \A x \in 1..Len(page) : g[page[x]].createdAt = At(page[x])
      BY <1>6, <1>9
    <2>6. \A i \in handled \cup seen : g[i].createdAt = At(i)
      BY <1>6
    <2>7. Offset' = Offset
      BY <1>5 DEF Offset
    <2>8. /\ page # <<>> => Offset <= checkpoint /\ checkpoint <= g[page[1]].createdAt
          /\ property = 0 /\ polling =>
               /\ \A i \in handled : g[i].createdAt <= checkpoint
               /\ \A x \in 1..Len(page) : g[page[x]].createdAt <= checkpoint
          /\ failures = 0 => \A i \in seen : g[i].createdAt <= IF polling THEN checkpoint ELSE property
      BY <2>1, <2>4, <2>5, <2>6 DEF CheckpointsOK
    <2>9. /\ property = 0 <=> first = 0
          /\ first <= property /\ failures \in Nat
          /\ polling => 0 < checkpoint /\ property <= checkpoint
      BY <2>1 DEF CheckpointsOK
    <2> QED
      BY <1>2, <1>5, <1>7, <2>3, <2>7, <2>8, <2>9 DEF CheckpointsOK, At
  <1>14. HandledOK'
    <2>1. HandledOK
      BY DEF SnapshotInv
    <2>2. ASSUME NEW i \in 1..(L + 1), polling, first # 0, g[i].createdAt >= first,
                 g[i].createdAt < checkpoint \/ (page # <<>> /\ i < page[1])
          PROVE  i \in handled
      <3>1. CASE i = L + 1
        <4>1. property # 0 /\ (checkpoint = first \/ checkpoint <= Network!Now)
          BY <2>2 DEF SnapshotInv, CheckpointsOK
        <4>2. ~ (page # <<>> /\ i < page[1])
          BY <1>10, <3>1
        <4>3. t >= first /\ t < checkpoint /\ first \in Nat /\ checkpoint \in Nat
          BY <1>4, <2>2, <3>1, <4>2, SnapshotTypes
        <4> QED
          BY <1>6, <4>1, <4>3
      <3>2. CASE i # L + 1
        <4>1. i \in 1..L /\ g[i].createdAt = At(i)
          BY <1>6, <2>2, <3>2
        <4> QED
          BY <1>3, <2>1, <2>2, <4>1 DEF HandledOK
      <3> QED
        BY <3>1, <3>2
    <2>3. ASSUME NEW i \in handled, NEW j \in 1..(L + 1), j < i, g[j].createdAt = g[i].createdAt
          PROVE  j \in handled
      <3>1. i \in 1..L /\ j \in 1..L
        BY <1>6, <2>3
      <3> QED
        BY <1>3, <1>6, <2>1, <2>3, <3>1 DEF HandledOK
    <2>4. ASSUME NEW j \in 1..(L + 1), page # <<>>, j < page[1], g[j].createdAt = g[page[1]].createdAt
          PROVE  j \in handled
      <3>1. page[1] \in 1..L /\ j \in 1..L
        BY <1>10, <2>4
      <3> QED
        BY <1>3, <1>6, <2>1, <2>4, <3>1 DEF HandledOK
    <2> QED
      BY <1>2, <1>4, <1>5, <2>2, <2>3, <2>4 DEF HandledOK, At
  <1>15. SeenOK'
    <2>1. SeenOK /\ Offset' = Offset
      BY <1>5 DEF SnapshotInv, Offset
    <2>2. ASSUME NEW i \in seen, NEW j \in (1..(L + 1)) \ seen, j < i
          PROVE  g[j].createdAt < IF property = 0 THEN g[i].createdAt ELSE property
      <3>1. i \in 1..L /\ j \in (1..L) \ seen
        BY <1>6, <2>2
      <3> QED
        BY <1>3, <1>6, <2>1, <2>2, <3>1 DEF SeenOK
    <2>3. ASSUME NEW j \in 1..(L + 1), page # <<>>, j < page[1], g[j].createdAt >= Offset
          PROVE  j \in seen
      <3>1. page[1] \in 1..L /\ j \in 1..L
        BY <1>10, <2>3
      <3> QED
        BY <1>3, <1>6, <2>1, <2>3, <3>1 DEF SeenOK
    <2> QED
      BY <1>2, <1>4, <1>5, <2>1, <2>2, <2>3 DEF SeenOK, At
  <1>16. OrdersOK'
    <2>1. OrdersOK
      BY DEF SnapshotInv
    <2>2. ASSUME NEW i \in handled, Network!Outcome(g[i].s) = "ORDER" PROVE orderState[i] # "ABSENT"
      BY <1>6, <2>1, <2>2 DEF OrdersOK
    <2>3. ASSUME NEW i \in handled, NEW o, o = g[i].s.cancels,
                 Network!Outcome(g[i].s) = "CANCEL",
                 Network!Outcome(g[o].s) = "ORDER", g[o].s.type = "LIMIT",
                 g[o].s.opponent = g[i].s.opponent
          PROVE  \/ o \in cancelled \/ orderState[o] = "DONE"
                 \/ g[o].createdAt < IF first = 0 THEN g[i].createdAt ELSE first
      <3>1. i \in 1..L /\ g[i].s = Said(i) /\ g[i].createdAt = At(i)
        BY <1>6
      <3>2. o \in 1..L
        BY <1>3, <2>3, <3>1, OutcomeFacts DEF SnapshotInv
      <3>3. g[o].s = Said(o) /\ g[o].createdAt = At(o)
        BY <1>6, <3>2
      <3> QED
        BY <2>1, <2>3, <3>1, <3>3 DEF OrdersOK
    <2>4. cancelled \subseteq 1..(L + 1)
      BY <1>3, <2>1 DEF OrdersOK
    <2> QED
      BY <1>2, <1>4, <1>5, <2>2, <2>3, <2>4 DEF OrdersOK, At, Said
  <1>17. KeysOK'
    <2>1. KeysOK
      BY DEF SnapshotInv
    <2>2. \A u \in User : \A i \in 1..L : SentBy(u, i)' <=> SentBy(u, i)
      BY <1>2, <1>6 DEF SentBy, Said
    <2>3. \A i \in 1..L : Said(i)' = Said(i)
      BY <1>2, <1>6 DEF Said
    <2>4. \A u \in User : \A i \in seen : SentByNoOther(u, Said(i).key)' => SentByNoOther(u, Said(i).key)
      BY <1>2, <1>3, <1>4, <1>6, <2>2, <2>3 DEF SentByNoOther
    <2> QED
      BY <1>5, <1>6, <1>10, <2>1, <2>2, <2>3, <2>4 DEF KeysOK, LastSeen
  <1> QED
    BY <1>8, <1>11, <1>12, <1>13, <1>14, <1>15, <1>16, <1>17 DEF SnapshotInv

LEMMA FinishKeeps ==
    ASSUME SnapshotInv, NEW o \in Network!Number, Network!FinishOrder(o)
    PROVE  SnapshotInv'
  <1>1. /\ UNCHANGED <<log, property, checkpoint, page, polling, seen, handled, first, failures>>
        /\ UNCHANGED <<publicKey, refundRow>>
        /\ orderState[o] = "PENDING" /\ orderState' = [orderState EXCEPT ![o] = "DONE"]
        /\ cancelled' = cancelled \ {o}
    BY DEF Network!FinishOrder, Network!poller, Network!history, Network!faults
  <1>2. /\ orderState \in [Network!Number -> {"ABSENT", "PENDING", "DONE"}]
        /\ handled \subseteq Network!Number /\ 1..Len(log) \subseteq Network!Number
    BY SnapshotTypes, SnapshotConstants DEF SnapshotInv, Network!TypeOK, Network!Number
  <1>3. /\ orderState' \in [Network!Number -> {"ABSENT", "PENDING", "DONE"}]
        /\ \A n \in Network!Number : orderState'[n] = IF n = o THEN "DONE" ELSE orderState[n]
    BY <1>1, <1>2
  <1>4. cancelled \subseteq 1..Len(log) /\ \A n \in cancelled : orderState[n] = "PENDING"
    BY DEF SnapshotInv, Network!TypeOK, OrdersOK
  <1>5. Network!TypeOK'
    <2>1. \A n \in cancelled' : orderState'[n] = "PENDING"
      BY <1>1, <1>2, <1>3, <1>4
    <2> QED
      BY <1>1, <1>3, <2>1 DEF SnapshotInv, Network!TypeOK
  <1>6. Network!NothingSkipped' /\ LogOK' /\ PageOK' /\ HandledOK'
    BY <1>1 DEF SnapshotInv, Network!NothingSkipped, LogOK, PageOK, HandledOK, At, Said
  <1>7. CheckpointsOK' /\ SeenOK' /\ KeysOK'
    BY <1>1
    DEF SnapshotInv, CheckpointsOK, SeenOK, KeysOK, SentBy, LastSeen, SentByNoOther, Offset,
        Network!Now, At, Said
  <1>8. OrdersOK'
    <2>1. OrdersOK
      BY DEF SnapshotInv
    <2>2. ASSUME NEW i \in handled, Network!Outcome(Said(i)) = "ORDER" PROVE orderState'[i] # "ABSENT"
      BY <1>2, <1>3, <2>1, <2>2 DEF OrdersOK
    <2>3. ASSUME NEW i \in handled, NEW n, n = Said(i).cancels,
                 Network!Outcome(Said(i)) = "CANCEL",
                 Network!Outcome(Said(n)) = "ORDER", Said(n).type = "LIMIT",
                 Said(n).opponent = Said(i).opponent
          PROVE  \/ n \in cancelled' \/ orderState'[n] = "DONE"
                 \/ At(n) < IF first = 0 THEN At(i) ELSE first
      <3>1. n \in Network!Number
        BY <1>2, <2>3, SnapshotTypes, OutcomeFacts DEF SnapshotInv
      <3>2. \/ n \in cancelled \/ orderState[n] = "DONE"
            \/ At(n) < IF first = 0 THEN At(i) ELSE first
        BY <2>1, <2>3 DEF OrdersOK
      <3> QED
        BY <1>1, <1>3, <3>1, <3>2
    <2> QED
      BY <1>1, <1>4, <2>2, <2>3 DEF OrdersOK, At, Said
  <1> QED
    BY <1>5, <1>6, <1>7, <1>8 DEF SnapshotInv

LEMMA ExpireKeeps ==
    ASSUME SnapshotInv, NEW i, Network!ExpireRefund(i)
    PROVE  SnapshotInv'
  <1>1. /\ UNCHANGED <<log, property, checkpoint, page, polling, seen, handled, first, failures>>
        /\ UNCHANGED <<orderState, cancelled, publicKey>> /\ refundRow' \subseteq refundRow
    BY DEF Network!ExpireRefund, Network!poller, Network!history, Network!faults
  <1>2. Network!TypeOK' /\ Network!NothingSkipped'
    BY <1>1 DEF SnapshotInv, Network!TypeOK, Network!NothingSkipped
  <1>3. LogOK' /\ PageOK' /\ HandledOK' /\ OrdersOK'
    BY <1>1 DEF SnapshotInv, LogOK, PageOK, HandledOK, OrdersOK, At, Said
  <1>4. CheckpointsOK' /\ SeenOK' /\ KeysOK'
    BY <1>1
    DEF SnapshotInv, CheckpointsOK, SeenOK, KeysOK, SentBy, LastSeen, SentByNoOther, Offset,
        Network!Now, At, Said
  <1> QED
    BY <1>2, <1>3, <1>4 DEF SnapshotInv

LEMMA RestartKeeps == ASSUME SnapshotInv, Network!Restart PROVE SnapshotInv'
  <1>1. /\ UNCHANGED <<log, property, handled, first, failures>>
        /\ UNCHANGED <<orderState, cancelled, publicKey, refundRow>>
        /\ checkpoint' = 0 /\ page' = <<>> /\ polling' = FALSE /\ seen' = {}
    BY DEF Network!Restart, Network!tables, Network!history
  <1>2. Network!Now' = Network!Now
    BY <1>1 DEF Network!Now
  <1>3. Network!TypeOK'
    <2>1. /\ {property, checkpoint', first} \subseteq 0..(MaxSnapshots + 2)
          /\ DOMAIN page' = {}
      BY <1>1, SnapshotConstants DEF SnapshotInv, Network!TypeOK
    <2>2. polling' \in BOOLEAN
      BY ONLY <1>1
    <2> QED
      BY <1>1, <2>1, <2>2 DEF SnapshotInv, Network!TypeOK
  <1>4. Network!NothingSkipped' /\ LogOK' /\ PageOK' /\ OrdersOK'
    <2>1. PageOK'
      BY <1>1 DEF PageOK
    <2> QED
      BY <1>1, <2>1 DEF SnapshotInv, Network!NothingSkipped, LogOK, OrdersOK, At, Said
  <1>5. CheckpointsOK'
    BY <1>1, <1>2 DEF SnapshotInv, CheckpointsOK
  <1>6. HandledOK' /\ SeenOK' /\ KeysOK'
    BY <1>1 DEF SnapshotInv, HandledOK, SeenOK, KeysOK, SentBy, LastSeen, At, Said
  <1> QED
    BY <1>3, <1>4, <1>5, <1>6 DEF SnapshotInv

\* In every reachable state, however pages, failed writes of the checkpoint, lost replies
\* and crashes interleave, the log of the network, the page of the poller, its
\* checkpoints, what it has handled and the tables fit together (PollMixinNetwork).
THEOREM SnapshotInvariance == PathSpec => []SnapshotInv
  <1>1. SnapshotInv /\ [PathNext]_pathVars => SnapshotInv'
    <2> SUFFICES ASSUME SnapshotInv, [PathNext]_pathVars PROVE SnapshotInv'
      OBVIOUS
    <2>1. CASE Network!Next
      <3>1. CASE \E c \in FewContent : Network!Arrive(c)
        BY <3>1, ArriveKeeps
      <3>2. CASE Network!PollMixinNetwork
        BY <3>2, RequestKeeps, SkipKeeps, ProcessKeeps, WriteTimeKeeps DEF Network!PollMixinNetwork
      <3>3. CASE \E i \in Network!Number : Network!FinishOrder(i) \/ Network!ExpireRefund(i)
        BY <3>3, FinishKeeps, ExpireKeeps
      <3>4. CASE Network!Restart
        BY <3>4, RestartKeeps
      <3> QED
        BY <2>1, <3>1, <3>2, <3>3, <3>4 DEF Network!Next
    <2>2. CASE \E c \in AnyContent : Network!Arrive(c)
      BY <2>2, ArriveKeeps
    <2>3. CASE UNCHANGED snapshotVars
      <3>1. /\ UNCHANGED <<log, property, checkpoint, page, polling, seen, handled, first, failures>>
            /\ UNCHANGED <<orderState, cancelled, publicKey, refundRow>>
        BY <2>3 DEF snapshotVars
      <3>2. Network!TypeOK' /\ Network!NothingSkipped' /\ LogOK' /\ PageOK' /\ HandledOK' /\ OrdersOK'
        BY <3>1
        DEF SnapshotInv, Network!TypeOK, Network!NothingSkipped, LogOK, PageOK, HandledOK, OrdersOK,
            At, Said
      <3>3. CheckpointsOK' /\ SeenOK' /\ KeysOK'
        BY <3>1
        DEF SnapshotInv, CheckpointsOK, SeenOK, KeysOK, SentBy, LastSeen, SentByNoOther, Offset,
            Network!Now, At, Said
      <3> QED
        BY <3>2, <3>3 DEF SnapshotInv
    <2> QED
      BY <2>1, <2>2, <2>3
      DEF PathNext, SnapshotStep, ClientStep, ActionStep, ListStep, MutexStep, MoneyStep, pathVars
  <1> QED
    BY SnapshotInit, <1>1, PTL DEF PathSpec

-----------------------------------------------------------------------------
(* What the runs check of the snapshots.                                   *)

LEMMA CancelsReach == SnapshotInv => Network!CancelsReachOrders
  <1> SUFFICES ASSUME SnapshotInv PROVE Network!CancelsReachOrders
    OBVIOUS
  <1>1. ASSUME NEW i \in handled,
               Network!Outcome(Said(i)) = "CANCEL",
               Network!Outcome(Said(Said(i).cancels)) = "ORDER", Said(Said(i).cancels).type = "LIMIT",
               Said(Said(i).cancels).opponent = Said(i).opponent,
               first # 0, At(Said(i).cancels) >= first
        PROVE  Said(i).cancels \in cancelled \/ orderState[Said(i).cancels] = "DONE"
    <2>1. Said(i).cancels \in 1..Len(log)
      BY <1>1, OutcomeFacts, SnapshotTypes DEF SnapshotInv
    <2>2. At(Said(i).cancels) \in Nat /\ first \in Nat
      BY <2>1, LogTypes, SnapshotTypes DEF SnapshotInv
    <2> QED
      BY <1>1, <2>2 DEF SnapshotInv, OrdersOK
  <1> QED
    BY <1>1 DEF Network!CancelsReachOrders, At, Said

LEMMA LastKeys == SnapshotInv => Network!LastKeyWins
  <1> SUFFICES ASSUME SnapshotInv, seen = DOMAIN log, ~ polling, NEW i \in DOMAIN log,
                      Network!Outcome(log[i].s) = "KEY",
                      \A j \in DOMAIN log :
                        Network!Outcome(log[j].s) = "KEY" /\ log[j].s.opponent = log[i].s.opponent => j <= i,
                      \A j \in DOMAIN log : log[j].s.key = log[i].s.key =>
                        Network!Outcome(log[j].s) = "KEY" /\ log[j].s.opponent = log[i].s.opponent
               PROVE  publicKey[log[i].s.opponent] = log[i].s.key
    BY DEF Network!LastKeyWins
  <1>1. DOMAIN log = 1..Len(log) /\ page = <<>>
    BY LogTypes, SnapshotTypes DEF SnapshotInv
  <1>2. PICK u \in User : u = Said(i).opponent
    BY <1>1, OutcomeFacts DEF SnapshotInv, Said
  <1>3. LastSeen(u, i) /\ SentByNoOther(u, Said(i).key)
    BY <1>1, <1>2 DEF LastSeen, SentByNoOther, SentBy, Said
  <1> QED
    BY <1>1, <1>2, <1>3 DEF SnapshotInv, KeysOK, Said

\* A full answer that is all seen has one created_at, if no write failed.
LEMMA Stalls == SnapshotInv => Network!StallNeedsFailedWrite
  <1> SUFFICES ASSUME SnapshotInv, property # 0, ~ polling, failures = 0,
                      Len(Network!Listed(property)) = PageLimit,
                      \A x \in DOMAIN Network!Listed(property) : Network!Listed(property)[x] \in seen
               PROVE  FALSE
    BY SnapshotTypes DEF Network!StallNeedsFailedWrite, Network!Stalled
  <1>1. PICK k \in 0..Len(log) :
          /\ k = Network!Before(property)
          /\ \A i \in 1..Len(log) : At(i) < property <=> i <= k
    BY SnapshotTypes, BeforeOffset DEF SnapshotInv
  <1>2. PICK n \in Nat : n = Network!Size(k) /\ k + n <= Len(log)
    BY <1>1, SnapshotTypes, SnapshotConstants DEF Network!Size
  <1>3. Network!Listed(property) = [x \in 1..n |-> k + x]
    BY <1>1, <1>2 DEF Network!Listed
  <1>4. PICK p : p = [x \in 1..n |-> k + x]
    OBVIOUS
  <1>5. DOMAIN p = 1..n /\ Len(p) = n /\ \A x \in 1..n : p[x] = k + x
    BY <1>1, <1>2, <1>4
  <1>6. n = PageLimit /\ \A x \in 1..n : k + x \in seen
    BY <1>3, <1>4, <1>5
  <1>7. ASSUME NEW i \in (k + 1)..(k + n) PROVE i \in 1..Len(log) /\ At(i) = property
    <2>1. i - k \in 1..n /\ k + (i - k) = i /\ i \in 1..Len(log) /\ ~ (i <= k)
      <3>1. PICK L \in Nat : L = Len(log) /\ k \in 0..L /\ k + n <= L
        BY <1>1, <1>2, SnapshotTypes
      <3> QED
        BY ONLY <1>2, <1>7, <3>1
    <2>2. i \in seen
      BY <1>6, <2>1
    <2>3. At(i) <= property /\ ~ (At(i) < property) /\ At(i) \in Nat
      BY <1>1, <2>1, <2>2, LogTypes DEF SnapshotInv, CheckpointsOK
    <2> QED
      BY <2>1, <2>3, SnapshotTypes
  <1>8. k + 1 \in (k + 1)..(k + n)
    BY <1>1, <1>2, <1>6, SnapshotConstants
  <1>9. PICK T : T = {j \in 1..Len(log) : At(j) = At(k + 1)}
    OBVIOUS
  <1>10. Cardinality(T) <= SnapshotTies
    BY <1>7, <1>8, <1>9 DEF SnapshotInv, LogOK
  <1>11. (k + 1)..(k + n) \subseteq T /\ T \subseteq 1..Len(log)
    BY <1>7, <1>8, <1>9
  <1>12. IsFiniteSet(T)
    <2>1. IsFiniteSet(1..Len(log))
      BY FS_Interval, SnapshotTypes
    <2> QED
      BY <1>11, <2>1, FS_Subset
  <1>13. Cardinality((k + 1)..(k + n)) = n
    BY <1>1, <1>2, <1>6, SnapshotConstants, FS_Interval
  <1>14. n <= Cardinality(T) /\ Cardinality(T) \in Nat
    BY <1>11, <1>12, <1>13, FS_Subset, FS_CardinalityType
  <1> QED
    BY <1>6, <1>10, <1>14, SnapshotConstants

\* However often snapshots are read again after crashes, failed writes and lost replies:
\* none is passed over, cancellations reach their orders, the last key of a user wins,
\* the poller does not get stuck unless a write failed, and no order comes back to life
\* (PollMixinNetwork, processSnapshot, CreateOrderAction).
THEOREM SnapshotsKept == PathSpec => SnapshotsAreKept
  <1>1. SnapshotInv => (part = "snapshots" =>
                          /\ Network!TypeOK
                          /\ Network!NothingSkipped
                          /\ Network!CancelsReachOrders
                          /\ Network!LastKeyWins
                          /\ Network!StallNeedsFailedWrite)
    BY CancelsReach, LastKeys, Stalls DEF SnapshotInv
  <1>2. SnapshotInv /\ [PathNext]_pathVars =>
          [\A i \in Network!Number : orderState[i] = "DONE" => orderState'[i] = "DONE"]_Network!vars
    <2> SUFFICES ASSUME SnapshotInv, [PathNext]_pathVars, NEW i \in Network!Number, orderState[i] = "DONE"
                 PROVE  orderState'[i] = "DONE"
      OBVIOUS
    <2>1. orderState \in [Network!Number -> {"ABSENT", "PENDING", "DONE"}]
      BY DEF SnapshotInv, Network!TypeOK
    <2>2. CASE UNCHANGED orderState
      BY <2>2
    <2>3. CASE \E n \in Network!Number : Network!FinishOrder(n)
      BY <2>1, <2>3 DEF Network!FinishOrder
    <2>4. CASE Network!ProcessSnapshot
      <3>1. page # <<>> /\ Network!Write(Head(page)) /\ Head(page) \in 1..Len(log)
        BY <2>4, TailOfPage DEF Network!ProcessSnapshot, Rest
      <3> QED
        BY <3>1, WriteEffect DEF Tables
    <2>5. CASE Network!Next
      BY <2>2, <2>3, <2>4, <2>5
      DEF Network!Next, Network!PollMixinNetwork, Network!Arrive, Network!RequestMixinNetwork,
          Network!SkipSeen, Network!WriteTimeProperty, Network!ExpireRefund, Network!Restart,
          Network!tables
    <2> QED
      BY <2>2, <2>5
      DEF PathNext, SnapshotStep, ClientStep, ActionStep, ListStep, MutexStep, MoneyStep, pathVars,
          snapshotVars, Network!Arrive, Network!tables
  <1> QED
    BY SnapshotInvariance, <1>1, <1>2, PTL DEF PathSpec, SnapshotsAreKept, Network!OrdersStayDone

-----------------------------------------------------------------------------
(* The orders that processSnapshot accepts.                                *)

\* A truncated quotient stays below a bound that is in whole steps.
LEMMA QuotientBound ==
    ASSUME NEW x \in Nat, NEW d \in Nat \ {0}
    PROVE  /\ x \div d \in Nat
           /\ \A m \in Nat : x <= m * d => x \div d <= m
  <1>1. x = d * (x \div d) + (x % d) /\ x % d \in 0..(d - 1)
    BY SMT
  <1>2. PICK q \in Int : q = x \div d
    BY SMT
  <1>3. q >= 0
    BY <1>2, SMT
  <1>4. ASSUME NEW m \in Nat, x <= m * d, q > m PROVE FALSE
    <2>1. q * d = m * d + (q - m) * d /\ q * d = d * q
      BY SMT
    <2>2. (q - m) * d >= d
      <3>1. (q - m) * d = d + (q - m - 1) * d
        BY SMT
      <3>2. (q - m - 1) * d >= 0
        BY <1>4, SMT
      <3>3. (q - m - 1) * d \in Int /\ (q - m) * d \in Int
        BY SMT
      <3> QED
        BY <3>1, <3>2, <3>3, SMT
    <2>3. m * d \in Int /\ (q - m) * d \in Int /\ q * d \in Int
      BY SMT
    <2> QED
      BY <1>1, <1>2, <1>4, <2>1, <2>2, <2>3, SMT
  <1> QED
    BY <1>2, <1>3, <1>4

\* What is true of a snapshot that becomes an order of the market with quote q.
Accepted(s, q) ==
    /\ s.type \in {"LIMIT", "MARKET"} /\ s.side \in {"ASK", "BID"}
    /\ q \in Network!Quote /\ PriceStep[q] \in Nat \ {0} /\ FundsStep[q] \in Nat \ {0}
    /\ QuoteMin[q] \in Nat \ {0}
    /\ s.price \in Nat /\ s.amount \in Nat
    /\ s.price <= MaxPrice * PriceStep[q]
    /\ (s.type = "LIMIT") # (Network!PriceOf(s, q) = 0)
    /\ s.side = "BID" => s.amount <= Network!MaxFunds * FundsStep[q] /\ Network!FundsOf(s, q) >= QuoteMin[q]
    /\ s.side = "ASK" => s.amount <= MaxAmount * AmountStep
    /\ s.side = "ASK" /\ s.type = "LIMIT" =>
         Network!PriceOf(s, q) * Network!AmountOf(s) >= QuoteMin[q]

LEMMA OrdersAccepted ==
    ASSUME NEW s \in Network!SnapshotRecord, Network!Outcome(s) = "ORDER",
           NEW q, q = Network!GetQuoteBasePair(s).quote
    PROVE  Accepted(s, q)
  <1>1. ~ Network!Rejected(s) /\ ~ Network!Exhausted(s.amount)
    BY DEF Network!Outcome, Network!Ignored
  <1>2. s.amount \in Int /\ s.price \in Nat
    BY DEF Network!SnapshotRecord
  <1>3. s.amount \in Nat
    BY <1>1, <1>2 DEF Network!Exhausted
  <1>4. s.type \in {"LIMIT", "MARKET"} /\ q # ""
    BY <1>1 DEF Network!Rejected
  <1>5. s.side \in {"ASK", "BID"} /\ q \in Network!Quote
    BY <1>4 DEF Network!GetQuoteBasePair, Network!NoPair
  <1>6. /\ PriceStep[q] \in Nat \ {0} /\ FundsStep[q] \in Nat \ {0} /\ QuoteMin[q] \in Nat \ {0}
        /\ AmountStep \in Nat \ {0} /\ MaxPrice \in Nat /\ MaxAmount \in Nat
    BY <1>5, SnapshotsAssumption DEF Network!IngestAssumption
  <1>7. /\ ~ (s.price > MaxPrice * PriceStep[q]) /\ ~ Network!WrongPrice(s, q)
        /\ ~ Network!TooMuch(s, q) /\ ~ Network!TooLittle(s, q)
    BY <1>1 DEF Network!Rejected
  <1>8. Network!MaxFunds \in Nat
    BY <1>6 DEF Network!MaxFunds
  <1>9. Network!PriceOf(s, q) \in Nat /\ Network!FundsOf(s, q) \in Nat /\ Network!AmountOf(s) \in Nat
    BY <1>2, <1>3, <1>6, QuotientBound DEF Network!PriceOf, Network!FundsOf, Network!AmountOf
  <1>10. s.price <= MaxPrice * PriceStep[q]
    BY <1>2, <1>6, <1>7
  <1>11. (s.type = "LIMIT") # (Network!PriceOf(s, q) = 0)
    BY <1>7 DEF Network!WrongPrice
  <1>12. s.side = "BID" =>
           s.amount <= Network!MaxFunds * FundsStep[q] /\ Network!FundsOf(s, q) >= QuoteMin[q]
    BY <1>3, <1>6, <1>7, <1>8, <1>9 DEF Network!TooMuch, Network!TooLittle
  <1>13. s.side = "ASK" => s.amount <= MaxAmount * AmountStep
    BY <1>3, <1>6, <1>7 DEF Network!TooMuch
  <1>14. s.side = "ASK" /\ s.type = "LIMIT" =>
           Network!PriceOf(s, q) * Network!AmountOf(s) >= QuoteMin[q]
    BY <1>6, <1>7, <1>9 DEF Network!TooLittle
  <1> QED
    BY <1>2, <1>3, <1>4, <1>5, <1>6, <1>10, <1>11, <1>12, <1>13, <1>14 DEF Accepted

\* Truncation included, such an order is one the engine may be given.
LEMMA AcceptedIsPlacement ==
    ASSUME NEW s \in Network!SnapshotRecord, Network!Outcome(s) = "ORDER",
           NEW q, q = Network!GetQuoteBasePair(s).quote
    PROVE  Network!NewOrder(s) \in Network!Market(q)!Placement
  <1>1. Accepted(s, q)
    BY OrdersAccepted
  <1>2. AmountStep \in Nat \ {0} /\ MaxPrice \in Nat /\ MaxAmount \in Nat
    BY SnapshotsAssumption DEF Network!IngestAssumption
  <1>3. PICK p \in Nat : p = Network!PriceOf(s, q) /\ p <= MaxPrice
    BY <1>1, <1>2, QuotientBound DEF Accepted, Network!PriceOf
  <1>4. PICK a \in Nat : a = Network!AmountOf(s) /\ (s.side = "ASK" => a <= MaxAmount)
    BY <1>1, <1>2, QuotientBound DEF Accepted, Network!AmountOf
  <1>5. Network!MaxFunds \in Nat
    BY <1>2 DEF Network!MaxFunds
  <1>6. PICK f \in Nat : f = Network!FundsOf(s, q) /\ (s.side = "BID" => f <= Network!MaxFunds)
    BY <1>1, <1>5, QuotientBound DEF Accepted, Network!FundsOf
  <1>7. PICK r : r = Network!NewOrder(s)
    OBVIOUS
  <1>8. r = [side |-> s.side, type |-> s.type, price |-> p,
             remainingAmount |-> IF s.side = "ASK" THEN a ELSE 0, filledAmount |-> 0,
             remainingFunds |-> IF s.side = "BID" THEN f ELSE 0, filledFunds |-> 0]
    BY <1>3, <1>4, <1>6, <1>7 DEF Network!NewOrder
  <1>9. /\ s.type = "LIMIT" => p \in 1..MaxPrice
        /\ s.type = "MARKET" => p = 0
    BY <1>1, <1>2, <1>3 DEF Accepted
  <1>10. /\ s.side = "ASK" => a \in 0..MaxAmount
         /\ s.side = "BID" => f \in 0..Network!MaxFunds /\ f >= QuoteMin[q]
         /\ s.side = "ASK" /\ s.type = "LIMIT" => p * a >= QuoteMin[q]
    BY <1>1, <1>2, <1>3, <1>4, <1>5, <1>6 DEF Accepted
  <1>11. s.type \in {"LIMIT", "MARKET"} /\ s.side \in {"ASK", "BID"}
    BY <1>1 DEF Accepted
  <1> QED
    BY <1>7, <1>8, <1>9, <1>10, <1>11 DEF Network!Market!Placement

\* Of two different quotes exactly one may be the quote of the other.
LEMMA OneOrder ==
    ASSUME NEW q \in Network!Quote, NEW b \in Network!Quote, q # b, ~ Network!Reversed(q, b)
    PROVE  Network!Reversed(b, q)
  BY DEF Network!Quote, Network!Reversed

\* The pair of an accepted order is a market, and the pair turned round is none.
LEMMA PairOfOrder ==
    ASSUME NEW s \in Network!SnapshotRecord, Network!Outcome(s) = "ORDER",
           NEW p, p = Network!GetQuoteBasePair(s)
    PROVE  /\ p.quote \in Network!Quote /\ p.quote # p.base
           /\ p.base \notin Network!Quote \/ Network!Reversed(p.base, p.quote)
  <1>1. p.quote # ""
    BY DEF Network!Outcome, Network!Ignored, Network!Rejected
  <1>2. PICK quote, base : /\ p = [quote |-> quote, base |-> base]
                           /\ quote \in Network!Quote /\ quote # base
                           /\ ~ Network!Reversed(quote, base)
    BY <1>1 DEF Network!GetQuoteBasePair, Network!NoPair
  <1> QED
    BY <1>2, OneOrder

\* The turned pair is none whoever asks for it, on whichever side.
LEMMA TurnedRound ==
    ASSUME NEW p, p.quote # p.base,
           p.base \notin Network!Quote \/ Network!Reversed(p.base, p.quote),
           NEW side \in {"ASK", "BID"}, NEW back, back.side = side,
           back.asset = IF side = "ASK" THEN p.quote ELSE p.base,
           back.other = IF side = "ASK" THEN p.base ELSE p.quote
    PROVE  Network!GetQuoteBasePair(back) = Network!NoPair
  BY DEF Network!GetQuoteBasePair

\* Whatever a snapshot carries, an order that processSnapshot accepts is one the engine
\* may be given, truncation of its decimals included, and no two accepted orders trade
\* the same two assets the two ways round (getQuoteBasePair).
THEOREM OrdersFit == PathSpec => []OrdersFitTheEngine
  <1>1. SnapshotInv => Network!AcceptedOrdersAreBookOrders
    <2> SUFFICES ASSUME SnapshotInv, NEW i \in Network!OrdersReceived
                 PROVE  Network!NewOrder(log[i].s) \in
                          Network!Market(Network!PairOf(i).quote)!Placement
      BY DEF Network!AcceptedOrdersAreBookOrders
    <2>1. log[i].s \in Network!SnapshotRecord /\ Network!Outcome(log[i].s) = "ORDER"
      BY LogTypes DEF SnapshotInv, Network!OrdersReceived, Said
    <2> QED
      BY <2>1, AcceptedIsPlacement DEF Network!PairOf
  <1>2. SnapshotInv => Network!OnePairOneMarket
    <2> SUFFICES ASSUME SnapshotInv, NEW i \in Network!OrdersReceived, NEW side \in {"ASK", "BID"},
                        NEW p, p = Network!PairOf(i),
                        NEW back,
                        back = [log[i].s EXCEPT
                                  !.side = side,
                                  !.asset = IF side = "ASK" THEN p.quote ELSE p.base,
                                  !.other = IF side = "ASK" THEN p.base ELSE p.quote]
                 PROVE  Network!GetQuoteBasePair(back) = Network!NoPair
      BY DEF Network!OnePairOneMarket
    <2>1. log[i].s \in Network!SnapshotRecord /\ Network!Outcome(log[i].s) = "ORDER"
      BY LogTypes DEF SnapshotInv, Network!OrdersReceived, Said
    <2>2. /\ p.quote # p.base
          /\ p.base \notin Network!Quote \/ Network!Reversed(p.base, p.quote)
      BY <2>1, PairOfOrder DEF Network!PairOf
    <2>3. /\ back.side = side
          /\ back.asset = IF side = "ASK" THEN p.quote ELSE p.base
          /\ back.other = IF side = "ASK" THEN p.base ELSE p.quote
      BY <2>1 DEF Network!SnapshotRecord
    <2> QED
      BY <2>2, <2>3, TurnedRound
  <1>3. SnapshotInv => OrdersFitTheEngine
    BY <1>1, <1>2 DEF SnapshotInv, OrdersFitTheEngine
  <1> QED
    BY SnapshotInvariance, <1>3, PTL
-----------------------------------------------------------------------------
(* The forms and the server of the example: what an order asks for on its   *)
(* form is what the exchange reads off its transfer.                        *)

\* Products of naturals grow with their factors, and a factor may be cancelled.
LEMMA Products ==
    ASSUME NEW m \in Nat, NEW n \in Nat, NEW d \in Nat
    PROVE  /\ m * d \in Nat /\ m * d = d * m
           /\ m <= n => m * d <= n * d
           /\ m < n => m * d + d <= n * d
           /\ d # 0 /\ m * d <= n * d => m <= n
  <1>1. /\ m * d \in Int /\ n * d \in Int /\ (n - m) * d \in Int /\ (m - n) * d \in Int
        /\ (n - m) * d = n * d - m * d /\ m * d = d * m
        /\ (n - m) * d = (n - m - 1) * d + d /\ (n - m - 1) * d \in Int
        /\ (m - n - 1) * d \in Int /\ (m - n) * d = (m - n - 1) * d + d
        /\ (m - n) * d = m * d - n * d
    BY SMT
  <1>2. \A k \in Nat : k * d >= 0
    BY SMT
  <1>3. m * d >= 0
    BY <1>2
  <1>4. m <= n => m * d <= n * d
    <2> SUFFICES ASSUME m <= n PROVE m * d <= n * d
      OBVIOUS
    <2>1. (n - m) * d >= 0
      <3>1. n - m \in Nat
        OBVIOUS
      <3> QED
        BY <3>1, <1>2
    <2> QED
      BY <1>1, <2>1
  <1>5. m < n => m * d + d <= n * d
    <2> SUFFICES ASSUME m < n PROVE m * d + d <= n * d
      OBVIOUS
    <2>1. (n - m - 1) * d >= 0
      <3>1. n - m - 1 \in Nat
        OBVIOUS
      <3> QED
        BY <3>1, <1>2
    <2> QED
      BY <1>1, <2>1
  <1>6. d # 0 /\ m * d <= n * d => m <= n
    <2> SUFFICES ASSUME d # 0, m > n PROVE m * d > n * d
      BY <1>1
    <2>1. (m - n - 1) * d >= 0
      <3>1. m - n - 1 \in Nat
        OBVIOUS
      <3> QED
        BY <3>1, <1>2
    <2> QED
      BY <1>1, <2>1
  <1> QED
    BY <1>1, <1>3, <1>4, <1>5, <1>6

\* A truncated quotient, and what truncation takes.
LEMMA Quotient ==
    ASSUME NEW x \in Nat, NEW d \in Nat \ {0}
    PROVE  /\ x \div d \in Nat /\ (x \div d) * d \in Nat
           /\ x - (x \div d) * d \in 0..(d - 1)
           /\ x % d = 0 => x = (x \div d) * d
  <1>1. x = d * (x \div d) + (x % d) /\ x % d \in 0..(d - 1)
    BY SMT
  <1>2. PICK q \in Int : q = x \div d
    BY SMT
  <1>3. q >= 0
    BY <1>2, SMT
  <1>4. q * d = d * q /\ q * d \in Nat
    BY <1>3, Products
  <1> QED
    BY <1>1, <1>2, <1>3, <1>4

LEMMA WholeQuotient ==
    ASSUME NEW n \in Nat, NEW d \in Nat \ {0}
    PROVE  (n * d) \div d = n
  <1>1. n * d \in Nat
    BY Products
  <1>2. PICK q \in Nat : q = (n * d) \div d /\ n * d - q * d \in 0..(d - 1) /\ q * d \in Nat
    BY <1>1, Quotient
  <1>3. q <= n
    BY <1>1, <1>2, Products
  <1>4. ~ (q < n)
    <2>1. q < n => q * d + d <= n * d
      BY <1>2, Products
    <2> QED
      BY <2>1, <1>1, <1>2
  <1> QED
    BY <1>2, <1>3, <1>4
\* The choices of constants that the code justifies.
Fits(c) == Client(c)!IngestAssumption /\ Client(c)!ClientAssumption

LEMMA ClientConstants ==
    ASSUME NEW c, Fits(c)
    PROVE  /\ c.scale \in Nat \ {0} /\ c.maxSubmits \in Nat \ {0} /\ c.amountStep \in Nat \ {0}
           /\ c.clientFundsStep \in Nat \ {0} /\ c.maxPrice \in Nat /\ c.maxAmount \in Nat
           /\ c.formMaxAmount \in Nat /\ c.formMaxAmount <= c.maxAmount * c.amountStep
           /\ \A q \in {"XIN", "BTC", "USDT"} :
                /\ c.priceStep[q] \in Nat \ {0} /\ c.fundsStep[q] \in Nat \ {0}
                /\ c.quoteMin[q] \in Nat \ {0}
                /\ c.formMinFunds[q] \in Nat /\ c.formMaxPrice[q] \in Nat
                /\ c.amountStep * c.priceStep[q] = c.fundsStep[q] * c.scale
                /\ c.clientFundsStep % c.fundsStep[q] = 0
                /\ c.formMinFunds[q] % c.clientFundsStep = 0
                /\ c.formMinFunds[q] >= c.quoteMin[q] * c.fundsStep[q]
                /\ c.formMaxPrice[q] <= c.maxPrice * c.priceStep[q]
  <1>1. /\ c.scale \in Nat \ {0} /\ c.maxSubmits \in Nat \ {0} /\ c.amountStep \in Nat \ {0}
        /\ c.clientFundsStep \in Nat \ {0} /\ c.maxPrice \in Nat /\ c.maxAmount \in Nat
        /\ c.formMaxAmount \in Nat /\ c.formMaxAmount <= c.maxAmount * c.amountStep
    BY DEF Fits, Client!IngestAssumption, Client!ClientAssumption
  <1>2. ASSUME NEW q \in {"XIN", "BTC", "USDT"}
        PROVE  /\ c.priceStep[q] \in Nat \ {0} /\ c.fundsStep[q] \in Nat \ {0}
               /\ c.quoteMin[q] \in Nat \ {0}
               /\ c.formMinFunds[q] \in Nat /\ c.formMaxPrice[q] \in Nat
    BY <1>2 DEF Fits, Client!IngestAssumption, Client!ClientAssumption, Client!Quote
  <1>3. ASSUME NEW q \in {"XIN", "BTC", "USDT"}
        PROVE  /\ c.amountStep * c.priceStep[q] = c.fundsStep[q] * c.scale
               /\ c.clientFundsStep % c.fundsStep[q] = 0
               /\ c.formMinFunds[q] % c.clientFundsStep = 0
               /\ c.formMinFunds[q] >= c.quoteMin[q] * c.fundsStep[q]
               /\ c.formMaxPrice[q] <= c.maxPrice * c.priceStep[q]
    BY <1>3 DEF Fits, Client!ClientAssumption, Client!Quote
  <1> QED
    BY <1>1, <1>2, <1>3

\* RoundFloor leaves a whole number of steps.
LEMMA Floored ==
    ASSUME NEW c, NEW x \in Nat, NEW step \in Nat \ {0}
    PROVE  /\ Client(c)!Floor(x, step) \in Nat
           /\ Client(c)!Floor(x, step) = (x \div step) * step
           /\ x - Client(c)!Floor(x, step) \in 0..(step - 1)
           /\ Client(c)!Floor(x, step) \div step = x \div step
  <1>1. PICK n \in Nat : n = x \div step
    BY Quotient
  <1>2. PICK f : f = n * step
    OBVIOUS
  <1>3. f \in Nat /\ x - f \in 0..(step - 1)
    BY <1>1, <1>2, Quotient
  <1>4. f \div step = n
    BY <1>2, WholeQuotient
  <1>5. Client(c)!Floor(x, step) = f
    BY <1>1, <1>2 DEF Client!Floor
  <1> QED
    BY <1>1, <1>2, <1>3, <1>4, <1>5

\* They are a whole number of any finer step too.
LEMMA FlooredFinely ==
    ASSUME NEW c, NEW x \in Nat, NEW step \in Nat \ {0}, NEW fine \in Nat \ {0}, step % fine = 0
    PROVE  Client(c)!Floor(x, step) = (Client(c)!Floor(x, step) \div fine) * fine
  <1>1. PICK n \in Nat : n = x \div step
    BY Quotient
  <1>2. PICK k \in Nat : step = k * fine
    BY Quotient
  <1>3. n * k \in Nat /\ n * (k * fine) = (n * k) * fine
    BY <1>2, SMT
  <1>4. PICK f : f = Client(c)!Floor(x, step)
    OBVIOUS
  <1>5. f = (n * k) * fine
    BY <1>1, <1>2, <1>3, <1>4, Floored
  <1>6. f \div fine = n * k
    BY <1>3, <1>5, WholeQuotient
  <1> QED
    BY <1>4, <1>5, <1>6

\* RoundFloor keeps the order with whole numbers of steps.
LEMMA FlooredAbove ==
    ASSUME NEW x \in Nat, NEW step \in Nat \ {0}, NEW y \in Nat, y <= x, y % step = 0
    PROVE  y <= (x \div step) * step
  <1>1. PICK n \in Nat : n = x \div step
    BY Quotient
  <1>2. PICK k \in Nat : y = k * step
    BY Quotient
  <1>3. n * step \in Nat /\ k * step \in Nat /\ x - n * step \in 0..(step - 1)
    BY <1>1, Quotient, Products
  <1>4. ~ (n < k)
    <2>1. n < k => n * step + step <= k * step
      BY Products
    <2> QED
      BY <1>2, <1>3, <2>1
  <1> QED
    BY <1>1, <1>2, <1>4, Products

\* What the exchange reads in the transfer s of the request for o.
Reads(c, s, o) ==
    /\ s.side = o.side /\ s.type = o.type
    /\ o.side \in {"BID", "ASK"} /\ o.type \in {"LIMIT", "MARKET"}
    /\ o.quote \in {"XIN", "BTC", "USDT"}
    /\ Client(c)!GetQuoteBasePair(s) = [quote |-> o.quote, base |-> o.base]
    /\ s.price = Client(c)!PriceSent(o) /\ s.amount = Client(c)!AmountSent(o)
    /\ s.price \in Nat /\ s.amount \in Nat
    /\ Client(c)!PriceOf(s, o.quote) = o.price \div c.priceStep[o.quote]
    /\ s.price = Client(c)!PriceOf(s, o.quote) * c.priceStep[o.quote]
    /\ Client(c)!PriceOf(s, o.quote) \in Nat

LEMMA OrderRead ==
    ASSUME NEW c, Fits(c), NEW o \in Client(c)!Asked, ~ Client(c)!BadData(o), NEW t \in Nat \ {0},
           NEW s, s = Client(c)!OrderTransfer(o, t)
    PROVE  /\ Reads(c, s, o)
           /\ s.trace = t /\ s.cancels = 0
           /\ ~ Client(c)!Ignored(s) /\ s.decodes /\ s.key = NoKey
           /\ s.other # s.asset /\ ~ Client(c)!WrongPrice(s, o.quote)
  <1> DEFINE q == o.quote
  <1>1. /\ o.quote \in c.asset /\ o.base \in c.asset
        /\ o.price \in Nat /\ o.amount \in Nat /\ o.funds \in Nat
    BY DEF Client!Asked
  <1>2. /\ Client(c)!ValidateQuoteBase(o.quote, o.base)
        /\ o.type \in {"LIMIT", "MARKET"} /\ o.side \in {"BID", "ASK"}
        /\ ~ (o.type = "LIMIT" /\ Client(c)!PriceSent(o) = 0)
        /\ ~ (o.type = "MARKET" /\ Client(c)!PriceSent(o) # 0)
        /\ Client(c)!AmountSent(o) # 0
    BY DEF Client!BadData
  <1>3. /\ o.quote # o.base /\ o.quote \in {"XIN", "BTC", "USDT"}
        /\ ~ Client(c)!Reversed(o.quote, o.base)
    BY <1>2
    DEF Client!ValidateQuoteBase, Client!Quote, Client!ReversedClient, Client!Reversed
  <1>4. /\ c.priceStep[q] \in Nat \ {0} /\ c.amountStep \in Nat \ {0}
        /\ c.clientFundsStep \in Nat \ {0}
    BY <1>3, ClientConstants
  <1>5. PICK b \in Broker : b = CHOOSE x \in Broker : TRUE
    BY DEF Fits, Client!ClientAssumption
  <1>6. PICK u \in User : u = Client(c)!Me
    BY DEF Fits, Client!ClientAssumption, Client!Me
  <1>7. PICK p \in Nat : /\ p = Client(c)!PriceSent(o)
                         /\ p \div c.priceStep[q] = o.price \div c.priceStep[q]
                         /\ p = (o.price \div c.priceStep[q]) * c.priceStep[q]
    <2>1. PICK f : f = Client(c)!Floor(o.price, c.priceStep[q])
      OBVIOUS
    <2>2. PICK step \in Nat \ {0} : step = c.priceStep[q]
      BY <1>4
    <2>3. f = Client(c)!Floor(o.price, step)
      BY <2>1, <2>2
    <2>4. f \in Nat /\ f = (o.price \div step) * step /\ f \div step = o.price \div step
      BY <1>1, <2>3, Floored
    <2>5. Client(c)!PriceSent(o) = f
      BY <2>1 DEF Client!PriceSent
    <2> QED
      BY <2>2, <2>4, <2>5
  <1>8. PICK a \in Nat : a = Client(c)!AmountSent(o)
    <2>1. PICK f \in Nat : f = Client(c)!Floor(o.funds, c.clientFundsStep)
      BY <1>1, <1>4, Floored
    <2>2. PICK g \in Nat : g = Client(c)!Floor(o.amount, c.amountStep)
      BY <1>1, <1>4, Floored
    <2> QED
      BY <2>1, <2>2 DEF Client!AmountSent
  <1>9. s = [broker |-> b, opponent |-> u, trace |-> t,
             asset |-> IF o.side = "BID" THEN o.quote ELSE o.base, amount |-> a,
             decodes |-> TRUE, key |-> NoKey, cancels |-> 0,
             other |-> IF o.side = "BID" THEN o.base ELSE o.quote, type |-> o.type,
             side |-> o.side, price |-> p]
    BY <1>5, <1>6, <1>7, <1>8 DEF Client!OrderTransfer, Client!Transfer, Client!NoSnapshot
  <1>10. /\ s.side = o.side /\ s.type = o.type /\ s.trace = t /\ s.cancels = 0
         /\ s.decodes = TRUE /\ s.key = NoKey /\ s.price = p /\ s.amount = a
         /\ s.broker = b /\ s.opponent = u
         /\ s.asset = (IF o.side = "BID" THEN o.quote ELSE o.base)
         /\ s.other = (IF o.side = "BID" THEN o.base ELSE o.quote)
    BY <1>9
  <1>11. Client(c)!GetQuoteBasePair(s) = [quote |-> o.quote, base |-> o.base]
    BY <1>2, <1>3, <1>10 DEF Client!GetQuoteBasePair, Client!Quote
  <1>12. a > 0
    BY <1>2, <1>8
  <1>13. ~ Client(c)!Ignored(s)
    <2>1. u # NoUser
      BY <1>6 DEF Fits, Client!IngestAssumption
    <2> QED
      BY <1>8, <1>10, <1>12, <2>1 DEF Client!Ignored, Client!Exhausted, Client!NoSnapshot
  <1>14. PICK n \in Nat : n = o.price \div c.priceStep[q]
    BY <1>1, <1>4, Quotient
  <1>15. Client(c)!PriceOf(s, q) = n /\ p = n * c.priceStep[q]
    BY <1>7, <1>10, <1>14 DEF Client!PriceOf
  <1>16. (n = 0) = (p = 0)
    BY <1>4, <1>14, <1>15, Products
  <1>17. ~ Client(c)!WrongPrice(s, q)
    BY <1>2, <1>7, <1>10, <1>15, <1>16 DEF Client!WrongPrice
  <1>18. s.other # s.asset
    BY <1>2, <1>3, <1>10
  <1> QED
    BY <1>2, <1>3, <1>7, <1>8, <1>10, <1>11, <1>13, <1>14, <1>15, <1>17, <1>18 DEF Reads

LEMMA OutcomeRead ==
    ASSUME NEW c, NEW s, NEW o, Reads(c, s, o), ~ Client(c)!Ignored(s), s.decodes, s.key = NoKey,
           s.cancels = 0, s.other # s.asset, ~ Client(c)!WrongPrice(s, o.quote)
    PROVE  Client(c)!Outcome(s) =
             IF \/ s.price > c.maxPrice * c.priceStep[o.quote]
                \/ Client(c)!TooMuch(s, o.quote) \/ Client(c)!TooLittle(s, o.quote)
             THEN "REFUND" ELSE "ORDER"
  <1>1. Client(c)!GetQuoteBasePair(s).quote = o.quote /\ o.quote # ""
    <2>1. /\ Client(c)!GetQuoteBasePair(s) = [quote |-> o.quote, base |-> o.base]
          /\ o.quote \in {"XIN", "BTC", "USDT"}
      BY DEF Reads
    <2>2. PICK g : g = Client(c)!GetQuoteBasePair(s)
      OBVIOUS
    <2>3. g.quote = o.quote
      BY <2>1, <2>2
    <2>4. o.quote # ""
      BY <2>1
    <2> QED
      BY <2>2, <2>3, <2>4
  <1>2. Client(c)!Rejected(s) <=>
          \/ s.price > c.maxPrice * c.priceStep[o.quote]
          \/ Client(c)!TooMuch(s, o.quote) \/ Client(c)!TooLittle(s, o.quote)
    BY <1>1 DEF Client!Rejected, Reads
  <1> QED
    BY <1>2 DEF Client!Outcome, Client!NoSnapshot

\* The amount of an ask, and the funds of a bid, in units of the exchange.
LEMMA UnitsRead ==
    ASSUME NEW c, Fits(c), NEW o \in Client(c)!Asked, NEW s, Reads(c, s, o)
    PROVE  /\ o.side = "ASK" =>
                /\ Client(c)!AmountOf(s) \in Nat /\ s.amount <= o.amount
                /\ o.amount - Client(c)!AmountOf(s) * c.amountStep \in 0..(c.amountStep - 1)
           /\ o.side = "BID" =>
                /\ Client(c)!FundsOf(s, o.quote) \in Nat
                /\ s.amount = Client(c)!FundsOf(s, o.quote) * c.fundsStep[o.quote]
                /\ o.funds - s.amount \in 0..(c.clientFundsStep - 1)
                /\ \A y \in Nat : y <= o.funds /\ y % c.clientFundsStep = 0 => y <= s.amount
  <1>1. o.amount \in Nat /\ o.funds \in Nat
    BY DEF Client!Asked
  <1>2. PICK step \in Nat \ {0} : step = c.amountStep
    BY ClientConstants
  <1>3. PICK coarse \in Nat \ {0} : coarse = c.clientFundsStep
    BY ClientConstants
  <1>4. PICK unit \in Nat \ {0} : unit = c.fundsStep[o.quote] /\ coarse % unit = 0
    BY <1>3, ClientConstants DEF Reads
  <1>5. ASSUME o.side = "ASK"
        PROVE  /\ Client(c)!AmountOf(s) \in Nat /\ s.amount <= o.amount
               /\ o.amount - Client(c)!AmountOf(s) * c.amountStep \in 0..(c.amountStep - 1)
    <2>1. s.amount = Client(c)!Floor(o.amount, step)
      BY <1>2, <1>5 DEF Reads, Client!AmountSent
    <2>2. s.amount \in Nat /\ o.amount - s.amount \in 0..(step - 1)
          /\ s.amount = (o.amount \div step) * step /\ s.amount \div step = o.amount \div step
      <3>1. PICK x \in Nat : x = o.amount
        BY <1>1
      <3>2. /\ Client(c)!Floor(x, step) \in Nat /\ x - Client(c)!Floor(x, step) \in 0..(step - 1)
            /\ Client(c)!Floor(x, step) = (x \div step) * step
            /\ Client(c)!Floor(x, step) \div step = x \div step
        BY Floored
      <3> QED
        BY <2>1, <3>1, <3>2
    <2>3. Client(c)!AmountOf(s) = o.amount \div step
      BY <1>2, <2>2 DEF Client!AmountOf
    <2>4. o.amount \div step \in Nat
      BY <1>1, Quotient
    <2>5. s.amount <= o.amount
      BY <1>1, <2>2
    <2> QED
      BY <1>2, <2>2, <2>3, <2>4, <2>5
  <1>6. ASSUME o.side = "BID"
        PROVE  /\ Client(c)!FundsOf(s, o.quote) \in Nat
               /\ s.amount = Client(c)!FundsOf(s, o.quote) * c.fundsStep[o.quote]
               /\ o.funds - s.amount \in 0..(c.clientFundsStep - 1)
               /\ \A y \in Nat : y <= o.funds /\ y % c.clientFundsStep = 0 => y <= s.amount
    <2>1. s.amount = Client(c)!Floor(o.funds, coarse)
      BY <1>3, <1>6 DEF Reads, Client!AmountSent
    <2>2. s.amount \in Nat /\ o.funds - s.amount \in 0..(coarse - 1)
          /\ s.amount = (o.funds \div coarse) * coarse
      <3>1. PICK x \in Nat : x = o.funds
        BY <1>1
      <3>2. /\ Client(c)!Floor(x, coarse) \in Nat
            /\ x - Client(c)!Floor(x, coarse) \in 0..(coarse - 1)
            /\ Client(c)!Floor(x, coarse) = (x \div coarse) * coarse
        BY Floored
      <3> QED
        BY <2>1, <3>1, <3>2
    <2>3. PICK n \in Nat : n = o.funds \div coarse
      BY <1>1, Quotient
    <2>4. s.amount = (s.amount \div unit) * unit
      BY <1>1, <1>4, <2>1, FlooredFinely
    <2>5. s.amount \div unit \in Nat
      BY <2>2, Quotient
    <2>6. \A y \in Nat : y <= o.funds /\ y % coarse = 0 => y <= s.amount
      BY <1>1, <2>2, FlooredAbove
    <2>7. Client(c)!FundsOf(s, o.quote) = s.amount \div unit
      BY <1>4 DEF Client!FundsOf
    <2> QED
      BY <1>3, <1>4, <2>2, <2>4, <2>5, <2>6, <2>7
  <1> QED
    BY <1>5, <1>6

\* PlacedAsEntered, of one order.
LEMMA EnteredIsPlaced ==
    ASSUME NEW c, Fits(c), NEW o \in Client(c)!Asked, NEW s, Reads(c, s, o),
           NEW n, n = Client(c)!NewOrder(s)
    PROVE  /\ n.side = o.side /\ n.type = o.type
           /\ o.price - n.price * c.priceStep[o.quote] \in 0..(c.priceStep[o.quote] - 1)
           /\ o.side = "ASK" =>
                o.amount - n.remainingAmount * c.amountStep \in 0..(c.amountStep - 1)
           /\ o.side = "BID" =>
                o.funds - n.remainingFunds * c.fundsStep[o.quote] \in 0..(c.clientFundsStep - 1)
  <1>1. n = [side |-> s.side, type |-> s.type, price |-> Client(c)!PriceOf(s, o.quote),
             remainingAmount |-> IF s.side = "ASK" THEN Client(c)!AmountOf(s) ELSE 0,
             filledAmount |-> 0,
             remainingFunds |-> IF s.side = "BID" THEN Client(c)!FundsOf(s, o.quote) ELSE 0,
             filledFunds |-> 0]
    BY DEF Reads, Client!NewOrder
  <1>2. PICK step \in Nat \ {0} : step = c.priceStep[o.quote]
    BY ClientConstants DEF Reads
  <1>3. o.price \in Nat
    BY DEF Client!Asked
  <1>4. n.price = o.price \div step
    BY <1>1, <1>2 DEF Reads
  <1>5. o.price - n.price * step \in 0..(step - 1)
    BY <1>2, <1>3, <1>4, Quotient
  <1>6. ASSUME o.side = "ASK"
        PROVE  o.amount - n.remainingAmount * c.amountStep \in 0..(c.amountStep - 1)
    <2>1. n.remainingAmount = Client(c)!AmountOf(s)
      BY <1>1, <1>6 DEF Reads
    <2>2. o.amount - Client(c)!AmountOf(s) * c.amountStep \in 0..(c.amountStep - 1)
      BY <1>6, UnitsRead
    <2> QED
      BY <2>1, <2>2
  <1>7. ASSUME o.side = "BID"
        PROVE  o.funds - n.remainingFunds * c.fundsStep[o.quote] \in 0..(c.clientFundsStep - 1)
    <2>1. n.remainingFunds = Client(c)!FundsOf(s, o.quote)
      BY <1>1, <1>7 DEF Reads
    <2>2. /\ s.amount = Client(c)!FundsOf(s, o.quote) * c.fundsStep[o.quote]
          /\ o.funds - s.amount \in 0..(c.clientFundsStep - 1)
      BY <1>7, UnitsRead
    <2> QED
      BY <2>1, <2>2
  <1> QED
    BY <1>1, <1>2, <1>5, <1>6, <1>7 DEF Reads

\* A LIMIT bid that the server lets through pays for a unit at its price.
LEMMA BidPays ==
    ASSUME NEW c, Fits(c), NEW o \in Client(c)!Asked, NEW s, Reads(c, s, o),
           ~ Client(c)!BuysNothing(o), o.side = "BID", o.type = "LIMIT",
           ~ Client(c)!WrongPrice(s, o.quote)
    PROVE  Client(c)!NewOrder(s).remainingFunds >= Client(c)!NewOrder(s).price
  <1>1. PICK n \in Nat : /\ n = Client(c)!FundsOf(s, o.quote)
                         /\ s.amount = n * c.fundsStep[o.quote]
    BY UnitsRead
  <1>2. PICK p \in Nat : /\ p = Client(c)!PriceOf(s, o.quote)
                         /\ s.price = p * c.priceStep[o.quote]
    BY DEF Reads
  <1>3. PICK step \in Nat \ {0} : step = c.priceStep[o.quote]
    BY ClientConstants DEF Reads
  <1>4. PICK unit \in Nat \ {0} : unit = c.fundsStep[o.quote]
    BY ClientConstants DEF Reads
  <1>5. PICK scale \in Nat \ {0} : scale = c.scale
    BY ClientConstants
  <1>6. PICK least \in Nat \ {0} : least = c.amountStep
    BY ClientConstants
  <1>7. least * step = unit * scale
    BY <1>3, <1>4, <1>5, <1>6, ClientConstants DEF Reads
  <1>8. p # 0
    BY <1>2 DEF Reads, Client!WrongPrice
  <1>9. p * step \in Nat /\ p * step > 0
    <2>1. 0 * step + step <= p * step /\ p * step \in Nat
      BY <1>8, Products
    <2> QED
      BY <2>1
  <1>10. ~ ((s.amount * scale) \div s.price < least)
    <2>1. s.price > 0
      BY <1>2, <1>3, <1>9
    <2> QED
      BY <1>5, <1>6, <2>1 DEF Reads, Client!BuysNothing
  <1>11. (n * unit) * scale \in Nat /\ (n * unit) * scale = n * (unit * scale)
    BY SMT
  <1>12. ~ (((n * unit) * scale) \div (p * step) < least)
    BY <1>1, <1>2, <1>3, <1>4, <1>10
  <1>13. PICK whole \in Nat : /\ whole = ((n * unit) * scale) \div (p * step)
                              /\ whole * (p * step) <= (n * unit) * scale
    <2>1. PICK x \in Nat : x = (n * unit) * scale
      BY <1>11
    <2>2. PICK d \in Nat \ {0} : d = p * step
      BY <1>9
    <2>3. x \div d \in Nat /\ (x \div d) * d \in Nat /\ x - (x \div d) * d \in 0..(d - 1)
      BY <2>1, <2>2, Quotient
    <2>4. (x \div d) * d <= x
      BY <2>1, <2>2, <2>3
    <2> QED
      BY <2>1, <2>2, <2>3, <2>4
  <1>14. least * (p * step) <= whole * (p * step)
    BY <1>9, <1>12, <1>13, Products
  <1>15. least * (p * step) = p * (unit * scale)
    <2>1. least * (p * step) = p * (least * step)
      BY SMT
    <2> QED
      BY <1>7, <2>1
  <1>16. unit * scale \in Nat /\ unit * scale # 0
    BY SMT
  <1>17. p * (unit * scale) <= n * (unit * scale)
    <2>1. PICK d \in Nat : d = unit * scale
      BY <1>16
    <2>2. p * d \in Nat /\ n * d \in Nat
      BY Products
    <2>3. whole * (p * step) \in Nat
      BY <1>9, <1>13, Products
    <2> QED
      BY <1>11, <1>13, <1>14, <1>15, <2>1, <2>2, <2>3
  <1>18. p <= n
    BY <1>16, <1>17, Products
  <1>19. Client(c)!NewOrder(s).price = p /\ Client(c)!NewOrder(s).remainingFunds = n
    BY <1>1, <1>2 DEF Reads, Client!NewOrder
  <1> QED
    BY <1>18, <1>19

\* What an ask of the page loses to truncation is less than a unit of each.
LEMMA AskReaches ==
    ASSUME NEW c, Fits(c), NEW o \in Client(c)!Asked, NEW s, Reads(c, s, o),
           o.side = "ASK", o.type = "LIMIT", Client(c)!ValidateOrder(o)
    PROVE  (Client(c)!PriceOf(s, o.quote) + 1) * (Client(c)!AmountOf(s) + 1) > c.quoteMin[o.quote]
  <1>1. PICK p \in Nat : p = Client(c)!PriceOf(s, o.quote)
    BY DEF Reads
  <1>2. PICK a \in Nat : /\ a = Client(c)!AmountOf(s)
                         /\ o.amount - a * c.amountStep \in 0..(c.amountStep - 1)
    BY UnitsRead
  <1>3. PICK step \in Nat \ {0} : step = c.priceStep[o.quote]
    BY ClientConstants DEF Reads
  <1>4. PICK unit \in Nat \ {0} : unit = c.fundsStep[o.quote]
    BY ClientConstants DEF Reads
  <1>5. PICK scale \in Nat \ {0} : scale = c.scale
    BY ClientConstants
  <1>6. PICK least \in Nat \ {0} : least = c.amountStep
    BY ClientConstants
  <1>7. PICK m \in Nat : m = c.quoteMin[o.quote]
    BY ClientConstants DEF Reads
  <1>8. PICK f \in Nat : f = c.formMinFunds[o.quote] /\ m * unit <= f
    BY <1>4, <1>7, ClientConstants DEF Reads
  <1>9. least * step = unit * scale
    BY <1>3, <1>4, <1>5, <1>6, ClientConstants DEF Reads
  <1>10. PICK x \in Nat : x = o.amount
    BY DEF Client!Asked
  <1>11. PICK y \in Nat : y = o.price
    BY DEF Client!Asked
  <1>12. ~ (x * y < f * scale)
    BY <1>5, <1>8, <1>10, <1>11 DEF Client!ValidateOrder, Client!TooSmall
  <1>13. x + 1 <= (a + 1) * least
    <2>1. (a + 1) * least = a * least + least /\ a * least \in Nat
      BY SMT
    <2> QED
      BY <1>2, <1>6, <1>10, <2>1
  <1>14. y + 1 <= (p + 1) * step
    <2>1. (p + 1) * step = p * step + step /\ p * step \in Nat
      BY SMT
    <2>2. p = y \div step
      BY <1>1, <1>3, <1>11 DEF Reads
    <2>3. y - p * step \in 0..(step - 1)
      BY <2>2, Quotient
    <2> QED
      BY <2>1, <2>3
  <1>15. ASSUME (p + 1) * (a + 1) <= m PROVE FALSE
    <2>1. /\ x * y \in Nat /\ (x + 1) * (y + 1) = x * y + x + y + 1
          /\ (x + 1) * (y + 1) \in Nat
      BY SMT
    <2>2. PICK h \in Nat : h = (a + 1) * least
      BY SMT
    <2>3. PICK k \in Nat : k = (p + 1) * step
      BY SMT
    <2>4. (x + 1) * (y + 1) <= h * k
      <3>1. (x + 1) * (y + 1) <= h * (y + 1)
        BY <1>13, <2>2, Products
      <3>2. (y + 1) * h <= k * h
        BY <1>14, <2>3, Products
      <3>3. h * (y + 1) = (y + 1) * h /\ h * k = k * h /\ h * k \in Nat /\ h * (y + 1) \in Nat
        BY SMT
      <3> QED
        BY <2>1, <3>1, <3>2, <3>3
    <2>5. h * k = ((p + 1) * (a + 1)) * (least * step)
      <3>1. ((a + 1) * least) * ((p + 1) * step) = ((p + 1) * (a + 1)) * (least * step)
        BY SMT
      <3> QED
        BY <2>2, <2>3, <3>1
    <2>6. PICK w \in Nat : w = (p + 1) * (a + 1)
      BY SMT
    <2>7. PICK d \in Nat : d = unit * scale
      BY SMT
    <2>8. h * k <= m * d
      <3>1. w * d <= m * d
        BY <1>15, <2>6, Products
      <3> QED
        BY <1>9, <2>5, <2>6, <2>7, <3>1
    <2>9. m * d <= f * scale
      <3>1. m * (unit * scale) = (m * unit) * scale /\ m * unit \in Nat
        BY SMT
      <3>2. (m * unit) * scale <= f * scale
        BY <1>8, <3>1, Products
      <3> QED
        BY <2>7, <3>1, <3>2
    <2>10. h * k \in Nat /\ m * d \in Nat /\ f * scale \in Nat
      BY SMT
    <2> QED
      BY <1>12, <2>1, <2>4, <2>8, <2>9, <2>10
  <1>16. (p + 1) * (a + 1) \in Nat
    BY SMT
  <1> QED
    BY <1>1, <1>2, <1>7, <1>15, <1>16

\* What a form of the page lets through is not too large, and the funds of a bid suffice.
LEMMA FormFits ==
    ASSUME NEW c, Fits(c), NEW o \in Client(c)!Asked, NEW s, Reads(c, s, o),
           Client(c)!ValidateOrder(o), ~ Client(c)!WrongPrice(s, o.quote)
    PROVE  /\ s.price <= c.maxPrice * c.priceStep[o.quote]
           /\ ~ Client(c)!TooMuch(s, o.quote)
           /\ o.side = "BID" \/ o.type = "MARKET" => ~ Client(c)!TooLittle(s, o.quote)
  <1>1. PICK step \in Nat \ {0} : step = c.priceStep[o.quote]
    BY ClientConstants DEF Reads
  <1>2. PICK unit \in Nat \ {0} : unit = c.fundsStep[o.quote]
    BY ClientConstants DEF Reads
  <1>3. PICK scale \in Nat \ {0} : scale = c.scale
    BY ClientConstants
  <1>4. PICK least \in Nat \ {0} : least = c.amountStep
    BY ClientConstants
  <1>5. PICK mp \in Nat : mp = c.maxPrice
    BY ClientConstants
  <1>6. PICK ma \in Nat : ma = c.maxAmount
    BY ClientConstants
  <1>7. PICK fp \in Nat : fp = c.formMaxPrice[o.quote] /\ fp <= mp * step
    BY <1>1, <1>5, ClientConstants DEF Reads
  <1>8. PICK fa \in Nat : fa = c.formMaxAmount /\ fa <= ma * least
    BY <1>4, <1>6, ClientConstants
  <1>9. PICK qm \in Nat : qm = c.quoteMin[o.quote]
    BY ClientConstants DEF Reads
  <1>10. /\ o.price \in Nat /\ o.amount \in Nat /\ o.funds \in Nat /\ s.price \in Nat /\ s.amount \in Nat
         /\ s.side = o.side /\ s.type = o.type
    BY DEF Client!Asked, Reads
  <1>11. mp * step \in Nat /\ ma * least \in Nat
    BY Products
  <1>12. s.price <= mp * step
    <2>1. PICK p \in Nat : p = Client(c)!PriceOf(s, o.quote) /\ s.price = p * step /\ p = o.price \div step
      BY <1>1 DEF Reads
    <2>2. CASE o.type = "LIMIT"
      <3>1. o.price <= fp
        BY <1>7, <1>10, <2>2 DEF Client!ValidateOrder, Client!TooLarge
      <3>2. o.price - p * step \in 0..(step - 1) /\ p * step \in Nat
        BY <1>10, <2>1, Quotient
      <3> QED
        BY <1>7, <1>10, <1>11, <2>1, <3>1, <3>2
    <2>3. CASE o.type # "LIMIT"
      <3>1. p = 0
        BY <1>10, <2>1, <2>3 DEF Client!WrongPrice
      <3>2. s.price = 0
        BY <2>1, <3>1
      <3> QED
        BY <1>11, <3>2
    <2> QED
      BY <2>2, <2>3
  <1>13. ASSUME o.side = "BID"
         PROVE  s.amount <= (mp * ma) * unit /\ ~ (Client(c)!FundsOf(s, o.quote) < qm)
    <2>1. PICK x \in Nat : x = o.funds
      BY <1>10
    <2>2. ~ (x * scale > fp * fa)
      BY <1>3, <1>7, <1>8, <1>13, <2>1 DEF Client!ValidateOrder, Client!TooLarge
    <2>3. fp * fa <= (mp * step) * (ma * least)
      <3>1. fp * fa <= (mp * step) * fa
        BY <1>7, <1>11, Products
      <3>2. fa * (mp * step) <= (ma * least) * (mp * step)
        BY <1>8, <1>11, Products
      <3>3. /\ (mp * step) * fa = fa * (mp * step)
            /\ (mp * step) * (ma * least) = (ma * least) * (mp * step)
        BY SMT
      <3>4. fp * fa \in Nat /\ fa * (mp * step) \in Nat /\ (ma * least) * (mp * step) \in Nat
        BY SMT
      <3> QED
        BY <3>1, <3>2, <3>3, <3>4
    <2>4. (mp * step) * (ma * least) = ((mp * ma) * unit) * scale
      <3>1. (mp * step) * (ma * least) = (mp * ma) * (least * step)
        BY SMT
      <3>2. least * step = unit * scale
        BY <1>1, <1>2, <1>3, <1>4, ClientConstants DEF Reads
      <3>3. (mp * ma) * (unit * scale) = ((mp * ma) * unit) * scale
        BY SMT
      <3> QED
        BY <3>1, <3>2, <3>3
    <2>5. (mp * ma) * unit \in Nat
      BY SMT
    <2>6. x * scale <= ((mp * ma) * unit) * scale
      <3>1. x * scale \in Nat /\ fp * fa \in Nat /\ ((mp * ma) * unit) * scale \in Nat
        BY SMT
      <3> QED
        BY <2>2, <2>3, <2>4, <3>1
    <2>7. x <= (mp * ma) * unit
      BY <2>5, <2>6, Products
    <2>8. /\ s.amount = Client(c)!FundsOf(s, o.quote) * unit
          /\ Client(c)!FundsOf(s, o.quote) \in Nat
          /\ o.funds - s.amount \in 0..(c.clientFundsStep - 1)
          /\ \A y \in Nat : y <= o.funds /\ y % c.clientFundsStep = 0 => y <= s.amount
      BY <1>2, <1>13, UnitsRead
    <2>9. s.amount <= x
      BY <1>10, <2>1, <2>8, ClientConstants
    <2>10. PICK f \in Nat : /\ f = c.formMinFunds[o.quote]
                            /\ f % c.clientFundsStep = 0 /\ qm * unit <= f
      BY <1>2, <1>9, ClientConstants DEF Reads
    <2>11. f <= o.funds
      BY <1>10, <1>13, <2>10 DEF Client!ValidateOrder, Client!TooSmall
    <2>12. f <= s.amount
      BY <2>8, <2>10, <2>11
    <2>13. PICK n \in Nat : n = Client(c)!FundsOf(s, o.quote) /\ s.amount = n * unit
      BY <2>8
    <2>14. qm <= n
      <3>1. qm * unit \in Nat /\ n * unit \in Nat
        BY Products
      <3>2. qm * unit <= n * unit
        BY <2>10, <2>12, <2>13, <3>1
      <3> QED
        BY <3>2, Products
    <2> QED
      BY <1>10, <2>1, <2>5, <2>7, <2>9, <2>13, <2>14
  <1>14. ASSUME o.side = "ASK" PROVE s.amount <= ma * least
    <2>1. o.amount <= fa
      BY <1>8, <1>10, <1>14 DEF Client!ValidateOrder, Client!TooLarge
    <2>2. s.amount <= o.amount
      BY <1>14, UnitsRead
    <2> QED
      BY <1>8, <1>10, <1>11, <2>1, <2>2
  <1>15. ~ Client(c)!TooMuch(s, o.quote)
    <2>1. (mp * ma) * unit \in Nat
      BY SMT
    <2>2. ~ (s.side = "BID" /\ s.amount > (mp * ma) * unit)
      BY <1>10, <1>13, <2>1
    <2>3. ~ (s.side = "ASK" /\ s.amount > ma * least)
      BY <1>10, <1>11, <1>14
    <2> QED
      BY <1>2, <1>4, <1>5, <1>6, <2>2, <2>3 DEF Client!TooMuch, Client!MaxFunds
  <1>16. o.side = "BID" \/ o.type = "MARKET" => ~ Client(c)!TooLittle(s, o.quote)
    BY <1>9, <1>10, <1>13 DEF Client!TooLittle
  <1> QED
    BY <1>1, <1>5, <1>12, <1>15, <1>16

LEMMA CancelRead ==
    ASSUME NEW c, Fits(c), NEW t \in Nat \ {0}, NEW i \in Nat \ {0},
           NEW s, s = Client(c)!CancelTransfer(t, i)
    PROVE  Client(c)!Outcome(s) = "CANCEL" /\ s.cancels = i /\ s.trace = t
  <1>1. PICK b \in Broker : b = CHOOSE x \in Broker : TRUE
    BY DEF Fits, Client!ClientAssumption
  <1>2. PICK u \in User : u = Client(c)!Me
    BY DEF Fits, Client!ClientAssumption, Client!Me
  <1>3. PICK a \in Nat \ {0} : a = c.clientFundsStep
    BY ClientConstants
  <1>4. s = [broker |-> b, opponent |-> u, trace |-> t, asset |-> c.ooo, amount |-> a,
             decodes |-> TRUE, key |-> NoKey, cancels |-> i,
             other |-> "", type |-> "", side |-> "", price |-> 0]
    BY <1>1, <1>2, <1>3 DEF Client!CancelTransfer, Client!Transfer, Client!NoSnapshot
  <1>5. /\ s.broker = b /\ s.opponent = u /\ s.trace = t /\ s.amount = a
        /\ s.decodes = TRUE /\ s.key = NoKey /\ s.cancels = i
    BY ONLY <1>4
  <1>6. ~ Client(c)!Ignored(s)
    <2>1. u # NoUser
      BY <1>2 DEF Fits, Client!IngestAssumption
    <2> QED
      BY <1>3, <1>5, <2>1 DEF Client!Ignored, Client!Exhausted, Client!NoSnapshot
  <1> QED
    BY <1>5, <1>6 DEF Client!Outcome, Client!NoSnapshot

-----------------------------------------------------------------------------
(* What the transfers at the network are.                                  *)

LEMMA FormsAreNotEmpty ==
    ASSUME NEW c
    PROVE  <<>> \notin Client(c)!Form
  BY DEF Client!Form

LEMMA TracesOfRequests ==
    ASSUME NEW c, Fits(c), ClientInv(c), NEW r \in AllRequests
    PROVE  /\ r.order \in Client(c)!Asked /\ r.trace \in Nat \ {0}
           /\ r.no \in Nat \ {0} /\ r.trace \in 1..(3 * c.maxSubmits)
           /\ r.from \in Client(c)!Form => r.trace = r.intent + 1 /\ r.trace \in 1..(2 * c.maxSubmits)
           /\ r.from \notin Client(c)!Form => r.trace = 2 * c.maxSubmits + r.no
           /\ r.intent \in 0..done \/ r.from \notin Client(c)!Form
  <1>1. PICK m \in Nat : m = c.maxSubmits
    BY ClientConstants
  <1>2. /\ trace \in 1..(2 * m) /\ sent \in 0..m /\ done = trace - 1
    BY <1>1 DEF ClientInv, ClientCounts, Client!TypeOK
  <1>3. IdsOK(c, r) /\ r.order \in Client(c)!Asked
    BY DEF ClientInv, RequestsOK
  <1>4. r.no \in 1..sent
    BY <1>3 DEF IdsOK
  <1>5. CASE r.from = <<>>
    <2>1. r.trace = 2 * m + r.no /\ r.from \notin Client(c)!Form
      BY <1>1, <1>3, <1>5, FormsAreNotEmpty DEF IdsOK
    <2> QED
      BY <1>1, <1>2, <1>3, <1>4, <2>1
  <1>6. CASE r.from # <<>>
    <2>1. r.from \in Client(c)!Form /\ r.intent \in 0..done /\ r.trace = r.intent + 1
      BY <1>3, <1>6 DEF IdsOK
    <2>2. r.trace \in 1..(2 * m) /\ r.trace \in 1..(3 * m) /\ r.trace \in Nat \ {0}
      BY <1>2, <2>1
    <2> QED
      BY <1>1, <1>2, <1>3, <1>4, <2>1, <2>2
  <1> QED
    BY <1>5, <1>6

LEMMA TransfersRead ==
    ASSUME NEW c, Fits(c), ClientInv(c), NEW x \in network
    PROVE  /\ x.request \in AllRequests
           /\ IsOrder(c, x) => x.s.cancels = 0 /\ x.s.trace = x.request.trace
           /\ IsCancel(c, x) =>
                /\ x.s.cancels = x.request.trace /\ x.s.cancels # 0
                /\ x.s.trace = 3 * c.maxSubmits + x.request.no
                /\ Client(c)!Outcome(x.s) = "CANCEL"
           /\ IsOrder(c, x) \/ IsCancel(c, x)
  <1>1. x.request \in AllRequests
    BY DEF AllRequests
  <1>2. PICK t \in Nat \ {0} : t = x.request.trace
    BY <1>1, TracesOfRequests
  <1>3. PICK o \in Client(c)!Asked : o = x.request.order
    BY <1>1, TracesOfRequests
  <1>4. ASSUME IsOrder(c, x) PROVE x.s.cancels = 0 /\ x.s.trace = x.request.trace
    <2>1. x.s = Client(c)!OrderTransfer(o, t) /\ ~ Client(c)!BadData(o)
      BY <1>2, <1>3, <1>4 DEF IsOrder
    <2> QED
      BY <1>2, <2>1, OrderRead
  <1>5. ASSUME IsCancel(c, x)
        PROVE  /\ x.s.cancels = x.request.trace /\ x.s.cancels # 0
               /\ x.s.trace = 3 * c.maxSubmits + x.request.no
               /\ Client(c)!Outcome(x.s) = "CANCEL"
    <2>1. PICK k \in Nat \ {0} : k = 3 * c.maxSubmits + x.request.no
      BY <1>1, TracesOfRequests, ClientConstants
    <2>2. x.s = Client(c)!CancelTransfer(k, t)
      BY <1>2, <1>5, <2>1 DEF IsCancel
    <2>3. Client(c)!Outcome(x.s) = "CANCEL" /\ x.s.cancels = t /\ x.s.trace = k
      BY <2>2, CancelRead
    <2> QED
      BY <1>2, <2>1, <2>3
  <1> QED
    BY <1>1, <1>4, <1>5 DEF ClientInv, NetworkOK

\* The three ways an order may be read.
LEMMA OrderOutcome ==
    ASSUME NEW c, Fits(c), ClientInv(c), NEW x \in network, IsOrder(c, x),
           NEW o, o = x.request.order, NEW s, s = x.s
    PROVE  /\ o \in Client(c)!Asked /\ Reads(c, s, o)
           /\ ~ Client(c)!WrongPrice(s, o.quote) /\ ~ Client(c)!BuysNothing(o)
           /\ Client(c)!Outcome(s) =
                IF \/ s.price > c.maxPrice * c.priceStep[o.quote]
                   \/ Client(c)!TooMuch(s, o.quote) \/ Client(c)!TooLittle(s, o.quote)
                THEN "REFUND" ELSE "ORDER"
           /\ x.request.from \in Client(c)!Form => Client(c)!ValidateOrder(o)
  <1>1. x.request \in AllRequests
    BY DEF AllRequests
  <1>2. PICK t \in Nat \ {0} : t = x.request.trace
    BY <1>1, TracesOfRequests
  <1>3. o \in Client(c)!Asked
    BY <1>1, TracesOfRequests
  <1>4. s = Client(c)!OrderTransfer(o, t) /\ ~ Client(c)!BadData(o)
    BY <1>2 DEF IsOrder
  <1>5. /\ Reads(c, s, o) /\ s.cancels = 0
        /\ ~ Client(c)!Ignored(s) /\ s.decodes /\ s.key = NoKey
        /\ s.other # s.asset /\ ~ Client(c)!WrongPrice(s, o.quote)
    BY <1>3, <1>4, OrderRead
  <1>6. ~ Client(c)!BuysNothing(o)
    BY <1>4 DEF Client!BadData
  <1>7. x.request.from \in Client(c)!Form => Client(c)!ValidateOrder(o)
    BY <1>1, FormsAreNotEmpty DEF ClientInv, RequestsOK
  <1>8. Client(c)!Outcome(s) =
          IF \/ s.price > c.maxPrice * c.priceStep[o.quote]
             \/ Client(c)!TooMuch(s, o.quote) \/ Client(c)!TooLittle(s, o.quote)
          THEN "REFUND" ELSE "ORDER"
    BY <1>5, OutcomeRead
  <1> QED
    BY <1>3, <1>5, <1>6, <1>7, <1>8

LEMMA OrdersAreOrders ==
    ASSUME NEW c, Fits(c), ClientInv(c), NEW x \in Client(c)!Orders
    PROVE  x \in network /\ IsOrder(c, x)
  BY TransfersRead DEF Client!Orders, Client!NoSnapshot

LEMMA ValuesAreRight ==
    ASSUME NEW c, Fits(c), ClientInv(c)
    PROVE  /\ Client(c)!PlacedAsEntered /\ Client(c)!RefundedOnlyForSize
           /\ Client(c)!NearlyEnough /\ Client(c)!BidBuysAUnit
  <1>1. Client(c)!PlacedAsEntered
    <2> SUFFICES ASSUME NEW x \in Client(c)!Orders, Client(c)!Outcome(x.s) = "ORDER",
                        NEW o, o = x.request.order, NEW n, n = Client(c)!NewOrder(x.s)
                 PROVE  /\ Client(c)!GetQuoteBasePair(x.s) = [quote |-> o.quote, base |-> o.base]
                        /\ n.side = o.side /\ n.type = o.type
                        /\ o.price - n.price * c.priceStep[o.quote] \in 0..(c.priceStep[o.quote] - 1)
                        /\ o.side = "ASK" =>
                             o.amount - n.remainingAmount * c.amountStep \in 0..(c.amountStep - 1)
                        /\ o.side = "BID" =>
                             o.funds - n.remainingFunds * c.fundsStep[o.quote]
                               \in 0..(c.clientFundsStep - 1)
      BY DEF Client!PlacedAsEntered
    <2>1. x \in network /\ IsOrder(c, x)
      BY OrdersAreOrders
    <2>2. o \in Client(c)!Asked /\ Reads(c, x.s, o)
      BY <2>1, OrderOutcome
    <2>3. Client(c)!GetQuoteBasePair(x.s) = [quote |-> o.quote, base |-> o.base]
      BY <2>2 DEF Reads
    <2> QED
      BY <2>2, <2>3, EnteredIsPlaced
  <1>2. Client(c)!RefundedOnlyForSize
    <2> SUFFICES ASSUME NEW x \in network
                 PROVE  \/ Client(c)!Outcome(x.s) = IF x.s.cancels = 0 THEN "ORDER" ELSE "CANCEL"
                        \/ Client(c)!TooLittle(x.s, x.request.order.quote)
                        \/ /\ x.request.from \notin Client(c)!Form
                           /\ \/ Client(c)!TooMuch(x.s, x.request.order.quote)
                              \/ x.s.price > c.maxPrice * c.priceStep[x.request.order.quote]
      BY DEF Client!RefundedOnlyForSize, Client!NoSnapshot
    <2>1. CASE IsCancel(c, x)
      BY <2>1, TransfersRead
    <2>2. CASE IsOrder(c, x)
      <3>1. PICK o : o = x.request.order
        OBVIOUS
      <3>2. x.s.cancels = 0
        BY <2>2, TransfersRead
      <3>3. /\ o \in Client(c)!Asked /\ Reads(c, x.s, o) /\ ~ Client(c)!WrongPrice(x.s, o.quote)
            /\ Client(c)!Outcome(x.s) =
                 IF \/ x.s.price > c.maxPrice * c.priceStep[o.quote]
                    \/ Client(c)!TooMuch(x.s, o.quote) \/ Client(c)!TooLittle(x.s, o.quote)
                 THEN "REFUND" ELSE "ORDER"
            /\ x.request.from \in Client(c)!Form => Client(c)!ValidateOrder(o)
        BY <2>2, <3>1, OrderOutcome
      <3>4. x.request.from \in Client(c)!Form =>
              /\ x.s.price <= c.maxPrice * c.priceStep[o.quote]
              /\ ~ Client(c)!TooMuch(x.s, o.quote)
        BY <3>3, FormFits
      <3>5. x.s.price \in Nat /\ c.maxPrice * c.priceStep[o.quote] \in Nat
        BY <3>3, ClientConstants, Products DEF Reads
      <3>6. x.s.price <= c.maxPrice * c.priceStep[o.quote] =>
              ~ (x.s.price > c.maxPrice * c.priceStep[o.quote])
        BY <3>5
      <3> QED
        BY <3>1, <3>2, <3>3, <3>4, <3>6
    <2> QED
      BY <2>1, <2>2, TransfersRead
  <1>3. Client(c)!NearlyEnough
    <2> SUFFICES ASSUME NEW x \in Client(c)!Orders, NEW o, o = x.request.order,
                        x.request.from \in Client(c)!Form, Client(c)!Outcome(x.s) = "REFUND"
                 PROVE  /\ o.type = "LIMIT" /\ o.side = "ASK"
                        /\ (Client(c)!PriceOf(x.s, o.quote) + 1) * (Client(c)!AmountOf(x.s) + 1)
                             > c.quoteMin[o.quote]
      BY DEF Client!NearlyEnough
    <2>1. x \in network /\ IsOrder(c, x)
      BY OrdersAreOrders
    <2>2. /\ o \in Client(c)!Asked /\ Reads(c, x.s, o) /\ ~ Client(c)!WrongPrice(x.s, o.quote)
          /\ Client(c)!ValidateOrder(o)
          /\ \/ x.s.price > c.maxPrice * c.priceStep[o.quote]
             \/ Client(c)!TooMuch(x.s, o.quote) \/ Client(c)!TooLittle(x.s, o.quote)
      BY <2>1, OrderOutcome
    <2>3. /\ x.s.price <= c.maxPrice * c.priceStep[o.quote]
          /\ ~ Client(c)!TooMuch(x.s, o.quote)
          /\ o.side = "BID" \/ o.type = "MARKET" => ~ Client(c)!TooLittle(x.s, o.quote)
      BY <2>2, FormFits
    <2>4. x.s.price \in Nat /\ c.maxPrice * c.priceStep[o.quote] \in Nat
      BY <2>2, ClientConstants, Products DEF Reads
    <2>5. ~ (x.s.price > c.maxPrice * c.priceStep[o.quote])
      BY <2>3, <2>4
    <2>6. o.side # "BID" /\ o.type # "MARKET"
      BY <2>2, <2>3, <2>5
    <2>7. o.side = "ASK" /\ o.type = "LIMIT"
      BY <2>2, <2>6 DEF Reads
    <2> QED
      BY <2>2, <2>7, AskReaches
  <1>4. Client(c)!BidBuysAUnit
    <2> SUFFICES ASSUME NEW x \in Client(c)!Orders, x.s.side = "BID", x.s.type = "LIMIT"
                 PROVE  Client(c)!NewOrder(x.s).remainingFunds >= Client(c)!NewOrder(x.s).price
      BY DEF Client!BidBuysAUnit
    <2>1. PICK o : o = x.request.order
      OBVIOUS
    <2>2. x \in network /\ IsOrder(c, x)
      BY OrdersAreOrders
    <2>3. /\ o \in Client(c)!Asked /\ Reads(c, x.s, o) /\ ~ Client(c)!WrongPrice(x.s, o.quote)
          /\ ~ Client(c)!BuysNothing(o)
      BY <2>1, <2>2, OrderOutcome
    <2>4. o.side = "BID" /\ o.type = "LIMIT"
      BY <2>3 DEF Reads
    <2> QED
      BY <2>3, <2>4, BidPays
  <1> QED
    BY <1>1, <1>2, <1>3, <1>4

\* An id at the network is of one order, and an id of a form of one success.
LEMMA RetriesAreRight ==
    ASSUME NEW c, Fits(c), ClientInv(c)
    PROVE  Client(c)!OneOrderPerSuccess /\ Client(c)!SuccessMeansPlaced
  <1>1. Client(c)!OneOrderPerSuccess
    <2> SUFFICES ASSUME NEW x \in Client(c)!Orders, NEW y \in Client(c)!Orders,
                        x.request.from \in Client(c)!Form, y.request.from \in Client(c)!Form,
                        x.request.intent = y.request.intent
                 PROVE  x = y
      BY DEF Client!OneOrderPerSuccess
    <2>1. x \in network /\ IsOrder(c, x) /\ y \in network /\ IsOrder(c, y)
      BY OrdersAreOrders
    <2>2. /\ x.request \in AllRequests /\ x.s.trace = x.request.trace
          /\ y.request \in AllRequests /\ y.s.trace = y.request.trace
      BY <2>1, TransfersRead
    <2>3. x.request.trace = x.request.intent + 1 /\ y.request.trace = y.request.intent + 1
      BY <2>2, TracesOfRequests
    <2>4. x.s.trace = y.s.trace
      BY <2>2, <2>3
    <2> QED
      BY <2>1, <2>4 DEF ClientInv, ClientCounts, Client!TypeOK
  <1>2. Client(c)!SuccessMeansPlaced
    <2> SUFFICES ASSUME NEW r \in success
                 PROVE  \E x \in Client(c)!Orders :
                          \/ x.s = Client(c)!OrderTransfer(r.order, r.trace)
                          \/ x.s.trace = r.trace /\ x.request.intent = r.intent
      BY DEF Client!SuccessMeansPlaced
    <2>1. PICK x \in network : IsOrder(c, x) /\ x.s.trace = r.trace
      BY DEF ClientInv, SuccessOK
    <2>2. /\ x.request \in AllRequests /\ x.s.trace = x.request.trace /\ x \in Client(c)!Orders
      BY <2>1, TransfersRead DEF Client!Orders, Client!NoSnapshot
    <2>3. r \in AllRequests
      BY DEF AllRequests
    <2>4. PICK m \in Nat : m = c.maxSubmits
      BY ClientConstants
    <2>5. CASE r.from \in Client(c)!Form
      <3>1. r.trace = r.intent + 1 /\ r.trace \in 1..(2 * m) /\ r.intent \in 0..done
        BY <2>3, <2>4, <2>5, TracesOfRequests
      <3>2. x.request.from \in Client(c)!Form
        <4>1. x.request.from \notin Client(c)!Form =>
                x.request.trace = 2 * m + x.request.no /\ x.request.no \in Nat \ {0}
          BY <2>2, <2>4, TracesOfRequests
        <4> QED
          BY <2>1, <2>2, <2>4, <3>1, <4>1
      <3>3. x.request.trace = x.request.intent + 1 /\ x.request.intent \in 0..done
        BY <2>2, <3>2, TracesOfRequests
      <3>4. x.request.intent = r.intent
        <4>1. done \in Nat
          BY DEF ClientInv, ClientCounts, Client!TypeOK
        <4>2. x.request.intent + 1 = r.intent + 1
          BY <2>1, <2>2, <3>1, <3>3
        <4>3. x.request.intent \in Int /\ r.intent \in Int
          BY <3>1, <3>3, <4>1
        <4> QED
          BY <4>2, <4>3
      <3> QED
        BY <2>1, <2>2, <3>4
    <2>6. CASE r.from \notin Client(c)!Form
      <3>1. r.trace = 2 * m + r.no /\ r.no \in Nat \ {0}
        BY <2>3, <2>4, <2>6, TracesOfRequests
      <3>2. x.request.from \notin Client(c)!Form
        <4>1. x.request.from \in Client(c)!Form => x.request.trace \in 1..(2 * m)
          BY <2>2, <2>4, TracesOfRequests
        <4>2. x.request.trace = 2 * m + r.no
          BY <2>1, <2>2, <3>1
        <4>3. 2 * m + r.no \notin 1..(2 * m)
          BY <2>4, <3>1
        <4> QED
          BY <4>1, <4>2, <4>3
      <3>3. x.request.trace = 2 * m + x.request.no /\ x.request.no \in Nat \ {0}
        BY <2>2, <2>4, <3>2, TracesOfRequests
      <3>4. x.request.no = r.no
        <4>1. 2 * m + x.request.no = 2 * m + r.no
          BY <2>1, <2>2, <3>1, <3>3
        <4> QED
          BY <2>4, <3>1, <3>3, <4>1
      <3>5. x.request = r
        BY <2>2, <2>3, <3>4 DEF ClientInv, RequestsOK
      <3> QED
        BY <2>1, <2>2, <3>5 DEF IsOrder
    <2> QED
      BY <2>5, <2>6
  <1> QED
    BY <1>1, <1>2

LEMMA PlacedFollows ==
    ASSUME NEW c, Fits(c), ClientInv(c)
    PROVE  Placed(c)
  <1>1. Client(c)!TypeOK
    BY DEF ClientInv, ClientCounts
  <1> QED
    BY <1>1, ValuesAreRight, RetriesAreRight DEF Placed

-----------------------------------------------------------------------------
(* The invariant of the forms and the server.                              *)

LEMMA ClientStarts ==
    ASSUME NEW c, Fits(c), Client(c)!Init PROVE ClientInv(c)
  <1>1. /\ trace = 1 /\ waiting = [f \in Client(c)!Form |-> 0] /\ requests = {} /\ sent = 0
        /\ network = {} /\ success = {} /\ done = 0
    BY DEF Client!Init
  <1>2. PICK m \in Nat \ {0} : m = c.maxSubmits
    BY ClientConstants
  <1>3. Client(c)!TypeOK
    <2>1. waiting \in [Client(c)!Form -> 0..sent]
      BY <1>1
    <2>2. trace \in 1..(2 * m) /\ sent \in 0..m /\ done = trace - 1
      BY <1>1, <1>2
    <2> QED
      BY <1>1, <1>2, <2>1, <2>2 DEF Client!TypeOK
  <1>4. IsFiniteSet(requests) /\ Cardinality(requests) = 0
    BY <1>1, FS_EmptySet
  <1>5. trace <= c.maxSubmits + sent - Cardinality(requests)
    BY <1>1, <1>2, <1>4
  <1>6. AllRequests = {}
    BY <1>1 DEF AllRequests
  <1> QED
    BY <1>1, <1>3, <1>4, <1>5, <1>6 DEF ClientInv, ClientCounts, RequestsOK, NetworkOK, SuccessOK

\* Requests stay as they are when forms and network forget or repeat some.
LEMMA RequestsStay ==
    ASSUME NEW c, ClientInv(c), AllRequests' \subseteq AllRequests, sent' = sent,
           done' \in {done, done + 1}
    PROVE  RequestsOK(c)'
  <1>1. done \in Nat /\ 0..done \subseteq 0..done'
    BY DEF ClientInv, ClientCounts, Client!TypeOK
  <1>2. ASSUME NEW r \in AllRequests'
        PROVE  IdsOK(c, r)' /\ r.order \in Client(c)!Asked
               /\ (r.from # <<>> => Client(c)!ValidateOrder(r.order))
    <2>1. /\ IdsOK(c, r) /\ r.order \in Client(c)!Asked
          /\ (r.from # <<>> => Client(c)!ValidateOrder(r.order))
      BY <1>2 DEF ClientInv, RequestsOK
    <2>2. r.no \in 1..sent'
      BY <2>1 DEF IdsOK
    <2>3. r.from # <<>> => r.intent \in 0..done'
      BY <1>1, <2>1 DEF IdsOK
    <2>4. IdsOK(c, r)'
      BY <2>1, <2>2, <2>3 DEF IdsOK
    <2> QED
      BY <2>1, <2>4
  <1>3. \A r, t \in AllRequests' : r.no = t.no => r = t
    BY DEF ClientInv, RequestsOK
  <1> QED
    BY <1>2, <1>3 DEF RequestsOK

\* A new request has the next number.
LEMMA RequestIsNew ==
    ASSUME NEW c, Fits(c), ClientInv(c), NEW q, sent < c.maxSubmits,
           q.no = sent + 1, q.order \in Client(c)!Asked,
           q.from = <<>> => q.trace = 2 * c.maxSubmits + q.no,
           q.from # <<>> => /\ q.from \in Client(c)!Form /\ Client(c)!ValidateOrder(q.order)
                            /\ q.intent = done /\ q.trace = done + 1,
           requests' = requests \cup {q}, sent' = sent + 1,
           UNCHANGED <<trace, network, success, done>>
    PROVE  /\ RequestsOK(c)' /\ NetworkOK(c)' /\ SuccessOK(c)'
           /\ IsFiniteSet(requests)' /\ (trace <= c.maxSubmits + sent - Cardinality(requests))'
           /\ (trace \in 1..(2 * c.maxSubmits))' /\ (sent \in 0..c.maxSubmits)'
           /\ (\A r \in requests \cup success : r.no \in 1..sent /\ r.from \in Client(c)!Form \cup {<<>>})'
  <1>1. PICK m \in Nat \ {0} : m = c.maxSubmits
    BY ClientConstants
  <1>2. /\ trace \in 1..(2 * m) /\ sent \in 0..m /\ done = trace - 1 /\ done \in Nat
        /\ IsFiniteSet(requests) /\ trace <= m + sent - Cardinality(requests)
    BY <1>1 DEF ClientInv, ClientCounts, Client!TypeOK
  <1>3. sent' \in 1..m /\ sent' \in 0..m /\ 1..sent \subseteq 1..sent' /\ sent + 1 \in 1..sent'
    BY <1>1, <1>2
  <1>4. AllRequests' = AllRequests \cup {q}
    BY DEF AllRequests
  <1>5. \A r \in AllRequests : IdsOK(c, r) /\ r.no \in 1..sent
    BY DEF ClientInv, RequestsOK, IdsOK
  <1>6. q \notin requests
    <2>1. q \in requests => q \in AllRequests
      BY DEF AllRequests
    <2> QED
      BY <1>2, <1>5, <2>1
  <1>7. IsFiniteSet(requests') /\ Cardinality(requests') = Cardinality(requests) + 1
        /\ Cardinality(requests) \in Nat
    BY <1>2, <1>6, FS_AddElement, FS_CardinalityType
  <1>8. trace' <= c.maxSubmits + sent' - Cardinality(requests')
    BY <1>1, <1>2, <1>7
  <1>9. ASSUME NEW r \in AllRequests' PROVE IdsOK(c, r)'
    <2>1. CASE r = q
      <3>1. r.no \in 1..sent'
        BY <1>3, <2>1
      <3>2. r.from # <<>> => r.intent \in 0..done' /\ r.trace = r.intent + 1
        BY <1>2, <2>1
      <3> QED
        BY <2>1, <3>1, <3>2 DEF IdsOK
    <2>2. CASE r \in AllRequests
      <3>1. IdsOK(c, r) /\ r.no \in 1..sent'
        BY <1>3, <1>5, <2>2
      <3> QED
        BY <3>1 DEF IdsOK
    <2> QED
      BY <1>4, <2>1, <2>2
  <1>10. \A r \in AllRequests' :
           r.order \in Client(c)!Asked /\ (r.from # <<>> => Client(c)!ValidateOrder(r.order))
    BY <1>4 DEF ClientInv, RequestsOK
  <1>11. \A r, t \in AllRequests' : r.no = t.no => r = t
    <2>1. \A r \in AllRequests : r.no # q.no
      BY <1>2, <1>5
    <2>2. \A r, t \in AllRequests : r.no = t.no => r = t
      BY DEF ClientInv, RequestsOK
    <2> QED
      BY <1>4, <2>1, <2>2
  <1>12. RequestsOK(c)'
    BY <1>9, <1>10, <1>11 DEF RequestsOK
  <1>13. ASSUME NEW r \in requests' \cup success'
         PROVE  r.no \in 1..sent' /\ r.from \in Client(c)!Form \cup {<<>>}
    <2>1. r \in AllRequests'
      BY DEF AllRequests
    <2> QED
      BY <1>9, <2>1 DEF IdsOK
  <1>14. NetworkOK(c)' /\ SuccessOK(c)'
    BY DEF ClientInv, NetworkOK, SuccessOK
  <1> QED
    BY <1>1, <1>2, <1>3, <1>7, <1>8, <1>12, <1>13, <1>14

LEMMA FormsAsk ==
    ASSUME NEW c, Fits(c), NEW m \in c.pageMarket, NEW f \in Client(c)!Form, NEW e \in c.entry
    PROVE  Client(c)!OrderOfForm(m, f, e) \in Client(c)!Asked
  <1>1. m.quote \in c.asset /\ m.base \in c.asset
    BY DEF Fits, Client!ClientAssumption, Client!IngestAssumption
  <1>2. e.price \in Nat /\ e.amount \in Nat /\ e.funds \in Nat
    BY DEF Fits, Client!ClientAssumption
  <1>3. f[1] \in {"LIMIT", "MARKET"} /\ f[2] \in {"BID", "ASK"}
    BY DEF Client!Form
  <1>4. PICK scale \in Nat \ {0} : scale = c.scale
    BY ClientConstants
  <1>5. PICK step \in Nat \ {0} : step = c.clientFundsStep
    BY ClientConstants
  <1>6. PICK x \in Nat : x = (e.amount * e.price) \div scale + step \div 2
    <2>1. PICK h \in Nat : h = e.amount * e.price
      BY <1>2, Products
    <2>2. h \div scale \in Nat /\ step \div 2 \in Nat
      BY <2>1, Quotient
    <2> QED
      BY <2>1, <2>2
  <1>7. Client(c)!FundsOfForm(f, e) \in Nat
    <2>1. Client(c)!Floor(x, step) \in Nat
      BY Floored
    <2> QED
      BY <1>2, <1>4, <1>5, <1>6, <2>1 DEF Client!FundsOfForm
  <1> QED
    BY <1>1, <1>2, <1>3, <1>7 DEF Client!OrderOfForm, Client!Asked

LEMMA SubmitKeeps ==
    ASSUME NEW c, Fits(c), ClientInv(c), NEW m \in c.pageMarket, NEW f \in Client(c)!Form,
           NEW e \in c.entry, Client(c)!Submit(m, f, e)
    PROVE  ClientInv(c)'
  <1>1. PICK o \in Client(c)!Asked : o = Client(c)!OrderOfForm(m, f, e)
    BY FormsAsk
  <1>2. PICK q : q = [no |-> sent + 1, from |-> f, order |-> o, trace |-> trace, intent |-> done]
    OBVIOUS
  <1>3. /\ sent < c.maxSubmits /\ Client(c)!ValidateOrder(o)
        /\ requests' = requests \cup {q} /\ sent' = sent + 1
        /\ waiting' = [waiting EXCEPT ![f] = sent + 1]
        /\ UNCHANGED <<trace, network, success, done>>
    BY <1>1, <1>2 DEF Client!Submit, Client!Request
  <1>4. /\ q.no = sent + 1 /\ q.order = o /\ q.from = f /\ q.trace = trace /\ q.intent = done
    BY <1>2
  <1>5. /\ waiting \in [Client(c)!Form -> 0..sent] /\ sent \in Nat /\ done = trace - 1 /\ trace \in Nat
        /\ \A x, y \in network : x # y => x.s.trace # y.s.trace
    BY ClientConstants DEF ClientInv, ClientCounts, Client!TypeOK
  <1>6. q.from # <<>> /\ q.trace = done + 1
    BY <1>4, <1>5, FormsAreNotEmpty
  <1>7. /\ RequestsOK(c)' /\ NetworkOK(c)' /\ SuccessOK(c)'
        /\ IsFiniteSet(requests)' /\ (trace <= c.maxSubmits + sent - Cardinality(requests))'
        /\ (trace \in 1..(2 * c.maxSubmits))' /\ (sent \in 0..c.maxSubmits)'
        /\ (\A r \in requests \cup success : r.no \in 1..sent /\ r.from \in Client(c)!Form \cup {<<>>})'
    BY <1>1, <1>3, <1>4, <1>6, RequestIsNew
  <1>8. waiting' \in [Client(c)!Form -> 0..sent']
    <2>1. 0..sent \subseteq 0..sent' /\ sent + 1 \in 0..sent'
      BY <1>3, <1>5
    <2> QED
      BY <1>3, <1>5, <2>1
  <1>9. Client(c)!TypeOK'
    BY <1>3, <1>5, <1>7, <1>8 DEF Client!TypeOK
  <1> QED
    BY <1>7, <1>9 DEF ClientInv, ClientCounts

LEMMA PostKeeps ==
    ASSUME NEW c, Fits(c), ClientInv(c), NEW o \in c.apiOrder, Client(c)!Post(o)
    PROVE  ClientInv(c)'
  <1>1. o \in Client(c)!Asked
    BY DEF Fits, Client!ClientAssumption
  <1>2. PICK q : q = [no |-> sent + 1, from |-> <<>>, order |-> o,
                      trace |-> 2 * c.maxSubmits + 1 + sent, intent |-> done]
    OBVIOUS
  <1>3. /\ sent < c.maxSubmits
        /\ requests' = requests \cup {q} /\ sent' = sent + 1
        /\ UNCHANGED <<trace, waiting, network, success, done>>
    BY <1>2 DEF Client!Post, Client!Request
  <1>4. /\ q.no = sent + 1 /\ q.order = o /\ q.from = <<>> /\ q.trace = 2 * c.maxSubmits + 1 + sent
    BY <1>2
  <1>5. /\ waiting \in [Client(c)!Form -> 0..sent] /\ sent \in Nat /\ done = trace - 1 /\ trace \in Nat
        /\ \A x, y \in network : x # y => x.s.trace # y.s.trace
    BY ClientConstants DEF ClientInv, ClientCounts, Client!TypeOK
  <1>6. q.trace = 2 * c.maxSubmits + q.no
    <2>1. PICK m \in Nat : m = c.maxSubmits
      BY ClientConstants
    <2>2. 2 * m + 1 + sent = 2 * m + (sent + 1)
      BY <1>5
    <2> QED
      BY <1>4, <2>1, <2>2
  <1>7. /\ RequestsOK(c)' /\ NetworkOK(c)' /\ SuccessOK(c)'
        /\ IsFiniteSet(requests)' /\ (trace <= c.maxSubmits + sent - Cardinality(requests))'
        /\ (trace \in 1..(2 * c.maxSubmits))' /\ (sent \in 0..c.maxSubmits)'
        /\ (\A r \in requests \cup success : r.no \in 1..sent /\ r.from \in Client(c)!Form \cup {<<>>})'
    BY <1>1, <1>3, <1>4, <1>6, RequestIsNew
  <1>8. waiting' \in [Client(c)!Form -> 0..sent']
    <2>1. 0..sent \subseteq 0..sent'
      BY <1>3, <1>5
    <2> QED
      BY <1>3, <1>5, <2>1
  <1>9. Client(c)!TypeOK'
    BY <1>3, <1>5, <1>7, <1>8 DEF Client!TypeOK
  <1> QED
    BY <1>7, <1>9 DEF ClientInv, ClientCounts

\* The counts and types, when an answer is seen, lost or given up, or the page opened again.
LEMMA CountsStay ==
    ASSUME NEW c, Fits(c), ClientInv(c), requests' \subseteq requests, sent' = sent,
           success' \subseteq success \cup requests,
           waiting' \in [Client(c)!Form -> 0..sent],
           \/ trace' = trace /\ done' = done
           \/ /\ trace' = trace + 1 /\ done' = done + 1
              /\ trace < c.maxSubmits \/ \E r \in requests : r \notin requests',
           \A x, y \in network' : x # y => x.s.trace # y.s.trace
    PROVE  ClientCounts(c)'
  <1>1. PICK m \in Nat \ {0} : m = c.maxSubmits
    BY ClientConstants
  <1>2. /\ trace \in 1..(2 * m) /\ sent \in 0..m /\ done = trace - 1
        /\ IsFiniteSet(requests) /\ trace <= m + sent - Cardinality(requests)
        /\ \A r \in requests \cup success : r.no \in 1..sent /\ r.from \in Client(c)!Form \cup {<<>>}
    BY <1>1 DEF ClientInv, ClientCounts, Client!TypeOK
  <1>3. PICK old \in Nat : old = Cardinality(requests)
    BY <1>2, FS_CardinalityType
  <1>4. /\ IsFiniteSet(requests') /\ Cardinality(requests') \in Nat
        /\ Cardinality(requests') <= old
        /\ requests' # requests => Cardinality(requests') < old
    BY <1>2, <1>3, FS_Subset, FS_CardinalityType
  <1>5. PICK new \in Nat : new = Cardinality(requests')
    BY <1>4
  <1>6. old <= sent
    <2>1. \A r \in requests : r.no \in 1..sent
      BY <1>2
    <2>2. \A r, t \in requests : r.no = t.no => r = t
      BY DEF ClientInv, RequestsOK, AllRequests
    <2>3. [r \in requests |-> r.no] \in Injection(requests, 1..sent)
      BY <2>1, <2>2 DEF Injection, IsInjective
    <2>4. IsFiniteSet(1..sent) /\ Cardinality(1..sent) = sent
      BY <1>2, FS_Interval
    <2>5. Cardinality(requests) <= Cardinality(1..sent)
      BY <2>3, <2>4, FS_Injection
    <2> QED
      BY <1>3, <2>4, <2>5
  <1>7. trace' <= m + sent - new
    <2>1. CASE trace' = trace
      BY <1>2, <1>3, <1>4, <1>5, <2>1
    <2>2. CASE trace' = trace + 1 /\ trace < m
      BY <1>2, <1>3, <1>4, <1>5, <1>6, <2>2
    <2>3. CASE trace' = trace + 1 /\ \E r \in requests : r \notin requests'
      <3>1. new < old
        BY <1>4, <1>5, <2>3
      <3> QED
        BY <1>2, <1>3, <1>5, <2>3, <3>1
    <2> QED
      BY <1>1, <2>1, <2>2, <2>3
  <1>8. trace' \in 1..(2 * m) /\ done' = trace' - 1
    BY <1>2, <1>5, <1>7
  <1>9. \A r \in requests' \cup success' :
          r.no \in 1..sent /\ r.from \in Client(c)!Form \cup {<<>>}
    BY <1>2
  <1>10. Client(c)!TypeOK'
    BY <1>1, <1>2, <1>8, <1>9 DEF Client!TypeOK
  <1> QED
    BY <1>1, <1>4, <1>5, <1>7, <1>10 DEF ClientCounts

\* What is left when only the forms change.
LEMMA FormsKeep ==
    ASSUME NEW c, Fits(c), ClientInv(c), UNCHANGED <<requests, sent, network, success>>,
           waiting' \in [Client(c)!Form -> 0..sent],
           \/ trace' = trace /\ done' = done
           \/ trace' = trace + 1 /\ done' = done + 1 /\ trace < c.maxSubmits
    PROVE  ClientInv(c)'
  <1>1. \A x, y \in network' : x # y => x.s.trace # y.s.trace
    BY DEF ClientInv, ClientCounts, Client!TypeOK
  <1>2. ClientCounts(c)'
    BY <1>1, CountsStay
  <1>3. AllRequests' = AllRequests
    BY DEF AllRequests
  <1>4. RequestsOK(c)'
    BY <1>3, RequestsStay
  <1>5. NetworkOK(c)' /\ SuccessOK(c)'
    BY DEF ClientInv, NetworkOK, SuccessOK
  <1> QED
    BY <1>2, <1>4, <1>5 DEF ClientInv

LEMMA RenderKeeps ==
    ASSUME NEW c, Fits(c), ClientInv(c), Client(c)!Render PROVE ClientInv(c)'
  <1>1. sent \in Nat
    BY ClientConstants DEF ClientInv, ClientCounts, Client!TypeOK
  <1>2. waiting' \in [Client(c)!Form -> 0..sent]
    BY <1>1 DEF Client!Render
  <1> QED
    BY <1>2, FormsKeep DEF Client!Render

LEMMA TimeOutKeeps ==
    ASSUME NEW c, Fits(c), ClientInv(c), NEW f \in Client(c)!Form, Client(c)!TimeOut(f)
    PROVE  ClientInv(c)'
  <1>1. waiting \in [Client(c)!Form -> 0..sent] /\ sent \in Nat
    BY ClientConstants DEF ClientInv, ClientCounts, Client!TypeOK
  <1>2. waiting' \in [Client(c)!Form -> 0..sent]
    BY <1>1 DEF Client!TimeOut
  <1> QED
    BY <1>2, FormsKeep DEF Client!TimeOut, Client!Renewed

\* What the page makes of the answer to r, or of an error in its place.
LEMMA AnswerSeen ==
    ASSUME NEW c, Fits(c), ClientInv(c), NEW r \in requests, NEW ok \in BOOLEAN,
           Client(c)!Answered(r, ok)
    PROVE  /\ waiting' \in [Client(c)!Form -> 0..sent]
           /\ \/ trace' = trace /\ done' = done
              \/ trace' = trace + 1 /\ done' = done + 1
  <1>1. waiting \in [Client(c)!Form -> 0..sent] /\ sent \in Nat
    BY ClientConstants DEF ClientInv, ClientCounts, Client!TypeOK
  <1>2. waiting' \in [Client(c)!Form -> 0..sent]
    BY <1>1 DEF Client!Answered
  <1> QED
    BY <1>2 DEF Client!Answered, Client!Renewed

LEMMA CreateKeeps ==
    ASSUME NEW c, Fits(c), ClientInv(c), NEW r, Client(c)!CreateOrder(r)
    PROVE  ClientInv(c)'
  <1>1. r \in requests /\ requests' = requests \ {r} /\ sent' = sent
    BY DEF Client!CreateOrder
  <1>2. r \in AllRequests
    BY <1>1 DEF AllRequests
  <1>3. PICK ok \in BOOLEAN : Client(c)!Answered(r, ok)
    BY DEF Client!CreateOrder
  <1>4. /\ waiting' \in [Client(c)!Form -> 0..sent]
        /\ \/ trace' = trace /\ done' = done
           \/ trace' = trace + 1 /\ done' = done + 1
    BY <1>1, <1>3, AnswerSeen
  <1>5. PICK z : z = [s |-> Client(c)!OrderTransfer(r.order, r.trace), request |-> r]
    OBVIOUS
  <1>6. z.request = r /\ z.s = Client(c)!OrderTransfer(r.order, r.trace)
    BY <1>5
  <1>7. \/ network' = network /\ success' = success
        \/ /\ ~ Client(c)!BadData(r.order)
           /\ \/ network' = network \cup {z} /\ Client(c)!Known(r.trace) = {}
              \/ network' = network /\ Client(c)!Known(r.trace) # {}
           /\ success' = success \/ success' = success \cup {r}
    BY <1>5 DEF Client!CreateOrder, Client!CreateTransfer
  <1>8. \A x, y \in network : x # y => x.s.trace # y.s.trace
    BY DEF ClientInv, ClientCounts, Client!TypeOK
  <1>9. ASSUME ~ Client(c)!BadData(r.order) PROVE z.s.trace = r.trace /\ IsOrder(c, z)
    <2>1. PICK t \in Nat \ {0} : t = r.trace
      BY <1>2, TracesOfRequests
    <2>2. PICK o \in Client(c)!Asked : o = r.order
      BY <1>2, TracesOfRequests
    <2>3. z.s.trace = t
      BY <1>6, <1>9, <2>1, <2>2, OrderRead
    <2> QED
      BY <1>6, <1>9, <2>1, <2>3 DEF IsOrder
  <1>10. \/ network' = network
         \/ /\ network' = network \cup {z} /\ IsOrder(c, z) /\ z.s.trace = r.trace
            /\ \A y \in network : y.s.trace # r.trace
    <2>1. Client(c)!Known(r.trace) = {} => \A y \in network : y.s.trace # r.trace
      BY DEF Client!Known
    <2> QED
      BY <1>7, <1>9, <2>1
  <1>11. \A x, y \in network' : x # y => x.s.trace # y.s.trace
    BY <1>8, <1>10
  <1>12. success' \subseteq success \cup requests /\ network \subseteq network'
    BY <1>1, <1>7
  <1>13. ClientCounts(c)'
    BY <1>1, <1>4, <1>11, <1>12, CountsStay
  <1>14. AllRequests' \subseteq AllRequests
    <2>1. \A x \in network' : x.request \in AllRequests
      BY <1>2, <1>6, <1>10 DEF AllRequests
    <2>2. success' \subseteq AllRequests /\ requests' \subseteq AllRequests
      BY <1>1, <1>12 DEF AllRequests
    <2> QED
      BY <2>1, <2>2 DEF AllRequests
  <1>15. RequestsOK(c)'
    BY <1>1, <1>4, <1>14, RequestsStay
  <1>16. NetworkOK(c)'
    BY <1>10 DEF ClientInv, NetworkOK
  <1>17. SuccessOK(c)'
    <2>1. ASSUME NEW q \in success PROVE \E x \in network' : IsOrder(c, x) /\ x.s.trace = q.trace
      BY <1>12, <2>1 DEF ClientInv, SuccessOK
    <2>2. ASSUME success' # success PROVE \E x \in network' : IsOrder(c, x) /\ x.s.trace = r.trace
      <3>1. CASE z \in network'
        BY <1>7, <1>9, <2>2, <3>1
      <3>2. CASE Client(c)!Known(r.trace) # {}
        <4>1. PICK y \in network : y.s.trace = r.trace
          BY <3>2 DEF Client!Known
        <4>2. ~ IsCancel(c, y)
          <5>1. PICK m \in Nat : m = c.maxSubmits
            BY ClientConstants
          <5>2. r.trace \in 1..(3 * m)
            BY <1>2, <5>1, TracesOfRequests
          <5>3. IsCancel(c, y) => y.s.trace = 3 * m + y.request.no
            BY <5>1, TransfersRead
          <5>4. y.request.no \in Nat \ {0}
            BY TransfersRead, TracesOfRequests
          <5>5. 3 * m + y.request.no \notin 1..(3 * m)
            BY <5>1, <5>4
          <5> QED
            BY <4>1, <5>2, <5>3, <5>5
        <4>3. IsOrder(c, y)
          BY <4>2, TransfersRead
        <4> QED
          BY <1>12, <4>1, <4>3
      <3> QED
        BY <1>7, <2>2, <3>1, <3>2
    <2>3. success' = success \/ success' = success \cup {r}
      BY <1>7
    <2> QED
      BY <2>1, <2>2, <2>3 DEF SuccessOK
  <1> QED
    BY <1>13, <1>15, <1>16, <1>17 DEF ClientInv

LEMMA CancelKeeps ==
    ASSUME NEW c, Fits(c), ClientInv(c), NEW x \in Client(c)!Orders, Client(c)!CancelOrder(x)
    PROVE  ClientInv(c)'
  <1>1. x \in network /\ IsOrder(c, x)
    BY OrdersAreOrders
  <1>2. /\ x.request \in AllRequests /\ x.s.trace = x.request.trace
        /\ x.request.trace \in Nat \ {0} /\ x.request.no \in Nat \ {0}
    BY <1>1, TransfersRead, TracesOfRequests
  <1>3. PICK m \in Nat : m = c.maxSubmits
    BY ClientConstants
  <1>4. PICK z : z = [s |-> Client(c)!CancelTransfer(3 * m + x.request.no, x.s.trace),
                      request |-> x.request]
    OBVIOUS
  <1>5. z.request = x.request /\ z.s = Client(c)!CancelTransfer(3 * m + x.request.no, x.s.trace)
    BY <1>4
  <1>6. /\ \A y \in network : y.s.cancels # x.s.trace
        /\ network' = network \cup {z}
        /\ UNCHANGED <<trace, waiting, requests, sent, success, done>>
    BY <1>3, <1>4 DEF Client!CancelOrder
  <1>7. IsCancel(c, z)
    BY <1>2, <1>3, <1>5 DEF IsCancel
  <1>8. z.s.trace = 3 * m + x.request.no
    <2>1. PICK n \in Nat \ {0} : n = x.request.no
      BY <1>2
    <2>2. 3 * m + n \in Nat \ {0}
      BY ONLY m \in Nat, n \in Nat \ {0}
    <2> QED
      BY <1>2, <1>5, <2>1, <2>2, CancelRead
  <1>9. ASSUME NEW y \in network PROVE y.s.trace # z.s.trace
    <2>1. y.request \in AllRequests
      BY TransfersRead
    <2>2. y.request.no \in Nat \ {0} /\ y.request.trace \in 1..(3 * m)
      BY <1>3, <2>1, TracesOfRequests
    <2>3. CASE IsOrder(c, y)
      <3>1. y.s.trace \in 1..(3 * m)
        BY <2>2, <2>3, TransfersRead
      <3> QED
        BY <1>2, <1>3, <1>8, <3>1
    <2>4. CASE IsCancel(c, y)
      <3>1. y.s.trace = 3 * m + y.request.no /\ y.s.cancels = y.request.trace
        BY <1>3, <2>4, TransfersRead
      <3>2. y.request # x.request
        BY <1>2, <1>6, <3>1
      <3>3. y.request.no # x.request.no
        BY <1>2, <2>1, <3>2 DEF ClientInv, RequestsOK
      <3>4. 3 * m + y.request.no # 3 * m + x.request.no
        BY <1>2, <1>3, <2>2, <3>3
      <3> QED
        BY <1>8, <3>1, <3>4
    <2> QED
      BY <2>3, <2>4, TransfersRead
  <1>10. \A y, w \in network' : y # w => y.s.trace # w.s.trace
    <2>1. \A y, w \in network : y # w => y.s.trace # w.s.trace
      BY DEF ClientInv, ClientCounts, Client!TypeOK
    <2> QED
      BY <1>6, <1>9, <2>1
  <1>11. ClientCounts(c)'
    <2>1. waiting' \in [Client(c)!Form -> 0..sent]
      BY <1>6 DEF ClientInv, ClientCounts, Client!TypeOK
    <2> QED
      BY <1>6, <1>10, <2>1, CountsStay
  <1>12. AllRequests' \subseteq AllRequests
    BY <1>2, <1>5, <1>6 DEF AllRequests
  <1>13. RequestsOK(c)'
    BY <1>6, <1>12, RequestsStay
  <1>14. NetworkOK(c)'
    BY <1>6, <1>7 DEF ClientInv, NetworkOK
  <1>15. SuccessOK(c)'
    BY <1>6 DEF ClientInv, SuccessOK
  <1> QED
    BY <1>11, <1>13, <1>14, <1>15 DEF ClientInv

LEMMA ClientKeeps ==
    ASSUME NEW c, Fits(c), ClientInv(c), Client(c)!Next PROVE ClientInv(c)'
  <1>1. ASSUME NEW f \in Client(c)!Form, Client(c)!TimeOut(f) PROVE ClientInv(c)'
    BY <1>1, TimeOutKeeps
  <1>2. ASSUME NEW f \in Client(c)!Form, NEW m \in c.pageMarket, NEW e \in c.entry,
               Client(c)!Submit(m, f, e)
        PROVE  ClientInv(c)'
    BY <1>2, SubmitKeeps
  <1>3. CASE Client(c)!Render
    BY <1>3, RenderKeeps
  <1>4. ASSUME NEW o \in c.apiOrder, Client(c)!Post(o) PROVE ClientInv(c)'
    BY <1>4, PostKeeps
  <1>5. ASSUME NEW r \in requests, Client(c)!CreateOrder(r) PROVE ClientInv(c)'
    BY <1>5, CreateKeeps
  <1>6. ASSUME NEW x \in Client(c)!Orders, Client(c)!CancelOrder(x) PROVE ClientInv(c)'
    BY <1>6, CancelKeeps
  <1> QED
    BY <1>1, <1>2, <1>3, <1>4, <1>5, <1>6 DEF Client!Next

LEMMA ClientStays ==
    ASSUME NEW c, Fits(c), ClientInv(c), UNCHANGED clientVars PROVE ClientInv(c)'
  <1>1. UNCHANGED <<trace, waiting, requests, sent, network, success, done>>
    BY DEF clientVars
  <1>2. waiting' \in [Client(c)!Form -> 0..sent]
    BY <1>1 DEF ClientInv, ClientCounts, Client!TypeOK
  <1> QED
    BY <1>1, <1>2, FormsKeep

LEMMA ClientsKeep ==
    ASSUME ClientsInv, [PathNext]_pathVars PROVE ClientsInv'
  <1>1. part' = part
    BY DEF PathNext, SnapshotStep, ClientStep, ActionStep, ListStep, MutexStep, MoneyStep, pathVars
  <1>2. UNCHANGED clientVars \/ ClientStep
    BY DEF PathNext, SnapshotStep, ActionStep, ListStep, MutexStep, MoneyStep, pathVars
  <1>3. Fits(ValuesCase) /\ Fits(RetriesCase)
    BY ClientAssumption DEF Fits
  <1>4. CASE part = "values"
    <2>1. ClientInv(ValuesCase)
      BY <1>4 DEF ClientsInv
    <2>2. UNCHANGED clientVars \/ Client(ValuesCase)!Next
      BY <1>2, <1>4 DEF ClientStep
    <2>3. ClientInv(ValuesCase)'
      BY <1>3, <2>1, <2>2, ClientKeeps, ClientStays
    <2> QED
      BY <1>1, <1>4, <2>3 DEF ClientsInv
  <1>5. CASE part # "values"
    <2>1. ClientInv(RetriesCase)
      BY <1>5 DEF ClientsInv
    <2>2. UNCHANGED clientVars \/ Client(RetriesCase)!Next
      BY <1>2, <1>5 DEF ClientStep
    <2>3. ClientInv(RetriesCase)'
      BY <1>3, <2>1, <2>2, ClientKeeps, ClientStays
    <2> QED
      BY <1>1, <1>5, <2>3 DEF ClientsInv
  <1> QED
    BY <1>4, <1>5

\* Numbers and trace ids of requests, what the network was sent, and what the successes of
\* the page stand for, in every reachable state (handleOrderCreate, CreateOrder).
THEOREM ClientInvariance == PathSpec => []ClientsInv
  <1>1. PathInit => ClientsInv
    <2> SUFFICES ASSUME PathInit PROVE ClientsInv
      OBVIOUS
    <2>1. Fits(ValuesCase) /\ Fits(RetriesCase)
      BY ClientAssumption DEF Fits
    <2>2. Client(RetriesCase)!Init
      BY DEF PathInit
    <2>3. Client(ValuesCase)!Init
      BY <2>2 DEF Client!Init, Client!Form
    <2> QED
      BY <2>1, <2>2, <2>3, ClientStarts DEF ClientsInv
  <1>2. ClientsInv /\ [PathNext]_pathVars => ClientsInv'
    BY ClientsKeep
  <1> QED
    BY <1>1, <1>2, PTL DEF PathSpec

\* The exchange reads in a transfer of the example what was asked for and refunds an order
\* of its page only for its size; after errors and lost answers a form places no second
\* order, and one that shows a success has placed one, for all steps, minima, maxima and
\* entries (validateOrder, CreateOrder, processSnapshot).
THEOREM EntriesPlaced == PathSpec => []EntriesArePlaced
  <1>1. ClientsInv => EntriesArePlaced
    <2>1. Fits(ValuesCase) /\ Fits(RetriesCase)
      BY ClientAssumption DEF Fits
    <2>2. ASSUME ClientsInv, part = "values" PROVE Placed(ValuesCase)
      BY <2>1, <2>2, PlacedFollows DEF ClientsInv
    <2>3. ASSUME ClientsInv, part = "retries" PROVE Placed(RetriesCase)
      BY <2>1, <2>3, PlacedFollows DEF ClientsInv
    <2> QED
      BY <2>2, <2>3 DEF EntriesArePlaced
  <1> QED
    BY <1>1, ClientInvariance, PTL
=============================================================================
