-------------------------- MODULE SettlementProofs --------------------------
(***************************************************************************)
(* Proofs about Settlement for every value of its constants: the money of  *)
(* a broker, and the refinement of Payouts.                                *)
(***************************************************************************)
EXTENDS SettlementInvariant, OrderProofs

USE DEF Side, Opposite

-----------------------------------------------------------------------------
(* Sequences.                                                              *)

LEMMA LeastNatural ==
    ASSUME NEW T, T \subseteq Nat, T # {}
    PROVE  \E n \in T : \A m \in T : n <= m
  <1>1. PICK k \in T : TRUE
    OBVIOUS
  <1> DEFINE S == 1..k
             U == {u \in SUBSET S : \E m \in T : m <= k /\ u = 1..m}
  <1>2. IsFiniteSet(S)
    BY <1>1, FS_Interval
  <1>3. U \subseteq SUBSET S /\ U # {}
    <2>1. k \in Nat /\ k <= k
      BY <1>1
    <2>2. 1..k \in U
      BY <1>1, <2>1
    <2> QED
      BY <2>2
  <1> HIDE DEF U, S
  <1>4. PICK u \in U : \A v \in U : v \subseteq u => v = u
    BY <1>2, <1>3, SmallestSet
  <1>5. PICK n \in T : n <= k /\ u = 1..n
    BY <1>4 DEF U, S
  <1>6. ASSUME NEW m \in T, m < n PROVE FALSE
    <2>1. 1..m \in U /\ 1..m \subseteq 1..n
      BY <1>1, <1>5, <1>6 DEF U, S
    <2>2. n \in 1..n /\ n \notin 1..m
      BY <1>5, <1>6
    <2> QED
      BY <1>4, <1>5, <2>1, <2>2
  <1> QED
    BY <1>5, <1>6

\* The function behind Without.
Keeps(g, s, S, n) ==
    g = [i \in 0..n |-> IF i = 0 THEN <<>>
                        ELSE IF s[i] \in S THEN g[i - 1] ELSE Append(g[i - 1], s[i])]

LEMMA KeepsExists ==
    ASSUME NEW s, NEW S, NEW n \in Nat
    PROVE  \E g : Keeps(g, s, S, n)
  <1> DEFINE Bad == {k \in Nat : ~ \E g : Keeps(g, s, S, k)}
  <1> SUFFICES ASSUME Bad # {} PROVE FALSE
    OBVIOUS
  <1>1. Bad \subseteq Nat
    OBVIOUS
  <1> HIDE DEF Bad
  <1>2. PICK k \in Bad : \A m \in Bad : k <= m
    BY <1>1, LeastNatural
  <1>3. k \in Nat /\ ~ \E g : Keeps(g, s, S, k)
    BY DEF Bad
  <1>4. CASE k = 0
    <2>1. Keeps([i \in 0..0 |-> <<>>], s, S, 0)
      BY DEF Keeps
    <2> QED
      BY <1>3, <1>4, <2>1
  <1>5. CASE k # 0
    <2>1. k - 1 \in Nat /\ k - 1 \notin Bad
      BY <1>2, <1>3, <1>5
    <2>2. PICK g : Keeps(g, s, S, k - 1)
      BY <2>1 DEF Bad
    <2> DEFINE last == IF s[k] \in S THEN g[k - 1] ELSE Append(g[k - 1], s[k])
               h == [i \in 0..k |-> IF i = k THEN last ELSE g[i]]
    <2>3. \A i \in 0..(k - 1) : h[i] = g[i]
      BY <1>3, <1>5
    <2>4. h[0] = <<>>
      BY <1>3, <1>5, <2>2 DEF Keeps
    <2>5. ASSUME NEW i \in 0..k, i # 0
          PROVE  h[i] = IF s[i] \in S THEN h[i - 1] ELSE Append(h[i - 1], s[i])
      <3>1. i - 1 \in 0..(k - 1) /\ h[i - 1] = g[i - 1]
        BY <1>3, <2>3, <2>5
      <3>2. CASE i = k
        BY <3>1, <3>2
      <3>3. CASE i # k
        <4>1. i \in 0..(k - 1)
          BY <1>3, <3>3
        <4>2. h[i] = g[i]
          BY <2>3, <4>1
        <4>3. g[i] = IF s[i] \in S THEN g[i - 1] ELSE Append(g[i - 1], s[i])
          BY <2>2, <2>5, <4>1 DEF Keeps
        <4> QED
          BY <3>1, <4>2, <4>3
      <3> QED
        BY <3>2, <3>3
    <2>6. Keeps(h, s, S, k)
      <3>1. h = [i \in 0..k |-> h[i]]
        OBVIOUS
      <3> HIDE DEF h
      <3> QED
        BY <2>4, <2>5, <3>1 DEF Keeps
    <2> QED
      BY <1>3, <2>6
  <1> QED
    BY <1>4, <1>5

\* Without takes out what is in S and nothing else.
LEMMA WithoutFacts ==
    ASSUME NEW X, NEW s \in Seq(X), NEW S
    PROVE  /\ Without(s, S) \in Seq(X)
           /\ ToSet(Without(s, S)) = ToSet(s) \ S
  <1> DEFINE n == Len(s)
             kept == CHOOSE g : g = [i \in 0..Len(s) |->
                       IF i = 0 THEN <<>>
                       ELSE IF s[i] \in S THEN g[i - 1] ELSE Append(g[i - 1], s[i])]
  <1>1. n \in Nat
    OBVIOUS
  <1>2. \E g : g = [i \in 0..Len(s) |->
                       IF i = 0 THEN <<>>
                       ELSE IF s[i] \in S THEN g[i - 1] ELSE Append(g[i - 1], s[i])]
    <2> HIDE DEF n
    <2>1. PICK g : Keeps(g, s, S, n)
      BY <1>1, KeepsExists
    <2> QED
      BY <2>1 DEF Keeps, n
  <1>3. Keeps(kept, s, S, n)
    BY <1>2 DEF Keeps
  <1>4. Without(s, S) = kept[n]
    BY DEF Without
  <1> HIDE DEF kept
  <1> DEFINE Good(k) == kept[k] \in Seq(X) /\ ToSet(kept[k]) = {s[i] : i \in 1..k} \ S
             Bad == {k \in 0..n : ~ Good(k)}
  <1>5. Bad = {}
    <2> SUFFICES ASSUME Bad # {} PROVE FALSE
      OBVIOUS
    <2>1. Bad \subseteq Nat
      BY <1>1
    <2> HIDE DEF Bad
    <2>2. PICK k \in Bad : \A m \in Bad : k <= m
      BY <2>1, LeastNatural
    <2>3. k \in 0..n /\ ~ Good(k)
      BY DEF Bad
    <2>4. k # 0
      <3>1. kept[0] = <<>>
        BY <1>1, <1>3 DEF Keeps
      <3>2. Good(0)
        BY <3>1 DEF ToSet
      <3> QED
        BY <2>3, <3>2
    <2>5. Good(k - 1)
      <3>1. k - 1 \in 0..n /\ ~ (k <= k - 1)
        BY <1>1, <2>3, <2>4
      <3>2. k - 1 \notin Bad
        BY <2>2, <3>1
      <3> QED
        BY <3>1, <3>2 DEF Bad
    <2>6. kept[k] = IF s[k] \in S THEN kept[k - 1] ELSE Append(kept[k - 1], s[k])
      BY <1>1, <1>3, <2>3, <2>4 DEF Keeps
    <2>7. s[k] \in X /\ {s[i] : i \in 1..k} = {s[i] : i \in 1..(k - 1)} \cup {s[k]}
      <3>1. k \in Nat /\ 1..k = 1..(k - 1) \cup {k} /\ k \in 1..Len(s)
        BY <1>1, <2>3, <2>4
      <3> QED
        BY <3>1
    <2> DEFINE q == kept[k - 1]
    <2>8. q \in Seq(X) /\ ToSet(q) = {s[i] : i \in 1..(k - 1)} \ S
      BY <2>5
    <2> HIDE DEF q, Good
    <2>9. /\ Append(q, s[k]) \in Seq(X)
          /\ ToSet(Append(q, s[k])) = ToSet(q) \cup {s[k]}
      <3>1. /\ Append(q, s[k]) \in Seq(X) /\ Len(Append(q, s[k])) = Len(q) + 1
            /\ \A i \in 1..Len(q) : Append(q, s[k])[i] = q[i]
            /\ Append(q, s[k])[Len(q) + 1] = s[k] /\ Len(q) \in Nat
        BY <2>7, <2>8
      <3>2. DOMAIN Append(q, s[k]) = 1..(Len(q) + 1) /\ DOMAIN q = 1..Len(q)
        BY <2>8, <3>1
      <3> QED
        BY <3>1, <3>2 DEF ToSet
    <2>10. kept[k] \in Seq(X) /\ ToSet(kept[k]) = {s[i] : i \in 1..k} \ S
      <3>1. CASE s[k] \in S
        BY <2>6, <2>7, <2>8, <3>1 DEF q
      <3>2. CASE s[k] \notin S
        BY <2>6, <2>7, <2>8, <2>9, <3>2 DEF q
      <3> QED
        BY <3>1, <3>2
    <2> QED
      BY <2>3, <2>10 DEF Good
  <1>6. n \in 0..n /\ Good(n)
    BY <1>1, <1>5, SMTT(30)
  <1>7. ToSet(s) = {s[i] : i \in 1..n}
    BY DEF ToSet
  <1> QED
    BY <1>4, <1>6, <1>7

\* A permutation of a finite set is a sequence of its elements, all of them.
LEMMA PermutationFacts ==
    ASSUME NEW S, IsFiniteSet(S), NEW s \in SetToSeqs(S)
    PROVE  s \in Seq(S) /\ ToSet(s) = S
  <1> DEFINE n == Cardinality(S)
  <1>1. n \in Nat
    BY FS_CardinalityType
  <1>2. s \in [1..n -> S] /\ \A i, j \in 1..n : i # j => s[i] # s[j]
    BY DEF SetToSeqs
  <1> HIDE DEF n
  <1>3. s \in Seq(S) /\ ToSet(s) \subseteq S /\ DOMAIN s = 1..n
    BY <1>1, <1>2 DEF ToSet
  <1>4. ASSUME NEW e \in S, e \notin ToSet(s) PROVE FALSE
    <2>1. s \in [1..n -> S \ {e}]
      BY <1>2, <1>4 DEF ToSet
    <2>2. IsFiniteSet(S \ {e}) /\ Cardinality(S \ {e}) = n - 1
      BY <1>4, FS_RemoveElement DEF n
    <2>3. IsFiniteSet(1..n) /\ Cardinality(1..n) = n
      BY <1>1, FS_Interval
    <2>4. Cardinality(1..n) > Cardinality(S \ {e})
      BY <1>1, <2>2, <2>3
    <2>5. \E i, j \in 1..n : i # j /\ s[i] = s[j]
      BY <2>1, <2>2, <2>3, <2>4, FS_PigeonHole
    <2> QED
      BY <1>2, <2>5
  <1> QED
    BY <1>3, <1>4

\* A sequence with more rows, and one that has lost its first.
LEMMA SequenceFacts ==
    ASSUME NEW X, NEW s \in Seq(X), NEW r \in Seq(X)
    PROVE  /\ s \o r \in Seq(X) /\ ToSet(s \o r) = ToSet(s) \cup ToSet(r)
           /\ IsFiniteSet(ToSet(s))
           /\ s # <<>> => /\ Head(s) \in ToSet(s) /\ Tail(s) \in Seq(X)
                          /\ ToSet(s) = ToSet(Tail(s)) \cup {Head(s)}
  <1>1. Len(s) \in Nat /\ DOMAIN s = 1..Len(s) /\ Len(r) \in Nat /\ DOMAIN r = 1..Len(r)
    OBVIOUS
  <1>2. s \o r \in Seq(X)
    OBVIOUS
  <1>3. ToSet(s \o r) = ToSet(s) \cup ToSet(r)
    <2>1. /\ DOMAIN (s \o r) = 1..(Len(s) + Len(r))
          /\ \A i \in 1..(Len(s) + Len(r)) :
               (s \o r)[i] = IF i <= Len(s) THEN s[i] ELSE r[i - Len(s)]
      OBVIOUS
    <2>2. ASSUME NEW e \in ToSet(s \o r) PROVE e \in ToSet(s) \cup ToSet(r)
      <3>1. PICK i \in 1..(Len(s) + Len(r)) : e = (s \o r)[i]
        BY <2>1 DEF ToSet
      <3>2. CASE i <= Len(s)
        BY <1>1, <2>1, <3>1, <3>2 DEF ToSet
      <3>3. CASE ~ (i <= Len(s))
        <4>1. i - Len(s) \in 1..Len(r)
          BY <1>1, <3>1, <3>3
        <4> QED
          BY <1>1, <2>1, <3>1, <3>3, <4>1 DEF ToSet
      <3> QED
        BY <3>2, <3>3
    <2>3. ASSUME NEW e \in ToSet(s) PROVE e \in ToSet(s \o r)
      <3>1. PICK i \in 1..Len(s) : e = s[i]
        BY <1>1 DEF ToSet
      <3>2. i \in 1..(Len(s) + Len(r)) /\ (s \o r)[i] = s[i]
        BY <1>1, <2>1
      <3> QED
        BY <2>1, <3>1, <3>2 DEF ToSet
    <2>4. ASSUME NEW e \in ToSet(r) PROVE e \in ToSet(s \o r)
      <3>1. PICK i \in 1..Len(r) : e = r[i]
        BY <1>1 DEF ToSet
      <3>2. PICK k : k = i + Len(s)
        OBVIOUS
      <3>3. k \in 1..(Len(s) + Len(r)) /\ ~ (k <= Len(s)) /\ k - Len(s) = i
        BY <1>1, <3>1, <3>2
      <3>4. (s \o r)[k] = r[i]
        BY <2>1, <3>3
      <3> QED
        BY <2>1, <3>1, <3>3, <3>4 DEF ToSet
    <2> QED
      BY <2>2, <2>3, <2>4
  <1>4. IsFiniteSet(ToSet(s))
    <2>1. IsFiniteSet(1..Len(s))
      BY <1>1, FS_Interval
    <2>2. s \in [1..Len(s) -> ToSet(s)] /\ \A e \in ToSet(s) : \E i \in 1..Len(s) : s[i] = e
      BY <1>1 DEF ToSet
    <2>3. s \in Surjection(1..Len(s), ToSet(s))
      BY <2>2 DEF Surjection
    <2> QED
      BY <2>1, <2>3, FS_Surjection
  <1>5. ASSUME s # <<>>
        PROVE  /\ Head(s) \in ToSet(s) /\ Tail(s) \in Seq(X)
               /\ ToSet(s) = ToSet(Tail(s)) \cup {Head(s)}
    <2>1. /\ Len(s) # 0 /\ Head(s) = s[1] /\ Tail(s) \in Seq(X)
          /\ DOMAIN Tail(s) = 1..(Len(s) - 1)
          /\ \A i \in 1..(Len(s) - 1) : Tail(s)[i] = s[i + 1]
      BY <1>1, <1>5
    <2>2. Head(s) \in ToSet(s)
      BY <1>1, <2>1 DEF ToSet
    <2>3. ASSUME NEW e \in ToSet(Tail(s)) PROVE e \in ToSet(s)
      <3>1. PICK i \in 1..(Len(s) - 1) : e = s[i + 1]
        BY <2>1 DEF ToSet
      <3> QED
        BY <1>1, <3>1 DEF ToSet
    <2>4. ASSUME NEW e \in ToSet(s), e # Head(s) PROVE e \in ToSet(Tail(s))
      <3>1. PICK i \in 1..Len(s) : e = s[i]
        BY <1>1 DEF ToSet
      <3>2. PICK k : k = i - 1
        OBVIOUS
      <3>3. k \in 1..(Len(s) - 1) /\ k + 1 = i
        BY <1>1, <2>1, <2>4, <3>1, <3>2
      <3> QED
        BY <2>1, <3>1, <3>3 DEF ToSet
    <2> QED
      BY <2>1, <2>2, <2>3, <2>4
  <1> QED
    BY <1>2, <1>3, <1>4, <1>5

-----------------------------------------------------------------------------
(* Fees.                                                                   *)

LEMMA DivUnique ==
    ASSUME NEW n \in Int, NEW d \in Nat \ {0}, NEW k \in Nat, NEW r \in Nat,
           n = d * k + r, r < d
    PROVE  n \div d = k
  <1> DEFINE q == n \div d
  <1>1. d * k \in Nat /\ n \in Nat
    BY SMT
  <1>2. q \in Nat /\ q * d <= n /\ n < (q + 1) * d
    BY <1>1, DivFacts
  <1> HIDE DEF q
  <1>3. d * k = k * d /\ (k + 1) * d = k * d + d /\ (q + 1) * d = q * d + d
    BY <1>2, SMT
  <1>4. k * d \in Nat /\ q * d \in Nat
    BY <1>2, SMT
  <1>5. ~ (q + 1 <= k)
    <2> SUFFICES ASSUME q + 1 <= k PROVE FALSE
      OBVIOUS
    <2>1. (q + 1) * d <= k * d
      BY <1>2, ProductMonotone
    <2> QED
      BY <1>2, <1>3, <1>4, <2>1
  <1>6. ~ (k + 1 <= q)
    <2> SUFFICES ASSUME k + 1 <= q PROVE FALSE
      OBVIOUS
    <2>1. (k + 1) * d <= q * d
      BY <1>2, ProductMonotone
    <2> QED
      BY <1>2, <1>3, <1>4, <2>1
  <1> QED
    BY <1>2, <1>5, <1>6 DEF q

\* What is stored of a fee and what is paid make up the total but for one unit, which
\* is lost where the fee is not whole.
LEMMA FeeFacts ==
    ASSUME NEW total \in Nat, NEW fee \in 0..FeeScale
    PROVE  LET stored == (total * fee) \div FeeScale
               paid == (total * FeeScale - total * fee) \div FeeScale
               part == IF (total * fee) % FeeScale = 0 THEN 0 ELSE 1
           IN  /\ stored \in Nat /\ paid \in Nat /\ part \in {0, 1}
               /\ paid + stored = total - part
               /\ total - paid = (total * fee + FeeScale - 1) \div FeeScale
  <1> DEFINE d == FeeScale
             x == total * fee
             q == x \div d
             r == x % d
  <1>1. d \in Nat \ {0} /\ fee \in Nat /\ fee <= d
    BY FeeAssumption
  <1>2. x \in Nat /\ total * d \in Nat /\ x <= total * d
    <2>1. fee * total <= d * total
      BY <1>1, ProductMonotone
    <2>2. fee * total = total * fee /\ d * total = total * d
      BY <1>1, SMT
    <2>3. total * fee \in Nat /\ total * d \in Nat
      BY <1>1, SMT
    <2> QED
      BY <2>1, <2>2, <2>3
  <1> HIDE DEF x, d
  <1>3. q \in Nat /\ r \in 0..(d - 1) /\ x = d * q + r
    <2>1. q \in Nat
      BY <1>1, <1>2, DivFacts
    <2> QED
      BY <1>1, <1>2, <2>1
  <1> HIDE DEF q, r
  <1> DEFINE part == IF r = 0 THEN 0 ELSE 1
             rest == IF r = 0 THEN 0 ELSE d - r
             k == total - q - part
  <1>4. part \in {0, 1} /\ rest \in Nat /\ rest < d
    BY <1>1, <1>3
  <1>5. q + part <= total
    <2> SUFFICES ASSUME total + 1 <= q + part PROVE FALSE
      BY <1>3, <1>4
    <2>1. CASE r = 0
      <3>1. (total + 1) * d <= q * d
        BY <1>1, <1>3, <2>1, ProductMonotone
      <3>2. (total + 1) * d = total * d + d /\ q * d = d * q /\ d * q \in Nat
        BY <1>1, <1>3, SMT
      <3> QED
        BY <1>1, <1>2, <1>3, <2>1, <3>1, <3>2
    <2>2. CASE r # 0
      <3>1. total * d <= q * d
        <4>1. total <= q
          BY <1>3, <2>2
        <4> QED
          BY <1>1, <1>3, <4>1, ProductMonotone
      <3>2. q * d = d * q /\ d * q \in Nat
        BY <1>1, <1>3, SMT
      <3> QED
        BY <1>1, <1>2, <1>3, <2>2, <3>1, <3>2
    <2> QED
      BY <2>1, <2>2
  <1>6. k \in Nat /\ total * d - x = d * k + rest
    <2>1. k \in Nat
      BY <1>3, <1>4, <1>5
    <2>2. d * k = total * d - d * q - d * part
      BY <1>1, <1>3, <1>4, SMT
    <2>3. d * part = IF r = 0 THEN 0 ELSE d
      BY <1>1, SMT
    <2>4. d * q \in Nat
      BY <1>1, <1>3, SMT
    <2> QED
      BY <1>1, <1>2, <1>3, <2>1, <2>2, <2>3, <2>4
  <1>7. (total * d - x) \div d = k
    <2>1. total * d - x \in Int
      BY <1>2
    <2> HIDE DEF k, rest
    <2> QED
      BY <1>1, <1>4, <1>6, <2>1, DivUnique
  <1>8. (x + d - 1) \div d = q + part
    <2> DEFINE l == IF r = 0 THEN d - 1 ELSE r - 1
    <2>1. l \in Nat /\ l < d
      BY <1>1, <1>3
    <2>2. d * (q + part) = d * q + (IF r = 0 THEN 0 ELSE d) /\ d * q \in Nat
      BY <1>1, <1>3, <1>4, SMT
    <2>3. x + d - 1 = d * (q + part) + l
      BY <1>1, <1>2, <1>3, <2>2
    <2>4. x + d - 1 \in Int /\ q + part \in Nat
      BY <1>1, <1>2, <1>3, <1>4
    <2> HIDE DEF l, part
    <2> QED
      BY <1>1, <2>1, <2>3, <2>4, DivUnique
  <1>9. k + q = total - part /\ total - k = q + part
    BY <1>3, <1>4, <1>5
  <1> QED
    BY <1>3, <1>4, <1>6, <1>7, <1>8, <1>9 DEF x, q, r, d

\* What a side of a trade is paid, and what the exchange keeps.
LEMMA PayoutFacts ==
    ASSUME NEW liquidity \in {"TAKER", "MAKER"}, NEW total \in Nat
    PROVE  /\ Payout(liquidity, total) \in Nat /\ StoredFee(liquidity, total) \in Nat
           /\ Payout(liquidity, total) + StoredFee(liquidity, total) =
                total - IF Fee(liquidity, total) % FeeScale = 0 THEN 0 ELSE 1
           /\ Payout(liquidity, total) <= total
           /\ total - Payout(liquidity, total) <= StoredFee(liquidity, total) + 1
  <1>1. PICK fee \in 0..FeeScale : fee = IF liquidity = "TAKER" THEN TakerFee ELSE MakerFee
    BY FeeAssumption
  <1> DEFINE part == IF (total * fee) % FeeScale = 0 THEN 0 ELSE 1
  <1>2. /\ Payout(liquidity, total) = (total * FeeScale - total * fee) \div FeeScale
        /\ StoredFee(liquidity, total) = (total * fee) \div FeeScale
        /\ Fee(liquidity, total) = total * fee
    BY <1>1 DEF Payout, StoredFee, Fee
  <1>3. /\ StoredFee(liquidity, total) \in Nat /\ Payout(liquidity, total) \in Nat
        /\ part \in {0, 1}
        /\ Payout(liquidity, total) + StoredFee(liquidity, total) = total - part
    <2> HIDE DEF part
    <2>1. LET stored == (total * fee) \div FeeScale
              paid == (total * FeeScale - total * fee) \div FeeScale
              p == IF (total * fee) % FeeScale = 0 THEN 0 ELSE 1
          IN  stored \in Nat /\ paid \in Nat /\ p \in {0, 1} /\ paid + stored = total - p
      BY <1>1, FeeFacts
    <2> QED
      BY <1>2, <2>1, Zenon DEF part
  <1>4. part = IF Fee(liquidity, total) % FeeScale = 0 THEN 0 ELSE 1
    BY <1>2
  <1> HIDE DEF part
  <1> QED
    BY <1>3, <1>4

\* What a refund pays and what it keeps.
LEMMA RefundFacts ==
    ASSUME NEW amount \in Nat
    PROVE  LET paid == (amount * (FeeScale - RefundFee)) \div FeeScale
           IN  /\ paid \in Nat
               /\ amount - paid = (amount * RefundFee + FeeScale - 1) \div FeeScale
               /\ (amount * RefundFee + FeeScale - 1) \div FeeScale \in Nat
  <1> DEFINE paid == (amount * FeeScale - amount * RefundFee) \div FeeScale
             stored == (amount * RefundFee) \div FeeScale
             part == IF (amount * RefundFee) % FeeScale = 0 THEN 0 ELSE 1
  <1>1. RefundFee \in 0..FeeScale /\ FeeScale \in Nat /\ RefundFee \in Nat
    BY FeeAssumption
  <1>2. /\ stored \in Nat /\ paid \in Nat /\ part \in {0, 1}
        /\ paid + stored = amount - part
        /\ amount - paid = (amount * RefundFee + FeeScale - 1) \div FeeScale
    BY <1>1, FeeFacts
  <1>3. amount * (FeeScale - RefundFee) = amount * FeeScale - amount * RefundFee
    BY <1>1, SMT
  <1>4. amount - paid \in Nat
    <2> HIDE DEF paid, stored, part
    <2> QED
      BY <1>2
  <1> QED
    BY <1>2, <1>3, <1>4

-----------------------------------------------------------------------------
(* Rows and their ids.                                                     *)

USE DEF Asset, Row

States == {"ABSENT", "PAID", "PENDING", "DONE", "CANCELLED", "REFUSED", "KEPT"}

LEMMA ValueFacts ==
    ASSUME NEW r, Remaining(r) \in Nat
    PROVE  Grain(AssetOf(r.side)) \in Nat \ {0} /\ Value(r) \in Nat
  <1>1. \A n, g \in Nat : n * g \in Nat
    BY SMT
  <1>2. Grain(AssetOf(r.side)) \in Nat \ {0}
    BY SettlementAssumption DEF Grain
  <1> QED
    BY <1>1, <1>2 DEF Value

LEMMA PaymentTypes ==
    ASSUME TypeOK
    PROVE  /\ \A o \in Order : /\ Remaining(order[o]) \in Nat
                               /\ Value(order[o]) \in Nat /\ excess[o] \in Nat
                               /\ Received(o) \in Nat
                               /\ AssetOf(order[o].side) \in Asset
                               /\ CancelRow(o) \in Transfer /\ RefundRow(o) \in Transfer
           /\ \A x \in trades : /\ TransferOf(Receiver(x), Other(x), x) \in Transfer
                                /\ Receiver(x) \in Order /\ Other(x) \in Order
  <1>1. ASSUME NEW o \in Order
        PROVE  /\ Remaining(order[o]) \in Nat /\ AssetOf(order[o].side) \in Asset
               /\ Value(order[o]) \in Nat /\ excess[o] \in Nat /\ Received(o) \in Nat
               /\ brokerOf[o] \in Broker
    <2>1. order[o] \in OrderRecord /\ brokerOf[o] \in Broker /\ excess[o] \in Nat
      BY DEF TypeOK
    <2>2. Remaining(order[o]) \in Nat /\ AssetOf(order[o].side) \in Asset
      BY <2>1 DEF OrderRecord, Remaining, AssetOf
    <2>3. Value(order[o]) \in Nat
      BY <2>2, ValueFacts
    <2> QED
      BY <2>1, <2>2, <2>3 DEF Received
  <1>2. ASSUME NEW o \in Order PROVE CancelRow(o) \in Transfer /\ RefundRow(o) \in Transfer
    <2>1. (Received(o) * (FeeScale - RefundFee)) \div FeeScale \in Nat
      BY <1>1, RefundFacts
    <2> QED
      BY <1>1, <2>1 DEF CancelRow, RefundRow, Refunded, Transfer
  <1>3. ASSUME NEW x \in trades
        PROVE  /\ TransferOf(Receiver(x), Other(x), x) \in Transfer
               /\ Receiver(x) \in Order /\ Other(x) \in Order
    <2>1. /\ x.taker \in Order /\ x.maker \in Order /\ x.liquidity \in {"TAKER", "MAKER"}
          /\ x.feeAsset \in Asset /\ x.total \in Nat
      BY DEF TypeOK, Trade
    <2>2. Receiver(x) \in Order /\ Other(x) \in Order
      BY <2>1 DEF Receiver, Other
    <2>3. Payer(Receiver(x), Other(x)) \in Broker
      BY <1>1, <2>2 DEF Payer
    <2>4. Payout(x.liquidity, x.total) \in Nat
      BY <2>1, PayoutFacts
    <2> QED
      BY <2>1, <2>2, <2>3, <2>4 DEF TransferOf, TransferId, Transfer
  <1> QED
    BY <1>1, <1>2, <1>3

\* An id stands for one transfer.
LEMMA OneTransferPerId ==
    ASSUME TypeOK, TradesOK, NEW t, NEW u, Explained(t), Explained(u), t.id = u.id
    PROVE  t = u
  <1>1. ASSUME NEW x \in trades
        PROVE  /\ x.liquidity \in {"TAKER", "MAKER"}
               /\ TransferOf(Receiver(x), Other(x), x).id.kind = x.liquidity
               /\ TransferOf(Receiver(x), Other(x), x).id.of = {x.taker, x.maker}
               /\ x.taker \in Order /\ x.maker \in Order
               /\ age[x.taker] \in Nat /\ age[x.maker] \in Nat /\ age[x.maker] < age[x.taker]
    BY DEF TypeOK, Trade, TradesOK, TransferOf, TransferId
  <1>2. ASSUME NEW o \in Order
        PROVE  /\ CancelRow(o).id.kind = "CANCEL" /\ CancelRow(o).id.of = {o}
               /\ RefundRow(o).id.kind = "REFUND" /\ RefundRow(o).id.of = {o}
    BY DEF CancelRow, RefundRow
  <1>3. CASE \E o \in Order : state[o] = "CANCELLED" /\ t = CancelRow(o)
    <2>1. PICK o \in Order : t = CancelRow(o)
      BY <1>3
    <2>2. t.id.kind = "CANCEL" /\ t.id.of = {o}
      BY <1>2, <2>1
    <2>3. PICK p \in Order : u = CancelRow(p)
      BY <1>1, <1>2, <2>2 DEF Explained
    <2>4. p = o
      BY <1>2, <2>2, <2>3
    <2> QED
      BY <2>1, <2>3, <2>4
  <1>4. CASE \E o \in Order : state[o] = "REFUSED" /\ t = RefundRow(o)
    <2>1. PICK o \in Order : t = RefundRow(o)
      BY <1>4
    <2>2. t.id.kind = "REFUND" /\ t.id.of = {o}
      BY <1>2, <2>1
    <2>3. PICK p \in Order : u = RefundRow(p)
      BY <1>1, <1>2, <2>2 DEF Explained
    <2>4. p = o
      BY <1>2, <2>2, <2>3
    <2> QED
      BY <2>1, <2>3, <2>4
  <1>5. CASE \E x \in trades : t = TransferOf(Receiver(x), Other(x), x)
    <2>1. PICK x \in trades : t = TransferOf(Receiver(x), Other(x), x)
      BY <1>5
    <2>2. t.id.kind = x.liquidity /\ t.id.of = {x.taker, x.maker}
      BY <1>1, <2>1
    <2>3. PICK y \in trades : u = TransferOf(Receiver(y), Other(y), y)
      BY <1>1, <1>2, <2>2 DEF Explained
    <2>4. y.liquidity = x.liquidity /\ {y.taker, y.maker} = {x.taker, x.maker}
      BY <1>1, <2>2, <2>3
    <2>5. y.taker = x.taker /\ y.maker = x.maker
      BY <1>1, <2>4
    <2>6. x = y
      BY <2>4, <2>5 DEF TradesOK
    <2> QED
      BY <2>1, <2>3, <2>6
  <1> QED
    BY <1>3, <1>4, <1>5 DEF Explained

\* What explains a transfer does not change any more.
LEMMA ExplainedStays ==
    ASSUME NEW t, Explained(t), UNCHANGED brokerOf, trades \subseteq trades',
           \A o \in Order : state[o] \in {"CANCELLED", "REFUSED"} =>
               state'[o] = state[o] /\ order'[o] = order[o] /\ excess'[o] = excess[o]
    PROVE  Explained(t)'
  <1>1. ASSUME NEW o \in Order, state[o] \in {"CANCELLED", "REFUSED"}
        PROVE  CancelRow(o)' = CancelRow(o) /\ RefundRow(o)' = RefundRow(o)
    BY <1>1 DEF CancelRow, RefundRow, Refunded, Received
  <1>2. \A x : TransferOf(Receiver(x), Other(x), x)' = TransferOf(Receiver(x), Other(x), x)
    BY DEF TransferOf, Payer, Receiver, Other
  <1>3. CASE \E o \in Order : state[o] = "CANCELLED" /\ t = CancelRow(o)
    BY <1>1, <1>3 DEF Explained
  <1>4. CASE \E o \in Order : state[o] = "REFUSED" /\ t = RefundRow(o)
    BY <1>1, <1>4 DEF Explained
  <1>5. CASE \E x \in trades : t = TransferOf(Receiver(x), Other(x), x)
    BY <1>2, <1>5 DEF Explained
  <1> QED
    BY <1>3, <1>4, <1>5 DEF Explained

LEMMA SettledStays ==
    ASSUME NEW t, Settled(t), payments \subseteq payments'
    PROVE  Settled(t)'
  BY DEF Settled, Known

-----------------------------------------------------------------------------
(* What a broker owes and earns, term by term.                             *)

LEMMA TermTypes ==
    ASSUME TypeOK, NEW b, NEW a
    PROVE  /\ \A t \in Transfer : Unpaid(t, b, a) \in Nat
           /\ \A o \in Order : Due(o, b, a) \in Nat /\ KeptOf(o, b, a) \in Nat
           /\ \A x \in trades : Commission(x, b, a) \in Nat
           /\ Rows \subseteq Transfer /\ IsFiniteSet(Rows)
  <1>1. ASSUME NEW t \in Transfer PROVE Unpaid(t, b, a) \in Nat
    BY DEF Unpaid, Transfer
  <1>2. ASSUME NEW o \in Order PROVE Due(o, b, a) \in Nat /\ KeptOf(o, b, a) \in Nat
    <2>1. Received(o) \in Nat /\ Value(order[o]) \in Nat /\ excess[o] \in Nat
      BY PaymentTypes
    <2>2. (Received(o) * RefundFee + FeeScale - 1) \div FeeScale \in Nat
      BY <2>1, RefundFacts
    <2> QED
      BY <2>1, <2>2 DEF Due, KeptOf
  <1>3. ASSUME NEW x \in trades PROVE Commission(x, b, a) \in Nat
    <2>1. x.fee \in Nat /\ x.maker \in Order
      BY DEF TypeOK, Trade
    <2>2. order[x.maker].price \in Nat
      BY <2>1 DEF TypeOK, OrderRecord
    <2>3. order[x.maker].price * FundsGrain \in Nat
      <3>1. \A n, g \in Nat : n * g \in Nat
        BY SMT
      <3> QED
        BY <2>2, <3>1, SettlementAssumption
    <2> QED
      BY <2>1, <2>3 DEF Commission
  <1>4. Rows \subseteq Transfer /\ IsFiniteSet(Rows)
    <2>1. transfers \in Seq(Transfer)
      BY DEF TypeOK
    <2>2. IsFiniteSet(Rows)
      BY <2>1, SequenceFacts DEF Rows
    <2> QED
      BY <2>1, <2>2 DEF Rows, ToSet
  <1> QED
    BY <1>1, <1>2, <1>3, <1>4

LEMMA SumTypes ==
    ASSUME TypeOK, OrdersOK, TradesOK, NEW b, NEW a
    PROVE  /\ OwedRows(b, a) \in Nat /\ OwedOrders(b, a) \in Nat
           /\ EarnedFees(b, a) \in Nat /\ EarnedOrders(b, a) \in Nat
  <1>1. /\ \A t \in Rows : Unpaid(t, b, a) \in Nat
        /\ \A o \in Placed : Due(o, b, a) \in Nat /\ KeptOf(o, b, a) \in Nat
        /\ \A x \in trades : Commission(x, b, a) \in Nat
        /\ IsFiniteSet(Rows) /\ IsFiniteSet(Placed) /\ IsFiniteSet(trades)
    BY TermTypes DEF OrdersOK, TradesOK, Placed
  <1>2. SumFunctionOnSet([t \in Rows |-> Unpaid(t, b, a)], Rows) \in Nat
    BY <1>1, SumType
  <1>3. SumFunctionOnSet([o \in Placed |-> Due(o, b, a)], Placed) \in Nat
    BY <1>1, SumType
  <1>4. SumFunctionOnSet([o \in Placed |-> KeptOf(o, b, a)], Placed) \in Nat
    BY <1>1, SumType
  <1>5. SumFunctionOnSet([x \in trades |-> Commission(x, b, a)], trades) \in Nat
    BY <1>1, SumType
  <1> QED
    BY <1>2, <1>3, <1>4, <1>5 DEF OwedRows, OwedOrders, EarnedOrders, EarnedFees

\* Insert adds rows, of ids that were free.
LEMMA InsertFacts ==
    ASSUME TypeOK, NEW s \in Seq(Transfer), Insert(s)
    PROVE  /\ transfers' \in Seq(Transfer) /\ Rows' = Rows \cup ToSet(s)
           /\ \A t \in Rows : \A u \in ToSet(s) : t.id # u.id
  <1>1. transfers \in Seq(Transfer) /\ transfers' = transfers \o s
    BY DEF TypeOK, Insert
  <1>2. /\ transfers \o s \in Seq(Transfer)
        /\ ToSet(transfers \o s) = ToSet(transfers) \cup ToSet(s)
    BY <1>1, SequenceFacts
  <1>3. \A t \in Rows : \A u \in ToSet(s) : t.id # u.id
    BY DEF Insert, Ids, ToSet
  <1> QED
    BY <1>1, <1>2, <1>3 DEF Rows

LEMMA RowWritten ==
    ASSUME TypeOK, NEW r \in Transfer, r \notin Rows, Rows' = Rows \cup {r},
           UNCHANGED payments, NEW b, NEW a
    PROVE  OwedRows(b, a)' = OwedRows(b, a) + Unpaid(r, b, a)
  <1>1. \A t : Unpaid(t, b, a)' = Unpaid(t, b, a)
    BY DEF Unpaid, Known
  <1>2. PICK T : T = Rows'
    OBVIOUS
  <1> DEFINE f == [t \in Rows |-> Unpaid(t, b, a)]
             g == [t \in T |-> Unpaid(t, b, a)]
  <1>3. OwedRows(b, a)' = SumFunctionOnSet(g, T) /\ OwedRows(b, a) = SumFunctionOnSet(f, Rows)
    BY <1>1, <1>2 DEF OwedRows
  <1>4. /\ IsFiniteSet(Rows) /\ T = Rows \cup {r}
        /\ \A t \in Rows : f[t] \in Int /\ g[t] = f[t]
        /\ g[r] = Unpaid(r, b, a) /\ g[r] \in Int
    BY <1>2, TermTypes
  <1> HIDE DEF f, g
  <1>5. SumFunctionOnSet(g, T) = SumFunctionOnSet(f, Rows) + g[r]
    BY <1>4, SumInsert
  <1> QED
    BY <1>3, <1>4, <1>5

LEMMA RowsWritten ==
    ASSUME TypeOK, NEW r \in Transfer, NEW s \in Transfer, r # s, r \notin Rows, s \notin Rows,
           Rows' = Rows \cup {r, s}, UNCHANGED payments, NEW b, NEW a
    PROVE  OwedRows(b, a)' = OwedRows(b, a) + Unpaid(r, b, a) + Unpaid(s, b, a)
  <1>1. \A t : Unpaid(t, b, a)' = Unpaid(t, b, a)
    BY DEF Unpaid, Known
  <1>2. PICK T : T = Rows'
    OBVIOUS
  <1>3. PICK S : S = Rows \cup {r}
    OBVIOUS
  <1> DEFINE f == [t \in Rows |-> Unpaid(t, b, a)]
             g == [t \in S |-> Unpaid(t, b, a)]
             h == [t \in T |-> Unpaid(t, b, a)]
  <1>4. OwedRows(b, a)' = SumFunctionOnSet(h, T) /\ OwedRows(b, a) = SumFunctionOnSet(f, Rows)
    BY <1>1, <1>2 DEF OwedRows
  <1>5. /\ IsFiniteSet(Rows) /\ T = S \cup {s} /\ s \notin S
        /\ \A t \in T : t \in Transfer /\ Unpaid(t, b, a) \in Int
    BY <1>2, <1>3, TermTypes
  <1>6. IsFiniteSet(S)
    BY <1>3, <1>5, FS_AddElement
  <1>7. /\ \A t \in Rows : f[t] \in Int /\ g[t] = f[t]
        /\ g[r] = Unpaid(r, b, a) /\ g[r] \in Int
        /\ \A t \in S : g[t] \in Int /\ h[t] = g[t]
        /\ h[s] = Unpaid(s, b, a) /\ h[s] \in Int
    BY <1>3, <1>5
  <1> HIDE DEF f, g, h
  <1>8. SumFunctionOnSet(g, S) = SumFunctionOnSet(f, Rows) + g[r]
    BY <1>3, <1>5, <1>7, SumInsert
  <1>9. SumFunctionOnSet(h, T) = SumFunctionOnSet(g, S) + h[s]
    <2>1. \A t \in S : g[t] \in Int /\ h[t] = g[t]
      BY <1>7
    <2>2. h[s] \in Int /\ T = S \cup {s} /\ s \notin S
      BY <1>5, <1>7
    <2> QED
      BY <1>6, <2>1, <2>2, SumInsert
  <1> QED
    BY <1>4, <1>7, <1>8, <1>9

LEMMA RowsDeleted ==
    ASSUME TypeOK, Rows' \subseteq Rows, \A t \in Rows \ Rows' : Settled(t),
           UNCHANGED payments, NEW b, NEW a
    PROVE  OwedRows(b, a)' = OwedRows(b, a)
  <1> DEFINE f == [t \in Rows |-> Unpaid(t, b, a)]
  <1>1. \A t : Unpaid(t, b, a)' = Unpaid(t, b, a)
    BY DEF Unpaid, Known
  <1>2. PICK S : S = Rows'
    OBVIOUS
  <1> DEFINE g == [t \in S |-> Unpaid(t, b, a)]
  <1>3. OwedRows(b, a)' = SumFunctionOnSet(g, S) /\ OwedRows(b, a) = SumFunctionOnSet(f, Rows)
    BY <1>1, <1>2 DEF OwedRows
  <1>4. /\ IsFiniteSet(Rows) /\ S \in SUBSET Rows
        /\ \A t \in Rows : f[t] \in Int
        /\ \A t \in S : g[t] = f[t]
    BY <1>2, TermTypes
  <1>5. \A t \in Rows \ S : f[t] = 0
    BY <1>2 DEF Settled, Unpaid
  <1> HIDE DEF f, g
  <1> QED
    BY <1>3, <1>4, <1>5, SumOver

LEMMA RowPaid ==
    ASSUME TypeOK, NEW r \in Rows, ~ Known(r), \A t \in Rows : t.id = r.id => t = r,
           UNCHANGED transfers, payments' = payments \cup {r}, NEW b, NEW a
    PROVE  OwedRows(b, a)' = OwedRows(b, a) - Unpaid(r, b, a)
  <1> DEFINE f == [t \in Rows |-> Unpaid(t, b, a)]
             g == [t \in Rows |-> IF t = r THEN 0 ELSE Unpaid(t, b, a)]
  <1>1. Known(r)' /\ \A t \in Rows : t # r => Known(t)' = Known(t)
    BY DEF Known
  <1>2. Unpaid(r, b, a)' = 0 /\ \A t \in Rows : t # r => Unpaid(t, b, a)' = Unpaid(t, b, a)
    BY <1>1 DEF Unpaid
  <1>3. Rows' = Rows
    BY DEF Rows
  <1>4. OwedRows(b, a)' = SumFunctionOnSet(g, Rows)
    <2>1. g = [t \in Rows |-> Unpaid(t, b, a)']
      BY <1>2
    <2> HIDE DEF g
    <2> QED
      BY <1>3, <2>1 DEF OwedRows
  <1>5. OwedRows(b, a) = SumFunctionOnSet(f, Rows)
    BY DEF OwedRows
  <1>6. /\ IsFiniteSet(Rows)
        /\ \A t \in Rows : f[t] \in Int /\ g[t] \in Int
        /\ \A t \in Rows \ {r} : g[t] = f[t]
        /\ g[r] = 0 /\ f[r] = Unpaid(r, b, a)
    BY TermTypes
  <1> HIDE DEF f, g
  <1>7. SumFunctionOnSet(g, Rows) = SumFunctionOnSet(f, Rows) - f[r] + g[r]
    BY <1>6, SumChange
  <1>8. SumFunctionOnSet(f, Rows) \in Int /\ f[r] \in Int
    BY <1>6, SumType
  <1> QED
    BY <1>4, <1>5, <1>6, <1>7, <1>8

LEMMA OrdersSame ==
    ASSUME UNCHANGED Placed, NEW b, NEW a,
           \A o \in Placed : Due(o, b, a)' = Due(o, b, a) /\ KeptOf(o, b, a)' = KeptOf(o, b, a)
    PROVE  /\ OwedOrders(b, a)' = OwedOrders(b, a)
           /\ EarnedOrders(b, a)' = EarnedOrders(b, a)
  <1>1. /\ [o \in Placed |-> Due(o, b, a)]' = [o \in Placed |-> Due(o, b, a)]
        /\ [o \in Placed |-> KeptOf(o, b, a)]' = [o \in Placed |-> KeptOf(o, b, a)]
    OBVIOUS
  <1> QED
    BY <1>1 DEF OwedOrders, EarnedOrders

\* The share of one order changes; d and k are what it becomes.
LEMMA OrderChanges ==
    ASSUME TypeOK, OrdersOK, UNCHANGED Placed, NEW p \in Placed, NEW b, NEW a,
           NEW d \in Int, NEW k \in Int, Due(p, b, a)' = d, KeptOf(p, b, a)' = k,
           \A o \in Placed \ {p} :
               Due(o, b, a)' = Due(o, b, a) /\ KeptOf(o, b, a)' = KeptOf(o, b, a)
    PROVE  /\ OwedOrders(b, a)' = OwedOrders(b, a) - Due(p, b, a) + d
           /\ EarnedOrders(b, a)' = EarnedOrders(b, a) - KeptOf(p, b, a) + k
  <1> DEFINE f == [o \in Placed |-> Due(o, b, a)]
             g == [o \in Placed |-> IF o = p THEN d ELSE Due(o, b, a)]
             u == [o \in Placed |-> KeptOf(o, b, a)]
             v == [o \in Placed |-> IF o = p THEN k ELSE KeptOf(o, b, a)]
  <1>1. g = [o \in Placed |-> Due(o, b, a)'] /\ v = [o \in Placed |-> KeptOf(o, b, a)']
    OBVIOUS
  <1>2. /\ IsFiniteSet(Placed) /\ \A o \in Placed : f[o] \in Int /\ g[o] \in Int
        /\ \A o \in Placed : u[o] \in Int /\ v[o] \in Int
        /\ \A o \in Placed \ {p} : g[o] = f[o]
        /\ \A o \in Placed \ {p} : v[o] = u[o]
        /\ f[p] = Due(p, b, a) /\ g[p] = d /\ u[p] = KeptOf(p, b, a) /\ v[p] = k
    BY TermTypes DEF OrdersOK, Placed
  <1>3. OwedOrders(b, a) = SumFunctionOnSet(f, Placed) /\ EarnedOrders(b, a) = SumFunctionOnSet(u, Placed)
    BY DEF OwedOrders, EarnedOrders
  <1> HIDE DEF f, g, u, v
  <1>4. OwedOrders(b, a)' = SumFunctionOnSet(g, Placed) /\ EarnedOrders(b, a)' = SumFunctionOnSet(v, Placed)
    BY <1>1 DEF OwedOrders, EarnedOrders
  <1>5. SumFunctionOnSet(g, Placed) = SumFunctionOnSet(f, Placed) - f[p] + g[p]
    BY <1>2, SumChange
  <1>6. SumFunctionOnSet(v, Placed) = SumFunctionOnSet(u, Placed) - u[p] + v[p]
    BY <1>2, SumChange
  <1> QED
    BY <1>2, <1>3, <1>4, <1>5, <1>6

\* The debts to two orders change.
LEMMA TwoOrdersChange ==
    ASSUME TypeOK, OrdersOK, UNCHANGED Placed, NEW p \in Placed, NEW q \in Placed, p # q,
           NEW b, NEW a, NEW d \in Int, NEW e \in Int, Due(p, b, a)' = d, Due(q, b, a)' = e,
           \A o \in Placed \ {p, q} : Due(o, b, a)' = Due(o, b, a)
    PROVE  OwedOrders(b, a)' = OwedOrders(b, a) - Due(p, b, a) + d - Due(q, b, a) + e
  <1> DEFINE f == [o \in Placed |-> Due(o, b, a)]
             g == [o \in Placed |-> IF o = p THEN d ELSE IF o = q THEN e ELSE Due(o, b, a)]
  <1>1. g = [o \in Placed |-> Due(o, b, a)']
    OBVIOUS
  <1>2. /\ IsFiniteSet(Placed) /\ \A o \in Placed : f[o] \in Int /\ g[o] \in Int
        /\ \A o \in Placed \ {p, q} : g[o] = f[o]
        /\ f[p] = Due(p, b, a) /\ g[p] = d /\ f[q] = Due(q, b, a) /\ g[q] = e
    BY TermTypes DEF OrdersOK, Placed
  <1>3. OwedOrders(b, a) = SumFunctionOnSet(f, Placed)
    BY DEF OwedOrders
  <1> HIDE DEF f, g
  <1>4. OwedOrders(b, a)' = SumFunctionOnSet(g, Placed)
    BY <1>1 DEF OwedOrders
  <1>5. SumFunctionOnSet(g, Placed) = SumFunctionOnSet(f, Placed) - f[p] + g[p] - f[q] + g[q]
    BY <1>2, SumChangeTwo
  <1> QED
    BY <1>2, <1>3, <1>4, <1>5

\* An order arrives.
LEMMA OrderArrives ==
    ASSUME TypeOK, OrdersOK, NEW p \in Order, p \notin Placed, Placed' = Placed \cup {p},
           NEW b, NEW a, NEW d \in Int, Due(p, b, a)' = d, KeptOf(p, b, a)' = 0,
           \A o \in Placed : Due(o, b, a)' = Due(o, b, a) /\ KeptOf(o, b, a)' = KeptOf(o, b, a)
    PROVE  /\ OwedOrders(b, a)' = OwedOrders(b, a) + d
           /\ EarnedOrders(b, a)' = EarnedOrders(b, a)
  <1>1. PICK T : T = Placed'
    OBVIOUS
  <1> DEFINE f == [o \in Placed |-> Due(o, b, a)]
             g == [o \in T |-> IF o = p THEN d ELSE Due(o, b, a)]
             u == [o \in Placed |-> KeptOf(o, b, a)]
             v == [o \in T |-> IF o = p THEN 0 ELSE KeptOf(o, b, a)]
  <1>2. g = [o \in T |-> Due(o, b, a)'] /\ v = [o \in T |-> KeptOf(o, b, a)']
    BY <1>1
  <1>3. /\ IsFiniteSet(Placed) /\ T = Placed \cup {p}
        /\ \A o \in Placed : f[o] \in Int /\ g[o] = f[o]
        /\ \A o \in Placed : u[o] \in Int /\ v[o] = u[o]
        /\ g[p] = d /\ v[p] = 0
    BY <1>1, TermTypes, SMTT(30) DEF OrdersOK, Placed
  <1>4. OwedOrders(b, a) = SumFunctionOnSet(f, Placed) /\ EarnedOrders(b, a) = SumFunctionOnSet(u, Placed)
    BY DEF OwedOrders, EarnedOrders
  <1> HIDE DEF f, g, u, v
  <1>5. OwedOrders(b, a)' = SumFunctionOnSet(g, T) /\ EarnedOrders(b, a)' = SumFunctionOnSet(v, T)
    BY <1>1, <1>2 DEF OwedOrders, EarnedOrders
  <1>6. SumFunctionOnSet(g, T) = SumFunctionOnSet(f, Placed) + g[p]
    BY <1>3, SumInsert
  <1>7. SumFunctionOnSet(v, T) = SumFunctionOnSet(u, Placed) + v[p] /\ SumFunctionOnSet(u, Placed) \in Int
    BY <1>3, SumInsert, SumType, SMTT(30)
  <1> QED
    BY <1>3, <1>4, <1>5, <1>6, <1>7

\* Two trades are made; c and d are what the payers may keep of them.
LEMMA TradesMade ==
    ASSUME TypeOK, TradesOK, NEW x, NEW y, x # y, x \notin trades, y \notin trades,
           trades' = trades \cup {x, y}, NEW b, NEW a, NEW c \in Int, NEW d \in Int,
           Commission(x, b, a)' = c, Commission(y, b, a)' = d,
           \A z \in trades : Commission(z, b, a)' = Commission(z, b, a)
    PROVE  EarnedFees(b, a)' = EarnedFees(b, a) + c + d
  <1>1. PICK T : T = trades'
    OBVIOUS
  <1>2. PICK S : S = trades \cup {x}
    OBVIOUS
  <1> DEFINE f == [z \in trades |-> Commission(z, b, a)]
             g == [z \in S |-> IF z = x THEN c ELSE Commission(z, b, a)]
             h == [z \in T |-> IF z = x THEN c ELSE IF z = y THEN d ELSE Commission(z, b, a)]
  <1>3. h = [z \in T |-> Commission(z, b, a)']
    BY <1>1
  <1>4. /\ IsFiniteSet(trades) /\ T = S \cup {y} /\ y \notin S
        /\ \A z \in trades : f[z] \in Int /\ g[z] = f[z]
        /\ g[x] = c
        /\ \A z \in S : g[z] \in Int /\ h[z] = g[z]
        /\ h[y] = d
    <2>1. IsFiniteSet(trades) /\ T = S \cup {y} /\ y \notin S
      BY <1>1, <1>2 DEF TradesOK
    <2>2. \A z \in trades : Commission(z, b, a) \in Int
      BY TermTypes
    <2>3. /\ \A z \in trades : f[z] = Commission(z, b, a) /\ g[z] = f[z]
          /\ g[x] = c
      BY <1>2
    <2>4. \A z \in S : h[z] = g[z] /\ (z = x \/ z \in trades)
      BY <1>2, <2>1
    <2>5. h[y] = d
      BY <2>1
    <2> HIDE DEF f, g, h
    <2> QED
      BY <2>1, <2>2, <2>3, <2>4, <2>5
  <1>5. IsFiniteSet(S)
    BY <1>2, <1>4, FS_AddElement
  <1>6. EarnedFees(b, a) = SumFunctionOnSet(f, trades)
    BY DEF EarnedFees
  <1> HIDE DEF f, g, h
  <1>7. EarnedFees(b, a)' = SumFunctionOnSet(h, T)
    BY <1>1, <1>3 DEF EarnedFees
  <1>8. SumFunctionOnSet(g, S) = SumFunctionOnSet(f, trades) + g[x]
    BY <1>2, <1>4, SumInsert
  <1>9. SumFunctionOnSet(h, T) = SumFunctionOnSet(g, S) + h[y]
    <2>1. \A z \in S : g[z] \in Int /\ h[z] = g[z]
      BY <1>4
    <2>2. h[y] \in Int /\ T = S \cup {y} /\ y \notin S
      BY <1>4
    <2> QED
      BY <1>5, <2>1, <2>2, SumInsert
  <1> QED
    BY <1>4, <1>6, <1>7, <1>8, <1>9

LEMMA FeesSame ==
    ASSUME UNCHANGED trades, NEW b, NEW a,
           \A x \in trades : Commission(x, b, a)' = Commission(x, b, a)
    PROVE  EarnedFees(b, a)' = EarnedFees(b, a)
  <1>1. [x \in trades |-> Commission(x, b, a)]' = [x \in trades |-> Commission(x, b, a)]
    OBVIOUS
  <1> QED
    BY <1>1 DEF EarnedFees

LEMMA RowsSame ==
    ASSUME UNCHANGED <<transfers, payments>>, NEW b, NEW a
    PROVE  OwedRows(b, a)' = OwedRows(b, a)
  BY DEF OwedRows, Rows, Unpaid, Known

-----------------------------------------------------------------------------
(* What the steps have in common.                                          *)

Balanced(b, a) ==
    wallet[b][a] >= Owed(b, a) /\ wallet[b][a] - Owed(b, a) <= Earned(b, a)

\* A step keeps the balance of a broker when what it adds to the wallet and not to the
\* debts is no less than nothing and no more than what it earns.
LEMMA BalanceKept ==
    ASSUME SettlementIInv, NEW b \in Broker, NEW a \in Asset,
           NEW w \in Int, NEW r \in Int, NEW d \in Int, NEW f \in Int, NEW k \in Int,
           wallet'[b][a] = wallet[b][a] + w,
           OwedRows(b, a)' = OwedRows(b, a) + r, OwedOrders(b, a)' = OwedOrders(b, a) + d,
           EarnedFees(b, a)' = EarnedFees(b, a) + f,
           EarnedOrders(b, a)' = EarnedOrders(b, a) + k,
           r + d <= w, w - r - d <= f + k
    PROVE  Balanced(b, a)'
  <1>1. /\ OwedRows(b, a) \in Nat /\ OwedOrders(b, a) \in Nat
        /\ EarnedFees(b, a) \in Nat /\ EarnedOrders(b, a) \in Nat
    BY SumTypes DEF SettlementIInv
  <1>2. wallet[b][a] \in Nat
    BY DEF SettlementIInv, TypeOK
  <1>3. /\ wallet[b][a] >= OwedRows(b, a) + OwedOrders(b, a)
        /\ wallet[b][a] - (OwedRows(b, a) + OwedOrders(b, a)) <= EarnedFees(b, a) + EarnedOrders(b, a)
    BY DEF SettlementIInv, BrokersSolvent, OnlyFeesAreKept, Owed, Earned
  <1>4. /\ wallet'[b][a] >= OwedRows(b, a)' + OwedOrders(b, a)'
        /\ wallet'[b][a] - (OwedRows(b, a)' + OwedOrders(b, a)') <= EarnedFees(b, a)' + EarnedOrders(b, a)'
    BY <1>1, <1>2, <1>3
  <1> QED
    BY <1>4 DEF Balanced, Owed, Earned

LEMMA AllBalanced ==
    ASSUME \A b \in Broker, a \in Asset : Balanced(b, a)'
    PROVE  BrokersSolvent' /\ OnlyFeesAreKept'
  BY DEF BrokersSolvent, OnlyFeesAreKept, Balanced

\* What a step leaves of the orders that are done with.
FinishedStay ==
    /\ UNCHANGED brokerOf /\ trades \subseteq trades' /\ payments \subseteq payments'
    /\ \A o \in Order : state[o] \in {"CANCELLED", "REFUSED"} =>
         state'[o] = state[o] /\ order'[o] = order[o] /\ excess'[o] = excess[o]

LEMMA RowsStay ==
    ASSUME SettlementIInv, FinishedStay,
           \A t \in Rows' \cup payments' : t \in Rows \cup payments \/ Explained(t)',
           \A t \in Rows : t \in Rows' \/ Settled(t)',
           \A o \in Order : state'[o] = "CANCELLED" => state[o] = "CANCELLED" \/ CancelRow(o)' \in Rows'
    PROVE  RowsOK'
  <1>1. ASSUME NEW t \in Rows' \cup payments' PROVE Explained(t)'
    <2>1. CASE t \in Rows \cup payments
      <3>1. Explained(t)
        BY <2>1 DEF SettlementIInv, RowsOK
      <3> QED
        BY <3>1, ExplainedStays DEF FinishedStay
    <2> QED
      BY <2>1
  <1>2. ASSUME NEW o \in Order, state'[o] = "CANCELLED"
        PROVE  CancelRow(o)' \in Rows' \/ Settled(CancelRow(o))'
    <2>1. CASE state[o] = "CANCELLED"
      <3>1. PICK t : t = CancelRow(o)
        OBVIOUS
      <3>2. CancelRow(o)' = t
        BY <2>1, <3>1 DEF FinishedStay, CancelRow
      <3>3. t \in Rows \/ Settled(t)
        BY <2>1, <3>1 DEF SettlementIInv, RowsOK
      <3>4. t \in Rows' \/ Settled(t)'
        BY <3>3, SettledStays DEF FinishedStay
      <3> QED
        BY <3>2, <3>4 DEF Settled, Known
    <2> QED
      BY <1>2, <2>1
  <1> QED
    BY <1>1, <1>2 DEF RowsOK

LEMMA QueuesStay ==
    ASSUME SettlementIInv, FinishedStay, \A t \in Rows : t \in Rows' \/ Settled(t)',
           UNCHANGED poller
    PROVE  QueuesOK'
  <1> SUFFICES ASSUME NEW b \in Broker, NEW t \in batch[b]
               PROVE  /\ t.broker = b /\ Explained(t)'
                      /\ t \in Rows' \/ Settled(t)'
                      /\ t \in ToSet(unsent[b]) \/ Settled(t)'
    BY DEF QueuesOK, poller
  <1>1. /\ t.broker = b /\ Explained(t)
        /\ t \in Rows \/ Settled(t)
        /\ t \in ToSet(unsent[b]) \/ Settled(t)
    BY DEF SettlementIInv, QueuesOK
  <1>2. Explained(t)'
    BY <1>1, ExplainedStays DEF FinishedStay
  <1>3. Settled(t) => Settled(t)'
    BY SettledStays DEF FinishedStay
  <1> QED
    BY <1>1, <1>2, <1>3

\* A step that makes no trade leaves the trades as they are.
LEMMA TradesStay ==
    ASSUME SettlementIInv, UNCHANGED <<order, brokerOf, trades>>,
           \A o \in Order : state[o] \notin {"ABSENT", "PAID", "REFUSED", "KEPT"} =>
               state'[o] \notin {"ABSENT", "PAID", "REFUSED", "KEPT"} /\ age'[o] = age[o]
    PROVE  TradesOK' /\ \A b, a : EarnedFees(b, a)' = EarnedFees(b, a)
  <1>1. ASSUME NEW b, NEW a PROVE EarnedFees(b, a)' = EarnedFees(b, a)
    <2>1. \A x \in trades : Commission(x, b, a)' = Commission(x, b, a)
      BY DEF Commission, PayerOf
    <2> QED
      BY <2>1, FeesSame
  <1>2. \A x \in trades : x.taker \in Order /\ x.maker \in Order
    BY DEF SettlementIInv, TypeOK, Trade
  <1>3. TradesOK'
    BY <1>2 DEF SettlementIInv, TradesOK, Receiver, StoredFee, Fee
  <1> QED
    BY <1>1, <1>3

\* A step that touches no order.
LEMMA TablesStay ==
    ASSUME SettlementIInv, UNCHANGED <<tables, brokerOf>>
    PROVE  /\ OrdersOK' /\ TradesOK'
           /\ \A b, a : /\ EarnedFees(b, a)' = EarnedFees(b, a)
                        /\ EarnedOrders(b, a)' = EarnedOrders(b, a)
                        /\ OwedOrders(b, a)' = OwedOrders(b, a)
  <1>1. UNCHANGED <<order, excess, state, age, trades, brokerOf, Placed>>
    BY DEF tables, Placed
  <1>2. OrdersOK'
    BY <1>1 DEF SettlementIInv, OrdersOK
  <1>3. TradesOK' /\ \A b, a : EarnedFees(b, a)' = EarnedFees(b, a)
    BY <1>1, TradesStay
  <1>4. ASSUME NEW b, NEW a
        PROVE  EarnedOrders(b, a)' = EarnedOrders(b, a) /\ OwedOrders(b, a)' = OwedOrders(b, a)
    <2>1. \A o \in Placed : Due(o, b, a)' = Due(o, b, a) /\ KeptOf(o, b, a)' = KeptOf(o, b, a)
      BY <1>1 DEF Due, KeptOf, SentTo, Received
    <2> QED
      BY <1>1, <2>1, OrdersSame
  <1> QED
    BY <1>2, <1>3, <1>4

-----------------------------------------------------------------------------
(* The steps.                                                              *)

LEMMA DepositStep ==
    ASSUME SettlementIInv, NEW o \in Order, Deposit(o)
    PROVE  SettlementIInv'
  <1>0. PICK e \in 0..(Grain(AssetOf(order[o].side)) - 1) :
          /\ excess' = [excess EXCEPT ![o] = e]
          /\ wallet' = [wallet EXCEPT ![brokerOf[o]][AssetOf(order[o].side)] = @ + Deposited(o, e)]
    BY DEF Deposit
  <1> DEFINE broker == brokerOf[o]
             asset == AssetOf(order[o].side)
             amount == Value(order[o]) + e
  <1>1. /\ TypeOK /\ OrdersOK /\ state[o] = "ABSENT" /\ state' = [state EXCEPT ![o] = "PAID"]
        /\ wallet' = [wallet EXCEPT ![broker][asset] = @ + amount]
        /\ UNCHANGED <<order, brokerOf, age, trades, transfers, batch, unsent, payments,
                       restarts, lost>>
    BY <1>0 DEF Deposit, Deposited, poller, SettlementIInv
  <1>2. e \in Nat /\ amount \in Nat /\ asset \in Asset /\ broker \in Broker
    <2>1. Grain(asset) \in Nat /\ Value(order[o]) \in Nat
      BY <1>1, PaymentTypes, ValueFacts
    <2>2. e \in Nat
      BY <1>0, <2>1
    <2>3. asset \in Asset /\ broker \in Broker
      BY <1>1, PaymentTypes DEF TypeOK
    <2> HIDE DEF asset, broker
    <2> QED
      BY <2>1, <2>2, <2>3
  <1> HIDE DEF amount, asset, broker
  <1>3. TypeOK'
    <2>1. wallet' \in [Broker -> [Asset -> Nat]]
      BY <1>1, <1>2, SMTT(30) DEF TypeOK
    <2>2. state' \in [Order -> States]
      BY <1>1 DEF TypeOK, States
    <2>3. excess' \in [Order -> Nat]
      BY <1>0, <1>1, <1>2 DEF TypeOK
    <2> QED
      BY <1>1, <2>1, <2>2, <2>3 DEF TypeOK, States
  <1>4. /\ state'[o] = "PAID" /\ excess'[o] = e
        /\ \A n \in Order : n # o => state'[n] = state[n] /\ excess'[n] = excess[n]
    BY <1>0, <1>1 DEF TypeOK
  <1>5. Placed' = Placed \cup {o} /\ o \notin Placed
    BY <1>1, <1>4 DEF Placed
  <1>6. OrdersOK'
    <2>1. IsFiniteSet(Placed')
      BY <1>1, <1>5, FS_AddElement DEF OrdersOK
    <2> QED
      BY <1>1, <1>4, <2>1 DEF OrdersOK
  <1>7. TradesOK' /\ \A b, a : EarnedFees(b, a)' = EarnedFees(b, a)
    BY <1>1, <1>4, TradesStay
  <1>8. FinishedStay /\ UNCHANGED <<Rows, poller>>
    BY <1>1, <1>4 DEF FinishedStay, Rows, poller
  <1>9. RowsOK'
    BY <1>1, <1>4, <1>8, RowsStay
  <1>10. QueuesOK'
    BY <1>8, QueuesStay
  <1>11. ASSUME NEW b \in Broker, NEW a \in Asset PROVE Balanced(b, a)'
    <2> DEFINE d == IF broker = b /\ asset = a THEN amount ELSE 0
    <2>1. /\ Due(o, b, a)' = d /\ KeptOf(o, b, a)' = 0
          /\ \A n \in Placed : Due(n, b, a)' = Due(n, b, a) /\ KeptOf(n, b, a)' = KeptOf(n, b, a)
      BY <1>1, <1>4, <1>5 DEF Due, KeptOf, SentTo, Received, Placed, broker, asset, amount
    <2>2. d \in Int
      BY <1>2
    <2>3. wallet'[b][a] = wallet[b][a] + d
      BY <1>1, <1>2, SMTT(30) DEF TypeOK
    <2> HIDE DEF d
    <2>4. OwedOrders(b, a)' = OwedOrders(b, a) + d /\ EarnedOrders(b, a)' = EarnedOrders(b, a)
      BY <1>1, <1>5, <2>1, <2>2, OrderArrives
    <2>5. OwedRows(b, a)' = OwedRows(b, a)
      BY <1>1, RowsSame
    <2>6. /\ OwedRows(b, a) \in Nat /\ EarnedFees(b, a) \in Nat /\ EarnedOrders(b, a) \in Nat
      BY SumTypes DEF SettlementIInv
    <2>7. /\ OwedRows(b, a)' = OwedRows(b, a) + 0
          /\ EarnedFees(b, a)' = EarnedFees(b, a) + 0
          /\ EarnedOrders(b, a)' = EarnedOrders(b, a) + 0
      BY <1>7, <2>4, <2>5, <2>6
    <2> QED
      BY <2>2, <2>3, <2>4, <2>7, BalanceKept
  <1>12. BrokersSolvent' /\ OnlyFeesAreKept'
    BY <1>11, AllBalanced
  <1> QED
    BY <1>3, <1>6, <1>7, <1>9, <1>10, <1>12 DEF SettlementIInv

LEMMA BalanceMoves ==
    ASSUME SettlementIInv, NEW b \in Broker, NEW a \in Asset, NEW k \in Nat,
           wallet'[b][a] = wallet[b][a], OwedRows(b, a)' = OwedRows(b, a),
           OwedOrders(b, a)' = OwedOrders(b, a) - k, EarnedFees(b, a)' = EarnedFees(b, a),
           EarnedOrders(b, a)' = EarnedOrders(b, a) + k
    PROVE  Balanced(b, a)'
  <1>1. /\ OwedRows(b, a) \in Nat /\ OwedOrders(b, a) \in Nat
        /\ EarnedFees(b, a) \in Nat /\ EarnedOrders(b, a) \in Nat
    BY SumTypes DEF SettlementIInv
  <1>2. wallet[b][a] \in Nat
    BY DEF SettlementIInv, TypeOK
  <1>3. /\ wallet[b][a] >= OwedRows(b, a) + OwedOrders(b, a)
        /\ wallet[b][a] - (OwedRows(b, a) + OwedOrders(b, a))
             <= EarnedFees(b, a) + EarnedOrders(b, a)
    BY DEF SettlementIInv, BrokersSolvent, OnlyFeesAreKept, Owed, Earned
  <1>4. /\ wallet'[b][a] >= OwedRows(b, a)' + OwedOrders(b, a)'
        /\ wallet'[b][a] - (OwedRows(b, a)' + OwedOrders(b, a)')
             <= EarnedFees(b, a)' + EarnedOrders(b, a)'
    BY <1>1, <1>2, <1>3
  <1> QED
    BY <1>4 DEF Balanced, Owed, Earned

\* The share of one order passes from the debts of its broker to what it keeps.
LEMMA ShareMoves ==
    ASSUME SettlementIInv, NEW o \in Placed, UNCHANGED <<Placed, wallet, transfers, payments>>,
           \A b, a : EarnedFees(b, a)' = EarnedFees(b, a), NEW v \in Nat, NEW e \in Nat,
           \A b, a : /\ Due(o, b, a) = (IF SentTo(o, b, a) THEN v + e ELSE 0)
                    /\ Due(o, b, a)' = (IF SentTo(o, b, a) THEN v ELSE 0)
                    /\ KeptOf(o, b, a) = 0
                    /\ KeptOf(o, b, a)' = (IF SentTo(o, b, a) THEN e ELSE 0)
                    /\ \A n \in Placed \ {o} :
                         Due(n, b, a)' = Due(n, b, a) /\ KeptOf(n, b, a)' = KeptOf(n, b, a)
    PROVE  BrokersSolvent' /\ OnlyFeesAreKept'
  <1>1. ASSUME NEW b \in Broker, NEW a \in Asset PROVE Balanced(b, a)'
    <2>1. TypeOK /\ OrdersOK
      BY DEF SettlementIInv
    <2>2. PICK d \in Int : d = IF SentTo(o, b, a) THEN v ELSE 0
      OBVIOUS
    <2>3. PICK k \in Nat : k = IF SentTo(o, b, a) THEN e ELSE 0
      OBVIOUS
    <2>4. /\ Due(o, b, a) = d + k /\ Due(o, b, a)' = d
          /\ KeptOf(o, b, a) = 0 /\ KeptOf(o, b, a)' = k
          /\ \A n \in Placed \ {o} :
               Due(n, b, a)' = Due(n, b, a) /\ KeptOf(n, b, a)' = KeptOf(n, b, a)
      BY <2>2, <2>3
    <2>5. /\ OwedOrders(b, a)' = OwedOrders(b, a) - Due(o, b, a) + d
          /\ EarnedOrders(b, a)' = EarnedOrders(b, a) - KeptOf(o, b, a) + k
      BY <2>1, <2>4, OrderChanges
    <2>6. OwedRows(b, a)' = OwedRows(b, a)
      BY RowsSame
    <2>7. /\ OwedRows(b, a) \in Nat /\ OwedOrders(b, a) \in Nat
          /\ EarnedFees(b, a) \in Nat /\ EarnedOrders(b, a) \in Nat
      BY SumTypes DEF SettlementIInv
    <2>8. /\ OwedOrders(b, a)' = OwedOrders(b, a) - k
          /\ EarnedOrders(b, a)' = EarnedOrders(b, a) + k
      BY <2>2, <2>3, <2>4, <2>5, <2>7
    <2>9. EarnedFees(b, a)' = EarnedFees(b, a) /\ wallet'[b][a] = wallet[b][a]
      OBVIOUS
    <2> QED
      BY <2>3, <2>6, <2>8, <2>9, BalanceMoves
  <1> QED
    BY <1>1, AllBalanced

LEMMA CreateOrderActionStep ==
    ASSUME SettlementIInv, NEW o \in Order, CreateOrderAction(o)
    PROVE  SettlementIInv'
  <1>1. /\ TypeOK /\ OrdersOK /\ state[o] = "PAID" /\ state' = [state EXCEPT ![o] = "PENDING"]
        /\ age' = [age EXCEPT ![o] = 1 + Cardinality({n \in Order : age[n] # 0})]
        /\ UNCHANGED <<order, excess, brokerOf, trades, transfers, batch, unsent, payments, wallet,
                       restarts, lost>>
    BY DEF CreateOrderAction, poller, network, SettlementIInv
  <1>2. 1 + Cardinality({n \in Order : age[n] # 0}) \in Nat
    <2>1. {n \in Order : age[n] # 0} \subseteq Placed
      BY <1>1 DEF OrdersOK, Placed
    <2>2. IsFiniteSet({n \in Order : age[n] # 0})
      BY <1>1, <2>1, FS_Subset DEF OrdersOK
    <2> QED
      BY <2>2, FS_CardinalityType
  <1>3. TypeOK'
    BY <1>1, <1>2 DEF TypeOK
  <1>4. /\ state'[o] = "PENDING" /\ \A n \in Order : n # o => state'[n] = state[n]
        /\ \A n \in Order : n # o => age'[n] = age[n]
    BY <1>1 DEF TypeOK
  <1>5. Placed' = Placed /\ o \in Placed
    BY <1>1, <1>4 DEF Placed
  <1>6. OrdersOK'
    BY <1>1, <1>4, <1>5 DEF OrdersOK
  <1>7. TradesOK' /\ \A b, a : EarnedFees(b, a)' = EarnedFees(b, a)
    BY <1>1, <1>4, TradesStay
  <1>8. FinishedStay /\ UNCHANGED <<Rows, poller>>
    BY <1>1, <1>4 DEF FinishedStay, Rows, poller
  <1>9. RowsOK'
    BY <1>1, <1>4, <1>8, RowsStay
  <1>10. QueuesOK'
    BY <1>8, QueuesStay
  <1>11. BrokersSolvent' /\ OnlyFeesAreKept'
    <2>1. \A b, a : /\ Due(o, b, a) = (IF SentTo(o, b, a) THEN Received(o) ELSE 0)
                   /\ Due(o, b, a)' = (IF SentTo(o, b, a) THEN Value(order[o]) ELSE 0)
                   /\ KeptOf(o, b, a) = 0
                   /\ KeptOf(o, b, a)' = (IF SentTo(o, b, a) THEN excess[o] ELSE 0)
                   /\ \A n \in Placed \ {o} :
                        Due(n, b, a)' = Due(n, b, a) /\ KeptOf(n, b, a)' = KeptOf(n, b, a)
      BY <1>1, <1>4, <1>5 DEF Due, KeptOf, SentTo, Received, Placed
    <2>2. Received(o) = Value(order[o]) + excess[o]
      BY DEF Received
    <2>3. Value(order[o]) \in Nat /\ excess[o] \in Nat
      BY <1>1, PaymentTypes
    <2> QED
      BY <1>1, <1>5, <1>7, <2>1, <2>2, <2>3, ShareMoves
  <1> QED
    BY <1>3, <1>6, <1>7, <1>9, <1>10, <1>11 DEF SettlementIInv

LEMMA KeepPaymentStep ==
    ASSUME SettlementIInv, NEW o \in Order, KeepPayment(o)
    PROVE  SettlementIInv'
  <1>1. /\ TypeOK /\ OrdersOK /\ state[o] = "PAID" /\ state' = [state EXCEPT ![o] = "KEPT"]
        /\ UNCHANGED <<order, excess, brokerOf, age, trades, transfers, batch, unsent, payments,
                       wallet, restarts, lost>>
    BY DEF KeepPayment, poller, network, SettlementIInv
  <1>2. TypeOK'
    BY <1>1 DEF TypeOK
  <1>3. state'[o] = "KEPT" /\ \A n \in Order : n # o => state'[n] = state[n]
    BY <1>1 DEF TypeOK
  <1>4. Placed' = Placed /\ o \in Placed
    BY <1>1, <1>3 DEF Placed
  <1>5. OrdersOK'
    BY <1>1, <1>3, <1>4 DEF OrdersOK
  <1>6. TradesOK' /\ \A b, a : EarnedFees(b, a)' = EarnedFees(b, a)
    BY <1>1, <1>3, TradesStay
  <1>7. FinishedStay /\ UNCHANGED <<Rows, poller>>
    BY <1>1, <1>3 DEF FinishedStay, Rows, poller
  <1>8. RowsOK'
    BY <1>1, <1>3, <1>7, RowsStay
  <1>9. QueuesOK'
    BY <1>7, QueuesStay
  <1>10. BrokersSolvent' /\ OnlyFeesAreKept'
    <2>1. Received(o) \in Nat
      BY <1>1, PaymentTypes
    <2>2. \A b, a : /\ Due(o, b, a) = (IF SentTo(o, b, a) THEN 0 + Received(o) ELSE 0)
                   /\ Due(o, b, a)' = (IF SentTo(o, b, a) THEN 0 ELSE 0)
                   /\ KeptOf(o, b, a) = 0
                   /\ KeptOf(o, b, a)' = (IF SentTo(o, b, a) THEN Received(o) ELSE 0)
                   /\ \A n \in Placed \ {o} :
                        Due(n, b, a)' = Due(n, b, a) /\ KeptOf(n, b, a)' = KeptOf(n, b, a)
      <3>1. Received(o)' = Received(o) /\ Received(o) = 0 + Received(o)
        BY <1>1, <2>1 DEF Received
      <3> QED
        BY <1>1, <1>3, <1>4, <3>1 DEF Due, KeptOf, SentTo, Received, Placed
    <2> QED
      BY <1>1, <1>4, <1>6, <2>1, <2>2, ShareMoves
  <1> QED
    BY <1>2, <1>5, <1>6, <1>8, <1>9, <1>10 DEF SettlementIInv

\* The id of a row that is written for the first time is not known to the network.
LEMMA NewRow ==
    ASSUME SettlementIInv, NEW t, \A u \in Rows \cup payments : u.id # t.id
    PROVE  t \notin Rows /\ ~ Known(t)
  BY DEF Known

LEMMA RefundSnapshotStep ==
    ASSUME SettlementIInv, NEW o \in Order, RefundSnapshot(o)
    PROVE  SettlementIInv'
  <1>1. PICK r : r = RefundRow(o)
    OBVIOUS
  <1>2. PICK s : s = IF r.amount = 0 THEN <<>> ELSE <<r>>
    OBVIOUS
  <1>3. /\ TypeOK /\ OrdersOK /\ TradesOK
        /\ state[o] = "PAID" /\ state' = [state EXCEPT ![o] = "REFUSED"] /\ Insert(s)
        /\ UNCHANGED <<order, excess, brokerOf, age, trades, batch, unsent, payments, wallet,
                       restarts, lost>>
    BY <1>1, <1>2 DEF RefundSnapshot, poller, network, SettlementIInv
  <1>4. r \in Transfer /\ s \in Seq(Transfer) /\ ToSet(s) = IF r.amount = 0 THEN {} ELSE {r}
    BY <1>1, <1>2, <1>3, PaymentTypes DEF ToSet
  <1>5. transfers' \in Seq(Transfer) /\ Rows' = Rows \cup ToSet(s)
    BY <1>3, <1>4, InsertFacts
  <1>6. /\ state'[o] = "REFUSED" /\ \A n \in Order : n # o => state'[n] = state[n]
        /\ state' \in [Order -> States]
    BY <1>3 DEF TypeOK, States
  <1>7. TypeOK'
    BY <1>3, <1>5, <1>6 DEF TypeOK, States
  <1>8. Placed' = Placed /\ o \in Placed
    BY <1>3, <1>6 DEF Placed
  <1>9. OrdersOK'
    BY <1>3, <1>6, <1>8 DEF OrdersOK
  <1>10. TradesOK' /\ \A b, a : EarnedFees(b, a)' = EarnedFees(b, a)
    BY <1>3, <1>6, TradesStay
  <1>11. FinishedStay
    BY <1>3, <1>6 DEF FinishedStay
  <1>12. Explained(r)'
    <2>1. RefundRow(o)' = r
      BY <1>1, <1>3 DEF RefundRow, Refunded, Received
    <2> QED
      BY <1>6, <2>1 DEF Explained
  <1>13. RowsOK'
    BY <1>3, <1>4, <1>5, <1>6, <1>11, <1>12, RowsStay
  <1>14. QueuesOK'
    BY <1>3, <1>5, <1>11, QueuesStay DEF poller
  <1>15. \A u \in Rows \cup payments : u.id # r.id
    <2> SUFFICES ASSUME NEW u \in Rows \cup payments, u.id = r.id PROVE FALSE
      OBVIOUS
    <2>1. Explained(u)
      BY DEF SettlementIInv, RowsOK
    <2>2. r.id.kind = "REFUND" /\ r.id.of = {o}
      BY <1>1 DEF RefundRow
    <2>3. \A n \in Order : CancelRow(n).id.kind = "CANCEL" /\ RefundRow(n).id.of = {n}
      BY DEF CancelRow, RefundRow
    <2>4. \A x \in trades : TransferOf(Receiver(x), Other(x), x).id.kind = x.liquidity
      BY DEF TransferOf, TransferId
    <2>5. \A x \in trades : x.liquidity # "REFUND"
      BY <1>3 DEF TypeOK, Trade
    <2>6. PICK n \in Order : state[n] = "REFUSED" /\ u = RefundRow(n)
      BY <2>1, <2>2, <2>3, <2>4, <2>5 DEF Explained
    <2>7. n = o
      BY <2>2, <2>3, <2>6
    <2> QED
      BY <1>3, <2>6, <2>7
  <1>16. r \notin Rows /\ ~ Known(r)
    BY <1>15, NewRow
  <1>17. ASSUME NEW b \in Broker, NEW a \in Asset PROVE Balanced(b, a)'
    <2> DEFINE mine == SentTo(o, b, a)
               amount == Received(o)
               kept == (amount * RefundFee + FeeScale - 1) \div FeeScale
    <2>1. /\ amount \in Nat /\ r.amount \in Nat /\ kept \in Nat
          /\ amount - r.amount = kept
      <3>1. amount \in Nat
        BY <1>3, PaymentTypes
      <3>2. r.amount = (amount * (FeeScale - RefundFee)) \div FeeScale
        BY <1>1 DEF RefundRow, Refunded
      <3> HIDE DEF amount
      <3> QED
        BY <3>1, <3>2, RefundFacts
    <2>2. /\ Due(o, b, a) = (IF mine THEN amount ELSE 0) /\ Due(o, b, a)' = 0
          /\ KeptOf(o, b, a) = 0 /\ KeptOf(o, b, a)' = (IF mine THEN kept ELSE 0)
          /\ \A n \in Placed \ {o} :
               Due(n, b, a)' = Due(n, b, a) /\ KeptOf(n, b, a)' = KeptOf(n, b, a)
      BY <1>3, <1>6, <1>8 DEF Due, KeptOf, SentTo, Received, Placed
    <2>3. Unpaid(r, b, a) = IF mine THEN r.amount ELSE 0
      BY <1>1, <1>16 DEF Unpaid, RefundRow, SentTo
    <2>4. OwedRows(b, a)' = OwedRows(b, a) + Unpaid(r, b, a)
      <3>1. CASE r.amount = 0
        <4>1. Rows' = Rows
          BY <1>4, <1>5, <3>1
        <4>2. OwedRows(b, a)' = OwedRows(b, a)
          BY <1>3, <4>1, RowsDeleted
        <4>3. OwedRows(b, a) \in Nat
          BY SumTypes DEF SettlementIInv
        <4> QED
          BY <2>3, <3>1, <4>2, <4>3
      <3>2. CASE r.amount # 0
        <4>1. Rows' = Rows \cup {r}
          BY <1>4, <1>5, <3>2
        <4> QED
          BY <1>3, <1>4, <1>16, <4>1, RowWritten
      <3> QED
        BY <3>1, <3>2
    <2> HIDE DEF mine, amount, kept
    <2> DEFINE k == IF mine THEN kept ELSE 0
    <2>5. k \in Int
      BY <2>1
    <2>6. /\ OwedOrders(b, a)' = OwedOrders(b, a) - Due(o, b, a) + 0
          /\ EarnedOrders(b, a)' = EarnedOrders(b, a) - KeptOf(o, b, a) + k
      <3> HIDE DEF k
      <3>1. KeptOf(o, b, a)' = k
        BY <2>2 DEF k
      <3> QED
        BY <1>3, <1>8, <2>2, <2>5, <3>1, OrderChanges
    <2> DEFINE d == 0 - Due(o, b, a)
               u == Unpaid(r, b, a)
    <2>7. /\ OwedRows(b, a) \in Nat /\ OwedOrders(b, a) \in Nat
          /\ EarnedFees(b, a) \in Nat /\ EarnedOrders(b, a) \in Nat
      BY SumTypes DEF SettlementIInv
    <2>8. /\ d \in Int /\ u \in Int /\ u + d <= 0 /\ 0 - u - d <= k
      BY <2>1, <2>2, <2>3
    <2>9. /\ OwedOrders(b, a)' = OwedOrders(b, a) + d
          /\ EarnedOrders(b, a)' = EarnedOrders(b, a) + k
      BY <2>1, <2>2, <2>5, <2>6, <2>7
    <2>10. /\ EarnedFees(b, a)' = EarnedFees(b, a) + 0
           /\ wallet'[b][a] = wallet[b][a] + 0
      BY <1>3, <1>10, <2>7, SMTT(30) DEF TypeOK
    <2> HIDE DEF d, u, k
    <2>11. OwedRows(b, a)' = OwedRows(b, a) + u
      BY <2>4 DEF u
    <2>12. u + d <= 0 /\ 0 - u - d <= 0 + k
      BY <2>5, <2>8
    <2> QED
      BY <2>5, <2>8, <2>9, <2>10, <2>11, <2>12, BalanceKept
  <1>18. BrokersSolvent' /\ OnlyFeesAreKept'
    BY <1>17, AllBalanced
  <1> QED
    BY <1>7, <1>9, <1>10, <1>13, <1>14, <1>18 DEF SettlementIInv

LEMMA CancelOrderStep ==
    ASSUME SettlementIInv, NEW o \in Order, CancelOrder(o)
    PROVE  SettlementIInv'
  <1>1. PICK r : r = CancelRow(o)
    OBVIOUS
  <1>2. /\ TypeOK /\ OrdersOK /\ TradesOK
        /\ state[o] = "PENDING" /\ state' = [state EXCEPT ![o] = "CANCELLED"] /\ Insert(<<r>>)
        /\ UNCHANGED <<order, excess, brokerOf, age, trades, batch, unsent, payments, wallet,
                       restarts, lost>>
    BY <1>1 DEF CancelOrder, poller, network, SettlementIInv
  <1>3. r \in Transfer /\ <<r>> \in Seq(Transfer) /\ ToSet(<<r>>) = {r}
    BY <1>1, <1>2, PaymentTypes DEF ToSet
  <1>4. transfers' \in Seq(Transfer) /\ Rows' = Rows \cup {r}
    BY <1>2, <1>3, InsertFacts
  <1>5. /\ state'[o] = "CANCELLED" /\ \A n \in Order : n # o => state'[n] = state[n]
        /\ state' \in [Order -> States]
    BY <1>2 DEF TypeOK, States
  <1>6. TypeOK'
    BY <1>2, <1>4, <1>5 DEF TypeOK, States
  <1>7. Placed' = Placed /\ o \in Placed
    BY <1>2, <1>5 DEF Placed
  <1>8. OrdersOK'
    BY <1>2, <1>5, <1>7 DEF OrdersOK
  <1>9. TradesOK' /\ \A b, a : EarnedFees(b, a)' = EarnedFees(b, a)
    BY <1>2, <1>5, TradesStay
  <1>10. FinishedStay
    BY <1>2, <1>5 DEF FinishedStay
  <1>11. Explained(r)' /\ CancelRow(o)' = r
    <2>1. CancelRow(o)' = r
      BY <1>1, <1>2 DEF CancelRow
    <2> QED
      BY <1>5, <2>1 DEF Explained
  <1>12. RowsOK'
    <2>1. \A n \in Order : state'[n] = "CANCELLED" => state[n] = "CANCELLED" \/ CancelRow(n)' \in Rows'
      <3> SUFFICES ASSUME NEW n \in Order, state'[n] = "CANCELLED"
                   PROVE  state[n] = "CANCELLED" \/ CancelRow(n)' \in Rows'
        OBVIOUS
      <3>1. CASE n = o
        BY <1>4, <1>11, <3>1
      <3>2. CASE n # o
        BY <1>5, <3>2
      <3> QED
        BY <3>1, <3>2
    <2> QED
      BY <1>2, <1>4, <1>10, <1>11, <2>1, RowsStay
  <1>13. QueuesOK'
    BY <1>2, <1>4, <1>10, QueuesStay DEF poller
  <1>14. \A u \in Rows \cup payments : u.id # r.id
    <2> SUFFICES ASSUME NEW u \in Rows \cup payments, u.id = r.id PROVE FALSE
      OBVIOUS
    <2>1. Explained(u)
      BY DEF SettlementIInv, RowsOK
    <2>2. r.id.kind = "CANCEL" /\ r.id.of = {o}
      BY <1>1 DEF CancelRow
    <2>3. \A n \in Order : RefundRow(n).id.kind = "REFUND" /\ CancelRow(n).id.of = {n}
      BY DEF CancelRow, RefundRow
    <2>4. \A x \in trades : TransferOf(Receiver(x), Other(x), x).id.kind = x.liquidity
      BY DEF TransferOf, TransferId
    <2>5. \A x \in trades : x.liquidity # "CANCEL"
      BY <1>2 DEF TypeOK, Trade
    <2>6. PICK n \in Order : state[n] = "CANCELLED" /\ u = CancelRow(n)
      BY <2>1, <2>2, <2>3, <2>4, <2>5 DEF Explained
    <2>7. n = o
      BY <2>2, <2>3, <2>6
    <2> QED
      BY <1>2, <2>6, <2>7
  <1>15. r \notin Rows /\ ~ Known(r)
    BY <1>14, NewRow
  <1>16. ASSUME NEW b \in Broker, NEW a \in Asset PROVE Balanced(b, a)'
    <2>1. /\ Due(o, b, a)' = 0 /\ KeptOf(o, b, a)' = KeptOf(o, b, a)
          /\ \A n \in Placed \ {o} :
               Due(n, b, a)' = Due(n, b, a) /\ KeptOf(n, b, a)' = KeptOf(n, b, a)
      BY <1>2, <1>5, <1>7 DEF Due, KeptOf, SentTo, Received, Placed
    <2>2. Unpaid(r, b, a) = Due(o, b, a)
      BY <1>1, <1>2, <1>15 DEF Unpaid, Due, CancelRow, SentTo
    <2>3. OwedRows(b, a)' = OwedRows(b, a) + Unpaid(r, b, a)
      BY <1>2, <1>3, <1>4, <1>15, RowWritten
    <2>4. /\ OwedOrders(b, a)' = OwedOrders(b, a) - Due(o, b, a) + 0
          /\ EarnedOrders(b, a)' = EarnedOrders(b, a) - KeptOf(o, b, a) + KeptOf(o, b, a)
      <3>1. PICK k \in Nat : k = KeptOf(o, b, a)
        BY <1>2, TermTypes
      <3> QED
        BY <1>2, <1>7, <2>1, <3>1, OrderChanges
    <2>5. /\ OwedRows(b, a) \in Nat /\ OwedOrders(b, a) \in Nat
          /\ EarnedFees(b, a) \in Nat /\ EarnedOrders(b, a) \in Nat
      BY SumTypes DEF SettlementIInv
    <2>6. Due(o, b, a) \in Nat /\ KeptOf(o, b, a) \in Nat
      BY <1>2, TermTypes
    <2>7. Owed(b, a)' = Owed(b, a) /\ Earned(b, a)' = Earned(b, a)
      BY <1>9, <2>1, <2>2, <2>3, <2>4, <2>5, <2>6 DEF Owed, Earned
    <2> QED
      BY <1>2, <2>7 DEF Balanced, SettlementIInv, BrokersSolvent, OnlyFeesAreKept
  <1>17. BrokersSolvent' /\ OnlyFeesAreKept'
    BY <1>16, AllBalanced
  <1> QED
    BY <1>6, <1>8, <1>9, <1>12, <1>13, <1>17 DEF SettlementIInv

\* A step that touches neither orders nor wallets keeps the balances when the debts in
\* table transfers stay.
LEMMA BalancesStay ==
    ASSUME SettlementIInv, UNCHANGED <<tables, brokerOf, wallet>>,
           \A b \in Broker, a \in Asset : OwedRows(b, a)' = OwedRows(b, a)
    PROVE  BrokersSolvent' /\ OnlyFeesAreKept'
  <1>1. ASSUME NEW b \in Broker, NEW a \in Asset PROVE Balanced(b, a)'
    <2>1. Owed(b, a)' = Owed(b, a) /\ Earned(b, a)' = Earned(b, a)
      BY TablesStay DEF Owed, Earned
    <2> QED
      BY <2>1 DEF Balanced, SettlementIInv, BrokersSolvent, OnlyFeesAreKept
  <1> QED
    BY <1>1, AllBalanced

\* What is written again has been settled: its row was deleted.
LEMMA CancelOrderAgainStep ==
    ASSUME SettlementIInv, NEW o \in Order, CancelOrderAgain(o)
    PROVE  SettlementIInv'
  <1>1. PICK r : r = CancelRow(o)
    OBVIOUS
  <1>2. /\ TypeOK /\ state[o] = "CANCELLED" /\ Insert(<<r>>)
        /\ lost < MaxLostReplies /\ lost' = lost + 1
        /\ UNCHANGED <<tables, order, excess, state, age, trades, brokerOf, poller, batch, unsent,
                       payments, wallet, restarts>>
    BY <1>1 DEF CancelOrderAgain, poller, network, tables, SettlementIInv
  <1>3. r \in Transfer /\ <<r>> \in Seq(Transfer) /\ ToSet(<<r>>) = {r}
    BY <1>1, <1>2, PaymentTypes DEF ToSet
  <1>4. transfers' \in Seq(Transfer) /\ Rows' = Rows \cup {r} /\ r \notin Rows
    BY <1>2, <1>3, InsertFacts
  <1>5. TypeOK'
    <2>1. lost' \in 0..MaxLostReplies
      BY <1>2, SettlementAssumption DEF TypeOK
    <2> QED
      BY <1>2, <1>4, <2>1 DEF TypeOK
  <1>6. OrdersOK' /\ TradesOK'
    BY <1>2, TablesStay
  <1>7. FinishedStay
    BY <1>2 DEF FinishedStay
  <1>8. Explained(r)'
    <2>1. CancelRow(o)' = r
      BY <1>1, <1>2 DEF CancelRow
    <2> QED
      BY <1>2, <2>1 DEF Explained
  <1>9. RowsOK'
    BY <1>2, <1>4, <1>7, <1>8, RowsStay
  <1>10. QueuesOK'
    BY <1>2, <1>4, <1>7, QueuesStay
  <1>11. Settled(r)
    BY <1>1, <1>2, <1>4 DEF SettlementIInv, RowsOK
  <1>12. ASSUME NEW b \in Broker, NEW a \in Asset
         PROVE  OwedRows(b, a)' = OwedRows(b, a)
    <2>1. OwedRows(b, a)' = OwedRows(b, a) + Unpaid(r, b, a)
      BY <1>2, <1>3, <1>4, RowWritten
    <2>2. Unpaid(r, b, a) = 0
      BY <1>11 DEF Settled, Unpaid
    <2>3. OwedRows(b, a) \in Nat
      BY SumTypes DEF SettlementIInv
    <2> QED
      BY <2>1, <2>2, <2>3
  <1>13. BrokersSolvent' /\ OnlyFeesAreKept'
    BY <1>2, <1>12, BalancesStay
  <1> QED
    BY <1>5, <1>6, <1>9, <1>10, <1>13 DEF SettlementIInv

LEMMA ListPendingTransfersStep ==
    ASSUME SettlementIInv, NEW b \in Broker, ListPendingTransfers(b)
    PROVE  SettlementIInv'
  <1>1. PICK mine : mine = Without(transfers, {t \in Rows : t.broker # b})
    OBVIOUS
  <1>2. PICK n : n = IF Len(mine) < TransferLimit THEN Len(mine) ELSE TransferLimit
    OBVIOUS
  <1>3. PICK listed : listed = {mine[i] : i \in 1..n}
    OBVIOUS
  <1>4. /\ TypeOK /\ batch[b] = {} /\ batch' = [batch EXCEPT ![b] = listed]
        /\ UNCHANGED <<tables, order, excess, state, age, trades, brokerOf, transfers, payments,
                       wallet, restarts, lost>>
    BY <1>1, <1>2, <1>3 DEF ListPendingTransfers, network, tables, SettlementIInv
  <1>5. PICK s \in SetToSeqs(listed) : unsent' = [unsent EXCEPT ![b] = s]
    <2> DEFINE m == Without(transfers, {t \in Rows : t.broker # b})
               l == {m[i] : i \in 1..(IF Len(m) < TransferLimit THEN Len(m) ELSE TransferLimit)}
    <2>1. \E s \in SetToSeqs(l) : unsent' = [unsent EXCEPT ![b] = s]
      BY DEF ListPendingTransfers
    <2>2. l = listed
      BY <1>1, <1>2, <1>3
    <2> HIDE DEF l
    <2> QED
      BY <2>1, <2>2
  <1>6. mine \in Seq(Transfer) /\ ToSet(mine) = Rows \ {t \in Rows : t.broker # b}
    BY <1>1, <1>4, WithoutFacts DEF TypeOK, Rows
  <1>7. \A t \in listed : t \in Rows /\ t.broker = b
    <2> SUFFICES ASSUME NEW t \in listed PROVE t \in ToSet(mine)
      BY <1>6
    <2>1. PICK i \in 1..n : t = mine[i]
      BY <1>3
    <2>2. i \in 1..Len(mine)
      BY <1>2, <1>6, <2>1, SettlementAssumption
    <2> QED
      BY <1>6, <2>1, <2>2 DEF ToSet
  <1>8. listed \subseteq Transfer /\ IsFiniteSet(listed)
    <2>1. listed \subseteq Rows
      BY <1>7
    <2>2. IsFiniteSet(Rows) /\ Rows \subseteq Transfer
      BY <1>4, TermTypes
    <2> QED
      BY <2>1, <2>2, FS_Subset
  <1>9. s \in Seq(listed) /\ ToSet(s) = listed
    BY <1>8, PermutationFacts
  <1>10. /\ batch'[b] = listed /\ \A c \in Broker : c # b => batch'[c] = batch[c]
         /\ unsent'[b] = s /\ \A c \in Broker : c # b => unsent'[c] = unsent[c]
    BY <1>4, <1>5 DEF TypeOK
  <1>11. TypeOK'
    <2>1. s \in Seq(Transfer)
      BY <1>8, <1>9
    <2>2. batch' \in [Broker -> SUBSET Transfer] /\ unsent' \in [Broker -> Seq(Transfer)]
      BY <1>4, <1>5, <1>8, <2>1 DEF TypeOK
    <2>3. \A c \in Broker : ToSet(unsent'[c]) \subseteq batch'[c]
      BY <1>4, <1>9, <1>10 DEF TypeOK
    <2> QED
      BY <1>4, <2>2, <2>3 DEF TypeOK
  <1>12. OrdersOK' /\ TradesOK'
    BY <1>4, TablesStay
  <1>13. FinishedStay /\ Rows' = Rows
    BY <1>4 DEF FinishedStay, Rows
  <1>14. RowsOK'
    BY <1>4, <1>13, RowsStay
  <1>15. QueuesOK'
    <2> SUFFICES ASSUME NEW c \in Broker, NEW t \in batch'[c]
                 PROVE  /\ t.broker = c /\ Explained(t)'
                        /\ t \in Rows' \/ Settled(t)'
                        /\ t \in ToSet(unsent'[c]) \/ Settled(t)'
      BY DEF QueuesOK
    <2>1. CASE c = b
      <3>1. t \in listed /\ t \in Rows /\ t.broker = b
        BY <1>7, <1>10, <2>1
      <3>2. Explained(t)
        BY <3>1 DEF SettlementIInv, RowsOK
      <3>3. Explained(t)'
        BY <1>13, <3>2, ExplainedStays DEF FinishedStay
      <3> QED
        BY <1>9, <1>10, <1>13, <2>1, <3>1, <3>3
    <2>2. CASE c # b
      <3>1. t \in batch[c]
        BY <1>10, <2>2
      <3>2. /\ t.broker = c /\ Explained(t)
            /\ t \in Rows \/ Settled(t)
            /\ t \in ToSet(unsent[c]) \/ Settled(t)
        BY <3>1 DEF SettlementIInv, QueuesOK
      <3>3. Explained(t)'
        BY <1>13, <3>2, ExplainedStays DEF FinishedStay
      <3>4. Settled(t)' = Settled(t)
        BY <1>4 DEF Settled, Known
      <3> QED
        BY <1>10, <1>13, <2>2, <3>2, <3>3, <3>4
    <2> QED
      BY <2>1, <2>2
  <1>16. BrokersSolvent' /\ OnlyFeesAreKept'
    <2>1. \A c \in Broker, a \in Asset : OwedRows(c, a)' = OwedRows(c, a)
      BY <1>4, RowsSame
    <2> QED
      BY <1>4, <2>1, BalancesStay
  <1> QED
    BY <1>11, <1>12, <1>14, <1>15, <1>16 DEF SettlementIInv

\* The network pays what is a row and was not paid, or nothing.
LEMMA ProcessTransferStep ==
    ASSUME SettlementIInv, NEW b \in Broker, ProcessTransfer(b)
    PROVE  SettlementIInv'
  <1>1. PICK t : t = Head(unsent[b])
    OBVIOUS
  <1>2. /\ TypeOK /\ TradesOK /\ unsent[b] # <<>> /\ Pay(t)
        /\ UNCHANGED <<tables, order, excess, state, age, trades, brokerOf, transfers, batch,
                       restarts>>
    BY <1>1 DEF ProcessTransfer, tables, SettlementIInv
  <1>3. \/ unsent' = [unsent EXCEPT ![b] = Tail(@)] /\ lost' = lost
        \/ lost < MaxLostReplies /\ lost' = lost + 1 /\ unsent' = unsent
    BY DEF ProcessTransfer
  <1>4. /\ unsent[b] \in Seq(Transfer) /\ t \in ToSet(unsent[b])
        /\ Tail(unsent[b]) \in Seq(Transfer)
        /\ ToSet(unsent[b]) = ToSet(Tail(unsent[b])) \cup {t}
    <2>1. unsent[b] \in Seq(Transfer)
      BY <1>2 DEF TypeOK
    <2> QED
      BY <1>1, <1>2, <2>1, SequenceFacts
  <1>5. /\ t \in batch[b] /\ t \in Transfer /\ t.broker = b /\ Explained(t)
        /\ t \in Rows \/ Settled(t)
    BY <1>2, <1>4 DEF SettlementIInv, QueuesOK, TypeOK
  \* A transfer that is sent again, or of nothing, is no payment.
  <1>6. \/ Settled(t) /\ UNCHANGED <<payments, wallet>>
        \/ /\ ~ Known(t) /\ t \in Rows /\ wallet[b][t.asset] >= t.amount
           /\ wallet' = [wallet EXCEPT ![b][t.asset] = @ - t.amount]
           /\ payments' = payments \cup {t}
    BY <1>2, <1>5 DEF Pay, Settled, network
  <1>7. Settled(t)' /\ payments \subseteq payments' /\ payments' \subseteq payments \cup {t}
    BY <1>6 DEF Settled, Known
  <1>8. /\ unsent' \in [Broker -> Seq(Transfer)]
        /\ \A c \in Broker : ToSet(unsent'[c]) \subseteq ToSet(unsent[c])
        /\ \A c \in Broker : \A u \in ToSet(unsent[c]) : u \in ToSet(unsent'[c]) \/ u = t
    <2>1. CASE unsent' = unsent
      BY <1>2, <2>1 DEF TypeOK
    <2>2. CASE unsent' = [unsent EXCEPT ![b] = Tail(@)]
      <3>1. unsent' \in [Broker -> Seq(Transfer)]
        BY <1>2, <1>4, <2>2 DEF TypeOK
      <3>2. unsent'[b] = Tail(unsent[b]) /\ \A c \in Broker : c # b => unsent'[c] = unsent[c]
        BY <1>2, <2>2 DEF TypeOK
      <3> QED
        BY <1>4, <3>1, <3>2
    <2> QED
      BY <1>3, <2>1, <2>2
  <1>9. wallet' \in [Broker -> [Asset -> Nat]] /\ lost' \in 0..MaxLostReplies
    <2>1. CASE UNCHANGED wallet
      BY <1>2, <1>3, <2>1, SettlementAssumption DEF TypeOK
    <2>2. CASE /\ wallet[b][t.asset] >= t.amount
               /\ wallet' = [wallet EXCEPT ![b][t.asset] = @ - t.amount]
      <3>1. wallet \in [Broker -> [Asset -> Nat]] /\ t.amount \in Nat /\ t.asset \in Asset
        BY <1>2, <1>5 DEF TypeOK, Transfer
      <3>2. wallet[b][t.asset] - t.amount \in Nat
        BY <2>2, <3>1
      <3> QED
        BY <1>2, <1>3, <2>2, <3>1, <3>2, SettlementAssumption, SMTT(30) DEF TypeOK
    <2> QED
      BY <1>6, <2>1, <2>2
  <1>10. TypeOK'
    <2>1. payments' \subseteq Transfer
      BY <1>2, <1>5, <1>7 DEF TypeOK
    <2>2. \A c \in Broker : ToSet(unsent'[c]) \subseteq batch'[c]
      BY <1>2, <1>8 DEF TypeOK
    <2> QED
      BY <1>2, <1>8, <1>9, <2>1, <2>2 DEF TypeOK
  <1>11. OrdersOK' /\ TradesOK'
    BY <1>2, TablesStay
  <1>12. FinishedStay /\ Rows' = Rows
    BY <1>2, <1>7 DEF FinishedStay, Rows
  <1>13. Explained(t)'
    BY <1>5, <1>12, ExplainedStays DEF FinishedStay
  <1>14. RowsOK'
    BY <1>2, <1>7, <1>12, <1>13, RowsStay
  <1>15. QueuesOK'
    <2> SUFFICES ASSUME NEW c \in Broker, NEW u \in batch[c]
                 PROVE  /\ u.broker = c /\ Explained(u)'
                        /\ u \in Rows' \/ Settled(u)'
                        /\ u \in ToSet(unsent'[c]) \/ Settled(u)'
      BY <1>2 DEF QueuesOK
    <2>1. /\ u.broker = c /\ Explained(u)
          /\ u \in Rows \/ Settled(u)
          /\ u \in ToSet(unsent[c]) \/ Settled(u)
      BY DEF SettlementIInv, QueuesOK
    <2>2. Explained(u)'
      BY <1>12, <2>1, ExplainedStays DEF FinishedStay
    <2>3. Settled(u) => Settled(u)'
      BY <1>7, SettledStays
    <2> QED
      BY <1>7, <1>8, <1>12, <2>1, <2>2, <2>3
  <1>16. ASSUME NEW c \in Broker, NEW a \in Asset PROVE Balanced(c, a)'
    <2>1. Balanced(c, a)
      BY DEF Balanced, SettlementIInv, BrokersSolvent, OnlyFeesAreKept
    <2>2. /\ EarnedFees(c, a)' = EarnedFees(c, a) /\ EarnedOrders(c, a)' = EarnedOrders(c, a)
          /\ OwedOrders(c, a)' = OwedOrders(c, a)
      BY <1>2, TablesStay
    <2>3. CASE UNCHANGED <<payments, wallet>>
      <3>1. OwedRows(c, a)' = OwedRows(c, a)
        BY <1>2, <2>3, RowsSame
      <3> QED
        BY <2>1, <2>2, <2>3, <3>1 DEF Balanced, Owed, Earned
    <2>4. CASE /\ ~ Known(t) /\ t \in Rows
               /\ wallet' = [wallet EXCEPT ![b][t.asset] = @ - t.amount]
               /\ payments' = payments \cup {t}
      <3>1. \A u \in Rows : u.id = t.id => u = t
        BY <1>2, <1>5, OneTransferPerId DEF SettlementIInv, RowsOK
      <3>2. OwedRows(c, a)' = OwedRows(c, a) - Unpaid(t, c, a)
        BY <1>2, <2>4, <3>1, RowPaid
      <3>3. wallet \in [Broker -> [Asset -> Nat]] /\ t.amount \in Nat /\ t.asset \in Asset
        BY <1>2, <1>5 DEF TypeOK, Transfer
      <3>4. Unpaid(t, c, a) = IF c = b /\ t.asset = a THEN t.amount ELSE 0
        BY <1>5, <2>4 DEF Unpaid
      <3>5. wallet'[c][a] = wallet[c][a] - Unpaid(t, c, a)
        BY <2>4, <3>3, <3>4
      <3>6. /\ OwedRows(c, a) \in Nat /\ OwedOrders(c, a) \in Nat
            /\ EarnedFees(c, a) \in Nat /\ EarnedOrders(c, a) \in Nat
        BY SumTypes DEF SettlementIInv
      <3>7. PICK x \in Int : x = 0 - Unpaid(t, c, a)
        BY <3>3, <3>4
      <3>8. Unpaid(t, c, a) \in Int
        BY <3>3, <3>4
      <3>9. /\ wallet'[c][a] = wallet[c][a] + x /\ OwedRows(c, a)' = OwedRows(c, a) + x
            /\ OwedOrders(c, a)' = OwedOrders(c, a) + 0
            /\ EarnedFees(c, a)' = EarnedFees(c, a) + 0
            /\ EarnedOrders(c, a)' = EarnedOrders(c, a) + 0
        BY <2>2, <3>2, <3>3, <3>5, <3>6, <3>7, <3>8
      <3>10. x + 0 <= x /\ x - x - 0 <= 0 + 0
        OBVIOUS
      <3> QED
        BY <3>9, <3>10, BalanceKept
    <2> QED
      BY <1>6, <2>3, <2>4
  <1>17. BrokersSolvent' /\ OnlyFeesAreKept'
    BY <1>16, AllBalanced
  <1> QED
    BY <1>10, <1>11, <1>14, <1>15, <1>17 DEF SettlementIInv

\* What is deleted was settled: a row of the same id as one that is listed is that one.
LEMMA ExpireTransfersStep ==
    ASSUME SettlementIInv, NEW b \in Broker, ExpireTransfers(b)
    PROVE  SettlementIInv'
  <1>1. /\ TypeOK /\ TradesOK /\ unsent[b] = <<>>
        /\ transfers' = Without(transfers, {t \in Rows : Expired(b, t)})
        /\ UNCHANGED <<tables, order, excess, state, age, trades, brokerOf, unsent, payments,
                       wallet, restarts>>
    BY DEF ExpireTransfers, network, tables, SettlementIInv
  <1>2. \/ batch' = [batch EXCEPT ![b] = {}] /\ lost' = lost
        \/ lost < MaxLostReplies /\ lost' = lost + 1 /\ batch' = batch
    BY DEF ExpireTransfers
  <1>3. transfers' \in Seq(Transfer) /\ Rows' = Rows \ {t \in Rows : Expired(b, t)}
    <2>1. transfers \in Seq(Transfer)
      BY <1>1 DEF TypeOK
    <2>2. /\ Without(transfers, {t \in Rows : Expired(b, t)}) \in Seq(Transfer)
          /\ ToSet(Without(transfers, {t \in Rows : Expired(b, t)})) =
               ToSet(transfers) \ {t \in Rows : Expired(b, t)}
      BY <2>1, WithoutFacts
    <2> QED
      BY <1>1, <2>2 DEF Rows
  <1>4. ASSUME NEW t \in Rows, Expired(b, t) PROVE Settled(t)
    <2>1. PICK u \in batch[b] : u.id = t.id
      BY <1>4 DEF Expired, Ids
    <2>2. Explained(u) /\ Settled(u)
      BY <1>1 DEF SettlementIInv, QueuesOK, ToSet
    <2>3. t = u
      BY <1>1, <2>1, <2>2, OneTransferPerId DEF SettlementIInv, RowsOK
    <2> QED
      BY <2>2, <2>3
  <1>5. Rows' \subseteq Rows /\ \A t \in Rows : t \in Rows' \/ Settled(t)
    BY <1>3, <1>4
  <1>6. \A t : Settled(t)' = Settled(t)
    BY <1>1 DEF Settled, Known
  <1>7. /\ batch' \in [Broker -> SUBSET Transfer]
        /\ \A c \in Broker : batch'[c] \subseteq batch[c] /\ ToSet(unsent[c]) \subseteq batch'[c]
    <2>1. CASE batch' = batch
      BY <1>1, <2>1 DEF TypeOK
    <2>2. CASE batch' = [batch EXCEPT ![b] = {}]
      <3>1. batch'[b] = {} /\ \A c \in Broker : c # b => batch'[c] = batch[c]
        BY <1>1, <2>2 DEF TypeOK
      <3>2. batch' \in [Broker -> SUBSET Transfer]
        BY <1>1, <2>2 DEF TypeOK
      <3>3. ToSet(unsent[b]) = {}
        BY <1>1 DEF ToSet
      <3>4. \A c \in Broker : ToSet(unsent[c]) \subseteq batch[c]
        BY <1>1 DEF TypeOK
      <3> QED
        BY <3>1, <3>2, <3>3, <3>4
    <2> QED
      BY <1>2, <2>1, <2>2
  <1>8. TypeOK'
    <2>1. lost' \in 0..MaxLostReplies
      BY <1>1, <1>2, SettlementAssumption DEF TypeOK
    <2> QED
      BY <1>1, <1>3, <1>7, <2>1 DEF TypeOK
  <1>9. OrdersOK' /\ TradesOK'
    BY <1>1, TablesStay
  <1>10. FinishedStay
    BY <1>1 DEF FinishedStay
  <1>11. RowsOK'
    BY <1>1, <1>5, <1>6, <1>10, RowsStay
  <1>12. QueuesOK'
    <2> SUFFICES ASSUME NEW c \in Broker, NEW t \in batch'[c]
                 PROVE  /\ t.broker = c /\ Explained(t)'
                        /\ t \in Rows' \/ Settled(t)'
                        /\ t \in ToSet(unsent'[c]) \/ Settled(t)'
      BY DEF QueuesOK
    <2>1. t \in batch[c]
      BY <1>7
    <2>2. /\ t.broker = c /\ Explained(t)
          /\ t \in Rows \/ Settled(t)
          /\ t \in ToSet(unsent[c]) \/ Settled(t)
      BY <2>1 DEF SettlementIInv, QueuesOK
    <2>3. Explained(t)'
      BY <1>10, <2>2, ExplainedStays DEF FinishedStay
    <2> QED
      BY <1>1, <1>5, <1>6, <2>2, <2>3
  <1>13. BrokersSolvent' /\ OnlyFeesAreKept'
    <2>1. ASSUME NEW c \in Broker, NEW a \in Asset PROVE OwedRows(c, a)' = OwedRows(c, a)
      <3>1. \A t \in Rows \ Rows' : Settled(t)
        BY <1>5
      <3> QED
        BY <1>1, <1>5, <3>1, RowsDeleted
    <2> QED
      BY <1>1, <2>1, BalancesStay
  <1> QED
    BY <1>8, <1>9, <1>11, <1>12, <1>13 DEF SettlementIInv

LEMMA SettlementRestartStep ==
    ASSUME SettlementIInv, Restart
    PROVE  SettlementIInv'
  <1>1. /\ TypeOK /\ restarts < MaxRestarts /\ restarts' = restarts + 1
        /\ batch' = [b \in Broker |-> {}] /\ unsent' = [b \in Broker |-> <<>>]
        /\ UNCHANGED <<tables, order, excess, state, age, trades, brokerOf, transfers, payments,
                       wallet, lost>>
    BY DEF Restart, network, tables, SettlementIInv
  <1>2. TypeOK'
    <2>1. restarts' \in 0..MaxRestarts
      BY <1>1, SettlementAssumption DEF TypeOK
    <2>2. \A b \in Broker : ToSet(unsent'[b]) \subseteq batch'[b]
      BY <1>1 DEF ToSet
    <2>3. batch' \in [Broker -> SUBSET Transfer] /\ unsent' \in [Broker -> Seq(Transfer)]
      BY <1>1
    <2> QED
      BY <1>1, <2>1, <2>2, <2>3 DEF TypeOK
  <1>3. OrdersOK' /\ TradesOK'
    BY <1>1, TablesStay
  <1>4. FinishedStay /\ Rows' = Rows
    BY <1>1 DEF FinishedStay, Rows
  <1>5. RowsOK'
    BY <1>1, <1>4, RowsStay
  <1>6. QueuesOK'
    BY <1>1 DEF QueuesOK
  <1>7. BrokersSolvent' /\ OnlyFeesAreKept'
    <2>1. \A b \in Broker, a \in Asset : OwedRows(b, a)' = OwedRows(b, a)
      BY <1>1, RowsSame
    <2> QED
      BY <1>1, <2>1, BalancesStay
  <1> QED
    BY <1>2, <1>3, <1>5, <1>6, <1>7 DEF SettlementIInv

-----------------------------------------------------------------------------
(* A trade.                                                                *)

\* What a match takes from the two orders.
LEMMA MatchFacts ==
    ASSUME TypeOK, OrdersOK, NEW t \in Order, NEW m \in Order, Matches(t, m),
           NEW x, x = Matched(order[t], order[m])
    PROVE  /\ t # m /\ order[m].price \in Nat \ {0}
           /\ order[t].side = Opposite(order[m].side)
           /\ x.amount \in Nat /\ x.funds \in Nat /\ x.amount * order[m].price \in Nat
           /\ x.amount * order[m].price <= x.funds
           /\ x.funds < x.amount * order[m].price + order[m].price
           /\ \A o \in {t, m} :
                /\ Fill(order[o], x) \in OrderRecord /\ WellFormed(Fill(order[o], x))
                /\ Fill(order[o], x).side = order[o].side
                /\ Fill(order[o], x).type = order[o].type
                /\ Fill(order[o], x).price = order[o].price
                /\ Remaining(Fill(order[o], x)) \in Nat
                /\ Remaining(Fill(order[o], x)) =
                     Remaining(order[o]) - (IF order[o].side = "ASK" THEN x.amount ELSE x.funds)
  <1> DEFINE p == order[m].price
             ask == IF order[t].side = "ASK" THEN order[t].remainingAmount ELSE order[m].remainingAmount
             bid == IF order[t].side = "ASK" THEN order[m].remainingFunds ELSE order[t].remainingFunds
  <1>1. /\ t # m /\ order[t].side = Opposite(order[m].side) /\ order[m].type = "LIMIT"
        /\ order[t] \in OrderRecord /\ order[m] \in OrderRecord
        /\ WellFormed(order[t]) /\ WellFormed(order[m])
        /\ age[t] \in Nat /\ age[m] \in Nat
    BY DEF Matches, TypeOK, OrdersOK
  <1>2. p \in Nat \ {0}
    BY <1>1, PricePositive DEF WellFormed
  <1>3. order[m].side = Opposite(order[t].side) /\ order[t].side \in {"ASK", "BID"}
        /\ order[m].side \in {"ASK", "BID"}
    BY <1>1 DEF OrderRecord
  <1>4. SoundMatch(x, ask, bid, p)
    BY <1>1, <1>2, <1>3, MatchedSound
  <1>5. /\ x.amount \in Nat /\ x.funds \in Nat /\ x.amount <= ask /\ x.funds <= bid
        /\ x.amount * p <= x.funds /\ x.funds < (x.amount + 1) * p
    BY <1>4 DEF SoundMatch
  <1>6. (x.amount + 1) * p = x.amount * p + p /\ x.amount * p \in Nat
    BY <1>2, <1>5, SMT
  <1>7. ASSUME NEW o \in {t, m}
        PROVE  /\ Fill(order[o], x) \in OrderRecord /\ WellFormed(Fill(order[o], x))
               /\ Fill(order[o], x).side = order[o].side
               /\ Fill(order[o], x).type = order[o].type
               /\ Fill(order[o], x).price = order[o].price
               /\ Remaining(Fill(order[o], x)) \in Nat
               /\ Remaining(Fill(order[o], x)) =
                    Remaining(order[o]) - (IF order[o].side = "ASK" THEN x.amount ELSE x.funds)
    <2>1. order[o] \in OrderRecord /\ WellFormed(order[o]) /\ order[o].side \in {"ASK", "BID"}
      BY <1>1, <1>3
    <2>2. /\ order[o].side = "ASK" => x.amount <= order[o].remainingAmount
          /\ order[o].side = "BID" => x.funds <= order[o].remainingFunds
      BY <1>3, <1>5
    <2>3. PICK r : r = order[o]
      OBVIOUS
    <2>4. /\ Fill(r, x) \in OrderRecord /\ Fill(r, x).side = r.side /\ Fill(r, x).type = r.type
          /\ Fill(r, x).price = r.price
          /\ Fill(r, x).remainingAmount =
               IF r.side = "ASK" THEN r.remainingAmount - x.amount ELSE r.remainingAmount
          /\ Fill(r, x).remainingFunds =
               IF r.side = "BID" THEN r.remainingFunds - x.funds ELSE r.remainingFunds
          /\ WellFormed(Fill(r, x)) /\ Remaining(Fill(r, x)) \in Nat
      BY <1>5, <2>1, <2>2, <2>3, FillFacts
    <2>5. Remaining(Fill(r, x)) =
            Remaining(r) - (IF r.side = "ASK" THEN x.amount ELSE x.funds)
      BY <2>1, <2>3, <2>4 DEF Remaining
    <2> QED
      BY <2>3, <2>4, <2>5
  <1> QED
    BY <1>1, <1>2, <1>5, <1>6, <1>7

\* What o gives in a trade is what the other order n is paid for, by the broker of o:
\* the payout is covered, and what is left of it is no more than the fee and the
\* truncated part.
LEMMA SideOfTrade ==
    ASSUME TypeOK, OrdersOK, NEW t \in Order, NEW m \in Order, Matches(t, m),
           NEW x, x = Matched(order[t], order[m]),
           NEW o \in {t, m}, NEW n \in {t, m}, n # o, NEW b, NEW a \in Asset,
           NEW y, y = TradeOf(n, t, m, x.amount),
           order'[o] = Fill(order[o], x), order'[m].price = order[m].price, UNCHANGED brokerOf,
           state'[o] = IF Filled(order'[o]) THEN "DONE" ELSE state[o],
           NEW paid, paid = IF SentTo(o, b, a) THEN Payout(y.liquidity, y.total) ELSE 0
    PROVE  /\ y \in Trade /\ paid \in Nat
           /\ Due(o, b, a) \in Nat /\ Due(o, b, a)' \in Nat /\ Commission(y, b, a)' \in Nat
           /\ paid <= Due(o, b, a) - Due(o, b, a)'
           /\ Due(o, b, a) - Due(o, b, a)' <= paid + Commission(y, b, a)'
           /\ y.feeAsset = AssetOf(order[o].side) /\ Receiver(y) = n /\ Other(y) = o
           /\ y.taker = t /\ y.maker = m /\ y.fee = StoredFee(y.liquidity, y.total)
  <1> DEFINE p == order[m].price
             q == x.amount
             g == Grain(AssetOf(order[o].side))
             units == IF order[o].side = "ASK" THEN q ELSE x.funds
             given == units * g
             pay == Payout(y.liquidity, y.total)
  <1>1. /\ t # m /\ p \in Nat \ {0} /\ order[t].side = Opposite(order[m].side)
        /\ q \in Nat /\ x.funds \in Nat /\ q * p \in Nat /\ q * p <= x.funds
        /\ x.funds < q * p + p
        /\ Fill(order[o], x).side = order[o].side
        /\ Remaining(Fill(order[o], x)) \in Nat
        /\ Remaining(Fill(order[o], x)) = Remaining(order[o]) - units
    BY MatchFacts
  <1>2. /\ order[t].side \in {"ASK", "BID"} /\ order[m].side \in {"ASK", "BID"}
        /\ order[o].side = Opposite(order[n].side) /\ order[n].side = Opposite(order[o].side)
        /\ state[o] = "PENDING" /\ Remaining(order[o]) \in Nat /\ Value(order[o]) \in Nat
    BY <1>1, PaymentTypes, ZenonT(40) DEF TypeOK, OrderRecord, Matches
  <1>3. /\ y.taker = t /\ y.maker = m /\ y.liquidity \in {"TAKER", "MAKER"}
        /\ y.liquidity = "TAKER" <=> n = t
        /\ y.feeAsset = AssetOf(order[o].side)
        /\ y.total = (IF order[o].side = "BID" THEN q * p ELSE q) * g
        /\ y.fee = StoredFee(y.liquidity, y.total)
    BY <1>1, <1>2 DEF TradeOf, Grain, AssetOf
  \* What the order gives beyond the total of the trade is less than a price.
  <1>4. /\ y.total \in Nat /\ given \in Nat /\ y.total <= given /\ p * g \in Nat
        /\ given + 1 <= y.total + (IF order[o].side = "BID" THEN p * g ELSE 1)
    <2>1. g \in Nat \ {0}
      BY <1>2, ValueFacts
    <2> HIDE DEF g
    <2>2. \A i, j \in Nat : i * j \in Nat
      BY SMT
    <2>3. CASE order[o].side = "ASK"
      <3>1. given = q * g /\ y.total = q * g
        BY <1>3, <2>3
      <3>2. q * g \in Nat /\ p * g \in Nat
        BY <1>1, <2>1, <2>2
      <3> QED
        BY <2>3, <3>1, <3>2
    <2>4. CASE order[o].side = "BID"
      <3>1. PICK k \in Nat : k = q * p
        BY <1>1
      <3>2. given = x.funds * g /\ y.total = k * g
        BY <1>2, <1>3, <2>4, <3>1
      <3>3. k <= x.funds /\ x.funds + 1 <= k + p
        BY <1>1, <3>1
      <3>4. k * g <= x.funds * g /\ (x.funds + 1) * g <= (k + p) * g
        BY <1>1, <2>1, <3>3, ProductMonotone
      <3>5. (x.funds + 1) * g = x.funds * g + g /\ (k + p) * g = k * g + p * g
        BY <1>1, <2>1, SMT
      <3>6. k * g \in Nat /\ x.funds * g \in Nat /\ p * g \in Nat
        BY <1>1, <2>1, <2>2
      <3> HIDE DEF given
      <3> QED
        BY <2>1, <2>4, <3>2, <3>4, <3>5, <3>6
    <2> QED
      BY <1>2, <2>3, <2>4
  <1>5. /\ pay \in Nat /\ y.fee \in Nat /\ pay <= y.total /\ y.total - pay <= y.fee + 1
    BY <1>3, <1>4, PayoutFacts
  <1>6. y \in Trade
    <2>1. AssetOf(order[o].side) \in Asset
      BY DEF AssetOf
    <2>2. y = [taker |-> t, maker |-> m, liquidity |-> y.liquidity, feeAsset |-> y.feeAsset,
               total |-> y.total, fee |-> y.fee]
      BY DEF TradeOf
    <2> QED
      BY <1>3, <1>4, <1>5, <2>1, <2>2 DEF Trade
  <1>7. Receiver(y) = n /\ Other(y) = o /\ PayerOf(y)' = brokerOf[o]
    BY <1>1, <1>3 DEF Receiver, Other, PayerOf
  <1>8. /\ pay <= given
        /\ given <= pay + y.fee + (IF order[o].side = "BID" THEN p * g ELSE 1)
    <2> HIDE DEF pay, given
    <2> DEFINE l == IF order[o].side = "BID" THEN p * g ELSE 1
    <2>1. l \in Nat /\ given + 1 <= y.total + l
      BY <1>4
    <2> HIDE DEF l
    <2>2. pay <= given /\ given <= pay + y.fee + l
      BY <1>4, <1>5, <2>1
    <2> QED
      BY <2>2 DEF l
  <1>9. SentTo(o, b, a) => (a = "quote" <=> order[o].side = "BID")
    BY <1>2 DEF SentTo, AssetOf
  <1>10. SentTo(o, b, a)' = SentTo(o, b, a)
    BY <1>1 DEF SentTo
  <1>11. /\ Due(o, b, a) = IF SentTo(o, b, a) THEN Value(order[o]) ELSE 0
         /\ Due(o, b, a)' = IF SentTo(o, b, a) THEN Value(order[o]) - given ELSE 0
         /\ Value(order[o]) - given \in Nat
    <2>1. Due(o, b, a) = IF SentTo(o, b, a) THEN Value(order[o]) ELSE 0
      BY <1>2 DEF Due
    <2>2. Value(order'[o]) \in Nat /\ Value(order'[o]) = Value(order[o]) - given
      <3>1. PICK r : r = order'[o]
        OBVIOUS
      <3>2. PICK n0 \in Nat : n0 = Remaining(order[o])
        BY <1>2
      <3>3. r.side = order[o].side /\ Remaining(r) \in Nat /\ Remaining(r) = n0 - units
        BY <1>1, <3>1, <3>2
      <3>4. Value(r) = (n0 - units) * g /\ Value(order[o]) = n0 * g /\ Value(r) \in Nat
        BY <3>2, <3>3, ValueFacts DEF Value
      <3>5. g \in Nat /\ units \in Nat
        BY <1>1, <1>2, ValueFacts
      <3> HIDE DEF g, units
      <3>6. (n0 - units) * g = n0 * g - units * g
        BY <3>2, <3>5, SMT
      <3> QED
        BY <3>1, <3>4, <3>6
    <2>3. CASE Filled(order'[o])
      <3>1. state'[o] = "DONE" /\ Remaining(order'[o]) = 0
        BY <2>3 DEF Filled
      <3>2. Value(order'[o]) = 0
        <4>1. Grain(AssetOf(order'[o].side)) \in Nat
          BY <1>1, <1>2, ValueFacts
        <4>2. \A i \in Nat : 0 * i = 0
          BY SMT
        <4> QED
          BY <3>1, <4>1, <4>2 DEF Value
      <3> QED
        BY <2>1, <2>2, <3>1, <3>2 DEF Due
    <2>4. CASE ~ Filled(order'[o])
      <3>1. state'[o] = "PENDING"
        BY <1>2, <2>4
      <3> QED
        BY <1>10, <2>1, <2>2, <3>1 DEF Due
    <2> QED
      BY <2>3, <2>4
  <1>12. Commission(y, b, a)' =
           IF SentTo(o, b, a) THEN y.fee + (IF a = "quote" THEN p * FundsGrain ELSE 1) ELSE 0
    BY <1>3, <1>7 DEF Commission, SentTo
  <1>13. CASE SentTo(o, b, a)
    <2>1. order[o].side = "BID" => g = FundsGrain
      BY DEF Grain, AssetOf
    <2>2. paid = pay /\ Commission(y, b, a)' = y.fee + (IF order[o].side = "BID" THEN p * g ELSE 1)
      BY <1>9, <1>12, <1>13, <2>1
    <2>3. Due(o, b, a) = Value(order[o]) /\ Due(o, b, a)' = Value(order[o]) - given
      BY <1>11, <1>13
    <2> DEFINE l == IF order[o].side = "BID" THEN p * g ELSE 1
    <2>4. l \in Nat
      BY <1>4
    <2> HIDE DEF pay, given, l, g, units
    <2>5. /\ paid \in Nat /\ Due(o, b, a) \in Nat /\ Due(o, b, a)' \in Nat
          /\ Commission(y, b, a)' \in Nat
          /\ paid <= Due(o, b, a) - Due(o, b, a)'
          /\ Due(o, b, a) - Due(o, b, a)' <= paid + Commission(y, b, a)'
      <3>1. Commission(y, b, a)' = y.fee + l /\ given <= pay + y.fee + l
        BY <1>8, <2>2 DEF l
      <3>2. PICK v \in Nat : v = Value(order[o]) /\ v - given \in Nat
        BY <1>2, <1>11
      <3>3. given \in Nat /\ pay \in Nat /\ y.fee \in Nat /\ pay <= given
        BY <1>4, <1>5, <1>8
      <3>4. Due(o, b, a) = v /\ Due(o, b, a)' = v - given /\ paid = pay
        BY <2>2, <2>3, <3>2
      <3> QED
        BY <2>4, <3>1, <3>2, <3>3, <3>4
    <2> QED
      BY <1>3, <1>6, <1>7, <2>5
  <1>14. CASE ~ SentTo(o, b, a)
    BY <1>3, <1>6, <1>7, <1>11, <1>12, <1>14
  <1> QED
    BY <1>13, <1>14

LEMMA TransactStep ==
    ASSUME SettlementIInv, NEW t \in Order, NEW m \in Order, Transact(t, m)
    PROVE  SettlementIInv'
  <1>1. PICK x : x = Matched(order[t], order[m])
    OBVIOUS
  <1>2. PICK y : y = TradeOf(t, t, m, x.amount)
    OBVIOUS
  <1>3. PICK z : z = TradeOf(m, t, m, x.amount)
    OBVIOUS
  <1>4. PICK r : r = TransferOf(t, m, y)
    OBVIOUS
  <1>5. PICK s : s = TransferOf(m, t, z)
    OBVIOUS
  <1>6. /\ TypeOK /\ OrdersOK /\ TradesOK /\ Matches(t, m)
        /\ order' = [order EXCEPT ![t] = Fill(@, x), ![m] = Fill(@, x)]
        /\ state' = [o \in Order |->
                       IF o \in {t, m} /\ Filled(order'[o]) THEN "DONE" ELSE state[o]]
        /\ trades' = trades \cup {y, z} /\ Insert(<<r, s>>)
        /\ UNCHANGED <<excess, brokerOf, age, poller, batch, unsent, payments, wallet, restarts,
                       lost>>
    BY <1>1, <1>2, <1>3, <1>4, <1>5 DEF Transact, poller, network, SettlementIInv
  <1>7. /\ t # m /\ order[t].side = Opposite(order[m].side) /\ order[m].type = "LIMIT"
        /\ state[t] = "PENDING" /\ state[m] = "PENDING" /\ age[m] < age[t]
        /\ age[m] \in Nat /\ age[t] \in Nat
        /\ ~ \E w \in trades : w.taker = t /\ w.maker = m
    BY <1>6 DEF Matches, TypeOK
  <1>8. /\ order'[t] = Fill(order[t], x) /\ order'[m] = Fill(order[m], x)
        /\ \A o \in Order \ {t, m} : order'[o] = order[o] /\ state'[o] = state[o]
        /\ \A o \in {t, m} : state'[o] = IF Filled(order'[o]) THEN "DONE" ELSE state[o]
    BY <1>6, <1>7 DEF TypeOK
  <1>9. \A o \in {t, m} :
          /\ order'[o] \in OrderRecord /\ WellFormed(order'[o])
          /\ order'[o].side = order[o].side /\ order'[o].type = order[o].type
          /\ order'[o].price = order[o].price
    <2>1. \A o \in {t, m} :
            /\ Fill(order[o], x) \in OrderRecord /\ WellFormed(Fill(order[o], x))
            /\ Fill(order[o], x).side = order[o].side /\ Fill(order[o], x).type = order[o].type
            /\ Fill(order[o], x).price = order[o].price
      BY <1>1, <1>6, MatchFacts
    <2> QED
      BY <1>8, <2>1
  <1>10. \A o \in Order :
           /\ order'[o].side = order[o].side /\ order'[o].type = order[o].type
           /\ order'[o].price = order[o].price
    BY <1>8, <1>9
  \* What the taker gives is what the maker is paid for, and the other way round.
  <1>11. ASSUME NEW b, NEW a \in Asset, NEW paid,
                paid = IF SentTo(t, b, a) THEN Payout(z.liquidity, z.total) ELSE 0
         PROVE  /\ z \in Trade /\ paid \in Nat
                /\ Due(t, b, a) \in Nat /\ Due(t, b, a)' \in Nat /\ Commission(z, b, a)' \in Nat
                /\ paid <= Due(t, b, a) - Due(t, b, a)'
                /\ Due(t, b, a) - Due(t, b, a)' <= paid + Commission(z, b, a)'
                /\ z.feeAsset = AssetOf(order[t].side) /\ Receiver(z) = m /\ Other(z) = t
                /\ z.taker = t /\ z.maker = m /\ z.fee = StoredFee(z.liquidity, z.total)
    <2>1. t \in {t, m} /\ m \in {t, m} /\ m # t
      BY <1>7
    <2>2. order'[m].price = order[m].price /\ UNCHANGED brokerOf
      BY <1>6, <1>9
    <2>3. order'[t] = Fill(order[t], x)
      BY <1>8
    <2>4. state'[t] = IF Filled(order'[t]) THEN "DONE" ELSE state[t]
      BY <1>8
    <2>5. z = TradeOf(m, t, m, x.amount)
      BY <1>3
    <2>6. TypeOK /\ OrdersOK /\ Matches(t, m)
      BY <1>6
    <2> QED
      BY <1>1, <1>11, <2>1, <2>2, <2>3, <2>4, <2>5, <2>6, SideOfTrade
  <1>12. ASSUME NEW b, NEW a \in Asset, NEW paid,
                paid = IF SentTo(m, b, a) THEN Payout(y.liquidity, y.total) ELSE 0
         PROVE  /\ y \in Trade /\ paid \in Nat
                /\ Due(m, b, a) \in Nat /\ Due(m, b, a)' \in Nat /\ Commission(y, b, a)' \in Nat
                /\ paid <= Due(m, b, a) - Due(m, b, a)'
                /\ Due(m, b, a) - Due(m, b, a)' <= paid + Commission(y, b, a)'
                /\ y.feeAsset = AssetOf(order[m].side) /\ Receiver(y) = t /\ Other(y) = m
                /\ y.taker = t /\ y.maker = m /\ y.fee = StoredFee(y.liquidity, y.total)
    <2>1. t \in {t, m} /\ m \in {t, m} /\ m # t
      BY <1>7
    <2>2. order'[m].price = order[m].price /\ UNCHANGED brokerOf
      BY <1>6, <1>9
    <2>3. order'[m] = Fill(order[m], x)
      BY <1>8
    <2>4. state'[m] = IF Filled(order'[m]) THEN "DONE" ELSE state[m]
      BY <1>8
    <2>5. y = TradeOf(t, t, m, x.amount)
      BY <1>2
    <2>6. TypeOK /\ OrdersOK /\ Matches(t, m)
      BY <1>6
    <2> QED
      BY <1>1, <1>12, <2>1, <2>2, <2>3, <2>4, <2>5, <2>6, SideOfTrade
  <1>13. /\ y \in Trade /\ y.taker = t /\ y.maker = m /\ y.liquidity = "TAKER"
         /\ Receiver(y) = t /\ Other(y) = m /\ y.feeAsset = AssetOf(order[m].side)
         /\ y.fee = StoredFee(y.liquidity, y.total)
         /\ z \in Trade /\ z.taker = t /\ z.maker = m /\ z.liquidity = "MAKER"
         /\ Receiver(z) = m /\ Other(z) = t /\ z.feeAsset = AssetOf(order[t].side)
         /\ z.fee = StoredFee(z.liquidity, z.total)
    <2>1. y.liquidity = "TAKER" /\ z.liquidity = "MAKER"
      BY <1>2, <1>3, <1>7 DEF TradeOf
    <2>2. /\ y \in Trade /\ y.taker = t /\ y.maker = m
          /\ Receiver(y) = t /\ Other(y) = m /\ y.feeAsset = AssetOf(order[m].side)
          /\ y.fee = StoredFee(y.liquidity, y.total)
      <3>1. PICK paid : paid = IF SentTo(m, brokerOf[t], "quote")
                                THEN Payout(y.liquidity, y.total) ELSE 0
        OBVIOUS
      <3>2. "quote" \in Asset
        OBVIOUS
      <3> QED
        BY <1>12, <3>1, <3>2
    <2>3. /\ z \in Trade /\ z.taker = t /\ z.maker = m
          /\ Receiver(z) = m /\ Other(z) = t /\ z.feeAsset = AssetOf(order[t].side)
          /\ z.fee = StoredFee(z.liquidity, z.total)
      <3>1. PICK paid : paid = IF SentTo(t, brokerOf[t], "quote")
                                THEN Payout(z.liquidity, z.total) ELSE 0
        OBVIOUS
      <3>2. "quote" \in Asset
        OBVIOUS
      <3> QED
        BY <1>11, <3>1, <3>2
    <2> QED
      BY <2>1, <2>2, <2>3
  <1>14. y # z /\ y \notin trades /\ z \notin trades
    BY <1>7, <1>13
  <1>15. /\ r = Row(TransferId(t, m, "TAKER"), t, AssetOf(order[m].side),
                    Payout(y.liquidity, y.total), brokerOf[m])
         /\ s = Row(TransferId(t, m, "MAKER"), m, AssetOf(order[t].side),
                    Payout(z.liquidity, z.total), brokerOf[t])
    BY <1>4, <1>5, <1>13 DEF TransferOf, Payer
  <1>16. r \in Transfer /\ s \in Transfer /\ r # s
    <2>1. Payout(y.liquidity, y.total) \in Nat /\ Payout(z.liquidity, z.total) \in Nat
      BY <1>13, PayoutFacts DEF Trade
    <2>2. AssetOf(order[m].side) \in Asset /\ AssetOf(order[t].side) \in Asset
      BY DEF AssetOf
    <2>3. brokerOf[m] \in Broker /\ brokerOf[t] \in Broker
      BY <1>6 DEF TypeOK
    <2>4. r.id.kind = "TAKER" /\ s.id.kind = "MAKER"
      BY <1>15 DEF TransferId
    <2> QED
      BY <1>15, <2>1, <2>2, <2>3, <2>4 DEF TransferId, Transfer
  <1>17. /\ transfers' \in Seq(Transfer) /\ Rows' = Rows \cup {r, s}
         /\ r \notin Rows /\ s \notin Rows
    <2>1. <<r, s>> \in Seq(Transfer) /\ ToSet(<<r, s>>) = {r, s}
      BY <1>16 DEF ToSet
    <2> QED
      BY <1>6, <2>1, InsertFacts
  <1>18. ~ Known(r) /\ ~ Known(s)
    <2> SUFFICES ASSUME NEW u \in payments, u.id = r.id \/ u.id = s.id PROVE FALSE
      BY DEF Known
    <2>1. u.id.kind \in {"TAKER", "MAKER"} /\ u.id.of = {t, m}
      BY <1>15 DEF TransferId
    <2>2. Explained(u)
      BY DEF SettlementIInv, RowsOK
    <2>3. \A n \in Order : CancelRow(n).id.kind = "CANCEL" /\ RefundRow(n).id.kind = "REFUND"
      BY DEF CancelRow, RefundRow
    <2>4. PICK w \in trades : u = TransferOf(Receiver(w), Other(w), w)
      BY <2>1, <2>2, <2>3 DEF Explained
    <2>5. u.id.of = {w.taker, w.maker}
      BY <2>4 DEF TransferOf, TransferId
    <2>6. age[w.maker] < age[w.taker] /\ age[w.maker] \in Nat /\ age[w.taker] \in Nat
      BY <1>6 DEF TypeOK, Trade, TradesOK
    <2>7. w.taker = t /\ w.maker = m
      BY <1>7, <2>1, <2>5, <2>6
    <2> QED
      BY <1>7, <2>7
  <1>19. state' \in [Order -> States]
    BY <1>6 DEF TypeOK, States
  <1>20. TypeOK'
    <2>1. order' \in [Order -> OrderRecord]
      BY <1>6, <1>8, <1>9 DEF TypeOK
    <2>2. trades' \subseteq Trade
      BY <1>6, <1>13 DEF TypeOK
    <2> QED
      BY <1>6, <1>17, <1>19, <2>1, <2>2 DEF TypeOK, States
  <1>21. Placed' = Placed /\ t \in Placed /\ m \in Placed
    BY <1>7, <1>8 DEF Placed
  <1>22. OrdersOK'
    <2>1. \A o \in Order : WellFormed(order'[o])
      BY <1>6, <1>8, <1>9 DEF OrdersOK
    <2>2. \A o \in Order : state'[o] \in {"ABSENT", "PAID"} => age'[o] = 0
      BY <1>6, <1>7, <1>8 DEF OrdersOK
    <2> QED
      BY <1>6, <1>21, <2>1, <2>2 DEF OrdersOK
  <1>23. TradesOK'
    <2>1. IsFiniteSet(trades')
      <3>1. trades' = (trades \cup {y}) \cup {z}
        BY <1>6
      <3>2. IsFiniteSet(trades \cup {y})
        BY <1>6, FS_AddElement DEF TradesOK
      <3> QED
        BY <3>1, <3>2, FS_AddElement
    <2>2. \A o \in Order : state[o] \notin {"ABSENT", "PAID", "REFUSED", "KEPT"} =>
            state'[o] \notin {"ABSENT", "PAID", "REFUSED", "KEPT"}
      BY <1>8
    <2>3. ASSUME NEW w \in trades'
          PROVE  /\ state'[w.taker] \notin {"ABSENT", "PAID", "REFUSED", "KEPT"}
                 /\ state'[w.maker] \notin {"ABSENT", "PAID", "REFUSED", "KEPT"}
                 /\ age'[w.maker] < age'[w.taker]
                 /\ order'[w.maker].type = "LIMIT"
                 /\ order'[w.taker].side = Opposite(order'[w.maker].side)
                 /\ w.feeAsset = AssetOf(Opposite(order'[Receiver(w)].side))
                 /\ w.fee = StoredFee(w.liquidity, w.total)
      <3>1. CASE w \in trades
        <4>1. w.taker \in Order /\ w.maker \in Order /\ Receiver(w) \in Order
          BY <1>6, <3>1 DEF TypeOK, Trade, Receiver
        <4>2. /\ state[w.taker] \notin {"ABSENT", "PAID", "REFUSED", "KEPT"}
              /\ state[w.maker] \notin {"ABSENT", "PAID", "REFUSED", "KEPT"}
              /\ age[w.maker] < age[w.taker]
              /\ order[w.maker].type = "LIMIT"
              /\ order[w.taker].side = Opposite(order[w.maker].side)
              /\ w.feeAsset = AssetOf(Opposite(order[Receiver(w)].side))
              /\ w.fee = StoredFee(w.liquidity, w.total)
          BY <1>6, <3>1 DEF TradesOK
        <4> QED
          BY <1>6, <1>10, <2>2, <4>1, <4>2
      <3>2. CASE w \in {y, z}
        <4>1. /\ order[t].side \in {"ASK", "BID"} /\ order[m].side \in {"ASK", "BID"}
              /\ order[m].side = Opposite(order[t].side) /\ order[t].side = Opposite(order[m].side)
          BY <1>6, <1>7 DEF TypeOK, OrderRecord
        <4>2. /\ w.taker = t /\ w.maker = m /\ w.fee = StoredFee(w.liquidity, w.total)
              /\ \/ w = y /\ Receiver(w) = t /\ w.feeAsset = AssetOf(order[m].side)
                 \/ w = z /\ Receiver(w) = m /\ w.feeAsset = AssetOf(order[t].side)
          BY <1>13, <3>2
        <4>3. /\ state'[t] \notin {"ABSENT", "PAID", "REFUSED", "KEPT"}
              /\ state'[m] \notin {"ABSENT", "PAID", "REFUSED", "KEPT"}
          BY <1>7, <2>2
        <4>4. /\ order'[m].type = "LIMIT" /\ order'[t].side = Opposite(order'[m].side)
              /\ age'[m] < age'[t]
          BY <1>6, <1>7, <1>9
        <4>5. w.feeAsset = AssetOf(Opposite(order'[Receiver(w)].side))
          BY <1>9, <4>1, <4>2
        <4> QED
          BY <4>2, <4>3, <4>4, <4>5
      <3> QED
        BY <1>6, <3>1, <3>2
    <2>4. ASSUME NEW v \in trades', NEW w \in trades', v.taker = w.taker, v.maker = w.maker,
                 v.liquidity = w.liquidity
          PROVE  v = w
      <3>1. CASE v \in trades /\ w \in trades
        BY <1>6, <2>4, <3>1 DEF TradesOK
      <3>2. CASE v \in {y, z} \/ w \in {y, z}
        <4>1. v \in {y, z} /\ w \in {y, z}
          BY <1>6, <1>7, <1>13, <2>4, <3>2
        <4> QED
          BY <1>13, <2>4, <4>1
      <3> QED
        BY <1>6, <3>1, <3>2
    <2>5. TradesOK' <=>
            /\ IsFiniteSet(trades')
            /\ \A w \in trades' :
                 /\ state'[w.taker] \notin {"ABSENT", "PAID", "REFUSED", "KEPT"}
                 /\ state'[w.maker] \notin {"ABSENT", "PAID", "REFUSED", "KEPT"}
                 /\ age'[w.maker] < age'[w.taker]
                 /\ order'[w.maker].type = "LIMIT"
                 /\ order'[w.taker].side = Opposite(order'[w.maker].side)
                 /\ w.feeAsset = AssetOf(Opposite(order'[Receiver(w)].side))
                 /\ w.fee = StoredFee(w.liquidity, w.total)
            /\ \A v, w \in trades' :
                 v.taker = w.taker /\ v.maker = w.maker /\ v.liquidity = w.liquidity => v = w
      BY DEF TradesOK, Receiver, StoredFee, Fee
    <2> QED
      BY <2>1, <2>3, <2>4, <2>5
  <1>24. FinishedStay
    BY <1>6, <1>7, <1>8 DEF FinishedStay
  <1>25. Explained(r)' /\ Explained(s)'
    <2>1. /\ r = TransferOf(Receiver(y), Other(y), y)' /\ y \in trades'
          /\ s = TransferOf(Receiver(z), Other(z), z)' /\ z \in trades'
      BY <1>4, <1>5, <1>6, <1>13 DEF TransferOf, Payer, Receiver, Other
    <2> QED
      BY <2>1 DEF Explained
  <1>26. RowsOK'
    <2>1. \A o \in Order : state'[o] = "CANCELLED" => state[o] = "CANCELLED"
      BY <1>8
    <2> QED
      BY <1>6, <1>17, <1>24, <1>25, <2>1, RowsStay
  <1>27. QueuesOK'
    BY <1>6, <1>17, <1>24, QueuesStay
  <1>28. ASSUME NEW b \in Broker, NEW a \in Asset PROVE Balanced(b, a)'
    <2>1. PICK py : py = IF SentTo(m, b, a) THEN Payout(y.liquidity, y.total) ELSE 0
      OBVIOUS
    <2>2. PICK pz : pz = IF SentTo(t, b, a) THEN Payout(z.liquidity, z.total) ELSE 0
      OBVIOUS
    <2>3. PICK dt : dt = Due(t, b, a)'
      OBVIOUS
    <2>4. PICK dm : dm = Due(m, b, a)'
      OBVIOUS
    <2>5. PICK cy : cy = Commission(y, b, a)'
      OBVIOUS
    <2>6. PICK cz : cz = Commission(z, b, a)'
      OBVIOUS
    <2>7. /\ pz \in Nat /\ Due(t, b, a) \in Nat /\ dt \in Nat /\ cz \in Nat
          /\ pz <= Due(t, b, a) - dt /\ Due(t, b, a) - dt <= pz + cz
      BY <1>11, <2>2, <2>3, <2>6
    <2>8. /\ py \in Nat /\ Due(m, b, a) \in Nat /\ dm \in Nat /\ cy \in Nat
          /\ py <= Due(m, b, a) - dm /\ Due(m, b, a) - dm <= py + cy
      BY <1>12, <2>1, <2>4, <2>5
    <2>9. Unpaid(r, b, a) = py /\ Unpaid(s, b, a) = pz
      BY <1>15, <1>18, <2>1, <2>2 DEF Unpaid, SentTo
    <2>10. OwedRows(b, a)' = OwedRows(b, a) + py + pz
      BY <1>6, <1>16, <1>17, <2>9, RowsWritten
    <2>11. \A o \in Placed \ {t, m} : Due(o, b, a)' = Due(o, b, a)
      <3> SUFFICES ASSUME NEW o \in Placed \ {t, m} PROVE Due(o, b, a)' = Due(o, b, a)
        OBVIOUS
      <3>1. order'[o] = order[o] /\ state'[o] = state[o] /\ brokerOf' = brokerOf
        BY <1>6, <1>8 DEF Placed
      <3> QED
        BY <1>6, <3>1 DEF Due, SentTo, Received
    <2>12. OwedOrders(b, a)' = OwedOrders(b, a) - Due(t, b, a) + dt - Due(m, b, a) + dm
      <3>1. dt \in Int /\ dm \in Int /\ t # m
        BY <1>7, <2>7, <2>8
      <3> QED
        BY <1>6, <1>21, <2>3, <2>4, <2>11, <3>1, TwoOrdersChange
    <2>13. EarnedOrders(b, a)' = EarnedOrders(b, a)
      <3>1. \A o \in Placed : KeptOf(o, b, a)' = KeptOf(o, b, a)
        <4> SUFFICES ASSUME NEW o \in Placed PROVE KeptOf(o, b, a)' = KeptOf(o, b, a)
          OBVIOUS
        <4>1. CASE o \in {t, m}
          <5>1. state[o] = "PENDING" /\ state'[o] \in {"PENDING", "DONE"}
            BY <1>7, <1>8, <4>1
          <5>2. SentTo(o, b, a)' = SentTo(o, b, a) /\ excess'[o] = excess[o]
            BY <1>6, <1>10, <4>1 DEF SentTo
          <5> QED
            BY <5>1, <5>2 DEF KeptOf
        <4>2. CASE o \notin {t, m}
          <5>1. order'[o] = order[o] /\ state'[o] = state[o] /\ brokerOf' = brokerOf
            BY <1>6, <1>8, <4>2 DEF Placed
          <5> QED
            BY <1>6, <5>1 DEF KeptOf, SentTo, Received
        <4> QED
          BY <4>1, <4>2
      <3>2. [o \in Placed |-> KeptOf(o, b, a)]' = [o \in Placed |-> KeptOf(o, b, a)]
        BY <1>21, <3>1
      <3> QED
        BY <1>21, <3>2 DEF EarnedOrders
    <2>14. EarnedFees(b, a)' = EarnedFees(b, a) + cy + cz
      <3>1. \A w \in trades : Commission(w, b, a)' = Commission(w, b, a)
        <4> SUFFICES ASSUME NEW w \in trades PROVE Commission(w, b, a)' = Commission(w, b, a)
          OBVIOUS
        <4>1. w.maker \in Order
          BY <1>6 DEF TypeOK, Trade
        <4>2. brokerOf' = brokerOf /\ order'[w.maker].price = order[w.maker].price
          BY <1>6, <1>10, <4>1
        <4>3. PayerOf(w)' = PayerOf(w)
          BY <4>2 DEF PayerOf
        <4> QED
          BY <4>2, <4>3 DEF Commission
      <3>2. cy \in Int /\ cz \in Int
        BY <2>7, <2>8
      <3> QED
        BY <1>6, <1>14, <2>5, <2>6, <3>1, <3>2, TradesMade
    <2>15. /\ OwedRows(b, a) \in Nat /\ OwedOrders(b, a) \in Nat
           /\ EarnedFees(b, a) \in Nat /\ EarnedOrders(b, a) \in Nat /\ wallet[b][a] \in Nat
      <3>1. TypeOK /\ OrdersOK /\ TradesOK
        BY <1>6 DEF SettlementIInv
      <3>2. /\ OwedRows(b, a) \in Nat /\ OwedOrders(b, a) \in Nat
            /\ EarnedFees(b, a) \in Nat /\ EarnedOrders(b, a) \in Nat
        BY <3>1, SumTypes
      <3>3. wallet[b][a] \in Nat
        BY <3>1, SMTT(30) DEF TypeOK
      <3> QED
        BY <3>2, <3>3
    <2>16. PICK p \in Int : p = py + pz
      BY <2>7, <2>8
    <2>17. PICK d \in Int : d = dt - Due(t, b, a) + dm - Due(m, b, a)
      BY <2>7, <2>8
    <2>18. PICK c \in Int : c = cy + cz
      BY <2>7, <2>8
    <2>19. /\ wallet'[b][a] = wallet[b][a] + 0 /\ OwedRows(b, a)' = OwedRows(b, a) + p
           /\ OwedOrders(b, a)' = OwedOrders(b, a) + d
           /\ EarnedFees(b, a)' = EarnedFees(b, a) + c
           /\ EarnedOrders(b, a)' = EarnedOrders(b, a) + 0
      BY <1>6, <2>7, <2>8, <2>10, <2>12, <2>13, <2>14, <2>15, <2>16, <2>17, <2>18
    <2>20. p + d <= 0 /\ 0 - p - d <= c + 0
      BY <2>7, <2>8, <2>16, <2>17, <2>18
    <2> QED
      BY <2>19, <2>20, BalanceKept
  <1>29. BrokersSolvent' /\ OnlyFeesAreKept'
    BY <1>28, AllBalanced
  <1> QED
    BY <1>20, <1>22, <1>23, <1>26, <1>27, <1>29 DEF SettlementIInv

-----------------------------------------------------------------------------
(* The invariant.                                                          *)

LEMMA SettlementStart == ASSUME Init PROVE SettlementIInv
  <1>1. Rows = {} /\ Placed = {} /\ trades = {} /\ payments = {}
    BY DEF Init, Rows, ToSet, Placed
  <1>2. \A o \in Order : order[o] \in OrderRecord /\ WellFormed(order[o])
    BY PlacementFacts DEF Init
  <1>3. TypeOK
    <2>1. order \in [Order -> OrderRecord]
      BY <1>2 DEF Init
    <2>2. /\ transfers \in Seq(Transfer) /\ unsent \in [Broker -> Seq(Transfer)]
          /\ \A b \in Broker : ToSet(unsent[b]) \subseteq batch[b]
      BY DEF Init, ToSet
    <2> QED
      BY <2>1, <2>2, SettlementAssumption DEF Init, TypeOK
  <1>4. OrdersOK
    BY <1>1, <1>2, FS_EmptySet DEF OrdersOK, Init
  <1>5. TradesOK
    BY <1>1, FS_EmptySet DEF TradesOK
  <1>6. RowsOK
    BY <1>1 DEF RowsOK, Init
  <1>7. QueuesOK
    BY DEF QueuesOK, Init
  <1>8. ASSUME NEW b \in Broker, NEW a \in Asset
        PROVE  wallet[b][a] = 0 /\ Owed(b, a) = 0 /\ Earned(b, a) = 0
    <2>1. /\ OwedRows(b, a) = 0 /\ OwedOrders(b, a) = 0
          /\ EarnedFees(b, a) = 0 /\ EarnedOrders(b, a) = 0
      BY <1>1, SumEmpty DEF OwedRows, OwedOrders, EarnedFees, EarnedOrders
    <2> QED
      BY <2>1 DEF Init, Owed, Earned
  <1>9. BrokersSolvent /\ OnlyFeesAreKept
    BY <1>8 DEF BrokersSolvent, OnlyFeesAreKept
  <1> QED
    BY <1>3, <1>4, <1>5, <1>6, <1>7, <1>9 DEF SettlementIInv

LEMMA SettlementStutter == ASSUME SettlementIInv, UNCHANGED vars PROVE SettlementIInv'
  <1>1. /\ UNCHANGED <<order, excess, state, age, trades, brokerOf, transfers, batch, unsent,
                       payments, wallet, restarts, lost>>
        /\ UNCHANGED <<tables, poller>>
    BY DEF vars, tables, poller, network
  <1>2. UNCHANGED Rows
    BY <1>1 DEF Rows
  <1>3. FinishedStay
    BY <1>1 DEF FinishedStay
  <1>4. TypeOK'
    BY <1>1 DEF SettlementIInv, TypeOK
  <1>5. OrdersOK' /\ TradesOK'
    BY <1>1, TablesStay
  <1>6. RowsOK'
    BY <1>1, <1>2, <1>3, RowsStay
  <1>7. QueuesOK'
    BY <1>1, <1>2, <1>3, QueuesStay
  <1>8. BrokersSolvent' /\ OnlyFeesAreKept'
    BY <1>1, RowsSame, BalancesStay
  <1> QED
    BY <1>4, <1>5, <1>6, <1>7, <1>8 DEF SettlementIInv

\* The inductive invariant of the money of a market, for any number of orders and brokers
\* and any fees: the types, what makes a transfer id stand for one transfer (Transact,
\* CancelOrder, refundSnapshot), that nothing is deleted before it is settled
\* (PollTransfers), and the balance of every broker.
THEOREM SettlementInvariance == Spec => []SettlementIInv
  <1>1. Init => SettlementIInv
    BY SettlementStart
  <1>2. SettlementIInv /\ [Next]_vars => SettlementIInv'
    <2> SUFFICES ASSUME SettlementIInv, [Next]_vars PROVE SettlementIInv'
      OBVIOUS
    <2>1. CASE \E o \in Order :
                 Deposit(o) \/ CreateOrderAction(o) \/ RefundSnapshot(o) \/ KeepPayment(o)
      BY <2>1, DepositStep, CreateOrderActionStep, RefundSnapshotStep, KeepPaymentStep
    <2>2. CASE \E t, m \in Order : Transact(t, m)
      BY <2>2, TransactStep
    <2>3. CASE \E o \in Order : CancelOrder(o) \/ CancelOrderAgain(o)
      BY <2>3, CancelOrderStep, CancelOrderAgainStep
    <2>4. CASE \E b \in Broker : PollTransfers(b)
      BY <2>4, ListPendingTransfersStep, ProcessTransferStep, ExpireTransfersStep
         DEF PollTransfers
    <2>5. CASE Restart
      BY <2>5, SettlementRestartStep
    <2>6. CASE UNCHANGED vars
      BY <2>6, SettlementStutter
    <2> QED
      BY <2>1, <2>2, <2>3, <2>4, <2>5, <2>6 DEF Next
  <1> QED
    BY <1>1, <1>2, PTL DEF Spec

\* No broker ever owes more of an asset than it holds at the network, through crashes,
\* lost replies and transfers that are sent again (handleFees, CancelOrder, PollTransfers).
THEOREM BrokersAreSolvent == Spec => []BrokersSolvent
  <1>1. SettlementIInv => BrokersSolvent
    BY DEF SettlementIInv
  <1> QED
    BY <1>1, SettlementInvariance, PTL

\* What a broker holds and does not owe are the fees of the trades it paid and of refunds,
\* less than one unit for every truncation, that of a snapshot into an order included
\* (processSnapshot), and the payments that carried a key or a cancellation.
THEOREM OnlyFeesStayBehind == Spec => []OnlyFeesAreKept
  <1>1. SettlementIInv => OnlyFeesAreKept
    BY DEF SettlementIInv
  <1> QED
    BY <1>1, SettlementInvariance, PTL

\* The trade of a transfer is always found, so that processTransfer does not panic, and
\* its fee and the payout make up the total of the side but for a truncated unit.
THEOREM TransfersHaveTheirTrade == Spec => []TradeTransfersExplained
  <1>1. SettlementIInv => TradeTransfersExplained
    <2> SUFFICES ASSUME SettlementIInv, NEW t \in Rows, t.id.kind \in {"TAKER", "MAKER"}
                 PROVE  \E x \in ReadTransferTrade(t) :
                          /\ x.liquidity = t.id.kind
                          /\ t.amount + x.fee =
                               x.total - IF Fee(x.liquidity, x.total) % FeeScale = 0 THEN 0 ELSE 1
      BY DEF TradeTransfersExplained
    <2>1. \A o \in Order : CancelRow(o).id.kind = "CANCEL" /\ RefundRow(o).id.kind = "REFUND"
      BY DEF CancelRow, RefundRow, Row
    <2>2. Explained(t)
      BY DEF SettlementIInv, RowsOK
    <2>3. PICK x \in trades : t = TransferOf(Receiver(x), Other(x), x)
      BY <2>1, <2>2 DEF Explained
    <2>4. /\ t.id.kind = x.liquidity /\ t.id.of = {x.taker, x.maker} /\ t.asset = x.feeAsset
          /\ t.amount = Payout(x.liquidity, x.total)
      BY <2>3 DEF TransferOf, TransferId, Row
    <2>5. x.liquidity \in {"TAKER", "MAKER"} /\ x.total \in Nat
      BY DEF SettlementIInv, TypeOK, Trade
    <2>6. x.fee = StoredFee(x.liquidity, x.total)
      BY DEF SettlementIInv, TradesOK
    <2>7. x \in ReadTransferTrade(t)
      BY <2>4 DEF ReadTransferTrade
    <2>8. t.amount + x.fee =
            x.total - IF Fee(x.liquidity, x.total) % FeeScale = 0 THEN 0 ELSE 1
      BY <2>4, <2>5, <2>6, PayoutFacts
    <2> QED
      BY <2>4, <2>7, <2>8
  <1> QED
    BY <1>1, SettlementInvariance, PTL

-----------------------------------------------------------------------------
(* Settlement implements Payouts.                                          *)

Debt == {t \in Rows : t.amount > 0 /\ ~ Known(t)}

\* A step that pays nothing: rows go only when they are settled, and come with new ids.
LEMMA DebtsGrow ==
    ASSUME TypeOK, UNCHANGED payments, \A t \in Rows : t \in Rows' \/ Settled(t),
           \A t \in Rows' \ Rows : \A u \in Rows : t.id # u.id
    PROVE  Debts!Owe
  <1>1. \A t : Known(t)' <=> Known(t)
    BY DEF Known
  <1>2. \A t \in Debt : t \in Debt'
    BY <1>1 DEF Debt, Settled
  <1>3. ASSUME NEW t \in Debt' \ Debt, NEW u \in Debt \cup payments
        PROVE  t.id # u.id
    <2>1. t \in Rows' \ Rows /\ ~ Known(t)
      BY <1>1, <1>3 DEF Debt
    <2> QED
      BY <1>3, <2>1 DEF Debt, Known
  <1> QED
    BY <1>2, <1>3 DEF Debts!Owe, Debt

LEMMA InsertOwes ==
    ASSUME TypeOK, UNCHANGED payments, NEW Y, NEW s \in Seq(Y), Insert(s)
    PROVE  Debts!Owe
  <1>1. PICK X : X = Transfer \cup Y
    OBVIOUS
  <1>2. s \in Seq(X) /\ transfers \in Seq(X)
    BY <1>1 DEF TypeOK
  <1>3. Rows' = Rows \cup ToSet(s)
    BY <1>2, SequenceFacts DEF Insert, Rows
  <1>4. \A t \in Rows : \A u \in ToSet(s) : t.id # u.id
    BY DEF Insert, Ids, ToSet
  <1> QED
    BY <1>3, <1>4, DebtsGrow

\* The transfer that is paid is owed, and no other row has its id.
LEMMA PayPays ==
    ASSUME SettlementIInv, NEW b \in Broker, ProcessTransfer(b), ~ UNCHANGED payments
    PROVE  Debts!Pay
  <1>1. PICK t : t = Head(unsent[b])
    OBVIOUS
  <1>2. /\ unsent[b] # <<>> /\ UNCHANGED transfers
        /\ ~ Known(t) /\ t.amount # 0 /\ payments' = payments \cup {t}
    BY <1>1 DEF ProcessTransfer, Pay, network
  <1>3. t \in batch[b]
    <2>1. unsent[b] \in Seq(Transfer) /\ ToSet(unsent[b]) \subseteq batch[b]
      BY DEF SettlementIInv, TypeOK
    <2> QED
      BY <1>1, <1>2, <2>1, SequenceFacts
  <1>4. t \in Rows /\ Explained(t) /\ t \in Transfer
    BY <1>2, <1>3 DEF SettlementIInv, QueuesOK, Settled, TypeOK
  <1>5. t.amount > 0
    BY <1>2, <1>4 DEF Transfer
  <1>6. \A u \in Rows : u.id = t.id => u = t
    BY <1>4, OneTransferPerId DEF SettlementIInv, RowsOK
  <1>7. \A u : Known(u)' <=> Known(u) \/ u.id = t.id
    BY <1>2 DEF Known
  <1>8. Rows' = Rows
    BY <1>2 DEF Rows
  <1>9. Debt' = Debt \ {t}
    BY <1>6, <1>7, <1>8 DEF Debt
  <1>10. t \in Debt /\ \A u \in payments : t.id # u.id
    BY <1>2, <1>4, <1>5 DEF Debt, Known
  <1> QED
    BY <1>2, <1>9, <1>10 DEF Debts!Pay, Debt

LEMMA SettlementSteps ==
    ASSUME SettlementIInv, [Next]_vars
    PROVE  Debts!Owe \/ Debts!Pay
  <1>1. TypeOK
    BY DEF SettlementIInv
  <1>2. ASSUME UNCHANGED <<transfers, payments>> PROVE Debts!Owe
    <2>1. UNCHANGED Rows
      BY <1>2 DEF Rows
    <2> QED
      BY <1>1, <1>2, <2>1, DebtsGrow
  <1>3. CASE \E o \in Order : Deposit(o) \/ CreateOrderAction(o) \/ KeepPayment(o)
    BY <1>2, <1>3 DEF Deposit, CreateOrderAction, KeepPayment, network
  <1>4. ASSUME NEW o \in Order, RefundSnapshot(o) PROVE Debts!Owe
    <2>1. PICK s : s = IF RefundRow(o).amount = 0 THEN <<>> ELSE <<RefundRow(o)>>
      OBVIOUS
    <2>2. s \in Seq({RefundRow(o)})
      <3>1. PICK r : r = RefundRow(o)
        OBVIOUS
      <3>2. <<r>> \in Seq({r}) /\ <<>> \in Seq({r})
        OBVIOUS
      <3> QED
        BY <2>1, <3>1, <3>2
    <2>3. Insert(s) /\ UNCHANGED payments
      BY <1>4, <2>1 DEF RefundSnapshot, network
    <2> QED
      BY <1>1, <2>2, <2>3, InsertOwes
  <1>5. ASSUME NEW t \in Order, NEW m \in Order, Transact(t, m) PROVE Debts!Owe
    <2>1. PICK r, s : Insert(<<r, s>>) /\ UNCHANGED payments
      BY <1>5 DEF Transact, network
    <2>2. <<r, s>> \in Seq({r, s})
      OBVIOUS
    <2> QED
      BY <1>1, <2>1, <2>2, InsertOwes
  <1>6. ASSUME NEW o \in Order, CancelOrder(o) \/ CancelOrderAgain(o) PROVE Debts!Owe
    <2>1. PICK r : r = CancelRow(o)
      OBVIOUS
    <2>2. Insert(<<r>>) /\ UNCHANGED payments
      BY <1>6, <2>1 DEF CancelOrder, CancelOrderAgain, network
    <2>3. <<r>> \in Seq({r})
      OBVIOUS
    <2> QED
      BY <1>1, <2>2, <2>3, InsertOwes
  <1>7. ASSUME NEW b \in Broker, ListPendingTransfers(b) PROVE Debts!Owe
    BY <1>2, <1>7 DEF ListPendingTransfers, network
  <1>8. ASSUME NEW b \in Broker, ProcessTransfer(b) PROVE Debts!Owe \/ Debts!Pay
    <2>1. UNCHANGED transfers
      BY <1>8 DEF ProcessTransfer
    <2> QED
      BY <1>2, <1>8, <2>1, PayPays
  <1>9. ASSUME NEW b \in Broker, ExpireTransfers(b) PROVE Debts!Owe
    <2>1. /\ unsent[b] = <<>> /\ UNCHANGED payments
          /\ transfers' = Without(transfers, {t \in Rows : Expired(b, t)})
      BY <1>9 DEF ExpireTransfers, network
    <2>2. Rows' = Rows \ {t \in Rows : Expired(b, t)}
      BY <1>1, <2>1, WithoutFacts DEF TypeOK, Rows
    <2>3. \A t \in batch[b] : Explained(t) /\ Settled(t)
      BY <2>1 DEF SettlementIInv, QueuesOK, ToSet
    <2>4. \A t \in Rows : Expired(b, t) => Settled(t)
      BY <2>3, OneTransferPerId DEF SettlementIInv, RowsOK, Expired, Ids
    <2> QED
      BY <1>1, <2>1, <2>2, <2>4, DebtsGrow
  <1>10. CASE Restart
    BY <1>2, <1>10 DEF Restart, network
  <1>11. CASE UNCHANGED vars
    BY <1>2, <1>11 DEF vars, network
  <1> QED
    BY <1>3, <1>4, <1>5, <1>6, <1>7, <1>8, <1>9, <1>10, <1>11 DEF Next, PollTransfers

\* Every transfer is paid before its row is deleted, and paid once, though it may be
\* listed, sent, inserted and deleted again after a crash or a lost reply: Settlement
\* implements Payouts.
THEOREM DebtsArePaidOnce == Spec => EveryDebtIsPaidOnce
  <1>1. Init => Debts!Init
    BY DEF Init, Debts!Init, Rows, ToSet
  <1>2. SettlementIInv /\ [Next]_vars => Debts!Owe \/ Debts!Pay
    BY SettlementSteps
  <1> QED
    BY <1>1, <1>2, SettlementInvariance, PTL DEF Spec, EveryDebtIsPaidOnce, Debts!Spec
=============================================================================
