---------------------------- MODULE OrderProofs ----------------------------
(***************************************************************************)
(* Lemmas for every value of the constants, on which the proofs about the  *)
(* engine (EngineProofs) and the payment of trades                         *)
(* (SettlementProofs) rest.                                                *)
(*                                                                         *)
(* First sums of a function over a finite set: what SumFunctionOnSet of    *)
(* the community module Functions computes.  The amounts on a price level, *)
(* the trades of an order and the debts of a broker are such sums.  The    *)
(* recursive function behind a fold is an unproved CHOOSE; SumExists shows *)
(* that it exists.  Induction over finite sets is a minimal counterexample *)
(* under strict inclusion (SmallestSet).                                   *)
(*                                                                         *)
(* Then the operators of Orders: what Matched and Fill compute.            *)
(***************************************************************************)
EXTENDS Orders, Functions, FiniteSetTheorems, WellFoundedInduction, TLAPS

\* Every non-empty set of finite subsets of S has a member without a smaller one.
LEMMA SmallestSet ==
    ASSUME NEW S, IsFiniteSet(S), NEW T, T \subseteq SUBSET S, T # {}
    PROVE  \E u \in T : \A v \in T : v \subseteq u => v = u
  <1>1. T \subseteq FiniteSubsetsOf(S)
    BY FS_Subset DEF FiniteSubsetsOf
  <1>2. IsWellFoundedOn(StrictSubsetOrdering(S), FiniteSubsetsOf(S))
    BY FS_StrictSubsetOrderingWellFounded
  <1>3. PICK u \in T : \A v \in T : ~ (<<v, u>> \in StrictSubsetOrdering(S))
    BY <1>1, <1>2, WFMin
  <1>4. ASSUME NEW v \in T, v \subseteq u PROVE v = u
    <2>1. v \in SUBSET S /\ u \in SUBSET S
      OBVIOUS
    <2> QED
      BY <1>3, <1>4, <2>1 DEF StrictSubsetOrdering
  <1> QED
    BY <1>4

-----------------------------------------------------------------------------
(* The recursive function of the fold.                                     *)

SomeOf(s) == CHOOSE x \in s : TRUE

\* g is the function that SumFunctionOnSet(f, S) defines, up to S.
Sums(g, f, S) ==
    g = [s \in SUBSET S |-> IF s = {} THEN 0 ELSE f[SomeOf(s)] + g[s \ {SomeOf(s)}]]

LEMMA SomeOfMember == ASSUME NEW s, s # {} PROVE SomeOf(s) \in s
  BY DEF SomeOf

\* Two such functions agree where both are defined.
LEMMA SumsAgree ==
    ASSUME NEW f, NEW S, NEW T, IsFiniteSet(S), NEW g, NEW h,
           Sums(g, f, S), Sums(h, f, T)
    PROVE  \A s \in SUBSET (S \cap T) : g[s] = h[s]
  <1> DEFINE Bad == {s \in SUBSET (S \cap T) : g[s] # h[s]}
  <1> SUFFICES ASSUME Bad # {} PROVE FALSE
    OBVIOUS
  <1>1. Bad \subseteq SUBSET S
    OBVIOUS
  <1> HIDE DEF Bad
  <1>2. PICK u \in Bad : \A v \in Bad : v \subseteq u => v = u
    BY <1>1, SmallestSet
  <1>3. u \in SUBSET (S \cap T) /\ g[u] # h[u]
    BY DEF Bad
  <1>4. u # {}
    BY <1>3 DEF Sums
  <1>5. SomeOf(u) \in u
    BY <1>4, SomeOfMember
  <1>6. g[u \ {SomeOf(u)}] = h[u \ {SomeOf(u)}]
    BY <1>2, <1>3, <1>5 DEF Bad
  <1>7. g[u] = f[SomeOf(u)] + g[u \ {SomeOf(u)}] /\ h[u] = f[SomeOf(u)] + h[u \ {SomeOf(u)}]
    BY <1>3, <1>4 DEF Sums
  <1> QED
    BY <1>3, <1>6, <1>7

LEMMA SumsRestrict ==
    ASSUME NEW f, NEW S, NEW g, Sums(g, f, S), NEW u \in SUBSET S
    PROVE  Sums([s \in SUBSET u |-> g[s]], f, u)
  <1> DEFINE h == [s \in SUBSET u |-> g[s]]
  <1>1. ASSUME NEW s \in SUBSET u, s # {} PROVE h[s] = f[SomeOf(s)] + h[s \ {SomeOf(s)}]
    <2>1. s \in SUBSET S /\ s \ {SomeOf(s)} \in SUBSET u
      OBVIOUS
    <2> QED
      BY <1>1, <2>1 DEF Sums
  <1>2. h[{}] = 0
    BY DEF Sums
  <1> QED
    BY <1>1, <1>2 DEF Sums

LEMMA SumExists ==
    ASSUME NEW f, NEW S, IsFiniteSet(S)
    PROVE  \E g : Sums(g, f, S)
  <1> DEFINE Bad == {s \in SUBSET S : ~ \E g : Sums(g, f, s)}
  <1> SUFFICES ASSUME Bad # {} PROVE FALSE
    OBVIOUS
  <1>1. Bad \subseteq SUBSET S
    OBVIOUS
  <1> HIDE DEF Bad
  <1>2. PICK u \in Bad : \A v \in Bad : v \subseteq u => v = u
    BY <1>1, SmallestSet
  <1> DEFINE part(s) == CHOOSE g : Sums(g, f, s)
  <1>3. ASSUME NEW s \in SUBSET u, s # u PROVE Sums(part(s), f, s)
    <2>1. \E g : Sums(g, f, s)
      BY <1>2, <1>3 DEF Bad
    <2> QED
      BY <2>1
  <1> HIDE DEF part
  <1> DEFINE value(s) == IF s = {} THEN 0 ELSE f[SomeOf(s)] + part(s \ {SomeOf(s)})[s \ {SomeOf(s)}]
             g == [s \in SUBSET u |-> value(s)]
  <1>4. ASSUME NEW s \in SUBSET u, s # {}
        PROVE  g[s] = f[SomeOf(s)] + g[s \ {SomeOf(s)}]
    <2> DEFINE t == s \ {SomeOf(s)}
    <2>1. SomeOf(s) \in s
      BY <1>4, SomeOfMember
    <2>2. t \in SUBSET u /\ t # u
      BY <2>1
    <2>3. Sums(part(t), f, t)
      BY <1>3, <2>2
    <2>4. g[t] = part(t)[t]
      <3>1. CASE t = {}
        BY <2>2, <2>3, <3>1 DEF Sums
      <3>2. CASE t # {}
        <4> DEFINE v == t \ {SomeOf(t)}
        <4>1. SomeOf(t) \in t
          BY <3>2, SomeOfMember
        <4>2. v \in SUBSET u /\ v # u /\ v \in SUBSET t
          BY <2>2, <4>1
        <4>3. Sums(part(v), f, v)
          BY <1>3, <4>2
        <4>4. part(t)[v] = part(v)[v]
          <5>1. IsFiniteSet(t)
            BY <1>1, <2>2, FS_Subset
          <5> HIDE DEF t, v
          <5> QED
            BY <2>3, <4>2, <4>3, <5>1, SumsAgree
        <4>5. part(t)[t] = f[SomeOf(t)] + part(t)[v]
          BY <2>3, <3>2 DEF Sums
        <4>6. g[t] = f[SomeOf(t)] + part(v)[v]
          BY <2>2, <3>2
        <4> QED
          BY <4>4, <4>5, <4>6
      <3> QED
        BY <3>1, <3>2
    <2> QED
      BY <1>4, <2>2, <2>4
  <1>5. g[{}] = 0
    OBVIOUS
  <1>6. Sums(g, f, u)
    BY <1>4, <1>5 DEF Sums
  <1> QED
    BY <1>2, <1>6 DEF Bad

-----------------------------------------------------------------------------
(* What SumFunctionOnSet returns.                                          *)

LEMMA SumIsValue ==
    ASSUME NEW f, NEW S, IsFiniteSet(S), NEW g, Sums(g, f, S)
    PROVE  SumFunctionOnSet(f, S) = g[S]
  <1> DEFINE h == CHOOSE iter : iter = [s \in SUBSET S |->
                     IF s = {} THEN 0
                     ELSE f[CHOOSE x \in s : TRUE] + iter[s \ {CHOOSE x \in s : TRUE}]]
  <1>1. \E iter : iter = [s \in SUBSET S |->
                     IF s = {} THEN 0
                     ELSE f[CHOOSE x \in s : TRUE] + iter[s \ {CHOOSE x \in s : TRUE}]]
    BY DEF Sums, SomeOf
  <1>2. Sums(h, f, S)
    BY <1>1 DEF Sums, SomeOf
  <1>3. SumFunctionOnSet(f, S) = h[S]
    BY DEF SumFunctionOnSet, FoldFunctionOnSet, MapThenFoldSet
  <1> HIDE DEF h
  <1>4. h[S] = g[S]
    BY <1>2, SumsAgree
  <1> QED
    BY <1>3, <1>4

\* The empty sum.
LEMMA SumEmpty == ASSUME NEW f PROVE SumFunctionOnSet(f, {}) = 0
  <1>1. IsFiniteSet({})
    BY FS_EmptySet
  <1>2. PICK g : Sums(g, f, {})
    BY <1>1, SumExists
  <1>3. SumFunctionOnSet(f, {}) = g[{}]
    BY <1>1, <1>2, SumIsValue
  <1>4. g[{}] = 0
    BY <1>2 DEF Sums
  <1> QED
    BY <1>3, <1>4

\* Some element can be taken out.
LEMMA SumUnfold ==
    ASSUME NEW f, NEW S, IsFiniteSet(S), S # {}
    PROVE  /\ SomeOf(S) \in S
           /\ SumFunctionOnSet(f, S) = f[SomeOf(S)] + SumFunctionOnSet(f, S \ {SomeOf(S)})
  <1> DEFINE T == S \ {SomeOf(S)}
  <1>1. PICK g : Sums(g, f, S)
    BY SumExists
  <1>2. IsFiniteSet(T) /\ T \in SUBSET S
    BY FS_Subset
  <1>3. Sums([s \in SUBSET T |-> g[s]], f, T)
    BY <1>1, <1>2, SumsRestrict
  <1>4. SumFunctionOnSet(f, S) = g[S]
    BY <1>1, SumIsValue
  <1>5. SumFunctionOnSet(f, T) = g[T]
    <2>1. SumFunctionOnSet(f, T) = [s \in SUBSET T |-> g[s]][T]
      BY <1>2, <1>3, SumIsValue
    <2> QED
      BY <2>1
  <1>6. g[S] = f[SomeOf(S)] + g[T]
    BY <1>1 DEF Sums
  <1> QED
    BY <1>4, <1>5, <1>6, SomeOfMember

\* The sum of integers is one, and of natural numbers.
LEMMA SumType ==
    ASSUME NEW S, IsFiniteSet(S), NEW f, NEW N \in {Nat, Int}, \A x \in S : f[x] \in N
    PROVE  SumFunctionOnSet(f, S) \in N
  <1> DEFINE Bad == {s \in SUBSET S : SumFunctionOnSet(f, s) \notin N}
  <1> SUFFICES ASSUME Bad # {} PROVE FALSE
    OBVIOUS
  <1>1. Bad \subseteq SUBSET S
    OBVIOUS
  <1> HIDE DEF Bad
  <1>2. PICK u \in Bad : \A v \in Bad : v \subseteq u => v = u
    BY <1>1, SmallestSet
  <1>3. u \in SUBSET S /\ SumFunctionOnSet(f, u) \notin N
    BY DEF Bad
  <1>4. IsFiniteSet(u)
    BY <1>3, FS_Subset
  <1>5. u # {}
    BY <1>3, SumEmpty
  <1>6. /\ SomeOf(u) \in u
        /\ SumFunctionOnSet(f, u) = f[SomeOf(u)] + SumFunctionOnSet(f, u \ {SomeOf(u)})
    BY <1>4, <1>5, SumUnfold
  <1>7. SumFunctionOnSet(f, u \ {SomeOf(u)}) \in N
    BY <1>2, <1>3, <1>6 DEF Bad
  <1>8. \A a, b \in N : a + b \in N
    OBVIOUS
  <1>9. f[SomeOf(u)] \in N
    BY <1>3, <1>6
  <1> QED
    BY <1>3, <1>6, <1>7, <1>8, <1>9

\* Any element can be taken out: addition commutes.
LEMMA SumRemove ==
    ASSUME NEW S, IsFiniteSet(S), NEW f, \A x \in S : f[x] \in Int, NEW x \in S
    PROVE  SumFunctionOnSet(f, S) = f[x] + SumFunctionOnSet(f, S \ {x})
  <1> DEFINE Good(s) == \A y \in s : SumFunctionOnSet(f, s) = f[y] + SumFunctionOnSet(f, s \ {y})
             Bad == {s \in SUBSET S : ~ Good(s)}
  <1> SUFFICES ASSUME Bad # {} PROVE FALSE
    BY DEF Good
  <1>1. Bad \subseteq SUBSET S
    OBVIOUS
  <1> HIDE DEF Bad
  <1>2. PICK u \in Bad : \A v \in Bad : v \subseteq u => v = u
    BY <1>1, SmallestSet
  <1>3. u \in SUBSET S /\ ~ Good(u)
    BY DEF Bad
  <1>4. PICK y \in u : SumFunctionOnSet(f, u) # f[y] + SumFunctionOnSet(f, u \ {y})
    BY <1>3
  <1> DEFINE a == SomeOf(u)
  <1>5. IsFiniteSet(u) /\ \A s \in SUBSET u : IsFiniteSet(s)
    BY <1>3, FS_Subset
  <1>6. a \in u /\ SumFunctionOnSet(f, u) = f[a] + SumFunctionOnSet(f, u \ {a})
    BY <1>4, <1>5, SumUnfold
  <1> HIDE DEF a
  <1>7. y # a
    BY <1>4, <1>6
  <1>b. ASSUME NEW z \in u PROVE Good(u \ {z})
    <2>1. u \ {z} \in SUBSET S /\ u \ {z} # u /\ u \ {z} \subseteq u
      BY <1>3
    <2> HIDE DEF Good
    <2>2. u \ {z} \notin Bad
      BY <1>2, <2>1
    <2> QED
      BY <2>1, <2>2 DEF Bad
  <1>8. SumFunctionOnSet(f, u \ {a}) = f[y] + SumFunctionOnSet(f, (u \ {a}) \ {y})
    <2>1. Good(u \ {a})
      BY <1>b, <1>6
    <2> QED
      BY <1>7, <2>1
  <1>9. SumFunctionOnSet(f, u \ {y}) = f[a] + SumFunctionOnSet(f, (u \ {y}) \ {a})
    <2>1. Good(u \ {y})
      BY <1>b
    <2> QED
      BY <1>6, <1>7, <2>1
  <1>10. (u \ {a}) \ {y} = (u \ {y}) \ {a}
    OBVIOUS
  <1>11. f[a] \in Int /\ f[y] \in Int /\ SumFunctionOnSet(f, (u \ {a}) \ {y}) \in Int
    <2>1. \A z \in (u \ {a}) \ {y} : f[z] \in Int
      BY <1>3
    <2> QED
      BY <1>3, <1>5, <1>6, <2>1, SumType
  <1> DEFINE c == SumFunctionOnSet(f, (u \ {a}) \ {y})
  <1>12. /\ SumFunctionOnSet(f, u) = f[a] + (f[y] + c)
         /\ SumFunctionOnSet(f, u \ {y}) = f[a] + c
    BY <1>6, <1>8, <1>9, <1>10
  <1>13. f[a] + (f[y] + c) = f[y] + (f[a] + c)
    BY <1>11
  <1> QED
    BY <1>4, <1>12, <1>13

\* Equal terms have equal sums.
LEMMA SumSame ==
    ASSUME NEW S, IsFiniteSet(S), NEW f, NEW g, \A x \in S : f[x] = g[x]
    PROVE  SumFunctionOnSet(f, S) = SumFunctionOnSet(g, S)
  <1> DEFINE Bad == {s \in SUBSET S : SumFunctionOnSet(f, s) # SumFunctionOnSet(g, s)}
  <1> SUFFICES ASSUME Bad # {} PROVE FALSE
    OBVIOUS
  <1>1. Bad \subseteq SUBSET S
    OBVIOUS
  <1> HIDE DEF Bad
  <1>2. PICK u \in Bad : \A v \in Bad : v \subseteq u => v = u
    BY <1>1, SmallestSet
  <1>3. u \in SUBSET S /\ SumFunctionOnSet(f, u) # SumFunctionOnSet(g, u)
    BY DEF Bad
  <1>4. IsFiniteSet(u)
    BY <1>3, FS_Subset
  <1>5. u # {}
    BY <1>3, SumEmpty
  <1>6. /\ SomeOf(u) \in u
        /\ SumFunctionOnSet(f, u) = f[SomeOf(u)] + SumFunctionOnSet(f, u \ {SomeOf(u)})
        /\ SumFunctionOnSet(g, u) = g[SomeOf(u)] + SumFunctionOnSet(g, u \ {SomeOf(u)})
    BY <1>4, <1>5, SumUnfold
  <1>7. SumFunctionOnSet(f, u \ {SomeOf(u)}) = SumFunctionOnSet(g, u \ {SomeOf(u)})
    BY <1>2, <1>3, <1>6 DEF Bad
  <1>8. f[SomeOf(u)] = g[SomeOf(u)]
    BY <1>3, <1>6
  <1> QED
    BY <1>3, <1>6, <1>7, <1>8

-----------------------------------------------------------------------------
(* How a sum follows what a step does to its terms and to its set.         *)

\* One term changes.
LEMMA SumChange ==
    ASSUME NEW S, IsFiniteSet(S), NEW x \in S, NEW f, NEW g,
           \A y \in S : f[y] \in Int /\ g[y] \in Int,
           \A y \in S \ {x} : g[y] = f[y]
    PROVE  SumFunctionOnSet(g, S) = SumFunctionOnSet(f, S) - f[x] + g[x]
  <1> DEFINE T == S \ {x}
  <1>1. IsFiniteSet(T)
    BY FS_Subset
  <1>2. /\ SumFunctionOnSet(f, S) = f[x] + SumFunctionOnSet(f, T)
        /\ SumFunctionOnSet(g, S) = g[x] + SumFunctionOnSet(g, T)
    BY SumRemove
  <1>3. SumFunctionOnSet(g, T) = SumFunctionOnSet(f, T)
    BY <1>1, SumSame
  <1>4. SumFunctionOnSet(f, T) \in Int
    BY <1>1, SumType
  <1> QED
    BY <1>2, <1>3, <1>4

\* A new element is added.
LEMMA SumAdd ==
    ASSUME NEW S, IsFiniteSet(S), NEW x, x \notin S, NEW f,
           \A y \in S \cup {x} : f[y] \in Int
    PROVE  SumFunctionOnSet(f, S \cup {x}) = SumFunctionOnSet(f, S) + f[x]
  <1> DEFINE T == S \cup {x}
  <1>1. IsFiniteSet(T)
    BY FS_AddElement
  <1>2. T \ {x} = S
    OBVIOUS
  <1>3. SumFunctionOnSet(f, T) = f[x] + SumFunctionOnSet(f, T \ {x})
    BY <1>1, SumRemove
  <1>4. SumFunctionOnSet(f, S) \in Int /\ f[x] \in Int
    BY SumType
  <1>5. SumFunctionOnSet(f, T) = f[x] + SumFunctionOnSet(f, S)
    BY <1>2, <1>3
  <1> QED
    BY <1>4, <1>5

\* A new element is added to a sum whose other terms stay.
LEMMA SumInsert ==
    ASSUME NEW S, IsFiniteSet(S), NEW x, x \notin S, NEW T, T = S \cup {x}, NEW f, NEW g,
           \A y \in S : f[y] \in Int /\ g[y] = f[y], g[x] \in Int
    PROVE  SumFunctionOnSet(g, T) = SumFunctionOnSet(f, S) + g[x]
  <1>1. SumFunctionOnSet(g, S) = SumFunctionOnSet(f, S)
    BY SumSame
  <1>2. SumFunctionOnSet(g, S \cup {x}) = SumFunctionOnSet(g, S) + g[x]
    <2>1. \A y \in S \cup {x} : g[y] \in Int
      OBVIOUS
    <2> QED
      BY <2>1, SumAdd
  <1> QED
    BY <1>1, <1>2

\* Two terms change.
LEMMA SumChangeTwo ==
    ASSUME NEW S, IsFiniteSet(S), NEW x \in S, NEW z \in S, x # z, NEW f, NEW g,
           \A y \in S : f[y] \in Int /\ g[y] \in Int,
           \A y \in S \ {x, z} : g[y] = f[y]
    PROVE  SumFunctionOnSet(g, S) = SumFunctionOnSet(f, S) - f[x] + g[x] - f[z] + g[z]
  <1> DEFINE h == [y \in S |-> IF y = x THEN g[y] ELSE f[y]]
  <1>1. /\ \A y \in S : h[y] \in Int
        /\ h[x] = g[x] /\ h[z] = f[z]
        /\ \A y \in S \ {x} : h[y] = f[y]
        /\ \A y \in S \ {z} : g[y] = h[y]
    OBVIOUS
  <1> HIDE DEF h
  <1>2. SumFunctionOnSet(h, S) = SumFunctionOnSet(f, S) - f[x] + h[x]
    BY <1>1, SumChange
  <1>3. SumFunctionOnSet(g, S) = SumFunctionOnSet(h, S) - h[z] + g[z]
    BY <1>1, SumChange
  <1>4. SumFunctionOnSet(f, S) \in Int /\ SumFunctionOnSet(h, S) \in Int
    BY <1>1, SumType
  <1>5. f[x] \in Int /\ g[x] \in Int /\ f[z] \in Int /\ g[z] \in Int
    OBVIOUS
  <1> QED
    BY <1>1, <1>2, <1>3, <1>4, <1>5

\* Terms that are zero do not count.
LEMMA SumSubset ==
    ASSUME NEW S, IsFiniteSet(S), NEW f, \A y \in S : f[y] \in Int,
           NEW T \in SUBSET S, \A y \in S \ T : f[y] = 0
    PROVE  SumFunctionOnSet(f, S) = SumFunctionOnSet(f, T)
  <1> DEFINE Bad == {s \in SUBSET S : T \subseteq s /\
                        SumFunctionOnSet(f, s) # SumFunctionOnSet(f, T)}
  <1> SUFFICES ASSUME Bad # {} PROVE FALSE
    OBVIOUS
  <1>1. Bad \subseteq SUBSET S
    OBVIOUS
  <1> HIDE DEF Bad
  <1>2. PICK u \in Bad : \A v \in Bad : v \subseteq u => v = u
    BY <1>1, SmallestSet
  <1>3. /\ u \in SUBSET S /\ T \subseteq u
        /\ SumFunctionOnSet(f, u) # SumFunctionOnSet(f, T)
    BY DEF Bad
  <1>4. PICK y \in u : y \notin T
    BY <1>3
  <1>5. IsFiniteSet(u)
    BY <1>3, FS_Subset
  <1>6. SumFunctionOnSet(f, u) = f[y] + SumFunctionOnSet(f, u \ {y})
    BY <1>3, <1>4, <1>5, SumRemove
  <1>7. SumFunctionOnSet(f, u \ {y}) = SumFunctionOnSet(f, T)
    BY <1>2, <1>3, <1>4 DEF Bad
  <1>8. SumFunctionOnSet(f, u \ {y}) \in Int
    BY <1>3, <1>5, FS_Subset, SumType
  <1> QED
    BY <1>3, <1>4, <1>6, <1>7, <1>8

\* Elements whose terms are zero may be taken out of a sum whose other terms stay.
LEMMA SumOver ==
    ASSUME NEW S, IsFiniteSet(S), NEW T \in SUBSET S, NEW f, NEW g,
           \A y \in S : f[y] \in Int, \A y \in T : g[y] = f[y],
           \A y \in S \ T : f[y] = 0
    PROVE  SumFunctionOnSet(g, T) = SumFunctionOnSet(f, S)
  <1>1. IsFiniteSet(T)
    BY FS_Subset
  <1>2. SumFunctionOnSet(g, T) = SumFunctionOnSet(f, T)
    BY <1>1, SumSame
  <1> QED
    BY <1>2, SumSubset

\* Smaller terms have a smaller sum.
LEMMA SumMonotone ==
    ASSUME NEW S, IsFiniteSet(S), NEW f, NEW g,
           \A y \in S : f[y] \in Int /\ g[y] \in Int /\ f[y] <= g[y]
    PROVE  SumFunctionOnSet(f, S) <= SumFunctionOnSet(g, S)
  <1> DEFINE Bad == {s \in SUBSET S : ~ (SumFunctionOnSet(f, s) <= SumFunctionOnSet(g, s))}
  <1> SUFFICES ASSUME Bad # {} PROVE FALSE
    OBVIOUS
  <1>1. Bad \subseteq SUBSET S
    OBVIOUS
  <1> HIDE DEF Bad
  <1>2. PICK u \in Bad : \A v \in Bad : v \subseteq u => v = u
    BY <1>1, SmallestSet
  <1>3. u \in SUBSET S /\ ~ (SumFunctionOnSet(f, u) <= SumFunctionOnSet(g, u))
    BY DEF Bad
  <1>4. IsFiniteSet(u)
    BY <1>3, FS_Subset
  <1>5. u # {}
    BY <1>3, SumEmpty
  <1>6. PICK y \in u : TRUE
    BY <1>5
  <1>7. /\ SumFunctionOnSet(f, u) = f[y] + SumFunctionOnSet(f, u \ {y})
        /\ SumFunctionOnSet(g, u) = g[y] + SumFunctionOnSet(g, u \ {y})
    BY <1>3, <1>4, <1>6, SumRemove
  <1>8. SumFunctionOnSet(f, u \ {y}) <= SumFunctionOnSet(g, u \ {y})
    BY <1>2, <1>3, <1>6 DEF Bad
  <1>9. /\ SumFunctionOnSet(f, u \ {y}) \in Int
        /\ SumFunctionOnSet(g, u \ {y}) \in Int
    BY <1>3, <1>4, FS_Subset, SumType
  <1>10. f[y] \in Int /\ g[y] \in Int /\ f[y] <= g[y]
    BY <1>3, <1>6
  <1> QED
    BY <1>3, <1>7, <1>8, <1>9, <1>10

-----------------------------------------------------------------------------
(* Orders.                                                                 *)

USE DEF Side, Opposite

-----------------------------------------------------------------------------
(* Arithmetic.                                                             *)

LEMMA PricePositive == \A p \in Price : p \in Nat \ {0}
  BY PriceAssumption

\* Truncating division: the quotient is the last unit the funds pay for.
LEMMA DivFacts ==
    ASSUME NEW f \in Nat, NEW p \in Nat \ {0}
    PROVE  /\ f \div p \in Nat
           /\ (f \div p) * p <= f
           /\ f < (f \div p + 1) * p
  <1>1. f = p * (f \div p) + (f % p) /\ f % p \in 0..(p - 1)
    BY SMT
  <1>2. f \div p \in Int
    BY SMT
  <1>3. f \div p >= 0
    BY SMT
  <1> DEFINE q == f \div p
  <1>4. p * q = q * p /\ (q + 1) * p = q * p + p
    BY <1>2, SMT
  <1> QED
    BY <1>1, <1>2, <1>3, <1>4, SMT

LEMMA ProductMonotone ==
    ASSUME NEW a \in Nat, NEW b \in Nat, NEW p \in Nat, a <= b
    PROVE  a * p <= b * p
  <1>1. b * p = a * p + (b - a) * p
    BY SMT
  <1>2. (b - a) * p >= 0
    BY SMT
  <1>3. a * p \in Int /\ (b - a) * p \in Int /\ b * p \in Int
    BY SMT
  <1> QED
    BY <1>1, <1>2, <1>3, SMT

\* What process computes from an amount a on sale and funds f at price p,
\* whichever of the two is the taker: it never takes more than there is, it
\* uses up one side, and it takes more than the amount costs only when it uses
\* up the bid, by less than one unit and by no more than the ask is worth.
SoundMatch(x, a, f, p) ==
    /\ x.amount \in Nat /\ x.funds \in Nat
    /\ x.amount <= a /\ x.funds <= f /\ x.funds <= a * p
    /\ x.amount = a \/ x.funds = f
    /\ x.amount * p <= x.funds
    /\ x.funds < (x.amount + 1) * p
    /\ x.funds # x.amount * p => x.funds = f

AskPair(a, p) == [amount |-> a, funds |-> a * p]
BidPair(f, p) == [amount |-> f \div p, funds |-> f]

LEMMA AskPairSound ==
    ASSUME NEW a \in Nat, NEW f \in Nat, NEW p \in Nat \ {0}, a * p <= f
    PROVE  SoundMatch(AskPair(a, p), a, f, p)
  <1>1. a * p \in Nat /\ (a + 1) * p = a * p + p
    BY SMT
  <1> QED
    BY <1>1, SMT DEF SoundMatch, AskPair

LEMMA BidPairSound ==
    ASSUME NEW a \in Nat, NEW f \in Nat, NEW p \in Nat \ {0}, f <= a * p
    PROVE  SoundMatch(BidPair(f, p), a, f, p)
  <1> DEFINE q == f \div p
  <1>1. q \in Nat /\ q * p <= f /\ f < (q + 1) * p
    BY DivFacts
  <1>2. q <= a
    <2>1. SUFFICES ASSUME a + 1 <= q PROVE FALSE
      BY <1>1, SMT
    <2>2. (a + 1) * p <= q * p
      BY <1>1, <2>1, ProductMonotone
    <2>3. (a + 1) * p = a * p + p /\ a * p \in Nat /\ q * p \in Nat
      BY <1>1, SMT
    <2> QED
      BY <1>1, <2>2, <2>3, SMT
  <1> HIDE DEF q
  <1>3. SoundMatch([amount |-> q, funds |-> f], a, f, p)
    BY <1>1, <1>2, SMT DEF SoundMatch
  <1> QED
    BY <1>3 DEF BidPair, q

LEMMA MatchedSound ==
    ASSUME NEW t \in OrderRecord, NEW m \in OrderRecord,
           m.price \in Nat \ {0}, m.side = Opposite(t.side)
    PROVE  SoundMatch(Matched(t, m),
                      IF t.side = "ASK" THEN t.remainingAmount ELSE m.remainingAmount,
                      IF t.side = "ASK" THEN m.remainingFunds ELSE t.remainingFunds,
                      m.price)
  <1> DEFINE p == m.price
             a == IF t.side = "ASK" THEN t.remainingAmount ELSE m.remainingAmount
             f == IF t.side = "ASK" THEN m.remainingFunds ELSE t.remainingFunds
  <1>1. a \in Nat /\ f \in Nat /\ p \in Nat \ {0} /\ t.side \in {"ASK", "BID"}
    BY DEF OrderRecord
  <1>2. f \div p \in Nat /\ (f \div p) * p <= f /\ a * p \in Nat
    <2>1. f \div p \in Nat /\ (f \div p) * p <= f
      BY <1>1, DivFacts
    <2>2. a * p \in Nat
      BY <1>1, SMT
    <2> QED
      BY <2>1, <2>2
  <1>3. a < f \div p => a * p <= f
    BY <1>1, <1>2, ProductMonotone, SMT
  <1>4. f \div p < a => f <= a * p
    <2>1. SUFFICES ASSUME f \div p + 1 <= a PROVE f <= a * p
      BY <1>1, <1>2, SMT
    <2>2. (f \div p + 1) * p <= a * p
      BY <1>1, <1>2, <2>1, ProductMonotone
    <2>3. f < (f \div p + 1) * p
      BY <1>1, DivFacts
    <2>4. (f \div p + 1) * p \in Nat
      BY <1>1, <1>2, SMT
    <2> QED
      BY <1>1, <1>2, <2>2, <2>3, <2>4, SMT
  <1>5. CASE t.side = "ASK"
    <2>1. Available(t, p) = AskPair(a, p) /\ Available(m, p) = BidPair(f, p)
      BY <1>5 DEF Available, AskPair, BidPair
    <2>2. Matched(t, m) = IF a < f \div p \/ a * p < f THEN AskPair(a, p) ELSE BidPair(f, p)
      BY <2>1 DEF Matched, AskPair, BidPair
    <2>3. CASE a < f \div p \/ a * p < f
      BY <1>1, <1>2, <1>3, <2>2, <2>3, AskPairSound
    <2>4. CASE ~ (a < f \div p \/ a * p < f)
      BY <1>1, <1>2, <2>2, <2>4, BidPairSound
    <2> QED
      BY <2>3, <2>4
  <1>6. CASE t.side = "BID"
    <2>1. Available(t, p) = BidPair(f, p) /\ Available(m, p) = AskPair(a, p)
      BY <1>6 DEF Available, AskPair, BidPair
    <2>2. Matched(t, m) = IF f \div p < a \/ f < a * p THEN BidPair(f, p) ELSE AskPair(a, p)
      BY <2>1 DEF Matched, AskPair, BidPair
    <2>3. CASE f \div p < a \/ f < a * p
      BY <1>1, <1>2, <1>4, <2>2, <2>3, BidPairSound
    <2>4. CASE ~ (f \div p < a \/ f < a * p)
      BY <1>1, <1>2, <2>2, <2>4, AskPairSound
    <2> QED
      BY <2>3, <2>4
  <1> QED
    BY <1>1, <1>5, <1>6

\* What Fill does to an order that has enough left.
LEMMA FillFacts ==
    ASSUME NEW r \in OrderRecord, NEW x, x.amount \in Nat, x.funds \in Nat,
           r.side = "ASK" => x.amount <= r.remainingAmount,
           r.side = "BID" => x.funds <= r.remainingFunds
    PROVE  /\ Fill(r, x) \in OrderRecord
           /\ Fill(r, x).side = r.side
           /\ Fill(r, x).type = r.type
           /\ Fill(r, x).price = r.price
           /\ Fill(r, x).filledAmount = r.filledAmount + x.amount
           /\ Fill(r, x).filledFunds = r.filledFunds + x.funds
           /\ Fill(r, x).remainingAmount =
                IF r.side = "ASK" THEN r.remainingAmount - x.amount ELSE r.remainingAmount
           /\ Fill(r, x).remainingFunds =
                IF r.side = "BID" THEN r.remainingFunds - x.funds ELSE r.remainingFunds
           /\ WellFormed(r) => WellFormed(Fill(r, x))
           /\ Remaining(Fill(r, x)) \in Nat
           /\ Remaining(Fill(r, x)) <= Remaining(r)
           /\ Filled(r) => Filled(Fill(r, x))
  <1> DEFINE q == Fill(r, x)
  <1>1. /\ q.side = r.side /\ q.type = r.type /\ q.price = r.price
        /\ q.filledAmount = r.filledAmount + x.amount
        /\ q.filledFunds = r.filledFunds + x.funds
        /\ q.remainingAmount =
             IF r.side = "ASK" THEN r.remainingAmount - x.amount ELSE r.remainingAmount
        /\ q.remainingFunds =
             IF r.side = "BID" THEN r.remainingFunds - x.funds ELSE r.remainingFunds
    BY DEF Fill, OrderRecord
  <1>2. q \in OrderRecord
    <2> DEFINE q1 == [r EXCEPT !.filledAmount = r.filledAmount + x.amount]
               q2 == [q1 EXCEPT !.filledFunds = q1.filledFunds + x.funds]
               ra == IF q2.side = "ASK" THEN q2.remainingAmount - x.amount
                                        ELSE q2.remainingAmount
               q3 == [q2 EXCEPT !.remainingAmount = ra]
               rf == IF q3.side = "BID" THEN q3.remainingFunds - x.funds
                                        ELSE q3.remainingFunds
               q4 == [q3 EXCEPT !.remainingFunds = rf]
    <2>1. /\ q1 \in OrderRecord /\ q1.side = r.side
          /\ q1.remainingAmount = r.remainingAmount /\ q1.remainingFunds = r.remainingFunds
          /\ q1.filledFunds = r.filledFunds
      BY DEF OrderRecord
    <2> HIDE DEF q1
    <2>2. /\ q2 \in OrderRecord /\ q2.side = r.side
          /\ q2.remainingAmount = r.remainingAmount /\ q2.remainingFunds = r.remainingFunds
      BY <2>1 DEF OrderRecord
    <2> HIDE DEF q2
    <2>3. ra \in Nat
      BY <2>2 DEF OrderRecord
    <2>4. q3 \in OrderRecord /\ q3.side = r.side /\ q3.remainingFunds = r.remainingFunds
      BY <2>2, <2>3 DEF OrderRecord
    <2> HIDE DEF q3
    <2>5. rf \in Nat
      BY <2>4 DEF OrderRecord
    <2>6. q4 \in OrderRecord
      BY <2>4, <2>5 DEF OrderRecord
    <2>7. q = q4
      BY DEF Fill, q1, q2, q3
    <2> QED
      BY <2>6, <2>7
  <1> HIDE DEF q
  <1>3. WellFormed(r) => WellFormed(q)
    BY <1>1 DEF WellFormed, OrderRecord
  <1>4. Remaining(q) \in Nat /\ Remaining(q) <= Remaining(r)
    BY <1>1, <1>2 DEF Remaining, OrderRecord
  <1>5. Filled(r) => Filled(q)
    BY <1>4 DEF Filled
  <1> QED
    BY <1>1, <1>2, <1>3, <1>4, <1>5 DEF q

\* What processSnapshot lets through is an order of the right shape.
LEMMA PlacementFacts ==
    ASSUME NEW r \in Placement
    PROVE  r \in OrderRecord /\ WellFormed(r) /\ r.filledAmount = 0 /\ r.filledFunds = 0
  BY PriceAssumption, SizeAssumption DEF Placement, OrderRecord, WellFormed
=============================================================================
