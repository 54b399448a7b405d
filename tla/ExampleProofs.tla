---------------------------- MODULE ExampleProofs ----------------------------
(***************************************************************************)
(* Theorems about the rate limiter, the list of trades and the candles of  *)
(* Example, for every value of their constants.                            *)
(***************************************************************************)
EXTENDS ExampleInvariant, FiniteSetTheorems, SequenceTheorems, WellFoundedInduction, TLAPS

-----------------------------------------------------------------------------
(* RateLimit.                                                              *)

LEMMA LimiterLibrary == \A S : Limiter!Cardinality(S) = Cardinality(S)
  BY DEF Limiter!Cardinality, Cardinality

LEMMA LimiterConstants ==
    /\ General \in Seq([window : Nat \ {0}, max : Nat \ {0}])
    /\ Rare \in Seq([window : Nat \ {0}, max : Nat \ {0}])
    /\ General # <<>>
    /\ {MaxRequests, MaxInFlight, MaxServerTime, MaxRedisFailures} \subseteq Nat
    /\ MaxServerTime >= 1
  BY LimiterAssumption DEF Limiter!RateLimitAssumption

LEMMA LimitsFacts ==
    /\ Limiter!Limits \in Seq([window : Nat \ {0}, max : Nat \ {0}])
    /\ \A route \in {"other", "rare"} : Limiter!Checks(route) \in DOMAIN Limiter!Limits
    /\ \A l \in DOMAIN Limiter!Limits :
         /\ l \in Nat \ {0}
         /\ Limiter!Limits[l].window \in Nat \ {0} /\ Limiter!Limits[l].max \in Nat \ {0}
  <1>0. PICK R : R = [window : Nat \ {0}, max : Nat \ {0}]
    OBVIOUS
  <1>1. General \in Seq(R) /\ Rare \in Seq(R) /\ General # <<>>
    BY <1>0, LimiterConstants
  <1>2. Limiter!Limits \in Seq(R) /\ Len(Limiter!Limits) = Len(General) + Len(Rare)
    BY <1>1 DEF Limiter!Limits
  <1>3. Len(General) \in Nat \ {0} /\ Len(Rare) \in Nat
    BY <1>1
  <1>4. ASSUME NEW l \in DOMAIN Limiter!Limits
        PROVE  /\ l \in Nat \ {0}
               /\ Limiter!Limits[l].window \in Nat \ {0} /\ Limiter!Limits[l].max \in Nat \ {0}
    <2>1. PICK s : s = Limiter!Limits
      OBVIOUS
    <2>2. s \in Seq(R) /\ l \in DOMAIN s
      BY <1>2, <1>4, <2>1
    <2>4. DOMAIN s = 1..Len(s) /\ Len(s) \in Nat
      BY <2>2
    <2>5. l \in 1..Len(s)
      BY <2>2, <2>4
    <2>3. s[l] \in R /\ l \in Nat \ {0}
      BY <2>2, <2>4, <2>5, ElementOfSeq
    <2>6. Limiter!Limits[l] \in [window : Nat \ {0}, max : Nat \ {0}]
      BY <1>0, <2>1, <2>3
    <2> QED
      BY <2>3, <2>6
  <1>5. ASSUME NEW route PROVE Limiter!Checks(route) \in DOMAIN Limiter!Limits
    <2>1. Limiter!Checks(route) \in 1..Len(Limiter!Limits)
      BY <1>2, <1>3 DEF Limiter!Checks
    <2> QED
      BY <1>2, <2>1
  <1> QED
    BY <1>0, <1>2, <1>4, <1>5

\* The fields of a request.
LEMMA RequestFields ==
    ASSUME RequestsOK, NEW r \in DOMAIN arrivals
    PROVE  /\ r \in Nat \ {0} /\ arrivals[r] \in RequestRecord
           /\ arrivals[r].route \in {"other", "rare"}
           /\ arrivals[r].step \in {"clock", "zrem", "zadd", "zcount"}
           /\ arrivals[r].verdict \in {"checking", "served", "refused"}
           /\ arrivals[r].asked \in Seq(Nat)
           /\ arrivals[r].decided \in Seq(Answer)
           /\ DOMAIN arrivals[r].asked = 1..Len(arrivals[r].asked)
           /\ DOMAIN arrivals[r].decided = 1..Len(arrivals[r].decided)
           /\ Len(arrivals[r].asked) \in Nat /\ Len(arrivals[r].decided) \in Nat
           /\ Len(arrivals[r].decided) <= Limiter!Checks(arrivals[r].route)
           /\ Limiter!Checks(arrivals[r].route) \in DOMAIN Limiter!Limits
           /\ Len(arrivals[r].decided) \in 0..Len(Limiter!Limits)
           /\ arrivals[r].step = "clock" => Len(arrivals[r].asked) = Len(arrivals[r].decided)
           /\ arrivals[r].step # "clock" => Len(arrivals[r].asked) = Len(arrivals[r].decided) + 1
           /\ DOMAIN arrivals[r].decided \subseteq DOMAIN arrivals[r].asked
  <1>1. PICK R : R = RequestRecord
    OBVIOUS
  <1>2. arrivals \in Seq(R)
    BY <1>1 DEF RequestsOK
  <1>3. arrivals[r] \in R /\ r \in Nat \ {0}
    BY <1>2
  <1>4. arrivals[r] \in RequestRecord
    BY <1>1, <1>3
  <1>5. /\ arrivals[r].route \in {"other", "rare"}
        /\ arrivals[r].step \in {"clock", "zrem", "zadd", "zcount"}
        /\ arrivals[r].verdict \in {"checking", "served", "refused"}
        /\ arrivals[r].asked \in Seq(Nat)
        /\ arrivals[r].decided \in Seq(Answer)
    BY <1>4 DEF RequestRecord
  <1>8. /\ DOMAIN arrivals[r].asked = 1..Len(arrivals[r].asked)
        /\ DOMAIN arrivals[r].decided = 1..Len(arrivals[r].decided)
        /\ Len(arrivals[r].asked) \in Nat /\ Len(arrivals[r].decided) \in Nat
    BY <1>5
  <1>9. Limiter!Checks(arrivals[r].route) \in DOMAIN Limiter!Limits
    BY <1>5, LimitsFacts
  <1>10. DOMAIN Limiter!Limits = 1..Len(Limiter!Limits) /\ Len(Limiter!Limits) \in Nat
    <2> PICK R2 : R2 = [window : Nat \ {0}, max : Nat \ {0}]
      OBVIOUS
    <2>1. Limiter!Limits \in Seq(R2)
      BY LimitsFacts
    <2> QED
      BY <2>1
  <1>11. /\ Len(arrivals[r].decided) <= Limiter!Checks(arrivals[r].route)
         /\ Len(arrivals[r].asked) = IF arrivals[r].step = "clock" THEN Len(arrivals[r].decided) ELSE Len(arrivals[r].decided) + 1
    BY DEF RequestsOK
  <1>12. Len(arrivals[r].decided) \in 0..Len(Limiter!Limits)
    BY <1>8, <1>9, <1>10, <1>11
  <1>13. /\ arrivals[r].step = "clock" => Len(arrivals[r].asked) = Len(arrivals[r].decided)
         /\ arrivals[r].step # "clock" => Len(arrivals[r].asked) = Len(arrivals[r].decided) + 1
    BY ONLY <1>8, <1>11
  <1>14. DOMAIN arrivals[r].decided \subseteq DOMAIN arrivals[r].asked
    BY ONLY <1>8, <1>13
  <1> QED
    BY <1>3, <1>4, <1>5, <1>8, <1>9, <1>11, <1>12, <1>13, <1>14

\* What a step of Available does to its request: it may ask and be answered, at the
\* time it is, and leaves the others as they are.
Moves(r) ==
    /\ DOMAIN arrivals' = DOMAIN arrivals
    /\ \A s \in DOMAIN arrivals : s # r => arrivals'[s] = arrivals[s]
    /\ arrivals'[r].route = arrivals[r].route
    /\ \A l \in DOMAIN arrivals[r].asked :
         l \in DOMAIN arrivals'[r].asked /\ arrivals'[r].asked[l] = arrivals[r].asked[l]
    /\ \A l \in DOMAIN arrivals[r].decided :
         l \in DOMAIN arrivals'[r].decided /\ arrivals'[r].decided[l] = arrivals[r].decided[l]
    /\ \A l \in DOMAIN arrivals'[r].decided :
         l \notin DOMAIN arrivals[r].decided =>
           l = Limiter!Current(r) /\ arrivals'[r].decided[l].at = serverTime

\* What a request may count grows.
LEMMA OthersGrow ==
    ASSUME LimiterInv, NEW q \in DOMAIN arrivals, Moves(q),
           NEW r \in DOMAIN arrivals, NEW l \in DOMAIN arrivals[r].asked
    PROVE  Limiter!Others(l, r) \subseteq Limiter!Others(l, r)'
  <1>1. arrivals'[r].asked[l] = arrivals[r].asked[l]
    BY DEF Moves
  <1>2. ASSUME NEW s \in Limiter!Others(l, r) PROVE s \in Limiter!Others(l, r)'
    <2>1. s \in DOMAIN arrivals \ {r} /\ l \in DOMAIN arrivals[s].asked
      BY <1>2 DEF Limiter!Others
    <2>2. s \in DOMAIN arrivals' \ {r} /\ l \in DOMAIN arrivals'[s].asked
          /\ arrivals'[s].asked[l] = arrivals[s].asked[l]
      BY <2>1 DEF Moves
    <2>3. CASE arrivals[s].asked[l] > arrivals[r].asked[l] - Limiter!Limits[l].window
      BY <1>1, <2>2, <2>3 DEF Limiter!Others, Limiter!Limits
    <2>4. CASE l \in DOMAIN arrivals[s].decided
               /\ arrivals[s].decided[l].at >= arrivals[r].asked[l]
      <3>1. l \in DOMAIN arrivals'[s].decided /\ arrivals'[s].decided[l] = arrivals[s].decided[l]
        BY <2>1, <2>4 DEF Moves
      <3> QED
        BY <1>1, <2>2, <2>4, <3>1 DEF Limiter!Others
    <2>5. CASE l \notin DOMAIN arrivals[s].decided
      <3>1. CASE l \notin DOMAIN arrivals'[s].decided
        BY <2>2, <3>1 DEF Limiter!Others
      <3>2. CASE l \in DOMAIN arrivals'[s].decided
        <4>1. s = q /\ arrivals'[s].decided[l].at = serverTime
          BY <2>1, <2>5, <3>2 DEF Moves
        <4>2. arrivals[r].asked[l] <= serverTime
          BY DEF LimiterInv, RequestsOK
        <4>3. arrivals'[s].decided[l].at >= arrivals'[r].asked[l]
          <5>1. arrivals[r].asked \in Seq(Nat) /\ DOMAIN arrivals[r].asked = 1..Len(arrivals[r].asked)
            BY RequestFields DEF LimiterInv
          <5>3. serverTime \in Nat
            BY LimiterConstants DEF LimiterInv
          <5>2. arrivals[r].asked[l] \in Nat
            BY <5>1, ElementOfSeq
          <5> QED
            BY <1>1, <4>1, <4>2, <5>3, <5>2
        <4> QED
          BY <2>2, <4>3 DEF Limiter!Others
      <3> QED
        BY <3>1, <3>2
    <2> QED
      BY <1>2, <2>3, <2>4, <2>5 DEF Limiter!Others
  <1> QED
    BY <1>2

\* The records the steps of Available make.
LEMMA RecordAsks ==
    ASSUME NEW q \in RequestRecord, NEW step, NEW asked
    PROVE  [q EXCEPT !.step = step, !.asked = asked]
             = [route |-> q.route, step |-> step, verdict |-> q.verdict, asked |-> asked,
                decided |-> q.decided]
  <1>1. PICK n : n = [q EXCEPT !.step = step, !.asked = asked]
    OBVIOUS
  <1>2. n \in [route : {q.route}, step : {step}, verdict : {q.verdict}, asked : {asked},
               decided : {q.decided}]
    BY <1>1 DEF RequestRecord
  <1>3. n = [route |-> q.route, step |-> step, verdict |-> q.verdict, asked |-> asked, decided |-> q.decided]
    BY <1>2
  <1> QED
    BY <1>1, <1>3

LEMMA RecordMoves ==
    ASSUME NEW q \in RequestRecord, NEW step
    PROVE  [q EXCEPT !.step = step]
             = [route |-> q.route, step |-> step, verdict |-> q.verdict, asked |-> q.asked,
                decided |-> q.decided]
  <1>1. PICK n : n = [q EXCEPT !.step = step]
    OBVIOUS
  <1>2. n \in [route : {q.route}, step : {step}, verdict : {q.verdict}, asked : {q.asked},
               decided : {q.decided}]
    BY <1>1 DEF RequestRecord
  <1>3. n = [route |-> q.route, step |-> step, verdict |-> q.verdict, asked |-> q.asked, decided |-> q.decided]
    BY <1>2
  <1> QED
    BY <1>1, <1>3

LEMMA RecordDecides ==
    ASSUME NEW q \in RequestRecord, NEW step, NEW verdict, NEW decided
    PROVE  [q EXCEPT !.step = step, !.decided = decided, !.verdict = verdict]
             = [route |-> q.route, step |-> step, verdict |-> verdict, asked |-> q.asked,
                decided |-> decided]
  <1>1. PICK n : n = [q EXCEPT !.step = step, !.decided = decided, !.verdict = verdict]
    OBVIOUS
  <1>2. n \in [route : {q.route}, step : {step}, verdict : {verdict}, asked : {q.asked},
               decided : {decided}]
    BY <1>1 DEF RequestRecord
  <1>3. n = [route |-> q.route, step |-> step, verdict |-> verdict, asked |-> q.asked, decided |-> decided]
    BY <1>2
  <1> QED
    BY <1>1, <1>3

\* Request r becomes one with these fields, which may be those of a request.
Becomes(r, step, verdict, asked, decided) ==
    arrivals' = [arrivals EXCEPT ![r] =
                   [route |-> arrivals[r].route, step |-> step, verdict |-> verdict,
                    asked |-> asked, decided |-> decided]]

Proper(r, step, verdict, asked, decided) ==
    /\ step \in {"clock", "zrem", "zadd", "zcount"}
    /\ verdict \in {"checking", "served", "refused"}
    /\ asked \in Seq(Nat) /\ decided \in Seq(Answer)
    /\ verdict = "checking" => Len(decided) < Limiter!Checks(arrivals[r].route)
    /\ verdict # "checking" => step = "clock" /\ decided # <<>>
    /\ Len(decided) <= Limiter!Checks(arrivals[r].route)
    /\ Len(asked) = IF step = "clock" THEN Len(decided) ELSE Len(decided) + 1
    /\ \A l \in DOMAIN asked : asked[l] <= serverTime

Became(r, step, verdict, asked, decided) ==
    /\ DOMAIN arrivals' = DOMAIN arrivals
    /\ \A s \in DOMAIN arrivals : s # r => arrivals'[s] = arrivals[s]
    /\ arrivals'[r].route = arrivals[r].route /\ arrivals'[r].step = step
    /\ arrivals'[r].verdict = verdict
    /\ arrivals'[r].asked = asked /\ arrivals'[r].decided = decided

LEMMA BecomesOK ==
    ASSUME RequestsOK, NEW r \in DOMAIN arrivals, NEW step, NEW verdict, NEW asked, NEW decided,
           Becomes(r, step, verdict, asked, decided), Proper(r, step, verdict, asked, decided),
           serverTime' = serverTime
    PROVE  RequestsOK' /\ Became(r, step, verdict, asked, decided)
  <1>1. PICK new : new = [route |-> arrivals[r].route, step |-> step, verdict |-> verdict,
                          asked |-> asked, decided |-> decided]
    OBVIOUS
  <1>2. PICK R : R = RequestRecord
    OBVIOUS
  <1>3. arrivals \in Seq(R) /\ arrivals' = [arrivals EXCEPT ![r] = new]
    BY <1>1, <1>2 DEF RequestsOK, Becomes
  <1>6. new \in [route : {"other", "rare"}, step : {"clock", "zrem", "zadd", "zcount"},
                 verdict : {"checking", "served", "refused"}, asked : Seq(Nat),
                 decided : Seq(Answer)]
    <2>1. /\ step \in {"clock", "zrem", "zadd", "zcount"}
          /\ verdict \in {"checking", "served", "refused"}
          /\ asked \in Seq(Nat) /\ decided \in Seq(Answer)
      BY DEF Proper
    <2>2. arrivals[r].route \in {"other", "rare"}
      BY RequestFields
    <2> QED
      BY ONLY <1>1, <2>1, <2>2
  <1>7. new \in R
    BY <1>2, <1>6 DEF RequestRecord
  <1>8. arrivals' \in Seq(R) /\ DOMAIN arrivals' = DOMAIN arrivals /\ arrivals'[r] = new
        /\ \A s \in DOMAIN arrivals : s # r => arrivals'[s] = arrivals[s]
    BY <1>3, <1>7
  <1>9. arrivals' \in Seq(RequestRecord)
    BY <1>2, <1>8
  <1>10. /\ arrivals'[r].route = arrivals[r].route /\ arrivals'[r].step = step
         /\ arrivals'[r].verdict = verdict
         /\ arrivals'[r].asked = asked /\ arrivals'[r].decided = decided
    BY <1>1, <1>8
  <1>11. ASSUME NEW s \in DOMAIN arrivals'
         PROVE  LET q == arrivals'[s]
                IN  /\ q.verdict = "checking" => Len(q.decided) < Limiter!Checks(q.route)
                    /\ q.verdict # "checking" => q.step = "clock" /\ q.decided # <<>>
                    /\ Len(q.decided) <= Limiter!Checks(q.route)
                    /\ Len(q.asked) = IF q.step = "clock" THEN Len(q.decided) ELSE Len(q.decided) + 1
                    /\ \A l \in DOMAIN q.asked : q.asked[l] <= serverTime'
    <2>1. CASE s = r
      BY <1>10, <2>1 DEF Proper
    <2>2. CASE s # r
      BY <1>8, <2>2 DEF RequestsOK
    <2> QED
      BY <2>1, <2>2
  <1>12. RequestsOK'
    <2>1. ASSUME NEW route PROVE Limiter!Checks(route)' = Limiter!Checks(route)
      BY DEF Limiter!Checks, Limiter!Limits
    <2> QED
      BY <1>9, <1>11, <2>1 DEF RequestsOK
  <1> QED
    BY <1>8, <1>10, <1>12 DEF Became

LEMMA RequestsFinite ==
    ASSUME RequestsOK PROVE IsFiniteSet(DOMAIN arrivals)
  <1>1. PICK R : R = RequestRecord
    OBVIOUS
  <1>2. arrivals \in Seq(R)
    BY <1>1 DEF RequestsOK
  <1>3. DOMAIN arrivals = 1..Len(arrivals) /\ Len(arrivals) \in Nat
    BY <1>2
  <1> QED
    BY <1>3, FS_Interval

\* No more requests are in flight after a step of Available.
LEMMA InFlightShrinks ==
    ASSUME LimiterInv, NEW r \in Limiter!InFlight, Moves(r)
    PROVE  (Limiter!Cardinality(Limiter!InFlight) <= MaxInFlight)'
  <1>1. Limiter!InFlight' \subseteq Limiter!InFlight
    BY DEF Moves, Limiter!InFlight
  <1>2. IsFiniteSet(Limiter!InFlight)
    BY RequestsFinite, FS_Subset DEF LimiterInv, Limiter!InFlight
  <1>3. Cardinality(Limiter!InFlight') <= Cardinality(Limiter!InFlight)
        /\ Cardinality(Limiter!InFlight') \in Nat /\ Cardinality(Limiter!InFlight) \in Nat
    BY <1>1, <1>2, FS_Subset, FS_CardinalityType
  <1>4. Cardinality(Limiter!InFlight) <= MaxInFlight
    BY LimiterLibrary DEF LimiterInv
  <1>5. Limiter!Cardinality(Limiter!InFlight') = Cardinality(Limiter!InFlight')
    BY LimiterLibrary
  <1>6. MaxInFlight \in Nat
    BY LimiterConstants
  <1> QED
    BY <1>3, <1>4, <1>5, <1>6 DEF Limiter!Cardinality

\* Requests that were refused stay so for the same reason.
LEMMA RefusalStays ==
    ASSUME LimiterInv, NEW r \in Limiter!InFlight, Moves(r), RequestsOK',
           NEW s \in DOMAIN arrivals, s # r, arrivals[s].verdict = "refused"
    PROVE  (Limiter!Cardinality(Limiter!Others(Limiter!Refuser(s), s))
              >= Limiter!Limits[Limiter!Refuser(s)].max - 1)'
  <1>1. arrivals'[s] = arrivals[s] /\ r \in DOMAIN arrivals
    BY DEF Moves, Limiter!InFlight
  <1>2. PICK l : l = Limiter!Refuser(s)
    OBVIOUS
  <1>3. l \in DOMAIN arrivals[s].asked /\ l \in DOMAIN Limiter!Limits
    <2>1. arrivals[s].decided # <<>> /\ arrivals[s].step = "clock"
      BY DEF LimiterInv, RequestsOK
    <2>6. RequestsOK
      BY DEF LimiterInv
    <2>2. Len(arrivals[s].asked) = Len(arrivals[s].decided)
      BY <2>1, <2>6, RequestFields
    <2>3. Len(arrivals[s].decided) # 0
      <3>2. arrivals[s].decided \in Seq(Answer)
        BY RequestFields DEF LimiterInv
      <3> QED
        BY <2>1, <3>2, EmptySeq
    <2>4. DOMAIN arrivals[s].asked = 1..Len(arrivals[s].asked)
          /\ Len(arrivals[s].decided) \in 0..Len(Limiter!Limits)
      BY RequestFields DEF LimiterInv
    <2>5. DOMAIN Limiter!Limits = 1..Len(Limiter!Limits)
      <3>1. PICK D : D = [window : Nat \ {0}, max : Nat \ {0}]
        OBVIOUS
      <3>2. Limiter!Limits \in Seq(D)
        BY <3>1, LimitsFacts
      <3> QED
        BY <3>2
    <2> QED
      BY <1>2, <2>2, <2>3, <2>4, <2>5 DEF Limiter!Refuser
  <1>4. Limiter!Refuser(s)' = l
    BY <1>1, <1>2 DEF Limiter!Refuser
  <1>5. Limiter!Others(l, s) \subseteq Limiter!Others(l, s)'
    BY <1>1, <1>3, OthersGrow
  <1>6. Limiter!Others(l, s)' \subseteq DOMAIN arrivals'
    BY DEF Limiter!Others
  <1>7. IsFiniteSet(Limiter!Others(l, s)')
    BY <1>6, RequestsFinite, FS_Subset DEF Moves, LimiterInv
  <1>8. /\ Cardinality(Limiter!Others(l, s)) <= Cardinality(Limiter!Others(l, s)')
        /\ Cardinality(Limiter!Others(l, s)) \in Nat
        /\ Cardinality(Limiter!Others(l, s)') \in Nat
    BY <1>5, <1>7, FS_Subset, FS_CardinalityType
  <1>9. Limiter!Cardinality(Limiter!Others(l, s)) >= Limiter!Limits[l].max - 1
    BY <1>2 DEF LimiterInv, Limiter!RefusalIsEarned
  <1>10. Limiter!Limits[l].max \in Nat
    BY <1>3, LimitsFacts
  <1>11. Cardinality(Limiter!Others(l, s)') >= Limiter!Limits[l].max - 1
    BY <1>8, <1>9, <1>10, LimiterLibrary
  <1>12. PICK S : S = Limiter!Others(l, s)'
    OBVIOUS
  <1>13. (Limiter!Cardinality(Limiter!Others(Limiter!Refuser(s), s)))' = Cardinality(S)
    BY <1>4, <1>12, LimiterLibrary DEF Limiter!Others
  <1> QED
    BY <1>4, <1>11, <1>12, <1>13 DEF Limiter!Limits

\* A limit that lets no other request pass stays within its bound.
LEMMA LimitStays ==
    ASSUME LimiterInv, NEW l \in DOMAIN Limiter!Limits, serverTime' = serverTime,
           Limiter!Passed(l)' \subseteq Limiter!Passed(l),
           \A s \in Limiter!Passed(l) : arrivals'[s].asked[l] = arrivals[s].asked[l]
    PROVE  (Limiter!Cardinality({r \in Limiter!Passed(l) :
              arrivals[r].asked[l] > serverTime - Limiter!Limits[l].window})
                < Limiter!Limits[l].max)'
  <1> DEFINE P == {r \in Limiter!Passed(l) :
                     arrivals[r].asked[l] > serverTime - Limiter!Limits[l].window}
  <1>1. P' \subseteq P
    BY DEF Limiter!Limits
  <1>2. P \subseteq DOMAIN arrivals
    BY DEF Limiter!Passed
  <1>3. Cardinality(P) < Limiter!Limits[l].max
    BY LimiterLibrary DEF LimiterInv, Limiter!NeverOverLimit
  <1>4. PICK S, T : S = P /\ T = P'
    OBVIOUS
  <1> HIDE DEF P
  <1>5. IsFiniteSet(S)
    BY <1>2, <1>4, RequestsFinite, FS_Subset DEF LimiterInv
  <1>6. Cardinality(T) <= Cardinality(S) /\ Cardinality(T) \in Nat /\ Cardinality(S) \in Nat
    BY <1>1, <1>4, <1>5, FS_Subset, FS_CardinalityType
  <1>7. Limiter!Limits[l].max \in Nat
    BY LimitsFacts
  <1>8. Cardinality(T) < Limiter!Limits[l].max
    BY <1>3, <1>4, <1>6, <1>7
  <1>9. (Limiter!Cardinality(P))' = Cardinality(T)
    BY <1>4, LimiterLibrary
  <1> QED
    BY <1>8, <1>9 DEF P, Limiter!Limits

\* Where the request of a step of Available is.
LEMMA InFlightFields ==
    ASSUME LimiterInv, NEW r \in Limiter!InFlight
    PROVE  /\ r \in DOMAIN arrivals /\ RequestsOK /\ arrivals[r].verdict = "checking"
           /\ Limiter!Current(r) = Len(arrivals[r].decided) + 1
           /\ Limiter!Current(r) \in DOMAIN Limiter!Limits
           /\ Limiter!Current(r) \in 1..Limiter!Checks(arrivals[r].route)
           /\ Limiter!Checks(arrivals[r].route) \in Nat
           /\ Limiter!Current(r) \notin DOMAIN arrivals[r].decided
           /\ serverTime \in Nat
           /\ \A l \in DOMAIN arrivals[r].asked : arrivals[r].asked[l] <= serverTime
           /\ arrivals[r].step # "clock" =>
                /\ Limiter!Current(r) \in DOMAIN arrivals[r].asked
                /\ arrivals[r].asked[Limiter!Current(r)] \in Nat
                /\ arrivals[r].asked[Limiter!Current(r)] <= serverTime
  <1>1. r \in DOMAIN arrivals /\ RequestsOK /\ arrivals[r].verdict = "checking"
    BY DEF LimiterInv, Limiter!InFlight
  <1>2. /\ DOMAIN arrivals[r].asked = 1..Len(arrivals[r].asked)
        /\ DOMAIN arrivals[r].decided = 1..Len(arrivals[r].decided)
        /\ arrivals[r].asked \in Seq(Nat)
        /\ Len(arrivals[r].decided) \in 0..Len(Limiter!Limits)
        /\ arrivals[r].step # "clock" => Len(arrivals[r].asked) = Len(arrivals[r].decided) + 1
        /\ Limiter!Checks(arrivals[r].route) \in DOMAIN Limiter!Limits
    BY <1>1, RequestFields
  <1>3. Len(arrivals[r].decided) < Limiter!Checks(arrivals[r].route)
        /\ \A l \in DOMAIN arrivals[r].asked : arrivals[r].asked[l] <= serverTime
    BY <1>1 DEF RequestsOK
  <1>4. DOMAIN Limiter!Limits = 1..Len(Limiter!Limits) /\ Len(Limiter!Limits) \in Nat
    <2>1. PICK D : D = [window : Nat \ {0}, max : Nat \ {0}]
      OBVIOUS
    <2>2. Limiter!Limits \in Seq(D)
      BY <2>1, LimitsFacts
    <2> QED
      BY <2>2
  <1>5. Limiter!Current(r) = Len(arrivals[r].decided) + 1
        /\ Limiter!Current(r) \in DOMAIN Limiter!Limits
        /\ Limiter!Current(r) \notin DOMAIN arrivals[r].decided
        /\ Limiter!Current(r) \in 1..Limiter!Checks(arrivals[r].route)
        /\ Limiter!Checks(arrivals[r].route) \in Nat
    BY <1>2, <1>3, <1>4 DEF Limiter!Current
  <1>6. serverTime \in Nat
    BY LimiterConstants DEF LimiterInv
  <1>7. ASSUME arrivals[r].step # "clock"
        PROVE  /\ Limiter!Current(r) \in DOMAIN arrivals[r].asked
               /\ arrivals[r].asked[Limiter!Current(r)] \in Nat
               /\ arrivals[r].asked[Limiter!Current(r)] <= serverTime
    <2>1. Limiter!Current(r) \in 1..Len(arrivals[r].asked)
      BY <1>2, <1>5, <1>7
    <2>2. arrivals[r].asked[Limiter!Current(r)] \in Nat
      BY <1>2, <2>1, ElementOfSeq
    <2> QED
      BY <1>2, <1>3, <2>1, <2>2
  <1> QED
    BY <1>1, <1>3, <1>5, <1>6, <1>7

\* Where a request without a new answer is, the limits let pass whom they did.
LEMMA SamePassed ==
    ASSUME LimiterInv, NEW r \in Limiter!InFlight, Moves(r),
           \A l \in DOMAIN arrivals'[r].decided :
             l \in DOMAIN arrivals[r].decided \/ ~ arrivals'[r].decided[l].ok,
           serverTime' = serverTime
    PROVE  Limiter!NeverOverLimit'
  <1>1. ASSUME NEW l \in DOMAIN Limiter!Limits
        PROVE  (Limiter!Cardinality({q \in Limiter!Passed(l) :
                  arrivals[q].asked[l] > serverTime - Limiter!Limits[l].window})
                    < Limiter!Limits[l].max)'
    <2>1. ASSUME NEW s \in Limiter!Passed(l)' PROVE s \in Limiter!Passed(l)
      <3>1. s \in DOMAIN arrivals
        BY DEF Limiter!Passed, Moves
      <3>2. CASE s # r
        <4>1. arrivals'[s] = arrivals[s]
          BY <3>1, <3>2 DEF Moves
        <4> QED
          BY <3>1, <4>1 DEF Limiter!Passed
      <3>3. CASE s = r
        <4>1. l \in DOMAIN arrivals'[r].decided /\ arrivals'[r].decided[l].ok
          BY <3>3 DEF Limiter!Passed
        <4>2. l \in DOMAIN arrivals[r].decided
              /\ arrivals[r].decided[l] = arrivals'[r].decided[l]
          BY <4>1 DEF Moves
        <4> QED
          BY <3>1, <3>3, <4>1, <4>2, InFlightFields DEF Limiter!Passed
      <3> QED
        BY <3>2, <3>3
    <2>2. ASSUME NEW s \in Limiter!Passed(l)
          PROVE  arrivals'[s].asked[l] = arrivals[s].asked[l]
      <3>1. s \in DOMAIN arrivals /\ l \in DOMAIN arrivals[s].decided
        BY DEF Limiter!Passed
      <3>2. l \in DOMAIN arrivals[s].asked
        BY <3>1, RequestFields DEF LimiterInv
      <3> QED
        BY <3>1, <3>2 DEF Moves
    <2> QED
      BY <2>1, <2>2, LimitStays
  <1> QED
    BY <1>1 DEF Limiter!NeverOverLimit, Limiter!Limits

LEMMA SameRefused ==
    ASSUME LimiterInv, NEW r \in Limiter!InFlight, Moves(r), RequestsOK',
           arrivals'[r].verdict # "refused"
    PROVE  Limiter!RefusalIsEarned'
  <1>1. ASSUME NEW s \in DOMAIN arrivals', arrivals'[s].verdict = "refused"
        PROVE  (Limiter!Cardinality(Limiter!Others(Limiter!Refuser(s), s))
                  >= Limiter!Limits[Limiter!Refuser(s)].max - 1)'
    <2>1. s \in DOMAIN arrivals /\ s # r /\ arrivals[s].verdict = "refused"
      BY <1>1 DEF Moves
    <2> QED
      BY <2>1, RefusalStays
  <1> QED
    BY <1>1 DEF Limiter!RefusalIsEarned, Limiter!Limits

-----------------------------------------------------------------------------
(* What a step of Available leaves true of the sets.                       *)

LEMMA SetsMove ==
    ASSUME LimiterInv, NEW r \in Limiter!InFlight, Moves(r), zset' = zset
    PROVE  SetsOK'
  <1>1. ASSUME NEW l \in DOMAIN Limiter!Limits, NEW m \in DOMAIN zset[l]
        PROVE  /\ m \in DOMAIN arrivals' /\ l \in DOMAIN arrivals'[m].asked
               /\ zset[l][m] = arrivals'[m].asked[l]
    <2>1. m \in DOMAIN arrivals /\ l \in DOMAIN arrivals[m].asked
          /\ zset[l][m] = arrivals[m].asked[l]
      BY DEF LimiterInv, SetsOK
    <2> QED
      BY <2>1 DEF Moves
  <1>2. zset = [l \in DOMAIN Limiter!Limits |-> zset[l]]
    BY DEF LimiterInv, SetsOK
  <1> QED
    BY <1>1, <1>2 DEF SetsOK, Limiter!Limits

LEMMA AddedMove ==
    ASSUME LimiterInv, NEW r \in Limiter!InFlight, Moves(r), zset' = zset,
           serverTime' = serverTime,
           \A l \in DOMAIN Limiter!Limits : AddedTo(l)' \subseteq AddedTo(l)
    PROVE  AddedStay'
  <1>1. ASSUME NEW l \in DOMAIN Limiter!Limits, NEW s \in AddedTo(l)',
               arrivals'[s].asked[l] > serverTime - Limiter!Limits[l].window
        PROVE  s \in DOMAIN zset[l]
    <2>1. s \in AddedTo(l)
      BY <1>1
    <2>2. s \in DOMAIN arrivals /\ l \in DOMAIN arrivals[s].asked
      BY <2>1 DEF AddedTo
    <2>3. arrivals'[s].asked[l] = arrivals[s].asked[l]
      BY <2>2 DEF Moves
    <2> QED
      BY <1>1, <2>1, <2>3 DEF LimiterInv, AddedStay
  <1> QED
    BY <1>1 DEF AddedStay, Limiter!Limits

LEMMA CountedBefore ==
    ASSUME LimiterInv, NEW r \in Limiter!InFlight, Moves(r),
           NEW s \in DOMAIN arrivals, s # r, arrivals[s].step \in {"zadd", "zcount"}
    PROVE  /\ Limiter!Current(s)' = Limiter!Current(s)
           /\ Limiter!Current(s) \in DOMAIN Limiter!Limits
           /\ DOMAIN zset[Limiter!Current(s)] \ {s} \subseteq Limiter!Others(Limiter!Current(s), s)'
  <1>1. PICK l : l = Limiter!Current(s)
    OBVIOUS
  <1>2. s \in Limiter!InFlight
    BY DEF LimiterInv, RequestsOK, Limiter!InFlight
  <1>3. l \in DOMAIN Limiter!Limits /\ l \in DOMAIN arrivals[s].asked
    BY <1>1, <1>2, InFlightFields
  <1>4. arrivals'[s] = arrivals[s]
    BY DEF Moves
  <1>5. Limiter!Current(s)' = l
    BY <1>1, <1>4 DEF Limiter!Current
  <1>6. DOMAIN zset[l] \ {s} \subseteq Limiter!Others(l, s)
    BY <1>1 DEF LimiterInv, CountedAreOthers
  <1>7. Limiter!Others(l, s) \subseteq Limiter!Others(l, s)'
    <2>1. r \in DOMAIN arrivals
      BY InFlightFields
    <2> QED
      BY <1>3, <2>1, OthersGrow
  <1>8. DOMAIN zset[l] \ {s} \subseteq Limiter!Others(Limiter!Current(s), s)'
    BY <1>5, <1>6, <1>7 DEF Limiter!Others
  <1> QED
    BY <1>1, <1>3, <1>5, <1>8

LEMMA CountedMove ==
    ASSUME LimiterInv, NEW r \in Limiter!InFlight, Moves(r),
           \A l \in DOMAIN Limiter!Limits : DOMAIN zset'[l] \subseteq DOMAIN zset[l],
           NEW s \in DOMAIN arrivals, s # r, arrivals[s].step \in {"zadd", "zcount"}
    PROVE  (DOMAIN zset[Limiter!Current(s)] \ {s}
              \subseteq Limiter!Others(Limiter!Current(s), s))'
  BY CountedBefore

\* The request of the step counts nothing after it.
LEMMA CountedStay ==
    ASSUME LimiterInv, NEW r \in Limiter!InFlight, Moves(r), zset' = zset,
           arrivals'[r].step \notin {"zadd", "zcount"}
    PROVE  CountedAreOthers'
  <1>1. ASSUME NEW s \in DOMAIN arrivals', arrivals'[s].step \in {"zadd", "zcount"}
        PROVE  (DOMAIN zset[Limiter!Current(s)] \ {s}
                  \subseteq Limiter!Others(Limiter!Current(s), s))'
    <2>1. s \in DOMAIN arrivals /\ s # r /\ arrivals[s].step \in {"zadd", "zcount"}
      BY <1>1 DEF Moves
    <2> QED
      BY <2>1, CountedMove
  <1> QED
    BY <1>1 DEF CountedAreOthers

-----------------------------------------------------------------------------
(* The steps of the limiter.                                               *)

LEMMA ReadClockKeepsInv ==
    ASSUME LimiterInv, NEW r \in Limiter!InFlight, Limiter!ReadClock(r)
    PROVE  LimiterInv'
  <1>1. /\ arrivals[r].step = "clock" /\ serverTime' = serverTime /\ zset' = zset
        /\ arrivals' = [arrivals EXCEPT ![r].step = "zrem",
                                        ![r].asked = Append(@, serverTime)]
    BY DEF Limiter!ReadClock
  <1>2. /\ r \in DOMAIN arrivals /\ RequestsOK /\ arrivals[r].verdict = "checking"
        /\ serverTime \in Nat
        /\ \A l \in DOMAIN arrivals[r].asked : arrivals[r].asked[l] <= serverTime
    BY InFlightFields
  <1>3. PICK asked : asked = Append(arrivals[r].asked, serverTime)
    OBVIOUS
  <1>4. arrivals[r].asked \in Seq(Nat) /\ Len(arrivals[r].asked) \in Nat
        /\ DOMAIN arrivals[r].asked = 1..Len(arrivals[r].asked)
        /\ DOMAIN arrivals[r].decided = 1..Len(arrivals[r].decided)
        /\ Len(arrivals[r].asked) = Len(arrivals[r].decided)
        /\ Len(arrivals[r].decided) < Limiter!Checks(arrivals[r].route)
        /\ Len(arrivals[r].decided) <= Limiter!Checks(arrivals[r].route)
        /\ arrivals[r].decided \in Seq(Answer)
    BY <1>1, <1>2, RequestFields DEF RequestsOK
  <1>5. /\ asked \in Seq(Nat) /\ Len(asked) = Len(arrivals[r].asked) + 1
        /\ DOMAIN asked = 1..(Len(arrivals[r].asked) + 1)
        /\ \A l \in 1..Len(arrivals[r].asked) : asked[l] = arrivals[r].asked[l]
        /\ asked[Len(arrivals[r].asked) + 1] = serverTime
    BY <1>2, <1>3, <1>4, AppendProperties
  <1>6. Becomes(r, "zrem", "checking", asked, arrivals[r].decided)
    <2>1. PICK q \in RequestRecord : q = arrivals[r]
      BY <1>2, RequestFields
    <2>2. [q EXCEPT !.step = "zrem", !.asked = asked]
            = [route |-> q.route, step |-> "zrem", verdict |-> q.verdict, asked |-> asked,
               decided |-> q.decided]
      BY RecordAsks
    <2>3. arrivals' = [arrivals EXCEPT ![r] = [q EXCEPT !.step = "zrem", !.asked = asked]]
      BY ONLY <1>1, <1>2, <1>3, <2>1
    <2>4. q.verdict = "checking"
      BY <1>2, <2>1
    <2> QED
      BY ONLY <2>1, <2>2, <2>3, <2>4 DEF Becomes
  <1>7. \A l \in DOMAIN asked : asked[l] <= serverTime
    <2>1. ASSUME NEW l \in DOMAIN asked PROVE asked[l] <= serverTime
      <3>1. l \in 1..Len(arrivals[r].asked) \/ l = Len(arrivals[r].asked) + 1
        BY <1>4, <1>5, <2>1
      <3>2. CASE l \in 1..Len(arrivals[r].asked)
        BY <1>2, <1>4, <1>5, <3>2
      <3>3. CASE l = Len(arrivals[r].asked) + 1
        BY <1>2, <1>5, <3>3
      <3> QED
        BY <3>1, <3>2, <3>3
    <2> QED
      BY <2>1
  <1>8. RequestsOK' /\ Became(r, "zrem", "checking", asked, arrivals[r].decided)
    <2>1. Len(asked) = IF "zrem" = "clock" THEN Len(arrivals[r].decided)
                       ELSE Len(arrivals[r].decided) + 1
      BY <1>4, <1>5
    <2>2. Proper(r, "zrem", "checking", asked, arrivals[r].decided)
      BY <1>4, <1>5, <1>7, <2>1 DEF Proper
    <2> QED
      BY <1>1, <1>2, <1>6, <2>2, BecomesOK
  <1>9. Moves(r)
    BY <1>4, <1>5, <1>8 DEF Moves, Became
  <1>10. ASSUME NEW l PROVE AddedTo(l)' \subseteq AddedTo(l)
    <2>1. ASSUME NEW s \in AddedTo(l)' PROVE s \in AddedTo(l)
      <3>1. s \in DOMAIN arrivals
        BY <1>8 DEF AddedTo, Became
      <3>2. CASE s # r
        BY <1>8, <3>1, <3>2 DEF AddedTo, Became
      <3>3. CASE s = r
        <4>1. l \in DOMAIN arrivals[r].decided /\ arrivals[r].decided[l].ok
          BY <1>8, <3>3 DEF AddedTo, Became
        <4> QED
          BY <1>4, <3>1, <3>3, <4>1 DEF AddedTo, Became
      <3> QED
        BY <3>2, <3>3
    <2> QED
      BY <2>1
  <1>11. Limiter!NeverOverLimit'
    BY <1>1, <1>8, <1>9, SamePassed DEF Became
  <1>12. Limiter!RefusalIsEarned'
    BY <1>8, <1>9, SameRefused DEF Became
  <1>13. SetsOK' /\ AddedStay' /\ CountedAreOthers'
    BY <1>1, <1>8, <1>9, <1>10, SetsMove, AddedMove, CountedStay DEF Became
  <1>14. (Limiter!Cardinality(Limiter!InFlight) <= MaxInFlight)'
    BY <1>9, InFlightShrinks
  <1>15. serverTime' \in 1..MaxServerTime
    BY <1>1 DEF LimiterInv
  <1> QED
    BY <1>8, <1>11, <1>12, <1>13, <1>14, <1>15 DEF LimiterInv

\* A step that only moves on to the next command.
LEMMA CommandMoves ==
    ASSUME LimiterInv, NEW r \in Limiter!InFlight, NEW st \in {"zadd", "zcount"},
           arrivals[r].step # "clock", arrivals' = [arrivals EXCEPT ![r].step = st],
           serverTime' = serverTime
    PROVE  /\ Became(r, st, "checking", arrivals[r].asked, arrivals[r].decided)
           /\ Moves(r) /\ RequestsOK'
           /\ (Limiter!Cardinality(Limiter!InFlight) <= MaxInFlight)'
           /\ serverTime' \in 1..MaxServerTime
           /\ Limiter!NeverOverLimit' /\ Limiter!RefusalIsEarned'
           /\ \A l \in DOMAIN Limiter!Limits : st = "zadd" => AddedTo(l)' \subseteq AddedTo(l)
  <1>1. /\ r \in DOMAIN arrivals /\ RequestsOK /\ arrivals[r].verdict = "checking"
        /\ serverTime \in Nat
        /\ \A l \in DOMAIN arrivals[r].asked : arrivals[r].asked[l] <= serverTime
    BY InFlightFields
  <1>2. /\ arrivals[r].asked \in Seq(Nat) /\ Len(arrivals[r].decided) \in Nat
        /\ Len(arrivals[r].asked) = Len(arrivals[r].decided) + 1
        /\ Len(arrivals[r].decided) < Limiter!Checks(arrivals[r].route)
        /\ Len(arrivals[r].decided) <= Limiter!Checks(arrivals[r].route)
        /\ arrivals[r].decided \in Seq(Answer)
    BY <1>1, RequestFields DEF RequestsOK
  <1>3. Becomes(r, st, "checking", arrivals[r].asked, arrivals[r].decided)
    <2>1. PICK q \in RequestRecord : q = arrivals[r]
      BY <1>1, RequestFields
    <2>2. [q EXCEPT !.step = st]
            = [route |-> q.route, step |-> st, verdict |-> q.verdict, asked |-> q.asked,
               decided |-> q.decided]
      BY RecordMoves
    <2>3. arrivals' = [arrivals EXCEPT ![r] = [q EXCEPT !.step = st]]
      BY <1>1, <2>1
    <2>4. q.verdict = "checking"
      BY <1>1, <2>1
    <2> QED
      BY ONLY <2>1, <2>2, <2>3, <2>4 DEF Becomes
  <1>4. Proper(r, st, "checking", arrivals[r].asked, arrivals[r].decided)
    <2>1. Len(arrivals[r].asked) = IF st = "clock" THEN Len(arrivals[r].decided)
                                   ELSE Len(arrivals[r].decided) + 1
      BY <1>2
    <2> QED
      BY <1>1, <1>2, <2>1 DEF Proper
  <1>5. RequestsOK' /\ Became(r, st, "checking", arrivals[r].asked, arrivals[r].decided)
    BY <1>1, <1>3, <1>4, BecomesOK
  <1>6. Moves(r)
    BY <1>5 DEF Moves, Became
  <1>7. Limiter!NeverOverLimit'
    BY <1>5, <1>6, SamePassed DEF Became
  <1>8. Limiter!RefusalIsEarned'
    BY <1>5, <1>6, SameRefused DEF Became
  <1>9. (Limiter!Cardinality(Limiter!InFlight) <= MaxInFlight)'
    BY <1>6, InFlightShrinks
  <1>10. serverTime' \in 1..MaxServerTime
    BY DEF LimiterInv
  <1>11. ASSUME NEW l \in DOMAIN Limiter!Limits, st = "zadd", NEW s \in AddedTo(l)'
         PROVE  s \in AddedTo(l)
    <2>1. CASE s # r
      BY <1>5, <2>1 DEF AddedTo, Became
    <2>2. CASE s = r
      <3>1. /\ l \in DOMAIN arrivals'[r].asked
            /\ IF l \in DOMAIN arrivals'[r].decided THEN arrivals'[r].decided[l].ok
               ELSE arrivals'[r].step = "zcount"
        BY <2>2 DEF AddedTo
      <3>2. arrivals'[r].step # "zcount" /\ arrivals'[r].asked = arrivals[r].asked
            /\ arrivals'[r].decided = arrivals[r].decided
        BY <1>5, <1>11 DEF Became
      <3> QED
        BY <1>1, <2>2, <3>1, <3>2 DEF AddedTo
    <2> QED
      BY <2>1, <2>2
  <1> QED
    BY <1>5, <1>6, <1>7, <1>8, <1>9, <1>10, <1>11

LEMMA ZRemKeepsInv ==
    ASSUME LimiterInv, NEW r \in Limiter!InFlight, Limiter!ZRemRangeByScore(r)
    PROVE  LimiterInv'
  <1>1. PICK l : l = Limiter!Current(r)
    OBVIOUS
  <1>2. PICK at : at = arrivals[r].asked[l]
    OBVIOUS
  <1>3. /\ arrivals[r].step = "zrem" /\ serverTime' = serverTime
        /\ arrivals' = [arrivals EXCEPT ![r].step = "zadd"]
        /\ zset' = [zset EXCEPT ![l] = [m \in Limiter!Kept(l, at) |-> @[m]]]
    BY <1>1, <1>2 DEF Limiter!ZRemRangeByScore
  <1>4. /\ r \in DOMAIN arrivals /\ l \in DOMAIN Limiter!Limits /\ serverTime \in Nat
        /\ l \in DOMAIN arrivals[r].asked /\ at \in Nat /\ at <= serverTime
        /\ l \notin DOMAIN arrivals[r].decided
    BY <1>1, <1>2, <1>3, InFlightFields
  <1>5. /\ Became(r, "zadd", "checking", arrivals[r].asked, arrivals[r].decided)
        /\ Moves(r) /\ RequestsOK'
        /\ (Limiter!Cardinality(Limiter!InFlight) <= MaxInFlight)'
        /\ serverTime' \in 1..MaxServerTime
        /\ Limiter!NeverOverLimit' /\ Limiter!RefusalIsEarned'
        /\ \A k \in DOMAIN Limiter!Limits : AddedTo(k)' \subseteq AddedTo(k)
    BY <1>3, CommandMoves
  <1>6. zset = [k \in DOMAIN Limiter!Limits |-> zset[k]]
    BY DEF LimiterInv, SetsOK
  <1>7. /\ zset' = [k \in DOMAIN Limiter!Limits |-> zset'[k]]
        /\ zset'[l] = [m \in Limiter!Kept(l, at) |-> zset[l][m]]
        /\ \A k \in DOMAIN Limiter!Limits : k # l => zset'[k] = zset[k]
    BY <1>3, <1>4, <1>6
  <1>8. Limiter!Limits[l].window \in Nat
    BY <1>4, LimitsFacts
  <1>9. ASSUME NEW k \in DOMAIN Limiter!Limits
        PROVE  DOMAIN zset'[k] \subseteq DOMAIN zset[k]
               /\ \A m \in DOMAIN zset'[k] : zset'[k][m] = zset[k][m]
    BY <1>7 DEF Limiter!Kept
  <1>10. SetsOK'
    <2>1. ASSUME NEW k \in DOMAIN Limiter!Limits, NEW m \in DOMAIN zset'[k]
          PROVE  /\ m \in DOMAIN arrivals' /\ k \in DOMAIN arrivals'[m].asked
                 /\ zset'[k][m] = arrivals'[m].asked[k]
      <3>1. m \in DOMAIN zset[k] /\ zset'[k][m] = zset[k][m]
        BY <1>9
      <3>2. m \in DOMAIN arrivals /\ k \in DOMAIN arrivals[m].asked
            /\ zset[k][m] = arrivals[m].asked[k]
        BY <3>1 DEF LimiterInv, SetsOK
      <3> QED
        BY <1>5, <3>1, <3>2 DEF Moves
    <2> QED
      BY <1>7, <2>1 DEF SetsOK, Limiter!Limits
  <1>11. AddedStay'
    <2>1. ASSUME NEW k \in DOMAIN Limiter!Limits, NEW s \in AddedTo(k)',
                 arrivals'[s].asked[k] > serverTime - Limiter!Limits[k].window
          PROVE  s \in DOMAIN zset'[k]
      <3>1. s \in AddedTo(k) /\ s \in DOMAIN arrivals /\ k \in DOMAIN arrivals[s].asked
        BY <1>5, <2>1 DEF AddedTo
      <3>2. arrivals'[s].asked[k] = arrivals[s].asked[k]
        BY <1>5, <3>1 DEF Moves
      <3>3. s \in DOMAIN zset[k]
        BY <2>1, <3>1, <3>2 DEF LimiterInv, AddedStay
      <3>4. CASE k = l
        <4>1. zset[l][s] = arrivals[s].asked[l] /\ arrivals[s].asked \in Seq(Nat)
              /\ DOMAIN arrivals[s].asked = 1..Len(arrivals[s].asked)
          BY <3>1, <3>3, <3>4, RequestFields DEF LimiterInv, SetsOK
        <4>2. arrivals[s].asked[l] \in Nat
          BY <3>1, <3>4, <4>1, ElementOfSeq
        <4>3. zset[l][s] > at - Limiter!Limits[l].window
          BY <1>4, <1>8, <2>1, <3>2, <3>4, <4>1, <4>2
        <4> QED
          BY <1>7, <3>3, <3>4, <4>3 DEF Limiter!Kept
      <3>5. CASE k # l
        BY <1>7, <3>3, <3>5
      <3> QED
        BY <3>4, <3>5
    <2> QED
      BY <1>3, <2>1 DEF AddedStay, Limiter!Limits
  <1>12. CountedAreOthers'
    <2>1. ASSUME NEW s \in DOMAIN arrivals', arrivals'[s].step \in {"zadd", "zcount"}
          PROVE  (DOMAIN zset[Limiter!Current(s)] \ {s}
                    \subseteq Limiter!Others(Limiter!Current(s), s))'
      <3>1. CASE s # r
        <4>1. s \in DOMAIN arrivals /\ arrivals[s].step \in {"zadd", "zcount"}
          BY <1>5, <2>1, <3>1 DEF Moves
        <4> QED
          BY <1>5, <1>9, <3>1, <4>1, CountedMove
      <3>2. CASE s = r
        <4>1. Limiter!Current(r)' = l /\ arrivals'[r].asked[l] = at
          BY <1>1, <1>2, <1>5 DEF Limiter!Current, Became
        <4>2. ASSUME NEW m \in DOMAIN zset'[l] \ {r} PROVE m \in Limiter!Others(l, r)'
          <5>1. m \in DOMAIN zset[l] /\ zset[l][m] > at - Limiter!Limits[l].window
            BY <1>7 DEF Limiter!Kept
          <5>2. m \in DOMAIN arrivals' /\ l \in DOMAIN arrivals'[m].asked
                /\ zset'[l][m] = arrivals'[m].asked[l] /\ zset'[l][m] = zset[l][m]
            BY <1>4, <1>9, <1>10 DEF SetsOK, Limiter!Limits
          <5>3. arrivals'[m].asked[l] > arrivals'[r].asked[l] - Limiter!Limits[l].window
            BY <4>1, <5>1, <5>2
          <5> QED
            BY <5>2, <5>3 DEF Limiter!Others, Limiter!Limits
        <4> QED
          BY <3>2, <4>1, <4>2 DEF Limiter!Others
      <3> QED
        BY <3>1, <3>2
    <2> QED
      BY <2>1 DEF CountedAreOthers
  <1> QED
    BY <1>5, <1>10, <1>11, <1>12 DEF LimiterInv

LEMMA ZAddKeepsInv ==
    ASSUME LimiterInv, NEW r \in Limiter!InFlight, Limiter!ZAdd(r)
    PROVE  LimiterInv'
  <1>1. PICK l : l = Limiter!Current(r)
    OBVIOUS
  <1>2. PICK at : at = arrivals[r].asked[l]
    OBVIOUS
  <1>3. /\ arrivals[r].step = "zadd" /\ serverTime' = serverTime
        /\ arrivals' = [arrivals EXCEPT ![r].step = "zcount"]
        /\ zset' = [zset EXCEPT ![l] = [m \in DOMAIN @ \cup {r} |-> IF m = r THEN at ELSE @[m]]]
    BY <1>1, <1>2 DEF Limiter!ZAdd, Limiter!Score
  <1>4. /\ r \in DOMAIN arrivals /\ l \in DOMAIN Limiter!Limits /\ RequestsOK
        /\ l \in DOMAIN arrivals[r].asked /\ l \notin DOMAIN arrivals[r].decided
        /\ l = Len(arrivals[r].decided) + 1
    BY <1>1, <1>2, <1>3, InFlightFields
  <1>5. /\ Became(r, "zcount", "checking", arrivals[r].asked, arrivals[r].decided)
        /\ Moves(r) /\ RequestsOK'
        /\ (Limiter!Cardinality(Limiter!InFlight) <= MaxInFlight)'
        /\ serverTime' \in 1..MaxServerTime
        /\ Limiter!NeverOverLimit' /\ Limiter!RefusalIsEarned'
    BY <1>3, CommandMoves
  <1>6. zset = [k \in DOMAIN Limiter!Limits |-> zset[k]]
    BY DEF LimiterInv, SetsOK
  <1>7. /\ zset' = [k \in DOMAIN Limiter!Limits |-> zset'[k]]
        /\ zset'[l] = [m \in DOMAIN zset[l] \cup {r} |-> IF m = r THEN at ELSE zset[l][m]]
        /\ \A k \in DOMAIN Limiter!Limits : k # l => zset'[k] = zset[k]
    BY <1>3, <1>4, <1>6
  <1>8. DOMAIN zset'[l] = DOMAIN zset[l] \cup {r} /\ zset'[l][r] = at
        /\ \A m \in DOMAIN zset[l] : m # r => zset'[l][m] = zset[l][m]
    BY <1>7
  <1>9. ASSUME NEW k \in DOMAIN Limiter!Limits, NEW m \in DOMAIN zset[k]
        PROVE  /\ m \in DOMAIN arrivals' /\ k \in DOMAIN arrivals'[m].asked
               /\ zset[k][m] = arrivals'[m].asked[k]
    <2>1. m \in DOMAIN arrivals /\ k \in DOMAIN arrivals[m].asked
          /\ zset[k][m] = arrivals[m].asked[k]
      BY DEF LimiterInv, SetsOK
    <2> QED
      BY <1>5, <2>1 DEF Moves
  <1>10. SetsOK'
    <2>1. ASSUME NEW k \in DOMAIN Limiter!Limits, NEW m \in DOMAIN zset'[k]
          PROVE  /\ m \in DOMAIN arrivals' /\ k \in DOMAIN arrivals'[m].asked
                 /\ zset'[k][m] = arrivals'[m].asked[k]
      <3>1. CASE k # l
        BY <1>7, <1>9, <2>1, <3>1
      <3>2. CASE k = l /\ m = r
        BY <1>2, <1>4, <1>5, <1>8, <3>2 DEF Became
      <3>3. CASE k = l /\ m # r
        BY <1>8, <1>9, <2>1, <3>3
      <3> QED
        BY <3>1, <3>2, <3>3
    <2> QED
      BY <1>7, <2>1 DEF SetsOK, Limiter!Limits
  <1>11. AddedStay'
    <2>1. ASSUME NEW k \in DOMAIN Limiter!Limits, NEW s \in AddedTo(k)',
                 arrivals'[s].asked[k] > serverTime - Limiter!Limits[k].window
          PROVE  s \in DOMAIN zset'[k]
      <3>1. /\ s \in DOMAIN arrivals' /\ k \in DOMAIN arrivals'[s].asked
            /\ IF k \in DOMAIN arrivals'[s].decided THEN arrivals'[s].decided[k].ok
               ELSE arrivals'[s].step = "zcount"
        BY DEF AddedTo
      <3>2. CASE s = r /\ k = l
        BY <1>8, <3>2
      <3>3. CASE s # r \/ k # l
        <4>1. s \in AddedTo(k)
          <5>1. CASE s # r
            BY <1>5, <3>1, <5>1 DEF AddedTo, Became
          <5>2. CASE s = r /\ k # l
            <6>1. k \in DOMAIN arrivals[r].asked
              BY <1>5, <3>1, <5>2 DEF Became
            <6>2. k \in DOMAIN arrivals[r].decided
              <7>1. /\ DOMAIN arrivals[r].asked = 1..Len(arrivals[r].asked)
                    /\ DOMAIN arrivals[r].decided = 1..Len(arrivals[r].decided)
                    /\ Len(arrivals[r].decided) \in Nat
                    /\ Len(arrivals[r].asked) = Len(arrivals[r].decided) + 1
                BY <1>3, <1>4, RequestFields
              <7> QED
                BY <1>4, <5>2, <6>1, <7>1
            <6> QED
              BY <1>4, <1>5, <3>1, <5>2, <6>1, <6>2 DEF AddedTo, Became
          <5> QED
            BY <3>3, <5>1, <5>2
        <4>2. s \in DOMAIN arrivals /\ k \in DOMAIN arrivals[s].asked
          BY <4>1 DEF AddedTo
        <4>3. arrivals'[s].asked[k] = arrivals[s].asked[k]
          BY <1>5, <4>2 DEF Moves
        <4>4. s \in DOMAIN zset[k]
          BY <2>1, <4>1, <4>3 DEF LimiterInv, AddedStay
        <4> QED
          BY <1>7, <1>8, <4>4
      <3> QED
        BY <3>2, <3>3
    <2> QED
      BY <1>3, <2>1 DEF AddedStay, Limiter!Limits
  <1>12. CountedAreOthers'
    <2>1. ASSUME NEW s \in DOMAIN arrivals', arrivals'[s].step \in {"zadd", "zcount"}
          PROVE  (DOMAIN zset[Limiter!Current(s)] \ {s}
                    \subseteq Limiter!Others(Limiter!Current(s), s))'
      <3>1. CASE s # r
        <4>1. s \in DOMAIN arrivals /\ arrivals[s].step \in {"zadd", "zcount"}
          BY <1>5, <2>1, <3>1 DEF Moves
        <4>2. PICK k : k = Limiter!Current(s)'
          OBVIOUS
        <4>3. k \in DOMAIN Limiter!Limits /\ DOMAIN zset[k] \ {s} \subseteq Limiter!Others(k, s)'
          BY <1>5, <3>1, <4>1, <4>2, CountedBefore DEF Limiter!Others
        <4>4. r \in Limiter!Others(l, s)'
          BY <1>4, <1>5, <3>1 DEF Limiter!Others, Became
        <4>5. DOMAIN zset'[k] \ {s} \subseteq Limiter!Others(k, s)'
          <5>1. CASE k # l
            BY <1>7, <4>3, <5>1
          <5>2. CASE k = l
            BY <1>8, <4>3, <4>4, <5>2
          <5> QED
            BY <5>1, <5>2
        <4> QED
          BY <4>2, <4>5 DEF Limiter!Others
      <3>2. CASE s = r
        <4>1. Limiter!Current(r)' = l
          BY <1>1, <1>5 DEF Limiter!Current, Became
        <4>2. DOMAIN zset[l] \ {r} \subseteq Limiter!Others(l, r)
          BY <1>1, <1>3, <1>4 DEF LimiterInv, CountedAreOthers
        <4>3. Limiter!Others(l, r) \subseteq Limiter!Others(l, r)'
          BY <1>4, <1>5, OthersGrow
        <4>4. DOMAIN zset'[l] \ {r} \subseteq Limiter!Others(l, r)'
          BY <1>8, <4>2, <4>3
        <4> QED
          BY <3>2, <4>1, <4>4 DEF Limiter!Others
      <3> QED
        BY <3>1, <3>2
    <2> QED
      BY <2>1 DEF CountedAreOthers
  <1> QED
    BY <1>5, <1>10, <1>11, <1>12 DEF LimiterInv

\* A step that answers a request.
Decides(r, ok, verdict) ==
    /\ arrivals' = [arrivals EXCEPT ![r].step = "clock",
                                    ![r].decided = Append(@, [at |-> serverTime, ok |-> ok]),
                                    ![r].verdict = verdict]
    /\ zset' = zset /\ serverTime' = serverTime

LEMMA DecidesOK ==
    ASSUME LimiterInv, NEW r \in Limiter!InFlight, arrivals[r].step # "clock",
           NEW ok \in BOOLEAN, NEW verdict \in {"checking", "served", "refused"},
           Decides(r, ok, verdict),
           verdict = "checking" => Limiter!Current(r) # Limiter!Checks(arrivals[r].route)
    PROVE  /\ Became(r, "clock", verdict, arrivals[r].asked,
                     Append(arrivals[r].decided, [at |-> serverTime, ok |-> ok]))
           /\ Moves(r) /\ RequestsOK'
           /\ (Limiter!Cardinality(Limiter!InFlight) <= MaxInFlight)'
           /\ serverTime' \in 1..MaxServerTime
           /\ SetsOK' /\ CountedAreOthers'
           /\ DOMAIN arrivals'[r].decided = 1..Limiter!Current(r)
           /\ arrivals'[r].decided[Limiter!Current(r)].ok = ok
           /\ Len(arrivals'[r].decided) = Limiter!Current(r)
  <1>1. PICK reply : reply = [at |-> serverTime, ok |-> ok]
    OBVIOUS
  <1>2. PICK decided : decided = Append(arrivals[r].decided, reply)
    OBVIOUS
  <1>3. PICK l : l = Limiter!Current(r)
    OBVIOUS
  <1>4. /\ r \in DOMAIN arrivals /\ RequestsOK /\ arrivals[r].verdict = "checking"
        /\ serverTime \in Nat /\ l = Len(arrivals[r].decided) + 1
        /\ l \in 1..Limiter!Checks(arrivals[r].route) /\ Limiter!Checks(arrivals[r].route) \in Nat
        /\ l \notin DOMAIN arrivals[r].decided
        /\ \A k \in DOMAIN arrivals[r].asked : arrivals[r].asked[k] <= serverTime
    BY <1>3, InFlightFields
  <1>5. /\ arrivals[r].asked \in Seq(Nat) /\ arrivals[r].decided \in Seq(Answer)
        /\ Len(arrivals[r].decided) \in Nat
        /\ DOMAIN arrivals[r].decided = 1..Len(arrivals[r].decided)
        /\ Len(arrivals[r].asked) = Len(arrivals[r].decided) + 1
    BY <1>4, RequestFields
  <1>6. reply \in Answer /\ reply.at = serverTime /\ reply.ok = ok
    BY <1>1, <1>4 DEF Answer
  <1>7. /\ decided \in Seq(Answer) /\ Len(decided) = l /\ DOMAIN decided = 1..l
        /\ \A k \in DOMAIN arrivals[r].decided : k \in 1..l /\ decided[k] = arrivals[r].decided[k]
        /\ decided[l] = reply
    BY <1>2, <1>4, <1>5, <1>6, AppendProperties
  <1>8. decided # <<>>
    BY <1>4, <1>7
  <1>9. Becomes(r, "clock", verdict, arrivals[r].asked, decided)
    <2>1. PICK q \in RequestRecord : q = arrivals[r]
      BY <1>4, RequestFields
    <2>2. [q EXCEPT !.step = "clock", !.decided = decided, !.verdict = verdict]
            = [route |-> q.route, step |-> "clock", verdict |-> verdict, asked |-> q.asked,
               decided |-> decided]
      BY RecordDecides
    <2>3. arrivals' = [arrivals EXCEPT ![r] = [q EXCEPT !.step = "clock", !.decided = decided,
                                                        !.verdict = verdict]]
      BY <1>1, <1>2, <1>4, <2>1 DEF Decides
    <2> QED
      BY ONLY <2>1, <2>2, <2>3 DEF Becomes
  <1>10. Proper(r, "clock", verdict, arrivals[r].asked, decided)
    <2>1. Len(arrivals[r].asked) = IF "clock" = "clock" THEN Len(decided) ELSE Len(decided) + 1
      BY <1>4, <1>5, <1>7
    <2>2. Len(decided) <= Limiter!Checks(arrivals[r].route)
          /\ (verdict = "checking" => Len(decided) < Limiter!Checks(arrivals[r].route))
      BY <1>3, <1>4, <1>7
    <2> QED
      BY <1>4, <1>5, <1>7, <1>8, <2>1, <2>2 DEF Proper
  <1>11. serverTime' = serverTime /\ zset' = zset
    BY DEF Decides
  <1>12. RequestsOK' /\ Became(r, "clock", verdict, arrivals[r].asked, decided)
    BY <1>4, <1>9, <1>10, <1>11, BecomesOK
  <1>13. Moves(r)
    <2>1. /\ DOMAIN arrivals' = DOMAIN arrivals
          /\ \A s \in DOMAIN arrivals : s # r => arrivals'[s] = arrivals[s]
          /\ arrivals'[r].route = arrivals[r].route
          /\ arrivals'[r].asked = arrivals[r].asked /\ arrivals'[r].decided = decided
      BY <1>12 DEF Became
    <2>2. ASSUME NEW k \in 1..l, k \notin DOMAIN arrivals[r].decided
          PROVE  k = l /\ decided[k].at = serverTime
      <3>1. k = l
        BY <1>4, <1>5, <2>2
      <3> QED
        BY <1>6, <1>7, <3>1
    <2>3. \A k \in DOMAIN arrivals[r].decided :
            k \in DOMAIN decided /\ decided[k] = arrivals[r].decided[k]
      BY <1>7
    <2>4. \A k \in DOMAIN decided :
            k \notin DOMAIN arrivals[r].decided =>
              k = Limiter!Current(r) /\ decided[k].at = serverTime
      BY <1>3, <1>7, <2>2
    <2> QED
      BY <2>1, <2>3, <2>4 DEF Moves
  <1>14. (Limiter!Cardinality(Limiter!InFlight) <= MaxInFlight)' /\ SetsOK'
         /\ serverTime' \in 1..MaxServerTime
    BY <1>11, <1>13, InFlightShrinks, SetsMove DEF LimiterInv
  <1>15. CountedAreOthers'
    BY <1>11, <1>12, <1>13, CountedStay DEF Became
  <1> QED
    BY <1>1, <1>2, <1>3, <1>6, <1>7, <1>12, <1>13, <1>14, <1>15 DEF Became

LEMMA DecidesAdded ==
    ASSUME LimiterInv, NEW r \in Limiter!InFlight, arrivals[r].step # "clock",
           NEW ok \in BOOLEAN, NEW verdict \in {"checking", "served", "refused"},
           Decides(r, ok, verdict), ok => arrivals[r].step = "zcount",
           verdict = "checking" => Limiter!Current(r) # Limiter!Checks(arrivals[r].route)
    PROVE  AddedStay'
  <1>1. PICK l : l = Limiter!Current(r)
    OBVIOUS
  <1>2. /\ r \in DOMAIN arrivals /\ RequestsOK
        /\ l = Len(arrivals[r].decided) + 1 /\ l \in DOMAIN arrivals[r].asked
        /\ l \notin DOMAIN arrivals[r].decided
    BY <1>1, InFlightFields
  <1>3. /\ Became(r, "clock", verdict, arrivals[r].asked,
                  Append(arrivals[r].decided, [at |-> serverTime, ok |-> ok]))
        /\ Moves(r)
        /\ DOMAIN arrivals'[r].decided = 1..l /\ arrivals'[r].decided[l].ok = ok
    BY <1>1, DecidesOK
  <1>4. /\ DOMAIN arrivals[r].asked = 1..l
        /\ DOMAIN arrivals[r].decided = 1..(l - 1) /\ l \in Nat
    BY <1>2, RequestFields
  <1>5. ASSUME NEW k \in DOMAIN Limiter!Limits, NEW s \in AddedTo(k)'
        PROVE  s \in AddedTo(k)
    <2>1. /\ s \in DOMAIN arrivals' /\ k \in DOMAIN arrivals'[s].asked
          /\ IF k \in DOMAIN arrivals'[s].decided THEN arrivals'[s].decided[k].ok
             ELSE arrivals'[s].step = "zcount"
      BY DEF AddedTo
    <2>2. CASE s # r
      BY <1>3, <2>1, <2>2 DEF AddedTo, Became
    <2>3. CASE s = r
      <3>1. k \in DOMAIN arrivals[r].asked /\ k \in 1..l
        BY <1>3, <1>4, <2>1, <2>3 DEF Became
      <3>2. arrivals'[r].decided[k].ok
        BY <1>3, <2>1, <2>3, <3>1
      <3>3. CASE k = l
        BY <1>2, <1>3, <2>3, <3>1, <3>2, <3>3 DEF AddedTo
      <3>4. CASE k # l
        <4>1. k \in DOMAIN arrivals[r].decided
          BY <1>4, <3>1, <3>4
        <4>2. arrivals[r].decided[k].ok
          BY <1>3, <3>2, <4>1 DEF Moves
        <4> QED
          BY <1>2, <2>3, <3>1, <4>1, <4>2 DEF AddedTo
      <3> QED
        BY <3>3, <3>4
    <2> QED
      BY <2>2, <2>3
  <1>6. zset' = zset /\ serverTime' = serverTime
    BY DEF Decides
  <1> QED
    BY <1>3, <1>5, <1>6, AddedMove

LEMMA FailKeepsInv ==
    ASSUME LimiterInv, NEW r \in Limiter!InFlight, Limiter!Fail(r)
    PROVE  LimiterInv'
  <1>1. PICK verdict : verdict = Limiter!Verdict(r)
    OBVIOUS
  <1>2. /\ arrivals[r].step # "clock" /\ Decides(r, FALSE, verdict)
        /\ verdict \in {"checking", "served", "refused"}
        /\ verdict = "checking" => Limiter!Current(r) # Limiter!Checks(arrivals[r].route)
    BY <1>1 DEF Limiter!Fail, Limiter!Verdict, Decides
  <1>3. /\ Became(r, "clock", verdict, arrivals[r].asked,
                  Append(arrivals[r].decided, [at |-> serverTime, ok |-> FALSE]))
        /\ Moves(r) /\ RequestsOK'
        /\ (Limiter!Cardinality(Limiter!InFlight) <= MaxInFlight)'
        /\ serverTime' \in 1..MaxServerTime
        /\ SetsOK' /\ CountedAreOthers'
        /\ DOMAIN arrivals'[r].decided = 1..Limiter!Current(r)
        /\ arrivals'[r].decided[Limiter!Current(r)].ok = FALSE
    BY <1>2, DecidesOK
  <1>4. AddedStay'
    BY <1>2, DecidesAdded
  <1>5. \A l \in DOMAIN arrivals'[r].decided :
          l \in DOMAIN arrivals[r].decided \/ ~ arrivals'[r].decided[l].ok
    BY <1>3 DEF Moves
  <1>6. serverTime' = serverTime /\ verdict # "refused"
    BY <1>1, <1>2 DEF Decides, Limiter!Verdict
  <1>7. Limiter!NeverOverLimit'
    BY <1>3, <1>5, <1>6, SamePassed
  <1>8. Limiter!RefusalIsEarned'
    BY <1>3, <1>6, SameRefused DEF Became
  <1> QED
    BY <1>3, <1>4, <1>7, <1>8 DEF LimiterInv

LEMMA ZCountKeepsInv ==
    ASSUME LimiterInv, NEW r \in Limiter!InFlight, Limiter!ZCount(r)
    PROVE  LimiterInv'
  <1>1. PICK l : l = Limiter!Current(r)
    OBVIOUS
  <1>2. PICK verdict : verdict = IF Limiter!Passes(l) THEN Limiter!Verdict(r) ELSE "refused"
    OBVIOUS
  <1>3. /\ arrivals[r].step = "zcount" /\ Decides(r, TRUE, verdict)
        /\ verdict \in {"checking", "served", "refused"}
        /\ verdict = "checking" => Limiter!Current(r) # Limiter!Checks(arrivals[r].route)
        /\ verdict = "refused" <=> ~ Limiter!Passes(l)
    BY <1>1, <1>2 DEF Limiter!ZCount, Limiter!Verdict, Decides
  <1>4. /\ Became(r, "clock", verdict, arrivals[r].asked,
                  Append(arrivals[r].decided, [at |-> serverTime, ok |-> TRUE]))
        /\ Moves(r) /\ RequestsOK'
        /\ (Limiter!Cardinality(Limiter!InFlight) <= MaxInFlight)'
        /\ serverTime' \in 1..MaxServerTime
        /\ SetsOK' /\ CountedAreOthers'
        /\ DOMAIN arrivals'[r].decided = 1..l /\ Len(arrivals'[r].decided) = l
    BY <1>1, <1>3, DecidesOK
  <1>5. AddedStay'
    BY <1>3, DecidesAdded
  <1>6. /\ r \in DOMAIN arrivals /\ RequestsOK /\ l \in DOMAIN Limiter!Limits /\ l \in Nat
        /\ l = Len(arrivals[r].decided) + 1 /\ l \in DOMAIN arrivals[r].asked
        /\ l \notin DOMAIN arrivals[r].decided /\ arrivals[r].verdict = "checking"
        /\ DOMAIN arrivals[r].decided = 1..(l - 1)
        /\ Limiter!Limits[l].max \in Nat
    <2>1. /\ r \in DOMAIN arrivals /\ RequestsOK /\ l \in DOMAIN Limiter!Limits
          /\ l = Len(arrivals[r].decided) + 1 /\ l \in DOMAIN arrivals[r].asked
          /\ l \notin DOMAIN arrivals[r].decided /\ arrivals[r].verdict = "checking"
      BY <1>1, <1>3, InFlightFields
    <2>2. DOMAIN arrivals[r].decided = 1..Len(arrivals[r].decided)
          /\ Len(arrivals[r].decided) \in Nat
      BY <2>1, RequestFields
    <2>3. Limiter!Limits[l].max \in Nat
      BY <2>1, LimitsFacts
    <2> QED
      BY <2>1, <2>2, <2>3
  <1>7. serverTime' = serverTime /\ zset' = zset
    BY <1>3 DEF Decides
  <1>8. PICK Z : Z = DOMAIN zset[l]
    OBVIOUS
  <1>9. Z \subseteq DOMAIN arrivals /\ IsFiniteSet(Z) /\ Cardinality(Z) \in Nat
    <2>1. Z \subseteq DOMAIN arrivals
      BY <1>6, <1>8 DEF LimiterInv, SetsOK
    <2> QED
      BY <1>6, <2>1, RequestsFinite, FS_Subset, FS_CardinalityType
  <1>10. Limiter!Passes(l) <=> Cardinality(Z) < Limiter!Limits[l].max
    BY <1>6, <1>8, <1>9, LimiterLibrary DEF Limiter!Passes
  <1>11. ASSUME NEW k \in DOMAIN Limiter!Limits, k # l \/ verdict = "refused"
         PROVE  Limiter!Passed(k)' \subseteq Limiter!Passed(k)
    <2>1. ASSUME NEW s \in Limiter!Passed(k)' PROVE s \in Limiter!Passed(k)
      <3>1. /\ s \in DOMAIN arrivals' /\ k \in DOMAIN arrivals'[s].decided
            /\ arrivals'[s].decided[k].ok
            /\ Len(arrivals'[s].decided) > k \/ arrivals'[s].verdict # "refused"
        BY DEF Limiter!Passed
      <3>2. CASE s # r
        BY <1>4, <3>1, <3>2 DEF Limiter!Passed, Became
      <3>3. CASE s = r
        <4>1. k # l
          BY <1>4, <1>6, <1>11, <3>1, <3>3 DEF Became
        <4>2. k \in DOMAIN arrivals[r].decided
          BY <1>4, <1>6, <3>1, <3>3, <4>1
        <4>3. arrivals[r].decided[k].ok
          BY <1>4, <3>1, <3>3, <4>2 DEF Moves
        <4> QED
          BY <1>6, <3>3, <4>2, <4>3 DEF Limiter!Passed
      <3> QED
        BY <3>2, <3>3
    <2> QED
      BY <2>1
  <1>12. ASSUME NEW k \in DOMAIN Limiter!Limits, NEW s \in Limiter!Passed(k)
         PROVE  arrivals'[s].asked[k] = arrivals[s].asked[k]
    <2>1. s \in DOMAIN arrivals /\ k \in DOMAIN arrivals[s].decided
      BY DEF Limiter!Passed
    <2>2. k \in DOMAIN arrivals[s].asked
      BY <1>6, <2>1, RequestFields
    <2> QED
      BY <1>4, <2>1, <2>2 DEF Moves
  <1>13. ASSUME Limiter!Passes(l)
         PROVE  (Limiter!Cardinality({s \in Limiter!Passed(l) :
                   arrivals[s].asked[l] > serverTime - Limiter!Limits[l].window})
                     < Limiter!Limits[l].max)'
    <2> DEFINE P == {s \in Limiter!Passed(l) :
                       arrivals[s].asked[l] > serverTime - Limiter!Limits[l].window}
    <2>1. ASSUME NEW s \in P' PROVE s \in Z
      <3>1. /\ s \in DOMAIN arrivals' /\ l \in DOMAIN arrivals'[s].decided
            /\ arrivals'[s].decided[l].ok
            /\ arrivals'[s].asked[l] > serverTime - Limiter!Limits[l].window
        BY <1>7 DEF Limiter!Passed, Limiter!Limits
      <3>2. s \in AddedTo(l) /\ arrivals'[s].asked[l] = arrivals[s].asked[l]
        <4>1. CASE s = r
          BY <1>3, <1>4, <1>6, <4>1 DEF AddedTo, Became
        <4>2. CASE s # r
          <5>1. s \in DOMAIN arrivals /\ arrivals'[s] = arrivals[s]
            BY <1>4, <3>1, <4>2 DEF Became
          <5>2. l \in DOMAIN arrivals[s].asked
            BY <1>6, <3>1, <5>1, RequestFields
          <5> QED
            BY <3>1, <5>1, <5>2 DEF AddedTo
        <4> QED
          BY <4>1, <4>2
      <3> QED
        BY <1>6, <1>8, <3>1, <3>2 DEF LimiterInv, AddedStay
    <2>2. PICK S : S = P'
      OBVIOUS
    <2> HIDE DEF P
    <2>3. S \subseteq Z
      BY <2>1, <2>2
    <2>4. Cardinality(S) <= Cardinality(Z) /\ Cardinality(S) \in Nat
      BY <1>9, <2>3, FS_Subset, FS_CardinalityType
    <2>5. Cardinality(S) < Limiter!Limits[l].max
      BY <1>6, <1>9, <1>10, <1>13, <2>4
    <2>6. (Limiter!Cardinality(P))' = Cardinality(S)
      BY <2>2, LimiterLibrary
    <2> QED
      BY <2>5, <2>6 DEF P, Limiter!Limits
  <1>14. Limiter!NeverOverLimit'
    <2>1. ASSUME NEW k \in DOMAIN Limiter!Limits
          PROVE  (Limiter!Cardinality({s \in Limiter!Passed(k) :
                    arrivals[s].asked[k] > serverTime - Limiter!Limits[k].window})
                      < Limiter!Limits[k].max)'
      <3>1. CASE k # l \/ verdict = "refused"
        BY <1>7, <1>11, <1>12, <3>1, LimitStays
      <3>2. CASE k = l /\ verdict # "refused"
        BY <1>3, <1>13, <3>2
      <3> QED
        BY <3>1, <3>2
    <2> QED
      BY <2>1 DEF Limiter!NeverOverLimit, Limiter!Limits
  <1>15. ASSUME verdict = "refused"
         PROVE  (Limiter!Cardinality(Limiter!Others(Limiter!Refuser(r), r))
                   >= Limiter!Limits[Limiter!Refuser(r)].max - 1)'
    <2>1. Limiter!Refuser(r)' = l
      BY <1>4 DEF Limiter!Refuser
    <2>2. Z \ {r} \subseteq Limiter!Others(l, r)
      BY <1>1, <1>3, <1>6, <1>8 DEF LimiterInv, CountedAreOthers
    <2>3. PICK S : S = Limiter!Others(l, r)'
      OBVIOUS
    <2>4. Z \ {r} \subseteq S
      BY <1>4, <1>6, <2>2, <2>3, OthersGrow
    <2>5. IsFiniteSet(S)
      <3>1. S \subseteq DOMAIN arrivals
        BY <1>4, <2>3 DEF Limiter!Others, Became
      <3> QED
        BY <1>6, <3>1, RequestsFinite, FS_Subset
    <2>6. Cardinality(Z \ {r}) <= Cardinality(S) /\ Cardinality(S) \in Nat
          /\ Cardinality(Z \ {r}) \in Nat
      BY <2>4, <2>5, FS_Subset, FS_CardinalityType
    <2>7. Cardinality(Z \ {r}) >= Cardinality(Z) - 1
      BY <1>9, FS_RemoveElement
    <2>8. Cardinality(S) >= Limiter!Limits[l].max - 1
      BY <1>3, <1>6, <1>9, <1>10, <1>15, <2>6, <2>7
    <2>9. (Limiter!Cardinality(Limiter!Others(Limiter!Refuser(r), r)))' = Cardinality(S)
      BY <2>1, <2>3, LimiterLibrary DEF Limiter!Others
    <2> QED
      BY <2>1, <2>8, <2>9 DEF Limiter!Limits
  <1>16. Limiter!RefusalIsEarned'
    <2>1. ASSUME NEW s \in DOMAIN arrivals', arrivals'[s].verdict = "refused"
          PROVE  (Limiter!Cardinality(Limiter!Others(Limiter!Refuser(s), s))
                    >= Limiter!Limits[Limiter!Refuser(s)].max - 1)'
      <3>1. CASE s = r
        BY <1>4, <1>15, <2>1, <3>1 DEF Became
      <3>2. CASE s # r
        <4>1. s \in DOMAIN arrivals /\ arrivals[s].verdict = "refused"
          BY <1>4, <2>1, <3>2 DEF Became
        <4> QED
          BY <1>4, <3>2, <4>1, RefusalStays
      <3> QED
        BY <3>1, <3>2
    <2> QED
      BY <2>1 DEF Limiter!RefusalIsEarned, Limiter!Limits
  <1> QED
    BY <1>4, <1>5, <1>14, <1>16 DEF LimiterInv

LEMMA ArriveKeepsInv ==
    ASSUME LimiterInv, NEW route \in Limiter!Route, Limiter!Arrive(route)
    PROVE  LimiterInv'
  <1>1. PICK new : new = Limiter!Request(route)
    OBVIOUS
  <1>2. PICK n : n = Len(arrivals) + 1
    OBVIOUS
  <1>3. PICK R : R = RequestRecord
    OBVIOUS
  <1>4. /\ arrivals' = Append(arrivals, new) /\ zset' = zset /\ serverTime' = serverTime
        /\ Limiter!Cardinality(Limiter!InFlight) < MaxInFlight
    BY <1>1 DEF Limiter!Arrive
  <1>5. new \in R
    BY <1>1, <1>3 DEF Limiter!Request, Limiter!Route, RequestRecord
  <1>6. arrivals \in Seq(R) /\ RequestsOK
    BY <1>3 DEF LimiterInv, RequestsOK
  <1>7. /\ DOMAIN arrivals = 1..(n - 1) /\ n \in Nat \ {0} /\ arrivals' \in Seq(R)
        /\ DOMAIN arrivals' = 1..n /\ arrivals'[n] = new
        /\ \A r \in DOMAIN arrivals : arrivals'[r] = arrivals[r]
    BY <1>2, <1>4, <1>5, <1>6, AppendProperties
  <1>8. DOMAIN arrivals' = DOMAIN arrivals \cup {n} /\ n \notin DOMAIN arrivals
    BY <1>7
  <1>9. /\ new.route = route /\ new.step = "clock" /\ new.verdict = "checking"
        /\ new.asked = <<>> /\ new.decided = <<>>
    BY <1>1 DEF Limiter!Request
  <1>10. RequestsOK'
    <2>1. ASSUME NEW r \in DOMAIN arrivals'
          PROVE  LET q == arrivals'[r]
                 IN  /\ q.verdict = "checking" => Len(q.decided) < Limiter!Checks(q.route)
                     /\ q.verdict # "checking" => q.step = "clock" /\ q.decided # <<>>
                     /\ Len(q.decided) <= Limiter!Checks(q.route)
                     /\ Len(q.asked) = IF q.step = "clock" THEN Len(q.decided) ELSE Len(q.decided) + 1
                     /\ \A l \in DOMAIN q.asked : q.asked[l] <= serverTime'
      <3>1. CASE r = n
        <4>1. Limiter!Checks(route) \in Nat \ {0}
          BY LimitsFacts DEF Limiter!Route
        <4>2. arrivals'[r] = new /\ Len(new.decided) = 0 /\ Len(new.asked) = 0
              /\ DOMAIN new.asked = {}
          BY <1>7, <1>9, <3>1
        <4> QED
          BY <1>9, <4>1, <4>2
      <3>2. CASE r # n
        <4>1. r \in DOMAIN arrivals /\ arrivals'[r] = arrivals[r]
          BY <1>7, <1>8, <3>2
        <4> QED
          BY <1>4, <1>6, <4>1 DEF RequestsOK
      <3> QED
        BY <3>1, <3>2
    <2>2. arrivals' \in Seq(RequestRecord)
      BY <1>3, <1>7
    <2> QED
      BY <2>1, <2>2 DEF RequestsOK, Limiter!Checks, Limiter!Limits
  <1>11. SetsOK'
    <2>1. ASSUME NEW l \in DOMAIN Limiter!Limits, NEW m \in DOMAIN zset[l]
          PROVE  /\ m \in DOMAIN arrivals' /\ l \in DOMAIN arrivals'[m].asked
                 /\ zset[l][m] = arrivals'[m].asked[l]
      <3>1. m \in DOMAIN arrivals /\ l \in DOMAIN arrivals[m].asked
            /\ zset[l][m] = arrivals[m].asked[l]
        BY DEF LimiterInv, SetsOK
      <3> QED
        BY <1>7, <1>8, <3>1
    <2>2. zset = [l \in DOMAIN Limiter!Limits |-> zset[l]]
      BY DEF LimiterInv, SetsOK
    <2> QED
      BY <1>4, <2>1, <2>2 DEF SetsOK, Limiter!Limits
  <1>12. \A l : l \notin DOMAIN new.asked /\ l \notin DOMAIN new.decided
    BY <1>9
  <1>13. AddedStay'
    <2>1. ASSUME NEW l \in DOMAIN Limiter!Limits, NEW s \in AddedTo(l)',
                 arrivals'[s].asked[l] > serverTime - Limiter!Limits[l].window
          PROVE  s \in DOMAIN zset[l]
      <3>1. s \in DOMAIN arrivals' /\ l \in DOMAIN arrivals'[s].asked
        BY DEF AddedTo
      <3>2. s \in DOMAIN arrivals /\ arrivals'[s] = arrivals[s]
        BY <1>7, <1>8, <1>12, <3>1
      <3>3. s \in AddedTo(l)
        BY <3>2 DEF AddedTo
      <3> QED
        BY <2>1, <3>2, <3>3 DEF LimiterInv, AddedStay
    <2> QED
      BY <1>4, <2>1 DEF AddedStay, Limiter!Limits
  <1>14. ASSUME NEW l, NEW r \in DOMAIN arrivals
         PROVE  Limiter!Others(l, r)' = Limiter!Others(l, r)
    <2>1. ASSUME NEW s PROVE s \in Limiter!Others(l, r)' <=> s \in Limiter!Others(l, r)
      <3>1. CASE s \in DOMAIN arrivals
        BY <1>7, <1>8, <3>1 DEF Limiter!Others, Limiter!Limits
      <3>2. CASE s \notin DOMAIN arrivals
        BY <1>7, <1>8, <1>12, <3>2 DEF Limiter!Others
      <3> QED
        BY <3>1, <3>2
    <2> QED
      BY <2>1
  <1>15. CountedAreOthers'
    <2>1. ASSUME NEW r \in DOMAIN arrivals', arrivals'[r].step \in {"zadd", "zcount"}
          PROVE  (DOMAIN zset[Limiter!Current(r)] \ {r}
                    \subseteq Limiter!Others(Limiter!Current(r), r))'
      <3>1. r \in DOMAIN arrivals /\ arrivals'[r] = arrivals[r]
        BY <1>7, <1>8, <1>9, <2>1
      <3>2. PICK l : l = Limiter!Current(r)
        OBVIOUS
      <3>3. Limiter!Current(r)' = l
        BY <3>1, <3>2 DEF Limiter!Current
      <3>4. DOMAIN zset[l] \ {r} \subseteq Limiter!Others(l, r)
        BY <2>1, <3>1, <3>2 DEF LimiterInv, CountedAreOthers
      <3>5. DOMAIN zset[l] \ {r} \subseteq Limiter!Others(l, r)'
        BY <1>14, <3>1, <3>4
      <3> QED
        BY <1>4, <3>3, <3>5 DEF Limiter!Others
    <2> QED
      BY <2>1 DEF CountedAreOthers
  <1>16. Limiter!NeverOverLimit'
    <2>1. ASSUME NEW l \in DOMAIN Limiter!Limits
          PROVE  (Limiter!Cardinality({s \in Limiter!Passed(l) :
                    arrivals[s].asked[l] > serverTime - Limiter!Limits[l].window})
                      < Limiter!Limits[l].max)'
      <3>1. ASSUME NEW s \in Limiter!Passed(l)' PROVE s \in Limiter!Passed(l)
        <4>1. s \in DOMAIN arrivals' /\ l \in DOMAIN arrivals'[s].decided
          BY DEF Limiter!Passed
        <4>2. s \in DOMAIN arrivals /\ arrivals'[s] = arrivals[s]
          BY <1>7, <1>8, <1>12, <4>1
        <4> QED
          BY <4>2 DEF Limiter!Passed
      <3>2. \A s \in Limiter!Passed(l) : arrivals'[s].asked[l] = arrivals[s].asked[l]
        BY <1>7 DEF Limiter!Passed
      <3> QED
        BY <1>4, <3>1, <3>2, LimitStays
    <2> QED
      BY <2>1 DEF Limiter!NeverOverLimit, Limiter!Limits
  <1>17. Limiter!RefusalIsEarned'
    <2>1. ASSUME NEW s \in DOMAIN arrivals', arrivals'[s].verdict = "refused"
          PROVE  (Limiter!Cardinality(Limiter!Others(Limiter!Refuser(s), s))
                    >= Limiter!Limits[Limiter!Refuser(s)].max - 1)'
      <3>1. s \in DOMAIN arrivals /\ arrivals'[s] = arrivals[s]
        BY <1>7, <1>8, <1>9, <2>1
      <3>2. PICK l : l = Limiter!Refuser(s)
        OBVIOUS
      <3>3. Limiter!Refuser(s)' = l
        BY <3>1, <3>2 DEF Limiter!Refuser
      <3>4. Limiter!Cardinality(Limiter!Others(l, s)) >= Limiter!Limits[l].max - 1
        BY <2>1, <3>1, <3>2 DEF LimiterInv, Limiter!RefusalIsEarned
      <3>5. PICK S : S = Limiter!Others(l, s)
        OBVIOUS
      <3>6. Limiter!Others(l, s)' = S
        BY <1>14, <3>1, <3>5
      <3>7. (Limiter!Cardinality(Limiter!Others(Limiter!Refuser(s), s)))' = Limiter!Cardinality(S)
        BY <3>3, <3>6, LimiterLibrary DEF Limiter!Others
      <3> QED
        BY <3>3, <3>4, <3>5, <3>7 DEF Limiter!Limits
    <2> QED
      BY <2>1 DEF Limiter!RefusalIsEarned, Limiter!Limits
  <1>18. (Limiter!Cardinality(Limiter!InFlight) <= MaxInFlight)'
    <2>1. PICK S, T : S = Limiter!InFlight /\ T = Limiter!InFlight'
      OBVIOUS
    <2>2. T \subseteq S \cup {n}
      BY <1>7, <1>8, <2>1 DEF Limiter!InFlight
    <2>3. IsFiniteSet(S) /\ Cardinality(S) \in Nat
      BY <1>6, <2>1, RequestsFinite, FS_Subset, FS_CardinalityType DEF Limiter!InFlight
    <2>4. IsFiniteSet(S \cup {n}) /\ Cardinality(S \cup {n}) <= Cardinality(S) + 1
          /\ Cardinality(S \cup {n}) \in Nat
      BY <2>3, FS_AddElement, FS_CardinalityType
    <2>5. Cardinality(T) <= Cardinality(S \cup {n}) /\ Cardinality(T) \in Nat
      BY <2>2, <2>4, FS_Subset, FS_CardinalityType
    <2>6. Cardinality(S) < MaxInFlight /\ MaxInFlight \in Nat
      BY <1>4, <2>1, LimiterLibrary, LimiterConstants
    <2>7. Cardinality(T) <= MaxInFlight
      BY <2>3, <2>4, <2>5, <2>6
    <2>8. (Limiter!Cardinality(Limiter!InFlight))' = Cardinality(T)
      BY <2>1, LimiterLibrary
    <2> QED
      BY <2>7, <2>8
  <1>19. serverTime' \in 1..MaxServerTime
    BY <1>4 DEF LimiterInv
  <1> QED
    BY <1>10, <1>11, <1>13, <1>15, <1>16, <1>17, <1>18, <1>19 DEF LimiterInv

\* What does not depend on the clock.
LEMMA SameArrivals ==
    ASSUME LimiterInv, arrivals' = arrivals, zset' = zset
    PROVE  /\ SetsOK' /\ CountedAreOthers' /\ Limiter!RefusalIsEarned'
           /\ (Limiter!Cardinality(Limiter!InFlight) <= MaxInFlight)'
  <1>1. ASSUME NEW l, NEW r PROVE Limiter!Others(l, r)' = Limiter!Others(l, r)
    BY DEF Limiter!Others, Limiter!Limits
  <1>2. SetsOK'
    BY DEF LimiterInv, SetsOK, Limiter!Limits
  <1>3. ASSUME NEW r \in DOMAIN arrivals, arrivals[r].step \in {"zadd", "zcount"}
        PROVE  (DOMAIN zset[Limiter!Current(r)] \ {r}
                  \subseteq Limiter!Others(Limiter!Current(r), r))'
    <2>1. PICK l : l = Limiter!Current(r)
      OBVIOUS
    <2>2. Limiter!Current(r)' = l
      BY <2>1 DEF Limiter!Current
    <2>3. DOMAIN zset[l] \ {r} \subseteq Limiter!Others(l, r)
      BY <1>3, <2>1 DEF LimiterInv, CountedAreOthers
    <2>4. DOMAIN zset[l] \ {r} \subseteq Limiter!Others(l, r)'
      BY <1>1, <2>3
    <2> QED
      BY <2>2, <2>4 DEF Limiter!Others
  <1>4. ASSUME NEW s \in DOMAIN arrivals, arrivals[s].verdict = "refused"
        PROVE  (Limiter!Cardinality(Limiter!Others(Limiter!Refuser(s), s))
                  >= Limiter!Limits[Limiter!Refuser(s)].max - 1)'
    <2>1. PICK l : l = Limiter!Refuser(s)
      OBVIOUS
    <2>2. Limiter!Refuser(s)' = l
      BY <2>1 DEF Limiter!Refuser
    <2>3. Limiter!Cardinality(Limiter!Others(l, s)) >= Limiter!Limits[l].max - 1
      BY <1>4, <2>1 DEF LimiterInv, Limiter!RefusalIsEarned
    <2>4. PICK S : S = Limiter!Others(l, s)
      OBVIOUS
    <2>5. Limiter!Others(l, s)' = S
      BY <1>1, <2>4
    <2>6. (Limiter!Cardinality(Limiter!Others(Limiter!Refuser(s), s)))' = Limiter!Cardinality(S)
      BY <2>2, <2>5, LimiterLibrary DEF Limiter!Others
    <2> QED
      BY <2>2, <2>3, <2>4, <2>6 DEF Limiter!Limits
  <1>5. (Limiter!Cardinality(Limiter!InFlight) <= MaxInFlight)'
    BY DEF LimiterInv, Limiter!InFlight, Limiter!Cardinality
  <1>6. CountedAreOthers'
    BY <1>3 DEF CountedAreOthers
  <1>7. Limiter!RefusalIsEarned'
    BY <1>4 DEF Limiter!RefusalIsEarned, Limiter!Limits
  <1> QED
    BY <1>2, <1>5, <1>6, <1>7

LEMMA LimiterTickKeepsInv ==
    ASSUME LimiterInv, Limiter!Tick
    PROVE  LimiterInv'
  <1>1. serverTime' = serverTime + 1 /\ arrivals' = arrivals /\ zset' = zset
        /\ serverTime < MaxServerTime
    BY DEF Limiter!Tick
  <1>2. serverTime \in 1..MaxServerTime /\ MaxServerTime \in Nat /\ RequestsOK
    BY LimiterConstants DEF LimiterInv
  <1>3. serverTime' \in 1..MaxServerTime
    BY <1>1, <1>2
  <1>4. RequestsOK'
    <2>1. ASSUME NEW r \in DOMAIN arrivals, NEW l \in DOMAIN arrivals[r].asked
          PROVE  arrivals[r].asked[l] <= serverTime'
      <3>1. arrivals[r].asked[l] <= serverTime /\ arrivals[r].asked \in Seq(Nat)
            /\ DOMAIN arrivals[r].asked = 1..Len(arrivals[r].asked)
        BY <1>2, RequestFields DEF RequestsOK
      <3>2. arrivals[r].asked[l] \in Nat
        BY <3>1, ElementOfSeq
      <3> QED
        BY <1>1, <1>2, <3>1, <3>2
    <2> QED
      BY <1>1, <1>2, <2>1 DEF RequestsOK, Limiter!Checks, Limiter!Limits
  <1>5. SetsOK' /\ CountedAreOthers'
    BY <1>1, SameArrivals
  <1>6. ASSUME NEW l \in DOMAIN Limiter!Limits, NEW r \in DOMAIN arrivals,
               l \in DOMAIN arrivals[r].asked,
               arrivals[r].asked[l] > serverTime' - Limiter!Limits[l].window
        PROVE  arrivals[r].asked[l] > serverTime - Limiter!Limits[l].window
    <2>1. arrivals[r].asked \in Seq(Nat) /\ DOMAIN arrivals[r].asked = 1..Len(arrivals[r].asked)
      BY <1>2, RequestFields
    <2>2. arrivals[r].asked[l] \in Nat /\ Limiter!Limits[l].window \in Nat
      BY <1>6, <2>1, ElementOfSeq, LimitsFacts
    <2> QED
      BY <1>1, <1>2, <1>6, <2>2
  <1>7. AddedStay'
    <2>1. ASSUME NEW l \in DOMAIN Limiter!Limits, NEW s \in AddedTo(l)',
                 arrivals[s].asked[l] > serverTime' - Limiter!Limits[l].window
          PROVE  s \in DOMAIN zset[l]
      <3>1. s \in AddedTo(l) /\ s \in DOMAIN arrivals /\ l \in DOMAIN arrivals[s].asked
        BY <1>1 DEF AddedTo
      <3> QED
        BY <1>6, <2>1, <3>1 DEF LimiterInv, AddedStay
    <2> QED
      BY <1>1, <2>1 DEF AddedStay, Limiter!Limits
  <1>8. Limiter!NeverOverLimit'
    <2>1. ASSUME NEW l \in DOMAIN Limiter!Limits
          PROVE  (Limiter!Cardinality({s \in Limiter!Passed(l) :
                    arrivals[s].asked[l] > serverTime - Limiter!Limits[l].window})
                      < Limiter!Limits[l].max)'
      <3> DEFINE P == {s \in Limiter!Passed(l) :
                         arrivals[s].asked[l] > serverTime - Limiter!Limits[l].window}
      <3>1. ASSUME NEW s \in P' PROVE s \in P
        <4>1. s \in Limiter!Passed(l)
              /\ arrivals[s].asked[l] > serverTime' - Limiter!Limits[l].window
          BY <1>1 DEF Limiter!Passed, Limiter!Limits
        <4>2. s \in DOMAIN arrivals /\ l \in DOMAIN arrivals[s].decided
          BY <4>1 DEF Limiter!Passed
        <4>3. l \in DOMAIN arrivals[s].asked
          BY <1>2, <4>2, RequestFields
        <4> QED
          BY <1>6, <4>1, <4>2, <4>3
      <3>2. P \subseteq DOMAIN arrivals
        BY DEF Limiter!Passed
      <3>3. Limiter!Cardinality(P) < Limiter!Limits[l].max
        BY DEF LimiterInv, Limiter!NeverOverLimit
      <3>4. PICK S, T : S = P /\ T = P'
        OBVIOUS
      <3> HIDE DEF P
      <3>5. IsFiniteSet(S) /\ T \subseteq S
        BY <1>2, <3>1, <3>2, <3>4, RequestsFinite, FS_Subset
      <3>6. Cardinality(T) <= Cardinality(S) /\ Cardinality(T) \in Nat /\ Cardinality(S) \in Nat
        BY <3>5, FS_Subset, FS_CardinalityType
      <3>7. Cardinality(S) < Limiter!Limits[l].max /\ Limiter!Limits[l].max \in Nat
        BY <3>3, <3>4, LimiterLibrary, LimitsFacts
      <3>8. Cardinality(T) < Limiter!Limits[l].max
        BY <3>6, <3>7
      <3>9. (Limiter!Cardinality(P))' = Cardinality(T)
        BY <3>4, LimiterLibrary
      <3> QED
        BY <3>8, <3>9 DEF P, Limiter!Limits
    <2> QED
      BY <2>1 DEF Limiter!NeverOverLimit, Limiter!Limits
  <1>9. Limiter!RefusalIsEarned'
    BY <1>1, SameArrivals
  <1>10. (Limiter!Cardinality(Limiter!InFlight) <= MaxInFlight)'
    BY <1>1, SameArrivals
  <1> QED
    BY <1>3, <1>4, <1>5, <1>7, <1>8, <1>9, <1>10 DEF LimiterInv

LEMMA LimiterStutter ==
    ASSUME LimiterInv, UNCHANGED rateVars
    PROVE  LimiterInv'
  <1>1. arrivals' = arrivals /\ zset' = zset /\ serverTime' = serverTime
    BY DEF rateVars
  <1>2. SetsOK' /\ CountedAreOthers' /\ Limiter!RefusalIsEarned'
        /\ (Limiter!Cardinality(Limiter!InFlight) <= MaxInFlight)'
    BY <1>1, SameArrivals
  <1>3. serverTime' \in 1..MaxServerTime /\ RequestsOK' /\ AddedStay'
    BY <1>1 DEF LimiterInv, RequestsOK, AddedStay, AddedTo, Limiter!Checks, Limiter!Limits
  <1>4. ASSUME NEW l \in DOMAIN Limiter!Limits
        PROVE  (Limiter!Cardinality({s \in Limiter!Passed(l) :
                  arrivals[s].asked[l] > serverTime - Limiter!Limits[l].window})
                    < Limiter!Limits[l].max)'
    <2>1. Limiter!Passed(l)' \subseteq Limiter!Passed(l)
      BY <1>1 DEF Limiter!Passed
    <2> QED
      BY <1>1, <2>1, LimitStays
  <1>5. Limiter!NeverOverLimit'
    BY <1>4 DEF Limiter!NeverOverLimit, Limiter!Limits
  <1> QED
    BY <1>2, <1>3, <1>5 DEF LimiterInv

LEMMA LimiterStarts == ASSUME Limiter!Init PROVE LimiterInv
  <1>1. serverTime = 1 /\ arrivals = <<>> /\ zset = [l \in DOMAIN Limiter!Limits |-> <<>>]
    BY DEF Limiter!Init
  <1>2. DOMAIN arrivals = {} /\ arrivals \in Seq(RequestRecord)
    <2>1. PICK R : R = RequestRecord
      OBVIOUS
    <2>2. arrivals \in Seq(R) /\ DOMAIN arrivals = {}
      BY <1>1
    <2> QED
      BY <2>1, <2>2
  <1>3. RequestsOK /\ AddedStay /\ CountedAreOthers /\ Limiter!RefusalIsEarned
    BY <1>2 DEF RequestsOK, AddedStay, AddedTo, CountedAreOthers, Limiter!RefusalIsEarned
  <1>4. SetsOK
    BY <1>1 DEF SetsOK
  <1>5. ASSUME NEW l \in DOMAIN Limiter!Limits
        PROVE  Limiter!Cardinality({s \in Limiter!Passed(l) :
                 arrivals[s].asked[l] > serverTime - Limiter!Limits[l].window})
                   < Limiter!Limits[l].max
    <2>3. PICK S : S = {s \in Limiter!Passed(l) :
                          arrivals[s].asked[l] > serverTime - Limiter!Limits[l].window}
      OBVIOUS
    <2>1. S = {}
      BY <1>2, <2>3 DEF Limiter!Passed
    <2>2. Limiter!Limits[l].max \in Nat \ {0} /\ Limiter!Cardinality(S) = 0
      BY <2>1, LimitsFacts, LimiterLibrary, FS_EmptySet
    <2> QED
      BY <2>2, <2>3
  <1>6. Limiter!Cardinality(Limiter!InFlight) <= MaxInFlight
    <2>1. Limiter!InFlight = {}
      BY <1>2 DEF Limiter!InFlight
    <2>2. Limiter!Cardinality({}) = 0 /\ MaxInFlight \in Nat
      BY LimiterLibrary, FS_EmptySet, LimiterConstants
    <2> QED
      BY <2>1, <2>2
  <1>7. serverTime \in 1..MaxServerTime
    BY <1>1, LimiterConstants
  <1> QED
    BY <1>3, <1>4, <1>5, <1>6, <1>7 DEF LimiterInv, Limiter!NeverOverLimit

LEMMA LimiterStepKeepsInv == ASSUME LimiterInv, [ExampleNext]_exampleVars PROVE LimiterInv'
  <1>1. CASE UNCHANGED rateVars
    BY <1>1, LimiterStutter
  <1>2. CASE Limiter!Next
    <2>1. CASE \E route \in Limiter!Route : Limiter!Arrive(route)
      BY <2>1, ArriveKeepsInv
    <2>2. CASE Limiter!Tick
      BY <2>2, LimiterTickKeepsInv
    <2>3. ASSUME NEW r \in Limiter!InFlight, Limiter!Available(r) PROVE LimiterInv'
      BY <2>3, ReadClockKeepsInv, ZRemKeepsInv, ZAddKeepsInv, ZCountKeepsInv, FailKeepsInv
         DEF Limiter!Available
    <2> QED
      BY <1>2, <2>1, <2>2, <2>3 DEF Limiter!Next
  <1> QED
    BY <1>1, <1>2 DEF ExampleNext, CandleStep, CopyStep, TradeStep, AccountStep, LimiterStep,
                      PoolStep, exampleVars

LEMMA LimitsFollow == ASSUME LimiterInv PROVE LimitsHold
  <1>1. RequestsOK /\ SetsOK
    BY DEF LimiterInv
  <1>2. ASSUME NEW r \in DOMAIN arrivals
        PROVE  /\ arrivals[r].verdict \in {"checking", "served", "refused"}
               /\ Len(arrivals[r].decided) <= Limiter!Checks(arrivals[r].route)
               /\ Len(arrivals[r].asked) = IF arrivals[r].step = "clock"
                                           THEN Len(arrivals[r].decided)
                                           ELSE Len(arrivals[r].decided) + 1
    <2>1. /\ arrivals[r].verdict \in {"checking", "served", "refused"}
          /\ Len(arrivals[r].decided) <= Limiter!Checks(arrivals[r].route)
          /\ Len(arrivals[r].decided) \in Nat
          /\ arrivals[r].step = "clock" => Len(arrivals[r].asked) = Len(arrivals[r].decided)
          /\ arrivals[r].step # "clock" => Len(arrivals[r].asked) = Len(arrivals[r].decided) + 1
      BY <1>1, RequestFields
    <2> QED
      BY <2>1
  <1>3. Limiter!TypeOK
    BY <1>1, <1>2 DEF Limiter!TypeOK, LimiterInv, SetsOK
  <1> QED
    BY <1>3 DEF LimitsHold, LimiterInv

\* The inductive invariant of the limiter.
THEOREM LimiterInvariance == ExampleSpec => []LimiterInv
  <1>1. ASSUME ExampleInit PROVE LimiterInv
    BY <1>1, LimiterStarts DEF ExampleInit
  <1>2. ASSUME LimiterInv, [ExampleNext]_exampleVars PROVE LimiterInv'
    BY <1>2, LimiterStepKeepsInv
  <1> QED
    BY <1>1, <1>2, PTL DEF ExampleSpec

\* For any sequences of limits, numbers of requests and interleavings of their pipelines,
\* a limit lets fewer than max requests pass within one window, and refuses a request only
\* when at least max - 1 others are within its window (Available in durable/limiter.go).
THEOREM LimitsAreHeld == ExampleSpec => []LimitsHold
  <1>1. LimiterInv => LimitsHold
    BY LimitsFollow
  <1> QED
    BY <1>1, LimiterInvariance, PTL

-----------------------------------------------------------------------------
(* TradeHistory.                                                           *)

LEMMA HistoryConstants ==
    /\ MaxShown \in Nat \ {0} /\ PageSize \in Nat \ {0} /\ MaxShown <= PageSize
    /\ MaxTrades \in Nat /\ MaxSkew \in Nat
  BY HistoryAssumption DEF Trades!HistoryAssumption

\* Every non-empty set of numbers has a least one.
LEMMA LeastNatural ==
    ASSUME NEW T, T \subseteq Nat, T # {}
    PROVE  \E x \in T : \A y \in T : x <= y
  <1>1. \E R : IsWellFoundedOn(R, Nat) /\ \A x, y \in Nat : y < x => <<y, x>> \in R
    <2>1. \A x, y \in Nat : y < x => <<y, x>> \in OpToRel(<, Nat)
      BY DEF OpToRel
    <2> WITNESS OpToRel(<, Nat)
    <2> QED
      BY <2>1, NatLessThanWellFounded
  <1>2. PICK R : IsWellFoundedOn(R, Nat) /\ \A x, y \in Nat : y < x => <<y, x>> \in R
    BY <1>1
  <1>3. PICK x \in T : \A y \in T : ~ (<<y, x>> \in R)
    BY <1>2, WFMin
  <1>4. ASSUME NEW y \in T PROVE x <= y
    <2>1. x \in Nat /\ y \in Nat
      OBVIOUS
    <2>2. ~ (y < x)
      BY <1>2, <1>3, <2>1
    <2> QED
      BY <2>1, <2>2
  <1> QED
    BY <1>4

\* The last member of a set of places.
LEMMA LastPlace ==
    ASSUME NEW k \in Nat, NEW u \in SUBSET (1..k), u # {}
    PROVE  Trades!Max(u) \in u /\ \A x \in u : Trades!Max(u) >= x
  <1> DEFINE Rest == {k - x : x \in u}
  <1>1. Rest \in SUBSET Nat /\ Rest # {}
    <2>1. \A x \in u : k - x \in Nat
      OBVIOUS
    <2> QED
      BY <2>1
  <1>2. PICK m \in Rest : \A l \in Rest : m <= l
    <2> HIDE DEF Rest
    <2> QED
      BY <1>1, LeastNatural
  <1>3. PICK x \in u : m = k - x
    BY <1>2
  <1>4. \A y \in u : x >= y
    BY <1>2, <1>3
  <1> QED
    BY <1>3, <1>4 DEF Trades!Max

\* What FoldLeft makes of the trades s from the items h, for every set of places.
Sweeps(g, h, s, k) ==
    g = [u \in SUBSET (1..k) |->
           IF u = {} THEN h
           ELSE Trades!AddTradeEntry(g[u \ {Trades!Max(u)}], s[Trades!Max(u)])]

LEMMA SweepsMore ==
    ASSUME NEW k \in Nat, NEW h, NEW s, NEW g, Sweeps(g, h, s, k)
    PROVE  \E e : Sweeps(e, h, s, k + 1)
  <1> DEFINE e == [u \in SUBSET (1..(k + 1)) |->
                     IF k + 1 \in u THEN Trades!AddTradeEntry(g[u \ {k + 1}], s[k + 1]) ELSE g[u]]
  <1>1. ASSUME NEW u \in SUBSET (1..(k + 1))
        PROVE  e[u] = IF u = {} THEN h
                      ELSE Trades!AddTradeEntry(e[u \ {Trades!Max(u)}], s[Trades!Max(u)])
    <2>1. CASE k + 1 \in u
      <3>1. Trades!Max(u) \in u /\ Trades!Max(u) >= k + 1
        <4>1. k + 1 \in Nat /\ u # {}
          BY <2>1
        <4>2. Trades!Max(u) \in u /\ \A x \in u : Trades!Max(u) >= x
          BY ONLY <4>1, u \in SUBSET (1..(k + 1)), LastPlace
        <4> QED
          BY <2>1, <4>2
      <3>2. Trades!Max(u) = k + 1
        <4>1. PICK m \in 1..(k + 1) : m = Trades!Max(u)
          BY <3>1
        <4> QED
          BY <3>1, <4>1
      <3>3. u \ {k + 1} \in SUBSET (1..(k + 1)) /\ k + 1 \notin u \ {k + 1}
        OBVIOUS
      <3>4. e[u \ {k + 1}] = g[u \ {k + 1}]
        BY <3>3
      <3>5. e[u] = Trades!AddTradeEntry(g[u \ {k + 1}], s[k + 1])
        BY <2>1
      <3> QED
        BY <2>1, <3>2, <3>4, <3>5
    <2>2. CASE k + 1 \notin u
      <3>1. u \in SUBSET (1..k)
        BY <2>2
      <3>2. e[u] = g[u]
        BY <2>2
      <3>3. CASE u = {}
        BY <3>1, <3>2, <3>3 DEF Sweeps
      <3>4. CASE u # {}
        <4>1. Trades!Max(u) \in u
          BY <3>1, <3>4, LastPlace
        <4>2. e[u \ {Trades!Max(u)}] = g[u \ {Trades!Max(u)}]
          BY <2>2, <3>1
        <4>3. g[u] = Trades!AddTradeEntry(g[u \ {Trades!Max(u)}], s[Trades!Max(u)])
          BY <3>1, <3>4 DEF Sweeps
        <4> QED
          BY <3>2, <3>4, <4>2, <4>3
      <3> QED
        BY <3>3, <3>4
    <2> QED
      BY <2>1, <2>2
  <1>2. e = [u \in SUBSET (1..(k + 1)) |-> e[u]]
    OBVIOUS
  <1> HIDE DEF e
  <1>3. Sweeps(e, h, s, k + 1)
    BY <1>1, <1>2 DEF Sweeps
  <1> QED
    BY <1>3

LEMMA SweepExists ==
    ASSUME NEW n \in Nat, NEW h, NEW s
    PROVE  \E g : Sweeps(g, h, s, n)
  <1> DEFINE Bad == {k \in Nat : ~ \E g : Sweeps(g, h, s, k)}
  <1> SUFFICES ASSUME Bad # {} PROVE FALSE
    OBVIOUS
  <1>1. Bad \in SUBSET Nat
    OBVIOUS
  <1>2. PICK k \in Bad : \A l \in Bad : k <= l
    <2> HIDE DEF Bad
    <2> QED
      BY <1>1, LeastNatural
  <1>3. k # 0
    <2>1. Sweeps([u \in SUBSET (1..0) |-> h], h, s, 0)
      <3>1. SUBSET (1..0) = {{}}
        OBVIOUS
      <3> QED
        BY <3>1 DEF Sweeps
    <2> QED
      BY <2>1
  <1>4. k - 1 \in Nat /\ k - 1 \notin Bad /\ (k - 1) + 1 = k
    BY <1>2, <1>3
  <1>5. \E g : Sweeps(g, h, s, k - 1)
    BY <1>4
  <1> QED
    BY <1>2, <1>4, <1>5, SweepsMore

\* The loop of fetchTrades, trade by trade.
LoopOver(h, s) == Trades!FoldLeft(Trades!AddTradeEntry, h, s)

Unrolls(f, h, s, k) ==
    /\ f[0] = h /\ f[k] = LoopOver(h, s)
    /\ \A j \in 1..k : f[j] = Trades!AddTradeEntry(f[j - 1], s[j])

LEMMA FoldSteps ==
    ASSUME NEW h, NEW k \in Nat, NEW s, DOMAIN s = 1..k
    PROVE  \E f : Unrolls(f, h, s, k)
  <1> DEFINE g == CHOOSE iter : iter = [u \in SUBSET (1..k) |->
                     IF u = {} THEN h
                     ELSE Trades!AddTradeEntry(iter[u \ {Trades!Max(u)}], s[Trades!Max(u)])]
  <1>1. Sweeps(g, h, s, k)
    <2>1. \E iter : iter = [u \in SUBSET (1..k) |->
                     IF u = {} THEN h
                     ELSE Trades!AddTradeEntry(iter[u \ {Trades!Max(u)}], s[Trades!Max(u)])]
      <3>1. PICK e : Sweeps(e, h, s, k)
        BY SweepExists
      <3> WITNESS e
      <3> QED
        BY <3>1 DEF Sweeps
    <2> QED
      BY <2>1 DEF Sweeps
  <1>2. LoopOver(h, s) = g[1..k]
    BY DEF LoopOver, Trades!FoldLeft, Trades!MapThenFoldSet
  <1> HIDE DEF g
  <1> DEFINE f == [j \in 0..k |-> g[1..j]]
  <1>3. f[0] = h
    <2>1. 1..0 = {} /\ {} \in SUBSET (1..k)
      OBVIOUS
    <2> QED
      BY <1>1, <2>1 DEF Sweeps
  <1>4. ASSUME NEW j \in 1..k PROVE f[j] = Trades!AddTradeEntry(f[j - 1], s[j])
    <2>1. 1..j \in SUBSET (1..k) /\ j \in 1..j
      OBVIOUS
    <2>2. Trades!Max(1..j) = j
      <3>1. Trades!Max(1..j) \in 1..j /\ Trades!Max(1..j) >= j
        BY <2>1, LastPlace
      <3> QED
        BY <3>1
    <2>3. (1..j) \ {j} = 1..(j - 1)
      OBVIOUS
    <2>4. g[1..j] = Trades!AddTradeEntry(g[1..(j - 1)], s[j])
      BY <1>1, <2>1, <2>2, <2>3 DEF Sweeps
    <2> QED
      BY <2>4
  <1>5. f[k] = g[1..k]
    OBVIOUS
  <1> HIDE DEF f
  <1>6. Unrolls(f, h, s, k)
    BY ONLY <1>2, <1>3, <1>4, <1>5 DEF Unrolls
  <1> QED
    BY <1>6

-----------------------------------------------------------------------------
(* What a trade and an answer make of the items.                           *)

\* Items as they may be on the page.
Items(h) ==
    /\ h \in Seq([id : Nat, time : Nat]) /\ Len(h) <= MaxShown
    /\ \A i \in DOMAIN h : h[i].id >= 1 /\ h[i].time \in {2 * h[i].id, 2 * h[i].id + 1}
    /\ \A i, j \in DOMAIN h : i < j => h[i].id > h[j].id

LEMMA ItemFacts ==
    ASSUME NEW h, Items(h)
    PROVE  /\ Len(h) \in Nat /\ DOMAIN h = 1..Len(h) /\ Len(h) <= MaxShown
           /\ (h = <<>> <=> Len(h) = 0)
           /\ \A i \in 1..Len(h) : h[i] \in [id : Nat, time : Nat] /\ h[i].id \in Nat \ {0}
           /\ \A i \in 1..Len(h) : h[i].id <= h[1].id /\ h[Len(h)].id <= h[i].id
  <1>1. PICK R : R = [id : Nat, time : Nat]
    OBVIOUS
  <1>2. h \in Seq(R)
    BY <1>1 DEF Items
  <1>3. Len(h) \in Nat /\ DOMAIN h = 1..Len(h) /\ (h = <<>> <=> Len(h) = 0)
    BY <1>2
  <1>4. \A i \in 1..Len(h) : h[i] \in R
    BY <1>2
  <1>5. \A i \in 1..Len(h) : h[i].id \in Nat \ {0}
    <2>1. \A x \in R : x.id \in Nat
      BY <1>1
    <2>2. \A i \in 1..Len(h) : h[i].id >= 1
      BY <1>3 DEF Items
    <2> QED
      BY <1>4, <2>1, <2>2
  <1>6. ASSUME NEW i \in 1..Len(h) PROVE h[i].id <= h[1].id /\ h[Len(h)].id <= h[i].id
    <2>1. 1 \in 1..Len(h) /\ Len(h) \in 1..Len(h)
      BY <1>3
    <2>2. \A a, b \in 1..Len(h) : a < b => h[a].id > h[b].id
      BY <1>3 DEF Items
    <2>3. i = 1 \/ 1 < i
      BY <1>3
    <2>4. i = Len(h) \/ i < Len(h)
      <3>1. PICK n \in Nat : n = Len(h)
        BY <1>3
      <3>2. i \in 1..n
        BY <3>1
      <3>3. i = n \/ i < n
        BY <3>2
      <3> QED
        BY <3>1, <3>3
    <2>5. h[i].id <= h[1].id
      <3>1. CASE i = 1
        BY <1>5, <3>1
      <3>2. CASE 1 < i
        BY <1>5, <2>1, <2>2, <3>2
      <3> QED
        BY <2>3, <3>1, <3>2
    <2>6. h[Len(h)].id <= h[i].id
      <3>1. CASE i = Len(h)
        BY <1>5, <3>1
      <3>2. CASE i < Len(h)
        BY <1>5, <2>1, <2>2, <3>2
      <3> QED
        BY <2>4, <3>1, <3>2
    <2> QED
      BY <2>5, <2>6
  <1>7. Len(h) <= MaxShown
    BY DEF Items
  <1> QED
    BY <1>1, <1>3, <1>4, <1>5, <1>6, <1>7

\* A trade that is newer than the top item goes on top, another one changes nothing.
LEMMA OnTop ==
    ASSUME NEW h, Items(h), NEW o \in [id : Nat, time : Nat], o.id >= 1,
           o.time \in {2 * o.id, 2 * o.id + 1}
    PROVE  LET g == Trades!AddTradeEntry(h, o)
           IN  /\ Items(g)
               /\ h # <<>> /\ h[1].id > o.id => g = h
               /\ h # <<>> /\ h[1].id = o.id => g = h
               /\ h = <<>> \/ h[1].id < o.id =>
                    /\ Len(g) = IF Len(h) < MaxShown THEN Len(h) + 1 ELSE MaxShown
                    /\ \A i \in 1..Len(g) : g[i] = IF i = 1 THEN o ELSE h[i - 1]
  <1> DEFINE g == Trades!AddTradeEntry(h, o)
  <1>1. /\ Len(h) \in Nat /\ DOMAIN h = 1..Len(h) /\ Len(h) <= MaxShown
        /\ (h = <<>> <=> Len(h) = 0)
        /\ \A i \in 1..Len(h) : h[i] \in [id : Nat, time : Nat] /\ h[i].id \in Nat \ {0}
        /\ \A i \in 1..Len(h) : h[i].id <= h[1].id
    BY ItemFacts
  <1>2. MaxShown \in Nat \ {0}
    BY HistoryConstants
  <1>3. o.id \in Nat /\ o.time \in Nat
    OBVIOUS
  <1>4. h # <<>> => h[1].id \in Nat /\ h[1].time \in {2 * h[1].id, 2 * h[1].id + 1}
    <2>1. h # <<>> => 1 \in 1..Len(h)
      BY <1>1
    <2> QED
      BY <1>1, <2>1 DEF Items
  <1>5. CASE h # <<>> /\ h[1].id >= o.id
    <2>1. o.id \in Trades!Ids(h) \/ Trades!Stale(h, o)
      <3>1. CASE h[1].id = o.id
        <4>1. 1 \in DOMAIN h
          BY <1>1, <1>5
        <4> QED
          BY <3>1, <4>1 DEF Trades!Ids
      <3>2. CASE h[1].id > o.id
        <4>1. PICK m \in Nat : m = h[1].id
          BY <1>4, <1>5
        <4>2. PICK n \in Nat : n = o.id
          BY <1>3
        <4>3. PICK x : x = h[1].time
          OBVIOUS
        <4>4. PICK y : y = o.time
          OBVIOUS
        <4>5. x \in {2 * m, 2 * m + 1} /\ y \in {2 * n, 2 * n + 1} /\ m > n
          BY <1>4, <1>5, <3>2, <4>1, <4>2, <4>3, <4>4
        <4>6. x > y
          BY <4>5
        <4> QED
          BY <1>5, <4>3, <4>4, <4>6 DEF Trades!Stale
      <3> QED
        BY <1>3, <1>4, <1>5, <3>1, <3>2
    <2>2. g = h
      BY <2>1 DEF Trades!AddTradeEntry
    <2>3. ~ (h = <<>> \/ h[1].id < o.id)
      BY <1>3, <1>4, <1>5
    <2> QED
      BY <2>2, <2>3
  <1>6. CASE h = <<>> \/ h[1].id < o.id
    <2>1. \A i \in 1..Len(h) : h[i].id < o.id
      <3> SUFFICES ASSUME NEW i \in 1..Len(h) PROVE h[i].id < o.id
        OBVIOUS
      <3>1. h # <<>> /\ 1 \in 1..Len(h)
        BY <1>1
      <3> QED
        BY <1>1, <1>3, <1>6, <3>1
    <2>2. o.id \notin Trades!Ids(h)
      BY <1>1, <1>3, <2>1 DEF Trades!Ids
    <2>3. ~ Trades!Stale(h, o)
      <3> SUFFICES ASSUME h # <<>> PROVE ~ (h[1].time > o.time)
        BY DEF Trades!Stale
      <3>1. PICK m \in Nat : m = h[1].id
        BY <1>4
      <3>2. PICK n \in Nat : n = o.id
        BY <1>3
      <3>3. PICK x : x = h[1].time
        OBVIOUS
      <3>4. PICK y : y = o.time
        OBVIOUS
      <3>5. x \in {2 * m, 2 * m + 1} /\ y \in {2 * n, 2 * n + 1} /\ m < n
        BY <1>4, <1>6, <3>1, <3>2, <3>3, <3>4
      <3>6. ~ (x > y)
        BY <3>5
      <3> QED
        BY <3>3, <3>4, <3>6
    <2>4. g = Trades!Kept(<<o>> \o h)
      BY <2>2, <2>3 DEF Trades!AddTradeEntry
    <2>5. PICK R : R = [id : Nat, time : Nat]
      OBVIOUS
    <2>6. PICK e : e = <<o>> \o h
      OBVIOUS
    <2>7. PICK n \in Nat : n = Len(h)
      BY <1>1
    <2>8. h \in Seq(R) /\ <<o>> \in Seq(R) /\ o \in R
      BY <2>5 DEF Items
    <2>9. /\ e \in Seq(R) /\ Len(e) = n + 1 /\ DOMAIN e = 1..(n + 1)
          /\ \A i \in 1..(n + 1) : e[i] = IF i = 1 THEN o ELSE h[i - 1]
      BY <2>6, <2>7, <2>8
    <2>10. PICK l \in Nat \ {0} : l = IF n < MaxShown THEN n + 1 ELSE MaxShown
      BY <1>2
    <2>11. l <= n + 1 /\ l <= MaxShown
      BY <1>1, <1>2, <2>7, <2>10
    <2>12. g \in Seq(R) /\ Len(g) = l /\ DOMAIN g = 1..l /\ \A i \in 1..l : g[i] = e[i]
      <3>1. CASE n + 1 > MaxShown
        <4>1. g = SubSeq(e, 1, MaxShown) /\ l = MaxShown
          BY <1>1, <1>2, <2>4, <2>6, <2>7, <2>9, <2>10, <3>1 DEF Trades!Kept
        <4> QED
          BY <1>2, <2>9, <2>11, <4>1
      <3>2. CASE ~ (n + 1 > MaxShown)
        <4>1. g = e /\ l = n + 1
          BY <1>1, <1>2, <2>4, <2>6, <2>7, <2>9, <2>10, <3>2 DEF Trades!Kept
        <4> QED
          BY <2>9, <4>1
      <3> QED
        BY <3>1, <3>2
    <2> HIDE DEF g
    <2>13. \A i \in 1..l : g[i] = IF i = 1 THEN o ELSE h[i - 1]
      BY <2>9, <2>11, <2>12
    <2>14. \A i \in 2..l : i - 1 \in 1..n
      BY <2>11
    <2>15. Items(g)
      <3>1. ASSUME NEW i \in 1..l
            PROVE  g[i].id >= 1 /\ g[i].time \in {2 * g[i].id, 2 * g[i].id + 1} /\ g[i].id <= o.id
        <4>1. CASE i = 1
          BY <1>3, <2>13, <4>1
        <4>2. CASE i # 1
          <5>1. i - 1 \in 1..n /\ g[i] = h[i - 1]
            BY <2>13, <2>14, <4>2
          <5>2. PICK m \in 1..n : m = i - 1
            BY <5>1
          <5>3. h[m].id >= 1 /\ h[m].time \in {2 * h[m].id, 2 * h[m].id + 1}
            BY <1>1, <2>7 DEF Items
          <5>4. h[m].id < o.id /\ h[m].id \in Nat
            BY <1>1, <2>1, <2>7
          <5> QED
            BY <1>3, <5>1, <5>2, <5>3, <5>4
        <4> QED
          BY <4>1, <4>2
      <3>2. ASSUME NEW i \in 1..l, NEW j \in 1..l, i < j PROVE g[i].id > g[j].id
        <4>1. j - 1 \in 1..n /\ g[j] = h[j - 1]
          BY <2>13, <2>14, <3>2
        <4>2. CASE i = 1
          BY <1>3, <2>1, <2>7, <2>13, <4>1, <4>2
        <4>3. CASE i # 1
          <5>1. i - 1 \in 1..n /\ g[i] = h[i - 1] /\ i - 1 < j - 1
            BY <2>13, <2>14, <3>2, <4>3
          <5>2. \A a, b \in 1..n : a < b => h[a].id > h[b].id
            BY <1>1, <2>7 DEF Items
          <5> QED
            BY <4>1, <5>1, <5>2
        <4> QED
          BY <4>2, <4>3
      <3> QED
        BY <2>5, <2>11, <2>12, <3>1, <3>2 DEF Items
    <2>16. h # <<>> => ~ (h[1].id > o.id) /\ ~ (h[1].id = o.id)
      BY <1>3, <1>4, <1>6
    <2>17. Len(g) = IF Len(h) < MaxShown THEN Len(h) + 1 ELSE MaxShown
      BY <2>7, <2>10, <2>12
    <2>18. \A i \in 1..Len(g) : g[i] = IF i = 1 THEN o ELSE h[i - 1]
      BY <2>12, <2>13
    <2> QED
      BY <2>15, <2>16, <2>17, <2>18 DEF g
  <1> QED
    BY <1>3, <1>4, <1>5, <1>6

\* What an answer with the rows a, a + 1, ... makes of the items h after j of them: those
\* that are newer than t are on top of h, and the oldest items give way.
Newer(a, t, j) == IF a - 1 + j > t THEN a - 1 + j - t ELSE 0
Gives(h, a, t, j, g) ==
    /\ Items(g)
    /\ Len(g) = IF Len(h) + Newer(a, t, j) < MaxShown THEN Len(h) + Newer(a, t, j) ELSE MaxShown
    /\ \A i \in 1..Len(g) : g[i] = IF i <= Newer(a, t, j) THEN Trades!Row(a + j - i)
                                   ELSE h[i - Newer(a, t, j)]

LEMMA RowIs ==
    ASSUME NEW n \in Nat \ {0}
    PROVE  /\ Trades!Row(n) \in [id : Nat, time : Nat]
           /\ Trades!Row(n).id = n /\ Trades!Row(n).time = 2 * n
  BY DEF Trades!Row

\* The items where the rows that are newer begin.
Begins(h, a, t) ==
    /\ h = <<>> \/ h[1].id < a => t = a - 1
    /\ ~ (h = <<>> \/ h[1].id < a) => t = h[1].id

LEMMA GivesFirst ==
    ASSUME NEW h, Items(h), NEW a \in Nat \ {0}, NEW t \in Nat, Begins(h, a, t)
    PROVE  Gives(h, a, t, 0, h)
  <1>1. /\ Len(h) \in Nat /\ Len(h) <= MaxShown /\ (h = <<>> <=> Len(h) = 0)
        /\ \A i \in 1..Len(h) : h[i].id \in Nat \ {0}
    BY ItemFacts
  <1>2. t >= a - 1
    <2>1. h # <<>> => h[1].id \in Nat
      <3>1. h # <<>> => 1 \in 1..Len(h)
        BY <1>1
      <3> QED
        BY <1>1, <3>1
    <2> QED
      BY <2>1 DEF Begins
  <1>3. Newer(a, t, 0) = 0
    BY <1>2 DEF Newer
  <1>4. Len(h) = IF Len(h) + 0 < MaxShown THEN Len(h) + 0 ELSE MaxShown
    BY <1>1, HistoryConstants
  <1>5. ASSUME NEW i \in 1..Len(h) PROVE ~ (i <= 0) /\ h[i] = h[i - 0]
    BY <1>5
  <1> QED
    BY <1>3, <1>4, <1>5 DEF Gives

LEMMA GivesNext ==
    ASSUME NEW h, Items(h), NEW a \in Nat \ {0}, NEW t \in Nat, Begins(h, a, t),
           NEW j \in Nat, NEW f, Gives(h, a, t, j, f)
    PROVE  Gives(h, a, t, j + 1, Trades!AddTradeEntry(f, Trades!Row(a + j)))
  <1> DEFINE o == Trades!Row(a + j)
             g == Trades!AddTradeEntry(f, o)
  <1>1. /\ Len(h) \in Nat /\ Len(h) <= MaxShown /\ (h = <<>> <=> Len(h) = 0)
        /\ \A i \in 1..Len(h) : h[i].id \in Nat \ {0} /\ h[i].id <= h[1].id
    BY ItemFacts
  <1>2. Items(f) /\ Len(f) \in Nat /\ (f = <<>> <=> Len(f) = 0) /\ Len(f) <= MaxShown
    BY ItemFacts DEF Gives
  <1>3. MaxShown \in Nat \ {0}
    BY HistoryConstants
  <1>4. /\ o \in [id : Nat, time : Nat] /\ o.id = a + j /\ o.time = 2 * (a + j)
        /\ a + j \in Nat \ {0}
    BY RowIs
  <1>5. o.id >= 1 /\ o.time \in {2 * o.id, 2 * o.id + 1}
    BY <1>4
  <1> HIDE DEF o
  <1>6. /\ Items(g)
        /\ f # <<>> /\ f[1].id > o.id => g = f
        /\ f # <<>> /\ f[1].id = o.id => g = f
        /\ f = <<>> \/ f[1].id < o.id =>
             /\ Len(g) = IF Len(f) < MaxShown THEN Len(f) + 1 ELSE MaxShown
             /\ \A i \in 1..Len(g) : g[i] = IF i = 1 THEN o ELSE f[i - 1]
    BY <1>2, <1>4, <1>5, OnTop
  <1> HIDE DEF g
  <1>7. t >= a - 1 /\ (h # <<>> => h[1].id \in Nat \ {0} /\ h[1].id <= t)
    <2>1. h # <<>> => 1 \in 1..Len(h)
      BY <1>1
    <2> QED
      BY <1>1, <2>1 DEF Begins
  <1>8. PICK d \in Nat : d = Newer(a, t, j)
    <2>1. PICK v \in Int : v = a - 1 + j
      OBVIOUS
    <2>2. Newer(a, t, j) = IF v > t THEN v - t ELSE 0
      BY <2>1 DEF Newer
    <2>3. (IF v > t THEN v - t ELSE 0) \in Nat
      BY ONLY v \in Int, t \in Nat
    <2> QED
      BY <2>2, <2>3
  <1>9. PICK m \in Nat : m = Len(h)
    BY <1>1
  <1>10. PICK l \in Nat : l = Len(f)
    BY <1>2
  <1>11. l = IF m + d < MaxShown THEN m + d ELSE MaxShown
    BY <1>8, <1>9, <1>10 DEF Gives
  <1>12. \A i \in 1..l : f[i] = IF i <= d THEN Trades!Row(a + j - i) ELSE h[i - d]
    BY <1>8, <1>10 DEF Gives
  <1>13. ASSUME a + j > t PROVE Gives(h, a, t, j + 1, g)
    <2>1. d = a - 1 + j - t /\ Newer(a, t, j + 1) = d + 1
      BY <1>8, <1>13 DEF Newer
    <2>2. f = <<>> \/ f[1].id < o.id
      <3> SUFFICES ASSUME f # <<>> PROVE f[1].id < o.id
        OBVIOUS
      <3>1. 1 \in 1..l
        BY <1>2, <1>10
      <3>2. CASE 1 <= d
        <4>1. f[1] = Trades!Row(a + j - 1) /\ a + j - 1 \in Nat \ {0}
          BY <1>12, <2>1, <3>1, <3>2
        <4>2. f[1].id = a + j - 1
          BY <4>1, RowIs
        <4> QED
          BY <1>4, <4>2
      <3>3. CASE ~ (1 <= d)
        <4>1. d = 0 /\ f[1] = h[1]
          BY <1>12, <3>1, <3>3
        <4>2. m # 0
          BY <1>11, <3>1, <4>1
        <4>3. h # <<>>
          BY <1>1, <1>9, <4>2
        <4> QED
          BY <1>4, <1>7, <1>13, <4>1, <4>3
      <3> QED
        BY <3>2, <3>3
    <2>3. /\ Len(g) = IF l < MaxShown THEN l + 1 ELSE MaxShown
          /\ \A i \in 1..Len(g) : g[i] = IF i = 1 THEN o ELSE f[i - 1]
      BY <1>6, <1>10, <2>2
    <2>4. PICK n \in Nat : n = Len(g)
      BY <1>3, <2>3
    <2>5. n = IF m + (d + 1) < MaxShown THEN m + (d + 1) ELSE MaxShown
      BY <1>3, <1>11, <2>3, <2>4
    <2>6. n <= l + 1
      BY <1>3, <1>11, <2>3, <2>4
    <2>7. ASSUME NEW i \in 1..n
          PROVE  g[i] = IF i <= d + 1 THEN Trades!Row(a + (j + 1) - i) ELSE h[i - (d + 1)]
      <3>1. CASE i = 1
        <4>1. g[i] = o /\ i <= d + 1 /\ a + (j + 1) - i = a + j
          BY <2>3, <2>4, <3>1
        <4> QED
          BY <4>1 DEF o
      <3>2. CASE i # 1
        <4>1. PICK k \in 1..l : k = i - 1
          BY <2>6, <3>2
        <4>2. g[i] = f[k]
          BY <2>3, <2>4, <3>2, <4>1
        <4>3. (k <= d <=> i <= d + 1) /\ a + j - k = a + (j + 1) - i /\ k - d = i - (d + 1)
          BY <4>1
        <4> QED
          BY <1>12, <4>2, <4>3
      <3> QED
        BY <3>1, <3>2
    <2> QED
      BY <1>6, <1>9, <2>1, <2>4, <2>5, <2>7 DEF Gives
  <1>14. ASSUME ~ (a + j > t) PROVE Gives(h, a, t, j + 1, g)
    <2>1. d = 0 /\ Newer(a, t, j + 1) = 0
      BY <1>8, <1>14 DEF Newer
    <2>2. ~ (h = <<>> \/ h[1].id < a)
      BY <1>14 DEF Begins
    <2>3. t = h[1].id
      BY <2>2 DEF Begins
    <2>4. f # <<>> /\ f[1] = h[1]
      <3>1. m # 0
        BY <1>1, <1>9, <2>2
      <3>2. 1 \in 1..l
        BY <1>3, <1>11, <2>1, <3>1
      <3> QED
        BY <1>2, <1>10, <1>12, <2>1, <3>2
    <2>5. f[1].id > o.id \/ f[1].id = o.id
      BY <1>4, <1>14, <2>3, <2>4
    <2>6. g = f
      BY <1>6, <2>4, <2>5
    <2>7. \A i \in 1..l : g[i] = IF i <= 0 THEN Trades!Row(a + (j + 1) - i) ELSE h[i - 0]
      BY <1>12, <2>1, <2>6
    <2> QED
      BY <1>6, <1>9, <1>10, <1>11, <2>1, <2>6, <2>7 DEF Gives
  <1> QED
    BY <1>13, <1>14 DEF g, o

\* The rows of an answer, the oldest first.
LEMMA AnswerGives ==
    ASSUME NEW h, Items(h), NEW a \in Nat \ {0}, NEW t \in Nat, Begins(h, a, t), NEW k \in Nat,
           NEW s, DOMAIN s = 1..k, \A i \in 1..k : s[i] = Trades!Row(a - 1 + i)
    PROVE  Gives(h, a, t, k, LoopOver(h, s))
  <1>0. PICK f : Unrolls(f, h, s, k)
    BY FoldSteps
  <1>1. /\ f[0] = h /\ f[k] = LoopOver(h, s)
        /\ \A j \in 1..k : f[j] = Trades!AddTradeEntry(f[j - 1], s[j])
    BY ONLY <1>0 DEF Unrolls
  <1> DEFINE Bad == {j \in 0..k : ~ Gives(h, a, t, j, f[j])}
  <1>2. Bad = {}
    <2> SUFFICES ASSUME Bad # {} PROVE FALSE
      OBVIOUS
    <2>1. Bad \subseteq Nat
      OBVIOUS
    <2>2. PICK j \in Bad : \A i \in Bad : j <= i
      <3> HIDE DEF Bad
      <3> QED
        BY <2>1, LeastNatural
    <2>3. j \in 0..k /\ ~ Gives(h, a, t, j, f[j])
      OBVIOUS
    <2>4. j # 0
      BY <1>1, <2>3, GivesFirst
    <2>5. PICK i \in Nat : j = i + 1
      BY <2>3, <2>4
    <2>6. i \in 0..k /\ ~ (j <= i) /\ j \in 1..k /\ j - 1 = i /\ a - 1 + j = a + i
      BY <2>3, <2>5
    <2>7. i \notin Bad
      <3> HIDE DEF Bad
      <3> QED
        BY <2>2, <2>6
    <2>8. Gives(h, a, t, i, f[i])
      BY <2>6, <2>7
    <2>9. f[j] = Trades!AddTradeEntry(f[i], Trades!Row(a + i))
      BY <1>1, <2>6
    <2>10. Gives(h, a, t, i + 1, f[j])
      BY <2>8, <2>9, GivesNext
    <2> QED
      BY <2>3, <2>5, <2>10
  <1>3. k \in 0..k /\ k \notin Bad
    BY <1>2
  <1>4. Gives(h, a, t, k, f[k])
    BY <1>3
  <1> QED
    BY <1>1, <1>4

-----------------------------------------------------------------------------
(* The inductive invariant.                                                *)

\* With d newer items on top, what was on the page is there or older than all that is.
LEMMA Shifted ==
    ASSUME NEW h, Items(h), NEW g, Items(g), NEW d \in Nat,
           Len(g) = IF Len(h) + d < MaxShown THEN Len(h) + d ELSE MaxShown,
           \A i \in 1..Len(g) : i > d => g[i] = h[i - d],
           \A i \in 1..Len(g) : i <= d => \A x \in 1..Len(h) : g[i].id > h[x].id
    PROVE  /\ \A n \in Trades!Ids(h) :
                n \in Trades!Ids(g) \/ (Len(g) = MaxShown /\ n < g[MaxShown].id)
           /\ h # <<>> => g # <<>> /\ h[Len(h)].id <= g[Len(g)].id /\ h[1].id <= g[1].id
  <1>1. /\ Len(h) \in Nat /\ DOMAIN h = 1..Len(h) /\ Len(h) <= MaxShown
        /\ (h = <<>> <=> Len(h) = 0)
        /\ \A i \in 1..Len(h) : h[i].id \in Nat \ {0}
        /\ \A i \in 1..Len(h) : h[i].id <= h[1].id /\ h[Len(h)].id <= h[i].id
    BY ItemFacts
  <1>2. Len(g) \in Nat /\ DOMAIN g = 1..Len(g) /\ (g = <<>> <=> Len(g) = 0)
        /\ \A i \in 1..Len(g) : g[i].id \in Nat \ {0}
    BY ItemFacts
  <1>3. MaxShown \in Nat \ {0}
    BY HistoryConstants
  <1>4. PICK m \in Nat : m = Len(h)
    BY <1>1
  <1>5. PICK l \in Nat : l = Len(g)
    BY <1>2
  <1>6. l = IF m + d < MaxShown THEN m + d ELSE MaxShown
    BY <1>4, <1>5
  <1>7. ASSUME NEW n \in Trades!Ids(h)
        PROVE  n \in Trades!Ids(g) \/ (Len(g) = MaxShown /\ n < g[MaxShown].id)
    <2>1. PICK i \in 1..m : n = h[i].id
      BY <1>1, <1>4 DEF Trades!Ids
    <2>2. CASE i + d <= l
      <3>1. PICK j \in 1..l : j = i + d
        BY <2>2
      <3>2. g[j] = h[i]
        BY <1>5, <3>1
      <3> QED
        BY <1>2, <1>5, <2>1, <3>2 DEF Trades!Ids
    <2>3. CASE ~ (i + d <= l)
      <3>1. l = MaxShown
        <4>1. i + d <= m + d
          OBVIOUS
        <4> QED
          BY <1>3, <1>6, <2>3, <4>1
      <3>2. l \in 1..l
        BY <1>3, <3>1
      <3>3. CASE l <= d
        <4>1. g[l].id > h[i].id
          BY <1>4, <1>5, <3>2, <3>3
        <4> QED
          BY <1>1, <1>2, <1>4, <1>5, <2>1, <3>1, <3>2, <4>1
      <3>4. CASE l > d
        <4>1. PICK j \in 1..m : j = l - d
          BY <1>6, <2>3, <3>4
        <4>2. g[l] = h[j] /\ j < i
          BY <1>5, <2>3, <3>2, <3>4, <4>1
        <4>3. h[j].id > h[i].id
          BY <1>1, <1>4, <4>2 DEF Items
        <4> QED
          BY <1>1, <1>4, <1>5, <2>1, <3>1, <4>2, <4>3
      <3> QED
        BY <3>3, <3>4
    <2> QED
      BY <2>2, <2>3
  <1>8. ASSUME h # <<>>
        PROVE  g # <<>> /\ h[Len(h)].id <= g[Len(g)].id /\ h[1].id <= g[1].id
    <2>1. m >= 1 /\ m \in 1..m /\ 1 \in 1..m
      BY <1>1, <1>4, <1>8
    <2>2. l >= 1 /\ l \in 1..l /\ 1 \in 1..l
      BY <1>3, <1>6, <2>1
    <2>3. ASSUME NEW i \in 1..l PROVE h[m].id <= g[i].id
      <3>1. CASE i <= d
        <4>1. g[i].id > h[m].id
          BY <1>4, <1>5, <2>1, <3>1
        <4> QED
          BY <1>1, <1>2, <1>4, <1>5, <2>1, <4>1
      <3>2. CASE i > d
        <4>1. PICK j \in 1..m : j = i - d
          BY <1>6, <3>2
        <4>2. g[i] = h[j]
          BY <1>5, <3>2, <4>1
        <4> QED
          BY <1>1, <1>4, <4>2
      <3> QED
        BY <3>1, <3>2
    <2>4. h[1].id <= g[1].id
      <3>1. CASE 1 <= d
        <4>1. g[1].id > h[1].id
          BY <1>4, <1>5, <2>1, <2>2, <3>1
        <4> QED
          BY <1>1, <1>2, <1>4, <1>5, <2>1, <2>2, <4>1
      <3>2. CASE ~ (1 <= d)
        <4>1. d = 0
          BY <3>2
        <4>2. g[1] = h[1]
          BY <1>5, <2>2, <4>1
        <4> QED
          BY <1>1, <1>4, <2>1, <4>2
      <3> QED
        BY <3>1, <3>2
    <2> QED
      BY <1>2, <1>4, <1>5, <2>2, <2>3, <2>4
  <1> QED
    BY <1>7, <1>8

LEMMA ItemsOfPage ==
    ASSUME HistoryInv
    PROVE  /\ Items(history) /\ \A i \in 1..Len(history) : history[i].id \in 1..made
           /\ made \in Nat /\ listed \in Nat \ {0} /\ from \in Nat /\ stream \in Nat
           /\ from <= listed /\ from <= stream
  <1>1. made \in Nat
    BY HistoryConstants DEF HistoryInv, HistoryTypes
  <1>2. ItemsOK
    BY DEF HistoryInv
  <1>3. DOMAIN history = 1..Len(history)
    BY <1>2 DEF ItemsOK
  <1>4. \A i \in DOMAIN history : history[i].id \in 1..made
    BY <1>2 DEF ItemsOK
  <1>5. \A i \in DOMAIN history : history[i].id >= 1
    BY <1>1, <1>4
  <1>6. Items(history)
    BY <1>2, <1>5 DEF ItemsOK, Items, Trades!NewestOnTop
  <1>7. listed \in Nat \ {0} /\ from \in Nat /\ stream \in Nat /\ from <= listed /\ from <= stream
    BY <1>1 DEF HistoryInv, HistoryTypes
  <1> QED
    BY <1>1, <1>3, <1>4, <1>6, <1>7

LEMMA ItemsAreOK ==
    ASSUME Items(history'), \A i \in 1..Len(history') : history'[i].id \in 1..made'
    PROVE  ItemsOK'
  <1>1. DOMAIN history' = 1..Len(history')
    BY DEF Items
  <1> QED
    BY <1>1 DEF Items, ItemsOK, Trades!NewestOnTop

LEMMA ItemsStay ==
    ASSUME HistoryInv, UNCHANGED history, made' \in Nat, made <= made'
    PROVE  ItemsOK'
  <1>1. /\ Items(history) /\ \A i \in 1..Len(history) : history[i].id \in 1..made
        /\ made \in Nat
    BY ItemsOfPage
  <1>2. \A n \in 1..made : n \in 1..made'
    BY <1>1
  <1>3. Items(history') /\ \A i \in 1..Len(history') : history'[i].id \in 1..made'
    BY <1>1, <1>2
  <1> QED
    BY <1>3, ItemsAreOK

LEMMA AnswerIs ==
    ASSUME HistoryInv, UNCHANGED answer, made' \in Nat, made <= made'
    PROVE  AnswerOK'
  <1>1. made \in Nat
    BY ItemsOfPage
  <1>2. PICK n \in 0..made, k \in 0..PageSize :
          /\ k = n \/ (k = PageSize /\ k <= n)
          /\ answer = [i \in 1..k |-> Trades!Row(n + 1 - i)]
    BY DEF HistoryInv, AnswerOK
  <1>3. n \in 0..made'
    BY <1>1
  <1> QED
    BY <1>2, <1>3 DEF AnswerOK, Trades!Row

LEMMA DenseStays ==
    ASSUME HistoryInv, UNCHANGED <<history, from, stream>>, listed' \in Nat, listed <= listed'
    PROVE  ItemsAreDense'
  <1>1. listed \in Nat \ {0}
    BY ItemsOfPage
  <1>2. ItemsAreDense
    BY DEF HistoryInv
  <1>3. ASSUME history # <<>>, NEW n \in (IF from = 0 THEN listed' ELSE from)..history[1].id
        PROVE  n \in Trades!Ids(history) \/ n < history[Len(history)].id
    <2>1. history[1].id \in Nat
      <3>1. Items(history)
        BY ItemsOfPage
      <3>2. 1 \in 1..Len(history)
        BY <1>3, <3>1, ItemFacts
      <3> QED
        BY <3>1, <3>2, ItemFacts
    <2>2. n \in (IF from = 0 THEN listed ELSE from)..history[1].id
      BY <1>1, <1>3, <2>1
    <2> QED
      BY <1>2, <1>3, <2>2 DEF ItemsAreDense
  <1> QED
    BY <1>2, <1>3 DEF ItemsAreDense, Trades!Ids

LEMMA StaysShown ==
    ASSUME HistoryInv, UNCHANGED <<history, answer, quiet>>, quiet => fetch' = "DONE"
    PROVE  AnswerStays'
  BY DEF HistoryInv, AnswerStays, Trades!Ids

-----------------------------------------------------------------------------
(* One lemma per action.                                                   *)

LEMMA HistoryStarts == ASSUME Trades!Init PROVE HistoryInv
  <1> USE DEF Trades!Init
  <1>1. HistoryTypes
    BY HistoryConstants DEF HistoryTypes
  <1>2. ItemsOK
    BY HistoryConstants DEF ItemsOK, Trades!NewestOnTop
  <1>3. AnswerOK
    <2>1. 0 \in 0..made /\ 0 \in 0..PageSize
      BY HistoryConstants
    <2>2. answer = [i \in 1..0 |-> Trades!Row(0 + 1 - i)]
      OBVIOUS
    <2> QED
      BY <2>1, <2>2 DEF AnswerOK
  <1>4. ItemsAreDense /\ AnswerStays
    BY DEF ItemsAreDense, AnswerStays
  <1> QED
    BY <1>1, <1>2, <1>3, <1>4 DEF HistoryInv

LEMMA MakeTradeKeeps == ASSUME HistoryInv, Trades!MakeTrade PROVE HistoryInv'
  <1>1. /\ made < MaxTrades /\ made' = made + 1
        /\ UNCHANGED <<listed, from, stream, fetch, offset, answer, history, quiet>>
    BY DEF Trades!MakeTrade, Trades!feed, Trades!rest
  <1>2. made \in Nat /\ made' \in Nat /\ made <= made' /\ listed \in Nat
    BY <1>1, ItemsOfPage
  <1>3. HistoryTypes'
    BY <1>1, <1>2, HistoryConstants DEF HistoryInv, HistoryTypes
  <1>4. AnswerStays'
    <2>1. quiet => fetch' = "DONE"
      BY <1>1 DEF HistoryInv, AnswerStays
    <2> QED
      BY <1>1, <2>1, StaysShown
  <1> QED
    BY <1>1, <1>2, <1>3, <1>4, ItemsStay, AnswerIs, DenseStays DEF HistoryInv

LEMMA CacheListKeeps == ASSUME HistoryInv, Trades!CacheList PROVE HistoryInv'
  <1>1. /\ listed' = made + 1
        /\ UNCHANGED <<made, from, stream, fetch, offset, answer, history, quiet>>
    BY DEF Trades!CacheList, Trades!feed, Trades!rest
  <1>2. made \in Nat /\ listed \in Nat /\ listed <= listed' /\ listed' \in Nat
    BY <1>1, ItemsOfPage DEF HistoryInv, HistoryTypes
  <1>3. HistoryTypes'
    BY <1>1, <1>2 DEF HistoryInv, HistoryTypes
  <1>4. AnswerStays'
    <2>1. quiet => fetch' = "DONE"
      BY <1>1 DEF HistoryInv, AnswerStays
    <2> QED
      BY <1>1, <2>1, StaysShown
  <1>5. made' \in Nat /\ made <= made'
    BY <1>1, <1>2
  <1> QED
    BY <1>1, <1>2, <1>3, <1>4, <1>5, ItemsStay, AnswerIs, DenseStays DEF HistoryInv

LEMMA ConnectionKeeps ==
    ASSUME HistoryInv, Trades!Subscribe \/ Trades!Disconnect PROVE HistoryInv'
  <1>1. UNCHANGED <<made, listed, fetch, offset, answer, history, quiet>>
    BY DEF Trades!Subscribe, Trades!Disconnect, Trades!table, Trades!rest
  <1>2. made \in Nat /\ listed \in Nat \ {0} /\ from \in Nat /\ from <= listed /\ listed <= made + 1
    BY ItemsOfPage DEF HistoryInv, HistoryTypes
  <1>3. from' = stream' /\ ((from' = 0 /\ from # 0) \/ (from' = listed /\ from = 0))
    BY DEF Trades!Subscribe, Trades!Disconnect
  <1>4. HistoryTypes'
    BY <1>1, <1>2, <1>3 DEF HistoryInv, HistoryTypes
  <1>5. ItemsAreDense'
    <2>1. ItemsAreDense
      BY DEF HistoryInv
    <2>2. ASSUME history # <<>>, NEW n \in (IF from' = 0 THEN listed ELSE from')..history[1].id
          PROVE  n \in Trades!Ids(history) \/ n < history[Len(history)].id
      <3>1. history[1].id \in Nat
        <4>1. Items(history)
          BY ItemsOfPage
        <4>2. 1 \in 1..Len(history)
          BY <2>2, <4>1, ItemFacts
        <4> QED
          BY <4>1, <4>2, ItemFacts
      <3>2. n \in (IF from = 0 THEN listed ELSE from)..history[1].id
        BY <1>2, <1>3, <2>2, <3>1
      <3> QED
        BY <2>1, <2>2, <3>2 DEF ItemsAreDense
    <2>3. stream' <= from'
      BY <1>2, <1>3
    <2> QED
      BY <1>1, <1>3, <2>2, <2>3 DEF ItemsAreDense, Trades!Ids
  <1>6. AnswerStays'
    <2>1. quiet => fetch' = "DONE"
      BY <1>1 DEF HistoryInv, AnswerStays
    <2> QED
      BY <1>1, <2>1, StaysShown
  <1>7. made' \in Nat /\ made <= made'
    BY <1>1, <1>2
  <1> QED
    BY <1>1, <1>4, <1>5, <1>6, <1>7, ItemsStay, AnswerIs DEF HistoryInv

\* Items with newer ones on top of them keep what was dense, and what is shown of an answer.
LEMMA NewerOnTop ==
    ASSUME HistoryInv, NEW d \in Nat, Items(history'),
           Len(history') = IF Len(history) + d < MaxShown THEN Len(history) + d ELSE MaxShown,
           \A i \in 1..Len(history') : i > d => history'[i] = history[i - d],
           \A i \in 1..Len(history') : i <= d => history'[i].id \in 1..made,
           \A i \in 1..Len(history') : i <= d => \A x \in 1..Len(history) :
               history'[i].id > history[x].id,
           made' = made
    PROVE  /\ ItemsOK'
           /\ UNCHANGED <<quiet, answer, fetch>> => AnswerStays'
           /\ history # <<>> => history' # <<>> /\ history[1].id <= history'[1].id
           /\ history # <<>> => \A n \in (IF from = 0 THEN listed ELSE from)..history[1].id :
                n \in Trades!Ids(history') \/ n < history'[Len(history')].id
  <1>1. /\ Items(history) /\ \A i \in 1..Len(history) : history[i].id \in 1..made
        /\ made \in Nat /\ listed \in Nat \ {0} /\ from \in Nat
    BY ItemsOfPage
  <1>2. PICK h : h = history
    OBVIOUS
  <1>3. PICK g : g = history'
    OBVIOUS
  <1>4. /\ Items(h) /\ Items(g)
        /\ Len(g) = IF Len(h) + d < MaxShown THEN Len(h) + d ELSE MaxShown
        /\ \A i \in 1..Len(g) : i > d => g[i] = h[i - d]
        /\ \A i \in 1..Len(g) : i <= d => \A x \in 1..Len(h) : g[i].id > h[x].id
    BY <1>1, <1>2, <1>3
  <1>5. /\ \A n \in Trades!Ids(h) :
             n \in Trades!Ids(g) \/ (Len(g) = MaxShown /\ n < g[MaxShown].id)
        /\ h # <<>> => g # <<>> /\ h[Len(h)].id <= g[Len(g)].id /\ h[1].id <= g[1].id
    BY <1>4, Shifted
  <1>6. /\ Len(g) \in Nat /\ Len(g) <= MaxShown /\ (g = <<>> <=> Len(g) = 0)
        /\ \A i \in 1..Len(g) : g[i].id \in Nat \ {0}
    BY <1>4, ItemFacts
  <1>7. /\ Len(h) \in Nat /\ Len(h) <= MaxShown /\ (h = <<>> <=> Len(h) = 0)
        /\ \A i \in 1..Len(h) : h[i].id \in Nat \ {0}
    BY <1>4, ItemFacts
  <1>8. ItemsOK'
    <2>1. ASSUME NEW i \in 1..Len(g) PROVE g[i].id \in 1..made
      <3>1. CASE i <= d
        BY <1>3, <3>1
      <3>2. CASE i > d
        <4>1. PICK m \in Nat : m = Len(h)
          BY <1>7
        <4>2. PICK l \in Nat : l = Len(g)
          BY <1>6
        <4>3. l = IF m + d < MaxShown THEN m + d ELSE MaxShown
          BY <1>4, <4>1, <4>2
        <4>4. MaxShown \in Nat
          BY HistoryConstants
        <4>5. l <= m + d /\ i \in 1..l
          BY <4>2, <4>3, <4>4
        <4>6. PICK j \in 1..m : j = i - d
          BY <3>2, <4>5
        <4>7. g[i] = h[j]
          BY <1>4, <3>2, <4>6
        <4> QED
          BY <1>1, <1>2, <4>1, <4>7
      <3> QED
        BY <3>1, <3>2
    <2> QED
      BY <1>3, <1>4, <2>1, ItemsAreOK
  <1>9. ASSUME NEW n, n \in Nat, h # <<>>, n \in Trades!Ids(h) \/ n < h[Len(h)].id
        PROVE  n \in Trades!Ids(g) \/ n < g[Len(g)].id
    <2>1. Len(g) \in 1..Len(g) /\ Len(h) \in 1..Len(h)
      BY <1>5, <1>6, <1>7, <1>9
    <2>2. CASE n \in Trades!Ids(h)
      <3>1. n \in Trades!Ids(g) \/ (Len(g) = MaxShown /\ n < g[MaxShown].id)
        BY <1>5, <2>2
      <3> QED
        BY <3>1
    <2>3. CASE n < h[Len(h)].id
      <3>1. h[Len(h)].id <= g[Len(g)].id /\ h[Len(h)].id \in Nat /\ g[Len(g)].id \in Nat
        BY <1>5, <1>6, <1>7, <1>9, <2>1
      <3> QED
        BY <1>9, <2>3, <3>1
    <2> QED
      BY <1>9, <2>2, <2>3
  <1>10. ASSUME h # <<>>, NEW n \in (IF from = 0 THEN listed ELSE from)..h[1].id
         PROVE  n \in Trades!Ids(g) \/ n < g[Len(g)].id
    <2>1. n \in Trades!Ids(h) \/ n < h[Len(h)].id
      BY <1>2, <1>10 DEF HistoryInv, ItemsAreDense
    <2>2. n \in Nat
      <3>1. 1 \in 1..Len(h)
        BY <1>7, <1>10
      <3>2. h[1].id \in Nat
        BY <1>7, <3>1
      <3> QED
        BY <1>1, <1>10, <3>2
    <2> QED
      BY <1>9, <1>10, <2>1, <2>2
  <1>11. ASSUME UNCHANGED <<quiet, answer, fetch>> PROVE AnswerStays'
    <2> SUFFICES ASSUME quiet, NEW n \in Trades!Ids(answer)
                 PROVE  n \in Trades!Ids(g) \/ (Len(g) = MaxShown /\ n < g[MaxShown].id)
      BY <1>3, <1>11 DEF HistoryInv, AnswerStays, Trades!Ids
    <2>1. n \in Trades!Ids(h) \/ (Len(h) = MaxShown /\ n < h[MaxShown].id)
      BY <1>2 DEF HistoryInv, AnswerStays
    <2>2. CASE n \in Trades!Ids(h)
      BY <1>5, <2>2
    <2>3. CASE Len(h) = MaxShown /\ n < h[MaxShown].id
      <3>1. MaxShown \in Nat \ {0}
        BY HistoryConstants
      <3>2. h # <<>> /\ MaxShown \in 1..Len(h)
        BY <1>7, <2>3, <3>1
      <3>3. Len(g) = MaxShown
        BY <1>4, <2>3, <3>1
      <3>4. MaxShown \in 1..Len(g)
        BY <3>1, <3>3
      <3>5. h[MaxShown].id <= g[MaxShown].id
        BY <1>5, <2>3, <3>2, <3>3
      <3>6. h[MaxShown].id \in Nat /\ g[MaxShown].id \in Nat
        BY <1>6, <1>7, <3>2, <3>4
      <3>7. n \in Int
        <4>1. PICK N \in 0..made, k \in 0..PageSize :
                (k = N \/ (k = PageSize /\ k <= N)) /\ answer = [i \in 1..k |-> Trades!Row(N + 1 - i)]
          BY DEF HistoryInv, AnswerOK
        <4>2. PICK i \in 1..k : n = Trades!Row(N + 1 - i).id
          BY <4>1 DEF Trades!Ids
        <4> QED
          BY <1>1, <4>2 DEF Trades!Row
      <3> QED
        BY <2>3, <3>3, <3>5, <3>6, <3>7
    <2> QED
      BY <2>1, <2>2, <2>3
  <1> QED
    BY <1>2, <1>3, <1>5, <1>8, <1>10, <1>11

LEMMA RenderKeeps == ASSUME HistoryInv, Trades!Render PROVE HistoryInv'
  <1> DEFINE o == Trades!Event(stream)
  <1>1. /\ from # 0 /\ stream <= made /\ history' = Trades!AddTradeEntry(history, o)
        /\ stream' = stream + 1
        /\ UNCHANGED <<made, listed, from, fetch, offset, answer, quiet>>
    BY DEF Trades!Render, Trades!table, Trades!rest
  <1>2. /\ Items(history) /\ \A i \in 1..Len(history) : history[i].id \in 1..made
        /\ made \in Nat /\ listed \in Nat \ {0} /\ from \in Nat /\ stream \in Nat
        /\ from <= listed /\ from <= stream
    BY ItemsOfPage
  <1>3. /\ o \in [id : Nat, time : Nat] /\ o.id = stream /\ o.time = 2 * stream + 1
    BY <1>2 DEF Trades!Event
  <1>4. stream \in 1..made
    BY <1>1, <1>2
  <1> HIDE DEF o
  <1>5. o.id >= 1 /\ o.time \in {2 * o.id, 2 * o.id + 1}
    BY <1>3, <1>4
  <1>6. /\ Items(history')
        /\ history # <<>> /\ history[1].id > o.id => history' = history
        /\ history # <<>> /\ history[1].id = o.id => history' = history
        /\ history = <<>> \/ history[1].id < o.id =>
             /\ Len(history') = IF Len(history) < MaxShown THEN Len(history) + 1 ELSE MaxShown
             /\ \A i \in 1..Len(history') : history'[i] = IF i = 1 THEN o ELSE history[i - 1]
    BY <1>1, <1>2, <1>3, <1>5, OnTop
  <1>7. /\ Len(history) \in Nat /\ Len(history) <= MaxShown /\ (history = <<>> <=> Len(history) = 0)
        /\ \A i \in 1..Len(history) : history[i].id \in Nat \ {0} /\ history[i].id <= history[1].id
    BY <1>2, ItemFacts
  <1>8. ItemsAreDense
    BY DEF HistoryInv
  <1>9. HistoryTypes'
    BY <1>1, <1>2 DEF HistoryInv, HistoryTypes
  <1>10. AnswerOK'
    BY <1>1, <1>2, AnswerIs
  <1>11. MaxShown \in Nat \ {0}
    BY HistoryConstants
  <1>12. CASE history # <<>> /\ history[1].id >= stream
    <2>1. 1 \in 1..Len(history)
      BY <1>7, <1>12
    <2>2. history[1].id \in Nat
      BY <1>7, <2>1
    <2>3. history' = history
      BY <1>2, <1>3, <1>6, <1>12, <2>2
    <2>4. ItemsOK'
      BY <1>1, <1>2, <2>3, ItemsStay
    <2>5. AnswerStays'
      <3>1. quiet => fetch' = "DONE"
        BY <1>1 DEF HistoryInv, AnswerStays
      <3> QED
        BY <1>1, <2>3, <3>1, StaysShown
    <2>6. stream' <= history[1].id + 1
      BY <1>1, <1>2, <1>12, <2>2
    <2>7. ItemsAreDense'
      BY <1>1, <1>8, <1>12, <2>3, <2>6 DEF ItemsAreDense, Trades!Ids
    <2> QED
      BY <1>9, <1>10, <2>4, <2>5, <2>7 DEF HistoryInv
  <1>13. CASE history = <<>> \/ history[1].id < stream
    <2>1. /\ Len(history') = IF Len(history) < MaxShown THEN Len(history) + 1 ELSE MaxShown
          /\ \A i \in 1..Len(history') : history'[i] = IF i = 1 THEN o ELSE history[i - 1]
      BY <1>3, <1>6, <1>13
    <2>2. PICK m \in Nat : m = Len(history)
      BY <1>7
    <2>3. PICK l \in Nat : l = Len(history')
      BY <1>11, <2>1, <2>2
    <2>4. l = (IF m + 1 < MaxShown THEN m + 1 ELSE MaxShown) /\ l >= 1
      BY <1>7, <1>11, <2>1, <2>2, <2>3
    <2>5. ASSUME NEW x \in 1..m PROVE stream > history[x].id
      <3>1. 1 \in 1..m
        BY <2>5
      <3>2. history # <<>>
        BY <1>7, <2>2, <3>1
      <3> QED
        BY <1>2, <1>7, <1>13, <2>2, <3>1, <3>2
    <2>6. \A i \in 1..l : i > 1 => history'[i] = history[i - 1]
      BY <2>1, <2>3
    <2>7. history'[1] = o /\ \A i \in 1..l : i <= 1 => history'[i] = o
      <3>1. 1 \in 1..l
        BY <2>4
      <3>2. \A i \in 1..l : i <= 1 => i = 1
        OBVIOUS
      <3> QED
        BY <2>1, <2>3, <3>1, <3>2
    <2>8. /\ ItemsOK'
          /\ AnswerStays'
          /\ history # <<>> => \A n \in (IF from = 0 THEN listed ELSE from)..history[1].id :
                n \in Trades!Ids(history') \/ n < history'[Len(history')].id
      <3>1. PICK d \in Nat : d = 1
        OBVIOUS
      <3>2. Len(history') = IF Len(history) + d < MaxShown THEN Len(history) + d ELSE MaxShown
        BY <2>2, <2>3, <2>4, <3>1
      <3>3. \A i \in 1..Len(history') : i > d => history'[i] = history[i - d]
        BY <2>3, <2>6, <3>1
      <3>4. \A i \in 1..Len(history') : i <= d => history'[i].id \in 1..made
        BY <1>3, <1>4, <2>3, <2>7, <3>1
      <3>5. \A i \in 1..Len(history') : i <= d => \A x \in 1..Len(history) :
               history'[i].id > history[x].id
        BY <1>3, <2>2, <2>3, <2>5, <2>7, <3>1
      <3> QED
        BY <1>1, <1>6, <3>2, <3>3, <3>4, <3>5, NewerOnTop
    <2>9. 1 \in DOMAIN history' /\ history' # <<>>
      <3>1. PICK g : g = history'
        OBVIOUS
      <3>2. Items(g)
        BY <1>6, <3>1
      <3>3. DOMAIN g = 1..Len(g) /\ (g = <<>> <=> Len(g) = 0)
        BY <3>2, ItemFacts
      <3>4. 1 \in 1..l /\ l # 0 /\ l = Len(g)
        <4>1. l >= 1 /\ l = Len(g)
          BY <2>3, <2>4, <3>1
        <4> QED
          BY ONLY <4>1, l \in Nat
      <3> QED
        BY <3>1, <3>3, <3>4
    <2>10. ASSUME NEW n \in from..stream
          PROVE  n \in Trades!Ids(history') \/ n < history'[Len(history')].id
      <3>1. CASE n = stream
        <4>1. 1 \in DOMAIN history'
          BY <2>9
        <4> QED
          BY <1>3, <2>7, <3>1, <4>1 DEF Trades!Ids
      <3>2. CASE n # stream
        <4>1. from < stream
          BY <1>2, <2>10, <3>2
        <4>2. history # <<>>
          BY <1>2, <1>8, <4>1 DEF ItemsAreDense
        <4>3. 1 \in 1..Len(history)
          BY <1>7, <4>2
        <4>4. history[1].id \in Nat /\ stream <= history[1].id + 1
          BY <1>2, <1>7, <1>8, <4>1, <4>2, <4>3 DEF ItemsAreDense
        <4>5. n \in (IF from = 0 THEN listed ELSE from)..history[1].id
          BY <1>1, <1>2, <3>2, <4>4
        <4> QED
          BY <2>8, <4>2, <4>5
      <3> QED
        BY <3>1, <3>2
    <2>11. ItemsAreDense'
      <3>1. history' # <<>>
        BY <2>9
      <3>2. history'[1].id = stream
        BY <1>3, <2>7
      <3> QED
        BY <1>1, <1>2, <2>10, <3>1, <3>2 DEF ItemsAreDense, Trades!Ids
    <2> QED
      BY <1>9, <1>10, <2>8, <2>11 DEF HistoryInv
  <1> QED
    <2>1. history # <<>> => history[1].id \in Nat
      <3>1. history # <<>> => 1 \in 1..Len(history)
        BY <1>7
      <3> QED
        BY <1>7, <3>1
    <2> QED
      BY <1>2, <1>12, <1>13, <2>1

LEMMA FetchTradesKeeps == ASSUME HistoryInv, Trades!FetchTrades PROVE HistoryInv'
  <1>1. /\ fetch = "WAIT" /\ fetch' = "ASKED"
        /\ UNCHANGED <<made, listed, from, stream, answer, history, quiet>>
    BY DEF Trades!FetchTrades, Trades!table, Trades!feed
  <1>2. made \in Nat /\ listed \in Nat
    BY ItemsOfPage
  <1>3. offset' \in Int
    <2>1. PICK skew \in 0..MaxSkew : offset' = 2 * made + 1 - skew
      BY DEF Trades!FetchTrades
    <2>2. skew \in Int
      BY HistoryConstants
    <2> QED
      BY <1>2, <2>1, <2>2
  <1>4. HistoryTypes'
    BY <1>1, <1>3 DEF HistoryInv, HistoryTypes
  <1>5. AnswerStays'
    <2>1. ~quiet
      BY <1>1 DEF HistoryInv, AnswerStays
    <2> QED
      BY <1>1, <2>1 DEF AnswerStays
  <1>6. made' \in Nat /\ made <= made' /\ listed' \in Nat /\ listed <= listed'
    BY <1>1, <1>2
  <1> QED
    BY <1>1, <1>4, <1>5, <1>6, ItemsStay, AnswerIs, DenseStays DEF HistoryInv

LEMMA MarketTradesKeeps == ASSUME HistoryInv, Trades!MarketTrades PROVE HistoryInv'
  <1> DEFINE newest == IF 2 * made <= offset THEN made ELSE offset \div 2
             number == IF newest < PageSize THEN newest ELSE PageSize
             size == IF number < 0 THEN 0 ELSE number
  <1>1. /\ fetch = "ASKED" /\ fetch' = "ANSWERED"
        /\ answer' = [i \in 1..size |-> Trades!Row(newest + 1 - i)]
        /\ UNCHANGED <<made, listed, from, stream, offset, history, quiet>>
    BY DEF Trades!MarketTrades, Trades!table, Trades!feed
  <1>2. made \in Nat /\ listed \in Nat /\ offset \in Int
    BY ItemsOfPage DEF HistoryInv, HistoryTypes
  <1>3. PageSize \in Nat \ {0}
    BY HistoryConstants
  <1>4. newest \in Int /\ newest <= made
    <2>1. CASE 2 * made <= offset
      BY <1>2, <2>1
    <2>2. CASE ~ (2 * made <= offset)
      <3>1. PICK q \in Int : q = offset \div 2
        BY <1>2
      <3>2. q <= made
        BY <1>2, <2>2, <3>1
      <3> QED
        BY <2>2, <3>1, <3>2
    <2> QED
      BY <2>1, <2>2
  <1> HIDE DEF newest
  <1>5. AnswerOK'
    <2>1. CASE newest < 0
      <3>1. number < 0 /\ size = 0
        BY <1>3, <1>4, <2>1
      <3>2. answer' = [i \in 1..0 |-> Trades!Row(0 + 1 - i)]
        <4>1. 1..0 = {}
          OBVIOUS
        <4>2. answer' = [i \in 1..0 |-> Trades!Row(newest + 1 - i)]
          BY <1>1, <3>1
        <4> QED
          BY <4>1, <4>2
      <3>3. 0 \in 0..made' /\ 0 \in 0..PageSize
        BY <1>1, <1>2, <1>3
      <3> QED
        BY <3>2, <3>3 DEF AnswerOK, Trades!Row
    <2>2. CASE newest >= 0
      <3>1. PICK k \in 0..PageSize : k = size /\ (k = newest \/ (k = PageSize /\ k <= newest))
        BY <1>3, <1>4, <2>2
      <3>2. newest \in 0..made'
        BY <1>1, <1>2, <1>4, <2>2
      <3>3. answer' = [i \in 1..k |-> Trades!Row(newest + 1 - i)]
        BY <1>1, <3>1
      <3> QED
        BY <3>1, <3>2, <3>3 DEF AnswerOK, Trades!Row
    <2> QED
      BY <1>4, <2>1, <2>2
  <1>6. HistoryTypes'
    BY <1>1 DEF HistoryInv, HistoryTypes
  <1>7. AnswerStays'
    <2>1. ~quiet
      BY <1>1 DEF HistoryInv, AnswerStays
    <2> QED
      BY <1>1, <2>1 DEF AnswerStays
  <1>8. made' \in Nat /\ made <= made' /\ listed' \in Nat /\ listed <= listed'
    BY <1>1, <1>2
  <1> QED
    BY <1>1, <1>5, <1>6, <1>7, <1>8, ItemsStay, DenseStays DEF HistoryInv

\* The rows of an answer, the oldest first, as AnswerGives takes them.
LEMMA AnswerReversed ==
    ASSUME NEW n \in Nat, NEW k \in 0..n, NEW s, s = [i \in 1..k |-> Trades!Row(n + 1 - i)]
    PROVE  /\ DOMAIN Trades!OldestFirst(s) = 1..k
           /\ \A i \in 1..k : Trades!OldestFirst(s)[i] = Trades!Row((n - k + 1) - 1 + i)
  <1>1. PICK R : R = [id : Nat, time : Nat]
    OBVIOUS
  <1>2. \A i \in 1..k : Trades!Row(n + 1 - i) \in R
    <2> SUFFICES ASSUME NEW i \in 1..k PROVE Trades!Row(n + 1 - i) \in R
      OBVIOUS
    <2>1. n + 1 - i \in Nat \ {0}
      OBVIOUS
    <2> QED
      BY <1>1, <2>1, RowIs
  <1>3. k \in Nat
    OBVIOUS
  <1>4. s \in Seq(R) /\ Len(s) = k
    BY <1>2, <1>3
  <1>5. Trades!OldestFirst(s) = [i \in 1..k |-> s[(k - i) + 1]]
    BY <1>4 DEF Trades!OldestFirst, Trades!Reverse
  <1>6. ASSUME NEW i \in 1..k PROVE s[(k - i) + 1] = Trades!Row((n - k + 1) - 1 + i)
    <2>1. (k - i) + 1 \in 1..k /\ n + 1 - ((k - i) + 1) = (n - k + 1) - 1 + i
      OBVIOUS
    <2> QED
      BY <2>1
  <1> QED
    BY <1>5, <1>6

LEMMA RenderTradesKeeps == ASSUME HistoryInv, Trades!RenderTrades PROVE HistoryInv'
  <1>1. /\ fetch = "ANSWERED" /\ fetch' = "DONE"
        /\ UNCHANGED <<made, listed, from, stream, offset, answer>>
    BY DEF Trades!RenderTrades, Trades!table, Trades!feed
  <1>2. /\ Items(history) /\ \A i \in 1..Len(history) : history[i].id \in 1..made
        /\ made \in Nat /\ listed \in Nat \ {0} /\ from \in Nat /\ stream \in Nat
        /\ from <= listed /\ from <= stream
    BY ItemsOfPage
  <1>3. HistoryTypes' /\ AnswerOK'
    <2>1. made' \in Nat /\ made <= made'
      BY <1>1, <1>2
    <2> QED
      BY <1>1, <2>1, AnswerIs DEF HistoryInv, HistoryTypes
  <1>4. CASE UNCHANGED <<history, quiet>>
    <2>1. AnswerStays'
      BY <1>1, <1>4 DEF HistoryInv, AnswerStays
    <2>2. made' \in Nat /\ made <= made' /\ listed' \in Nat /\ listed <= listed'
      BY <1>1, <1>2
    <2> QED
      BY <1>1, <1>3, <1>4, <2>1, <2>2, ItemsStay, DenseStays DEF HistoryInv
  <1>5. CASE /\ history' = LoopOver(history, Trades!OldestFirst(answer))
             /\ quiet' = (history = <<>>)
    <2>1. PICK n \in 0..made, k \in 0..PageSize :
            /\ k = n \/ (k = PageSize /\ k <= n)
            /\ answer = [i \in 1..k |-> Trades!Row(n + 1 - i)]
      BY DEF HistoryInv, AnswerOK
    <2>2. n \in Nat /\ k \in 0..n /\ k \in Nat /\ n <= made
      BY <1>2, <2>1
    <2>3. PICK a \in Nat \ {0} : a = n - k + 1
      BY <2>2
    <2>4. PICK h : h = history
      OBVIOUS
    <2>5. PICK g : g = history'
      OBVIOUS
    <2>6. /\ Items(h) /\ Len(h) \in Nat /\ Len(h) <= MaxShown /\ (h = <<>> <=> Len(h) = 0)
          /\ \A i \in 1..Len(h) : h[i].id \in Nat \ {0} /\ h[i].id <= h[1].id
      BY <1>2, <2>4, ItemFacts
    <2>7. h # <<>> => 1 \in 1..Len(h) /\ h[1].id \in Nat
      <3>1. h # <<>> => 1 \in 1..Len(h)
        BY <2>6
      <3> QED
        BY <2>6, <3>1
    <2>8. PICK t \in Nat : Begins(h, a, t)
      <3>1. CASE h = <<>> \/ h[1].id < a
        <4>1. a - 1 \in Nat
          OBVIOUS
        <4> QED
          BY <3>1, <4>1 DEF Begins
      <3>2. CASE ~ (h = <<>> \/ h[1].id < a)
        BY <2>7, <3>2 DEF Begins
      <3> QED
        BY <3>1, <3>2
    <2>9. t >= a - 1 /\ (h # <<>> => h[1].id <= t) /\ (h = <<>> => t = a - 1)
          /\ (t = a - 1 \/ (h # <<>> /\ t = h[1].id))
      BY <2>7, <2>8 DEF Begins
    <2>10. Gives(h, a, t, k, g)
      <3>1. PICK s : s = Trades!OldestFirst(answer)
        OBVIOUS
      <3>2. DOMAIN s = 1..k /\ \A i \in 1..k : s[i] = Trades!Row(a - 1 + i)
        BY <2>1, <2>2, <2>3, <3>1, AnswerReversed
      <3>3. Gives(h, a, t, k, LoopOver(h, s))
        BY <2>2, <2>6, <2>8, <3>2, AnswerGives
      <3> QED
        BY <1>5, <2>4, <2>5, <3>1, <3>3
    <2>11. PICK d \in Nat : d = (IF n > t THEN n - t ELSE 0)
      <3>1. (IF n > t THEN n - t ELSE 0) \in Nat
        BY ONLY <2>2, t \in Nat
      <3> QED
        BY <3>1
    <2>12. Newer(a, t, k) = d
      <3>1. a - 1 + k = n
        BY <2>2, <2>3
      <3> QED
        BY <2>11, <3>1 DEF Newer
    <2>13. PICK m \in Nat : m = Len(h)
      BY <2>6
    <2>14. PICK l \in Nat : l = Len(g)
      <3>1. Items(g)
        BY <2>10 DEF Gives
      <3> QED
        BY <3>1, ItemFacts
    <2>15. Items(g) /\ l = (IF m + d < MaxShown THEN m + d ELSE MaxShown)
      BY <2>10, <2>12, <2>13, <2>14 DEF Gives
    <2>16. \A i \in 1..l : i > d => g[i] = h[i - d]
      BY <2>10, <2>12, <2>14 DEF Gives
    <2>17. \A i \in 1..l : i <= d => g[i].id = n + 1 - i
      <3> SUFFICES ASSUME NEW i \in 1..l, i <= d PROVE g[i].id = n + 1 - i
        OBVIOUS
      <3>1. g[i] = Trades!Row(a + k - i)
        BY <2>10, <2>12, <2>14 DEF Gives
      <3>2. a + k - i = n + 1 - i /\ n + 1 - i \in Nat \ {0}
        BY <2>2, <2>3, <2>11
      <3> QED
        BY <3>1, <3>2, RowIs
    <2>18. MaxShown \in Nat \ {0} /\ PageSize \in Nat /\ MaxShown <= PageSize
      BY HistoryConstants
    <2>19. DOMAIN g = 1..l /\ (g = <<>> <=> l = 0) /\ l <= MaxShown
      BY <2>14, <2>15, ItemFacts
    <2>20. \A i \in 1..l : i <= d => g[i].id > t /\ g[i].id \in 1..made
      <3> SUFFICES ASSUME NEW i \in 1..l, i <= d PROVE g[i].id > t /\ g[i].id \in 1..made
        OBVIOUS
      <3>1. n + 1 - i > t /\ n + 1 - i \in 1..made
        BY <1>2, <2>2, <2>11
      <3> QED
        BY <2>17, <3>1
    <2>21. /\ ItemsOK'
           /\ h # <<>> => g # <<>> /\ h[1].id <= g[1].id
           /\ h # <<>> => \A x \in (IF from = 0 THEN listed ELSE from)..h[1].id :
                x \in Trades!Ids(g) \/ x < g[Len(g)].id
      <3>1. \A i \in 1..l : i <= d => \A x \in 1..m : g[i].id > h[x].id
        <4> SUFFICES ASSUME NEW i \in 1..l, i <= d, NEW x \in 1..m PROVE g[i].id > h[x].id
          OBVIOUS
        <4>1. h # <<>> /\ h[x].id \in Nat /\ h[x].id <= h[1].id /\ h[1].id \in Nat
          BY <2>6, <2>7, <2>13
        <4>2. h[1].id <= t /\ g[i].id > t /\ g[i].id \in Nat
          BY <1>2, <2>9, <2>20, <4>1
        <4> QED
          BY ONLY <4>1, <4>2, t \in Nat
      <3>2. /\ Items(history')
            /\ Len(history') = IF Len(history) + d < MaxShown THEN Len(history) + d ELSE MaxShown
            /\ \A i \in 1..Len(history') : i > d => history'[i] = history[i - d]
            /\ \A i \in 1..Len(history') : i <= d => history'[i].id \in 1..made
            /\ \A i \in 1..Len(history') : i <= d => \A x \in 1..Len(history) :
                 history'[i].id > history[x].id
        BY <2>4, <2>5, <2>13, <2>14, <2>15, <2>16, <2>20, <3>1
      <3>3. made' = made
        BY <1>1
      <3>4. /\ ItemsOK'
            /\ history # <<>> => history' # <<>> /\ history[1].id <= history'[1].id
            /\ history # <<>> => \A x \in (IF from = 0 THEN listed ELSE from)..history[1].id :
                x \in Trades!Ids(history') \/ x < history'[Len(history')].id
        BY <3>2, <3>3, NewerOnTop
      <3> QED
        BY <2>4, <2>5, <3>4
    <2>22. ASSUME NEW x \in Nat \ {0}, x <= g[1].id, g # <<>>, h = <<>> \/ x > h[1].id
           PROVE  x \in Trades!Ids(g) \/ x < g[l].id
      <3>1. l >= 1 /\ 1 \in 1..l /\ l \in 1..l
        BY <2>19, <2>22
      <3>2. d > 0
        <4> SUFFICES ASSUME d = 0 PROVE FALSE
          OBVIOUS
        <4>1. g[1] = h[1]
          BY <2>16, <3>1
        <4>2. m # 0
          BY <2>15, <3>1
        <4>3. h # <<>>
          BY <2>6, <2>13, <4>2
        <4> QED
          BY <2>7, <2>22, <4>1, <4>3
      <3>3. g[1].id = n
        BY <2>2, <2>17, <3>1, <3>2
      <3>4. CASE x > t
        <4>1. PICK i \in 1..d : i = n + 1 - x
          BY <2>2, <2>11, <2>22, <3>2, <3>3, <3>4
        <4>2. CASE i <= l
          <5>1. i \in 1..l /\ i <= d
            BY <4>2
          <5>2. g[i].id = n + 1 - i
            BY <2>17, <5>1
          <5>3. n + 1 - i = x
            BY <2>2, <4>1
          <5> QED
            BY <2>19, <5>1, <5>2, <5>3 DEF Trades!Ids
        <4>3. CASE ~ (i <= l)
          <5>1. g[l].id = n + 1 - l
            BY <2>17, <3>1, <4>3
          <5>2. n + 1 - l > x
            BY <2>2, <4>1, <4>3
          <5> QED
            BY <5>1, <5>2
        <4> QED
          BY <4>2, <4>3
      <3>5. CASE x <= t
        <4>1. t = a - 1
          <5>1. ~ (h # <<>> /\ t = h[1].id)
            BY <2>7, <2>22, <3>5
          <5> QED
            BY <2>9, <5>1
        <4>2. k < n /\ d = k
          BY <2>2, <2>3, <2>11, <2>22, <3>2, <3>5, <4>1
        <4>3. k >= MaxShown
          BY <2>1, <2>2, <2>18, <4>2
        <4>4. l = MaxShown /\ l <= d
          BY <2>15, <2>18, <4>2, <4>3
        <4>5. g[l].id = n + 1 - l
          BY <2>17, <3>1, <4>4
        <4>6. n + 1 - l > x
          BY <2>2, <2>3, <3>5, <4>1, <4>2, <4>4
        <4> QED
          BY <4>5, <4>6
      <3> QED
        BY <3>4, <3>5
    <2>23. ItemsAreDense'
      <3>1. ItemsAreDense
        BY DEF HistoryInv
      <3>2. g = <<>> => stream = from
        BY <2>4, <2>21, <3>1 DEF ItemsAreDense
      <3>3. ASSUME g # <<>> PROVE stream <= from \/ stream <= g[1].id + 1
        <4>1. CASE h = <<>>
          BY <1>2, <2>4, <3>1, <4>1 DEF ItemsAreDense
        <4>2. CASE h # <<>>
          <5>1. stream <= from \/ stream <= h[1].id + 1
            BY <2>4, <3>1, <4>2 DEF ItemsAreDense
          <5>2. 1 \in 1..l
            BY <2>19, <3>3
          <5>3. g[1].id \in Nat
            BY <2>14, <2>15, <5>2, ItemFacts
          <5> QED
            BY <1>2, <2>7, <2>21, <4>2, <5>1, <5>3
        <4> QED
          BY <4>1, <4>2
      <3>4. ASSUME g # <<>>, NEW x \in (IF from = 0 THEN listed ELSE from)..g[1].id
            PROVE  x \in Trades!Ids(g) \/ x < g[Len(g)].id
        <4>1. 1 \in 1..l
          BY <2>19, <3>4
        <4>2. g[1].id \in Nat
          BY <2>14, <2>15, <4>1, ItemFacts
        <4>3. PICK b \in Nat \ {0} : b = (IF from = 0 THEN listed ELSE from)
          BY <1>2
        <4>4. x \in Nat \ {0} /\ x <= g[1].id /\ b <= x
          BY <3>4, <4>2, <4>3
        <4>5. CASE h = <<>> \/ x > h[1].id
          BY <2>14, <2>22, <3>4, <4>4, <4>5
        <4>6. CASE h # <<>> /\ ~ (x > h[1].id)
          <5>1. x \in b..h[1].id
            BY <2>7, <4>4, <4>6
          <5> QED
            BY <2>21, <4>3, <4>6, <5>1
        <4> QED
          BY <4>5, <4>6
      <3> QED
        BY <1>1, <2>5, <3>2, <3>3, <3>4 DEF ItemsAreDense, Trades!Ids
    <2>24. AnswerStays'
      <3>6. fetch' = "DONE" /\ answer' = answer /\ history' = g /\ (quiet' => h = <<>>)
        BY <1>1, <1>5, <2>4, <2>5
      <3> SUFFICES ASSUME h = <<>>, NEW y \in Trades!Ids(answer)
                   PROVE  y \in Trades!Ids(g) \/ (Len(g) = MaxShown /\ y < g[MaxShown].id)
        BY <3>6 DEF AnswerStays, Trades!Ids
      <3>1. m = 0 /\ d = k
        BY <2>2, <2>3, <2>6, <2>9, <2>11, <2>13
      <3>2. PICK i \in 1..k : y = Trades!Row(n + 1 - i).id
        BY <2>1 DEF Trades!Ids
      <3>3. y = n + 1 - i
        <4>1. n + 1 - i \in Nat \ {0}
          BY <2>2
        <4> QED
          BY <3>2, <4>1, RowIs
      <3>4. CASE i <= l
        <4>1. i \in 1..l /\ i <= d
          BY <3>1, <3>4
        <4>2. g[i].id = y
          BY <2>17, <3>3, <4>1
        <4> QED
          BY <2>19, <4>1, <4>2 DEF Trades!Ids
      <3>5. CASE ~ (i <= l)
        <4>1. l = MaxShown /\ l <= d /\ l \in 1..l
          BY <2>15, <2>18, <3>1, <3>5
        <4>2. g[l].id = n + 1 - l
          BY <2>17, <4>1
        <4>3. n + 1 - l > n + 1 - i
          BY <2>2, <3>5
        <4> QED
          BY <2>14, <3>3, <4>1, <4>2, <4>3
      <3> QED
        BY <3>4, <3>5
    <2> QED
      BY <1>3, <2>21, <2>23, <2>24 DEF HistoryInv
  <1> QED
    BY <1>4, <1>5 DEF Trades!RenderTrades, LoopOver

-----------------------------------------------------------------------------
(* Together.                                                               *)

LEMMA HistoryStepKeepsInv == ASSUME HistoryInv, [ExampleNext]_exampleVars PROVE HistoryInv'
  <1>1. CASE UNCHANGED historyVars
    <2>1. UNCHANGED <<made, listed, from, stream, fetch, offset, answer, history, quiet>>
      BY <1>1 DEF historyVars
    <2>2. made' \in Nat /\ made <= made' /\ listed' \in Nat /\ listed <= listed'
      BY <2>1, ItemsOfPage
    <2>3. HistoryTypes' /\ AnswerStays'
      BY <2>1 DEF HistoryInv, HistoryTypes, AnswerStays, Trades!Ids
    <2> QED
      BY <2>1, <2>2, <2>3, ItemsStay, AnswerIs, DenseStays DEF HistoryInv
  <1>2. CASE Trades!Next
    BY <1>2, MakeTradeKeeps, CacheListKeeps, ConnectionKeeps, RenderKeeps, FetchTradesKeeps,
       MarketTradesKeeps, RenderTradesKeeps DEF Trades!Next
  <1> QED
    BY <1>1, <1>2 DEF ExampleNext, CandleStep, CopyStep, TradeStep, AccountStep, LimiterStep,
                      PoolStep, exampleVars

LEMMA TradesLibrary == \A S : Trades!Cardinality(S) = Cardinality(S)
  BY DEF Trades!Cardinality, Cardinality

\* On a full page there are MaxShown trades.
LEMMA FullPage ==
    ASSUME Items(history), Len(history) = MaxShown
    PROVE  Cardinality(Trades!Ids(history)) = MaxShown
  <1> DEFINE f == [i \in 1..MaxShown |-> history[i].id]
  <1>1. MaxShown \in Nat
    BY HistoryConstants
  <1>2. DOMAIN history = 1..MaxShown /\ \A i \in 1..MaxShown : history[i].id \in Nat
    BY ItemFacts
  <1>3. Trades!Ids(history) = {history[i].id : i \in 1..MaxShown}
    BY <1>2 DEF Trades!Ids
  <1>4. ASSUME NEW i \in 1..MaxShown, NEW j \in 1..MaxShown, history[i].id = history[j].id
        PROVE  i = j
    <2>1. \A a, b \in 1..MaxShown : a < b => history[a].id > history[b].id
      BY <1>2 DEF Items
    <2>2. ~ (i < j) /\ ~ (j < i)
      BY <1>2, <1>4, <2>1
    <2> QED
      BY <2>2
  <1>5. f \in [1..MaxShown -> Trades!Ids(history)]
    BY <1>3
  <1>6. \A a, b \in 1..MaxShown : f[a] = f[b] => a = b
    BY <1>4
  <1>7. \A x \in Trades!Ids(history) : \E i \in 1..MaxShown : f[i] = x
    BY <1>3
  <1> HIDE DEF f
  <1>8. f \in Bijection(1..MaxShown, Trades!Ids(history))
    BY <1>5, <1>6, <1>7 DEF Bijection, Injection, Surjection, IsInjective
  <1> QED
    BY <1>1, <1>8, FS_CountingElements DEF ExistsBijection

LEMMA HistoryFollows == ASSUME HistoryInv PROVE HistoryIsRight
  <1>1. /\ Items(history) /\ \A i \in 1..Len(history) : history[i].id \in 1..made
        /\ made \in Nat /\ listed \in Nat \ {0} /\ from \in Nat /\ stream \in Nat
        /\ from <= listed /\ from <= stream
    BY ItemsOfPage
  <1>2. /\ Len(history) \in Nat /\ DOMAIN history = 1..Len(history) /\ Len(history) <= MaxShown
        /\ (history = <<>> <=> Len(history) = 0)
        /\ \A i \in 1..Len(history) : history[i].id \in Nat \ {0} /\ history[i].id <= history[1].id
    BY <1>1, ItemFacts
  <1>3. PICK n \in 0..made, k \in 0..PageSize :
          /\ k = n \/ (k = PageSize /\ k <= n)
          /\ answer = [i \in 1..k |-> Trades!Row(n + 1 - i)]
    BY DEF HistoryInv, AnswerOK
  <1>4. n \in Nat /\ k \in Nat /\ k <= n /\ k <= PageSize /\ n <= made
    BY <1>1, <1>3, HistoryConstants
  <1>5. Len(answer) = k /\ Trades!Ids(answer) \subseteq 1..made
    <2>1. Len(answer) = k
      BY <1>3, <1>4
    <2>2. ASSUME NEW i \in 1..k PROVE Trades!Row(n + 1 - i).id \in 1..made
      <3>1. n + 1 - i \in Nat \ {0} /\ n + 1 - i \in 1..made
        BY <1>1, <1>4
      <3> QED
        BY <3>1, RowIs
    <2> QED
      BY <1>3, <2>1, <2>2 DEF Trades!Ids
  <1>6. Trades!TypeOK
    <2>1. Trades!Ids(history) \subseteq 1..made
      BY <1>1, <1>2 DEF Trades!Ids
    <2>2. from \in 0..made + 1
      BY <1>1 DEF HistoryInv, HistoryTypes
    <2> QED
      BY <1>2, <1>4, <1>5, <2>1, <2>2 DEF Trades!TypeOK, HistoryInv, HistoryTypes
  <1>7. Trades!NewestOnTop
    BY DEF HistoryInv, ItemsOK
  <1>8. Trades!StreamLeavesNoHole
    <2> SUFFICES ASSUME from # 0, NEW x \in from..stream - 1
                 PROVE  x \in Trades!Ids(history) \/ x < history[Len(history)].id
      BY DEF Trades!StreamLeavesNoHole
    <2>1. from < stream
      BY <1>1
    <2>2. history # <<>>
      BY <1>1, <2>1 DEF HistoryInv, ItemsAreDense
    <2>3. 1 \in 1..Len(history)
      BY <1>2, <2>2
    <2>4. history[1].id \in Nat /\ stream <= history[1].id + 1
      BY <1>1, <1>2, <2>1, <2>2, <2>3 DEF HistoryInv, ItemsAreDense
    <2>5. x \in (IF from = 0 THEN listed ELSE from)..history[1].id
      BY <1>1, <2>4
    <2> QED
      BY <2>2, <2>5 DEF HistoryInv, ItemsAreDense
  <1>9. Trades!AnswerIsShown
    <2> SUFFICES ASSUME quiet, NEW x \in Trades!Ids(answer), x \notin Trades!Ids(history)
                 PROVE  Trades!Cardinality({y \in Trades!Ids(history) : y > x}) = MaxShown
      BY DEF Trades!AnswerIsShown
    <2>1. Len(history) = MaxShown /\ x < history[MaxShown].id
      BY DEF HistoryInv, AnswerStays
    <2>2. \A y \in Trades!Ids(history) : y > x
      <3> SUFFICES ASSUME NEW i \in 1..Len(history) PROVE history[i].id > x
        BY <1>2 DEF Trades!Ids
      <3>1. history[Len(history)].id <= history[i].id
        BY <1>1, ItemFacts
      <3>2. MaxShown \in 1..Len(history) /\ x \in Nat
        BY <1>1, <1>5, <2>1, HistoryConstants
      <3>3. history[MaxShown].id \in Nat /\ history[i].id \in Nat
        BY <1>2, <3>2
      <3> QED
        BY <2>1, <3>1, <3>2, <3>3
    <2>3. {y \in Trades!Ids(history) : y > x} = Trades!Ids(history)
      BY <2>2
    <2> QED
      BY <1>1, <2>1, <2>3, FullPage, TradesLibrary
  <1> QED
    BY <1>6, <1>7, <1>8, <1>9 DEF HistoryIsRight

\* The inductive invariant of the list of trades.
THEOREM HistoryInvariance == ExampleSpec => []HistoryInv
  <1>1. ASSUME ExampleInit PROVE HistoryInv
    BY <1>1, HistoryStarts DEF ExampleInit
  <1>2. ASSUME HistoryInv, [ExampleNext]_exampleVars PROVE HistoryInv'
    BY <1>2, HistoryStepKeepsInv
  <1> QED
    BY <1>1, <1>2, PTL DEF ExampleSpec

\* For any length of the list and of an answer, any skew of the clock of the browser, and
\* reconnections at any time, the trades on the page are in order and each is there once,
\* those that came as events have no hole, and an answer that found the page empty is shown
\* (addTradeEntry and fetchTrades of example/web/src/market/index.js).
THEOREM HistoryIsKept == ExampleSpec => []HistoryIsRight
  <1>1. HistoryInv => HistoryIsRight
    BY HistoryFollows
  <1> QED
    BY <1>1, HistoryInvariance, PTL

-----------------------------------------------------------------------------
(* Candles.                                                                *)

\* The lemmas about sums, which hold whatever orders there are.
Sum == INSTANCE OrderProofs WITH
    MaxPrice <- 1, Price <- {1}, QuoteMinimum <- 1, AskAmount <- {}, BidFunds <- {}

LEMMA SumAssumption == Sum!PriceAssumption /\ Sum!SizeAssumption
  BY DEF Sum!PriceAssumption, Sum!SizeAssumption

Total(f, S) == Sum!SumFunctionOnSet(f, S)

LEMMA ChartLibrary ==
    ASSUME NEW c
    PROVE  /\ \A f, S : Chart(c)!SumFunctionOnSet(f, S) = Total(f, S)
           /\ \A S : Chart(c)!Cardinality(S) = Cardinality(S)
  <1>1. ASSUME NEW f, NEW S PROVE Chart(c)!SumFunctionOnSet(f, S) = Total(f, S)
    BY DEF Total, Chart!SumFunctionOnSet, Sum!SumFunctionOnSet, Chart!FoldFunctionOnSet, Sum!FoldFunctionOnSet,
       Chart!MapThenFoldSet, Sum!MapThenFoldSet
  <1>2. \A S : Chart(c)!Cardinality(S) = Cardinality(S)
    BY DEF Chart!Cardinality, Cardinality
  <1> QED
    BY <1>1, <1>2

LEMMA SumFinite == \A S : IsFiniteSet(S) => Sum!IsFiniteSet(S)
  BY DEF IsFiniteSet, Sum!IsFiniteSet

\* Every non-empty set of finite subsets of S has a member without a smaller one.
LEMMA SmallestOf ==
    ASSUME NEW S, IsFiniteSet(S), NEW T, T \subseteq SUBSET S, T # {}
    PROVE  \E u \in T : \A v \in T : v \subseteq u => v = u
  BY SumAssumption, SumFinite, Sum!SmallestSet

LEMMA SumNone == ASSUME NEW f PROVE Total(f, {}) = 0
  BY SumAssumption, Sum!SumEmpty DEF Total

LEMMA SumTypes ==
    ASSUME NEW S, IsFiniteSet(S), NEW f, \A x \in S : f[x] \in Nat
    PROVE  Total(f, S) \in Nat
  BY SumAssumption, SumFinite, Sum!SumType DEF Total

LEMMA SumTakes ==
    ASSUME NEW S, IsFiniteSet(S), NEW f, \A x \in S : f[x] \in Nat, NEW x \in S
    PROVE  Total(f, S) = f[x] + Total(f, S \ {x})
  <1>1. \A y \in S : f[y] \in Int
    OBVIOUS
  <1> QED
    BY <1>1, SumAssumption, SumFinite, Sum!SumRemove DEF Total

LEMMA SumEqual ==
    ASSUME NEW S, IsFiniteSet(S), NEW f, NEW g, \A x \in S : f[x] = g[x]
    PROVE  Total(f, S) = Total(g, S)
  BY SumAssumption, SumFinite, Sum!SumSame DEF Total

LEMMA SumMore ==
    ASSUME NEW S, IsFiniteSet(S), NEW f, NEW x, x \notin S, \A y \in S \cup {x} : f[y] \in Nat
    PROVE  Total(f, S \cup {x}) = Total(f, S) + f[x]
  <1>1. \A y \in S \cup {x} : f[y] \in Int
    OBVIOUS
  <1> QED
    BY <1>1, SumAssumption, SumFinite, Sum!SumAdd DEF Total

\* The sum over two disjoint sets.
LEMMA SumOfBoth ==
    ASSUME NEW S, IsFiniteSet(S), NEW A \in SUBSET S, NEW B \in SUBSET S, A \cap B = {},
           NEW f, \A x \in S : f[x] \in Nat
    PROVE  Total(f, A \cup B) = Total(f, A) + Total(f, B)
  <1> DEFINE Bad == {s \in SUBSET B : Total(f, A \cup s) # Total(f, A) + Total(f, s)}
  <1> SUFFICES ASSUME Bad # {} PROVE FALSE
    OBVIOUS
  <1>1. Bad \subseteq SUBSET S
    OBVIOUS
  <1> HIDE DEF Bad
  <1>2. PICK u \in Bad : \A v \in Bad : v \subseteq u => v = u
    BY <1>1, SmallestOf
  <1>3. u \in SUBSET B /\ Total(f, A \cup u) # Total(f, A) + Total(f, u)
    BY DEF Bad
  <1>4. IsFiniteSet(A) /\ IsFiniteSet(u) /\ IsFiniteSet(A \cup u)
    BY <1>3, FS_Subset
  <1>5. Total(f, A) \in Nat
    BY <1>4, SumTypes
  <1>6. u # {}
    <2> SUFFICES ASSUME u = {} PROVE FALSE
      OBVIOUS
    <2>1. A \cup u = A /\ Total(f, u) = 0
      BY SumNone
    <2> QED
      BY <1>3, <1>5, <2>1
  <1>7. PICK x \in u : TRUE
    BY <1>6
  <1> DEFINE v == u \ {x}
  <1>8. v \in SUBSET B /\ v # u /\ v \subseteq u /\ (A \cup u) \ {x} = A \cup v
    BY <1>3
  <1>9. Total(f, A \cup v) = Total(f, A) + Total(f, v)
    BY <1>2, <1>8 DEF Bad
  <1>10. Total(f, u) = f[x] + Total(f, v)
    BY <1>3, <1>4, SumTakes
  <1>11. Total(f, A \cup u) = f[x] + Total(f, A \cup v)
    <2>1. x \in A \cup u /\ \A y \in A \cup u : f[y] \in Nat
      BY <1>3
    <2>2. Total(f, A \cup u) = f[x] + Total(f, (A \cup u) \ {x})
      BY <1>4, <2>1, SumTakes
    <2> QED
      BY <1>8, <2>2
  <1>12. f[x] \in Nat /\ Total(f, v) \in Nat
    <2>1. IsFiniteSet(v) /\ \A y \in v : f[y] \in Nat
      BY <1>3, <1>4, FS_Subset
    <2> QED
      BY <1>3, <2>1, SumTypes
  <1> QED
    BY ONLY <1>3, <1>5, <1>9, <1>10, <1>11, <1>12

LEMMA SumOfPart ==
    ASSUME NEW S, IsFiniteSet(S), NEW A \in SUBSET S, NEW f, \A x \in S : f[x] \in Nat
    PROVE  Total(f, A) <= Total(f, S)
  <1>1. A \cup (S \ A) = S /\ A \cap (S \ A) = {} /\ S \ A \in SUBSET S
    OBVIOUS
  <1>2. Total(f, S) = Total(f, A) + Total(f, S \ A)
    BY <1>1, SumOfBoth
  <1>3. IsFiniteSet(A) /\ IsFiniteSet(S \ A)
    BY FS_Subset
  <1>4. Total(f, A) \in Nat /\ Total(f, S \ A) \in Nat
    BY <1>3, SumTypes
  <1> QED
    BY <1>2, <1>4

-----------------------------------------------------------------------------
(* What a candle says of its trades.                                       *)

LEMMA CaseFacts ==
    ASSUME NEW c, Chart(c)!CandlesAssumption
    PROVE  /\ c.tradePrice \subseteq Nat \ {0} /\ c.tradeAmount \subseteq Nat \ {0}
           /\ c.granularity \subseteq Nat \ {0} /\ c.statsGranularity \in c.granularity
           /\ c.limit \in Nat \ {0} /\ c.maxTies \in Nat /\ c.maxTies < c.limit
           /\ c.day \in Nat /\ c.maxTime \in Nat \ {0} /\ c.maxTrades \in Nat
  BY DEF Chart!CandlesAssumption

\* The trades S of t, some of which are pending, make the candle e.
Amounts(t) == [i \in DOMAIN t |-> t[i].amount]
Worths(t) == [i \in DOMAIN t |-> t[i].price * t[i].amount]
Describes(t, S, e, pending, exact) ==
    /\ \E i \in S : e.open = t[i].price /\ \A j \in S : t[i].at <= t[j].at
    /\ \E i \in S : e.close = t[i].price
    /\ \E l \in S : /\ \A j \in S : t[l].at >= t[j].at
                    /\ e.close = t[l].price \/ l \in pending
    /\ \E i \in S : e.high = t[i].price
    /\ \E i \in S : e.low = t[i].price
    /\ \A i \in S : e.low <= t[i].price /\ t[i].price <= e.high
    /\ e.volume >= Total(Amounts(t), S) /\ e.total >= Total(Worths(t), S)
    /\ exact => e.volume = Total(Amounts(t), S) /\ e.total = Total(Worths(t), S)

Mine(t, h, k) == {i \in h : t[i].at - (t[i].at % k[1]) = k[2]}
Pending == {j \in handled : j \notin cache /\ trades[j].at >= property}

LEMMA CandleDescribes ==
    ASSUME NEW c, NEW k
    PROVE  CandleOK(c, k) <=>
             Describes(trades, Mine(trades, handled, k), candles[k], Pending, restarts + lost = 0)
  <1> DEFINE S == Mine(trades, handled, k)
             e == candles[k]
  <1>1. Chart(c)!TradesIn(k) = S
    BY DEF Chart!TradesIn, Chart!Truncate, Mine
  <1>2. Chart(c)!SumOf(S) = Total(Amounts(trades), S) /\ Chart(c)!WorthOf(S) = Total(Worths(trades), S)
    BY ChartLibrary DEF Chart!SumOf, Chart!WorthOf, Amounts, Worths
  <1>3. S \subseteq handled
    BY DEF Mine
  <1> HIDE DEF S
  <1>4. e.open \in Chart(c)!Prices(Chart(c)!Earliest(S)) <=>
          \E i \in S : e.open = trades[i].price /\ \A j \in S : trades[i].at <= trades[j].at
    BY DEF Chart!Prices, Chart!Earliest
  <1>5. e.close \in Chart(c)!Prices(S) <=> \E i \in S : e.close = trades[i].price
    BY DEF Chart!Prices
  <1>6. e.close \in Chart(c)!Prices(Chart(c)!Latest(S)) <=>
          \E i \in S : e.close = trades[i].price /\ \A j \in S : trades[i].at >= trades[j].at
    BY DEF Chart!Prices, Chart!Latest
  <1>7. (\E j \in Chart(c)!Latest(S) : j \notin cache /\ trades[j].at >= property) <=>
          \E l \in S : l \in Pending /\ \A j \in S : trades[l].at >= trades[j].at
    BY <1>3 DEF Pending, Chart!Latest
  <1>8. {e.high, e.low} \subseteq Chart(c)!Prices(S) <=>
          (\E i \in S : e.high = trades[i].price) /\ (\E i \in S : e.low = trades[i].price)
    BY DEF Chart!Prices
  <1>9. CandleOK(c, k) <=>
          /\ \E i \in S : e.open = trades[i].price /\ \A j \in S : trades[i].at <= trades[j].at
          /\ \/ \E i \in S : e.close = trades[i].price /\ \A j \in S : trades[i].at >= trades[j].at
             \/ /\ \E i \in S : e.close = trades[i].price
                /\ \E l \in S : l \in Pending /\ \A j \in S : trades[l].at >= trades[j].at
          /\ (\E i \in S : e.high = trades[i].price) /\ (\E i \in S : e.low = trades[i].price)
          /\ \A i \in S : e.low <= trades[i].price /\ trades[i].price <= e.high
          /\ e.volume >= Total(Amounts(trades), S) /\ e.total >= Total(Worths(trades), S)
          /\ restarts + lost = 0 =>
               e.volume = Total(Amounts(trades), S) /\ e.total = Total(Worths(trades), S)
    BY <1>1, <1>2, <1>4, <1>5, <1>6, <1>7, <1>8 DEF CandleOK
  <1> HIDE DEF e
  <1>10. (\/ \E i \in S : e.close = trades[i].price /\ \A j \in S : trades[i].at >= trades[j].at
          \/ /\ \E i \in S : e.close = trades[i].price
             /\ \E l \in S : l \in Pending /\ \A j \in S : trades[l].at >= trades[j].at)
         <=> /\ \E i \in S : e.close = trades[i].price
             /\ \E l \in S : /\ \A j \in S : trades[l].at >= trades[j].at
                             /\ e.close = trades[l].price \/ l \in Pending
    BY Zenon
  <1>11. CandleOK(c, k) <=> Describes(trades, S, e, Pending, restarts + lost = 0)
    BY <1>9, <1>10 DEF Describes
  <1> QED
    BY <1>11 DEF S, e

LEMMA CandleDescribesNext ==
    ASSUME NEW c, NEW k
    PROVE  CandleOK(c, k)' <=>
             Describes(trades', Mine(trades', handled', k), candles'[k], Pending', restarts' + lost' = 0)
  <1>1. CandleOK(c, k) <=>
          Describes(trades, Mine(trades, handled, k), candles[k], Pending, restarts + lost = 0)
    BY CandleDescribes
  <1>2. (CandleOK(c, k) <=>
          Describes(trades, Mine(trades, handled, k), candles[k], Pending, restarts + lost = 0))'
    BY <1>1, PTL
  <1> QED
    BY <1>2

-----------------------------------------------------------------------------
(* The candle of the first trade, of the same trades, of one trade more.   *)

\* The trades of the exchange.
InTime(t) ==
    /\ t \in Seq(TradeAt)
    /\ \A i, j \in DOMAIN t : i < j => t[i].at <= t[j].at

LEMMA TradeFacts ==
    ASSUME NEW t, InTime(t)
    PROVE  /\ Len(t) \in Nat /\ DOMAIN t = 1..Len(t) /\ IsFiniteSet(DOMAIN t)
           /\ \A i \in DOMAIN t : /\ i \in Nat \ {0}
                                  /\ t[i].price \in Nat \ {0}
                                  /\ t[i].amount \in Nat \ {0}
                                  /\ t[i].at \in Nat
           /\ \A i, j \in DOMAIN t : t[i].at < t[j].at => i < j
           /\ \A i \in DOMAIN t : Amounts(t)[i] \in Nat /\ Worths(t)[i] \in Nat
           /\ \A S \in SUBSET DOMAIN t : IsFiniteSet(S)
  <1>1. Len(t) \in Nat /\ DOMAIN t = 1..Len(t)
    BY DEF InTime
  <1>2. IsFiniteSet(DOMAIN t)
    BY <1>1, FS_Interval
  <1>3. ASSUME NEW i \in DOMAIN t
        PROVE  /\ i \in Nat \ {0}
               /\ t[i].price \in Nat \ {0}
               /\ t[i].amount \in Nat \ {0}
               /\ t[i].at \in Nat
    <2>1. t[i] \in TradeAt
      BY <1>1 DEF InTime
    <2> QED
      BY <1>1, <2>1 DEF TradeAt
  <1>4. ASSUME NEW i \in DOMAIN t, NEW j \in DOMAIN t, t[i].at < t[j].at PROVE i < j
    <2>1. j < i => t[j].at <= t[i].at
      BY DEF InTime
    <2>2. t[i].at \in Nat /\ t[j].at \in Nat /\ i \in Nat /\ j \in Nat
      BY <1>3
    <2>3. i # j
      BY <1>4, <2>2
    <2> QED
      BY <1>4, <2>1, <2>2, <2>3
  <1>5. ASSUME NEW i \in DOMAIN t PROVE Amounts(t)[i] \in Nat /\ Worths(t)[i] \in Nat
    <2>1. Amounts(t)[i] = t[i].amount /\ Worths(t)[i] = t[i].price * t[i].amount
      BY DEF Amounts, Worths
    <2>2. \A a, b \in Nat : a * b \in Nat
      OBVIOUS
    <2> QED
      BY <1>3, <2>1, <2>2
  <1>6. \A S \in SUBSET DOMAIN t : IsFiniteSet(S)
    BY <1>2, FS_Subset
  <1> QED
    BY <1>1, <1>2, <1>3, <1>4, <1>5, <1>6

\* The fields of candle d, which is e with trade w added.
Increases(d, e, w) ==
    /\ d \in CandleFields
    /\ d.open = e.open /\ d.close = w.price
    /\ d.high = IF w.price > e.high THEN w.price ELSE e.high
    /\ d.low = IF w.price < e.low THEN w.price ELSE e.low
    /\ d.volume = e.volume + w.amount /\ d.total = e.total + w.price * w.amount

LEMMA FieldsAfter ==
    ASSUME NEW c, NEW w, w.price \in Nat, w.amount \in Nat, NEW e \in CandleFields
    PROVE  Chart(c)!OfTrade(w) \in CandleFields /\ Increases(Chart(c)!Added(e, w), e, w)
  <1>1. \A a, b \in Nat : a * b \in Nat /\ a + b \in Nat
    OBVIOUS
  <1>2. Chart(c)!OfTrade(w) \in CandleFields
    BY <1>1 DEF Chart!OfTrade, CandleFields
  <1> DEFINE a == w.price * w.amount
  <1>3. a \in Nat
    BY <1>1
  <1> DEFINE h == IF w.price > e.high THEN w.price ELSE e.high
             l == IF w.price < e.low THEN w.price ELSE e.low
  <1>4. Chart(c)!Added(e, w) =
          [e EXCEPT !.close = w.price, !.high = h, !.low = l, !.volume = e.volume + w.amount,
                    !.total = e.total + a]
    BY DEF Chart!Added
  <1>5. e.volume \in Nat /\ e.total \in Nat /\ e.high \in Nat /\ e.low \in Nat
    BY DEF CandleFields
  <1>6. {w.price, h, l, e.volume + w.amount, e.total + a} \subseteq Nat
    <2> HIDE DEF a
    <2> QED
      BY <1>3, <1>5
  <1> DEFINE d == Chart(c)!Added(e, w)
             v == e.volume + w.amount
             z == e.total + a
             p == w.price
  <1> HIDE DEF a, h, l, d, v, z, p
  <1>7. d = [e EXCEPT !.close = p, !.high = h, !.low = l, !.volume = v, !.total = z]
    BY <1>4 DEF d, v, z, p
  <1>8. {p, h, l, v, z} \subseteq Nat
    BY <1>6 DEF v, z, p
  <1>9. /\ d.open = e.open /\ d.close = p /\ d.high = h /\ d.low = l
        /\ d.volume = v /\ d.total = z
        /\ d \in CandleFields
    BY ONLY <1>7, <1>8, e \in CandleFields DEF CandleFields
  <1> QED
    BY <1>2, <1>9 DEF a, h, l, d, v, z, p, Increases

LEMMA DescribesFirst ==
    ASSUME NEW c, NEW t, InTime(t), NEW i \in DOMAIN t, NEW pending, NEW exact
    PROVE  Describes(t, {i}, Chart(c)!OfTrade(t[i]), pending, exact)
  <1> DEFINE e == Chart(c)!OfTrade(t[i])
  <1>1. t[i].price \in Nat /\ t[i].amount \in Nat /\ t[i].at \in Nat
    BY TradeFacts
  <1>2. /\ e.open = t[i].price /\ e.close = t[i].price /\ e.high = t[i].price /\ e.low = t[i].price
        /\ e.volume = t[i].amount /\ e.total = t[i].price * t[i].amount
    BY DEF Chart!OfTrade
  <1>3. Total(Amounts(t), {i}) = t[i].amount
    <2>1. IsFiniteSet({i}) /\ \A x \in {i} : Amounts(t)[x] \in Nat
      BY TradeFacts, FS_Singleton
    <2>2. Total(Amounts(t), {i}) = Amounts(t)[i] + Total(Amounts(t), {i} \ {i})
      BY <2>1, SumTakes
    <2>3. {i} \ {i} = {} /\ Amounts(t)[i] = t[i].amount
      BY DEF Amounts
    <2> QED
      BY <1>1, <2>2, <2>3, SumNone
  <1>4. Total(Worths(t), {i}) = t[i].price * t[i].amount
    <2>1. IsFiniteSet({i}) /\ \A x \in {i} : Worths(t)[x] \in Nat
      BY TradeFacts, FS_Singleton
    <2>2. Total(Worths(t), {i}) = Worths(t)[i] + Total(Worths(t), {i} \ {i})
      BY <2>1, SumTakes
    <2>3. {i} \ {i} = {} /\ Worths(t)[i] = t[i].price * t[i].amount
      BY DEF Worths
    <2>4. Worths(t)[i] \in Nat /\ Total(Worths(t), {i} \ {i}) = 0
      BY <2>1, <2>3, SumNone
    <2> QED
      BY <2>2, <2>3, <2>4
  <1>5. Total(Amounts(t), {i}) \in Nat /\ Total(Worths(t), {i}) \in Nat
    <2>1. Worths(t)[i] \in Nat /\ Worths(t)[i] = t[i].price * t[i].amount
      BY TradeFacts DEF Worths
    <2> QED
      BY <1>1, <1>3, <1>4, <2>1
  <1> HIDE DEF e
  <1> QED
    BY <1>1, <1>2, <1>3, <1>4, <1>5 DEF Describes, e

LEMMA DescribesSame ==
    ASSUME NEW t, InTime(t), NEW u, InTime(u), NEW S \in SUBSET DOMAIN t, S \subseteq DOMAIN u,
           \A i \in S : u[i] = t[i],
           NEW e, NEW p, NEW q, NEW x \in BOOLEAN, NEW y \in BOOLEAN,
           Describes(t, S, e, p, x), \A i \in S : i \in p => i \in q, y => x
    PROVE  Describes(u, S, e, q, y)
  <1>1. IsFiniteSet(S)
    BY TradeFacts
  <1>2. Total(Amounts(u), S) = Total(Amounts(t), S)
    <2>1. \A i \in S : Amounts(u)[i] = Amounts(t)[i]
      BY DEF Amounts
    <2> QED
      BY <1>1, <2>1, SumEqual
  <1>3. Total(Worths(u), S) = Total(Worths(t), S)
    <2>1. \A i \in S : Worths(u)[i] = Worths(t)[i]
      BY DEF Worths
    <2> QED
      BY <1>1, <2>1, SumEqual
  <1> QED
    BY <1>2, <1>3 DEF Describes

LEMMA DescribesAdd ==
    ASSUME NEW c, NEW t, InTime(t), NEW S \in SUBSET DOMAIN t, NEW i \in DOMAIN t,
           NEW e \in CandleFields, NEW p, NEW q, NEW x \in BOOLEAN, NEW y \in BOOLEAN,
           Describes(t, S, e, p, x),
           i \notin S => \A j \in S : t[j].at <= t[i].at,
           \A l \in S : t[l].at > t[i].at => l \in q,
           y => x /\ i \notin S
    PROVE  Describes(t, S \cup {i}, Chart(c)!Added(e, t[i]), q, y)
  <1> DEFINE w == t[i]
             d == Chart(c)!Added(e, w)
             U == S \cup {i}
  <1>1. w.price \in Nat /\ w.amount \in Nat /\ w.at \in Nat
    BY TradeFacts
  <1>2. \A j \in U : t[j].price \in Nat /\ t[j].at \in Nat
    BY TradeFacts
  <1>3. /\ d.open = e.open /\ d.close = w.price
        /\ d.high = IF w.price > e.high THEN w.price ELSE e.high
        /\ d.low = IF w.price < e.low THEN w.price ELSE e.low
        /\ d.volume = e.volume + w.amount /\ d.total = e.total + w.price * w.amount
    <2>1. Increases(d, e, w)
      BY <1>1, FieldsAfter
    <2> HIDE DEF d, w
    <2> QED
      BY <2>1 DEF Increases
  <1>4. e.high \in Nat /\ e.low \in Nat /\ e.volume \in Nat /\ e.total \in Nat
    BY DEF CandleFields
  <1>5. \E a \in U : d.open = t[a].price /\ \A j \in U : t[a].at <= t[j].at
    <2>1. PICK a \in S : e.open = t[a].price /\ \A j \in S : t[a].at <= t[j].at
      BY DEF Describes
    <2>2. t[a].at <= t[i].at
      BY <2>1
    <2> QED
      BY <1>3, <2>1, <2>2
  <1>6. \E a \in U : d.close = t[a].price
    BY <1>3
  <1>7. \E l \in U : /\ \A j \in U : t[l].at >= t[j].at
                     /\ d.close = t[l].price \/ l \in q
    <2>1. CASE \A j \in S : t[j].at <= t[i].at
      <3>1. \A j \in U : t[i].at >= t[j].at
        BY <1>2, <2>1
      <3> QED
        BY <1>3, <3>1
    <2>2. CASE \E j \in S : ~ (t[j].at <= t[i].at)
      <3>1. PICK l \in S : \A j \in S : t[l].at >= t[j].at
        BY DEF Describes
      <3>2. t[l].at > t[i].at
        BY <1>2, <2>2, <3>1
      <3>3. \A j \in U : t[l].at >= t[j].at
        BY <1>2, <3>1, <3>2
      <3>4. l \in q
        BY <3>2
      <3> QED
        BY <3>3, <3>4
    <2> QED
      BY <2>1, <2>2
  <1>8. (\E a \in U : d.high = t[a].price) /\ (\E a \in U : d.low = t[a].price)
    <2>1. PICK a \in S : e.high = t[a].price
      BY DEF Describes
    <2>2. PICK b \in S : e.low = t[b].price
      BY DEF Describes
    <2> QED
      BY <1>3, <2>1, <2>2
  <1>9. \A a \in U : d.low <= t[a].price /\ t[a].price <= d.high
    <2>1. \A a \in S : e.low <= t[a].price /\ t[a].price <= e.high
      BY DEF Describes
    <2>2. d.low <= e.low /\ e.high <= d.high /\ d.low <= w.price /\ w.price <= d.high
          /\ d.low \in Nat /\ d.high \in Nat
      BY <1>1, <1>3, <1>4
    <2> HIDE DEF d
    <2> QED
      BY <1>2, <1>4, <2>1, <2>2
  <1>10. IsFiniteSet(S) /\ \A j \in U : Amounts(t)[j] \in Nat /\ Worths(t)[j] \in Nat
    BY TradeFacts
  <1>11. Amounts(t)[i] = w.amount /\ Worths(t)[i] = w.price * w.amount
    BY DEF Amounts, Worths
  <1> DEFINE A == Total(Amounts(t), S)
             W == Total(Worths(t), S)
             m == w.price * w.amount
  <1>12. A \in Nat /\ W \in Nat /\ m \in Nat
    BY <1>10, <1>11, SumTypes
  <1>13. /\ e.volume >= A /\ e.total >= W
         /\ x => e.volume = A /\ e.total = W
    BY DEF Describes
  <1>14. /\ Total(Amounts(t), U) = IF i \in S THEN A ELSE A + w.amount
         /\ Total(Worths(t), U) = IF i \in S THEN W ELSE W + m
    <2>1. CASE i \in S
      <3>1. U = S
        BY <2>1
      <3> QED
        BY <2>1, <3>1
    <2>2. CASE i \notin S
      <3>1. Total(Amounts(t), S \cup {i}) = A + Amounts(t)[i]
        BY <1>10, <2>2, SumMore
      <3>2. Total(Worths(t), S \cup {i}) = W + Worths(t)[i]
        BY <1>10, <2>2, SumMore
      <3> QED
        BY <1>11, <2>2, <3>1, <3>2
    <2> QED
      BY <2>1, <2>2
  <1>15. /\ d.volume >= Total(Amounts(t), U) /\ d.total >= Total(Worths(t), U)
         /\ y => d.volume = Total(Amounts(t), U) /\ d.total = Total(Worths(t), U)
    <2>1. d.volume = e.volume + w.amount /\ d.total = e.total + m
      BY <1>3
    <2> HIDE DEF d, A, W, m, U
    <2>2. CASE i \in S
      BY <1>1, <1>4, <1>12, <1>13, <1>14, <2>1, <2>2
    <2>3. CASE i \notin S
      BY <1>1, <1>4, <1>12, <1>13, <1>14, <2>1, <2>3
    <2> QED
      BY <2>2, <2>3
  <1> HIDE DEF d
  <1>16. Describes(t, U, d, q, y)
    BY <1>5, <1>6, <1>7, <1>8, <1>9, <1>15 DEF Describes
  <1> QED
    BY <1>16 DEF d

-----------------------------------------------------------------------------
(* The state of the poller and what its steps leave alone.                 *)

LEMMA TypeFacts ==
    ASSUME NEW c, CandleTypes(c)
    PROVE  /\ InTime(trades)
           /\ handled \subseteq DOMAIN trades /\ cache \subseteq handled
           /\ restarts \in Nat /\ failures \in Nat /\ lost \in Nat
           /\ now \in Nat /\ property \in Nat /\ checkpoint \in Nat
           /\ property <= now /\ checkpoint <= now
  BY DEF CandleTypes, InTime

\* The trades are those of t, and maybe more.
Extends(t, u) == DOMAIN t \subseteq DOMAIN u /\ \A i \in DOMAIN t : u[i] = t[i]

LEMMA CandlesStay ==
    ASSUME NEW c, CandleTypes(c), CandlesOK(c), InTime(trades'), Extends(trades, trades'),
           UNCHANGED <<handled, candles>>,
           \A j \in handled : j \in Pending => j \in Pending',
           (restarts' + lost' = 0) => (restarts + lost = 0)
    PROVE  CandlesOK(c)'
  <1>1. handled \subseteq DOMAIN trades /\ InTime(trades)
    BY TypeFacts
  <1>2. \A i \in handled : trades'[i] = trades[i]
    BY <1>1 DEF Extends
  <1>3. ASSUME NEW i \in handled' PROVE Chart(c)!KeysOf(trades'[i].at) \subseteq DOMAIN candles'
    <2>1. i \in handled /\ trades'[i] = trades[i] /\ candles' = candles
      BY <1>2
    <2> QED
      BY <2>1 DEF CandlesOK
  <1>4. ASSUME NEW k \in DOMAIN candles' PROVE CandleOK(c, k)'
    <2> DEFINE S == Mine(trades, handled, k)
    <2>1. k \in DOMAIN candles /\ candles'[k] = candles[k]
      OBVIOUS
    <2>2. Mine(trades', handled', k) = S
      BY <1>2 DEF Mine
    <2>3. S \in SUBSET handled
      BY DEF Mine
    <2>4. CandleOK(c, k)
      BY <2>1 DEF CandlesOK
    <2>5. Describes(trades, S, candles[k], Pending, restarts + lost = 0)
      BY <2>4, CandleDescribes
    <2> HIDE DEF S
    <2>6. S \in SUBSET DOMAIN trades /\ S \subseteq DOMAIN trades'
      BY <1>1, <2>3 DEF Extends
    <2>7. Describes(trades', S, candles[k], Pending', restarts' + lost' = 0)
      <3>1. \A i \in S : trades'[i] = trades[i]
        BY <1>2, <2>3
      <3>2. \A i \in S : i \in Pending => i \in Pending'
        BY <2>3
      <3>3. (restarts + lost = 0) \in BOOLEAN /\ (restarts' + lost' = 0) \in BOOLEAN
        OBVIOUS
      <3> HIDE DEF Pending
      <3> QED
        BY ONLY <1>1, <2>5, <2>6, <3>1, <3>2, <3>3, InTime(trades'), DescribesSame,
                (restarts' + lost' = 0) => (restarts + lost = 0)
    <2> QED
      BY <2>1, <2>2, <2>7, CandleDescribesNext
  <1> QED
    BY <1>3, <1>4 DEF CandlesOK

\* The statistics in plain terms, and the trades of a day.
DayOf(t, start) == {i \in DOMAIN t : t[i].at >= start}
StatsHold(c, t, points, s, m, exact) ==
    /\ s \in [step : {"price", "first", "volume"}, price : Nat, at : Nat, first : Nat]
    /\ m \in [price : Nat, first : Nat, volume : Nat, at : Nat]
    /\ s.step # "price" => \E k \in points : k[1] = c.statsGranularity /\ k[2] >= s.at - c.day
    /\ s.step = "volume" =>
         \E i \in DOMAIN t : t[i].at >= s.at - c.day /\ t[i].price = s.first
    /\ exact => m.volume <= Total(Amounts(t), DayOf(t, m.at - c.day))
    /\ m.first # 0 => \E i \in DayOf(t, m.at - c.day) : t[i].price = m.first

LEMMA StatsMean ==
    ASSUME NEW c
    PROVE  StatsOK(c) <=>
             StatsHold(c, trades, DOMAIN candles, stats, market, restarts + lost = 0)
  <1>1. Chart(c)!PointsSince(Chart(c)!Start(stats.at)) # {} <=>
          \E k \in DOMAIN candles : k[1] = c.statsGranularity /\ k[2] >= stats.at - c.day
    BY DEF Chart!PointsSince, Chart!Points, Chart!Start
  <1>2. \A S : Chart(c)!SumOf(S) = Total(Amounts(trades), S)
    BY ChartLibrary DEF Chart!SumOf, Amounts
  <1>3. \A x, S : x \in Chart(c)!Prices(S) <=> \E i \in S : trades[i].price = x
    BY DEF Chart!Prices
  <1>4. Chart(c)!StatsWithinDay <=>
          /\ restarts + lost = 0 =>
               market.volume <= Chart(c)!SumOf(DayOf(trades, market.at - c.day))
          /\ market.first # 0 => market.first \in Chart(c)!Prices(DayOf(trades, market.at - c.day))
    BY DEF Chart!StatsWithinDay, DayOf
  <1> QED
    BY <1>1, <1>2, <1>3, <1>4 DEF StatsOK, StatsHold

LEMMA StatsMeanNext ==
    ASSUME NEW c
    PROVE  StatsOK(c)' <=>
             StatsHold(c, trades', DOMAIN candles', stats', market', restarts' + lost' = 0)
  <1>1. StatsOK(c) <=>
          StatsHold(c, trades, DOMAIN candles, stats, market, restarts + lost = 0)
    BY StatsMean
  <1>2. (StatsOK(c) <=>
          StatsHold(c, trades, DOMAIN candles, stats, market, restarts + lost = 0))'
    BY <1>1, PTL
  <1> QED
    BY <1>2

LEMMA DayGrows ==
    ASSUME NEW t, InTime(t), NEW u, InTime(u), Extends(t, u), NEW s
    PROVE  /\ DayOf(t, s) \subseteq DayOf(u, s)
           /\ Total(Amounts(t), DayOf(t, s)) <= Total(Amounts(u), DayOf(u, s))
           /\ Total(Amounts(t), DayOf(t, s)) \in Nat /\ Total(Amounts(u), DayOf(u, s)) \in Nat
  <1>1. DayOf(t, s) \subseteq DayOf(u, s)
    BY DEF DayOf, Extends
  <1>2. DayOf(t, s) \subseteq DOMAIN t /\ DayOf(u, s) \subseteq DOMAIN u
    BY DEF DayOf
  <1>3. IsFiniteSet(DayOf(t, s)) /\ IsFiniteSet(DayOf(u, s))
    BY <1>2, TradeFacts
  <1>4. /\ \A x \in DayOf(t, s) : Amounts(t)[x] \in Nat
        /\ \A x \in DayOf(u, s) : Amounts(u)[x] \in Nat
    BY <1>2, TradeFacts
  <1>5. \A x \in DayOf(t, s) : Amounts(t)[x] = Amounts(u)[x]
    BY <1>2 DEF Amounts, Extends
  <1>6. Total(Amounts(t), DayOf(t, s)) = Total(Amounts(u), DayOf(t, s))
    BY <1>3, <1>5, SumEqual
  <1>7. Total(Amounts(u), DayOf(t, s)) <= Total(Amounts(u), DayOf(u, s))
    BY <1>1, <1>3, <1>4, SumOfPart
  <1>8. Total(Amounts(t), DayOf(t, s)) \in Nat /\ Total(Amounts(u), DayOf(u, s)) \in Nat
    BY <1>3, <1>4, SumTypes
  <1> QED
    BY <1>1, <1>6, <1>7, <1>8

LEMMA StatsStay ==
    ASSUME NEW c, StatsOK(c), InTime(trades), InTime(trades'), Extends(trades, trades'),
           UNCHANGED <<stats, market>>, DOMAIN candles \subseteq DOMAIN candles',
           (restarts' + lost' = 0) => (restarts + lost = 0)
    PROVE  StatsOK(c)'
  <1> DEFINE x == restarts + lost = 0
             y == restarts' + lost' = 0
             s == market.at - c.day
  <1>1. StatsHold(c, trades, DOMAIN candles, stats, market, x)
    BY StatsMean
  <1>2. y => x
    OBVIOUS
  <1> HIDE DEF x, y
  <1>3. stats' = stats /\ market' = market
    OBVIOUS
  <1>4. market.volume \in Nat
    BY <1>1 DEF StatsHold
  <1>5. /\ DayOf(trades, s) \subseteq DayOf(trades', s)
        /\ Total(Amounts(trades), DayOf(trades, s)) <= Total(Amounts(trades'), DayOf(trades', s))
        /\ Total(Amounts(trades), DayOf(trades, s)) \in Nat
        /\ Total(Amounts(trades'), DayOf(trades', s)) \in Nat
    BY DayGrows
  <1>6. \A i \in DOMAIN trades : i \in DOMAIN trades' /\ trades'[i] = trades[i]
    BY DEF Extends
  <1>7. /\ stats.step # "price" =>
             \E k \in DOMAIN candles' : k[1] = c.statsGranularity /\ k[2] >= stats.at - c.day
        /\ stats.step = "volume" =>
             \E i \in DOMAIN trades' : trades'[i].at >= stats.at - c.day /\ trades'[i].price = stats.first
    BY <1>1, <1>6 DEF StatsHold
  <1>8. y => market.volume <= Total(Amounts(trades'), DayOf(trades', s))
    <2>1. x => market.volume <= Total(Amounts(trades), DayOf(trades, s))
      BY <1>1 DEF StatsHold
    <2> QED
      BY <1>2, <1>4, <1>5, <2>1
  <1>9. market.first # 0 => \E i \in DayOf(trades', s) : trades'[i].price = market.first
    <2>1. market.first # 0 => \E i \in DayOf(trades, s) : trades[i].price = market.first
      BY <1>1 DEF StatsHold
    <2>2. \A i \in DayOf(trades, s) : trades'[i] = trades[i]
      BY <1>6 DEF DayOf
    <2> QED
      BY <1>5, <2>1, <2>2
  <1>10. StatsHold(c, trades', DOMAIN candles', stats, market, y)
    BY <1>1, <1>7, <1>8, <1>9 DEF StatsHold
  <1> QED
    BY <1>3, <1>10, StatsMeanNext DEF y

-----------------------------------------------------------------------------
(* One lemma per action: the invariant after it.                           *)

LEMMA AppendInTime ==
    ASSUME NEW t, InTime(t), NEW w \in TradeAt, \A i \in DOMAIN t : t[i].at <= w.at
    PROVE  /\ InTime(Append(t, w)) /\ Extends(t, Append(t, w))
           /\ Len(Append(t, w)) = Len(t) + 1
           /\ DOMAIN Append(t, w) = DOMAIN t \cup {Len(t) + 1} /\ Len(t) + 1 \notin DOMAIN t
           /\ Append(t, w)[Len(t) + 1] = w
  <1>1. t \in Seq(TradeAt) /\ Len(t) \in Nat /\ DOMAIN t = 1..Len(t)
    BY TradeFacts DEF InTime
  <1> DEFINE u == Append(t, w)
             n == Len(t) + 1
  <1>2. u \in Seq(TradeAt) /\ Len(u) = n /\ DOMAIN u = 1..n
    BY <1>1
  <1>3. u[n] = w /\ \A i \in DOMAIN t : u[i] = t[i]
    BY <1>1
  <1> HIDE DEF u
  <1>4. DOMAIN u = DOMAIN t \cup {n} /\ n \notin DOMAIN t
    BY <1>1, <1>2
  <1>5. Extends(t, u)
    BY <1>3, <1>4 DEF Extends
  <1>6. ASSUME NEW i \in DOMAIN u, NEW j \in DOMAIN u, i < j PROVE u[i].at <= u[j].at
    <2>1. CASE j = n
      <3>1. i \in DOMAIN t
        BY <1>1, <1>2, <1>4, <1>6, <2>1
      <3> QED
        BY <1>3, <2>1, <3>1
    <2>2. CASE j # n
      <3>1. i \in DOMAIN t /\ j \in DOMAIN t
        BY <1>1, <1>2, <1>4, <1>6, <2>2
      <3> QED
        BY <1>3, <1>6, <3>1 DEF InTime
    <2> QED
      BY <2>1, <2>2
  <1>7. InTime(u)
    BY <1>2, <1>6 DEF InTime
  <1> QED
    BY <1>2, <1>3, <1>4, <1>5, <1>7 DEF u

LEMMA TradeKeeps ==
    ASSUME NEW c, Chart(c)!CandlesAssumption, CandleInv(c), NEW p \in c.tradePrice,
           NEW a \in c.tradeAmount, Chart(c)!Trade(p, a)
    PROVE  CandleInv(c)'
  <1> DEFINE w == [price |-> p, amount |-> a, at |-> now]
             n == Len(trades) + 1
  <1>1. /\ Len(trades) < c.maxTrades
        /\ Cardinality({i \in DOMAIN trades : trades[i].at = now}) < c.maxTies
        /\ trades' = Append(trades, w)
        /\ UNCHANGED <<now, property, checkpoint, page, polling, cache, candles, stats, market,
                       handled, restarts, failures, lost>>
    BY ChartLibrary DEF Chart!Trade, Chart!poller, Chart!faults
  <1>2. CandleTypes(c) /\ PageInOrder /\ AddedInOrder /\ CandlesOK(c) /\ StatsOK(c)
    BY DEF CandleInv
  <1>3. /\ InTime(trades) /\ handled \subseteq DOMAIN trades /\ cache \subseteq handled
        /\ now \in Nat /\ property <= now /\ checkpoint <= now /\ property \in Nat
        /\ checkpoint \in Nat
    BY <1>2, TypeFacts
  <1>4. w \in TradeAt /\ w.at = now
    BY <1>3, CaseFacts DEF TradeAt
  <1>5. \A i \in DOMAIN trades : trades[i].at <= now
    BY <1>2 DEF CandleTypes
  <1> HIDE DEF w
  <1>6. /\ InTime(trades') /\ Extends(trades, trades') /\ Len(trades') = n
        /\ DOMAIN trades' = DOMAIN trades \cup {n} /\ n \notin DOMAIN trades
        /\ trades'[n] = w
    BY <1>1, <1>3, <1>4, <1>5, AppendInTime
  <1>7. \A i \in DOMAIN trades : i \in DOMAIN trades' /\ trades'[i] = trades[i]
    BY <1>6 DEF Extends
  <1>8. \A i \in DOMAIN trades' : i \in DOMAIN trades \/ (i = n /\ trades'[i].at = now)
    BY <1>4, <1>6
  <1>9. \A i \in DOMAIN trades' : trades'[i].at \in Nat
    BY <1>6, TradeFacts
  <1>10. CandleTypes(c)'
    <2>1. trades' \in Seq(TradeAt) /\ \A i, j \in DOMAIN trades' : i < j => trades'[i].at <= trades'[j].at
      BY <1>6 DEF InTime
    <2>2. Len(trades') <= c.maxTrades
      <3>1. Len(trades) \in Nat /\ c.maxTrades \in Nat
        BY <1>3, TradeFacts, CaseFacts
      <3> QED
        BY <1>1, <1>6, <3>1
    <2>3. \A i \in DOMAIN trades' : trades'[i].at <= now
      BY <1>3, <1>5, <1>7, <1>8
    <2>4. page \in Seq(DOMAIN trades')
      <3>1. page \in Seq(DOMAIN trades) /\ DOMAIN trades \subseteq DOMAIN trades'
        BY <1>2, <1>6 DEF CandleTypes
      <3> QED
        BY <3>1
    <2>5. ASSUME NEW t \in Nat
          PROVE  Cardinality({i \in DOMAIN trades' : trades'[i].at = t}) <= c.maxTies
      <3> DEFINE S == {i \in DOMAIN trades : trades[i].at = t}
                 U == {i \in DOMAIN trades' : trades'[i].at = t}
      <3>1. Cardinality(S) <= c.maxTies
        BY <1>2 DEF CandleTypes
      <3>2. IsFiniteSet(S)
        BY <1>3, TradeFacts
      <3>3. CASE t = now
        <4>1. U = S \cup {n}
          BY <1>4, <1>6, <1>7, <3>3
        <4>2. n \notin S
          BY <1>6
        <4>3. Cardinality(S) < c.maxTies
          BY <1>1, <3>3
        <4> HIDE DEF S, U
        <4>4. Cardinality(U) = Cardinality(S) + 1
          BY <3>2, <4>1, <4>2, FS_AddElement
        <4>5. Cardinality(S) \in Nat /\ c.maxTies \in Nat
          BY <3>2, FS_CardinalityType, CaseFacts
        <4>6. Cardinality(U) <= c.maxTies
          BY <4>3, <4>4, <4>5
        <4> QED
          BY <4>6 DEF U
      <3>4. CASE t # now
        <4>1. U = S
          BY <1>4, <1>6, <1>7, <3>4
        <4> QED
          BY <3>1, <4>1
      <3> QED
        BY <3>3, <3>4
    <2>6. handled \subseteq DOMAIN trades'
      BY <1>3, <1>6
    <2> QED
      BY <1>1, <1>2, <2>1, <2>2, <2>3, <2>4, <2>5, <2>6 DEF CandleTypes
  <1>11. page \in Seq(DOMAIN trades) /\ \A x \in DOMAIN page : page[x] \in DOMAIN trades
    <2>1. page \in Seq(DOMAIN trades)
      BY <1>2 DEF CandleTypes
    <2> QED
      BY <2>1
  <1>12. PageInOrder'
    <2>1. ASSUME NEW x \in DOMAIN page, NEW j \in DOMAIN trades', property <= trades'[j].at,
                 trades'[j].at < trades'[page[x]].at
          PROVE  j \in cache \/ \E y \in DOMAIN page : page[y] = j
      <3>1. page[x] \in DOMAIN trades /\ trades'[page[x]] = trades[page[x]]
            /\ trades[page[x]].at <= now /\ trades[page[x]].at \in Nat
        BY <1>3, <1>5, <1>7, <1>11, TradeFacts
      <3>2. ~ (trades'[j].at = now)
        <4>1. trades'[j].at < trades[page[x]].at
          BY <2>1, <3>1
        <4> QED
          BY <1>3, <3>1, <4>1
      <3>3. j \in DOMAIN trades
        BY <1>8, <3>2
      <3> QED
        BY <1>2, <1>7, <2>1, <3>1, <3>3 DEF PageInOrder
    <2>2. ASSUME polling, NEW j \in DOMAIN trades', property <= trades'[j].at,
                 trades'[j].at < checkpoint
          PROVE  j \in cache
      <3>1. j \in DOMAIN trades
        BY <1>3, <1>8, <1>9, <2>2
      <3> QED
        BY <1>2, <1>7, <2>2, <3>1 DEF PageInOrder
    <2>3. \A x \in DOMAIN page : trades'[page[x]] = trades[page[x]]
      BY <1>7, <1>11
    <2>4. UNCHANGED <<property, checkpoint, page, polling, cache>>
      BY <1>1
    <2>5. /\ page # <<>> => polling
          /\ polling => property <= checkpoint
          /\ \A x \in DOMAIN page : trades[page[x]].at >= property
          /\ \A x, y \in DOMAIN page : x < y => trades[page[x]].at <= trades[page[y]].at
      BY <1>2 DEF PageInOrder
    <2>6. /\ \A x \in DOMAIN page : trades'[page[x]].at >= property
          /\ \A x, y \in DOMAIN page : x < y => trades'[page[x]].at <= trades'[page[y]].at
      BY ONLY <2>3, <2>5
    <2> QED
      BY ONLY <2>1, <2>2, <2>4, <2>5, <2>6 DEF PageInOrder
  <1>13. AddedInOrder'
    <2>1. ASSUME NEW i \in handled, NEW j \in DOMAIN trades', trades'[j].at < trades'[i].at
          PROVE  j \in DOMAIN trades /\ trades[j].at < trades[i].at
      <3>1. i \in DOMAIN trades /\ trades'[i] = trades[i] /\ trades[i].at <= now
            /\ trades[i].at \in Nat
        BY <1>3, <1>5, <1>7, TradeFacts
      <3>2. ~ (trades'[j].at = now)
        <4>1. trades'[j].at < trades[i].at
          BY <2>1, <3>1
        <4> QED
          BY <1>3, <3>1, <4>1
      <3>3. j \in DOMAIN trades
        BY <1>8, <3>2
      <3> QED
        BY <1>7, <2>1, <3>1, <3>3
    <2>2. ASSUME NEW j \in DOMAIN trades', trades'[j].at < property PROVE j \in handled
      <3>1. j \in DOMAIN trades
        BY <1>3, <1>8, <1>9, <2>2
      <3> QED
        BY <1>2, <1>7, <2>2, <3>1 DEF AddedInOrder
    <2>3. ASSUME NEW i \in cache, NEW j \in DOMAIN trades', property <= trades'[j].at,
                 trades'[j].at < trades'[i].at
          PROVE  j \in cache
      <3>1. j \in DOMAIN trades /\ trades[j].at < trades[i].at
        BY <1>3, <2>1, <2>3
      <3> QED
        BY <1>2, <1>7, <2>3, <3>1 DEF AddedInOrder
    <2>4. ASSUME NEW i \in handled, NEW j \in DOMAIN trades', trades'[j].at < trades'[i].at
          PROVE  j \in handled
      <3>1. j \in DOMAIN trades /\ trades[j].at < trades[i].at
        BY <2>1, <2>4
      <3> QED
        BY <1>2, <3>1 DEF AddedInOrder
    <2>5. failures = 0 => \A i \in cache : trades'[i].at <= IF polling THEN checkpoint ELSE property
      <3>1. \A i \in cache : trades'[i] = trades[i]
        BY <1>3, <1>7
      <3> QED
        BY <1>2, <3>1 DEF AddedInOrder
    <2>6. restarts + lost = 0 => cache = handled
      BY <1>2 DEF AddedInOrder
    <2> QED
      BY <1>1, <2>2, <2>3, <2>4, <2>5, <2>6 DEF AddedInOrder
  <1>14. \A j \in handled : j \in Pending => j \in Pending'
    BY <1>1, <1>3, <1>7 DEF Pending
  <1>15. CandlesOK(c)'
    BY <1>1, <1>2, <1>6, <1>14, CandlesStay
  <1>16. StatsOK(c)'
    BY <1>1, <1>2, <1>3, <1>6, StatsStay
  <1> QED
    BY <1>10, <1>12, <1>13, <1>15, <1>16 DEF CandleInv

LEMMA TailOrder ==
    ASSUME NEW S, NEW s \in Seq(S), s # <<>>
    PROVE  /\ Tail(s) \in Seq(S)
           /\ \A x \in DOMAIN Tail(s) : x \in Nat /\ x + 1 \in DOMAIN s /\ Tail(s)[x] = s[x + 1]
           /\ \A x \in DOMAIN s : x = 1 \/ x - 1 \in DOMAIN Tail(s)
           /\ Head(s) = s[1] /\ 1 \in DOMAIN s /\ DOMAIN s \subseteq Nat \ {0}
  <1>1. PICK n \in Nat : n = Len(s)
    OBVIOUS
  <1>2. DOMAIN s = 1..n /\ n # 0
    BY <1>1
  <1>3. Tail(s) \in Seq(S) /\ DOMAIN Tail(s) = 1..(n - 1)
    BY <1>1, <1>2
  <1>4. ASSUME NEW x \in 1..(n - 1) PROVE x \in Nat /\ x + 1 \in 1..n /\ Tail(s)[x] = s[x + 1]
    BY <1>1, <1>2, <1>4
  <1>5. \A x \in 1..n : x = 1 \/ x - 1 \in 1..(n - 1)
    OBVIOUS
  <1>6. Head(s) = s[1]
    BY <1>1, <1>2
  <1> QED
    BY <1>2, <1>3, <1>4, <1>5, <1>6

\* The first trade of the page is known, or becomes known.
LEMMA TailInOrder ==
    ASSUME NEW S, page \in Seq(S), page # <<>>, PageInOrder,
           \A x \in DOMAIN page : trades[page[x]].at \in Nat,
           \A j \in DOMAIN trades : trades[j].at \in Nat,
           UNCHANGED <<trades, property, polling>>, page' = Tail(page),
           cache \subseteq cache', Head(page) \in cache',
           \/ checkpoint' = checkpoint
           \/ checkpoint' = trades[Head(page)].at
    PROVE  PageInOrder'
  <1>1. /\ \A x \in DOMAIN page' : x \in Nat /\ x + 1 \in DOMAIN page /\ page'[x] = page[x + 1]
        /\ \A x \in DOMAIN page : x = 1 \/ x - 1 \in DOMAIN page'
        /\ Head(page) = page[1] /\ 1 \in DOMAIN page /\ DOMAIN page \subseteq Nat \ {0}
    BY TailOrder
  <1>2. polling' /\ polling
    BY DEF PageInOrder
  <1>3. property' <= checkpoint'
    BY <1>1, <1>2 DEF PageInOrder
  <1>4. \A x \in DOMAIN page' : trades'[page'[x]].at >= property'
    BY <1>1 DEF PageInOrder
  <1>5. ASSUME NEW x \in DOMAIN page', NEW y \in DOMAIN page', x < y
        PROVE  trades'[page'[x]].at <= trades'[page'[y]].at
    <2>1. x + 1 < y + 1 /\ x + 1 \in DOMAIN page /\ y + 1 \in DOMAIN page
      BY <1>1, <1>5
    <2>2. trades[page[x + 1]].at <= trades[page[y + 1]].at
      BY <2>1 DEF PageInOrder
    <2> QED
      BY <1>1, <2>2
  <1>6. ASSUME NEW x \in DOMAIN page', NEW j \in DOMAIN trades', property' <= trades'[j].at,
               trades'[j].at < trades'[page'[x]].at
        PROVE  j \in cache' \/ \E y \in DOMAIN page' : page'[y] = j
    <2>1. x + 1 \in DOMAIN page /\ trades[j].at < trades[page[x + 1]].at
      BY <1>1, <1>6
    <2>2. j \in cache \/ \E y \in DOMAIN page : page[y] = j
      BY <1>6, <2>1 DEF PageInOrder
    <2>3. ASSUME NEW y \in DOMAIN page, page[y] = j
          PROVE  j \in cache' \/ \E z \in DOMAIN page' : page'[z] = j
      <3>1. CASE y = 1
        BY <1>1, <2>3, <3>1
      <3>2. CASE y # 1
        <4>1. y - 1 \in DOMAIN page' /\ (y - 1) + 1 = y
          BY <1>1, <3>2
        <4>2. page'[y - 1] = page[y]
          BY <1>1, <4>1
        <4> QED
          BY <2>3, <4>1, <4>2
      <3> QED
        BY <3>1, <3>2
    <2> QED
      BY <2>2, <2>3
  <1>7. ASSUME NEW j \in DOMAIN trades', property' <= trades'[j].at, trades'[j].at < checkpoint'
        PROVE  j \in cache'
    <2>1. CASE checkpoint' = checkpoint
      <3>1. j \in cache
        BY <1>2, <1>7, <2>1 DEF PageInOrder
      <3> QED
        BY <3>1
    <2>2. CASE checkpoint' = trades[Head(page)].at
      <3>1. trades[j].at < trades[page[1]].at
        BY <1>1, <1>7, <2>2
      <3>2. j \in cache \/ \E y \in DOMAIN page : page[y] = j
        BY <1>1, <1>7, <3>1 DEF PageInOrder
      <3>3. ASSUME NEW y \in DOMAIN page, page[y] = j PROVE FALSE
        <4>1. y = 1 \/ 1 < y
          <5>1. y \in Nat \ {0}
            BY <1>1
          <5> QED
            BY <5>1
        <4>2. y # 1
          BY <1>1, <3>1, <3>3
        <4>3. trades[page[1]].at <= trades[page[y]].at
          BY <1>1, <4>1, <4>2 DEF PageInOrder
        <4>4. trades[page[1]].at \in Nat /\ trades[j].at \in Nat
          BY <1>1
        <4> QED
          BY <3>1, <3>3, <4>3, <4>4
      <3> QED
        BY <3>2, <3>3
    <2> QED
      BY <2>1, <2>2
  <1> QED
    BY <1>2, <1>3, <1>4, <1>5, <1>6, <1>7 DEF PageInOrder

LEMMA SameTrades ==
    ASSUME NEW c, CandleTypes(c), UNCHANGED trades
    PROVE  InTime(trades) /\ InTime(trades') /\ Extends(trades, trades')
  <1>1. InTime(trades) /\ trades' = trades
    BY TypeFacts
  <1> QED
    BY <1>1 DEF Extends

LEMMA TickKeeps ==
    ASSUME NEW c, Chart(c)!CandlesAssumption, CandleInv(c), Chart(c)!Tick
    PROVE  CandleInv(c)'
  <1>1. /\ now < c.maxTime /\ now' = now + 1
        /\ UNCHANGED <<trades, property, checkpoint, page, polling, cache, candles, stats, market,
                       handled, restarts, failures, lost>>
    BY DEF Chart!Tick, Chart!poller, Chart!faults
  <1>2. CandleTypes(c) /\ PageInOrder /\ AddedInOrder /\ CandlesOK(c) /\ StatsOK(c)
    BY DEF CandleInv
  <1>3. now \in Nat /\ now >= 1 /\ now <= c.maxTime
    BY <1>2 DEF CandleTypes
  <1>4. CandleTypes(c)'
    <2>1. now' \in 1..c.maxTime
      <3>1. c.maxTime \in Nat
        BY CaseFacts
      <3> QED
        BY <1>1, <1>3, <3>1
    <2>2. \A i \in DOMAIN trades : trades[i].at <= now'
      <3>1. \A i \in DOMAIN trades : trades[i].at \in Nat /\ trades[i].at <= now
        BY <1>2, TypeFacts, TradeFacts DEF CandleTypes
      <3> QED
        BY <1>1, <1>3, <3>1
    <2>3. property \in 0..now' /\ checkpoint \in 0..now'
      <3>1. property \in 0..now /\ checkpoint \in 0..now
        BY <1>2 DEF CandleTypes
      <3> QED
        BY <1>1, <1>3, <3>1
    <2>4. ASSUME NEW k \in DOMAIN candles
          PROVE  /\ \E g \in c.granularity, p \in 0..now' : k = <<g, p>> /\ p % g = 0
                 /\ candles[k] \in CandleFields
      <3>1. candles[k] \in CandleFields
        BY <1>2 DEF CandleTypes
      <3>2. PICK g \in c.granularity, p \in 0..now : k = <<g, p>> /\ p % g = 0
        BY <1>2 DEF CandleTypes
      <3>3. p \in 0..now'
        BY <1>1, <1>3
      <3> QED
        BY <3>1, <3>2, <3>3
    <2> QED
      BY <1>1, <1>2, <2>1, <2>2, <2>3, <2>4 DEF CandleTypes
  <1>5. PageInOrder'
    BY <1>1, <1>2 DEF PageInOrder
  <1>6. AddedInOrder'
    BY <1>1, <1>2 DEF AddedInOrder
  <1>7. Pending' = Pending
    BY <1>1 DEF Pending
  <1>8. CandlesOK(c)'
    BY <1>1, <1>2, <1>7, SameTrades, CandlesStay
  <1>9. StatsOK(c)'
    BY <1>1, <1>2, SameTrades, StatsStay
  <1> QED
    BY <1>4, <1>5, <1>6, <1>8, <1>9 DEF CandleInv

LEMMA SkipCachedKeeps ==
    ASSUME NEW c, CandleInv(c), Chart(c)!SkipCached
    PROVE  CandleInv(c)'
  <1>1. /\ page # <<>> /\ Head(page) \in cache /\ page' = Tail(page)
        /\ UNCHANGED <<trades, now, property, checkpoint, polling, cache, candles, stats, market,
                       handled, restarts, failures, lost>>
    BY DEF Chart!SkipCached, Chart!faults
  <1>2. CandleTypes(c) /\ PageInOrder /\ AddedInOrder /\ CandlesOK(c) /\ StatsOK(c)
    BY DEF CandleInv
  <1>3. page \in Seq(DOMAIN trades) /\ Tail(page) \in Seq(DOMAIN trades)
    <2>1. page \in Seq(DOMAIN trades)
      BY <1>2 DEF CandleTypes
    <2> QED
      BY <1>1, <2>1, TailOrder
  <1>4. CandleTypes(c)'
    BY <1>1, <1>2, <1>3 DEF CandleTypes
  <1>5. PageInOrder'
    <2>1. \A j \in DOMAIN trades : trades[j].at \in Nat
      BY <1>2, TypeFacts, TradeFacts
    <2>2. \A x \in DOMAIN page : trades[page[x]].at \in Nat
      BY <1>3, <2>1
    <2> QED
      BY <1>1, <1>2, <1>3, <2>1, <2>2, TailInOrder
  <1>6. AddedInOrder'
    BY <1>1, <1>2 DEF AddedInOrder
  <1>7. Pending' = Pending
    BY <1>1 DEF Pending
  <1>8. CandlesOK(c)'
    BY <1>1, <1>2, <1>7, SameTrades, CandlesStay
  <1>9. StatsOK(c)'
    BY <1>1, <1>2, SameTrades, StatsStay
  <1> QED
    BY <1>4, <1>5, <1>6, <1>8, <1>9 DEF CandleInv

LEMMA WriteTimePropertyKeeps ==
    ASSUME NEW c, CandleInv(c), Chart(c)!WriteTimeProperty
    PROVE  CandleInv(c)'
  <1>1. /\ polling /\ page = <<>> /\ polling' = FALSE
        /\ \/ property' = checkpoint /\ failures' = failures
           \/ property' = property /\ failures' = failures + 1
        /\ UNCHANGED <<trades, now, checkpoint, page, cache, candles, stats, market, handled,
                       restarts, lost>>
    BY DEF Chart!WriteTimeProperty
  <1>2. CandleTypes(c) /\ PageInOrder /\ AddedInOrder /\ CandlesOK(c) /\ StatsOK(c)
    BY DEF CandleInv
  <1>3. /\ InTime(trades) /\ handled \subseteq DOMAIN trades /\ cache \subseteq handled
        /\ property \in Nat /\ checkpoint \in Nat /\ failures \in Nat
    BY <1>2, TypeFacts
  <1>4. \A i \in DOMAIN trades : trades[i].at \in Nat
    BY <1>3, TradeFacts
  <1>5. property <= checkpoint
    BY <1>1, <1>2 DEF PageInOrder
  <1>6. ASSUME NEW j \in DOMAIN trades, property <= trades[j].at, trades[j].at < checkpoint
        PROVE  j \in cache
    BY <1>1, <1>2, <1>6 DEF PageInOrder
  <1>7. CandleTypes(c)'
    <2>1. property' \in 0..now /\ failures' \in Nat
      <3>1. property \in 0..now /\ checkpoint \in 0..now
        BY <1>2 DEF CandleTypes
      <3> QED
        BY <1>1, <1>3, <3>1
    <2> QED
      BY <1>1, <1>2, <2>1 DEF CandleTypes
  <1>8. PageInOrder'
    BY <1>1 DEF PageInOrder
  <1>9. property' \in {property, checkpoint} /\ property' \in Nat /\ property <= property'
    BY <1>1, <1>3, <1>5
  <1>10. AddedInOrder'
    <2>1. ASSUME NEW i \in cache, NEW j \in DOMAIN trades, property' <= trades[j].at,
                 trades[j].at < trades[i].at
          PROVE  j \in cache
      <3>1. property <= trades[j].at
        BY <1>3, <1>4, <1>9, <2>1
      <3> QED
        BY <1>2, <2>1, <3>1 DEF AddedInOrder
    <2>2. ASSUME NEW j \in DOMAIN trades, trades[j].at < property' PROVE j \in handled
      <3>1. CASE trades[j].at < property
        BY <1>2, <3>1 DEF AddedInOrder
      <3>2. CASE ~ (trades[j].at < property)
        <4>1. property <= trades[j].at /\ trades[j].at < checkpoint
          BY <1>3, <1>4, <1>9, <2>2, <3>2
        <4> QED
          BY <1>3, <1>6, <4>1
      <3> QED
        BY <3>1, <3>2
    <2>3. failures' = 0 => \A i \in cache : trades[i].at <= property'
      <3>1. failures' = 0 => property' = checkpoint /\ failures = 0
        BY <1>1, <1>3
      <3> QED
        BY <1>1, <1>2, <3>1 DEF AddedInOrder
    <2>4. /\ \A i \in handled : \A j \in DOMAIN trades : trades[j].at < trades[i].at => j \in handled
          /\ restarts + lost = 0 => cache = handled
      BY <1>2 DEF AddedInOrder
    <2> QED
      BY <1>1, <2>1, <2>2, <2>3, <2>4 DEF AddedInOrder
  <1>11. ASSUME NEW j \in handled, j \in Pending PROVE j \in Pending'
    <2>1. j \notin cache /\ property <= trades[j].at /\ j \in DOMAIN trades
      BY <1>3, <1>4, <1>11 DEF Pending
    <2>2. trades[j].at >= checkpoint
      BY <1>3, <1>4, <1>6, <2>1
    <2>3. trades[j].at >= property'
      BY <1>9, <2>1, <2>2, <1>4, <1>3
    <2> QED
      BY <1>1, <2>1, <2>3 DEF Pending
  <1>12. CandlesOK(c)'
    BY <1>1, <1>2, <1>11, SameTrades, CandlesStay
  <1>13. StatsOK(c)'
    BY <1>1, <1>2, SameTrades, StatsStay
  <1> QED
    BY <1>7, <1>8, <1>10, <1>12, <1>13 DEF CandleInv

LEMMA RestartKeeps ==
    ASSUME NEW c, CandleInv(c), Chart(c)!Restart
    PROVE  CandleInv(c)'
  <1>1. /\ restarts' = restarts + 1
        /\ checkpoint' = 0 /\ page' = <<>> /\ polling' = FALSE /\ cache' = {}
        /\ stats' = [step |-> "price", price |-> 0, at |-> 0, first |-> 0]
        /\ UNCHANGED <<trades, now, property, candles, market, handled, failures, lost>>
    BY DEF Chart!Restart, Chart!NoStats
  <1>2. CandleTypes(c) /\ PageInOrder /\ AddedInOrder /\ CandlesOK(c) /\ StatsOK(c)
    BY DEF CandleInv
  <1>3. /\ InTime(trades) /\ handled \subseteq DOMAIN trades /\ cache \subseteq handled
        /\ now \in Nat /\ restarts \in Nat /\ lost \in Nat
    BY <1>2, TypeFacts
  <1>4. restarts' \in Nat /\ restarts' + lost' # 0
    BY <1>1, <1>3
  <1>5. CandleTypes(c)'
    <2>1. checkpoint' \in 0..now' /\ page' \in Seq(DOMAIN trades')
      BY <1>1, <1>3
    <2> QED
      BY <1>1, <1>2, <1>4, <2>1 DEF CandleTypes
  <1>6. PageInOrder'
    BY <1>1 DEF PageInOrder
  <1>7. AddedInOrder'
    BY <1>1, <1>2, <1>4 DEF AddedInOrder
  <1>8. ASSUME NEW j \in handled, j \in Pending PROVE j \in Pending'
    BY <1>1, <1>8 DEF Pending
  <1>9. CandlesOK(c)'
    BY <1>1, <1>2, <1>4, <1>8, SameTrades, CandlesStay
  <1>10. StatsOK(c)'
    <2>1. StatsHold(c, trades, DOMAIN candles, stats, market, restarts + lost = 0)
      BY <1>2, StatsMean
    <2>2. market.first # 0 =>
            \E i \in DayOf(trades, market.at - c.day) : trades[i].price = market.first
      BY <2>1 DEF StatsHold
    <2>3. StatsHold(c, trades, DOMAIN candles, stats', market, restarts' + lost' = 0)
      BY <1>1, <1>4, <2>1, <2>2 DEF StatsHold
    <2> QED
      BY <1>1, <2>3, StatsMeanNext
  <1> QED
    BY <1>5, <1>6, <1>7, <1>9, <1>10 DEF CandleInv

\* An answer: the trades listed are the first, each once.
LEMMA AnswerFacts ==
    ASSUME NEW c, Chart(c)!CandlesAssumption, InTime(trades), property \in Nat,
           NEW s \in Chart(c)!Answers(property)
    PROVE  /\ s \in Seq(DOMAIN trades)
           /\ \A x \in DOMAIN s : trades[s[x]].at >= property
           /\ \A x, y \in DOMAIN s : x < y => trades[s[x]].at <= trades[s[y]].at
           /\ \A x, y \in DOMAIN s : s[x] = s[y] => x = y
           /\ \A x \in DOMAIN s : \A j \in DOMAIN trades :
                property <= trades[j].at /\ trades[j].at < trades[s[x]].at =>
                  \E y \in DOMAIN s : s[y] = j
  <1> DEFINE base == {i \in DOMAIN trades : trades[i].at >= property}
             below(i) == {j \in base : j < i}
             few == {i \in base : Cardinality(below(i)) < c.limit}
             n == Cardinality(few)
  <1>1. /\ s \in {f \in [1..n -> few] : \A x, y \in 1..n : f[x] = f[y] => x = y}
        /\ \A x, y \in DOMAIN s : x < y => trades[s[x]].at <= trades[s[y]].at
    <2> DEFINE also == {i \in base : Chart(c)!Cardinality(below(i)) < c.limit}
    <2>1. s \in {f \in Chart(c)!Injection(1..Chart(c)!Cardinality(also), also) :
                   \A x, y \in DOMAIN f : x < y => trades[f[x]].at <= trades[f[y]].at}
      BY DEF Chart!Answers, Chart!Since
    <2>2. also = few
      <3> HIDE DEF below, base
      <3> QED
        BY ChartLibrary
    <2>3. Chart(c)!Cardinality(also) = n
      <3> HIDE DEF few
      <3> QED
        BY <2>2, ChartLibrary
    <2> HIDE DEF also, few, n, base, below
    <2>4. s \in Chart(c)!Injection(1..n, few)
      BY <2>1, <2>2, <2>3
    <2>5. s \in {f \in [1..n -> few] : \A x, y \in 1..n : f[x] = f[y] => x = y}
      <3>1. s \in [1..n -> few] /\ DOMAIN s = 1..n
        BY <2>4 DEF Chart!Injection
      <3>2. \A x, y \in DOMAIN s : s[x] = s[y] => x = y
        BY <2>4 DEF Chart!Injection, Chart!IsInjective
      <3> QED
        BY <3>1, <3>2
    <2> QED
      BY <2>1, <2>5
  <1>2. /\ \A i \in DOMAIN trades : i \in Nat /\ trades[i].at \in Nat
        /\ \A i, j \in DOMAIN trades : trades[i].at < trades[j].at => i < j
        /\ base \subseteq DOMAIN trades /\ few \subseteq base
        /\ IsFiniteSet(base) /\ IsFiniteSet(few)
    BY TradeFacts
  <1>3. n \in Nat
    BY <1>2, FS_CardinalityType
  <1> HIDE DEF n
  <1>4. DOMAIN s = 1..n /\ \A x \in 1..n : s[x] \in few
    BY <1>1
  <1>5. s \in Seq(DOMAIN trades)
    <2>1. s \in [1..n -> DOMAIN trades]
      BY <1>1, <1>2
    <2> QED
      BY <1>3, <2>1
  <1>6. s \in Surjection(1..n, few)
    <2>1. s \in Injection(1..n, few)
      BY <1>1 DEF Injection, IsInjective
    <2>2. Cardinality(1..n) = n
      BY <1>3, FS_Interval
    <2> QED
      BY <1>2, <2>1, <2>2, FS_Injection DEF n
  <1>7. \A j \in few : \E y \in 1..n : s[y] = j
    BY <1>6 DEF Surjection
  <1>8. ASSUME NEW x \in DOMAIN s, NEW j \in DOMAIN trades, property <= trades[j].at,
               trades[j].at < trades[s[x]].at
        PROVE  \E y \in DOMAIN s : s[y] = j
    <2>1. s[x] \in base /\ Cardinality(below(s[x])) < c.limit
      BY <1>4
    <2>2. j \in base /\ j < s[x]
      BY <1>2, <1>8, <2>1
    <2>3. below(j) \subseteq below(s[x])
      <3>1. \A m \in base : m < j => m < s[x]
        BY <1>2, <2>1, <2>2
      <3> QED
        BY <3>1
    <2>4. IsFiniteSet(below(s[x]))
      BY <1>2, FS_Subset
    <2>5. Cardinality(below(j)) <= Cardinality(below(s[x]))
      BY <2>3, <2>4, FS_Subset
    <2>6. /\ Cardinality(below(j)) \in Nat /\ Cardinality(below(s[x])) \in Nat
          /\ c.limit \in Nat
      BY <2>3, <2>4, FS_Subset, FS_CardinalityType, CaseFacts
    <2>7. Cardinality(below(j)) < c.limit
      <3> HIDE DEF below
      <3> QED
        BY <2>1, <2>5, <2>6
    <2>8. j \in few
      BY <2>2, <2>7
    <2> QED
      BY <1>4, <1>7, <2>8
  <1> QED
    BY <1>1, <1>2, <1>4, <1>5, <1>8

LEMMA PollKeeps ==
    ASSUME NEW c, Chart(c)!CandlesAssumption, CandleInv(c), Chart(c)!FetchTrades
    PROVE  CandleInv(c)'
  <1>1. /\ ~ polling /\ checkpoint' = property /\ polling' = TRUE
        /\ page' \in Chart(c)!Answers(property)
        /\ UNCHANGED <<trades, now, property, cache, candles, stats, market, handled,
                       restarts, failures, lost>>
    BY DEF Chart!FetchTrades, Chart!faults
  <1>2. CandleTypes(c) /\ PageInOrder /\ AddedInOrder /\ CandlesOK(c) /\ StatsOK(c)
    BY DEF CandleInv
  <1>3. InTime(trades) /\ property \in Nat
    BY <1>2, TypeFacts
  <1>4. PICK s : s = page'
    OBVIOUS
  <1>5. /\ s \in Seq(DOMAIN trades)
        /\ \A x \in DOMAIN s : trades[s[x]].at >= property
        /\ \A x, y \in DOMAIN s : x < y => trades[s[x]].at <= trades[s[y]].at
        /\ \A x \in DOMAIN s : \A j \in DOMAIN trades :
             property <= trades[j].at /\ trades[j].at < trades[s[x]].at =>
               \E y \in DOMAIN s : s[y] = j
    BY <1>1, <1>3, <1>4, AnswerFacts
  <1>6. CandleTypes(c)'
    BY <1>1, <1>2, <1>4, <1>5 DEF CandleTypes
  <1>7. PageInOrder'
    <2>1. ~ (property < property) /\ property <= property
      BY <1>3
    <2>2. \A j \in DOMAIN trades : ~ (property <= trades[j].at /\ trades[j].at < property)
      BY <1>3, TradeFacts
    <2> QED
      BY <1>1, <1>4, <1>5, <2>1, <2>2 DEF PageInOrder
  <1>8. AddedInOrder'
    BY <1>1, <1>2 DEF AddedInOrder
  <1>9. Pending' = Pending
    BY <1>1 DEF Pending
  <1>10. CandlesOK(c)'
    BY <1>1, <1>2, <1>9, SameTrades, CandlesStay
  <1>11. StatsOK(c)'
    BY <1>1, <1>2, SameTrades, StatsStay
  <1> QED
    BY <1>6, <1>7, <1>8, <1>10, <1>11 DEF CandleInv

-----------------------------------------------------------------------------
(* The beginning of a candle.                                              *)

LEMMA DivisionFacts ==
    ASSUME NEW t \in Nat, NEW g \in Nat \ {0}
    PROVE  /\ t % g \in Nat /\ t % g < g /\ t \div g \in Nat
           /\ t = g * (t \div g) + (t % g) /\ t % g <= t
  <1>1. t % g \in Nat /\ t % g < g
    OBVIOUS
  <1>2. t \div g \in Nat
    OBVIOUS
  <1>3. t = g * (t \div g) + (t % g)
    OBVIOUS
  <1>4. t % g <= t
    <2>1. g * (t \div g) \in Nat
      BY <1>2
    <2> QED
      BY ONLY <1>1, <1>3, <2>1, t \in Nat
  <1> QED
    BY <1>1, <1>2, <1>3, <1>4

LEMMA NoRemainder ==
    ASSUME NEW g \in Nat \ {0}, NEW u \in Nat
    PROVE  (g * u) % g = 0
  <1> DEFINE t == g * u
             q == t \div g
             r == t % g
  <1>1. t \in Nat
    OBVIOUS
  <1>2. r \in Nat /\ r < g /\ q \in Nat /\ t = g * q + r
    BY <1>1, DivisionFacts
  <1>3. g * (u - q) = r
    BY <1>2
  <1> QED
    OBVIOUS

LEMMA TruncateFacts ==
    ASSUME NEW t \in Nat, NEW g \in Nat \ {0}
    PROVE  t - (t % g) \in 0..t /\ (t - (t % g)) % g = 0
  <1>1. t % g \in Nat /\ t \div g \in Nat /\ t = g * (t \div g) + (t % g) /\ t % g <= t
    BY DivisionFacts
  <1>2. t - (t % g) = g * (t \div g)
    <2>1. g * (t \div g) \in Nat
      BY <1>1
    <2> QED
      BY ONLY <1>1, <2>1, t \in Nat
  <1>3. (g * (t \div g)) % g = 0
    BY <1>1, NoRemainder
  <1>4. t - (t % g) \in 0..t
    BY <1>1
  <1> QED
    BY <1>2, <1>3, <1>4

LEMMA KeyFacts ==
    ASSUME NEW c, Chart(c)!CandlesAssumption, CandleTypes(c)
    PROVE  /\ \A k \in DOMAIN candles : /\ k = <<k[1], k[2]>> /\ k[1] \in c.granularity
                                        /\ k[2] \in 0..now /\ k[2] % k[1] = 0
                                        /\ candles[k] \in CandleFields
           /\ \A t : Chart(c)!KeysOf(t) = {<<g, t - (t % g)>> : g \in c.granularity}
           /\ \A t \in 0..now : \A k \in Chart(c)!KeysOf(t) :
                \E g \in c.granularity, p \in 0..now : k = <<g, p>> /\ p % g = 0
           /\ \A h : \A i \in h : \A k \in Chart(c)!KeysOf(trades[i].at) : i \in Mine(trades, h, k)
           /\ \A h, k : \A i \in Mine(trades, h, k) :
                k = <<k[1], k[2]>> /\ k[1] \in c.granularity => k \in Chart(c)!KeysOf(trades[i].at)
  <1>1. ASSUME NEW k \in DOMAIN candles
        PROVE  /\ k = <<k[1], k[2]>> /\ k[1] \in c.granularity /\ k[2] \in 0..now
               /\ k[2] % k[1] = 0 /\ candles[k] \in CandleFields
    <2>1. PICK g \in c.granularity, p \in 0..now : k = <<g, p>> /\ p % g = 0
      BY DEF CandleTypes
    <2>2. candles[k] \in CandleFields
      BY DEF CandleTypes
    <2> QED
      BY <2>1, <2>2
  <1>2. \A t : Chart(c)!KeysOf(t) = {<<g, t - (t % g)>> : g \in c.granularity}
    BY DEF Chart!KeysOf, Chart!Truncate
  <1>3. ASSUME NEW t \in 0..now, NEW k \in Chart(c)!KeysOf(t)
        PROVE  \E g \in c.granularity, p \in 0..now : k = <<g, p>> /\ p % g = 0
    <2>1. PICK g \in c.granularity : k = <<g, t - (t % g)>>
      BY <1>2
    <2>2. now \in Nat /\ t \in Nat /\ g \in Nat \ {0}
      BY TypeFacts, CaseFacts
    <2>3. t - (t % g) \in 0..t /\ (t - (t % g)) % g = 0
      BY <2>2, TruncateFacts
    <2>4. t - (t % g) \in 0..now
      BY <2>2, <2>3
    <2> QED
      BY <2>1, <2>3, <2>4
  <1>4. ASSUME NEW h, NEW i \in h, NEW k \in Chart(c)!KeysOf(trades[i].at)
        PROVE  i \in Mine(trades, h, k)
    BY <1>2 DEF Mine
  <1>5. ASSUME NEW h, NEW k, NEW i \in Mine(trades, h, k), k = <<k[1], k[2]>>, k[1] \in c.granularity
        PROVE  k \in Chart(c)!KeysOf(trades[i].at)
    BY <1>2, <1>5 DEF Mine
  <1> QED
    BY <1>1, <1>2, <1>3, <1>4, <1>5

\* The candles after the trade: whatever of the writes that follow takes place.
LEMMA AddedCandles ==
    ASSUME NEW c, Chart(c)!CandlesAssumption, CandleInv(c), NEW h, h \in DOMAIN trades,
           h \notin cache, property <= trades[h].at,
           Chart(c)!CreateOrUpdateCandle(trades[h]),
           UNCHANGED <<trades, property>>, handled' = handled \cup {h},
           cache' \subseteq cache \cup {h},
           (restarts' + lost' = 0) => (restarts + lost = 0)
    PROVE  CandlesOK(c)' /\ DOMAIN candles \subseteq DOMAIN candles'
  <1> DEFINE w == trades[h]
             H == handled \cup {h}
  <1>1. CandleTypes(c) /\ AddedInOrder /\ CandlesOK(c)
    BY DEF CandleInv
  <1>2. /\ InTime(trades) /\ handled \subseteq DOMAIN trades /\ cache \subseteq handled
        /\ property \in Nat
    BY <1>1, TypeFacts
  <1>3. \A i \in DOMAIN trades : trades[i].at \in Nat /\ trades[i].price \in Nat /\ trades[i].amount \in Nat
    BY <1>2, TradeFacts
  <1> DEFINE K == Chart(c)!KeysOf(w.at)
  <1>4. candles' = [k \in DOMAIN candles \cup K |->
                      IF k \notin DOMAIN candles THEN Chart(c)!OfTrade(w)
                      ELSE IF k \in K THEN Chart(c)!Added(candles[k], w) ELSE candles[k]]
    BY DEF Chart!CreateOrUpdateCandle
  <1> HIDE DEF w, K
  <1>5. DOMAIN candles' = DOMAIN candles \cup K
    BY <1>4
  <1>6. H \subseteq DOMAIN trades
    BY <1>2
  <1>7. ASSUME NEW i \in H PROVE Chart(c)!KeysOf(trades[i].at) \subseteq DOMAIN candles'
    <2>1. CASE i = h
      BY <1>5, <2>1 DEF K, w
    <2>2. CASE i \in handled
      BY <1>1, <1>5, <2>2 DEF CandlesOK
    <2> QED
      BY <1>7, <2>1, <2>2
  <1>8. ASSUME NEW k \in DOMAIN candles' PROVE CandleOK(c, k)'
    <2> DEFINE S == Mine(trades, handled, k)
               U == Mine(trades, H, k)
               x == restarts + lost = 0
               y == restarts' + lost' = 0
    <2>1. S \subseteq handled /\ U \subseteq H /\ (U = S \/ U = S \cup {h})
      BY DEF Mine
    <2>2. k \in K => U = S \cup {h}
      <3>1. k \in K => h \in U
        BY <1>1, KeyFacts DEF K, w
      <3> QED
        BY <2>1, <3>1
    <2>3. k \notin K => U = S /\ (h \in S => FALSE)
      <3>1. k \notin K => k \in DOMAIN candles
        BY <1>5
      <3>2. k \notin K => h \notin U
        BY <1>1, <3>1, KeyFacts DEF K, w
      <3> QED
        BY <2>1, <3>2 DEF Mine
    <2>4. k \notin DOMAIN candles => S = {}
      <3> SUFFICES ASSUME k \notin DOMAIN candles, NEW i \in S PROVE FALSE
        OBVIOUS
      <3>1. k \in K
        BY <1>5
      <3>2. k = <<k[1], k[2]>> /\ k[1] \in c.granularity
        <4>1. k \in {<<g, w.at - (w.at % g)>> : g \in c.granularity}
          BY <1>1, <3>1, KeyFacts DEF K
        <4> QED
          BY <4>1
      <3>3. k \in Chart(c)!KeysOf(trades[i].at)
        BY <1>1, <3>2, KeyFacts
      <3> QED
        BY <1>1, <2>1, <3>3 DEF CandlesOK
    <2>5. k \in DOMAIN candles => Describes(trades, S, candles[k], Pending, x) /\ candles[k] \in CandleFields
      <3>1. k \in DOMAIN candles => CandleOK(c, k) /\ candles[k] \in CandleFields
        BY <1>1 DEF CandlesOK, CandleTypes
      <3> QED
        BY <3>1, CandleDescribes
    <2>6. y => x
      OBVIOUS
    <2>7. x \in BOOLEAN /\ y \in BOOLEAN
      OBVIOUS
    <2>8. x => cache = handled
      BY <1>1 DEF AddedInOrder
    <2> HIDE DEF x, y, S, U
    <2>9. S \in SUBSET DOMAIN trades /\ S \subseteq handled
      BY <1>2, <2>1
    <2>10. Describes(trades, U, candles'[k], Pending', y)
      <3>1. CASE k \notin DOMAIN candles
        <4>1. candles'[k] = Chart(c)!OfTrade(w) /\ U = {h}
          BY <1>4, <1>5, <2>2, <2>4, <3>1
        <4> QED
          BY <1>2, <4>1, DescribesFirst DEF w
      <3>2. CASE k \in DOMAIN candles /\ k \in K
        <4>1. candles'[k] = Chart(c)!Added(candles[k], w) /\ U = S \cup {h}
          BY <1>4, <1>5, <2>2, <3>2
        <4>2. h \notin S => \A j \in S : trades[j].at <= trades[h].at
          <5> SUFFICES ASSUME h \notin S, NEW j \in S PROVE trades[j].at <= trades[h].at
            OBVIOUS
          <5>1. h \notin handled
            BY <1>1, <3>2, KeyFacts DEF K, w, S
          <5>2. ~ (trades[h].at < trades[j].at)
            BY <1>1, <2>9, <5>1 DEF AddedInOrder
          <5>3. trades[h].at \in Nat /\ trades[j].at \in Nat
            BY <1>3, <2>9
          <5> QED
            BY <5>2, <5>3
        <4>3. ASSUME NEW l \in S, trades[l].at > trades[h].at PROVE l \in Pending'
          <5>1. trades[h].at \in Nat /\ trades[l].at \in Nat /\ l \in handled
            BY <1>3, <2>9
          <5>2. l \notin cache
            <6>1. l \in cache => h \in cache
              BY <1>1, <4>3, <5>1 DEF AddedInOrder
            <6> QED
              BY <6>1
          <5>3. l # h /\ trades[l].at >= property
            BY <1>2, <4>3, <5>1
          <5> QED
            BY <5>1, <5>2, <5>3 DEF Pending
        <4>4. y => x /\ h \notin S
          BY <2>6, <2>8, <2>9
        <4>5. candles[k] \in CandleFields /\ Describes(trades, S, candles[k], Pending, x)
          BY <2>5, <3>2
        <4>6. Describes(trades, S \cup {h}, Chart(c)!Added(candles[k], trades[h]), Pending', y)
          <5> HIDE DEF Pending
          <5> QED
            BY ONLY <1>2, <2>7, <2>9, <4>2, <4>3, <4>4, <4>5, h \in DOMAIN trades, DescribesAdd
        <4> QED
          BY <4>1, <4>6 DEF w
      <3>3. CASE k \in DOMAIN candles /\ k \notin K
        <4>1. candles'[k] = candles[k] /\ U = S /\ h \notin S
          BY <1>4, <1>5, <2>3, <3>3 DEF S
        <4>2. ASSUME NEW i \in S, i \in Pending PROVE i \in Pending'
          BY <2>9, <4>1, <4>2 DEF Pending
        <4>3. Describes(trades, S, candles[k], Pending, x) /\ S \subseteq DOMAIN trades
          BY <2>5, <2>9, <3>3
        <4>4. Describes(trades, S, candles[k], Pending', y)
          <5>1. \A i \in S : trades[i] = trades[i]
            OBVIOUS
          <5> HIDE DEF Pending
          <5> QED
            BY ONLY <1>2, <2>6, <2>7, <2>9, <4>2, <4>3, <5>1, DescribesSame
        <4> QED
          BY <4>1, <4>4
      <3> QED
        BY <3>1, <3>2, <3>3
    <2>11. Mine(trades', handled', k) = U
      BY DEF U
    <2> QED
      BY <2>10, <2>11, CandleDescribesNext DEF y
  <1> QED
    BY <1>5, <1>7, <1>8 DEF CandlesOK

LEMMA AddTradeKeeps ==
    ASSUME NEW c, Chart(c)!CandlesAssumption, CandleInv(c), Chart(c)!AddTrade
    PROVE  CandleInv(c)'
  <1> DEFINE h == Head(page)
  <1>1. /\ page # <<>> /\ h \notin cache
        /\ Chart(c)!CreateOrUpdateCandle(trades[h])
        /\ handled' = handled \cup {h}
        /\ \/ /\ checkpoint' = trades[h].at /\ cache' = cache \cup {h} /\ page' = Tail(page)
              /\ lost' = lost
           \/ /\ lost' = lost + 1
              /\ checkpoint' = checkpoint /\ cache' = cache /\ page' = page
        /\ UNCHANGED <<trades, now, property, polling, stats, market, restarts, failures>>
    BY DEF Chart!AddTrade, Chart!Advance, Chart!Remembered
  <1>2. CandleTypes(c) /\ PageInOrder /\ AddedInOrder /\ CandlesOK(c) /\ StatsOK(c)
    BY DEF CandleInv
  <1>3. /\ InTime(trades) /\ handled \subseteq DOMAIN trades /\ cache \subseteq handled
        /\ now \in Nat /\ property \in Nat /\ checkpoint \in Nat
        /\ restarts \in Nat /\ lost \in Nat
    BY <1>2, TypeFacts
  <1>4. page \in Seq(DOMAIN trades) /\ Tail(page) \in Seq(DOMAIN trades)
        /\ h = page[1] /\ 1 \in DOMAIN page /\ h \in DOMAIN trades
    <2>1. page \in Seq(DOMAIN trades)
      BY <1>2 DEF CandleTypes
    <2>2. Tail(page) \in Seq(DOMAIN trades) /\ h = page[1] /\ 1 \in DOMAIN page
      BY <1>1, <2>1, TailOrder
    <2> QED
      BY <2>1, <2>2
  <1>5. trades[h].at >= property /\ polling
    BY <1>1, <1>2, <1>4 DEF PageInOrder
  <1>6. \A j \in DOMAIN trades : trades[j].at \in Nat /\ trades[j].at <= now
    BY <1>2, <1>3, TradeFacts DEF CandleTypes
  <1> HIDE DEF h
  <1>7. ASSUME NEW j \in DOMAIN trades, property <= trades[j].at, trades[j].at < trades[h].at
        PROVE  j \in cache
    <2>1. j \in cache \/ \E y \in DOMAIN page : page[y] = j
      BY <1>2, <1>4, <1>7 DEF PageInOrder
    <2>2. ASSUME NEW y \in DOMAIN page, page[y] = j PROVE FALSE
      <3>1. y # 1
        BY <1>4, <1>6, <1>7, <2>2
      <3>2. y \in Nat \ {0}
        BY <1>1, <1>4, TailOrder
      <3>3. trades[page[1]].at <= trades[page[y]].at
        BY <1>2, <1>4, <3>1, <3>2 DEF PageInOrder
      <3> QED
        BY <1>4, <1>6, <1>7, <2>2, <3>3
    <2> QED
      BY <2>1, <2>2
  <1>8. CandlesOK(c)' /\ DOMAIN candles \subseteq DOMAIN candles'
    <2>1. cache' \subseteq cache \cup {h}
      BY <1>1
    <2>2. (restarts' + lost' = 0) => (restarts + lost = 0)
      BY <1>1, <1>3
    <2>3. property <= trades[h].at
      BY <1>3, <1>5, <1>6, <1>4
    <2> QED
      BY <1>1, <1>4, <2>1, <2>2, <2>3, AddedCandles
  <1>9. CandleTypes(c)'
    <2>1. checkpoint' \in 0..now /\ lost' \in Nat
      <3>1. checkpoint \in 0..now
        BY <1>2 DEF CandleTypes
      <3>2. trades[h].at \in 0..now
        BY <1>3, <1>4, <1>6
      <3> QED
        BY <1>1, <1>3, <3>1, <3>2
    <2>2. page' \in Seq(DOMAIN trades) /\ cache' \subseteq handled' /\ handled' \subseteq DOMAIN trades
      BY <1>1, <1>3, <1>4
    <2>3. ASSUME NEW k \in DOMAIN candles'
          PROVE  /\ \E g \in c.granularity, p \in 0..now : k = <<g, p>> /\ p % g = 0
                 /\ candles'[k] \in CandleFields
      <3> DEFINE w == trades[h]
                 K == Chart(c)!KeysOf(w.at)
      <3>1. candles' = [j \in DOMAIN candles \cup K |->
                          IF j \notin DOMAIN candles THEN Chart(c)!OfTrade(w)
                          ELSE IF j \in K THEN Chart(c)!Added(candles[j], w) ELSE candles[j]]
        BY <1>1 DEF Chart!CreateOrUpdateCandle
      <3>2. w.price \in Nat /\ w.amount \in Nat /\ w.at \in 0..now
        BY <1>3, <1>4, <1>6, TradeFacts
      <3> HIDE DEF w, K
      <3>3. k \in DOMAIN candles =>
              /\ \E g \in c.granularity, p \in 0..now : k = <<g, p>> /\ p % g = 0
              /\ candles[k] \in CandleFields
        BY <1>2 DEF CandleTypes
      <3>4. k \in K => \E g \in c.granularity, p \in 0..now : k = <<g, p>> /\ p % g = 0
        BY <1>2, <3>2, KeyFacts DEF K
      <3>5. candles'[k] \in CandleFields
        <4>1. CASE k \notin DOMAIN candles
          <5>1. candles'[k] = Chart(c)!OfTrade(w)
            BY <3>1, <4>1
          <5>2. Chart(c)!OfTrade(w) \in CandleFields
            BY <3>2 DEF Chart!OfTrade, CandleFields
          <5> QED
            BY <5>1, <5>2
        <4>2. CASE k \in DOMAIN candles
          <5>1. candles'[k] = IF k \in K THEN Chart(c)!Added(candles[k], w) ELSE candles[k]
            BY <3>1, <4>2
          <5>2. Increases(Chart(c)!Added(candles[k], w), candles[k], w)
            BY <3>2, <3>3, <4>2, FieldsAfter
          <5>3. Chart(c)!Added(candles[k], w) \in CandleFields
            BY <5>2 DEF Increases
          <5> QED
            BY <3>3, <4>2, <5>1, <5>3
        <4> QED
          BY <4>1, <4>2
      <3> QED
        BY <3>1, <3>3, <3>4, <3>5
    <2> QED
      BY <1>1, <1>2, <2>1, <2>2, <2>3 DEF CandleTypes
  <1>10. PageInOrder'
    <2>1. CASE checkpoint' = trades[h].at /\ cache' = cache \cup {h} /\ page' = Tail(page)
      <3>1. \A x \in DOMAIN page : trades[page[x]].at \in Nat
        BY <1>4, <1>6
      <3>2. cache \subseteq cache' /\ Head(page) \in cache' /\ checkpoint' = trades[Head(page)].at
        BY <2>1 DEF h
      <3> QED
        BY <1>1, <1>2, <1>4, <1>6, <2>1, <3>1, <3>2, TailInOrder
    <2>2. CASE checkpoint' = checkpoint /\ cache' = cache /\ page' = page
      BY <1>1, <1>2, <2>2 DEF PageInOrder
    <2> QED
      BY <1>1, <2>1, <2>2
  <1>11. AddedInOrder'
    <2>1. ASSUME NEW i \in cache', NEW j \in DOMAIN trades, property <= trades[j].at,
                 trades[j].at < trades[i].at
          PROVE  j \in cache'
      <3>1. CASE i \in cache
        <4>1. j \in cache
          BY <1>2, <2>1, <3>1 DEF AddedInOrder
        <4> QED
          BY <1>1, <4>1
      <3>2. CASE i \notin cache
        <4>1. i = h
          BY <1>1, <2>1, <3>2
        <4>2. j \in cache
          BY <1>7, <2>1, <4>1
        <4> QED
          BY <1>1, <4>2
      <3> QED
        BY <3>1, <3>2
    <2>2. ASSUME NEW i \in handled', NEW j \in DOMAIN trades, trades[j].at < trades[i].at
          PROVE  j \in handled'
      <3>1. CASE i \in handled
        BY <1>1, <1>2, <2>2, <3>1 DEF AddedInOrder
      <3>2. CASE i \notin handled
        <4>1. i = h
          BY <1>1, <2>2, <3>2
        <4>2. CASE property <= trades[j].at
          BY <1>1, <1>3, <1>7, <2>2, <4>1, <4>2
        <4>3. CASE ~ (property <= trades[j].at)
          <5>1. trades[j].at < property
            BY <1>3, <1>6, <4>3
          <5> QED
            BY <1>1, <1>2, <5>1 DEF AddedInOrder
        <4> QED
          BY <4>2, <4>3
      <3> QED
        BY <3>1, <3>2
    <2>3. \A j \in DOMAIN trades : trades[j].at < property => j \in handled'
      BY <1>1, <1>2 DEF AddedInOrder
    <2>4. ASSUME failures = 0, NEW i \in cache' PROVE trades[i].at <= checkpoint'
      <3>1. \A m \in cache : trades[m].at <= checkpoint
        BY <1>2, <1>5, <2>4 DEF AddedInOrder
      <3>2. CASE checkpoint' = trades[h].at /\ cache' = cache \cup {h}
        <4>1. CASE i = h
          BY <1>4, <1>6, <3>2, <4>1
        <4>2. CASE i \in cache
          <5>1. ~ (trades[h].at < trades[i].at)
            <6>1. property <= trades[h].at
              BY <1>3, <1>4, <1>5, <1>6
            <6> QED
              BY <1>1, <1>2, <1>4, <4>2, <6>1 DEF AddedInOrder
          <5>2. trades[h].at \in Nat /\ trades[i].at \in Nat
            BY <1>3, <1>4, <1>6, <4>2
          <5> QED
            BY <3>2, <5>1, <5>2
        <4> QED
          BY <2>4, <3>2, <4>1, <4>2
      <3>3. CASE checkpoint' = checkpoint /\ cache' = cache
        BY <2>4, <3>1, <3>3
      <3> QED
        BY <1>1, <3>2, <3>3
    <2>5. restarts' + lost' = 0 => cache' = handled'
      <3>1. CASE lost' = lost + 1
        BY <1>1, <1>3, <3>1
      <3>2. CASE lost' = lost /\ cache' = cache \cup {h}
        <4>1. restarts + lost = 0 => cache = handled
          BY <1>2 DEF AddedInOrder
        <4> QED
          BY <1>1, <3>2, <4>1
      <3> QED
        BY <1>1, <3>1, <3>2
    <2> QED
      BY <1>1, <1>5, <2>1, <2>2, <2>3, <2>4, <2>5 DEF AddedInOrder
  <1>12. StatsOK(c)'
    <2>1. (restarts' + lost' = 0) => (restarts + lost = 0)
      BY <1>1, <1>3
    <2> QED
      BY <1>1, <1>2, <1>8, <2>1, SameTrades, StatsStay
  <1> QED
    BY <1>8, <1>9, <1>10, <1>11, <1>12 DEF CandleInv

-----------------------------------------------------------------------------
(* The statistics.                                                         *)

LEMMA MinIs ==
    ASSUME NEW c, NEW S, S \subseteq Nat, S # {}
    PROVE  Chart(c)!Min(S) \in S /\ \A x \in S : Chart(c)!Min(S) <= x
  <1>1. \E x \in S : \A y \in S : x <= y
    BY LeastNatural
  <1> QED
    BY <1>1 DEF Chart!Min

LEMMA MaxIs ==
    ASSUME NEW c, NEW n \in Nat, NEW S, S \subseteq 0..n, S # {}
    PROVE  Chart(c)!Max(S) \in S /\ \A x \in S : Chart(c)!Max(S) >= x
  <1> DEFINE T == {n - x : x \in S}
  <1>1. T \subseteq Nat /\ T # {}
    <2>1. \A x \in S : n - x \in Nat
      <3>1. \A x \in 0..n : n - x \in Nat
        OBVIOUS
      <3> QED
        BY <3>1
    <2> QED
      BY <2>1
  <1>2. PICK d \in T : \A y \in T : d <= y
    <2> HIDE DEF T
    <2> QED
      BY <1>1, LeastNatural
  <1>3. PICK m \in S : d = n - m
    OBVIOUS
  <1>4. \A x \in S : m >= x
    <2> SUFFICES ASSUME NEW x \in S PROVE m >= x
      OBVIOUS
    <2>1. n - m <= n - x
      BY <1>2, <1>3
    <2> QED
      BY <2>1
  <1> QED
    BY <1>4 DEF Chart!Max

\* A statistics candle closed with a trade of its time.
LEMMA PointFacts ==
    ASSUME NEW c, Chart(c)!CandlesAssumption, CandleTypes(c), NEW g \in c.granularity
    PROVE  /\ Chart(c)!Points(g) \subseteq 0..now
           /\ \A p \in Chart(c)!Points(g) : <<g, p>> \in DOMAIN candles /\ p % g = 0
           /\ \A p : <<g, p>> \in DOMAIN candles => p \in Chart(c)!Points(g)
           /\ IsFiniteSet(Chart(c)!Points(g))
  <1>1. ASSUME NEW p \in Chart(c)!Points(g)
        PROVE  <<g, p>> \in DOMAIN candles /\ p \in 0..now /\ p % g = 0
    <2>1. PICK k \in DOMAIN candles : k[1] = g /\ p = k[2]
      BY DEF Chart!Points
    <2>2. k = <<k[1], k[2]>> /\ k[2] \in 0..now /\ k[2] % k[1] = 0
      BY KeyFacts
    <2> QED
      BY <2>1, <2>2
  <1>2. ASSUME NEW p, <<g, p>> \in DOMAIN candles PROVE p \in Chart(c)!Points(g)
    <2>1. <<g, p>>[1] = g /\ <<g, p>>[2] = p
      OBVIOUS
    <2> QED
      BY <1>2, <2>1 DEF Chart!Points
  <1>3. IsFiniteSet(0..now)
    <2>1. now \in Int /\ 0 \in Int
      BY TypeFacts
    <2> QED
      BY <2>1, FS_Interval
  <1>4. Chart(c)!Points(g) \subseteq 0..now
    BY <1>1
  <1>5. IsFiniteSet(Chart(c)!Points(g))
    BY <1>3, <1>4, FS_Subset
  <1> QED
    BY <1>1, <1>2, <1>4, <1>5

\* The statistics only read what the poller writes.
LEMMA QuietReads ==
    ASSUME NEW c, CandleTypes(c), PageInOrder, AddedInOrder, CandlesOK(c),
           UNCHANGED <<trades, now, property, checkpoint, page, polling, cache, candles, handled,
                       restarts, failures, lost>>
    PROVE  CandleTypes(c)' /\ PageInOrder' /\ AddedInOrder' /\ CandlesOK(c)'
  <1>1. CandleTypes(c)'
    BY DEF CandleTypes
  <1>2. PageInOrder'
    BY DEF PageInOrder
  <1>3. AddedInOrder'
    BY DEF AddedInOrder
  <1>4. Pending' = Pending
    BY DEF Pending
  <1>5. CandlesOK(c)'
    BY <1>4, SameTrades, CandlesStay
  <1> QED
    BY <1>1, <1>2, <1>3, <1>5

LEMMA ReadPriceKeeps ==
    ASSUME NEW c, Chart(c)!CandlesAssumption, CandleInv(c), Chart(c)!ReadPrice
    PROVE  CandleInv(c)'
  <1> DEFINE g == c.statsGranularity
             P == Chart(c)!Points(g)
             p == Chart(c)!Max(P)
             close == candles[<<g, p>>].close
             none == [price |-> 0, first |-> 0, volume |-> 0, at |-> now]
             last == [price |-> close, first |-> 0, volume |-> 0, at |-> now]
  <1>1. UNCHANGED <<trades, now, property, checkpoint, page, polling, cache, candles, handled,
                    restarts, failures, lost>>
    BY DEF Chart!ReadPrice, Chart!poller, Chart!faults
  <1>2. IF P = {} THEN market' = none /\ stats' = stats
        ELSE IF p < now - c.day THEN market' = last /\ stats' = stats
        ELSE /\ stats' = [step |-> "first", price |-> close, at |-> now, first |-> 0]
             /\ market' = market
    BY DEF Chart!ReadPrice, Chart!Start, Chart!NoMarket
  <1>3. CandleTypes(c) /\ PageInOrder /\ AddedInOrder /\ CandlesOK(c) /\ StatsOK(c)
    BY DEF CandleInv
  <1>4. InTime(trades) /\ now \in Nat /\ g \in c.granularity /\ c.day \in Nat
    BY <1>3, TypeFacts, CaseFacts
  <1>5. P \subseteq 0..now /\ \A q \in P : <<g, q>> \in DOMAIN candles
    BY <1>3, <1>4, PointFacts
  <1> HIDE DEF g, P
  <1>6. P # {} => p \in P
    BY <1>4, <1>5, MaxIs
  <1> HIDE DEF p
  <1>7. P # {} => close \in Nat
    <2>1. P # {} => candles[<<g, p>>] \in CandleFields
      BY <1>3, <1>5, <1>6, KeyFacts
    <2> QED
      BY <2>1 DEF CandleFields
  <1> HIDE DEF close
  <1>8. StatsHold(c, trades, DOMAIN candles, stats, market, restarts + lost = 0)
    BY <1>3, StatsMean
  <1>9. CandleTypes(c)' /\ PageInOrder' /\ AddedInOrder' /\ CandlesOK(c)'
    BY <1>1, <1>3, QuietReads
  <1>10. StatsHold(c, trades, DOMAIN candles, stats', market', restarts + lost = 0)
    <2>1. \A m : market' = [price |-> m, first |-> 0, volume |-> 0, at |-> now] /\ stats' = stats
                 /\ m \in Nat => StatsHold(c, trades, DOMAIN candles, stats', market', restarts + lost = 0)
      <3> SUFFICES ASSUME NEW m \in Nat,
                          market' = [price |-> m, first |-> 0, volume |-> 0, at |-> now],
                          stats' = stats
                   PROVE  StatsHold(c, trades, DOMAIN candles, stats', market', restarts + lost = 0)
        OBVIOUS
      <3>1. market' \in [price : Nat, first : Nat, volume : Nat, at : Nat]
            /\ market'.first = 0 /\ market'.volume = 0
        BY <1>4
      <3>2. \A s : Total(Amounts(trades), DayOf(trades, s)) \in Nat
        <4>1. Extends(trades, trades)
          BY DEF Extends
        <4> QED
          BY <1>4, <4>1, DayGrows
      <3>3. market'.volume <= Total(Amounts(trades), DayOf(trades, market'.at - c.day))
        BY <3>1, <3>2
      <3> QED
        BY <1>8, <3>1, <3>3 DEF StatsHold
    <2>2. CASE P = {}
      BY <1>2, <2>1, <2>2
    <2>3. CASE P # {} /\ p < now - c.day
      BY <1>2, <1>7, <2>1, <2>3
    <2>4. CASE P # {} /\ ~ (p < now - c.day)
      <3>1. stats' = [step |-> "first", price |-> close, at |-> now, first |-> 0] /\ market' = market
        BY <1>2, <2>4
      <3>2. stats' \in [step : {"price", "first", "volume"}, price : Nat, at : Nat, first : Nat]
        BY <1>4, <1>7, <2>4, <3>1
      <3>3. <<g, p>> \in DOMAIN candles /\ <<g, p>>[1] = g /\ <<g, p>>[2] = p /\ p >= now - c.day
        <4>1. p \in 0..now /\ p >= now - c.day
          <5>1. p \in P
            BY ONLY <1>6, <2>4
          <5>2. p \in 0..now
            BY ONLY <1>5, <5>1
          <5>3. p \in Nat /\ now \in Nat /\ c.day \in Nat /\ ~ (p < now - c.day)
            BY ONLY <1>4, <2>4, <5>2
          <5> QED
            BY ONLY <5>2, <5>3
        <4>2. <<g, p>>[1] = g /\ <<g, p>>[2] = p
          OBVIOUS
        <4> QED
          BY <1>5, <1>6, <2>4, <4>1, <4>2
      <3>4. \E k \in DOMAIN candles : k[1] = g /\ k[2] >= now - c.day
        BY <3>3
      <3>5. stats'.step = "first" /\ stats'.at = now
        BY <3>1
      <3> QED
        BY <1>8, <3>1, <3>2, <3>4, <3>5 DEF StatsHold, g
    <2> QED
      BY <2>2, <2>3, <2>4
  <1>11. StatsOK(c)'
    BY <1>1, <1>10, StatsMeanNext
  <1> QED
    BY <1>9, <1>11 DEF CandleInv

\* The trades of candles that begin at the points A.
At(t, h, g, A) == {i \in h : t[i].at - (t[i].at % g) \in A}

LEMMA SumByPoint ==
    ASSUME NEW t, InTime(t), NEW h \in SUBSET DOMAIN t, NEW g, NEW S, IsFiniteSet(S), NEW v,
           \A p \in S : v[p] = Total(Amounts(t), Mine(t, h, <<g, p>>))
    PROVE  Total(v, S) = Total(Amounts(t), At(t, h, g, S))
  <1> DEFINE Bad == {A \in SUBSET S : Total(v, A) # Total(Amounts(t), At(t, h, g, A))}
             f == Amounts(t)
  <1> SUFFICES ASSUME Bad # {} PROVE FALSE
    OBVIOUS
  <1>1. Bad \subseteq SUBSET S
    OBVIOUS
  <1> HIDE DEF Bad
  <1>2. PICK u \in Bad : \A w \in Bad : w \subseteq u => w = u
    BY <1>1, SmallestOf
  <1>3. u \in SUBSET S /\ Total(v, u) # Total(f, At(t, h, g, u))
    BY DEF Bad
  <1>4. u # {}
    <2> SUFFICES ASSUME u = {} PROVE FALSE
      OBVIOUS
    <2>1. At(t, h, g, u) = {}
      BY DEF At
    <2> QED
      BY <1>3, <2>1, SumNone
  <1>5. PICK p \in u : TRUE
    BY <1>4
  <1> DEFINE w == u \ {p}
             M == Mine(t, h, <<g, p>>)
             R == At(t, h, g, w)
  <1>6. w \in SUBSET S /\ w # u /\ w \subseteq u
    BY <1>3
  <1>7. Total(v, w) = Total(f, R)
    BY <1>2, <1>6 DEF Bad
  <1>8. <<g, p>>[1] = g /\ <<g, p>>[2] = p
    OBVIOUS
  <1>9. M \cup R = At(t, h, g, u) /\ M \cap R = {} /\ M \in SUBSET DOMAIN t /\ R \in SUBSET DOMAIN t
    BY <1>8 DEF Mine, At
  <1>10. IsFiniteSet(DOMAIN t) /\ \A i \in DOMAIN t : f[i] \in Nat
    BY TradeFacts
  <1>11. IsFiniteSet(M) /\ IsFiniteSet(R) /\ IsFiniteSet(u)
    BY <1>3, <1>9, <1>10, FS_Subset
  <1> HIDE DEF M, R, f
  <1>12. Total(f, At(t, h, g, u)) = Total(f, M) + Total(f, R)
    <2>1. Total(f, M \cup R) = Total(f, M) + Total(f, R)
      BY ONLY <1>9, <1>10, SumOfBoth
    <2> QED
      BY <1>9, <2>1
  <1>13. Total(f, M) \in Nat /\ Total(f, R) \in Nat
    BY <1>9, <1>10, <1>11, SumTypes
  <1>14. v[p] = Total(f, M)
    BY <1>3 DEF M, f
  <1>15. \A q \in u : v[q] \in Nat
    <2> SUFFICES ASSUME NEW q \in u PROVE v[q] \in Nat
      OBVIOUS
    <2>1. v[q] = Total(f, Mine(t, h, <<g, q>>))
      BY <1>3 DEF f
    <2>2. Mine(t, h, <<g, q>>) \subseteq DOMAIN t
      BY DEF Mine
    <2>3. Total(f, Mine(t, h, <<g, q>>)) \in Nat
      BY <1>10, <2>2, SumTypes, FS_Subset
    <2> QED
      BY <2>1, <2>3
  <1>16. Total(v, u) = v[p] + Total(v, w)
    BY <1>11, <1>15, SumTakes
  <1> QED
    BY <1>3, <1>7, <1>12, <1>13, <1>14, <1>16

LEMMA ReadFirstKeeps ==
    ASSUME NEW c, Chart(c)!CandlesAssumption, CandleInv(c), Chart(c)!ReadFirst
    PROVE  CandleInv(c)'
  <1> DEFINE g == c.statsGranularity
             S == {p \in Chart(c)!Points(g) : p >= stats.at - c.day}
             p == Chart(c)!Min(S)
             close == candles[<<g, p>>].close
  <1>1. UNCHANGED <<trades, now, property, checkpoint, page, polling, cache, candles, market,
                    handled, restarts, failures, lost>>
    BY DEF Chart!ReadFirst, Chart!poller, Chart!faults
  <1>2. stats.step = "first" /\ stats' = [stats EXCEPT !.step = "volume", !.first = close]
    BY DEF Chart!ReadFirst, Chart!PointsSince, Chart!Start
  <1>3. CandleTypes(c) /\ PageInOrder /\ AddedInOrder /\ CandlesOK(c) /\ StatsOK(c)
    BY DEF CandleInv
  <1>4. InTime(trades) /\ now \in Nat /\ g \in c.granularity /\ c.day \in Nat /\ g \in Nat \ {0}
        /\ handled \subseteq DOMAIN trades
    BY <1>3, TypeFacts, CaseFacts
  <1>5. Chart(c)!Points(g) \subseteq 0..now
        /\ \A q \in Chart(c)!Points(g) : <<g, q>> \in DOMAIN candles
    BY <1>3, <1>4, PointFacts
  <1>6. StatsHold(c, trades, DOMAIN candles, stats, market, restarts + lost = 0)
    BY <1>3, StatsMean
  <1>7. S # {}
    BY <1>2, <1>3 DEF StatsOK, Chart!PointsSince, Chart!Start
  <1>8. S \subseteq Nat
    BY <1>5
  <1> HIDE DEF g, S
  <1>9. p \in S
    BY <1>7, <1>8, MinIs
  <1> HIDE DEF p
  <1>10. <<g, p>> \in DOMAIN candles /\ p >= stats.at - c.day /\ p \in Nat
    BY <1>5, <1>8, <1>9 DEF S
  <1>11. close \in Nat
    <2>1. candles[<<g, p>>] \in CandleFields
      BY <1>3, <1>10, KeyFacts
    <2> QED
      BY <2>1 DEF CandleFields
  <1>12. \E i \in DOMAIN trades : trades[i].at >= stats.at - c.day /\ trades[i].price = close
    <2>1. CandleOK(c, <<g, p>>)
      BY <1>3, <1>10 DEF CandlesOK
    <2>2. Describes(trades, Mine(trades, handled, <<g, p>>), candles[<<g, p>>], Pending, restarts + lost = 0)
      BY <2>1, CandleDescribes
    <2>3. PICK i \in Mine(trades, handled, <<g, p>>) : close = trades[i].price
      BY <2>2 DEF Describes
    <2>4. <<g, p>>[1] = g /\ <<g, p>>[2] = p
      OBVIOUS
    <2>5. i \in handled /\ trades[i].at - (trades[i].at % g) = p
      BY <2>4 DEF Mine
    <2>6. i \in DOMAIN trades /\ trades[i].at \in Nat
      BY <1>4, <2>5, TradeFacts
    <2>7. trades[i].at % g \in Nat
      BY <1>4, <2>6, DivisionFacts
    <2>8. stats.at \in Nat
      BY <1>6 DEF StatsHold
    <2>9. trades[i].at >= stats.at - c.day
      BY <1>4, <1>10, <2>5, <2>6, <2>7, <2>8
    <2> QED
      BY <2>3, <2>6, <2>9
  <1> HIDE DEF close
  <1>13. /\ stats' \in [step : {"price", "first", "volume"}, price : Nat, at : Nat, first : Nat]
         /\ stats'.step = "volume" /\ stats'.at = stats.at /\ stats'.first = close
    BY <1>2, <1>6, <1>11 DEF StatsHold
  <1>14. StatsHold(c, trades, DOMAIN candles, stats', market, restarts + lost = 0)
    BY <1>2, <1>6, <1>12, <1>13 DEF StatsHold
  <1>15. StatsOK(c)'
    BY <1>1, <1>14, StatsMeanNext
  <1>16. CandleTypes(c)' /\ PageInOrder' /\ AddedInOrder' /\ CandlesOK(c)'
    BY <1>1, <1>3, QuietReads
  <1> QED
    BY <1>15, <1>16 DEF CandleInv

LEMMA ReadVolumeKeeps ==
    ASSUME NEW c, Chart(c)!CandlesAssumption, CandleInv(c), Chart(c)!ReadVolume
    PROVE  CandleInv(c)'
  <1> DEFINE g == c.statsGranularity
             P == Chart(c)!Points(g)
             S == {p \in P : p >= stats.at - c.day}
             v == [p \in P |-> candles[<<g, p>>].volume]
             x == restarts + lost = 0
             D == DayOf(trades, stats.at - c.day)
  <1>1. UNCHANGED <<trades, now, property, checkpoint, page, polling, cache, candles, handled,
                    restarts, failures, lost>>
    BY DEF Chart!ReadVolume, Chart!poller, Chart!faults
  <1>2. /\ stats.step = "volume"
        /\ market' = [price |-> stats.price, first |-> stats.first, at |-> stats.at,
                      volume |-> Total(v, S)]
        /\ stats' = [step |-> "price", price |-> 0, at |-> 0, first |-> 0]
    BY ChartLibrary DEF Chart!ReadVolume, Chart!PointsSince, Chart!Start, Chart!NoStats
  <1>3. CandleTypes(c) /\ PageInOrder /\ AddedInOrder /\ CandlesOK(c) /\ StatsOK(c)
    BY DEF CandleInv
  <1>4. InTime(trades) /\ now \in Nat /\ g \in c.granularity /\ c.day \in Nat /\ g \in Nat \ {0}
        /\ handled \subseteq DOMAIN trades
    BY <1>3, TypeFacts, CaseFacts
  <1>5. P \subseteq 0..now /\ IsFiniteSet(P) /\ \A p \in P : <<g, p>> \in DOMAIN candles
    BY <1>3, <1>4, PointFacts
  <1>6. StatsHold(c, trades, DOMAIN candles, stats, market, x)
    BY <1>3, StatsMean
  <1>7. stats.at \in Nat /\ stats.price \in Nat /\ stats.first \in Nat
    BY <1>6 DEF StatsHold
  <1> HIDE DEF P, g
  <1>8. S \subseteq P /\ IsFiniteSet(S)
    BY <1>5, FS_Subset
  <1>9. \A p \in S : v[p] = candles[<<g, p>>].volume /\ v[p] \in Nat
    <2> SUFFICES ASSUME NEW p \in S PROVE v[p] = candles[<<g, p>>].volume /\ v[p] \in Nat
      OBVIOUS
    <2>1. candles[<<g, p>>] \in CandleFields
      BY <1>3, <1>5, KeyFacts
    <2> QED
      BY <2>1 DEF CandleFields
  <1> HIDE DEF v
  <1>10. Total(v, S) \in Nat
    BY <1>8, <1>9, SumTypes
  <1>11. x => Total(v, S) <= Total(Amounts(trades), D)
    <2> SUFFICES ASSUME x PROVE Total(v, S) <= Total(Amounts(trades), D)
      OBVIOUS
    <2>1. \A p \in S : v[p] = Total(Amounts(trades), Mine(trades, handled, <<g, p>>))
      <3> SUFFICES ASSUME NEW p \in S
                   PROVE  v[p] = Total(Amounts(trades), Mine(trades, handled, <<g, p>>))
        OBVIOUS
      <3>1. CandleOK(c, <<g, p>>)
        BY <1>3, <1>5 DEF CandlesOK
      <3>2. Describes(trades, Mine(trades, handled, <<g, p>>), candles[<<g, p>>], Pending, x)
        BY <3>1, CandleDescribes
      <3> QED
        BY <1>9, <3>2 DEF Describes
    <2>2. Total(v, S) = Total(Amounts(trades), At(trades, handled, g, S))
      BY <1>4, <1>8, <2>1, SumByPoint
    <2>3. At(trades, handled, g, S) \subseteq D /\ D \subseteq DOMAIN trades
      <3> SUFFICES ASSUME NEW i \in At(trades, handled, g, S) PROVE i \in D
        BY DEF DayOf
      <3>1. i \in DOMAIN trades /\ trades[i].at - (trades[i].at % g) \in S
        BY <1>4 DEF At
      <3>2. trades[i].at \in Nat
        BY <1>4, <3>1, TradeFacts
      <3>3. trades[i].at % g \in Nat
        BY <1>4, <3>2, DivisionFacts
      <3>4. trades[i].at - (trades[i].at % g) >= stats.at - c.day
        BY <3>1
      <3>5. trades[i].at >= stats.at - c.day
        BY <1>4, <1>7, <3>2, <3>3, <3>4
      <3> QED
        BY <3>1, <3>5 DEF DayOf
    <2>4. IsFiniteSet(D) /\ \A i \in D : Amounts(trades)[i] \in Nat
      BY <1>4, <2>3, TradeFacts
    <2> HIDE DEF D, S
    <2>5. Total(Amounts(trades), At(trades, handled, g, S)) <= Total(Amounts(trades), D)
      BY <2>3, <2>4, SumOfPart
    <2> QED
      BY <2>2, <2>5
  <1> HIDE DEF S, x
  <1>12. /\ market' \in [price : Nat, first : Nat, volume : Nat, at : Nat]
         /\ market'.volume = Total(v, S) /\ market'.at = stats.at /\ market'.first = stats.first
    BY <1>2, <1>7, <1>10
  <1>13. \E i \in D : trades[i].price = stats.first
    BY <1>2, <1>6 DEF StatsHold, DayOf
  <1>14. /\ stats' \in [step : {"price", "first", "volume"}, price : Nat, at : Nat, first : Nat]
         /\ stats'.step = "price"
    BY <1>2
  <1>15. StatsHold(c, trades, DOMAIN candles, stats', market', x)
    BY <1>11, <1>12, <1>13, <1>14 DEF StatsHold
  <1>16. StatsOK(c)'
    BY <1>1, <1>15, StatsMeanNext DEF x
  <1>17. CandleTypes(c)' /\ PageInOrder' /\ AddedInOrder' /\ CandlesOK(c)'
    BY <1>1, <1>3, QuietReads
  <1> QED
    BY <1>16, <1>17 DEF CandleInv

-----------------------------------------------------------------------------
(* The invariant holds in every state.                                     *)

LEMMA CandlesBegin ==
    ASSUME NEW c, Chart(c)!CandlesAssumption, Chart(c)!Init
    PROVE  CandleInv(c)
  <1>1. /\ trades = <<>> /\ now = 1 /\ property = 0 /\ checkpoint = 0
        /\ page = <<>> /\ polling = FALSE /\ cache = {} /\ candles = <<>>
        /\ stats = [step |-> "price", price |-> 0, at |-> 0, first |-> 0]
        /\ market = [price |-> 0, first |-> 0, volume |-> 0, at |-> 0]
        /\ handled = {} /\ restarts = 0 /\ failures = 0 /\ lost = 0
    BY DEF Chart!Init, Chart!NoStats, Chart!NoMarket
  <1>2. DOMAIN trades = {} /\ DOMAIN page = {} /\ DOMAIN candles = {}
    BY <1>1
  <1>3. c.maxTime \in Nat \ {0} /\ c.maxTrades \in Nat /\ c.maxTies \in Nat /\ c.day \in Nat
    BY CaseFacts
  <1>4. trades \in Seq(TradeAt) /\ Len(trades) = 0 /\ page \in Seq(DOMAIN trades)
    BY <1>1
  <1>5. CandleTypes(c)
    <2>1. \A t \in Nat : Cardinality({i \in DOMAIN trades : trades[i].at = t}) <= c.maxTies
      <3>1. \A t \in Nat : {i \in DOMAIN trades : trades[i].at = t} = {}
        BY <1>2
      <3>2. Cardinality({}) = 0
        BY FS_EmptySet
      <3> QED
        BY <1>3, <3>1, <3>2
    <2>2. now \in 1..c.maxTime /\ Len(trades) <= c.maxTrades
      BY <1>1, <1>3, <1>4
    <2>3. property \in 0..now /\ checkpoint \in 0..now /\ {restarts, failures, lost} \subseteq Nat
      BY <1>1
    <2> QED
      BY <1>1, <1>2, <1>4, <2>1, <2>2, <2>3 DEF CandleTypes
  <1>6. PageInOrder
    BY <1>1, <1>2 DEF PageInOrder
  <1>7. AddedInOrder
    BY <1>1, <1>2 DEF AddedInOrder
  <1>8. CandlesOK(c)
    BY <1>1, <1>2 DEF CandlesOK
  <1>9. StatsOK(c)
    <2>1. InTime(trades)
      BY <1>2, <1>4 DEF InTime
    <2>2. Extends(trades, trades)
      BY DEF Extends
    <2>3. Total(Amounts(trades), DayOf(trades, market.at - c.day)) \in Nat
      BY <2>1, <2>2, DayGrows
    <2>4. /\ stats \in [step : {"price", "first", "volume"}, price : Nat, at : Nat, first : Nat]
          /\ stats.step = "price"
          /\ market \in [price : Nat, first : Nat, volume : Nat, at : Nat]
          /\ market.volume = 0 /\ market.first = 0
      BY <1>1
    <2>5. market.volume <= Total(Amounts(trades), DayOf(trades, market.at - c.day))
      BY <2>3, <2>4
    <2>6. StatsHold(c, trades, DOMAIN candles, stats, market, restarts + lost = 0)
      BY <2>4, <2>5 DEF StatsHold
    <2> QED
      BY <2>6, StatsMean
  <1> QED
    BY <1>5, <1>6, <1>7, <1>8, <1>9 DEF CandleInv

LEMMA CandlesRest ==
    ASSUME NEW c, CandleInv(c), UNCHANGED candleVars
    PROVE  CandleInv(c)'
  <1>1. UNCHANGED <<trades, now, property, checkpoint, page, polling, cache, candles, stats, market,
                    handled, restarts, failures, lost>>
    BY DEF candleVars
  <1>2. CandleTypes(c) /\ PageInOrder /\ AddedInOrder /\ CandlesOK(c) /\ StatsOK(c)
    BY DEF CandleInv
  <1>3. CandleTypes(c)' /\ PageInOrder' /\ AddedInOrder' /\ CandlesOK(c)'
    BY <1>1, <1>2, QuietReads
  <1>4. StatsOK(c)'
    BY <1>1, <1>2, SameTrades, StatsStay
  <1> QED
    BY <1>3, <1>4 DEF CandleInv

LEMMA PollerKeeps ==
    ASSUME NEW c, Chart(c)!CandlesAssumption, CandleInv(c), Chart(c)!PollerNext
    PROVE  CandleInv(c)'
  <1>1. \/ \E p \in c.tradePrice, a \in c.tradeAmount : Chart(c)!Trade(p, a)
        \/ Chart(c)!Tick \/ Chart(c)!FetchTrades \/ Chart(c)!SkipCached \/ Chart(c)!AddTrade
        \/ Chart(c)!WriteTimeProperty \/ Chart(c)!Restart
    BY DEF Chart!PollerNext, Chart!HandleMarketCandles
  <1> QED
    BY <1>1, TradeKeeps, TickKeeps, PollKeeps, SkipCachedKeeps, AddTradeKeeps,
       WriteTimePropertyKeeps, RestartKeeps

LEMMA ChartKeeps ==
    ASSUME NEW c, Chart(c)!CandlesAssumption, CandleInv(c), Chart(c)!Next
    PROVE  CandleInv(c)'
  <1>1. \/ Chart(c)!PollerNext \/ Chart(c)!ReadPrice \/ Chart(c)!ReadFirst \/ Chart(c)!ReadVolume
    BY DEF Chart!Next, Chart!HandleMarketStats
  <1> QED
    BY <1>1, PollerKeeps, ReadPriceKeeps, ReadFirstKeeps, ReadVolumeKeeps

LEMMA CandlesStepKeepsInv == ASSUME CandlesInv, [ExampleNext]_exampleVars PROVE CandlesInv'
  <1>1. Chart(CandlesCase)!CandlesAssumption /\ Chart(WindowCase)!CandlesAssumption
    BY CandlesAssumption DEF CandlesAssumption
  <1>2. part' = part
    BY DEF ExampleNext, CandleStep, CopyStep, TradeStep, AccountStep, LimiterStep, PoolStep,
           exampleVars
  <1>3. CASE UNCHANGED candleVars
    BY <1>2, <1>3, CandlesRest DEF CandlesInv
  <1>4. CASE part = "candles" /\ Chart(CandlesCase)!PollerNext
    <2>1. CandleInv(CandlesCase)
      BY <1>4 DEF CandlesInv
    <2>2. CandleInv(CandlesCase)'
      BY <1>1, <1>4, <2>1, PollerKeeps
    <2> QED
      BY <1>2, <1>4, <2>2 DEF CandlesInv
  <1>5. CASE part = "window" /\ Chart(WindowCase)!Next
    <2>1. CandleInv(WindowCase)
      BY <1>5 DEF CandlesInv
    <2>2. CandleInv(WindowCase)'
      BY <1>1, <1>5, <2>1, ChartKeeps
    <2> QED
      BY <1>2, <1>5, <2>2 DEF CandlesInv
  <1> QED
    BY <1>3, <1>4, <1>5 DEF ExampleNext, CandleStep, CopyStep, TradeStep, AccountStep, LimiterStep,
                            PoolStep, exampleVars

\* The inductive invariant of the candles and of the statistics.
THEOREM CandlesInvariance == ExampleSpec => []CandlesInv
  <1>1. ASSUME ExampleInit PROVE CandlesInv
    <2>1. Chart(CandlesCase)!CandlesAssumption /\ Chart(WindowCase)!CandlesAssumption
      BY CandlesAssumption DEF CandlesAssumption
    <2>2. Chart(CandlesCase)!Init
      BY <1>1 DEF ExampleInit
    <2>3. Chart(WindowCase)!Init
      BY <2>2 DEF Chart!Init, Chart!NoStats, Chart!NoMarket
    <2> QED
      BY <2>1, <2>2, <2>3, CandlesBegin DEF CandlesInv
  <1>2. ASSUME CandlesInv, [ExampleNext]_exampleVars PROVE CandlesInv'
    BY <1>2, CandlesStepKeepsInv
  <1> QED
    BY <1>1, <1>2, PTL DEF ExampleSpec

-----------------------------------------------------------------------------
(* What follows from the invariant.                                        *)

LEMMA ChartTypes ==
    ASSUME NEW c, Chart(c)!CandlesAssumption, CandleInv(c)
    PROVE  Chart(c)!TypeOK
  <1>1. CandleTypes(c) /\ PageInOrder /\ StatsOK(c)
    BY DEF CandleInv
  <1>2. /\ now \in Nat /\ property \in Nat /\ checkpoint \in Nat
        /\ property <= now /\ checkpoint <= now
    BY <1>1, TypeFacts
  <1>3. {property, checkpoint} \subseteq 0..c.maxTime
    <2>1. now \in 1..c.maxTime
      BY <1>1 DEF CandleTypes
    <2>2. PICK m \in Nat : m = c.maxTime
      BY CaseFacts
    <2> QED
      BY <1>2, <2>1, <2>2
  <1>4. ASSUME NEW k \in DOMAIN candles
        PROVE  k[1] \in c.granularity /\ k[2] % k[1] = 0 /\ candles[k] \in CandleFields
    <2>1. PICK g \in c.granularity, p \in 0..now : k = <<g, p>> /\ p % g = 0
      BY <1>1 DEF CandleTypes
    <2>2. candles[k] \in CandleFields
      BY <1>1 DEF CandleTypes
    <2> QED
      BY <2>1, <2>2
  <1>5. stats.step \in {"price", "first", "volume"} /\ {market.price, market.first, market.volume} \subseteq Nat
    <2>1. StatsHold(c, trades, DOMAIN candles, stats, market, restarts + lost = 0)
      BY <1>1, StatsMean
    <2> QED
      BY <2>1 DEF StatsHold
  <1>6. Chart(c)!CandleRecord = CandleFields
    BY DEF Chart!CandleRecord, CandleFields
  <1> QED
    BY <1>1, <1>3, <1>4, <1>5, <1>6 DEF Chart!TypeOK, CandleTypes, PageInOrder

LEMMA CandlesMatch ==
    ASSUME NEW c, CandleInv(c)
    PROVE  Chart(c)!CandlesMatchTrades
  <1>1. CandleTypes(c) /\ CandlesOK(c)
    BY DEF CandleInv
  <1>2. handled \subseteq DOMAIN trades /\ \A i \in DOMAIN trades : trades[i].price \in Nat
    BY <1>1, TypeFacts, TradeFacts
  <1>3. ASSUME NEW k \in DOMAIN candles
        PROVE  LET mine == Chart(c)!TradesIn(k)
                   e == candles[k]
               IN  /\ mine # {}
                   /\ e.open \in Chart(c)!Prices(Chart(c)!Earliest(mine))
                   /\ e.high = Chart(c)!Max(Chart(c)!Prices(mine))
                   /\ e.low = Chart(c)!Min(Chart(c)!Prices(mine))
                   /\ e.volume >= Chart(c)!SumOf(mine) /\ e.total >= Chart(c)!WorthOf(mine)
                   /\ restarts + lost = 0 =>
                        e.volume = Chart(c)!SumOf(mine) /\ e.total = Chart(c)!WorthOf(mine)
    <2> DEFINE mine == Chart(c)!TradesIn(k)
               e == candles[k]
               P == Chart(c)!Prices(mine)
    <2>1. CandleOK(c, k)
      BY <1>1 DEF CandlesOK
    <2>2. mine \subseteq DOMAIN trades
      BY <1>2 DEF Chart!TradesIn
    <2>3. P = {trades[i].price : i \in mine}
      BY DEF Chart!Prices
    <2>4. e.high \in P /\ e.low \in P /\ \A i \in mine : e.low <= trades[i].price /\ trades[i].price <= e.high
      BY <2>1 DEF CandleOK
    <2>5. P \subseteq Nat /\ \A x \in P : e.low <= x /\ x <= e.high
      BY <1>2, <2>2, <2>3, <2>4
    <2> HIDE DEF P
    <2>6. e.high = Chart(c)!Max(P)
      <3>1. PICK h \in P : h = e.high /\ \A x \in P : x <= h
        BY <2>4, <2>5
      <3>2. \A m \in P : (\A x \in P : m >= x) => m = h
        BY ONLY <3>1, <2>5
      <3>3. \A x \in P : h >= x
        BY ONLY <3>1, <2>5
      <3>4. Chart(c)!Max(P) = h
        BY ONLY <3>1, <3>2, <3>3 DEF Chart!Max
      <3> QED
        BY <3>1, <3>4
    <2>7. e.low = Chart(c)!Min(P)
      <3>1. PICK h \in P : h = e.low /\ \A x \in P : h <= x
        BY <2>4, <2>5
      <3>2. \A m \in P : (\A x \in P : m <= x) => m = h
        BY ONLY <3>1, <2>5
      <3>3. Chart(c)!Min(P) = h
        BY ONLY <3>1, <3>2 DEF Chart!Min
      <3> QED
        BY <3>1, <3>3
    <2>8. mine # {}
      BY <2>3, <2>4 DEF P
    <2> QED
      BY <2>1, <2>6, <2>7, <2>8 DEF CandleOK, P
  <1>4. \A i \in handled : Chart(c)!KeysOf(trades[i].at) \subseteq DOMAIN candles
    BY <1>1 DEF CandlesOK
  <1> QED
    BY <1>3, <1>4 DEF Chart!CandlesMatchTrades

LEMMA ClosesAreLast ==
    ASSUME NEW c, CandleInv(c)
    PROVE  Chart(c)!CloseIsLast
  <1> SUFFICES ASSUME {i \in DOMAIN trades : trades[i].at >= property} \subseteq cache,
                      NEW k \in DOMAIN candles
               PROVE  candles[k].close \in Chart(c)!Prices(Chart(c)!Latest(Chart(c)!TradesIn(k)))
    BY DEF Chart!CloseIsLast, Chart!Since
  <1>1. CandleTypes(c) /\ CandleOK(c, k)
    BY DEF CandleInv, CandlesOK
  <1>2. handled \subseteq DOMAIN trades
    BY <1>1, TypeFacts
  <1>3. Chart(c)!Latest(Chart(c)!TradesIn(k)) \subseteq handled
    BY DEF Chart!Latest, Chart!TradesIn
  <1>4. ~ \E j \in Chart(c)!Latest(Chart(c)!TradesIn(k)) : j \notin cache /\ trades[j].at >= property
    BY <1>2, <1>3
  <1> QED
    BY <1>1, <1>4 DEF CandleOK

\* There is an answer: the trades since the offset, one by one.
LEMMA SomeAnswer ==
    ASSUME NEW c, Chart(c)!CandlesAssumption, InTime(trades), property \in Nat
    PROVE  Chart(c)!Answers(property) # {}
  <1> DEFINE base == {i \in DOMAIN trades : trades[i].at >= property}
             below(i) == {j \in base : j < i}
             few == {i \in base : Cardinality(below(i)) < c.limit}
             n == Cardinality(few)
  <1>1. /\ \A i \in DOMAIN trades : i \in Nat /\ trades[i].at \in Nat
        /\ \A i, j \in DOMAIN trades : i < j => trades[i].at <= trades[j].at
        /\ Len(trades) \in Nat /\ DOMAIN trades = 1..Len(trades)
        /\ base \subseteq DOMAIN trades /\ few \subseteq base
        /\ IsFiniteSet(base) /\ IsFiniteSet(few)
    BY TradeFacts DEF InTime
  <1>2. Chart(c)!Answers(property) =
          {s \in Chart(c)!Injection(1..n, few) :
             \A x, y \in DOMAIN s : x < y => trades[s[x]].at <= trades[s[y]].at}
    <2> DEFINE also == {i \in base : Chart(c)!Cardinality(below(i)) < c.limit}
    <2>1. Chart(c)!Answers(property) =
            {s \in Chart(c)!Injection(1..Chart(c)!Cardinality(also), also) :
               \A x, y \in DOMAIN s : x < y => trades[s[x]].at <= trades[s[y]].at}
      BY DEF Chart!Answers, Chart!Since
    <2>2. also = few
      <3> HIDE DEF below, base
      <3> QED
        BY ChartLibrary
    <2>3. Chart(c)!Cardinality(also) = n
      <3> HIDE DEF few
      <3> QED
        BY <2>2, ChartLibrary
    <2> HIDE DEF also, few, n, base, below
    <2> QED
      BY <2>1, <2>2, <2>3
  <1>3. n \in Nat
    BY <1>1, FS_CardinalityType
  <1>4. \E s : /\ s \in [1..n -> few]
               /\ \A x, y \in 1..n : x < y => s[x] < s[y]
    <2>1. CASE few = {}
      <3>1. n = 0
        BY <2>1, FS_EmptySet
      <3> HIDE DEF n
      <3>2. 1..n = {}
        BY <3>1
      <3>3. [x \in 1..n |-> 0] \in [1..n -> few]
        BY <3>2
      <3> QED
        BY <3>2, <3>3
    <2>2. CASE few # {}
      <3>1. few \subseteq Nat /\ base \subseteq Nat
        BY <1>1
      <3>2. PICK a \in base : \A y \in base : a <= y
        <4> HIDE DEF base
        <4>1. base # {}
          BY <2>2
        <4> QED
          BY <3>1, <4>1, LeastNatural
      <3>3. base = a..Len(trades)
        <4>1. a \in Nat /\ a \in DOMAIN trades /\ trades[a].at >= property
          BY <1>1, <3>2
        <4>2. ASSUME NEW i \in a..Len(trades) PROVE i \in base
          <5>1. i \in DOMAIN trades /\ (a < i \/ a = i)
            BY <1>1, <4>1
          <5>2. trades[i].at >= trades[a].at
            BY <1>1, <4>1, <5>1
          <5>3. trades[i].at \in Nat /\ trades[a].at \in Nat
            BY <1>1, <4>1, <5>1
          <5> QED
            BY <4>1, <5>1, <5>2, <5>3
        <4>3. ASSUME NEW i \in base PROVE i \in a..Len(trades)
          BY <1>1, <3>2, <4>1
        <4> HIDE DEF base
        <4> QED
          BY <4>2, <4>3
      <3>4. \A i \in base : Cardinality(below(i)) = i - a
        <4> SUFFICES ASSUME NEW i \in base PROVE Cardinality(below(i)) = i - a
          OBVIOUS
        <4>1. i \in Int /\ a \in Int /\ a <= i /\ i <= Len(trades)
          BY <1>1, <3>1, <3>2, <3>3
        <4>2. below(i) = a..(i - 1)
          <5> HIDE DEF base
          <5> QED
            BY <1>1, <3>3, <4>1
        <4>3. Cardinality(a..(i - 1)) = i - a
          <5>1. i - 1 \in Int
            BY <4>1
          <5>2. Cardinality(a..(i - 1)) = IF a > i - 1 THEN 0 ELSE (i - 1) - a + 1
            BY <4>1, <5>1, FS_Interval
          <5> QED
            BY <4>1, <5>2
        <4> QED
          BY <4>2, <4>3
      <3> HIDE DEF below, base
      <3>5. \A i \in base : i \in few <=> i - a < c.limit
        BY <3>4
      <3>6. PICK l \in Nat : l = Len(trades)
        BY <1>1
      <3>7. PICK m \in Nat : m = c.limit
        BY CaseFacts
      <3>8. a \in Nat /\ a <= l /\ few = {i \in a..l : i - a < m}
        <4>1. few = {i \in base : i \in few}
          OBVIOUS
        <4> HIDE DEF few
        <4> QED
          BY <1>1, <3>1, <3>2, <3>3, <3>5, <3>6, <3>7, <4>1
      <3> HIDE DEF few
      <3>9. PICK b \in Int : few = a..b
        <4>1. CASE a + m - 1 <= l
          <5>1. few = a..(a + m - 1)
            BY <3>8, <4>1
          <5> QED
            BY <3>8, <5>1
        <4>2. CASE ~ (a + m - 1 <= l)
          <5>1. few = a..l
            BY <3>8, <4>2
          <5> QED
            BY <5>1
        <4> QED
          BY <4>1, <4>2
      <3>10. n = IF a > b THEN 0 ELSE b - a + 1
        <4>1. a \in Int /\ b \in Int
          BY <3>8, <3>9
        <4>2. Cardinality(a..b) = IF a > b THEN 0 ELSE b - a + 1
          BY <4>1, FS_Interval
        <4> QED
          BY <3>9, <4>2
      <3> HIDE DEF n
      <3>11. \A x \in 1..n : a - 1 + x \in few
        BY <1>3, <3>8, <3>9, <3>10
      <3> DEFINE s == [x \in 1..n |-> a - 1 + x]
      <3>12. s \in [1..n -> few]
        BY <3>11
      <3>13. \A x, y \in 1..n : x < y => s[x] < s[y]
        BY <3>8
      <3> HIDE DEF s
      <3> QED
        BY <3>12, <3>13
    <2> QED
      BY <2>1, <2>2
  <1>5. PICK s : /\ s \in [1..n -> few]
                 /\ \A x, y \in 1..n : x < y => s[x] < s[y]
    BY <1>4
  <1> HIDE DEF n
  <1>6. DOMAIN s = 1..n /\ \A x \in 1..n : s[x] \in few /\ s[x] \in DOMAIN trades /\ s[x] \in Nat
    BY <1>1, <1>5
  <1>7. ASSUME NEW x \in 1..n, NEW y \in 1..n, s[x] = s[y] PROVE x = y
    <2>1. ~ (s[x] < s[y]) /\ ~ (s[y] < s[x])
      <3>1. PICK m \in Nat : m = s[x] /\ m = s[y]
        BY <1>6, <1>7
      <3>2. ~ (m < m)
        OBVIOUS
      <3> QED
        BY ONLY <3>1, <3>2
    <2>2. ~ (x < y) /\ ~ (y < x)
      BY <1>5, <2>1
    <2> QED
      BY <1>3, <2>2
  <1>8. \A x, y \in 1..n : x < y => trades[s[x]].at <= trades[s[y]].at
    BY <1>1, <1>5, <1>6
  <1>9. s \in Chart(c)!Injection(1..n, few)
    BY <1>5, <1>6, <1>7 DEF Chart!Injection, Chart!IsInjective
  <1> HIDE DEF few
  <1> QED
    BY <1>2, <1>6, <1>8, <1>9

LEMMA StallIsFailure ==
    ASSUME NEW c, Chart(c)!CandlesAssumption, CandleInv(c)
    PROVE  Chart(c)!StallNeedsFailedWrite
  <1> SUFFICES ASSUME Chart(c)!Stalled, ~ (failures > 0) PROVE FALSE
    BY DEF Chart!StallNeedsFailedWrite
  <1>1. CandleTypes(c) /\ AddedInOrder
    BY DEF CandleInv
  <1>2. /\ InTime(trades) /\ property \in Nat /\ failures \in Nat
        /\ handled \subseteq DOMAIN trades /\ cache \subseteq handled
    BY <1>1, TypeFacts
  <1>3. failures = 0
    BY <1>2
  <1>4. ~ polling /\ \A s \in Chart(c)!Answers(property) :
                       Len(s) = c.limit /\ {s[x] : x \in DOMAIN s} \subseteq cache
    <2>1. \A s : Chart(c)!Range(s) = {s[x] : x \in DOMAIN s}
      BY DEF Chart!Range
    <2> QED
      BY <2>1 DEF Chart!Stalled
  <1>5. PICK s \in Chart(c)!Answers(property) : TRUE
    BY <1>2, SomeAnswer
  <1>6. Len(s) = c.limit /\ \A x \in DOMAIN s : s[x] \in cache
    BY <1>4, <1>5
  <1>7. /\ s \in Seq(DOMAIN trades)
        /\ \A x \in DOMAIN s : trades[s[x]].at >= property
        /\ \A x, y \in DOMAIN s : s[x] = s[y] => x = y
    BY <1>2, <1>5, AnswerFacts
  <1>8. PICK l \in Nat : l = c.limit
    BY CaseFacts
  <1>9. DOMAIN s = 1..l
    BY <1>6, <1>7, <1>8
  <1> DEFINE T == {i \in DOMAIN trades : trades[i].at = property}
  <1>10. ASSUME NEW x \in 1..l PROVE s[x] \in T
    <2>1. s[x] \in cache /\ s[x] \in DOMAIN trades
      BY <1>2, <1>6, <1>9
    <2>2. trades[s[x]].at <= property
      BY <1>1, <1>3, <1>4, <2>1 DEF AddedInOrder
    <2>3. trades[s[x]].at \in Nat /\ trades[s[x]].at >= property
      BY <1>2, <1>7, <1>9, <2>1, TradeFacts
    <2> QED
      BY <1>2, <2>1, <2>2, <2>3
  <1>11. IsFiniteSet(T) /\ Cardinality(T) <= c.maxTies
    <2>1. T \subseteq DOMAIN trades
      OBVIOUS
    <2>2. IsFiniteSet(T)
      BY <1>2, <2>1, TradeFacts
    <2>3. Cardinality(T) <= c.maxTies
      BY <1>1, <1>2 DEF CandleTypes
    <2> QED
      BY <2>2, <2>3
  <1> HIDE DEF T
  <1>12. s \in Injection(1..l, T)
    <2>1. s \in [1..l -> T]
      BY <1>7, <1>9, <1>10
    <2> QED
      BY <1>7, <1>9, <2>1 DEF Injection, IsInjective
  <1>13. Cardinality(1..l) <= Cardinality(T)
    BY <1>11, <1>12, FS_Injection
  <1>14. Cardinality(1..l) = l
    <2>1. Cardinality(1..l) = IF 1 > l THEN 0 ELSE l - 1 + 1
      BY FS_Interval
    <2> QED
      BY <2>1
  <1>15. Cardinality(T) \in Nat /\ c.maxTies \in Nat /\ c.maxTies < l
    BY <1>8, <1>11, FS_CardinalityType, CaseFacts
  <1> QED
    BY <1>11, <1>13, <1>14, <1>15

-----------------------------------------------------------------------------
(* The window.                                                             *)

LEMMA TimesOrder ==
    ASSUME NEW g \in Nat \ {0}, NEW u \in Int, NEW v \in Int
    PROVE  /\ g * u \in Int /\ g * v \in Int
           /\ u <= v <=> g * u <= g * v
           /\ u < v <=> g * u < g * v
  <1>1. g * u \in Int /\ g * v \in Int
    OBVIOUS
  <1>2. u <= v => g * u <= g * v
    OBVIOUS
  <1>3. u < v => g * u < g * v
    OBVIOUS
  <1>4. v <= u => g * v <= g * u
    OBVIOUS
  <1>5. v < u => g * v < g * u
    OBVIOUS
  <1> QED
    BY <1>1, <1>2, <1>3, <1>4, <1>5

LEMMA TimesDivided ==
    ASSUME NEW g \in Nat \ {0}, NEW d \in Nat
    PROVE  (g * d) \div g = d
  <1> DEFINE t == g * d
  <1>1. t \in Nat
    OBVIOUS
  <1>2. t % g = 0
    BY NoRemainder
  <1>3. t \div g \in Nat /\ t = g * (t \div g) + (t % g)
    BY <1>1, DivisionFacts
  <1>4. g * d = g * (t \div g)
    <2>1. g * (t \div g) \in Nat
      BY <1>3
    <2> QED
      BY <1>2, <1>3, <2>1
  <1>5. ~ (d < t \div g) /\ ~ (t \div g < d)
    <2>1. d \in Int /\ t \div g \in Int
      BY <1>3
    <2>2. ~ (g * d < g * (t \div g)) /\ ~ (g * (t \div g) < g * d)
      BY <1>1, <1>4
    <2> HIDE DEF t
    <2> QED
      BY <2>1, <2>2, TimesOrder
  <1> QED
    BY <1>3, <1>5

LEMMA FewMultiples ==
    ASSUME NEW g \in Nat \ {0}, NEW a \in Int, NEW b \in Int, a <= b,
           NEW Q, \A q \in Q : \E u \in (a + 1)..b : q = g * u
    PROVE  IsFiniteSet(Q) /\ Cardinality(Q) <= b - a /\ Cardinality(Q) \in Nat
  <1> DEFINE R == (a + 1)..b
             f == [u \in R |-> g * u]
             S == {f[u] : u \in R}
  <1>1. IsFiniteSet(R) /\ Cardinality(R) = b - a
    <2>1. a + 1 \in Int
      OBVIOUS
    <2>2. /\ IsFiniteSet((a + 1)..b)
          /\ Cardinality((a + 1)..b) = IF a + 1 > b THEN 0 ELSE b - (a + 1) + 1
      BY <2>1, FS_Interval
    <2> QED
      BY <2>2
  <1>2. Q \subseteq S
    OBVIOUS
  <1>3. f \in Surjection(R, S)
    BY DEF Surjection
  <1> HIDE DEF f, S, R
  <1>4. IsFiniteSet(S) /\ Cardinality(S) <= Cardinality(R)
    BY <1>1, <1>3, FS_Surjection
  <1>5. IsFiniteSet(Q) /\ Cardinality(Q) <= Cardinality(S)
    BY <1>2, <1>4, FS_Subset
  <1>6. Cardinality(Q) \in Nat /\ Cardinality(S) \in Nat
    BY <1>4, <1>5, FS_CardinalityType
  <1> QED
    BY <1>1, <1>4, <1>5, <1>6

LEMMA WindowHolds ==
    ASSUME NEW c, Chart(c)!CandlesAssumption, CandleTypes(c), NEW g \in c.granularity,
           NEW limit \in Nat \ {0}
    PROVE  LET m == Chart(c)!MarketCandles(g, limit)
           IN  /\ Len(m) <= limit
               /\ \A p \in Chart(c)!Points(g) :
                    p > Chart(c)!Max(Chart(c)!Points(g)) - limit * g =>
                      \E x \in DOMAIN m : m[x] = [point |-> p, candle |-> candles[<<g, p>>]]
               /\ m # <<>> /\ (\E p \in Chart(c)!Points(g) : p <= m[Len(m)].point - limit * g)
                    => Len(m) = limit
  <1> DEFINE P == Chart(c)!Points(g)
             above(p) == {q \in P : q > p}
             inputs == {p \in P : Cardinality(above(p)) < limit}
             end == Chart(c)!Max(P)
             first == end - (limit - 1) * g
             start == Chart(c)!WindowStart(g, limit, inputs, end)
             shown(i) == IF i \in inputs THEN candles[<<g, i>>]
                         ELSE Chart(c)!EmptyCandle(candles[<<g, Chart(c)!Max({p \in inputs : p < i})>>])
             m == Chart(c)!MarketCandles(g, limit)
             k == (end - start) \div g + 1
  <1>1. m = IF P = {} THEN <<>>
            ELSE [x \in 1..k |-> [point |-> start + (x - 1) * g, candle |-> shown(start + (x - 1) * g)]]
    <2> DEFINE also == {p \in P : Chart(c)!Cardinality(above(p)) < limit}
               begin == Chart(c)!WindowStart(g, limit, also, end)
               drawn(i) == IF i \in also THEN candles[<<g, i>>]
                           ELSE Chart(c)!EmptyCandle(candles[<<g, Chart(c)!Max({p \in also : p < i})>>])
    <2>1. m = IF P = {} THEN <<>>
              ELSE [x \in 1..((end - begin) \div g + 1) |->
                      [point |-> begin + (x - 1) * g, candle |-> drawn(begin + (x - 1) * g)]]
      BY DEF Chart!MarketCandles
    <2>2. also = inputs
      <3> HIDE DEF above, P
      <3> QED
        BY ChartLibrary
    <2> HIDE DEF m, also, inputs, end, P
    <2> QED
      BY <2>1, <2>2
  <1>2. start = IF \E p \in inputs : p <= first THEN first ELSE Chart(c)!Min(inputs)
    BY DEF Chart!WindowStart
  <1>3. /\ P \subseteq 0..now /\ IsFiniteSet(P) /\ now \in Nat /\ g \in Nat \ {0}
        /\ \A p \in P : p % g = 0
    BY TypeFacts, CaseFacts, PointFacts
  <1>4. inputs \subseteq P
    OBVIOUS
  <1> HIDE DEF m, shown
  <1>5. CASE P = {}
    <2>1. m = <<>> /\ Len(m) = 0
      BY <1>1, <1>5
    <2>2. Len(m) <= limit
      BY <2>1
    <2> QED
      BY <1>5, <2>1, <2>2 DEF m
  <1>6. CASE P # {}
    <2> HIDE DEF P
    <2>1. end \in P /\ \A p \in P : end >= p
      BY <1>3, <1>6, MaxIs
    <2>2. \A p \in P : \E u \in Nat : p = g * u
      <3> SUFFICES ASSUME NEW p \in P PROVE \E u \in Nat : p = g * u
        OBVIOUS
      <3>1. p \in Nat /\ p % g = 0
        BY <1>3
      <3>2. p \div g \in Nat /\ p = g * (p \div g) + (p % g)
        BY <1>3, <3>1, DivisionFacts
      <3>3. p = g * (p \div g)
        <4>1. g * (p \div g) \in Nat
          BY <1>3, <3>2
        <4> QED
          BY <3>1, <3>2, <4>1
      <3> QED
        BY <3>2, <3>3
    <2>3. PICK v \in Nat : end = g * v
      BY <2>1, <2>2
    <2> HIDE DEF end
    <2> DEFINE a == v - (limit - 1)
    <2>4. a \in Int /\ a <= v /\ v - a = limit - 1
      OBVIOUS
    <2>5. first = g * a /\ end - limit * g = g * (v - limit)
      BY <1>3, <2>3
    <2> HIDE DEF first, a
    \* Points above p are few when p is near the end.
    <2>6. ASSUME NEW w \in Int, w <= v, NEW Q \in SUBSET P, \A q \in Q : q > g * w
          PROVE  Cardinality(Q) <= v - w /\ Cardinality(Q) \in Nat
      <3>1. \A q \in Q : \E u \in (w + 1)..v : q = g * u
        <4> SUFFICES ASSUME NEW q \in Q PROVE \E u \in (w + 1)..v : q = g * u
          OBVIOUS
        <4>1. PICK u \in Nat : q = g * u
          BY <2>2
        <4>2. g * u > g * w /\ g * v >= g * u
          BY <2>1, <2>3, <2>6, <4>1
        <4>3. g * u \in Int /\ g * v \in Int /\ g * w \in Int
          BY <1>3
        <4>4. u > w
          BY <1>3, <4>2, <4>3, TimesOrder
        <4>5. u <= v
          BY <1>3, <4>2, <4>3, TimesOrder
        <4> QED
          BY <4>1, <4>4, <4>5
      <3>2. v \in Int /\ g \in Nat \ {0}
        BY <1>3
      <3> HIDE DEF P
      <3> QED
        BY ONLY <2>6, <3>1, <3>2, FewMultiples
    <2>7. ASSUME NEW p \in P, NEW u \in Nat, p = g * u, a <= u PROVE p \in inputs
      <3>1. u <= v
        <4>1. g * u <= g * v /\ v \in Int /\ u \in Int
          BY <1>3, <2>1, <2>3, <2>7
        <4> QED
          BY <1>3, <4>1, TimesOrder
      <3>2. Cardinality(above(p)) <= v - u /\ Cardinality(above(p)) \in Nat
        <4>1. above(p) \in SUBSET P /\ \A q \in above(p) : q > g * u
          BY <2>7
        <4> HIDE DEF above
        <4> QED
          BY <2>6, <3>1, <4>1
      <3>3. Cardinality(above(p)) < limit
        <4> HIDE DEF above
        <4> QED
          BY <2>4, <2>7, <3>1, <3>2
      <3> QED
        BY <3>3
    <2>8. end \in inputs
      BY <2>1, <2>3, <2>4, <2>7
    <2> HIDE DEF start, inputs
    <2>9. PICK b \in Int : /\ start = g * b /\ a <= b /\ b <= v
                           /\ b # a => \A p \in inputs : p > first
                           /\ b # a => start \in inputs /\ \A p \in inputs : start <= p
      <3>1. CASE \E p \in inputs : p <= first
        <4>1. start = g * a
          BY <1>2, <2>5, <3>1
        <4> QED
          BY <2>4, <4>1
      <3>2. CASE ~ \E p \in inputs : p <= first
        <4>1. inputs \subseteq Nat /\ inputs # {}
          <5>1. inputs \subseteq 0..now /\ now \in Nat
            BY ONLY <1>3, <1>4
          <5> QED
            BY ONLY <2>8, <5>1
        <4>2. start \in inputs /\ \A p \in inputs : start <= p
          <5>1. start = Chart(c)!Min(inputs)
            BY <1>2, <3>2
          <5> QED
            BY <4>1, <5>1, MinIs
        <4>3. PICK b \in Nat : start = g * b
          BY <1>4, <2>2, <4>2
        <4>4. g * a \in Int /\ g * b \in Int /\ g * v \in Int
          BY <1>3, <2>4
        <4>5. first \in Int /\ \A p \in inputs : p > first
          <5>1. first \in Int
            BY <2>5, <4>4
          <5>2. \A p \in inputs : ~ (p <= first)
            BY ONLY <3>2
          <5>3. \A p \in inputs : p \in Int
            BY ONLY <4>1
          <5> QED
            BY ONLY <5>1, <5>2, <5>3
        <4>6. g * b > g * a /\ g * b <= g * v
          BY <2>3, <2>5, <2>8, <4>2, <4>3, <4>5
        <4>7. a < b /\ b <= v
          BY <1>3, <2>4, <4>4, <4>6, TimesOrder
        <4> QED
          BY <2>4, <4>2, <4>3, <4>5, <4>7
      <3> QED
        BY <3>1, <3>2
    <2>10. k = v - b + 1
      <3>1. v - b \in Nat
        BY <2>9
      <3>2. end - start = g * (v - b)
        BY <1>3, <2>3, <2>9
      <3>3. (g * (v - b)) \div g = v - b
        BY <1>3, <3>1, TimesDivided
      <3> QED
        BY <3>2, <3>3
    <2>11. v - b \in Nat /\ v - b <= limit - 1
      BY <2>4, <2>9
    <2> HIDE DEF k
    <2>12. m = [x \in 1..k |-> [point |-> start + (x - 1) * g, candle |-> shown(start + (x - 1) * g)]]
      BY <1>1, <1>6
    <2>13. k \in Nat \ {0} /\ DOMAIN m = 1..k /\ Len(m) = k
      <3>1. k \in Nat \ {0}
        BY <2>10, <2>11
      <3> QED
        BY <2>12, <3>1
    <2>14. Len(m) <= limit
      BY <2>10, <2>11, <2>13
    <2>15. ASSUME NEW p \in P, p > end - limit * g
           PROVE  \E x \in DOMAIN m : m[x] = [point |-> p, candle |-> candles[<<g, p>>]]
      <3>1. PICK u \in Nat : p = g * u
        BY <2>2
      <3>2. a <= u
        <4>1. g * (v - limit) < g * u /\ v - limit \in Int
          BY <2>5, <2>15, <3>1
        <4>2. v - limit < u
          BY <1>3, <4>1, TimesOrder
        <4> QED
          BY <4>2 DEF a
      <3>3. p \in inputs
        BY <2>7, <3>1, <3>2
      <3>4. b <= u /\ u <= v
        <4>1. u <= v
          <5>1. g * u <= g * v
            BY <1>3, <2>1, <2>3, <3>1
          <5> QED
            BY <1>3, <5>1, TimesOrder
        <4>2. CASE b = a
          BY <3>2, <4>1, <4>2
        <4>3. CASE b # a
          <5>1. g * b <= g * u
            BY <2>9, <3>1, <3>3, <4>3
          <5> QED
            BY <1>3, <4>1, <5>1, TimesOrder
        <4> QED
          BY <4>2, <4>3
      <3> DEFINE x == u - b + 1
      <3>5. x \in 1..k
        BY <2>10, <2>11, <3>4
      <3>6. start + (x - 1) * g = p
        BY <1>3, <2>9, <3>1
      <3> HIDE DEF x
      <3>7. m[x] = [point |-> p, candle |-> shown(p)]
        BY <2>12, <3>5, <3>6
      <3>8. shown(p) = candles[<<g, p>>]
        BY <3>3 DEF shown
      <3> QED
        BY <2>13, <3>5, <3>7, <3>8
    <2>16. m # <<>> /\ (\E p \in P : p <= m[Len(m)].point - limit * g) => Len(m) = limit
      <3> SUFFICES ASSUME NEW p \in P, p <= m[Len(m)].point - limit * g, Len(m) # limit
                   PROVE  FALSE
        OBVIOUS
      <3>1. m[k].point = end
        <4>1. m[k].point = start + (k - 1) * g
          BY <2>12, <2>13
        <4>2. start + (k - 1) * g = g * v
          BY <1>3, <2>9, <2>10
        <4> QED
          BY <2>3, <4>1, <4>2
      <3>2. p <= g * (v - limit)
        BY <2>5, <2>13, <3>1
      <3>3. b # a
        BY <2>4, <2>10, <2>13
      <3>4. \A q \in inputs : q > g * a
        BY <2>5, <2>9, <3>3
      <3>5. p \notin inputs
        <4>1. PICK u \in Nat : p = g * u
          BY <2>2
        <4>2. g * u <= g * (v - limit)
          BY <3>2, <4>1
        <4>3. u <= v - limit /\ v - limit < a
          BY <1>3, <4>2, TimesOrder DEF a
        <4>4. g * u < g * a
          BY <1>3, <2>4, <4>3, TimesOrder
        <4>5. g * u \in Int /\ g * a \in Int
          BY <1>3, <2>4
        <4>6. ~ (g * u > g * a)
          BY <4>4, <4>5
        <4> QED
          BY <3>4, <4>1, <4>6
      <3> DEFINE Out == P \ inputs
                 top == Chart(c)!Max(Out)
      <3>6. Out \subseteq 0..now /\ Out # {}
        BY <1>3, <3>5
      <3>7. top \in Out /\ \A q \in Out : top >= q
        <4> HIDE DEF Out
        <4> QED
          BY <1>3, <3>6, MaxIs
      <3> HIDE DEF top
      <3>8. above(top) \subseteq inputs /\ above(top) \in SUBSET P
        <4>1. ASSUME NEW q \in P, q > top, q \notin inputs PROVE FALSE
          <5>1. top >= q /\ top \in Nat /\ q \in Nat
            BY <1>3, <3>7, <4>1
          <5> QED
            BY <4>1, <5>1
        <4> QED
          BY <4>1
      <3>9. ~ (Cardinality(above(top)) < limit)
        BY <3>7 DEF inputs
      <3> HIDE DEF above
      <3>10. Cardinality(above(top)) <= v - a /\ Cardinality(above(top)) \in Nat
        <4>1. \A q \in above(top) : q > g * a
          BY <3>4, <3>8
        <4> QED
          BY <2>4, <2>6, <3>8, <4>1
      <3> QED
        BY <2>4, <3>9, <3>10
    <2> QED
      BY <2>14, <2>15, <2>16 DEF m, end, P
  <1> QED
    BY <1>5, <1>6

LEMMA CandlesFollow == ASSUME CandlesInv PROVE CandlesAreRight
  <1>1. Chart(CandlesCase)!CandlesAssumption /\ Chart(WindowCase)!CandlesAssumption
    BY CandlesAssumption DEF CandlesAssumption
  <1>2. CASE part = "candles"
    <2>1. CandleInv(CandlesCase)
      BY <1>2 DEF CandlesInv
    <2> QED
      BY <1>1, <1>2, <2>1, ChartTypes, CandlesMatch, ClosesAreLast, StallIsFailure DEF CandlesAreRight
  <1>3. CASE part = "window"
    <2>1. CandleInv(WindowCase)
      BY <1>3 DEF CandlesInv
    <2>2. CandleTypes(WindowCase) /\ Chart(WindowCase)!StatsWithinDay
      BY <2>1 DEF CandleInv, StatsOK
    <2>3. Chart(WindowCase)!WindowIsComplete
      <3>1. 1..3 \subseteq Nat \ {0}
        OBVIOUS
      <3> QED
        BY <1>1, <2>2, <3>1, WindowHolds DEF Chart!WindowIsComplete
    <2> QED
      BY <1>1, <1>3, <2>1, <2>2, <2>3, ChartTypes DEF CandlesAreRight
  <1>4. CASE part \notin {"candles", "window"}
    BY <1>4 DEF CandlesAreRight
  <1> QED
    BY <1>2, <1>3, <1>4

\* For any lengths of candles and of an answer, fewer trades of one time than an answer lists,
\* restarts, failed writes of the checkpoint and lost replies at any time: candles match their
\* trades and close with the last one once it is added, the poller stalls only after a failed
\* write, MarketCandles leaves no hole in its window, and the statistics count no trade of more
\* than a day ago (services/candle.go, models/candle.go and models/market.go of the example).
THEOREM CandlesAreKept == ExampleSpec => []CandlesAreRight
  <1>1. CandlesInv => CandlesAreRight
    BY CandlesFollow
  <1> QED
    BY <1>1, CandlesInvariance, PTL
=============================================================================
