------------------------------ MODULE RateLimit ------------------------------
(***************************************************************************)
(* The rate limiter of the example: durable/limiter.go and                 *)
(* middlewares/rate.go.                                                    *)
(*                                                                         *)
(* Every request of an address is checked against a sequence of limits,    *)
(* each a sorted set in Redis with one member per request and the time it  *)
(* was asked as score.  The commands of one check are pipelined, so those  *)
(* of requests in flight interleave.  A check that fails lets the request  *)
(* pass.  The expiry of a set outlives its members and is left out, and so *)
(* is the route that is not limited, /_hc.                                 *)
(***************************************************************************)
EXTENDS Integers, Sequences, SequencesExt

CONSTANTS
    General,         \* limits of every request, [window |-> , max |-> ]
    Rare,            \* limits of a request with a rare route, asked after them
    MaxRequests, MaxInFlight, MaxTime,    \* bounds on requests and the clock
    MaxFailures      \* bound on failures of Redis

RateLimitAssumption ==
    /\ {General, Rare} \subseteq Seq([window : Nat \ {0}, max : Nat \ {0}])
    /\ General # <<>>
    /\ {MaxRequests, MaxInFlight, MaxFailures} \subseteq Nat /\ MaxTime \in Nat \ {0}

VARIABLES
    now,             \* the clock of the servers
    requests,        \* requests in order of arrival
    zset,            \* sorted set of each limit: score of each member
    failures

vars == <<now, requests, zset, failures>>

Limits == General \o Rare
Route == {"other", "rare"}

\* How many limits a request is checked against: getRareRoutePattern.
Checks(route) == IF route = "rare" THEN Len(Limits) ELSE Len(General)

\* asked, decided: for each limit that was asked, the time read at first, and the time
\* of its answer and whether it was one.
Request(route) ==
    [route |-> route, step |-> "clock", verdict |-> "checking", asked |-> <<>>, decided |-> <<>>]

Init ==
    /\ now = 1
    /\ requests = <<>>
    /\ zset = [l \in DOMAIN Limits |-> <<>>]
    /\ failures = 0

InFlight == {r \in DOMAIN requests : requests[r].verdict = "checking"}

\* The limit request r is checked against now.
Current(r) == Len(requests[r].decided) + 1

Arrive(route) ==
    /\ Len(requests) < MaxRequests /\ Cardinality(InFlight) < MaxInFlight
    /\ requests' = Append(requests, Request(route))
    /\ UNCHANGED <<now, zset, failures>>

Tick ==
    /\ now < MaxTime
    /\ now' = now + 1
    /\ UNCHANGED <<requests, zset, failures>>

-----------------------------------------------------------------------------
(* Available, one command at a time.                                       *)

\* Members that ZREMRANGEBYSCORE leaves.  Mutant: none is removed.
KeptAll(l, at) == DOMAIN zset[l]
Kept(l, at) == {m \in DOMAIN zset[l] : zset[l][m] > at - Limits[l].window}

\* The score of a request.
Score(r) == requests[r].asked[Current(r)]

\* A request passes while max - count is at least 1; one whose limit is the last goes
\* on to the handler.  Mutant: it passes while max - count is not negative.
PassesAtZero(l) == Limits[l].max - Cardinality(DOMAIN zset[l]) >= 0
Passes(l) == Limits[l].max - Cardinality(DOMAIN zset[l]) >= 1

Verdict(r) == IF Current(r) = Checks(requests[r].route) THEN "served" ELSE "checking"

ReadClock(r) ==
    /\ requests[r].step = "clock"
    /\ requests' = [requests EXCEPT ![r].step = "zrem", ![r].asked = Append(@, now)]
    /\ UNCHANGED <<now, zset, failures>>

ZRemRangeByScore(r) ==
    /\ requests[r].step = "zrem"
    /\ requests' = [requests EXCEPT ![r].step = "zadd"]
    /\ LET l == Current(r) IN
       zset' = [zset EXCEPT ![l] = [m \in Kept(l, requests[r].asked[l]) |-> @[m]]]
    /\ UNCHANGED <<now, failures>>

ZAdd(r) ==
    /\ requests[r].step = "zadd"
    /\ requests' = [requests EXCEPT ![r].step = "zcount"]
    /\ LET l == Current(r) IN
       zset' = [zset EXCEPT ![l] = [m \in DOMAIN @ \cup {r} |->
                                      IF m = r THEN Score(r) ELSE @[m]]]
    /\ UNCHANGED <<now, failures>>

ZCount(r) ==
    /\ requests[r].step = "zcount"
    /\ requests' =
         [requests EXCEPT ![r].step = "clock", ![r].decided = Append(@, [at |-> now, ok |-> TRUE]),
                          ![r].verdict = IF Passes(Current(r)) THEN Verdict(r) ELSE "refused"]
    /\ UNCHANGED <<now, zset, failures>>

\* The error is only reported.
Fail(r) ==
    /\ failures < MaxFailures
    /\ failures' = failures + 1
    /\ requests[r].step # "clock"
    /\ requests' = [requests EXCEPT ![r].step = "clock", ![r].decided = Append(@, [at |-> now, ok |-> FALSE]),
                                    ![r].verdict = Verdict(r)]
    /\ UNCHANGED <<now, zset>>

Available(r) == ReadClock(r) \/ ZRemRangeByScore(r) \/ ZAdd(r) \/ ZCount(r) \/ Fail(r)

Next ==
    \/ \E route \in Route : Arrive(route)
    \/ Tick
    \/ \E r \in InFlight : Available(r)

Spec == Init /\ [][Next]_vars

-----------------------------------------------------------------------------
TypeOK ==
    /\ now \in 1..MaxTime
    /\ Cardinality(InFlight) <= MaxInFlight
    /\ \A r \in DOMAIN requests :
         /\ requests[r].verdict \in {"checking", "served", "refused"}
         /\ Len(requests[r].decided) <= Checks(requests[r].route)
         /\ Len(requests[r].asked) = IF requests[r].step = "clock" THEN Len(requests[r].decided)
                                     ELSE Len(requests[r].decided) + 1
    /\ \A l \in DOMAIN Limits : \A m \in DOMAIN zset[l] :
         zset[l][m] = requests[m].asked[l]

\* Requests that limit l let pass.
Passed(l) ==
    {r \in DOMAIN requests :
       /\ l \in DOMAIN requests[r].decided /\ requests[r].decided[l].ok
       /\ Len(requests[r].decided) > l \/ requests[r].verdict # "refused"}

\* However the pipelines interleave, a limit lets fewer than max requests pass that
\* asked and were answered within one window (Available in durable/limiter.go).
NeverOverLimit ==
    \A l \in DOMAIN Limits :
        Cardinality({r \in Passed(l) : requests[r].asked[l] > now - Limits[l].window})
            < Limits[l].max

\* The limit that refused request r.
Refuser(r) == Len(requests[r].decided)

\* Other requests that limit l may have counted for request r: asked less than a
\* window before it, or still in flight when it asked.
Others(l, r) ==
    {q \in DOMAIN requests \ {r} :
       /\ l \in DOMAIN requests[q].asked
       /\ \/ requests[q].asked[l] > requests[r].asked[l] - Limits[l].window
          \/ l \notin DOMAIN requests[q].decided
          \/ requests[q].decided[l].at >= requests[r].asked[l]}

\* A request is refused only for max - 1 others within its window: who waits for a
\* window is served again, whatever was refused before (ZRemRangeByScore).
RefusalIsEarned ==
    \A r \in DOMAIN requests : requests[r].verdict = "refused" =>
        Cardinality(Others(Refuser(r), r)) >= Limits[Refuser(r)].max - 1
=============================================================================
