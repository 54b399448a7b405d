-------------------------- MODULE ExampleInvariant --------------------------
(***************************************************************************)
(* The inductive invariants of the parts of Example, in named parts;       *)
(* ExampleProofs and AccountsProofs prove them for every value of the      *)
(* constants.                                                              *)
(***************************************************************************)
EXTENDS Example, Sequences, FiniteSets

-----------------------------------------------------------------------------
(* Candles.                                                                *)

TradeAt == [price : Nat \ {0}, amount : Nat \ {0}, at : Nat]
CandleFields == [open : Nat, close : Nat, high : Nat, low : Nat, volume : Nat, total : Nat]

CandleTypes(c) ==
    /\ trades \in Seq(TradeAt) /\ Len(trades) <= c.maxTrades /\ now \in 1..c.maxTime
    /\ \A i \in DOMAIN trades : trades[i].at <= now
    /\ \A i, j \in DOMAIN trades : i < j => trades[i].at <= trades[j].at
    /\ property \in 0..now /\ checkpoint \in 0..now
    /\ polling \in BOOLEAN /\ page \in Seq(DOMAIN trades)
    /\ cache \subseteq handled /\ handled \subseteq DOMAIN trades
    /\ \A k \in DOMAIN candles :
         /\ \E g \in c.granularity, p \in 0..now : k = <<g, p>> /\ p % g = 0
         /\ candles[k] \in CandleFields
    /\ {restarts, failures, lost} \subseteq Nat
    /\ \A t \in Nat : Cardinality({i \in DOMAIN trades : trades[i].at = t}) <= c.maxTies

\* What is fetched and not yet added is in order, and so is what is older.
PageInOrder ==
    /\ page # <<>> => polling
    /\ polling => property <= checkpoint
    /\ \A x \in DOMAIN page : trades[page[x]].at >= property
    /\ \A x, y \in DOMAIN page : x < y => trades[page[x]].at <= trades[page[y]].at
    /\ \A x \in DOMAIN page : \A j \in DOMAIN trades :
         property <= trades[j].at /\ trades[j].at < trades[page[x]].at =>
           j \in cache \/ \E y \in DOMAIN page : page[y] = j
    /\ polling => \A j \in DOMAIN trades :
         property <= trades[j].at /\ trades[j].at < checkpoint => j \in cache

\* A process adds the trades since the checkpoint in order, and so did the ones before.
AddedInOrder ==
    /\ \A i \in cache : \A j \in DOMAIN trades :
         property <= trades[j].at /\ trades[j].at < trades[i].at => j \in cache
    /\ \A i \in handled : \A j \in DOMAIN trades : trades[j].at < trades[i].at => j \in handled
    /\ \A j \in DOMAIN trades : trades[j].at < property => j \in handled
    /\ failures = 0 =>
         \A i \in cache : trades[i].at <= IF polling THEN checkpoint ELSE property
    /\ restarts + lost = 0 => cache = handled

\* A candle that does not close with its last trade will, since that is added again.
CandleOK(c, k) ==
    LET mine == Chart(c)!TradesIn(k)
        e == candles[k]
    IN  /\ e.open \in Chart(c)!Prices(Chart(c)!Earliest(mine))
        /\ \/ e.close \in Chart(c)!Prices(Chart(c)!Latest(mine))
           \/ /\ e.close \in Chart(c)!Prices(mine)
              /\ \E j \in Chart(c)!Latest(mine) : j \notin cache /\ trades[j].at >= property
        /\ {e.high, e.low} \subseteq Chart(c)!Prices(mine)
        /\ \A i \in mine : e.low <= trades[i].price /\ trades[i].price <= e.high
        /\ e.volume >= Chart(c)!SumOf(mine) /\ e.total >= Chart(c)!WorthOf(mine)
        /\ restarts + lost = 0 =>
             e.volume = Chart(c)!SumOf(mine) /\ e.total = Chart(c)!WorthOf(mine)

CandlesOK(c) ==
    /\ \A i \in handled : Chart(c)!KeysOf(trades[i].at) \subseteq DOMAIN candles
    /\ \A k \in DOMAIN candles : CandleOK(c, k)

\* The statistics read candles that are there and closes of trades of one day.
StatsOK(c) ==
    /\ stats \in [step : {"price", "first", "volume"}, price : Nat, at : Nat, first : Nat]
    /\ market \in [price : Nat, first : Nat, volume : Nat, at : Nat]
    /\ stats.step # "price" => Chart(c)!PointsSince(Chart(c)!Start(stats.at)) # {}
    /\ stats.step = "volume" =>
         \E i \in DOMAIN trades : trades[i].at >= stats.at - c.day /\ trades[i].price = stats.first
    /\ Chart(c)!StatsWithinDay

CandleInv(c) ==
    CandleTypes(c) /\ PageInOrder /\ AddedInOrder /\ CandlesOK(c) /\ StatsOK(c)

CandlesInv == IF part = "window" THEN CandleInv(WindowCase) ELSE CandleInv(CandlesCase)

-----------------------------------------------------------------------------
(* RateLimit.                                                              *)

Answer == [at : Nat, ok : BOOLEAN]
RequestRecord ==
    [route : {"other", "rare"}, step : {"clock", "zrem", "zadd", "zcount"},
     verdict : {"checking", "served", "refused"}, asked : Seq(Nat), decided : Seq(Answer)]

RequestsOK ==
    /\ arrivals \in Seq(RequestRecord)
    /\ \A r \in DOMAIN arrivals :
         LET q == arrivals[r]
         IN  /\ q.verdict = "checking" => Len(q.decided) < Limiter!Checks(q.route)
             /\ q.verdict # "checking" => q.step = "clock" /\ q.decided # <<>>
             /\ Len(q.decided) <= Limiter!Checks(q.route)
             /\ Len(q.asked) = IF q.step = "clock" THEN Len(q.decided) ELSE Len(q.decided) + 1
             /\ \A l \in DOMAIN q.asked : q.asked[l] <= serverTime

SetsOK ==
    /\ zset = [l \in DOMAIN Limiter!Limits |-> zset[l]]
    /\ \A l \in DOMAIN Limiter!Limits : \A m \in DOMAIN zset[l] :
         /\ m \in DOMAIN arrivals /\ l \in DOMAIN arrivals[m].asked
         /\ zset[l][m] = arrivals[m].asked[l]

\* Requests whose ZADD to the set of limit l was executed.
AddedTo(l) ==
    {r \in DOMAIN arrivals :
       /\ l \in DOMAIN arrivals[r].asked
       /\ IF l \in DOMAIN arrivals[r].decided THEN arrivals[r].decided[l].ok
          ELSE arrivals[r].step = "zcount"}

\* They stay in it for a window.
AddedStay ==
    \A l \in DOMAIN Limiter!Limits : \A r \in AddedTo(l) :
        arrivals[r].asked[l] > serverTime - Limiter!Limits[l].window => r \in DOMAIN zset[l]

\* From its ZREM to its ZCOUNT the set holds no other members for a request than those
\* it may count.
CountedAreOthers ==
    \A r \in DOMAIN arrivals : arrivals[r].step \in {"zadd", "zcount"} =>
        DOMAIN zset[Limiter!Current(r)] \ {r} \subseteq Limiter!Others(Limiter!Current(r), r)

LimiterInv ==
    /\ serverTime \in 1..MaxServerTime
    /\ Limiter!Cardinality(Limiter!InFlight) <= MaxInFlight
    /\ RequestsOK /\ SetsOK /\ AddedStay /\ CountedAreOthers
    /\ Limiter!NeverOverLimit /\ Limiter!RefusalIsEarned

-----------------------------------------------------------------------------
(* PoolKeys.                                                               *)

JobRecord ==
    [step : {"idle", "pin", "ocean", "persist"}, user : Nat, tries : Nat \ {0},
     pin : Nat, ocean : Nat]

PoolTypes ==
    /\ created \in 0..MaxUsers
    /\ netPin \in [1..MaxUsers -> Nat] /\ registered \in [1..MaxUsers -> Nat]
    /\ \A u \in 1..MaxUsers : u > created => netPin[u] = 0 /\ registered[u] = 0
    /\ job \in [{"pool", "broker"} -> JobRecord]

\* Rows are of created users, and a broker is no user of the pool.
PoolRows ==
    /\ owners \cup DOMAIN pooled \cup DOMAIN brokers \subseteq 1..created
    /\ DOMAIN brokers \cap (owners \cup DOMAIN pooled) = {}

\* The user a job works on is in no table before its last step, but for a row that was
\* inserted by a call whose answer was lost.
PoolJobs ==
    /\ \A k \in {"pool", "broker"} :
         LET j == job[k]
         IN  /\ j.step = "idle" => j = Pool(TRUE)!Idle
             /\ j.step # "idle" => j.user \in 1..created
             /\ j.step # "idle" => j.user \notin DOMAIN brokers
    /\ job["broker"].step # "ocean"
    /\ job["broker"].step # "idle" =>
         /\ job["broker"].user \notin owners \cup DOMAIN pooled
         /\ job["broker"].user # job["pool"].user
    /\ job["pool"].step \in {"pin", "ocean"} =>
         job["pool"].user \notin owners \cup DOMAIN pooled
    /\ job["pool"].step = "persist" /\ job["pool"].user \in owners \cup DOMAIN pooled =>
         <<job["pool"].user, "persist">> \in lostAnswers

\* What a job holds is what the network has, and what it is about to set is not set,
\* unless an answer was lost.
JobsMatchNetwork ==
    /\ \A k \in {"pool", "broker"} :
         job[k].step \in {"ocean", "persist"} => job[k].pin = netPin[job[k].user]
    /\ LET j == job["pool"]
       IN  /\ j.step = "pin" =>
                /\ registered[j.user] = 0
                /\ netPin[j.user] # 0 => <<j.user, "pin">> \in lostAnswers
           /\ j.step = "ocean" /\ registered[j.user] # 0 => <<j.user, "ocean">> \in lostAnswers
           /\ j.step = "persist" =>
                j.ocean = registered[j.user] \/ <<j.user, "ocean">> \in lostAnswers

PoolInv ==
    /\ PoolTypes /\ PoolRows /\ PoolJobs /\ JobsMatchNetwork
    /\ Pool(TRUE)!StoredPinOpens /\ Pool(TRUE)!OceanKeyNeedsReply /\ Pool(TRUE)!PoolIsUnused

-----------------------------------------------------------------------------
(* Accounts, for a record c of its constants.                              *)

IdleRequest == [step |-> "idle"]
VerificationRow(c) ==
    [receiver : c.receiver, code : c.code, created : 1..c.maxTime, verified : BOOLEAN]

\* What a request may hold when n ids are given out.
Inserting(c, n) == [step : {"insert"}, id : 1..n, row : VerificationRow(c)]
Verifying(c, n) ==
    [step : {"check", "match"}, id : 1..n, row : VerificationRow(c), code : c.code]
Updating(n) == [step : {"update"}, id : 1..n]
Held(c, n) == {IdleRequest} \cup Inserting(c, n) \cup Verifying(c, n) \cup Updating(n)

AccountTypes(c) ==
    /\ clock \in 1..c.maxTime
    /\ issued \in Nat /\ aborts \in Nat
    /\ requests \in [c.request -> Held(c, issued)]
    /\ DOMAIN verifications \subseteq 1..issued
    /\ \A i \in DOMAIN verifications : verifications[i] \in VerificationRow(c)
    /\ consumed \subseteq 1..issued

\* What never changes of a verification: what was sent to whom and when.
Sent(c) == [receiver : c.receiver, code : c.code, created : 1..clock]
RowOf(s) == [receiver : {s.receiver}, code : {s.code}, created : {s.created}, verified : BOOLEAN]
Proved(s) == <<s.receiver, s.code>> \in entered

\* Rows are as they were sent, in the table and in the variables of requests, and
\* verified only if the code was entered.
RowsAreAsSent(sent) ==
    \A i \in DOMAIN verifications :
        verifications[i] \in RowOf(sent[i]) /\ (verifications[i].verified => Proved(sent[i]))

RequestAsSent(q, sent) ==
    /\ q.step \in {"insert", "check", "match"} => q.row \in RowOf(sent[q.id])
    /\ q.step = "insert" /\ q.row.verified => Proved(sent[q.id])
    /\ q.step \in {"check", "match"} => <<sent[q.id].receiver, q.code>> \in entered
    /\ q.step = "update" => Proved(sent[q.id])

\* What was inserted is in the table or was used.
InsertsAreKept(c, sent) ==
    /\ inserted \in Seq([id : 1..issued, receiver : c.receiver, created : Nat, at : Nat])
    /\ \A k \in DOMAIN inserted :
         /\ inserted[k].id \in consumed \cup DOMAIN verifications
         /\ inserted[k].receiver = sent[inserted[k].id].receiver
         /\ inserted[k].created = sent[inserted[k].id].created

AsSent(c) ==
    \E sent \in [1..issued -> Sent(c)] :
        /\ RowsAreAsSent(sent)
        /\ \A p \in c.request : RequestAsSent(requests[p], sent)
        /\ InsertsAreKept(c, sent)

\* Until a transaction was aborted an id is in one place.
IdsAreFresh(c) ==
    aborts = 0 =>
        /\ reused = {} /\ consumed \cap DOMAIN verifications = {}
        /\ \A p \in c.request : requests[p].step = "insert" =>
             /\ requests[p].id \notin consumed \cup DOMAIN verifications
             /\ \A q \in c.request : requests[q].step = "insert" /\ q # p =>
                  requests[q].id # requests[p].id

\* Requests that have passed the check and may add a try.
Matching(c, r) == {p \in c.request : requests[p].step = "match" /\ requests[p].row.receiver = r}

TriesAreBounded(c) ==
    /\ tries = [r \in c.receiver |-> tries[r]]
    /\ \A r \in c.receiver :
         /\ IsFiniteSet(DOMAIN tries[r]) /\ \A m \in DOMAIN tries[r] : tries[r][m] \in Nat
         /\ Cardinality(Account(c)!Live(r)) + Cardinality(Matching(c, r))
              <= c.validateLimit - 1 + Cardinality(c.request)

OwnersAreOne(c) ==
    /\ opened \in Nat /\ queryFailures \in Nat
    /\ DOMAIN users = keys /\ keys \cup poolKeys \subseteq c.userId
    /\ unanswered \subseteq lostInserts
    /\ \A u \in DOMAIN users : users[u] \in [receiver : c.receiver, password : c.password]
    /\ IsFiniteSet(sessions)
    /\ \A s \in sessions : s.user \in keys /\ s.id \in 1..opened
    /\ Account(c)!OneOwner /\ Account(c)!ResetEndsSessions

AccountInv(c) ==
    /\ AccountTypes(c) /\ AsSent(c) /\ IdsAreFresh(c) /\ TriesAreBounded(c) /\ OwnersAreOne(c)
    /\ Account(c)!CodesArePaced

AccountsInv ==
    IF part = "users" THEN AccountInv(UsersCase) ELSE AccountInv(CodesCase)
-----------------------------------------------------------------------------
(* TradeHistory.                                                           *)

HistoryTypes ==
    /\ made \in 0..MaxTrades /\ listed \in 1..made + 1
    /\ from \in 0..listed /\ stream \in from..made + 1 /\ (from = 0 => stream = 0)
    /\ fetch \in {"WAIT", "ASKED", "ANSWERED", "DONE"} /\ offset \in Int

\* An item has the time of the row of its trade or of the event.
ItemsOK ==
    /\ history \in Seq([id : Nat, time : Nat]) /\ Len(history) <= MaxShown
    /\ \A i \in DOMAIN history :
         history[i].id \in 1..made /\ history[i].time \in {2 * history[i].id, 2 * history[i].id + 1}
    /\ Trades!NewestOnTop

\* An answer is a whole page, or goes back to the first trade.
AnswerOK ==
    \E n \in 0..made, k \in 0..PageSize :
        /\ k = n \/ (k = PageSize /\ k <= n)
        /\ answer = [i \in 1..k |-> Trades!Row(n + 1 - i)]

\* From the first event of this connection on, or of the next one, the items have no hole.
ItemsAreDense ==
    /\ history = <<>> => stream = from
    /\ history # <<>> =>
         /\ stream <= from \/ stream <= history[1].id + 1
         /\ \A n \in (IF from = 0 THEN listed ELSE from)..history[1].id :
              n \in Trades!Ids(history) \/ n < history[Len(history)].id

AnswerStays ==
    quiet =>
        /\ fetch = "DONE"
        /\ \A n \in Trades!Ids(answer) :
             n \in Trades!Ids(history) \/ (Len(history) = MaxShown /\ n < history[MaxShown].id)

HistoryInv == HistoryTypes /\ ItemsOK /\ AnswerOK /\ ItemsAreDense /\ AnswerStays

=============================================================================
