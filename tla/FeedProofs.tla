----------------------------- MODULE FeedProofs -----------------------------
(***************************************************************************)
(* Proofs about Feed for every value of its constants: what a loss of an   *)
(* event looks like, what the list in Redis holds, and that a client which *)
(* is not cut off misses nothing.                                          *)
(***************************************************************************)
EXTENDS FeedInvariant, TLAPS

-----------------------------------------------------------------------------
(* Sequences.                                                              *)

LEMMA AppendFacts ==
    ASSUME NEW X, NEW s \in Seq(X), NEW x \in X, NEW r, r = Append(s, x)
    PROVE  /\ r \in Seq(X) /\ Len(r) = Len(s) + 1 /\ r # <<>>
           /\ \A i \in 1..Len(s) : r[i] = s[i]
           /\ r[Len(r)] = x
  OBVIOUS

LEMMA AppendRange ==
    ASSUME NEW X, NEW s \in Seq(X), NEW x \in X, NEW r, r = Append(s, x)
    PROVE  \A y : y \in Range(r) <=> y \in Range(s) \/ y = x
  <1>1. /\ r \in Seq(X) /\ Len(r) = Len(s) + 1 /\ Len(s) \in Nat
        /\ \A i \in 1..Len(s) : r[i] = s[i]
        /\ r[Len(s) + 1] = x
    OBVIOUS
  <1>2. DOMAIN r = 1..(Len(s) + 1) /\ DOMAIN s = 1..Len(s)
    BY <1>1
  <1>3. \A i \in DOMAIN r : i \in DOMAIN s \/ i = Len(s) + 1
    BY <1>1, <1>2
  <1>4. \A i \in DOMAIN s : i \in DOMAIN r
    BY <1>1, <1>2
  <1>5. Len(s) + 1 \in DOMAIN r
    BY <1>1, <1>2
  <1>6. Range(r) = Range(s) \cup {x}
    BY <1>1, <1>2, <1>3, <1>4, <1>5 DEF Range
  <1> QED
    BY <1>6

LEMMA TailFacts ==
    ASSUME NEW X, NEW s \in Seq(X), s # <<>>, NEW r, r = Tail(s)
    PROVE  /\ r \in Seq(X) /\ Len(r) = Len(s) - 1 /\ Len(s) \in Nat \ {0}
           /\ \A i \in 1..Len(r) : r[i] = s[i + 1] /\ i + 1 \in 1..Len(s)
           /\ Head(s) = s[1] /\ s[1] \in X
  OBVIOUS

LEMMA TailRange ==
    ASSUME NEW X, NEW s \in Seq(X), s # <<>>, NEW r, r = Tail(s)
    PROVE  \A y : y \in Range(s) <=> y \in Range(r) \/ y = s[1]
  <1>1. /\ r \in Seq(X) /\ Len(r) = Len(s) - 1 /\ Len(s) \in Nat \ {0}
        /\ \A i \in 1..Len(r) : r[i] = s[i + 1] /\ i + 1 \in 1..Len(s)
        /\ Head(s) = s[1] /\ s[1] \in X
    OBVIOUS
  <1>2. DOMAIN r = 1..(Len(s) - 1) /\ DOMAIN s = 1..Len(s)
    BY <1>1
  <1>3. ASSUME NEW y \in Range(s) PROVE y \in Range(r) \cup {s[1]}
    <2>1. PICK i \in 1..Len(s) : y = s[i]
      BY <1>2 DEF Range
    <2>2. CASE i # 1
      <3>1. i - 1 \in 1..Len(r) /\ (i - 1) + 1 = i
        BY <1>1, <2>2
      <3>2. r[i - 1] = s[i]
        BY <1>1, <3>1
      <3> QED
        BY <1>1, <1>2, <2>1, <3>1, <3>2 DEF Range
    <2> QED
      BY <2>1, <2>2
  <1>4. ASSUME NEW y \in Range(r) PROVE y \in Range(s)
    <2>1. PICK i \in 1..Len(r) : y = r[i]
      BY <1>1, <1>2 DEF Range
    <2> QED
      BY <1>1, <1>2, <2>1 DEF Range
  <1>5. s[1] \in Range(s)
    BY <1>1, <1>2 DEF Range
  <1>6. Range(s) = Range(r) \cup {s[1]}
    BY <1>3, <1>4, <1>5
  <1> QED
    BY <1>6

LEMMA RangeFacts ==
    ASSUME NEW X, NEW s \in Seq(X)
    PROVE  /\ Range(s) \subseteq X /\ \A i \in 1..Len(s) : s[i] \in Range(s)
           /\ \A y \in Range(s) : \E i \in 1..Len(s) : y = s[i]
           /\ s = <<>> <=> Len(s) = 0
           /\ Len(s) \in Nat /\ DOMAIN s = 1..Len(s)
  BY DEF Range

LEMMA MessageFacts ==
    ASSUME NEW m \in Message
    PROVE  m # ListPending => m.event \in Event /\ m = Emit(m.event)
  BY DEF Message, Emit, ListPending

LEMMA EmitFacts ==
    ASSUME NEW e \in Event
    PROVE  Emit(e) \in Message /\ Emit(e) # ListPending /\ Emit(e).event = e
  BY DEF Message, Emit, ListPending

-----------------------------------------------------------------------------
(* What the steps have in common.                                          *)

LEMMA Numbers ==
    ASSUME FeedIInv
    PROVE  /\ ToPublish \in Nat /\ Upcoming \in Nat /\ sequence \in Nat /\ skipped \subseteq Nat
           /\ \A c \in Client : /\ hubChannel[c] \in Seq(Message) /\ got[c] \subseteq Event
                                /\ Sequences(c) \subseteq Nat
           /\ \A x \in 1..Len(published) : published[x] \in Event /\ published[x].sequence \in Nat
           /\ handling # <<>> => /\ handling[1] \in Event /\ handling = <<handling[1]>>
                                 /\ handling[1].sequence \in Nat
           /\ Len(published) \in Nat /\ (published = <<>> <=> Len(published) = 0)
  <1>1. /\ sequence \in Nat /\ skipped \subseteq Nat /\ handling \in Seq(Event) /\ Len(handling) <= 1
        /\ published \in Seq(Event) /\ got \in [Client -> SUBSET Event]
    BY DEF FeedIInv, TypeOK
  <1>0. \A e \in Event : e.sequence \in Nat
    BY DEF Event
  <1>2. \A x \in 1..Len(published) : published[x] \in Event /\ published[x].sequence \in Nat
    BY <1>0, <1>1
  <1>3. handling # <<>> => /\ handling[1] \in Event /\ handling = <<handling[1]>>
                           /\ handling[1].sequence \in Nat
    <2> SUFFICES ASSUME handling # <<>>
                 PROVE  /\ handling[1] \in Event /\ handling = <<handling[1]>>
                        /\ handling[1].sequence \in Nat
      OBVIOUS
    <2>0. handling \in Seq(Event) /\ Len(handling) <= 1 /\ Len(handling) \in Nat
      BY <1>1
    <2>3. Len(handling) # 0
      BY <2>0, RangeFacts
    <2>4. Len(handling) = 1
      <3>1. PICK n \in Nat : n = Len(handling)
        BY <2>0
      <3>2. n <= 1 /\ n # 0
        BY <2>0, <2>3, <3>1
      <3>3. n = 1
        BY <3>2
      <3> QED
        BY <3>1, <3>3
    <2>5. handling[1] \in Event
      BY <2>0, <2>4
    <2>1. Len(handling) = 1 /\ handling[1] \in Event
      BY <2>4, <2>5
    <2>2. handling = <<handling[1]>>
      BY <1>1, <2>1
    <2> QED
      BY <1>0, <2>1, <2>2
  <1>4. Len(published) \in Nat /\ (published = <<>> <=> Len(published) = 0)
    BY <1>1
  <1>5. ToPublish \in Nat
    BY <1>1, <1>3 DEF ToPublish
  <1>6. Upcoming \in Nat
    BY <1>2, <1>4, <1>5 DEF Upcoming
  <1>7. \A c \in Client : got[c] \subseteq Event /\ Sequences(c) \subseteq Nat
    BY <1>1 DEF Sequences, Event
  <1>8. \A c \in Client : hubChannel[c] \in Seq(Message)
    BY DEF FeedIInv, ChannelsOK
  <1> QED
    BY <1>1, <1>2, <1>3, <1>4, <1>5, <1>6, <1>7, <1>8

LEMMA SeenKept ==
    ASSUME FeedIInv, Seen' \subseteq Seen, UNCHANGED <<version, sequence, events>>
    PROVE  SeenOK'
  BY DEF FeedIInv, SeenOK, Step

LEMMA QueueKept ==
    ASSUME FeedIInv, UNCHANGED <<started, skipped, version, events, sequence, handling>>
    PROVE  QueueOK' /\ Fresh' = Fresh /\ BookInRedis' = BookInRedis /\ ToPublish' = ToPublish
  BY DEF FeedIInv, QueueOK, Fresh, Step, BookInRedis, ToPublish

LEMMA ListKeptOK ==
    ASSUME ListOK, UNCHANGED <<list, skipped, sequence, Fresh, BookInRedis>>
    PROVE  ListOK'
  BY DEF ListOK

\* The numbers from n to m are skipped.
Passed(n, m) == n <= m /\ \A k \in n..(m - 1) : k \in skipped

LEMMA AdjacentFurther ==
    ASSUME NEW n \in Nat, NEW m \in Nat, NEW l \in Nat, Adjacent(n, m), Passed(m, l)'
    PROVE  skipped \subseteq skipped' => Adjacent(n, l)'
  BY DEF Adjacent, Passed

LEMMA AdjacentKept ==
    ASSUME NEW n, NEW m, Adjacent(n, m), skipped \subseteq skipped'
    PROVE  Adjacent(n, m)'
  BY DEF Adjacent

LEMMA CoversFurther ==
    ASSUME FeedIInv, NEW c \in Client, NEW m \in Nat, NEW l \in Nat, Covers(c, m), Passed(m, l)',
           skipped \subseteq skipped', UNCHANGED got[c]
    PROVE  Covers(c, l)'
  <1>1. Sequences(c)' = Sequences(c) /\ Sequences(c) \subseteq Nat
    BY Numbers DEF Sequences
  <1>2. \A i : Outdated(c, i)' <=> Outdated(c, i)
    BY DEF Outdated
  <1>3. ASSUME NEW i \in Sequences(c), ~ Outdated(c, i), NEW k \in i..(l - 1)
        PROVE  k \in skipped' \cup Sequences(c)
    <2>1. i \in Nat /\ k \in Nat
      BY <1>1, <1>3
    <2>2. CASE k < m
      BY <1>3, <2>1, <2>2 DEF Covers
    <2>3. CASE m <= k
      BY <1>3, <2>1, <2>3 DEF Passed
    <2> QED
      BY <2>1, <2>2, <2>3
  <1>4. \A i \in Sequences(c) : i < l \/ \E e \in got[c] : e.type = "BOOK-T0"
    BY <1>1 DEF Covers, Passed
  <1> QED
    BY <1>1, <1>2, <1>3, <1>4 DEF Covers

\* A client to whom nothing happens, while what comes next moves on over skipped numbers.
LEMMA ClientKept ==
    ASSUME FeedIInv, NEW c \in Client, UNCHANGED <<hubChannel[c], got[c]>>,
           c \in channel' => c \in channel, skipped \subseteq skipped',
           NEW u, u = Upcoming, NEW w \in Nat, w = Upcoming', Passed(u, w)',
           ChannelOK(c), GapFree(c), OneBook(c)
    PROVE  ChannelOK(c)' /\ GapFree(c)' /\ OneBook(c)'
  <1> DEFINE h == hubChannel[c]
  <1>3. /\ u \in Nat /\ w \in Nat /\ Passed(u, w)' /\ h \in Seq(Message)
        /\ Sequences(c)' = Sequences(c)
    BY Numbers DEF Sequences
  <1>4. Len(h) \in Nat /\ (h = <<>> <=> Len(h) = 0) /\ \A x \in 1..Len(h) : h[x] \in Message
    BY <1>3
  <1>5. \A x \in 1..Len(h) : h[x] # ListPending => h[x].event.sequence \in Nat
    BY <1>4, MessageFacts DEF Event
  <1>6. \A x \in 2..Len(h) : h[x - 1] # ListPending /\ h[x] # ListPending =>
             Adjacent(h[x - 1].event.sequence, h[x].event.sequence)'
    <2>1. \A x \in 2..Len(h) : h[x - 1] # ListPending /\ h[x] # ListPending =>
             Adjacent(h[x - 1].event.sequence, h[x].event.sequence)
      BY DEF ChannelOK
    <2> QED
      BY <2>1, AdjacentKept
  <1>7. h # <<>> /\ h[1] # ListPending => Covers(c, h[1].event.sequence)'
    <2> SUFFICES ASSUME h # <<>>, h[1] # ListPending PROVE Covers(c, h[1].event.sequence)'
      OBVIOUS
    <2>1. PICK n : n = h[1].event.sequence
      OBVIOUS
    <2>2. n \in Nat
      BY <1>4, <1>5, <2>1
    <2>3. Covers(c, n) /\ Passed(n, n)'
      BY <2>1, <2>2 DEF ChannelOK, Passed
    <2> QED
      BY <2>1, <2>2, <2>3, CoversFurther
  <1>8. c \in channel' /\ h # <<>> /\ h[Len(h)] # ListPending => Adjacent(h[Len(h)].event.sequence, w)'
    BY <1>3, <1>4, <1>5, AdjacentFurther DEF ChannelOK
  <1>9. c \in channel' /\ h = <<>> => Covers(c, w)'
    BY <1>3, CoversFurther DEF ChannelOK
  <1>10. GapFree(c)' /\ OneBook(c)'
    BY <1>3 DEF GapFree, OneBook, Outdated
  <1> QED
    BY <1>6, <1>7, <1>8, <1>9, <1>10 DEF ChannelOK

\* What a step of the queue or of the book leaves alone.
LEMMA SeenIsLocal ==
    ASSUME UNCHANGED <<hubChannel, got>>
    PROVE  /\ \A c \in Client : Emitted(c)' = Emitted(c)
           /\ UNION {Emitted(c) \cup got[c] : c \in Client}'
                = UNION {Emitted(c) \cup got[c] : c \in Client}
  BY DEF Emitted

LEMMA ClientsKept ==
    ASSUME FeedIInv, UNCHANGED <<hubVars, clientVars>>
    PROVE  /\ ChannelsOK' /\ AbsentOK'
           /\ UNCHANGED <<members, channel, following, hubChannel, connection, got, opening>>
           /\ (\A x \in DOMAIN published' : published'[x].type # "BOOK-T0") => NoBookSent'
  <1>1. UNCHANGED <<members, channel, following, hubChannel, connection, got, opening>>
    BY DEF hubVars, clientVars
  <1>2. ChannelsOK' /\ AbsentOK'
    BY <1>1 DEF FeedIInv, ChannelsOK, AbsentOK
  <1>3. \A c \in Client : Emitted(c)' = Emitted(c)
    BY <1>1 DEF Emitted
  <1> QED
    BY <1>1, <1>2, <1>3 DEF FeedIInv, NoBookSent

\* Neither what is sent nor what a client has changes.
LEMMA AllClientsKept ==
    ASSUME FeedIInv, UNCHANGED <<hubVars, clientVars>>, skipped \subseteq skipped',
           NEW u, u = Upcoming, NEW w \in Nat, w = Upcoming', Passed(u, w)', NothingLost
    PROVE  \A c \in Client : connection'[c] = "OPEN" => ChannelOK(c)' /\ GapFree(c)' /\ OneBook(c)'
  <1> SUFFICES ASSUME NEW c \in Client, connection'[c] = "OPEN"
               PROVE  ChannelOK(c)' /\ GapFree(c)' /\ OneBook(c)'
    OBVIOUS
  <1>1. /\ UNCHANGED <<hubChannel[c], got[c]>> /\ connection[c] = "OPEN"
        /\ c \in channel' => c \in channel
    BY DEF hubVars, clientVars
  <1>2. ChannelOK(c) /\ GapFree(c) /\ OneBook(c)
    BY <1>1 DEF NothingLost
  <1> QED
    BY <1>1, <1>2, ClientKept

LEMMA AttachStep ==
    ASSUME FeedIInv, NEW type \in {"BOOK-T0", "BOOK-T1", "ORDER"}, type = "BOOK-T0" \/ started,
           AttachEvent(type, version + Step(type)), started' = TRUE,
           version' = version + Step(type)
    PROVE  FeedIInv'
  <1>1. PICK v : v = version + Step(type)
    OBVIOUS
  <1>2. PICK y : y = [type |-> type, upto |-> v]
    OBVIOUS
  <1>3. /\ version \in Nat /\ v \in Nat /\ version' = v /\ started' = TRUE
        /\ attached < MaxEvents /\ attached' = attached + 1 /\ Len(events) < QueueSize
        /\ events' = Append(events, y)
        /\ UNCHANGED <<sequence, handling, list, cached, redisErrors, restarts, skipped,
                       published, hubVars, requestVars, clientVars, subscribe, unsubscribe, asked>>
    BY <1>1, <1>2 DEF AttachEvent, FeedIInv, TypeOK, Step, requestVars
  <1>4. y \in [type : EventType, upto : Nat] /\ y.type = type /\ y.upto = v
    BY <1>2, <1>3 DEF EventType
  <1>5. /\ events \in Seq([type : EventType, upto : Nat]) /\ Len(events) \in Nat
        /\ events' \in Seq([type : EventType, upto : Nat]) /\ Len(events') = Len(events) + 1
        /\ events' # <<>> /\ \A i \in 1..Len(events) : events'[i] = events[i]
        /\ events'[Len(events')] = y
        /\ (events = <<>> <=> Len(events) = 0)
    <2>1. PICK Y : Y = [type : EventType, upto : Nat]
      OBVIOUS
    <2>2. events \in Seq(Y) /\ y \in Y
      BY <1>4, <2>1 DEF FeedIInv, TypeOK
    <2>3. /\ events' \in Seq(Y) /\ Len(events') = Len(events) + 1 /\ events' # <<>>
          /\ \A i \in 1..Len(events) : events'[i] = events[i]
          /\ events'[Len(events')] = y
      BY <1>3, <2>2, AppendFacts
    <2>4. Len(events) \in Nat /\ (events = <<>> <=> Len(events) = 0)
      BY <2>2, RangeFacts
    <2> QED
      BY <2>1, <2>2, <2>3, <2>4
  <1>6. /\ ChannelsOK' /\ AbsentOK' /\ NoBookSent'
        /\ UNCHANGED <<members, channel, following, hubChannel, connection, got, opening>>
    BY <1>3, ClientsKept DEF FeedIInv, NoBookSent
  <1>7. TypeOK'
    BY <1>3, <1>5, <1>6, FeedAssumption, SMTT(30) DEF FeedIInv, TypeOK
  <1>8. UNCHANGED <<Fresh, BookInRedis, ToPublish, Upcoming>>
    BY <1>3 DEF Fresh, BookInRedis, ToPublish, Upcoming
  <1>9. events # <<>> => events'[1] = events[1]
    BY <1>5
  <1>10. events = <<>> => events'[1] = y
    BY <1>5
  <1>11. QueueOK'
    <2>1. Fresh => events'[1].type = "BOOK-T0"
      BY <1>4, <1>9, <1>10 DEF FeedIInv, QueueOK
    <2>2. \A x \in 2..Len(events') : events'[x].upto = events'[x - 1].upto + Step(events'[x].type)
      <3> SUFFICES ASSUME NEW x \in 2..Len(events')
                   PROVE  events'[x].upto = events'[x - 1].upto + Step(events'[x].type)
        OBVIOUS
      <3>1. CASE x \in 2..Len(events)
        <4>2. x \in 1..Len(events) /\ x - 1 \in 1..Len(events)
          BY <1>5, <3>1
        <4>1. events'[x] = events[x] /\ events'[x - 1] = events[x - 1]
          BY <1>5, <4>2
        <4> QED
          BY <3>1, <4>1 DEF FeedIInv, QueueOK
      <3>2. CASE x = Len(events) + 1
        <4>1. events'[x] = y /\ events'[x - 1] = events[Len(events)] /\ events # <<>>
          BY <1>5, <3>2, SMTT(30)
        <4>2. events[Len(events)].upto = version
          BY <4>1 DEF FeedIInv, QueueOK
        <4> QED
          BY <1>1, <1>4, <4>1, <4>2
      <3> QED
        BY <1>5, <3>1, <3>2
    <2>3. \A x \in 1..Len(events') : events'[x].type # "HEARTBEAT"
      <3> SUFFICES ASSUME NEW x \in 1..Len(events') PROVE events'[x].type # "HEARTBEAT"
        OBVIOUS
      <3>1. x \in 1..Len(events) \/ events'[x] = y
        BY <1>5
      <3> QED
        BY <1>4, <1>5, <3>1 DEF FeedIInv, QueueOK
    <2>4. events'[Len(events')].upto = version'
      BY <1>3, <1>4, <1>5
    <2>5. started' <=> ~ Fresh' \/ events' # <<>>
      BY <1>3, <1>5
    <2> QED
      BY <1>3, <1>5, <1>8, <2>1, <2>2, <2>3, <2>4, <2>5 DEF FeedIInv, QueueOK, Step
  <1>12. SeenOK'
    <2>1. Seen' = Seen
      BY <1>3, <1>6, SeenIsLocal DEF Seen
    <2>2. \A e \in Seen : e.sequence = sequence - 1 => events'[1].upto = e.upto + Step(events'[1].type)
      BY <1>1, <1>4, <1>9, <1>10 DEF FeedIInv, SeenOK
    <2> QED
      BY <1>3, <1>5, <2>1, <2>2 DEF FeedIInv, SeenOK, Step
  <1>13. ASSUME redisErrors' = 0 PROVE NothingLost'
    <2>1. NothingLost
      BY <1>3, <1>13 DEF FeedIInv
    <2>2. ListOK' /\ StreamOK'
      BY <1>3, <1>8, <2>1 DEF NothingLost, ListOK, StreamOK, Adjacent
    <2>3. Passed(Upcoming, Upcoming)' /\ Upcoming \in Nat /\ skipped \subseteq skipped'
      BY <1>3, <1>8, Numbers DEF Passed
    <2>4. PICK u : u = Upcoming
      OBVIOUS
    <2>5. u \in Nat /\ u = Upcoming' /\ Passed(u, u)'
      BY <1>8, <2>3, <2>4 DEF Passed
    <2> QED
      BY <1>3, <2>1, <2>2, <2>3, <2>4, <2>5, AllClientsKept DEF NothingLost
  <1> QED
    BY <1>6, <1>7, <1>11, <1>12, <1>13 DEF FeedIInv

-----------------------------------------------------------------------------
(* Queue.Loop.                                                             *)

QueueEvent == [type : EventType, upto : Nat]

LEMMA QueueTypes ==
    ASSUME FeedIInv, UNCHANGED <<engineVars, hubVars, requestVars, clientVars>>,
           NEW ok \in BOOLEAN, CountErrors(ok),
           events' \in Seq(QueueEvent), Len(events') <= Len(events),
           sequence' \in {sequence, sequence + 1},
           handling' \in Seq(Event), Len(handling') <= 1,
           list' \in Seq(Event), published' \in Seq(Event),
           cached' \in [{"BOOK-T0", "BOOK-T1"} -> Nat \cup {-1}]
    PROVE  /\ TypeOK' /\ (redisErrors' = 0 => ok /\ redisErrors = 0)
           /\ UNCHANGED <<version, started, attached, restarts, skipped, members, channel,
                          following, hubChannel, connection, got>>
  <1>1. /\ UNCHANGED <<version, started, attached, restarts, skipped, members, channel, following,
                       hubChannel, connection, got, opening, subscribe, unsubscribe, asked>>
    BY DEF engineVars, hubVars, requestVars, clientVars
  <1>2. redisErrors' \in 0..MaxRedisErrors /\ (redisErrors' = 0 => ok /\ redisErrors = 0)
    BY FeedAssumption DEF CountErrors, FeedIInv, TypeOK
  <1>3. Len(events') \in Nat /\ Len(events) \in Nat /\ Len(events) <= QueueSize
    BY RangeFacts DEF FeedIInv, TypeOK
  <1>4. Len(events') <= QueueSize
    BY <1>3, FeedAssumption
  <1> QED
    BY <1>1, <1>2, <1>4, SMTT(30) DEF FeedIInv, TypeOK, QueueEvent

LEMMA EventsFacts ==
    ASSUME FeedIInv, events # <<>>, NEW s, s = Tail(events)
    PROVE  /\ Len(events) \in Nat \ {0} /\ s \in Seq(QueueEvent) /\ Len(s) = Len(events) - 1
           /\ Head(events) = events[1] /\ events[1] \in QueueEvent
           /\ (s = <<>> <=> Len(events) = 1)
           /\ (s = <<>> => events[1].upto = version)
           /\ (s # <<>> => /\ s[1] = events[2] /\ s[Len(s)].upto = version
                           /\ s[1].upto = events[1].upto + Step(s[1].type))
           /\ \A x \in 2..Len(s) : s[x].upto = s[x - 1].upto + Step(s[x].type)
           /\ \A x \in 1..Len(s) : s[x].type # "HEARTBEAT"
  <1>1. events \in Seq(QueueEvent)
    BY DEF FeedIInv, TypeOK, QueueEvent
  <1>2. /\ Len(events) \in Nat \ {0} /\ s \in Seq(QueueEvent) /\ Len(s) = Len(events) - 1
        /\ Head(events) = events[1] /\ events[1] \in QueueEvent
        /\ \A i \in 1..Len(s) : s[i] = events[i + 1] /\ i + 1 \in 1..Len(events)
    BY <1>1, TailFacts
  <1>3. s = <<>> <=> Len(s) = 0
    BY <1>2, RangeFacts
  <1>4. /\ events[Len(events)].upto = version
        /\ \A x \in 2..Len(events) : events[x].upto = events[x - 1].upto + Step(events[x].type)
        /\ \A x \in 1..Len(events) : events[x].type # "HEARTBEAT"
    BY DEF FeedIInv, QueueOK
  <1>5. s # <<>> => s[1] = events[2] /\ s[Len(s)] = events[Len(events)] /\ 2 \in 2..Len(events)
    <2> SUFFICES ASSUME s # <<>>
                 PROVE  s[1] = events[2] /\ s[Len(s)] = events[Len(events)] /\ 2 \in 2..Len(events)
      OBVIOUS
    <2>1. 1 \in 1..Len(s) /\ Len(s) \in 1..Len(s) /\ Len(s) + 1 = Len(events)
      BY <1>2, <1>3
    <2> QED
      BY <1>2, <2>1
  <1>6. \A x \in 2..Len(s) : s[x].upto = s[x - 1].upto + Step(s[x].type)
    <2> SUFFICES ASSUME NEW x \in 2..Len(s)
                 PROVE  s[x].upto = s[x - 1].upto + Step(s[x].type)
      OBVIOUS
    <2>1. x \in 1..Len(s) /\ x - 1 \in 1..Len(s) /\ (x - 1) + 1 = x /\ (x + 1) - 1 = x
      BY <1>2
    <2>2. s[x] = events[x + 1] /\ s[x - 1] = events[x] /\ x + 1 \in 2..Len(events)
      BY <1>2, <2>1
    <2> QED
      BY <1>4, <2>1, <2>2
  <1>7. \A x \in 1..Len(s) : s[x].type # "HEARTBEAT"
    BY <1>2, <1>4
  <1>8. s # <<>> => s[1].upto = events[1].upto + Step(s[1].type)
    <2>1. 2 - 1 = 1
      OBVIOUS
    <2> QED
      BY <1>4, <1>5, <2>1
  <1> QED
    BY <1>2, <1>3, <1>4, <1>5, <1>6, <1>7, <1>8

\* A copy of an event tells nothing new.
LEMMA SeenCopied ==
    ASSUME FeedIInv, NEW e \in Seen, NEW g, Seen' \subseteq Seen \cup {g},
           g.sequence = e.sequence, g.upto = e.upto, Step(g.type) = Step(e.type),
           UNCHANGED <<version, sequence, events>>
    PROVE  SeenOK'
  <1>1. \A f \in Seen' : \E h \in Seen : /\ f.sequence = h.sequence /\ f.upto = h.upto
                                         /\ Step(f.type) = Step(h.type)
    OBVIOUS
  <1>2. \A f \in Seen' :
          /\ f.sequence \in 1..(sequence - 1)
          /\ f.sequence = sequence - 1 =>
               IF events = <<>> THEN version = f.upto
               ELSE events[1].upto = f.upto + Step(events[1].type)
    BY <1>1 DEF FeedIInv, SeenOK
  <1>3. ASSUME NEW f \in Seen', NEW h \in Seen'
        PROVE  /\ h.sequence = f.sequence => h.upto = f.upto /\ Step(h.type) = Step(f.type)
               /\ h.sequence = f.sequence + 1 => h.upto = f.upto + Step(h.type)
    <2>1. PICK a \in Seen : f.sequence = a.sequence /\ f.upto = a.upto /\ Step(f.type) = Step(a.type)
      BY <1>1
    <2>2. PICK b \in Seen : h.sequence = b.sequence /\ h.upto = b.upto /\ Step(h.type) = Step(b.type)
      BY <1>1
    <2> QED
      BY <2>1, <2>2 DEF FeedIInv, SeenOK
  <1> QED
    BY <1>2, <1>3 DEF SeenOK, Step

\* The head of the queue gets the next number.
LEMMA NumberedStep ==
    ASSUME FeedIInv, handling = <<>>, events # <<>>, Head(events).type \in {"ORDER", "BOOK-T0"},
           NEW e, e = Numbered, events' = Tail(events), sequence' = sequence + 1,
           handling' \in {<<e>>, <<>>}, UNCHANGED engineVars, Seen' \subseteq Seen \cup {e}
    PROVE  /\ e \in Event /\ e.type = Head(events).type /\ e.sequence = sequence
           /\ QueueOK' /\ SeenOK' /\ ~ Fresh'
  <1>1. PICK s : s = Tail(events)
    OBVIOUS
  <1>2. /\ Len(events) \in Nat \ {0} /\ s \in Seq(QueueEvent) /\ Len(s) = Len(events) - 1
        /\ Head(events) = events[1] /\ events[1] \in QueueEvent
        /\ (s = <<>> => events[1].upto = version)
        /\ (s # <<>> => /\ s[1] = events[2] /\ s[Len(s)].upto = version
                        /\ s[1].upto = events[1].upto + Step(s[1].type))
        /\ \A x \in 2..Len(s) : s[x].upto = s[x - 1].upto + Step(s[x].type)
        /\ \A x \in 1..Len(s) : s[x].type # "HEARTBEAT"
    BY <1>1, EventsFacts
  <1>3. /\ sequence \in Nat /\ sequence > 0 /\ skipped \subseteq 1..(sequence - 1)
        /\ UNCHANGED <<version, started, skipped>> /\ started
    BY DEF FeedIInv, TypeOK, QueueOK, engineVars
  <1>4. e \in Event /\ e.type = events[1].type /\ e.upto = events[1].upto /\ e.sequence = sequence
    BY <1>2, <1>3 DEF Numbered, Event, QueueEvent
  <1>5. ~ Fresh'
    BY <1>3 DEF Fresh
  <1>6. QueueOK'
    <2>1. handling' # <<>> => handling'[1] = e
      OBVIOUS
    <2>2. handling' # <<>> => handling'[1].sequence = sequence' - 1 /\ handling'[1].type # "BOOK-T1"
      BY <1>2, <1>3, <1>4, <2>1
    <2>3. sequence' > 0 /\ skipped' \subseteq 1..(sequence' - 1)
      BY <1>3
    <2> QED
      BY <1>1, <1>2, <1>3, <1>5, <2>2, <2>3 DEF QueueOK, Step
  <1>7. SeenOK'
    <2>1. \A f \in Seen : f.sequence \in 1..(sequence - 1)
      BY DEF FeedIInv, SeenOK
    <2>2. \A f \in Seen : f.sequence = sequence - 1 => e.upto = f.upto + Step(e.type)
      BY <1>4 DEF FeedIInv, SeenOK
    <2>3. \A f \in Seen' :
            /\ f.sequence \in 1..(sequence' - 1)
            /\ f.sequence = sequence' - 1 =>
                 IF events' = <<>> THEN version' = f.upto
                 ELSE events'[1].upto = f.upto + Step(events'[1].type)
      <3> SUFFICES ASSUME NEW f \in Seen'
                   PROVE  /\ f.sequence \in 1..(sequence' - 1)
                          /\ f.sequence = sequence' - 1 =>
                               IF events' = <<>> THEN version' = f.upto
                               ELSE events'[1].upto = f.upto + Step(events'[1].type)
        OBVIOUS
      <3>1. CASE f \in Seen
        BY <1>3, <2>1, <3>1
      <3>2. CASE f = e
        BY <1>1, <1>2, <1>3, <1>4, <3>2
      <3> QED
        BY <3>1, <3>2
    <2>4. ASSUME NEW f \in Seen', NEW h \in Seen'
          PROVE  /\ h.sequence = f.sequence => h.upto = f.upto /\ Step(h.type) = Step(f.type)
                 /\ h.sequence = f.sequence + 1 => h.upto = f.upto + Step(h.type)
      <3>1. CASE f \in Seen /\ h \in Seen
        BY <3>1 DEF FeedIInv, SeenOK
      <3>2. CASE f \in Seen /\ h = e
        <4>1. f.sequence \in 1..(sequence - 1) /\ h.sequence = sequence /\ sequence \in Nat
          BY <1>3, <1>4, <2>1, <3>2
        <4>2. h.sequence # f.sequence
          BY <4>1
        <4>3. h.sequence = f.sequence + 1 => f.sequence = sequence - 1
          BY <4>1
        <4> QED
          BY <2>2, <3>2, <4>2, <4>3
      <3>3. CASE f = e /\ h \in Seen
        BY <1>3, <1>4, <2>1, <3>3
      <3>4. CASE f = e /\ h = e
        BY <1>3, <1>4, <3>4
      <3> QED
        BY <3>1, <3>2, <3>3, <3>4
    <2> QED
      BY <2>3, <2>4 DEF SeenOK, Step
  <1> QED
    BY <1>2, <1>4, <1>5, <1>6, <1>7

\* The parts of a step of the queue.
LEMMA QueueStep ==
    ASSUME FeedIInv, UNCHANGED <<engineVars, hubVars, requestVars, clientVars>>,
           TypeOK', QueueOK', SeenOK',
           \A x \in DOMAIN published' : published'[x].type # "BOOK-T0",
           redisErrors' = 0 =>
             redisErrors = 0 /\ (NothingLost => ListOK' /\ StreamOK' /\ UNCHANGED Upcoming)
    PROVE  FeedIInv'
  <1>1. ChannelsOK' /\ AbsentOK' /\ NoBookSent'
    BY ClientsKept
  <1>2. ASSUME redisErrors' = 0 PROVE NothingLost'
    <2>1. NothingLost /\ ListOK' /\ StreamOK' /\ UNCHANGED Upcoming
      BY <1>2 DEF FeedIInv
    <2>2. PICK u : u = Upcoming
      OBVIOUS
    <2>3. u \in Nat /\ u = Upcoming' /\ Passed(u, u)' /\ skipped \subseteq skipped'
      BY <2>1, <2>2, Numbers DEF Passed, engineVars
    <2> QED
      BY <2>1, <2>2, <2>3, AllClientsKept DEF NothingLost
  <1> QED
    BY <1>1, <1>2 DEF FeedIInv

LEMMA StreamKept ==
    ASSUME StreamOK, UNCHANGED <<skipped, published, ToPublish>>
    PROVE  StreamOK' /\ UNCHANGED Upcoming
  BY DEF StreamOK, Adjacent, Upcoming

LEMMA UpcomingKept ==
    ASSUME UNCHANGED <<published, ToPublish>>
    PROVE  UNCHANGED Upcoming
  BY DEF Upcoming

LEMMA QueueSeen ==
    ASSUME FeedIInv, UNCHANGED <<engineVars, hubVars, requestVars, clientVars>>,
           NEW S, Range(handling') \cup Range(list') \cup Range(published') \subseteq
                    Range(handling) \cup Range(list) \cup Range(published) \cup S
    PROVE  Seen' \subseteq Seen \cup S
  <1>1. UNCHANGED <<hubChannel, got>>
    BY DEF clientVars
  <1> QED
    BY <1>1, SeenIsLocal DEF Seen

LEMMA RPushStep ==
    ASSUME FeedIInv, UNCHANGED <<engineVars, hubVars, requestVars, clientVars>>,
           NEW ok \in BOOLEAN, CountErrors(ok), RPush(ok)
    PROVE  FeedIInv'
  <1>1. PICK e : e = Numbered
    OBVIOUS
  <1>2. /\ handling = <<>> /\ events # <<>> /\ Head(events).type = "ORDER"
        /\ events' = Tail(events) /\ sequence' = sequence + 1
        /\ (list' = Append(list, e) \/ (~ ok /\ list' = list))
        /\ handling' = IF ok THEN <<e>> ELSE <<>>
        /\ UNCHANGED <<cached, published>>
    BY <1>1 DEF RPush, NextEvent, Taken
  <1>3. /\ sequence \in Nat /\ skipped \subseteq 1..(sequence - 1) /\ sequence > 0
        /\ list \in Seq(Event) /\ published \in Seq(Event)
        /\ cached \in [{"BOOK-T0", "BOOK-T1"} -> Nat \cup {-1}]
        /\ UNCHANGED skipped
    BY DEF FeedIInv, TypeOK, QueueOK, engineVars
  <1>4. e \in Event
    <2>1. Head(events) = events[1] /\ events[1] \in QueueEvent
      BY <1>2, EventsFacts
    <2> QED
      BY <1>1, <1>3, <2>1 DEF Numbered, Event, QueueEvent
  <1>5. ASSUME list' = Append(list, e)
        PROVE  /\ list' \in Seq(Event) /\ Len(list') = Len(list) + 1 /\ list' # <<>>
               /\ \A i \in 1..Len(list) : list'[i] = list[i]
               /\ list'[Len(list')] = e
               /\ Range(list') = Range(list) \cup {e}
    <2>1. PICK X : X = Event
      OBVIOUS
    <2>2. list \in Seq(X) /\ e \in X
      BY <1>3, <1>4, <2>1
    <2>3. PICK r : r = list'
      OBVIOUS
    <2>4. r = Append(list, e)
      BY <1>5, <2>3
    <2> HIDE <1>5
    <2>5. /\ r \in Seq(X) /\ Len(r) = Len(list) + 1 /\ r # <<>>
          /\ \A i \in 1..Len(list) : r[i] = list[i]
          /\ r[Len(r)] = e
      BY <2>2, <2>4, AppendFacts
    <2>6. Range(r) = Range(list) \cup {e}
      BY <2>2, <2>4, AppendRange
    <2> QED
      BY <2>1, <2>3, <2>5, <2>6
  <1>6. /\ handling' \in Seq(Event) /\ Len(handling') <= 1 /\ Range(handling') \subseteq {e}
        /\ handling' # <<>> => handling'[1] = e
    <2>1. <<e>> \in Seq(Event) /\ Len(<<e>>) = 1 /\ Range(<<e>>) = {e} /\ Range(<<>>) = {}
          /\ <<>> \in Seq(Event) /\ Len(<<>>) = 0
      BY <1>4 DEF Range
    <2> QED
      BY <1>2, <2>1
  <1>7. Seen' \subseteq Seen \cup {e}
    BY <1>2, <1>5, <1>6, QueueSeen
  <1>8. /\ e.type = "ORDER" /\ e.sequence = sequence
        /\ QueueOK' /\ SeenOK' /\ ~ Fresh'
    BY <1>1, <1>2, <1>7, NumberedStep
  <1>9. TypeOK' /\ (redisErrors' = 0 => ok /\ redisErrors = 0)
    <2>1. events' \in Seq(QueueEvent) /\ Len(events') <= Len(events)
      <3>1. /\ Len(events) \in Nat \ {0} /\ events' \in Seq(QueueEvent)
            /\ Len(events') = Len(events) - 1
        BY <1>2, EventsFacts
      <3> QED
        BY <3>1
    <2>2. list' \in Seq(Event)
      BY <1>2, <1>3, <1>5
    <2> QED
      BY <1>2, <1>3, <1>6, <2>1, <2>2, QueueTypes
  <1>11. ASSUME redisErrors' = 0, NothingLost
         PROVE  ListOK' /\ StreamOK' /\ UNCHANGED Upcoming
    <2>1. ok /\ handling' = <<e>> /\ list' = Append(list, e)
      BY <1>2, <1>9, <1>11
    <2>2. StreamOK' /\ UNCHANGED Upcoming
      <3>1. ToPublish' = ToPublish
        BY <1>2, <1>6, <1>8, <2>1 DEF ToPublish
      <3> QED
        BY <1>2, <1>3, <1>11, <3>1, StreamKept DEF NothingLost
    <2>3. ~ Fresh /\ ~ BookInRedis /\ ~ BookInRedis'
      <3>1. Head(events) = events[1]
        BY <1>2, EventsFacts
      <3> QED
        BY <1>2, <1>8, <2>1, <3>1 DEF FeedIInv, QueueOK, BookInRedis
    <2>4. PICK n : n = list[1].sequence
      OBVIOUS
    <2>5. PICK l : l = Len(list)
      OBVIOUS
    <2>6. /\ list # <<>> /\ l \in Nat \ {0} /\ list[1].type = "BOOK-T0"
          /\ \A x \in 2..l : list[x].type = "ORDER"
          /\ \A x \in 1..l : list[x].sequence = n + x - 1
          /\ \A k \in (n + l)..(sequence - 1) : k \in skipped
      <3>1. list # <<>> /\ l \in Nat \ {0}
        BY <1>3, <1>11, <2>3, <2>5, RangeFacts DEF NothingLost, ListOK
      <3> QED
        BY <1>11, <2>4, <2>5, <3>1 DEF NothingLost, ListOK
    <2>7. n + l = sequence
      <3>1. list[l] \in Seen /\ list[1] \in Event
        BY <1>3, <2>5, <2>6, RangeFacts DEF Seen
      <3>2. list[l].sequence \in 1..(sequence - 1)
        BY <3>1 DEF FeedIInv, SeenOK
      <3>3. n \in Nat
        BY <2>4, <3>1 DEF Event
      <3>4. list[l].sequence = n + l - 1
        BY <2>6
      <3>5. sequence # 1 /\ sequence - 1 \notin skipped
        BY <2>3 DEF Fresh
      <3>6. n + l <= sequence
        BY <1>3, <2>6, <3>2, <3>3, <3>4
      <3>7. CASE n + l <= sequence - 1
        <4>1. sequence - 1 \in (n + l)..(sequence - 1)
          BY <1>3, <2>6, <3>3, <3>7
        <4> QED
          BY <2>6, <3>5, <4>1
      <3> QED
        BY <1>3, <2>6, <3>3, <3>6, <3>7
    <2>8. list'[1] = list[1] /\ Len(list') = l + 1 /\ n \in Nat
      <3>1. list[1] \in Event /\ 1 \in 1..Len(list)
        BY <1>3, <2>5, <2>6
      <3> QED
        BY <1>5, <2>1, <2>4, <2>5, <3>1 DEF Event
    <2>9. \A x \in 2..(l + 1) : list'[x].type = "ORDER"
      <3> SUFFICES ASSUME NEW x \in 2..(l + 1) PROVE list'[x].type = "ORDER"
        OBVIOUS
      <3>1. CASE x = l + 1
        BY <1>5, <1>8, <2>1, <2>8, <3>1
      <3>2. CASE x # l + 1
        <4>1. x \in 2..l /\ x \in 1..l
          BY <2>6, <3>2
        <4> QED
          BY <1>5, <2>1, <2>5, <2>6, <4>1
      <3> QED
        BY <3>1, <3>2
    <2>10. \A x \in 1..(l + 1) : list'[x].sequence = n + x - 1
      <3> SUFFICES ASSUME NEW x \in 1..(l + 1) PROVE list'[x].sequence = n + x - 1
        OBVIOUS
      <3>1. CASE x = l + 1
        <4>1. n + x - 1 = sequence
          BY <2>6, <2>7, <2>8, <3>1
        <4> QED
          BY <1>5, <1>8, <2>1, <2>8, <3>1, <4>1
      <3>2. CASE x # l + 1
        <4>1. x \in 1..l
          BY <2>6, <3>2
        <4> QED
          BY <1>5, <2>1, <2>5, <2>6, <4>1
      <3> QED
        BY <3>1, <3>2
    <2>11. \A k \in (n + (l + 1))..(sequence' - 1) : k \in skipped'
      BY <1>2, <1>3, <2>6, <2>7, <2>8
    <2>12. sequence' - 1 \notin skipped'
      BY <1>2, <1>3
    <2>13. ListOK'
      BY <1>5, <2>1, <2>3, <2>4, <2>6, <2>8, <2>9, <2>10, <2>11, <2>12 DEF ListOK
    <2> QED
      BY <2>2, <2>13
  <1>12. \A x \in DOMAIN published' : published'[x].type # "BOOK-T0"
    BY <1>2 DEF FeedIInv, NoBookSent
  <1> QED
    BY <1>8, <1>9, <1>11, <1>12, QueueStep

LEMMA HandlingFacts ==
    ASSUME FeedIInv, handling # <<>>
    PROVE  /\ handling = <<handling[1]>> /\ handling[1] \in Event /\ handling[1] \in Seen
           /\ Range(handling) = {handling[1]} /\ ToPublish = handling[1].sequence
           /\ handling[1].sequence = sequence - 1 /\ sequence - 1 \notin skipped /\ ~ Fresh
           /\ handling[1].type # "BOOK-T1"
  <1>1. /\ handling[1] \in Event /\ handling = <<handling[1]>>
    BY Numbers
  <1>2. PICK e : e = handling[1]
    OBVIOUS
  <1>3. Range(handling) = {handling[1]}
    <2>1. Range(<<e>>) = {e}
      BY DEF Range
    <2> QED
      BY <1>1, <1>2, <2>1
  <1> QED
    BY <1>1, <1>3 DEF Seen, ToPublish, FeedIInv, QueueOK, Fresh

LEMMA NothingInRange ==
    Range(<<>>) = {} /\ \A e : Range(<<e>>) = {e}
  BY DEF Range

LEMMA SingleEvent ==
    ASSUME NEW e \in Event
    PROVE  <<e>> \in Seq(Event) /\ Len(<<e>>) = 1 /\ <<e>> # <<>> /\ <<e>>[1] = e
           /\ <<>> \in Seq(Event) /\ Len(<<>>) = 0
  OBVIOUS

LEMMA SeenEvents ==
    ASSUME FeedIInv
    PROVE  Seen \subseteq Event /\ \A c \in Client : Emitted(c) \subseteq Event
  <1>1. /\ handling \in Seq(Event) /\ list \in Seq(Event) /\ published \in Seq(Event)
        /\ got \in [Client -> SUBSET Event]
    BY DEF FeedIInv, TypeOK
  <1>2. PICK X : X = Event
    OBVIOUS
  <1>3. Range(handling) \subseteq X /\ Range(list) \subseteq X /\ Range(published) \subseteq X
    BY <1>1, <1>2, RangeFacts
  <1>4. ASSUME NEW c \in Client PROVE Emitted(c) \subseteq X
    <2>1. PICK h : h = hubChannel[c]
      OBVIOUS
    <2>2. h \in Seq(Message)
      BY <2>1, Numbers
    <2>3. Range(h) \subseteq Message
      BY <2>2, RangeFacts
    <2> QED
      BY <1>2, <2>1, <2>3, MessageFacts DEF Emitted
  <1> QED
    BY <1>1, <1>2, <1>3, <1>4 DEF Seen

LEMMA AtMostOne ==
    ASSUME NEW e \in Event, NEW d, d \in {<<e>>, <<>>}
    PROVE  /\ d \in Seq(Event) /\ Len(d) <= 1 /\ Range(d) \subseteq {e}
           /\ d # <<>> => d[1] = e
  <1>1. CASE d = <<e>>
    <2>1. d \in Seq(Event) /\ Len(d) = 1 /\ d[1] = e
      BY <1>1, SingleEvent
    <2>2. Range(d) \subseteq {e}
      BY <1>1 DEF Range
    <2> QED
      BY <2>1, <2>2
  <1>2. CASE d = <<>>
    <2>1. d \in Seq(Event) /\ Len(d) = 0
      BY <1>2, SingleEvent
    <2>2. Range(d) \subseteq {e}
      BY <1>2 DEF Range
    <2> QED
      BY <1>2, <2>1, <2>2
  <1> QED
    BY <1>1, <1>2

LEMMA PipelineDelStep ==
    ASSUME FeedIInv, UNCHANGED <<engineVars, hubVars, requestVars, clientVars>>,
           NEW ok \in BOOLEAN, CountErrors(ok), PipelineDel(ok)
    PROVE  FeedIInv'
  <1>1. PICK e : e = Numbered
    OBVIOUS
  <1>2. /\ handling = <<>> /\ events # <<>> /\ Head(events).type = "BOOK-T0"
        /\ events' = Tail(events) /\ sequence' = sequence + 1
        /\ list' \in {list, <<>>} /\ (ok => list' = <<>>)
        /\ handling' = IF ok THEN <<e>> ELSE <<>>
        /\ UNCHANGED <<cached, published>>
    BY <1>1 DEF PipelineDel, NextEvent, Taken, ListDeleted
  <1>3. /\ sequence \in Nat
        /\ list \in Seq(Event) /\ published \in Seq(Event)
        /\ cached \in [{"BOOK-T0", "BOOK-T1"} -> Nat \cup {-1}]
        /\ UNCHANGED skipped
    BY DEF FeedIInv, TypeOK, engineVars
  <1>4. e \in Event
    <2>1. Head(events) = events[1] /\ events[1] \in QueueEvent
      BY <1>2, EventsFacts
    <2> QED
      BY <1>1, <1>3, <2>1 DEF Numbered, Event, QueueEvent
  <1>5. /\ handling' \in Seq(Event) /\ Len(handling') <= 1 /\ Range(handling') \subseteq {e}
        /\ handling' # <<>> => handling'[1] = e
        /\ list' \in Seq(Event) /\ Range(list') \subseteq Range(list)
    <2>1. handling' \in {<<e>>, <<>>}
      BY <1>2
    <2>2. /\ handling' \in Seq(Event) /\ Len(handling') <= 1 /\ Range(handling') \subseteq {e}
          /\ handling' # <<>> => handling'[1] = e
      <3>1. PICK d : d = handling'
        OBVIOUS
      <3>2. /\ d \in Seq(Event) /\ Len(d) <= 1 /\ Range(d) \subseteq {e}
            /\ d # <<>> => d[1] = e
        BY <1>4, <2>1, <3>1, AtMostOne
      <3> QED
        BY <3>1, <3>2
    <2>3. list' \in Seq(Event) /\ Range(list') \subseteq Range(list)
      <3>1. CASE list' = list
        BY <1>3, <3>1
      <3>2. CASE list' = <<>>
        BY <1>4, <3>2, SingleEvent, NothingInRange
      <3> QED
        BY <1>2, <3>1, <3>2
    <2> QED
      BY <2>2, <2>3
  <1>6. Seen' \subseteq Seen \cup {e}
    BY <1>2, <1>5, QueueSeen
  <1>7. /\ e.type = "BOOK-T0" /\ e.sequence = sequence
        /\ QueueOK' /\ SeenOK' /\ ~ Fresh'
    BY <1>1, <1>2, <1>6, NumberedStep
  <1>8. TypeOK' /\ (redisErrors' = 0 => ok /\ redisErrors = 0)
    <2>1. events' \in Seq(QueueEvent) /\ Len(events') <= Len(events)
      <3>1. /\ Len(events) \in Nat \ {0} /\ events' \in Seq(QueueEvent)
            /\ Len(events') = Len(events) - 1
        BY <1>2, EventsFacts
      <3> QED
        BY <3>1
    <2> QED
      BY <1>2, <1>3, <1>5, <2>1, QueueTypes
  <1>9. ASSUME redisErrors' = 0, NothingLost
        PROVE  ListOK' /\ StreamOK' /\ UNCHANGED Upcoming
    <2>1. ok /\ handling' = <<e>> /\ list' = <<>> /\ handling' # <<>>
      BY <1>2, <1>4, <1>8, <1>9, SingleEvent
    <2>2. ToPublish' = ToPublish
      BY <1>2, <1>5, <1>7, <2>1 DEF ToPublish
    <2>3. BookInRedis'
      BY <1>5, <1>7, <2>1 DEF BookInRedis
    <2> QED
      BY <1>2, <1>3, <1>9, <2>1, <2>2, <2>3, StreamKept DEF NothingLost, ListOK
  <1>10. \A x \in DOMAIN published' : published'[x].type # "BOOK-T0"
    BY <1>2 DEF FeedIInv, NoBookSent
  <1> QED
    BY <1>7, <1>8, <1>9, <1>10, QueueStep

LEMMA SetBookT1Step ==
    ASSUME FeedIInv, UNCHANGED <<engineVars, hubVars, requestVars, clientVars>>,
           NEW ok \in BOOLEAN, CountErrors(ok), SetBookT1(ok)
    PROVE  FeedIInv'
  <1>1. /\ handling = <<>> /\ events # <<>> /\ Head(events).type = "BOOK-T1"
        /\ events' = Tail(events)
        /\ UNCHANGED <<sequence, handling, list, published>>
    BY DEF SetBookT1, NextEvent
  <1>2. PICK s : s = Tail(events)
    OBVIOUS
  <1>3. /\ Len(events) \in Nat \ {0} /\ s \in Seq(QueueEvent) /\ Len(s) = Len(events) - 1
        /\ Head(events) = events[1] /\ events[1] \in QueueEvent
        /\ (s = <<>> => events[1].upto = version)
        /\ (s # <<>> => /\ s[1] = events[2] /\ s[Len(s)].upto = version
                        /\ s[1].upto = events[1].upto + Step(s[1].type))
        /\ \A x \in 2..Len(s) : s[x].upto = s[x - 1].upto + Step(s[x].type)
        /\ \A x \in 1..Len(s) : s[x].type # "HEARTBEAT"
    BY <1>1, <1>2, EventsFacts
  <1>4. cached' \in [{"BOOK-T0", "BOOK-T1"} -> Nat \cup {-1}]
    <2>1. Head(events).upto \in Nat
      BY <1>3 DEF QueueEvent
    <2> QED
      BY <2>1 DEF FeedIInv, TypeOK, SetBookT1
  <1>5. ~ Fresh /\ UNCHANGED <<version, started, skipped>> /\ started
    BY <1>1, <1>3 DEF FeedIInv, QueueOK, engineVars
  <1>6. UNCHANGED <<Fresh, BookInRedis, ToPublish>>
    BY <1>1, <1>5 DEF Fresh, BookInRedis, ToPublish
  <1>7. Seen' = Seen
    BY <1>1, SeenIsLocal DEF Seen, clientVars
  <1>8. QueueOK'
    BY <1>1, <1>2, <1>3, <1>5, <1>6 DEF FeedIInv, QueueOK, Step
  <1>9. SeenOK'
    <2>1. events[1].upto \in Nat /\ Step(events[1].type) = 0
      BY <1>1, <1>3 DEF Step, QueueEvent
    <2>2. \A e \in Seen : e.sequence = sequence - 1 => events[1].upto = e.upto + Step(events[1].type)
      BY <1>1 DEF FeedIInv, SeenOK
    <2>3. \A e \in Seen : e.upto \in Nat
      BY SeenEvents DEF Event
    <2>4. \A e \in Seen : e.sequence = sequence - 1 => events[1].upto = e.upto
      BY <2>1, <2>2, <2>3
    <2>5. \A e \in Seen : e.sequence = sequence - 1 =>
             IF s = <<>> THEN version = e.upto ELSE s[1].upto = e.upto + Step(s[1].type)
      BY <1>3, <2>4
    <2> QED
      BY <1>1, <1>2, <1>5, <1>7, <2>5 DEF FeedIInv, SeenOK, Step
  <1>10. TypeOK' /\ (redisErrors' = 0 => ok /\ redisErrors = 0)
    <2>1. events' \in Seq(QueueEvent) /\ Len(events') <= Len(events)
      BY <1>1, <1>2, <1>3
    <2> QED
      BY <1>1, <1>4, <2>1, QueueTypes DEF FeedIInv, TypeOK
  <1>11. ASSUME redisErrors' = 0, NothingLost
         PROVE  ListOK' /\ StreamOK' /\ UNCHANGED Upcoming
    BY <1>1, <1>5, <1>6, <1>11, StreamKept, ListKeptOK DEF NothingLost
  <1>12. \A x \in DOMAIN published' : published'[x].type # "BOOK-T0"
    BY <1>1 DEF FeedIInv, NoBookSent
  <1> QED
    BY <1>8, <1>9, <1>10, <1>11, <1>12, QueueStep

\* The handled event is done, or handled further.
LEMMA QueueServed ==
    ASSUME FeedIInv, UNCHANGED <<engineVars, events, sequence>>,
           handling' # <<>> => /\ handling'[1].sequence = sequence - 1
                               /\ handling'[1].type # "BOOK-T1" /\ ~ Fresh
    PROVE  QueueOK' /\ Fresh' = Fresh /\ UNCHANGED <<version, skipped>>
  <1>1. UNCHANGED <<version, started, skipped>>
    BY DEF engineVars
  <1>2. Fresh' = Fresh
    BY <1>1 DEF Fresh
  <1> QED
    BY <1>1, <1>2 DEF FeedIInv, QueueOK, Step

LEMMA QueueUntouched ==
    ASSUME FeedIInv, UNCHANGED events
    PROVE  events' \in Seq(QueueEvent) /\ Len(events') <= Len(events)
  <1>1. events \in Seq(QueueEvent) /\ Len(events) \in Nat
    BY DEF FeedIInv, TypeOK, QueueEvent
  <1> QED
    BY <1>1

LEMMA PipelinePushStep ==
    ASSUME FeedIInv, UNCHANGED <<engineVars, hubVars, requestVars, clientVars>>,
           NEW ok \in BOOLEAN, CountErrors(ok), PipelinePush(ok)
    PROVE  FeedIInv'
  <1>1. PICK h : h = handling[1]
    OBVIOUS
  <1>2. PICK g : g = [h EXCEPT !.type = "HEARTBEAT"]
    OBVIOUS
  <1>3. /\ handling # <<>> /\ h.type = "BOOK-T0"
        /\ list' \in {list, Append(list, h)} /\ (ok => list' = Append(list, h))
        /\ handling' \in {<<g>>, <<>>} /\ (ok => handling' = <<g>>)
        /\ UNCHANGED <<events, sequence, published>>
    BY <1>1, <1>2 DEF PipelinePush, Heartbeat
  <1>4. /\ h \in Event /\ h \in Seen /\ h.sequence = sequence - 1
        /\ sequence - 1 \notin skipped /\ ~ Fresh /\ ToPublish = h.sequence
        /\ h \in Range(handling)
    BY <1>1, <1>3, HandlingFacts
  <1>5. /\ g \in Event /\ g.type = "HEARTBEAT" /\ g.sequence = h.sequence /\ g.upto = h.upto
    BY <1>2, <1>4 DEF Event, EventType
  <1>6. /\ handling' \in Seq(Event) /\ Len(handling') <= 1 /\ Range(handling') \subseteq {g}
        /\ handling' # <<>> => handling'[1] = g
    <2>1. PICK d : d = handling'
      OBVIOUS
    <2>2. /\ d \in Seq(Event) /\ Len(d) <= 1 /\ Range(d) \subseteq {g}
          /\ d # <<>> => d[1] = g
      BY <1>3, <1>5, <2>1, AtMostOne
    <2> QED
      BY <2>1, <2>2
  <1>7. list' \in Seq(Event) /\ Range(list') \subseteq Range(list) \cup {h}
    <2>1. list \in Seq(Event)
      BY DEF FeedIInv, TypeOK
    <2>2. CASE list' = list
      BY <2>1, <2>2
    <2>3. CASE list' = Append(list, h)
      <3>1. PICK l : l = list
        OBVIOUS
      <3>2. PICK r : r = list'
        OBVIOUS
      <3>3. PICK X : X = Event
        OBVIOUS
      <3>4. r = Append(l, h) /\ l \in Seq(X) /\ h \in X
        BY <1>4, <2>1, <2>3, <3>1, <3>2, <3>3
      <3>5. r \in Seq(X)
        BY <3>4
      <3>6. \A y : y \in Range(r) <=> y \in Range(l) \/ y = h
        BY <3>4, AppendRange
      <3> QED
        BY <3>1, <3>2, <3>3, <3>5, <3>6
    <2> QED
      BY <1>3, <2>2, <2>3
  <1>8. Seen' \subseteq Seen \cup {g}
    <2>1. PICK S : S = {g, h}
      OBVIOUS
    <2>2. Range(handling') \cup Range(list') \cup Range(published') \subseteq
             Range(handling) \cup Range(list) \cup Range(published) \cup S
      BY <1>3, <1>6, <1>7, <2>1
    <2>3. Seen' \subseteq Seen \cup S
      BY <2>2, QueueSeen
    <2> QED
      BY <1>4, <2>1, <2>3
  <1>9. QueueOK' /\ Fresh' = Fresh /\ UNCHANGED <<version, skipped>>
    BY <1>3, <1>4, <1>5, <1>6, QueueServed
  <1>10. SeenOK'
    <2>1. Step(g.type) = Step(h.type)
      BY <1>3, <1>5 DEF Step
    <2> QED
      BY <1>3, <1>4, <1>5, <1>8, <1>9, <2>1, SeenCopied
  <1>11. TypeOK' /\ (redisErrors' = 0 => ok /\ redisErrors = 0)
    <2>1. events' \in Seq(QueueEvent) /\ Len(events') <= Len(events)
      BY <1>3, QueueUntouched
    <2>2. cached' \in [{"BOOK-T0", "BOOK-T1"} -> Nat \cup {-1}]
      <3>1. h.upto \in Nat
        BY <1>4 DEF Event
      <3> QED
        BY <1>1, <3>1 DEF FeedIInv, TypeOK, PipelinePush
    <2> QED
      BY <1>3, <1>6, <1>7, <2>1, <2>2, QueueTypes DEF FeedIInv, TypeOK
  <1>12. ASSUME redisErrors' = 0, NothingLost
         PROVE  ListOK' /\ StreamOK' /\ UNCHANGED Upcoming
    <2>1. ok /\ handling' = <<g>> /\ handling' # <<>> /\ handling'[1] = g
      BY <1>3, <1>5, <1>11, <1>12, SingleEvent
    <2>2. ToPublish' = ToPublish
      BY <1>4, <1>5, <2>1 DEF ToPublish
    <2>3. ~ BookInRedis'
      BY <1>5, <2>1 DEF BookInRedis
    <2>4. list = <<>>
      BY <1>1, <1>3, <1>12 DEF NothingLost, ListOK, BookInRedis
    <2>5. list' = <<h>>
      BY <1>3, <2>1, <2>4
    <2>6. Len(list') = 1 /\ list'[1] = h /\ list' # <<>>
      BY <1>4, <2>5, SingleEvent
    <2>7. h.sequence \in Nat /\ sequence \in Nat
      BY <1>4 DEF Event, FeedIInv, TypeOK
    <2>8. ListOK'
      <3>1. \A x \in 2..Len(list') : FALSE
        BY <2>6
      <3>2. \A x \in 1..Len(list') : list'[x].sequence = list'[1].sequence + x - 1
        BY <2>6, <2>7
      <3>3. \A k \in (list'[1].sequence + Len(list'))..(sequence' - 1) : k \in skipped'
        BY <1>3, <1>4, <2>6, <2>7
      <3> QED
        BY <1>3, <1>4, <1>9, <2>3, <2>6, <3>1, <3>2, <3>3 DEF ListOK
    <2> QED
      BY <1>3, <1>9, <1>12, <2>2, <2>8, StreamKept DEF NothingLost
  <1>13. \A x \in DOMAIN published' : published'[x].type # "BOOK-T0"
    BY <1>3 DEF FeedIInv, NoBookSent
  <1> QED
    BY <1>9, <1>10, <1>11, <1>12, <1>13, QueueStep

LEMMA PublishStep ==
    ASSUME FeedIInv, UNCHANGED <<engineVars, hubVars, requestVars, clientVars>>,
           NEW ok \in BOOLEAN, CountErrors(ok), Publish(ok)
    PROVE  FeedIInv'
  <1>1. PICK h : h = handling[1]
    OBVIOUS
  <1>2. PICK p : p = published
    OBVIOUS
  <1>3. PICK q : q = published'
    OBVIOUS
  <1>4. /\ handling # <<>> /\ h.type # "BOOK-T0" /\ handling' = <<>>
        /\ q = IF ok THEN Append(p, h) ELSE p
        /\ UNCHANGED <<events, sequence, list, cached>>
    BY <1>1, <1>2, <1>3 DEF Publish
  <1>5. /\ h \in Event /\ h \in Seen /\ h.sequence = sequence - 1
        /\ sequence - 1 \notin skipped /\ ~ Fresh /\ ToPublish = h.sequence
        /\ h \in Range(handling)
    BY <1>1, <1>4, HandlingFacts
  <1>6. /\ p \in Seq(Event) /\ Len(p) \in Nat /\ (p = <<>> <=> Len(p) = 0)
        /\ \A x \in 1..Len(p) : p[x].type # "BOOK-T0"
    <2>1. p \in Seq(Event)
      BY <1>2 DEF FeedIInv, TypeOK
    <2> QED
      BY <1>2, <2>1, RangeFacts DEF FeedIInv, NoBookSent
  <1>7. ASSUME ok
        PROVE  /\ q \in Seq(Event) /\ Len(q) = Len(p) + 1 /\ q # <<>>
               /\ \A i \in 1..Len(p) : q[i] = p[i]
               /\ q[Len(q)] = h
               /\ \A y : y \in Range(q) <=> y \in Range(p) \/ y = h
    <2>1. PICK X : X = Event
      OBVIOUS
    <2>2. p \in Seq(X) /\ h \in X /\ q = Append(p, h)
      BY <1>4, <1>5, <1>6, <1>7, <2>1
    <2>3. /\ q \in Seq(X) /\ Len(q) = Len(p) + 1 /\ q # <<>>
          /\ \A i \in 1..Len(p) : q[i] = p[i]
          /\ q[Len(q)] = h
      BY <2>2, AppendFacts
    <2>4. \A y : y \in Range(q) <=> y \in Range(p) \/ y = h
      BY <2>2, AppendRange
    <2> QED
      BY <2>1, <2>3, <2>4
  <1>8. q \in Seq(Event) /\ \A y \in Range(q) : y \in Range(p) \/ y = h
    BY <1>4, <1>6, <1>7
  <1>9. \A x \in DOMAIN q : q[x].type # "BOOK-T0"
    <2>1. CASE ok
      <3>1. DOMAIN q = 1..(Len(p) + 1)
        BY <1>7, <2>1
      <3>2. \A x \in 1..(Len(p) + 1) : x \in 1..Len(p) \/ x = Len(q)
        BY <1>6, <1>7, <2>1
      <3> QED
        BY <1>4, <1>6, <1>7, <2>1, <3>1, <3>2
    <2>2. CASE ~ ok
      BY <1>4, <1>6, <2>2
    <2> QED
      BY <2>1, <2>2
  <1>10. Seen' \subseteq Seen
    <2>1. PICK S : S = {h}
      OBVIOUS
    <2>2. Range(handling') = {}
      BY <1>4 DEF Range
    <2>3. Range(published') \subseteq Range(published) \cup {h}
      BY <1>2, <1>3, <1>8
    <2>4. Range(handling') \cup Range(list') \cup Range(published') \subseteq
             Range(handling) \cup Range(list) \cup Range(published) \cup S
      BY <1>4, <2>1, <2>2, <2>3
    <2>5. Seen' \subseteq Seen \cup S
      BY <2>4, QueueSeen
    <2> QED
      BY <1>5, <2>1, <2>5
  <1>11. QueueOK' /\ Fresh' = Fresh /\ UNCHANGED <<version, skipped>>
    BY <1>4, QueueServed
  <1>12. SeenOK'
    BY <1>4, <1>10, <1>11, SeenKept
  <1>13. TypeOK' /\ (redisErrors' = 0 => ok /\ redisErrors = 0)
    <2>1. events' \in Seq(QueueEvent) /\ Len(events') <= Len(events)
      BY <1>4, QueueUntouched
    <2>2. handling' \in Seq(Event) /\ Len(handling') <= 1
      BY <1>4, <1>5, SingleEvent
    <2> QED
      BY <1>3, <1>4, <1>8, <2>1, <2>2, QueueTypes DEF FeedIInv, TypeOK
  <1>14. ASSUME redisErrors' = 0, NothingLost
         PROVE  ListOK' /\ StreamOK' /\ UNCHANGED Upcoming
    <2>1. ok /\ StreamOK /\ ListOK
      BY <1>13, <1>14 DEF NothingLost
    <2>2. ToPublish' = sequence /\ sequence \in Nat
      BY <1>4 DEF ToPublish, FeedIInv, TypeOK
    <2>3. ~ BookInRedis /\ ~ BookInRedis'
      BY <1>1, <1>4 DEF BookInRedis
    <2>4. ListOK'
      BY <1>4, <1>5, <1>11, <2>1, <2>3 DEF ListOK
    <2>5. \A x \in 2..Len(q) : Adjacent(q[x - 1].sequence, q[x].sequence)
      <3> SUFFICES ASSUME NEW x \in 2..Len(q)
                   PROVE  Adjacent(q[x - 1].sequence, q[x].sequence)
        OBVIOUS
      <3>1. CASE x = Len(q)
        <4>1. q[x] = h /\ x - 1 = Len(p) /\ Len(p) \in 1..Len(p) /\ p # <<>>
          BY <1>6, <1>7, <2>1, <3>1
        <4>2. q[x - 1] = p[Len(p)]
          BY <1>7, <2>1, <4>1
        <4>3. Adjacent(p[Len(p)].sequence, h.sequence)
          BY <1>2, <1>5, <2>1, <4>1 DEF StreamOK
        <4> QED
          BY <4>1, <4>2, <4>3
      <3>2. CASE x # Len(q)
        <4>1. x \in 2..Len(p) /\ x \in 1..Len(p) /\ x - 1 \in 1..Len(p)
          BY <1>6, <1>7, <2>1, <3>2
        <4>2. q[x] = p[x] /\ q[x - 1] = p[x - 1]
          BY <1>7, <2>1, <4>1
        <4> QED
          BY <1>2, <2>1, <4>1, <4>2 DEF StreamOK
      <3> QED
        BY <3>1, <3>2
    <2>6. Adjacent(q[Len(q)].sequence, sequence)
      BY <1>5, <1>7, <2>1, <2>2 DEF Adjacent
    <2>7. StreamOK'
      BY <1>3, <1>11, <2>2, <2>5, <2>6 DEF StreamOK, Adjacent
    <2>8. UNCHANGED Upcoming
      <3>1. CASE p = <<>>
        <4>0. Len(q) = 1
          BY <1>6, <1>7, <2>1, <3>1
        <4>1. q # <<>> /\ q[1] = h
          BY <1>7, <2>1, <4>0
        <4> QED
          BY <1>2, <1>3, <1>5, <3>1, <4>1 DEF Upcoming
      <3>2. CASE p # <<>>
        <4>1. q # <<>> /\ q[1] = p[1]
          BY <1>6, <1>7, <2>1, <3>2
        <4> QED
          BY <1>2, <1>3, <3>2, <4>1 DEF Upcoming
      <3> QED
        BY <3>1, <3>2
    <2> QED
      BY <2>4, <2>7, <2>8
  <1> QED
    BY <1>3, <1>9, <1>11, <1>12, <1>13, <1>14, QueueStep

LEMMA HandleEventStep ==
    ASSUME FeedIInv, HandleEvent
    PROVE  FeedIInv'
  <1>1. PICK ok \in BOOLEAN :
          /\ RPush(ok) \/ PipelineDel(ok) \/ PipelinePush(ok) \/ SetBookT1(ok) \/ Publish(ok)
          /\ CountErrors(ok)
    BY DEF HandleEvent
  <1>2. UNCHANGED <<engineVars, hubVars, requestVars, clientVars>>
    BY DEF HandleEvent
  <1> QED
    BY <1>1, <1>2, RPushStep, PipelineDelStep, PipelinePushStep, SetBookT1Step, PublishStep

-----------------------------------------------------------------------------
(* A crash of the engine process.                                          *)

LEMMA RestartStep ==
    ASSUME FeedIInv, Restart
    PROVE  FeedIInv'
  <1>1. /\ restarts < MaxRestarts /\ restarts' = restarts + 1
        /\ version' = version + 1 /\ started' = FALSE
        /\ events' = <<>> /\ handling' = <<>> /\ sequence' = sequence + 1
        /\ skipped' = skipped \cup {sequence} \cup {handling[i].sequence : i \in DOMAIN handling}
        /\ UNCHANGED <<attached, list, cached, redisErrors, published, hubVars, requestVars, clientVars>>
    BY DEF Restart, NewSequence
  <1>2. /\ sequence \in Nat /\ sequence > 0 /\ skipped \subseteq 1..(sequence - 1)
        /\ version \in Nat /\ restarts \in 0..MaxRestarts
        /\ list \in Seq(Event) /\ published \in Seq(Event)
    BY DEF FeedIInv, TypeOK, QueueOK
  <1>3. \A k \in {handling[i].sequence : i \in DOMAIN handling} : handling # <<>> /\ k = sequence - 1
    <2> SUFFICES ASSUME NEW i \in DOMAIN handling
                 PROVE  handling # <<>> /\ handling[i].sequence = sequence - 1
      OBVIOUS
    <2>1. PICK h : h = handling
      OBVIOUS
    <2>2. h \in Seq(Event) /\ Len(h) <= 1 /\ i \in DOMAIN h
      BY <2>1 DEF FeedIInv, TypeOK
    <2>3. i = 1 /\ h # <<>>
      BY <2>2, RangeFacts
    <2> QED
      BY <2>1, <2>3, HandlingFacts
  <1>4. handling # <<>> => sequence - 1 \in skipped'
    <2> SUFFICES ASSUME handling # <<>> PROVE sequence - 1 \in skipped'
      OBVIOUS
    <2>1. handling[1].sequence = sequence - 1
      BY HandlingFacts
    <2>2. 1 \in DOMAIN handling
      <3>1. PICK h : h = handling
        OBVIOUS
      <3>2. h \in Seq(Event) /\ h # <<>>
        BY <3>1 DEF FeedIInv, TypeOK
      <3> QED
        BY <3>1, <3>2, RangeFacts
    <2> QED
      BY <1>1, <2>1, <2>2
  <1>5. skipped \subseteq skipped' /\ sequence \in skipped' /\ skipped' \subseteq 1..sequence
    <2>1. \A k \in {handling[i].sequence : i \in DOMAIN handling} : k \in 1..sequence
      <3> SUFFICES ASSUME handling # <<>> PROVE sequence - 1 \in 1..sequence
        BY <1>3
      <3>1. handling[1] \in Seen /\ handling[1].sequence = sequence - 1
        BY HandlingFacts
      <3>2. sequence - 1 \in 1..(sequence - 1)
        BY <3>1 DEF FeedIInv, SeenOK
      <3> QED
        BY <1>2, <3>2
    <2>2. PICK H : H = {handling[i].sequence : i \in DOMAIN handling}
      OBVIOUS
    <2>3. H \subseteq 1..sequence /\ skipped' = skipped \cup {sequence} \cup H
      BY <1>1, <2>1, <2>2
    <2>4. \A k \in 1..(sequence - 1) : k \in 1..sequence
      BY <1>2
    <2>5. sequence \in 1..sequence
      BY <1>2
    <2> QED
      BY <1>2, <2>3, <2>4, <2>5
  <1>6. UNCHANGED <<members, channel, following, hubChannel, connection, got, opening,
                    subscribe, unsubscribe, asked>>
    BY <1>1 DEF hubVars, clientVars, requestVars
  <1>7. TypeOK'
    <2>1. events' \in Seq([type : EventType, upto : Nat]) /\ Len(events') <= QueueSize
      BY <1>1, FeedAssumption
    <2>2. handling' \in Seq(Event) /\ Len(handling') <= 1
      BY <1>1
    <2>3. sequence' \in Nat /\ skipped' \subseteq 1..sequence'
      BY <1>1, <1>2, <1>5
    <2>4. restarts' \in 0..MaxRestarts /\ version' \in Nat
      BY <1>1, <1>2, FeedAssumption
    <2>5. started' \in BOOLEAN
      BY <1>1
    <2> QED
      BY <1>1, <1>6, <2>1, <2>2, <2>3, <2>4, <2>5 DEF FeedIInv, TypeOK
  <1>8. ChannelsOK' /\ AbsentOK' /\ NoBookSent'
    <2>1. \A x \in DOMAIN published' : published'[x].type # "BOOK-T0"
      BY <1>1 DEF FeedIInv, NoBookSent
    <2> QED
      BY <1>1, <2>1, ClientsKept
  <1>9. Fresh' /\ ~ BookInRedis' /\ ToPublish' = sequence + 1
    BY <1>1, <1>2, <1>5 DEF Fresh, BookInRedis, ToPublish
  <1>10. QueueOK'
    BY <1>1, <1>2, <1>5, <1>9 DEF QueueOK
  <1>11. \A e \in Seen : e.sequence \in Nat /\ e.sequence < sequence
    BY <1>2 DEF FeedIInv, SeenOK
  <1>12. SeenOK'
    <2>1. Seen' \subseteq Seen
      <3>1. Range(handling') = {}
        BY <1>1 DEF Range
      <3> QED
        BY <1>1, <1>6, <3>1, SeenIsLocal DEF Seen
    <2>2. \A e \in Seen' : e.sequence \in 1..(sequence' - 1) /\ e.sequence # sequence' - 1
      <3>1. \A e \in Seen : e.sequence \in 1..(sequence - 1)
        BY DEF FeedIInv, SeenOK
      <3> QED
        BY <1>1, <1>2, <1>11, <2>1, <3>1
    <2> QED
      BY <2>1, <2>2 DEF FeedIInv, SeenOK, Step
  <1>13. PICK w : w = sequence + 1
    OBVIOUS
  <1>14. PICK t : t = ToPublish
    OBVIOUS
  <1>15. t \in Nat /\ w \in Nat /\ ToPublish' = w /\ Passed(t, w)'
    <2>1. t \in Nat /\ w \in Nat /\ t <= sequence
      BY <1>2, <1>13, <1>14, HandlingFacts, Numbers DEF ToPublish
    <2>2. \A k \in t..(w - 1) : k = sequence \/ (handling # <<>> /\ k = sequence - 1)
      <3>1. CASE handling = <<>>
        BY <1>2, <1>13, <1>14, <3>1 DEF ToPublish
      <3>2. CASE handling # <<>>
        <4>1. t = sequence - 1
          BY <1>14, <3>2, HandlingFacts
        <4> QED
          BY <1>2, <1>13, <3>2, <4>1
      <3> QED
        BY <3>1, <3>2
    <2>3. t <= w /\ \A k \in t..(w - 1) : k \in skipped'
      <3>1. t <= w
        BY <1>2, <1>13, <2>1
      <3>2. ASSUME NEW k \in t..(w - 1) PROVE k \in skipped'
        BY <1>4, <1>5, <2>2
      <3> QED
        BY <3>1, <3>2
    <2> QED
      BY <1>9, <1>13, <2>1, <2>3 DEF Passed
  <1>16. PICK p : p = published
    OBVIOUS
  <1>17. /\ p = published' /\ Len(p) \in Nat /\ (p = <<>> <=> Len(p) = 0)
         /\ \A x \in 1..Len(p) : p[x].sequence \in Nat
    BY <1>1, <1>16, Numbers
  <1>18. ASSUME redisErrors' = 0 PROVE NothingLost'
    <2>1. NothingLost
      BY <1>1, <1>18 DEF FeedIInv
    <2>2. ListOK'
      <3>1. ASSUME list # <<>>
            PROVE  /\ \A k \in (list[1].sequence + Len(list))..sequence : k \in skipped'
                   /\ list[Len(list)].sequence < sequence
        <4>1. PICK l : l = list
          OBVIOUS
        <4>2. l \in Seq(Event) /\ Len(l) \in Nat \ {0}
          BY <1>2, <3>1, <4>1, RangeFacts
        <4>3. l[1].sequence \in Nat /\ l[Len(l)] \in Range(l)
          <5>1. 1 \in 1..Len(l) /\ Len(l) \in 1..Len(l)
            BY <4>2
          <5>2. l[1] \in Event
            BY <4>2, <5>1
          <5>3. l[Len(l)] \in Range(l)
            BY <4>2, <5>1 DEF Range
          <5> QED
            BY <5>2, <5>3 DEF Event
        <4>4. l[Len(l)].sequence < sequence
          BY <1>11, <4>1, <4>3 DEF Seen
        <4>5. \A k \in (l[1].sequence + Len(l))..(sequence - 1) : k \in skipped
          BY <2>1, <3>1, <4>1 DEF NothingLost, ListOK
        <4>6. \A k \in (l[1].sequence + Len(l))..sequence : k \in skipped'
          BY <1>2, <1>5, <4>2, <4>3, <4>5
        <4> QED
          BY <4>1, <4>4, <4>6
      <3>2. sequence' - 1 = sequence
        BY <1>1, <1>2
      <3> QED
        BY <1>1, <1>9, <2>1, <3>1, <3>2 DEF NothingLost, ListOK
    <2>3. StreamOK'
      <3>1. \A x \in 2..Len(p) : Adjacent(p[x - 1].sequence, p[x].sequence)'
        <4>1. \A x \in 2..Len(p) : Adjacent(p[x - 1].sequence, p[x].sequence)
          BY <1>16, <2>1 DEF NothingLost, StreamOK
        <4> QED
          BY <1>5, <4>1, AdjacentKept
      <3>2. p # <<>> => Adjacent(p[Len(p)].sequence, w)'
        <4>1. p # <<>> => Adjacent(p[Len(p)].sequence, t) /\ Len(p) \in 1..Len(p)
          BY <1>14, <1>16, <1>17, <2>1 DEF NothingLost, StreamOK
        <4> QED
          BY <1>5, <1>15, <1>17, <4>1, AdjacentFurther
      <3> QED
        BY <1>15, <1>17, <3>1, <3>2 DEF StreamOK
    <2>4. PICK u : u = Upcoming
      OBVIOUS
    <2>5. PICK v : v = Upcoming'
      OBVIOUS
    <2>6. u \in Nat /\ v \in Nat /\ Passed(u, v)'
      <3>1. CASE p = <<>>
        BY <1>14, <1>15, <1>16, <1>17, <2>4, <2>5, <3>1 DEF Upcoming
      <3>2. CASE p # <<>>
        <4>0. u = p[1].sequence /\ v = p[1].sequence
          BY <1>16, <1>17, <2>4, <2>5, <3>2 DEF Upcoming
        <4>1. 1 \in 1..Len(p) /\ u = p[1].sequence /\ v = p[1].sequence
          BY <1>17, <3>2, <4>0
        <4> QED
          BY <1>17, <4>1 DEF Passed
      <3> QED
        BY <3>1, <3>2
    <2> QED
      BY <1>1, <1>5, <2>1, <2>2, <2>3, <2>4, <2>5, <2>6, AllClientsKept DEF NothingLost
  <1> QED
    BY <1>7, <1>8, <1>10, <1>12, <1>18 DEF FeedIInv

-----------------------------------------------------------------------------
(* The hub and its clients.                                                *)

\* The parts of a step that the queue has no part in.
LEMMA ClientStep ==
    ASSUME FeedIInv, UNCHANGED <<engineVars, events, sequence, handling, list>>,
           Seen' \subseteq Seen, TypeOK', ChannelsOK', AbsentOK', NoBookSent',
           redisErrors' = 0 => redisErrors = 0,
           NothingLost =>
             /\ StreamOK'
             /\ \A c \in Client :
                  connection'[c] = "OPEN" /\ redisErrors' = 0 =>
                    ChannelOK(c)' /\ GapFree(c)' /\ OneBook(c)'
    PROVE  FeedIInv'
  <1>1. UNCHANGED <<started, skipped, version>>
    BY DEF engineVars
  <1>2. QueueOK' /\ Fresh' = Fresh /\ BookInRedis' = BookInRedis
    BY <1>1, QueueKept
  <1>3. SeenOK'
    BY <1>1, SeenKept
  <1>4. ASSUME redisErrors' = 0 PROVE NothingLost'
    <2>1. NothingLost
      BY <1>4 DEF FeedIInv
    <2>2. ListOK'
      BY <1>1, <1>2, <2>1, ListKeptOK DEF NothingLost
    <2> QED
      BY <1>4, <2>1, <2>2 DEF NothingLost
  <1> QED
    BY <1>2, <1>3, <1>4 DEF FeedIInv

\* A step that sends nothing and gives no client anything.
LEMMA ControlStep ==
    ASSUME FeedIInv, UNCHANGED <<queueVars, published, hubChannel, got>>, TypeOK',
           channel' \subseteq channel,
           \A c \in Client : connection'[c] = "OPEN" => connection[c] \in {"OPEN", "ABSENT"},
           \A c \in Client : connection'[c] = "ABSENT" => connection[c] = "ABSENT" /\ c \notin members'
    PROVE  FeedIInv'
  <1>1. UNCHANGED <<engineVars, events, sequence, handling, list, redisErrors>> /\ UNCHANGED skipped
    BY DEF queueVars, engineVars
  <1>2. ToPublish' = ToPublish
    BY <1>1 DEF ToPublish
  <1>3. Upcoming' = Upcoming
    BY <1>2 DEF Upcoming
  <1>4. Seen' \subseteq Seen
    BY <1>1, SeenIsLocal DEF Seen
  <1>5. ChannelsOK' /\ AbsentOK'
    BY DEF FeedIInv, ChannelsOK, AbsentOK
  <1>6. NoBookSent'
    <2>1. \A c \in Client : Emitted(c)' = Emitted(c)
      BY DEF Emitted
    <2> QED
      BY <2>1 DEF FeedIInv, NoBookSent
  <1>7. ASSUME NothingLost PROVE StreamOK'
    BY <1>1, <1>2, <1>7, StreamKept DEF NothingLost
  <1>8. ASSUME NothingLost, NEW c \in Client, connection'[c] = "OPEN"
        PROVE  ChannelOK(c)' /\ GapFree(c)' /\ OneBook(c)'
    <2>1. CASE connection[c] = "OPEN"
      <3>1. PICK u : u = Upcoming
        OBVIOUS
      <3>2. u \in Nat /\ u = Upcoming' /\ Passed(u, u)'
        BY <1>3, <3>1, Numbers DEF Passed
      <3>3. /\ ChannelOK(c) /\ GapFree(c) /\ OneBook(c)
            /\ UNCHANGED <<hubChannel[c], got[c]>> /\ (c \in channel' => c \in channel)
            /\ skipped \subseteq skipped'
        BY <1>1, <1>8, <2>1 DEF NothingLost
      <3> QED
        BY <3>1, <3>2, <3>3, ClientKept
    <2>2. CASE connection[c] = "ABSENT"
      <3>1. hubChannel'[c] = <<>> /\ got'[c] = {} /\ c \notin channel'
        BY <2>2 DEF FeedIInv, AbsentOK, TypeOK
      <3>2. GapFree(c)' /\ OneBook(c)'
        BY <3>1 DEF GapFree, OneBook, Sequences
      <3>3. \A x \in 2..Len(hubChannel'[c]) : FALSE
        BY <3>1
      <3>4. ChannelOK(c)'
        BY <3>1, <3>3 DEF ChannelOK
      <3> QED
        BY <3>2, <3>4
    <2> QED
      BY <1>8, <2>1, <2>2
  <1> QED
    BY <1>1, <1>4, <1>5, <1>6, <1>7, <1>8, ClientStep

LEMMA ConnectStep ==
    ASSUME FeedIInv, NEW c \in Client, Connect(c)
    PROVE  FeedIInv'
  <1>1. /\ connection[c] = "ABSENT" /\ connection' = [connection EXCEPT ![c] = "OPEN"]
        /\ members' = members \cup {c}
        /\ UNCHANGED <<queueVars, published, following, channel, requestVars, hubChannel, got, opening>>
    BY DEF Connect
  <1>2. connection \in [Client -> Connection] /\ connection' \in [Client -> Connection]
    BY <1>1 DEF FeedIInv, TypeOK, Connection
  <1>3. TypeOK'
    BY <1>1, <1>2 DEF FeedIInv, TypeOK, queueVars, engineVars, requestVars
  <1>4. \A d \in Client : connection'[d] = "ABSENT" => connection[d] = "ABSENT" /\ d \notin members'
    BY <1>1, <1>2 DEF FeedIInv, AbsentOK
  <1>5. \A d \in Client : connection'[d] = "OPEN" => connection[d] \in {"OPEN", "ABSENT"}
    BY <1>1, <1>2
  <1> QED
    BY <1>1, <1>3, <1>4, <1>5, ControlStep

LEMMA HandleMessageStep ==
    ASSUME FeedIInv, NEW c \in Client, NEW request \in Request, HandleMessage(c, request)
    PROVE  FeedIInv'
  <1>1. /\ asked' = [asked EXCEPT ![c] = Append(@, request)]
        /\ subscribe' \in {subscribe, Append(subscribe, c)}
        /\ unsubscribe' \in {unsubscribe, Append(unsubscribe, c)}
        /\ UNCHANGED <<queueVars, published, hubVars, clientVars>>
    BY DEF HandleMessage
  <1>2. /\ UNCHANGED <<members, following, channel, hubChannel, connection, got, opening>>
    BY <1>1 DEF hubVars, clientVars
  <1>3. subscribe' \in Seq(Client) /\ unsubscribe' \in Seq(Client)
    <2>1. subscribe \in Seq(Client) /\ unsubscribe \in Seq(Client)
      BY DEF FeedIInv, TypeOK
    <2>2. Append(subscribe, c) \in Seq(Client) /\ Append(unsubscribe, c) \in Seq(Client)
      BY <2>1
    <2> QED
      BY <1>1, <2>1, <2>2
  <1>4. asked' \in [Client -> Seq(Request)]
    <2>1. asked \in [Client -> Seq(Request)]
      BY DEF FeedIInv, TypeOK
    <2>2. PICK R : R = Request
      OBVIOUS
    <2>3. PICK q : q = Append(asked[c], request)
      OBVIOUS
    <2>4. q \in Seq(R)
      BY <2>1, <2>2, <2>3
    <2>5. asked' = [asked EXCEPT ![c] = q]
      BY <1>1, <2>3
    <2> QED
      BY <2>1, <2>2, <2>4, <2>5
  <1>5. TypeOK'
    BY <1>1, <1>2, <1>3, <1>4 DEF FeedIInv, TypeOK, queueVars, engineVars
  <1>6. \A d \in Client : connection'[d] = "ABSENT" => connection[d] = "ABSENT" /\ d \notin members'
    BY <1>2 DEF FeedIInv, AbsentOK
  <1> QED
    BY <1>1, <1>2, <1>5, <1>6, ControlStep

LEMMA LeavingStep ==
    ASSUME FeedIInv, NEW c \in Client, Leaving(c)
    PROVE  FeedIInv'
  <1>1. /\ connection[c] # "ABSENT"
        /\ \E v \in {"CLOSED", "LEFT"} : connection' = [connection EXCEPT ![c] = v]
        /\ members' \subseteq members /\ channel' \subseteq channel /\ members' \subseteq Client
        /\ channel' \subseteq members' /\ following' = channel'
        /\ UNCHANGED <<queueVars, published, requestVars, hubChannel, got, opening>>
    BY DEF Leaving, Close, Unregister, UnregisterTimeout, Running, Removed, hubVars, FeedIInv, TypeOK
  <1>2. PICK v \in {"CLOSED", "LEFT"} : connection' = [connection EXCEPT ![c] = v]
    BY <1>1
  <1>3. connection \in [Client -> Connection] /\ connection' \in [Client -> Connection]
    BY <1>2 DEF FeedIInv, TypeOK, Connection
  <1>4. TypeOK'
    BY <1>1, <1>3 DEF FeedIInv, TypeOK, queueVars, engineVars, requestVars
  <1>5. \A d \in Client : connection'[d] = "ABSENT" => connection[d] = "ABSENT" /\ d \notin members'
    BY <1>1, <1>2, <1>3 DEF FeedIInv, AbsentOK
  <1>6. \A d \in Client : connection'[d] = "OPEN" => connection[d] \in {"OPEN", "ABSENT"}
    BY <1>2, <1>3
  <1> QED
    BY <1>1, <1>4, <1>5, <1>6, ControlStep

LEMMA UnsubscribeStep ==
    ASSUME FeedIInv, Unsubscribe
    PROVE  FeedIInv'
  <1>1. /\ unsubscribe # <<>> /\ unsubscribe' = Tail(unsubscribe)
        /\ channel' \subseteq channel /\ following' = channel'
        /\ UNCHANGED <<queueVars, published, members, subscribe, asked, hubChannel, connection, got, opening>>
    BY DEF Unsubscribe, clientVars, FeedIInv, TypeOK
  <1>2. unsubscribe' \in Seq(Client)
    BY <1>1 DEF FeedIInv, TypeOK
  <1>3. TypeOK'
    BY <1>1, <1>2 DEF FeedIInv, TypeOK, queueVars, engineVars
  <1>4. \A d \in Client : connection'[d] = "ABSENT" => connection[d] = "ABSENT" /\ d \notin members'
    BY <1>1 DEF FeedIInv, AbsentOK
  <1> QED
    BY <1>1, <1>3, <1>4, ControlStep

\* What a pipe of m to clients C changes.
LEMMA PipeFacts ==
    ASSUME FeedIInv, NEW C \in SUBSET members, NEW m \in Message, Pipe(C, m)
    PROVE  /\ \A c \in Client : c \in C /\ HasRoom(c) => hubChannel'[c] = Append(hubChannel[c], m)
           /\ \A c \in Client : c \notin C => hubChannel'[c] = hubChannel[c]
           /\ \A c \in Client : connection'[c] = "OPEN" =>
                connection[c] = "OPEN" /\ (c \in C => HasRoom(c))
           /\ \A c \in Client : \A e \in Emitted(c)' :
                e \in Emitted(c) \/ (m # ListPending /\ e = m.event)
           /\ ChannelsOK'
           /\ connection' \in [Client -> Connection]
           /\ \A c \in Client : Len(hubChannel'[c]) <= HubChannelSize
           /\ \A c \in Client : connection'[c] = "ABSENT" =>
                connection[c] = "ABSENT" /\ hubChannel'[c] = <<>>
  <1>1. /\ hubChannel' = [c \in Client |-> IF c \in C /\ HasRoom(c) THEN Append(hubChannel[c], m)
                                           ELSE hubChannel[c]]
        /\ connection' = [c \in Client |->
             IF c \in C /\ ~ HasRoom(c) /\ connection[c] = "OPEN" THEN "CANCELLED" ELSE connection[c]]
    BY DEF Pipe, Piped
  <1>2. /\ connection \in [Client -> Connection] /\ hubChannel \in [Client -> Seq(Message)]
        /\ \A c \in Client : Len(hubChannel[c]) <= HubChannelSize
    BY DEF FeedIInv, TypeOK, ChannelsOK
  <1>3. connection' \in [Client -> Connection]
    BY <1>1, <1>2 DEF Connection
  <1>4. PICK M : M = Message
    OBVIOUS
  <1>5. ASSUME NEW c \in Client
        PROVE  /\ hubChannel'[c] \in Seq(M) /\ Len(hubChannel'[c]) <= HubChannelSize
               /\ \A y \in Range(hubChannel'[c]) : y \in Range(hubChannel[c]) \/ y = m
    <2>1. PICK h : h = hubChannel[c]
      OBVIOUS
    <2>2. PICK g : g = hubChannel'[c]
      OBVIOUS
    <2>3. h \in Seq(M) /\ m \in M /\ Len(h) \in Nat /\ Len(h) <= HubChannelSize
      BY <1>2, <1>4, <2>1
    <2>4. CASE c \in C /\ HasRoom(c)
      <3>1. g = Append(h, m) /\ Len(h) < HubChannelSize
        BY <1>1, <2>1, <2>2, <2>4 DEF HasRoom
      <3>2. g \in Seq(M) /\ Len(g) = Len(h) + 1
        BY <2>3, <3>1, AppendFacts
      <3>3. \A y : y \in Range(g) <=> y \in Range(h) \/ y = m
        BY <2>3, <3>1, AppendRange, ZenonT(40)
      <3> QED
        BY <2>1, <2>2, <2>3, <3>1, <3>2, <3>3, FeedAssumption
    <2>5. CASE ~ (c \in C /\ HasRoom(c))
      <3>1. g = h
        BY <1>1, <2>1, <2>2, <2>5
      <3> QED
        BY <2>1, <2>2, <2>3, <3>1
    <2> QED
      BY <2>4, <2>5
  <1>6. ChannelsOK'
    <2>1. hubChannel' = [c \in Client |-> hubChannel'[c]]
      BY <1>1
    <2>2. hubChannel' \in [Client -> Seq(M)]
      BY <1>5, <2>1
    <2> QED
      BY <1>4, <2>2 DEF ChannelsOK, Message, ListPending
  <1>7. ASSUME NEW c \in Client, NEW e \in Emitted(c)'
        PROVE  e \in Emitted(c) \/ (m # ListPending /\ e = m.event)
    <2>1. PICK y \in Range(hubChannel'[c]) : y # ListPending /\ e = y.event
      BY <1>7 DEF Emitted, ListPending
    <2> QED
      BY <1>5, <2>1 DEF Emitted
  <1>8. ASSUME NEW c \in Client, connection'[c] = "ABSENT"
        PROVE  connection[c] = "ABSENT" /\ hubChannel'[c] = <<>>
    <2>1. connection[c] = "ABSENT"
      BY <1>1, <1>8
    <2>2. c \notin C /\ hubChannel[c] = <<>>
      BY <2>1 DEF FeedIInv, AbsentOK
    <2> QED
      BY <1>1, <2>1, <2>2
  <1>9. ASSUME NEW c \in Client, connection'[c] = "OPEN"
        PROVE  connection[c] = "OPEN" /\ (c \in C => HasRoom(c))
    BY <1>1, <1>9
  <1>10. ASSUME NEW c \in Client
         PROVE  /\ c \in C /\ HasRoom(c) => hubChannel'[c] = Append(hubChannel[c], m)
                /\ c \notin C => hubChannel'[c] = hubChannel[c]
    BY <1>1
  <1> QED
    BY <1>3, <1>5, <1>6, <1>7, <1>8, <1>9, <1>10

\* What is appended to a client's channel.
LEMMA ChannelAppended ==
    ASSUME FeedIInv, NEW c \in Client, NEW m \in Message,
           NEW h, h = hubChannel[c], NEW g, g = Append(h, m)
    PROVE  /\ h \in Seq(Message) /\ g \in Seq(Message)
           /\ Len(h) \in Nat /\ Len(g) = Len(h) + 1 /\ g # <<>>
           /\ (h = <<>> <=> Len(h) = 0)
           /\ \A i \in 1..Len(h) : g[i] = h[i] /\ h[i] \in Message
           /\ g[Len(g)] = m
  <1>1. PICK M : M = Message
    OBVIOUS
  <1>2. h \in Seq(M) /\ m \in M
    BY <1>1, Numbers
  <1>3. /\ g \in Seq(M) /\ Len(g) = Len(h) + 1 /\ g # <<>>
        /\ \A i \in 1..Len(h) : g[i] = h[i]
        /\ g[Len(g)] = m
    BY <1>2, AppendFacts
  <1>4. Len(h) \in Nat /\ (h = <<>> <=> Len(h) = 0)
    BY <1>2, RangeFacts
  <1>5. \A i \in 1..Len(h) : h[i] \in M
    BY <1>2
  <1> QED
    BY <1>1, <1>2, <1>3, <1>4, <1>5

\* The listing that a new subscriber is owed.
LEMMA ListPiped ==
    ASSUME FeedIInv, NEW c \in Client, ChannelOK(c), UNCHANGED <<got[c], skipped>>,
           hubChannel'[c] = Append(hubChannel[c], ListPending)
    PROVE  ChannelOK(c)'
  <1>1. PICK h : h = hubChannel[c]
    OBVIOUS
  <1>2. PICK g : g = hubChannel'[c]
    OBVIOUS
  <1>3. PICK m : m = ListPending
    OBVIOUS
  <1>4. m \in Message /\ g = Append(h, m)
    BY <1>1, <1>2, <1>3 DEF Message
  <1>5. /\ Len(h) \in Nat /\ Len(g) = Len(h) + 1 /\ g # <<>>
        /\ (h = <<>> <=> Len(h) = 0)
        /\ \A i \in 1..Len(h) : g[i] = h[i]
        /\ g[Len(g)] = m
    BY <1>1, <1>4, ChannelAppended
  <1>6. \A n, k : Adjacent(n, k)' <=> Adjacent(n, k)
    BY DEF Adjacent
  <1>7. \A n : Covers(c, n)' <=> Covers(c, n)
    BY DEF Covers, Sequences, Outdated
  <1>8. ASSUME NEW x \in 2..Len(g), g[x - 1] # m, g[x] # m
        PROVE  Adjacent(g[x - 1].event.sequence, g[x].event.sequence)
    <2>1. x # Len(g)
      BY <1>5, <1>8
    <2>2. x \in 2..Len(h) /\ x \in 1..Len(h) /\ x - 1 \in 1..Len(h)
      BY <1>5, <2>1
    <2>3. g[x] = h[x] /\ g[x - 1] = h[x - 1]
      BY <1>5, <2>2
    <2> QED
      BY <1>1, <1>3, <1>8, <2>2, <2>3 DEF ChannelOK
  <1>9. ASSUME g[1] # m PROVE Covers(c, g[1].event.sequence)
    <2>1. h # <<>>
      BY <1>5, <1>9
    <2>2. g[1] = h[1]
      BY <1>5, <2>1
    <2> QED
      BY <1>1, <1>3, <1>9, <2>1, <2>2 DEF ChannelOK
  <1> QED
    BY <1>2, <1>3, <1>5, <1>6, <1>7, <1>8, <1>9 DEF ChannelOK

\* A client that nothing is sent to and that gets nothing.
LEMMA OtherClient ==
    ASSUME FeedIInv, NothingLost, NEW c \in Client, connection[c] = "OPEN",
           UNCHANGED <<hubChannel[c], got[c], skipped, Upcoming>>, c \in channel' => c \in channel
    PROVE  ChannelOK(c)' /\ GapFree(c)' /\ OneBook(c)'
  <1>1. PICK u : u = Upcoming
    OBVIOUS
  <1>2. u \in Nat /\ u = Upcoming' /\ Passed(u, u)'
    BY <1>1, Numbers DEF Passed
  <1>3. /\ ChannelOK(c) /\ GapFree(c) /\ OneBook(c) /\ UNCHANGED <<hubChannel[c], got[c]>>
        /\ skipped \subseteq skipped'
    BY DEF NothingLost
  <1> QED
    BY <1>1, <1>2, <1>3, ClientKept

LEMMA SubscribeStep ==
    ASSUME FeedIInv, Subscribe
    PROVE  FeedIInv'
  <1>1. PICK c : c = Head(subscribe)
    OBVIOUS
  <1>2. /\ subscribe # <<>> /\ subscribe' = Tail(subscribe)
        /\ IF c \in members \ following
           THEN /\ channel' = channel \cup {c}
                /\ following' = following \cup {c}
                /\ Pipe({c}, ListPending)
           ELSE UNCHANGED <<channel, following, hubChannel, connection>>
        /\ UNCHANGED <<queueVars, published, members, unsubscribe, asked, got, opening>>
    BY <1>1 DEF Subscribe
  <1>3. subscribe' \in Seq(Client)
    BY <1>2 DEF FeedIInv, TypeOK
  <1>4. CASE c \notin members \ following
    <2>1. UNCHANGED <<channel, following, hubChannel, connection>>
      BY <1>2, <1>4
    <2>2. TypeOK'
      BY <1>2, <1>3, <2>1 DEF FeedIInv, TypeOK, queueVars, engineVars
    <2>3. \A d \in Client : connection'[d] = "ABSENT" => connection[d] = "ABSENT" /\ d \notin members'
      BY <1>2, <2>1 DEF FeedIInv, AbsentOK
    <2> QED
      BY <1>2, <2>1, <2>2, <2>3, ControlStep
  <1>5. CASE c \in members \ following
    <2>1. PICK C : C = {c}
      OBVIOUS
    <2>2. PICK m : m = ListPending
      OBVIOUS
    <2>3. C \in SUBSET members /\ m \in Message /\ Pipe(C, m) /\ c \in Client
      BY <1>2, <1>5, <2>1, <2>2 DEF Message, FeedIInv, TypeOK
    <2>4. channel' = channel \cup {c} /\ following' = following \cup {c}
      BY <1>2, <1>5
    <2>5. /\ \A d \in Client : d \in C /\ HasRoom(d) => hubChannel'[d] = Append(hubChannel[d], m)
          /\ \A d \in Client : d \notin C => hubChannel'[d] = hubChannel[d]
          /\ \A d \in Client : connection'[d] = "OPEN" =>
               connection[d] = "OPEN" /\ (d \in C => HasRoom(d))
      BY <2>3, PipeFacts
    <2>6. \A d \in Client : \A e \in Emitted(d)' :
                e \in Emitted(d) \/ (m # ListPending /\ e = m.event)
      BY <2>3, PipeFacts
    <2>7. /\ ChannelsOK' /\ connection' \in [Client -> Connection]
          /\ \A d \in Client : Len(hubChannel'[d]) <= HubChannelSize
          /\ \A d \in Client : connection'[d] = "ABSENT" =>
                connection[d] = "ABSENT" /\ hubChannel'[d] = <<>>
      BY <2>3, PipeFacts
    <2>8. TypeOK'
      BY <1>2, <1>3, <1>5, <2>3, <2>4, <2>7 DEF FeedIInv, TypeOK, queueVars, engineVars
    <2>9. AbsentOK'
      BY <1>2, <2>7 DEF FeedIInv, AbsentOK
    <2>10. \A d \in Client : Emitted(d)' \subseteq Emitted(d)
      BY <2>2, <2>6
    <2>11. /\ UNCHANGED <<engineVars, events, sequence, handling, list, redisErrors>>
           /\ UNCHANGED <<skipped, published>>
      BY <1>2 DEF queueVars, engineVars
    <2>12. NoBookSent' /\ Seen' \subseteq Seen
      BY <1>2, <2>10, <2>11 DEF FeedIInv, NoBookSent, Seen
    <2>13. UNCHANGED <<ToPublish, Upcoming>>
      BY <2>11 DEF ToPublish, Upcoming
    <2>14. ASSUME NothingLost PROVE StreamOK'
      BY <2>11, <2>13, <2>14, StreamKept DEF NothingLost
    <2>15. ASSUME NothingLost, NEW d \in Client, connection'[d] = "OPEN"
           PROVE  ChannelOK(d)' /\ GapFree(d)' /\ OneBook(d)'
      <3>1. ChannelOK(d) /\ GapFree(d) /\ OneBook(d) /\ connection[d] = "OPEN"
        BY <2>5, <2>15 DEF NothingLost
      <3>2. UNCHANGED <<got[d], skipped>>
        BY <1>2, <2>11
      <3>3. CASE d = c
        <4>1. hubChannel'[d] = Append(hubChannel[d], ListPending)
          BY <2>1, <2>2, <2>5, <2>15, <3>3
        <4>2. ChannelOK(d)'
          BY <3>1, <3>2, <4>1, ListPiped
        <4>3. GapFree(d)' /\ OneBook(d)'
          BY <3>1, <3>2 DEF GapFree, OneBook, Sequences, Outdated
        <4> QED
          BY <4>2, <4>3
      <3>4. CASE d # c
        <4>1. hubChannel'[d] = hubChannel[d] /\ (d \in channel' => d \in channel)
          BY <2>1, <2>4, <2>5, <3>4
        <4> QED
          BY <2>13, <2>15, <3>1, <3>2, <4>1, OtherClient
      <3> QED
        BY <3>3, <3>4
    <2> QED
      BY <2>7, <2>8, <2>9, <2>11, <2>12, <2>14, <2>15, ClientStep
  <1> QED
    BY <1>4, <1>5

\* The event that a follower is sent next.
LEMMA EventPiped ==
    ASSUME FeedIInv, NEW c \in channel, ChannelOK(c), UNCHANGED <<got[c], skipped>>,
           NEW e \in Event, e.sequence = Upcoming,
           NEW w, w = Upcoming', Adjacent(e.sequence, w),
           hubChannel'[c] = Append(hubChannel[c], Emit(e))
    PROVE  ChannelOK(c)'
  <1>1. PICK h : h = hubChannel[c]
    OBVIOUS
  <1>2. PICK g : g = hubChannel'[c]
    OBVIOUS
  <1>3. PICK m : m = Emit(e)
    OBVIOUS
  <1>4. m \in Message /\ m # ListPending /\ m.event = e /\ g = Append(h, m) /\ c \in Client
    BY <1>1, <1>2, <1>3, EmitFacts DEF FeedIInv, TypeOK
  <1>5. /\ Len(h) \in Nat /\ Len(g) = Len(h) + 1 /\ g # <<>>
        /\ (h = <<>> <=> Len(h) = 0)
        /\ \A i \in 1..Len(h) : g[i] = h[i]
        /\ g[Len(g)] = m
    BY <1>1, <1>4, ChannelAppended
  <1>6. \A n, k : Adjacent(n, k)' <=> Adjacent(n, k)
    BY DEF Adjacent
  <1>7. \A n : Covers(c, n)' <=> Covers(c, n)
    BY DEF Covers, Sequences, Outdated
  <1>8. ASSUME NEW x \in 2..Len(g), g[x - 1] # ListPending, g[x] # ListPending
        PROVE  Adjacent(g[x - 1].event.sequence, g[x].event.sequence)
    <2>1. CASE x = Len(g)
      <3>1. h # <<>> /\ x - 1 = Len(h) /\ Len(h) \in 1..Len(h) /\ g[x] = m
        BY <1>5, <2>1
      <3>2. g[x - 1] = h[Len(h)]
        BY <1>5, <3>1
      <3> QED
        BY <1>1, <1>4, <1>8, <3>1, <3>2 DEF ChannelOK
    <2>2. CASE x # Len(g)
      <3>1. x \in 2..Len(h) /\ x \in 1..Len(h) /\ x - 1 \in 1..Len(h)
        BY <1>5, <2>2
      <3>2. g[x] = h[x] /\ g[x - 1] = h[x - 1]
        BY <1>5, <3>1
      <3> QED
        BY <1>1, <1>8, <3>1, <3>2 DEF ChannelOK
    <2> QED
      BY <2>1, <2>2
  <1>9. ASSUME g[1] # ListPending PROVE Covers(c, g[1].event.sequence)
    <2>1. CASE h = <<>>
      <3>1. Len(g) = 1
        BY <1>5, <2>1
      <3>2. g[1] = m
        BY <1>5, <3>1
      <3> QED
        BY <1>1, <1>4, <2>1, <3>2 DEF ChannelOK
    <2>2. CASE h # <<>>
      <3>1. g[1] = h[1]
        BY <1>5, <2>2
      <3> QED
        BY <1>1, <1>9, <2>2, <3>1 DEF ChannelOK
    <2> QED
      BY <2>1, <2>2
  <1>10. g # <<>> /\ Adjacent(g[Len(g)].event.sequence, w)
    BY <1>4, <1>5
  <1> QED
    BY <1>2, <1>6, <1>7, <1>8, <1>9, <1>10 DEF ChannelOK

LEMMA ResponseStep ==
    ASSUME FeedIInv, Response
    PROVE  FeedIInv'
  <1>1. PICK p : p = published
    OBVIOUS
  <1>2. PICK q : q = published'
    OBVIOUS
  <1>3. PICK e : e = p[1]
    OBVIOUS
  <1>4. PICK m : m = Emit(e)
    OBVIOUS
  <1>5. PICK C : C = channel
    OBVIOUS
  <1>6. p \in Seq(Event) /\ p # <<>> /\ q = Tail(p)
    BY <1>1, <1>2 DEF Response, FeedIInv, TypeOK
  <1>7. /\ q \in Seq(Event) /\ Len(q) = Len(p) - 1 /\ Len(p) \in Nat \ {0}
        /\ \A i \in 1..Len(q) : q[i] = p[i + 1] /\ i + 1 \in 1..Len(p)
        /\ Head(p) = e /\ e \in Event
        /\ (q = <<>> <=> Len(q) = 0)
    <2>1. PICK X : X = Event
      OBVIOUS
    <2>2. p \in Seq(X)
      BY <1>6, <2>1
    <2>3. /\ q \in Seq(X) /\ Len(q) = Len(p) - 1 /\ Len(p) \in Nat \ {0}
          /\ \A i \in 1..Len(q) : q[i] = p[i + 1] /\ i + 1 \in 1..Len(p)
          /\ Head(p) = p[1] /\ p[1] \in X
      BY <1>6, <2>2, TailFacts
    <2>4. q = <<>> <=> Len(q) = 0
      BY <2>3, RangeFacts
    <2> QED
      BY <1>3, <2>1, <2>3, <2>4
  <1>8. Range(q) \subseteq Range(p) /\ e \in Range(p)
    <2>1. \A y : y \in Range(p) <=> y \in Range(q) \/ y = p[1]
      BY <1>6, TailRange
    <2> QED
      BY <1>3, <2>1
  <1>9. m \in Message /\ m # ListPending /\ m.event = e
    BY <1>4, <1>7, EmitFacts
  <1>10. /\ C \in SUBSET members /\ C \subseteq Client /\ Pipe(C, m)
         /\ UNCHANGED <<queueVars, hubVars, requestVars, got, opening>>
    <2>1. channel \cap members = channel /\ channel \subseteq members /\ members \subseteq Client
      BY DEF FeedIInv, TypeOK
    <2>2. Pipe(channel \cap members, Emit(Head(published)))
      BY DEF Response
    <2>3. Emit(Head(published)) = m
      BY <1>1, <1>4, <1>7
    <2>4. Pipe(C, m)
      BY <1>5, <2>1, <2>2, <2>3
    <2> QED
      BY <1>5, <2>1, <2>4 DEF Response
  <1>11. /\ UNCHANGED <<engineVars, events, sequence, handling, list, redisErrors, cached>>
         /\ UNCHANGED <<skipped, version, started, attached, restarts>>
         /\ UNCHANGED <<members, following, channel, subscribe, unsubscribe, asked, got, opening>>
    BY <1>10 DEF queueVars, engineVars, hubVars, requestVars
  <1>12. /\ \A d \in Client : d \in C /\ HasRoom(d) => hubChannel'[d] = Append(hubChannel[d], m)
         /\ \A d \in Client : d \notin C => hubChannel'[d] = hubChannel[d]
         /\ \A d \in Client : connection'[d] = "OPEN" =>
              connection[d] = "OPEN" /\ (d \in C => HasRoom(d))
    BY <1>9, <1>10, PipeFacts
  <1>13. \A d \in Client : \A f \in Emitted(d)' :
              f \in Emitted(d) \/ (m # ListPending /\ f = m.event)
    BY <1>9, <1>10, PipeFacts
  <1>14. /\ ChannelsOK' /\ connection' \in [Client -> Connection]
         /\ \A d \in Client : Len(hubChannel'[d]) <= HubChannelSize
         /\ \A d \in Client : connection'[d] = "ABSENT" =>
               connection[d] = "ABSENT" /\ hubChannel'[d] = <<>>
    BY <1>9, <1>10, PipeFacts
  <1>15. TypeOK'
    BY <1>2, <1>7, <1>11, <1>14 DEF FeedIInv, TypeOK
  <1>16. AbsentOK'
    BY <1>11, <1>14 DEF FeedIInv, AbsentOK
  <1>17. \A d \in Client : \A f \in Emitted(d)' : f \in Emitted(d) \/ f = e
    BY <1>9, <1>13
  <1>18. e \in Seen /\ e.type # "BOOK-T0"
    <2>1. 1 \in DOMAIN p
      BY <1>7
    <2> QED
      BY <1>1, <1>3, <1>8, <2>1 DEF Seen, FeedIInv, NoBookSent
  <1>19. NoBookSent'
    <2>1. \A x \in DOMAIN q : q[x].type # "BOOK-T0"
      <3>1. \A x \in 1..Len(p) : p[x].type # "BOOK-T0"
        BY <1>1, <1>7 DEF FeedIInv, NoBookSent
      <3> QED
        BY <1>7, <3>1
    <2> QED
      BY <1>2, <1>17, <1>18, <2>1 DEF FeedIInv, NoBookSent
  <1>20. Seen' \subseteq Seen
    <2>1. Range(published') \subseteq Range(published)
      BY <1>1, <1>2, <1>8
    <2> QED
      BY <1>11, <1>17, <1>18, <2>1 DEF Seen
  <1>21. PICK t : t = ToPublish
    OBVIOUS
  <1>22. PICK w : w = Upcoming'
    OBVIOUS
  <1>23. e.sequence = Upcoming /\ ToPublish' = t
    BY <1>1, <1>3, <1>6, <1>11, <1>21 DEF Upcoming, ToPublish
  <1>24. ASSUME NothingLost PROVE Adjacent(e.sequence, w)
    <2>1. CASE q = <<>>
      <3>1. Len(p) = 1 /\ w = t
        BY <1>2, <1>7, <1>22, <1>23, <2>1 DEF Upcoming
      <3> QED
        BY <1>1, <1>3, <1>6, <1>21, <1>24, <3>1 DEF NothingLost, StreamOK
    <2>2. CASE q # <<>>
      <3>1. 1 \in 1..Len(q)
        BY <1>7, <2>2
      <3>2. q[1] = p[2] /\ 2 \in 2..Len(p)
        BY <1>7, <3>1
      <3>3. w = p[2].sequence
        BY <1>2, <1>22, <2>2, <3>2 DEF Upcoming
      <3>4. Adjacent(p[2 - 1].sequence, p[2].sequence)
        BY <1>1, <1>24, <3>2 DEF NothingLost, StreamOK
      <3> QED
        BY <1>3, <3>3, <3>4
    <2> QED
      BY <2>1, <2>2
  <1>25. ASSUME NothingLost PROVE StreamOK'
    <2>1. \A x \in 2..Len(q) : Adjacent(q[x - 1].sequence, q[x].sequence)
      <3> SUFFICES ASSUME NEW x \in 2..Len(q) PROVE Adjacent(q[x - 1].sequence, q[x].sequence)
        OBVIOUS
      <3>1. x \in 1..Len(q) /\ x - 1 \in 1..Len(q) /\ (x - 1) + 1 = x /\ (x + 1) - 1 = x
            /\ x + 1 \in 2..Len(p)
        BY <1>7
      <3>2. q[x] = p[x + 1] /\ q[x - 1] = p[x]
        BY <1>7, <3>1
      <3>3. Adjacent(p[(x + 1) - 1].sequence, p[x + 1].sequence)
        BY <1>1, <1>25, <3>1 DEF NothingLost, StreamOK
      <3> QED
        BY <3>1, <3>2, <3>3
    <2>2. q # <<>> => Adjacent(q[Len(q)].sequence, t)
      <3> SUFFICES ASSUME q # <<>> PROVE Adjacent(q[Len(q)].sequence, t)
        OBVIOUS
      <3>1. Len(q) \in 1..Len(q) /\ Len(q) + 1 = Len(p)
        BY <1>7
      <3>2. q[Len(q)] = p[Len(p)]
        BY <1>7, <3>1
      <3> QED
        BY <1>1, <1>6, <1>21, <1>25, <3>2 DEF NothingLost, StreamOK
    <2> QED
      BY <1>2, <1>11, <1>23, <2>1, <2>2 DEF StreamOK, Adjacent
  <1>26. ASSUME NothingLost, NEW d \in Client, connection'[d] = "OPEN"
         PROVE  ChannelOK(d)' /\ GapFree(d)' /\ OneBook(d)'
    <2>1. ChannelOK(d) /\ GapFree(d) /\ OneBook(d) /\ connection[d] = "OPEN"
      BY <1>12, <1>26 DEF NothingLost
    <2>2. UNCHANGED <<got[d], skipped>>
      BY <1>11
    <2>3. GapFree(d)' /\ OneBook(d)'
      BY <2>1, <2>2 DEF GapFree, OneBook, Sequences, Outdated
    <2>4. CASE d \in channel
      <3>1. hubChannel'[d] = Append(hubChannel[d], Emit(e))
        BY <1>4, <1>5, <1>12, <1>26, <2>4
      <3>2. Adjacent(e.sequence, w)
        BY <1>24, <1>26
      <3>3. ChannelOK(d)'
        BY <1>7, <1>22, <1>23, <2>1, <2>2, <2>4, <3>1, <3>2, EventPiped
      <3> QED
        BY <2>3, <3>3
    <2>5. CASE d \notin channel
      <3>1. hubChannel'[d] = hubChannel[d] /\ d \notin channel'
        BY <1>5, <1>11, <1>12, <2>5
      <3>2. \A n : Covers(d, n)' <=> Covers(d, n)
        BY <2>2 DEF Covers, Sequences, Outdated
      <3>3. \A n, k : Adjacent(n, k)' <=> Adjacent(n, k)
        BY <2>2 DEF Adjacent
      <3>4. ChannelOK(d)'
        BY <2>1, <3>1, <3>2, <3>3 DEF ChannelOK
      <3> QED
        BY <2>3, <3>4
    <2> QED
      BY <2>4, <2>5
  <1> QED
    BY <1>11, <1>14, <1>15, <1>16, <1>19, <1>20, <1>25, <1>26, ClientStep

\* The client takes the first message of its channel.
LEMMA TakenSeq ==
    ASSUME FeedIInv, NEW c \in Client, NEW h, h = hubChannel[c], h # <<>>, NEW g, g = Tail(h)
    PROVE  /\ h \in Seq(Message) /\ g \in Seq(Message)
           /\ Len(g) = Len(h) - 1 /\ Len(h) \in Nat \ {0}
           /\ \A i \in 1..Len(g) : g[i] = h[i + 1] /\ i + 1 \in 1..Len(h)
           /\ Head(h) = h[1] /\ h[1] \in Message /\ (g = <<>> <=> Len(g) = 0)
  <1>1. PICK M : M = Message
    OBVIOUS
  <1>2. h \in Seq(M)
    BY <1>1 DEF FeedIInv, ChannelsOK
  <1>3. /\ g \in Seq(M) /\ Len(g) = Len(h) - 1 /\ Len(h) \in Nat \ {0}
        /\ \A i \in 1..Len(g) : g[i] = h[i + 1] /\ i + 1 \in 1..Len(h)
        /\ Head(h) = h[1] /\ h[1] \in M
    BY <1>2, TailFacts
  <1>4. g = <<>> <=> Len(g) = 0
    BY <1>3, RangeFacts
  <1> QED
    BY <1>1, <1>2, <1>3, <1>4

LEMMA TakenFacts ==
    ASSUME FeedIInv, NEW c \in Client, NEW h, h = hubChannel[c], h # <<>>,
           NEW g, g = Tail(h), hubChannel' = [hubChannel EXCEPT ![c] = g]
    PROVE  /\ \A i \in 1..Len(h) : h[i] # ListPending => h[i].event \in Emitted(c)
           /\ hubChannel'[c] = g /\ \A d \in Client : d # c => hubChannel'[d] = hubChannel[d]
           /\ ChannelsOK' /\ \A d \in Client : Emitted(d)' \subseteq Emitted(d)
           /\ \A d \in Client : Len(hubChannel'[d]) <= HubChannelSize
  <1>1. PICK M : M = Message
    OBVIOUS
  <1>2. h \in Seq(M) /\ hubChannel \in [Client -> Seq(M)]
    BY <1>1 DEF FeedIInv, ChannelsOK
  <1>3. g \in Seq(M) /\ Len(g) = Len(h) - 1 /\ Len(h) \in Nat \ {0}
    BY <1>1, TakenSeq
  <1>5. \A i \in 1..Len(h) : h[i] \in Range(h)
    BY <1>2, RangeFacts
  <1>6. \A i \in 1..Len(h) : h[i] # ListPending => h[i].event \in Emitted(c)
    BY <1>5 DEF Emitted
  <1>7. hubChannel'[c] = g /\ \A d \in Client : d # c => hubChannel'[d] = hubChannel[d]
    BY <1>2
  <1>8. ChannelsOK'
    <2>1. hubChannel' \in [Client -> Seq(M)]
      BY <1>2, <1>3
    <2> QED
      BY <1>1, <2>1 DEF ChannelsOK, Message, ListPending
  <1>9. ASSUME NEW d \in Client PROVE Emitted(d)' \subseteq Emitted(d)
    <2>1. CASE d = c
      <3>1. \A y : y \in Range(h) <=> y \in Range(g) \/ y = h[1]
        BY <1>2, TailRange
      <3>2. Range(hubChannel'[d]) \subseteq Range(hubChannel[d])
        BY <1>7, <2>1, <3>1
      <3> QED
        BY <3>2 DEF Emitted, ListPending
    <2>2. CASE d # c
      <3>1. hubChannel'[d] = hubChannel[d]
        BY <1>7, <2>2
      <3> QED
        BY <3>1 DEF Emitted, ListPending
    <2> QED
      BY <2>1, <2>2
  <1>10. \A d \in Client : Len(hubChannel'[d]) <= HubChannelSize
    <2>1. \A d \in Client : Len(hubChannel[d]) <= HubChannelSize
      BY DEF FeedIInv, TypeOK
    <2>2. Len(g) <= HubChannelSize
      <3>1. Len(h) <= HubChannelSize
        BY <2>1
      <3> QED
        BY <1>3, <3>1, FeedAssumption
    <2> QED
      BY <1>7, <2>1, <2>2
  <1> QED
    BY <1>1, <1>3, <1>6, <1>7, <1>8, <1>9, <1>10

\* What stays in the channel follows on what the client has then.
LEMMA ChannelTaken ==
    ASSUME FeedIInv, NEW c \in Client, ChannelOK(c), NEW h, h = hubChannel[c], h # <<>>,
           NEW g, g = Tail(h), hubChannel' = [hubChannel EXCEPT ![c] = g],
           UNCHANGED <<skipped, channel, Upcoming>>, NEW w, w = Upcoming,
           g # <<>> /\ g[1] # ListPending => Covers(c, g[1].event.sequence)',
           c \in channel /\ g = <<>> => Covers(c, w)'
    PROVE  ChannelOK(c)'
  <1>1. /\ Len(g) = Len(h) - 1 /\ Len(h) \in Nat \ {0}
        /\ \A i \in 1..Len(g) : g[i] = h[i + 1] /\ i + 1 \in 1..Len(h)
        /\ (g = <<>> <=> Len(g) = 0)
    <2>1. h \in Seq(Message) /\ g \in Seq(Message)
      BY TakenSeq
    <2>2. Len(g) = Len(h) - 1 /\ Len(h) \in Nat \ {0}
      BY TakenSeq
    <2>3. \A i \in 1..Len(g) : g[i] = h[i + 1] /\ i + 1 \in 1..Len(h)
      BY TakenSeq
    <2>4. (g = <<>> <=> Len(g) = 0)
      BY TakenSeq
    <2> QED
      BY <2>1, <2>2, <2>3, <2>4
  <1>0. hubChannel'[c] = g
    BY DEF FeedIInv, ChannelsOK
  <1>2. \A n, k : Adjacent(n, k)' <=> Adjacent(n, k)
    BY DEF Adjacent
  <1>3. ASSUME NEW x \in 2..Len(g), g[x - 1] # ListPending, g[x] # ListPending
        PROVE  Adjacent(g[x - 1].event.sequence, g[x].event.sequence)
    <2>1. x \in 1..Len(g) /\ x - 1 \in 1..Len(g) /\ (x - 1) + 1 = x /\ (x + 1) - 1 = x
          /\ x + 1 \in 2..Len(h)
      BY <1>1
    <2>2. g[x] = h[x + 1] /\ g[x - 1] = h[x]
      BY <1>1, <2>1
    <2>3. PICK y \in 2..Len(h) : y = x + 1 /\ y - 1 = x
      BY <2>1
    <2>4. h[y - 1] # ListPending /\ h[y] # ListPending
      BY <1>3, <2>2, <2>3
    <2>5. Adjacent(h[y - 1].event.sequence, h[y].event.sequence)
      BY <2>4 DEF ChannelOK
    <2> QED
      BY <2>2, <2>3, <2>5
  <1>4. ASSUME c \in channel, g # <<>>, g[Len(g)] # ListPending
        PROVE  Adjacent(g[Len(g)].event.sequence, w)
    <2>1. Len(g) \in 1..Len(g) /\ Len(g) + 1 = Len(h)
      BY <1>1, <1>4
    <2>2. g[Len(g)] = h[Len(h)]
      BY <1>1, <2>1
    <2> QED
      BY <1>4, <2>2 DEF ChannelOK
  <1> QED
    BY <1>0, <1>1, <1>2, <1>3, <1>4 DEF ChannelOK

\* An event that the client was covered for.
LEMMA CoversNext ==
    ASSUME FeedIInv, NEW c \in Client, NEW e \in Event, e.type # "BOOK-T0",
           got' = [got EXCEPT ![c] = got[c] \cup {e}], UNCHANGED skipped,
           Covers(c, e.sequence), NEW m \in Nat, Adjacent(e.sequence, m)
    PROVE  Covers(c, m)'
  <1>1. PICK n : n = e.sequence
    OBVIOUS
  <1>2. n \in Nat /\ n < m /\ \A k \in (n + 1)..(m - 1) : k \in skipped
    BY <1>1 DEF Event, Adjacent
  <1>3. /\ got'[c] = got[c] \cup {e} /\ Sequences(c) \subseteq Nat
    BY Numbers DEF FeedIInv, TypeOK
  <1>4. Sequences(c)' = Sequences(c) \cup {n}
    BY <1>1, <1>3 DEF Sequences
  <1>5. \A i : Outdated(c, i)' <=> Outdated(c, i)
    BY <1>3 DEF Outdated
  <1>6. ASSUME NEW i \in Sequences(c) \cup {n}, ~ Outdated(c, i), NEW k \in i..(m - 1)
        PROVE  k \in skipped \cup Sequences(c) \cup {n}
    <2>1. i \in Nat /\ k \in Nat
      BY <1>2, <1>3, <1>6
    <2>2. CASE k < n
      <3>1. i \in Sequences(c) /\ k \in i..(n - 1)
        BY <1>2, <1>6, <2>1, <2>2
      <3> QED
        BY <1>1, <1>6, <3>1 DEF Covers
    <2>3. CASE k >= n
      BY <1>2, <1>6, <2>1, <2>3
    <2> QED
      BY <1>2, <2>1, <2>2, <2>3
  <1>7. ASSUME NEW i \in Sequences(c) \cup {n}
        PROVE  i < m \/ \E f \in got'[c] : f.type = "BOOK-T0"
    <2>1. CASE i \in Sequences(c)
      <3>1. i < n \/ \E f \in got[c] : f.type = "BOOK-T0"
        BY <1>1, <2>1 DEF Covers
      <3>2. i \in Nat
        BY <1>3, <2>1
      <3> QED
        BY <1>2, <1>3, <3>1, <3>2
    <2>2. CASE i = n
      BY <1>2, <2>2
    <2> QED
      BY <1>7, <2>1, <2>2
  <1> QED
    BY <1>4, <1>5, <1>6, <1>7 DEF Covers

LEMMA GapFreeNext ==
    ASSUME FeedIInv, NEW c \in Client, NEW e \in Event, e.type # "BOOK-T0",
           got' = [got EXCEPT ![c] = got[c] \cup {e}], UNCHANGED skipped,
           Covers(c, e.sequence), GapFree(c), OneBook(c)
    PROVE  GapFree(c)' /\ OneBook(c)'
  <1>1. PICK n : n = e.sequence
    OBVIOUS
  <1>2. n \in Nat
    BY <1>1 DEF Event
  <1>3. /\ got'[c] = got[c] \cup {e} /\ Sequences(c) \subseteq Nat /\ got[c] \subseteq Event
    BY Numbers DEF FeedIInv, TypeOK
  <1>4. Sequences(c)' = Sequences(c) \cup {n}
    BY <1>1, <1>3 DEF Sequences
  <1>5. \A i : Outdated(c, i)' <=> Outdated(c, i)
    BY <1>3 DEF Outdated
  <1>6. OneBook(c)'
    BY <1>3 DEF OneBook
  <1>7. ASSUME NEW i \in Sequences(c) \cup {n}, NEW j \in Sequences(c) \cup {n}, ~ Outdated(c, i),
               NEW k \in i..j
        PROVE  k \in skipped \cup Sequences(c) \cup {n}
    <2>1. i \in Nat /\ j \in Nat /\ k \in Nat /\ i <= k /\ k <= j
      BY <1>2, <1>3, <1>7
    <2>2. CASE i \in Sequences(c) /\ j \in Sequences(c)
      BY <1>7, <2>2 DEF GapFree
    <2>3. CASE i \in Sequences(c) /\ j = n
      <3>1. k = n \/ k \in i..(n - 1)
        BY <1>2, <2>1, <2>3
      <3> QED
        BY <1>1, <1>7, <2>3, <3>1 DEF Covers
    <2>4. CASE i = n /\ j = n
      BY <1>2, <2>1, <2>4
    <2>5. CASE i = n /\ j \in Sequences(c) /\ j < n
      BY <1>2, <2>1, <2>5
    <2>6. CASE i = n /\ j \in Sequences(c) /\ ~ j < n
      <3>1. PICK b \in got[c] : b.type = "BOOK-T0"
        BY <1>1, <2>6 DEF Covers
      <3>2. b.sequence \in Nat /\ b.sequence \in Sequences(c)
        BY <1>3 DEF Sequences, Event
      <3>3. ~ n < b.sequence
        BY <1>7, <2>6, <3>1 DEF Outdated
      <3>4. ~ Outdated(c, b.sequence)
        <4> SUFFICES ASSUME NEW f \in got[c], f.type = "BOOK-T0", b.sequence < f.sequence PROVE FALSE
          BY DEF Outdated
        <4>1. f = b
          BY <3>1 DEF OneBook
        <4> QED
          BY <3>2, <4>1
      <3>5. k \in (b.sequence)..j
        BY <1>2, <2>1, <2>6, <3>2, <3>3
      <3> QED
        BY <2>6, <3>2, <3>4, <3>5 DEF GapFree
    <2> QED
      BY <1>7, <2>2, <2>3, <2>4, <2>5, <2>6
  <1> QED
    BY <1>4, <1>5, <1>6, <1>7 DEF GapFree

\* What a client has that was given the list as it is.
LEMMA ListCovers ==
    ASSUME FeedIInv, ListOK, NEW c \in Client, got' = [got EXCEPT ![c] = Range(list)],
           UNCHANGED skipped
    PROVE  /\ \A m \in Nat : m <= sequence => Covers(c, m)'
           /\ GapFree(c)' /\ OneBook(c)'
  <1>1. PICK l : l = list
    OBVIOUS
  <1>2. l \in Seq(Event) /\ Len(l) \in Nat /\ DOMAIN l = 1..Len(l) /\ sequence \in Nat
    BY <1>1 DEF FeedIInv, TypeOK
  <1>3. got'[c] = Range(l)
    BY <1>1 DEF FeedIInv, TypeOK
  <1>4. CASE l = <<>>
    <2>1. got'[c] = {}
      BY <1>3, <1>4 DEF Range
    <2> QED
      BY <2>1 DEF Covers, GapFree, OneBook, Sequences
  <1>5. CASE l # <<>>
    <2>1. PICK n : n = l[1].sequence
      OBVIOUS
    <2>2. Len(l) \in Nat \ {0}
      BY <1>2, <1>5
    <2>3. /\ n \in Nat /\ l[1].type = "BOOK-T0"
          /\ \A x \in 2..Len(l) : l[x].type = "ORDER"
          /\ \A x \in 1..Len(l) : l[x].sequence = n + x - 1
          /\ \A k \in (n + Len(l))..(sequence - 1) : k \in skipped
      <3>1. l[1] \in Event
        BY <1>2, <2>2
      <3> QED
        BY <1>1, <1>5, <2>1, <3>1 DEF ListOK, Event
    <2>4. Sequences(c)' = n..(n + Len(l) - 1)
      <3>1. \A i \in Sequences(c)' : i \in n..(n + Len(l) - 1)
        <4> SUFFICES ASSUME NEW x \in 1..Len(l) PROVE l[x].sequence \in n..(n + Len(l) - 1)
          BY <1>2, <1>3 DEF Sequences, Range
        <4> QED
          BY <1>2, <2>3
      <3>2. \A i \in n..(n + Len(l) - 1) : i \in Sequences(c)'
        <4> SUFFICES ASSUME NEW i \in n..(n + Len(l) - 1) PROVE i \in Sequences(c)'
          OBVIOUS
        <4>1. i - n + 1 \in 1..Len(l)
          BY <1>2, <2>3
        <4>2. PICK x \in 1..Len(l) : x = i - n + 1
          BY <4>1
        <4>3. l[x].sequence = i
          <5>1. n + x - 1 = i /\ l[x].sequence = n + x - 1
            BY <1>2, <2>3, <4>2
          <5> QED
            BY <5>1
        <4>4. l[x] \in Range(l)
          BY <1>2 DEF Range
        <4> QED
          BY <1>3, <4>3, <4>4 DEF Sequences
      <3> QED
        BY <3>1, <3>2
    <2>5. l[1] \in got'[c] /\ \A e \in got'[c] : e.type = "BOOK-T0" => e = l[1]
      <3>1. l[1] \in Range(l)
        BY <1>2, <2>2 DEF Range
      <3>2. ASSUME NEW x \in 1..Len(l), l[x].type = "BOOK-T0" PROVE l[x] = l[1]
        <4>1. x = 1 \/ x \in 2..Len(l)
          BY <2>2
        <4> QED
          BY <2>3, <3>2, <4>1
      <3> QED
        BY <1>2, <1>3, <3>1, <3>2 DEF Range
    <2>6. OneBook(c)'
      BY <2>5 DEF OneBook
    <2>7. GapFree(c)'
      <3>1. \A i, j \in n..(n + Len(l) - 1) : \A k \in i..j : k \in n..(n + Len(l) - 1)
        BY <1>2, <2>3
      <3> QED
        BY <2>4, <3>1 DEF GapFree
    <2>8. ASSUME NEW m \in Nat, m <= sequence PROVE Covers(c, m)'
      <3>1. ASSUME NEW i \in n..(n + Len(l) - 1), NEW k \in i..(m - 1)
            PROVE  k \in skipped \cup (n..(n + Len(l) - 1))
        <4>1. CASE k < n + Len(l)
          BY <1>2, <2>3, <3>1, <4>1
        <4>2. CASE ~ k < n + Len(l)
          <5>1. k \in (n + Len(l))..(sequence - 1)
            BY <1>2, <2>3, <2>8, <3>1, <4>2
          <5> QED
            BY <2>3, <5>1
        <4> QED
          BY <4>1, <4>2
      <3> QED
        BY <2>3, <2>4, <2>5, <3>1 DEF Covers
    <2> QED
      BY <2>6, <2>7, <2>8
  <1> QED
    BY <1>4, <1>5

\* What taking a message leaves alone.
LEMMA LoopFacts ==
    ASSUME FeedIInv, NEW c \in Client,
           UNCHANGED <<engineVars, events, sequence, handling, list, cached,
                       published, hubVars, requestVars>>
    PROVE  /\ UNCHANGED <<version, started, attached, restarts, skipped, members, following, channel,
                          subscribe, unsubscribe, asked>>
           /\ UNCHANGED <<ToPublish, Upcoming>>
           /\ NothingLost => StreamOK'
  <1>1. /\ UNCHANGED <<version, started, attached, restarts, skipped, members, following, channel,
                       subscribe, unsubscribe, asked>>
    BY DEF engineVars, hubVars, requestVars
  <1>2. ToPublish' = ToPublish
    BY DEF ToPublish
  <1>3. Upcoming' = Upcoming
    BY <1>2 DEF Upcoming
  <1>4. NothingLost => StreamOK'
    BY <1>1, <1>2, StreamKept DEF NothingLost
  <1> QED
    BY <1>1, <1>2, <1>3, <1>4

LEMMA EmitEventStep ==
    ASSUME FeedIInv, NEW c \in Client, Running(c), EmitEvent(c),
           hubChannel' = [hubChannel EXCEPT ![c] = Tail(@)],
           UNCHANGED <<engineVars, events, sequence, handling, list, cached,
                       published, hubVars, requestVars>>
    PROVE  FeedIInv'
  <1>1. PICK h : h = hubChannel[c]
    OBVIOUS
  <1>2. PICK g : g = Tail(h)
    OBVIOUS
  <1>3. PICK e : e = h[1].event
    OBVIOUS
  <1>4. h # <<>> /\ hubChannel' = [hubChannel EXCEPT ![c] = g]
    BY <1>1, <1>2 DEF EmitEvent
  <1>5. /\ g \in Seq(Message) /\ Len(g) = Len(h) - 1 /\ Len(h) \in Nat \ {0}
        /\ \A i \in 1..Len(g) : g[i] = h[i + 1] /\ i + 1 \in 1..Len(h)
        /\ Head(h) = h[1] /\ h[1] \in Message /\ (g = <<>> <=> Len(g) = 0)
    <2>1. h \in Seq(Message) /\ g \in Seq(Message)
      BY <1>1, <1>2, <1>4, TakenSeq
    <2>2. Len(g) = Len(h) - 1 /\ Len(h) \in Nat \ {0}
      BY <1>1, <1>2, <1>4, TakenSeq
    <2>3. \A i \in 1..Len(g) : g[i] = h[i + 1] /\ i + 1 \in 1..Len(h)
      BY <1>1, <1>2, <1>4, TakenSeq
    <2>4. Head(h) = h[1] /\ h[1] \in Message /\ (g = <<>> <=> Len(g) = 0)
      BY <1>1, <1>2, <1>4, TakenSeq
    <2> QED
      BY <2>1, <2>2, <2>3, <2>4
  <1>6. /\ \A i \in 1..Len(h) : h[i] # ListPending => h[i].event \in Emitted(c)
        /\ ChannelsOK' /\ \A d \in Client : Emitted(d)' \subseteq Emitted(d)
        /\ \A d \in Client : Len(hubChannel'[d]) <= HubChannelSize
    BY <1>1, <1>2, <1>4, TakenFacts, ZenonT(40)
  <1>7. \A d \in Client : d # c => hubChannel'[d] = hubChannel[d]
    BY <1>4
  <1>8. /\ h[1] # ListPending
        /\ got' = [got EXCEPT ![c] = got[c] \cup {e}]
        /\ opening' = [opening EXCEPT ![c] = IF opening[c] = "NONE" THEN e.type ELSE opening[c]]
        /\ UNCHANGED <<connection, redisErrors>>
    BY <1>1, <1>3, <1>5 DEF EmitEvent
  <1>9. e \in Event /\ e \in Emitted(c) /\ e.type # "BOOK-T0" /\ e.type \in EventType
    <2>1. 1 \in 1..Len(h)
      BY <1>5
    <2>2. e \in Emitted(c)
      BY <1>3, <1>6, <1>8, <2>1
    <2>3. e \in Event
      BY <2>2, SeenEvents
    <2> QED
      BY <2>2, <2>3 DEF FeedIInv, NoBookSent, Event
  <1>10. /\ UNCHANGED <<version, started, attached, restarts, skipped, members, following, channel,
                        subscribe, unsubscribe, asked>>
         /\ UNCHANGED <<ToPublish, Upcoming>>
         /\ NothingLost => StreamOK'
    BY LoopFacts
  <1>11. got \in [Client -> SUBSET Event] /\ got' \in [Client -> SUBSET Event]
    BY <1>8, <1>9 DEF FeedIInv, TypeOK
  <1>12. opening' \in [Client -> EventType \cup {"NONE", "NO-MARKET"}]
    BY <1>8, <1>9 DEF FeedIInv, TypeOK
  <1>13. TypeOK'
    BY <1>6, <1>8, <1>10, <1>11, <1>12 DEF FeedIInv, TypeOK
  <1>14. AbsentOK'
    <2>1. connection[c] # "ABSENT"
      BY DEF Running
    <2> QED
      BY <1>7, <1>8, <1>10, <1>11, <2>1 DEF FeedIInv, AbsentOK
  <1>15. NoBookSent'
    BY <1>6 DEF FeedIInv, NoBookSent
  <1>16. Seen' \subseteq Seen
    <2>1. \A d \in Client : got'[d] \subseteq got[d] \cup Emitted(d)
      BY <1>8, <1>9, <1>11
    <2> QED
      BY <1>6, <2>1 DEF Seen
  <1>17. PICK w : w = Upcoming
    OBVIOUS
  <1>18. ASSUME NothingLost, NEW d \in Client, connection'[d] = "OPEN"
         PROVE  ChannelOK(d)' /\ GapFree(d)' /\ OneBook(d)'
    <2>1. ChannelOK(d) /\ GapFree(d) /\ OneBook(d) /\ connection[d] = "OPEN"
      BY <1>8, <1>18 DEF NothingLost
    <2>2. CASE d # c
      BY <1>7, <1>8, <1>10, <1>11, <1>18, <2>1, <2>2, OtherClient
    <2>3. CASE d = c
      <3>1. Covers(c, e.sequence)
        BY <1>1, <1>3, <1>4, <1>8, <2>1, <2>3 DEF ChannelOK
      <3>2. GapFree(c)' /\ OneBook(c)'
        BY <1>8, <1>9, <1>10, <2>1, <2>3, <3>1, GapFreeNext
      <3>3. ASSUME g # <<>>, g[1] # ListPending PROVE Covers(c, g[1].event.sequence)'
        <4>1. PICK m : m = g[1].event.sequence
          OBVIOUS
        <4>2. 1 \in 1..Len(g) /\ 2 \in 2..Len(h) /\ 2 \in 1..Len(h) /\ 2 - 1 = 1
          BY <1>5, <3>3
        <4>3. g[1] = h[2]
          BY <1>5, <4>2
        <4>4. m \in Nat
          <5>1. g[1].event \in Event
            BY <1>6, <3>3, <4>2, <4>3, SeenEvents
          <5> QED
            BY <4>1, <5>1 DEF Event
        <4>5. Adjacent(e.sequence, m)
          <5>1. PICK x \in 2..Len(h) : x = 2 /\ x - 1 = 1
            BY <4>2
          <5>2. Adjacent(h[x - 1].event.sequence, h[x].event.sequence)
            BY <1>1, <1>8, <2>1, <2>3, <3>3, <4>3, <5>1 DEF ChannelOK
          <5> QED
            BY <1>3, <4>1, <4>3, <5>1, <5>2
        <4>6. Covers(c, m)'
          BY <1>8, <1>9, <1>10, <3>1, <4>4, <4>5, CoversNext
        <4> QED
          BY <4>1, <4>6
      <3>4. ASSUME c \in channel, g = <<>> PROVE Covers(c, w)'
        <4>1. Len(h) = 1
          BY <1>5, <3>4
        <4>2. Adjacent(e.sequence, w)
          BY <1>1, <1>3, <1>4, <1>8, <1>17, <2>1, <2>3, <3>4, <4>1 DEF ChannelOK
        <4>3. w \in Nat
          BY <1>17, Numbers
        <4> QED
          BY <1>8, <1>9, <1>10, <3>1, <4>2, <4>3, CoversNext
      <3>5. ChannelOK(c)'
        BY <1>1, <1>2, <1>4, <1>10, <1>17, <2>1, <2>3, <3>3, <3>4, ChannelTaken
      <3> QED
        BY <2>3, <3>2, <3>5
    <2> QED
      BY <2>2, <2>3
  <1> QED
    BY <1>6, <1>8, <1>10, <1>13, <1>14, <1>15, <1>16, <1>18, ClientStep

\* What a client is given in answer to its request, whether or not Redis answers.
LEMMA SendPendingStep ==
    ASSUME FeedIInv, NEW c \in Client, NEW ok \in BOOLEAN, Running(c), SendPendingEvents(c, ok),
           hubChannel' = [hubChannel EXCEPT ![c] = Tail(@)],
           UNCHANGED <<engineVars, events, sequence, handling, list, cached,
                       published, hubVars, requestVars>>
    PROVE  FeedIInv'
  <1>1. PICK h : h = hubChannel[c]
    OBVIOUS
  <1>2. PICK g : g = Tail(h)
    OBVIOUS
  <1>3. h # <<>> /\ hubChannel' = [hubChannel EXCEPT ![c] = g]
    BY <1>1, <1>2 DEF SendPendingEvents
  <1>4. /\ Len(g) = Len(h) - 1 /\ Len(h) \in Nat \ {0} /\ (g = <<>> <=> Len(g) = 0)
        /\ \A i \in 1..Len(g) : g[i] = h[i + 1] /\ i + 1 \in 1..Len(h)
    <2>1. Len(g) = Len(h) - 1 /\ Len(h) \in Nat \ {0}
      BY <1>1, <1>2, <1>3, TakenSeq
    <2>2. \A i \in 1..Len(g) : g[i] = h[i + 1] /\ i + 1 \in 1..Len(h)
      BY <1>1, <1>2, <1>3, TakenSeq
    <2>3. g = <<>> <=> Len(g) = 0
      BY <1>1, <1>2, <1>3, TakenSeq
    <2> QED
      BY <2>1, <2>2, <2>3
  <1>5. /\ \A i \in 1..Len(h) : h[i] # ListPending => h[i].event \in Emitted(c)
        /\ ChannelsOK' /\ \A d \in Client : Emitted(d)' \subseteq Emitted(d)
        /\ \A d \in Client : Len(hubChannel'[d]) <= HubChannelSize
    BY <1>1, <1>2, <1>3, TakenFacts, ZenonT(40)
  <1>6. \A d \in Client : d # c => hubChannel'[d] = hubChannel[d]
    BY <1>3
  <1>7. /\ ok => /\ got' = [got EXCEPT ![c] = Range(list)]
                 /\ UNCHANGED connection
                 /\ redisErrors' = redisErrors
        /\ ~ ok => /\ connection' = [connection EXCEPT ![c] = "CLOSED"]
                   /\ UNCHANGED got
                   /\ redisErrors < MaxRedisErrors /\ redisErrors' = redisErrors + 1
    BY DEF SendPendingEvents, CountErrors
  <1>8. redisErrors' \in 0..MaxRedisErrors /\ (redisErrors' = 0 => ok /\ redisErrors = 0)
    BY <1>7, FeedAssumption, SMTT(30) DEF FeedIInv, TypeOK
  <1>9. /\ UNCHANGED <<version, started, attached, restarts, skipped, members, following, channel,
                       subscribe, unsubscribe, asked>>
        /\ UNCHANGED <<ToPublish, Upcoming>>
        /\ NothingLost => StreamOK'
    BY LoopFacts
  <1>10. PICK l : l = list
    OBVIOUS
  <1>11. l \in Seq(Event) /\ Range(l) \subseteq Event /\ got \in [Client -> SUBSET Event]
    <2>1. PICK X : X = Event
      OBVIOUS
    <2>2. l \in Seq(X)
      BY <1>10, <2>1 DEF FeedIInv, TypeOK
    <2> QED
      BY <2>1, <2>2, RangeFacts DEF FeedIInv, TypeOK
  <1>12. got' \in [Client -> SUBSET Event]
    BY <1>7, <1>10, <1>11
  <1>13. opening' \in [Client -> EventType \cup {"NONE", "NO-MARKET"}]
    <2>1. opening \in [Client -> EventType \cup {"NONE", "NO-MARKET"}]
      BY DEF FeedIInv, TypeOK
    <2>2. PICK v : v = IF list # <<>> THEN Head(list).type ELSE
                              IF cached["BOOK-T0"] # -1 THEN "NONE" ELSE "NO-MARKET"
      OBVIOUS
    <2>3. v \in EventType \cup {"NONE", "NO-MARKET"}
      <3>1. list # <<>> => Head(list) \in Event
        BY <1>10, <1>11
      <3>2. list # <<>> => Head(list).type \in EventType
        BY <3>1 DEF Event
      <3> QED
        BY <2>2, <3>2
    <2>4. opening' \in {opening, [opening EXCEPT ![c] = v]}
      BY <2>2 DEF SendPendingEvents
    <2> QED
      BY <2>1, <2>3, <2>4
  <1>14. connection \in [Client -> Connection] /\ connection' \in [Client -> Connection]
    BY <1>7 DEF FeedIInv, TypeOK, Connection
  <1>15. TypeOK'
    BY <1>5, <1>8, <1>9, <1>12, <1>13, <1>14 DEF FeedIInv, TypeOK
  <1>16. AbsentOK'
    <2> SUFFICES ASSUME NEW d \in Client, connection'[d] = "ABSENT"
                 PROVE  d \notin members' /\ hubChannel'[d] = <<>> /\ got'[d] = {}
      BY DEF AbsentOK
    <2>1. d # c /\ connection[d] = "ABSENT"
      BY <1>7, <1>14 DEF Running
    <2>2. hubChannel'[d] = hubChannel[d] /\ got'[d] = got[d]
      BY <1>6, <1>7, <1>11, <2>1
    <2> QED
      BY <1>9, <2>1, <2>2 DEF FeedIInv, AbsentOK
  <1>17. NoBookSent'
    BY <1>5 DEF FeedIInv, NoBookSent
  <1>18. Seen' \subseteq Seen
    <2>1. \A d \in Client : got'[d] \subseteq got[d] \cup Range(list)
      BY <1>7, <1>11
    <2> QED
      BY <1>5, <2>1 DEF Seen
  <1>19. PICK w : w = Upcoming
    OBVIOUS
  <1>20. ASSUME NothingLost, NEW d \in Client, connection'[d] = "OPEN", redisErrors' = 0
         PROVE  ChannelOK(d)' /\ GapFree(d)' /\ OneBook(d)'
    <2>1. ok /\ connection[d] = "OPEN" /\ ListOK /\ StreamOK
      BY <1>7, <1>8, <1>20 DEF NothingLost
    <2>2. got' = [got EXCEPT ![c] = Range(list)]
      BY <1>7, <2>1
    <2>3. ChannelOK(d)
      BY <1>20, <2>1 DEF NothingLost
    <2>4. CASE d # c
      <3>1. UNCHANGED <<hubChannel[d], got[d]>>
        BY <1>6, <1>11, <2>2, <2>4
      <3> QED
        BY <1>9, <1>20, <2>1, <3>1, OtherClient
    <2>5. CASE d = c
      <3>1. /\ \A m \in Nat : m <= sequence => Covers(c, m)'
            /\ GapFree(c)' /\ OneBook(c)'
        BY <1>9, <2>1, <2>2, ListCovers
      <3>2. ASSUME g # <<>>, g[1] # ListPending PROVE Covers(c, g[1].event.sequence)'
        <4>1. PICK m : m = g[1].event.sequence
          OBVIOUS
        <4>2. 1 \in 1..Len(g) /\ 2 \in 1..Len(h) /\ 1 + 1 = 2
          BY <1>4, <3>2
        <4>3. g[1] = h[2]
          BY <1>4, <4>2
        <4>4. g[1].event \in Seen
          BY <1>5, <3>2, <4>2, <4>3 DEF Seen
        <4>5. m \in 1..(sequence - 1)
          BY <4>1, <4>4 DEF FeedIInv, SeenOK
        <4>6. m \in Nat /\ m <= sequence
          BY <4>5 DEF FeedIInv, TypeOK
        <4>7. Covers(c, m)'
          BY <3>1, <4>6
        <4> QED
          BY <4>1, <4>7
      <3>3. Covers(c, w)'
        <4>1. w \in Nat /\ w <= sequence
          <5>1. ToPublish <= sequence
            <6>1. sequence \in Nat
              BY DEF FeedIInv, TypeOK
            <6>2. CASE handling = <<>>
              BY <6>1, <6>2 DEF ToPublish
            <6>3. CASE handling # <<>>
              <7>1. ToPublish = handling[1].sequence /\ handling[1].sequence = sequence - 1
                BY <6>3, HandlingFacts
              <7> QED
                BY <6>1, <7>1
            <6> QED
              BY <6>2, <6>3
          <5>2. CASE published = <<>>
            BY <1>19, <5>1, <5>2, Numbers DEF Upcoming
          <5>3. CASE published # <<>>
            <6>1. w = published[1].sequence
              BY <1>19, <5>3 DEF Upcoming
            <6>2. published[1] \in Range(published)
              <7>1. PICK p : p = published
                OBVIOUS
              <7>2. p \in Seq(Event) /\ Len(p) \in Nat \ {0}
                BY <5>3, <7>1, RangeFacts DEF FeedIInv, TypeOK
              <7>3. p[1] \in Range(p)
                BY <7>2 DEF Range
              <7> QED
                BY <7>1, <7>3
            <6>3. w \in 1..(sequence - 1)
              BY <6>1, <6>2 DEF Seen, FeedIInv, SeenOK
            <6> QED
              BY <6>3 DEF FeedIInv, TypeOK
          <5> QED
            BY <5>2, <5>3
        <4> QED
          BY <3>1, <4>1
      <3>4. ChannelOK(c)'
        BY <1>1, <1>2, <1>3, <1>9, <1>19, <2>3, <2>5, <3>2, <3>3, ChannelTaken
      <3> QED
        BY <2>5, <3>1, <3>4
    <2> QED
      BY <2>4, <2>5
  <1> QED
    BY <1>5, <1>8, <1>9, <1>15, <1>16, <1>17, <1>18, <1>20, ClientStep

-----------------------------------------------------------------------------
(* All steps.                                                              *)

LEMMA LoopHubChannelStep ==
    ASSUME FeedIInv, NEW c \in Client, LoopHubChannel(c)
    PROVE  FeedIInv'
  <1>1. /\ Running(c) /\ hubChannel' = [hubChannel EXCEPT ![c] = Tail(@)]
        /\ UNCHANGED <<engineVars, events, sequence, handling, list, cached,
                       published, hubVars, requestVars>>
    BY DEF LoopHubChannel
  <1>2. EmitEvent(c) \/ \E ok \in BOOLEAN : SendPendingEvents(c, ok)
    BY DEF LoopHubChannel
  <1> QED
    BY <1>1, <1>2, EmitEventStep, SendPendingStep

LEMMA BookRunStep ==
    ASSUME FeedIInv, BookRun
    PROVE  FeedIInv'
  <1>1. version \in Nat
    BY DEF FeedIInv, TypeOK
  <1>2. ASSUME NEW type \in {"BOOK-T0", "BOOK-T1"}, CacheList(type) PROVE FeedIInv'
    <2>1. version + Step(type) = version
      BY <1>1 DEF Step
    <2> QED
      BY <1>2, <2>1, AttachStep DEF CacheList
  <1>3. ASSUME CacheOrderEvent PROVE FeedIInv'
    <2>1. PICK type : type = "ORDER"
      OBVIOUS
    <2>2. version + Step(type) = version + 1
      BY <2>1 DEF Step
    <2>3. /\ AttachEvent(type, version + Step(type)) /\ version' = version + Step(type)
          /\ started /\ started' = TRUE
      BY <1>3, <2>1, <2>2 DEF CacheOrderEvent
    <2> QED
      BY <2>1, <2>3, AttachStep
  <1> QED
    BY <1>2, <1>3 DEF BookRun

LEMMA FeedStart ==
    ASSUME Init
    PROVE  FeedIInv
  <1>1. TypeOK
    <2>0. started \in BOOLEAN
      BY DEF Init
    <2>1. /\ version \in Nat /\ attached \in 0..MaxEvents
          /\ restarts \in 0..MaxRestarts /\ skipped \subseteq 1..sequence
          /\ sequence \in Nat /\ redisErrors \in 0..MaxRedisErrors
      BY FeedAssumption DEF Init
    <2>2. /\ events \in Seq([type : EventType, upto : Nat]) /\ Len(events) <= QueueSize
          /\ handling \in Seq(Event) /\ Len(handling) <= 1
          /\ list \in Seq(Event) /\ published \in Seq(Event)
          /\ subscribe \in Seq(Client) /\ unsubscribe \in Seq(Client)
      BY FeedAssumption DEF Init
    <2>3. cached \in [{"BOOK-T0", "BOOK-T1"} -> Nat \cup {-1}]
      BY DEF Init
    <2>4. /\ members \subseteq Client /\ channel \subseteq members /\ following = channel
          /\ asked \in [Client -> Seq(Request)]
          /\ connection \in [Client -> Connection]
          /\ got \in [Client -> SUBSET Event]
          /\ opening \in [Client -> EventType \cup {"NONE", "NO-MARKET"}]
      BY DEF Init, Connection
    <2>5. \A c \in Client : Len(hubChannel[c]) <= HubChannelSize
      BY FeedAssumption DEF Init
    <2> QED
      BY <2>0, <2>1, <2>2, <2>3, <2>4, <2>5 DEF TypeOK
  <1>2. ChannelsOK /\ AbsentOK
    BY DEF Init, ChannelsOK, AbsentOK
  <1>3. \A c \in Client : Emitted(c) = {} /\ got[c] = {}
    BY DEF Init, Emitted, Range
  <1>4. Range(handling) = {} /\ Range(list) = {} /\ Range(published) = {}
    BY DEF Init, Range
  <1>5. Seen = {}
    BY <1>3, <1>4 DEF Seen
  <1>6. SeenOK
    BY <1>5 DEF SeenOK
  <1>7. NoBookSent
    BY <1>3 DEF Init, NoBookSent
  <1>8. Fresh /\ ~ BookInRedis
    BY DEF Init, Fresh, BookInRedis
  <1>9. QueueOK
    BY <1>8 DEF Init, QueueOK
  <1>10. ListOK
    BY <1>8 DEF Init, ListOK
  <1>11. StreamOK
    BY DEF Init, StreamOK
  <1>12. \A c \in Client : connection[c] # "OPEN"
    BY DEF Init
  <1> QED
    BY <1>1, <1>2, <1>6, <1>7, <1>9, <1>10, <1>11, <1>12 DEF FeedIInv, NothingLost

LEMMA FeedStutter ==
    ASSUME FeedIInv, UNCHANGED vars
    PROVE  FeedIInv'
  <1>1. UNCHANGED <<queueVars, published, hubVars, requestVars, clientVars>>
    BY DEF vars
  <1>2. /\ UNCHANGED <<engineVars, events, sequence, handling, list, cached, redisErrors, published>>
        /\ UNCHANGED <<version, started, attached, restarts, skipped, members, following, channel,
                       subscribe, unsubscribe, asked, hubChannel, connection, got, opening>>
    BY <1>1 DEF queueVars, engineVars, hubVars, requestVars, clientVars
  <1>3. TypeOK'
    BY <1>2 DEF FeedIInv, TypeOK
  <1>4. \A d \in Client : connection'[d] = "ABSENT" => connection[d] = "ABSENT" /\ d \notin members'
    BY <1>2 DEF FeedIInv, AbsentOK
  <1> QED
    BY <1>1, <1>2, <1>3, <1>4, ControlStep

\* The invariant of the feed, of which the theorems below are parts: copies of events
\* agree with each other and with the queue, and as long as no Redis command failed the
\* list, the published stream and the channel of a client carry on from what the client
\* has (cache/queue.go handleEvent, cache/hub.go Run, cache/client.go loopHubChannel).
THEOREM FeedInvariance == Spec => []FeedIInv
  <1>1. FeedIInv /\ [Next]_vars => FeedIInv'
    <2> SUFFICES ASSUME FeedIInv, [Next]_vars PROVE FeedIInv'
      OBVIOUS
    <2>1. CASE Next
      BY <2>1, BookRunStep, HandleEventStep, SubscribeStep, UnsubscribeStep, ResponseStep,
         RestartStep, ConnectStep, LoopHubChannelStep, LeavingStep, HandleMessageStep
         DEF Next, Hub
    <2>2. CASE UNCHANGED vars
      BY <2>2, FeedStutter
    <2> QED
      BY <2>1, <2>2
  <1> QED
    BY <1>1, FeedStart, PTL DEF Spec

\* The types of the state of cache.Queue, Hub and Client; the channels of the hub hold
\* members only, and both maps name the same ones.
THEOREM FeedTypes == Spec => []TypeOK
  <1>1. FeedIInv => TypeOK
    BY DEF FeedIInv
  <1> QED
    BY <1>1, FeedInvariance, PTL

\* Whatever fails in Redis or crashes, two events with consecutive numbers that a client
\* has are consecutive changes of one book (Queue.handleEvent numbers what it takes).
THEOREM LossesShow == Spec => []LossIsVisible
  <1>1. FeedIInv => LossIsVisible
    <2> SUFFICES ASSUME FeedIInv, NEW c \in Client, NEW e \in got[c], NEW f \in got[c],
                        f.sequence = e.sequence + 1
                 PROVE  f.upto = e.upto + (IF f.type = "ORDER" THEN 1 ELSE 0)
      BY DEF LossIsVisible
    <2>1. e \in Seen /\ f \in Seen
      BY DEF Seen
    <2> QED
      BY <2>1 DEF FeedIInv, SeenOK, Step
  <1> QED
    BY <1>1, FeedInvariance, PTL

\* As long as no Redis command fails, the list holds one whole book and everything
\* since then (the pipeline of BOOK-T0 and RPUSH in Queue.handleEvent).
THEOREM ListIsReplayable == Spec => []ListReplaysBook
  <1>1. FeedIInv => ListReplaysBook
    <2> SUFFICES ASSUME FeedIInv, redisErrors = 0, list # <<>>
                 PROVE  /\ list[1].type = "BOOK-T0"
                        /\ \A i \in 2..Len(list) :
                             list[i].type = "ORDER" /\ list[i].sequence = list[i - 1].sequence + 1
                        /\ sequence - 1 \notin skipped => list[Len(list)].sequence = sequence - 1
                        /\ sequence - 1 \in skipped => list[Len(list)].sequence < sequence - 1
      BY DEF ListReplaysBook
    <2>1. PICK l : l = list
      OBVIOUS
    <2>2. PICK n : n = l[1].sequence
      OBVIOUS
    <2>3. l \in Seq(Event) /\ sequence \in Nat
      BY <2>1 DEF FeedIInv, TypeOK
    <2>4. Len(l) \in Nat \ {0}
      BY <2>1, <2>3, RangeFacts
    <2>5. l[1] \in Event /\ l[Len(l)] \in Seen
      BY <2>1, <2>3, <2>4, RangeFacts DEF Seen
    <2>6. /\ n \in Nat /\ l[1].type = "BOOK-T0"
          /\ \A x \in 2..Len(l) : l[x].type = "ORDER"
          /\ \A x \in 1..Len(l) : l[x].sequence = n + x - 1
          /\ \A k \in (n + Len(l))..(sequence - 1) : k \in skipped
          /\ sequence - 1 \in skipped => l[Len(l)].sequence < sequence - 1
      BY <2>1, <2>2, <2>5 DEF FeedIInv, NothingLost, ListOK, Event
    <2>7. l[Len(l)].sequence \in 1..(sequence - 1)
      BY <2>5 DEF FeedIInv, SeenOK
    <2>8. l[Len(l)].sequence = n + Len(l) - 1
      BY <2>4, <2>6
    <2>9. ASSUME sequence - 1 \notin skipped PROVE l[Len(l)].sequence = sequence - 1
      <3>1. sequence - 1 \notin (n + Len(l))..(sequence - 1)
        BY <2>6, <2>9
      <3>2. ~ n + Len(l) <= sequence - 1
        BY <2>3, <2>4, <2>6, <3>1
      <3> QED
        BY <2>3, <2>4, <2>6, <2>7, <2>8, <3>2
    <2>10. ASSUME NEW i \in 2..Len(l) PROVE l[i].sequence = l[i - 1].sequence + 1
      <3>1. i \in 1..Len(l) /\ i - 1 \in 1..Len(l)
        BY <2>4
      <3>2. l[i].sequence = n + i - 1 /\ l[i - 1].sequence = n + (i - 1) - 1
        BY <2>6, <3>1
      <3> QED
        BY <2>6, <3>2
    <2> QED
      BY <2>1, <2>6, <2>9, <2>10
  <1> QED
    BY <1>1, FeedInvariance, PTL

\* As long as no Redis command fails, a client that is not cut off has every event
\* between those it has, unless a crash left one out (Hub.Run and loopHubChannel read
\* the list and the stream independently).
THEOREM NothingIsMissed == Spec => []NoGap
  <1>1. FeedIInv => NoGap
    <2> SUFFICES ASSUME FeedIInv, redisErrors = 0, NEW c \in Client, connection[c] = "OPEN",
                        NEW i \in Sequences(c), NEW j \in Sequences(c), ~ Outdated(c, i),
                        NEW k \in (i..j) \ skipped
                 PROVE  k \in Sequences(c)
      BY DEF NoGap
    <2> QED
      BY DEF FeedIInv, NothingLost, GapFree
  <1> QED
    BY <1>1, FeedInvariance, PTL
=============================================================================
