---------------------------- MODULE FeedInvariant ----------------------------
(***************************************************************************)
(* The inductive invariant of Feed, in named parts.  TLC checks it on      *)
(* small instances; FeedProofs proves it for every value of the constants. *)
(***************************************************************************)
EXTENDS Feed

Message == {ListPending} \cup [source : {"EMIT_EVENT"}, event : Event]
ChannelsOK == hubChannel \in [Client -> Seq(Message)]

\* Every event there is a copy of, on its way, in Redis or at a client.
Emitted(c) == {m.event : m \in Range(hubChannel[c]) \ {ListPending}}
Seen ==
    Range(handling) \cup Range(list) \cup Range(published)
    \cup UNION {Emitted(c) \cup got[c] : c \in Client}

\* What an event of this type adds to the version.
Step(type) == IF type = "ORDER" THEN 1 ELSE 0

\* Whatever is numbered next continues what was numbered last.
SeenOK ==
    /\ \A e \in Seen :
         /\ e.sequence \in 1..(sequence - 1)
         /\ e.sequence = sequence - 1 =>
              IF events = <<>> THEN version = e.upto
              ELSE events[1].upto = e.upto + Step(events[1].type)
    /\ \A e, f \in Seen :
         /\ f.sequence = e.sequence =>
              f.upto = e.upto /\ Step(f.type) = Step(e.type)
         /\ f.sequence = e.sequence + 1 => f.upto = e.upto + Step(f.type)

\* The queue has numbered no event of this book.
Fresh == sequence = 1 \/ sequence - 1 \in skipped

QueueOK ==
    /\ sequence > 0 /\ skipped \subseteq 1..(sequence - 1)
    /\ handling # <<>> =>
         /\ handling[1].sequence = sequence - 1
         /\ handling[1].type # "BOOK-T1" /\ ~ Fresh
    /\ started <=> ~ Fresh \/ events # <<>>
    /\ Fresh /\ events # <<>> => events[1].type = "BOOK-T0"
    /\ \A x \in 2..Len(events) : events[x].upto = events[x - 1].upto + Step(events[x].type)
    /\ \A x \in 1..Len(events) : events[x].type # "HEARTBEAT"
    /\ events # <<>> => events[Len(events)].upto = version

BookInRedis == handling # <<>> /\ handling[1].type = "BOOK-T0"

\* The list has a book, and everything since that the queues have numbered.
ListOK ==
    /\ BookInRedis => list = <<>>
    /\ ~ Fresh /\ ~ BookInRedis => list # <<>>
    /\ list # <<>> =>
         /\ list[1].type = "BOOK-T0"
         /\ \A x \in 2..Len(list) : list[x].type = "ORDER"
         /\ \A x \in 1..Len(list) : list[x].sequence = list[1].sequence + x - 1
         /\ \A k \in (list[1].sequence + Len(list))..(sequence - 1) : k \in skipped
         /\ sequence - 1 \in skipped => list[Len(list)].sequence < sequence - 1

\* No event has a number between n and m.
Adjacent(n, m) == n < m /\ \A k \in (n + 1)..(m - 1) : k \in skipped

\* The numbers the next event has that is published, and that a follower is sent.
ToPublish == IF handling # <<>> THEN handling[1].sequence ELSE sequence
Upcoming == IF published # <<>> THEN published[1].sequence ELSE ToPublish

StreamOK ==
    /\ \A x \in 2..Len(published) : Adjacent(published[x - 1].sequence, published[x].sequence)
    /\ published # <<>> => Adjacent(published[Len(published)].sequence, ToPublish)

\* A client that is sent event n next misses nothing before it, and has nothing after
\* it without a book.
Covers(c, n) ==
    /\ \A i \in Sequences(c) : ~ Outdated(c, i) =>
         \A k \in i..(n - 1) : k \in skipped \cup Sequences(c)
    /\ \A i \in Sequences(c) : i < n \/ \E e \in got[c] : e.type = "BOOK-T0"

\* What is sent to a client after a listing is adjacent, up to what comes next as long
\* as it follows the market.
ChannelOK(c) ==
    LET h == hubChannel[c]
        Sent(x) == h[x] # ListPending
    IN  /\ \A x \in 2..Len(h) : Sent(x - 1) /\ Sent(x) =>
             Adjacent(h[x - 1].event.sequence, h[x].event.sequence)
        /\ h # <<>> /\ Sent(1) => Covers(c, h[1].event.sequence)
        /\ c \in channel /\ h # <<>> /\ Sent(Len(h)) => Adjacent(h[Len(h)].event.sequence, Upcoming)
        /\ c \in channel /\ h = <<>> => Covers(c, Upcoming)

GapFree(c) ==
    \A i, j \in Sequences(c) :
        ~ Outdated(c, i) => \A k \in i..j : k \in skipped \cup Sequences(c)

OneBook(c) == \A e, f \in got[c] : e.type = "BOOK-T0" /\ f.type = "BOOK-T0" => e = f

\* Books are listed and never published.
NoBookSent ==
    /\ \A x \in DOMAIN published : published[x].type # "BOOK-T0"
    /\ \A c \in Client : \A e \in Emitted(c) : e.type # "BOOK-T0"

AbsentOK ==
    \A c \in Client : connection[c] = "ABSENT" =>
        c \notin members /\ hubChannel[c] = <<>> /\ got[c] = {}

NothingLost ==
    /\ ListOK /\ StreamOK
    /\ \A c \in Client : connection[c] = "OPEN" => ChannelOK(c) /\ GapFree(c) /\ OneBook(c)

FeedIInv ==
    /\ TypeOK /\ ChannelsOK /\ AbsentOK /\ NoBookSent
    /\ QueueOK /\ SeenOK
    /\ redisErrors = 0 => NothingLost
=============================================================================
