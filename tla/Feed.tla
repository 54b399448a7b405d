-------------------------------- MODULE Feed --------------------------------
(***************************************************************************)
(* The public feed of one market: cache/queue.go in the engine process,    *)
(* cache/hub.go and cache/client.go in the http process, and the Redis     *)
(* between them (its list, its keys and its publish/subscribe channel).    *)
(*                                                                         *)
(* The content of the book is its version, the number of changes to it.    *)
(* An ORDER event is the change that made version upto; a BOOK-T0 event is *)
(* the whole book of that version.  The FIFO hops that only delay (the     *)
(* receiving goroutine of the hub, the write pump of a client) are left    *)
(* out: what loopHubChannel takes from hubChannel is delivered.            *)
(*                                                                         *)
(* The engine process may crash.  The queue of the next one numbers its    *)
(* events from the clock in nanoseconds, beyond all numbers used before;   *)
(* its book begins empty, and it publishes that book first.                *)
(***************************************************************************)
EXTENDS Integers, Sequences, FiniteSets, Functions

CONSTANTS
    Client,           \* ids of websocket clients; a client that comes back has a new id
    QueueSize,        \* capacity of queue.events
    HubChannelSize,   \* capacity of a client's hubChannel
    MaxEvents,        \* bound on events the engine attaches
    MaxRequests,      \* bound on requests of a client
    MaxRedisErrors,   \* bound on Redis commands that fail
    MaxRestarts       \* bound on crashes of the engine process

ASSUME FeedAssumption ==
    /\ QueueSize \in Nat \ {0} /\ HubChannelSize \in Nat \ {0}
    /\ MaxEvents \in Nat /\ MaxRequests \in Nat
    /\ MaxRedisErrors \in Nat /\ MaxRestarts \in Nat

VARIABLES
    version,       \* number of changes the book goroutine has made
    started,       \* this book has attached its first BOOK-T0
    restarts,      \* number of crashes
    attached,      \* number of events all books have attached
    events,        \* queue.events
    sequence,      \* queue.sequence: the number the next event gets
    handling,      \* handleEvent: <<>>, or <<event>> with the step it has come to
    list,          \* Redis: the list MARKET-ORDER-EVENTS
    cached,        \* Redis: the version in keys MARKET-BOOK-T0 and -T1, -1 if unset
    published,     \* from Redis PUBLISH to hub.response
    redisErrors,   \* number of failed commands
    members,       \* hub: keys of members
    following,     \* hub: members whose channels have this market
    channel,       \* hub: clients in channels[market]
    subscribe,     \* hub.subscribe
    unsubscribe,   \* hub.unsubscribe
    hubChannel,    \* hubChannel[c]: "LIST" or an event
    connection,    \* connection[c]: where ServeHTTP is with client c
    asked,         \* history: the requests of c that were acknowledged, in order
    skipped,       \* history: numbers that a crash left without a published event
    got,           \* history: events delivered to c since its last listing
    opening        \* history: type of the first event since then, or NONE

engineVars == <<version, started, attached, restarts, skipped>>
queueVars == <<engineVars, events, sequence, handling, list, cached, redisErrors>>
hubVars == <<members, following, channel>>
requestVars == <<subscribe, unsubscribe, asked>>
clientVars == <<hubChannel, connection, got, opening>>
vars == <<queueVars, published, hubVars, requestVars, clientVars>>

\* ORDER stands for ORDER-OPEN, ORDER-MATCH and ORDER-CANCEL.
EventType == {"ORDER", "BOOK-T0", "BOOK-T1", "HEARTBEAT"}
Event == [type : EventType, upto : Nat, sequence : Nat]
Request == {"SUBSCRIBE", "UNSUBSCRIBE"}

\* OPEN until the hub cancels the context of the client (CANCELLED) or the connection
\* is closed (CLOSED); LEFT when Unregister has returned.
Connection == {"ABSENT", "OPEN", "CANCELLED", "CLOSED", "LEFT"}

\* What goes through hubChannel.
ListPending == [source |-> "LIST_PENDING_EVENTS"]
Emit(e) == [source |-> "EMIT_EVENT", event |-> e]

Init ==
    /\ version = 0 /\ started = FALSE /\ attached = 0 /\ restarts = 0 /\ skipped = {}
    /\ events = <<>> /\ sequence = 1 /\ handling = <<>>
    /\ list = <<>> /\ cached = [k \in {"BOOK-T0", "BOOK-T1"} |-> -1]
    /\ published = <<>> /\ redisErrors = 0
    /\ members = {} /\ following = {} /\ channel = {}
    /\ subscribe = <<>> /\ unsubscribe = <<>>
    /\ asked = [c \in Client |-> <<>>]
    /\ hubChannel = [c \in Client |-> <<>>]
    /\ connection = [c \in Client |-> "ABSENT"]
    /\ got = [c \in Client |-> {}]
    /\ opening = [c \in Client |-> "NONE"]

-----------------------------------------------------------------------------
(* The book goroutine attaches events.  Run starts with cacheList(0).      *)

AttachEvent(type, v) ==
    /\ attached < MaxEvents
    /\ attached' = attached + 1
    /\ Len(events) < QueueSize
    /\ events' = Append(events, [type |-> type, upto |-> v])
    /\ UNCHANGED <<sequence, handling, list, cached, redisErrors, restarts, skipped,
                   published, hubVars, requestVars, clientVars>>

CacheList(type) ==
    /\ type = "BOOK-T0" \/ started
    /\ started' = TRUE
    /\ AttachEvent(type, version)
    /\ UNCHANGED version

CacheOrderEvent ==
    /\ started
    /\ version' = version + 1
    /\ AttachEvent("ORDER", version + 1)
    /\ UNCHANGED started

\* NewQueue: the clock is ahead of the number by more than the events of a book.
\* Mutant: the numbers go on where they were.
NewSequenceKept == sequence
NewSequence == sequence + 1

Restart ==
    /\ restarts < MaxRestarts
    /\ restarts' = restarts + 1
    /\ version' = version + 1 /\ started' = FALSE
    /\ events' = <<>> /\ handling' = <<>>
    /\ sequence' = NewSequence
    /\ skipped' = skipped \cup {sequence} \cup {handling[i].sequence : i \in DOMAIN handling}
    /\ UNCHANGED <<attached, list, cached, redisErrors, published, hubVars, requestVars, clientVars>>

-----------------------------------------------------------------------------
(* Queue.Loop and handleEvent.  A Redis command that fails may have had its    *)
(* effect, and is not tried again.                                             *)

\* The number is used up, whether or not the command succeeds.
Taken(ok) == sequence + 1

\* The next event is of type t; it is taken from the channel and gets its number.
NextEvent(t) == handling = <<>> /\ events # <<>> /\ Head(events).type = t
Numbered == [type |-> Head(events).type, upto |-> Head(events).upto, sequence |-> sequence]

RPush(ok) ==
    /\ NextEvent("ORDER")
    /\ events' = Tail(events)
    /\ sequence' = Taken(ok)
    /\ list' \in {Append(list, Numbered)} \cup (IF ok THEN {} ELSE {list})
    /\ handling' = IF ok THEN <<Numbered>> ELSE <<>>
    /\ UNCHANGED <<cached, published>>

\* The pipeline of BOOK-T0 is not a transaction: another client of Redis may be served
\* after its DEL.  Mutant: without DEL.
ListKept == list
ListDeleted == <<>>
PipelineDel(ok) ==
    /\ NextEvent("BOOK-T0")
    /\ events' = Tail(events)
    /\ sequence' = Taken(ok)
    /\ list' = IF ok THEN ListDeleted ELSE list
    /\ handling' = IF ok THEN <<Numbered>> ELSE <<>>
    /\ UNCHANGED <<cached, published>>

\* RPUSH and SET of the pipeline; when it succeeds a HEARTBEAT is published in place
\* of the book.  Mutant: nothing is published.
NoHeartbeat(e) == <<>>
Heartbeat(e) == <<[e EXCEPT !.type = "HEARTBEAT"]>>
PipelinePush(ok) ==
    /\ handling # <<>> /\ handling[1].type = "BOOK-T0"
    /\ \E pushed, set \in BOOLEAN :
         /\ ok => set
         /\ set => pushed
         /\ list' = IF pushed THEN Append(list, handling[1]) ELSE list
         /\ cached' = IF set THEN [cached EXCEPT !["BOOK-T0"] = handling[1].upto] ELSE cached
    /\ handling' = IF ok THEN Heartbeat(handling[1]) ELSE <<>>
    /\ UNCHANGED <<events, sequence, published>>

\* BOOK-T1 shows the number of the next event and takes none; it is not published.
SetBookT1(ok) ==
    /\ NextEvent("BOOK-T1")
    /\ events' = Tail(events)
    /\ cached' = IF ok THEN [cached EXCEPT !["BOOK-T1"] = Head(events).upto] ELSE cached
    /\ UNCHANGED <<sequence, handling, list, published>>

\* A message is also lost when the hub is not connected to Redis.
Publish(ok) ==
    /\ handling # <<>> /\ handling[1].type # "BOOK-T0"
    /\ published' = IF ok THEN Append(published, handling[1]) ELSE published
    /\ handling' = <<>>
    /\ UNCHANGED <<events, sequence, list, cached>>

CountErrors(ok) ==
    /\ ~ ok => redisErrors < MaxRedisErrors
    /\ redisErrors' = IF ok THEN redisErrors ELSE redisErrors + 1

HandleEvent ==
    /\ \E ok \in BOOLEAN :
         /\ RPush(ok) \/ PipelineDel(ok) \/ PipelinePush(ok) \/ SetBookT1(ok) \/ Publish(ok)
         /\ CountErrors(ok)
    /\ UNCHANGED <<engineVars, hubVars, requestVars, clientVars>>

-----------------------------------------------------------------------------
(* ServeHTTP and the goroutines of a client.                                *)

\* Register; on a timeout the connection is closed at once, which is no step.
Connect(c) ==
    /\ connection[c] = "ABSENT"
    /\ connection' = [connection EXCEPT ![c] = "OPEN"]
    /\ members' = members \cup {c}
    /\ UNCHANGED <<queueVars, published, following, channel, requestVars, hubChannel, got, opening>>

\* handleMessage.  A request that times out because the channel is full is answered
\* with an error, which is no step.
HandleMessage(c, request) ==
    /\ connection[c] # "ABSENT"
    /\ Len(asked[c]) < MaxRequests
    /\ asked' = [asked EXCEPT ![c] = Append(@, request)]
    /\ IF request = "SUBSCRIBE"
       THEN subscribe' = Append(subscribe, c) /\ UNCHANGED unsubscribe
       ELSE unsubscribe' = Append(unsubscribe, c) /\ UNCHANGED subscribe
    /\ UNCHANGED <<queueVars, published, hubVars, clientVars>>

\* loopHubChannel; it may go on for a while after its context was cancelled.
Running(c) == connection[c] \in {"OPEN", "CANCELLED"}

SendPendingEvents(c, ok) ==
    /\ hubChannel[c] # <<>> /\ Head(hubChannel[c]) = ListPending
    /\ IF ok
       THEN /\ got' = [got EXCEPT ![c] = Range(list)]
            /\ opening' = [opening EXCEPT ![c] = IF list # <<>> THEN Head(list).type ELSE
                              IF cached["BOOK-T0"] # -1 THEN "NONE" ELSE "NO-MARKET"]
            /\ UNCHANGED connection
       ELSE /\ connection' = [connection EXCEPT ![c] = "CLOSED"]
            /\ UNCHANGED <<got, opening>>
    /\ CountErrors(ok)

EmitEvent(c) ==
    /\ hubChannel[c] # <<>> /\ Head(hubChannel[c]) # ListPending
    /\ LET e == Head(hubChannel[c]).event
       IN  /\ got' = [got EXCEPT ![c] = @ \cup {e}]
           /\ opening' = [opening EXCEPT ![c] = IF @ = "NONE" THEN e.type ELSE @]
    /\ UNCHANGED <<connection, redisErrors>>

LoopHubChannel(c) ==
    /\ Running(c)
    /\ EmitEvent(c) \/ \E ok \in BOOLEAN : SendPendingEvents(c, ok)
    /\ hubChannel' = [hubChannel EXCEPT ![c] = Tail(@)]
    /\ UNCHANGED <<engineVars, events, sequence, handling, list, cached,
                   published, hubVars, requestVars>>

\* The client leaves, a pump fails or sees the cancelled context.
Close(c) ==
    /\ Running(c)
    /\ connection' = [connection EXCEPT ![c] = "CLOSED"]
    /\ UNCHANGED <<queueVars, published, hubVars, requestVars, hubChannel, got, opening>>

-----------------------------------------------------------------------------
(* Hub.Run.                                                                *)

\* Mutant: hubChannel has no capacity.
HasRoomAlways(c) == TRUE
HasRoom(c) == Len(hubChannel[c]) < HubChannelSize

Piped(C, m) ==
    hubChannel' = [c \in Client |-> IF c \in C /\ HasRoom(c) THEN Append(hubChannel[c], m)
                                   ELSE hubChannel[c]]

\* pipeHubChannel of message m to clients C.  A client whose channel stays full is
\* cancelled.  Mutant: its message is dropped.
PipeOrDrop(C, m) == Piped(C, m) /\ UNCHANGED connection
Pipe(C, m) ==
    /\ Piped(C, m)
    /\ connection' = [c \in Client |->
          IF c \in C /\ ~ HasRoom(c) /\ connection[c] = "OPEN" THEN "CANCELLED" ELSE connection[c]]

\* Unregister.  Mutant: the channels are not told.
Unfollowed(c) == channel
Removed(c) == channel \ {c}
Unregister(c) ==
    /\ connection[c] = "CLOSED"
    /\ connection' = [connection EXCEPT ![c] = "LEFT"]
    /\ members' = members \ {c}
    /\ following' = following \ {c}
    /\ channel' = Removed(c)
    /\ UNCHANGED <<queueVars, published, requestVars, hubChannel, got, opening>>

\* The hub does not take the request for registerWait; the member stays.
UnregisterTimeout(c) ==
    /\ connection[c] = "CLOSED"
    /\ connection' = [connection EXCEPT ![c] = "LEFT"]
    /\ UNCHANGED <<queueVars, published, hubVars, requestVars, hubChannel, got, opening>>

Subscribe ==
    /\ subscribe # <<>>
    /\ LET c == Head(subscribe)
       IN  IF c \in members \ following
           THEN /\ channel' = channel \cup {c}
                /\ following' = following \cup {c}
                /\ Pipe({c}, ListPending)
           ELSE UNCHANGED <<channel, following, hubChannel, connection>>
    /\ subscribe' = Tail(subscribe)
    /\ UNCHANGED <<queueVars, published, members, unsubscribe, asked, got, opening>>

Unsubscribe ==
    /\ unsubscribe # <<>>
    /\ following' = following \ {Head(unsubscribe)}
    /\ channel' = channel \ {Head(unsubscribe)}
    /\ unsubscribe' = Tail(unsubscribe)
    /\ UNCHANGED <<queueVars, published, members, subscribe, asked, clientVars>>

Response ==
    /\ published # <<>>
    /\ Pipe(channel \cap members, Emit(Head(published)))
    /\ published' = Tail(published)
    /\ UNCHANGED <<queueVars, hubVars, requestVars, got, opening>>

Hub == Subscribe \/ Unsubscribe \/ Response

BookRun == CacheList("BOOK-T0") \/ CacheList("BOOK-T1") \/ CacheOrderEvent

Leaving(c) == Close(c) \/ Unregister(c) \/ UnregisterTimeout(c)

Next ==
    \/ BookRun
    \/ HandleEvent
    \/ Hub
    \/ Restart
    \/ \E c \in Client :
         \/ Connect(c) \/ LoopHubChannel(c) \/ Leaving(c)
         \/ \E request \in Request : HandleMessage(c, request)

Spec == Init /\ [][Next]_vars

\* The goroutines of the queue, the hub and the clients keep running.
FairSpec ==
    /\ Spec
    /\ WF_vars(HandleEvent)
    /\ WF_vars(Hub)
    /\ \A c \in Client : WF_vars(LoopHubChannel(c))

-----------------------------------------------------------------------------
\* Types, and the two maps of the hub: they name the same subscribers, all of them
\* members, so that no event is piped to a client that was unregistered.
TypeOK ==
    /\ version \in Nat /\ started \in BOOLEAN /\ attached \in 0..MaxEvents
    /\ restarts \in 0..MaxRestarts /\ skipped \subseteq 1..sequence
    /\ events \in Seq([type : EventType, upto : Nat]) /\ Len(events) <= QueueSize
    /\ sequence \in Nat /\ handling \in Seq(Event) /\ Len(handling) <= 1
    /\ list \in Seq(Event) /\ published \in Seq(Event)
    /\ cached \in [{"BOOK-T0", "BOOK-T1"} -> Nat \cup {-1}]
    /\ redisErrors \in 0..MaxRedisErrors
    /\ members \subseteq Client /\ channel \subseteq members /\ following = channel
    /\ subscribe \in Seq(Client) /\ unsubscribe \in Seq(Client)
    /\ asked \in [Client -> Seq(Request)]
    /\ \A c \in Client : Len(hubChannel[c]) <= HubChannelSize
    /\ connection \in [Client -> Connection]
    /\ got \in [Client -> SUBSET Event]
    /\ opening \in [Client -> EventType \cup {"NONE", "NO-MARKET"}]

Sequences(c) == {e.sequence : e \in got[c]}
Outdated(c, i) == \E e \in got[c] : e.type = "BOOK-T0" /\ i < e.sequence

\* As long as no Redis command fails, a client is never given an event without all
\* events between it and those it has, although the listing and the published
\* stream are read independently; a slow client is cancelled before it misses one.
\* (The stream may still bring events older than the listed book, and a crash leaves
\* out the event that was not published yet.)
NoGap ==
    redisErrors = 0 =>
        \A c \in Client : connection[c] = "OPEN" =>
            \A i, j \in Sequences(c) :
                ~ Outdated(c, i) => \A k \in (i..j) \ skipped : k \in Sequences(c)

\* Whatever fails, a loss shows in the sequence: two events with consecutive numbers
\* are consecutive changes of one book.  A client that looks at the numbers never
\* applies the events of a restarted engine to the book of the one before.
LossIsVisible ==
    \A c \in Client : \A e, f \in got[c] : f.sequence = e.sequence + 1 =>
        f.upto = e.upto + (IF f.type = "ORDER" THEN 1 ELSE 0)

\* As long as no Redis command fails, the list in Redis is empty or begins with a
\* whole book that its other events, without a gap, bring to where the queue is, or
\* where the last queue was until the new one has handled its first event.  So a list
\* never mixes the events of two engine processes.
ListReplaysBook ==
    redisErrors = 0 /\ list # <<>> =>
        /\ list[1].type = "BOOK-T0"
        /\ \A i \in 2..Len(list) :
             list[i].type = "ORDER" /\ list[i].sequence = list[i - 1].sequence + 1
        /\ sequence - 1 \notin skipped => list[Len(list)].sequence = sequence - 1
        /\ sequence - 1 \in skipped => list[Len(list)].sequence < sequence - 1

\* As long as no Redis command fails, a subscriber is given every event up to the
\* current one or a later one, or it is cut off, or a crash came before the event was
\* published.
EveryEventArrives ==
    \A c \in Client, n \in 1..MaxEvents :
        c \in following /\ connection[c] = "OPEN" /\ n < sequence
            ~> \/ \E i \in Sequences(c) : i >= n
               \/ c \notin following \/ connection[c] # "OPEN" \/ n \in skipped

\* README.md of the source, of BOOK-T0: "This is the first event whenever a client
\* subscribe to a specific market".
FirstIsBook == \A c \in Client : opening[c] \in {"NONE", "NO-MARKET", "BOOK-T0"}

\* README.md of the source: SUBSCRIBE_BOOK subscribes the client to the market, and
\* UNSUBSCRIBE_BOOK unsubscribes it.  So once all requests are taken, the last one
\* that was acknowledged decides.
LastRequestDecides ==
    \A c \in members :
        subscribe = <<>> /\ unsubscribe = <<>> /\ asked[c] # <<>> /\ connection[c] = "OPEN" =>
            (c \in following <=> asked[c][Len(asked[c])] = "SUBSCRIBE")
=============================================================================
