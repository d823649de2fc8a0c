--------------------------- MODULE IngestGateway ---------------------------
(***************************************************************************)
(* The ingest gateway (crates/ingest-gateway): POST /v1/events validates a *)
(* batch, replaces the users by pseudonyms and offers the events, one      *)
(* try_send each, to a bounded channel; one task drains the channel and    *)
(* spawns a Kafka send per message.                                        *)
(*                                                                         *)
(* Handlers run in parallel with each other, with the draining task and    *)
(* with the sends: a step is one access to the channel or the outcome of   *)
(* one send.  The clients, Kafka and the process's crashes are external.   *)
(* A timestamp is relative to the gateway's clock.                         *)
(***************************************************************************)
EXTENDS Events, Sequences, FiniteSets, SequencesExt

CONSTANTS
    Clients,          \* the callers, each with one batch
    Batches,          \* the bodies they may post: sequences of events
    Pseudonym,        \* the HMAC under the gateway's salt: user -> pseudonym
    Partitions,       \* partitions of the events topic
    PartitionOf,      \* Kafka's partitioner: key -> partition
    CHANNEL_CAPACITY, \* bound of the mpsc channel
    MAX_BATCH_EVENTS, \* longest batch accepted
    MAX_TRIES,        \* bound on how often a client posts its batch
    MAX_CRASHES       \* bound on the number of crashes

ASSUME CapacityAssumption == CHANNEL_CAPACITY \in Nat \ {0}
ASSUME PseudonymAssumption ==
    \A u, v \in DOMAIN Pseudonym : Pseudonym[u] = Pseudonym[v] => u = v
ASSUME PartitionerAssumption ==
    \A u \in DOMAIN Pseudonym : PartitionOf[Pseudonym[u]] \in Partitions
ASSUME BatchesAssumption ==
    /\ Batches \subseteq Seq(UNION {ToSet(batch) : batch \in Batches})
    /\ \A batch \in Batches : \A i \in DOMAIN batch :
          "user" \in DOMAIN batch[i] /\ batch[i].user \in DOMAIN Pseudonym

VARIABLES
    handler,  \* client -> its request: body, next event to enqueue, response
    channel,  \* messages accepted and not yet drained, oldest first
    sending,  \* bag of messages whose send has been spawned
    log,      \* partition -> messages in the topic
    lost,     \* history: bag of the messages that left without reaching the log
    crashes   \* crashes so far

vars == <<handler, channel, sending, log, lost, crashes>>

Init ==
    /\ handler = [c \in Clients |-> [stage |-> "idle", batch |-> << >>, next |-> 1, tries |-> 0]]
    /\ channel = << >>
    /\ sending = EmptyBag
    /\ log = [p \in Partitions |-> << >>]
    /\ lost = EmptyBag
    /\ crashes = 0

-----------------------------------------------------------------------------
(***************************************************************************)
(* POST /v1/events.                                                        *)
(***************************************************************************)
\* Variant for mutation: only the batch's first event is validated.
Malformed_First(batch) ==
    \/ batch = << >>
    \/ Len(batch) > MAX_BATCH_EVENTS
    \/ ~ validate(Head(batch), 0)

\* The batch is answered 400.
Malformed(batch) ==
    \/ batch = << >>
    \/ Len(batch) > MAX_BATCH_EVENTS
    \/ \E i \in 1..Len(batch) : ~ validate(batch[i], 0)

\* A request arrives: the first one with a body of the client's choice, a retry
\* after 503 or a broken connection with the same body.
PostEvents(c) ==
    /\ handler[c].stage \in {"idle", "503", "reset"}
    /\ handler[c].tries < MAX_TRIES
    /\ \E batch \in IF handler[c].stage = "idle" THEN Batches ELSE {handler[c].batch} :
          handler' = [handler EXCEPT ![c] =
              [stage |-> IF Malformed(batch) THEN "400" ELSE "enqueue",
               batch |-> batch, next |-> 1, tries |-> @.tries + 1]]
    /\ UNCHANGED <<channel, sending, log, lost, crashes>>

\* A keyed hash: equal for equal users, whichever request they come in.
pseudonymize(raw_user) == Pseudonym[raw_user]

\* Variant for mutation: messages keyed by wiki.
pseudonymize_and_serialize_ByWiki(c, i) ==
    LET user == pseudonymize(handler[c].batch[i].user)
    IN  [key |-> handler[c].batch[i].wiki, event_id |-> <<c, i>>,
         event |-> [handler[c].batch[i] EXCEPT !.user = user]]

\* The message of the i-th event of c's batch: keyed by the pseudonym, which also
\* replaces the user in the payload.
pseudonymize_and_serialize(c, i) ==
    LET user == pseudonymize(handler[c].batch[i].user)
    IN  [key |-> user, event_id |-> <<c, i>>,
         event |-> [handler[c].batch[i] EXCEPT !.user = user]]

Enqueuing(c) == handler[c].stage = "enqueue" /\ handler[c].next <= Len(handler[c].batch)

\* try_send succeeds.
Enqueue(c) ==
    /\ Enqueuing(c)
    /\ Len(channel) < CHANNEL_CAPACITY
    /\ channel' = Append(channel, pseudonymize_and_serialize(c, handler[c].next))
    /\ handler' = [handler EXCEPT ![c].next = @ + 1]
    /\ UNCHANGED <<sending, log, lost, crashes>>

\* Variant for mutation: the event is skipped and the batch goes on.
Full_Skip(c) ==
    /\ Enqueuing(c)
    /\ Len(channel) >= CHANNEL_CAPACITY
    /\ handler' = [handler EXCEPT ![c].next = @ + 1]
    /\ UNCHANGED <<channel, sending, log, lost, crashes>>

\* try_send finds the channel full: 503, with the events before this one accepted.  It
\* never finds it closed: the producer loop keeps the receiver for as long as it runs.
Full(c) ==
    /\ Enqueuing(c)
    /\ Len(channel) >= CHANNEL_CAPACITY
    /\ handler' = [handler EXCEPT ![c].stage = "503"]
    /\ UNCHANGED <<channel, sending, log, lost, crashes>>

\* Every event is on the channel: 202.
Accept(c) ==
    /\ handler[c].stage = "enqueue"
    /\ handler[c].next > Len(handler[c].batch)
    /\ handler' = [handler EXCEPT ![c].stage = "202"]
    /\ UNCHANGED <<channel, sending, log, lost, crashes>>

-----------------------------------------------------------------------------
(***************************************************************************)
(* run_producer_loop and the sends it spawns.                              *)
(***************************************************************************)
\* Variant for mutation: the loop waits for two messages, to send them together.
Recv_Pairs ==
    /\ Len(channel) >= 2
    /\ sending' = sending (+) SetToBag({Head(channel)})
    /\ channel' = Tail(channel)
    /\ UNCHANGED <<handler, log, lost, crashes>>

\* Take a message off the channel and spawn its send, whatever is in flight.
Recv ==
    /\ channel # << >>
    /\ sending' = sending (+) SetToBag({Head(channel)})
    /\ channel' = Tail(channel)
    /\ UNCHANGED <<handler, log, lost, crashes>>

\* The message is in the topic, acknowledged or not.
SendOk(message) ==
    /\ BagIn(message, sending)
    /\ sending' = sending (-) SetToBag({message})
    /\ log' = [log EXCEPT ![PartitionOf[message.key]] = Append(@, message)]
    /\ UNCHANGED <<handler, channel, lost, crashes>>

\* The send fails for good: the error is counted and logged, the event is gone.
SendError(message) ==
    /\ BagIn(message, sending)
    /\ sending' = sending (-) SetToBag({message})
    /\ lost' = lost (+) SetToBag({message})
    /\ UNCHANGED <<handler, channel, log, crashes>>

SeqToBag(s) == [m \in ToSet(s) |-> Cardinality({i \in DOMAIN s : s[i] = m})]

\* The process dies and is started again: what it held in memory is gone and the
\* requests it was serving are cut off.
Crash ==
    /\ crashes < MAX_CRASHES
    /\ crashes' = crashes + 1
    /\ channel' = << >>
    /\ sending' = EmptyBag
    /\ lost' = lost (+) sending (+) SeqToBag(channel)
    /\ handler' = [c \in Clients |-> IF handler[c].stage = "enqueue"
                                     THEN [handler[c] EXCEPT !.stage = "reset"] ELSE handler[c]]
    /\ UNCHANGED log

Sends == \E message \in BagToSet(sending) : SendOk(message) \/ SendError(message)

Next ==
    \/ \E c \in Clients : PostEvents(c) \/ Enqueue(c) \/ Full(c) \/ Accept(c)
    \/ Recv
    \/ Sends
    \/ Crash

Spec == Init /\ [][Next]_vars

\* The draining task is never blocked for long, a handler runs to its response,
\* and a send is bounded by librdkafka's delivery timeout.
FairSpec ==
    /\ Spec
    /\ WF_vars(Recv)
    /\ WF_vars(Sends)
    /\ \A c \in Clients : WF_vars(Enqueue(c) \/ Full(c) \/ Accept(c))

-----------------------------------------------------------------------------
(***************************************************************************)
(* Properties.                                                             *)
(***************************************************************************)
InLog == UNION {ToSet(log[p]) : p \in Partitions}

\* Every message the gateway has let in.
Downstream == ToSet(channel) \cup BagToSet(sending) \cup InLog \cup BagToSet(lost)

\* How many messages carry the i-th event of c's batch, wherever they are.
Copies(c, i) ==
    LET Carried(s) == {k \in DOMAIN s : s[k].event_id = <<c, i>>}
        InBag(B) == UNION {{m} \X (1..B[m]) : m \in {m \in DOMAIN B : m.event_id = <<c, i>>}}
        Logged == UNION {{p} \X Carried(log[p]) : p \in Partitions}
    IN  Cardinality(Carried(channel)) + Cardinality(InBag(sending))
          + Cardinality(InBag(lost)) + Cardinality(Logged)

\* Nothing of a batch with a malformed event ever leaves the gateway, whatever its
\* position, and no raw user does (post_events validates before it enqueues).
OnlyValidPseudonyms ==
    \A m \in Downstream :
        /\ m.event.user \in {Pseudonym[u] : u \in DOMAIN Pseudonym}
        /\ \A i \in DOMAIN handler[m.event_id[1]].batch :
              validate(handler[m.event_id[1]].batch[i], 0)

\* A 503 leaves a prefix of the batch behind: over all retries, crashes and failed
\* sends an event is never ahead of an earlier one of its batch, there are at most
\* as many copies as posts, and after 202 at least one of each event.
CopiesPerPost ==
    \A c \in Clients : \A i \in DOMAIN handler[c].batch :
        /\ Copies(c, i) <= handler[c].tries
        /\ i > 1 => Copies(c, i) <= Copies(c, i - 1)
        /\ handler[c].stage = "202" => Copies(c, i) >= 1

\* All events of a user are in one partition, whoever posted them: distinct users
\* can be counted per partition and summed (query-api sums over partitions).
UserOnOnePartition ==
    \A p, q \in Partitions : p # q =>
        {m.event.user : m \in ToSet(log[p])} \cap {m.event.user : m \in ToSet(log[q])} = {}

\* An event answered 202 reaches the topic, unless its send fails or the process
\* dies ("accepted onto the internal channel", handlers.rs:21).
AcceptedIsSent ==
    \A c \in Clients :
        (handler[c].stage = "202") ~>
            \A i \in DOMAIN handler[c].batch :
                \E m \in InLog \cup BagToSet(lost) : m.event_id = <<c, i>>

\* "The upstream bounded channel (and the gateway's 503 backpressure) keeps the
\* number of in-flight spawned tasks bounded" (producer.rs:40-41).
SendsBounded == BagCardinality(sending) <= CHANNEL_CAPACITY

=============================================================================
