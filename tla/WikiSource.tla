----------------------------- MODULE WikiSource -----------------------------
(***************************************************************************)
(* The wiki source (crates/wiki-source): follows Wikimedia's recentchange  *)
(* SSE stream, maps its messages to events, batches them and posts the     *)
(* batches to the ingest gateway; on a disconnect it reconnects from the   *)
(* last SSE id it has seen.                                                *)
(*                                                                         *)
(* The client is one task: a step is one branch of its select! loop, or    *)
(* one connection attempt.  The stream and the gateway's answers are       *)
(* external.  An SSE id is the message's place in the stream.  Time is     *)
(* relative to the gateway's clock, and the sleep of the backoff is the    *)
(* time a disconnected client waits before it takes its next step.         *)
(***************************************************************************)
EXTENDS Events, Sequences, SequencesExt

CONSTANTS
    Messages,          \* what the stream may carry: records [id, data]
    Nothing,           \* data that is empty once trimmed
    Unparseable,       \* data that is not a RecentChange
    MIN_TIMESTAMP, MAX_TIMESTAMP, \* the seconds that a DateTime can represent
    BATCH_MAX_EVENTS,  \* a batch of this length is posted at once
    BACKOFF_INITIAL,
    BACKOFF_MAX,
    Faults,            \* the kinds of disconnect and refusal that happen
    MAX_DISCONNECTS,   \* bound on the number of disconnects
    MAX_REFUSALS,      \* bound on the number of refused posts
    MAX_STREAM         \* bound on the length of the stream

ASSUME BatchAssumption == BATCH_MAX_EVENTS \in Nat \ {0}
ASSUME BoundsAssumption == MAX_DISCONNECTS \in Nat /\ MAX_REFUSALS \in Nat /\ MAX_STREAM \in Nat

VARIABLES
    stream,         \* the messages published so far
    connected,
    cursor,         \* place of the next message the connection delivers
    last_event_id,  \* place of the last message with an id; 0: None
    first,          \* history: place of the first message with an id; 0: none yet
    batch,          \* events not yet posted: records [place, event]
    backoff,
    accepted,       \* places of the events the gateway has taken, in order
    disconnects,    \* disconnects that may still happen
    refusals,       \* refused posts that may still happen
    errors          \* history: how often an open stream has broken

vars == <<stream, connected, cursor, last_event_id, first, batch, backoff, accepted,
          disconnects, refusals, errors>>

Init ==
    /\ stream = << >>
    /\ connected = FALSE
    /\ cursor = 1
    /\ last_event_id = 0
    /\ first = 0
    /\ batch = << >>
    /\ backoff = BACKOFF_INITIAL
    /\ accepted = << >>
    /\ disconnects = MAX_DISCONNECTS
    /\ refusals = MAX_REFUSALS
    /\ errors = 0

\* The stream ends ("end"), breaks ("error") or cannot be opened ("connect").
Disconnect(kind) == /\ kind \in Faults
                    /\ disconnects > 0
                    /\ disconnects' = disconnects - 1

\* A post is answered 503 ("503") or gets no answer ("network").
Refuse(kind) == /\ kind \in Faults
                /\ refusals > 0
                /\ refusals' = refusals - 1

-----------------------------------------------------------------------------
(***************************************************************************)
(* Mapping of a RecentChange to an Event.  A database name is a pair of    *)
(* its stem and the suffix the match looks at.                             *)
(***************************************************************************)
Kinds == {"edit", "new", "log", "categorize"}

family_for_wiki(wiki) ==
    CASE wiki = <<"wikidata", "wiki">>  -> "wikidata"
      [] wiki = <<"commons", "wiki">>   -> "commons"
      [] wiki = <<"species", "wiki">>   -> "wikispecies"
      [] wiki = <<"mediawiki", "wiki">> -> "mediawiki"
      [] wiki[2] \in {"wiktionary", "wikinews", "wikibooks", "wikiquote",
                      "wikisource", "wikiversity", "wikivoyage"} -> wiki[2]
      [] wiki[2] = "wiki" /\ wiki[1] \notin {"wikidata", "commons", "species", "mediawiki"}
                                        -> "wikipedia"
      [] OTHER                          -> "other"

\* to_event returns an error for any other change.
Mappable(rc) == rc.timestamp \in MIN_TIMESTAMP..MAX_TIMESTAMP /\ rc.kind \in Kinds

to_event(rc) ==
    [user |-> rc.user, ts |-> rc.timestamp, family |-> family_for_wiki(rc.wiki),
     wiki |-> IF rc.wiki[1] = Blank THEN Blank ELSE rc.wiki, namespace |-> rc.namespace,
     kind |-> rc.kind, is_bot |-> rc.bot]

-----------------------------------------------------------------------------
(***************************************************************************)
(* Posting a batch.  Whatever the gateway answers, the batch is gone.      *)
(***************************************************************************)
Places(entries) == [i \in DOMAIN entries |-> entries[i].place]

\* What the gateway makes of a batch: it takes all of it, refuses all of it for one
\* malformed event, or takes a prefix and answers 503; or the connection fails after
\* the gateway has taken some of it.
GatewayTakes(entries) ==
    IF \E i \in DOMAIN entries : ~ validate(entries[i].event, 0)
    THEN UNCHANGED <<accepted, refusals>>
    ELSE \/ /\ accepted' = accepted \o Places(entries)
            /\ UNCHANGED refusals
         \/ /\ Refuse("503")
            /\ \E k \in 0..(Len(entries) - 1) :
                   accepted' = accepted \o Places(SubSeq(entries, 1, k))
         \/ /\ Refuse("network")
            /\ \E k \in 0..Len(entries) : accepted' = accepted \o Places(SubSeq(entries, 1, k))

flush(entries) ==
    /\ batch' = << >>
    /\ IF entries = << >> THEN UNCHANGED <<accepted, refusals>> ELSE GatewayTakes(entries)

-----------------------------------------------------------------------------
\* Wikimedia publishes a change.
Publish ==
    /\ Len(stream) < MAX_STREAM
    /\ \E message \in Messages : stream' = Append(stream, message)
    /\ UNCHANGED <<connected, cursor, last_event_id, first, batch, backoff, accepted,
                   disconnects, refusals, errors>>

\* Variant for mutation: the server is asked to resume at the last id seen.
ResumeAt_Inclusive == IF last_event_id = 0 THEN Len(stream) + 1 ELSE last_event_id

\* Where the server starts: after Last-Event-ID when the header is sent, else live.
ResumeAt == IF last_event_id = 0 THEN Len(stream) + 1 ELSE last_event_id + 1

\* A connection, with an empty batch of its own.
Connect ==
    /\ ~ connected
    /\ connected' = TRUE
    /\ cursor' = ResumeAt
    /\ batch' = << >>
    /\ UNCHANGED <<stream, last_event_id, first, backoff, accepted, disconnects, refusals, errors>>

\* run()'s error branch: sleep, then double the backoff.
BackOff == /\ connected' = FALSE
           /\ backoff' = IF 2 * backoff > BACKOFF_MAX THEN BACKOFF_MAX ELSE 2 * backoff

\* The request fails, or is answered with an error status.
ConnectError ==
    /\ ~ connected
    /\ Disconnect("connect")
    /\ BackOff
    /\ UNCHANGED <<stream, cursor, last_event_id, first, batch, accepted, refusals, errors>>

\* The next message: its id is remembered, whatever it carries; a change that maps to
\* an event joins the batch, which is posted when it is full.
Receive ==
    /\ connected
    /\ cursor <= Len(stream)
    /\ LET message == stream[cursor]
           entry   == [place |-> cursor, event |-> to_event(message.data)]
           skip    == \/ message.data \in {Nothing, Unparseable}
                      \/ ~ Mappable(message.data)
       IN  /\ last_event_id' = IF message.id THEN cursor ELSE last_event_id
           /\ first' = IF first = 0 /\ message.id THEN cursor ELSE first
           /\ IF skip
              THEN UNCHANGED <<batch, accepted, refusals>>
              ELSE IF Len(batch) + 1 >= BATCH_MAX_EVENTS
                   THEN flush(Append(batch, entry))
                   ELSE /\ batch' = Append(batch, entry)
                        /\ UNCHANGED <<accepted, refusals>>
    /\ cursor' = cursor + 1
    /\ UNCHANGED <<stream, connected, backoff, disconnects, errors>>

\* Variant for mutation: only a full batch is posted.
TickFlush_Full ==
    /\ connected
    /\ Len(batch) >= BATCH_MAX_EVENTS
    /\ flush(batch)
    /\ UNCHANGED <<stream, connected, cursor, last_event_id, first, backoff, disconnects, errors>>

\* The ticker fires.
TickFlush ==
    /\ connected
    /\ batch # << >>
    /\ flush(batch)
    /\ UNCHANGED <<stream, connected, cursor, last_event_id, first, backoff, disconnects, errors>>

\* Variant for mutation: the batch is not posted.
StreamEnd_NoFlush ==
    /\ connected
    /\ Disconnect("end")
    /\ batch' = << >>
    /\ connected' = FALSE
    /\ backoff' = BACKOFF_INITIAL
    /\ UNCHANGED <<stream, cursor, last_event_id, first, accepted, refusals, errors>>

\* The server closes the stream: the batch is posted and run() reconnects at once.
StreamEnd ==
    /\ connected
    /\ Disconnect("end")
    /\ flush(batch)
    /\ connected' = FALSE
    /\ backoff' = BACKOFF_INITIAL
    /\ UNCHANGED <<stream, cursor, last_event_id, first, errors>>

\* The stream yields an error: `?` leaves connect_and_consume, and the batch with it.
StreamError ==
    /\ connected
    /\ Disconnect("error")
    /\ batch' = << >>
    /\ errors' = errors + 1
    /\ BackOff
    /\ UNCHANGED <<stream, cursor, last_event_id, first, accepted, refusals>>

Next ==
    \/ Publish
    \/ Connect \/ ConnectError
    \/ Receive \/ TickFlush
    \/ StreamEnd \/ StreamError

Spec == Init /\ [][Next]_vars

\* The client always takes its next step; publications and faults owe nothing.
FairSpec == Spec /\ WF_vars(Connect) /\ WF_vars(Receive) /\ WF_vars(TickFlush)

-----------------------------------------------------------------------------
(***************************************************************************)
(* Properties.                                                             *)
(***************************************************************************)
\* A change that becomes an event, and one that Hush should count.
Mapped(message) == message.data \notin {Nothing, Unparseable} /\ Mappable(message.data)

Edit(message) == Mapped(message) /\ validate(to_event(message.data), 0)

\* The edits between the first message and the last id seen that are neither with the
\* gateway nor in the batch: no reconnect brings them back.
Missed ==
    {n \in (IF first > 0 THEN first ELSE 1)..last_event_id :
        /\ Edit(stream[n])
        /\ n \notin ToSet(accepted)
        /\ n \notin ToSet(Places(batch))}

\* Across disconnects and lost answers no change is posted twice, and the gateway gets
\* them in stream order: to_event draws a fresh event_id, so a change posted twice
\* would be counted twice.
AtMostOnceInOrder ==
    \A i, j \in DOMAIN accepted : i < j => accepted[i] < accepted[j]

\* "No edits are missed across a reconnect" (client.rs:18-19).
NoEditMissed == Missed = {}

\* What the code makes of that: a stream that breaks costs the batch being filled, a
\* post that fails one batch, an event that the gateway finds malformed the others of
\* its batch.  Nothing else does: not a stream that ends, not a refused connection, not
\* a message that is skipped.
LossBounded ==
    Cardinality(Missed) <=
        (BATCH_MAX_EVENTS - 1) * errors
        + BATCH_MAX_EVENTS * (MAX_REFUSALS - refusals)
        + (BATCH_MAX_EVENTS - 1)
            * Cardinality({n \in DOMAIN stream : Mapped(stream[n]) /\ ~ Edit(stream[n])})

\* Once the client has seen a first message, every later edit is posted in time, or
\* lost in one of those ways: none stays behind in a batch or unread.
EditsPosted ==
    \A n \in 1..MAX_STREAM :
        (first \in 1..n /\ n <= Len(stream) /\ Edit(stream[n]))
          ~> (n \in ToSet(accepted) \/ n \in Missed)

=============================================================================
