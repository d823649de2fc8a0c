------------------------------ MODULE LoadTest ------------------------------
(***************************************************************************)
(* The repository's own end-to-end check: loadgen posts synthetic events   *)
(* (crates/loadgen) and records what they amount to; reconcile             *)
(* (crates/reconcile) compares that with Postgres.  Between them stand the *)
(* gateway, which may refuse part of a batch, and the aggregator, by its   *)
(* contract ExactlyOnce.                                                   *)
(*                                                                         *)
(* Posts run concurrently with the generator and with each other.  No      *)
(* message takes longer than the allowed lateness: its window is published *)
(* after it has arrived (generator.rs:48).                                 *)
(***************************************************************************)
EXTENDS Windowing, BagsExt, SequencesExt

CONSTANTS
    Partitions,
    Undecodable,
    Users,         \* raw users of the generator
    PartitionOf,   \* user -> partition
    Pages,         \* what they edit
    Instants,      \* timestamps, now or backdated
    BATCHES,       \* how many batches the generator sends
    BATCH_SIZE,    \* logical events per batch
    Refusals       \* TRUE: the gateway may refuse posts

ASSUME BatchesAssumption == BATCHES \in Nat /\ BATCH_SIZE \in Nat \ {0}

VARIABLES
    emitted,  \* history: the logical events so far
    truth,    \* <<window, cell>> -> events and the set of users
    posts,    \* batches whose post has been spawned and not answered
    left,     \* batches still to be sent
    queue,    \* bag of messages between the gateway and the topic
    log, rows, \* the topic and the table, as in ExactlyOnce
    file,     \* truth.json: {} or the table in it
    verdict   \* of reconcile: "none", "pass" or "fail", and what it was given

vars == <<emitted, truth, posts, left, queue, log, rows, file, verdict>>

E == INSTANCE ExactlyOnce

Init ==
    /\ E!Init
    /\ emitted = << >>
    /\ truth = << >>
    /\ posts = {}
    /\ left = BATCHES
    /\ queue = EmptyBag
    /\ file = {}
    /\ verdict = [result |-> "none", settled |-> FALSE]

-----------------------------------------------------------------------------
(***************************************************************************)
(* loadgen.                                                                *)
(***************************************************************************)
\* A logical event, with a fresh id, of a window that is still open.
gen_one(id) ==
    {event \in {[event_id |-> id, user |-> user, ts |-> ts, family |-> page.family,
                 wiki |-> page.wiki, namespace |-> page.namespace] :
                   user \in Users, page \in Pages, ts \in Instants} :
        window_start(event.ts) \notin E!Published(PartitionOf[event.user])}

\* One more event, and its user, in each of its cells.
record_truth(table, event) ==
    LET keys == {<<window_start(event.ts), c>> : c \in cells_for_event(event)}
    IN  [key \in DOMAIN table \cup keys |->
            LET old == IF key \in DOMAIN table THEN table[key] ELSE [events |-> 0, users |-> {}]
            IN  IF key \notin keys THEN old
                ELSE [events |-> old.events + 1, users |-> old.users \cup {event.user}]]

\* Variant for mutation: the copy is recorded too.
Recorded_Copies(table, event, copies) ==
    IF copies = 2 THEN record_truth(record_truth(table, event), event)
                  ELSE record_truth(table, event)

\* What next_batch records for an event of which it sends a number of copies.
Recorded(table, event, copies) == record_truth(table, event)

\* A tick of the generator, on schedule whatever became of earlier posts: each logical
\* event is recorded once and goes into the batch once, or twice with the same id.
NextBatch ==
    /\ left > 0
    /\ LET slots == 1..BATCH_SIZE
       IN  \E events \in {f \in [slots -> UNION {gen_one(Len(emitted) + i) : i \in slots}] :
                             \A i \in slots : f[i].event_id = Len(emitted) + i} :
             \E copies \in [slots -> 1..2] :
                /\ emitted' = emitted \o events
                /\ truth' = FoldLeft(LAMBDA table, i : Recorded(table, events[i], copies[i]),
                                     truth, [i \in slots |-> i])
                /\ posts' = posts \cup
                      {FlattenSeq([i \in slots |-> [j \in 1..copies[i] |-> events[i]]])}
    /\ left' = left - 1
    /\ UNCHANGED <<queue, log, rows, file, verdict>>

\* A post is answered; the status is not looked at.  202 takes the whole batch; 503
\* or a broken connection only a part of it.
PostDone(batch) ==
    /\ batch \in posts
    /\ \E n \in IF Refusals THEN 0..Len(batch) ELSE {Len(batch)} :
          queue' = FoldLeft(BagAdd, queue, SubSeq(batch, 1, n))
    /\ posts' = posts \ {batch}
    /\ UNCHANGED <<emitted, truth, left, log, rows, file, verdict>>

\* The table that is compared: numbers of users instead of sets.
into_truth(table) ==
    [key \in DOMAIN table |->
        [events |-> table[key].events, users |-> Cardinality(table[key].users)]]

\* After the last batch and the last answer, truth.json.
WriteTruth ==
    /\ left = 0 /\ posts = {} /\ file = {}
    /\ file' = {into_truth(truth)}
    /\ UNCHANGED <<emitted, truth, posts, left, queue, log, rows, verdict>>

-----------------------------------------------------------------------------
(***************************************************************************)
(* The pipeline in between.                                                *)
(***************************************************************************)
Deliver(event) ==
    /\ BagIn(event, queue)
    /\ queue' = BagRemove(queue, event)
    /\ log' = [log EXCEPT ![PartitionOf[event.user]] = Append(@, event)]
    /\ UNCHANGED <<emitted, truth, posts, left, rows, file, verdict>>

\* Messages that have not arrived.
Underway == BagToSet(queue) \cup UNION {{batch[i] : i \in DOMAIN batch} : batch \in posts}

Publish(p) ==
    /\ E!Publish(p)
    /\ \A key \in DOMAIN rows' \ DOMAIN rows, event \in Underway :
          PartitionOf[event.user] = p => window_start(event.ts) # key[1]
    /\ UNCHANGED <<emitted, truth, posts, left, queue, file, verdict>>

-----------------------------------------------------------------------------
(***************************************************************************)
(* reconcile.                                                              *)
(***************************************************************************)
\* The cells in Postgres, summed over the partitions.
Actual ==
    [key \in {<<k[1], k[2]>> : k \in DOMAIN rows} |->
        LET of == {k \in DOMAIN rows : k[1] = key[1] /\ k[2] = key[2]}
        IN  [events |-> MapThenSumSet(LAMBDA k : rows[k].events, of),
             users  |-> MapThenSumSet(LAMBDA k : rows[k].users, of)]]

\* Variant for mutation: a cell that is missing is no drift.
Drift_NotMissing(expected, actual) ==
    {key \in DOMAIN expected \cap DOMAIN actual : expected[key] # actual[key]}
      \cup (DOMAIN actual \ DOMAIN expected)

\* Mismatched, missing and unexpected cells.
Drift(expected, actual) ==
    {key \in DOMAIN expected \cap DOMAIN actual : expected[key] # actual[key]}
      \cup (DOMAIN expected \ DOMAIN actual)
      \cup (DOMAIN actual \ DOMAIN expected)

\* Nothing is underway and every window of the topic is published.
Settled == Underway = {} /\ \A p \in Partitions : E!WindowsOf(p) \subseteq E!Published(p)

\* reconcile may be run at any time once there is a file.
Reconcile ==
    /\ verdict.result = "none"
    /\ \E expected \in file :
          verdict' = [result  |-> IF Drift(expected, Actual) = {} THEN "pass" ELSE "fail",
                      settled |-> Settled]
    /\ UNCHANGED <<emitted, truth, posts, left, queue, log, rows, file>>

Next ==
    \/ NextBatch
    \/ \E batch \in posts : PostDone(batch)
    \/ WriteTruth
    \/ \E event \in BagToSet(queue) : Deliver(event)
    \/ \E p \in Partitions : Publish(p)
    \/ Reconcile

Spec == Init /\ [][Next]_vars

-----------------------------------------------------------------------------
\* The events of a cell by what the generator emitted.
CountOf(key) ==
    LET of == {i \in DOMAIN emitted : /\ window_start(emitted[i].ts) = key[1]
                                      /\ key[2] \in cells_for_event(emitted[i])}
    IN  [events |-> Cardinality(of), users |-> Cardinality({emitted[i].user : i \in of})]

\* "PASS: zero drift" (reconcile/src/main.rs:109) is never said of a table that lacks
\* an event, or counts one twice, even when it is said too early.
PassMeansCounted ==
    verdict.result = "pass" =>
        \A i \in DOMAIN emitted : \A c \in cells_for_event(emitted[i]) :
            LET key == <<window_start(emitted[i].ts), c>>
            IN  key \in DOMAIN Actual /\ Actual[key] = CountOf(key)

\* Once everything has settled the test passes: "every unique event this generator
\* emits is expected to be counted exactly once" (generator.rs:52-53).
SettledPasses == verdict.settled => verdict.result = "pass"

=============================================================================
