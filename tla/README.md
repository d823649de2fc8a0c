# Hush: TLA+ specification and proofs

Hush turns a stream of wiki edits into per-minute counts (events and distinct
users) over a four-level hierarchy, and answers queries about complete windows
without releasing counts below a privacy threshold `k`. This directory holds TLA+
modules for its services (wiki source, ingest gateway, aggregator, query API) and for
its end-to-end test, the contract the aggregator is to fulfil, the composition of
aggregator and query API, the TLC configurations that check them, and TLAPS proofs.

## 1. The system

```
wiki-source --POST--> ingest-gateway --Kafka (keyed by pseudonym)--> aggregator x N
                                                                        |
                      clients <--HTTP-- query-api <---- Postgres <------+
```

| Component | State | Operations | Hard behaviours | What makes it correct |
|---|---|---|---|---|
| `common` windows, hierarchy | none | `window_start`, `window_end`, `cells_for_event` | boundaries | an event has one window and one cell per level |
| aggregator `PartitionState` | open windows, `max_event_ts`, `flushed_watermark`, `next_offset` | `process_event`, `tick_idle`, `take_closed_windows`, `committed_offset`, `resume_from` | late and duplicate events, windows that close out of offset order | the resume offset skips nothing still needed; a closed window is never reopened |
| aggregator service | one state per assigned partition behind a mutex, the batches being written | message loop, `post_rebalance` / `pre_rebalance`, flush loop, idle loop, `flush_windows` | three activities and several instances interleave; crash, session timeout, failed load / seek / flush | the tables equal the log for every flushed window (*zero drift*); progress never goes back; flushed rows never change; every event is flushed in time |
| query-api | answer cache | `GET /v1/stats`, `GET /v1/windows/latest` | several reads per request while flushes commit; a cache without invalidation | only complete windows are answered, cached answers stay right, nothing below `k` is released |
| ingest-gateway | bounded channel, spawned sends | `POST /v1/events`, producer loop | partial acceptance, back pressure, failed sends after 202 | what was accepted is produced once; memory is bounded |
| wiki-source | `last_event_id`, current batch, backoff | stream, reconnect, `flush` | stream errors, rejected batches | no edit is sent twice, and which losses are possible |
| loadgen, reconcile | ground truth, posts in flight, truth file | generate, post, compare | posts overtake each other, refusals, reconciling too early | reconcile passes iff there is no drift |
| HyperLogLog | registers | `insert`, `merge`, `estimate` | hashes that collide, order of merges | a sketch depends on the set of users only |
| differential privacy | - | `noisy_count` | repeated queries | one noise per query |
| pseudonyms, lag metrics, configuration | - | - | - | - |

The services share no memory. wiki-source calls the gateway over HTTP; gateway
and aggregator meet in the Kafka topic; aggregator and query-api meet in the
tables `agg_cells` and `partition_progress`. Inside an aggregator the consumer
task, the flush loop and the idle loop share the `SharedStates` map.

The hazards, each at its line and with the properties that would catch it, are
listed in `PROJECT.json` under `hazards`.

## 2. Modules

| Module | Models | Code |
|---|---|---|
| `Windowing` | windows and cells | `common/src/window.rs`, `common/src/hierarchy.rs` |
| `PartitionState` | the operations on one partition's state, as functions | `aggregator/src/window.rs` |
| `Aggregator` | instances, Kafka and Postgres around those operations; all properties of counting | `aggregator/src/{main,flush,rebalance,db}.rs` |
| `AggregatorProofs` | proofs: types, resume offsets, nothing counted twice, progress and flushed rows with one owner | |
| `AggregatorExactProofs` | proofs: zero drift | |
| `ExactlyOnce` | the abstract contract: a topic, and rows that appear once, whole and right | `flush_windows`, seen from outside |
| `AggregatorRefinement` | `Aggregator` implements `ExactlyOnce` | |
| `AggregatorRefinementProofs` | proof of that | |
| `Suppression` | the k-threshold algorithm, as functions | `query-api/src/privacy.rs` |
| `HyperLogLog` | the sketch, as functions | `common/src/hll.rs` |
| `QueryApi` | concurrent requests, cache, completeness check, estimators, noise | `query-api/src/{handlers,db,main,dp}.rs` |
| `QueryApiProofs` | proofs: latest window, threshold, cache, remainder, events, estimates | |
| `SumTheorems` | lemmas: sums over finite sets | |
| `Pipeline` | `Aggregator` and `QueryApi` on the same tables | |
| `PipelineProofs` | proofs: answers are those of the topic | |
| `Events` | validation of an event | `common/src/event.rs` |
| `IngestGateway` | handlers, bounded channel, producer loop, spawned sends | `ingest-gateway/src/*.rs`, `common/src/pseudonym.rs` |
| `IngestGatewayProofs` | proofs: validation, partitioning, copies | |
| `WikiSource` | stream, reconnect, mapping, batching, posting | `wiki-source/src/{client,mapping}.rs` |
| `WikiSourceProofs` | proofs: order, no repetition, bounded loss | |
| `LoadTest` | loadgen and reconcile around `ExactlyOnce` | `loadgen/src/*.rs`, `reconcile/src/main.rs` |
| `MC...` | constants for TLC | |

Definitions whose name ends in a capitalised suffix (`committed_offset_Last`,
`OtherRow_Unchecked`, ...) are deliberately wrong variants of the definition that
follows them. They are used for mutation only: each property is shown to fail when
one of them replaces the real definition.

### Aggregator

| Variable | In the code |
|---|---|
| `now` | `Utc::now()` |
| `log`, `owner` | the topic and the group's assignment (external) |
| `position[i]` | what the Kafka client of instance `i` is assigned, and its next offset |
| `pending[i]` | a partition inside `post_rebalance`: the progress it read |
| `states[i]` | `SharedStates` |
| `inflight[i]` | batches the flush loop has taken and not yet written |
| `agg_cells`, `partition_progress` | the two tables |
| `budget` | faults that may still happen (a bound of the model) |

One step is what one activity does between taking and releasing the mutex, or one
call to Kafka or Postgres:

* `AssignLoaded` / `AssignLoadError`, then `InstallState` /
  `InstallStateSeekFailed`: the two halves of `post_rebalance`. Between them other
  instances run, so the progress may be stale when it is used. The callback runs
  inside the consumer's poll, hence `Idle(i)` guards message handling and other
  callbacks of the same instance. The callback handles its partitions one after
  the other; in the model they are assigned one after the other. Its early return for
  a consumer that is not bound yet (`rebalance.rs:80-89`) is left out: `main` binds the
  consumer before it subscribes.
* `Revoke`: `pre_rebalance` drops the state. A batch in flight is *not* dropped.
* `ProcessMessage`, `SkipUndecodable`: one turn of the message loop, with the
  `or_insert_with` fallback.
* `IdleTick`: one partition's turn of the idle loop.
* `TakeBatches`, then one `FlushCommit` or `FlushError` per partition: a round of
  the flush loop. `flush_windows` is one transaction.
* `SessionTimeout`: the group gives the partitions to others while the instance
  goes on, a zombie. `Crash` loses all memory of an instance.
* `Produce`, `ProduceDuplicate`, `ProduceUndecodable`, `Tick`: the environment.
  An event's timestamp lies between `MAX_DELAY` before and `MAX_SKEW` after the
  instant of its append, so events of a partition come out of timestamp order.

Abstracted: event ids are small numbers, users and pages small sets; the HLL sketch of
a cell does not influence any step and is modelled where it is read, in `QueryApi`;
metrics are left out; `last_event_wall` is replaced by the condition
`IdleTimeoutMayExpire`. Wall-clock waiting is nondeterministic: with
`IdleOnlyWhenDrained = FALSE` an idle tick may come at any time, which is what the
code allows when the consumer is held up for more than 10 s; with `TRUE` it comes
only when the partition has been read to its end, which is what the comment on
`IDLE_PARTITION_TIMEOUT` describes.

### QueryApi

A request goes through the stages `checked` (arguments and completeness), `miss`
(cache consulted), `parent` (parent cell read), `computed`, `done`, or ends
`rejected` (400, 409) or `failed` (500). Each stage is one await of the handler, so
requests interleave with each other and with `Flush`, the environment's action for
one committed transaction of the aggregator. `FetchChildren` tries every order of
the result set, since the SQL has no `ORDER BY` and the stable sort in `suppress`
keeps that order between equal cells. Counts are summed over partitions as in the
SQL; when there is no row `fetch_cell` yields zeros (`COALESCE`).

The cache key is the request's fields joined with colons (`cache_key`). Names are model
values or short strings, so `Segments` says what pieces a name has between its colons, and
a key is the sequence of all pieces: two requests have the same key exactly when the
strings are equal. A row of `agg_cells` carries one field that no query reads, `who`, the
users behind its count. It lets properties speak of distinct people where the code has
only numbers (`People`).

With `estimator=hll` the rows' sketches are merged; a row has one when its partition
is in `HllPartitions`, whose aggregator runs with `HLL_ENABLED`. `HyperLogLog` takes
the hash of a user as given (`Hash`, with collisions) and follows `insert` and `merge`
register by register. `estimate` is the small-range branch of the code, to second
order in the share of registers in use, which rounds to the same number as the
logarithm for 4096 registers and up to 109 of them in use. With `DP_ENABLED` the users
of each released row become an arbitrary number up to `MAX_NOISE` above the count and
not below zero: the values Laplace noise can take, without their distribution.

### IngestGateway

| Variable | In the code |
|---|---|
| `handler[c]` | client `c`'s request: body, next event to enqueue, response; a client retries after 503 or a broken connection |
| `channel` | the bounded mpsc channel |
| `sending` | the spawned sends, a bag: they finish in any order |
| `log` | the topic (external) |
| `lost`, `crashes` | history |

`PostEvents` validates the whole batch; then one `Enqueue` per `try_send`, so handlers
of several clients interleave on the channel; `Full` answers 503 in the middle of a
batch, `Accept` 202 at its end. (A closed channel, which the code would answer with 202
as well, cannot be: the producer loop holds the receiver for as long as the process
runs.) `Recv` takes a message and spawns its send, `SendOk` and `SendError` are a send's
outcomes, `Crash` loses what is in memory. A timestamp is relative to the gateway's
clock. The HMAC is an injective constant function.

### WikiSource

One step is one branch of the `select!` loop (`Receive`, `TickFlush`, `StreamEnd`,
`StreamError`) or one attempt to connect (`Connect`, `ConnectError`). An SSE id is the
message's place in the stream, so "resume after `Last-Event-ID`" is arithmetic on
places. `flush` empties the batch whatever the gateway answers; what the gateway takes
of it is all, nothing (400), a prefix (503) or some prefix with the answer lost. The
fault kinds are `"end"`, `"error"`, `"connect"`, `"503"` and `"network"`; `first` and
`errors` are history.

### ExactlyOnce, AggregatorRefinement

`ExactlyOnce` knows a topic and published rows. A message may arrive if it changes no
count of a published window; a partition may publish any of its unpublished windows,
every row with the counts of the topic. `Aggregator` implements it with
`rows <- agg_cells`: everything else (instances, states, batches, progress) is
internal, and a flush that repeats rows already there is a stutter.

### Pipeline

`Pipeline` runs `Aggregator`'s next-state relation and the request steps of `QueryApi`
on one `agg_cells`; of `partition_progress` the query API sees the watermarks.
`QueryApi`'s own environment, `Flush`, is not used. A second instance of `QueryApi`, on
the table that the whole topic amounts to, says what the answer should have been.

### LoadTest

`NextBatch` records each logical event once and puts it into a batch once or twice with
the same id; posts are answered in any order (`PostDone`); `WriteTruth`, then
`Reconcile` at any moment. The pipeline in between is `ExactlyOnce`; a window is not
published while one of its messages is on its way, which is the assumption on delays
that the generator's comment states.

## 3. What TLC checks

One unit of time is 30 s in every aggregator configuration (`WINDOW_SIZE = 2`,
`ALLOWED_LATENESS = 1`); the 10 s idle timeout is below the unit, so an idle tick
may come in the unit in which an event was handled.

| Run | Question | Bounds | Result |
|---|---|---|---|
| `faults` | Do offsets stay safe whatever fails? | 2 instances, 1 partition, 2 events, any 2 faults, clock to 3 | `TypeOK`, `FallbackUnused`, `ResumeSafe`, `NoOverCount` hold |
| `exact` | Is counting exactly-once under the documented conditions? | 2 instances, 2 messages, 2 faults (all kinds but a failed flush), clock to 4 | `ZeroDrift`, `ImplementsExactlyOnce` hold |
| `crash` | Are flushed rows and progress stable with one owner? | 1 instance, 3 events up to 2 late and 2 early, 2 crashes or failed flushes | `RowsStable`, `ProgressMonotone` hold |
| `live` | Is everything flushed in the end? | 1 instance, 2 events, 1 fault, fairness | `EventuallyFlushed` holds |
| `breakdown` | Do breakdowns respect the threshold, do cached answers stay right? | 1 request at a time, 126 sets of edits of 4 users over 3 wikis and 2 namespaces, exact and by sketches with collisions, `k = 2` | `KThresholdBreakdown`, `NoSmallRemainder`, `EventsConserved`, `HllShowsLargeCells`, `CacheFresh`, `LatestIsNewestComplete` hold |
| `gateway` | What do 400, 503 and 202 mean for the events? | 2 clients posting up to twice, channel of 1, batches of 1 or 2, 1 crash, fairness | `OnlyValidPseudonyms`, `CopiesPerPost`, `UserOnOnePartition`, `AcceptedIsSent` hold |
| `wiki` | What is lost or repeated across disconnects? | 4 messages of 4 kinds, batches of 2, 2 disconnects, 1 failed post, fairness | `AtMostOnceInOrder`, `LossBounded`, `EditsPosted` hold |
| `answers` | Does an answer equal what the topic says? | 2 requests, 1 instance, 2 events, 1 crash, revocation or duplicate | `AnswersMatchLog` holds |
| `loadtest` | Can the end-to-end test be trusted? | 3 batches, 2 users, 2 partitions, nothing refused | `PassMeansCounted`, `SettledPasses` hold |
| `flush_error` | Does a rolled-back transaction cost data? | 1 failed flush | `ZeroDrift` **violated** |
| `global` | Does level 0 respect the threshold? | `k = 3`, 3 users | `KThreshold` **violated** |
| `quiet` | Are windows answerable when a partition is quiet? | 2 partitions, 1 event each, no fault, fairness | `EventuallyAnswerable` **violated** |

`LossBounded` is what the code makes of the comment "no edits are missed across a
reconnect": a stream that breaks costs the batch being filled, a post that fails one
batch, an event the gateway finds malformed its companions in the batch, and nothing
else costs an edit. When none of these happens it says that no edit is missed.

`KThresholdBreakdown` is about people, not about the numbers in the answer. A child that
an exact breakdown shows stands for at least `k` distinct users. The number of an "Other" row is
`hidden_effective`, which counts a user once for each hidden child, as `privacy.rs:42-47` and the
repository's README (`src/README.md:87-93`) say; so the property claims `k` distinct users
for "Other" only when nobody is in two of the hidden children. Without that, with `k = 2`,
let user 1 edit `en` and `de` and users 3 and 4 `fr`: the answer shows `fr` with 2 users and
"Other" with 2, which is one person (finding 14). `NoSmallRemainder` leaves out the same
case: the parent has 3 users, the visible `fr` 2, and the difference is the one person
that "Other" hides. Its precondition is that the children's users add up to the parent's.

`CopiesPerPost` and `AcceptedIsSent` are what a client may conclude from a response:
after 503 a prefix may be in the topic and a retry adds copies of it (with the same ids,
which the aggregator counts once while the window is open), after 202 every event leaves
the gateway unless its send fails or the process dies.

These configurations are not among the runs above; each takes less than two minutes. Some
hazards of `PROJECT.json` are exercised by them alone: two unfenced writers (`zombie`), rows of two
partitions (`partitions`), sketches from some partitions (`hll_partial`), users in several
hidden children (`overlap`), cache keys that collide (`keys`) and refused posts
(`MCLoadTest_refused.cfg`).

| Configuration | Shows |
|---|---|
| `MCAggregator_partitions.cfg` | `ZeroDrift` holds with two partitions, two wikis and a crash or a revocation |
| `MCQueryApi_cache.cfg` | `CacheFresh`, `LatestIsNewestComplete` hold for two requests, two windows and two partitions |
| `MCAggregator_starved.cfg` | `ZeroDrift` violated: finding 4 |
| `MCAggregator_zombie.cfg` | `RowsStable` violated: finding 5 |
| `MCAggregator_skew.cfg` | `ZeroDrift` violated: finding 6 |
| `MCQueryApi_unknown.cfg` | `CacheFresh` violated: finding 7 |
| `MCQueryApi_hll_partial.cfg` | `SuppressionIsExact` violated: finding 8 |
| `MCQueryApi_noise.cfg` | `RepeatsAgree` violated: finding 9 |
| `MCQueryApi_repeat.cfg` | `RepeatsHideSmallGroups` violated: finding 10 |
| `MCIngestGateway_sends.cfg` | `SendsBounded` violated: finding 11 |
| `MCWikiSource_{reconnect,poison,backpressure}.cfg` | `NoEditMissed` violated: finding 12 |
| `MCLoadTest_refused.cfg` | `SettledPasses` violated: finding 13 |
| `MCQueryApi_overlap.cfg` | `OtherIsLarge` violated: finding 14 |
| `MCQueryApi_keys.cfg` | `CacheFresh` violated: finding 15 |

**Pure functions.** `ASSUME`s of the MC modules, evaluated by TLC on every run, compare
`insert` and `merge` with the sketch of the union for all pairs of streams of three
items out of four hashes (`SketchAssumption`), and pin the cases of `validate`,
`Mappable` and `family_for_wiki`.

**Bounds.** Two units of lateness and a clock of three or four let a window close, flush
and be asked for again by a late event; two messages give a window that closes while
another one is still open behind a lower offset, a duplicate of a flushed event, and a
replay; two faults give a zombie or a revocation followed by a second failure (load,
seek, crash) of the successor. A channel shorter than a batch makes 503 happen inside
every batch; two posts per client give a retry of a partly accepted batch. Four messages
and batches of two let a full batch, a partial one and a reconnect follow each other.
Three batches let a duplicate arrive before, between and after the posts of others.
The configurations cap the clock, the log and the faults, so behaviours end; the
aggregator and query runs check deadlock nevertheless. `gateway`, `wiki` and `loadtest`
do not: their clients, stream and generator simply finish.

`exact` states its three conditions as constants: events at most
`ALLOWED_LATENESS` late and never from the future (`MAX_DELAY`, `MAX_SKEW`), no
`"flush"` fault, and `IdleOnlyWhenDrained`. Dropping one of them gives `skew`,
`flush_error` and `starved`.

**Symmetry.** Instances (`faults`, `exact`) and requests (`answers`) are
interchangeable; symmetry is used for invariants and for the refinement, which is a
safety property, only.

**Fairness.** `live`, `quiet`: weak fairness of the clock; of `TakeBatches` and
`IdleTick`, which are interval timers that never exit; of `FlushCommit`, the loop awaits
every batch; of the message loop and of the callbacks. Assignment is fair since a Kafka
group with a live member assigns every partition. Nobody has to ask a query. `gateway`:
of `Recv`, a loop that never waits for sends; of the sends, which librdkafka's delivery
timeout ends; of a handler that has started. `wiki`: of `Connect`, `Receive` and
`TickFlush`, the branches of a loop that never exits. Faults, publications and posts are
not fair; faults are bounded.

### Findings

With a run:

1. **A failed flush loses its windows** (`aggregator/src/flush.rs:41`, `flush_error`).
   `take_closed_windows` removes the windows and moves `flushed_watermark` before
   the write. The error arm only logs; the next successful flush records progress
   past the lost windows, so not even a restart brings them back. A restart before
   that flush does. `ResumeSafe` still holds: it speaks of windows the watermark
   leaves open. The comment on `flush_windows` says marker and aggregates "can
   never disagree".
2. **Level 0 releases small counts** (`query-api/src/handlers.rs:121`, `global`): below
   `k` the exact numbers are returned under the name "Other".
3. **A quiet partition blocks the others' windows** (`aggregator/src/flush.rs:25`,
   `quiet`). The idle tick moves its watermark in memory, but a partition without closed
   windows writes no progress: the minimum over the progress rows stands still and every
   later window is answered 409 until the quiet partition has an event again.

With a configuration of the second table:

4. **The idle tick measures delivery, not production** (`aggregator/src/window.rs:145`).
   A consumer held up longer than 10 s has its watermark moved to the wall clock
   over unread events, which are then dropped as late.
5. **Batches in flight are not fenced** (`aggregator/src/rebalance.rs:65`). After a
   revocation or a session timeout the next owner may read the progress before the
   old batch commits. Its replay accepts an event that came too late for the old
   batch, and its own flush changes the rows of a window that the old batch had
   already declared flushed, although query-api caches them for good.
6. **One fast clock drops others' events** (`common/src/event.rs:54`). A timestamp may be
   60 s ahead and the lateness is 30 s: the watermark passes events that are on time.
7. **Partitions without progress are invisible** (`query-api/src/db.rs:18`): `min` is
   over existing rows, so a window can be called complete, and cached, before a
   partition's first flush.
8. **Suppression by estimates** (`query-api/src/handlers.rs:142`). With `estimator=hll` the
   threshold is applied to the estimates, although the comment on the sketch says that
   suppression "always uses the exact count". With sketches from some partitions only,
   a wiki is shown that the exact answer hides to protect a user of another one.
9. **Noise is not drawn once** (`query-api/src/handlers.rs:96`). Two requests that both miss
   the cache, or an eviction, give different noise for one query.
10. **Ties** (`query-api/src/privacy.rs:63`). Which of two equal children is pulled into
    "Other" depends on the order of the rows. Two computations of one answer (two misses,
    two API instances, an eviction) show both, and what remains of "Other" is below `k`.
11. **Sends in flight are not bounded** (`ingest-gateway/src/producer.rs:50`): `recv` frees
    the slot before the send has finished, contrary to the comment at line 40.
12. **The wiki source drops batches** (`wiki-source/src/client.rs:69`, `:117`): the one being
    filled when the stream breaks, although `last_event_id` has passed it; one answered
    503; and one with an event that maps but does not validate (a `Special:` page).
13. **The ground truth includes refused events** (`loadgen/src/main.rs:57`): a batch
    answered 503 is counted and not sent again, so `reconcile` reports drift where there
    is none.
14. **"Other" may be fewer than `k` people** (`query-api/src/privacy.rs:65`): a user of several
    hidden children counts once for each. The code documents this as a known limitation;
    `docs/design.md:77` states the threshold for distinct users without it.
15. **Cache keys are not unique** (`query-api/src/handlers.rs:88`): the fields are joined with
    colons, which a name may contain. Family `a`, wiki `b:c` and family `a:b`, wiki `c` share a
    key, and the second request gets the first one's breakdown.

## 4. What is proved

TLAPS checks every proof. A theorem holds for every value of the constants: any set of
instances, partitions, pages, clients, queries and fault kinds, any stream and any
length of log, every positive window size, batch size, channel capacity and threshold.

| Theorem | Statement | Condition |
|---|---|---|
| `TypeCorrect` | `Spec => []TypeOK` | |
| `FallbackNeverUsed` | `Spec => []FallbackUnused` | |
| `ResumeIsSafe` | `Spec => []ResumeSafe` | |
| `NeverOverCounts` | `Spec => []NoOverCount` | |
| `ProgressNeverGoesBack` | `Spec => ProgressMonotone` | `OneOwner` |
| `FlushedRowsStay` | `Spec => RowsStable` | `OneOwner` |
| `CountingIsExact` | `Spec => []ZeroDrift` | `DocumentedConditions` |
| `Refinement` | `Spec => ImplementsExactlyOnce` | `DocumentedConditions` |
| `NothingRawLeaves` | `Spec => []OnlyValidPseudonyms` | |
| `UsersStayTogether` | `Spec => []UserOnOnePartition` | |
| `CopiesInProportion` | `Spec => []CopiesPerPost` | |
| `PostedAtMostOnce` | `Spec => []AtMostOnceInOrder` | `ChangesHaveIds` |
| `LossesBounded` | `Spec => []LossBounded` | `ChangesHaveIds` |
| `LatestIsRight` | `Spec => []LatestIsNewestComplete` | |
| `BreakdownsAboveThreshold` | `Spec => []KThresholdBreakdown` | no noise, `EveryPartitionKnown`, `KeysTellApart` |
| `CacheStaysFresh` | `Spec => []CacheFresh` | no noise, `EveryPartitionKnown`, `KeysTellApart` |
| `RemainderNotSmall` | `Spec => []NoSmallRemainder` | no noise, `EveryPartitionKnown`, `KeysTellApart` |
| `BreakdownsKeepEvents` | `Spec => []EventsConserved` | no noise, `EveryPartitionKnown`, `KeysTellApart`, `EstimatesCount` |
| `EstimatesShowLargeCells` | `Spec => []HllShowsLargeCells` | no noise, `EveryPartitionKnown`, `KeysTellApart`, `SmallThreshold` |
| `AnswersAreTrue` | `PipelineSpec /\ []NobodyTooEarly => []AnswersMatchLog` | `DocumentedConditions`, `KeysTellApart` |
| `OnePartitionAnswersAreTrue` | `PipelineSpec => []AnswersMatchLog` | `DocumentedConditions`, `KeysTellApart`, one partition |

### Assumptions

The modules' `ASSUME`s, which TLC evaluates on every run: `WINDOW_SIZE` and `K` positive,
bounds and delays natural numbers, finitely many users and partitions and finitely many
edits in a flush (so that `Cardinality` and the sums are numbers), `PartitionOf` a
function into the partitions and `Pseudonym` an injection defined for every user that
posts, a user's edits on one partition (`UsersAssumption`; the gateway's side of it is
theorem `UsersStayTogether`), windows at or after the epoch, and a requested window an instant. That
`REGISTERS = 2^PRECISION` is a positive number is assumed too, because the provers know
nothing of powers.

Single theorems have a condition, because the code does not promise the property without
it; the configuration that shows this is named where there is one:

* `OneOwner`: no session timeout, no revocation, and the progress row can be read. An
  instance then loses its partitions only by dying. Otherwise `MCAggregator_zombie.cfg`.
  Crashes, failed flushes and failed seeks remain, and events may come with any delay.
* `DocumentedConditions`: events at most `ALLOWED_LATENESS` late and never from the future
  (otherwise `skew`), no failed flush (`flush_error`), the idle timeout waits for the
  backlog (`starved`), and the history is shorter than the day that a partition without
  a progress row looks back: older events that no instance has read before it gets its
  first row are dropped as late. Crashes, zombies, revocations, failed loads and seeks,
  duplicates and undecodable messages remain.
* `ChangesHaveIds`: a change carries an SSE id, as Wikimedia's do. The client resumes after
  the last id it has seen, so a change without one would be delivered again.
* `EveryPartitionKnown`: `Known = Partitions` (otherwise `MCQueryApi_unknown.cfg`). Noise
  makes a released count differ from the one that passed the threshold, and a cached
  answer from one computed again, on purpose.
* `KeysTellApart`: requests with one cache key ask for the same window, level, parent and
  estimator. True of names without colons; otherwise `MCQueryApi_keys.cfg`.
* `EstimatesCount`: if some request asks for estimates, every partition keeps sketches. A
  child none of whose rows has one is estimated at no users; `suppress` then hides it
  without an "Other" row, and its events are missing from the answer (`EventsConserved` is
  violated with the constants of `MCQueryApi_hll_partial.cfg`).
* `SmallThreshold`: `(K - 1)^2 < REGISTERS`, that is `k` up to 64 with the 4096 registers
  of the code. Below the root of their number the estimate is the number of registers in
  use, so a cell of fewer than `k` users cannot be estimated at `k`. Larger cells are not
  restricted: the theorem does not need to know what they are estimated at.
* `NobodyTooEarly`: whenever a request passes its completeness check every partition has a
  progress row, the assumption of `EveryPartitionKnown` for a system that starts empty.
  `min(flushed_watermark)` does not see a partition without a row (finding 7). With one
  partition it always holds (`OnePartitionAnswersAreTrue`), so that theorem has no
  condition on the behaviour.

### Inductive invariants

Each was checked by TLC on the configuration of its run before it was proved, with
larger bounds where that was cheap.

*Resume offsets.* `TypeInv` adds to `TypeOK` that `states`, `pending` and `position` of an
instance speak of the same partitions (`DomainsOK`): without it an action could find
a position without a state, and neither types nor `FallbackUnused` would be
inductive. `ResumeSafe` alone says nothing of where the next row comes from, so
`ResumeInv` says the same of every place an offset can come from: the progress a
callback has read (`PendingSound`), the batches in flight (`InflightSound`) and the
states (`StatesSound`). For a state the claim is `Covered`: each processed event is
either below the flushed watermark or in an open window whose `min_offset` is at or
below it. After a failed seek events are delivered again from offset 0, so
`next_offset` falls back while the state is already resumed; `StateSound` therefore
also relates `next_offset`, the open windows and the fetch position (undecodable
messages move the position but not `next_offset`). There is one lemma per group of
actions, and lemmas for what each operation of `PartitionState` preserves
(`ProcessEventSound`, `TakeSound`, `CommittedOffsetGapless`).

*Never too much.* `CountInv` says of every window, open or in flight, that a cell's count
is at most the number of the log's ids in that cell that are in `seen_ids`, and that
its users are users of the log in that cell. `seen_ids` is what makes the step
inductive: an event is counted only when its id is new, so both sides grow by one.

*One owner.* `OwnerInv` orders what is known of a partition: the progress row is behind
the batch in flight, which is behind the state in memory, in offsets and in watermark
(`BatchesAhead`, `StatesAhead`); what a callback has read is still the row
(`PendingFresh`); only the owner has any of it (`Exclusive`). A commit thus moves
progress forward and writes only windows that the old row left open.

*Exactly once.* `ExactInv` follows a window through its life. Open in a state, it holds the
events of that window that the state has read, each once (`StatesExact`). When it
closes, the clock is at least `MAX_DELAY` past its end, so nothing but repetitions can
still be appended to it and nothing unread belongs to it: in a batch it holds all there
will ever be (`BatchesExact`). In the table its rows are those of the log (`RowsExact`),
and every window that a progress row, a state, a batch or a pending callback calls
flushed is in the table or in the batch of the same instance (`FlushedBut`). Two owners
may flush the same window; since both batches hold all of it, the second writes what is
there. `LogExact` is what the producers guarantee: an id names one event, and a message
is at most `MAX_DELAY` behind the ones before it unless it repeats one.

*Refinement.* Topic and table map to themselves. `ExactInv` gives each step: a produced
message changes no published row (`AppendArrives`), a commit publishes those windows of
its batch that are new and repeats the others (`CommitPublishes`), all else stutters.

*Gateway.* `Traced` says where a message comes from: a batch that its client still posts
and that passed validation (`Validated`). `Proportion` is `CopiesPerPost` in the middle of
a request: what has been enqueued in this attempt is there, what has not has fewer copies
than posts and, at the next event, fewer than its predecessor. Copies are counted in
channel, bag of sends, lost and topic together, so a message that moves changes nothing.

*Wiki source.* `OrderInv`: posted places are before those in the batch, those up to
`last_event_id`, and the open connection is ahead of it. `ContentInv` adds that nothing
mapped is between `last_event_id` and the connection. `LossInv` is `LossBounded` with only
the malformed events that have left the client: each lost batch is then paid for by the
step that loses it.

*Query API.* `FreshInv` says that from the
completeness check to the response a request is about a complete window, that the
parent's users it remembers are those of the tables and that a computed or cached answer
is one the tables give. A flush raises a watermark that was below the end of its window,
so it is not of a complete window (`FlushElsewhere`) and leaves that window's rows, hence
every read and answer, as they are (`OtherRowsStay`, `SameReads`); and complete windows
stay complete (`StaysComplete`).

*Rows and sums.* `RowsInv` says where the rows come from: for every window and partition
there is one finite set of edits such that the rows are exactly the counts of its cells.
A window is written once, since its watermark then passes it. Sums are over finite sets in
any order (`SumFunction`); `SumTheorems` proves what they need (one term more, disjoint
parts, renaming, grouping by class, bounds) by taking a smallest subset for which the
claim fails (`SmallestSubset`), which needs no induction principle. `SuppressShape` says
what `suppress` does for any list of children: all below `k` and some of the smallest
others are hidden, the loop stops at zero, at `k` or when all are hidden, and
`hidden_effective` is the users of what is hidden plus what the parent has beyond the sum
of its children.

*Remainder and events.* If the children's users add up to the parent's, that excess is
zero, so `hidden_effective` is what a client could subtract (`RemainderLarge`). For the events,
one edit lies in one child of each cell it lies in (`OneChild`), which makes a partition's
row the sum of the rows of the children (`PartitionEvents`); summing over partitions
(`CellEvents`, `ChildrenEvents`) and splitting into visible and hidden gives the claim. A
child has at least one user, so a hidden group that is not empty has `hidden_effective`
positive and is released, unless everything is hidden.

*Distinct users.* `SuppressAbove` is the fact about `suppress`: whatever the sums and the
order, a child below `k` is hidden and "Other" passes its own test, on numbers. What the numbers
stand for follows from `RowsInv`: a user's rows are on one partition (`RowsApart`), so the sum of a
cell's counts is the number of its people (`CellPeople`), and every user of the parent is in a
child (`ParentPeople`), so the parent has no more than the children's sum and `hidden_effective` has
no excess beyond the hidden children's counts (`NoResidual`). When these share no user they add up
to as many people (`PeopleApart`, from `DisjointUnion` of `SumTheorems`). The answer is one the tables
give, also when it comes from the cache (`FreshInv`).

*Sketches.* A fold of `insert` or `merge` over a finite set exists and uses exactly the
registers its elements set (`SketchesExist`, `SketchRegisters`). A merged sketch therefore
uses at most as many registers as the cell has users by the exact count (`UnionBound`,
`MergedRegisters`), and at least one if a row has a sketch.

*Pipeline.* `MatchInv` joins `ExactInv` with the request part of `FreshInv`, with the table
`T` that the whole topic amounts to in place of a later state of the same table. A
complete window is below every watermark, so by `ExactInv` its rows are those of the topic
and no more events come; a request under way and a cached answer agree with `T`
(`Served`, `CacheTrue`), and only cells of the topic are in the table (`RowsLogged`).

### Only model-checked

* `EventuallyFlushed`, `AcceptedIsSent`, `EditsPosted`: liveness, out of the prover's reach
  (as is `ENABLED`).
* `EventuallyAnswerable` of `quiet` and the other violated properties: they are false.
* `PassMeansCounted`, `SettledPasses` of `LoadTest`: the ground truth, the batches and the
  queue are folds over sequences with operators as parameters (`FoldLeft`, `FlattenSeq`,
  `BagAdd`), whose library theorems cannot be instantiated; every fact about them would have
  to be proved again from their definitions, as was done for `SumFunction` and `FoldSet`.
* `SketchAssumption` and the other `ASSUME`s of the MC modules: finite tables of cases.
* The theorems about answers assume that no noise is added; what noise does to an answer is
  checked by `MCQueryApi_noise.cfg` alone.

## 5. Not modelled

* HyperLogLog: the hash function, the large-range branch of `estimate` and its accuracy
  (statistical), `to_bytes` / `from_bytes`.
* Differential privacy: the Laplace distribution and the privacy budget (probabilistic).
* Pseudonyms: that HMAC cannot be inverted.
* Lag metrics and all counters and gauges: they change no state.
* Configuration, table definitions, deployment. The primary keys of the tables are the
  domains of the model's functions.
* loadgen's Zipf distributions and latency histogram; the lengths of backoff sleeps.

## 6. Plan

Every service is modelled, and the safety properties of each are proved under the conditions
of section 4; those of the repository's own end-to-end test are model-checked. What is left:

1. `SettledPasses`, then `PassMeansCounted`: lemmas about `FoldLeft` and bags first, then that
   ground truth, batches, queue and topic together hold each emitted event.
2. The refinement of `ExactlyOnce` by the composition in `Pipeline`, which would let the
   query API be proved against the contract alone.
