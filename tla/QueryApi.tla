------------------------------ MODULE QueryApi ------------------------------
(***************************************************************************)
(* The query API (crates/query-api): GET /v1/stats with its completeness   *)
(* check, its cache and its suppression, and GET /v1/windows/latest.       *)
(*                                                                         *)
(* Requests run concurrently; a step is one await of a handler: a query    *)
(* to Postgres, or an access to the cache.  The two reads of a level 1-3   *)
(* request are separate statements, not one transaction.  The aggregator   *)
(* is the environment: it writes the rows of whole windows, with sketches  *)
(* from the instances that run with HLL_ENABLED.  Laplace noise is an      *)
(* arbitrary number within MAX_NOISE.                                      *)
(***************************************************************************)
EXTENDS Windowing, Suppression, HyperLogLog, SequencesExt

CONSTANTS
    Clients,     \* concurrent requests
    Partitions,  \* partitions of the events topic
    Windows,     \* starts of the windows that are flushed and queried
    Edits,       \* partition -> the sets of <<user, page>> edits it may flush
    Known,       \* partitions that have a progress row from the start
    Hash,        \* user -> hash, for the sketches
    HllPartitions, \* partitions whose aggregator runs with HLL_ENABLED
    DP_ENABLED,  \* whether released counts are noised
    MAX_NOISE,   \* bound on the noise
    Queries,     \* the requests: records [window, level, family, wiki, estimator]
    None,        \* a query parameter that is absent
    Segments,    \* parameter -> its pieces between colons; absent counts as empty
    K            \* the privacy threshold

ASSUME ThresholdAssumption == K \in Nat \ {0}
ASSUME KnownAssumption == Known \subseteq Partitions
\* Instants count from the epoch; a request may ask for any.
ASSUME WindowsAssumption == Windows \subseteq Nat
ASSUME QueriesAssumption == \A q \in Queries : q.window \in Int
\* A partition holds finitely many events of a window.
ASSUME EditsAssumption ==
    IsFiniteSet(Partitions) /\ \A p \in Partitions : \A edits \in Edits[p] : IsFiniteSet(edits)
\* Messages are keyed by pseudonym: a user's edits are all on one partition.
ASSUME UsersAssumption ==
    \A p, q \in Partitions : \A edits \in Edits[p], others \in Edits[q] :
        p # q => \A edit \in edits, other \in others : edit[1] # other[1]

VARIABLES
    agg_cells,          \* <<window, cell, partition>> -> counts
    partition_progress, \* partition -> flushed_watermark
    cache,              \* cache key -> answer
    request             \* client -> where its handler is

vars == <<agg_cells, partition_progress, cache, request>>

NoAnswer == [visible |-> {}, other |-> {}]

\* A handler that is not running, with the outcome of the last request.
Finished(outcome, query, answer) ==
    [stage |-> outcome, query |-> query, parent_users |-> 0, answer |-> answer]

Init ==
    /\ agg_cells = << >>
    /\ partition_progress = [p \in Known |-> 0]
    /\ cache = << >>
    /\ request = [c \in Clients |->
           Finished("idle", CHOOSE q \in Queries : TRUE, NoAnswer)]

-----------------------------------------------------------------------------
(***************************************************************************)
(* Postgres, as the aggregator fills it and as the handlers read it.       *)
(***************************************************************************)
\* The rows of one window on one partition for a set of edits, one event each.
EditEvent(edit) == edit[2]

Touched(edits) == UNION {cells_for_event(EditEvent(edit)) : edit \in edits}

\* The sketch of some users; a row without one has users_hll NULL.
UsersHll(p, users) ==
    IF p \in HllPartitions
    THEN {FoldSet(LAMBDA user, sketch : insert(sketch, Hash[user]), EmptySketch, users)}
    ELSE {}

\* who is history: the users behind the number, which no query reads.
Counts(p, edits, c) ==
    LET inCell == {edit \in edits : c \in cells_for_event(EditEvent(edit))}
        users  == {edit[1] : edit \in inCell}
    IN  [events    |-> Cardinality(inCell),
         users     |-> Cardinality(users),
         users_hll |-> UsersHll(p, users),
         who       |-> users]

\* A flush writes the cells of a window and a watermark at or past its end, in one
\* transaction; a partition without events in a window never flushes it.
Flush(p, w) ==
    /\ p \in DOMAIN partition_progress => window_end(w) > partition_progress[p]
    /\ \E edits \in Edits[p] :
          LET rows == [key \in {<<w, c, p>> : c \in Touched(edits)} |-> Counts(p, edits, key[2])]
          IN  agg_cells' = [key \in DOMAIN agg_cells \cup DOMAIN rows |->
                               IF key \in DOMAIN rows THEN rows[key] ELSE agg_cells[key]]
    /\ \E wm \in window_end(w)..(window_end(w) + WINDOW_SIZE - 1) :
          partition_progress' = [q \in DOMAIN partition_progress \cup {p} |->
                                    IF q = p THEN wm ELSE partition_progress[q]]
    /\ UNCHANGED <<cache, request>>

\* Variant for mutation: the newest watermark instead of the oldest.
min_flushed_watermark_Newest ==
    Max({partition_progress[p] : p \in DOMAIN partition_progress})

\* SELECT min(flushed_watermark): over the rows there are; NULL without a row.
min_flushed_watermark ==
    Min({partition_progress[p] : p \in DOMAIN partition_progress})

\* Variant for mutation: the window the watermark is in counts as flushed.
complete_Current(window) ==
    /\ DOMAIN partition_progress # {}
    /\ window <= min_flushed_watermark

complete(window) ==
    /\ DOMAIN partition_progress # {}
    /\ window_end(window) <= min_flushed_watermark

\* Variant for mutation: the window the watermark is in.
get_latest_window_Current == window_start(min_flushed_watermark)

\* GET /v1/windows/latest, when there is a progress row.
get_latest_window == window_start(min_flushed_watermark) - WINDOW_SIZE

\* The rows of a cell, one for each partition that has any.
RowsOf(window, c) ==
    Restrict(agg_cells, {key \in DOMAIN agg_cells : key[1] = window /\ key[2] = c})

\* SUM over the rows of a cell, zero when there is none.
Summed(c, rows) ==
    [key    |-> c,
     events |-> SumFunction([key \in DOMAIN rows |-> rows[key].events]),
     users  |-> SumFunction([key \in DOMAIN rows |-> rows[key].users])]

fetch_cell(window, c) == Summed(c, RowsOf(window, c))

\* Every direct child of parent.
ChildKeys(window, parent) ==
    {c \in {key[2] : key \in {k \in DOMAIN agg_cells : k[1] = window}} :
        /\ c.level = parent.level + 1
        /\ parent.level >= LEVEL_FAMILY => c.family = parent.family
        /\ parent.level >= LEVEL_WIKI => c.wiki = parent.wiki}

\* The result set, whose order Postgres does not promise.
fetch_children(window, parent) ==
    SetToSeqs({fetch_cell(window, c) : c \in ChildKeys(window, parent)})

\* The sketches of the rows merged in any order; without a sketch, no users.
MergedUsers(rows) ==
    estimate(FoldSet(merge, EmptySketch, UNION {rows[key].users_hll : key \in DOMAIN rows}))

CellHll(window, c) ==
    [fetch_cell(window, c) EXCEPT !.users = MergedUsers(RowsOf(window, c))]

\* None without a row, where fetch_cell returns zeroes.
fetch_cell_hll(window, c) ==
    {cell \in {CellHll(window, c)} : DOMAIN RowsOf(window, c) # {}}

fetch_children_hll(window, parent) ==
    SetToSeqs({CellHll(window, c) : c \in ChildKeys(window, parent)})

\* By the request's estimator: the cell, if there is one, and the possible results.
Cell(q, c) ==
    IF q.estimator = "hll" THEN fetch_cell_hll(q.window, c) ELSE {fetch_cell(q.window, c)}

Children(q, parent) ==
    IF q.estimator = "hll" THEN fetch_children_hll(q.window, parent)
                           ELSE fetch_children(q.window, parent)

\* The users of the cell that was found; none found, no users.
users_or_zero(found) == SumFunction([cell \in found |-> cell.users])

-----------------------------------------------------------------------------
(***************************************************************************)
(* GET /v1/stats.                                                          *)
(***************************************************************************)
ArgumentsOk(q) ==
    /\ q.level \in LEVEL_GLOBAL..LEVEL_NAMESPACE
    /\ q.level >= LEVEL_WIKI => q.family # None
    /\ q.level >= LEVEL_NAMESPACE => q.wiki # None

parent_key(q) ==
    CASE q.level = LEVEL_FAMILY    -> global
      [] q.level = LEVEL_WIKI      -> CellKey(LEVEL_FAMILY, q.family, ROLLUP_STR, ROLLUP_NAMESPACE)
      [] q.level = LEVEL_NAMESPACE -> CellKey(LEVEL_WIKI, q.family, q.wiki, ROLLUP_NAMESPACE)

\* Level 0 has no siblings to merge with: below the threshold it becomes "Other".
GlobalAnswer(found) ==
    [visible |-> {cell \in found : suppress_single(cell, K)},
     other   |-> {[events |-> cell.events, users |-> cell.users] :
                     cell \in {c \in found : ~ suppress_single(c, K)}}]

\* A count plus noise, clamped at zero.
noisy_count(users) == 0..(users + MAX_NOISE)

\* The answers that noise may turn an answer into.
apply_dp_noise(answer) ==
    IF ~ DP_ENABLED THEN {answer}
    ELSE LET cells == answer.visible \cup answer.other
             Noise == {n \in [cells -> UNION {noisy_count(cell.users) : cell \in cells}] :
                          \A cell \in cells : n[cell] \in noisy_count(cell.users)}
             Noised(S, n) == {[cell EXCEPT !.users = n[cell]] : cell \in S}
         IN  {[visible |-> Noised(answer.visible, n), other |-> Noised(answer.other, n)] :
                 n \in Noise}

Running(c, stage) == request[c].stage = stage

Step(c, stage) == request' = [request EXCEPT ![c].stage = stage]

\* Argument checks, then the completeness check against the progress table.
GetStats(c, q) ==
    /\ request[c].stage \in {"idle", "rejected", "failed", "done"}
    /\ request' = [request EXCEPT ![c] =
           Finished(IF ArgumentsOk(q) /\ complete(q.window) THEN "checked" ELSE "rejected",
                    q, NoAnswer)]
    /\ UNCHANGED <<agg_cells, partition_progress, cache>>

\* The completeness check itself cannot be read: 500.
GetStatsError(c, q) ==
    /\ request[c].stage \in {"idle", "rejected", "failed", "done"}
    /\ ArgumentsOk(q)
    /\ request' = [request EXCEPT ![c] = Finished("failed", q, NoAnswer)]
    /\ UNCHANGED <<agg_cells, partition_progress, cache>>

\* One string with colons between the fields, whether or not a field has some itself.
cache_key(q) ==
    <<q.window, q.level>> \o Segments[q.family] \o Segments[q.wiki] \o <<q.estimator>>

CacheHit(c) ==
    /\ Running(c, "checked")
    /\ cache_key(request[c].query) \in DOMAIN cache
    /\ request' = [request EXCEPT ![c].stage = "done",
                                  ![c].answer = cache[cache_key(request[c].query)]]
    /\ UNCHANGED <<agg_cells, partition_progress, cache>>

CacheMiss(c) ==
    /\ Running(c, "checked")
    /\ cache_key(request[c].query) \notin DOMAIN cache
    /\ Step(c, "miss")
    /\ UNCHANGED <<agg_cells, partition_progress, cache>>

\* Level 0: one query.
FetchGlobal(c) ==
    /\ Running(c, "miss")
    /\ request[c].query.level = LEVEL_GLOBAL
    /\ \E answer \in apply_dp_noise(GlobalAnswer(Cell(request[c].query, global))) :
          request' = [request EXCEPT ![c].stage = "computed", ![c].answer = answer]
    /\ UNCHANGED <<agg_cells, partition_progress, cache>>

\* Levels 1 to 3: the parent's users first, then its children.
FetchParent(c) ==
    /\ Running(c, "miss")
    /\ request[c].query.level > LEVEL_GLOBAL
    /\ request' = [request EXCEPT ![c].stage = "parent",
           ![c].parent_users =
               users_or_zero(Cell(request[c].query, parent_key(request[c].query)))]
    /\ UNCHANGED <<agg_cells, partition_progress, cache>>

FetchChildren(c) ==
    /\ Running(c, "parent")
    /\ \E children \in Children(request[c].query, parent_key(request[c].query)) :
          \E answer \in apply_dp_noise(suppress(request[c].parent_users, children, K)) :
             request' = [request EXCEPT ![c].stage = "computed", ![c].answer = answer]
    /\ UNCHANGED <<agg_cells, partition_progress, cache>>

\* The answer is cached for good and returned.
Respond(c) ==
    /\ Running(c, "computed")
    /\ cache' = [key \in DOMAIN cache \cup {cache_key(request[c].query)} |->
                    IF key = cache_key(request[c].query) THEN request[c].answer ELSE cache[key]]
    /\ Step(c, "done")
    /\ UNCHANGED <<agg_cells, partition_progress>>

\* A query to Postgres fails: 500, nothing cached.
DbError(c) ==
    /\ request[c].stage \in {"miss", "parent"}
    /\ request' = [request EXCEPT ![c] = Finished("failed", request[c].query, NoAnswer)]
    /\ UNCHANGED <<agg_cells, partition_progress, cache>>

\* The cache is bounded and may drop any entry.
Evict(key) ==
    /\ cache' = [x \in DOMAIN cache \ {key} |-> cache[x]]
    /\ UNCHANGED <<agg_cells, partition_progress, request>>

Next ==
    \/ \E p \in Partitions, w \in Windows : Flush(p, w)
    \/ \E c \in Clients, q \in Queries : GetStats(c, q) \/ GetStatsError(c, q)
    \/ \E c \in Clients :
          \/ CacheHit(c) \/ CacheMiss(c)
          \/ FetchGlobal(c) \/ FetchParent(c) \/ FetchChildren(c)
          \/ Respond(c) \/ DbError(c)
    \/ \E key \in DOMAIN cache : Evict(key)

Spec == Init /\ [][Next]_vars

-----------------------------------------------------------------------------
(***************************************************************************)
(* Properties.                                                             *)
(***************************************************************************)
\* The answers that have left, or are about to leave, the service.
Released ==
    {<<request[c].query, request[c].answer>> :
        c \in {c \in Clients : request[c].stage \in {"computed", "done"}}}

CellsOf(answer) == answer.visible \cup answer.other

\* The distinct users of some cells of a window.
People(window, cells) ==
    UNION {agg_cells[key].who :
              key \in {key \in DOMAIN agg_cells : key[1] = window /\ key[2] \in cells}}

\* The children that an answer to q does not show.
HiddenKeys(q, answer) ==
    ChildKeys(q.window, parent_key(q)) \ {cell.key : cell \in answer.visible}

\* "query-api never returns a cell whose distinct-user count is below k"
\* (docs/design.md:77), by the count it returns: at level 0 the distinct one.
KThreshold ==
    \A r \in Released : \A cell \in CellsOf(r[2]) : cell.users >= K

\* Of an exact breakdown a child that is shown stands for k distinct users, and so does
\* an "Other" row as far as the code promises it: when no user is in two of the hidden
\* children, whose counts suppress() adds up (privacy.rs:42-47).
KThresholdBreakdown ==
    \A r \in Released : r[1].level > LEVEL_GLOBAL /\ r[1].estimator = "exact" =>
        LET window == r[1].window
            hidden == HiddenKeys(r[1], r[2])
        IN  /\ \A cell \in r[2].visible : Cardinality(People(window, {cell.key})) >= K
            /\ /\ r[2].other # {}
               /\ \A c, d \in hidden :
                     c # d => People(window, {c}) \cap People(window, {d}) = {}
               => Cardinality(People(window, hidden)) >= K

\* An "Other" row of an exact breakdown stands for k distinct users (docs/design.md:77),
\* also when somebody edited in two of the hidden children.
OtherIsLarge ==
    \A r \in Released :
        r[1].level > LEVEL_GLOBAL /\ r[1].estimator = "exact" /\ r[2].other # {} =>
            Cardinality(People(r[1].window, HiddenKeys(r[1], r[2]))) >= K

\* By the counts that a request asked for: when the children's users add up to the
\* parent's (no user edited in two of them), the parent's minus the visible children's
\* are none or at least k: rule 2 of suppress() (privacy.rs:38).
NoSmallRemainder ==
    \A r \in Released : r[1].level > LEVEL_GLOBAL =>
        LET UsersIn(c) == users_or_zero(Cell(r[1], c))
            parent == parent_key(r[1])
            rest == UsersIn(parent) - SumFunction([cell \in r[2].visible |-> cell.users])
        IN  /\ r[2].visible # {}
            /\ SumFunction([c \in ChildKeys(r[1].window, parent) |-> UsersIn(c)]) = UsersIn(parent)
            => rest = 0 \/ rest >= K

\* A breakdown accounts for every event of its parent, or releases nothing.
EventsConserved ==
    \A r \in Released : r[1].level > LEVEL_GLOBAL =>
        \/ CellsOf(r[2]) = {}
        \/ SumFunction([cell \in r[2].visible |-> cell.events])
             + SumFunction([cell \in r[2].other |-> cell.events])
           = fetch_cell(r[1].window, parent_key(r[1])).events

\* The answers that the tables as they are now could give to q.
Answers(q) ==
    IF q.level = LEVEL_GLOBAL
    THEN {GlobalAnswer(Cell(q, global))}
    ELSE {suppress(users_or_zero(Cell(q, parent_key(q))), children, K) :
             children \in Children(q, parent_key(q))}

\* A cached answer never goes stale: no later flush would have changed it
\* ("Flushed windows never change", query-api/src/main.rs:21).
CacheFresh ==
    \A q \in Queries : ArgumentsOk(q) /\ cache_key(q) \in DOMAIN cache =>
        cache[cache_key(q)] \in Answers(q)

\* Requests with the same cache key ask for the same: true of names without colons, which
\* neither the gateway nor the query API insists on.
KeysTellApart ==
    \A q, s \in Queries : ArgumentsOk(q) /\ ArgumentsOk(s) /\ cache_key(q) = cache_key(s) =>
        /\ q.window = s.window /\ q.level = s.level /\ q.estimator = s.estimator
        /\ q.level > LEVEL_GLOBAL => parent_key(q) = parent_key(s)

\* /v1/windows/latest and /v1/stats agree: the latest window is complete and the
\* next one is not, wherever inside a window the watermark lies.
LatestIsNewestComplete ==
    DOMAIN partition_progress # {} =>
        complete(get_latest_window) /\ ~ complete(get_latest_window + WINDOW_SIZE)

\* A child that an estimated answer shows has k users by the exact count too, whichever
\* users' hashes collide: with fewer than 64 users a sketch never counts too many.
HllShowsLargeCells ==
    \A r \in Released : r[1].level > LEVEL_GLOBAL /\ r[1].estimator = "hll" =>
        \A cell \in r[2].visible : fetch_cell(r[1].window, cell.key).users >= K

\* What an exact answer would show is what an estimated one shows, and no more: the
\* sketch is "never used for privacy suppression, which always uses the exact count"
\* (aggregator/src/window.rs:22-23).
SuppressionIsExact ==
    \A r \in Released : r[1].estimator = "hll" =>
        \E answer \in Answers([r[1] EXCEPT !.estimator = "exact"]) :
            {cell.key : cell \in r[2].visible} = {cell.key : cell \in answer.visible}

\* "Repeating the exact same query always returns the same cached noisy answer"
\* (query-api/src/main.rs:23-24).
RepeatsAgree ==
    \A c, d \in Clients :
        Running(c, "done") /\ Running(d, "done") /\ request[c].query = request[d].query =>
            request[c].answer = request[d].answer

\* Two answers to one request leave no small group either: the "Other" row of one,
\* minus the children that only the other one shows, is empty or at least k
\* ("defends against differencing attacks", docs/design.md:78).
RepeatsHideSmallGroups ==
    \A r, s \in Released : r[1] = s[1] =>
        \A other \in r[2].other :
            LET rest == other.users - SumFunction([cell \in s[2].visible \ r[2].visible |->
                                                     cell.users])
            IN  rest <= 0 \/ rest >= K

=============================================================================
