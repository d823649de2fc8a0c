------------------------------ MODULE Pipeline ------------------------------
(***************************************************************************)
(* The aggregator and the query API on the same Postgres tables: requests  *)
(* read what flushes write, at any moment of a flush, a crash or a         *)
(* rebalance.                                                              *)
(*                                                                         *)
(* The query API reads flushed_watermark and not committed_offset.  The    *)
(* environment that QueryApi has for itself (Flush) is not used.           *)
(***************************************************************************)
EXTENDS MCAggregator

CONSTANTS
    Clients,  \* concurrent requests
    Queries,  \* the requests
    None,     \* a query parameter that is absent
    Segments, \* parameter -> its pieces between colons
    K         \* the privacy threshold

\* A request may ask for any instant.
ASSUME AskedAssumption == \A q \in Queries : q.window \in Int

VARIABLES cache, request

queryVars == <<cache, request>>

\* The columns of partition_progress that the query API reads.
watermarks == [p \in DOMAIN partition_progress |-> partition_progress[p].flushed_watermark]

\* The table that the whole topic amounts to.
TruthTable ==
    LET Keys(p) == UNION {{<<window_start(log[p][o].ts), c, p>> : c \in cells_for_event(log[p][o])} :
                             o \in {o \in DOMAIN log[p] : log[p][o] # Undecodable}}
    IN  [key \in UNION {Keys(p) : p \in Partitions} |-> TruthRow(key[1], key[2], key[3])]

\* No estimates, no noise: both are off by default.
Q == INSTANCE QueryApi WITH
         partition_progress <- watermarks, Windows <- {}, Edits <- << >>, Known <- {},
         Hash <- << >>, HllPartitions <- {}, HASH_BITS <- 16, PRECISION <- 12,
         DP_ENABLED <- FALSE, MAX_NOISE <- 0

\* The query API over the topic itself.
T == INSTANCE QueryApi WITH
         partition_progress <- watermarks, Windows <- {}, Edits <- << >>, Known <- {},
         Hash <- << >>, HllPartitions <- {}, HASH_BITS <- 16, PRECISION <- 12,
         DP_ENABLED <- FALSE, MAX_NOISE <- 0, agg_cells <- TruthTable

PipelineInit ==
    /\ Init
    /\ cache = << >>
    /\ request = [c \in Clients |-> Q!Finished("idle", CHOOSE q \in Queries : TRUE, Q!NoAnswer)]

AggregatorStep == Next /\ UNCHANGED queryVars

QueryStep ==
    /\ UNCHANGED vars
    /\ \E c \in Clients :
          \/ \E q \in Queries : Q!GetStats(c, q)
          \/ Q!CacheHit(c) \/ Q!CacheMiss(c)
          \/ Q!FetchGlobal(c) \/ Q!FetchParent(c) \/ Q!FetchChildren(c)
          \/ Q!Respond(c)

PipelineNext == AggregatorStep \/ QueryStep

PipelineSpec == PipelineInit /\ [][PipelineNext]_<<vars, queryVars>>

\* The aggregator's fairness; nobody has to ask.
FairPipelineSpec == PipelineSpec /\ Fairness

-----------------------------------------------------------------------------
\* Every answer, cached or on its way, is the one the whole topic gives, also when
\* more events, crashes and replays come after it: what is complete by the progress
\* table is complete by the topic (get_stats, handlers.rs:76).
AnswersMatchLog ==
    /\ \A r \in Q!Released : r[2] \in T!Answers(r[1])
    /\ \A q \in Queries : Q!ArgumentsOk(q) /\ Q!cache_key(q) \in DOMAIN cache =>
          cache[Q!cache_key(q)] \in T!Answers(q)

\* A window with an event can be asked for, in time: "an idle partition doesn't leave
\* windows open forever" (common/src/window.rs:12), "not yet fully flushed"
\* (handlers.rs:83).
EventuallyAnswerable ==
    LET closing == {w \in {window_start(t) : t \in (-MAX_DELAY)..MAX_TIME} :
                       window_end(w) + ALLOWED_LATENESS <= MAX_TIME}
    IN  \A w \in closing :
            (\E p \in Partitions : \E o \in DOMAIN log[p] :
                /\ log[p][o] # Undecodable
                /\ window_start(log[p][o].ts) = w)
              ~> Q!complete(w)

=============================================================================
