------------------------ MODULE AggregatorRefinement ------------------------
(***************************************************************************)
(* The aggregator implements ExactlyOnce: the topic is the topic and the   *)
(* table agg_cells is the published rows; everything else is internal.     *)
(***************************************************************************)
EXTENDS MCAggregator

EO == INSTANCE ExactlyOnce WITH rows <- agg_cells

\* While producers keep within the allowed lateness, no flush fails and the idle
\* timeout waits for the backlog, every step of the instances, of Kafka and of
\* Postgres publishes whole windows with the right counts, or nothing: whatever
\* crashes, rebalances, redeliveries and second owners happen
\* (flush_windows, aggregator/src/db.rs:36).
ImplementsExactlyOnce == EO!Spec

=============================================================================
