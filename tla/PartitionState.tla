--------------------------- MODULE PartitionState ---------------------------
(***************************************************************************)
(* The in-memory state of one assigned Kafka partition and the operations  *)
(* on it (crates/aggregator/src/window.rs).  A state is a record           *)
(*                                                                         *)
(*   open_windows       window start -> Window (a BTreeMap in the code)    *)
(*   max_event_ts       latest event time seen, or moved on by an idle tick*)
(*   flushed_watermark  windows ending here or earlier take no more events *)
(*   next_offset        one past the last processed offset                 *)
(*                                                                         *)
(* Every operation is a function from the old state to the new one.  The   *)
(* partition number, the wall-clock instant of the last event (which only  *)
(* times the idle check) and the HyperLogLog sketch (never consulted by    *)
(* any of these operations) are left out.                                  *)
(***************************************************************************)
EXTENDS Windowing, FiniteSetsExt

\* Maps: insertion (or update) of one key, removal of one key, and the union of
\* two maps in which the entries of update prevail.
Put(m, k, v) == [x \in DOMAIN m \cup {k} |-> IF x = k THEN v ELSE m[x]]
Drop(m, k) == Restrict(m, DOMAIN m \ {k})
Override(m, update) ==
    [x \in DOMAIN m \cup DOMAIN update |-> IF x \in DOMAIN update THEN update[x] ELSE m[x]]


\* CellAgg::default(): nothing counted.  users is the exact set of pseudonyms.
EmptyCell == [events |-> 0, users |-> {}]

\* Window::new(offset)
NewWindow(offset) ==
    [min_offset |-> offset, seen_ids |-> {}, cells |-> << >>]

\* Variant for mutation: a resumed partition falls behind its own progress row.
resume_from_Rewound(offset, wm) ==
    [open_windows      |-> << >>,
     max_event_ts      |-> wm,
     flushed_watermark |-> wm - WINDOW_SIZE,
     next_offset       |-> offset]

resume_from(offset, wm) ==
    [open_windows      |-> << >>,
     max_event_ts      |-> wm,
     flushed_watermark |-> wm,
     next_offset       |-> offset]

\* Variant for mutation: no allowance for late events.
watermark_Eager(s) == s.max_event_ts

watermark(s) == s.max_event_ts - ALLOWED_LATENESS

-----------------------------------------------------------------------------
\* Variants for mutation: off by one at the end of a window; no deduplication.
IsLate_Strict(s, event) ==
    window_end(window_start(event.ts)) < s.flushed_watermark

IsDuplicate_Never(window, event) == FALSE

\* The two reasons for which process_event drops an event.
IsLate(s, event) ==
    window_end(window_start(event.ts)) <= s.flushed_watermark

IsDuplicate(window, event) == event.event_id \in window.seen_ids

\* One event counted in each of its four cells.
FoldCells(cells, event) ==
    [c \in DOMAIN cells \cup cells_for_event(event) |->
        LET agg == IF c \in DOMAIN cells THEN cells[c] ELSE EmptyCell
        IN  IF c \in cells_for_event(event)
            THEN [events |-> agg.events + 1, users |-> agg.users \cup {event.user}]
            ELSE agg]

\* One event, not seen before in this window, folded into it.
FoldWindow(window, event, offset) ==
    [min_offset |-> IF offset < window.min_offset THEN offset ELSE window.min_offset,
     seen_ids   |-> window.seen_ids \cup {event.event_id},
     cells      |-> FoldCells(window.cells, event)]

\* open_windows.entry(w_start).or_insert_with(Window::new)
WindowFor(open_windows, start, offset) ==
    IF start \in DOMAIN open_windows THEN open_windows[start] ELSE NewWindow(offset)

\* Consumes the event at offset; next_offset and max_event_ts move on whatever
\* becomes of the event (late, duplicate or accepted).
process_event(s, event, offset) ==
    LET start  == window_start(event.ts)
        window == WindowFor(s.open_windows, start, offset)
        drop   == IsLate(s, event) \/ IsDuplicate(window, event)
    IN  [open_windows |->
            IF drop
            THEN s.open_windows
            ELSE Put(s.open_windows, start, FoldWindow(window, event, offset)),
         max_event_ts |-> IF event.ts > s.max_event_ts THEN event.ts ELSE s.max_event_ts,
         flushed_watermark |-> s.flushed_watermark,
         next_offset |-> offset + 1]

-----------------------------------------------------------------------------
\* Variant for mutation: a quiet partition keeps its watermark.
tick_idle_Never(s, now_utc) == s

\* The idle tick of a partition whose idle timeout has expired.
tick_idle(s, now_utc) ==
    [s EXCEPT !.max_event_ts = IF now_utc > @ THEN now_utc ELSE @]

\* Variant for mutation: a window closes without the allowed lateness.
IsClosed_Early(s, start) == window_end(start) <= s.max_event_ts

\* take_closed_windows returns the closed windows and removes them from the
\* state: the two halves of the result.
IsClosed(s, start) == window_end(start) <= watermark(s)

closed_windows(s) ==
    Restrict(s.open_windows, {w \in DOMAIN s.open_windows : IsClosed(s, w)})

take_closed_windows(s) ==
    [s EXCEPT !.open_windows =
                  Restrict(@, {w \in DOMAIN @ : ~ IsClosed(s, w)}),
              !.flushed_watermark =
                  IF watermark(s) > @ THEN watermark(s) ELSE @]

\* Variant for mutation: resume after the last processed event, as a plain Kafka
\* commit would.
committed_offset_Last(s) == s.next_offset

\* The offset that is safe to resume from: the lowest offset of an open window.
committed_offset(s) ==
    LET open == s.open_windows
    IN  IF DOMAIN open = {}
        THEN s.next_offset
        ELSE Min({open[w].min_offset : w \in DOMAIN open})

=============================================================================
