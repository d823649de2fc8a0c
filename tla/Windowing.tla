----------------------------- MODULE Windowing -----------------------------
(***************************************************************************)
(* Tumbling event-time windows and the four-level cell hierarchy: the      *)
(* vocabulary shared by the aggregator and the query API                   *)
(* (crates/common/src/window.rs and crates/common/src/hierarchy.rs).       *)
(*                                                                         *)
(* Instants are integers.  A window is named by its start.                 *)
(***************************************************************************)
EXTENDS Integers

CONSTANTS
    WINDOW_SIZE,       \* length of a tumbling window (60 s in the code)
    ALLOWED_LATENESS   \* how long the watermark trails the latest event (30 s)

ASSUME WindowSizeAssumption == WINDOW_SIZE \in Nat \ {0}
ASSUME LatenessAssumption == ALLOWED_LATENESS \in Nat

\* duration_trunc floors; TLA+'s % is the floored remainder as well.
window_start(ts) == ts - (ts % WINDOW_SIZE)

window_end(start) == start + WINDOW_SIZE

-----------------------------------------------------------------------------
ROLLUP_STR == "*"
ROLLUP_NAMESPACE == -1

LEVEL_GLOBAL == 0
LEVEL_FAMILY == 1
LEVEL_WIKI == 2
LEVEL_NAMESPACE == 3

CellKey(level, family, wiki, namespace) ==
    [level |-> level, family |-> family, wiki |-> wiki, namespace |-> namespace]

global == CellKey(LEVEL_GLOBAL, ROLLUP_STR, ROLLUP_STR, ROLLUP_NAMESPACE)

\* The four cells, one per level, that one event contributes to.
cells_for_event(event) ==
    { global,
      CellKey(LEVEL_FAMILY, event.family, ROLLUP_STR, ROLLUP_NAMESPACE),
      CellKey(LEVEL_WIKI, event.family, event.wiki, ROLLUP_NAMESPACE),
      CellKey(LEVEL_NAMESPACE, event.family, event.wiki, event.namespace) }

=============================================================================
