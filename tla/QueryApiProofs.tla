--------------------------- MODULE QueryApiProofs ---------------------------
(***************************************************************************)
(* What the query API promises for every set of clients, partitions,       *)
(* windows, edits and queries and every threshold: the latest window is    *)
(* the newest complete one (LatestIsRight), what is cached stays the       *)
(* answer (CacheStaysFresh), breakdowns leave no small remainder           *)
(* (RemainderNotSmall) and lose no event (BreakdownsKeepEvents), what an   *)
(* estimated one shows is large (EstimatesShowLargeCells), and what an     *)
(* exact one releases stands for k distinct users                          *)
(* (BreakdownsAboveThreshold).                                             *)
(*                                                                         *)
(* Up to the cache the sums over rows and children stay opaque; the last   *)
(* four theorems rest on SumTheorems.                                      *)
(***************************************************************************)
EXTENDS QueryApi, SumTheorems, TLAPS

-----------------------------------------------------------------------------
(***************************************************************************)
(* Minima of watermarks.                                                   *)
(***************************************************************************)
\* A set of natural numbers that is not empty has the minimum that Min chooses.
LEMMA MinNat ==
    ASSUME NEW S, S \subseteq Nat, S # {}
    PROVE  Min(S) \in S /\ \A x \in S : Min(S) <= x
<1>1. PICK m \in S : \A x \in S : ~ (<<x, m>> \in OpToRel(<, Nat))
  BY NatLessThanWellFounded, WFMin, Zenon
<1>2. \A x \in S : ~ (x < m)
  BY <1>1 DEF OpToRel
<1>3. \A x \in S : m <= x
  BY <1>2
<1> QED BY <1>3 DEF Min

\* An instant is at or below the minimum iff it is at or below every watermark.
LEMMA BelowMin ==
    ASSUME NEW progress, DOMAIN progress # {}, NEW instant \in Int,
           \A p \in DOMAIN progress : progress[p] \in Nat
    PROVE  instant <= Min({progress[p] : p \in DOMAIN progress})
             <=> \A p \in DOMAIN progress : instant <= progress[p]
<1>1. PICK S : S = {progress[p] : p \in DOMAIN progress}
  OBVIOUS
<1>2. S \subseteq Nat /\ S # {}
  BY <1>1
<1>3. Min(S) \in S /\ \A x \in S : Min(S) <= x
  BY <1>2, MinNat
<1>4. ASSUME instant <= Min(S), NEW p \in DOMAIN progress
      PROVE  instant <= progress[p]
  <2>1. progress[p] \in S /\ Min(S) \in Nat /\ Min(S) <= progress[p]
    BY <1>1, <1>2, <1>3
  <2> QED BY <2>1, <1>4
<1>5. ASSUME \A p \in DOMAIN progress : instant <= progress[p]
      PROVE  instant <= Min(S)
  BY <1>1, <1>3, <1>5
<1> QED BY <1>1, <1>4, <1>5

-----------------------------------------------------------------------------
(***************************************************************************)
(* Watermarks and requests have their shape.                               *)
(***************************************************************************)
\* A handler's variables; its query is one that was asked, once it has been asked.
RequestOK(r) ==
    /\ r = [stage |-> r.stage, query |-> r.query,
            parent_users |-> r.parent_users, answer |-> r.answer]
    /\ r.stage # "idle" => r.query \in Queries

TypeInv ==
    /\ \A p \in DOMAIN partition_progress : partition_progress[p] \in Nat
    /\ Known \subseteq DOMAIN partition_progress
    /\ DOMAIN partition_progress \subseteq Partitions
    /\ request = [c \in Clients |-> request[c]]
    /\ \A c \in Clients : RequestOK(request[c])

\* A request as a record of its four fields.
Handler(stage, query, parent_users, answer) ==
    [stage |-> stage, query |-> query, parent_users |-> parent_users, answer |-> answer]

LEMMA HandlerOK ==
    ASSUME NEW stage, NEW query, NEW parent_users, NEW answer,
           stage # "idle" => query \in Queries
    PROVE  RequestOK(Handler(stage, query, parent_users, answer))
<1>1. PICK r : r = Handler(stage, query, parent_users, answer)
  OBVIOUS
<1>2. /\ r.stage = stage /\ r.query = query
      /\ r.parent_users = parent_users /\ r.answer = answer
  BY <1>1 DEF Handler
<1>3. r = [stage |-> r.stage, query |-> r.query,
           parent_users |-> r.parent_users, answer |-> r.answer]
  BY <1>1, <1>2 DEF Handler
<1> QED BY <1>1, <1>2, <1>3 DEF RequestOK

LEMMA InitTypeInv == Init => TypeInv
<1> SUFFICES ASSUME Init PROVE TypeInv
  OBVIOUS
<1>1. PICK q : request = [c \in Clients |-> Handler("idle", q, 0, NoAnswer)]
  BY DEF Init, Finished, Handler
<1>2. \A c \in Clients : RequestOK(request[c])
  BY <1>1, HandlerOK
<1>3. request = [c \in Clients |-> request[c]]
  BY <1>1
<1> QED BY <1>2, <1>3, KnownAssumption DEF Init, TypeInv

\* One client's handler moves; the others stand still.
Moves(c, stage, query, parent_users, answer) ==
    request' = [request EXCEPT ![c] = Handler(stage, query, parent_users, answer)]

LEMMA Moved ==
    ASSUME TypeInv, NEW c \in Clients, NEW stage, NEW query, NEW parent_users, NEW answer,
           Moves(c, stage, query, parent_users, answer)
    PROVE  /\ request'[c].stage = stage /\ request'[c].query = query
           /\ request'[c].parent_users = parent_users /\ request'[c].answer = answer
           /\ \A d \in Clients \ {c} : request'[d] = request[d]
           /\ request' = [d \in Clients |-> request'[d]]
BY DEF TypeInv, Moves, Handler

\* The step of a handler, by its outcome.
LEMMA HandlerMoves ==
    ASSUME TypeInv, NEW c \in Clients
    PROVE  LET r == request[c]
           IN  /\ \A q \in Queries : GetStats(c, q) =>
                      \/ Moves(c, "rejected", q, 0, NoAnswer)
                      \/ /\ Moves(c, "checked", q, 0, NoAnswer)
                         /\ ArgumentsOk(q) /\ complete(q.window)
               /\ \A q \in Queries : GetStatsError(c, q) => Moves(c, "failed", q, 0, NoAnswer)
               /\ CacheHit(c) =>
                      Moves(c, "done", r.query, r.parent_users, cache[cache_key(r.query)])
               /\ CacheMiss(c) => Moves(c, "miss", r.query, r.parent_users, r.answer)
               /\ FetchGlobal(c) =>
                      \E answer \in apply_dp_noise(GlobalAnswer(Cell(r.query, global))) :
                          Moves(c, "computed", r.query, r.parent_users, answer)
               /\ FetchParent(c) =>
                      Moves(c, "parent", r.query,
                            users_or_zero(Cell(r.query, parent_key(r.query))), r.answer)
               /\ FetchChildren(c) =>
                      \E children \in Children(r.query, parent_key(r.query)) :
                          \E answer \in apply_dp_noise(suppress(r.parent_users, children, K)) :
                              Moves(c, "computed", r.query, r.parent_users, answer)
               /\ Respond(c) => Moves(c, "done", r.query, r.parent_users, r.answer)
               /\ DbError(c) => Moves(c, "failed", r.query, 0, NoAnswer)
<1> DEFINE r == request[c]
<1>1. r = Handler(r.stage, r.query, r.parent_users, r.answer)
  BY DEF TypeInv, RequestOK, Handler
<1> HIDE DEF r
<1>2. ASSUME NEW h, NEW stage, NEW users, NEW answer,
             h = Handler(stage, r.query, users, answer),
             request' = [request EXCEPT ![c] = h]
      PROVE  Moves(c, stage, r.query, users, answer)
  BY <1>2 DEF Moves
<1>3. ASSUME NEW stage, NEW answer,
             request' = [request EXCEPT ![c].stage = stage, ![c].answer = answer]
      PROVE  Moves(c, stage, r.query, r.parent_users, answer)
  <2>1. request' = [request EXCEPT ![c] = [r EXCEPT !.stage = stage, !.answer = answer]]
    BY <1>3 DEF r, TypeInv
  <2>2. [r EXCEPT !.stage = stage, !.answer = answer]
            = Handler(stage, r.query, r.parent_users, answer)
    <3>1. PICK h : h = [r EXCEPT !.stage = stage]
      OBVIOUS
    <3>2. h = Handler(stage, r.query, r.parent_users, r.answer)
      BY <1>1, <3>1 DEF Handler
    <3>3. [r EXCEPT !.stage = stage, !.answer = answer] = [h EXCEPT !.answer = answer]
      BY <3>1
    <3> QED BY <3>2, <3>3 DEF Handler
  <2> QED BY <1>2, <2>1, <2>2
<1>4. ASSUME NEW stage, Step(c, stage)
      PROVE  Moves(c, stage, r.query, r.parent_users, r.answer)
  <2>1. request' = [request EXCEPT ![c] = [r EXCEPT !.stage = stage]]
    BY <1>4 DEF r, TypeInv, Step
  <2>2. [r EXCEPT !.stage = stage] = Handler(stage, r.query, r.parent_users, r.answer)
    BY <1>1 DEF Handler
  <2> QED BY <1>2, <2>1, <2>2
<1>5. ASSUME NEW users,
             request' = [request EXCEPT ![c].stage = "parent", ![c].parent_users = users]
      PROVE  Moves(c, "parent", r.query, users, r.answer)
  <2>1. request' = [request EXCEPT ![c] = [r EXCEPT !.stage = "parent", !.parent_users = users]]
    BY <1>5 DEF r, TypeInv
  <2>2. [r EXCEPT !.stage = "parent", !.parent_users = users]
            = Handler("parent", r.query, users, r.answer)
    <3>1. PICK h : h = [r EXCEPT !.stage = "parent"]
      OBVIOUS
    <3>2. h = Handler("parent", r.query, r.parent_users, r.answer)
      BY <1>1, <3>1 DEF Handler
    <3>3. [r EXCEPT !.stage = "parent", !.parent_users = users] = [h EXCEPT !.parent_users = users]
      BY <3>1
    <3> QED BY <3>2, <3>3 DEF Handler
  <2> QED BY <1>2, <2>1, <2>2
<1>6. ASSUME NEW q \in Queries, GetStats(c, q)
      PROVE  \/ Moves(c, "rejected", q, 0, NoAnswer)
             \/ /\ Moves(c, "checked", q, 0, NoAnswer)
                /\ ArgumentsOk(q) /\ complete(q.window)
  BY <1>6 DEF GetStats, Finished, Moves, Handler
<1>7. ASSUME NEW q \in Queries, GetStatsError(c, q)
      PROVE  Moves(c, "failed", q, 0, NoAnswer)
  BY <1>7 DEF GetStatsError, Finished, Moves, Handler
<1>8. CacheHit(c) => Moves(c, "done", r.query, r.parent_users, cache[cache_key(r.query)])
  BY <1>3 DEF CacheHit, r
<1>9. CacheMiss(c) => Moves(c, "miss", r.query, r.parent_users, r.answer)
  BY <1>4 DEF CacheMiss, r
<1>10. FetchGlobal(c) =>
          \E answer \in apply_dp_noise(GlobalAnswer(Cell(r.query, global))) :
              Moves(c, "computed", r.query, r.parent_users, answer)
  BY <1>3 DEF FetchGlobal, r
<1>11. FetchParent(c) =>
           Moves(c, "parent", r.query, users_or_zero(Cell(r.query, parent_key(r.query))), r.answer)
  BY <1>5 DEF FetchParent, r
<1>12. FetchChildren(c) =>
           \E children \in Children(r.query, parent_key(r.query)) :
               \E answer \in apply_dp_noise(suppress(r.parent_users, children, K)) :
                   Moves(c, "computed", r.query, r.parent_users, answer)
  BY <1>3 DEF FetchChildren, r
<1>13. Respond(c) => Moves(c, "done", r.query, r.parent_users, r.answer)
  BY <1>4 DEF Respond, r
<1>14. DbError(c) => Moves(c, "failed", r.query, 0, NoAnswer)
  BY DEF DbError, Finished, Moves, Handler, r
<1> QED BY <1>6, <1>7, <1>8, <1>9, <1>10, <1>11, <1>12, <1>13, <1>14 DEF r

\* A flush only raises the watermark of its partition.
LEMMA FlushRaises ==
    ASSUME TypeInv, NEW p \in Partitions, NEW w \in Windows, Flush(p, w)
    PROVE  /\ DOMAIN partition_progress' = DOMAIN partition_progress \cup {p}
           /\ \A q \in DOMAIN partition_progress' : partition_progress'[q] \in Nat
           /\ \A q \in DOMAIN partition_progress : partition_progress[q] <= partition_progress'[q]
<1>1. w \in Nat /\ window_end(w) \in Nat
  BY WindowsAssumption, WindowSizeAssumption DEF window_end
<1>2. PICK wm \in window_end(w)..(window_end(w) + WINDOW_SIZE - 1) :
          partition_progress' = [q \in DOMAIN partition_progress \cup {p} |->
                                    IF q = p THEN wm ELSE partition_progress[q]]
  BY DEF Flush
<1>3. wm \in Nat /\ window_end(w) <= wm
  BY <1>1, <1>2, WindowSizeAssumption
<1>4. p \in DOMAIN partition_progress => partition_progress[p] <= wm
  BY <1>1, <1>3 DEF Flush, TypeInv
<1> QED BY <1>2, <1>3, <1>4 DEF TypeInv

LEMMA NextTypeInv == TypeInv /\ [Next]_vars => TypeInv'
<1> SUFFICES ASSUME TypeInv, [Next]_vars PROVE TypeInv'
  OBVIOUS
<1>1. ASSUME NEW p \in Partitions, NEW w \in Windows, Flush(p, w)
      PROVE  TypeInv'
  <2>1. request' = request
    BY <1>1 DEF Flush
  <2> QED BY <1>1, <2>1, FlushRaises DEF TypeInv
<1>2. ASSUME NEW c \in Clients, NEW stage, NEW query \in Queries, NEW users, NEW answer,
             Moves(c, stage, query, users, answer), UNCHANGED partition_progress
      PROVE  TypeInv'
  <2>1. /\ \A d \in Clients \ {c} : request'[d] = request[d]
        /\ request' = [d \in Clients |-> request'[d]]
    BY <1>2, Moved
  <2>2. request'[c] = Handler(stage, query, users, answer)
    BY <1>2 DEF Moves, TypeInv
  <2>3. RequestOK(request'[c])
    BY <2>2, HandlerOK
  <2> QED BY <1>2, <2>1, <2>3 DEF TypeInv
<1>3. ASSUME NEW c \in Clients,
             \/ \E q \in Queries : GetStats(c, q) \/ GetStatsError(c, q)
             \/ CacheHit(c) \/ CacheMiss(c)
             \/ FetchGlobal(c) \/ FetchParent(c) \/ FetchChildren(c)
             \/ Respond(c) \/ DbError(c)
      PROVE  TypeInv'
  <2>1. UNCHANGED partition_progress
    BY <1>3 DEF GetStats, GetStatsError, CacheHit, CacheMiss, FetchGlobal, FetchParent,
                FetchChildren, Respond, DbError
  <2>2. CASE \E q \in Queries : GetStats(c, q) \/ GetStatsError(c, q)
    BY <2>1, <2>2, <1>2, HandlerMoves
  <2>3. CASE \/ CacheHit(c) \/ CacheMiss(c)
             \/ FetchGlobal(c) \/ FetchParent(c) \/ FetchChildren(c)
             \/ Respond(c) \/ DbError(c)
    <3>1. request[c].query \in Queries
      BY <2>3 DEF CacheHit, CacheMiss, FetchGlobal, FetchParent, FetchChildren, Respond, DbError,
                  Running, TypeInv, RequestOK
    <3> QED BY <2>1, <2>3, <3>1, <1>2, HandlerMoves
  <2> QED BY <1>3, <2>2, <2>3
<1>4. CASE (\E key \in DOMAIN cache : Evict(key)) \/ UNCHANGED vars
  BY <1>4 DEF Evict, vars, TypeInv
<1> QED BY <1>1, <1>3, <1>4 DEF Next

LEMMA AlwaysTypeInv == Spec => []TypeInv
  BY InitTypeInv, NextTypeInv, PTL DEF Spec

-----------------------------------------------------------------------------
(***************************************************************************)
(* GET /v1/windows/latest.                                                 *)
(***************************************************************************)
LEMMA LatestComplete == TypeInv => LatestIsNewestComplete
<1> SUFFICES ASSUME TypeInv, DOMAIN partition_progress # {}
             PROVE  complete(get_latest_window) /\ ~ complete(get_latest_window + WINDOW_SIZE)
  BY DEF LatestIsNewestComplete
<1>1. PICK m : m = min_flushed_watermark
  OBVIOUS
<1>2. m \in Nat
  <2>1. PICK S : S = {partition_progress[p] : p \in DOMAIN partition_progress}
    OBVIOUS
  <2>2. S \subseteq Nat /\ S # {} /\ m = Min(S)
    BY <1>1, <2>1 DEF TypeInv, min_flushed_watermark
  <2> QED BY <2>2, MinNat
<1>3. m % WINDOW_SIZE \in 0..(WINDOW_SIZE - 1)
  BY <1>2, WindowSizeAssumption
<1>4. PICK start : start = get_latest_window
  OBVIOUS
<1>5. start = m - (m % WINDOW_SIZE) - WINDOW_SIZE
  BY <1>1, <1>4 DEF get_latest_window, window_start
<1>6. start + WINDOW_SIZE <= m /\ ~ (start + WINDOW_SIZE + WINDOW_SIZE <= m)
  BY <1>2, <1>3, <1>5, WindowSizeAssumption
<1> QED BY <1>1, <1>4, <1>6 DEF complete, window_end

\* Wherever inside a window the smallest watermark lies, /v1/windows/latest names a
\* window that /v1/stats finds complete, and the window after it is not.
THEOREM LatestIsRight == Spec => []LatestIsNewestComplete
  BY AlwaysTypeInv, LatestComplete, PTL

-----------------------------------------------------------------------------
(***************************************************************************)
(* The counts that suppress() releases.                                    *)
(***************************************************************************)
AboveThreshold(answer) == \A cell \in CellsOf(answer) : cell.users >= K

\* suppress() releases no child and no "Other" row below the threshold, whatever the
\* children, their order and the parent's users.
LEMMA SuppressAbove ==
    ASSUME NEW parent_users, NEW children
    PROVE  AboveThreshold(suppress(parent_users, children, K))
<1>1. PICK hidden, effective :
          /\ PrimaryHidden(children, K) \subseteq hidden
          /\ suppress(parent_users, children, K) =
                 [visible |-> {children[j] : j \in DOMAIN children \ hidden},
                  other   |-> OtherRow(children, hidden, effective, K)]
  BY Zenon DEF suppress
<1>2. \A j \in DOMAIN children \ hidden : children[j].users >= K
  BY <1>1 DEF PrimaryHidden
<1>3. \A row \in OtherRow(children, hidden, effective, K) : row.users >= K
  BY DEF OtherRow
<1> QED BY <1>1, <1>2, <1>3 DEF AboveThreshold, CellsOf

-----------------------------------------------------------------------------
(***************************************************************************)
(* The cache.                                                              *)
(***************************************************************************)
\* Every partition has flushed once, so its watermark takes part in the minimum.
EveryPartitionKnown == Known = Partitions

\* The stages after the completeness check.
UnderWay == {"checked", "miss", "parent", "computed", "done"}

\* What the check has found out.
Answerable(q) == ArgumentsOk(q) /\ complete(q.window)

\* What is cached under the key of a request.
CachedIsFresh(q) ==
    ArgumentsOk(q) /\ cache_key(q) \in DOMAIN cache =>
        Answerable(q) /\ cache[cache_key(q)] \in Answers(q)

\* From the completeness check on a request is about a window whose rows are final; what
\* it has read, what it has computed and what is cached are what the tables hold now.
FreshInv ==
    /\ \A c \in Clients :
          /\ request[c].stage \in UnderWay => Answerable(request[c].query)
          /\ request[c].stage = "parent" =>
                /\ request[c].query.level # LEVEL_GLOBAL
                /\ request[c].parent_users
                     = users_or_zero(Cell(request[c].query, parent_key(request[c].query)))
          /\ request[c].stage \in {"computed", "done"} =>
                request[c].answer \in Answers(request[c].query)
    /\ \A q \in Queries : CachedIsFresh(q)

LEMMA InitFreshInv == Init => FreshInv
  BY DEF Init, FreshInv, CachedIsFresh, Finished, UnderWay

\* A complete window stays complete: watermarks only rise.
LEMMA StaysComplete ==
    ASSUME TypeInv, NEW p \in Partitions, NEW w \in Windows, Flush(p, w), EveryPartitionKnown,
           NEW window \in Int, complete(window)
    PROVE  complete(window)'
<1>1. window_end(window) \in Int
  BY WindowSizeAssumption DEF window_end
<1>2. \A q \in DOMAIN partition_progress : window_end(window) <= partition_progress[q]
  BY <1>1, BelowMin DEF complete, min_flushed_watermark, TypeInv
<1>3. /\ DOMAIN partition_progress' = DOMAIN partition_progress
      /\ DOMAIN partition_progress # {}
      /\ \A q \in DOMAIN partition_progress : partition_progress'[q] \in Nat
  BY FlushRaises DEF TypeInv, EveryPartitionKnown, complete
<1>4. ASSUME NEW q \in DOMAIN partition_progress'
      PROVE  window_end(window) <= partition_progress'[q]
  <2>1. /\ window_end(window) <= partition_progress[q]
        /\ partition_progress[q] <= partition_progress'[q]
        /\ partition_progress[q] \in Nat /\ partition_progress'[q] \in Nat
    BY <1>2, <1>3, FlushRaises DEF TypeInv
  <2> QED BY <1>1, <2>1
<1>5. window_end(window) <= Min({partition_progress'[q] : q \in DOMAIN partition_progress'})
  BY <1>1, <1>3, <1>4, BelowMin
<1> QED BY <1>3, <1>5 DEF complete, min_flushed_watermark, window_end

\* No partition flushes a complete window again.
LEMMA FlushElsewhere ==
    ASSUME TypeInv, NEW p \in Partitions, NEW w \in Windows, Flush(p, w), EveryPartitionKnown,
           NEW window \in Int, complete(window)
    PROVE  w # window
<1>1. window_end(window) \in Int
  BY WindowSizeAssumption DEF window_end
<1>2. p \in DOMAIN partition_progress
  BY DEF TypeInv, EveryPartitionKnown
<1>3. window_end(window) <= partition_progress[p]
  BY <1>1, <1>2, BelowMin DEF complete, min_flushed_watermark, TypeInv
<1>4. window_end(w) > partition_progress[p]
  BY <1>2 DEF Flush
<1> QED BY <1>1, <1>2, <1>3, <1>4 DEF TypeInv

\* A flush leaves the rows of other windows alone.
LEMMA OtherRowsStay ==
    ASSUME NEW p, NEW w, Flush(p, w), NEW window, window # w
    PROVE  /\ \A c : RowsOf(window, c)' = RowsOf(window, c)
           /\ {k \in DOMAIN agg_cells : k[1] = window}'
                = {k \in DOMAIN agg_cells : k[1] = window}
<1>1. PICK edits, rows :
          /\ DOMAIN rows = {<<w, c, p>> : c \in Touched(edits)}
          /\ agg_cells' = [key \in DOMAIN agg_cells \cup DOMAIN rows |->
                              IF key \in DOMAIN rows THEN rows[key] ELSE agg_cells[key]]
  BY DEF Flush
<1>2. \A key \in DOMAIN rows : key[1] = w
  BY <1>1
<1>3. ASSUME NEW c PROVE RowsOf(window, c)' = RowsOf(window, c)
  <2>1. {key \in DOMAIN agg_cells' : key[1] = window /\ key[2] = c}
          = {key \in DOMAIN agg_cells : key[1] = window /\ key[2] = c}
    BY <1>1, <1>2
  <2>2. \A key \in {key \in DOMAIN agg_cells : key[1] = window /\ key[2] = c} :
            agg_cells'[key] = agg_cells[key]
    BY <1>1, <1>2
  <2> QED BY <2>1, <2>2 DEF RowsOf, Restrict
<1>4. {k \in DOMAIN agg_cells' : k[1] = window} = {k \in DOMAIN agg_cells : k[1] = window}
  BY <1>1, <1>2
<1> QED BY <1>3, <1>4

\* Unchanged rows give the same reads and the same answers.
LEMMA SameReads ==
    ASSUME NEW q, \A c : RowsOf(q.window, c)' = RowsOf(q.window, c),
           {k \in DOMAIN agg_cells : k[1] = q.window}'
             = {k \in DOMAIN agg_cells : k[1] = q.window}
    PROVE  /\ \A c : Cell(q, c)' = Cell(q, c)
           /\ \A c : Children(q, c)' = Children(q, c)
           /\ Answers(q)' = Answers(q)
<1>1. \A c : fetch_cell(q.window, c)' = fetch_cell(q.window, c)
  BY DEF fetch_cell
<1>2. \A c : CellHll(q.window, c)' = CellHll(q.window, c)
  BY <1>1 DEF CellHll
<1>3. ASSUME NEW c PROVE Cell(q, c)' = Cell(q, c)
  <2>1. fetch_cell_hll(q.window, c)' = fetch_cell_hll(q.window, c)
    BY <1>2 DEF fetch_cell_hll
  <2> QED BY <1>1, <2>1 DEF Cell
<1>4. \A c : ChildKeys(q.window, c)' = ChildKeys(q.window, c)
  BY DEF ChildKeys
<1>5. ASSUME NEW c PROVE Children(q, c)' = Children(q, c)
  <2>1. {fetch_cell(q.window, d) : d \in ChildKeys(q.window, c)}'
          = {fetch_cell(q.window, d) : d \in ChildKeys(q.window, c)}
    BY <1>1, <1>4
  <2>2. {CellHll(q.window, d) : d \in ChildKeys(q.window, c)}'
          = {CellHll(q.window, d) : d \in ChildKeys(q.window, c)}
    BY <1>2, <1>4
  <2>3. fetch_children(q.window, c)' = fetch_children(q.window, c)
    BY <2>1 DEF fetch_children
  <2>4. fetch_children_hll(q.window, c)' = fetch_children_hll(q.window, c)
    BY <2>2 DEF fetch_children_hll
  <2> QED BY <2>3, <2>4 DEF Children
<1>6. Answers(q)' = Answers(q)
  <2>1. GlobalAnswer(Cell(q, global))' = GlobalAnswer(Cell(q, global))
    BY <1>3
  <2>2. {suppress(users_or_zero(Cell(q, parent_key(q))), children, K) :
             children \in Children(q, parent_key(q))}'
          = {suppress(users_or_zero(Cell(q, parent_key(q))), children, K) :
             children \in Children(q, parent_key(q))}
    BY <1>3, <1>5
  <2> QED BY <2>1, <2>2 DEF Answers
<1> QED BY <1>3, <1>5, <1>6

LEMMA FlushFresh ==
    ASSUME TypeInv, FreshInv, EveryPartitionKnown,
           NEW p \in Partitions, NEW w \in Windows, Flush(p, w)
    PROVE  FreshInv'
<1>1. request' = request /\ cache' = cache
  BY DEF Flush
<1>2. ASSUME NEW q \in Queries, Answerable(q)
      PROVE  /\ Answerable(q)'
             /\ \A c : Cell(q, c)' = Cell(q, c)
             /\ Answers(q)' = Answers(q)
  <2>1. q.window \in Int
    BY QueriesAssumption
  <2>2. w # q.window
    BY <1>2, <2>1, FlushElsewhere DEF Answerable
  <2>3. Answerable(q)'
    BY <1>2, <2>1, StaysComplete DEF Answerable, ArgumentsOk
  <2>4. /\ \A c : RowsOf(q.window, c)' = RowsOf(q.window, c)
        /\ {k \in DOMAIN agg_cells : k[1] = q.window}'
             = {k \in DOMAIN agg_cells : k[1] = q.window}
    BY <2>2, OtherRowsStay
  <2> QED BY <2>3, <2>4, SameReads
<1>3. ASSUME NEW c \in Clients, request[c].stage \in UnderWay
      PROVE  /\ Answerable(request[c].query)'
             /\ \A d : Cell(request[c].query, d)' = Cell(request[c].query, d)
             /\ Answers(request[c].query)' = Answers(request[c].query)
  <2>1. PICK q : q = request[c].query
    OBVIOUS
  <2>2. q \in Queries /\ Answerable(q)
    BY <1>3, <2>1 DEF TypeInv, RequestOK, FreshInv, UnderWay
  <2>3. Answerable(q)' /\ (\A d : Cell(q, d)' = Cell(q, d)) /\ Answers(q)' = Answers(q)
    BY <1>2, <2>2
  <2> QED BY <1>1, <2>1, <2>3
<1>4. \A q \in Queries : CachedIsFresh(q)'
  BY <1>1, <1>2 DEF FreshInv, CachedIsFresh, ArgumentsOk
<1> QED BY <1>1, <1>3, <1>4 DEF FreshInv, UnderWay

\* A step that leaves the tables alone changes no read and no answer.
LEMMA SameTables ==
    ASSUME UNCHANGED <<agg_cells, partition_progress>>, NEW q
    PROVE  /\ Answerable(q)' <=> Answerable(q)
           /\ \A c : Cell(q, c)' = Cell(q, c)
           /\ Answers(q)' = Answers(q)
<1>1. /\ \A c : RowsOf(q.window, c)' = RowsOf(q.window, c)
      /\ {k \in DOMAIN agg_cells : k[1] = q.window}'
           = {k \in DOMAIN agg_cells : k[1] = q.window}
  BY DEF RowsOf, Restrict
<1>2. Answerable(q)' <=> Answerable(q)
  BY DEF Answerable, complete, min_flushed_watermark
<1> QED BY <1>1, <1>2, SameReads

\* One handler moves: what has to hold of it.
LEMMA MovedFresh ==
    ASSUME TypeInv, FreshInv, UNCHANGED <<agg_cells, partition_progress, cache>>,
           NEW c \in Clients, NEW stage, NEW query, NEW users, NEW answer,
           Moves(c, stage, query, users, answer),
           stage \in UnderWay => Answerable(query),
           stage = "parent" =>
               /\ query.level # LEVEL_GLOBAL
               /\ users = users_or_zero(Cell(query, parent_key(query))),
           stage \in {"computed", "done"} => answer \in Answers(query)
    PROVE  FreshInv'
<1>1. /\ request'[c].stage = stage /\ request'[c].query = query
      /\ request'[c].parent_users = users /\ request'[c].answer = answer
      /\ \A d \in Clients \ {c} : request'[d] = request[d]
  BY Moved
<1>2. ASSUME NEW d \in Clients, NEW r, r = request'[d]
      PROVE  /\ r.stage \in UnderWay => Answerable(r.query)'
             /\ r.stage = "parent" =>
                    /\ r.query.level # LEVEL_GLOBAL
                    /\ r.parent_users = users_or_zero(Cell(r.query, parent_key(r.query))')
             /\ r.stage \in {"computed", "done"} => r.answer \in Answers(r.query)'
  <2>1. /\ r.stage \in UnderWay => Answerable(r.query)
        /\ r.stage = "parent" =>
               /\ r.query.level # LEVEL_GLOBAL
               /\ r.parent_users = users_or_zero(Cell(r.query, parent_key(r.query)))
        /\ r.stage \in {"computed", "done"} => r.answer \in Answers(r.query)
    <3>1. CASE d = c
      BY <1>1, <1>2, <3>1
    <3>2. CASE d # c
      BY <1>1, <1>2, <3>2 DEF FreshInv
    <3> QED BY <3>1, <3>2
  <2>2. /\ Answerable(r.query)' <=> Answerable(r.query)
        /\ \A e : Cell(r.query, e)' = Cell(r.query, e)
        /\ Answers(r.query)' = Answers(r.query)
    BY SameTables
  <2> QED BY <2>1, <2>2
<1>3. \A q \in Queries : CachedIsFresh(q)'
  BY SameTables DEF FreshInv, CachedIsFresh
<1> QED BY <1>2, <1>3 DEF FreshInv

\* Requests with the same cache key have the same answers.
LEMMA SameKey ==
    ASSUME KeysTellApart, NEW q \in Queries, NEW s \in Queries, ArgumentsOk(q), ArgumentsOk(s),
           cache_key(q) = cache_key(s)
    PROVE  q.window = s.window /\ Answers(q) = Answers(s)
<1>1. /\ q.window = s.window /\ q.level = s.level /\ q.estimator = s.estimator
      /\ q.level > LEVEL_GLOBAL => parent_key(q) = parent_key(s)
  BY DEF KeysTellApart
<1>2. \A c : Cell(q, c) = Cell(s, c) /\ Children(q, c) = Children(s, c)
  BY <1>1 DEF Cell, Children
<1>3. q.level = LEVEL_GLOBAL \/ q.level > LEVEL_GLOBAL
  BY DEF ArgumentsOk, LEVEL_GLOBAL, LEVEL_NAMESPACE
<1> QED BY <1>1, <1>2, <1>3 DEF Answers

LEMMA NextFreshInv ==
    ASSUME ~ DP_ENABLED, EveryPartitionKnown, KeysTellApart
    PROVE  TypeInv /\ FreshInv /\ [Next]_vars => FreshInv'
<1> SUFFICES ASSUME TypeInv, FreshInv, [Next]_vars PROVE FreshInv'
  OBVIOUS
<1>1. CASE \E p \in Partitions, w \in Windows : Flush(p, w)
  BY <1>1, FlushFresh
<1>2. ASSUME NEW c \in Clients, NEW q \in Queries, GetStats(c, q) \/ GetStatsError(c, q)
      PROVE  FreshInv'
  <2>1. UNCHANGED <<agg_cells, partition_progress, cache>>
    BY <1>2 DEF GetStats, GetStatsError
  <2>2. \/ Moves(c, "rejected", q, 0, NoAnswer) \/ Moves(c, "failed", q, 0, NoAnswer)
        \/ Moves(c, "checked", q, 0, NoAnswer) /\ Answerable(q)
    BY <1>2, HandlerMoves DEF Answerable
  <2> QED BY <2>1, <2>2, MovedFresh DEF UnderWay
<1>3. ASSUME NEW c \in Clients, CacheHit(c) \/ DbError(c)
      PROVE  FreshInv'
  <2>1. UNCHANGED <<agg_cells, partition_progress, cache>>
    BY <1>3 DEF CacheHit, DbError
  <2>2. CASE CacheHit(c)
    <3>1. PICK q : q = request[c].query /\ cache_key(q) \in DOMAIN cache
      BY <2>2 DEF CacheHit
    <3>2. q \in Queries /\ ArgumentsOk(q)
      BY <2>2, <3>1 DEF CacheHit, Running, TypeInv, RequestOK, FreshInv, UnderWay, Answerable
    <3>3. Answerable(q) /\ cache[cache_key(q)] \in Answers(q)
      BY <3>1, <3>2 DEF FreshInv, CachedIsFresh
    <3>4. Moves(c, "done", q, request[c].parent_users, cache[cache_key(q)])
      BY <2>2, <3>1, HandlerMoves
    <3> QED BY <2>1, <3>3, <3>4, MovedFresh
  <2>3. CASE DbError(c)
    <3>1. Moves(c, "failed", request[c].query, 0, NoAnswer)
      BY <2>3, HandlerMoves
    <3> QED BY <2>1, <3>1, MovedFresh DEF UnderWay
  <2> QED BY <1>3, <2>2, <2>3
<1>4. ASSUME NEW c \in Clients, CacheMiss(c)
      PROVE  FreshInv'
  <2>1. UNCHANGED <<agg_cells, partition_progress, cache>> /\ request[c].stage = "checked"
    BY <1>4 DEF CacheMiss, Running
  <2>2. Answerable(request[c].query)
    BY <2>1 DEF FreshInv, UnderWay
  <2>3. Moves(c, "miss", request[c].query, request[c].parent_users, request[c].answer)
    BY <1>4, HandlerMoves
  <2> QED BY <2>1, <2>2, <2>3, MovedFresh
<1>5. ASSUME NEW c \in Clients, FetchGlobal(c)
      PROVE  FreshInv'
  <2>1. /\ UNCHANGED <<agg_cells, partition_progress, cache>>
        /\ request[c].stage = "miss" /\ request[c].query.level = LEVEL_GLOBAL
    BY <1>5 DEF FetchGlobal, Running
  <2>2. Answerable(request[c].query)
    BY <2>1 DEF FreshInv, UnderWay
  <2>3. PICK answer \in apply_dp_noise(GlobalAnswer(Cell(request[c].query, global))) :
            Moves(c, "computed", request[c].query, request[c].parent_users, answer)
    BY <1>5, HandlerMoves
  <2>4. answer \in Answers(request[c].query)
    BY <2>1, <2>3 DEF apply_dp_noise, Answers
  <2> QED BY <2>1, <2>2, <2>3, <2>4, MovedFresh
<1>6. ASSUME NEW c \in Clients, FetchParent(c)
      PROVE  FreshInv'
  <2>1. /\ UNCHANGED <<agg_cells, partition_progress, cache>>
        /\ request[c].stage = "miss" /\ request[c].query.level # LEVEL_GLOBAL
    BY <1>6 DEF FetchParent, Running, LEVEL_GLOBAL
  <2>2. Answerable(request[c].query)
    BY <2>1 DEF FreshInv, UnderWay
  <2>3. Moves(c, "parent", request[c].query,
              users_or_zero(Cell(request[c].query, parent_key(request[c].query))),
              request[c].answer)
    BY <1>6, HandlerMoves
  <2> QED BY <2>1, <2>2, <2>3, MovedFresh
<1>7. ASSUME NEW c \in Clients, FetchChildren(c)
      PROVE  FreshInv'
  <2>1. UNCHANGED <<agg_cells, partition_progress, cache>> /\ request[c].stage = "parent"
    BY <1>7 DEF FetchChildren, Running
  <2>2. /\ Answerable(request[c].query)
        /\ request[c].query.level # LEVEL_GLOBAL
        /\ request[c].parent_users
             = users_or_zero(Cell(request[c].query, parent_key(request[c].query)))
    BY <2>1 DEF FreshInv, UnderWay
  <2>3. PICK children, answer :
            /\ children \in Children(request[c].query, parent_key(request[c].query))
            /\ answer \in apply_dp_noise(suppress(request[c].parent_users, children, K))
            /\ Moves(c, "computed", request[c].query, request[c].parent_users, answer)
    BY <1>7, HandlerMoves
  <2>4. answer = suppress(request[c].parent_users, children, K)
    BY <2>3 DEF apply_dp_noise
  <2>5. answer \in Answers(request[c].query)
    BY <2>2, <2>3, <2>4 DEF Answers
  <2> QED BY <2>1, <2>2, <2>3, <2>5, MovedFresh
<1>8. ASSUME NEW c \in Clients, Respond(c)
      PROVE  FreshInv'
  <2>1. /\ UNCHANGED <<agg_cells, partition_progress>>
        /\ request[c].stage = "computed"
        /\ cache' = [key \in DOMAIN cache \cup {cache_key(request[c].query)} |->
                        IF key = cache_key(request[c].query) THEN request[c].answer
                                                             ELSE cache[key]]
    BY <1>8 DEF Respond, Running
  <2>2. /\ request[c].query \in Queries /\ Answerable(request[c].query)
        /\ request[c].answer \in Answers(request[c].query)
    BY <2>1 DEF TypeInv, RequestOK, FreshInv, UnderWay
  <2>3. ASSUME NEW q \in Queries PROVE CachedIsFresh(q)'
    <3> SUFFICES ASSUME ArgumentsOk(q), cache_key(q) \in DOMAIN cache'
                 PROVE  Answerable(q) /\ cache'[cache_key(q)] \in Answers(q)
      BY <2>1, SameTables DEF CachedIsFresh
    <3>1. CASE cache_key(q) = cache_key(request[c].query)
      <4>1. PICK s \in Queries : s = request[c].query
        BY <2>2
      <4>2. Answerable(s) /\ request[c].answer \in Answers(s) /\ cache_key(s) = cache_key(q)
        BY <2>2, <3>1, <4>1
      <4>3. Answerable(q) /\ Answers(q) = Answers(s)
        BY <4>2, SameKey DEF Answerable
      <4> QED BY <2>1, <3>1, <4>2, <4>3
    <3>2. CASE cache_key(q) # cache_key(request[c].query)
      BY <2>1, <3>2 DEF FreshInv, CachedIsFresh
    <3> QED BY <3>1, <3>2
  <2>4. Moves(c, "done", request[c].query, request[c].parent_users, request[c].answer)
    BY <1>8, HandlerMoves
  <2>5. /\ request'[c].stage = "done" /\ request'[c].query = request[c].query
        /\ request'[c].answer = request[c].answer
        /\ \A d \in Clients \ {c} : request'[d] = request[d]
    BY <2>4, Moved
  <2>6. ASSUME NEW d \in Clients, NEW r, r = request'[d]
        PROVE  /\ r.stage \in UnderWay => Answerable(r.query)'
               /\ r.stage = "parent" =>
                      /\ r.query.level # LEVEL_GLOBAL
                      /\ r.parent_users = users_or_zero(Cell(r.query, parent_key(r.query))')
               /\ r.stage \in {"computed", "done"} => r.answer \in Answers(r.query)'
    <3>1. /\ r.stage \in UnderWay => Answerable(r.query)
          /\ r.stage = "parent" =>
                 /\ r.query.level # LEVEL_GLOBAL
                 /\ r.parent_users = users_or_zero(Cell(r.query, parent_key(r.query)))
          /\ r.stage \in {"computed", "done"} => r.answer \in Answers(r.query)
      <4>1. CASE d = c
        BY <2>2, <2>5, <2>6, <4>1
      <4>2. CASE d # c
        BY <2>5, <2>6, <4>2 DEF FreshInv
      <4> QED BY <4>1, <4>2
    <3>2. /\ Answerable(r.query)' <=> Answerable(r.query)
          /\ \A e : Cell(r.query, e)' = Cell(r.query, e)
          /\ Answers(r.query)' = Answers(r.query)
      BY <2>1, SameTables
    <3> QED BY <3>1, <3>2
  <2> QED BY <2>3, <2>6 DEF FreshInv
<1>9. CASE (\E key \in DOMAIN cache : Evict(key)) \/ UNCHANGED vars
  <2>1. /\ UNCHANGED <<agg_cells, partition_progress, request>>
        /\ DOMAIN cache' \subseteq DOMAIN cache
        /\ \A key \in DOMAIN cache' : cache'[key] = cache[key]
    BY <1>9 DEF Evict, vars
  <2>2. \A q \in Queries : CachedIsFresh(q)'
    BY <2>1, SameTables DEF FreshInv, CachedIsFresh
  <2>3. ASSUME NEW d \in Clients, NEW r, r = request[d]
        PROVE  /\ r.stage \in UnderWay => Answerable(r.query)'
               /\ r.stage = "parent" =>
                      /\ r.query.level # LEVEL_GLOBAL
                      /\ r.parent_users = users_or_zero(Cell(r.query, parent_key(r.query))')
               /\ r.stage \in {"computed", "done"} => r.answer \in Answers(r.query)'
    BY <2>1, <2>3, SameTables DEF FreshInv
  <2> QED BY <2>1, <2>2, <2>3 DEF FreshInv
<1> QED BY <1>1, <1>2, <1>3, <1>4, <1>5, <1>6, <1>7, <1>8, <1>9 DEF Next

LEMMA AlwaysFreshInv ==
    ASSUME ~ DP_ENABLED, EveryPartitionKnown, KeysTellApart
    PROVE  Spec => []FreshInv
<1>1. Init => FreshInv
  BY InitFreshInv
<1>2. TypeInv /\ FreshInv /\ [Next]_vars => FreshInv'
  BY NextFreshInv
<1> QED BY <1>1, <1>2, AlwaysTypeInv, PTL DEF Spec

\* When every partition has a progress row, keys tell requests apart and no noise is
\* added, a cached answer is for ever one that the tables would give: although the parent
\* and its children are read in two statements, other requests and flushes run in
\* between, and nothing is invalidated.
THEOREM CacheStaysFresh ==
    ASSUME ~ DP_ENABLED, EveryPartitionKnown, KeysTellApart
    PROVE  Spec => []CacheFresh
<1>1. FreshInv => CacheFresh
  BY DEF FreshInv, CachedIsFresh, CacheFresh
<1>2. Spec => []FreshInv
  BY AlwaysFreshInv
<1> QED BY <1>1, <1>2, PTL

-----------------------------------------------------------------------------
(***************************************************************************)
(* What suppress() leaves out.                                             *)
(***************************************************************************)
\* Children as a sequence of cells with counts, each child once.
Listed(children) ==
    /\ IsFiniteSet(DOMAIN children) /\ DOMAIN children \subseteq Nat
    /\ \A j \in DOMAIN children : children[j].users \in Nat /\ children[j].events \in Nat
    /\ \A i, j \in DOMAIN children : children[i] = children[j] => i = j

\* Sums over the children, split and bounded.
LEMMA ChildSums ==
    ASSUME NEW children, Listed(children), NEW S \in SUBSET DOMAIN children
    PROVE  /\ SumUsers(children, S) \in Nat /\ SumEvents(children, S) \in Nat
           /\ \A A \in SUBSET S :
                 SumUsers(children, S) = SumUsers(children, A) + SumUsers(children, S \ A)
           /\ \A A \in SUBSET S :
                 SumEvents(children, S) = SumEvents(children, A) + SumEvents(children, S \ A)
           /\ \A j \in S : children[j].users <= SumUsers(children, S)
<1>1. PICK f : f = [j \in DOMAIN children |-> children[j].users]
  OBVIOUS
<1>2. PICK e : e = [j \in DOMAIN children |-> children[j].events]
  OBVIOUS
<1>3. IsFiniteSet(DOMAIN f) /\ (\A x \in DOMAIN f : f[x] \in Int) /\ S \in SUBSET DOMAIN f
  BY <1>1 DEF Listed
<1>4. IsFiniteSet(DOMAIN e) /\ (\A x \in DOMAIN e : e[x] \in Int) /\ S \in SUBSET DOMAIN e
  BY <1>2 DEF Listed
<1>5. \A A \in SUBSET S : /\ SumUsers(children, A) = SumFunction(Part(f, A))
                          /\ SumEvents(children, A) = SumFunction(Part(e, A))
  <2> SUFFICES ASSUME NEW A \in SUBSET S
               PROVE  /\ SumUsers(children, A) = SumFunction(Part(f, A))
                      /\ SumEvents(children, A) = SumFunction(Part(e, A))
    OBVIOUS
  <2>1. [j \in A |-> children[j].users] = Part(f, A)
    BY <1>1 DEF Part
  <2>2. [j \in A |-> children[j].events] = Part(e, A)
    BY <1>2 DEF Part
  <2> QED BY <2>1, <2>2 DEF SumUsers, SumEvents
<1>6. ASSUME NEW A \in SUBSET S
      PROVE  /\ SumUsers(children, S) = SumUsers(children, A) + SumUsers(children, S \ A)
             /\ SumEvents(children, S) = SumEvents(children, A) + SumEvents(children, S \ A)
  <2>1. SumFunction(Part(f, S)) = SumFunction(Part(f, A)) + SumFunction(Part(f, S \ A))
    BY <1>3, SumSplit
  <2>2. SumFunction(Part(e, S)) = SumFunction(Part(e, A)) + SumFunction(Part(e, S \ A))
    BY <1>4, SumSplit
  <2> QED BY <1>5, <2>1, <2>2
<1>7. /\ IsFiniteSet(DOMAIN Part(f, S)) /\ (\A j \in DOMAIN Part(f, S) : Part(f, S)[j] \in Nat)
      /\ IsFiniteSet(DOMAIN Part(e, S)) /\ (\A j \in DOMAIN Part(e, S) : Part(e, S)[j] \in Nat)
      /\ DOMAIN Part(f, S) = S /\ (\A j \in S : Part(f, S)[j] = children[j].users)
  BY <1>1, <1>2, <1>3, <1>4, FS_Subset DEF Part, Listed
<1>8. /\ SumFunction(Part(f, S)) \in Nat /\ SumFunction(Part(e, S)) \in Nat
      /\ \A j \in S : children[j].users <= SumFunction(Part(f, S))
  BY <1>7, SumNat
<1> QED BY <1>5, <1>6, <1>8

\* The cells of some children are those children, one for one.
LEMMA CellSums ==
    ASSUME NEW children, Listed(children), NEW S \in SUBSET DOMAIN children,
           NEW cells, cells = {children[j] : j \in S}
    PROVE  /\ SumFunction([cell \in cells |-> cell.users]) = SumUsers(children, S)
           /\ SumFunction([cell \in cells |-> cell.events]) = SumEvents(children, S)
<1>1. IsFiniteSet(S)
  BY FS_Subset DEF Listed
<1>2. PICK b : b = [j \in S |-> children[j]]
  OBVIOUS
<1>3. SumFunction([cell \in cells |-> cell.users]) = SumUsers(children, S)
  <2>1. PICK f : f = [j \in S |-> children[j].users]
    OBVIOUS
  <2>2. PICK e : e = [cell \in cells |-> cell.users]
    OBVIOUS
  <2>3. IsFiniteSet(DOMAIN f) /\ \A x \in DOMAIN f : f[x] \in Int
    BY <1>1, <2>1 DEF Listed
  <2>4. /\ \A x \in DOMAIN f : b[x] \in DOMAIN e /\ e[b[x]] = f[x]
        /\ \A x, y \in DOMAIN f : b[x] = b[y] => x = y
        /\ \A z \in DOMAIN e : \E x \in DOMAIN f : z = b[x]
    BY <1>2, <2>1, <2>2 DEF Listed
  <2>5. SumFunction(e) = SumFunction(f)
    BY <2>3, <2>4, SumRenamed
  <2> QED BY <2>1, <2>2, <2>5 DEF SumUsers
<1>4. SumFunction([cell \in cells |-> cell.events]) = SumEvents(children, S)
  <2>1. PICK f : f = [j \in S |-> children[j].events]
    OBVIOUS
  <2>2. PICK e : e = [cell \in cells |-> cell.events]
    OBVIOUS
  <2>3. IsFiniteSet(DOMAIN f) /\ \A x \in DOMAIN f : f[x] \in Int
    BY <1>1, <2>1 DEF Listed
  <2>4. /\ \A x \in DOMAIN f : b[x] \in DOMAIN e /\ e[b[x]] = f[x]
        /\ \A x, y \in DOMAIN f : b[x] = b[y] => x = y
        /\ \A z \in DOMAIN e : \E x \in DOMAIN f : z = b[x]
    BY <1>2, <2>1, <2>2 DEF Listed
  <2>5. SumFunction(e) = SumFunction(f)
    BY <2>3, <2>4, SumRenamed
  <2> QED BY <2>1, <2>2, <2>5 DEF SumEvents
<1> QED BY <1>3, <1>4

\* As many as there are: all of them.
LEMMA SmallestAll ==
    ASSUME NEW children, Listed(children), NEW S \in SUBSET DOMAIN children
    PROVE  Smallest(children, S, Cardinality(S)) = S
<1> DEFINE Before(i, j) == \/ children[i].users < children[j].users
                           \/ children[i].users = children[j].users /\ i < j
<1>1. IsFiniteSet(S)
  BY FS_Subset DEF Listed
<1>2. ASSUME NEW j \in S
      PROVE  Cardinality({i \in S : Before(i, j)}) < Cardinality(S)
  <2>1. PICK T : T = {i \in S : Before(i, j)}
    OBVIOUS
  <2>2. j \notin T /\ T \in SUBSET S
    BY <2>1 DEF Listed
  <2>3. /\ Cardinality(T) <= Cardinality(S)
        /\ Cardinality(T) # Cardinality(S)
        /\ Cardinality(T) \in Nat /\ Cardinality(S) \in Nat
    <3>1. /\ IsFiniteSet(T) /\ Cardinality(T) <= Cardinality(S)
          /\ Cardinality(S) = Cardinality(T) => S = T
      BY <1>1, <2>2, FS_Subset
    <3> QED BY <1>1, <2>2, <3>1, FS_CardinalityType
  <2> QED BY <2>1, <2>3
<1> QED BY <1>2 DEF Smallest

\* suppress() ends with some children hidden, all below the threshold among them.  What
\* it takes for the hidden group's users is the residual and the users of the hidden
\* children; that is none or at least k, or else every child is hidden.
LEMMA SuppressShape ==
    ASSUME NEW children, Listed(children), NEW users \in Nat, NEW k \in Nat \ {0}
    PROVE  \E hidden, effective :
              /\ PrimaryHidden(children, k) \subseteq hidden /\ hidden \subseteq DOMAIN children
              /\ suppress(users, children, k) =
                     [visible |-> {children[j] : j \in DOMAIN children \ hidden},
                      other   |-> OtherRow(children, hidden, effective, k)]
              /\ effective = SaturatingSub(users, SumUsers(children, DOMAIN children))
                               + SumUsers(children, hidden)
              /\ effective = 0 \/ effective >= k \/ hidden = DOMAIN children
<1>1. PICK primary : primary = PrimaryHidden(children, k)
  OBVIOUS
<1>2. PICK shown : shown = DOMAIN children \ primary
  OBVIOUS
<1>3. PICK residual : residual = SaturatingSub(users, SumUsers(children, DOMAIN children))
  OBVIOUS
<1>4. primary \in SUBSET DOMAIN children /\ shown \in SUBSET DOMAIN children
  BY <1>1, <1>2 DEF PrimaryHidden
<1>5. Cardinality(shown) \in Nat
  BY <1>4, FS_Subset, FS_CardinalityType DEF Listed
<1>6. residual \in Nat
  <2>1. SumUsers(children, DOMAIN children) \in Nat
    BY ChildSums
  <2> QED BY <1>3, <2>1 DEF SaturatingSub
<1>7. \A n : HiddenEffective(users, children, k, n)
               = SumUsers(children, primary) + residual
                   + SumUsers(children, Smallest(children, shown, n))
  BY <1>1, <1>2, <1>3 DEF HiddenEffective
<1>8. PICK n : n = PullCount(users, children, k)
  OBVIOUS
<1> DEFINE Stop(m) == \/ HiddenEffective(users, children, k, m) = 0
                      \/ HiddenEffective(users, children, k, m) >= k
                      \/ m = Cardinality(shown)
           stops == {m \in 0..Cardinality(shown) : Stop(m)}
<1>9. n = Min(stops)
  BY <1>1, <1>2, <1>8 DEF PullCount
<1>10. n \in stops /\ \A m \in stops : n <= m
  <2>1. Cardinality(shown) \in stops
    BY <1>5
  <2>2. stops \subseteq Nat
    BY <1>5
  <2> HIDE DEF stops
  <2> QED BY <1>9, <2>1, <2>2, MinNat
<1>11. PICK pulled : pulled = Smallest(children, shown, n)
  OBVIOUS
<1>12. pulled \in SUBSET shown
  BY <1>11 DEF Smallest
<1>13. PICK hidden : hidden = primary \cup pulled
  OBVIOUS
<1>14. hidden \in SUBSET DOMAIN children /\ hidden \ primary = pulled /\ primary \in SUBSET hidden
  BY <1>2, <1>4, <1>12, <1>13
<1>15. PICK effective : effective = HiddenEffective(users, children, k, n)
  OBVIOUS
<1>16. /\ SumUsers(children, hidden) = SumUsers(children, primary) + SumUsers(children, pulled)
       /\ SumUsers(children, primary) \in Nat /\ SumUsers(children, pulled) \in Nat
  <2>1. SumUsers(children, hidden)
          = SumUsers(children, primary) + SumUsers(children, hidden \ primary)
    BY <1>14, ChildSums
  <2>2. pulled \in SUBSET DOMAIN children
    BY <1>14
  <2>3. SumUsers(children, primary) \in Nat /\ SumUsers(children, pulled) \in Nat
    BY <1>4, <2>2, ChildSums
  <2> QED BY <1>14, <2>1, <2>3
<1>17. effective = residual + SumUsers(children, hidden)
  BY <1>6, <1>7, <1>11, <1>15, <1>16
<1>18. effective = 0 \/ effective >= k \/ hidden = DOMAIN children
  <2>1. CASE n = Cardinality(shown)
    <3>1. pulled = shown
      BY <1>4, <1>11, <2>1, SmallestAll
    <3> QED BY <1>2, <1>4, <1>13, <3>1
  <2>2. CASE n # Cardinality(shown)
    BY <1>10, <1>15, <2>2
  <2> QED BY <2>1, <2>2
<1>19. suppress(users, children, k) =
           [visible |-> {children[j] : j \in DOMAIN children \ hidden},
            other   |-> OtherRow(children, hidden, effective, k)]
  BY <1>1, <1>2, <1>8, <1>11, <1>13, <1>15, Zenon DEF suppress
<1> QED BY <1>1, <1>3, <1>14, <1>17, <1>18, <1>19

-----------------------------------------------------------------------------
(***************************************************************************)
(* The rows in the table.                                                  *)
(***************************************************************************)
\* The rows of one window on one partition are those of a set of edits.
RowsFrom(w, p, edits) ==
    /\ {key \in DOMAIN agg_cells : key[1] = w /\ key[3] = p} = {<<w, c, p>> : c \in Touched(edits)}
    /\ \A c \in Touched(edits) : agg_cells[<<w, c, p>>] = Counts(p, edits, c)

\* What a partition may have flushed of a window, if it has.
Flushable(p) == Edits[p] \cup {{}}

\* A partition's rows of a window are written once, and its watermark then passes the window.
RowsInv ==
    /\ IsFiniteSet(DOMAIN agg_cells)
    /\ \A key \in DOMAIN agg_cells :
          /\ key = <<key[1], key[2], key[3]>> /\ key[1] \in Windows
          /\ key[3] \in DOMAIN partition_progress
          /\ window_end(key[1]) <= partition_progress[key[3]]
    /\ \A w : \A p \in Partitions : \E edits \in Flushable(p) :
          IsFiniteSet(edits) /\ RowsFrom(w, p, edits)

LEMMA CellsFinite == \A event : IsFiniteSet(cells_for_event(event))
<1> SUFFICES ASSUME NEW event PROVE IsFiniteSet(cells_for_event(event))
  OBVIOUS
<1>1. PICK a, b, c, d : cells_for_event(event) = {a, b, c, d}
  BY DEF cells_for_event
<1>2. IsFiniteSet({a}) /\ IsFiniteSet({a} \cup {b})
  BY FS_Singleton, FS_AddElement
<1>3. IsFiniteSet(({a} \cup {b}) \cup {c})
  BY <1>2, FS_AddElement
<1>4. IsFiniteSet((({a} \cup {b}) \cup {c}) \cup {d})
  BY <1>3, FS_AddElement
<1>5. (({a} \cup {b}) \cup {c}) \cup {d} = {a, b, c, d}
  OBVIOUS
<1> QED BY <1>1, <1>4, <1>5

LEMMA TouchedFinite ==
    ASSUME NEW edits, IsFiniteSet(edits)
    PROVE  IsFiniteSet(Touched(edits))
<1>1. PICK S : S = {cells_for_event(EditEvent(edit)) : edit \in edits}
  OBVIOUS
<1>2. [edit \in edits |-> cells_for_event(EditEvent(edit))] \in Surjection(edits, S)
  BY <1>1 DEF Surjection
<1>3. IsFiniteSet(S)
  BY <1>2, FS_Surjection
<1>4. \A T \in S : IsFiniteSet(T)
  BY <1>1, CellsFinite
<1> QED BY <1>1, <1>3, <1>4, FS_UNION DEF Touched

LEMMA InitRowsInv == Init => RowsInv
<1> SUFFICES ASSUME Init PROVE RowsInv
  OBVIOUS
<1>1. DOMAIN agg_cells = {}
  BY DEF Init
<1>2. Touched({}) = {}
  BY DEF Touched
<1>3. \A w, p : RowsFrom(w, p, {})
  BY <1>1, <1>2 DEF RowsFrom
<1> QED BY <1>1, <1>3, FS_EmptySet DEF RowsInv, Flushable

LEMMA FlushRowsInv ==
    ASSUME TypeInv, RowsInv, NEW p \in Partitions, NEW w \in Windows, Flush(p, w)
    PROVE  RowsInv'
<1>1. PICK edits \in Edits[p] :
          agg_cells' = [key \in DOMAIN agg_cells \cup {<<w, c, p>> : c \in Touched(edits)} |->
                           IF key \in {<<w, c, p>> : c \in Touched(edits)}
                           THEN Counts(p, edits, key[2])
                           ELSE agg_cells[key]]
  BY DEF Flush
<1>2. PICK new : new = {<<w, c, p>> : c \in Touched(edits)}
  OBVIOUS
<1>3. /\ DOMAIN agg_cells' = DOMAIN agg_cells \cup new
      /\ \A key \in DOMAIN agg_cells \ new : agg_cells'[key] = agg_cells[key]
      /\ \A key \in new : agg_cells'[key] = Counts(p, edits, key[2])
  BY <1>1, <1>2
<1>4. ASSUME NEW c \in Touched(edits)
      PROVE  agg_cells'[<<w, c, p>>] = Counts(p, edits, c)
  <2>1. <<w, c, p>> \in new
    BY <1>2
  <2> QED BY <1>3, <2>1
<1>5. IsFiniteSet(edits)
  BY EditsAssumption
<1>6. IsFiniteSet(new)
  <2>1. [c \in Touched(edits) |-> <<w, c, p>>] \in Surjection(Touched(edits), new)
    BY <1>2 DEF Surjection
  <2> QED BY <1>5, <2>1, TouchedFinite, FS_Surjection
<1>7. IsFiniteSet(DOMAIN agg_cells')
  <2>1. PICK old : old = DOMAIN agg_cells
    OBVIOUS
  <2>2. IsFiniteSet(old)
    BY <2>1 DEF RowsInv
  <2>3. IsFiniteSet(old \cup new)
    BY <1>6, <2>2, FS_Union
  <2> QED BY <1>3, <2>1, <2>3
<1>8. PICK wm \in window_end(w)..(window_end(w) + WINDOW_SIZE - 1) :
          partition_progress' = [q \in DOMAIN partition_progress \cup {p} |->
                                    IF q = p THEN wm ELSE partition_progress[q]]
  BY DEF Flush
<1>9. w \in Nat /\ window_end(w) \in Nat /\ wm \in Nat /\ window_end(w) <= wm
  BY <1>8, WindowsAssumption, WindowSizeAssumption DEF window_end
<1>10. ASSUME NEW key \in DOMAIN agg_cells'
       PROVE  /\ key = <<key[1], key[2], key[3]>> /\ key[1] \in Windows
              /\ key[3] \in DOMAIN partition_progress'
              /\ window_end(key[1]) <= partition_progress'[key[3]]
  <2>1. CASE key \in new
    <3>1. PICK c : key = <<w, c, p>>
      BY <1>2, <2>1
    <3>2. key[1] = w /\ key[3] = p /\ key = <<key[1], key[2], key[3]>>
      BY <3>1
    <3>3. p \in DOMAIN partition_progress' /\ partition_progress'[p] = wm
      BY <1>8
    <3> QED BY <1>9, <3>2, <3>3
  <2>2. CASE key \in DOMAIN agg_cells
    <3>1. /\ key = <<key[1], key[2], key[3]>> /\ key[1] \in Windows
          /\ key[3] \in DOMAIN partition_progress
          /\ window_end(key[1]) <= partition_progress[key[3]]
      BY <2>2 DEF RowsInv
    <3>2. partition_progress[key[3]] <= partition_progress'[key[3]]
      BY <3>1, FlushRaises
    <3>3. window_end(key[1]) \in Nat
      <4>1. PICK start \in Nat : start = key[1]
        BY <3>1, WindowsAssumption
      <4>2. start + WINDOW_SIZE \in Nat
        BY WindowSizeAssumption
      <4> QED BY <4>1, <4>2 DEF window_end
    <3>4. key[3] \in DOMAIN partition_progress'
      BY <3>1, FlushRaises
    <3>5. partition_progress[key[3]] \in Nat /\ partition_progress'[key[3]] \in Nat
      BY <3>1, <3>4, FlushRaises DEF TypeInv
    <3> QED BY <3>1, <3>2, <3>3, <3>4, <3>5
  <2> QED BY <1>3, <2>1, <2>2
<1>11. \A key \in DOMAIN agg_cells : ~ (key[1] = w /\ key[3] = p)
  <2> SUFFICES ASSUME NEW key \in DOMAIN agg_cells, key[1] = w, key[3] = p
               PROVE  FALSE
    OBVIOUS
  <2>1. p \in DOMAIN partition_progress /\ window_end(w) <= partition_progress[p]
    BY DEF RowsInv
  <2>2. window_end(w) > partition_progress[p] /\ partition_progress[p] \in Nat
    BY <2>1 DEF Flush, TypeInv
  <2> QED BY <1>9, <2>1, <2>2
<1>12. ASSUME NEW v, NEW r \in Partitions
       PROVE  \E e \in Flushable(r) : IsFiniteSet(e) /\ RowsFrom(v, r, e)'
  <2>1. CASE v = w /\ r = p
    <3>1. {key \in DOMAIN agg_cells' : key[1] = w /\ key[3] = p} = new
      BY <1>2, <1>3, <1>11
    <3>2. RowsFrom(w, p, edits)'
      BY <1>2, <1>4, <3>1 DEF RowsFrom
    <3> QED BY <1>1, <1>5, <2>1, <3>2 DEF Flushable
  <2>2. CASE ~ (v = w /\ r = p)
    <3>1. PICK e \in Flushable(r) : IsFiniteSet(e) /\ RowsFrom(v, r, e)
      BY DEF RowsInv
    <3>2. \A key \in new : ~ (key[1] = v /\ key[3] = r)
      BY <1>2, <2>2
    <3>3. {key \in DOMAIN agg_cells' : key[1] = v /\ key[3] = r}
            = {key \in DOMAIN agg_cells : key[1] = v /\ key[3] = r}
      BY <1>3, <3>2
    <3>4. ASSUME NEW c \in Touched(e)
          PROVE  agg_cells'[<<v, c, r>>] = agg_cells[<<v, c, r>>]
      <4>1. <<v, c, r>> \in DOMAIN agg_cells
        BY <3>1 DEF RowsFrom
      <4>2. <<v, c, r>> \notin new
        BY <3>2
      <4> QED BY <1>3, <4>1, <4>2
    <3>5. RowsFrom(v, r, e)'
      BY <3>1, <3>3, <3>4 DEF RowsFrom
    <3> QED BY <3>1, <3>5
  <2> QED BY <2>1, <2>2
<1> QED BY <1>7, <1>10, <1>12 DEF RowsInv

LEMMA NextRowsInv == TypeInv /\ RowsInv /\ [Next]_vars => RowsInv'
<1> SUFFICES ASSUME TypeInv, RowsInv, [Next]_vars PROVE RowsInv'
  OBVIOUS
<1>1. CASE \E p \in Partitions, w \in Windows : Flush(p, w)
  BY <1>1, FlushRowsInv
<1>2. CASE UNCHANGED <<agg_cells, partition_progress>>
  BY <1>2 DEF RowsInv, RowsFrom
<1>3. CASE ~ \E p \in Partitions, w \in Windows : Flush(p, w)
  <2>1. UNCHANGED <<agg_cells, partition_progress>>
    BY <1>3 DEF Next, vars, GetStats, GetStatsError, CacheHit, CacheMiss, FetchGlobal, FetchParent,
                FetchChildren, Respond, DbError, Evict
  <2> QED BY <1>2, <2>1
<1> QED BY <1>1, <1>3

LEMMA AlwaysRowsInv == Spec => []RowsInv
  BY InitRowsInv, NextRowsInv, AlwaysTypeInv, PTL DEF Spec

-----------------------------------------------------------------------------
(***************************************************************************)
(* What the queries read.                                                  *)
(***************************************************************************)
\* A row counts at least one user, the users who are behind it, and its sketch is of them.
LEMMA RowCounts ==
    ASSUME TypeInv, RowsInv, NEW key \in DOMAIN agg_cells
    PROVE  /\ agg_cells[key].events \in Nat
           /\ agg_cells[key].users \in Nat /\ agg_cells[key].users >= 1
           /\ \E users : /\ IsFiniteSet(users) /\ users # {}
                         /\ agg_cells[key].users = Cardinality(users)
                         /\ agg_cells[key].users_hll = UsersHll(key[3], users)
                         /\ agg_cells[key].who = users
<1>1. PICK w, c, p : key = <<w, c, p>> /\ p \in Partitions
  BY DEF RowsInv, TypeInv
<1>2. PICK edits : IsFiniteSet(edits) /\ RowsFrom(w, p, edits)
  BY <1>1 DEF RowsInv
<1>3. key \in {<<w, d, p>> : d \in Touched(edits)}
  BY <1>1, <1>2 DEF RowsFrom
<1>4. c \in Touched(edits) /\ agg_cells[key] = Counts(p, edits, c)
  BY <1>1, <1>2, <1>3 DEF RowsFrom
<1>5. PICK inCell : inCell = {edit \in edits : c \in cells_for_event(EditEvent(edit))}
  OBVIOUS
<1>6. IsFiniteSet(inCell) /\ inCell # {}
  <2>1. inCell \in SUBSET edits
    BY <1>5
  <2> QED BY <1>2, <1>4, <1>5, <2>1, FS_Subset DEF Touched
<1>7. PICK users : users = {edit[1] : edit \in inCell}
  OBVIOUS
<1>8. IsFiniteSet(users) /\ users # {}
  <2>1. [edit \in inCell |-> edit[1]] \in Surjection(inCell, users)
    BY <1>7 DEF Surjection
  <2> QED BY <1>6, <1>7, <2>1, FS_Surjection
<1>9. /\ Cardinality(inCell) \in Nat
      /\ Cardinality(users) \in Nat /\ Cardinality(users) # 0
  BY <1>6, <1>8, FS_CardinalityType, FS_EmptySet
<1>10. /\ agg_cells[key].events = Cardinality(inCell)
       /\ agg_cells[key].users = Cardinality(users)
       /\ agg_cells[key].users_hll = UsersHll(p, users)
       /\ agg_cells[key].who = users
  BY <1>4, <1>5, <1>7 DEF Counts
<1>11. key[3] = p
  BY <1>1
<1> QED BY <1>8, <1>9, <1>10, <1>11

\* A cell's counts; a cell with a row has a user.
LEMMA CellCounts ==
    ASSUME TypeInv, RowsInv, NEW w, NEW c
    PROVE  /\ fetch_cell(w, c).key = c
           /\ fetch_cell(w, c).users \in Nat /\ fetch_cell(w, c).events \in Nat
           /\ DOMAIN RowsOf(w, c) # {} => fetch_cell(w, c).users >= 1
<1>1. PICK rows : rows = RowsOf(w, c)
  OBVIOUS
<1>2. /\ DOMAIN rows \in SUBSET DOMAIN agg_cells
      /\ \A key \in DOMAIN rows : rows[key] = agg_cells[key]
  BY <1>1 DEF RowsOf, Restrict
<1>3. IsFiniteSet(DOMAIN rows)
  BY <1>2, FS_Subset DEF RowsInv
<1>4. \A key \in DOMAIN rows :
          rows[key].events \in Nat /\ rows[key].users \in Nat /\ rows[key].users >= 1
  BY <1>2, RowCounts
<1>5. PICK f : f = [key \in DOMAIN rows |-> rows[key].users]
  OBVIOUS
<1>6. PICK e : e = [key \in DOMAIN rows |-> rows[key].events]
  OBVIOUS
<1>7. /\ fetch_cell(w, c).key = c
      /\ fetch_cell(w, c).users = SumFunction(f) /\ fetch_cell(w, c).events = SumFunction(e)
  BY <1>1, <1>5, <1>6 DEF fetch_cell, Summed
<1>8. SumFunction(f) \in Nat /\ \A x \in DOMAIN f : f[x] <= SumFunction(f)
  <2>1. IsFiniteSet(DOMAIN f) /\ \A x \in DOMAIN f : f[x] \in Nat
    BY <1>3, <1>4, <1>5
  <2> QED BY <2>1, SumNat
<1>9. SumFunction(e) \in Nat
  <2>1. IsFiniteSet(DOMAIN e) /\ \A x \in DOMAIN e : e[x] \in Nat
    BY <1>3, <1>4, <1>6
  <2> QED BY <2>1, SumNat
<1>10. ASSUME DOMAIN rows # {} PROVE SumFunction(f) >= 1
  <2>1. PICK key \in DOMAIN rows : TRUE
    BY <1>10
  <2>2. f[key] \in Nat /\ f[key] >= 1 /\ f[key] <= SumFunction(f)
    BY <1>4, <1>5, <1>8
  <2> QED BY <1>8, <2>2
<1> QED BY <1>1, <1>7, <1>8, <1>9, <1>10

-----------------------------------------------------------------------------
(***************************************************************************)
(* Estimates.  A sketch is a fold of insert over users, or of merge over   *)
(* sketches.                                                               *)
(***************************************************************************)
\* One step of the fold of that kind.
Absorb(kind, x, sketch) ==
    IF kind = "insert" THEN insert(sketch, Hash[x]) ELSE merge(x, sketch)

\* g gives every subset of D the fold over it.
Sketches(kind, D, g) ==
    g = [s \in SUBSET D |->
            IF s = {} THEN EmptySketch ELSE Absorb(kind, Pick(s), g[s \ {Pick(s)}])]

\* There is such a g: for the subsets of at most n elements, for every n.
LEMMA SketchesExist ==
    ASSUME NEW D, IsFiniteSet(D), NEW kind
    PROVE  \E g : Sketches(kind, D, g)
<1> DEFINE Small(n) == {s \in SUBSET D : Cardinality(s) <= n}
           Partial(n, g) ==
              g = [s \in Small(n) |->
                      IF s = {} THEN EmptySketch ELSE Absorb(kind, Pick(s), g[s \ {Pick(s)}])]
           bad == {n \in Nat : ~ \E g : Partial(n, g)}
<1>1. \A s \in SUBSET D : IsFiniteSet(s) /\ Cardinality(s) \in Nat
  BY FS_Subset, FS_CardinalityType
<1>2. bad = {}
  <2> SUFFICES ASSUME bad # {} PROVE FALSE
    OBVIOUS
  <2>1. PICK n \in bad : \A m \in bad : ~ (<<m, n>> \in OpToRel(<, Nat))
    <3>1. bad \subseteq Nat
      OBVIOUS
    <3> HIDE DEF bad
    <3> QED BY <3>1, NatLessThanWellFounded, WFMin, Zenon
  <2>2. CASE n = 0
    <3>1. \A s \in Small(0) : s = {}
      BY <1>1, FS_EmptySet
    <3>2. PICK g : g = [s \in Small(0) |-> EmptySketch]
      OBVIOUS
    <3>3. Partial(0, g)
      BY <3>1, <3>2
    <3> QED BY <2>1, <2>2, <3>3
  <2>3. CASE n # 0
    <3>1. n - 1 \in Nat /\ <<n - 1, n>> \in OpToRel(<, Nat)
      BY <2>3 DEF OpToRel
    <3>2. PICK h : Partial(n - 1, h)
      BY <2>1, <3>1
    <3>3. PICK g : g = [s \in Small(n) |->
                           IF s = {} THEN EmptySketch
                                     ELSE Absorb(kind, Pick(s), h[s \ {Pick(s)}])]
      OBVIOUS
    <3>4. ASSUME NEW s \in Small(n), s # {}
          PROVE  h[s \ {Pick(s)}] = g[s \ {Pick(s)}]
      <4>1. Pick(s) \in s
        BY <3>4 DEF Pick
      <4>2. PICK t : t = s \ {Pick(s)}
        OBVIOUS
      <4>3. Cardinality(t) = Cardinality(s) - 1 /\ t \in SUBSET D
        BY <1>1, <4>1, <4>2, FS_RemoveElement
      <4>4. t \in Small(n - 1) /\ t \in Small(n)
        BY <1>1, <4>3
      <4>5. h[t] = IF t = {} THEN EmptySketch ELSE Absorb(kind, Pick(t), h[t \ {Pick(t)}])
        BY <3>2, <4>4
      <4>6. g[t] = IF t = {} THEN EmptySketch ELSE Absorb(kind, Pick(t), h[t \ {Pick(t)}])
        BY <3>3, <4>4
      <4> QED BY <4>2, <4>5, <4>6
    <3>5. Partial(n, g)
      <4> HIDE DEF Small
      <4> QED BY <3>3, <3>4
    <3> QED BY <2>1, <3>5
  <2> QED BY <2>2, <2>3
<1>3. PICK g : Partial(Cardinality(D), g)
  BY <1>1, <1>2
<1>4. Small(Cardinality(D)) = SUBSET D
  BY FS_Subset
<1> QED BY <1>3, <1>4 DEF Sketches

\* The registers that one element can set.
RegistersOf(kind, x) == IF kind = "insert" THEN {Index(Hash[x])} ELSE DOMAIN x

\* An item's rank is at least one, so inserting it sets its register.
LEMMA RhoPositive == \A hash : Rho(hash) > 0
<1> SUFFICES ASSUME NEW hash PROVE Rho(hash) > 0
  OBVIOUS
<1>1. PICK zeros : zeros = leading_zeros((hash * 2^PRECISION) % 2^HASH_BITS)
  OBVIOUS
<1>2. zeros \in Nat
  <2>1. PICK n : n = (hash * 2^PRECISION) % 2^HASH_BITS
    OBVIOUS
  <2>2. PICK S : S = {b \in 1..HASH_BITS : n < 2^(HASH_BITS - b)}
    OBVIOUS
  <2>3. IsFiniteSet(1..HASH_BITS) /\ S \in SUBSET (1..HASH_BITS)
    BY <2>2, PrecisionAssumption, FS_Interval
  <2>4. Cardinality(S) \in Nat
    BY <2>3, FS_Subset, FS_CardinalityType
  <2> QED BY <1>1, <2>1, <2>2, <2>4 DEF leading_zeros
<1>3. PICK S : S = {zeros + 1, HASH_BITS - PRECISION}
  OBVIOUS
<1>4. S \subseteq Nat /\ S # {} /\ \A x \in S : x > 0
  BY <1>2, <1>3, PrecisionAssumption
<1>5. Min(S) \in S
  BY <1>4, MinNat
<1>6. Rho(hash) = Min(S)
  BY <1>1, <1>3 DEF Rho
<1> QED BY <1>4, <1>5, <1>6

\* A sketch uses the registers that its elements set.
LEMMA SketchRegisters ==
    ASSUME NEW D, IsFiniteSet(D), NEW kind, NEW g, Sketches(kind, D, g)
    PROVE  DOMAIN g[D] = UNION {RegistersOf(kind, x) : x \in D}
<1> DEFINE Good(S) == DOMAIN g[S] = UNION {RegistersOf(kind, x) : x \in S}
           bad == {S \in SUBSET D : ~ Good(S)}
<1>1. bad = {}
  <2> SUFFICES ASSUME bad # {} PROVE FALSE
    OBVIOUS
  <2>1. PICK S \in bad : \A T \in SUBSET S : T # S => T \notin bad
    <3>1. bad \subseteq SUBSET D
      OBVIOUS
    <3> HIDE DEF bad
    <3> QED BY <3>1, SmallestSubset
  <2>2. g[S] = IF S = {} THEN EmptySketch ELSE Absorb(kind, Pick(S), g[S \ {Pick(S)}])
    BY <2>1 DEF Sketches
  <2>3. S # {}
    BY <2>1, <2>2 DEF EmptySketch
  <2>4. PICK x : x = Pick(S)
    OBVIOUS
  <2>5. x \in S
    BY <2>3, <2>4 DEF Pick
  <2>6. PICK rest : rest = g[S \ {x}]
    OBVIOUS
  <2>7. DOMAIN rest = UNION {RegistersOf(kind, y) : y \in S \ {x}}
    <3>1. S \ {x} \in SUBSET D /\ S \ {x} \in SUBSET S /\ S \ {x} # S
      BY <2>1, <2>5
    <3>2. Good(S \ {x})
      BY <2>1, <3>1
    <3> QED BY <2>6, <3>2
  <2>8. DOMAIN Absorb(kind, x, rest) = DOMAIN rest \cup RegistersOf(kind, x)
    <3>1. CASE kind = "insert"
      <4>1. Rho(Hash[x]) > 0
        BY RhoPositive
      <4>2. DOMAIN insert(rest, Hash[x]) = DOMAIN rest \cup {Index(Hash[x])}
        BY <4>1 DEF insert, register
      <4> QED BY <3>1, <4>2 DEF Absorb, RegistersOf
    <3>2. CASE kind # "insert"
      BY <3>2 DEF Absorb, RegistersOf, merge
    <3> QED BY <3>1, <3>2
  <2>9. g[S] = Absorb(kind, x, rest)
    BY <2>2, <2>3, <2>4, <2>6
  <2>10. Good(S)
    BY <2>5, <2>7, <2>8, <2>9, Zenon
  <2> QED BY <2>1, <2>10
<1>2. D \in SUBSET D
  OBVIOUS
<1> QED BY <1>1, <1>2

\* Each user sets one register; some may set the same.
LEMMA UsersSketch ==
    ASSUME NEW p, NEW users, IsFiniteSet(users), NEW sketch \in UsersHll(p, users)
    PROVE  /\ IsFiniteSet(DOMAIN sketch) /\ Cardinality(DOMAIN sketch) <= Cardinality(users)
           /\ users # {} => DOMAIN sketch # {}
<1>1. PICK g : g = CHOOSE h : Sketches("insert", users, h)
  OBVIOUS
<1>2. Sketches("insert", users, g)
  BY <1>1, SketchesExist
<1>3. sketch = g[users]
  BY <1>1, Zenon DEF UsersHll, FoldSet, MapThenFoldSet, Sketches, Absorb, Pick
<1>4. PICK used : used = {Index(Hash[x]) : x \in users}
  OBVIOUS
<1>5. DOMAIN sketch = used
  <2>1. DOMAIN sketch = UNION {RegistersOf("insert", x) : x \in users}
    BY <1>2, <1>3, SketchRegisters
  <2>2. \A x : RegistersOf("insert", x) = {Index(Hash[x])}
    BY DEF RegistersOf
  <2> QED BY <1>4, <2>1, <2>2
<1>6. IsFiniteSet(used) /\ Cardinality(used) <= Cardinality(users)
  <2>1. [x \in users |-> Index(Hash[x])] \in Surjection(users, used)
    BY <1>4 DEF Surjection
  <2> QED BY <2>1, FS_Surjection
<1> QED BY <1>4, <1>5, <1>6

\* The registers that the sketches of a row use.
RowRegisters(key) == UNION {DOMAIN sketch : sketch \in agg_cells[key].users_hll}

\* There are at most as many of them as the row has users.
LEMMA RowSketches ==
    ASSUME TypeInv, RowsInv, NEW key \in DOMAIN agg_cells
    PROVE  /\ IsFiniteSet(agg_cells[key].users_hll)
           /\ IsFiniteSet(RowRegisters(key))
           /\ Cardinality(RowRegisters(key)) <= agg_cells[key].users
           /\ key[3] \in HllPartitions => RowRegisters(key) # {}
<1>0. PICK p : p = key[3]
  OBVIOUS
<1>1. PICK users : /\ IsFiniteSet(users) /\ users # {}
                   /\ agg_cells[key].users = Cardinality(users)
                   /\ agg_cells[key].users_hll = UsersHll(p, users)
  BY <1>0, RowCounts
<1>2. PICK hll : hll = UsersHll(p, users)
  OBVIOUS
<1>3. (hll = {} /\ p \notin HllPartitions) \/ \E sketch : hll = {sketch}
  BY <1>2 DEF UsersHll
<1>4. CASE hll = {} /\ p \notin HllPartitions
  <2>1. RowRegisters(key) = {}
    BY <1>1, <1>2, <1>4 DEF RowRegisters
  <2>2. IsFiniteSet({}) /\ Cardinality({}) = 0 /\ Cardinality(users) \in Nat
    BY <1>1, FS_EmptySet, FS_CardinalityType
  <2>3. Cardinality(RowRegisters(key)) <= agg_cells[key].users
    BY <1>1, <2>1, <2>2
  <2> QED BY <1>0, <1>1, <1>2, <1>4, <2>1, <2>2, <2>3
<1>5. ASSUME NEW sketch, hll = {sketch}
      PROVE  /\ IsFiniteSet(agg_cells[key].users_hll)
             /\ IsFiniteSet(RowRegisters(key))
             /\ Cardinality(RowRegisters(key)) <= agg_cells[key].users
             /\ RowRegisters(key) # {}
  <2>1. RowRegisters(key) = DOMAIN sketch
    BY <1>1, <1>2, <1>5 DEF RowRegisters
  <2>2. /\ IsFiniteSet(DOMAIN sketch) /\ Cardinality(DOMAIN sketch) <= Cardinality(users)
        /\ DOMAIN sketch # {}
    BY <1>1, <1>2, <1>5, UsersSketch
  <2>3. IsFiniteSet(hll)
    BY <1>5, FS_Singleton
  <2> QED BY <1>1, <1>2, <2>1, <2>2, <2>3
<1> QED BY <1>0, <1>3, <1>4, <1>5

\* The merged sketch of a cell uses the registers of its rows, at most as many as the cell
\* has users by the exact count.
LEMMA MergedRegisters ==
    ASSUME TypeInv, RowsInv, NEW w, NEW c
    PROVE  \E sketch : /\ MergedUsers(RowsOf(w, c)) = estimate(sketch)
                       /\ IsFiniteSet(DOMAIN sketch)
                       /\ Cardinality(DOMAIN sketch) <= fetch_cell(w, c).users
                       /\ \A key \in DOMAIN RowsOf(w, c) : RowRegisters(key) \subseteq DOMAIN sketch
<1>1. PICK rows : rows = RowsOf(w, c)
  OBVIOUS
<1>2. /\ DOMAIN rows \in SUBSET DOMAIN agg_cells
      /\ \A key \in DOMAIN rows : rows[key] = agg_cells[key]
  BY <1>1 DEF RowsOf, Restrict
<1>3. IsFiniteSet(DOMAIN rows)
  BY <1>2, FS_Subset DEF RowsInv
<1>4. PICK all : all = UNION {rows[key].users_hll : key \in DOMAIN rows}
  OBVIOUS
<1>5. IsFiniteSet(all)
  <2>1. PICK sets : sets = {rows[key].users_hll : key \in DOMAIN rows}
    OBVIOUS
  <2>2. [key \in DOMAIN rows |-> rows[key].users_hll] \in Surjection(DOMAIN rows, sets)
    BY <2>1 DEF Surjection
  <2>3. IsFiniteSet(sets)
    BY <1>3, <2>2, FS_Surjection
  <2>4. \A hll \in sets : IsFiniteSet(hll)
    BY <1>2, <2>1, RowSketches
  <2> QED BY <1>4, <2>1, <2>3, <2>4, FS_UNION
<1>6. PICK g : g = CHOOSE h : Sketches("merge", all, h)
  OBVIOUS
<1>7. Sketches("merge", all, g)
  BY <1>5, <1>6, SketchesExist
<1>8. PICK sketch : sketch = g[all]
  OBVIOUS
<1>9. MergedUsers(rows) = estimate(sketch)
  <2>1. FoldSet(merge, EmptySketch, all) = sketch
    BY <1>6, <1>8, Zenon DEF FoldSet, MapThenFoldSet, Sketches, Absorb, Pick
  <2> QED BY <1>4, <2>1 DEF MergedUsers
<1>10. PICK f : f = [key \in DOMAIN rows |-> rows[key].users]
  OBVIOUS
<1>11. PICK s : s = [key \in DOMAIN rows |-> RowRegisters(key)]
  OBVIOUS
<1>12. /\ IsFiniteSet(DOMAIN f) /\ \A x \in DOMAIN f : f[x] \in Nat
       /\ \A x \in DOMAIN f : IsFiniteSet(s[x]) /\ Cardinality(s[x]) <= f[x]
  BY <1>2, <1>3, <1>10, <1>11, RowCounts, RowSketches
<1>13. PICK used : used = UNION {s[x] : x \in DOMAIN f}
  OBVIOUS
<1>14. IsFiniteSet(used) /\ Cardinality(used) <= SumFunction(f)
  BY <1>12, <1>13, UnionBound
<1>15. DOMAIN sketch = used
  <2>1. DOMAIN sketch = UNION {RegistersOf("merge", x) : x \in all}
    BY <1>5, <1>7, <1>8, SketchRegisters
  <2>2. \A x : RegistersOf("merge", x) = DOMAIN x
    BY DEF RegistersOf
  <2>3. \A x \in all : \E key \in DOMAIN f : DOMAIN x \subseteq s[key]
    BY <1>2, <1>4, <1>10, <1>11 DEF RowRegisters
  <2>4. DOMAIN sketch \subseteq used
    BY <1>13, <2>1, <2>2, <2>3
  <2>5. \A key \in DOMAIN f : \A reg \in s[key] : \E x \in all : reg \in DOMAIN x
    BY <1>2, <1>4, <1>10, <1>11 DEF RowRegisters
  <2>6. used \subseteq DOMAIN sketch
    BY <1>13, <2>1, <2>2, <2>5
  <2> QED BY <2>4, <2>6
<1>16. \A key \in DOMAIN rows : RowRegisters(key) \subseteq DOMAIN sketch
  BY <1>10, <1>11, <1>13, <1>15
<1>17. fetch_cell(w, c).users = SumFunction(f) /\ SumFunction(f) \in Int
  <2>1. fetch_cell(w, c).users = SumFunction(f)
    BY <1>1, <1>10 DEF fetch_cell, Summed
  <2> QED BY <2>1, CellCounts
<1>18. Cardinality(DOMAIN sketch) <= fetch_cell(w, c).users
  BY <1>14, <1>15, <1>17
<1> QED BY <1>1, <1>9, <1>14, <1>15, <1>16, <1>18

\* The quotient of n * c and less than n more is c.
LEMMA Quotient ==
    ASSUME NEW n \in Nat, n > 0, NEW c \in Nat, NEW r \in Nat, r < n
    PROVE  (n * c + r) \div n = c
<1>1. PICK a \in Nat : a = n * c + r
  OBVIOUS
<1>2. PICK t \in Int : t = a \div n /\ n * t <= a /\ a < n * t + n
  BY <1>1
<1>3. CASE t >= c + 1
  <2>1. n * t >= n * (c + 1)
    BY <1>3
  <2>2. n * (c + 1) = n * c + n
    OBVIOUS
  <2> QED BY <1>1, <1>2, <2>1, <2>2
<1>4. CASE t <= c - 1
  <2>1. n * t <= n * (c - 1)
    BY <1>4
  <2>2. n * (c - 1) = n * c - n
    OBVIOUS
  <2> QED BY <1>1, <1>2, <2>1, <2>2
<1> QED BY <1>1, <1>2, <1>3, <1>4

\* The estimate is at least the number of registers in use.
LEMMA EstimateAtLeast ==
    ASSUME NEW sketch, NEW c \in Nat, c = Cardinality(DOMAIN sketch)
    PROVE  estimate(sketch) \in Nat /\ estimate(sketch) >= c
<1>1. PICK m \in Nat : m = REGISTERS /\ m > 0
  BY RegistersAssumption
<1>2. PICK n \in Nat : n = 2 * m /\ n > 0
  BY <1>1
<1>3. PICK a \in Nat : a = 2 * m * c + c * c + m
  BY <1>1
<1>4. PICK q \in Nat : q = c * c
  OBVIOUS
<1>5. a = n * c + q + m
  BY <1>2, <1>3, <1>4
<1>6. PICK t \in Int : t = a \div n /\ n * t <= a /\ a < n * t + n
  BY <1>2, <1>3
<1>7. estimate(sketch) = t
  BY <1>1, <1>2, <1>3, <1>6 DEF estimate
<1>8. CASE t <= c - 1
  <2>1. n * t <= n * (c - 1)
    BY <1>8
  <2>2. n * (c - 1) = n * c - n
    OBVIOUS
  <2>3. n * c \in Nat
    OBVIOUS
  <2> QED BY <1>5, <1>6, <2>1, <2>2, <2>3
<1> QED BY <1>6, <1>7, <1>8

\* Fewer registers than the root of REGISTERS in use: the estimate is their number.
LEMMA EstimateIsCount ==
    ASSUME NEW sketch, NEW c \in Nat, c = Cardinality(DOMAIN sketch),
           c * c < REGISTERS
    PROVE  estimate(sketch) = c
<1>1. PICK m \in Nat : m = REGISTERS
  BY RegistersAssumption
<1>2. PICK n \in Nat : n = 2 * m
  BY <1>1
<1>3. PICK q \in Nat : q = c * c
  BY <1>1
<1>4. PICK r \in Nat : r = q + m
  BY <1>1, <1>3
<1>5. n > 0 /\ r < n
  BY <1>1, <1>2, <1>3, <1>4
<1>6. estimate(sketch) = (2 * m * c + c * c + m) \div (2 * m)
  BY <1>1 DEF estimate
<1>7. 2 * m * c + c * c + m = n * c + r
  BY <1>2, <1>3, <1>4
<1>8. (n * c + r) \div n = c
  BY <1>5, Quotient
<1> QED BY <1>2, <1>6, <1>7, <1>8

-----------------------------------------------------------------------------
(***************************************************************************)
(* The children of an answer.                                              *)
(***************************************************************************)
\* The cell that a request reads, by its estimator.
Read(q, c) == IF q.estimator = "hll" THEN CellHll(q.window, c) ELSE fetch_cell(q.window, c)

LEMMA ReadCounts ==
    ASSUME TypeInv, RowsInv, NEW q, NEW c
    PROVE  /\ Read(q, c).key = c
           /\ Read(q, c).users \in Nat /\ Read(q, c).events \in Nat
           /\ Read(q, c).events = fetch_cell(q.window, c).events
<1>1. PICK cell : cell = fetch_cell(q.window, c)
  OBVIOUS
<1>2. cell.key = c /\ cell.users \in Nat /\ cell.events \in Nat
  BY <1>1, CellCounts
<1>3. CASE q.estimator = "hll"
  <2>1. PICK users : users = MergedUsers(RowsOf(q.window, c))
    OBVIOUS
  <2>2. Read(q, c) = [cell EXCEPT !.users = users]
    BY <1>1, <1>3, <2>1 DEF Read, CellHll
  <2>3. users \in Nat
    <3>1. PICK sketch : users = estimate(sketch) /\ IsFiniteSet(DOMAIN sketch)
      BY <2>1, MergedRegisters
    <3> QED BY <3>1, FS_CardinalityType, EstimateAtLeast
  <2>4. cell = [key |-> cell.key, events |-> cell.events, users |-> cell.users]
    BY <1>1 DEF fetch_cell, Summed
  <2>5. Read(q, c) = [key |-> cell.key, events |-> cell.events, users |-> users]
    BY <2>2, <2>4
  <2> QED BY <1>1, <1>2, <2>3, <2>5
<1>4. CASE q.estimator # "hll"
  <2>1. Read(q, c) = cell
    BY <1>1, <1>4 DEF Read
  <2> QED BY <1>1, <1>2, <2>1
<1> QED BY <1>3, <1>4

\* The users of the cell that is found; of a cell with a row, those that it holds.
LEMMA UsersRead ==
    ASSUME TypeInv, RowsInv, NEW q, NEW c
    PROVE  /\ users_or_zero(Cell(q, c)) \in Nat
           /\ DOMAIN RowsOf(q.window, c) # {} => users_or_zero(Cell(q, c)) = Read(q, c).users
<1>1. PICK cell : cell = Read(q, c)
  OBVIOUS
<1>2. cell.users \in Nat
  BY <1>1, ReadCounts
<1>3. \/ Cell(q, c) = {cell}
      \/ Cell(q, c) = {} /\ DOMAIN RowsOf(q.window, c) = {}
  BY <1>1 DEF Cell, Read, fetch_cell_hll
<1>4. PICK f : f = [x \in Cell(q, c) |-> x.users]
  OBVIOUS
<1>5. users_or_zero(Cell(q, c)) = SumFunction(f)
  BY <1>4 DEF users_or_zero
<1>6. CASE Cell(q, c) = {cell}
  <2>1. DOMAIN f = {cell} /\ f[cell] = cell.users /\ cell.users \in Int
    BY <1>2, <1>4, <1>6
  <2>2. SumFunction(f) = cell.users
    BY <2>1, SumSingle
  <2> QED BY <1>1, <1>2, <1>5, <2>2
<1>7. CASE Cell(q, c) = {} /\ DOMAIN RowsOf(q.window, c) = {}
  <2>1. DOMAIN f = {}
    BY <1>4, <1>7
  <2> QED BY <1>5, <1>7, <2>1, SumEmpty
<1> QED BY <1>3, <1>6, <1>7

\* A child has a row.
LEMMA ChildHasRow ==
    ASSUME NEW w, NEW parent, NEW c \in ChildKeys(w, parent)
    PROVE  DOMAIN RowsOf(w, c) # {}
<1>1. PICK key \in DOMAIN agg_cells : key[1] = w /\ key[2] = c
  BY DEF ChildKeys
<1> QED BY <1>1 DEF RowsOf, Restrict

LEMMA ChildKeysFinite ==
    ASSUME RowsInv, NEW w, NEW parent
    PROVE  IsFiniteSet(ChildKeys(w, parent))
<1>1. PICK all : all = {key[2] : key \in DOMAIN agg_cells}
  OBVIOUS
<1>2. [key \in DOMAIN agg_cells |-> key[2]] \in Surjection(DOMAIN agg_cells, all)
  BY <1>1 DEF Surjection
<1>3. IsFiniteSet(DOMAIN agg_cells)
  BY DEF RowsInv
<1>4. IsFiniteSet(all)
  BY <1>2, <1>3, FS_Surjection
<1>5. ChildKeys(w, parent) \in SUBSET all
  BY <1>1 DEF ChildKeys
<1> QED BY <1>4, <1>5, FS_Subset

\* The children come in some order, each once.
LEMMA ChildrenRead ==
    ASSUME RowsInv, NEW q, NEW parent, NEW children \in Children(q, parent)
    PROVE  \E n \in Nat :
              /\ children = [j \in 1..n |-> children[j]]
              /\ \A i, j \in 1..n : i # j => children[i] # children[j]
              /\ \A j \in 1..n : \E c \in ChildKeys(q.window, parent) : children[j] = Read(q, c)
              /\ \A c \in ChildKeys(q.window, parent) : \E j \in 1..n : children[j] = Read(q, c)
<1>1. PICK keys : keys = ChildKeys(q.window, parent)
  OBVIOUS
<1>2. PICK cells : cells = {Read(q, c) : c \in keys}
  OBVIOUS
<1>4. IsFiniteSet(keys)
  BY <1>1, ChildKeysFinite
<1>5. IsFiniteSet(cells)
  <2>1. [c \in keys |-> Read(q, c)] \in Surjection(keys, cells)
    BY <1>2 DEF Surjection
  <2> QED BY <1>4, <2>1, FS_Surjection
<1>6. PICK n : n = Cardinality(cells)
  OBVIOUS
<1>7. n \in Nat /\ IsFiniteSet(1..n) /\ Cardinality(1..n) = n
  <2>1. n \in Nat
    BY <1>5, <1>6, FS_CardinalityType
  <2>2. IsFiniteSet(1..n) /\ Cardinality(1..n) = IF 1 > n THEN 0 ELSE n - 1 + 1
    BY <2>1, FS_Interval
  <2> QED BY <2>1, <2>2
<1>8. /\ children \in [1..n -> cells]
      /\ \A i, j \in 1..n : i # j => children[i] # children[j]
  <2>1. CASE q.estimator = "hll"
    <3>1. cells = {CellHll(q.window, c) : c \in keys}
      BY <1>2, <2>1 DEF Read
    <3> QED BY <1>1, <1>6, <2>1, <3>1 DEF Children, fetch_children_hll, SetToSeqs
  <2>2. CASE q.estimator # "hll"
    <3>1. cells = {fetch_cell(q.window, c) : c \in keys}
      BY <1>2, <2>2 DEF Read
    <3> QED BY <1>1, <1>6, <2>2, <3>1 DEF Children, fetch_children, SetToSeqs
  <2> QED BY <2>1, <2>2
<1>9. children \in Surjection(1..n, cells)
  <2>1. children \in Injection(1..n, cells)
    BY <1>8 DEF Injection, IsInjective
  <2> QED BY <1>5, <1>6, <1>7, <2>1, FS_Injection
<1>10. \A j \in 1..n : \E c \in keys : children[j] = Read(q, c)
  BY <1>2, <1>8
<1>11. \A c \in keys : \E j \in 1..n : children[j] = Read(q, c)
  BY <1>2, <1>9 DEF Surjection
<1> QED BY <1>1, <1>7, <1>8, <1>10, <1>11

\* The children's counts add up to the counts of the cells.
LEMMA ListedChildren ==
    ASSUME TypeInv, RowsInv, NEW q, NEW parent, NEW children \in Children(q, parent)
    PROVE  /\ Listed(children)
           /\ \A j \in DOMAIN children :
                 \E c \in ChildKeys(q.window, parent) : children[j] = Read(q, c)
           /\ SumUsers(children, DOMAIN children)
                = SumFunction([c \in ChildKeys(q.window, parent) |-> users_or_zero(Cell(q, c))])
           /\ SumEvents(children, DOMAIN children)
                = SumFunction([c \in ChildKeys(q.window, parent) |->
                                  fetch_cell(q.window, c).events])
<1>1. PICK keys : keys = ChildKeys(q.window, parent)
  OBVIOUS
<1>3. \A c \in keys : users_or_zero(Cell(q, c)) = Read(q, c).users
  BY <1>1, ChildHasRow, UsersRead
<1>7. PICK n \in Nat :
          /\ children = [j \in 1..n |-> children[j]]
          /\ \A i, j \in 1..n : i # j => children[i] # children[j]
          /\ \A j \in 1..n : \E c \in keys : children[j] = Read(q, c)
          /\ \A c \in keys : \E j \in 1..n : children[j] = Read(q, c)
  BY <1>1, ChildrenRead
<1>8. IsFiniteSet(1..n)
  BY <1>7, FS_Interval
<1>9. \A i, j \in 1..n : i # j => children[i] # children[j]
  BY <1>7
<1>10. \A j \in 1..n : \E c \in keys : children[j] = Read(q, c)
  BY <1>7
<1>11. \A c \in keys : \E j \in 1..n : children[j] = Read(q, c)
  BY <1>7
<1>12. \A c \in keys : /\ Read(q, c).key = c
                       /\ Read(q, c).users \in Nat /\ Read(q, c).events \in Nat
                       /\ Read(q, c).events = fetch_cell(q.window, c).events
  BY ReadCounts
<1>13. DOMAIN children = 1..n
  BY <1>7
<1>14. Listed(children)
  <2>1. \A j \in 1..n : children[j].users \in Nat /\ children[j].events \in Nat
    BY <1>10, <1>12
  <2> QED BY <1>8, <1>9, <1>13, <2>1 DEF Listed
<1>15. PICK b : b = [j \in 1..n |-> children[j].key]
  OBVIOUS
<1>16. /\ \A j \in 1..n : b[j] \in keys /\ children[j] = Read(q, b[j])
       /\ \A i, j \in 1..n : b[i] = b[j] => i = j
       /\ \A c \in keys : \E j \in 1..n : c = b[j]
  <2>1. \A j \in 1..n : b[j] \in keys /\ children[j] = Read(q, b[j])
    BY <1>10, <1>12, <1>15
  <2>2. \A c \in keys : \E j \in 1..n : c = b[j]
    BY <1>11, <1>12, <1>15
  <2>3. \A i, j \in 1..n : b[i] = b[j] => i = j
    BY <1>9, <2>1
  <2> QED BY <2>1, <2>2, <2>3
<1>17. SumUsers(children, DOMAIN children) = SumFunction([c \in keys |-> users_or_zero(Cell(q, c))])
  <2>1. PICK f : f = [j \in 1..n |-> children[j].users]
    OBVIOUS
  <2>2. PICK e : e = [c \in keys |-> users_or_zero(Cell(q, c))]
    OBVIOUS
  <2>3. IsFiniteSet(DOMAIN f) /\ \A x \in DOMAIN f : f[x] \in Int
    BY <1>8, <1>13, <1>14, <2>1 DEF Listed
  <2>4. /\ \A x \in DOMAIN f : b[x] \in DOMAIN e /\ e[b[x]] = f[x]
        /\ \A x, y \in DOMAIN f : b[x] = b[y] => x = y
        /\ \A z \in DOMAIN e : \E x \in DOMAIN f : z = b[x]
    BY <1>3, <1>16, <2>1, <2>2
  <2>5. SumFunction(e) = SumFunction(f)
    BY <2>3, <2>4, SumRenamed
  <2> QED BY <1>13, <2>1, <2>2, <2>5 DEF SumUsers
<1>18. SumEvents(children, DOMAIN children)
         = SumFunction([c \in keys |-> fetch_cell(q.window, c).events])
  <2>1. PICK f : f = [j \in 1..n |-> children[j].events]
    OBVIOUS
  <2>2. PICK e : e = [c \in keys |-> fetch_cell(q.window, c).events]
    OBVIOUS
  <2>3. IsFiniteSet(DOMAIN f) /\ \A x \in DOMAIN f : f[x] \in Int
    BY <1>8, <1>13, <1>14, <2>1 DEF Listed
  <2>4. /\ \A x \in DOMAIN f : b[x] \in DOMAIN e /\ e[b[x]] = f[x]
        /\ \A x, y \in DOMAIN f : b[x] = b[y] => x = y
        /\ \A z \in DOMAIN e : \E x \in DOMAIN f : z = b[x]
    BY <1>12, <1>16, <2>1, <2>2
  <2>5. SumFunction(e) = SumFunction(f)
    BY <2>3, <2>4, SumRenamed
  <2> QED BY <1>13, <2>1, <2>2, <2>5 DEF SumEvents
<1> QED BY <1>1, <1>10, <1>13, <1>14, <1>17, <1>18

-----------------------------------------------------------------------------
(***************************************************************************)
(* No small remainder.                                                     *)
(***************************************************************************)
\* An answer about a level below the top comes from a list of the children.
LEMMA BreakdownAnswer ==
    ASSUME NEW q, q.level > LEVEL_GLOBAL, NEW answer \in Answers(q)
    PROVE  \E children \in Children(q, parent_key(q)) :
              answer = suppress(users_or_zero(Cell(q, parent_key(q))), children, K)
<1>1. q.level # LEVEL_GLOBAL
  BY DEF LEVEL_GLOBAL
<1> QED BY <1>1 DEF Answers

\* What is released is an answer to a request that passed the checks.
LEMMA ReleasedAnswers ==
    ASSUME TypeInv, FreshInv, NEW r \in Released
    PROVE  r[1] \in Queries /\ ArgumentsOk(r[1]) /\ r[2] \in Answers(r[1])
<1>1. PICK c \in Clients : /\ request[c].stage \in {"computed", "done"}
                           /\ r = <<request[c].query, request[c].answer>>
  BY DEF Released
<1>2. r[1] = request[c].query /\ r[2] = request[c].answer
  BY <1>1
<1>3. request[c].query \in Queries
  BY <1>1 DEF TypeInv, RequestOK
<1>4. ArgumentsOk(request[c].query) /\ request[c].answer \in Answers(request[c].query)
  BY <1>1 DEF FreshInv, UnderWay, Answerable
<1> QED BY <1>2, <1>3, <1>4

LEMMA RemainderLarge == TypeInv /\ RowsInv /\ FreshInv => NoSmallRemainder
<1> SUFFICES ASSUME TypeInv, RowsInv, FreshInv, NEW r \in Released, r[1].level > LEVEL_GLOBAL,
                    r[2].visible # {},
                    SumFunction([c \in ChildKeys(r[1].window, parent_key(r[1])) |->
                                    users_or_zero(Cell(r[1], c))])
                      = users_or_zero(Cell(r[1], parent_key(r[1]))),
                    NEW rest,
                    rest = users_or_zero(Cell(r[1], parent_key(r[1])))
                             - SumFunction([cell \in r[2].visible |-> cell.users])
             PROVE  rest = 0 \/ rest >= K
  BY Zenon DEF NoSmallRemainder
<1>1. PICK q : q = r[1]
  OBVIOUS
<1>2. PICK parent : parent = parent_key(q)
  OBVIOUS
<1>3. q \in Queries /\ r[2] \in Answers(q)
  BY <1>1, ReleasedAnswers
<1>4. PICK users : users = users_or_zero(Cell(q, parent))
  OBVIOUS
<1>5. users \in Nat
  BY <1>4, UsersRead
<1>6. PICK children \in Children(q, parent) : r[2] = suppress(users, children, K)
  BY <1>1, <1>2, <1>3, <1>4, BreakdownAnswer
<1>7. Listed(children)
  BY ListedChildren
<1>8. SumUsers(children, DOMAIN children)
        = SumFunction([c \in ChildKeys(q.window, parent) |-> users_or_zero(Cell(q, c))])
  BY ListedChildren
<1>9. SumUsers(children, DOMAIN children) = users
  BY <1>1, <1>2, <1>4, <1>8
<1>10. SaturatingSub(users, SumUsers(children, DOMAIN children)) = 0
  BY <1>5, <1>9 DEF SaturatingSub
<1>11. PICK hidden, effective :
          /\ hidden \subseteq DOMAIN children
          /\ r[2].visible = {children[j] : j \in DOMAIN children \ hidden}
          /\ effective = SaturatingSub(users, SumUsers(children, DOMAIN children))
                           + SumUsers(children, hidden)
          /\ effective = 0 \/ effective >= K \/ hidden = DOMAIN children
  <2>1. PICK hidden, effective :
            /\ PrimaryHidden(children, K) \subseteq hidden /\ hidden \subseteq DOMAIN children
            /\ suppress(users, children, K) =
                   [visible |-> {children[j] : j \in DOMAIN children \ hidden},
                    other   |-> OtherRow(children, hidden, effective, K)]
            /\ effective = SaturatingSub(users, SumUsers(children, DOMAIN children))
                             + SumUsers(children, hidden)
            /\ effective = 0 \/ effective >= K \/ hidden = DOMAIN children
    BY <1>5, <1>7, SuppressShape, ThresholdAssumption
  <2> QED BY <1>6, <2>1
<1>12. PICK shown : shown = DOMAIN children \ hidden
  OBVIOUS
<1>13. shown \in SUBSET DOMAIN children /\ hidden = DOMAIN children \ shown /\ shown # {}
  BY <1>11, <1>12
<1>14. SumFunction([cell \in r[2].visible |-> cell.users]) = SumUsers(children, shown)
  BY <1>7, <1>11, <1>12, <1>13, CellSums
<1>15. /\ SumUsers(children, DOMAIN children)
            = SumUsers(children, shown) + SumUsers(children, hidden)
       /\ SumUsers(children, shown) \in Nat /\ SumUsers(children, hidden) \in Nat
  <2>1. DOMAIN children \in SUBSET DOMAIN children /\ hidden \in SUBSET DOMAIN children
    BY <1>11
  <2>2. SumUsers(children, shown) \in Nat /\ SumUsers(children, hidden) \in Nat
    BY <1>7, <1>13, <2>1, ChildSums
  <2>3. SumUsers(children, DOMAIN children)
          = SumUsers(children, shown) + SumUsers(children, DOMAIN children \ shown)
    BY <1>7, <1>13, <2>1, ChildSums
  <2> QED BY <1>13, <2>2, <2>3
<1>16. rest = SumUsers(children, hidden)
  <2>1. rest = users - SumUsers(children, shown)
    BY <1>1, <1>2, <1>4, <1>14
  <2> QED BY <1>5, <1>9, <1>15, <2>1
<1>17. effective = rest
  BY <1>10, <1>11, <1>15, <1>16
<1>18. hidden # DOMAIN children
  BY <1>12, <1>13
<1> QED BY <1>11, <1>17, <1>18

\* Without noise, with every partition known and keys that tell requests apart: an answer,
\* exact or estimated, that shows some children whose users add up to the parent's leaves
\* out none or at least k of the parent's users, by the tables as they are now, long after
\* the answer was cached.
THEOREM RemainderNotSmall ==
    ASSUME ~ DP_ENABLED, EveryPartitionKnown, KeysTellApart
    PROVE  Spec => []NoSmallRemainder
<1>1. TypeInv /\ RowsInv /\ FreshInv => NoSmallRemainder
  BY RemainderLarge
<1>2. Spec => []FreshInv
  BY AlwaysFreshInv
<1> QED BY <1>1, <1>2, AlwaysTypeInv, AlwaysRowsInv, PTL

-----------------------------------------------------------------------------
(***************************************************************************)
(* No event is lost in a breakdown.                                        *)
(***************************************************************************)
\* A cell is a direct child of parent, as fetch_children selects them.
Below(c, parent) ==
    /\ c.level = parent.level + 1
    /\ parent.level >= LEVEL_FAMILY => c.family = parent.family
    /\ parent.level >= LEVEL_WIKI => c.wiki = parent.wiki

\* An event counts for one cell of the level below the parent, which is a child of the
\* parent iff the event counts for the parent.
LEMMA OneChild ==
    ASSUME NEW q, ArgumentsOk(q), q.level > LEVEL_GLOBAL, NEW event
    PROVE  LET parent == parent_key(q)
           IN  \E d \in cells_for_event(event) :
                  /\ d.level = parent.level + 1
                  /\ \A c \in cells_for_event(event) : c.level = parent.level + 1 => c = d
                  /\ parent \in cells_for_event(event) <=> Below(d, parent)
<1> DEFINE parent == parent_key(q)
<1> USE DEF LEVEL_GLOBAL, LEVEL_FAMILY, LEVEL_WIKI, LEVEL_NAMESPACE
<1>0. PICK family, wiki, namespace :
          family = event.family /\ wiki = event.wiki /\ namespace = event.namespace
  OBVIOUS
<1>1. PICK c1, c2, c3 : /\ c1 = CellKey(LEVEL_FAMILY, family, ROLLUP_STR, ROLLUP_NAMESPACE)
                        /\ c2 = CellKey(LEVEL_WIKI, family, wiki, ROLLUP_NAMESPACE)
                        /\ c3 = CellKey(LEVEL_NAMESPACE, family, wiki, namespace)
  OBVIOUS
<1>2. cells_for_event(event) = {global, c1, c2, c3}
  BY <1>0, <1>1 DEF cells_for_event
<1>3. /\ global.level = 0 /\ c1.level = 1 /\ c2.level = 2 /\ c3.level = 3
      /\ c1.family = family /\ c2.family = family /\ c3.family = family
      /\ c2.wiki = wiki /\ c3.wiki = wiki
  BY <1>1 DEF global, CellKey
<1>4. q.level \in 1..3
  BY DEF ArgumentsOk
<1>5. CASE q.level = 1
  <2>1. parent = global
    BY <1>5 DEF parent_key
  <2> HIDE DEF parent
  <2>2. Below(c1, parent) /\ c1.level = parent.level + 1
    BY <1>3, <2>1 DEF Below
  <2> QED BY <1>2, <1>3, <2>1, <2>2 DEF parent
<1>6. CASE q.level = 2
  <2>1. parent = CellKey(LEVEL_FAMILY, q.family, ROLLUP_STR, ROLLUP_NAMESPACE)
    BY <1>6 DEF parent_key
  <2> HIDE DEF parent
  <2>2. parent.level = 1 /\ parent.family = q.family
    BY <2>1 DEF CellKey
  <2>3. parent = c1 <=> family = q.family
    BY <1>1, <1>3, <2>1, <2>2
  <2>4. parent \in cells_for_event(event) <=> family = q.family
    BY <1>2, <1>3, <2>2, <2>3
  <2>5. Below(c2, parent) <=> family = q.family
    BY <1>3, <2>2 DEF Below
  <2> QED BY <1>2, <1>3, <2>2, <2>4, <2>5 DEF parent
<1>7. CASE q.level = 3
  <2>1. parent = CellKey(LEVEL_WIKI, q.family, q.wiki, ROLLUP_NAMESPACE)
    BY <1>7 DEF parent_key
  <2> HIDE DEF parent
  <2>2. parent.level = 2 /\ parent.family = q.family /\ parent.wiki = q.wiki
    BY <2>1 DEF CellKey
  <2>3. parent = c2 <=> family = q.family /\ wiki = q.wiki
    BY <1>1, <1>3, <2>1, <2>2
  <2>4. parent \in cells_for_event(event) <=> family = q.family /\ wiki = q.wiki
    BY <1>2, <1>3, <2>2, <2>3
  <2>5. Below(c3, parent) <=> family = q.family /\ wiki = q.wiki
    BY <1>3, <2>2 DEF Below
  <2> QED BY <1>2, <1>3, <2>2, <2>4, <2>5 DEF parent
<1> QED BY <1>4, <1>5, <1>6, <1>7

\* The events of every row.
EventsOf == [key \in DOMAIN agg_cells |-> agg_cells[key].events]

\* The rows of a window for a cell, and for the children of a cell.
CellRows(w, c) == {key \in DOMAIN agg_cells : key[1] = w /\ key[2] = c}
ChildRows(w, parent) == {key \in DOMAIN agg_cells : key[1] = w /\ Below(key[2], parent)}
On(p, keys) == {key \in keys : key[3] = p}

\* On one partition the rows of the parent and of its children count the same events.
LEMMA PartitionEvents ==
    ASSUME TypeInv, RowsInv, NEW q, ArgumentsOk(q), q.level > LEVEL_GLOBAL, NEW w,
           NEW p \in Partitions
    PROVE  SumFunction(Part(EventsOf, On(p, ChildRows(w, parent_key(q)))))
             = SumFunction(Part(EventsOf, On(p, CellRows(w, parent_key(q)))))
<1>1. PICK parent : parent = parent_key(q)
  OBVIOUS
<1>2. PICK edits : IsFiniteSet(edits) /\ RowsFrom(w, p, edits)
  BY DEF RowsInv
<1>3. \A key \in DOMAIN agg_cells : key[1] = w /\ key[3] = p =>
          key = <<w, key[2], p>> /\ key[2] \in Touched(edits)
  BY <1>2 DEF RowsFrom
<1>4. \A c \in Touched(edits) : <<w, c, p>> \in DOMAIN agg_cells
  BY <1>2 DEF RowsFrom
<1> DEFINE In(c) == {edit \in edits : c \in cells_for_event(EditEvent(edit))}
<1>5. \A c : IsFiniteSet(In(c)) /\ (c \in Touched(edits) <=> In(c) # {})
  <2> SUFFICES ASSUME NEW c PROVE IsFiniteSet(In(c)) /\ (c \in Touched(edits) <=> In(c) # {})
    OBVIOUS
  <2>1. In(c) \in SUBSET edits
    OBVIOUS
  <2>2. c \in Touched(edits) <=> In(c) # {}
    BY DEF Touched
  <2> HIDE DEF In
  <2> QED BY <1>2, <2>1, <2>2, FS_Subset
<1>6. \A c \in Touched(edits) : EventsOf[<<w, c, p>>] = Cardinality(In(c))
  <2> SUFFICES ASSUME NEW c \in Touched(edits)
               PROVE  EventsOf[<<w, c, p>>] = Cardinality(In(c))
    OBVIOUS
  <2>1. agg_cells[<<w, c, p>>] = Counts(p, edits, c)
    BY <1>2 DEF RowsFrom
  <2>2. EventsOf[<<w, c, p>>] = agg_cells[<<w, c, p>>].events
    BY <1>4 DEF EventsOf
  <2>3. Counts(p, edits, c).events = Cardinality(In(c))
    BY DEF Counts
  <2> QED BY <2>1, <2>2, <2>3
<1>7. SumFunction(Part(EventsOf, On(p, CellRows(w, parent)))) = Cardinality(In(parent))
  <2>1. PICK f : f = Part(EventsOf, On(p, CellRows(w, parent)))
    OBVIOUS
  <2>2. CASE In(parent) = {}
    <3>1. DOMAIN f = {}
      BY <1>3, <1>5, <2>1, <2>2 DEF Part, On, CellRows
    <3> QED BY <2>1, <2>2, <3>1, SumEmpty, FS_EmptySet
  <2>3. CASE In(parent) # {}
    <3>1. On(p, CellRows(w, parent)) = {<<w, parent, p>>}
      <4>1. <<w, parent, p>> \in DOMAIN agg_cells
        BY <1>4, <1>5, <2>3
      <4>2. <<w, parent, p>> \in On(p, CellRows(w, parent))
        BY <4>1 DEF On, CellRows
      <4>3. \A key \in On(p, CellRows(w, parent)) : key = <<w, parent, p>>
        BY <1>3 DEF On, CellRows
      <4> QED BY <4>2, <4>3
    <3>2. DOMAIN f = {<<w, parent, p>>} /\ f[<<w, parent, p>>] = Cardinality(In(parent))
      BY <1>5, <1>6, <2>1, <2>3, <3>1 DEF Part
    <3>3. Cardinality(In(parent)) \in Int
      <4> HIDE DEF In
      <4> QED BY <1>5, FS_CardinalityType
    <3> HIDE DEF In
    <3> QED BY <2>1, <3>2, <3>3, SumSingle
  <2> QED BY <2>2, <2>3
<1>8. SumFunction(Part(EventsOf, On(p, ChildRows(w, parent)))) = Cardinality(In(parent))
  <2>1. PICK f : f = [edit \in In(parent) |-> 1]
    OBVIOUS
  <2>2. PICK h : h = Part(EventsOf, On(p, ChildRows(w, parent)))
    OBVIOUS
  <2>3. PICK m : m = [edit \in In(parent) |->
                         <<w, CHOOSE d \in cells_for_event(EditEvent(edit)) :
                                  d.level = parent.level + 1, p>>]
    OBVIOUS
  <2>4. ASSUME NEW edit \in edits
        PROVE  \E d \in cells_for_event(EditEvent(edit)) :
                  /\ d.level = parent.level + 1
                  /\ \A c \in cells_for_event(EditEvent(edit)) : c.level = parent.level + 1 => c = d
                  /\ edit \in In(parent) <=> Below(d, parent)
                  /\ edit \in In(parent) => m[edit] = <<w, d, p>>
    <3>1. PICK event : event = EditEvent(edit)
      OBVIOUS
    <3>2. PICK d \in cells_for_event(event) :
              /\ d.level = parent.level + 1
              /\ \A c \in cells_for_event(event) : c.level = parent.level + 1 => c = d
              /\ parent \in cells_for_event(event) <=> Below(d, parent)
      BY <1>1, OneChild
    <3>3. d = CHOOSE c \in cells_for_event(event) : c.level = parent.level + 1
      BY <3>2
    <3>4. edit \in In(parent) => m[edit] = <<w, d, p>>
      BY <2>3, <3>1, <3>3
    <3> QED BY <3>1, <3>2, <3>4
  <2>5. \A key : key \in DOMAIN h <=>
            \E c \in Touched(edits) : key = <<w, c, p>> /\ Below(c, parent)
    BY <1>3, <1>4, <2>2 DEF Part, On, ChildRows
  <2>6. ASSUME NEW edit \in DOMAIN f PROVE m[edit] \in DOMAIN h
    <3>1. edit \in edits /\ edit \in In(parent)
      BY <2>1
    <3>2. PICK d \in cells_for_event(EditEvent(edit)) :
              Below(d, parent) /\ m[edit] = <<w, d, p>>
      BY <2>4, <3>1
    <3>3. d \in Touched(edits)
      BY <3>1, <3>2 DEF Touched
    <3> QED BY <2>5, <3>2, <3>3
  <2>7. ASSUME NEW key \in DOMAIN h
        PROVE  h[key] = SumFunction(Part(f, {edit \in DOMAIN f : m[edit] = key}))
    <3>1. PICK c \in Touched(edits) : key = <<w, c, p>> /\ Below(c, parent)
      BY <2>5
    <3>2. {edit \in DOMAIN f : m[edit] = key} = In(c)
      <4>1. ASSUME NEW edit \in In(c) PROVE edit \in In(parent) /\ m[edit] = key
        <5>1. edit \in edits /\ c \in cells_for_event(EditEvent(edit)) /\ c.level = parent.level + 1
          BY <3>1 DEF Below
        <5>2. PICK d \in cells_for_event(EditEvent(edit)) :
                  /\ \A b \in cells_for_event(EditEvent(edit)) : b.level = parent.level + 1 => b = d
                  /\ edit \in In(parent) <=> Below(d, parent)
                  /\ edit \in In(parent) => m[edit] = <<w, d, p>>
          BY <2>4, <5>1
        <5>3. c = d
          BY <5>1, <5>2
        <5> HIDE DEF In
        <5> QED BY <3>1, <5>2, <5>3
      <4>2. ASSUME NEW edit \in DOMAIN f, m[edit] = key PROVE edit \in In(c)
        <5>1. edit \in edits /\ edit \in In(parent)
          BY <2>1
        <5>2. PICK d \in cells_for_event(EditEvent(edit)) : m[edit] = <<w, d, p>>
          BY <2>4, <5>1
        <5>3. d = c
          BY <3>1, <4>2, <5>2
        <5> QED BY <5>1, <5>2, <5>3
      <4>3. DOMAIN f = In(parent)
        BY <2>1
      <4> HIDE DEF In
      <4> QED BY <4>1, <4>2, <4>3
    <3>3. Part(f, In(c)) = [edit \in In(c) |-> 1]
      BY <2>1, <3>2 DEF Part
    <3>4. SumFunction(Part(f, In(c))) = Cardinality(In(c))
      <4> HIDE DEF In
      <4> QED BY <1>5, <3>3, CardinalityIsSum
    <3>5. h[key] = Cardinality(In(c))
      BY <1>6, <2>2, <3>1 DEF Part
    <3> HIDE DEF In
    <3> QED BY <3>2, <3>4, <3>5
  <2>8. IsFiniteSet(DOMAIN f) /\ \A x \in DOMAIN f : f[x] \in Int
    <3>1. DOMAIN f = In(parent) /\ \A x \in DOMAIN f : f[x] = 1
      BY <2>1
    <3> HIDE DEF In
    <3> QED BY <1>5, <3>1
  <2>9. IsFiniteSet(DOMAIN h)
    <3>1. DOMAIN h \in SUBSET DOMAIN agg_cells
      BY <2>2 DEF Part, On, ChildRows
    <3>2. IsFiniteSet(DOMAIN agg_cells)
      BY DEF RowsInv
    <3> QED BY <3>1, <3>2, FS_Subset
  <2>10. SumFunction(h) = SumFunction(f)
    BY <2>6, <2>7, <2>8, <2>9, SumByClass
  <2>11. SumFunction(f) = Cardinality(In(parent))
    <3> HIDE DEF In
    <3> QED BY <1>5, <2>1, CardinalityIsSum
  <2> QED BY <2>2, <2>10, <2>11
<1> QED BY <1>1, <1>7, <1>8

\* A cell's events are those of its rows.
LEMMA CellEvents ==
    ASSUME NEW w, NEW c
    PROVE  fetch_cell(w, c).events = SumFunction(Part(EventsOf, CellRows(w, c)))
<1>1. PICK rows : rows = RowsOf(w, c)
  OBVIOUS
<1>2. DOMAIN rows = CellRows(w, c) /\ \A key \in DOMAIN rows : rows[key] = agg_cells[key]
  BY <1>1 DEF RowsOf, Restrict, CellRows
<1>3. CellRows(w, c) \subseteq DOMAIN agg_cells
  BY DEF CellRows
<1>4. [key \in DOMAIN rows |-> rows[key].events] = Part(EventsOf, CellRows(w, c))
  BY <1>2, <1>3 DEF Part, EventsOf
<1> QED BY <1>1, <1>4 DEF fetch_cell, Summed

\* Over all partitions too: the children's events add up to the parent's.
LEMMA ChildrenEvents ==
    ASSUME TypeInv, RowsInv, NEW q, ArgumentsOk(q), q.level > LEVEL_GLOBAL, NEW w
    PROVE  SumFunction([c \in ChildKeys(w, parent_key(q)) |-> fetch_cell(w, c).events])
             = fetch_cell(w, parent_key(q)).events
<1>1. PICK parent : parent = parent_key(q)
  OBVIOUS
<1>2. PICK f : f = Part(EventsOf, ChildRows(w, parent))
  OBVIOUS
<1>3. PICK g : g = Part(EventsOf, CellRows(w, parent))
  OBVIOUS
<1>4. /\ DOMAIN f = ChildRows(w, parent) /\ DOMAIN g = CellRows(w, parent)
      /\ DOMAIN f \in SUBSET DOMAIN agg_cells /\ DOMAIN g \in SUBSET DOMAIN agg_cells
  BY <1>2, <1>3 DEF Part, ChildRows, CellRows
<1>5. IsFiniteSet(DOMAIN agg_cells)
  BY DEF RowsInv
<1>6. \A key \in DOMAIN agg_cells : EventsOf[key] \in Int
  BY RowCounts DEF EventsOf
<1>7. IsFiniteSet(DOMAIN f) /\ \A x \in DOMAIN f : f[x] \in Int
  BY <1>2, <1>4, <1>5, <1>6, FS_Subset DEF Part
<1>8. IsFiniteSet(DOMAIN g) /\ \A x \in DOMAIN g : g[x] \in Int
  BY <1>3, <1>4, <1>5, <1>6, FS_Subset DEF Part
<1>9. PICK m : m = [key \in DOMAIN agg_cells |-> key[3]]
  OBVIOUS
<1>10. \A key \in DOMAIN agg_cells : m[key] \in Partitions
  BY <1>9 DEF RowsInv, TypeInv
<1>11. PICK h : h = [p \in Partitions |-> SumFunction(Part(EventsOf, On(p, ChildRows(w, parent))))]
  OBVIOUS
<1>12. IsFiniteSet(DOMAIN h)
  BY <1>11, EditsAssumption
<1>13. SumFunction(h) = SumFunction(f)
  <2>1. ASSUME NEW p \in DOMAIN h
        PROVE  h[p] = SumFunction(Part(f, {x \in DOMAIN f : m[x] = p}))
    <3>1. {x \in DOMAIN f : m[x] = p} = On(p, ChildRows(w, parent))
      BY <1>4, <1>9 DEF On
    <3>2. Part(f, On(p, ChildRows(w, parent))) = Part(EventsOf, On(p, ChildRows(w, parent)))
      BY <1>2 DEF Part, On
    <3> QED BY <1>11, <3>1, <3>2
  <2>2. \A x \in DOMAIN f : m[x] \in DOMAIN h
    BY <1>4, <1>10, <1>11
  <2> QED BY <1>7, <1>12, <2>1, <2>2, SumByClass
<1>14. SumFunction(h) = SumFunction(g)
  <2>1. ASSUME NEW p \in DOMAIN h
        PROVE  h[p] = SumFunction(Part(g, {x \in DOMAIN g : m[x] = p}))
    <3>1. {x \in DOMAIN g : m[x] = p} = On(p, CellRows(w, parent))
      BY <1>4, <1>9 DEF On
    <3>2. Part(g, On(p, CellRows(w, parent))) = Part(EventsOf, On(p, CellRows(w, parent)))
      BY <1>3 DEF Part, On
    <3>3. h[p] = SumFunction(Part(EventsOf, On(p, CellRows(w, parent))))
      BY <1>1, <1>11, PartitionEvents
    <3> QED BY <3>1, <3>2, <3>3
  <2>2. \A x \in DOMAIN g : m[x] \in DOMAIN h
    BY <1>4, <1>10, <1>11
  <2> QED BY <1>8, <1>12, <2>1, <2>2, SumByClass
<1>15. PICK keys : keys = ChildKeys(w, parent)
  OBVIOUS
<1>16. PICK e : e = [c \in keys |-> fetch_cell(w, c).events]
  OBVIOUS
<1>17. keys = {key[2] : key \in ChildRows(w, parent)}
  BY <1>15 DEF ChildKeys, ChildRows, Below
<1>18. SumFunction(e) = SumFunction(f)
  <2>1. PICK n : n = [key \in DOMAIN f |-> key[2]]
    OBVIOUS
  <2>2. ASSUME NEW c \in DOMAIN e
        PROVE  e[c] = SumFunction(Part(f, {x \in DOMAIN f : n[x] = c}))
    <3>1. c \in keys /\ e[c] = fetch_cell(w, c).events
      BY <1>16
    <3>2. Below(c, parent)
      BY <1>17, <3>1 DEF ChildRows
    <3>3. {x \in DOMAIN f : n[x] = c} = CellRows(w, c) /\ CellRows(w, c) \subseteq DOMAIN f
      BY <1>4, <2>1, <3>2 DEF ChildRows, CellRows
    <3>4. Part(f, CellRows(w, c)) = Part(EventsOf, CellRows(w, c))
      BY <1>2, <1>4, <3>3 DEF Part
    <3> QED BY <3>1, <3>3, <3>4, CellEvents
  <2>3. \A x \in DOMAIN f : n[x] \in DOMAIN e
    BY <1>4, <1>16, <1>17, <2>1
  <2>4. IsFiniteSet(DOMAIN e)
    <3>1. n \in Surjection(DOMAIN f, keys)
      BY <1>4, <1>17, <2>1 DEF Surjection
    <3> QED BY <1>7, <1>16, <3>1, FS_Surjection
  <2> QED BY <1>7, <2>2, <2>3, <2>4, SumByClass
<1>19. fetch_cell(w, parent).events = SumFunction(g)
  BY <1>3, CellEvents
<1> QED BY <1>1, <1>13, <1>14, <1>15, <1>16, <1>18, <1>19

\* If estimates are asked for, every partition keeps sketches.
EstimatesCount ==
    (\E q \in Queries : q.estimator = "hll") => Partitions \subseteq HllPartitions

\* No child is then without users.
LEMMA ChildrenCount ==
    ASSUME EstimatesCount, TypeInv, RowsInv, NEW q \in Queries, NEW parent,
           NEW children \in Children(q, parent)
    PROVE  \A j \in DOMAIN children : children[j].users >= 1
<1> SUFFICES ASSUME NEW j \in DOMAIN children PROVE children[j].users >= 1
  OBVIOUS
<1>1. PICK c \in ChildKeys(q.window, parent) : children[j] = Read(q, c)
  BY ListedChildren
<1>2. PICK rows : rows = RowsOf(q.window, c)
  OBVIOUS
<1>3. PICK key \in DOMAIN rows : TRUE
  BY <1>2, ChildHasRow
<1>4. CASE q.estimator # "hll"
  BY <1>1, <1>2, <1>3, <1>4, CellCounts DEF Read
<1>5. CASE q.estimator = "hll"
  <2>1. PICK sketch : /\ MergedUsers(rows) = estimate(sketch)
                      /\ IsFiniteSet(DOMAIN sketch)
                      /\ RowRegisters(key) \subseteq DOMAIN sketch
    BY <1>2, <1>3, MergedRegisters
  <2>2. RowRegisters(key) # {}
    <3>1. key \in DOMAIN agg_cells
      BY <1>2, <1>3 DEF RowsOf, Restrict
    <3>2. key[3] \in HllPartitions
      BY <1>5, <3>1 DEF EstimatesCount, RowsInv, TypeInv
    <3> QED BY <3>1, <3>2, RowSketches
  <2>3. PICK used \in Nat : used = Cardinality(DOMAIN sketch) /\ used # 0
    BY <2>1, <2>2, FS_CardinalityType, FS_EmptySet
  <2>4. estimate(sketch) \in Nat /\ estimate(sketch) >= used
    BY <2>3, EstimateAtLeast
  <2>5. children[j].users = estimate(sketch)
    BY <1>1, <1>2, <1>5, <2>1 DEF Read, CellHll, fetch_cell, Summed
  <2> QED BY <2>3, <2>4, <2>5
<1> QED BY <1>4, <1>5

LEMMA EventsKept ==
    ASSUME EstimatesCount
    PROVE  TypeInv /\ RowsInv /\ FreshInv => EventsConserved
<1> SUFFICES ASSUME TypeInv, RowsInv, FreshInv, NEW r \in Released, r[1].level > LEVEL_GLOBAL,
                    CellsOf(r[2]) # {}
             PROVE  SumFunction([cell \in r[2].visible |-> cell.events])
                      + SumFunction([cell \in r[2].other |-> cell.events])
                    = fetch_cell(r[1].window, parent_key(r[1])).events
  BY DEF EventsConserved
<1>1. PICK q : q = r[1]
  OBVIOUS
<1>2. PICK parent : parent = parent_key(q)
  OBVIOUS
<1>3. q \in Queries /\ ArgumentsOk(q) /\ r[2] \in Answers(q) /\ q.level > LEVEL_GLOBAL
  BY <1>1, ReleasedAnswers
<1>4. PICK users : users = users_or_zero(Cell(q, parent))
  OBVIOUS
<1>5. users \in Nat
  BY <1>4, UsersRead
<1>6. PICK children \in Children(q, parent) : r[2] = suppress(users, children, K)
  BY <1>2, <1>3, <1>4, BreakdownAnswer
<1>7. /\ Listed(children) /\ (\A j \in DOMAIN children : children[j].users >= 1)
      /\ SumEvents(children, DOMAIN children) = fetch_cell(q.window, parent).events
  BY <1>2, <1>3, ListedChildren, ChildrenCount, ChildrenEvents
<1>8. PICK hidden, effective :
          /\ PrimaryHidden(children, K) \subseteq hidden /\ hidden \subseteq DOMAIN children
          /\ suppress(users, children, K) =
                 [visible |-> {children[j] : j \in DOMAIN children \ hidden},
                  other   |-> OtherRow(children, hidden, effective, K)]
          /\ effective = SaturatingSub(users, SumUsers(children, DOMAIN children))
                           + SumUsers(children, hidden)
          /\ effective = 0 \/ effective >= K \/ hidden = DOMAIN children
  BY <1>5, <1>7, SuppressShape, ThresholdAssumption
<1>9. /\ r[2].visible = {children[j] : j \in DOMAIN children \ hidden}
      /\ r[2].other = OtherRow(children, hidden, effective, K)
  BY <1>6, <1>8
<1>10. PICK shown : shown = DOMAIN children \ hidden
  OBVIOUS
<1>11. /\ shown \in SUBSET DOMAIN children /\ hidden \in SUBSET DOMAIN children
       /\ hidden = DOMAIN children \ shown
  BY <1>8, <1>10
<1>12. SumFunction([cell \in r[2].visible |-> cell.events]) = SumEvents(children, shown)
  BY <1>7, <1>9, <1>10, <1>11, CellSums
<1>13. /\ SumEvents(children, DOMAIN children)
            = SumEvents(children, shown) + SumEvents(children, hidden)
       /\ SumEvents(children, shown) \in Nat /\ SumEvents(children, hidden) \in Nat
  <2>1. DOMAIN children \in SUBSET DOMAIN children /\ Listed(children)
    BY <1>7
  <2>2. SumEvents(children, shown) \in Nat /\ SumEvents(children, hidden) \in Nat
    BY <1>11, <2>1, ChildSums
  <2>3. \A A \in SUBSET DOMAIN children :
            SumEvents(children, DOMAIN children)
              = SumEvents(children, A) + SumEvents(children, DOMAIN children \ A)
    BY <2>1, ChildSums
  <2> QED BY <1>11, <2>2, <2>3
<1>14. effective \in Nat /\ \A j \in hidden : effective >= 1
  <2>1. SumUsers(children, DOMAIN children) \in Nat /\ SumUsers(children, hidden) \in Nat
    BY <1>7, <1>11, ChildSums
  <2>2. SaturatingSub(users, SumUsers(children, DOMAIN children)) \in Nat
    BY <1>5, <2>1 DEF SaturatingSub
  <2>3. ASSUME NEW j \in hidden PROVE effective >= 1
    <3>1. children[j].users <= SumUsers(children, hidden)
      BY <1>7, <1>11, ChildSums
    <3>2. children[j].users >= 1 /\ children[j].users \in Nat
      BY <1>7, <1>11 DEF Listed
    <3> QED BY <1>8, <2>1, <2>2, <3>1, <3>2
  <2> QED BY <1>8, <2>1, <2>2, <2>3
<1>15. CASE hidden = {}
  <2>1. r[2].other = {}
    BY <1>9, <1>15 DEF OtherRow
  <2>2. SumFunction([cell \in r[2].other |-> cell.events]) = 0
    BY <2>1, SumEmpty
  <2>3. shown = DOMAIN children
    BY <1>10, <1>15
  <2> QED BY <1>1, <1>2, <1>7, <1>12, <1>13, <2>2, <2>3
<1>16. CASE hidden # {} /\ effective >= K
  <2>1. PICK row : row = [events |-> SumEvents(children, hidden), users |-> effective]
    OBVIOUS
  <2>2. r[2].other = {row} /\ row.events = SumEvents(children, hidden)
    BY <1>9, <1>16, <2>1 DEF OtherRow
  <2>3. PICK f : f = [cell \in r[2].other |-> cell.events]
    OBVIOUS
  <2>4. DOMAIN f = {row} /\ f[row] = SumEvents(children, hidden) /\ f[row] \in Int
    BY <1>13, <2>2, <2>3
  <2>5. SumFunction(f) = SumEvents(children, hidden)
    BY <2>4, SumSingle
  <2> QED BY <1>1, <1>2, <1>7, <1>12, <1>13, <2>3, <2>5
<1>17. CASE hidden # {} /\ ~ (effective >= K)
  <2>1. effective # 0
    BY <1>14, <1>17
  <2>2. hidden = DOMAIN children
    BY <1>8, <1>17, <2>1
  <2>3. r[2].visible = {} /\ r[2].other = {}
    BY <1>9, <1>17, <2>2 DEF OtherRow
  <2> QED BY <2>3 DEF CellsOf
<1> QED BY <1>15, <1>16, <1>17

\* Without noise, with every partition known and its sketches kept, and with keys that
\* tell requests apart: the rows of an answer account for every event of the parent, by
\* the tables as they are now, or there are none; whatever the partitions hold, wherever
\* the hidden group ends and however long ago the answer was cached.
THEOREM BreakdownsKeepEvents ==
    ASSUME ~ DP_ENABLED, EveryPartitionKnown, KeysTellApart, EstimatesCount
    PROVE  Spec => []EventsConserved
<1>1. TypeInv /\ RowsInv /\ FreshInv => EventsConserved
  BY EventsKept
<1>2. Spec => []FreshInv
  BY AlwaysFreshInv
<1> QED BY <1>1, <1>2, AlwaysTypeInv, AlwaysRowsInv, PTL

-----------------------------------------------------------------------------
(***************************************************************************)
(* Estimates are not too large.                                            *)
(***************************************************************************)
\* Thresholds for which a sketch with fewer than k registers in use counts them exactly:
\* up to 64 for the 4096 registers of the code.
SmallThreshold == (K - 1) * (K - 1) < REGISTERS

\* A cell with fewer than k users is estimated below k.
LEMMA SmallCellsStaySmall ==
    ASSUME SmallThreshold, TypeInv, RowsInv, NEW w, NEW c, MergedUsers(RowsOf(w, c)) >= K
    PROVE  fetch_cell(w, c).users >= K
<1>1. PICK users \in Nat : users = fetch_cell(w, c).users
  BY CellCounts
<1>2. PICK sketch : /\ MergedUsers(RowsOf(w, c)) = estimate(sketch)
                    /\ IsFiniteSet(DOMAIN sketch)
                    /\ Cardinality(DOMAIN sketch) <= users
  BY <1>1, MergedRegisters
<1>3. PICK used \in Nat : used = Cardinality(DOMAIN sketch)
  BY <1>2, FS_CardinalityType
<1>4. K \in Nat /\ K > 0
  BY ThresholdAssumption
<1>5. ASSUME users < K PROVE FALSE
  <2>1. used <= K - 1 /\ K - 1 \in Nat
    BY <1>2, <1>3, <1>4, <1>5
  <2>2. used * used <= (K - 1) * (K - 1)
    BY <2>1
  <2>3. used * used < REGISTERS
    BY <1>4, <2>2, RegistersAssumption DEF SmallThreshold
  <2>4. estimate(sketch) = used
    BY <1>3, <2>3, EstimateIsCount
  <2> QED BY <1>2, <1>4, <2>1, <2>4
<1> QED BY <1>1, <1>4, <1>5

LEMMA LargeByBothCounts ==
    ASSUME SmallThreshold
    PROVE  TypeInv /\ RowsInv /\ FreshInv => HllShowsLargeCells
<1> SUFFICES ASSUME TypeInv, RowsInv, FreshInv, NEW r \in Released, r[1].level > LEVEL_GLOBAL,
                    r[1].estimator = "hll", NEW cell \in r[2].visible
             PROVE  fetch_cell(r[1].window, cell.key).users >= K
  BY DEF HllShowsLargeCells
<1>1. PICK q : q = r[1]
  OBVIOUS
<1>2. q \in Queries /\ r[2] \in Answers(q)
  BY <1>1, ReleasedAnswers
<1>3. PICK children \in fetch_children_hll(q.window, parent_key(q)) :
          r[2] = suppress(users_or_zero(Cell(q, parent_key(q))), children, K)
  <2>1. q.level # LEVEL_GLOBAL
    BY <1>1 DEF LEVEL_GLOBAL
  <2> QED BY <1>1, <1>2, <2>1 DEF Answers, Children
<1>4. cell.users >= K
  BY <1>3, SuppressAbove DEF AboveThreshold, CellsOf
<1>5. PICK j \in DOMAIN children : cell = children[j]
  BY <1>3 DEF suppress
<1>6. PICK c : cell = CellHll(q.window, c)
  BY <1>3, <1>5 DEF fetch_children_hll, SetToSeqs
<1>7. cell.key = c /\ cell.users = MergedUsers(RowsOf(q.window, c))
  BY <1>6 DEF CellHll, fetch_cell, Summed
<1> QED BY <1>1, <1>4, <1>7, SmallCellsStaySmall

\* Without noise, with every partition known, keys that tell requests apart and thresholds
\* up to the root of the number of registers: whichever hashes collide and whichever
\* partitions have sketches, a child that an estimated answer shows has k users by the
\* exact count too.
THEOREM EstimatesShowLargeCells ==
    ASSUME ~ DP_ENABLED, EveryPartitionKnown, KeysTellApart, SmallThreshold
    PROVE  Spec => []HllShowsLargeCells
<1>1. TypeInv /\ RowsInv /\ FreshInv => HllShowsLargeCells
  BY LargeByBothCounts
<1>2. Spec => []FreshInv
  BY AlwaysFreshInv
<1> QED BY <1>1, <1>2, AlwaysTypeInv, AlwaysRowsInv, PTL

-----------------------------------------------------------------------------
(***************************************************************************)
(* Distinct users.                                                         *)
(***************************************************************************)
\* A row is of edits that its partition may hold.
LEMMA RowOfEdits ==
    ASSUME TypeInv, RowsInv, NEW key \in DOMAIN agg_cells
    PROVE  \E edits \in Edits[key[3]] : agg_cells[key] = Counts(key[3], edits, key[2])
<1>1. PICK w, c, p : key = <<w, c, p>> /\ p \in Partitions
  BY DEF RowsInv, TypeInv
<1>2. PICK edits \in Flushable(p) : RowsFrom(w, p, edits)
  BY <1>1 DEF RowsInv
<1>3. key \in {<<w, d, p>> : d \in Touched(edits)}
  BY <1>1, <1>2 DEF RowsFrom
<1>4. c \in Touched(edits) /\ agg_cells[key] = Counts(p, edits, c)
  BY <1>1, <1>2, <1>3 DEF RowsFrom
<1>5. edits # {}
  BY <1>4 DEF Touched
<1>6. edits \in Edits[p]
  BY <1>2, <1>5 DEF Flushable
<1> QED BY <1>1, <1>4, <1>6

\* Nobody is in the rows of two partitions.
LEMMA RowsApart ==
    ASSUME TypeInv, RowsInv, NEW key \in DOMAIN agg_cells, NEW other \in DOMAIN agg_cells,
           key[3] # other[3]
    PROVE  agg_cells[key].who \cap agg_cells[other].who = {}
<1>1. PICK edits \in Edits[key[3]] : agg_cells[key] = Counts(key[3], edits, key[2])
  BY RowOfEdits
<1>2. PICK others \in Edits[other[3]] : agg_cells[other] = Counts(other[3], others, other[2])
  BY RowOfEdits
<1>3. key[3] \in Partitions /\ other[3] \in Partitions
  BY DEF RowsInv, TypeInv
<1>4. \A edit \in edits, another \in others : edit[1] # another[1]
  BY <1>1, <1>2, <1>3, UsersAssumption
<1>5. /\ \A user \in agg_cells[key].who : \E edit \in edits : user = edit[1]
      /\ \A user \in agg_cells[other].who : \E edit \in others : user = edit[1]
  BY <1>1, <1>2 DEF Counts
<1> QED BY <1>4, <1>5

\* The sum over a cell's rows is the number of its distinct users.
LEMMA CellPeople ==
    ASSUME TypeInv, RowsInv, NEW w, NEW c
    PROVE  /\ IsFiniteSet(People(w, {c}))
           /\ Cardinality(People(w, {c})) = fetch_cell(w, c).users
<1>1. PICK rows : rows = RowsOf(w, c)
  OBVIOUS
<1>2. /\ DOMAIN rows = {key \in DOMAIN agg_cells : key[1] = w /\ key[2] = c}
      /\ \A key \in DOMAIN rows : rows[key] = agg_cells[key]
  BY <1>1 DEF RowsOf, Restrict
<1>3. PICK f : f = [key \in DOMAIN rows |-> rows[key].users]
  OBVIOUS
<1>4. PICK s : s = [key \in DOMAIN rows |-> agg_cells[key].who]
  OBVIOUS
<1>5. IsFiniteSet(DOMAIN f)
  <2>1. DOMAIN f \in SUBSET DOMAIN agg_cells
    BY <1>2, <1>3
  <2> QED BY <2>1, FS_Subset DEF RowsInv
<1>6. \A key \in DOMAIN f : IsFiniteSet(s[key]) /\ f[key] = Cardinality(s[key])
  BY <1>2, <1>3, <1>4, RowCounts
<1>7. \A key, other \in DOMAIN f : key # other => s[key] \cap s[other] = {}
  <2> SUFFICES ASSUME NEW key \in DOMAIN f, NEW other \in DOMAIN f, key # other
               PROVE  agg_cells[key].who \cap agg_cells[other].who = {}
    BY <1>3, <1>4
  <2>1. key \in DOMAIN agg_cells /\ other \in DOMAIN agg_cells
    BY <1>2, <1>3
  <2>2. key = <<w, c, key[3]>> /\ other = <<w, c, other[3]>>
    BY <1>2, <1>3 DEF RowsInv
  <2>3. key[3] # other[3]
    BY <2>2
  <2> QED BY <2>1, <2>3, RowsApart
<1>8. /\ IsFiniteSet(UNION {s[key] : key \in DOMAIN f})
      /\ Cardinality(UNION {s[key] : key \in DOMAIN f}) = SumFunction(f)
  BY <1>5, <1>6, <1>7, DisjointUnion
<1>9. People(w, {c}) = UNION {s[key] : key \in DOMAIN f}
  <2>1. {key \in DOMAIN agg_cells : key[1] = w /\ key[2] \in {c}} = DOMAIN f
    BY <1>2, <1>3
  <2>2. {agg_cells[key].who : key \in DOMAIN f} = {s[key] : key \in DOMAIN f}
    BY <1>3, <1>4
  <2> QED BY <2>1, <2>2 DEF People
<1>10. fetch_cell(w, c).users = SumFunction(f)
  BY <1>1, <1>3 DEF fetch_cell, Summed
<1> QED BY <1>8, <1>9, <1>10

\* Who is in a cell is in one of its children.
LEMMA ParentPeople ==
    ASSUME TypeInv, RowsInv, NEW q, ArgumentsOk(q), q.level > LEVEL_GLOBAL, NEW w,
           NEW user \in People(w, {parent_key(q)})
    PROVE  \E c \in ChildKeys(w, parent_key(q)) : user \in People(w, {c})
<1>1. PICK parent : parent = parent_key(q)
  OBVIOUS
<1>2. PICK key \in DOMAIN agg_cells : key[1] = w /\ key[2] = parent /\ user \in agg_cells[key].who
  BY <1>1 DEF People
<1>3. PICK p \in Partitions : key = <<w, parent, p>>
  BY <1>2 DEF RowsInv, TypeInv
<1>4. PICK edits \in Flushable(p) : RowsFrom(w, p, edits)
  BY DEF RowsInv
<1>5. parent \in Touched(edits)
  <2>1. key \in {<<w, c, p>> : c \in Touched(edits)}
    BY <1>3, <1>4 DEF RowsFrom
  <2> QED BY <1>3, <2>1
<1>6. agg_cells[key] = Counts(p, edits, parent)
  BY <1>3, <1>4, <1>5 DEF RowsFrom
<1>7. PICK edit \in edits : parent \in cells_for_event(EditEvent(edit)) /\ user = edit[1]
  BY <1>2, <1>6 DEF Counts
<1>8. PICK c \in cells_for_event(EditEvent(edit)) : Below(c, parent)
  BY <1>1, <1>7, OneChild
<1>9. c \in Touched(edits)
  BY <1>7, <1>8 DEF Touched
<1>10. PICK row : row = <<w, c, p>>
  OBVIOUS
<1>11. row \in DOMAIN agg_cells /\ agg_cells[row] = Counts(p, edits, c)
  BY <1>4, <1>9, <1>10 DEF RowsFrom
<1>12. user \in agg_cells[row].who /\ row[1] = w /\ row[2] = c
  BY <1>7, <1>8, <1>10, <1>11 DEF Counts
<1>13. user \in People(w, {c})
  BY <1>11, <1>12 DEF People
<1>14. c \in ChildKeys(w, parent)
  BY <1>8, <1>11, <1>12 DEF ChildKeys, Below
<1> QED BY <1>1, <1>13, <1>14

\* So a parent has no more users than its children together.
LEMMA NoResidual ==
    ASSUME TypeInv, RowsInv, NEW q, ArgumentsOk(q), q.level > LEVEL_GLOBAL, NEW w
    PROVE  fetch_cell(w, parent_key(q)).users
             <= SumFunction([c \in ChildKeys(w, parent_key(q)) |-> fetch_cell(w, c).users])
<1>1. PICK parent : parent = parent_key(q)
  OBVIOUS
<1>2. PICK f : f = [c \in ChildKeys(w, parent) |-> fetch_cell(w, c).users]
  OBVIOUS
<1>3. PICK s : s = [c \in ChildKeys(w, parent) |-> People(w, {c})]
  OBVIOUS
<1>4. IsFiniteSet(DOMAIN f)
  BY <1>2, ChildKeysFinite
<1>5. \A c \in DOMAIN f : f[c] \in Nat
  BY <1>2, CellCounts
<1>6. \A c \in DOMAIN f : IsFiniteSet(s[c]) /\ Cardinality(s[c]) <= f[c]
  <2> SUFFICES ASSUME NEW c \in DOMAIN f
               PROVE  IsFiniteSet(People(w, {c})) /\ Cardinality(People(w, {c})) <= f[c]
    BY <1>2, <1>3
  <2>1. IsFiniteSet(People(w, {c})) /\ Cardinality(People(w, {c})) = f[c]
    BY <1>2, CellPeople
  <2> QED BY <1>5, <2>1
<1>7. PICK all : all = UNION {s[c] : c \in DOMAIN f}
  OBVIOUS
<1>8. IsFiniteSet(all) /\ Cardinality(all) <= SumFunction(f)
  BY <1>4, <1>5, <1>6, <1>7, UnionBound
<1>9. PICK people : people = People(w, {parent})
  OBVIOUS
<1>10. people \in SUBSET all
  <2> SUFFICES ASSUME NEW user \in people PROVE user \in all
    OBVIOUS
  <2>1. PICK c \in ChildKeys(w, parent) : user \in People(w, {c})
    BY <1>1, <1>9, ParentPeople
  <2>2. c \in DOMAIN f /\ user \in s[c]
    BY <1>2, <1>3, <2>1
  <2> QED BY <1>7, <2>2
<1>11. Cardinality(people) <= Cardinality(all) /\ Cardinality(people) \in Nat
  <2>1. IsFiniteSet(people) /\ Cardinality(people) <= Cardinality(all)
    BY <1>8, <1>10, FS_Subset
  <2> QED BY <2>1, FS_CardinalityType
<1>12. Cardinality(people) = fetch_cell(w, parent).users
  BY <1>9, CellPeople
<1>13. Cardinality(all) \in Nat /\ SumFunction(f) \in Nat
  BY <1>4, <1>5, <1>8, FS_CardinalityType, SumNat
<1> QED BY <1>1, <1>2, <1>8, <1>11, <1>12, <1>13

\* The users of the children in a part of the list are the users of their cells.
LEMMA PartOfList ==
    ASSUME TypeInv, RowsInv, NEW q, q.estimator = "exact", NEW parent,
           NEW children \in Children(q, parent), NEW S \in SUBSET DOMAIN children,
           NEW cells,
           cells = ChildKeys(q.window, parent) \ {children[j].key : j \in DOMAIN children \ S}
    PROVE  SumUsers(children, S)
             = SumFunction([c \in cells |-> fetch_cell(q.window, c).users])
<1>1. PICK keys : keys = ChildKeys(q.window, parent)
  OBVIOUS
<1>2. PICK n \in Nat :
          /\ children = [j \in 1..n |-> children[j]]
          /\ \A i, j \in 1..n : i # j => children[i] # children[j]
          /\ \A j \in 1..n : \E c \in keys : children[j] = Read(q, c)
          /\ \A c \in keys : \E j \in 1..n : children[j] = Read(q, c)
  BY <1>1, ChildrenRead
<1>3. DOMAIN children = 1..n
  BY <1>2
<1>4. \A c : Read(q, c) = fetch_cell(q.window, c) /\ fetch_cell(q.window, c).key = c
  BY CellCounts DEF Read
<1>5. PICK b : b = [j \in S |-> children[j].key]
  OBVIOUS
<1>6. \A j \in 1..n : children[j].key \in keys /\ children[j] = fetch_cell(q.window, children[j].key)
  <2> SUFFICES ASSUME NEW j \in 1..n
               PROVE  /\ children[j].key \in keys
                      /\ children[j] = fetch_cell(q.window, children[j].key)
    OBVIOUS
  <2>1. PICK c \in keys : children[j] = Read(q, c)
    BY <1>2
  <2> QED BY <1>4, <2>1
<1>7. \A i, j \in 1..n : children[i].key = children[j].key => i = j
  BY <1>2, <1>6
<1>8. \A c \in keys : \E j \in 1..n : c = children[j].key
  BY <1>2, <1>4
<1>9. \A j \in S : b[j] \in cells /\ children[j] = fetch_cell(q.window, b[j])
  BY <1>1, <1>3, <1>5, <1>6, <1>7
<1>10. \A c \in cells : \E j \in S : c = b[j]
  BY <1>1, <1>3, <1>5, <1>8
<1>11. PICK f : f = [j \in S |-> children[j].users]
  OBVIOUS
<1>12. PICK e : e = [c \in cells |-> fetch_cell(q.window, c).users]
  OBVIOUS
<1>13. IsFiniteSet(DOMAIN f) /\ \A x \in DOMAIN f : f[x] \in Int
  <2>1. Listed(children)
    BY ListedChildren
  <2> QED BY <1>11, <2>1, FS_Subset DEF Listed
<1>14. /\ \A x \in DOMAIN f : b[x] \in DOMAIN e /\ e[b[x]] = f[x]
       /\ \A x, y \in DOMAIN f : b[x] = b[y] => x = y
       /\ \A z \in DOMAIN e : \E x \in DOMAIN f : z = b[x]
  BY <1>3, <1>5, <1>7, <1>9, <1>10, <1>11, <1>12
<1>15. SumFunction(e) = SumFunction(f)
  BY <1>13, <1>14, SumRenamed
<1> QED BY <1>11, <1>12, <1>15 DEF SumUsers

\* Cells that share no user have as many as their counts add up to.
LEMMA PeopleApart ==
    ASSUME TypeInv, RowsInv, NEW w, NEW cells, IsFiniteSet(cells),
           \A c, d \in cells : c # d => People(w, {c}) \cap People(w, {d}) = {}
    PROVE  Cardinality(People(w, cells))
             = SumFunction([c \in cells |-> fetch_cell(w, c).users])
<1>1. PICK f : f = [c \in cells |-> fetch_cell(w, c).users]
  OBVIOUS
<1>2. PICK s : s = [c \in cells |-> People(w, {c})]
  OBVIOUS
<1>3. \A c \in DOMAIN f : IsFiniteSet(s[c]) /\ f[c] = Cardinality(s[c])
  BY <1>1, <1>2, CellPeople
<1>4. IsFiniteSet(DOMAIN f) /\ \A c, d \in DOMAIN f : c # d => s[c] \cap s[d] = {}
  BY <1>1, <1>2
<1>5. Cardinality(UNION {s[c] : c \in DOMAIN f}) = SumFunction(f)
  BY <1>3, <1>4, DisjointUnion
<1>6. People(w, cells) = UNION {s[c] : c \in DOMAIN f}
  <2>1. ASSUME NEW user \in People(w, cells) PROVE user \in UNION {s[c] : c \in DOMAIN f}
    <3>1. PICK key \in DOMAIN agg_cells : /\ key[1] = w /\ key[2] \in cells
                                          /\ user \in agg_cells[key].who
      BY <2>1 DEF People
    <3>2. user \in People(w, {key[2]})
      BY <3>1 DEF People
    <3> QED BY <1>1, <1>2, <3>1, <3>2
  <2>2. ASSUME NEW user, user \in UNION {s[c] : c \in DOMAIN f} PROVE user \in People(w, cells)
    <3>1. PICK c \in cells : user \in People(w, {c})
      BY <1>1, <1>2, <2>2
    <3> QED BY <3>1 DEF People
  <2> QED BY <2>1, <2>2
<1> QED BY <1>1, <1>5, <1>6

\* A child that an exact request reads is counted by its distinct users.
CountsPeople(window, children) ==
    \A j \in DOMAIN children :
        children[j].users = Cardinality(People(window, {children[j].key}))

LEMMA ChildPeople ==
    ASSUME TypeInv, RowsInv, NEW q, q.estimator = "exact", NEW parent,
           NEW children \in Children(q, parent)
    PROVE  CountsPeople(q.window, children)
<1> SUFFICES ASSUME NEW j \in DOMAIN children
             PROVE  children[j].users = Cardinality(People(q.window, {children[j].key}))
  BY DEF CountsPeople
<1>1. PICK keys : keys = ChildKeys(q.window, parent)
  OBVIOUS
<1>2. PICK n \in Nat : /\ children = [i \in 1..n |-> children[i]]
                       /\ \A i \in 1..n : \E c \in keys : children[i] = Read(q, c)
  BY <1>1, ChildrenRead
<1>3. PICK c \in keys : children[j] = Read(q, c)
  BY <1>2
<1>4. Read(q, c) = fetch_cell(q.window, c) /\ fetch_cell(q.window, c).key = c
  BY CellCounts DEF Read
<1> QED BY <1>3, <1>4, CellPeople

LEMMA LargeByPeople ==
    ASSUME TypeInv, RowsInv, NEW q \in Queries, ArgumentsOk(q), q.level > LEVEL_GLOBAL,
           q.estimator = "exact", NEW answer \in Answers(q)
    PROVE  /\ \A cell \in answer.visible : Cardinality(People(q.window, {cell.key})) >= K
           /\ /\ answer.other # {}
              /\ \A c, d \in HiddenKeys(q, answer) :
                    c # d => People(q.window, {c}) \cap People(q.window, {d}) = {}
              => Cardinality(People(q.window, HiddenKeys(q, answer))) >= K
<1>1. PICK parent : parent = parent_key(q)
  OBVIOUS
<1>2. PICK keys : keys = HiddenKeys(q, answer)
  OBVIOUS
<1>3. PICK users : users = users_or_zero(Cell(q, parent))
  OBVIOUS
<1>4. PICK children \in Children(q, parent) : answer = suppress(users, children, K)
  BY <1>1, <1>3, BreakdownAnswer
<1>5. Listed(children)
  BY ListedChildren
<1>6. users = fetch_cell(q.window, parent).users /\ users \in Nat
  <2>1. PICK cell : cell = fetch_cell(q.window, parent)
    OBVIOUS
  <2>2. Cell(q, parent) = {cell} /\ cell.users \in Nat
    BY <2>1, CellCounts DEF Cell
  <2>3. PICK f : f = [x \in {cell} |-> x.users]
    OBVIOUS
  <2>4. DOMAIN f = {cell} /\ f[cell] = cell.users /\ f[cell] \in Int
    BY <2>2, <2>3
  <2>5. SumFunction(f) = cell.users
    BY <2>4, SumSingle
  <2> QED BY <1>3, <2>1, <2>2, <2>3, <2>5 DEF users_or_zero
<1>7. PICK hidden, effective :
          /\ hidden \subseteq DOMAIN children
          /\ suppress(users, children, K) =
                 [visible |-> {children[j] : j \in DOMAIN children \ hidden},
                  other   |-> OtherRow(children, hidden, effective, K)]
          /\ effective = SaturatingSub(users, SumUsers(children, DOMAIN children))
                           + SumUsers(children, hidden)
  BY <1>5, <1>6, SuppressShape, ThresholdAssumption
<1>8. /\ answer.visible = {children[j] : j \in DOMAIN children \ hidden}
      /\ answer.other = OtherRow(children, hidden, effective, K)
  BY <1>4, <1>7
<1>9. ASSUME NEW cell \in answer.visible
       PROVE  Cardinality(People(q.window, {cell.key})) >= K
  <2>1. cell.users >= K
    BY <1>4, SuppressAbove DEF AboveThreshold, CellsOf
  <2>2. PICK j \in DOMAIN children : cell = children[j]
    BY <1>8
  <2>3. CountsPeople(q.window, children)
    BY ChildPeople
  <2> QED BY <2>1, <2>2, <2>3 DEF CountsPeople
<1>10. ASSUME answer.other # {},
              \A c, d \in keys : c # d => People(q.window, {c}) \cap People(q.window, {d}) = {}
       PROVE  Cardinality(People(q.window, keys)) >= K
  <2>1. effective >= K
    BY <1>8, <1>10 DEF OtherRow
  <2>2. keys = ChildKeys(q.window, parent) \ {children[j].key : j \in DOMAIN children \ hidden}
    BY <1>1, <1>2, <1>8 DEF HiddenKeys
  <2>3. SumUsers(children, hidden) = SumFunction([c \in keys |-> fetch_cell(q.window, c).users])
    BY <1>7, <2>2, PartOfList
  <2>4. IsFiniteSet(keys)
    <3>1. keys \in SUBSET ChildKeys(q.window, parent)
      BY <2>2
    <3> QED BY <3>1, ChildKeysFinite, FS_Subset
  <2>5. Cardinality(People(q.window, keys))
          = SumFunction([c \in keys |-> fetch_cell(q.window, c).users])
    BY <1>10, <2>4, PeopleApart
  <2>6. SumUsers(children, DOMAIN children)
          = SumFunction([c \in ChildKeys(q.window, parent) |-> fetch_cell(q.window, c).users])
    <3>1. PICK all : all = ChildKeys(q.window, parent)
      OBVIOUS
    <3>2. DOMAIN children \in SUBSET DOMAIN children
      OBVIOUS
    <3>3. all = ChildKeys(q.window, parent)
                  \ {children[j].key : j \in DOMAIN children \ DOMAIN children}
      BY <3>1
    <3>4. SumUsers(children, DOMAIN children)
            = SumFunction([c \in all |-> fetch_cell(q.window, c).users])
      BY <3>2, <3>3, PartOfList
    <3> QED BY <3>1, <3>4
  <2>7. users <= SumUsers(children, DOMAIN children)
    BY <1>1, <1>6, <2>6, NoResidual
  <2>8. SumUsers(children, DOMAIN children) \in Nat /\ SumUsers(children, hidden) \in Nat
    BY <1>5, <1>7, ChildSums
  <2>9. SaturatingSub(users, SumUsers(children, DOMAIN children)) = 0
    BY <1>6, <2>7, <2>8 DEF SaturatingSub
  <2> QED BY <1>7, <2>1, <2>3, <2>5, <2>8, <2>9
<1> QED BY <1>2, <1>9, <1>10

\* Without noise, with every partition known and keys that tell requests apart: a child
\* that an exact breakdown shows, computed or from the cache and however long ago, stands
\* for k distinct users, by the users on all partitions together, and so does an "Other"
\* row when nobody is in two of the hidden children.
THEOREM BreakdownsAboveThreshold ==
    ASSUME ~ DP_ENABLED, EveryPartitionKnown, KeysTellApart
    PROVE  Spec => []KThresholdBreakdown
<1>1. TypeInv /\ RowsInv /\ FreshInv => KThresholdBreakdown
  <2> SUFFICES ASSUME TypeInv, RowsInv, FreshInv, NEW r \in Released,
                      r[1].level > LEVEL_GLOBAL, r[1].estimator = "exact"
               PROVE  /\ \A cell \in r[2].visible :
                             Cardinality(People(r[1].window, {cell.key})) >= K
                      /\ /\ r[2].other # {}
                         /\ \A c, d \in HiddenKeys(r[1], r[2]) :
                               c # d => People(r[1].window, {c}) \cap People(r[1].window, {d}) = {}
                         => Cardinality(People(r[1].window, HiddenKeys(r[1], r[2]))) >= K
    BY DEF KThresholdBreakdown
  <2>1. r[1] \in Queries /\ ArgumentsOk(r[1]) /\ r[2] \in Answers(r[1])
    BY ReleasedAnswers
  <2> QED BY <2>1, LargeByPeople
<1>2. Spec => []FreshInv
  BY AlwaysFreshInv
<1> QED BY <1>1, <1>2, AlwaysTypeInv, AlwaysRowsInv, PTL

=============================================================================
