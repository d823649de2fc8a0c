--------------------------- MODULE PipelineProofs ---------------------------
(***************************************************************************)
(* Every answer of the query API is the one that the whole topic gives     *)
(* (AnswersAreTrue), for every number of instances, partitions, users and  *)
(* requests: through crashes, zombies and replays, whatever arrives        *)
(* between the two reads of a request, and for ever once it is cached.     *)
(*                                                                         *)
(* A progress row may go back when a zombie commits late, so that a window *)
(* is complete is no invariant.  What is: once every partition has flushed *)
(* the window and it ended MAX_DELAY ago, its rows are those of the topic  *)
(* and neither will change (Final).                                        *)
(***************************************************************************)
EXTENDS Pipeline, AggregatorExactProofs

\* A request passes its completeness check only when every partition has a progress
\* row: min(flushed_watermark) does not see the others.  Always so with one partition.
NobodyTooEarly ==
    \A c \in Clients : request[c].stage = "checked" => DOMAIN partition_progress = Partitions

-----------------------------------------------------------------------------
(***************************************************************************)
(* The inductive invariant.                                                *)
(***************************************************************************)
\* Only cells of the topic are in the table.
RowsLogged == DOMAIN agg_cells \subseteq DOMAIN TruthTable

\* The rows of window w are there and will stay.
Final(w) ==
    /\ window_end(w) <= now - MAX_DELAY
    /\ \A p \in Partitions : Published(p, w)

\* What a handler holds is what the topic gives, from its completeness check on.
Served(r) ==
    /\ r.stage \in {"checked", "miss", "parent", "computed", "done"} =>
          r.query \in Queries /\ Q!ArgumentsOk(r.query) /\ Final(r.query.window)
    /\ r.stage = "parent" =>
          /\ r.query.level # LEVEL_GLOBAL
          /\ r.parent_users = T!users_or_zero(T!Cell(r.query, T!parent_key(r.query)))
    /\ r.stage \in {"computed", "done"} => r.answer \in T!Answers(r.query)

\* What is cached for a request is its answer.
CachedIsTrue(q) ==
    Q!cache_key(q) \in DOMAIN cache =>
        Final(q.window) /\ cache[Q!cache_key(q)] \in T!Answers(q)

CacheTrue == \A q \in Queries : Q!ArgumentsOk(q) => CachedIsTrue(q)

\* A handler is a record of its four fields.
Handler(stage, query, parent_users, answer) ==
    [stage |-> stage, query |-> query, parent_users |-> parent_users, answer |-> answer]

RequestsShaped ==
    /\ DOMAIN request = Clients
    /\ request = [c \in Clients |-> request[c]]
    /\ \A c \in Clients : LET r == request[c]
                          IN  r = Handler(r.stage, r.query, r.parent_users, r.answer)

MatchInv ==
    /\ RowsLogged
    /\ RequestsShaped
    /\ \A c \in Clients : Served(request[c])
    /\ CacheTrue

-----------------------------------------------------------------------------
(***************************************************************************)
(* The query API computes alike over both tables.                          *)
(***************************************************************************)
LEMMA SameSums ==
    /\ \A S : Q!Cardinality(S) = T!Cardinality(S)
    /\ \A S : Q!Min(S) = T!Min(S)
    /\ \A S : Q!SetToSeqs(S) = T!SetToSeqs(S)
    /\ \A c, rows : Q!Summed(c, rows) = T!Summed(c, rows)
    /\ \A found : Q!users_or_zero(found) = T!users_or_zero(found)
    /\ \A rows : Q!MergedUsers(rows) = T!MergedUsers(rows)
<1>1. \A S : Q!Cardinality(S) = T!Cardinality(S)
  BY DEF Q!Cardinality, T!Cardinality
<1>2. \A S : Q!Min(S) = T!Min(S)
  BY DEF Q!Min, T!Min
<1>3. \A S : Q!SetToSeqs(S) = T!SetToSeqs(S)
  BY <1>1 DEF Q!SetToSeqs, T!SetToSeqs
<1>4. \A c, rows : Q!Summed(c, rows) = T!Summed(c, rows)
  BY DEF Q!Summed, T!Summed, Q!SumFunction, T!SumFunction,
         Q!SumFunctionOnSet, T!SumFunctionOnSet, Q!FoldFunctionOnSet, T!FoldFunctionOnSet,
         Q!MapThenFoldSet, T!MapThenFoldSet
<1>5. \A found : Q!users_or_zero(found) = T!users_or_zero(found)
  BY DEF Q!users_or_zero, T!users_or_zero, Q!SumFunction, T!SumFunction,
         Q!SumFunctionOnSet, T!SumFunctionOnSet, Q!FoldFunctionOnSet, T!FoldFunctionOnSet,
         Q!MapThenFoldSet, T!MapThenFoldSet
<1>6. \A rows : Q!MergedUsers(rows) = T!MergedUsers(rows)
  BY DEF Q!MergedUsers, T!MergedUsers, Q!estimate, T!estimate, Q!REGISTERS, T!REGISTERS,
         Q!Cardinality, T!Cardinality, Q!FoldSet, T!FoldSet, Q!MapThenFoldSet, T!MapThenFoldSet,
         Q!merge, T!merge, Q!register, T!register, Q!Max, T!Max, Q!EmptySketch, T!EmptySketch
<1> QED BY <1>1, <1>2, <1>3, <1>4, <1>5, <1>6

LEMMA SameSuppression ==
    /\ \A users, children, k : Q!suppress(users, children, k) = T!suppress(users, children, k)
    /\ \A found : Q!GlobalAnswer(found) = T!GlobalAnswer(found)
    /\ \A q : Q!parent_key(q) = T!parent_key(q)
    /\ Q!global = T!global
    /\ T!LEVEL_GLOBAL = LEVEL_GLOBAL /\ Q!LEVEL_GLOBAL = LEVEL_GLOBAL
<1>1. \A cells, indices : /\ Q!SumUsers(cells, indices) = T!SumUsers(cells, indices)
                          /\ Q!SumEvents(cells, indices) = T!SumEvents(cells, indices)
  BY DEF Q!SumUsers, T!SumUsers, Q!SumEvents, T!SumEvents, Q!SumFunction, T!SumFunction,
         Q!SumFunctionOnSet, T!SumFunctionOnSet, Q!FoldFunctionOnSet, T!FoldFunctionOnSet,
         Q!MapThenFoldSet, T!MapThenFoldSet
<1>2. \A children, k : Q!PrimaryHidden(children, k) = T!PrimaryHidden(children, k)
  BY DEF Q!PrimaryHidden, T!PrimaryHidden
<1>3. \A children, indices, n : Q!Smallest(children, indices, n) = T!Smallest(children, indices, n)
  BY SameSums DEF Q!Smallest, T!Smallest
<1>4. \A users, children, k, n :
          Q!HiddenEffective(users, children, k, n) = T!HiddenEffective(users, children, k, n)
  BY <1>1, <1>2, <1>3 DEF Q!HiddenEffective, T!HiddenEffective, Q!SaturatingSub, T!SaturatingSub
<1>5. \A children, hidden, effective, k :
          Q!OtherRow(children, hidden, effective, k) = T!OtherRow(children, hidden, effective, k)
  BY <1>1 DEF Q!OtherRow, T!OtherRow
<1>6. ASSUME NEW users, NEW children, NEW k
      PROVE  Q!PullCount(users, children, k) = T!PullCount(users, children, k)
  BY <1>2, <1>4, SameSums DEF Q!PullCount, T!PullCount
<1>7. \A users, children, k : Q!suppress(users, children, k) = T!suppress(users, children, k)
  BY <1>2, <1>3, <1>4, <1>5, <1>6, Zenon DEF Q!suppress, T!suppress
<1>8. \A found : Q!GlobalAnswer(found) = T!GlobalAnswer(found)
  BY DEF Q!GlobalAnswer, T!GlobalAnswer, Q!suppress_single, T!suppress_single
<1>9. Q!global = T!global
  BY DEF Q!global, T!global, Q!CellKey, T!CellKey, Q!LEVEL_GLOBAL, T!LEVEL_GLOBAL,
         Q!ROLLUP_STR, T!ROLLUP_STR, Q!ROLLUP_NAMESPACE, T!ROLLUP_NAMESPACE
<1>10. \A q : Q!parent_key(q) = T!parent_key(q)
  BY <1>9 DEF Q!parent_key, T!parent_key, Q!CellKey, T!CellKey, Q!LEVEL_FAMILY, T!LEVEL_FAMILY,
         Q!LEVEL_WIKI, T!LEVEL_WIKI, Q!LEVEL_NAMESPACE, T!LEVEL_NAMESPACE,
         Q!ROLLUP_STR, T!ROLLUP_STR, Q!ROLLUP_NAMESPACE, T!ROLLUP_NAMESPACE
<1>11. T!LEVEL_GLOBAL = LEVEL_GLOBAL /\ Q!LEVEL_GLOBAL = LEVEL_GLOBAL
  BY DEF T!LEVEL_GLOBAL, Q!LEVEL_GLOBAL, LEVEL_GLOBAL
<1> QED BY <1>7, <1>8, <1>9, <1>10, <1>11

-----------------------------------------------------------------------------
(***************************************************************************)
(* What is read of a window depends on its rows only.                      *)
(***************************************************************************)
\* Two tables have the same rows of a window.
SameRows(table, other, w) ==
    /\ {k \in DOMAIN table : k[1] = w} = {k \in DOMAIN other : k[1] = w}
    /\ \A k \in {k \in DOMAIN table : k[1] = w} : table[k] = other[k]

LEMMA RestrictSame ==
    ASSUME NEW table, NEW other, NEW w, SameRows(table, other, w), NEW c
    PROVE  [k \in {k \in DOMAIN table : k[1] = w /\ k[2] = c} |-> table[k]]
             = [k \in {k \in DOMAIN other : k[1] = w /\ k[2] = c} |-> other[k]]
<1>1. {k \in DOMAIN table : k[1] = w /\ k[2] = c} = {k \in DOMAIN other : k[1] = w /\ k[2] = c}
  BY DEF SameRows
<1>2. \A k \in {k \in DOMAIN table : k[1] = w /\ k[2] = c} : table[k] = other[k]
  BY DEF SameRows
<1> QED BY <1>1, <1>2

\* The handlers' reads are those of the topic's table.
LEMMA ReadsMatch ==
    ASSUME NEW q, SameRows(agg_cells, TruthTable, q.window)
    PROVE  /\ \A c : Q!Cell(q, c) = T!Cell(q, c)
           /\ \A c : Q!Children(q, c) = T!Children(q, c)
<1>1. \A c : Q!RowsOf(q.window, c) = T!RowsOf(q.window, c)
  BY RestrictSame DEF Q!RowsOf, T!RowsOf, Q!Restrict, T!Restrict
<1>2. \A c : Q!fetch_cell(q.window, c) = T!fetch_cell(q.window, c)
  BY <1>1, SameSums DEF Q!fetch_cell, T!fetch_cell
<1>3. \A c : Q!CellHll(q.window, c) = T!CellHll(q.window, c)
  BY <1>1, <1>2, SameSums DEF Q!CellHll, T!CellHll
<1>4. \A c : Q!fetch_cell_hll(q.window, c) = T!fetch_cell_hll(q.window, c)
  BY <1>1, <1>3 DEF Q!fetch_cell_hll, T!fetch_cell_hll
<1>5. \A c : Q!Cell(q, c) = T!Cell(q, c)
  BY <1>2, <1>4 DEF Q!Cell, T!Cell
<1>6. \A c : Q!ChildKeys(q.window, c) = T!ChildKeys(q.window, c)
  BY DEF SameRows, Q!ChildKeys, T!ChildKeys, Q!LEVEL_FAMILY, T!LEVEL_FAMILY,
         Q!LEVEL_WIKI, T!LEVEL_WIKI
<1>7. ASSUME NEW c PROVE Q!Children(q, c) = T!Children(q, c)
  <2>1. {Q!fetch_cell(q.window, d) : d \in Q!ChildKeys(q.window, c)}
          = {T!fetch_cell(q.window, d) : d \in T!ChildKeys(q.window, c)}
    BY <1>2, <1>6
  <2>2. {Q!CellHll(q.window, d) : d \in Q!ChildKeys(q.window, c)}
          = {T!CellHll(q.window, d) : d \in T!ChildKeys(q.window, c)}
    BY <1>3, <1>6
  <2>3. Q!fetch_children(q.window, c) = T!fetch_children(q.window, c)
    BY <2>1, SameSums DEF Q!fetch_children, T!fetch_children
  <2>4. Q!fetch_children_hll(q.window, c) = T!fetch_children_hll(q.window, c)
    BY <2>2, SameSums DEF Q!fetch_children_hll, T!fetch_children_hll
  <2> QED BY <2>3, <2>4 DEF Q!Children, T!Children
<1> QED BY <1>5, <1>7

\* While the topic's rows of a window stay, so does what it answers.
LEMMA TruthStays ==
    ASSUME NEW q, SameRows(TruthTable', TruthTable, q.window)
    PROVE  /\ \A c : T!Cell(q, c)' = T!Cell(q, c)
           /\ T!Answers(q)' = T!Answers(q)
<1>1. ASSUME NEW c PROVE T!RowsOf(q.window, c)' = T!RowsOf(q.window, c)
  BY RestrictSame DEF T!RowsOf, T!Restrict
<1>2. \A c : T!fetch_cell(q.window, c)' = T!fetch_cell(q.window, c)
  BY <1>1 DEF T!fetch_cell
<1>3. \A c : T!CellHll(q.window, c)' = T!CellHll(q.window, c)
  BY <1>1, <1>2 DEF T!CellHll
<1>4. \A c : T!fetch_cell_hll(q.window, c)' = T!fetch_cell_hll(q.window, c)
  BY <1>1, <1>3 DEF T!fetch_cell_hll
<1>5. \A c : T!Cell(q, c)' = T!Cell(q, c)
  BY <1>2, <1>4 DEF T!Cell
<1>6. \A c : T!ChildKeys(q.window, c)' = T!ChildKeys(q.window, c)
  BY DEF SameRows, T!ChildKeys
<1>7. ASSUME NEW c PROVE T!Children(q, c)' = T!Children(q, c)
  <2>1. {T!fetch_cell(q.window, d) : d \in T!ChildKeys(q.window, c)}'
          = {T!fetch_cell(q.window, d) : d \in T!ChildKeys(q.window, c)}
    BY <1>2, <1>6
  <2>2. {T!CellHll(q.window, d) : d \in T!ChildKeys(q.window, c)}'
          = {T!CellHll(q.window, d) : d \in T!ChildKeys(q.window, c)}
    BY <1>3, <1>6
  <2>3. T!fetch_children(q.window, c)' = T!fetch_children(q.window, c)
    BY <2>1 DEF T!fetch_children
  <2>4. T!fetch_children_hll(q.window, c)' = T!fetch_children_hll(q.window, c)
    BY <2>2 DEF T!fetch_children_hll
  <2> QED BY <2>3, <2>4 DEF T!Children
<1>8. T!Answers(q)' = T!Answers(q)
  <2>1. T!GlobalAnswer(T!Cell(q, T!global))' = T!GlobalAnswer(T!Cell(q, T!global))
    BY <1>5
  <2>2. {T!suppress(T!users_or_zero(T!Cell(q, T!parent_key(q))), children, K) :
             children \in T!Children(q, T!parent_key(q))}'
          = {T!suppress(T!users_or_zero(T!Cell(q, T!parent_key(q))), children, K) :
             children \in T!Children(q, T!parent_key(q))}
    BY <1>5, <1>7
  <2> QED BY <2>1, <2>2 DEF T!Answers
<1> QED BY <1>5, <1>8

\* The topic's table has the cells that its events count in.
LEMMA TruthKeys ==
    /\ \A key : key \in DOMAIN TruthTable <=>
          \E p \in Partitions : \E o \in DOMAIN log[p] :
              /\ log[p][o] # Undecodable
              /\ \E c \in cells_for_event(log[p][o]) : key = <<window_start(log[p][o].ts), c, p>>
    /\ \A key \in DOMAIN TruthTable : TruthTable[key] = TruthRow(key[1], key[2], key[3])
BY DEF TruthTable

LEMMA TruthKeysPrimed ==
    /\ \A key : key \in DOMAIN TruthTable' <=>
          \E p \in Partitions : \E o \in DOMAIN log'[p] :
              /\ log'[p][o] # Undecodable
              /\ \E c \in cells_for_event(log'[p][o]) : key = <<window_start(log'[p][o].ts), c, p>>
    /\ \A key \in DOMAIN TruthTable' : TruthTable'[key] = TruthRow(key[1], key[2], key[3])'
BY DEF TruthTable

-----------------------------------------------------------------------------
(***************************************************************************)
(* The rows of a final window.                                             *)
(***************************************************************************)
USE DEF kafkaVars, instanceVars, dbVars

\* The keys of a window by its events, before and after a step.
LEMMA KeysByEvents ==
    ASSUME NEW w
    PROVE  /\ TypeInv => \A key :
                 (key \in DOMAIN TruthTable /\ key[1] = w) <=>
                     \E p \in Partitions : \E e \in EventsOf(log[p], w, Len(log[p])) :
                         \E c \in cells_for_event(e) : key = <<w, c, p>>
           /\ TypeInv' => \A key :
                 (key \in DOMAIN TruthTable' /\ key[1] = w) <=>
                     \E p \in Partitions : \E e \in EventsOf(log'[p], w, Len(log'[p])) :
                         \E c \in cells_for_event(e) : key = <<w, c, p>>
<1>1. ASSUME TypeInv, NEW key
      PROVE  (key \in DOMAIN TruthTable /\ key[1] = w) <=>
                 \E p \in Partitions : \E e \in EventsOf(log[p], w, Len(log[p])) :
                     \E c \in cells_for_event(e) : key = <<w, c, p>>
  <2>1. \A p \in Partitions : DOMAIN log[p] = 1..Len(log[p])
    BY <1>1 DEF TypeInv, TypeOK, KafkaTypeOK
  <2> QED BY <2>1, TruthKeys DEF EventsOf
<1>2. ASSUME TypeInv', NEW key
      PROVE  (key \in DOMAIN TruthTable' /\ key[1] = w) <=>
                 \E p \in Partitions : \E e \in EventsOf(log'[p], w, Len(log'[p])) :
                     \E c \in cells_for_event(e) : key = <<w, c, p>>
  <2>1. \A p \in Partitions : DOMAIN log'[p] = 1..Len(log'[p])
    BY <1>2 DEF TypeInv, TypeOK, KafkaTypeOK
  <2> QED BY <2>1, TruthKeysPrimed DEF EventsOf
<1> QED BY <1>1, <1>2

\* Its rows are those of the topic.
LEMMA FinalRows ==
    ASSUME TypeInv, ExactInv, RowsLogged, NEW w \in Int, Final(w)
    PROVE  SameRows(agg_cells, TruthTable, w)
<1>1. ASSUME NEW key \in DOMAIN agg_cells, key[1] = w
      PROVE  key \in DOMAIN TruthTable /\ agg_cells[key] = TruthTable[key]
  <2>1. key \in DOMAIN TruthTable
    BY DEF RowsLogged
  <2> QED BY <2>1, TruthKeys DEF ExactInv, RowsExact
<1>2. ASSUME NEW key \in DOMAIN TruthTable, key[1] = w
      PROVE  key \in DOMAIN agg_cells
  BY <1>2, KeysByEvents DEF Final, Published
<1> QED BY <1>1, <1>2 DEF SameRows

\* Producers append to the log; every other step leaves it, and removes no row.
LEMMA LogOrTable ==
    ASSUME TypeInv, [Next]_vars
    PROVE  \/ \E p \in Partitions : Produce(p) \/ ProduceDuplicate(p) \/ ProduceUndecodable(p)
           \/ /\ log' = log /\ now <= now'
              /\ DOMAIN agg_cells \subseteq DOMAIN agg_cells'
              /\ DOMAIN partition_progress \subseteq DOMAIN partition_progress'
              /\ (\E i \in Instances, p \in Partitions : FlushCommit(i, p)) \/ agg_cells' = agg_cells
<1>1. now \in Nat
  BY DEF TypeInv, TypeOK, KafkaTypeOK
<1>2. CASE Tick
  BY <1>1, <1>2 DEF Tick
<1>3. CASE \E i \in Instances : SessionTimeout(i) \/ Crash(i) \/ TakeBatches(i)
  BY <1>1, <1>3 DEF SessionTimeout, Crash, TakeBatches
<1>4. ASSUME NEW i \in Instances, NEW p \in Partitions,
             \/ AssignLoaded(i, p) \/ AssignLoadError(i, p)
             \/ InstallState(i, p) \/ InstallStateSeekFailed(i, p) \/ Revoke(i, p)
             \/ ProcessMessage(i, p) \/ SkipUndecodable(i, p) \/ IdleTick(i, p)
             \/ FlushError(i, p)
      PROVE  UNCHANGED <<log, now, agg_cells, partition_progress>>
  BY <1>4 DEF AssignLoaded, AssignLoadError, Assign, InstallState, InstallStateSeekFailed, Install,
              Revoke, ProcessMessage, SkipUndecodable, IdleTick, FlushError
<1>5. ASSUME NEW i \in Instances, NEW p \in Partitions, FlushCommit(i, p)
      PROVE  /\ log' = log /\ now' = now
             /\ DOMAIN agg_cells \subseteq DOMAIN agg_cells'
             /\ DOMAIN partition_progress \subseteq DOMAIN partition_progress'
  BY <1>5 DEF FlushCommit, flush_windows, Override, Put
<1>6. CASE UNCHANGED vars
  BY <1>1, <1>6 DEF vars
<1> QED BY <1>1, <1>2, <1>3, <1>4, <1>5, <1>6 DEF Next

\* Neither they nor those of the topic change any more.
LEMMA FinalStays ==
    ASSUME TypeInv, TypeInv', DocumentedConditions, [Next]_vars, NEW w \in Int, Final(w)
    PROVE  Final(w)' /\ SameRows(TruthTable', TruthTable, w)
<1>1. now \in Nat /\ now' \in Nat /\ window_end(w) \in Int
  BY WindowSizeAssumption DEF TypeInv, TypeOK, KafkaTypeOK, window_end
<1>2. /\ Final(w)'
      /\ \A p \in Partitions : /\ EventsOf(log'[p], w, Len(log'[p])) = EventsOf(log[p], w, Len(log[p]))
                               /\ \A c : TruthRow(w, c, p)' = TruthRow(w, c, p)
  <2>1. ASSUME NEW p \in Partitions,
               Produce(p) \/ ProduceDuplicate(p) \/ ProduceUndecodable(p)
        PROVE  <1>2!1 /\ <1>2!2
    <3>1. PICK message \in EventType \cup {Undecodable} :
             MayFollow(log[p], message) /\ AppendMessage(p, message)
      BY <2>1, ProducersFollow
    <3>2. \A q \in Partitions :
              /\ EventsOf(log'[q], w, Len(log'[q])) = EventsOf(log[q], w, Len(log[q]))
              /\ \A c : TruthRow(w, c, q)' = TruthRow(w, c, q)
              /\ Published(q, w)' <=> Published(q, w)
      BY <3>1, AppendKeepsTruth DEF Final
    <3>3. now' = now
      BY <3>1 DEF AppendMessage
    <3> QED BY <3>2, <3>3 DEF Final
  <2>2. ASSUME log' = log, now <= now', DOMAIN agg_cells \subseteq DOMAIN agg_cells'
        PROVE  <1>2!1 /\ <1>2!2
    <3>1. \A p : Published(p, w) => Published(p, w)'
      BY <2>2 DEF Published
    <3>2. window_end(w) <= now' - MAX_DELAY
      BY <1>1, <2>2, DelayAssumption DEF Final
    <3>3. \A p, c : TruthRow(w, c, p)' = TruthRow(w, c, p)
      BY <2>2 DEF TruthRow, TruthIds, TruthUsers, TruthOffsets
    <3> QED BY <2>2, <3>1, <3>2, <3>3 DEF Final
  <2> QED BY <2>1, <2>2, LogOrTable
<1>3. \A key : (key \in DOMAIN TruthTable' /\ key[1] = w)
                  <=> (key \in DOMAIN TruthTable /\ key[1] = w)
  BY <1>2, KeysByEvents
<1>4. ASSUME NEW key \in DOMAIN TruthTable, key[1] = w
      PROVE  TruthTable'[key] = TruthTable[key]
  <2>1. key[3] \in Partitions
    BY <1>4, KeysByEvents
  <2> QED BY <1>2, <1>3, <1>4, <2>1, TruthKeys, TruthKeysPrimed
<1> QED BY <1>2, <1>3, <1>4 DEF SameRows

\* A transaction writes cells that the log has; the log only grows.
LEMMA NextRowsLogged ==
    ASSUME TypeInv, TypeInv', ExactInv, RowsLogged, [Next]_vars
    PROVE  RowsLogged'
<1>1. DOMAIN TruthTable \subseteq DOMAIN TruthTable'
  <2>1. \A p \in Partitions : \A o \in DOMAIN log[p] : o \in DOMAIN log'[p] /\ log'[p][o] = log[p][o]
    <3>1. KafkaTypeOK /\ KafkaTypeOK'
      BY DEF TypeInv, TypeOK
    <3>2. LogExtended \/ log' = log
      BY <3>1, LogOrTable, ProducersExtendLog
    <3>3. \A p \in Partitions : /\ DOMAIN log[p] = 1..Len(log[p]) /\ Len(log[p]) \in Nat
                               /\ DOMAIN log'[p] = 1..Len(log'[p]) /\ Len(log'[p]) \in Nat
      BY <3>1 DEF KafkaTypeOK
    <3> QED BY <3>2, <3>3 DEF LogExtended
  <2> QED BY <2>1, TruthKeys, TruthKeysPrimed
<1>2. ASSUME NEW i \in Instances, NEW p \in Partitions, FlushCommit(i, p),
             NEW key \in DOMAIN agg_cells' \ DOMAIN agg_cells
      PROVE  key \in DOMAIN TruthTable
  <2>1. p \in DOMAIN inflight[i] /\ key \in DOMAIN CellRows(p, inflight[i][p].closed)
    BY <1>2 DEF FlushCommit, flush_windows, Override
  <2>2. PICK closed : closed = inflight[i][p].closed
    OBVIOUS
  <2>3. \A w \in DOMAIN closed : Holds(closed[w], EventsOf(log[p], w, Len(log[p])))
    BY <2>1, <2>2 DEF ExactInv, BatchesExact, BatchExact
  <2>4. PICK w \in DOMAIN closed : \E c \in DOMAIN closed[w].cells : key = <<w, c, p>>
    BY <2>1, <2>2 DEF CellRows
  <2>5. \E e \in EventsOf(log[p], w, Len(log[p])) : \E c \in cells_for_event(e) : key = <<w, c, p>>
    BY <2>3, <2>4 DEF Holds
  <2> QED BY <2>5, KeysByEvents
<1>3. (\E i \in Instances, p \in Partitions : FlushCommit(i, p)) \/ agg_cells' = agg_cells
  BY LogOrTable, ProducersExtendLog DEF TypeInv, TypeOK
<1> QED BY <1>1, <1>2, <1>3 DEF RowsLogged

-----------------------------------------------------------------------------
(***************************************************************************)
(* The completeness check.                                                 *)
(***************************************************************************)
\* A finite set of instants has the minimum that Min chooses.
LEMMA FiniteMin ==
    ASSUME NEW S, S \subseteq Int, S # {}, IsFiniteSet(S)
    PROVE  Q!Min(S) \in S /\ \A x \in S : Q!Min(S) <= x
<1> DEFINE Below(x) == {y \in S : y < x}
           counts == {Cardinality(Below(x)) : x \in S}
<1>1. \A x \in S : IsFiniteSet(Below(x)) /\ Cardinality(Below(x)) \in Nat
  BY FS_Subset, FS_CardinalityType
<1>2. PICK n \in counts : \A m \in counts : ~ (<<m, n>> \in OpToRel(<, Nat))
  <2>1. counts \subseteq Nat /\ counts # {}
    BY <1>1
  <2> HIDE DEF counts
  <2> QED BY <2>1, NatLessThanWellFounded, WFMin, Zenon
<1>3. PICK low \in S : n = Cardinality(Below(low))
  BY <1>2
<1>4. ASSUME NEW x \in S, x < low
      PROVE  FALSE
  <2>1. x \in Int /\ low \in Int
    OBVIOUS
  <2>2. Below(x) \subseteq Below(low) /\ x \in Below(low) /\ x \notin Below(x)
    <3>1. \A y \in S : y \in Int /\ (y < x => y < low)
      BY <1>4, <2>1
    <3>2. ~ (x < x)
      BY <2>1
    <3> QED BY <1>4, <3>1, <3>2
  <2>3. Cardinality(Below(x)) < Cardinality(Below(low))
    <3> HIDE DEF Below
    <3> QED BY <1>1, <2>2, FS_Subset
  <2>4. <<Cardinality(Below(x)), n>> \in OpToRel(<, Nat)
    BY <1>1, <1>3, <2>3 DEF OpToRel
  <2> QED BY <1>2, <2>4
<1>5. \A x \in S : low <= x
  BY <1>4
<1> QED BY <1>5 DEF Q!Min

\* A window that is complete by a progress table without gaps is final.
LEMMA CompleteIsFinal ==
    ASSUME TypeInv, ExactInv, DOMAIN partition_progress = Partitions,
           NEW w \in Int, Q!complete(w)
    PROVE  Final(w)
<1>1. PICK S : S = {watermarks[p] : p \in DOMAIN watermarks}
  OBVIOUS
<1>2. \A p \in Partitions : partition_progress[p].flushed_watermark \in Int
  BY DEF TypeInv, TypeOK, DbTypeOK, IsPartitionMap, IsProgress
<1>3. S = {partition_progress[p].flushed_watermark : p \in Partitions} /\ S # {}
  BY <1>1 DEF watermarks, Q!complete
<1>4. IsFiniteSet(S)
  <2>1. [p \in Partitions |-> partition_progress[p].flushed_watermark] \in Surjection(Partitions, S)
    BY <1>3 DEF Surjection
  <2> QED BY <2>1, PartitionsAssumption, FS_Surjection
<1>5. Q!Min(S) \in S /\ \A x \in S : Q!Min(S) <= x
  BY <1>2, <1>3, <1>4, FiniteMin
<1>6. window_end(w) <= Q!Min(S) /\ window_end(w) \in Int
  BY <1>1, WindowSizeAssumption
     DEF Q!complete, Q!min_flushed_watermark, Q!window_end, window_end
<1>7. ASSUME NEW p \in Partitions
      PROVE  /\ window_end(w) <= partition_progress[p].flushed_watermark
             /\ FlushedBut(p, partition_progress[p].flushed_watermark, {})
  <2>1. Q!Min(S) <= partition_progress[p].flushed_watermark /\ Q!Min(S) \in Int
    BY <1>2, <1>3, <1>5
  <2> QED BY <1>2, <1>6, <2>1 DEF ExactInv, ProgressExact
<1>8. \A p \in Partitions : Published(p, w)
  BY <1>7 DEF FlushedBut
<1>9. window_end(w) <= now - MAX_DELAY
  <2>1. PICK p \in Partitions : TRUE
    BY <1>3
  <2>2. now \in Nat /\ MAX_DELAY \in Nat
    BY DelayAssumption DEF TypeInv, TypeOK, KafkaTypeOK
  <2> QED BY <1>2, <1>6, <1>7, <2>2 DEF FlushedBut
<1> QED BY <1>8, <1>9 DEF Final

-----------------------------------------------------------------------------
(***************************************************************************)
(* The handlers' steps.                                                    *)
(***************************************************************************)
\* One client's handler moves; the others stand still.
Moves(c, stage, query, parent_users, answer) ==
    request' = [request EXCEPT ![c] = Handler(stage, query, parent_users, answer)]

LEMMA Moved ==
    ASSUME RequestsShaped, NEW c \in Clients,
           NEW stage, NEW query, NEW users, NEW answer, Moves(c, stage, query, users, answer)
    PROVE  /\ request'[c].stage = stage /\ request'[c].query = query
           /\ request'[c].parent_users = users /\ request'[c].answer = answer
           /\ \A d \in Clients \ {c} : request'[d] = request[d]
           /\ RequestsShaped'
<1>1. PICK h : h = Handler(stage, query, users, answer)
  OBVIOUS
<1>2. h.stage = stage /\ h.query = query /\ h.parent_users = users /\ h.answer = answer
  BY <1>1 DEF Handler
<1>3. /\ request' = [request EXCEPT ![c] = h] /\ DOMAIN request' = Clients
      /\ request'[c] = h
      /\ \A d \in Clients \ {c} : request'[d] = request[d]
      /\ request' = [d \in Clients |-> request'[d]]
  BY <1>1 DEF RequestsShaped, Moves
<1>4. ASSUME NEW d \in Clients, NEW r, r = request'[d]
      PROVE  r = Handler(r.stage, r.query, r.parent_users, r.answer)
  BY <1>1, <1>2, <1>3, <1>4 DEF RequestsShaped
<1> QED BY <1>2, <1>3, <1>4 DEF RequestsShaped

\* The forms in which the code updates its variables.
LEMMA Updates ==
    ASSUME RequestsShaped, NEW c \in Clients
    PROVE  LET r == request[c]
           IN  /\ \A s : request' = [request EXCEPT ![c].stage = s]
                     => Moves(c, s, r.query, r.parent_users, r.answer)
               /\ \A s, a : request' = [request EXCEPT ![c].stage = s, ![c].answer = a]
                     => Moves(c, s, r.query, r.parent_users, a)
               /\ \A s, u : request' = [request EXCEPT ![c].stage = s, ![c].parent_users = u]
                     => Moves(c, s, r.query, u, r.answer)
<1>1. PICK r : r = request[c]
  OBVIOUS
<1>2. r = Handler(r.stage, r.query, r.parent_users, r.answer)
  BY <1>1 DEF RequestsShaped
<1>3. ASSUME NEW s
      PROVE  [r EXCEPT !.stage = s] = Handler(s, r.query, r.parent_users, r.answer)
  BY <1>2 DEF Handler
<1>4. ASSUME NEW s, NEW a
      PROVE  [r EXCEPT !.stage = s, !.answer = a] = Handler(s, r.query, r.parent_users, a)
  <2>1. PICK h : h = [r EXCEPT !.stage = s]
    OBVIOUS
  <2>2. [r EXCEPT !.stage = s, !.answer = a] = [h EXCEPT !.answer = a]
    BY <2>1
  <2>3. h = Handler(s, r.query, r.parent_users, r.answer)
    BY <1>3, <2>1
  <2> QED BY <2>2, <2>3 DEF Handler
<1>5. ASSUME NEW s, NEW u
      PROVE  [r EXCEPT !.stage = s, !.parent_users = u] = Handler(s, r.query, u, r.answer)
  <2>1. PICK h : h = [r EXCEPT !.stage = s]
    OBVIOUS
  <2>2. [r EXCEPT !.stage = s, !.parent_users = u] = [h EXCEPT !.parent_users = u]
    BY <2>1
  <2>3. h = Handler(s, r.query, r.parent_users, r.answer)
    BY <1>3, <2>1
  <2> QED BY <2>2, <2>3 DEF Handler
<1>6. ASSUME NEW h, NEW s, NEW u, NEW a, h = Handler(s, r.query, u, a),
             request' = [request EXCEPT ![c] = h]
      PROVE  Moves(c, s, r.query, u, a)
  BY <1>6 DEF Moves
<1>7. ASSUME NEW s, request' = [request EXCEPT ![c].stage = s]
      PROVE  Moves(c, s, r.query, r.parent_users, r.answer)
  <2>1. request' = [request EXCEPT ![c] = [r EXCEPT !.stage = s]]
    BY <1>1, <1>7 DEF RequestsShaped
  <2> QED BY <1>3, <1>6, <2>1
<1>8. ASSUME NEW s, NEW a, request' = [request EXCEPT ![c].stage = s, ![c].answer = a]
      PROVE  Moves(c, s, r.query, r.parent_users, a)
  <2>1. request' = [request EXCEPT ![c] = [r EXCEPT !.stage = s, !.answer = a]]
    BY <1>1, <1>8 DEF RequestsShaped
  <2> QED BY <1>4, <1>6, <2>1
<1>9. ASSUME NEW s, NEW u, request' = [request EXCEPT ![c].stage = s, ![c].parent_users = u]
       PROVE  Moves(c, s, r.query, u, r.answer)
  <2>1. request' = [request EXCEPT ![c] = [r EXCEPT !.stage = s, !.parent_users = u]]
    BY <1>1, <1>9 DEF RequestsShaped
  <2> QED BY <1>5, <1>6, <2>1
<1> QED BY <1>1, <1>7, <1>8, <1>9

\* What a handler holds, and what is cached, stays true.
LEMMA ServedStays ==
    ASSUME TypeInv, TypeInv', DocumentedConditions, [Next]_vars, NEW r, Served(r)
    PROVE  Served(r)'
<1>1. ASSUME r.stage \in {"checked", "miss", "parent", "computed", "done"}
      PROVE  /\ r.query \in Queries /\ Q!ArgumentsOk(r.query) /\ Final(r.query.window)'
             /\ \A c : T!Cell(r.query, c)' = T!Cell(r.query, c)
             /\ T!Answers(r.query)' = T!Answers(r.query)
  <2>1. /\ r.query \in Queries /\ Q!ArgumentsOk(r.query)
        /\ Final(r.query.window) /\ r.query.window \in Int
    BY <1>1, AskedAssumption DEF Served
  <2>2. Final(r.query.window)' /\ SameRows(TruthTable', TruthTable, r.query.window)
    BY <2>1, FinalStays
  <2> QED BY <2>1, <2>2, TruthStays
<1>2. r.stage = "parent" =>
          /\ r.query.level # LEVEL_GLOBAL
          /\ r.parent_users = T!users_or_zero(T!Cell(r.query, T!parent_key(r.query))')
  BY <1>1 DEF Served
<1>3. r.stage \in {"computed", "done"} => r.answer \in T!Answers(r.query)'
  BY <1>1 DEF Served
<1> QED BY <1>1, <1>2, <1>3 DEF Served

LEMMA CacheStays ==
    ASSUME TypeInv, TypeInv', DocumentedConditions, [Next]_vars, CacheTrue,
           NEW q \in Queries, Q!ArgumentsOk(q), Q!cache_key(q) \in DOMAIN cache
    PROVE  Final(q.window)' /\ cache[Q!cache_key(q)] \in T!Answers(q)'
<1>1. /\ Final(q.window) /\ cache[Q!cache_key(q)] \in T!Answers(q)
      /\ q.window \in Int
  BY AskedAssumption DEF CacheTrue, CachedIsTrue
<1>2. Final(q.window)' /\ SameRows(TruthTable', TruthTable, q.window)
  BY <1>1, FinalStays
<1> QED BY <1>1, <1>2, TruthStays

\* The aggregator's steps leave the requests true.
LEMMA AggregatorMatches ==
    ASSUME TypeInv, TypeInv', ExactInv, DocumentedConditions, MatchInv,
           [Next]_vars, UNCHANGED queryVars
    PROVE  MatchInv'
<1>1. request' = request /\ cache' = cache
  BY DEF queryVars
<1>2. RowsLogged'
  BY NextRowsLogged DEF MatchInv
<1>3. RequestsShaped'
  BY <1>1 DEF MatchInv, RequestsShaped
<1>4. ASSUME NEW c \in Clients PROVE Served(request[c])'
  <2>1. PICK r : r = request[c]
    OBVIOUS
  <2>2. Served(r)'
    BY <2>1, ServedStays DEF MatchInv
  <2>3. r = request'[c]
    BY <1>1, <2>1
  <2> QED BY <2>2, <2>3 DEF Served
<1>5. CacheTrue'
  BY <1>1, CacheStays DEF MatchInv, CacheTrue, CachedIsTrue
<1> QED BY <1>2, <1>3, <1>4, <1>5 DEF MatchInv

\* One handler moves, to something true.
LEMMA MovedMatches ==
    ASSUME TypeInv, TypeInv', DocumentedConditions, MatchInv, UNCHANGED <<vars, cache>>,
           NEW c \in Clients, NEW stage, NEW query, NEW users, NEW answer,
           Moves(c, stage, query, users, answer),
           Served(Handler(stage, query, users, answer))
    PROVE  MatchInv'
<1>1. /\ \A d \in Clients \ {c} : request'[d] = request[d]
      /\ RequestsShaped'
      /\ request'[c] = Handler(stage, query, users, answer)
  BY Moved DEF MatchInv, RequestsShaped, Moves
<1>2. ASSUME NEW d \in Clients PROVE Served(request[d])'
  <2>1. PICK r : r = request'[d]
    OBVIOUS
  <2>2. Served(r)
    BY <1>1, <2>1 DEF MatchInv
  <2>3. Served(r)'
    BY <2>2, ServedStays
  <2> QED BY <2>1, <2>3 DEF Served
<1>3. RowsLogged'
  <2>1. agg_cells' = agg_cells /\ TruthTable' = TruthTable
    BY DEF vars, TruthTable, TruthRow, TruthIds, TruthUsers, TruthOffsets
  <2> QED BY <2>1 DEF MatchInv, RowsLogged
<1>4. CacheTrue'
  BY CacheStays DEF MatchInv, CacheTrue, CachedIsTrue
<1> QED BY <1>1, <1>2, <1>3, <1>4 DEF MatchInv

LEMMA ServedHandler ==
    ASSUME NEW stage, NEW query, NEW users, NEW answer,
           stage \in {"checked", "miss", "parent", "computed", "done"} =>
               query \in Queries /\ Q!ArgumentsOk(query) /\ Final(query.window),
           stage = "parent" =>
               /\ query.level # LEVEL_GLOBAL
               /\ users = T!users_or_zero(T!Cell(query, T!parent_key(query))),
           stage \in {"computed", "done"} => answer \in T!Answers(query)
    PROVE  Served(Handler(stage, query, users, answer))
<1>1. PICK r : r = Handler(stage, query, users, answer)
  OBVIOUS
<1>2. r.stage = stage /\ r.query = query /\ r.parent_users = users /\ r.answer = answer
  BY <1>1 DEF Handler
<1> QED BY <1>1, <1>2 DEF Served

\* A request in progress reads what the topic's table has.
LEMMA InProgress ==
    ASSUME TypeInv, ExactInv, MatchInv, NEW c \in Clients,
           request[c].stage \in {"checked", "miss", "parent", "computed", "done"}
    PROVE  /\ request[c].query \in Queries /\ Q!ArgumentsOk(request[c].query)
           /\ Final(request[c].query.window)
           /\ \A d : Q!Cell(request[c].query, d) = T!Cell(request[c].query, d)
           /\ \A d : Q!Children(request[c].query, d) = T!Children(request[c].query, d)
<1>1. PICK q : q = request[c].query
  OBVIOUS
<1>2. q \in Queries /\ Q!ArgumentsOk(q) /\ Final(q.window) /\ q.window \in Int
  BY <1>1, AskedAssumption DEF MatchInv, Served
<1>3. SameRows(agg_cells, TruthTable, q.window)
  BY <1>2, FinalRows DEF MatchInv
<1> QED BY <1>1, <1>2, <1>3, ReadsMatch

\* Requests with the same cache key have the same answers.
LEMMA SameKey ==
    ASSUME Q!KeysTellApart, NEW q \in Queries, NEW s \in Queries,
           Q!ArgumentsOk(q), Q!ArgumentsOk(s), Q!cache_key(q) = Q!cache_key(s)
    PROVE  q.window = s.window /\ T!Answers(q) = T!Answers(s)
<1>1. /\ q.window = s.window /\ q.level = s.level /\ q.estimator = s.estimator
      /\ q.level > LEVEL_GLOBAL => T!parent_key(q) = T!parent_key(s)
  BY SameSuppression DEF Q!KeysTellApart
<1>2. \A c : T!Cell(q, c) = T!Cell(s, c) /\ T!Children(q, c) = T!Children(s, c)
  BY <1>1 DEF T!Cell, T!Children
<1>3. q.level = LEVEL_GLOBAL \/ q.level > LEVEL_GLOBAL
  BY DEF Q!ArgumentsOk, Q!LEVEL_GLOBAL, Q!LEVEL_NAMESPACE, LEVEL_GLOBAL
<1> QED BY <1>1, <1>2, <1>3, SameSuppression DEF T!Answers

\* So do the handlers' own steps.
LEMMA QueryMatches ==
    ASSUME TypeInv, TypeInv', ExactInv, DocumentedConditions, Q!KeysTellApart, MatchInv,
           NobodyTooEarly', QueryStep
    PROVE  MatchInv'
<1>0. UNCHANGED vars /\ RequestsShaped
  BY DEF QueryStep, MatchInv
<1>1. ASSUME NEW c \in Clients, NEW q \in Queries, Q!GetStats(c, q)
      PROVE  MatchInv'
  <2>1. cache' = cache
    BY <1>1 DEF Q!GetStats
  <2>2. \/ Moves(c, "rejected", q, 0, Q!NoAnswer)
        \/ Moves(c, "checked", q, 0, Q!NoAnswer) /\ Q!ArgumentsOk(q) /\ Q!complete(q.window)
    BY <1>1 DEF Q!GetStats, Q!Finished, Moves, Handler
  <2>3. CASE Moves(c, "rejected", q, 0, Q!NoAnswer)
    BY <1>0, <2>1, <2>3, ServedHandler, MovedMatches
  <2>4. CASE Moves(c, "checked", q, 0, Q!NoAnswer) /\ Q!ArgumentsOk(q) /\ Q!complete(q.window)
    <3>1. request'[c].stage = "checked"
      BY <1>0, <2>4, Moved
    <3>2. DOMAIN partition_progress = Partitions
      BY <1>0, <3>1 DEF NobodyTooEarly, vars
    <3>3. Final(q.window)
      BY <2>4, <3>2, AskedAssumption, CompleteIsFinal
    <3> QED BY <1>0, <2>1, <2>4, <3>3, ServedHandler, MovedMatches
  <2> QED BY <2>2, <2>3, <2>4
<1>2. ASSUME NEW c \in Clients, Q!CacheHit(c)
      PROVE  MatchInv'
  <2>1. /\ cache' = cache /\ request[c].stage = "checked"
        /\ Q!cache_key(request[c].query) \in DOMAIN cache
    BY <1>2 DEF Q!CacheHit, Q!Running
  <2>2. Moves(c, "done", request[c].query, request[c].parent_users,
              cache[Q!cache_key(request[c].query)])
    BY <1>0, <1>2, Updates DEF Q!CacheHit
  <2>3. /\ request[c].query \in Queries /\ Q!ArgumentsOk(request[c].query)
        /\ Final(request[c].query.window)
        /\ cache[Q!cache_key(request[c].query)] \in T!Answers(request[c].query)
    BY <2>1, InProgress DEF MatchInv, CacheTrue, CachedIsTrue
  <2> QED BY <1>0, <2>1, <2>2, <2>3, ServedHandler, MovedMatches
<1>3. ASSUME NEW c \in Clients, Q!CacheMiss(c)
      PROVE  MatchInv'
  <2>1. cache' = cache /\ request[c].stage = "checked"
    BY <1>3 DEF Q!CacheMiss, Q!Running
  <2>2. Moves(c, "miss", request[c].query, request[c].parent_users, request[c].answer)
    BY <1>0, <1>3, Updates DEF Q!CacheMiss, Q!Step
  <2>3. /\ request[c].query \in Queries /\ Q!ArgumentsOk(request[c].query)
        /\ Final(request[c].query.window)
    BY <2>1, InProgress
  <2> QED BY <1>0, <2>1, <2>2, <2>3, ServedHandler, MovedMatches
<1>4. ASSUME NEW c \in Clients, Q!FetchGlobal(c)
      PROVE  MatchInv'
  <2>1. /\ cache' = cache /\ request[c].stage = "miss"
        /\ request[c].query.level = T!LEVEL_GLOBAL
    BY <1>4, SameSuppression DEF Q!FetchGlobal, Q!Running
  <2>2. PICK answer \in Q!apply_dp_noise(Q!GlobalAnswer(Q!Cell(request[c].query, Q!global))) :
            request' = [request EXCEPT ![c].stage = "computed", ![c].answer = answer]
    BY <1>4 DEF Q!FetchGlobal
  <2>3. Moves(c, "computed", request[c].query, request[c].parent_users, answer)
    BY <1>0, <2>2, Updates
  <2>4. /\ request[c].query \in Queries /\ Q!ArgumentsOk(request[c].query)
        /\ Final(request[c].query.window)
        /\ Q!Cell(request[c].query, Q!global) = T!Cell(request[c].query, T!global)
    BY <2>1, InProgress, SameSuppression
  <2>5. answer = T!GlobalAnswer(T!Cell(request[c].query, T!global))
    BY <2>2, <2>4, SameSuppression DEF Q!apply_dp_noise
  <2>6. answer \in T!Answers(request[c].query)
    BY <2>1, <2>5 DEF T!Answers
  <2> QED BY <1>0, <2>1, <2>3, <2>4, <2>6, ServedHandler, MovedMatches
<1>5. ASSUME NEW c \in Clients, Q!FetchParent(c)
      PROVE  MatchInv'
  <2>1. /\ cache' = cache /\ request[c].stage = "miss"
        /\ request[c].query.level # LEVEL_GLOBAL
    BY <1>5 DEF Q!FetchParent, Q!Running, Q!LEVEL_GLOBAL, LEVEL_GLOBAL
  <2>2. Moves(c, "parent", request[c].query,
              Q!users_or_zero(Q!Cell(request[c].query, Q!parent_key(request[c].query))),
              request[c].answer)
    BY <1>0, <1>5, Updates DEF Q!FetchParent
  <2>3. /\ request[c].query \in Queries /\ Q!ArgumentsOk(request[c].query)
        /\ Final(request[c].query.window)
        /\ Q!Cell(request[c].query, Q!parent_key(request[c].query))
             = T!Cell(request[c].query, T!parent_key(request[c].query))
    BY <2>1, InProgress, SameSuppression
  <2>4. Q!users_or_zero(Q!Cell(request[c].query, Q!parent_key(request[c].query)))
          = T!users_or_zero(T!Cell(request[c].query, T!parent_key(request[c].query)))
    BY <2>3, SameSums
  <2> QED BY <1>0, <2>1, <2>2, <2>3, <2>4, ServedHandler, MovedMatches
<1>6. ASSUME NEW c \in Clients, Q!FetchChildren(c)
      PROVE  MatchInv'
  <2>1. cache' = cache /\ request[c].stage = "parent"
    BY <1>6 DEF Q!FetchChildren, Q!Running
  <2>2. PICK children, answer :
            /\ children \in Q!Children(request[c].query, Q!parent_key(request[c].query))
            /\ answer \in Q!apply_dp_noise(Q!suppress(request[c].parent_users, children, K))
            /\ request' = [request EXCEPT ![c].stage = "computed", ![c].answer = answer]
    BY <1>6 DEF Q!FetchChildren
  <2>3. Moves(c, "computed", request[c].query, request[c].parent_users, answer)
    BY <1>0, <2>2, Updates
  <2>4. /\ request[c].query \in Queries /\ Q!ArgumentsOk(request[c].query)
        /\ Final(request[c].query.window)
        /\ children \in T!Children(request[c].query, T!parent_key(request[c].query))
    BY <2>1, <2>2, InProgress, SameSuppression
  <2>5. /\ request[c].query.level # T!LEVEL_GLOBAL
        /\ request[c].parent_users
             = T!users_or_zero(T!Cell(request[c].query, T!parent_key(request[c].query)))
    BY <2>1, SameSuppression DEF MatchInv, Served
  <2>6. answer = T!suppress(request[c].parent_users, children, K)
    BY <2>2, SameSuppression DEF Q!apply_dp_noise
  <2>7. answer \in T!Answers(request[c].query)
    BY <2>4, <2>5, <2>6 DEF T!Answers
  <2> QED BY <1>0, <2>1, <2>3, <2>4, <2>7, ServedHandler, MovedMatches
<1>7. ASSUME NEW c \in Clients, Q!Respond(c)
      PROVE  MatchInv'
  <2>1. /\ request[c].stage = "computed"
        /\ cache' = [key \in DOMAIN cache \cup {Q!cache_key(request[c].query)} |->
                        IF key = Q!cache_key(request[c].query)
                        THEN request[c].answer ELSE cache[key]]
    BY <1>7 DEF Q!Respond, Q!Running
  <2>2. Moves(c, "done", request[c].query, request[c].parent_users, request[c].answer)
    BY <1>0, <1>7, Updates DEF Q!Respond, Q!Step
  <2>3. /\ request[c].query \in Queries /\ Q!ArgumentsOk(request[c].query)
        /\ Final(request[c].query.window)
        /\ request[c].answer \in T!Answers(request[c].query)
    BY <2>1 DEF MatchInv, Served
  <2>4. /\ \A d \in Clients \ {c} : request'[d] = request[d]
        /\ RequestsShaped'
        /\ request'[c] = Handler("done", request[c].query, request[c].parent_users, request[c].answer)
    BY <1>0, <2>2, Moved DEF RequestsShaped, Moves
  <2>5. ASSUME NEW d \in Clients PROVE Served(request[d])'
    <3>1. PICK r : r = request'[d]
      OBVIOUS
    <3>2. Served(r)
      BY <2>3, <2>4, <3>1, ServedHandler DEF MatchInv
    <3>3. Served(r)'
      BY <1>0, <3>2, ServedStays
    <3> QED BY <3>1, <3>3 DEF Served
  <2>6. agg_cells' = agg_cells /\ TruthTable' = TruthTable
    BY <1>0 DEF vars, TruthTable, TruthRow, TruthIds, TruthUsers, TruthOffsets
  <2>7. RowsLogged'
    BY <2>6 DEF MatchInv, RowsLogged
  <2>8. PICK q : q = request[c].query
    OBVIOUS
  <2>9. /\ q \in Queries /\ Q!ArgumentsOk(q)
        /\ Final(q.window)' /\ request[c].answer \in T!Answers(q)'
    <3>1. SameRows(TruthTable', TruthTable, q.window)
      BY <2>6 DEF SameRows
    <3>2. T!Answers(q)' = T!Answers(q)
      BY <3>1, TruthStays
    <3>3. Final(q.window)'
      BY <1>0, <2>3, <2>8, AskedAssumption, FinalStays
    <3> QED BY <2>3, <2>8, <3>2, <3>3
  <2>10. CacheTrue'
    <3> SUFFICES ASSUME NEW s \in Queries, Q!ArgumentsOk(s), Q!cache_key(s) \in DOMAIN cache'
                 PROVE  Final(s.window)' /\ cache'[Q!cache_key(s)] \in T!Answers(s)'
      BY DEF CacheTrue, CachedIsTrue
    <3>1. CASE Q!cache_key(s) = Q!cache_key(q)
      <4>1. s.window = q.window /\ T!Answers(s) = T!Answers(q)
        BY <2>9, <3>1, SameKey
      <4>2. T!Answers(s)' = T!Answers(s) /\ T!Answers(q)' = T!Answers(q)
        <5>1. SameRows(TruthTable', TruthTable, s.window) /\ SameRows(TruthTable', TruthTable, q.window)
          BY <2>6 DEF SameRows
        <5> QED BY <5>1, TruthStays
      <4>3. cache'[Q!cache_key(s)] = request[c].answer
        BY <2>1, <2>8, <3>1
      <4>4. Final(s.window)'
        BY <2>9, <4>1
      <4> QED BY <2>9, <4>1, <4>2, <4>3, <4>4
    <3>2. CASE Q!cache_key(s) # Q!cache_key(q)
      <4>1. Q!cache_key(s) \in DOMAIN cache /\ cache'[Q!cache_key(s)] = cache[Q!cache_key(s)]
        BY <2>1, <2>8, <3>2
      <4> QED BY <1>0, <4>1, CacheStays DEF MatchInv
    <3> QED BY <3>1, <3>2
  <2> QED BY <2>4, <2>5, <2>7, <2>10 DEF MatchInv
<1> QED BY <1>1, <1>2, <1>3, <1>4, <1>5, <1>6, <1>7 DEF QueryStep

-----------------------------------------------------------------------------
LEMMA InitMatchInv == PipelineInit => MatchInv
<1> SUFFICES ASSUME PipelineInit PROVE MatchInv
  OBVIOUS
<1>1. PICK q : request = [c \in Clients |-> Handler("idle", q, 0, Q!NoAnswer)]
  BY DEF PipelineInit, Q!Finished, Handler
<1>2. PICK h : h = Handler("idle", q, 0, Q!NoAnswer)
  OBVIOUS
<1>3. h = Handler(h.stage, h.query, h.parent_users, h.answer) /\ h.stage = "idle"
  BY <1>2 DEF Handler
<1>4. RequestsShaped /\ \A c \in Clients : request[c] = h
  BY <1>1, <1>2, <1>3 DEF RequestsShaped
<1>5. \A c \in Clients : Served(request[c])
  BY <1>3, <1>4 DEF Served
<1>6. CacheTrue
  BY DEF PipelineInit, CacheTrue, CachedIsTrue
<1> QED BY <1>4, <1>5, <1>6 DEF PipelineInit, Init, MatchInv, RowsLogged

\* The aggregator's invariants hold of its steps here as well.
LEMMA PipelineExact ==
    ASSUME DocumentedConditions
    PROVE  PipelineSpec => []TypeInv /\ []ExactInv
<1>1. PipelineInit => Init
  BY DEF PipelineInit
<1>2. [PipelineNext]_<<vars, queryVars>> => [Next]_vars
  BY DEF PipelineNext, AggregatorStep, QueryStep
<1>3. PipelineSpec => []TypeInv
  BY <1>1, <1>2, InitTypeInv, NextTypeInv, PTL DEF PipelineSpec
<1>4. PipelineSpec => []ResumeInv
  BY <1>1, <1>2, <1>3, InitResumeInv, NextResumeInv, PTL DEF PipelineSpec
<1>5. PipelineSpec => []ExactInv
  BY <1>1, <1>2, <1>3, <1>4, InitExactInv, NextExactInv, PTL DEF PipelineSpec
<1> QED BY <1>3, <1>5

\* MatchInv is inductive relative to them, as long as nobody is too early.
LEMMA NextMatchInv ==
    ASSUME DocumentedConditions, Q!KeysTellApart
    PROVE  /\ TypeInv /\ TypeInv' /\ ExactInv /\ MatchInv /\ NobodyTooEarly'
           /\ [PipelineNext]_<<vars, queryVars>>
           => MatchInv'
<1>1. [PipelineNext]_<<vars, queryVars>> => QueryStep \/ ([Next]_vars /\ UNCHANGED queryVars)
  BY DEF PipelineNext, AggregatorStep
<1> QED BY <1>1, QueryMatches, AggregatorMatches

LEMMA MatchingAnswers == MatchInv => AnswersMatchLog
  BY DEF MatchInv, Served, CacheTrue, CachedIsTrue, AnswersMatchLog, Q!Released

\* Under the documented conditions, with cache keys that tell requests apart (no name has
\* a colon), and when nobody asks before every partition has progress, every answer of
\* the query API, cached or on its way, is for ever the one that the whole topic gives:
\* what is complete by the progress table is complete by the topic, through crashes,
\* zombies, rebalances and replays (get_stats, handlers.rs:76).
THEOREM AnswersAreTrue ==
    ASSUME DocumentedConditions, Q!KeysTellApart
    PROVE  PipelineSpec /\ []NobodyTooEarly => []AnswersMatchLog
BY PipelineExact, InitMatchInv, NextMatchInv, MatchingAnswers, PTL DEF PipelineSpec

\* With a single partition nobody can be too early: what is complete has a row.
LEMMA OnePartitionInTime ==
    ASSUME NEW p, Partitions = {p}, TypeInv, TypeInv', MatchInv, NobodyTooEarly,
           [PipelineNext]_<<vars, queryVars>>
    PROVE  NobodyTooEarly'
<1> SUFFICES ASSUME NEW c \in Clients, request'[c].stage = "checked"
             PROVE  DOMAIN partition_progress' = Partitions
  BY DEF NobodyTooEarly
<1>1. DOMAIN partition_progress' \subseteq Partitions
  BY DEF TypeInv, TypeOK, DbTypeOK, IsPartitionMap
<1>2. DOMAIN partition_progress \subseteq DOMAIN partition_progress'
  <2>1. [Next]_vars
    BY DEF PipelineNext, AggregatorStep, QueryStep
  <2> QED BY <2>1, LogOrTable, ProducersExtendLog DEF TypeInv, TypeOK
<1>3. CASE request[c].stage = "checked"
  BY <1>1, <1>2, <1>3 DEF NobodyTooEarly
<1>4. CASE request[c].stage # "checked"
  <2>1. QueryStep
    BY <1>4 DEF PipelineNext, AggregatorStep, queryVars
  <2>2. RequestsShaped
    BY DEF MatchInv
  <2>3. ASSUME NEW d \in Clients, NEW stage, NEW query, NEW users, NEW answer,
               Moves(d, stage, query, users, answer), stage # "checked"
        PROVE  FALSE
    BY <1>4, <2>2, <2>3, Moved
  <2>4. PICK d \in Clients :
            \/ \E q \in Queries : Q!GetStats(d, q)
            \/ Q!CacheHit(d) \/ Q!CacheMiss(d)
            \/ Q!FetchGlobal(d) \/ Q!FetchParent(d) \/ Q!FetchChildren(d)
            \/ Q!Respond(d)
    BY <2>1 DEF QueryStep
  <2>5. ~ (Q!CacheMiss(d) \/ Q!Respond(d))
    BY <2>2, <2>3, Updates DEF Q!CacheMiss, Q!Respond, Q!Step
  <2>6. ~ (Q!CacheHit(d) \/ Q!FetchGlobal(d))
    BY <2>2, <2>3, Updates DEF Q!CacheHit, Q!FetchGlobal
  <2>7. ~ (Q!FetchParent(d) \/ Q!FetchChildren(d))
    BY <2>2, <2>3, Updates DEF Q!FetchParent, Q!FetchChildren
  <2>8. PICK q \in Queries : Q!GetStats(d, q)
    BY <2>4, <2>5, <2>6, <2>7
  <2>9. Q!complete(q.window)
    BY <2>3, <2>8 DEF Q!GetStats, Q!Finished, Moves, Handler
  <2>10. DOMAIN partition_progress # {}
    BY <2>9 DEF Q!complete, watermarks
  <2> QED BY <1>1, <1>2, <2>10
<1> QED BY <1>3, <1>4

\* With one partition the same holds whenever requests come, before the first flush too.
THEOREM OnePartitionAnswersAreTrue ==
    ASSUME DocumentedConditions, Q!KeysTellApart, NEW p, Partitions = {p}
    PROVE  PipelineSpec => []AnswersMatchLog
<1>1. PipelineInit => NobodyTooEarly
  BY DEF PipelineInit, NobodyTooEarly, Q!Finished
<1>2. /\ TypeInv /\ TypeInv' /\ MatchInv /\ NobodyTooEarly /\ [PipelineNext]_<<vars, queryVars>>
      => NobodyTooEarly'
  BY OnePartitionInTime
<1>3. /\ TypeInv /\ TypeInv' /\ ExactInv /\ MatchInv /\ NobodyTooEarly
      /\ [PipelineNext]_<<vars, queryVars>>
      => MatchInv' /\ NobodyTooEarly'
  BY <1>2, NextMatchInv
<1> QED BY <1>1, <1>3, PipelineExact, InitMatchInv, MatchingAnswers, PTL DEF PipelineSpec

=============================================================================
