--------------------- MODULE AggregatorRefinementProofs ---------------------
(***************************************************************************)
(* The aggregator implements ExactlyOnce under the documented conditions   *)
(* (Refinement).  The topic and the table map to themselves, so a step of  *)
(* the instances is a stutter unless it commits; a commit publishes those  *)
(* windows of its batch that nobody has published before, because what it  *)
(* writes over published rows is what they hold already (ExactInv).        *)
(***************************************************************************)
EXTENDS AggregatorRefinement, AggregatorExactProofs

USE DEF kafkaVars, instanceVars, dbVars

\* Both specifications cut time and cells, and count, in the same way.
LEMMA SameVocabulary ==
    /\ \A ts : EO!window_start(ts) = window_start(ts)
    /\ \A event : EO!cells_for_event(event) = cells_for_event(event)
    /\ \A S : EO!Cardinality(S) = Cardinality(S)
<1>1. \A ts : EO!window_start(ts) = window_start(ts)
  BY DEF EO!window_start, window_start
<1>2. \A event : EO!cells_for_event(event) = cells_for_event(event)
  BY DEF EO!cells_for_event, cells_for_event, EO!global, global, EO!CellKey, CellKey,
         EO!LEVEL_GLOBAL, LEVEL_GLOBAL, EO!LEVEL_FAMILY, LEVEL_FAMILY, EO!LEVEL_WIKI, LEVEL_WIKI,
         EO!LEVEL_NAMESPACE, LEVEL_NAMESPACE, EO!ROLLUP_STR, ROLLUP_STR,
         EO!ROLLUP_NAMESPACE, ROLLUP_NAMESPACE
<1>3. \A S : EO!Cardinality(S) = Cardinality(S)
  BY DEF EO!Cardinality, Cardinality
<1> QED BY <1>1, <1>2, <1>3

\* The offsets of window w that count in cell c.
Counted(messages, w, c) ==
    {o \in 1..Len(messages) : /\ messages[o] # Undecodable
                              /\ window_start(messages[o].ts) = w
                              /\ c \in cells_for_event(messages[o])}

\* The abstract view of a sequence of messages.
LEMMA AbstractRow ==
    ASSUME NEW messages \in MessageSeq, NEW w
    PROVE  /\ EO!Events(messages, w) = {o \in 1..Len(messages) :
                                           /\ messages[o] # Undecodable
                                           /\ window_start(messages[o].ts) = w}
           /\ \A c : EO!Row(messages, w, c) =
                 [events |-> Cardinality({messages[o].event_id : o \in Counted(messages, w, c)}),
                  users  |-> Cardinality({messages[o].user : o \in Counted(messages, w, c)})]
<1>1. DOMAIN messages = 1..Len(messages)
  BY DEF MessageSeq
<1>2. EO!Events(messages, w) = {o \in 1..Len(messages) :
                                   /\ messages[o] # Undecodable
                                   /\ window_start(messages[o].ts) = w}
  BY <1>1, SameVocabulary DEF EO!Events
<1>3. ASSUME NEW c
      PROVE  {o \in EO!Events(messages, w) : c \in EO!cells_for_event(messages[o])}
               = Counted(messages, w, c)
  BY <1>2, SameVocabulary DEF Counted
<1>4. ASSUME NEW c
      PROVE  EO!Row(messages, w, c) =
                 [events |-> Cardinality({messages[o].event_id : o \in Counted(messages, w, c)}),
                  users  |-> Cardinality({messages[o].user : o \in Counted(messages, w, c)})]
  BY <1>3, SameVocabulary DEF EO!Row
<1> QED BY <1>2, <1>4

\* The abstract rows are the reference result, before and after a step.
LEMMA AbstractTruth ==
    ASSUME NEW p \in Partitions, NEW w, NEW c
    PROVE  /\ KafkaTypeOK => EO!Row(log[p], w, c) = TruthRow(w, c, p)
           /\ KafkaTypeOK' => EO!Row(log'[p], w, c) = TruthRow(w, c, p)'
<1>1. KafkaTypeOK => log[p] \in MessageSeq
  BY DEF KafkaTypeOK, MessageSeq
<1>2. KafkaTypeOK' => log'[p] \in MessageSeq
  BY DEF KafkaTypeOK, MessageSeq
<1>3. /\ TruthOffsets(w, c, p) = Counted(log[p], w, c)
      /\ TruthOffsets(w, c, p)' = Counted(log'[p], w, c)
  BY DEF TruthOffsets, Counted
<1> QED BY <1>1, <1>2, <1>3, AbstractRow DEF TruthRow, TruthIds, TruthUsers

\* Nothing is published initially.
LEMMA InitRefines == Init => EO!Init
BY DEF Init, EO!Init

\* A message that producers append arrives: it changes no published row.
LEMMA AppendArrives ==
    ASSUME TypeInv, TypeInv', ExactInv', DocumentedConditions, NEW p \in Partitions,
           Produce(p) \/ ProduceDuplicate(p) \/ ProduceUndecodable(p)
    PROVE  EO!Next
<1> USE DEF TypeInv, TypeOK
<1>1. PICK message \in EventType \cup {Undecodable} : AppendMessage(p, message)
  BY ProducersFollow
<1>2. /\ log \in [Partitions -> Seq(EventType \cup {Undecodable})]
      /\ log' = [log EXCEPT ![p] = Append(log[p], message)]
      /\ agg_cells' = agg_cells
  BY <1>1 DEF AppendMessage, KafkaTypeOK
<1>3. /\ Len(log'[p]) = Len(log[p]) + 1
      /\ log'[p][Len(log'[p])] = message
  BY <1>2
<1>4. ASSUME NEW key \in DOMAIN agg_cells, key[3] = p
      PROVE  agg_cells[key] = EO!Row(log'[p], key[1], key[2])
  <2>1. agg_cells[key] = TruthRow(key[1], key[2], p)'
    BY <1>2, <1>4 DEF ExactInv, RowsExact
  <2> QED BY <2>1, AbstractTruth
<1>5. EO!Arrive(p)
  BY <1>2, <1>3, <1>4 DEF EO!Arrive
<1> QED BY <1>5 DEF EO!Next

\* A commit publishes the windows of its batch that the table does not have yet.
LEMMA CommitPublishes ==
    ASSUME TypeInv, ExactInv, NEW i \in Instances, NEW p \in Partitions, FlushCommit(i, p)
    PROVE  EO!Next
<1> USE DEF TypeInv, TypeOK
<1> DEFINE closed == inflight[i][p].closed
           rows == CellRows(p, closed)
           W == (DOMAIN closed \cap EO!WindowsOf(p)) \ EO!Published(p)
           cells(w) == UNION {EO!cells_for_event(log[p][o]) : o \in EO!Events(log[p], w)}
           new == UNION {{<<w, c, p>> : c \in cells(w)} : w \in W}
<1>1. /\ log' = log /\ log[p] \in MessageSeq /\ DOMAIN log[p] = 1..Len(log[p])
      /\ agg_cells' = Override(agg_cells, rows)
      /\ BatchExact(inflight[i][p], p)
  BY DEF FlushCommit, flush_windows, KafkaTypeOK, MessageSeq, ExactInv, BatchesExact
<1>2. /\ \A key \in DOMAIN rows :
            /\ key = <<key[1], key[2], p>>
            /\ key[1] \in DOMAIN closed
            /\ rows[key] = TruthRow(key[1], key[2], p)
      /\ \A w \in DOMAIN closed :
            \A e \in EventsOf(log[p], w, Len(log[p])) : \A c \in cells_for_event(e) :
                <<w, c, p>> \in DOMAIN rows
  BY <1>1, BatchRows DEF BatchExact
<1>3. \A w \in DOMAIN closed : DOMAIN closed[w].cells
                                 = UNION {cells_for_event(e) : e \in EventsOf(log[p], w, Len(log[p]))}
  BY <1>1 DEF BatchExact, Holds
<1>4. \A w : cells(w) = UNION {cells_for_event(e) : e \in EventsOf(log[p], w, Len(log[p]))}
  BY <1>1, AbstractRow, SameVocabulary DEF EventsOf
<1>5. EO!WindowsOf(p) = {w \in EO!WindowsOf(p) : EventsOf(log[p], w, Len(log[p])) # {}}
      /\ \A w : EventsOf(log[p], w, Len(log[p])) # {} => w \in EO!WindowsOf(p)
  BY <1>1, SameVocabulary DEF EO!WindowsOf, EventsOf
<1>6. ASSUME NEW key \in new PROVE key \in DOMAIN rows
  <2> HIDE DEF cells, W
  <2>1. PICK w \in W : \E c \in cells(w) : key = <<w, c, p>>
    OBVIOUS
  <2>2. PICK c \in cells(w) : key = <<w, c, p>>
    BY <2>1
  <2>3. w \in DOMAIN closed
    BY DEF W
  <2> QED BY <1>2, <1>4, <2>2, <2>3
<1>7. ASSUME NEW key \in DOMAIN rows, key \notin new
      PROVE  key \in DOMAIN agg_cells /\ agg_cells[key] = rows[key]
  <2> DEFINE w == key[1]
             c == key[2]
  <2>1. key = <<w, c, p>> /\ w \in DOMAIN closed
    BY <1>2
  <2>2. c \in DOMAIN closed[w].cells
    BY <2>1 DEF CellRows
  <2>3. c \in cells(w)
    BY <1>3, <1>4, <2>1, <2>2
  <2> HIDE DEF w, c, cells
  <2>4. w \in EO!WindowsOf(p)
    BY <1>4, <1>5, <2>3
  <2>5. w \in EO!Published(p)
    BY <1>7, <2>1, <2>3, <2>4
  <2>6. PICK k \in DOMAIN agg_cells : k[3] = p /\ k[1] = w
    BY <2>5 DEF EO!Published
  <2>7. Published(p, w)
    BY <2>6 DEF ExactInv, RowsExact
  <2>8. key \in DOMAIN agg_cells
    BY <1>4, <2>1, <2>3, <2>7 DEF Published
  <2>9. agg_cells[key] = TruthRow(w, c, p)
    BY <2>1, <2>8 DEF ExactInv, RowsExact, w, c
  <2> QED BY <1>2, <2>8, <2>9 DEF w, c
<1>8. \A key \in DOMAIN rows : rows[key] = EO!Row(log[p], key[1], key[2])
  BY <1>2, AbstractTruth
<1>9. agg_cells' = [key \in DOMAIN agg_cells \cup new |->
                       IF key \in new THEN EO!Row(log[p], key[1], key[2]) ELSE agg_cells[key]]
  <2> HIDE DEF rows, new
  <2>1. DOMAIN agg_cells \cup DOMAIN rows = DOMAIN agg_cells \cup new
    BY <1>6, <1>7
  <2> QED BY <1>1, <1>6, <1>7, <1>8, <2>1 DEF Override
<1>10. W \in SUBSET (EO!WindowsOf(p) \ EO!Published(p))
  OBVIOUS
<1>11. EO!Publish(p)
  <2> HIDE DEF W
  <2> QED BY <1>1, <1>9, <1>10 DEF EO!Publish
<1> QED BY <1>11 DEF EO!Next

\* Every step is a step of ExactlyOnce or leaves the topic and the table alone.
LEMMA NextRefines ==
    ASSUME DocumentedConditions
    PROVE  TypeInv /\ TypeInv' /\ ExactInv /\ ExactInv' /\ [Next]_vars => [EO!Next]_EO!vars
<1> SUFFICES ASSUME TypeInv, TypeInv', ExactInv, ExactInv', [Next]_vars
             PROVE  EO!Next \/ UNCHANGED <<log, agg_cells>>
  BY DEF EO!vars
<1>1. CASE \E p \in Partitions : Produce(p) \/ ProduceDuplicate(p) \/ ProduceUndecodable(p)
  BY <1>1, AppendArrives
<1>2. CASE \E i \in Instances, p \in Partitions : FlushCommit(i, p)
  BY <1>2, CommitPublishes
<1>3. CASE Tick \/ UNCHANGED vars
  BY <1>3 DEF Tick, vars
<1>4. CASE \E i \in Instances : SessionTimeout(i) \/ Crash(i) \/ TakeBatches(i)
  BY <1>4 DEF SessionTimeout, Crash, TakeBatches
<1>5. CASE \E i \in Instances, p \in Partitions :
              \/ AssignLoaded(i, p) \/ AssignLoadError(i, p)
              \/ InstallState(i, p) \/ InstallStateSeekFailed(i, p) \/ Revoke(i, p)
  BY <1>5 DEF AssignLoaded, AssignLoadError, Assign, InstallState, InstallStateSeekFailed,
              Install, Revoke
<1>6. CASE \E i \in Instances, p \in Partitions :
              \/ ProcessMessage(i, p) \/ SkipUndecodable(i, p)
              \/ IdleTick(i, p) \/ FlushError(i, p)
  BY <1>6 DEF ProcessMessage, SkipUndecodable, IdleTick, FlushError
<1> QED BY <1>1, <1>2, <1>3, <1>4, <1>5, <1>6 DEF Next

\* Under the documented conditions a reader of the topic and the table sees windows
\* published whole, once, with the counts of the log, and never touched again: for every
\* number of instances and every interleaving of crashes, rebalances, redeliveries and
\* second owners (flush_windows, aggregator/src/db.rs:37).
THEOREM Refinement == ASSUME DocumentedConditions PROVE Spec => ImplementsExactlyOnce
<1>1. Spec => []TypeInv
  BY InitTypeInv, NextTypeInv, PTL DEF Spec
<1>2. Spec => []ResumeInv
  BY <1>1, InitResumeInv, NextResumeInv, PTL DEF Spec
<1>3. Spec => []ExactInv
  BY <1>1, <1>2, InitExactInv, NextExactInv, PTL DEF Spec
<1> QED
  BY <1>1, <1>3, InitRefines, NextRefines, PTL DEF Spec, ImplementsExactlyOnce, EO!Spec

=============================================================================
