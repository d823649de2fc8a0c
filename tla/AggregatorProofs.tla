-------------------------- MODULE AggregatorProofs --------------------------
(***************************************************************************)
(* Proofs about the aggregator, for every number of instances, partitions, *)
(* users and faults, and every window size and lateness:                   *)
(*                                                                         *)
(*   TypeCorrect        every state is well typed;                         *)
(*   FallbackNeverUsed  no message is handled without an installed state;  *)
(*   ResumeIsSafe       a progress row never skips an event that is still  *)
(*                      needed;                                            *)
(*   NeverOverCounts    no row counts an event or a user twice;            *)
(*   ProgressNeverGoesBack, FlushedRowsStay                                *)
(*                      with one owner at a time, progress never goes back *)
(*                      and the rows of a flushed window never change.     *)
(*                                                                         *)
(* The first two rest on the inductive invariant TypeInv; the others on    *)
(* ResumeInv, CountInv and OwnerInv, which are inductive relative to it.   *)
(***************************************************************************)
EXTENDS Aggregator, TLAPS, FiniteSetTheorems, WellFoundedInduction

\* Insertion into a map.
LEMMA PutFacts ==
    ASSUME NEW m, NEW k, NEW v
    PROVE  /\ DOMAIN Put(m, k, v) = DOMAIN m \cup {k}
           /\ Put(m, k, v)[k] = v
           /\ \A x \in DOMAIN m : x # k => Put(m, k, v)[x] = m[x]
BY DEF Put

\* Removal from a map.
LEMMA DropFacts ==
    ASSUME NEW m, NEW k
    PROVE  /\ DOMAIN Drop(m, k) = DOMAIN m \ {k}
           /\ \A x \in DOMAIN m : x # k => Drop(m, k)[x] = m[x]
BY DEF Drop, Restrict

\* A window starts, and ends, at an instant.
LEMMA WindowInstants ==
    ASSUME NEW ts \in Int
    PROVE  window_start(ts) \in Int /\ window_end(window_start(ts)) \in Int
<1>1. ts % WINDOW_SIZE \in Int
  BY WindowSizeAssumption
<1> QED BY <1>1, WindowSizeAssumption DEF window_start, window_end

\* A non-empty set of offsets has a smallest element, which Min returns.
LEMMA MinOffset ==
    ASSUME NEW S, S \subseteq Nat, S # {}
    PROVE  Min(S) \in S /\ \A x \in S : Min(S) <= x
<1>1. PICK m \in S : \A y \in S : ~ (<<y, m>> \in OpToRel(<, Nat))
  BY NatLessThanWellFounded, WFMin, Zenon
<1>2. \A y \in S : ~ (y < m)
  BY <1>1 DEF OpToRel
<1>3. \A y \in S : m <= y
  BY <1>2
<1> QED BY <1>3 DEF Min

-----------------------------------------------------------------------------
(***************************************************************************)
(* Lemmas about the operations of PartitionState.                          *)
(***************************************************************************)
\* Counting an event keeps the cells of a window well-formed.
LEMMA FoldCellsType ==
    ASSUME NEW cells, NEW event \in EventType,
           \A c \in DOMAIN cells : IsCellAgg(cells[c])
    PROVE  \A c \in DOMAIN FoldCells(cells, event) : IsCellAgg(FoldCells(cells, event)[c])
BY DEF FoldCells, EmptyCell, IsCellAgg, EventType

\* Folding an event into the window found or created for it gives a window whose
\* min_offset is at most the event's offset and does not grow.
LEMMA FoldWindowFacts ==
    ASSUME NEW windows, AreWindows(windows), NEW start, NEW offset \in Nat,
           NEW event \in EventType
    PROVE  LET window == WindowFor(windows, start, offset)
               folded == FoldWindow(window, event, offset)
           IN  /\ IsWindow(folded)
               /\ folded.min_offset <= offset
               /\ start \in DOMAIN windows => folded.min_offset <= windows[start].min_offset
<1> DEFINE window == WindowFor(windows, start, offset)
<1>1. /\ window.min_offset \in Nat
      /\ window.seen_ids \subseteq Nat
      /\ \A c \in DOMAIN window.cells : IsCellAgg(window.cells[c])
      /\ start \in DOMAIN windows => window = windows[start]
  BY DEF WindowFor, NewWindow, AreWindows, IsWindow
<1> HIDE DEF window
<1>2. \A c \in DOMAIN FoldCells(window.cells, event) :
          IsCellAgg(FoldCells(window.cells, event)[c])
  BY <1>1, FoldCellsType
<1>3. event.event_id \in Nat
  BY DEF EventType
<1> QED BY <1>1, <1>2, <1>3 DEF FoldWindow, IsWindow, window

\* Processing an event keeps the state well-formed.
LEMMA ProcessEventType ==
    ASSUME NEW s, IsPartitionState(s), NEW event \in EventType, NEW offset \in Nat
    PROVE  IsPartitionState(process_event(s, event, offset))
<1> DEFINE start == window_start(event.ts)
           folded == FoldWindow(WindowFor(s.open_windows, start, offset), event, offset)
<1>1. event.ts \in Int /\ start \in Int
  BY WindowInstants DEF EventType
<1>2. AreWindows(s.open_windows)
  BY DEF IsPartitionState
<1>3. IsWindow(folded)
  BY <1>2, FoldWindowFacts
<1> HIDE DEF folded, start
<1>4. AreWindows(Put(s.open_windows, start, folded))
  BY <1>1, <1>2, <1>3 DEF AreWindows, Put
<1> QED BY <1>1, <1>2, <1>4 DEF process_event, IsPartitionState, start, folded

\* An idle tick keeps the state well-formed and touches max_event_ts only.
LEMMA TickIdleFacts ==
    ASSUME NEW s, IsPartitionState(s), NEW now_utc \in Int
    PROVE  LET t == tick_idle(s, now_utc)
           IN  /\ IsPartitionState(t)
               /\ t.open_windows = s.open_windows
               /\ t.flushed_watermark = s.flushed_watermark
               /\ t.next_offset = s.next_offset
BY DEF tick_idle, IsPartitionState

\* What take_closed_windows leaves open, and that it only removes windows that
\* the new watermark covers.
LEMMA TakeFacts ==
    ASSUME NEW s, IsPartitionState(s)
    PROVE  LET t == take_closed_windows(s)
           IN  /\ IsPartitionState(t)
               /\ AreWindows(closed_windows(s))
               /\ t.next_offset = s.next_offset
               /\ t.flushed_watermark >= s.flushed_watermark
               /\ DOMAIN t.open_windows \subseteq DOMAIN s.open_windows
               /\ \A w \in DOMAIN t.open_windows : t.open_windows[w] = s.open_windows[w]
               /\ \A w \in DOMAIN s.open_windows :
                     w \notin DOMAIN t.open_windows => window_end(w) <= t.flushed_watermark
<1> DEFINE t == take_closed_windows(s)
<1>1. watermark(s) \in Int
  BY LatenessAssumption DEF watermark, IsPartitionState
<1>2. \A w \in DOMAIN s.open_windows : window_end(w) \in Int
  BY WindowSizeAssumption DEF window_end, IsPartitionState, AreWindows
<1>3. /\ DOMAIN t = DOMAIN s
      /\ t.open_windows = Restrict(s.open_windows,
                                   {w \in DOMAIN s.open_windows : ~ IsClosed(s, w)})
      /\ t.flushed_watermark = IF watermark(s) > s.flushed_watermark
                               THEN watermark(s) ELSE s.flushed_watermark
      /\ t.max_event_ts = s.max_event_ts
      /\ t.next_offset = s.next_offset
  BY DEF take_closed_windows, IsPartitionState
<1> HIDE DEF t
<1>4. /\ DOMAIN t.open_windows = {w \in DOMAIN s.open_windows : ~ IsClosed(s, w)}
      /\ \A w \in DOMAIN t.open_windows : t.open_windows[w] = s.open_windows[w]
  BY <1>3 DEF Restrict
<1>5. t.flushed_watermark \in Int /\ t.flushed_watermark >= s.flushed_watermark
      /\ t.flushed_watermark >= watermark(s)
  BY <1>1, <1>3 DEF IsPartitionState
<1>6. IsPartitionState(t)
  BY <1>3, <1>4, <1>5 DEF IsPartitionState, AreWindows
<1>7. AreWindows(closed_windows(s))
  BY DEF closed_windows, Restrict, IsPartitionState, AreWindows
<1>8. \A w \in DOMAIN s.open_windows :
          w \notin DOMAIN t.open_windows => window_end(w) <= t.flushed_watermark
  BY <1>1, <1>2, <1>4, <1>5 DEF IsClosed
<1> QED BY <1>3, <1>4, <1>5, <1>6, <1>7, <1>8 DEF t

\* committed_offset is next_offset, or the lowest offset of an open window.
LEMMA CommittedOffsetFacts ==
    ASSUME NEW s, IsPartitionState(s)
    PROVE  /\ committed_offset(s) \in Nat
           /\ DOMAIN s.open_windows = {} => committed_offset(s) = s.next_offset
           /\ \A w \in DOMAIN s.open_windows :
                 committed_offset(s) <= s.open_windows[w].min_offset
<1> DEFINE offsets == {s.open_windows[w].min_offset : w \in DOMAIN s.open_windows}
<1>1. offsets \subseteq Nat
  BY DEF IsPartitionState, AreWindows, IsWindow
<1>2. CASE DOMAIN s.open_windows = {}
  BY <1>2 DEF committed_offset, IsPartitionState
<1>3. CASE DOMAIN s.open_windows # {}
  <2>1. offsets # {}
    BY <1>3
  <2>2. Min(offsets) \in offsets /\ \A x \in offsets : Min(offsets) <= x
    <3> HIDE DEF offsets
    <3> QED BY <1>1, <2>1, MinOffset
  <2>3. committed_offset(s) = Min(offsets)
    BY <1>3 DEF committed_offset
  <2> QED BY <1>1, <1>3, <2>2, <2>3
<1> QED BY <1>2, <1>3

-----------------------------------------------------------------------------
(***************************************************************************)
(* Type correctness.                                                       *)
(***************************************************************************)
USE DEF kafkaVars, instanceVars, dbVars

\* Initially every map is empty.
LEMMA InitTypeInv == Init => TypeInv
<1> SUFFICES ASSUME Init PROVE TypeInv
  OBVIOUS
<1> USE BoundAssumption DEF Init
<1>1. KafkaTypeOK
  BY DEF KafkaTypeOK, IsPartitionMap
<1>2. InstanceTypeOK
  BY DEF InstanceTypeOK, IsPartitionMap
<1>3. DbTypeOK
  BY DEF DbTypeOK, IsPartitionMap
<1>4. DomainsOK
  BY DEF DomainsOK
<1> QED BY <1>1, <1>2, <1>3, <1>4 DEF TypeInv, TypeOK

\* The messages of a log.
LEMMA MessageType ==
    ASSUME KafkaTypeOK, NEW p \in Partitions, NEW o \in 1..Len(log[p])
    PROVE  log[p][o] = Undecodable \/ log[p][o] \in EventType
BY DEF KafkaTypeOK

\* An appended message is an event or undecodable.
LEMMA AppendType ==
    ASSUME KafkaTypeOK, NEW p \in Partitions, NEW message \in EventType \cup {Undecodable},
           AppendMessage(p, message)
    PROVE  KafkaTypeOK'
BY DEF KafkaTypeOK, AppendMessage, IsPartitionMap

\* Producers only append well-typed messages.
LEMMA ProduceType ==
    ASSUME TypeInv, NEW p \in Partitions,
           Produce(p) \/ ProduceDuplicate(p) \/ ProduceUndecodable(p)
    PROVE  TypeInv'
<1>0. KafkaTypeOK
  BY DEF TypeInv, TypeOK
<1>1. PICK message \in EventType \cup {Undecodable} : AppendMessage(p, message)
  <2>1. CASE Produce(p)
    <3>1. PICK user \in Users, page \in Pages, ts \in (now - MAX_DELAY)..(now + MAX_SKEW) :
             AppendMessage(p, Event(p, user, page, ts))
      BY <2>1 DEF Produce
    <3>2. ts \in Int /\ Len(log[p]) \in Nat
      BY <1>0, DelayAssumption DEF KafkaTypeOK
    <3>3. Event(p, user, page, ts) \in EventType
      BY <3>2 DEF Event, EventType
    <3> QED BY <3>1, <3>3
  <2>2. CASE ProduceDuplicate(p)
    BY <2>2, <1>0, MessageType DEF ProduceDuplicate
  <2>3. CASE ProduceUndecodable(p)
    BY <2>3 DEF ProduceUndecodable
  <2> QED BY <2>1, <2>2, <2>3
<1>2. KafkaTypeOK'
  BY <1>0, <1>1, AppendType
<1>3. UNCHANGED <<position, pending, states, inflight, agg_cells, partition_progress>>
  BY <1>1 DEF AppendMessage
<1>4. InstanceTypeOK' /\ DbTypeOK' /\ DomainsOK'
  BY <1>3 DEF TypeInv, TypeOK, InstanceTypeOK, DbTypeOK, DomainsOK, IsPartitionMap
<1>5. budget' \in Nat
  BY DEF TypeInv, TypeOK, Produce, ProduceDuplicate, ProduceUndecodable, Spend
<1> QED BY <1>2, <1>4, <1>5 DEF TypeInv, TypeOK

\* An assignment with well-typed progress keeps the types; the domains agree.
LEMMA AssignType ==
    ASSUME TypeInv, NEW i \in Instances, NEW p \in Partitions,
           AssignLoaded(i, p) \/ AssignLoadError(i, p)
    PROVE  TypeInv'
<1> USE DEF TypeInv, TypeOK
<1>1. IsProgress(NoProgress) /\ IsProgress(LoadedProgress(p))
  BY DayAssumption
     DEF NoProgress, LoadedProgress, IsProgress, KafkaTypeOK, DbTypeOK, IsPartitionMap
<1>2. PICK progress : IsProgress(progress) /\ Assign(i, p, progress)
  BY <1>1 DEF AssignLoaded, AssignLoadError
<1>3. KafkaTypeOK' /\ DbTypeOK'
  BY <1>2 DEF Assign, KafkaTypeOK, DbTypeOK, IsPartitionMap, Put
<1>4. InstanceTypeOK'
  BY <1>2 DEF Assign, InstanceTypeOK, IsPartitionMap, Put
<1>5. DomainsOK'
  BY <1>2 DEF Assign, InstanceTypeOK, DomainsOK, Put
<1>6. budget' \in Nat
  BY DEF AssignLoaded, AssignLoadError, Spend
<1> QED BY <1>3, <1>4, <1>5, <1>6

\* The second half of post_rebalance keeps the types, whatever the position.
LEMMA InstallType ==
    ASSUME TypeInv, NEW i \in Instances, NEW p \in Partitions,
           InstallState(i, p) \/ InstallStateSeekFailed(i, p)
    PROVE  TypeInv'
<1> USE DEF TypeInv, TypeOK
<1>1. p \in DOMAIN pending[i] /\ IsProgress(pending[i][p]) /\ position[i][p] \in Nat
  BY DEF InstallState, InstallStateSeekFailed, InstanceTypeOK, IsPartitionMap, DomainsOK
<1>2. PICK offset \in Nat : Install(i, p, offset)
  BY <1>1 DEF InstallState, InstallStateSeekFailed, IsProgress
<1>3. IsPartitionState(resume_from(pending[i][p].committed_offset,
                                   pending[i][p].flushed_watermark))
  BY <1>1 DEF IsProgress, IsPartitionState, resume_from, AreWindows
<1>4. KafkaTypeOK' /\ DbTypeOK'
  BY <1>2 DEF Install, KafkaTypeOK, DbTypeOK, IsPartitionMap
<1>5. InstanceTypeOK'
  BY <1>2, <1>3 DEF Install, InstanceTypeOK, IsPartitionMap, Put, Drop, Restrict
<1>6. DomainsOK'
  BY <1>2 DEF Install, InstanceTypeOK, DomainsOK, Put, Drop, Restrict
<1>7. budget' \in Nat
  BY DEF InstallState, InstallStateSeekFailed, Spend
<1> QED BY <1>4, <1>5, <1>6, <1>7

\* Revocation, session timeout and crash only remove entries.
LEMMA ReleaseType ==
    ASSUME TypeInv, NEW i \in Instances,
           SessionTimeout(i) \/ Crash(i) \/ \E p \in Partitions : Revoke(i, p)
    PROVE  TypeInv'
<1> USE DEF TypeInv, TypeOK
<1>1. budget' \in Nat
  BY DEF SessionTimeout, Crash, Revoke, Spend
<1>2. CASE SessionTimeout(i)
  BY <1>1, <1>2 DEF SessionTimeout, KafkaTypeOK, InstanceTypeOK, DbTypeOK, DomainsOK,
                    IsPartitionMap, Restrict
<1>3. CASE Crash(i)
  <2>1. KafkaTypeOK' /\ DbTypeOK'
    BY <1>3 DEF Crash, KafkaTypeOK, DbTypeOK, IsPartitionMap, Restrict
  <2>2. InstanceTypeOK'
    BY <1>3 DEF Crash, InstanceTypeOK, IsPartitionMap
  <2>3. DomainsOK'
    BY <1>3 DEF Crash, InstanceTypeOK, DomainsOK
  <2> QED BY <1>1, <2>1, <2>2, <2>3
<1>4. ASSUME NEW p \in Partitions, Revoke(i, p) PROVE TypeInv'
  <2>1. KafkaTypeOK' /\ DbTypeOK'
    BY <1>4 DEF Revoke, KafkaTypeOK, DbTypeOK, IsPartitionMap, Drop, Restrict
  <2>2. InstanceTypeOK'
    BY <1>4 DEF Revoke, InstanceTypeOK, IsPartitionMap, Drop, Restrict
  <2>3. DomainsOK'
    BY <1>4 DEF Revoke, Idle, InstanceTypeOK, DomainsOK, Drop, Restrict
  <2> QED BY <1>1, <2>1, <2>2, <2>3
<1> QED BY <1>2, <1>3, <1>4

\* The message loop keeps the types; it finds a state for every message.
LEMMA MessageLoopType ==
    ASSUME TypeInv, NEW i \in Instances, NEW p \in Partitions,
           ProcessMessage(i, p) \/ SkipUndecodable(i, p)
    PROVE  TypeInv'
<1> USE DEF TypeInv, TypeOK
<1> DEFINE pos == position[i][p]
           message == log[p][pos + 1]
<1>1. /\ p \in DOMAIN states[i]
      /\ IsPartitionState(states[i][p])
      /\ p \in DOMAIN position[i]
      /\ pos \in Nat
      /\ pos < Len(log[p])
      /\ Len(log[p]) \in Nat
  BY DEF ProcessMessage, SkipUndecodable, Fetched, Idle, KafkaTypeOK, InstanceTypeOK,
         DomainsOK, IsPartitionMap
<1>2. position' = [position EXCEPT ![i][p] = pos + 1]
  BY DEF ProcessMessage, SkipUndecodable, Fetched
<1>3. UNCHANGED <<now, log, owner, pending, inflight, agg_cells, partition_progress, budget>>
  BY DEF ProcessMessage, SkipUndecodable
<1>4. KafkaTypeOK' /\ DbTypeOK' /\ budget' \in Nat
  BY <1>3 DEF KafkaTypeOK, DbTypeOK, IsPartitionMap
<1>5. CASE ProcessMessage(i, p)
  <2>1. message \in EventType
    BY <1>1, <1>5, MessageType DEF ProcessMessage
  <2>2. IsPartitionState(process_event(states[i][p], message, pos))
    BY <1>1, <2>1, ProcessEventType
  <2>3. states' = [states EXCEPT ![i] = Put(@, p, process_event(states[i][p], message, pos))]
    BY <1>1, <1>5 DEF ProcessMessage, StateFor
  <2>4. InstanceTypeOK'
    BY <1>1, <1>2, <1>3, <2>2, <2>3 DEF InstanceTypeOK, IsPartitionMap, Put
  <2>5. DomainsOK'
    BY <1>1, <1>2, <1>3, <2>3 DEF InstanceTypeOK, DomainsOK, Put
  <2> QED BY <1>4, <2>4, <2>5
<1>6. CASE SkipUndecodable(i, p)
  <2>1. states' = states
    BY <1>6 DEF SkipUndecodable
  <2>2. InstanceTypeOK'
    BY <1>1, <1>2, <1>3, <2>1 DEF InstanceTypeOK, IsPartitionMap
  <2>3. DomainsOK'
    BY <1>1, <1>2, <1>3, <2>1 DEF InstanceTypeOK, DomainsOK
  <2> QED BY <1>4, <2>2, <2>3
<1> QED BY <1>5, <1>6

\* An idle tick changes one instant.
LEMMA IdleTickType ==
    ASSUME TypeInv, NEW i \in Instances, NEW p \in Partitions, IdleTick(i, p)
    PROVE  TypeInv'
<1> USE DEF TypeInv, TypeOK
<1>1. p \in DOMAIN states[i] /\ IsPartitionState(states[i][p]) /\ now \in Int
  BY DEF IdleTick, KafkaTypeOK, InstanceTypeOK, IsPartitionMap
<1>2. IsPartitionState(tick_idle(states[i][p], now))
  BY <1>1, TickIdleFacts
<1>3. states' = [states EXCEPT ![i][p] = tick_idle(states[i][p], now)]
  BY DEF IdleTick
<1>4. UNCHANGED <<now, log, owner, position, pending, inflight, agg_cells,
                  partition_progress, budget>>
  BY DEF IdleTick
<1>5. KafkaTypeOK' /\ DbTypeOK' /\ budget' \in Nat
  BY <1>4 DEF KafkaTypeOK, DbTypeOK, IsPartitionMap
<1>6. InstanceTypeOK'
  BY <1>1, <1>2, <1>3, <1>4 DEF InstanceTypeOK, IsPartitionMap
<1>7. DomainsOK'
  BY <1>1, <1>3, <1>4 DEF InstanceTypeOK, DomainsOK
<1> QED BY <1>5, <1>6, <1>7

\* The first half of a flush round keeps the types.
LEMMA TakeType ==
    ASSUME TypeInv, NEW i \in Instances, TakeBatches(i)
    PROVE  TypeInv'
<1> USE DEF TypeInv, TypeOK
<1>1. ASSUME NEW p \in DOMAIN states[i]
      PROVE  p \in Partitions /\ IsPartitionState(take_closed_windows(states[i][p]))
             /\ IsBatch(Batch(states[i][p]))
  <2>1. p \in Partitions /\ IsPartitionState(states[i][p])
    BY <1>1 DEF InstanceTypeOK, IsPartitionMap
  <2>2. IsPartitionState(take_closed_windows(states[i][p]))
        /\ AreWindows(closed_windows(states[i][p]))
    BY <2>1, TakeFacts
  <2>3. committed_offset(take_closed_windows(states[i][p])) \in Nat
    BY <2>2, CommittedOffsetFacts
  <2>4. IsBatch(Batch(states[i][p]))
    BY <2>2, <2>3 DEF IsBatch, IsProgress, Batch, IsPartitionState
  <2> QED BY <2>1, <2>2, <2>4
<1>2. UNCHANGED <<now, log, owner, position, pending, agg_cells, partition_progress, budget>>
  BY DEF TakeBatches
<1>3. KafkaTypeOK' /\ DbTypeOK' /\ budget' \in Nat
  BY <1>2 DEF KafkaTypeOK, DbTypeOK, IsPartitionMap
<1>4. InstanceTypeOK'
  BY <1>1, <1>2 DEF TakeBatches, InstanceTypeOK, IsPartitionMap
<1>5. DomainsOK'
  BY <1>2 DEF TakeBatches, InstanceTypeOK, DomainsOK
<1> QED BY <1>3, <1>4, <1>5

\* The rows of a batch are counts.
LEMMA CellRowsType ==
    ASSUME NEW p, NEW closed, AreWindows(closed)
    PROVE  \A key \in DOMAIN CellRows(p, closed) :
               /\ CellRows(p, closed)[key].events \in Nat
               /\ CellRows(p, closed)[key].users \in Nat
<1> SUFFICES ASSUME NEW key \in DOMAIN CellRows(p, closed)
             PROVE  /\ CellRows(p, closed)[key].events \in Nat
                    /\ CellRows(p, closed)[key].users \in Nat
  OBVIOUS
<1>0. PICK w \in DOMAIN closed : \E c \in DOMAIN closed[w].cells : key = <<w, c, p>>
  BY DEF CellRows
<1>1. PICK c \in DOMAIN closed[w].cells : key = <<w, c, p>>
  BY <1>0
<1> DEFINE agg == closed[w].cells[c]
<1>2. agg.events \in Nat /\ agg.users \subseteq Users
  BY <1>1 DEF AreWindows, IsWindow, IsCellAgg
<1>3. Cardinality(agg.users) \in Nat
  BY <1>2, UsersAssumption, FS_Subset, FS_CardinalityType
<1>4. CellRows(p, closed)[key] = [events |-> agg.events, users |-> Cardinality(agg.users)]
  BY <1>1 DEF CellRows
<1> QED BY <1>2, <1>3, <1>4

\* Both outcomes of flush_windows keep the types.
LEMMA FlushType ==
    ASSUME TypeInv, NEW i \in Instances, NEW p \in Partitions,
           FlushCommit(i, p) \/ FlushError(i, p)
    PROVE  TypeInv'
<1> USE DEF TypeInv, TypeOK
<1>1. p \in DOMAIN inflight[i] /\ IsBatch(inflight[i][p])
  BY DEF FlushCommit, FlushError, InstanceTypeOK, IsPartitionMap
<1>2. /\ UNCHANGED <<now, log, owner, position, pending, states>>
      /\ inflight' = [inflight EXCEPT ![i] = Drop(@, p)]
      /\ budget' \in Nat
  BY DEF FlushCommit, FlushError, Spend
<1>3. KafkaTypeOK'
  BY <1>2 DEF KafkaTypeOK, IsPartitionMap
<1>4. InstanceTypeOK' /\ DomainsOK'
  BY <1>2 DEF InstanceTypeOK, DomainsOK, IsPartitionMap, Drop, Restrict
<1>5. CASE FlushCommit(i, p)
  <2> DEFINE rows == CellRows(p, inflight[i][p].closed)
  <2>1. \A key \in DOMAIN rows : rows[key].events \in Nat /\ rows[key].users \in Nat
    BY <1>1, CellRowsType DEF IsBatch
  <2>2. agg_cells' = Override(agg_cells, rows)
    BY <1>5 DEF FlushCommit, flush_windows
  <2>3. \A key \in DOMAIN agg_cells' :
            agg_cells'[key].events \in Nat /\ agg_cells'[key].users \in Nat
    <3> HIDE DEF rows
    <3> QED BY <2>1, <2>2 DEF Override, DbTypeOK
  <2>4. IsPartitionMap(partition_progress', IsProgress)
    BY <1>1, <1>5 DEF FlushCommit, flush_windows, Put, DbTypeOK, IsPartitionMap,
                      IsBatch, IsProgress
  <2>5. DbTypeOK'
    BY <2>3, <2>4 DEF DbTypeOK
  <2> QED BY <1>2, <1>3, <1>4, <2>5
<1>6. CASE FlushError(i, p)
  BY <1>2, <1>3, <1>4, <1>6 DEF FlushError, DbTypeOK, IsPartitionMap
<1> QED BY <1>5, <1>6

\* TypeInv is inductive.
LEMMA NextTypeInv == TypeInv /\ [Next]_vars => TypeInv'
<1> SUFFICES ASSUME TypeInv, [Next]_vars PROVE TypeInv'
  OBVIOUS
<1>1. CASE Tick
  BY <1>1 DEF Tick, TypeInv, TypeOK, KafkaTypeOK, InstanceTypeOK, DbTypeOK, DomainsOK,
              IsPartitionMap
<1>2. CASE UNCHANGED vars
  BY <1>2 DEF vars, TypeInv, TypeOK, KafkaTypeOK, InstanceTypeOK, DbTypeOK, DomainsOK,
              IsPartitionMap
<1> QED
  BY <1>1, <1>2, ProduceType, AssignType, InstallType, ReleaseType, MessageLoopType,
     IdleTickType, TakeType, FlushType DEF Next

\* Every reachable state is well-typed and an instance's maps agree on the
\* partitions it holds.
THEOREM TypeCorrect == Spec => []TypeOK
<1>1. Spec => []TypeInv
  BY InitTypeInv, NextTypeInv, PTL DEF Spec
<1>2. TypeInv => TypeOK
  BY DEF TypeInv
<1> QED BY <1>1, <1>2, PTL

\* The message loop's or_insert_with fallback is never taken.
THEOREM FallbackNeverUsed == Spec => []FallbackUnused
<1>1. Spec => []TypeInv
  BY InitTypeInv, NextTypeInv, PTL DEF Spec
<1>2. TypeInv => FallbackUnused
  BY DEF TypeInv, DomainsOK, FallbackUnused, Idle
<1> QED BY <1>1, <1>2, PTL

-----------------------------------------------------------------------------
(***************************************************************************)
(* Resuming from the progress row skips nothing.                           *)
(***************************************************************************)
\* The resume offset of a sound state leaves no gap.
LEMMA CommittedOffsetGapless ==
    ASSUME NEW s, IsPartitionState(s), NEW p \in Partitions, KafkaTypeOK,
           NEW pos \in Nat, StateSound(s, p, pos)
    PROVE  Gapless(p, committed_offset(s), s.flushed_watermark)
<1> DEFINE offset == committed_offset(s)
<1>0. s.next_offset \in Nat /\ Len(log[p]) \in Nat
      /\ \A w \in DOMAIN s.open_windows : s.open_windows[w].min_offset \in Nat
  BY DEF IsPartitionState, KafkaTypeOK, AreWindows, IsWindow
<1>1. /\ offset \in Nat
      /\ offset <= s.next_offset
      /\ \A w \in DOMAIN s.open_windows : offset <= s.open_windows[w].min_offset
  BY <1>0, CommittedOffsetFacts DEF StateSound
<1> HIDE DEF offset
<1>2. ASSUME NEW o \in 0..(offset - 1)
      PROVE  ~ Unflushed(p, o, s.flushed_watermark)
  <2>1. o \in 0..(s.next_offset - 1)
    BY <1>0, <1>1
  <2>2. Covered(s, p, o)
    BY <2>1 DEF StateSound
  <2> QED BY <1>0, <1>1, <2>2 DEF Covered
<1>3. offset <= Len(log[p])
  BY <1>0, <1>1 DEF StateSound
<1> QED BY <1>2, <1>3 DEF Gapless, offset

\* Handling the message at the fetch position keeps the state sound.
LEMMA ProcessEventSound ==
    ASSUME NEW s, IsPartitionState(s), NEW p \in Partitions, KafkaTypeOK,
           NEW pos \in Nat, StateSound(s, p, pos), pos < Len(log[p]),
           log[p][pos + 1] \in EventType
    PROVE  StateSound(process_event(s, log[p][pos + 1], pos), p, pos + 1)
<1> DEFINE event == log[p][pos + 1]
           start == window_start(event.ts)
           windows == s.open_windows
           folded == FoldWindow(WindowFor(windows, start, pos), event, pos)
           t == process_event(s, event, pos)
<1>1. /\ s.next_offset \in Nat
      /\ s.flushed_watermark \in Int
      /\ Len(log[p]) \in Nat
      /\ AreWindows(windows)
      /\ start \in Int
      /\ window_end(start) \in Int
  BY WindowInstants DEF IsPartitionState, KafkaTypeOK, EventType
<1>2. /\ IsWindow(folded)
      /\ folded.min_offset <= pos
      /\ start \in DOMAIN windows => folded.min_offset <= windows[start].min_offset
  BY <1>1, FoldWindowFacts
<1>3. /\ t.next_offset = pos + 1
      /\ t.flushed_watermark = s.flushed_watermark
      /\ \/ /\ t.open_windows = windows
            /\ window_end(start) <= s.flushed_watermark \/ start \in DOMAIN windows
         \/ t.open_windows = Put(windows, start, folded)
  BY DEF process_event, IsLate, IsDuplicate, WindowFor, NewWindow
<1>4. \A w \in DOMAIN windows :
          /\ windows[w].min_offset \in Nat
          /\ windows[w].min_offset < pos
  BY <1>1 DEF StateSound, AreWindows, IsWindow
<1>5. folded.min_offset \in Nat
  BY <1>2 DEF IsWindow
<1>6. /\ \A w \in DOMAIN windows :
             w \in DOMAIN t.open_windows /\ t.open_windows[w].min_offset <= windows[w].min_offset
      /\ \A w \in DOMAIN t.open_windows :
             t.open_windows[w].min_offset \in Nat /\ t.open_windows[w].min_offset <= pos
      /\ \/ window_end(start) <= s.flushed_watermark
         \/ start \in DOMAIN t.open_windows
  <2> HIDE DEF folded, windows, t, start, event
  <2> QED BY <1>2, <1>3, <1>4, <1>5 DEF Put
<1> HIDE DEF t, folded
<1>7. ASSUME NEW o \in 0..pos
      PROVE  Covered(t, p, o)
  <2> DEFINE w == window_start(log[p][o + 1].ts)
  <2>1. SUFFICES ASSUME Unflushed(p, o, s.flushed_watermark)
                 PROVE  w \in DOMAIN t.open_windows /\ t.open_windows[w].min_offset <= o
    BY <1>3 DEF Covered
  <2>2. CASE o = pos
    <3>1. ~ (window_end(start) <= s.flushed_watermark)
      BY <1>1, <2>1, <2>2 DEF Unflushed
    <3> QED BY <1>6, <2>2, <3>1
  <2>3. CASE o # pos
    <3>1. o \in 0..(s.next_offset - 1)
      BY <1>1, <2>1, <2>3 DEF StateSound, Unflushed
    <3>2. w \in DOMAIN windows /\ windows[w].min_offset <= o
      BY <2>1, <3>1 DEF StateSound, Covered
    <3> QED BY <1>4, <1>6, <3>2
  <2> QED BY <2>2, <2>3
<1> QED BY <1>1, <1>3, <1>6, <1>7 DEF StateSound, t

\* Taking the closed windows keeps the state sound.
LEMMA TakeSound ==
    ASSUME NEW s, IsPartitionState(s), NEW p \in Partitions, KafkaTypeOK,
           NEW pos \in Nat, StateSound(s, p, pos)
    PROVE  StateSound(take_closed_windows(s), p, pos)
<1> DEFINE t == take_closed_windows(s)
<1>1. /\ IsPartitionState(t)
      /\ t.next_offset = s.next_offset
      /\ t.flushed_watermark >= s.flushed_watermark
      /\ DOMAIN t.open_windows \subseteq DOMAIN s.open_windows
      /\ \A w \in DOMAIN t.open_windows : t.open_windows[w] = s.open_windows[w]
      /\ \A w \in DOMAIN s.open_windows :
            w \notin DOMAIN t.open_windows => window_end(w) <= t.flushed_watermark
  BY TakeFacts
<1>2. /\ s.next_offset \in Nat /\ Len(log[p]) \in Nat
      /\ s.flushed_watermark \in Int /\ t.flushed_watermark \in Int
  BY <1>1 DEF IsPartitionState, KafkaTypeOK
<1> HIDE DEF t
<1>3. ASSUME NEW o \in 0..(s.next_offset - 1)
      PROVE  Covered(t, p, o)
  <2> DEFINE w == window_start(log[p][o + 1].ts)
  <2>1. SUFFICES ASSUME Unflushed(p, o, t.flushed_watermark)
                 PROVE  w \in DOMAIN t.open_windows /\ t.open_windows[w].min_offset <= o
    BY DEF Covered
  <2>2. log[p][o + 1] \in EventType
    BY <1>2, <2>1, MessageType DEF StateSound, Unflushed
  <2>3. window_end(w) \in Int
    BY <2>2, WindowInstants DEF EventType
  <2>4. Unflushed(p, o, s.flushed_watermark)
    BY <1>1, <1>2, <2>1, <2>3 DEF Unflushed
  <2>5. w \in DOMAIN s.open_windows /\ s.open_windows[w].min_offset <= o
    BY <2>4 DEF StateSound, Covered
  <2>6. w \in DOMAIN t.open_windows
    BY <1>1, <1>2, <2>1, <2>3, <2>5 DEF Unflushed
  <2> QED BY <1>1, <2>5, <2>6
<1> QED BY <1>1, <1>3 DEF StateSound, t

\* Messages are only ever appended.
LogExtended ==
    \A p \in Partitions :
        /\ Len(log[p]) <= Len(log[p])'
        /\ \A o \in 1..Len(log[p]) : log'[p][o] = log[p][o]

\* A gapless prefix stays gapless when the log grows.
LEMMA GaplessExtended ==
    ASSUME KafkaTypeOK, KafkaTypeOK', LogExtended, NEW p \in Partitions,
           NEW offset \in Nat, NEW wm, Gapless(p, offset, wm)
    PROVE  Gapless(p, offset, wm)'
BY DEF KafkaTypeOK, LogExtended, Gapless, Unflushed

\* A sound state stays sound when the log grows.
LEMMA StateSoundExtended ==
    ASSUME KafkaTypeOK, KafkaTypeOK', LogExtended, NEW p \in Partitions,
           NEW s, IsPartitionState(s), NEW pos \in Nat, StateSound(s, p, pos)
    PROVE  StateSound(s, p, pos)'
<1>0. Len(log[p]) \in Nat /\ Len(log[p])' \in Nat /\ Len(log[p]) <= Len(log[p])'
  BY DEF KafkaTypeOK, LogExtended
<1>1. /\ s.next_offset \in Nat
      /\ \A o \in 0..(Len(log[p]) - 1) : log'[p][o + 1] = log[p][o + 1]
  BY <1>0 DEF LogExtended, IsPartitionState
<1>2. ASSUME NEW o \in 0..(s.next_offset - 1) PROVE Covered(s, p, o)'
  <2>1. Covered(s, p, o) /\ log'[p][o + 1] = log[p][o + 1]
    BY <1>0, <1>1 DEF StateSound
  <2> QED BY <2>1 DEF Covered, Unflushed
<1>3. ASSUME NEW o \in s.next_offset..(pos - 1) PROVE log'[p][o + 1] = Undecodable
  <2>1. o \in 0..(Len(log[p]) - 1)
    BY <1>0, <1>1 DEF StateSound
  <2> QED BY <1>1, <2>1 DEF StateSound
<1>4. pos <= Len(log[p])' /\ s.next_offset <= Len(log[p])'
  BY <1>0, <1>1 DEF StateSound
<1> QED BY <1>2, <1>3, <1>4 DEF StateSound

\* Initially there is nothing to resume from.
LEMMA InitResumeInv == Init => ResumeInv
BY DEF Init, ResumeInv, StatesSound, PendingSound, InflightSound, ResumeSafe

\* A step that moves neither offsets nor states and at most appends to the log.
LEMMA ExtendResume ==
    ASSUME TypeInv, TypeInv', ResumeInv, LogExtended,
           UNCHANGED <<position, pending, states, inflight, partition_progress>>
    PROVE  ResumeInv'
<1> USE DEF TypeInv, TypeOK
<1>1. StatesSound'
  <2> SUFFICES ASSUME NEW i \in Instances, NEW p \in DOMAIN states[i]
               PROVE  StateSound(states[i][p], p, position[i][p])'
    BY DEF StatesSound
  <2>1. /\ p \in Partitions /\ IsPartitionState(states[i][p]) /\ position[i][p] \in Nat
        /\ StateSound(states[i][p], p, position[i][p])
    BY DEF InstanceTypeOK, DomainsOK, IsPartitionMap, ResumeInv, StatesSound
  <2> QED BY <2>1, StateSoundExtended
<1>2. PendingSound'
  BY GaplessExtended
     DEF InstanceTypeOK, IsPartitionMap, IsProgress, ResumeInv, PendingSound
<1>3. InflightSound'
  BY GaplessExtended
     DEF InstanceTypeOK, IsPartitionMap, IsBatch, IsProgress, ResumeInv, InflightSound
<1>4. ResumeSafe'
  BY GaplessExtended
     DEF DbTypeOK, IsPartitionMap, IsProgress, ResumeInv, ResumeSafe
<1> QED BY <1>1, <1>2, <1>3, <1>4 DEF ResumeInv

\* When the log does not change, neither does what is gapless or sound in it.
LEMMA SameLog ==
    ASSUME log' = log
    PROVE  /\ \A p, offset, wm : Gapless(p, offset, wm)' <=> Gapless(p, offset, wm)
           /\ \A s, p, pos : StateSound(s, p, pos)' <=> StateSound(s, p, pos)
BY DEF Gapless, StateSound, Covered, Unflushed

\* What post_rebalance resumes from is gapless: a progress row, or offset 0.
LEMMA AssignResume ==
    ASSUME TypeInv, ResumeInv, NEW i \in Instances, NEW p \in Partitions,
           AssignLoaded(i, p) \/ AssignLoadError(i, p)
    PROVE  ResumeInv'
<1> USE DEF TypeInv, TypeOK
<1>1. PICK progress : /\ progress \in {NoProgress, LoadedProgress(p)}
                      /\ Assign(i, p, progress)
  BY DEF AssignLoaded, AssignLoadError
<1>2. Gapless(p, progress.committed_offset, progress.flushed_watermark)
  <2>1. CASE p \in DOMAIN partition_progress /\ progress = LoadedProgress(p)
    BY <2>1 DEF LoadedProgress, ResumeInv, ResumeSafe
  <2>2. CASE progress = NoProgress
    <3>1. Len(log[p]) \in Nat
      BY DEF KafkaTypeOK
    <3> QED BY <2>2, <3>1 DEF NoProgress, Gapless
  <2> QED BY <1>1, <2>1, <2>2 DEF LoadedProgress
<1>3. log' = log /\ UNCHANGED <<states, inflight, agg_cells, partition_progress>>
  BY <1>1 DEF Assign
<1>4. StatesSound'
  BY <1>1, <1>3, SameLog DEF Assign, Put, DomainsOK, InstanceTypeOK, ResumeInv, StatesSound
<1>5. PendingSound'
  BY <1>1, <1>2, <1>3, SameLog DEF Assign, Put, DomainsOK, InstanceTypeOK, ResumeInv, PendingSound
<1>6. InflightSound' /\ ResumeSafe'
  BY <1>3, SameLog DEF ResumeInv, InflightSound, ResumeSafe
<1> QED BY <1>4, <1>5, <1>6 DEF ResumeInv

\* The state post_rebalance installs is sound at the offset it sought, and at
\* offset 0 when there was no seek or it failed.
LEMMA InstallResume ==
    ASSUME TypeInv, ResumeInv, NEW i \in Instances, NEW p \in Partitions,
           InstallState(i, p) \/ InstallStateSeekFailed(i, p)
    PROVE  ResumeInv'
<1> USE DEF TypeInv, TypeOK
<1> DEFINE progress == pending[i][p]
           s == resume_from(progress.committed_offset, progress.flushed_watermark)
<1>1. /\ p \in DOMAIN pending[i] /\ IsProgress(progress) /\ position[i][p] = 0
      /\ Gapless(p, progress.committed_offset, progress.flushed_watermark)
      /\ Len(log[p]) \in Nat
  BY DEF InstallState, InstallStateSeekFailed, InstanceTypeOK, IsPartitionMap, ResumeInv,
         PendingSound, KafkaTypeOK
<1>2. PICK offset \in {0, progress.committed_offset} : Install(i, p, offset)
  BY <1>1 DEF InstallState, InstallStateSeekFailed
<1>3. StateSound(s, p, offset)
  BY <1>1 DEF StateSound, resume_from, Gapless, Covered, IsProgress
<1>4. /\ UNCHANGED <<log, inflight, partition_progress>>
      /\ position' = [position EXCEPT ![i] = Put(@, p, offset)]
      /\ states' = [states EXCEPT ![i] = Put(@, p, s)]
      /\ pending' = [pending EXCEPT ![i] = Drop(@, p)]
  BY <1>2 DEF Install
<1> HIDE DEF s
<1>5. StatesSound'
  BY <1>3, <1>4, SameLog DEF Put, DomainsOK, InstanceTypeOK, ResumeInv, StatesSound
<1>6. PendingSound'
  BY <1>4, SameLog DEF Put, Drop, Restrict, DomainsOK, InstanceTypeOK, ResumeInv, PendingSound
<1>7. InflightSound' /\ ResumeSafe'
  BY <1>4, SameLog DEF ResumeInv, InflightSound, ResumeSafe
<1> QED BY <1>5, <1>6, <1>7 DEF ResumeInv

\* Revocation, session timeout and crash leave the batches in flight gapless.
LEMMA ReleaseResume ==
    ASSUME TypeInv, ResumeInv, NEW i \in Instances,
           SessionTimeout(i) \/ Crash(i) \/ \E p \in Partitions : Revoke(i, p)
    PROVE  ResumeInv'
<1> USE DEF TypeInv, TypeOK
<1>1. UNCHANGED <<log, partition_progress>>
  BY DEF SessionTimeout, Crash, Revoke
<1>2. ResumeSafe'
  BY <1>1, SameLog DEF ResumeInv, ResumeSafe
<1>3. CASE SessionTimeout(i)
  BY <1>1, <1>2, <1>3, SameLog
     DEF SessionTimeout, ResumeInv, StatesSound, PendingSound, InflightSound
<1>4. CASE Crash(i)
  BY <1>1, <1>2, <1>4, SameLog
     DEF Crash, InstanceTypeOK, ResumeInv, StatesSound, PendingSound, InflightSound
<1>5. ASSUME NEW p \in Partitions, Revoke(i, p) PROVE ResumeInv'
  <2>1. StatesSound'
    BY <1>1, <1>5, SameLog
       DEF Revoke, InstanceTypeOK, DomainsOK, Drop, Restrict, ResumeInv, StatesSound
  <2>2. PendingSound'
    BY <1>1, <1>5, SameLog
       DEF Revoke, Idle, InstanceTypeOK, DomainsOK, Drop, Restrict, ResumeInv, PendingSound
  <2>3. InflightSound'
    BY <1>1, <1>5, SameLog DEF Revoke, ResumeInv, InflightSound
  <2> QED BY <1>2, <2>1, <2>2, <2>3 DEF ResumeInv
<1> QED BY <1>3, <1>4, <1>5

\* Handling one message keeps the state sound.
LEMMA MessageLoopResume ==
    ASSUME TypeInv, ResumeInv, NEW i \in Instances, NEW p \in Partitions,
           ProcessMessage(i, p) \/ SkipUndecodable(i, p)
    PROVE  ResumeInv'
<1> USE DEF TypeInv, TypeOK
<1> DEFINE pos == position[i][p]
           s == states[i][p]
<1>1. /\ p \in DOMAIN states[i]
      /\ IsPartitionState(s)
      /\ StateSound(s, p, pos)
      /\ p \in DOMAIN position[i]
      /\ p \notin DOMAIN pending[i]
      /\ pos \in Nat
      /\ pos < Len(log[p])
      /\ Len(log[p]) \in Nat
  BY DEF ProcessMessage, SkipUndecodable, Fetched, Idle, KafkaTypeOK, InstanceTypeOK,
         DomainsOK, IsPartitionMap, ResumeInv, StatesSound
<1>2. position' = [position EXCEPT ![i][p] = pos + 1]
  BY DEF ProcessMessage, SkipUndecodable, Fetched
<1>3. UNCHANGED <<log, pending, inflight, partition_progress>>
  BY DEF ProcessMessage, SkipUndecodable
<1>4. PendingSound'
  BY <1>1, <1>2, <1>3, SameLog DEF InstanceTypeOK, DomainsOK, ResumeInv, PendingSound
<1>5. InflightSound' /\ ResumeSafe'
  BY <1>3, SameLog DEF ResumeInv, InflightSound, ResumeSafe
<1>6. StatesSound'
  <2>1. CASE ProcessMessage(i, p)
    <3> DEFINE t == process_event(s, log[p][pos + 1], pos)
    <3>1. log[p][pos + 1] \in EventType
      BY <1>1, <2>1, MessageType DEF ProcessMessage
    <3>2. StateSound(t, p, pos + 1)
      BY <1>1, <3>1, ProcessEventSound
    <3>3. states' = [states EXCEPT ![i] = Put(@, p, t)]
      BY <1>1, <2>1 DEF ProcessMessage, StateFor
    <3> HIDE DEF t
    <3> QED
      BY <1>1, <1>2, <1>3, <3>2, <3>3, SameLog
         DEF Put, InstanceTypeOK, DomainsOK, ResumeInv, StatesSound
  <2>2. CASE SkipUndecodable(i, p)
    <3>1. log[p][pos + 1] = Undecodable /\ states' = states
      BY <2>2 DEF SkipUndecodable
    <3>2. StateSound(s, p, pos + 1)
      <4>1. /\ s.next_offset \in Nat
            /\ \A w \in DOMAIN s.open_windows : s.open_windows[w].min_offset \in Nat
        BY <1>1 DEF IsPartitionState, AreWindows, IsWindow
      <4>2. \A o \in s.next_offset..pos : log[p][o + 1] = Undecodable
        BY <1>1, <3>1, <4>1 DEF StateSound
      <4> QED BY <1>1, <4>1, <4>2 DEF StateSound
    <3> QED
      BY <1>1, <1>2, <1>3, <3>1, <3>2, SameLog
         DEF InstanceTypeOK, DomainsOK, ResumeInv, StatesSound
  <2> QED BY <2>1, <2>2
<1> QED BY <1>4, <1>5, <1>6 DEF ResumeInv

\* An idle tick moves no offset and no flushed watermark.
LEMMA IdleTickResume ==
    ASSUME TypeInv, ResumeInv, NEW i \in Instances, NEW p \in Partitions, IdleTick(i, p)
    PROVE  ResumeInv'
<1> USE DEF TypeInv, TypeOK
<1> DEFINE t == tick_idle(states[i][p], now)
<1>1. /\ p \in DOMAIN states[i] /\ IsPartitionState(states[i][p]) /\ now \in Int
      /\ StateSound(states[i][p], p, position[i][p])
  BY DEF IdleTick, KafkaTypeOK, InstanceTypeOK, IsPartitionMap, ResumeInv, StatesSound
<1>2. StateSound(t, p, position[i][p])
  BY <1>1, TickIdleFacts DEF StateSound, Covered
<1>3. /\ UNCHANGED <<log, position, pending, inflight, partition_progress>>
      /\ states' = [states EXCEPT ![i][p] = t]
  BY DEF IdleTick
<1> HIDE DEF t
<1>4. StatesSound'
  BY <1>1, <1>2, <1>3, SameLog DEF InstanceTypeOK, ResumeInv, StatesSound
<1>5. PendingSound' /\ InflightSound' /\ ResumeSafe'
  BY <1>3, SameLog DEF ResumeInv, PendingSound, InflightSound, ResumeSafe
<1> QED BY <1>4, <1>5 DEF ResumeInv

\* The batches that the flush loop takes are gapless.
LEMMA TakeResume ==
    ASSUME TypeInv, ResumeInv, NEW i \in Instances, TakeBatches(i)
    PROVE  ResumeInv'
<1> USE DEF TypeInv, TypeOK
<1>1. ASSUME NEW p \in DOMAIN states[i]
      PROVE  LET t == take_closed_windows(states[i][p])
             IN  /\ StateSound(t, p, position[i][p])
                 /\ Gapless(p, Batch(states[i][p]).committed_offset,
                               Batch(states[i][p]).flushed_watermark)
  <2> DEFINE s == states[i][p]
             t == take_closed_windows(s)
  <2>1. /\ p \in Partitions /\ IsPartitionState(s) /\ position[i][p] \in Nat
        /\ StateSound(s, p, position[i][p])
    BY <1>1 DEF InstanceTypeOK, DomainsOK, IsPartitionMap, ResumeInv, StatesSound
  <2>2. IsPartitionState(t)
    BY <2>1, TakeFacts
  <2>3. StateSound(t, p, position[i][p])
    BY <2>1, TakeSound
  <2>4. Gapless(p, committed_offset(t), t.flushed_watermark)
    BY <2>1, <2>2, <2>3, CommittedOffsetGapless
  <2> QED BY <2>3, <2>4 DEF Batch
<1>2. UNCHANGED <<log, position, pending, partition_progress>>
  BY DEF TakeBatches
<1>3. StatesSound'
  BY <1>1, <1>2, SameLog DEF TakeBatches, InstanceTypeOK, ResumeInv, StatesSound
<1>4. InflightSound'
  BY <1>1, <1>2, SameLog DEF TakeBatches, InstanceTypeOK, ResumeInv, InflightSound
<1>5. PendingSound' /\ ResumeSafe'
  BY <1>2, SameLog DEF ResumeInv, PendingSound, ResumeSafe
<1> QED BY <1>3, <1>4, <1>5 DEF ResumeInv

\* A commit, by an owner or by a zombie, writes a gapless batch; an error writes none.
LEMMA FlushResume ==
    ASSUME TypeInv, ResumeInv, NEW i \in Instances, NEW p \in Partitions,
           FlushCommit(i, p) \/ FlushError(i, p)
    PROVE  ResumeInv'
<1> USE DEF TypeInv, TypeOK
<1>1. /\ UNCHANGED <<log, position, pending, states>>
      /\ inflight' = [inflight EXCEPT ![i] = Drop(@, p)]
      /\ p \in DOMAIN inflight[i]
  BY DEF FlushCommit, FlushError
<1>2. StatesSound' /\ PendingSound'
  BY <1>1, SameLog DEF ResumeInv, StatesSound, PendingSound
<1>3. InflightSound'
  BY <1>1, SameLog DEF InstanceTypeOK, Drop, Restrict, ResumeInv, InflightSound
<1>4. ResumeSafe'
  <2>1. CASE FlushCommit(i, p)
    BY <1>1, <2>1, SameLog
       DEF FlushCommit, flush_windows, Put, ResumeInv, InflightSound, ResumeSafe
  <2>2. CASE FlushError(i, p)
    BY <1>1, <2>2, SameLog DEF FlushError, ResumeInv, ResumeSafe
  <2> QED BY <2>1, <2>2
<1> QED BY <1>2, <1>3, <1>4 DEF ResumeInv

\* Producers only extend the log.
LEMMA ProduceResume ==
    ASSUME TypeInv, TypeInv', ResumeInv,
           Tick \/ UNCHANGED vars \/ \E p \in Partitions :
               Produce(p) \/ ProduceDuplicate(p) \/ ProduceUndecodable(p)
    PROVE  ResumeInv'
<1> USE DEF TypeInv, TypeOK
<1>1. UNCHANGED <<position, pending, states, inflight, partition_progress>>
  BY DEF Tick, vars, Produce, ProduceDuplicate, ProduceUndecodable, AppendMessage
<1>2. LogExtended
  <2>1. CASE log' = log
    BY <2>1 DEF LogExtended, KafkaTypeOK
  <2>2. ASSUME NEW p \in Partitions, NEW message, AppendMessage(p, message)
        PROVE  LogExtended
    <3>1. ASSUME NEW q \in Partitions
          PROVE  /\ Len(log[q]) <= Len(log[q])'
                 /\ \A o \in 1..Len(log[q]) : log'[q][o] = log[q][o]
      BY <2>2 DEF AppendMessage, KafkaTypeOK
    <3> QED BY <3>1 DEF LogExtended
  <2> QED
    BY <2>1, <2>2 DEF Tick, vars, Produce, ProduceDuplicate, ProduceUndecodable
<1> QED BY <1>1, <1>2, ExtendResume

\* ResumeInv is inductive relative to TypeInv.
LEMMA NextResumeInv == TypeInv /\ TypeInv' /\ ResumeInv /\ [Next]_vars => ResumeInv'
<1> SUFFICES ASSUME TypeInv, TypeInv', ResumeInv, [Next]_vars PROVE ResumeInv'
  OBVIOUS
<1> QED
  BY ProduceResume, AssignResume, InstallResume, ReleaseResume, MessageLoopResume,
     IdleTickResume, TakeResume, FlushResume DEF Next

\* Whatever faults happen and however the instances interleave, resuming a
\* partition from its progress row skips no event of a window that the row does not
\* call flushed (committed_offset, window.rs:182; flush_windows, db.rs:37).
THEOREM ResumeIsSafe == Spec => []ResumeSafe
<1>1. Spec => []TypeInv
  BY InitTypeInv, NextTypeInv, PTL DEF Spec
<1>2. Spec => []ResumeInv
  BY <1>1, InitResumeInv, NextResumeInv, PTL DEF Spec
<1>3. ResumeInv => ResumeSafe
  BY DEF ResumeInv
<1> QED BY <1>2, <1>3, PTL

-----------------------------------------------------------------------------
(***************************************************************************)
(* No row counts an event or a user twice.                                 *)
(*                                                                         *)
(* NoOverCount speaks of the table only.  Its inductive strengthening says *)
(* of every window on its way there, open in some instance's memory or in  *)
(* a batch in flight, that the ids it has seen back its counts.            *)
(***************************************************************************)
\* No cell of the window has counted more events than distinct ids of the log that
\* the window has seen, nor a user the log does not have in that cell.
Backed(window, w, p) ==
    \A c \in DOMAIN window.cells :
        /\ window.cells[c].events <= Cardinality(TruthIds(w, c, p) \cap window.seen_ids)
        /\ window.cells[c].users \subseteq TruthUsers(w, c, p)

AllBacked(windows, p) == \A w \in DOMAIN windows : Backed(windows[w], w, p)

StatesBacked ==
    \A i \in Instances : \A p \in DOMAIN states[i] : AllBacked(states[i][p].open_windows, p)

InflightBacked ==
    \A i \in Instances : \A p \in DOMAIN inflight[i] : AllBacked(inflight[i][p].closed, p)

CountInv ==
    /\ StatesBacked
    /\ InflightBacked
    /\ \A key \in DOMAIN agg_cells : key[3] \in Partitions
    /\ NoOverCount

-----------------------------------------------------------------------------
(***************************************************************************)
(* The reference result.                                                   *)
(***************************************************************************)
\* The ids and the users of some messages of a log are finitely many.
LEMMA MessagesFinite ==
    ASSUME NEW messages \in Seq(EventType \cup {Undecodable}),
           NEW S \in SUBSET (1..Len(messages)), \A o \in S : messages[o] # Undecodable
    PROVE  /\ IsFiniteSet({messages[o].event_id : o \in S})
           /\ IsFiniteSet({messages[o].user : o \in S})
<1> DEFINE ids == {messages[o].event_id : o \in S}
           users == {messages[o].user : o \in S}
           id == [o \in S |-> messages[o].event_id]
<1>1. IsFiniteSet(1..Len(messages))
  BY FS_Interval
<1>2. IsFiniteSet(S)
  BY <1>1, FS_Subset
<1>3. id \in Surjection(S, ids)
  BY DEF Surjection
<1>4. IsFiniteSet(ids)
  BY <1>2, <1>3, FS_Surjection
<1>5. \A o \in S : messages[o] \in EventType
  OBVIOUS
<1>6. users \in SUBSET Users
  BY <1>5 DEF EventType
<1>7. IsFiniteSet(users)
  BY <1>6, UsersAssumption, FS_Subset
<1> QED BY <1>4, <1>7

\* What the log says of a cell is finite, now and after a step.
LEMMA TruthFinite ==
    ASSUME NEW p \in Partitions, NEW w, NEW c
    PROVE  /\ KafkaTypeOK => IsFiniteSet(TruthIds(w, c, p)) /\ IsFiniteSet(TruthUsers(w, c, p))
           /\ KafkaTypeOK' => IsFiniteSet(TruthIds(w, c, p)') /\ IsFiniteSet(TruthUsers(w, c, p)')
BY MessagesFinite DEF KafkaTypeOK, TruthOffsets, TruthIds, TruthUsers

\* When the log grows, so does what it says of a cell.
LEMMA TruthGrows ==
    ASSUME KafkaTypeOK, KafkaTypeOK', LogExtended, NEW p \in Partitions, NEW w, NEW c
    PROVE  /\ TruthIds(w, c, p) \subseteq TruthIds(w, c, p)'
           /\ TruthUsers(w, c, p) \subseteq TruthUsers(w, c, p)'
<1>1. \A o \in TruthOffsets(w, c, p) : o \in TruthOffsets(w, c, p)' /\ log'[p][o] = log[p][o]
  BY DEF KafkaTypeOK, LogExtended, TruthOffsets
<1> QED BY <1>1 DEF TruthIds, TruthUsers

\* The part of a finite set that a larger set of ids selects is not smaller.
LEMMA MoreSelected ==
    ASSUME NEW S, NEW T, IsFiniteSet(T), S \subseteq T, NEW seen, NEW more, seen \subseteq more
    PROVE  /\ Cardinality(S \cap seen) \in Nat
           /\ Cardinality(T \cap more) \in Nat
           /\ Cardinality(S \cap seen) <= Cardinality(T \cap more)
           /\ Cardinality(T \cap more) <= Cardinality(T)
<1>1. /\ T \cap more \in SUBSET T
      /\ S \cap seen \in SUBSET (T \cap more)
  OBVIOUS
<1>2. IsFiniteSet(T \cap more) /\ Cardinality(T \cap more) <= Cardinality(T)
  BY <1>1, FS_Subset
<1>3. IsFiniteSet(S \cap seen) /\ Cardinality(S \cap seen) <= Cardinality(T \cap more)
  BY <1>1, <1>2, FS_Subset
<1> QED BY <1>2, <1>3, FS_CardinalityType

\* A backed window stays backed when the log grows.
LEMMA BackedExtended ==
    ASSUME KafkaTypeOK, KafkaTypeOK', LogExtended, NEW p \in Partitions, NEW windows,
           AreWindows(windows), AllBacked(windows, p)
    PROVE  AllBacked(windows, p)'
<1> SUFFICES ASSUME NEW w \in DOMAIN windows, NEW c \in DOMAIN windows[w].cells
             PROVE  /\ windows[w].cells[c].events
                          <= Cardinality(TruthIds(w, c, p)' \cap windows[w].seen_ids)
                    /\ windows[w].cells[c].users \subseteq TruthUsers(w, c, p)'
  BY DEF AllBacked, Backed
<1>1. /\ windows[w].cells[c].events \in Nat
      /\ windows[w].cells[c].events <= Cardinality(TruthIds(w, c, p) \cap windows[w].seen_ids)
      /\ windows[w].cells[c].users \subseteq TruthUsers(w, c, p)
  BY DEF AllBacked, Backed, AreWindows, IsWindow, IsCellAgg
<1>2. /\ TruthIds(w, c, p) \subseteq TruthIds(w, c, p)'
      /\ TruthUsers(w, c, p) \subseteq TruthUsers(w, c, p)'
  BY TruthGrows
<1>3. IsFiniteSet(TruthIds(w, c, p)')
  BY TruthFinite
<1>4. /\ Cardinality(TruthIds(w, c, p) \cap windows[w].seen_ids) \in Nat
      /\ Cardinality(TruthIds(w, c, p)' \cap windows[w].seen_ids) \in Nat
      /\ Cardinality(TruthIds(w, c, p) \cap windows[w].seen_ids)
           <= Cardinality(TruthIds(w, c, p)' \cap windows[w].seen_ids)
  BY <1>2, <1>3, MoreSelected
<1> QED BY <1>1, <1>2, <1>4

-----------------------------------------------------------------------------
(***************************************************************************)
(* The operations of PartitionState.                                       *)
(***************************************************************************)
\* An event of the log that the window has not seen is backed once folded in.
LEMMA FoldBacked ==
    ASSUME KafkaTypeOK, NEW p \in Partitions, NEW o \in 1..Len(log[p]),
           log[p][o] \in EventType, log[p][o] # Undecodable,
           NEW window, IsWindow(window), NEW offset,
           Backed(window, window_start(log[p][o].ts), p), ~ IsDuplicate(window, log[p][o])
    PROVE  Backed(FoldWindow(window, log[p][o], offset), window_start(log[p][o].ts), p)
<1> DEFINE event == log[p][o]
           w == window_start(event.ts)
           folded == FoldWindow(window, event, offset)
<1>1. /\ folded.seen_ids = window.seen_ids \cup {event.event_id}
      /\ folded.cells = FoldCells(window.cells, event)
  BY DEF FoldWindow
<1> HIDE DEF folded
<1> SUFFICES ASSUME NEW c \in DOMAIN folded.cells
             PROVE  /\ folded.cells[c].events <= Cardinality(TruthIds(w, c, p) \cap folded.seen_ids)
                    /\ folded.cells[c].users \subseteq TruthUsers(w, c, p)
  BY DEF Backed, folded
<1> DEFINE agg == IF c \in DOMAIN window.cells THEN window.cells[c] ELSE EmptyCell
           ids == TruthIds(w, c, p) \cap window.seen_ids
           more == TruthIds(w, c, p) \cap folded.seen_ids
<1>2. IsFiniteSet(TruthIds(w, c, p))
  BY TruthFinite
<1>3. IsFiniteSet(ids) /\ IsFiniteSet(more)
  BY <1>2, FS_Intersection
<1>4. Cardinality(ids) \in Nat /\ Cardinality(more) \in Nat
  BY <1>3, FS_CardinalityType
<1>5. agg.events \in Nat /\ agg.events <= Cardinality(ids) /\ agg.users \subseteq TruthUsers(w, c, p)
  BY <1>4 DEF Backed, IsWindow, IsCellAgg, EmptyCell
<1>6. CASE c \in cells_for_event(event)
  <2>1. o \in TruthOffsets(w, c, p)
    BY <1>6 DEF TruthOffsets
  <2>2. event.event_id \in TruthIds(w, c, p) /\ event.user \in TruthUsers(w, c, p)
    BY <2>1 DEF TruthIds, TruthUsers
  <2>3. more = ids \cup {event.event_id} /\ event.event_id \notin ids
    BY <1>1, <2>2 DEF IsDuplicate
  <2>4. Cardinality(more) = Cardinality(ids) + 1
    <3> HIDE DEF ids, more
    <3> QED BY <1>3, <2>3, FS_AddElement
  <2>5. folded.cells[c] = [events |-> agg.events + 1, users |-> agg.users \cup {event.user}]
    BY <1>1, <1>6 DEF FoldCells
  <2> QED BY <1>4, <1>5, <2>2, <2>4, <2>5
<1>7. CASE c \notin cells_for_event(event)
  <2>1. folded.cells[c] = agg
    BY <1>1, <1>7 DEF FoldCells
  <2>2. Cardinality(ids) <= Cardinality(more)
    BY <1>1, <1>2, MoreSelected
  <2> QED BY <1>4, <1>5, <2>1, <2>2
<1> QED BY <1>6, <1>7

\* process_event keeps the windows backed: it drops what the window has seen.
LEMMA ProcessBacked ==
    ASSUME KafkaTypeOK, NEW p \in Partitions, NEW o \in 1..Len(log[p]),
           log[p][o] \in EventType, log[p][o] # Undecodable,
           NEW s, IsPartitionState(s), AllBacked(s.open_windows, p), NEW offset \in Nat
    PROVE  AllBacked(process_event(s, log[p][o], offset).open_windows, p)
<1> DEFINE event == log[p][o]
           start == window_start(event.ts)
           window == WindowFor(s.open_windows, start, offset)
           folded == FoldWindow(window, event, offset)
           windows == process_event(s, event, offset).open_windows
<1>1. IsWindow(window) /\ Backed(window, start, p)
  <2>1. CASE start \in DOMAIN s.open_windows
    BY <2>1 DEF WindowFor, IsPartitionState, AreWindows, AllBacked
  <2>2. CASE start \notin DOMAIN s.open_windows
    BY <2>2 DEF WindowFor, NewWindow, IsWindow, Backed
  <2> QED BY <2>1, <2>2
<1>2. CASE windows = s.open_windows
  BY <1>2
<1>3. CASE ~ IsDuplicate(window, event) /\ windows = Put(s.open_windows, start, folded)
  <2>1. Backed(folded, start, p)
    BY <1>1, <1>3, FoldBacked
  <2>2. AllBacked(windows, p)
    <3> HIDE DEF folded, windows, start
    <3> QED BY <1>3, <2>1 DEF AllBacked, Put
  <2> QED BY <2>2
<1> QED BY <1>2, <1>3 DEF process_event

\* take_closed_windows splits the windows in two: both halves stay backed.
LEMMA TakeBacked ==
    ASSUME NEW s, IsPartitionState(s), NEW p, AllBacked(s.open_windows, p)
    PROVE  /\ AllBacked(take_closed_windows(s).open_windows, p)
           /\ AllBacked(closed_windows(s), p)
<1>1. /\ DOMAIN take_closed_windows(s).open_windows \subseteq DOMAIN s.open_windows
      /\ \A w \in DOMAIN take_closed_windows(s).open_windows :
            take_closed_windows(s).open_windows[w] = s.open_windows[w]
  BY TakeFacts
<1> QED BY <1>1 DEF AllBacked, closed_windows, Restrict

\* The rows of a backed batch count no more than the log.
LEMMA RowsBacked ==
    ASSUME KafkaTypeOK, NEW p \in Partitions, NEW closed, AreWindows(closed),
           AllBacked(closed, p), NEW key \in DOMAIN CellRows(p, closed)
    PROVE  LET truth == TruthRow(key[1], key[2], key[3])
           IN  /\ key[3] = p
               /\ CellRows(p, closed)[key].events <= truth.events
               /\ CellRows(p, closed)[key].users <= truth.users
<1>0. PICK w \in DOMAIN closed : \E c \in DOMAIN closed[w].cells : key = <<w, c, p>>
  BY DEF CellRows
<1>1. PICK c \in DOMAIN closed[w].cells : key = <<w, c, p>>
  BY <1>0
<1> DEFINE agg == closed[w].cells[c]
<1>2. /\ agg.events \in Nat
      /\ agg.events <= Cardinality(TruthIds(w, c, p) \cap closed[w].seen_ids)
      /\ agg.users \subseteq TruthUsers(w, c, p)
  BY <1>1 DEF AreWindows, IsWindow, IsCellAgg, AllBacked, Backed
<1>3. IsFiniteSet(TruthIds(w, c, p)) /\ IsFiniteSet(TruthUsers(w, c, p))
  BY TruthFinite
<1>4. /\ Cardinality(TruthIds(w, c, p)) \in Nat
      /\ Cardinality(TruthIds(w, c, p) \cap closed[w].seen_ids) \in Nat
      /\ Cardinality(TruthIds(w, c, p) \cap closed[w].seen_ids) <= Cardinality(TruthIds(w, c, p))
  BY <1>3, FS_Intersection, FS_CardinalityType
<1>5. Cardinality(agg.users) <= Cardinality(TruthUsers(w, c, p))
  BY <1>2, <1>3, FS_Subset
<1>6. CellRows(p, closed)[key] = [events |-> agg.events, users |-> Cardinality(agg.users)]
  BY <1>1 DEF CellRows
<1> QED BY <1>1, <1>2, <1>4, <1>5, <1>6 DEF TruthRow

-----------------------------------------------------------------------------
(***************************************************************************)
(* The actions.                                                            *)
(***************************************************************************)
\* Initially nothing is counted.
LEMMA InitCountInv == Init => CountInv
BY DEF Init, CountInv, StatesBacked, InflightBacked, NoOverCount

\* Producers, and the clock, at most extend the log (AppendMessage).
LEMMA ProducersExtendLog ==
    ASSUME KafkaTypeOK,
           Tick \/ UNCHANGED vars \/ \E p \in Partitions :
               Produce(p) \/ ProduceDuplicate(p) \/ ProduceUndecodable(p)
    PROVE  /\ LogExtended
           /\ UNCHANGED <<position, pending, states, inflight, agg_cells, partition_progress>>
<1>1. CASE log' = log
  BY <1>1 DEF LogExtended, KafkaTypeOK, Tick, vars, Produce, ProduceDuplicate,
              ProduceUndecodable, AppendMessage
<1>2. ASSUME NEW p \in Partitions, NEW message, AppendMessage(p, message)
      PROVE  LogExtended
  <2>1. ASSUME NEW q \in Partitions
        PROVE  /\ Len(log[q]) <= Len(log[q])'
               /\ \A o \in 1..Len(log[q]) : log'[q][o] = log[q][o]
    BY <1>2 DEF AppendMessage, KafkaTypeOK
  <2> QED BY <2>1 DEF LogExtended
<1> QED
  BY <1>1, <1>2 DEF Tick, vars, Produce, ProduceDuplicate, ProduceUndecodable, AppendMessage

\* What has been counted stays backed when the log grows.
LEMMA ExtendCount ==
    ASSUME TypeInv, TypeInv', CountInv, LogExtended, UNCHANGED <<states, inflight, agg_cells>>
    PROVE  CountInv'
<1> USE DEF TypeInv, TypeOK
<1>1. StatesBacked'
  BY BackedExtended
     DEF InstanceTypeOK, IsPartitionMap, IsPartitionState, CountInv, StatesBacked
<1>2. InflightBacked'
  BY BackedExtended DEF InstanceTypeOK, IsPartitionMap, IsBatch, CountInv, InflightBacked
<1>3. NoOverCount'
  <2> SUFFICES ASSUME NEW key \in DOMAIN agg_cells
               PROVE  LET truth == TruthRow(key[1], key[2], key[3])'
                      IN  agg_cells[key].events <= truth.events /\ agg_cells[key].users <= truth.users
    BY DEF NoOverCount
  <2> DEFINE ids == TruthIds(key[1], key[2], key[3])
             users == TruthUsers(key[1], key[2], key[3])
  <2>1. /\ key[3] \in Partitions
        /\ agg_cells[key].events \in Nat /\ agg_cells[key].events <= Cardinality(ids)
        /\ agg_cells[key].users \in Nat /\ agg_cells[key].users <= Cardinality(users)
    BY DEF DbTypeOK, CountInv, NoOverCount, TruthRow
  <2>2. ids \subseteq ids' /\ users \subseteq users'
    BY <2>1, TruthGrows
  <2>3. IsFiniteSet(ids') /\ IsFiniteSet(users')
    BY <2>1, TruthFinite
  <2>4. /\ Cardinality(ids) \in Nat /\ Cardinality(users) \in Nat
        /\ Cardinality(ids') \in Nat /\ Cardinality(users') \in Nat
        /\ Cardinality(ids) <= Cardinality(ids') /\ Cardinality(users) <= Cardinality(users')
    <3> HIDE DEF ids, users
    <3> QED BY <2>2, <2>3, FS_Subset, FS_CardinalityType
  <2> QED BY <2>1, <2>4 DEF TruthRow
<1> QED BY <1>1, <1>2, <1>3 DEF CountInv

\* When the log does not change, neither does what it backs.
LEMMA SameTruth ==
    ASSUME log' = log
    PROVE  /\ \A windows, p : AllBacked(windows, p)' <=> AllBacked(windows, p)
           /\ agg_cells' = agg_cells => (NoOverCount' <=> NoOverCount)
<1>1. \A w, c, p : /\ TruthIds(w, c, p)' = TruthIds(w, c, p)
                   /\ TruthUsers(w, c, p)' = TruthUsers(w, c, p)
  BY DEF TruthIds, TruthUsers, TruthOffsets
<1>2. \A windows, p : AllBacked(windows, p)' <=> AllBacked(windows, p)
  BY <1>1 DEF AllBacked, Backed
<1>3. agg_cells' = agg_cells => (NoOverCount' <=> NoOverCount)
  BY <1>1 DEF NoOverCount, TruthRow
<1> QED BY <1>2, <1>3

\* Assignments do not count; a state that is dropped or starts empty counts nothing.
LEMMA RebalanceCount ==
    ASSUME TypeInv, CountInv, NEW i \in Instances,
           \/ SessionTimeout(i) \/ Crash(i)
           \/ \E p \in Partitions : \/ AssignLoaded(i, p) \/ AssignLoadError(i, p)
                                    \/ InstallState(i, p) \/ InstallStateSeekFailed(i, p)
                                    \/ Revoke(i, p) \/ SkipUndecodable(i, p)
    PROVE  CountInv'
<1> USE DEF TypeInv, TypeOK
<1>1. UNCHANGED <<log, agg_cells>>
  BY DEF SessionTimeout, Crash, AssignLoaded, AssignLoadError, Assign, InstallState,
         InstallStateSeekFailed, Install, Revoke, SkipUndecodable
<1>2. \/ states' = states
      \/ states' = [states EXCEPT ![i] = << >>]
      \/ \E p \in Partitions : states' = [states EXCEPT ![i] = Drop(@, p)]
      \/ \E p \in Partitions : \E offset, wm :
             states' = [states EXCEPT ![i] = Put(@, p, resume_from(offset, wm))]
  BY DEF SessionTimeout, Crash, AssignLoaded, AssignLoadError, Assign, InstallState,
         InstallStateSeekFailed, Install, Revoke, SkipUndecodable
<1>3. inflight' = inflight \/ inflight' = [inflight EXCEPT ![i] = << >>]
  BY DEF SessionTimeout, Crash, AssignLoaded, AssignLoadError, Assign, InstallState,
         InstallStateSeekFailed, Install, Revoke, SkipUndecodable
<1>4. \A offset, wm, p : AllBacked(resume_from(offset, wm).open_windows, p)
  BY DEF resume_from, AllBacked
<1>5. StatesBacked'
  <2>1. ASSUME NEW p, NEW t, AllBacked(t.open_windows, p),
               states' = [states EXCEPT ![i] = Put(@, p, t)]
        PROVE  StatesBacked'
    BY <1>1, <2>1, SameTruth DEF Put, InstanceTypeOK, CountInv, StatesBacked
  <2>2. CASE \E p \in Partitions : \E offset, wm :
               states' = [states EXCEPT ![i] = Put(@, p, resume_from(offset, wm))]
    BY <1>4, <2>1, <2>2
  <2>3. ASSUME NEW p, states' = [states EXCEPT ![i] = Drop(@, p)] PROVE StatesBacked'
    BY <1>1, <2>3, SameTruth DEF Drop, Restrict, InstanceTypeOK, CountInv, StatesBacked
  <2>4. CASE states' = states \/ states' = [states EXCEPT ![i] = << >>]
    BY <1>1, <2>4, SameTruth DEF InstanceTypeOK, CountInv, StatesBacked
  <2> QED BY <1>2, <2>2, <2>3, <2>4
<1>6. InflightBacked'
  BY <1>1, <1>3, SameTruth DEF InstanceTypeOK, CountInv, InflightBacked
<1> QED BY <1>1, <1>5, <1>6, SameTruth DEF CountInv

\* Handling a message, and an idle tick, keep the states backed.
LEMMA ProcessCount ==
    ASSUME TypeInv, CountInv, NEW i \in Instances, NEW p \in Partitions,
           ProcessMessage(i, p) \/ IdleTick(i, p)
    PROVE  CountInv'
<1> USE DEF TypeInv, TypeOK
<1> DEFINE s == states[i][p]
           pos == position[i][p]
<1>1. UNCHANGED <<log, inflight, agg_cells>>
  BY DEF ProcessMessage, IdleTick
<1>2. p \in DOMAIN states[i] /\ IsPartitionState(s) /\ AllBacked(s.open_windows, p)
  BY DEF ProcessMessage, Fetched, Idle, IdleTick, InstanceTypeOK, DomainsOK, IsPartitionMap,
         CountInv, StatesBacked
<1>3. PICK t : /\ states' = [states EXCEPT ![i] = Put(@, p, t)]
               /\ AllBacked(t.open_windows, p)
  <2>1. CASE ProcessMessage(i, p)
    <3>1. pos \in Nat /\ pos + 1 \in 1..Len(log[p])
      BY <2>1 DEF ProcessMessage, Fetched, InstanceTypeOK, IsPartitionMap, KafkaTypeOK
    <3>2. log[p][pos + 1] # Undecodable /\ log[p][pos + 1] \in EventType
      BY <2>1, <3>1, MessageType DEF ProcessMessage
    <3>3. AllBacked(process_event(s, log[p][pos + 1], pos).open_windows, p)
      BY <1>2, <3>1, <3>2, ProcessBacked
    <3>4. states' = [states EXCEPT ![i] = Put(@, p, process_event(s, log[p][pos + 1], pos))]
      BY <1>2, <2>1 DEF ProcessMessage, StateFor
    <3> QED BY <3>3, <3>4
  <2>2. CASE IdleTick(i, p)
    <3> DEFINE t == tick_idle(s, now)
    <3>1. AllBacked(t.open_windows, p)
      BY <1>2, TickIdleFacts DEF KafkaTypeOK
    <3>2. states' = [states EXCEPT ![i][p] = t]
      BY <2>2 DEF IdleTick
    <3> HIDE DEF t
    <3>3. [states[i] EXCEPT ![p] = t] = Put(states[i], p, t)
      BY <1>2 DEF Put
    <3>4. states' = [states EXCEPT ![i] = Put(@, p, t)]
      BY <3>2, <3>3
    <3> QED BY <3>1, <3>4
  <2> QED BY <2>1, <2>2
<1>4. StatesBacked'
  BY <1>1, <1>3, SameTruth DEF Put, InstanceTypeOK, CountInv, StatesBacked
<1>5. InflightBacked'
  BY <1>1, SameTruth DEF CountInv, InflightBacked
<1> QED BY <1>1, <1>4, <1>5, SameTruth DEF CountInv

\* The flush loop takes backed windows.
LEMMA TakeCount ==
    ASSUME TypeInv, CountInv, NEW i \in Instances, TakeBatches(i)
    PROVE  CountInv'
<1> USE DEF TypeInv, TypeOK
<1>1. UNCHANGED <<log, agg_cells>>
  BY DEF TakeBatches
<1>2. ASSUME NEW p \in DOMAIN states[i]
      PROVE  /\ AllBacked(take_closed_windows(states[i][p]).open_windows, p)
             /\ AllBacked(Batch(states[i][p]).closed, p)
  BY TakeBacked DEF Batch, InstanceTypeOK, IsPartitionMap, CountInv, StatesBacked
<1>3. StatesBacked'
  BY <1>1, <1>2, SameTruth DEF TakeBatches, InstanceTypeOK, CountInv, StatesBacked
<1>4. InflightBacked'
  BY <1>1, <1>2, SameTruth DEF TakeBatches, InstanceTypeOK, CountInv, InflightBacked
<1> QED BY <1>1, <1>3, <1>4, SameTruth DEF CountInv

\* A commit writes backed rows over the old ones; an error writes none.
LEMMA FlushCount ==
    ASSUME TypeInv, CountInv, NEW i \in Instances, NEW p \in Partitions,
           FlushCommit(i, p) \/ FlushError(i, p)
    PROVE  CountInv'
<1> USE DEF TypeInv, TypeOK
<1>1. /\ UNCHANGED <<log, states>>
      /\ inflight' = [inflight EXCEPT ![i] = Drop(@, p)]
      /\ p \in DOMAIN inflight[i]
      /\ IsBatch(inflight[i][p])
  BY DEF FlushCommit, FlushError, InstanceTypeOK, IsPartitionMap
<1>2. StatesBacked' /\ InflightBacked'
  BY <1>1, SameTruth DEF Drop, Restrict, InstanceTypeOK, CountInv, StatesBacked, InflightBacked
<1>3. CASE FlushCommit(i, p)
  <2> DEFINE rows == CellRows(p, inflight[i][p].closed)
  <2>1. AreWindows(inflight[i][p].closed) /\ AllBacked(inflight[i][p].closed, p)
    BY <1>1 DEF IsBatch, CountInv, InflightBacked
  <2>2. ASSUME NEW key \in DOMAIN rows
        PROVE  LET truth == TruthRow(key[1], key[2], key[3])
               IN  key[3] = p /\ rows[key].events <= truth.events /\ rows[key].users <= truth.users
    BY <2>1, RowsBacked
  <2>3. agg_cells' = Override(agg_cells, rows)
    BY <1>3 DEF FlushCommit, flush_windows
  <2>4. \A w, c, q : TruthRow(w, c, q)' = TruthRow(w, c, q)
    BY <1>1 DEF TruthRow, TruthIds, TruthUsers, TruthOffsets
  <2> HIDE DEF rows
  <2>5. NoOverCount' /\ \A key \in DOMAIN agg_cells' : key[3] \in Partitions
    BY <2>2, <2>3, <2>4 DEF Override, CountInv, NoOverCount
  <2> QED BY <1>2, <2>5 DEF CountInv
<1>4. CASE FlushError(i, p)
  <2>1. agg_cells' = agg_cells
    BY <1>4 DEF FlushError
  <2> QED BY <1>1, <1>2, <2>1, SameTruth DEF CountInv
<1> QED BY <1>3, <1>4

\* CountInv is inductive relative to TypeInv.
LEMMA NextCountInv == TypeInv /\ TypeInv' /\ CountInv /\ [Next]_vars => CountInv'
<1> SUFFICES ASSUME TypeInv, TypeInv', CountInv, [Next]_vars PROVE CountInv'
  OBVIOUS
<1>1. CASE Tick \/ UNCHANGED vars \/ \E p \in Partitions :
               Produce(p) \/ ProduceDuplicate(p) \/ ProduceUndecodable(p)
  BY <1>1, ProducersExtendLog, ExtendCount DEF TypeInv, TypeOK
<1> QED
  BY <1>1, RebalanceCount, ProcessCount, TakeCount, FlushCount DEF Next

\* However often an event was produced, redelivered after a crash or a failed seek,
\* or flushed by an owner and a zombie, its row counts it, and its user, at most once
\* (seen_ids, window.rs:109; the upsert of flush_windows, db.rs:60).
THEOREM NeverOverCounts == Spec => []NoOverCount
<1>1. Spec => []TypeInv
  BY InitTypeInv, NextTypeInv, PTL DEF Spec
<1>2. Spec => []CountInv
  BY <1>1, InitCountInv, NextCountInv, PTL DEF Spec
<1>3. CountInv => NoOverCount
  BY DEF CountInv
<1> QED BY <1>2, <1>3, PTL

-----------------------------------------------------------------------------
(***************************************************************************)
(* One owner: for each partition the inductive invariant OwnerInv orders   *)
(* the progress row, the batch in flight and the state in memory.          *)
(***************************************************************************)
\* An instance loses its partitions only when it dies, and with them its memory; the
\* progress row can be read.  Without this a zombie's batch may commit late.
OneOwner == Faults \cap {"session", "revoke", "load"} = {}

-----------------------------------------------------------------------------
(***************************************************************************)
(* The inductive invariant.                                                *)
(***************************************************************************)
\* Only the owner holds a partition, and a batch only beside its state.
Exclusive ==
    \A i \in Instances :
        /\ \A p \in DOMAIN position[i] : p \in DOMAIN owner /\ owner[p] = i
        /\ DOMAIN inflight[i] \subseteq DOMAIN states[i]
        /\ DOMAIN pending[i] \cap DOMAIN states[i] = {}

\* The progress that a callback has read is still the progress row.
PendingFresh ==
    \A i \in Instances : \A p \in DOMAIN pending[i] \cap DOMAIN partition_progress :
        /\ pending[i][p].committed_offset = partition_progress[p].committed_offset
        /\ pending[i][p].flushed_watermark = partition_progress[p].flushed_watermark

\* State s has flushed at least what the progress says and needs nothing below it.
Ahead(s, progress) ==
    /\ s.flushed_watermark >= progress.flushed_watermark
    /\ \A w \in DOMAIN s.open_windows :
          s.open_windows[w].min_offset >= progress.committed_offset

OpenPast(s) == \A w \in DOMAIN s.open_windows : window_end(w) > s.flushed_watermark

StatesAhead ==
    \A i \in Instances : \A p \in DOMAIN states[i] :
        /\ OpenPast(states[i][p])
        /\ p \in DOMAIN partition_progress => Ahead(states[i][p], partition_progress[p])
        /\ p \in DOMAIN inflight[i] => Ahead(states[i][p], inflight[i][p])

\* A batch neither takes the progress row back nor holds a window that it closed.
BatchAhead(batch, progress) ==
    /\ batch.committed_offset >= progress.committed_offset
    /\ batch.flushed_watermark >= progress.flushed_watermark
    /\ \A w \in DOMAIN batch.closed : window_end(w) > progress.flushed_watermark

BatchesAhead ==
    \A i \in Instances : \A p \in DOMAIN inflight[i] \cap DOMAIN partition_progress :
        BatchAhead(inflight[i][p], partition_progress[p])

OwnerInv == Exclusive /\ PendingFresh /\ StatesAhead /\ BatchesAhead

-----------------------------------------------------------------------------
(***************************************************************************)
(* The operations of PartitionState.                                       *)
(***************************************************************************)

\* With an open window, committed_offset is the min_offset of one.
LEMMA CommittedOffsetAttained ==
    ASSUME NEW s, IsPartitionState(s), DOMAIN s.open_windows # {}
    PROVE  \E w \in DOMAIN s.open_windows : committed_offset(s) = s.open_windows[w].min_offset
<1> DEFINE offsets == {s.open_windows[w].min_offset : w \in DOMAIN s.open_windows}
<1>1. offsets \subseteq Nat /\ offsets # {}
  BY DEF IsPartitionState, AreWindows, IsWindow
<1>2. Min(offsets) \in offsets
  <2> HIDE DEF offsets
  <2> QED BY <1>1, MinOffset
<1>3. committed_offset(s) = Min(offsets)
  BY DEF committed_offset
<1> QED BY <1>2, <1>3

\* A message that is not late for s is not below a gapless progress that s is ahead
\* of: a replay from an earlier offset opens no window below it.
LEMMA ProcessAhead ==
    ASSUME NEW s, IsPartitionState(s), NEW p \in Partitions, KafkaTypeOK,
           NEW pos \in Nat, pos < Len(log[p]),
           log[p][pos + 1] \in EventType, log[p][pos + 1] # Undecodable,
           NEW progress, IsProgress(progress), Ahead(s, progress),
           Gapless(p, progress.committed_offset, progress.flushed_watermark)
    PROVE  Ahead(process_event(s, log[p][pos + 1], pos), progress)
<1> DEFINE event == log[p][pos + 1]
           start == window_start(event.ts)
           windows == s.open_windows
           folded == FoldWindow(WindowFor(windows, start, pos), event, pos)
           t == process_event(s, event, pos)
<1>1. /\ s.flushed_watermark \in Int
      /\ progress.flushed_watermark \in Int /\ progress.committed_offset \in Nat
      /\ window_end(start) \in Int
      /\ \A w \in DOMAIN windows : windows[w].min_offset \in Nat
  BY WindowInstants DEF IsPartitionState, IsProgress, EventType, AreWindows, IsWindow
<1>2. /\ t.flushed_watermark = s.flushed_watermark
      /\ \/ t.open_windows = windows
         \/ /\ ~ (window_end(start) <= s.flushed_watermark)
            /\ t.open_windows = Put(windows, start, folded)
  BY DEF process_event, IsLate
<1>3. \/ folded.min_offset = pos
      \/ start \in DOMAIN windows /\ folded.min_offset = windows[start].min_offset
  BY DEF FoldWindow, WindowFor, NewWindow
<1>4. ASSUME ~ (window_end(start) <= s.flushed_watermark)
      PROVE  pos >= progress.committed_offset
  <2>1. SUFFICES ASSUME pos < progress.committed_offset PROVE FALSE
    BY <1>1
  <2>2. pos \in 0..(progress.committed_offset - 1)
    BY <1>1, <2>1
  <2>3. ~ Unflushed(p, pos, progress.flushed_watermark)
    BY <2>2 DEF Gapless
  <2>4. window_end(start) <= progress.flushed_watermark
    BY <1>1, <2>3 DEF Unflushed
  <2> QED BY <1>1, <1>4, <2>4 DEF Ahead
<1> HIDE DEF t, folded, windows, start, event
<1>5. \A w \in DOMAIN t.open_windows : t.open_windows[w].min_offset >= progress.committed_offset
  BY <1>1, <1>2, <1>3, <1>4 DEF Put, Ahead, windows
<1> QED BY <1>2, <1>5 DEF Ahead, t, event

\* Only a window past the flushed watermark is opened.
LEMMA ProcessOpenPast ==
    ASSUME NEW s, IsPartitionState(s), NEW event \in EventType, NEW offset, OpenPast(s)
    PROVE  OpenPast(process_event(s, event, offset))
<1> DEFINE start == window_start(event.ts)
           folded == FoldWindow(WindowFor(s.open_windows, start, offset), event, offset)
           t == process_event(s, event, offset)
<1>1. s.flushed_watermark \in Int /\ window_end(start) \in Int
  BY WindowInstants DEF IsPartitionState, EventType
<1>2. /\ t.flushed_watermark = s.flushed_watermark
      /\ \/ t.open_windows = s.open_windows
         \/ /\ ~ (window_end(start) <= s.flushed_watermark)
            /\ t.open_windows = Put(s.open_windows, start, folded)
  BY DEF process_event, IsLate
<1> HIDE DEF t, folded, start
<1> QED BY <1>1, <1>2 DEF Put, OpenPast, t

\* Taking the closed windows: what stays is past the new watermark and needs nothing
\* below the batch; the batch does not take the progress back.
LEMMA TakeAhead ==
    ASSUME NEW s, IsPartitionState(s), OpenPast(s)
    PROVE  LET t == take_closed_windows(s)
           IN  /\ OpenPast(t)
               /\ Ahead(t, Batch(s))
               /\ \A progress : IsProgress(progress) /\ Ahead(s, progress) => Ahead(t, progress)
<1> DEFINE t == take_closed_windows(s)
<1>1. /\ IsPartitionState(t)
      /\ t.flushed_watermark >= s.flushed_watermark
      /\ DOMAIN t.open_windows \subseteq DOMAIN s.open_windows
      /\ \A w \in DOMAIN t.open_windows : t.open_windows[w] = s.open_windows[w]
  BY TakeFacts
<1>2. /\ \A w \in DOMAIN t.open_windows : ~ (window_end(w) <= watermark(s))
      /\ t.flushed_watermark \in {watermark(s), s.flushed_watermark}
  BY DEF take_closed_windows, Restrict, IsClosed, IsPartitionState
<1>3. /\ s.flushed_watermark \in Int /\ t.flushed_watermark \in Int /\ watermark(s) \in Int
      /\ \A w \in DOMAIN s.open_windows : window_end(w) \in Int
  BY <1>1, LatenessAssumption, WindowSizeAssumption
     DEF IsPartitionState, watermark, window_end, AreWindows
<1>4. /\ Batch(s).committed_offset = committed_offset(t)
      /\ Batch(s).flushed_watermark = t.flushed_watermark
  BY DEF Batch
<1>5. committed_offset(t) \in Nat
      /\ \A w \in DOMAIN t.open_windows : committed_offset(t) <= t.open_windows[w].min_offset
  BY <1>1, CommittedOffsetFacts
<1>6. \A w \in DOMAIN t.open_windows : t.open_windows[w].min_offset \in Nat
  BY <1>1 DEF IsPartitionState, AreWindows, IsWindow
<1> HIDE DEF t
<1>7. OpenPast(t)
  BY <1>1, <1>2, <1>3 DEF OpenPast
<1>8. Ahead(t, Batch(s))
  BY <1>3, <1>4, <1>5, <1>6 DEF Ahead
<1>9. \A progress : IsProgress(progress) /\ Ahead(s, progress) => Ahead(t, progress)
  BY <1>1, <1>3 DEF Ahead, IsProgress
<1> QED BY <1>7, <1>8, <1>9 DEF t

\* A batch with a closed window is ahead of the progress that its state is ahead of.
LEMMA BatchIsAhead ==
    ASSUME NEW s, IsPartitionState(s), OpenPast(s), NEW p, NEW pos, StateSound(s, p, pos),
           DOMAIN closed_windows(s) # {}, NEW progress, IsProgress(progress), Ahead(s, progress)
    PROVE  BatchAhead(Batch(s), progress)
<1> DEFINE t == take_closed_windows(s)
           low == progress.committed_offset
<1>1. /\ IsPartitionState(t)
      /\ t.next_offset = s.next_offset
      /\ t.flushed_watermark >= s.flushed_watermark
      /\ DOMAIN t.open_windows \subseteq DOMAIN s.open_windows
      /\ \A w \in DOMAIN t.open_windows : t.open_windows[w] = s.open_windows[w]
  BY TakeFacts
<1>2. /\ Batch(s).closed = closed_windows(s)
      /\ Batch(s).committed_offset = committed_offset(t)
      /\ Batch(s).flushed_watermark = t.flushed_watermark
  BY DEF Batch
<1>3. DOMAIN closed_windows(s) \subseteq DOMAIN s.open_windows
  BY DEF closed_windows, Restrict
<1>4. /\ low \in Nat /\ progress.flushed_watermark \in Int
      /\ s.flushed_watermark \in Int /\ t.flushed_watermark \in Int /\ s.next_offset \in Nat
      /\ \A w \in DOMAIN s.open_windows :
            window_end(w) \in Int /\ s.open_windows[w].min_offset \in Nat
  BY <1>1, WindowSizeAssumption DEF IsPartitionState, IsProgress, window_end, AreWindows, IsWindow
<1>5. low <= s.next_offset
  BY <1>3, <1>4 DEF StateSound, Ahead
<1>6. committed_offset(t) >= low
  <2>1. CASE DOMAIN t.open_windows = {}
    BY <1>1, <1>4, <1>5, <2>1, CommittedOffsetFacts
  <2>2. CASE DOMAIN t.open_windows # {}
    <3>1. PICK w \in DOMAIN t.open_windows : committed_offset(t) = t.open_windows[w].min_offset
      BY <1>1, <2>2, CommittedOffsetAttained
    <3> QED BY <1>1, <1>4, <3>1 DEF Ahead
  <2> QED BY <2>1, <2>2
<1>7. t.flushed_watermark >= progress.flushed_watermark
  BY <1>1, <1>4 DEF Ahead
<1>8. \A w \in DOMAIN closed_windows(s) : window_end(w) > progress.flushed_watermark
  BY <1>3, <1>4 DEF Ahead, OpenPast
<1> QED BY <1>2, <1>6, <1>7, <1>8 DEF BatchAhead

-----------------------------------------------------------------------------
(***************************************************************************)
(* The actions.                                                            *)
(***************************************************************************)
\* Initially nobody owns anything.
LEMMA InitOwnerInv == Init => OwnerInv
BY DEF Init, OwnerInv, Exclusive, PendingFresh, StatesAhead, BatchesAhead

\* A step that leaves the maps alone.
LEMMA SameOwner ==
    ASSUME OwnerInv,
           UNCHANGED <<owner, position, pending, states, inflight, partition_progress>>
    PROVE  OwnerInv'
BY DEF OwnerInv, Exclusive, PendingFresh, StatesAhead, BatchesAhead

\* An assignment: nobody else holds the partition, and the progress is read.
LEMMA AssignOwner ==
    ASSUME TypeInv, OwnerInv, NEW i \in Instances, NEW p \in Partitions, AssignLoaded(i, p)
    PROVE  OwnerInv'
<1> USE DEF TypeInv, TypeOK
<1>1. /\ p \notin DOMAIN owner /\ p \notin DOMAIN position[i]
      /\ owner' = Put(owner, p, i)
      /\ position' = [position EXCEPT ![i] = Put(@, p, 0)]
      /\ pending' = [pending EXCEPT ![i] = Put(@, p, LoadedProgress(p))]
      /\ UNCHANGED <<states, inflight, partition_progress>>
  BY DEF AssignLoaded, Assign
<1>2. Exclusive'
  BY <1>1 DEF Put, InstanceTypeOK, DomainsOK, OwnerInv, Exclusive
<1>3. PendingFresh'
  BY <1>1 DEF Put, LoadedProgress, InstanceTypeOK, OwnerInv, PendingFresh
<1>4. StatesAhead' /\ BatchesAhead'
  BY <1>1 DEF OwnerInv, StatesAhead, BatchesAhead
<1> QED BY <1>2, <1>3, <1>4 DEF OwnerInv

\* The state that post_rebalance installs has flushed what the progress row says.
LEMMA InstallOwner ==
    ASSUME TypeInv, OwnerInv, NEW i \in Instances, NEW p \in Partitions,
           InstallState(i, p) \/ InstallStateSeekFailed(i, p)
    PROVE  OwnerInv'
<1> USE DEF TypeInv, TypeOK
<1> DEFINE s == resume_from(pending[i][p].committed_offset, pending[i][p].flushed_watermark)
<1>1. /\ p \in DOMAIN pending[i] /\ p \in DOMAIN position[i]
      /\ p \notin DOMAIN states[i] /\ p \notin DOMAIN inflight[i]
      /\ pending[i][p].flushed_watermark \in Int
  BY DEF InstallState, InstallStateSeekFailed, InstanceTypeOK, IsPartitionMap, IsProgress,
         DomainsOK, OwnerInv, Exclusive
<1>2. PICK offset : /\ position' = [position EXCEPT ![i] = Put(@, p, offset)]
                    /\ states' = [states EXCEPT ![i] = Put(@, p, s)]
                    /\ pending' = [pending EXCEPT ![i] = Drop(@, p)]
                    /\ UNCHANGED <<owner, inflight, partition_progress>>
  BY DEF InstallState, InstallStateSeekFailed, Install
<1>3. /\ OpenPast(s)
      /\ p \in DOMAIN partition_progress => Ahead(s, partition_progress[p])
  BY <1>1 DEF OpenPast, Ahead, resume_from, OwnerInv, PendingFresh
<1> HIDE DEF s
<1>4. Exclusive'
  BY <1>1, <1>2 DEF Put, Drop, Restrict, InstanceTypeOK, DomainsOK, OwnerInv, Exclusive
<1>5. PendingFresh'
  BY <1>1, <1>2 DEF Drop, Restrict, InstanceTypeOK, OwnerInv, PendingFresh
<1>6. StatesAhead'
  BY <1>1, <1>2, <1>3 DEF Put, InstanceTypeOK, OwnerInv, StatesAhead
<1>7. BatchesAhead'
  BY <1>2 DEF OwnerInv, BatchesAhead
<1> QED BY <1>4, <1>5, <1>6, <1>7 DEF OwnerInv

\* A crash frees the instance's partitions, and its batches are gone with it.
LEMMA CrashOwner ==
    ASSUME TypeInv, OwnerInv, NEW i \in Instances, Crash(i)
    PROVE  OwnerInv'
<1> USE DEF TypeInv, TypeOK
<1>1. Exclusive'
  BY DEF Crash, Restrict, InstanceTypeOK, OwnerInv, Exclusive
<1>2. PendingFresh'
  BY DEF Crash, InstanceTypeOK, OwnerInv, PendingFresh
<1>3. StatesAhead' /\ BatchesAhead'
  BY DEF Crash, InstanceTypeOK, OwnerInv, StatesAhead, BatchesAhead
<1> QED BY <1>1, <1>2, <1>3 DEF OwnerInv

\* Handling a message, and an idle tick, keep the state ahead.
LEMMA MessageOwner ==
    ASSUME TypeInv, ResumeInv, OwnerInv, NEW i \in Instances, NEW p \in Partitions,
           ProcessMessage(i, p) \/ IdleTick(i, p)
    PROVE  OwnerInv'
<1> USE DEF TypeInv, TypeOK
<1> DEFINE s == states[i][p]
           pos == position[i][p]
<1>1. /\ p \in DOMAIN states[i] /\ p \in DOMAIN position[i] /\ IsPartitionState(s)
      /\ OpenPast(s)
      /\ p \in DOMAIN partition_progress => Ahead(s, partition_progress[p])
      /\ p \in DOMAIN inflight[i] => Ahead(s, inflight[i][p])
      /\ UNCHANGED <<owner, pending, inflight, partition_progress>>
  BY DEF ProcessMessage, Fetched, Idle, IdleTick, InstanceTypeOK, DomainsOK, IsPartitionMap,
         OwnerInv, StatesAhead
<1>2. /\ p \in DOMAIN partition_progress =>
            /\ IsProgress(partition_progress[p])
            /\ Gapless(p, partition_progress[p].committed_offset,
                          partition_progress[p].flushed_watermark)
      /\ p \in DOMAIN inflight[i] =>
            /\ IsProgress(inflight[i][p])
            /\ Gapless(p, inflight[i][p].committed_offset, inflight[i][p].flushed_watermark)
  BY DEF DbTypeOK, InstanceTypeOK, IsPartitionMap, IsBatch, ResumeInv, ResumeSafe, InflightSound
<1>3. PICK t : /\ states' = [states EXCEPT ![i] = Put(@, p, t)]
               /\ OpenPast(t)
               /\ p \in DOMAIN partition_progress => Ahead(t, partition_progress[p])
               /\ p \in DOMAIN inflight[i] => Ahead(t, inflight[i][p])
  <2>1. CASE ProcessMessage(i, p)
    <3> DEFINE t == process_event(s, log[p][pos + 1], pos)
    <3>1. pos \in Nat /\ pos < Len(log[p]) /\ pos + 1 \in 1..Len(log[p])
      BY <2>1 DEF ProcessMessage, Fetched, InstanceTypeOK, IsPartitionMap, KafkaTypeOK
    <3>2. log[p][pos + 1] # Undecodable /\ log[p][pos + 1] \in EventType
      BY <2>1, <3>1, MessageType DEF ProcessMessage
    <3>3. states' = [states EXCEPT ![i] = Put(@, p, t)]
      BY <1>1, <2>1 DEF ProcessMessage, StateFor
    <3>4. OpenPast(t)
      BY <1>1, <3>2, ProcessOpenPast
    <3>5. p \in DOMAIN partition_progress => Ahead(t, partition_progress[p])
      BY <1>1, <1>2, <3>1, <3>2, ProcessAhead
    <3>6. p \in DOMAIN inflight[i] => Ahead(t, inflight[i][p])
      BY <1>1, <1>2, <3>1, <3>2, ProcessAhead
    <3> QED BY <3>3, <3>4, <3>5, <3>6
  <2>2. CASE IdleTick(i, p)
    <3> DEFINE t == tick_idle(s, now)
    <3>1. t.open_windows = s.open_windows /\ t.flushed_watermark = s.flushed_watermark
      BY <1>1, TickIdleFacts DEF KafkaTypeOK
    <3>2. states' = [states EXCEPT ![i][p] = t]
      BY <2>2 DEF IdleTick
    <3> HIDE DEF t
    <3>3. [states[i] EXCEPT ![p] = t] = Put(states[i], p, t)
      BY <1>1 DEF Put
    <3>4. states' = [states EXCEPT ![i] = Put(@, p, t)]
      BY <3>2, <3>3
    <3> QED BY <1>1, <3>1, <3>4 DEF OpenPast, Ahead
  <2> QED BY <2>1, <2>2
<1>4. \A j \in Instances : DOMAIN position'[j] = DOMAIN position[j]
  BY <1>1 DEF ProcessMessage, Fetched, IdleTick, InstanceTypeOK
<1>5. \A j \in Instances : DOMAIN states'[j] = DOMAIN states[j]
  BY <1>1, <1>3 DEF Put, InstanceTypeOK
<1>6. Exclusive'
  BY <1>1, <1>4, <1>5 DEF OwnerInv, Exclusive
<1>7. StatesAhead'
  BY <1>1, <1>3 DEF Put, InstanceTypeOK, OwnerInv, StatesAhead
<1>8. PendingFresh' /\ BatchesAhead'
  BY <1>1 DEF OwnerInv, PendingFresh, BatchesAhead
<1> QED BY <1>6, <1>7, <1>8 DEF OwnerInv

\* A message that is skipped moves the position only.
LEMMA SkipOwner ==
    ASSUME TypeInv, OwnerInv, NEW i \in Instances, NEW p \in Partitions, SkipUndecodable(i, p)
    PROVE  OwnerInv'
<1>1. \A j \in Instances : DOMAIN position'[j] = DOMAIN position[j]
  BY DEF SkipUndecodable, Fetched, TypeInv, TypeOK, InstanceTypeOK
<1>2. UNCHANGED <<owner, pending, states, inflight, partition_progress>>
  BY DEF SkipUndecodable
<1> QED
  BY <1>1, <1>2 DEF OwnerInv, Exclusive, PendingFresh, StatesAhead, BatchesAhead

\* A flush round starts with no batch in flight: its batches are between the
\* progress rows and the states.
LEMMA TakeOwner ==
    ASSUME TypeInv, ResumeInv, OwnerInv, NEW i \in Instances, TakeBatches(i)
    PROVE  OwnerInv'
<1> USE DEF TypeInv, TypeOK
<1>1. ASSUME NEW p \in DOMAIN states[i]
      PROVE  LET t == take_closed_windows(states[i][p])
             IN  /\ OpenPast(t)
                 /\ Ahead(t, Batch(states[i][p]))
                 /\ p \in DOMAIN partition_progress => Ahead(t, partition_progress[p])
                 /\ p \in DOMAIN partition_progress /\ DOMAIN closed_windows(states[i][p]) # {}
                      => BatchAhead(Batch(states[i][p]), partition_progress[p])
  <2> DEFINE s == states[i][p]
  <2>1. /\ IsPartitionState(s) /\ OpenPast(s) /\ StateSound(s, p, position[i][p])
        /\ p \in DOMAIN partition_progress =>
              IsProgress(partition_progress[p]) /\ Ahead(s, partition_progress[p])
    BY <1>1 DEF InstanceTypeOK, DbTypeOK, IsPartitionMap, OwnerInv, StatesAhead, ResumeInv,
                StatesSound
  <2> QED BY <2>1, TakeAhead, BatchIsAhead
<1>2. /\ states' = [states EXCEPT ![i] = [p \in DOMAIN @ |-> take_closed_windows(@[p])]]
      /\ inflight' = [inflight EXCEPT ![i] =
             [p \in {p \in DOMAIN states[i] : DOMAIN closed_windows(states[i][p]) # {}} |->
                 Batch(states[i][p])]]
      /\ UNCHANGED <<owner, position, pending, partition_progress>>
  BY DEF TakeBatches
<1>3. Exclusive'
  BY <1>2 DEF InstanceTypeOK, OwnerInv, Exclusive
<1>4. StatesAhead'
  BY <1>1, <1>2 DEF InstanceTypeOK, OwnerInv, StatesAhead
<1>5. BatchesAhead'
  BY <1>1, <1>2 DEF InstanceTypeOK, OwnerInv, BatchesAhead
<1>6. PendingFresh'
  BY <1>2 DEF OwnerInv, PendingFresh
<1> QED BY <1>3, <1>4, <1>5, <1>6 DEF OwnerInv

\* A commit makes the batch the progress row, which the owner's state is ahead of;
\* nobody else holds the partition.
LEMMA FlushOwner ==
    ASSUME TypeInv, OwnerInv, NEW i \in Instances, NEW p \in Partitions,
           FlushCommit(i, p) \/ FlushError(i, p)
    PROVE  OwnerInv'
<1> USE DEF TypeInv, TypeOK
<1>1. /\ UNCHANGED <<owner, position, pending, states>>
      /\ inflight' = [inflight EXCEPT ![i] = Drop(@, p)]
      /\ p \in DOMAIN inflight[i] /\ p \in DOMAIN states[i]
      /\ Ahead(states[i][p], inflight[i][p])
  BY DEF FlushCommit, FlushError, OwnerInv, Exclusive, StatesAhead
<1>2. \A j \in Instances :
          p \in DOMAIN position[j] \cup DOMAIN pending[j] \cup DOMAIN states[j]
              \cup DOMAIN inflight[j] => j = i
  BY <1>1 DEF DomainsOK, OwnerInv, Exclusive
<1>3. p \notin DOMAIN pending[i]
  BY <1>1 DEF OwnerInv, Exclusive
<1>4. Exclusive'
  BY <1>1 DEF Drop, Restrict, InstanceTypeOK, OwnerInv, Exclusive
<1>5. CASE FlushCommit(i, p)
  <2>1. partition_progress' =
            Put(partition_progress, p, [committed_offset  |-> inflight[i][p].committed_offset,
                                        flushed_watermark |-> inflight[i][p].flushed_watermark])
    BY <1>5 DEF FlushCommit, flush_windows
  <2>2. PendingFresh'
    BY <1>1, <1>2, <1>3, <2>1 DEF Put, OwnerInv, PendingFresh
  <2>3. StatesAhead'
    BY <1>1, <1>2, <2>1 DEF Put, Drop, Restrict, InstanceTypeOK, OwnerInv, StatesAhead, Ahead
  <2>4. BatchesAhead'
    BY <1>1, <1>2, <2>1 DEF Put, Drop, Restrict, InstanceTypeOK, OwnerInv, BatchesAhead
  <2> QED BY <1>4, <2>2, <2>3, <2>4 DEF OwnerInv
<1>6. CASE FlushError(i, p)
  <2>1. partition_progress' = partition_progress
    BY <1>6 DEF FlushError
  <2>2. PendingFresh'
    BY <1>1, <2>1 DEF OwnerInv, PendingFresh
  <2>3. StatesAhead' /\ BatchesAhead'
    BY <1>1, <2>1 DEF Drop, Restrict, InstanceTypeOK, OwnerInv, StatesAhead, BatchesAhead
  <2> QED BY <1>4, <2>2, <2>3 DEF OwnerInv
<1> QED BY <1>5, <1>6

\* With one owner, OwnerInv is inductive relative to TypeInv and ResumeInv.
LEMMA NextOwnerInv ==
    ASSUME OneOwner
    PROVE  TypeInv /\ ResumeInv /\ OwnerInv /\ [Next]_vars => OwnerInv'
<1> SUFFICES ASSUME TypeInv, ResumeInv, OwnerInv, [Next]_vars PROVE OwnerInv'
  OBVIOUS
<1>1. CASE Tick \/ UNCHANGED vars \/ \E p \in Partitions :
               Produce(p) \/ ProduceDuplicate(p) \/ ProduceUndecodable(p)
  BY <1>1, SameOwner
     DEF Tick, vars, Produce, ProduceDuplicate, ProduceUndecodable, AppendMessage
<1>2. ASSUME NEW i \in Instances, NEW p \in Partitions
      PROVE  ~ AssignLoadError(i, p) /\ ~ Revoke(i, p)
  BY DEF OneOwner, AssignLoadError, Revoke, Spend
<1>3. ASSUME NEW i \in Instances PROVE ~ SessionTimeout(i)
  BY DEF OneOwner, SessionTimeout, Spend
<1> QED
  BY <1>1, <1>2, <1>3, AssignOwner, InstallOwner, CrashOwner, MessageOwner, SkipOwner,
     TakeOwner, FlushOwner DEF Next

-----------------------------------------------------------------------------
(***************************************************************************)
(* The theorems.                                                           *)
(***************************************************************************)
\* The tables change in a commit only.
LEMMA OnlyCommitsWrite ==
    ASSUME [Next]_vars
    PROVE  \/ UNCHANGED <<agg_cells, partition_progress>>
           \/ \E i \in Instances, p \in Partitions : FlushCommit(i, p)
<1>1. CASE Tick \/ UNCHANGED vars \/ \E p \in Partitions :
               Produce(p) \/ ProduceDuplicate(p) \/ ProduceUndecodable(p)
  BY <1>1 DEF vars, Tick, Produce, ProduceDuplicate, ProduceUndecodable, AppendMessage
<1>2. ASSUME NEW i \in Instances, SessionTimeout(i) \/ Crash(i) \/ TakeBatches(i)
      PROVE  UNCHANGED <<agg_cells, partition_progress>>
  BY <1>2 DEF SessionTimeout, Crash, TakeBatches
<1>3. ASSUME NEW i \in Instances, NEW p \in Partitions,
             \/ AssignLoaded(i, p) \/ AssignLoadError(i, p)
             \/ InstallState(i, p) \/ InstallStateSeekFailed(i, p)
             \/ Revoke(i, p) \/ ProcessMessage(i, p) \/ SkipUndecodable(i, p)
             \/ IdleTick(i, p) \/ FlushError(i, p)
      PROVE  UNCHANGED <<agg_cells, partition_progress>>
  BY <1>3 DEF AssignLoaded, AssignLoadError, Assign, InstallState, InstallStateSeekFailed,
              Install, Revoke, ProcessMessage, SkipUndecodable, IdleTick, FlushError
<1> QED BY <1>1, <1>2, <1>3 DEF Next

\* The batch that a step commits, if any, is ahead of the progress row.
LEMMA CommitIsAhead ==
    ASSUME OwnerInv, NEW i \in Instances, NEW p \in DOMAIN partition_progress, FlushCommit(i, p)
    PROVE  BatchAhead(inflight[i][p], partition_progress[p])
BY DEF FlushCommit, OwnerInv, BatchesAhead

\* With one owner at a time neither the resume offset nor the watermark of a
\* partition ever goes back, through crashes, failed flushes and failed seeks
\* (flush_windows, db.rs:37, overwrites the progress row unconditionally).
THEOREM ProgressNeverGoesBack ==
    ASSUME OneOwner
    PROVE  Spec => ProgressMonotone
<1>1. Spec => [](TypeInv /\ ResumeInv)
  BY InitTypeInv, NextTypeInv, InitResumeInv, NextResumeInv, PTL DEF Spec
<1>2. Spec => []OwnerInv
  BY <1>1, InitOwnerInv, NextOwnerInv, PTL DEF Spec
<1> DEFINE Monotone ==
             \A p \in DOMAIN partition_progress :
                 /\ partition_progress'[p].committed_offset >= partition_progress[p].committed_offset
                 /\ partition_progress'[p].flushed_watermark
                       >= partition_progress[p].flushed_watermark
<1>3. TypeInv /\ OwnerInv /\ [Next]_vars => [Monotone]_vars
  <2> SUFFICES ASSUME TypeInv, OwnerInv, [Next]_vars, NEW p \in DOMAIN partition_progress
               PROVE  /\ partition_progress'[p].committed_offset
                            >= partition_progress[p].committed_offset
                      /\ partition_progress'[p].flushed_watermark
                            >= partition_progress[p].flushed_watermark
    OBVIOUS
  <2>1. IsProgress(partition_progress[p])
    BY DEF TypeInv, TypeOK, DbTypeOK, IsPartitionMap
  <2>2. CASE partition_progress' = partition_progress
    BY <2>1, <2>2 DEF IsProgress
  <2>3. ASSUME NEW i \in Instances, NEW q \in Partitions, FlushCommit(i, q)
        PROVE  /\ partition_progress'[p].committed_offset
                     >= partition_progress[p].committed_offset
               /\ partition_progress'[p].flushed_watermark
                     >= partition_progress[p].flushed_watermark
    <3>1. partition_progress' =
              Put(partition_progress, q, [committed_offset  |-> inflight[i][q].committed_offset,
                                          flushed_watermark |-> inflight[i][q].flushed_watermark])
      BY <2>3 DEF FlushCommit, flush_windows
    <3>2. CASE p = q
      BY <2>3, <3>1, <3>2, CommitIsAhead DEF Put, BatchAhead
    <3>3. CASE p # q
      BY <2>1, <3>1, <3>3 DEF Put, IsProgress
    <3> QED BY <3>2, <3>3
  <2> QED BY <2>2, <2>3, OnlyCommitsWrite
<1> QED BY <1>1, <1>2, <1>3, PTL DEF Spec, ProgressMonotone

\* With one owner at a time a row of a window that the progress row calls flushed
\* never changes, however late its events come: the query API may cache it for good.
THEOREM FlushedRowsStay ==
    ASSUME OneOwner
    PROVE  Spec => RowsStable
<1>1. Spec => [](TypeInv /\ ResumeInv)
  BY InitTypeInv, NextTypeInv, InitResumeInv, NextResumeInv, PTL DEF Spec
<1>2. Spec => []OwnerInv
  BY <1>1, InitOwnerInv, NextOwnerInv, PTL DEF Spec
<1> DEFINE Stable ==
             \A key \in DOMAIN agg_cells :
                 (/\ key[3] \in DOMAIN partition_progress
                  /\ window_end(key[1]) <= partition_progress[key[3]].flushed_watermark)
                    => agg_cells'[key] = agg_cells[key]
<1>3. TypeInv /\ OwnerInv /\ [Next]_vars => [Stable]_vars
  <2> SUFFICES ASSUME TypeInv, OwnerInv, [Next]_vars, NEW key \in DOMAIN agg_cells,
                      key[3] \in DOMAIN partition_progress,
                      window_end(key[1]) <= partition_progress[key[3]].flushed_watermark
               PROVE  agg_cells'[key] = agg_cells[key]
    OBVIOUS
  <2>1. ASSUME NEW i \in Instances, NEW p \in Partitions, FlushCommit(i, p)
        PROVE  agg_cells'[key] = agg_cells[key]
    <3> DEFINE rows == CellRows(p, inflight[i][p].closed)
    <3>1. agg_cells' = Override(agg_cells, rows)
      BY <2>1 DEF FlushCommit, flush_windows
    <3>2. key \notin DOMAIN rows
      <4>1. SUFFICES ASSUME key \in DOMAIN rows PROVE FALSE
        OBVIOUS
      <4>2. PICK w \in DOMAIN inflight[i][p].closed :
                \E c \in DOMAIN inflight[i][p].closed[w].cells : key = <<w, c, p>>
        BY <4>1 DEF CellRows
      <4>3. key[1] = w /\ key[3] = p
        BY <4>2
      <4>4. window_end(w) > partition_progress[p].flushed_watermark
        BY <2>1, <4>3, CommitIsAhead DEF BatchAhead
      <4>5. window_end(w) \in Int /\ partition_progress[p].flushed_watermark \in Int
        BY <2>1, <4>3, WindowSizeAssumption
           DEF TypeInv, TypeOK, InstanceTypeOK, DbTypeOK, IsPartitionMap, IsBatch, IsProgress,
               AreWindows, FlushCommit, window_end
      <4> QED BY <4>3, <4>4, <4>5
    <3> HIDE DEF rows
    <3> QED BY <3>1, <3>2 DEF Override
  <2> QED BY <2>1, OnlyCommitsWrite
<1> QED BY <1>1, <1>2, <1>3, PTL DEF Spec, RowsStable

=============================================================================
