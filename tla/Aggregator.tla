----------------------------- MODULE Aggregator -----------------------------
(***************************************************************************)
(* The aggregator service (crates/aggregator): a group of instances        *)
(* consumes the events topic, folds events into windows in memory and      *)
(* writes closed windows to Postgres together with the offset to resume    *)
(* from.                                                                   *)
(*                                                                         *)
(* In every instance three activities share the states map behind one      *)
(* mutex: the consumer task (message loop and rebalance callbacks), the    *)
(* flush loop and the idle loop.  A step is what one of them does between  *)
(* taking and releasing the mutex, or one call to Kafka or to Postgres.    *)
(* Kafka (the log, the group's assignment, the fetch position) and         *)
(* Postgres (two tables, atomic transactions) are modelled from their use. *)
(***************************************************************************)
EXTENDS PartitionState, Sequences

CONSTANTS
    Instances,      \* the aggregator processes of the consumer group
    Partitions,     \* partitions of the events topic
    Users,          \* pseudonyms
    PartitionOf,    \* the partitioner: pseudonym -> partition
    Pages,          \* records [family, wiki, namespace] that events touch
    Undecodable,    \* a message without payload, or one that is not an Event
    ONE_DAY,        \* first watermark of a partition without progress: now - 1 day
    MAX_DELAY,      \* an event is appended at most this long after its timestamp
    MAX_SKEW,       \* ... and at most this long before it (producer clock ahead)
    IdleOnlyWhenDrained, \* TRUE: the idle timeout never expires over a backlog
    Faults,         \* the kinds of fault that happen
    MAX_FAULTS,     \* bound on their number
    MAX_TIME,       \* bound on the clock
    MAX_LOG         \* bound on the length of a partition's log

ASSUME PartitionerAssumption == PartitionOf \in [Users -> Partitions]
ASSUME UsersAssumption == IsFiniteSet(Users)
ASSUME PartitionsAssumption == IsFiniteSet(Partitions)
ASSUME DelayAssumption == MAX_DELAY \in Nat /\ MAX_SKEW \in Nat
ASSUME DayAssumption == ONE_DAY \in Nat
ASSUME IdleAssumption == IdleOnlyWhenDrained \in BOOLEAN
ASSUME BoundAssumption ==
    MAX_FAULTS \in Nat /\ MAX_TIME \in Nat /\ MAX_LOG \in Nat

VARIABLES
    \* Kafka and the clock
    now,        \* Utc::now()
    log,        \* partition -> sequence of messages; offset o is log[p][o + 1]
    owner,      \* the group's assignment: owned partition -> instance
    \* one aggregator instance each
    position,   \* partition the client is assigned -> next offset to fetch
    pending,    \* partition inside post_rebalance -> progress it will resume from
    states,     \* SharedStates: partition -> PartitionState
    inflight,   \* partition -> batch taken by the flush loop, not yet written
    \* Postgres
    agg_cells,          \* <<window, cell, partition>> -> counts
    partition_progress, \* partition -> offset and watermark of the last flush
    \* how many faults may still happen
    budget

kafkaVars == <<now, log, owner>>
instanceVars == <<position, pending, states, inflight>>
dbVars == <<agg_cells, partition_progress>>
vars == <<now, log, owner, position, pending, states, inflight,
          agg_cells, partition_progress, budget>>

\* A fault happens: the kinds are "crash", "session", "revoke", "flush", "load",
\* "seek", "duplicate" and "garbage".
Spend(kind) == /\ kind \in Faults
               /\ budget > 0
               /\ budget' = budget - 1

Init ==
    /\ now = 0
    /\ log = [p \in Partitions |-> << >>]
    /\ owner = << >>
    /\ position = [i \in Instances |-> << >>]
    /\ pending = [i \in Instances |-> << >>]
    /\ states = [i \in Instances |-> << >>]
    /\ inflight = [i \in Instances |-> << >>]
    /\ agg_cells = << >>
    /\ partition_progress = << >>
    /\ budget = MAX_FAULTS

-----------------------------------------------------------------------------
(***************************************************************************)
(* The producers' side of the topic, and the clock.                        *)
(***************************************************************************)
Tick ==
    /\ now < MAX_TIME
    /\ now' = now + 1
    /\ UNCHANGED <<log, owner, instanceVars, dbVars, budget>>

\* An event carries a fresh id and is keyed by its user's pseudonym.
Event(p, user, page, ts) ==
    [event_id |-> Len(log[p]), user |-> user, ts |-> ts,
     family |-> page.family, wiki |-> page.wiki, namespace |-> page.namespace]

AppendMessage(p, message) ==
    /\ Len(log[p]) < MAX_LOG
    /\ log' = [log EXCEPT ![p] = Append(@, message)]
    /\ UNCHANGED <<now, owner, instanceVars, dbVars>>

Produce(p) ==
    /\ \E user \in Users, page \in Pages, ts \in (now - MAX_DELAY)..(now + MAX_SKEW) :
           /\ PartitionOf[user] = p
           /\ AppendMessage(p, Event(p, user, page, ts))
    /\ UNCHANGED budget

\* A producer retries an event that had already been appended.
ProduceDuplicate(p) ==
    /\ Spend("duplicate")
    /\ \E o \in 1..Len(log[p]) : log[p][o] # Undecodable /\ AppendMessage(p, log[p][o])

ProduceUndecodable(p) ==
    /\ Spend("garbage")
    /\ AppendMessage(p, Undecodable)

-----------------------------------------------------------------------------
(***************************************************************************)
(* Rebalance callbacks.  They run inside the poll of the consumer task, so *)
(* an instance handles no message and no other callback while one of its   *)
(* partitions is pending.                                                  *)
(***************************************************************************)
Idle(i) == pending[i] = << >>

\* Variant for mutation: librdkafka's "beginning" sentinel taken for an offset.
NoProgress_Sentinel ==
    [committed_offset |-> -2, flushed_watermark |-> now - ONE_DAY, seek |-> FALSE]

\* What post_rebalance resumes from when there is no row, or it cannot be read.
NoProgress == [committed_offset |-> 0, flushed_watermark |-> now - ONE_DAY, seek |-> FALSE]

LoadedProgress(p) ==
    IF p \in DOMAIN partition_progress
    THEN [committed_offset  |-> partition_progress[p].committed_offset,
          flushed_watermark |-> partition_progress[p].flushed_watermark,
          seek              |-> TRUE]
    ELSE NoProgress

\* The group gives p to i: the client starts at the earliest offset and
\* post_rebalance reads the partition's progress.  Its early return, for a consumer that
\* is not bound yet, is never taken: main binds the consumer before it subscribes.
Assign(i, p, progress) ==
    /\ Idle(i)
    /\ p \notin DOMAIN owner
    /\ p \notin DOMAIN position[i]
    /\ owner' = Put(owner, p, i)
    /\ position' = [position EXCEPT ![i] = Put(@, p, 0)]
    /\ pending' = [pending EXCEPT ![i] = Put(@, p, progress)]
    /\ UNCHANGED <<now, log, states, inflight, dbVars>>

AssignLoaded(i, p) ==
    /\ Assign(i, p, LoadedProgress(p))
    /\ UNCHANGED budget

AssignLoadError(i, p) ==
    /\ Spend("load")
    /\ Assign(i, p, NoProgress)

\* Variant for mutation: no state is installed for a partition without progress.
Install_OnlyAfterSeek(i, p, offset) ==
    /\ p \in DOMAIN pending[i]
    /\ position' = [position EXCEPT ![i] = Put(@, p, offset)]
    /\ states' = [states EXCEPT ![i] =
           IF pending[i][p].seek
           THEN Put(@, p, resume_from(pending[i][p].committed_offset,
                                      pending[i][p].flushed_watermark))
           ELSE @]
    /\ pending' = [pending EXCEPT ![i] = Drop(@, p)]
    /\ UNCHANGED <<kafkaVars, inflight, dbVars>>

\* The rest of post_rebalance: seek, then insert the fresh state.
Install(i, p, offset) ==
    /\ p \in DOMAIN pending[i]
    /\ position' = [position EXCEPT ![i] = Put(@, p, offset)]
    /\ states' = [states EXCEPT ![i] =
           Put(@, p, resume_from(pending[i][p].committed_offset,
                                 pending[i][p].flushed_watermark))]
    /\ pending' = [pending EXCEPT ![i] = Drop(@, p)]
    /\ UNCHANGED <<kafkaVars, inflight, dbVars>>

InstallState(i, p) ==
    /\ p \in DOMAIN pending[i]
    /\ Install(i, p, IF pending[i][p].seek THEN pending[i][p].committed_offset
                                           ELSE position[i][p])
    /\ UNCHANGED budget

\* A failed seek is only logged: the client keeps fetching from where it was.
InstallStateSeekFailed(i, p) ==
    /\ Spend("seek")
    /\ p \in DOMAIN pending[i]
    /\ pending[i][p].seek
    /\ Install(i, p, position[i][p])

\* pre_rebalance drops the state; a batch the flush loop already took stays.
Revoke(i, p) ==
    /\ Spend("revoke")
    /\ Idle(i)
    /\ p \in DOMAIN position[i]
    /\ states' = [states EXCEPT ![i] = Drop(@, p)]
    /\ position' = [position EXCEPT ![i] = Drop(@, p)]
    /\ owner' = IF p \in DOMAIN owner /\ owner[p] = i THEN Drop(owner, p) ELSE owner
    /\ UNCHANGED <<now, log, pending, inflight, dbVars>>

\* The group gives up on i, which does not know yet and goes on working.
SessionTimeout(i) ==
    /\ Spend("session")
    /\ \E p \in DOMAIN owner : owner[p] = i
    /\ owner' = Restrict(owner, {p \in DOMAIN owner : owner[p] # i})
    /\ UNCHANGED <<now, log, instanceVars, dbVars>>

Crash(i) ==
    /\ Spend("crash")
    /\ owner' = Restrict(owner, {p \in DOMAIN owner : owner[p] # i})
    /\ position' = [position EXCEPT ![i] = << >>]
    /\ pending' = [pending EXCEPT ![i] = << >>]
    /\ states' = [states EXCEPT ![i] = << >>]
    /\ inflight' = [inflight EXCEPT ![i] = << >>]
    /\ UNCHANGED <<now, log, dbVars>>

-----------------------------------------------------------------------------
(***************************************************************************)
(* The message loop.                                                       *)
(***************************************************************************)
Fetched(i, p) ==
    /\ Idle(i)
    /\ p \in DOMAIN position[i]
    /\ position[i][p] < Len(log[p])
    /\ position' = [position EXCEPT ![i][p] = @ + 1]

\* states.entry(partition).or_insert_with(...)
StateFor(i, p, event) ==
    IF p \in DOMAIN states[i]
    THEN states[i][p]
    ELSE resume_from(position[i][p], event.ts - ONE_DAY)

ProcessMessage(i, p) ==
    /\ Fetched(i, p)
    /\ LET message == log[p][position[i][p] + 1]
       IN  /\ message # Undecodable
           /\ states' = [states EXCEPT ![i] =
                  Put(@, p, process_event(StateFor(i, p, message), message, position[i][p]))]
    /\ UNCHANGED <<kafkaVars, pending, inflight, dbVars, budget>>

SkipUndecodable(i, p) ==
    /\ Fetched(i, p)
    /\ log[p][position[i][p] + 1] = Undecodable
    /\ UNCHANGED <<kafkaVars, pending, states, inflight, dbVars, budget>>

-----------------------------------------------------------------------------
(***************************************************************************)
(* The idle loop and the flush loop.                                       *)
(***************************************************************************)
\* The code measures the wall-clock time since an event was last DELIVERED.  The
\* timeout (10 s) is a third of the allowed lateness, the finest unit of the clock.
IdleTimeoutMayExpire(i, p) ==
    IdleOnlyWhenDrained =>
        p \in DOMAIN position[i] /\ position[i][p] = Len(log[p])

IdleTick(i, p) ==
    /\ p \in DOMAIN states[i]
    /\ IdleTimeoutMayExpire(i, p)
    /\ states' = [states EXCEPT ![i][p] = tick_idle(@, now)]
    /\ UNCHANGED <<kafkaVars, position, pending, inflight, dbVars, budget>>

Batch(s) ==
    [closed            |-> closed_windows(s),
     committed_offset  |-> committed_offset(take_closed_windows(s)),
     flushed_watermark |-> take_closed_windows(s).flushed_watermark]

\* One round of the flush loop begins: under the mutex, every partition's closed
\* windows are taken; a partition with none contributes no batch.
TakeBatches(i) ==
    /\ inflight[i] = << >>
    /\ inflight' = [inflight EXCEPT ![i] =
           [p \in {p \in DOMAIN states[i] : DOMAIN closed_windows(states[i][p]) # {}} |->
               Batch(states[i][p])]]
    /\ states' = [states EXCEPT ![i] =
           [p \in DOMAIN @ |-> take_closed_windows(@[p])]]
    /\ UNCHANGED <<kafkaVars, position, pending, dbVars, budget>>

\* The rows one transaction upserts into agg_cells.
CellRows(p, closed) ==
    [key \in UNION {{<<w, c, p>> : c \in DOMAIN closed[w].cells} : w \in DOMAIN closed} |->
        LET agg == closed[key[1]].cells[key[2]]
        IN  [events |-> agg.events, users |-> Cardinality(agg.users)]]

\* flush_windows: cells and progress in one transaction.
flush_windows(p, batch) ==
    /\ agg_cells' = Override(agg_cells, CellRows(p, batch.closed))
    /\ partition_progress' =
           Put(partition_progress, p, [committed_offset  |-> batch.committed_offset,
                                       flushed_watermark |-> batch.flushed_watermark])

FlushCommit(i, p) ==
    /\ p \in DOMAIN inflight[i]
    /\ flush_windows(p, inflight[i][p])
    /\ inflight' = [inflight EXCEPT ![i] = Drop(@, p)]
    /\ UNCHANGED <<kafkaVars, position, pending, states, budget>>

\* The transaction rolled back: the error is counted and the batch dropped.
FlushError(i, p) ==
    /\ Spend("flush")
    /\ p \in DOMAIN inflight[i]
    /\ inflight' = [inflight EXCEPT ![i] = Drop(@, p)]
    /\ UNCHANGED <<kafkaVars, position, pending, states, dbVars>>

-----------------------------------------------------------------------------
Next ==
    \/ Tick
    \/ \E p \in Partitions : Produce(p) \/ ProduceDuplicate(p) \/ ProduceUndecodable(p)
    \/ \E i \in Instances : SessionTimeout(i) \/ Crash(i) \/ TakeBatches(i)
    \/ \E i \in Instances, p \in Partitions :
          \/ AssignLoaded(i, p) \/ AssignLoadError(i, p)
          \/ InstallState(i, p) \/ InstallStateSeekFailed(i, p)
          \/ Revoke(i, p)
          \/ ProcessMessage(i, p) \/ SkipUndecodable(i, p)
          \/ IdleTick(i, p)
          \/ FlushCommit(i, p) \/ FlushError(i, p)

Spec == Init /\ [][Next]_vars

(***************************************************************************)
(* The clock advances; the group assigns free partitions; callbacks finish;*)
(* the message loop, the interval-driven idle and flush loops and Postgres *)
(* make progress.                                                          *)
(***************************************************************************)
Fairness ==
    /\ WF_vars(Tick)
    /\ \A i \in Instances :
          /\ WF_vars(TakeBatches(i))
          /\ \A p \in Partitions :
                /\ WF_vars(AssignLoaded(i, p))
                /\ WF_vars(InstallState(i, p))
                /\ WF_vars(ProcessMessage(i, p))
                /\ WF_vars(SkipUndecodable(i, p))
                /\ WF_vars(IdleTick(i, p))
                /\ WF_vars(FlushCommit(i, p))

FairSpec == Spec /\ Fairness

-----------------------------------------------------------------------------
(***************************************************************************)
(* Types.                                                                  *)
(***************************************************************************)
EventType ==
    [event_id : Nat, user : Users, ts : Int,
     family : {page.family : page \in Pages}, wiki : {page.wiki : page \in Pages},
     namespace : {page.namespace : page \in Pages}]

IsCellAgg(agg) == agg.events \in Nat /\ agg.users \subseteq Users

IsWindow(window) ==
    /\ window.min_offset \in Nat
    /\ window.seen_ids \subseteq Nat
    /\ \A c \in DOMAIN window.cells : IsCellAgg(window.cells[c])

AreWindows(windows) ==
    /\ DOMAIN windows \subseteq Int
    /\ \A w \in DOMAIN windows : IsWindow(windows[w])

IsPartitionState(s) ==
    /\ DOMAIN s = {"open_windows", "max_event_ts", "flushed_watermark", "next_offset"}
    /\ AreWindows(s.open_windows)
    /\ s.max_event_ts \in Int
    /\ s.flushed_watermark \in Int
    /\ s.next_offset \in Nat

IsProgress(progress) ==
    progress.committed_offset \in Nat /\ progress.flushed_watermark \in Int

IsBatch(batch) == IsProgress(batch) /\ AreWindows(batch.closed)

\* m maps some of the partitions to values that satisfy Test.
IsPartitionMap(m, Test(_)) == \A p \in DOMAIN m : p \in Partitions /\ Test(m[p])

KafkaTypeOK ==
    /\ now \in Nat
    /\ log \in [Partitions -> Seq(EventType \cup {Undecodable})]
    /\ IsPartitionMap(owner, LAMBDA i : i \in Instances)

InstanceTypeOK ==
    /\ DOMAIN position = Instances
    /\ DOMAIN pending = Instances
    /\ DOMAIN states = Instances
    /\ DOMAIN inflight = Instances
    /\ \A i \in Instances :
          /\ IsPartitionMap(position[i], LAMBDA offset : offset \in Nat)
          /\ IsPartitionMap(pending[i], IsProgress)
          /\ IsPartitionMap(states[i], IsPartitionState)
          /\ IsPartitionMap(inflight[i], IsBatch)

DbTypeOK ==
    /\ \A key \in DOMAIN agg_cells :
           agg_cells[key].events \in Nat /\ agg_cells[key].users \in Nat
    /\ IsPartitionMap(partition_progress, IsProgress)

\* Every map holds values of its type: offsets are natural numbers, instants
\* integers, and only known partitions, instances and users occur.
TypeOK == KafkaTypeOK /\ InstanceTypeOK /\ DbTypeOK /\ budget \in Nat

-----------------------------------------------------------------------------
(***************************************************************************)
(* Safety.                                                                 *)
(***************************************************************************)
\* Offset o of partition p holds an event of a window that ends after wm.
Unflushed(p, o, wm) ==
    /\ log[p][o + 1] # Undecodable
    /\ window_end(window_start(log[p][o + 1].ts)) > wm

Gapless(p, offset, wm) ==
    /\ offset <= Len(log[p])
    /\ \A o \in 0..(offset - 1) : ~ Unflushed(p, o, wm)

\* Resuming a partition from its progress row skips no event that a still open
\* window needs: every event below committed_offset belongs to a window that
\* flushed_watermark closed (committed_offset, window.rs:182), whatever crashes,
\* rebalances, failed flushes, failed seeks and zombies happened before.
ResumeSafe ==
    \A p \in DOMAIN partition_progress :
        Gapless(p, partition_progress[p].committed_offset,
                   partition_progress[p].flushed_watermark)

\* A message is only ever handled for a partition whose state post_rebalance has
\* installed: the or_insert_with fallback of the message loop (main.rs:72), which
\* would forget the progress row, is never taken.
FallbackUnused ==
    \A i \in Instances : Idle(i) => DOMAIN position[i] \subseteq DOMAIN states[i]

(***************************************************************************)
(* The inductive strengthening of ResumeSafe.                              *)
(***************************************************************************)
\* The client's assignment, the pending callback and the states map of an
\* instance speak of the same partitions.
DomainsOK ==
    \A i \in Instances :
        /\ DOMAIN states[i] \subseteq DOMAIN position[i]
        /\ DOMAIN pending[i] \subseteq DOMAIN position[i]
        /\ DOMAIN position[i] \subseteq DOMAIN states[i] \cup DOMAIN pending[i]

TypeInv == TypeOK /\ DomainsOK

\* State s still knows of the event at offset o: its window is past the watermark,
\* or is open and will hold the resume offset at or below o.
Covered(s, p, o) ==
    Unflushed(p, o, s.flushed_watermark) =>
        LET w == window_start(log[p][o + 1].ts)
        IN  w \in DOMAIN s.open_windows /\ s.open_windows[w].min_offset <= o

StateSound(s, p, pos) ==
    /\ pos <= Len(log[p])
    /\ s.next_offset <= Len(log[p])
    /\ \A w \in DOMAIN s.open_windows :
          /\ s.open_windows[w].min_offset < s.next_offset
          /\ s.open_windows[w].min_offset < pos
    /\ \A o \in 0..(s.next_offset - 1) : Covered(s, p, o)
    /\ \A o \in s.next_offset..(pos - 1) : log[p][o + 1] = Undecodable

StatesSound ==
    \A i \in Instances : \A p \in DOMAIN states[i] :
        StateSound(states[i][p], p, position[i][p])

PendingSound ==
    \A i \in Instances : \A p \in DOMAIN pending[i] :
        /\ position[i][p] = 0
        /\ Gapless(p, pending[i][p].committed_offset, pending[i][p].flushed_watermark)

InflightSound ==
    \A i \in Instances : \A p \in DOMAIN inflight[i] :
        Gapless(p, inflight[i][p].committed_offset, inflight[i][p].flushed_watermark)

\* Every place from which an offset can reach partition_progress is gapless: the
\* states, the batches in flight, the progress a callback has just read.
ResumeInv == StatesSound /\ PendingSound /\ InflightSound /\ ResumeSafe

\* The reference result: what the whole log says of one cell of one window.
TruthOffsets(w, c, p) ==
    {o \in 1..Len(log[p]) : /\ log[p][o] # Undecodable
                            /\ window_start(log[p][o].ts) = w
                            /\ c \in cells_for_event(log[p][o])}

TruthIds(w, c, p) == {log[p][o].event_id : o \in TruthOffsets(w, c, p)}

TruthUsers(w, c, p) == {log[p][o].user : o \in TruthOffsets(w, c, p)}

TruthRow(w, c, p) ==
    [events |-> Cardinality(TruthIds(w, c, p)), users |-> Cardinality(TruthUsers(w, c, p))]

\* A row never counts an event or a user twice, however often the events were
\* produced, redelivered after a crash, or flushed by two instances.
NoOverCount ==
    \A key \in DOMAIN agg_cells :
        LET truth == TruthRow(key[1], key[2], key[3])
        IN  /\ agg_cells[key].events <= truth.events
            /\ agg_cells[key].users <= truth.users

\* Exactly once, as the reconcile tool measures it: the rows of every window that
\* the progress row calls flushed are those of the log.
ZeroDrift ==
    \A p \in DOMAIN partition_progress : \A o \in 1..Len(log[p]) :
        log[p][o] # Undecodable =>
            LET w == window_start(log[p][o].ts)
            IN  window_end(w) <= partition_progress[p].flushed_watermark =>
                    \A c \in cells_for_event(log[p][o]) :
                        /\ <<w, c, p>> \in DOMAIN agg_cells
                        /\ agg_cells[<<w, c, p>>] = TruthRow(w, c, p)

\* A row of a window that the progress row calls flushed never changes: what the
\* query API caches without invalidation.
RowsStable ==
    [][\A key \in DOMAIN agg_cells :
          (/\ key[3] \in DOMAIN partition_progress
           /\ window_end(key[1]) <= partition_progress[key[3]].flushed_watermark)
             => agg_cells'[key] = agg_cells[key]]_vars

\* With one owner at a time and readable progress, neither the resume offset nor
\* the watermark of a partition ever goes back.
ProgressMonotone ==
    [][\A p \in DOMAIN partition_progress :
          /\ partition_progress'[p].committed_offset >= partition_progress[p].committed_offset
          /\ partition_progress'[p].flushed_watermark >= partition_progress[p].flushed_watermark]_vars

-----------------------------------------------------------------------------
(***************************************************************************)
(* Liveness.                                                               *)
(***************************************************************************)
\* Every event whose window can close before the clock stops is in time covered
\* by a flush, through crashes and rebalances and without further traffic.
EventuallyFlushed ==
    \A p \in Partitions, o \in 1..MAX_LOG, w \in {window_start(t) : t \in (-MAX_DELAY)..MAX_TIME} :
        (/\ o <= Len(log[p])
         /\ log[p][o] # Undecodable
         /\ window_start(log[p][o].ts) = w
         /\ window_end(w) + ALLOWED_LATENESS <= MAX_TIME)
          ~> (/\ p \in DOMAIN partition_progress
              /\ partition_progress[p].flushed_watermark >= window_end(w))

=============================================================================
