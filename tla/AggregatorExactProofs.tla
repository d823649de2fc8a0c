----------------------- MODULE AggregatorExactProofs -----------------------
(***************************************************************************)
(* Exactly-once aggregation: under the documented conditions the rows of   *)
(* every window that a progress row calls flushed are those of the log     *)
(* (CountingIsExact), for every number of instances, partitions and users, *)
(* through crashes, zombies, revocations, failed loads and failed seeks.   *)
(*                                                                         *)
(* The inductive invariant follows a window through its life: open in      *)
(* memory it holds what has been read of it, closed it holds all there     *)
(* will ever be, flushed it is in the table.                               *)
(***************************************************************************)
EXTENDS AggregatorProofs

\* Events are appended no later than the allowed lateness and never from the future,
\* no transaction fails, the idle timeout waits for the backlog, and the topic is
\* younger than the day that a partition without progress looks back.
DocumentedConditions ==
    /\ MAX_DELAY <= ALLOWED_LATENESS
    /\ MAX_SKEW = 0
    /\ "flush" \notin Faults
    /\ IdleOnlyWhenDrained
    /\ MAX_TIME + MAX_DELAY <= ONE_DAY

-----------------------------------------------------------------------------
(***************************************************************************)
(* The inductive invariant.                                                *)
(***************************************************************************)
\* The events of window w among the first n messages.
EventsOf(messages, w, n) ==
    {messages[o] : o \in {o \in 1..n : /\ messages[o] # Undecodable
                                       /\ window_start(messages[o].ts) = w}}

IdsOf(events, c) == {e.event_id : e \in {e \in events : c \in cells_for_event(e)}}
UsersOf(events, c) == {e.user : e \in {e \in events : c \in cells_for_event(e)}}

\* The window is what folding in these events, each once, amounts to.
Holds(window, events) ==
    /\ window.seen_ids = {e.event_id : e \in events}
    /\ DOMAIN window.cells = UNION {cells_for_event(e) : e \in events}
    /\ \A c \in DOMAIN window.cells :
          /\ window.cells[c].events = Cardinality(IdsOf(events, c))
          /\ window.cells[c].users = UsersOf(events, c)

\* Message o is a copy of one of the first n.
Repeats(messages, o, n) == \E r \in 1..n : messages[r] = messages[o]

EventEnd(messages, o) == window_end(window_start(messages[o].ts))

\* An id names one event; a message comes at most MAX_DELAY behind the ones before it,
\* unless it repeats one.
PartitionLogExact(messages) ==
    \A o \in 1..Len(messages) : messages[o] # Undecodable =>
        /\ messages[o].event_id < o
        /\ messages[o].ts >= - MAX_DELAY
        /\ messages[o].ts <= now
        /\ \A q \in 1..Len(messages) : messages[q] # Undecodable =>
              /\ messages[q].event_id = messages[o].event_id => messages[q] = messages[o]
              /\ o < q => \/ messages[q].ts >= messages[o].ts - MAX_DELAY
                          \/ Repeats(messages, q, o)

LogExact == now <= MAX_TIME /\ \A p \in Partitions : PartitionLogExact(log[p])

\* Every cell of window w that the log has is in the table.
Published(p, w) ==
    \A e \in EventsOf(log[p], w, Len(log[p])) : \A c \in cells_for_event(e) :
        <<w, c, p>> \in DOMAIN agg_cells

\* The windows that watermark wm closes are in the table, but for those in windows.
FlushedBut(p, wm, windows) ==
    /\ wm <= now - MAX_DELAY
    /\ \A w \in Int : window_end(w) <= wm => w \in windows \/ Published(p, w)

\* The table holds whole windows that can get no more events, with the right counts.
RowsExact ==
    \A key \in DOMAIN agg_cells :
        /\ key = <<key[1], key[2], key[3]>>
        /\ key[1] \in Int
        /\ key[3] \in Partitions
        /\ window_end(key[1]) <= now - MAX_DELAY
        /\ agg_cells[key] = TruthRow(key[1], key[2], key[3])
        /\ Published(key[3], key[1])

\* What state s has read of a window, it holds; a message that it has not read yet
\* repeats one that it has, or comes in time, or is of a window already flushed.
StateExact(s, messages, pos) ==
    /\ s.max_event_ts <= now
    /\ \A w \in DOMAIN s.open_windows :
          /\ window_end(w) > s.flushed_watermark
          /\ Holds(s.open_windows[w], EventsOf(messages, w, pos))
    /\ \A o \in 1..pos :
          messages[o] # Undecodable /\ EventEnd(messages, o) > s.flushed_watermark
            => window_start(messages[o].ts) \in DOMAIN s.open_windows
    /\ \A o \in (pos + 1)..Len(messages) : messages[o] # Undecodable =>
          \/ Repeats(messages, o, pos)
          \/ EventEnd(messages, o) > watermark(s)
          \/ EventEnd(messages, o) <= s.flushed_watermark

\* The windows of p that instance i has taken and not yet written.
Taken(i, p) == IF p \in DOMAIN inflight[i] THEN DOMAIN inflight[i][p].closed ELSE {}

StatesExact ==
    \A i \in Instances : \A p \in DOMAIN states[i] :
        /\ StateExact(states[i][p], log[p], position[i][p])
        /\ FlushedBut(p, states[i][p].flushed_watermark, Taken(i, p))

\* A batch holds all there will ever be of its windows.
BatchExact(batch, p) ==
    /\ FlushedBut(p, batch.flushed_watermark, DOMAIN batch.closed)
    /\ \A w \in DOMAIN batch.closed :
          /\ window_end(w) <= now - MAX_DELAY
          /\ Holds(batch.closed[w], EventsOf(log[p], w, Len(log[p])))

BatchesExact ==
    \A i \in Instances : \A p \in DOMAIN inflight[i] : BatchExact(inflight[i][p], p)

PendingExact ==
    \A i \in Instances : \A p \in DOMAIN pending[i] :
        FlushedBut(p, pending[i][p].flushed_watermark, {})

ProgressExact ==
    \A p \in DOMAIN partition_progress :
        FlushedBut(p, partition_progress[p].flushed_watermark, {})

ExactInv ==
    /\ LogExact
    /\ RowsExact
    /\ StatesExact
    /\ BatchesExact
    /\ PendingExact
    /\ ProgressExact

-----------------------------------------------------------------------------
(***************************************************************************)
(* The events of a window.                                                 *)
(***************************************************************************)
USE DEF kafkaVars, instanceVars, dbVars

MessageSeq == Seq(EventType \cup {Undecodable})

\* An event's window ends after it.
LEMMA EndAfterEvent ==
    ASSUME NEW ts \in Int
    PROVE  window_end(window_start(ts)) > ts
<1>1. ts % WINDOW_SIZE \in 0..(WINDOW_SIZE - 1)
  BY WindowSizeAssumption
<1> QED BY <1>1, WindowSizeAssumption DEF window_start, window_end

\* The instants of an event.
LEMMA EventInstants ==
    ASSUME NEW messages \in MessageSeq, NEW o \in 1..Len(messages), messages[o] # Undecodable
    PROVE  /\ messages[o] \in EventType
           /\ messages[o].ts \in Int
           /\ window_start(messages[o].ts) \in Int
           /\ EventEnd(messages, o) \in Int
           /\ EventEnd(messages, o) > messages[o].ts
<1>1. messages[o] \in EventType
  BY DEF MessageSeq
<1>2. messages[o].ts \in Int
  BY <1>1 DEF EventType
<1> QED BY <1>1, <1>2, WindowInstants, EndAfterEvent DEF EventEnd

\* A window has events, and in each cell finitely many ids.
LEMMA EventsOfFinite ==
    ASSUME NEW messages \in MessageSeq, NEW n \in 0..Len(messages), NEW w, NEW c
    PROVE  /\ EventsOf(messages, w, n) \subseteq EventType
           /\ IsFiniteSet(IdsOf(EventsOf(messages, w, n), c))
<1> DEFINE events == EventsOf(messages, w, n)
           S == {o \in 1..n : /\ messages[o] # Undecodable
                              /\ window_start(messages[o].ts) = w
                              /\ c \in cells_for_event(messages[o])}
<1>1. events \subseteq EventType
  BY DEF EventsOf, MessageSeq
<1>2. IdsOf(events, c) = {messages[o].event_id : o \in S}
  BY DEF IdsOf, EventsOf
<1>3. S \in SUBSET (1..Len(messages)) /\ \A o \in S : messages[o] # Undecodable
  OBVIOUS
<1>4. IsFiniteSet({messages[o].event_id : o \in S})
  <2> HIDE DEF S
  <2> QED BY <1>3, MessagesFinite DEF MessageSeq
<1> QED BY <1>1, <1>2, <1>4

\* What the log says of a cell, by the events of its window.
LEMMA TruthIsEvents ==
    ASSUME NEW p, NEW w, NEW c
    PROVE  /\ TruthIds(w, c, p) = IdsOf(EventsOf(log[p], w, Len(log[p])), c)
           /\ TruthUsers(w, c, p) = UsersOf(EventsOf(log[p], w, Len(log[p])), c)
           /\ TruthIds(w, c, p)' = IdsOf(EventsOf(log'[p], w, Len(log'[p])), c)
           /\ TruthUsers(w, c, p)' = UsersOf(EventsOf(log'[p], w, Len(log'[p])), c)
<1>1. ASSUME NEW messages, NEW n
      PROVE  LET offsets == {o \in 1..n : /\ messages[o] # Undecodable
                                          /\ window_start(messages[o].ts) = w
                                          /\ c \in cells_for_event(messages[o])}
             IN  /\ {messages[o].event_id : o \in offsets} = IdsOf(EventsOf(messages, w, n), c)
                 /\ {messages[o].user : o \in offsets} = UsersOf(EventsOf(messages, w, n), c)
  BY DEF IdsOf, UsersOf, EventsOf
<1> QED BY <1>1 DEF TruthIds, TruthUsers, TruthOffsets

\* One more message adds itself to its window, and nothing to the others.
LEMMA EventsOfNext ==
    ASSUME NEW messages, NEW n \in Nat, NEW w
    PROVE  EventsOf(messages, w, n + 1) =
               IF messages[n + 1] # Undecodable /\ window_start(messages[n + 1].ts) = w
               THEN EventsOf(messages, w, n) \cup {messages[n + 1]}
               ELSE EventsOf(messages, w, n)
<1>1. 1..(n + 1) = (1..n) \cup {n + 1}
  OBVIOUS
<1> QED BY <1>1 DEF EventsOf

\* Folding in an event that the window has not seen.
LEMMA FoldHolds ==
    ASSUME NEW window, NEW events, Holds(window, events),
           \A c : IsFiniteSet(IdsOf(events, c)),
           NEW event, event.event_id \notin window.seen_ids, NEW offset
    PROVE  Holds(FoldWindow(window, event, offset), events \cup {event})
<1> DEFINE folded == FoldWindow(window, event, offset)
           all == events \cup {event}
<1>1. /\ folded.seen_ids = window.seen_ids \cup {event.event_id}
      /\ folded.cells = FoldCells(window.cells, event)
  BY DEF FoldWindow
<1> HIDE DEF folded
<1>2. folded.seen_ids = {e.event_id : e \in all}
  BY <1>1 DEF Holds
<1>3. DOMAIN folded.cells = UNION {cells_for_event(e) : e \in all}
  <2>1. DOMAIN folded.cells = DOMAIN window.cells \cup cells_for_event(event)
    BY <1>1 DEF FoldCells
  <2>2. UNION {cells_for_event(e) : e \in all}
          = (UNION {cells_for_event(e) : e \in events}) \cup cells_for_event(event)
    OBVIOUS
  <2> QED BY <2>1, <2>2 DEF Holds
<1>4. ASSUME NEW c \in DOMAIN folded.cells
      PROVE  /\ folded.cells[c].events = Cardinality(IdsOf(all, c))
             /\ folded.cells[c].users = UsersOf(all, c)
  <2> DEFINE agg == IF c \in DOMAIN window.cells THEN window.cells[c] ELSE EmptyCell
  <2>1. agg.events = Cardinality(IdsOf(events, c)) /\ agg.users = UsersOf(events, c)
    <3>1. CASE c \in DOMAIN window.cells
      BY <3>1 DEF Holds
    <3>2. CASE c \notin DOMAIN window.cells
      <4>1. \A e \in events : c \notin cells_for_event(e)
        BY <3>2 DEF Holds
      <4>2. IdsOf(events, c) = {} /\ UsersOf(events, c) = {}
        BY <4>1 DEF IdsOf, UsersOf
      <4> QED BY <3>2, <4>2, FS_EmptySet DEF EmptyCell
    <3> QED BY <3>1, <3>2
  <2>2. CASE c \in cells_for_event(event)
    <3>1. /\ IdsOf(all, c) = IdsOf(events, c) \cup {event.event_id}
          /\ UsersOf(all, c) = UsersOf(events, c) \cup {event.user}
      BY <2>2 DEF IdsOf, UsersOf
    <3>2. event.event_id \notin IdsOf(events, c)
      BY DEF Holds, IdsOf
    <3>3. Cardinality(IdsOf(all, c)) = Cardinality(IdsOf(events, c)) + 1
      <4> HIDE DEF all
      <4> QED BY <3>1, <3>2, FS_AddElement
    <3>4. folded.cells[c] = [events |-> agg.events + 1, users |-> agg.users \cup {event.user}]
      BY <1>1, <2>2 DEF FoldCells
    <3> HIDE DEF all, agg
    <3> QED BY <2>1, <3>1, <3>3, <3>4
  <2>3. CASE c \notin cells_for_event(event)
    <3>1. IdsOf(all, c) = IdsOf(events, c) /\ UsersOf(all, c) = UsersOf(events, c)
      BY <2>3 DEF IdsOf, UsersOf
    <3>2. folded.cells[c] = agg
      BY <1>1, <2>3 DEF FoldCells
    <3> QED BY <2>1, <3>1, <3>2
  <2> QED BY <2>2, <2>3
<1> QED BY <1>2, <1>3, <1>4 DEF Holds, folded

-----------------------------------------------------------------------------
(***************************************************************************)
(* The operations of PartitionState.                                       *)
(***************************************************************************)
\* Reading one more event (process_event).
LEMMA ProcessExact ==
    ASSUME NEW messages \in MessageSeq, PartitionLogExact(messages),
           NEW pos \in Nat, pos < Len(messages), messages[pos + 1] # Undecodable,
           NEW s, IsPartitionState(s), StateExact(s, messages, pos),
           MAX_DELAY <= ALLOWED_LATENESS, now \in Int
    PROVE  StateExact(process_event(s, messages[pos + 1], pos), messages, pos + 1)
<1> DEFINE event == messages[pos + 1]
           start == window_start(event.ts)
           windows == s.open_windows
           window == WindowFor(windows, start, pos)
           folded == FoldWindow(window, event, pos)
           t == process_event(s, event, pos)
           read == EventsOf(messages, start, pos)
<1>1. /\ Len(messages) \in Nat
      /\ pos + 1 \in 1..Len(messages)
      /\ pos \in 0..Len(messages)
  BY DEF MessageSeq
<1>2. /\ event \in EventType /\ event.ts \in Int /\ start \in Int
      /\ window_end(start) \in Int /\ EventEnd(messages, pos + 1) = window_end(start)
  BY <1>1, EventInstants DEF EventEnd
<1>3. s.max_event_ts \in Int /\ s.flushed_watermark \in Int /\ AreWindows(windows)
  BY DEF IsPartitionState
<1>4. /\ t.flushed_watermark = s.flushed_watermark
      /\ t.max_event_ts = IF event.ts > s.max_event_ts THEN event.ts ELSE s.max_event_ts
      /\ t.open_windows = IF IsLate(s, event) \/ IsDuplicate(window, event)
                          THEN windows ELSE Put(windows, start, folded)
  BY DEF process_event
<1> HIDE DEF t
<1>5. t.max_event_ts <= now
  BY <1>1, <1>2, <1>3, <1>4 DEF PartitionLogExact, StateExact
<1>6. ASSUME NEW w, w # start
      PROVE  EventsOf(messages, w, pos + 1) = EventsOf(messages, w, pos)
  BY <1>6, EventsOfNext
<1>7. EventsOf(messages, start, pos + 1) = read \cup {event}
  BY EventsOfNext
<1>8. \A w \in DOMAIN windows : window_end(w) > s.flushed_watermark
                               /\ Holds(windows[w], EventsOf(messages, w, pos))
  BY DEF StateExact
<1>9. IsLate(s, event) => window_end(start) <= s.flushed_watermark /\ start \notin DOMAIN windows
  BY <1>2, <1>3, <1>8 DEF IsLate
<1>10. ASSUME IsDuplicate(window, event)
       PROVE  start \in DOMAIN windows /\ event \in read
  <2>1. start \in DOMAIN windows
    BY <1>10 DEF IsDuplicate, WindowFor, NewWindow
  <2>2. event.event_id \in {e.event_id : e \in read}
    BY <1>8, <1>10, <2>1 DEF IsDuplicate, WindowFor, Holds
  <2>3. PICK r \in 1..pos : /\ messages[r] # Undecodable
                           /\ window_start(messages[r].ts) = start
                           /\ messages[r].event_id = event.event_id
    BY <2>2 DEF EventsOf
  <2>4. messages[r] = event
    BY <1>1, <2>3 DEF PartitionLogExact
  <2>5. event \in read
    BY <2>3, <2>4 DEF EventsOf
  <2> QED BY <2>1, <2>5
<1>11. ASSUME ~ IsLate(s, event), ~ IsDuplicate(window, event)
       PROVE  /\ window_end(start) > s.flushed_watermark
              /\ Holds(folded, read \cup {event})
  <2>1. window_end(start) > s.flushed_watermark
    BY <1>2, <1>3, <1>11 DEF IsLate
  <2>2. Holds(window, read)
    <3>1. CASE start \in DOMAIN windows
      BY <1>8, <3>1 DEF WindowFor
    <3>2. CASE start \notin DOMAIN windows
      <4>1. read = {}
        BY <1>2, <2>1, <3>2 DEF StateExact, EventsOf, EventEnd
      <4>2. window = NewWindow(pos)
        BY <3>2 DEF WindowFor
      <4> QED BY <4>1, <4>2 DEF NewWindow, Holds
    <3> QED BY <3>1, <3>2
  <2>3. \A c : IsFiniteSet(IdsOf(read, c))
    BY <1>1, EventsOfFinite
  <2>4. event.event_id \notin window.seen_ids
    BY <1>11 DEF IsDuplicate
  <2> HIDE DEF window, read, event
  <2>5. Holds(folded, read \cup {event})
    BY <2>2, <2>3, <2>4, FoldHolds
  <2> QED BY <2>1, <2>5
<1>12. ASSUME NEW w \in DOMAIN t.open_windows
       PROVE  /\ window_end(w) > t.flushed_watermark
              /\ Holds(t.open_windows[w], EventsOf(messages, w, pos + 1))
  <2> HIDE DEF window, folded, start, event, read, windows
  <2>1. CASE w = start
    BY <1>4, <1>7, <1>8, <1>9, <1>10, <1>11, <1>12, <2>1 DEF Put, read
  <2>2. CASE w # start
    BY <1>4, <1>6, <1>8, <1>12, <2>2 DEF Put
  <2> QED BY <2>1, <2>2
<1>13. ASSUME NEW o \in 1..(pos + 1), messages[o] # Undecodable,
              EventEnd(messages, o) > t.flushed_watermark
       PROVE  window_start(messages[o].ts) \in DOMAIN t.open_windows
  <2>1. DOMAIN windows \subseteq DOMAIN t.open_windows
    BY <1>4 DEF Put
  <2>2. CASE o = pos + 1
    <3>1. ~ IsLate(s, event)
      BY <1>2, <1>3, <1>4, <1>13, <2>2 DEF IsLate
    <3>2. start \in DOMAIN t.open_windows
      BY <1>4, <1>10, <2>1, <3>1 DEF Put
    <3> QED BY <2>2, <3>2
  <2>3. CASE o \in 1..pos
    BY <1>4, <1>13, <2>1, <2>3 DEF StateExact
  <2> QED BY <2>2, <2>3
<1>14. ASSUME NEW o \in (pos + 2)..Len(messages), messages[o] # Undecodable
       PROVE  \/ Repeats(messages, o, pos + 1)
              \/ EventEnd(messages, o) > watermark(t)
              \/ EventEnd(messages, o) <= t.flushed_watermark
  <2>1. /\ o \in 1..Len(messages) /\ o \in (pos + 1)..Len(messages) /\ pos + 1 < o
    BY <1>1
  <2>2. /\ messages[o].ts \in Int /\ EventEnd(messages, o) \in Int
        /\ EventEnd(messages, o) > messages[o].ts
    BY <1>14, <2>1, EventInstants
  <2>3. \/ Repeats(messages, o, pos)
        \/ EventEnd(messages, o) > watermark(s)
        \/ EventEnd(messages, o) <= s.flushed_watermark
    BY <1>14, <2>1 DEF StateExact
  <2>4. Repeats(messages, o, pos) => Repeats(messages, o, pos + 1)
    BY DEF Repeats
  <2>5. messages[o].ts >= event.ts - MAX_DELAY \/ Repeats(messages, o, pos + 1)
    BY <1>1, <1>14, <2>1 DEF PartitionLogExact
  <2> HIDE DEF event
  <2> QED
    BY <1>2, <1>3, <1>4, <2>2, <2>3, <2>4, <2>5, LatenessAssumption, DelayAssumption DEF watermark
<1> HIDE DEF event
<1>15. pos + 1 + 1 = pos + 2
  OBVIOUS
<1> QED BY <1>5, <1>12, <1>13, <1>14, <1>15 DEF StateExact, t, event

\* Skipping a message without an event.
LEMMA SkipExact ==
    ASSUME NEW messages \in MessageSeq, NEW pos \in Nat, pos < Len(messages),
           messages[pos + 1] = Undecodable, NEW s, StateExact(s, messages, pos)
    PROVE  StateExact(s, messages, pos + 1)
<1>1. \A w : EventsOf(messages, w, pos + 1) = EventsOf(messages, w, pos)
  BY EventsOfNext
<1>2. \A o : Repeats(messages, o, pos) => Repeats(messages, o, pos + 1)
  BY DEF Repeats
<1>3. \A o \in 1..(pos + 1) : o \in 1..pos \/ o = pos + 1
  OBVIOUS
<1>4. Len(messages) \in Nat /\ \A o \in (pos + 1 + 1)..Len(messages) : o \in (pos + 1)..Len(messages)
  BY DEF MessageSeq
<1> QED BY <1>1, <1>2, <1>3, <1>4 DEF StateExact

\* An idle tick, at the end of the log (tick_idle): nothing is left to come late.
LEMMA TickIdleExact ==
    ASSUME NEW messages \in MessageSeq, NEW s, IsPartitionState(s), now \in Int,
           StateExact(s, messages, Len(messages))
    PROVE  StateExact(tick_idle(s, now), messages, Len(messages))
<1> DEFINE t == tick_idle(s, now)
<1>1. /\ t.open_windows = s.open_windows
      /\ t.flushed_watermark = s.flushed_watermark
  BY TickIdleFacts
<1>2. t.max_event_ts <= now
  BY DEF tick_idle, IsPartitionState, StateExact
<1>3. Len(messages) \in Nat /\ (Len(messages) + 1)..Len(messages) = {}
  BY DEF MessageSeq
<1> HIDE DEF t
<1> QED BY <1>1, <1>2, <1>3 DEF StateExact, t

\* A fresh state, from its resume offset or from further back (resume_from).
LEMMA ResumeExact ==
    ASSUME NEW messages \in MessageSeq, NEW offset \in 0..Len(messages), NEW wm \in Int,
           wm <= now, NEW pos \in {0, offset},
           \A o \in 1..offset : messages[o] # Undecodable => EventEnd(messages, o) <= wm
    PROVE  StateExact(resume_from(offset, wm), messages, pos)
<1> DEFINE s == resume_from(offset, wm)
<1>1. /\ s.open_windows = << >> /\ s.max_event_ts = wm /\ s.flushed_watermark = wm
      /\ watermark(s) = wm - ALLOWED_LATENESS
  BY DEF resume_from, watermark
<1> HIDE DEF s
<1>2. Len(messages) \in Nat
  BY DEF MessageSeq
<1>3. \A o \in 1..Len(messages) : messages[o] # Undecodable => EventEnd(messages, o) \in Int
  BY EventInstants
<1>4. \A o \in 1..pos : messages[o] # Undecodable => ~ (EventEnd(messages, o) > s.flushed_watermark)
  BY <1>1, <1>2, <1>3
<1>5. \A o \in (pos + 1)..Len(messages) : messages[o] # Undecodable =>
          EventEnd(messages, o) > watermark(s) \/ EventEnd(messages, o) <= s.flushed_watermark
  BY <1>1, <1>2, <1>3, LatenessAssumption
<1> QED BY <1>1, <1>4, <1>5 DEF StateExact, s

\* What the flush loop leaves behind (take_closed_windows).
LEMMA TakeExact ==
    ASSUME NEW messages \in MessageSeq, NEW pos \in 0..Len(messages),
           NEW s, IsPartitionState(s), StateExact(s, messages, pos)
    PROVE  StateExact(take_closed_windows(s), messages, pos)
<1> DEFINE t == take_closed_windows(s)
<1>1. /\ watermark(s) \in Int /\ s.flushed_watermark \in Int
      /\ \A w \in DOMAIN s.open_windows : window_end(w) \in Int
  BY LatenessAssumption, WindowSizeAssumption DEF watermark, IsPartitionState, AreWindows, window_end
<1>2. /\ DOMAIN t.open_windows = {w \in DOMAIN s.open_windows : ~ IsClosed(s, w)}
      /\ \A w \in DOMAIN t.open_windows : t.open_windows[w] = s.open_windows[w]
      /\ t.flushed_watermark = IF watermark(s) > s.flushed_watermark
                               THEN watermark(s) ELSE s.flushed_watermark
      /\ t.max_event_ts = s.max_event_ts
      /\ watermark(t) = watermark(s)
  BY DEF take_closed_windows, IsPartitionState, Restrict, watermark
<1> HIDE DEF t
<1>3. \A o \in 1..Len(messages) : messages[o] # Undecodable => EventEnd(messages, o) \in Int
  BY EventInstants
<1>4. ASSUME NEW w \in DOMAIN t.open_windows
      PROVE  /\ window_end(w) > t.flushed_watermark
             /\ Holds(t.open_windows[w], EventsOf(messages, w, pos))
  BY <1>1, <1>2 DEF StateExact, IsClosed
<1>5. ASSUME NEW o \in 1..pos, messages[o] # Undecodable,
             EventEnd(messages, o) > t.flushed_watermark
      PROVE  window_start(messages[o].ts) \in DOMAIN t.open_windows
  <2>1. Len(messages) \in Nat /\ o \in 1..Len(messages)
    BY DEF MessageSeq
  <2>2. EventEnd(messages, o) > s.flushed_watermark /\ EventEnd(messages, o) > watermark(s)
    BY <1>1, <1>2, <1>3, <1>5, <2>1
  <2>3. window_start(messages[o].ts) \in DOMAIN s.open_windows
    BY <1>5, <2>2 DEF StateExact
  <2> QED BY <1>1, <1>2, <2>2, <2>3 DEF IsClosed, EventEnd
<1>6. ASSUME NEW o \in (pos + 1)..Len(messages), messages[o] # Undecodable
      PROVE  \/ Repeats(messages, o, pos)
             \/ EventEnd(messages, o) > watermark(t)
             \/ EventEnd(messages, o) <= t.flushed_watermark
  <2>1. Len(messages) \in Nat /\ o \in 1..Len(messages)
    BY DEF MessageSeq
  <2> QED BY <1>1, <1>2, <1>3, <1>6, <2>1 DEF StateExact
<1> QED BY <1>2, <1>4, <1>5, <1>6 DEF StateExact, t

\* What the flush loop takes holds all there is of its windows; nothing else of the
\* windows that its watermark closes is left (closed_windows).
LEMMA ClosedExact ==
    ASSUME NEW messages \in MessageSeq, NEW pos \in 0..Len(messages),
           NEW s, IsPartitionState(s), StateExact(s, messages, pos), now \in Int
    PROVE  /\ \A w \in DOMAIN closed_windows(s) :
                 /\ window_end(w) <= now - ALLOWED_LATENESS
                 /\ Holds(closed_windows(s)[w], EventsOf(messages, w, Len(messages)))
           /\ \A o \in 1..Len(messages) :
                 messages[o] # Undecodable =>
                    \/ EventEnd(messages, o) <= s.flushed_watermark
                    \/ EventEnd(messages, o) > watermark(s)
                    \/ window_start(messages[o].ts) \in DOMAIN closed_windows(s)
<1> DEFINE closed == closed_windows(s)
<1>1. /\ watermark(s) \in Int /\ s.flushed_watermark \in Int /\ s.max_event_ts \in Int
      /\ \A w \in DOMAIN s.open_windows : window_end(w) \in Int
  BY LatenessAssumption, WindowSizeAssumption DEF watermark, IsPartitionState, AreWindows, window_end
<1>2. /\ DOMAIN closed = {w \in DOMAIN s.open_windows : IsClosed(s, w)}
      /\ \A w \in DOMAIN closed : closed[w] = s.open_windows[w]
  BY DEF closed_windows, Restrict
<1> HIDE DEF closed
<1>3. \A o \in 1..Len(messages) : messages[o] # Undecodable => EventEnd(messages, o) \in Int
  BY EventInstants
<1>4. Len(messages) \in Nat
  BY DEF MessageSeq
<1>5. ASSUME NEW w \in DOMAIN closed
      PROVE  EventsOf(messages, w, Len(messages)) = EventsOf(messages, w, pos)
  <2>1. window_end(w) <= watermark(s) /\ window_end(w) > s.flushed_watermark /\ window_end(w) \in Int
    BY <1>1, <1>2 DEF StateExact, IsClosed
  <2>2. EventsOf(messages, w, pos) \subseteq EventsOf(messages, w, Len(messages))
    BY <1>4 DEF EventsOf
  <2>3. ASSUME NEW o \in 1..Len(messages), messages[o] # Undecodable,
               window_start(messages[o].ts) = w
        PROVE  messages[o] \in EventsOf(messages, w, pos)
    <3>1. CASE o \in 1..pos
      BY <2>3, <3>1 DEF EventsOf
    <3>2. CASE o \in (pos + 1)..Len(messages)
      <4>1. EventEnd(messages, o) = window_end(w)
        BY <2>3 DEF EventEnd
      <4>2. Repeats(messages, o, pos)
        BY <1>1, <2>1, <2>3, <3>2, <4>1 DEF StateExact
      <4> QED BY <2>3, <4>2 DEF Repeats, EventsOf
    <3> QED BY <1>4, <3>1, <3>2
  <2>4. EventsOf(messages, w, Len(messages)) \subseteq EventsOf(messages, w, pos)
    BY <2>3 DEF EventsOf
  <2> QED BY <2>2, <2>4
<1>6. ASSUME NEW w \in DOMAIN closed
      PROVE  /\ window_end(w) <= now - ALLOWED_LATENESS
             /\ Holds(closed[w], EventsOf(messages, w, Len(messages)))
  <2>1. Holds(closed[w], EventsOf(messages, w, Len(messages)))
    BY <1>2, <1>5 DEF StateExact
  <2>2. window_end(w) \in Int /\ window_end(w) <= s.max_event_ts - ALLOWED_LATENESS
    BY <1>1, <1>2 DEF IsClosed, watermark
  <2>3. s.max_event_ts <= now
    BY DEF StateExact
  <2> QED BY <1>1, <2>1, <2>2, <2>3, LatenessAssumption
<1>7. ASSUME NEW o \in 1..Len(messages), messages[o] # Undecodable,
             EventEnd(messages, o) > s.flushed_watermark, EventEnd(messages, o) <= watermark(s)
      PROVE  window_start(messages[o].ts) \in DOMAIN closed
  <2>1. PICK r \in 1..pos : messages[r] = messages[o]
    <3>1. CASE o \in (pos + 1)..Len(messages)
      BY <1>1, <1>3, <1>7, <3>1 DEF StateExact, Repeats
    <3> QED BY <1>4, <3>1
  <2>2. EventEnd(messages, r) = EventEnd(messages, o)
    BY <2>1 DEF EventEnd
  <2>3. window_start(messages[r].ts) \in DOMAIN s.open_windows
    BY <1>7, <2>1, <2>2 DEF StateExact
  <2> QED BY <1>2, <1>7, <2>1, <2>3 DEF IsClosed, EventEnd
<1> QED BY <1>1, <1>3, <1>6, <1>7 DEF closed

-----------------------------------------------------------------------------
(***************************************************************************)
(* A message is appended.                                                  *)
(***************************************************************************)
\* Producers append an event of the last MAX_DELAY with a fresh id, a copy of an event,
\* or a message without one.
MayFollow(messages, message) ==
    \/ message = Undecodable
    \/ \E r \in 1..Len(messages) : messages[r] # Undecodable /\ message = messages[r]
    \/ /\ message \in EventType
       /\ message.event_id = Len(messages)
       /\ message.ts >= now - MAX_DELAY
       /\ message.ts <= now

\* The messages after an append.
LEMMA AppendFacts ==
    ASSUME NEW messages \in MessageSeq, NEW message \in EventType \cup {Undecodable}
    PROVE  LET longer == Append(messages, message)
           IN  /\ longer \in MessageSeq
               /\ Len(messages) \in Nat
               /\ Len(longer) = Len(messages) + 1
               /\ longer[Len(messages) + 1] = message
               /\ \A o \in 1..Len(messages) : longer[o] = messages[o]
               /\ \A o \in 1..Len(longer) : o \in 1..Len(messages) \/ o = Len(messages) + 1
               /\ \A n \in 0..Len(messages) : \A w : EventsOf(longer, w, n) = EventsOf(messages, w, n)
<1> DEFINE longer == Append(messages, message)
<1>1. /\ longer \in MessageSeq
      /\ Len(messages) \in Nat
      /\ Len(longer) = Len(messages) + 1
      /\ longer[Len(messages) + 1] = message
      /\ \A o \in 1..Len(messages) : longer[o] = messages[o]
  BY DEF MessageSeq
<1> HIDE DEF longer
<1>2. \A o \in 1..Len(longer) : o \in 1..Len(messages) \/ o = Len(messages) + 1
  BY <1>1
<1>3. ASSUME NEW n \in 0..Len(messages), NEW w
      PROVE  EventsOf(longer, w, n) = EventsOf(messages, w, n)
  <2>1. \A o \in 1..n : longer[o] = messages[o]
    BY <1>1
  <2> QED BY <2>1 DEF EventsOf
<1> QED BY <1>1, <1>2, <1>3 DEF longer

\* A window that ended MAX_DELAY ago gets no more events.
LEMMA AppendKeepsOldWindows ==
    ASSUME NEW messages \in MessageSeq, NEW message \in EventType \cup {Undecodable},
           MayFollow(messages, message), now \in Int, NEW w \in Int,
           window_end(w) <= now - MAX_DELAY
    PROVE  EventsOf(Append(messages, message), w, Len(Append(messages, message)))
             = EventsOf(messages, w, Len(messages))
<1> DEFINE longer == Append(messages, message)
           n == Len(messages)
<1>1. /\ n \in Nat /\ n \in 0..n /\ Len(longer) = n + 1 /\ longer[n + 1] = message
      /\ EventsOf(longer, w, n) = EventsOf(messages, w, n)
  BY AppendFacts
<1> HIDE DEF longer
<1> SUFFICES EventsOf(longer, w, n + 1) = EventsOf(messages, w, n)
  BY <1>1 DEF longer
<1>2. CASE message # Undecodable /\ window_start(message.ts) = w
  <2>1. message \in EventsOf(messages, w, n)
    <3>1. CASE \E r \in 1..n : messages[r] # Undecodable /\ message = messages[r]
      BY <1>2, <3>1 DEF EventsOf
    <3>2. CASE message \in EventType /\ message.ts >= now - MAX_DELAY
      <4>1. message.ts \in Int /\ window_end(w) \in Int
        BY <3>2, WindowSizeAssumption DEF EventType, window_end
      <4>2. window_end(w) > message.ts
        BY <1>2, <4>1, EndAfterEvent
      <4> QED BY <3>2, <4>1, <4>2, DelayAssumption
    <3> QED BY <1>2, <3>1, <3>2 DEF MayFollow
  <2>2. EventsOf(longer, w, n + 1) = EventsOf(longer, w, n) \cup {message}
    BY <1>1, <1>2, EventsOfNext
  <2> QED BY <1>1, <2>1, <2>2
<1>3. CASE ~ (message # Undecodable /\ window_start(message.ts) = w)
  BY <1>1, <1>3, EventsOfNext
<1> QED BY <1>2, <1>3

\* The log stays in order.
LEMMA AppendLogExact ==
    ASSUME NEW messages \in MessageSeq, NEW message \in EventType \cup {Undecodable},
           MayFollow(messages, message), now \in Nat, PartitionLogExact(messages)
    PROVE  PartitionLogExact(Append(messages, message))
<1> DEFINE longer == Append(messages, message)
           n == Len(messages)
<1>1. /\ n \in Nat /\ Len(longer) = n + 1 /\ longer[n + 1] = message
      /\ \A o \in 1..n : longer[o] = messages[o]
      /\ \A o \in 1..Len(longer) : o \in 1..n \/ o = n + 1
  BY AppendFacts
<1> HIDE DEF longer
<1>2. \A o \in 1..n : messages[o] # Undecodable => messages[o].ts \in Int /\ messages[o].event_id \in Nat
  BY EventInstants DEF EventType
<1>3. \A o, q \in 1..n : Repeats(messages, q, o) => Repeats(longer, q, o)
  BY <1>1 DEF Repeats
<1>4. ASSUME message # Undecodable
      PROVE  /\ message.event_id < n + 1 /\ message.ts >= - MAX_DELAY /\ message.ts <= now
             /\ \A o \in 1..n : messages[o] # Undecodable =>
                   /\ messages[o].event_id = message.event_id => messages[o] = message
                   /\ message.ts >= messages[o].ts - MAX_DELAY \/ Repeats(longer, n + 1, o)
  <2>1. ASSUME NEW r \in 1..n, messages[r] # Undecodable, message = messages[r]
        PROVE  <1>4!2
    <3>1. message.event_id < n + 1 /\ message.ts >= - MAX_DELAY /\ message.ts <= now
      BY <1>1, <1>2, <2>1 DEF PartitionLogExact
    <3>2. ASSUME NEW o \in 1..n, messages[o] # Undecodable
          PROVE  /\ messages[o].event_id = message.event_id => messages[o] = message
                 /\ message.ts >= messages[o].ts - MAX_DELAY \/ Repeats(longer, n + 1, o)
      <4>1. messages[o].event_id = message.event_id => messages[o] = message
        BY <2>1, <3>2 DEF PartitionLogExact
      <4>2. CASE r <= o
        BY <1>1, <2>1, <4>1, <4>2 DEF Repeats
      <4>3. CASE o < r
        <5>1. messages[r].ts >= messages[o].ts - MAX_DELAY \/ Repeats(messages, r, o)
          BY <2>1, <3>2, <4>3 DEF PartitionLogExact
        <5>2. Repeats(messages, r, o) => Repeats(longer, n + 1, o)
          BY <1>1, <2>1 DEF Repeats
        <5> QED BY <2>1, <4>1, <5>1, <5>2
      <4> QED BY <1>1, <4>2, <4>3
    <3> QED BY <3>1, <3>2
  <2>2. ASSUME message \in EventType, message.event_id = n,
               message.ts >= now - MAX_DELAY, message.ts <= now
        PROVE  <1>4!2
    <3>1. message.ts \in Int
      BY <2>2 DEF EventType
    <3> QED BY <1>1, <1>2, <2>2, <3>1, DelayAssumption DEF PartitionLogExact
  <2> QED BY <1>4, <2>1, <2>2 DEF MayFollow
<1> SUFFICES ASSUME NEW o \in 1..Len(longer), longer[o] # Undecodable
             PROVE  /\ longer[o].event_id < o /\ longer[o].ts >= - MAX_DELAY /\ longer[o].ts <= now
                    /\ \A q \in 1..Len(longer) : longer[q] # Undecodable =>
                          /\ longer[q].event_id = longer[o].event_id => longer[q] = longer[o]
                          /\ o < q => \/ longer[q].ts >= longer[o].ts - MAX_DELAY
                                      \/ Repeats(longer, q, o)
  BY DEF PartitionLogExact, longer
<1>5. longer[o].event_id < o /\ longer[o].ts >= - MAX_DELAY /\ longer[o].ts <= now
  BY <1>1, <1>4 DEF PartitionLogExact
<1>6. ASSUME NEW q \in 1..Len(longer), longer[q] # Undecodable
      PROVE  /\ longer[q].event_id = longer[o].event_id => longer[q] = longer[o]
             /\ o < q => \/ longer[q].ts >= longer[o].ts - MAX_DELAY
                         \/ Repeats(longer, q, o)
  <2>1. CASE o \in 1..n /\ q \in 1..n
    BY <1>1, <1>3, <1>6, <2>1 DEF PartitionLogExact
  <2>2. CASE o \in 1..n /\ q = n + 1
    BY <1>1, <1>4, <1>6, <2>2
  <2>3. CASE o = n + 1
    BY <1>1, <1>4, <1>6, <2>3
  <2> QED BY <1>1, <2>1, <2>2, <2>3
<1> QED BY <1>5, <1>6

\* What a state has not read yet still comes in time.
LEMMA AppendStateExact ==
    ASSUME NEW messages \in MessageSeq, NEW message \in EventType \cup {Undecodable},
           MayFollow(messages, message), MAX_DELAY <= ALLOWED_LATENESS, now \in Int,
           NEW pos \in 0..Len(messages), NEW s, IsPartitionState(s),
           StateExact(s, messages, pos)
    PROVE  StateExact(s, Append(messages, message), pos)
<1> DEFINE longer == Append(messages, message)
           n == Len(messages)
<1>1. /\ n \in Nat /\ Len(longer) = n + 1 /\ longer[n + 1] = message
      /\ \A o \in 1..n : longer[o] = messages[o]
      /\ \A w : EventsOf(longer, w, pos) = EventsOf(messages, w, pos)
  BY AppendFacts
<1> HIDE DEF longer
<1>2. \A o \in 1..n : EventEnd(longer, o) = EventEnd(messages, o)
  BY <1>1 DEF EventEnd
<1>3. ASSUME NEW o \in (pos + 1)..n, messages[o] # Undecodable, NEW q, longer[q] = messages[o]
      PROVE  \/ Repeats(longer, q, pos)
             \/ EventEnd(longer, q) > watermark(s)
             \/ EventEnd(longer, q) <= s.flushed_watermark
  <2>1. EventEnd(longer, q) = EventEnd(messages, o)
    BY <1>3 DEF EventEnd
  <2>2. Repeats(messages, o, pos) => Repeats(longer, q, pos)
    BY <1>1, <1>3 DEF Repeats
  <2> QED BY <1>3, <2>1, <2>2 DEF StateExact
<1>4. ASSUME message # Undecodable
      PROVE  \/ Repeats(longer, n + 1, pos)
             \/ EventEnd(longer, n + 1) > watermark(s)
             \/ EventEnd(longer, n + 1) <= s.flushed_watermark
  <2>1. ASSUME NEW r \in 1..n, messages[r] # Undecodable, message = messages[r]
        PROVE  <1>4!2
    <3>1. CASE r \in 1..pos
      BY <1>1, <2>1, <3>1 DEF Repeats
    <3>2. CASE r \in (pos + 1)..n
      BY <1>1, <1>3, <2>1, <3>2
    <3> QED BY <3>1, <3>2
  <2>2. ASSUME message \in EventType, message.ts >= now - MAX_DELAY PROVE <1>4!2
    <3>1. message.ts \in Int /\ EventEnd(longer, n + 1) \in Int
          /\ EventEnd(longer, n + 1) > message.ts
      BY <1>1, <2>2, WindowInstants, EndAfterEvent DEF EventType, EventEnd
    <3>2. s.max_event_ts \in Int /\ s.max_event_ts <= now
      BY DEF IsPartitionState, StateExact
    <3> QED BY <2>2, <3>1, <3>2, LatenessAssumption, DelayAssumption DEF watermark
  <2> QED BY <1>4, <2>1, <2>2 DEF MayFollow
<1>5. ASSUME NEW o \in (pos + 1)..Len(longer), longer[o] # Undecodable
      PROVE  \/ Repeats(longer, o, pos)
             \/ EventEnd(longer, o) > watermark(s)
             \/ EventEnd(longer, o) <= s.flushed_watermark
  <2>1. o \in (pos + 1)..n \/ o = n + 1
    BY <1>1
  <2>2. CASE o = n + 1
    BY <1>1, <1>4, <1>5, <2>2
  <2>3. CASE o \in (pos + 1)..n
    BY <1>1, <1>3, <1>5, <2>3
  <2> QED BY <2>1, <2>2, <2>3
<1>6. \A o \in 1..pos : longer[o] = messages[o] /\ EventEnd(longer, o) = EventEnd(messages, o)
  BY <1>1, <1>2
<1> QED BY <1>1, <1>5, <1>6 DEF StateExact, longer

-----------------------------------------------------------------------------
(***************************************************************************)
(* The actions.                                                            *)
(***************************************************************************)
\* Initially there is nothing to count.
LEMMA InitExactInv == Init => ExactInv
BY BoundAssumption
   DEF Init, ExactInv, LogExact, PartitionLogExact, RowsExact, StatesExact, BatchesExact,
       PendingExact, ProgressExact

\* The invariant speaks of the log, the clock and the table.
LEMMA SameExact ==
    ASSUME UNCHANGED <<now, log>>
    PROVE  /\ LogExact' <=> LogExact
           /\ \A s, messages, pos : StateExact(s, messages, pos)' <=> StateExact(s, messages, pos)
           /\ agg_cells' = agg_cells =>
                /\ RowsExact' <=> RowsExact
                /\ \A p, wm, windows : FlushedBut(p, wm, windows)' <=> FlushedBut(p, wm, windows)
                /\ \A batch, p : BatchExact(batch, p)' <=> BatchExact(batch, p)
<1>1. LogExact' <=> LogExact
  BY DEF LogExact, PartitionLogExact
<1>2. \A s, messages, pos : StateExact(s, messages, pos)' <=> StateExact(s, messages, pos)
  BY DEF StateExact
<1>3. ASSUME agg_cells' = agg_cells
      PROVE  /\ RowsExact' <=> RowsExact
             /\ \A p, wm, windows : FlushedBut(p, wm, windows)' <=> FlushedBut(p, wm, windows)
             /\ \A batch, p : BatchExact(batch, p)' <=> BatchExact(batch, p)
  <2>1. \A p, w : Published(p, w)' <=> Published(p, w)
    BY <1>3 DEF Published
  <2>2. \A w, c, p : TruthRow(w, c, p)' = TruthRow(w, c, p)
    BY DEF TruthRow, TruthIds, TruthUsers, TruthOffsets
  <2>3. RowsExact' <=> RowsExact
    BY <1>3, <2>1, <2>2 DEF RowsExact
  <2>4. \A p, wm, windows : FlushedBut(p, wm, windows)' <=> FlushedBut(p, wm, windows)
    BY <2>1 DEF FlushedBut
  <2>5. \A batch, p : BatchExact(batch, p)' <=> BatchExact(batch, p)
    BY <2>4 DEF BatchExact
  <2> QED BY <2>3, <2>4, <2>5
<1> QED BY <1>1, <1>2, <1>3

\* Sparing more windows is easier.
LEMMA FlushedWider ==
    ASSUME NEW p, NEW wm, NEW windows, FlushedBut(p, wm, {})
    PROVE  FlushedBut(p, wm, windows)
BY DEF FlushedBut

\* The facts about one state that the proofs below start from.
LEMMA StateFacts ==
    ASSUME TypeInv, ResumeInv, ExactInv, NEW i \in Instances, NEW p \in DOMAIN states[i]
    PROVE  /\ p \in Partitions
           /\ now \in Nat
           /\ log[p] \in MessageSeq
           /\ PartitionLogExact(log[p])
           /\ IsPartitionState(states[i][p])
           /\ position[i][p] \in 0..Len(log[p])
           /\ StateExact(states[i][p], log[p], position[i][p])
           /\ FlushedBut(p, states[i][p].flushed_watermark, Taken(i, p))
<1> USE DEF TypeInv, TypeOK
<1>1. /\ p \in Partitions /\ IsPartitionState(states[i][p]) /\ position[i][p] \in Nat
  BY DEF InstanceTypeOK, DomainsOK, IsPartitionMap
<1>2. now \in Nat /\ log[p] \in MessageSeq
  BY <1>1 DEF KafkaTypeOK, MessageSeq
<1>3. position[i][p] <= Len(log[p])
  BY DEF ResumeInv, StatesSound, StateSound
<1>4. /\ StateExact(states[i][p], log[p], position[i][p])
      /\ FlushedBut(p, states[i][p].flushed_watermark, Taken(i, p))
      /\ PartitionLogExact(log[p])
  BY <1>1 DEF ExactInv, LogExact, StatesExact
<1>5. position[i][p] \in 0..Len(log[p])
  BY <1>1, <1>2, <1>3 DEF MessageSeq
<1> QED BY <1>1, <1>2, <1>4, <1>5

\* Time passes: what was over stays over.
LEMMA TickExact ==
    ASSUME TypeInv, ResumeInv, ExactInv, Tick
    PROVE  ExactInv'
<1> USE DEF TypeInv, TypeOK
<1>1. /\ now \in Nat /\ now' = now + 1 /\ now' <= MAX_TIME
      /\ UNCHANGED <<log, position, pending, states, inflight, agg_cells, partition_progress>>
  BY BoundAssumption DEF Tick, KafkaTypeOK
<1>2. LogExact'
  <2> SUFFICES ASSUME NEW p \in Partitions, NEW o \in 1..Len(log[p]), log[p][o] # Undecodable
               PROVE  log[p][o].ts <= now => log[p][o].ts <= now'
    BY <1>1 DEF ExactInv, LogExact, PartitionLogExact
  <2>1. log[p][o].ts \in Int
    BY EventInstants DEF KafkaTypeOK, MessageSeq
  <2> QED BY <1>1, <2>1
<1>3. ASSUME NEW p, NEW wm \in Int, NEW windows, FlushedBut(p, wm, windows)
      PROVE  FlushedBut(p, wm, windows)'
  BY <1>1, <1>3, DelayAssumption DEF FlushedBut, Published
<1>4. RowsExact'
  <2>1. \A w, c, p : TruthRow(w, c, p)' = TruthRow(w, c, p) /\ (Published(p, w)' <=> Published(p, w))
    BY <1>1 DEF TruthRow, TruthIds, TruthUsers, TruthOffsets, Published
  <2>2. \A w \in Int : window_end(w) <= now - MAX_DELAY => window_end(w) <= now' - MAX_DELAY
    BY <1>1, DelayAssumption, WindowSizeAssumption DEF window_end
  <2> QED BY <1>1, <2>1, <2>2 DEF ExactInv, RowsExact
<1>5. StatesExact'
  <2> SUFFICES ASSUME NEW i \in Instances, NEW p \in DOMAIN states[i]
               PROVE  /\ StateExact(states[i][p], log[p], position[i][p])'
                      /\ FlushedBut(p, states[i][p].flushed_watermark, Taken(i, p))'
    BY <1>1 DEF StatesExact
  <2>1. /\ IsPartitionState(states[i][p])
        /\ StateExact(states[i][p], log[p], position[i][p])
        /\ FlushedBut(p, states[i][p].flushed_watermark, Taken(i, p))
    BY StateFacts
  <2>2. states[i][p].max_event_ts \in Int /\ states[i][p].flushed_watermark \in Int
    BY <2>1 DEF IsPartitionState
  <2>3. StateExact(states[i][p], log[p], position[i][p])'
    BY <1>1, <2>1, <2>2 DEF StateExact
  <2>4. Taken(i, p)' = Taken(i, p)
    BY <1>1 DEF Taken
  <2> QED BY <1>1, <1>3, <2>1, <2>2, <2>3, <2>4
<1>6. BatchesExact'
  <2> SUFFICES ASSUME NEW i \in Instances, NEW p \in DOMAIN inflight[i]
               PROVE  BatchExact(inflight[i][p], p)'
    BY <1>1 DEF BatchesExact
  <2>1. IsBatch(inflight[i][p]) /\ BatchExact(inflight[i][p], p)
    BY DEF InstanceTypeOK, IsPartitionMap, ExactInv, BatchesExact
  <2>2. inflight[i][p].flushed_watermark \in Int
        /\ \A w \in DOMAIN inflight[i][p].closed : window_end(w) \in Int
    BY <2>1, WindowSizeAssumption DEF IsBatch, IsProgress, AreWindows, window_end
  <2>3. FlushedBut(p, inflight[i][p].flushed_watermark, DOMAIN inflight[i][p].closed)'
    BY <1>1, <1>3, <2>1, <2>2 DEF BatchExact
  <2> QED BY <1>1, <2>1, <2>2, <2>3, DelayAssumption DEF BatchExact
<1>7. PendingExact'
  BY <1>1, <1>3 DEF InstanceTypeOK, IsPartitionMap, IsProgress, ExactInv, PendingExact
<1>8. ProgressExact'
  BY <1>1, <1>3 DEF DbTypeOK, IsPartitionMap, IsProgress, ExactInv, ProgressExact
<1> QED BY <1>2, <1>4, <1>5, <1>6, <1>7, <1>8 DEF ExactInv

\* What producers append (Produce, ProduceDuplicate, ProduceUndecodable).
LEMMA ProducersFollow ==
    ASSUME TypeInv, DocumentedConditions, NEW p \in Partitions,
           Produce(p) \/ ProduceDuplicate(p) \/ ProduceUndecodable(p)
    PROVE  \E message \in EventType \cup {Undecodable} :
               MayFollow(log[p], message) /\ AppendMessage(p, message)
<1>0. KafkaTypeOK /\ now \in Nat /\ Len(log[p]) \in Nat
  BY DEF TypeInv, TypeOK, KafkaTypeOK
<1>1. CASE Produce(p)
  <2>1. PICK user \in Users, page \in Pages, ts \in (now - MAX_DELAY)..(now + MAX_SKEW) :
           AppendMessage(p, Event(p, user, page, ts))
    BY <1>1 DEF Produce
  <2>2. ts \in Int /\ ts >= now - MAX_DELAY /\ ts <= now
    BY <1>0, DelayAssumption DEF DocumentedConditions
  <2>3. Event(p, user, page, ts) \in EventType
    BY <1>0, <2>2 DEF Event, EventType
  <2>4. MayFollow(log[p], Event(p, user, page, ts))
    BY <2>2, <2>3 DEF MayFollow, Event
  <2> QED BY <2>1, <2>3, <2>4
<1>2. CASE ProduceDuplicate(p)
  BY <1>0, <1>2, MessageType DEF ProduceDuplicate, MayFollow
<1>3. CASE ProduceUndecodable(p)
  BY <1>3 DEF ProduceUndecodable, MayFollow
<1> QED BY <1>1, <1>2, <1>3

\* Windows that are over do not change when the log grows.
LEMMA AppendKeepsTruth ==
    ASSUME TypeInv, NEW p \in Partitions, NEW message \in EventType \cup {Undecodable},
           MayFollow(log[p], message), AppendMessage(p, message),
           NEW q \in Partitions, NEW w \in Int, window_end(w) <= now - MAX_DELAY
    PROVE  /\ EventsOf(log'[q], w, Len(log'[q])) = EventsOf(log[q], w, Len(log[q]))
           /\ \A c : TruthRow(w, c, q)' = TruthRow(w, c, q)
           /\ Published(q, w)' <=> Published(q, w)
<1>1. /\ now \in Nat /\ log[p] \in MessageSeq /\ agg_cells' = agg_cells
      /\ log'[q] = IF q = p THEN Append(log[p], message) ELSE log[q]
  BY DEF TypeInv, TypeOK, KafkaTypeOK, AppendMessage, MessageSeq
<1>2. EventsOf(log'[q], w, Len(log'[q])) = EventsOf(log[q], w, Len(log[q]))
  BY <1>1, AppendKeepsOldWindows
<1>3. \A c : TruthRow(w, c, q)' = TruthRow(w, c, q)
  BY <1>2, TruthIsEvents DEF TruthRow
<1>4. Published(q, w)' <=> Published(q, w)
  BY <1>1, <1>2 DEF Published
<1> QED BY <1>2, <1>3, <1>4

\* Producers keep the invariant.
LEMMA AppendExact ==
    ASSUME TypeInv, ResumeInv, ExactInv, DocumentedConditions, NEW p \in Partitions,
           Produce(p) \/ ProduceDuplicate(p) \/ ProduceUndecodable(p)
    PROVE  ExactInv'
<1> USE DEF TypeInv, TypeOK
<1>1. PICK message \in EventType \cup {Undecodable} :
         MayFollow(log[p], message) /\ AppendMessage(p, message)
  BY ProducersFollow
<1>2. /\ UNCHANGED <<now, position, pending, states, inflight, agg_cells, partition_progress>>
      /\ now \in Nat
      /\ \A q \in Partitions : /\ log[q] \in MessageSeq
                               /\ log'[q] = IF q = p THEN Append(log[p], message) ELSE log[q]
  BY <1>1 DEF KafkaTypeOK, AppendMessage, MessageSeq
<1>3. LogExact'
  <2> SUFFICES ASSUME NEW q \in Partitions PROVE PartitionLogExact(log[q])'
    BY <1>2 DEF ExactInv, LogExact
  <2>1. PartitionLogExact(log'[q])
    BY <1>1, <1>2, AppendLogExact DEF ExactInv, LogExact
  <2> QED BY <1>2, <2>1 DEF PartitionLogExact
<1>4. ASSUME NEW q \in Partitions, NEW wm \in Int, NEW windows, FlushedBut(q, wm, windows)
      PROVE  FlushedBut(q, wm, windows)'
  <2>1. wm <= now - MAX_DELAY /\ now' = now
    BY <1>2, <1>4 DEF FlushedBut
  <2>2. ASSUME NEW w \in Int, window_end(w) <= wm, w \notin windows
        PROVE  Published(q, w)'
    <3>1. window_end(w) <= now - MAX_DELAY
      BY <1>2, <2>1, <2>2, DelayAssumption, WindowSizeAssumption DEF window_end
    <3>2. Published(q, w)
      BY <1>4, <2>2 DEF FlushedBut
    <3> QED BY <1>1, <3>1, <3>2, AppendKeepsTruth
  <2> QED BY <2>1, <2>2 DEF FlushedBut
<1>5. RowsExact'
  <2> SUFFICES ASSUME NEW key \in DOMAIN agg_cells
               PROVE  /\ key = <<key[1], key[2], key[3]>> /\ key[1] \in Int /\ key[3] \in Partitions
                      /\ window_end(key[1]) <= now - MAX_DELAY
                      /\ agg_cells[key] = TruthRow(key[1], key[2], key[3])'
                      /\ Published(key[3], key[1])'
    BY <1>2 DEF RowsExact
  <2>1. /\ key = <<key[1], key[2], key[3]>> /\ key[1] \in Int /\ key[3] \in Partitions
        /\ window_end(key[1]) <= now - MAX_DELAY
        /\ agg_cells[key] = TruthRow(key[1], key[2], key[3])
        /\ Published(key[3], key[1])
    BY DEF ExactInv, RowsExact
  <2> QED BY <1>1, <2>1, AppendKeepsTruth
<1>6. StatesExact'
  <2> SUFFICES ASSUME NEW i \in Instances, NEW q \in DOMAIN states[i]
               PROVE  /\ StateExact(states[i][q], log[q], position[i][q])'
                      /\ FlushedBut(q, states[i][q].flushed_watermark, Taken(i, q))'
    BY <1>2 DEF StatesExact
  <2> DEFINE s == states[i][q]
             pos == position[i][q]
  <2>1. /\ q \in Partitions /\ IsPartitionState(s) /\ pos \in 0..Len(log[q])
        /\ StateExact(s, log[q], pos)
        /\ FlushedBut(q, s.flushed_watermark, Taken(i, q))
    BY StateFacts
  <2>2. StateExact(s, log'[q], pos)
    BY <1>1, <1>2, <2>1, AppendStateExact DEF DocumentedConditions
  <2>3. StateExact(states[i][q], log[q], position[i][q])'
    BY <1>2, <2>2 DEF StateExact
  <2>4. Taken(i, q)' = Taken(i, q)
    BY <1>2 DEF Taken
  <2>5. s.flushed_watermark \in Int
    BY <2>1 DEF IsPartitionState
  <2> QED BY <1>2, <1>4, <2>1, <2>3, <2>4, <2>5
<1>7. BatchesExact'
  <2> SUFFICES ASSUME NEW i \in Instances, NEW q \in DOMAIN inflight[i]
               PROVE  BatchExact(inflight[i][q], q)'
    BY <1>2 DEF BatchesExact
  <2> DEFINE batch == inflight[i][q]
  <2>1. q \in Partitions /\ IsBatch(batch) /\ BatchExact(batch, q)
    BY DEF InstanceTypeOK, IsPartitionMap, ExactInv, BatchesExact
  <2>2. batch.flushed_watermark \in Int /\ \A w \in DOMAIN batch.closed : w \in Int
    BY <2>1 DEF IsBatch, IsProgress, AreWindows
  <2>3. FlushedBut(q, batch.flushed_watermark, DOMAIN batch.closed)'
    BY <1>2, <1>4, <2>1, <2>2 DEF BatchExact
  <2>4. ASSUME NEW w \in DOMAIN batch.closed
        PROVE  /\ window_end(w) <= now - MAX_DELAY
               /\ Holds(batch.closed[w], EventsOf(log'[q], w, Len(log'[q])))
    BY <1>1, <2>1, <2>2, AppendKeepsTruth DEF BatchExact
  <2> QED BY <1>2, <2>3, <2>4 DEF BatchExact
<1>8. PendingExact'
  BY <1>2, <1>4 DEF InstanceTypeOK, IsPartitionMap, IsProgress, ExactInv, PendingExact
<1>9. ProgressExact'
  BY <1>2, <1>4 DEF DbTypeOK, IsPartitionMap, IsProgress, ExactInv, ProgressExact
<1> QED BY <1>3, <1>5, <1>6, <1>7, <1>8, <1>9 DEF ExactInv

\* A step that leaves the clock, the log and the table alone keeps what is said of them.
LEMMA MemoryStepExact ==
    ASSUME ExactInv, UNCHANGED <<now, log, agg_cells, partition_progress>>,
           StatesExact', BatchesExact', PendingExact'
    PROVE  ExactInv'
<1>1. LogExact' /\ RowsExact'
  BY SameExact DEF ExactInv
<1>2. ProgressExact'
  BY SameExact DEF ExactInv, ProgressExact
<1> QED BY <1>1, <1>2 DEF ExactInv

\* post_rebalance reads a progress row, or starts a day back, where there is nothing.
LEMMA AssignExact ==
    ASSUME TypeInv, ExactInv, DocumentedConditions, NEW i \in Instances, NEW p \in Partitions,
           AssignLoaded(i, p) \/ AssignLoadError(i, p)
    PROVE  ExactInv'
<1> USE DEF TypeInv, TypeOK
<1>1. PICK progress : /\ progress \in {NoProgress, LoadedProgress(p)}
                      /\ Assign(i, p, progress)
  BY DEF AssignLoaded, AssignLoadError
<1>2. FlushedBut(p, NoProgress.flushed_watermark, {})
  <2> DEFINE wm == now - ONE_DAY
  <2>1. /\ now \in Nat /\ log[p] \in MessageSeq /\ PartitionLogExact(log[p]) /\ now <= MAX_TIME
    BY DEF KafkaTypeOK, MessageSeq, ExactInv, LogExact
  <2>2. wm \in Int /\ wm <= - MAX_DELAY /\ wm <= now - MAX_DELAY
    BY <2>1, DayAssumption, DelayAssumption, BoundAssumption DEF DocumentedConditions
  <2>3. ASSUME NEW w \in Int, window_end(w) <= wm PROVE Published(p, w)
    <3>1. ASSUME NEW o \in 1..Len(log[p]), log[p][o] # Undecodable, window_start(log[p][o].ts) = w
          PROVE  FALSE
      <4>1. log[p][o].ts \in Int /\ EventEnd(log[p], o) > log[p][o].ts
        BY <2>1, <3>1, EventInstants
      <4>2. log[p][o].ts >= - MAX_DELAY
        BY <2>1, <3>1 DEF PartitionLogExact
      <4>3. EventEnd(log[p], o) = window_end(w) /\ window_end(w) \in Int
        BY <3>1, WindowSizeAssumption DEF EventEnd, window_end
      <4> QED BY <2>2, <2>3, <4>1, <4>2, <4>3, DelayAssumption
    <3> QED BY <3>1 DEF Published, EventsOf
  <2> QED BY <2>2, <2>3 DEF NoProgress, FlushedBut
<1>3. FlushedBut(p, progress.flushed_watermark, {})
  BY <1>1, <1>2 DEF LoadedProgress, ExactInv, ProgressExact
<1>4. UNCHANGED <<now, log, states, inflight, agg_cells, partition_progress>>
  BY <1>1 DEF Assign
<1>5. StatesExact'
  <2>1. \A j \in Instances : \A q \in DOMAIN states[j] : position'[j][q] = position[j][q]
    BY <1>1 DEF Assign, Put, DomainsOK, InstanceTypeOK
  <2>2. \A j, q : Taken(j, q)' = Taken(j, q)
    BY <1>4 DEF Taken
  <2> QED BY <1>4, <2>1, <2>2, SameExact DEF ExactInv, StatesExact
<1>6. BatchesExact'
  BY <1>4, SameExact DEF ExactInv, BatchesExact
<1>7. PendingExact'
  BY <1>1, <1>3, <1>4, SameExact DEF Assign, Put, InstanceTypeOK, ExactInv, PendingExact
<1> QED BY <1>4, <1>5, <1>6, <1>7, MemoryStepExact

\* The state that post_rebalance installs has read nothing that it will need.
LEMMA InstallExact ==
    ASSUME TypeInv, ResumeInv, ExactInv, NEW i \in Instances, NEW p \in Partitions,
           InstallState(i, p) \/ InstallStateSeekFailed(i, p)
    PROVE  ExactInv'
<1> USE DEF TypeInv, TypeOK
<1> DEFINE offset == pending[i][p].committed_offset
           wm == pending[i][p].flushed_watermark
           s == resume_from(offset, wm)
<1>1. /\ p \in DOMAIN pending[i] /\ offset \in Nat /\ wm \in Int /\ position[i][p] = 0
      /\ Gapless(p, offset, wm)
      /\ FlushedBut(p, wm, {})
      /\ now \in Nat /\ log[p] \in MessageSeq /\ Len(log[p]) \in Nat
  BY DEF InstallState, InstallStateSeekFailed, InstanceTypeOK, IsPartitionMap, IsProgress,
         ResumeInv, PendingSound, ExactInv, PendingExact, KafkaTypeOK, MessageSeq
<1>2. PICK pos \in {0, offset} : Install(i, p, pos)
  BY <1>1 DEF InstallState, InstallStateSeekFailed
<1>3. /\ UNCHANGED <<now, log, inflight, agg_cells, partition_progress>>
      /\ position' = [position EXCEPT ![i] = Put(@, p, pos)]
      /\ states' = [states EXCEPT ![i] = Put(@, p, s)]
      /\ pending' = [pending EXCEPT ![i] = Drop(@, p)]
  BY <1>2 DEF Install
<1>4. StateExact(s, log[p], pos)
  <2>1. offset \in 0..Len(log[p]) /\ wm <= now
    BY <1>1, DelayAssumption DEF Gapless, FlushedBut
  <2>2. ASSUME NEW o \in 1..offset, log[p][o] # Undecodable
        PROVE  EventEnd(log[p], o) <= wm
    <3>1. o \in 1..Len(log[p])
      BY <1>1, <2>1
    <3>2. EventEnd(log[p], o) \in Int
      BY <1>1, <2>2, <3>1, EventInstants
    <3>3. o - 1 \in 0..(offset - 1) /\ (o - 1) + 1 = o
      BY <1>1
    <3>4. ~ Unflushed(p, o - 1, wm)
      BY <1>1, <3>3 DEF Gapless
    <3> QED BY <1>1, <2>2, <3>2, <3>3, <3>4 DEF Unflushed, EventEnd
  <2> QED BY <1>1, <2>1, <2>2, ResumeExact
<1>5. FlushedBut(p, s.flushed_watermark, Taken(i, p))
  BY <1>1, FlushedWider DEF resume_from
<1>6. \A j, q : Taken(j, q)' = Taken(j, q)
  BY <1>3 DEF Taken
<1> HIDE DEF s, offset, wm
<1>7. StatesExact'
  BY <1>3, <1>4, <1>5, <1>6, SameExact DEF Put, InstanceTypeOK, DomainsOK, ExactInv, StatesExact
<1>8. BatchesExact'
  BY <1>3, SameExact DEF ExactInv, BatchesExact
<1>9. PendingExact'
  BY <1>3, SameExact DEF Drop, Restrict, InstanceTypeOK, ExactInv, PendingExact
<1> QED BY <1>3, <1>7, <1>8, <1>9, MemoryStepExact

\* Crash, revocation and session timeout forget; they never undo a flush.
LEMMA ReleaseExact ==
    ASSUME TypeInv, ExactInv, NEW i \in Instances,
           SessionTimeout(i) \/ Crash(i) \/ \E p \in Partitions : Revoke(i, p)
    PROVE  ExactInv'
<1> USE DEF TypeInv, TypeOK
<1>1. UNCHANGED <<now, log, agg_cells, partition_progress>>
  BY DEF SessionTimeout, Crash, Revoke
<1>2. CASE SessionTimeout(i)
  <2>1. UNCHANGED <<position, pending, states, inflight>>
    BY <1>2 DEF SessionTimeout
  <2>2. \A j, q : Taken(j, q)' = Taken(j, q)
    BY <2>1 DEF Taken
  <2>3. StatesExact' /\ BatchesExact' /\ PendingExact'
    BY <1>1, <2>1, <2>2, SameExact DEF ExactInv, StatesExact, BatchesExact, PendingExact
  <2> QED BY <1>1, <2>3, MemoryStepExact
<1>3. CASE Crash(i)
  <2>1. /\ position' = [position EXCEPT ![i] = << >>]
        /\ pending' = [pending EXCEPT ![i] = << >>]
        /\ states' = [states EXCEPT ![i] = << >>]
        /\ inflight' = [inflight EXCEPT ![i] = << >>]
    BY <1>3 DEF Crash
  <2>2. \A j \in Instances : \A q : j # i => Taken(j, q)' = Taken(j, q)
    BY <2>1 DEF Taken, InstanceTypeOK
  <2>3. StatesExact'
    BY <1>1, <2>1, <2>2, SameExact DEF InstanceTypeOK, ExactInv, StatesExact
  <2>4. BatchesExact' /\ PendingExact'
    BY <1>1, <2>1, SameExact DEF InstanceTypeOK, ExactInv, BatchesExact, PendingExact
  <2> QED BY <1>1, <2>3, <2>4, MemoryStepExact
<1>4. ASSUME NEW p \in Partitions, Revoke(i, p) PROVE ExactInv'
  <2>1. /\ states' = [states EXCEPT ![i] = Drop(@, p)]
        /\ position' = [position EXCEPT ![i] = Drop(@, p)]
        /\ UNCHANGED <<pending, inflight>>
    BY <1>4 DEF Revoke
  <2>2. \A j, q : Taken(j, q)' = Taken(j, q)
    BY <2>1 DEF Taken
  <2>3. StatesExact'
    BY <1>1, <2>1, <2>2, SameExact
       DEF Drop, Restrict, InstanceTypeOK, DomainsOK, ExactInv, StatesExact
  <2>4. BatchesExact' /\ PendingExact'
    BY <1>1, <2>1, SameExact DEF ExactInv, BatchesExact, PendingExact
  <2> QED BY <1>1, <2>3, <2>4, MemoryStepExact
<1> QED BY <1>2, <1>3, <1>4

\* The message loop and the idle loop.
LEMMA MemoryExact ==
    ASSUME TypeInv, ResumeInv, ExactInv, DocumentedConditions,
           NEW i \in Instances, NEW p \in Partitions,
           ProcessMessage(i, p) \/ SkipUndecodable(i, p) \/ IdleTick(i, p)
    PROVE  ExactInv'
<1> USE DEF TypeInv, TypeOK
<1> DEFINE s == states[i][p]
           pos == position[i][p]
<1>1. /\ UNCHANGED <<now, log, pending, inflight, agg_cells, partition_progress>>
      /\ p \in DOMAIN states[i] /\ p \in DOMAIN position[i]
  BY DEF ProcessMessage, SkipUndecodable, IdleTick, Fetched, Idle, InstanceTypeOK, DomainsOK
<1>2. /\ now \in Nat /\ log[p] \in MessageSeq /\ PartitionLogExact(log[p]) /\ IsPartitionState(s)
      /\ pos \in 0..Len(log[p])
      /\ StateExact(s, log[p], pos)
      /\ FlushedBut(p, s.flushed_watermark, Taken(i, p))
  BY <1>1, StateFacts
<1>3. PICK t, n :
         /\ StateExact(t, log[p], n)
         /\ t.flushed_watermark = s.flushed_watermark
         /\ \A j \in Instances : \A q \in DOMAIN states'[j] :
               /\ q \in DOMAIN states[j]
               /\ IF j = i /\ q = p
                  THEN states'[j][q] = t /\ position'[j][q] = n
                  ELSE states'[j][q] = states[j][q] /\ position'[j][q] = position[j][q]
  <2>1. CASE ProcessMessage(i, p)
    <3> DEFINE t == process_event(s, log[p][pos + 1], pos)
    <3>1. pos < Len(log[p]) /\ log[p][pos + 1] # Undecodable
      BY <2>1 DEF ProcessMessage, Fetched
    <3>2. StateExact(t, log[p], pos + 1) /\ t.flushed_watermark = s.flushed_watermark
      BY <1>2, <3>1, ProcessExact DEF DocumentedConditions, process_event
    <3>3. states' = [states EXCEPT ![i] = Put(@, p, t)]
      BY <1>1, <2>1 DEF ProcessMessage, StateFor
    <3>4. position' = [position EXCEPT ![i][p] = pos + 1]
      BY <2>1 DEF ProcessMessage, Fetched
    <3> HIDE DEF t
    <3> QED BY <1>1, <3>2, <3>3, <3>4 DEF Put, InstanceTypeOK, DomainsOK
  <2>2. CASE SkipUndecodable(i, p)
    <3>1. pos < Len(log[p]) /\ log[p][pos + 1] = Undecodable /\ states' = states
      BY <2>2 DEF SkipUndecodable, Fetched
    <3>2. StateExact(s, log[p], pos + 1)
      BY <1>2, <3>1, SkipExact
    <3>3. position' = [position EXCEPT ![i][p] = pos + 1]
      BY <2>2 DEF SkipUndecodable, Fetched
    <3> QED BY <1>1, <3>1, <3>2, <3>3 DEF InstanceTypeOK, DomainsOK
  <2>3. CASE IdleTick(i, p)
    <3> DEFINE t == tick_idle(s, now)
    <3>1. pos = Len(log[p])
      BY <2>3 DEF IdleTick, IdleTimeoutMayExpire, DocumentedConditions
    <3>2. StateExact(t, log[p], pos)
      BY <1>2, <3>1, TickIdleExact
    <3>3. t.flushed_watermark = s.flushed_watermark
      BY <1>2 DEF tick_idle, IsPartitionState
    <3>4. states' = [states EXCEPT ![i][p] = t] /\ position' = position
      BY <2>3 DEF IdleTick
    <3> HIDE DEF t
    <3> QED BY <1>1, <3>2, <3>3, <3>4 DEF InstanceTypeOK
  <2> QED BY <2>1, <2>2, <2>3
<1>4. \A j, q : Taken(j, q)' = Taken(j, q)
  BY <1>1 DEF Taken
<1>5. StatesExact'
  BY <1>1, <1>2, <1>3, <1>4, SameExact DEF ExactInv, StatesExact
<1>6. BatchesExact' /\ PendingExact'
  BY <1>1, SameExact DEF ExactInv, BatchesExact, PendingExact
<1> QED BY <1>1, <1>5, <1>6, MemoryStepExact

\* The flush loop takes windows that are complete.
LEMMA TakeBatchesExact ==
    ASSUME TypeInv, ResumeInv, ExactInv, DocumentedConditions, NEW i \in Instances, TakeBatches(i)
    PROVE  ExactInv'
<1> USE DEF TypeInv, TypeOK
<1>1. /\ UNCHANGED <<now, log, position, pending, agg_cells, partition_progress>>
      /\ inflight[i] = << >>
      /\ inflight' = [inflight EXCEPT ![i] =
             [p \in {p \in DOMAIN states[i] : DOMAIN closed_windows(states[i][p]) # {}} |->
                 Batch(states[i][p])]]
      /\ states' = [states EXCEPT ![i] = [p \in DOMAIN @ |-> take_closed_windows(@[p])]]
  BY DEF TakeBatches
<1>2. ASSUME NEW p \in DOMAIN states[i]
      PROVE  LET s == states[i][p]
             IN  /\ StateExact(take_closed_windows(s), log[p], position[i][p])
                 /\ FlushedBut(p, take_closed_windows(s).flushed_watermark, DOMAIN closed_windows(s))
                 /\ BatchExact(Batch(s), p)
  <2> DEFINE s == states[i][p]
             pos == position[i][p]
             closed == closed_windows(s)
             wm == take_closed_windows(s).flushed_watermark
  <2>1. /\ now \in Nat /\ log[p] \in MessageSeq /\ IsPartitionState(s)
        /\ pos \in 0..Len(log[p]) /\ StateExact(s, log[p], pos)
        /\ FlushedBut(p, s.flushed_watermark, Taken(i, p))
    BY StateFacts
  <2>2. Taken(i, p) = {}
    BY <1>1 DEF Taken
  <2>3. StateExact(take_closed_windows(s), log[p], pos)
    BY <2>1, TakeExact
  <2>4. /\ \A w \in DOMAIN closed :
              /\ window_end(w) <= now - ALLOWED_LATENESS
              /\ Holds(closed[w], EventsOf(log[p], w, Len(log[p])))
        /\ \A o \in 1..Len(log[p]) :
              log[p][o] # Undecodable =>
                 \/ EventEnd(log[p], o) <= s.flushed_watermark
                 \/ EventEnd(log[p], o) > watermark(s)
                 \/ window_start(log[p][o].ts) \in DOMAIN closed
    BY <2>1, ClosedExact
  <2>5. \A w \in DOMAIN closed : w \in Int /\ window_end(w) \in Int
    BY <2>1, WindowSizeAssumption, TakeFacts DEF AreWindows, window_end
  <2>6. /\ wm = IF watermark(s) > s.flushed_watermark THEN watermark(s) ELSE s.flushed_watermark
        /\ watermark(s) \in Int /\ s.flushed_watermark \in Int
        /\ watermark(s) <= now - ALLOWED_LATENESS
    BY <2>1, LatenessAssumption DEF take_closed_windows, IsPartitionState, watermark, StateExact
  <2> HIDE DEF closed, wm
  <2>7. FlushedBut(p, wm, DOMAIN closed)
    <3>1. s.flushed_watermark <= now - MAX_DELAY
      BY <2>1 DEF FlushedBut
    <3>2. wm <= now - MAX_DELAY
      BY <2>1, <2>6, <3>1, LatenessAssumption, DelayAssumption DEF DocumentedConditions
    <3>3. ASSUME NEW w \in Int, window_end(w) <= wm, w \notin DOMAIN closed
          PROVE  Published(p, w)
      <4>1. window_end(w) \in Int
        BY WindowSizeAssumption DEF window_end
      <4>2. CASE window_end(w) <= s.flushed_watermark
        BY <2>1, <2>2, <4>2 DEF FlushedBut
      <4>3. CASE window_end(w) > s.flushed_watermark
        <5>1. ~ (window_end(w) <= s.flushed_watermark) /\ ~ (window_end(w) > watermark(s))
          BY <2>6, <3>3, <4>1, <4>3
        <5>2. EventsOf(log[p], w, Len(log[p])) = {}
          BY <2>4, <3>3, <5>1 DEF EventsOf, EventEnd
        <5> QED BY <5>2 DEF Published
      <4> QED BY <2>6, <4>1, <4>2, <4>3
    <3> QED BY <3>2, <3>3 DEF FlushedBut
  <2>8. BatchExact(Batch(s), p)
    <3>1. Batch(s).closed = closed /\ Batch(s).flushed_watermark = wm
      BY DEF Batch, closed, wm
    <3>2. \A w \in DOMAIN closed : window_end(w) <= now - MAX_DELAY
      BY <2>1, <2>4, <2>5, LatenessAssumption, DelayAssumption DEF DocumentedConditions
    <3> QED BY <2>4, <2>7, <3>1, <3>2 DEF BatchExact
  <2> QED BY <2>3, <2>7, <2>8 DEF closed, wm
<1>3. ASSUME NEW j \in Instances, NEW q \in DOMAIN states'[j]
      PROVE  /\ StateExact(states'[j][q], log[q], position[j][q])
             /\ FlushedBut(q, states'[j][q].flushed_watermark, Taken(j, q)')
  <2>1. CASE j # i
    <3>1. states'[j] = states[j] /\ Taken(j, q)' = Taken(j, q)
      BY <1>1, <2>1 DEF InstanceTypeOK, Taken
    <3> QED BY <3>1 DEF ExactInv, StatesExact
  <2>2. CASE j = i
    <3>1. q \in DOMAIN states[i] /\ states'[i][q] = take_closed_windows(states[i][q])
      BY <1>1, <2>2 DEF InstanceTypeOK
    <3>2. Taken(i, q)' = DOMAIN closed_windows(states[i][q])
      BY <1>1, <3>1 DEF InstanceTypeOK, Taken, Batch
    <3> QED BY <1>2, <2>2, <3>1, <3>2
  <2> QED BY <2>1, <2>2
<1>4. StatesExact'
  BY <1>1, <1>3, SameExact DEF StatesExact
<1>5. BatchesExact'
  BY <1>1, <1>2, SameExact DEF InstanceTypeOK, ExactInv, BatchesExact
<1>6. PendingExact'
  BY <1>1, SameExact DEF ExactInv, PendingExact
<1> QED BY <1>1, <1>4, <1>5, <1>6, MemoryStepExact

\* The rows of a batch (flush_windows): those of the log, and all of them.
LEMMA BatchRows ==
    ASSUME NEW p, NEW closed,
           \A w \in DOMAIN closed : Holds(closed[w], EventsOf(log[p], w, Len(log[p])))
    PROVE  /\ \A key \in DOMAIN CellRows(p, closed) :
                 /\ key = <<key[1], key[2], p>>
                 /\ key[1] \in DOMAIN closed
                 /\ CellRows(p, closed)[key] = TruthRow(key[1], key[2], p)
           /\ \A w \in DOMAIN closed :
                 \A e \in EventsOf(log[p], w, Len(log[p])) : \A c \in cells_for_event(e) :
                     <<w, c, p>> \in DOMAIN CellRows(p, closed)
<1>1. ASSUME NEW key \in DOMAIN CellRows(p, closed)
      PROVE  /\ key = <<key[1], key[2], p>>
             /\ key[1] \in DOMAIN closed
             /\ CellRows(p, closed)[key] = TruthRow(key[1], key[2], p)
  <2>1. PICK w \in DOMAIN closed : \E c \in DOMAIN closed[w].cells : key = <<w, c, p>>
    BY DEF CellRows
  <2>2. PICK c \in DOMAIN closed[w].cells : key = <<w, c, p>>
    BY <2>1
  <2>3. CellRows(p, closed)[key] = [events |-> closed[w].cells[c].events,
                                    users |-> Cardinality(closed[w].cells[c].users)]
    BY <2>2 DEF CellRows
  <2>4. /\ closed[w].cells[c].events = Cardinality(TruthIds(w, c, p))
        /\ closed[w].cells[c].users = TruthUsers(w, c, p)
    BY TruthIsEvents DEF Holds
  <2> QED BY <2>2, <2>3, <2>4 DEF TruthRow
<1>2. ASSUME NEW w \in DOMAIN closed, NEW e \in EventsOf(log[p], w, Len(log[p])),
             NEW c \in cells_for_event(e)
      PROVE  <<w, c, p>> \in DOMAIN CellRows(p, closed)
  <2>1. c \in DOMAIN closed[w].cells
    BY DEF Holds
  <2> QED BY <2>1 DEF CellRows
<1> QED BY <1>1, <1>2

\* A transaction writes whole windows with the counts of the log.
LEMMA FlushExact ==
    ASSUME TypeInv, ExactInv, DocumentedConditions, NEW i \in Instances, NEW p \in Partitions,
           FlushCommit(i, p) \/ FlushError(i, p)
    PROVE  ExactInv'
<1> USE DEF TypeInv, TypeOK
<1> DEFINE batch == inflight[i][p]
           rows == CellRows(p, batch.closed)
<1>1. FlushCommit(i, p)
  BY DEF FlushError, Spend, DocumentedConditions
<1>2. /\ UNCHANGED <<now, log, position, pending, states>>
      /\ p \in DOMAIN inflight[i]
      /\ inflight' = [inflight EXCEPT ![i] = Drop(@, p)]
      /\ agg_cells' = Override(agg_cells, rows)
      /\ partition_progress' = Put(partition_progress, p,
                                   [committed_offset  |-> batch.committed_offset,
                                    flushed_watermark |-> batch.flushed_watermark])
  BY <1>1 DEF FlushCommit, flush_windows
<1>3. IsBatch(batch) /\ BatchExact(batch, p)
  BY <1>2 DEF InstanceTypeOK, IsPartitionMap, ExactInv, BatchesExact
<1>4. /\ \A key \in DOMAIN rows :
            /\ key = <<key[1], key[2], p>>
            /\ key[1] \in DOMAIN batch.closed
            /\ rows[key] = TruthRow(key[1], key[2], p)
      /\ \A w \in DOMAIN batch.closed :
            \A e \in EventsOf(log[p], w, Len(log[p])) : \A c \in cells_for_event(e) :
                <<w, c, p>> \in DOMAIN rows
  BY <1>3, BatchRows DEF BatchExact
<1> HIDE DEF batch, rows
<1>5. DOMAIN agg_cells' = DOMAIN agg_cells \cup DOMAIN rows
  BY <1>2 DEF Override
<1>6. \A q, w : Published(q, w) => Published(q, w)'
  BY <1>2, <1>5 DEF Published
<1>7. \A w \in DOMAIN batch.closed : Published(p, w)'
  BY <1>2, <1>4, <1>5 DEF Published
<1>8. \A q, wm, windows : FlushedBut(q, wm, windows) => FlushedBut(q, wm, windows)'
  BY <1>2, <1>6 DEF FlushedBut
<1>9. \A wm : FlushedBut(p, wm, DOMAIN batch.closed) => FlushedBut(p, wm, {})'
  BY <1>2, <1>6, <1>7 DEF FlushedBut
<1>10. LogExact'
  BY <1>2, SameExact DEF ExactInv
<1>11. RowsExact'
  <2>1. \A w, c, q : TruthRow(w, c, q)' = TruthRow(w, c, q)
    BY <1>2 DEF TruthRow, TruthIds, TruthUsers, TruthOffsets
  <2> SUFFICES ASSUME NEW key \in DOMAIN agg_cells'
               PROVE  /\ key = <<key[1], key[2], key[3]>> /\ key[1] \in Int /\ key[3] \in Partitions
                      /\ window_end(key[1]) <= now - MAX_DELAY
                      /\ agg_cells'[key] = TruthRow(key[1], key[2], key[3])
                      /\ Published(key[3], key[1])'
    BY <1>2, <2>1 DEF RowsExact
  <2>2. CASE key \in DOMAIN rows
    <3>1. key = <<key[1], key[2], p>> /\ key[1] \in DOMAIN batch.closed /\ key[3] = p
      BY <1>4, <2>2
    <3>2. key[1] \in Int /\ window_end(key[1]) <= now - MAX_DELAY
      BY <1>3, <3>1 DEF IsBatch, AreWindows, BatchExact
    <3>3. agg_cells'[key] = TruthRow(key[1], key[2], p)
      BY <1>2, <1>4, <2>2 DEF Override
    <3> QED BY <1>7, <3>1, <3>2, <3>3
  <2>3. CASE key \notin DOMAIN rows
    <3>1. key \in DOMAIN agg_cells /\ agg_cells'[key] = agg_cells[key]
      BY <1>2, <2>3 DEF Override
    <3> QED BY <1>6, <3>1 DEF ExactInv, RowsExact
  <2> QED BY <2>2, <2>3
<1>12. StatesExact'
  <2> SUFFICES ASSUME NEW j \in Instances, NEW q \in DOMAIN states[j]
               PROVE  /\ StateExact(states[j][q], log[q], position[j][q])'
                      /\ FlushedBut(q, states[j][q].flushed_watermark, Taken(j, q))'
    BY <1>2 DEF StatesExact
  <2>1. /\ StateExact(states[j][q], log[q], position[j][q])
        /\ FlushedBut(q, states[j][q].flushed_watermark, Taken(j, q))
    BY DEF ExactInv, StatesExact
  <2>2. StateExact(states[j][q], log[q], position[j][q])'
    BY <1>2, <2>1, SameExact
  <2>3. CASE j = i /\ q = p
    <3>1. Taken(j, q) = DOMAIN batch.closed /\ Taken(j, q)' = {}
      BY <1>2, <2>3 DEF Taken, Drop, Restrict, InstanceTypeOK, batch
    <3> QED BY <1>2, <1>9, <2>1, <2>2, <2>3, <3>1
  <2>4. CASE ~ (j = i /\ q = p)
    <3>1. Taken(j, q)' = Taken(j, q)
      BY <1>2, <2>4 DEF Taken, Drop, Restrict, InstanceTypeOK
    <3> QED BY <1>2, <1>8, <2>1, <2>2, <3>1
  <2> QED BY <2>3, <2>4
<1>13. BatchesExact'
  <2>1. \A b, q : BatchExact(b, q) => BatchExact(b, q)'
    BY <1>2, <1>8 DEF BatchExact
  <2> QED BY <1>2, <2>1 DEF Drop, Restrict, InstanceTypeOK, ExactInv, BatchesExact
<1>14. PendingExact'
  BY <1>2, <1>8 DEF ExactInv, PendingExact
<1>15. ProgressExact'
  BY <1>2, <1>3, <1>8, <1>9 DEF Put, BatchExact, ExactInv, ProgressExact
<1> QED BY <1>10, <1>11, <1>12, <1>13, <1>14, <1>15 DEF ExactInv

\* ExactInv is inductive relative to TypeInv and ResumeInv.
LEMMA NextExactInv ==
    ASSUME DocumentedConditions
    PROVE  TypeInv /\ ResumeInv /\ ExactInv /\ [Next]_vars => ExactInv'
<1> SUFFICES ASSUME TypeInv, ResumeInv, ExactInv, [Next]_vars PROVE ExactInv'
  OBVIOUS
<1>1. CASE UNCHANGED vars
  <2>1. UNCHANGED <<now, log, position, pending, states, inflight, agg_cells, partition_progress>>
    BY <1>1 DEF vars
  <2>2. \A i, p : Taken(i, p)' = Taken(i, p)
    BY <2>1 DEF Taken
  <2>3. StatesExact' /\ BatchesExact' /\ PendingExact'
    BY <2>1, <2>2, SameExact DEF ExactInv, StatesExact, BatchesExact, PendingExact
  <2> QED BY <2>1, <2>3, MemoryStepExact
<1> QED
  BY <1>1, TickExact, AppendExact, AssignExact, InstallExact, ReleaseExact, MemoryExact,
     TakeBatchesExact, FlushExact DEF Next

\* Under the documented conditions aggregation is exactly once: the rows of every
\* window that a progress row calls flushed are what the whole log says of it, however
\* the instances crashed, overlapped, lost their seek or their progress on the way
\* (docs/design.md, "Exactly-once aggregation"; process_event and take_closed_windows,
\* window.rs:86; flush_windows, db.rs:37).
THEOREM CountingIsExact == ASSUME DocumentedConditions PROVE Spec => []ZeroDrift
<1>1. Spec => []TypeInv
  BY InitTypeInv, NextTypeInv, PTL DEF Spec
<1>2. Spec => []ResumeInv
  BY <1>1, InitResumeInv, NextResumeInv, PTL DEF Spec
<1>3. Spec => []ExactInv
  BY <1>1, <1>2, InitExactInv, NextExactInv, PTL DEF Spec
<1>4. TypeInv /\ ExactInv => ZeroDrift
  <2> SUFFICES ASSUME TypeInv, ExactInv, NEW p \in DOMAIN partition_progress,
                      NEW o \in 1..Len(log[p]), log[p][o] # Undecodable,
                      EventEnd(log[p], o) <= partition_progress[p].flushed_watermark,
                      NEW c \in cells_for_event(log[p][o])
               PROVE  LET w == window_start(log[p][o].ts)
                      IN  /\ <<w, c, p>> \in DOMAIN agg_cells
                          /\ agg_cells[<<w, c, p>>] = TruthRow(w, c, p)
    BY DEF ZeroDrift, EventEnd
  <2> DEFINE w == window_start(log[p][o].ts)
  <2>1. log[p] \in MessageSeq
    BY DEF TypeInv, TypeOK, KafkaTypeOK, DbTypeOK, IsPartitionMap, MessageSeq
  <2>2. w \in Int /\ window_end(w) <= partition_progress[p].flushed_watermark
    BY <2>1, EventInstants DEF EventEnd
  <2>3. Published(p, w)
    BY <2>2 DEF ExactInv, ProgressExact, FlushedBut
  <2>4. log[p][o] \in EventsOf(log[p], w, Len(log[p]))
    BY DEF EventsOf
  <2>5. <<w, c, p>> \in DOMAIN agg_cells
    BY <2>3, <2>4 DEF Published
  <2> HIDE DEF w
  <2>6. agg_cells[<<w, c, p>>] = TruthRow(w, c, p)
    BY <2>5 DEF ExactInv, RowsExact
  <2> QED BY <2>5, <2>6 DEF w
<1> QED BY <1>1, <1>3, <1>4, PTL

=============================================================================
