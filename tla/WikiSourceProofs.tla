-------------------------- MODULE WikiSourceProofs --------------------------
(***************************************************************************)
(* Proofs about the wiki source: no change is posted twice or out of order *)
(* (AtMostOnceInOrder) and the edits that are missed are bounded by what   *)
(* has failed (LossBounded), for streams, batches and faults of any size.  *)
(***************************************************************************)
EXTENDS WikiSource, FiniteSetTheorems, SequenceTheorems, TLAPS

\* Wikimedia gives every change an SSE id; only keep-alives come without one.  A change
\* without an id would be delivered again after a reconnect.
ChangesHaveIds == \A message \in Messages : Mapped(message) => message.id

Entries ==
    [place : Nat,
     event : {to_event(message.data) : message \in {m \in Messages : Mapped(m)}}]

TypeInv ==
    /\ stream \in Seq(Messages)
    /\ connected \in BOOLEAN
    /\ cursor \in Nat
    /\ last_event_id \in Nat
    /\ first \in Nat
    /\ batch \in Seq(Entries)
    /\ accepted \in Seq(Nat)
    /\ refusals \in Nat
    /\ errors \in Nat

Increasing(entries) ==
    \A i, j \in DOMAIN entries : i < j => entries[i].place < entries[j].place

\* The connection is ahead of the last id, which is ahead of all that is in the batch,
\* which is ahead of all that the gateway has.
OrderInv ==
    /\ last_event_id <= Len(stream)
    /\ ~ connected => batch = << >>
    /\ connected => last_event_id < cursor
    /\ \A i \in DOMAIN batch : batch[i].place \in 1..last_event_id
    /\ Increasing(batch)
    /\ \A i \in DOMAIN accepted : accepted[i] <= last_event_id
    /\ \A i \in DOMAIN accepted : \A j \in DOMAIN batch : accepted[i] < batch[j].place
    /\ AtMostOnceInOrder

-----------------------------------------------------------------------------
(***************************************************************************)
(* Posting.                                                                *)
(***************************************************************************)
\* What the gateway has after it has taken the first k entries of a batch.
LEMMA TakenPrefix ==
    ASSUME NEW a \in Seq(Nat), NEW entries \in Seq(Entries), NEW k \in 0..Len(entries)
    PROVE  LET b == a \o Places(SubSeq(entries, 1, k))
           IN  /\ b \in Seq(Nat)
               /\ Len(b) = Len(a) + k
               /\ \A i \in 1..Len(a) : b[i] = a[i]
               /\ \A i \in 1..k : b[Len(a) + i] = entries[i].place
<1> DEFINE s == SubSeq(entries, 1, k)
           p == Places(s)
<1>1. s \in Seq(Entries) /\ Len(s) = k /\ \A i \in 1..k : s[i] = entries[i]
  OBVIOUS
<1>2. /\ DOMAIN p = 1..k
      /\ \A i \in 1..k : p[i] = entries[i].place /\ p[i] \in Nat
  <2>1. DOMAIN s = 1..k
    BY <1>1
  <2>2. \A i \in 1..k : entries[i] \in Entries
    OBVIOUS
  <2>. QED BY <1>1, <2>1, <2>2 DEF Places, Entries
<1>3. p \in Seq(Nat) /\ Len(p) = k
  <2>1. p \in [1..k -> Nat]
    BY <1>2 DEF Places
  <2>. HIDE DEF p
  <2>2. p \in Seq(Nat)
    BY <2>1
  <2>. QED BY <2>1, <2>2
<1>. HIDE DEF p
<1>. SUFFICES LET b == a \o p
              IN  /\ b \in Seq(Nat)
                  /\ Len(b) = Len(a) + k
                  /\ \A i \in 1..Len(a) : b[i] = a[i]
                  /\ \A i \in 1..k : b[Len(a) + i] = entries[i].place
  BY DEF p
<1>. QED BY <1>2, <1>3

\* Whatever the gateway answers, it has taken a prefix of the batch.
LEMMA FlushTakes ==
    ASSUME NEW entries \in Seq(Entries), flush(entries), accepted \in Seq(Nat)
    PROVE  /\ batch' = << >>
           /\ \/ accepted' = accepted
              \/ \E k \in 0..Len(entries) : accepted' = accepted \o Places(SubSeq(entries, 1, k))
<1>1. SubSeq(entries, 1, Len(entries)) = entries
  OBVIOUS
<1>2. \A k \in 0..(Len(entries) - 1) : k \in 0..Len(entries)
  OBVIOUS
<1>3. Len(entries) \in 0..Len(entries)
  OBVIOUS
<1>4. batch' = << >>
  BY DEF flush
<1>5. CASE UNCHANGED <<accepted, refusals>>
  BY <1>4, <1>5
<1>6. CASE GatewayTakes(entries) /\ ~ UNCHANGED <<accepted, refusals>>
  <2>1. CASE accepted' = accepted \o Places(entries)
    BY <1>1, <1>3, <1>4, <2>1
  <2>2. CASE \E k \in 0..(Len(entries) - 1) : accepted' = accepted \o Places(SubSeq(entries, 1, k))
    BY <1>2, <1>4, <2>2
  <2>3. CASE \E k \in 0..Len(entries) : accepted' = accepted \o Places(SubSeq(entries, 1, k))
    BY <1>4, <2>3
  <2>. QED BY <1>6, <2>1, <2>2, <2>3 DEF GatewayTakes
<1>. QED BY <1>5, <1>6 DEF flush

\* Posting keeps what the gateway has in order.
LEMMA FlushKeepsOrder ==
    ASSUME accepted \in Seq(Nat), refusals \in Nat, AtMostOnceInOrder,
           NEW entries \in Seq(Entries), Increasing(entries), NEW last \in Nat,
           \A i \in DOMAIN entries : entries[i].place <= last,
           \A i \in DOMAIN accepted : accepted[i] <= last,
           \A i \in DOMAIN accepted : \A j \in DOMAIN entries : accepted[i] < entries[j].place,
           flush(entries)
    PROVE  /\ accepted' \in Seq(Nat)
           /\ refusals' \in Nat
           /\ batch' = << >>
           /\ AtMostOnceInOrder'
           /\ \A i \in DOMAIN accepted' : accepted'[i] <= last
<1>1. refusals' \in Nat
  BY DEF flush, GatewayTakes, Refuse
<1>2. CASE accepted' = accepted
  BY <1>1, <1>2, FlushTakes DEF AtMostOnceInOrder
<1>3. ASSUME NEW k \in 0..Len(entries), accepted' = accepted \o Places(SubSeq(entries, 1, k))
      PROVE  /\ accepted' \in Seq(Nat)
             /\ AtMostOnceInOrder'
             /\ \A i \in DOMAIN accepted' : accepted'[i] <= last
  <2>1. /\ accepted' \in Seq(Nat)
        /\ Len(accepted') = Len(accepted) + k
        /\ \A i \in 1..Len(accepted) : accepted'[i] = accepted[i]
        /\ \A i \in 1..k : accepted'[Len(accepted) + i] = entries[i].place
    BY <1>3, TakenPrefix
  <2>0. /\ DOMAIN accepted = 1..Len(accepted) /\ DOMAIN accepted' = 1..Len(accepted')
        /\ Len(accepted) \in Nat /\ DOMAIN entries = 1..Len(entries) /\ Len(entries) \in Nat
    BY <2>1
  <2>2. \A i \in DOMAIN accepted' :
            \/ i \in DOMAIN accepted /\ accepted'[i] = accepted[i]
            \/ \E j \in DOMAIN entries : i = Len(accepted) + j /\ accepted'[i] = entries[j].place
    <3>. SUFFICES ASSUME NEW i \in DOMAIN accepted', i \notin DOMAIN accepted
                  PROVE  \E j \in DOMAIN entries :
                             i = Len(accepted) + j /\ accepted'[i] = entries[j].place
      BY <2>0, <2>1
    <3>1. i - Len(accepted) \in 1..k /\ i - Len(accepted) \in DOMAIN entries
      BY <2>0, <2>1
    <3>2. i = Len(accepted) + (i - Len(accepted))
      BY <2>0, <2>1
    <3>. QED BY <2>1, <3>1, <3>2
  <2>3. \A j \in DOMAIN entries : entries[j].place \in Nat
    <3>1. \A j \in DOMAIN entries : entries[j] \in Entries
      BY <2>0
    <3>. QED BY <3>1 DEF Entries
  <2>4. AtMostOnceInOrder'
    <3>. SUFFICES ASSUME NEW i \in DOMAIN accepted', NEW j \in DOMAIN accepted', i < j
                  PROVE  accepted'[i] < accepted'[j]
      BY DEF AtMostOnceInOrder
    <3>1. CASE i \in DOMAIN accepted /\ j \in DOMAIN accepted
      BY <2>0, <2>1, <3>1 DEF AtMostOnceInOrder
    <3>2. CASE i \in DOMAIN accepted /\ j \notin DOMAIN accepted
      <4>1. PICK n \in DOMAIN entries : j = Len(accepted) + n /\ accepted'[j] = entries[n].place
        BY <2>2, <3>2
      <4>2. accepted'[i] = accepted[i]
        BY <2>0, <2>1, <3>2
      <4>. QED BY <3>2, <4>1, <4>2
    <3>3. CASE i \notin DOMAIN accepted
      <4>1. PICK m \in DOMAIN entries : i = Len(accepted) + m /\ accepted'[i] = entries[m].place
        BY <2>2, <3>3
      <4>2. j \notin DOMAIN accepted
        BY <2>1, <3>3
      <4>3. PICK n \in DOMAIN entries : j = Len(accepted) + n /\ accepted'[j] = entries[n].place
        BY <2>2, <4>2
      <4>4. m < n
        BY <4>1, <4>3
      <4>. QED BY <4>1, <4>3, <4>4 DEF Increasing
    <3>. QED BY <3>1, <3>2, <3>3
  <2>5. \A i \in DOMAIN accepted' : accepted'[i] <= last
    BY <2>1, <2>2
  <2>. QED BY <2>1, <2>4, <2>5
<1>. QED BY <1>1, <1>2, <1>3, FlushTakes

-----------------------------------------------------------------------------
(***************************************************************************)
(* No change is posted twice.                                              *)
(***************************************************************************)
LEMMA InitOrder == Init => TypeInv /\ OrderInv
<1>. SUFFICES ASSUME Init PROVE TypeInv /\ OrderInv
  OBVIOUS
<1>1. TypeInv
  <2>1. << >> \in Seq(Messages) /\ << >> \in Seq(Entries) /\ << >> \in Seq(Nat)
    BY EmptySeq
  <2>. QED BY <2>1, BoundsAssumption DEF Init, TypeInv
<1>2. OrderInv
  BY DEF Init, OrderInv, Increasing, AtMostOnceInOrder
<1>. QED BY <1>1, <1>2

\* The message that a connection delivers next.
LEMMA Delivered ==
    ASSUME TypeInv, OrderInv, ChangesHaveIds, Receive
    PROVE  /\ stream[cursor] \in Messages
           /\ cursor \in DOMAIN stream
           /\ last_event_id < cursor
           /\ last_event_id' \in {last_event_id, cursor}
           /\ Mapped(stream[cursor]) =>
                  /\ last_event_id' = cursor
                  /\ [place |-> cursor, event |-> to_event(stream[cursor].data)] \in Entries
<1>1. cursor \in DOMAIN stream /\ last_event_id < cursor
  BY DEF TypeInv, OrderInv, Receive
<1>2. stream[cursor] \in Messages
  BY <1>1 DEF TypeInv
<1>3. last_event_id' = IF stream[cursor].id THEN cursor ELSE last_event_id
  BY DEF Receive
<1>4. Mapped(stream[cursor]) => last_event_id' = cursor
  BY <1>2, <1>3 DEF ChangesHaveIds
<1>5. Mapped(stream[cursor]) =>
          [place |-> cursor, event |-> to_event(stream[cursor].data)] \in Entries
  BY <1>2 DEF TypeInv, Entries
<1>. QED BY <1>1, <1>2, <1>3, <1>4, <1>5

\* A batch that has got the next message.
LEMMA BatchGrows ==
    ASSUME TypeInv, OrderInv, connected,
           NEW entry \in Entries, entry.place = cursor
    PROVE  LET entries == Append(batch, entry)
           IN  /\ entries \in Seq(Entries)
               /\ Len(entries) = Len(batch) + 1
               /\ \A i \in DOMAIN batch : i \in DOMAIN entries /\ entries[i] = batch[i]
               /\ \A i \in DOMAIN entries :
                      \/ i \in DOMAIN batch /\ entries[i] = batch[i]
                      \/ i = Len(batch) + 1 /\ entries[i] = entry
               /\ Increasing(entries)
               /\ \A i \in DOMAIN entries : entries[i].place \in 1..cursor
               /\ \A i \in DOMAIN accepted : \A j \in DOMAIN entries : accepted[i] < entries[j].place
<1> DEFINE entries == Append(batch, entry)
<1>1. /\ entries \in Seq(Entries)
      /\ Len(entries) = Len(batch) + 1
      /\ \A i \in DOMAIN batch : i \in DOMAIN entries /\ entries[i] = batch[i]
      /\ \A i \in DOMAIN entries :
             \/ i \in DOMAIN batch /\ entries[i] = batch[i]
             \/ i = Len(batch) + 1 /\ entries[i] = entry
  BY DEF TypeInv
<1>2. \A i \in DOMAIN batch : batch[i].place \in 1..last_event_id /\ batch[i].place \in Nat
  BY DEF OrderInv, TypeInv, Entries
<1>3. \A i \in DOMAIN accepted : accepted[i] \in Nat /\ accepted[i] <= last_event_id
  BY DEF OrderInv, TypeInv
<1>4. last_event_id < cursor /\ cursor \in Nat /\ last_event_id \in Nat
  BY DEF OrderInv, TypeInv
<1>. HIDE DEF entries
<1>5. Increasing(entries)
  <2>. SUFFICES ASSUME NEW i \in DOMAIN entries, NEW j \in DOMAIN entries, i < j
                PROVE  entries[i].place < entries[j].place
    BY DEF Increasing
  <2>1. i \in DOMAIN batch /\ entries[i] = batch[i]
    BY <1>1 DEF TypeInv
  <2>2. CASE j \in DOMAIN batch
    BY <1>1, <2>1, <2>2 DEF OrderInv, Increasing
  <2>3. CASE entries[j] = entry
    BY <1>2, <1>4, <2>1, <2>3
  <2>. QED BY <1>1, <2>2, <2>3
<1>6. \A i \in DOMAIN entries : entries[i].place \in 1..cursor
  BY <1>1, <1>2, <1>4
<1>7. ASSUME NEW i \in DOMAIN accepted, NEW j \in DOMAIN entries
      PROVE  accepted[i] < entries[j].place
  <2>1. CASE j \in DOMAIN batch /\ entries[j] = batch[j]
    BY <2>1 DEF OrderInv
  <2>2. CASE entries[j] = entry
    BY <1>3, <1>4, <2>2
  <2>. QED BY <1>1, <2>1, <2>2
<1>. QED BY <1>1, <1>5, <1>6, <1>7 DEF entries

LEMMA NextOrder ==
    ASSUME TypeInv, OrderInv, ChangesHaveIds, [Next]_vars
    PROVE  TypeInv' /\ OrderInv'
<1>. USE DEF TypeInv
<1>1. CASE Publish
  <2>1. PICK message \in Messages : stream' = Append(stream, message)
    BY <1>1 DEF Publish
  <2>2. stream' \in Seq(Messages) /\ Len(stream') = Len(stream) + 1
    BY <2>1
  <2>3. UNCHANGED <<connected, cursor, last_event_id, first, batch, backoff, accepted,
                    disconnects, refusals, errors>>
    BY <1>1 DEF Publish
  <2>4. TypeInv'
    BY <2>2, <2>3
  <2>5. OrderInv'
    BY <2>2, <2>3 DEF OrderInv, Increasing, AtMostOnceInOrder
  <2>. QED BY <2>4, <2>5
<1>2. CASE Connect
  <2>1. batch' = << >> /\ batch' \in Seq(Entries)
    BY <1>2, EmptySeq DEF Connect
  <2>2. UNCHANGED <<stream, last_event_id, first, accepted, refusals, errors>> /\ connected' = TRUE
    BY <1>2 DEF Connect
  <2>3. cursor' \in Nat /\ last_event_id < cursor'
    BY <1>2 DEF Connect, ResumeAt
  <2>4. TypeInv'
    BY <2>1, <2>2, <2>3
  <2>5. OrderInv'
    BY <2>1, <2>2, <2>3 DEF OrderInv, Increasing, AtMostOnceInOrder
  <2>. QED BY <2>4, <2>5
<1>3. CASE ConnectError
  <2>1. connected' = FALSE /\ connected = FALSE
    BY <1>3 DEF ConnectError, BackOff
  <2>2. UNCHANGED <<stream, cursor, last_event_id, first, batch, accepted, refusals, errors>>
    BY <1>3 DEF ConnectError
  <2>3. TypeInv'
    BY <2>1, <2>2
  <2>4. OrderInv'
    BY <2>1, <2>2 DEF OrderInv, Increasing, AtMostOnceInOrder
  <2>. QED BY <2>3, <2>4
<1>4. CASE Receive
  <2> DEFINE entry == [place |-> cursor, event |-> to_event(stream[cursor].data)]
             entries == Append(batch, entry)
  <2>1. /\ cursor \in DOMAIN stream
        /\ last_event_id < cursor
        /\ last_event_id' \in {last_event_id, cursor}
        /\ Mapped(stream[cursor]) => last_event_id' = cursor /\ entry \in Entries
    BY <1>4, Delivered
  <2>2. /\ connected /\ connected' = connected
        /\ cursor' = cursor + 1
        /\ first' \in {first, cursor}
        /\ UNCHANGED <<stream, errors>>
    BY <1>4 DEF Receive
  <2>3. first' \in Nat /\ last_event_id' \in Nat /\ last_event_id' < cursor' /\ cursor' \in Nat
        /\ last_event_id <= last_event_id' /\ last_event_id' <= Len(stream')
    BY <2>1, <2>2 DEF OrderInv
  <2>4. \/ UNCHANGED <<batch, accepted, refusals>>
        \/ Mapped(stream[cursor]) /\ flush(entries)
        \/ Mapped(stream[cursor]) /\ batch' = entries /\ UNCHANGED <<accepted, refusals>>
    BY <1>4 DEF Receive, Mapped
  <2>5. CASE UNCHANGED <<batch, accepted, refusals>>
    <3>1. TypeInv'
      BY <2>2, <2>3, <2>5
    <3>2. \A i \in DOMAIN accepted : accepted[i] <= last_event_id'
      BY <2>3 DEF OrderInv
    <3>3. \A i \in DOMAIN batch : batch[i].place \in 1..last_event_id'
      BY <2>3 DEF OrderInv
    <3>4. OrderInv'
      BY <2>2, <2>3, <2>5, <3>2, <3>3 DEF OrderInv, Increasing, AtMostOnceInOrder
    <3>. QED BY <3>1, <3>4
  <2>6. CASE Mapped(stream[cursor]) /\ ~ UNCHANGED <<batch, accepted, refusals>>
    <3>1. last_event_id' = cursor
      BY <2>1, <2>6
    <3>2. entry.place = cursor
      OBVIOUS
    <3>. HIDE DEF entry
    <3>3. /\ entries \in Seq(Entries)
          /\ Increasing(entries)
          /\ \A i \in DOMAIN entries : entries[i].place \in 1..cursor
          /\ \A i \in DOMAIN accepted : \A j \in DOMAIN entries : accepted[i] < entries[j].place
      BY <2>1, <2>2, <2>6, <3>2, BatchGrows
    <3>4. \A i \in DOMAIN accepted : accepted[i] <= cursor
      BY <2>1 DEF OrderInv
    <3>. HIDE DEF entries
    <3>5. CASE flush(entries)
      <4>0. \A i \in DOMAIN entries : entries[i].place <= cursor
        BY <3>3
      <4>1. /\ accepted' \in Seq(Nat)
            /\ refusals' \in Nat
            /\ batch' = << >>
            /\ AtMostOnceInOrder'
            /\ \A i \in DOMAIN accepted' : accepted'[i] <= cursor
        BY <3>3, <3>4, <3>5, <4>0, FlushKeepsOrder DEF OrderInv
      <4>2. batch' \in Seq(Entries)
        BY <4>1, EmptySeq
      <4>3. TypeInv'
        BY <2>2, <2>3, <4>1, <4>2
      <4>4. OrderInv'
        BY <2>2, <2>3, <3>1, <4>1 DEF OrderInv, Increasing
      <4>. QED BY <4>3, <4>4
    <3>6. CASE batch' = entries /\ UNCHANGED <<accepted, refusals>>
      <4>1. TypeInv'
        BY <2>2, <2>3, <3>3, <3>6
      <4>2. OrderInv'
        BY <2>2, <2>3, <3>1, <3>3, <3>4, <3>6 DEF OrderInv, Increasing, AtMostOnceInOrder
      <4>. QED BY <4>1, <4>2
    <3>. QED BY <2>4, <2>6, <3>5, <3>6
  <2>. QED BY <2>4, <2>5, <2>6
<1>5. CASE flush(batch) /\ UNCHANGED <<stream, cursor, last_event_id, first, errors>>
           /\ connected /\ connected' \in BOOLEAN
  <2>1. \A i \in DOMAIN batch : batch[i].place <= last_event_id
    BY DEF OrderInv
  <2>2. /\ accepted' \in Seq(Nat)
        /\ refusals' \in Nat
        /\ batch' = << >>
        /\ AtMostOnceInOrder'
        /\ \A i \in DOMAIN accepted' : accepted'[i] <= last_event_id
    BY <1>5, <2>1, FlushKeepsOrder DEF OrderInv
  <2>3. batch' \in Seq(Entries)
    BY <2>2, EmptySeq
  <2>4. TypeInv'
    BY <1>5, <2>2, <2>3
  <2>5. OrderInv'
    BY <1>5, <2>2 DEF OrderInv, Increasing
  <2>. QED BY <2>4, <2>5
<1>6. CASE StreamError
  <2>1. batch' = << >> /\ batch' \in Seq(Entries) /\ connected' = FALSE
    BY <1>6, EmptySeq DEF StreamError, BackOff
  <2>2. errors' = errors + 1 /\ UNCHANGED <<stream, cursor, last_event_id, first, accepted, refusals>>
    BY <1>6 DEF StreamError
  <2>3. errors' \in Nat
    BY <2>2
  <2>4. TypeInv'
    <3>. HIDE DEF TypeInv
    <3>. QED BY <2>1, <2>2, <2>3 DEF TypeInv
  <2>5. OrderInv'
    BY <2>1, <2>2 DEF OrderInv, Increasing, AtMostOnceInOrder
  <2>. QED BY <2>4, <2>5
<1>7. CASE UNCHANGED vars
  BY <1>7 DEF vars, OrderInv, Increasing, AtMostOnceInOrder
<1>8. CASE TickFlush
  BY <1>5, <1>8 DEF TickFlush
<1>9. CASE StreamEnd
  BY <1>5, <1>9 DEF StreamEnd
<1>. QED BY <1>1, <1>2, <1>3, <1>4, <1>6, <1>7, <1>8, <1>9 DEF Next

\* As long as every change comes with an SSE id, no change reaches the gateway twice or
\* out of stream order, however often the stream breaks or ends, connections are refused
\* and answers are lost, and whatever the batch size.
THEOREM PostedAtMostOnce == ASSUME ChangesHaveIds PROVE Spec => []AtMostOnceInOrder
<1>1. Init => TypeInv /\ OrderInv
  BY InitOrder
<1>2. TypeInv /\ OrderInv /\ [Next]_vars => TypeInv' /\ OrderInv'
  BY NextOrder
<1>3. OrderInv => AtMostOnceInOrder
  BY DEF OrderInv
<1>. QED BY <1>1, <1>2, <1>3, PTL DEF Spec

-----------------------------------------------------------------------------
(***************************************************************************)
(* How many edits are missed.                                              *)
(***************************************************************************)
\* The batch holds changes of the stream, and is posted before it is too long; the
\* connection has passed over no change since the last id.
ContentInv ==
    /\ \A i \in DOMAIN batch :
          /\ Mapped(stream[batch[i].place])
          /\ batch[i].event = to_event(stream[batch[i].place].data)
    /\ Len(batch) < BATCH_MAX_EVENTS
    /\ first <= last_event_id
    /\ first = 0 => last_event_id = 0
    /\ connected => /\ cursor <= Len(stream) + 1
                    /\ last_event_id > 0 =>
                          \A n \in (last_event_id + 1)..(cursor - 1) : ~ Mapped(stream[n])

\* The malformed events that have left the client, and taken their batch with them.
Poison ==
    {n \in 1..last_event_id :
        /\ Mapped(stream[n]) /\ ~ Edit(stream[n])
        /\ n \notin ToSet(Places(batch))}

Bound(errs, left, malformed) ==
    (BATCH_MAX_EVENTS - 1) * errs + BATCH_MAX_EVENTS * (MAX_REFUSALS - left)
      + (BATCH_MAX_EVENTS - 1) * malformed

\* LossBounded, with only the malformed events that have been posted: every lost batch
\* is accounted for by the failure that has lost it.
LossInv == Cardinality(Missed) <= Bound(errors, refusals, Cardinality(Poison))

\* Where Missed starts to look.
From == IF first > 0 THEN first ELSE 1

LEMMA InMissed ==
    \A n : n \in Missed <=> /\ n \in From..last_event_id
                            /\ Edit(stream[n])
                            /\ n \notin ToSet(accepted)
                            /\ n \notin ToSet(Places(batch))
BY DEF Missed, From

LEMMA InPlaces ==
    ASSUME NEW entries \in Seq(Entries)
    PROVE  \A n : n \in ToSet(Places(entries)) <=> \E i \in DOMAIN entries : n = entries[i].place
BY DEF ToSet, Places

LEMMA PlacesBounded ==
    ASSUME NEW entries \in Seq(Entries)
    PROVE  /\ IsFiniteSet(ToSet(Places(entries)))
           /\ Cardinality(ToSet(Places(entries))) <= Len(entries)
<1>1. IsFiniteSet(1..Len(entries)) /\ Cardinality(1..Len(entries)) = Len(entries)
  <2>1. Len(entries) \in Nat
    OBVIOUS
  <2>. QED BY <2>1, FS_Interval
<1>2. Places(entries) \in Surjection(1..Len(entries), ToSet(Places(entries)))
  BY DEF Surjection, ToSet, Places
<1>. QED BY <1>1, <1>2, FS_Surjection

\* Losing the edits of L.
LEMMA Losing ==
    ASSUME NEW M, NEW N, NEW L, IsFiniteSet(M), IsFiniteSet(L), N \subseteq M \cup L
    PROVE  Cardinality(N) \in Nat /\ Cardinality(M) \in Nat /\ Cardinality(L) \in Nat
           /\ Cardinality(N) <= Cardinality(M) + Cardinality(L)
<1>1. IsFiniteSet(M \cup L)
  BY FS_Union
<1>2. Cardinality(M \cup L) = Cardinality(M) + Cardinality(L) - Cardinality(M \cap L)
  BY FS_Union
<1>3. IsFiniteSet(M \cap L)
  BY FS_Intersection
<1>4. IsFiniteSet(N) /\ Cardinality(N) <= Cardinality(M \cup L)
  BY <1>1, FS_Subset
<1>5. /\ Cardinality(M) \in Nat /\ Cardinality(L) \in Nat /\ Cardinality(N) \in Nat
      /\ Cardinality(M \cap L) \in Nat /\ Cardinality(M \cup L) \in Nat
  BY <1>1, <1>3, <1>4, FS_CardinalityType
<1>. QED BY <1>2, <1>4, <1>5

LEMMA FiniteLoss ==
    ASSUME TypeInv
    PROVE  IsFiniteSet(Missed) /\ IsFiniteSet(Poison)
<1>1. IsFiniteSet(From..last_event_id) /\ IsFiniteSet(1..last_event_id)
  BY FS_Interval DEF TypeInv, From
<1>2. Missed \subseteq From..last_event_id
  BY InMissed
<1>3. Poison \subseteq 1..last_event_id
  BY DEF Poison
<1>. QED BY <1>1, <1>2, <1>3, FS_Subset

LEMMA FiniteLossNext ==
    ASSUME TypeInv'
    PROVE  IsFiniteSet(Missed') /\ IsFiniteSet(Poison')
<1>1. From' \in Int /\ last_event_id' \in Int
  BY DEF TypeInv, From
<1>2. IsFiniteSet(From'..last_event_id') /\ IsFiniteSet(1..last_event_id')
  BY <1>1, FS_Interval
<1>3. Missed' \subseteq From'..last_event_id'
  BY DEF Missed, From
<1>4. Poison' \subseteq 1..last_event_id'
  BY DEF Poison
<1>. QED BY <1>2, <1>3, <1>4, FS_Subset

\* What each failure adds to the bound.
LEMMA BoundGrows ==
    ASSUME NEW e \in Nat, NEW r \in Nat, NEW m \in Nat
    PROVE  /\ Bound(e, r, m) \in Int
           /\ Bound(e + 1, r, m) = Bound(e, r, m) + (BATCH_MAX_EVENTS - 1)
           /\ Bound(e, r - 1, m) = Bound(e, r, m) + BATCH_MAX_EVENTS
           /\ \A n \in Nat : n >= m => Bound(e, r, n) >= Bound(e, r, m)
           /\ \A n \in Nat : n >= m + 1 => Bound(e, r, n) >= Bound(e, r, m) + (BATCH_MAX_EVENTS - 1)
<1> DEFINE B == BATCH_MAX_EVENTS
<1>0. B \in Nat /\ B >= 1 /\ MAX_REFUSALS \in Nat
  BY BatchAssumption, BoundsAssumption
<1>. HIDE DEF B
<1>1. \A b, x, y \in Int : b * x \in Int /\ b * (x + y) = b * x + b * y
  OBVIOUS
<1>2. \A b, x \in Nat : b * x >= 0
  OBVIOUS
<1>3. (B - 1) * e \in Int /\ B * (MAX_REFUSALS - r) \in Int /\ (B - 1) * m \in Int
  BY <1>0, <1>1
<1>4. (B - 1) * (e + 1) = (B - 1) * e + (B - 1)
  BY <1>0
<1>5. B * (MAX_REFUSALS - (r - 1)) = B * (MAX_REFUSALS - r) + B
  <2>1. MAX_REFUSALS - (r - 1) = (MAX_REFUSALS - r) + 1
    BY <1>0
  <2>. QED BY <1>0, <1>1, <2>1
<1>6. ASSUME NEW n \in Nat, n >= m
      PROVE  (B - 1) * n >= (B - 1) * m /\ (B - 1) * n \in Int
  <2>1. n = m + (n - m) /\ n - m \in Nat /\ B - 1 \in Nat
    BY <1>0, <1>6
  <2>2. (B - 1) * (m + (n - m)) = (B - 1) * m + (B - 1) * (n - m)
    BY <1>1, <2>1
  <2>3. (B - 1) * (n - m) >= 0 /\ (B - 1) * (n - m) \in Int
    BY <1>1, <1>2, <2>1
  <2>. QED BY <1>3, <2>1, <2>2, <2>3
<1>7. ASSUME NEW n \in Nat, n >= m + 1
      PROVE  (B - 1) * n >= (B - 1) * m + (B - 1) /\ (B - 1) * n \in Int
  <2>1. n = (m + 1) + (n - (m + 1)) /\ n - (m + 1) \in Nat /\ B - 1 \in Nat
    BY <1>0, <1>7
  <2>2. (B - 1) * ((m + 1) + (n - (m + 1))) = (B - 1) * (m + 1) + (B - 1) * (n - (m + 1))
    BY <1>1, <2>1
  <2>3. (B - 1) * (n - (m + 1)) >= 0 /\ (B - 1) * (n - (m + 1)) \in Int
    BY <1>1, <1>2, <2>1
  <2>4. (B - 1) * (m + 1) = (B - 1) * m + (B - 1)
    BY <1>0
  <2>. QED BY <1>3, <2>1, <2>2, <2>3, <2>4, <1>0
<1> DEFINE E(x) == (B - 1) * x
           R(x) == B * (MAX_REFUSALS - x)
<1>8. \A x, y, z : Bound(x, y, z) = E(x) + R(y) + E(z)
  BY DEF Bound, B
<1>9. /\ E(e) \in Int /\ R(r) \in Int /\ E(m) \in Int
      /\ E(e + 1) = E(e) + (B - 1)
      /\ R(r - 1) = R(r) + B
      /\ \A n \in Nat : n >= m => E(n) >= E(m) /\ E(n) \in Int
      /\ \A n \in Nat : n >= m + 1 => E(n) >= E(m) + (B - 1) /\ E(n) \in Int
  BY <1>3, <1>4, <1>5, <1>6, <1>7
<1>. HIDE DEF E, R
<1>10. /\ Bound(e, r, m) \in Int
       /\ Bound(e + 1, r, m) = Bound(e, r, m) + (B - 1)
       /\ Bound(e, r - 1, m) = Bound(e, r, m) + B
       /\ \A n \in Nat : n >= m => Bound(e, r, n) >= Bound(e, r, m)
       /\ \A n \in Nat : n >= m + 1 => Bound(e, r, n) >= Bound(e, r, m) + (B - 1)
  BY <1>0, <1>8, <1>9
<1>. QED BY <1>10 DEF B

\* The accounting of one step: the edits of L are newly missed, the bound grows at least
\* as much, and the malformed events that have left stay where they are.
LEMMA Accounting ==
    ASSUME TypeInv, TypeInv', LossInv, NEW L, IsFiniteSet(L),
           Missed' \subseteq Missed \cup L,
           Bound(errors', refusals', Cardinality(Poison'))
             >= Bound(errors, refusals, Cardinality(Poison)) + Cardinality(L)
    PROVE  LossInv'
<1>1. IsFiniteSet(Missed) /\ IsFiniteSet(Poison)
  BY FiniteLoss
<1>2. IsFiniteSet(Missed') /\ IsFiniteSet(Poison')
  BY FiniteLossNext
<1>3. /\ Cardinality(Missed') \in Nat /\ Cardinality(Missed) \in Nat /\ Cardinality(L) \in Nat
      /\ Cardinality(Missed') <= Cardinality(Missed) + Cardinality(L)
  BY <1>1, Losing
<1>4. Cardinality(Poison) \in Nat /\ Cardinality(Poison') \in Nat
  BY <1>1, <1>2, FS_CardinalityType
<1>5. /\ Bound(errors, refusals, Cardinality(Poison)) \in Int
      /\ Bound(errors', refusals', Cardinality(Poison')) \in Int
  BY <1>4, BoundGrows DEF TypeInv
<1>6. Cardinality(Missed) <= Bound(errors, refusals, Cardinality(Poison))
  BY DEF LossInv
<1>7. Cardinality(Missed') <= Bound(errors', refusals', Cardinality(Poison'))
  BY <1>3, <1>5, <1>6
<1>. QED BY <1>7 DEF LossInv, Bound

\* A step in which nothing fails misses nothing.
LEMMA NothingFails ==
    ASSUME TypeInv, TypeInv', LossInv, Missed' \subseteq Missed, Poison \subseteq Poison',
           UNCHANGED <<errors, refusals>>
    PROVE  LossInv'
<1>1. IsFiniteSet(Poison) /\ IsFiniteSet(Poison')
  BY FiniteLoss, FiniteLossNext
<1>2. /\ Cardinality(Poison) \in Nat /\ Cardinality(Poison') \in Nat
      /\ Cardinality(Poison) <= Cardinality(Poison')
  BY <1>1, FS_CardinalityType, FS_Subset
<1>3. Bound(errors', refusals', Cardinality(Poison')) >= Bound(errors, refusals, Cardinality(Poison))
  BY <1>2, BoundGrows DEF TypeInv
<1>4. Bound(errors, refusals, Cardinality(Poison)) \in Int
  BY <1>2, BoundGrows DEF TypeInv
<1>5. IsFiniteSet({}) /\ Cardinality({}) = 0
  BY FS_EmptySet
<1>6. Bound(errors', refusals', Cardinality(Poison'))
        >= Bound(errors, refusals, Cardinality(Poison)) + Cardinality({})
  BY <1>3, <1>4, <1>5
<1>. QED BY <1>5, <1>6, Accounting

\* The edits that are newly missed after the entries have been posted: some of the
\* entries, if any, that the gateway has not taken.
LEMMA FlushMisses ==
    ASSUME TypeInv, TypeInv', NEW entries \in Seq(Entries), flush(entries),
           UNCHANGED stream, last_event_id <= last_event_id',
           \A n \in From'..last_event_id' :
               Edit(stream[n]) => n \in From..last_event_id \/ n \in ToSet(Places(entries)),
           ToSet(Places(batch)) \subseteq ToSet(Places(entries))
    PROVE  /\ Missed' \subseteq Missed \cup (ToSet(Places(entries)) \ ToSet(accepted'))
           /\ \A n \in Missed' : Edit(stream[n])
           /\ Poison \subseteq Poison'
           /\ \A n \in 1..last_event_id' : Mapped(stream[n]) /\ ~ Edit(stream[n]) => n \in Poison'
<1>1. ToSet(accepted) \subseteq ToSet(accepted')
  <2>1. CASE accepted' = accepted
    BY <2>1
  <2>2. ASSUME NEW k \in 0..Len(entries), accepted' = accepted \o Places(SubSeq(entries, 1, k))
        PROVE  ToSet(accepted) \subseteq ToSet(accepted')
    <3>1. /\ accepted' \in Seq(Nat)
          /\ Len(accepted') = Len(accepted) + k
          /\ \A i \in 1..Len(accepted) : accepted'[i] = accepted[i]
      BY <2>2, TakenPrefix DEF TypeInv
    <3>2. DOMAIN accepted = 1..Len(accepted) /\ DOMAIN accepted' = 1..Len(accepted')
          /\ Len(accepted) \in Nat
      BY DEF TypeInv
    <3>3. \A i \in DOMAIN accepted : i \in DOMAIN accepted' /\ accepted'[i] = accepted[i]
      BY <3>1, <3>2
    <3>. QED BY <3>3 DEF ToSet
  <2>. QED BY <2>1, <2>2, FlushTakes DEF TypeInv
<1>2. ToSet(Places(batch))' = {}
  <2>1. batch' = << >>
    BY DEF flush
  <2>. QED BY <2>1 DEF ToSet, Places
<1>3. \A n : n \in Missed' <=> /\ n \in From'..last_event_id'
                               /\ Edit(stream[n])
                               /\ n \notin ToSet(accepted')
  <2>1. \A n : n \in Missed' <=> /\ n \in From'..last_event_id'
                                 /\ Edit(stream'[n])
                                 /\ n \notin ToSet(accepted)'
                                 /\ n \notin ToSet(Places(batch))'
    BY DEF Missed, From
  <2>. QED BY <1>2, <2>1 DEF ToSet
<1>4. Missed' \subseteq Missed \cup (ToSet(Places(entries)) \ ToSet(accepted'))
  BY <1>1, <1>3, InMissed
<1>5. \A n : n \in Poison' <=> n \in 1..last_event_id' /\ Mapped(stream[n]) /\ ~ Edit(stream[n])
  BY <1>2 DEF Poison, Mapped, Edit
<1>6. Poison \subseteq Poison'
  <2>1. 1..last_event_id \subseteq 1..last_event_id'
    BY DEF TypeInv
  <2>. QED BY <1>5, <2>1 DEF Poison
<1>. QED BY <1>3, <1>4, <1>5, <1>6

\* Posting: a failed post misses at most one full batch, a malformed event all of its
\* batch but itself.
LEMMA FlushAccounted ==
    ASSUME TypeInv, TypeInv', LossInv, NEW entries \in Seq(Entries), flush(entries),
           UNCHANGED <<stream, errors>>, last_event_id <= last_event_id',
           Len(entries) <= BATCH_MAX_EVENTS,
           \A n \in From'..last_event_id' :
               Edit(stream[n]) => n \in From..last_event_id \/ n \in ToSet(Places(entries)),
           ToSet(Places(batch)) \subseteq ToSet(Places(entries)),
           \A n \in ToSet(Places(entries)) : n \in ToSet(Places(batch)) \/ n > last_event_id,
           \A i \in DOMAIN entries :
               /\ entries[i].place \in 1..last_event_id'
               /\ Mapped(stream[entries[i].place])
               /\ entries[i].event = to_event(stream[entries[i].place].data)
    PROVE  LossInv'
<1> DEFINE P == ToSet(Places(entries))
           pois == Cardinality(Poison)
           poisNext == Cardinality(Poison')
<1>1. /\ Missed' \subseteq Missed \cup (P \ ToSet(accepted'))
      /\ \A n \in Missed' : Edit(stream[n])
      /\ Poison \subseteq Poison'
      /\ \A n \in 1..last_event_id' : Mapped(stream[n]) /\ ~ Edit(stream[n]) => n \in Poison'
  BY FlushMisses
<1>2. IsFiniteSet(P) /\ Cardinality(P) <= Len(entries) /\ Cardinality(P) \in Nat
  BY PlacesBounded, FS_CardinalityType
<1>3. IsFiniteSet(Poison) /\ IsFiniteSet(Poison')
  BY FiniteLoss, FiniteLossNext
<1>4. pois \in Nat /\ poisNext \in Nat /\ pois <= poisNext
  BY <1>1, <1>3, FS_CardinalityType, FS_Subset
<1>5. /\ BATCH_MAX_EVENTS \in Nat /\ BATCH_MAX_EVENTS >= 1
      /\ errors \in Nat /\ refusals \in Nat /\ refusals' \in Nat /\ errors' = errors
      /\ Len(entries) \in Nat
  BY BatchAssumption DEF TypeInv
<1>6. CASE P \subseteq ToSet(accepted') /\ UNCHANGED refusals
  <2>1. Missed' \subseteq Missed
    BY <1>1, <1>6
  <2>. QED BY <1>1, <1>6, <2>1, NothingFails
<1>7. CASE \E i \in DOMAIN entries : ~ validate(entries[i].event, 0)
  <2>1. PICK i \in DOMAIN entries : ~ validate(entries[i].event, 0)
    BY <1>7
  <2> DEFINE n == entries[i].place
  <2>2. /\ n \in 1..last_event_id' /\ Mapped(stream[n])
        /\ entries[i].event = to_event(stream[n].data)
    OBVIOUS
  <2>3. ~ Edit(stream[n])
    BY <2>1, <2>2 DEF Edit
  <2>4. n \in P
    BY InPlaces
  <2>5. n \in Poison' /\ n \notin Poison
    <3>1. n \in Poison'
      BY <1>1, <2>2, <2>3
    <3>2. n \in ToSet(Places(batch)) \/ n > last_event_id
      BY <2>4
    <3>3. n > last_event_id => n \notin 1..last_event_id
      BY <2>2 DEF TypeInv
    <3>. QED BY <3>1, <3>2, <3>3 DEF Poison
  <2>6. refusals' = refusals
    <3>1. entries # << >>
      BY <2>1
    <3>. QED BY <1>7, <3>1 DEF flush, GatewayTakes
  <2>. HIDE DEF n
  <2>7. IsFiniteSet(P \ {n}) /\ Cardinality(P \ {n}) = Cardinality(P) - 1
    BY <1>2, <2>4, FS_RemoveElement
  <2>8. IsFiniteSet(Poison \cup {n}) /\ Cardinality(Poison \cup {n}) = pois + 1
    BY <1>3, <2>5, FS_AddElement
  <2>9. pois + 1 <= poisNext
    <3>1. Poison \cup {n} \subseteq Poison'
      BY <1>1, <2>5
    <3>2. Cardinality(Poison \cup {n}) <= poisNext
      BY <1>3, <3>1, FS_Subset
    <3>. QED BY <2>8, <3>2
  <2>10. Missed' \subseteq Missed \cup (P \ {n})
    BY <1>1, <2>3
  <2>11. Bound(errors', refusals', poisNext)
           >= Bound(errors, refusals, pois) + (BATCH_MAX_EVENTS - 1)
    BY <1>4, <1>5, <2>6, <2>9, BoundGrows
  <2>12. Bound(errors', refusals', poisNext) \in Int /\ Bound(errors, refusals, pois) \in Int
    BY <1>4, <1>5, BoundGrows
  <2>13. Cardinality(P \ {n}) <= BATCH_MAX_EVENTS - 1
    BY <1>2, <1>5, <2>7
  <2>14. Bound(errors', refusals', poisNext)
           >= Bound(errors, refusals, pois) + Cardinality(P \ {n})
    BY <1>2, <1>5, <2>7, <2>11, <2>12, <2>13
  <2>. QED BY <2>7, <2>10, <2>14, Accounting
<1>8. CASE refusals' = refusals - 1
  <2>1. Missed' \subseteq Missed \cup P
    BY <1>1
  <2>2. /\ Bound(errors, refusals - 1, pois) = Bound(errors, refusals, pois) + BATCH_MAX_EVENTS
        /\ Bound(errors, refusals, pois) \in Int
    <3>1. errors \in Nat /\ refusals \in Nat /\ pois \in Nat
      BY <1>4, <1>5
    <3>. HIDE DEF pois
    <3>. QED BY ONLY <3>1, BoundGrows
  <2>3. Bound(errors', refusals', poisNext) >= Bound(errors', refusals', pois)
        /\ Bound(errors', refusals', poisNext) \in Int
    BY <1>4, <1>5, BoundGrows
  <2>4. Bound(errors', refusals', pois) = Bound(errors, refusals - 1, pois)
    BY <1>5, <1>8
  <2>5. Bound(errors', refusals', poisNext)
          >= Bound(errors, refusals, pois) + Cardinality(P)
    BY <1>2, <1>5, <2>2, <2>3, <2>4
  <2>. QED BY <1>2, <2>1, <2>5, Accounting
<1>9. CASE entries = << >>
  <2>1. P = {}
    BY <1>9 DEF ToSet, Places
  <2>. QED BY <1>6, <1>9, <2>1 DEF flush
<1>10. CASE /\ entries # << >> /\ ~ \E i \in DOMAIN entries : ~ validate(entries[i].event, 0)
            /\ accepted' = accepted \o Places(entries) /\ UNCHANGED refusals
  <2>1. SubSeq(entries, 1, Len(entries)) = entries /\ Len(entries) \in 0..Len(entries)
    BY <1>5
  <2>2. /\ Len(accepted') = Len(accepted) + Len(entries)
        /\ \A i \in 1..Len(entries) : accepted'[Len(accepted) + i] = entries[i].place
        /\ accepted' \in Seq(Nat)
    <3> DEFINE k == Len(entries)
    <3>1. accepted' = accepted \o Places(SubSeq(entries, 1, k)) /\ k \in 0..Len(entries)
      BY <1>10, <2>1
    <3>2. accepted \in Seq(Nat) /\ k = Len(entries)
      BY DEF TypeInv
    <3>. HIDE DEF k
    <3>3. /\ Len(accepted') = Len(accepted) + k
          /\ \A i \in 1..k : accepted'[Len(accepted) + i] = entries[i].place
          /\ accepted' \in Seq(Nat)
      BY <3>1, <3>2, TakenPrefix
    <3>. QED BY <3>2, <3>3
  <2>3. \A i \in DOMAIN entries : entries[i].place \in ToSet(accepted')
    <3>. SUFFICES ASSUME NEW i \in DOMAIN entries PROVE entries[i].place \in ToSet(accepted')
      OBVIOUS
    <3>1. Len(accepted) \in Nat /\ i \in 1..Len(entries)
      BY DEF TypeInv
    <3>2. Len(accepted) + i \in DOMAIN accepted'
      BY <1>5, <2>2, <3>1
    <3>. QED BY <2>2, <3>1, <3>2 DEF ToSet
  <2>4. P \subseteq ToSet(accepted')
    BY <2>3, InPlaces
  <2>. QED BY <1>6, <1>10, <2>4
<1>. QED BY <1>7, <1>8, <1>9, <1>10 DEF flush, GatewayTakes, Refuse

LEMMA InitLoss == Init => ContentInv /\ LossInv
<1>. SUFFICES ASSUME Init PROVE ContentInv /\ LossInv
  OBVIOUS
<1>1. ContentInv
  BY BatchAssumption DEF Init, ContentInv
<1>2. Missed = {}
  BY InMissed DEF Init, From
<1>3. Poison = {}
  BY DEF Init, Poison
<1>4. Bound(0, MAX_REFUSALS, 0) = 0
  BY BatchAssumption, BoundsAssumption DEF Bound
<1>5. LossInv
  BY <1>2, <1>3, <1>4, FS_EmptySet DEF Init, LossInv
<1>. QED BY <1>1, <1>5

\* What Receive does with the message.
LEMMA ReceiveCases ==
    ASSUME TypeInv, OrderInv, ContentInv, ChangesHaveIds, Receive,
           NEW entries, entries = Append(batch, [place |-> cursor,
                                                event |-> to_event(stream[cursor].data)])
    PROVE  \/ /\ ~ Mapped(stream[cursor])
              /\ UNCHANGED <<batch, accepted, refusals>>
           \/ /\ Mapped(stream[cursor])
              /\ Len(batch) + 1 < BATCH_MAX_EVENTS
              /\ batch' = entries
              /\ UNCHANGED <<accepted, refusals>>
           \/ /\ Mapped(stream[cursor])
              /\ flush(entries)
BY BatchAssumption DEF Receive, Mapped, TypeInv

\* The batch with the next message in it, as FlushAccounted wants it.
LEMMA BatchContent ==
    ASSUME TypeInv, OrderInv, ContentInv, ChangesHaveIds, Receive, Mapped(stream[cursor]),
           NEW entries, entries = Append(batch, [place |-> cursor,
                                                event |-> to_event(stream[cursor].data)])
    PROVE  /\ entries \in Seq(Entries)
           /\ Len(entries) = Len(batch) + 1
           /\ Len(entries) <= BATCH_MAX_EVENTS
           /\ last_event_id' = cursor
           /\ \A n : n \in ToSet(Places(entries)) <=> n \in ToSet(Places(batch)) \/ n = cursor
           /\ \A i \in DOMAIN entries :
                 /\ entries[i].place \in 1..last_event_id'
                 /\ Mapped(stream[entries[i].place])
                 /\ entries[i].event = to_event(stream[entries[i].place].data)
<1> DEFINE entry == [place |-> cursor, event |-> to_event(stream[cursor].data)]
<1>1. last_event_id' = cursor /\ entry \in Entries
  BY Delivered
<1>2. entry.place = cursor /\ entry.event = to_event(stream[cursor].data) /\ entries = Append(batch, entry)
  OBVIOUS
<1>3. connected
  BY DEF Receive
<1>. HIDE DEF entry
<1>4. /\ entries \in Seq(Entries)
      /\ Len(entries) = Len(batch) + 1
      /\ \A i \in DOMAIN batch : i \in DOMAIN entries /\ entries[i] = batch[i]
      /\ \A i \in DOMAIN entries :
             \/ i \in DOMAIN batch /\ entries[i] = batch[i]
             \/ i = Len(batch) + 1 /\ entries[i] = entry
      /\ \A i \in DOMAIN entries : entries[i].place \in 1..cursor
  BY <1>1, <1>2, <1>3, BatchGrows
<1>5. Len(entries) <= BATCH_MAX_EVENTS
  BY <1>4, BatchAssumption DEF ContentInv, TypeInv
<1>6. \A n : n \in ToSet(Places(entries)) <=> n \in ToSet(Places(batch)) \/ n = cursor
  <2>1. batch \in Seq(Entries)
    BY DEF TypeInv
  <2>2. Len(batch) + 1 \in DOMAIN entries /\ entries[Len(batch) + 1] = entry
    <3>1. Len(batch) + 1 \in DOMAIN entries /\ Len(batch) + 1 \notin DOMAIN batch
      BY <1>4, <2>1
    <3>. QED BY <1>4, <3>1
  <2>3. \A n : n \in ToSet(Places(entries)) <=> \E i \in DOMAIN entries : n = entries[i].place
    BY <1>4, InPlaces
  <2>4. \A n : n \in ToSet(Places(batch)) <=> \E i \in DOMAIN batch : n = batch[i].place
    BY <2>1, InPlaces
  <2>5. ASSUME NEW n, n \in ToSet(Places(entries))
        PROVE  n \in ToSet(Places(batch)) \/ n = cursor
    <3>1. PICK i \in DOMAIN entries : n = entries[i].place
      BY <2>3, <2>5
    <3>. QED BY <1>2, <1>4, <2>4, <3>1
  <2>6. ASSUME NEW n, n \in ToSet(Places(batch))
        PROVE  n \in ToSet(Places(entries))
    <3>1. PICK i \in DOMAIN batch : n = batch[i].place
      BY <2>4, <2>6
    <3>. QED BY <1>4, <2>3, <3>1
  <2>7. cursor \in ToSet(Places(entries))
    BY <1>2, <2>2, <2>3
  <2>. QED BY <2>5, <2>6, <2>7
<1>7. \A i \in DOMAIN entries :
         /\ Mapped(stream[entries[i].place])
         /\ entries[i].event = to_event(stream[entries[i].place].data)
  BY <1>2, <1>4 DEF ContentInv
<1>. QED BY <1>1, <1>4, <1>5, <1>6, <1>7

LEMMA NextContent ==
    ASSUME TypeInv, OrderInv, ContentInv, ChangesHaveIds, [Next]_vars, TypeInv'
    PROVE  ContentInv'
<1>0. 0 < BATCH_MAX_EVENTS
  BY BatchAssumption
<1>1. CASE Publish
  <2>1. PICK message \in Messages : stream' = Append(stream, message)
    BY <1>1 DEF Publish
  <2>2. Len(stream') = Len(stream) + 1 /\ \A n \in 1..Len(stream) : stream'[n] = stream[n]
    BY <2>1 DEF TypeInv
  <2>3. UNCHANGED <<connected, cursor, last_event_id, first, batch>>
    BY <1>1 DEF Publish
  <2>4. \A i \in DOMAIN batch : batch[i].place \in 1..Len(stream)
    BY DEF OrderInv, TypeInv
  <2>5. connected => \A n \in (last_event_id + 1)..(cursor - 1) : n \in 1..Len(stream)
    BY DEF ContentInv, TypeInv
  <2>6. connected' => cursor' <= Len(stream') + 1
    BY <2>2, <2>3 DEF ContentInv, TypeInv
  <2>. QED BY <2>2, <2>3, <2>4, <2>5, <2>6 DEF ContentInv
<1>2. CASE Connect
  <2>1. batch' = << >> /\ UNCHANGED <<stream, last_event_id, first>>
    BY <1>2 DEF Connect
  <2>2. cursor' <= Len(stream) + 1 /\ (last_event_id > 0 => cursor' = last_event_id + 1)
    BY <1>2 DEF Connect, ResumeAt, OrderInv, TypeInv
  <2>3. last_event_id > 0 => (last_event_id + 1)..(cursor' - 1) = {}
    BY <2>2 DEF TypeInv
  <2>. QED BY <1>0, <2>1, <2>2, <2>3 DEF ContentInv
<1>3. CASE ConnectError
  BY <1>3 DEF ConnectError, BackOff, ContentInv
<1>4. CASE Receive
  <2> DEFINE entries == Append(batch, [place |-> cursor, event |-> to_event(stream[cursor].data)])
  <2>1. /\ cursor \in DOMAIN stream
        /\ last_event_id < cursor
        /\ last_event_id' \in {last_event_id, cursor}
        /\ Mapped(stream[cursor]) => last_event_id' = cursor
    BY <1>4, Delivered
  <2>2. connected /\ cursor' = cursor + 1 /\ UNCHANGED <<stream, connected>>
    BY <1>4 DEF Receive
  <2>3. cursor' <= Len(stream') + 1
    BY <2>1, <2>2 DEF TypeInv
  <2>4. first' <= last_event_id' /\ (first' = 0 => last_event_id' = 0)
    BY <1>4, <2>1 DEF Receive, ContentInv, TypeInv
  <2>5. ASSUME last_event_id' > 0, NEW n \in (last_event_id' + 1)..(cursor' - 1)
        PROVE  ~ Mapped(stream[n])
    <3>1. CASE last_event_id' = cursor
      BY <2>2, <2>5, <3>1 DEF TypeInv
    <3>2. CASE last_event_id' = last_event_id /\ last_event_id' # cursor
      <4>1. ~ Mapped(stream[cursor])
        BY <2>1, <3>2
      <4>2. n = cursor \/ n \in (last_event_id + 1)..(cursor - 1)
        BY <2>2, <2>5, <3>2 DEF TypeInv
      <4>. QED BY <2>2, <2>5, <3>2, <4>1, <4>2 DEF ContentInv
    <3>. QED BY <2>1, <3>1, <3>2
  <2>6. /\ Len(batch') < BATCH_MAX_EVENTS
        /\ \A i \in DOMAIN batch' :
              /\ Mapped(stream[batch'[i].place])
              /\ batch'[i].event = to_event(stream[batch'[i].place].data)
    <3>1. CASE UNCHANGED batch
      BY <3>1 DEF ContentInv
    <3>2. CASE flush(entries)
      <4>1. batch' = << >>
        BY <3>2 DEF flush
      <4>. QED BY <1>0, <4>1
    <3>3. CASE Mapped(stream[cursor]) /\ Len(batch) + 1 < BATCH_MAX_EVENTS /\ batch' = entries
      BY <1>4, <3>3, BatchContent
    <3>. HIDE DEF entries
    <3>. QED BY <1>4, <3>1, <3>2, <3>3, ReceiveCases DEF entries
  <2>. QED BY <2>2, <2>3, <2>4, <2>5, <2>6 DEF ContentInv
<1>5. CASE batch' = << >> /\ UNCHANGED <<stream, cursor, last_event_id, first>>
           /\ (connected' => connected)
  BY <1>0, <1>5 DEF ContentInv
<1>6. CASE TickFlush
  BY <1>5, <1>6 DEF TickFlush, flush
<1>7. CASE StreamEnd
  BY <1>5, <1>7 DEF StreamEnd, flush
<1>8. CASE StreamError
  BY <1>5, <1>8 DEF StreamError, BackOff
<1>9. CASE UNCHANGED vars
  BY <1>9 DEF vars, ContentInv
<1>. QED BY <1>1, <1>2, <1>3, <1>4, <1>6, <1>7, <1>8, <1>9 DEF Next

\* A message takes the client past no change but the one it may carry.
LEMMA ReceiveReaches ==
    ASSUME TypeInv, OrderInv, ContentInv, ChangesHaveIds, Receive
    PROVE  /\ last_event_id <= last_event_id'
           /\ \A n \in From'..last_event_id' :
                 Mapped(stream[n]) => n \in From..last_event_id
                                      \/ (n = cursor /\ last_event_id' = cursor)
<1>1. /\ last_event_id < cursor
      /\ last_event_id' = IF stream[cursor].id THEN cursor ELSE last_event_id
      /\ first' = IF first = 0 /\ stream[cursor].id THEN cursor ELSE first
  BY Delivered DEF Receive
<1>2. /\ cursor \in Nat /\ last_event_id \in Nat /\ first \in Nat
      /\ first <= last_event_id /\ (first = 0 => last_event_id = 0) /\ connected
  BY DEF TypeInv, ContentInv, Receive
<1>3. last_event_id <= last_event_id'
  BY <1>1, <1>2
<1>4. ASSUME NEW n \in From'..last_event_id', Mapped(stream[n])
      PROVE  n \in From..last_event_id \/ (n = cursor /\ last_event_id' = cursor)
  <2>1. CASE last_event_id' = last_event_id
    <3>1. first' = first
      BY <1>1, <1>2, <2>1
    <3>. QED BY <1>4, <2>1, <3>1 DEF From
  <2>2. CASE last_event_id' = cursor /\ first = 0
    <3>1. first' = cursor /\ cursor > 0
      BY <1>1, <1>2, <2>2
    <3>2. n \in cursor..cursor
      BY <1>4, <2>2, <3>1 DEF From
    <3>. QED BY <1>2, <2>2, <3>2
  <2>3. CASE last_event_id' = cursor /\ first > 0
    <3>1. first' = first /\ last_event_id > 0
      BY <1>1, <1>2, <2>3
    <3>2. n \in first..cursor
      BY <1>4, <2>3, <3>1 DEF From
    <3>3. n \in first..last_event_id \/ n = cursor \/ n \in (last_event_id + 1)..(cursor - 1)
      BY <1>2, <3>2
    <3>4. n \notin (last_event_id + 1)..(cursor - 1)
      BY <1>2, <1>4, <3>1 DEF ContentInv
    <3>. QED BY <2>3, <3>3, <3>4 DEF From
  <2>. QED BY <1>1, <1>2, <2>1, <2>2, <2>3
<1>. QED BY <1>3, <1>4

LEMMA NextLoss ==
    ASSUME TypeInv, OrderInv, ContentInv, LossInv, ChangesHaveIds, [Next]_vars, TypeInv'
    PROVE  LossInv'
<1>1. CASE Publish
  <2>1. PICK message \in Messages : stream' = Append(stream, message)
    BY <1>1 DEF Publish
  <2>2. \A n \in 1..Len(stream) : stream'[n] = stream[n]
    BY <2>1 DEF TypeInv
  <2>3. UNCHANGED <<last_event_id, first, batch, accepted, errors, refusals>>
    BY <1>1 DEF Publish
  <2>4. \A n \in From..last_event_id : n \in 1..Len(stream)
    BY DEF OrderInv, TypeInv, From
  <2>5. \A n \in 1..last_event_id : n \in 1..Len(stream)
    BY DEF OrderInv, TypeInv
  <2>6. Missed' \subseteq Missed
    BY <2>2, <2>3, <2>4 DEF Missed, From
  <2>7. Poison \subseteq Poison'
    BY <2>2, <2>3, <2>5 DEF Poison
  <2>. QED BY <2>3, <2>6, <2>7, NothingFails
<1>2. CASE UNCHANGED <<stream, last_event_id, first, batch, accepted, errors, refusals>>
  <2>1. Missed' = Missed /\ Poison' = Poison
    BY <1>2 DEF Missed, Poison, Edit, Mapped
  <2>. QED BY <1>2, <2>1, NothingFails
<1>3. CASE Connect \/ ConnectError
  <2>1. batch' = batch
    BY <1>3 DEF Connect, ConnectError, OrderInv
  <2>. QED BY <1>2, <1>3, <2>1 DEF Connect, ConnectError
<1>4. CASE Receive
  <2>0. PICK entries : entries = Append(batch, [place |-> cursor,
                                               event |-> to_event(stream[cursor].data)])
    OBVIOUS
  <2>1. /\ last_event_id <= last_event_id'
        /\ \A n \in From'..last_event_id' :
              Mapped(stream[n]) => n \in From..last_event_id
                                   \/ (n = cursor /\ last_event_id' = cursor)
    BY <1>4, ReceiveReaches
  <2>2. UNCHANGED <<stream, errors>> /\ last_event_id < cursor
    BY <1>4, Delivered DEF Receive
  <2>3. 1..last_event_id \subseteq 1..last_event_id'
    BY <2>1 DEF TypeInv
  <2>4. CASE ~ Mapped(stream[cursor]) /\ UNCHANGED <<batch, accepted, refusals>>
    <3>1. Missed' \subseteq Missed
      BY <2>1, <2>2, <2>4 DEF Missed, From, Edit
    <3>2. Poison \subseteq Poison'
      BY <2>2, <2>3, <2>4 DEF Poison
    <3>. QED BY <2>2, <2>4, <3>1, <3>2, NothingFails
  <2>5. CASE /\ Mapped(stream[cursor])
             /\ flush(entries) \/ (batch' = entries /\ UNCHANGED <<accepted, refusals>>)
    <3>1. /\ entries \in Seq(Entries)
          /\ Len(entries) <= BATCH_MAX_EVENTS
          /\ \A n : n \in ToSet(Places(entries)) <=> n \in ToSet(Places(batch)) \/ n = cursor
          /\ \A i \in DOMAIN entries :
                 /\ entries[i].place \in 1..last_event_id'
                 /\ Mapped(stream[entries[i].place])
                 /\ entries[i].event = to_event(stream[entries[i].place].data)
      BY <1>4, <2>0, <2>5, BatchContent
    <3>2. CASE flush(entries)
      <4>1. \A n \in From'..last_event_id' :
               Edit(stream[n]) => n \in From..last_event_id \/ n \in ToSet(Places(entries))
        BY <2>1, <3>1 DEF Edit
      <4>2. ToSet(Places(batch)) \subseteq ToSet(Places(entries))
        BY <3>1
      <4>3. \A n \in ToSet(Places(entries)) : n \in ToSet(Places(batch)) \/ n > last_event_id
        BY <2>2, <3>1 DEF TypeInv
      <4>. QED BY <2>1, <2>2, <3>1, <3>2, <4>1, <4>2, <4>3, FlushAccounted
    <3>3. CASE batch' = entries /\ UNCHANGED <<accepted, refusals>>
      <4>1. \A n : n \in ToSet(Places(batch)') <=> n \in ToSet(Places(batch)) \/ n = cursor
        BY <3>1, <3>3 DEF Places
      <4>2. Missed' \subseteq Missed
        <5>. SUFFICES ASSUME NEW n \in Missed' PROVE n \in Missed
          OBVIOUS
        <5>1. /\ n \in From'..last_event_id' /\ Edit(stream[n])
              /\ n \notin ToSet(accepted) /\ n \notin ToSet(Places(batch)')
          BY <2>2, <3>3 DEF Missed, From
        <5>. QED BY <2>1, <4>1, <5>1, InMissed DEF Edit
      <4>3. Poison \subseteq Poison'
        <5>. SUFFICES ASSUME NEW n \in Poison PROVE n \in Poison'
          OBVIOUS
        <5>1. /\ n \in 1..last_event_id /\ Mapped(stream[n]) /\ ~ Edit(stream[n])
              /\ n \notin ToSet(Places(batch))
          BY DEF Poison
        <5>2. n # cursor
          BY <2>2, <5>1 DEF TypeInv
        <5>3. n \notin ToSet(Places(batch)')
          BY <4>1, <5>1, <5>2
        <5>. QED BY <2>2, <2>3, <5>1, <5>3 DEF Poison
      <4>. QED BY <2>2, <3>3, <4>2, <4>3, NothingFails
    <3>. QED BY <2>5, <3>2, <3>3
  <2>. QED BY <1>4, <2>0, <2>4, <2>5, ReceiveCases
<1>5. CASE flush(batch) /\ UNCHANGED <<stream, last_event_id, first, errors>>
  <2>1. /\ batch \in Seq(Entries) /\ Len(batch) <= BATCH_MAX_EVENTS
        /\ last_event_id <= last_event_id'
    BY <1>5, BatchAssumption DEF TypeInv, ContentInv
  <2>2. \A n \in From'..last_event_id' : n \in From..last_event_id
    BY <1>5 DEF From
  <2>3. \A i \in DOMAIN batch :
            /\ batch[i].place \in 1..last_event_id'
            /\ Mapped(stream[batch[i].place])
            /\ batch[i].event = to_event(stream[batch[i].place].data)
    BY <1>5 DEF OrderInv, ContentInv
  <2>. QED BY <1>5, <2>1, <2>2, <2>3, FlushAccounted
<1>6. CASE StreamError
  <2>1. /\ batch' = << >> /\ errors' = errors + 1
        /\ UNCHANGED <<stream, last_event_id, first, accepted, refusals>>
    BY <1>6 DEF StreamError
  <2> DEFINE P == ToSet(Places(batch))
  <2>2. IsFiniteSet(P) /\ Cardinality(P) <= Len(batch) /\ Cardinality(P) \in Nat
    BY PlacesBounded, FS_CardinalityType DEF TypeInv
  <2>3. Cardinality(P) <= BATCH_MAX_EVENTS - 1
    <3>1. Len(batch) \in Nat /\ Len(batch) < BATCH_MAX_EVENTS
      BY DEF TypeInv, ContentInv
    <3>. QED BY <2>2, <3>1, BatchAssumption
  <2>4. Missed' \subseteq Missed \cup P
    BY <2>1 DEF Missed, From
  <2>5. ToSet(Places(batch)') = {}
    BY <2>1 DEF ToSet, Places
  <2>6. Poison \subseteq Poison'
    BY <2>1, <2>5 DEF Poison
  <2>7. IsFiniteSet(Poison) /\ IsFiniteSet(Poison')
    BY FiniteLoss, FiniteLossNext
  <2> DEFINE pois == Cardinality(Poison)
             poisNext == Cardinality(Poison')
  <2>8. pois \in Nat /\ poisNext \in Nat /\ pois <= poisNext
    BY <2>6, <2>7, FS_CardinalityType, FS_Subset
  <2>9. errors \in Nat /\ errors + 1 \in Nat /\ refusals \in Nat /\ BATCH_MAX_EVENTS \in Nat
    BY BatchAssumption DEF TypeInv
  <2>. HIDE DEF pois, poisNext
  <2>10. Bound(errors + 1, refusals, poisNext) >= Bound(errors + 1, refusals, pois)
    BY ONLY <2>8, <2>9, BoundGrows
  <2>11. /\ Bound(errors + 1, refusals, pois) = Bound(errors, refusals, pois) + (BATCH_MAX_EVENTS - 1)
         /\ Bound(errors, refusals, pois) \in Int
    BY ONLY <2>8, <2>9, BoundGrows
  <2>12. Bound(errors + 1, refusals, poisNext) \in Int
    BY ONLY <2>8, <2>9, BoundGrows
  <2>13. Bound(errors + 1, refusals, poisNext) >= Bound(errors, refusals, pois) + Cardinality(P)
    BY <2>2, <2>3, <2>9, <2>10, <2>11, <2>12
  <2>14. Bound(errors', refusals', poisNext) >= Bound(errors, refusals, pois) + Cardinality(P)
    BY <2>1, <2>13
  <2>. QED BY <2>2, <2>4, <2>14, Accounting DEF pois, poisNext
<1>7. CASE TickFlush
  BY <1>5, <1>7 DEF TickFlush
<1>8. CASE StreamEnd
  BY <1>5, <1>8 DEF StreamEnd
<1>9. CASE UNCHANGED vars
  BY <1>2, <1>9 DEF vars
<1>. QED BY <1>1, <1>3, <1>4, <1>6, <1>7, <1>8, <1>9 DEF Next

\* As long as every change comes with an SSE id, an edit between the first message and
\* the last id is missed only with a batch that a broken stream, a failed post or a
\* malformed event has cost: for any batch size, stream and number of failures, a stream
\* that ends, a refused connection or a skipped message loses nothing.
THEOREM LossesBounded == ASSUME ChangesHaveIds PROVE Spec => []LossBounded
<1> DEFINE IInv == TypeInv /\ OrderInv /\ ContentInv /\ LossInv
<1>1. Init => IInv
  BY InitOrder, InitLoss
<1>2. IInv /\ [Next]_vars => IInv'
  BY NextOrder, NextContent, NextLoss
<1>3. IInv => LossBounded
  <2>. SUFFICES ASSUME IInv PROVE LossBounded
    OBVIOUS
  <2> DEFINE M == {n \in DOMAIN stream : Mapped(stream[n]) /\ ~ Edit(stream[n])}
  <2>1. IsFiniteSet(M)
    <3>1. DOMAIN stream = 1..Len(stream) /\ Len(stream) \in Nat
      BY DEF TypeInv
    <3>2. IsFiniteSet(DOMAIN stream)
      BY <3>1, FS_Interval
    <3>. QED BY <3>2, FS_Subset
  <2>2. Poison \subseteq M
    BY DEF Poison, OrderInv, TypeInv
  <2>3. /\ Cardinality(Poison) \in Nat /\ Cardinality(M) \in Nat /\ Cardinality(Missed) \in Nat
        /\ Cardinality(Poison) <= Cardinality(M)
    BY <2>1, <2>2, FiniteLoss, FS_CardinalityType, FS_Subset
  <2>4. errors \in Nat /\ refusals \in Nat /\ Cardinality(Missed) <= Bound(errors, refusals, Cardinality(Poison))
    BY DEF TypeInv, LossInv
  <2>5. /\ Bound(errors, refusals, Cardinality(Poison)) \in Int
        /\ Bound(errors, refusals, Cardinality(M)) \in Int
        /\ Bound(errors, refusals, Cardinality(M)) >= Bound(errors, refusals, Cardinality(Poison))
    BY <2>3, <2>4, BoundGrows
  <2>6. Cardinality(Missed) <= Bound(errors, refusals, Cardinality(M))
    BY <2>3, <2>4, <2>5
  <2>. QED BY <2>6 DEF LossBounded, Bound
<1>. QED BY <1>1, <1>2, <1>3, PTL DEF Spec

=============================================================================
