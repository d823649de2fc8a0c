------------------------ MODULE IngestGatewayProofs ------------------------
(***************************************************************************)
(* Proofs about the ingest gateway, for any clients, batches, channel and  *)
(* number of partitions: what leaves it is validated and pseudonymized,    *)
(* a user's events are in one partition, and over all retries, crashes and *)
(* failed sends the copies of a batch's events stay in proportion.         *)
(***************************************************************************)
EXTENDS IngestGateway, FiniteSetTheorems, SequenceTheorems, TLAPS

\* The events that clients post.
RawEvents == UNION {ToSet(batch) : batch \in Batches}

\* The message of the event e, the i-th of c's batch.
MessageOf(c, i, e) ==
    [key |-> Pseudonym[e.user], event_id |-> <<c, i>>,
     event |-> [e EXCEPT !.user = Pseudonym[e.user]]]

Message ==
    UNION {{MessageOf(c, i, batch[i]) : c \in Clients, i \in DOMAIN batch} : batch \in Batches}

\* The answers of a request of which something may have been let in.
Open == {"enqueue", "202", "503", "reset"}

Request == [stage : {"idle", "400"} \cup Open, batch : Batches \cup {<< >>},
            next : Nat \ {0}, tries : Nat]

TypeInv ==
    /\ handler \in [Clients -> Request]
    /\ channel \in Seq(Message)
    /\ IsABag(sending) /\ DOMAIN sending \subseteq Message
    /\ IsABag(lost) /\ DOMAIN lost \subseteq Message
    /\ log \in [Partitions -> Seq(Message)]

\* All that the gateway has let in comes from the batch that its client still posts.
Traced ==
    \A m \in Downstream : \E c \in Clients : \E i \in DOMAIN handler[c].batch :
        m = pseudonymize_and_serialize(c, i) /\ handler[c].stage \in Open

Validated == \A c \in Clients : handler[c].stage \in Open => ~ Malformed(handler[c].batch)

Keyed == \A p \in Partitions : \A m \in ToSet(log[p]) : PartitionOf[m.key] = p

Count(s, m) == Cardinality({k \in DOMAIN s : s[k] = m})

Held(m, B) == IF m \in DOMAIN B THEN B[m] ELSE 0

\* How often the message m is on its way, lost or in its partition.
Tally(m) ==
    Count(channel, m) + Held(m, sending) + Held(m, lost)
      + Count(log[PartitionOf[m.key]], m)

\* CopiesPerPost while a request is being served: what it has enqueued is there, what it
\* has yet to enqueue has fewer copies than posts and than what comes before.
Proportion ==
    \A c \in Clients : \A i \in DOMAIN handler[c].batch :
        LET n == Tally(pseudonymize_and_serialize(c, i))
            before == Tally(pseudonymize_and_serialize(c, i - 1))
        IN  /\ n <= handler[c].tries
            /\ i > 1 => n <= before
            /\ handler[c].stage = "202" => n >= 1
            /\ handler[c].stage = "enqueue" =>
                  /\ i < handler[c].next => n >= 1
                  /\ i >= handler[c].next => n <= handler[c].tries - 1
                  /\ i = handler[c].next /\ i > 1 => n < before

-----------------------------------------------------------------------------
(***************************************************************************)
(* Messages.                                                               *)
(***************************************************************************)
LEMMA RawEventUsers ==
    ASSUME NEW e \in RawEvents
    PROVE  "user" \in DOMAIN e /\ e.user \in DOMAIN Pseudonym
<1>1. PICK batch \in Batches : e \in ToSet(batch)
  BY DEF RawEvents
<1>2. PICK i \in DOMAIN batch : e = batch[i]
  BY <1>1 DEF ToSet
<1>. QED BY <1>2, BatchesAssumption

\* A message is keyed by the pseudonym in its event.
LEMMA MessageFields ==
    ASSUME NEW c, NEW i, NEW e \in RawEvents
    PROVE  LET m == MessageOf(c, i, e)
           IN  /\ m.event_id = <<c, i>> /\ m.event_id[1] = c
               /\ m.key = Pseudonym[e.user]
               /\ m.event.user = m.key
               /\ PartitionOf[m.key] \in Partitions
<1>1. "user" \in DOMAIN e /\ e.user \in DOMAIN Pseudonym
  BY RawEventUsers
<1>. QED BY <1>1, PartitionerAssumption DEF MessageOf

LEMMA MessagesKeyed ==
    ASSUME NEW m \in Message
    PROVE  /\ m.event.user = m.key
           /\ m.key \in {Pseudonym[u] : u \in DOMAIN Pseudonym}
           /\ PartitionOf[m.key] \in Partitions
<1>1. PICK batch \in Batches : m \in {MessageOf(c, i, batch[i]) : c \in Clients, i \in DOMAIN batch}
  BY DEF Message
<1>2. PICK c \in Clients, i \in DOMAIN batch : m = MessageOf(c, i, batch[i])
  BY <1>1
<1>3. batch[i] \in RawEvents
  BY DEF RawEvents, ToSet
<1>. QED BY <1>2, <1>3, MessageFields, RawEventUsers

-----------------------------------------------------------------------------
(***************************************************************************)
(* Counting a message in a sequence and in a bag.                          *)
(***************************************************************************)
LEMMA CountType ==
    ASSUME NEW S, NEW s \in Seq(S), NEW m
    PROVE  IsFiniteSet({k \in DOMAIN s : s[k] = m}) /\ Count(s, m) \in Nat
<1>1. DOMAIN s = 1..Len(s) /\ Len(s) \in Nat
  OBVIOUS
<1>2. IsFiniteSet(DOMAIN s)
  BY <1>1, FS_Interval
<1>3. IsFiniteSet({k \in DOMAIN s : s[k] = m})
  BY <1>2, FS_Subset
<1>. QED BY <1>3, FS_CardinalityType DEF Count

LEMMA CountAppend ==
    ASSUME NEW S, NEW s \in Seq(S), NEW x \in S, NEW m
    PROVE  Count(Append(s, x), m) = IF x = m THEN Count(s, m) + 1 ELSE Count(s, m)
<1> DEFINE t == Append(s, x)
           K == {k \in DOMAIN s : s[k] = m}
<1>1. /\ DOMAIN s = 1..Len(s) /\ Len(s) \in Nat
      /\ DOMAIN t = 1..(Len(s) + 1)
      /\ \A k \in DOMAIN s : t[k] = s[k]
      /\ t[Len(s) + 1] = x
  OBVIOUS
<1>2. IsFiniteSet(K)
  BY CountType
<1>2a. Len(s) + 1 \notin K
  BY <1>1
<1>. HIDE DEF t
<1>3. CASE x = m
  <2>1. {k \in DOMAIN t : t[k] = m} = K \cup {Len(s) + 1}
    BY <1>1, <1>3
  <2>2. Cardinality(K \cup {Len(s) + 1}) = Cardinality(K) + 1
    BY <1>2, <1>2a, FS_AddElement
  <2>. QED BY <1>3, <2>1, <2>2 DEF Count, t
<1>4. CASE x # m
  <2>1. {k \in DOMAIN t : t[k] = m} = K
    BY <1>1, <1>4
  <2>. QED BY <1>4, <2>1 DEF Count, t
<1>. QED BY <1>3, <1>4

LEMMA CountTail ==
    ASSUME NEW S, NEW s \in Seq(S), s # << >>, NEW m
    PROVE  Count(s, m) = IF Head(s) = m THEN Count(Tail(s), m) + 1 ELSE Count(Tail(s), m)
<1> DEFINE t == Tail(s)
           K == {k \in DOMAIN t : t[k] = m}
           J == {k \in DOMAIN s : k # 1 /\ s[k] = m}
           shift == [k \in K |-> k + 1]
<1>1. /\ DOMAIN s = 1..Len(s) /\ Len(s) \in Nat /\ Len(s) >= 1
      /\ t \in Seq(S) /\ DOMAIN t = 1..(Len(s) - 1)
      /\ \A k \in DOMAIN t : t[k] = s[k + 1]
      /\ Head(s) = s[1]
  OBVIOUS
<1>. HIDE DEF t
<1>2. IsFiniteSet(K) /\ Cardinality(K) = Count(t, m) /\ Count(t, m) \in Nat
  BY <1>1, CountType DEF Count
<1>3. shift \in Injection(K, J) /\ shift \in Surjection(K, J)
  <2>1. \A k \in K : k + 1 \in J /\ k \in Int
    BY <1>1
  <2>2. \A j \in J : j - 1 \in K /\ (j - 1) + 1 = j
    BY <1>1
  <2>. HIDE DEF K, J
  <2>3. shift \in Injection(K, J)
    BY <2>1 DEF Injection, IsInjective
  <2>4. shift \in Surjection(K, J)
    BY <2>1, <2>2 DEF Surjection
  <2>. QED BY <2>3, <2>4
<1>. HIDE DEF shift
<1>4. IsFiniteSet(J) /\ Cardinality(J) = Count(t, m)
  <2>. HIDE DEF K, J
  <2>. QED BY <1>2, <1>3, FS_Surjection
<1>5. CASE Head(s) = m
  <2>1. {k \in DOMAIN s : s[k] = m} = J \cup {1} /\ 1 \notin J
    BY <1>1, <1>5
  <2>2. Cardinality(J \cup {1}) = Cardinality(J) + 1
    BY <1>4, <2>1, FS_AddElement
  <2>. QED BY <1>4, <1>5, <2>1, <2>2 DEF Count, t
<1>6. CASE Head(s) # m
  <2>1. {k \in DOMAIN s : s[k] = m} = J
    BY <1>1, <1>6
  <2>. QED BY <1>4, <1>6, <2>1 DEF Count, t
<1>. QED BY <1>5, <1>6

LEMMA HeldType ==
    ASSUME NEW B, IsABag(B), NEW m
    PROVE  Held(m, B) \in Nat /\ (m \in DOMAIN B => Held(m, B) >= 1)
BY DEF Held, IsABag

LEMMA BagOfOne ==
    ASSUME NEW x
    PROVE  IsABag(SetToBag({x})) /\ DOMAIN SetToBag({x}) = {x} /\ SetToBag({x})[x] = 1
BY DEF IsABag, SetToBag

LEMMA BagsTogether ==
    ASSUME NEW B, NEW C, IsABag(B), IsABag(C)
    PROVE  /\ IsABag(B (+) C)
           /\ DOMAIN (B (+) C) = DOMAIN B \cup DOMAIN C
           /\ \A m : Held(m, B (+) C) = Held(m, B) + Held(m, C)
<1>1. /\ \A e \in DOMAIN B : B[e] \in Nat /\ B[e] > 0
      /\ \A e \in DOMAIN C : C[e] \in Nat /\ C[e] > 0
  BY DEF IsABag
<1>2. /\ DOMAIN (B (+) C) = DOMAIN B \cup DOMAIN C
      /\ \A e \in DOMAIN B \cup DOMAIN C :
            (B (+) C)[e] = (IF e \in DOMAIN B THEN B[e] ELSE 0) + (IF e \in DOMAIN C THEN C[e] ELSE 0)
  BY DEF (+)
<1>3. IsABag(B (+) C)
  BY <1>1 DEF IsABag, (+)
<1>. QED BY <1>1, <1>2, <1>3 DEF Held

LEMMA BagWith ==
    ASSUME NEW B, IsABag(B), NEW x
    PROVE  /\ IsABag(B (+) SetToBag({x}))
           /\ DOMAIN (B (+) SetToBag({x})) = DOMAIN B \cup {x}
           /\ \A m : Held(m, B (+) SetToBag({x})) = Held(m, B) + (IF m = x THEN 1 ELSE 0)
<1> DEFINE C == SetToBag({x})
<1>1. IsABag(C) /\ DOMAIN C = {x} /\ \A m : Held(m, C) = IF m = x THEN 1 ELSE 0
  BY BagOfOne DEF Held
<1>. HIDE DEF C
<1>2. /\ IsABag(B (+) C) /\ DOMAIN (B (+) C) = DOMAIN B \cup {x}
      /\ \A m : Held(m, B (+) C) = Held(m, B) + Held(m, C)
  BY <1>1, BagsTogether
<1>3. \A m : Held(m, B (+) C) = Held(m, B) + (IF m = x THEN 1 ELSE 0)
  BY <1>1, <1>2
<1>. QED BY <1>2, <1>3 DEF C

LEMMA BagWithout ==
    ASSUME NEW B, IsABag(B), NEW x \in DOMAIN B
    PROVE  /\ IsABag(B (-) SetToBag({x}))
           /\ DOMAIN (B (-) SetToBag({x})) \subseteq DOMAIN B
           /\ \A m : Held(m, B) = Held(m, B (-) SetToBag({x})) + (IF m = x THEN 1 ELSE 0)
<1> DEFINE D == [e \in DOMAIN B |-> IF e \in DOMAIN SetToBag({x}) THEN B[e] - SetToBag({x})[e]
                                                                   ELSE B[e]]
           R == [e \in {d \in DOMAIN D : D[d] > 0} |-> D[e]]
<1>1. B (-) SetToBag({x}) = R
  BY DEF (-)
<1>2. \A e \in DOMAIN B : B[e] \in Nat /\ B[e] > 0
  BY DEF IsABag
<1>3. DOMAIN D = DOMAIN B /\ \A e \in DOMAIN B : D[e] = IF e = x THEN B[e] - 1 ELSE B[e]
  BY BagOfOne
<1>. HIDE DEF D
<1>4. /\ DOMAIN R = {d \in DOMAIN B : D[d] > 0}
      /\ \A e \in DOMAIN R : R[e] = D[e] /\ R[e] \in Nat /\ R[e] > 0
  BY <1>2, <1>3
<1>5. IsABag(R)
  BY <1>4 DEF IsABag
<1>. HIDE DEF R
<1>6. \A m : Held(m, B) = Held(m, R) + (IF m = x THEN 1 ELSE 0)
  BY <1>2, <1>3, <1>4 DEF Held
<1>. QED BY <1>1, <1>4, <1>5, <1>6

LEMMA BagOfSeq ==
    ASSUME NEW S, NEW s \in Seq(S)
    PROVE  /\ IsABag(SeqToBag(s))
           /\ DOMAIN SeqToBag(s) = ToSet(s)
           /\ \A m : Held(m, SeqToBag(s)) = Count(s, m)
<1>1. DOMAIN SeqToBag(s) = ToSet(s) /\ \A m \in ToSet(s) : SeqToBag(s)[m] = Count(s, m)
  BY DEF SeqToBag, Count
<1>2. ASSUME NEW m
      PROVE  /\ Count(s, m) \in Nat
             /\ m \in ToSet(s) => Count(s, m) > 0
             /\ m \notin ToSet(s) => Count(s, m) = 0
  <2> DEFINE K == {k \in DOMAIN s : s[k] = m}
  <2>1. IsFiniteSet(K) /\ Count(s, m) \in Nat
    BY CountType
  <2>2. Count(s, m) = 0 <=> K = {}
    BY <2>1, FS_EmptySet DEF Count
  <2>3. m \in ToSet(s) <=> K # {}
    BY DEF ToSet
  <2>. QED BY <2>1, <2>2, <2>3
<1>3. IsABag(SeqToBag(s))
  BY <1>1, <1>2 DEF IsABag, SeqToBag
<1>. QED BY <1>1, <1>2, <1>3 DEF Held

-----------------------------------------------------------------------------
(***************************************************************************)
(* Where messages are.                                                     *)
(***************************************************************************)
LEMMA BatchIsSeq ==
    ASSUME NEW batch \in Batches \cup {<< >>}
    PROVE  /\ batch \in Seq(RawEvents)
           /\ Len(batch) \in Nat /\ DOMAIN batch = 1..Len(batch)
           /\ \A i \in DOMAIN batch : batch[i] \in RawEvents
<1>1. batch \in Seq(RawEvents)
  BY BatchesAssumption, EmptySeq DEF RawEvents
<1>. QED BY <1>1

\* Different events of the posted batches have different messages.
LEMMA Serialized ==
    ASSUME TypeInv, NEW c \in Clients, NEW i \in DOMAIN handler[c].batch
    PROVE  LET m == pseudonymize_and_serialize(c, i)
           IN  /\ m \in Message
               /\ m = MessageOf(c, i, handler[c].batch[i])
               /\ m.event_id = <<c, i>>
               /\ handler[c].batch \in Batches
<1>1. handler[c].batch \in Batches \cup {<< >>}
  BY DEF TypeInv, Request
<1>2. handler[c].batch \in Batches
  BY <1>1
<1>3. pseudonymize_and_serialize(c, i) = MessageOf(c, i, handler[c].batch[i])
  BY DEF pseudonymize_and_serialize, pseudonymize, MessageOf
<1>4. MessageOf(c, i, handler[c].batch[i]) \in Message
  BY <1>2 DEF Message
<1>5. handler[c].batch[i] \in RawEvents
  BY <1>2 DEF RawEvents, ToSet
<1>6. MessageOf(c, i, handler[c].batch[i]).event_id = <<c, i>>
  BY DEF MessageOf
<1>. QED BY <1>2, <1>3, <1>4, <1>6

LEMMA TallyType ==
    ASSUME TypeInv, NEW m \in Message
    PROVE  /\ PartitionOf[m.key] \in Partitions
           /\ Count(channel, m) \in Nat /\ Held(m, sending) \in Nat /\ Held(m, lost) \in Nat
           /\ Count(log[PartitionOf[m.key]], m) \in Nat
           /\ Tally(m) \in Nat
<1>1. PartitionOf[m.key] \in Partitions
  BY MessagesKeyed
<1>2. Count(channel, m) \in Nat
  BY CountType DEF TypeInv
<1>3. log[PartitionOf[m.key]] \in Seq(Message)
  BY <1>1 DEF TypeInv
<1>4. Count(log[PartitionOf[m.key]], m) \in Nat
  BY <1>3, CountType
<1>5. Held(m, sending) \in Nat /\ Held(m, lost) \in Nat
  BY HeldType DEF TypeInv
<1>. QED BY <1>1, <1>2, <1>4, <1>5 DEF Tally

LEMMA NotInSeq ==
    ASSUME NEW s, NEW m, m \notin ToSet(s)
    PROVE  Count(s, m) = 0
<1>1. {k \in DOMAIN s : s[k] = m} = {}
  BY DEF ToSet
<1>. QED BY <1>1, FS_EmptySet DEF Count

LEMMA Absent ==
    ASSUME TypeInv, NEW m \in Message, m \notin Downstream
    PROVE  Tally(m) = 0
<1>1. m \notin ToSet(channel) /\ m \notin DOMAIN sending /\ m \notin DOMAIN lost
  BY DEF Downstream, BagToSet
<1>2. PartitionOf[m.key] \in Partitions
  BY MessagesKeyed
<1>3. m \notin ToSet(log[PartitionOf[m.key]])
  BY <1>2 DEF Downstream, InLog
<1>. QED BY <1>1, <1>3, NotInSeq DEF Tally, Held

LEMMA InAppend ==
    ASSUME NEW S, NEW s \in Seq(S), NEW x \in S
    PROVE  ToSet(Append(s, x)) = ToSet(s) \cup {x}
<1>1. /\ DOMAIN s = 1..Len(s) /\ Len(s) \in Nat
      /\ DOMAIN Append(s, x) = 1..(Len(s) + 1)
      /\ \A k \in DOMAIN s : Append(s, x)[k] = s[k]
      /\ Append(s, x)[Len(s) + 1] = x
  OBVIOUS
<1>2. DOMAIN Append(s, x) = DOMAIN s \cup {Len(s) + 1}
  BY <1>1
<1>. QED BY <1>1, <1>2 DEF ToSet

LEMMA InTail ==
    ASSUME NEW S, NEW s \in Seq(S), s # << >>
    PROVE  /\ Head(s) \in S /\ Tail(s) \in Seq(S)
           /\ ToSet(s) = {Head(s)} \cup ToSet(Tail(s))
<1>1. /\ DOMAIN s = 1..Len(s) /\ Len(s) \in Nat /\ Len(s) >= 1
      /\ Tail(s) \in Seq(S) /\ DOMAIN Tail(s) = 1..(Len(s) - 1)
      /\ \A k \in DOMAIN Tail(s) : Tail(s)[k] = s[k + 1]
      /\ Head(s) = s[1] /\ Head(s) \in S
  OBVIOUS
<1>2. \A k \in DOMAIN Tail(s) : k + 1 \in DOMAIN s
  BY <1>1
<1>3. \A k \in DOMAIN s : k = 1 \/ (k - 1 \in DOMAIN Tail(s) /\ (k - 1) + 1 = k)
  BY <1>1
<1>4. ASSUME NEW x \in ToSet(s) PROVE x \in {Head(s)} \cup ToSet(Tail(s))
  <2>1. PICK k \in DOMAIN s : x = s[k]
    BY DEF ToSet
  <2>2. CASE k = 1
    BY <1>1, <2>1, <2>2
  <2>3. CASE k # 1
    <3>1. k - 1 \in DOMAIN Tail(s) /\ Tail(s)[k - 1] = x
      BY <1>1, <1>3, <2>1, <2>3
    <3>. QED BY <3>1 DEF ToSet
  <2>. QED BY <2>2, <2>3
<1>5. Head(s) \in ToSet(s)
  BY <1>1 DEF ToSet
<1>6. ASSUME NEW x \in ToSet(Tail(s)) PROVE x \in ToSet(s)
  BY <1>1, <1>2 DEF ToSet
<1>. QED BY <1>1, <1>4, <1>5, <1>6

-----------------------------------------------------------------------------
(***************************************************************************)
(* A message stays where it can be counted: draining, sending and crashes  *)
(* move messages and make none.                                            *)
(***************************************************************************)
StoresInv ==
    /\ channel \in Seq(Message)
    /\ IsABag(sending) /\ DOMAIN sending \subseteq Message
    /\ IsABag(lost) /\ DOMAIN lost \subseteq Message
    /\ log \in [Partitions -> Seq(Message)]

LEMMA RecvMoves ==
    ASSUME TypeInv, Recv
    PROVE  StoresInv' /\ Downstream' \subseteq Downstream /\ \A m \in Message : Tally(m)' = Tally(m)
<1> DEFINE x == Head(channel)
<1>1. /\ channel # << >> /\ channel' = Tail(channel)
      /\ sending' = sending (+) SetToBag({x}) /\ UNCHANGED <<log, lost>>
  BY DEF Recv
<1>2. /\ x \in Message /\ Tail(channel) \in Seq(Message)
      /\ ToSet(channel) = {x} \cup ToSet(Tail(channel))
  BY <1>1, InTail DEF TypeInv
<1>3. /\ IsABag(sending') /\ DOMAIN sending' = DOMAIN sending \cup {x}
      /\ \A m : Held(m, sending') = Held(m, sending) + (IF m = x THEN 1 ELSE 0)
  BY <1>1, BagWith DEF TypeInv
<1>4. StoresInv'
  BY <1>1, <1>2, <1>3 DEF StoresInv, TypeInv
<1>5. Downstream' \subseteq Downstream
  BY <1>1, <1>2, <1>3 DEF Downstream, InLog, BagToSet, ToSet
<1>6. ASSUME NEW m \in Message PROVE Tally(m)' = Tally(m)
  <2>1. Count(channel, m) = IF x = m THEN Count(Tail(channel), m) + 1 ELSE Count(Tail(channel), m)
    BY <1>1, CountTail DEF TypeInv
  <2>2. Count(channel', m) = Count(Tail(channel), m) /\ Count(channel', m) \in Nat
    BY <1>1, <1>2, CountType
  <2>3. Held(m, sending') = Held(m, sending) + (IF m = x THEN 1 ELSE 0) /\ Held(m, sending) \in Nat
    BY <1>3, TallyType
  <2>. HIDE DEF x
  <2>4. Count(channel', m) + Held(m, sending') = Count(channel, m) + Held(m, sending)
    BY <2>1, <2>2, <2>3
  <2>5. Tally(m)' = Count(channel', m) + Held(m, sending') + Held(m, lost') + Count(log'[PartitionOf[m.key]], m)
    BY DEF Tally, Count, Held
  <2>. QED BY <1>1, <2>4, <2>5 DEF Tally
<1>. QED BY <1>4, <1>5, <1>6

LEMMA SendOkMoves ==
    ASSUME TypeInv, NEW x, SendOk(x)
    PROVE  StoresInv' /\ Downstream' \subseteq Downstream /\ \A m \in Message : Tally(m)' = Tally(m)
<1> DEFINE q == PartitionOf[x.key]
<1>1. /\ x \in DOMAIN sending /\ sending' = sending (-) SetToBag({x})
      /\ log' = [log EXCEPT ![q] = Append(log[q], x)] /\ UNCHANGED <<channel, lost>>
  BY DEF SendOk, BagIn, BagToSet
<1>2. x \in Message
  BY <1>1 DEF TypeInv
<1>3. q \in Partitions /\ log[q] \in Seq(Message)
  BY <1>2, MessagesKeyed DEF TypeInv
<1>. HIDE DEF q
<1>4. /\ IsABag(sending') /\ DOMAIN sending' \subseteq DOMAIN sending
      /\ \A m : Held(m, sending) = Held(m, sending') + (IF m = x THEN 1 ELSE 0)
  BY <1>1, BagWithout DEF TypeInv
<1>5. Append(log[q], x) \in Seq(Message) /\ ToSet(Append(log[q], x)) = ToSet(log[q]) \cup {x}
  BY <1>2, <1>3, InAppend
<1>6. log'[q] = Append(log[q], x) /\ \A p \in Partitions \ {q} : log'[p] = log[p]
  BY <1>1, <1>3 DEF TypeInv
<1>7. StoresInv'
  <2>1. log' \in [Partitions -> Seq(Message)]
    BY <1>1, <1>3, <1>5 DEF TypeInv
  <2>. QED BY <1>1, <1>4, <2>1 DEF StoresInv, TypeInv
<1>8. Downstream' \subseteq Downstream
  <2>. SUFFICES ASSUME NEW m \in Downstream' PROVE m \in Downstream
    OBVIOUS
  <2>1. x \in Downstream
    BY <1>1 DEF Downstream, BagToSet
  <2>2. CASE m \in ToSet(channel)' \/ m \in BagToSet(sending)' \/ m \in BagToSet(lost)'
    BY <1>1, <1>4, <2>2 DEF Downstream, BagToSet, ToSet
  <2>3. CASE m \in InLog'
    <3>1. PICK p \in Partitions : m \in ToSet(log'[p])
      BY <2>3 DEF InLog, ToSet
    <3>2. m \in ToSet(log[p]) \/ m = x
      BY <1>5, <1>6, <3>1
    <3>. QED BY <2>1, <3>2 DEF Downstream, InLog
  <2>. QED BY <2>2, <2>3 DEF Downstream
<1>9. ASSUME NEW m \in Message PROVE Tally(m)' = Tally(m)
  <2> DEFINE r == PartitionOf[m.key]
  <2>1. r \in Partitions /\ (m = x => r = q)
    BY <1>2, MessagesKeyed DEF q
  <2>2. Count(log'[r], m) = IF m = x THEN Count(log[r], m) + 1 ELSE Count(log[r], m)
    <3>0. Count(Append(log[q], x), m) = IF x = m THEN Count(log[q], m) + 1 ELSE Count(log[q], m)
      BY <1>2, <1>3, CountAppend
    <3>. HIDE DEF r
    <3>1. CASE r = q
      BY <1>6, <3>0, <3>1
    <3>2. CASE r # q
      BY <1>6, <2>1, <3>2
    <3>. QED BY <3>1, <3>2
  <2>3. Held(m, sending) = Held(m, sending') + (IF m = x THEN 1 ELSE 0)
    BY <1>4
  <2>4. Held(m, sending') \in Nat /\ Count(log[r], m) \in Nat
        /\ Count(channel, m) \in Nat /\ Held(m, lost) \in Nat
    BY <1>4, HeldType, TallyType
  <2>5. Tally(m)' = Count(channel', m) + Held(m, sending') + Held(m, lost') + Count(log'[r], m)
    BY DEF Tally, Count, Held
  <2>6. Tally(m) = Count(channel, m) + Held(m, sending) + Held(m, lost) + Count(log[r], m)
    BY DEF Tally
  <2>7. Count(channel', m) = Count(channel, m) /\ Held(m, lost') = Held(m, lost)
    BY <1>1
  <2>. HIDE DEF r
  <2>. QED BY <2>2, <2>3, <2>4, <2>5, <2>6, <2>7
<1>. QED BY <1>7, <1>8, <1>9

LEMMA SendErrorMoves ==
    ASSUME TypeInv, NEW x, SendError(x)
    PROVE  StoresInv' /\ Downstream' \subseteq Downstream /\ \A m \in Message : Tally(m)' = Tally(m)
<1>1. /\ x \in DOMAIN sending /\ sending' = sending (-) SetToBag({x})
      /\ lost' = lost (+) SetToBag({x}) /\ UNCHANGED <<channel, log>>
  BY DEF SendError, BagIn, BagToSet
<1>2. x \in Message
  BY <1>1 DEF TypeInv
<1>3. /\ IsABag(sending') /\ DOMAIN sending' \subseteq DOMAIN sending
      /\ \A m : Held(m, sending) = Held(m, sending') + (IF m = x THEN 1 ELSE 0)
  BY <1>1, BagWithout DEF TypeInv
<1>4. /\ IsABag(lost') /\ DOMAIN lost' = DOMAIN lost \cup {x}
      /\ \A m : Held(m, lost') = Held(m, lost) + (IF m = x THEN 1 ELSE 0)
  BY <1>1, BagWith DEF TypeInv
<1>5. StoresInv'
  BY <1>1, <1>2, <1>3, <1>4 DEF StoresInv, TypeInv
<1>6. Downstream' \subseteq Downstream
  BY <1>1, <1>3, <1>4 DEF Downstream, InLog, BagToSet, ToSet
<1>7. ASSUME NEW m \in Message PROVE Tally(m)' = Tally(m)
  <2>1. Held(m, sending) = Held(m, sending') + (IF m = x THEN 1 ELSE 0)
    BY <1>3
  <2>2. Held(m, lost') = Held(m, lost) + (IF m = x THEN 1 ELSE 0)
    BY <1>4
  <2>3. Held(m, sending') \in Nat /\ Held(m, lost) \in Nat /\ Count(channel, m) \in Nat
        /\ Count(log[PartitionOf[m.key]], m) \in Nat
    BY <1>3, HeldType, TallyType
  <2>4. Tally(m)' = Count(channel', m) + Held(m, sending') + Held(m, lost')
                      + Count(log'[PartitionOf[m.key]], m)
    BY DEF Tally, Count, Held
  <2>5. Count(channel', m) = Count(channel, m)
        /\ Count(log'[PartitionOf[m.key]], m) = Count(log[PartitionOf[m.key]], m)
    BY <1>1
  <2>. QED BY <2>1, <2>2, <2>3, <2>4, <2>5 DEF Tally
<1>. QED BY <1>5, <1>6, <1>7

LEMMA CrashMoves ==
    ASSUME TypeInv, Crash
    PROVE  StoresInv' /\ Downstream' \subseteq Downstream /\ \A m \in Message : Tally(m)' = Tally(m)
<1> DEFINE C == SeqToBag(channel)
<1>1. channel' = << >> /\ sending' = EmptyBag /\ lost' = (lost (+) sending) (+) C /\ log' = log
  BY DEF Crash
<1>2. IsABag(C) /\ DOMAIN C = ToSet(channel) /\ \A m : Held(m, C) = Count(channel, m)
  BY BagOfSeq DEF TypeInv
<1>. HIDE DEF C
<1>3. /\ IsABag(lost (+) sending) /\ DOMAIN (lost (+) sending) = DOMAIN lost \cup DOMAIN sending
      /\ \A m : Held(m, lost (+) sending) = Held(m, lost) + Held(m, sending)
  BY BagsTogether DEF TypeInv
<1>4. /\ IsABag(lost') /\ DOMAIN lost' = (DOMAIN lost \cup DOMAIN sending) \cup ToSet(channel)
      /\ \A m : Held(m, lost') = Held(m, lost (+) sending) + Held(m, C)
  <2> DEFINE L == lost (+) sending
  <2>1. IsABag(L) /\ DOMAIN L = DOMAIN lost \cup DOMAIN sending /\ lost' = L (+) C
    BY <1>1, <1>3
  <2>. HIDE DEF L
  <2>2. /\ IsABag(L (+) C) /\ DOMAIN (L (+) C) = DOMAIN L \cup DOMAIN C
        /\ \A m : Held(m, L (+) C) = Held(m, L) + Held(m, C)
    BY <1>2, <2>1, BagsTogether
  <2>. QED BY <1>2, <2>1, <2>2 DEF L
<1>5. IsABag(sending') /\ DOMAIN sending' = {}
  BY <1>1 DEF EmptyBag, SetToBag, IsABag
<1>6. ToSet(channel) \subseteq Message
  BY DEF TypeInv, ToSet
<1>7. channel' \in Seq(Message) /\ DOMAIN channel' = {}
  BY <1>1, EmptySeq
<1>8. StoresInv'
  BY <1>1, <1>4, <1>5, <1>6, <1>7 DEF StoresInv, TypeInv
<1>9. Downstream' \subseteq Downstream
  BY <1>1, <1>4, <1>5, <1>7 DEF Downstream, InLog, BagToSet, ToSet
<1>10. ASSUME NEW m \in Message PROVE Tally(m)' = Tally(m)
  <2>1. Held(m, lost') = (Held(m, lost) + Held(m, sending)) + Count(channel, m)
    BY <1>2, <1>3, <1>4
  <2>2. Held(m, sending') = 0
    BY <1>5 DEF Held
  <2>3. Count(channel', m) = 0
    BY <1>7, NotInSeq DEF ToSet
  <2>4. Tally(m)' = Count(channel', m) + Held(m, sending') + Held(m, lost')
                      + Count(log'[PartitionOf[m.key]], m)
    BY DEF Tally, Count, Held
  <2>5. Held(m, sending) \in Nat /\ Held(m, lost) \in Nat /\ Count(channel, m) \in Nat
        /\ Count(log[PartitionOf[m.key]], m) \in Nat
    BY TallyType
  <2>. QED BY <1>1, <2>1, <2>2, <2>3, <2>4, <2>5 DEF Tally
<1>. QED BY <1>8, <1>9, <1>10

\* A step that moves messages, or changes the answer of a request, keeps the proportions.
LEMMA MovesKeep ==
    ASSUME TypeInv, TypeInv', Traced, Validated, Proportion,
           Downstream' \subseteq Downstream, \A m \in Message : Tally(m)' = Tally(m),
           \A c \in Clients :
               /\ handler'[c].batch = handler[c].batch
               /\ handler'[c].next = handler[c].next
               /\ handler'[c].tries = handler[c].tries
               /\ \/ handler'[c].stage = handler[c].stage
                  \/ handler[c].stage = "enqueue" /\ handler'[c].stage \in {"503", "reset"}
                  \/ /\ handler[c].stage = "enqueue" /\ handler'[c].stage = "202"
                     /\ handler[c].next > Len(handler[c].batch)
    PROVE  Traced' /\ Validated' /\ Proportion'
<1>1. \A c \in Clients : handler[c].stage \in Open <=> handler'[c].stage \in Open
  BY DEF Open
<1>2. \A c \in Clients : \A i : pseudonymize_and_serialize(c, i)' = pseudonymize_and_serialize(c, i)
  BY DEF pseudonymize_and_serialize, pseudonymize
<1>3. Traced'
  BY <1>1, <1>2 DEF Traced
<1>4. Validated'
  BY <1>1 DEF Validated, Malformed
<1>5. ASSUME NEW c \in Clients, NEW i \in DOMAIN handler[c].batch
      PROVE  /\ Tally(pseudonymize_and_serialize(c, i))' = Tally(pseudonymize_and_serialize(c, i))
             /\ i > 1 => Tally(pseudonymize_and_serialize(c, i - 1))'
                           = Tally(pseudonymize_and_serialize(c, i - 1))
  <2>1. handler[c].batch \in Batches \cup {<< >>}
    BY DEF TypeInv, Request
  <2>2. i > 1 => i - 1 \in DOMAIN handler[c].batch
    BY <2>1, BatchIsSeq
  <2>3. pseudonymize_and_serialize(c, i) \in Message
    BY Serialized
  <2>4. i > 1 => pseudonymize_and_serialize(c, i - 1) \in Message
    BY <2>2, Serialized
  <2>. QED BY <1>2, <2>3, <2>4 DEF Tally
<1>6. Proportion'
  <2>. SUFFICES ASSUME NEW c \in Clients, NEW i \in DOMAIN handler[c].batch
                PROVE  LET n == Tally(pseudonymize_and_serialize(c, i))
                           before == Tally(pseudonymize_and_serialize(c, i - 1))
                       IN  /\ n <= handler'[c].tries
                           /\ i > 1 => n <= before
                           /\ handler'[c].stage = "202" => n >= 1
                           /\ handler'[c].stage = "enqueue" =>
                                 /\ i < handler'[c].next => n >= 1
                                 /\ i >= handler'[c].next => n <= handler'[c].tries - 1
                                 /\ i = handler'[c].next /\ i > 1 => n < before
    BY <1>5 DEF Proportion
  <2>1. handler[c].next > Len(handler[c].batch) => i < handler[c].next
    BY BatchIsSeq DEF TypeInv, Request
  <2>. QED BY <2>1 DEF Proportion
<1>. QED BY <1>3, <1>4, <1>6

-----------------------------------------------------------------------------
(***************************************************************************)
(* The inductive invariant.                                                *)
(***************************************************************************)
GatewayInv == TypeInv /\ Traced /\ Validated /\ Keyed /\ Proportion

LEMMA InitGateway == Init => GatewayInv
<1>. SUFFICES ASSUME Init PROVE GatewayInv
  OBVIOUS
<1>1. << >> \in Seq(Message) /\ DOMAIN << >> = {}
  BY EmptySeq
<1>2. IsABag(EmptyBag) /\ DOMAIN EmptyBag = {}
  BY DEF EmptyBag, SetToBag, IsABag
<1>3. handler \in [Clients -> Request]
  BY DEF Init, Request
<1>4. TypeInv
  BY <1>1, <1>2, <1>3 DEF Init, TypeInv
<1>5. Downstream = {}
  BY <1>1, <1>2 DEF Init, Downstream, InLog, ToSet, BagToSet
<1>6. \A c \in Clients : handler[c].stage = "idle" /\ handler[c].batch = << >>
  BY DEF Init
<1>7. Traced /\ Validated
  BY <1>5, <1>6 DEF Traced, Validated, Open
<1>8. Keyed
  BY <1>1 DEF Init, Keyed, ToSet
<1>9. Proportion
  BY <1>6 DEF Proportion
<1>. QED BY <1>4, <1>7, <1>8, <1>9 DEF GatewayInv

\* try_send succeeds: one more copy of one message.
LEMMA EnqueueAdds ==
    ASSUME TypeInv, NEW d \in Clients, Enqueue(d)
    PROVE  LET x == pseudonymize_and_serialize(d, handler[d].next)
           IN  /\ handler[d].next \in DOMAIN handler[d].batch
               /\ x \in Message
               /\ TypeInv'
               /\ Downstream' \subseteq Downstream \cup {x}
               /\ \A m \in Message : Tally(m)' = Tally(m) + (IF m = x THEN 1 ELSE 0)
<1> DEFINE x == pseudonymize_and_serialize(d, handler[d].next)
<1>1. /\ channel' = Append(channel, x)
      /\ handler' = [handler EXCEPT ![d].next = handler[d].next + 1]
      /\ UNCHANGED <<sending, log, lost>>
  BY DEF Enqueue
<1>2. handler[d].batch \in Batches \cup {<< >>} /\ handler[d].next \in Nat \ {0}
  BY DEF TypeInv, Request
<1>3. handler[d].next \in DOMAIN handler[d].batch
  BY <1>2, BatchIsSeq DEF Enqueue, Enqueuing
<1>4. x \in Message
  BY <1>3, Serialized
<1>. HIDE DEF x
<1>5. channel \in Seq(Message)
  BY DEF TypeInv
<1>6. channel' \in Seq(Message) /\ ToSet(channel') = ToSet(channel) \cup {x}
  BY <1>1, <1>4, <1>5, InAppend
<1>7. TypeInv'
  <2>1. handler[d].next + 1 \in Nat \ {0}
    BY <1>2
  <2>2. handler' \in [Clients -> Request]
    BY <1>1, <2>1 DEF TypeInv, Request
  <2>. QED BY <1>1, <1>6, <2>2 DEF TypeInv
<1>8. Downstream' \subseteq Downstream \cup {x}
  <2>1. ToSet(channel)' = ToSet(channel) \cup {x} /\ InLog' = InLog
        /\ BagToSet(sending)' = BagToSet(sending) /\ BagToSet(lost)' = BagToSet(lost)
    BY <1>1, <1>6 DEF InLog, BagToSet, ToSet
  <2>. QED BY <2>1 DEF Downstream
<1>9. ASSUME NEW m \in Message PROVE Tally(m)' = Tally(m) + (IF m = x THEN 1 ELSE 0)
  <2>1. Count(channel', m) = IF x = m THEN Count(channel, m) + 1 ELSE Count(channel, m)
    BY <1>1, <1>4, <1>5, CountAppend
  <2>2. Tally(m)' = Count(channel', m) + Held(m, sending') + Held(m, lost')
                      + Count(log'[PartitionOf[m.key]], m)
    BY DEF Tally, Count, Held
  <2>3. Held(m, sending) \in Nat /\ Held(m, lost) \in Nat /\ Count(channel, m) \in Nat
        /\ Count(log[PartitionOf[m.key]], m) \in Nat
    BY TallyType
  <2>. QED BY <1>1, <2>1, <2>2, <2>3 DEF Tally
<1>. QED BY <1>3, <1>4, <1>7, <1>8, <1>9 DEF x

LEMMA EnqueueKeeps ==
    ASSUME TypeInv, Traced, Validated, Proportion, NEW d \in Clients, Enqueue(d)
    PROVE  Traced' /\ Validated' /\ Proportion'
<1> DEFINE j == handler[d].next
           x == pseudonymize_and_serialize(d, j)
<1>1. /\ j \in DOMAIN handler[d].batch
      /\ x \in Message
      /\ Downstream' \subseteq Downstream \cup {x}
      /\ \A m \in Message : Tally(m)' = Tally(m) + (IF m = x THEN 1 ELSE 0)
  BY EnqueueAdds
<1>2. x.event_id = <<d, j>>
  BY <1>1, Serialized
<1>3. /\ handler' = [handler EXCEPT ![d].next = j + 1]
      /\ handler[d].stage = "enqueue"
  BY DEF Enqueue, Enqueuing
<1>4. \A c \in Clients :
         /\ handler'[c].batch = handler[c].batch
         /\ handler'[c].tries = handler[c].tries
         /\ handler'[c].stage = handler[c].stage
         /\ handler'[c].next = IF c = d THEN j + 1 ELSE handler[c].next
  BY <1>3 DEF TypeInv
<1>5. \A c \in Clients : \A i : pseudonymize_and_serialize(c, i)' = pseudonymize_and_serialize(c, i)
  BY <1>4 DEF pseudonymize_and_serialize, pseudonymize
<1>. HIDE DEF x
<1>6. Traced'
  <2>1. handler[d].stage \in Open
    BY <1>3 DEF Open
  <2>2. \E i \in DOMAIN handler[d].batch : x = pseudonymize_and_serialize(d, i)
    BY <1>1 DEF x
  <2>. QED BY <1>1, <1>4, <1>5, <2>1, <2>2 DEF Traced
<1>7. Validated'
  BY <1>4 DEF Validated, Malformed
<1>8. ASSUME NEW c \in Clients, NEW i \in DOMAIN handler[c].batch
      PROVE  /\ Tally(pseudonymize_and_serialize(c, i)) \in Nat
             /\ Tally(pseudonymize_and_serialize(c, i))'
                  = Tally(pseudonymize_and_serialize(c, i)) + (IF c = d /\ i = j THEN 1 ELSE 0)
  <2> DEFINE m == pseudonymize_and_serialize(c, i)
  <2>1. m \in Message /\ m.event_id = <<c, i>>
    BY Serialized
  <2>2. m = x <=> c = d /\ i = j
    BY <1>2, <2>1 DEF x
  <2>3. Tally(m) \in Nat
    BY <2>1, TallyType
  <2>4. m' = m
    BY <1>5
  <2>5. Tally(m)' = Tally(m) + (IF m = x THEN 1 ELSE 0)
    <3>1. \A y : y = m => Tally(y)' = Tally(y) + (IF y = x THEN 1 ELSE 0)
      BY <1>1, <2>1
    <3>. QED BY <2>4, <3>1 DEF Tally, Count, Held
  <2>. QED BY <2>2, <2>3, <2>5
<1>9. Proportion'
  <2>. SUFFICES ASSUME NEW c \in Clients, NEW i \in DOMAIN handler[c].batch
                PROVE  LET n == Tally(pseudonymize_and_serialize(c, i))'
                           before == Tally(pseudonymize_and_serialize(c, i - 1))'
                       IN  /\ n <= handler'[c].tries
                           /\ i > 1 => n <= before
                           /\ handler'[c].stage = "202" => n >= 1
                           /\ handler'[c].stage = "enqueue" =>
                                 /\ i < handler'[c].next => n >= 1
                                 /\ i >= handler'[c].next => n <= handler'[c].tries - 1
                                 /\ i = handler'[c].next /\ i > 1 => n < before
    BY <1>4 DEF Proportion
  <2> DEFINE n == Tally(pseudonymize_and_serialize(c, i))
             nx == Tally(pseudonymize_and_serialize(c, i))'
             b == Tally(pseudonymize_and_serialize(c, i - 1))
             bx == Tally(pseudonymize_and_serialize(c, i - 1))'
  <2>1. i \in Int /\ handler[c].next \in Int /\ handler[c].tries \in Int /\ j \in Int
        /\ (i > 1 => i - 1 \in DOMAIN handler[c].batch)
    <3>1. handler[c].batch \in Batches \cup {<< >>}
      BY DEF TypeInv, Request
    <3>2. i \in Int /\ (i > 1 => i - 1 \in DOMAIN handler[c].batch)
      BY <3>1, BatchIsSeq
    <3>3. handler[c].next \in Int /\ handler[c].tries \in Int /\ handler[d].next \in Int
      BY DEF TypeInv, Request
    <3>. QED BY <3>2, <3>3
  <2>2. n \in Nat /\ nx = n + (IF c = d /\ i = j THEN 1 ELSE 0)
    BY <1>8
  <2>3. i > 1 => b \in Nat /\ bx = b + (IF c = d /\ i - 1 = j THEN 1 ELSE 0)
    BY <1>8, <2>1
  <2>4. /\ n <= handler[c].tries
        /\ i > 1 => n <= b
        /\ handler[c].stage = "202" => n >= 1
        /\ handler[c].stage = "enqueue" =>
              /\ i < handler[c].next => n >= 1
              /\ i >= handler[c].next => n <= handler[c].tries - 1
              /\ i = handler[c].next /\ i > 1 => n < b
    BY DEF Proportion
  <2>5. c = d => handler[c].stage = "enqueue" /\ handler[c].next = j
    BY <1>3
  <2>. HIDE DEF n, nx, b, bx, j
  <2>6. /\ nx <= handler[c].tries
        /\ i > 1 => nx <= bx
        /\ handler[c].stage = "202" => nx >= 1
        /\ handler[c].stage = "enqueue" =>
              /\ i < handler'[c].next => nx >= 1
              /\ i >= handler'[c].next => nx <= handler[c].tries - 1
              /\ i = handler'[c].next /\ i > 1 => nx < bx
    <3>1. CASE c = d
      BY <1>4, <2>1, <2>2, <2>3, <2>4, <2>5, <3>1
    <3>2. CASE c # d
      BY <1>4, <2>1, <2>2, <2>3, <2>4, <3>2
    <3>. QED BY <3>1, <3>2
  <2>. QED BY <1>4, <2>6 DEF nx, bx
<1>. QED BY <1>6, <1>7, <1>9

\* A request arrives: nothing of a new batch has been let in before, and a retry has one
\* post more than there are copies.
LEMMA PostKeeps ==
    ASSUME TypeInv, Traced, Validated, Proportion, NEW d \in Clients, PostEvents(d)
    PROVE  TypeInv' /\ Traced' /\ Validated' /\ Proportion'
<1>1. PICK batch \in IF handler[d].stage = "idle" THEN Batches ELSE {handler[d].batch} :
         handler' = [handler EXCEPT ![d] =
             [stage |-> IF Malformed(batch) THEN "400" ELSE "enqueue",
              batch |-> batch, next |-> 1, tries |-> handler[d].tries + 1]]
  BY DEF PostEvents
<1>2. /\ UNCHANGED <<channel, sending, log, lost>>
      /\ handler[d].stage \in {"idle", "503", "reset"}
  BY DEF PostEvents
<1>3. handler[d].batch \in Batches \cup {<< >>} /\ handler[d].tries \in Nat
  BY DEF TypeInv, Request
<1>4. batch \in Batches \cup {<< >>}
  BY <1>1, <1>3
<1>5. TypeInv'
  <2>1. handler' \in [Clients -> Request]
    BY <1>1, <1>3, <1>4 DEF TypeInv, Request, Open
  <2>. QED BY <1>2, <2>1 DEF TypeInv
<1>6. /\ handler'[d].batch = batch /\ handler'[d].tries = handler[d].tries + 1
      /\ handler'[d].stage = (IF Malformed(batch) THEN "400" ELSE "enqueue") /\ handler'[d].next = 1
      /\ \A c \in Clients \ {d} : handler'[c] = handler[c]
  BY <1>1 DEF TypeInv
<1>7. Downstream' = Downstream /\ \A m : Tally(m)' = Tally(m)
  BY <1>2 DEF Downstream, InLog, Tally, Count, Held, BagToSet, ToSet
<1>8. CASE handler[d].stage = "idle"
  <2>1. Traced'
    <3>. SUFFICES ASSUME NEW m \in Downstream
                  PROVE  \E c \in Clients : \E i \in DOMAIN handler'[c].batch :
                             m = pseudonymize_and_serialize(c, i)' /\ handler'[c].stage \in Open
      BY <1>7 DEF Traced
    <3>1. PICK c \in Clients : \E i \in DOMAIN handler[c].batch :
              m = pseudonymize_and_serialize(c, i) /\ handler[c].stage \in Open
      BY DEF Traced
    <3>2. c # d
      BY <1>8, <3>1 DEF Open
    <3>3. handler'[c] = handler[c]
      BY <1>6, <3>2
    <3>. QED BY <3>1, <3>3 DEF pseudonymize_and_serialize, pseudonymize
  <2>2. Validated'
    BY <1>6 DEF Validated, Malformed, Open
  <2>3. ASSUME NEW i \in DOMAIN batch
        PROVE  Tally(pseudonymize_and_serialize(d, i))' = 0
    <3>1. MessageOf(d, i, batch[i]) \in Message /\ MessageOf(d, i, batch[i]).event_id = <<d, i>>
      BY <1>1, <1>8 DEF Message, MessageOf
    <3>2. MessageOf(d, i, batch[i]) \notin Downstream
      <4>. SUFFICES ASSUME MessageOf(d, i, batch[i]) \in Downstream PROVE FALSE
        OBVIOUS
      <4>1. PICK c \in Clients : \E k \in DOMAIN handler[c].batch :
                MessageOf(d, i, batch[i]) = pseudonymize_and_serialize(c, k) /\ handler[c].stage \in Open
        BY DEF Traced
      <4>2. PICK k \in DOMAIN handler[c].batch :
                MessageOf(d, i, batch[i]) = pseudonymize_and_serialize(c, k) /\ handler[c].stage \in Open
        BY <4>1
      <4>3. <<d, i>> = <<c, k>>
        BY <3>1, <4>2, Serialized
      <4>. QED BY <1>8, <4>2, <4>3 DEF Open
    <3>3. Tally(MessageOf(d, i, batch[i])) = 0
      BY <3>1, <3>2, Absent
    <3>4. pseudonymize_and_serialize(d, i)' = MessageOf(d, i, batch[i])
      BY <1>6 DEF pseudonymize_and_serialize, pseudonymize, MessageOf
    <3>5. Tally(MessageOf(d, i, batch[i]))' = 0
      BY <1>7, <3>3
    <3>. QED BY <3>4, <3>5 DEF Tally, Count, Held
  <2>4. Proportion'
    <3>. SUFFICES ASSUME NEW c \in Clients, NEW i \in DOMAIN handler'[c].batch
                  PROVE  LET n == Tally(pseudonymize_and_serialize(c, i))'
                             before == Tally(pseudonymize_and_serialize(c, i - 1))'
                         IN  /\ n <= handler'[c].tries
                             /\ i > 1 => n <= before
                             /\ handler'[c].stage = "202" => n >= 1
                             /\ handler'[c].stage = "enqueue" =>
                                   /\ i < handler'[c].next => n >= 1
                                   /\ i >= handler'[c].next => n <= handler'[c].tries - 1
                                   /\ i = handler'[c].next /\ i > 1 => n < before
      BY DEF Proportion
    <3>1. CASE c = d
      <4>1. i \in Nat /\ i >= 1 /\ (i > 1 => i - 1 \in DOMAIN batch)
        BY <1>4, <1>6, <3>1, BatchIsSeq
      <4>2. Tally(pseudonymize_and_serialize(c, i))' = 0
        BY <1>6, <2>3, <3>1
      <4>3. i > 1 => Tally(pseudonymize_and_serialize(c, i - 1))' = 0
        BY <2>3, <3>1, <4>1
      <4>4. handler'[c].tries = handler[d].tries + 1 /\ handler'[c].stage # "202" /\ handler'[c].next = 1
        BY <1>6, <3>1
      <4>. QED BY <1>3, <4>1, <4>2, <4>3, <4>4
    <3>2. CASE c # d
      <4>1. handler'[c] = handler[c]
        BY <1>6, <3>2
      <4>2. \A k : pseudonymize_and_serialize(c, k)' = pseudonymize_and_serialize(c, k)
        BY <4>1 DEF pseudonymize_and_serialize, pseudonymize
      <4>3. \A k : Tally(pseudonymize_and_serialize(c, k))' = Tally(pseudonymize_and_serialize(c, k))
        BY <1>2, <4>2 DEF Tally, Count, Held
      <4>. QED BY <4>1, <4>3 DEF Proportion
    <3>. QED BY <3>1, <3>2
  <2>. QED BY <1>5, <2>1, <2>2, <2>4
<1>9. CASE handler[d].stage \in {"503", "reset"}
  <2>1. batch = handler[d].batch /\ handler[d].stage \in Open
    BY <1>1, <1>9 DEF Open
  <2>2. ~ Malformed(batch)
    BY <2>1 DEF Validated
  <2>3. \A c \in Clients :
           /\ handler'[c].batch = handler[c].batch
           /\ handler[c].stage \in Open <=> handler'[c].stage \in Open
    BY <1>6, <2>1, <2>2 DEF Open
  <2>4. \A c \in Clients : \A i : pseudonymize_and_serialize(c, i)' = pseudonymize_and_serialize(c, i)
    BY <2>3 DEF pseudonymize_and_serialize, pseudonymize
  <2>5. Traced'
    BY <1>7, <2>3, <2>4 DEF Traced
  <2>6. Validated'
    BY <2>3 DEF Validated, Malformed
  <2>7. \A c \in Clients : \A i :
           Tally(pseudonymize_and_serialize(c, i))' = Tally(pseudonymize_and_serialize(c, i))
    BY <1>2, <2>4 DEF Tally, Count, Held
  <2>8. Proportion'
    <3>. SUFFICES ASSUME NEW c \in Clients, NEW i \in DOMAIN handler[c].batch
                  PROVE  LET n == Tally(pseudonymize_and_serialize(c, i))
                             before == Tally(pseudonymize_and_serialize(c, i - 1))
                         IN  /\ n <= handler'[c].tries
                             /\ i > 1 => n <= before
                             /\ handler'[c].stage = "202" => n >= 1
                             /\ handler'[c].stage = "enqueue" =>
                                   /\ i < handler'[c].next => n >= 1
                                   /\ i >= handler'[c].next => n <= handler'[c].tries - 1
                                   /\ i = handler'[c].next /\ i > 1 => n < before
      BY <2>3, <2>7 DEF Proportion
    <3>1. CASE c = d
      <4>1. i \in Nat /\ i >= 1
        BY <1>3, <3>1, BatchIsSeq
      <4>2. Tally(pseudonymize_and_serialize(c, i)) \in Nat
        BY Serialized, TallyType
      <4>3. /\ Tally(pseudonymize_and_serialize(c, i)) <= handler[d].tries
            /\ i > 1 => Tally(pseudonymize_and_serialize(c, i))
                          <= Tally(pseudonymize_and_serialize(c, i - 1))
        BY <3>1 DEF Proportion
      <4>4. /\ handler'[c].tries = handler[d].tries + 1 /\ handler'[c].stage = "enqueue"
            /\ handler'[c].next = 1
        BY <1>6, <2>2, <3>1
      <4>. QED BY <1>3, <4>1, <4>2, <4>3, <4>4
    <3>2. CASE c # d
      BY <1>6, <3>2 DEF Proportion
    <3>. QED BY <3>1, <3>2
  <2>. QED BY <1>5, <2>5, <2>6, <2>8
<1>. QED BY <1>2, <1>8, <1>9

LEMMA NextGateway ==
    ASSUME GatewayInv, [Next]_vars
    PROVE  GatewayInv'
<1>. USE DEF GatewayInv
<1>1. ASSUME UNCHANGED log PROVE Keyed'
  BY <1>1 DEF Keyed, ToSet
<1>2. ASSUME NEW d \in Clients, PostEvents(d) PROVE GatewayInv'
  <2>1. UNCHANGED log
    BY <1>2 DEF PostEvents
  <2>. QED BY <1>1, <1>2, <2>1, PostKeeps
<1>3. ASSUME NEW d \in Clients, Enqueue(d) PROVE GatewayInv'
  <2>1. UNCHANGED log
    BY <1>3 DEF Enqueue
  <2>. QED BY <1>1, <1>3, <2>1, EnqueueAdds, EnqueueKeeps
<1>4. ASSUME NEW d \in Clients, NEW answer, handler' = [handler EXCEPT ![d].stage = answer],
             handler[d].stage = "enqueue",
             \/ answer = "503"
             \/ answer = "202" /\ handler[d].next > Len(handler[d].batch),
             UNCHANGED <<channel, sending, log, lost>>
      PROVE  GatewayInv'
  <2>1. TypeInv'
    <3>1. handler' \in [Clients -> Request]
      BY <1>4 DEF TypeInv, Request, Open
    <3>. QED BY <1>4, <3>1 DEF TypeInv
  <2>2. Downstream' = Downstream /\ \A m \in Message : Tally(m)' = Tally(m)
    BY <1>4 DEF Downstream, InLog, Tally, Count, Held, BagToSet, ToSet
  <2>3. \A c \in Clients :
           /\ handler'[c].batch = handler[c].batch
           /\ handler'[c].next = handler[c].next
           /\ handler'[c].tries = handler[c].tries
           /\ handler'[c].stage = IF c = d THEN answer ELSE handler[c].stage
    BY <1>4 DEF TypeInv
  <2>4. Traced' /\ Validated' /\ Proportion'
    BY <1>4, <2>1, <2>2, <2>3, MovesKeep
  <2>. QED BY <1>1, <1>4, <2>1, <2>4
<1>5. ASSUME NEW d \in Clients, Full(d) PROVE GatewayInv'
  BY <1>4, <1>5 DEF Full, Enqueuing
<1>6. ASSUME NEW d \in Clients, Accept(d) PROVE GatewayInv'
  BY <1>4, <1>6 DEF Accept
<1>7. ASSUME StoresInv', Keyed', UNCHANGED handler, Downstream' \subseteq Downstream,
             \A m \in Message : Tally(m)' = Tally(m)
      PROVE  GatewayInv'
  <2>1. TypeInv'
    BY <1>7 DEF TypeInv, StoresInv
  <2>2. Traced' /\ Validated' /\ Proportion'
    BY <1>7, <2>1, MovesKeep
  <2>. QED BY <1>7, <2>1, <2>2
<1>8. CASE Recv
  <2>1. UNCHANGED <<handler, log>>
    BY <1>8 DEF Recv
  <2>. QED BY <1>1, <1>7, <1>8, <2>1, RecvMoves
<1>9. ASSUME NEW x, SendOk(x) PROVE GatewayInv'
  <2>1. UNCHANGED handler
    BY <1>9 DEF SendOk
  <2>2. Keyed'
    <3> DEFINE q == PartitionOf[x.key]
    <3>1. log' = [log EXCEPT ![q] = Append(log[q], x)] /\ x \in Message
      BY <1>9 DEF SendOk, BagIn, BagToSet, TypeInv
    <3>2. q \in Partitions /\ log[q] \in Seq(Message)
      BY <3>1, MessagesKeyed DEF TypeInv
    <3>3. ToSet(Append(log[q], x)) = ToSet(log[q]) \cup {x}
      BY <3>1, <3>2, InAppend
    <3>4. \A p \in Partitions : log'[p] = IF p = q THEN Append(log[q], x) ELSE log[p]
      BY <3>1, <3>2 DEF TypeInv
    <3>. SUFFICES ASSUME NEW p \in Partitions, NEW m \in ToSet(log'[p])
                  PROVE  PartitionOf[m.key] = p
      BY DEF Keyed, ToSet
    <3>5. CASE p = q
      <4>1. m \in ToSet(log[q]) \/ m = x
        BY <3>3, <3>4, <3>5
      <4>. QED BY <3>2, <3>5, <4>1 DEF Keyed
    <3>6. CASE p # q
      BY <3>4, <3>6 DEF Keyed
    <3>. QED BY <3>5, <3>6
  <2>. QED BY <1>7, <1>9, <2>1, <2>2, SendOkMoves
<1>10. ASSUME NEW x, SendError(x) PROVE GatewayInv'
  <2>1. UNCHANGED <<handler, log>>
    BY <1>10 DEF SendError
  <2>. QED BY <1>1, <1>7, <1>10, <2>1, SendErrorMoves
<1>11. CASE Crash
  <2>1. /\ log' = log
        /\ handler' = [c \in Clients |-> IF handler[c].stage = "enqueue"
                                         THEN [handler[c] EXCEPT !.stage = "reset"] ELSE handler[c]]
    BY <1>11 DEF Crash
  <2>2. handler' \in [Clients -> Request]
    BY <2>1 DEF TypeInv, Request, Open
  <2>3. TypeInv'
    BY <1>11, <2>2, CrashMoves DEF TypeInv, StoresInv
  <2>4. \A c \in Clients :
           /\ handler'[c].batch = handler[c].batch
           /\ handler'[c].next = handler[c].next
           /\ handler'[c].tries = handler[c].tries
           /\ \/ handler'[c].stage = handler[c].stage
              \/ handler[c].stage = "enqueue" /\ handler'[c].stage = "reset"
    BY <2>1 DEF TypeInv, Request
  <2>5. Traced' /\ Validated' /\ Proportion'
    BY <1>11, <2>3, <2>4, CrashMoves, MovesKeep
  <2>. QED BY <1>1, <2>1, <2>3, <2>5
<1>12. CASE UNCHANGED vars
  <2>1. UNCHANGED <<handler, channel, sending, log, lost>>
    BY <1>12 DEF vars
  <2>2. StoresInv'
    BY <2>1 DEF StoresInv, TypeInv
  <2>3. Downstream' = Downstream /\ \A m \in Message : Tally(m)' = Tally(m)
    BY <2>1 DEF Downstream, InLog, Tally, Count, Held, BagToSet, ToSet
  <2>. QED BY <1>1, <1>7, <2>1, <2>2, <2>3
<1>. QED BY <1>2, <1>3, <1>5, <1>6, <1>8, <1>9, <1>10, <1>11, <1>12 DEF Next, Sends

-----------------------------------------------------------------------------
(***************************************************************************)
(* What the invariant says.                                                *)
(***************************************************************************)
\* An event id names one message.
LEMMA OneMessage ==
    ASSUME TypeInv, Traced, NEW c \in Clients, NEW i \in DOMAIN handler[c].batch,
           NEW m \in Downstream
    PROVE  m.event_id = <<c, i>> <=> m = pseudonymize_and_serialize(c, i)
<1>1. PICK d \in Clients : \E k \in DOMAIN handler[d].batch : m = pseudonymize_and_serialize(d, k)
  BY DEF Traced
<1>2. PICK k \in DOMAIN handler[d].batch : m = pseudonymize_and_serialize(d, k)
  BY <1>1
<1>3. m.event_id = <<d, k>>
  BY <1>2, Serialized
<1>4. pseudonymize_and_serialize(c, i).event_id = <<c, i>>
  BY Serialized
<1>. QED BY <1>2, <1>3, <1>4

LEMMA CopiesInBag ==
    ASSUME NEW B, IsABag(B), NEW id, NEW x, x.event_id = id,
           \A m \in DOMAIN B : m.event_id = id <=> m = x
    PROVE  Cardinality(UNION {{m} \X (1..B[m]) : m \in {m \in DOMAIN B : m.event_id = id}}) = Held(x, B)
<1> DEFINE U == UNION {{m} \X (1..B[m]) : m \in {m \in DOMAIN B : m.event_id = id}}
<1>1. CASE x \in DOMAIN B
  <2>1. {m \in DOMAIN B : m.event_id = id} = {x}
    BY <1>1
  <2>2. U = {x} \X (1..B[x])
    BY <2>1
  <2>3. B[x] \in Nat
    BY <1>1 DEF IsABag
  <2>4. IsFiniteSet({x}) /\ Cardinality({x}) = 1
    BY FS_Singleton
  <2>5. IsFiniteSet(1..B[x]) /\ Cardinality(1..B[x]) = B[x]
    BY <2>3, FS_Interval
  <2>6. Cardinality({x} \X (1..B[x])) = B[x]
    <3> DEFINE X == {x}
               Y == 1..B[x]
    <3>1. IsFiniteSet(X) /\ Cardinality(X) = 1 /\ IsFiniteSet(Y) /\ Cardinality(Y) = B[x]
      BY <2>4, <2>5
    <3>. HIDE DEF X, Y
    <3>2. Cardinality(X \X Y) = Cardinality(X) * Cardinality(Y)
      BY <3>1, FS_Product
    <3>3. Cardinality(X \X Y) = B[x]
      BY <2>3, <3>1, <3>2
    <3>. QED BY <3>3 DEF X, Y
  <2>7. Held(x, B) = B[x]
    BY <1>1 DEF Held
  <2>. QED BY <2>2, <2>6, <2>7
<1>2. CASE x \notin DOMAIN B
  <2>1. {m \in DOMAIN B : m.event_id = id} = {}
    BY <1>2
  <2>2. U = {}
    BY <2>1
  <2>. QED BY <1>2, <2>2, FS_EmptySet DEF Held
<1>. QED BY <1>1, <1>2

\* Copies counts the message of the event.
LEMMA CopiesAreTally ==
    ASSUME GatewayInv, NEW c \in Clients, NEW i \in DOMAIN handler[c].batch
    PROVE  Copies(c, i) = Tally(pseudonymize_and_serialize(c, i))
<1>. USE DEF GatewayInv
<1> DEFINE x == pseudonymize_and_serialize(c, i)
           id == <<c, i>>
           q == PartitionOf[x.key]
           Carried(s) == {k \in DOMAIN s : s[k].event_id = id}
<1>1. x \in Message /\ x.event_id = id
  BY Serialized
<1>2. \A m \in Downstream : m.event_id = id <=> m = x
  BY OneMessage
<1>3. q \in Partitions
  BY <1>1, MessagesKeyed
<1>. HIDE DEF x, id
<1>4. \A m \in DOMAIN sending \cup DOMAIN lost : m.event_id = id <=> m = x
  BY <1>2 DEF Downstream, BagToSet
<1>5. Cardinality(UNION {{m} \X (1..sending[m]) : m \in {m \in DOMAIN sending : m.event_id = id}})
        = Held(x, sending)
  BY <1>1, <1>4, CopiesInBag DEF TypeInv
<1>6. Cardinality(UNION {{m} \X (1..lost[m]) : m \in {m \in DOMAIN lost : m.event_id = id}})
        = Held(x, lost)
  BY <1>1, <1>4, CopiesInBag DEF TypeInv
<1>7. Cardinality(Carried(channel)) = Count(channel, x)
  <2>1. \A k \in DOMAIN channel : channel[k].event_id = id <=> channel[k] = x
    BY <1>2 DEF Downstream, ToSet
  <2>2. Carried(channel) = {k \in DOMAIN channel : channel[k] = x}
    BY <2>1
  <2>. QED BY <2>2 DEF Count
<1>8. \A p \in Partitions : \A k \in DOMAIN log[p] :
          /\ log[p][k].event_id = id <=> log[p][k] = x
          /\ log[p][k] = x => p = q
  <2>. SUFFICES ASSUME NEW p \in Partitions, NEW k \in DOMAIN log[p]
                PROVE  /\ log[p][k].event_id = id <=> log[p][k] = x
                       /\ log[p][k] = x => p = q
    OBVIOUS
  <2>1. log[p][k] \in ToSet(log[p])
    BY DEF ToSet
  <2>2. log[p][k] \in Downstream
    BY <2>1 DEF Downstream, InLog
  <2>. QED BY <1>2, <2>1, <2>2 DEF Keyed
<1> DEFINE K == {k \in DOMAIN log[q] : log[q][k] = x}
<1>9. UNION {{p} \X Carried(log[p]) : p \in Partitions} = {q} \X K
  <2>1. Carried(log[q]) = K
    BY <1>3, <1>8
  <2>2. \A p \in Partitions \ {q} : Carried(log[p]) = {}
    BY <1>8
  <2>3. \A p \in Partitions \ {q} : {p} \X Carried(log[p]) = {}
    BY <2>2
  <2>. HIDE DEF Carried, q, K
  <2>4. ASSUME NEW y, y \in UNION {{p} \X Carried(log[p]) : p \in Partitions}
        PROVE  y \in {q} \X K
    <3>1. PICK p \in Partitions : y \in {p} \X Carried(log[p])
      BY <2>4
    <3>2. p = q
      BY <2>3, <3>1
    <3>. QED BY <2>1, <3>1, <3>2
  <2>5. ASSUME NEW y, y \in {q} \X K
        PROVE  y \in UNION {{p} \X Carried(log[p]) : p \in Partitions}
    BY <1>3, <2>1, <2>5
  <2>. QED BY <2>4, <2>5
<1>10. Cardinality({q} \X K) = Count(log[q], x)
  <2>1. log[q] \in Seq(Message)
    BY <1>3 DEF TypeInv
  <2>2. IsFiniteSet(K) /\ Cardinality(K) = Count(log[q], x) /\ Count(log[q], x) \in Nat
    BY <2>1, CountType DEF Count
  <2>3. IsFiniteSet({q}) /\ Cardinality({q}) = 1
    BY FS_Singleton
  <2>. HIDE DEF K, q
  <2>4. Cardinality({q} \X K) = 1 * Cardinality(K)
    BY <2>2, <2>3, FS_Product
  <2>. QED BY <2>2, <2>4
<1>11. Cardinality(UNION {{p} \X Carried(log[p]) : p \in Partitions}) = Count(log[q], x)
  BY <1>9, <1>10
<1>12. Copies(c, i) = Cardinality(Carried(channel))
          + Cardinality(UNION {{m} \X (1..sending[m]) : m \in {m \in DOMAIN sending : m.event_id = id}})
          + Cardinality(UNION {{m} \X (1..lost[m]) : m \in {m \in DOMAIN lost : m.event_id = id}})
          + Cardinality(UNION {{p} \X Carried(log[p]) : p \in Partitions})
  BY DEF Copies, id
<1>13. Tally(x) = Count(channel, x) + Held(x, sending) + Held(x, lost) + Count(log[q], x)
  BY DEF Tally
<1>14. Copies(c, i) = Tally(x)
  <2>. HIDE DEF Carried
  <2>. QED BY <1>5, <1>6, <1>7, <1>11, <1>12, <1>13
<1>. QED BY <1>14 DEF x

LEMMA GatewayInvariant == Spec => []GatewayInv
BY InitGateway, NextGateway, PTL DEF Spec

\* However requests, retries, sends and crashes interleave, nothing of a batch with a
\* malformed event is ever on the channel, in flight, in the topic or lost, and what is
\* there carries a pseudonym in place of its user.
THEOREM NothingRawLeaves == Spec => []OnlyValidPseudonyms
<1>1. GatewayInv => OnlyValidPseudonyms
  <2>. SUFFICES ASSUME GatewayInv, NEW m \in Downstream
                PROVE  /\ m.event.user \in {Pseudonym[u] : u \in DOMAIN Pseudonym}
                       /\ \A i \in DOMAIN handler[m.event_id[1]].batch :
                             validate(handler[m.event_id[1]].batch[i], 0)
    BY DEF OnlyValidPseudonyms
  <2>1. PICK c \in Clients : \E k \in DOMAIN handler[c].batch :
            m = pseudonymize_and_serialize(c, k) /\ handler[c].stage \in Open
    BY DEF GatewayInv, Traced
  <2>2. PICK k \in DOMAIN handler[c].batch :
            m = pseudonymize_and_serialize(c, k) /\ handler[c].stage \in Open
    BY <2>1
  <2>3. m \in Message /\ m.event_id = <<c, k>>
    BY <2>2, Serialized DEF GatewayInv
  <2>4. m.event.user \in {Pseudonym[u] : u \in DOMAIN Pseudonym}
    BY <2>3, MessagesKeyed
  <2>5. m.event_id[1] = c
    BY <2>3
  <2>6. ~ Malformed(handler[c].batch)
    BY <2>2 DEF GatewayInv, Validated
  <2>7. DOMAIN handler[c].batch = 1..Len(handler[c].batch)
    <3>1. handler[c].batch \in Batches \cup {<< >>}
      BY DEF GatewayInv, TypeInv, Request
    <3>. QED BY <3>1, BatchIsSeq
  <2>8. \A i \in DOMAIN handler[c].batch : validate(handler[c].batch[i], 0)
    BY <2>6, <2>7 DEF Malformed
  <2>. QED BY <2>4, <2>5, <2>8
<1>. QED BY <1>1, GatewayInvariant, PTL

\* Whoever posts a user's events and whenever, they are in one partition: the key is the
\* pseudonym, and the partitioner looks at nothing else.
THEOREM UsersStayTogether == Spec => []UserOnOnePartition
<1>1. GatewayInv => UserOnOnePartition
  <2>. SUFFICES ASSUME GatewayInv, NEW p \in Partitions, NEW q \in Partitions, p # q,
                       NEW m \in ToSet(log[p]), NEW n \in ToSet(log[q]), m.event.user = n.event.user
                PROVE  FALSE
    BY DEF UserOnOnePartition
  <2>1. log[p] \in Seq(Message) /\ log[q] \in Seq(Message)
    BY DEF GatewayInv, TypeInv
  <2>2. m \in Message /\ n \in Message
    BY <2>1 DEF ToSet
  <2>3. m.event.user = m.key /\ n.event.user = n.key
    BY <2>2, MessagesKeyed
  <2>4. PartitionOf[m.key] = p /\ PartitionOf[n.key] = q
    BY DEF GatewayInv, Keyed
  <2>. QED BY <2>3, <2>4
<1>. QED BY <1>1, GatewayInvariant, PTL

\* Over all retries, crashes and failed sends, for any channel capacity: at most as many
\* copies of an event as posts of its batch, never more than of the event before it, and
\* at least one of each event once the batch is answered 202.
THEOREM CopiesInProportion == Spec => []CopiesPerPost
<1>1. GatewayInv => CopiesPerPost
  <2>. SUFFICES ASSUME GatewayInv, NEW c \in Clients, NEW i \in DOMAIN handler[c].batch
                PROVE  /\ Copies(c, i) <= handler[c].tries
                       /\ i > 1 => Copies(c, i) <= Copies(c, i - 1)
                       /\ handler[c].stage = "202" => Copies(c, i) >= 1
    BY DEF CopiesPerPost
  <2>1. i > 1 => i - 1 \in DOMAIN handler[c].batch
    <3>1. handler[c].batch \in Batches \cup {<< >>}
      BY DEF GatewayInv, TypeInv, Request
    <3>. QED BY <3>1, BatchIsSeq
  <2>2. Copies(c, i) = Tally(pseudonymize_and_serialize(c, i))
    BY CopiesAreTally
  <2>3. i > 1 => Copies(c, i - 1) = Tally(pseudonymize_and_serialize(c, i - 1))
    BY <2>1, CopiesAreTally
  <2>. QED BY <2>2, <2>3 DEF GatewayInv, Proportion
<1>. QED BY <1>1, GatewayInvariant, PTL

=============================================================================
