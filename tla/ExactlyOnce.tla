---------------------------- MODULE ExactlyOnce ----------------------------
(***************************************************************************)
(* What the aggregator promises: a window's rows appear once, together,    *)
(* and say exactly what the topic says of that window, for good.           *)
(*                                                                         *)
(* No instances, offsets, watermarks or memory: this specification is the  *)
(* contract between the topic's producers, the aggregator and the query    *)
(* API (docs/design.md, "Exactly-once aggregation").                       *)
(***************************************************************************)
EXTENDS Windowing, Sequences, FiniteSets

CONSTANTS
    Partitions,
    Undecodable

VARIABLES
    log,   \* partition -> sequence of messages
    rows   \* <<window, cell, partition>> -> counts

vars == <<log, rows>>

Init ==
    /\ log = [p \in Partitions |-> << >>]
    /\ rows = << >>

Events(messages, w) ==
    {o \in DOMAIN messages : messages[o] # Undecodable /\ window_start(messages[o].ts) = w}

WindowsOf(p) ==
    {window_start(log[p][o].ts) : o \in {o \in DOMAIN log[p] : log[p][o] # Undecodable}}

\* The row of a cell by the messages of its partition: distinct ids, distinct users.
Row(messages, w, c) ==
    LET counted == {o \in Events(messages, w) : c \in cells_for_event(messages[o])}
    IN  [events |-> Cardinality({messages[o].event_id : o \in counted}),
         users  |-> Cardinality({messages[o].user : o \in counted})]

Published(p) == {key[1] : key \in {k \in DOMAIN rows : k[3] = p}}

\* A message arrives; it changes no count of a window that has been published.
Arrive(p) ==
    /\ Len(log'[p]) = Len(log[p]) + 1
    /\ log' = [log EXCEPT ![p] = Append(@, log'[p][Len(log'[p])])]
    /\ \A key \in DOMAIN rows : key[3] = p => rows[key] = Row(log'[p], key[1], key[2])
    /\ UNCHANGED rows

\* Every row of some windows of a partition is published, none of them again.
Publish(p) ==
    /\ \E W \in SUBSET (WindowsOf(p) \ Published(p)) :
          LET new == UNION {{<<w, c, p>> :
                               c \in UNION {cells_for_event(log[p][o]) : o \in Events(log[p], w)}} :
                              w \in W}
          IN  rows' = [key \in DOMAIN rows \cup new |->
                          IF key \in new THEN Row(log[p], key[1], key[2]) ELSE rows[key]]
    /\ UNCHANGED log

Next == \E p \in Partitions : Arrive(p) \/ Publish(p)

Spec == Init /\ [][Next]_vars

=============================================================================
