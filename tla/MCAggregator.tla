---------------------------- MODULE MCAggregator ----------------------------
(***************************************************************************)
(* Small instances of Aggregator for TLC.                                  *)
(***************************************************************************)
EXTENDS Aggregator, TLC

CONSTANTS u1, u2,    \* pseudonyms
          p1, p2,    \* partitions
          i1, i2     \* instances

\* One wiki, or two wikis of one family: the second gives cells that one event
\* has and another lacks.
Page(wiki) == [family |-> "wikipedia", wiki |-> wiki, namespace |-> 0]
OnePage == {Page("en")}
TwoPages == {Page("en"), Page("de")}

AllToP1 == [u \in Users |-> p1]
Split == [u \in Users |-> IF u = u1 THEN p1 ELSE p2]

\* The instances are interchangeable (used for invariants only).
InstanceSymmetry == Permutations({i1, i2})

=============================================================================
