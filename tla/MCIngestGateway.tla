-------------------------- MODULE MCIngestGateway --------------------------
(***************************************************************************)
(* Small instances of IngestGateway for TLC.                               *)
(***************************************************************************)
EXTENDS IngestGateway, TLC

CONSTANTS p1, p2

Edit(user, wiki, namespace, ts) ==
    [user |-> user, wiki |-> wiki, family |-> "wikipedia", namespace |-> namespace, ts |-> ts]

\* As far ahead as is allowed.
Alice == Edit("alice", "enwiki", 0, MAX_FUTURE_SKEW)
Bob == Edit("bob", "enwiki", 0, 0)
BobDe == Edit("bob", "dewiki", 0, 0)

Future == Edit("alice", "enwiki", 0, MAX_FUTURE_SKEW + 1)
Special == Edit("bob", "enwiki", -1, 0)
NoUser == Edit(Blank, "enwiki", 0, 0)
NoWiki == Edit("bob", Blank, 0, 0)
NoFamily == [Bob EXCEPT !.family = Blank]

\* Every field that makes an event malformed.
ASSUME ValidationAssumption ==
    /\ \A event \in {Alice, Bob, BobDe} : validate(event, 0)
    /\ \A event \in {Future, Special, NoUser, NoWiki, NoFamily} : ~ validate(event, 0)

\* A batch of two users, one for another wiki, and ways to be 400: too long, and malformed
\* after a valid event.
AllBatches == {<<Alice, Bob>>, <<BobDe>>, <<Bob, Bob, Bob>>, <<Bob, Future>>}

GoodBatches == {<<Alice, Bob>>, <<BobDe, Alice>>}

HMAC == [u \in {"alice", "bob", Blank} |-> "hmac-" \o u]

Partitioner == [k \in {"hmac-alice", "hmac-bob", "hmac-", "enwiki", "dewiki"} |->
                   IF k \in {"hmac-alice", "enwiki"} THEN p1 ELSE p2]

ClientSymmetry == Permutations(Clients)

=============================================================================
