---------------------------- MODULE MCWikiSource ----------------------------
(***************************************************************************)
(* Small instances of WikiSource for TLC.                                  *)
(***************************************************************************)
EXTENDS WikiSource, TLC

Change(kind, namespace, user, wiki, timestamp) ==
    [id |-> TRUE, data |-> [kind |-> kind, namespace |-> namespace, user |-> user, bot |-> FALSE,
                            wiki |-> wiki, timestamp |-> timestamp]]

FirstSecond == -100

EnWiki == <<"en", "wiki">>

Article == Change("edit", 0, "alice", EnWiki, 0)
Unknown == Change("external", 0, "alice", EnWiki, 0)
TooEarly == Change("new", 0, "alice", EnWiki, MIN_TIMESTAMP - 1)
TooLate == Change("new", 0, "alice", EnWiki, MAX_TIMESTAMP + 1)
KeepAlive == [id |-> FALSE, data |-> Nothing]

\* Changes that map to an event the gateway's validation refuses.
SpecialPage == Change("log", -1, "alice", EnWiki, 0)
NoWiki == Change("log", 0, "alice", <<Blank, Blank>>, 0)

\* Edits, messages that are skipped with and without an id, and an event that is
\* refused.
AllKinds == {Article, Unknown, KeepAlive, SpecialPage}

\* Edits, and events that are refused.
Refused == {Article, SpecialPage, NoWiki}

Edits == {Article}

\* The mapping of changes, and of database names by name and by suffix.
ASSUME MappingAssumption ==
    /\ Mappable(Article.data) /\ ~ Mappable(Unknown.data)
    /\ ~ Mappable(TooEarly.data) /\ ~ Mappable(TooLate.data)
    /\ family_for_wiki(<<"commons", "wiki">>) = "commons"
    /\ family_for_wiki(<<"en", "wikinews">>) = "wikinews"
    /\ family_for_wiki(EnWiki) = "wikipedia"
    /\ family_for_wiki(<<"wikimania", "2026">>) = "other"

=============================================================================
