----------------------------- MODULE MCQueryApi -----------------------------
(***************************************************************************)
(* Small instances of QueryApi for TLC.                                    *)
(***************************************************************************)
EXTENDS QueryApi, TLC

CONSTANTS p1, p2

Page(family, wiki, namespace) ==
    [family |-> family, wiki |-> wiki, namespace |-> namespace]

\* Three wikis of a family, one of them with two namespaces.
EnArticle == Page("wikipedia", "en", 0)
EnTalk == Page("wikipedia", "en", 1)
DeArticle == Page("wikipedia", "de", 0)
FrArticle == Page("wikipedia", "fr", 0)

NonEmpty(S) == SUBSET S \ {{}}

\* The partitioner sends users 1 and 2 to p1, users 3 and 4 to p2.  Whatever users 1
\* and 2 edit, in a wiki with two namespaces that the partitions share and in one of
\* their own; user 3 in the shared one, or both users 3 and 4 in a third.
RichEdits ==
    [p \in {p1, p2} |->
        IF p = p1 THEN NonEmpty({1, 2} \X {EnArticle, EnTalk, DeArticle})
                  ELSE {{3} \X {EnArticle}, {3, 4} \X {FrArticle}}]

FewEdits ==
    [p \in {p1, p2} |->
        NonEmpty((IF p = p1 THEN {1, 2} ELSE {3}) \X {EnArticle})]

Ask(window, level, family, wiki) ==
    [window |-> window, level |-> level, family |-> family, wiki |-> wiki, estimator |-> "exact"]

Estimate(query) == [query EXCEPT !.estimator = "hll"]

\* Breakdowns of the window starting at 0, exact and estimated, an empty total of the
\* window before it, a request that lacks its family and one out of range.
AllQueries ==
    {Ask(0, 2, "wikipedia", None), Ask(0, 3, "wikipedia", "en"),
     Estimate(Ask(0, 2, "wikipedia", None)), Estimate(Ask(-2, 0, None, None)),
     Ask(0, 2, None, None), Ask(0, 4, None, None)}

\* Two windows, and the levels whose answers need one and two reads.
WindowQueries ==
    {Ask(w, level, None, None) : w \in Windows, level \in {0, 1}}

\* The wikis of the family.
WikiQuery == {Ask(0, 2, "wikipedia", None)}
WikiEstimate == {Estimate(q) : q \in WikiQuery}

\* The whole window.
GlobalQuery == {Ask(0, 0, None, None)}

\* Two users of one wiki on p1, one of another wiki on p2.
SplitEdits ==
    [p \in {p1, p2} |-> IF p = p1 THEN {{1, 2} \X {EnArticle}} ELSE {{3} \X {FrArticle}}]

\* Two wikis with two users, one with a single user.
TiedEdits ==
    [p \in {p1} |-> {({1, 2} \X {EnArticle}) \cup ({3, 4} \X {DeArticle}) \cup ({5} \X {FrArticle})}]

\* Names without colons.
PlainNames ==
    [name \in {"wikipedia", "en", None} |-> IF name = None THEN <<"">> ELSE <<name>>]

\* Two wikis with one name between them in the cache.
ColonNames ==
    ("a" :> <<"a">>) @@ ("b:c" :> <<"b", "c">>) @@ ("a:b" :> <<"a", "b">>) @@ ("c" :> <<"c">>)

ColonEdits ==
    [p \in {p1} |-> {({1, 2} \X {Page("a", "b:c", 0)}) \cup ({3, 4} \X {Page("a:b", "c", 1)})}]

ColonQueries == {Ask(0, 3, "a", "b:c"), Ask(0, 3, "a:b", "c")}

\* 16-bit hashes: users 1, 3 and 4 share a register, with different ranks.
UserHash == <<16, 48, 17, 31, 80>>

\* A sketch depends on the set of items alone, not on the order or number of inserts
\* and merges ("the standard HLL union", hll.rs:90), and every item leaves a trace,
\* also where its bits after the index are all zero (16 and 48).
ASSUME SketchAssumption ==
    LET Hashes == {16, 17, 31, 48}
        Built(s) == FoldLeft(insert, EmptySketch, s)
        SketchOf(H) ==
            [r \in {Index(h) : h \in H} |-> Max({Rho(h) : h \in {g \in H : Index(g) = r}})]
        Streams == [1..3 -> Hashes]
    IN  /\ \A s, t \in Streams : merge(Built(s), Built(t)) = SketchOf(ToSet(s) \cup ToSet(t))
        /\ \A h \in Hashes : Rho(h) \in 1..(HASH_BITS - PRECISION)

\* Requests are interchangeable.
ClientSymmetry == Permutations(Clients)

=============================================================================
