----------------------------- MODULE MCLoadTest -----------------------------
(***************************************************************************)
(* Small instances of LoadTest for TLC.                                    *)
(***************************************************************************)
EXTENDS LoadTest

CONSTANTS u1, u2, p1, p2

TwoPages == {[family |-> "wikipedia", wiki |-> wiki, namespace |-> 0] : wiki \in {"en", "de"}}

OnePage == {[family |-> "wikipedia", wiki |-> "en", namespace |-> 0]}

Split == [u \in Users |-> IF u = u1 THEN p1 ELSE p2]

=============================================================================
