---------------------------- MODULE Suppression ----------------------------
(***************************************************************************)
(* k-threshold suppression of one parent's children                        *)
(* (crates/query-api/src/privacy.rs).                                      *)
(*                                                                         *)
(* A RawCell is a record [key, events, users]; children is a sequence of   *)
(* them in the order the database returned them, which decides between     *)
(* cells with the same number of users.  An answer is a record             *)
(* [visible, other]: the set of cells released as they are, and the set    *)
(* (empty or a singleton) with the merged "Other" row.                     *)
(***************************************************************************)
EXTENDS Integers, FiniteSetsExt, Functions

SumUsers(cells, indices) == SumFunction([j \in indices |-> cells[j].users])
SumEvents(cells, indices) == SumFunction([j \in indices |-> cells[j].events])

\* Rule 1: the children below the threshold.
PrimaryHidden(children, k) == {j \in DOMAIN children : ~ (children[j].users >= k)}

\* The n first of the indices in a stable ascending sort by users.
Smallest(children, indices, n) ==
    LET Before(i, j) == \/ children[i].users < children[j].users
                        \/ children[i].users = children[j].users /\ i < j
    IN  {j \in indices : Cardinality({i \in indices : Before(i, j)}) < n}

\* u64::saturating_sub
SaturatingSub(a, b) == IF a > b THEN a - b ELSE 0

\* Variant for mutation: the residual forgets that the hidden users are accounted
\* for already.
HiddenEffective_Twice(parent_users, children, k, n) ==
    LET primary  == PrimaryHidden(children, k)
        visible  == DOMAIN children \ primary
        residual == SaturatingSub(parent_users, SumUsers(children, visible))
    IN  SumUsers(children, primary) + residual
          + SumUsers(children, Smallest(children, visible, n))

\* hidden_effective after the loop has pulled n visible children.
HiddenEffective(parent_users, children, k, n) ==
    LET primary  == PrimaryHidden(children, k)
        visible  == DOMAIN children \ primary
        residual == SaturatingSub(parent_users, SumUsers(children, DOMAIN children))
    IN  SumUsers(children, primary) + residual
          + SumUsers(children, Smallest(children, visible, n))

\* Variant for mutation: the hidden group is released whatever its size.
OtherRow_Unchecked(children, hidden, hidden_effective, k) ==
    {row \in {[events |-> SumEvents(children, hidden), users |-> hidden_effective]} :
        hidden # {}}

\* Variant for mutation: the merged row counts the events of small cells only.
OtherRow_SmallOnly(children, hidden, hidden_effective, k) ==
    {row \in {[events |-> SumEvents(children, PrimaryHidden(children, k)),
               users  |-> hidden_effective]} :
        hidden # {} /\ hidden_effective >= k}

\* The merged row, released only when the hidden group clears the threshold.
OtherRow(children, hidden, hidden_effective, k) ==
    {row \in {[events |-> SumEvents(children, hidden), users |-> hidden_effective]} :
        hidden # {} /\ hidden_effective >= k}

\* Rule 2: how many visible children the loop pulls into the hidden group.
PullCount(parent_users, children, k) ==
    LET visible == DOMAIN children \ PrimaryHidden(children, k)
        Stop(n) == \/ HiddenEffective(parent_users, children, k, n) = 0
                   \/ HiddenEffective(parent_users, children, k, n) >= k
                   \/ n = Cardinality(visible)
    IN  Min({n \in 0..Cardinality(visible) : Stop(n)})

suppress(parent_users, children, k) ==
    LET primary == PrimaryHidden(children, k)
        n       == PullCount(parent_users, children, k)
        hidden  == primary \cup Smallest(children, DOMAIN children \ primary, n)
    IN  [visible |-> {children[j] : j \in DOMAIN children \ hidden},
         other   |-> OtherRow(children, hidden,
                              HiddenEffective(parent_users, children, k, n), k)]

suppress_single(cell, k) == cell.users >= k

=============================================================================
