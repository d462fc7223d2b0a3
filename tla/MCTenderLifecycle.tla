-------------------------- MODULE MCTenderLifecycle --------------------------
(* Small instances of TenderLifecycle. *)
EXTENDS TenderLifecycle, TLC

CONSTANTS t1, t2, u1, u2, p1, p2, p3, c1, c2

MCTenders  == {t1, t2}
MCUsers    == {u1, u2}
MCPackages == {p1, p2, p3}
\* p2 and p3 share number and date and differ in their name.
MCSlot     == [p \in MCPackages |-> IF p = p3 THEN p2 ELSE p]

Row(root, deleted) == [createdBy |-> u1, root |-> root, isDeleted |-> deleted, suspended |-> FALSE]
Ask(kind, user, t, flag, items) ==
    [kind |-> kind, user |-> user, tender |-> t, flag |-> flag, items |-> items]

Twice   == {<<p1, c1>>, <<p1, c2>>}
Spread  == {<<p1, c1>>, <<p2, c1>>}
Clashes == {<<p2, c1>>, <<p3, c1>>}
Apart   == {<<p2, c2>>}
Alone   == {<<p2, c1>>}

\* Two current tenders.
RecycleLegacy == {[t \in MCTenders |-> Row(None, FALSE)]}

\* Reannouncements and answers, and every other way to hold a lock or wait for one.
RecycleCalls ==
    {Ask("Reannounce", u1, t1, TRUE, Twice), Ask("Reannounce", u1, t1, FALSE, Spread),
     Ask("Reannounce", u1, t2, FALSE, Alone), Ask("Reannounce", u1, t1, FALSE, Apart),
     Ask("Match", u1, t1, FALSE, {<<p1, c1>>}), Ask("Match", u1, t1, FALSE, {<<p1, c2>>}),
     Ask("Match", u1, t1, FALSE, Twice \cup Spread),
     Ask("Delete", u1, t1, FALSE, {}), Ask("Update", u2, t2, TRUE, {}),
     Ask("Geree", u2, t1, FALSE, {})}

\* One tender; a superseded one with its version; a deleted version.
AdminLegacy == {t1 :> Row(None, FALSE),
                (t1 :> Row(None, FALSE)) @@ (t2 :> Row(t1, FALSE)),
                (t1 :> Row(None, FALSE)) @@ (t2 :> Row(t1, TRUE))}

AdminCalls ==
    {Ask("Reannounce", u1, t1, TRUE, Twice), Ask("Reannounce", u1, t1, FALSE, Spread),
     Ask("Reannounce", u1, t1, FALSE, Clashes), Ask("Reannounce", u2, t1, TRUE, Twice),
     Ask("PostTender", u2, t1, FALSE, {}), Ask("Geree", u2, t1, FALSE, {}),
     Ask("Delete", u1, t1, FALSE, {}), Ask("Delete", u2, t2, FALSE, {}),
     Ask("Update", u2, t1, TRUE, {}), Ask("Update", u2, t1, FALSE, {})}

Symmetry == Permutations(Requests)
=============================================================================
