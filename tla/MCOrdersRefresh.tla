-------------------------- MODULE MCOrdersRefresh --------------------------
(* Small instances of OrdersRefresh. *)
EXTENDS OrdersRefresh, TLC

CONSTANTS o1, o2, o3, i1

\* o1 and o2 of a branch each, o3 of none.
MCBranch == (o1 :> 1) @@ (o2 :> 2) @@ (o3 :> 0)

\* Answers with a repeated order, with one of the other answer, a nameless one, a malformed one.
MCAnswers   == {<<o1, o3>>, <<o2>>}
RaceAnswers == {<<o1>>}

\* Due in three days of the first or of the second day.
MCDeadline == (i1 :> 4)
=============================================================================
