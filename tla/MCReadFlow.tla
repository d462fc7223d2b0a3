------------------------------ MODULE MCReadFlow ------------------------------
(* A small instance of ReadFlow. *)
EXTENDS ReadFlow

CONSTANTS x, y

Basket(u, type, valid) == [user |-> u, plan |-> 1, type |-> type, valid |-> valid]
Item(b, dates, branch, year) ==
    [basket |-> b, dates |-> dates, arrived |-> FALSE, returned |-> FALSE,
     branch |-> branch, price |-> 2, year |-> year]
Tender(baskets, root, branches, year) ==
    [baskets |-> baskets, plan |-> 1, root |-> root, deleted |-> FALSE, branches |-> branches,
     budget |-> 3, successful |-> root, suspended |-> FALSE, year |-> year]
Contract(t, baskets, year) == [tender |-> t, baskets |-> baskets, amount |-> 5, year |-> year]

Planned == {"created_by_company", "planned_by_specialist"}

\* Three baskets of one type and one of another, two users.
MCBaskets == 1 :> Basket(1, 1, TRUE) @@ 2 :> Basket(1, 1, TRUE)
          @@ 3 :> Basket(2, 1, TRUE) @@ 4 :> Basket(1, 2, FALSE)

MCItems == 1 :> Item(1, Planned, x, 1) @@ 2 :> Item(2, {"sent_to_department"}, y, 1)
        @@ 3 :> Item(1, {}, y, 2) @@ 4 :> Item(4, {"nh_assigned"}, x, 1)

\* A tender of two branches and a version of it; one of no branch, suspended.
MCTenders == 1 :> Tender({1}, TRUE, {x, y}, 1) @@ 2 :> Tender({1, 2}, FALSE, {x}, 1)
Suspended == [Tender({2}, TRUE, {}, 1) EXCEPT !.suspended = TRUE]
Deleted   == [Tender({2}, TRUE, {y}, 1) EXCEPT !.deleted = TRUE]

None2 == [t \in {} |-> 0]
Store(t, g) == [basket |-> MCBaskets, item |-> MCItems, tender |-> t, geree |-> g]

MCStores == {Store(None2, None2), Store(MCTenders, 1 :> Contract(1, {1}, 2)),
             Store(1 :> Suspended @@ 2 :> Deleted, None2)}

MCNewItems   == 5 :> Item(2, Planned, x, 1) @@ 6 :> Item(3, {}, x, 1)
MCNewTenders == 3 :> Tender({2}, TRUE, {y}, 1)
MCNewGerees  == 2 :> Contract(3, {2}, 1) @@ 3 :> Contract(1, {1, 2}, 1)

MCCalls == {[kind |-> "Steps", item |-> i] : i \in {1, 2}} \cup {[kind |-> "Statistic"], [kind |-> "Totals"]}
=============================================================================
