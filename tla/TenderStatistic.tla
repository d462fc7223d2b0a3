---------------------------- MODULE TenderStatistic ----------------------------
(***************************************************************************)
(* GetStatistic.go: one query for a row of figures per branch, another for *)
(* the figures of all together.                                            *)
(***************************************************************************)
EXTENDS ReadTables

CONSTANT Year   \* the year the client asks for

Price  == [i \in DOMAIN item |-> item[i].price]
Budget == [t \in DOMAIN tender |-> tender[t].budget]
Amount == [g \in DOMAIN geree |-> geree[g].amount]

\* The figures of some orders, tenders and contracts.
Figures(I, T, G) ==
    LET won == {t \in T : tender[t].successful} IN
    [TotalOrders       |-> Cardinality(I),   TotalOrderValue    |-> Sum(Price, I),
     TotalTenders      |-> Cardinality(T),   TotalBudget        |-> Sum(Budget, T),
     SuccessfulTenders |-> Cardinality(won), SuccessfulBudget   |-> Sum(Budget, won),
     SuspendedTenders  |-> Cardinality({t \in T : tender[t].suspended}),
     TotalContracts    |-> Cardinality(G),   TotalContractValue |-> Sum(Amount, G)]

\* The first query.  A tender counts in every branch its organization names, a contract in
\* those of its tender, whatever has become of that.
WithReturned(b)   == {i \in DOMAIN item : item[i].year = Year /\ item[i].branch = b}
BasketStats(b)    == {i \in DOMAIN item : ~item[i].returned /\ item[i].year = Year /\ item[i].branch = b}
TenderExpanded(b) == {t \in DOMAIN tender : /\ tender[t].root /\ ~tender[t].deleted
                                            /\ tender[t].year = Year /\ b \in tender[t].branches}
GereeExpanded(b)  == {g \in DOMAIN geree : /\ geree[g].year = Year
                                           /\ geree[g].tender \in DOMAIN tender
                                           /\ b \in tender[geree[g].tender].branches}

AllDcodes == {b \in Branches : BasketStats(b) \cup TenderExpanded(b) \cup GereeExpanded(b) # {}}

StatRows == [b \in AllDcodes |-> Figures(BasketStats(b), TenderExpanded(b), GereeExpanded(b))]

\* The second query.
YearItems   == {i \in DOMAIN item : ~item[i].returned /\ item[i].year = Year}
YearTenders == {t \in DOMAIN tender : tender[t].root /\ ~tender[t].deleted /\ tender[t].year = Year}
YearGerees  == {g \in DOMAIN geree : geree[g].year = Year}

StatSummary == Figures(YearItems, YearTenders, YearGerees)

-----------------------------------------------------------------------------
OfOrders  == {"TotalOrders", "TotalOrderValue"}
Added(rows, c) == Sum([b \in DOMAIN rows |-> rows[b][c]], DOMAIN rows)

\* The tenders behind the figures, their own or those of the contracts.
Behind == YearTenders \cup {geree[g].tender : g \in YearGerees}

\* Where nothing happens in between, the rows add up to the summary: those of the orders
\* always, those of tenders and contracts if each tender names one branch.  A tender that
\* names several is in the row of each, so that the rows then add up to more, and to less
\* only if one names none.
RowsAddUp ==
    /\ \A c \in OfOrders : Added(StatRows, c) = StatSummary[c]
    /\ (\A t \in Behind : tender[t].branches # {}) =>
          \A c \in DOMAIN StatSummary : Added(StatRows, c) >= StatSummary[c]
    /\ (\A t \in Behind : Cardinality(tender[t].branches) <= 1) =>
          \A c \in DOMAIN StatSummary : Added(StatRows, c) <= StatSummary[c]
=============================================================================
