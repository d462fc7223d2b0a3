------------------------------- MODULE ReadFlow -------------------------------
(***************************************************************************)
(* A reader of several statements, while others write.  Readers change     *)
(* nothing, so that one stands for all; a reader of one statement sees one *)
(* state of the tables, and is an operator of its module.                  *)
(***************************************************************************)
EXTENDS BasketLists, ItemProgress, TenderStatistic

CONSTANTS Calls, None

VARIABLES
    call, pc,
    got,       \* what the reader has read so far
    answer,    \* what the client was told, None before and after an error
    since,     \* history: what a single statement had shown at the beginning
    disturbed  \* history: since then something was taken back, or a query failed unseen

reader == <<call, pc, got, answer, since, disturbed>>
vars   == <<tables, reader>>

Init ==
    /\ InitTables
    /\ call \in Calls /\ pc = "start"
    /\ got = None /\ answer = None /\ since = None /\ disturbed = FALSE

Goto(step)   == pc' = step /\ UNCHANGED <<call, answer>>
Return(told) == pc' = "done" /\ answer' = told /\ UNCHANGED <<call, got, since>>

-----------------------------------------------------------------------------
\* GetItemSteps.
ReadItem ==
    /\ call.kind = "Steps" /\ pc = "start"
    /\ \/ /\ call.item \in DOMAIN item /\ ~item[call.item].returned
          /\ got' = [basket |-> item[call.item].basket, steps |-> ItemSide(call.item),
                     arrived |-> item[call.item].arrived]
          /\ since' = StepsOf(call.item)
          /\ Goto("tender")
       \/ /\ call.item \notin DOMAIN item \/ item[call.item].returned
          /\ Return(None)
    /\ UNCHANGED disturbed

\* The errors of the two queries are dropped: a query that fails has found nothing.
ReadTender ==
    /\ pc = "tender"
    /\ \E answered \in BOOLEAN :
          /\ got' = [got EXCEPT !.steps = WithTender(@, answered /\ TendersOf(got.basket) # {})]
          /\ disturbed' = (disturbed \/ ~answered)
    /\ Goto("geree") /\ UNCHANGED since

ArrivalBeforeGeree ==
    /\ pc = "geree"
    /\ Return(WithGeree(WithArrival(got.steps, got.arrived), GereesOf(got.basket) # {}))
    /\ UNCHANGED disturbed

ReadGeree ==
    /\ pc = "geree"
    /\ \E answered \in BOOLEAN :
          /\ Return(WithArrival(WithGeree(got.steps, answered /\ GereesOf(got.basket) # {}), got.arrived))
          /\ disturbed' = (disturbed \/ ~answered)

\* GetStatistic.
ReadRows ==
    /\ call.kind = "Statistic" /\ pc = "start"
    /\ got' = StatRows /\ since' = StatSummary
    /\ Goto("summary") /\ UNCHANGED disturbed

ReadSummary ==
    /\ pc = "summary"
    /\ Return([rows |-> got, summary |-> StatSummary]) /\ UNCHANGED disturbed

\* GetBasketWithTotalPrice: the baskets, then a query for the price of each.
ReadBaskets ==
    /\ call.kind = "Totals" /\ pc = "start"
    /\ got' = [b \in {} |-> 0] /\ since' = [b \in DOMAIN basket |-> TotalPrice(b)]
    /\ Goto("total") /\ UNCHANGED disturbed

\* The query of the baskets asks for no order; they come as they are stored.
NextBasket == {b \in DOMAIN since \ DOMAIN got : \A c \in DOMAIN since \ DOMAIN got : b <= c}

\* A query for a price that fails counts as no price.
ReadTotal ==
    /\ pc = "total"
    /\ \E b \in NextBasket, answered \in BOOLEAN :
          /\ got' = Inserted(got, b, IF answered THEN TotalPrice(b) ELSE 0)
          /\ disturbed' = (disturbed \/ ~answered)
    /\ Goto("total") /\ UNCHANGED since

AnswerTotals ==
    /\ pc = "total" /\ DOMAIN got = DOMAIN since
    /\ Return(got) /\ UNCHANGED disturbed

Read == ReadItem \/ ReadTender \/ ReadGeree \/ ReadRows \/ ReadSummary
           \/ ReadBaskets \/ ReadTotal \/ AnswerTotals

\* A query that fails with an answer of its own, or the connection drops.
FailRead == pc # "done" /\ Return(None) /\ UNCHANGED disturbed

Next ==
    \/ (Read \/ FailRead) /\ UNCHANGED tables
    \/ Add /\ UNCHANGED reader
    \/ TakeBack /\ disturbed' = TRUE /\ UNCHANGED <<call, pc, got, answer, since>>

Spec == Init /\ [][Next]_vars

-----------------------------------------------------------------------------
Between ==
    CASE call.kind = "Steps" ->
            /\ Reach(since) <= Reach(answer)
            /\ Reach(answer) <= Reach(StepsOf(call.item))
      [] call.kind = "Statistic" ->
            /\ \A c \in DOMAIN since : since[c] <= answer.summary[c] /\ answer.summary[c] <= StatSummary[c]
            /\ \A c \in OfOrders : Added(answer.rows, c) <= answer.summary[c]
      [] call.kind = "Totals" ->
            \A b \in DOMAIN since : since[b] <= answer[b] /\ answer[b] <= TotalPrice(b)

\* What GetItemSteps, GetStatistic and GetBasketWithTotalPrice put together from several
\* statements is not older than their beginning and not newer than now, as long as nothing
\* is taken back meanwhile: a step further on, a larger figure or price, but never a step
\* an order had not reached or a sum that was never owed.
AnswersBetween == answer # None /\ ~disturbed => Between
=============================================================================
