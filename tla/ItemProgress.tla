----------------------------- MODULE ItemProgress -----------------------------
(***************************************************************************)
(* How far an order has come: GetItemSteps.go asks three tables one after  *)
(* the other and lists the steps, the last of which is the current one;    *)
(* GetBasketItems.go finds the current step of every order in one query.   *)
(***************************************************************************)
EXTENDS ReadTables

TendersOf(b) == {t \in DOMAIN tender : ~tender[t].deleted /\ b \in tender[t].baskets}
GereesOf(b)  == {g \in DOMAIN geree : b \in geree[g].baskets}

\* GetItemSteps: the steps an order has a date of, and what follows them.
With(steps, s, there)     == IF there THEN Append(steps, s) ELSE steps
ItemSide(i)               ==
    LET Dated(steps, n) == With(steps, ItemSteps[n], ItemSteps[n] \in item[i].dates)
    IN  Dated(Dated(Dated(Dated(Dated(<<>>, 1), 2), 3), 4), 5)
WithTender(steps, found)  == With(steps, "tender_started", found)
WithGeree(steps, found)   == With(steps, "contract_signed", found)
WithArrival(steps, there) == With(steps, "delivered", there)

StepsOf(i) ==
    LET b == item[i].basket IN
    WithArrival(WithGeree(WithTender(ItemSide(i), TendersOf(b) # {}), GereesOf(b) # {}),
                item[i].arrived)

\* The last step, if there is one, is marked as current.
CurrentStep(steps) == IF steps = <<>> THEN {} ELSE {Last(steps)}

\* GetBasketItems, whose CASE ends with a step for every order.
LatestDate(i) ==
    IF item[i].dates = {} THEN "created_by_company"
    ELSE ItemSteps[CHOOSE n \in DOMAIN ItemSteps :
                       /\ ItemSteps[n] \in item[i].dates
                       /\ \A k \in DOMAIN ItemSteps : ItemSteps[k] \in item[i].dates => k <= n]
TenderBeforeGeree(i) ==
    IF item[i].arrived THEN "delivered"
    ELSE IF TendersOf(item[i].basket) # {} THEN "tender_started"
    ELSE IF GereesOf(item[i].basket) # {} THEN "contract_signed"
    ELSE LatestDate(i)
CurrentStepKey(i) ==
    IF item[i].arrived THEN "delivered"
    ELSE IF GereesOf(item[i].basket) # {} THEN "contract_signed"
    ELSE IF TendersOf(item[i].basket) # {} THEN "tender_started"
    ELSE LatestDate(i)

\* GetBasketIdsByRootNum: the baskets in the tenders of a plan.
PlanTenders(plan) == {t \in DOMAIN tender : tender[t].root /\ ~tender[t].deleted /\ tender[t].plan = plan}
BasketIds(plan)   == UNION {tender[t].baskets : t \in PlanTenders(plan)}

-----------------------------------------------------------------------------
StepOrder == ItemSteps \o <<"tender_started", "contract_signed", "delivered">>

Rank(step) == CHOOSE n \in DOMAIN StepOrder : StepOrder[n] = step

\* How far a list has come: 0 if no step is in it.
Reach(steps) == IF steps = <<>> THEN 0 ELSE Rank(Last(steps))

\* An order that has a date, or whose basket has come further.
Begun(i) == \/ item[i].dates # {} \/ item[i].arrived
            \/ TendersOf(item[i].basket) # {} \/ GereesOf(item[i].basket) # {}

\* "SAME LOGIC AS GetItemSteps" (GetBasketItems.go:91) is true of every order that has
\* begun: where nothing happens in between, GetItemSteps marks the very step that the CASE
\* of GetBasketItems finds.  Of an order that has not begun it is not: GetItemSteps marks
\* none (line 314), and the CASE says created_by_company (line 145).  The orders of a
\* basket that GetBasketIdsByRootNum shows in a tender are at least tendered for both.
StepsAgree ==
    \A i \in {i \in DOMAIN item : ~item[i].returned} :
        /\ CurrentStep(StepsOf(i)) = IF Begun(i) THEN {CurrentStepKey(i)} ELSE {}
        /\ ~Begun(i) => CurrentStepKey(i) = "created_by_company"
        /\ \A t \in DOMAIN tender :
              item[i].basket \in BasketIds(tender[t].plan) => Rank(CurrentStepKey(i)) >= Rank("tender_started")
=============================================================================
