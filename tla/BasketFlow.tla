----------------------------- MODULE BasketFlow -----------------------------
(***************************************************************************)
(* Orders on their way through baskets into tenders: every request that    *)
(* changes a basket or an item, interleaved statement by statement.        *)
(***************************************************************************)
EXTENDS Baskets, BasketItems

\* A statement fails, or the process stops.
Abort(r) ==
    /\ pc[r] # "done"
    /\ Done(r) /\ UNCHANGED tables

Step(r) == BasketStep(r) \/ ItemStep(r)

Next == \E r \in Requests : Step(r) \/ Abort(r)

Spec == Init /\ [][Next]_vars

\* A statement that can run is run.
Fairness == \A r \in Requests : WF_vars(Step(r))

FairSpec == Spec /\ Fairness

-----------------------------------------------------------------------------
\* At most one temporary basket of a user, although PostBasket looks for it under
\* a lock that is per plan (PostBasket.go:102,119).
OneTempPerUser == OneTemp(basket)

SamePlan(a, b)   == basket[a].user = basket[b].user /\ basket[a].plan = basket[b].plan
SameName(a, b)   == ~basket[a].temp /\ ~basket[b].temp /\ basket[a].name = basket[b].name
SameNumber(a, b) == basket[a].type = basket[b].type /\ basket[a].number = basket[b].number

\* In a user's plan no two baskets have one name (PostBasket.go:162-172, migration 001),
\* and no two of a type one number (PostBasket.go:174-200), deletions in between included,
\* as long as UpdateBasket, which checks nothing, changes no name or type.
DistinctInPlan ==
    \A a, b \in DOMAIN basket :
        SamePlan(a, b) /\ (SameName(a, b) \/ SameNumber(a, b)) => a = b

\* An order that a search finds is in one basket of one user, whoever claims it at the
\* same time (PostBasketItems.go:142-202).
OneLiveClaim == OneClaim(basket, item)

\* A plan pays one price for a code, however items are packed at the same time
\* (MoveBasketItems.go:100-216), as long as items are posted to temporary baskets, for
\* PostBasketItems does not look at prices, and no basket goes while its items are moved
\* by two requests.
OnePricePerPlan == OnePrice(basket, item)

Moved == {i \in DOMAIN item \cap DOMAIN item' : item'[i].basket # item[i].basket}

\* The statements after the UPDATE of a call that moves items.
Moving == {"commitMove", "commitUnpack"}

\* The UPDATE takes claimed items of the caller only: to be packed, from the temporary
\* basket or the inbox of a plan (MoveBasketItems.go:224-229); to be unpacked, from any but
\* the temporary basket (UnpackBasketItems.go:135-137).
TakesOwn ==
    \A r \in Requests : pc'[r] \in Moving /\ pc[r] \notin Moving =>
        \A i \in call[r].items :
            /\ Live(i) /\ Home(i).user = call[r].user
            /\ IF pc'[r] = "commitMove" THEN Home(i).temp \/ Home(i).type = Inbox
                                        ELSE ~Home(i).temp

\* What it has taken moves in one step, to the last item (MoveBasketItems.go:238,
\* UnpackBasketItems.go:148), and nothing else moves.  By then no item is returned, and the
\* basket it leaves is gone or still the caller's, and no temporary one if it is unpacked.
MovesAll ==
    Moved # {} => \E r \in Requests :
        /\ pc[r] \in Moving
        /\ Moved = {i \in call[r].items : item[i].basket # call[r].basket}
        /\ \A i \in call[r].items :
              /\ item'[i].basket = call[r].basket /\ ~item[i].returned
              /\ item[i].basket \in DOMAIN basket =>
                    /\ Home(i).user = call[r].user
                    /\ pc[r] = "commitUnpack" => ~Home(i).temp

\* Items of one call move together or not at all, and only from where they may be taken.
MovedTogether == [][TakesOwn /\ MovesAll]_vars

\* No request waits for ever for a lock.
RequestsEnd == \A r \in Requests : <>(pc[r] = "done")

\* What UnpackBasketItems answers (line 116): an order that is in a tender cannot
\* be taken out of its basket.
TenderKeepsOrders ==
    [][\A i \in Moved : ~Tendered(i)]_vars

\* Seen from outside, orders are claimed, moved and let go of in one step each.
OrderOwner == [b \in DOMAIN basket |-> basket[b].user]
Findable == Keys \ Hidden

Holders(k) == {i \in DOMAIN item : Live(i) /\ item[i].key = k}
OrderPlace == [k \in Findable |-> IF Holders(k) = {} THEN None
                                 ELSE item[CHOOSE i \in Holders(k) : TRUE].basket]

Claims == INSTANCE OrderClaims WITH Keys <- Findable, owner <- OrderOwner, place <- OrderPlace

KeepsClaims == Claims!Promise
=============================================================================
