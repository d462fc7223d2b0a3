------------------------------ MODULE Baskets ------------------------------
(***************************************************************************)
(* The handlers of baskets: PostBasket.go, UpdateBasket.go,                *)
(* DeleteBasket.go and UpdateBaskedValidation.go.  Only PostBasket has a   *)
(* transaction and a lock; the others are one statement each.              *)
(***************************************************************************)
EXTENDS BasketStore

Slot(r) == <<call[r].user, call[r].plan>>

NewBasket(r) == [user |-> call[r].user, plan |-> call[r].plan, type |-> call[r].type,
                 name |-> call[r].name, number |-> frame[r].number, temp |-> call[r].temp,
                 valid |-> FALSE]

-----------------------------------------------------------------------------
(* PostBasket *)

\* A plausible slip: the lock is asked for but its result is ignored.
TakeBasketLockUnchecked(r) ==
    /\ Goto(r, "lock", IF call[r].temp THEN "findTemp" ELSE "name")
    /\ UNCHANGED <<tables, call, frame, locks>>

TakeBasketLock(r) ==
    /\ Goto(r, "lock", IF call[r].temp THEN "findTemp" ELSE "name")
    /\ basketLock[Slot(r)] = None
    /\ basketLock' = Taken(basketLock, Slot(r), r)
    /\ UNCHANGED <<tables, call, frame, priceLock, claimLock, itemLock>>

\* Answer 409 after ten seconds.
BasketLockTimeout(r) ==
    /\ pc[r] = "lock" /\ basketLock[Slot(r)] # None
    /\ Return(r) /\ UNCHANGED tables

\* A temporary basket of another transaction is waited for.
AddingTemp(r) == \E q \in Requests \ {r} : Adding(q) /\ call[q].temp /\ call[q].user = call[r].user

\* The temporary basket of a user, whatever its plan: if there is one, it is the answer.
FindTemp(r) ==
    /\ pc[r] = "findTemp" /\ ~AddingTemp(r)
    /\ IF \E b \in DOMAIN basket : basket[b].temp /\ basket[b].user = call[r].user
       THEN Return(r)
       ELSE Goto(r, "findTemp", "number") /\ UNCHANGED <<call, frame, locks>>
    /\ UNCHANGED tables

CheckName(r) ==
    /\ pc[r] = "name"
    /\ IF \E b \in DOMAIN basket : /\ <<basket[b].user, basket[b].plan>> = Slot(r)
                                   /\ ~basket[b].temp /\ basket[b].name = call[r].name
       THEN Return(r)
       ELSE Goto(r, "name", "number") /\ UNCHANGED <<call, frame, locks>>
    /\ UNCHANGED tables

Numbers(r) == {basket[b].number : b \in {x \in DOMAIN basket :
                  <<basket[x].user, basket[x].plan>> = Slot(r) /\ basket[x].type = call[r].type}}

\* A plausible slip: the maximum of no row is NULL.
UnguardedNumber(r, largest) == IF Numbers(r) = {} THEN None ELSE largest + 1

\* 1 if a text that is no number makes the query fail.
NextNumber(r, largest) == IF 0 \in Numbers(r) THEN 1 ELSE largest + 1

ReadNumber(r) ==
    /\ Goto(r, "number", "insert")
    /\ \E largest \in Numbers(r) \cup {0} :
          /\ \A n \in Numbers(r) : n <= largest
          /\ frame' = [frame EXCEPT ![r].number = NextNumber(r, largest)]
    /\ UNCHANGED <<tables, call, locks>>

\* A plausible slip: no unique index.
InsertUnindexed(r) ==
    /\ Goto(r, "insert", "commitBasket")
    /\ UNCHANGED <<tables, call, frame, locks>>

\* The unique index waits for a temporary basket that is being inserted, and
\* refuses a second one.
InsertBasket(r) ==
    /\ pc[r] = "insert" /\ (call[r].temp => ~AddingTemp(r))
    /\ IF call[r].temp /\ \E b \in DOMAIN basket : basket[b].temp /\ basket[b].user = call[r].user
       THEN Return(r)
       ELSE Goto(r, "insert", "commitBasket") /\ UNCHANGED <<call, frame, locks>>
    /\ UNCHANGED tables

CommitBasket(r) ==
    /\ pc[r] = "commitBasket"
    /\ basket' = [b \in DOMAIN basket \cup {r} |-> IF b = r THEN NewBasket(r) ELSE basket[b]]
    /\ Done(r)
    /\ UNCHANGED <<item, tender, notices>>

PostBasketStep(r) ==
    /\ call[r].kind = "PostBasket"
    /\ \/ TakeBasketLock(r) \/ BasketLockTimeout(r) \/ FindTemp(r) \/ CheckName(r)
       \/ ReadNumber(r) \/ InsertBasket(r) \/ CommitBasket(r)

-----------------------------------------------------------------------------
(* UpdateBasket: the type of all baskets of a type in a plan, or the name  *)
(* of one.  (The name of a plan is no modelled column.)                    *)

Retypes(c) == c.newType # None /\ c.type # None

Renames(c, b, row) ==
    /\ row.user = c.user
    /\ IF Retypes(c) THEN row.plan = c.plan /\ row.type = c.type ELSE b = c.basket

\* A statement on some baskets waits for those that are being inserted.
Rename(r) ==
    LET c == call[r] IN
    /\ pc[r] = "rename" /\ \A q \in Requests : Adding(q) => ~Renames(c, q, NewBasket(q))
    /\ basket' = [b \in DOMAIN basket |->
                     IF ~Renames(c, b, basket[b]) THEN basket[b]
                     ELSE IF Retypes(c) THEN [basket[b] EXCEPT !.type = c.newType]
                     ELSE [basket[b] EXCEPT !.name = c.name]]
    /\ Done(r)
    /\ UNCHANGED <<item, tender, notices>>

\* UpdateBaskedValidation: every basket of a plan, whoever owns it.
Validate(r) ==
    /\ pc[r] = "validate" /\ \A q \in Requests : Adding(q) => call[q].plan # call[r].plan
    /\ basket' = [b \in DOMAIN basket |->
                     IF basket[b].plan = call[r].plan THEN [basket[b] EXCEPT !.valid = TRUE]
                     ELSE basket[b]]
    /\ Done(r)
    /\ UNCHANGED <<item, tender, notices>>

-----------------------------------------------------------------------------
(* DeleteBasket.  Whether BasketItems has a foreign key to Basket, and what *)
(* it does on a deletion, is not in the repository: the items stay, go too, *)
(* or forbid the deletion.                                                  *)

\* The baskets of the caller, by identifier, by plan and type, or by plan.
Selects(c, b, row) ==
    /\ row.user = c.user
    /\ IF c.basket # None THEN b = c.basket
       ELSE row.plan = c.plan /\ c.type \in {None, row.type}

ItemsIn(B) == {i \in DOMAIN item : item[i].basket \in B}

Drop(r) ==
    LET gone == {b \in DOMAIN basket : Selects(call[r], b, basket[b])} IN
    /\ pc[r] = "drop" /\ \A q \in Requests : Adding(q) => ~Selects(call[r], q, NewBasket(q))
    /\ \/ basket' = [b \in DOMAIN basket \ gone |-> basket[b]] /\ UNCHANGED item
       \/ /\ Writable(ItemsIn(gone), r)
          /\ basket' = [b \in DOMAIN basket \ gone |-> basket[b]]
          /\ item' = [i \in DOMAIN item \ ItemsIn(gone) |-> item[i]]
       \/ ItemsIn(gone) # {} /\ UNCHANGED <<basket, item>>
    /\ Done(r)
    /\ UNCHANGED <<tender, notices>>

BasketStep(r) ==
    \/ PostBasketStep(r)
    \/ call[r].kind = "UpdateBasket" /\ Rename(r)
    \/ call[r].kind = "DeleteBasket" /\ Drop(r)
    \/ call[r].kind = "Validate" /\ Validate(r)
=============================================================================
