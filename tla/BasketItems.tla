---------------------------- MODULE BasketItems ----------------------------
(***************************************************************************)
(* The handlers of the orders in baskets: PostBasketItems.go,              *)
(* MoveBasketItems.go, UnpackBasketItems.go, ReturnBasketItems.go and      *)
(* DeleteBasketItemById.go; and of a tender what unpacking reads: its      *)
(* baskets and whether it is open.                                         *)
(*                                                                         *)
(* The identifiers of a call are a set: one given twice is answered with   *)
(* 409, for the rows affected are then fewer than the identifiers.         *)
(***************************************************************************)
EXTENDS BasketStore

Mine(r, i)  == i \in Shown(basket, item) /\ Home(i).user = call[r].user
MyItems(r)  == {i \in DOMAIN item : Mine(r, i)}
MyLive(r)   == {i \in MyItems(r) : Live(i)}
IsMine(r, b) == b \in DOMAIN basket /\ basket[b].user = call[r].user

\* A basket or item that is being inserted is waited for.
Present(b)    == ~(b \in Requests /\ Adding(b))
Inserting(q)  == pc[q] = "commitItem"

-----------------------------------------------------------------------------
(* PostBasketItems: claim an order for a basket.                           *)

CheckOwned(r) ==
    /\ pc[r] = "owned" /\ Present(call[r].basket)
    /\ IF IsMine(r, call[r].basket)
       THEN Goto(r, "owned", "claim") /\ UNCHANGED <<call, frame, locks>>
       ELSE Return(r)
    /\ UNCHANGED tables

AlreadyClaimed(k) == k \notin Hidden /\ \E i \in DOMAIN item : Live(i) /\ item[i].key = k

\* A plausible slip: the scan without UPDLOCK and HOLDLOCK.
CheckClaimUnlocked(r) ==
    /\ pc[r] = "claim" /\ Readable(ItemIds, r)
    /\ IF AlreadyClaimed(call[r].key) THEN Return(r)
       ELSE Goto(r, "claim", "insertItem") /\ UNCHANGED <<call, frame, locks>>
    /\ UNCHANGED tables

\* The predicate is on functions of the columns, so that the scan meets, and its
\* range locks cover, the whole table.  All columns are trimmed in the table, but only
\* price and quantity in the call.
CheckClaim(r) ==
    /\ pc[r] = "claim" /\ Writable(ItemIds, r)
    /\ IF AlreadyClaimed(call[r].key) THEN Return(r)
       ELSE /\ Goto(r, "claim", "insertItem")
            /\ claimLock' = r
            /\ UNCHANGED <<call, frame, basketLock, priceLock, itemLock>>
    /\ UNCHANGED tables

\* The basket may be gone by now: with a foreign key the insertion fails.
InsertItem(r) ==
    /\ pc[r] = "insertItem"
    /\ \/ Goto(r, "insertItem", "commitItem") /\ UNCHANGED <<call, frame, locks>>
       \/ call[r].basket \notin DOMAIN basket /\ Return(r)
    /\ UNCHANGED tables

CommitItem(r) ==
    /\ pc[r] = "commitItem"
    /\ item' = [i \in DOMAIN item \cup {r} |-> IF i # r THEN item[i] ELSE
                   [basket |-> call[r].basket, key |-> call[r].key, returned |-> FALSE]]
    /\ Done(r)
    /\ UNCHANGED <<basket, tender, notices>>

PostItemStep(r) ==
    /\ call[r].kind = "PostItem"
    /\ CheckOwned(r) \/ CheckClaim(r) \/ InsertItem(r) \/ CommitItem(r)

-----------------------------------------------------------------------------
(* MoveBasketItems: pack items of the temporary basket, or of the inbox of *)
(* a plan, into a basket of a plan.                                        *)

PriceSlot(r) == <<call[r].user, frame[r].plan>>

\* A plausible slip: the target may be anybody's.
CheckAnyTarget(r) ==
    LET b == call[r].basket IN
    /\ pc[r] = "target" /\ Present(b)
    /\ IF b \in DOMAIN basket /\ ~basket[b].temp
       THEN /\ Goto(r, "target", "priceLock")
            /\ frame' = [frame EXCEPT ![r].plan = basket[b].plan]
            /\ UNCHANGED <<call, locks>>
       ELSE Return(r)
    /\ UNCHANGED tables

CheckTarget(r) ==
    LET b == call[r].basket IN
    /\ pc[r] = "target" /\ Present(b)
    /\ IF IsMine(r, b) /\ ~basket[b].temp
       THEN /\ Goto(r, "target", "priceLock")
            /\ frame' = [frame EXCEPT ![r].plan = basket[b].plan]
            /\ UNCHANGED <<call, locks>>
       ELSE Return(r)
    /\ UNCHANGED tables

\* A plausible slip: no lock on the prices of the plan.
TakeNoPriceLock(r) ==
    /\ Goto(r, "priceLock", "chosen")
    /\ UNCHANGED <<tables, call, frame, locks>>

TakePriceLock(r) ==
    /\ Goto(r, "priceLock", "chosen") /\ priceLock[PriceSlot(r)] = None
    /\ priceLock' = Taken(priceLock, PriceSlot(r), r)
    /\ UNCHANGED <<tables, call, frame, basketLock, claimLock, itemLock>>

PriceLockTimeout(r) ==
    /\ pc[r] = "priceLock" /\ priceLock[PriceSlot(r)] # None
    /\ Return(r) /\ UNCHANGED tables

Chosen(r) == call[r].items \cap MyLive(r)

\* The chosen items agree in price.
CheckChosen(r) ==
    /\ pc[r] = "chosen" /\ Readable(call[r].items, r)
    /\ IF \E i, j \in Chosen(r) : Clash(item[i].key, item[j].key)
       THEN Return(r)
       ELSE Goto(r, "chosen", "planPrices") /\ UNCHANGED <<call, frame, locks>>
    /\ UNCHANGED tables

\* They agree with the items the plan has, those of the temporary basket included.
CheckPlanPrices(r) ==
    /\ pc[r] = "planPrices" /\ Readable(MyItems(r), r)
    /\ \A q \in Requests : Inserting(q) => call[q].user # call[r].user
    /\ IF \E i \in Chosen(r), j \in MyLive(r) \ call[r].items :
             Home(j).plan = frame[r].plan /\ Clash(item[i].key, item[j].key)
       THEN Return(r)
       ELSE Goto(r, "planPrices", "move") /\ UNCHANGED <<call, frame, locks>>
    /\ UNCHANGED tables

\* A plausible slip: from any basket.
MovableAnywhere(r) == Chosen(r)

Movable(r) == {i \in Chosen(r) : Home(i).temp \/ Home(i).type = Inbox}

\* The UPDATE locks the rows it changes.  If they are not all, or the target is gone
\* and a foreign key asks for it, nothing moves.
LockItems(r, movable, from, to) ==
    /\ pc[r] = from /\ Writable(call[r].items, r)
    /\ \/ /\ movable = call[r].items
          /\ Goto(r, from, to)
          /\ itemLock' = [i \in ItemIds |-> IF i \in movable THEN r ELSE itemLock[i]]
          /\ UNCHANGED <<call, frame, basketLock, priceLock, claimLock>>
       \/ (movable # call[r].items \/ call[r].basket \notin DOMAIN basket) /\ Return(r)
    /\ UNCHANGED tables

\* A plausible slip: the rows affected are not compared with the identifiers.
CommitSome(r, from) ==
    /\ pc[r] = from
    /\ \E some \in SUBSET (call[r].items \cap DOMAIN item) :
          item' = [i \in DOMAIN item |->
                      IF i \in some THEN [item[i] EXCEPT !.basket = call[r].basket] ELSE item[i]]
    /\ Done(r)
    /\ UNCHANGED <<basket, tender, notices>>

CommitMoved(r, from) ==
    /\ pc[r] = from
    /\ item' = [i \in DOMAIN item |-> IF i \in call[r].items
                                      THEN [item[i] EXCEPT !.basket = call[r].basket]
                                      ELSE item[i]]
    /\ Done(r)
    /\ UNCHANGED <<basket, tender, notices>>

MoveStep(r) ==
    /\ call[r].kind = "Move"
    /\ \/ CheckTarget(r) \/ TakePriceLock(r) \/ PriceLockTimeout(r) \/ CheckChosen(r)
       \/ CheckPlanPrices(r) \/ LockItems(r, Movable(r), "move", "commitMove")
       \/ CommitMoved(r, "commitMove")
-----------------------------------------------------------------------------
(* UnpackBasketItems: back into the temporary basket, unless a tender holds *)
(* them.  Its tendered items are those of a basket of an open tender.       *)

Tendered(i) == /\ i \in Shown(basket, item)
               /\ \E t \in DOMAIN tender : tender[t].open /\ item[i].basket \in tender[t].baskets

CheckTemp(r) ==
    LET b == call[r].basket IN
    /\ pc[r] = "temp" /\ Present(b)
    /\ IF IsMine(r, b) /\ basket[b].temp
       THEN Goto(r, "temp", "packed") /\ UNCHANGED <<call, frame, locks>>
       ELSE Return(r)
    /\ UNCHANGED tables

Unpackable(r) == {i \in Chosen(r) : ~Home(i).temp}

CheckPacked(r) ==
    /\ pc[r] = "packed" /\ Readable(call[r].items, r)
    /\ IF Unpackable(r) = call[r].items
       THEN Goto(r, "packed", "tendered") /\ UNCHANGED <<call, frame, locks>>
       ELSE Return(r)
    /\ UNCHANGED tables

CheckTendered(r) ==
    /\ pc[r] = "tendered" /\ Readable(call[r].items, r)
    /\ IF \E i \in call[r].items : Tendered(i)
       THEN Return(r)
       ELSE Goto(r, "tendered", "unpack") /\ UNCHANGED <<call, frame, locks>>
    /\ UNCHANGED tables

UnpackStep(r) ==
    /\ call[r].kind = "Unpack"
    /\ \/ CheckTemp(r) \/ CheckPacked(r) \/ CheckTendered(r)
       \/ LockItems(r, Unpackable(r), "unpack", "commitUnpack")
       \/ CommitMoved(r, "commitUnpack")

-----------------------------------------------------------------------------
(* ReturnBasketItems: one UPDATE of what is in the temporary basket; it    *)
(* stays even when the answer is 409 because it is not all.                *)

MarkReturned(r) ==
    LET marked == {i \in Chosen(r) : Home(i).temp} IN
    /\ pc[r] = "return" /\ Writable(call[r].items, r)
    /\ item' = [i \in DOMAIN item |-> IF i \in marked THEN [item[i] EXCEPT !.returned = TRUE]
                                      ELSE item[i]]
    /\ IF marked = call[r].items
       THEN Goto(r, "return", "notify") /\ UNCHANGED <<call, frame, locks>>
       ELSE Done(r)
    /\ UNCHANGED <<basket, tender, notices>>

\* An INSERT whose failure is only logged.
NotifyReturned(r) ==
    /\ pc[r] = "notify"
    /\ notices' \in {notices, notices \cup {r}}
    /\ Done(r)
    /\ UNCHANGED <<basket, item, tender>>

ReturnStep(r) == call[r].kind = "Return" /\ (MarkReturned(r) \/ NotifyReturned(r))

\* DeleteBasketItem: one row of the caller's, returned or not.
DeleteItem(r) ==
    /\ call[r].kind = "DeleteItem"
    /\ pc[r] = "dropItem" /\ Writable(call[r].items, r)
    /\ item' = [i \in DOMAIN item \ (call[r].items \cap MyItems(r)) |-> item[i]]
    /\ Done(r)
    /\ UNCHANGED <<basket, tender, notices>>

-----------------------------------------------------------------------------
(* A tender is created for some baskets; it is suspended, deleted, resumed. *)

InsertTender(r) ==
    /\ call[r].kind = "PostTender" /\ pc[r] = "tender"
    /\ \E open \in BOOLEAN :
          tender' = [t \in DOMAIN tender \cup {r} |-> IF t # r THEN tender[t] ELSE
                        [baskets |-> call[r].baskets, open |-> open]]
    /\ Done(r)
    /\ UNCHANGED <<basket, item, notices>>

SetTenderOpen(r) ==
    /\ call[r].kind = "Suspend" /\ pc[r] = "suspend"
    /\ \/ \E t \in DOMAIN tender, open \in BOOLEAN : tender' = [tender EXCEPT ![t].open = open]
       \/ UNCHANGED tender
    /\ Done(r)
    /\ UNCHANGED <<basket, item, notices>>

ItemStep(r) ==
    \/ PostItemStep(r) \/ MoveStep(r) \/ UnpackStep(r) \/ ReturnStep(r) \/ DeleteItem(r)
    \/ InsertTender(r) \/ SetTenderOpen(r)
=============================================================================
