-------------------------- MODULE BasketFlowProofs --------------------------
(***************************************************************************)
(* What holds of BasketFlow for any tables, users, orders, requests and    *)
(* calls.                                                                  *)
(*                                                                         *)
(* Most steps are quiet: they read, and the request goes on or ends.  What *)
(* a quiet step keeps is proved once; the steps that change a table or     *)
(* take a lock are then treated one by one.                                *)
(***************************************************************************)
EXTENDS BasketFlow, TLAPS

TablesOK ==
    /\ DOMAIN basket \subseteq BasketIds /\ basket \in [DOMAIN basket -> BasketRow]
    /\ DOMAIN item \subseteq ItemIds /\ item \in [DOMAIN item -> ItemRow]
    /\ DOMAIN tender \subseteq Requests /\ tender \in [DOMAIN tender -> TenderRow]
    /\ notices \subseteq Requests

RequestsOK ==
    /\ call \in [Requests -> Calls]
    /\ pc \in [Requests -> Pc]
    /\ frame \in [Requests -> Locals]
    /\ basketLock \in [Users \X Plans -> Requests \cup {None}]
    /\ priceLock \in [Users \X Plans -> Requests \cup {None}]
    /\ claimLock \in Requests \cup {None}
    /\ itemLock \in [ItemIds -> Requests \cup {None}]

LEMMA TypeSplit == TypeOK <=> TablesOK /\ RequestsOK
BY DEF TypeOK, TablesOK, RequestsOK

\* Every request asks for something of the right shape.
LEMMA CallTyped ==
    ASSUME TypeOK, NEW r \in Requests
    PROVE  /\ call[r] \in Call
           /\ call[r].kind \in Kinds /\ call[r].user \in Users /\ call[r].plan \in Plans
           /\ call[r].type \in Types \cup {None} /\ call[r].newType \in Types \cup {None}
           /\ call[r].name \in Names /\ call[r].temp \in BOOLEAN /\ call[r].key \in Keys
           /\ call[r].kind \in Filling => call[r].basket \in BasketIds
           /\ call[r].items \subseteq ItemIds /\ call[r].baskets \subseteq BasketIds
<1>1. call[r] \in Calls
    BY DEF TypeOK
<1> QED
    BY <1>1, StoreAssumption DEF Call

\* The end of a request keeps the types of its variables.
LEMMA DoneTyped ==
    ASSUME RequestsOK, NEW r \in Requests, Done(r)
    PROVE  RequestsOK'
<1>1. NoFrame \in Locals /\ "done" \in Pc
    BY DEF NoFrame, Locals, Pc
<1>2. call' \in [Requests -> Calls] /\ pc' \in [Requests -> Pc] /\ frame' \in [Requests -> Locals]
    BY <1>1 DEF RequestsOK, Done
<1>3. /\ basketLock' \in [Users \X Plans -> Requests \cup {None}]
      /\ priceLock' \in [Users \X Plans -> Requests \cup {None}]
      /\ itemLock' \in [ItemIds -> Requests \cup {None}]
    BY DEF RequestsOK, Done, Dropped
<1> QED
    BY <1>2, <1>3 DEF RequestsOK, Done

\* So does a step to another statement.
LEMMA GotoTyped ==
    ASSUME RequestsOK, NEW r \in Requests, NEW from, NEW to \in Pc, Goto(r, from, to)
    PROVE  /\ pc' \in [Requests -> Pc]
           /\ UNCHANGED <<call, frame, locks>> => RequestsOK'
BY DEF RequestsOK, Goto, locks

-----------------------------------------------------------------------------
(* Quiet steps.  The statements at which a request holds rows are critical. *)

Critical == {"commitBasket", "insertItem", "commitItem", "commitMove", "commitUnpack"}

\* Those at which it has found the basket it puts items into.
Aims == {"claim", "insertItem", "commitItem", "priceLock", "chosen", "planPrices", "move",
         "commitMove", "packed", "tendered", "unpack", "commitUnpack"}

Calm == Pc \ (Critical \cup {"done"})

\* The handler goes on with the rows it holds.
Proceeds(r) ==
    /\ UNCHANGED <<call, claimLock, itemLock>>
    /\ pc[r] \in Calm
    /\ \E l \in Calm : /\ pc' = [pc EXCEPT ![r] = l]
                       /\ l \in Aims => pc[r] \in Aims \/ IsMine(r, call[r].basket)

Quiet(r) == UNCHANGED tables /\ (Done(r) \/ Proceeds(r))

\* The statements that only read, or take an application lock.
Reads(r) ==
    \/ TakeBasketLock(r) \/ BasketLockTimeout(r) \/ FindTemp(r) \/ CheckName(r) \/ ReadNumber(r)
    \/ CheckOwned(r) \/ CheckTarget(r) \/ TakePriceLock(r) \/ PriceLockTimeout(r)
    \/ CheckChosen(r) \/ CheckPlanPrices(r)
    \/ CheckTemp(r) \/ CheckPacked(r) \/ CheckTendered(r) \/ Abort(r)

LEMMA ReadsQuiet ==
    ASSUME TypeOK, NEW r \in Requests, Reads(r)
    PROVE  Quiet(r) /\ RequestsOK'
<1> USE DEF Return, Quiet
<1>0. RequestsOK
    BY TypeSplit
<1>a. ASSUME NEW from \in Calm, NEW to \in Calm, Goto(r, from, to), UNCHANGED <<tables, call, frame, locks>>,
             to \in Aims => from \in Aims \/ IsMine(r, call[r].basket)
      PROVE  Quiet(r) /\ RequestsOK'
    BY <1>a, <1>0 DEF Goto, Proceeds, RequestsOK, Calm, locks
<1>b. ASSUME Done(r), UNCHANGED tables
      PROVE  Quiet(r) /\ RequestsOK'
    BY <1>b, <1>0, DoneTyped
<1>c. {"lock", "findTemp", "name", "number", "insert", "owned", "claim", "target", "priceLock", "chosen",
       "planPrices", "move", "temp", "packed", "tendered", "unpack"} \subseteq Calm
    BY DEF Pc, Critical, Calm
<1>d. /\ {"claim", "priceLock", "chosen", "planPrices", "move", "packed", "tendered", "unpack"} \subseteq Aims
      /\ {"findTemp", "name", "number", "insert"} \cap Aims = {}
      /\ \A l \in Aims : l \in Pc /\ l # "done"
    BY DEF Aims, Pc
<1> HIDE DEF Quiet
<1>1. CASE TakeBasketLock(r)
    <2>1. PICK to \in {"findTemp", "name"} : Goto(r, "lock", to)
        BY <1>1 DEF TakeBasketLock
    <2>2. Slot(r) \in Users \X Plans
        BY CallTyped DEF Slot
    <2>3. basketLock' \in [Users \X Plans -> Requests \cup {None}]
        BY <1>1, <1>0, <2>2 DEF TakeBasketLock, Taken, RequestsOK
    <2>a. pc' \in [Requests -> Pc]
        BY <1>0, <1>c, <2>1, GotoTyped DEF Calm
    <2>b. UNCHANGED <<call, claimLock, itemLock>> /\ pc[r] \in Calm
        BY <1>1, <1>c, <2>1 DEF TakeBasketLock, Goto
    <2>4. pc' \in [Requests -> Pc] /\ Proceeds(r)
        BY <1>c, <1>d, <2>1, <2>a, <2>b DEF Goto, Proceeds
    <2> QED
        BY <1>1, <1>0, <2>3, <2>4 DEF TakeBasketLock, RequestsOK, Quiet
<1>2. CASE BasketLockTimeout(r)
    BY <1>2, <1>b DEF BasketLockTimeout
<1>3. CASE FindTemp(r)
    BY <1>3, <1>a, <1>b, <1>c, <1>d DEF FindTemp
<1>4. CASE CheckName(r)
    BY <1>4, <1>a, <1>b, <1>c, <1>d DEF CheckName
<1>5. CASE ReadNumber(r)
    <2>1. PICK largest \in Numbers(r) \cup {0} :
             frame' = [frame EXCEPT ![r].number = NextNumber(r, largest)]
        BY <1>5 DEF ReadNumber
    <2>2. NextNumber(r, largest) \in Nat
        <3>1. \A b \in DOMAIN basket : basket[b].number \in Nat
            BY DEF TypeOK, BasketRow
        <3>2. largest \in Nat
            BY <3>1 DEF Numbers
        <3> QED
            BY <3>2 DEF NextNumber
    <2>3. [frame[r] EXCEPT !.number = NextNumber(r, largest)] \in Locals
        BY <1>0, <2>2 DEF RequestsOK, Locals
    <2>4. frame' \in [Requests -> Locals]
        BY <1>0, <2>1, <2>3 DEF RequestsOK
    <2>5. pc' \in [Requests -> Pc] /\ Proceeds(r)
        BY <1>5, <1>0, <1>c, <1>d DEF ReadNumber, locks, Goto, Proceeds, RequestsOK, Calm
    <2> QED
        BY <1>5, <1>0, <2>4, <2>5 DEF ReadNumber, RequestsOK, Quiet, locks
<1>6. CASE CheckOwned(r)
    BY <1>6, <1>a, <1>b, <1>c, <1>d DEF CheckOwned
<1>7. CASE CheckTarget(r)
    <2>1. CASE Done(r)
        BY <1>7, <2>1, <1>b DEF CheckTarget
    <2>2. CASE ~Done(r)
        <3> DEFINE b == call[r].basket
        <3>1. /\ IsMine(r, b) /\ Goto(r, "target", "priceLock")
              /\ frame' = [frame EXCEPT ![r].plan = basket[b].plan]
              /\ UNCHANGED <<call, locks, tables>>
            BY <1>7, <2>2 DEF CheckTarget
        <3>2. basket[b].plan \in Plans
            BY <3>1 DEF IsMine, TypeOK, BasketRow
        <3>3. [frame[r] EXCEPT !.plan = basket[b].plan] \in Locals
            BY <1>0, <3>2 DEF RequestsOK, Locals
        <3>4. frame' \in [Requests -> Locals]
            BY <1>0, <3>1, <3>3 DEF RequestsOK
        <3>5. pc' \in [Requests -> Pc] /\ Proceeds(r)
            BY <3>1, <1>0, <1>c DEF IsMine, locks, Goto, Proceeds, RequestsOK, Calm
        <3> QED
            BY <1>0, <3>1, <3>4, <3>5 DEF RequestsOK, Quiet, locks
    <2> QED
        BY <2>1, <2>2
<1>8. CASE TakePriceLock(r)
    <2>1. Goto(r, "priceLock", "chosen") /\ UNCHANGED <<tables, call, frame, basketLock, claimLock, itemLock>>
        BY <1>8 DEF TakePriceLock
    <2>2. priceLock' \in [Users \X Plans -> Requests \cup {None}]
        BY <1>8, <1>0 DEF TakePriceLock, Taken, RequestsOK
    <2>3. pc' \in [Requests -> Pc] /\ Proceeds(r)
        BY <2>1, <1>0, <1>c, <1>d DEF Goto, Proceeds, RequestsOK, Calm
    <2> QED
        BY <1>0, <2>1, <2>2, <2>3 DEF RequestsOK, Quiet
<1>9. CASE PriceLockTimeout(r)
    BY <1>9, <1>b DEF PriceLockTimeout
<1>10. CASE CheckChosen(r)
    BY <1>10, <1>a, <1>b, <1>c, <1>d DEF CheckChosen
<1>11. CASE CheckPlanPrices(r)
    BY <1>11, <1>a, <1>b, <1>c, <1>d DEF CheckPlanPrices
<1>12. CASE CheckTemp(r)
    BY <1>12, <1>a, <1>b, <1>c, <1>d DEF CheckTemp
<1>13. CASE CheckPacked(r)
    BY <1>13, <1>a, <1>b, <1>c, <1>d DEF CheckPacked
<1>14. CASE CheckTendered(r)
    BY <1>14, <1>a, <1>b, <1>c, <1>d DEF CheckTendered
<1>15. CASE Abort(r)
    BY <1>15, <1>b DEF Abort
<1> QED
    BY <1>1, <1>2, <1>3, <1>4, <1>5, <1>6, <1>7, <1>8, <1>9, <1>10, <1>11, <1>12, <1>13, <1>14, <1>15 DEF Reads

-----------------------------------------------------------------------------
(* Type correctness of the steps that write. *)

Locks(r) == LockItems(r, Movable(r), "move", "commitMove")
            \/ LockItems(r, Unpackable(r), "unpack", "commitUnpack")
Moves(r) == /\ call[r].kind \in Filling
            /\ CommitMoved(r, "commitMove") \/ CommitMoved(r, "commitUnpack")
Adds(r)  == call[r].kind \in Filling /\ CommitItem(r)

Writes(r) ==
    \/ InsertBasket(r) \/ CommitBasket(r) \/ Rename(r) \/ Drop(r) \/ Validate(r)
    \/ CheckClaim(r) \/ InsertItem(r) \/ Adds(r)
    \/ Locks(r) \/ Moves(r) \/ MarkReturned(r) \/ NotifyReturned(r) \/ DeleteItem(r)
    \/ InsertTender(r) \/ SetTenderOpen(r)

\* The kinds of step there are.
LEMMA StepKinds ==
    ASSUME NEW r \in Requests, Step(r) \/ Abort(r)
    PROVE  Reads(r) \/ Writes(r)
<1>1. CASE BasketStep(r)
    BY <1>1 DEF BasketStep, PostBasketStep, Reads, Writes
<1>2. CASE ItemStep(r)
    BY <1>2 DEF ItemStep, PostItemStep, MoveStep, UnpackStep, ReturnStep, Reads, Writes, Locks, Moves, Adds, Filling
<1> QED
    BY <1>1, <1>2 DEF Step, Reads

LEMMA WritesTyped ==
    ASSUME TypeOK, NEW r \in Requests, Writes(r)
    PROVE  TypeOK'
<1> USE DEF Return
<1>0. TablesOK /\ RequestsOK
    BY TypeSplit
<1>a. ASSUME RequestsOK', UNCHANGED tables PROVE TypeOK'
    BY <1>0, <1>a, TypeSplit DEF TablesOK, RequestsOK, TypeOK, tables
<1>b. ASSUME Done(r) PROVE RequestsOK'
    BY <1>b, <1>0, DoneTyped
<1>c. ASSUME NEW from, NEW to \in Pc, Goto(r, from, to), UNCHANGED <<call, frame, locks>> PROVE RequestsOK'
    BY <1>c, <1>0, GotoTyped
<1>d. ASSUME RequestsOK', DOMAIN basket' \subseteq BasketIds, basket' \in [DOMAIN basket' -> BasketRow],
             UNCHANGED <<tender, notices>>,
             DOMAIN item' \subseteq ItemIds, item' \in [DOMAIN item' -> ItemRow]
      PROVE  TypeOK'
    BY <1>0, <1>d DEF TablesOK, RequestsOK, TypeOK
<1>e. r \in BasketIds /\ r \in ItemIds
    BY DEF BasketIds, ItemIds
<1>1. CASE InsertBasket(r)
    <2>1. /\ UNCHANGED tables
          /\ \/ Done(r)
             \/ Goto(r, "insert", "commitBasket") /\ UNCHANGED <<call, frame, locks>>
        BY <1>1 DEF InsertBasket
    <2>2. "commitBasket" \in Pc
        BY DEF Pc
    <2> QED
        BY <2>1, <2>2, <1>a, <1>b, <1>c
<1>2. CASE CommitBasket(r)
    <2>2. NewBasket(r) \in BasketRow
        BY <1>0, CallTyped DEF NewBasket, BasketRow, RequestsOK, Locals
    <2>3. DOMAIN basket' \subseteq BasketIds /\ basket' \in [DOMAIN basket' -> BasketRow]
        BY <1>0, <1>2, <1>e, <2>2 DEF CommitBasket, TablesOK
    <2> QED
        BY <1>0, <1>2, <1>b, <1>d, <2>3 DEF CommitBasket, TablesOK
<1>3. CASE Rename(r)
    <2> DEFINE new(b) == IF ~Renames(call[r], b, basket[b]) THEN basket[b]
                         ELSE IF Retypes(call[r]) THEN [basket[b] EXCEPT !.type = call[r].newType]
                         ELSE [basket[b] EXCEPT !.name = call[r].name]
    <2>1. \A b \in DOMAIN basket : new(b) \in BasketRow
        BY <1>0, CallTyped DEF TablesOK, BasketRow
    <2>2. basket' = [b \in DOMAIN basket |-> new(b)] /\ Done(r) /\ UNCHANGED <<item, tender, notices>>
        BY <1>3 DEF Rename
    <2> HIDE DEF new
    <2>3. DOMAIN basket' \subseteq BasketIds /\ basket' \in [DOMAIN basket' -> BasketRow]
        BY <1>0, <2>1, <2>2 DEF TablesOK
    <2> QED
        BY <1>0, <1>b, <1>d, <2>2, <2>3 DEF TablesOK
<1>4. CASE Drop(r)
    <2>1. /\ DOMAIN basket' \subseteq DOMAIN basket /\ basket' = [b \in DOMAIN basket' |-> basket[b]]
          /\ DOMAIN item' \subseteq DOMAIN item /\ item' = [i \in DOMAIN item' |-> item[i]]
          /\ Done(r) /\ UNCHANGED <<tender, notices>>
        BY <1>4, <1>0 DEF Drop, TablesOK
    <2>2. DOMAIN basket' \subseteq BasketIds /\ basket' \in [DOMAIN basket' -> BasketRow]
        BY <1>0, <2>1 DEF TablesOK
    <2>3. DOMAIN item' \subseteq ItemIds /\ item' \in [DOMAIN item' -> ItemRow]
        BY <1>0, <2>1 DEF TablesOK
    <2> QED
        BY <1>b, <1>d, <2>1, <2>2, <2>3
<1>5. CASE Validate(r)
    <2>1. \A b \in DOMAIN basket : [basket[b] EXCEPT !.valid = TRUE] \in BasketRow
        BY <1>0 DEF TablesOK, BasketRow
    <2>2. DOMAIN basket' \subseteq BasketIds /\ basket' \in [DOMAIN basket' -> BasketRow]
        BY <1>0, <1>5, <2>1 DEF Validate, TablesOK
    <2> QED
        BY <1>0, <1>5, <1>b, <1>d, <2>2 DEF Validate, TablesOK
<1>6. CASE CheckClaim(r)
    <2>1. CASE Done(r)
        BY <1>6, <2>1, <1>a, <1>b DEF CheckClaim
    <2>2. CASE ~Done(r)
        <3>1. /\ Goto(r, "claim", "insertItem") /\ claimLock' = r
              /\ UNCHANGED <<tables, call, frame, basketLock, priceLock, itemLock>>
            BY <1>6, <2>2 DEF CheckClaim
        <3>2. pc' \in [Requests -> Pc]
            BY <1>0, <3>1 DEF Goto, RequestsOK, Pc
        <3> QED
            BY <1>0, <1>a, <3>1, <3>2 DEF RequestsOK
    <2> QED
        BY <2>1, <2>2
<1>7. CASE InsertItem(r)
    <2>1. /\ UNCHANGED tables
          /\ \/ Done(r)
             \/ Goto(r, "insertItem", "commitItem") /\ UNCHANGED <<call, frame, locks>>
        BY <1>7 DEF InsertItem
    <2>2. "commitItem" \in Pc
        BY DEF Pc
    <2> QED
        BY <2>1, <2>2, <1>a, <1>b, <1>c
<1>8. CASE Adds(r)
    <2>1. [basket |-> call[r].basket, key |-> call[r].key, returned |-> FALSE] \in ItemRow
        BY <1>8, CallTyped DEF Adds, ItemRow
    <2>2. DOMAIN item' \subseteq ItemIds /\ item' \in [DOMAIN item' -> ItemRow]
        BY <1>0, <1>8, <1>e, <2>1 DEF Adds, CommitItem, TablesOK
    <2> QED
        BY <1>0, <1>8, <1>b, <1>d, <2>2 DEF Adds, CommitItem, TablesOK
<1>9. CASE Locks(r)
    <2>1. PICK to \in {"commitMove", "commitUnpack"} :
             \/ Done(r) /\ UNCHANGED tables
             \/ \E from, movable :
                   /\ Goto(r, from, to) /\ UNCHANGED <<tables, call, frame, basketLock, priceLock, claimLock>>
                   /\ itemLock' = [i \in ItemIds |-> IF i \in movable THEN r ELSE itemLock[i]]
        BY <1>9 DEF Locks, LockItems
    <2>2. CASE Done(r) /\ UNCHANGED tables
        BY <2>2, <1>a, <1>b
    <2>3. CASE ~(Done(r) /\ UNCHANGED tables)
        <3>1. PICK from, movable :
                /\ Goto(r, from, to) /\ UNCHANGED <<tables, call, frame, basketLock, priceLock, claimLock>>
                /\ itemLock' = [i \in ItemIds |-> IF i \in movable THEN r ELSE itemLock[i]]
            BY <2>1, <2>3
        <3>2. pc' \in [Requests -> Pc]
            BY <1>0, <3>1 DEF Goto, RequestsOK, Pc
        <3>3. itemLock' \in [ItemIds -> Requests \cup {None}]
            BY <1>0, <3>1 DEF RequestsOK
        <3> QED
            BY <1>0, <1>a, <3>1, <3>2, <3>3 DEF RequestsOK
    <2> QED
        BY <2>2, <2>3
<1>10. CASE Moves(r)
    <2>1. /\ item' = [i \in DOMAIN item |-> IF i \in call[r].items
                                             THEN [item[i] EXCEPT !.basket = call[r].basket]
                                             ELSE item[i]]
          /\ Done(r) /\ UNCHANGED <<basket, tender, notices>>
        BY <1>10 DEF Moves, CommitMoved
    <2>2. call[r].basket \in BasketIds
        BY <1>10, CallTyped DEF Moves
    <2>3. \A i \in DOMAIN item : [item[i] EXCEPT !.basket = call[r].basket] \in ItemRow
        BY <1>0, <2>2 DEF TablesOK, ItemRow
    <2>4. DOMAIN item' \subseteq ItemIds /\ item' \in [DOMAIN item' -> ItemRow]
        BY <1>0, <2>1, <2>3 DEF TablesOK
    <2> QED
        BY <1>0, <1>b, <1>d, <2>1, <2>4 DEF TablesOK
<1>11. CASE MarkReturned(r)
    <2> DEFINE marked == {i \in Chosen(r) : Home(i).temp}
    <2>1. \A i \in DOMAIN item : [item[i] EXCEPT !.returned = TRUE] \in ItemRow
        BY <1>0 DEF TablesOK, ItemRow
    <2>2. /\ item' = [i \in DOMAIN item |-> IF i \in marked THEN [item[i] EXCEPT !.returned = TRUE]
                                             ELSE item[i]]
          /\ UNCHANGED <<basket, tender, notices>>
          /\ \/ Done(r)
             \/ Goto(r, "return", "notify") /\ UNCHANGED <<call, frame, locks>>
        BY <1>11 DEF MarkReturned
    <2> HIDE DEF marked
    <2>3. DOMAIN item' \subseteq ItemIds /\ item' \in [DOMAIN item' -> ItemRow]
        BY <1>0, <2>1, <2>2 DEF TablesOK
    <2>4. RequestsOK'
        BY <2>2, <1>b, <1>c DEF Pc
    <2> QED
        BY <1>0, <1>d, <2>2, <2>3, <2>4 DEF TablesOK
<1>12. CASE NotifyReturned(r)
    <2>1. Done(r) /\ UNCHANGED <<basket, item, tender>> /\ notices' \subseteq Requests
        BY <1>12, <1>0 DEF NotifyReturned, TablesOK
    <2> QED
        BY <1>0, <1>b, <2>1 DEF TypeOK, TablesOK, RequestsOK
<1>13. CASE DeleteItem(r)
    <2>1. DOMAIN item' \subseteq ItemIds /\ item' \in [DOMAIN item' -> ItemRow]
        BY <1>0, <1>13 DEF DeleteItem, TablesOK
    <2> QED
        BY <1>0, <1>13, <1>b, <1>d, <2>1 DEF DeleteItem, TablesOK
<1>14. CASE InsertTender(r)
    <2>1. \A open \in BOOLEAN : [baskets |-> call[r].baskets, open |-> open] \in TenderRow
        BY CallTyped DEF TenderRow
    <2>2. DOMAIN tender' \subseteq Requests /\ tender' \in [DOMAIN tender' -> TenderRow]
        BY <1>0, <1>14, <2>1 DEF InsertTender, TablesOK
    <2>3. Done(r) /\ UNCHANGED <<basket, item, notices>>
        BY <1>14 DEF InsertTender
    <2> QED
        BY <1>0, <1>b, <2>2, <2>3 DEF TypeOK, TablesOK, RequestsOK
<1>15. CASE SetTenderOpen(r)
    <2>1. Done(r) /\ UNCHANGED <<basket, item, notices>>
        BY <1>15 DEF SetTenderOpen
    <2>2. \A t \in DOMAIN tender, open \in BOOLEAN : [tender[t] EXCEPT !.open = open] \in TenderRow
        BY <1>0 DEF TablesOK, TenderRow
    <2>3. DOMAIN tender' \subseteq Requests /\ tender' \in [DOMAIN tender' -> TenderRow]
        BY <1>0, <1>15, <2>2 DEF SetTenderOpen, TablesOK
    <2> QED
        BY <1>0, <1>b, <2>1, <2>3 DEF TypeOK, TablesOK, RequestsOK
<1> QED
    BY <1>1, <1>2, <1>3, <1>4, <1>5, <1>6, <1>7, <1>8, <1>9, <1>10, <1>11, <1>12, <1>13, <1>14, <1>15 DEF Writes

LEMMA InitTyped == Init => TypeOK
<1> SUFFICES ASSUME Init PROVE TypeOK
    OBVIOUS
<1>1. PICK s \in Stores : basket = s.basket /\ item = s.item
    BY DEF Init
<1>2. TablesOK
    BY <1>1, StoreAssumption DEF Init, TablesOK, BasketIds, ItemIds
<1>3. pc \in [Requests -> Pc]
    <2> SUFFICES ASSUME NEW r \in Requests PROVE FirstStep[call[r].kind] \in Pc
        BY DEF Init
    <2>1. call[r].kind \in Kinds
        BY StoreAssumption DEF Init, Call
    <2> QED
        BY <2>1 DEF Kinds, FirstStep, Pc
<1>4. frame \in [Requests -> Locals]
    BY DEF Init, NoFrame, Locals
<1>5. RequestsOK
    BY <1>3, <1>4 DEF Init, RequestsOK
<1> QED
    BY <1>2, <1>5, TypeSplit

LEMMA NextTyped ==
    ASSUME TypeOK, [Next]_vars
    PROVE  TypeOK'
<1>1. CASE UNCHANGED vars
    BY <1>1 DEF vars, tables, locks, TypeOK
<1>2. CASE Next
    <2>1. PICK r \in Requests : Step(r) \/ Abort(r)
        BY <1>2 DEF Next
    <2>2. CASE Reads(r)
        <3>1. UNCHANGED tables /\ RequestsOK'
            BY <2>2, ReadsQuiet DEF Quiet
        <3> QED
            BY <3>1 DEF TypeOK, RequestsOK, tables
    <2>3. CASE Writes(r)
        BY <2>3, WritesTyped
    <2> QED
        BY <2>1, <2>2, <2>3, StepKinds
<1> QED
    BY <1>1, <1>2

\* Type correctness: the tables keep their columns, and the requests their state,
\* through every statement of every handler.
THEOREM TypeCorrect == Spec => []TypeOK
<1>1. Init => TypeOK
    BY InitTyped
<1>2. TypeOK /\ [Next]_vars => TypeOK'
    BY NextTyped
<1> QED
    BY <1>1, <1>2, PTL DEF Spec

-----------------------------------------------------------------------------
(* The invariant.  A transaction relies on what it has found for as long   *)
(* as it holds a lock that keeps others from changing it.                  *)

\* A temporary basket that is being inserted is the first and only one of its user.
FirstTemp ==
    /\ \A q, r \in Requests :
          Adding(q) /\ Adding(r) /\ call[q].temp /\ call[r].temp /\ call[q].user = call[r].user => q = r
    /\ \A r \in Requests : Adding(r) /\ call[r].temp =>
          \A b \in DOMAIN basket : basket[b].temp => basket[b].user # call[r].user

\* A row is named after a request that is over, and no other request meets the name before.
Fresh ==
    \A r \in Requests : pc[r] # "done" =>
        /\ r \notin DOMAIN basket /\ r \notin DOMAIN item
        /\ \A i \in DOMAIN item : item[i].basket # r
        /\ \A q \in Requests : pc[q] \in Aims => call[q].basket # r

\* An item that is being moved keeps its order, even if its basket goes meanwhile.
Kept == {i \in DOMAIN item : Live(i) \/ itemLock[i] # None}

KeptOnce == \A x, y \in Kept : item[x].key = item[y].key /\ item[x].key \notin Hidden => x = y

\* Between the scan and the end of a claim nobody moves items or claims others, and
\* the order is free.
Claiming ==
    \A r \in Requests : pc[r] \in {"insertItem", "commitItem"} =>
        /\ claimLock = r
        /\ \A i \in ItemIds : itemLock[i] = None
        /\ ~AlreadyClaimed(call[r].key)

\* The items of a call are locked from the UPDATE to the commit, and only then.
Holding ==
    /\ \A r \in Requests : pc[r] \in {"commitMove", "commitUnpack"} =>
          \A i \in call[r].items : i \in DOMAIN item /\ itemLock[i] = r
    /\ \A i \in ItemIds, r \in Requests :
          itemLock[i] = r => pc[r] \in {"commitMove", "commitUnpack"}

IInv == TypeOK /\ OneTempPerUser /\ FirstTemp /\ Fresh /\ KeptOnce /\ Claiming /\ Holding

LEMMA LiveMeans ==
    ASSUME NEW i
    PROVE  Live(i) <=> i \in DOMAIN item /\ item[i].basket \in DOMAIN basket /\ ~item[i].returned
BY DEF Live, Claimed, Shown

\* What is left of a request that ends or goes on to a statement that is not critical.
Rests(r) == Done(r) \/ Proceeds(r)

LEMMA RestsMeans ==
    ASSUME TypeOK, Holding, NEW r \in Requests, Rests(r)
    PROVE  /\ call' = call
           /\ \A q \in Requests : q # r => pc'[q] = pc[q]
           /\ pc'[r] \notin Critical
           /\ pc'[r] # "done" => pc[r] # "done"
           /\ pc'[r] \in Aims => pc[r] \in Aims \/ IsMine(r, call[r].basket)
           /\ \A q \in Requests : q # r /\ claimLock = q => claimLock' = q
           /\ \A i \in ItemIds : itemLock'[i] # r /\ itemLock'[i] \in {itemLock[i], None}
           /\ \A i \in ItemIds, q \in Requests : q # r /\ itemLock[i] = q => itemLock'[i] = q
<1>0. r # None
    BY StoreAssumption DEF BasketIds
<1>1. CASE Done(r)
    <2>1. pc' = [pc EXCEPT ![r] = "done"] /\ itemLock' = Dropped(itemLock, r) /\ call' = call
          /\ claimLock' = IF claimLock = r THEN None ELSE claimLock
        BY <1>1 DEF Done
    <2>2. pc'[r] = "done" /\ \A q \in Requests : q # r => pc'[q] = pc[q]
        BY <2>1 DEF TypeOK
    <2>3. \A i \in ItemIds : itemLock'[i] = IF itemLock[i] = r THEN None ELSE itemLock[i]
        BY <2>1 DEF TypeOK, Dropped
    <2>4. "done" \notin Critical /\ "done" \notin Aims
        BY DEF Critical, Aims
    <2> QED
        BY <1>0, <2>1, <2>2, <2>3, <2>4
<1>2. CASE Proceeds(r)
    <2> DEFINE Found(l) == l \in Aims => pc[r] \in Aims \/ IsMine(r, call[r].basket)
    <2>1. PICK l \in Calm : pc' = [pc EXCEPT ![r] = l] /\ Found(l)
        BY <1>2 DEF Proceeds
    <2>0. pc \in [Requests -> Pc]
        BY DEF TypeOK
    <2>2. pc'[r] = l /\ \A q \in Requests : q # r => pc'[q] = pc[q]
        BY <2>0, <2>1
    <2>3. \A i \in ItemIds : itemLock[i] # r
        BY <1>2 DEF Proceeds, Calm, Critical, Holding
    <2>4. pc[r] # "done" /\ l \notin Critical
        BY <1>2 DEF Proceeds, Calm
    <2> QED
        BY <1>2, <2>1, <2>2, <2>3, <2>4 DEF Proceeds
<1> QED
    BY <1>1, <1>2 DEF Rests

LEMMA EndMeans ==
    ASSUME TypeOK, Holding, NEW r \in Requests, Done(r)
    PROVE  /\ call' = call
           /\ \A q \in Requests : q # r => pc'[q] = pc[q]
           /\ pc'[r] = "done"
           /\ \A q \in Requests : q # r /\ claimLock = q => claimLock' = q
           /\ \A i \in ItemIds : itemLock'[i] # r /\ itemLock'[i] \in {itemLock[i], None}
           /\ \A i \in ItemIds, q \in Requests : q # r /\ itemLock[i] = q => itemLock'[i] = q
<1>1. pc \in [Requests -> Pc]
    BY DEF TypeOK
<1>2. pc'[r] = "done"
    BY <1>1 DEF Done
<1>3. Rests(r)
    BY DEF Rests
<1> QED
    BY <1>2, <1>3, RestsMeans

\* A step that adds no claim and no basket, removes no item that another request has
\* locked, and after which its request holds nothing, keeps the invariant.
LEMMA ShrinkKeeps ==
    ASSUME IInv, TypeOK', NEW r \in Requests, Rests(r),
           DOMAIN item' \subseteq DOMAIN item,
           \A i \in DOMAIN item' : item'[i].key = item[i].key /\ item'[i].basket = item[i].basket,
           \A i \in DOMAIN item' : ~item'[i].returned => ~item[i].returned,
           \A i \in DOMAIN item \ DOMAIN item' : itemLock[i] \in {None, r},
           DOMAIN basket' \subseteq DOMAIN basket,
           \A b \in DOMAIN basket' : basket'[b].user = basket[b].user /\ basket'[b].temp = basket[b].temp
    PROVE  IInv'
<1> USE DEF IInv
<1>1. /\ call' = call
      /\ \A q \in Requests : q # r => pc'[q] = pc[q]
      /\ pc'[r] \notin Critical
      /\ pc'[r] # "done" => pc[r] # "done"
      /\ pc'[r] \in Aims => pc[r] \in Aims \/ IsMine(r, call[r].basket)
      /\ \A q \in Requests : q # r /\ claimLock = q => claimLock' = q
      /\ \A i \in ItemIds : itemLock'[i] # r /\ itemLock'[i] \in {itemLock[i], None}
      /\ \A i \in ItemIds, q \in Requests : q # r /\ itemLock[i] = q => itemLock'[i] = q
    BY RestsMeans
<1>2. OneTempPerUser'
    BY DEF OneTempPerUser, OneTemp
<1>3. FirstTemp'
    BY <1>1 DEF FirstTemp, Adding, Critical
<1>4. Fresh'
    <2> SUFFICES ASSUME NEW q \in Requests, pc'[q] # "done"
                 PROVE  /\ q \notin DOMAIN basket' /\ q \notin DOMAIN item'
                        /\ \A i \in DOMAIN item' : item'[i].basket # q
                        /\ \A p \in Requests : pc'[p] \in Aims => call'[p].basket # q
        BY DEF Fresh
    <2>1. pc[q] # "done"
        BY <1>1
    <2>2. /\ q \notin DOMAIN basket /\ q \notin DOMAIN item
          /\ \A i \in DOMAIN item : item[i].basket # q
          /\ \A p \in Requests : pc[p] \in Aims => call[p].basket # q
        BY <2>1 DEF Fresh
    <2> QED
        BY <1>1, <2>2 DEF IsMine
<1>5. \A i \in ItemIds : Live(i)' => Live(i)
    BY LiveMeans DEF Live, Claimed, Shown
<1>6. DOMAIN item' \subseteq ItemIds
    BY DEF TypeOK
<1>7. KeptOnce'
    <2>1. \A i \in Kept' : i \in Kept
        BY <1>1, <1>5, <1>6 DEF Kept
    <2>2. Kept' \subseteq DOMAIN item'
        BY DEF Kept
    <2> QED
        BY <2>1, <2>2 DEF KeptOnce
<1>8. Claiming'
    <2> SUFFICES ASSUME NEW q \in Requests, pc'[q] \in {"insertItem", "commitItem"}
                 PROVE  /\ claimLock' = q
                        /\ \A i \in ItemIds : itemLock'[i] = None
                        /\ ~AlreadyClaimed(call[q].key)'
        BY <1>1 DEF Claiming
    <2>1. q # r /\ pc[q] \in {"insertItem", "commitItem"}
        BY <1>1 DEF Critical
    <2>2. claimLock = q /\ (\A i \in ItemIds : itemLock[i] = None) /\ ~AlreadyClaimed(call[q].key)
        BY <2>1 DEF Claiming
    <2>3. ~AlreadyClaimed(call[q].key)'
        BY <1>1, <1>5, <1>6, <2>2 DEF AlreadyClaimed
    <2> QED
        BY <1>1, <2>1, <2>2, <2>3
<1>9. Holding'
    <2>1. ASSUME NEW q \in Requests, pc'[q] \in {"commitMove", "commitUnpack"}, NEW i \in call'[q].items
          PROVE  i \in DOMAIN item' /\ itemLock'[i] = q
        <3>1. q # r /\ pc[q] \in {"commitMove", "commitUnpack"} /\ i \in call[q].items
            BY <1>1, <2>1 DEF Critical
        <3>2. i \in DOMAIN item /\ itemLock[i] = q
            BY <3>1 DEF Holding
        <3>3. i \in ItemIds /\ q # None
            BY <3>2, StoreAssumption DEF TypeOK, BasketIds
        <3> QED
            BY <1>1, <3>1, <3>2, <3>3
    <2>2. ASSUME NEW i \in ItemIds, NEW q \in Requests, itemLock'[i] = q
          PROVE  pc'[q] \in {"commitMove", "commitUnpack"}
        <3>1. q # None /\ q # r /\ itemLock[i] = q
            BY <1>1, <2>2, StoreAssumption DEF BasketIds
        <3> QED
            BY <1>1, <3>1 DEF Holding
    <2> QED
        BY <2>1, <2>2 DEF Holding
<1> QED
    BY <1>2, <1>3, <1>4, <1>7, <1>8, <1>9

\* Steps that change no row another request relies on.
LEMMA EasyKeeps ==
    ASSUME IInv, TypeOK', NEW r \in Requests,
           \/ Quiet(r) \/ Rename(r) \/ Drop(r) \/ Validate(r) \/ MarkReturned(r)
           \/ NotifyReturned(r) \/ DeleteItem(r) \/ InsertTender(r) \/ SetTenderOpen(r)
    PROVE  IInv'
<1> USE DEF Rests
<1>0. basket \in [DOMAIN basket -> BasketRow] /\ item \in [DOMAIN item -> ItemRow]
    BY DEF IInv, TypeOK
<1>1. CASE Quiet(r)
    BY <1>1, ShrinkKeeps DEF Quiet, tables
<1>2. CASE Rename(r)
    <2>1. Done(r) /\ item' = item /\ DOMAIN basket' = DOMAIN basket
        BY <1>2 DEF Rename
    <2>2. \A b \in DOMAIN basket' : basket'[b].user = basket[b].user /\ basket'[b].temp = basket[b].temp
        BY <1>0, <1>2 DEF Rename, BasketRow
    <2> QED
        BY <2>1, <2>2, ShrinkKeeps
<1>3. CASE Validate(r)
    <2>1. Done(r) /\ item' = item /\ DOMAIN basket' = DOMAIN basket
        BY <1>3 DEF Validate
    <2>2. \A b \in DOMAIN basket' : basket'[b].user = basket[b].user /\ basket'[b].temp = basket[b].temp
        BY <1>0, <1>3 DEF Validate, BasketRow
    <2> QED
        BY <2>1, <2>2, ShrinkKeeps
<1>4. CASE Drop(r)
    <2> DEFINE gone == {b \in DOMAIN basket : Selects(call[r], b, basket[b])}
    <2>1. /\ Done(r)
          /\ \/ basket' = [b \in DOMAIN basket \ gone |-> basket[b]] /\ item' = item
             \/ /\ Writable(ItemsIn(gone), r)
                /\ basket' = [b \in DOMAIN basket \ gone |-> basket[b]]
                /\ item' = [i \in DOMAIN item \ ItemsIn(gone) |-> item[i]]
             \/ basket' = basket /\ item' = item
        BY <1>4 DEF Drop
    <2> HIDE DEF gone
    <2>2. /\ DOMAIN basket' \subseteq DOMAIN basket
          /\ \A b \in DOMAIN basket' : basket'[b] = basket[b]
          /\ DOMAIN item' \subseteq DOMAIN item
          /\ \A i \in DOMAIN item' : item'[i] = item[i]
        BY <2>1
    <2>3. \A i \in DOMAIN item \ DOMAIN item' : itemLock[i] \in {None, r}
        BY <2>1 DEF Writable, Readable
    <2> QED
        BY <2>1, <2>2, <2>3, ShrinkKeeps
<1>5. CASE MarkReturned(r)
    <2> DEFINE marked == {i \in Chosen(r) : Home(i).temp}
    <2>1. /\ basket' = basket
          /\ item' = [i \in DOMAIN item |-> IF i \in marked THEN [item[i] EXCEPT !.returned = TRUE]
                                             ELSE item[i]]
          /\ \/ Done(r)
             \/ Goto(r, "return", "notify") /\ UNCHANGED <<call, frame, locks>>
        BY <1>5 DEF MarkReturned
    <2> HIDE DEF marked
    <2>2. \A i \in DOMAIN item' : /\ item'[i].key = item[i].key /\ item'[i].basket = item[i].basket
                                 /\ ~item'[i].returned => ~item[i].returned
        BY <1>0, <2>1 DEF ItemRow
    <2>3. Rests(r)
        BY <2>1 DEF Proceeds, Goto, locks, Calm, Critical, Pc, Aims
    <2> QED
        BY <2>1, <2>2, <2>3, ShrinkKeeps
<1>6. CASE DeleteItem(r)
    <2>1. /\ Done(r) /\ basket' = basket /\ Readable(call[r].items, r)
          /\ item' = [i \in DOMAIN item \ (call[r].items \cap MyItems(r)) |-> item[i]]
        BY <1>6 DEF DeleteItem, Writable
    <2>2. \A i \in DOMAIN item \ DOMAIN item' : itemLock[i] \in {None, r}
        BY <2>1 DEF Readable
    <2> QED
        BY <2>1, <2>2, ShrinkKeeps
<1>7. CASE NotifyReturned(r)
    BY <1>7, ShrinkKeeps DEF NotifyReturned
<1>8. CASE InsertTender(r)
    BY <1>8, ShrinkKeeps DEF InsertTender
<1>9. CASE SetTenderOpen(r)
    BY <1>9, ShrinkKeeps DEF SetTenderOpen
<1> QED
    BY <1>1, <1>2, <1>3, <1>4, <1>5, <1>6, <1>7, <1>8, <1>9

\* A step of r to a critical statement, without a change to a table.
LEMMA EnterMeans ==
    ASSUME TypeOK, NEW r \in Requests, NEW from, NEW to, Goto(r, from, to), from # "done"
    PROVE  /\ pc[r] = from /\ pc'[r] = to
           /\ \A q \in Requests : q # r => pc'[q] = pc[q]
           /\ \A q \in Requests : pc'[q] # "done" => pc[q] # "done"
BY DEF Goto, TypeOK

\* Names stay fresh while a request that has its basket goes on.
LEMMA FreshKept ==
    ASSUME TypeOK, Fresh, NEW r \in Requests, UNCHANGED <<tables, call>>,
           \A q \in Requests : q # r => pc'[q] = pc[q],
           \A q \in Requests : pc'[q] # "done" => pc[q] # "done",
           pc'[r] \in Aims => pc[r] \in Aims
    PROVE  Fresh'
BY DEF Fresh, tables

LEMMA InsertBasketKeeps ==
    ASSUME IInv, TypeOK', NEW r \in Requests, InsertBasket(r)
    PROVE  IInv'
<1>1. CASE Done(r)
    BY <1>1, EasyKeeps DEF InsertBasket, Quiet
<1>2. CASE ~Done(r)
    <2> USE DEF IInv
    <2>1. /\ call[r].temp => ~AddingTemp(r)
          /\ ~(call[r].temp /\ \E b \in DOMAIN basket : basket[b].temp /\ basket[b].user = call[r].user)
          /\ Goto(r, "insert", "commitBasket")
          /\ UNCHANGED <<call, frame, locks, tables>>
        BY <1>2 DEF InsertBasket, Return
    <2>2. /\ pc[r] = "insert" /\ pc'[r] = "commitBasket"
          /\ \A q \in Requests : q # r => pc'[q] = pc[q]
          /\ \A q \in Requests : pc'[q] # "done" => pc[q] # "done"
        BY <2>1, EnterMeans
    <2>3. OneTempPerUser' /\ KeptOnce'
        BY <2>1 DEF OneTempPerUser, KeptOnce, Kept, Live, tables, locks
    <2>4. FirstTemp'
        BY <2>1, <2>2 DEF FirstTemp, Adding, AddingTemp, tables
    <2>5. Fresh'
        BY <2>1, <2>2, FreshKept DEF Aims
    <2>6. Claiming' /\ Holding'
        BY <2>1, <2>2 DEF Claiming, Holding, AlreadyClaimed, Live, tables, locks
    <2> QED
        BY <2>3, <2>4, <2>5, <2>6
<1> QED
    BY <1>1, <1>2

LEMMA CommitBasketKeeps ==
    ASSUME IInv, TypeOK', NEW r \in Requests, CommitBasket(r)
    PROVE  IInv'
<1> USE DEF IInv
<1>1. /\ pc[r] = "commitBasket" /\ Done(r) /\ item' = item
      /\ basket' = [b \in DOMAIN basket \cup {r} |-> IF b = r THEN NewBasket(r) ELSE basket[b]]
    BY DEF CommitBasket
<1>2. /\ call' = call
      /\ \A q \in Requests : q # r => pc'[q] = pc[q]
      /\ pc'[r] = "done"
      /\ \A q \in Requests : q # r /\ claimLock = q => claimLock' = q
      /\ \A i \in ItemIds : itemLock'[i] # r /\ itemLock'[i] \in {itemLock[i], None}
      /\ \A i \in ItemIds, q \in Requests : q # r /\ itemLock[i] = q => itemLock'[i] = q
    BY <1>1, EndMeans
<1>3. /\ r \notin DOMAIN basket /\ \A i \in DOMAIN item : item[i].basket # r
    BY <1>1 DEF Fresh
<1>4. /\ DOMAIN basket' = DOMAIN basket \cup {r}
      /\ \A b \in DOMAIN basket : basket'[b] = basket[b]
      /\ basket'[r].user = call[r].user /\ basket'[r].temp = call[r].temp
    BY <1>1, <1>3 DEF NewBasket
<1>5. OneTempPerUser'
    BY <1>1, <1>4 DEF OneTempPerUser, OneTemp, FirstTemp, Adding
<1>6. FirstTemp'
    BY <1>1, <1>2, <1>4 DEF FirstTemp, Adding
<1>7. Fresh'
    BY <1>1, <1>2, <1>4 DEF Fresh, Aims
<1>8. \A i \in DOMAIN item : Live(i)' <=> Live(i)
    BY <1>1, <1>3, <1>4 DEF Live, Claimed, Shown
<1>9. DOMAIN item \subseteq ItemIds
    BY DEF TypeOK
<1>10. KeptOnce'
    <2>1. Kept' \subseteq Kept /\ Kept' \subseteq DOMAIN item
        BY <1>1, <1>2, <1>8, <1>9 DEF Kept
    <2> QED
        BY <1>1, <2>1 DEF KeptOnce
<1>11. Claiming'
    <2>1. \A k : AlreadyClaimed(k)' => AlreadyClaimed(k)
        BY <1>1, <1>8 DEF AlreadyClaimed
    <2> QED
        BY <1>2, <2>1 DEF Claiming
<1>12. Holding'
    BY <1>1, <1>2, <1>9, StoreAssumption DEF Holding, BasketIds
<1> QED
    BY <1>5, <1>6, <1>7, <1>10, <1>11, <1>12

LEMMA CheckClaimKeeps ==
    ASSUME IInv, TypeOK', NEW r \in Requests, CheckClaim(r)
    PROVE  IInv'
<1>1. CASE Done(r)
    BY <1>1, EasyKeeps DEF CheckClaim, Quiet
<1>2. CASE ~Done(r)
    <2> USE DEF IInv
    <2>1. /\ Writable(ItemIds, r) /\ ~AlreadyClaimed(call[r].key)
          /\ Goto(r, "claim", "insertItem") /\ claimLock' = r
          /\ UNCHANGED <<call, itemLock, tables>>
        BY <1>2 DEF CheckClaim, Return
    <2>2. /\ pc[r] = "claim" /\ pc'[r] = "insertItem"
          /\ \A q \in Requests : q # r => pc'[q] = pc[q]
          /\ \A q \in Requests : pc'[q] # "done" => pc[q] # "done"
        BY <2>1, EnterMeans
    <2>3. OneTempPerUser' /\ KeptOnce'
        BY <2>1 DEF OneTempPerUser, KeptOnce, Kept, Live, tables
    <2>4. FirstTemp'
        BY <2>1, <2>2 DEF FirstTemp, Adding, tables
    <2>5. Fresh'
        BY <2>1, <2>2, FreshKept DEF Aims
    <2>6. \A i \in ItemIds : itemLock[i] = None
        <3>1. \A i \in ItemIds : itemLock[i] # r
            BY <2>2 DEF Holding
        <3> QED
            BY <2>1, <3>1 DEF Writable, Readable
    <2>7. \A q \in Requests : pc[q] \notin {"insertItem", "commitItem"}
        <3>1. claimLock \in {None, r} /\ \A q \in Requests : q # None
            BY <2>1, StoreAssumption DEF Writable, BasketIds
        <3> QED
            BY <2>2, <3>1 DEF Claiming
    <2>8. Claiming'
        BY <2>1, <2>2, <2>6, <2>7 DEF Claiming, AlreadyClaimed, Live, tables
    <2>9. Holding'
        BY <2>1, <2>2 DEF Holding, tables
    <2> QED
        BY <2>3, <2>4, <2>5, <2>8, <2>9
<1> QED
    BY <1>1, <1>2

LEMMA InsertItemKeeps ==
    ASSUME IInv, TypeOK', NEW r \in Requests, InsertItem(r)
    PROVE  IInv'
<1>1. CASE Done(r)
    BY <1>1, EasyKeeps DEF InsertItem, Quiet
<1>2. CASE ~Done(r)
    <2> USE DEF IInv
    <2>1. Goto(r, "insertItem", "commitItem") /\ UNCHANGED <<call, locks, tables>>
        BY <1>2 DEF InsertItem, Return
    <2>2. /\ pc[r] = "insertItem" /\ pc'[r] = "commitItem"
          /\ \A q \in Requests : q # r => pc'[q] = pc[q]
          /\ \A q \in Requests : pc'[q] # "done" => pc[q] # "done"
        BY <2>1, EnterMeans
    <2>3. OneTempPerUser' /\ KeptOnce'
        BY <2>1 DEF OneTempPerUser, KeptOnce, Kept, Live, tables, locks
    <2>4. FirstTemp'
        BY <2>1, <2>2 DEF FirstTemp, Adding, tables
    <2>5. Fresh'
        BY <2>1, <2>2, FreshKept DEF Aims
    <2>6. Claiming' /\ Holding'
        BY <2>1, <2>2 DEF Claiming, Holding, AlreadyClaimed, Live, tables, locks
    <2> QED
        BY <2>3, <2>4, <2>5, <2>6
<1> QED
    BY <1>1, <1>2

LEMMA AddsKeeps ==
    ASSUME IInv, TypeOK', NEW r \in Requests, Adds(r)
    PROVE  IInv'
<1> USE DEF IInv
<1>1. /\ pc[r] = "commitItem" /\ Done(r) /\ basket' = basket
      /\ item' = [i \in DOMAIN item \cup {r} |-> IF i # r THEN item[i] ELSE
                     [basket |-> call[r].basket, key |-> call[r].key, returned |-> FALSE]]
    BY DEF Adds, CommitItem
<1>2. /\ call' = call
      /\ \A q \in Requests : q # r => pc'[q] = pc[q]
      /\ pc'[r] = "done"
      /\ \A q \in Requests : q # r /\ claimLock = q => claimLock' = q
      /\ \A i \in ItemIds : itemLock'[i] # r /\ itemLock'[i] \in {itemLock[i], None}
      /\ \A i \in ItemIds, q \in Requests : q # r /\ itemLock[i] = q => itemLock'[i] = q
    BY <1>1, EndMeans
<1>3. r \notin DOMAIN item /\ pc[r] # "done" /\ pc[r] \in Aims
    BY <1>1 DEF Fresh, Aims
<1>4. /\ claimLock = r /\ (\A i \in ItemIds : itemLock[i] = None) /\ ~AlreadyClaimed(call[r].key)
    BY <1>1 DEF Claiming
<1>5. /\ DOMAIN item' = DOMAIN item \cup {r}
      /\ \A i \in DOMAIN item : item'[i] = item[i]
      /\ item'[r].basket = call[r].basket /\ item'[r].key = call[r].key
    BY <1>1, <1>3
<1>6. OneTempPerUser' /\ FirstTemp'
    BY <1>1, <1>2 DEF OneTempPerUser, FirstTemp, Adding
<1>7. Fresh'
    <2> SUFFICES ASSUME NEW q \in Requests, pc'[q] # "done"
                 PROVE  /\ q \notin DOMAIN basket' /\ q \notin DOMAIN item'
                        /\ \A i \in DOMAIN item' : item'[i].basket # q
                        /\ \A p \in Requests : pc'[p] \in Aims => call'[p].basket # q
        BY DEF Fresh
    <2>1. q # r /\ pc[q] # "done"
        BY <1>2
    <2>2. call[r].basket # q
        BY <1>3, <2>1 DEF Fresh
    <2>3. \A p \in Requests : pc'[p] \in Aims => pc[p] \in Aims
        BY <1>2 DEF Aims
    <2> QED
        BY <1>1, <1>2, <1>5, <2>1, <2>2, <2>3 DEF Fresh
<1>8. DOMAIN item' \subseteq ItemIds
    BY DEF TypeOK
<1>9. \A i \in DOMAIN item : Live(i)' <=> Live(i)
    BY <1>1, <1>5 DEF Live, Claimed, Shown
<1>10. KeptOnce'
    <2>1. \A i \in Kept' : i = r \/ Live(i)
        <3> TAKE i \in Kept'
        <3>1. i \in DOMAIN item' /\ itemLock'[i] = None
            BY <1>2, <1>4, <1>8 DEF Kept
        <3> QED
            BY <1>5, <1>9, <3>1 DEF Kept
    <2>2. call[r].key \notin Hidden => \A i \in DOMAIN item : Live(i) => item[i].key # call[r].key
        BY <1>4 DEF AlreadyClaimed
    <2>3. \A i \in Kept' : i # r => i \in DOMAIN item /\ i \in Kept /\ item'[i].key = item[i].key
        BY <1>5, <2>1 DEF Kept
    <2> QED
        BY <1>5, <2>1, <2>2, <2>3 DEF KeptOnce
<1>11. Claiming'
    <2>1. \A q \in Requests : pc'[q] \notin {"insertItem", "commitItem"}
        BY <1>2, <1>4 DEF Claiming
    <2> QED
        BY <2>1 DEF Claiming
<1>12. Holding'
    <2>1. \A q \in Requests : pc'[q] \in {"commitMove", "commitUnpack"} =>
             \A i \in call'[q].items : i \in DOMAIN item' /\ itemLock'[i] = q
        BY <1>1, <1>2, <1>5, <1>8 DEF Holding
    <2>2. \A i \in ItemIds, q \in Requests : itemLock'[i] # q
        BY <1>2, <1>4, StoreAssumption DEF BasketIds
    <2> QED
        BY <2>1, <2>2 DEF Holding
<1> QED
    BY <1>6, <1>7, <1>10, <1>11, <1>12

LEMMA LocksKeeps ==
    ASSUME IInv, TypeOK', NEW r \in Requests, Locks(r)
    PROVE  IInv'
<1> USE DEF IInv
<1>1. PICK from \in {"move", "unpack"}, to \in {"commitMove", "commitUnpack"},
           movable \in SUBSET Chosen(r) : LockItems(r, movable, from, to)
    <2>1. Movable(r) \in SUBSET Chosen(r) /\ Unpackable(r) \in SUBSET Chosen(r)
        BY DEF Movable, Unpackable
    <2> QED
        BY <2>1 DEF Locks
<1>2. CASE Done(r) /\ UNCHANGED tables
    BY <1>2, EasyKeeps DEF Quiet
<1>3. CASE ~(Done(r) /\ UNCHANGED tables)
    <2>1. /\ Writable(call[r].items, r) /\ movable = call[r].items
          /\ Goto(r, from, to)
          /\ itemLock' = [i \in ItemIds |-> IF i \in movable THEN r ELSE itemLock[i]]
          /\ UNCHANGED <<call, claimLock, tables>>
        BY <1>1, <1>3 DEF LockItems, Return
    <2>2. /\ pc[r] = from /\ pc'[r] = to
          /\ \A q \in Requests : q # r => pc'[q] = pc[q]
          /\ \A q \in Requests : pc'[q] # "done" => pc[q] # "done"
        BY <2>1, EnterMeans
    <2>3. \A i \in movable : i \in DOMAIN item /\ Live(i) /\ i \in ItemIds
        BY DEF Chosen, MyLive, MyItems, TypeOK
    <2>4. /\ \A i \in movable : itemLock[i] \in {None, r} /\ itemLock'[i] = r
          /\ \A i \in ItemIds : i \notin movable => itemLock'[i] = itemLock[i]
          /\ claimLock \in {None, r}
        BY <2>1, <2>3 DEF Writable, Readable
    <2>5. r # None /\ \A q \in Requests : q # None
        BY StoreAssumption DEF BasketIds
    <2>6. OneTempPerUser' /\ FirstTemp'
        BY <2>1, <2>2 DEF OneTempPerUser, FirstTemp, Adding, tables
    <2>7. Fresh'
        BY <2>1, <2>2, FreshKept DEF Aims
    <2>8. KeptOnce'
        <3>1. \A i \in DOMAIN item : i \in ItemIds /\ (Live(i)' <=> Live(i))
            BY <2>1 DEF Live, tables, TypeOK
        <3>2. item' = item
            BY <2>1 DEF tables
        <3>3. Kept' \subseteq Kept
            BY <2>3, <2>4, <3>1, <3>2 DEF Kept
        <3> QED
            BY <3>2, <3>3 DEF KeptOnce
    <2>9. Claiming'
        <3>1. \A q \in Requests : pc'[q] \notin {"insertItem", "commitItem"}
            BY <2>2, <2>4, <2>5 DEF Claiming
        <3> QED
            BY <3>1 DEF Claiming
    <2>10. Holding'
        <3>1. ASSUME NEW q \in Requests, pc'[q] \in {"commitMove", "commitUnpack"}, NEW i \in call'[q].items
              PROVE  i \in DOMAIN item' /\ itemLock'[i] = q
            <4>1. CASE q = r
                BY <2>1, <2>3, <2>4, <3>1, <4>1 DEF tables
            <4>2. CASE q # r
                <5>1. i \in DOMAIN item /\ itemLock[i] = q
                    BY <2>1, <2>2, <3>1, <4>2 DEF Holding
                <5>2. i \notin movable /\ i \in ItemIds
                    BY <2>4, <2>5, <4>2, <5>1 DEF TypeOK
                <5> QED
                    BY <2>1, <2>4, <5>1, <5>2 DEF tables
            <4> QED
                BY <4>1, <4>2
        <3>2. ASSUME NEW i \in ItemIds, NEW q \in Requests, itemLock'[i] = q
              PROVE  pc'[q] \in {"commitMove", "commitUnpack"}
            <4>1. CASE q = r
                BY <2>2, <4>1
            <4>2. CASE q # r
                BY <2>2, <2>4, <3>2, <4>2 DEF Holding
            <4> QED
                BY <4>1, <4>2
        <3> QED
            BY <3>1, <3>2 DEF Holding
    <2> QED
        BY <2>6, <2>7, <2>8, <2>9, <2>10
<1> QED
    BY <1>2, <1>3

LEMMA MovesKeeps ==
    ASSUME IInv, TypeOK', NEW r \in Requests, Moves(r)
    PROVE  IInv'
<1> USE DEF IInv
<1>1. /\ pc[r] \in {"commitMove", "commitUnpack"} /\ Done(r) /\ basket' = basket
      /\ item' = [i \in DOMAIN item |-> IF i \in call[r].items
                                         THEN [item[i] EXCEPT !.basket = call[r].basket]
                                         ELSE item[i]]
    BY DEF Moves, CommitMoved
<1>2. /\ call' = call
      /\ \A q \in Requests : q # r => pc'[q] = pc[q]
      /\ pc'[r] = "done"
      /\ \A q \in Requests : q # r /\ claimLock = q => claimLock' = q
      /\ \A i \in ItemIds : itemLock'[i] # r /\ itemLock'[i] \in {itemLock[i], None}
      /\ \A i \in ItemIds, q \in Requests : q # r /\ itemLock[i] = q => itemLock'[i] = q
    BY <1>1, EndMeans
<1>3. /\ item \in [DOMAIN item -> ItemRow] /\ DOMAIN item \subseteq ItemIds
    BY DEF TypeOK
<1>4. /\ DOMAIN item' = DOMAIN item
      /\ \A i \in DOMAIN item : item'[i].key = item[i].key /\ item'[i].returned = item[i].returned
      /\ \A i \in DOMAIN item : i \notin call[r].items => item'[i] = item[i]
      /\ \A i \in DOMAIN item : i \in call[r].items => item'[i].basket = call[r].basket
    BY <1>1, <1>3 DEF ItemRow
<1>5. \A i \in call[r].items : i \in DOMAIN item /\ itemLock[i] = r
    BY <1>1 DEF Holding
<1>6. r # None /\ pc[r] \in Aims
    BY <1>1, StoreAssumption DEF Aims, BasketIds
<1>7. OneTempPerUser' /\ FirstTemp'
    BY <1>1, <1>2 DEF OneTempPerUser, FirstTemp, Adding
<1>8. Fresh'
    <2> SUFFICES ASSUME NEW q \in Requests, pc'[q] # "done"
                 PROVE  /\ q \notin DOMAIN basket' /\ q \notin DOMAIN item'
                        /\ \A i \in DOMAIN item' : item'[i].basket # q
                        /\ \A p \in Requests : pc'[p] \in Aims => call'[p].basket # q
        BY DEF Fresh
    <2>1. q # r /\ pc[q] # "done"
        BY <1>2
    <2>2. call[r].basket # q
        BY <1>6, <2>1 DEF Fresh
    <2>3. \A p \in Requests : pc'[p] \in Aims => pc[p] \in Aims
        BY <1>2 DEF Aims
    <2> QED
        BY <1>1, <1>2, <1>4, <2>1, <2>2, <2>3 DEF Fresh
<1>9. \A i \in DOMAIN item : i \notin call[r].items => (Live(i)' <=> Live(i))
    BY <1>1, <1>4 DEF Live, Claimed, Shown
<1>10. KeptOnce'
    <2>1. \A i \in Kept' : i \in Kept /\ i \in DOMAIN item
        <3> SUFFICES ASSUME NEW i \in Kept' PROVE i \in Kept /\ i \in DOMAIN item
            OBVIOUS
        <3>1. i \in DOMAIN item /\ i \in ItemIds
            BY <1>3, <1>4 DEF Kept
        <3>2. CASE i \in call[r].items
            BY <1>5, <1>6, <3>1, <3>2 DEF Kept
        <3>3. CASE i \notin call[r].items
            BY <1>2, <1>9, <3>1, <3>3 DEF Kept
        <3> QED
            BY <3>1, <3>2, <3>3
    <2> QED
        BY <1>4, <2>1 DEF KeptOnce
<1>11. Claiming'
    <2> SUFFICES ASSUME NEW q \in Requests, pc'[q] \in {"insertItem", "commitItem"}
                 PROVE  /\ claimLock' = q
                        /\ \A i \in ItemIds : itemLock'[i] = None
                        /\ ~AlreadyClaimed(call[q].key)'
        BY <1>2 DEF Claiming
    <2>1. q # r /\ pc[q] \in {"insertItem", "commitItem"}
        BY <1>2
    <2>2. claimLock = q /\ (\A i \in ItemIds : itemLock[i] = None) /\ ~AlreadyClaimed(call[q].key)
        BY <2>1 DEF Claiming
    <2>3. call[r].items = {}
        BY <1>3, <1>5, <1>6, <2>2
    <2>4. ~AlreadyClaimed(call[q].key)'
        BY <1>2, <1>4, <1>9, <2>2, <2>3 DEF AlreadyClaimed
    <2> QED
        BY <1>2, <2>1, <2>2, <2>4
<1>12. Holding'
    BY <1>1, <1>2, <1>3, <1>4, StoreAssumption DEF Holding, BasketIds
<1> QED
    BY <1>7, <1>8, <1>10, <1>11, <1>12

LEMMA InitInv == Init => IInv
<1> SUFFICES ASSUME Init PROVE IInv
    OBVIOUS
<1>1. TypeOK
    BY InitTyped
<1>2. PICK s \in Stores : basket = s.basket /\ item = s.item
    BY DEF Init
<1>3. /\ OneTemp(basket) /\ OneClaim(basket, item)
      /\ DOMAIN basket \subseteq OldBaskets /\ DOMAIN item \subseteq OldItems
      /\ \A i \in DOMAIN item : item[i].basket \in OldBaskets
    BY <1>2, StoreAssumption
<1>4. \A r \in Requests : r \notin OldBaskets /\ r \notin OldItems /\ r # None
    BY StoreAssumption DEF BasketIds
<1>5. \A i \in ItemIds : itemLock[i] = None
    BY DEF Init
<1>6. \A r \in Requests : pc[r] \notin Aims /\ pc[r] \notin Critical /\ pc[r] # "done"
    <2> SUFFICES ASSUME NEW r \in Requests
                 PROVE  pc[r] \notin Aims /\ pc[r] \notin Critical /\ pc[r] # "done"
        OBVIOUS
    <2>1. call[r].kind \in Kinds /\ pc[r] = FirstStep[call[r].kind]
        BY <1>1, CallTyped DEF Init
    <2> QED
        BY <2>1 DEF Kinds, FirstStep, Aims, Critical
<1>7. OneTempPerUser
    BY <1>3 DEF OneTempPerUser
<1>8. FirstTemp
    BY <1>6 DEF FirstTemp, Adding, Critical
<1>9. Fresh
    BY <1>3, <1>4, <1>6 DEF Fresh
<1>10. KeptOnce
    <2>1. Kept \subseteq Claimed(basket, item)
        BY <1>1, <1>5 DEF Kept, Live, TypeOK
    <2> QED
        BY <1>3, <2>1 DEF KeptOnce, OneClaim
<1>11. Claiming
    BY <1>6 DEF Claiming, Critical
<1>12. Holding
    BY <1>4, <1>5, <1>6 DEF Holding, Critical
<1> QED
    BY <1>1, <1>7, <1>8, <1>9, <1>10, <1>11, <1>12 DEF IInv

LEMMA NextInv ==
    ASSUME IInv, [Next]_vars
    PROVE  IInv'
<1>0. TypeOK'
    BY NextTyped DEF IInv
<1>1. CASE UNCHANGED vars
    <2>1. UNCHANGED <<OneTempPerUser, FirstTemp, Fresh, Claiming, Holding>>
        BY <1>1 DEF vars, tables, locks, OneTempPerUser, FirstTemp, Adding, Fresh, Claiming,
                    AlreadyClaimed, Live, Holding
    <2>2. UNCHANGED KeptOnce
        BY <1>1 DEF vars, tables, locks, KeptOnce, Kept, Live
    <2> QED
        BY <1>0, <2>1, <2>2 DEF IInv
<1>2. CASE Next
    <2>1. PICK r \in Requests : Step(r) \/ Abort(r)
        BY <1>2 DEF Next
    <2>2. CASE Reads(r)
        <3>1. Quiet(r)
            BY <2>2, ReadsQuiet DEF IInv
        <3> QED
            BY <1>0, <3>1, EasyKeeps
    <2>3. CASE Writes(r)
        BY <1>0, <2>3, EasyKeeps, InsertBasketKeeps, CommitBasketKeeps, CheckClaimKeeps,
           InsertItemKeeps, AddsKeeps, LocksKeeps, MovesKeeps DEF Writes
    <2> QED
        BY <2>1, <2>2, <2>3, StepKinds
<1> QED
    BY <1>1, <1>2

\* The inductive invariant: what the tables promise, and what each transaction has
\* found and locked at each of its statements.
THEOREM Inductive == Spec => []IInv
<1> QED
    BY InitInv, NextInv, PTL DEF Spec

\* No user ever has two temporary baskets, in whichever plans PostBasket is called.
THEOREM OneTemporary == Spec => []OneTempPerUser
<1>1. IInv => OneTempPerUser
    BY DEF IInv
<1> QED
    BY <1>1, Inductive, PTL

LEMMA OnceMeans == IInv => OneLiveClaim
<1> SUFFICES ASSUME IInv PROVE OneLiveClaim
    OBVIOUS
<1>1. Claimed(basket, item) \subseteq Kept
    BY DEF Kept, Live, Claimed, Shown
<1> QED
    BY <1>1 DEF IInv, KeptOnce, OneLiveClaim, OneClaim

\* No order that a search finds is ever claimed twice, whichever users post, move, return and delete items
\* and baskets at the same time.
THEOREM ClaimedOnce == Spec => []OneLiveClaim
<1> QED
    BY OnceMeans, Inductive, PTL
=============================================================================
