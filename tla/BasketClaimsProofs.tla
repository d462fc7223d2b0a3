------------------------- MODULE BasketClaimsProofs -------------------------
(***************************************************************************)
(* Proofs of what the handlers of baskets keep.  First, that the tables of *)
(* BasketFlow behave as OrderClaims promises: an order goes from one place *)
(* to another in one step, together with the others of its call, and only  *)
(* between baskets of one user.  Then, what PostBasket and MoveBasketItems *)
(* keep apart in a plan: the names and numbers of its baskets, and the     *)
(* prices of a code.  Both check under an application lock and write       *)
(* later.  Other handlers write the same columns without the lock, so each *)
(* of these theorems says what they must not do meanwhile.                 *)
(***************************************************************************)
EXTENDS BasketFlowProofs

\* Whoever puts items into a basket has found it to be its own; it is still, or has gone.
Aimed ==
    \A q \in Requests :
        pc[q] \in Aims /\ call[q].basket \in DOMAIN basket => IsMine(q, call[q].basket)

\* Items that are being moved are claimed, in a basket of the mover's or in one that
\* has gone; those that are unpacked not in a temporary one.
OwnMoves ==
    \A i \in ItemIds, q \in Requests : itemLock[i] = q =>
        /\ i \in DOMAIN item /\ ~item[i].returned
        /\ item[i].basket \in DOMAIN basket =>
              /\ Home(i).user = call[q].user
              /\ pc[q] = "commitUnpack" => ~Home(i).temp

CInv == IInv /\ Aimed /\ OwnMoves

-----------------------------------------------------------------------------
\* What a step leaves of the baskets there are, and of what others have found.
Steady(r) ==
    /\ \A b \in DOMAIN basket' : \/ /\ b \in DOMAIN basket
                                    /\ basket'[b].user = basket[b].user
                                    /\ basket'[b].temp = basket[b].temp
                                 \/ b = r /\ pc[r] = "commitBasket"
    /\ pc'[r] \in Moving => Locks(r) /\ pc[r] \notin Moving
    /\ pc[r] = "commitBasket" => pc'[r] \notin Aims
    /\ pc'[r] \in Aims => pc[r] \in Aims \/ IsMine(r, call[r].basket)
    /\ call' = call
    /\ \A q \in Requests : q # r => pc'[q] = pc[q]

\* Locked items stay as they are; those a step locks are live and the caller's.
Locked(r) ==
    \A i \in ItemIds, q \in Requests : itemLock'[i] = q =>
        \/ /\ itemLock[i] = q
           /\ i \in DOMAIN item => i \in DOMAIN item' /\ item'[i] = item[i]
        \/ /\ q = r /\ i \in Chosen(r) /\ UNCHANGED <<basket, item>>
           /\ pc'[r] = "commitUnpack" => ~Home(i).temp

Respects(r) == Steady(r) /\ Locked(r)

\* The steps that neither take nor use an item lock.
LEMMA RestsRespect ==
    ASSUME IInv, NEW r \in Requests, Rests(r),
           \A b \in DOMAIN basket' : \/ /\ b \in DOMAIN basket
                                        /\ basket'[b].user = basket[b].user
                                        /\ basket'[b].temp = basket[b].temp
                                     \/ b = r /\ pc[r] = "commitBasket",
           \A i \in DOMAIN item : itemLock[i] \in {None, r} \/ (i \in DOMAIN item' /\ item'[i] = item[i])
    PROVE  Respects(r)
<1>1. /\ call' = call
      /\ \A q \in Requests : q # r => pc'[q] = pc[q]
      /\ pc'[r] \in Aims => pc[r] \in Aims \/ IsMine(r, call[r].basket)
      /\ \A i \in ItemIds : itemLock'[i] # r /\ itemLock'[i] \in {itemLock[i], None}
      /\ pc'[r] \notin Moving
    BY RestsMeans DEF IInv, Moving, Critical
<1>2. ASSUME pc[r] = "commitBasket" PROVE pc'[r] \notin Aims
    <2>1. "commitBasket" \notin Calm
        BY DEF Calm, Critical
    <2>2. Done(r)
        BY <1>2, <2>1 DEF Rests, Proceeds
    <2> QED
        BY <2>2, EndMeans DEF IInv, Aims
<1>3. None \notin Requests
    BY StoreAssumption DEF BasketIds
<1>4. Locked(r)
    BY <1>1, <1>3 DEF Locked
<1> QED
    BY <1>1, <1>2, <1>4 DEF Respects, Steady

\* A step to a critical statement that changes no table.
LEMMA EnterRespects ==
    ASSUME IInv, NEW r \in Requests, NEW from, NEW to, Goto(r, from, to), from # "done",
           from # "commitBasket", to \in Aims => from \in Aims, to \notin Moving,
           UNCHANGED <<tables, call, itemLock>>
    PROVE  Respects(r)
<1>1. /\ pc[r] = from /\ pc'[r] = to
      /\ \A q \in Requests : q # r => pc'[q] = pc[q]
    BY EnterMeans DEF IInv
<1> QED
    BY <1>1 DEF Respects, Steady, Locked, tables

LEMMA WritesRespect ==
    ASSUME IInv, NEW r \in Requests, Writes(r)
    PROVE  Respects(r)
<1> USE DEF Return, Rests
<1>0. TypeOK
    BY DEF IInv
<1>a. /\ basket \in [DOMAIN basket -> BasketRow] /\ item \in [DOMAIN item -> ItemRow]
      /\ DOMAIN item \subseteq ItemIds
    BY <1>0 DEF TypeOK
<1>b. ASSUME Done(r), UNCHANGED <<basket, item>> PROVE Respects(r)
    BY <1>b, RestsRespect
<1>c. ASSUME Done(r), item' = item, DOMAIN basket' = DOMAIN basket,
             \A b \in DOMAIN basket : /\ basket'[b].user = basket[b].user
                                     /\ basket'[b].temp = basket[b].temp
      PROVE  Respects(r)
    BY <1>c, RestsRespect
<1>d. ASSUME Rests(r), basket' = basket,
             \A i \in DOMAIN item : itemLock[i] \in {None, r} \/ (i \in DOMAIN item' /\ item'[i] = item[i])
      PROVE  Respects(r)
    BY <1>d, RestsRespect
<1>1. CASE InsertBasket(r)
    <2>1. CASE Done(r)
        BY <1>1, <1>b, <2>1 DEF InsertBasket, tables
    <2>2. CASE ~Done(r)
        BY <1>1, <2>2, EnterRespects DEF InsertBasket, locks, Aims, Moving
    <2> QED
        BY <2>1, <2>2
<1>2. CASE CommitBasket(r)
    <2>1. /\ Done(r) /\ pc[r] = "commitBasket" /\ item' = item
          /\ basket' = [b \in DOMAIN basket \cup {r} |-> IF b = r THEN NewBasket(r) ELSE basket[b]]
        BY <1>2 DEF CommitBasket
    <2>2. \A b \in DOMAIN basket' : \/ /\ b \in DOMAIN basket
                                       /\ basket'[b].user = basket[b].user
                                       /\ basket'[b].temp = basket[b].temp
                                    \/ b = r /\ pc[r] = "commitBasket"
        BY <2>1
    <2> QED
        BY <2>1, <2>2, RestsRespect
<1>3. CASE Rename(r)
    BY <1>3, <1>a, <1>c DEF Rename, BasketRow
<1>4. CASE Drop(r)
    <2> DEFINE gone == {b \in DOMAIN basket : Selects(call[r], b, basket[b])}
    <2>1. /\ Done(r)
          /\ \/ basket' = [b \in DOMAIN basket \ gone |-> basket[b]] /\ item' = item
             \/ /\ Writable(ItemsIn(gone), r)
                /\ basket' = [b \in DOMAIN basket \ gone |-> basket[b]]
                /\ item' = [i \in DOMAIN item \ ItemsIn(gone) |-> item[i]]
             \/ basket' = basket /\ item' = item
        BY <1>4 DEF Drop
    <2> HIDE DEF gone
    <2>2. \A b \in DOMAIN basket' : b \in DOMAIN basket /\ basket'[b] = basket[b]
        BY <2>1
    <2>3. \A i \in DOMAIN item : itemLock[i] \in {None, r} \/ (i \in DOMAIN item' /\ item'[i] = item[i])
        BY <2>1 DEF Writable, Readable
    <2> QED
        BY <2>1, <2>2, <2>3, RestsRespect
<1>5. CASE Validate(r)
    BY <1>5, <1>a, <1>c DEF Validate, BasketRow
<1>6. CASE CheckClaim(r)
    <2>1. CASE Done(r)
        BY <1>6, <1>b, <2>1 DEF CheckClaim, tables
    <2>2. CASE ~Done(r)
        BY <1>6, <2>2, EnterRespects DEF CheckClaim, Aims, Moving
    <2> QED
        BY <2>1, <2>2
<1>7. CASE InsertItem(r)
    <2>1. CASE Done(r)
        BY <1>7, <1>b, <2>1 DEF InsertItem, tables
    <2>2. CASE ~Done(r)
        BY <1>7, <2>2, EnterRespects DEF InsertItem, locks, Aims, Moving
    <2> QED
        BY <2>1, <2>2
<1>8. CASE Adds(r)
    <2>1. /\ Done(r) /\ basket' = basket /\ pc[r] = "commitItem"
          /\ item' = [i \in DOMAIN item \cup {r} |-> IF i # r THEN item[i] ELSE
                         [basket |-> call[r].basket, key |-> call[r].key, returned |-> FALSE]]
        BY <1>8 DEF Adds, CommitItem
    <2>2. r \notin DOMAIN item
        BY <2>1 DEF IInv, Fresh
    <2> QED
        BY <1>d, <2>1, <2>2
<1>9. CASE Locks(r)
    <2>1. PICK from \in {"move", "unpack"}, to \in {"commitMove", "commitUnpack"},
               movable \in SUBSET Chosen(r) :
             /\ LockItems(r, movable, from, to)
             /\ to = "commitUnpack" => \A i \in movable : ~Home(i).temp
        <3>1. /\ Movable(r) \in SUBSET Chosen(r) /\ Unpackable(r) \in SUBSET Chosen(r)
              /\ \A i \in Unpackable(r) : ~Home(i).temp
            BY DEF Movable, Unpackable
        <3> QED
            BY <1>9, <3>1 DEF Locks
    <2>2. CASE Done(r)
        BY <1>b, <2>1, <2>2 DEF LockItems, tables
    <2>3. CASE ~Done(r)
        <3>1. /\ Goto(r, from, to) /\ UNCHANGED <<tables, call>>
              /\ itemLock' = [i \in ItemIds |-> IF i \in movable THEN r ELSE itemLock[i]]
            BY <2>1, <2>3 DEF LockItems
        <3>2. /\ pc[r] = from /\ pc'[r] = to
              /\ \A q \in Requests : q # r => pc'[q] = pc[q]
            BY <1>0, <3>1, EnterMeans
        <3>3. Steady(r)
            BY <1>9, <3>1, <3>2 DEF Steady, Aims, Moving, tables
        <3>4. Locked(r)
            BY <2>1, <3>1, <3>2 DEF Locked, tables
        <3> QED
            BY <3>3, <3>4 DEF Respects
    <2> QED
        BY <2>2, <2>3
<1>10. CASE Moves(r)
    <2>1. /\ Done(r) /\ basket' = basket /\ pc[r] \in {"commitMove", "commitUnpack"}
          /\ item' = [i \in DOMAIN item |-> IF i \in call[r].items
                                             THEN [item[i] EXCEPT !.basket = call[r].basket]
                                             ELSE item[i]]
        BY <1>10 DEF Moves, CommitMoved
    <2>2. \A i \in call[r].items : itemLock[i] = r
        BY <2>1 DEF IInv, Holding
    <2> QED
        BY <1>d, <2>1, <2>2
<1>11. CASE MarkReturned(r)
    <2> DEFINE marked == {i \in Chosen(r) : Home(i).temp}
    <2>1. /\ basket' = basket /\ Readable(call[r].items, r)
          /\ item' = [i \in DOMAIN item |-> IF i \in marked THEN [item[i] EXCEPT !.returned = TRUE]
                                             ELSE item[i]]
          /\ \/ Done(r)
             \/ Goto(r, "return", "notify") /\ UNCHANGED <<call, frame, locks>>
        BY <1>11 DEF MarkReturned, Writable
    <2>2. marked \subseteq call[r].items
        BY DEF Chosen
    <2> HIDE DEF marked
    <2>3. \A i \in marked : itemLock[i] \in {None, r}
        BY <2>1, <2>2 DEF Readable
    <2>4. Rests(r)
        BY <2>1 DEF Proceeds, Goto, locks, Calm, Critical, Pc, Aims
    <2> QED
        BY <1>d, <2>1, <2>3, <2>4
<1>12. CASE NotifyReturned(r)
    BY <1>12, <1>b DEF NotifyReturned
<1>13. CASE DeleteItem(r)
    <2>1. /\ Done(r) /\ basket' = basket /\ Readable(call[r].items, r)
          /\ item' = [i \in DOMAIN item \ (call[r].items \cap MyItems(r)) |-> item[i]]
        BY <1>13 DEF DeleteItem, Writable
    <2>2. \A i \in call[r].items : itemLock[i] \in {None, r}
        BY <2>1 DEF Readable
    <2> QED
        BY <1>d, <2>1, <2>2
<1>14. CASE InsertTender(r)
    BY <1>14, <1>b DEF InsertTender
<1>15. CASE SetTenderOpen(r)
    BY <1>15, <1>b DEF SetTenderOpen
<1> QED
    BY <1>1, <1>2, <1>3, <1>4, <1>5, <1>6, <1>7, <1>8, <1>9, <1>10, <1>11, <1>12, <1>13, <1>14, <1>15 DEF Writes

LEMMA AllRespect ==
    ASSUME IInv, NEW r \in Requests, Step(r) \/ Abort(r)
    PROVE  Respects(r)
<1>1. CASE Reads(r)
    <2>1. Quiet(r)
        BY <1>1, ReadsQuiet DEF IInv
    <2> QED
        BY <2>1, RestsRespect DEF Quiet, Rests, tables
<1>2. CASE Writes(r)
    BY <1>2, WritesRespect
<1> QED
    BY <1>1, <1>2, StepKinds

-----------------------------------------------------------------------------
LEMMA InitCInv == Init => CInv
<1> SUFFICES ASSUME Init PROVE CInv
    OBVIOUS
<1>1. IInv
    BY InitInv
<1>2. \A r \in Requests : pc[r] \notin Aims /\ r # None
    <2> SUFFICES ASSUME NEW r \in Requests PROVE pc[r] \notin Aims
        BY StoreAssumption DEF BasketIds
    <2>1. call[r].kind \in Kinds /\ pc[r] = FirstStep[call[r].kind]
        BY <1>1, CallTyped DEF Init, IInv
    <2> QED
        BY <2>1 DEF Kinds, FirstStep, Aims
<1>3. \A i \in ItemIds : itemLock[i] = None
    BY DEF Init
<1> QED
    BY <1>1, <1>2, <1>3 DEF CInv, Aimed, OwnMoves

LEMMA NextCInv ==
    ASSUME CInv, [Next]_vars
    PROVE  CInv'
<1>0. IInv' /\ IInv
    BY NextInv DEF CInv
<1>1. CASE UNCHANGED vars
    BY <1>0, <1>1 DEF CInv, Aimed, OwnMoves, IsMine, Home, vars, tables, locks
<1>2. CASE Next
    <2>1. PICK r \in Requests : Step(r) \/ Abort(r)
        BY <1>2 DEF Next
    <2>2. Steady(r) /\ Locked(r)
        BY <1>0, <2>1, AllRespect DEF Respects
    <2>3. Aimed'
        <3> SUFFICES ASSUME NEW q \in Requests, pc'[q] \in Aims, call[q].basket \in DOMAIN basket'
                     PROVE  basket'[call[q].basket].user = call[q].user
            BY <2>2 DEF Aimed, IsMine, Steady
        <3> DEFINE b == call[q].basket
        <3>1. ASSUME b \in DOMAIN basket PROVE basket[b].user = call[q].user
            BY <2>2, <3>1 DEF CInv, Aimed, IsMine, Steady
        <3>2. ~(b = r /\ pc[r] = "commitBasket")
            <4> SUFFICES ASSUME pc[r] = "commitBasket" PROVE b # r
                OBVIOUS
            <4>1. pc[q] \in Aims
                BY <2>2 DEF Steady
            <4> QED
                BY <1>0, <4>1 DEF IInv, Fresh
        <3> QED
            BY <2>2, <3>1, <3>2 DEF Steady
    <2>4. OwnMoves'
        <3> SUFFICES ASSUME NEW i \in ItemIds, NEW q \in Requests, itemLock'[i] = q
                     PROVE  /\ i \in DOMAIN item' /\ ~item'[i].returned
                            /\ item'[i].basket \in DOMAIN basket' =>
                                  /\ basket'[item'[i].basket].user = call[q].user
                                  /\ pc'[q] = "commitUnpack" => ~basket'[item'[i].basket].temp
            BY <2>2 DEF OwnMoves, Home, Steady
        <3>1. CASE /\ itemLock[i] = q
                   /\ i \in DOMAIN item => i \in DOMAIN item' /\ item'[i] = item[i]
            <4>1. /\ i \in DOMAIN item /\ ~item[i].returned
                  /\ item[i].basket \in DOMAIN basket =>
                        /\ basket[item[i].basket].user = call[q].user
                        /\ pc[q] = "commitUnpack" => ~basket[item[i].basket].temp
                BY <3>1 DEF CInv, OwnMoves, Home
            <4>2. pc[r] = "commitBasket" => item[i].basket # r
                BY <1>0, <4>1 DEF IInv, Fresh
            <4>3. pc'[q] = "commitUnpack" => pc[q] = "commitUnpack"
                <5>1. pc[q] \in Moving
                    BY <1>0, <3>1 DEF IInv, Holding, Moving
                <5> QED
                    BY <2>2, <5>1 DEF Steady, Moving
            <4> QED
                BY <2>2, <3>1, <4>1, <4>2, <4>3 DEF Steady
        <3>2. CASE /\ q = r /\ i \in Chosen(r) /\ UNCHANGED <<basket, item>>
                   /\ pc'[r] = "commitUnpack" => ~Home(i).temp
            <4>1. i \in DOMAIN item /\ Live(i) /\ Home(i).user = call[r].user
                BY <3>2 DEF Chosen, MyLive, MyItems, Mine
            <4> QED
                BY <3>2, <4>1, LiveMeans DEF Home
        <3> QED
            BY <2>2, <3>1, <3>2 DEF Locked
    <2> QED
        BY <1>0, <2>3, <2>4 DEF CInv
<1> QED
    BY <1>1, <1>2

\* What the moves rest on: a request that fills a basket has found it to be its own, and
\* an item it has locked is not returned and not another user's.
THEOREM ClaimsInductive == Spec => []CInv
<1> QED
    BY InitCInv, NextCInv, PTL DEF Spec

-----------------------------------------------------------------------------
\* The only step that changes the basket of an item is the commit of a move.
LEMMA OnlyMovesMove ==
    ASSUME IInv, NEW r \in Requests, Step(r) \/ Abort(r), ~Moves(r)
    PROVE  Moved = {}
<1>0. item \in [DOMAIN item -> ItemRow]
    BY DEF IInv, TypeOK
<1>1. CASE Reads(r)
    BY <1>1, ReadsQuiet DEF IInv, Quiet, tables, Moved
<1>2. CASE Writes(r)
    <2>1. CASE item' = item
        BY <2>1 DEF Moved
    <2>2. CASE Drop(r) \/ DeleteItem(r)
        BY <2>2 DEF Drop, DeleteItem, Moved
    <2>3. CASE Adds(r)
        <3>1. r \notin DOMAIN item
            BY <2>3 DEF Adds, CommitItem, IInv, Fresh
        <3> QED
            BY <2>3, <3>1 DEF Adds, CommitItem, Moved
    <2>4. CASE MarkReturned(r)
        BY <1>0, <2>4 DEF MarkReturned, Moved, ItemRow
    <2> QED
        BY <1>2, <2>1, <2>2, <2>3, <2>4 DEF Writes, InsertBasket, CommitBasket, Rename, Validate,
           CheckClaim, InsertItem, Locks, LockItems, NotifyReturned, InsertTender, SetTenderOpen, tables
<1> QED
    BY <1>1, <1>2, StepKinds

\* The only step that takes items for a move is the UPDATE, which picks them.
LEMMA OnlyLocksTake ==
    ASSUME IInv, NEW r \in Requests, Step(r) \/ Abort(r)
    PROVE  TakesOwn
<1> SUFFICES ASSUME NEW q \in Requests, pc'[q] \in Moving, pc[q] \notin Moving,
                    NEW i \in call[q].items
             PROVE  /\ Live(i) /\ Home(i).user = call[q].user
                    /\ IF pc'[q] = "commitMove" THEN Home(i).temp \/ Home(i).type = Inbox
                                                ELSE ~Home(i).temp
    BY DEF TakesOwn
<1>1. q = r /\ Locks(r)
    BY AllRespect DEF Respects, Steady
<1>2. ASSUME NEW from, NEW to, NEW movable, LockItems(r, movable, from, to)
      PROVE  pc'[r] = to /\ i \in movable
    <2>1. ~Done(r)
        BY <1>1 DEF Done, Moving, IInv, TypeOK
    <2> QED
        BY <1>1, <1>2, <2>1 DEF LockItems, Return, Goto, IInv, TypeOK
<1>3. ASSUME i \in Chosen(r) PROVE Live(i) /\ Home(i).user = call[q].user
    BY <1>1, <1>3 DEF Chosen, MyLive, MyItems, Mine
<1>4. CASE LockItems(r, Movable(r), "move", "commitMove")
    BY <1>1, <1>2, <1>3, <1>4 DEF Movable
<1>5. CASE LockItems(r, Unpackable(r), "unpack", "commitUnpack")
    BY <1>1, <1>2, <1>3, <1>5 DEF Unpackable
<1> QED
    BY <1>1, <1>4, <1>5 DEF Locks

\* The items of one call of MoveBasketItems or UnpackBasketItems move together or not at
\* all: each was taken from a basket that the call may take from, and none is returned or
\* in another user's basket by the time they move.
THEOREM MovedAsOne == Spec => MovedTogether
<1>1. ASSUME CInv, Next PROVE MovesAll
    <2>1. PICK r \in Requests : Step(r) \/ Abort(r)
        BY <1>1 DEF Next
    <2>2. CASE ~Moves(r)
        BY <1>1, <2>1, <2>2, OnlyMovesMove DEF CInv, MovesAll
    <2>3. CASE Moves(r)
        <3>1. /\ pc[r] \in Moving
              /\ item' = [i \in DOMAIN item |-> IF i \in call[r].items
                                                 THEN [item[i] EXCEPT !.basket = call[r].basket]
                                                 ELSE item[i]]
            BY <2>3 DEF Moves, CommitMoved, Moving
        <3>2. \A i \in call[r].items : i \in DOMAIN item /\ itemLock[i] = r
            BY <1>1, <3>1 DEF CInv, IInv, Holding, Moving
        <3>3. DOMAIN item \subseteq ItemIds /\ item \in [DOMAIN item -> ItemRow]
            BY <1>1 DEF CInv, IInv, TypeOK
        <3>4. \A i \in call[r].items :
                 /\ ~item[i].returned
                 /\ item[i].basket \in DOMAIN basket =>
                       /\ Home(i).user = call[r].user
                       /\ pc[r] = "commitUnpack" => ~Home(i).temp
            BY <1>1, <3>2, <3>3 DEF CInv, OwnMoves
        <3>5. /\ \A i \in call[r].items : item'[i].basket = call[r].basket
              /\ \A i \in DOMAIN item \ call[r].items : item'[i] = item[i]
              /\ DOMAIN item' = DOMAIN item
            BY <3>1, <3>2, <3>3 DEF ItemRow
        <3>6. Moved = {i \in call[r].items : item[i].basket # call[r].basket}
            BY <3>2, <3>5 DEF Moved
        <3> QED
            BY <3>1, <3>4, <3>5, <3>6 DEF MovesAll
    <2> QED
        BY <2>2, <2>3
<1>2. ASSUME CInv, Next PROVE TakesOwn
    BY <1>2, OnlyLocksTake DEF Next, CInv
<1>3. CInv /\ [Next]_vars => [TakesOwn /\ MovesAll]_vars
    BY <1>1, <1>2
<1> QED
    BY <1>3, ClaimsInductive, PTL DEF Spec, MovedTogether

-----------------------------------------------------------------------------
(* The refinement of OrderClaims.                                          *)

\* An order is where the one item is that claims it.
PlaceRight ==
    \A k \in Findable : /\ Holders(k) = {} => OrderPlace[k] = None
                        /\ \A i \in Holders(k) : OrderPlace[k] = item[i].basket

LEMMA HoldersMean ==
    ASSUME NEW i, NEW k
    PROVE  i \in Holders(k) <=> /\ i \in DOMAIN item /\ item[i].basket \in DOMAIN basket
                                /\ ~item[i].returned /\ item[i].key = k
BY LiveMeans DEF Holders

LEMMA PlaceIs == OneLiveClaim => PlaceRight
<1> SUFFICES ASSUME OneLiveClaim, NEW k \in Findable
             PROVE  /\ Holders(k) = {} => OrderPlace[k] = None
                    /\ \A i \in Holders(k) : OrderPlace[k] = item[i].basket
    BY DEF PlaceRight
<1>1. \A i, j \in Holders(k) : i = j
    BY DEF Findable, Holders, Live, OneLiveClaim, OneClaim
<1>2. OrderPlace[k] = IF Holders(k) = {} THEN None ELSE item[CHOOSE i \in Holders(k) : TRUE].basket
    BY DEF OrderPlace
<1>3. ASSUME NEW i \in Holders(k) PROVE i = CHOOSE j \in Holders(k) : TRUE
    BY <1>1, <1>3
<1> QED
    BY <1>2, <1>3

LEMMA ClaimedNow == CInv => PlaceRight
<1>1. CInv => OneLiveClaim
    BY OnceMeans DEF CInv
<1> QED
    BY <1>1, PlaceIs

LEMMA ClaimedThen == CInv' => PlaceRight'
BY ClaimedNow, PTL

\* Where the orders are after a step, by the items that claim them then.
LEMMA PlacedSo ==
    ASSUME CInv', NEW where, where = [k \in Findable |-> where[k]],
           \A k \in Findable : Holders(k)' = {} => where[k] = None,
           \A k \in Findable : \A i \in Holders(k)' : item'[i].basket = where[k]
    PROVE  OrderPlace' = where
<1>1. PlaceRight'
    BY ClaimedThen
<1>2. \A k \in Findable : OrderPlace'[k] = where[k]
    <2> TAKE k \in Findable
    <2>1. CASE Holders(k)' = {}
        BY <1>1, <2>1 DEF PlaceRight
    <2>2. CASE Holders(k)' # {}
        BY <1>1, <2>2 DEF PlaceRight
    <2> QED
        BY <2>1, <2>2
<1>3. OrderPlace' = [k \in Findable |-> OrderPlace'[k]]
    BY DEF OrderPlace
<1> QED
    BY <1>2, <1>3

\* Orders stay where they are if the claims do.
LEMMA PlacesStay ==
    ASSUME CInv, CInv',
           \A k \in Findable : Holders(k)' = Holders(k),
           \A k \in Findable : \A i \in Holders(k) : item'[i].basket = item[i].basket
    PROVE  OrderPlace' = OrderPlace
<1>1. PlaceRight
    BY ClaimedNow
<1>2. OrderPlace = [k \in Findable |-> OrderPlace[k]]
    BY DEF OrderPlace
<1>3. \A k \in Findable : Holders(k)' = {} => OrderPlace[k] = None
    BY <1>1 DEF PlaceRight
<1>4. \A k \in Findable : \A i \in Holders(k)' : item'[i].basket = OrderPlace[k]
    BY <1>1 DEF PlaceRight
<1> QED
    BY <1>2, <1>3, <1>4, PlacedSo

\* The steps that change no claim, seen by the rows they leave.
LEMMA ClaimsStay ==
    ASSUME CInv, CInv', DOMAIN basket' = DOMAIN basket,
           \A b \in DOMAIN basket : basket'[b].user = basket[b].user,
           \A i \in DOMAIN item : item[i].basket \in DOMAIN basket => i \in DOMAIN item' /\ item'[i] = item[i],
           \A i \in DOMAIN item' : item'[i].basket \in DOMAIN basket => i \in DOMAIN item /\ item'[i] = item[i]
    PROVE  UNCHANGED <<OrderOwner, OrderPlace>>
<1>1. OrderOwner' = OrderOwner
    BY DEF OrderOwner
<1>2. \A k \in Findable : \A i : i \in Holders(k)' <=> i \in Holders(k)
    <2> TAKE k \in Findable
    <2> TAKE i
    <2>1. i \in Holders(k)' <=> /\ i \in DOMAIN item' /\ item'[i].basket \in DOMAIN basket'
                                /\ ~item'[i].returned /\ item'[i].key = k
        BY DEF Holders, Live, Claimed, Shown
    <2> QED
        BY <2>1, HoldersMean
<1>3. \A k \in Findable : Holders(k)' = Holders(k)
    BY <1>2
<1>4. \A k \in Findable : \A i \in Holders(k) : item'[i].basket = item[i].basket
    BY HoldersMean
<1> QED
    BY <1>1, <1>3, <1>4, PlacesStay

\* What a step that takes or returns items sees and leaves, in rows.
LEMMA HeldThen ==
    ASSUME NEW i, NEW k
    PROVE  i \in Holders(k)' <=> /\ i \in DOMAIN item' /\ item'[i].basket \in DOMAIN basket'
                                 /\ ~item'[i].returned /\ item'[i].key = k
BY DEF Holders, Live, Claimed, Shown

\* An order that is anywhere is where an item has it.
LEMMA PlacedBy ==
    ASSUME CInv, NEW k \in Findable, OrderPlace[k] # None
    PROVE  \E i \in Holders(k) : OrderPlace[k] = item[i].basket
BY ClaimedNow DEF PlaceRight

LEMMA PlacesFit == CInv => OrderPlace \in [Findable -> {None} \cup DOMAIN OrderOwner]
<1> SUFFICES ASSUME CInv, NEW k \in Findable PROVE OrderPlace[k] \in {None} \cup DOMAIN basket
    BY DEF OrderPlace, OrderOwner
<1> QED
    BY PlacedBy, HoldersMean

LEMMA OwnerOf ==
    ASSUME NEW b \in DOMAIN basket
    PROVE  b \in DOMAIN OrderOwner /\ OrderOwner[b] = basket[b].user
BY DEF OrderOwner

\* The commit of PostBasket opens a basket.
LEMMA CommitBasketOpens ==
    ASSUME CInv, CInv', NEW r \in Requests, CommitBasket(r)
    PROVE  Claims!Open
<1>1. /\ pc[r] = "commitBasket" /\ item' = item
      /\ basket' = [b \in DOMAIN basket \cup {r} |-> IF b = r THEN NewBasket(r) ELSE basket[b]]
    BY DEF CommitBasket
<1>2. r \notin DOMAIN basket /\ \A i \in DOMAIN item : item[i].basket # r
    BY <1>1 DEF CInv, IInv, Fresh
<1>3. r \in BasketIds /\ call[r].user \in Users
    BY CallTyped DEF CInv, IInv, BasketIds
<1>4. OrderOwner' = [x \in DOMAIN OrderOwner \cup {r} |->
                        IF x = r THEN call[r].user ELSE OrderOwner[x]]
    BY <1>1, <1>2 DEF OrderOwner, NewBasket
<1>5. OrderPlace' = OrderPlace
    <2>1. \A k \in Findable : \A i : i \in Holders(k)' <=> i \in Holders(k)
        BY <1>1, <1>2, HoldersMean, HeldThen
    <2>2. \A k \in Findable : Holders(k)' = Holders(k)
        <3> TAKE k \in Findable
        <3>1. Holders(k)' \subseteq Holders(k) /\ Holders(k) \subseteq Holders(k)'
            BY <2>1
        <3> QED
            BY <3>1
    <2> QED
        BY <1>1, <2>2, PlacesStay
<1>6. r \in BasketIds \ DOMAIN OrderOwner
    BY <1>2, <1>3 DEF OrderOwner
<1> QED
    BY <1>3, <1>4, <1>5, <1>6 DEF Claims!Open

\* DeleteBasket closes baskets of its caller, or none.
LEMMA DropCloses ==
    ASSUME CInv, CInv', NEW r \in Requests, Drop(r)
    PROVE  Claims!Close \/ UNCHANGED <<OrderOwner, OrderPlace>>
<1> DEFINE gone == {b \in DOMAIN basket : Selects(call[r], b, basket[b])}
           where == [k \in Findable |-> IF OrderPlace[k] \in gone THEN None ELSE OrderPlace[k]]
<1>1. \/ basket' = [b \in DOMAIN basket \ gone |-> basket[b]] /\ item' = item
      \/ /\ basket' = [b \in DOMAIN basket \ gone |-> basket[b]]
         /\ item' = [i \in DOMAIN item \ ItemsIn(gone) |-> item[i]]
      \/ UNCHANGED <<basket, item>>
    BY DEF Drop
<1>2. gone \in SUBSET {b \in DOMAIN OrderOwner : OrderOwner[b] = call[r].user}
    BY DEF Selects, OrderOwner
<1>3. call[r].user \in Users
    BY CallTyped DEF CInv, IInv
<1> HIDE DEF gone
<1>4. CASE UNCHANGED <<basket, item>>
    BY <1>4 DEF OrderOwner, OrderPlace, Holders, Live
<1>5. CASE ~UNCHANGED <<basket, item>>
    <2>1. /\ basket' = [b \in DOMAIN basket \ gone |-> basket[b]]
          /\ DOMAIN item' \subseteq DOMAIN item /\ \A i \in DOMAIN item' : item'[i] = item[i]
          /\ \A i \in DOMAIN item : item[i].basket \notin gone => i \in DOMAIN item'
        BY <1>1, <1>5 DEF ItemsIn
    <2>2. OrderOwner' = [b \in DOMAIN OrderOwner \ gone |-> OrderOwner[b]]
        BY <2>1 DEF OrderOwner
    <2>3. ASSUME NEW k \in Findable, Holders(k)' = {} PROVE where[k] = None
        <3>1. \A i \in Holders(k) : item[i].basket \in gone
            BY <2>1, <2>3, HoldersMean, HeldThen
        <3> QED
            BY <3>1, PlacedBy
    <2>4. ASSUME NEW k \in Findable, NEW i \in Holders(k)' PROVE item'[i].basket = where[k]
        <3>1. i \in Holders(k) /\ item'[i] = item[i] /\ item[i].basket \notin gone
            BY <2>1, <2>4, HoldersMean, HeldThen
        <3>2. OrderPlace[k] = item[i].basket
            BY <3>1, ClaimedNow DEF PlaceRight
        <3> QED
            BY <3>1, <3>2
    <2>5. where = [k \in Findable |-> where[k]]
        OBVIOUS
    <2>6. OrderPlace' = where
        <3> HIDE DEF where
        <3> QED
            BY <2>3, <2>4, <2>5, PlacedSo
    <2> QED
        BY <1>2, <1>3, <2>2, <2>6 DEF Claims!Close
<1> QED
    BY <1>4, <1>5

\* The commit of PostBasketItems takes a free order, unless no search finds it or its
\* basket has gone.
LEMMA AddsTake ==
    ASSUME CInv, CInv', NEW r \in Requests, Adds(r)
    PROVE  Claims!Take \/ UNCHANGED <<OrderOwner, OrderPlace>>
<1> DEFINE b == call[r].basket
           K == {call[r].key} \cap Findable
           where == [k \in Findable |-> IF k \in K THEN b ELSE OrderPlace[k]]
<1>1. /\ pc[r] = "commitItem" /\ basket' = basket
      /\ item' = [i \in DOMAIN item \cup {r} |-> IF i # r THEN item[i] ELSE
                     [basket |-> b, key |-> call[r].key, returned |-> FALSE]]
    BY DEF Adds, CommitItem
<1>2. r \notin DOMAIN item /\ ~AlreadyClaimed(call[r].key)
    BY <1>1 DEF CInv, IInv, Fresh, Claiming
<1>3. /\ DOMAIN item' = DOMAIN item \cup {r} /\ \A i \in DOMAIN item : item'[i] = item[i]
      /\ item'[r].basket = b /\ item'[r].key = call[r].key /\ ~item'[r].returned
    BY <1>1, <1>2
<1>4. OrderOwner' = OrderOwner
    BY <1>1 DEF OrderOwner
<1>5. \A k \in Findable, i \in DOMAIN item : i \in Holders(k)' <=> i \in Holders(k)
    <2> TAKE k \in Findable, i \in DOMAIN item
    <2>1. basket' = basket /\ i \in DOMAIN item' /\ item'[i] = item[i]
        BY <1>1, <1>3
    <2> HIDE DEF K, where
    <2> QED
        BY <2>1, HoldersMean, HeldThen
<1>6. CASE b \notin DOMAIN basket
    <2>1. \A k \in Findable : Holders(k)' \subseteq Holders(k) /\ Holders(k) \subseteq Holders(k)'
        BY <1>1, <1>3, <1>5, <1>6, HoldersMean, HeldThen
    <2>2. \A k \in Findable : Holders(k)' = Holders(k)
        <3> TAKE k \in Findable
        <3> QED
            BY <2>1
    <2>3. \A k \in Findable : \A i \in Holders(k) : item'[i].basket = item[i].basket
        BY <1>3, HoldersMean
    <2> QED
        BY <1>4, <2>2, <2>3, PlacesStay
<1>7. CASE b \in DOMAIN basket
    <2>1. \A k \in K : Holders(k) = {}
        BY <1>2 DEF Holders, AlreadyClaimed, Findable
    <2>2. \A k \in K : OrderPlace[k] = None
        BY <2>1, ClaimedNow DEF PlaceRight
    <2>3. ASSUME NEW k \in Findable, Holders(k)' = {} PROVE where[k] = None
        <3>1. k \notin K
            BY <1>1, <1>3, <1>7, <2>3, HeldThen
        <3>2. Holders(k) = {}
            BY <1>5, <2>3, HoldersMean
        <3> QED
            BY <3>1, <3>2, ClaimedNow DEF PlaceRight
    <2>4. ASSUME NEW k \in Findable, NEW i \in Holders(k)' PROVE item'[i].basket = where[k]
        <3>1. CASE i = r
            BY <1>3, <2>4, <3>1, HeldThen
        <3>2. CASE i # r
            <4>1. i \in Holders(k) /\ item'[i] = item[i]
                BY <1>3, <1>5, <2>4, <3>2, HeldThen
            <4>2. k \notin K
                BY <2>1, <4>1
            <4> QED
                BY <4>1, <4>2, ClaimedNow DEF PlaceRight
        <3> QED
            BY <3>1, <3>2
    <2>5. where = [k \in Findable |-> where[k]]
        OBVIOUS
    <2>6. OrderPlace' = where
        <3> HIDE DEF where, K
        <3> QED
            BY <2>3, <2>4, <2>5, PlacedSo
    <2>7. b \in DOMAIN OrderOwner
        BY <1>7 DEF OrderOwner
    <2>8. K \in SUBSET Findable
        OBVIOUS
    <2> QED
        BY <1>4, <2>2, <2>6, <2>7, <2>8 DEF Claims!Take
<1> QED
    BY <1>6, <1>7

\* The commit of a move takes the orders of its items to the target, or, if that has gone,
\* lets go of them.
LEMMA MovesTake ==
    ASSUME CInv, CInv', NEW r \in Requests, Moves(r)
    PROVE  Claims!Take \/ Claims!Release
<1> DEFINE b == call[r].basket
           K == {k \in Findable : \E i \in call[r].items : item[i].key = k}
           there == [k \in Findable |-> IF k \in K THEN b ELSE OrderPlace[k]]
           freed == {k \in K : OrderPlace[k] # None}
           nowhere == [k \in Findable |-> IF k \in freed THEN None ELSE OrderPlace[k]]
<1>1. /\ pc[r] \in {"commitMove", "commitUnpack"} /\ basket' = basket
      /\ item' = [i \in DOMAIN item |-> IF i \in call[r].items
                                         THEN [item[i] EXCEPT !.basket = b] ELSE item[i]]
    BY DEF Moves, CommitMoved
<1>2. \A i \in call[r].items : i \in DOMAIN item /\ i \in ItemIds /\ itemLock[i] = r /\ i \in Kept
    <2>1. r # None /\ DOMAIN item \subseteq ItemIds
        BY StoreAssumption DEF BasketIds, CInv, IInv, TypeOK
    <2> QED
        BY <1>1, <2>1 DEF CInv, IInv, Holding, Kept
<1>3. \A i \in call[r].items :
         /\ ~item[i].returned
         /\ item[i].basket \in DOMAIN basket => basket[item[i].basket].user = call[r].user
    BY <1>2 DEF CInv, OwnMoves, Home
<1>4. b \in DOMAIN basket => basket[b].user = call[r].user
    BY <1>1 DEF CInv, Aimed, IsMine, Aims
<1>5. /\ DOMAIN item' = DOMAIN item
      /\ \A i \in DOMAIN item \ call[r].items : item'[i] = item[i]
      /\ \A i \in call[r].items : /\ item'[i].basket = b /\ item'[i].key = item[i].key
                                  /\ item'[i].returned = item[i].returned
    <2>1. item \in [DOMAIN item -> ItemRow]
        BY DEF CInv, IInv, TypeOK
    <2> QED
        BY <1>1, <1>2, <2>1 DEF ItemRow
<1>6. OrderOwner' = OrderOwner
    BY <1>1 DEF OrderOwner
\* An order of the call is claimed by an item of the call, if by any.
<1>7. ASSUME NEW k \in K, NEW i \in Holders(k) PROVE i \in call[r].items
    <2>1. PICK j \in call[r].items : item[j].key = k
        BY <1>7
    <2>2. i \in Kept /\ item[i].key = k
        BY DEF Holders, Kept
    <2>3. k \notin Hidden
        BY <1>7 DEF Findable
    <2>4. j \in Kept
        BY <1>2
    <2>5. i = j
        BY <2>1, <2>2, <2>3, <2>4 DEF CInv, IInv, KeptOnce
    <2> QED
        BY <2>5
<1>8. \A k \in K : OrderPlace[k] # None =>
         OrderPlace[k] \in DOMAIN basket /\ basket[OrderPlace[k]].user = call[r].user
    BY <1>3, <1>7, PlacedBy, HoldersMean
\* The orders of no item of the call are left alone.
<1>9. ASSUME NEW k \in Findable, k \notin K
      PROVE  /\ Holders(k)' = {} => OrderPlace[k] = None
             /\ \A i \in Holders(k)' : item'[i].basket = OrderPlace[k]
    <2>1. \A i : i \in Holders(k)' <=> i \in Holders(k)
        BY <1>1, <1>5, <1>9, HoldersMean, HeldThen
    <2>2. \A i \in Holders(k) : item'[i].basket = item[i].basket
        BY <1>5, <1>9, HoldersMean
    <2> QED
        BY <2>1, <2>2, ClaimedNow DEF PlaceRight
<1>10. ASSUME NEW k \in K, NEW i \in Holders(k)' PROVE i \in call[r].items
    <2>1. CASE i \in call[r].items
        BY <2>1
    <2>2. CASE i \notin call[r].items
        <3>1. i \in DOMAIN item' /\ item'[i].basket \in DOMAIN basket' /\ ~item'[i].returned /\ item'[i].key = k
            BY <1>10, HeldThen
        <3>2. basket' = basket /\ i \in DOMAIN item /\ item'[i] = item[i]
            BY <1>1, <1>5, <2>2, <3>1
        <3>3. i \in Holders(k)
            BY <3>1, <3>2, HoldersMean
        <3> QED
            BY <1>7, <3>3
    <2> QED
        BY <2>1, <2>2
<1>11. CASE b \in DOMAIN basket
    <2>1. ASSUME NEW k \in Findable, Holders(k)' = {} PROVE there[k] = None
        <3>1. k \notin K
            <4> SUFFICES ASSUME k \in K PROVE FALSE
                OBVIOUS
            <4>1. PICK i \in call[r].items : item[i].key = k
                OBVIOUS
            <4> QED
                BY <1>1, <1>2, <1>3, <1>5, <1>11, <2>1, <4>1, HeldThen
        <3> QED
            BY <1>9, <2>1, <3>1
    <2>2. ASSUME NEW k \in Findable, NEW i \in Holders(k)' PROVE item'[i].basket = there[k]
        <3>1. CASE k \in K
            BY <1>5, <1>10, <2>2, <3>1
        <3>2. CASE k \notin K
            BY <1>9, <2>2, <3>2
        <3> QED
            BY <3>1, <3>2
    <2>3. there = [k \in Findable |-> there[k]]
        OBVIOUS
    <2>4. OrderPlace' = there
        <3> HIDE DEF there, K
        <3> QED
            BY <2>1, <2>2, <2>3, PlacedSo
    <2>5. b \in DOMAIN OrderOwner /\ OrderOwner[b] = call[r].user
        BY <1>4, <1>11, OwnerOf
    <2>6. \A k \in K : OrderPlace[k] # None => OrderOwner[OrderPlace[k]] = OrderOwner[b]
        BY <1>8, <2>5, OwnerOf
    <2>7. K \in SUBSET Findable
        OBVIOUS
    <2> HIDE DEF K
    <2> QED
        BY <1>6, <2>4, <2>5, <2>6, <2>7 DEF Claims!Take
<1>12. CASE b \notin DOMAIN basket
    <2>1. ASSUME NEW k \in K PROVE Holders(k)' = {}
        BY <1>1, <1>5, <1>10, <1>12, HeldThen
    <2>2. ASSUME NEW k \in Findable, Holders(k)' = {} PROVE nowhere[k] = None
        <3>1. CASE k \in K
            BY <3>1
        <3>2. CASE k \notin K
            BY <1>9, <2>2, <3>2
        <3> QED
            BY <3>1, <3>2
    <2>3. ASSUME NEW k \in Findable, NEW i \in Holders(k)' PROVE item'[i].basket = nowhere[k]
        <3>1. k \notin K
            BY <2>1, <2>3
        <3> QED
            BY <1>9, <2>3, <3>1
    <2>4. nowhere = [k \in Findable |-> nowhere[k]]
        OBVIOUS
    <2>5. OrderPlace' = nowhere
        <3> HIDE DEF nowhere, K
        <3> QED
            BY <2>2, <2>3, <2>4, PlacedSo
    <2>6. freed \in SUBSET Claims!Taken(call[r].user)
        BY <1>8, OwnerOf DEF Claims!Taken
    <2>7. call[r].user \in Users
        BY CallTyped DEF CInv, IInv
    <2> HIDE DEF freed
    <2> QED
        BY <1>6, <2>5, <2>6, <2>7 DEF Claims!Release
<1> QED
    BY <1>11, <1>12

\* A return or a deletion of items lets go of some orders of the caller's.
LEMMA LetGo ==
    ASSUME CInv, CInv', NEW r \in Requests, UNCHANGED basket,
           DOMAIN item' \subseteq DOMAIN item,
           NEW gone \in SUBSET MyItems(r),
           \A i \in DOMAIN item \ gone : i \in DOMAIN item' /\ item'[i] = item[i],
           \A i \in gone : i \in DOMAIN item' => item'[i].returned
    PROVE  Claims!Release
<1> DEFINE K == {k \in Findable : \E i \in Holders(k) : i \in gone}
           where == [k \in Findable |-> IF k \in K THEN None ELSE OrderPlace[k]]
<1>1. OrderOwner' = OrderOwner
    BY DEF OrderOwner
<1>2. \A i : \A k \in Findable : i \in Holders(k)' <=> i \in Holders(k) /\ i \notin gone
    <2> TAKE i
    <2> TAKE k \in Findable
    <2>1. CASE i \in gone
        BY <2>1, HeldThen
    <2>2. CASE i \notin gone
        BY <2>2, HoldersMean, HeldThen
    <2> QED
        BY <2>1, <2>2
<1>3. ASSUME NEW k \in K, NEW i \in Holders(k) PROVE i \in gone
    <2>1. PICK j \in Holders(k) : j \in gone
        BY <1>3
    <2>2. i \in Kept /\ j \in Kept /\ item[i].key = k /\ item[j].key = k
        BY <2>1 DEF Holders, Kept
    <2>3. k \notin Hidden
        BY <1>3 DEF Findable
    <2>4. i = j
        BY <2>2, <2>3 DEF CInv, IInv, KeptOnce
    <2> QED
        BY <2>1, <2>4
<1>4. ASSUME NEW k \in Findable, Holders(k)' = {} PROVE where[k] = None
    <2>1. CASE k \in K
        BY <2>1
    <2>2. CASE k \notin K
        <3>1. Holders(k) = {}
            BY <1>2, <1>4, <2>2
        <3> QED
            BY <2>2, <3>1, ClaimedNow DEF PlaceRight
    <2> QED
        BY <2>1, <2>2
<1>5. ASSUME NEW k \in Findable, NEW i \in Holders(k)' PROVE item'[i].basket = where[k]
    <2>1. i \in Holders(k) /\ i \notin gone
        BY <1>2, <1>5
    <2>2. k \notin K
        BY <1>3, <2>1
    <2>3. item'[i] = item[i]
        BY <2>1, HoldersMean
    <2> QED
        BY <2>1, <2>2, <2>3, ClaimedNow DEF PlaceRight
<1>6. where = [k \in Findable |-> where[k]]
    OBVIOUS
<1>7. OrderPlace' = where
    <2> HIDE DEF where, K
    <2> QED
        BY <1>4, <1>5, <1>6, PlacedSo
<1>8. ASSUME NEW k \in K PROVE k \in Claims!Taken(call[r].user)
    <2>1. PICK i \in Holders(k) : i \in gone
        BY <1>8
    <2>2. Mine(r, i)
        BY <2>1 DEF MyItems
    <2>3. item[i].basket \in DOMAIN basket /\ basket[item[i].basket].user = call[r].user
        BY <2>2 DEF Mine, Shown, Home
    <2>4. OrderPlace[k] = item[i].basket
        BY <1>8, <2>1, ClaimedNow DEF PlaceRight
    <2>5. item[i].basket # None
        BY <2>3, StoreAssumption DEF CInv, IInv, TypeOK
    <2> QED
        BY <1>8, <2>3, <2>4, <2>5, OwnerOf DEF Claims!Taken
<1>9. call[r].user \in Users
    BY CallTyped DEF CInv, IInv
<1>10. K \in SUBSET Claims!Taken(call[r].user)
    BY <1>8
<1> HIDE DEF K
<1> QED
    BY <1>1, <1>7, <1>9, <1>10 DEF Claims!Release

LEMMA MarkReturnedReleases ==
    ASSUME CInv, CInv', NEW r \in Requests, MarkReturned(r)
    PROVE  Claims!Release
<1> DEFINE marked == {i \in Chosen(r) : Home(i).temp}
<1>1. /\ basket' = basket
      /\ item' = [i \in DOMAIN item |-> IF i \in marked THEN [item[i] EXCEPT !.returned = TRUE]
                                         ELSE item[i]]
    BY DEF MarkReturned
<1>2. marked \in SUBSET MyItems(r)
    BY DEF Chosen, MyLive
<1>3. item \in [DOMAIN item -> ItemRow]
    BY DEF CInv, IInv, TypeOK
<1> HIDE DEF marked
<1>4. /\ DOMAIN item' = DOMAIN item
      /\ \A i \in DOMAIN item \ marked : item'[i] = item[i]
      /\ \A i \in marked : i \in DOMAIN item' => item'[i].returned
    BY <1>1, <1>3 DEF ItemRow
<1> QED
    BY <1>1, <1>2, <1>4, LetGo

LEMMA DeleteItemReleases ==
    ASSUME CInv, CInv', NEW r \in Requests, DeleteItem(r)
    PROVE  Claims!Release
<1>1. /\ basket' = basket
      /\ item' = [i \in DOMAIN item \ (call[r].items \cap MyItems(r)) |-> item[i]]
    BY DEF DeleteItem
<1> QED
    BY <1>1, LetGo

\* Everything else changes neither who owns a basket nor where an order is.
LEMMA OthersStay ==
    ASSUME CInv, CInv', NEW r \in Requests,
           \/ Reads(r) \/ InsertBasket(r) \/ Rename(r) \/ Validate(r) \/ CheckClaim(r)
           \/ InsertItem(r) \/ Locks(r) \/ NotifyReturned(r) \/ InsertTender(r) \/ SetTenderOpen(r)
    PROVE  UNCHANGED <<OrderOwner, OrderPlace>>
<1>1. basket \in [DOMAIN basket -> BasketRow]
    BY DEF CInv, IInv, TypeOK
<1>2. item' = item
    <2>1. ASSUME Reads(r) PROVE item' = item
        BY <2>1, ReadsQuiet DEF CInv, IInv, Quiet, tables
    <2> QED
        BY <2>1 DEF InsertBasket, Rename, Validate, CheckClaim, InsertItem, Locks, LockItems,
                    NotifyReturned, InsertTender, SetTenderOpen, tables
<1>3. CASE Rename(r)
    BY <1>1, <1>2, <1>3, ClaimsStay DEF Rename, BasketRow
<1>4. CASE Validate(r)
    BY <1>1, <1>2, <1>4, ClaimsStay DEF Validate, BasketRow
<1>5. CASE ~Rename(r) /\ ~Validate(r)
    <2>1. basket' = basket
        <3>1. ASSUME Reads(r) PROVE basket' = basket
            BY <3>1, ReadsQuiet DEF CInv, IInv, Quiet, tables
        <3> QED
            BY <1>5, <3>1 DEF InsertBasket, CheckClaim, InsertItem, Locks, LockItems,
                              NotifyReturned, InsertTender, SetTenderOpen, tables
    <2> QED
        BY <1>2, <2>1, ClaimsStay
<1> QED
    BY <1>3, <1>4, <1>5

LEMMA StepMaps ==
    ASSUME CInv, CInv', [Next]_vars
    PROVE  Claims!Step \/ UNCHANGED <<OrderOwner, OrderPlace>>
<1>1. CASE UNCHANGED vars
    BY <1>1, ClaimsStay DEF vars, tables
<1>2. CASE Next
    <2>1. PICK r \in Requests : Step(r) \/ Abort(r)
        BY <1>2 DEF Next
    <2>2. Reads(r) \/ Writes(r)
        BY <2>1, StepKinds
    <2>3. CASE \/ Reads(r) \/ InsertBasket(r) \/ Rename(r) \/ Validate(r) \/ CheckClaim(r)
               \/ InsertItem(r) \/ Locks(r) \/ NotifyReturned(r) \/ InsertTender(r) \/ SetTenderOpen(r)
        BY <2>3, OthersStay
    <2>4. CASE CommitBasket(r)
        BY <2>4, CommitBasketOpens DEF Claims!Step
    <2>5. CASE Drop(r)
        BY <2>5, DropCloses DEF Claims!Step
    <2>6. CASE Adds(r)
        BY <2>6, AddsTake DEF Claims!Step
    <2>7. CASE Moves(r)
        BY <2>7, MovesTake DEF Claims!Step
    <2>8. CASE MarkReturned(r)
        BY <2>8, MarkReturnedReleases DEF Claims!Step
    <2>9. CASE DeleteItem(r)
        BY <2>9, DeleteItemReleases DEF Claims!Step
    <2> QED
        BY <2>2, <2>3, <2>4, <2>5, <2>6, <2>7, <2>8, <2>9 DEF Writes
<1> QED
    BY <1>1, <1>2

\* Seen from outside, every handler of baskets and orders is one step of OrderClaims: an
\* order is free or in one basket, and nobody gets another user's.
THEOREM ClaimsKept == Spec => KeepsClaims
<1>1. Init => Claims!Start
    <2> SUFFICES ASSUME Init PROVE Claims!Start
        OBVIOUS
    <2>1. CInv
        BY InitCInv
    <2>2. DOMAIN basket \in SUBSET BasketIds /\ OrderOwner \in [DOMAIN basket -> Users]
        BY <2>1 DEF CInv, IInv, TypeOK, BasketRow, OrderOwner
    <2>3. OrderOwner \in UNION {[B -> Users] : B \in SUBSET BasketIds}
        BY <2>2
    <2> QED
        BY <2>1, <2>3, PlacesFit DEF Claims!Start
<1>2. CInv /\ CInv' /\ [Next]_vars => [Claims!Step]_<<OrderOwner, OrderPlace>>
    BY StepMaps
<1> QED
    BY <1>1, <1>2, ClaimsInductive, PTL DEF Spec, KeepsClaims, Claims!Promise

-----------------------------------------------------------------------------
(* What the application locks are worth.                                   *)

\* The statements of PostBasket under the lock of the plan.
Creating == {"findTemp", "name", "number", "insert", "commitBasket"}

\* The statements of MoveBasketItems under the lock of the prices.
Pricing == {"chosen", "planPrices", "move", "commitMove"}

LocksHeld ==
    \A q \in Requests : /\ pc[q] \in Creating => basketLock[Slot(q)] = q
                        /\ pc[q] \in Pricing => priceLock[PriceSlot(q)] = q
                        /\ pc[q] \in Pricing \cup {"priceLock"} => frame[q].plan \in Plans

\* A step leaves the calls, the locals and the locks of the others alone.
Apart(r) ==
    /\ call' = call
    /\ \A q \in Requests \ {r} : pc'[q] = pc[q] /\ frame'[q] = frame[q]
    /\ \A q \in Requests \ {r}, s \in Users \X Plans :
          /\ basketLock[s] = q => basketLock'[s] = q
          /\ priceLock[s] = q => priceLock'[s] = q

LEMMA StepsApart ==
    ASSUME TypeOK, NEW r \in Requests, Step(r) \/ Abort(r)
    PROVE  Apart(r)
<1> USE DEF Return, Apart
<1>0. RequestsOK
    BY TypeSplit
<1>a. ASSUME Done(r) PROVE Apart(r)
    BY <1>0, <1>a DEF Done, Dropped, RequestsOK
<1>b. ASSUME NEW from, NEW to, Goto(r, from, to), UNCHANGED <<call, basketLock, priceLock>>,
             \A q \in Requests \ {r} : frame'[q] = frame[q]
      PROVE  Apart(r)
    BY <1>0, <1>b DEF Goto, RequestsOK
<1> HIDE DEF Apart
<1>1. CASE TakeBasketLock(r)
    <2>1. None \notin Requests
        BY StoreAssumption DEF BasketIds
    <2>2. \A q \in Requests, s \in Users \X Plans : basketLock[s] = q => basketLock'[s] = q
        BY <1>1, <1>0, <2>1 DEF TakeBasketLock, Taken, RequestsOK
    <2> QED
        BY <1>1, <1>0, <2>2 DEF TakeBasketLock, Goto, RequestsOK, Apart
<1>2. CASE TakePriceLock(r)
    <2>1. None \notin Requests
        BY StoreAssumption DEF BasketIds
    <2>2. \A q \in Requests, s \in Users \X Plans : priceLock[s] = q => priceLock'[s] = q
        BY <1>2, <1>0, <2>1 DEF TakePriceLock, Taken, RequestsOK
    <2> QED
        BY <1>2, <1>0, <2>2 DEF TakePriceLock, Goto, RequestsOK, Apart
<1>3. CASE ReadNumber(r)
    <2>1. \A q \in Requests \ {r} : frame'[q] = frame[q]
        BY <1>3, <1>0 DEF ReadNumber, RequestsOK
    <2> QED
        BY <1>3, <1>b, <2>1 DEF ReadNumber, locks
<1>4. CASE CheckTarget(r)
    <2>1. \A q \in Requests \ {r} : ~Done(r) => frame'[q] = frame[q]
        BY <1>4, <1>0 DEF CheckTarget, RequestsOK
    <2> QED
        BY <1>4, <1>a, <1>b, <2>1 DEF CheckTarget, locks
<1>5. CASE Reads(r) /\ ~(TakeBasketLock(r) \/ TakePriceLock(r) \/ ReadNumber(r) \/ CheckTarget(r))
    <2>1. Done(r) \/ \E from, to : Goto(r, from, to) /\ UNCHANGED <<call, frame, locks>>
        BY <1>5 DEF Reads, BasketLockTimeout, FindTemp, CheckName, CheckOwned, PriceLockTimeout,
           CheckChosen, CheckPlanPrices, CheckTemp, CheckPacked, CheckTendered, Abort
    <2> QED
        BY <2>1, <1>a, <1>b DEF locks
<1>6. CASE Writes(r)
    <2>1. \/ Done(r)
          \/ \E from, to : Goto(r, from, to) /\ UNCHANGED <<call, frame, basketLock, priceLock>>
        BY <1>6 DEF Writes, InsertBasket, CommitBasket, Rename, Drop, Validate, CheckClaim, InsertItem,
           Adds, CommitItem, Locks, LockItems, Moves, CommitMoved, MarkReturned, NotifyReturned,
           DeleteItem, InsertTender, SetTenderOpen, locks
    <2> QED
        BY <2>1, <1>a, <1>b
<1> QED
    BY <1>1, <1>2, <1>3, <1>4, <1>5, <1>6, StepKinds

\* Where a request is after a step.
LEMMA Where ==
    ASSUME TypeOK, NEW r \in Requests
    PROVE  /\ \A from, to : Goto(r, from, to) => pc'[r] = to
           /\ Done(r) => pc'[r] = "done"
BY DEF TypeOK, Goto, Done

\* Nobody comes to a statement under a lock but from the one before.
LEMMA WhoLocks ==
    ASSUME TypeOK, NEW r \in Requests, Step(r) \/ Abort(r)
    PROVE  /\ pc'[r] \in Creating => TakeBasketLock(r) \/ FindTemp(r) \/ CheckName(r) \/ ReadNumber(r) \/ InsertBasket(r)
           /\ pc'[r] \in Pricing => TakePriceLock(r) \/ CheckChosen(r) \/ CheckPlanPrices(r) \/ Locks(r)
           /\ pc'[r] = "priceLock" => CheckTarget(r)
<1> USE DEF Return
<1>0. {"findTemp", "name", "number", "insert", "commitBasket"} = Creating
      /\ {"chosen", "planPrices", "move", "commitMove"} = Pricing
    BY DEF Creating, Pricing
<1>1. CASE Reads(r)
    <2>1. CASE TakeBasketLock(r) \/ FindTemp(r) \/ CheckName(r) \/ ReadNumber(r)
        BY <1>0, <2>1, Where DEF TakeBasketLock, FindTemp, CheckName, ReadNumber
    <2>2. CASE TakePriceLock(r) \/ CheckChosen(r) \/ CheckPlanPrices(r) \/ CheckTarget(r)
        BY <1>0, <2>2, Where DEF TakePriceLock, CheckChosen, CheckPlanPrices, CheckTarget
    <2>3. CASE CheckOwned(r) \/ CheckTemp(r) \/ CheckPacked(r) \/ CheckTendered(r)
        BY <1>0, <2>3, Where DEF CheckOwned, CheckTemp, CheckPacked, CheckTendered
    <2>4. CASE BasketLockTimeout(r) \/ PriceLockTimeout(r) \/ Abort(r)
        BY <1>0, <2>4, Where DEF BasketLockTimeout, PriceLockTimeout, Abort
    <2> QED
        BY <1>1, <2>1, <2>2, <2>3, <2>4 DEF Reads
<1>2. CASE Writes(r)
    BY <1>0, <1>2, Where DEF Writes, InsertBasket, CommitBasket, Rename, Drop, Validate, CheckClaim,
       InsertItem, Adds, CommitItem, Locks, LockItems, Moves, CommitMoved, MarkReturned, NotifyReturned,
       DeleteItem, InsertTender, SetTenderOpen
<1> QED
    BY <1>1, <1>2, StepKinds

\* The statements under the lock of the prices follow each other.
LEMMA EntersPricing ==
    ASSUME TypeOK, NEW r \in Requests, Step(r) \/ Abort(r), pc'[r] \in Pricing
    PROVE  /\ UNCHANGED <<tables, call, frame>>
           /\ \/ TakePriceLock(r) /\ pc[r] = "priceLock" /\ pc'[r] = "chosen"
              \/ /\ priceLock' = priceLock
                 /\ \/ CheckChosen(r) /\ pc[r] = "chosen" /\ pc'[r] = "planPrices"
                    \/ CheckPlanPrices(r) /\ pc[r] = "planPrices" /\ pc'[r] = "move"
                    \/ pc[r] = "move" /\ pc'[r] = "commitMove"
<1>1. pc'[r] # "done"
    BY DEF Pricing
<1>2. TakePriceLock(r) => /\ UNCHANGED <<tables, call, frame>>
                          /\ pc[r] = "priceLock" /\ pc'[r] = "chosen"
    BY Where DEF TakePriceLock, Goto
<1>3. CheckChosen(r) => /\ UNCHANGED <<tables, call, frame, priceLock>>
                        /\ pc[r] = "chosen" /\ pc'[r] = "planPrices"
    BY <1>1, Where DEF CheckChosen, Goto, Return, locks
<1>4. CheckPlanPrices(r) => /\ UNCHANGED <<tables, call, frame, priceLock>>
                            /\ pc[r] = "planPrices" /\ pc'[r] = "move"
    BY <1>1, Where DEF CheckPlanPrices, Goto, Return, locks
<1>5. Locks(r) => /\ UNCHANGED <<tables, call, frame, priceLock>>
                  /\ pc[r] = "move" /\ pc'[r] = "commitMove"
    BY <1>1, Where DEF Locks, LockItems, Goto, Return, Pricing
<1> QED
    BY <1>2, <1>3, <1>4, <1>5, WhoLocks

LEMMA InitLocksHeld == Init => LocksHeld
<1>1. ASSUME Init, NEW q \in Requests PROVE pc[q] \notin Creating /\ pc[q] \notin Pricing \cup {"priceLock"}
    <2>1. call[q].kind \in Kinds
        BY <1>1, StoreAssumption DEF Init, Call
    <2> QED
        BY <1>1, <2>1 DEF Init, FirstStep, Kinds, Creating, Pricing
<1> QED
    BY <1>1 DEF LocksHeld

LEMMA StepLocksHeld ==
    ASSUME TypeOK, LocksHeld, NEW r \in Requests, Step(r) \/ Abort(r)
    PROVE  LocksHeld'
<1>0. RequestsOK /\ Apart(r)
    BY TypeSplit, StepsApart
<1>1. \A q \in Requests : Slot(q) \in Users \X Plans
    BY CallTyped DEF Slot
<1>2. \A q \in Requests \ {r} :
         /\ pc'[q] \in Creating => basketLock'[Slot(q)'] = q
         /\ pc'[q] \in Pricing => priceLock'[PriceSlot(q)'] = q
         /\ pc'[q] \in Pricing \cup {"priceLock"} => frame'[q].plan \in Plans
    <2> SUFFICES ASSUME NEW q \in Requests \ {r}
                 PROVE  /\ pc'[q] \in Creating => basketLock'[Slot(q)'] = q
                        /\ pc'[q] \in Pricing => priceLock'[PriceSlot(q)'] = q
                        /\ pc'[q] \in Pricing \cup {"priceLock"} => frame'[q].plan \in Plans
        OBVIOUS
    <2>1. /\ pc'[q] = pc[q] /\ frame'[q] = frame[q]
          /\ Slot(q)' = Slot(q) /\ PriceSlot(q)' = PriceSlot(q)
        BY <1>0 DEF Apart, Slot, PriceSlot
    <2>2. pc[q] \in Pricing => PriceSlot(q) \in Users \X Plans
        BY CallTyped DEF LocksHeld, PriceSlot
    <2> QED
        BY <1>0, <1>1, <2>1, <2>2 DEF Apart, LocksHeld
<1>3. pc'[r] \in Creating => basketLock'[Slot(r)'] = r
    <2>1. Slot(r)' = Slot(r)
        BY <1>0 DEF Apart, Slot
    <2>2. CASE TakeBasketLock(r)
        BY <1>0, <1>1, <2>1, <2>2 DEF TakeBasketLock, Taken, RequestsOK
    <2>3. CASE pc'[r] \in Creating /\ (FindTemp(r) \/ CheckName(r) \/ ReadNumber(r) \/ InsertBasket(r))
        <3>1. pc'[r] # "done"
            BY <2>3 DEF Creating
        <3>2. pc[r] \in Creating /\ basketLock' = basketLock
            BY <2>3, <3>1, Where DEF FindTemp, CheckName, ReadNumber, InsertBasket, Goto, Return, locks, Creating
        <3> QED
            BY <2>1, <3>2 DEF LocksHeld
    <2> QED
        BY <2>2, <2>3, WhoLocks
<1>4. ASSUME pc'[r] \in Pricing
      PROVE  priceLock'[PriceSlot(r)'] = r /\ frame'[r].plan \in Plans
    <2>1. UNCHANGED <<call, frame>> /\ pc[r] \in Pricing \cup {"priceLock"}
        BY <1>4, EntersPricing DEF Pricing
    <2>2. frame[r].plan \in Plans /\ PriceSlot(r) \in Users \X Plans /\ PriceSlot(r)' = PriceSlot(r)
        BY <2>1, CallTyped DEF LocksHeld, PriceSlot
    <2>3. CASE TakePriceLock(r)
        BY <1>0, <2>1, <2>2, <2>3 DEF TakePriceLock, Taken, RequestsOK
    <2>4. CASE pc[r] \in Pricing /\ priceLock' = priceLock
        BY <2>1, <2>2, <2>4 DEF LocksHeld
    <2> QED
        BY <1>4, <2>3, <2>4, EntersPricing DEF Pricing
<1>5. ASSUME pc'[r] = "priceLock" PROVE frame'[r].plan \in Plans
    <2>1. CheckTarget(r) /\ ~Done(r)
        BY <1>5, WhoLocks, Where
    <2>2. IsMine(r, call[r].basket) /\ frame' = [frame EXCEPT ![r].plan = basket[call[r].basket].plan]
        BY <2>1 DEF CheckTarget, Return
    <2>3. basket[call[r].basket].plan \in Plans
        BY <2>2 DEF IsMine, TypeOK, BasketRow
    <2> QED
        BY <1>0, <2>2, <2>3 DEF RequestsOK, Locals
<1> QED
    BY <1>2, <1>3, <1>4, <1>5 DEF LocksHeld

\* What every step leaves of a basket.
Same(b) == /\ b \in DOMAIN basket
           /\ basket'[b].user = basket[b].user /\ basket'[b].plan = basket[b].plan
           /\ basket'[b].number = basket[b].number /\ basket'[b].temp = basket[b].temp

\* Only the commit of a basket adds one.
LEMMA BasketsStay ==
    ASSUME TypeOK, NEW r \in Requests, Step(r) \/ Abort(r), ~CommitBasket(r)
    PROVE  \A b \in DOMAIN basket' : Same(b)
<1>0. basket \in [DOMAIN basket -> BasketRow]
    BY DEF TypeOK
<1>1. CASE basket' = basket
    BY <1>1 DEF Same
<1>2. CASE Rename(r)
    <2>1. DOMAIN basket' = DOMAIN basket
        BY <1>2 DEF Rename
    <2>2. ASSUME NEW b \in DOMAIN basket
          PROVE  /\ basket'[b].user = basket[b].user /\ basket'[b].plan = basket[b].plan
                 /\ basket'[b].number = basket[b].number /\ basket'[b].temp = basket[b].temp
        <3>1. \/ basket'[b] = basket[b]
              \/ basket'[b] = [basket[b] EXCEPT !.type = call[r].newType]
              \/ basket'[b] = [basket[b] EXCEPT !.name = call[r].name]
            BY <1>2 DEF Rename
        <3> QED
            BY <1>0, <3>1 DEF BasketRow
    <2> QED
        BY <2>1, <2>2 DEF Same
<1>3. CASE Validate(r)
    <2>1. DOMAIN basket' = DOMAIN basket
        BY <1>3 DEF Validate
    <2>2. \A b \in DOMAIN basket : basket'[b] = basket[b] \/ basket'[b] = [basket[b] EXCEPT !.valid = TRUE]
        BY <1>3 DEF Validate
    <2> QED
        BY <1>0, <2>1, <2>2 DEF BasketRow, Same
<1>4. CASE Drop(r)
    BY <1>4 DEF Drop, Same
<1>5. CASE Reads(r)
    BY <1>1, <1>5, ReadsQuiet DEF Quiet, tables
<1>6. CASE Writes(r) /\ ~Rename(r) /\ ~Validate(r) /\ ~Drop(r)
    <2>1. basket' = basket
        BY <1>6 DEF Writes, InsertBasket, CheckClaim, InsertItem, Adds, CommitItem, Locks, LockItems,
           Moves, CommitMoved, MarkReturned, NotifyReturned, DeleteItem, InsertTender, SetTenderOpen, tables
    <2> QED
        BY <1>1, <2>1
<1> QED
    BY <1>2, <1>3, <1>4, <1>5, <1>6, StepKinds

-----------------------------------------------------------------------------
(* Names and numbers in a plan.                                            *)

\* No number is a text that is no number.
Numbered == \A b \in DOMAIN basket : basket[b].number # 0

\* A step changes the type or the name of no basket there is.
Keeps(b) == basket'[b].type = basket[b].type /\ basket'[b].name = basket[b].name
NamesStay == [][\A b \in DOMAIN basket \cap DOMAIN basket' : Keeps(b)]_vars

InSlot(b, q) == <<basket[b].user, basket[b].plan>> = Slot(q)

\* What a request that creates a basket has found out.
Knows(q) ==
    /\ pc[q] = "findTemp" => call[q].temp
    /\ pc[q] \in {"number", "insert", "commitBasket"} /\ ~call[q].temp =>
          \A b \in DOMAIN basket : InSlot(b, q) /\ ~basket[b].temp => basket[b].name # call[q].name
    /\ pc[q] \in {"insert", "commitBasket"} =>
          /\ frame[q].number # 0
          /\ \A b \in DOMAIN basket : InSlot(b, q) /\ basket[b].type = call[q].type =>
                basket[b].number # frame[q].number

PInv == DistinctInPlan /\ Numbered /\ LocksHeld /\ \A q \in Requests : Knows(q)

\* Whatever becomes of other baskets, what a request has found out stays so.
LEMMA KnowsStays ==
    ASSUME \A b \in DOMAIN basket' : Same(b) /\ Keeps(b), call' = call, NEW q \in Requests, Knows(q),
           pc'[q] = pc[q], frame'[q] = frame[q]
    PROVE  Knows(q)'
<1>1. Slot(q)' = Slot(q)
    BY DEF Slot
<1>2. \A b \in DOMAIN basket' : InSlot(b, q)' <=> InSlot(b, q)
    BY <1>1 DEF InSlot, Same
<1> QED
    BY <1>2 DEF Knows, Same, Keeps

LEMMA StepKnows ==
    ASSUME TypeOK, PInv, NEW r \in Requests, Step(r) \/ Abort(r), ~CommitBasket(r),
           \A b \in DOMAIN basket' : Same(b) /\ Keeps(b)
    PROVE  PInv'
<1>0. RequestsOK /\ Apart(r) /\ LocksHeld'
    BY TypeSplit, StepsApart, StepLocksHeld DEF PInv
<1>1. DistinctInPlan' /\ Numbered'
    <2>1. \A a, b \in DOMAIN basket' : /\ SamePlan(a, b)' => SamePlan(a, b)
                                       /\ SameName(a, b)' => SameName(a, b)
                                       /\ SameNumber(a, b)' => SameNumber(a, b)
        BY DEF Same, Keeps, SamePlan, SameName, SameNumber
    <2> QED
        BY <2>1 DEF PInv, DistinctInPlan, Numbered, Same
<1>2. \A q \in Requests \ {r} : Knows(q)'
    BY <1>0, KnowsStays DEF Apart, PInv
<1>3. Knows(r)'
    <2>0. call' = call /\ Knows(r)
        BY <1>0 DEF Apart, PInv
    <2>1. CASE pc'[r] \notin Creating
        BY <2>1 DEF Knows, Creating
    <2>2. CASE TakeBasketLock(r)
        BY <2>0, <2>2, Where DEF TakeBasketLock, Knows
    <2>3. CASE FindTemp(r) /\ pc'[r] \in Creating
        <3>1. pc[r] = "findTemp" /\ pc'[r] = "number"
            BY <2>3, Where DEF FindTemp, Goto, Return, Creating
        <3> QED
            BY <2>0, <3>1 DEF Knows
    <2>4. CASE CheckName(r) /\ pc'[r] \in Creating
        <3>1. /\ pc'[r] = "number" /\ basket' = basket
              /\ ~\E b \in DOMAIN basket : /\ <<basket[b].user, basket[b].plan>> = Slot(r)
                                           /\ ~basket[b].temp /\ basket[b].name = call[r].name
            BY <2>4, Where DEF CheckName, Goto, Return, Creating, tables
        <3> QED
            BY <2>0, <3>1 DEF Knows, InSlot, Slot
    <2>5. CASE ReadNumber(r)
        <3>1. PICK largest \in Numbers(r) \cup {0} :
                 /\ \A n \in Numbers(r) : n <= largest
                 /\ frame' = [frame EXCEPT ![r].number = NextNumber(r, largest)]
            BY <2>5 DEF ReadNumber
        <3>2. \A n \in Numbers(r) : n \in Nat /\ n # 0
            BY DEF Numbers, PInv, Numbered, TypeOK, BasketRow
        <3>3. frame'[r].number = largest + 1
            BY <1>0, <3>1, <3>2 DEF NextNumber, RequestsOK, Locals
        <3>4. frame'[r].number # 0 /\ frame'[r].number \notin Numbers(r)
            BY <3>1, <3>2, <3>3
        <3>5. /\ pc[r] = "number" /\ pc'[r] = "insert" /\ basket' = basket
              /\ Slot(r)' = Slot(r) /\ \A b : InSlot(b, r)' <=> InSlot(b, r)
            BY <2>0, <2>5, Where DEF ReadNumber, Goto, tables, Slot, InSlot
        <3>6. \A b \in DOMAIN basket : InSlot(b, r) /\ basket[b].type = call[r].type =>
                 basket[b].number \in Numbers(r)
            BY DEF Numbers, InSlot
        <3>7. ~call[r].temp =>
                 \A b \in DOMAIN basket : InSlot(b, r) /\ ~basket[b].temp => basket[b].name # call[r].name
            BY <2>0, <3>5 DEF Knows
        <3> QED
            BY <2>0, <3>4, <3>5, <3>6, <3>7 DEF Knows
    <2>6. CASE InsertBasket(r) /\ pc'[r] \in Creating
        <3>1. pc[r] = "insert" /\ pc'[r] = "commitBasket" /\ UNCHANGED <<tables, frame>>
            BY <2>6, Where DEF InsertBasket, Goto, Return, Creating
        <3>2. basket' = basket /\ \A b : InSlot(b, r)' <=> InSlot(b, r)
            BY <2>0, <3>1 DEF tables, InSlot, Slot
        <3> QED
            BY <2>0, <3>1, <3>2 DEF Knows
    <2> QED
        BY <2>1, <2>2, <2>3, <2>4, <2>5, <2>6, WhoLocks
<1> QED
    BY <1>0, <1>1, <1>2, <1>3 DEF PInv

\* The commit of a basket: nobody else creates one in the same plan of the same user.
LEMMA CommitKnows ==
    ASSUME IInv, PInv, NEW r \in Requests, Step(r) \/ Abort(r), CommitBasket(r)
    PROVE  PInv'
<1>0. TypeOK /\ RequestsOK /\ Apart(r) /\ LocksHeld'
    BY TypeSplit, StepsApart, StepLocksHeld DEF PInv, IInv
<1>1. /\ DOMAIN basket' = DOMAIN basket \cup {r}
      /\ basket'[r] = NewBasket(r) /\ \A b \in DOMAIN basket \ {r} : basket'[b] = basket[b]
      /\ pc[r] = "commitBasket" /\ pc'[r] = "done" /\ call' = call
    BY <1>0, Where DEF CommitBasket, Done
<1>2. r \notin DOMAIN basket
    BY <1>1 DEF IInv, Fresh
<1>3. /\ \A b \in DOMAIN basket : InSlot(b, r) /\ ~basket[b].temp /\ ~call[r].temp => basket[b].name # call[r].name
      /\ \A b \in DOMAIN basket : InSlot(b, r) /\ basket[b].type = call[r].type => basket[b].number # frame[r].number
      /\ frame[r].number # 0
    BY <1>1 DEF PInv, Knows
<1>4. /\ <<basket'[r].user, basket'[r].plan>> = Slot(r)
      /\ basket'[r].type = call[r].type /\ basket'[r].name = call[r].name
      /\ basket'[r].number = frame[r].number /\ basket'[r].temp = call[r].temp
    BY <1>1 DEF NewBasket, Slot
<1>5. DistinctInPlan' /\ Numbered'
    <2>1. \A a, b \in DOMAIN basket : /\ SamePlan(a, b)' => SamePlan(a, b)
                                      /\ SameName(a, b)' => SameName(a, b)
                                      /\ SameNumber(a, b)' => SameNumber(a, b)
        BY <1>1, <1>2 DEF SamePlan, SameName, SameNumber
    <2>2. \A b \in DOMAIN basket : ~(SamePlan(r, b)' /\ (SameName(r, b)' \/ SameNumber(r, b)'))
        BY <1>1, <1>2, <1>3, <1>4 DEF SamePlan, SameName, SameNumber, InSlot
    <2>3. \A b \in DOMAIN basket : ~(SamePlan(b, r)' /\ (SameName(b, r)' \/ SameNumber(b, r)'))
        BY <1>1, <1>2, <1>3, <1>4 DEF SamePlan, SameName, SameNumber, InSlot
    <2>4. DistinctInPlan'
        BY <1>1, <2>1, <2>2, <2>3 DEF PInv, DistinctInPlan
    <2> QED
        BY <1>1, <1>2, <1>3, <1>4, <2>4 DEF PInv, Numbered
<1>6. \A q \in Requests \ {r} : Knows(q)'
    <2> SUFFICES ASSUME NEW q \in Requests \ {r} PROVE Knows(q)'
        OBVIOUS
    <2>1. pc'[q] = pc[q] /\ frame'[q] = frame[q] /\ Slot(q)' = Slot(q) /\ Knows(q)
        BY <1>0 DEF Apart, Slot, PInv
    <2>2. CASE pc[q] \notin Creating
        BY <2>1, <2>2 DEF Knows, Creating
    <2>3. CASE pc[q] \in Creating
        <3>1. Slot(q) # Slot(r)
            BY <1>1, <2>3 DEF PInv, LocksHeld, Creating
        <3>2. \A b \in DOMAIN basket' : InSlot(b, q)' => b \in DOMAIN basket /\ basket'[b] = basket[b] /\ InSlot(b, q)
            BY <1>1, <1>2, <1>4, <2>1, <3>1 DEF InSlot
        <3> QED
            BY <1>1, <2>1, <3>2 DEF Knows
    <2> QED
        BY <2>2, <2>3
<1>7. Knows(r)'
    BY <1>1 DEF Knows
<1> QED
    BY <1>0, <1>5, <1>6, <1>7 DEF PInv

LEMMA NextPInv ==
    ASSUME IInv, PInv, [Next]_vars, [\A b \in DOMAIN basket \cap DOMAIN basket' : Keeps(b)]_vars
    PROVE  PInv'
<1>1. CASE UNCHANGED vars
    BY <1>1 DEF PInv, DistinctInPlan, SamePlan, SameName, SameNumber, Numbered, LocksHeld, Knows,
       InSlot, Slot, PriceSlot, vars, tables, locks
<1>2. CASE ~UNCHANGED vars
    <2>1. PICK r \in Requests : Step(r) \/ Abort(r)
        BY <1>2 DEF Next
    <2>2. \A b \in DOMAIN basket \cap DOMAIN basket' : Keeps(b)
        BY <1>2
    <2>3. ~CommitBasket(r) => \A b \in DOMAIN basket' : Same(b) /\ Keeps(b)
        BY <2>1, <2>2, BasketsStay DEF Same, IInv
    <2> QED
        BY <2>1, <2>3, StepKnows, CommitKnows DEF IInv
<1> QED
    BY <1>1, <1>2

\* In a user's plan no two baskets ever have one name, and no two of a type one number,
\* however many requests create and delete baskets at the same time: as long as renames
\* and changes of type, which check nothing, do not change a name or a type, and every
\* number of an old basket is one.
THEOREM PlanDistinct == Spec /\ DistinctInPlan /\ Numbered /\ NamesStay => []DistinctInPlan
<1>1. Init /\ DistinctInPlan /\ Numbered => PInv
    <2>1. ASSUME Init, NEW q \in Requests PROVE pc[q] \notin {"findTemp", "number", "insert", "commitBasket"}
        <3>1. call[q].kind \in Kinds
            BY <2>1, StoreAssumption DEF Init, Call
        <3> QED
            BY <2>1, <3>1 DEF Init, FirstStep, Kinds
    <2> QED
        BY <2>1, InitLocksHeld DEF PInv, Knows
<1>2. IInv /\ PInv /\ [Next]_vars /\ [\A b \in DOMAIN basket \cap DOMAIN basket' : Keeps(b)]_vars => PInv'
    BY NextPInv
<1>3. PInv => DistinctInPlan
    BY DEF PInv
<1> QED
    BY <1>1, <1>2, <1>3, Inductive, PTL DEF Spec, NamesStay

-----------------------------------------------------------------------------
(* Prices in a plan.                                                       *)

\* The database lets no basket go that has items.
ForeignKey == \A i \in DOMAIN item : item[i].basket \in DOMAIN basket

\* Orders are posted to temporary baskets, and nobody who has read the items of a move
\* has named one that was not there.
Arrives(i) == /\ basket'[item'[i].basket].temp
              /\ \A q \in Requests : pc[q] \in {"planPrices", "move"} => i \notin call[q].items
PostedToTemp == [][\A i \in DOMAIN item' \ DOMAIN item : Arrives(i)]_vars

\* The statements of UnpackBasketItems after its target is found.
Unpacking == {"packed", "tendered", "unpack", "commitUnpack"}

MyPacked(q) == Packed(basket, item, call[q].user, frame[q].plan)

\* What a request that moves items has found out of its target and of the prices.
Priced(q) ==
    /\ pc[q] \in Pricing \cup {"priceLock"} /\ call[q].basket \in DOMAIN basket =>
          basket[call[q].basket].plan = frame[q].plan /\ ~basket[call[q].basket].temp
    /\ pc[q] \in Unpacking /\ call[q].basket \in DOMAIN basket => basket[call[q].basket].temp
    /\ pc[q] \in {"planPrices", "move", "commitMove"} =>
          \A i, j \in Chosen(q) : ~Clash(item[i].key, item[j].key)
    /\ pc[q] \in {"move", "commitMove"} =>
          \A i \in Chosen(q), j \in MyPacked(q) \ call[q].items : ~Clash(item[i].key, item[j].key)

PriceInv == LocksHeld /\ OnePricePerPlan /\ \A q \in Requests : Priced(q)

LEMMA ChosenMeans ==
    ASSUME NEW q, NEW i
    PROVE  i \in Chosen(q) <=> /\ i \in call[q].items /\ i \in DOMAIN item /\ ~item[i].returned
                               /\ item[i].basket \in DOMAIN basket /\ Home(i).user = call[q].user
BY LiveMeans DEF Chosen, MyLive, MyItems, Mine, Shown

LEMMA PackedMeans ==
    ASSUME NEW u, NEW p, NEW i
    PROVE  i \in Packed(basket, item, u, p) <=>
               /\ i \in DOMAIN item /\ ~item[i].returned /\ item[i].basket \in DOMAIN basket
               /\ Home(i).user = u /\ Home(i).plan = p /\ ~Home(i).temp
BY DEF Packed, Claimed, Shown, Home

\* The items a commit may bring to the basket of its call.
Brought(r) == IF pc[r] \in {"commitMove", "commitUnpack"} THEN call[r].items ELSE {}

\* What a step leaves of an item.
SameItem(i, r) ==
    /\ item'[i].key = item[i].key
    /\ item[i].returned => item'[i].returned
    /\ \/ item'[i].basket = item[i].basket
       \/ i \in Brought(r) /\ item'[i].basket = call[r].basket

LEMMA ItemsStay ==
    ASSUME IInv, NEW r \in Requests, Step(r) \/ Abort(r)
    PROVE  \A i \in DOMAIN item \cap DOMAIN item' : SameItem(i, r)
<1>0. TypeOK /\ item \in [DOMAIN item -> ItemRow]
    BY DEF IInv, TypeOK
<1>1. CASE item' = item
    BY <1>1 DEF SameItem
<1>2. CASE Reads(r)
    BY <1>0, <1>1, <1>2, ReadsQuiet DEF Quiet, tables
<1>3. CASE Drop(r) \/ DeleteItem(r)
    BY <1>3 DEF Drop, DeleteItem, SameItem
<1>4. CASE Adds(r)
    <2>1. r \notin DOMAIN item
        BY <1>4 DEF Adds, CommitItem, IInv, Fresh
    <2> QED
        BY <1>4, <2>1 DEF Adds, CommitItem, SameItem
<1>5. CASE MarkReturned(r)
    <2>1. \A i \in DOMAIN item : item'[i] = item[i] \/ item'[i] = [item[i] EXCEPT !.returned = TRUE]
        BY <1>5 DEF MarkReturned
    <2>2. \A i \in DOMAIN item :
             /\ [item[i] EXCEPT !.returned = TRUE].key = item[i].key
             /\ [item[i] EXCEPT !.returned = TRUE].returned
             /\ [item[i] EXCEPT !.returned = TRUE].basket = item[i].basket
        BY <1>0 DEF ItemRow
    <2>3. ASSUME NEW i \in DOMAIN item PROVE SameItem(i, r)
        <3>1. CASE item'[i] = item[i]
            BY <3>1 DEF SameItem
        <3>2. CASE item'[i] = [item[i] EXCEPT !.returned = TRUE]
            BY <2>2, <3>2 DEF SameItem
        <3> QED
            BY <2>1, <3>1, <3>2
    <2> QED
        BY <2>3
<1>6. CASE Moves(r)
    <2>1. /\ Brought(r) = call[r].items
          /\ \A i \in DOMAIN item : item'[i] = IF i \in call[r].items THEN [item[i] EXCEPT !.basket = call[r].basket]
                                               ELSE item[i]
        BY <1>6 DEF Moves, CommitMoved, Brought
    <2>2. ASSUME NEW i \in DOMAIN item
          PROVE  [item[i] EXCEPT !.basket = call[r].basket].basket = call[r].basket
        BY <1>0 DEF ItemRow
    <2>3. ASSUME NEW i \in DOMAIN item
          PROVE  /\ [item[i] EXCEPT !.basket = call[r].basket].key = item[i].key
                 /\ [item[i] EXCEPT !.basket = call[r].basket].returned = item[i].returned
        BY <1>0 DEF ItemRow
    <2> QED
        BY <2>1, <2>2, <2>3 DEF SameItem
<1>7. CASE Writes(r) /\ ~(Drop(r) \/ DeleteItem(r) \/ Adds(r) \/ MarkReturned(r) \/ Moves(r))
    <2>1. item' = item
        BY <1>7 DEF Writes, InsertBasket, CommitBasket, Rename, Validate, CheckClaim, InsertItem, Locks,
           LockItems, NotifyReturned, InsertTender, SetTenderOpen, tables
    <2> QED
        BY <1>1, <2>1
<1> QED
    BY <1>2, <1>3, <1>4, <1>5, <1>6, <1>7, StepKinds

\* Nobody comes to a statement of an unpacking but from the one before, or by CheckTemp.
LEMMA EntersUnpacking ==
    ASSUME TypeOK, NEW r \in Requests, Step(r) \/ Abort(r), pc'[r] \in Unpacking
    PROVE  /\ UNCHANGED <<tables, call, frame>>
           /\ pc[r] \in Unpacking \/ (IsMine(r, call[r].basket) /\ basket[call[r].basket].temp)
<1> USE DEF Return
<1>0. {"packed", "tendered", "unpack", "commitUnpack"} = Unpacking
    BY DEF Unpacking
<1>1. CASE Reads(r)
    <2>1. CASE TakeBasketLock(r) \/ FindTemp(r) \/ CheckName(r) \/ ReadNumber(r)
        BY <1>0, <2>1, Where DEF TakeBasketLock, FindTemp, CheckName, ReadNumber
    <2>2. CASE TakePriceLock(r) \/ CheckChosen(r) \/ CheckPlanPrices(r) \/ CheckTarget(r) \/ CheckOwned(r)
        BY <1>0, <2>2, Where DEF TakePriceLock, CheckChosen, CheckPlanPrices, CheckTarget, CheckOwned
    <2>3. CASE CheckTemp(r)
        <3>1. IsMine(r, call[r].basket) /\ basket[call[r].basket].temp /\ UNCHANGED <<tables, call, frame>>
            BY <1>0, <2>3, Where DEF CheckTemp
        <3> QED
            BY <3>1
    <2>4. CASE CheckPacked(r) \/ CheckTendered(r)
        <3>1. /\ UNCHANGED <<tables, call, frame>>
              /\ Goto(r, "packed", "tendered") \/ Goto(r, "tendered", "unpack")
            BY <1>0, <2>4, Where DEF CheckPacked, CheckTendered
        <3> QED
            BY <3>1 DEF Goto, Unpacking
    <2>5. CASE BasketLockTimeout(r) \/ PriceLockTimeout(r) \/ Abort(r)
        BY <1>0, <2>5, Where DEF BasketLockTimeout, PriceLockTimeout, Abort
    <2> QED
        BY <1>1, <2>1, <2>2, <2>3, <2>4, <2>5 DEF Reads
<1>2. CASE Locks(r)
    <2>1. /\ UNCHANGED <<tables, call, frame>>
          /\ Goto(r, "unpack", "commitUnpack") \/ Goto(r, "move", "commitMove")
        BY <1>0, <1>2, Where DEF Locks, LockItems
    <2>2. ~Goto(r, "move", "commitMove")
        BY <1>0, Where
    <2> QED
        BY <2>1, <2>2 DEF Goto, Unpacking
<1>3. CASE Writes(r) /\ ~Locks(r)
    BY <1>0, <1>3, Where DEF Writes, InsertBasket, CommitBasket, Rename, Drop, Validate, CheckClaim,
       InsertItem, Adds, CommitItem, Moves, CommitMoved, MarkReturned, NotifyReturned,
       DeleteItem, InsertTender, SetTenderOpen
<1> QED
    BY <1>1, <1>2, <1>3, StepKinds

-----------------------------------------------------------------------------
\* What a step brings: the items of a call that is committed, to the basket it has found.
LEMMA WhatComes ==
    ASSUME CInv, ForeignKey, ForeignKey', NEW r \in Requests, Step(r) \/ Abort(r),
           NEW i \in DOMAIN item \cap DOMAIN item'
    PROVE  /\ item'[i].key = item[i].key /\ (item[i].returned => item'[i].returned)
           /\ Home(i)'.user = Home(i).user
           /\ \/ Home(i)'.plan = Home(i).plan /\ Home(i)'.temp = Home(i).temp
              \/ /\ i \in Brought(r) /\ call[r].basket \in DOMAIN basket
                 /\ Home(i).user = call[r].user
                 /\ Home(i)'.plan = basket[call[r].basket].plan
                 /\ Home(i)'.temp = basket[call[r].basket].temp
<1>0. IInv /\ TypeOK /\ SameItem(i, r)
    BY ItemsStay DEF CInv, IInv
<1>1. item[i].basket \in DOMAIN basket /\ item'[i].basket \in DOMAIN basket'
    BY DEF ForeignKey
<1>2. ASSUME NEW b \in DOMAIN basket', b \in DOMAIN basket PROVE Same(b)
    <2>1. CASE CommitBasket(r)
        <3>1. r \notin DOMAIN basket
            BY <1>0, <2>1 DEF CommitBasket, IInv, Fresh
        <3> QED
            BY <1>2, <2>1, <3>1 DEF CommitBasket, Same
    <2>2. CASE ~CommitBasket(r)
        BY <1>0, <2>2, BasketsStay
    <2> QED
        BY <2>1, <2>2
<1>3. CASE item'[i].basket = item[i].basket
    <2>1. Same(item[i].basket)
        BY <1>1, <1>2, <1>3
    <2> QED
        BY <1>0, <1>3, <2>1 DEF SameItem, Same, Home
<1>4. CASE i \in Brought(r) /\ item'[i].basket = call[r].basket
    <2> DEFINE b == call[r].basket
    <2>1. pc[r] \in {"commitMove", "commitUnpack"} /\ i \in call[r].items
        BY <1>4 DEF Brought
    <2>2. itemLock[i] = r /\ i \in ItemIds
        BY <1>0, <2>1 DEF IInv, Holding, TypeOK
    <2>3. Home(i).user = call[r].user
        BY <1>1, <2>2 DEF CInv, OwnMoves
    <2>4. ~CommitBasket(r) /\ pc[r] \in Aims
        BY <2>1 DEF CommitBasket, Aims
    <2>5. Same(b)
        BY <1>0, <1>1, <1>4, <2>4, BasketsStay
    <2>6. basket[b].user = call[r].user
        BY <2>4, <2>5 DEF CInv, Aimed, IsMine, Same
    <2>7. Home(i)' = basket'[b]
        BY <1>4 DEF Home
    <2> QED
        BY <1>0, <1>4, <2>3, <2>5, <2>6, <2>7 DEF SameItem, Same
<1> QED
    BY <1>0, <1>3, <1>4 DEF SameItem

\* A plan gets no packed item but by a commit of MoveBasketItems.
LEMMA PackedStays ==
    ASSUME CInv, PriceInv, ForeignKey, ForeignKey', NEW r \in Requests, Step(r) \/ Abort(r),
           \A i \in DOMAIN item' \ DOMAIN item : Arrives(i),
           NEW u, NEW p, NEW i \in Packed(basket, item, u, p)'
    PROVE  /\ item'[i].key = item[i].key
           /\ \/ i \in Packed(basket, item, u, p)
              \/ pc[r] = "commitMove" /\ i \in call[r].items /\ <<u, p>> = PriceSlot(r)
<1>1. /\ i \in DOMAIN item' /\ ~item'[i].returned /\ item'[i].basket \in DOMAIN basket'
      /\ Home(i)'.user = u /\ Home(i)'.plan = p /\ ~Home(i)'.temp
    BY DEF Packed, Claimed, Shown, Home
<1>2. i \in DOMAIN item
    BY <1>1 DEF Arrives, Home
<1>3. /\ item'[i].key = item[i].key /\ ~item[i].returned /\ item[i].basket \in DOMAIN basket
      /\ Home(i).user = u
    BY <1>1, <1>2, WhatComes DEF ForeignKey
<1>4. CASE Home(i).plan = p /\ ~Home(i).temp
    BY <1>2, <1>3, <1>4, PackedMeans
<1>5. CASE /\ i \in Brought(r) /\ call[r].basket \in DOMAIN basket /\ Home(i).user = call[r].user
           /\ p = basket[call[r].basket].plan /\ ~basket[call[r].basket].temp
    <2>1. pc[r] = "commitMove" /\ i \in call[r].items
        BY <1>5 DEF Brought, PriceInv, Priced, Unpacking
    <2>2. p = frame[r].plan
        BY <1>5, <2>1 DEF PriceInv, Priced, Pricing
    <2> QED
        BY <1>3, <1>5, <2>1, <2>2 DEF PriceSlot
<1> QED
    BY <1>1, <1>2, <1>3, <1>4, <1>5, WhatComes

\* The items that are committed have been chosen.
LEMMA HeldChosen ==
    ASSUME CInv, ForeignKey, NEW r \in Requests, pc[r] = "commitMove"
    PROVE  call[r].items \subseteq Chosen(r)
<1> SUFFICES ASSUME NEW i \in call[r].items PROVE i \in Chosen(r)
    OBVIOUS
<1>1. i \in DOMAIN item /\ itemLock[i] = r
    BY DEF CInv, IInv, Holding
<1>2. i \in ItemIds
    BY <1>1 DEF CInv, IInv, TypeOK
<1> QED
    BY <1>1, <1>2, ChosenMeans DEF CInv, OwnMoves, ForeignKey

LEMMA ClashBoth == \A k, l \in Keys : Clash(k, l) => Clash(l, k)
BY DEF Clash

LEMMA StepOnePrice ==
    ASSUME CInv, PriceInv, ForeignKey, ForeignKey', NEW r \in Requests, Step(r) \/ Abort(r),
           \A i \in DOMAIN item' \ DOMAIN item : Arrives(i)
    PROVE  OnePricePerPlan'
<1> SUFFICES ASSUME NEW u \in Users, NEW p \in Plans,
                    NEW x \in Packed(basket, item, u, p)', NEW y \in Packed(basket, item, u, p)'
             PROVE  ~Clash(item'[x].key, item'[y].key)
    BY DEF OnePricePerPlan, OnePrice
<1> DEFINE packed == Packed(basket, item, u, p)
           brought(i) == pc[r] = "commitMove" /\ i \in call[r].items /\ <<u, p>> = PriceSlot(r)
<1>1. /\ item'[x].key = item[x].key /\ item'[y].key = item[y].key
      /\ x \in packed \/ brought(x)
      /\ y \in packed \/ brought(y)
    BY PackedStays
<1>2. \A i, j \in packed : ~Clash(item[i].key, item[j].key)
    BY DEF PriceInv, OnePricePerPlan, OnePrice
<1>3. \A i, j : brought(i) /\ brought(j) => ~Clash(item[i].key, item[j].key)
    BY HeldChosen DEF PriceInv, Priced
<1>4. \A i, j : brought(i) /\ j \in packed \ call[r].items =>
         ~Clash(item[i].key, item[j].key) /\ ~Clash(item[j].key, item[i].key)
    <2> SUFFICES ASSUME NEW i, NEW j \in packed \ call[r].items, brought(i)
                 PROVE  ~Clash(item[i].key, item[j].key) /\ ~Clash(item[j].key, item[i].key)
        OBVIOUS
    <2>1. i \in Chosen(r) /\ packed = MyPacked(r)
        BY HeldChosen DEF PriceSlot, MyPacked
    <2>2. ~Clash(item[i].key, item[j].key)
        BY <2>1 DEF PriceInv, Priced
    <2>3. i \in DOMAIN item /\ j \in DOMAIN item
        BY <2>1, ChosenMeans, PackedMeans
    <2>4. item[i].key \in Keys /\ item[j].key \in Keys
        BY <2>3 DEF CInv, IInv, TypeOK, ItemRow
    <2> QED
        BY <2>2, <2>4, ClashBoth
<1> QED
    BY <1>1, <1>2, <1>3, <1>4

\* What another request has found out stays so.
LEMMA OthersPriced ==
    ASSUME CInv, PriceInv, ForeignKey, ForeignKey', NEW r \in Requests, Step(r) \/ Abort(r),
           \A i \in DOMAIN item' \ DOMAIN item : Arrives(i), NEW q \in Requests \ {r}
    PROVE  Priced(q)'
<1>0. /\ TypeOK /\ Apart(r) /\ Priced(q) /\ LocksHeld
      /\ pc'[q] = pc[q] /\ frame'[q] = frame[q] /\ call' = call
    BY StepsApart DEF CInv, IInv, Apart, PriceInv
<1>1. ASSUME pc[q] \in Pricing \cup {"priceLock"} \cup Unpacking, call[q].basket \in DOMAIN basket'
      PROVE  Same(call[q].basket)
    <2>1. CASE CommitBasket(r)
        <3>1. call[q].basket # r /\ r \notin DOMAIN basket
            BY <1>1, <2>1 DEF CommitBasket, CInv, IInv, Fresh, Aims, Pricing, Unpacking
        <3> QED
            BY <1>1, <2>1, <3>1 DEF CommitBasket, Same
    <2>2. CASE ~CommitBasket(r)
        BY <1>0, <1>1, <2>2, BasketsStay
    <2> QED
        BY <2>1, <2>2
<1>2. ASSUME pc[q] \in {"planPrices", "move", "commitMove"}, NEW i \in Chosen(q)'
      PROVE  i \in Chosen(q) /\ item'[i].key = item[i].key
    <2>1. /\ i \in call[q].items /\ i \in DOMAIN item' /\ ~item'[i].returned
          /\ item'[i].basket \in DOMAIN basket' /\ Home(i)'.user = call[q].user
        BY <1>0 DEF Chosen, MyLive, MyItems, Mine, Live, Claimed, Shown, Home
    <2>2. i \in DOMAIN item
        <3>1. CASE pc[q] = "commitMove"
            BY <2>1, <3>1 DEF CInv, IInv, Holding
        <3>2. CASE pc[q] # "commitMove"
            BY <1>2, <2>1, <3>2 DEF Arrives
        <3> QED
            BY <3>1, <3>2
    <2> QED
        BY <2>1, <2>2, WhatComes, ChosenMeans DEF ForeignKey
<1>3. ASSUME pc[q] \in {"move", "commitMove"}, NEW j \in MyPacked(q)'
      PROVE  j \in MyPacked(q) /\ item'[j].key = item[j].key
    <2>1. PICK u, p : u = call[q].user /\ p = frame[q].plan
        OBVIOUS
    <2>2. MyPacked(q) = Packed(basket, item, u, p) /\ MyPacked(q)' = Packed(basket, item, u, p)'
        BY <1>0, <2>1 DEF MyPacked
    <2>3. pc[r] = "commitMove" => <<u, p>> # PriceSlot(r)
        BY <1>0, <1>3, <2>1 DEF LocksHeld, Pricing, PriceSlot
    <2> QED
        BY <1>3, <2>2, <2>3, PackedStays
<1>4. Priced(q) /\ pc'[q] = pc[q] /\ frame'[q] = frame[q] /\ call' = call
    BY <1>0
<1> QED
    BY <1>1, <1>2, <1>3, <1>4 DEF Priced, Same

\* What the request itself finds out.
LEMMA OwnPriced ==
    ASSUME TypeOK, PriceInv, NEW r \in Requests, Step(r) \/ Abort(r)
    PROVE  Priced(r)'
<1>0. Priced(r)
    BY DEF PriceInv
<1>1. CASE pc'[r] \in Pricing
    <2>1. UNCHANGED <<tables, call, frame>>
        BY <1>1, EntersPricing
    <2>2. /\ basket' = basket /\ call' = call /\ frame' = frame /\ item' = item
          /\ Chosen(r)' = Chosen(r) /\ MyPacked(r)' = MyPacked(r)
        BY <2>1 DEF tables, Chosen, MyLive, MyItems, Mine, Live, Home, MyPacked
    <2>3. pc[r] \in Pricing \cup {"priceLock"} /\ pc'[r] \notin Unpacking
        BY <1>1, EntersPricing DEF Pricing, Unpacking
    <2>4. CASE pc'[r] = "chosen"
        BY <1>0, <2>2, <2>3, <2>4 DEF Priced
    <2>5. CASE pc'[r] = "planPrices"
        <3>1. \A i, j \in Chosen(r) : ~Clash(item[i].key, item[j].key)
            <4>1. CheckChosen(r) /\ pc'[r] # "done"
                BY <1>1, <2>5, EntersPricing
            <4> QED
                BY <4>1, Where DEF CheckChosen, Return
        <3> QED
            BY <1>0, <2>2, <2>3, <2>5, <3>1 DEF Priced
    <2>6. CASE pc'[r] = "move"
        <3>1. CheckPlanPrices(r) /\ pc[r] = "planPrices" /\ pc'[r] # "done"
            BY <1>1, <2>6, EntersPricing
        <3>2. \A i \in Chosen(r), j \in MyLive(r) \ call[r].items :
                 Home(j).plan = frame[r].plan => ~Clash(item[i].key, item[j].key)
            BY <3>1, Where DEF CheckPlanPrices, Return
        <3>3. \A j \in MyPacked(r) : j \in MyLive(r) /\ Home(j).plan = frame[r].plan
            BY PackedMeans, LiveMeans DEF MyPacked, MyLive, MyItems, Mine, Shown
        <3> QED
            BY <1>0, <2>2, <2>3, <2>6, <3>1, <3>2, <3>3 DEF Priced
    <2>7. CASE pc'[r] = "commitMove"
        <3>1. pc[r] = "move"
            BY <1>1, <2>7, EntersPricing
        <3> QED
            BY <1>0, <2>2, <2>3, <2>7, <3>1 DEF Priced
    <2> QED
        BY <1>1, <2>4, <2>5, <2>6, <2>7 DEF Pricing
<1>2. CASE pc'[r] = "priceLock"
    <2>1. CheckTarget(r) /\ ~Done(r)
        BY <1>2, WhoLocks, Where
    <2>2. /\ IsMine(r, call[r].basket) /\ ~basket[call[r].basket].temp
          /\ frame' = [frame EXCEPT ![r].plan = basket[call[r].basket].plan]
          /\ UNCHANGED <<tables, call>>
        BY <2>1 DEF CheckTarget, Return
    <2>3. frame'[r].plan = basket[call[r].basket].plan
        BY <2>2 DEF TypeOK, Locals
    <2> QED
        BY <1>2, <2>2, <2>3 DEF Priced, tables, Unpacking
<1>3. CASE pc'[r] \in Unpacking
    <2>1. /\ basket' = basket /\ call' = call
          /\ call[r].basket \in DOMAIN basket => basket[call[r].basket].temp
        BY <1>0, <1>3, EntersUnpacking DEF Priced, tables
    <2>2. pc'[r] \notin Pricing \cup {"priceLock"}
        BY <1>3 DEF Pricing, Unpacking
    <2> QED
        BY <2>1, <2>2 DEF Priced, Pricing
<1>4. CASE pc'[r] \notin Pricing \cup {"priceLock"} \cup Unpacking
    BY <1>4 DEF Priced, Pricing
<1> QED
    BY <1>1, <1>2, <1>3, <1>4

LEMMA NextPriceInv ==
    ASSUME CInv, PriceInv, ForeignKey, ForeignKey', [Next]_vars,
           [\A i \in DOMAIN item' \ DOMAIN item : Arrives(i)]_vars
    PROVE  PriceInv'
<1>1. CASE UNCHANGED vars
    <2>1. LocksHeld' /\ OnePricePerPlan'
        BY <1>1 DEF PriceInv, LocksHeld, Slot, PriceSlot, OnePricePerPlan, vars, tables, locks
    <2>2. /\ basket' = basket /\ item' = item /\ call' = call /\ frame' = frame /\ pc' = pc
          /\ \A q : Chosen(q)' = Chosen(q) /\ MyPacked(q)' = MyPacked(q)
        BY <1>1 DEF vars, tables, Chosen, MyLive, MyItems, Mine, Live, Home, MyPacked
    <2> QED
        BY <2>1, <2>2 DEF PriceInv, Priced
<1>2. CASE ~UNCHANGED vars
    <2>1. PICK r \in Requests : Step(r) \/ Abort(r)
        BY <1>2 DEF Next
    <2>2. TypeOK /\ \A i \in DOMAIN item' \ DOMAIN item : Arrives(i)
        BY <1>2 DEF CInv, IInv
    <2>3. LocksHeld' /\ OnePricePerPlan'
        BY <2>1, <2>2, StepLocksHeld, StepOnePrice DEF PriceInv
    <2>4. \A q \in Requests : Priced(q)'
        BY <2>1, <2>2, OthersPriced, OwnPriced
    <2> QED
        BY <2>3, <2>4 DEF PriceInv
<1> QED
    BY <1>1, <1>2

\* A plan pays one price for a code, however many requests pack and unpack items of it at
\* the same time: as long as no basket goes that has items, orders are posted to temporary
\* baskets, whose prices nobody looks at, and nobody guesses the number of an item to come.
THEOREM PlanPrices == Spec /\ []ForeignKey /\ PostedToTemp => []OnePricePerPlan
<1>1. Init => PriceInv
    <2> SUFFICES ASSUME Init PROVE PriceInv
        OBVIOUS
    <2>1. OnePricePerPlan
        BY StoreAssumption DEF Init, OnePricePerPlan
    <2>2. ASSUME NEW q \in Requests PROVE pc[q] \notin Pricing \cup {"priceLock"} \cup Unpacking
        <3>1. call[q].kind \in Kinds
            BY StoreAssumption DEF Init, Call
        <3> QED
            BY <3>1 DEF Init, FirstStep, Kinds, Pricing, Unpacking
    <2> QED
        BY <2>1, <2>2, InitLocksHeld DEF PriceInv, Priced, Pricing
<1>2. /\ CInv /\ PriceInv /\ ForeignKey /\ ForeignKey' /\ [Next]_vars
      /\ [\A i \in DOMAIN item' \ DOMAIN item : Arrives(i)]_vars
      => PriceInv'
    BY NextPriceInv
<1>3. PriceInv => OnePricePerPlan
    BY DEF PriceInv
<1> QED
    BY <1>1, <1>2, <1>3, ClaimsInductive, PTL DEF Spec, PostedToTemp
=============================================================================
