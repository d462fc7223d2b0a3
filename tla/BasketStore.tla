---------------------------- MODULE BasketStore ----------------------------
(***************************************************************************)
(* The tables in which staff collect orders: baskets, their items, and     *)
(* what a tender says of its baskets; with the requests that work on them  *)
(* and their locks.  Requests, statements, commits and the isolation level *)
(* are those of TenderStore: one step per SQL statement, rows of an open   *)
(* transaction unseen by others until its commit.                          *)
(*                                                                         *)
(* A row inserted by a request is named after it.                          *)
(***************************************************************************)
EXTENDS Naturals, FiniteSets

CONSTANTS
    Users, Plans,
    Types,        \* basket types
    Inbox,        \* the type PLAN_INBOX
    Names,        \* basket names, up to case and surrounding blanks
    Keys,         \* orders, as the ten columns that identify one
    Code, Price,  \* two of those columns
    Hidden,       \* orders whose columns read otherwise in the table than in a call, by a
                  \* leading blank or a number's form, so that a search does not find them
    Blank,        \* the empty code
    OldBaskets, OldItems,  \* rows that precede the behaviour
    Stores,       \* the pairs of tables it may start from
    Requests,
    Calls,        \* what a request may ask for
    None

BasketIds == OldBaskets \cup Requests
ItemIds   == OldItems \cup Requests

Kinds == {"PostBasket", "UpdateBasket", "DeleteBasket", "Validate", "PostItem", "Move",
          "Unpack", "Return", "DeleteItem", "PostTender", "Suspend"}

\* What puts items into a basket; no identifier is a basket that is not there.
Filling == {"PostItem", "Move", "Unpack"}

\* A number of 0 stands for a text that is no number, the type None for the empty text.
BasketRow == [user : Users, plan : Plans, type : Types \cup {None}, name : Names, number : Nat,
              temp : BOOLEAN, valid : BOOLEAN]
ItemRow   == [basket : BasketIds, key : Keys, returned : BOOLEAN]

\* baskets is Basket_Ids; open: neither deleted nor suspended.
TenderRow == [baskets : SUBSET BasketIds, open : BOOLEAN]

\* One shape for every call; a kind ignores the fields it has no use for.
Call == [kind : Kinds, user : Users, plan : Plans, type : Types \cup {None},
         newType : Types \cup {None}, name : Names, temp : BOOLEAN,
         basket : BasketIds \cup {None}, items : SUBSET ItemIds, key : Keys,
         baskets : SUBSET BasketIds]

FirstStep == [PostBasket |-> "lock", UpdateBasket |-> "rename", DeleteBasket |-> "drop",
              Validate |-> "validate", PostItem |-> "owned", Move |-> "target",
              Unpack |-> "temp", Return |-> "return", DeleteItem |-> "dropItem",
              PostTender |-> "tender", Suspend |-> "suspend"]

Pc == {"lock", "findTemp", "name", "number", "insert", "commitBasket", "rename", "drop",
       "validate", "owned", "claim", "insertItem", "commitItem", "target", "priceLock",
       "chosen", "planPrices", "move", "commitMove", "temp", "packed", "tendered", "unpack",
       "commitUnpack", "return", "notify", "dropItem", "tender", "suspend", "done"}

Locals == [number : Nat, plan : Plans \cup {None}]

VARIABLES
    basket,      \* Basket rows
    item,        \* BasketItems rows
    tender,      \* Tender rows, by the request that inserted them
    notices,     \* requests that left an order_returned notification
    call, pc, frame,
    basketLock,  \* owner of the application lock TenderBasket:<user>:<plan>
    priceLock,   \* owner of TenderPlanPrice:<user>:<plan>
    claimLock,   \* owner of the range locks over BasketItems (UPDLOCK, HOLDLOCK)
    itemLock     \* owner of the X lock on an item

tables == <<basket, item, tender, notices>>
locks  == <<basketLock, priceLock, claimLock, itemLock>>
vars   == <<tables, call, pc, frame, locks>>

-----------------------------------------------------------------------------
(* Reading a pair of tables b and i. *)

\* The joins of item and basket lose an item whose basket is gone.
Shown(b, i)   == {x \in DOMAIN i : i[x].basket \in DOMAIN b}
Claimed(b, i) == {x \in Shown(b, i) : ~i[x].returned}

\* At most one temporary basket of a user: the unique index of migration 001.
OneTemp(b) == \A x, y \in DOMAIN b : b[x].temp /\ b[y].temp /\ b[x].user = b[y].user => x = y

\* An order is claimed at most once, if a search finds it.
OneClaim(b, i) ==
    \A x, y \in Claimed(b, i) : i[x].key = i[y].key /\ i[x].key \notin Hidden => x = y

\* The packed items of a user's plan: what its baskets hold, but for the temporary.
Packed(b, i, u, p) ==
    {x \in Claimed(b, i) : LET row == b[i[x].basket] IN row.user = u /\ row.plan = p /\ ~row.temp}

Clash(k, l) == Code[k] # Blank /\ Code[k] = Code[l] /\ Price[k] # Price[l]

\* One price per code in a user's plan.
OnePrice(b, i) ==
    \A u \in Users, p \in Plans : \A x, y \in Packed(b, i, u, p) : ~Clash(i[x].key, i[y].key)

ASSUME StoreAssumption ==
    /\ Inbox \in Types
    /\ DOMAIN Code = Keys /\ Price \in [Keys -> Nat]
    /\ (OldBaskets \cup OldItems) \cap Requests = {}
    /\ None \notin Users \cup Plans \cup Types \cup BasketIds \cup ItemIds
    /\ Calls \subseteq Call
    /\ \A c \in Calls : c.kind \in Filling => c.basket # None
    /\ \A s \in Stores :
          /\ DOMAIN s.basket \subseteq OldBaskets /\ s.basket \in [DOMAIN s.basket -> BasketRow]
          /\ DOMAIN s.item \subseteq OldItems /\ s.item \in [DOMAIN s.item -> ItemRow]
          /\ \A i \in DOMAIN s.item : s.item[i].basket \in OldBaskets
          /\ OneTemp(s.basket) /\ OneClaim(s.basket, s.item) /\ OnePrice(s.basket, s.item)

NoFrame == [number |-> 0, plan |-> None]

Init ==
    /\ \E s \in Stores : basket = s.basket /\ item = s.item
    /\ tender = [t \in {} |-> None]
    /\ notices = {}
    /\ call \in [Requests -> Calls]
    /\ pc = [r \in Requests |-> FirstStep[call[r].kind]]
    /\ frame = [r \in Requests |-> NoFrame]
    /\ basketLock = [s \in Users \X Plans |-> None]
    /\ priceLock = [s \in Users \X Plans |-> None]
    /\ claimLock = None
    /\ itemLock = [i \in ItemIds |-> None]

TypeOK ==
    /\ DOMAIN basket \subseteq BasketIds /\ basket \in [DOMAIN basket -> BasketRow]
    /\ DOMAIN item \subseteq ItemIds /\ item \in [DOMAIN item -> ItemRow]
    /\ DOMAIN tender \subseteq Requests /\ tender \in [DOMAIN tender -> TenderRow]
    /\ notices \subseteq Requests
    /\ call \in [Requests -> Calls]
    /\ pc \in [Requests -> Pc]
    /\ frame \in [Requests -> Locals]
    /\ basketLock \in [Users \X Plans -> Requests \cup {None}]
    /\ priceLock \in [Users \X Plans -> Requests \cup {None}]
    /\ claimLock \in Requests \cup {None}
    /\ itemLock \in [ItemIds -> Requests \cup {None}]

-----------------------------------------------------------------------------
Live(i)  == i \in Claimed(basket, item)
Home(i)  == basket[item[i].basket]
Adding(q) == pc[q] = "commitBasket"    \* its basket is inserted, not committed

\* The lock an application lock table gives to r.
Taken(lock, s, r) == [lock EXCEPT ![s] = r]
Dropped(lock, r)  == [s \in DOMAIN lock |-> IF lock[s] = r THEN None ELSE lock[s]]

\* Reading items waits for those another transaction has changed, changing them for
\* every range lock too.
Readable(S, r) == \A i \in S : itemLock[i] \in {None, r}
Writable(S, r) == Readable(S, r) /\ claimLock \in {None, r}

Goto(r, from, to) == pc[r] = from /\ pc' = [pc EXCEPT ![r] = to]

\* The handler has returned; its transaction and its locks are over.
Done(r) ==
    /\ pc' = [pc EXCEPT ![r] = "done"]
    /\ frame' = [frame EXCEPT ![r] = NoFrame]
    /\ basketLock' = Dropped(basketLock, r)
    /\ priceLock' = Dropped(priceLock, r)
    /\ claimLock' = IF claimLock = r THEN None ELSE claimLock
    /\ itemLock' = Dropped(itemLock, r)
    /\ UNCHANGED call

\* A plausible slip: no deferred tx.Rollback.
ReturnWithoutRollback(r) ==
    /\ pc' = [pc EXCEPT ![r] = "done"]
    /\ UNCHANGED <<call, frame, locks>>

\* An early return: the deferred tx.Rollback throws the write set away.
Return(r) == Done(r)
=============================================================================
