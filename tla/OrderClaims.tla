---------------------------- MODULE OrderClaims ----------------------------
(***************************************************************************)
(* What baskets promise of orders, each operation in one step: an order is *)
(* free or in one basket; a user takes free orders, moves orders between   *)
(* baskets of one's own and lets go of them, and nobody gets an order of   *)
(* another user's.                                                         *)
(***************************************************************************)
CONSTANTS Users, Keys, BasketIds, None

VARIABLES
    owner,   \* of each basket there is
    place    \* the basket an order is in, or None

Start ==
    /\ owner \in UNION {[B -> Users] : B \in SUBSET BasketIds}
    /\ place \in [Keys -> {None} \cup DOMAIN owner]

Open ==
    /\ \E b \in BasketIds \ DOMAIN owner, u \in Users :
          owner' = [x \in DOMAIN owner \cup {b} |-> IF x = b THEN u ELSE owner[x]]
    /\ UNCHANGED place

\* A user takes free orders and moves own ones, together, into one basket.  (An order whose
\* basket goes while it is moved is free until it arrives.)
Take ==
    /\ \E b \in DOMAIN owner : \E K \in SUBSET Keys :
          /\ \A k \in K : place[k] # None => owner[place[k]] = owner[b]
          /\ place' = [k \in Keys |-> IF k \in K THEN b ELSE place[k]]
    /\ UNCHANGED owner

Taken(u) == {k \in Keys : place[k] # None /\ owner[place[k]] = u}

\* Orders are returned or deleted, or moved into a basket that has just gone.
Release ==
    /\ \E u \in Users : \E K \in SUBSET Taken(u) :
          place' = [k \in Keys |-> IF k \in K THEN None ELSE place[k]]
    /\ UNCHANGED owner

\* Baskets of one user go, and the claims of their orders with them.
Close ==
    \E u \in Users : \E B \in SUBSET {b \in DOMAIN owner : owner[b] = u} :
        /\ owner' = [b \in DOMAIN owner \ B |-> owner[b]]
        /\ place' = [k \in Keys |-> IF place[k] \in B THEN None ELSE place[k]]

Step == Open \/ Take \/ Release \/ Close

Promise == Start /\ [][Step]_<<owner, place>>
=============================================================================
