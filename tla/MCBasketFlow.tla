---------------------------- MODULE MCBasketFlow ----------------------------
(* Small instances of BasketFlow. *)
EXTENDS BasketFlow, TLC

CONSTANTS u1, u2, p1, p2, a, n1, n2, k1, k2, k3, k4, code, b1, b2, b3, b4, b5, i1, i2, i3

MCUsers == {u1, u2}
MCPlans == {p1, p2}
MCTypes == {a, Inbox}
MCNames == {n1, n2}
MCKeys  == {k1, k2, k3, k4}

\* k1 and k2 are orders of one code at two prices, k3 and k4 of no code.
MCCode  == (k1 :> code) @@ (k2 :> code) @@ (k3 :> Blank) @@ (k4 :> Blank)
MCPrice == (k1 :> 1) @@ (k2 :> 2) @@ (k3 :> 1) @@ (k4 :> 2)

Row(user, plan, type, name, number, temp) ==
    [user |-> user, plan |-> plan, type |-> type, name |-> name, number |-> number,
     temp |-> temp, valid |-> FALSE]
In(b, key) == [basket |-> b, key |-> key, returned |-> FALSE]

Blanks == [kind |-> "Validate", user |-> u1, plan |-> p1, type |-> None, newType |-> None,
           name |-> n1, temp |-> FALSE, basket |-> None, items |-> {}, key |-> k1,
           baskets |-> {}]

Create(user, plan, name, temp) ==
    [Blanks EXCEPT !.kind = "PostBasket", !.user = user, !.plan = plan, !.type = a,
                   !.name = name, !.temp = temp]
Post(user, b, key)    == [Blanks EXCEPT !.kind = "PostItem", !.user = user, !.basket = b, !.key = key]
Take(kind, user, S, b) == [Blanks EXCEPT !.kind = kind, !.user = user, !.items = S, !.basket = b]
Delete(user, b, type)  == [Blanks EXCEPT !.kind = "DeleteBasket", !.user = user, !.basket = b, !.type = type]

\* Two baskets of one user and one of another, an order in the first; and nothing.
BasketStores ==
    {[basket |-> (b1 :> Row(u1, p1, a, n1, 1, FALSE)) @@ (b2 :> Row(u1, p1, a, n2, 2, FALSE))
                 @@ (b3 :> Row(u2, p1, a, n1, 1, TRUE)),
      item |-> i1 :> In(b1, k1)],
     [basket |-> <<>>, item |-> <<>>]}

BasketCalls ==
    {Create(u1, p1, n1, TRUE), Create(u1, p2, n1, TRUE), Create(u1, p1, n1, FALSE),
     Create(u2, p1, n1, FALSE), Delete(u1, b1, None), Delete(u1, None, None),
     Delete(u1, None, a), Blanks, Post(u1, b1, k1), Post(u1, b2, k1), Post(u2, b3, k1)}

\* The temporary basket of a user with two orders of one code, the inbox of a plan
\* with one more and a basket; a basket and the temporary basket of another user.
PackingStores ==
    {[basket |-> (b1 :> Row(u1, p2, a, n1, 1, TRUE)) @@ (b2 :> Row(u1, p1, Inbox, n1, 1, FALSE))
                 @@ (b3 :> Row(u1, p1, a, n2, 1, FALSE)) @@ (b4 :> Row(u2, p1, a, n1, 1, FALSE))
                 @@ (b5 :> Row(u2, p1, a, n1, 2, TRUE)),
      item |-> (i1 :> In(b1, k1)) @@ (i2 :> In(b1, k2)) @@ (i3 :> In(b2, k3))]}

PackingCalls ==
    {Take("Move", u1, {i1}, b3), Take("Move", u1, {i2}, b2), Take("Move", u1, {i1, i2}, b3),
     Take("Move", u1, {i1, i3}, b3), Take("Move", u1, {i1}, b4),
     Take("Unpack", u1, {i1}, b1), Take("Unpack", u1, {i3}, b1),
     Take("Return", u1, {i1}, None), Take("Return", u1, {i1, i3}, None),
     Take("DeleteItem", u1, {i1}, None), Post(u2, b5, k1), Post(u1, b1, k4),
     Delete(u1, b3, None), Delete(u1, b1, None), [Blanks EXCEPT !.kind = "PostTender", !.baskets = {b2}],
     [Blanks EXCEPT !.kind = "Suspend"],
     [Blanks EXCEPT !.kind = "UpdateBasket", !.type = a, !.newType = Inbox],
     [Blanks EXCEPT !.kind = "UpdateBasket", !.basket = b3, !.name = n1]}

\* An unpacking, and a tender for the basket.
RaceCalls == {Take("Unpack", u1, {i3}, b1), [Blanks EXCEPT !.kind = "PostTender", !.baskets = {b2}]}

Symmetry == Permutations(Requests)
=============================================================================
