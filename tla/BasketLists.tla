----------------------------- MODULE BasketLists -----------------------------
(***************************************************************************)
(* Baskets with their orders: GetAll.go and GetAllValid.go, which group    *)
(* the rows of one query while they read them, and the other readers of    *)
(* the same rows.  A group keeps its baskets in a slice, and a map keeps a *)
(* pointer to each basket in that slice.  A slice that outgrows its array  *)
(* is copied to a larger one; pointers into the former array stay there.   *)
(***************************************************************************)
EXTENDS ReadTables

\* The sizes of the arrays that append gives: a slice of so many baskets needs a larger one.
CONSTANT Capacities

ASSUME CapacityAssumption == Capacities \subseteq Nat

\* GetItems, GetAll: the orders that are not returned, of baskets that are there.
Joined == {i \in DOMAIN item : ~item[i].returned /\ item[i].basket \in DOMAIN basket}

\* GetBasketItemsById: those of the baskets that the client names.
ItemsOfBaskets(ids) == {i \in Joined : item[i].basket \in ids}

\* GetAllValid: those of valid baskets.
JoinedValid == {i \in Joined : basket[item[i].basket].valid}

BasketOf(i) == basket[item[i].basket]

\* ORDER BY plan, type, identifier.
BeforeByItem(i, j) ==
    \/ BasketOf(i).plan < BasketOf(j).plan
    \/ BasketOf(i).plan = BasketOf(j).plan /\ i < j
Before(i, j) ==
    LET p == BasketOf(i)  q == BasketOf(j) IN
    \/ p.plan < q.plan
    \/ p.plan = q.plan /\ p.type < q.type
    \/ p.plan = q.plan /\ p.type = q.type /\ i < j

-----------------------------------------------------------------------------
\* The memory of a reader.  group[k] are the arrays the slice of group k has had, the last
\* of them its present one; place[b] is where the pointer to basket b points.
NoRows == [group |-> [k \in {} |-> <<>>], place |-> [b \in {} |-> <<>>]]

\* A full slice is copied to the beginning of a larger array.
Appended(arrays, entry) ==
    IF arrays = <<>> THEN <<<<entry>>>>
    ELSE IF Len(Last(arrays)) \in Capacities
         THEN Append(arrays, Append(Last(arrays), entry))
         ELSE [arrays EXCEPT ![Len(arrays)] = Append(@, entry)]

AddBasket(m, k, b) ==
    IF b \in DOMAIN m.place THEN m
    ELSE LET arrays == Appended(IF k \in DOMAIN m.group THEN m.group[k] ELSE <<>>,
                                [basket |-> b, items |-> <<>>])
             here   == [key |-> k, array |-> Len(arrays), slot |-> Len(Last(arrays))]
         IN [group |-> Inserted(m.group, k, arrays), place |-> Inserted(m.place, b, here)]

AddItem(m, b, i) ==
    LET at == m.place[b] IN
    [m EXCEPT !.group[at.key][at.array][at.slot].items = Append(@, i)]

\* One turn of the loop over the rows.  A row that cannot be scanned, which the loop leaves
\* out, and an error that ends the rows early are not modelled: no write makes such a row.
ReadRow(m, k, i) == AddItem(AddBasket(m, k, item[i].basket), item[i].basket, i)

\* The rows come in order: the memory after some of them have been read, each into the
\* group that key names.
LastRow(R) == CHOOSE i \in R : \A j \in R \ {i} : Before(j, i)

Reading(S, key) ==
    LET memory[R \in SUBSET S] ==
            IF R = {} THEN NoRows
            ELSE ReadRow(memory[R \ {LastRow(R)}], key[LastRow(R)], LastRow(R))
    IN memory[S]

KeyOfAll   == [i \in Joined |-> <<BasketOf(i).plan, BasketOf(i).user>>]
KeyOfValid == [i \in JoinedValid |-> BasketOf(i).plan]

\* What is answered: of each group the present array.
Lists(m) == [k \in DOMAIN m.group |-> Last(m.group[k])]

AllLists   == Lists(Reading(Joined, KeyOfAll))
ValidLists == Lists(Reading(JoinedValid, KeyOfValid))

-----------------------------------------------------------------------------
\* GetBasketWithTotalPrice: the price of a basket.
PricedItems(b) == {i \in DOMAIN item : item[i].basket = b /\ ~item[i].returned}
TotalPrice(b)  == Sum([i \in DOMAIN item |-> item[i].price], PricedItems(b))

-----------------------------------------------------------------------------
\* The entries of basket b in an answer.
Entries(lists, b) == {x \in UNION {{k} \X DOMAIN lists[k] : k \in DOMAIN lists} :
                          lists[x[1]][x[2]].basket = b}

\* No other basket of b's group has its type, so that the query reads the orders of b
\* without those of another in between.
Apart(S, key, b) ==
    \A i, j \in S : item[i].basket = b /\ item[j].basket # b /\ key[i] = key[j]
        => BasketOf(i).type # BasketOf(j).type

\* The rows of a group up to the order i, and how many baskets they are of.
RowsTo(S, key, i) == {j \in S : key[j] = key[i] /\ (j = i \/ Before(j, i))}
Count(S, key, i)  == Cardinality({item[j].basket : j \in RowsTo(S, key, i)})

\* The array that the first row of i's basket was put in has been outgrown when i is read.
Outgrown(S, key, i) ==
    \E f \in RowsTo(S, key, i) : /\ item[f].basket = item[i].basket
                                 /\ \E n \in Capacities : Count(S, key, f) <= n /\ n < Count(S, key, i)

Whole(lists, S, key) ==
    \A i \in S :
        /\ Cardinality(Entries(lists, item[i].basket)) = 1
        /\ \A x \in Entries(lists, item[i].basket) :
              LET listed == lists[x[1]][x[2]].items IN
              /\ x[1] = key[i] /\ IsInjective(listed)
              /\ Range(listed) \subseteq ItemsOfBaskets({item[i].basket})
              /\ i \in Range(listed) <=> ~Outgrown(S, key, i)
              /\ Apart(S, key, item[i].basket) => i \in Range(listed)

\* Every basket is listed once, in its own group, with orders of its own, each once.  Lost
\* are the orders that are read when the array of the slice has been outgrown since the
\* first order of their basket (GetAll.go:264, GetAllValid.go:183), and no others; none is,
\* if no other basket of the group has the basket's type.
ListsWhole == Whole(AllLists, Joined, KeyOfAll) /\ Whole(ValidLists, JoinedValid, KeyOfValid)
=============================================================================
