------------------------------ MODULE ReadTables ------------------------------
(***************************************************************************)
(* The rows that the read side shows, and what other requests do to them   *)
(* between the statements of a reader.  How those requests come to do it   *)
(* is the subject of the other groups.                                     *)
(***************************************************************************)
EXTENDS Naturals, SequencesExt

CONSTANTS
    Branches,
    Stores,     \* rows that precede the behaviour: [basket, item, tender, geree]
    NewItems, NewTenders, NewGerees,   \* rows that may be inserted, by their identifiers
    MaxWrites   \* bound on the changes of the tables

\* The steps of an order before it is tendered, as they follow each other.
ItemSteps == <<"created_by_company", "sent_to_department", "department_to_nh",
               "nh_assigned", "planned_by_specialist">>

\* The columns of each table that a reader shows, groups by or tests.
BasketRow == [user : Nat, plan : Nat, type : Nat, valid : BOOLEAN]
ItemRow   == [basket : Nat, dates : SUBSET Range(ItemSteps), arrived : BOOLEAN,
              returned : BOOLEAN, branch : Branches, price : Nat, year : Nat]
TenderRow == [baskets : SUBSET Nat, plan : Nat, root : BOOLEAN, deleted : BOOLEAN,
              branches : SUBSET Branches, budget : Nat, successful : BOOLEAN,
              suspended : BOOLEAN, year : Nat]
GereeRow  == [tender : Nat, baskets : SUBSET Nat, amount : Nat, year : Nat]

IsTable(t, Row) ==
    /\ DOMAIN t \subseteq Nat /\ IsFiniteSet(DOMAIN t)
    /\ \A x \in DOMAIN t : t[x] \in Row

\* An INSERT of one row, and SUM over some rows of one column.
Inserted(t, k, row) == [x \in DOMAIN t \cup {k} |-> IF x = k THEN row ELSE t[x]]
Sum(f, S) == MapThenSumSet(LAMBDA x : f[x], S)

ASSUME ReadAssumption ==
    /\ \A s \in Stores : /\ IsTable(s.basket, BasketRow) /\ IsTable(s.item, ItemRow)
                         /\ IsTable(s.tender, TenderRow) /\ IsTable(s.geree, GereeRow)
                         /\ \A g \in DOMAIN s.geree : s.geree[g].tender \in DOMAIN s.tender
    /\ IsTable(NewItems, ItemRow) /\ IsTable(NewTenders, TenderRow) /\ IsTable(NewGerees, GereeRow)
    /\ IsFiniteSet(Branches) /\ MaxWrites \in Nat

VARIABLES basket, item, tender, geree,
          writes   \* how many changes there have been

tables == <<basket, item, tender, geree, writes>>

InitTables ==
    /\ \E s \in Stores : basket = s.basket /\ item = s.item /\ tender = s.tender /\ geree = s.geree
    /\ writes = 0

-----------------------------------------------------------------------------
\* Statements that only add.
Arrive(i) ==
    /\ i \in DOMAIN item /\ ~item[i].arrived
    /\ item' = [item EXCEPT ![i].arrived = TRUE]
    /\ UNCHANGED <<basket, tender, geree>>

InsertItem(i) ==
    /\ i \in DOMAIN NewItems \ DOMAIN item
    /\ item' = Inserted(item, i, NewItems[i])
    /\ UNCHANGED <<basket, tender, geree>>

InsertTender(t) ==
    /\ t \in DOMAIN NewTenders \ DOMAIN tender
    /\ tender' = Inserted(tender, t, NewTenders[t])
    /\ UNCHANGED <<basket, item, geree>>

InsertGeree(g) ==
    /\ g \in DOMAIN NewGerees \ DOMAIN geree
    /\ NewGerees[g].tender \in DOMAIN tender
    /\ ~tender[NewGerees[g].tender].deleted /\ ~tender[NewGerees[g].tender].suspended
    /\ geree' = Inserted(geree, g, NewGerees[g])
    /\ UNCHANGED <<basket, item, tender>>

\* Statements that take something back.
Unarrive(i) ==
    /\ i \in DOMAIN item /\ item[i].arrived
    /\ item' = [item EXCEPT ![i].arrived = FALSE]
    /\ UNCHANGED <<basket, tender, geree>>

ReturnItem(i) ==
    /\ i \in DOMAIN item /\ ~item[i].returned
    /\ item' = [item EXCEPT ![i].returned = TRUE]
    /\ UNCHANGED <<basket, tender, geree>>

MoveItem(i) ==
    /\ i \in DOMAIN item /\ ~item[i].returned
    /\ \E b \in DOMAIN basket \ {item[i].basket} : item' = [item EXCEPT ![i].basket = b]
    /\ UNCHANGED <<basket, tender, geree>>

DeleteTender(t) ==
    /\ t \in DOMAIN tender /\ ~tender[t].deleted
    /\ \A g \in DOMAIN geree : geree[g].tender # t
    /\ tender' = [tender EXCEPT ![t].deleted = TRUE]
    /\ UNCHANGED <<basket, item, geree>>

Counted == writes < MaxWrites /\ writes' = writes + 1

Add ==
    /\ Counted
    /\ \/ \E i \in DOMAIN item : Arrive(i)
       \/ \E i \in DOMAIN NewItems : InsertItem(i)
       \/ \E t \in DOMAIN NewTenders : InsertTender(t)
       \/ \E g \in DOMAIN NewGerees : InsertGeree(g)

TakeBack ==
    /\ Counted
    /\ \/ \E i \in DOMAIN item : Unarrive(i) \/ ReturnItem(i) \/ MoveItem(i)
       \/ \E t \in DOMAIN tender : DeleteTender(t)
=============================================================================
