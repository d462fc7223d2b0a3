---------------------------- MODULE ReadFlowProofs ----------------------------
(***************************************************************************)
(* Proofs about the read side, for any tables: two readers of the steps of *)
(* an order agree, the figures of the branches add up, answers put         *)
(* together from several statements lie between their first and last       *)
(* moment, and the lists of baskets are whole.                             *)
(***************************************************************************)
EXTENDS ReadFlow, SumLemmas, TLAPS

TablesOK ==
    /\ IsTable(basket, BasketRow) /\ IsTable(item, ItemRow)
    /\ IsTable(tender, TenderRow) /\ IsTable(geree, GereeRow)
    /\ \A g \in DOMAIN geree : geree[g].tender \in DOMAIN tender

\* What an addition leaves there: all rows, as they were, but that an order may arrive.
Grows ==
    /\ basket' = basket
    /\ DOMAIN item \subseteq DOMAIN item'
    /\ \A i \in DOMAIN item :
          /\ item'[i].basket = item[i].basket /\ item'[i].dates = item[i].dates
          /\ item'[i].returned = item[i].returned /\ item'[i].branch = item[i].branch
          /\ item'[i].price = item[i].price /\ item'[i].year = item[i].year
          /\ item[i].arrived => item'[i].arrived
    /\ DOMAIN tender \subseteq DOMAIN tender'
    /\ \A t \in DOMAIN tender : tender'[t] = tender[t]
    /\ DOMAIN geree \subseteq DOMAIN geree'
    /\ \A g \in DOMAIN geree : geree'[g] = geree[g]

\* A further row of its type in a table.
LEMMA FurtherRow ==
    ASSUME NEW Row, NEW t, IsTable(t, Row), NEW u, NEW k \in Nat, DOMAIN u = DOMAIN t \cup {k},
           u[k] \in Row, \A x \in DOMAIN t \ {k} : u[x] = t[x]
    PROVE  IsTable(u, Row)
<1>1. IsFiniteSet(DOMAIN t \cup {k})
    BY FS_AddElement DEF IsTable
<1> QED
    BY <1>1 DEF IsTable

\* Additions keep the types of the tables, and only add.
LEMMA AddGrows ==
    ASSUME TablesOK, Add
    PROVE  TablesOK' /\ Grows
<1>1. ASSUME NEW i \in DOMAIN item, Arrive(i) PROVE TablesOK' /\ Grows
    <2>1. /\ item' = [item EXCEPT ![i].arrived = TRUE] /\ item[i] \in ItemRow
          /\ UNCHANGED <<basket, tender, geree>>
        BY <1>1 DEF Arrive, TablesOK, IsTable
    <2>2. [item[i] EXCEPT !.arrived = TRUE] \in ItemRow
        BY <2>1 DEF ItemRow
    <2>3. /\ DOMAIN item' = DOMAIN item /\ item'[i] = [item[i] EXCEPT !.arrived = TRUE]
          /\ \A j \in DOMAIN item \ {i} : item'[j] = item[j]
        BY <2>1
    <2>4. TablesOK'
        BY <2>1, <2>2, <2>3 DEF TablesOK, IsTable
    <2>5. Grows
        BY <2>1, <2>3 DEF Grows, ItemRow
    <2> QED
        BY <2>4, <2>5
<1>2. ASSUME NEW i \in DOMAIN NewItems, InsertItem(i) PROVE TablesOK' /\ Grows
    <2>1. /\ item' = Inserted(item, i, NewItems[i]) /\ i \notin DOMAIN item
          /\ UNCHANGED <<basket, tender, geree>>
          /\ i \in Nat /\ NewItems[i] \in ItemRow /\ IsTable(item, ItemRow)
        BY <1>2, ReadAssumption DEF InsertItem, TablesOK, IsTable
    <2>2. /\ IsTable(item', ItemRow) /\ DOMAIN item' = DOMAIN item \cup {i}
          /\ \A x \in DOMAIN item \ {i} : item'[x] = item[x]
        <3>1. /\ DOMAIN item' = DOMAIN item \cup {i} /\ item'[i] = NewItems[i]
              /\ \A x \in DOMAIN item \ {i} : item'[x] = item[x]
            BY <2>1 DEF Inserted
        <3> QED
            BY <2>1, <3>1, FurtherRow
    <2> QED
        BY <2>1, <2>2 DEF TablesOK, IsTable, Grows
<1>3. ASSUME NEW t \in DOMAIN NewTenders, InsertTender(t) PROVE TablesOK' /\ Grows
    <2>1. /\ tender' = Inserted(tender, t, NewTenders[t]) /\ t \notin DOMAIN tender
          /\ UNCHANGED <<basket, item, geree>>
          /\ t \in Nat /\ NewTenders[t] \in TenderRow /\ IsTable(tender, TenderRow)
        BY <1>3, ReadAssumption DEF InsertTender, TablesOK, IsTable
    <2>2. /\ IsTable(tender', TenderRow) /\ DOMAIN tender' = DOMAIN tender \cup {t}
          /\ \A x \in DOMAIN tender \ {t} : tender'[x] = tender[x]
        <3>1. /\ DOMAIN tender' = DOMAIN tender \cup {t} /\ tender'[t] = NewTenders[t]
              /\ \A x \in DOMAIN tender \ {t} : tender'[x] = tender[x]
            BY <2>1 DEF Inserted
        <3> QED
            BY <2>1, <3>1, FurtherRow
    <2> QED
        BY <2>1, <2>2 DEF TablesOK, IsTable, Grows
<1>4. ASSUME NEW g \in DOMAIN NewGerees, InsertGeree(g) PROVE TablesOK' /\ Grows
    <2>1. /\ geree' = Inserted(geree, g, NewGerees[g]) /\ g \notin DOMAIN geree
          /\ UNCHANGED <<basket, item, tender>> /\ NewGerees[g].tender \in DOMAIN tender
          /\ g \in Nat /\ NewGerees[g] \in GereeRow /\ IsTable(geree, GereeRow)
        BY <1>4, ReadAssumption DEF InsertGeree, TablesOK, IsTable
    <2>2. /\ IsTable(geree', GereeRow) /\ DOMAIN geree' = DOMAIN geree \cup {g}
          /\ \A x \in DOMAIN geree \ {g} : geree'[x] = geree[x]
          /\ geree'[g] = NewGerees[g]
        <3>1. /\ DOMAIN geree' = DOMAIN geree \cup {g} /\ geree'[g] = NewGerees[g]
              /\ \A x \in DOMAIN geree \ {g} : geree'[x] = geree[x]
            BY <2>1 DEF Inserted
        <3> QED
            BY <2>1, <3>1, FurtherRow
    <2> QED
        BY <2>1, <2>2 DEF TablesOK, IsTable, Grows
<1> QED
    BY <1>1, <1>2, <1>3, <1>4 DEF Add

\* So do the statements that take something back.
LEMMA TakeBackTyped ==
    ASSUME TablesOK, TakeBack
    PROVE  TablesOK'
<1>1. ASSUME NEW i \in DOMAIN item, NEW r \in ItemRow, item' = [item EXCEPT ![i] = r],
             UNCHANGED <<basket, tender, geree>>
      PROVE  TablesOK'
    BY <1>1 DEF TablesOK, IsTable
<1>2. ASSUME NEW i \in DOMAIN item, Unarrive(i) \/ ReturnItem(i) \/ MoveItem(i) PROVE TablesOK'
    <2>1. item[i] \in ItemRow /\ DOMAIN basket \subseteq Nat
        BY DEF TablesOK, IsTable
    <2>2. CASE Unarrive(i)
        <3>1. [item[i] EXCEPT !.arrived = FALSE] \in ItemRow
            BY <2>1 DEF ItemRow
        <3> QED
            BY <1>1, <2>2, <3>1 DEF Unarrive
    <2>3. CASE ReturnItem(i)
        <3>1. [item[i] EXCEPT !.returned = TRUE] \in ItemRow
            BY <2>1 DEF ItemRow
        <3> QED
            BY <1>1, <2>3, <3>1 DEF ReturnItem
    <2>4. CASE MoveItem(i)
        <3>1. PICK b \in Nat : /\ item' = [item EXCEPT ![i].basket = b]
                               /\ UNCHANGED <<basket, tender, geree>>
            BY <2>1, <2>4 DEF MoveItem
        <3>2. [item[i] EXCEPT !.basket = b] \in ItemRow
            BY <2>1 DEF ItemRow
        <3> QED
            BY <1>1, <3>1, <3>2
    <2> QED
        BY <1>2, <2>2, <2>3, <2>4
<1>3. ASSUME NEW t \in DOMAIN tender, DeleteTender(t) PROVE TablesOK'
    <2>1. tender' = [tender EXCEPT ![t].deleted = TRUE] /\ UNCHANGED <<basket, item, geree>>
        BY <1>3 DEF DeleteTender
    <2>2. [tender[t] EXCEPT !.deleted = TRUE] \in TenderRow
        BY DEF TablesOK, IsTable, TenderRow
    <2> QED
        BY <2>1, <2>2 DEF TablesOK, IsTable
<1> QED
    BY <1>2, <1>3 DEF TakeBack

\* The tables keep their types.
LEMMA TablesTyped == Spec => []TablesOK
<1>1. Init => TablesOK
    BY ReadAssumption DEF Init, InitTables, TablesOK
<1>2. TablesOK /\ [Next]_vars => TablesOK'
    <2> SUFFICES ASSUME TablesOK, [Next]_vars PROVE TablesOK'
        OBVIOUS
    <2>1. CASE UNCHANGED tables
        BY <2>1 DEF tables, TablesOK, IsTable
    <2>2. UNCHANGED tables \/ Add \/ TakeBack
        BY DEF Next, vars
    <2> QED
        BY <2>1, <2>2, AddGrows, TakeBackTyped
<1> QED
    BY <1>1, <1>2, PTL DEF Spec

-----------------------------------------------------------------------------
(* The step of an order.                                                   *)

\* Where each step stands.
LEMMA Ranks ==
    /\ Rank("created_by_company") = 1 /\ Rank("sent_to_department") = 2
    /\ Rank("department_to_nh") = 3 /\ Rank("nh_assigned") = 4
    /\ Rank("planned_by_specialist") = 5 /\ Rank("tender_started") = 6
    /\ Rank("contract_signed") = 7 /\ Rank("delivered") = 8
<1>1. /\ DOMAIN StepOrder = 1..8
      /\ StepOrder[1] = "created_by_company" /\ StepOrder[2] = "sent_to_department"
      /\ StepOrder[3] = "department_to_nh" /\ StepOrder[4] = "nh_assigned"
      /\ StepOrder[5] = "planned_by_specialist" /\ StepOrder[6] = "tender_started"
      /\ StepOrder[7] = "contract_signed" /\ StepOrder[8] = "delivered"
    BY DEF StepOrder, ItemSteps
<1>2. \A n, m \in 1..8 : StepOrder[n] = StepOrder[m] => n = m
    BY <1>1
<1>3. \A n \in 1..8 : Rank(StepOrder[n]) = n
    BY <1>1, <1>2 DEF Rank
<1> QED
    BY <1>1, <1>3

Steps == {"created_by_company", "sent_to_department", "department_to_nh", "nh_assigned",
          "planned_by_specialist", "tender_started", "contract_signed", "delivered"}

\* The last step of a list, or that there is none.
Top(steps) == IF steps = <<>> THEN "none" ELSE Last(steps)

\* It is what is marked, and tells how far the list has come.
LEMMA TopMeans ==
    ASSUME NEW steps \in Seq(Steps)
    PROVE  /\ Top(steps) \in Steps \cup {"none"}
           /\ CurrentStep(steps) = IF Top(steps) = "none" THEN {} ELSE {Top(steps)}
           /\ Reach(steps) = IF Top(steps) = "none" THEN 0 ELSE Rank(Top(steps))
<1>1. CASE steps = <<>>
    BY <1>1 DEF Top, CurrentStep, Reach
<1>2. CASE steps # <<>>
    <2>1. Last(steps) \in Steps
        BY <1>2 DEF Last
    <2>2. "none" \notin Steps
        BY DEF Steps
    <2> QED
        BY <1>2, <2>1, <2>2 DEF Top, CurrentStep, Reach
<1> QED
    BY <1>1, <1>2

\* A list ends with the step that was put to it last.
LEMMA AppendLast ==
    ASSUME NEW steps \in Seq(Steps), NEW s \in Steps
    PROVE  /\ Append(steps, s) \in Seq(Steps)
           /\ Top(Append(steps, s)) = s /\ Reach(Append(steps, s)) = Rank(s)
<1>1. /\ Append(steps, s) \in Seq(Steps) /\ Len(Append(steps, s)) = Len(steps) + 1
      /\ Append(steps, s)[Len(steps) + 1] = s
    OBVIOUS
<1>2. Append(steps, s) # <<>>
    BY <1>1
<1> QED
    BY <1>1, <1>2 DEF Top, Reach, Last

\* The last of the steps an order has a date of is that of its latest date.
LEMMA LatestLast ==
    ASSUME NEW i, item[i].dates \in SUBSET Range(ItemSteps)
    PROVE  /\ ItemSide(i) \in Seq(Steps)
           /\ Top(ItemSide(i)) = IF item[i].dates = {} THEN "none" ELSE LatestDate(i)
           /\ item[i].dates = {} => LatestDate(i) = "created_by_company"
           /\ LatestDate(i) # "none" /\ Reach(ItemSide(i)) \in 0..5
<1> DEFINE D == item[i].dates
           s == ItemSteps
<1>1. /\ s[1] = "created_by_company" /\ s[2] = "sent_to_department"
      /\ s[3] = "department_to_nh" /\ s[4] = "nh_assigned" /\ s[5] = "planned_by_specialist"
      /\ DOMAIN s = 1..5 /\ \A n \in 1..5 : s[n] \in Steps
    <2>1. /\ s[1] = "created_by_company" /\ s[2] = "sent_to_department"
          /\ s[3] = "department_to_nh" /\ s[4] = "nh_assigned"
          /\ s[5] = "planned_by_specialist" /\ DOMAIN s = 1..5
        BY DEF ItemSteps
    <2> HIDE DEF s
    <2> QED
        BY <2>1 DEF Steps
<1>2. Range(s) = {s[n] : n \in 1..5}
    BY <1>1 DEF Range
<1> DEFINE Dated(steps, n) == With(steps, s[n], s[n] \in D)
           z == <<>>
           a == Dated(z, 1)
           b == Dated(a, 2)
           c == Dated(b, 3)
           d == Dated(c, 4)
           e == Dated(d, 5)
           Latest(n) == s[n] \in D /\ \A k \in 1..5 : k > n => s[k] \notin D
<1>3. ItemSide(i) = e
    BY DEF ItemSide
<1> HIDE DEF s
<1>4. ASSUME NEW steps \in Seq(Steps), NEW n \in 1..5
      PROVE  /\ Dated(steps, n) \in Seq(Steps)
             /\ Top(Dated(steps, n)) = IF s[n] \in D THEN s[n] ELSE Top(steps)
    <2>1. CASE s[n] \in D
        <3>1. Dated(steps, n) = Append(steps, s[n])
            BY <2>1 DEF With
        <3>2. s[n] \in Steps
            BY <1>1
        <3> HIDE DEF Dated
        <3> QED
            BY <2>1, <3>1, <3>2, AppendLast
    <2>2. CASE s[n] \notin D
        BY <2>2 DEF With
    <2> QED
        BY <2>1, <2>2
<1> HIDE DEF Dated
<1>5. z \in Seq(Steps) /\ a \in Seq(Steps) /\ b \in Seq(Steps) /\ c \in Seq(Steps) /\ d \in Seq(Steps) /\ e \in Seq(Steps)
    <2>1. z \in Seq(Steps)
        OBVIOUS
    <2> HIDE DEF z
    <2>2. a \in Seq(Steps)
        BY <1>4, <2>1
    <2>3. b \in Seq(Steps)
        BY <1>4, <2>2
    <2>4. c \in Seq(Steps)
        BY <1>4, <2>3
    <2>5. d \in Seq(Steps)
        BY <1>4, <2>4
    <2>6. e \in Seq(Steps)
        BY <1>4, <2>5
    <2> QED
        BY <2>1, <2>2, <2>3, <2>4, <2>5, <2>6
<1>6. /\ Top(e) = IF s[5] \in D THEN s[5] ELSE Top(d)
      /\ Top(d) = IF s[4] \in D THEN s[4] ELSE Top(c)
      /\ Top(c) = IF s[3] \in D THEN s[3] ELSE Top(b)
      /\ Top(b) = IF s[2] \in D THEN s[2] ELSE Top(a)
      /\ Top(a) = IF s[1] \in D THEN s[1] ELSE "none"
    <2>1. Top(z) = "none"
        BY DEF Top
    <2> HIDE DEF z
    <2>2. Top(e) = IF s[5] \in D THEN s[5] ELSE Top(d)
        BY <1>4, <1>5
    <2>3. Top(d) = IF s[4] \in D THEN s[4] ELSE Top(c)
        BY <1>4, <1>5
    <2>4. Top(c) = IF s[3] \in D THEN s[3] ELSE Top(b)
        BY <1>4, <1>5
    <2>5. Top(b) = IF s[2] \in D THEN s[2] ELSE Top(a)
        BY <1>4, <1>5
    <2>6. Top(a) = IF s[1] \in D THEN s[1] ELSE "none"
        <3>1. Top(a) = IF s[1] \in D THEN s[1] ELSE Top(z)
            BY <1>4, <1>5
        <3> QED
            BY <2>1, <3>1
    <2> QED
        BY <2>2, <2>3, <2>4, <2>5, <2>6
<1> HIDE DEF a, b, c, d, e
<1>7. CASE D = {}
    <2>1. Top(e) = "none" /\ LatestDate(i) = "created_by_company"
        BY <1>6, <1>7 DEF LatestDate
    <2> QED
        BY <1>3, <1>5, <1>7, <2>1, TopMeans
<1>8. CASE D # {}
    <2>1. \E n \in 1..5 : Latest(n)
        <3>1. \E n \in 1..5 : s[n] \in D
            BY <1>2, <1>8 DEF s
        <3> QED
            BY <3>1
    <2>2. PICK n \in 1..5 : Latest(n)
        BY <2>1
    <2>3. Top(e) = s[n]
        BY <1>6, <2>2
    <2>4. LatestDate(i) = s[n]
        <3>1. \A m \in DOMAIN s : (s[m] \in D /\ \A k \in DOMAIN s : s[k] \in D => k <= m) <=> m = n
            BY <1>1, <2>2
        <3>2. LatestDate(i) = s[CHOOSE m \in DOMAIN s :
                                   s[m] \in D /\ \A k \in DOMAIN s : s[k] \in D => k <= m]
            BY <1>8 DEF LatestDate, s
        <3> QED
            BY <1>1, <3>1, <3>2
    <2>5. Rank(s[n]) \in 1..5
        BY <1>1, Ranks
    <2>6. s[n] # "none"
        BY <1>1 DEF Steps
    <2> QED
        BY <1>3, <1>5, <1>8, <2>3, <2>4, <2>5, <2>6, TopMeans
<1> QED
    BY <1>7, <1>8

\* How far an order is if it has come so far by its dates, is tendered, contracted, arrived.
Level(dated, tendered, contracted, arrived) ==
    IF arrived THEN 8 ELSE IF contracted THEN 7 ELSE IF tendered THEN 6 ELSE dated

\* Of an order that has begun, both readers find the same step, the furthest that the
\* tables know of.
LEMMA KeyStep ==
    ASSUME NEW i, item[i].dates \in SUBSET Range(ItemSteps), item[i].arrived \in BOOLEAN
    PROVE  /\ CurrentStep(StepsOf(i)) = IF Begun(i) THEN {CurrentStepKey(i)} ELSE {}
           /\ ~Begun(i) => CurrentStepKey(i) = "created_by_company"
           /\ Begun(i) => Rank(CurrentStepKey(i)) = Reach(StepsOf(i))
           /\ Reach(StepsOf(i)) = Level(Reach(ItemSide(i)), TendersOf(item[i].basket) # {},
                                        GereesOf(item[i].basket) # {}, item[i].arrived)
<1> DEFINE b  == item[i].basket
           s0 == ItemSide(i)
           s1 == WithTender(s0, TendersOf(b) # {})
           s2 == WithGeree(s1, GereesOf(b) # {})
           s3 == WithArrival(s2, item[i].arrived)
<1>0. StepsOf(i) = s3
    BY DEF StepsOf
<1>1. /\ s0 \in Seq(Steps)
      /\ Top(s0) = IF item[i].dates = {} THEN "none" ELSE LatestDate(i)
      /\ item[i].dates = {} => LatestDate(i) = "created_by_company"
    BY LatestLast
<1>2. "tender_started" \in Steps /\ "contract_signed" \in Steps /\ "delivered" \in Steps
    BY DEF Steps
<1> HIDE DEF s0
<1>3. /\ s1 \in Seq(Steps)
      /\ Top(s1) = IF TendersOf(b) # {} THEN "tender_started" ELSE Top(s0)
    <2>1. CASE TendersOf(b) # {}
        <3>1. s1 = Append(s0, "tender_started")
            BY <2>1 DEF WithTender, With
        <3> HIDE DEF s1
        <3> QED
            BY <2>1, <3>1, <1>1, <1>2, AppendLast
    <2>2. CASE TendersOf(b) = {}
        BY <1>1, <2>2 DEF WithTender, With
    <2> QED
        BY <2>1, <2>2
<1> HIDE DEF s1
<1>4. /\ s2 \in Seq(Steps)
      /\ Top(s2) = IF GereesOf(b) # {} THEN "contract_signed" ELSE Top(s1)
    <2>1. CASE GereesOf(b) # {}
        <3>1. s2 = Append(s1, "contract_signed")
            BY <2>1 DEF WithGeree, With
        <3> HIDE DEF s2
        <3> QED
            BY <2>1, <3>1, <1>3, <1>2, AppendLast
    <2>2. CASE GereesOf(b) = {}
        BY <1>3, <2>2 DEF WithGeree, With
    <2> QED
        BY <2>1, <2>2
<1> HIDE DEF s2
<1>5. /\ s3 \in Seq(Steps)
      /\ Top(s3) = IF item[i].arrived THEN "delivered" ELSE Top(s2)
    <2>1. CASE item[i].arrived
        <3>1. s3 = Append(s2, "delivered")
            BY <2>1 DEF WithArrival, With
        <3> HIDE DEF s3
        <3> QED
            BY <2>1, <3>1, <1>4, <1>2, AppendLast
    <2>2. CASE ~item[i].arrived
        BY <1>4, <2>2 DEF WithArrival, With
    <2> QED
        BY <2>1, <2>2
<1>6. CurrentStepKey(i) = IF item[i].arrived THEN "delivered"
                          ELSE IF GereesOf(b) # {} THEN "contract_signed"
                          ELSE IF TendersOf(b) # {} THEN "tender_started"
                          ELSE LatestDate(i)
    BY DEF CurrentStepKey
<1>7. Begun(i) <=> \/ item[i].dates # {} \/ item[i].arrived
                   \/ TendersOf(b) # {} \/ GereesOf(b) # {}
    BY DEF Begun
<1> HIDE DEF s3, b
<1>8. /\ Top(s3) = IF Begun(i) THEN CurrentStepKey(i) ELSE "none"
      /\ ~Begun(i) => CurrentStepKey(i) = "created_by_company"
    BY <1>1, <1>3, <1>4, <1>5, <1>6, <1>7
<1>9. /\ CurrentStep(s3) = IF Begun(i) THEN {CurrentStepKey(i)} ELSE {}
      /\ Begun(i) => Rank(CurrentStepKey(i)) = Reach(s3)
    <2>1. Begun(i) => CurrentStepKey(i) # "none"
        <3>1. item[i].dates # {} => LatestDate(i) # "none"
            BY LatestLast
        <3> QED
            BY <1>1, <1>6, <3>1
    <2> QED
        BY <1>5, <1>8, <2>1, TopMeans
<1>10. Reach(s3) = Level(Reach(s0), TendersOf(b) # {}, GereesOf(b) # {}, item[i].arrived)
    <2>1. /\ Reach(s0) = IF Top(s0) = "none" THEN 0 ELSE Rank(Top(s0))
          /\ Reach(s3) = IF Top(s3) = "none" THEN 0 ELSE Rank(Top(s3))
        BY <1>1, <1>5, TopMeans
    <2>2. CASE item[i].arrived
        BY <1>5, <2>1, <2>2, Ranks DEF Level
    <2>3. CASE ~item[i].arrived /\ GereesOf(b) # {}
        BY <1>4, <1>5, <2>1, <2>3, Ranks DEF Level
    <2>4. CASE ~item[i].arrived /\ GereesOf(b) = {} /\ TendersOf(b) # {}
        BY <1>3, <1>4, <1>5, <2>1, <2>4, Ranks DEF Level
    <2>5. CASE ~item[i].arrived /\ GereesOf(b) = {} /\ TendersOf(b) = {}
        BY <1>3, <1>4, <1>5, <2>1, <2>5 DEF Level
    <2> QED
        BY <2>2, <2>3, <2>4, <2>5
<1> QED
    BY <1>0, <1>8, <1>9, <1>10 DEF b, s0

\* "SAME LOGIC AS GetItemSteps": GetItemSteps.go and the CASE of GetBasketItems.go show
\* every order that has begun at the same step, and no other; and an order in a tender of a
\* plan is at least tendered.
THEOREM StepsAlike == Spec => []StepsAgree
<1>1. TablesOK => StepsAgree
    <2> SUFFICES ASSUME TablesOK, NEW i \in DOMAIN item
                 PROVE  /\ CurrentStep(StepsOf(i)) = IF Begun(i) THEN {CurrentStepKey(i)} ELSE {}
                        /\ ~Begun(i) => CurrentStepKey(i) = "created_by_company"
                        /\ \A t \in DOMAIN tender : item[i].basket \in BasketIds(tender[t].plan)
                              => Rank(CurrentStepKey(i)) >= Rank("tender_started")
        BY DEF StepsAgree
    <2>1. item[i].dates \in SUBSET Range(ItemSteps) /\ item[i].arrived \in BOOLEAN
        BY DEF TablesOK, IsTable, ItemRow
    <2>2. ASSUME NEW t \in DOMAIN tender, item[i].basket \in BasketIds(tender[t].plan)
          PROVE  Rank(CurrentStepKey(i)) >= Rank("tender_started")
        <3>1. TendersOf(item[i].basket) # {} /\ Begun(i)
            BY <2>2 DEF BasketIds, PlanTenders, TendersOf, Begun
        <3>2. Rank(CurrentStepKey(i)) \in 6..8
            BY <2>1, <3>1, KeyStep DEF Level
        <3> QED
            BY <3>2, Ranks
    <2> QED
        BY <2>1, <2>2, KeyStep
<1> QED
    BY <1>1, TablesTyped, PTL

-----------------------------------------------------------------------------
(* The figures of the branches and of all.                                 *)

\* Sums are those of SumLemmas.
LEMMA SumMeans == ASSUME NEW f, NEW S PROVE Sum(f, S) = SumOver(f, S)
BY DEF Sum, MapThenSumSet, MapThenFoldSet, SumOver, SumsOf, Sums, AnyOf

\* What the figures are about: finite sets with numbers.
LEMMA FiguresTyped ==
    ASSUME TablesOK
    PROVE  /\ IsFiniteSet(YearItems) /\ \A i \in YearItems : Price[i] \in Nat
           /\ IsFiniteSet(YearTenders) /\ \A t \in YearTenders : Budget[t] \in Nat
           /\ IsFiniteSet(YearGerees) /\ \A g \in YearGerees : Amount[g] \in Nat
<1>1. IsFiniteSet(DOMAIN item) /\ IsFiniteSet(DOMAIN tender) /\ IsFiniteSet(DOMAIN geree)
    BY DEF TablesOK, IsTable
<1>2. /\ YearItems \in SUBSET DOMAIN item /\ YearTenders \in SUBSET DOMAIN tender
      /\ YearGerees \in SUBSET DOMAIN geree
    BY DEF YearItems, YearTenders, YearGerees
<1>3. IsFiniteSet(YearItems) /\ IsFiniteSet(YearTenders) /\ IsFiniteSet(YearGerees)
    BY <1>1, <1>2, FS_Subset
<1>4. \A i \in DOMAIN item : item[i] \in ItemRow /\ item[i].price \in Nat
    BY DEF TablesOK, IsTable, ItemRow
<1>5. \A t \in DOMAIN tender : tender[t] \in TenderRow /\ tender[t].budget \in Nat
    BY DEF TablesOK, IsTable, TenderRow
<1>6. \A g \in DOMAIN geree : geree[g] \in GereeRow /\ geree[g].amount \in Nat
    BY DEF TablesOK, IsTable, GereeRow
<1> QED
    BY <1>2, <1>3, <1>4, <1>5, <1>6 DEF Price, Budget, Amount

\* A figure of the branches is the sum of w over R[b], that of all the sum over S.
LEMMA Column ==
    ASSUME IsFiniteSet(Branches), NEW c, NEW S, IsFiniteSet(S), NEW R \in [AllDcodes -> SUBSET S],
           NEW w, \A x \in S : w[x] \in Nat,
           \A b \in AllDcodes : StatRows[b][c] = SumOver(w, R[b])
    PROVE  /\ Added(StatRows, c) \in Nat /\ SumOver(w, S) \in Nat
           /\ (\A x \in S : \E b \in AllDcodes : x \in R[b]) => SumOver(w, S) <= Added(StatRows, c)
           /\ (\A b, d \in AllDcodes : b # d => R[b] \cap R[d] = {})
                 => Added(StatRows, c) <= SumOver(w, S)
<1> DEFINE G == [b \in AllDcodes |-> StatRows[b][c]]
<1>1. IsFiniteSet(AllDcodes)
    <2>1. AllDcodes \in SUBSET Branches
        BY DEF AllDcodes
    <2> QED
        BY <2>1, FS_Subset
<1>2. Added(StatRows, c) = SumOver(G, AllDcodes)
    <2>1. DOMAIN StatRows = AllDcodes
        BY DEF StatRows
    <2>2. Added(StatRows, c) = Sum(G, AllDcodes)
        BY <2>1 DEF Added
    <2> HIDE DEF G
    <2> QED
        BY <2>2, SumMeans
<1>3. \A b \in AllDcodes : G[b] = SumOver(w, R[b])
    OBVIOUS
<1> HIDE DEF G
<1>4. /\ SumOver(G, AllDcodes) \in Nat /\ SumOver(w, S) \in Nat
      /\ (\A x \in S : \E b \in AllDcodes : x \in R[b]) => SumOver(w, S) <= SumOver(G, AllDcodes)
      /\ (\A b, d \in AllDcodes : b # d => R[b] \cap R[d] = {})
            => SumOver(G, AllDcodes) <= SumOver(w, S)
    BY <1>1, <1>3, SumParts
<1> QED
    BY <1>2, <1>4

\* So is a figure that counts.
LEMMA CountColumn ==
    ASSUME IsFiniteSet(Branches), NEW c, NEW S, IsFiniteSet(S), NEW R \in [AllDcodes -> SUBSET S],
           \A b \in AllDcodes : StatRows[b][c] = Cardinality(R[b])
    PROVE  /\ Added(StatRows, c) \in Nat /\ Cardinality(S) \in Nat
           /\ (\A x \in S : \E b \in AllDcodes : x \in R[b]) => Cardinality(S) <= Added(StatRows, c)
           /\ (\A b, d \in AllDcodes : b # d => R[b] \cap R[d] = {})
                 => Added(StatRows, c) <= Cardinality(S)
<1> DEFINE w == [x \in S |-> 1]
<1>1. \A x \in S : w[x] = 1
    OBVIOUS
<1> HIDE DEF w
<1>2. Cardinality(S) = SumOver(w, S)
    BY <1>1, SumOnes
<1>3. \A b \in AllDcodes : StatRows[b][c] = SumOver(w, R[b])
    <2> TAKE b \in AllDcodes
    <2>1. R[b] \in SUBSET S
        OBVIOUS
    <2>2. IsFiniteSet(R[b]) /\ \A x \in R[b] : w[x] = 1
        BY <1>1, <2>1, FS_Subset
    <2>3. Cardinality(R[b]) = SumOver(w, R[b])
        BY <2>2, SumOnes
    <2> QED
        BY <2>3
<1>4. \A x \in S : w[x] \in Nat
    BY <1>1
<1> QED
    BY <1>2, <1>3, <1>4, Column

OfTenders   == {"TotalTenders", "TotalBudget", "SuccessfulTenders", "SuccessfulBudget", "SuspendedTenders"}
OfContracts == {"TotalContracts", "TotalContractValue"}

Won(T)    == {t \in T : tender[t].successful}
Halted(T) == {t \in T : tender[t].suspended}

\* The columns, in the sums of SumLemmas.
LEMMA Columns ==
    ASSUME NEW I, NEW T, NEW G
    PROVE  /\ DOMAIN Figures(I, T, G) = OfOrders \cup OfTenders \cup OfContracts
           /\ Figures(I, T, G)["TotalOrders"] = Cardinality(I)
           /\ Figures(I, T, G)["TotalOrderValue"] = SumOver(Price, I)
           /\ Figures(I, T, G)["TotalTenders"] = Cardinality(T)
           /\ Figures(I, T, G)["TotalBudget"] = SumOver(Budget, T)
           /\ Figures(I, T, G)["SuccessfulTenders"] = Cardinality(Won(T))
           /\ Figures(I, T, G)["SuccessfulBudget"] = SumOver(Budget, Won(T))
           /\ Figures(I, T, G)["SuspendedTenders"] = Cardinality(Halted(T))
           /\ Figures(I, T, G)["TotalContracts"] = Cardinality(G)
           /\ Figures(I, T, G)["TotalContractValue"] = SumOver(Amount, G)
<1>1. /\ DOMAIN Figures(I, T, G) = OfOrders \cup OfTenders \cup OfContracts
      /\ Figures(I, T, G)["TotalOrders"] = Cardinality(I)
      /\ Figures(I, T, G)["TotalOrderValue"] = Sum(Price, I)
      /\ Figures(I, T, G)["TotalTenders"] = Cardinality(T)
      /\ Figures(I, T, G)["TotalBudget"] = Sum(Budget, T)
      /\ Figures(I, T, G)["SuccessfulTenders"] = Cardinality(Won(T))
      /\ Figures(I, T, G)["SuccessfulBudget"] = Sum(Budget, Won(T))
      /\ Figures(I, T, G)["SuspendedTenders"] = Cardinality(Halted(T))
      /\ Figures(I, T, G)["TotalContracts"] = Cardinality(G)
      /\ Figures(I, T, G)["TotalContractValue"] = Sum(Amount, G)
    BY DEF Figures, OfOrders, OfTenders, OfContracts, Won, Halted
<1> QED
    BY <1>1, SumMeans

\* The orders of the year, each in the row of its one branch.
LEMMA OrdersAddUp ==
    ASSUME IsFiniteSet(Branches), TablesOK, NEW c \in OfOrders
    PROVE  /\ Added(StatRows, c) \in Nat /\ StatSummary[c] \in Nat
           /\ Added(StatRows, c) = StatSummary[c]
<1> DEFINE R == [b \in AllDcodes |-> BasketStats(b)]
<1>1. R \in [AllDcodes -> SUBSET YearItems]
    BY DEF BasketStats, YearItems
<1>2. \A x \in YearItems : \E b \in AllDcodes : x \in R[b]
    <2> TAKE x \in YearItems
    <2>1. item[x].branch \in Branches /\ x \in BasketStats(item[x].branch)
        BY DEF YearItems, BasketStats, TablesOK, IsTable, ItemRow
    <2>2. item[x].branch \in AllDcodes
        BY <2>1 DEF AllDcodes
    <2> QED
        BY <2>1, <2>2
<1>3. \A b, d \in AllDcodes : b # d => R[b] \cap R[d] = {}
    BY DEF BasketStats
<1>4. /\ IsFiniteSet(YearItems) /\ \A i \in YearItems : Price[i] \in Nat
    BY FiguresTyped
<1>5. \A b \in AllDcodes : /\ StatRows[b]["TotalOrders"] = Cardinality(R[b])
                           /\ StatRows[b]["TotalOrderValue"] = SumOver(Price, R[b])
    BY Columns DEF StatRows
<1>6. /\ StatSummary["TotalOrders"] = Cardinality(YearItems)
      /\ StatSummary["TotalOrderValue"] = SumOver(Price, YearItems)
    BY Columns DEF StatSummary
<1> HIDE DEF R
<1>7. CASE c = "TotalOrders"
    <2>1. /\ Added(StatRows, c) \in Nat /\ Cardinality(YearItems) \in Nat
          /\ Cardinality(YearItems) <= Added(StatRows, c)
          /\ Added(StatRows, c) <= Cardinality(YearItems)
        BY <1>1, <1>2, <1>3, <1>4, <1>5, <1>7, CountColumn
    <2> QED
        BY <1>6, <1>7, <2>1
<1>8. CASE c = "TotalOrderValue"
    <2>1. /\ Added(StatRows, c) \in Nat /\ SumOver(Price, YearItems) \in Nat
          /\ SumOver(Price, YearItems) <= Added(StatRows, c)
          /\ Added(StatRows, c) <= SumOver(Price, YearItems)
        BY <1>1, <1>2, <1>3, <1>4, <1>5, <1>8, Column
    <2> QED
        BY <1>6, <1>8, <2>1
<1> QED
    BY <1>7, <1>8 DEF OfOrders

\* Two different branches are not of one.
LEMMA OneBranch ==
    ASSUME NEW S, IsFiniteSet(S), Cardinality(S) <= 1, NEW b \in S, NEW d \in S
    PROVE  b = d
<1>1. SUFFICES ASSUME b # d PROVE FALSE
    OBVIOUS
<1>2. /\ Cardinality({b, d}) <= Cardinality(S) /\ Cardinality(S) \in Nat
      /\ IsFiniteSet({b, d})
    <2>1. {b, d} \in SUBSET S
        OBVIOUS
    <2> QED
        BY <2>1, FS_Subset, FS_CardinalityType
<1>3. Cardinality({b, d}) = 2
    <2>1. IsFiniteSet({b}) /\ Cardinality({b}) = 1
        BY FS_Singleton
    <2>2. Cardinality({b} \cup {d}) = Cardinality({b}) + 1
        BY <1>1, <2>1, FS_AddElement
    <2>3. {b} \cup {d} = {b, d}
        OBVIOUS
    <2> QED
        BY <2>1, <2>2, <2>3
<1> QED
    BY <1>2, <1>3

\* Tenders, each in the row of every branch it names.
LEMMA TendersAddUp ==
    ASSUME IsFiniteSet(Branches), TablesOK, NEW c \in OfTenders
    PROVE  /\ Added(StatRows, c) \in Nat /\ StatSummary[c] \in Nat
           /\ (\A t \in YearTenders : tender[t].branches # {}) => StatSummary[c] <= Added(StatRows, c)
           /\ (\A t \in YearTenders : Cardinality(tender[t].branches) <= 1)
                 => Added(StatRows, c) <= StatSummary[c]
<1> DEFINE R  == [b \in AllDcodes |-> TenderExpanded(b)]
           RW == [b \in AllDcodes |-> Won(TenderExpanded(b))]
           RH == [b \in AllDcodes |-> Halted(TenderExpanded(b))]
           Named  == \A t \in YearTenders : tender[t].branches # {}
           Single == \A t \in YearTenders : Cardinality(tender[t].branches) <= 1
<1>1. /\ R \in [AllDcodes -> SUBSET YearTenders]
      /\ RW \in [AllDcodes -> SUBSET Won(YearTenders)]
      /\ RH \in [AllDcodes -> SUBSET Halted(YearTenders)]
    BY DEF TenderExpanded, YearTenders, Won, Halted
<1>2. ASSUME Named, NEW t \in YearTenders PROVE \E b \in AllDcodes : t \in TenderExpanded(b)
    <2>1. PICK b \in tender[t].branches : TRUE
        BY <1>2
    <2>2. b \in Branches /\ t \in TenderExpanded(b)
        BY DEF YearTenders, TenderExpanded, TablesOK, IsTable, TenderRow
    <2>3. b \in AllDcodes
        BY <2>2 DEF AllDcodes
    <2> QED
        BY <2>2, <2>3
<1>3. Named => /\ \A t \in YearTenders : \E b \in AllDcodes : t \in R[b]
               /\ \A t \in Won(YearTenders) : \E b \in AllDcodes : t \in RW[b]
               /\ \A t \in Halted(YearTenders) : \E b \in AllDcodes : t \in RH[b]
    BY <1>2 DEF Won, Halted
<1>4. ASSUME Single, NEW b \in AllDcodes, NEW d \in AllDcodes, b # d
      PROVE  TenderExpanded(b) \cap TenderExpanded(d) = {}
    <2> SUFFICES ASSUME NEW t \in TenderExpanded(b), t \in TenderExpanded(d) PROVE FALSE
        OBVIOUS
    <2>1. /\ t \in YearTenders /\ b \in tender[t].branches /\ d \in tender[t].branches
          /\ tender[t].branches \in SUBSET Branches
        BY DEF YearTenders, TenderExpanded, TablesOK, IsTable, TenderRow
    <2>2. IsFiniteSet(tender[t].branches) /\ Cardinality(tender[t].branches) <= 1
        BY <1>4, <2>1, FS_Subset
    <2> QED
        BY <1>4, <2>1, <2>2, OneBranch
<1>5. Single => \A b, d \in AllDcodes : b # d => /\ R[b] \cap R[d] = {}
                                                 /\ RW[b] \cap RW[d] = {}
                                                 /\ RH[b] \cap RH[d] = {}
    BY <1>4 DEF Won, Halted
<1>6. /\ IsFiniteSet(YearTenders) /\ \A t \in YearTenders : Budget[t] \in Nat
      /\ IsFiniteSet(Won(YearTenders)) /\ \A t \in Won(YearTenders) : Budget[t] \in Nat
      /\ IsFiniteSet(Halted(YearTenders))
    <2>1. Won(YearTenders) \in SUBSET YearTenders /\ Halted(YearTenders) \in SUBSET YearTenders
        BY DEF Won, Halted
    <2> QED
        BY <2>1, FiguresTyped, FS_Subset
<1>7. \A b \in AllDcodes : /\ StatRows[b]["TotalTenders"] = Cardinality(R[b])
                           /\ StatRows[b]["TotalBudget"] = SumOver(Budget, R[b])
                           /\ StatRows[b]["SuccessfulTenders"] = Cardinality(RW[b])
                           /\ StatRows[b]["SuccessfulBudget"] = SumOver(Budget, RW[b])
                           /\ StatRows[b]["SuspendedTenders"] = Cardinality(RH[b])
    BY Columns DEF StatRows
<1>8. /\ StatSummary["TotalTenders"] = Cardinality(YearTenders)
      /\ StatSummary["TotalBudget"] = SumOver(Budget, YearTenders)
      /\ StatSummary["SuccessfulTenders"] = Cardinality(Won(YearTenders))
      /\ StatSummary["SuccessfulBudget"] = SumOver(Budget, Won(YearTenders))
      /\ StatSummary["SuspendedTenders"] = Cardinality(Halted(YearTenders))
    BY Columns DEF StatSummary
<1> HIDE DEF R, RW, RH, Named, Single
<1> DEFINE Bounded(total) == /\ Added(StatRows, c) \in Nat /\ total \in Nat
                             /\ Named => total <= Added(StatRows, c)
                             /\ Single => Added(StatRows, c) <= total
           Spread(S, Q) == /\ IsFiniteSet(S) /\ Q \in [AllDcodes -> SUBSET S]
                           /\ Named => \A x \in S : \E b \in AllDcodes : x \in Q[b]
                           /\ Single => \A b, d \in AllDcodes : b # d => Q[b] \cap Q[d] = {}
<1>9. /\ Spread(YearTenders, R) /\ Spread(Won(YearTenders), RW)
      /\ Spread(Halted(YearTenders), RH)
    BY <1>1, <1>3, <1>5, <1>6
<1>10. ASSUME NEW S, NEW Q, Spread(S, Q), \A b \in AllDcodes : StatRows[b][c] = Cardinality(Q[b])
       PROVE  Bounded(Cardinality(S))
    BY <1>10, CountColumn
<1>11. ASSUME NEW S, NEW Q, Spread(S, Q), \A x \in S : Budget[x] \in Nat,
              \A b \in AllDcodes : StatRows[b][c] = SumOver(Budget, Q[b])
       PROVE  Bounded(SumOver(Budget, S))
    BY <1>11, Column
<1> HIDE DEF Spread, Bounded
<1>12. Bounded(StatSummary[c])
    <2>1. CASE c = "TotalTenders"
        BY <1>7, <1>8, <1>9, <1>10, <2>1
    <2>2. CASE c = "TotalBudget"
        BY <1>6, <1>7, <1>8, <1>9, <1>11, <2>2
    <2>3. CASE c = "SuccessfulTenders"
        BY <1>7, <1>8, <1>9, <1>10, <2>3
    <2>4. CASE c = "SuccessfulBudget"
        BY <1>6, <1>7, <1>8, <1>9, <1>11, <2>4
    <2>5. CASE c = "SuspendedTenders"
        BY <1>7, <1>8, <1>9, <1>10, <2>5
    <2> QED
        BY <2>1, <2>2, <2>3, <2>4, <2>5 DEF OfTenders
<1> QED
    BY <1>12 DEF Bounded, Named, Single

\* Contracts, each in the row of every branch its tender names.
LEMMA ContractsAddUp ==
    ASSUME IsFiniteSet(Branches), TablesOK, NEW c \in OfContracts
    PROVE  /\ Added(StatRows, c) \in Nat /\ StatSummary[c] \in Nat
           /\ (\A t \in Behind : tender[t].branches # {}) => StatSummary[c] <= Added(StatRows, c)
           /\ (\A t \in Behind : Cardinality(tender[t].branches) <= 1)
                 => Added(StatRows, c) <= StatSummary[c]
<1> DEFINE R == [b \in AllDcodes |-> GereeExpanded(b)]
           Named  == \A t \in Behind : tender[t].branches # {}
           Single == \A t \in Behind : Cardinality(tender[t].branches) <= 1
<1>1. R \in [AllDcodes -> SUBSET YearGerees]
    BY DEF GereeExpanded, YearGerees
<1>2. ASSUME NEW g \in YearGerees
      PROVE  /\ geree[g].tender \in Behind /\ geree[g].tender \in DOMAIN tender
             /\ tender[geree[g].tender].branches \in SUBSET Branches
    BY DEF YearGerees, Behind, TablesOK, IsTable, TenderRow
<1>3. Named => \A g \in YearGerees : \E b \in AllDcodes : g \in R[b]
    <2> SUFFICES ASSUME Named, NEW g \in YearGerees PROVE \E b \in AllDcodes : g \in R[b]
        OBVIOUS
    <2>1. PICK b \in tender[geree[g].tender].branches : TRUE
        BY <1>2
    <2>2. b \in Branches /\ g \in GereeExpanded(b)
        BY <1>2 DEF YearGerees, GereeExpanded
    <2>3. b \in AllDcodes
        BY <2>2 DEF AllDcodes
    <2> QED
        BY <2>2, <2>3
<1>4. Single => \A b, d \in AllDcodes : b # d => R[b] \cap R[d] = {}
    <2> SUFFICES ASSUME Single, NEW b \in AllDcodes, NEW d \in AllDcodes, b # d,
                        NEW g \in GereeExpanded(b), g \in GereeExpanded(d)
                 PROVE  FALSE
        OBVIOUS
    <2> DEFINE B == tender[geree[g].tender].branches
    <2>1. g \in YearGerees /\ b \in B /\ d \in B
        BY DEF YearGerees, GereeExpanded
    <2>2. IsFiniteSet(B) /\ Cardinality(B) <= 1
        BY <1>2, <2>1, FS_Subset
    <2> HIDE DEF B
    <2> QED
        BY <2>1, <2>2, OneBranch
<1>5. IsFiniteSet(YearGerees) /\ \A g \in YearGerees : Amount[g] \in Nat
    BY FiguresTyped
<1>6. \A b \in AllDcodes : /\ StatRows[b]["TotalContracts"] = Cardinality(R[b])
                           /\ StatRows[b]["TotalContractValue"] = SumOver(Amount, R[b])
    BY Columns DEF StatRows
<1>7. /\ StatSummary["TotalContracts"] = Cardinality(YearGerees)
      /\ StatSummary["TotalContractValue"] = SumOver(Amount, YearGerees)
    BY Columns DEF StatSummary
<1> HIDE DEF R, Named, Single
<1>8. CASE c = "TotalContracts"
    <2>1. /\ Added(StatRows, c) \in Nat /\ Cardinality(YearGerees) \in Nat
          /\ Named => Cardinality(YearGerees) <= Added(StatRows, c)
          /\ Single => Added(StatRows, c) <= Cardinality(YearGerees)
        BY <1>1, <1>3, <1>4, <1>5, <1>6, <1>8, CountColumn
    <2> QED
        BY <1>7, <1>8, <2>1 DEF Named, Single
<1>9. CASE c = "TotalContractValue"
    <2>1. /\ Added(StatRows, c) \in Nat /\ SumOver(Amount, YearGerees) \in Nat
          /\ Named => SumOver(Amount, YearGerees) <= Added(StatRows, c)
          /\ Single => Added(StatRows, c) <= SumOver(Amount, YearGerees)
        BY <1>1, <1>3, <1>4, <1>5, <1>6, <1>9, Column
    <2> QED
        BY <1>7, <1>9, <2>1 DEF Named, Single
<1> QED
    BY <1>8, <1>9 DEF OfContracts

\* GetStatistic.go: the rows of the branches add up to the summary of all, tenders and
\* contracts as far as each tender names one branch.
THEOREM RowsTrue == Spec => []RowsAddUp
<1>1. TablesOK => RowsAddUp
    <2> SUFFICES ASSUME TablesOK PROVE RowsAddUp
        OBVIOUS
    <2>1. IsFiniteSet(Branches)
        BY ReadAssumption
    <2>2. DOMAIN StatSummary = OfOrders \cup OfTenders \cup OfContracts
        BY Columns DEF StatSummary
    <2>3. \A c \in OfOrders : /\ Added(StatRows, c) \in Nat /\ StatSummary[c] \in Nat
                              /\ Added(StatRows, c) = StatSummary[c]
        BY <2>1, OrdersAddUp
    <2>4. YearTenders \subseteq Behind
        BY DEF Behind
    <2>5. ASSUME \A t \in Behind : tender[t].branches # {}, NEW c \in DOMAIN StatSummary
          PROVE  Added(StatRows, c) >= StatSummary[c]
        <3>1. CASE c \in OfOrders
            BY <2>3, <3>1
        <3>2. CASE c \in OfTenders
            BY <2>1, <2>4, <2>5, <3>2, TendersAddUp
        <3>3. CASE c \in OfContracts
            BY <2>1, <2>5, <3>3, ContractsAddUp
        <3> QED
            BY <2>2, <3>1, <3>2, <3>3
    <2>6. ASSUME \A t \in Behind : Cardinality(tender[t].branches) <= 1, NEW c \in DOMAIN StatSummary
          PROVE  Added(StatRows, c) <= StatSummary[c]
        <3>1. CASE c \in OfOrders
            BY <2>3, <3>1
        <3>2. CASE c \in OfTenders
            BY <2>1, <2>4, <2>6, <3>2, TendersAddUp
        <3>3. CASE c \in OfContracts
            BY <2>1, <2>6, <3>3, ContractsAddUp
        <3> QED
            BY <2>2, <3>1, <3>2, <3>3
    <2> QED
        BY <2>3, <2>5, <2>6 DEF RowsAddUp
<1> QED
    BY <1>1, TablesTyped, PTL

-----------------------------------------------------------------------------
(* What the readers of several statements know between two of them.        *)

Numbers(f) == \A x \in DOMAIN f : f[x] \in Nat

Sofar == [basket : Nat, steps : Seq(Steps), arrived : BOOLEAN]

\* GetItemSteps, of an order that is still there: what it has of the order is what there is.
OfOrder ==
    /\ call.item \in DOMAIN item /\ got \in Sofar
    /\ got.basket = item[call.item].basket
    /\ got.arrived => item[call.item].arrived

\* Before the tenders are asked for, and before the contracts are: what was shown at the
\* beginning is no further than what the rest of the statements would find.
AtTender ==
    /\ OfOrder
    /\ Reach(got.steps) = Reach(ItemSide(call.item))
    /\ Reach(since) \in 0..8
    /\ Reach(since) <= Level(Reach(ItemSide(call.item)), TendersOf(got.basket) # {},
                            GereesOf(got.basket) # {}, got.arrived)
AtGeree ==
    /\ OfOrder
    /\ Reach(got.steps) \in 0..6 /\ Reach(since) \in 0..8
    /\ Reach(got.steps) <= Level(Reach(ItemSide(call.item)), TendersOf(got.basket) # {},
                                             FALSE, FALSE)
    /\ Reach(since) <= Level(Reach(got.steps), FALSE, GereesOf(got.basket) # {}, got.arrived)

\* GetStatistic, when it has the rows.
AtSummary ==
    /\ DOMAIN since = OfOrders \cup OfTenders \cup OfContracts /\ Numbers(since)
    /\ \A c \in DOMAIN since : since[c] <= StatSummary[c]
    /\ \A c \in OfOrders : Added(got, c) \in Nat /\ Added(got, c) <= StatSummary[c]

\* GetBasketWithTotalPrice, when it has some of the prices.
AtTotal ==
    /\ Numbers(since) /\ Numbers(got) /\ DOMAIN got \subseteq DOMAIN since
    /\ \A b \in DOMAIN since : since[b] <= TotalPrice(b)
    /\ \A b \in DOMAIN got : since[b] <= got[b] /\ got[b] <= TotalPrice(b)

ToldSteps ==
    /\ call.item \in DOMAIN item
    /\ Reach(since) \in 0..8 /\ Reach(answer) \in 0..8
    /\ Reach(since) <= Reach(answer)
    /\ Reach(answer) <= Reach(StepsOf(call.item))

ToldStatistic ==
    /\ DOMAIN since = OfOrders \cup OfTenders \cup OfContracts
    /\ \A c \in DOMAIN since : /\ since[c] \in Nat /\ answer.summary[c] \in Nat
                               /\ since[c] <= answer.summary[c]
                               /\ answer.summary[c] <= StatSummary[c]
    /\ \A c \in OfOrders : Added(answer.rows, c) <= answer.summary[c]

ToldTotals ==
    \A b \in DOMAIN since : /\ since[b] \in Nat /\ answer[b] \in Nat
                            /\ since[b] <= answer[b] /\ answer[b] <= TotalPrice(b)

\* Which call a reader is in the middle of.
Staged ==
    /\ pc \in {"tender", "geree"} => call.kind = "Steps"
    /\ pc = "summary" => call.kind = "Statistic"
    /\ pc = "total" => call.kind = "Totals"
    /\ answer # None => pc = "done" /\ call.kind \in {"Steps", "Statistic", "Totals"}

Known ==
    /\ pc = "tender" => AtTender
    /\ pc = "geree" => AtGeree
    /\ pc = "summary" => AtSummary
    /\ pc = "total" => AtTotal
    /\ answer # None => /\ call.kind = "Steps" => ToldSteps
                        /\ call.kind = "Statistic" => ToldStatistic
                        /\ call.kind = "Totals" => ToldTotals

\* The inductive invariant of the readers, next to the types of the tables.
Knows == Staged /\ (~disturbed => Known)

\* A price of a basket, in the sums of SumLemmas.
PricesSummed == \A b : TotalPrice(b) = SumOver(Price, PricedItems(b))

LEMMA PriceOf == PricesSummed
BY SumMeans DEF PricesSummed, TotalPrice, Price

\* The summary, in the sums of SumLemmas.
LEMMA SummaryColumns ==
    /\ DOMAIN StatSummary = OfOrders \cup OfTenders \cup OfContracts
    /\ StatSummary["TotalOrders"] = Cardinality(YearItems)
    /\ StatSummary["TotalOrderValue"] = SumOver(Price, YearItems)
    /\ StatSummary["TotalTenders"] = Cardinality(YearTenders)
    /\ StatSummary["TotalBudget"] = SumOver(Budget, YearTenders)
    /\ StatSummary["SuccessfulTenders"] = Cardinality(Won(YearTenders))
    /\ StatSummary["SuccessfulBudget"] = SumOver(Budget, Won(YearTenders))
    /\ StatSummary["SuspendedTenders"] = Cardinality(Halted(YearTenders))
    /\ StatSummary["TotalContracts"] = Cardinality(YearGerees)
    /\ StatSummary["TotalContractValue"] = SumOver(Amount, YearGerees)
<1>1. /\ DOMAIN StatSummary = OfOrders \cup OfTenders \cup OfContracts
      /\ StatSummary["TotalOrders"] = Cardinality(YearItems)
      /\ StatSummary["TotalOrderValue"] = SumOver(Price, YearItems)
    BY Columns DEF StatSummary
<1>2. /\ StatSummary["TotalTenders"] = Cardinality(YearTenders)
      /\ StatSummary["TotalBudget"] = SumOver(Budget, YearTenders)
      /\ StatSummary["SuccessfulTenders"] = Cardinality(Won(YearTenders))
      /\ StatSummary["SuccessfulBudget"] = SumOver(Budget, Won(YearTenders))
      /\ StatSummary["SuspendedTenders"] = Cardinality(Halted(YearTenders))
    BY Columns DEF StatSummary
<1>3. /\ StatSummary["TotalContracts"] = Cardinality(YearGerees)
      /\ StatSummary["TotalContractValue"] = SumOver(Amount, YearGerees)
    BY Columns DEF StatSummary
<1> QED
    BY <1>1, <1>2, <1>3

\* More rows have more of a sum.
LEMMA SumsGrow ==
    ASSUME NEW T, IsFiniteSet(T), NEW S, S \subseteq T, NEW h, \A x \in T : h[x] \in Nat,
           NEW f, \A x \in S : f[x] = h[x]
    PROVE  /\ SumOver(f, S) \in Nat /\ SumOver(h, T) \in Nat /\ SumOver(f, S) <= SumOver(h, T)
           /\ Cardinality(S) \in Nat /\ Cardinality(T) \in Nat /\ Cardinality(S) <= Cardinality(T)
<1>1. S \in SUBSET T
    OBVIOUS
<1>2. /\ IsFiniteSet(S) /\ Cardinality(S) <= Cardinality(T)
      /\ Cardinality(S) \in Nat /\ Cardinality(T) \in Nat
    BY <1>1, FS_Subset, FS_CardinalityType
<1> QED
    BY <1>1, <1>2, SumGrows

\* Prices are numbers.
LEMMA PricesTyped == ASSUME TablesOK PROVE \A b : TotalPrice(b) \in Nat
<1> SUFFICES ASSUME NEW b PROVE TotalPrice(b) \in Nat
    OBVIOUS
<1>1. TotalPrice(b) = SumOver(Price, PricedItems(b))
    BY PriceOf DEF PricesSummed
<1>2. PricedItems(b) \in SUBSET DOMAIN item /\ IsFiniteSet(DOMAIN item)
    BY DEF PricedItems, TablesOK, IsTable
<1>3. \A i \in DOMAIN item : item[i] \in ItemRow /\ Price[i] \in Nat
    BY DEF TablesOK, IsTable, ItemRow, Price
<1>4. IsFiniteSet(PricedItems(b))
    BY <1>2, FS_Subset
<1> QED
    BY <1>1, <1>2, <1>3, <1>4, SumNat

\* What is added only adds to the figures of a year.
LEMMA SummaryGrows ==
    ASSUME TablesOK, TablesOK', Grows
    PROVE  /\ DOMAIN StatSummary = OfOrders \cup OfTenders \cup OfContracts
           /\ DOMAIN StatSummary' = OfOrders \cup OfTenders \cup OfContracts
           /\ \A c \in OfOrders \cup OfTenders \cup OfContracts :
                 /\ StatSummary[c] \in Nat /\ StatSummary'[c] \in Nat
                 /\ StatSummary[c] <= StatSummary'[c]
<1>1. TablesOK' => (/\ IsFiniteSet(YearItems) /\ \A i \in YearItems : Price[i] \in Nat
                    /\ IsFiniteSet(YearTenders) /\ \A t \in YearTenders : Budget[t] \in Nat
                    /\ IsFiniteSet(YearGerees) /\ \A g \in YearGerees : Amount[g] \in Nat)'
    BY FiguresTyped, PTL
<1>2. (/\ DOMAIN StatSummary = OfOrders \cup OfTenders \cup OfContracts
       /\ StatSummary["TotalOrders"] = Cardinality(YearItems)
       /\ StatSummary["TotalOrderValue"] = SumOver(Price, YearItems)
       /\ StatSummary["TotalTenders"] = Cardinality(YearTenders)
       /\ StatSummary["TotalBudget"] = SumOver(Budget, YearTenders)
       /\ StatSummary["SuccessfulTenders"] = Cardinality(Won(YearTenders))
       /\ StatSummary["SuccessfulBudget"] = SumOver(Budget, Won(YearTenders))
       /\ StatSummary["SuspendedTenders"] = Cardinality(Halted(YearTenders))
       /\ StatSummary["TotalContracts"] = Cardinality(YearGerees)
       /\ StatSummary["TotalContractValue"] = SumOver(Amount, YearGerees))'
    BY SummaryColumns, PTL
<1>3. /\ YearItems \subseteq YearItems' /\ \A i \in YearItems : Price[i] = Price'[i]
    BY DEF Grows, YearItems, Price
<1>4. /\ YearTenders \subseteq YearTenders' /\ \A t \in YearTenders : Budget[t] = Budget'[t]
    BY DEF Grows, YearTenders, Budget
<1>5. /\ YearGerees \subseteq YearGerees' /\ \A g \in YearGerees : Amount[g] = Amount'[g]
    BY DEF Grows, YearGerees, Amount
<1>6. /\ Won(YearTenders) \subseteq Won(YearTenders)' /\ Halted(YearTenders) \subseteq Halted(YearTenders)'
      /\ Won(YearTenders) \subseteq YearTenders /\ Won(YearTenders)' \subseteq YearTenders'
      /\ Halted(YearTenders)' \subseteq YearTenders'
    BY DEF Grows, YearTenders, Won, Halted
<1>7. IsFiniteSet(Won(YearTenders)') /\ IsFiniteSet(Halted(YearTenders)')
    BY <1>1, <1>6, FS_Subset
<1>8. /\ Cardinality(YearItems) \in Nat /\ Cardinality(YearItems') \in Nat
      /\ Cardinality(YearItems) <= Cardinality(YearItems')
      /\ SumOver(Price, YearItems) \in Nat /\ SumOver(Price', YearItems') \in Nat
      /\ SumOver(Price, YearItems) <= SumOver(Price', YearItems')
    BY <1>1, <1>3, SumsGrow
<1>9. /\ Cardinality(YearTenders) \in Nat /\ Cardinality(YearTenders') \in Nat
      /\ Cardinality(YearTenders) <= Cardinality(YearTenders')
      /\ SumOver(Budget, YearTenders) \in Nat /\ SumOver(Budget', YearTenders') \in Nat
      /\ SumOver(Budget, YearTenders) <= SumOver(Budget', YearTenders')
    BY <1>1, <1>4, SumsGrow
<1>10. /\ Cardinality(YearGerees) \in Nat /\ Cardinality(YearGerees') \in Nat
       /\ Cardinality(YearGerees) <= Cardinality(YearGerees')
       /\ SumOver(Amount, YearGerees) \in Nat /\ SumOver(Amount', YearGerees') \in Nat
       /\ SumOver(Amount, YearGerees) <= SumOver(Amount', YearGerees')
    BY <1>1, <1>5, SumsGrow
<1>11. /\ Cardinality(Won(YearTenders)) \in Nat /\ Cardinality(Won(YearTenders)') \in Nat
       /\ Cardinality(Won(YearTenders)) <= Cardinality(Won(YearTenders)')
       /\ SumOver(Budget, Won(YearTenders)) \in Nat /\ SumOver(Budget', Won(YearTenders)') \in Nat
       /\ SumOver(Budget, Won(YearTenders)) <= SumOver(Budget', Won(YearTenders)')
    <2>1. \A t \in Won(YearTenders)' : Budget'[t] \in Nat
        BY <1>1, <1>6
    <2>2. \A t \in Won(YearTenders) : Budget[t] = Budget'[t]
        BY <1>4, <1>6
    <2> QED
        BY <1>6, <1>7, <2>1, <2>2, SumsGrow
<1>12. /\ Cardinality(Halted(YearTenders)) \in Nat /\ Cardinality(Halted(YearTenders)') \in Nat
       /\ Cardinality(Halted(YearTenders)) <= Cardinality(Halted(YearTenders)')
    <2>1. Halted(YearTenders) \in SUBSET Halted(YearTenders)'
        BY <1>6
    <2> QED
        BY <1>7, <2>1, FS_Subset, FS_CardinalityType
<1>13. ASSUME NEW c \in OfOrders \cup OfTenders \cup OfContracts
       PROVE  /\ StatSummary[c] \in Nat /\ StatSummary'[c] \in Nat
              /\ StatSummary[c] <= StatSummary'[c]
    <2>1. CASE c = "TotalOrders" \/ c = "TotalOrderValue"
        BY <1>2, <1>8, <2>1, SummaryColumns
    <2>2. CASE c = "TotalTenders" \/ c = "TotalBudget"
        BY <1>2, <1>9, <2>2, SummaryColumns
    <2>3. CASE c = "SuccessfulTenders" \/ c = "SuccessfulBudget"
        BY <1>2, <1>11, <2>3, SummaryColumns
    <2>4. CASE c = "SuspendedTenders"
        BY <1>2, <1>12, <2>4, SummaryColumns
    <2>5. CASE c = "TotalContracts" \/ c = "TotalContractValue"
        BY <1>2, <1>10, <2>5, SummaryColumns
    <2> QED
        BY <2>1, <2>2, <2>3, <2>4, <2>5 DEF OfOrders, OfTenders, OfContracts
<1> QED
    BY <1>2, <1>13, SummaryColumns

\* And to the price of a basket.
LEMMA PriceGrows ==
    ASSUME TablesOK, TablesOK', Grows, NEW b
    PROVE  TotalPrice(b) \in Nat /\ TotalPrice(b)' \in Nat /\ TotalPrice(b) <= TotalPrice(b)'
<1>1. TotalPrice(b) = SumOver(Price, PricedItems(b))
    BY PriceOf DEF PricesSummed
<1>2. TotalPrice(b)' = SumOver(Price', PricedItems(b)')
    <2>1. PricesSummed'
        BY PriceOf, PTL
    <2> QED
        BY <2>1 DEF PricesSummed
<1>3. IsFiniteSet(PricedItems(b)') /\ \A i \in PricedItems(b)' : Price'[i] \in Nat
    <2>1. PricedItems(b)' \in SUBSET DOMAIN item' /\ IsFiniteSet(DOMAIN item')
        BY DEF PricedItems, TablesOK, IsTable
    <2>2. \A i \in DOMAIN item' : item'[i] \in ItemRow
        BY DEF TablesOK, IsTable
    <2>3. \A i \in DOMAIN item' : Price'[i] \in Nat
        BY <2>2 DEF Price, ItemRow
    <2> QED
        BY <2>1, <2>3, FS_Subset
<1>4. PricedItems(b) \subseteq PricedItems(b)' /\ \A i \in PricedItems(b) : Price[i] = Price'[i]
    BY DEF Grows, PricedItems, Price
<1> QED
    BY <1>1, <1>2, <1>3, <1>4, SumsGrow

\* The step of an order that is there, and its rank.
Ranked ==
    \A i \in DOMAIN item :
        /\ Reach(ItemSide(i)) \in 0..5
        /\ Reach(StepsOf(i)) = Level(Reach(ItemSide(i)), TendersOf(item[i].basket) # {},
                                           GereesOf(item[i].basket) # {}, item[i].arrived)
        /\ Reach(StepsOf(i)) \in 0..8

LEMMA KeyRank == TablesOK => Ranked
<1> SUFFICES ASSUME TablesOK, NEW i \in DOMAIN item
             PROVE  /\ Reach(ItemSide(i)) \in 0..5
                    /\ Reach(StepsOf(i)) = Level(Reach(ItemSide(i)), TendersOf(item[i].basket) # {},
                                                       GereesOf(item[i].basket) # {}, item[i].arrived)
                    /\ Reach(StepsOf(i)) \in 0..8
    BY DEF Ranked
<1>1. item[i].dates \in SUBSET Range(ItemSteps) /\ item[i].arrived \in BOOLEAN
    BY DEF TablesOK, IsTable, ItemRow
<1>2. Reach(ItemSide(i)) \in 0..5
    BY <1>1, LatestLast
<1>3. Reach(StepsOf(i)) = Level(Reach(ItemSide(i)), TendersOf(item[i].basket) # {},
                                      GereesOf(item[i].basket) # {}, item[i].arrived)
    BY <1>1, KeyStep
<1> QED
    BY <1>2, <1>3 DEF Level

\* What is added takes no order back.
LEMMA StepGrows ==
    ASSUME TablesOK, TablesOK', Grows, NEW i \in DOMAIN item
    PROVE  /\ i \in DOMAIN item' /\ item'[i].basket = item[i].basket
           /\ item[i].arrived => item'[i].arrived
           /\ ItemSide(i)' = ItemSide(i)
           /\ \A b : /\ TendersOf(b) # {} => TendersOf(b)' # {}
                     /\ GereesOf(b) # {} => GereesOf(b)' # {}
           /\ Reach(StepsOf(i)) \in 0..8 /\ Reach(StepsOf(i))' \in 0..8
           /\ Reach(StepsOf(i)) <= Reach(StepsOf(i))'
<1>1. /\ i \in DOMAIN item' /\ item'[i].basket = item[i].basket
      /\ item[i].arrived => item'[i].arrived
      /\ item'[i].dates = item[i].dates
    BY DEF Grows
<1>2. ItemSide(i)' = ItemSide(i)
    BY <1>1 DEF ItemSide
<1>3. \A b : TendersOf(b) \subseteq TendersOf(b)' /\ GereesOf(b) \subseteq GereesOf(b)'
    BY DEF Grows, TendersOf, GereesOf
<1>4. Ranked'
    BY KeyRank, PTL
<1> DEFINE T == TendersOf(item[i].basket) # {}
           G == GereesOf(item[i].basket) # {}
<1>5. /\ Reach(StepsOf(i))' \in 0..8
      /\ Reach(StepsOf(i))' = Level(Reach(ItemSide(i))', T', G', item'[i].arrived)
    BY <1>1, <1>4 DEF Ranked
<1>6. /\ Reach(ItemSide(i)) \in 0..5 /\ Reach(StepsOf(i)) \in 0..8
      /\ Reach(StepsOf(i)) = Level(Reach(ItemSide(i)), T, G, item[i].arrived)
    BY KeyRank DEF Ranked
<1>7. (T => T') /\ (G => G')
    BY <1>1, <1>3 DEF Grows, TendersOf, GereesOf
<1>8. Reach(ItemSide(i))' = Reach(ItemSide(i))
    BY <1>2
<1> HIDE DEF T, G
<1>9. Reach(StepsOf(i)) <= Reach(StepsOf(i))'
    BY <1>1, <1>5, <1>6, <1>7, <1>8 DEF Level
<1> QED
    BY <1>1, <1>2, <1>3, <1>5, <1>6, <1>9

\* What a reader knows stays true while others only add.
LEMMA KnowsGrows ==
    ASSUME TablesOK, TablesOK', Grows, Knows, UNCHANGED reader
    PROVE  Knows'
<1>1. Staged' /\ disturbed' = disturbed
    BY DEF Knows, Staged, reader
<1>2. SUFFICES ASSUME ~disturbed, Known PROVE Known'
    BY <1>1 DEF Knows
<1>3. /\ call' = call /\ pc' = pc /\ got' = got /\ answer' = answer /\ since' = since
    BY DEF reader
<1>4. ASSUME OfOrder
      PROVE  /\ OfOrder' /\ ItemSide(call.item)' = ItemSide(call.item)
             /\ TendersOf(got.basket) # {} => TendersOf(got.basket)' # {}
             /\ GereesOf(got.basket) # {} => GereesOf(got.basket)' # {}
             /\ Reach(ItemSide(call.item)) \in 0..5 /\ got.arrived \in BOOLEAN
    <2>1. PICK i \in DOMAIN item : i = call.item
        BY <1>4 DEF OfOrder
    <2>2. /\ i \in DOMAIN item' /\ item'[i].basket = item[i].basket
          /\ item[i].arrived => item'[i].arrived
          /\ ItemSide(i)' = ItemSide(i)
        BY StepGrows
    <2>3. OfOrder'
        BY <1>3, <1>4, <2>1, <2>2 DEF OfOrder
    <2>4. ItemSide(call.item)' = ItemSide(call.item)
        BY <1>3, <2>1, <2>2 DEF ItemSide
    <2>5. /\ TendersOf(got.basket) # {} => TendersOf(got.basket)' # {}
          /\ GereesOf(got.basket) # {} => GereesOf(got.basket)' # {}
        BY <1>3 DEF Grows, TendersOf, GereesOf
    <2>6. Reach(ItemSide(call.item)) \in 0..5
        BY <2>1, KeyRank DEF Ranked
    <2>7. got.arrived \in BOOLEAN
        BY <1>4 DEF OfOrder, Sofar
    <2> QED
        BY <2>3, <2>4, <2>5, <2>6, <2>7
<1> DEFINE L == Reach(ItemSide(call.item))
           T == TendersOf(got.basket) # {}
           G == GereesOf(got.basket) # {}
<1>5. ASSUME AtTender PROVE AtTender'
    <2>1. OfOrder' /\ L' = L /\ (T => T') /\ (G => G') /\ L \in 0..5 /\ got.arrived \in BOOLEAN
        BY <1>4, <1>5 DEF AtTender
    <2>2. Reach(got'.steps) = Reach(ItemSide(call.item)')
        BY <1>3, <1>4, <1>5 DEF AtTender
    <2>3. Reach(since) \in 0..8 /\ Reach(since) <= Level(L, T, G, got.arrived)
        BY <1>5 DEF AtTender
    <2> HIDE DEF L, T, G
    <2>4. Reach(since) <= Level(L', T', G', got.arrived)
        BY <2>1, <2>3 DEF Level
    <2>5. Reach(since') <= Level(L', T', G', got'.arrived) /\ Reach(since') \in 0..8
        BY <1>3, <2>3, <2>4
    <2> QED
        BY <2>1, <2>2, <2>5 DEF AtTender, L, T, G
<1>6. ASSUME AtGeree PROVE AtGeree'
    <2>1. OfOrder' /\ L' = L /\ (T => T') /\ (G => G') /\ L \in 0..5 /\ got.arrived \in BOOLEAN
        BY <1>4, <1>6 DEF AtGeree
    <2> DEFINE C == Reach(got.steps)
    <2>2. /\ C \in 0..6 /\ Reach(since) \in 0..8 /\ C <= Level(L, T, FALSE, FALSE)
          /\ Reach(since) <= Level(C, FALSE, G, got.arrived)
        BY <1>6 DEF AtGeree
    <2>3. C' = C
        BY <1>3
    <2> HIDE DEF L, T, G, C
    <2>4. C' <= Level(L', T', FALSE, FALSE)
        BY <2>1, <2>2, <2>3 DEF Level
    <2>5. Reach(since) <= Level(C', FALSE, G', got.arrived)
        BY <2>1, <2>2, <2>3 DEF Level
    <2>6. /\ Reach(since') <= Level(C', FALSE, G', got'.arrived) /\ Reach(since') \in 0..8
          /\ C' \in 0..6
        BY <1>3, <2>2, <2>3, <2>5
    <2> QED
        BY <2>1, <2>4, <2>6 DEF AtGeree, L, T, G, C
<1>7. ASSUME AtSummary PROVE AtSummary'
    <2>1. \A c \in DOMAIN since : since[c] <= StatSummary'[c]
        <3>1. \A c \in DOMAIN since : /\ since[c] \in Nat /\ since[c] <= StatSummary[c]
                                      /\ StatSummary[c] \in Nat /\ StatSummary'[c] \in Nat
                                      /\ StatSummary[c] <= StatSummary'[c]
            BY <1>7, SummaryGrows DEF AtSummary, Numbers
        <3> QED
            BY <3>1
    <2>2. \A c \in OfOrders : Added(got, c) \in Nat /\ Added(got, c) <= StatSummary'[c]
        <3>1. \A c \in OfOrders : /\ Added(got, c) \in Nat /\ Added(got, c) <= StatSummary[c]
                                  /\ StatSummary[c] \in Nat /\ StatSummary'[c] \in Nat
                                  /\ StatSummary[c] <= StatSummary'[c]
            BY <1>7, SummaryGrows DEF AtSummary
        <3> QED
            BY <3>1
    <2> QED
        BY <1>3, <1>7, <2>1, <2>2 DEF AtSummary, Numbers
<1>8. \A b : TotalPrice(b) \in Nat /\ TotalPrice(b)' \in Nat /\ TotalPrice(b) <= TotalPrice(b)'
    BY PriceGrows
<1>9. ASSUME AtTotal PROVE AtTotal'
    <2>1. \A b \in DOMAIN since : since[b] \in Nat /\ since[b] <= TotalPrice(b)
        BY <1>9 DEF AtTotal, Numbers
    <2>2. \A b \in DOMAIN got : got[b] \in Nat /\ since[b] <= got[b] /\ got[b] <= TotalPrice(b)
        BY <1>9 DEF AtTotal, Numbers
    <2>3. /\ \A b \in DOMAIN since : since[b] <= TotalPrice(b)'
          /\ \A b \in DOMAIN got : got[b] <= TotalPrice(b)'
        BY <1>8, <2>1, <2>2
    <2> QED
        BY <1>3, <1>9, <2>3 DEF AtTotal, Numbers
<1>10. ASSUME ToldSteps PROVE ToldSteps'
    <2>1. PICK i \in DOMAIN item : i = call.item
        BY <1>10 DEF ToldSteps
    <2>2. /\ i \in DOMAIN item' /\ Reach(StepsOf(i)) \in 0..8
          /\ Reach(StepsOf(i))' \in 0..8
          /\ Reach(StepsOf(i)) <= Reach(StepsOf(i))'
        BY StepGrows
    <2>3. /\ Reach(since) \in 0..8 /\ Reach(answer) \in 0..8
          /\ Reach(since) <= Reach(answer)
          /\ Reach(answer) <= Reach(StepsOf(i))
        BY <1>10, <2>1 DEF ToldSteps
    <2>4. Reach(answer) <= Reach(StepsOf(i))'
        BY <2>2, <2>3
    <2>5. StepsOf(call.item)' = StepsOf(i)'
        BY <1>3, <2>1 DEF StepsOf, ItemSide, TendersOf, GereesOf
    <2> QED
        BY <1>3, <2>1, <2>2, <2>3, <2>4, <2>5 DEF ToldSteps
<1>11. ASSUME ToldStatistic PROVE ToldStatistic'
    <2>1. \A c \in DOMAIN since : answer.summary[c] <= StatSummary'[c]
        <3>1. \A c \in DOMAIN since : /\ answer.summary[c] \in Nat /\ answer.summary[c] <= StatSummary[c]
                                      /\ StatSummary[c] \in Nat /\ StatSummary'[c] \in Nat
                                      /\ StatSummary[c] <= StatSummary'[c]
            BY <1>11, SummaryGrows DEF ToldStatistic
        <3> QED
            BY <3>1
    <2> QED
        BY <1>3, <1>11, <2>1 DEF ToldStatistic
<1>12. ASSUME ToldTotals PROVE ToldTotals'
    <2>1. \A b \in DOMAIN since : answer[b] <= TotalPrice(b)'
        BY <1>8, <1>12 DEF ToldTotals
    <2> QED
        BY <1>3, <1>12, <2>1 DEF ToldTotals
<1> QED
    BY <1>2, <1>3, <1>5, <1>6, <1>7, <1>9, <1>10, <1>11, <1>12 DEF Known

\* The tables as one statement leaves them for the next.
LEMMA Still ==
    ASSUME UNCHANGED tables
    PROVE  /\ \A i : ItemSide(i)' = ItemSide(i) /\ StepsOf(i)' = StepsOf(i)
           /\ \A b : TendersOf(b)' = TendersOf(b) /\ GereesOf(b)' = GereesOf(b)
           /\ \A b : TotalPrice(b)' = TotalPrice(b)
           /\ StatSummary' = StatSummary
<1>1. basket' = basket /\ item' = item /\ tender' = tender /\ geree' = geree
    BY DEF tables
<1>2. \A b : TendersOf(b)' = TendersOf(b) /\ GereesOf(b)' = GereesOf(b)
    BY <1>1 DEF TendersOf, GereesOf
<1>3. \A i : ItemSide(i)' = ItemSide(i)
    BY <1>1 DEF ItemSide
<1>4. \A i : StepsOf(i)' = StepsOf(i)
    BY <1>1, <1>3 DEF StepsOf, TendersOf, GereesOf
<1>5. \A b : TotalPrice(b)' = TotalPrice(b)
    BY <1>1 DEF TotalPrice, PricedItems
<1>6. /\ YearItems' = YearItems /\ YearTenders' = YearTenders /\ YearGerees' = YearGerees
      /\ Price' = Price /\ Budget' = Budget /\ Amount' = Amount
    BY <1>1 DEF YearItems, YearTenders, YearGerees, Price, Budget, Amount
<1>7. StatSummary' = StatSummary
    BY <1>1, <1>6 DEF StatSummary, Figures
<1> QED
    BY <1>2, <1>3, <1>4, <1>5, <1>7

\* GetItemSteps, its first query.
LEMMA ReadItemKnows ==
    ASSUME TablesOK, UNCHANGED tables, Knows, ReadItem
    PROVE  Knows'
<1>1. CASE Return(None)
    BY <1>1 DEF Return, Knows, Staged, Known
<1>2. CASE /\ call.item \in DOMAIN item /\ ~item[call.item].returned
           /\ got' = [basket |-> item[call.item].basket, steps |-> ItemSide(call.item),
                      arrived |-> item[call.item].arrived]
           /\ since' = StepsOf(call.item)
           /\ Goto("tender")
    <2>1. PICK i \in DOMAIN item : i = call.item
        BY <1>2
    <2>2. /\ pc' = "tender" /\ call' = call /\ answer' = None /\ call.kind = "Steps" /\ item' = item
        BY <1>2 DEF Goto, Knows, Staged, ReadItem, tables
    <2>3. /\ item[i].dates \in SUBSET Range(ItemSteps) /\ item[i].arrived \in BOOLEAN
          /\ item[i].basket \in Nat
        BY DEF TablesOK, IsTable, ItemRow
    <2>4. ItemSide(i) \in Seq(Steps) /\ Reach(ItemSide(i)) = Reach(ItemSide(i))
        BY <2>3, LatestLast
    <2>5. /\ Reach(StepsOf(i)) \in 0..8
          /\ Reach(StepsOf(i)) = Level(Reach(ItemSide(i)), TendersOf(item[i].basket) # {},
                                             GereesOf(item[i].basket) # {}, item[i].arrived)
        BY KeyRank DEF Ranked
    <2> DEFINE b == item[i].basket
    <2>6. /\ got'.basket = b /\ got'.steps = ItemSide(i) /\ got'.arrived = item[i].arrived
          /\ got' \in Sofar
        BY <1>2, <2>1, <2>3, <2>4 DEF Sofar
    <2>7. OfOrder'
        BY <2>1, <2>2, <2>6 DEF OfOrder
    <2>8. ItemSide(call.item)' = ItemSide(i)
        BY <2>1, <2>2 DEF ItemSide
    <2>9. /\ TendersOf(got.basket)' = TendersOf(b) /\ GereesOf(got.basket)' = GereesOf(b)
        BY <2>6 DEF TendersOf, GereesOf, tables
    <2>10. since' = StepsOf(i)
        BY <1>2, <2>1
    <2>11. AtTender'
        <3>1. Reach(got'.steps) = Reach(ItemSide(call.item)')
            BY <2>4, <2>6, <2>8
        <3>2. Reach(since') \in 0..8
            BY <2>5, <2>10
        <3>3. Reach(since') = Level(Reach(ItemSide(call.item)'), TendersOf(got.basket)' # {},
                                   GereesOf(got.basket)' # {}, got'.arrived)
            BY <2>5, <2>6, <2>8, <2>9, <2>10
        <3> QED
            BY <2>7, <3>1, <3>2, <3>3 DEF AtTender
    <2> QED
        BY <2>2, <2>11 DEF Knows, Staged, Known
<1> QED
    BY <1>1, <1>2 DEF ReadItem

\* Its second: the tenders, with what follows from them for the current step.
LEMMA ReadTenderKnows ==
    ASSUME TablesOK, UNCHANGED tables, Knows, ReadTender
    PROVE  Knows'
<1>1. PICK answered \in BOOLEAN :
          /\ got' = [got EXCEPT !.steps = WithTender(@, answered /\ TendersOf(got.basket) # {})]
          /\ disturbed' = (disturbed \/ ~answered)
    BY DEF ReadTender
<1>2. /\ pc = "tender" /\ pc' = "geree" /\ call' = call /\ answer' = answer /\ since' = since
      /\ answer = None /\ call.kind = "Steps"
    BY DEF ReadTender, Goto, Knows, Staged
<1>3. Staged'
    BY <1>2 DEF Staged
<1>4. SUFFICES ASSUME ~disturbed' PROVE AtGeree'
    BY <1>2, <1>3 DEF Knows, Known
<1>5. answered = TRUE /\ AtTender
    BY <1>1, <1>2, <1>4 DEF Knows, Known
<1> DEFINE b == got.basket
           T == TendersOf(b) # {}
           G == GereesOf(b) # {}
           L == Reach(ItemSide(call.item))
           s == got.steps
           w == With(s, "tender_started", T)
<1>6. /\ OfOrder /\ Reach(s) = Reach(ItemSide(call.item))
      /\ Reach(since) \in 0..8 /\ Reach(since) <= Level(L, T, G, got.arrived)
    BY <1>5 DEF AtTender
<1>7. s \in Seq(Steps) /\ got \in Sofar
    BY <1>6 DEF OfOrder, Sofar
<1>8. got' = [got EXCEPT !.steps = w]
    BY <1>1, <1>5 DEF WithTender
<1>9. w \in Seq(Steps) /\ Reach(w) = Level(L, T, FALSE, FALSE)
    <2>1. "tender_started" \in Steps
        BY DEF Steps
    <2>2. CASE T
        <3>1. w = Append(s, "tender_started")
            BY <2>2 DEF With
        <3> HIDE DEF w
        <3>2. w \in Seq(Steps) /\ Reach(w) = 6
            BY <1>7, <2>1, <3>1, AppendLast, Ranks
        <3> QED
            BY <2>2, <3>2 DEF Level
    <2>3. CASE ~T
        <3>1. w = s
            BY <2>3 DEF With
        <3> HIDE DEF w
        <3> QED
            BY <1>6, <1>7, <2>3, <3>1 DEF Level
    <2> QED
        BY <2>2, <2>3
<1>10. L \in 0..5 /\ got.arrived \in BOOLEAN
    <2>1. PICK i \in DOMAIN item : i = call.item
        BY <1>6 DEF OfOrder
    <2> QED
        BY <1>7, <2>1, KeyRank DEF Ranked, Sofar
<1> HIDE DEF w
<1>11. got'.basket = b /\ got'.steps = w /\ got'.arrived = got.arrived /\ got' \in Sofar
    BY <1>7, <1>8, <1>9 DEF Sofar
<1>12. OfOrder'
    BY <1>2, <1>6, <1>11 DEF OfOrder, tables
<1>13. /\ TendersOf(got.basket)' = TendersOf(b) /\ GereesOf(got.basket)' = GereesOf(b)
    BY <1>11 DEF TendersOf, GereesOf, tables
<1>14. ItemSide(call.item)' = ItemSide(call.item)
    BY <1>2 DEF ItemSide, tables
<1> HIDE DEF b, T, G, L, s
<1>15. /\ Reach(w) \in 0..6
       /\ Reach(w) <= Level(L, T, FALSE, FALSE)
       /\ Reach(since) <= Level(Reach(w), FALSE, G, got.arrived)
    BY <1>6, <1>9, <1>10 DEF Level
<1>16. /\ Reach(got'.steps) \in 0..6 /\ Reach(since') \in 0..8
       /\ Reach(got'.steps) <= Level(Reach(ItemSide(call.item)'), TendersOf(got.basket)' # {},
                                                 FALSE, FALSE)
       /\ Reach(since') <= Level(Reach(got'.steps), FALSE, GereesOf(got.basket)' # {},
                                got'.arrived)
    BY <1>2, <1>6, <1>11, <1>13, <1>14, <1>15 DEF L, T, G
<1> QED
    BY <1>12, <1>16 DEF AtGeree

\* Its third, and the answer.
LEMMA ReadGereeKnows ==
    ASSUME TablesOK, UNCHANGED tables, Knows, ReadGeree
    PROVE  Knows'
<1>1. PICK answered \in BOOLEAN :
          /\ Return(WithArrival(WithGeree(got.steps, answered /\ GereesOf(got.basket) # {}), got.arrived))
          /\ disturbed' = (disturbed \/ ~answered)
    BY DEF ReadGeree
<1>2. /\ pc = "geree" /\ pc' = "done" /\ call' = call /\ got' = got /\ since' = since
      /\ call.kind = "Steps"
    BY <1>1 DEF ReadGeree, Return, Knows, Staged
<1>3. Staged'
    BY <1>2 DEF Staged
<1>4. SUFFICES ASSUME ~disturbed' PROVE ToldSteps'
    BY <1>2, <1>3 DEF Knows, Known
<1>5. answered = TRUE /\ AtGeree
    BY <1>1, <1>2, <1>4 DEF Knows, Known
<1> DEFINE b == got.basket
           T == TendersOf(b) # {}
           G == GereesOf(b) # {}
           L == Reach(ItemSide(call.item))
           A == got.arrived
           s == got.steps
           u == With(s, "contract_signed", G)
           w == With(u, "delivered", A)
           C == Reach(s)
<1>6. /\ OfOrder /\ C \in 0..6 /\ Reach(since) \in 0..8
      /\ C <= Level(L, T, FALSE, FALSE) /\ Reach(since) <= Level(C, FALSE, G, A)
    BY <1>5 DEF AtGeree
<1>7. s \in Seq(Steps) /\ A \in BOOLEAN
    BY <1>6 DEF OfOrder, Sofar
<1>8. answer' = w
    BY <1>1, <1>5 DEF Return, WithGeree, WithArrival
<1>9. u \in Seq(Steps) /\ Reach(u) = Level(C, FALSE, G, FALSE)
    <2>1. "contract_signed" \in Steps
        BY DEF Steps
    <2>2. CASE G
        <3>1. u = Append(s, "contract_signed")
            BY <2>2 DEF With
        <3> HIDE DEF u
        <3>2. u \in Seq(Steps) /\ Reach(u) = 7
            BY <1>7, <2>1, <3>1, AppendLast, Ranks
        <3> QED
            BY <2>2, <3>2 DEF Level
    <2>3. CASE ~G
        <3>1. u = s
            BY <2>3 DEF With
        <3> HIDE DEF u
        <3> QED
            BY <1>7, <2>3, <3>1 DEF Level
    <2> QED
        BY <2>2, <2>3
<1> HIDE DEF u
<1>10. Reach(w) = Level(C, FALSE, G, A)
    <2>1. "delivered" \in Steps
        BY DEF Steps
    <2>2. CASE A
        <3>1. w = Append(u, "delivered")
            BY <2>2 DEF With
        <3> HIDE DEF w
        <3>2. Reach(w) = 8
            BY <1>9, <2>1, <3>1, AppendLast, Ranks
        <3> QED
            BY <2>2, <3>2 DEF Level
    <2>3. CASE ~A
        <3>1. w = u
            BY <2>3 DEF With
        <3> HIDE DEF w
        <3> QED
            BY <1>9, <2>3, <3>1 DEF Level
    <2> QED
        BY <2>2, <2>3
<1> HIDE DEF w
<1>11. PICK i \in DOMAIN item : i = call.item
    BY <1>6 DEF OfOrder
<1>12. /\ L \in 0..5 /\ Reach(StepsOf(i)) = Level(L, T, G, item[i].arrived)
       /\ A => item[i].arrived
    BY <1>6, <1>11, KeyRank DEF Ranked, OfOrder
<1>13. item[i].arrived \in BOOLEAN
    BY DEF TablesOK, IsTable, ItemRow
<1>14. StepsOf(call.item)' = StepsOf(i) /\ item' = item
    BY <1>2, <1>11 DEF StepsOf, ItemSide, TendersOf, GereesOf, tables
<1> HIDE DEF b, T, G, L, A, s, C
<1>15. /\ Reach(w) \in 0..8 /\ Reach(since) <= Reach(w)
       /\ Reach(w) <= Reach(StepsOf(i))
    BY <1>6, <1>7, <1>10, <1>12, <1>13 DEF Level
<1>16. /\ call'.item \in DOMAIN item' /\ Reach(since') \in 0..8
       /\ Reach(answer') \in 0..8 /\ Reach(since') <= Reach(answer')
       /\ Reach(answer') <= Reach(StepsOf(call.item)')
    BY <1>2, <1>6, <1>8, <1>11, <1>14, <1>15
<1> QED
    BY <1>16 DEF ToldSteps

\* GetStatistic, its first query.
LEMMA ReadRowsKnows ==
    ASSUME TablesOK, UNCHANGED tables, Knows, ReadRows
    PROVE  Knows'
<1>1. /\ pc' = "summary" /\ call' = call /\ answer' = None /\ call.kind = "Statistic"
      /\ got' = StatRows /\ since' = StatSummary
    BY DEF ReadRows, Goto, Knows, Staged
<1>2. StatSummary' = StatSummary
    BY Still
<1>3. DOMAIN StatSummary = OfOrders \cup OfTenders \cup OfContracts
    BY SummaryColumns
<1>4. \A c \in OfOrders : /\ Added(StatRows, c) \in Nat /\ StatSummary[c] \in Nat
                          /\ Added(StatRows, c) = StatSummary[c]
    BY ReadAssumption, OrdersAddUp
<1>5. \A c \in OfOrders \cup OfTenders \cup OfContracts : StatSummary[c] \in Nat
    BY ReadAssumption, OrdersAddUp, TendersAddUp, ContractsAddUp
<1>6. AtSummary'
    <2>1. DOMAIN since' = OfOrders \cup OfTenders \cup OfContracts /\ Numbers(since')
        BY <1>1, <1>3, <1>5 DEF Numbers
    <2>2. \A c \in DOMAIN since' : since'[c] <= StatSummary'[c]
        BY <1>1, <1>2, <1>3, <1>5
    <2>3. \A c \in OfOrders : Added(got', c) \in Nat /\ Added(got', c) <= StatSummary'[c]
        BY <1>1, <1>2, <1>4
    <2> QED
        BY <2>1, <2>2, <2>3 DEF AtSummary
<1> QED
    BY <1>1, <1>6 DEF Knows, Staged, Known

\* Its second, and the answer.
LEMMA ReadSummaryKnows ==
    ASSUME TablesOK, UNCHANGED tables, Knows, ReadSummary
    PROVE  Knows'
<1>1. /\ pc = "summary" /\ pc' = "done" /\ call' = call /\ got' = got /\ since' = since
      /\ answer' = [rows |-> got, summary |-> StatSummary] /\ disturbed' = disturbed
      /\ call.kind = "Statistic"
    BY DEF ReadSummary, Return, Knows, Staged
<1>2. Staged'
    BY <1>1 DEF Staged
<1>3. SUFFICES ASSUME ~disturbed PROVE ToldStatistic'
    BY <1>1, <1>2 DEF Knows, Known
<1>4. AtSummary
    BY <1>1, <1>3 DEF Knows, Known
<1>5. StatSummary' = StatSummary
    BY Still
<1>6. \A c \in OfOrders \cup OfTenders \cup OfContracts : StatSummary[c] \in Nat
    BY ReadAssumption, OrdersAddUp, TendersAddUp, ContractsAddUp, SummaryColumns
<1>7. answer'.rows = got /\ answer'.summary = StatSummary
    BY <1>1
<1> QED
    BY <1>1, <1>4, <1>5, <1>6, <1>7 DEF AtSummary, ToldStatistic, Numbers

\* GetBasketWithTotalPrice, its first query.
LEMMA ReadBasketsKnows ==
    ASSUME TablesOK, UNCHANGED tables, Knows, ReadBaskets
    PROVE  Knows'
<1>1. /\ pc' = "total" /\ call' = call /\ answer' = None /\ call.kind = "Totals"
      /\ got' = [b \in {} |-> 0] /\ since' = [b \in DOMAIN basket |-> TotalPrice(b)]
    BY DEF ReadBaskets, Goto, Knows, Staged
<1>2. \A b : TotalPrice(b)' = TotalPrice(b)
    BY Still
<1>3. \A b : TotalPrice(b) \in Nat
    BY PricesTyped
<1>4. /\ DOMAIN got' = {} /\ DOMAIN since' = DOMAIN basket
      /\ \A b \in DOMAIN since' : since'[b] = TotalPrice(b)
    BY <1>1
<1>5. AtTotal'
    BY <1>2, <1>3, <1>4 DEF AtTotal, Numbers
<1> QED
    BY <1>1, <1>5 DEF Knows, Staged, Known

\* Its query for one price.
LEMMA ReadTotalKnows ==
    ASSUME TablesOK, UNCHANGED tables, Knows, ReadTotal
    PROVE  Knows'
<1>1. PICK b \in NextBasket, answered \in BOOLEAN :
          /\ got' = Inserted(got, b, IF answered THEN TotalPrice(b) ELSE 0)
          /\ disturbed' = (disturbed \/ ~answered)
    BY DEF ReadTotal
<1>2. /\ pc = "total" /\ pc' = "total" /\ call' = call /\ answer' = answer /\ since' = since
      /\ answer = None /\ call.kind = "Totals"
    BY DEF ReadTotal, Goto, Knows, Staged
<1>3. Staged'
    BY <1>2 DEF Staged
<1>4. SUFFICES ASSUME ~disturbed' PROVE AtTotal'
    BY <1>2, <1>3 DEF Knows, Known
<1>5. answered = TRUE /\ AtTotal
    BY <1>1, <1>2, <1>4 DEF Knows, Known
<1>6. b \in DOMAIN since \ DOMAIN got
    BY DEF NextBasket
<1>7. got' = Inserted(got, b, TotalPrice(b))
    BY <1>1, <1>5
<1>8. /\ DOMAIN got' = DOMAIN got \cup {b} /\ got'[b] = TotalPrice(b)
      /\ \A d \in DOMAIN got : got'[d] = got[d]
    BY <1>6, <1>7 DEF Inserted
<1>9. \A d : TotalPrice(d)' = TotalPrice(d)
    BY Still
<1>10. \A d : TotalPrice(d) \in Nat
    BY PricesTyped
<1>11. /\ \A d \in DOMAIN since : since[d] \in Nat /\ since[d] <= TotalPrice(d)
       /\ \A d \in DOMAIN got : got[d] \in Nat /\ since[d] <= got[d] /\ got[d] <= TotalPrice(d)
       /\ DOMAIN got \subseteq DOMAIN since
    BY <1>5 DEF AtTotal, Numbers
<1>12. \A d \in DOMAIN got' : /\ got'[d] \in Nat /\ since[d] <= got'[d]
                              /\ got'[d] <= TotalPrice(d)
    BY <1>6, <1>8, <1>10, <1>11
<1>13. DOMAIN got' \subseteq DOMAIN since
    BY <1>6, <1>8, <1>11
<1> QED
    BY <1>2, <1>9, <1>11, <1>12, <1>13 DEF AtTotal, Numbers

\* And the answer.
LEMMA AnswerTotalsKnows ==
    ASSUME TablesOK, UNCHANGED tables, Knows, AnswerTotals
    PROVE  Knows'
<1>1. /\ pc = "total" /\ pc' = "done" /\ call' = call /\ since' = since /\ answer' = got
      /\ disturbed' = disturbed /\ DOMAIN got = DOMAIN since /\ call.kind = "Totals"
    BY DEF AnswerTotals, Return, Knows, Staged
<1>2. Staged'
    BY <1>1 DEF Staged
<1>3. SUFFICES ASSUME ~disturbed PROVE ToldTotals'
    BY <1>1, <1>2 DEF Knows, Known
<1>4. AtTotal
    BY <1>1, <1>3 DEF Knows, Known
<1>5. \A d : TotalPrice(d)' = TotalPrice(d)
    BY Still
<1> QED
    BY <1>1, <1>4, <1>5 DEF AtTotal, ToldTotals, Numbers

\* The invariant of the readers is one.
LEMMA KnowsStep ==
    ASSUME TablesOK, TablesOK', Knows, [Next]_vars
    PROVE  Knows'
<1>1. ASSUME UNCHANGED tables PROVE Grows
    BY <1>1 DEF Grows, tables
<1>2. CASE UNCHANGED vars
    BY <1>1, <1>2, KnowsGrows DEF vars
<1>3. CASE (Read \/ FailRead) /\ UNCHANGED tables
    <2>1. CASE FailRead
        BY <2>1 DEF FailRead, Return, Knows, Staged, Known
    <2>2. CASE Read
        BY <1>3, <2>2, ReadItemKnows, ReadTenderKnows, ReadGereeKnows, ReadRowsKnows,
           ReadSummaryKnows, ReadBasketsKnows, ReadTotalKnows, AnswerTotalsKnows DEF Read
    <2> QED
        BY <1>3, <2>1, <2>2
<1>4. CASE Add /\ UNCHANGED reader
    BY <1>4, AddGrows, KnowsGrows
<1>5. CASE TakeBack /\ disturbed' = TRUE /\ UNCHANGED <<call, pc, got, answer, since>>
    BY <1>5 DEF Knows, Staged
<1> QED
    BY <1>2, <1>3, <1>4, <1>5 DEF Next

LEMMA KnowsAlways == Spec => []Knows
<1>1. Init => Knows
    BY DEF Init, Knows, Staged, Known
<1>2. TablesOK /\ TablesOK' /\ Knows /\ [Next]_vars => Knows'
    BY KnowsStep
<1> QED
    BY <1>1, <1>2, TablesTyped, PTL DEF Spec

\* GetItemSteps.go, GetStatistic.go, GetBasketWithTotalPrice.go: what they put together from
\* several statements lies between what one statement would have shown at the beginning and
\* what it would show now, whatever is added meanwhile.
THEOREM AnswersTrue == Spec => []AnswersBetween
<1>1. Knows => AnswersBetween
    <2> SUFFICES ASSUME Knows, answer # None, ~disturbed PROVE Between
        BY DEF AnswersBetween
    <2>1. /\ call.kind \in {"Steps", "Statistic", "Totals"}
          /\ call.kind = "Steps" => ToldSteps
          /\ call.kind = "Statistic" => ToldStatistic
          /\ call.kind = "Totals" => ToldTotals
        BY DEF Knows, Staged, Known
    <2>2. CASE call.kind = "Steps"
        BY <2>1, <2>2 DEF ToldSteps, Between
    <2>3. CASE call.kind = "Statistic"
        BY <2>1, <2>3 DEF ToldStatistic, Between
    <2>4. CASE call.kind = "Totals"
        BY <2>1, <2>4 DEF ToldTotals, Between
    <2> QED
        BY <2>1, <2>2, <2>3, <2>4
<1> QED
    BY <1>1, KnowsAlways, PTL

-----------------------------------------------------------------------------
\* The lists of baskets.  An entry of a slice.
Entry == [basket : Nat, items : Seq(Nat)]

\* What a group key may be: it is the same for all orders of a basket.
Grouped(S, key) ==
    /\ S \subseteq Nat /\ \A i \in S : item[i].basket \in Nat
    /\ IsFiniteSet({item[i].basket : i \in S})
    /\ \A i, j \in S : item[i].basket = item[j].basket => key[i] = key[j]

\* The memory of a reader that has found a basket for the orders P and entered the orders R
\* of S.  Slices of arrays of entries, and a pointer for each basket.
Slices(m, P) ==
    /\ m = [group |-> m.group, place |-> m.place]
    /\ \A k \in DOMAIN m.group : m.group[k] \in Seq(Seq(Entry)) /\ Len(m.group[k]) > 0
    /\ DOMAIN m.place = {item[i].basket : i \in P}

\* A pointer is into an array of its group, and in the present one the entry at its slot is
\* a copy of the entry it is to.
Pointed(m, P, key) ==
    \A i \in P :
        LET at == m.place[item[i].basket]  a == m.group[key[i]] IN
        /\ at.key = key[i] /\ key[i] \in DOMAIN m.group
        /\ at.array \in 1..Len(a) /\ at.slot \in 1..Len(a[at.array])
        /\ a[at.array][at.slot].basket = item[i].basket
        /\ at.slot \in 1..Len(Last(a)) /\ Last(a)[at.slot].basket = item[i].basket

\* No other slots.
Placed(m, P, key) ==
    \A k \in DOMAIN m.group : \A s \in 1..Len(Last(m.group[k])) :
        \E i \in P : /\ Last(m.group[k])[s].basket = item[i].basket /\ key[i] = k
                     /\ m.place[item[i].basket].slot = s

\* Entries hold orders of their baskets, each once.
Fit(e, R) == IsInjective(e.items) /\ \A x \in Range(e.items) : x \in R /\ item[x].basket = e.basket
Own(m, R) ==
    \A k \in DOMAIN m.group : \A n \in 1..Len(m.group[k]) : \A s \in 1..Len(m.group[k][n]) :
        Fit(m.group[k][n][s], R)

\* The baskets of a group are in its slice in the order they were found.
Baskets(P, key, k) == {item[j].basket : j \in {j \in P : key[j] = k}}
Sized(m, P, key) ==
    \A k \in DOMAIN m.group : Len(Last(m.group[k])) = Cardinality(Baskets(P, key, k))
Begins(m, P, S, key) ==
    \A i \in P :
        LET slot == m.place[item[i].basket].slot IN
        /\ slot <= Count(S, key, i)
        /\ \E f \in P : item[f].basket = item[i].basket /\ Count(S, key, f) = slot

\* A slice has outgrown the array where slot s was filled when it had room for s baskets.
Passed(s, n) == \E c \in Capacities : s <= c /\ c < n

\* A pointer is into the present array until the slice has outgrown it.
Stale(m, P, key) ==
    \A i \in P :
        LET at == m.place[item[i].basket]  a == m.group[key[i]] IN
        at.array = Len(a) <=> ~Passed(at.slot, Len(Last(a)))

\* What was entered while it was, and nothing else.
Entered(m, R, S, key) ==
    \A i \in R :
        i \in Range(Last(m.group[key[i]])[m.place[item[i].basket].slot].items)
        <=> ~Outgrown(S, key, i)

Filed(m, P, R, S, key) ==
    /\ Slices(m, P) /\ Pointed(m, P, key) /\ Placed(m, P, key)
    /\ Own(m, R) /\ Entered(m, R, S, key)
    /\ Sized(m, P, key) /\ Begins(m, P, S, key) /\ Stale(m, P, key)

-----------------------------------------------------------------------------
\* A change of one element.
LEMMA Replaced ==
    ASSUME NEW T, NEW q \in Seq(T), NEW n \in 1..Len(q), NEW e \in T,
           NEW r, r = [q EXCEPT ![n] = e]
    PROVE  /\ r \in Seq(T) /\ Len(r) = Len(q) /\ r[n] = e
           /\ \A o \in 1..Len(q) : o # n => r[o] = q[o]
OBVIOUS

\* What append leaves in the slice it is called on, and in the arrays before.
AfterAppend(arrays, e, a) ==
    /\ a \in Seq(Seq(Entry)) /\ Len(a) > 0 /\ Len(a) >= Len(arrays)
    /\ arrays # <<>> => (Len(a) = Len(arrays) <=> Len(Last(arrays)) \notin Capacities)
    /\ Len(Last(a)) > 0 /\ Last(a)[Len(Last(a))] = e
    /\ \A n \in 1..Len(arrays) : \A s \in 1..Len(arrays[n]) :
          s \in 1..Len(a[n]) /\ a[n][s] = arrays[n][s]
    /\ arrays = <<>> => Len(Last(a)) = 1
    /\ arrays # <<>> =>
          /\ Len(Last(a)) = Len(Last(arrays)) + 1
          /\ \A s \in 1..Len(Last(arrays)) : Last(a)[s] = Last(arrays)[s]
    /\ \A n \in 1..Len(a) : \A s \in 1..Len(a[n]) :
          \/ a[n][s] = e
          \/ \E o \in 1..Len(arrays) : s \in 1..Len(arrays[o]) /\ a[n][s] = arrays[o][s]

LEMMA AppendedMeans ==
    ASSUME NEW arrays \in Seq(Seq(Entry)), NEW e \in Entry, NEW a, a = Appended(arrays, e)
    PROVE  AfterAppend(arrays, e, a)
<1>1. CASE arrays = <<>>
    <2>1. a = <<<<e>>>>
        BY <1>1 DEF Appended
    <2>2. a \in Seq(Seq(Entry)) /\ Len(a) = 1 /\ a[1] = <<e>> /\ Last(a) = <<e>>
        BY <2>1 DEF Last
    <2> QED
        BY <1>1, <2>2 DEF AfterAppend
<1>2. CASE arrays # <<>>
    <2> DEFINE l == Len(arrays)  z == arrays[l]
    <2>1. l \in Nat /\ l > 0 /\ z = Last(arrays) /\ z \in Seq(Entry) /\ Len(z) \in Nat
        BY <1>2 DEF Last
    <2> DEFINE y == Append(z, e)
    <2>2. /\ y \in Seq(Entry) /\ Len(y) = Len(z) + 1 /\ y[Len(y)] = e
          /\ \A s \in 1..Len(z) : y[s] = z[s]
        BY <2>1
    <2>3. CASE Len(z) \notin Capacities
        <3>1. a = [arrays EXCEPT ![l] = y]
            BY <1>2, <2>1, <2>3 DEF Appended
        <3>2. /\ a \in Seq(Seq(Entry)) /\ Len(a) = l /\ a[l] = y
              /\ \A n \in 1..l : n # l => a[n] = arrays[n]
            <4>1. l \in 1..Len(arrays) /\ y \in Seq(Entry)
                BY <2>1, <2>2
            <4> HIDE DEF y
            <4> QED
                BY <3>1, <4>1, Replaced
        <3>3. Last(a) = y
            BY <3>2 DEF Last
        <3> HIDE DEF y
        <3>4. \A n \in 1..l : \A s \in 1..Len(arrays[n]) : s \in 1..Len(a[n]) /\ a[n][s] = arrays[n][s]
            <4>1. \A n \in 1..l : n = l \/ a[n] = arrays[n]
                BY <3>2
            <4>2. \A s \in 1..Len(z) : s \in 1..Len(y) /\ y[s] = z[s]
                BY <2>1, <2>2
            <4> TAKE n \in 1..l
            <4> TAKE s \in 1..Len(arrays[n])
            <4>3. CASE n = l
                <5>1. arrays[n] = z /\ a[n] = y
                    BY <3>2, <4>3
                <5> HIDE DEF z
                <5> QED
                    BY <4>2, <5>1
            <4>4. CASE n # l
                BY <4>1, <4>4
            <4> QED
                BY <4>3, <4>4
        <3>5. \A n \in 1..l : \A s \in 1..Len(a[n]) :
                 \/ a[n][s] = e
                 \/ \E o \in 1..l : s \in 1..Len(arrays[o]) /\ a[n][s] = arrays[o][s]
            <4> TAKE n \in 1..l
            <4> TAKE s \in 1..Len(a[n])
            <4>1. CASE n # l
                BY <3>2, <4>1
            <4>2. CASE n = l
                <5>1. a[n] = y /\ s \in 1..Len(y)
                    BY <3>2, <4>2
                <5>2. s = Len(y) \/ s \in 1..Len(z)
                    BY <2>1, <2>2, <5>1
                <5>3. CASE s = Len(y)
                    BY <2>2, <5>1, <5>3
                <5>4. CASE s \in 1..Len(z)
                    <6>1. a[n][s] = arrays[l][s] /\ s \in 1..Len(arrays[l]) /\ l \in 1..l
                        BY <2>1, <2>2, <5>1, <5>4
                    <6> QED
                        BY <6>1
                <5> QED
                    BY <5>2, <5>3, <5>4
            <4> QED
                BY <4>1, <4>2
        <3> QED
            BY <1>2, <2>1, <2>2, <2>3, <3>2, <3>3, <3>4, <3>5 DEF AfterAppend
    <2>4. CASE Len(z) \in Capacities
        <3>1. a = Append(arrays, y)
            BY <1>2, <2>1, <2>4 DEF Appended
        <3>2. /\ a \in Seq(Seq(Entry)) /\ Len(a) = l + 1 /\ a[l + 1] = y
              /\ \A n \in 1..l : a[n] = arrays[n]
            BY <2>1, <2>2, <3>1
        <3>3. Last(a) = y
            BY <3>2 DEF Last
        <3> HIDE DEF y
        <3>5. \A n \in 1..Len(a) : \A s \in 1..Len(a[n]) :
                 \/ a[n][s] = e
                 \/ \E o \in 1..l : s \in 1..Len(arrays[o]) /\ a[n][s] = arrays[o][s]
            <4> TAKE n \in 1..Len(a)
            <4> TAKE s \in 1..Len(a[n])
            <4>1. CASE n \in 1..l
                BY <3>2, <4>1
            <4>2. CASE n = l + 1
                <5>1. a[n] = y /\ s \in 1..Len(y)
                    BY <3>2, <4>2
                <5>2. s = Len(y) \/ s \in 1..Len(z)
                    BY <2>1, <2>2, <5>1
                <5>3. CASE s = Len(y)
                    BY <2>2, <5>1, <5>3
                <5>4. CASE s \in 1..Len(z)
                    <6>1. a[n][s] = arrays[l][s] /\ s \in 1..Len(arrays[l]) /\ l \in 1..l
                        BY <2>1, <2>2, <5>1, <5>4
                    <6> QED
                        BY <6>1
                <5> QED
                    BY <5>2, <5>3, <5>4
            <4> QED
                BY <2>1, <3>2, <4>1, <4>2
        <3> QED
            BY <1>2, <2>1, <2>2, <2>4, <3>2, <3>3, <3>5 DEF AfterAppend
    <2> QED
        BY <2>3, <2>4
<1> QED
    BY <1>1, <1>2

\* A further element of a list without repetitions.
LEMMA ListedOnceMore ==
    ASSUME NEW s \in Seq(Nat), IsInjective(s), NEW i \in Nat, i \notin Range(s)
    PROVE  /\ Append(s, i) \in Seq(Nat) /\ IsInjective(Append(s, i))
           /\ Range(Append(s, i)) = Range(s) \cup {i}
<1> DEFINE t == Append(s, i)
<1>1. /\ t \in Seq(Nat) /\ DOMAIN t = 1..Len(t) /\ Len(t) = Len(s) + 1 /\ t[Len(t)] = i
      /\ Len(s) \in Nat /\ DOMAIN s = 1..Len(s) /\ \A n \in 1..Len(s) : t[n] = s[n]
    OBVIOUS
<1> HIDE DEF t
<1>2. \A n \in DOMAIN t : n \in DOMAIN s \/ n = Len(t)
    BY <1>1
<1>3. \A n \in DOMAIN s : n \in DOMAIN t /\ s[n] \in Range(s) /\ s[n] # i
    BY <1>1 DEF Range
<1>4. Range(t) = Range(s) \cup {i}
    <2>1. Len(t) \in DOMAIN t
        BY <1>1
    <2> QED
        BY <1>1, <1>2, <1>3, <2>1 DEF Range
<1>5. IsInjective(t)
    BY <1>1, <1>2, <1>3 DEF IsInjective
<1> QED
    BY <1>1, <1>4, <1>5 DEF t

\* A further order in an entry.
LEMMA EntryOnceMore ==
    ASSUME NEW e \in Entry, NEW i \in Nat, NEW x, x = [e EXCEPT !.items = Append(@, i)]
    PROVE  x = [basket |-> e.basket, items |-> Append(e.items, i)] /\ x \in Entry
<1>1. PICK u \in Nat, v \in Seq(Nat) : e = [basket |-> u, items |-> v]
    BY DEF Entry
<1>2. Append(v, i) \in Seq(Nat) /\ e.basket = u /\ e.items = v
    BY <1>1
<1>3. x = [basket |-> u, items |-> Append(e.items, i)]
    BY <1>1
<1> QED
    BY <1>2, <1>3 DEF Entry

\* What the write through a pointer changes.
AfterWrite(m, w, k, n, s, i) ==
    /\ w.place = m.place /\ DOMAIN w.group = DOMAIN m.group
    /\ \A l \in DOMAIN m.group : l # k => w.group[l] = m.group[l]
    /\ Len(w.group[k]) = Len(m.group[k])
    /\ \A o \in 1..Len(m.group[k]) : o # n => w.group[k][o] = m.group[k][o]
    /\ Len(w.group[k][n]) = Len(m.group[k][n])
    /\ \A o \in 1..Len(m.group[k][n]) : o # s => w.group[k][n][o] = m.group[k][n][o]
    /\ w.group[k][n][s] = [basket |-> m.group[k][n][s].basket,
                           items |-> Append(m.group[k][n][s].items, i)]

LEMMA AddItemMeans ==
    ASSUME NEW m, NEW P, Slices(m, P), NEW b \in DOMAIN m.place, NEW i, NEW k, NEW n, NEW s,
           k = m.place[b].key, n = m.place[b].array, s = m.place[b].slot,
           k \in DOMAIN m.group, n \in 1..Len(m.group[k]), s \in 1..Len(m.group[k][n]), i \in Nat,
           NEW w, w = AddItem(m, b, i)
    PROVE  Slices(w, P) /\ AfterWrite(m, w, k, n, s, i)
<1> DEFINE g == m.group  e == g[k][n][s]  x == [e EXCEPT !.items = Append(@, i)]
           a == [g[k][n] EXCEPT ![s] = x]  t == [g[k] EXCEPT ![n] = a]
<1>1. m = [group |-> g, place |-> m.place]
    BY DEF Slices
<1>2. g[k] \in Seq(Seq(Entry)) /\ g[k][n] \in Seq(Entry) /\ e \in Entry
    BY DEF Slices
<1>3. x = [basket |-> e.basket, items |-> Append(e.items, i)] /\ x \in Entry
    BY <1>2, EntryOnceMore
<1>4. /\ a \in Seq(Entry) /\ Len(a) = Len(g[k][n]) /\ a[s] = x
      /\ \A o \in 1..Len(g[k][n]) : o # s => a[o] = g[k][n][o]
    <2> HIDE DEF x
    <2>1. PICK q : q = g[k][n]
        OBVIOUS
    <2>2. q \in Seq(Entry) /\ s \in 1..Len(q) /\ x \in Entry /\ a = [q EXCEPT ![s] = x]
        BY <1>2, <1>3, <2>1
    <2> HIDE DEF a
    <2>3. /\ a \in Seq(Entry) /\ Len(a) = Len(q) /\ a[s] = x
          /\ \A o \in 1..Len(q) : o # s => a[o] = q[o]
        BY <2>2, Replaced
    <2> QED
        BY <2>1, <2>3
<1>5. /\ t \in Seq(Seq(Entry)) /\ Len(t) = Len(g[k]) /\ t[n] = a
      /\ \A o \in 1..Len(g[k]) : o # n => t[o] = g[k][o]
    <2> HIDE DEF a
    <2>1. PICK q : q = g[k]
        OBVIOUS
    <2>2. q \in Seq(Seq(Entry)) /\ n \in 1..Len(q) /\ a \in Seq(Entry) /\ t = [q EXCEPT ![n] = a]
        BY <1>2, <1>4, <2>1
    <2> HIDE DEF t
    <2>3. /\ t \in Seq(Seq(Entry)) /\ Len(t) = Len(q) /\ t[n] = a
          /\ \A o \in 1..Len(q) : o # n => t[o] = q[o]
        BY <2>2, Replaced
    <2> QED
        BY <2>1, <2>3
<1>6. w = [group |-> [g EXCEPT ![k] = t], place |-> m.place]
    BY <1>1 DEF AddItem
<1> HIDE DEF t, a, x
<1>7. /\ w.place = m.place /\ DOMAIN w.group = DOMAIN g /\ w.group[k] = t
      /\ \A l \in DOMAIN g : l # k => w.group[l] = g[l]
      /\ w = [group |-> w.group, place |-> w.place]
    BY <1>6
<1>8. Slices(w, P)
    BY <1>2, <1>5, <1>7 DEF Slices
<1> QED
    BY <1>3, <1>4, <1>5, <1>7, <1>8 DEF AfterWrite

-----------------------------------------------------------------------------
\* Before the order i is entered, its basket gets an entry, if it has none.  Of the rows of
\* its group those up to i have been read.
InTurn(R, i, S, key) == RowsTo(S, key, i) = {j \in R \cup {i} : key[j] = key[i]}

\* Then the slice has as many baskets as are counted up to i.
LEMMA CountMeans ==
    ASSUME NEW S, NEW key, Grouped(S, key), NEW R \in SUBSET S, NEW i \in S
    PROVE  /\ \A k : IsFiniteSet(Baskets(R, key, k)) /\ Cardinality(Baskets(R, key, k)) \in Nat
           /\ Count(S, key, i) \in Nat
           /\ InTurn(R, i, S, key)
              => Count(S, key, i) = Cardinality(Baskets(R \cup {i}, key, key[i]))
<1>1. \A k : Baskets(R, key, k) \subseteq {item[j].basket : j \in S}
    BY DEF Baskets
<1>2. {item[j].basket : j \in RowsTo(S, key, i)} \subseteq {item[j].basket : j \in S}
    BY DEF RowsTo
<1>3. IsFiniteSet({item[j].basket : j \in S})
    BY DEF Grouped
<1>4. \A T : T \subseteq {item[j].basket : j \in S} => IsFiniteSet(T) /\ Cardinality(T) \in Nat
    BY <1>3, FS_Subset, FS_CardinalityType
<1>5. InTurn(R, i, S, key)
      => {item[j].basket : j \in RowsTo(S, key, i)} = Baskets(R \cup {i}, key, key[i])
    BY DEF InTurn, Baskets
<1> QED
    BY <1>1, <1>2, <1>4, <1>5 DEF Count

LEMMA AddBasketFiled ==
    ASSUME NEW S, NEW key, Grouped(S, key), NEW R \in SUBSET S, NEW i \in S \ R,
           InTurn(R, i, S, key), NEW m, Filed(m, R, R, S, key),
           NEW w, w = AddBasket(m, key[i], item[i].basket)
    PROVE  Filed(w, R \cup {i}, R, S, key)
<1> DEFINE P == R \cup {i}
<1>0. /\ Slices(m, R) /\ Pointed(m, R, key) /\ Placed(m, R, key)
      /\ Own(m, R) /\ Entered(m, R, S, key)
      /\ Sized(m, R, key) /\ Begins(m, R, S, key) /\ Stale(m, R, key)
    BY DEF Filed
<1>a. /\ \A x, y \in S : item[x].basket = item[y].basket => key[x] = key[y]
      /\ item[i].basket \in Nat
    BY DEF Grouped
<1>b. /\ \A l : IsFiniteSet(Baskets(R, key, l)) /\ Cardinality(Baskets(R, key, l)) \in Nat
      /\ Count(S, key, i) = Cardinality(Baskets(P, key, key[i]))
      /\ \A l : l # key[i] => Baskets(P, key, l) = Baskets(R, key, l)
      /\ Baskets(P, key, key[i]) = Baskets(R, key, key[i]) \cup {item[i].basket}
    <2>1. /\ \A l : l # key[i] => Baskets(P, key, l) = Baskets(R, key, l)
          /\ Baskets(P, key, key[i]) = Baskets(R, key, key[i]) \cup {item[i].basket}
        BY DEF Baskets
    <2>2. R \in SUBSET S /\ i \in S
        OBVIOUS
    <2>3. \A l : IsFiniteSet(Baskets(R, key, l)) /\ Cardinality(Baskets(R, key, l)) \in Nat
        BY <2>2, CountMeans
    <2>4. Count(S, key, i) = Cardinality(Baskets(R \cup {i}, key, key[i]))
        BY <2>2, CountMeans
    <2> QED
        BY <2>1, <2>3, <2>4
<1>1. CASE item[i].basket \in DOMAIN m.place
    <2>1. w = m
        BY <1>1 DEF AddBasket
    <2>2. PICK h \in R : item[h].basket = item[i].basket
        BY <1>0, <1>1 DEF Slices
    <2>3. key[h] = key[i]
        BY <1>a, <2>2
    <2>4. \A x \in P : x \in R \/ x = i
        OBVIOUS
    <2>b. R \subseteq P
        OBVIOUS
    <2> HIDE DEF P
    <2>5. Slices(m, P)
        BY <1>0, <2>2, <2>4, <2>b DEF Slices
    <2>6. Pointed(m, P, key)
        <3> SUFFICES ASSUME NEW x \in P
                     PROVE  LET at == m.place[item[x].basket]  z == m.group[key[x]] IN
                            /\ at.key = key[x] /\ key[x] \in DOMAIN m.group
                            /\ at.array \in 1..Len(z) /\ at.slot \in 1..Len(z[at.array])
                            /\ z[at.array][at.slot].basket = item[x].basket
                            /\ at.slot \in 1..Len(Last(z)) /\ Last(z)[at.slot].basket = item[x].basket
            BY DEF Pointed
        <3>1. PICK y \in R : item[y].basket = item[x].basket /\ key[y] = key[x]
            BY <2>2, <2>3, <2>4
        <3> QED
            BY <1>0, <3>1 DEF Pointed
    <2>7. Placed(m, P, key)
        BY <1>0, <2>b DEF Placed
    <2>8. Sized(m, P, key)
        <3>1. item[i].basket \in Baskets(R, key, key[i])
            BY <2>2, <2>3 DEF Baskets
        <3>2. \A l : Baskets(P, key, l) = Baskets(R, key, l)
            BY <1>b, <3>1
        <3> QED
            BY <1>0, <3>2 DEF Sized
    <2>9. Begins(m, P, S, key)
        <3> SUFFICES ASSUME NEW x \in P
                     PROVE  LET slot == m.place[item[x].basket].slot IN
                            /\ slot <= Count(S, key, x)
                            /\ \E f \in P : item[f].basket = item[x].basket /\ Count(S, key, f) = slot
            BY DEF Begins
        <3>1. CASE x \in R
            BY <1>0, <2>b, <3>1 DEF Begins
        <3>2. CASE x = i
            <4>1. PICK n : n = m.place[item[h].basket].slot
                OBVIOUS
            <4>2. n \in 1..Len(Last(m.group[key[h]])) /\ key[h] \in DOMAIN m.group
                BY <1>0, <4>1 DEF Pointed
            <4>3. Len(Last(m.group[key[h]])) = Count(S, key, i)
                BY <1>b, <2>3, <2>8, <4>2 DEF Sized
            <4>4. n <= Count(S, key, i)
                BY <4>2, <4>3
            <4>5. \E f \in R : item[f].basket = item[h].basket /\ Count(S, key, f) = n
                BY <1>0, <4>1 DEF Begins
            <4> QED
                BY <2>2, <2>b, <3>2, <4>1, <4>4, <4>5
        <3> QED
            BY <2>4, <3>1, <3>2
    <2>10. Stale(m, P, key)
        <3> SUFFICES ASSUME NEW x \in P
                     PROVE  LET at == m.place[item[x].basket]  z == m.group[key[x]] IN
                            at.array = Len(z) <=> ~Passed(at.slot, Len(Last(z)))
            BY DEF Stale
        <3>1. PICK y \in R : item[y].basket = item[x].basket /\ key[y] = key[x]
            BY <2>2, <2>3, <2>4
        <3> QED
            BY <1>0, <3>1 DEF Stale
    <2> QED
        BY <1>0, <2>1, <2>5, <2>6, <2>7, <2>8, <2>9, <2>10 DEF Filed, P
<1>2. CASE item[i].basket \notin DOMAIN m.place
    <2>1. PICK b, k, old : /\ b = item[i].basket /\ k = key[i]
                           /\ old = IF key[i] \in DOMAIN m.group THEN m.group[key[i]] ELSE <<>>
        OBVIOUS
    <2>2. PICK e : e = [basket |-> b, items |-> <<>>]
        OBVIOUS
    <2>3. e \in Entry /\ e.basket = b /\ e.items = <<>>
        BY <1>a, <2>1, <2>2 DEF Entry
    <2>4. old \in Seq(Seq(Entry)) /\ (k \in DOMAIN m.group => old = m.group[k] /\ old # <<>>)
          /\ (k \notin DOMAIN m.group => old = <<>>)
        BY <1>0, <2>1 DEF Slices
    <2>5. PICK a : a = Appended(old, e)
        OBVIOUS
    <2>6. PICK here : here = [key |-> k, array |-> Len(a), slot |-> Len(Last(a))]
        OBVIOUS
    <2>7. w = [group |-> Inserted(m.group, k, a), place |-> Inserted(m.place, b, here)]
        BY <1>2, <2>1, <2>2, <2>5, <2>6 DEF AddBasket
    <2>a. AfterAppend(old, e, a)
        BY <2>3, <2>4, <2>5, AppendedMeans
    <2>8. /\ a \in Seq(Seq(Entry)) /\ Len(a) > 0 /\ Len(a) >= Len(old)
          /\ old # <<>> => (Len(a) = Len(old) <=> Len(Last(old)) \notin Capacities)
          /\ Len(Last(a)) > 0 /\ Last(a)[Len(Last(a))] = e
          /\ \A n \in 1..Len(old) : \A s \in 1..Len(old[n]) :
                s \in 1..Len(a[n]) /\ a[n][s] = old[n][s]
          /\ old = <<>> => Len(Last(a)) = 1
          /\ old # <<>> =>
                /\ Len(Last(a)) = Len(Last(old)) + 1
                /\ \A s \in 1..Len(Last(old)) : Last(a)[s] = Last(old)[s]
          /\ \A n \in 1..Len(a) : \A s \in 1..Len(a[n]) :
                \/ a[n][s] = e
                \/ \E o \in 1..Len(old) : s \in 1..Len(old[o]) /\ a[n][s] = old[o][s]
        BY <2>a DEF AfterAppend
    <2>9. /\ w = [group |-> w.group, place |-> w.place]
          /\ DOMAIN w.group = DOMAIN m.group \cup {k} /\ w.group[k] = a
          /\ \A l \in DOMAIN m.group : l # k => w.group[l] = m.group[l]
          /\ DOMAIN w.place = DOMAIN m.place \cup {b} /\ w.place[b] = here
          /\ \A c \in DOMAIN m.place : c # b => w.place[c] = m.place[c]
        BY <2>7 DEF Inserted
    <2>10. /\ here.key = k /\ here.array = Len(a) /\ here.slot = Len(Last(a))
        BY <2>6
    <2>11. \A h \in R : item[h].basket # b /\ item[h].basket \in DOMAIN m.place
        BY <1>0, <1>2, <2>1 DEF Slices
    <2>12. /\ Len(a) \in Nat /\ Len(old) \in Nat /\ Last(a) \in Seq(Entry) /\ Last(a) = a[Len(a)]
           /\ Len(Last(a)) \in Nat
           /\ \A n \in 1..Len(a) : a[n] \in Seq(Entry) /\ Len(a[n]) \in Nat
        BY <2>8 DEF Last
    <2>13. old # <<>> => /\ Len(old) \in 1..Len(old) /\ Last(old) = old[Len(old)]
                         /\ Len(Last(old)) \in Nat
        BY <2>4 DEF Last
    <2> HIDE DEF P
    <2>14. Slices(w, P)
        <3>1. \A l \in DOMAIN w.group : w.group[l] \in Seq(Seq(Entry)) /\ Len(w.group[l]) > 0
            BY <1>0, <2>8, <2>9 DEF Slices
        <3>2. DOMAIN w.place = {item[h].basket : h \in P}
            BY <1>0, <2>1, <2>9 DEF Slices, P
        <3> QED
            BY <2>9, <3>1, <3>2 DEF Slices
    <2>15. Pointed(w, P, key)
        <3> SUFFICES ASSUME NEW h \in P
                     PROVE  LET at == w.place[item[h].basket]  z == w.group[key[h]] IN
                            /\ at.key = key[h] /\ key[h] \in DOMAIN w.group
                            /\ at.array \in 1..Len(z) /\ at.slot \in 1..Len(z[at.array])
                            /\ z[at.array][at.slot].basket = item[h].basket
                            /\ at.slot \in 1..Len(Last(z)) /\ Last(z)[at.slot].basket = item[h].basket
            BY DEF Pointed
        <3>1. CASE h = i
            <4>1. w.place[item[h].basket] = here /\ w.group[key[h]] = a /\ key[h] = k
                BY <2>1, <2>9, <3>1
            <4>2. /\ Len(a) \in 1..Len(a) /\ Len(Last(a)) \in 1..Len(a[Len(a)])
                  /\ a[Len(a)][Len(Last(a))].basket = b
                BY <2>3, <2>8, <2>12
            <4> QED
                BY <2>1, <2>9, <2>10, <2>12, <3>1, <4>1, <4>2
        <3>2. CASE h \in R
            <4>1. w.place[item[h].basket] = m.place[item[h].basket]
                BY <2>9, <2>11, <3>2
            <4>2. PICK at : at = m.place[item[h].basket]
                OBVIOUS
            <4>3. /\ at.key = key[h] /\ key[h] \in DOMAIN m.group
                  /\ at.array \in 1..Len(m.group[key[h]])
                  /\ at.slot \in 1..Len(m.group[key[h]][at.array])
                  /\ m.group[key[h]][at.array][at.slot].basket = item[h].basket
                  /\ at.slot \in 1..Len(Last(m.group[key[h]]))
                  /\ Last(m.group[key[h]])[at.slot].basket = item[h].basket
                BY <1>0, <3>2, <4>2 DEF Pointed
            <4>4. CASE key[h] # k
                BY <2>9, <4>1, <4>2, <4>3, <4>4
            <4>5. CASE key[h] = k
                <5>1. m.group[key[h]] = old /\ old # <<>> /\ w.group[key[h]] = a
                    BY <2>4, <2>9, <4>3, <4>5
                <5>2. /\ at.array \in 1..Len(a) /\ at.slot \in 1..Len(a[at.array])
                      /\ a[at.array][at.slot] = old[at.array][at.slot]
                    <6>1. at.array \in 1..Len(old) /\ at.slot \in 1..Len(old[at.array])
                        BY <4>3, <5>1
                    <6>2. at.slot \in 1..Len(a[at.array]) /\ a[at.array][at.slot] = old[at.array][at.slot]
                        BY <2>8, <6>1
                    <6>3. at.array \in 1..Len(a)
                        BY <2>8, <2>12, <6>1
                    <6> QED
                        BY <6>2, <6>3
                <5>3. at.slot \in 1..Len(Last(a)) /\ Last(a)[at.slot] = Last(old)[at.slot]
                    BY <2>8, <2>12, <2>13, <4>3, <5>1
                <5> QED
                    BY <2>9, <4>1, <4>2, <4>3, <4>5, <5>1, <5>2, <5>3
            <4> QED
                BY <4>4, <4>5
        <3> QED
            BY <3>1, <3>2 DEF P
    <2>16. Placed(w, P, key)
        <3> SUFFICES ASSUME NEW l \in DOMAIN w.group, NEW s \in 1..Len(Last(w.group[l]))
                     PROVE  \E h \in P : /\ Last(w.group[l])[s].basket = item[h].basket /\ key[h] = l
                                         /\ w.place[item[h].basket].slot = s
            BY DEF Placed
        <3>0. R \subseteq P /\ i \in P
            BY DEF P
        <3>1. CASE l # k
            <4>1. l \in DOMAIN m.group /\ w.group[l] = m.group[l]
                BY <2>9, <3>1
            <4>2. PICK h \in R : /\ Last(w.group[l])[s].basket = item[h].basket /\ key[h] = l
                                 /\ m.place[item[h].basket].slot = s
                BY <1>0, <4>1 DEF Placed
            <4> QED
                BY <2>9, <2>11, <3>0, <4>2
        <3>2. CASE l = k /\ s = Len(Last(a))
            <4>1. Last(w.group[l])[s].basket = b /\ w.place[item[i].basket].slot = s
                BY <2>1, <2>3, <2>8, <2>9, <2>10, <3>2
            <4> QED
                BY <2>1, <3>0, <3>2, <4>1
        <3>3. CASE l = k /\ s # Len(Last(a))
            <4>1. w.group[l] = a
                BY <2>9, <3>3
            <4>2. s \in 1..Len(Last(a)) /\ s # Len(Last(a))
                BY <3>3, <4>1
            <4>3. old # <<>>
                BY <2>8, <4>2
            <4>4. s \in 1..Len(Last(old)) /\ Last(a)[s] = Last(old)[s]
                BY <2>8, <2>13, <4>2, <4>3
            <4>5. k \in DOMAIN m.group /\ m.group[k] = old
                BY <2>4, <4>3
            <4>6. PICK h \in R : /\ Last(old)[s].basket = item[h].basket /\ key[h] = k
                                 /\ m.place[item[h].basket].slot = s
                BY <1>0, <4>4, <4>5 DEF Placed
            <4>7. w.place[item[h].basket] = m.place[item[h].basket]
                BY <2>9, <2>11
            <4>8. Last(w.group[l])[s] = Last(old)[s]
                BY <4>1, <4>4
            <4> QED
                BY <3>0, <3>3, <4>6, <4>7, <4>8
        <3> QED
            BY <3>1, <3>2, <3>3
    <2>17. Own(w, R)
        <3> SUFFICES ASSUME NEW l \in DOMAIN w.group, NEW n \in 1..Len(w.group[l]),
                            NEW s \in 1..Len(w.group[l][n])
                     PROVE  Fit(w.group[l][n][s], R)
            BY DEF Own
        <3>1. CASE l # k
            BY <1>0, <2>9, <3>1 DEF Own
        <3>2. CASE l = k
            <4>1. n \in 1..Len(a) /\ s \in 1..Len(a[n]) /\ w.group[l] = a
                BY <2>9, <3>2
            <4>2. CASE a[n][s] = e
                <5>1. Fit(e, R)
                    BY <2>3 DEF Fit, IsInjective, Range
                <5> QED
                    BY <4>1, <4>2, <5>1
            <4>3. CASE \E o \in 1..Len(old) : s \in 1..Len(old[o]) /\ a[n][s] = old[o][s]
                <5>1. PICK o \in 1..Len(old) : s \in 1..Len(old[o]) /\ a[n][s] = old[o][s]
                    BY <4>3
                <5>2. k \in DOMAIN m.group /\ m.group[k] = old
                    BY <2>4, <5>1
                <5>3. Fit(old[o][s], R)
                    BY <1>0, <5>1, <5>2 DEF Own
                <5> QED
                    BY <4>1, <5>1, <5>3
            <4> QED
                BY <2>8, <4>1, <4>2, <4>3
        <3> QED
            BY <3>1, <3>2
    <2>18. \A h \in R :
              /\ w.place[item[h].basket] = m.place[item[h].basket]
              /\ key[h] \in DOMAIN m.group
              /\ m.place[item[h].basket].slot \in 1..Len(Last(m.group[key[h]]))
              /\ key[h] # k => w.group[key[h]] = m.group[key[h]]
        BY <1>0, <2>9, <2>11 DEF Pointed
    <2>19. Entered(w, R, S, key)
        <3> SUFFICES ASSUME NEW h \in R
                     PROVE  h \in Range(Last(w.group[key[h]])[w.place[item[h].basket].slot].items)
                            <=> ~Outgrown(S, key, h)
            BY DEF Entered
        <3>1. h \in Range(Last(m.group[key[h]])[m.place[item[h].basket].slot].items)
              <=> ~Outgrown(S, key, h)
            BY <1>0 DEF Entered
        <3>2. CASE key[h] # k
            BY <2>18, <3>1, <3>2
        <3>3. CASE key[h] = k
            <4>1. m.group[key[h]] = old /\ old # <<>> /\ w.group[key[h]] = a
                BY <2>4, <2>9, <2>18, <3>3
            <4>2. PICK n : n = m.place[item[h].basket].slot
                OBVIOUS
            <4>3. n \in 1..Len(Last(old)) /\ w.place[item[h].basket].slot = n
                BY <2>18, <4>1, <4>2
            <4>4. Last(a)[n] = Last(old)[n]
                BY <2>8, <4>1, <4>3
            <4> QED
                BY <3>1, <4>1, <4>2, <4>3, <4>4
        <3> QED
            BY <3>2, <3>3
    <2>20. Sized(w, P, key)
        <3> SUFFICES ASSUME NEW l \in DOMAIN w.group
                     PROVE  Len(Last(w.group[l])) = Cardinality(Baskets(P, key, l))
            BY DEF Sized
        <3>1. CASE l # k
            BY <1>0, <1>b, <2>1, <2>9, <3>1 DEF Sized
        <3>2. CASE l = k
            <4>1. b \notin Baskets(R, key, k)
                BY <2>11 DEF Baskets
            <4>2. Cardinality(Baskets(P, key, k)) = Cardinality(Baskets(R, key, k)) + 1
                BY <1>b, <2>1, <4>1, FS_AddElement
            <4>3. CASE old = <<>>
                <5>1. k \notin DOMAIN m.group
                    BY <2>4, <4>3
                <5>2. Baskets(R, key, k) = {}
                    BY <1>0, <5>1 DEF Baskets, Pointed
                <5>3. Cardinality(Baskets(R, key, k)) = 0
                    BY <5>2, FS_EmptySet
                <5>4. Len(Last(a)) = 1
                    BY <2>8, <4>3
                <5> QED
                    BY <2>9, <3>2, <4>2, <5>3, <5>4
            <4>4. CASE old # <<>>
                <5>1. k \in DOMAIN m.group /\ m.group[k] = old
                    BY <2>4, <4>4
                <5>2. Len(Last(old)) = Cardinality(Baskets(R, key, k))
                    BY <1>0, <5>1 DEF Sized
                <5> QED
                    BY <2>8, <2>9, <3>2, <4>2, <4>4, <5>2
            <4> QED
                BY <4>3, <4>4
        <3> QED
            BY <3>1, <3>2
    <2>21. Begins(w, P, S, key)
        <3> SUFFICES ASSUME NEW h \in P
                     PROVE  LET slot == w.place[item[h].basket].slot IN
                            /\ slot <= Count(S, key, h)
                            /\ \E f \in P : item[f].basket = item[h].basket /\ Count(S, key, f) = slot
            BY DEF Begins
        <3>0. R \subseteq P /\ i \in P
            BY DEF P
        <3>1. CASE h = i
            <4>1. w.group[k] = a /\ k \in DOMAIN w.group
                BY <2>9
            <4>2. Len(Last(a)) = Count(S, key, i)
                BY <1>b, <2>1, <2>20, <4>1 DEF Sized
            <4>3. w.place[item[h].basket].slot = Count(S, key, i)
                BY <2>1, <2>9, <2>10, <3>1, <4>2
            <4>4. Count(S, key, i) <= Count(S, key, i)
                BY <2>12, <4>2
            <4> QED
                BY <3>0, <3>1, <4>3, <4>4
        <3>2. CASE h \in R
            BY <1>0, <2>18, <3>0, <3>2 DEF Begins
        <3> QED
            BY <3>1, <3>2 DEF P
    <2>22. Stale(w, P, key)
        <3> SUFFICES ASSUME NEW h \in P
                     PROVE  LET at == w.place[item[h].basket]  z == w.group[key[h]] IN
                            at.array = Len(z) <=> ~Passed(at.slot, Len(Last(z)))
            BY DEF Stale
        <3>1. CASE h = i
            <4>1. w.place[item[h].basket] = here /\ w.group[key[h]] = a
                BY <2>1, <2>9, <3>1
            <4>2. ~Passed(Len(Last(a)), Len(Last(a)))
                BY <2>12, CapacityAssumption DEF Passed
            <4> QED
                BY <2>10, <4>1, <4>2
        <3>2. CASE h \in R
            <4>1. PICK at : at = m.place[item[h].basket]
                OBVIOUS
            <4>2. /\ w.place[item[h].basket] = at
                  /\ at.array = Len(m.group[key[h]]) <=> ~Passed(at.slot, Len(Last(m.group[key[h]])))
                BY <1>0, <2>18, <3>2, <4>1 DEF Stale
            <4>3. CASE key[h] # k
                BY <2>18, <3>2, <4>2, <4>3
            <4>4. CASE key[h] = k
                <5>1. m.group[key[h]] = old /\ old # <<>> /\ w.group[key[h]] = a
                    BY <2>4, <2>9, <2>18, <3>2, <4>4
                <5>2. /\ at.array \in 1..Len(old) /\ at.slot \in 1..Len(Last(old))
                    BY <1>0, <3>2, <4>1, <5>1 DEF Pointed
                <5>3. PICK n : n = Len(Last(old))
                    OBVIOUS
                <5>4. n \in Nat /\ Len(Last(a)) = n + 1 /\ at.slot \in Nat /\ at.slot <= n
                    BY <2>8, <2>13, <5>1, <5>2, <5>3
                <5>5. Passed(at.slot, n + 1) <=> Passed(at.slot, n) \/ n \in Capacities
                    BY <5>4, CapacityAssumption DEF Passed
                <5>6. CASE n \in Capacities
                    <6>1. Len(a) # Len(old) /\ Len(a) >= Len(old)
                        BY <2>8, <5>1, <5>3, <5>6
                    <6>2. at.array # Len(a)
                        BY <2>12, <5>2, <6>1
                    <6> QED
                        BY <4>2, <5>1, <5>4, <5>5, <5>6, <6>2
                <5>7. CASE n \notin Capacities
                    <6>1. Len(a) = Len(old)
                        BY <2>8, <5>1, <5>3, <5>7
                    <6> QED
                        BY <4>2, <5>1, <5>3, <5>4, <5>5, <5>7, <6>1
                <5> QED
                    BY <5>6, <5>7
            <4> QED
                BY <4>3, <4>4
        <3> QED
            BY <3>1, <3>2 DEF P
    <2> QED
        BY <2>14, <2>15, <2>16, <2>17, <2>19, <2>20, <2>21, <2>22 DEF Filed, P
<1> QED
    BY <1>1, <1>2

\* An order is lost if its basket's pointer is into a former array when it is read.
LEMMA OutgrownMeans ==
    ASSUME NEW S, NEW key, Grouped(S, key), NEW R \in SUBSET S, NEW i \in S \ R,
           InTurn(R, i, S, key), NEW m, Filed(m, R \cup {i}, R, S, key)
    PROVE  LET at == m.place[item[i].basket]  a == m.group[key[i]] IN
           Outgrown(S, key, i) <=> Passed(at.slot, Len(Last(a)))
<1> DEFINE P == R \cup {i}
<1>1. PICK b, k, s, l : /\ b = item[i].basket /\ k = key[i] /\ s = m.place[b].slot
                        /\ l = Len(Last(m.group[k]))
    OBVIOUS
<1>2. i \in P /\ P \subseteq S
    OBVIOUS
<1>3. \A x \in S : Count(S, key, x) \in Nat
    BY CountMeans
<1>4. RowsTo(S, key, i) = {j \in P : key[j] = k}
    BY <1>1 DEF InTurn
<1>5. Count(S, key, i) = Cardinality(Baskets(P, key, k))
    BY <1>1, CountMeans
<1> HIDE DEF P
<1>6. /\ Pointed(m, P, key) /\ Sized(m, P, key) /\ Begins(m, P, S, key)
      /\ \A x, y \in S : item[x].basket = item[y].basket => key[x] = key[y]
    BY DEF Filed, P, Grouped
<1>7. k \in DOMAIN m.group /\ s \in 1..l
    BY <1>1, <1>2, <1>6 DEF Pointed
<1>8. Count(S, key, i) = l
    BY <1>1, <1>5, <1>6, <1>7 DEF Sized
<1>9. ASSUME Outgrown(S, key, i) PROVE Passed(s, l)
    <2>1. PICK f \in RowsTo(S, key, i), c \in Capacities :
              item[f].basket = b /\ Count(S, key, f) <= c /\ c < Count(S, key, i)
        BY <1>1, <1>9 DEF Outgrown
    <2>2. f \in P /\ s <= Count(S, key, f)
        BY <1>1, <1>4, <1>6, <2>1 DEF Begins
    <2>3. c \in Nat /\ Count(S, key, f) \in Nat /\ s \in Nat
        BY <1>2, <1>3, <1>7, <2>2, CapacityAssumption
    <2>4. s <= c /\ c < l
        BY <1>8, <2>1, <2>2, <2>3
    <2> QED
        BY <2>4 DEF Passed
<1>10. ASSUME Passed(s, l) PROVE Outgrown(S, key, i)
    <2>1. PICK c \in Capacities : s <= c /\ c < l
        BY <1>10 DEF Passed
    <2>2. PICK f \in P : item[f].basket = b /\ Count(S, key, f) = s
        BY <1>1, <1>2, <1>6 DEF Begins
    <2>3. f \in RowsTo(S, key, i)
        BY <1>1, <1>2, <1>4, <1>6, <2>2
    <2> QED
        BY <1>1, <1>8, <2>1, <2>2, <2>3 DEF Outgrown
<1> QED
    BY <1>1, <1>9, <1>10

\* Then the order is entered there.
LEMMA AddItemFiled ==
    ASSUME NEW S, NEW key, Grouped(S, key), NEW R \in SUBSET S, NEW i \in S \ R,
           InTurn(R, i, S, key), NEW m, Filed(m, R \cup {i}, R, S, key), NEW w, w = AddItem(m, item[i].basket, i)
    PROVE  Filed(w, R \cup {i}, R \cup {i}, S, key)
<1> DEFINE P == R \cup {i}
<1>0. /\ Slices(m, P) /\ Pointed(m, P, key) /\ Placed(m, P, key)
      /\ Own(m, R) /\ Entered(m, R, S, key)
      /\ Sized(m, P, key) /\ Begins(m, P, S, key) /\ Stale(m, P, key)
    BY DEF Filed
<1>a. LET at == m.place[item[i].basket]  a == m.group[key[i]] IN
      Outgrown(S, key, i) <=> Passed(at.slot, Len(Last(a)))
    BY OutgrownMeans
<1>1. i \in P /\ R \subseteq P /\ P \subseteq S /\ \A x \in P : x \in R \/ x = i
    OBVIOUS
<1> HIDE DEF P
<1>2. PICK b, k, n, s : /\ b = item[i].basket /\ k = key[i]
                        /\ n = m.place[b].array /\ s = m.place[b].slot
    OBVIOUS
<1>3. /\ i \in Nat /\ b \in DOMAIN m.place /\ k = m.place[b].key /\ k \in DOMAIN m.group
      /\ n \in 1..Len(m.group[k]) /\ s \in 1..Len(m.group[k][n])
      /\ s \in 1..Len(Last(m.group[k])) /\ Last(m.group[k])[s].basket = b
      /\ m.group[k][n][s].basket = b
    BY <1>0, <1>1, <1>2 DEF Grouped, Slices, Pointed
<1>4. PICK g, e, l : g = m.group[k] /\ e = m.group[k][n][s] /\ l = Len(m.group[k])
    OBVIOUS
<1>5. PICK f, v : f = w.group[k] /\ v = w.group[k][n][s]
    OBVIOUS
<1>6. w = AddItem(m, b, i)
    BY <1>2
<1>7. /\ Slices(w, P) /\ w.place = m.place /\ DOMAIN w.group = DOMAIN m.group
      /\ \A l2 \in DOMAIN m.group : l2 # k => w.group[l2] = m.group[l2]
      /\ Len(f) = Len(g)
      /\ \A o \in 1..Len(g) : o # n => f[o] = g[o]
      /\ Len(f[n]) = Len(g[n])
      /\ \A o \in 1..Len(g[n]) : o # s => f[n][o] = g[n][o]
      /\ v = [basket |-> e.basket, items |-> Append(e.items, i)]
    <2>1. Slices(w, P) /\ AfterWrite(m, w, k, n, s, i)
        <3>1. /\ Slices(m, P) /\ b \in DOMAIN m.place /\ k \in DOMAIN m.group /\ i \in Nat
              /\ n \in 1..Len(m.group[k]) /\ s \in 1..Len(m.group[k][n])
            BY <1>0, <1>3
        <3>2. k = m.place[b].key /\ n = m.place[b].array /\ s = m.place[b].slot
            BY <1>2, <1>3
        <3> QED
            BY <1>6, <3>1, <3>2, AddItemMeans
    <2> QED
        BY <1>4, <1>5, <2>1 DEF AfterWrite
<1>8. /\ g \in Seq(Seq(Entry)) /\ l = Len(g) /\ l \in 1..l /\ l \in Nat /\ Last(g) = g[l] /\ Last(f) = f[l]
      /\ f \in Seq(Seq(Entry)) /\ e \in Entry /\ v.basket = b /\ e.basket = b
    <2>1. g \in Seq(Seq(Entry)) /\ Len(g) > 0 /\ f \in Seq(Seq(Entry))
        BY <1>0, <1>3, <1>4, <1>5, <1>7 DEF Slices
    <2>2. e \in Entry /\ e.basket = b
        <3>1. n \in 1..Len(g) /\ s \in 1..Len(g[n]) /\ e = g[n][s] /\ e.basket = b
            BY <1>3, <1>4
        <3>2. g[n] \in Seq(Entry)
            BY <2>1, <3>1
        <3> QED
            BY <3>1, <3>2
    <2> QED
        BY <1>4, <1>7, <2>1, <2>2 DEF Last
<1>9. \A o \in 1..l : /\ Len(f[o]) = Len(g[o])
                      /\ \A t \in 1..Len(g[o]) : /\ f[o][t].basket = g[o][t].basket
                                                 /\ ~(o = n /\ t = s) => f[o][t] = g[o][t]
    <2>1. f[n][s] = v /\ g[n][s] = e
        BY <1>4, <1>5
    <2> TAKE o \in 1..l
    <2>2. CASE o # n
        BY <1>7, <1>8, <2>2
    <2>3. CASE o = n
        <3>1. Len(f[n]) = Len(g[n])
            BY <1>7
        <3>2. \A t \in 1..Len(g[n]) : t # s => f[n][t] = g[n][t]
            BY <1>7
        <3>3. f[n][s].basket = g[n][s].basket
            BY <1>8, <2>1
        <3> QED
            BY <2>3, <3>1, <3>2, <3>3
    <2> QED
        BY <2>2, <2>3
<1>10. Fit(v, P) /\ Range(v.items) = Range(e.items) \cup {i}
    <2>1. Fit(e, R)
        BY <1>0, <1>3, <1>4 DEF Own
    <2>2. e.items \in Seq(Nat) /\ IsInjective(e.items) /\ i \notin Range(e.items)
        BY <1>8, <2>1 DEF Entry, Fit
    <2>3. IsInjective(v.items) /\ Range(v.items) = Range(e.items) \cup {i}
        BY <1>3, <1>7, <2>2, ListedOnceMore
    <2> QED
        BY <1>1, <1>2, <1>8, <2>1, <2>3 DEF Fit
<1>11. \A h \in P : key[h] \in DOMAIN m.group
                     /\ m.place[item[h].basket].slot \in 1..Len(Last(m.group[key[h]]))
                     /\ Last(m.group[key[h]])[m.place[item[h].basket].slot].basket = item[h].basket
    BY <1>0 DEF Pointed
<1>12. /\ \A x \in DOMAIN m.group : x # k => w.group[x] = m.group[x]
       /\ w.group[k] = f /\ m.group[k] = g
    BY <1>4, <1>5, <1>7
<1>13. Pointed(w, P, key)
    <2> SUFFICES ASSUME NEW h \in P
                 PROVE  LET at == w.place[item[h].basket]  z == w.group[key[h]] IN
                        /\ at.key = key[h] /\ key[h] \in DOMAIN w.group
                        /\ at.array \in 1..Len(z) /\ at.slot \in 1..Len(z[at.array])
                        /\ z[at.array][at.slot].basket = item[h].basket
                        /\ at.slot \in 1..Len(Last(z)) /\ Last(z)[at.slot].basket = item[h].basket
        BY DEF Pointed
    <2>1. PICK at : at = m.place[item[h].basket]
        OBVIOUS
    <2>2. /\ at.key = key[h] /\ key[h] \in DOMAIN m.group
          /\ at.array \in 1..Len(m.group[key[h]])
          /\ at.slot \in 1..Len(m.group[key[h]][at.array])
          /\ m.group[key[h]][at.array][at.slot].basket = item[h].basket
          /\ at.slot \in 1..Len(Last(m.group[key[h]]))
          /\ Last(m.group[key[h]])[at.slot].basket = item[h].basket
        BY <1>0, <2>1 DEF Pointed
    <2>3. CASE key[h] # k
        BY <1>7, <1>12, <2>1, <2>2, <2>3
    <2>4. CASE key[h] = k
        <3>1. /\ at.array \in 1..l /\ at.slot \in 1..Len(g[at.array])
              /\ g[at.array][at.slot].basket = item[h].basket
              /\ at.slot \in 1..Len(g[l]) /\ g[l][at.slot].basket = item[h].basket
            BY <1>8, <1>12, <2>2, <2>4
        <3>2. /\ at.slot \in 1..Len(f[at.array]) /\ f[at.array][at.slot].basket = item[h].basket
              /\ at.slot \in 1..Len(f[l]) /\ f[l][at.slot].basket = item[h].basket
            BY <1>8, <1>9, <3>1
        <3>3. w.group[key[h]] = f /\ Len(f) = l /\ Last(f) = f[l] /\ w.place[item[h].basket] = at
            BY <1>7, <1>8, <1>12, <2>1, <2>4
        <3> QED
            BY <1>7, <2>2, <3>1, <3>2, <3>3
    <2> QED
        BY <2>3, <2>4
<1>14. Placed(w, P, key)
    <2> SUFFICES ASSUME NEW x \in DOMAIN w.group, NEW t \in 1..Len(Last(w.group[x]))
                 PROVE  \E h \in P : /\ Last(w.group[x])[t].basket = item[h].basket /\ key[h] = x
                                     /\ w.place[item[h].basket].slot = t
        BY DEF Placed
    <2>1. CASE x # k
        <3>1. x \in DOMAIN m.group /\ w.group[x] = m.group[x] /\ w.place = m.place
            BY <1>7, <1>12, <2>1
        <3> QED
            BY <1>0, <3>1 DEF Placed
    <2>2. CASE x = k
        <3>1. t \in 1..Len(Last(g)) /\ Last(w.group[x])[t].basket = Last(g)[t].basket
            BY <1>8, <1>9, <1>12, <2>2
        <3>2. PICK h \in P : /\ Last(g)[t].basket = item[h].basket /\ key[h] = k
                             /\ m.place[item[h].basket].slot = t
            <4>1. Placed(m, P, key) /\ k \in DOMAIN m.group /\ t \in 1..Len(Last(m.group[k]))
                BY <1>0, <1>3, <1>12, <3>1
            <4>2. PICK h \in P : /\ Last(m.group[k])[t].basket = item[h].basket /\ key[h] = k
                                 /\ m.place[item[h].basket].slot = t
                BY <4>1 DEF Placed
            <4> QED
                BY <1>12, <4>2
        <3> QED
            BY <1>7, <2>2, <3>1, <3>2
    <2> QED
        BY <2>1, <2>2
<1>15. Own(w, P)
    <2> SUFFICES ASSUME NEW x \in DOMAIN w.group, NEW o \in 1..Len(w.group[x]),
                        NEW t \in 1..Len(w.group[x][o])
                 PROVE  Fit(w.group[x][o][t], P)
        BY DEF Own
    <2>0. \A e2 : Fit(e2, R) => Fit(e2, P)
        BY <1>1 DEF Fit
    <2>1. CASE x # k
        <3>1. x \in DOMAIN m.group /\ w.group[x] = m.group[x]
            BY <1>7, <1>12, <2>1
        <3> QED
            BY <1>0, <2>0, <3>1 DEF Own
    <2>2. CASE x = k /\ o = n /\ t = s
        BY <1>5, <1>10, <2>2
    <2>3. CASE x = k /\ ~(o = n /\ t = s)
        <3>1. o \in 1..l /\ t \in 1..Len(g[o]) /\ w.group[x][o][t] = g[o][t]
            BY <1>7, <1>8, <1>9, <1>12, <2>3
        <3>2. Fit(g[o][t], R)
            <4>1. o \in 1..Len(m.group[k]) /\ t \in 1..Len(m.group[k][o])
                BY <1>8, <1>12, <3>1
            <4>2. Fit(m.group[k][o][t], R)
                BY <1>0, <1>3, <4>1 DEF Own
            <4> QED
                BY <1>12, <4>2
        <3> QED
            BY <2>0, <3>1, <3>2
    <2> QED
        BY <2>1, <2>2, <2>3
<1>16. Entered(w, P, S, key)
    <2> SUFFICES ASSUME NEW h \in P
                 PROVE  h \in Range(Last(w.group[key[h]])[w.place[item[h].basket].slot].items)
                        <=> ~Outgrown(S, key, h)
        BY DEF Entered
    <2>1. PICK t : t = m.place[item[h].basket].slot
        OBVIOUS
    <2>2. w.place[item[h].basket].slot = t
        BY <1>7, <2>1
    <2>4. CASE h = i
        <3>1. Last(w.group[key[h]]) = f[l] /\ t = s
            BY <1>2, <1>8, <1>12, <2>1, <2>4
        <3>2. n = l <=> ~Outgrown(S, key, i)
            BY <1>0, <1>1, <1>2, <1>4, <1>a DEF Stale
        <3>3. CASE n = l
            <4>1. f[l][s] = v
                BY <1>5, <3>3
            <4>2. h \in Range(v.items)
                BY <1>10, <2>4
            <4> QED
                BY <2>2, <2>4, <3>1, <3>2, <3>3, <4>1, <4>2
        <3>4. CASE n # l
            <4>1. l \in 1..Len(g) /\ f[l] = g[l]
                BY <1>7, <1>8, <3>4
            <4>2. s \in 1..Len(g[l])
                BY <1>3, <1>8, <1>12
            <4>3. Fit(g[l][s], R)
                BY <1>0, <1>3, <1>12, <4>1, <4>2 DEF Own
            <4>4. h \notin Range(g[l][s].items)
                BY <2>4, <4>3 DEF Fit
            <4> QED
                BY <2>2, <2>4, <3>1, <3>2, <3>4, <4>1, <4>4
        <3> QED
            BY <3>3, <3>4
    <2>5. CASE h \in R
        <3>0. h # i
            BY <2>5
        <3>1. h \in Range(Last(m.group[key[h]])[t].items) <=> ~Outgrown(S, key, h)
            BY <1>0, <2>1, <2>5 DEF Entered
        <3>2. CASE key[h] # k
            BY <1>11, <1>12, <2>2, <3>1, <3>2
        <3>3. CASE key[h] = k
            <4>1. t \in 1..Len(g[l]) /\ Last(m.group[key[h]]) = g[l]
                BY <1>8, <1>11, <1>12, <2>1, <3>3
            <4>2. f[l][t] = g[l][t] \/ (l = n /\ t = s)
                BY <1>8, <1>9, <4>1
            <4>3. h \in Range(f[l][t].items) <=> h \in Range(g[l][t].items)
                <5>1. CASE f[l][t] = g[l][t]
                    BY <5>1
                <5>2. CASE l = n /\ t = s
                    <6>1. f[l][t] = v /\ g[l][t] = e
                        BY <1>4, <1>5, <5>2
                    <6> QED
                        BY <1>10, <3>0, <6>1
                <5> QED
                    BY <4>2, <5>1, <5>2
            <4>4. Last(w.group[key[h]]) = f[l]
                BY <1>8, <1>12, <3>3
            <4> QED
                BY <2>2, <3>1, <4>1, <4>3, <4>4
        <3> QED
            BY <3>2, <3>3
    <2> QED
        BY <1>1, <2>4, <2>5
<1>17. \A x \in DOMAIN m.group : /\ Len(w.group[x]) = Len(m.group[x])
                                 /\ Len(Last(w.group[x])) = Len(Last(m.group[x]))
    <2> TAKE x \in DOMAIN m.group
    <2>1. CASE x # k
        BY <1>12, <2>1
    <2>2. CASE x = k
        <3>1. Len(f[l]) = Len(g[l])
            BY <1>8, <1>9
        <3> QED
            BY <1>7, <1>8, <1>12, <2>2, <3>1
    <2> QED
        BY <2>1, <2>2
<1>18. Sized(w, P, key)
    BY <1>0, <1>7, <1>17 DEF Sized
<1>19. Begins(w, P, S, key)
    BY <1>0, <1>7 DEF Begins
<1>20. Stale(w, P, key)
    BY <1>0, <1>7, <1>11, <1>17 DEF Stale
<1> QED
    BY <1>7, <1>13, <1>14, <1>15, <1>16, <1>18, <1>19, <1>20 DEF Filed, P

-----------------------------------------------------------------------------
\* The query orders its rows, and leaves those of a basket among those of its type.
LEMMA BeforeOrders ==
    ASSUME TablesOK, NEW i \in Joined, NEW j \in Joined
    PROVE  /\ i # j => Before(i, j) \/ Before(j, i)
           /\ ~(Before(i, j) /\ Before(j, i))
           /\ \A h \in Joined : Before(h, i) /\ Before(i, j) => Before(h, j)
           /\ \A h \in Joined : Before(h, i) /\ Before(i, j) /\ item[h].basket = item[j].basket
                                => BasketOf(i).type = BasketOf(h).type
<1>1. \A x \in Joined : x \in Nat /\ BasketOf(x).plan \in Nat /\ BasketOf(x).type \in Nat
    BY DEF TablesOK, IsTable, Joined, BasketOf, BasketRow
<1>2. \A x, y \in Joined : item[x].basket = item[y].basket => BasketOf(x) = BasketOf(y)
    BY DEF BasketOf
<1> QED
    BY <1>1, <1>2 DEF Before

\* Of some rows one is the last.
LEMMA LastRowIs ==
    ASSUME TablesOK, NEW R \in SUBSET Joined, R # {}
    PROVE  LastRow(R) \in R /\ \A j \in R \ {LastRow(R)} : Before(j, LastRow(R))
<1> DEFINE Bad == {T \in SUBSET R : T # {} /\ ~\E i \in T : \A j \in T \ {i} : Before(j, i)}
<1>1. IsFiniteSet(R)
    BY FS_Subset DEF TablesOK, IsTable, Joined
<1>2. Bad = {}
    <2> SUFFICES ASSUME Bad # {} PROVE FALSE
        OBVIOUS
    <2>1. Bad \in SUBSET (SUBSET R)
        OBVIOUS
    <2> HIDE DEF Bad
    <2>2. PICK T \in Bad : \A x \in T : T \ {x} \notin Bad
        BY <1>1, <2>1, LeastSet
    <2> USE DEF Bad
    <2>3. PICK x \in T : TRUE
        BY <2>2
    <2>4. CASE T \ {x} = {}
        BY <2>2, <2>3, <2>4
    <2>5. CASE T \ {x} # {}
        <3>1. PICK y \in T \ {x} : \A j \in T \ {x, y} : Before(j, y)
            BY <2>2, <2>3, <2>5
        <3>2. x \in Joined /\ y \in Joined /\ x # y /\ T \subseteq Joined
            BY <2>2, <2>3, <3>1
        <3>3. CASE Before(x, y)
            BY <2>2, <3>1, <3>3
        <3>4. CASE Before(y, x)
            <4>1. \A j \in T \ {x} : Before(j, x)
                BY <3>1, <3>2, <3>4, BeforeOrders
            <4> QED
                BY <2>2, <2>3, <4>1
        <3> QED
            BY <3>2, <3>3, <3>4, BeforeOrders
    <2> QED
        BY <2>4, <2>5
<1>3. \E i \in R : \A j \in R \ {i} : Before(j, i)
    BY <1>2
<1> QED
    BY <1>3 DEF LastRow

\* The memory after each set of rows, as Reading builds it.
Memories(g, S, key) ==
    g = [R \in SUBSET S |->
            IF R = {} THEN NoRows
            ELSE ReadRow(g[R \ {LastRow(R)}], key[LastRow(R)], LastRow(R))]

LEMMA MemoriesExist ==
    ASSUME TablesOK, NEW S \in SUBSET Joined, NEW key
    PROVE  \E g : Memories(g, S, key)
<1> DEFINE After(g, s) == IF s = {} THEN NoRows
                          ELSE ReadRow(g[s \ {LastRow(s)}], key[LastRow(s)], LastRow(s))
           Upto(g, n) == \A s \in SUBSET S : Cardinality(s) <= n => g[s] = After(g, s)
           Bad == {n \in Nat : ~\E g : Upto(g, n)}
<1>0. IsFiniteSet(S) /\ \A s \in SUBSET S : IsFiniteSet(s) /\ Cardinality(s) \in Nat
    BY FS_Subset, FS_CardinalityType DEF TablesOK, IsTable, Joined
<1>a. \A s \in SUBSET S : s # {} => LastRow(s) \in s
    BY LastRowIs
<1>b. \A g, h : \A s \in SUBSET S :
         g[s \ {LastRow(s)}] = h[s \ {LastRow(s)}] => After(g, s) = After(h, s)
    OBVIOUS
<1>1. Bad = {}
    <2> SUFFICES ASSUME Bad # {} PROVE FALSE
        OBVIOUS
    <2>1. PICK m \in Bad : \A j \in Bad : m <= j
        BY LeastNumber
    <2>2. CASE m = 0
        <3> DEFINE z == [s \in SUBSET S |-> NoRows]
        <3>1. \A s \in SUBSET S : Cardinality(s) <= 0 => s = {}
            BY <1>0, FS_EmptySet
        <3>2. Upto(z, 0)
            BY <3>1
        <3> QED
            BY <2>1, <2>2, <3>2
    <2>3. CASE m # 0
        <3>1. m \in Nat /\ m - 1 \in Nat /\ m - 1 \notin Bad
            <4>1. m \in Nat
                OBVIOUS
            <4>2. m - 1 \in Nat /\ ~(m <= m - 1)
                BY <2>3, <4>1
            <4> HIDE DEF Bad
            <4> QED
                BY <2>1, <4>1, <4>2
        <3>2. PICK g : Upto(g, m - 1)
            BY <3>1
        <3> DEFINE h == [s \in SUBSET S |-> After(g, s)]
        <3>3. ASSUME NEW s \in SUBSET S, Cardinality(s) <= m PROVE h[s] = After(h, s)
            <4>1. CASE s = {}
                BY <4>1
            <4>2. CASE s # {}
                <5> DEFINE t == s \ {LastRow(s)}
                <5>1. LastRow(s) \in s /\ t \in SUBSET S
                    BY <1>a, <4>2
                <5>2. Cardinality(t) = Cardinality(s) - 1
                    BY <1>0, <5>1, FS_RemoveElement
                <5>3. Cardinality(t) <= m - 1
                    BY <1>0, <3>1, <3>3, <5>2
                <5>4. g[t] = h[t]
                    BY <3>2, <5>1, <5>3
                <5>5. h[s] = After(g, s)
                    OBVIOUS
                <5> HIDE DEF h, After
                <5> QED
                    BY <1>b, <5>4, <5>5
            <4> QED
                BY <4>1, <4>2
        <3>4. Upto(h, m)
            <4> HIDE DEF h, After
            <4> QED
                BY <3>3
        <3> QED
            BY <2>1, <3>4
    <2> QED
        BY <2>2, <2>3
<1>2. Cardinality(S) \in Nat
    BY <1>0
<1>3. PICK g : Upto(g, Cardinality(S))
    BY <1>1, <1>2
<1> DEFINE h == [s \in SUBSET S |-> g[s]]
<1>4. ASSUME NEW s \in SUBSET S PROVE h[s] = After(h, s)
    <2>1. Cardinality(s) <= Cardinality(S)
        BY <1>0, FS_Subset
    <2>2. g[s] = After(g, s)
        BY <1>3, <2>1
    <2>3. s \ {LastRow(s)} \in SUBSET S /\ g[s] = h[s]
        OBVIOUS
    <2>4. g[s \ {LastRow(s)}] = h[s \ {LastRow(s)}]
        BY <2>3
    <2> HIDE DEF h, After
    <2> QED
        BY <1>b, <2>2, <2>3, <2>4
<1>5. h = [s \in SUBSET S |-> After(h, s)]
    <2> HIDE DEF After
    <2> QED
        BY <1>4
<1> QED
    BY <1>5 DEF Memories

\* Before the first row nothing is filed.
LEMMA NothingFiled == ASSUME NEW S, NEW key PROVE Filed(NoRows, {}, {}, S, key)
BY DEF Filed, Slices, Pointed, Placed, Own, Entered, Sized, Begins, Stale, NoRows

\* A row after those that were read is filed with them.
LEMMA RowFiled ==
    ASSUME TablesOK, NEW S \in SUBSET Joined, NEW key, Grouped(S, key),
           NEW R \in SUBSET S, NEW i \in S \ R,
           \A h \in R : Before(h, i), \A j \in S \ R : j # i => Before(i, j),
           NEW m, Filed(m, R, R, S, key)
    PROVE  Filed(ReadRow(m, key[i], i), R \cup {i}, R \cup {i}, S, key)
<1>1. InTurn(R, i, S, key)
    <2>1. \A j \in S : j = i \/ Before(j, i) <=> j \in R \cup {i}
        <3> TAKE j \in S
        <3>1. i \in Joined /\ j \in Joined
            OBVIOUS
        <3>2. CASE j \in R \cup {i}
            BY <3>2
        <3>3. CASE j \notin R \cup {i}
            BY <3>1, <3>3, BeforeOrders
        <3> QED
            BY <3>2, <3>3
    <2> QED
        BY <2>1 DEF InTurn, RowsTo
<1>2. PICK w : w = AddBasket(m, key[i], item[i].basket)
    OBVIOUS
<1>3. Filed(w, R \cup {i}, R, S, key)
    BY <1>1, <1>2, AddBasketFiled
<1>4. PICK v : v = AddItem(w, item[i].basket, i)
    OBVIOUS
<1>5. Filed(v, R \cup {i}, R \cup {i}, S, key)
    BY <1>1, <1>3, <1>4, AddItemFiled
<1> QED
    BY <1>2, <1>4, <1>5 DEF ReadRow

\* So all are filed in the end.
LEMMA AllFiled ==
    ASSUME TablesOK, NEW S \in SUBSET Joined, NEW key, Grouped(S, key)
    PROVE  Filed(Reading(S, key), S, S, S, key)
<1>1. PICK g : g = CHOOSE f : Memories(f, S, key)
    OBVIOUS
<1>2. Memories(g, S, key)
    BY <1>1, MemoriesExist
<1>3. Reading(S, key) = g[S]
    BY <1>1 DEF Reading, Memories
<1> DEFINE First(R) == \A i \in R : \A j \in S : Before(j, i) => j \in R
           Bad == {R \in SUBSET S : First(R) /\ ~Filed(g[R], R, R, S, key)}
<1>4. IsFiniteSet(S)
    BY FS_Subset DEF TablesOK, IsTable, Joined
<1>5. Bad = {}
    <2> SUFFICES ASSUME Bad # {} PROVE FALSE
        OBVIOUS
    <2>1. Bad \in SUBSET (SUBSET S)
        OBVIOUS
    <2> HIDE DEF Bad
    <2>2. PICK Q \in Bad : \A x \in Q : Q \ {x} \notin Bad
        BY <1>4, <2>1, LeastSet
    <2>3. Q \in SUBSET S /\ First(Q) /\ ~Filed(g[Q], Q, Q, S, key)
        BY <2>2 DEF Bad
    <2>4. CASE Q = {}
        <3>1. g[Q] = NoRows
            BY <1>2, <2>4 DEF Memories
        <3> QED
            BY <2>3, <2>4, <3>1, NothingFiled
    <2>5. CASE Q # {}
        <3>1. PICK i, R : i = LastRow(Q) /\ R = Q \ {i}
            OBVIOUS
        <3>2. i \in Q /\ \A j \in R : Before(j, i)
            BY <2>3, <2>5, <3>1, LastRowIs
        <3>3. /\ R \in SUBSET S /\ i \in S \ R /\ Q = R \cup {i}
              /\ Q \subseteq Joined /\ R \subseteq Q
            BY <2>3, <3>1, <3>2
        <3>4. \A j \in S \ R : j # i => Before(i, j)
            <4> TAKE j \in S \ R
            <4>1. j # i => j \notin Q /\ ~Before(j, i)
                BY <2>3, <3>2, <3>3
            <4> QED
                BY <3>3, <4>1, BeforeOrders
        <3>5. First(R)
            <4> SUFFICES ASSUME NEW x \in R, NEW j \in S, Before(j, x) PROVE j \in R
                OBVIOUS
            <4>1. j \in Q
                BY <2>3, <3>3
            <4>2. Before(x, i) /\ x \in Joined /\ i \in Joined
                BY <3>2, <3>3
            <4>3. j # i
                BY <4>2, BeforeOrders
            <4> QED
                BY <3>3, <4>1, <4>3
        <3>6. R \notin Bad
            BY <2>2, <3>1, <3>2
        <3>7. Filed(g[R], R, R, S, key)
            BY <3>3, <3>5, <3>6 DEF Bad
        <3>8. PICK m : m = g[R]
            OBVIOUS
        <3>9. g[Q] = ReadRow(m, key[i], i)
            BY <1>2, <2>3, <2>5, <3>1, <3>8 DEF Memories
        <3>10. Filed(ReadRow(m, key[i], i), R \cup {i}, R \cup {i}, S, key)
            BY <3>2, <3>3, <3>4, <3>7, <3>8, RowFiled
        <3> QED
            BY <2>3, <3>3, <3>9, <3>10
    <2> QED
        BY <2>4, <2>5
<1>6. First(S)
    OBVIOUS
<1> QED
    BY <1>3, <1>5, <1>6

\* Between two orders of a basket that is the only one of its type in its group no other
\* basket is found.
LEMMA ApartKeeps ==
    ASSUME TablesOK, NEW S \in SUBSET Joined, NEW key, Grouped(S, key), NEW i \in S,
           Apart(S, key, item[i].basket)
    PROVE  ~Outgrown(S, key, i)
<1> SUFFICES ASSUME Outgrown(S, key, i) PROVE FALSE
    OBVIOUS
<1>1. PICK f \in RowsTo(S, key, i), c \in Capacities :
          item[f].basket = item[i].basket /\ Count(S, key, f) <= c /\ c < Count(S, key, i)
    BY DEF Outgrown
<1>2. f \in S /\ c \in Nat /\ Count(S, key, f) \in Nat /\ Count(S, key, i) \in Nat
    BY <1>1, CountMeans, CapacityAssumption DEF RowsTo
<1>3. Count(S, key, f) # Count(S, key, i)
    BY <1>1, <1>2
<1>4. \A j \in RowsTo(S, key, i) : \E x \in RowsTo(S, key, f) : item[x].basket = item[j].basket
    <2> TAKE j \in RowsTo(S, key, i)
    <2>1. j \in S /\ key[j] = key[i] /\ (j = i \/ Before(j, i)) /\ (f = i \/ Before(f, i))
        BY DEF RowsTo
    <2>2. f \in RowsTo(S, key, f) /\ key[f] = key[i]
        BY <1>2 DEF RowsTo
    <2>3. CASE item[j].basket = item[i].basket
        BY <1>1, <2>2, <2>3
    <2>4. CASE item[j].basket # item[i].basket
        <3>1. j # i /\ j # f /\ Before(j, i)
            BY <1>1, <2>1, <2>4
        <3>2. CASE Before(j, f)
            <4>1. j \in RowsTo(S, key, f)
                BY <2>1, <2>2, <3>2 DEF RowsTo
            <4> QED
                BY <4>1
        <3>3. CASE Before(f, j)
            <4>1. BasketOf(j).type = BasketOf(f).type
                BY <1>1, <1>2, <2>1, <3>1, <3>3, BeforeOrders
            <4>2. BasketOf(i).type # BasketOf(j).type
                BY <2>1, <2>4 DEF Apart
            <4> QED
                BY <1>1, <4>1, <4>2 DEF BasketOf
        <3> QED
            BY <1>2, <2>1, <3>1, <3>2, <3>3, BeforeOrders
    <2> QED
        BY <2>3, <2>4
<1>5. RowsTo(S, key, f) \subseteq RowsTo(S, key, i)
    <2> SUFFICES ASSUME NEW x \in RowsTo(S, key, f) PROVE x \in RowsTo(S, key, i)
        OBVIOUS
    <2>1. x \in S /\ key[x] = key[f] /\ (x = f \/ Before(x, f))
          /\ key[f] = key[i] /\ (f = i \/ Before(f, i))
        BY DEF RowsTo
    <2>2. x = i \/ Before(x, i)
        BY <1>2, <2>1, BeforeOrders
    <2> QED
        BY <2>1, <2>2 DEF RowsTo
<1>6. {item[j].basket : j \in RowsTo(S, key, i)} = {item[j].basket : j \in RowsTo(S, key, f)}
    BY <1>4, <1>5
<1> QED
    BY <1>3, <1>6 DEF Count

\* Files of all rows are whole.
LEMMA WholeFiled ==
    ASSUME TablesOK, NEW S \in SUBSET Joined, NEW key, Grouped(S, key),
           NEW m, Filed(m, S, S, S, key)
    PROVE  Whole(Lists(m), S, key)
<1>0. /\ Slices(m, S) /\ Pointed(m, S, key) /\ Placed(m, S, key)
      /\ Own(m, S) /\ Entered(m, S, S, key)
    BY DEF Filed
<1>1. PICK lists : lists = Lists(m)
    OBVIOUS
<1>2. /\ DOMAIN lists = DOMAIN m.group
      /\ \A k \in DOMAIN m.group : lists[k] = Last(m.group[k]) /\ DOMAIN lists[k] = 1..Len(lists[k])
    <2>1. \A k \in DOMAIN m.group : Last(m.group[k]) \in Seq(Entry)
        BY <1>0 DEF Slices, Last
    <2> QED
        BY <1>1, <2>1 DEF Lists
<1>3. ASSUME NEW i \in S
      PROVE  /\ Cardinality(Entries(lists, item[i].basket)) = 1
             /\ \A x \in Entries(lists, item[i].basket) :
                   LET listed == lists[x[1]][x[2]].items IN
                   /\ x[1] = key[i] /\ IsInjective(listed)
                   /\ Range(listed) \subseteq ItemsOfBaskets({item[i].basket})
                   /\ i \in Range(listed) <=> ~Outgrown(S, key, i)
                   /\ Apart(S, key, item[i].basket) => i \in Range(listed)
    <2>1. PICK b, k, s : b = item[i].basket /\ k = key[i] /\ s = m.place[b].slot
        OBVIOUS
    <2>2. k \in DOMAIN lists /\ s \in 1..Len(lists[k]) /\ lists[k][s].basket = b
        BY <1>0, <1>2, <2>1 DEF Pointed
    <2>3. ASSUME NEW l \in DOMAIN lists, NEW t \in DOMAIN lists[l], lists[l][t].basket = b
          PROVE  l = k /\ t = s
        <3>1. PICK h \in S : /\ lists[l][t].basket = item[h].basket /\ key[h] = l
                             /\ m.place[item[h].basket].slot = t
            <4>1. l \in DOMAIN m.group /\ t \in 1..Len(Last(m.group[l])) /\ lists[l] = Last(m.group[l])
                BY <1>2, <2>3
            <4>2. PICK h \in S : /\ Last(m.group[l])[t].basket = item[h].basket /\ key[h] = l
                                 /\ m.place[item[h].basket].slot = t
                BY <1>0, <4>1 DEF Placed
            <4> QED
                BY <4>1, <4>2
        <3>2. m.place[item[h].basket].key = key[h] /\ m.place[b].key = k
            BY <1>0, <2>1 DEF Pointed
        <3> QED
            BY <2>1, <2>3, <3>1, <3>2
    <2>4. Entries(lists, b) = {<<k, s>>}
        BY <1>2, <2>2, <2>3 DEF Entries
    <2>5. Cardinality({<<k, s>>}) = 1
        BY FS_Singleton
    <2>6. PICK e : e = lists[k][s]
        OBVIOUS
    <2>7. Fit(e, S)
        <3>1. /\ Len(m.group[k]) \in 1..Len(m.group[k])
              /\ Last(m.group[k]) = m.group[k][Len(m.group[k])]
            BY <1>0, <1>2, <2>2 DEF Slices, Last
        <3> QED
            BY <1>0, <1>2, <2>2, <2>6, <3>1 DEF Own
    <2>8. IsInjective(e.items) /\ Range(e.items) \subseteq ItemsOfBaskets({b})
        BY <2>2, <2>6, <2>7 DEF Fit, ItemsOfBaskets
    <2>9. /\ i \in Range(e.items) <=> ~Outgrown(S, key, i)
          /\ Apart(S, key, b) => i \in Range(e.items)
        <3>1. i \in Range(e.items) <=> ~Outgrown(S, key, i)
            BY <1>0, <1>2, <2>1, <2>2, <2>6 DEF Entered
        <3> QED
            BY <2>1, <3>1, ApartKeeps
    <2>10. Cardinality(Entries(lists, item[i].basket)) = 1
        BY <2>1, <2>4, <2>5
    <2>11. ASSUME NEW x \in Entries(lists, item[i].basket)
           PROVE  x[1] = k /\ lists[x[1]][x[2]].items = e.items
        <3>1. x = <<k, s>>
            BY <2>1, <2>4
        <3> QED
            BY <2>6, <3>1
    <2> QED
        BY <2>1, <2>8, <2>9, <2>10, <2>11
<1> QED
    BY <1>1, <1>3 DEF Whole

\* For any tables the lists are whole.
LEMMA ListsOK == TablesOK => ListsWhole
<1> SUFFICES ASSUME TablesOK PROVE ListsWhole
    OBVIOUS
<1>1. JoinedValid \subseteq Joined
    BY DEF JoinedValid
<1>2. \A i \in Joined : i \in Nat /\ item[i].basket \in Nat
    BY DEF TablesOK, IsTable, Joined
<1>a. \A S \in SUBSET Joined : IsFiniteSet({item[i].basket : i \in S})
    <2> TAKE S \in SUBSET Joined
    <2>1. {item[i].basket : i \in S} \in SUBSET DOMAIN basket
        BY DEF Joined
    <2> QED
        BY <2>1, FS_Subset DEF TablesOK, IsTable
<1>3. Grouped(Joined, KeyOfAll)
    BY <1>2, <1>a DEF Grouped, KeyOfAll, BasketOf
<1>4. Grouped(JoinedValid, KeyOfValid)
    BY <1>1, <1>2, <1>a DEF Grouped, KeyOfValid, BasketOf
<1>5. Filed(Reading(Joined, KeyOfAll), Joined, Joined, Joined, KeyOfAll)
    BY <1>3, AllFiled
<1>6. Filed(Reading(JoinedValid, KeyOfValid), JoinedValid, JoinedValid, JoinedValid, KeyOfValid)
    BY <1>1, <1>4, AllFiled
<1>7. Whole(AllLists, Joined, KeyOfAll)
    BY <1>3, <1>5, WholeFiled DEF AllLists
<1>8. Whole(ValidLists, JoinedValid, KeyOfValid)
    BY <1>1, <1>4, <1>6, WholeFiled DEF ValidLists
<1> QED
    BY <1>7, <1>8 DEF ListsWhole

\* GetAll.go, GetAllValid.go: every basket is listed once, in its own group, with orders of
\* its own, each once.  Missing is exactly what is read after the slice has outgrown the
\* array in which the first order of its basket was put, whatever sizes arrays come in; and
\* none of a basket that is the only one of its type in its group.
THEOREM ListsRight == Spec => []ListsWhole
BY ListsOK, TablesTyped, PTL
===============================================================================
