------------------------ MODULE TenderLifecycleProofs ------------------------
(***************************************************************************)
(* What holds of TenderLifecycle for any tables, requests and calls.       *)
(*                                                                         *)
(* First types, then locks and reannouncements, then the matcher and what  *)
(* TenderVersions promises.                                                *)
(***************************************************************************)
EXTENDS TenderLifecycle, TLAPS

-----------------------------------------------------------------------------
(* Type correctness, one lemma for the steps of each handler.              *)

\* Every request asks for something of the right shape.
LEMMA CallTyped ==
    ASSUME TypeOK, NEW r \in Requests
    PROVE  /\ call[r] \in Call
           /\ call[r].kind \in Kinds /\ call[r].user \in Users
           /\ call[r].tender \in Tenders /\ call[r].items \subseteq Items
<1>1. call[r] \in Calls
    BY DEF TypeOK
<1> QED
    BY <1>1, StoreAssumption DEF Call

\* The end of a request keeps the type of what it touches.
LEMMA DoneTyped ==
    ASSUME TypeOK, NEW r \in Requests, Done(r)
    PROVE  /\ call' \in [Requests -> Calls]
           /\ pc' \in [Requests -> Pc]
           /\ frame' \in [Requests -> Locals]
           /\ appLock' \in [Tenders -> Requests \cup {None}]
           /\ rowLock' \in [Tenders -> Requests \cup {None}]
<1>1. NoFrame \in Locals
    BY DEF NoFrame, Locals
<1>2. "done" \in Pc
    BY DEF Pc
<1> QED
    BY <1>1, <1>2 DEF TypeOK, Done

\* A step to another statement keeps the type of pc.
LEMMA GotoTyped ==
    ASSUME TypeOK, NEW r \in Requests, NEW from, NEW to \in Pc, Goto(r, from, to)
    PROVE  pc' \in [Requests -> Pc]
BY DEF TypeOK, Goto

LEMMA InitTyped == Init => TypeOK
<1> SUFFICES ASSUME Init PROVE TypeOK
    OBVIOUS
<1>1. PICK l \in Legacy : tender = [t \in DOMAIN l |-> Migrated(l, t)]
    BY DEF Init
<1>2. DOMAIN l \subseteq Tenders /\ l \in [DOMAIN l -> LegacyRow]
    BY <1>1, StoreAssumption
<1>3. \A t \in DOMAIN l : Migrated(l, t) \in TenderRow
    <2> TAKE t \in DOMAIN l
    <2>1. l[t] \in LegacyRow
        BY <1>2
    <2>2. HasLiveVersion(l, t) \in BOOLEAN
        BY DEF HasLiveVersion
    <2> QED
        BY <2>1, <2>2 DEF Migrated, LegacyRow, TenderRow, Lifecycle
<1>4. DOMAIN tender \subseteq Tenders /\ tender \in [DOMAIN tender -> TenderRow]
    BY <1>1, <1>2, <1>3
<1>5. DOMAIN batch \subseteq Requests /\ batch \in [DOMAIN batch -> BatchRow]
    BY DEF Init
<1>6. pc \in [Requests -> Pc]
    <2> SUFFICES ASSUME NEW r \in Requests PROVE FirstStep[call[r].kind] \in Pc
        BY DEF Init
    <2>1. call[r].kind \in Kinds
        BY StoreAssumption DEF Init, Call
    <2> QED
        BY <2>1 DEF Kinds, FirstStep, Pc
<1>7. frame \in [Requests -> Locals]
    BY DEF Init, NoFrame, Locals
<1> QED
    BY <1>4, <1>5, <1>6, <1>7 DEF Init, TypeOK

LEMMA ReannounceTyped ==
    ASSUME TypeOK, NEW r \in Requests, ReannounceStep(r)
    PROVE  TypeOK'
<1> USE CallTyped, DoneTyped DEF Return
<1>1. frame[r] \in Locals
    BY DEF TypeOK
<1>2. ASSUME NEW stmt \in {"batch", "outbox", "archive"}, Execute(r, stmt)
      PROVE  frame' \in [Requests -> Locals]
    <2>1. [frame[r] EXCEPT !.wrote = @ \cup {stmt}] \in Locals
        BY <1>1 DEF Locals
    <2> QED
        BY <1>2, <2>1 DEF Execute, TypeOK
<1>3. CASE TakeAppLock(r)
    <2>1. pc' \in [Requests -> Pc]
        BY <1>3 DEF TakeAppLock, Goto, TypeOK, Pc
    <2> QED
        BY <1>3, <2>1 DEF TakeAppLock, Source, TypeOK, tables
<1>4. CASE LockTimeout(r)
    BY <1>4 DEF LockTimeout, TypeOK, tables
<1>5. CASE ReadTender(r)
    <2>1. CASE Return(r)
        BY <1>5, <2>1 DEF ReadTender, TypeOK, tables
    <2>2. CASE ~Return(r)
        <3>1. Goto(r, "read", "count") /\ HoldTender(r, Source(r)) /\ UNCHANGED <<call, frame, appLock, tables>>
            BY <1>5, <2>2 DEF ReadTender
        <3>2. pc' \in [Requests -> Pc]
            BY <3>1 DEF Goto, TypeOK, Pc
        <3> QED
            BY <3>1, <3>2 DEF HoldTender, Source, TypeOK, tables
    <2> QED
        BY <2>1, <2>2
<1>6. CASE CountOpenBatches(r)
    <2>1. pc' \in [Requests -> Pc]
        BY <1>6 DEF CountOpenBatches, Goto, TypeOK, Pc
    <2> QED
        BY <1>6, <2>1 DEF CountOpenBatches, TypeOK, tables, locks
<1>7. CASE InsertBatch(r)
    <2>1. pc' \in [Requests -> Pc]
        BY <1>7 DEF InsertBatch, Goto, TypeOK, Pc
    <2>2. frame' \in [Requests -> Locals]
        BY <1>7, <1>2 DEF InsertBatch
    <2> QED
        BY <1>7, <2>1, <2>2 DEF InsertBatch, TypeOK, tables, locks
<1>8. CASE InsertOutbox(r)
    <2>1. pc' \in [Requests -> Pc]
        BY <1>8 DEF InsertOutbox, Goto, TypeOK, Pc
    <2>2. frame' \in [Requests -> Locals]
        BY <1>8, <1>2 DEF InsertOutbox
    <2> QED
        BY <1>8, <2>1, <2>2 DEF InsertOutbox, TypeOK, tables, locks
<1>9. CASE ArchiveTender(r)
    <2>1. pc' \in [Requests -> Pc]
        BY <1>9 DEF ArchiveTender, Goto, TypeOK, Pc
    <2>2. frame' \in [Requests -> Locals]
        BY <1>9, <1>2 DEF ArchiveTender
    <2> QED
        BY <1>9, <2>1, <2>2 DEF ArchiveTender, TypeOK, tables, locks
<1>10. CASE CommitReannounce(r)
    <2>1. NewBatch(r) \in BatchRow
        BY DEF NewBatch, BatchRow, Source, OpenStatus
    <2>2. DOMAIN batch' \subseteq Requests /\ batch' \in [DOMAIN batch' -> BatchRow]
        BY <1>10, <2>1 DEF CommitReannounce, TypeOK
    <2>3. \A row \in TenderRow : ArchivedRow(row) \in TenderRow
        BY DEF ArchivedRow, TenderRow, Lifecycle
    <2>4. DOMAIN tender' \subseteq Tenders /\ tender' \in [DOMAIN tender' -> TenderRow]
        BY <1>10, <2>3 DEF CommitReannounce, TypeOK
    <2>5. versionItems' \subseteq (Tenders \X Items) /\ outbox' \subseteq Requests
        BY <1>10 DEF CommitReannounce, TypeOK, Source
    <2> QED
        BY <1>10, <2>2, <2>4, <2>5 DEF CommitReannounce, TypeOK
<1> QED
    BY <1>3, <1>4, <1>5, <1>6, <1>7, <1>8, <1>9, <1>10 DEF ReannounceStep

LEMMA AdminTyped ==
    ASSUME TypeOK, NEW r \in Requests,
           PostTenderStep(r) \/ UpdateStep(r) \/ DeleteStep(r) \/ GereeStep(r)
    PROVE  TypeOK'
<1> USE CallTyped, DoneTyped DEF Return
<1>1. frame[r] \in Locals
    BY DEF TypeOK
<1>2. CASE InsertTender(r)
    <2>1. pc' \in [Requests -> Pc]
        BY <1>2 DEF InsertTender, Goto, TypeOK, Pc
    <2>2. NewTender(r) \in TenderRow
        <3>1. call[r].flag \in BOOLEAN
            BY DEF Call
        <3> QED
            BY <3>1 DEF NewTender, TenderRow, Lifecycle
    <2>3. DOMAIN tender' \subseteq Tenders /\ tender' \in [DOMAIN tender' -> TenderRow]
        BY <1>2, <2>2 DEF InsertTender, TypeOK
    <2> QED
        BY <1>2, <2>1, <2>3 DEF InsertTender, TypeOK, locks
<1>3. CASE NotifyCreated(r)
    <2>1. notices' \subseteq ({"tender_created", "tender_suspended", "contract_assigned"} \X Users \X Requests)
        BY <1>3 DEF NotifyCreated, Notify, TypeOK
    <2> QED
        BY <1>3, <2>1 DEF NotifyCreated, TypeOK
<1>4. CASE ReadSuspended(r)
    <2>1. pc' \in [Requests -> Pc]
        BY <1>4 DEF ReadSuspended, Goto, TypeOK, Pc
    <2>2. frame' \in [Requests -> Locals]
        <3>1. \A s \in BOOLEAN : [frame[r] EXCEPT !.wasSuspended = s] \in Locals
            BY <1>1 DEF Locals
        <3>2. call[r].tender \in DOMAIN tender => tender[call[r].tender].suspended \in BOOLEAN
            BY DEF TypeOK, TenderRow
        <3> QED
            BY <1>4, <3>1, <3>2 DEF ReadSuspended, TypeOK
    <2> QED
        BY <1>4, <2>1, <2>2 DEF ReadSuspended, TypeOK, tables, locks
<1>5. CASE SetSuspended(r)
    <2>1. pc' \in [Requests -> Pc]
        BY <1>5 DEF SetSuspended, Goto, TypeOK, Pc
    <2>2. \A row \in TenderRow : [row EXCEPT !.suspended = call[r].flag] \in TenderRow
        BY DEF TenderRow, Call
    <2>3. DOMAIN tender' \subseteq Tenders /\ tender' \in [DOMAIN tender' -> TenderRow]
        BY <1>5, <2>2 DEF SetSuspended, TypeOK
    <2> QED
        BY <1>5, <2>1, <2>3 DEF SetSuspended, TypeOK, locks
<1>6. CASE NotifySuspended(r)
    <2>1. notices' \subseteq ({"tender_created", "tender_suspended", "contract_assigned"} \X Users \X Requests)
        BY <1>6 DEF NotifySuspended, TypeOK
    <2> QED
        BY <1>6, <2>1 DEF NotifySuspended, TypeOK
<1>7. CASE CheckDelete(r)
    <2>1. pc' \in [Requests -> Pc]
        BY <1>7 DEF CheckDelete, Goto, TypeOK, Pc
    <2> QED
        BY <1>7, <2>1 DEF CheckDelete, TypeOK, tables, locks
<1>8. CASE UpdateDeleted(r)
    <2>1. pc' \in [Requests -> Pc]
        BY <1>8 DEF UpdateDeleted, Goto, TypeOK, Pc
    <2>2. frame' \in [Requests -> Locals]
        <3>1. [frame[r] EXCEPT !.wrote = @ \cup {"delete"}] \in Locals
            BY <1>1 DEF Locals
        <3> QED
            BY <1>8, <3>1 DEF UpdateDeleted, TypeOK
    <2> QED
        BY <1>8, <2>1, <2>2 DEF UpdateDeleted, TypeOK, tables
<1>9. CASE CommitDelete(r)
    <2>1. \A row \in TenderRow : [row EXCEPT !.isDeleted = TRUE] \in TenderRow
        BY DEF TenderRow
    <2>2. DOMAIN tender' \subseteq Tenders /\ tender' \in [DOMAIN tender' -> TenderRow]
        BY <1>9, <2>1 DEF CommitDelete, TypeOK
    <2> QED
        BY <1>9, <2>2 DEF CommitDelete, TypeOK
<1>10. CASE CheckTenderOpen(r)
    <2>1. pc' \in [Requests -> Pc]
        BY <1>10 DEF CheckTenderOpen, Goto, TypeOK, Pc
    <2> QED
        BY <1>10, <2>1 DEF CheckTenderOpen, TypeOK, tables, locks
<1>11. CASE InsertGeree(r)
    <2>1. pc' \in [Requests -> Pc]
        BY <1>11 DEF InsertGeree, Goto, TypeOK, Pc
    <2>2. geree' \subseteq (Requests \X Tenders \X Users)
        BY <1>11 DEF InsertGeree, TypeOK
    <2> QED
        BY <1>11, <2>1, <2>2 DEF InsertGeree, TypeOK, locks
<1>12. CASE NotifyAssigned(r)
    <2>1. notices' \subseteq ({"tender_created", "tender_suspended", "contract_assigned"} \X Users \X Requests)
        BY <1>12 DEF NotifyAssigned, Notify, TypeOK
    <2> QED
        BY <1>12, <2>1 DEF NotifyAssigned, TypeOK
<1> QED
    BY <1>2, <1>3, <1>4, <1>5, <1>6, <1>7, <1>8, <1>9, <1>10, <1>11, <1>12
    DEF PostTenderStep, UpdateStep, DeleteStep, GereeStep

LEMMA MatchTyped ==
    ASSUME TypeOK, NEW r \in Requests, MatchStep(r)
    PROVE  TypeOK'
<1> USE CallTyped, DoneTyped DEF Return
<1>1. frame[r] \in Locals
    BY DEF TypeOK
<1>2. ASSUME NEW i \in call[r].items, MatchCode(r, i)
      PROVE  TypeOK'
    <2>1. Awaited(i) \subseteq Requests
        BY DEF Awaited, TypeOK
    <2>2. frame[r].seen \cup {i} \in SUBSET Items
        BY <1>1 DEF Locals
    <2>3. frame[r].codes \cup (Awaited(i) \X {i}) \in SUBSET (Requests \X Items)
        <3>1. i \in Items
            OBVIOUS
        <3> QED
            BY <1>1, <2>1, <3>1 DEF Locals
    <2>4. ASSUME NEW s \in SUBSET Items, NEW c \in SUBSET (Requests \X Items)
          PROVE  [frame EXCEPT ![r].seen = s, ![r].codes = c] \in [Requests -> Locals]
        <3>1. [frame EXCEPT ![r].seen = s] \in [Requests -> Locals]
            <4>1. [frame[r] EXCEPT !.seen = s] \in Locals
                BY <1>1 DEF Locals
            <4> QED
                BY <4>1 DEF TypeOK
        <3>2. \A f \in [Requests -> Locals] : [f EXCEPT ![r].codes = c] \in [Requests -> Locals]
            BY DEF Locals
        <3> QED
            BY <3>1, <3>2
    <2>5. frame' \in [Requests -> Locals]
        BY <1>2, <2>2, <2>3, <2>4 DEF MatchCode
    <2> QED
        BY <1>2, <2>5 DEF MatchCode, TypeOK, tables, locks
<1>3. CASE EndOfRecords(r)
    <2>1. pc' \in [Requests -> Pc]
        BY <1>3 DEF EndOfRecords, Goto, TypeOK, Pc
    <2> QED
        BY <1>3, <2>1 DEF EndOfRecords, TypeOK, tables, locks
<1>4. CASE MatchPackages(r)
    <2>1. pc' \in [Requests -> Pc]
        BY <1>4 DEF MatchPackages, Goto, TypeOK, Pc
    <2>2. {w \in WaitingPackages : AllCodesMatched(r, w)} \subseteq (Requests \X Packages)
        BY DEF WaitingPackages, TypeOK
    <2>3. [frame[r] EXCEPT !.pkgs = {w \in WaitingPackages : AllCodesMatched(r, w)}] \in Locals
        BY <1>1, <2>2 DEF Locals
    <2> QED
        BY <1>4, <2>1, <2>3 DEF MatchPackages, TypeOK, tables, locks
<1>5. CASE MatchBatches(r)
    <2> DEFINE recognised == {b \in DOMAIN batch : /\ batch[b].status = "WaitingExternal"
                                                   /\ SomePackageMatched(r, b)}
    <2>1. pc' \in [Requests -> Pc]
        BY <1>5 DEF MatchBatches, Goto, TypeOK, Pc
    <2>2. recognised \subseteq Requests
        BY DEF TypeOK
    <2>3. [frame[r] EXCEPT !.batches = recognised] \in Locals
        BY <1>1, <2>2 DEF Locals
    <2> QED
        BY <1>5, <2>1, <2>3 DEF MatchBatches, TypeOK, tables, locks
<1>6. CASE CommitMatch(r)
    <2>1. \A b \in DOMAIN batch : MatchedBy(r, b) \subseteq Items /\ PackagesBy(r, b) \subseteq Packages
        BY <1>1 DEF MatchedBy, PackagesBy, TypeOK, BatchRow, Locals
    <2>2. ASSUME NEW b \in DOMAIN batch, NEW m \in SUBSET Items, NEW p \in SUBSET Packages,
                 NEW s \in OpenStatus
          PROVE  [batch[b] EXCEPT !.matched = m, !.pkgs = p, !.status = s] \in BatchRow
        <3>1. batch[b] \in BatchRow
            BY <2>2 DEF TypeOK
        <3> QED
            BY <2>2, <3>1 DEF BatchRow
    <2>4. \A b \in DOMAIN batch :
             (IF b \in frame[r].batches THEN "Matching" ELSE batch[b].status) \in OpenStatus
        BY DEF TypeOK, BatchRow, OpenStatus
    <2>3. DOMAIN batch' \subseteq Requests /\ batch' \in [DOMAIN batch' -> BatchRow]
        BY <1>6, <2>1, <2>2, <2>4 DEF CommitMatch, TypeOK
    <2> QED
        BY <1>6, <2>3 DEF CommitMatch, TypeOK
<1>7. CASE DeadlockVictim(r)
    BY <1>7 DEF DeadlockVictim, TypeOK, tables
<1> QED
    BY <1>2, <1>3, <1>4, <1>5, <1>6, <1>7 DEF MatchStep

LEMMA TypeStep == TypeOK /\ [Next]_vars => TypeOK'
<1> SUFFICES ASSUME TypeOK, [Next]_vars PROVE TypeOK'
    OBVIOUS
<1>1. CASE UNCHANGED vars
    BY <1>1 DEF TypeOK, vars, tables, locks
<1>2. ASSUME NEW r \in Requests, Step(r) PROVE TypeOK'
    BY <1>2, ReannounceTyped, MatchTyped, AdminTyped DEF Step
<1>3. ASSUME NEW r \in Requests, Abort(r) PROVE TypeOK'
    BY <1>3, DoneTyped DEF Abort, TypeOK, tables
<1> QED
    BY <1>1, <1>2, <1>3 DEF Next

\* The tables hold well-formed rows and every request is at a statement of its
\* handler with well-formed locals, whatever the requests are and whichever of
\* them fail (all handlers of this model).
THEOREM TypeCorrect == Spec => []TypeOK
BY InitTyped, TypeStep, PTL DEF Spec

-----------------------------------------------------------------------------
(* Locking.  Relies(r) is what the other requests may assume of a step of   *)
(* r: it leaves their program counters, locals and locks alone, changes no *)
(* tender they have locked, and opens no batch of a tender whose           *)
(* application lock they hold.                                             *)

Relies(r) ==
    /\ call' = call
    /\ \A q \in Requests \ {r} : pc'[q] = pc[q] /\ frame'[q] = frame[q]
    /\ \A q \in Requests \ {r}, t \in Tenders :
          /\ appLock[t] = q => appLock'[t] = q
          /\ rowLock[t] = q => rowLock'[t] = q
    /\ \A t \in DOMAIN tender : rowLock[t] \notin {None, r} =>
          t \in DOMAIN tender' /\ tender'[t] = tender[t]
    /\ \A t \in Tenders : appLock[t] \notin {None, r} /\ OpenBatches(t) = {} =>
          OpenBatches(t)' = {}

\* What is protected stays protected when another request takes a step.
LEMMA OthersProtected ==
    ASSUME TypeOK, NEW r \in Requests, Relies(r), NEW q \in Requests \ {r}, Protected(q)
    PROVE  Protected(q)'
<1> USE StoreAssumption, CallTyped
<1>1. pc'[q] = pc[q] /\ call'[q] = call[q] /\ call[q].tender \in Tenders
    BY DEF Relies
<1>2. pc[q] \in AfterLock => (Reannouncing(q) /\ appLock[Source(q)] = q)'
    BY <1>1 DEF Relies, Protected, Reannouncing, Source
<1>3. pc[q] \in AfterRead => (rowLock[Source(q)] = q /\ Reannounceable(Source(q)))'
    BY <1>1 DEF Relies, Protected, Source, Reannounceable, Live
<1>4. pc[q] \in AfterCount => OpenBatches(Source(q))' = {}
    <2> SUFFICES ASSUME pc[q] \in AfterCount PROVE OpenBatches(Source(q))' = {}
        OBVIOUS
    <2>1. pc[q] \in AfterLock
        BY DEF AfterLock, AfterRead, AfterCount
    <2>2. appLock[Source(q)] = q /\ OpenBatches(Source(q)) = {} /\ Source(q) \in Tenders
        BY <2>1 DEF Protected, Source
    <2>3. Source(q)' = Source(q)
        BY <1>1 DEF Source
    <2> QED
        BY <2>2, <2>3 DEF Relies, OpenBatches, Source
<1>5. pc[q] = "deleteCommit" => (rowLock[call[q].tender] = q /\ Live(call[q].tender))'
    BY <1>1 DEF Relies, Protected, Live
<1> QED
    BY <1>1, <1>2, <1>3, <1>4, <1>5 DEF Protected

\* The end of a request releases only its own locks.
LEMMA DoneRelies ==
    ASSUME TypeOK, NEW r \in Requests, Done(r)
    PROVE  /\ call' = call
           /\ \A q \in Requests \ {r} : pc'[q] = pc[q] /\ frame'[q] = frame[q]
           /\ \A q \in Requests \ {r}, t \in Tenders :
                 /\ appLock[t] = q => appLock'[t] = q
                 /\ rowLock[t] = q => rowLock'[t] = q
           /\ Protected(r)'
<1>1. pc'[r] = "done"
    BY DEF Done, TypeOK
<1>2. Protected(r)'
    BY <1>1 DEF Protected, AfterLock, AfterRead, AfterCount
<1> QED
    BY <1>2 DEF Done, TypeOK

\* So does a request that ends without having changed a table.
LEMMA ReturnProtected ==
    ASSUME TypeOK, NEW r \in Requests, Done(r), UNCHANGED <<tender, batch>>
    PROVE  Relies(r) /\ Protected(r)'
<1>1. \A t \in Tenders : OpenBatches(t)' = OpenBatches(t)
    BY DEF OpenBatches
<1> QED
    BY <1>1, DoneRelies DEF Relies

\* A statement that changes no table and takes at most locks that are free.
LEMMA QuietRelies ==
    ASSUME TypeOK, NEW r \in Requests, NEW from, NEW to, Goto(r, from, to),
           UNCHANGED <<tender, batch, call>>,
           \A q \in Requests \ {r} : frame'[q] = frame[q],
           \A q \in Requests \ {r}, t \in Tenders :
              /\ appLock[t] = q => appLock'[t] = q
              /\ rowLock[t] = q => rowLock'[t] = q
    PROVE  Relies(r) /\ pc[r] = from /\ pc'[r] = to
<1>1. \A t \in Tenders : OpenBatches(t)' = OpenBatches(t)
    BY DEF OpenBatches
<1>2. pc[r] = from /\ pc'[r] = to /\ \A q \in Requests \ {r} : pc'[q] = pc[q]
    BY DEF Goto, TypeOK
<1> QED
    BY <1>1, <1>2 DEF Relies

LEMMA ReannounceProtected ==
    ASSUME TypeOK, NEW r \in Requests, Protected(r), ReannounceStep(r)
    PROVE  Relies(r) /\ Protected(r)'
<1> DEFINE t == Source(r)
<1>0. t \in Tenders /\ Reannouncing(r)
    BY CallTyped DEF Source, ReannounceStep
<1>1. CASE TakeAppLock(r)
    <2>1. appLock[t] = None /\ Goto(r, "lock", "read") /\ appLock' = [appLock EXCEPT ![t] = r]
          /\ UNCHANGED <<tables, call, frame, rowLock>>
        BY <1>1 DEF TakeAppLock
    <2>2. Relies(r) /\ pc'[r] = "read"
        BY <2>1, <1>0, QuietRelies, StoreAssumption DEF TypeOK, tables
    <2> QED
        BY <2>1, <2>2, <1>0 DEF Protected, AfterLock, AfterRead, AfterCount, Reannouncing, Source, TypeOK
<1>2. CASE LockTimeout(r)
    BY <1>2, ReturnProtected DEF LockTimeout, Return, tables
<1>3. CASE ReadTender(r)
    <2>1. CASE Return(r)
        BY <1>3, <2>1, ReturnProtected DEF ReadTender, Return, tables
    <2>2. CASE ~Return(r)
        <3>1. /\ Free(t, r) /\ Reannounceable(t) /\ Goto(r, "read", "count")
              /\ rowLock' = [rowLock EXCEPT ![t] = r]
              /\ UNCHANGED <<call, frame, appLock, tables>>
            BY <1>3, <2>2 DEF ReadTender, HoldTender
        <3>2. Relies(r) /\ pc[r] = "read" /\ pc'[r] = "count"
            BY <3>1, <1>0, QuietRelies, StoreAssumption DEF TypeOK, tables, Free
        <3>3. Reannounceable(t)'
            BY <3>1 DEF Reannounceable, Live, tables, Source
        <3> QED
            BY <3>1, <3>2, <3>3, <1>0 DEF Protected, AfterLock, AfterRead, AfterCount, Reannouncing, Source, TypeOK
    <2> QED
        BY <2>1, <2>2
<1>4. CASE CountOpenBatches(r)
    <2>1. CASE Return(r)
        BY <1>4, <2>1, ReturnProtected DEF CountOpenBatches, Return, tables
    <2>2. CASE ~Return(r)
        <3>1. NoOpenBatch(t) /\ Goto(r, "count", "insert") /\ UNCHANGED <<call, frame, locks, tables>>
            BY <1>4, <2>2 DEF CountOpenBatches
        <3>2. Relies(r) /\ pc[r] = "count" /\ pc'[r] = "insert"
            BY <3>1, QuietRelies DEF tables, locks
        <3>3. OpenBatches(Source(r))' = {} /\ Reannounceable(Source(r))' = Reannounceable(Source(r))
            BY <3>1 DEF NoOpenBatch, OpenBatches, Source, tables, Reannounceable, Live
        <3> QED
            BY <3>1, <3>2, <3>3 DEF Protected, AfterLock, AfterRead, AfterCount, Reannouncing, Source, locks
    <2> QED
        BY <2>1, <2>2
<1>5. ASSUME NEW from \in AfterCount, NEW to \in AfterCount, Goto(r, from, to),
             UNCHANGED <<tables, call, locks>>, NEW stmt, Execute(r, stmt)
      PROVE  Relies(r) /\ Protected(r)'
    <2>1. \A q \in Requests \ {r} : frame'[q] = frame[q]
        BY <1>5 DEF Execute, TypeOK
    <2>2. Relies(r) /\ pc[r] = from /\ pc'[r] = to
        BY <1>5, <2>1, QuietRelies DEF tables, locks
    <2>3. /\ OpenBatches(Source(r))' = OpenBatches(Source(r))
          /\ Reannounceable(Source(r))' = Reannounceable(Source(r))
        BY <1>5 DEF OpenBatches, Source, tables, Reannounceable, Live
    <2> QED
        BY <1>5, <2>2, <2>3 DEF Protected, AfterLock, AfterRead, AfterCount, Reannouncing, Source, locks
<1>6. CASE InsertBatch(r)
    <2>1. CASE Return(r)
        BY <1>6, <2>1, ReturnProtected DEF InsertBatch, Return, tables
    <2>2. CASE ~Return(r)
        <3>1. Goto(r, "insert", "outbox") /\ Execute(r, "batch") /\ UNCHANGED <<tables, call, locks>>
            BY <1>6, <2>2 DEF InsertBatch
        <3> QED
            BY <3>1, <1>5 DEF AfterLock, AfterRead, AfterCount
    <2> QED
        BY <2>1, <2>2
<1>7. CASE InsertOutbox(r)
    <2> DEFINE to == IF call[r].flag THEN "archive" ELSE "commit"
    <2>1. Goto(r, "outbox", to) /\ Execute(r, "outbox") /\ UNCHANGED <<tables, call, locks>>
        BY <1>7 DEF InsertOutbox
    <2>2. "outbox" \in AfterCount /\ to \in AfterCount
        BY DEF AfterLock, AfterRead, AfterCount
    <2> QED
        BY <2>1, <2>2, <1>5
<1>8. CASE ArchiveTender(r)
    <2>1. CASE Return(r)
        BY <1>8, <2>1, ReturnProtected DEF ArchiveTender, Return, tables
    <2>2. CASE ~Return(r)
        <3>1. Goto(r, "archive", "commit") /\ Execute(r, "archive") /\ UNCHANGED <<tables, call, locks>>
            BY <1>8, <2>2 DEF ArchiveTender
        <3> QED
            BY <3>1, <1>5 DEF AfterLock, AfterRead, AfterCount
    <2> QED
        BY <2>1, <2>2
<1>9. CASE CommitReannounce(r)
    <2>1. appLock[t] = r /\ rowLock[t] = r /\ Done(r)
        BY <1>9 DEF CommitReannounce, Protected, AfterLock, AfterRead
    <2>2. \A x \in DOMAIN tender : rowLock[x] \notin {None, r} =>
             x \in DOMAIN tender' /\ tender'[x] = tender[x]
        BY <1>9, <2>1 DEF CommitReannounce
    <2>3. ASSUME NEW x \in Tenders, appLock[x] \notin {None, r}, OpenBatches(x) = {}
          PROVE  OpenBatches(x)' = {}
        <3>1. x # t
            BY <2>1, <2>3
        <3>2. \A b \in DOMAIN batch' : batch'[b].tender = x => b \in DOMAIN batch /\ batch'[b] = batch[b]
            BY <1>9, <3>1 DEF CommitReannounce, NewBatch
        <3> QED
            BY <2>3, <3>2 DEF OpenBatches
    <2> QED
        BY <2>1, <2>2, <2>3, DoneRelies DEF Relies
<1> QED
    BY <1>1, <1>2, <1>3, <1>4, <1>6, <1>7, <1>8, <1>9 DEF ReannounceStep

LEMMA MatchProtected ==
    ASSUME TypeOK, NEW r \in Requests, Protected(r), MatchStep(r)
    PROVE  Relies(r) /\ Protected(r)'
<1>1. ASSUME NEW i \in call[r].items, MatchCode(r, i)
      PROVE  Relies(r) /\ Protected(r)'
    <2>1. UNCHANGED <<tables, call, pc, locks>> /\ \A q \in Requests \ {r} : frame'[q] = frame[q]
        BY <1>1 DEF MatchCode, TypeOK
    <2>2. pc'[r] = "codes"
        BY <1>1, <2>1 DEF MatchCode
    <2>3. \A t \in Tenders : OpenBatches(t)' = OpenBatches(t)
        BY <2>1 DEF OpenBatches, tables
    <2> QED
        BY <2>1, <2>2, <2>3 DEF Relies, Protected, AfterLock, AfterRead, AfterCount, locks, tables
<1>2. ASSUME NEW to \in {"packages", "batches", "matchCommit"}, pc'[r] = to
      PROVE  Protected(r)'
    BY <1>2 DEF Protected, AfterLock, AfterRead, AfterCount
<1>3. CASE EndOfRecords(r)
    <2>1. CASE Return(r)
        BY <1>3, <2>1, ReturnProtected DEF EndOfRecords, Return, tables
    <2>2. CASE ~Return(r)
        <3>1. Goto(r, "codes", "packages") /\ UNCHANGED <<tables, call, frame, locks>>
            BY <1>3, <2>2 DEF EndOfRecords
        <3> QED
            BY <3>1, <1>2, QuietRelies DEF tables, locks
    <2> QED
        BY <2>1, <2>2
<1>4. CASE MatchPackages(r)
    <2>1. \A q \in Requests \ {r} : frame'[q] = frame[q]
        BY <1>4 DEF MatchPackages, TypeOK
    <2>2. Goto(r, "packages", "batches") /\ UNCHANGED <<tables, call, locks>>
        BY <1>4 DEF MatchPackages
    <2> QED
        BY <2>1, <2>2, <1>2, QuietRelies DEF tables, locks
<1>5. CASE MatchBatches(r)
    <2>1. \A q \in Requests \ {r} : frame'[q] = frame[q]
        BY <1>5 DEF MatchBatches, TypeOK
    <2>2. Goto(r, "batches", "matchCommit") /\ UNCHANGED <<tables, call, locks>>
        BY <1>5 DEF MatchBatches
    <2> QED
        BY <2>1, <2>2, <1>2, QuietRelies DEF tables, locks
<1>6. CASE CommitMatch(r)
    <2>1. \A b \in DOMAIN batch : batch[b] \in BatchRow
        BY DEF TypeOK
    <2>2. DOMAIN batch' = DOMAIN batch /\ \A b \in DOMAIN batch : batch'[b].tender = batch[b].tender
        BY <1>6, <2>1 DEF CommitMatch, BatchRow
    <2>3. \A t \in Tenders : OpenBatches(t) = {} => OpenBatches(t)' = {}
        BY <2>1, <2>2 DEF OpenBatches, BatchRow
    <2> QED
        BY <1>6, <2>3, DoneRelies DEF CommitMatch, Relies
<1>7. CASE DeadlockVictim(r)
    BY <1>7, ReturnProtected DEF DeadlockVictim, Return, tables
<1> QED
    BY <1>1, <1>3, <1>4, <1>5, <1>6, <1>7 DEF MatchStep

LEMMA AdminProtected ==
    ASSUME TypeOK, NEW r \in Requests, Protected(r),
           PostTenderStep(r) \/ UpdateStep(r) \/ DeleteStep(r) \/ GereeStep(r)
    PROVE  Relies(r) /\ Protected(r)'
<1> DEFINE t == call[r].tender
<1>0. t \in Tenders
    BY CallTyped
<1>a. ASSUME NEW to \in {"notifyTender", "update", "updateNotify", "deleteUpdate",
                         "insertGeree", "notifyGeree"}, pc'[r] = to
      PROVE  Protected(r)'
    BY <1>a DEF Protected, AfterLock, AfterRead, AfterCount
<1>b. ASSUME UNCHANGED batch
      PROVE  \A x \in Tenders : OpenBatches(x)' = OpenBatches(x)
    BY <1>b DEF OpenBatches
<1>1. CASE InsertTender(r)
    <2>1. Goto(r, "insertTender", "notifyTender") /\ UNCHANGED <<batch, call, frame, locks>>
        BY <1>1 DEF InsertTender
    <2>2. \A x \in DOMAIN tender : x \in DOMAIN tender' /\ tender'[x] = tender[x]
        BY <1>1 DEF InsertTender
    <2>3. pc'[r] = "notifyTender" /\ \A q \in Requests \ {r} : pc'[q] = pc[q]
        BY <2>1 DEF Goto, TypeOK
    <2> QED
        BY <2>1, <2>2, <2>3, <1>a, <1>b DEF Relies, locks
<1>2. CASE NotifyCreated(r)
    BY <1>2, ReturnProtected DEF NotifyCreated
<1>3. CASE ReadSuspended(r)
    <2>1. \A q \in Requests \ {r} : frame'[q] = frame[q]
        BY <1>3 DEF ReadSuspended, TypeOK
    <2> QED
        BY <1>3, <2>1, <1>a, QuietRelies DEF ReadSuspended, tables, locks
<1>4. CASE SetSuspended(r)
    <2>1. \A x \in DOMAIN tender : rowLock[x] \notin {None, r} =>
             x \in DOMAIN tender' /\ tender'[x] = tender[x]
        BY <1>4 DEF SetSuspended, Free
    <2>2. CASE Done(r)
        BY <1>4, <2>1, <2>2, <1>b, DoneRelies DEF SetSuspended, Relies
    <2>3. CASE ~Done(r)
        <3>1. Goto(r, "update", "updateNotify") /\ UNCHANGED <<batch, call, frame, locks>>
            BY <1>4, <2>3 DEF SetSuspended
        <3>2. pc'[r] = "updateNotify" /\ \A q \in Requests \ {r} : pc'[q] = pc[q]
            BY <3>1 DEF Goto, TypeOK
        <3> QED
            BY <2>1, <3>1, <3>2, <1>a, <1>b DEF Relies, locks
    <2> QED
        BY <2>2, <2>3
<1>5. CASE NotifySuspended(r)
    BY <1>5, ReturnProtected DEF NotifySuspended
<1>6. CASE CheckDelete(r)
    <2>1. CASE Return(r)
        BY <1>6, <2>1, ReturnProtected DEF CheckDelete, Return, tables
    <2>2. CASE ~Return(r)
        <3>1. Goto(r, "deleteRead", "deleteUpdate") /\ UNCHANGED <<tables, call, frame, locks>>
            BY <1>6, <2>2 DEF CheckDelete
        <3> QED
            BY <3>1, <1>a, QuietRelies DEF tables, locks
    <2> QED
        BY <2>1, <2>2
<1>7. CASE UpdateDeleted(r)
    <2>1. CASE Return(r)
        BY <1>7, <2>1, ReturnProtected DEF UpdateDeleted, Return, tables
    <2>2. CASE ~Return(r)
        <3>1. /\ Live(t) /\ Free(t, r) /\ Goto(r, "deleteUpdate", "deleteCommit")
              /\ rowLock' = [rowLock EXCEPT ![t] = r]
              /\ UNCHANGED <<tables, call, appLock>>
              /\ \A q \in Requests \ {r} : frame'[q] = frame[q]
            BY <1>7, <2>2 DEF UpdateDeleted, TypeOK
        <3>2. Relies(r) /\ pc'[r] = "deleteCommit"
            BY <3>1, <1>0, QuietRelies, StoreAssumption DEF TypeOK, tables, Free
        <3> QED
            BY <3>1, <3>2, <1>0 DEF Protected, AfterLock, AfterRead, AfterCount, TypeOK, Live, tables
    <2> QED
        BY <2>1, <2>2
<1>8. CASE CommitDelete(r)
    <2>1. rowLock[t] = r
        BY <1>8 DEF CommitDelete, Protected
    <2>2. \A x \in DOMAIN tender : rowLock[x] \notin {None, r} =>
             x \in DOMAIN tender' /\ tender'[x] = tender[x]
        BY <1>8, <2>1 DEF CommitDelete
    <2> QED
        BY <1>8, <2>2, <1>b, DoneRelies DEF CommitDelete, Relies
<1>9. CASE CheckTenderOpen(r)
    <2>1. CASE Return(r)
        BY <1>9, <2>1, ReturnProtected DEF CheckTenderOpen, Return, tables
    <2>2. CASE ~Return(r)
        <3>1. Goto(r, "check", "insertGeree") /\ UNCHANGED <<tables, call, frame, locks>>
            BY <1>9, <2>2 DEF CheckTenderOpen
        <3> QED
            BY <3>1, <1>a, QuietRelies DEF tables, locks
    <2> QED
        BY <2>1, <2>2
<1>10. CASE InsertGeree(r)
    BY <1>10, <1>a, QuietRelies DEF InsertGeree, locks
<1>11. CASE NotifyAssigned(r)
    BY <1>11, ReturnProtected DEF NotifyAssigned
<1> QED
    BY <1>1, <1>2, <1>3, <1>4, <1>5, <1>6, <1>7, <1>8, <1>9, <1>10, <1>11
    DEF PostTenderStep, UpdateStep, DeleteStep, GereeStep

\* Every step of a request respects the others and its own checks.
LEMMA StepRelies ==
    ASSUME TypeOK, ReadStaysTrue, NEW r \in Requests, Step(r) \/ Abort(r)
    PROVE  Relies(r) /\ Protected(r)'
<1>1. Protected(r)
    BY DEF ReadStaysTrue
<1>2. CASE Step(r)
    BY <1>1, <1>2, ReannounceProtected, MatchProtected, AdminProtected DEF Step
<1>3. CASE Abort(r)
    BY <1>3, ReturnProtected DEF Abort, tables
<1> QED
    BY <1>2, <1>3

LEMMA StepProtected ==
    ASSUME TypeOK, ReadStaysTrue, [Next]_vars
    PROVE  ReadStaysTrue'
<1>1. CASE UNCHANGED vars
    BY <1>1 DEF ReadStaysTrue, Protected, Reannouncing, Source, Reannounceable, Live, OpenBatches,
                vars, tables, locks
<1>2. ASSUME NEW r \in Requests, Step(r) \/ Abort(r)
      PROVE  ReadStaysTrue'
    <2>1. Relies(r) /\ Protected(r)'
        BY <1>2, StepRelies
    <2>2. \A q \in Requests \ {r} : Protected(q)'
        BY <2>1, OthersProtected DEF ReadStaysTrue
    <2> QED
        BY <2>1, <2>2 DEF ReadStaysTrue
<1> QED
    BY <1>1, <1>2 DEF Next

LEMMA InitProtected == Init => ReadStaysTrue
<1> SUFFICES ASSUME Init, NEW r \in Requests PROVE Protected(r)
    BY DEF ReadStaysTrue
<1>1. pc[r] \in {"insertTender", "updateRead", "deleteRead", "check", "lock", "codes"}
    <2>1. call[r].kind \in Kinds
        BY StoreAssumption DEF Init, Call
    <2> QED
        BY <2>1 DEF Init, FirstStep, Kinds
<1> QED
    BY <1>1 DEF Protected, AfterLock, AfterRead, AfterCount

\* What a transaction has checked of the rows it locks stays true until it ends, for
\* every interleaving with every other request: the tender's row and its open batches
\* (ReannounceTender.go:129-173), the row of a deletion (DeleteTender.go:90-111).
THEOREM LocksProtect == Spec => []ReadStaysTrue
<1>1. TypeOK /\ TypeOK' /\ ReadStaysTrue /\ [Next]_vars => ReadStaysTrue'
    BY StepProtected
<1> QED
    BY <1>1, TypeCorrect, InitProtected, PTL DEF Spec

-----------------------------------------------------------------------------
(* Recording.  Only three kinds of step touch what the versions of a tender *)
(* consist of: the commit of a reannouncement, the commit of a matcher and  *)
(* the handlers of TenderAdmin, which leave batches alone.                  *)

\* The batches are the same but for their marks and statuses.
SameBatches ==
    /\ DOMAIN batch' = DOMAIN batch
    /\ \A b \in DOMAIN batch : batch'[b].tender = batch[b].tender /\ batch'[b].items = batch[b].items

\* No tender starts to wait, and one that waits stays out of the current ones.
NoneArchived ==
    \A t \in DOMAIN tender' : tender'[t].lifecycle = "WaitingExternal" =>
        /\ t \in DOMAIN tender
        /\ tender[t].lifecycle = "WaitingExternal" /\ tender'[t].isCurrent = tender[t].isCurrent

Neutral == SameBatches /\ NoneArchived /\ UNCHANGED <<outbox, versionItems>>

LEMMA OnlyCommitRecords ==
    ASSUME TypeOK, NEW r \in Requests, Step(r) \/ Abort(r), ~CommitReannounce(r)
    PROVE  Neutral
<1>1. ASSUME UNCHANGED <<tender, batch, versionItems, outbox>> PROVE Neutral
    BY <1>1 DEF Neutral, SameBatches, NoneArchived
<1>2. CASE ReannounceStep(r)
    BY <1>1, <1>2 DEF ReannounceStep, TakeAppLock, LockTimeout, ReadTender, CountOpenBatches,
          InsertBatch, InsertOutbox, ArchiveTender, tables
<1>3. CASE MatchStep(r)
    <2>1. CASE CommitMatch(r)
        <3>1. SameBatches
            BY <2>1 DEF CommitMatch, SameBatches, TypeOK, BatchRow
        <3> QED
            BY <2>1, <3>1 DEF CommitMatch, Neutral, NoneArchived
    <2>2. CASE ~CommitMatch(r)
        BY <1>1, <1>3, <2>2 DEF MatchStep, MatchCode, EndOfRecords, MatchPackages, MatchBatches,
              DeadlockVictim, tables
    <2> QED
        BY <2>1, <2>2
<1>4. CASE PostTenderStep(r) \/ UpdateStep(r) \/ DeleteStep(r) \/ GereeStep(r)
    <2>1. ASSUME NoneArchived, UNCHANGED <<batch, versionItems, outbox>> PROVE Neutral
        BY <2>1 DEF Neutral, SameBatches
    <2>2. CASE InsertTender(r)
        <3>1. NoneArchived
            <4>1. PICK t \in Tenders \ DOMAIN tender :
                     tender' = [x \in DOMAIN tender \cup {t} |-> IF x = t THEN NewTender(r) ELSE tender[x]]
                BY <2>2 DEF InsertTender
            <4>2. NewTender(r).lifecycle = "Active"
                BY DEF NewTender
            <4>3. ASSUME NEW x \in DOMAIN tender'
                  PROVE  \/ tender'[x] = NewTender(r)
                         \/ x \in DOMAIN tender /\ tender'[x] = tender[x]
                BY <4>1
            <4> QED
                BY <4>2, <4>3 DEF NoneArchived
        <3> QED
            BY <2>1, <2>2, <3>1 DEF InsertTender
    <2>3. CASE SetSuspended(r)
        <3>1. NoneArchived
            <4>1. ASSUME NEW x \in DOMAIN tender'
                  PROVE  /\ x \in DOMAIN tender /\ tender[x] \in TenderRow
                         /\ tender'[x] = tender[x] \/ tender'[x] = [tender[x] EXCEPT !.suspended = call[r].flag]
                BY <2>3 DEF SetSuspended, TypeOK
            <4> QED
                BY <4>1 DEF NoneArchived, TenderRow
        <3> QED
            BY <2>1, <2>3, <3>1 DEF SetSuspended
    <2>4. CASE CommitDelete(r)
        <3>1. NoneArchived
            <4>1. ASSUME NEW x \in DOMAIN tender'
                  PROVE  /\ x \in DOMAIN tender /\ tender[x] \in TenderRow
                         /\ tender'[x] = tender[x] \/ tender'[x] = [tender[x] EXCEPT !.isDeleted = TRUE]
                BY <2>4 DEF CommitDelete, TypeOK
            <4> QED
                BY <4>1 DEF NoneArchived, TenderRow
        <3> QED
            BY <2>1, <2>4, <3>1 DEF CommitDelete
    <2>5. CASE ~InsertTender(r) /\ ~SetSuspended(r) /\ ~CommitDelete(r)
        BY <1>1, <1>4, <2>5 DEF PostTenderStep, NotifyCreated, UpdateStep, ReadSuspended,
              NotifySuspended, DeleteStep, CheckDelete, UpdateDeleted, GereeStep,
              CheckTenderOpen, InsertGeree, NotifyAssigned, tables
    <2> QED
        BY <2>2, <2>3, <2>4, <2>5
<1>5. CASE Abort(r)
    BY <1>1, <1>5 DEF Abort, tables
<1> QED
    BY <1>2, <1>3, <1>4, <1>5 DEF Step

\* A batch is only recorded for a tender that is live, current, active, not
\* suspended and without an open batch at the commit (ReannounceTender.go:121-173).
THEOREM RecordedFresh == Spec => ReannouncedFresh
<1> DEFINE Fresh == \A b \in DOMAIN batch' \ DOMAIN batch :
              Reannounceable(batch'[b].tender) /\ OpenBatches(batch'[b].tender) = {}
<1>1. ASSUME TypeOK, ReadStaysTrue, [Next]_vars
      PROVE  [Fresh]_vars
    <2>1. ASSUME NEW r \in Requests, CommitReannounce(r) PROVE Fresh
        <3>1. pc[r] = "commit" /\ Protected(r)
            BY <1>1, <2>1 DEF CommitReannounce, ReadStaysTrue
        <3>2. Reannounceable(Source(r)) /\ OpenBatches(Source(r)) = {}
            BY <3>1 DEF Protected, AfterLock, AfterRead, AfterCount
        <3>3. \A b \in DOMAIN batch' \ DOMAIN batch : batch'[b].tender = Source(r)
            BY <2>1 DEF CommitReannounce, NewBatch
        <3> QED
            BY <3>2, <3>3
    <2>2. ASSUME NEW r \in Requests, Step(r) \/ Abort(r), ~CommitReannounce(r)
          PROVE  Fresh
        BY <1>1, <2>2, OnlyCommitRecords DEF Neutral, SameBatches
    <2> QED
        BY <1>1, <2>1, <2>2 DEF Next
<1> QED
    BY <1>1, TypeCorrect, LocksProtect, PTL DEF Spec, ReannouncedFresh

-----------------------------------------------------------------------------
(* What a reannouncement has written at each of its statements, and that    *)
(* its batch does not exist before its commit.  Together with the locks     *)
(* this is inductive and gives the three invariants of the tables.          *)

Recording(r) ==
    /\ pc[r] \in {"lock", "read", "count", "insert"} => frame[r].wrote = {}
    /\ pc[r] = "outbox" => frame[r].wrote = {"batch"}
    /\ pc[r] = "archive" => frame[r].wrote = {"batch", "outbox"}
    /\ pc[r] = "commit" => {"batch", "outbox"} \subseteq frame[r].wrote
    /\ pc[r] # "done" => r \notin DOMAIN batch

Sound == OneOpenBatch /\ WaitingHasBatch /\ AllOrNothing

IInv == TypeOK /\ ReadStaysTrue /\ (\A r \in Requests : Recording(r)) /\ Sound

LEMMA InitSound == Init => IInv
<1> SUFFICES ASSUME Init PROVE IInv
    OBVIOUS
<1>1. DOMAIN batch = {}
    BY DEF Init
<1>2. \A r \in Requests : Recording(r)
    <2> TAKE r \in Requests
    <2>1. pc[r] \in {"insertTender", "updateRead", "deleteRead", "check", "lock", "codes"}
        <3>1. call[r].kind \in Kinds
            BY StoreAssumption DEF Init, Call
        <3> QED
            BY <3>1 DEF Init, FirstStep, Kinds
    <2>2. frame[r].wrote = {}
        BY DEF Init, NoFrame
    <2> QED
        BY <1>1, <2>1, <2>2 DEF Recording
<1>3. OneOpenBatch
    BY <1>1 DEF OneOpenBatch, OpenBatches
<1>4. WaitingHasBatch
    <2>1. PICK l \in Legacy : tender = [t \in DOMAIN l |-> Migrated(l, t)]
        BY DEF Init
    <2>2. \A t \in DOMAIN l : Migrated(l, t).lifecycle # "WaitingExternal"
        BY DEF Migrated
    <2> QED
        BY <2>1, <2>2 DEF WaitingHasBatch
<1>5. AllOrNothing
    BY <1>1 DEF AllOrNothing, Init
<1> QED
    BY <1>2, <1>3, <1>4, <1>5, InitTyped, InitProtected DEF IInv, Sound

\* The commit of a reannouncement adds its batch, results and payload.
LEMMA CommitEffect ==
    ASSUME IInv, NEW r \in Requests, CommitReannounce(r)
    PROVE  /\ r \notin DOMAIN batch /\ OpenBatches(Source(r)) = {} /\ Source(r) \in Tenders
           /\ batch' = [b \in DOMAIN batch \cup {r} |-> IF b = r THEN NewBatch(r) ELSE batch[b]]
           /\ versionItems' = versionItems \cup ({Source(r)} \X call[r].items)
           /\ outbox' = outbox \cup {r}
           /\ pc'[r] = "done"
           /\ \/ tender' = tender
              \/ tender' = [tender EXCEPT ![Source(r)] = ArchivedRow(@)]
<1>1. pc[r] = "commit" /\ Protected(r) /\ Recording(r) /\ TypeOK
    BY DEF CommitReannounce, IInv, ReadStaysTrue
<1>2. r \notin DOMAIN batch /\ "batch" \in frame[r].wrote /\ "outbox" \in frame[r].wrote
    BY <1>1 DEF Recording
<1>3. OpenBatches(Source(r)) = {}
    BY <1>1 DEF Protected, AfterLock, AfterRead, AfterCount
<1>4. Source(r) \in Tenders
    BY <1>1, CallTyped DEF Source
<1> QED
    BY <1>1, <1>2, <1>3, <1>4 DEF CommitReannounce, Done, TypeOK

LEMMA CommitSound ==
    ASSUME IInv, NEW r \in Requests, CommitReannounce(r)
    PROVE  Sound'
<1> DEFINE t == Source(r)
<1>0. TypeOK /\ OneOpenBatch /\ WaitingHasBatch /\ AllOrNothing
    BY DEF IInv, Sound
<1> USE CommitEffect
<1>1. /\ DOMAIN batch' = DOMAIN batch \cup {r} /\ batch'[r] = NewBatch(r)
      /\ \A b \in DOMAIN batch : b # r /\ batch'[b] = batch[b]
    OBVIOUS
<1>2. NewBatch(r).tender = t /\ NewBatch(r).status \in OpenStatus /\ NewBatch(r).items = call[r].items
    BY DEF NewBatch, OpenStatus
<1>3. OneOpenBatch'
    <2> SUFFICES ASSUME NEW x \in Tenders, NEW a \in OpenBatches(x)', NEW b \in OpenBatches(x)'
                 PROVE  a = b
        BY DEF OneOpenBatch
    <2>1. CASE x = t
        <3>1. \A c \in OpenBatches(x)' : c = r
            BY <1>1, <2>1 DEF OpenBatches
        <3> QED
            BY <3>1
    <2>2. CASE x # t
        <3>1. a \in OpenBatches(x) /\ b \in OpenBatches(x)
            BY <1>1, <1>2, <2>2 DEF OpenBatches
        <3> QED
            BY <3>1, <1>0 DEF OneOpenBatch
    <2> QED
        BY <2>1, <2>2
<1>4. WaitingHasBatch'
    <2> SUFFICES ASSUME NEW x \in DOMAIN tender', tender'[x].lifecycle = "WaitingExternal"
                 PROVE  ~tender'[x].isCurrent /\ OpenBatches(x)' \cap outbox' # {}
        BY DEF WaitingHasBatch
    <2>1. DOMAIN tender' = DOMAIN tender
        OBVIOUS
    <2>2. CASE tender'[x] = tender[x] /\ tender[x].lifecycle = "WaitingExternal"
        <3>1. ~tender[x].isCurrent /\ OpenBatches(x) \cap outbox # {}
            BY <1>0, <2>1, <2>2 DEF WaitingHasBatch
        <3>2. OpenBatches(x) \subseteq OpenBatches(x)'
            BY <1>1 DEF OpenBatches
        <3> QED
            BY <2>2, <3>1, <3>2
    <2>3. CASE x = t /\ tender'[x] = ArchivedRow(tender[x])
        <3>1. ~tender'[x].isCurrent
            BY <1>0, <2>1, <2>3 DEF ArchivedRow, TypeOK, TenderRow
        <3>2. r \in OpenBatches(x)' /\ r \in outbox'
            BY <1>1, <1>2, <2>3 DEF OpenBatches
        <3> QED
            BY <3>1, <3>2
    <2>4. \/ tender'[x] = tender[x]
          \/ x = t /\ tender'[x] = ArchivedRow(tender[x])
        BY <2>1
    <2> QED
        BY <2>2, <2>3, <2>4
<1>5. AllOrNothing'
    <2> DEFINE Results(b) == {batch[b].tender} \X batch[b].items
    <2>1. outbox' = DOMAIN batch'
        BY <1>0, <1>1 DEF AllOrNothing
    <2>2. Results(r)' = {t} \X call[r].items
        BY <1>1, <1>2
    <2>3. \A b \in DOMAIN batch : Results(b)' = Results(b)
        BY <1>1
    <2>4. versionItems = UNION {Results(b) : b \in DOMAIN batch}
        BY <1>0 DEF AllOrNothing
    <2>5. versionItems' = UNION {Results(b)' : b \in DOMAIN batch'}
        <3> HIDE DEF Results
        <3> QED
            BY <1>1, <2>2, <2>3, <2>4
    <2> QED
        BY <2>1, <2>5 DEF AllOrNothing
<1> QED
    BY <1>3, <1>4, <1>5 DEF Sound

\* Every other step leaves them intact.
LEMMA NeutralSound ==
    ASSUME IInv, TypeOK', Neutral
    PROVE  Sound'
<1>0. TypeOK /\ OneOpenBatch /\ WaitingHasBatch /\ AllOrNothing
    BY DEF IInv, Sound
<1>1. \A x \in Tenders : OpenBatches(x)' = OpenBatches(x)
    <2>1. \A b \in DOMAIN batch : batch[b].status \in OpenStatus /\ batch'[b].status \in OpenStatus
        BY <1>0 DEF TypeOK, BatchRow, Neutral, SameBatches
    <2> QED
        BY <2>1 DEF OpenBatches, Neutral, SameBatches
<1>2. OneOpenBatch'
    BY <1>0, <1>1 DEF OneOpenBatch
<1>3. WaitingHasBatch'
    <2> SUFFICES ASSUME NEW x \in DOMAIN tender', tender'[x].lifecycle = "WaitingExternal"
                 PROVE  ~tender'[x].isCurrent /\ OpenBatches(x)' \cap outbox' # {}
        BY DEF WaitingHasBatch
    <2>1. x \in DOMAIN tender /\ tender[x].lifecycle = "WaitingExternal" /\ tender'[x].isCurrent = tender[x].isCurrent
        BY DEF Neutral, NoneArchived
    <2>2. OpenBatches(x)' = OpenBatches(x)
        BY <1>0, <1>1, <2>1 DEF TypeOK
    <2> QED
        BY <1>0, <2>1, <2>2 DEF WaitingHasBatch, Neutral
<1>4. AllOrNothing'
    <2>1. outbox' = DOMAIN batch'
        BY <1>0 DEF AllOrNothing, Neutral, SameBatches
    <2>2. {({batch'[b].tender} \X batch'[b].items) : b \in DOMAIN batch'}
             = {({batch[b].tender} \X batch[b].items) : b \in DOMAIN batch}
        BY DEF Neutral, SameBatches
    <2> QED
        BY <1>0, <2>1, <2>2 DEF AllOrNothing, Neutral
<1> QED
    BY <1>2, <1>3, <1>4 DEF Sound

\* What r has written, when r itself takes a step.
LEMMA SelfRecording ==
    ASSUME TypeOK, NEW r \in Requests, Recording(r), Step(r) \/ Abort(r)
    PROVE  Recording(r)'
<1>1. ASSUME pc'[r] = "done" PROVE Recording(r)'
    BY <1>1 DEF Recording
<1>2. ASSUME Done(r) PROVE Recording(r)'
    BY <1>1, <1>2 DEF Done, TypeOK
<1>3. ASSUME NEW from \in Pc \ {"done"}, NEW to, Goto(r, from, to), UNCHANGED batch
      PROVE  pc[r] = from /\ pc'[r] = to /\ r \notin DOMAIN batch'
    BY <1>3 DEF Goto, TypeOK, Recording
<1>4. ASSUME NEW from \in Pc \ {"done"}, Goto(r, from, pc'[r]), UNCHANGED batch,
             pc'[r] \notin {"lock", "read", "count", "insert", "outbox", "archive", "commit"}
      PROVE  Recording(r)'
    BY <1>3, <1>4 DEF Recording
<1>5. CASE ReannounceStep(r)
    <2>1. CASE TakeAppLock(r)
        BY <1>3, <2>1 DEF TakeAppLock, Recording, Pc, tables
    <2>2. CASE LockTimeout(r)
        BY <1>2, <2>2 DEF LockTimeout, Return
    <2>3. CASE ReadTender(r)
        BY <1>2, <1>3, <2>3 DEF ReadTender, Return, Recording, Pc, tables
    <2>4. CASE CountOpenBatches(r)
        BY <1>2, <1>3, <2>4 DEF CountOpenBatches, Return, Recording, Pc, tables
    <2>5. ASSUME NEW stmt, Execute(r, stmt)
          PROVE  frame'[r].wrote = frame[r].wrote \cup {stmt}
        BY <2>5 DEF Execute, TypeOK, Locals
    <2>6. CASE InsertBatch(r)
        BY <1>2, <1>3, <2>5, <2>6 DEF InsertBatch, Return, Recording, Pc, tables
    <2>7. CASE InsertOutbox(r)
        BY <1>3, <2>5, <2>7 DEF InsertOutbox, Recording, Pc, tables
    <2>8. CASE ArchiveTender(r)
        BY <1>2, <1>3, <2>5, <2>8 DEF ArchiveTender, Return, Recording, Pc, tables
    <2>9. CASE CommitReannounce(r)
        BY <1>2, <2>9 DEF CommitReannounce
    <2> QED
        BY <1>5, <2>1, <2>2, <2>3, <2>4, <2>6, <2>7, <2>8, <2>9 DEF ReannounceStep
<1>6. CASE MatchStep(r)
    <2>1. ASSUME NEW i \in call[r].items, MatchCode(r, i) PROVE Recording(r)'
        BY <2>1 DEF MatchCode, Recording, TypeOK, tables
    <2>2. CASE EndOfRecords(r)
        BY <1>2, <1>3, <1>4, <2>2 DEF EndOfRecords, Return, Goto, TypeOK, Pc, tables
    <2>3. CASE MatchPackages(r)
        BY <1>3, <2>3 DEF MatchPackages, Recording, Pc, tables
    <2>4. CASE MatchBatches(r)
        BY <1>3, <2>4 DEF MatchBatches, Recording, Pc, tables
    <2>5. CASE CommitMatch(r)
        BY <1>2, <2>5 DEF CommitMatch
    <2>6. CASE DeadlockVictim(r)
        BY <1>2, <2>6 DEF DeadlockVictim, Return
    <2> QED
        BY <1>6, <2>1, <2>2, <2>3, <2>4, <2>5, <2>6 DEF MatchStep
<1>7. CASE PostTenderStep(r)
    BY <1>2, <1>3, <1>7 DEF PostTenderStep, InsertTender, NotifyCreated, Recording, Pc
<1>8. CASE UpdateStep(r)
    BY <1>2, <1>3, <1>8 DEF UpdateStep, ReadSuspended, SetSuspended, NotifySuspended, Recording, Pc, tables
<1>9. CASE DeleteStep(r)
    BY <1>2, <1>3, <1>9 DEF DeleteStep, CheckDelete, UpdateDeleted, CommitDelete, Return, Recording, Pc, tables
<1>10. CASE GereeStep(r)
    BY <1>2, <1>3, <1>10 DEF GereeStep, CheckTenderOpen, InsertGeree, NotifyAssigned, Return, Recording, Pc, tables
<1>11. CASE Abort(r)
    BY <1>2, <1>11 DEF Abort
<1> QED
    BY <1>5, <1>6, <1>7, <1>8, <1>9, <1>10, <1>11 DEF Step

\* The induction step.
LEMMA StepSound ==
    ASSUME IInv, [Next]_vars
    PROVE  IInv'
<1>0. TypeOK /\ ReadStaysTrue /\ Sound /\ TypeOK' /\ ReadStaysTrue'
    BY TypeStep, StepProtected DEF IInv
<1>1. CASE UNCHANGED vars
    <2>1. Sound'
        BY <1>0, <1>1 DEF Sound, OneOpenBatch, WaitingHasBatch, AllOrNothing, OpenBatches, vars, tables
    <2>2. \A r \in Requests : Recording(r)'
        BY <1>1 DEF IInv, Recording, vars, tables
    <2> QED
        BY <1>0, <2>1, <2>2 DEF IInv
<1>2. ASSUME NEW r \in Requests, Step(r) \/ Abort(r)
      PROVE  Sound' /\ \A q \in Requests : Recording(q)'
    <2>1. Recording(r)'
        BY <1>0, <1>2, SelfRecording DEF IInv
    <2>2. ASSUME NEW q \in Requests \ {r} PROVE Recording(q)'
        <3>1. pc'[q] = pc[q] /\ frame'[q] = frame[q]
            BY <1>0, <1>2, StepRelies DEF Relies
        <3>2. q \in DOMAIN batch' <=> q \in DOMAIN batch
            <4>1. CASE CommitReannounce(r)
                <5>1. DOMAIN batch' = DOMAIN batch \cup {r}
                    BY <4>1, CommitEffect
                <5> QED
                    BY <5>1
            <4>2. CASE ~CommitReannounce(r)
                BY <1>0, <1>2, <4>2, OnlyCommitRecords DEF Neutral, SameBatches
            <4> QED
                BY <4>1, <4>2
        <3> QED
            BY <3>1, <3>2 DEF IInv, Recording
    <2>3. Sound'
        <3>1. CASE CommitReannounce(r)
            BY <3>1, CommitSound
        <3>2. CASE ~CommitReannounce(r)
            BY <1>0, <1>2, <3>2, OnlyCommitRecords, NeutralSound
        <3> QED
            BY <3>1, <3>2
    <2> QED
        BY <2>1, <2>2, <2>3
<1> QED
    BY <1>0, <1>1, <1>2 DEF IInv, Next

\* The tables are sound: see the three parts below.
THEOREM Inductive == Spec => []IInv
BY InitSound, StepSound, PTL DEF Spec

\* Two batches of one tender never wait at the same time, for any number of
\* concurrent reannouncements and matchers (ReannounceTender.go:158-186).
THEOREM AtMostOneOpen == Spec => []OneOpenBatch
<1>1. IInv => OneOpenBatch
    BY DEF IInv, Sound
<1> QED
    BY <1>1, Inductive, PTL

\* A tender in WaitingExternal is not current and has a batch that is open and
\* queued in the outbox (ReannounceTender.go:242-265).
THEOREM WaitingIsQueued == Spec => []WaitingHasBatch
<1>1. IInv => WaitingHasBatch
    BY DEF IInv, Sound
<1> QED
    BY <1>1, Inductive, PTL

\* Batch, results and payload of a reannouncement are recorded together, whichever
\* of its statements fails (the transaction of ReannounceTender.go:105-265).
THEOREM RecordedTogether == Spec => []AllOrNothing
<1>1. IInv => AllOrNothing
    BY DEF IInv, Sound
<1> QED
    BY <1>1, Inductive, PTL

-----------------------------------------------------------------------------
(* The tables behave as TenderVersions promises.  The hard part is the     *)
(* matcher: several answers of the external system are searched at once,   *)
(* each transaction sees its own marks and the committed ones, and still   *)
(* the statuses follow from all marks together.                            *)

\* A matcher that has counted the marks of the packages.
Counted(r) == pc[r] \in {"batches", "matchCommit"}

Holds(r, b, i) == <<b, i>> \in frame[r].codes

Complete(r, b) == {p \in PackagesOf(b) : CodesOf(b, p) \subseteq MatchedBy(r, b)}

\* The marks and packages of an open transaction are those of rows that are there, and
\* a code is marked by one transaction only.
MarksFit(r) ==
    /\ \A c \in frame[r].codes : /\ c[1] \in DOMAIN batch
                                 /\ c[2] \in batch[c[1]].items \ batch[c[1]].matched
    /\ \A w \in frame[r].pkgs : w[1] \in DOMAIN batch
    /\ frame[r].batches \subseteq DOMAIN batch

MarkedOnce == \A r, m \in Requests : r # m => frame[r].codes \cap frame[m].codes = {}

\* A code that neither the table nor a matcher that has counted knows to be marked.
Unknown(b, i) == /\ i \notin batch[b].matched
                 /\ \A m \in Requests : Counted(m) => ~Holds(m, b, i)

\* A matcher that has counted has the packages that are complete with its marks.  Where
\* it holds a code of a package that is not, another code of it is still unknown: whoever
\* marks that one waits for this transaction, or counts later.
CountsRight(r) ==
    Counted(r) => \A b \in DOMAIN batch :
        /\ PackagesBy(r, b) = Complete(r, b)
        /\ \A p \in PackagesOf(b) :
              \/ CodesOf(b, p) \subseteq MatchedBy(r, b)
              \/ \A i \in CodesOf(b, p) : ~Holds(r, b, i)
              \/ \E i \in CodesOf(b, p) : Unknown(b, i)

\* At its commit a matcher makes a batch Matching exactly if it knows a complete package.
StatusRight(r) ==
    pc[r] = "matchCommit" => \A b \in DOMAIN batch :
        (b \in frame[r].batches \/ batch[b].status = "Matching") <=> PackagesBy(r, b) # {}

MInv ==
    /\ \A r \in Requests : MarksFit(r) /\ CountsRight(r) /\ StatusRight(r)
    /\ MarkedOnce
    /\ StatusFollowsCodes

-----------------------------------------------------------------------------
\* What a request sees, by its members, before and after a step.
LEMMA SeenBy ==
    ASSUME TypeOK, NEW r \in Requests
    PROVE  /\ \A b, i : i \in MatchedBy(r, b) <=> i \in batch[b].matched \/ Holds(r, b, i)
           /\ \A b, p : p \in PackagesBy(r, b) <=> p \in batch[b].pkgs \/ <<b, p>> \in frame[r].pkgs
<1>1. frame[r].codes \subseteq Requests \X Items /\ frame[r].pkgs \subseteq Requests \X Packages
    BY DEF TypeOK, Locals
<1>2. \A c \in frame[r].codes : c = <<c[1], c[2]>>
    BY <1>1
<1>3. \A w \in frame[r].pkgs : w = <<w[1], w[2]>>
    BY <1>1
<1>4. \A b, i : i \in MatchedBy(r, b) <=> i \in batch[b].matched \/ Holds(r, b, i)
    BY <1>2 DEF MatchedBy, Holds
<1>5. \A b, p : p \in PackagesBy(r, b) <=> p \in batch[b].pkgs \/ <<b, p>> \in frame[r].pkgs
    BY <1>3 DEF PackagesBy
<1> QED
    BY <1>4, <1>5

LEMMA SeenAfter ==
    ASSUME TypeOK', NEW r \in Requests
    PROVE  /\ \A b, i : i \in MatchedBy(r, b)' <=> i \in batch'[b].matched \/ Holds(r, b, i)'
           /\ \A b, p : p \in PackagesBy(r, b)' <=> p \in batch'[b].pkgs \/ <<b, p>> \in frame'[r].pkgs
<1>1. frame'[r].codes \subseteq Requests \X Items /\ frame'[r].pkgs \subseteq Requests \X Packages
    BY DEF TypeOK, Locals
<1>2. \A c \in frame'[r].codes : c = <<c[1], c[2]>>
    BY <1>1
<1>3. \A w \in frame'[r].pkgs : w = <<w[1], w[2]>>
    BY <1>1
<1>4. \A b, i : i \in MatchedBy(r, b)' <=> i \in batch'[b].matched \/ Holds(r, b, i)'
    BY <1>2 DEF MatchedBy, Holds
<1>5. \A b, p : p \in PackagesBy(r, b)' <=> p \in batch'[b].pkgs \/ <<b, p>> \in frame'[r].pkgs
    BY <1>3 DEF PackagesBy
<1> QED
    BY <1>4, <1>5

\* The marks of a transaction, by batch and code.
LEMMA MarksHeld ==
    ASSUME TypeOK, NEW r \in Requests
    PROVE  MarksFit(r) <=>
               /\ \A b, i : Holds(r, b, i) => b \in DOMAIN batch /\ i \in batch[b].items \ batch[b].matched
               /\ \A b, p : <<b, p>> \in frame[r].pkgs => b \in DOMAIN batch
               /\ frame[r].batches \subseteq DOMAIN batch
<1>1. frame[r].codes \subseteq Requests \X Items /\ frame[r].pkgs \subseteq Requests \X Packages
    BY DEF TypeOK, Locals
<1>2. \A c \in frame[r].codes : c = <<c[1], c[2]>>
    BY <1>1
<1>3. \A w \in frame[r].pkgs : w = <<w[1], w[2]>>
    BY <1>1
<1>4. \A b, i : Holds(r, b, i) => <<b, i>>[1] = b /\ <<b, i>>[2] = i
    OBVIOUS
<1> QED
    BY <1>2, <1>3, <1>4 DEF MarksFit, Holds

LEMMA OnceHeld ==
    ASSUME TypeOK
    PROVE  MarkedOnce <=> \A r, m \in Requests : \A b, i :
                              r # m /\ Holds(r, b, i) => ~Holds(m, b, i)
<1>1. \A r \in Requests : \A c \in frame[r].codes : c = <<c[1], c[2]>>
    BY DEF TypeOK, Locals
<1> QED
    BY <1>1 DEF MarkedOnce, Holds

-----------------------------------------------------------------------------
(* Steps that count nothing: r keeps or loses its marks, and a batch that   *)
(* appears has none.                                                       *)

Plain(r) ==
    /\ \A b \in DOMAIN batch : b \in DOMAIN batch' /\ batch'[b] = batch[b]
    /\ \A b \in DOMAIN batch' \ DOMAIN batch :
          batch'[b].matched = {} /\ batch'[b].pkgs = {} /\ batch'[b].status = "WaitingExternal"
    /\ \A q \in Requests \ {r} : pc'[q] = pc[q] /\ frame'[q] = frame[q]
    /\ ~Counted(r)'
    /\ frame'[r].codes \subseteq frame[r].codes
    /\ frame'[r].pkgs \subseteq frame[r].pkgs
    /\ frame'[r].batches \subseteq frame[r].batches

LEMMA PlainKeeps ==
    ASSUME TypeOK, TypeOK', MInv, NEW r \in Requests, Plain(r)
    PROVE  MInv'
<1>1. \A q \in Requests : /\ \A b, i : Holds(q, b, i)' => Holds(q, b, i)
                          /\ frame'[q].codes \subseteq frame[q].codes
                          /\ frame'[q].pkgs \subseteq frame[q].pkgs
                          /\ frame'[q].batches \subseteq frame[q].batches
    BY DEF Plain, Holds
<1>2. \A q \in Requests : Counted(q)' => /\ Counted(q) /\ q # r
                                         /\ pc'[q] = pc[q] /\ frame'[q] = frame[q]
    BY DEF Plain, Counted
<1>3. \A b \in DOMAIN batch : /\ b \in DOMAIN batch' /\ batch'[b] = batch[b]
                              /\ PackagesOf(b)' = PackagesOf(b)
                              /\ \A p : CodesOf(b, p)' = CodesOf(b, p)
    BY DEF Plain, PackagesOf, CodesOf
<1>4. ASSUME NEW q \in Requests PROVE MarksFit(q)'
    BY <1>1, <1>3 DEF MInv, MarksFit
<1>5. MarkedOnce'
    BY <1>1 DEF MInv, MarkedOnce
<1>6. ASSUME NEW b \in DOMAIN batch' \ DOMAIN batch
      PROVE  /\ batch'[b].matched = {} /\ batch'[b].pkgs = {} /\ batch'[b].status = "WaitingExternal"
             /\ \A q \in Requests : /\ \A i : ~Holds(q, b, i)'
                                    /\ \A p : <<b, p>> \notin frame'[q].pkgs
                                    /\ b \notin frame'[q].batches
             /\ \A p \in PackagesOf(b)' : CodesOf(b, p)' # {}
    <2>1. ASSUME NEW q \in Requests
          PROVE  (\A i : ~Holds(q, b, i)) /\ (\A p : <<b, p>> \notin frame[q].pkgs) /\ b \notin frame[q].batches
        BY <1>6, <2>1, MarksHeld DEF MInv
    <2>2. \A p \in PackagesOf(b)' : CodesOf(b, p)' # {}
        BY DEF PackagesOf, CodesOf
    <2> QED
        BY <1>1, <2>1, <2>2 DEF Plain
<1>7. StatusFollowsCodes'
    <2> SUFFICES ASSUME NEW b \in DOMAIN batch'
                 PROVE  /\ batch'[b].pkgs = {p \in PackagesOf(b)' : CodesOf(b, p)' \subseteq batch'[b].matched}
                        /\ batch'[b].status = "Matching" <=> batch'[b].pkgs # {}
        BY DEF StatusFollowsCodes
    <2>1. CASE b \in DOMAIN batch
        BY <1>3, <2>1 DEF MInv, StatusFollowsCodes
    <2>2. CASE b \notin DOMAIN batch
        BY <1>6, <2>2
    <2> QED
        BY <2>1, <2>2
<1>8. \A b \in DOMAIN batch : \A i : Unknown(b, i) => Unknown(b, i)'
    BY <1>1, <1>2, <1>3 DEF Unknown
<1>9. ASSUME NEW q \in Requests, Counted(q)'
      PROVE  /\ CountsRight(q)
             /\ \A b \in DOMAIN batch : /\ PackagesBy(q, b)' = PackagesBy(q, b)
                                        /\ MatchedBy(q, b)' = MatchedBy(q, b)
                                        /\ Complete(q, b)' = Complete(q, b)
                                        /\ \A i : Holds(q, b, i)' = Holds(q, b, i)
             /\ \A b \in DOMAIN batch' \ DOMAIN batch :
                   PackagesBy(q, b)' = {} /\ Complete(q, b)' = {} /\ \A i : ~Holds(q, b, i)'
    <2>1. frame'[q] = frame[q]
        BY <1>2, <1>9
    <2>2. ASSUME NEW b \in DOMAIN batch
          PROVE  /\ PackagesBy(q, b)' = PackagesBy(q, b) /\ MatchedBy(q, b)' = MatchedBy(q, b)
                 /\ \A i : Holds(q, b, i)' = Holds(q, b, i)
        BY <1>3, <2>1 DEF PackagesBy, MatchedBy, Holds
    <2>3. \A b \in DOMAIN batch : Complete(q, b)' = Complete(q, b)
        BY <1>3, <2>2 DEF Complete
    <2>4. ASSUME NEW b \in DOMAIN batch' \ DOMAIN batch
          PROVE  PackagesBy(q, b)' = {} /\ Complete(q, b)' = {}
        <3>0. /\ batch'[b].matched = {} /\ batch'[b].pkgs = {}
              /\ \A i : ~Holds(q, b, i)'
              /\ \A p : <<b, p>> \notin frame'[q].pkgs
            BY <1>6
        <3>1. \A i : i \notin MatchedBy(q, b)'
            BY <3>0, SeenAfter
        <3>2. \A p : p \notin PackagesBy(q, b)'
            BY <3>0, SeenAfter
        <3> QED
            BY <1>6, <3>1, <3>2 DEF Complete
    <2> QED
        BY <1>6, <2>2, <2>3, <2>4 DEF MInv
<1>10. ASSUME NEW q \in Requests PROVE CountsRight(q)'
    <2> SUFFICES ASSUME Counted(q)', NEW b \in DOMAIN batch'
                 PROVE  /\ PackagesBy(q, b)' = Complete(q, b)'
                        /\ \A p \in PackagesOf(b)' :
                              \/ CodesOf(b, p)' \subseteq MatchedBy(q, b)'
                              \/ \A i \in CodesOf(b, p)' : ~Holds(q, b, i)'
                              \/ \E i \in CodesOf(b, p)' : Unknown(b, i)'
        BY DEF CountsRight
    <2>1. CASE b \notin DOMAIN batch
        BY <1>9, <2>1
    <2>2. CASE b \in DOMAIN batch
        <3>1. PackagesBy(q, b) = Complete(q, b)
            BY <1>2, <1>9, <2>2 DEF CountsRight
        <3>2. \A p \in PackagesOf(b) : \/ CodesOf(b, p) \subseteq MatchedBy(q, b)
                                       \/ \A i \in CodesOf(b, p) : ~Holds(q, b, i)
                                       \/ \E i \in CodesOf(b, p) : Unknown(b, i)
            BY <1>2, <1>9, <2>2 DEF CountsRight
        <3> QED
            BY <1>3, <1>8, <1>9, <2>2, <3>1, <3>2
    <2> QED
        BY <2>1, <2>2
<1>11. ASSUME NEW q \in Requests PROVE StatusRight(q)'
    <2> SUFFICES ASSUME pc'[q] = "matchCommit", NEW b \in DOMAIN batch'
                 PROVE  (b \in frame'[q].batches \/ batch'[b].status = "Matching") <=> PackagesBy(q, b)' # {}
        BY DEF StatusRight
    <2>0. Counted(q)' /\ pc[q] = "matchCommit" /\ frame'[q] = frame[q]
        BY <1>2 DEF Counted
    <2>1. CASE b \notin DOMAIN batch
        BY <1>6, <1>9, <2>0, <2>1
    <2>2. CASE b \in DOMAIN batch
        BY <1>3, <1>9, <2>0, <2>2 DEF MInv, StatusRight
    <2> QED
        BY <2>1, <2>2
<1> QED
    BY <1>4, <1>5, <1>7, <1>10, <1>11 DEF MInv

-----------------------------------------------------------------------------
(* The four steps of a matcher that mark and count.                        *)

\* A transaction that has counted stays right while the tables stay.
LEMMA SameCounts ==
    ASSUME NEW q \in Requests, CountsRight(q), batch' = batch, Counted(q)' => Counted(q),
           frame'[q].codes = frame[q].codes, frame'[q].pkgs = frame[q].pkgs,
           \A b \in DOMAIN batch : \A i : Unknown(b, i) => Unknown(b, i)'
    PROVE  CountsRight(q)'
<1>1. ASSUME NEW b
      PROVE  /\ PackagesBy(q, b)' = PackagesBy(q, b) /\ Complete(q, b)' = Complete(q, b)
             /\ MatchedBy(q, b)' = MatchedBy(q, b) /\ \A i : Holds(q, b, i)' = Holds(q, b, i)
             /\ PackagesOf(b)' = PackagesOf(b) /\ \A p : CodesOf(b, p)' = CodesOf(b, p)
    BY DEF PackagesBy, Complete, MatchedBy, Holds, PackagesOf, CodesOf
<1> QED
    BY <1>1 DEF CountsRight

LEMMA MatchCodeKeeps ==
    ASSUME TypeOK, TypeOK', MInv, NEW r \in Requests, NEW i \in call[r].items, MatchCode(r, i)
    PROVE  MInv'
<1>1. /\ batch' = batch /\ pc' = pc /\ pc[r] = "codes"
      /\ \A q \in Requests \ {r} : frame'[q] = frame[q]
      /\ frame'[r].codes = frame[r].codes \cup (Awaited(i) \X {i})
      /\ frame'[r].pkgs = frame[r].pkgs /\ frame'[r].batches = frame[r].batches
    BY DEF MatchCode, TypeOK, Locals, tables
<1>2. ASSUME NEW c \in Awaited(i) \X {i}
      PROVE  /\ c[1] \in DOMAIN batch /\ c[2] \in batch[c[1]].items \ batch[c[1]].matched
             /\ \A m \in Requests \ {r} : c \notin frame[m].codes
    <2>1. c = <<c[1], i>> /\ c[1] \in Awaited(i)
        OBVIOUS
    <2>2. \A m \in Requests \ {r} : <<c[1], i>> \notin frame[m].codes
        BY <2>1 DEF MatchCode, CodeBlockers, Others
    <2> QED
        BY <2>1, <2>2 DEF Awaited
<1>3. \A q \in Requests : MarksFit(q)'
    BY <1>1, <1>2 DEF MInv, MarksFit
<1>4. MarkedOnce'
    BY <1>1, <1>2 DEF MInv, MarkedOnce
<1>5. StatusFollowsCodes'
    BY <1>1 DEF MInv, StatusFollowsCodes, PackagesOf, CodesOf
<1>6. \A q \in Requests : Counted(q)' => Counted(q) /\ q # r
    BY <1>1 DEF Counted
<1>7. \A b \in DOMAIN batch : \A j : Unknown(b, j) => Unknown(b, j)'
    BY <1>1, <1>6 DEF Unknown, Holds
<1>8. ASSUME NEW q \in Requests PROVE CountsRight(q)'
    <2>1. CASE q = r
        BY <1>6, <2>1 DEF CountsRight
    <2>2. CASE q # r
        BY <1>1, <1>6, <1>7, <2>2, SameCounts DEF MInv
    <2> QED
        BY <2>1, <2>2
<1>9. ASSUME NEW q \in Requests PROVE StatusRight(q)'
    <2>1. CASE q = r
        BY <1>1, <2>1 DEF StatusRight
    <2>2. CASE q # r
        <3>1. pc'[q] = pc[q] /\ frame'[q] = frame[q] /\ StatusRight(q)
            BY <1>1, <2>2 DEF MInv
        <3>2. \A b : PackagesBy(q, b)' = PackagesBy(q, b)
            BY <1>1, <3>1 DEF PackagesBy
        <3> QED
            BY <1>1, <3>1, <3>2 DEF StatusRight
    <2> QED
        BY <2>1, <2>2
<1> QED
    BY <1>3, <1>4, <1>5, <1>8, <1>9 DEF MInv

LEMMA MatchPackagesKeeps ==
    ASSUME TypeOK, TypeOK', MInv, NEW r \in Requests, MatchPackages(r)
    PROVE  MInv'
<1>1. /\ batch' = batch /\ pc[r] = "packages" /\ pc'[r] = "batches"
      /\ \A q \in Requests \ {r} : frame'[q] = frame[q] /\ pc'[q] = pc[q]
      /\ frame'[r].codes = frame[r].codes /\ frame'[r].batches = frame[r].batches
      /\ frame'[r].pkgs = {w \in WaitingPackages : AllCodesMatched(r, w)}
    BY DEF MatchPackages, Goto, TypeOK, Locals, tables
<1>2. \A q \in Requests : \A b, i : Holds(q, b, i)' = Holds(q, b, i)
    BY <1>1 DEF Holds
<1>3. \A q \in Requests : \A b : MatchedBy(q, b)' = MatchedBy(q, b)
    BY <1>1 DEF MatchedBy
<1>4. \A b : PackagesOf(b)' = PackagesOf(b) /\ \A p : CodesOf(b, p)' = CodesOf(b, p)
    BY <1>1 DEF PackagesOf, CodesOf
<1>5. \A b \in DOMAIN batch : \A p \in PackagesOf(b) :
         p \notin batch[b].pkgs => <<b, p>> \in WaitingPackages
    <2>1. \A b \in DOMAIN batch : batch[b].items \subseteq Packages \X Codes
        BY DEF TypeOK, BatchRow, Items
    <2>2. \A b \in DOMAIN batch : PackagesOf(b) \subseteq Packages
        BY <2>1 DEF PackagesOf
    <2> QED
        BY <2>2 DEF WaitingPackages
<1>6. \A b \in DOMAIN batch : \A p \in batch[b].pkgs : p \in Complete(r, b)
    BY DEF MInv, StatusFollowsCodes, Complete, MatchedBy
<1>7. \A b \in DOMAIN batch : PackagesBy(r, b)' = Complete(r, b)'
    <2> SUFFICES ASSUME NEW b \in DOMAIN batch, NEW p
                 PROVE  p \in PackagesBy(r, b)' <=> p \in Complete(r, b)
        BY <1>3, <1>4 DEF Complete
    <2>1. p \in PackagesBy(r, b)' <=> \/ p \in batch[b].pkgs
                                      \/ <<b, p>> \in WaitingPackages /\ AllCodesMatched(r, <<b, p>>)
        BY <1>1, SeenAfter
    <2>2. <<b, p>> \in WaitingPackages => p \in PackagesOf(b)
        BY DEF WaitingPackages
    <2>3. AllCodesMatched(r, <<b, p>>) <=> CodesOf(b, p) \subseteq MatchedBy(r, b)
        BY DEF AllCodesMatched
    <2> QED
        BY <1>5, <1>6, <2>1, <2>2, <2>3 DEF Complete
\* Nobody holds what r still lacks: r does not wait.
<1>8. ASSUME NEW b \in DOMAIN batch, NEW p \in PackagesOf(b)
      PROVE  \/ CodesOf(b, p) \subseteq MatchedBy(r, b)
             \/ \E i \in CodesOf(b, p) : Unknown(b, i)' /\ i \notin MatchedBy(r, b)
    <2> SUFFICES ASSUME ~(CodesOf(b, p) \subseteq MatchedBy(r, b))
                 PROVE  \E i \in CodesOf(b, p) : Unknown(b, i)' /\ i \notin MatchedBy(r, b)
        OBVIOUS
    <2>1. <<b, p>> \in WaitingPackages
        BY <1>5, <1>6 DEF Complete
    <2>2. PICK i \in CodesOf(b, p) \ MatchedBy(r, b) : <<b, i>> \notin LockedCodes(r)
        <3> SUFFICES ASSUME \A i \in CodesOf(b, p) \ MatchedBy(r, b) : <<b, i>> \in LockedCodes(r)
                     PROVE  FALSE
            OBVIOUS
        <3>1. PICK i \in CodesOf(b, p) \ MatchedBy(r, b) : TRUE
            OBVIOUS
        <3>2. PICK m \in Others(r) : <<b, i>> \in frame[m].codes
            BY <3>1 DEF LockedCodes
        <3>3. Undecided(r, <<b, p>>)
            BY <3>1 DEF Undecided
        <3>4. m \in PackageBlockers(r)
            BY <2>1, <3>1, <3>2, <3>3 DEF PackageBlockers
        <3> QED
            BY <3>4 DEF MatchPackages
    <2>3. i \notin batch[b].matched /\ \A m \in Requests : ~Holds(m, b, i)
        BY <2>2, SeenBy DEF LockedCodes, Others, Holds
    <2>4. Unknown(b, i)'
        BY <1>1, <1>2, <2>3 DEF Unknown
    <2> QED
        BY <2>2, <2>4
<1>9. CountsRight(r)'
    BY <1>1, <1>3, <1>4, <1>7, <1>8 DEF CountsRight
<1>10. ASSUME NEW q \in Requests \ {r} PROVE CountsRight(q)'
    <2> SUFFICES ASSUME Counted(q)', NEW b \in DOMAIN batch'
                 PROVE  /\ PackagesBy(q, b)' = Complete(q, b)'
                        /\ \A p \in PackagesOf(b)' :
                              \/ CodesOf(b, p)' \subseteq MatchedBy(q, b)'
                              \/ \A i \in CodesOf(b, p)' : ~Holds(q, b, i)'
                              \/ \E i \in CodesOf(b, p)' : Unknown(b, i)'
        BY DEF CountsRight
    <2>1. Counted(q) /\ b \in DOMAIN batch
        BY <1>1 DEF Counted
    <2>2. PackagesBy(q, b)' = PackagesBy(q, b) /\ Complete(q, b)' = Complete(q, b)
        BY <1>1 DEF PackagesBy, Complete, MatchedBy, PackagesOf, CodesOf
    <2>3. ASSUME NEW p \in PackagesOf(b), NEW i \in CodesOf(b, p), Holds(q, b, i)
          PROVE  \E j \in CodesOf(b, p) : Unknown(b, j)'
        <3>1. i \notin batch[b].matched
            BY <2>3, MarksHeld DEF MInv
        <3>2. ~Holds(r, b, i)
            BY <2>3, OnceHeld DEF MInv
        <3>3. i \notin MatchedBy(r, b)
            BY <3>1, <3>2, SeenBy
        <3> QED
            BY <1>8, <2>1, <2>3, <3>3
    <2> QED
        BY <1>2, <1>3, <1>4, <2>1, <2>2, <2>3 DEF MInv, CountsRight
<1>11. \A q \in Requests : MarksFit(q)'
    <2>1. \A w \in frame'[r].pkgs : w[1] \in DOMAIN batch
        BY <1>1 DEF WaitingPackages
    <2> QED
        BY <1>1, <2>1 DEF MInv, MarksFit
<1>12. MarkedOnce'
    BY <1>1 DEF MInv, MarkedOnce
<1>13. StatusFollowsCodes'
    BY <1>1, <1>4 DEF MInv, StatusFollowsCodes
<1>14. \A q \in Requests : StatusRight(q)'
    BY <1>1 DEF MInv, StatusRight, PackagesBy
<1> QED
    BY <1>9, <1>10, <1>11, <1>12, <1>13, <1>14 DEF MInv

LEMMA MatchBatchesKeeps ==
    ASSUME TypeOK, TypeOK', MInv, NEW r \in Requests, MatchBatches(r)
    PROVE  MInv'
<1>1. /\ batch' = batch /\ pc[r] = "batches" /\ pc'[r] = "matchCommit"
      /\ \A q \in Requests \ {r} : frame'[q] = frame[q] /\ pc'[q] = pc[q]
      /\ frame'[r].codes = frame[r].codes /\ frame'[r].pkgs = frame[r].pkgs
      /\ frame'[r].batches = {b \in DOMAIN batch : /\ batch[b].status = "WaitingExternal"
                                                   /\ PackagesBy(r, b) # {}}
    BY DEF MatchBatches, SomePackageMatched, Goto, TypeOK, Locals, tables
<1>2. \A q \in Requests : frame'[q].codes = frame[q].codes /\ frame'[q].pkgs = frame[q].pkgs
    BY <1>1
<1>3. \A q \in Requests : Counted(q)' <=> Counted(q)
    BY <1>1 DEF Counted
<1>4. \A b \in DOMAIN batch : \A i : Unknown(b, i) => Unknown(b, i)'
    BY <1>1, <1>2, <1>3 DEF Unknown, Holds
<1>5. \A q \in Requests : CountsRight(q)'
    BY <1>1, <1>2, <1>3, <1>4, SameCounts DEF MInv
<1>6. \A q \in Requests : \A b : PackagesBy(q, b)' = PackagesBy(q, b)
    BY <1>1, <1>2 DEF PackagesBy
<1>7. StatusRight(r)'
    <2> SUFFICES ASSUME NEW b \in DOMAIN batch
                 PROVE  (b \in frame'[r].batches \/ batch[b].status = "Matching") <=> PackagesBy(r, b) # {}
        BY <1>1, <1>6 DEF StatusRight
    <2>1. batch[b].status \in OpenStatus
        BY DEF TypeOK, BatchRow
    <2>2. batch[b].status = "Matching" => PackagesBy(r, b) # {}
        BY DEF MInv, StatusFollowsCodes, PackagesBy
    <2> QED
        BY <1>1, <2>1, <2>2 DEF OpenStatus
<1>8. \A q \in Requests \ {r} : StatusRight(q)'
    BY <1>1, <1>6 DEF MInv, StatusRight
<1>9. \A q \in Requests : MarksFit(q)'
    BY <1>1 DEF MInv, MarksFit
<1>10. MarkedOnce'
    BY <1>1 DEF MInv, MarkedOnce
<1>11. StatusFollowsCodes'
    BY <1>1 DEF MInv, StatusFollowsCodes, PackagesOf, CodesOf
<1> QED
    BY <1>5, <1>7, <1>8, <1>9, <1>10, <1>11 DEF MInv

\* What the commit of a matcher makes of a batch.
LEMMA CommitMatchEffect ==
    ASSUME TypeOK, NEW r \in Requests, CommitMatch(r)
    PROVE  /\ pc[r] = "matchCommit" /\ pc'[r] = "done" /\ frame'[r] = NoFrame
           /\ \A q \in Requests \ {r} : frame'[q] = frame[q] /\ pc'[q] = pc[q]
           /\ DOMAIN batch' = DOMAIN batch
           /\ \A b \in DOMAIN batch :
                 /\ batch'[b].tender = batch[b].tender /\ batch'[b].items = batch[b].items
                 /\ batch'[b].matched = MatchedBy(r, b) /\ batch'[b].pkgs = PackagesBy(r, b)
                 /\ batch'[b].status = IF b \in frame[r].batches THEN "Matching" ELSE batch[b].status
           /\ \A b \in DOMAIN batch :
                 PackagesOf(b)' = PackagesOf(b) /\ \A p : CodesOf(b, p)' = CodesOf(b, p)
<1>1. \A b \in DOMAIN batch : batch[b] \in BatchRow
    BY DEF TypeOK
<1>2. /\ DOMAIN batch' = DOMAIN batch
      /\ \A b \in DOMAIN batch :
            /\ batch'[b].tender = batch[b].tender /\ batch'[b].items = batch[b].items
            /\ batch'[b].matched = MatchedBy(r, b) /\ batch'[b].pkgs = PackagesBy(r, b)
            /\ batch'[b].status = IF b \in frame[r].batches THEN "Matching" ELSE batch[b].status
    BY <1>1 DEF CommitMatch, BatchRow
<1>3. \A b \in DOMAIN batch : PackagesOf(b)' = PackagesOf(b) /\ \A p : CodesOf(b, p)' = CodesOf(b, p)
    BY <1>2 DEF PackagesOf, CodesOf
<1>4. /\ pc[r] = "matchCommit" /\ pc'[r] = "done" /\ frame'[r] = NoFrame
      /\ \A q \in Requests \ {r} : frame'[q] = frame[q] /\ pc'[q] = pc[q]
    BY DEF CommitMatch, Done, TypeOK
<1> QED
    BY <1>2, <1>3, <1>4

LEMMA CommitMatchKeeps ==
    ASSUME TypeOK, TypeOK', MInv, NEW r \in Requests, CommitMatch(r)
    PROVE  MInv'
<1> USE CommitMatchEffect
<1>1. Counted(r) /\ ~Counted(r)' /\ CountsRight(r) /\ StatusRight(r)
    BY DEF Counted, MInv
<1>2. frame'[r].codes = {} /\ frame'[r].pkgs = {} /\ frame'[r].batches = {}
    BY DEF NoFrame
<1>3. \A q \in Requests \ {r} : \A b, i : Holds(q, b, i)' = Holds(q, b, i)
    BY DEF Holds
<1>4. StatusFollowsCodes'
    <2> SUFFICES ASSUME NEW b \in DOMAIN batch
                 PROVE  /\ PackagesBy(r, b) = {p \in PackagesOf(b) : CodesOf(b, p) \subseteq MatchedBy(r, b)}
                        /\ batch'[b].status = "Matching" <=> PackagesBy(r, b) # {}
        BY DEF StatusFollowsCodes
    <2>1. PackagesBy(r, b) = Complete(r, b)
        BY <1>1 DEF CountsRight
    <2>2. (b \in frame[r].batches \/ batch[b].status = "Matching") <=> PackagesBy(r, b) # {}
        BY <1>1 DEF StatusRight
    <2> QED
        BY <2>1, <2>2 DEF Complete
<1>5. MarkedOnce'
    BY <1>2 DEF MInv, MarkedOnce
<1>6. ASSUME NEW q \in Requests PROVE MarksFit(q)'
    <2>1. CASE q = r
        BY <1>2, <2>1 DEF MarksFit
    <2>2. CASE q # r
        <3>1. ASSUME NEW c \in frame[q].codes
              PROVE  c[1] \in DOMAIN batch /\ c[2] \in batch[c[1]].items \ MatchedBy(r, c[1])
            <4>1. c = <<c[1], c[2]>>
                BY DEF TypeOK, Locals
            <4>2. c[1] \in DOMAIN batch /\ c[2] \in batch[c[1]].items \ batch[c[1]].matched
                BY DEF MInv, MarksFit
            <4>3. ~Holds(r, c[1], c[2])
                BY <2>2, <4>1, OnceHeld DEF MInv, Holds
            <4> QED
                BY <4>2, <4>3, SeenBy
        <3> QED
            BY <2>2, <3>1 DEF MInv, MarksFit
    <2> QED
        BY <2>1, <2>2
<1>7. \A b \in DOMAIN batch : \A i : Unknown(b, i) =>
         Unknown(b, i)' /\ \A q \in Requests : Counted(q) => i \notin MatchedBy(q, b)
    <2> SUFFICES ASSUME NEW b \in DOMAIN batch, NEW i, Unknown(b, i)
                 PROVE  Unknown(b, i)' /\ \A q \in Requests : Counted(q) => i \notin MatchedBy(q, b)
        OBVIOUS
    <2>1. \A q \in Requests : Counted(q) => i \notin MatchedBy(q, b)
        BY SeenBy DEF Unknown
    <2>2. \A q \in Requests : Counted(q)' => Counted(q) /\ ~Holds(q, b, i)'
        BY <1>1, <1>3 DEF Unknown, Counted
    <2> QED
        BY <1>1, <2>1, <2>2 DEF Unknown
<1>8. \A q \in Requests \ {r}, b \in DOMAIN batch :
         /\ MatchedBy(q, b)' = MatchedBy(q, b) \cup MatchedBy(r, b)
         /\ PackagesBy(q, b)' = PackagesBy(q, b) \cup PackagesBy(r, b)
    <2> SUFFICES ASSUME NEW q \in Requests \ {r}, NEW b \in DOMAIN batch
                 PROVE  /\ MatchedBy(q, b)' = MatchedBy(q, b) \cup MatchedBy(r, b)
                        /\ PackagesBy(q, b)' = PackagesBy(q, b) \cup PackagesBy(r, b)
        OBVIOUS
    <2>1. batch[b].matched \subseteq MatchedBy(r, b) /\ batch[b].pkgs \subseteq PackagesBy(r, b)
        BY DEF MatchedBy, PackagesBy
    <2> QED
        BY <2>1 DEF MatchedBy, PackagesBy
<1>9. ASSUME NEW q \in Requests PROVE CountsRight(q)'
    <2> SUFFICES ASSUME Counted(q)', NEW b \in DOMAIN batch
                 PROVE  /\ PackagesBy(q, b)' = Complete(q, b)'
                        /\ \A p \in PackagesOf(b)' :
                              \/ CodesOf(b, p)' \subseteq MatchedBy(q, b)'
                              \/ \A i \in CodesOf(b, p)' : ~Holds(q, b, i)'
                              \/ \E i \in CodesOf(b, p)' : Unknown(b, i)'
        BY DEF CountsRight
    <2>1. q # r /\ Counted(q) /\ CountsRight(q)
        BY <1>1 DEF Counted, MInv
    <2>2. ASSUME NEW p \in PackagesOf(b),
                 CodesOf(b, p) \subseteq MatchedBy(q, b) \cup MatchedBy(r, b)
          PROVE  p \in Complete(q, b) \cup Complete(r, b)
        <3>1. \A i \in CodesOf(b, p) : ~Unknown(b, i)
            BY <1>1, <1>7, <2>1, <2>2
        <3>2. CASE \A i \in CodesOf(b, p) : ~Holds(q, b, i)
            <4>1. \A i \in CodesOf(b, p) : i \in MatchedBy(r, b)
                BY <2>2, <3>2, SeenBy DEF MatchedBy
            <4> QED
                BY <4>1 DEF Complete
        <3>3. CASE CodesOf(b, p) \subseteq MatchedBy(q, b)
            BY <3>3 DEF Complete
        <3> QED
            BY <2>1, <3>1, <3>2, <3>3 DEF CountsRight
    <2>3. PackagesBy(q, b) = Complete(q, b) /\ PackagesBy(r, b) = Complete(r, b)
        BY <1>1, <2>1 DEF CountsRight
    <2>4. PackagesBy(q, b)' = Complete(q, b)'
        BY <1>8, <2>1, <2>2, <2>3 DEF Complete
    <2>5. ASSUME NEW p \in PackagesOf(b)
          PROVE  \/ CodesOf(b, p) \subseteq MatchedBy(q, b)'
                 \/ \A i \in CodesOf(b, p) : ~Holds(q, b, i)'
                 \/ \E i \in CodesOf(b, p) : Unknown(b, i)'
        <3>1. \/ CodesOf(b, p) \subseteq MatchedBy(q, b)
              \/ \A i \in CodesOf(b, p) : ~Holds(q, b, i)
              \/ \E i \in CodesOf(b, p) : Unknown(b, i)
            BY <2>1 DEF CountsRight
        <3>2. MatchedBy(q, b) \subseteq MatchedBy(q, b)'
            BY <1>8, <2>1
        <3> QED
            BY <1>3, <1>7, <2>1, <3>1, <3>2
    <2> QED
        BY <2>4, <2>5
<1>10. ASSUME NEW q \in Requests PROVE StatusRight(q)'
    <2> SUFFICES ASSUME pc'[q] = "matchCommit", NEW b \in DOMAIN batch
                 PROVE  (b \in frame'[q].batches \/ batch'[b].status = "Matching") <=> PackagesBy(q, b)' # {}
        BY DEF StatusRight
    <2>1. q # r /\ pc[q] = "matchCommit" /\ frame'[q] = frame[q]
        OBVIOUS
    <2>2. (b \in frame[q].batches \/ batch[b].status = "Matching") <=> PackagesBy(q, b) # {}
        BY <2>1 DEF MInv, StatusRight
    <2>3. (b \in frame[r].batches \/ batch[b].status = "Matching") <=> PackagesBy(r, b) # {}
        BY <1>1 DEF StatusRight
    <2>4. PackagesBy(q, b)' = PackagesBy(q, b) \cup PackagesBy(r, b)
        BY <1>8, <2>1
    <2> QED
        BY <2>1, <2>2, <2>3, <2>4
<1> QED
    BY <1>4, <1>5, <1>6, <1>9, <1>10 DEF MInv

-----------------------------------------------------------------------------
(* Every other step is plain.                                              *)

LEMMA DonePlain ==
    ASSUME TypeOK, NEW r \in Requests, Done(r), batch' = batch
    PROVE  Plain(r)
<1>1. pc'[r] = "done" /\ frame'[r] = NoFrame /\ \A q \in Requests \ {r} : pc'[q] = pc[q] /\ frame'[q] = frame[q]
    BY DEF Done, TypeOK
<1>2. ~Counted(r)'
    BY <1>1 DEF Counted
<1> QED
    BY <1>1, <1>2 DEF Plain, NoFrame

\* A statement before the marks are counted, which touches no marks.
LEMMA QuietPlain ==
    ASSUME TypeOK, NEW r \in Requests, batch' = batch,
           NEW from, NEW to, to \notin {"batches", "matchCommit"}, Goto(r, from, to),
           \A q \in Requests \ {r} : frame'[q] = frame[q],
           frame'[r].codes = frame[r].codes, frame'[r].pkgs = frame[r].pkgs,
           frame'[r].batches = frame[r].batches
    PROVE  Plain(r)
<1>1. pc'[r] = to /\ \A q \in Requests \ {r} : pc'[q] = pc[q]
    BY DEF Goto, TypeOK
<1>2. ~Counted(r)'
    BY <1>1 DEF Counted
<1> QED
    BY <1>1, <1>2 DEF Plain

LEMMA ReannouncePlain ==
    ASSUME IInv, NEW r \in Requests, ReannounceStep(r)
    PROVE  Plain(r)
<1>0. TypeOK /\ frame[r] \in Locals
    BY DEF IInv, TypeOK
<1>1. ASSUME NEW stmt, Execute(r, stmt)
      PROVE  /\ \A q \in Requests \ {r} : frame'[q] = frame[q]
             /\ frame'[r].codes = frame[r].codes /\ frame'[r].pkgs = frame[r].pkgs
             /\ frame'[r].batches = frame[r].batches
    BY <1>0, <1>1 DEF Execute, TypeOK, Locals
<1>2. CASE TakeAppLock(r)
    BY <1>0, <1>2, QuietPlain DEF TakeAppLock, tables
<1>3. CASE LockTimeout(r)
    BY <1>0, <1>3, DonePlain DEF LockTimeout, Return, tables
<1>4. CASE ReadTender(r)
    BY <1>0, <1>4, DonePlain, QuietPlain DEF ReadTender, Return, tables
<1>5. CASE CountOpenBatches(r)
    BY <1>0, <1>5, DonePlain, QuietPlain DEF CountOpenBatches, Return, tables
<1>6. CASE InsertBatch(r)
    BY <1>0, <1>1, <1>6, DonePlain, QuietPlain DEF InsertBatch, Return, tables
<1>7. CASE InsertOutbox(r)
    <2> DEFINE to == IF call[r].flag THEN "archive" ELSE "commit"
    <2>1. Goto(r, "outbox", to) /\ Execute(r, "outbox") /\ batch' = batch
        BY <1>7 DEF InsertOutbox, tables
    <2>2. to \notin {"batches", "matchCommit"}
        OBVIOUS
    <2> QED
        BY <1>0, <1>1, <2>1, <2>2, QuietPlain
<1>8. CASE ArchiveTender(r)
    BY <1>0, <1>1, <1>8, DonePlain, QuietPlain DEF ArchiveTender, Return, tables
<1>9. CASE CommitReannounce(r)
    <2>1. /\ r \notin DOMAIN batch
          /\ batch' = [b \in DOMAIN batch \cup {r} |-> IF b = r THEN NewBatch(r) ELSE batch[b]]
        BY <1>9, CommitEffect
    <2>2. /\ pc'[r] = "done" /\ frame'[r] = NoFrame
          /\ \A q \in Requests \ {r} : pc'[q] = pc[q] /\ frame'[q] = frame[q]
        BY <1>0, <1>9 DEF CommitReannounce, Done, TypeOK
    <2>3. ~Counted(r)'
        BY <2>2 DEF Counted
    <2>4. NewBatch(r).matched = {} /\ NewBatch(r).pkgs = {} /\ NewBatch(r).status = "WaitingExternal"
        BY DEF NewBatch
    <2>5. \A b \in DOMAIN batch : b \in DOMAIN batch' /\ batch'[b] = batch[b]
        BY <2>1
    <2>6. \A b \in DOMAIN batch' \ DOMAIN batch :
             batch'[b].matched = {} /\ batch'[b].pkgs = {} /\ batch'[b].status = "WaitingExternal"
        BY <2>1, <2>4
    <2> QED
        BY <2>2, <2>3, <2>5, <2>6 DEF Plain, NoFrame
<1> QED
    BY <1>2, <1>3, <1>4, <1>5, <1>6, <1>7, <1>8, <1>9 DEF ReannounceStep

LEMMA AdminPlain ==
    ASSUME TypeOK, NEW r \in Requests,
           PostTenderStep(r) \/ UpdateStep(r) \/ DeleteStep(r) \/ GereeStep(r)
    PROVE  Plain(r)
<1>0. frame[r] \in Locals
    BY DEF TypeOK
<1>1. CASE PostTenderStep(r)
    BY <1>1, DonePlain, QuietPlain DEF PostTenderStep, InsertTender, NotifyCreated
<1>2. CASE UpdateStep(r)
    <2>1. CASE ReadSuspended(r)
        <3>1. /\ \A q \in Requests \ {r} : frame'[q] = frame[q]
              /\ frame'[r].codes = frame[r].codes /\ frame'[r].pkgs = frame[r].pkgs
              /\ frame'[r].batches = frame[r].batches
            BY <1>0, <2>1 DEF ReadSuspended, TypeOK, Locals
        <3> QED
            BY <2>1, <3>1, QuietPlain DEF ReadSuspended, tables
    <2>2. CASE SetSuspended(r)
        BY <2>2, DonePlain, QuietPlain DEF SetSuspended
    <2>3. CASE NotifySuspended(r)
        BY <2>3, DonePlain DEF NotifySuspended
    <2> QED
        BY <1>2, <2>1, <2>2, <2>3 DEF UpdateStep
<1>3. CASE DeleteStep(r)
    <2>1. CASE CheckDelete(r)
        BY <2>1, DonePlain, QuietPlain DEF CheckDelete, Return, tables
    <2>2. CASE UpdateDeleted(r)
        <3>1. CASE Return(r)
            BY <2>2, <3>1, DonePlain DEF UpdateDeleted, Return, tables
        <3>2. CASE ~Return(r)
            <4>1. /\ Goto(r, "deleteUpdate", "deleteCommit") /\ batch' = batch
                  /\ frame' = [frame EXCEPT ![r].wrote = @ \cup {"delete"}]
                BY <2>2, <3>2 DEF UpdateDeleted, tables
            <4>2. /\ \A q \in Requests \ {r} : frame'[q] = frame[q]
                  /\ frame'[r].codes = frame[r].codes /\ frame'[r].pkgs = frame[r].pkgs
                  /\ frame'[r].batches = frame[r].batches
                BY <1>0, <4>1 DEF TypeOK, Locals
            <4> QED
                BY <4>1, <4>2, QuietPlain
        <3> QED
            BY <3>1, <3>2
    <2>3. CASE CommitDelete(r)
        BY <2>3, DonePlain DEF CommitDelete
    <2> QED
        BY <1>3, <2>1, <2>2, <2>3 DEF DeleteStep
<1>4. CASE GereeStep(r)
    BY <1>4, DonePlain, QuietPlain DEF GereeStep, CheckTenderOpen, InsertGeree, NotifyAssigned, Return, tables
<1> QED
    BY <1>1, <1>2, <1>3, <1>4

LEMMA InitMatch == Init => MInv
<1> SUFFICES ASSUME Init PROVE MInv
    OBVIOUS
<1>1. DOMAIN batch = {} /\ \A r \in Requests : frame[r].codes = {} /\ frame[r].pkgs = {} /\ frame[r].batches = {}
    BY DEF Init, NoFrame
<1> QED
    BY <1>1 DEF MInv, MarksFit, CountsRight, StatusRight, MarkedOnce, StatusFollowsCodes

LEMMA StepMatch ==
    ASSUME IInv, MInv, [Next]_vars
    PROVE  MInv'
<1>0. TypeOK /\ TypeOK'
    BY TypeStep DEF IInv
<1>1. CASE UNCHANGED vars
    <2>1. batch' = batch /\ pc' = pc /\ frame' = frame
        BY <1>1 DEF vars, tables
    <2>2. \A b : PackagesOf(b)' = PackagesOf(b) /\ \A p : CodesOf(b, p)' = CodesOf(b, p)
        BY <2>1 DEF PackagesOf, CodesOf
    <2>3. \A r \in Requests : /\ Counted(r)' <=> Counted(r)
                              /\ \A b, i : Holds(r, b, i)' <=> Holds(r, b, i)
        BY <2>1 DEF Counted, Holds
    <2>4. \A b : \A i : Unknown(b, i) => Unknown(b, i)'
        BY <2>1, <2>3 DEF Unknown
    <2>5. \A r \in Requests : CountsRight(r)'
        BY <2>1, <2>3, <2>4, SameCounts DEF MInv
    <2>6. \A r \in Requests : MarksFit(r)' /\ StatusRight(r)'
        BY <2>1 DEF MInv, MarksFit, StatusRight, PackagesBy
    <2>7. MarkedOnce' /\ StatusFollowsCodes'
        BY <2>1, <2>2 DEF MInv, MarkedOnce, StatusFollowsCodes
    <2> QED
        BY <2>5, <2>6, <2>7 DEF MInv
<1>2. ASSUME NEW r \in Requests, MatchStep(r) PROVE MInv'
    <2>1. ASSUME NEW i \in call[r].items, MatchCode(r, i) PROVE MInv'
        BY <1>0, <2>1, MatchCodeKeeps
    <2>2. CASE EndOfRecords(r)
        <3>1. Plain(r)
            BY <1>0, <2>2, DonePlain, QuietPlain DEF EndOfRecords, Return, tables
        <3> QED
            BY <1>0, <3>1, PlainKeeps
    <2>3. CASE MatchPackages(r)
        BY <1>0, <2>3, MatchPackagesKeeps
    <2>4. CASE MatchBatches(r)
        BY <1>0, <2>4, MatchBatchesKeeps
    <2>5. CASE CommitMatch(r)
        BY <1>0, <2>5, CommitMatchKeeps
    <2>6. CASE DeadlockVictim(r)
        <3>1. Plain(r)
            BY <1>0, <2>6, DonePlain DEF DeadlockVictim, Return, tables
        <3> QED
            BY <1>0, <3>1, PlainKeeps
    <2> QED
        BY <1>2, <2>1, <2>2, <2>3, <2>4, <2>5, <2>6 DEF MatchStep
<1>3. ASSUME NEW r \in Requests, Abort(r) \/ ReannounceStep(r) \/ PostTenderStep(r)
                                 \/ UpdateStep(r) \/ DeleteStep(r) \/ GereeStep(r)
      PROVE MInv'
    <2>1. Abort(r) => Plain(r)
        BY <1>0, DonePlain DEF Abort, tables
    <2>2. Plain(r)
        BY <1>0, <1>3, <2>1, ReannouncePlain, AdminPlain
    <2> QED
        BY <1>0, <2>2, PlainKeeps
<1> QED
    BY <1>1, <1>2, <1>3 DEF Next, Step

\* What the matchers count stays right, whatever they interleave with.
THEOREM MatchInductive == Spec => []MInv
BY Inductive, InitMatch, StepMatch, PTL DEF Spec

\* Between transactions a package is matched exactly when all its codes are, and a
\* batch is Matching exactly when a package of it is matched, for any number of
\* answers searched at once (TenderRecycleMatcher.go).
THEOREM StatusFollows == Spec => []StatusFollowsCodes
<1>1. MInv => StatusFollowsCodes
    BY DEF MInv
<1> QED
    BY <1>1, MatchInductive, PTL

-----------------------------------------------------------------------------
(* Who changes which table.                                                *)

LEMMA OtherTables ==
    ASSUME NEW r \in Requests, Step(r) \/ Abort(r)
    PROVE  /\ ~CommitReannounce(r) /\ ~InsertTender(r) /\ ~SetSuspended(r) /\ ~CommitDelete(r)
                  => tender' = tender
           /\ ~CommitReannounce(r) /\ ~CommitMatch(r) => batch' = batch
           /\ ~CommitReannounce(r) => UNCHANGED <<versionItems, outbox>>
<1>1. CASE ReannounceStep(r)
    BY <1>1 DEF ReannounceStep, TakeAppLock, LockTimeout, ReadTender, CountOpenBatches, InsertBatch,
          InsertOutbox, ArchiveTender, tables
<1>2. CASE MatchStep(r)
    BY <1>2 DEF MatchStep, MatchCode, EndOfRecords, MatchPackages, MatchBatches, CommitMatch,
          DeadlockVictim, tables
<1>3. CASE PostTenderStep(r) \/ UpdateStep(r)
    BY <1>3 DEF PostTenderStep, InsertTender, NotifyCreated, UpdateStep, ReadSuspended, SetSuspended,
          NotifySuspended, tables
<1>4. CASE DeleteStep(r) \/ GereeStep(r)
    BY <1>4 DEF DeleteStep, CheckDelete, UpdateDeleted, CommitDelete, GereeStep, CheckTenderOpen,
          InsertGeree, NotifyAssigned, tables
<1>5. CASE Abort(r)
    BY <1>5 DEF Abort, tables
<1> QED
    BY <1>1, <1>2, <1>3, <1>4, <1>5 DEF Step

-----------------------------------------------------------------------------
(* Nothing goes back.                                                      *)

\* What a step does to a tender that is there.
Kept(t) ==
    /\ t \in DOMAIN tender'
    /\ tender'[t].isCurrent => tender[t].isCurrent
    /\ tender[t].isDeleted => tender'[t].isDeleted

LEMMA TendersKept ==
    ASSUME IInv, NEW r \in Requests, Step(r) \/ Abort(r), NEW t \in DOMAIN tender
    PROVE  Kept(t)
<1>0. tender[t] \in TenderRow
    BY DEF IInv, TypeOK
<1>1. ASSUME tender' = tender PROVE Kept(t)
    BY <1>1 DEF Kept
<1>2. CASE CommitReannounce(r)
    <2>1. \/ tender' = tender
          \/ tender' = [tender EXCEPT ![Source(r)] = ArchivedRow(@)]
        BY <1>2, CommitEffect
    <2>2. t \in DOMAIN tender' /\ tender'[t] \in {tender[t], ArchivedRow(tender[t])}
        BY <2>1
    <2> QED
        BY <1>0, <2>2 DEF Kept, ArchivedRow, TenderRow
<1>3. CASE InsertTender(r)
    <2>1. t \in DOMAIN tender' /\ tender'[t] = tender[t]
        BY <1>3 DEF InsertTender
    <2> QED
        BY <2>1 DEF Kept
<1>4. CASE SetSuspended(r)
    <2>1. t \in DOMAIN tender' /\ tender'[t] \in {tender[t], [tender[t] EXCEPT !.suspended = call[r].flag]}
        BY <1>4 DEF SetSuspended
    <2> QED
        BY <1>0, <2>1 DEF Kept, TenderRow
<1>5. CASE CommitDelete(r)
    <2>1. t \in DOMAIN tender' /\ tender'[t] \in {tender[t], [tender[t] EXCEPT !.isDeleted = TRUE]}
        BY <1>5 DEF CommitDelete
    <2> QED
        BY <1>0, <2>1 DEF Kept, TenderRow
<1>6. CASE ~CommitReannounce(r) /\ ~InsertTender(r) /\ ~SetSuspended(r) /\ ~CommitDelete(r)
    <2>1. tender' = tender
        BY <1>6, OtherTables
    <2> QED
        BY <1>1, <2>1
<1> QED
    BY <1>2, <1>3, <1>4, <1>5, <1>6

LEMMA BatchesKept ==
    ASSUME IInv, NEW r \in Requests, Step(r) \/ Abort(r), NEW b \in DOMAIN batch
    PROVE  b \in DOMAIN batch' /\ Forward(b)
<1>1. CASE CommitMatch(r)
    <2>1. batch[b].matched \subseteq MatchedBy(r, b) /\ batch[b].pkgs \subseteq PackagesBy(r, b)
        BY DEF MatchedBy, PackagesBy
    <2>2. TypeOK /\ batch[b].status \in OpenStatus
        BY DEF IInv, TypeOK, BatchRow
    <2>3. /\ b \in DOMAIN batch'
          /\ batch'[b].matched = MatchedBy(r, b) /\ batch'[b].pkgs = PackagesBy(r, b)
          /\ batch'[b].status = IF b \in frame[r].batches THEN "Matching" ELSE batch[b].status
        BY <1>1, <2>2, CommitMatchEffect
    <2> QED
        BY <2>1, <2>3 DEF Forward
<1>2. CASE CommitReannounce(r)
    <2>1. /\ r \notin DOMAIN batch
          /\ batch' = [c \in DOMAIN batch \cup {r} |-> IF c = r THEN NewBatch(r) ELSE batch[c]]
        BY <1>2, CommitEffect
    <2>2. b \in DOMAIN batch' /\ batch'[b] = batch[b]
        BY <2>1
    <2> QED
        BY <2>2 DEF Forward
<1>3. CASE ~CommitMatch(r) /\ ~CommitReannounce(r)
    <2>1. batch' = batch
        BY <1>3, OtherTables
    <2> QED
        BY <2>1 DEF Forward
<1> QED
    BY <1>1, <1>2, <1>3

\* Marks, matched packages and batches that left WaitingExternal stay, and no tender
\* becomes current or undeleted again, whatever requests interleave.
THEOREM NothingGoesBack == Spec => OnlyForward
<1> DEFINE Only == /\ \A b \in DOMAIN batch : b \in DOMAIN batch' /\ Forward(b)
                   /\ \A t \in DOMAIN tender : /\ t \in DOMAIN tender'
                                               /\ tender'[t].isCurrent => tender[t].isCurrent
                                               /\ tender[t].isDeleted => tender'[t].isDeleted
<1>1. ASSUME IInv, [Next]_vars PROVE [Only]_vars
    <2> SUFFICES ASSUME NEW r \in Requests, Step(r) \/ Abort(r) PROVE Only
        BY <1>1 DEF Next
    <2>1. \A b \in DOMAIN batch : b \in DOMAIN batch' /\ Forward(b)
        BY <1>1, BatchesKept
    <2>2. \A t \in DOMAIN tender : Kept(t)
        BY <1>1, TendersKept
    <2> QED
        BY <2>1, <2>2 DEF Kept
<1> QED
    BY <1>1, Inductive, PTL DEF Spec, OnlyForward

-----------------------------------------------------------------------------
(* The refinement: every step is one of TenderVersions or changes nothing   *)
(* of what it sees.                                                        *)

LEMMA Announces ==
    ASSUME IInv, NEW r \in Requests, Reannouncing(r), CommitReannounce(r)
    PROVE  Versions!Announce
<1> DEFINE t == Source(r)
           items == call[r].items
<1>0. TypeOK /\ pc[r] = "commit" /\ Protected(r)
    BY DEF IInv, ReadStaysTrue, CommitReannounce
<1>1. Reannounceable(t) /\ r \in Requests \ DOMAIN batch
    BY <1>0, CommitEffect DEF Protected, AfterLock, AfterRead, AfterCount
<1>2. items \in (SUBSET Items) \ {{}}
    <2>1. call[r] \in Calls
        BY <1>0 DEF TypeOK
    <2> QED
        BY <1>0, <2>1, CallTyped, StoreAssumption DEF Reannouncing
<1>3. Versions!Open(t) = {}
    <2>1. \A b \in DOMAIN batch : batch[b].status \in OpenStatus
        BY <1>0 DEF TypeOK, BatchRow
    <2>2. OpenBatches(t) = {}
        BY CommitEffect
    <2> QED
        BY <2>1, <2>2 DEF OpenBatches, Versions!Open
<1>4. \/ UNCHANGED tender
      \/ tender' = [tender EXCEPT ![t].isCurrent = FALSE, ![t].lifecycle = "WaitingExternal"]
    <2>1. \/ tender' = tender
          \/ tender' = [tender EXCEPT ![t] = ArchivedRow(@)]
        BY CommitEffect
    <2> QED
        BY <2>1 DEF ArchivedRow
<1>5. batch' = [x \in DOMAIN batch \cup {r} |-> IF x # r THEN batch[x] ELSE
                   [tender |-> t, status |-> "WaitingExternal", items |-> items,
                    matched |-> {}, pkgs |-> {}]]
    BY CommitEffect DEF NewBatch
<1>6. versionItems' = versionItems \cup ({t} \X items) /\ outbox' = outbox \cup {r}
    BY CommitEffect
<1>7. /\ t \in DOMAIN tender /\ ~tender[t].isDeleted /\ ~tender[t].suspended
      /\ tender[t].isCurrent /\ tender[t].lifecycle = "Active"
    BY <1>1 DEF Reannounceable, Live
<1> HIDE DEF t, items
<1> QED
    BY <1>1, <1>2, <1>3, <1>4, <1>5, <1>6, <1>7 DEF Versions!Announce, Versions!Items, Items

LEMMA Recognises ==
    ASSUME IInv, MInv, NEW r \in Requests, CommitMatch(r)
    PROVE  Versions!Recognise
<1> DEFINE marks == [b \in DOMAIN batch |-> {i \in batch[b].items : Holds(r, b, i)}]
<1>0. TypeOK /\ Counted(r) /\ CountsRight(r) /\ StatusRight(r) /\ pc[r] = "matchCommit"
    BY DEF IInv, MInv, CommitMatch, Counted
<1>1. marks \in [DOMAIN batch -> SUBSET Items] /\ \A b \in DOMAIN batch : marks[b] \subseteq batch[b].items
    BY <1>0 DEF TypeOK, BatchRow
<1>2. ASSUME NEW b \in DOMAIN batch
      PROVE  Versions!Recognised(batch[b], marks[b]) =
                [batch[b] EXCEPT !.matched = MatchedBy(r, b), !.pkgs = PackagesBy(r, b),
                                 !.status = IF b \in frame[r].batches THEN "Matching" ELSE @]
    <2> DEFINE row    == batch[b]
               marked == [row EXCEPT !.matched = @ \cup marks[b]]
    <2>1. row \in BatchRow
        BY <1>0 DEF TypeOK
    <2>2. row.matched \cup marks[b] = MatchedBy(r, b)
        BY <1>0, <1>2, SeenBy, MarksHeld DEF MInv
    <2>3. marked = [row EXCEPT !.matched = MatchedBy(r, b)] /\ marked.items = row.items
          /\ marked.matched = MatchedBy(r, b)
        BY <2>1, <2>2 DEF BatchRow
    <2>4. Versions!Complete(marked) = PackagesBy(r, b)
        <3>1. Versions!Complete(marked) = Complete(r, b)
            BY <2>3 DEF Versions!Complete, Complete, PackagesOf, CodesOf
        <3> QED
            BY <1>0, <3>1 DEF CountsRight
    <2>5. (IF PackagesBy(r, b) = {} THEN "WaitingExternal" ELSE "Matching")
             = IF b \in frame[r].batches THEN "Matching" ELSE row.status
        <3>1. (b \in frame[r].batches \/ row.status = "Matching") <=> PackagesBy(r, b) # {}
            BY <1>0 DEF StatusRight
        <3>2. row.status \in {"WaitingExternal", "Matching"}
            BY <2>1 DEF BatchRow, OpenStatus
        <3> QED
            BY <3>1, <3>2
    <2>6. Versions!Recognised(row, marks[b]) =
             [marked EXCEPT !.pkgs = PackagesBy(r, b),
                            !.status = IF PackagesBy(r, b) = {} THEN "WaitingExternal" ELSE "Matching"]
        BY <2>4 DEF Versions!Recognised
    <2> HIDE DEF marks
    <2> QED
        BY <2>1, <2>3, <2>5, <2>6 DEF BatchRow
<1>3. batch' = [b \in DOMAIN batch |-> Versions!Recognised(batch[b], marks[b])]
    BY <1>2 DEF CommitMatch
<1>4. UNCHANGED <<tender, versionItems, outbox>>
    BY DEF CommitMatch
<1> HIDE DEF marks
<1> QED
    BY <1>1, <1>3, <1>4 DEF Versions!Recognise, Versions!Items, Items

LEMMA Administers ==
    ASSUME IInv, NEW r \in Requests, InsertTender(r) \/ SetSuspended(r) \/ CommitDelete(r)
    PROVE  [Versions!Move]_(Versions!visible)
<1>0. TypeOK /\ Protected(r)
    BY DEF IInv, ReadStaysTrue
<1>1. CASE InsertTender(r)
    <2>1. PICK t \in Tenders \ DOMAIN tender :
             tender' = [x \in DOMAIN tender \cup {t} |-> IF x = t THEN NewTender(r) ELSE tender[x]]
        BY <1>1 DEF InsertTender
    <2>2. call[r].user \in Users /\ call[r].flag \in BOOLEAN
        BY <1>0, CallTyped DEF Call
    <2>3. tender' = [x \in DOMAIN tender \cup {t} |-> IF x # t THEN tender[x] ELSE
                        [createdBy |-> call[r].user, root |-> None, isDeleted |-> FALSE,
                         isCurrent |-> TRUE, lifecycle |-> "Active", suspended |-> call[r].flag]]
        BY <2>1 DEF NewTender
    <2>4. \E x \in Tenders \ DOMAIN tender, u \in Users, s \in BOOLEAN :
             tender' = [y \in DOMAIN tender \cup {x} |-> IF y # x THEN tender[y] ELSE
                           [createdBy |-> u, root |-> None, isDeleted |-> FALSE,
                            isCurrent |-> TRUE, lifecycle |-> "Active", suspended |-> s]]
        BY <2>2, <2>3, Zenon
    <2>5. Versions!Create
        BY <1>1, <2>4 DEF InsertTender, Versions!Create
    <2> QED
        BY <2>5 DEF Versions!Move
<1>2. CASE SetSuspended(r)
    <2> DEFINE t == call[r].tender
    <2>1. CASE t \in DOMAIN tender
        <3>1. call[r].flag \in BOOLEAN
            BY <1>0, CallTyped DEF Call
        <3>2. Versions!Suspend
            BY <1>2, <2>1, <3>1 DEF SetSuspended, Versions!Suspend
        <3> QED
            BY <3>2 DEF Versions!Move
    <2>2. CASE t \notin DOMAIN tender
        BY <1>2, <2>2 DEF SetSuspended, Versions!visible
    <2> QED
        BY <2>1, <2>2
<1>3. CASE CommitDelete(r)
    <2>1. Live(call[r].tender)
        BY <1>0, <1>3 DEF Protected, CommitDelete
    <2>2. Versions!Delete
        BY <1>3, <2>1 DEF CommitDelete, Live, Versions!Delete
    <2> QED
        BY <2>2 DEF Versions!Move
<1> QED
    BY <1>1, <1>2, <1>3

LEMMA StepMoves ==
    ASSUME IInv, MInv, [Next]_vars
    PROVE  [Versions!Move]_(Versions!visible)
<1>1. CASE UNCHANGED vars
    BY <1>1 DEF vars, tables, Versions!visible
<1>2. ASSUME NEW r \in Requests, Step(r) \/ Abort(r)
      PROVE  [Versions!Move]_(Versions!visible)
    <2>1. CASE CommitReannounce(r)
        <3>1. Reannouncing(r)
            BY <2>1 DEF CommitReannounce, IInv, ReadStaysTrue, Protected, AfterLock
        <3> QED
            BY <2>1, <3>1, Announces DEF Versions!Move
    <2>2. CASE CommitMatch(r)
        BY <2>2, Recognises DEF Versions!Move
    <2>3. CASE InsertTender(r) \/ SetSuspended(r) \/ CommitDelete(r)
        BY <2>3, Administers
    <2>4. CASE ~(CommitReannounce(r) \/ CommitMatch(r) \/ InsertTender(r) \/ SetSuspended(r) \/ CommitDelete(r))
        BY <1>2, <2>4, OtherTables DEF Versions!visible
    <2> QED
        BY <2>1, <2>2, <2>3, <2>4
<1> QED
    BY <1>1, <1>2 DEF Next

\* Statement by statement, with locks, deadlocks and failures, the tables change as if
\* each handler ran in one step: the refinement of TenderVersions.
THEOREM AsPromised == Spec => KeepsPromise
<1>1. Init => Versions!Start
    BY DEF Init, Versions!Start
<1>2. IInv /\ MInv /\ [Next]_vars => [Versions!Move]_(Versions!visible)
    BY StepMoves
<1> QED
    BY <1>1, <1>2, Inductive, MatchInductive, PTL DEF Spec, KeepsPromise, Versions!Promise
=============================================================================
