----------------------------- MODULE Reannounce -----------------------------
(***************************************************************************)
(* POST reannounce (controllers/ReannounceTender.go): the creator of a     *)
(* tender sends some of its orders back to the external system.  The       *)
(* handler is one transaction: it takes an application lock, reads the     *)
(* tender under UPDLOCK and HOLDLOCK, checks it, records a batch with its  *)
(* packages and codes, queues the payload in the outbox and, unless asked  *)
(* not to (flag), archives the tender.                                     *)
(***************************************************************************)
EXTENDS TenderStore

Reannouncing(r) == call[r].kind = "Reannounce"
Source(r)       == call[r].tender

\* What the tender row must look like to be announced again.
Reannounceable(t) ==
    /\ Live(t)
    /\ tender[t].isCurrent /\ tender[t].lifecycle = "Active"
    /\ ~tender[t].suspended

Execute(r, stmt) == frame' = [frame EXCEPT ![r].wrote = @ \cup {stmt}]

-----------------------------------------------------------------------------
\* sp_getapplock in exclusive mode, owned by the transaction.
TakeAppLock(r) ==
    LET t == Source(r) IN
    /\ appLock[t] = None
    /\ Goto(r, "lock", "read")
    /\ appLock' = [appLock EXCEPT ![t] = r]
    /\ UNCHANGED <<tables, call, frame, rowLock>>

\* The lock is not granted within five seconds: 409.
LockTimeout(r) ==
    /\ pc[r] = "lock" /\ appLock[Source(r)] # None
    /\ Return(r) /\ UNCHANGED tables

\* A plausible slip: a SELECT without the hints keeps nothing.
ReadCommittedOnly(r, t) == UNCHANGED rowLock

\* The hints keep the row for the transaction.
HoldTender(r, t) == rowLock' = [rowLock EXCEPT ![t] = r]

\* SELECT ... WITH (UPDLOCK, HOLDLOCK) and the checks on the row it returns.
ReadTender(r) ==
    LET t == Source(r) IN
    /\ pc[r] = "read" /\ Free(t, r)
    /\ IF /\ Reannounceable(t)
          /\ tender[t].createdBy = call[r].user
          /\ ~Contracted(t)
       THEN /\ Goto(r, "read", "count")
            /\ HoldTender(r, t)
            /\ UNCHANGED <<call, frame, appLock>>
       ELSE Return(r)
    /\ UNCHANGED tables

\* A plausible slip: a batch that has left WaitingExternal is not counted.
NoOpenBatchIgnoringMatching(t) ==
    {b \in OpenBatches(t) : batch[b].status = "WaitingExternal"} = {}

\* Otherwise another batch of this tender waits for the external system: 409.
NoOpenBatch(t) == OpenBatches(t) = {}

CountOpenBatches(r) ==
    /\ pc[r] = "count"
    /\ IF NoOpenBatch(Source(r))
       THEN Goto(r, "count", "insert") /\ UNCHANGED <<call, frame, locks>>
       ELSE Return(r)
    /\ UNCHANGED tables

\* TenderVersionItems is unique on tender, package number, date and code: the
\* package name is not part of its key.
ResultKey(i) == <<Slot[i[1]], i[2]>>

UniqueResults(r) ==
    LET t == Source(r)
        present == {ResultKey(v[2]) : v \in {w \in versionItems : w[1] = t}}
    IN  /\ \A i, j \in call[r].items : ResultKey(i) = ResultKey(j) => i = j
        /\ \A i \in call[r].items : ResultKey(i) \notin present

\* INSERT of the batch and, package by package, of packages, results and codes.
\* A result that violates the unique index ends the handler with a 500.
InsertBatch(r) ==
    /\ pc[r] = "insert"
    /\ IF UniqueResults(r)
       THEN /\ Goto(r, "insert", "outbox") /\ Execute(r, "batch")
            /\ UNCHANGED <<call, locks>>
       ELSE Return(r)
    /\ UNCHANGED tables

\* A plausible slip: the outbox row is written over db instead of tx.
InsertOutboxOutsideTx(r) ==
    /\ Goto(r, "outbox", IF call[r].flag THEN "archive" ELSE "commit")
    /\ outbox' = outbox \cup {r}
    /\ UNCHANGED <<tender, geree, batch, versionItems, notices, call, frame, locks>>

InsertOutbox(r) ==
    /\ Goto(r, "outbox", IF call[r].flag THEN "archive" ELSE "commit")
    /\ Execute(r, "outbox")
    /\ UNCHANGED <<tables, call, locks>>

\* UPDATE Tender guarded by IsDeleted = 0, IsCurrent = 1 and Active; unless it
\* changes one row the handler answers 409.
ArchiveTender(r) ==
    LET t == Source(r) IN
    /\ pc[r] = "archive"
    /\ IF Live(t) /\ tender[t].isCurrent /\ tender[t].lifecycle = "Active"
       THEN /\ Goto(r, "archive", "commit") /\ Execute(r, "archive")
            /\ UNCHANGED <<call, locks>>
       ELSE Return(r)
    /\ UNCHANGED tables

NewBatch(r) == [tender |-> Source(r), status |-> "WaitingExternal",
                items |-> call[r].items, matched |-> {}, pkgs |-> {}]

\* Plausible slips: IsCurrent is forgotten; the status of a package is written.
ArchiveKeepingCurrent(row) == [row EXCEPT !.lifecycle = "WaitingExternal"]
ArchivedAsWaiting(row) == [row EXCEPT !.isCurrent = FALSE, !.lifecycle = "Waiting"]

ArchivedRow(row) == [row EXCEPT !.isCurrent = FALSE, !.lifecycle = "WaitingExternal"]

\* tx.Commit: what the transaction wrote becomes visible at once.
CommitReannounce(r) ==
    LET t == Source(r)  wrote == frame[r].wrote IN
    /\ pc[r] = "commit"
    /\ batch' = IF "batch" \notin wrote THEN batch
                ELSE [b \in DOMAIN batch \cup {r} |-> IF b = r THEN NewBatch(r) ELSE batch[b]]
    /\ versionItems' = IF "batch" \notin wrote THEN versionItems
                       ELSE versionItems \cup ({t} \X call[r].items)
    /\ outbox' = IF "outbox" \in wrote THEN outbox \cup {r} ELSE outbox
    /\ tender' = IF "archive" \in wrote THEN [tender EXCEPT ![t] = ArchivedRow(@)] ELSE tender
    /\ Done(r)
    /\ UNCHANGED <<geree, notices>>

ReannounceStep(r) ==
    /\ Reannouncing(r)
    /\ \/ TakeAppLock(r)
       \/ LockTimeout(r)
       \/ ReadTender(r)
       \/ CountOpenBatches(r)
       \/ InsertBatch(r)
       \/ InsertOutbox(r)
       \/ ArchiveTender(r)
       \/ CommitReannounce(r)
=============================================================================
