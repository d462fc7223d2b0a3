----------------------------- MODULE TenderAdmin -----------------------------
(***************************************************************************)
(* The other handlers that change a tender or hang a contract on it:       *)
(* PostTender.go, UpdateTender.go, DeleteTender.go and PostGeree.go.       *)
(* Except for DeleteTender they run without a transaction: each statement  *)
(* commits by itself, and other requests may run between two of them.      *)
(***************************************************************************)
EXTENDS TenderStore

-----------------------------------------------------------------------------
(* PostTender: an INSERT, then a notification to the creator.              *)

NewTender(r) == [createdBy |-> call[r].user, root |-> None, isDeleted |-> FALSE,
                 isCurrent |-> TRUE, lifecycle |-> "Active", suspended |-> call[r].flag]

\* TenderId is an IDENTITY column: any identifier that no row has.
InsertTender(r) ==
    /\ Goto(r, "insertTender", "notifyTender")
    /\ \E t \in Tenders \ DOMAIN tender :
          tender' = [x \in DOMAIN tender \cup {t} |-> IF x = t THEN NewTender(r) ELSE tender[x]]
    /\ UNCHANGED <<geree, batch, versionItems, outbox, notices, call, frame, locks>>

NotifyCreated(r) ==
    /\ pc[r] = "notifyTender"
    /\ Notify("tender_created", call[r].user, r)
    /\ Done(r)
    /\ UNCHANGED <<tender, geree, batch, versionItems, outbox>>

PostTenderStep(r) ==
    /\ call[r].kind = "PostTender"
    /\ InsertTender(r) \/ NotifyCreated(r)

-----------------------------------------------------------------------------
(* UpdateTender of the suspension date: flag is TRUE for a date, FALSE for  *)
(* 1900-01-01.  The row may be missing or deleted: then nothing changes.   *)

\* The state before; a failed read is ignored and leaves 0.
ReadSuspended(r) ==
    LET t == call[r].tender IN
    /\ Goto(r, "updateRead", "update")
    /\ \/ /\ t \in DOMAIN tender /\ Readable(t, r)
          /\ frame' = [frame EXCEPT ![r].wasSuspended = tender[t].suspended]
       \/ UNCHANGED frame
    /\ UNCHANGED <<tables, call, locks>>

SetSuspended(r) ==
    LET t == call[r].tender IN
    /\ pc[r] = "update" /\ Free(t, r)
    /\ tender' = IF t \in DOMAIN tender THEN [tender EXCEPT ![t].suspended = call[r].flag] ELSE tender
    /\ IF call[r].flag /\ ~frame[r].wasSuspended
       THEN Goto(r, "update", "updateNotify") /\ UNCHANGED <<call, frame, locks>>
       ELSE Done(r)
    /\ UNCHANGED <<geree, batch, versionItems, outbox, notices>>

\* One notification for each user with a contract of the tender; each INSERT
\* may fail by itself.
NotifySuspended(r) ==
    /\ pc[r] = "updateNotify"
    /\ \E told \in SUBSET {g[3] : g \in {h \in geree : h[2] = call[r].tender}} :
          notices' = notices \cup ({"tender_suspended"} \X told \X {r})
    /\ Done(r)
    /\ UNCHANGED <<tender, geree, batch, versionItems, outbox>>

UpdateStep(r) ==
    /\ call[r].kind = "Update"
    /\ ReadSuspended(r) \/ SetSuspended(r) \/ NotifySuspended(r)

-----------------------------------------------------------------------------
(* DeleteTender: a check and a soft delete in one transaction, without a    *)
(* lock hint on the check.                                                 *)

Deletable(r, t) ==
    /\ Live(t)
    /\ call[r].user \in Managers \/ tender[t].createdBy = call[r].user
    /\ ~Contracted(t)
    /\ LiveChildren(t) = {}

CheckDelete(r) ==
    LET t == call[r].tender IN
    /\ pc[r] = "deleteRead" /\ \A x \in LiveChildren(t) \cup {t} : Readable(x, r)
    /\ IF Deletable(r, t)
       THEN Goto(r, "deleteRead", "deleteUpdate") /\ UNCHANGED <<call, frame, locks>>
       ELSE Return(r)
    /\ UNCHANGED tables

\* UPDATE ... WHERE IsDeleted = 0: it waits for the row, then changes one row or none.
UpdateDeleted(r) ==
    LET t == call[r].tender IN
    /\ pc[r] = "deleteUpdate" /\ Free(t, r)
    /\ IF Live(t)
       THEN /\ Goto(r, "deleteUpdate", "deleteCommit")
            /\ frame' = [frame EXCEPT ![r].wrote = @ \cup {"delete"}]
            /\ rowLock' = [rowLock EXCEPT ![t] = r]
            /\ UNCHANGED <<call, appLock>>
       ELSE Return(r)
    /\ UNCHANGED tables

CommitDelete(r) ==
    /\ pc[r] = "deleteCommit"
    /\ tender' = [tender EXCEPT ![call[r].tender].isDeleted = TRUE]
    /\ Done(r)
    /\ UNCHANGED <<geree, batch, versionItems, outbox, notices>>

DeleteStep(r) ==
    /\ call[r].kind = "Delete"
    /\ CheckDelete(r) \/ UpdateDeleted(r) \/ CommitDelete(r)

-----------------------------------------------------------------------------
(* PostGeree: the state of the tender is counted, then the contract is      *)
(* inserted and its user (call[r].user) told.                              *)

CheckTenderOpen(r) ==
    LET t == call[r].tender IN
    /\ pc[r] = "check" /\ Readable(t, r)
    /\ IF Live(t) /\ ~tender[t].suspended
       THEN Goto(r, "check", "insertGeree") /\ UNCHANGED <<call, frame, locks>>
       ELSE Return(r)
    /\ UNCHANGED tables

InsertGeree(r) ==
    /\ Goto(r, "insertGeree", "notifyGeree")
    /\ geree' = geree \cup {<<r, call[r].tender, call[r].user>>}
    /\ UNCHANGED <<tender, batch, versionItems, outbox, notices, call, frame, locks>>

NotifyAssigned(r) ==
    /\ pc[r] = "notifyGeree"
    /\ Notify("contract_assigned", call[r].user, r)
    /\ Done(r)
    /\ UNCHANGED <<tender, geree, batch, versionItems, outbox>>

GereeStep(r) ==
    /\ call[r].kind = "Geree"
    /\ CheckTenderOpen(r) \/ InsertGeree(r) \/ NotifyAssigned(r)
=============================================================================
