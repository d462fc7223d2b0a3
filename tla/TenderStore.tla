---------------------------- MODULE TenderStore ----------------------------
(***************************************************************************)
(* The tables of the tender database that the life cycle of a tender       *)
(* touches, the requests that work on them, and the locks SQL Server holds *)
(* for their transactions.                                                 *)
(*                                                                         *)
(* One request is one HTTP call, served by a goroutine of its own over a   *)
(* connection of its own.  It is a process of this model: it takes one     *)
(* step per SQL statement.  A statement outside a transaction commits by   *)
(* itself; a statement inside one only adds to the write set of the        *)
(* request (frame[r].wrote and the sets of a matcher), which its commit    *)
(* makes visible and Return discards.  The isolation level is SQL Server's    *)
(* READ COMMITTED with locking: a read waits for a row another transaction *)
(* has changed, and sees only what is committed.                           *)
(***************************************************************************)
EXTENDS Naturals, FiniteSets

CONSTANTS
    Tenders,    \* identifiers the Tender table may hand out
    Users,      \* users with a session
    Managers,   \* the users whose role is Udirdlaga (management)
    Packages,   \* external package identities: number, date and name
    Slot,       \* the (number, date) part of a package identity
    Codes,      \* order codes
    Requests,   \* HTTP requests of one behaviour; a batch is named after its request
    Calls,      \* what a request may ask for
    Legacy,     \* Tender tables the migration may find
    None        \* no request holds the lock

Items        == Packages \X Codes
OpenStatus   == {"WaitingExternal", "Matching"}
Lifecycle    == {"Active", "WaitingExternal", "Archived", "Deleted"}
Kinds        == {"PostTender", "Update", "Delete", "Geree", "Reannounce", "Match"}

TenderRow == [createdBy : Users, root : Tenders \cup {None}, isDeleted : BOOLEAN,
              isCurrent : BOOLEAN, lifecycle : Lifecycle, suspended : BOOLEAN]

\* A TenderRecycleBatch row with its packages and codes: items are the codes,
\* matched those with a MatchedAt, pkgs the packages whose status is Matched.
BatchRow == [tender : Tenders, status : OpenStatus, items : SUBSET Items,
             matched : SUBSET Items, pkgs : SUBSET Packages]

LegacyRow == [createdBy : Users, root : Tenders \cup {None}, isDeleted : BOOLEAN,
              suspended : BOOLEAN]

\* One shape for every call; a kind ignores the fields it has no use for.
Call == [kind : Kinds, user : Users, tender : Tenders, flag : BOOLEAN,
         items : SUBSET Items]

Locals == [seen : SUBSET Items, wrote : SUBSET {"batch", "outbox", "archive", "delete"},
           codes : SUBSET (Requests \X Items), pkgs : SUBSET (Requests \X Packages),
           batches : SUBSET Requests, wasSuspended : BOOLEAN]

\* The first statement of each handler.
FirstStep == [PostTender |-> "insertTender", Update |-> "updateRead", Delete |-> "deleteRead",
              Geree |-> "check", Reannounce |-> "lock", Match |-> "codes"]

Pc == {"lock", "read", "count", "insert", "outbox", "archive", "commit",
       "codes", "packages", "batches", "matchCommit", "check", "insertGeree",
       "notifyGeree", "deleteRead", "deleteUpdate", "deleteCommit", "updateRead",
       "update", "updateNotify", "insertTender", "notifyTender", "done"}

ASSUME StoreAssumption ==
    /\ Managers \subseteq Users
    /\ None \notin Requests
    /\ None \notin Tenders
    /\ Calls \subseteq Call
    \* An empty selection is answered with a 400.
    /\ \A c \in Calls : c.kind = "Reannounce" => c.items # {}
    /\ \A l \in Legacy : DOMAIN l \subseteq Tenders /\ l \in [DOMAIN l -> LegacyRow]

VARIABLES
    tender,       \* Tender rows, by TenderId
    geree,        \* Geree rows (contracts): the request that inserted it, tender, user
    batch,        \* TenderRecycleBatch rows with their packages and codes
    versionItems, \* TenderVersionItems rows: tender and item
    outbox,       \* batches with a TenderRecycleOutbox row (all are Pending)
    notices,      \* Notifications rows: type, user, request
    call, pc,     \* what each request asks for and the statement it is at
    frame,        \* its local variables and the write set of its transaction
    appLock,      \* owner of the application lock TenderReannounce:<id>
    rowLock       \* owner of the U or X lock on the Tender row

tables == <<tender, geree, batch, versionItems, outbox, notices>>
locks  == <<appLock, rowLock>>
vars   == <<tables, call, pc, frame, locks>>

-----------------------------------------------------------------------------
NoFrame == [seen |-> {}, wrote |-> {}, codes |-> {}, pkgs |-> {}, batches |-> {},
            wasSuspended |-> FALSE]

HasLiveVersion(l, t) == \E c \in DOMAIN l : l[c].root = t /\ ~l[c].isDeleted

\* Migration 002: version columns of a tender that existed before it.
Migrated(l, t) ==
    LET superseded == HasLiveVersion(l, t)
    IN  [createdBy |-> l[t].createdBy, root |-> l[t].root,
         isDeleted |-> l[t].isDeleted, suspended |-> l[t].suspended,
         isCurrent |-> ~l[t].isDeleted /\ ~superseded,
         lifecycle |-> IF l[t].isDeleted THEN "Deleted"
                       ELSE IF superseded THEN "Archived" ELSE "Active"]

Init ==
    /\ \E l \in Legacy : tender = [t \in DOMAIN l |-> Migrated(l, t)]
    /\ geree = {} /\ versionItems = {} /\ outbox = {} /\ notices = {}
    /\ batch = [b \in {} |-> None]
    /\ call \in [Requests -> Calls]
    /\ pc = [r \in Requests |-> FirstStep[call[r].kind]]
    /\ frame = [r \in Requests |-> NoFrame]
    /\ appLock = [t \in Tenders |-> None]
    /\ rowLock = [t \in Tenders |-> None]

TypeOK ==
    /\ DOMAIN tender \subseteq Tenders /\ tender \in [DOMAIN tender -> TenderRow]
    /\ geree \subseteq (Requests \X Tenders \X Users)
    /\ DOMAIN batch \subseteq Requests /\ batch \in [DOMAIN batch -> BatchRow]
    /\ versionItems \subseteq (Tenders \X Items)
    /\ outbox \subseteq Requests
    /\ notices \subseteq ({"tender_created", "tender_suspended", "contract_assigned"}
                          \X Users \X Requests)
    /\ call \in [Requests -> Calls]
    /\ pc \in [Requests -> Pc]
    /\ frame \in [Requests -> Locals]
    /\ appLock \in [Tenders -> Requests \cup {None}]
    /\ rowLock \in [Tenders -> Requests \cup {None}]

-----------------------------------------------------------------------------
(* Reading the tables. *)

Live(t) == t \in DOMAIN tender /\ ~tender[t].isDeleted

Contracted(t) == \E g \in geree : g[2] = t

LiveChildren(t) == {c \in DOMAIN tender : tender[c].root = t /\ ~tender[c].isDeleted}

OpenBatches(t) == {b \in DOMAIN batch : batch[b].tender = t /\ batch[b].status \in OpenStatus}

(* Locks.  A U lock lets others read; the X lock of a changed row does not. *)

Free(t, r)     == rowLock[t] \in {None, r}
Readable(t, r) == \A m \in {rowLock[t]} \ {None, r} : frame[m].wrote \cap {"archive", "delete"} = {}

\* Moving on to the next statement.
Goto(r, from, to) == pc[r] = from /\ pc' = [pc EXCEPT ![r] = to]

\* The handler has returned, and its transaction with its locks is over.
Done(r) ==
    /\ pc' = [pc EXCEPT ![r] = "done"]
    /\ frame' = [frame EXCEPT ![r] = NoFrame]
    /\ appLock' = [t \in Tenders |-> IF appLock[t] = r THEN None ELSE appLock[t]]
    /\ rowLock' = [t \in Tenders |-> IF rowLock[t] = r THEN None ELSE rowLock[t]]
    /\ UNCHANGED call

\* A plausible slip: no deferred tx.Rollback, the connection keeps its locks.
ReturnWithoutRollback(r) ==
    /\ pc' = [pc EXCEPT ![r] = "done"]
    /\ UNCHANGED <<call, frame, locks>>

\* An early return: the deferred tx.Rollback throws the write set away.
Return(r) == Done(r)

\* An INSERT into Notifications whose failure is only logged.
Notify(type, user, r) ==
    \/ notices' = notices \cup {<<type, user, r>>}
    \/ UNCHANGED notices
=============================================================================
