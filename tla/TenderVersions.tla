--------------------------- MODULE TenderVersions ---------------------------
(***************************************************************************)
(* What the tender life cycle promises: creating, suspending, deleting,    *)
(* announcing again and recognising returned codes happen each in one      *)
(* step, on the state of that step.  No requests, locks or transactions.   *)
(***************************************************************************)
EXTENDS Naturals, FiniteSets

CONSTANTS Tenders, Users, Packages, Codes, BatchIds, Legal, None

\* Legal is the set of tender tables the promise starts from.

VARIABLES tender, batch, versionItems, outbox
visible == <<tender, batch, versionItems, outbox>>

Items == Packages \X Codes
Open(t) == {b \in DOMAIN batch : batch[b].tender = t /\ batch[b].status # "Completed"}

Start ==
    /\ tender \in Legal
    /\ batch = [b \in {} |-> None]
    /\ versionItems = {} /\ outbox = {}

Create ==
    /\ \E t \in Tenders \ DOMAIN tender, u \in Users, s \in BOOLEAN :
          tender' = [x \in DOMAIN tender \cup {t} |-> IF x # t THEN tender[x] ELSE
                        [createdBy |-> u, root |-> None, isDeleted |-> FALSE,
                         isCurrent |-> TRUE, lifecycle |-> "Active", suspended |-> s]]
    /\ UNCHANGED <<batch, versionItems, outbox>>

Suspend ==
    /\ \E t \in DOMAIN tender, s \in BOOLEAN : tender' = [tender EXCEPT ![t].suspended = s]
    /\ UNCHANGED <<batch, versionItems, outbox>>

Delete ==
    /\ \E t \in DOMAIN tender :
          /\ ~tender[t].isDeleted
          /\ tender' = [tender EXCEPT ![t].isDeleted = TRUE]
    /\ UNCHANGED <<batch, versionItems, outbox>>

\* A current, active, unsuspended tender without an open batch gets one, with
\* its payload queued; it leaves the active tenders if it is to be archived.
Announce ==
    \E b \in BatchIds \ DOMAIN batch, t \in DOMAIN tender, items \in (SUBSET Items) \ {{}} :
        /\ ~tender[t].isDeleted /\ ~tender[t].suspended
        /\ tender[t].isCurrent /\ tender[t].lifecycle = "Active"
        /\ Open(t) = {}
        /\ \/ UNCHANGED tender
           \/ tender' = [tender EXCEPT ![t].isCurrent = FALSE, ![t].lifecycle = "WaitingExternal"]
        /\ batch' = [x \in DOMAIN batch \cup {b} |-> IF x # b THEN batch[x] ELSE
                        [tender |-> t, status |-> "WaitingExternal", items |-> items,
                         matched |-> {}, pkgs |-> {}]]
        /\ versionItems' = versionItems \cup ({t} \X items)
        /\ outbox' = outbox \cup {b}

Complete(row) == {p \in {i[1] : i \in row.items} :
                     \A i \in row.items : i[1] = p => i \in row.matched}

\* The statuses of a batch and its packages follow from its marked codes.
Recognised(row, marks) ==
    LET marked == [row EXCEPT !.matched = @ \cup marks]
        done   == Complete(marked)
    IN  [marked EXCEPT !.pkgs = done, !.status = IF done = {} THEN "WaitingExternal" ELSE "Matching"]

Recognise ==
    /\ \E marks \in [DOMAIN batch -> SUBSET Items] :
          /\ \A b \in DOMAIN batch : marks[b] \subseteq batch[b].items
          /\ batch' = [b \in DOMAIN batch |-> Recognised(batch[b], marks[b])]
    /\ UNCHANGED <<tender, versionItems, outbox>>

Move == Create \/ Suspend \/ Delete \/ Announce \/ Recognise

Promise == Start /\ [][Move]_visible
=============================================================================
