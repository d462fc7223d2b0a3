--------------------------- MODULE RecycleMatcher ---------------------------
(***************************************************************************)
(* matchWaitingTenderRecycles (controllers/TenderRecycleMatcher.go): every *)
(* successful answer of the external order list is searched for codes that *)
(* open batches wait for.  One transaction marks the codes, then the       *)
(* packages that have no unmarked code left, then the batches that have a  *)
(* marked package.  Several answers may be searched at the same time.      *)
(***************************************************************************)
EXTENDS TenderStore

Matching(r) == call[r].kind = "Match"

PackagesOf(b) == {i[1] : i \in batch[b].items}
CodesOf(b, p) == {i \in batch[b].items : i[1] = p}
Others(r)     == Requests \ {r}

\* A plausible slip: only the marks of this answer are counted and stored.
MatchedByThisAnswer(r, b) == {c[2] : c \in {d \in frame[r].codes : d[1] = b}}

\* What r sees of a batch: committed marks and its own.
MatchedBy(r, b) == batch[b].matched \cup {c[2] : c \in {d \in frame[r].codes : d[1] = b}}
PackagesBy(r, b) == batch[b].pkgs \cup {q[2] : q \in {d \in frame[r].pkgs : d[1] = b}}

\* Codes other transactions have marked and not committed.
LockedCodes(r) == UNION {frame[m].codes : m \in Others(r)}

-----------------------------------------------------------------------------
\* The rows the UPDATE for one record of the answer changes.
Awaited(i) == {b \in DOMAIN batch : /\ batch[b].status \in OpenStatus
                                    /\ i \in batch[b].items \ batch[b].matched}

\* Codes inserted by a reannouncement that has not committed yet.
Uncommitted(i) == {m \in Requests : "batch" \in frame[m].wrote /\ i \in call[m].items}

CodeBlockers(r, i) ==
    Uncommitted(i) \cup {m \in Others(r) : \E b \in Awaited(i) : <<b, i>> \in frame[m].codes}

\* UPDATE TenderRecycleCodes for one record not met before in this answer.
MatchCode(r, i) ==
    /\ pc[r] = "codes"
    /\ i \in call[r].items \ frame[r].seen
    /\ CodeBlockers(r, i) = {}
    /\ frame' = [frame EXCEPT ![r].seen = @ \cup {i},
                              ![r].codes = @ \cup (Awaited(i) \X {i})]
    /\ UNCHANGED <<tables, call, pc, locks>>

\* All records are done.  Nothing recognised: return, the transaction rolls back.
EndOfRecords(r) ==
    /\ pc[r] = "codes" /\ frame[r].seen = call[r].items
    /\ IF frame[r].codes = {}
       THEN Return(r)
       ELSE Goto(r, "codes", "packages") /\ UNCHANGED <<call, frame, locks>>
    /\ UNCHANGED tables

-----------------------------------------------------------------------------
WaitingPackages == {w \in (DOMAIN batch) \X Packages :
                       w[2] \in PackagesOf(w[1]) \ batch[w[1]].pkgs}

\* Plausible slips: EXISTS a marked code; READPAST or a snapshot read; every
\* package of the batch.
AnyCodeMatched(r, w) == CodesOf(w[1], w[2]) \cap MatchedBy(r, w[1]) # {}

AllCodesMatched(r, w) == CodesOf(w[1], w[2]) \subseteq MatchedBy(r, w[1])

\* Whether the package is complete depends on a code another matcher has changed.
Undecided(r, w) ==
    LET unmarked == CodesOf(w[1], w[2]) \ MatchedBy(r, w[1])
    IN  unmarked # {} /\ \A i \in unmarked : <<w[1], i>> \in LockedCodes(r)

ReadPastLocks(r) == {}

PackageBlockers(r) ==
    {m \in Others(r) : \E w \in WaitingPackages :
        \/ w \in frame[m].pkgs
        \/ Undecided(r, w) /\ \E i \in CodesOf(w[1], w[2]) : <<w[1], i>> \in frame[m].codes}

\* UPDATE TenderRecyclePackages: every waiting package without an unmarked code.
MatchPackages(r) ==
    /\ PackageBlockers(r) = {}
    /\ Goto(r, "packages", "batches")
    /\ frame' = [frame EXCEPT ![r].pkgs = {w \in WaitingPackages : AllCodesMatched(r, w)}]
    /\ UNCHANGED <<tables, call, locks>>

-----------------------------------------------------------------------------
BatchBlockers(r) ==
    {m \in Others(r) : \E b \in DOMAIN batch :
        /\ batch[b].status = "WaitingExternal"
        /\ \/ b \in frame[m].batches
           \/ PackagesBy(r, b) = {} /\ \E w \in frame[m].pkgs : w[1] = b}

SomePackageMatched(r, b) == PackagesBy(r, b) # {}

\* UPDATE TenderRecycleBatch: waiting batches with a matched package.
MatchBatches(r) ==
    /\ BatchBlockers(r) = {}
    /\ Goto(r, "batches", "matchCommit")
    /\ frame' = [frame EXCEPT ![r].batches =
                    {b \in DOMAIN batch : /\ batch[b].status = "WaitingExternal"
                                          /\ SomePackageMatched(r, b)}]
    /\ UNCHANGED <<tables, call, locks>>

\* tx.Commit.
CommitMatch(r) ==
    /\ pc[r] = "matchCommit"
    /\ batch' = [b \in DOMAIN batch |->
                    [batch[b] EXCEPT !.matched = MatchedBy(r, b),
                                     !.pkgs = PackagesBy(r, b),
                                     !.status = IF b \in frame[r].batches THEN "Matching" ELSE @]]
    /\ Done(r)
    /\ UNCHANGED <<tender, geree, versionItems, outbox, notices>>

-----------------------------------------------------------------------------
\* The transactions r waits for at its statement.
Blockers(r) ==
    CASE pc[r] = "codes"    -> UNION {CodeBlockers(r, i) : i \in call[r].items \ frame[r].seen}
      [] pc[r] = "packages" -> PackageBlockers(r)
      [] pc[r] = "batches"  -> BatchBlockers(r)
      [] OTHER              -> {}

\* r is on a cycle of waiting transactions.
Deadlocked(r) ==
    \E cycle \in SUBSET Requests :
        /\ r \in cycle
        /\ \A m \in cycle : Matching(m) /\ Blockers(m) \cap cycle # {}
        /\ \A m \in cycle : \E n \in cycle : m \in Blockers(n)

\* SQL Server ends one of them: its statement fails and the handler returns.
DeadlockVictim(r) ==
    /\ Deadlocked(r)
    /\ Return(r) /\ UNCHANGED tables

MatchStep(r) ==
    /\ Matching(r)
    /\ \/ \E i \in call[r].items : MatchCode(r, i)
       \/ EndOfRecords(r)
       \/ MatchPackages(r)
       \/ MatchBatches(r)
       \/ CommitMatch(r)
       \/ DeadlockVictim(r)
=============================================================================
