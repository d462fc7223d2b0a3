--------------------------- MODULE TenderLifecycle ---------------------------
(***************************************************************************)
(* The life cycle of tenders: every request that changes a tender, its     *)
(* contracts or its recycle batches, interleaved statement by statement.   *)
(***************************************************************************)
EXTENDS Reannounce, RecycleMatcher, TenderAdmin

\* Any statement may fail, and the process may stop: connections drop, locks and
\* open transactions with them.
Abort(r) ==
    /\ pc[r] # "done"
    /\ Done(r) /\ UNCHANGED tables

Step(r) ==
    \/ ReannounceStep(r) \/ MatchStep(r)
    \/ PostTenderStep(r) \/ UpdateStep(r) \/ DeleteStep(r) \/ GereeStep(r)

Next == \E r \in Requests : Step(r) \/ Abort(r)

Spec == Init /\ [][Next]_vars

\* A statement that can run is run: the database serves every connection.
Fairness == \A r \in Requests : WF_vars(Step(r))

FairSpec == Spec /\ Fairness

-----------------------------------------------------------------------------
\* Where a reannouncement stands in its transaction.
AfterLock  == {"read", "count", "insert", "outbox", "archive", "commit"}
AfterRead  == AfterLock \ {"read"}
AfterCount == AfterRead \ {"count"}

\* What a transaction has checked under its locks stays true until it ends: the row of
\* the tender (ReannounceTender.go:129, 141-152) and its open batches (lines 158-173) at
\* every later statement, the row of DeleteTender.go:90 at its commit.  The contracts that
\* ReannounceTender.go:128 reads with the row are not among it, as nothing locks Geree.
Protected(r) ==
    /\ pc[r] \in AfterLock => Reannouncing(r) /\ appLock[Source(r)] = r
    /\ pc[r] \in AfterRead => rowLock[Source(r)] = r /\ Reannounceable(Source(r))
    /\ pc[r] \in AfterCount => OpenBatches(Source(r)) = {}
    /\ pc[r] = "deleteCommit" => rowLock[call[r].tender] = r /\ Live(call[r].tender)

ReadStaysTrue == \A r \in Requests : Protected(r)

\* At most one batch of a tender waits for the external system: the check at
\* ReannounceTender.go:158 and the locks around it.
OneOpenBatch == \A t \in Tenders : \A a, b \in OpenBatches(t) : a = b

\* A tender that waits for the external system is out of the current tenders, and
\* something will bring it back: an open batch whose payload is in the outbox.
WaitingHasBatch ==
    \A t \in DOMAIN tender : tender[t].lifecycle = "WaitingExternal" =>
        /\ ~tender[t].isCurrent
        /\ OpenBatches(t) \cap outbox # {}

\* Batches, results and payloads are recorded together or not at all, whatever
\* statement of the reannouncement fails.
AllOrNothing ==
    /\ outbox = DOMAIN batch
    /\ versionItems = UNION {{batch[b].tender} \X batch[b].items : b \in DOMAIN batch}

\* Between transactions a package is matched exactly when all its codes are, and a
\* batch has left WaitingExternal exactly when a package is matched, however the
\* answers of the external system arrive.
StatusFollowsCodes ==
    \A b \in DOMAIN batch :
        /\ batch[b].pkgs = {p \in PackagesOf(b) : CodesOf(b, p) \subseteq batch[b].matched}
        /\ batch[b].status = "Matching" <=> batch[b].pkgs # {}

\* A reannouncement takes effect on a tender whose row is, at the commit, still what the
\* handler read: live, current, active, not suspended, and without an open batch.
ReannouncedFresh ==
    [][\A b \in DOMAIN batch' \ DOMAIN batch :
          Reannounceable(batch'[b].tender) /\ OpenBatches(batch'[b].tender) = {}]_vars

\* Nothing recognised is forgotten and nothing archived comes back: marks and
\* statuses only go forward.
Forward(b) ==
    /\ batch[b].matched \subseteq batch'[b].matched
    /\ batch[b].pkgs \subseteq batch'[b].pkgs
    /\ batch[b].status = "Matching" => batch'[b].status = "Matching"

OnlyForward ==
    [][/\ \A b \in DOMAIN batch : b \in DOMAIN batch' /\ Forward(b)
       /\ \A t \in DOMAIN tender : /\ t \in DOMAIN tender'
                                   /\ tender'[t].isCurrent => tender[t].isCurrent
                                   /\ tender[t].isDeleted => tender'[t].isDeleted]_vars

\* No request waits for ever: neither for the locks of a request that returned nor
\* in a cycle of matchers.
RequestsEnd == \A r \in Requests : <>(pc[r] = "done")

\* What the handlers answer: a tender with a contract cannot be deleted (DeleteTender,
\* line 79), and no contract can be made for a tender that is suspended (PostGeree, line
\* 110) or, by the same count, deleted.
ContractsStand ==
    [][\A g \in geree' : /\ tender'[g[2]].isDeleted => tender[g[2]].isDeleted
                         /\ g \notin geree => Live(g[2]) /\ ~tender[g[2]].suspended]_vars

\* What the handler answers: a tender with a contract cannot be announced again
\* (ReannounceTender, line 154).
NoContractReannounced ==
    [][\A b \in DOMAIN batch' \ DOMAIN batch : ~Contracted(batch'[b].tender)]_vars

\* Committed tables change as if every handler ran in one step.
Versions == INSTANCE TenderVersions WITH
                BatchIds <- Requests,
                Legal <- {[t \in DOMAIN l |-> Migrated(l, t)] : l \in Legacy}

KeepsPromise == Versions!Promise
=============================================================================
