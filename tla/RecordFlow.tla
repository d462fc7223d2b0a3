----------------------------- MODULE RecordFlow -----------------------------
(***************************************************************************)
(* The handlers of the smaller tables, interleaved: CPOS codes and the     *)
(* cache of their list, teams and boards, documents.                       *)
(***************************************************************************)
EXTENDS CposCodes, CposCache, TeamLists, Documents

vars == <<requestVars, codeVars, cacheVars, listVars, documentVars>>

Init == InitRequests /\ InitCodes /\ InitCache /\ InitLists /\ InitDocuments

Step(r) ==
    \/ PutStep(r) /\ UNCHANGED <<cacheVars, listVars, documentVars>>
    \/ CodesStep(r) /\ UNCHANGED <<codeVars, listVars, documentVars>>
    \/ PostStep(r) /\ UNCHANGED <<codeVars, cacheVars, documentVars>>
    \/ DocumentsStep(r) /\ UNCHANGED <<codeVars, cacheVars, listVars>>

\* A statement fails, or the connection drops.
Fail(r) ==
    \/ FailCodes(r) /\ UNCHANGED <<cacheVars, listVars, documentVars>>
    \/ FailList(r) /\ UNCHANGED <<codeVars, cacheVars, documentVars>>
    \/ FailDocument(r) /\ UNCHANGED <<codeVars, cacheVars, listVars>>

\* What comes from outside: a new list at the service, and time.
World == (Publish \/ TickCache) /\ UNCHANGED <<codeVars, listVars, documentVars>>

Next == World \/ \E r \in Requests : Step(r) \/ Fail(r)

Spec == Init /\ [][Next]_vars

\* The database serves every connection, the service answers or the client gives up.
FairSpec == Spec /\ \A r \in Requests : WF_vars(Step(r))

-----------------------------------------------------------------------------
\* Every variable holds what its table, memory or request may hold.
TypeOK ==
    /\ call \in [Requests -> Calls]
    /\ pc \in [Requests -> CodeStep \cup CacheStep \cup ListStep \cup DocumentStep \cup {"done"}]
    /\ answer \in [Requests -> Answers]
    /\ TypeCodes /\ TypeCache /\ TypeLists /\ TypeDocuments

Given(items, c) == {i \in DOMAIN items : items[i].code = c}

\* The rows of a call are in the table, with the last of the items it gives for a code, and
\* no other row is touched.
Stores(r) ==
    /\ DOMAIN code' = DOMAIN code \cup {c \in Codes : Given(call[r].items, c) # {}}
    /\ \A c \in DOMAIN code' :
          IF Given(call[r].items, c) = {} THEN code'[c] = code[c]
          ELSE \E i \in Given(call[r].items, c) :
                  /\ code'[c] = call[r].items[i].value
                  /\ \A j \in Given(call[r].items, c) : j <= i

\* A call is stored whole and once, whatever others write meanwhile, and before it is
\* answered: with success only if it is stored (PutCposCodeMeasurements.go:179-214).  An
\* error tells nothing: the rows may be saved (PutCposCodeMeasurement.go:188-192).
PutWhole ==
    [][/\ code' # code => \E r \in Requests : pc[r] = "commitCodes" /\ pc'[r] = "readBack"
       /\ \A r \in {r \in Requests : call[r].kind = "Put"} :
             /\ pc[r] # "readBack" /\ pc'[r] = "readBack" => Stores(r)
             /\ answer[r] # "ok" /\ answer'[r] = "ok" => pc[r] = "readBack"
             /\ pc[r] \in {"readBack", "done"} => pc'[r] \in {pc[r], "done"}]_vars

\* No request waits for ever, for a lock, for another request or for the service.
RequestsEnd == \A r \in Requests : <>(pc[r] = "done")
=============================================================================
