----------------------------- MODULE RecordStore -----------------------------
(***************************************************************************)
(* What the handlers of the smaller tables share: requests, each a process *)
(* that runs one SQL statement or external call per step, and the answers  *)
(* they give.                                                              *)
(***************************************************************************)
EXTENDS Naturals, Sequences

CONSTANTS
    Requests,
    Mixes,     \* sets of calls, each of which requests may ask for together
    None

Calls == UNION Mixes

VARIABLES call, pc,
          answer  \* what the client was told, None as long as it waits

requestVars == <<call, pc, answer>>

Answers == {None, "ok", "error"}

\* The statement each handler begins with.
FirstStep == [Put |-> "lookup", Codes |-> "cache", Post |-> "deleteRow",
              Upload |-> "document", Hide |-> "hide"]

ASSUME RecordAssumption ==
    /\ None \notin Requests /\ None \notin {"ok", "error"}
    /\ \A c \in Calls : c.kind \in DOMAIN FirstStep

Goto(r, step) == /\ pc' = [pc EXCEPT ![r] = step]
                 /\ UNCHANGED <<call, answer>>

Return(r, told) == /\ pc' = [pc EXCEPT ![r] = "done"]
                   /\ answer' = [answer EXCEPT ![r] = told]
                   /\ UNCHANGED call

InitRequests ==
    /\ call \in UNION {[Requests -> m] : m \in Mixes}
    /\ pc = [r \in Requests |-> FirstStep[call[r].kind]]
    /\ answer = [r \in Requests |-> None]
=============================================================================
