------------------------------ MODULE Documents ------------------------------
(***************************************************************************)
(* Documents and their files: UploadFiles.go, DeleteFiles.go.  A document  *)
(* and each of its files are inserted one by one, and each INSERT commits  *)
(* by itself.                                                              *)
(***************************************************************************)
EXTENDS RecordStore

CONSTANTS
    Files,        \* files of a form, each a part of its own
    OldDocuments  \* documents uploaded before

ASSUME DocumentAssumption ==
    \A c \in Calls : c.kind = "Upload" =>
        /\ c.files \in Seq(Files)
        /\ \A i, j \in DOMAIN c.files : c.files[i] = c.files[j] => i = j

VARIABLES
    visible,  \* the column Visible of each document; one is named after its upload
    file,     \* the rows of DocUndsen, DocHavsralt and DocNemelt
    unsaved   \* the files an upload has not inserted yet, in their order

documentVars == <<visible, file, unsaved>>

DocumentStep == {"document", "saveFile", "hide"}

InitDocuments ==
    /\ visible = [d \in OldDocuments |-> TRUE]
    /\ file = {}
    /\ unsaved = [r \in Requests |-> IF call[r].kind = "Upload" THEN call[r].files ELSE <<>>]

\* The next INSERT, or the answer if there is none left.
SaveOrReturn(r, left) ==
    IF left = <<>> THEN Return(r, "ok") ELSE Goto(r, "saveFile")

InsertDocument(r) ==
    /\ pc[r] = "document"
    /\ visible' = [d \in DOMAIN visible \cup {r} |-> d = r \/ visible[d]]
    /\ SaveOrReturn(r, unsaved[r])
    /\ UNCHANGED <<file, unsaved>>

SaveFile(r) ==
    /\ pc[r] = "saveFile"
    /\ file' = file \cup {<<r, Head(unsaved[r])>>}
    /\ unsaved' = [unsaved EXCEPT ![r] = Tail(@)]
    /\ SaveOrReturn(r, Tail(unsaved[r]))
    /\ UNCHANGED visible

\* A document is never removed, only hidden, also one whose files are being saved.
HideDocument(r) ==
    /\ pc[r] = "hide"
    /\ \E d \in OldDocuments \cup Requests :
          \/ /\ d \in DOMAIN visible
             /\ visible' = [visible EXCEPT ![d] = FALSE]
             /\ Return(r, "ok")
          \/ /\ d \notin DOMAIN visible
             /\ visible' = visible /\ Return(r, "error")
    /\ UNCHANGED <<file, unsaved>>

SkipFailed(r) ==
    IF pc[r] = "saveFile"
    THEN SaveOrReturn(r, Tail(unsaved[r])) /\ unsaved' = [unsaved EXCEPT ![r] = Tail(@)]
    ELSE Return(r, "error") /\ UNCHANGED unsaved

\* A failed INSERT ends the upload; what was inserted stays.
AfterFailure(r) == Return(r, "error") /\ UNCHANGED unsaved

FailDocument(r) ==
    /\ pc[r] \in DocumentStep
    /\ AfterFailure(r)
    /\ UNCHANGED <<visible, file>>

DocumentsStep(r) == InsertDocument(r) \/ SaveFile(r) \/ HideDocument(r)

-----------------------------------------------------------------------------
TypeDocuments == /\ visible \in [DOMAIN visible -> BOOLEAN]
                 /\ DOMAIN visible \subseteq OldDocuments \cup Requests
                 /\ \A f \in file : f = <<f[1], f[2]>> /\ f[1] \in DOMAIN visible
                 /\ unsaved \in [Requests -> Seq(Files)]

\* An upload that is told all is well has all its files; one that is not told so still has
\* its document and the first of its files.
AnsweredWhole ==
    \A r \in Requests : call[r].kind = "Upload" =>
        LET saved == {i \in DOMAIN call[r].files : <<r, call[r].files[i]>> \in file} IN
        /\ \E n \in 0..Len(call[r].files) : saved = 1..n
        /\ answer[r] = "ok" => saved = DOMAIN call[r].files
=============================================================================
