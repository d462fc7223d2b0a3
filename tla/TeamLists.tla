------------------------------ MODULE TeamLists ------------------------------
(***************************************************************************)
(* The executive team of a plan and the board of a tender: PostExecTeam.go *)
(* and PostUnelgeeHoroo.go replace a row by a DELETE and an INSERT, each   *)
(* of which commits by itself.                                             *)
(***************************************************************************)
EXTENDS RecordStore

CONSTANT OldRows  \* the rows that precede the behaviour, <<list, None>>

ASSUME ListAssumption == \A x \in OldRows : x = <<x[1], None>>

VARIABLES
    row,  \* the rows, <<list, the request that inserted it>>
    met   \* history: <<a, b>>, a was between its statements when b inserted

listVars == <<row, met>>

ListStep == {"deleteRow", "insertRow"}

InitLists == row = OldRows /\ met = {}

OfOthers(r) == {x \in row : x[1] = call[r].list /\ x[2] # None}
OfList(r)   == {x \in row : x[1] = call[r].list}

DeleteRow(r) ==
    /\ pc[r] = "deleteRow"
    /\ row' = row \ OfList(r)
    /\ Goto(r, "insertRow")
    /\ UNCHANGED met

InsertRow(r) ==
    /\ pc[r] = "insertRow"
    /\ row' = row \cup {<<call[r].list, r>>}
    /\ met' = met \cup {<<q, r>> : q \in {q \in Requests : /\ pc[q] = "insertRow"
                                                        /\ call[q].list = call[r].list}}
    /\ Return(r, "ok")

FailList(r) ==
    /\ pc[r] \in ListStep
    /\ Return(r, "error")
    /\ UNCHANGED listVars

PostStep(r) == DeleteRow(r) \/ InsertRow(r)

-----------------------------------------------------------------------------
TypeLists == /\ \A x \in row : x = <<x[1], x[2]>> /\ x[2] \in Requests \cup {None}
             /\ met \subseteq Requests \X Requests

\* A list has two rows only if two posts were between their statements at once; and one
\* that was posted is gone only while a post is there, or if the INSERT of one failed.
ListedOnce ==
    /\ \A x, y \in row : x[1] = y[1] /\ x # y => <<x[2], y[2]>> \in met \/ <<y[2], x[2]>> \in met
    /\ \A r \in Requests : call[r].kind = "Post" /\ answer[r] = "ok" =>
          \/ OfList(r) # {}
          \/ \E q \in Requests : /\ call[q].kind = "Post" /\ call[q].list = call[r].list
                                 /\ pc[q] = "insertRow" \/ answer[q] = "error"
=============================================================================
