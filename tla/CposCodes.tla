------------------------------ MODULE CposCodes ------------------------------
(***************************************************************************)
(* The units of measurement of CPOS codes: PutCposCodeMeasurement.go and   *)
(* PutCposCodeMeasurements.go, which write one code and many in one        *)
(* transaction and then read what they wrote for the answer.  Each code is *)
(* looked up WITH (UPDLOCK, HOLDLOCK): the database locks the code in the  *)
(* index, or, if it is not there, the next one, which keeps others from    *)
(* inserting any code in between.                                          *)
(***************************************************************************)
EXTENDS RecordStore, FiniteSets

CONSTANTS
    Codes,       \* codes in the order of their text, as numbers
    Values,      \* name, marks and unit of a code
    Last,        \* the end of the index
    CodeTables   \* tables that may precede the behaviour

Items == Seq([code : Codes, value : Values])

ASSUME CodesAssumption ==
    /\ Codes \subseteq Nat /\ Last \in Nat /\ \A c \in Codes : c < Last
    /\ \A t \in CodeTables : DOMAIN t \subseteq Codes /\ t \in [DOMAIN t -> Values]
    /\ \A c \in Calls : c.kind = "Put" => c.items \in Items \ {<<>>}

VARIABLES
    code,     \* the committed rows
    keyLock,  \* who holds the lock of a key of the index
    todo,     \* the items a request has not written yet, by code
    wrote     \* the rows its transaction has written

codeVars == <<code, keyLock, todo, wrote>>

Keys      == Codes \cup {Last}
Empty     == [c \in {} |-> None]
Writing   == {"lookup", "write", "commitCodes"}
CodeStep  == Writing \cup {"readBack"}

\* An item given twice counts as it was given last.
FirstByCode(items) ==
    [c \in {items[i].code : i \in DOMAIN items} |->
        items[CHOOSE i \in DOMAIN items : /\ items[i].code = c
                                          /\ \A j \in DOMAIN items : items[j].code = c => i <= j].value]
ItemsByCode(items) ==
    [c \in {items[i].code : i \in DOMAIN items} |->
        items[CHOOSE i \in DOMAIN items : /\ items[i].code = c
                                          /\ \A j \in DOMAIN items : items[j].code = c => j <= i].value]

InitCodes ==
    /\ code \in CodeTables
    /\ keyLock = [k \in Keys |-> None]
    /\ todo = [r \in Requests |-> IF call[r].kind = "Put" THEN ItemsByCode(call[r].items) ELSE Empty]
    /\ wrote = [r \in Requests |-> Empty]

\* The next code of a request: the order of a map in Go, and the order after the sort.
Unsorted(r, c) == c \in DOMAIN todo[r]
Sorted(r, c)   == c \in DOMAIN todo[r] /\ \A d \in DOMAIN todo[r] : c <= d

\* The keys of the index; rows that are not committed are there too.
Present == DOMAIN code \cup UNION {DOMAIN wrote[r] : r \in Requests}

\* The key at which a lookup of code c ends.
IsNext(k, c) == /\ k \in Present \cup {Last} /\ c <= k
                /\ \A j \in Present : ~(c <= j /\ j < k)

Looks(r, c, k) == pc[r] = "lookup" /\ Sorted(r, c) /\ IsNext(k, c)

Lookup(r) ==
    \E c \in Codes, k \in Keys :
        /\ Looks(r, c, k)
        /\ keyLock[k] \in {None, r}
        /\ keyLock' = [keyLock EXCEPT ![k] = r]
        /\ Goto(r, "write")
        /\ UNCHANGED <<code, todo, wrote>>

\* The rows of a table once others have been written over them.
Over(table, rows) == [c \in DOMAIN table \cup DOMAIN rows |->
                         IF c \in DOMAIN rows THEN rows[c] ELSE table[c]]

\* INSERT or UPDATE, by what the lookup found.
Write(r) ==
    /\ pc[r] = "write"
    /\ \E c \in Codes :
          /\ Sorted(r, c)
          /\ wrote' = [wrote EXCEPT ![r] = Over(@, [d \in {c} |-> todo[r][c]])]
          /\ keyLock' = [keyLock EXCEPT ![c] = r]
          /\ todo' = [todo EXCEPT ![r] = [d \in DOMAIN @ \ {c} |-> @[d]]]
          /\ Goto(r, IF DOMAIN todo[r] = {c} THEN "commitCodes" ELSE "lookup")
    /\ UNCHANGED code

\* The end of a transaction, by commit or rollback, frees its locks.
EndTransaction(r) ==
    /\ keyLock' = [k \in Keys |-> IF keyLock[k] = r THEN None ELSE keyLock[k]]
    /\ todo' = [todo EXCEPT ![r] = Empty]
    /\ wrote' = [wrote EXCEPT ![r] = Empty]

CommitCodes(r) ==
    /\ pc[r] = "commitCodes"
    /\ code' = Over(code, wrote[r])
    /\ EndTransaction(r)
    /\ Goto(r, "readBack")

\* The rows are read for the answer; the read waits for rows others have not committed.
ReadBack(r) ==
    /\ pc[r] = "readBack"
    /\ \A q \in Requests, i \in DOMAIN call[r].items : call[r].items[i].code \notin DOMAIN wrote[q]
    /\ Return(r, "ok")
    /\ UNCHANGED codeVars

\* A statement fails, or the connection drops.  Before the COMMIT nothing is stored; after
\* it the client is told an error although the rows are saved.
FailCodes(r) ==
    /\ pc[r] \in CodeStep
    /\ EndTransaction(r)
    /\ Return(r, "error")
    /\ UNCHANGED code

PutStep(r) == Lookup(r) \/ Write(r) \/ CommitCodes(r) \/ ReadBack(r)

-----------------------------------------------------------------------------
TypeCodes ==
    /\ code \in [DOMAIN code -> Values] /\ DOMAIN code \subseteq Codes
    /\ keyLock \in [Keys -> Requests \cup {None}]
    /\ DOMAIN todo = Requests /\ DOMAIN wrote = Requests
    /\ \A r \in Requests : /\ todo[r] \in [DOMAIN todo[r] -> Values] /\ DOMAIN todo[r] \subseteq Codes
                           /\ wrote[r] \in [DOMAIN wrote[r] -> Values] /\ DOMAIN wrote[r] \subseteq Codes

\* The code has no handling of deadlocks; it has the sort.  A request that waits for a key
\* holds only smaller ones, so requests cannot wait for each other in a circle.
WaitsUpward ==
    \A r \in Requests, c \in Codes, k \in Keys :
        Looks(r, c, k) /\ keyLock[k] \notin {None, r}
            => \A h \in Keys : keyLock[h] = r => h < k
=============================================================================
