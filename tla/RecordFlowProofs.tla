--------------------------- MODULE RecordFlowProofs ---------------------------
(***************************************************************************)
(* What holds of RecordFlow for any requests, codes, lists and files.      *)
(*                                                                         *)
(* Inductive: each table has an invariant of its own, which ties what its  *)
(* handlers have done to the statement they are at.  A handler of one      *)
(* table leaves the others alone.                                          *)
(***************************************************************************)
EXTENDS RecordFlow, WellFoundedInduction, TLAPS

\* The statements of each handler.
StatementsOf == [Put |-> CodeStep, Codes |-> CacheStep, Post |-> ListStep,
                 Upload |-> {"document", "saveFile"}, Hide |-> {"hide"}]

RequestsRight ==
    \A r \in Requests : pc[r] # "done" => pc[r] \in StatementsOf[call[r].kind] /\ answer[r] = None

-----------------------------------------------------------------------------
(* CPOS codes.                                                             *)

\* A key held is in the index for as long as it is held, and up to it no code that is
\* still to be written has a row before it.
Guards(r) ==
    \A k \in Keys : keyLock[k] = r =>
        /\ k = Last \/ k \in DOMAIN code \/ k \in DOMAIN wrote[r]
        /\ \A c \in DOMAIN todo[r] : \A j \in Present : ~(c <= j /\ j < k)

\* At its write a request holds the key its lookup ended at.
Ready(r) ==
    pc[r] = "write" => /\ DOMAIN todo[r] # {}
                       /\ \A c \in DOMAIN todo[r] : Sorted(r, c) =>
                             \E k \in Keys : keyLock[k] = r /\ c <= k

\* What is written and what is left make up the call.
ItemsOf(r) == ItemsByCode(call[r].items)

Split(r) ==
    /\ DOMAIN ItemsOf(r) = DOMAIN todo[r] \cup DOMAIN wrote[r]
    /\ \A c \in DOMAIN todo[r] : todo[r][c] = ItemsOf(r)[c]
    /\ \A c \in DOMAIN wrote[r] : wrote[r][c] = ItemsOf(r)[c]

CodesRight ==
    \A r \in Requests :
        /\ Guards(r) /\ Ready(r)
        /\ \A c \in DOMAIN wrote[r] : keyLock[c] = r
        /\ pc[r] \in Writing => Split(r)
        /\ pc[r] = "commitCodes" => DOMAIN todo[r] = {}

-----------------------------------------------------------------------------
(* The cache of their list.                                                *)

\* An answer was the present list when it was asked for or later, and is stored in time.
FetchRight(r) ==
    /\ pc[r] = "cache" => fetch[r].tries = 0
    /\ pc[r] \in {"fetch", "store"} => fetch[r].since <= now /\ now <= fetch[r].since + Patience
    /\ pc[r] = "store" =>
          /\ fetch[r].edition # 0
          /\ fetch[r].edition < edition => fetch[r].since <= replaced[fetch[r].edition]

\* What is stored expires half an hour after it was stored.
StoreRight ==
    cache.edition # 0 =>
        IF cache.edition < edition THEN cache.expires <= replaced[cache.edition] + Life + Patience
                                   ELSE cache.expires <= now + Life

CacheRight == StoreRight /\ \A r \in Requests : FetchRight(r)

-----------------------------------------------------------------------------
(* Teams and boards.                                                       *)

\* Between its two statements a post meets every row of its list.
Meets(r) ==
    pc[r] = "insertRow" => \A x \in OfList(r) : x[2] # None /\ <<r, x[2]>> \in met

ListsRight == ListedOnce /\ \A r \in Requests : Meets(r)

-----------------------------------------------------------------------------
(* Documents.                                                              *)

\* The first n files are saved.
Saved(r, n) ==
    /\ n \in 0..Len(call[r].files)
    /\ \A i \in DOMAIN call[r].files : <<r, call[r].files[i]>> \in file <=> i <= n

Left(r, n) ==
    /\ unsaved[r] \in Seq(Files) /\ Len(unsaved[r]) = Len(call[r].files) - n
    /\ \A i \in 1..Len(unsaved[r]) : unsaved[r][i] = call[r].files[n + i]

UploadRight(r) ==
    /\ pc[r] = "document" => Saved(r, 0) /\ Left(r, 0)
    /\ pc[r] = "saveFile" => /\ r \in DOMAIN visible /\ unsaved[r] # <<>>
                             /\ \E n \in 0..Len(call[r].files) : Saved(r, n) /\ Left(r, n)
    /\ pc[r] = "done" => \E n \in 0..Len(call[r].files) : Saved(r, n) /\ (answer[r] = "ok" => n = Len(call[r].files))

DocumentsRight == \A r \in Requests : call[r].kind = "Upload" => UploadRight(r)

IInv ==
    /\ TypeOK /\ RequestsRight
    /\ CodesRight /\ CacheRight /\ ListsRight /\ DocumentsRight

-----------------------------------------------------------------------------
(* Requests.  A step of a handler moves one request among its statements.  *)

LEMMA CallTyped ==
    ASSUME TypeOK, NEW r \in Requests
    PROVE  /\ call[r] \in Calls
           /\ call[r].kind \in {"Put", "Codes", "Post", "Upload", "Hide"}
<1>1. call[r] \in Calls
    BY DEF TypeOK
<1> QED
    BY <1>1, RecordAssumption DEF FirstStep

LEMMA KindByStatement ==
    ASSUME TypeOK, RequestsRight, NEW r \in Requests
    PROVE  /\ pc[r] \in CodeStep => call[r].kind = "Put"
           /\ pc[r] \in CacheStep => call[r].kind = "Codes"
           /\ pc[r] \in ListStep => call[r].kind = "Post"
           /\ pc[r] \in {"document", "saveFile"} => call[r].kind = "Upload"
           /\ pc[r] = "hide" => call[r].kind = "Hide"
           /\ pc[r] # "done" => pc[r] \in StatementsOf[call[r].kind] /\ answer[r] = None
<1>1. pc[r] # "done" => pc[r] \in StatementsOf[call[r].kind] /\ answer[r] = None
    BY DEF RequestsRight
<1>2. call[r].kind \in {"Put", "Codes", "Post", "Upload", "Hide"}
    BY CallTyped
<1> QED
    BY <1>1, <1>2 DEF StatementsOf, CodeStep, Writing, CacheStep, ListStep

RequestsTyped ==
    /\ call \in [Requests -> Calls]
    /\ pc \in [Requests -> CodeStep \cup CacheStep \cup ListStep \cup DocumentStep \cup {"done"}]
    /\ answer \in [Requests -> Answers]

\* r goes on among the statements S, or returns.
Moves(r, S) ==
    /\ call' = call
    /\ \A q \in Requests \ {r} : pc'[q] = pc[q] /\ answer'[q] = answer[q]
    /\ pc[r] \in S
    /\ \/ pc'[r] \in S /\ answer'[r] = answer[r]
       \/ pc'[r] = "done" /\ answer'[r] \in {"ok", "error"}

LEMMA GotoMoves ==
    ASSUME TypeOK, NEW r \in Requests, NEW S, pc[r] \in S, NEW to \in S, Goto(r, to),
           S \subseteq CodeStep \cup CacheStep \cup ListStep \cup DocumentStep
    PROVE  Moves(r, S) /\ RequestsTyped' /\ pc'[r] = to /\ answer'[r] = answer[r]
BY DEF TypeOK, Goto, Moves, RequestsTyped

LEMMA ReturnMoves ==
    ASSUME TypeOK, NEW r \in Requests, NEW S, pc[r] \in S, NEW told \in {"ok", "error"}, Return(r, told)
    PROVE  Moves(r, S) /\ RequestsTyped' /\ pc'[r] = "done" /\ answer'[r] = told
BY DEF TypeOK, Return, Moves, RequestsTyped, Answers

LEMMA MovesRight ==
    ASSUME TypeOK, RequestsRight, NEW r \in Requests, NEW S, Moves(r, S),
           S \subseteq StatementsOf[call[r].kind], "done" \notin S
    PROVE  RequestsRight'
<1>1. answer[r] = None
    BY DEF RequestsRight, Moves
<1>2. pc'[r] # "done" => pc'[r] \in StatementsOf[call[r].kind] /\ answer'[r] = None
    BY <1>1 DEF Moves
<1> QED
    BY <1>2 DEF RequestsRight, Moves

-----------------------------------------------------------------------------
(* The measurements of CPOS codes.                                         *)

LEMMA CodesTyped ==
    ASSUME TypeOK
    PROVE  /\ Codes \subseteq Nat /\ Keys \subseteq Nat /\ \A k \in Keys : k <= Last
           /\ \A c \in Codes : c < Last
           /\ \A k \in Keys : k # Last => k \in Codes
           /\ DOMAIN code \subseteq Codes
           /\ \A r \in Requests : DOMAIN todo[r] \subseteq Codes /\ DOMAIN wrote[r] \subseteq Codes
           /\ Present \subseteq Codes
<1>1. Codes \subseteq Nat /\ Last \in Nat /\ \A c \in Codes : c < Last
    BY CodesAssumption
<1>2. Keys \subseteq Nat /\ \A k \in Keys : k <= Last
    BY <1>1 DEF Keys
<1>3. \A k \in Keys : k # Last => k \in Codes
    BY DEF Keys
<1>4. DOMAIN code \subseteq Codes /\ \A r \in Requests : DOMAIN todo[r] \subseteq Codes /\ DOMAIN wrote[r] \subseteq Codes
    BY DEF TypeOK, TypeCodes
<1>5. Present \subseteq Codes
    BY <1>4 DEF Present
<1> QED
    BY <1>1, <1>2, <1>3, <1>4, <1>5

LEMMA SameItems ==
    ASSUME call' = call, NEW r
    PROVE  ItemsOf(r)' = ItemsOf(r)
BY DEF ItemsOf, ItemsByCode

\* Steps that leave the codes alone and move no request into their handler.
LEMMA CodesKept ==
    ASSUME CodesRight, UNCHANGED codeVars, call' = call,
           \A q \in Requests : pc'[q] = pc[q] \/ pc'[q] \notin CodeStep
    PROVE  CodesRight'
<1>1. /\ code' = code /\ keyLock' = keyLock /\ todo' = todo /\ wrote' = wrote
      /\ Present' = Present
    BY DEF codeVars, Present
<1> SUFFICES ASSUME NEW q \in Requests
             PROVE  (/\ Guards(q) /\ Ready(q)
                     /\ \A c \in DOMAIN wrote[q] : keyLock[c] = q
                     /\ pc[q] \in Writing => Split(q)
                     /\ pc[q] = "commitCodes" => DOMAIN todo[q] = {})'
    BY DEF CodesRight
<1>2. Guards(q)'
    BY <1>1 DEF CodesRight, Guards
<1>3. Ready(q)'
    <2>1. \A c : Sorted(q, c)' <=> Sorted(q, c)
        BY <1>1 DEF Sorted
    <2>2. pc'[q] = "write" => pc[q] = "write"
        BY DEF CodeStep, Writing
    <2>3. Ready(q)
        BY DEF CodesRight
    <2> QED
        BY <1>1, <2>1, <2>2, <2>3 DEF Ready
<1>4. ASSUME pc'[q] \in Writing PROVE Split(q)'
    <2>1. Split(q) /\ ItemsOf(q)' = ItemsOf(q)
        BY <1>4, SameItems DEF CodesRight, CodeStep
    <2> QED
        BY <1>1, <2>1 DEF Split
<1>5. pc'[q] = "commitCodes" => DOMAIN todo'[q] = {}
    BY <1>1 DEF CodesRight, CodeStep, Writing
<1>6. \A c \in DOMAIN wrote'[q] : keyLock'[c] = q
    BY <1>1 DEF CodesRight
<1> QED
    BY <1>2, <1>3, <1>4, <1>5, <1>6

LEMMA LookupRight ==
    ASSUME TypeOK, CodesRight, NEW r \in Requests, Lookup(r)
    PROVE  /\ CodesRight' /\ TypeCodes' /\ RequestsTyped' /\ Moves(r, CodeStep)
<1>1. PICK c \in Codes, k \in Keys : /\ Looks(r, c, k) /\ keyLock[k] \in {None, r}
                                     /\ keyLock' = [keyLock EXCEPT ![k] = r]
    BY DEF Lookup
<1>2. pc[r] = "lookup" /\ Goto(r, "write") /\ code' = code /\ todo' = todo /\ wrote' = wrote
    BY <1>1 DEF Lookup, Looks
<1>3. Moves(r, CodeStep) /\ RequestsTyped' /\ pc'[r] = "write"
    BY <1>2, GotoMoves DEF CodeStep, Writing
<1>4. Present' = Present
    BY <1>2 DEF Present
<1>5. c \in DOMAIN todo[r] /\ (\A d \in DOMAIN todo[r] : c <= d)
      /\ k \in Present \cup {Last} /\ c <= k /\ \A j \in Present : ~(c <= j /\ j < k)
    BY <1>1 DEF Looks, Sorted, IsNext
<1>6. keyLock'[k] = r /\ (\A h \in Keys \ {k} : keyLock'[h] = keyLock[h]) /\ None \notin Requests
    BY <1>1, RecordAssumption DEF TypeOK, TypeCodes
<1>7. ASSUME NEW q \in Requests, NEW d \in DOMAIN wrote[q] PROVE keyLock'[d] = q
    <2>1. keyLock[d] = q /\ d \in Keys
        BY CodesTyped DEF CodesRight, Keys
    <2> QED
        BY <1>1, <1>6, <2>1
<1>8. k = Last \/ k \in DOMAIN code \/ k \in DOMAIN wrote[r]
    <2>1. ASSUME NEW q \in Requests, k \in DOMAIN wrote[q] PROVE q = r
        BY <1>6, <1>7, <2>1
    <2> QED
        BY <1>5, <2>1 DEF Present
<1>9. ASSUME NEW d \in DOMAIN todo[r], NEW j \in Present PROVE ~(d <= j /\ j < k)
    BY <1>5, CodesTyped
<1>10. ASSUME NEW q \in Requests PROVE Guards(q)'
    <2> SUFFICES ASSUME NEW h \in Keys, keyLock'[h] = q
                 PROVE  /\ h = Last \/ h \in DOMAIN code \/ h \in DOMAIN wrote[q]
                        /\ \A d \in DOMAIN todo[q] : \A j \in Present : ~(d <= j /\ j < h)
        BY <1>2, <1>4 DEF Guards
    <2>1. CASE h = k
        BY <1>6, <1>8, <1>9, <2>1
    <2>2. CASE h # k
        BY <1>6, <2>2 DEF CodesRight, Guards
    <2> QED
        BY <2>1, <2>2
<1>11. ASSUME NEW q \in Requests PROVE Ready(q)'
    <2>1. CASE q = r
        <3>1. \A d \in DOMAIN todo[r] : Sorted(r, d) => d = c
            BY <1>5, CodesTyped DEF Sorted
        <3>2. \A d : Sorted(r, d)' <=> Sorted(r, d)
            BY <1>2 DEF Sorted
        <3> QED
            BY <1>2, <1>5, <1>6, <2>1, <3>1, <3>2 DEF Ready
    <2>2. CASE q # r
        <3>1. pc'[q] = pc[q]
            BY <1>3, <2>2 DEF Moves
        <3>2. \A h \in Keys : keyLock[h] = q => keyLock'[h] = q
            BY <1>1, <1>6, <2>2
        <3>3. \A d : Sorted(q, d)' <=> Sorted(q, d)
            BY <1>2 DEF Sorted
        <3>4. Ready(q)
            BY DEF CodesRight
        <3> QED
            BY <1>2, <3>1, <3>2, <3>3, <3>4 DEF Ready
    <2> QED
        BY <2>1, <2>2
<1>12. ASSUME NEW q \in Requests, pc'[q] \in Writing PROVE Split(q)'
    <2>1. ItemsOf(q)' = ItemsOf(q) /\ pc[q] \in Writing
        BY <1>2, <1>3, <1>12, SameItems DEF Moves, Writing
    <2>2. Split(q)
        BY <2>1 DEF CodesRight
    <2> QED
        BY <1>2, <2>1, <2>2 DEF Split
<1>13. ASSUME NEW q \in Requests, pc'[q] = "commitCodes" PROVE DOMAIN todo'[q] = {}
    BY <1>2, <1>3, <1>13 DEF Moves, CodesRight
<1>14. CodesRight'
    BY <1>2, <1>7, <1>10, <1>11, <1>12, <1>13 DEF CodesRight
<1>15. TypeCodes'
    BY <1>1, <1>2 DEF TypeOK, TypeCodes
<1> QED
    BY <1>3, <1>14, <1>15

LEMMA WriteRight ==
    ASSUME TypeOK, CodesRight, NEW r \in Requests, Write(r)
    PROVE  /\ CodesRight' /\ TypeCodes' /\ RequestsTyped' /\ Moves(r, CodeStep)
<1>1. PICK c \in Codes :
          /\ Sorted(r, c)
          /\ wrote' = [wrote EXCEPT ![r] = Over(@, [d \in {c} |-> todo[r][c]])]
          /\ keyLock' = [keyLock EXCEPT ![c] = r]
          /\ todo' = [todo EXCEPT ![r] = [d \in DOMAIN @ \ {c} |-> @[d]]]
          /\ Goto(r, IF DOMAIN todo[r] = {c} THEN "commitCodes" ELSE "lookup")
    BY DEF Write
<1>2. pc[r] = "write" /\ code' = code
    BY DEF Write
<1>3. /\ Moves(r, CodeStep) /\ RequestsTyped'
      /\ pc'[r] = IF DOMAIN todo[r] = {c} THEN "commitCodes" ELSE "lookup"
    <2>1. (IF DOMAIN todo[r] = {c} THEN "commitCodes" ELSE "lookup") \in CodeStep
        BY DEF CodeStep, Writing
    <2> QED
        BY <1>1, <1>2, <2>1, GotoMoves DEF CodeStep, Writing
<1>4. c \in DOMAIN todo[r] /\ (\A d \in DOMAIN todo[r] : c <= d) /\ c < Last /\ c \in Keys
    BY <1>1, CodesTyped DEF Sorted, Keys
<1>5. /\ keyLock'[c] = r /\ None \notin Requests
      /\ \A h \in Keys \ {c} : keyLock'[h] = keyLock[h]
    <2>1. DOMAIN keyLock = Keys
        BY DEF TypeOK, TypeCodes
    <2> QED
        BY <1>1, <1>4, <2>1, RecordAssumption
<1>18. DOMAIN wrote = Requests /\ DOMAIN todo = Requests
    BY DEF TypeOK, TypeCodes
<1>6. /\ \A q \in Requests \ {r} : todo'[q] = todo[q] /\ wrote'[q] = wrote[q]
      /\ todo'[r] = [d \in DOMAIN todo[r] \ {c} |-> todo[r][d]]
      /\ DOMAIN wrote'[r] = DOMAIN wrote[r] \cup {c}
      /\ \A d \in DOMAIN wrote'[r] : wrote'[r][d] = IF d = c THEN todo[r][c] ELSE wrote[r][d]
    BY <1>1, <1>18 DEF Over
<1>7. Present' = Present \cup {c}
    <2>1. \A q \in Requests : DOMAIN wrote[q] \subseteq DOMAIN wrote'[q] /\ DOMAIN wrote'[q] \subseteq DOMAIN wrote[q] \cup {c}
        BY <1>6
    <2>2. c \in DOMAIN wrote'[r]
        BY <1>6
    <2> QED
        BY <1>2, <2>1, <2>2 DEF Present
<1>8. PICK k \in Keys : keyLock[k] = r /\ c <= k
    BY <1>1, <1>2, <1>4 DEF CodesRight, Ready
<1>9. \A j \in Present : ~(c <= j /\ j < k)
    BY <1>4, <1>8 DEF CodesRight, Guards
<1>k. \A q \in Requests, h \in Keys : keyLock[h] = q /\ h # Last => h \in Present \/ h = Last
    BY DEF CodesRight, Guards, Present
<1>10. keyLock[c] \in {None, r}
    <2> SUFFICES ASSUME NEW q \in Requests \ {r}, keyLock[c] = q PROVE FALSE
        BY <1>4 DEF TypeOK, TypeCodes
    <2>1. c \in Present /\ c # k
        BY <1>4, <1>8, <1>k, CodesTyped
    <2> QED
        BY <1>8, <1>9, <2>1, CodesTyped
<1>11. ASSUME NEW q \in Requests, NEW d \in DOMAIN wrote'[q] PROVE keyLock'[d] = q
    <2>1. CASE q = r /\ d = c
        BY <1>5, <2>1
    <2>2. CASE ~(q = r /\ d = c)
        <3>1. d \in DOMAIN wrote[q]
            BY <1>6, <2>2
        <3>2. keyLock[d] = q /\ d \in Keys
            BY <3>1, CodesTyped DEF CodesRight, Keys
        <3> QED
            BY <1>5, <1>10, <3>2
    <2> QED
        BY <2>1, <2>2
<1>12. ASSUME NEW q \in Requests PROVE Guards(q)'
    <2> SUFFICES ASSUME NEW h \in Keys, keyLock'[h] = q
                 PROVE  /\ h = Last \/ h \in DOMAIN code' \/ h \in DOMAIN wrote'[q]
                        /\ \A d \in DOMAIN todo'[q] : \A j \in Present' : ~(d <= j /\ j < h)
        BY DEF Guards
    <2>1. CASE q = r /\ h = c
        <3>1. \A d \in DOMAIN todo'[r] : c <= d /\ d # c
            BY <1>4, <1>6
        <3>2. \A d \in DOMAIN todo'[r] : \A j \in Present' : ~(d <= j /\ j < c)
            BY <1>4, <1>6, <1>7, <3>1, CodesTyped
        <3> QED
            BY <1>6, <2>1, <3>2
    <2>2. CASE ~(q = r /\ h = c)
        <3>1. keyLock[h] = q
            BY <1>5, <2>2
        <3>2. /\ h = Last \/ h \in DOMAIN code \/ h \in DOMAIN wrote[q]
              /\ \A d \in DOMAIN todo[q] : \A j \in Present : ~(d <= j /\ j < h)
            BY <3>1 DEF CodesRight, Guards
        <3>3. DOMAIN todo'[q] \subseteq DOMAIN todo[q] /\ DOMAIN wrote[q] \subseteq DOMAIN wrote'[q]
            BY <1>6
        <3>4. ASSUME NEW d \in DOMAIN todo'[q] PROVE ~(d <= c /\ c < h)
            <4>1. CASE q = r
                <5>1. c <= d /\ d # c
                    BY <1>4, <1>6, <4>1
                <5> QED
                    BY <1>4, <3>3, <5>1, CodesTyped
            <4>2. CASE q # r
                <5> SUFFICES ASSUME d <= c, c < h PROVE FALSE
                    OBVIOUS
                <5>0. d \in Nat /\ c \in Nat /\ h \in Nat /\ k \in Nat /\ h # k /\ h <= Last /\ k <= Last
                    BY <1>8, <3>1, <3>3, <4>2, CodesTyped
                <5>1. CASE k < h
                    <6>1. k \in Present
                        BY <1>8, <1>k, <5>0, <5>1, CodesTyped
                    <6>2. d <= k
                        BY <1>8, <5>0
                    <6> QED
                        BY <3>2, <3>3, <5>1, <6>1, <6>2
                <5>2. CASE h < k
                    <6>1. h \in Present
                        BY <1>k, <3>1, <5>0, <5>2, CodesTyped
                    <6> QED
                        BY <1>9, <5>0, <5>2, <6>1
                <5> QED
                    BY <5>0, <5>1, <5>2
            <4> QED
                BY <4>1, <4>2
        <3> QED
            BY <1>2, <1>7, <3>2, <3>3, <3>4
    <2> QED
        BY <2>1, <2>2
<1>13. ASSUME NEW q \in Requests PROVE Ready(q)'
    <2>1. CASE q = r
        BY <1>3, <2>1 DEF Ready
    <2>2. CASE q # r
        <3>1. pc'[q] = pc[q] /\ todo'[q] = todo[q]
            BY <1>3, <1>6, <2>2 DEF Moves
        <3>2. \A h \in Keys : keyLock[h] = q => keyLock'[h] = q
            BY <1>5, <1>10, <2>2
        <3>3. \A d : Sorted(q, d)' <=> Sorted(q, d)
            BY <3>1 DEF Sorted
        <3>4. Ready(q)
            BY DEF CodesRight
        <3> QED
            BY <3>1, <3>2, <3>3, <3>4 DEF Ready
    <2> QED
        BY <2>1, <2>2
<1>14. ASSUME NEW q \in Requests, pc'[q] \in Writing PROVE Split(q)'
    <2>1. ItemsOf(q)' = ItemsOf(q) /\ pc[q] \in Writing /\ Split(q)
        BY <1>2, <1>3, <1>14, SameItems DEF Moves, CodesRight, Writing
    <2>2. CASE q = r
        BY <1>4, <1>6, <2>1, <2>2 DEF Split
    <2>3. CASE q # r
        BY <1>6, <2>1, <2>3 DEF Split
    <2> QED
        BY <2>2, <2>3
<1>15. ASSUME NEW q \in Requests, pc'[q] = "commitCodes" PROVE DOMAIN todo'[q] = {}
    BY <1>2, <1>3, <1>6, <1>15 DEF Moves, CodesRight
<1>16. CodesRight'
    BY <1>11, <1>12, <1>13, <1>14, <1>15 DEF CodesRight
<1>17. TypeCodes'
    <2>1. todo[r] \in [DOMAIN todo[r] -> Values] /\ wrote[r] \in [DOMAIN wrote[r] -> Values]
        BY DEF TypeOK, TypeCodes
    <2>2. todo'[r] \in [DOMAIN todo'[r] -> Values]
        BY <1>6, <2>1
    <2>3. wrote'[r] \in [DOMAIN wrote'[r] -> Values]
        <3>1. wrote'[r] = Over(wrote[r], [d \in {c} |-> todo[r][c]])
            BY <1>1, <1>18
        <3>2. todo[r][c] \in Values /\ \A d \in DOMAIN wrote[r] : wrote[r][d] \in Values
            BY <1>4, <2>1
        <3> QED
            BY <3>1, <3>2 DEF Over
    <2>4. DOMAIN todo'[r] \subseteq Codes /\ DOMAIN wrote'[r] \subseteq Codes
        BY <1>6, CodesTyped
    <2>5. keyLock' \in [Keys -> Requests \cup {None}]
        BY <1>1 DEF TypeOK, TypeCodes
    <2>6. code' \in [DOMAIN code' -> Values] /\ DOMAIN code' \subseteq Codes
        BY <1>2 DEF TypeOK, TypeCodes
    <2>7. \A q \in Requests \ {r} :
             /\ todo'[q] \in [DOMAIN todo'[q] -> Values] /\ DOMAIN todo'[q] \subseteq Codes
             /\ wrote'[q] \in [DOMAIN wrote'[q] -> Values] /\ DOMAIN wrote'[q] \subseteq Codes
        BY <1>6 DEF TypeOK, TypeCodes
    <2>8. DOMAIN todo' = Requests /\ DOMAIN wrote' = Requests
        BY <1>1, <1>18
    <2> QED
        BY <2>2, <2>3, <2>4, <2>5, <2>6, <2>7, <2>8 DEF TypeCodes
<1> QED
    BY <1>3, <1>16, <1>17

\* The end of a transaction: its locks are free, its rows are the table's or gone.
LEMMA EndRight ==
    ASSUME TypeOK, CodesRight, NEW r \in Requests, CommitCodes(r) \/ FailCodes(r)
    PROVE  /\ CodesRight' /\ TypeCodes' /\ RequestsTyped' /\ Moves(r, CodeStep)
<1>1. EndTransaction(r) /\ pc[r] \in CodeStep
    BY DEF CommitCodes, FailCodes, CodeStep, Writing
<1>2. /\ Moves(r, CodeStep) /\ RequestsTyped' /\ pc'[r] \notin Writing
    <2>1. CASE CommitCodes(r)
        <3>1. Goto(r, "readBack") /\ "readBack" \in CodeStep /\ "readBack" \notin Writing
            BY <2>1 DEF CommitCodes, CodeStep, Writing
        <3> QED
            BY <1>1, <3>1, GotoMoves
    <2>2. CASE FailCodes(r)
        <3>1. Return(r, "error") /\ "done" \notin Writing
            BY <2>2 DEF FailCodes, Writing
        <3> QED
            BY <1>1, <3>1, ReturnMoves
    <2> QED
        BY <2>1, <2>2
<1>3. code' = code \/ code' = Over(code, wrote[r])
    BY DEF CommitCodes, FailCodes
<1>4. /\ \A q \in Requests \ {r} : todo'[q] = todo[q] /\ wrote'[q] = wrote[q]
      /\ todo'[r] = Empty /\ wrote'[r] = Empty /\ DOMAIN Empty = {}
    BY <1>1 DEF EndTransaction, TypeOK, TypeCodes, Empty
<1>5. \A k \in Keys : /\ keyLock'[k] # r
                      /\ \A q \in Requests : keyLock'[k] = q => keyLock[k] = q
                      /\ \A q \in Requests \ {r} : keyLock[k] = q => keyLock'[k] = q
    BY <1>1, RecordAssumption DEF EndTransaction
<1>6. DOMAIN code \subseteq DOMAIN code'
    BY <1>3 DEF Over
<1>7. Present' \subseteq Present
    <2>1. DOMAIN code' \subseteq DOMAIN code \cup DOMAIN wrote[r]
        BY <1>3 DEF Over
    <2>2. \A q \in Requests : DOMAIN wrote'[q] \subseteq DOMAIN wrote[q]
        BY <1>4
    <2> QED
        BY <2>1, <2>2 DEF Present
<1>8. ASSUME NEW q \in Requests PROVE Guards(q)'
    <2> SUFFICES ASSUME NEW k \in Keys, keyLock'[k] = q
                 PROVE  /\ k = Last \/ k \in DOMAIN code' \/ k \in DOMAIN wrote'[q]
                        /\ \A c \in DOMAIN todo'[q] : \A j \in Present' : ~(c <= j /\ j < k)
        BY DEF Guards
    <2>1. q # r /\ keyLock[k] = q
        BY <1>5
    <2> QED
        BY <1>4, <1>6, <1>7, <2>1 DEF CodesRight, Guards
<1>9. ASSUME NEW q \in Requests PROVE Ready(q)'
    <2> SUFFICES ASSUME pc'[q] = "write"
                 PROVE  Ready(q)'
        BY DEF Ready
    <2>1. q # r /\ pc'[q] = pc[q] /\ todo'[q] = todo[q]
        BY <1>2, <1>4 DEF Moves, Writing
    <2>2. \A d : Sorted(q, d)' <=> Sorted(q, d)
        BY <2>1 DEF Sorted
    <2>3. Ready(q)
        BY DEF CodesRight
    <2> QED
        BY <1>5, <2>1, <2>2, <2>3 DEF Ready
<1>10. ASSUME NEW q \in Requests, NEW c \in DOMAIN wrote'[q] PROVE keyLock'[c] = q
    <2>1. q # r /\ c \in DOMAIN wrote[q] /\ c \in Keys
        BY <1>4, CodesTyped DEF Keys
    <2> QED
        BY <1>5, <2>1 DEF CodesRight
<1>11. ASSUME NEW q \in Requests, pc'[q] \in Writing PROVE Split(q)'
    <2>1. q # r /\ pc'[q] = pc[q] /\ todo'[q] = todo[q] /\ wrote'[q] = wrote[q] /\ ItemsOf(q)' = ItemsOf(q)
        BY <1>2, <1>4, <1>11, SameItems DEF Moves, Writing
    <2>2. Split(q)
        BY <1>11, <2>1 DEF CodesRight
    <2> QED
        BY <2>1, <2>2 DEF Split
<1>12. ASSUME NEW q \in Requests, pc'[q] = "commitCodes" PROVE DOMAIN todo'[q] = {}
    BY <1>2, <1>4, <1>12 DEF Moves, CodesRight, Writing
<1>13. CodesRight'
    BY <1>8, <1>9, <1>10, <1>11, <1>12 DEF CodesRight
<1>14. TypeCodes'
    <2>1. keyLock' \in [Keys -> Requests \cup {None}]
        BY <1>1 DEF EndTransaction, TypeOK, TypeCodes
    <2>2. code' \in [DOMAIN code' -> Values] /\ DOMAIN code' \subseteq Codes
        <3>1. code \in [DOMAIN code -> Values] /\ wrote[r] \in [DOMAIN wrote[r] -> Values]
              /\ DOMAIN code \subseteq Codes /\ DOMAIN wrote[r] \subseteq Codes
            BY DEF TypeOK, TypeCodes
        <3>2. CASE code' = Over(code, wrote[r])
            BY <3>1, <3>2 DEF Over
        <3> QED
            BY <1>3, <3>1, <3>2
    <2>3. Empty \in [DOMAIN Empty -> Values]
        BY DEF Empty
    <2>4. ASSUME NEW q \in Requests
          PROVE  /\ todo'[q] \in [DOMAIN todo'[q] -> Values] /\ DOMAIN todo'[q] \subseteq Codes
                 /\ wrote'[q] \in [DOMAIN wrote'[q] -> Values] /\ DOMAIN wrote'[q] \subseteq Codes
        <3>1. CASE q = r
            BY <1>4, <2>3, <3>1
        <3>2. CASE q # r
            BY <1>4, <3>2 DEF TypeOK, TypeCodes
        <3> QED
            BY <3>1, <3>2
    <2>5. DOMAIN todo' = Requests /\ DOMAIN wrote' = Requests
        BY <1>1 DEF EndTransaction, TypeOK, TypeCodes
    <2> QED
        BY <2>1, <2>2, <2>4, <2>5 DEF TypeCodes
<1> QED
    BY <1>2, <1>13, <1>14

\* The answer is read when the transaction is over.
LEMMA ReadBackRight ==
    ASSUME TypeOK, CodesRight, NEW r \in Requests, ReadBack(r)
    PROVE  /\ CodesRight' /\ TypeCodes' /\ RequestsTyped' /\ Moves(r, CodeStep)
<1>1. pc[r] = "readBack" /\ Return(r, "ok") /\ UNCHANGED codeVars
    BY DEF ReadBack
<1>2. Moves(r, CodeStep) /\ RequestsTyped' /\ pc'[r] = "done"
    BY <1>1, ReturnMoves DEF CodeStep
<1>3. CodesRight'
    BY <1>1, <1>2, CodesKept DEF Moves, CodeStep, Writing
<1>4. TypeCodes'
    BY <1>1 DEF TypeOK, TypeCodes, codeVars
<1> QED
    BY <1>2, <1>3, <1>4

-----------------------------------------------------------------------------
(* The cache.                                                              *)

LEMMA CacheTyped ==
    ASSUME TypeOK
    PROVE  /\ now \in Nat /\ edition \in Nat /\ Life \in Nat /\ Patience \in Nat
           /\ replaced \in Seq(Nat) /\ Len(replaced) + 1 = edition
           /\ cache.edition \in 0..edition /\ cache.expires \in Nat
           /\ \A r \in Requests : /\ fetch[r].tries \in 0..2 /\ fetch[r].since \in Nat
                                  /\ fetch[r].edition \in 0..edition
BY CacheAssumption DEF TypeOK, TypeCache

LEMMA CacheKept ==
    ASSUME CacheRight, UNCHANGED cacheVars,
           \A q \in Requests : pc'[q] = pc[q] \/ pc'[q] \notin CacheStep
    PROVE  CacheRight'
<1>1. StoreRight'
    BY DEF CacheRight, StoreRight, cacheVars
<1>2. \A q \in Requests : FetchRight(q)'
    BY DEF CacheRight, FetchRight, cacheVars, CacheStep
<1> QED
    BY <1>1, <1>2 DEF CacheRight

\* A request fetches, while the service and the cache stay as they are.
LEMMA FetchMoves ==
    ASSUME TypeOK, CacheRight, NEW r \in Requests, Moves(r, CacheStep),
           UNCHANGED <<now, edition, replaced, cache>>,
           NEW f \in [tries : 0..2, since : Nat, edition : 0..edition],
           fetch' = [fetch EXCEPT ![r] = f],
           FetchRight(r)'
    PROVE  CacheRight' /\ TypeCache'
<1>1. StoreRight'
    BY DEF CacheRight, StoreRight
<1>2. \A q \in Requests \ {r} : fetch'[q] = fetch[q] /\ pc'[q] = pc[q]
    BY DEF Moves, TypeOK, TypeCache
<1>3. \A q \in Requests \ {r} : FetchRight(q)'
    BY <1>2 DEF CacheRight, FetchRight
<1>4. TypeCache'
    BY DEF TypeOK, TypeCache
<1> QED
    BY <1>1, <1>3, <1>4 DEF CacheRight

LEMMA CodesStepRight ==
    ASSUME TypeOK, CacheRight, NEW r \in Requests, CodesStep(r)
    PROVE  CacheRight' /\ TypeCache' /\ RequestsTyped' /\ Moves(r, CacheStep)
<1> DEFINE Row == [tries : 0..2, since : Nat, edition : 0..edition]
<1>0. fetch[r] \in Row /\ FetchRight(r) /\ now \in Nat /\ edition \in Nat /\ Patience \in Nat /\ Life \in Nat
      /\ DOMAIN fetch = Requests
    BY CacheAssumption DEF TypeOK, TypeCache, CacheRight
<1>1. NoFetch \in Row
    BY <1>0 DEF NoFetch
<1>2. ASSUME NEW n \in 0..2 PROVE [fetch[r] EXCEPT !.tries = n, !.since = now] \in Row
    BY <1>0
<1>3. CASE Hit(r)
    <2>1. Moves(r, CacheStep) /\ RequestsTyped' /\ pc'[r] = "done" /\ UNCHANGED cacheVars
        BY <1>3, ReturnMoves DEF Hit, CacheStep
    <2>2. CacheRight'
        BY <2>1, CacheKept DEF Moves, CacheStep
    <2>3. TypeCache'
        BY <2>1 DEF TypeOK, TypeCache, cacheVars
    <2> QED
        BY <2>1, <2>2, <2>3
<1>4. ASSUME Ask(r), fetch[r].tries < 2, pc'[r] = "fetch", Moves(r, CacheStep), UNCHANGED <<now, edition, replaced, cache>>
      PROVE  CacheRight' /\ TypeCache'
    <2> DEFINE f == [fetch[r] EXCEPT !.tries = fetch[r].tries + 1, !.since = now]
    <2>1. f \in Row
        <3>1. fetch[r].tries + 1 \in 0..2
            BY <1>0, <1>4
        <3> QED
            BY <1>2, <3>1
    <2>2. fetch' = [fetch EXCEPT ![r] = f]
        BY <1>0, <1>4 DEF Ask
    <2>3. f.since = now
        BY <1>0
    <2> HIDE DEF f
    <2>4. FetchRight(r)'
        BY <1>0, <1>4, <2>2, <2>3 DEF FetchRight
    <2> QED
        BY <1>4, <2>1, <2>2, <2>4, FetchMoves
<1>5. CASE Miss(r)
    <2>1. Moves(r, CacheStep) /\ RequestsTyped' /\ pc'[r] = "fetch"
        BY <1>5, GotoMoves DEF Miss, CacheStep
    <2>2. fetch[r].tries < 2
        BY <1>0, <1>5 DEF Miss, FetchRight
    <2> QED
        BY <1>4, <1>5, <2>1, <2>2 DEF Miss
<1>6. CASE Answer(r)
    <2> DEFINE f == [fetch[r] EXCEPT !.edition = edition]
    <2>1. Moves(r, CacheStep) /\ RequestsTyped' /\ pc'[r] = "store" /\ pc[r] = "fetch"
        BY <1>6, GotoMoves DEF Answer, CacheStep
    <2>2. f \in Row /\ f.edition = edition /\ f.since = fetch[r].since
        BY <1>0
    <2>3. fetch' = [fetch EXCEPT ![r] = f] /\ UNCHANGED <<now, edition, replaced, cache>>
        BY <1>6 DEF Answer
    <2>4. edition # 0
        BY <1>0, CacheTyped
    <2> HIDE DEF f
    <2>5. FetchRight(r)'
        BY <1>0, <2>1, <2>2, <2>3, <2>4 DEF FetchRight
    <2> QED
        BY <2>1, <2>2, <2>3, <2>5, FetchMoves
<1>7. CASE NoAnswer(r)
    <2>1. CASE TryAgain(r)
        <3>1. pc' = pc /\ call' = call /\ answer' = answer /\ pc[r] = "fetch"
            BY <1>7, <2>1 DEF NoAnswer, requestVars
        <3>2. Moves(r, CacheStep) /\ RequestsTyped'
            BY <3>1 DEF Moves, CacheStep, RequestsTyped, TypeOK
        <3> QED
            BY <1>4, <1>7, <2>1, <3>1, <3>2 DEF NoAnswer, TryAgain
    <2>2. CASE ~TryAgain(r)
        <3>1. Moves(r, CacheStep) /\ RequestsTyped' /\ pc'[r] = "done"
            BY <1>7, <2>2, ReturnMoves DEF NoAnswer, CacheStep
        <3>2. fetch' = [fetch EXCEPT ![r] = NoFetch] /\ UNCHANGED <<now, edition, replaced, cache>>
            BY <1>7, <2>2 DEF NoAnswer
        <3>3. FetchRight(r)'
            BY <3>1 DEF FetchRight
        <3> QED
            BY <1>1, <3>1, <3>2, <3>3, FetchMoves
    <2> QED
        BY <2>1, <2>2
<1>8. CASE StoreAnswer(r)
    <2>1. Moves(r, CacheStep) /\ RequestsTyped' /\ pc'[r] = "done" /\ pc[r] = "store"
        BY <1>8, ReturnMoves DEF StoreAnswer, CacheStep
    <2>2. /\ cache' = [edition |-> fetch[r].edition, expires |-> now + Life]
          /\ fetch' = [fetch EXCEPT ![r] = NoFetch] /\ UNCHANGED <<now, edition, replaced>>
        BY <1>8 DEF StoreAnswer, Expiry
    <2>3. TypeCache'
        BY <1>0, <1>1, <2>2 DEF TypeOK, TypeCache
    <2>4. StoreRight'
        <3>1. /\ fetch[r].since <= now /\ now <= fetch[r].since + Patience
              /\ fetch[r].edition < edition => fetch[r].since <= replaced[fetch[r].edition]
              /\ fetch[r].edition # 0
            BY <1>0, <2>1 DEF FetchRight
        <3>2. fetch[r].edition < edition => replaced[fetch[r].edition] \in Nat
            BY <3>1, CacheTyped
        <3>3. fetch[r].since \in Nat /\ fetch[r].edition \in 0..edition
            BY <1>0
        <3>4. fetch[r].edition < edition => now + Life <= replaced[fetch[r].edition] + Life + Patience
            BY <1>0, <3>1, <3>2, <3>3
        <3> QED
            BY <1>0, <2>2, <3>3, <3>4 DEF StoreRight
    <2>5. ASSUME NEW q \in Requests PROVE FetchRight(q)'
        <3>1. CASE q = r
            BY <2>1, <3>1 DEF FetchRight
        <3>2. CASE q # r
            <4>1. fetch'[q] = fetch[q] /\ pc'[q] = pc[q]
                BY <1>0, <2>1, <2>2, <3>2 DEF Moves
            <4> QED
                BY <2>2, <4>1 DEF CacheRight, FetchRight
        <3> QED
            BY <3>1, <3>2
    <2> QED
        BY <2>1, <2>3, <2>4, <2>5 DEF CacheRight
<1> QED
    BY <1>3, <1>5, <1>6, <1>7, <1>8 DEF CodesStep

\* A new list is one that nobody has yet, and time passes no timeout.
LEMMA WorldRight ==
    ASSUME TypeOK, CacheRight, World
    PROVE  CacheRight' /\ TypeCache'
<1>0. /\ now \in Nat /\ edition \in Nat /\ Len(replaced) + 1 = edition /\ replaced \in Seq(Nat)
      /\ cache.edition \in 0..edition /\ cache.expires \in Nat /\ Life \in Nat /\ Patience \in Nat
      /\ \A r \in Requests : fetch[r].since \in Nat /\ fetch[r].edition \in 0..edition
    BY CacheTyped
<1>1. CASE Publish
    <2>1. /\ edition' = edition + 1 /\ replaced' = Append(replaced, now)
          /\ pc' = pc /\ now' = now /\ cache' = cache /\ fetch' = fetch
        BY <1>1 DEF Publish, requestVars
    <2>2. /\ \A e \in 1..(edition - 1) : replaced'[e] = replaced[e]
          /\ replaced'[edition] = now /\ replaced' \in Seq(Nat) /\ Len(replaced') = edition
        BY <1>0, <2>1
    <2>3. TypeCache'
        <3>1. cache \in [edition : 0..(edition + 1), expires : Nat]
            BY <1>0 DEF TypeOK, TypeCache
        <3>2. fetch \in [Requests -> [tries : 0..2, since : Nat, edition : 0..(edition + 1)]]
            <4>1. 0..edition \subseteq 0..(edition + 1)
                BY <1>0
            <4> QED
                BY <4>1 DEF TypeOK, TypeCache
        <3> QED
            BY <1>0, <2>1, <2>2, <3>1, <3>2 DEF TypeCache
    <2>4. StoreRight'
        BY <1>0, <2>1, <2>2 DEF CacheRight, StoreRight
    <2>5. ASSUME NEW q \in Requests PROVE FetchRight(q)'
        BY <1>0, <2>1, <2>2 DEF CacheRight, FetchRight
    <2> QED
        BY <2>3, <2>4, <2>5 DEF CacheRight
<1>2. CASE TickCache
    <2>1. /\ now' = now + 1
          /\ pc' = pc /\ edition' = edition /\ replaced' = replaced /\ cache' = cache /\ fetch' = fetch
          /\ \A r \in Requests : pc[r] \in {"fetch", "store"} => now < fetch[r].since + Patience
        BY <1>2 DEF TickCache, requestVars
    <2>2. TypeCache'
        BY <1>0, <2>1 DEF TypeOK, TypeCache
    <2>3. StoreRight'
        BY <1>0, <2>1 DEF CacheRight, StoreRight
    <2>4. ASSUME NEW q \in Requests PROVE FetchRight(q)'
        BY <1>0, <2>1 DEF CacheRight, FetchRight
    <2> QED
        BY <2>2, <2>3, <2>4 DEF CacheRight
<1> QED
    BY <1>1, <1>2 DEF World

-----------------------------------------------------------------------------
(* Teams and boards.                                                       *)

\* Steps that leave the lists and the posts alone.
LEMMA ListsKept ==
    ASSUME ListsRight, UNCHANGED <<row, met, call>>,
           \A q \in Requests : \/ pc'[q] = pc[q] /\ answer'[q] = answer[q]
                               \/ call[q].kind # "Post" /\ pc'[q] \notin ListStep
    PROVE  ListsRight'
<1>1. \A q : OfList(q)' = OfList(q)
    BY DEF OfList
<1>2. \A q \in Requests : Meets(q)'
    BY <1>1 DEF ListsRight, Meets, ListStep
<1>3. \A x, y \in row' : x[1] = y[1] /\ x # y => <<x[2], y[2]>> \in met' \/ <<y[2], x[2]>> \in met'
    BY DEF ListsRight, ListedOnce
<1>4. ASSUME NEW q \in Requests, call'[q].kind = "Post", answer'[q] = "ok"
      PROVE  \/ OfList(q)' # {}
             \/ \E s \in Requests : /\ call'[s].kind = "Post" /\ call'[s].list = call'[q].list
                                    /\ pc'[s] = "insertRow" \/ answer'[s] = "error"
    <2>1. answer[q] = "ok"
        BY <1>4
    <2>2. \/ OfList(q) # {}
          \/ \E s \in Requests : /\ call[s].kind = "Post" /\ call[s].list = call[q].list
                                 /\ pc[s] = "insertRow" \/ answer[s] = "error"
        BY <1>4, <2>1 DEF ListsRight, ListedOnce
    <2> QED
        BY <1>1, <2>2
<1> QED
    BY <1>2, <1>3, <1>4 DEF ListsRight, ListedOnce

LEMMA DeleteRowRight ==
    ASSUME TypeOK, RequestsRight, ListsRight, NEW r \in Requests, DeleteRow(r)
    PROVE  ListsRight' /\ TypeLists' /\ RequestsTyped' /\ Moves(r, ListStep)
<1>1. /\ Moves(r, ListStep) /\ RequestsTyped' /\ pc'[r] = "insertRow" /\ answer'[r] = answer[r]
    BY GotoMoves DEF DeleteRow, ListStep
<1>2. call' = call /\ met' = met /\ row' = row \ OfList(r) /\ call[r].kind = "Post"
    BY <1>1, KindByStatement DEF DeleteRow, Moves
<1>3. \A q \in Requests : OfList(q)' = OfList(q) \ OfList(r)
    BY <1>2 DEF OfList
<1>4. \A q \in Requests : Meets(q)'
    <2>1. Meets(r)'
        BY <1>3 DEF Meets
    <2>2. \A q \in Requests \ {r} : Meets(q)'
        BY <1>1, <1>2, <1>3 DEF ListsRight, Meets, Moves
    <2> QED
        BY <2>1, <2>2
<1>5. \A x, y \in row' : x[1] = y[1] /\ x # y => <<x[2], y[2]>> \in met' \/ <<y[2], x[2]>> \in met'
    BY <1>2 DEF ListsRight, ListedOnce
<1>6. ASSUME NEW q \in Requests, call'[q].kind = "Post", answer'[q] = "ok"
      PROVE  \/ OfList(q)' # {}
             \/ \E s \in Requests : /\ call'[s].kind = "Post" /\ call'[s].list = call'[q].list
                                    /\ pc'[s] = "insertRow" \/ answer'[s] = "error"
    <2>1. answer[q] = "ok"
        BY <1>1, <1>6 DEF Moves
    <2>2. CASE \E x \in OfList(q) : x \in OfList(r)
        <3>1. call[r].list = call[q].list
            BY <2>2 DEF OfList
        <3> QED
            BY <1>1, <1>2, <3>1
    <2>3. CASE OfList(q) # {} /\ ~\E x \in OfList(q) : x \in OfList(r)
        BY <1>3, <2>3
    <2>4. CASE OfList(q) = {}
        <3>1. PICK s \in Requests : /\ call[s].kind = "Post" /\ call[s].list = call[q].list
                                    /\ pc[s] = "insertRow" \/ answer[s] = "error"
            BY <1>2, <1>6, <2>1, <2>4 DEF ListsRight, ListedOnce
        <3>2. pc'[s] = "insertRow" \/ answer'[s] = "error"
            BY <1>1, <3>1 DEF Moves
        <3> QED
            BY <1>2, <3>1, <3>2
    <2> QED
        BY <2>2, <2>3, <2>4
<1>7. TypeLists'
    BY <1>2 DEF TypeOK, TypeLists
<1> QED
    BY <1>1, <1>4, <1>5, <1>6, <1>7 DEF ListsRight, ListedOnce

LEMMA InsertRowRight ==
    ASSUME TypeOK, RequestsRight, ListsRight, NEW r \in Requests, InsertRow(r)
    PROVE  ListsRight' /\ TypeLists' /\ RequestsTyped' /\ Moves(r, ListStep)
<1>1. /\ Moves(r, ListStep) /\ RequestsTyped' /\ pc'[r] = "done" /\ answer'[r] = "ok"
      /\ pc[r] = "insertRow"
    BY ReturnMoves DEF InsertRow, ListStep
<1>2. /\ call' = call /\ call[r].kind = "Post"
      /\ row' = row \cup {<<call[r].list, r>>}
      /\ met' = met \cup {<<q, r>> : q \in {q \in Requests : /\ pc[q] = "insertRow"
                                                          /\ call[q].list = call[r].list}}
    BY <1>1, KindByStatement DEF InsertRow, Moves, ListStep
<1>3. \A q \in Requests : pc[q] = "insertRow" /\ call[q].list = call[r].list => <<q, r>> \in met'
    BY <1>2
<1>4. met \subseteq met' /\ None # r /\ Meets(r)
    BY <1>2, RecordAssumption DEF ListsRight
<1>5. \A q \in Requests : OfList(q)' = OfList(q) \cup (IF call[q].list = call[r].list THEN {<<call[r].list, r>>} ELSE {})
    BY <1>2 DEF OfList
<1>6. ASSUME NEW q \in Requests PROVE Meets(q)'
    <2> SUFFICES ASSUME pc'[q] = "insertRow", NEW x \in OfList(q)'
                 PROVE  x[2] # None /\ <<q, x[2]>> \in met'
        BY DEF Meets
    <2>1. q # r /\ pc[q] = "insertRow"
        BY <1>1 DEF Moves
    <2>2. CASE x \in OfList(q)
        BY <1>4, <2>1, <2>2 DEF ListsRight, Meets
    <2>3. CASE x = <<call[r].list, r>> /\ call[q].list = call[r].list
        BY <1>3, <1>4, <2>1, <2>3
    <2> QED
        BY <1>5, <2>2, <2>3
<1>7. ASSUME NEW x \in row PROVE x[1] = call[r].list => <<r, x[2]>> \in met'
    BY <1>1, <1>4 DEF Meets, OfList
<1>8. ASSUME NEW x \in row', NEW y \in row', x[1] = y[1], x # y
      PROVE  <<x[2], y[2]>> \in met' \/ <<y[2], x[2]>> \in met'
    <2>1. CASE x \in row /\ y \in row
        BY <1>4, <1>8, <2>1 DEF ListsRight, ListedOnce
    <2>2. CASE x = <<call[r].list, r>> /\ y \in row
        BY <1>7, <1>8, <2>2
    <2>3. CASE y = <<call[r].list, r>> /\ x \in row
        BY <1>7, <1>8, <2>3
    <2> QED
        BY <1>2, <1>8, <2>1, <2>2, <2>3
<1>9. ASSUME NEW q \in Requests, call'[q].kind = "Post", answer'[q] = "ok"
      PROVE  \/ OfList(q)' # {}
             \/ \E s \in Requests : /\ call'[s].kind = "Post" /\ call'[s].list = call'[q].list
                                    /\ pc'[s] = "insertRow" \/ answer'[s] = "error"
    <2>1. CASE call[q].list = call[r].list
        BY <1>5, <2>1
    <2>2. CASE call[q].list # call[r].list
        <3>1. q # r /\ answer[q] = "ok"
            BY <1>1, <1>9, <2>2 DEF Moves
        <3>2. CASE OfList(q) # {}
            BY <1>5, <3>2
        <3>3. CASE OfList(q) = {}
            <4>1. PICK s \in Requests : /\ call[s].kind = "Post" /\ call[s].list = call[q].list
                                        /\ pc[s] = "insertRow" \/ answer[s] = "error"
                BY <1>2, <1>9, <3>1, <3>3 DEF ListsRight, ListedOnce
            <4>2. s # r /\ (pc'[s] = "insertRow" \/ answer'[s] = "error")
                BY <1>1, <2>2, <4>1 DEF Moves
            <4> QED
                BY <1>2, <4>1, <4>2
        <3> QED
            BY <3>2, <3>3
    <2> QED
        BY <2>1, <2>2
<1>10. TypeLists'
    <2>1. ASSUME NEW x \in row' PROVE x = <<x[1], x[2]>> /\ x[2] \in Requests \cup {None}
        BY <1>2 DEF TypeOK, TypeLists
    <2>2. met' \subseteq Requests \X Requests
        BY <1>2 DEF TypeOK, TypeLists
    <2> QED
        BY <2>1, <2>2 DEF TypeLists
<1> QED
    BY <1>1, <1>6, <1>8, <1>9, <1>10 DEF ListsRight, ListedOnce

LEMMA FailListRight ==
    ASSUME TypeOK, RequestsRight, ListsRight, NEW r \in Requests, FailList(r)
    PROVE  ListsRight' /\ TypeLists' /\ RequestsTyped' /\ Moves(r, ListStep)
<1>1. /\ Moves(r, ListStep) /\ RequestsTyped' /\ pc'[r] = "done" /\ answer'[r] = "error"
    BY ReturnMoves DEF FailList
<1>2. call' = call /\ row' = row /\ met' = met
    BY <1>1 DEF FailList, listVars, Moves
<1>3. \A q : OfList(q)' = OfList(q)
    BY <1>2 DEF OfList
<1>4. \A q \in Requests : Meets(q)'
    BY <1>1, <1>2, <1>3 DEF ListsRight, Meets, Moves
<1>5. \A x, y \in row' : x[1] = y[1] /\ x # y => <<x[2], y[2]>> \in met' \/ <<y[2], x[2]>> \in met'
    BY <1>2 DEF ListsRight, ListedOnce
<1>6. ASSUME NEW q \in Requests, call'[q].kind = "Post", answer'[q] = "ok"
      PROVE  \/ OfList(q)' # {}
             \/ \E s \in Requests : /\ call'[s].kind = "Post" /\ call'[s].list = call'[q].list
                                    /\ pc'[s] = "insertRow" \/ answer'[s] = "error"
    <2>1. answer[q] = "ok"
        BY <1>1, <1>6 DEF Moves
    <2>2. CASE OfList(q) # {}
        BY <1>3, <2>2
    <2>3. CASE OfList(q) = {}
        <3>1. PICK s \in Requests : /\ call[s].kind = "Post" /\ call[s].list = call[q].list
                                    /\ pc[s] = "insertRow" \/ answer[s] = "error"
            BY <1>2, <1>6, <2>1, <2>3 DEF ListsRight, ListedOnce
        <3>2. pc'[s] = "insertRow" \/ answer'[s] = "error"
            BY <1>1, <3>1 DEF Moves
        <3> QED
            BY <1>2, <3>1, <3>2
    <2> QED
        BY <2>2, <2>3
<1>7. TypeLists'
    BY <1>2 DEF TypeOK, TypeLists
<1> QED
    BY <1>1, <1>4, <1>5, <1>6, <1>7 DEF ListsRight, ListedOnce

-----------------------------------------------------------------------------
(* Documents.                                                              *)

LEMMA UploadTyped ==
    ASSUME TypeOK, NEW r \in Requests, call[r].kind = "Upload"
    PROVE  /\ call[r].files \in Seq(Files) /\ Len(call[r].files) \in Nat
           /\ DOMAIN call[r].files = 1..Len(call[r].files)
           /\ \A i, j \in DOMAIN call[r].files : call[r].files[i] = call[r].files[j] => i = j
<1>1. call[r] \in Calls
    BY DEF TypeOK
<1>2. /\ call[r].files \in Seq(Files)
      /\ \A i, j \in DOMAIN call[r].files : call[r].files[i] = call[r].files[j] => i = j
    BY <1>1, DocumentAssumption
<1> QED
    BY <1>2

\* Steps that save no file and leave the uploads alone.
LEMMA UploadKept ==
    ASSUME NEW q \in Requests, UploadRight(q), call' = call, pc'[q] = pc[q], answer'[q] = answer[q],
           unsaved'[q] = unsaved[q], DOMAIN visible \subseteq DOMAIN visible',
           \A f : <<q, f>> \in file' <=> <<q, f>> \in file
    PROVE  UploadRight(q)'
<1>1. \A n : Saved(q, n)' <=> Saved(q, n)
    BY DEF Saved
<1>2. \A n : Left(q, n)' <=> Left(q, n)
    BY DEF Left
<1> QED
    BY <1>1, <1>2 DEF UploadRight

LEMMA DocumentsKept ==
    ASSUME DocumentsRight, UNCHANGED <<visible, file, unsaved, call>>,
           \A q \in Requests : (pc'[q] = pc[q] /\ answer'[q] = answer[q]) \/ call[q].kind # "Upload"
    PROVE  DocumentsRight'
<1> SUFFICES ASSUME NEW q \in Requests, call[q].kind = "Upload"
             PROVE  UploadRight(q)'
    BY DEF DocumentsRight
<1> QED
    BY UploadKept DEF DocumentsRight

\* Where an upload stands is said of it alone.
LEMMA OneUpload ==
    ASSUME DocumentsRight, NEW r \in Requests, NEW S, Moves(r, S),
           \A q \in Requests \ {r} : unsaved'[q] = unsaved[q],
           DOMAIN visible \subseteq DOMAIN visible',
           \A q \in Requests \ {r} : \A f : <<q, f>> \in file' <=> <<q, f>> \in file,
           call[r].kind = "Upload" => UploadRight(r)'
    PROVE  DocumentsRight'
<1> SUFFICES ASSUME NEW q \in Requests \ {r}, call[q].kind = "Upload"
             PROVE  UploadRight(q)'
    BY DEF DocumentsRight, Moves
<1>1. UploadRight(q) /\ call' = call /\ pc'[q] = pc[q] /\ answer'[q] = answer[q]
    BY DEF DocumentsRight, Moves
<1> QED
    BY <1>1, UploadKept

LEMMA InsertDocumentRight ==
    ASSUME TypeOK, RequestsRight, DocumentsRight, NEW r \in Requests, InsertDocument(r)
    PROVE  DocumentsRight' /\ TypeDocuments' /\ RequestsTyped' /\ Moves(r, {"document", "saveFile"})
<1>1. /\ pc[r] = "document" /\ SaveOrReturn(r, unsaved[r]) /\ file' = file /\ unsaved' = unsaved
      /\ visible' = [d \in DOMAIN visible \cup {r} |-> d = r \/ visible[d]]
    BY DEF InsertDocument
<1>2. /\ Moves(r, {"document", "saveFile"}) /\ RequestsTyped'
      /\ IF unsaved[r] = <<>> THEN pc'[r] = "done" ELSE pc'[r] = "saveFile"
    BY <1>1, GotoMoves, ReturnMoves DEF SaveOrReturn, DocumentStep
<1>3. /\ call[r].kind = "Upload" /\ UploadRight(r)
    BY <1>1, KindByStatement DEF DocumentsRight
<1>4. Saved(r, 0) /\ Left(r, 0)
    BY <1>1, <1>3 DEF UploadRight
<1>5. Saved(r, 0)' /\ Left(r, 0)' /\ call' = call
    BY <1>1, <1>2, <1>4 DEF Moves, Saved, Left
<1>6. DOMAIN visible' = DOMAIN visible \cup {r}
    BY <1>1
<1>7. Len(call[r].files) \in Nat /\ (unsaved[r] = <<>> => Len(call[r].files) = 0)
    BY <1>3, <1>4, UploadTyped DEF Left
<1>8. UploadRight(r)'
    <2>1. CASE unsaved[r] = <<>>
        BY <1>2, <1>5, <1>7, <2>1 DEF UploadRight
    <2>2. CASE unsaved[r] # <<>>
        <3>1. \E n \in 0..Len(call'[r].files) : Saved(r, n)' /\ Left(r, n)'
            BY <1>5, <1>7
        <3> QED
            BY <1>1, <1>2, <1>6, <2>2, <3>1 DEF UploadRight
    <2> QED
        BY <2>1, <2>2
<1>9. DocumentsRight'
    BY <1>1, <1>2, <1>6, <1>8, OneUpload
<1>10. TypeDocuments'
    BY <1>1, <1>6 DEF TypeOK, TypeDocuments
<1> QED
    BY <1>2, <1>9, <1>10

LEMMA SaveFileRight ==
    ASSUME TypeOK, RequestsRight, DocumentsRight, NEW r \in Requests, SaveFile(r)
    PROVE  DocumentsRight' /\ TypeDocuments' /\ RequestsTyped' /\ Moves(r, {"document", "saveFile"})
<1> DEFINE files == call[r].files
<1>1. /\ pc[r] = "saveFile" /\ SaveOrReturn(r, Tail(unsaved[r])) /\ visible' = visible
      /\ file' = file \cup {<<r, Head(unsaved[r])>>}
      /\ unsaved' = [unsaved EXCEPT ![r] = Tail(@)]
    BY DEF SaveFile
<1>2. /\ Moves(r, {"document", "saveFile"}) /\ RequestsTyped'
      /\ IF Tail(unsaved[r]) = <<>> THEN pc'[r] = "done" ELSE pc'[r] = "saveFile"
    BY <1>1, GotoMoves, ReturnMoves DEF SaveOrReturn, DocumentStep
<1>3. /\ call[r].kind = "Upload" /\ r \in DOMAIN visible /\ unsaved[r] # <<>>
      /\ \E n \in 0..Len(files) : Saved(r, n) /\ Left(r, n)
    BY <1>1, KindByStatement DEF DocumentsRight, UploadRight
<1>4. PICK n \in 0..Len(files) : Saved(r, n) /\ Left(r, n)
    BY <1>3
<1>5. /\ files \in Seq(Files) /\ Len(files) \in Nat /\ DOMAIN files = 1..Len(files)
      /\ \A i, j \in DOMAIN files : files[i] = files[j] => i = j
    BY <1>3, UploadTyped
<1>6. /\ unsaved[r] \in Seq(Files) /\ Len(unsaved[r]) = Len(files) - n /\ Len(unsaved[r]) > 0
      /\ \A i \in 1..Len(unsaved[r]) : unsaved[r][i] = files[n + i]
    <2>1. /\ unsaved[r] \in Seq(Files) /\ Len(unsaved[r]) = Len(files) - n
          /\ \A i \in 1..Len(unsaved[r]) : unsaved[r][i] = files[n + i]
        BY <1>4 DEF Left
    <2>2. Len(unsaved[r]) > 0
        BY <1>3, <2>1
    <2> QED
        BY <2>1, <2>2
<1>7. /\ unsaved'[r] = Tail(unsaved[r])
      /\ \A q \in Requests \ {r} : unsaved'[q] = unsaved[q]
    BY <1>1 DEF TypeOK, TypeDocuments
<1>8. n + 1 \in 0..Len(files) /\ n + 1 \in DOMAIN files /\ Head(unsaved[r]) = files[n + 1]
    BY <1>5, <1>6
<1>9. \A q, f : <<q, f>> \in file' <=> <<q, f>> \in file \/ (q = r /\ f = files[n + 1])
    BY <1>1, <1>8
<1>10. call' = call
    BY <1>2 DEF Moves
<1>11. Saved(r, n + 1)'
    <2>1. \A i \in DOMAIN files : <<r, files[i]>> \in file' <=> i <= n \/ i = n + 1
        BY <1>4, <1>5, <1>8, <1>9 DEF Saved
    <2>2. \A i \in DOMAIN files : i <= n \/ i = n + 1 <=> i <= n + 1
        BY <1>5
    <2> QED
        BY <1>8, <1>10, <2>1, <2>2 DEF Saved
<1>12. Left(r, n + 1)'
    <2>1. /\ Tail(unsaved[r]) \in Seq(Files) /\ Len(Tail(unsaved[r])) = Len(unsaved[r]) - 1
          /\ \A i \in 1..Len(Tail(unsaved[r])) : Tail(unsaved[r])[i] = unsaved[r][i + 1]
        BY <1>6
    <2>2. \A i \in 1..Len(Tail(unsaved[r])) : Tail(unsaved[r])[i] = files[n + 1 + i]
        BY <1>6, <2>1
    <2>3. Len(Tail(unsaved[r])) = Len(files) - (n + 1)
        BY <1>5, <1>6, <2>1
    <2> QED
        BY <1>7, <1>10, <2>1, <2>2, <2>3 DEF Left
<1>13. UploadRight(r)'
    <2>1. CASE Tail(unsaved[r]) = <<>>
        <3>1. n + 1 = Len(files)
            BY <1>5, <1>6, <2>1
        <3> QED
            BY <1>2, <1>8, <1>10, <1>11, <2>1, <3>1 DEF UploadRight
    <2>2. CASE Tail(unsaved[r]) # <<>>
        <3>1. \E m \in 0..Len(call'[r].files) : Saved(r, m)' /\ Left(r, m)'
            BY <1>8, <1>10, <1>11, <1>12
        <3> QED
            BY <1>1, <1>2, <1>3, <1>7, <2>2, <3>1 DEF UploadRight
    <2> QED
        BY <2>1, <2>2
<1>14. DocumentsRight'
    BY <1>1, <1>2, <1>7, <1>9, <1>13, OneUpload
<1>15. TypeDocuments'
    <2>1. unsaved' \in [Requests -> Seq(Files)]
        <3>1. Tail(unsaved[r]) \in Seq(Files)
            BY <1>6
        <3> QED
            BY <1>1, <3>1 DEF TypeOK, TypeDocuments
    <2>2. \A f \in file' : f = <<f[1], f[2]>> /\ f[1] \in DOMAIN visible'
        BY <1>1, <1>3 DEF TypeOK, TypeDocuments
    <2> QED
        BY <1>1, <2>1, <2>2 DEF TypeOK, TypeDocuments
<1> QED
    BY <1>2, <1>14, <1>15

LEMMA HideDocumentRight ==
    ASSUME TypeOK, RequestsRight, DocumentsRight, NEW r \in Requests, HideDocument(r)
    PROVE  DocumentsRight' /\ TypeDocuments' /\ RequestsTyped' /\ Moves(r, {"hide"})
<1>1. /\ pc[r] = "hide" /\ file' = file /\ unsaved' = unsaved
      /\ DOMAIN visible' = DOMAIN visible /\ visible' \in [DOMAIN visible -> BOOLEAN]
      /\ Return(r, "ok") \/ Return(r, "error")
    BY DEF HideDocument, TypeOK, TypeDocuments
<1>2. Moves(r, {"hide"}) /\ RequestsTyped'
    BY <1>1, ReturnMoves
<1>3. call[r].kind # "Upload"
    BY <1>1, KindByStatement
<1>4. DocumentsRight'
    BY <1>1, <1>2, <1>3, OneUpload
<1>5. TypeDocuments'
    BY <1>1 DEF TypeOK, TypeDocuments
<1> QED
    BY <1>2, <1>4, <1>5

LEMMA FailDocumentRight ==
    ASSUME TypeOK, RequestsRight, DocumentsRight, NEW r \in Requests, FailDocument(r)
    PROVE  /\ DocumentsRight' /\ TypeDocuments' /\ RequestsTyped'
           /\ \E kind \in {"Upload", "Hide"} : Moves(r, StatementsOf[kind])
<1>1. /\ pc[r] \in DocumentStep /\ Return(r, "error")
      /\ visible' = visible /\ file' = file /\ unsaved' = unsaved
    BY DEF FailDocument, AfterFailure
<1>2. Moves(r, DocumentStep) /\ RequestsTyped' /\ pc'[r] = "done" /\ answer'[r] = "error"
    BY <1>1, ReturnMoves
<1>3. ASSUME call[r].kind = "Upload" PROVE UploadRight(r)'
    <2>1. UploadRight(r) /\ pc[r] \in {"document", "saveFile"}
        BY <1>1, <1>3, KindByStatement DEF DocumentsRight, DocumentStep
    <2>2. PICK n \in 0..Len(call[r].files) : Saved(r, n)
        BY <2>1 DEF UploadRight, Saved
    <2>3. Saved(r, n)' /\ call' = call
        BY <1>1, <1>2, <2>2 DEF Saved, Moves
    <2> QED
        BY <1>2, <2>3 DEF UploadRight
<1>4. DocumentsRight'
    BY <1>1, <1>2, <1>3, OneUpload
<1>5. TypeDocuments'
    BY <1>1 DEF TypeOK, TypeDocuments
<1>6. \E kind \in {"Upload", "Hide"} : Moves(r, StatementsOf[kind])
    <2>1. CASE pc[r] = "hide"
        BY <1>2, <2>1 DEF Moves, StatementsOf
    <2>2. CASE pc[r] \in {"document", "saveFile"}
        BY <1>2, <2>2 DEF Moves, StatementsOf
    <2> QED
        BY <1>1, <2>1, <2>2 DEF DocumentStep
<1> QED
    BY <1>2, <1>4, <1>5, <1>6

-----------------------------------------------------------------------------
(* What the index, the cache, the lists and the documents promise.         *)

LEMMA Upward ==
    ASSUME TypeOK, CodesRight
    PROVE  WaitsUpward
<1> SUFFICES ASSUME NEW r \in Requests, NEW c \in Codes, NEW k \in Keys,
                    Looks(r, c, k), keyLock[k] \notin {None, r},
                    NEW h \in Keys, keyLock[h] = r
             PROVE  h < k
    BY DEF WaitsUpward
<1>1. /\ c \in DOMAIN todo[r] /\ c <= k /\ k \in Present \cup {Last}
      /\ \A j \in Present : ~(c <= j /\ j < k)
    BY DEF Looks, Sorted, IsNext
<1>2. \A j \in Present : ~(c <= j /\ j < h)
    BY <1>1 DEF CodesRight, Guards
<1>3. h # k /\ h \in Nat /\ k \in Nat /\ h <= Last /\ Last \in Nat
    BY CodesTyped, CodesAssumption
<1>4. ~(k < h)
    BY <1>1, <1>2, <1>3
<1> QED
    BY <1>3, <1>4

LEMMA NoStalerList ==
    ASSUME TypeOK, CacheRight
    PROVE  StaleBound
<1>1. SUFFICES ASSUME Fresh, cache.edition < edition
               PROVE  now <= replaced[cache.edition] + Life + Patience
    BY DEF StaleBound
<1>2. cache.edition # 0 /\ now <= cache.expires
    BY <1>1 DEF Fresh
<1>3. cache.expires <= replaced[cache.edition] + Life + Patience
    BY <1>1, <1>2 DEF CacheRight, StoreRight
<1>4. now \in Nat /\ Life \in Nat /\ Patience \in Nat /\ cache.expires \in Nat
    BY CacheTyped
<1>5. replaced[cache.edition] \in Nat
    <2>1. /\ edition \in Nat /\ replaced \in Seq(Nat) /\ Len(replaced) + 1 = edition
          /\ cache.edition \in 0..edition
        BY CacheTyped
    <2>2. cache.edition \in 1..Len(replaced)
        BY <1>1, <1>2, <2>1
    <2> QED
        BY <2>1, <2>2
<1> QED
    BY <1>2, <1>3, <1>4, <1>5

LEMMA UploadWhole ==
    ASSUME TypeOK, RequestsRight, DocumentsRight
    PROVE  AnsweredWhole
<1> SUFFICES ASSUME NEW r \in Requests, call[r].kind = "Upload"
             PROVE  LET saved == {i \in DOMAIN call[r].files : <<r, call[r].files[i]>> \in file} IN
                    /\ \E n \in 0..Len(call[r].files) : saved = 1..n
                    /\ answer[r] = "ok" => saved = DOMAIN call[r].files
    BY DEF AnsweredWhole
<1> DEFINE saved == {i \in DOMAIN call[r].files : <<r, call[r].files[i]>> \in file}
<1>1. pc[r] \in {"document", "saveFile", "done"} /\ (answer[r] = "ok" => pc[r] = "done")
    BY RecordAssumption DEF RequestsRight, StatementsOf
<1>2. PICK n \in 0..Len(call[r].files) :
         Saved(r, n) /\ (answer[r] = "ok" => n = Len(call[r].files))
    <2>1. UploadRight(r) /\ Len(call[r].files) \in Nat
        BY UploadTyped DEF DocumentsRight
    <2>2. CASE pc[r] = "document"
        BY <1>1, <2>1, <2>2 DEF UploadRight
    <2>3. CASE pc[r] = "saveFile"
        BY <1>1, <2>1, <2>3 DEF UploadRight
    <2>4. CASE pc[r] = "done"
        BY <2>1, <2>4 DEF UploadRight
    <2> QED
        BY <1>1, <2>2, <2>3, <2>4
<1>3. DOMAIN call[r].files = 1..Len(call[r].files) /\ Len(call[r].files) \in Nat
    BY UploadTyped
<1>4. \A i \in DOMAIN call[r].files : i \in saved <=> i <= n
    BY <1>2 DEF Saved
<1>5. saved = 1..n
    BY <1>3, <1>4
<1> QED
    BY <1>2, <1>3, <1>5

-----------------------------------------------------------------------------
(* A call is written whole.  The least and the greatest of some numbers    *)
(* are there because < is well-founded.                                    *)

LEMMA LeastOf ==
    ASSUME NEW S \in SUBSET Nat, S # {}
    PROVE  \E m \in S : \A j \in S : m <= j
<1> DEFINE Below == OpToRel(<, Nat)
<1>1. IsWellFoundedOn(Below, Nat)
    BY NatLessThanWellFounded
<1>2. \A x, y \in Nat : <<x, y>> \in Below <=> x < y
    BY DEF OpToRel
<1> HIDE DEF Below
<1>3. PICK m \in S : \A j \in S : ~(<<j, m>> \in Below)
    BY <1>1, WFMin, Zenon
<1>4. \A j \in S : m <= j
    <2> TAKE j \in S
    <2>1. j \in Nat /\ m \in Nat /\ ~(j < m)
        BY <1>2, <1>3
    <2> QED
        BY <2>1
<1> QED
    BY <1>4

LEMMA GreatestOf ==
    ASSUME NEW n \in Nat, NEW S \in SUBSET (0..n), S # {}
    PROVE  \E m \in S : \A j \in S : j <= m
<1> DEFINE T == {n - i : i \in S}
<1>1. T \in SUBSET Nat /\ T # {}
    <2>1. \A i \in S : n - i \in Nat
        OBVIOUS
    <2>2. \E i \in S : n - i \in T
        OBVIOUS
    <2> QED
        BY <2>1, <2>2
<1>2. PICK k \in T : \A j \in T : k <= j
    BY <1>1, LeastOf
<1>3. PICK m \in S : k = n - m
    BY <1>2
<1>4. ASSUME NEW j \in S PROVE j <= m
    <2>1. n - j \in T
        OBVIOUS
    <2>2. n - m <= n - j
        BY <1>2, <1>3, <2>1
    <2> QED
        BY <2>2
<1> QED
    BY <1>4

LEMMA LastGiven ==
    ASSUME NEW items \in Items, NEW c, Given(items, c) # {}
    PROVE  /\ c \in DOMAIN ItemsByCode(items)
           /\ \E i \in Given(items, c) : /\ ItemsByCode(items)[c] = items[i].value
                                         /\ \A j \in Given(items, c) : j <= i
<1> DEFINE Final(i) == i \in DOMAIN items /\ items[i].code = c
                       /\ \A j \in DOMAIN items : items[j].code = c => j <= i
<1>1. Given(items, c) \in SUBSET (0..Len(items)) /\ Len(items) \in Nat
    BY DEF Items, Given
<1>2. \E i \in DOMAIN items : Final(i)
    <2>1. PICK i \in Given(items, c) : \A j \in Given(items, c) : j <= i
        BY <1>1, GreatestOf
    <2> QED
        BY <2>1 DEF Given
<1>3. PICK i \in DOMAIN items : /\ Final(i)
                                /\ i = CHOOSE n \in DOMAIN items : /\ items[n].code = c
                                                                   /\ \A j \in DOMAIN items : items[j].code = c => j <= n
    BY <1>2
<1>4. c \in {items[n].code : n \in DOMAIN items}
    BY <1>2
<1>5. ItemsByCode(items)[c] = items[i].value
    BY <1>3, <1>4 DEF ItemsByCode
<1> QED
    BY <1>3, <1>4, <1>5 DEF ItemsByCode, Given

LEMMA CodeOfItem ==
    ASSUME NEW items \in Items
    PROVE  \A i \in DOMAIN items : items[i].code \in Codes /\ items[i].value \in Values
<1> TAKE i \in DOMAIN items
<1> DEFINE Item == [code : Codes, value : Values]
<1>0. items \in Seq(Item)
    BY DEF Items
<1> HIDE DEF Item
<1>1. items[i] \in Item
    BY <1>0
<1> USE DEF Item
<1> QED
    BY <1>1

LEMMA WrittenWhole ==
    ASSUME TypeOK, RequestsRight, CodesRight, NEW r \in Requests, CommitCodes(r)
    PROVE  Stores(r)
<1> DEFINE items == call[r].items
<1>1. pc[r] = "commitCodes" /\ code' = Over(code, wrote[r])
    BY DEF CommitCodes
<1>2. call[r].kind = "Put"
    BY <1>1, KindByStatement DEF CodeStep, Writing
<1>4. items \in Items
    BY <1>2, CallTyped, CodesAssumption
<1>5. \A i \in DOMAIN items : items[i].code \in Codes
    BY <1>4, CodeOfItem
<1>6. /\ DOMAIN wrote[r] = DOMAIN ItemsByCode(items)
      /\ \A c \in DOMAIN wrote[r] : wrote[r][c] = ItemsByCode(items)[c]
    <2>1. Split(r) /\ DOMAIN todo[r] = {}
        BY <1>1 DEF CodesRight, Writing
    <2> QED
        BY <2>1 DEF Split, ItemsOf
<1>7. DOMAIN ItemsByCode(items) = {c \in Codes : Given(items, c) # {}}
    <2>1. DOMAIN ItemsByCode(items) = {items[i].code : i \in DOMAIN items}
        BY DEF ItemsByCode
    <2>2. \A c : c \in {items[i].code : i \in DOMAIN items} <=> c \in Codes /\ Given(items, c) # {}
        BY <1>5 DEF Given
    <2> QED
        BY <2>1, <2>2
<1> HIDE DEF items
<1>8. /\ DOMAIN code' = DOMAIN code \cup DOMAIN wrote[r]
      /\ \A c \in DOMAIN code' : code'[c] = IF c \in DOMAIN wrote[r] THEN wrote[r][c] ELSE code[c]
    BY <1>1 DEF Over
<1>9. ASSUME NEW c \in DOMAIN code'
      PROVE  IF Given(items, c) = {} THEN code'[c] = code[c]
             ELSE \E i \in Given(items, c) : code'[c] = items[i].value /\ \A j \in Given(items, c) : j <= i
    <2>1. CASE Given(items, c) = {}
        BY <1>6, <1>7, <1>8, <2>1
    <2>2. CASE Given(items, c) # {}
        <3>1. PICK i \in Given(items, c) : /\ ItemsByCode(items)[c] = items[i].value
                                           /\ \A j \in Given(items, c) : j <= i
            BY <1>4, <2>2, LastGiven
        <3>2. c \in DOMAIN ItemsByCode(items)
            BY <1>4, <2>2, LastGiven
        <3>3. code'[c] = ItemsByCode(items)[c]
            BY <1>6, <1>8, <3>2
        <3> QED
            BY <2>2, <3>1, <3>3
    <2> QED
        BY <2>1, <2>2
<1> QED
    BY <1>6, <1>7, <1>8, <1>9 DEF items, Stores

-----------------------------------------------------------------------------
(* The invariant.                                                          *)

LEMMA InitCodesRight ==
    ASSUME Init
    PROVE  TypeCodes /\ CodesRight
<1>1. /\ code \in CodeTables /\ keyLock = [k \in Keys |-> None]
      /\ todo = [r \in Requests |-> IF call[r].kind = "Put" THEN ItemsByCode(call[r].items) ELSE Empty]
      /\ wrote = [r \in Requests |-> Empty]
    BY DEF Init, InitCodes
<1>2. ASSUME NEW r \in Requests
      PROVE  /\ call[r] \in Calls /\ pc[r] \in StatementsOf[call[r].kind]
             /\ pc[r] \in CodeStep <=> call[r].kind = "Put"
             /\ pc[r] # "write" /\ pc[r] # "commitCodes"
    <2>1. PICK m \in Mixes : call \in [Requests -> m]
        BY DEF Init, InitRequests
    <2>2. call[r] \in Calls
        BY <2>1 DEF Calls
    <2>3. call[r].kind \in {"Put", "Codes", "Post", "Upload", "Hide"}
        BY <2>2, RecordAssumption DEF FirstStep
    <2>4. pc[r] = FirstStep[call[r].kind]
        BY DEF Init, InitRequests
    <2> QED
        BY <2>2, <2>3, <2>4 DEF FirstStep, StatementsOf, CodeStep, Writing, CacheStep, ListStep
<1>3. ASSUME NEW items \in Items
      PROVE  ItemsByCode(items) \in [DOMAIN ItemsByCode(items) -> Values] /\ DOMAIN ItemsByCode(items) \subseteq Codes
    <2>1. DOMAIN ItemsByCode(items) = {items[i].code : i \in DOMAIN items}
        BY DEF ItemsByCode
    <2>2. ASSUME NEW c \in DOMAIN ItemsByCode(items) PROVE ItemsByCode(items)[c] \in Values
        <3>1. Given(items, c) # {}
            BY <2>1 DEF Given
        <3>2. PICK i \in DOMAIN items : ItemsByCode(items)[c] = items[i].value
            BY <3>1, LastGiven DEF Given
        <3> QED
            BY <3>2, CodeOfItem
    <2>3. ItemsByCode(items) = [c \in DOMAIN ItemsByCode(items) |-> ItemsByCode(items)[c]]
        BY <2>1 DEF ItemsByCode
    <2> QED
        BY <2>1, <2>2, <2>3, CodeOfItem
<1>4. Empty \in [DOMAIN Empty -> Values] /\ DOMAIN Empty = {}
    BY DEF Empty
<1>5. ASSUME NEW r \in Requests
      PROVE  todo[r] \in [DOMAIN todo[r] -> Values] /\ DOMAIN todo[r] \subseteq Codes
    <2>1. CASE call[r].kind = "Put"
        <3>1. call[r].items \in Items
            BY <1>2, <2>1, CodesAssumption
        <3> QED
            BY <1>1, <1>3, <2>1, <3>1
    <2>2. CASE call[r].kind # "Put"
        BY <1>1, <1>4, <2>2
    <2> QED
        BY <2>1, <2>2
<1>6. TypeCodes
    <2>1. code \in [DOMAIN code -> Values] /\ DOMAIN code \subseteq Codes
        BY <1>1, CodesAssumption
    <2>2. \A r \in Requests : wrote[r] \in [DOMAIN wrote[r] -> Values] /\ DOMAIN wrote[r] \subseteq Codes
        BY <1>1, <1>4
    <2>3. keyLock \in [Keys -> Requests \cup {None}] /\ DOMAIN todo = Requests /\ DOMAIN wrote = Requests
        BY <1>1
    <2> QED
        BY <1>5, <2>1, <2>2, <2>3 DEF TypeCodes
<1>7. ASSUME NEW r \in Requests, pc[r] \in Writing PROVE Split(r)
    BY <1>1, <1>2, <1>4, <1>7 DEF Split, ItemsOf, CodeStep
<1>8. ASSUME NEW r \in Requests
      PROVE  Guards(r) /\ Ready(r) /\ \A c \in DOMAIN wrote[r] : keyLock[c] = r
    BY <1>1, <1>2, <1>4, RecordAssumption DEF Guards, Ready
<1> QED
    BY <1>2, <1>6, <1>7, <1>8 DEF CodesRight

LEMMA InitIInv ==
    ASSUME Init
    PROVE  IInv
<1>1. ASSUME NEW r \in Requests
      PROVE  /\ call[r] \in Calls /\ answer[r] = None
             /\ pc[r] = FirstStep[call[r].kind]
             /\ call[r].kind \in {"Put", "Codes", "Post", "Upload", "Hide"}
    <2>1. PICK m \in Mixes : call \in [Requests -> m]
        BY DEF Init, InitRequests
    <2>2. call[r] \in Calls
        BY <2>1 DEF Calls
    <2> QED
        BY <2>2, RecordAssumption DEF Init, InitRequests, FirstStep
<1>2. ASSUME NEW r \in Requests
      PROVE  /\ pc[r] \in StatementsOf[call[r].kind]
             /\ pc[r] \in CodeStep \cup CacheStep \cup ListStep \cup DocumentStep
             /\ pc[r] \notin {"insertRow", "saveFile", "fetch", "store", "done"}
    BY <1>1 DEF FirstStep, StatementsOf, CodeStep, Writing, CacheStep, ListStep, DocumentStep
<1>3. RequestsRight
    BY <1>1, <1>2 DEF RequestsRight
<1>4. RequestsTyped
    <2>1. DOMAIN pc = Requests /\ DOMAIN answer = Requests /\ answer = [r \in Requests |-> None]
          /\ pc = [r \in Requests |-> FirstStep[call[r].kind]]
        BY DEF Init, InitRequests
    <2>2. PICK m \in Mixes : call \in [Requests -> m]
        BY DEF Init, InitRequests
    <2>3. call \in [Requests -> Calls]
        BY <2>2 DEF Calls
    <2> QED
        BY <1>2, <2>1, <2>3 DEF RequestsTyped, Answers
<1>5. TypeCodes /\ CodesRight
    BY InitCodesRight
<1>6. TypeCache /\ CacheRight
    <2>1. NoFetch \in [tries : 0..2, since : Nat, edition : 0..1] /\ NoFetch.tries = 0
        BY DEF NoFetch
    <2>2. /\ now = 0 /\ edition = 1 /\ replaced = <<>> /\ cache = [edition |-> 0, expires |-> 0]
          /\ fetch = [r \in Requests |-> NoFetch]
        BY DEF Init, InitCache
    <2>3. TypeCache
        BY <2>1, <2>2 DEF TypeCache
    <2>4. StoreRight
        BY <2>2 DEF StoreRight
    <2>5. \A r \in Requests : FetchRight(r)
        BY <1>2, <2>1, <2>2 DEF FetchRight
    <2> QED
        BY <2>3, <2>4, <2>5 DEF CacheRight
<1>7. TypeLists /\ ListsRight
    <2>1. row = OldRows /\ met = {}
        BY DEF Init, InitLists
    <2>2. \A x \in row : x = <<x[1], None>> /\ x[2] = None
        BY <2>1, ListAssumption
    <2>3. TypeLists
        BY <2>1, <2>2 DEF TypeLists
    <2>4. \A x, y \in row : ~(x[1] = y[1] /\ x # y)
        BY <2>2
    <2>5. \A r \in Requests : answer[r] # "ok"
        BY <1>1, RecordAssumption
    <2> QED
        BY <1>2, <2>3, <2>4, <2>5 DEF ListsRight, ListedOnce, Meets
<1>8. TypeDocuments /\ DocumentsRight
    <2>1. /\ visible = [d \in OldDocuments |-> TRUE] /\ file = {}
          /\ unsaved = [r \in Requests |-> IF call[r].kind = "Upload" THEN call[r].files ELSE <<>>]
        BY DEF Init, InitDocuments
    <2>2. ASSUME NEW r \in Requests, call[r].kind = "Upload"
          PROVE  /\ call[r].files \in Seq(Files) /\ Len(call[r].files) \in Nat
                 /\ DOMAIN call[r].files = 1..Len(call[r].files)
        <3>1. call[r].files \in Seq(Files)
            BY <1>1, <2>2, DocumentAssumption
        <3> QED
            BY <3>1
    <2>3. TypeDocuments
        <3>1. ASSUME NEW r \in Requests PROVE unsaved[r] \in Seq(Files)
            <4>1. CASE call[r].kind = "Upload"
                BY <2>1, <2>2, <4>1
            <4>2. CASE call[r].kind # "Upload"
                BY <2>1, <4>2
            <4> QED
                BY <4>1, <4>2
        <3> QED
            BY <2>1, <3>1 DEF TypeDocuments
    <2>4. ASSUME NEW r \in Requests, call[r].kind = "Upload" PROVE UploadRight(r)
        <3>1. pc[r] = "document"
            BY <1>1, <2>4 DEF FirstStep
        <3>2. Saved(r, 0)
            BY <2>1, <2>2, <2>4 DEF Saved
        <3>3. Left(r, 0)
            BY <2>1, <2>2, <2>4 DEF Left
        <3> QED
            BY <3>1, <3>2, <3>3 DEF UploadRight
    <2> QED
        BY <2>3, <2>4 DEF DocumentsRight
<1> QED
    BY <1>3, <1>4, <1>5, <1>6, <1>7, <1>8 DEF IInv, TypeOK, RequestsTyped

\* A step of one handler is none of another's.
LEMMA Apart ==
    ASSUME TypeOK, RequestsRight, NEW r \in Requests, NEW S, Moves(r, S),
           NEW kind \in DOMAIN StatementsOf, S \subseteq StatementsOf[kind]
    PROVE  /\ RequestsRight' /\ call' = call
           /\ kind # "Put" => \A q \in Requests : pc'[q] = pc[q] \/ pc'[q] \notin CodeStep
           /\ kind # "Codes" => \A q \in Requests : pc'[q] = pc[q] \/ pc'[q] \notin CacheStep
           /\ kind # "Post" => \A q \in Requests : \/ pc'[q] = pc[q] /\ answer'[q] = answer[q]
                                                   \/ call[q].kind # "Post" /\ pc'[q] \notin ListStep
           /\ kind # "Upload" => \A q \in Requests : (pc'[q] = pc[q] /\ answer'[q] = answer[q]) \/ call[q].kind # "Upload"
<1>1. pc[r] \in StatementsOf[kind] /\ kind \in {"Put", "Codes", "Post", "Upload", "Hide"}
    BY DEF Moves, StatementsOf
<1>2. call[r].kind = kind
    BY <1>1, KindByStatement DEF StatementsOf
<1>3. "done" \notin S
    BY <1>1 DEF StatementsOf, CodeStep, Writing, CacheStep, ListStep
<1>4. RequestsRight'
    BY <1>2, <1>3, MovesRight
<1>5. /\ pc'[r] \in StatementsOf[kind] \cup {"done"} /\ call' = call
      /\ \A q \in Requests \ {r} : pc'[q] = pc[q] /\ answer'[q] = answer[q]
    BY DEF Moves
<1>6. /\ kind # "Put" => pc'[r] \notin CodeStep
      /\ kind # "Codes" => pc'[r] \notin CacheStep
      /\ kind # "Post" => pc'[r] \notin ListStep
    BY <1>1, <1>5 DEF StatementsOf, CodeStep, Writing, CacheStep, ListStep
<1>7. kind # "Put" => \A q \in Requests : pc'[q] = pc[q] \/ pc'[q] \notin CodeStep
    BY <1>5, <1>6
<1>8. kind # "Codes" => \A q \in Requests : pc'[q] = pc[q] \/ pc'[q] \notin CacheStep
    BY <1>5, <1>6
<1>9. kind # "Post" => \A q \in Requests : \/ pc'[q] = pc[q] /\ answer'[q] = answer[q]
                                           \/ call[q].kind # "Post" /\ pc'[q] \notin ListStep
    BY <1>2, <1>5, <1>6
<1>10. kind # "Upload" => \A q \in Requests : (pc'[q] = pc[q] /\ answer'[q] = answer[q]) \/ call[q].kind # "Upload"
    BY <1>2, <1>5
<1> QED
    BY <1>4, <1>5, <1>7, <1>8, <1>9, <1>10

\* TypeOK is of the requests and of each table.
LEMMA TypesTogether ==
    ASSUME RequestsTyped', TypeCodes', TypeCache', TypeLists', TypeDocuments'
    PROVE  TypeOK'
BY DEF TypeOK, RequestsTyped

LEMMA TypesKept ==
    ASSUME TypeOK
    PROVE  /\ UNCHANGED codeVars => TypeCodes'
           /\ UNCHANGED cacheVars => TypeCache'
           /\ UNCHANGED listVars => TypeLists'
           /\ UNCHANGED documentVars => TypeDocuments'
<1>1. UNCHANGED codeVars => TypeCodes'
    BY DEF TypeOK, TypeCodes, codeVars
<1>2. UNCHANGED cacheVars => TypeCache'
    BY DEF TypeOK, TypeCache, cacheVars
<1>3. UNCHANGED listVars => TypeLists'
    BY DEF TypeOK, TypeLists, listVars
<1>4. UNCHANGED documentVars => TypeDocuments'
    BY DEF TypeOK, TypeDocuments, documentVars
<1> QED
    BY <1>1, <1>2, <1>3, <1>4

LEMMA CodesHandled ==
    ASSUME IInv, NEW r \in Requests, PutStep(r) \/ FailCodes(r),
           UNCHANGED <<cacheVars, listVars, documentVars>>
    PROVE  IInv'
<1>1. CodesRight' /\ TypeCodes' /\ RequestsTyped' /\ Moves(r, CodeStep)
    <2>1. TypeOK /\ CodesRight
        BY DEF IInv
    <2> QED
        BY <2>1, LookupRight, WriteRight, EndRight, ReadBackRight DEF PutStep
<1>2. /\ RequestsRight' /\ call' = call
      /\ \A q \in Requests : pc'[q] = pc[q] \/ pc'[q] \notin CacheStep
      /\ \A q \in Requests : \/ pc'[q] = pc[q] /\ answer'[q] = answer[q]
                             \/ call[q].kind # "Post" /\ pc'[q] \notin ListStep
      /\ \A q \in Requests : (pc'[q] = pc[q] /\ answer'[q] = answer[q]) \/ call[q].kind # "Upload"
    <2>1. "Put" \in DOMAIN StatementsOf /\ CodeStep \subseteq StatementsOf["Put"]
        BY DEF StatementsOf
    <2> QED
        BY <1>1, <2>1, Apart DEF IInv
<1>3. CacheRight'
    BY <1>2, CacheKept DEF IInv
<1>4. ListsRight'
    BY <1>2, ListsKept DEF IInv, listVars
<1>5. DocumentsRight'
    BY <1>2, DocumentsKept DEF IInv, documentVars
<1>6. TypeOK'
    BY <1>1, TypesKept, TypesTogether DEF IInv
<1> QED
    BY <1>1, <1>2, <1>3, <1>4, <1>5, <1>6 DEF IInv

LEMMA CacheHandled ==
    ASSUME IInv, NEW r \in Requests, CodesStep(r), UNCHANGED <<codeVars, listVars, documentVars>>
    PROVE  IInv'
<1>1. CacheRight' /\ TypeCache' /\ RequestsTyped' /\ Moves(r, CacheStep)
    BY CodesStepRight DEF IInv
<1>2. /\ RequestsRight' /\ call' = call
      /\ \A q \in Requests : pc'[q] = pc[q] \/ pc'[q] \notin CodeStep
      /\ \A q \in Requests : \/ pc'[q] = pc[q] /\ answer'[q] = answer[q]
                             \/ call[q].kind # "Post" /\ pc'[q] \notin ListStep
      /\ \A q \in Requests : (pc'[q] = pc[q] /\ answer'[q] = answer[q]) \/ call[q].kind # "Upload"
    <2>1. "Codes" \in DOMAIN StatementsOf /\ CacheStep \subseteq StatementsOf["Codes"]
        BY DEF StatementsOf
    <2> QED
        BY <1>1, <2>1, Apart DEF IInv
<1>3. CodesRight'
    BY <1>2, CodesKept DEF IInv
<1>4. ListsRight'
    BY <1>2, ListsKept DEF IInv, listVars
<1>5. DocumentsRight'
    BY <1>2, DocumentsKept DEF IInv, documentVars
<1>6. TypeOK'
    BY <1>1, TypesKept, TypesTogether DEF IInv
<1> QED
    BY <1>1, <1>2, <1>3, <1>4, <1>5, <1>6 DEF IInv

LEMMA ListsHandled ==
    ASSUME IInv, NEW r \in Requests, DeleteRow(r) \/ InsertRow(r) \/ FailList(r),
           UNCHANGED <<codeVars, cacheVars, documentVars>>
    PROVE  IInv'
<1>1. ListsRight' /\ TypeLists' /\ RequestsTyped' /\ Moves(r, ListStep)
    <2>1. TypeOK /\ RequestsRight /\ ListsRight
        BY DEF IInv
    <2> QED
        BY <2>1, DeleteRowRight, InsertRowRight, FailListRight
<1>2. /\ RequestsRight' /\ call' = call
      /\ \A q \in Requests : pc'[q] = pc[q] \/ pc'[q] \notin CodeStep
      /\ \A q \in Requests : pc'[q] = pc[q] \/ pc'[q] \notin CacheStep
      /\ \A q \in Requests : (pc'[q] = pc[q] /\ answer'[q] = answer[q]) \/ call[q].kind # "Upload"
    <2>1. "Post" \in DOMAIN StatementsOf /\ ListStep \subseteq StatementsOf["Post"]
        BY DEF StatementsOf
    <2> QED
        BY <1>1, <2>1, Apart DEF IInv
<1>3. CodesRight'
    BY <1>2, CodesKept DEF IInv
<1>4. CacheRight'
    BY <1>2, CacheKept DEF IInv
<1>5. DocumentsRight'
    BY <1>2, DocumentsKept DEF IInv, documentVars
<1>6. TypeOK'
    BY <1>1, TypesKept, TypesTogether DEF IInv
<1> QED
    BY <1>1, <1>2, <1>3, <1>4, <1>5, <1>6 DEF IInv

LEMMA DocumentsHandled ==
    ASSUME IInv, NEW r \in Requests, DocumentsStep(r) \/ FailDocument(r),
           UNCHANGED <<codeVars, cacheVars, listVars>>
    PROVE  IInv'
<1>1. PICK kind \in {"Upload", "Hide"} :
         DocumentsRight' /\ TypeDocuments' /\ RequestsTyped' /\ Moves(r, StatementsOf[kind])
    <2>1. TypeOK /\ RequestsRight /\ DocumentsRight
        BY DEF IInv
    <2>2. StatementsOf["Upload"] = {"document", "saveFile"} /\ StatementsOf["Hide"] = {"hide"}
        BY DEF StatementsOf
    <2>3. CASE InsertDocument(r) \/ SaveFile(r)
        BY <2>1, <2>2, <2>3, InsertDocumentRight, SaveFileRight
    <2>4. CASE HideDocument(r)
        BY <2>1, <2>2, <2>4, HideDocumentRight
    <2>5. CASE FailDocument(r)
        BY <2>1, <2>5, FailDocumentRight
    <2> QED
        BY <2>3, <2>4, <2>5 DEF DocumentsStep
<1>2. /\ RequestsRight' /\ call' = call
      /\ \A q \in Requests : pc'[q] = pc[q] \/ pc'[q] \notin CodeStep
      /\ \A q \in Requests : pc'[q] = pc[q] \/ pc'[q] \notin CacheStep
      /\ \A q \in Requests : \/ pc'[q] = pc[q] /\ answer'[q] = answer[q]
                             \/ call[q].kind # "Post" /\ pc'[q] \notin ListStep
    <2>1. kind \in DOMAIN StatementsOf
        BY DEF StatementsOf
    <2> QED
        BY <1>1, <2>1, Apart DEF IInv
<1>3. CodesRight'
    BY <1>2, CodesKept DEF IInv
<1>4. CacheRight'
    BY <1>2, CacheKept DEF IInv
<1>5. ListsRight'
    BY <1>2, ListsKept DEF IInv, listVars
<1>6. TypeOK'
    BY <1>1, TypesKept, TypesTogether DEF IInv
<1> QED
    BY <1>1, <1>2, <1>3, <1>4, <1>5, <1>6 DEF IInv

LEMMA WorldHandled ==
    ASSUME IInv, World
    PROVE  IInv'
<1>1. CacheRight' /\ TypeCache'
    BY WorldRight DEF IInv
<1>2. UNCHANGED <<codeVars, listVars, documentVars>> /\ call' = call /\ pc' = pc /\ answer' = answer
    BY DEF World, Publish, TickCache, requestVars
<1>3. RequestsRight' /\ RequestsTyped'
    BY <1>2 DEF IInv, RequestsRight, RequestsTyped, TypeOK
<1>4. CodesRight'
    BY <1>2, CodesKept DEF IInv
<1>5. ListsRight'
    BY <1>2, ListsKept DEF IInv, listVars
<1>6. DocumentsRight'
    BY <1>2, DocumentsKept DEF IInv, documentVars
<1>7. TypeOK'
    BY <1>1, <1>2, <1>3, TypesKept, TypesTogether DEF IInv
<1> QED
    BY <1>1, <1>3, <1>4, <1>5, <1>6, <1>7 DEF IInv

LEMMA Stutter ==
    ASSUME IInv, UNCHANGED vars
    PROVE  IInv'
<1>1. /\ UNCHANGED <<codeVars, cacheVars, listVars, documentVars>>
      /\ call' = call /\ pc' = pc /\ answer' = answer
    BY DEF vars, requestVars
<1>2. RequestsRight' /\ RequestsTyped'
    BY <1>1 DEF IInv, RequestsRight, RequestsTyped, TypeOK
<1>3. CodesRight'
    BY <1>1, CodesKept DEF IInv
<1>4. CacheRight'
    BY <1>1, CacheKept DEF IInv
<1>5. ListsRight'
    BY <1>1, ListsKept DEF IInv, listVars
<1>6. DocumentsRight'
    BY <1>1, DocumentsKept DEF IInv, documentVars
<1>7. TypeOK'
    BY <1>1, <1>2, TypesKept, TypesTogether DEF IInv
<1> QED
    BY <1>2, <1>3, <1>4, <1>5, <1>6, <1>7 DEF IInv

LEMMA StepIInv ==
    ASSUME IInv, [Next]_vars
    PROVE  IInv'
<1>1. CASE World
    BY <1>1, WorldHandled
<1>2. ASSUME NEW r \in Requests, Step(r) PROVE IInv'
    BY <1>2, CodesHandled, CacheHandled, ListsHandled, DocumentsHandled DEF Step, PostStep
<1>3. ASSUME NEW r \in Requests, Fail(r) PROVE IInv'
    BY <1>3, CodesHandled, ListsHandled, DocumentsHandled DEF Fail
<1>4. CASE UNCHANGED vars
    BY <1>4, Stutter
<1> QED
    BY <1>1, <1>2, <1>3, <1>4 DEF Next

\* The invariant of all tables holds whatever requests come together.
THEOREM RecordsInductive == Spec => []IInv
<1>1. Init => IInv
    BY InitIInv
<1>2. IInv /\ [Next]_vars => IInv'
    BY StepIInv
<1> QED
    BY <1>1, <1>2, PTL DEF Spec

\* Every table, cache and request holds what it may hold.
THEOREM RecordsTyped == Spec => []TypeOK
<1>1. IInv => TypeOK
    BY DEF IInv
<1> QED
    BY <1>1, RecordsInductive, PTL

\* A request that waits for a code's lock holds only smaller ones (PutCposCodeMeasurements.go
\* sorts the codes): no circle of requests can wait for each other.
THEOREM NoDeadlock == Spec => []WaitsUpward
<1>1. IInv => WaitsUpward
    BY Upward DEF IInv
<1> QED
    BY <1>1, RecordsInductive, PTL

\* A list from the cache of ExternalCpos.go was replaced no longer ago than its life and the
\* time one answer may take, in whatever order answers are stored.
THEOREM CacheStaleBound == Spec => []StaleBound
<1>1. IInv => StaleBound
    BY NoStalerList DEF IInv
<1> QED
    BY <1>1, RecordsInductive, PTL

\* Two rows of a list come only of two posts at once (PostExecTeam.go, PostUnelgeeHoroo.go),
\* and a list that was posted is gone only while a post is there or after one failed.
THEOREM TeamsListedOnce == Spec => []ListedOnce
<1>1. IInv => ListedOnce
    BY DEF IInv, ListsRight
<1> QED
    BY <1>1, RecordsInductive, PTL

\* An upload of UploadFiles.go has its first files, and all of them if it is told so.
THEOREM UploadsWhole == Spec => []AnsweredWhole
<1>1. IInv => AnsweredWhole
    BY UploadWhole DEF IInv
<1> QED
    BY <1>1, RecordsInductive, PTL

\* A step of the handler of codes moves its request only.
LEMMA PutMoves ==
    ASSUME IInv, NEW r \in Requests, PutStep(r) \/ FailCodes(r)
    PROVE  Moves(r, CodeStep)
BY LookupRight, WriteRight, EndRight, ReadBackRight DEF PutStep, IInv

\* Steps of other handlers, of the service and of time move no request that writes codes.
LEMMA OthersMove ==
    ASSUME IInv, Next, ~\E r \in Requests : PutStep(r) \/ FailCodes(r)
    PROVE  /\ code' = code
           /\ \A q \in Requests : call[q].kind = "Put" => pc'[q] = pc[q] /\ answer'[q] = answer[q]
<1>1. TypeOK /\ RequestsRight /\ CacheRight /\ ListsRight /\ DocumentsRight
    BY DEF IInv
<1>2. code' = code
    BY DEF Next, World, Step, Fail, codeVars
<1>3. CASE World
    BY <1>2, <1>3 DEF World, Publish, TickCache, requestVars
<1>4. ASSUME NEW r \in Requests, Step(r) \/ Fail(r)
      PROVE  \/ Moves(r, CacheStep) \/ Moves(r, ListStep)
             \/ Moves(r, {"document", "saveFile"}) \/ Moves(r, {"hide"})
    <2>1. CodesStep(r) => Moves(r, CacheStep)
        BY <1>1, CodesStepRight
    <2>2. PostStep(r) \/ FailList(r) => Moves(r, ListStep)
        BY <1>1, DeleteRowRight, InsertRowRight, FailListRight DEF PostStep
    <2>3. DocumentsStep(r) \/ FailDocument(r) =>
              Moves(r, {"document", "saveFile"}) \/ Moves(r, {"hide"})
        BY <1>1, InsertDocumentRight, SaveFileRight, HideDocumentRight, FailDocumentRight
           DEF DocumentsStep, StatementsOf
    <2> QED
        BY <1>4, <2>1, <2>2, <2>3 DEF Step, Fail
<1>5. ASSUME NEW r \in Requests, Step(r) \/ Fail(r)
      PROVE  call[r].kind # "Put" /\ \A q \in Requests \ {r} : pc'[q] = pc[q] /\ answer'[q] = answer[q]
    <2>1. pc[r] \in CacheStep \cup ListStep \cup {"document", "saveFile", "hide"}
        BY <1>4, <1>5 DEF Moves
    <2>2. call[r].kind # "Put"
        BY <1>1, <2>1, KindByStatement
    <2> QED
        BY <1>4, <1>5, <2>2 DEF Moves
<1> QED
    BY <1>2, <1>3, <1>5 DEF Next

\* The codes change only by the commit of a whole call (PutCposCodeMeasurements.go), with the
\* last item it gives for each code, and none of the codes it does not give.  Each call is
\* committed once at most, and told of success only after that.
THEOREM CallsWhole == Spec => PutWhole
<1> DEFINE Whole ==
               /\ code' # code => \E r \in Requests : pc[r] = "commitCodes" /\ pc'[r] = "readBack"
               /\ \A r \in {r \in Requests : call[r].kind = "Put"} :
                     /\ pc[r] # "readBack" /\ pc'[r] = "readBack" => Stores(r)
                     /\ answer[r] # "ok" /\ answer'[r] = "ok" => pc[r] = "readBack"
                     /\ pc[r] \in {"readBack", "done"} => pc'[r] \in {pc[r], "done"}
<1>1. IInv /\ [Next]_vars => [Whole]_vars
    <2> SUFFICES ASSUME IInv, Next PROVE Whole
        OBVIOUS
    <2>1. ASSUME NEW r \in Requests, PutStep(r) \/ FailCodes(r) PROVE Whole
        <3>1. Moves(r, CodeStep)
            BY <2>1, PutMoves
        <3>2. \A q \in Requests \ {r} : pc'[q] = pc[q] /\ answer'[q] = answer[q]
            BY <3>1 DEF Moves
        <3>3. pc \in [Requests -> CodeStep \cup CacheStep \cup ListStep \cup DocumentStep \cup {"done"}]
              /\ answer \in [Requests -> Answers]
            BY DEF IInv, TypeOK
        <3>4. CASE CommitCodes(r)
            <4>1. pc[r] = "commitCodes" /\ pc'[r] = "readBack" /\ answer' = answer
                BY <3>3, <3>4 DEF CommitCodes, Goto
            <4>2. Stores(r)
                BY <3>4, WrittenWhole DEF IInv
            <4> QED
                BY <3>2, <4>1, <4>2
        <3>5. CASE ReadBack(r)
            BY <3>2, <3>3, <3>5 DEF ReadBack, Return, codeVars
        <3>6. CASE FailCodes(r)
            BY <3>2, <3>3, <3>6 DEF FailCodes, Return, CodeStep, Writing
        <3>7. CASE Lookup(r) \/ Write(r)
            BY <3>2, <3>3, <3>7 DEF Lookup, Looks, Write, Goto
        <3> QED
            BY <2>1, <3>4, <3>5, <3>6, <3>7 DEF PutStep
    <2>2. CASE ~\E r \in Requests : PutStep(r) \/ FailCodes(r)
        BY <2>2, OthersMove
    <2> QED
        BY <2>1, <2>2
<1> QED
    BY <1>1, RecordsInductive, PTL DEF Spec, PutWhole
=============================================================================
