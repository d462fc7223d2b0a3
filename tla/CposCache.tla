------------------------------ MODULE CposCache ------------------------------
(***************************************************************************)
(* The list of CPOS codes, fetched from another service and kept in memory *)
(* for half an hour (ExternalCpos.go).  Requests that miss the cache fetch *)
(* at the same time, and their answers may be stored in any order.         *)
(***************************************************************************)
EXTENDS RecordStore

CONSTANTS
    Life,        \* cposCacheDuration
    Patience,    \* the timeouts of externalOrdersClient for token and list together
    LastMoment,  \* bound on time
    LastEdition  \* bound on the editions of the list

ASSUME CacheAssumption ==
    Life \in Nat /\ Patience \in Nat /\ LastMoment \in Nat /\ LastEdition \in Nat

NoFetch == [tries |-> 0, since |-> 0, edition |-> 0]

VARIABLES
    now,
    edition,   \* the present edition of the list at the service
    replaced,  \* history: when an edition was replaced
    cache,     \* edition 0 if nothing is stored, and when it expires
    fetch      \* the attempts of a request, the time of the present one, and the edition

cacheVars == <<now, edition, replaced, cache, fetch>>

CacheStep == {"cache", "fetch", "store"}

InitCache ==
    /\ now = 0 /\ edition = 1 /\ replaced = <<>>
    /\ cache = [edition |-> 0, expires |-> 0]
    /\ fetch = [r \in Requests |-> NoFetch]

KeptLong == cache.edition # 0
Fresh    == cache.edition # 0 /\ now <= cache.expires

Hit(r) ==
    /\ pc[r] = "cache" /\ Fresh
    /\ Return(r, "ok")
    /\ UNCHANGED cacheVars

Ask(r) == fetch' = [fetch EXCEPT ![r].tries = @ + 1, ![r].since = now]

Miss(r) ==
    /\ pc[r] = "cache" /\ ~Fresh
    /\ Ask(r) /\ Goto(r, "fetch")
    /\ UNCHANGED <<now, edition, replaced, cache>>

\* The service answers with its present list.
Answer(r) ==
    /\ pc[r] = "fetch"
    /\ fetch' = [fetch EXCEPT ![r].edition = edition]
    /\ Goto(r, "store")
    /\ UNCHANGED <<now, edition, replaced, cache>>

\* serve asks a second time after a failure.
OneMoreTry(r) == fetch[r].tries <= 2
TryAgain(r)   == fetch[r].tries < 2

\* No token, no answer in time, or one without a true status: once again, then an error.
NoAnswer(r) ==
    /\ pc[r] = "fetch"
    /\ IF TryAgain(r) THEN Ask(r) /\ UNCHANGED requestVars
                      ELSE Return(r, "error") /\ fetch' = [fetch EXCEPT ![r] = NoFetch]
    /\ UNCHANGED <<now, edition, replaced, cache>>

Expiry == now + Life

StoreAnswer(r) ==
    /\ pc[r] = "store"
    /\ cache' = [edition |-> fetch[r].edition, expires |-> Expiry]
    /\ fetch' = [fetch EXCEPT ![r] = NoFetch]
    /\ Return(r, "ok")
    /\ UNCHANGED <<now, edition, replaced>>

\* Bound: time and new lists matter only where the list is asked for.
Asked == \E r \in Requests : call[r].kind = "Codes"

\* External: the service has a new list.
Publish ==
    /\ Asked
    /\ edition < LastEdition
    /\ edition' = edition + 1 /\ replaced' = Append(replaced, now)
    /\ UNCHANGED <<requestVars, now, cache, fetch>>

\* Time passes, but no attempt outlasts its timeout.
TickCache ==
    /\ Asked /\ now < LastMoment
    /\ \A r \in Requests : pc[r] \in {"fetch", "store"} => now < fetch[r].since + Patience
    /\ now' = now + 1
    /\ UNCHANGED <<requestVars, edition, replaced, cache, fetch>>

CodesStep(r) == Hit(r) \/ Miss(r) \/ Answer(r) \/ NoAnswer(r) \/ StoreAnswer(r)

-----------------------------------------------------------------------------
TypeCache ==
    /\ now \in Nat /\ edition \in Nat
    /\ replaced \in Seq(Nat) /\ Len(replaced) + 1 = edition
    /\ cache \in [edition : 0..edition, expires : Nat]
    /\ fetch \in [Requests -> [tries : 0..2, since : Nat, edition : 0..edition]]

\* Whatever order answers are stored in, a list from the cache was replaced at the service
\* no longer ago than half an hour and the time an answer may take.
StaleBound ==
    Fresh /\ cache.edition < edition => now <= replaced[cache.edition] + Life + Patience
=============================================================================
