----------------------------- MODULE ReadCache ------------------------------
(***************************************************************************)
(* The read-through caches in Redis of one user's balance, analytics and   *)
(* dashboard.  The dashboard is put together from the answers of the other *)
(* two, which are cached as well.  Whoever changes the wallet commits      *)
(* first and then deletes the keys, unless its process dies or the call    *)
(* throws.  An answer is represented by the version of the oldest data it  *)
(* was computed from.                                                      *)
(***************************************************************************)
EXTENDS Integers

CONSTANTS
    Readers,  \* getWalletBalance, getLedgerAnalytics and getDashboard
    Writers,  \* transfers, withdrawals, credits, holds and KYC
    MaxWrites \* bounds the checked behaviours

CacheAssumption == MaxWrites \in Nat

VARIABLES
    version,  \* of the user's rows in PostgreSQL
    cached,   \* cached[k]: the version of the answer under key k, or None
    reading,  \* reading[r]: what r does, see Reads
    dropping  \* dropping[w]: "idle", or the keys it deletes next: "first" those
              \* with fixed names, then those found by SCAN

cacheVars == <<version, cached, reading, dropping>>
-----------------------------------------------------------------------------
None == -1
Parts == {"balance", "analytics"}
Keys == Parts \cup {"dashboard"}

\* None is the oldest of no answers.
Older(m, n) == IF m = None \/ n < m THEN n ELSE m

\* r answers for key "for"; "missing" are the parts it still needs, "key" the one
\* it is loading, whose data is "loaded"; "oldest" is over the parts it has.
Nothing == [for |-> "none", missing |-> {}, key |-> "none", loaded |-> None, oldest |-> None]

Init ==
    /\ version = 0
    /\ cached = [k \in Keys |-> None]
    /\ reading = [r \in Readers |-> Nothing]
    /\ dropping = [w \in Writers |-> "idle"]
-----------------------------------------------------------------------------
\* The caller commits.
Write(w) ==
    /\ dropping[w] = "idle" /\ version < MaxWrites
    /\ version' = version + 1
    /\ dropping' = [dropping EXCEPT ![w] = "first"]
    /\ UNCHANGED <<cached, reading>>

\* invalidateWalletReadCaches: one DEL for the balance and the dashboard,
DropFirst(w) ==
    /\ dropping[w] = "first"
    /\ cached' = [k \in Keys |-> IF k = "analytics" THEN cached[k] ELSE None]
    /\ dropping' = [dropping EXCEPT ![w] = "scan"]
    /\ UNCHANGED <<version, reading>>

\* then invalidateCachePattern for the analytics.
DropScanned(w) ==
    /\ dropping[w] = "scan"
    /\ cached' = [cached EXCEPT !["analytics"] = None]
    /\ dropping' = [dropping EXCEPT ![w] = "idle"]
    /\ UNCHANGED <<version, reading>>

\* The process dies, Redis does not answer, or the argument is not an array.
DropFails(w) ==
    /\ dropping[w] # "idle"
    /\ dropping' = [dropping EXCEPT ![w] = "idle"]
    /\ UNCHANGED <<version, cached, reading>>
-----------------------------------------------------------------------------
\* getWalletBalance and getLedgerAnalytics miss the cache.
MissPart(r, k) ==
    /\ reading[r] = Nothing /\ cached[k] = None
    /\ reading' = [reading EXCEPT ![r] = [Nothing EXCEPT !.for = k, !.key = k]]
    /\ UNCHANGED <<version, cached, dropping>>

\* getDashboard misses, and asks for all its parts; here it gets them one after
\* the other, in any order.
MissDashboard(r) ==
    /\ reading[r] = Nothing /\ cached["dashboard"] = None
    /\ reading' = [reading EXCEPT ![r] =
                     [Nothing EXCEPT !.for = "dashboard", !.missing = Parts]]
    /\ UNCHANGED <<version, cached, dropping>>

\* A part of the dashboard is cached,
HitPart(r, k) ==
    /\ k \in reading[r].missing /\ reading[r].key = "none" /\ cached[k] # None
    /\ reading' = [reading EXCEPT
          ![r].missing = @ \ {k},
          ![r].oldest = Older(@, cached[k])]
    /\ UNCHANGED <<version, cached, dropping>>

\* or it has to be loaded.
NeedPart(r, k) ==
    /\ k \in reading[r].missing /\ reading[r].key = "none" /\ cached[k] = None
    /\ reading' = [reading EXCEPT ![r].key = k]
    /\ UNCHANGED <<version, cached, dropping>>

\* The first query of the loader; later ones see this version or a newer one.
Load(r) ==
    /\ reading[r].key \in Parts /\ reading[r].loaded = None
    /\ reading' = [reading EXCEPT ![r].loaded = version]
    /\ UNCHANGED <<version, cached, dropping>>

\* What was loaded is stored, however long ago that was.
StorePart(r) ==
    /\ reading[r].key \in Parts /\ reading[r].loaded # None
    /\ cached' = [cached EXCEPT ![reading[r].key] = reading[r].loaded]
    /\ \/ reading[r].for \in Parts /\ reading' = [reading EXCEPT ![r] = Nothing]
       \/ /\ reading[r].for = "dashboard"
          /\ reading' = [reading EXCEPT ![r] =
                [reading[r] EXCEPT !.missing = @ \ {reading[r].key}, !.key = "none",
                   !.loaded = None, !.oldest = Older(@, reading[r].loaded)]]
    /\ UNCHANGED <<version, dropping>>

StoreDashboard(r) ==
    /\ reading[r].for = "dashboard" /\ reading[r].missing = {}
    /\ cached' = [cached EXCEPT !["dashboard"] = reading[r].oldest]
    /\ reading' = [reading EXCEPT ![r] = Nothing]
    /\ UNCHANGED <<version, dropping>>

\* Mutant: the dashboard is stored without an expiry.
ExpirePartsOnly(k) ==
    /\ k \in Parts /\ cached[k] # None
    /\ cached' = [cached EXCEPT ![k] = None]
    /\ UNCHANGED <<version, reading, dropping>>

\* The key expires: 10 s to 30 s after it was set.
Expire(k) ==
    /\ cached[k] # None
    /\ cached' = [cached EXCEPT ![k] = None]
    /\ UNCHANGED <<version, reading, dropping>>
-----------------------------------------------------------------------------
ReadStep(r) ==
    \/ Load(r) \/ StorePart(r) \/ StoreDashboard(r)
    \/ \E k \in Parts : HitPart(r, k) \/ NeedPart(r, k)

DropStep(w) == DropFirst(w) \/ DropScanned(w) \/ DropFails(w)

Next ==
    \/ \E w \in Writers : Write(w) \/ DropStep(w)
    \/ \E r \in Readers : MissDashboard(r) \/ ReadStep(r)
    \/ \E r \in Readers, k \in Parts : MissPart(r, k)
    \/ \E k \in Keys : Expire(k)

Spec == Init /\ [][Next]_cacheVars

\* Queries and Redis answer, and keys expire.
FairSpec ==
    /\ Spec
    /\ \A w \in Writers : WF_cacheVars(DropStep(w))
    /\ \A r \in Readers : WF_cacheVars(ReadStep(r))
    /\ \A k \in Keys : WF_cacheVars(Expire(k))
-----------------------------------------------------------------------------
(* Properties *)

Reads == [for : Keys \cup {"none"}, missing : SUBSET Parts, key : Parts \cup {"none"},
          loaded : Int, oldest : Int]

TypeOK ==
    /\ version \in 0 .. MaxWrites
    /\ cached \in [Keys -> None .. version]
    /\ reading \in [Readers -> Reads]
    /\ \A r \in Readers : {reading[r].loaded, reading[r].oldest} \subseteq None .. version
    /\ dropping \in [Writers -> {"idle", "first", "scan"}]

\* Once the wallet stays as it is, what the caches show comes to be what the
\* database holds, although a reader may store what it loaded before keys were
\* deleted, a dashboard may be built from a stale part, and a writer may never
\* delete anything.
CachesCatchUp ==
    <>[](\A k \in Keys : cached[k] \in {None, version})
=============================================================================
