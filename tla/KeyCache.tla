------------------------------ MODULE KeyCache ------------------------------
(***************************************************************************)
(* The author's PGP key: looked up at a keyserver for the contact address   *)
(* (internal/pgp/cache.go), kept in a file that has room for one answer,    *)
(* and published by rebuilds (internal/build/pgp.go).                       *)
(*                                                                         *)
(* A lookup holds the cache's mutex from reading the file to writing it.    *)
(* It is asked for by rebuilds, which take the answer of the file while it  *)
(* is fresh, and by the operator's refresh, which never does; both have     *)
(* read the contact address before.                                        *)
(***************************************************************************)
EXTENDS Integers

CONSTANTS
    Addresses,     \* contact addresses that may have a key
    NoAddress,     \* site.yml names none
    MaxAddressChanges, MaxKeyChanges, MaxRefreshes, MaxOutages   \* bounds

ASSUME KeyCacheAssumption ==
    /\ NoAddress \notin Addresses
    /\ {MaxAddressChanges, MaxKeyChanges, MaxRefreshes, MaxOutages} \subseteq Nat

VARIABLES
    address,      \* ContactEmail() of the live configuration
    keyserver,    \* for each address, the number of the key it has there now, 0: none
    record,       \* pgp.json
    recordFresh,  \* it is younger than the TTL
    keyBuild,     \* the running rebuild: its step, the address it read, its pgpOut; history: the
                  \* address was denied or unkept when it resolved
    refresh,      \* the operator's refresh: its step and the address it read
    keyShown,     \* the address and the key of the generation readers get
    denied,       \* history: addresses whose last answer from the keyserver was "none"
    unkept,       \* history: addresses whose last answer the file does not hold (any more)
    addressChanges, keyChanges, refreshes, outages   \* counters for the bounds

keyBounds == <<addressChanges, keyChanges, refreshes, outages>>
keyVars == <<address, keyserver, record, recordFresh, keyBuild, refresh, keyShown, denied,
             unkept, keyBounds>>

Answer(a, k) == [of |-> a, key |-> k]
NoRecord == Answer(NoAddress, 0)
NoKeyBuild == [at |-> "idle", of |-> NoAddress, out |-> NoRecord, excused |-> FALSE]

KeyInit ==
    /\ address \in Addresses \cup {NoAddress}
    /\ keyserver \in [Addresses -> {0, 1}]
    /\ record = NoRecord /\ recordFresh = FALSE
    /\ keyBuild = NoKeyBuild /\ refresh = [at |-> "idle", of |-> NoAddress]
    /\ keyShown = NoRecord
    /\ denied = {} /\ unkept = {}
    /\ addressChanges = 0 /\ keyChanges = 0 /\ refreshes = 0 /\ outages = 0

-----------------------------------------------------------------------------
(* Resolve: one step, since the cache's mutex is held throughout.            *)

\* What is left when the keyserver does not answer.
LastGood(a) == IF record.of = a THEN record ELSE Answer(a, 0)

\* saveLocked, and the history of the file's one slot.
Save(r) ==
    /\ record' = r /\ recordFresh' = TRUE
    /\ unkept' = (IF record.of \in Addresses \ {r.of} THEN unkept \cup {record.of}
                     ELSE unkept) \ {r.of}

\* No address: the file is removed.
Forget ==
    /\ record' = NoRecord /\ recordFresh' = FALSE
    /\ unkept' = unkept \cup ({record.of} \ {NoAddress})

\* Mutant: any answer but a key is kept as "no key".
FetchFails_Mutant(a, out) == Save(Answer(a, 0)) /\ out = Answer(a, 0) /\ UNCHANGED denied

\* An error, or an answer that is neither a key nor "not found", changes nothing.
FetchFails(a, out) == out = LastGood(a) /\ UNCHANGED <<record, recordFresh, unkept, denied>>

\* A key or "not found", which is kept as well; the file may not take it.
FetchAnswers(a, out) ==
    /\ out = Answer(a, keyserver[a])
    /\ denied' = IF keyserver[a] = 0 THEN denied \cup {a} ELSE denied \ {a}

Resolve(a, force, out) ==
    IF a = NoAddress THEN out = NoRecord /\ Forget /\ UNCHANGED <<denied, outages>>
    ELSE IF ~force /\ record.of = a /\ recordFresh
    THEN out = record /\ UNCHANGED <<record, recordFresh, denied, unkept, outages>>
    ELSE \/ FetchAnswers(a, out) /\ Save(out) /\ UNCHANGED outages
         \/ /\ outages < MaxOutages /\ outages' = outages + 1
            /\ \/ FetchFails(a, out)
               \/ /\ FetchAnswers(a, out) /\ unkept' = unkept \cup {a}
                 /\ UNCHANGED <<record, recordFresh>>

Answers == {NoRecord} \cup {Answer(a, k) : a \in Addresses, k \in 0..(1 + MaxKeyChanges)}

-----------------------------------------------------------------------------
(* Rebuilds and the refresh.                                                 *)

BeginKeyBuild ==
    /\ keyBuild.at = "idle"
    /\ keyBuild' = [NoKeyBuild EXCEPT !.at = "resolve", !.of = address]
    /\ UNCHANGED <<address, keyserver, record, recordFresh, refresh, keyShown, denied, unkept,
                   keyBounds>>

\* resolvePGP: an error is logged, and the record used.
ResolveKey ==
    /\ keyBuild.at = "resolve"
    /\ \E out \in Answers :
         /\ Resolve(keyBuild.of, FALSE, out)
         /\ keyBuild' = [keyBuild EXCEPT !.at = "render", !.out = out,
                                         !.excused = keyBuild.of \in denied' \cup unkept']
    /\ UNCHANGED <<address, keyserver, refresh, keyShown, addressChanges, keyChanges, refreshes>>

\* pgp.asc, the WKD files and the pages show what was resolved; the rebuild may fail.
EndKeyBuild ==
    /\ keyBuild.at = "render"
    /\ keyShown' \in {Answer(keyBuild.of, keyBuild.out.key), keyShown}
    /\ keyBuild' = NoKeyBuild
    /\ UNCHANGED <<address, keyserver, record, recordFresh, refresh, denied, unkept, keyBounds>>

\* RefreshPGP reads the address ...
BeginRefresh ==
    /\ refresh.at = "idle" /\ refreshes < MaxRefreshes
    /\ refreshes' = refreshes + 1
    /\ refresh' = [at |-> "resolve", of |-> address]
    /\ UNCHANGED <<address, keyserver, record, recordFresh, keyBuild, keyShown, denied, unkept,
                   addressChanges, keyChanges, outages>>

\* ... and asks, outside the engine's mutex.  The rebuild it asks for next is like any other.
RefreshKey ==
    /\ refresh.at = "resolve"
    /\ \E out \in Answers : Resolve(refresh.of, TRUE, out)
    /\ refresh' = [at |-> "idle", of |-> NoAddress]
    /\ UNCHANGED <<address, keyserver, keyBuild, keyShown, addressChanges, keyChanges, refreshes>>

-----------------------------------------------------------------------------

\* The operator changes the contact address (module SiteConfig).
ChangeAddress(a) ==
    /\ addressChanges < MaxAddressChanges /\ a # address
    /\ addressChanges' = addressChanges + 1
    /\ address' = a
    /\ UNCHANGED <<keyserver, record, recordFresh, keyBuild, refresh, keyShown, denied, unkept,
                   keyChanges, refreshes, outages>>

\* A key is uploaded, replaced or withdrawn at the keyserver.
ChangeKey(a) ==
    /\ keyChanges < MaxKeyChanges
    /\ keyChanges' = keyChanges + 1
    /\ \E k \in {0, keyserver[a] + 1} \ {keyserver[a]} : keyserver' = [keyserver EXCEPT ![a] = k]
    /\ UNCHANGED <<address, record, recordFresh, keyBuild, refresh, keyShown, denied, unkept,
                   addressChanges, refreshes, outages>>

\* The TTL of the record passes.
Expire ==
    /\ recordFresh /\ recordFresh' = FALSE
    /\ UNCHANGED <<address, keyserver, record, keyBuild, refresh, keyShown, denied, unkept,
                   keyBounds>>

KeyNext ==
    \/ BeginKeyBuild \/ ResolveKey \/ EndKeyBuild
    \/ BeginRefresh \/ RefreshKey
    \/ \E a \in Addresses \cup {NoAddress} : ChangeAddress(a)
    \/ \E a \in Addresses : ChangeKey(a)
    \/ Expire

KeySpec == KeyInit /\ [][KeyNext]_keyVars

-----------------------------------------------------------------------------
(* Properties.                                                              *)

\* A keyserver that is down does not take a published key off the site: the next generation
\* for the same address is without one only when the keyserver has said so, or when the file
\* does not hold the last answer: it could not be written, or its one slot was taken by another
\* address (a refresh that had read the address before it was changed, a change that was
\* rolled back).
OutageKeepsKey ==
    [][keyShown'.of = keyShown.of /\ keyShown.key # 0 /\ keyShown'.key = 0
         => keyBuild.excused]_keyVars
=============================================================================
