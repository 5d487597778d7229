------------------------------- MODULE Limiter -------------------------------
(***************************************************************************)
(* The token buckets that throttle logins, wrong bearer tokens, searches,   *)
(* view beacons and webmentions (internal/server/ratelimit.go): one bucket  *)
(* for each client address, swept once a minute.                            *)
(*                                                                         *)
(* Allow reads the clock before it takes the lock, so calls reach the       *)
(* bucket with readings that are out of order, and a refill can be          *)
(* negative.  Tokens are counted in ticks of the clock: a token is Per      *)
(* ticks, and refilling adds one a tick.                                    *)
(***************************************************************************)
EXTENDS Integers

CONSTANTS
    Clients,     \* the keys
    Callers,     \* goroutines inside Allow
    NoBucket,    \* a key that has no bucket
    Burst, Per,  \* the arguments of newRateLimiter
    SweepEvery,  \* a minute
    MaxWait,     \* bound: ticks between a caller's reading of the clock and its turn
    MaxTicks     \* bound: the clock

ASSUME LimiterAssumption ==
    /\ {Burst, Per, SweepEvery} \subseteq Nat \ {0} /\ {MaxWait, MaxTicks} \subseteq Nat
    /\ NoBucket \notin [tokens : Int, last : Int]

VARIABLES
    tick,        \* the clock
    buckets,     \* for each key, tokens and last
    lastSweep,
    calling,     \* for each caller, the key and the reading it holds
    budget,      \* history: what a bucket nobody sweeps and everybody tells the right
                 \* time to would hold
    drops        \* history: how often the sweep dropped the bucket

limiterVars == <<tick, buckets, lastSweep, calling, budget, drops>>

Ceiling == Burst * Per
Capped(n) == IF n > Ceiling THEN Ceiling ELSE n
Idle == [on |-> FALSE]

LimiterInit ==
    /\ tick = 0 /\ lastSweep = 0
    /\ buckets = [k \in Clients |-> NoBucket]
    /\ calling = [c \in Callers |-> Idle]
    /\ budget = [k \in Clients |-> Ceiling] /\ drops = [k \in Clients |-> 0]

\* Mutant: the time to refill is taken for the number of tokens.
Forgotten_Mutant(b, now) == now - b.last > Burst

\* A bucket that has refilled since may be dropped: a new one starts full.
Forgotten(b, now) == now - b.last > Ceiling

\* sweep
Swept(now) ==
    IF now - lastSweep < SweepEvery THEN buckets
    ELSE [k \in Clients |-> IF buckets[k] = NoBucket THEN NoBucket
                            ELSE IF Forgotten(buckets[k], now) THEN NoBucket ELSE buckets[k]]

ReadClock(c, k) ==
    /\ ~calling[c].on
    /\ calling' = [calling EXCEPT ![c] = [on |-> TRUE, key |-> k, now |-> tick]]
    /\ UNCHANGED <<tick, buckets, lastSweep, budget, drops>>

\* Allow, from the lock on.
Allow(c) ==
    /\ calling[c].on
    /\ LET k      == calling[c].key
           now    == calling[c].now
           kept   == Swept(now)
           b      == IF kept[k] = NoBucket THEN [tokens |-> Ceiling, last |-> now] ELSE kept[k]
           tokens == Capped(b.tokens + now - b.last)
           spent  == IF tokens >= Per THEN Per ELSE 0
       IN /\ buckets' = [kept EXCEPT ![k] = [tokens |-> tokens - spent, last |-> now]]
          /\ lastSweep' = IF now - lastSweep < SweepEvery THEN lastSweep ELSE now
          /\ budget' = [budget EXCEPT ![k] = @ - spent]
          /\ drops' = [x \in Clients |-> drops[x] + IF kept[x] = buckets[x] THEN 0 ELSE 1]
    /\ calling' = [calling EXCEPT ![c] = Idle]
    /\ UNCHANGED tick

TickPasses ==
    /\ tick < MaxTicks
    /\ \A c \in Callers : calling[c].on => tick - calling[c].now < MaxWait
    /\ tick' = tick + 1
    /\ budget' = [k \in Clients |-> Capped(budget[k] + 1)]
    /\ UNCHANGED <<buckets, lastSweep, calling, drops>>

LimiterNext ==
    \/ \E c \in Callers : Allow(c) \/ \E k \in Clients : ReadClock(c, k)
    \/ TickPasses

LimiterSpec == LimiterInit /\ [][LimiterNext]_limiterVars

-----------------------------------------------------------------------------
(* Properties.                                                              *)

\* In no stretch of time is a client let through more often than Burst and one for each
\* Per of it, up to the time a caller may wait for the lock: readings out of order give away
\* that much once, however often they happen, and the sweep no more than twice that each
\* time it drops the bucket.
NeverMoreThanAllowed == \A k \in Clients : budget[k] >= -MaxWait * (1 + 2 * drops[k])
=============================================================================
