---------------------------- MODULE AccessProofs ----------------------------
(***************************************************************************)
(* What stands between a request and its handler, for every number of       *)
(* clients, callers, codes, tokens and requests: the limiter lets nobody    *)
(* through more often than allowed, a code opens one session, and the page  *)
(* of tokens shows their last use.  And what the author is told of those    *)
(* who came through: the numbers on the dashboard add up, for every number  *)
(* of pages, visitors and views.                                            *)
(***************************************************************************)
EXTENDS Limiter, Login, Tokens, Views, FiniteSetTheorems, WellFoundedInduction, TLAPS

-----------------------------------------------------------------------------
(* The limiter.  For a bucket that exists, what counts is what it would     *)
(* hold if it were refilled now; that is never below zero, and a bucket     *)
(* that does not exist counts as one that was filled by a reading as late   *)
(* as readings can be.                                                      *)

Buckets == [tokens : Int, last : Int]
Callings == {Idle} \cup [on : {TRUE}, key : Clients, now : Int]

\* What the bucket of k holds at the present hour.
Refilled(k) == buckets[k].tokens + tick - buckets[k].last

\* What may have been given away to k.
Slack(k) == MaxWait * (1 + 2 * drops[k])

LimiterTypes ==
    /\ tick \in Nat /\ lastSweep \in Int
    /\ buckets \in [Clients -> Buckets \cup {NoBucket}]
    /\ calling \in [Callers -> Callings]
    /\ budget \in [Clients -> Int]
    /\ drops \in [Clients -> Nat]

\* No reading is from the future, or older than a caller may wait.
ReadingsInv ==
    \A c \in Callers : calling[c].on => calling[c].now <= tick /\ tick <= calling[c].now + MaxWait

BucketsInv ==
    \A k \in Clients : buckets[k] # NoBucket =>
        /\ buckets[k].last <= tick
        /\ buckets[k].tokens >= -MaxWait
        /\ Refilled(k) >= 0

BudgetInv ==
    \A k \in Clients :
        \/ budget[k] + Slack(k) >= Ceiling + MaxWait
        \/ buckets[k] # NoBucket /\ budget[k] + Slack(k) >= Refilled(k)

LimiterInv == LimiterTypes /\ ReadingsInv /\ BucketsInv /\ BudgetInv

LEMMA LimiterConstants ==
    /\ Ceiling \in Nat /\ Per \in Nat \ {0} /\ SweepEvery \in Nat \ {0} /\ MaxWait \in Nat
    /\ MaxTicks \in Nat /\ NoBucket \notin Buckets
BY LimiterAssumption DEF Ceiling, Buckets

\* What was given away grows by two waits with each bucket that is dropped.
LEMMA SlackGrows ==
    ASSUME NEW d \in Nat, NEW w \in Nat
    PROVE  /\ w * (1 + 2 * d) \in Nat
           /\ w * (1 + 2 * d) >= w
           /\ w * (1 + 2 * (d + 1)) = w * (1 + 2 * d) + 2 * w
<1>1. w * d \in Nat
  OBVIOUS
<1>2. w * (1 + 2 * d) = w + 2 * (w * d)
  OBVIOUS
<1>3. w * (1 + 2 * (d + 1)) = w + 2 * (w * d) + 2 * w
  OBVIOUS
<1> QED
  BY <1>1, <1>2, <1>3

LEMMA Reading ==
    ASSUME NEW r \in Callings, r.on
    PROVE  r \in [on : {TRUE}, key : Clients, now : Int] /\ r.key \in Clients /\ r.now \in Int
<1>1. r # Idle
  BY DEF Idle
<1> QED
  BY <1>1 DEF Callings

LEMMA LimiterInitially == LimiterInit => LimiterInv
<1> SUFFICES ASSUME LimiterInit PROVE LimiterInv
  OBVIOUS
<1> USE LimiterConstants
<1>1. LimiterTypes /\ ReadingsInv /\ BucketsInv
  BY DEF LimiterInit, LimiterTypes, ReadingsInv, BucketsInv, Callings, Idle
<1>2. ASSUME NEW k \in Clients PROVE budget[k] + Slack(k) >= Ceiling + MaxWait
  BY SlackGrows DEF LimiterInit, Slack
<1> QED
  BY <1>1, <1>2 DEF LimiterInv, BudgetInv

LEMMA ReadClockKeeps ==
    ASSUME LimiterInv, NEW c \in Callers, NEW k \in Clients, ReadClock(c, k)
    PROVE  LimiterInv'
<1> USE LimiterConstants
<1>1. LimiterTypes'
  <2>1. [on |-> TRUE, key |-> k, now |-> tick] \in Callings
    BY DEF LimiterInv, LimiterTypes, Callings
  <2> QED
    BY <2>1 DEF LimiterInv, LimiterTypes, ReadClock
<1>2. ReadingsInv'
  BY DEF LimiterInv, LimiterTypes, ReadingsInv, ReadClock, Callings
<1>3. BucketsInv'
  BY DEF LimiterInv, BucketsInv, Refilled, ReadClock
<1>4. BudgetInv'
  BY DEF LimiterInv, BudgetInv, Refilled, Slack, ReadClock
<1> QED
  BY <1>1, <1>2, <1>3, <1>4 DEF LimiterInv

LEMMA TickKeeps ==
    ASSUME LimiterInv, TickPasses
    PROVE  LimiterInv'
<1> USE LimiterConstants
<1>1. LimiterTypes'
  BY DEF LimiterInv, LimiterTypes, TickPasses, Capped
<1>2. ReadingsInv'
  <2> SUFFICES ASSUME NEW c \in Callers, calling[c].on
               PROVE  calling[c].now <= tick' /\ tick' <= calling[c].now + MaxWait
    BY DEF ReadingsInv, TickPasses
  <2>1. calling[c].now \in Int
    BY Reading DEF LimiterInv, LimiterTypes
  <2> QED
    BY <2>1 DEF LimiterInv, LimiterTypes, ReadingsInv, TickPasses
<1>3. BucketsInv'
  <2> SUFFICES ASSUME NEW k \in Clients, buckets[k] # NoBucket
               PROVE  buckets[k].last <= tick' /\ buckets[k].tokens >= -MaxWait /\ Refilled(k)' >= 0
    BY DEF BucketsInv, TickPasses
  <2> QED
    BY DEF LimiterInv, LimiterTypes, BucketsInv, Refilled, TickPasses, Buckets
<1>4. BudgetInv'
  <2> SUFFICES ASSUME NEW k \in Clients
               PROVE  \/ budget'[k] + Slack(k) >= Ceiling + MaxWait
                      \/ buckets[k] # NoBucket /\ budget'[k] + Slack(k) >= Refilled(k)'
    BY DEF BudgetInv, TickPasses, Slack
  <2>1. budget[k] \in Int /\ budget'[k] = Capped(budget[k] + 1)
    BY DEF LimiterInv, LimiterTypes, TickPasses
  <2>2. Slack(k) \in Nat /\ Slack(k) >= MaxWait
    BY SlackGrows DEF LimiterInv, LimiterTypes, Slack
  <2>3. buckets[k] # NoBucket => Refilled(k) \in Int /\ Refilled(k)' = Refilled(k) + 1
    BY DEF LimiterInv, LimiterTypes, Refilled, TickPasses, Buckets
  <2> QED
    BY <2>1, <2>2, <2>3 DEF LimiterInv, BudgetInv, Capped
<1> QED
  BY <1>1, <1>2, <1>3, <1>4 DEF LimiterInv

\* What the sweep leaves, by a reading that is as old as a caller may wait.
LEMMA SweepKeeps ==
    ASSUME LimiterInv, NEW now \in Int, now <= tick, NEW x \in Clients
    PROVE  /\ Swept(now) \in [Clients -> Buckets \cup {NoBucket}]
           /\ Swept(now)[x] \in {buckets[x], NoBucket}
           /\ Swept(now)[x] # buckets[x] => now > buckets[x].last + Ceiling
<1> USE LimiterConstants
<1>1. buckets \in [Clients -> Buckets \cup {NoBucket}] /\ lastSweep \in Int
  BY DEF LimiterInv, LimiterTypes
<1>2. \A k \in Clients : Forgotten(buckets[k], now) <=> now - buckets[k].last > Ceiling
  BY DEF Forgotten
<1>3. CASE now - lastSweep < SweepEvery
  BY <1>1, <1>3 DEF Swept
<1>4. CASE ~(now - lastSweep < SweepEvery)
  <2>1. Swept(now) = [k \in Clients |-> IF buckets[k] = NoBucket THEN NoBucket
                          ELSE IF Forgotten(buckets[k], now) THEN NoBucket ELSE buckets[k]]
    BY <1>4 DEF Swept
  <2>2. Swept(now) \in [Clients -> Buckets \cup {NoBucket}] /\ Swept(now)[x] \in {buckets[x], NoBucket}
    BY <1>1, <2>1
  <2>3. Swept(now)[x] # buckets[x] => buckets[x] # NoBucket /\ Forgotten(buckets[x], now)
    BY <2>1
  <2>4. buckets[x] # NoBucket => buckets[x].last \in Int
    BY <1>1 DEF Buckets
  <2> QED
    BY <1>2, <2>2, <2>3, <2>4
<1> QED
  BY <1>3, <1>4

LEMMA AllowKeeps ==
    ASSUME LimiterInv, NEW c \in Callers, Allow(c)
    PROVE  LimiterInv'
<1> DEFINE k      == calling[c].key
           now    == calling[c].now
           kept   == Swept(now)
           b      == IF kept[k] = NoBucket THEN [tokens |-> Ceiling, last |-> now] ELSE kept[k]
           tokens == Capped(b.tokens + now - b.last)
           spent  == IF tokens >= Per THEN Per ELSE 0
<1> USE LimiterConstants
<1>1. /\ k \in Clients /\ now \in Int
      /\ now <= tick /\ tick <= now + MaxWait
  <2>1. calling[c] \in Callings /\ calling[c].on
    BY DEF LimiterInv, LimiterTypes, Allow
  <2> QED
    BY <2>1, Reading DEF LimiterInv, ReadingsInv
<1>2. /\ tick \in Nat /\ lastSweep \in Int /\ budget \in [Clients -> Int]
      /\ drops \in [Clients -> Nat] /\ calling \in [Callers -> Callings]
      /\ buckets \in [Clients -> Buckets \cup {NoBucket}]
  BY DEF LimiterInv, LimiterTypes
<1>3. kept \in [Clients -> Buckets \cup {NoBucket}]
  BY <1>1, SweepKeeps
<1>4. /\ tick' = tick
      /\ buckets' = [kept EXCEPT ![k] = [tokens |-> tokens - spent, last |-> now]]
      /\ lastSweep' = IF now - lastSweep < SweepEvery THEN lastSweep ELSE now
      /\ budget' = [budget EXCEPT ![k] = @ - spent]
      /\ drops' = [x \in Clients |-> drops[x] + IF kept[x] = buckets[x] THEN 0 ELSE 1]
      /\ calling' = [calling EXCEPT ![c] = Idle]
  BY DEF Allow
<1>5. b \in Buckets
  BY <1>1, <1>3 DEF Buckets
<1>6. b.tokens \in Int /\ b.last \in Int
  BY <1>5 DEF Buckets
<1>7. /\ tokens \in Int /\ spent \in {0, Per} /\ tokens <= Ceiling
      /\ tokens <= b.tokens + now - b.last
      /\ tokens = Ceiling \/ tokens = b.tokens + now - b.last
      /\ spent = Per => tokens >= Per
  <2>1. /\ tokens \in Int /\ tokens <= Ceiling /\ tokens <= b.tokens + now - b.last
        /\ tokens = Ceiling \/ tokens = b.tokens + now - b.last
    <3> HIDE DEF b, now
    <3> QED
      BY <1>1, <1>6 DEF Capped
  <2>2. spent \in {0, Per} /\ (spent = Per => tokens >= Per)
    <3> HIDE DEF tokens
    <3> QED
      BY <1>1, <2>1
  <2> QED
    BY <2>1, <2>2
<1> HIDE DEF tokens, spent, b, kept, now, k
\* The bucket that is used existed, or is as good as one that has just been refilled.
<1>8. b.tokens + tick - b.last >= 0 /\ b.last <= tick /\ b.tokens >= -MaxWait
  <2>1. CASE kept[k] = NoBucket
    BY <1>1, <1>2, <2>1 DEF b
  <2>2. CASE kept[k] # NoBucket
    <3>1. b = buckets[k] /\ buckets[k] # NoBucket
      BY <1>1, <2>2, SweepKeeps DEF b, kept
    <3> QED
      BY <1>1, <3>1 DEF LimiterInv, BucketsInv, Refilled
  <2> QED
    BY <2>1, <2>2
<1>9. LimiterTypes'
  <2>1. [tokens |-> tokens - spent, last |-> now] \in Buckets
    BY <1>1, <1>7 DEF Buckets
  <2>2. buckets' \in [Clients -> Buckets \cup {NoBucket}]
    BY <1>3, <1>4, <2>1
  <2>3. lastSweep' \in Int /\ tick' \in Nat
    BY <1>1, <1>2, <1>4
  <2>4. calling' \in [Callers -> Callings]
    BY <1>2, <1>4 DEF Callings
  <2>5. budget' \in [Clients -> Int]
    <3>1. budget[k] - spent \in Int
      BY <1>1, <1>2, <1>7
    <3> QED
      BY <1>2, <1>4, <3>1
  <2>6. drops' \in [Clients -> Nat]
    BY <1>2, <1>4
  <2> QED
    BY <2>2, <2>3, <2>4, <2>5, <2>6 DEF LimiterTypes
<1>10. ReadingsInv'
  BY <1>2, <1>4 DEF LimiterInv, ReadingsInv, Idle
\* What the bucket of k holds afterwards, at the present hour.
<1>11. tokens - spent + tick - now >= 0 /\ tokens - spent >= -MaxWait
  BY <1>1, <1>2, <1>6, <1>7, <1>8
<1>12. buckets'[k] = [tokens |-> tokens - spent, last |-> now]
  BY <1>1, <1>3, <1>4
<1>13. BucketsInv'
  <2> SUFFICES ASSUME NEW x \in Clients, buckets'[x] # NoBucket
               PROVE  /\ buckets'[x].last <= tick'
                      /\ buckets'[x].tokens >= -MaxWait
                      /\ Refilled(x)' >= 0
    BY DEF BucketsInv
  <2>1. CASE x = k
    BY <1>1, <1>2, <1>4, <1>7, <1>11, <1>12, <2>1 DEF Refilled
  <2>2. CASE x # k
    <3>1. buckets'[x] = kept[x]
      BY <1>3, <1>4, <2>2
    <3>2. buckets'[x] = buckets[x]
      BY <1>1, <3>1, SweepKeeps DEF kept
    <3> QED
      BY <1>4, <3>2 DEF LimiterInv, BucketsInv, Refilled
  <2> QED
    BY <2>1, <2>2
\* A bucket that the sweep drops would have been all but full.
<1>14. ASSUME NEW x \in Clients
       PROVE  /\ Slack(x) \in Nat
              /\ kept[x] = buckets[x] => Slack(x)' = Slack(x)
              /\ kept[x] # buckets[x] => /\ kept[x] = NoBucket
                                         /\ Slack(x)' = Slack(x) + 2 * MaxWait
                                         /\ budget[x] + Slack(x) + 2 * MaxWait >= Ceiling + MaxWait
  <2>1. drops[x] \in Nat /\ drops'[x] = drops[x] + IF kept[x] = buckets[x] THEN 0 ELSE 1
    BY <1>2, <1>4
  <2>2. /\ Slack(x) \in Nat /\ Slack(x) >= MaxWait
        /\ kept[x] = buckets[x] => Slack(x)' = Slack(x)
        /\ kept[x] # buckets[x] => Slack(x)' = Slack(x) + 2 * MaxWait
    BY <2>1, SlackGrows DEF Slack
  <2>3. ASSUME kept[x] # buckets[x]
        PROVE  kept[x] = NoBucket /\ budget[x] + Slack(x) + 2 * MaxWait >= Ceiling + MaxWait
    <3>1. kept[x] = NoBucket /\ buckets[x] # NoBucket /\ now > buckets[x].last + Ceiling
      BY <1>1, <2>3, SweepKeeps DEF kept
    <3>2. buckets[x].last \in Int /\ buckets[x].tokens \in Int /\ budget[x] \in Int
      BY <1>2, <3>1 DEF Buckets
    <3>3. Refilled(x) >= Ceiling - MaxWait
      BY <1>1, <1>2, <3>1, <3>2 DEF Refilled, LimiterInv, BucketsInv
    <3>4. \/ budget[x] + Slack(x) >= Ceiling + MaxWait
          \/ budget[x] + Slack(x) >= Refilled(x)
      BY DEF LimiterInv, BudgetInv
    <3>5. Refilled(x) \in Int
      BY <1>2, <3>2 DEF Refilled
    <3> QED
      BY <2>2, <3>1, <3>2, <3>3, <3>4, <3>5
  <2> QED
    BY <2>2, <2>3
<1>15. BudgetInv'
  <2> SUFFICES ASSUME NEW x \in Clients
               PROVE  \/ budget'[x] + Slack(x)' >= Ceiling + MaxWait
                      \/ buckets'[x] # NoBucket /\ budget'[x] + Slack(x)' >= Refilled(x)'
    BY DEF BudgetInv
  <2>1. budget[x] \in Int
    BY <1>2
  \* Before k pays.
  <2>2. \/ budget[x] + Slack(x)' >= Ceiling + MaxWait
        \/ kept[x] = buckets[x] /\ buckets[x] # NoBucket /\ budget[x] + Slack(x)' >= Refilled(x)
    BY <1>14, <2>1 DEF LimiterInv, BudgetInv
  <2>3. CASE x # k
    <3>1. budget'[x] = budget[x] /\ buckets'[x] = kept[x]
      BY <1>2, <1>3, <1>4, <2>3
    <3>2. kept[x] = buckets[x] => Refilled(x)' = Refilled(x)
      BY <1>4, <3>1 DEF Refilled
    <3> QED
      BY <2>2, <3>1, <3>2
  <2>4. CASE x = k
    <3>1. budget'[x] = budget[x] - spent
      BY <1>1, <1>2, <1>4, <2>4
    <3>2. Refilled(x)' = tokens - spent + tick - now
      BY <1>4, <1>12, <2>4 DEF Refilled
    <3>3. buckets'[x] # NoBucket
      <4>1. buckets'[x] \in Buckets
        BY <1>1, <1>7, <1>12, <2>4 DEF Buckets
      <4> QED
        BY <4>1
    <3>4. Slack(x)' \in Int
      BY <1>14
    <3>5. CASE budget[x] + Slack(x)' >= Ceiling + MaxWait
      BY <1>1, <1>2, <1>7, <2>1, <3>1, <3>2, <3>3, <3>4, <3>5
    <3>6. CASE kept[x] = buckets[x] /\ buckets[x] # NoBucket /\ budget[x] + Slack(x)' >= Refilled(x)
      <4>1. Refilled(x) = b.tokens + tick - b.last
        BY <2>4, <3>6 DEF Refilled, b
      <4> QED
        BY <1>1, <1>2, <1>6, <1>7, <2>1, <3>1, <3>2, <3>3, <3>4, <3>6, <4>1
    <3> QED
      BY <2>2, <3>5, <3>6
  <2> QED
    BY <2>3, <2>4
<1> QED
  BY <1>9, <1>10, <1>13, <1>15 DEF LimiterInv

\* No client is let through more often than the limiter's arguments allow, up to the time
\* a caller waits for the lock.
THEOREM LimiterIsKept == LimiterSpec => []NeverMoreThanAllowed
<1>1. LimiterInv /\ [LimiterNext]_limiterVars => LimiterInv'
  <2> SUFFICES ASSUME LimiterInv, [LimiterNext]_limiterVars PROVE LimiterInv'
    OBVIOUS
  <2>1. CASE UNCHANGED limiterVars
    BY <2>1 DEF limiterVars, LimiterInv, LimiterTypes, ReadingsInv, BucketsInv, BudgetInv,
                Refilled, Slack
  <2> QED
    BY <2>1, AllowKeeps, ReadClockKeeps, TickKeeps DEF LimiterNext
<1>2. LimiterInv => NeverMoreThanAllowed
  <2> SUFFICES ASSUME LimiterInv, NEW k \in Clients
               PROVE  budget[k] >= -MaxWait * (1 + 2 * drops[k])
    BY DEF NeverMoreThanAllowed
  <2>1. budget[k] \in Int /\ drops[k] \in Nat
    BY DEF LimiterInv, LimiterTypes
  <2>2. Slack(k) \in Nat /\ -MaxWait * (1 + 2 * drops[k]) = -Slack(k)
    BY <2>1, LimiterConstants, SlackGrows DEF Slack
  <2>3. buckets[k] # NoBucket => Refilled(k) \in Int
    BY DEF LimiterInv, LimiterTypes, Refilled, Buckets
  <2> QED
    BY <2>1, <2>2, <2>3, LimiterConstants DEF LimiterInv, BucketsInv, BudgetInv
<1> QED
  BY <1>1, <1>2, LimiterInitially, PTL DEF LimiterSpec

-----------------------------------------------------------------------------
(* Logins.  A code that was accepted is marked, or the clock has left the   *)
(* periods it is good in: a mark is kept for longer than that.              *)

Marks == [period : Nat, seen : Nat]

LoginTypes ==
    /\ clock \in Nat
    /\ usedTOTP \subseteq Marks
    /\ attempt \in [Browsers -> {NoAttempt} \cup [code : Codes]]
    /\ admitted \in [Codes -> Nat]

\* A mark was made while the code was good.
MarksInv == \A u \in usedTOTP : u.seen <= clock /\ u.period <= Period(u.seen) + 1

SpentInv ==
    \A s \in Codes : admitted[s] # 0 =>
        /\ admitted[s] = 1
        /\ Period(clock) > s + 1 \/ \E u \in usedTOTP : u.period = s

LoginInv == LoginTypes /\ MarksInv /\ SpentInv

\* The periods of two moments.
LEMMA Periods ==
    ASSUME NEW t \in Nat, NEW u \in Nat, t <= u
    PROVE  /\ Period(t) \in Nat
           /\ Period(t) <= Period(u)
           /\ u - t > 5 * TotpPeriod => Period(u) > Period(t) + 2
<1> DEFINE P == TotpPeriod
<1>1. P \in Nat \ {0}
  BY LoginAssumption
<1>2. ASSUME NEW x \in Nat
      PROVE  Period(x) \in Nat /\ P * Period(x) <= x /\ x < P * Period(x) + P
  BY <1>1, <1>2 DEF Period
<1> HIDE DEF P
<1>3. ASSUME NEW a \in Nat, NEW b \in Nat, P * a < P * b + P PROVE a <= b
  <2> SUFFICES ASSUME a >= b + 1 PROVE FALSE
    OBVIOUS
  <2>1. a - (b + 1) \in Nat
    OBVIOUS
  <2>2. P * (a - (b + 1)) \in Nat
    BY <1>1, <2>1
  <2>3. P * a = P * (a - (b + 1)) + P * b + P
    BY <1>1
  <2> QED
    BY <1>1, <1>3, <2>2, <2>3
<1>4. Period(t) <= Period(u)
  <2>1. /\ P * Period(t) \in Nat /\ P * Period(t) <= t
        /\ P * Period(u) \in Nat /\ u < P * Period(u) + P
    BY <1>1, <1>2
  <2>2. P * Period(t) < P * Period(u) + P
    BY <1>1, <2>1
  <2> QED
    BY <1>2, <1>3, <2>2
<1>5. ASSUME u - t > 5 * P PROVE Period(u) > Period(t) + 2
  <2>1. P * (Period(t) + 3) = P * Period(t) + 3 * P
    BY <1>1, <1>2
  <2>2. P * (Period(t) + 3) < P * Period(u) + P
    BY <1>1, <1>2, <1>5, <2>1
  <2> QED
    BY <1>2, <1>3, <2>2
<1> QED
  BY <1>2, <1>4, <1>5 DEF P

LEMMA LoginInitially == LoginInit => LoginInv
<1> SUFFICES ASSUME LoginInit PROVE LoginInv
  OBVIOUS
<1>1. LoginTypes
  BY LoginAssumption DEF LoginInit, LoginTypes
<1> QED
  BY <1>1 DEF LoginInit, LoginInv, MarksInv, SpentInv

LEMMA CheckKeeps ==
    ASSUME LoginInv, NEW b \in Browsers, NEW code \in Codes, CheckBoth(b, code)
    PROVE  LoginInv'
<1>1. LoginTypes'
  BY DEF LoginInv, LoginTypes, CheckBoth
<1> QED
  BY <1>1 DEF LoginInv, MarksInv, SpentInv, CheckBoth

LEMMA ConsumeKeeps ==
    ASSUME LoginInv, NEW b \in Browsers, Consume(b)
    PROVE  LoginInv'
<1> DEFINE code == attempt[b].code
           kept == {u \in usedTOTP : ~Outdated(u)}
           good == Validates(code) /\ ~\E u \in kept : u.period = code
           mark == [period |-> code, seen |-> clock]
<1>1. code \in Codes /\ code \in Nat /\ clock \in Nat /\ TotpPeriod \in Nat
  BY LoginAssumption DEF LoginInv, LoginTypes, Consume
<1>2. /\ clock' = clock
      /\ attempt' = [attempt EXCEPT ![b] = NoAttempt]
      /\ usedTOTP' = kept \cup IF good THEN {mark} ELSE {}
      /\ admitted' = IF good THEN [admitted EXCEPT ![code] = @ + 1] ELSE admitted
  BY DEF Consume
<1>3. \A u \in usedTOTP : u \in Marks /\ u.seen \in Nat /\ u.period \in Nat
  BY DEF LoginInv, LoginTypes, Marks
\* What is dropped is a code's mark no longer.
<1>4. ASSUME NEW u \in usedTOTP, Outdated(u)
      PROVE  Period(clock) > u.period + 1
  <2>1. u.seen \in Nat /\ u.period \in Nat /\ u.seen <= clock /\ u.period <= Period(u.seen) + 1
    BY <1>3 DEF LoginInv, MarksInv
  <2>2. clock - u.seen > 5 * TotpPeriod
    BY <1>4 DEF Outdated
  <2>3. Period(u.seen) \in Nat /\ Period(clock) > Period(u.seen) + 2 /\ Period(clock) \in Nat
    BY <1>1, <2>1, <2>2, Periods
  <2> QED
    BY <2>1, <2>3
<1>5. mark \in Marks
  BY <1>1 DEF Marks
<1>6. LoginTypes'
  <2>1. usedTOTP' \subseteq Marks
    BY <1>2, <1>3, <1>5
  <2>2. attempt' \in [Browsers -> {NoAttempt} \cup [code : Codes]]
    BY <1>2 DEF LoginInv, LoginTypes
  <2>3. admitted' \in [Codes -> Nat]
    BY <1>1, <1>2 DEF LoginInv, LoginTypes
  <2> QED
    BY <1>1, <1>2, <2>1, <2>2, <2>3 DEF LoginTypes
<1>7. MarksInv'
  <2> SUFFICES ASSUME NEW u \in usedTOTP' PROVE u.seen <= clock /\ u.period <= Period(u.seen) + 1
    BY <1>2 DEF MarksInv, Period
  <2>1. CASE u \in usedTOTP
    BY <2>1 DEF LoginInv, MarksInv
  <2>2. CASE u = mark /\ good
    <3>1. Period(clock) \in Nat
      BY <1>1, Periods
    <3>2. code <= Period(clock) + 1
      BY <1>1, <2>2, <3>1 DEF Validates
    <3> QED
      BY <1>1, <2>2, <3>2
  <2> QED
    BY <1>2, <2>1, <2>2
<1>8. SpentInv'
  <2> SUFFICES ASSUME NEW s \in Codes, admitted'[s] # 0
               PROVE  /\ admitted'[s] = 1
                      /\ Period(clock) > s + 1 \/ \E u \in usedTOTP' : u.period = s
    BY <1>2 DEF SpentInv, Period
  <2>1. admitted \in [Codes -> Nat]
    BY DEF LoginInv, LoginTypes
  <2>2. ASSUME admitted[s] # 0
        PROVE  /\ admitted[s] = 1
               /\ Period(clock) > s + 1 \/ \E u \in kept : u.period = s
    <3>1. CASE Period(clock) > s + 1
      BY <2>2, <3>1 DEF LoginInv, SpentInv
    <3>2. CASE ~(Period(clock) > s + 1)
      <4>1. PICK u \in usedTOTP : u.period = s
        BY <2>2, <3>2 DEF LoginInv, SpentInv
      <4>2. u \in kept
        BY <1>4, <3>2, <4>1
      <4> QED
        BY <2>2, <4>1, <4>2 DEF LoginInv, SpentInv
    <3> QED
      BY <3>1, <3>2
  <2>3. CASE ~good \/ s # code
    <3>1. admitted'[s] = admitted[s]
      BY <1>1, <1>2, <2>1, <2>3
    <3> QED
      BY <1>2, <2>2, <3>1
  <2>4. CASE good /\ s = code
    <3>1. ~(Period(clock) > code + 1)
      <4>1. Period(clock) \in Nat /\ code \in Period(clock) - 1 .. Period(clock) + 1
        BY <1>1, <2>4, Periods DEF Validates
      <4> QED
        BY <1>1, <4>1
    <3>2. admitted[code] = 0
      BY <2>2, <2>4, <3>1
    <3>3. admitted'[code] = 1
      BY <1>1, <1>2, <2>1, <2>4, <3>2
    <3>4. mark \in usedTOTP' /\ mark.period = s
      BY <1>2, <2>4
    <3> QED
      BY <2>4, <3>3, <3>4
  <2> QED
    BY <2>3, <2>4
<1> QED
  BY <1>6, <1>7, <1>8 DEF LoginInv

LEMMA ClockKeeps ==
    ASSUME LoginInv, ClockTicks
    PROVE  LoginInv'
<1>1. clock \in Nat /\ clock' = clock + 1 /\ clock <= clock' /\ clock' \in Nat
  BY DEF LoginInv, LoginTypes, ClockTicks
<1>2. Period(clock) \in Nat /\ Period(clock') \in Nat /\ Period(clock) <= Period(clock')
  BY <1>1, Periods
<1>3. LoginTypes'
  BY <1>1 DEF LoginInv, LoginTypes, ClockTicks
<1>4. MarksInv'
  BY <1>1 DEF LoginInv, LoginTypes, MarksInv, Marks, ClockTicks, Period
<1>5. SpentInv'
  <2> SUFFICES ASSUME NEW s \in Codes, admitted[s] # 0
               PROVE  /\ admitted[s] = 1
                      /\ Period(clock') > s + 1 \/ \E u \in usedTOTP : u.period = s
    BY DEF SpentInv, ClockTicks, Period
  <2>1. s \in Nat
    BY LoginAssumption
  <2> QED
    BY <1>2, <2>1 DEF LoginInv, SpentInv
<1> QED
  BY <1>3, <1>4, <1>5 DEF LoginInv

LEMMA RestartKeepsLogins ==
    ASSUME LoginInv, RestartLogin
    PROVE  LoginInv'
<1>1. LoginTypes'
  BY DEF LoginInv, LoginTypes, RestartLogin
<1> QED
  BY <1>1 DEF LoginInv, MarksInv, SpentInv, RestartLogin

\* In the life of a process no code opens two sessions, whatever requests are validated side
\* by side and however marks are dropped.
THEOREM CodesAreSpentAlways == LoginSpec => []CodesAreSpent
<1>1. LoginInv /\ [LoginNext]_loginVars => LoginInv'
  <2> SUFFICES ASSUME LoginInv, [LoginNext]_loginVars PROVE LoginInv'
    OBVIOUS
  <2>1. CASE UNCHANGED loginVars
    BY <2>1 DEF loginVars, LoginInv, LoginTypes, MarksInv, SpentInv, Period
  <2> QED
    BY <2>1, CheckKeeps, ConsumeKeeps, ClockKeeps, RestartKeepsLogins DEF LoginNext
<1>2. LoginInv => CodesAreSpent
  BY DEF LoginInv, LoginTypes, SpentInv, CodesAreSpent
<1> QED
  BY <1>1, <1>2, LoginInitially, PTL DEF LoginSpec

-----------------------------------------------------------------------------
(* Tokens.  A use that was found worth a write is in the table, on its way  *)
(* there, or lost; a use that was not comes less than a minute after one    *)
(* that was.                                                                *)

Rows == [scopes : SUBSET Scopes, lastUsed : Nat \cup {Never}, revoked : BOOLEAN]
InFlight == [at : {"touch", "write"}, id : Ids, now : Nat]

TokenTypes ==
    /\ time \in Nat
    /\ apiTokens \in [Ids -> Rows \cup {NotMinted}]
    /\ tokenTouched \in [Ids -> Nat \cup {Never}]
    /\ lastAdmitted \in [Ids -> Nat \cup {Never}]
    /\ request \in [Requests -> {NoRequest} \cup InFlight]
    /\ unrecorded \subseteq Ids

\* Nothing is later than now.
TimesInv ==
    /\ \A i \in Ids : tokenTouched[i] <= time /\ lastAdmitted[i] <= time
    /\ \A q \in Requests : request[q] # NoRequest => request[q].now <= time

\* Before a token is minted nobody brings it.
MintedInv ==
    \A i \in Ids : apiTokens[i] = NotMinted =>
        /\ tokenTouched[i] = Never /\ lastAdmitted[i] = Never
        /\ \A q \in Requests : request[q] # NoRequest => request[q].id # i

Lost(i) == i \in unrecorded \/ Writing(i)

TouchedInv ==
    \A i \in Ids : tokenTouched[i] # Never => Lost(i) \/ apiTokens[i].lastUsed >= tokenTouched[i]

TokensInv == TokenTypes /\ TimesInv /\ MintedInv /\ TouchedInv /\ LastUseIsShown

LEMMA TokenConstants ==
    /\ NotMinted \notin Rows /\ Minute \in Nat \ {0} /\ Offered \subseteq SUBSET Scopes
    /\ Never \in Int /\ Never < 0 /\ Never \notin Nat
<1>1. Rows \subseteq [scopes : SUBSET Scopes, lastUsed : Int, revoked : BOOLEAN]
  BY DEF Rows, Never
<1> QED
  BY <1>1, TokensAssumption DEF Never

\* A request with a token, and what it carries.
LEMMA Carried ==
    ASSUME TokenTypes, NEW q \in Requests
    PROVE  /\ request[q] # NoRequest <=> request[q].at \in {"touch", "write"}
           /\ request[q] # NoRequest => /\ request[q] \in InFlight
                                        /\ request[q].id \in Ids /\ request[q].now \in Nat
<1>1. request[q] \in {NoRequest} \cup InFlight
  BY DEF TokenTypes
<1>2. NoRequest.at \notin {"touch", "write"}
  BY DEF NoRequest
<1>3. request[q] \in InFlight => /\ request[q].at \in {"touch", "write"}
                                 /\ request[q].id \in Ids /\ request[q].now \in Nat
  BY DEF InFlight
<1> QED
  BY <1>1, <1>2, <1>3

LEMMA TokensInitially == TokensInit => TokensInv
<1> SUFFICES ASSUME TokensInit PROVE TokensInv
  OBVIOUS
<1>1. TokenTypes
  BY TokenConstants DEF TokensInit, TokenTypes, NoRequest
<1> QED
  BY <1>1, TokenConstants DEF TokensInit, TokensInv, TimesInv, MintedInv, TouchedInv, LastUseIsShown, Lost

LEMMA MintKeeps ==
    ASSUME TokensInv, NEW i \in Ids, NEW chosen \in Offered, NEW knows \in BOOLEAN,
           Mint(i, chosen, knows)
    PROVE  TokensInv'
<1> DEFINE row == [scopes |-> IF chosen = {} THEN {"read", "drafts"} ELSE chosen,
                   lastUsed |-> Never, revoked |-> FALSE]
<1>1. row \in Rows
  BY TokenConstants DEF Rows, Scopes
<1>2. /\ apiTokens' = [apiTokens EXCEPT ![i] = row]
      /\ UNCHANGED <<time, tokenTouched, request, lastAdmitted, unrecorded>>
      /\ apiTokens \in [Ids -> Rows \cup {NotMinted}]
  BY DEF Mint, TokensInv, TokenTypes
<1> HIDE DEF row
<1>3. TokenTypes'
  BY <1>1, <1>2 DEF TokensInv, TokenTypes
<1>4. tokenTouched[i] = Never /\ lastAdmitted[i] = Never
  BY DEF TokensInv, MintedInv, Mint
<1>5. \A x \in Ids : Lost(x)' <=> Lost(x)
  BY <1>2 DEF Lost, Writing
<1>6. \A x \in Ids : x # i => apiTokens'[x] = apiTokens[x]
  BY <1>2
<1>7. TimesInv'
  BY <1>2 DEF TokensInv, TimesInv
<1>8. MintedInv'
  BY <1>1, <1>2, <1>6, TokenConstants DEF TokensInv, MintedInv
<1>9. TouchedInv'
  BY <1>2, <1>4, <1>5, <1>6 DEF TokensInv, TouchedInv
<1>10. LastUseIsShown'
  BY <1>2, <1>4, <1>5, <1>6 DEF TokensInv, LastUseIsShown, Lost
<1> QED
  BY <1>3, <1>7, <1>8, <1>9, <1>10 DEF TokensInv

LEMMA RevokeKeeps ==
    ASSUME TokensInv, NEW i \in Ids, Revoke(i)
    PROVE  TokensInv'
<1>1. /\ apiTokens' = [apiTokens EXCEPT ![i].revoked = TRUE]
      /\ UNCHANGED <<time, tokenTouched, request, lastAdmitted, unrecorded>>
      /\ apiTokens \in [Ids -> Rows \cup {NotMinted}]
      /\ apiTokens[i] # NotMinted
  BY DEF Revoke, TokensInv, TokenTypes
<1>2. apiTokens[i] \in Rows
  BY <1>1
<1>3. apiTokens'[i] = [apiTokens[i] EXCEPT !.revoked = TRUE]
  BY <1>1
<1>4. apiTokens'[i] \in Rows /\ apiTokens'[i].lastUsed = apiTokens[i].lastUsed
  BY <1>2, <1>3 DEF Rows
<1>5. TokenTypes'
  BY <1>1, <1>4 DEF TokensInv, TokenTypes
<1>6. \A x \in Ids : Lost(x)' <=> Lost(x)
  BY <1>1 DEF Lost, Writing
<1>7. \A x \in Ids : x # i => apiTokens'[x] = apiTokens[x]
  BY <1>1
<1>8. TimesInv'
  BY <1>1 DEF TokensInv, TimesInv
<1>9. MintedInv'
  BY <1>1, <1>4, <1>7, TokenConstants DEF TokensInv, MintedInv
<1>10. TouchedInv'
  BY <1>1, <1>4, <1>6, <1>7 DEF TokensInv, TouchedInv
<1>11. LastUseIsShown'
  BY <1>1, <1>4, <1>6, <1>7 DEF TokensInv, LastUseIsShown, Lost
<1> QED
  BY <1>5, <1>8, <1>9, <1>10, <1>11 DEF TokensInv

LEMMA LookupKeeps ==
    ASSUME TokensInv, NEW q \in Requests, NEW i \in Ids, Lookup(q, i)
    PROVE  TokensInv'
<1> DEFINE r == [at |-> "touch", id |-> i, now |-> time]
<1>1. /\ request' = [request EXCEPT ![q] = r]
      /\ UNCHANGED <<time, apiTokens, tokenTouched, lastAdmitted, unrecorded>>
      /\ request \in [Requests -> {NoRequest} \cup InFlight]
      /\ apiTokens[i] # NotMinted /\ request[q] = NoRequest /\ time \in Nat
  BY DEF Lookup, TokensInv, TokenTypes
<1>2. r \in InFlight
  BY <1>1 DEF InFlight
<1>3. request'[q] = r /\ \A p \in Requests : p # q => request'[p] = request[p]
  BY <1>1
<1>4. TokenTypes'
  BY <1>1, <1>2 DEF TokensInv, TokenTypes
<1>5. ASSUME NEW x \in Ids PROVE Lost(x)' <=> Lost(x)
  BY <1>1, <1>3 DEF Lost, Writing, NoRequest
<1>6. TimesInv'
  BY <1>1, <1>3 DEF TokensInv, TimesInv
<1>7. MintedInv'
  BY <1>1, <1>3 DEF TokensInv, MintedInv
<1>8. TouchedInv'
  BY <1>1, <1>5 DEF TokensInv, TouchedInv
<1>9. LastUseIsShown'
  BY <1>1, <1>5 DEF TokensInv, LastUseIsShown, Lost
<1> QED
  BY <1>4, <1>6, <1>7, <1>8, <1>9 DEF TokensInv

LEMMA TouchKeeps ==
    ASSUME TokensInv, NEW q \in Requests, Touch(q)
    PROVE  TokensInv'
<1> DEFINE i   == request[q].id
           now == request[q].now
<1>1. /\ time \in Nat /\ apiTokens \in [Ids -> Rows \cup {NotMinted}]
      /\ tokenTouched \in [Ids -> Nat \cup {Never}] /\ lastAdmitted \in [Ids -> Nat \cup {Never}]
      /\ request \in [Requests -> {NoRequest} \cup InFlight]
  BY DEF TokensInv, TokenTypes
<1>2. request[q].at = "touch" /\ request[q] # NoRequest /\ request[q] \in InFlight
  BY Carried DEF Touch, TokensInv
<1>3. i \in Ids /\ now \in Nat /\ now <= time
  BY <1>2, Carried DEF TokensInv, TimesInv
<1>4. /\ UNCHANGED <<time, apiTokens, unrecorded>>
      /\ tokenTouched' = [tokenTouched EXCEPT ![i] = Touched(i, now)]
  BY DEF Touch
<1>5. apiTokens[i] \in Rows
  BY <1>1, <1>2, <1>3 DEF TokensInv, MintedInv
<1>6. apiTokens[i].lastUsed \in Nat \cup {Never}
  BY <1>5 DEF Rows
<1>7. \A x \in Ids : x # i => tokenTouched'[x] = tokenTouched[x]
  BY <1>4
<1>8. CASE JustTouched(i, now)
  <2>1. tokenTouched' = tokenTouched
    BY <1>1, <1>3, <1>4, <1>8 DEF Touched
  <2>2. /\ request' = [request EXCEPT ![q] = NoRequest]
        /\ lastAdmitted' = [lastAdmitted EXCEPT ![i] = IF now > @ THEN now ELSE @]
    BY <1>8 DEF Touch, Admit
  <2>3. \A p \in Requests : request'[p] = IF p = q THEN NoRequest ELSE request[p]
    BY <1>1, <2>2
  <2>4. /\ \A x \in Ids : x # i => lastAdmitted'[x] = lastAdmitted[x]
        /\ lastAdmitted'[i] = IF now > lastAdmitted[i] THEN now ELSE lastAdmitted[i]
    BY <1>1, <1>3, <2>2
  <2>5. TokenTypes'
    <3>1. lastAdmitted' \in [Ids -> Nat \cup {Never}]
      BY <1>1, <1>3, <2>2
    <3>2. request' \in [Requests -> {NoRequest} \cup InFlight]
      BY <1>1, <2>2
    <3> QED
      BY <1>4, <2>1, <3>1, <3>2 DEF TokensInv, TokenTypes
  <2>6. ASSUME NEW x \in Ids PROVE Lost(x)' <=> Lost(x)
    <3>1. NoRequest.at # "write"
      BY DEF NoRequest
    <3> QED
      BY <1>2, <1>4, <2>3, <3>1 DEF Lost, Writing
  <2>7. TimesInv'
    BY <1>3, <1>4, <2>1, <2>3, <2>4 DEF TokensInv, TimesInv
  <2>8. MintedInv'
    BY <1>2, <1>4, <2>1, <2>3, <2>4 DEF TokensInv, MintedInv
  <2>9. TouchedInv'
    BY <1>4, <2>1, <2>6 DEF TokensInv, TouchedInv
  <2>10. LastUseIsShown'
    <3> SUFFICES ASSUME NEW x \in Ids, lastAdmitted'[x] # Never, ~Lost(x)'
                 PROVE  /\ apiTokens[x].lastUsed # Never
                        /\ lastAdmitted'[x] - apiTokens[x].lastUsed < Minute
      BY <1>4 DEF LastUseIsShown, Lost
    <3>1. ~Lost(x)
      BY <2>6
    <3>2. CASE lastAdmitted'[x] = lastAdmitted[x]
      BY <3>1, <3>2 DEF TokensInv, LastUseIsShown, Lost
    <3>3. CASE lastAdmitted'[x] # lastAdmitted[x]
      <4>1. x = i /\ lastAdmitted'[x] = now
        BY <2>4, <3>3
      <4>2. tokenTouched[i] # Never /\ now - tokenTouched[i] < Minute
        BY <1>8 DEF JustTouched
      <4>3. apiTokens[i].lastUsed >= tokenTouched[i]
        BY <1>3, <3>1, <4>1, <4>2 DEF TokensInv, TouchedInv
      <4>4. tokenTouched[i] \in Nat
        BY <1>1, <1>3, <4>2
      <4> QED
        BY <1>3, <1>6, <4>1, <4>2, <4>3, <4>4, TokenConstants
    <3> QED
      BY <3>2, <3>3
  <2> QED
    BY <2>5, <2>7, <2>8, <2>9, <2>10 DEF TokensInv
<1>9. CASE ~JustTouched(i, now)
  <2>1. /\ request' = [request EXCEPT ![q].at = "write"]
        /\ lastAdmitted' = lastAdmitted
        /\ tokenTouched' = [tokenTouched EXCEPT ![i] = now]
    BY <1>4, <1>9 DEF Touch, Touched
  <2>2. /\ request'[q] = [request[q] EXCEPT !.at = "write"]
        /\ \A p \in Requests : p # q => request'[p] = request[p]
    BY <1>1, <2>1
  <2>3. /\ request'[q] \in InFlight /\ request'[q].at = "write"
        /\ request'[q].id = i /\ request'[q].now = now
    BY <1>2, <2>2 DEF InFlight
  <2>4. TokenTypes'
    <3>1. tokenTouched' \in [Ids -> Nat \cup {Never}]
      BY <1>1, <1>3, <2>1
    <3>2. request' \in [Requests -> {NoRequest} \cup InFlight]
      BY <1>1, <2>1, <2>3
    <3> QED
      BY <1>4, <2>1, <3>1, <3>2 DEF TokensInv, TokenTypes
  <2>5. tokenTouched'[i] = now /\ \A x \in Ids : x # i => tokenTouched'[x] = tokenTouched[x]
    BY <1>1, <1>3, <2>1
  <2>6. ASSUME NEW x \in Ids PROVE Lost(x) => Lost(x)'
    <3>1. ASSUME NEW p \in Requests, request[p].at = "write", request[p].id = x
          PROVE  request'[p].at = "write" /\ request'[p].id = x
      BY <1>2, <2>2, <3>1
    <3> QED
      BY <1>4, <3>1 DEF Lost, Writing
  <2>7. ASSUME NEW x \in Ids, x = i PROVE Lost(x)'
    BY <2>3, <2>7 DEF Lost, Writing
  <2>8. TimesInv'
    BY <1>3, <1>4, <2>1, <2>2, <2>3, <2>5 DEF TokensInv, TimesInv
  <2>9. MintedInv'
    <3> SUFFICES ASSUME NEW x \in Ids, apiTokens[x] = NotMinted
                 PROVE  /\ tokenTouched'[x] = Never /\ lastAdmitted[x] = Never
                        /\ \A p \in Requests : request'[p] # NoRequest => request'[p].id # x
      BY <1>4, <2>1 DEF MintedInv
    <3>1. x # i
      BY <1>5, TokenConstants
    <3>2. /\ tokenTouched[x] = Never /\ lastAdmitted[x] = Never
          /\ \A p \in Requests : request[p] # NoRequest => request[p].id # x
      BY DEF TokensInv, MintedInv
    <3>3. tokenTouched'[x] = Never /\ lastAdmitted[x] = Never
      BY <2>5, <3>1, <3>2
    <3>4. ASSUME NEW p \in Requests, request'[p] # NoRequest PROVE request'[p].id # x
      <4>1. CASE p = q
        BY <2>3, <3>1, <4>1
      <4>2. CASE p # q
        BY <2>2, <3>2, <3>4, <4>2
      <4> QED
        BY <4>1, <4>2
    <3> QED
      BY <3>3, <3>4
  <2>10. TouchedInv'
    <3> SUFFICES ASSUME NEW x \in Ids, tokenTouched'[x] # Never
                 PROVE  Lost(x)' \/ apiTokens[x].lastUsed >= tokenTouched'[x]
      BY <1>4 DEF TouchedInv
    <3>1. CASE x = i
      BY <2>7, <3>1
    <3>2. CASE x # i
      BY <2>5, <2>6, <3>2 DEF TokensInv, TouchedInv
    <3> QED
      BY <3>1, <3>2
  <2>11. LastUseIsShown'
    BY <1>4, <2>1, <2>6 DEF TokensInv, LastUseIsShown, Lost
  <2> QED
    BY <2>4, <2>8, <2>9, <2>10, <2>11 DEF TokensInv
<1> QED
  BY <1>8, <1>9

LEMMA WriteKeeps ==
    ASSUME TokensInv, NEW q \in Requests, NEW ok \in BOOLEAN, WriteUse(q, ok)
    PROVE  TokensInv'
<1> DEFINE i   == request[q].id
           now == request[q].now
<1>1. /\ time \in Nat /\ apiTokens \in [Ids -> Rows \cup {NotMinted}]
      /\ tokenTouched \in [Ids -> Nat \cup {Never}] /\ lastAdmitted \in [Ids -> Nat \cup {Never}]
      /\ request \in [Requests -> {NoRequest} \cup InFlight] /\ unrecorded \subseteq Ids
  BY DEF TokensInv, TokenTypes
<1>2. request[q].at = "write" /\ request[q] # NoRequest
  BY Carried DEF WriteUse, TokensInv
<1>3. i \in Ids /\ now \in Nat /\ now <= time
  BY <1>2, Carried DEF TokensInv, TimesInv
<1>4. /\ UNCHANGED <<time, tokenTouched>>
      /\ request' = [request EXCEPT ![q] = NoRequest]
      /\ lastAdmitted' = [lastAdmitted EXCEPT ![i] = IF now > @ THEN now ELSE @]
      /\ IF ok THEN /\ apiTokens' = [apiTokens EXCEPT ![i].lastUsed = time]
                    /\ unrecorded' = unrecorded \ {i}
         ELSE unrecorded' = unrecorded \cup {i} /\ apiTokens' = apiTokens
  BY DEF WriteUse, Admit
<1>5. apiTokens[i] \in Rows
  BY <1>1, <1>2, <1>3 DEF TokensInv, MintedInv
<1>6. \A p \in Requests : request'[p] = IF p = q THEN NoRequest ELSE request[p]
  BY <1>1, <1>4
<1>7. /\ \A x \in Ids : x # i => lastAdmitted'[x] = lastAdmitted[x] /\ apiTokens'[x] = apiTokens[x]
      /\ lastAdmitted'[i] = IF now > lastAdmitted[i] THEN now ELSE lastAdmitted[i]
  BY <1>1, <1>3, <1>4
<1>8. apiTokens'[i] \in Rows /\ ok => apiTokens'[i].lastUsed = time
  BY <1>1, <1>3, <1>4, <1>5 DEF Rows
<1>9. apiTokens'[i] \in Rows
  <2>1. CASE ok
    <3>1. apiTokens'[i] = [apiTokens[i] EXCEPT !.lastUsed = time]
      BY <1>1, <1>3, <1>4, <2>1
    <3> QED
      BY <1>1, <1>5, <3>1 DEF Rows
  <2> QED
    BY <1>4, <1>5, <2>1
<1>10. TokenTypes'
  <2>1. lastAdmitted' \in [Ids -> Nat \cup {Never}]
    BY <1>1, <1>3, <1>4
  <2>2. apiTokens' \in [Ids -> Rows \cup {NotMinted}]
    <3>1. apiTokens' = [apiTokens EXCEPT ![i] = apiTokens'[i]]
      BY <1>1, <1>3, <1>4
    <3> QED
      BY <1>1, <1>9, <3>1
  <2>3. request' \in [Requests -> {NoRequest} \cup InFlight] /\ unrecorded' \subseteq Ids
    BY <1>1, <1>3, <1>4
  <2> QED
    BY <1>1, <1>4, <2>1, <2>2, <2>3 DEF TokenTypes
<1>11. TimesInv'
  BY <1>1, <1>3, <1>4, <1>6, <1>7 DEF TokensInv, TimesInv
<1>12. MintedInv'
  <2> SUFFICES ASSUME NEW x \in Ids, apiTokens'[x] = NotMinted
               PROVE  /\ tokenTouched[x] = Never /\ lastAdmitted'[x] = Never
                      /\ \A p \in Requests : request'[p] # NoRequest => request'[p].id # x
    BY <1>4 DEF MintedInv
  <2>1. x # i /\ apiTokens[x] = NotMinted
    BY <1>7, <1>9, TokenConstants
  <2> QED
    BY <1>6, <1>7, <2>1 DEF TokensInv, MintedInv
\* Of other tokens nothing changes; this one's use is in the table now, or lost.
<1>13. ASSUME NEW x \in Ids, x # i PROVE Lost(x) => Lost(x)'
  BY <1>4, <1>6, <1>13 DEF Lost, Writing
<1>14. ASSUME NEW x \in Ids, x = i, ~ok PROVE Lost(x)'
  BY <1>3, <1>4, <1>14 DEF Lost
<1>15. ok => apiTokens'[i].lastUsed = time
  BY <1>8, <1>9
<1>16. TouchedInv'
  <2> SUFFICES ASSUME NEW x \in Ids, tokenTouched[x] # Never
               PROVE  Lost(x)' \/ apiTokens'[x].lastUsed >= tokenTouched[x]
    BY <1>4 DEF TouchedInv
  <2>1. tokenTouched[x] <= time /\ tokenTouched[x] \in Int
    BY <1>1, TokenConstants DEF TokensInv, TimesInv
  <2>2. CASE x # i
    BY <1>7, <1>13, <2>2 DEF TokensInv, TouchedInv
  <2>3. CASE x = i /\ ok
    BY <1>1, <1>15, <2>1, <2>3
  <2>4. CASE x = i /\ ~ok
    BY <1>14, <2>4
  <2> QED
    BY <2>2, <2>3, <2>4
<1>17. LastUseIsShown'
  <2> SUFFICES ASSUME NEW x \in Ids, lastAdmitted'[x] # Never, ~Lost(x)'
               PROVE  /\ apiTokens'[x].lastUsed # Never
                      /\ lastAdmitted'[x] - apiTokens'[x].lastUsed < Minute
    BY DEF LastUseIsShown, Lost
  <2>1. CASE x # i
    BY <1>7, <1>13, <2>1 DEF TokensInv, LastUseIsShown, Lost
  <2>2. CASE x = i
    <3>1. lastAdmitted'[x] <= time /\ lastAdmitted'[x] \in Int
      BY <1>4, <1>10, <1>11, TokenConstants DEF TimesInv, TokenTypes
    <3>2. apiTokens'[x].lastUsed = time
      BY <1>14, <1>15, <2>2
    <3> QED
      BY <1>1, <3>1, <3>2, TokenConstants
  <2> QED
    BY <2>1, <2>2
<1> QED
  BY <1>10, <1>11, <1>12, <1>16, <1>17 DEF TokensInv

LEMMA TokenTickKeeps ==
    ASSUME TokensInv, TokenTick
    PROVE  TokensInv'
<1>1. /\ time \in Nat /\ time' = time + 1
      /\ UNCHANGED <<apiTokens, tokenTouched, request, lastAdmitted, unrecorded>>
  BY DEF TokenTick, TokensInv, TokenTypes
<1>2. TokenTypes'
  BY <1>1 DEF TokensInv, TokenTypes
<1>3. TimesInv'
  <2>1. ASSUME NEW i \in Ids PROVE tokenTouched[i] \in Int /\ lastAdmitted[i] \in Int
    BY TokenConstants DEF TokensInv, TokenTypes
  <2>2. ASSUME NEW q \in Requests, request[q] # NoRequest PROVE request[q].now \in Int
    BY <2>2, Carried DEF TokensInv
  <2> QED
    BY <1>1, <2>1, <2>2 DEF TokensInv, TimesInv
<1>4. MintedInv' /\ TouchedInv' /\ LastUseIsShown'
  BY <1>1 DEF TokensInv, MintedInv, TouchedInv, LastUseIsShown, Lost, Writing
<1> QED
  BY <1>2, <1>3, <1>4 DEF TokensInv

LEMMA RestartKeepsTokens ==
    ASSUME TokensInv, RestartTokens
    PROVE  TokensInv'
<1>1. /\ UNCHANGED <<time, apiTokens, lastAdmitted>>
      /\ tokenTouched' = [i \in Ids |-> Never]
      /\ request' = [q \in Requests |-> NoRequest]
      /\ unrecorded' = unrecorded \cup {i \in Ids : Writing(i)}
  BY DEF RestartTokens
<1>2. TokenTypes'
  BY <1>1 DEF TokensInv, TokenTypes
<1>3. TimesInv'
  BY <1>1, TokenConstants DEF TokensInv, TokenTypes, TimesInv
<1>4. \A i \in Ids : Lost(i) => Lost(i)'
  BY <1>1 DEF Lost
<1>5. MintedInv'
  BY <1>1 DEF TokensInv, MintedInv
<1>6. TouchedInv'
  BY <1>1 DEF TouchedInv
<1>7. LastUseIsShown'
  BY <1>1, <1>4 DEF TokensInv, LastUseIsShown, Lost
<1> QED
  BY <1>2, <1>3, <1>5, <1>6, <1>7 DEF TokensInv

\* What the page says of a token's last use is never more than a minute behind the truth,
\* but for uses that are on their way to the table or were lost.
THEOREM LastUseIsAlwaysShown == TokensSpec => []LastUseIsShown
<1>1. TokensInv /\ [TokensNext]_tokenVars => TokensInv'
  <2> SUFFICES ASSUME TokensInv, [TokensNext]_tokenVars PROVE TokensInv'
    OBVIOUS
  <2>1. CASE UNCHANGED tokenVars
    BY <2>1 DEF tokenVars, TokensInv, TokenTypes, TimesInv, MintedInv, TouchedInv, LastUseIsShown,
                Lost, Writing
  <2> QED
    BY <2>1, MintKeeps, RevokeKeeps, LookupKeeps, TouchKeeps, WriteKeeps, TokenTickKeeps,
       RestartKeepsTokens DEF TokensNext
<1>2. TokensInv => LastUseIsShown
  BY DEF TokensInv
<1> QED
  BY <1>1, <1>2, TokensInitially, PTL DEF TokensSpec

-----------------------------------------------------------------------------
(* The dashboard.  A sum is the number of the things that it sums up: those *)
(* that the rows count must be found, without overlaps, in what the rows    *)
(* are parts of.                                                            *)

\* Rows that count disjoint parts of a set never have more than all of it, and have all
\* of it when everything is in a part.
LEMMA TotalOfParts ==
    ASSUME NEW rows, NEW S, IsFiniteSet(S),
           NEW part \in [rows -> SUBSET S],
           \A r \in rows : r.count = Cardinality(part[r]),
           \A r, q \in rows : r # q => part[r] \cap part[q] = {}
    PROVE  /\ Total(rows) \in Nat /\ Total(rows) <= Cardinality(S)
           /\ (\A v \in S : \E r \in rows : v \in part[r]) => Total(rows) = Cardinality(S)
<1> DEFINE Numbered(r) == Bijection(1..r.count, part[r])
           b == [r \in rows |-> CHOOSE f : f \in Numbered(r)]
           Counted == UNION {{r} \X (1..r.count) : r \in rows}
           g == [m \in Counted |-> b[m[1]][m[2]]]
<1>1. ASSUME NEW r \in rows PROVE b[r] \in Numbered(r)
  <2>1. IsFiniteSet(part[r])
    BY FS_Subset
  <2>2. ExistsBijection(1..Cardinality(part[r]), part[r])
    BY <2>1, FS_CardinalityType
  <2>3. \E f : f \in Numbered(r)
    BY <2>2 DEF ExistsBijection
  <2> QED
    BY <2>3
<1>2. ASSUME NEW m \in Counted PROVE m[1] \in rows /\ m[2] \in 1..m[1].count
  OBVIOUS
<1>3. ASSUME NEW m \in Counted PROVE g[m] = b[m[1]][m[2]] /\ g[m] \in part[m[1]]
  <2>1. b[m[1]] \in [1..m[1].count -> part[m[1]]]
    BY <1>1, <1>2 DEF Bijection, Injection
  <2> QED
    BY <1>2, <2>1
<1>4. ASSUME NEW m \in Counted, NEW n \in Counted, g[m] = g[n] PROVE m = n
  <2>1. m[1] = n[1]
    BY <1>2, <1>3, <1>4
  <2>2. b[m[1]][m[2]] = b[m[1]][n[2]]
    BY <1>3, <1>4, <2>1
  <2>3. m[2] = n[2]
    <3> HIDE DEF b, Counted
    <3>1. IsInjective(b[m[1]]) /\ DOMAIN b[m[1]] = 1..m[1].count
      BY <1>1, <1>2 DEF Bijection, Injection
    <3>2. m[2] \in 1..m[1].count /\ n[2] \in 1..m[1].count
      BY <1>2, <2>1
    <3> QED
      BY <2>2, <3>1, <3>2 DEF IsInjective
  <2>4. m = <<m[1], m[2]>> /\ n = <<n[1], n[2]>>
    OBVIOUS
  <2> QED
    BY <2>1, <2>3, <2>4
<1>5. g \in Injection(Counted, S)
  <2>1. g \in [Counted -> S]
    BY <1>2, <1>3
  <2>2. IsInjective(g)
    BY <1>4 DEF IsInjective
  <2> QED
    BY <2>1, <2>2 DEF Injection
<1>6. /\ Cardinality(Counted) \in Nat /\ Cardinality(Counted) <= Cardinality(S)
      /\ g \in Surjection(Counted, S) => Cardinality(Counted) = Cardinality(S)
  <2> HIDE DEF g, Counted
  <2> QED
    BY <1>5, FS_Injection, FS_CardinalityType
<1>7. ASSUME \A v \in S : \E r \in rows : v \in part[r]
      PROVE  g \in Surjection(Counted, S)
  <2>1. ASSUME NEW v \in S PROVE \E m \in Counted : g[m] = v
    <3>1. PICK r \in rows : v \in part[r]
      BY <1>7
    <3>2. PICK i \in 1..r.count : b[r][i] = v
      BY <1>1, <3>1 DEF Bijection, Surjection
    <3>3. <<r, i>> \in Counted
      OBVIOUS
    <3>4. g[<<r, i>>] = v
      BY <1>3, <3>2, <3>3
    <3> QED
      BY <3>3, <3>4
  <2>2. g \in [Counted -> S]
    BY <1>5 DEF Injection
  <2> QED
    BY <2>1, <2>2 DEF Surjection
<1>8. Total(rows) = Cardinality(Counted)
  BY DEF Total
<1> QED
  BY <1>6, <1>7, <1>8

\* A finite set of numbers has a smallest one (no set of numbers goes down for ever).
LEMMA SmallestOf ==
    ASSUME NEW D, D \subseteq Nat, D # {}
    PROVE  \E d \in D : \A e \in D : d <= e
<1> DEFINE R == {ss \in Nat \X Nat : ss[1] < ss[2]}
<1>1. IsWellFoundedOn(R, Nat)
  BY NatLessThanWellFounded DEF OpToRel
<1> HIDE DEF R
<1>2. PICK d \in D : \A e \in D : ~(<<e, d>> \in R)
  BY <1>1, WFMin
<1>3. \A e \in D : ~(e < d)
  BY <1>2 DEF R
<1> QED
  BY <1>3

\* Of finitely many rows one has the highest count.
LEMMA HighestOf ==
    ASSUME NEW rows, rows # {}, NEW n \in Nat, \A r \in rows : r.count \in 0..n
    PROVE  \E r \in rows : \A s \in rows : r.count >= s.count
<1> DEFINE D == {n - r.count : r \in rows}
<1>1. D \subseteq Nat /\ D # {}
  OBVIOUS
<1>2. PICK d \in D : \A e \in D : d <= e
  BY <1>1, SmallestOf
<1>3. PICK r \in rows : d = n - r.count
  OBVIOUS
<1>4. ASSUME NEW s \in rows PROVE r.count >= s.count
  <2>1. n - s.count \in D
    OBVIOUS
  <2>2. n - r.count <= n - s.count
    BY <1>2, <1>3, <2>1
  <2> QED
    BY <2>2
<1> QED
  BY <1>4

\* The k rows with the highest counts.
Tops(counts, k) ==
    {top \in SUBSET counts : /\ Cardinality(top) = k
                             /\ \A r \in top, s \in counts \ top : r.count >= s.count}

\* There are such rows, as long as k is not more than there are.
LEMMA TopsExist ==
    ASSUME NEW counts, IsFiniteSet(counts),
           NEW n \in Nat, \A r \in counts : r.count \in 0..n,
           NEW k \in 0..Cardinality(counts)
    PROVE  Tops(counts, k) # {}
<1> DEFINE Bad == {j \in 0..Cardinality(counts) : Tops(counts, j) = {}}
<1> SUFFICES ASSUME Bad # {} PROVE FALSE
  OBVIOUS
<1>0. Cardinality(counts) \in Nat
  BY FS_CardinalityType
<1>1. PICK j \in Bad : \A i \in Bad : j <= i
  <2>1. Bad \subseteq Nat
    BY <1>0
  <2> HIDE DEF Bad
  <2> QED
    BY <2>1, SmallestOf
<1>2. j # 0
  <2>1. {} \in Tops(counts, 0)
    BY FS_EmptySet DEF Tops
  <2> QED
    BY <1>1, <2>1
<1>3. j - 1 \in 0..Cardinality(counts) /\ j - 1 \notin Bad /\ j <= Cardinality(counts)
  BY <1>0, <1>1, <1>2
<1>4. PICK top : top \in Tops(counts, j - 1)
  BY <1>3
<1>5. /\ top \in SUBSET counts /\ Cardinality(top) = j - 1
      /\ \A r \in top, s \in counts \ top : r.count >= s.count
  BY <1>4 DEF Tops
<1>6. IsFiniteSet(top) /\ counts \ top # {}
  <2>1. IsFiniteSet(top)
    BY <1>5, FS_Subset
  <2>2. top # counts
    BY <1>0, <1>3, <1>5
  <2> QED
    BY <1>5, <2>1, <2>2
<1>7. PICK m \in counts \ top : \A s \in counts \ top : m.count >= s.count
  BY <1>6, HighestOf
<1>8. Cardinality(top \cup {m}) = j
  <2>1. Cardinality(top \cup {m}) = Cardinality(top) + 1
    BY <1>6, <1>7, FS_AddElement
  <2>2. j \in Int
    BY <1>0, <1>1
  <2> HIDE DEF Bad
  <2> QED
    BY <1>5, <2>1, <2>2
<1>9. top \cup {m} \in Tops(counts, j)
  BY <1>5, <1>7, <1>8 DEF Tops
<1> QED
  BY <1>1, <1>9

\* The rows that are listed are some of the rows.
LEMMA BusiestAreSome ==
    ASSUME NEW counts, IsFiniteSet(counts),
           NEW n \in Nat, \A r \in counts : r.count \in 0..n
    PROVE  Busiest(counts) \subseteq counts
<1> DEFINE both == {MaxDashboardRows, Cardinality(counts)}
           k == Min(both)
<1>0. Cardinality(counts) \in Nat /\ MaxDashboardRows \in Nat
  BY FS_CardinalityType, ViewsAssumption
<1>1. k \in 0..Cardinality(counts)
  <2>1. PICK d \in both : \A e \in both : d <= e
    BY <1>0, SmallestOf
  <2>2. k \in both /\ \A e \in both : k <= e
    BY <2>1 DEF Min
  <2> HIDE DEF k
  <2> QED
    BY <1>0, <2>2
<1> HIDE DEF k
<1>2. Tops(counts, k) # {}
  BY <1>1, TopsExist
<1>3. \E top \in SUBSET counts :
          /\ Cardinality(top) = k
          /\ \A r \in top, s \in counts \ top : r.count >= s.count
  BY <1>2 DEF Tops
<1>4. Busiest(counts) = CHOOSE top \in SUBSET counts :
                            /\ Cardinality(top) = k
                            /\ \A r \in top, s \in counts \ top : r.count >= s.count
  BY DEF Busiest, k
<1> QED
  BY <1>3, <1>4


\* How often each label occurs in what has been seen.
Counted(seen, label) ==
    {[label |-> l, count |-> Cardinality({v \in seen : label[v] = l})] :
        l \in {label[v] : v \in seen}}

\* The busiest of them have no more than all that has been seen.
LEMMA BusiestAreNoMore ==
    ASSUME NEW seen, IsFiniteSet(seen), NEW label
    PROVE  /\ Total(Busiest(Counted(seen, label))) \in Nat
           /\ Total(Busiest(Counted(seen, label))) <= Cardinality(seen)
<1> DEFINE counts == Counted(seen, label)
           With(l) == {v \in seen : label[v] = l}
           row == [v \in seen |-> [label |-> label[v], count |-> Cardinality(With(label[v]))]]
           rows == Busiest(counts)
           part == [r \in rows |-> With(r.label)]
<1>1. IsFiniteSet(counts)
  <2>1. row \in Surjection(seen, counts)
    <3>1. row \in [seen -> counts]
      BY DEF Counted
    <3>2. \A r \in counts : \E v \in seen : row[v] = r
      BY DEF Counted
    <3> QED
      BY <3>1, <3>2 DEF Surjection
  <2> HIDE DEF row, counts
  <2> QED
    BY <2>1, FS_Surjection
<1>a. ASSUME NEW r \in counts
      PROVE  r = [label |-> r.label, count |-> Cardinality(With(r.label))]
  <2>1. PICK l \in {label[v] : v \in seen} :
            r = [label |-> l, count |-> Cardinality(With(l))]
    BY DEF Counted
  <2>2. r.label = l
    BY <2>1
  <2> QED
    BY <2>1, <2>2
<1>2. \A r \in counts : r.count = Cardinality(With(r.label))
  <2> HIDE DEF counts, With
  <2> QED
    BY <1>a
<1>3. \A r, q \in counts : r.label = q.label => r = q
  <2> HIDE DEF counts, With
  <2> QED
    BY <1>a
<1>4. \A l : IsFiniteSet(With(l)) /\ Cardinality(With(l)) <= Cardinality(seen)
  <2> SUFFICES ASSUME NEW l
               PROVE  IsFiniteSet(With(l)) /\ Cardinality(With(l)) <= Cardinality(seen)
    OBVIOUS
  <2>1. With(l) \in SUBSET seen
    OBVIOUS
  <2> HIDE DEF With
  <2> QED
    BY <2>1, FS_Subset
<1>5. Cardinality(seen) \in Nat /\ \A r \in counts : r.count \in 0..Cardinality(seen)
  <2>1. Cardinality(seen) \in Nat
    BY FS_CardinalityType
  <2>2. \A l : Cardinality(With(l)) \in Nat
    BY <1>4, FS_CardinalityType
  <2> HIDE DEF With, counts
  <2> QED
    BY <1>2, <1>4, <2>1, <2>2
<1>6. rows \subseteq counts
  <2> HIDE DEF counts
  <2> QED
    BY <1>1, <1>5, BusiestAreSome
<1> HIDE DEF counts, rows
<1>7. part \in [rows -> SUBSET seen]
  OBVIOUS
<1>8. \A r \in rows : r.count = Cardinality(part[r])
  BY <1>2, <1>6
<1>9. \A r, q \in rows : r # q => part[r] \cap part[q] = {}
  BY <1>3, <1>6
<1>10. Total(rows) \in Nat /\ Total(rows) <= Cardinality(seen)
  <2> HIDE DEF part
  <2> QED
    BY <1>7, <1>8, <1>9, TotalOfParts
<1> QED
  BY <1>10 DEF rows, counts

-----------------------------------------------------------------------------
(* The chart.                                                                *)

\* A bar for each key.
Bars(window, key, Keys) ==
    {[key |-> k, count |-> Cardinality({v \in window : key[v] = k})] : k \in Keys}

\* The bars of a chart have all that is in its window, when every day of the window is
\* the day of one bar.
LEMMA BarsAreAll ==
    ASSUME NEW window, IsFiniteSet(window), NEW key, NEW Keys,
           \A v \in window : key[v] \in Keys
    PROVE  Total(Bars(window, key, Keys)) = Cardinality(window)
<1> DEFINE With(k) == {v \in window : key[v] = k}
           bars == {[key |-> k, count |-> Cardinality(With(k))] : k \in Keys}
           part == [r \in bars |-> With(r.key)]
<1>1. ASSUME NEW r \in bars PROVE r = [key |-> r.key, count |-> Cardinality(With(r.key))]
  <2>1. PICK k \in Keys : r = [key |-> k, count |-> Cardinality(With(k))]
    OBVIOUS
  <2>2. r.key = k
    BY <2>1
  <2> QED
    BY <2>1, <2>2
<1>2. \A v \in window : \E r \in bars : v \in With(r.key)
  <2> SUFFICES ASSUME NEW v \in window PROVE \E r \in bars : v \in With(r.key)
    OBVIOUS
  <2>1. [key |-> key[v], count |-> Cardinality(With(key[v]))] \in bars
    OBVIOUS
  <2>2. v \in With(key[v])
    OBVIOUS
  <2> HIDE DEF With, bars
  <2> QED
    BY <2>1, <2>2
<1>3. \A r, q \in bars : r # q => With(r.key) \cap With(q.key) = {}
  <2> SUFFICES ASSUME NEW r \in bars, NEW q \in bars, With(r.key) \cap With(q.key) # {}
               PROVE  r = q
    OBVIOUS
  <2>1. r.key = q.key
    OBVIOUS
  <2> HIDE DEF With, bars
  <2> QED
    BY <1>1, <2>1
<1>4. part \in [bars -> SUBSET window]
  OBVIOUS
<1>5. \A r \in bars : r.count = Cardinality(part[r])
  <2> HIDE DEF With, bars
  <2> QED
    BY <1>1
<1>6. Total(bars) = Cardinality(window)
  <2>1. \A r, q \in bars : r # q => part[r] \cap part[q] = {}
    <3> HIDE DEF With, bars
    <3> QED
      BY <1>3
  <2>2. \A v \in window : \E r \in bars : v \in part[r]
    <3> HIDE DEF With, bars
    <3> QED
      BY <1>2
  <2> HIDE DEF With, bars, part
  <2> QED
    BY <1>4, <1>5, <2>1, <2>2, TotalOfParts
<1> QED
  BY <1>6 DEF Bars

\* A multiple of the more is the more.
LEMMA TimesKeepsOrder ==
    ASSUME NEW a \in Int, NEW b \in Int, NEW n \in Nat, a <= b
    PROVE  a * n <= b * n /\ n * a <= n * b
<1>1. (b - a) * n >= 0
  BY Z3
<1>2. (b - a) * n = b * n - a * n /\ a * n = n * a /\ b * n = n * b
  OBVIOUS
<1> QED
  BY <1>1, <1>2

\* The months of a chart are those of the days in it.
LEMMA MonthsAreAll ==
    ASSUME NEW since \in Int, NEW until \in Int, NEW day \in since..until
    PROVE  MonthOf(day) \in Months(since, until)
<1> DEFINE D == DaysPerMonth
           k == MonthOf(day) - MonthOf(since)
           first == MonthOf(since) * D
<1>0. D \in Nat /\ D > 0
  BY ViewsAssumption
<1>1. ASSUME NEW n \in Int
      PROVE  MonthOf(n) \in Int /\ MonthOf(n) * D <= n /\ n < MonthOf(n) * D + D
  BY <1>0 DEF MonthOf
<1>2. MonthOf(since) <= MonthOf(day)
  <2> SUFFICES ASSUME MonthOf(day) + 1 <= MonthOf(since) PROVE FALSE
    BY <1>1
  <2>1. (MonthOf(day) + 1) * D <= MonthOf(since) * D
    BY <1>0, <1>1, TimesKeepsOrder
  <2>2. (MonthOf(day) + 1) * D = MonthOf(day) * D + D
    BY <1>0, <1>1
  <2>3. day < MonthOf(day) * D + D /\ MonthOf(since) * D <= since /\ since <= day
    BY <1>1
  <2>4. MonthOf(day) * D \in Int /\ MonthOf(since) * D \in Int
    BY <1>0, <1>1
  <2> HIDE DEF D
  <2> QED
    BY <1>0, <2>1, <2>2, <2>3, <2>4
<1>3. first + k * D = MonthOf(day) * D
  BY <1>0, <1>1
<1>4. first + k * D <= until
  <2>1. MonthOf(day) * D <= day /\ day <= until /\ MonthOf(day) * D \in Int
    BY <1>0, <1>1
  <2> QED
    BY <1>3, <2>1
<1>5. k \in 0..until - first
  <2>1. k \in Nat
    BY <1>1, <1>2
  <2>2. k * 1 <= k * D
    BY <1>0, <2>1, TimesKeepsOrder
  <2>3. first \in Int /\ k * D \in Int
    BY <1>0, <1>1
  <2> HIDE DEF k, first, D
  <2> QED
    BY <1>4, <2>1, <2>2, <2>3
<1>6. MonthOf(first + k * D) = MonthOf(day)
  BY <1>0, <1>1, <1>3 DEF MonthOf
<1> QED
  BY <1>4, <1>5, <1>6 DEF Months

-----------------------------------------------------------------------------
(* The table of views only grows.                                            *)

ViewRows == [path : Pages, day : Nat, who : Visitors, referrer : Referrers \cup {NoReferrer},
          dwell : Nat]

\* One row for a page, a day and a visitor.
TableInv ==
    /\ today \in Nat
    /\ views \subseteq ViewRows /\ IsFiniteSet(views)
    /\ \A v, w \in views : v.path = w.path /\ v.day = w.day /\ v.who = w.who => v = w

ViewsFrom(since) == {v \in views : v.day >= since}

\* Counting the views of a finite table.
LEMMA ViewsAreFinite ==
    ASSUME IsFiniteSet(views), NEW since
    PROVE  /\ IsFiniteSet(ViewsFrom(since))
           /\ TotalViews(since) = Cardinality(ViewsFrom(since))
           /\ TotalViews(since) \in Nat
<1>1. ViewsFrom(since) \in SUBSET views
  BY DEF ViewsFrom
<1>2. IsFiniteSet(ViewsFrom(since))
  BY <1>1, FS_Subset
<1> QED
  BY <1>2, FS_CardinalityType DEF TotalViews, ViewsFrom

\* What a report of dwell time makes of a row.
Dwelled(path, who) ==
    [v \in views |-> IF SameView(v, path, who) THEN [v EXCEPT !.dwell = @ + 1] ELSE v]

\* A report of dwell time changes no more of a row than the time.
LEMMA DwelledIsSame ==
    ASSUME TableInv, NEW path, NEW who, AddDwell(path, who), NEW v \in views
    PROVE  LET w == Dwelled(path, who)[v]
           IN  /\ w \in ViewRows /\ w \in views'
               /\ w.path = v.path /\ w.day = v.day /\ w.who = v.who
<1>1. v \in ViewRows
  BY DEF TableInv
<1>2. Dwelled(path, who)[v] = IF SameView(v, path, who) THEN [v EXCEPT !.dwell = @ + 1] ELSE v
  BY DEF Dwelled
<1>3. views' = {IF SameView(u, path, who) THEN [u EXCEPT !.dwell = @ + 1] ELSE u : u \in views}
  BY DEF AddDwell
<1>4. Dwelled(path, who)[v] \in views'
  BY <1>2, <1>3
<1>5. CASE SameView(v, path, who)
  <2>1. [v EXCEPT !.dwell = @ + 1] \in ViewRows
    BY <1>1 DEF ViewRows
  <2>2. /\ [v EXCEPT !.dwell = @ + 1].path = v.path
        /\ [v EXCEPT !.dwell = @ + 1].day = v.day
        /\ [v EXCEPT !.dwell = @ + 1].who = v.who
    BY <1>1 DEF ViewRows
  <2> QED
    BY <1>2, <1>4, <1>5, <2>1, <2>2
<1>6. CASE ~SameView(v, path, who)
  BY <1>1, <1>2, <1>4, <1>6
<1> QED
  BY <1>5, <1>6

\* Every row of the new table is a row of the old one, with its time changed or not.
LEMMA DwelledAreAll ==
    ASSUME NEW path, NEW who, AddDwell(path, who)
    PROVE  \A w \in views' : \E v \in views : Dwelled(path, who)[v] = w
BY DEF AddDwell, Dwelled

\* Reports of dwell time leave as many rows, from whatever day they are counted.
LEMMA DwellKeeps ==
    ASSUME TableInv, NEW path, NEW who, AddDwell(path, who)
    PROVE  /\ TableInv'
           /\ \A since : TotalViews(since) <= TotalViews(since)'
<1> DEFINE f == Dwelled(path, who)
<1>1. \A v \in views : /\ f[v] \in ViewRows /\ f[v] \in views'
                       /\ f[v].path = v.path /\ f[v].day = v.day /\ f[v].who = v.who
  BY DwelledIsSame
<1>2. \A w \in views' : \E v \in views : f[v] = w
  BY DwelledAreAll
<1>3. DOMAIN f = views /\ f = [v \in views |-> f[v]]
  BY DEF Dwelled
<1>4. today' = today
  BY DEF AddDwell
<1> HIDE DEF f
<1>5. f \in Surjection(views, views')
  <2>1. f \in [views -> views']
    BY <1>1, <1>3
  <2> QED
    BY <1>2, <2>1 DEF Surjection
<1>6. IsFiniteSet(views')
  BY <1>5, FS_Surjection DEF TableInv
<1>7. TableInv'
  <2>1. \A v, w \in views' : v.path = w.path /\ v.day = w.day /\ v.who = w.who => v = w
    <3> SUFFICES ASSUME NEW v \in views', NEW w \in views',
                        v.path = w.path, v.day = w.day, v.who = w.who
                 PROVE  v = w
      OBVIOUS
    <3>1. PICK x \in views, y \in views : f[x] = v /\ f[y] = w
      BY <1>2
    <3>2. x = y
      BY <1>1, <3>1 DEF TableInv
    <3> QED
      BY <3>1, <3>2
  <2>2. views' \subseteq ViewRows
    BY <1>1, <1>2
  <2> QED
    BY <1>4, <1>6, <2>1, <2>2 DEF TableInv
<1>8. ASSUME NEW since PROVE TotalViews(since) <= TotalViews(since)'
  <2> DEFINE g == [v \in ViewsFrom(since) |-> f[v]]
  <2>1. g \in [ViewsFrom(since) -> ViewsFrom(since)']
    BY <1>1 DEF ViewsFrom
  <2>2. \A v, w \in ViewsFrom(since) : g[v] = g[w] => v = w
    BY <1>1 DEF ViewsFrom, TableInv
  <2>3. g \in Injection(ViewsFrom(since), ViewsFrom(since)')
    BY <2>1, <2>2 DEF Injection, IsInjective
  <2>4. IsFiniteSet(ViewsFrom(since)') /\ TotalViews(since)' = Cardinality(ViewsFrom(since)')
    <3>1. ViewsFrom(since)' \in SUBSET views'
      BY DEF ViewsFrom
    <3> QED
      BY <1>6, <3>1, FS_Subset DEF TotalViews, ViewsFrom
  <2>5. TotalViews(since) = Cardinality(ViewsFrom(since))
    BY ViewsAreFinite DEF TableInv
  <2> HIDE DEF g
  <2> QED
    BY <2>3, <2>4, <2>5, FS_Injection
<1> QED
  BY <1>7, <1>8

\* A view that is recorded comes on top of those there are, or is one of them.
LEMMA RecordKeeps ==
    ASSUME TableInv, NEW path, NEW who \in Visitors, NEW r \in Referrers \cup {NoReferrer},
           RecordView(path, who, r)
    PROVE  /\ TableInv'
           /\ \A since : TotalViews(since) <= TotalViews(since)'
<1> DEFINE new == [path |-> path, day |-> today, who |-> who, referrer |-> r, dwell |-> 0]
<1>1. path \in Pages /\ today' = today
  BY DEF RecordView
<1>2. \/ views' = views
      \/ views' = views \cup {new} /\ ~\E v \in views : SameView(v, path, who)
  BY DEF RecordView
<1>3. new \in ViewRows
  BY <1>1 DEF TableInv, ViewRows
<1>4. new.path = path /\ new.day = today /\ new.who = who
  OBVIOUS
<1> HIDE DEF new
<1>5. TableInv'
  <2>1. CASE views' = views
    BY <1>1, <2>1 DEF TableInv
  <2>2. CASE views' = views \cup {new} /\ ~\E v \in views : SameView(v, path, who)
    <3>1. IsFiniteSet(views')
      BY <2>2, FS_AddElement DEF TableInv
    <3>2. \A v \in views : ~(v.path = new.path /\ v.day = new.day /\ v.who = new.who)
      BY <1>4, <2>2 DEF SameView
    <3> QED
      BY <1>1, <1>3, <2>2, <3>1, <3>2 DEF TableInv
  <2> QED
    BY <1>2, <2>1, <2>2
<1>6. ASSUME NEW since PROVE TotalViews(since) <= TotalViews(since)'
  <2>1. ViewsFrom(since) \in SUBSET ViewsFrom(since)'
    BY <1>2 DEF ViewsFrom
  <2>2. IsFiniteSet(ViewsFrom(since)') /\ TotalViews(since)' = Cardinality(ViewsFrom(since)')
    <3>1. ViewsFrom(since)' \in SUBSET views'
      BY DEF ViewsFrom
    <3> QED
      BY <1>5, <3>1, FS_Subset DEF TableInv, TotalViews, ViewsFrom
  <2>3. TotalViews(since) = Cardinality(ViewsFrom(since))
    BY ViewsAreFinite DEF TableInv
  <2> QED
    BY <2>1, <2>2, <2>3, FS_Subset
<1> QED
  BY <1>5, <1>6

-----------------------------------------------------------------------------
(* The answers.                                                              *)

\* The listed pages have no more views than there are.
LEMMA PagesAreNoMore ==
    ASSUME TableInv, NEW since
    PROVE  /\ Total(TopPaths(since)) \in Nat
           /\ Total(TopPaths(since)) <= TotalViews(since)
<1> DEFINE seen == ViewsFrom(since)
           label == [v \in seen |-> v.path]
<1>1. TopPaths(since) = Busiest(Counted(seen, label))
  <2> DEFINE Of(p) == {v \in seen : v.path = p}
             Labelled(p) == {v \in seen : label[v] = p}
  <2>1. {v.path : v \in seen} = {label[v] : v \in seen}
    OBVIOUS
  <2>2. \A p : Of(p) = Labelled(p)
    OBVIOUS
  <2>3. TopPaths(since) = Busiest({[label |-> p, count |-> Cardinality(Of(p))] :
                                     p \in {v.path : v \in seen}})
    BY DEF TopPaths, ViewsFrom
  <2>4. Counted(seen, label) = {[label |-> p, count |-> Cardinality(Labelled(p))] :
                                  p \in {label[v] : v \in seen}}
    BY DEF Counted
  <2> HIDE DEF label, seen, Of, Labelled
  <2>5. Counted(seen, label) = {[label |-> p, count |-> Cardinality(Of(p))] :
                                  p \in {v.path : v \in seen}}
    BY <2>1, <2>2, <2>4
  <2> QED
    BY <2>3, <2>5
<1>2. IsFiniteSet(seen) /\ TotalViews(since) = Cardinality(seen)
  BY ViewsAreFinite DEF TableInv
<1> HIDE DEF label, seen
<1> QED
  BY <1>1, <1>2, BusiestAreNoMore

\* Nor have the listed sites.
LEMMA SitesAreNoMore ==
    ASSUME TableInv, NEW since
    PROVE  /\ Total(TopReferrers(since)) \in Nat
           /\ Total(TopReferrers(since)) <= TotalViews(since)
<1> DEFINE seen == {v \in views : v.day >= since /\ v.referrer # NoReferrer}
           label == [v \in seen |-> v.referrer]
<1>1. TopReferrers(since) = Busiest(Counted(seen, label))
  <2> DEFINE Of(r) == {v \in seen : v.referrer = r}
             Labelled(r) == {v \in seen : label[v] = r}
  <2>1. {v.referrer : v \in seen} = {label[v] : v \in seen}
    OBVIOUS
  <2>2. \A r : Of(r) = Labelled(r)
    OBVIOUS
  <2>3. TopReferrers(since) = Busiest({[label |-> r, count |-> Cardinality(Of(r))] :
                                         r \in {v.referrer : v \in seen}})
    BY DEF TopReferrers
  <2>4. Counted(seen, label) = {[label |-> r, count |-> Cardinality(Labelled(r))] :
                                  r \in {label[v] : v \in seen}}
    BY DEF Counted
  <2> HIDE DEF label, seen, Of, Labelled
  <2>5. Counted(seen, label) = {[label |-> r, count |-> Cardinality(Of(r))] :
                                  r \in {v.referrer : v \in seen}}
    BY <2>1, <2>2, <2>4
  <2> QED
    BY <2>3, <2>5
<1>2. /\ IsFiniteSet(ViewsFrom(since)) /\ TotalViews(since) = Cardinality(ViewsFrom(since))
      /\ TotalViews(since) \in Nat
  BY ViewsAreFinite DEF TableInv
<1>3. seen \in SUBSET ViewsFrom(since)
  BY DEF ViewsFrom
<1>4. IsFiniteSet(seen) /\ Cardinality(seen) <= TotalViews(since) /\ Cardinality(seen) \in Nat
  <2> HIDE DEF seen
  <2> QED
    BY <1>2, <1>3, FS_Subset, FS_CardinalityType
<1>5. /\ Total(Busiest(Counted(seen, label))) \in Nat
      /\ Total(Busiest(Counted(seen, label))) <= Cardinality(seen)
  <2> HIDE DEF seen, label
  <2> QED
    BY <1>4, BusiestAreNoMore
<1> HIDE DEF label, seen
<1> QED
  BY <1>1, <1>2, <1>4, <1>5

\* The first day is the day of a row, or the day of the request.
LEMMA FirstDayType ==
    ASSUME TableInv, dash.today \in Nat
    PROVE  FirstViewDay \in Nat
<1> DEFINE days == {v.day : v \in views}
<1>1. days \subseteq Nat
  BY DEF TableInv, ViewRows
<1>2. CASE views = {}
  BY <1>2 DEF FirstViewDay
<1>3. CASE views # {}
  <2>1. days # {}
    BY <1>3
  <2>2. FirstViewDay = Min(days)
    BY <1>3 DEF FirstViewDay
  <2> HIDE DEF days
  <2>3. \E d \in days : \A e \in days : d <= e
    BY <1>1, <2>1, SmallestOf
  <2>4. Min(days) \in days
    BY <2>3 DEF Min
  <2> QED
    BY <1>1, <2>2, <2>4
<1> QED
  BY <1>2, <1>3

\* A chart shows every view of its window, by the day or by the month.
LEMMA ChartIsAll ==
    ASSUME TableInv, dash.today \in Nat, NEW range, NEW since \in Int
    PROVE  Total(Chart(range, since).bars) = Chart(range, since).window
<1> DEFINE window == {v \in views : v.day >= since /\ v.day <= dash.today}
           dayOf == [v \in window |-> v.day]
           monthOf == [v \in window |-> MonthOf(v.day)]
           days == since..dash.today
           months == Months(since, dash.today)
           dayBars == {[key |-> d, count |-> Cardinality({v \in window : v.day = d})] : d \in days}
           monthBars == {[key |-> m, count |-> Cardinality({v \in window : MonthOf(v.day) = m})] :
                           m \in months}
<1>1. /\ Chart(range, since).bars = IF ByDay(range, since) THEN dayBars ELSE monthBars
      /\ Chart(range, since).window = Cardinality(window)
  BY DEF Chart
<1>2. IsFiniteSet(window)
  <2>1. window \in SUBSET views
    OBVIOUS
  <2> HIDE DEF window
  <2> QED
    BY <2>1, FS_Subset DEF TableInv
<1>3. \A v \in window : v.day \in days
  BY DEF TableInv, ViewRows
<1>4. Total(dayBars) = Cardinality(window)
  <2> DEFINE Of(d) == {v \in window : v.day = d}
             Keyed(d) == {v \in window : dayOf[v] = d}
  <2>1. \A d : Of(d) = Keyed(d)
    OBVIOUS
  <2>2. \A v \in window : dayOf[v] \in days
    BY <1>3
  <2>3. dayBars = {[key |-> d, count |-> Cardinality(Of(d))] : d \in days}
    OBVIOUS
  <2>4. Bars(window, dayOf, days) = {[key |-> d, count |-> Cardinality(Keyed(d))] : d \in days}
    BY DEF Bars
  <2> HIDE DEF window, dayOf, dayBars, days, Of, Keyed
  <2>5. dayBars = Bars(window, dayOf, days)
    BY <2>1, <2>3, <2>4
  <2> QED
    BY <1>2, <2>2, <2>5, BarsAreAll
<1>5. Total(monthBars) = Cardinality(window)
  <2> DEFINE Of(m) == {v \in window : MonthOf(v.day) = m}
             Keyed(m) == {v \in window : monthOf[v] = m}
  <2>1. \A m : Of(m) = Keyed(m)
    OBVIOUS
  <2>2. \A v \in window : monthOf[v] \in months
    BY <1>3, MonthsAreAll
  <2>3. monthBars = {[key |-> m, count |-> Cardinality(Of(m))] : m \in months}
    OBVIOUS
  <2>4. Bars(window, monthOf, months)
          = {[key |-> m, count |-> Cardinality(Keyed(m))] : m \in months}
    BY DEF Bars
  <2> HIDE DEF window, monthOf, monthBars, months, Of, Keyed
  <2>5. monthBars = Bars(window, monthOf, months)
    BY <2>1, <2>3, <2>4
  <2> QED
    BY <1>2, <2>2, <2>5, BarsAreAll
<1> HIDE DEF dayBars, monthBars, window
<1> QED
  BY <1>1, <1>4, <1>5

-----------------------------------------------------------------------------
(* The dashboard asks.                                                       *)

Fields == {"left", "today", "chartRange", "range", "first", "chart", "top", "topTotal",
           "visitors", "referrers", "refTotal"}

\* What is left to be asked after each answer.
AfterFirst     == <<"chart", "top", "topTotal", "visitors", "referrers", "refTotal">>
AfterChart     == <<"top", "topTotal", "visitors", "referrers", "refTotal">>
AfterTop       == <<"topTotal", "visitors", "referrers", "refTotal">>
AfterTotal     == <<"visitors", "referrers", "refTotal">>
AfterVisitors  == <<"referrers", "refTotal">>
AfterReferrers == <<"refTotal">>

\* What has been answered adds up, and what a sum is still to be asked for is not more
\* than that sum will be: rows come and none go.
DashInv ==
    dash # NoDash =>
        /\ DOMAIN dash = Fields
        /\ dash.left \in {Queries, AfterFirst, AfterChart, AfterTop, AfterTotal, AfterVisitors,
                          AfterReferrers, <<>>}
        /\ dash.today \in Nat /\ dash.chartRange \in Nat /\ dash.range \in Nat
        /\ dash.left # Queries => dash.first \in Nat
        /\ dash.left \notin {Queries, AfterFirst} => Total(dash.chart.bars) = dash.chart.window
        /\ dash.left \notin {Queries, AfterFirst, AfterChart} => Total(dash.top) \in Nat
        /\ dash.left = AfterTop => Total(dash.top) <= TotalViews(Since(dash.range, 0))
        /\ dash.left \in {AfterTotal, AfterVisitors, AfterReferrers, <<>>} =>
               Total(dash.top) <= dash.topTotal
        /\ dash.left \in {AfterReferrers, <<>>} => Total(dash.referrers) \in Nat
        /\ dash.left = AfterReferrers => Total(dash.referrers) <= TotalViews(Since(dash.range, 0))
        /\ dash.left = <<>> => Total(dash.referrers) <= dash.refTotal

\* One question after the other.
LEMMA Questions ==
    /\ Head(Queries) = "first" /\ Tail(Queries) = AfterFirst
    /\ Head(AfterFirst) = "chart" /\ Tail(AfterFirst) = AfterChart
    /\ Head(AfterChart) = "top" /\ Tail(AfterChart) = AfterTop
    /\ Head(AfterTop) = "topTotal" /\ Tail(AfterTop) = AfterTotal
    /\ Head(AfterTotal) = "visitors" /\ Tail(AfterTotal) = AfterVisitors
    /\ Head(AfterVisitors) = "referrers" /\ Tail(AfterVisitors) = AfterReferrers
    /\ Head(AfterReferrers) = "refTotal" /\ Tail(AfterReferrers) = <<>>
BY DEF Queries, AfterFirst, AfterChart, AfterTop, AfterTotal, AfterVisitors, AfterReferrers

\* No two of the rests are the same.
LEMMA Stages ==
    /\ Queries \notin {AfterFirst, AfterChart, AfterTop, AfterTotal, AfterVisitors,
                       AfterReferrers, <<>>}
    /\ AfterFirst \notin {AfterChart, AfterTop, AfterTotal, AfterVisitors, AfterReferrers, <<>>}
    /\ AfterChart \notin {AfterTop, AfterTotal, AfterVisitors, AfterReferrers, <<>>}
    /\ AfterTop \notin {AfterTotal, AfterVisitors, AfterReferrers, <<>>}
    /\ AfterTotal \notin {AfterVisitors, AfterReferrers, <<>>}
    /\ AfterVisitors \notin {AfterReferrers, <<>>}
    /\ AfterReferrers # <<>>
<1>1. <<>> \notin {Queries, AfterFirst, AfterChart, AfterTop, AfterTotal, AfterVisitors,
                   AfterReferrers}
  BY DEF Queries, AfterFirst, AfterChart, AfterTop, AfterTotal, AfterVisitors, AfterReferrers
<1>2. /\ Queries \notin {AfterFirst, AfterChart, AfterTop, AfterTotal, AfterVisitors,
                         AfterReferrers}
      /\ AfterFirst \notin {AfterChart, AfterTop, AfterTotal, AfterVisitors, AfterReferrers}
      /\ AfterChart \notin {AfterTop, AfterTotal, AfterVisitors, AfterReferrers}
      /\ AfterTop \notin {AfterTotal, AfterVisitors, AfterReferrers}
      /\ AfterTotal \notin {AfterVisitors, AfterReferrers}
      /\ AfterVisitors # AfterReferrers
  BY Questions
<1> QED
  BY <1>1, <1>2

\* An answer is noted where it belongs, and the rest of the dashboard stays.
LEMMA AskNotes ==
    ASSUME DOMAIN dash = Fields, Ask, NEW q \in Fields \ {"left"}, NEW rest,
           Head(dash.left) = q, Tail(dash.left) = rest
    PROVE  /\ DOMAIN dash' = Fields
           /\ dash'.left = rest
           /\ dash'[q] = AnswerTo(q)
           /\ \A f \in Fields \ {"left", q} : dash'[f] = dash[f]
           /\ UNCHANGED <<today, views>>
<1>1. dash' = [dash EXCEPT ![q] = AnswerTo(q), !.left = rest]
  BY DEF Ask
<1>2. UNCHANGED <<today, views>>
  BY DEF Ask
<1> QED
  BY <1>1, <1>2 DEF Fields

\* While the dashboard waits, the table only grows.
LEMMA WaitingKeeps ==
    ASSUME TableInv, DashInv, dash' = dash, TableInv',
           \A since : TotalViews(since) <= TotalViews(since)'
    PROVE  DashInv'
<1> SUFFICES ASSUME dash' # NoDash PROVE DashInv'
  BY DEF DashInv
<1>1. dash # NoDash
  OBVIOUS
<1>2. PICK since : since = Since(dash.range, 0)
  OBVIOUS
<1>3. Since(dash.range, 0)' = since
  BY <1>2 DEF Since
<1>4. TotalViews(since) \in Nat /\ TotalViews(since)' \in Nat
  <2>1. TotalViews(since) \in Nat
    BY ViewsAreFinite DEF TableInv
  <2>2. {v \in views' : v.day >= since} \in SUBSET views' /\ IsFiniteSet(views')
    BY DEF TableInv
  <2>3. Cardinality({v \in views' : v.day >= since}) \in Nat
    BY <2>2, FS_Subset, FS_CardinalityType
  <2> QED
    BY <2>1, <2>3 DEF TotalViews
<1>5. \A n \in Nat : n <= TotalViews(since) => n <= TotalViews(since)'
  BY <1>4
<1>6. dash.left = AfterTop => Total(dash.top) <= TotalViews(since)'
  BY <1>1, <1>2, <1>5, Stages DEF DashInv
<1>7. dash.left = AfterReferrers => Total(dash.referrers) <= TotalViews(since)'
  BY <1>1, <1>2, <1>5 DEF DashInv
<1>8. TotalViews(Since(dash.range, 0))' = TotalViews(since)'
  BY <1>3 DEF TotalViews
<1>9. (dash.left = AfterTop => Total(dash.top) <= TotalViews(Since(dash.range, 0)))'
  BY <1>6, <1>8
<1>10. (dash.left = AfterReferrers =>
            Total(dash.referrers) <= TotalViews(Since(dash.range, 0)))'
  BY <1>7, <1>8
<1> QED
  BY <1>1, <1>9, <1>10 DEF DashInv

\* The answer to one question leaves the others, the table and the range as they are.
LEMMA AskKeeps ==
    ASSUME TableInv, DashInv, Ask
    PROVE  DashInv'
<1>0. dash # NoDash /\ dash.left # <<>>
  <2>1. NoDash.left = <<>>
    BY DEF NoDash
  <2> QED
    BY <2>1 DEF Ask
<1>1. /\ DOMAIN dash = Fields
      /\ dash.today \in Nat /\ dash.chartRange \in Nat /\ dash.range \in Nat
  BY <1>0 DEF DashInv
<1>2. UNCHANGED <<today, views>>
  BY DEF Ask
<1> DEFINE from == Since(dash.range, 0)
<1>3. ASSUME dash'.range = dash.range, dash'.today = dash.today
      PROVE  TotalViews(Since(dash.range, 0))' = TotalViews(from)
  BY <1>2, <1>3 DEF TotalViews, Since
<1>4. CASE dash.left = Queries
  <2>1. /\ DOMAIN dash' = Fields /\ dash'.left = AfterFirst /\ dash'.first = AnswerTo("first")
        /\ dash'.today = dash.today /\ dash'.chartRange = dash.chartRange
        /\ dash'.range = dash.range
    <3>1. Head(dash.left) = "first" /\ Tail(dash.left) = AfterFirst
      BY <1>4, Questions
    <3>2. "first" \in Fields \ {"left"}
      BY DEF Fields
    <3>3. /\ DOMAIN dash' = Fields /\ dash'.left = AfterFirst /\ dash'["first"] = AnswerTo("first")
          /\ \A f \in Fields \ {"left", "first"} : dash'[f] = dash[f]
      BY <1>1, <3>1, <3>2, AskNotes
    <3> QED
      BY <3>3 DEF Fields
  <2>2. AnswerTo("first") = FirstViewDay
    BY DEF AnswerTo
  <2>3. dash'.first \in Nat
    BY <1>1, <2>1, <2>2, FirstDayType
  <2> QED
    BY <1>1, <2>1, <2>3, Stages DEF DashInv
<1>5. CASE dash.left = AfterFirst
  <2>1. /\ DOMAIN dash' = Fields /\ dash'.left = AfterChart /\ dash'.chart = AnswerTo("chart")
        /\ dash'.today = dash.today /\ dash'.chartRange = dash.chartRange
        /\ dash'.range = dash.range /\ dash'.first = dash.first
    <3>1. /\ Head(dash.left) = "chart" /\ Tail(dash.left) = AfterChart
          /\ "chart" \in Fields \ {"left"}
      BY <1>5, Questions DEF Fields
    <3>2. /\ DOMAIN dash' = Fields /\ dash'.left = AfterChart /\ dash'["chart"] = AnswerTo("chart")
          /\ \A f \in Fields \ {"left", "chart"} : dash'[f] = dash[f]
      BY <1>1, <3>1, AskNotes
    <3> QED
      BY <3>2 DEF Fields
  <2>2. dash.first \in Nat
    BY <1>0, <1>5, Stages DEF DashInv
  <2> DEFINE since == Since(dash.chartRange, dash.first)
  <2>3. since \in Int
    BY <1>1, <2>2 DEF Since
  <2>4. AnswerTo("chart") = Chart(dash.chartRange, since)
    BY DEF AnswerTo
  <2>5. Total(dash'.chart.bars) = dash'.chart.window
    <3> HIDE DEF since
    <3> QED
      BY <1>1, <2>1, <2>3, <2>4, ChartIsAll
  <2> QED
    BY <1>1, <2>1, <2>2, <2>5, Stages DEF DashInv
<1>6. CASE dash.left = AfterChart
  <2>1. /\ DOMAIN dash' = Fields /\ dash'.left = AfterTop /\ dash'.top = AnswerTo("top")
        /\ dash'.today = dash.today /\ dash'.chartRange = dash.chartRange
        /\ dash'.range = dash.range /\ dash'.first = dash.first /\ dash'.chart = dash.chart
    <3>1. /\ Head(dash.left) = "top" /\ Tail(dash.left) = AfterTop
          /\ "top" \in Fields \ {"left"}
      BY <1>6, Questions DEF Fields
    <3>2. /\ DOMAIN dash' = Fields /\ dash'.left = AfterTop /\ dash'["top"] = AnswerTo("top")
          /\ \A f \in Fields \ {"left", "top"} : dash'[f] = dash[f]
      BY <1>1, <3>1, AskNotes
    <3> QED
      BY <3>2 DEF Fields
  <2>2. /\ dash.first \in Nat
        /\ Total(dash.chart.bars) = dash.chart.window
    BY <1>0, <1>6, Stages DEF DashInv
  <2>3. AnswerTo("top") = TopPaths(from)
    BY DEF AnswerTo
  <2>4. Total(TopPaths(from)) \in Nat /\ Total(TopPaths(from)) <= TotalViews(from)
    BY PagesAreNoMore
  <2>5. /\ Total(dash'.top) \in Nat
        /\ Total(dash'.top) <= TotalViews(Since(dash.range, 0))'
    <3> HIDE DEF from
    <3> QED
      BY <1>3, <2>1, <2>3, <2>4
  <2>6. Total(dash'.chart.bars) = dash'.chart.window /\ dash'.first \in Nat
    BY <2>1, <2>2
  <2> QED
    BY <1>1, <2>1, <2>5, <2>6, Stages DEF DashInv
<1>7. CASE dash.left = AfterTop
  <2>1. /\ DOMAIN dash' = Fields /\ dash'.left = AfterTotal
        /\ dash'.topTotal = AnswerTo("topTotal") /\ dash'.top = dash.top
        /\ dash'.today = dash.today /\ dash'.chartRange = dash.chartRange
        /\ dash'.range = dash.range /\ dash'.first = dash.first /\ dash'.chart = dash.chart
    <3>1. DOMAIN dash' = Fields /\ dash'.left = AfterTotal /\ dash'["topTotal"] = AnswerTo("topTotal")
      BY <1>1, <1>7, Questions, AskNotes DEF Fields
    <3>2. \A f \in Fields \ {"left", "topTotal"} : dash'[f] = dash[f]
      BY <1>1, <1>7, Questions, AskNotes DEF Fields
    <3> QED
      BY <3>1, <3>2 DEF Fields
  <2>2. /\ dash.first \in Nat
        /\ Total(dash.chart.bars) = dash.chart.window
        /\ Total(dash.top) \in Nat /\ Total(dash.top) <= TotalViews(from)
    BY <1>0, <1>7, Stages DEF DashInv
  <2>3. AnswerTo("topTotal") = TotalViews(from)
    BY DEF AnswerTo
  <2>4. /\ Total(dash'.top) \in Nat /\ Total(dash'.top) <= dash'.topTotal
        /\ Total(dash'.chart.bars) = dash'.chart.window /\ dash'.first \in Nat
    BY <2>1, <2>2, <2>3
  <2> QED
    BY <1>1, <2>1, <2>4, Stages DEF DashInv
<1>8. CASE dash.left = AfterTotal
  <2>1. /\ DOMAIN dash' = Fields /\ dash'.left = AfterVisitors
        /\ dash'.top = dash.top /\ dash'.topTotal = dash.topTotal
        /\ dash'.today = dash.today /\ dash'.chartRange = dash.chartRange
        /\ dash'.range = dash.range /\ dash'.first = dash.first /\ dash'.chart = dash.chart
    <3>1. DOMAIN dash' = Fields /\ dash'.left = AfterVisitors /\ dash'["visitors"] = AnswerTo("visitors")
      BY <1>1, <1>8, Questions, AskNotes DEF Fields
    <3>2. \A f \in Fields \ {"left", "visitors"} : dash'[f] = dash[f]
      BY <1>1, <1>8, Questions, AskNotes DEF Fields
    <3> QED
      BY <3>1, <3>2 DEF Fields
  <2>2. /\ dash.first \in Nat
        /\ Total(dash.chart.bars) = dash.chart.window
        /\ Total(dash.top) \in Nat /\ Total(dash.top) <= dash.topTotal
    BY <1>0, <1>8, Stages DEF DashInv
  <2>3. /\ Total(dash'.top) \in Nat /\ Total(dash'.top) <= dash'.topTotal
        /\ Total(dash'.chart.bars) = dash'.chart.window /\ dash'.first \in Nat
    BY <2>1, <2>2
  <2> QED
    BY <1>1, <2>1, <2>3, Stages DEF DashInv
<1>9. CASE dash.left = AfterVisitors
  <2>1. /\ DOMAIN dash' = Fields /\ dash'.left = AfterReferrers
        /\ dash'.referrers = AnswerTo("referrers")
        /\ dash'.top = dash.top /\ dash'.topTotal = dash.topTotal
        /\ dash'.today = dash.today /\ dash'.chartRange = dash.chartRange
        /\ dash'.range = dash.range /\ dash'.first = dash.first /\ dash'.chart = dash.chart
    <3>1. DOMAIN dash' = Fields /\ dash'.left = AfterReferrers /\ dash'["referrers"] = AnswerTo("referrers")
      BY <1>1, <1>9, Questions, AskNotes DEF Fields
    <3>2. \A f \in Fields \ {"left", "referrers"} : dash'[f] = dash[f]
      BY <1>1, <1>9, Questions, AskNotes DEF Fields
    <3> QED
      BY <3>1, <3>2 DEF Fields
  <2>2. /\ dash.first \in Nat
        /\ Total(dash.chart.bars) = dash.chart.window
        /\ Total(dash.top) \in Nat /\ Total(dash.top) <= dash.topTotal
    BY <1>0, <1>9, Stages DEF DashInv
  <2>3. AnswerTo("referrers") = TopReferrers(from)
    BY DEF AnswerTo
  <2>4. Total(TopReferrers(from)) \in Nat /\ Total(TopReferrers(from)) <= TotalViews(from)
    BY SitesAreNoMore
  <2>5. /\ Total(dash'.referrers) \in Nat
        /\ Total(dash'.referrers) <= TotalViews(Since(dash.range, 0))'
    <3> HIDE DEF from
    <3> QED
      BY <1>3, <2>1, <2>3, <2>4
  <2>6. /\ Total(dash'.top) \in Nat /\ Total(dash'.top) <= dash'.topTotal
        /\ Total(dash'.chart.bars) = dash'.chart.window /\ dash'.first \in Nat
    BY <2>1, <2>2
  <2> QED
    BY <1>1, <2>1, <2>5, <2>6, Stages DEF DashInv
<1>10. CASE dash.left = AfterReferrers
  <2>1. /\ DOMAIN dash' = Fields /\ dash'.left = <<>>
        /\ dash'.refTotal = AnswerTo("refTotal") /\ dash'.referrers = dash.referrers
        /\ dash'.top = dash.top /\ dash'.topTotal = dash.topTotal
        /\ dash'.today = dash.today /\ dash'.chartRange = dash.chartRange
        /\ dash'.range = dash.range /\ dash'.first = dash.first /\ dash'.chart = dash.chart
    <3>1. DOMAIN dash' = Fields /\ dash'.left = <<>> /\ dash'["refTotal"] = AnswerTo("refTotal")
      BY <1>1, <1>10, Questions, AskNotes DEF Fields
    <3>2. \A f \in Fields \ {"left", "refTotal"} : dash'[f] = dash[f]
      BY <1>1, <1>10, Questions, AskNotes DEF Fields
    <3> QED
      BY <3>1, <3>2 DEF Fields
  <2>2. /\ dash.first \in Nat
        /\ Total(dash.chart.bars) = dash.chart.window
        /\ Total(dash.top) \in Nat /\ Total(dash.top) <= dash.topTotal
        /\ Total(dash.referrers) \in Nat /\ Total(dash.referrers) <= TotalViews(from)
    BY <1>0, <1>10, Stages DEF DashInv
  <2>3. AnswerTo("refTotal") = TotalViews(from)
    BY DEF AnswerTo
  <2>4. /\ Total(dash'.top) \in Nat /\ Total(dash'.top) <= dash'.topTotal
        /\ Total(dash'.referrers) \in Nat /\ Total(dash'.referrers) <= dash'.refTotal
        /\ Total(dash'.chart.bars) = dash'.chart.window /\ dash'.first \in Nat
    BY <2>1, <2>2, <2>3
  <2> QED
    BY <1>1, <2>1, <2>4, Stages DEF DashInv
<1> QED
  BY <1>0, <1>4, <1>5, <1>6, <1>7, <1>8, <1>9, <1>10 DEF DashInv

\* No step breaks the table, and no step of the dashboard its numbers.
LEMMA NumbersStep == TableInv /\ DashInv /\ [ViewsNext]_viewVars => (TableInv /\ DashInv)'
<1> SUFFICES ASSUME TableInv, DashInv, [ViewsNext]_viewVars PROVE (TableInv /\ DashInv)'
  OBVIOUS
<1>1. ASSUME NEW path \in Paths, NEW who \in Visitors,
             NEW r \in Referrers \cup {NoReferrer}, RecordView(path, who, r)
      PROVE  (TableInv /\ DashInv)'
  <2>1. dash' = dash
    BY <1>1 DEF RecordView
  <2> QED
    BY <1>1, <2>1, RecordKeeps, WaitingKeeps
<1>2. ASSUME NEW path \in Paths, NEW who \in Visitors, AddDwell(path, who)
      PROVE  (TableInv /\ DashInv)'
  <2>1. dash' = dash
    BY <1>2 DEF AddDwell
  <2> QED
    BY <1>2, <2>1, DwellKeeps, WaitingKeeps
<1>3. CASE Midnight \/ RenderDashboard \/ UNCHANGED viewVars
  <2>1. views' = views /\ today' \in Nat /\ (dash' = dash \/ dash' = NoDash)
    BY <1>3 DEF Midnight, RenderDashboard, viewVars, TableInv
  <2>2. TableInv'
    BY <2>1 DEF TableInv
  <2>3. CASE dash' = NoDash
    BY <2>2, <2>3 DEF DashInv
  <2>4. CASE dash' = dash
    <3>1. \A since : TotalViews(since) <= TotalViews(since)'
      <4> SUFFICES ASSUME NEW since PROVE TotalViews(since) <= TotalViews(since)'
        OBVIOUS
      <4>1. TotalViews(since) \in Nat /\ TotalViews(since)' = TotalViews(since)
        BY <2>1, ViewsAreFinite DEF TableInv, TotalViews
      <4> QED
        BY <4>1
    <3> QED
      BY <2>2, <2>4, <3>1, WaitingKeeps
  <2> QED
    BY <2>1, <2>3, <2>4
<1>4. ASSUME NEW chartRange \in Ranges, NEW range \in Ranges, BeginDashboard(chartRange, range)
      PROVE  (TableInv /\ DashInv)'
  <2>1. UNCHANGED <<today, views>>
    BY <1>4 DEF BeginDashboard
  <2>2. /\ DOMAIN dash' = Fields /\ dash'.left = Queries /\ dash'.today = today
        /\ dash'.chartRange = chartRange /\ dash'.range = range
    BY <1>4 DEF BeginDashboard, Fields
  <2>3. today \in Nat /\ chartRange \in Nat /\ range \in Nat
    BY ViewsAssumption DEF TableInv
  <2>4. TableInv'
    BY <2>1 DEF TableInv
  <2> QED
    BY <2>2, <2>3, <2>4, Stages DEF DashInv
<1>5. CASE Ask
  <2>1. UNCHANGED <<today, views>>
    BY <1>5 DEF Ask
  <2>2. TableInv'
    BY <2>1 DEF TableInv
  <2> QED
    BY <1>5, <2>2, AskKeeps
<1> QED
  BY <1>1, <1>2, <1>3, <1>4, <1>5 DEF ViewsNext

\* What the dashboard shows adds up, whatever is recorded while it asks and if midnight
\* passes: what it lists is never more than what it is shown as a share of, and a chart of
\* any range, by the day or by the month, has a bar for every view of its window (TopPaths,
\* TotalViews, viewsChart).
THEOREM NumbersAlwaysAddUp == ViewsSpec => []NumbersAddUp
<1>1. ViewsInit => TableInv /\ DashInv
  <2> SUFFICES ASSUME ViewsInit PROVE TableInv /\ DashInv
    OBVIOUS
  <2>1. today \in Nat
    BY ViewsAssumption DEF ViewsInit
  <2> QED
    BY <2>1, FS_EmptySet DEF ViewsInit, TableInv, DashInv
<1>2. DashInv => NumbersAddUp
  BY Stages DEF DashInv, NumbersAddUp
<1> QED
  BY <1>1, <1>2, NumbersStep, PTL DEF ViewsSpec
=============================================================================
