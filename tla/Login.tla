-------------------------------- MODULE Login --------------------------------
(***************************************************************************)
(* The one administrator's login (internal/auth/auth.go): a password and a  *)
(* code, for which a cookie is given that names its own expiry, is signed   *)
(* and is looked up nowhere.                                                *)
(*                                                                         *)
(* A code belongs to a period of the clock and is good in the one before    *)
(* and the one after, too.  It is validated first and marked as used, under *)
(* the lock and by a later reading of the clock, after that; marks are      *)
(* dropped in time, and all of them when the process ends.                  *)
(***************************************************************************)
EXTENDS Integers

CONSTANTS
    Browsers,      \* who logs in; several tabs, scripts and people
    TotpPeriod,    \* ticks in a period
    Codes,         \* the codes that are presented, each by its period
    MaxLoginTicks, MaxLoginRestarts   \* bounds

ASSUME LoginAssumption ==
    /\ TotpPeriod \in Nat \ {0} /\ {MaxLoginTicks, MaxLoginRestarts} \subseteq Nat /\ Codes \subseteq Nat

VARIABLES
    clock,         \* time.Now
    usedTOTP,      \* for each period spent, when
    attempt,       \* the code of each browser's request in flight: its period, validated or not
    admitted,      \* history: the codes that were accepted, and how often, by this process
    loginRestarts

loginVars == <<clock, usedTOTP, attempt, admitted, loginRestarts>>

Period(t) == t \div TotpPeriod
NoAttempt == [code |-> -1]

LoginInit ==
    /\ clock = TotpPeriod
    /\ usedTOTP = {}
    /\ attempt = [b \in Browsers |-> NoAttempt]
    /\ admitted = [s \in Codes |-> 0]
    /\ loginRestarts = 0

\* totp.Validate
Validates(code) == code \in Period(clock) - 1 .. Period(clock) + 1

\* The request gets past the throttle, the password is right, and so is the code.
CheckBoth(b, code) ==
    /\ attempt[b] = NoAttempt
    /\ Validates(code)
    /\ attempt' = [attempt EXCEPT ![b] = [code |-> code]]
    /\ UNCHANGED <<clock, usedTOTP, admitted, loginRestarts>>

\* Mutant: a mark is dropped when the period it was made in is over.
Outdated_Mutant(u) == clock - u.seen > TotpPeriod

Outdated(u) == clock - u.seen > 5 * TotpPeriod

\* consumeTOTP; a session begins when it says yes.
Consume(b) ==
    LET code == attempt[b].code
        kept == {u \in usedTOTP : ~Outdated(u)}
        good == Validates(code) /\ ~\E u \in kept : u.period = code
    IN /\ attempt[b] # NoAttempt
       /\ attempt' = [attempt EXCEPT ![b] = NoAttempt]
       /\ usedTOTP' = kept \cup IF good THEN {[period |-> code, seen |-> clock]} ELSE {}
       /\ admitted' = IF good THEN [admitted EXCEPT ![code] = @ + 1] ELSE admitted
       /\ UNCHANGED <<clock, loginRestarts>>

ClockTicks ==
    /\ clock < MaxLoginTicks
    /\ clock' = clock + 1
    /\ UNCHANGED <<usedTOTP, attempt, admitted, loginRestarts>>

\* New: no marks.  Sessions stay good.
RestartLogin ==
    /\ loginRestarts < MaxLoginRestarts
    /\ loginRestarts' = loginRestarts + 1
    /\ usedTOTP' = {} /\ attempt' = [b \in Browsers |-> NoAttempt]
    /\ admitted' = [s \in Codes |-> 0]
    /\ UNCHANGED clock

LoginNext ==
    \/ \E b \in Browsers : \/ \E code \in Codes : CheckBoth(b, code)
                           \/ Consume(b)
    \/ ClockTicks
    \/ RestartLogin

LoginSpec == LoginInit /\ [][LoginNext]_loginVars

-----------------------------------------------------------------------------
(* Properties.                                                              *)

\* No code opens two sessions in the life of a process: not for two requests that were
\* validated side by side, nor when the clock moves on between validation and mark, nor
\* after marks were dropped.  (auth.go: "A code is accepted at most once.")
CodesAreSpent == \A s \in Codes : admitted[s] <= 1
=============================================================================
