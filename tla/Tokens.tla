------------------------------- MODULE Tokens -------------------------------
(***************************************************************************)
(* Tokens minted on the integrations page for the API and MCP               *)
(* (internal/store/tokens.go, internal/server/admin_integrations.go), and   *)
(* what a request that carries one does (internal/server/helpers.go).       *)
(*                                                                         *)
(* The page shows when each token was last used.  A request looks the token *)
(* up, decides under a lock whether the use is worth a write, and writes    *)
(* after giving the lock back; what was decided lives in memory.            *)
(***************************************************************************)
EXTENDS Integers, FiniteSets

CONSTANTS
    Ids,           \* tokens that may be minted
    Requests,      \* goroutines of requests that carry a token
    Offered,       \* scopes that may be ticked on the form
    NotMinted,     \* a row that is not there
    Minute,        \* in ticks
    MaxTokenTicks, MaxTouchFailures, MaxTokenRestarts   \* bounds

Scopes == {"read", "drafts", "publish", "delete", "ops"}

ASSUME TokensAssumption ==
    /\ Offered \subseteq SUBSET Scopes
    /\ NotMinted \notin [scopes : SUBSET Scopes, lastUsed : Int, revoked : BOOLEAN]
    /\ Minute \in Nat \ {0} /\ {MaxTokenTicks, MaxTouchFailures, MaxTokenRestarts} \subseteq Nat

VARIABLES
    time,          \* time.Now
    apiTokens,     \* the table
    tokenTouched,  \* Deps.tokenTouched: when a use was last found worth a write
    request,       \* for each request, the token it was admitted with and its step
    lastAdmitted,  \* history: the latest time at which a request was let in with the token
    unrecorded,    \* history: a write of a use failed or was lost, and none has succeeded since
    touchFailures, tokenRestarts

tokenVars == <<time, apiTokens, tokenTouched, request, lastAdmitted, unrecorded, touchFailures,
               tokenRestarts>>

Never  == -1
NoRequest == [at |-> "idle"]

TokensInit ==
    /\ time = 0
    /\ apiTokens = [i \in Ids |-> NotMinted]
    /\ tokenTouched = [i \in Ids |-> Never]
    /\ request = [q \in Requests |-> NoRequest]
    /\ lastAdmitted = [i \in Ids |-> Never]
    /\ unrecorded = {}
    /\ touchFailures = 0 /\ tokenRestarts = 0

\* adminTokenCreate.  A form without the field that says it knows of scopes gets the safe
\* ones; one that knows of them and chooses none is refused.
Mint(i, chosen, knows) ==
    /\ apiTokens[i] = NotMinted
    /\ chosen # {} \/ ~knows
    /\ apiTokens' = [apiTokens EXCEPT ![i] =
           [scopes |-> IF chosen = {} THEN {"read", "drafts"} ELSE chosen,
            lastUsed |-> Never, revoked |-> FALSE]]
    /\ UNCHANGED <<time, tokenTouched, request, lastAdmitted, unrecorded, touchFailures, tokenRestarts>>

\* RevokeAPIToken: the row stays.
Revoke(i) ==
    /\ apiTokens[i] # NotMinted /\ ~apiTokens[i].revoked
    /\ apiTokens' = [apiTokens EXCEPT ![i].revoked = TRUE]
    /\ UNCHANGED <<time, tokenTouched, request, lastAdmitted, unrecorded, touchFailures, tokenRestarts>>

\* LookupAPIToken
Lookup(q, i) ==
    /\ request[q] = NoRequest
    /\ apiTokens[i] # NotMinted /\ ~apiTokens[i].revoked
    /\ request' = [request EXCEPT ![q] = [at |-> "touch", id |-> i, now |-> time]]
    /\ UNCHANGED <<time, apiTokens, tokenTouched, lastAdmitted, unrecorded, touchFailures, tokenRestarts>>

JustTouched(i, now) == tokenTouched[i] # Never /\ now - tokenTouched[i] < Minute

\* Mutant: the map is brought up to date by every use, also by one that is not written.
Touched_Mutant(i, now) == now

Touched(i, now) == IF JustTouched(i, now) THEN tokenTouched[i] ELSE now

\* The request goes on to its handler.
Admit(q) ==
    /\ request' = [request EXCEPT ![q] = NoRequest]
    /\ lastAdmitted' = [lastAdmitted EXCEPT ![request[q].id] =
                          IF request[q].now > @ THEN request[q].now ELSE @]

\* touchToken, under tokenTouchMu.
Touch(q) ==
    /\ request[q].at = "touch"
    /\ LET i == request[q].id IN
         /\ tokenTouched' = [tokenTouched EXCEPT ![i] = Touched(i, request[q].now)]
         /\ IF JustTouched(i, request[q].now) THEN Admit(q)
            ELSE request' = [request EXCEPT ![q].at = "write"] /\ UNCHANGED lastAdmitted
    /\ UNCHANGED <<time, apiTokens, unrecorded, touchFailures, tokenRestarts>>

\* TouchAPIToken; an error is only logged.
WriteUse(q, ok) ==
    /\ request[q].at = "write"
    /\ ~ok => touchFailures < MaxTouchFailures
    /\ touchFailures' = touchFailures + IF ok THEN 0 ELSE 1
    /\ Admit(q)
    /\ LET i == request[q].id IN
         IF ok THEN /\ apiTokens' = [apiTokens EXCEPT ![i].lastUsed = time]
                    /\ unrecorded' = unrecorded \ {i}
         ELSE unrecorded' = unrecorded \cup {i} /\ UNCHANGED apiTokens
    /\ UNCHANGED <<time, tokenTouched, tokenRestarts>>

Writing(i) == \E q \in Requests : request[q].at = "write" /\ request[q].id = i

TokenTick ==
    /\ time < MaxTokenTicks
    /\ time' = time + 1
    /\ UNCHANGED <<apiTokens, tokenTouched, request, lastAdmitted, unrecorded, touchFailures, tokenRestarts>>

RestartTokens ==
    /\ tokenRestarts < MaxTokenRestarts
    /\ tokenRestarts' = tokenRestarts + 1
    /\ tokenTouched' = [i \in Ids |-> Never]
    /\ request' = [q \in Requests |-> NoRequest]
    /\ unrecorded' = unrecorded \cup {i \in Ids : Writing(i)}
    /\ UNCHANGED <<time, apiTokens, lastAdmitted, touchFailures>>

TokensNext ==
    \/ \E i \in Ids : \/ \E chosen \in Offered, knows \in BOOLEAN : Mint(i, chosen, knows)
                      \/ Revoke(i)
    \/ \E q \in Requests : \/ \E i \in Ids : Lookup(q, i)
                           \/ Touch(q)
                           \/ \E ok \in BOOLEAN : WriteUse(q, ok)
    \/ TokenTick
    \/ RestartTokens

TokensSpec == TokensInit /\ [][TokensNext]_tokenVars

-----------------------------------------------------------------------------
(* Properties.                                                              *)

\* What the page says of a token's last use is at most a minute behind the truth, by which
\* an operator tells live credentials from forgotten ones: uses that were not worth a write
\* never add up, whatever the order of the requests, unless a write failed, was lost with
\* the process or is on its way.
LastUseIsShown ==
    \A i \in Ids : lastAdmitted[i] # Never =>
        \/ apiTokens[i].lastUsed # Never /\ lastAdmitted[i] - apiTokens[i].lastUsed < Minute
        \/ i \in unrecorded \/ Writing(i)
=============================================================================
