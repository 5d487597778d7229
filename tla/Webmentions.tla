----------------------------- MODULE Webmentions -----------------------------
(***************************************************************************)
(* Webmentions (internal/webmention/webmention.go, store/webmentions.go).   *)
(*                                                                         *)
(* Incoming: anybody reports that a page links to a post.  Each report      *)
(* starts a goroutine that fetches the page and gives a verdict; the        *)
(* operator approves or rejects.  Outgoing: at startup and every hour one   *)
(* goroutine goes over the published posts and tells the targets of their   *)
(* links; what was told is remembered in the table.                         *)
(***************************************************************************)
EXTENDS Integers

CONSTANTS
    Mentions,      \* incoming: pairs of a page and a post
    Notices,       \* outgoing: pairs of a post and a page it links to
    MaxReports, MaxSourceChanges, MaxPostChanges, MaxTroubles, MaxMentionCrashes   \* bounds

ASSUME WebmentionsAssumption ==
    {MaxReports, MaxSourceChanges, MaxPostChanges, MaxTroubles, MaxMentionCrashes} \subseteq Nat

VARIABLES
    verdict,      \* status of the row of an incoming mention, or "none"
    fetching,     \* how many goroutines are fetching the page
    fetched,      \* for each answer, how many goroutines are about to write it
    linking,      \* the page links to the post now
    moderated,    \* history: what the operator last said
    told,         \* status of the row of an outgoing notice, or "none"
    public,       \* the post is published and links to the page
    scan,         \* SendAll: the notices still to look at, the one in hand, its step
    accepted,     \* history: how often the other side took the notice
    doubts,       \* history: how often the answer or its record was lost on the way
    reports, sourceChanges, postChanges, troubles, mentionCrashes   \* counters for the bounds

inVars  == <<verdict, fetching, fetched, linking, moderated, reports, sourceChanges>>
outVars == <<told, public, scan, accepted, doubts, postChanges, troubles>>
mentionVars == <<inVars, outVars, mentionCrashes>>

Verdicts == {"verified", "rejected"}
Resting == [at |-> "rest", left |-> {}, notice |-> "none", answer |-> "none"]

MentionsInit ==
    /\ verdict = [m \in Mentions |-> "none"]
    /\ fetching = [m \in Mentions |-> 0]
    /\ fetched = [m \in Mentions |-> [v \in Verdicts |-> 0]]
    /\ linking \in [Mentions -> BOOLEAN]
    /\ moderated = [m \in Mentions |-> "none"]
    /\ told = [n \in Notices |-> "none"]
    /\ public \in [Notices -> BOOLEAN]
    /\ scan = Resting
    /\ accepted = [n \in Notices |-> 0] /\ doubts = [n \in Notices |-> 0]
    /\ reports = 0 /\ sourceChanges = 0 /\ postChanges = 0 /\ troubles = 0 /\ mentionCrashes = 0

-----------------------------------------------------------------------------
(* Incoming.                                                                 *)

\* Mutant: a report puts the mention back in the queue whatever was decided.
Queued_Mutant(v) == "pending"

\* QueueWebmention's upsert: what is approved or rejected stays so.
Queued(v) == IF v \in {"approved", "rejected"} THEN v ELSE "pending"

\* Receive, for a post that is published: the row, then the goroutine.
Receive(m) ==
    /\ reports < MaxReports
    /\ reports' = reports + 1
    /\ verdict' = [verdict EXCEPT ![m] = Queued(@)]
    /\ fetching' = [fetching EXCEPT ![m] = @ + 1]
    /\ UNCHANGED <<fetched, linking, moderated, sourceChanges, outVars, mentionCrashes>>

\* verify: the page is fetched; it links to the post, or not, or there is no answer.
FetchSource(m) ==
    /\ fetching[m] > 0
    /\ fetching' = [fetching EXCEPT ![m] = @ - 1]
    /\ \E v \in {IF linking[m] THEN "verified" ELSE "rejected", "rejected"} :
         fetched' = [fetched EXCEPT ![m][v] = @ + 1]
    /\ UNCHANGED <<verdict, linking, moderated, reports, sourceChanges, outVars, mentionCrashes>>

\* VerifyWebmention
Verified(old, new) == IF old = "pending" THEN new ELSE old

WriteVerdict(m, v) ==
    /\ fetched[m][v] > 0
    /\ fetched' = [fetched EXCEPT ![m][v] = @ - 1]
    /\ verdict' = [verdict EXCEPT ![m] = Verified(@, v)]
    /\ UNCHANGED <<fetching, linking, moderated, reports, sourceChanges, outVars, mentionCrashes>>

\* ModerateWebmention: a mention that waits for its verdict cannot be moderated.
Moderate(m, v) ==
    /\ verdict[m] \in {"verified", "approved", "rejected"} \ {v}
    /\ verdict' = [verdict EXCEPT ![m] = v]
    /\ moderated' = [moderated EXCEPT ![m] = v]
    /\ UNCHANGED <<fetching, fetched, linking, reports, sourceChanges, outVars, mentionCrashes>>

SourceChanges(m) ==
    /\ sourceChanges < MaxSourceChanges
    /\ sourceChanges' = sourceChanges + 1
    /\ linking' = [linking EXCEPT ![m] = ~@]
    /\ UNCHANGED <<verdict, fetching, fetched, moderated, reports, outVars, mentionCrashes>>

-----------------------------------------------------------------------------
(* Outgoing.                                                                 *)

\* The posts are read once for the whole pass; when they cannot be, the pass is over.
StartScan ==
    /\ scan.at = "rest"
    /\ \/ /\ scan' = [Resting EXCEPT !.at = "next", !.left = {n \in Notices : public[n]}]
          /\ UNCHANGED troubles
       \/ /\ troubles < MaxTroubles /\ troubles' = troubles + 1
          /\ UNCHANGED scan
    /\ UNCHANGED <<inVars, told, public, accepted, doubts, postChanges, mentionCrashes>>

\* Mutant: one failure is the end of it.
Done_Mutant(n) == told[n] # "none"

\* HasOutgoingWebmention
Done(n) == told[n] \notin {"none", "failed"}

Next1(s) == [s EXCEPT !.at = "next", !.left = @ \ {s.notice}, !.notice = "none", !.answer = "none"]

\* One link, up to the request: those that are done are passed over, those the table does not
\* tell of, and those of a post that does not render.
Look(n) ==
    /\ scan.at = "next" /\ n \in scan.left
    /\ \/ /\ scan' = IF Done(n) THEN [scan EXCEPT !.left = @ \ {n}]
                      ELSE [scan EXCEPT !.at = "send", !.notice = n]
          /\ UNCHANGED troubles
       \/ /\ troubles < MaxTroubles /\ troubles' = troubles + 1
          /\ scan' = [scan EXCEPT !.left = @ \ {n}]
    /\ UNCHANGED <<inVars, told, public, accepted, doubts, postChanges, mentionCrashes>>

\* The target's page is fetched and the notice posted to the endpoint it names.  In trouble
\* there is no answer, though the notice may have arrived; a page may name no endpoint.
Send ==
    LET n == scan.notice IN
    /\ scan.at = "send"
    /\ \/ /\ scan' = [scan EXCEPT !.at = "record", !.answer = "sent"]
          /\ accepted' = [accepted EXCEPT ![n] = @ + 1]
          /\ UNCHANGED <<doubts, troubles>>
       \/ /\ scan' = [scan EXCEPT !.at = "record", !.answer = "unsupported"]
          /\ UNCHANGED <<accepted, doubts, troubles>>
       \/ /\ troubles < MaxTroubles /\ troubles' = troubles + 1
          /\ scan' = [scan EXCEPT !.at = "record", !.answer = "failed"]
          /\ \E arrived \in BOOLEAN :
               IF arrived THEN /\ accepted' = [accepted EXCEPT ![n] = @ + 1]
                               /\ doubts' = [doubts EXCEPT ![n] = @ + 1]
               ELSE UNCHANGED <<accepted, doubts>>
    /\ UNCHANGED <<inVars, told, public, postChanges, mentionCrashes>>

\* Mutant: INSERT ... ON CONFLICT DO NOTHING.
Recorded_Mutant(old, new) == IF old = "none" THEN new ELSE old

\* OutgoingWebmention replaces the row.
Recorded(old, new) == new

\* An error of the table is ignored.
Record ==
    /\ scan.at = "record"
    /\ \/ /\ told' = [told EXCEPT ![scan.notice] = Recorded(@, scan.answer)]
          /\ UNCHANGED <<doubts, troubles>>
       \/ /\ troubles < MaxTroubles /\ troubles' = troubles + 1
          /\ doubts' = [doubts EXCEPT ![scan.notice] = @ + IF scan.answer = "sent" THEN 1 ELSE 0]
          /\ UNCHANGED told
    /\ scan' = Next1(scan)
    /\ UNCHANGED <<inVars, public, accepted, postChanges, mentionCrashes>>

EndScan ==
    /\ scan.at = "next" /\ scan.left = {}
    /\ scan' = Resting
    /\ UNCHANGED <<inVars, told, public, accepted, doubts, postChanges, troubles, mentionCrashes>>

\* Posts are published, withdrawn, edited.
PostChanges(n) ==
    /\ postChanges < MaxPostChanges
    /\ postChanges' = postChanges + 1
    /\ public' = [public EXCEPT ![n] = ~@]
    /\ UNCHANGED <<inVars, told, scan, accepted, doubts, troubles, mentionCrashes>>

\* The process ends and starts again: goroutines and what they knew are gone.
RestartMentions ==
    /\ mentionCrashes < MaxMentionCrashes
    /\ mentionCrashes' = mentionCrashes + 1
    /\ fetching' = [m \in Mentions |-> 0]
    /\ fetched' = [m \in Mentions |-> [v \in Verdicts |-> 0]]
    /\ scan' = Resting
    /\ doubts' = [n \in Notices |->
                    doubts[n] + IF scan.at = "record" /\ scan.answer = "sent" /\ scan.notice = n
                                THEN 1 ELSE 0]
    /\ UNCHANGED <<verdict, linking, moderated, told, public, accepted, reports, sourceChanges,
                   postChanges, troubles>>

MentionsNext ==
    \/ \E m \in Mentions : \/ Receive(m) \/ FetchSource(m) \/ SourceChanges(m)
                           \/ \E v \in Verdicts : WriteVerdict(m, v)
                           \/ \E v \in {"approved", "rejected"} : Moderate(m, v)
    \/ StartScan \/ EndScan \/ Send \/ Record
    \/ \E n \in Notices : Look(n) \/ PostChanges(n)
    \/ RestartMentions

MentionsSpec == MentionsInit /\ [][MentionsNext]_mentionVars

\* The ticker fires every hour, a fetch ends after 20 seconds at the latest.
SendingGoesOn == StartScan \/ EndScan \/ Send \/ Record \/ (\E n \in Notices : Look(n))

-----------------------------------------------------------------------------
(* Properties.                                                              *)

\* What the operator decided stays, whatever is reported afterwards and whichever of the
\* verdicts of earlier reports arrives late.
ModerationStands ==
    \A m \in Mentions : moderated[m] # "none" => verdict[m] = moderated[m]

\* Nobody is told twice, but for notices of which the answer or its record was lost (a
\* restart, a timeout, a full disk): a failed attempt that is repeated, an article that comes
\* and goes, and a link that occurs in every pass make no second notice.
ToldOnce == \A n \in Notices : accepted[n] <= 1 + doubts[n]

\* A link in a published post is announced in the end, or its target found to take no
\* notices: after failures, lost records and restarts the next pass tries again.
LinksAreAnnounced ==
    \A n \in Notices : []<>(~public[n] \/ told[n] \in {"sent", "unsupported"})
=============================================================================
