------------------------------ MODULE MCServer ------------------------------
(***************************************************************************)
(* The parts of the server that keep their own state and share none: what   *)
(* reaches the site from outside (links from feeds, webmentions, the key    *)
(* from the keyserver) and what stands between a request and its handler.   *)
(* Each behaviour runs one of them, so that TLC adds their state spaces.    *)
(***************************************************************************)
EXTENDS Links, Webmentions, KeyCache, Limiter, Login, Tokens, MCAgents, Resources, Views

CONSTANTS linkA, linkB, linkBad

MCFeedItems  == <<<<linkA>>, <<linkBad>>>>
MCFirstLinks == {[id |-> 1, href |-> linkB, source |-> "manual", date |-> 2]}
MCDatesOf    == [manual |-> {2}, rss |-> {1}]
MCArchives   == {[rows |-> {}, last |-> 0]}
MCOffered    == {{}, {"read"}, {"drafts", "publish"}}

VARIABLE part

\* Each part's initial state, with nothing to choose in the parts that do not run.
Init ==
    /\ part \in {"links", "mentions", "key", "limiter", "login", "tokens", "agents", "resources",
                 "views"}
    /\ LinksInit /\ MentionsInit /\ KeyInit /\ LimiterInit /\ LoginInit /\ TokensInit
    /\ AgentsInit /\ ResourcesInit /\ ViewsInit
    /\ part # "mentions" => ~\E m \in Mentions, n \in Notices : linking[m] \/ public[n]
    /\ part # "key" => address = NoAddress /\ \A x \in Addresses : keyserver[x] = 0
    /\ part # "agents" => article = NoArticle
    /\ part # "resources" => onDisk = {}
    /\ part # "views" => today = 0

Part(name, next, others) == part = name /\ next /\ UNCHANGED <<part, others>>

intakeVars  == <<linkVars, mentionVars, keyVars>>
accessVars  == <<limiterVars, loginVars, tokenVars>>
contentVars == <<agentVars, resourceVars, viewVars>>

allVars     == <<part, intakeVars, accessVars, contentVars>>

OfMentions(next) == Part("mentions", next, <<linkVars, keyVars, accessVars, contentVars>>)

Next ==
    \/ Part("links", LinksNext, <<mentionVars, keyVars, accessVars, contentVars>>)
    \/ OfMentions(MentionsNext)
    \/ Part("key", KeyNext, <<linkVars, mentionVars, accessVars, contentVars>>)
    \/ Part("limiter", LimiterNext, <<intakeVars, loginVars, tokenVars, contentVars>>)
    \/ Part("login", LoginNext, <<intakeVars, limiterVars, tokenVars, contentVars>>)
    \/ Part("tokens", TokensNext, <<intakeVars, limiterVars, loginVars, contentVars>>)
    \/ Part("agents", AgentsNext, <<intakeVars, accessVars, resourceVars, viewVars>>)
    \/ Part("resources", ResourcesNext, <<intakeVars, accessVars, agentVars, viewVars>>)
    \/ Part("views", ViewsNext, <<intakeVars, accessVars, agentVars, resourceVars>>)

Spec == Init /\ [][Next]_allVars /\ WF_allVars(OfMentions(SendingGoesOn))
=============================================================================
