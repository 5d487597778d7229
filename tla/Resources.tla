------------------------------ MODULE Resources ------------------------------
(***************************************************************************)
(* The posts that the MCP server lists as resources                         *)
(* (internal/server/mcp.go, syncArticleResources).  Each request for the    *)
(* list first makes the server's list match the posts directory: it adds    *)
(* every post it has read, compares with what an earlier request added, and *)
(* withdraws what is gone.  Only the comparison is under a lock; requests   *)
(* run side by side and posts come and go meanwhile.                        *)
(***************************************************************************)
EXTENDS Integers, FiniteSets

CONSTANTS
    Slugs,        \* posts
    Listers,      \* goroutines of requests for the list
    MaxLists, MaxPostMoves   \* bounds

ASSUME ResourcesAssumption == {MaxLists, MaxPostMoves} \subseteq Nat

VARIABLES
    onDisk,         \* the posts directory
    resources,      \* what the SDK's server lists
    mcpArticleRes,  \* Deps.mcpArticleRes: what the last comparison left
    lister,         \* the locals of each request
    lists, postMoves

resourceVars == <<onDisk, resources, mcpArticleRes, lister, lists, postMoves>>

NotListing == [at |-> "idle"]

\* registerArticleResources has synced once before requests come.
ResourcesInit ==
    /\ onDisk \in SUBSET Slugs
    /\ resources = onDisk /\ mcpArticleRes = onDisk
    /\ lister = [t \in Listers |-> NotListing]
    /\ lists = 0 /\ postMoves = 0

\* History: disturbed is set when anything else happens between request and answer.
Disturb(ts) == [t \in Listers |-> IF t \in ts /\ lister[t].at # "idle"
                                  THEN [lister[t] EXCEPT !.disturbed = TRUE] ELSE lister[t]]

\* The posts directory is read, or cannot be; then the list stays as it is.
BeginList(t, ok) ==
    /\ lister[t].at = "idle" /\ lists < MaxLists
    /\ lists' = lists + 1
    /\ lister' = [Disturb(Listers \ {t}) EXCEPT ![t] =
           [at |-> IF ok THEN "add" ELSE "answer", present |-> onDisk, todo |-> onDisk, gone |-> {},
            disturbed |-> ~ok \/ \E u \in Listers : lister[u].at # "idle"]]
    /\ UNCHANGED <<onDisk, resources, mcpArticleRes, postMoves>>

AddResource(t, slug) ==
    /\ lister[t].at = "add" /\ slug \in lister[t].todo
    /\ resources' = resources \cup {slug}
    /\ lister' = [lister EXCEPT ![t].todo = @ \ {slug}]
    /\ UNCHANGED <<onDisk, mcpArticleRes, lists, postMoves>>

\* Mutant: the map is replaced before it is compared.
Gone_Mutant(present) == present \ present

Gone(present) == mcpArticleRes \ present

\* Under mcpResMu.
Compare(t) ==
    /\ lister[t].at = "add" /\ lister[t].todo = {}
    /\ lister' = [lister EXCEPT ![t].at = "remove", ![t].gone = Gone(lister[t].present)]
    /\ mcpArticleRes' = lister[t].present
    /\ UNCHANGED <<onDisk, resources, lists, postMoves>>

RemoveResources(t) ==
    /\ lister[t].at = "remove"
    /\ resources' = resources \ lister[t].gone
    /\ lister' = [lister EXCEPT ![t].at = "answer"]
    /\ UNCHANGED <<onDisk, mcpArticleRes, lists, postMoves>>

\* The SDK answers with what it lists.
AnswerList(t) ==
    /\ lister[t].at = "answer"
    /\ lister' = [lister EXCEPT ![t] = NotListing]
    /\ UNCHANGED <<onDisk, resources, mcpArticleRes, lists, postMoves>>

\* A post is written or removed, by a tool, the admin pages or an editor.
PostMoves(slug) ==
    /\ postMoves < MaxPostMoves
    /\ postMoves' = postMoves + 1
    /\ onDisk' = IF slug \in onDisk THEN onDisk \ {slug} ELSE onDisk \cup {slug}
    /\ lister' = Disturb(Listers)
    /\ UNCHANGED <<resources, mcpArticleRes, lists>>

ResourcesNext ==
    \/ \E t \in Listers : \/ \E ok \in BOOLEAN : BeginList(t, ok)
                          \/ \E slug \in Slugs : AddResource(t, slug)
                          \/ Compare(t) \/ RemoveResources(t) \/ AnswerList(t)
    \/ \E slug \in Slugs : PostMoves(slug)

ResourcesSpec == ResourcesInit /\ [][ResourcesNext]_resourceVars

-----------------------------------------------------------------------------
(* Properties.                                                              *)

\* A list that nothing overlapped names exactly the posts there are, whatever lists and
\* changes overlapped before it: nobody's addition escapes the comparison, so that no
\* deleted post stays listed for ever.
ListHeals == \A t \in Listers : lister[t].at = "answer" /\ ~lister[t].disturbed => resources = onDisk
=============================================================================
