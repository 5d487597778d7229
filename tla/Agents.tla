------------------------------- MODULE Agents -------------------------------
(***************************************************************************)
(* One article in the hands of programs that hold API tokens                *)
(* (internal/server/mcp.go, internal/server/api.go), of the author in the   *)
(* admin pages, and of undo.                                                *)
(*                                                                         *)
(* A tool first reads the article, without postMu, to check the token's     *)
(* scopes and to fill in what the call leaves out.  The operation it then   *)
(* calls takes postMu, reads the article again and compares the revision    *)
(* with the one the caller expects; from there on it is one step here       *)
(* (Articles has the rest).  The revision is a hash of the file, so a       *)
(* revision is a content, and undo brings old ones back.                    *)
(***************************************************************************)
EXTENDS Integers, Sequences

CONSTANTS
    Holders,      \* programs, each with a token
    ScopesOf,     \* the scopes of its token
    Titles, Bodies,
    NoArticle,    \* no file has the slug
    MaxWrites, MaxCalls   \* bounds

ASSUME AgentsAssumption == {MaxWrites, MaxCalls} \subseteq Nat

VARIABLES
    article,      \* the file
    activity,     \* article_audit, of which undo uses what was before and after
    held,         \* the revision each program was given last
    call,         \* the locals of each program's call
    calls

agentVars == <<article, activity, held, call, calls>>

Fields   == {"title", "body", "draft"}
Texts    == [title : Titles, body : Bodies, draft : BOOLEAN]
NoCall   == [tool |-> "none"]

\* principal.allows
Allows(h, scope) ==
    \/ scope \in ScopesOf[h]
    \/ scope = "drafts" /\ "publish" \in ScopesOf[h]

Live == article # NoArticle /\ ~article.text.draft

\* Every write but undo's stamps the file, here by its place in the log.
Stamped(text) == [text |-> text, updated |-> Len(activity) + 1]

AgentsInit ==
    /\ article \in {NoArticle} \cup [text : Texts, updated : {0}]
    /\ activity = <<>>
    /\ held = [h \in Holders |-> NoArticle]
    /\ call = [h \in Holders |-> NoCall]
    /\ calls = 0

Write(new) ==
    /\ Len(activity) < MaxWrites
    /\ article' = new
    /\ activity' = Append(activity, [before |-> article, after |-> new])

\* get_article, GET /api/v1/articles/{slug}
Get(h) ==
    /\ Allows(h, "read") /\ call[h] = NoCall /\ article # NoArticle
    /\ held' = [held EXCEPT ![h] = article]
    /\ UNCHANGED <<article, activity, call, calls>>

\* create_article, POST /api/v1/articles: a live one takes more than the drafts scope.
Create(h, text) ==
    /\ Allows(h, "drafts") /\ (text.draft \/ Allows(h, "publish"))
    /\ call[h] = NoCall /\ article = NoArticle
    /\ Write(Stamped(text))
    /\ held' = [held EXCEPT ![h] = article']
    /\ UNCHANGED <<call, calls>>

\* delete_article, DELETE /api/v1/articles/{slug}
Delete(h) ==
    /\ Allows(h, "delete")
    /\ call[h] = NoCall /\ held[h] # NoArticle /\ article = held[h]
    /\ Write(NoArticle)
    /\ UNCHANGED <<held, call, calls>>

\* A call is on its way to its operation: text is what it is going to write, given the
\* fields the caller named.
Begin(h, tool, text, given) ==
    /\ call[h] = NoCall /\ calls < MaxCalls /\ held[h] # NoArticle
    /\ call' = [call EXCEPT ![h] = [tool |-> tool, text |-> text, given |-> given,
                                    expected |-> held[h]]]
    /\ calls' = calls + 1
    /\ UNCHANGED <<article, activity, held>>

\* PUT /api/v1/articles/{slug}: the whole article.
BeginPut(h, text) ==
    /\ Allows(h, "drafts")
    /\ Live \/ ~text.draft => Allows(h, "publish")
    /\ Begin(h, "put", text, Fields)

\* orKeep, field by field.
Merged(named, text) == [f \in Fields |-> IF f \in DOMAIN named THEN named[f] ELSE text[f]]

\* update_article: what is left out is kept.
BeginUpdate(h, named) ==
    /\ Allows(h, "drafts") /\ article # NoArticle
    /\ LET new == Merged(named, article.text) IN
         /\ Live \/ ~new.draft => Allows(h, "publish")
         /\ Begin(h, "update", new, DOMAIN named)

\* Mutant: that the passage is there is taken for proof enough.
ReadWhatIsExpected_Mutant(h) == TRUE

ReadWhatIsExpected(h) == article = held[h]

\* patch_article: one passage of the body, which has to be there.
BeginPatch(h, find, replace) ==
    /\ Allows(h, "drafts") /\ article # NoArticle
    /\ ReadWhatIsExpected(h)
    /\ Live => Allows(h, "publish")
    /\ article.text.body = find
    /\ Begin(h, "patch", [article.text EXCEPT !.body = replace], {"body"})

\* updateArticle
Apply(h) ==
    /\ call[h] # NoCall
    /\ IF article # NoArticle /\ article = call[h].expected
       THEN Write(Stamped(call[h].text)) /\ held' = [held EXCEPT ![h] = article']
       ELSE UNCHANGED <<article, activity, held>>
    /\ call' = [call EXCEPT ![h] = NoCall]
    /\ UNCHANGED calls

\* adminPostSave: the form carries the revision it was filled with and the whole text, so
\* what is saved does not depend on which page it came from.
AuthorSaves(text) ==
    /\ Write(Stamped(text))
    /\ UNCHANGED <<held, call, calls>>

\* adminPostDelete
AuthorDeletes ==
    /\ article # NoArticle
    /\ Write(NoArticle)
    /\ UNCHANGED <<held, call, calls>>

\* undoArticleAudit
AuthorUndoes(i) ==
    /\ article = activity[i].after
    /\ Write(activity[i].before)
    /\ UNCHANGED <<held, call, calls>>

AgentsNext ==
    \/ \E h \in Holders :
         \/ Get(h) \/ Delete(h) \/ Apply(h)
         \/ \E text \in Texts : Create(h, text) \/ BeginPut(h, text)
         \/ \E title \in Titles : BeginUpdate(h, [title |-> title])
         \/ \E draft \in BOOLEAN : BeginUpdate(h, [draft |-> draft])
         \/ \E find, replace \in Bodies : BeginPatch(h, find, replace)
    \/ \E text \in Texts : AuthorSaves(text)
    \/ AuthorDeletes
    \/ \E i \in 1..Len(activity) : AuthorUndoes(i)

AgentsSpec == AgentsInit /\ [][AgentsNext]_agentVars

-----------------------------------------------------------------------------
(* Properties.                                                              *)

Keeps(old, new, given) == \A f \in Fields \ given : new.text[f] = old.text[f]

Landed(h, tool) == call[h].tool = tool /\ call'[h] = NoCall /\ article' # article

\* A patch changes one passage of the article as it is when the patch lands, "leaving
\* everything else alone" (mcp.go), and touches a live article only with the scope for it:
\* what was read before postMu was taken, and may have changed and come back since, is what
\* is replaced.
PatchLeavesTheRest ==
    [][\A h \in Holders : Landed(h, "patch") =>
          /\ Keeps(article, article', call[h].given)
          /\ Live => Allows(h, "publish")]_agentVars

\* The description of update_article: "Any field may be omitted to keep the current value."
OmittedFieldsAreKept ==
    [][\A h \in Holders : Landed(h, "update") => Keeps(article, article', call[h].given)]_agentVars
=============================================================================
