------------------------------- MODULE Engine -------------------------------
(***************************************************************************)
(* The rebuild engine (internal/build/build.go) and the requests that are   *)
(* served from its output (internal/server/public.go).                      *)
(*                                                                         *)
(* Every rebuild renders a complete site into a directory of its own, a     *)
(* generation: it starts as a clone of the generation being served, every   *)
(* page is written over it, what was not written is pruned, the search      *)
(* index is replaced, and then one pointer moves.  The previous generation  *)
(* stays on disk until the next move, for requests that have resolved it.   *)
(*                                                                         *)
(* An article becomes a page, rendered from what LoadArticles has read, and *)
(* a markdown copy, for which renderArticle reads the post file once more.  *)
(***************************************************************************)
EXTENDS Content

CONSTANTS
    Threads,      \* the goroutines that call Rebuild
    Main,         \* the one that runs main(), whose rebuild comes first
    NoThread,     \* the engine's mutex is free
    Readers,      \* HTTP requests in flight
    Pages,        \* the pages made from all articles: home, feed, sitemap, ...
    Gens,         \* the names MkdirTemp can give a generation
    PublicDir,    \* EngineConfig.PublicDir, where a first rebuild starts from
    NoGen,        \* no generation
    NoSite,       \* nothing is being served
    NoDir,        \* a directory that does not exist
    Legacy,       \* pages found directly under PublicDir at the first start
    MaxTime,      \* bound: the clock stops here
    MaxFailures   \* bound: rebuilds that fail for a reason outside the posts

\* The names of the markdown copies: posts/<slug>.md.
Copy(x) == <<x, "md">>
Copies == {Copy(x) : x \in Slugs}

ASSUME EngineAssumption ==
    /\ Main \in Threads
    /\ NoThread \notin Threads
    /\ Slugs \cap Pages = {}
    /\ (Slugs \cup Pages) \cap Copies = {}
    /\ PublicDir \notin Gens
    /\ NoGen \notin Gens \cup {PublicDir}
    /\ Legacy \in Sites
    /\ NoSite \notin Sites
    /\ MaxTime \in Nat
    /\ MaxFailures \in Nat

VARIABLES
    source,       \* the posts directory
    now,          \* the clock
    dir,          \* PublicDir and the generation directories on disk
    active,       \* Engine.activeDir
    retired,      \* Engine.retiredDir
    index,        \* table articles_fts
    nextPublish,  \* Engine.nextPublish
    lastErr,      \* Engine.lastErr # ""
    builder,      \* holder of Engine.mu inside Rebuild
    phase,        \* how far its rebuild has come
    stage,        \* the generation it renders into (Engine.outputDir)
    left,         \* files listed by LoadArticles and not read yet
    snap,         \* the files read so far
    chosen,       \* published
    due,          \* next
    written,      \* the pathSet of files this rebuild has produced
    held,         \* the generation each request has resolved, and its age
    failures      \* rebuilds that have failed for a reason outside the posts

envVars    == <<source, now>>
servedVars == <<active, retired, nextPublish, lastErr>>
jobVars    == <<builder, phase, stage, left, snap, chosen, due, written>>
vars == <<source, now, dir, servedVars, index, jobVars, held, failures>>

Phases == {"idle", "begun", "read", "render", "pruned", "indexed"}

-----------------------------------------------------------------------------
(* Files of a generation.  The page of an article, named after its slug, and  *)
(* its copy hold the article; a page made from all articles holds them all.   *)

Files == Slugs \cup Copies \cup Pages

Tree(s) == [f \in Files |-> IF f \in Slugs THEN s[f]
                           ELSE IF f \in Copies THEN s[f[1]] ELSE s]

Trees == [Files -> Contents \cup {Absent} \cup Sites]

ASSUME NoDirAssumption == NoDir \notin Trees

\* The articles of s, and the files a rebuild writes for them.
Listed(s) == {x \in Slugs : s[x] # Absent}
Outputs(s) == Listed(s) \cup {Copy(x) : x \in Listed(s)} \cup Pages

NoReader == [gen |-> NoGen, age |-> 0]

-----------------------------------------------------------------------------

\* Mutant: outputDir is not reset.
EndJob_Mutant ==
    /\ builder' = NoThread
    /\ phase' = "idle"
    /\ stage' = stage
    /\ left' = {}
    /\ snap' = NoPosts
    /\ chosen' = NoArticles
    /\ due' = 0
    /\ written' = {}

EndJob ==
    /\ builder' = NoThread
    /\ phase' = "idle"
    /\ stage' = NoGen
    /\ left' = {}
    /\ snap' = NoPosts
    /\ chosen' = NoArticles
    /\ due' = 0
    /\ written' = {}

Init ==
    /\ source \in Snapshots
    /\ now = 0
    /\ dir = [g \in Gens \cup {PublicDir} |->
                 IF g = PublicDir THEN Tree(Legacy) ELSE NoDir]
    /\ active = PublicDir
    /\ retired = NoGen
    /\ index = NoArticles
    /\ nextPublish = 0
    /\ lastErr = FALSE
    /\ builder = NoThread
    /\ phase = "idle"
    /\ stage = NoGen
    /\ left = {}
    /\ snap = NoPosts
    /\ chosen = NoArticles
    /\ due = 0
    /\ written = {}
    /\ held = [r \in Readers |-> NoReader]
    /\ failures = 0

-----------------------------------------------------------------------------
(* The environment.                                                         *)

Edit(p, c) ==
    /\ source[p] # c
    /\ source' = [source EXCEPT ![p] = c]
    /\ UNCHANGED <<now, dir, servedVars, index, jobVars, held, failures>>

Move(p, q) ==
    /\ p # q /\ source[p] # Absent
    /\ source' = [source EXCEPT ![q] = source[p], ![p] = Absent]
    /\ UNCHANGED <<now, dir, servedVars, index, jobVars, held, failures>>

Tick ==
    /\ now < MaxTime
    /\ now' = now + 1
    /\ UNCHANGED <<source, dir, servedVars, index, jobVars, held, failures>>

-----------------------------------------------------------------------------
(* Rebuild.                                                                 *)

\* Mutant: what a dead process left is never swept.
Swept_Mutant == dir

\* No generation outlives the process: nobody serves from one, so the first
\* rebuild clears them away.
Swept == [g \in Gens \cup {PublicDir} |->
            IF active = PublicDir /\ g \in Gens THEN NoDir ELSE dir[g]]

\* MkdirTemp's random name is one that no directory has and no request remembers.
Fresh(g) == Swept[g] = NoDir /\ \A r \in Readers : held[r].gen # g

\* Take the mutex, make the stage and seed it with hard links to what is served.
Begin(t, g) ==
    /\ builder = NoThread
    /\ active = PublicDir => t = Main
    /\ Fresh(g)
    /\ builder' = t
    /\ phase' = "begun"
    /\ stage' = g
    /\ dir' = [Swept EXCEPT ![g] = dir[active]]
    /\ UNCHANGED <<envVars, servedVars, index, left, snap, chosen, due, written,
                   held, failures>>

\* LoadArticles lists the directory, then reads the files one after the other.
List ==
    /\ phase = "begun"
    /\ phase' = "read"
    /\ left' = {p \in Posts : source[p] # Absent}
    /\ UNCHANGED <<envVars, dir, servedVars, index, builder, stage, snap, chosen, due,
                   written, held, failures>>

\* Mutant: no check for duplicate slugs.
Readable_Mutant(p) == source[p] \in Contents \ Malformed

\* The file is still there, its front matter parses, and no file read before it has
\* the same slug.
Readable(p) == source[p] \in Contents \ Malformed /\ ~Clashes(snap, p)

Read(p) ==
    /\ phase = "read"
    /\ p \in left
    /\ Readable(p)
    /\ left' = left \ {p}
    /\ snap' = [snap EXCEPT ![p] = source[p]]
    /\ UNCHANGED <<envVars, dir, servedVars, index, builder, phase, stage, chosen, due,
                   written, held, failures>>

\* Everything is read: the clock decides which of it is public.
Choose ==
    /\ phase = "read"
    /\ left = {}
    /\ phase' = "render"
    /\ chosen' = Published(snap, now)
    /\ due' = NextDue(snap, now)
    /\ UNCHANGED <<envVars, dir, servedVars, index, builder, stage, left, snap, written,
                   held, failures>>

\* The file a chosen article was read from (Article.SourcePath).
SourceFile(x) == CHOOSE p \in Posts : SlugOf[p] = x /\ snap[p] # Absent

\* The page of one article and, read from its post file again, the copy.  Files are
\* written under a temporary name and renamed over the linked ones.
RenderArticle(x) ==
    /\ phase = "render"
    /\ x \in Listed(chosen) \ written
    /\ source[SourceFile(x)] # Absent
    /\ dir' = [dir EXCEPT ![stage] = [@ EXCEPT ![x] = chosen[x],
                                              ![Copy(x)] = source[SourceFile(x)]]]
    /\ written' = written \cup {x, Copy(x)}
    /\ UNCHANGED <<envVars, servedVars, index, builder, phase, stage, left, snap,
                   chosen, due, held, failures>>

\* A page made from all articles, after those of the articles.
RenderPage(f) ==
    /\ phase = "render"
    /\ f \notin written
    /\ Listed(chosen) \subseteq written
    /\ dir' = [dir EXCEPT ![stage][f] = chosen]
    /\ written' = written \cup {f}
    /\ UNCHANGED <<envVars, servedVars, index, builder, phase, stage, left, snap,
                   chosen, due, held, failures>>

\* Mutant: what the clone brought along stays.
Pruned_Mutant == dir[stage]

\* The stage without what the clone brought along and this rebuild did not write.
Pruned == [f \in Files |-> IF f \in written THEN dir[stage][f] ELSE Absent]

Prune ==
    /\ phase = "render"
    /\ Outputs(chosen) \subseteq written
    /\ phase' = "pruned"
    /\ dir' = [dir EXCEPT ![stage] = Pruned]
    /\ UNCHANGED <<envVars, servedVars, index, builder, stage, left, snap, chosen, due,
                   written, held, failures>>

\* Store.ReindexArticles: one transaction, committed before the pointer moves.
Reindex ==
    /\ phase = "pruned"
    /\ phase' = "indexed"
    /\ index' = chosen
    /\ UNCHANGED <<envVars, dir, servedVars, builder, stage, left, snap, chosen, due,
                   written, held, failures>>

\* Mutant: the generation being replaced goes at once.
Discarded_Mutant == IF active # PublicDir THEN [dir EXCEPT ![active] = NoDir] ELSE dir

Discarded == IF retired # NoGen THEN [dir EXCEPT ![retired] = NoDir] ELSE dir

\* The pointer moves; the generation before the previous one goes.
Switch ==
    /\ phase = "indexed"
    /\ active' = stage
    /\ nextPublish' = due
    /\ lastErr' = FALSE
    /\ dir' = Discarded
    /\ retired' = IF active # PublicDir THEN active ELSE retired
    /\ held' = [r \in Readers |->
                   IF held[r].gen # NoGen /\ held[r].age < 2
                   THEN [held[r] EXCEPT !.age = @ + 1] ELSE held[r]]
    /\ EndJob
    /\ UNCHANGED <<envVars, index, failures>>

\* A listed file that is not Readable ends the rebuild, and so does one that is gone
\* when its copy is to be made.
UnreadablePost ==
    \/ /\ phase = "read"
       /\ \E p \in left : ~Readable(p)
    \/ /\ phase = "render"
       /\ \E x \in Listed(chosen) \ written : source[SourceFile(x)] = Absent

\* Mutant: a step after the commit of the index fails.
CanFail_Mutant == phase # "idle"

\* Every step but the last two can fail.
CanFail == phase \in {"begun", "read", "render", "pruned"}

\* The stage is removed, nothing else changes;
\* a failed startup ends the process.
Fail ==
    /\ CanFail
    /\ \/ UnreadablePost /\ UNCHANGED failures
       \/ failures < MaxFailures /\ failures' = failures + 1
    /\ dir' = [dir EXCEPT ![stage] = NoDir]
    /\ lastErr' = (active # PublicDir)
    /\ EndJob
    /\ UNCHANGED <<envVars, active, retired, nextPublish, index, held>>

\* The process dies.  The disk and the database keep what they have.
Crash ==
    /\ active' = PublicDir
    /\ retired' = NoGen
    /\ nextPublish' = 0
    /\ lastErr' = FALSE
    /\ held' = [r \in Readers |-> NoReader]
    /\ EndJob
    /\ UNCHANGED <<envVars, dir, index, failures>>

-----------------------------------------------------------------------------
(* Requests.  A handler asks for the generation being served, then opens a   *)
(* file in it; rebuilds go on in between.                                    *)

Resolve(r) ==
    /\ active # PublicDir
    /\ held[r] = NoReader
    /\ held' = [held EXCEPT ![r] = [gen |-> active, age |-> 0]]
    /\ UNCHANGED <<envVars, dir, servedVars, index, jobVars, failures>>

Respond(r) ==
    /\ held[r] # NoReader
    /\ held' = [held EXCEPT ![r] = NoReader]
    /\ UNCHANGED <<envVars, dir, servedVars, index, jobVars, failures>>

-----------------------------------------------------------------------------

Build ==
    \/ List
    \/ \E p \in Posts : Read(p)
    \/ Choose
    \/ \E x \in Slugs : RenderArticle(x)
    \/ \E f \in Pages : RenderPage(f)
    \/ Prune
    \/ Reindex
    \/ Switch

Next ==
    \/ \E p \in Posts, c \in Contents \cup {Absent} : Edit(p, c)
    \/ \E p, q \in Posts : Move(p, q)
    \/ Tick
    \/ \E t \in Threads, g \in Gens : Begin(t, g)
    \/ Build
    \/ Fail
    \/ Crash
    \/ \E r \in Readers : Resolve(r) \/ Respond(r)

Spec == Init /\ [][Next]_vars

-----------------------------------------------------------------------------
(* Properties.                                                              *)

\* The variables have their types, and the locals of a rebuild exist exactly while
\* somebody holds Engine.mu (the deferred reset of outputDir in Rebuild).
TypeOK ==
    /\ source \in Snapshots
    /\ now \in 0..MaxTime
    /\ dir \in [Gens \cup {PublicDir} -> Trees \cup {NoDir}]
    /\ active \in Gens \cup {PublicDir}
    /\ retired \in Gens \cup {NoGen}
    /\ index \in Sites
    /\ nextPublish \in Nat
    /\ lastErr \in BOOLEAN
    /\ builder \in Threads \cup {NoThread}
    /\ phase \in Phases
    /\ stage \in Gens \cup {NoGen}
    /\ left \in SUBSET Posts
    /\ snap \in Snapshots
    /\ chosen \in Sites
    /\ due \in Nat
    /\ written \in SUBSET Files
    /\ held \in [Readers -> [gen : Gens \cup {NoGen}, age : 0..2]]
    /\ failures \in 0..MaxFailures
    /\ (phase = "idle") <=> (builder = NoThread)
    /\ (phase = "idle") <=> (stage = NoGen)

\* What readers are served: the posts of the active generation.
Site == [x \in Slugs |-> dir[active][x]]

\* A served generation is whole and of one piece: it exists, the home page, the feed
\* and the rest list exactly the articles whose pages are there, and those have their
\* copies.  Pages and copies of deleted or newly drafted posts, which every stage
\* inherits from its clone, are gone.
OneSnapshot ==
    active # PublicDir =>
        /\ dir[active] # NoDir
        /\ \A f \in Pages : dir[active][f] = Site
        /\ \A x \in Slugs : dir[active][Copy(x)] = Absent <=> dir[active][x] = Absent

\* The search index lists what is being served, except between the commit of the
\* reindexing transaction and the move of the pointer that follows it.
IndexMatchesSite ==
    active # PublicDir /\ phase # "indexed" => index = Site

\* Neither the page nor the copy of a draft, or of an article before its hour, is there to be
\* asked for, and no page says what is not public.  (What a copy says is read once more, later
\* than its page, and may be what its author has made a draft since.)
NothingEarly ==
    active # PublicDir =>
        \A x \in Slugs :
            (\E f \in {x, Copy(x)} : dir[active][f] # Absent) => IsPublic(Site[x], now)

\* A request that resolved a generation finds it on disk as long as at most one
\* rebuild has switched since (Engine.retiredDir).
GraceOfOneSwitch ==
    \A r \in Readers :
        held[r].gen # NoGen /\ held[r].age < 2 => dir[held[r].gen] # NoDir

\* A serving process keeps at most the active generation, the retired one and the
\* stage of the running rebuild: failed rebuilds and crashes leave nothing behind.
NoLeftovers ==
    active # PublicDir => {g \in Gens : dir[g] # NoDir} \subseteq {active, retired, stage}

-----------------------------------------------------------------------------
(* The engine implements SiteBuild: the site is what the active generation   *)
(* holds, and rendering, pruning and indexing are invisible.                 *)

Abstract == INSTANCE SiteBuild WITH
    site  <- IF active = PublicDir THEN NoSite ELSE Site,
    phase <- IF phase \in {"pruned", "indexed"} THEN "render" ELSE phase

\* Each rebuild replaces the site by the published part of what it read after it
\* began, in one step, or changes nothing.
ImplementsSiteBuild == Abstract!Spec

=============================================================================
