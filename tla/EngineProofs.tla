---------------------------- MODULE EngineProofs ----------------------------
(***************************************************************************)
(* The invariants of Engine for every set of posts, threads, readers, pages *)
(* and generations.                                                         *)
(*                                                                         *)
(* The inductive invariant IInv adds to the type invariant what a rebuild   *)
(* in progress has achieved: its stage is a directory nobody serves from,   *)
(* what it has chosen it has read, every page it has written shows what it  *)
(* has chosen, and after pruning nothing else is left.                      *)
(***************************************************************************)
EXTENDS Engine, TLAPS

\* The directories a serving process refers to exist and are distinct.
DirsInv ==
    /\ dir[PublicDir] # NoDir
    /\ dir[active] # NoDir
    /\ active = PublicDir => retired = NoGen
    /\ retired # NoGen => dir[retired] # NoDir /\ retired # active
    /\ stage # NoGen => dir[stage] # NoDir /\ stage # active /\ stage # retired

\* A request holds the active generation or, one switch later, the retired one.
HeldInv ==
    \A r \in Readers : held[r].gen # NoGen =>
        /\ active # PublicDir
        /\ held[r].gen # stage
        /\ held[r].age = 0 => held[r].gen = active
        /\ held[r].age = 1 => held[r].gen = retired

\* Every chosen article was read from a file.
ChosenInv == \A x \in Listed(chosen) : \E p \in Posts : SlugOf[p] = x /\ snap[p] # Absent

\* What the rebuild has written so far is right ...
WrittenInv ==
    /\ phase \in {"idle", "begun", "read"} => written = {}
    /\ written \subseteq Outputs(chosen)
    /\ \A x \in Slugs : x \in written => /\ dir[stage][x] = chosen[x]
                                        /\ Copy(x) \in written
                                        /\ dir[stage][Copy(x)] # Absent
    /\ \A f \in Pages : f \in written => dir[stage][f] = chosen

\* ... and once it has been pruned, the stage is the site of the chosen articles.
StageInv ==
    phase \in {"pruned", "indexed"} =>
        /\ \A x \in Slugs : dir[stage][x] = chosen[x]
        /\ \A x \in Slugs : dir[stage][Copy(x)] = Absent <=> chosen[x] = Absent
        /\ \A f \in Pages : dir[stage][f] = chosen

IndexInv == phase = "indexed" => index = chosen

Progress ==
    /\ DirsInv
    /\ HeldInv
    /\ ChosenInv
    /\ WrittenInv
    /\ StageInv
    /\ IndexInv
    /\ OneSnapshot
    /\ IndexMatchesSite

IInv == TypeOK /\ Progress

-----------------------------------------------------------------------------
(* Facts about the operators of Content and Engine.                          *)

\* What is chosen from a snapshot is a site, and its due time a number.
LEMMA PublishedType ==
    ASSUME NEW s \in Snapshots, NEW t \in Nat
    PROVE  Published(s, t) \in Sites
<1>1. ASSUME NEW x \in Slugs, NEW q \in Posts
      PROVE  s[q] \in Contents \cup {Absent}
  BY DEF Snapshots
<1>2. ASSUME NEW x \in Slugs, \E p \in PublicPosts(s, t) : SlugOf[p] = x
      PROVE  (CHOOSE p \in PublicPosts(s, t) : SlugOf[p] = x) \in Posts
  BY <1>2 DEF PublicPosts
<1> QED
  BY <1>1, <1>2 DEF Published, Sites

LEMMA NextDueType ==
    ASSUME NEW s \in Snapshots, NEW t \in Nat
    PROVE  NextDue(s, t) \in Nat
<1>1. DueTimes(s, t) \subseteq Nat
  BY ContentAssumption DEF DueTimes, IsScheduled
<1> QED
  BY <1>1 DEF NextDue

LEMMA TreeType ==
    ASSUME NEW s \in Sites
    PROVE  Tree(s) \in Trees
<1> SUFFICES ASSUME NEW f \in Files
             PROVE  Tree(s)[f] \in Contents \cup {Absent} \cup Sites
  BY DEF Tree, Trees
<1>1. CASE f \in Slugs
  BY <1>1 DEF Tree, Sites
<1>2. CASE f \in Copies
  <2>1. f[1] \in Slugs
    BY <1>2 DEF Copies, Copy
  <2> QED
    BY <1>2, <2>1 DEF Tree, Sites
<1>3. CASE f \notin Slugs \cup Copies
  BY <1>3 DEF Tree
<1> QED
  BY <1>1, <1>2, <1>3

\* Pages, copies and the rest have different names.
LEMMA FileNames ==
    /\ \A x \in Slugs : x \in Files /\ Copy(x) \in Files
    /\ Pages \subseteq Files
    /\ \A x, y \in Slugs : x # Copy(y) /\ (Copy(x) = Copy(y) => x = y)
    /\ \A x \in Slugs, f \in Pages : f # x /\ f # Copy(x)
BY EngineAssumption DEF Files, Copies, Copy

\* What is chosen was read from a post file, which RenderArticle reads again.
LEMMA SourceFileExists ==
    ASSUME ChosenInv, NEW x \in Listed(chosen)
    PROVE  SourceFile(x) \in Posts /\ SlugOf[SourceFile(x)] = x /\ snap[SourceFile(x)] # Absent
BY DEF ChosenInv, SourceFile

\* What an article contributes to a stage.
ArticleTree(x) ==
    [dir[stage] EXCEPT ![x] = chosen[x], ![Copy(x)] = source[SourceFile(x)]]

LEMMA ArticleTreeType ==
    ASSUME TypeOK, DirsInv, ChosenInv, NEW x \in Slugs, RenderArticle(x)
    PROVE  /\ stage # NoGen /\ dir[stage] \in Trees
           /\ ArticleTree(x) \in Trees
           /\ dir' = [dir EXCEPT ![stage] = ArticleTree(x)]
<1>1. stage # NoGen /\ dir[stage] \in Trees
  BY DEF RenderArticle, TypeOK, DirsInv
<1>2. chosen[x] \in Contents \cup {Absent}
  BY DEF TypeOK, Sites
<1>3. source[SourceFile(x)] \in Contents \cup {Absent}
  BY SourceFileExists DEF RenderArticle, TypeOK, Snapshots
<1>4. ArticleTree(x) \in Trees
  BY <1>1, <1>2, <1>3 DEF ArticleTree, Trees
<1>5. dir' = [dir EXCEPT ![stage] = ArticleTree(x)]
  BY DEF RenderArticle, ArticleTree
<1> QED
  BY <1>1, <1>4, <1>5

-----------------------------------------------------------------------------
(* Type correctness.                                                         *)

LEMMA InitType == Init => TypeOK
<1> SUFFICES ASSUME Init PROVE TypeOK
  OBVIOUS
<1>1. Tree(Legacy) \in Trees
  BY TreeType, EngineAssumption
<1>2. NoPosts \in Snapshots /\ NoArticles \in Sites
  BY DEF NoPosts, Snapshots, NoArticles, Sites
<1>3. 0 \in 0..MaxTime /\ 0 \in 0..MaxFailures
  BY EngineAssumption
<1>4. dir \in [Gens \cup {PublicDir} -> Trees \cup {NoDir}]
  BY <1>1 DEF Init
<1>5. held \in [Readers -> [gen : Gens \cup {NoGen}, age : 0..2]]
  BY DEF Init, NoReader
<1> QED
  BY <1>2, <1>3, <1>4, <1>5, EngineAssumption DEF Init, TypeOK, Phases

\* Ending a rebuild leaves well-typed locals.
LEMMA EndJobType ==
    ASSUME TypeOK, EndJob
    PROVE  /\ builder' \in Threads \cup {NoThread}
           /\ phase' \in Phases
           /\ stage' \in Gens \cup {NoGen}
           /\ left' \in SUBSET Posts
           /\ snap' \in Snapshots
           /\ chosen' \in Sites
           /\ due' \in Nat
           /\ written' \in SUBSET Files
           /\ (phase' = "idle") <=> (builder' = NoThread)
           /\ (phase' = "idle") <=> (stage' = NoGen)
<1>1. NoPosts \in Snapshots /\ NoArticles \in Sites
  BY DEF NoPosts, Snapshots, NoArticles, Sites
<1> QED
  BY <1>1 DEF EndJob, Phases

\* Rendering needs a stage that exists and a file to copy, so TypeOK is inductive only
\* with DirsInv and ChosenInv.
LEMMA NextType == TypeOK /\ DirsInv /\ ChosenInv /\ [Next]_vars => TypeOK'
<1> SUFFICES ASSUME TypeOK, DirsInv, ChosenInv, [Next]_vars PROVE TypeOK'
  OBVIOUS
<1> USE EngineAssumption, ContentAssumption
<1>1. ASSUME NEW p \in Posts, NEW c \in Contents \cup {Absent}, Edit(p, c)
      PROVE  TypeOK'
  BY <1>1 DEF Edit, TypeOK, Snapshots, servedVars, jobVars
<1>1a. ASSUME NEW p \in Posts, NEW q \in Posts, Move(p, q)
       PROVE  TypeOK'
  BY <1>1a DEF Move, TypeOK, Snapshots, servedVars, jobVars
<1>2. CASE Tick
  BY <1>2 DEF Tick, TypeOK, servedVars, jobVars
<1>3. ASSUME NEW t \in Threads, NEW g \in Gens, Begin(t, g)
      PROVE  TypeOK'
  <2>1. dir[active] \in Trees \cup {NoDir}
    BY DEF TypeOK
  <2>2. Swept \in [Gens \cup {PublicDir} -> Trees \cup {NoDir}]
    BY DEF Swept, TypeOK
  <2>3. dir' \in [Gens \cup {PublicDir} -> Trees \cup {NoDir}]
    BY <1>3, <2>1, <2>2 DEF Begin
  <2> QED
    BY <1>3, <2>3 DEF Begin, TypeOK, Phases, servedVars, envVars
<1>4. CASE List
  BY <1>4 DEF List, TypeOK, Phases, servedVars, envVars
<1>5. ASSUME NEW p \in Posts, Read(p)
      PROVE  TypeOK'
  <2>1. snap' \in Snapshots
    BY <1>5 DEF Read, Readable, TypeOK, Snapshots
  <2> QED
    BY <1>5, <2>1 DEF Read, TypeOK, servedVars, envVars
<1>6. CASE Choose
  <2>1. chosen' \in Sites /\ due' \in Nat
    BY <1>6, PublishedType, NextDueType DEF Choose, TypeOK
  <2> QED
    BY <1>6, <2>1 DEF Choose, TypeOK, Phases, servedVars, envVars
<1>7. ASSUME NEW x \in Slugs, RenderArticle(x)
      PROVE  TypeOK'
  <2>1. dir' \in [Gens \cup {PublicDir} -> Trees \cup {NoDir}]
    BY <1>7, ArticleTreeType DEF TypeOK
  <2>2. written' \in SUBSET Files
    BY <1>7, FileNames DEF RenderArticle, TypeOK
  <2> QED
    BY <1>7, <2>1, <2>2 DEF RenderArticle, TypeOK, servedVars, envVars
<1>7a. ASSUME NEW f \in Pages, RenderPage(f)
      PROVE  TypeOK'
  <2>1. stage # NoGen /\ dir[stage] \in Trees
    BY <1>7a DEF RenderPage, TypeOK, DirsInv
  <2>2. [dir[stage] EXCEPT ![f] = chosen] \in Trees
    BY <2>1 DEF Trees, TypeOK
  <2>3. dir' \in [Gens \cup {PublicDir} -> Trees \cup {NoDir}]
    BY <1>7a, <2>2 DEF RenderPage, TypeOK
  <2>4. written' \in SUBSET Files
    BY <1>7a, FileNames DEF RenderPage, TypeOK
  <2> QED
    BY <1>7a, <2>3, <2>4 DEF RenderPage, TypeOK, servedVars, envVars
<1>8. CASE Prune
  <2>1. stage # NoGen /\ dir[stage] \in Trees
    BY <1>8 DEF Prune, TypeOK, DirsInv
  <2>2. Pruned \in Trees
    BY <2>1 DEF Pruned, Trees
  <2>3. dir' \in [Gens \cup {PublicDir} -> Trees \cup {NoDir}]
    BY <1>8, <2>2 DEF Prune, TypeOK
  <2> QED
    BY <1>8, <2>3 DEF Prune, TypeOK, Phases, servedVars, envVars
<1>9. CASE Reindex
  BY <1>9 DEF Reindex, TypeOK, Phases, servedVars, envVars
<1>10. CASE Switch
  <2>1. dir' \in [Gens \cup {PublicDir} -> Trees \cup {NoDir}]
    BY <1>10 DEF Switch, Discarded, TypeOK
  <2>2. held' \in [Readers -> [gen : Gens \cup {NoGen}, age : 0..2]]
    BY <1>10 DEF Switch, TypeOK
  <2>3. active' \in Gens /\ retired' \in Gens \cup {NoGen}
    BY <1>10 DEF Switch, TypeOK
  <2> QED
    BY <1>10, <2>1, <2>2, <2>3, EndJobType DEF Switch, TypeOK, envVars
<1>11. CASE Fail
  <2>1. dir' \in [Gens \cup {PublicDir} -> Trees \cup {NoDir}]
    BY <1>11 DEF Fail, TypeOK
  <2>2. failures' \in 0..MaxFailures
    BY <1>11 DEF Fail, TypeOK
  <2> QED
    BY <1>11, <2>1, <2>2, EndJobType DEF Fail, TypeOK, envVars
<1>12. CASE Crash
  <2>1. held' \in [Readers -> [gen : Gens \cup {NoGen}, age : 0..2]]
    BY <1>12 DEF Crash, NoReader
  <2> QED
    BY <1>12, <2>1, EndJobType DEF Crash, TypeOK, envVars
<1>13. ASSUME NEW r \in Readers, Resolve(r)
      PROVE  TypeOK'
  <2>1. held' \in [Readers -> [gen : Gens \cup {NoGen}, age : 0..2]]
    BY <1>13 DEF Resolve, TypeOK
  <2> QED
    BY <1>13, <2>1 DEF Resolve, TypeOK, servedVars, envVars, jobVars
<1>14. ASSUME NEW r \in Readers, Respond(r)
      PROVE  TypeOK'
  <2>1. held' \in [Readers -> [gen : Gens \cup {NoGen}, age : 0..2]]
    BY <1>14 DEF Respond, TypeOK, NoReader
  <2> QED
    BY <1>14, <2>1 DEF Respond, TypeOK, servedVars, envVars, jobVars
<1>15. CASE UNCHANGED vars
  BY <1>15 DEF vars, TypeOK, servedVars, envVars, jobVars
<1> QED
  BY <1>1, <1>2, <1>3, <1>4, <1>5, <1>6, <1>7, <1>8, <1>9, <1>10, <1>11, <1>12,
     <1>13, <1>14, <1>15, <1>1a, <1>7a DEF Next, Build

-----------------------------------------------------------------------------
(* The rest of the inductive invariant.                                      *)

LEMMA InitInv == Init => IInv
<1> SUFFICES ASSUME Init PROVE IInv
  OBVIOUS
<1>1. TypeOK
  BY InitType
<1>2. Tree(Legacy) # NoDir
  BY TreeType, EngineAssumption, NoDirAssumption
<1>3. DirsInv
  BY <1>2, EngineAssumption DEF Init, DirsInv
<1>4. HeldInv
  BY DEF Init, HeldInv, NoReader
<1>5. /\ ChosenInv /\ WrittenInv /\ StageInv /\ IndexInv
      /\ OneSnapshot /\ IndexMatchesSite
  BY DEF Init, ChosenInv, Listed, NoArticles, WrittenInv, StageInv, IndexInv, OneSnapshot,
     IndexMatchesSite
<1> QED
  BY <1>1, <1>3, <1>4, <1>5 DEF IInv, Progress

\* An action that leaves alone the generations, what is served, the requests and the
\* running rebuild keeps all but the type invariant.
LEMMA UnchangedInv ==
    ASSUME IInv, UNCHANGED <<dir, active, retired, index, jobVars, held>>
    PROVE  Progress'
<1>1. Site' = Site
  BY DEF Site
<1> QED
  BY <1>1 DEF IInv, Progress, jobVars, DirsInv, HeldInv, ChosenInv, WrittenInv, StageInv,
     IndexInv, OneSnapshot, IndexMatchesSite

\* Making a stage: a fresh directory, a copy of what is served.
LEMMA BeginInv ==
    ASSUME IInv, NEW t \in Threads, NEW g \in Gens, Begin(t, g)
    PROVE  Progress'
<1> USE EngineAssumption
<1>1. /\ TypeOK /\ DirsInv /\ HeldInv /\ ChosenInv /\ WrittenInv
      /\ OneSnapshot /\ IndexMatchesSite
  BY DEF IInv, Progress
<1>2. phase = "idle" /\ stage = NoGen
  BY <1>1 DEF Begin, TypeOK
<1>3. /\ active' = active /\ retired' = retired /\ index' = index /\ held' = held
      /\ chosen' = chosen /\ written' = written /\ phase' = "begun" /\ stage' = g
      /\ snap' = snap
  BY DEF Begin, servedVars
<1>4. dir[active] # NoDir /\ Swept[g] = NoDir
  BY <1>1 DEF DirsInv, Begin, Fresh
<1>5. Swept[active] = dir[active] /\ Swept[PublicDir] = dir[PublicDir]
  BY <1>1 DEF Swept, TypeOK
<1>6. retired # NoGen => Swept[retired] = dir[retired]
  BY <1>1 DEF Swept, TypeOK, DirsInv
<1>7. g # active /\ g # PublicDir /\ g # retired
  BY <1>1, <1>4, <1>5, <1>6 DEF DirsInv
<1>8. Swept \in [Gens \cup {PublicDir} -> Trees \cup {NoDir}]
  BY <1>1 DEF Swept, TypeOK
<1>9. /\ dir'[active] = dir[active] /\ dir'[PublicDir] = dir[PublicDir]
      /\ retired # NoGen => dir'[retired] = dir[retired]
      /\ dir'[g] = dir[active]
  BY <1>1, <1>5, <1>6, <1>7, <1>8 DEF Begin, TypeOK
<1>10. DirsInv'
  BY <1>1, <1>3, <1>4, <1>7, <1>9 DEF DirsInv
<1>11. HeldInv'
  BY <1>1, <1>3 DEF HeldInv, Begin, Fresh
<1>12. written = {}
  BY <1>1, <1>2 DEF WrittenInv
<1>13. ChosenInv' /\ WrittenInv' /\ StageInv' /\ IndexInv'
  BY <1>1, <1>3, <1>12 DEF ChosenInv, Listed, WrittenInv, StageInv, IndexInv
<1>14. Site' = Site
  BY <1>3, <1>9 DEF Site
<1>15. OneSnapshot' /\ IndexMatchesSite'
  BY <1>1, <1>2, <1>3, <1>9, <1>14 DEF OneSnapshot, IndexMatchesSite
<1> QED
  BY <1>10, <1>11, <1>13, <1>15 DEF Progress

\* Listing, reading and choosing happen before anything is written.
LEMMA LoadInv ==
    ASSUME IInv, List \/ (\E p \in Posts : Read(p)) \/ Choose
    PROVE  Progress'
<1>1. /\ UNCHANGED <<dir, active, retired, index, stage, written, held>>
      /\ phase \in {"begun", "read"} /\ phase' \in {"read", "render"}
  BY DEF List, Read, Choose, servedVars
<1>2. written = {}
  BY <1>1 DEF IInv, Progress, WrittenInv
<1>3. DirsInv' /\ HeldInv'
  BY <1>1 DEF IInv, Progress, DirsInv, HeldInv
<1>4. WrittenInv' /\ StageInv' /\ IndexInv'
  BY <1>1, <1>2 DEF WrittenInv, StageInv, IndexInv
<1>5. Site' = Site
  BY <1>1 DEF Site
<1>6. OneSnapshot' /\ IndexMatchesSite'
  BY <1>1, <1>5 DEF IInv, Progress, OneSnapshot, IndexMatchesSite
<1>7. ChosenInv'
  <2>1. CASE List
    BY <2>1 DEF IInv, Progress, List, ChosenInv, Listed
  <2>2. ASSUME NEW p \in Posts, Read(p)
        PROVE  ChosenInv'
    <3>1. chosen' = chosen
      BY <2>2 DEF Read
    <3>2. \A q \in Posts : snap[q] # Absent => snap'[q] # Absent
      BY <2>2, ContentAssumption DEF IInv, TypeOK, Snapshots, Read, Readable
    <3> QED
      BY <3>1, <3>2 DEF IInv, Progress, ChosenInv, Listed
  <2>3. CASE Choose
    <3>1. snap' = snap /\ chosen' = Published(snap, now)
      BY <2>3 DEF Choose
    <3> SUFFICES ASSUME NEW x \in Slugs, Published(snap, now)[x] # Absent
                 PROVE  \E p \in Posts : SlugOf[p] = x /\ snap[p] # Absent
      BY <3>1 DEF ChosenInv, Listed
    <3>2. \E p \in PublicPosts(snap, now) : SlugOf[p] = x
      BY DEF Published
    <3> QED
      BY <3>2, ContentAssumption DEF PublicPosts, IsPublic
  <2> QED
    BY <2>1, <2>2, <2>3
<1> QED
  BY <1>3, <1>4, <1>6, <1>7 DEF Progress

\* A step that changes one directory, the stage, does not show.
LEMMA StageIsHidden ==
    ASSUME IInv, NEW tree \in Trees,
           stage # NoGen, dir' = [dir EXCEPT ![stage] = tree],
           UNCHANGED <<active, retired, index, stage, held>>,
           phase # "indexed", phase' # "indexed"
    PROVE  DirsInv' /\ HeldInv' /\ OneSnapshot' /\ IndexMatchesSite'
<1> USE EngineAssumption, NoDirAssumption
<1>1. TypeOK /\ DirsInv /\ HeldInv /\ OneSnapshot /\ IndexMatchesSite
  BY DEF IInv, Progress
<1>2. /\ dir'[active] = dir[active]
      /\ retired # NoGen => dir'[retired] = dir[retired]
      /\ dir'[stage] = tree
      /\ dir'[PublicDir] = dir[PublicDir]
  BY <1>1 DEF TypeOK, DirsInv
<1>3. DirsInv' /\ HeldInv'
  BY <1>1, <1>2 DEF DirsInv, HeldInv
<1>4. Site' = Site
  BY <1>2 DEF Site
<1>5. OneSnapshot' /\ IndexMatchesSite'
  BY <1>1, <1>2, <1>4 DEF OneSnapshot, IndexMatchesSite
<1> QED
  BY <1>3, <1>5

LEMMA RenderArticleInv ==
    ASSUME IInv, NEW x \in Slugs, RenderArticle(x)
    PROVE  Progress'
<1> USE EngineAssumption, NoDirAssumption
<1>1. TypeOK /\ DirsInv /\ ChosenInv /\ WrittenInv
  BY DEF IInv, Progress
<1>2. /\ phase = "render" /\ phase' = phase /\ stage # NoGen
      /\ chosen' = chosen /\ snap' = snap
      /\ UNCHANGED <<active, retired, index, stage, held>>
  BY <1>1 DEF RenderArticle, TypeOK, servedVars
<1>3. /\ dir[stage] \in Trees
      /\ ArticleTree(x) \in Trees
      /\ dir' = [dir EXCEPT ![stage] = ArticleTree(x)]
  BY <1>1, ArticleTreeType
<1>4. DirsInv' /\ HeldInv' /\ OneSnapshot' /\ IndexMatchesSite'
  BY <1>2, <1>3, StageIsHidden
<1>5. dir'[stage] = ArticleTree(x)
  BY <1>1, <1>2, <1>3 DEF TypeOK
<1>6. /\ ArticleTree(x)[x] = chosen[x]
      /\ ArticleTree(x)[Copy(x)] = source[SourceFile(x)]
      /\ \A f \in Files \ {x, Copy(x)} : ArticleTree(x)[f] = dir[stage][f]
  BY <1>3, FileNames DEF ArticleTree, Trees
<1>7. /\ written' = written \cup {x, Copy(x)} /\ x \in Listed(chosen)
      /\ source[SourceFile(x)] # Absent
  BY DEF RenderArticle
<1>8. written' \subseteq Outputs(chosen)'
  BY <1>1, <1>2, <1>7 DEF WrittenInv, Outputs, Listed
<1>9. \A y \in Slugs : y \in written' => /\ dir'[stage][y] = chosen[y]
                                        /\ Copy(y) \in written'
                                        /\ dir'[stage][Copy(y)] # Absent
  <2> SUFFICES ASSUME NEW y \in Slugs, y \in written'
               PROVE  /\ dir'[stage][y] = chosen[y]
                      /\ Copy(y) \in written'
                      /\ dir'[stage][Copy(y)] # Absent
    OBVIOUS
  <2>1. CASE y = x
    BY <1>5, <1>6, <1>7, <2>1
  <2>2. CASE y # x
    <3>1. y \in written /\ y \in Files \ {x, Copy(x)} /\ Copy(y) \in Files \ {x, Copy(x)}
      BY <1>7, <2>2, FileNames
    <3> QED
      BY <1>1, <1>5, <1>6, <1>7, <3>1 DEF WrittenInv
  <2> QED
    BY <2>1, <2>2
<1>10. \A f \in Pages : f \in written' => dir'[stage][f] = chosen
  <2> SUFFICES ASSUME NEW f \in Pages, f \in written' PROVE dir'[stage][f] = chosen
    OBVIOUS
  <2>1. f \in written /\ f \in Files \ {x, Copy(x)}
    BY <1>7, FileNames
  <2> QED
    BY <1>1, <1>5, <1>6, <2>1 DEF WrittenInv
<1>11. WrittenInv'
  BY <1>2, <1>8, <1>9, <1>10 DEF WrittenInv
<1>12. ChosenInv' /\ StageInv' /\ IndexInv'
  BY <1>1, <1>2 DEF ChosenInv, Listed, StageInv, IndexInv
<1> QED
  BY <1>4, <1>11, <1>12 DEF Progress

LEMMA RenderPageInv ==
    ASSUME IInv, NEW g \in Pages, RenderPage(g)
    PROVE  Progress'
<1> USE EngineAssumption, NoDirAssumption
<1>1. TypeOK /\ DirsInv /\ ChosenInv /\ WrittenInv
  BY DEF IInv, Progress
<1>2. /\ phase = "render" /\ phase' = phase /\ stage # NoGen
      /\ chosen' = chosen /\ snap' = snap
      /\ UNCHANGED <<active, retired, index, stage, held>>
  BY <1>1 DEF RenderPage, TypeOK, servedVars
<1>3. dir[stage] \in Trees
  BY <1>1, <1>2 DEF TypeOK, DirsInv
<1>4. [dir[stage] EXCEPT ![g] = chosen] \in Trees
  BY <1>1, <1>3 DEF Trees, TypeOK
<1>5. DirsInv' /\ HeldInv' /\ OneSnapshot' /\ IndexMatchesSite'
  BY <1>2, <1>4, StageIsHidden DEF RenderPage
<1>6. dir'[stage] = [dir[stage] EXCEPT ![g] = chosen]
  BY <1>1, <1>2 DEF RenderPage, TypeOK
<1>7. dir'[stage][g] = chosen /\ \A f \in Files \ {g} : dir'[stage][f] = dir[stage][f]
  BY <1>3, <1>6, FileNames DEF Trees
<1>8. written' = written \cup {g}
  BY DEF RenderPage
<1>9. \A y \in Slugs : y \in written' => /\ dir'[stage][y] = chosen[y]
                                        /\ Copy(y) \in written'
                                        /\ dir'[stage][Copy(y)] # Absent
  <2> SUFFICES ASSUME NEW y \in Slugs, y \in written'
               PROVE  /\ dir'[stage][y] = chosen[y]
                      /\ Copy(y) \in written'
                      /\ dir'[stage][Copy(y)] # Absent
    OBVIOUS
  <2>1. y \in written /\ y \in Files \ {g} /\ Copy(y) \in Files \ {g}
    BY <1>8, FileNames
  <2> QED
    BY <1>1, <1>7, <1>8, <2>1 DEF WrittenInv
<1>10. \A f \in Pages : f \in written' => dir'[stage][f] = chosen
  BY <1>1, <1>7, <1>8, FileNames DEF WrittenInv
<1>11. WrittenInv'
  BY <1>1, <1>2, <1>8, <1>9, <1>10 DEF WrittenInv, Outputs, Listed
<1>12. ChosenInv' /\ StageInv' /\ IndexInv'
  BY <1>1, <1>2 DEF ChosenInv, Listed, StageInv, IndexInv
<1> QED
  BY <1>5, <1>11, <1>12 DEF Progress

\* After pruning, the stage holds what was written, and that is the chosen site.
LEMMA PruneInv ==
    ASSUME IInv, Prune
    PROVE  Progress'
<1> USE EngineAssumption, NoDirAssumption
<1>1. TypeOK /\ DirsInv /\ ChosenInv /\ WrittenInv
  BY DEF IInv, Progress
<1>2. /\ phase = "render" /\ phase' = "pruned" /\ stage # NoGen
      /\ UNCHANGED <<active, retired, index, stage, held, snap, chosen, written>>
  BY <1>1 DEF Prune, TypeOK, servedVars
<1>3. dir[stage] \in Trees
  BY <1>1, <1>2 DEF TypeOK, DirsInv
<1>4. Pruned \in Trees
  BY <1>3 DEF Pruned, Trees
<1>5. DirsInv' /\ HeldInv' /\ OneSnapshot' /\ IndexMatchesSite'
  BY <1>2, <1>4, StageIsHidden DEF Prune
<1>6. dir'[stage] = Pruned
  BY <1>1, <1>2 DEF Prune, TypeOK
<1>7. written = Outputs(chosen)
  BY <1>1 DEF Prune, WrittenInv
<1>8. \A f \in Files : Pruned[f] = IF f \in written THEN dir[stage][f] ELSE Absent
  BY DEF Pruned
<1>9. WrittenInv'
  BY <1>1, <1>2, <1>6, <1>8, FileNames DEF WrittenInv, Outputs, Listed
<1>10. StageInv'
  <2>1. ASSUME NEW x \in Slugs
        PROVE  Pruned[x] = chosen[x] /\ (Pruned[Copy(x)] = Absent <=> chosen[x] = Absent)
    <3>1. x \in Files /\ Copy(x) \in Files
      BY FileNames
    <3>2. CASE chosen[x] # Absent
      <4>1. x \in written
        BY <1>7, <3>2 DEF Outputs, Listed
      <4> QED
        BY <1>1, <1>8, <3>1, <3>2, <4>1 DEF WrittenInv
    <3>3. CASE chosen[x] = Absent
      <4>1. x \notin Listed(chosen)
        BY <3>3 DEF Listed
      <4>2. x \notin written /\ Copy(x) \notin written
        BY <1>7, <4>1, FileNames DEF Outputs, Listed
      <4> QED
        BY <1>8, <3>1, <3>3, <4>2
    <3> QED
      BY <3>2, <3>3
  <2>2. \A f \in Pages : Pruned[f] = chosen
    BY <1>1, <1>7, <1>8, FileNames DEF WrittenInv, Outputs
  <2> QED
    BY <1>2, <1>6, <2>1, <2>2 DEF StageInv
<1>11. ChosenInv' /\ IndexInv'
  BY <1>1, <1>2 DEF ChosenInv, Listed, IndexInv
<1> QED
  BY <1>5, <1>9, <1>10, <1>11 DEF Progress

LEMMA ReindexInv ==
    ASSUME IInv, Reindex
    PROVE  Progress'
<1>1. /\ phase = "pruned" /\ phase' = "indexed" /\ index' = chosen
      /\ UNCHANGED <<dir, active, retired, stage, held, snap, chosen, written>>
  BY DEF Reindex, servedVars
<1>2. Site' = Site
  BY <1>1 DEF Site
<1> QED
  BY <1>1, <1>2 DEF IInv, Progress, DirsInv, HeldInv, ChosenInv, Listed, WrittenInv,
     StageInv, IndexInv, OneSnapshot, IndexMatchesSite

\* Without a rebuild nothing is chosen.
LEMMA EndJobInv ==
    ASSUME EndJob
    PROVE  ChosenInv'
BY DEF EndJob, ChosenInv, Listed, NoArticles

\* The stage becomes what is served, and it is the chosen site, as is the index.
LEMMA SwitchInv ==
    ASSUME IInv, Switch
    PROVE  Progress' /\ Site' = chosen
<1> USE EngineAssumption, NoDirAssumption
<1>1. TypeOK /\ DirsInv /\ HeldInv /\ StageInv /\ IndexInv
  BY DEF IInv, Progress
<1>2. /\ phase = "indexed" /\ phase' = "idle" /\ stage \in Gens /\ stage' = NoGen
      /\ active' = stage /\ written' = {} /\ index' = index
      /\ retired' = (IF active # PublicDir THEN active ELSE retired)
  BY <1>1 DEF Switch, EndJob, TypeOK
<1>3. /\ dir'[stage] = dir[stage]
      /\ active # PublicDir => dir'[active] = dir[active]
      /\ dir'[PublicDir] = dir[PublicDir]
  BY <1>1, <1>2 DEF Switch, Discarded, TypeOK, DirsInv
<1>4. DirsInv'
  BY <1>1, <1>2, <1>3 DEF DirsInv
<1>5. HeldInv'
  <2> SUFFICES ASSUME NEW r \in Readers, held'[r].gen # NoGen
               PROVE  /\ active' # PublicDir
                      /\ held'[r].gen # stage'
                      /\ held'[r].age = 0 => held'[r].gen = active'
                      /\ held'[r].age = 1 => held'[r].gen = retired'
    BY DEF HeldInv
  <2>1. held[r] \in [gen : Gens \cup {NoGen}, age : 0..2]
    BY <1>1 DEF TypeOK
  <2>2. held'[r] = IF held[r].gen # NoGen /\ held[r].age < 2
                   THEN [held[r] EXCEPT !.age = @ + 1] ELSE held[r]
    BY DEF Switch
  <2>3. held'[r].gen = held[r].gen /\ held[r].gen # NoGen
    BY <2>1, <2>2
  <2>4. held'[r].age # 0 /\ (held'[r].age = 1 => held[r].age = 0)
    BY <2>1, <2>2, <2>3
  <2> QED
    BY <1>1, <1>2, <2>3, <2>4 DEF HeldInv
<1>6. ChosenInv' /\ WrittenInv' /\ StageInv' /\ IndexInv'
  BY <1>2, EndJobInv DEF Switch, WrittenInv, StageInv, IndexInv
<1>7. Site' = chosen
  <2>1. \A x \in Slugs : dir'[active'][x] = chosen[x]
    BY <1>1, <1>2, <1>3 DEF StageInv
  <2>2. chosen \in Sites
    BY <1>1 DEF TypeOK
  <2> QED
    BY <2>1, <2>2 DEF Site, Sites
<1>8. OneSnapshot'
  BY <1>1, <1>2, <1>3, <1>7 DEF OneSnapshot, StageInv, DirsInv
<1>9. IndexMatchesSite'
  BY <1>1, <1>2, <1>7 DEF IndexMatchesSite, IndexInv
<1> QED
  BY <1>4, <1>5, <1>6, <1>7, <1>8, <1>9 DEF Progress

\* A failed rebuild removes its stage, which nobody serves from.
LEMMA FailInv ==
    ASSUME IInv, Fail
    PROVE  Progress' /\ Site' = Site
<1> USE EngineAssumption, NoDirAssumption
<1>1. TypeOK /\ DirsInv /\ HeldInv /\ OneSnapshot /\ IndexMatchesSite
  BY DEF IInv, Progress
<1>2. /\ phase # "indexed" /\ phase' = "idle" /\ stage \in Gens /\ stage' = NoGen
      /\ written' = {} /\ UNCHANGED <<active, retired, index, held>>
  BY <1>1 DEF Fail, CanFail, EndJob, TypeOK
<1>3. /\ dir'[active] = dir[active] /\ dir'[PublicDir] = dir[PublicDir]
      /\ retired # NoGen => dir'[retired] = dir[retired]
  BY <1>1, <1>2 DEF Fail, TypeOK, DirsInv
<1>4. Site' = Site
  BY <1>2, <1>3 DEF Site
<1>5. DirsInv'
  BY <1>1, <1>2, <1>3 DEF DirsInv
<1>6. HeldInv'
  BY <1>1, <1>2 DEF HeldInv
<1>7. ChosenInv' /\ WrittenInv' /\ StageInv' /\ IndexInv'
  BY <1>2, EndJobInv DEF Fail, WrittenInv, StageInv, IndexInv
<1>8. OneSnapshot' /\ IndexMatchesSite'
  BY <1>1, <1>2, <1>3, <1>4 DEF OneSnapshot, IndexMatchesSite
<1> QED
  BY <1>4, <1>5, <1>6, <1>7, <1>8 DEF Progress

LEMMA CrashInv ==
    ASSUME IInv, Crash
    PROVE  Progress'
<1>1. /\ active' = PublicDir /\ retired' = NoGen /\ stage' = NoGen /\ phase' = "idle"
      /\ written' = {} /\ dir' = dir /\ held' = [r \in Readers |-> NoReader]
  BY DEF Crash, EndJob
<1>2. ChosenInv'
  BY EndJobInv DEF Crash
<1> QED
  BY <1>1, <1>2 DEF IInv, Progress, DirsInv, HeldInv, NoReader, WrittenInv, StageInv,
     IndexInv, OneSnapshot, IndexMatchesSite

\* A request starts with the active generation and ends with none.
LEMMA RequestInv ==
    ASSUME IInv, NEW r \in Readers, Resolve(r) \/ Respond(r)
    PROVE  Progress'
<1> USE EngineAssumption
<1>1. /\ UNCHANGED <<dir, active, retired, index, jobVars>>
      /\ \/ held' = [held EXCEPT ![r] = NoReader]
         \/ active # PublicDir /\ held' = [held EXCEPT ![r] = [gen |-> active, age |-> 0]]
  BY DEF Resolve, Respond, servedVars
<1>2. TypeOK /\ DirsInv /\ HeldInv
  BY DEF IInv, Progress
<1>3. HeldInv'
  <2>1. \A q \in Readers : q # r => held'[q] = held[q]
    BY <1>1, <1>2 DEF TypeOK
  <2>2. \/ held'[r] = NoReader
        \/ active # PublicDir /\ held'[r] = [gen |-> active, age |-> 0]
    BY <1>1, <1>2 DEF TypeOK
  <2>3. stage # active
    BY <1>2 DEF DirsInv, TypeOK
  <2> QED
    BY <1>1, <1>2, <2>1, <2>2, <2>3 DEF HeldInv, NoReader, jobVars
<1>4. Site' = Site
  BY <1>1 DEF Site
<1> QED
  BY <1>1, <1>3, <1>4 DEF IInv, Progress, jobVars, DirsInv, ChosenInv, WrittenInv, StageInv,
     IndexInv, OneSnapshot, IndexMatchesSite

LEMMA NextInv == IInv /\ [Next]_vars => IInv'
<1> SUFFICES ASSUME IInv, [Next]_vars PROVE IInv'
  OBVIOUS
<1>1. TypeOK'
  BY NextType DEF IInv, Progress
<1>2. Progress'
  <2>1. ASSUME NEW p \in Posts, NEW c \in Contents \cup {Absent}, Edit(p, c)
        PROVE  Progress'
    BY <2>1, UnchangedInv DEF Edit, servedVars
  <2>1a. ASSUME NEW p \in Posts, NEW q \in Posts, Move(p, q)
         PROVE  Progress'
    BY <2>1a, UnchangedInv DEF Move, servedVars
  <2>2. CASE Tick
    BY <2>2, UnchangedInv DEF Tick, servedVars
  <2>3. ASSUME NEW t \in Threads, NEW g \in Gens, Begin(t, g)
        PROVE  Progress'
    BY <2>3, BeginInv
  <2>4. CASE List \/ (\E p \in Posts : Read(p)) \/ Choose
    BY <2>4, LoadInv
  <2>5. ASSUME NEW x \in Slugs, RenderArticle(x)
        PROVE  Progress'
    BY <2>5, RenderArticleInv
  <2>5a. ASSUME NEW f \in Pages, RenderPage(f)
         PROVE  Progress'
    BY <2>5a, RenderPageInv
  <2>6. CASE Prune
    BY <2>6, PruneInv
  <2>7. CASE Reindex
    BY <2>7, ReindexInv
  <2>8. CASE Switch
    BY <2>8, SwitchInv
  <2>9. CASE Fail
    BY <2>9, FailInv
  <2>10. CASE Crash
    BY <2>10, CrashInv
  <2>11. ASSUME NEW r \in Readers, Resolve(r) \/ Respond(r)
         PROVE  Progress'
    BY <2>11, RequestInv
  <2>12. CASE UNCHANGED vars
    BY <2>12, UnchangedInv DEF vars, servedVars
  <2> QED
    BY <2>1, <2>2, <2>3, <2>4, <2>5, <2>6, <2>7, <2>8, <2>9, <2>10, <2>11, <2>12,
       <2>1a, <2>5a
       DEF Next, Build
<1> QED
  BY <1>1, <1>2 DEF IInv

THEOREM Invariant == Spec => []IInv
<1>1. Init => IInv
  BY InitInv
<1>2. IInv /\ [Next]_vars => IInv'
  BY NextInv
<1> QED
  BY <1>1, <1>2, PTL DEF Spec

-----------------------------------------------------------------------------
(* What readers can rely on.                                                 *)

\* The variables of the engine keep their types, and the locals of a rebuild exist only
\* while somebody holds the mutex (Engine.mu, the deferred reset of outputDir).
THEOREM TypeCorrect == Spec => []TypeOK
<1>1. IInv => TypeOK
  BY DEF IInv, Progress
<1> QED
  BY <1>1, Invariant, PTL

\* Every served generation is whole and of one piece (Engine.Rebuild renders into a
\* stage, prunes it and moves one pointer).
THEOREM OneSnapshotAlways == Spec => []OneSnapshot
<1>1. IInv => OneSnapshot
  BY DEF IInv, Progress
<1> QED
  BY <1>1, Invariant, PTL

\* The search index lists what is served, but for the instant between its commit and
\* the move of the pointer (Store.ReindexArticles).
THEOREM IndexMatchesSiteAlways == Spec => []IndexMatchesSite
<1>1. IInv => IndexMatchesSite
  BY DEF IInv, Progress
<1> QED
  BY <1>1, Invariant, PTL

\* A generation that a request has resolved stays on disk for one switch
\* (Engine.retiredDir).
THEOREM GraceAlways == Spec => []GraceOfOneSwitch
<1>1. IInv => GraceOfOneSwitch
  <2> SUFFICES ASSUME IInv, NEW r \in Readers, held[r].gen # NoGen, held[r].age < 2
               PROVE  dir[held[r].gen] # NoDir
    BY DEF GraceOfOneSwitch
  <2>1. held[r].age \in 0..2
    BY DEF IInv, Progress, TypeOK
  <2>2. held[r].age = 0 \/ held[r].age = 1
    BY <2>1
  <2> QED
    BY <2>2 DEF IInv, Progress, HeldInv, DirsInv
<1> QED
  BY <1>1, Invariant, PTL

\* Once a rebuild has begun, only what it needs is on disk.
DiskInv ==
    active # PublicDir \/ phase # "idle" =>
        \A g \in Gens : dir[g] # NoDir => g \in {active, retired, stage}

LEMMA NextDisk == IInv /\ DiskInv /\ [Next]_vars => DiskInv'
<1> SUFFICES ASSUME IInv, DiskInv, [Next]_vars PROVE DiskInv'
  OBVIOUS
<1> USE EngineAssumption
<1>1. TypeOK /\ DirsInv /\ ChosenInv
  BY DEF IInv, Progress
<1>2. ASSUME UNCHANGED <<dir, active, retired, stage, phase>>
      PROVE  DiskInv'
  BY <1>2 DEF DiskInv
<1>3. ASSUME NEW tree, dir' = [dir EXCEPT ![stage] = tree],
             UNCHANGED <<active, retired, stage>>, phase # "idle"
      PROVE  DiskInv'
  BY <1>1, <1>3 DEF DiskInv, TypeOK
<1>4. ASSUME NEW p \in Posts, NEW c \in Contents \cup {Absent}, Edit(p, c)
      PROVE  DiskInv'
  BY <1>2, <1>4 DEF Edit, servedVars, jobVars
<1>4a. ASSUME NEW p \in Posts, NEW q \in Posts, Move(p, q)
       PROVE  DiskInv'
  BY <1>2, <1>4a DEF Move, servedVars, jobVars
<1>5. CASE Tick
  BY <1>2, <1>5 DEF Tick, servedVars, jobVars
<1>6. ASSUME NEW t \in Threads, NEW g \in Gens, Begin(t, g)
      PROVE  DiskInv'
  <2>1. /\ dir' = [Swept EXCEPT ![g] = dir[active]] /\ stage' = g
        /\ active' = active /\ retired' = retired
    BY <1>6 DEF Begin, servedVars
  <2>2. \A h \in Gens : Swept[h] # NoDir => h \in {active, retired}
    <3>1. CASE active = PublicDir
      BY <3>1 DEF Swept
    <3>2. CASE active # PublicDir
      <4>1. stage = NoGen
        BY <1>1, <1>6 DEF Begin, TypeOK
      <4> QED
        BY <3>2, <4>1 DEF Swept, DiskInv
    <3> QED
      BY <3>1, <3>2
  <2>3. \A h \in Gens : h # g => dir'[h] = Swept[h]
    BY <2>1 DEF Swept
  <2> QED
    BY <2>1, <2>2, <2>3 DEF DiskInv
<1>7. CASE List \/ (\E p \in Posts : Read(p)) \/ Choose \/ Reindex
  <2>1. /\ UNCHANGED <<dir, active, retired, stage>> /\ phase # "idle"
    BY <1>7 DEF List, Read, Choose, Reindex, servedVars
  <2> QED
    BY <2>1 DEF DiskInv
<1>8. ASSUME NEW x \in Slugs, RenderArticle(x)
      PROVE  DiskInv'
  BY <1>1, <1>3, <1>8, ArticleTreeType DEF RenderArticle, servedVars
<1>9. ASSUME NEW f \in Pages, RenderPage(f)
      PROVE  DiskInv'
  <2>1. dir' = [dir EXCEPT ![stage] = [dir[stage] EXCEPT ![f] = chosen]]
    BY <1>9 DEF RenderPage
  <2> QED
    BY <1>3, <1>9, <2>1 DEF RenderPage, servedVars
<1>10. CASE Prune
  BY <1>3, <1>10 DEF Prune, servedVars
<1>11. CASE Switch
  <2>1. /\ active' = stage /\ dir' = Discarded /\ phase # "idle"
        /\ retired' = (IF active # PublicDir THEN active ELSE retired)
    BY <1>11 DEF Switch
  <2>2. \A g \in Gens : Discarded[g] # NoDir => dir[g] # NoDir /\ g # retired
    BY <1>1 DEF Discarded, TypeOK
  <2> QED
    BY <1>1, <2>1, <2>2 DEF DiskInv
<1>12. CASE Fail
  <2>1. /\ dir' = [dir EXCEPT ![stage] = NoDir] /\ active' = active /\ retired' = retired
        /\ phase # "idle"
    BY <1>12 DEF Fail, CanFail
  <2>2. \A g \in Gens : dir'[g] # NoDir => dir[g] # NoDir /\ g # stage
    BY <1>1, <2>1 DEF TypeOK
  <2> QED
    BY <2>1, <2>2 DEF DiskInv
<1>13. CASE Crash
  BY <1>13 DEF Crash, EndJob, DiskInv
<1>14. ASSUME NEW r \in Readers, Resolve(r) \/ Respond(r)
      PROVE  DiskInv'
  BY <1>2, <1>14 DEF Resolve, Respond, servedVars, jobVars
<1>15. CASE UNCHANGED vars
  BY <1>2, <1>15 DEF vars, servedVars, jobVars
<1> QED
  BY <1>4, <1>4a, <1>5, <1>6, <1>7, <1>8, <1>9, <1>10, <1>11, <1>12, <1>13, <1>14, <1>15
     DEF Next, Build

\* Failed rebuilds and crashes leave no generation behind in a process that serves: its
\* first rebuild sweeps, every later one cleans up after itself (Engine.Rebuild).
THEOREM NoLeftoversAlways == Spec => []NoLeftovers
<1>1. Init => DiskInv
  BY DEF Init, DiskInv
<1>2. IInv /\ DiskInv /\ [Next]_vars => DiskInv'
  BY NextDisk
<1>3. DiskInv => NoLeftovers
  BY DEF DiskInv, NoLeftovers
<1> QED
  BY <1>1, <1>2, <1>3, Invariant, PTL DEF Spec

-----------------------------------------------------------------------------
(* The clock only moves forward: what was public stays public.               *)

\* The pages that are served are public.
PagesInv ==
    active # PublicDir => \A x \in Slugs : Site[x] # Absent => IsPublic(Site[x], now)

EarlyInv ==
    /\ \A x \in Listed(chosen) : IsPublic(chosen[x], now)
    /\ PagesInv

LEMMA NextEarly == IInv /\ EarlyInv /\ [Next]_vars => EarlyInv'
<1> SUFFICES ASSUME IInv, EarlyInv, [Next]_vars PROVE EarlyInv'
  OBVIOUS
<1> USE EngineAssumption, ContentAssumption
<1>1. TypeOK /\ DirsInv /\ ChosenInv
  BY DEF IInv, Progress
<1>2. ASSUME UNCHANGED <<chosen, active, now>>, dir'[active] = dir[active]
      PROVE  EarlyInv'
  <2>1. Site' = Site
    BY <1>2 DEF Site
  <2> QED
    BY <1>2, <2>1 DEF EarlyInv, Listed, PagesInv
<1>3. ASSUME EndJob
      PROVE  \A x : x \notin Listed(chosen)'
  BY <1>3 DEF EndJob, Listed, NoArticles
<1>4. ASSUME NEW p \in Posts, NEW c \in Contents \cup {Absent}, Edit(p, c)
      PROVE  EarlyInv'
  BY <1>2, <1>4 DEF Edit, servedVars, jobVars
<1>4a. ASSUME NEW p \in Posts, NEW q \in Posts, Move(p, q)
       PROVE  EarlyInv'
  BY <1>2, <1>4a DEF Move, servedVars, jobVars
<1>5. CASE Tick
  <2>1. /\ UNCHANGED <<dir, active, chosen>> /\ now \in Nat /\ now' = now + 1
    BY <1>1, <1>5 DEF Tick, servedVars, jobVars, TypeOK
  <2>2. \A c : IsPublic(c, now) => IsPublic(c, now')
    BY <2>1 DEF IsPublic
  <2>3. Site' = Site
    BY <2>1 DEF Site
  <2> QED
    BY <2>1, <2>2, <2>3 DEF EarlyInv, Listed, PagesInv
<1>6. ASSUME NEW t \in Threads, NEW g \in Gens, Begin(t, g)
      PROVE  EarlyInv'
  <2>1. dir'[active] = dir[active]
    BY <1>1, <1>6 DEF TypeOK, DirsInv, Begin, Fresh, Swept
  <2> QED
    BY <1>2, <1>6, <2>1 DEF Begin, envVars, servedVars
<1>7. CASE List \/ (\E p \in Posts : Read(p)) \/ Reindex
  BY <1>2, <1>7 DEF List, Read, Reindex, envVars, servedVars
<1>8. CASE Choose
  <2>1. /\ chosen' = Published(snap, now) /\ UNCHANGED <<dir, active, now>>
    BY <1>8 DEF Choose, envVars, servedVars
  <2>2. ASSUME NEW x \in Slugs, Published(snap, now)[x] # Absent
        PROVE  IsPublic(Published(snap, now)[x], now)
    <3>1. \E p \in PublicPosts(snap, now) : SlugOf[p] = x
      BY <2>2 DEF Published
    <3>2. PICK p \in PublicPosts(snap, now) : SlugOf[p] = x /\ Published(snap, now)[x] = snap[p]
      BY <3>1 DEF Published
    <3> QED
      BY <3>2 DEF PublicPosts
  <2>3. Site' = Site
    BY <2>1 DEF Site
  <2> QED
    BY <2>1, <2>2, <2>3 DEF EarlyInv, Listed, PagesInv
<1>9. CASE (\E x \in Slugs : RenderArticle(x)) \/ (\E f \in Pages : RenderPage(f)) \/ Prune
  <2>1. UNCHANGED <<chosen, active, now>>
    BY <1>9 DEF RenderArticle, RenderPage, Prune, envVars, servedVars
  <2>2. stage # NoGen /\ stage # active
    BY <1>1, <1>9 DEF RenderArticle, RenderPage, Prune, TypeOK, DirsInv
  <2>3. dir'[active] = dir[active]
    BY <1>1, <1>9, <2>2 DEF RenderArticle, RenderPage, Prune, TypeOK
  <2> QED
    BY <1>2, <2>1, <2>3
<1>10. CASE Switch
  <2>1. Site' = chosen /\ now' = now
    BY <1>10, SwitchInv DEF Switch, envVars
  <2> QED
    BY <1>3, <1>10, <2>1 DEF Switch, EarlyInv, Listed, PagesInv
<1>11. CASE Fail
  <2>1. Site' = Site /\ active' = active /\ now' = now
    BY <1>11, FailInv DEF Fail, envVars
  <2> QED
    BY <1>3, <1>11, <2>1 DEF Fail, EarlyInv, PagesInv
<1>12. CASE Crash
  BY <1>3, <1>12 DEF Crash, EarlyInv, PagesInv
<1>13. ASSUME NEW r \in Readers, Resolve(r) \/ Respond(r)
      PROVE  EarlyInv'
  BY <1>2, <1>13 DEF Resolve, Respond, envVars, servedVars, jobVars
<1>14. CASE UNCHANGED vars
  BY <1>2, <1>14 DEF vars, envVars, servedVars, jobVars
<1> QED
  BY <1>4, <1>4a, <1>5, <1>6, <1>7, <1>8, <1>9, <1>10, <1>11, <1>12, <1>13, <1>14
     DEF Next, Build

\* Neither a page nor a copy is served of a draft, or of an article before its hour, and no
\* page says what is not public (the article loop of Engine.Rebuild); what a copy says is of
\* a later reading.
THEOREM NothingEarlyAlways == Spec => []NothingEarly
<1>1. Init => EarlyInv
  BY DEF Init, EarlyInv, Listed, NoArticles, PagesInv
<1>2. IInv /\ EarlyInv /\ [Next]_vars => EarlyInv'
  BY NextEarly
<1>3. OneSnapshot /\ EarlyInv => NothingEarly
  BY DEF OneSnapshot, EarlyInv, PagesInv, NothingEarly, Site
<1> QED
  BY <1>1, <1>2, <1>3, Invariant, OneSnapshotAlways, PTL DEF Spec
=============================================================================
