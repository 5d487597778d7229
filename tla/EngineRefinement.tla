-------------------------- MODULE EngineRefinement --------------------------
(***************************************************************************)
(* Engine implements SiteBuild, for every value of the constants: what the  *)
(* callers of Rebuild are promised is what the generations deliver.         *)
(*                                                                         *)
(* The mapping shows the active generation as the site.  Making a stage is  *)
(* Begin, the move of the pointer is Publish; rendering, pruning, indexing  *)
(* and the requests of readers are invisible.                               *)
(***************************************************************************)
EXTENDS EngineProofs

\* The site and the phase as SiteBuild sees them.
MappedSite == IF active = PublicDir THEN NoSite ELSE Site
MappedPhase == IF phase \in {"pruned", "indexed"} THEN "render" ELSE phase

\* The operators of Content are the same in both.
LEMMA SamePublished ==
    ASSUME NEW s, NEW t
    PROVE  Abstract!Published(s, t) = Published(s, t)
BY DEF Abstract!Published, Published, Abstract!PublicPosts, PublicPosts,
   Abstract!IsPublic, IsPublic

LEMMA SameNextDue ==
    ASSUME NEW s, NEW t
    PROVE  Abstract!NextDue(s, t) = NextDue(s, t)
BY DEF Abstract!NextDue, NextDue, Abstract!DueTimes, DueTimes, Abstract!IsFirst, IsFirst,
   Abstract!IsScheduled, IsScheduled

LEMMA SameReadable ==
    ASSUME NEW p
    PROVE  Abstract!Readable(p) <=> Readable(p)
BY DEF Abstract!Readable, Readable, Abstract!Clashes, Clashes

LEMMA SameEndJob ==
    ASSUME EndJob
    PROVE  Abstract!EndJob
BY DEF EndJob, Abstract!EndJob, NoPosts, Abstract!NoPosts, NoArticles, Abstract!NoArticles

\* Outside the instant between index and pointer, the site is one of Sites.
LEMMA SiteExists ==
    ASSUME IInv, phase # "indexed"
    PROVE  active = PublicDir <=> MappedSite = NoSite
<1>1. CASE active = PublicDir
  BY <1>1 DEF MappedSite
<1>2. CASE active # PublicDir
  <2>1. Site \in Sites
    BY <1>2 DEF IInv, TypeOK, Progress, IndexMatchesSite
  <2> QED
    BY <1>2, <2>1, EngineAssumption DEF MappedSite
<1> QED
  BY <1>1, <1>2

LEMMA InitRefines == Init => Abstract!Init
BY DEF Init, Abstract!Init, Abstract!NoJob, Snapshots, Abstract!Snapshots,
   NoPosts, Abstract!NoPosts, NoArticles, Abstract!NoArticles

-----------------------------------------------------------------------------
(* One lemma for each kind of step.                                          *)

AbstractStep == Abstract!Next \/ UNCHANGED Abstract!sbVars

\* A step that leaves alone what SiteBuild knows of is a stutter.
LEMMA Stutter ==
    ASSUME UNCHANGED <<source, now, nextPublish, lastErr, builder, left, snap, chosen,
                       due, failures>>,
           MappedSite' = MappedSite, MappedPhase' = MappedPhase
    PROVE  AbstractStep
BY DEF AbstractStep, Abstract!sbVars, Abstract!jobVars, MappedSite, MappedPhase

\* The site does not change while the active directory and the pointer do not.
LEMMA SameSite ==
    ASSUME active' = active, dir'[active] = dir[active]
    PROVE  MappedSite' = MappedSite
<1>1. Site' = Site
  BY DEF Site
<1> QED
  BY <1>1 DEF MappedSite

LEMMA EditRefines ==
    ASSUME NEW p \in Posts, NEW c \in Contents \cup {Absent}, Edit(p, c)
    PROVE  AbstractStep
<1>1. MappedSite' = MappedSite /\ MappedPhase' = MappedPhase
  BY SameSite DEF Edit, servedVars, jobVars, MappedPhase
<1>2. Abstract!Edit(p, c)
  BY <1>1 DEF Edit, Abstract!Edit, Abstract!jobVars, servedVars, jobVars, MappedSite,
     MappedPhase
<1> QED
  BY <1>2 DEF AbstractStep, Abstract!Next

LEMMA MoveRefines ==
    ASSUME NEW p \in Posts, NEW q \in Posts, Move(p, q)
    PROVE  AbstractStep
<1>1. MappedSite' = MappedSite /\ MappedPhase' = MappedPhase
  BY SameSite DEF Move, servedVars, jobVars, MappedPhase
<1>2. Abstract!Move(p, q)
  BY <1>1 DEF Move, Abstract!Move, Abstract!jobVars, servedVars, jobVars, MappedSite,
     MappedPhase
<1> QED
  BY <1>2 DEF AbstractStep, Abstract!Next

LEMMA TickRefines ==
    ASSUME Tick
    PROVE  AbstractStep
<1>1. MappedSite' = MappedSite /\ MappedPhase' = MappedPhase
  BY SameSite DEF Tick, servedVars, jobVars, MappedPhase
<1>2. Abstract!Tick
  BY <1>1 DEF Tick, Abstract!Tick, Abstract!jobVars, servedVars, jobVars, MappedSite,
     MappedPhase
<1> QED
  BY <1>2 DEF AbstractStep, Abstract!Next

LEMMA BeginRefines ==
    ASSUME IInv, NEW t \in Threads, NEW g \in Gens, Begin(t, g)
    PROVE  AbstractStep
<1>1. phase = "idle" /\ phase' = "begun" /\ active' = active
  BY DEF IInv, TypeOK, Begin, servedVars
<1>2. dir'[active] = dir[active]
  BY EngineAssumption DEF IInv, Progress, TypeOK, DirsInv, Begin, Fresh, Swept
<1>3. MappedSite' = MappedSite
  BY <1>1, <1>2, SameSite
<1>4. MappedSite = NoSite => t = Main
  BY <1>1, SiteExists DEF Begin
<1>5. MappedPhase' = "begun"
  BY <1>1 DEF MappedPhase
<1>6. Abstract!Begin(t)
  BY <1>3, <1>4, <1>5 DEF Begin, Abstract!Begin, Abstract!envVars, envVars, servedVars,
     MappedSite, MappedPhase
<1> QED
  BY <1>6 DEF AbstractStep, Abstract!Next

LEMMA ListRefines ==
    ASSUME List
    PROVE  AbstractStep
<1>1. MappedSite' = MappedSite
  BY SameSite DEF List, servedVars
<1>2. MappedPhase = "begun" /\ MappedPhase' = "read"
  BY DEF List, MappedPhase
<1>3. Abstract!List
  BY <1>1, <1>2 DEF List, Abstract!List, Abstract!envVars, envVars, servedVars,
     MappedSite, MappedPhase
<1> QED
  BY <1>3 DEF AbstractStep, Abstract!Next, Abstract!Build

LEMMA ReadRefines ==
    ASSUME NEW p \in Posts, Read(p)
    PROVE  AbstractStep
<1>1. MappedSite' = MappedSite
  BY SameSite DEF Read, servedVars
<1>2. MappedPhase = "read" /\ MappedPhase' = "read"
  BY DEF Read, MappedPhase
<1>3. Abstract!Readable(p)
  BY SameReadable DEF Read
<1>4. Abstract!Read(p)
  BY <1>1, <1>2, <1>3 DEF Read, Abstract!Read, Abstract!envVars, envVars, servedVars,
     MappedSite, MappedPhase
<1> QED
  BY <1>4 DEF AbstractStep, Abstract!Next, Abstract!Build

LEMMA ChooseRefines ==
    ASSUME Choose
    PROVE  AbstractStep
<1>1. MappedSite' = MappedSite
  BY SameSite DEF Choose, servedVars
<1>2. MappedPhase = "read" /\ MappedPhase' = "render"
  BY DEF Choose, MappedPhase
<1>3. /\ chosen' = Abstract!Published(snap, now)
      /\ due' = Abstract!NextDue(snap, now)
  BY SamePublished, SameNextDue DEF Choose
<1>4. Abstract!Choose
  BY <1>1, <1>2, <1>3 DEF Choose, Abstract!Choose, Abstract!envVars, envVars, servedVars,
     MappedSite, MappedPhase
<1> QED
  BY <1>4 DEF AbstractStep, Abstract!Next, Abstract!Build

\* Writing pages, pruning and indexing do not show.
LEMMA StageRefines ==
    ASSUME IInv, \/ \E x \in Slugs : RenderArticle(x)
                 \/ \E f \in Pages : RenderPage(f)
                 \/ Prune
                 \/ Reindex
    PROVE  AbstractStep
<1>1. /\ UNCHANGED <<source, now, nextPublish, lastErr, builder, left, snap, chosen,
                     due, failures>>
      /\ active' = active /\ stage # NoGen
      /\ phase \in {"render", "pruned"} /\ phase' \in {"render", "pruned", "indexed"}
  BY DEF IInv, TypeOK, RenderArticle, RenderPage, Prune, Reindex, envVars, servedVars
<1>2. stage # active
  BY <1>1 DEF IInv, Progress, DirsInv
<1>3. dir'[active] = dir[active]
  BY <1>1, <1>2 DEF IInv, TypeOK, RenderArticle, RenderPage, Prune, Reindex
<1>4. MappedSite' = MappedSite
  BY <1>1, <1>3, SameSite
<1>5. MappedPhase' = MappedPhase
  BY <1>1 DEF MappedPhase
<1> QED
  BY <1>1, <1>4, <1>5, Stutter

\* The move of the pointer publishes exactly the chosen articles.
LEMMA SwitchRefines ==
    ASSUME IInv, Switch
    PROVE  AbstractStep
<1>1. Site' = chosen
  BY SwitchInv
<1>2. active' # PublicDir
  BY EngineAssumption DEF IInv, TypeOK, Switch
<1>3. MappedSite' = chosen
  BY <1>1, <1>2 DEF MappedSite
<1>4. MappedPhase = "render" /\ MappedPhase' = "idle"
  BY DEF Switch, EndJob, MappedPhase
<1>5. Abstract!EndJob
  BY SameEndJob, <1>4 DEF Switch
<1>6. Abstract!Publish
  BY <1>3, <1>4, <1>5 DEF Switch, Abstract!Publish, Abstract!envVars, envVars,
     MappedSite, MappedPhase
<1> QED
  BY <1>6 DEF AbstractStep, Abstract!Next, Abstract!Build

LEMMA FailRefines ==
    ASSUME IInv, Fail
    PROVE  AbstractStep
<1>1. builder # NoThread /\ phase # "indexed" /\ active' = active
  BY DEF IInv, TypeOK, Fail, CanFail
<1>2. MappedSite' = MappedSite
  BY <1>1, FailInv DEF MappedSite
<1>3. lastErr' = (MappedSite # NoSite)
  BY <1>1, SiteExists DEF Fail
<1>4. UnreadablePost => Abstract!UnreadablePost
  <2>1. ASSUME NEW p \in left, phase = "read", ~Readable(p)
        PROVE  Abstract!UnreadablePost
    BY <2>1, SameReadable DEF Abstract!UnreadablePost
  <2>2. ASSUME NEW x \in Listed(chosen), phase = "render", source[SourceFile(x)] = Absent
        PROVE  Abstract!UnreadablePost
    <3>1. SourceFile(x) \in Posts /\ snap[SourceFile(x)] # Absent
      BY SourceFileExists DEF IInv, Progress
    <3> QED
      BY <2>2, <3>1 DEF Abstract!UnreadablePost
  <2> QED
    BY <2>1, <2>2 DEF UnreadablePost
<1>5. Abstract!EndJob
  BY SameEndJob DEF Fail
<1>6. Abstract!Fail
  BY <1>1, <1>2, <1>3, <1>4, <1>5 DEF Fail, Abstract!Fail, Abstract!envVars, envVars,
     MappedSite, MappedPhase
<1> QED
  BY <1>6 DEF AbstractStep, Abstract!Next

LEMMA CrashRefines ==
    ASSUME Crash
    PROVE  AbstractStep
<1>1. Abstract!EndJob
  BY SameEndJob DEF Crash
<1>2. Abstract!Crash
  BY <1>1 DEF Crash, Abstract!Crash, Abstract!envVars, envVars
<1> QED
  BY <1>2 DEF AbstractStep, Abstract!Next

\* Requests, and steps in which nothing happens.
LEMMA RequestRefines ==
    ASSUME (\E r \in Readers : Resolve(r) \/ Respond(r)) \/ UNCHANGED vars
    PROVE  AbstractStep
<1>1. UNCHANGED <<envVars, dir, servedVars, jobVars, failures>>
  <2>1. CASE \E r \in Readers : Resolve(r)
    BY <2>1 DEF Resolve
  <2>2. CASE \E r \in Readers : Respond(r)
    BY <2>2 DEF Respond
  <2>3. CASE UNCHANGED vars
    BY <2>3 DEF vars, envVars, servedVars, jobVars
  <2> QED
    BY <2>1, <2>2, <2>3
<1>2. UNCHANGED <<source, now, dir, active, nextPublish, lastErr, builder, phase, left,
                  snap, chosen, due, failures>>
  BY <1>1 DEF envVars, servedVars, jobVars
<1>3. MappedSite' = MappedSite
  BY <1>2, SameSite
<1>4. MappedPhase' = MappedPhase
  BY <1>2 DEF MappedPhase
<1> QED
  BY <1>2, <1>3, <1>4, Stutter

LEMMA NextRefines == IInv /\ [Next]_vars => [Abstract!Next]_Abstract!sbVars
<1> SUFFICES ASSUME IInv, [Next]_vars PROVE AbstractStep
  BY DEF AbstractStep
<1> QED
  BY EditRefines, MoveRefines, TickRefines, BeginRefines, ListRefines, ReadRefines, ChooseRefines,
     StageRefines, SwitchRefines, FailRefines, CrashRefines, RequestRefines
     DEF Next, Build

\* Every behaviour of the engine, with its directories, its index and its readers, is
\* one that SiteBuild allows: each rebuild replaces the whole site at once by the
\* published part of what it read after it began, or changes nothing (Engine.Rebuild).
THEOREM Refinement == Spec => ImplementsSiteBuild
<1>1. Init => Abstract!Init
  BY InitRefines
<1>2. IInv /\ [Next]_vars => [Abstract!Next]_Abstract!sbVars
  BY NextRefines
<1> QED
  BY <1>1, <1>2, Invariant, PTL DEF Spec, ImplementsSiteBuild, Abstract!Spec
=============================================================================
