----------------------------- MODULE LoopsProofs -----------------------------
(***************************************************************************)
(* The background loops, for every number of goroutines, posts, changes and *)
(* crashes: a site that is behind the files or the clock does not stay so.  *)
(***************************************************************************)
EXTENDS Loops, WellFoundedInduction, TLAPS

LEMMA LoopsConstants ==
    /\ Main \in Threads /\ Watch \in Threads /\ Sched \in Threads
    /\ NoThread \notin Threads /\ NoSite \notin Sites /\ MaxTime \in Nat /\ MaxEdits \in Nat
    /\ Malformed \subseteq Contents /\ Absent \notin Contents /\ PublishAt \in [Contents -> Nat]
    /\ SlugOf \in [Posts -> Slugs]
BY LoopsAssumption, SiteBuildAssumption, ContentAssumption

-----------------------------------------------------------------------------
(* Publication and time.                                                     *)

LEMMA LeastOf ==
    ASSUME NEW D, D \subseteq Nat, D # {}
    PROVE  \E d \in D : \A e \in D : d <= e
<1> DEFINE R == {ss \in Nat \X Nat : ss[1] < ss[2]}
<1>1. IsWellFoundedOn(R, Nat)
  BY NatLessThanWellFounded DEF OpToRel
<1> HIDE DEF R
<1>2. PICK d \in D : \A e \in D : ~(<<e, d>> \in R)
  BY <1>1, WFMin
<1>3. \A e \in D : ~(e < d)
  BY <1>2 DEF R
<1> QED
  BY <1>3

LEMMA DueTimesType ==
    ASSUME NEW s \in Snapshots, NEW t \in Nat
    PROVE  /\ DueTimes(s, t) \subseteq Nat
           /\ \A d \in DueTimes(s, t) : d > t
BY LoopsConstants DEF DueTimes, IsScheduled, Snapshots

\* NextDue is the first of the hours to come, if there is one.
LEMMA NextDueIsFirst ==
    ASSUME NEW s \in Snapshots, NEW t \in Nat, DueTimes(s, t) # {}
    PROVE  NextDue(s, t) \in DueTimes(s, t) /\ \A e \in DueTimes(s, t) : NextDue(s, t) <= e
<1> DEFINE D == DueTimes(s, t)
<1>1. D \subseteq Nat
  BY DueTimesType
<1>2. \E d \in D : IsFirst(d, D)
  <2> HIDE DEF D
  <2> QED
    BY <1>1, LeastOf DEF IsFirst, D
<1>3. NextDue(s, t) = CHOOSE d \in D : IsFirst(d, D)
  BY <1>2 DEF NextDue
<1> HIDE DEF D
<1>4. IsFirst(NextDue(s, t), D)
  BY <1>2, <1>3
<1> QED
  BY <1>4 DEF IsFirst, D

\* Nothing becomes public between t and u unless the first of the hours after t has come.
LEMMA NothingComesUnannounced ==
    ASSUME NEW s \in Snapshots, NEW t \in Nat, NEW u \in Nat, t <= u, Published(s, t) # Published(s, u)
    PROVE  NextDue(s, t) # 0 /\ u >= NextDue(s, t)
<1>1. \A p \in Posts : s[p] \in Contents => PublishAt[s[p]] \in Nat
  BY LoopsConstants
<1>2. CASE \A p \in Posts : IsPublic(s[p], t) <=> IsPublic(s[p], u)
  <2>1. PublicPosts(s, t) = PublicPosts(s, u)
    BY <1>2 DEF PublicPosts
  <2> QED
    BY <2>1 DEF Published
<1>3. CASE \E p \in Posts : ~(IsPublic(s[p], t) <=> IsPublic(s[p], u))
  <2>1. PICK p \in Posts : ~(IsPublic(s[p], t) <=> IsPublic(s[p], u))
    BY <1>3
  <2>2. s[p] \in Contents \ Drafts /\ PublishAt[s[p]] > t /\ PublishAt[s[p]] <= u
    BY <1>1, <2>1 DEF IsPublic
  <2>3. PublishAt[s[p]] \in DueTimes(s, t)
    BY <2>2 DEF DueTimes, IsScheduled
  <2>4. NextDue(s, t) \in DueTimes(s, t) /\ NextDue(s, t) <= PublishAt[s[p]]
    BY <2>3, NextDueIsFirst
  <2>5. NextDue(s, t) \in Nat /\ NextDue(s, t) > t
    BY <2>4, DueTimesType
  <2> QED
    BY <1>1, <2>2, <2>4, <2>5
<1> QED
  BY <1>2, <1>3

-----------------------------------------------------------------------------
(* The invariant.                                                            *)

Typed ==
    /\ source \in Snapshots /\ snap \in Snapshots /\ now \in 0..MaxTime
    /\ chosen \in Sites /\ site \in Sites \cup {NoSite}
    /\ builder \in Threads \cup {NoThread} /\ phase \in Phases
    /\ edits \in 0..MaxEdits /\ queue \in 0..edits
    /\ watching \in BOOLEAN /\ pending \in BOOLEAN /\ beganSince \in BOOLEAN /\ missed \in BOOLEAN
    /\ watchPC \in {"select", "rebuild"} /\ schedPC \in {"tick", "rebuild"}
    /\ lastErr \in BOOLEAN

Rebuilding ==
    /\ builder = NoThread <=> phase = "idle"
    /\ phase \in {"idle", "begun"} => snap = NoPosts
    /\ builder = Watch => watchPC = "rebuild"
    /\ builder = Sched => schedPC = "rebuild"

\* Something has changed that the last rebuild to begin may not have read.  Either the
\* watcher is at it, or nobody was watching.
Dirty ==
    \/ queue > 0
    \/ pending /\ ~beganSince
    \/ watchPC = "rebuild" /\ builder # Watch
    \/ missed

\* The site a shows the files as they are, by the clock of some moment up to now, and d is
\* when the next of them is due.
UpToDate(a, d) == \E t \in 0..now : a = Published(source, t) /\ d = NextDue(source, t)

\* When nothing has changed since it began, the rebuild that runs reads the files as they
\* are, and the one that ran last has published them or failed.
Fresh ==
    ~Dirty =>
        /\ phase = "read" => \A p \in Posts : snap[p] = IF p \in left THEN Absent ELSE source[p]
        /\ phase = "render" => UpToDate(chosen, due)
        /\ builder = NoThread /\ site # NoSite /\ ~lastErr => UpToDate(site, nextPublish)

LoopsInv == Typed /\ Rebuilding /\ Fresh

LEMMA PublishedType ==
    ASSUME NEW s \in Snapshots, NEW t \in Nat
    PROVE  Published(s, t) \in Sites
<1>1. \A q \in Posts : s[q] \in Contents \cup {Absent}
  BY DEF Snapshots
<1>2. ASSUME NEW x \in Slugs, \E p \in PublicPosts(s, t) : SlugOf[p] = x
      PROVE  (CHOOSE p \in PublicPosts(s, t) : SlugOf[p] = x) \in Posts
  BY <1>2 DEF PublicPosts
<1> QED
  BY <1>1, <1>2 DEF Published, Sites

LEMMA SameFiles ==
    ASSUME NEW s \in Snapshots, NEW t \in Snapshots, \A p \in Posts : s[p] = t[p]
    PROVE  s = t
BY DEF Snapshots

LEMMA EmptyTypes == NoPosts \in Snapshots /\ NoArticles \in Sites
BY DEF NoPosts, NoArticles, Snapshots, Sites

LEMMA InitFresh == LoopsInit => LoopsInv
<1> SUFFICES ASSUME LoopsInit PROVE LoopsInv
  OBVIOUS
<1>1. Typed
  <2>1. /\ source \in Snapshots /\ now = 0 /\ site = NoSite /\ builder = NoThread /\ phase = "idle" /\ snap = NoPosts
        /\ chosen = NoArticles /\ edits = 0 /\ queue = 0 /\ watching = FALSE /\ pending = FALSE /\ beganSince = FALSE
        /\ missed = FALSE /\ watchPC = "select" /\ schedPC = "tick" /\ lastErr = FALSE
    BY DEF LoopsInit, Init, NoJob
  <2>2. now \in 0..MaxTime /\ edits \in 0..MaxEdits /\ queue \in 0..edits
    BY <2>1, LoopsConstants
  <2> QED
    BY <2>1, <2>2, EmptyTypes DEF Typed, Phases
<1>2. Rebuilding
  BY LoopsConstants DEF LoopsInit, Init, NoJob, Rebuilding
<1>3. Fresh
  BY DEF LoopsInit, Init, NoJob, Fresh
<1> QED
  BY <1>1, <1>2, <1>3 DEF LoopsInv

\* A change is on its way to the watcher, or missed.
LEMMA ChangeFresh ==
    ASSUME LoopsInv, NEW p \in Posts, NEW c \in Contents \cup {Absent}, Change(p, c)
    PROVE  LoopsInv'
<1>1. /\ source' = [source EXCEPT ![p] = c] /\ edits' = edits + 1 /\ edits < MaxEdits
      /\ queue' = IF watching THEN queue + 1 ELSE queue
      /\ missed' = (missed \/ ~watching)
      /\ UNCHANGED <<now, site, nextPublish, lastErr, builder, phase, left, snap, chosen, due,
                     watching, pending, beganSince, watchPC, schedPC>>
  BY DEF Change, Edit, jobVars
<1>2. source' \in Snapshots
  BY <1>1 DEF LoopsInv, Typed, Snapshots
<1>3. Typed'
  <2>1. edits' \in 0..MaxEdits /\ queue' \in 0..edits'
    BY <1>1, LoopsConstants DEF LoopsInv, Typed
  <2> QED
    BY <1>1, <1>2, <2>1 DEF LoopsInv, Typed
<1>4. Rebuilding'
  BY <1>1 DEF LoopsInv, Rebuilding
<1>5. Dirty'
  <2>1. CASE watching
    <3>1. queue' > 0
      BY <1>1, <2>1, LoopsConstants DEF LoopsInv, Typed
    <3> QED
      BY <3>1 DEF Dirty
  <2>2. CASE ~watching
    <3>1. missed'
      BY <1>1, <2>2
    <3> QED
      BY <3>1 DEF Dirty
  <2> QED
    BY <2>1, <2>2
<1> QED
  BY <1>3, <1>4, <1>5 DEF LoopsInv, Fresh

LEMMA TimeFresh ==
    ASSUME LoopsInv, TimePasses
    PROVE  LoopsInv'
<1>1. /\ now < MaxTime /\ now' = now + 1
      /\ UNCHANGED <<source, site, nextPublish, lastErr, builder, phase, left, snap, chosen, due, edits,
                     queue, missed, watching, pending, beganSince, watchPC, schedPC>>
  BY DEF TimePasses, Tick, jobVars, loopVars
<1>2. Typed'
  BY <1>1, LoopsConstants DEF LoopsInv, Typed
<1>3. Rebuilding' /\ Dirty' = Dirty
  BY <1>1 DEF LoopsInv, Rebuilding, Dirty
<1>4. 0..now \subseteq 0..now'
  BY <1>1, LoopsConstants DEF LoopsInv, Typed
<1>5. \A a, d : UpToDate(a, d) => \E t \in 0..now' : a = Published(source, t) /\ d = NextDue(source, t)
  BY <1>4 DEF UpToDate
<1>6. Fresh'
  <2> SUFFICES ASSUME ~Dirty
               PROVE  /\ phase = "read" => \A p \in Posts : snap[p] = IF p \in left THEN Absent ELSE source[p]
                      /\ phase = "render" => UpToDate(chosen, due)'
                      /\ builder = NoThread /\ site # NoSite /\ ~lastErr => UpToDate(site, nextPublish)'
    BY <1>1, <1>3 DEF Fresh
  <2>1. \A a, d : UpToDate(a, d) => \E t \in 0..now' : a = Published(source, t) /\ d = NextDue(source, t)
    BY <1>5
  <2>2. phase = "render" => UpToDate(chosen, due)'
    BY <1>1, <2>1 DEF LoopsInv, Fresh, UpToDate
  <2>3. builder = NoThread /\ site # NoSite /\ ~lastErr => UpToDate(site, nextPublish)'
    BY <1>1, <2>1 DEF LoopsInv, Fresh, UpToDate
  <2> QED
    BY <2>2, <2>3 DEF LoopsInv, Fresh
<1> QED
  BY <1>2, <1>3, <1>6 DEF LoopsInv

\* The steps of the loops that leave rebuilds alone.
LEMMA LoopStepFresh ==
    ASSUME LoopsInv, StartWatch \/ Receive \/ Fire \/ Skip \/ ScheduleDue
    PROVE  LoopsInv'
<1>1. UNCHANGED <<source, now, site, nextPublish, lastErr, builder, phase, left, snap, chosen, due, edits, missed>>
  BY DEF StartWatch, Receive, Fire, Skip, ScheduleDue, TimerFires, sbVars, jobVars
<1>2. Typed'
  <2>1. queue' \in 0..edits
    BY <1>1, LoopsConstants DEF LoopsInv, Typed, StartWatch, Receive, Fire, Skip, ScheduleDue, TimerFires
  <2> QED
    BY <1>1, <2>1 DEF LoopsInv, Typed, StartWatch, Receive, Fire, Skip, ScheduleDue, TimerFires
<1>3. Rebuilding'
  BY <1>1 DEF LoopsInv, Rebuilding, StartWatch, Receive, Fire, Skip, ScheduleDue, TimerFires
<1>4. Dirty => Dirty'
  BY <1>1 DEF LoopsInv, Typed, Rebuilding, Dirty, StartWatch, Receive, Fire, Skip, ScheduleDue, TimerFires
<1>5. Fresh'
  BY <1>1, <1>4 DEF LoopsInv, Fresh, UpToDate
<1> QED
  BY <1>2, <1>3, <1>5 DEF LoopsInv

LEMMA BeginFresh ==
    ASSUME LoopsInv, NEW t \in Threads, StartRebuild(t)
    PROVE  LoopsInv'
<1>1. /\ builder = NoThread /\ builder' = t /\ phase' = "begun"
      /\ t = Watch => watchPC = "rebuild"
      /\ t = Sched => schedPC = "rebuild"
      /\ beganSince' = TRUE /\ missed' = FALSE
      /\ UNCHANGED <<source, now, site, nextPublish, lastErr, left, snap, chosen, due, edits,
                     watching, queue, pending, watchPC, schedPC>>
  BY DEF StartRebuild, Begin, Decided, envVars
<1>2. Typed'
  BY <1>1 DEF LoopsInv, Typed, Phases
<1>3. Rebuilding' /\ builder' # NoThread
  BY <1>1, LoopsConstants DEF LoopsInv, Rebuilding
<1>4. Fresh'
  BY <1>1, <1>3 DEF Fresh
<1> QED
  BY <1>2, <1>3, <1>4 DEF LoopsInv

LEMMA WorkingFresh ==
    ASSUME LoopsInv, Working
    PROVE  LoopsInv'
<1>1. /\ UNCHANGED <<source, now, site, nextPublish, lastErr, builder, edits,
                     watching, queue, pending, beganSince, missed, watchPC, schedPC>>
      /\ builder # NoThread /\ Dirty' = Dirty
  BY DEF Working, List, Read, Choose, envVars, loopVars, LoopsInv, Rebuilding, Dirty
<1>2. CASE List
  <2>1. phase = "begun" /\ phase' = "read" /\ left' = {p \in Posts : source[p] # Absent} /\ UNCHANGED <<snap, chosen, due>>
    BY <1>2 DEF List
  <2>2. snap' = NoPosts
    BY <2>1 DEF LoopsInv, Rebuilding
  <2>3. Typed' /\ Rebuilding'
    BY <1>1, <2>1 DEF LoopsInv, Typed, Rebuilding, Phases
  <2>4. Fresh'
    BY <1>1, <2>1, <2>2 DEF Fresh, NoPosts
  <2> QED
    BY <2>3, <2>4 DEF LoopsInv
<1>3. CASE \E p \in Posts : Read(p)
  <2>1. PICK p \in Posts : Read(p)
    BY <1>3
  <2>2. /\ phase = "read" /\ phase' = "read" /\ left' = left \ {p} /\ snap' = [snap EXCEPT ![p] = source[p]]
        /\ UNCHANGED <<chosen, due>>
    BY <2>1 DEF Read
  <2>3. snap' \in Snapshots
    BY <2>2 DEF LoopsInv, Typed, Snapshots
  <2>4. Typed' /\ Rebuilding'
    BY <1>1, <2>2, <2>3 DEF LoopsInv, Typed, Rebuilding, Phases
  <2>5. Fresh'
    <3> SUFFICES ASSUME ~Dirty PROVE \A q \in Posts : snap'[q] = IF q \in left' THEN Absent ELSE source[q]
      BY <1>1, <2>2 DEF Fresh
    <3>1. \A q \in Posts : snap[q] = IF q \in left THEN Absent ELSE source[q]
      BY <2>2 DEF LoopsInv, Fresh
    <3> QED
      BY <2>2, <3>1 DEF LoopsInv, Typed, Snapshots
  <2> QED
    BY <2>4, <2>5 DEF LoopsInv
<1>4. CASE Choose
  <2>1. /\ phase = "read" /\ left = {} /\ phase' = "render" /\ snap' = snap
        /\ chosen' = Published(snap, now) /\ due' = NextDue(snap, now)
    BY <1>4 DEF Choose
  <2>2. chosen' \in Sites
    BY <2>1, PublishedType DEF LoopsInv, Typed
  <2>3. Typed' /\ Rebuilding'
    BY <1>1, <2>1, <2>2 DEF LoopsInv, Typed, Rebuilding, Phases
  <2>4. Fresh'
    <3> SUFFICES ASSUME ~Dirty PROVE UpToDate(chosen, due)'
      BY <1>1, <2>1 DEF Fresh
    <3>1. \A q \in Posts : snap[q] = source[q]
      BY <2>1 DEF LoopsInv, Fresh
    <3>2. snap = source
      BY <3>1, SameFiles DEF LoopsInv, Typed
    <3>3. now \in 0..now
      BY DEF LoopsInv, Typed
    <3> QED
      BY <1>1, <2>1, <3>2, <3>3 DEF UpToDate
  <2> QED
    BY <2>3, <2>4 DEF LoopsInv
<1> QED
  BY <1>2, <1>3, <1>4 DEF Working

LEMMA EndFresh ==
    ASSUME LoopsInv, EndRebuild
    PROVE  LoopsInv'
<1>1. /\ builder # NoThread /\ builder' = NoThread /\ phase' = "idle" /\ snap' = NoPosts /\ chosen' = NoArticles
      /\ watchPC' = IF builder = Watch THEN "select" ELSE watchPC
      /\ schedPC' = IF builder = Sched THEN "tick" ELSE schedPC
      /\ UNCHANGED <<source, now, edits, watching, queue, pending, beganSince, missed>>
      /\ \/ phase = "render" /\ site' = chosen /\ nextPublish' = due /\ lastErr' = FALSE
         \/ site' = site /\ lastErr' = (site # NoSite)
  BY DEF EndRebuild, Publish, Fail, EndJob, envVars, LoopsInv, Rebuilding
<1>2. Typed'
  <2>1. lastErr' \in BOOLEAN /\ site' \in Sites \cup {NoSite}
    BY <1>1 DEF LoopsInv, Typed
  <2> QED
    BY <1>1, <2>1, EmptyTypes DEF LoopsInv, Typed, Phases
<1>3. Rebuilding'
  BY <1>1, LoopsConstants DEF Rebuilding
<1>4. Dirty => Dirty'
  BY <1>1, LoopsConstants DEF LoopsInv, Typed, Dirty
<1>5. Fresh'
  BY <1>1, <1>4 DEF LoopsInv, Fresh, UpToDate
<1> QED
  BY <1>2, <1>3, <1>5 DEF LoopsInv

LEMMA DieFresh ==
    ASSUME LoopsInv, Die
    PROVE  LoopsInv'
<1>1. /\ builder' = NoThread /\ phase' = "idle" /\ snap' = NoPosts /\ chosen' = NoArticles /\ site' = NoSite
      /\ lastErr' = FALSE /\ watching' = FALSE /\ queue' = 0 /\ pending' = FALSE /\ beganSince' = FALSE
      /\ watchPC' = "select" /\ schedPC' = "tick" /\ missed' \in BOOLEAN
      /\ UNCHANGED <<source, now, edits>>
  BY DEF Die, Crash, EndJob, envVars, LoopsInv, Typed
<1>2. Typed'
  <2>1. queue' \in 0..edits'
    BY <1>1, LoopsConstants DEF LoopsInv, Typed
  <2> QED
    BY <1>1, <2>1, EmptyTypes DEF LoopsInv, Typed, Phases
<1>3. Rebuilding' /\ Fresh'
  BY <1>1, LoopsConstants DEF Rebuilding, Fresh
<1> QED
  BY <1>2, <1>3 DEF LoopsInv

LEMMA LoopsInvAlways == LoopsSpec => []LoopsInv
<1>1. LoopsInv /\ [LoopsNext]_vars => LoopsInv'
  <2>1. LoopsInv /\ LoopsNext => LoopsInv'
    BY ChangeFresh, TimeFresh, LoopStepFresh, BeginFresh, WorkingFresh, EndFresh, DieFresh DEF LoopsNext
  <2>2. LoopsInv /\ UNCHANGED vars => LoopsInv'
    BY DEF LoopsInv, Typed, Rebuilding, Fresh, Dirty, UpToDate, vars, sbVars, jobVars, loopVars
  <2> QED
    BY <2>1, <2>2
<1> QED
  BY <1>1, InitFresh, PTL DEF LoopsSpec

-----------------------------------------------------------------------------
(* The theorems.                                                             *)

\* The watcher, the debounce and the schedule never lose a change or an hour: as long as no
\* rebuild has failed and no change went unwatched, a site that is behind the files or the
\* clock has something under way that will bring it up to date.
THEOREM StaleIsAlwaysTemporary == LoopsSpec => []StaleIsTemporary
<1>1. LoopsInv => StaleIsTemporary
  <2> SUFFICES ASSUME LoopsInv, site # NoSite, ~Current, ~lastErr, ~missed,
                      builder = NoThread, ~(queue > 0), ~pending, watchPC # "rebuild"
               PROVE  nextPublish # 0 /\ now >= nextPublish
    BY DEF StaleIsTemporary
  <2>1. ~Dirty
    BY DEF Dirty
  <2>2. PICK t \in 0..now : site = Published(source, t) /\ nextPublish = NextDue(source, t)
    BY <2>1 DEF LoopsInv, Fresh, UpToDate
  <2>3. t \in Nat /\ now \in Nat /\ t <= now /\ source \in Snapshots
    BY LoopsConstants DEF LoopsInv, Typed
  <2>4. Published(source, t) # Published(source, now)
    BY <2>2 DEF Current
  <2> QED
    BY <2>2, <2>3, <2>4, NothingComesUnannounced
<1> QED
  BY <1>1, LoopsInvAlways, PTL

\* All the loops keep has its type, and a loop that holds the engine's mutex is inside its
\* own rebuild.
THEOREM LoopsTypesHold == LoopsSpec => []LoopsTypeOK
<1>1. LoopsInv => LoopsTypeOK
  BY LoopsConstants DEF LoopsInv, Typed, Rebuilding, LoopsTypeOK
<1> QED
  BY <1>1, LoopsInvAlways, PTL

-----------------------------------------------------------------------------
(* What the loops are to the rebuild.                                       *)

\* The loops, the watcher and whoever changes posts add nothing to what SiteBuild allows:
\* seen through a rebuild, a run of the process is one of SiteBuild's, whatever is decided
\* from events, timers and ticks, and however often the process dies.
THEOREM LoopsImplementSiteBuild == LoopsSpec => Spec
<1>1. LoopsInit => Init
  BY DEF LoopsInit
<1>2. [LoopsNext]_vars => [Next]_sbVars
  <2> SUFFICES ASSUME [LoopsNext]_vars PROVE [Next]_sbVars
    OBVIOUS
  <2>1. CASE UNCHANGED vars
    BY <2>1 DEF vars
  <2>2. CASE \E p \in Posts, c \in Contents \cup {Absent} : Change(p, c)
    BY <2>2 DEF Change, Next
  <2>3. CASE TimePasses
    BY <2>3 DEF TimePasses, Next
  <2>4. CASE StartWatch \/ Receive \/ Fire \/ Skip \/ ScheduleDue
    BY <2>4 DEF StartWatch, Receive, Fire, Skip, ScheduleDue
  <2>5. CASE \E t \in Threads : StartRebuild(t)
    BY <2>5 DEF StartRebuild, Next
  <2>6. CASE Working
    BY <2>6 DEF Working, Next, Build
  <2>7. CASE EndRebuild
    BY <2>7 DEF EndRebuild, Next, Build
  <2>8. CASE Die
    BY <2>8 DEF Die, Next
  <2> QED
    BY <2>1, <2>2, <2>3, <2>4, <2>5, <2>6, <2>7, <2>8 DEF LoopsNext
<1> QED
  BY <1>1, <1>2, PTL DEF LoopsSpec, Spec
=============================================================================
