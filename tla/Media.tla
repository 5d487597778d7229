-------------------------------- MODULE Media --------------------------------
(***************************************************************************)
(* The uploaded pictures: storing one, cutting its renditions in the        *)
(* background, showing them, and deleting a picture nobody uses             *)
(* (internal/server/images.go, favicon.go, admin_media.go and               *)
(* internal/build/imageset.go), together with what decides whether a        *)
(* picture is used: the posts, under postMu, and site.yml, under siteMu --  *)
(* and those who change all of it under neither lock: whoever drops files   *)
(* into content/posts, and the restore of a backup (internal/backup/        *)
(* restore.go, adminBackupRestore).                                         *)
(*                                                                         *)
(* A post is represented by the picture it shows, and saving or deleting it *)
(* is one operation under postMu, as in module Articles.  The renditions of *)
(* a picture are written as one or not at all, and so is each part of a     *)
(* restore: posts, site.yml, pictures.                                      *)
(***************************************************************************)
EXTENDS SiteConfig, FiniteSets

CONSTANTS
    Images,       \* pictures, by content: the name of the file is its hash
    Encoder,      \* the goroutine that holds renditionWork
    Filler,       \* the goroutine of the backfill at startup
    Backups,      \* what backups hold: the pictures their posts show, site.yml, pictures
    MaxTasks      \* bound: uploads, posts saved or dropped in, deletions and restores begun

ASSUME MediaAssumption ==
    /\ Threads = Handlers \cup {Watch, Encoder, Filler} \cup Restorers
    /\ Cardinality({Watch, Encoder, Filler}) = 3
    /\ {Encoder, Filler} \cap (Handlers \cup Restorers) = {}
    /\ Images \cap Handlers = {} /\ Images \subseteq Icons
    /\ Backups \subseteq [posts : SUBSET Images, file : HandEdits \cup {Broken}, masters : SUBSET Images]
    /\ MaxTasks \in Nat

VARIABLES
    masters,      \* pictures in data/images
    sized,        \* pictures with their renditions there
    posts,        \* pictures that posts on disk show
    postMu,       \* Deps.postMu: its holder
    task,         \* what each handler does with pictures
    backup,       \* what each restore brings back
    waiting,      \* rendition passes waiting for renditionWork, by picture
    regens,       \* regenerateRenditions waiting for it
    encoder,      \* who holds it: the pass for a picture, or a regeneration
    filler,       \* the backfills, after startup and after a restore: pictures still to look
                  \* at, and whether one was cut
    index,        \* ImageIndex.cache
    looked,       \* what the running Resolve found on disk, before it is stored
    pics,         \* how the running rebuild shows each picture
    shown,        \* how the generation readers get shows it
    dropped,      \* history: posts put there from outside since the deletion under way looked for them
    uncut,        \* history: pictures whose renditions could not be written when last tried
    tasks         \* counter for the bound

diskVars   == <<masters, sized, posts>>
cutVars    == <<waiting, regens, encoder, filler, uncut>>
workVars   == <<postMu, task, backup, cutVars, dropped, tasks>>
lookupVars == <<index, looked, pics, shown>>
mediaVars  == <<diskVars, workVars, lookupVars>>
vars       == <<siteVars, mediaVars>>

NoTask == [kind |-> "none", at |-> "idle", pic |-> Blank, had |-> FALSE]
NoPass == [at |-> "idle", pic |-> Blank]
Idle   == [at |-> "idle", left |-> {}, wrote |-> FALSE]
NoCopy == [posts |-> {}, file |-> Missing, masters |-> {}]

\* Backfill lists the directory first.
Fill == [at |-> "scan", left |-> masters, wrote |-> FALSE]

MediaInit ==
    /\ SiteInit
    /\ file \in {Missing} \cup {f \in HandEdits : f # Broken /\ f.icon \notin Images}
    /\ masters \in SUBSET Images /\ sized = {} /\ posts \in SUBSET masters
    /\ postMu = NoThread
    /\ task = [h \in Handlers |-> NoTask]
    /\ backup = [r \in Restorers |-> NoCopy]
    /\ waiting = [m \in Images |-> 0] /\ regens = 0 /\ encoder = NoPass
    /\ filler = [t \in {Filler, Encoder} |-> Idle]
    /\ dropped = {} /\ uncut = {}
    /\ index = [m \in Images |-> "?"] /\ looked = index /\ pics = index /\ shown = index
    /\ tasks = 0

Doing(h, kind, step) == task[h].kind = kind /\ task[h].at = step
Step(h, step) == task' = [task EXCEPT ![h].at = step]
EndTask(h) == task' = [task EXCEPT ![h] = NoTask]

Begin(h, kind, step, m) ==
    /\ up /\ tasks < MaxTasks
    /\ task[h] = NoTask /\ At(h, "idle")
    /\ tasks' = tasks + 1
    /\ task' = [task EXCEPT ![h] = [kind |-> kind, at |-> step, pic |-> m,
                                    had |-> kind \in {"upload", "favicon"} /\ m \in masters]]

-----------------------------------------------------------------------------
(* Uploads.                                                                  *)

\* storeImageBytes: the Stat.
Upload(h, kind, m) ==
    /\ kind \in {"upload", "favicon"}
    /\ Begin(h, kind, "store", m)
    /\ UNCHANGED <<siteVars, diskVars, postMu, backup, cutVars, dropped, lookupVars>>

\* The file is written unless the Stat saw it; the renditions are left to a goroutine.
StoreImage(h) ==
    /\ Doing(h, "upload", "store")
    /\ masters' = IF task[h].had THEN masters ELSE masters \cup {task[h].pic}
    /\ waiting' = [waiting EXCEPT ![task[h].pic] = @ + 1]
    /\ EndTask(h)
    /\ UNCHANGED <<siteVars, sized, posts, postMu, backup, regens, encoder, filler, uncut, dropped, tasks,
                   lookupVars>>

\* storeFavicon cuts no renditions.  The request goes on to setFavicon.
StoreFavicon(h) ==
    /\ Doing(h, "favicon", "store")
    /\ masters' = IF task[h].had THEN masters ELSE masters \cup {task[h].pic}
    /\ Step(h, "set")
    /\ UNCHANGED <<siteVars, sized, posts, postMu, backup, cutVars, dropped, tasks, lookupVars>>

ChooseFavicon(h) ==
    /\ Doing(h, "favicon", "set")
    /\ ReadOriginal(h, [op |-> "favicon", x |-> task[h].pic, i |-> 0, list |-> <<>>])
    /\ EndTask(h)
    /\ UNCHANGED <<diskVars, postMu, backup, cutVars, dropped, tasks, lookupVars>>

-----------------------------------------------------------------------------
(* Renditions.                                                               *)

\* Mutant: the rebuild is left to whoever comes next.
AfterCut_Mutant == "idle"

\* generateRenditions ends with a rebuild when it has written something.
AfterCut == "build"

\* GenerateVariants opens the master, if it is there and lacks renditions.
StartPass(m) ==
    /\ up /\ encoder = NoPass /\ waiting[m] > 0
    /\ waiting' = [waiting EXCEPT ![m] = @ - 1]
    /\ encoder' = IF m \in masters \ sized THEN [at |-> "cut", pic |-> m] ELSE NoPass
    /\ UNCHANGED <<siteVars, diskVars, postMu, task, backup, regens, filler, uncut, dropped, tasks,
                   lookupVars>>

Refresh == index' = [m \in Images |-> "?"]

\* It has the pixels in memory: the renditions are written even if the master has gone.
WriteVariants ==
    /\ up /\ encoder.at = "cut"
    /\ sized' = sized \cup {encoder.pic}
    /\ encoder' = [encoder EXCEPT !.at = AfterCut]
    /\ uncut' = uncut \ {encoder.pic}
    /\ Refresh
    /\ UNCHANGED <<siteVars, masters, posts, postMu, task, backup, waiting, regens, filler, dropped, tasks,
                   looked, pics, shown>>

\* An encoder or the disk fails, or the file does not decode: nothing is written, and nothing
\* is rebuilt for it.
MayFail ==
    /\ failures < MaxFailures /\ failures' = failures + 1
    /\ UNCHANGED <<fileVars, live, up, siteMu, builder, drawn, served, lastErr, job, ghostVars, boundVars>>

CutFails ==
    /\ up /\ encoder.at = "cut"
    /\ MayFail /\ UNCHANGED otherVars
    /\ encoder' = NoPass
    /\ uncut' = uncut \cup {encoder.pic}
    /\ UNCHANGED <<diskVars, postMu, task, backup, waiting, regens, filler, dropped, tasks, lookupVars>>

\* Backfill: every master that lacks its renditions, then a rebuild.  The one after startup
\* does not take renditionWork, regenerateRenditions does.
StartRegeneration ==
    /\ up /\ encoder = NoPass /\ regens > 0
    /\ regens' = regens - 1
    /\ encoder' = [NoPass EXCEPT !.at = "fill"]
    /\ filler' = [filler EXCEPT ![Encoder] = Fill]
    /\ UNCHANGED <<siteVars, diskVars, postMu, task, backup, waiting, uncut, dropped, tasks, lookupVars>>

\* A picture that fails is passed over.
BackfillOne(t, m) ==
    /\ up /\ filler[t].at = "scan" /\ m \in filler[t].left
    /\ \/ /\ filler' = [filler EXCEPT ![t].left = @ \ {m}, ![t].wrote = @ \/ m \in masters \ sized]
          /\ sized' = IF m \in masters THEN sized \cup {m} ELSE sized
          /\ uncut' = IF m \in masters THEN uncut \ {m} ELSE uncut
          /\ UNCHANGED siteVars
       \/ /\ m \in masters \ sized
          /\ MayFail /\ UNCHANGED otherVars
          /\ filler' = [filler EXCEPT ![t].left = @ \ {m}]
          /\ uncut' = uncut \cup {m}
          /\ UNCHANGED sized
    /\ UNCHANGED <<masters, posts, postMu, task, backup, waiting, regens, encoder, dropped, tasks,
                   lookupVars>>

BackfillEnds(t) ==
    /\ up /\ filler[t].at = "scan" /\ filler[t].left = {}
    /\ LET next == IF filler[t].wrote THEN "build" ELSE "idle" IN
         /\ filler' = [filler EXCEPT ![t].at = next]
         /\ encoder' = IF t = Encoder THEN [NoPass EXCEPT !.at = next] ELSE encoder
    /\ IF filler[t].wrote THEN Refresh ELSE UNCHANGED index
    /\ UNCHANGED <<siteVars, diskVars, postMu, task, backup, waiting, regens, uncut, dropped, tasks,
                   looked, pics, shown>>

-----------------------------------------------------------------------------
(* Saving a post that shows a picture, and deleting it.                      *)

LockPosts(h) == postMu = NoThread /\ postMu' = h

\* The author writes about a picture there is.
SavePost(h, m) ==
    /\ m \in masters \cup posts
    /\ Begin(h, "post", "write", m)
    /\ LockPosts(h)
    /\ UNCHANGED <<siteVars, diskVars, backup, cutVars, dropped, lookupVars>>

Toggled(s, m) == IF m \in s THEN s \ {m} ELSE s \cup {m}

\* What is written below content/posts wakes the watcher.
WakeWatcher ==
    /\ event' = up /\ begunSince' = FALSE
    /\ UNCHANGED <<file, live, up, siteMu, buildVars, job, ghostVars, boundVars>>

\* The post is created, or the post there is deleted.
WritePost(h) ==
    /\ Doing(h, "post", "write")
    /\ posts' = Toggled(posts, task[h].pic)
    /\ WakeWatcher /\ UNCHANGED otherVars
    /\ Step(h, "build")
    /\ UNCHANGED <<masters, sized, postMu, backup, cutVars, dropped, tasks, lookupVars>>

RollBackPost(h) ==
    /\ Doing(h, "post", "rollback")
    /\ posts' = Toggled(posts, task[h].pic)
    /\ WakeWatcher /\ UNCHANGED otherVars
    /\ EndTask(h)
    /\ postMu' = NoThread
    /\ UNCHANGED <<masters, sized, backup, cutVars, dropped, tasks, lookupVars>>

\* The new posts that a deletion, which has looked already, does not see.
Unseen == IF \E h \in Handlers : Doing(h, "delete", "master") THEN posts' \ posts ELSE {}

\* Somebody puts a file into content/posts, or takes one away.
DropIn(m) ==
    /\ tasks < MaxTasks /\ tasks' = tasks + 1
    /\ posts' = Toggled(posts, m)
    /\ dropped' = dropped \cup Unseen
    /\ WakeWatcher /\ UNCHANGED otherVars
    /\ UNCHANGED <<masters, sized, postMu, task, backup, cutVars, lookupVars>>

-----------------------------------------------------------------------------
(* adminMediaDelete.                                                         *)

\* siteMu comes first ...
StartDelete(h, m) ==
    /\ LockSite(h)
    /\ Begin(h, "delete", "lock", m)
    /\ UNCHANGED <<fileVars, live, up, buildVars, job, otherVars, ghostVars, boundVars,
                   diskVars, postMu, backup, cutVars, dropped, lookupVars>>

\* Mutant: the pages are looked through before postMu is held.
NeedsPosts_Mutant(h) == postMu' = postMu

NeedsPosts(h) == LockPosts(h)

\* ... then postMu.
LockForDelete(h) ==
    /\ Doing(h, "delete", "lock")
    /\ NeedsPosts(h)
    /\ Step(h, "check")
    /\ UNCHANGED <<siteVars, diskVars, backup, cutVars, dropped, tasks, lookupVars>>

\* Mutant: the second unlock is not deferred and the early return leaves it out.
Release_Mutant(h) ==
    /\ siteMu' = NoThread
    /\ EndTask(h)
    /\ UNCHANGED <<postMu, fileVars, live, up, buildVars, job, otherVars, ghostVars, boundVars>>

\* Both deferred unlocks.
Release(h) ==
    /\ siteMu' = NoThread
    /\ postMu' = IF postMu = h THEN NoThread ELSE postMu
    /\ EndTask(h)
    /\ UNCHANGED <<fileVars, live, up, buildVars, job, otherVars, ghostVars, boundVars>>

\* listStoredImages with markImageUsage, and the favicon.
Used(m) == m \in masters /\ (m \in posts \/ live.icon = m)

\* A picture that is not in the list is not looked for in the posts or the favicon either; had
\* says whether it was.
CheckUse(h) ==
    /\ Doing(h, "delete", "check")
    /\ IF Used(task[h].pic) THEN Release(h)
       ELSE /\ task' = [task EXCEPT ![h].at = "master", ![h].had = task[h].pic \in masters]
            /\ UNCHANGED <<siteVars, postMu>>
    /\ UNCHANGED <<diskVars, backup, cutVars, dropped, tasks, lookupVars>>

\* The directory is listed (had: renditions are in the list), the files go one by one.
RemoveMaster(h) ==
    /\ Doing(h, "delete", "master")
    /\ masters' = masters \ {task[h].pic}
    /\ task' = [task EXCEPT ![h].at = "renditions", ![h].had = task[h].pic \in sized]
    /\ dropped' = {}
    /\ UNCHANGED <<siteVars, sized, posts, postMu, backup, cutVars, tasks, lookupVars>>

RemoveRenditions(h) ==
    /\ Doing(h, "delete", "renditions")
    /\ sized' = IF task[h].had THEN sized \ {task[h].pic} ELSE sized
    /\ Refresh
    /\ Release(h)
    /\ UNCHANGED <<masters, posts, backup, cutVars, dropped, tasks, looked, pics, shown>>

-----------------------------------------------------------------------------
(* Backups.Restore, and what adminBackupRestore does after it.               *)

\* Service.mu is held while the files are put in place.
InFiles(r) == restore[r] \notin {"idle", "build", "building"}

Restoring(r, step, next) == up /\ restore[r] = step /\ restore' = [restore EXCEPT ![r] = next]

\* After the safety copy, which changes nothing here, syncTree writes what the backup holds, in the
\* order of the names: posts, site.yml ...
RestorePosts(r, b) ==
    /\ tasks < MaxTasks /\ tasks' = tasks + 1
    /\ ~\E q \in Restorers : InFiles(q)
    /\ Restoring(r, "idle", "site")
    /\ backup' = [backup EXCEPT ![r] = b]
    /\ posts' = posts \cup b.posts
    /\ dropped' = dropped \cup Unseen
    /\ WakeWatcher /\ UNCHANGED watchPC
    /\ UNCHANGED <<masters, sized, postMu, task, cutVars, lookupVars>>

RestoreSite(r) ==
    /\ Restoring(r, "site", "otherPosts")
    /\ WriteOutside(backup[r].file)
    /\ UNCHANGED <<live, up, siteMu, buildVars, job, watchPC, boundVars,
                   diskVars, postMu, task, backup, cutVars, dropped, tasks, lookupVars>>

\* ... and then removes the rest.
DropPosts(r) ==
    /\ Restoring(r, "otherPosts", "masters")
    /\ posts' = posts \cap backup[r].posts
    /\ WakeWatcher /\ UNCHANGED watchPC
    /\ UNCHANGED <<masters, sized, postMu, task, backup, cutVars, dropped, tasks, lookupVars>>

\* The pictures likewise, then removeOrphanedRenditions.  A backup without pictures has no such
\* directory, and syncTree leaves them alone.  The database follows (module Backup), and the rebuild.
RestoreMasters(r) ==
    /\ Restoring(r, "masters", "build")
    /\ masters' = IF backup[r].masters = {} THEN masters ELSE backup[r].masters
    /\ sized' = sized \cap masters'
    /\ backup' = [backup EXCEPT ![r] = NoCopy]
    /\ UNCHANGED <<fileVars, live, up, siteMu, buildVars, job, watchPC, ghostVars, boundVars,
                   posts, postMu, task, cutVars, dropped, tasks, lookupVars>>

\* A step fails: what was done stays, and the request answers with the error.
RestoreFails(r) ==
    /\ up /\ InFiles(r)
    /\ MayFail /\ UNCHANGED watchPC
    /\ restore' = [restore EXCEPT ![r] = "idle"]
    /\ backup' = [backup EXCEPT ![r] = NoCopy]
    /\ UNCHANGED <<diskVars, postMu, task, cutVars, dropped, tasks, lookupVars>>

-----------------------------------------------------------------------------
(* Rebuilds: those of SiteConfig, with the pictures.                         *)

\* Rebuild empties the index before it renders.
ForgetIndex == Refresh

StartBuild(t) ==
    /\ BeginBuild(t)
    /\ t = Encoder => encoder.at = "build"
    /\ t = Filler => filler[Filler].at = "build"
    /\ t \in Handlers => task[t].kind # "post"
    /\ ForgetIndex
    /\ UNCHANGED <<diskVars, workVars, looked, pics, shown>>

\* The rebuild of a post's save: the handler is not in mutateSite.
StartPostBuild(h) ==
    /\ Doing(h, "post", "build")
    /\ up /\ builder = NoThread /\ builder' = h
    /\ Step(h, "building")
    /\ begunSince' = event
    /\ ForgetIndex
    /\ excused' = IF \E g \in Handlers : At(g, "reloadOld") THEN excused \cup {"pages"} ELSE excused
    /\ UNCHANGED <<file, event, live, up, siteMu, drawn, served, failures, lastErr, job, otherVars,
                   expected, outside, boundVars, diskVars, postMu, backup, cutVars, dropped, tasks,
                   looked, pics, shown>>

\* How a picture is shown, by what is on disk: as it is, or with its sizes.
OnDisk(m) == IF m \in masters \cap sized THEN "sizes" ELSE "bare"

Rendering(m) == builder # NoThread /\ pics[m] = "?"

\* Resolve, when the index knows; posts that do not exist show nothing.
Hit(m) ==
    /\ Rendering(m)
    /\ IF m \in posts THEN index[m] # "?" /\ pics' = [pics EXCEPT ![m] = index[m]]
       ELSE looked[m] = "?" /\ pics' = [pics EXCEPT ![m] = "none"]
    /\ UNCHANGED <<siteVars, diskVars, workVars, index, looked, shown>>

\* Resolve, when it does not: build outside the index's mutex, then store.
Miss(m) ==
    /\ Rendering(m) /\ m \in posts /\ index[m] = "?" /\ looked[m] = "?"
    /\ looked' = [looked EXCEPT ![m] = OnDisk(m)]
    /\ UNCHANGED <<siteVars, diskVars, workVars, index, pics, shown>>

StoreLookup(m) ==
    /\ Rendering(m) /\ looked[m] # "?"
    /\ index' = [index EXCEPT ![m] = looked[m]]
    /\ pics' = [pics EXCEPT ![m] = looked[m]]
    /\ UNCHANGED <<siteVars, diskVars, workVars, looked, shown>>

\* The articles come before the other pages.
DrawPage(p) == (\A m \in Images : pics[m] # "?") /\ Draw(p) /\ UNCHANGED mediaVars

\* The rebuild is over for whoever asked for it.  After a restore the renditions follow.
EndRebuild(ok) ==
    LET h == builder IN
    /\ encoder' = IF h = Encoder THEN NoPass ELSE encoder
    /\ filler' = [t \in {Filler, Encoder} |-> IF t = h THEN Idle ELSE filler[t]]
    /\ regens' = IF h \in Restorers /\ ok THEN regens + 1 ELSE regens
    /\ IF h \in Handlers /\ task[h].kind = "post"
       THEN IF ok THEN EndTask(h) /\ postMu' = NoThread
            ELSE Step(h, "rollback") /\ UNCHANGED postMu
       ELSE UNCHANGED <<task, postMu>>
    /\ pics' = [m \in Images |-> "?"] /\ looked' = pics'
    /\ UNCHANGED <<diskVars, backup, waiting, uncut, dropped, tasks, index>>

ForPost == builder \in Handlers /\ task[builder].kind = "post"

\* What SiteConfig does at the end of a rebuild, but for a handler that is not in mutateSite.
EndPostBuild(ok) ==
    /\ builder' = NoThread /\ drawn' = [p \in Pages |-> Blank] /\ lastErr' = ~ok
    /\ UNCHANGED <<fileVars, live, up, siteMu, job, otherVars, ghostVars, boundVars>>

Publish ==
    /\ IF ForPost THEN AllDrawn /\ served' = drawn /\ EndPostBuild(TRUE) /\ UNCHANGED failures
       ELSE PublishSite
    /\ shown' = pics
    /\ EndRebuild(TRUE)

Fail ==
    /\ IF ForPost THEN /\ failures < MaxFailures /\ failures' = failures + 1
                       /\ EndPostBuild(FALSE) /\ UNCHANGED served
       ELSE FailBuild
    /\ UNCHANGED shown
    /\ EndRebuild(FALSE)

-----------------------------------------------------------------------------

\* The process ends, and starts again over what is on disk.
Die ==
    /\ Stop
    /\ postMu' = NoThread
    /\ task' = [h \in Handlers |-> NoTask]
    /\ backup' = [r \in Restorers |-> NoCopy]
    /\ waiting' = [m \in Images |-> 0] /\ regens' = 0 /\ encoder' = NoPass
    /\ filler' = [t \in {Filler, Encoder} |-> Idle]
    /\ dropped' = {} /\ uncut' = {}
    /\ index' = [m \in Images |-> "?"] /\ looked' = index' /\ pics' = index' /\ shown' = index'
    /\ UNCHANGED <<diskVars, tasks>>

Start ==
    /\ Boot
    /\ shown' = [m \in Images |-> IF m \in posts THEN OnDisk(m) ELSE "none"]
    /\ filler' = [filler EXCEPT ![Filler] = Fill]
    /\ UNCHANGED <<diskVars, postMu, task, backup, waiting, regens, encoder, dropped, uncut, tasks,
                   index, looked, pics>>

SiteOnly ==
    /\ SiteStep
    /\ \A h \in Handlers : task[h] # NoTask => job'[h] = job[h]
    /\ UNCHANGED mediaVars

Deleting(h)  == LockForDelete(h) \/ CheckUse(h) \/ RemoveMaster(h) \/ RemoveRenditions(h)
Posting(h)   == WritePost(h) \/ StartPostBuild(h) \/ RollBackPost(h)
Storing(h)   == StoreImage(h) \/ StoreFavicon(h) \/ ChooseFavicon(h)
Rendition    == WriteVariants \/ CutFails \/ StartRegeneration \/ (\E m \in Images : StartPass(m))
Backfilling  == \E t \in {Filler, Encoder} : BackfillEnds(t) \/ (\E m \in Images : BackfillOne(t, m))
Restored(r)  == RestoreSite(r) \/ DropPosts(r) \/ RestoreMasters(r)
Drawing      == (\E p \in Pages : DrawPage(p)) \/ (\E m \in Images : Hit(m) \/ Miss(m) \/ StoreLookup(m))

MediaNext ==
    \/ SiteOnly
    \/ \E h \in Handlers :
         \/ \E m \in Images : \/ \E k \in {"upload", "favicon"} : Upload(h, k, m)
                              \/ SavePost(h, m) \/ StartDelete(h, m)
         \/ Storing(h) \/ Posting(h) \/ Deleting(h)
    \/ \E r \in Restorers :
         (\E b \in Backups : RestorePosts(r, b)) \/ Restored(r) \/ RestoreFails(r)
    \/ \E m \in Images : DropIn(m)
    \/ Rendition \/ Backfilling
    \/ \E t \in Threads : StartBuild(t)
    \/ Drawing \/ Publish \/ Fail
    \/ Die \/ Start

MediaSpec == MediaInit /\ [][MediaNext]_vars

\* What goes on without anybody asking for it: handlers between their lock and their
\* answer, the watcher's timer, goroutines that have work, a rebuild to its end.
MediaProgress ==
    \/ \E h \in Handlers : \/ MutateStep(h) /\ UNCHANGED mediaVars
                           \/ Storing(h) \/ Posting(h) \/ Deleting(h)
    \/ WatchFires /\ UNCHANGED mediaVars
    \/ \E r \in Restorers : Restored(r)
    \/ Rendition \/ Backfilling
    \/ \E t \in Threads : StartBuild(t)
    \/ Drawing \/ Publish

\* The process does not stand still while one of them can go on.  Nothing is said of which.
FairMediaSpec == MediaSpec /\ WF_vars(MediaProgress)

-----------------------------------------------------------------------------
(* Properties.                                                              *)

\* The variables have their types; siteMu and postMu are held by the handler that is
\* between its lock and its answer.
MediaTypeOK ==
    /\ masters \subseteq Images /\ sized \subseteq Images /\ posts \subseteq Images
    /\ {siteMu, postMu} \subseteq Handlers \cup {NoThread} /\ builder \in Threads \cup {NoThread}
    /\ \A h \in Handlers :
         /\ (~At(h, "idle") \/ task[h].kind = "delete") <=> siteMu = h
         /\ task[h].kind = "post" => postMu = h
    /\ \A m \in Images : pics[m] \in {"?", "none", "bare", "sizes"} /\ waiting[m] \in Nat

\* A picture is deleted only while no post on disk shows it and site.yml does not name it
\* as the favicon: no other request can have made it used since the deletion looked.  What is put
\* to use under neither lock can be: a post dropped in or restored between the search and the
\* removal (dropped), and a favicon in a site.yml that was written past the process and that it
\* has not loaded (outside).  The third exception is a picture that was not there when its use was
\* to be looked up, and came back before the files are removed.  (A restore removes the pictures
\* that its backup does not have without asking who uses them.)
NothingUsedIsDeleted ==
    [][\A m \in masters \ masters' :
          \/ \E r \in Restorers : RestoreMasters(r)
          \/ \E h \in Handlers :
                /\ Doing(h, "delete", "master") /\ task[h].pic = m
                /\ task[h].had => /\ m \notin posts \ dropped
                                  /\ ~outside => Loads(file) /\ file.icon # m]_vars

\* A picture a post shows gets its sizes on the public page: the pass after the upload, or
\* the backfill after a restart or a restore, is followed by a rebuild that sees them.  (When that
\* very rebuild fails, nobody repeats it, nor a pass that could not write.)
SizesAreShown ==
    \A m \in Images :
        [](up /\ m \in posts \cap masters /\ (waiting[m] > 0 \/ \E t \in {Filler, Encoder} : m \in filler[t].left)
            => <>(\/ ~up \/ lastErr \/ m \in uncut \/ m \notin posts \cap masters
                  \/ shown[m] = "sizes"))

\* Whoever holds siteMu or postMu gives it back: no two requests wait for one another, in
\* whatever order they take siteMu, postMu and the engine's mutex.
LocksAreReleased == []<>(siteMu = NoThread) /\ []<>(postMu = NoThread)
=============================================================================
