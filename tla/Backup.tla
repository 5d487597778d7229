-------------------------------- MODULE Backup --------------------------------
(***************************************************************************)
(* Backups (internal/backup, internal/store/backup.go), their schedule      *)
(* (backupLoop of internal/main.go) and the admin's operations on them      *)
(* (internal/server/admin_backups.go).                                      *)
(*                                                                         *)
(* An archive holds content/ and a copy of the database and names the       *)
(* images it needs, which lie once in a pool beside the archives.  Create,  *)
(* Prune, Restore and Delete exclude one another (Service.mu); downloads    *)
(* take no lock, and the site goes on changing all the time.                *)
(*                                                                         *)
(* content/ as a whole is a member of Contents, the rows of the database    *)
(* that ContentFingerprint covers a member of Rows.  Images are named after *)
(* their bytes.                                                             *)
(***************************************************************************)
EXTENDS Naturals, FiniteSets

CONSTANTS
    Contents,     \* states of content/
    Images,       \* image masters
    Rows,         \* states of the database file, those that are only part of one among them
    None,         \* no archive, no site
    Keep,         \* Policy.Keep
    Safety,       \* Policy.Safety
    Interval,     \* Config.Interval
    MaxTime,      \* bound: the clock stops here
    MaxOps,       \* bound: operations begun
    MaxChanges,   \* bound: changes to the site
    MaxCrashes    \* bound: crashes

ASSUME BackupAssumption ==
    /\ {Keep, Safety} \subseteq Nat \ {0}
    /\ {Interval, MaxTime, MaxOps, MaxChanges, MaxCrashes} \subseteq Nat

Sites == [content : Contents, images : SUBSET Images, rows : Rows]

Kinds == {"scheduled", "manual", "pre-restore"}

\* name: the time and the kind that make up its file name.  print: the site its
\* Manifest.Fingerprint was computed from.  calm: history, nothing changed while it
\* was being taken.
Archives == [at : Nat, kind : Kinds, site : Sites, print : Sites, calm : BOOLEAN]

VARIABLES
    site,         \* content/, data/images and the database
    now,          \* the clock, in seconds
    archives,     \* the archives at the destination
    pool,         \* images/ at the destination
    op,           \* the operation that holds Service.mu and its locals
    prunes,       \* callers of Create about to call Prune: backupLoop, requests
    due,          \* backupLoop has found a backup due and is about to call Create
    nextCheck,    \* backupLoop's nextCheckAt
    download,     \* the archive being downloaded and its images still to be sent
    saved,        \* history: a Create has ended well, under the newest of all names; since it
                  \* began the site has not changed, and no archive was deleted by hand
    replaced,     \* history: the site that the last restore replaced, when its safety copy
                  \* was taken while nothing changed and under the newest of their names
    ops, changes, crashes   \* counters for the bounds

counters == <<ops, changes, crashes>>
callers  == <<prunes, due, nextCheck, download>>
history  == <<saved, replaced>>
vars == <<site, now, archives, pool, op, callers, history, counters>>

\* what: Create or Restore.  copy, print: what goes into the archive.  left: images not
\* in the pool yet.  at: when create was called.  from: the archive being restored.
\* newest: history, no safety copy has a later name than this restore's.
NoOp == [what |-> "none", step |-> "idle", kind |-> None, copy |-> None, print |-> None,
         left |-> {}, at |-> 0, from |-> None, calm |-> TRUE, newest |-> FALSE]

NoPrunes == [kind \in {"scheduled", "manual"} |-> 0]

NoDownload == [archive |-> None, left |-> {}]

Init ==
    /\ site \in Sites
    /\ now = 0
    /\ archives = {}
    /\ pool = {}
    /\ op = NoOp
    /\ prunes = NoPrunes
    /\ due = FALSE
    /\ nextCheck = 0
    /\ download = NoDownload
    /\ saved = FALSE
    /\ replaced = None
    /\ ops = 0 /\ changes = 0 /\ crashes = 0

-----------------------------------------------------------------------------
(* The site lives on.                                                        *)

\* Posts or site.yml, pictures, or links, tokens and webmentions change.
Edited ==
    {[site EXCEPT !.content = c] : c \in Contents}
        \cup {[site EXCEPT !.images = @ \cup {i}] : i \in Images}
        \cup {[site EXCEPT !.images = @ \ {i}] : i \in Images}
        \cup {[site EXCEPT !.rows = r] : r \in Rows}

Change(s) ==
    /\ changes < MaxChanges
    /\ s # site
    /\ changes' = changes + 1
    /\ site' = s
    /\ saved' = FALSE
    /\ op' = IF op = NoOp THEN op ELSE [op EXCEPT !.calm = FALSE]
    /\ UNCHANGED <<now, archives, pool, callers, replaced, ops, crashes>>

Tick ==
    /\ now < MaxTime
    /\ now' = now + 1
    /\ UNCHANGED <<site, archives, pool, op, callers, history, counters>>

-----------------------------------------------------------------------------
(* Taking and releasing Service.mu.                                          *)

Free == op = NoOp

Begin(o) ==
    /\ Free
    /\ ops < MaxOps
    /\ ops' = ops + 1
    /\ op' = o
    /\ UNCHANGED <<changes, crashes>>

At(step) == op.step = step

Goto(step) == op' = [op EXCEPT !.step = step]

-----------------------------------------------------------------------------
(* Create.                                                                   *)

\* backupDue: the newest of all archives is an interval old.
Due == \A a \in archives : now >= a.at + Interval

Create(kind) == [NoOp EXCEPT !.what = "create", !.step = "compare", !.kind = kind]

StartManual ==
    /\ Begin(Create("manual"))
    /\ UNCHANGED <<site, now, archives, pool, callers, history>>

\* backupLoop finds that it is time ...
FindDue ==
    /\ ~due /\ prunes["scheduled"] = 0
    /\ op.what = "create" => op.kind # "scheduled"
    /\ now >= nextCheck
    /\ Due
    /\ due' = TRUE
    /\ nextCheck' = 0
    /\ UNCHANGED <<site, now, archives, pool, op, prunes, download, history, counters>>

\* ... and calls Create, which may have to wait for another operation first.
StartScheduled ==
    /\ due
    /\ Begin(Create("scheduled"))
    /\ due' = FALSE
    /\ UNCHANGED <<site, now, archives, pool, prunes, nextCheck, download, history>>

\* List is newest first; of two with one time either may come first.
Newest(a) == a \in archives /\ \A b \in archives : b.at <= a.at

GotoSnapshot == op' = [op EXCEPT !.step = "snapshot", !.at = now]

\* The fingerprint of the live site: the files first ...
PrintFiles(step) ==
    op' = [op EXCEPT !.print = site, !.step = step]

\* Mutant: the database is not part of the fingerprint.
WithRows_Mutant(print) == [print EXCEPT !.rows = CHOOSE r \in Rows : TRUE]

\* ... then the rows of the database.
WithRows(print) == [print EXCEPT !.rows = site.rows]

\* unchanged: hash the files (when there is an archive to compare them with) ...
Compare ==
    /\ At("compare")
    /\ IF archives = {} THEN GotoSnapshot ELSE PrintFiles("compare rows")
    /\ UNCHANGED <<site, now, archives, pool, callers, history, counters>>

EndOp == op' = NoOp

\* ... and the rows.  The newest archive has the same fingerprint: ErrUnchanged.
Unchanged ==
    /\ At("compare rows")
    /\ \E a \in archives :
         /\ Newest(a) /\ a.print = WithRows(op.print)
         /\ saved' = (op.calm /\ \A b \in archives \ {a} : b.at < a.at)
    /\ EndOp
    /\ nextCheck' = IF op.kind = "scheduled" THEN now + Interval ELSE nextCheck
    /\ UNCHANGED <<site, now, archives, pool, prunes, due, download, replaced, counters>>

Changed ==
    /\ At("compare rows")
    /\ \E a \in archives : Newest(a) /\ a.print # WithRows(op.print)
    /\ GotoSnapshot
    /\ UNCHANGED <<site, now, archives, pool, callers, history, counters>>

\* Not being able to tell is a reason to take the backup.
CannotTell ==
    /\ At("compare") \/ At("compare rows")
    /\ GotoSnapshot
    /\ UNCHANGED <<site, now, archives, pool, callers, history, counters>>

\* VACUUM INTO.
Snapshot ==
    /\ At("snapshot")
    /\ op' = [op EXCEPT !.copy = site, !.step = "files"]
    /\ UNCHANGED <<site, now, archives, pool, callers, history, counters>>

\* listTree of both trees, and the first half of the fingerprint.
ListFiles ==
    /\ At("files")
    /\ op' = [op EXCEPT !.print = site, !.copy.images = site.images, !.left = site.images,
                        !.step = "rows"]
    /\ UNCHANGED <<site, now, archives, pool, callers, history, counters>>

PrintRows ==
    /\ At("rows")
    /\ op' = [op EXCEPT !.print = WithRows(@), !.step = "tar"]
    /\ UNCHANGED <<site, now, archives, pool, callers, history, counters>>

\* The tar is written: content/ is read again.
WriteTar ==
    /\ At("tar")
    /\ op' = [op EXCEPT !.copy.content = site.content, !.step = "pool"]
    /\ UNCHANGED <<site, now, archives, pool, callers, history, counters>>

\* PutObject: an image that is not in the pool is linked into it.
PoolImage(i) ==
    /\ At("pool")
    /\ i \in op.left
    /\ i \in pool \cup site.images
    /\ pool' = pool \cup {i}
    /\ op' = [op EXCEPT !.left = @ \ {i}]
    /\ UNCHANGED <<site, now, archives, callers, history, counters>>

Ordinary == {a \in archives : a.kind # "pre-restore"}
SafetyCopies == {a \in archives : a.kind = "pre-restore"}

Taken(t, kind) == \E a \in archives : a.at = t /\ a.kind = kind

\* Mutant: a name that is taken is used again.
FreeTime_Mutant(t) == t = op.at

\* freeName: the first second, from the call of create on, that is not taken.
FreeTime(t) ==
    /\ ~Taken(t, op.kind)
    /\ \A u \in op.at..(t - 1) : Taken(u, op.kind)

\* Mutant: the archive is named before its images are in the pool.
Pooled_Mutant == At("pool")

Pooled == At("pool") /\ op.left = {}

\* The archive gets its name.  A caller of Create goes on to Prune; Restore goes on
\* to what it has taken this copy for.
Put ==
    /\ Pooled
    /\ \E t \in op.at..(op.at + Cardinality(archives)) :
         /\ FreeTime(t)
         /\ archives' = archives \cup {[at |-> t, kind |-> op.kind, site |-> op.copy,
                                        print |-> op.print, calm |-> op.calm]}
         /\ IF op.what = "create"
            THEN /\ EndOp
                 /\ prunes' = [prunes EXCEPT ![op.kind] = @ + 1]
                 /\ saved' = (op.calm /\ \A a \in archives : a.at < t)
                 /\ UNCHANGED replaced
            ELSE /\ op' = [op EXCEPT !.step = "content",
                                     !.newest = \A a \in SafetyCopies : a.at < t]
                 /\ replaced' = None
                 /\ UNCHANGED <<prunes, saved>>
    /\ UNCHANGED <<site, now, pool, due, nextCheck, download, counters>>

-----------------------------------------------------------------------------
(* Prune.                                                                    *)

\* Of the archives in set, the limit newest stay.
Oldest(set, limit) ==
    {drop \in SUBSET set :
        /\ IF Cardinality(set) <= limit THEN drop = {}
           ELSE Cardinality(set \ drop) = limit
        /\ \A a \in drop, b \in set \ drop : a.at <= b.at}

\* Mutant: one limit for all archives.
Dropped_Mutant == Oldest(archives, Keep)

\* selectForRemoval: ordinary archives and safety copies are counted separately.
Dropped == {o \cup s : o \in Oldest(Ordinary, Keep), s \in Oldest(SafetyCopies, Safety)}

\* The archives go; one that cannot be deleted stays and is passed over.
StartPrune ==
    /\ Free
    /\ \E kind \in DOMAIN prunes :
         /\ prunes[kind] > 0
         /\ prunes' = [prunes EXCEPT ![kind] = @ - 1]
    /\ op' = [NoOp EXCEPT !.what = "prune", !.step = "sweep"]
    /\ \E drop \in Dropped : \E gone \in SUBSET drop : archives' = archives \ gone
    /\ UNCHANGED <<site, now, pool, due, nextCheck, download, history, counters>>

\* Mutant: only the newest archives are asked what they need.
Named_Mutant == UNION {a.site.images : a \in {b \in archives : Newest(b)}}

\* referencedImages
Named == UNION {a.site.images : a \in archives}

\* sweepPool: images that no archive names go, unless they are minutes old or cannot
\* be deleted.
Sweep ==
    /\ At("sweep")
    /\ \E gone \in SUBSET (pool \ Named) : pool' = pool \ gone
    /\ EndOp
    /\ UNCHANGED <<site, now, archives, callers, history, counters>>

-----------------------------------------------------------------------------
(* Delete and Restore.                                                       *)

Delete(a) ==
    /\ Free
    /\ ops < MaxOps
    /\ ops' = ops + 1
    /\ archives' = archives \ {a}
    /\ saved' = FALSE
    /\ replaced' = IF a.kind = "pre-restore" THEN None ELSE replaced
    /\ UNCHANGED <<site, now, pool, op, callers, changes, crashes>>

StartRestore(a) ==
    /\ Begin([NoOp EXCEPT !.what = "restore", !.step = "unpack", !.kind = "pre-restore",
                          !.from = a])
    /\ UNCHANGED <<site, now, archives, pool, callers, history>>

\* Unpack into a directory of its own; fetch from the pool what the archive names.
Unpack ==
    /\ At("unpack")
    /\ op.from.site.images \subseteq pool
    /\ op' = [op EXCEPT !.step = "snapshot", !.at = now, !.calm = TRUE]
    /\ UNCHANGED <<site, now, archives, pool, callers, history, counters>>

\* syncTree of content/ copies file by file and removes the rest: from here on the live
\* site is being replaced.
BeginContent ==
    /\ At("content")
    /\ \E half \in Contents : site' = [site EXCEPT !.content = half]
    /\ Goto("content half")
    /\ saved' = FALSE
    /\ replaced' = IF op.calm /\ op.newest THEN site ELSE None
    /\ UNCHANGED <<now, archives, pool, callers, counters>>

SyncContent ==
    /\ At("content half")
    /\ site' = [site EXCEPT !.content = op.from.site.content]
    /\ Goto("images")
    /\ UNCHANGED <<now, archives, pool, callers, history, counters>>

\* syncTree of the images: those of the archive are copied, one by one ...
CopyImages ==
    /\ At("images")
    /\ \E some \in SUBSET op.from.site.images : site' = [site EXCEPT !.images = @ \cup some]
    /\ Goto("images half")
    /\ UNCHANGED <<now, archives, pool, callers, history, counters>>

\* Mutant: what the archive does not have is left in place.
Synced_Mutant(wanted) == site.images \cup wanted

\* ... all of them, and the others removed; but nothing is done when nothing was unpacked.
Synced(wanted) == IF wanted = {} THEN site.images ELSE wanted

SyncImages ==
    /\ At("images half")
    /\ site' = [site EXCEPT !.images = Synced(op.from.site.images)]
    /\ Goto("database")
    /\ UNCHANGED <<now, archives, pool, callers, history, counters>>

\* Store.ReplaceWith moves the archive's database into place ...
ReplaceDatabase ==
    /\ At("database")
    /\ site' = [site EXCEPT !.rows = op.from.site.rows]
    /\ Goto("restored")
    /\ UNCHANGED <<now, archives, pool, callers, history, counters>>

\* ... and where a file cannot be moved, copies it over the live one: an error halfway, or the
\* end of the process, leaves a part, which is the database from then on.
TearDatabase ==
    /\ At("database")
    /\ \E part \in Rows : site' = [site EXCEPT !.rows = part]
    /\ EndOp
    /\ UNCHANGED <<now, archives, pool, callers, history, counters>>

Restored ==
    /\ At("restored")
    /\ EndOp
    /\ UNCHANGED <<site, now, archives, pool, callers, history, counters>>

-----------------------------------------------------------------------------
(* Failures, downloads, crashes.                                             *)

\* Any step can fail; the operation ends where it is.
FailOp ==
    /\ ~Free /\ op.step \notin {"compare", "compare rows", "restored"}
    /\ EndOp
    /\ UNCHANGED <<site, now, archives, pool, callers, history, counters>>

\* Download reads the manifest and opens the archive ...
OpenDownload(a) ==
    /\ download = NoDownload
    /\ download' = [archive |-> a, left |-> a.site.images]
    /\ UNCHANGED <<site, now, archives, pool, op, prunes, due, nextCheck, history, counters>>

\* ... then sends one pooled image after the other ...
SendImage(i) ==
    /\ i \in download.left
    /\ i \in pool
    /\ download' = [download EXCEPT !.left = @ \ {i}]
    /\ UNCHANGED <<site, now, archives, pool, op, prunes, due, nextCheck, history, counters>>

\* ... until it is through, or the client has gone ...
EndDownload ==
    /\ download # NoDownload
    /\ download' = NoDownload
    /\ UNCHANGED <<site, now, archives, pool, op, prunes, due, nextCheck, history, counters>>

\* ... or finds one missing: what has been sent is a truncated file.
AbortDownload ==
    /\ download.left \ pool # {}
    /\ download' = NoDownload
    /\ UNCHANGED <<site, now, archives, pool, op, prunes, due, nextCheck, history, counters>>

Crash ==
    /\ crashes < MaxCrashes
    /\ crashes' = crashes + 1
    /\ EndOp
    /\ prunes' = NoPrunes
    /\ due' = FALSE
    /\ nextCheck' = 0
    /\ download' = NoDownload
    /\ UNCHANGED <<site, now, archives, pool, history, ops, changes>>

-----------------------------------------------------------------------------

CreateStep ==
    \/ Compare \/ Unchanged \/ Changed \/ CannotTell
    \/ Snapshot \/ ListFiles \/ PrintRows \/ WriteTar
    \/ \E i \in Images : PoolImage(i)
    \/ Put

RestoreStep ==
    \/ Unpack
    \/ BeginContent \/ SyncContent \/ CopyImages \/ SyncImages
    \/ ReplaceDatabase \/ TearDatabase
    \/ Restored

DownloadStep ==
    \/ \E a \in archives : OpenDownload(a)
    \/ \E i \in Images : SendImage(i)
    \/ EndDownload
    \/ AbortDownload

Next ==
    \/ \E s \in Edited : Change(s)
    \/ Tick
    \/ StartManual \/ FindDue \/ StartScheduled \/ CreateStep
    \/ StartPrune \/ Sweep
    \/ \E a \in archives : Delete(a) \/ StartRestore(a)
    \/ RestoreStep
    \/ FailOp
    \/ DownloadStep
    \/ Crash

Spec == Init /\ [][Next]_vars

-----------------------------------------------------------------------------
(* Properties.                                                              *)

CreateSteps == {"compare", "compare rows", "snapshot", "files", "rows", "tar", "pool"}
RestoreSteps == {"unpack", "content", "content half", "images", "images half", "database",
                 "restored"}

\* The variables have their types, and no two archives have one name (freeName).
BackupTypeOK ==
    /\ site \in Sites
    /\ now \in 0..MaxTime
    /\ \A a \in archives : a \in Archives
    /\ \A a, b \in archives : a.at = b.at /\ a.kind = b.kind => a = b
    /\ pool \subseteq Images
    /\ op.step \in CreateSteps \cup RestoreSteps \cup {"idle", "sweep"}
    /\ op.what \in {"none", "create", "restore", "prune"}
    /\ (op.what = "none") <=> (op = NoOp)
    /\ op.left \subseteq Images
    /\ op.at \in 0..now
    /\ prunes \in [{"scheduled", "manual"} -> Nat]
    /\ due \in BOOLEAN
    /\ download.left \subseteq Images
    /\ saved \in BOOLEAN
    /\ replaced \in Sites \cup {None}

\* pool.go, create: an archive is never listed while something it refers to is missing,
\* whatever is deleted, pruned and swept, and wherever an operation stops.
PoolComplete == \A a \in archives : a.site.images \subseteq pool

\* A restore chosen in error can be undone (README): from the moment it touches the live
\* site, through failures, crashes and pruning, until somebody deletes that copy or the
\* next restore has taken its own, there is an archive of exactly the site it has
\* replaced; unless the site changed while that archive was being taken, or freeName
\* gave it a second before that of an older one, so that Prune takes it for the older.
RestoreIsUndoable == replaced # None => \E a \in SafetyCopies : a.site = replaced

\* A restore that has come to its end has brought back what its archive holds, unless the
\* site was changed meanwhile; images stay when the archive has none.
RestoreBringsBack ==
    At("restored") /\ op.calm =>
        /\ site.content = op.from.site.content
        /\ site.rows = op.from.site.rows
        /\ op.from.site.images # {} => site.images = op.from.site.images

\* After a backup (or the answer that none was needed) of a site that has not changed
\* since, there is an archive of it, unless one with the same fingerprint was taken
\* while the site was changing.
QuietIsSaved ==
    saved => \E a \in archives : a.site = site \/ (~a.calm /\ a.print = site)

\* What the comment on Create says: no archive is written only if the newest one already
\* holds the site.
NothingGoesUnsaved == saved => \E a \in archives : a.site = site

\* A download fails over a missing image only when its archive was deleted meanwhile: what
\* is listed can be had, though downloads take no lock.
ListedCanBeDownloaded == [][AbortDownload => download.archive \notin archives]_vars
=============================================================================
