------------------------------ MODULE SiteBuild ------------------------------
(***************************************************************************)
(* What Engine.Rebuild promises to its callers, without saying how.         *)
(*                                                                         *)
(* Rebuilds run one at a time.  Each reads the posts directory, file by     *)
(* file, after it has begun, and either replaces the whole public site by   *)
(* the published part of what it read, in one step, or changes nothing.     *)
(* The site does not exist until the rebuild of main's startup succeeds,    *)
(* and is gone when the process ends.                                       *)
(*                                                                         *)
(* Module Engine implements this with generation directories, a search      *)
(* index and one step per page.                                             *)
(***************************************************************************)
EXTENDS Content

CONSTANTS
    Threads,      \* the goroutines that call Rebuild
    Main,         \* the one that runs main(), whose rebuild comes first
    NoThread,     \* the engine's mutex is free
    NoSite,       \* nothing is being served
    MaxTime,      \* bound: the clock stops here
    MaxFailures   \* bound: rebuilds that fail for a reason outside the posts

ASSUME SiteBuildAssumption ==
    /\ Main \in Threads
    /\ NoThread \notin Threads
    /\ NoSite \notin Sites
    /\ MaxTime \in Nat
    /\ MaxFailures \in Nat

VARIABLES
    source,       \* the posts directory
    now,          \* the clock
    site,         \* what readers are served: the posts of the current generation
    nextPublish,  \* Engine.nextPublish
    lastErr,      \* Engine.lastErr # ""
    builder,      \* holder of Engine.mu inside Rebuild
    phase,        \* how far its rebuild has come
    left,         \* files listed by LoadArticles and not read yet
    snap,         \* the files read so far
    chosen,       \* the published part of snap
    due,          \* the rebuild's local variable next
    failures      \* rebuilds that have failed for a reason outside the posts

envVars == <<source, now>>
jobVars == <<builder, phase, left, snap, chosen, due>>
sbVars  == <<source, now, site, nextPublish, lastErr, jobVars, failures>>

Phases == {"idle", "begun", "read", "render"}

\* The locals of a rebuild that is not running.
NoJob ==
    /\ builder = NoThread
    /\ phase = "idle"
    /\ left = {}
    /\ snap = NoPosts
    /\ chosen = NoArticles
    /\ due = 0

\* Mutant: the files of the last rebuild are kept as a cache.
EndJob_Mutant ==
    /\ builder' = NoThread
    /\ phase' = "idle"
    /\ left' = {}
    /\ snap' = snap
    /\ chosen' = NoArticles
    /\ due' = 0

EndJob ==
    /\ builder' = NoThread
    /\ phase' = "idle"
    /\ left' = {}
    /\ snap' = NoPosts
    /\ chosen' = NoArticles
    /\ due' = 0

Init ==
    /\ source \in Snapshots
    /\ now = 0
    /\ site = NoSite
    /\ nextPublish = 0
    /\ lastErr = FALSE
    /\ NoJob
    /\ failures = 0

\* Somebody creates, replaces or removes a post file: a handler of the server,
\* an editor on the machine, a git checkout.
Edit(p, c) ==
    /\ source[p] # c
    /\ source' = [source EXCEPT ![p] = c]
    /\ UNCHANGED <<now, site, nextPublish, lastErr, jobVars, failures>>

\* A post file gets another name: an update that changes its date, or a mv.  A file of
\* that name is replaced.
Move(p, q) ==
    /\ p # q /\ source[p] # Absent
    /\ source' = [source EXCEPT ![q] = source[p], ![p] = Absent]
    /\ UNCHANGED <<now, site, nextPublish, lastErr, jobVars, failures>>

Tick ==
    /\ now < MaxTime
    /\ now' = now + 1
    /\ UNCHANGED <<source, site, nextPublish, lastErr, jobVars, failures>>

\* Rebuild takes the mutex.  Until the first rebuild has succeeded only main runs.
Begin(t) ==
    /\ builder = NoThread
    /\ site = NoSite => t = Main
    /\ builder' = t
    /\ phase' = "begun"
    /\ UNCHANGED <<envVars, site, nextPublish, lastErr, left, snap, chosen, due, failures>>

\* LoadArticles lists the directory, then reads the files one after the other.
List ==
    /\ phase = "begun"
    /\ phase' = "read"
    /\ left' = {p \in Posts : source[p] # Absent}
    /\ UNCHANGED <<envVars, site, nextPublish, lastErr, builder, snap, chosen, due, failures>>

\* The file is still there, its front matter parses, and no file read before it has
\* the same slug.
Readable(p) == source[p] \in Contents \ Malformed /\ ~Clashes(snap, p)

Read(p) ==
    /\ phase = "read"
    /\ p \in left
    /\ Readable(p)
    /\ left' = left \ {p}
    /\ snap' = [snap EXCEPT ![p] = source[p]]
    /\ UNCHANGED <<envVars, site, nextPublish, lastErr, builder, phase, chosen, due, failures>>

\* Everything is read: the clock decides which of it is public.
Choose ==
    /\ phase = "read"
    /\ left = {}
    /\ phase' = "render"
    /\ chosen' = Published(snap, now)
    /\ due' = NextDue(snap, now)
    /\ UNCHANGED <<envVars, site, nextPublish, lastErr, builder, left, snap, failures>>

Publish ==
    /\ phase = "render"
    /\ site' = chosen
    /\ nextPublish' = due
    /\ lastErr' = FALSE
    /\ EndJob
    /\ UNCHANGED <<envVars, failures>>

\* A listed file that is not Readable ends the rebuild, and so does a published one
\* that is gone when its markdown copy is to be made.
UnreadablePost ==
    \/ /\ phase = "read"
       /\ \E p \in left : ~Readable(p)
    \/ /\ phase = "render"
       /\ \E p \in Posts : snap[p] # Absent /\ source[p] = Absent

\* A rebuild fails over the posts, or over anything else (templates, the disk, the
\* database).  The site stays what it was; at startup the process exits, and the
\* error with it.
Fail ==
    /\ builder # NoThread
    /\ \/ UnreadablePost /\ UNCHANGED failures
       \/ failures < MaxFailures /\ failures' = failures + 1
    /\ lastErr' = (site # NoSite)
    /\ EndJob
    /\ UNCHANGED <<envVars, site, nextPublish>>

\* The process dies; what it held in memory is gone.
Crash ==
    /\ site' = NoSite
    /\ nextPublish' = 0
    /\ lastErr' = FALSE
    /\ EndJob
    /\ UNCHANGED <<envVars, failures>>

Build ==
    \/ List
    \/ \E p \in Posts : Read(p)
    \/ Choose
    \/ Publish

Next ==
    \/ \E p \in Posts, c \in Contents \cup {Absent} : Edit(p, c)
    \/ \E p, q \in Posts : Move(p, q)
    \/ Tick
    \/ \E t \in Threads : Begin(t)
    \/ Build
    \/ Fail
    \/ Crash

Spec == Init /\ [][Next]_sbVars
=============================================================================
