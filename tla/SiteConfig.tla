----------------------------- MODULE SiteConfig -----------------------------
(***************************************************************************)
(* content/site.yml and the copy of it that the process works with: the     *)
(* handlers that change it (internal/server/admin_site_lists.go and the     *)
(* files that call its mutateSite), the atomic pointer main.go swaps, and   *)
(* the pages that rebuilds make from that pointer.                          *)
(*                                                                         *)
(* A handler holds siteMu from its first reading of the file to its answer. *)
(* Rebuilds hold the engine's mutex and read the pointer once for each      *)
(* page.  An editor on the machine writes the file without any lock, and    *)
(* so does the restore of a backup (internal/backup/restore.go); the        *)
(* watcher rebuilds after each change, and the request that restores does,  *)
(* but nobody loads what they have written.                                 *)
(***************************************************************************)
EXTENDS Integers, Sequences

CONSTANTS
    Handlers,     \* goroutines of requests
    Watch,        \* the goroutine of watchLoop
    Restorers,    \* goroutines of requests that restore a backup
    Threads,      \* all that call Engine.Rebuild
    NoThread,     \* a free mutex
    NPages,       \* the public site has this many pages
    Blank,        \* a page not drawn (yet)
    Missing,      \* no site.yml
    Broken,       \* a site.yml that does not parse
    Refused,      \* a change that is answered with an error
    Looks,        \* title, bio, footer, links style, analytics and background together
    FirstLook,    \* those of a new site
    BadLooks,     \* those ValidateBackground or ValidateAnalytics rejects
    Entries,      \* what the lists name: pages, accounts, addresses of feeds
    Icons,        \* favicons
    Builtin,      \* the favicon of a site that has set none
    Edits,        \* the changes handlers are asked for
    HandEdits,    \* what the editor may leave in the file, and what backups hold
    DiskMayFill,  \* writes may fail
    MaxEdits, MaxHand, MaxFailures   \* bounds

ASSUME SiteConfigAssumption ==
    /\ Handlers \subseteq Threads /\ Watch \in Threads \ Handlers
    /\ Restorers \subseteq Threads \ (Handlers \cup {Watch})
    /\ NoThread \notin Threads
    /\ NPages \in Nat
    /\ BadLooks \subseteq Looks /\ FirstLook \in Looks \ BadLooks
    /\ {"search", "links"} \subseteq Entries /\ Builtin \in Icons
    /\ DiskMayFill \in BOOLEAN
    /\ {MaxEdits, MaxHand, MaxFailures} \subseteq Nat

\* In the order in which they are rendered.
Pages == 1..NPages

VARIABLES
    file,         \* site.yml
    live,         \* what d.Site() returns
    up,           \* the process runs
    siteMu,       \* Deps.siteMu: its holder
    builder,      \* holder of the engine's mutex, inside Rebuild
    drawn,        \* for each page, the configuration it was drawn from
    served,       \* the same, of the generation readers get
    job,          \* the locals of mutateSite, for each handler
    event,        \* the watcher's debounce timer is armed
    begunSince,   \* BuildStartedAt().After(lastEvent), while the timer is armed
    watchPC,      \* watchLoop waits, or is about to rebuild, or is inside
    restore,      \* the same of each restore, once its files are in place
    lastErr,      \* the last rebuild failed
    expected,     \* history: the file that the answered changes lead to
    outside,      \* history: the file was written past the process, and not loaded since
    excused,      \* history: "file": that was between a handler's steps, or a rollback could not
                  \* write; "pages": a rebuild began inside a rollback
    edits, hand, failures   \* counters for the bounds (hand: restores too; failures: crashes too)

fileVars  == <<file, event, begunSince>>
buildVars == <<builder, drawn, served, failures, lastErr>>
otherVars == <<watchPC, restore>>
ghostVars == <<expected, excused, outside>>
boundVars == <<edits, hand>>
siteVars  == <<fileVars, live, up, siteMu, buildVars, job, otherVars, ghostVars, boundVars>>

-----------------------------------------------------------------------------
(* What the handlers do to a configuration.  Lists are edited by position;  *)
(* a position out of range is refused.                                       *)

\* Default: what a new site starts from.
Default == [nav |-> <<"search", "links">>, social |-> <<>>, feeds |-> <<>>,
            look |-> FirstLook, icon |-> Builtin]

Feed(url, on) == [url |-> url, on |-> on]

Feeds   == [url : Entries, on : BOOLEAN]
Configs == [nav : Seq(Entries), social : Seq(Entries), feeds : Seq(Feeds), look : Looks, icon : Icons]

\* c with its section s replaced, or refused along with the new list.
With(c, s, list) == IF list = Refused THEN Refused ELSE [c EXCEPT ![s] = list]

\* removeAt (positions count from 1 here)
Without(list, i) ==
    IF i \in DOMAIN list THEN SubSeq(list, 1, i - 1) \o SubSeq(list, i + 1, Len(list))
    ELSE Refused

\* moveDelta: anything but "up" is down.
MoveDelta(dir) == IF dir = "up" THEN -1 ELSE 1

\* swapAt: a move over either end is answered as done.
Swapped(list, i, dir) ==
    LET j == i + MoveDelta(dir) IN
    IF i \notin DOMAIN list THEN Refused
    ELSE IF j \notin DOMAIN list THEN list ELSE [list EXCEPT ![i] = list[j], ![j] = list[i]]

NavAdd(c, x)     == With(c, "nav", Append(c.nav, x))
NavRemove(c, i)  == With(c, "nav", Without(c.nav, i))
NavMove(c, i, d) == With(c, "nav", Swapped(c.nav, i, d))

SocialAdd(c, x)     == With(c, "social", Append(c.social, x))
SocialRemove(c, i)  == With(c, "social", Without(c.social, i))
SocialMove(c, i, d) == With(c, "social", Swapped(c.social, i, d))

FeedAdd(c, url) ==
    IF \E i \in DOMAIN c.feeds : c.feeds[i].url = url THEN Refused
    ELSE With(c, "feeds", Append(c.feeds, Feed(url, TRUE)))
FeedRemove(c, i) == With(c, "feeds", Without(c.feeds, i))
FeedToggle(c, i) ==
    IF i \notin DOMAIN c.feeds THEN Refused
    ELSE [c EXCEPT !.feeds[i].on = ~c.feeds[i].on]

\* updateSiteSection, for the tools and PUT /api/v1/site/{section}: the list as a whole.
ReplaceSection(c, s, list) == With(c, s, list)

\* adminSiteSave, adminLinksStyle and adminBackgroundSave set plain fields.
SetLook(c, x)    == [c EXCEPT !.look = x]
SetFavicon(c, x) == [c EXCEPT !.icon = x]

\* An edit names what a request asks for: operation, value, position, list.
Apply(e, c) ==
    CASE e.op = "navAdd"       -> NavAdd(c, e.x)
      [] e.op = "navRemove"    -> NavRemove(c, e.i)
      [] e.op = "navMove"      -> NavMove(c, e.i, e.x)
      [] e.op = "socialAdd"    -> SocialAdd(c, e.x)
      [] e.op = "socialRemove" -> SocialRemove(c, e.i)
      [] e.op = "socialMove"   -> SocialMove(c, e.i, e.x)
      [] e.op = "feedAdd"      -> FeedAdd(c, e.x)
      [] e.op = "feedRemove"   -> FeedRemove(c, e.i)
      [] e.op = "feedToggle"   -> FeedToggle(c, e.i)
      [] e.op = "replace"      -> ReplaceSection(c, e.x, e.list)
      [] e.op = "look"         -> SetLook(c, e.x)
      [] e.op = "favicon"      -> SetFavicon(c, e.x)

\* What requests may carry: the forms offer fields for these, and check them.
WellFormed(e) ==
    \/ e.op \in {"navAdd", "socialAdd", "feedAdd"} /\ e.x \in Entries
    \/ e.op \in {"navRemove", "socialRemove", "feedRemove", "feedToggle", "navMove", "socialMove"}
    \/ e.op = "replace" /\ e.x \in {"nav", "social"} /\ e.list \in Seq(Entries)
    \/ e.op = "replace" /\ e.x = "feeds" /\ e.list \in Seq(Feeds)
    \/ e.op = "look" /\ e.x \in Looks
    \/ e.op = "favicon" /\ e.x \in Icons

ASSUME EditsAssumption ==
    /\ \A e \in Edits : WellFormed(e)
    /\ HandEdits \subseteq Configs \cup {Broken}
    /\ Missing \notin Configs /\ Broken \notin Configs

\* Save validates the background it is about to write, whoever put it there.
Valid(c) == c.look \notin BadLooks

Loads(f) == f \notin {Missing, Broken}

-----------------------------------------------------------------------------
(* mutateSite.                                                               *)

NoJob == [at |-> "idle", edit |-> Blank, original |-> Blank, new |-> Blank]

SiteInit ==
    /\ file \in HandEdits \cup {Missing}
    /\ live = Blank /\ up = FALSE
    /\ siteMu = NoThread /\ builder = NoThread
    /\ drawn = [p \in Pages |-> Blank] /\ served = [p \in Pages |-> Blank]
    /\ job = [h \in Handlers |-> NoJob]
    /\ event = FALSE /\ begunSince = FALSE /\ watchPC = "wait"
    /\ restore = [r \in Restorers |-> "idle"] /\ lastErr = FALSE
    /\ expected = file /\ excused = {} /\ outside = FALSE
    /\ edits = 0 /\ hand = 0 /\ failures = 0

At(h, step)   == job[h].at = step
Goto(h, step) == job' = [job EXCEPT ![h].at = step]

\* Mutant: the time of the last event is taken when the timer is armed, and stays.
WriteFile_Mutant(f) == file' = f /\ event' = up /\ UNCHANGED begunSince

\* site.yml is renamed into place; the watcher sees that.
WriteFile(f) == file' = f /\ event' = up /\ begunSince' = FALSE

\* Mutant: each handler works on a lock of its own.
LockSite_Mutant(h) == siteMu' = h

LockSite(h) == siteMu = NoThread /\ siteMu' = h

UnlockSite(h) == siteMu' = NoThread /\ job' = [job EXCEPT ![h] = NoJob]

\* The lock, and the bytes a rollback will write back.
ReadOriginal(h, e) ==
    /\ up /\ edits < MaxEdits
    /\ At(h, "idle")
    /\ LockSite(h)
    /\ edits' = edits + 1
    /\ job' = [job EXCEPT ![h] = [at |-> "load", edit |-> e, original |-> file, new |-> Blank]]
    /\ UNCHANGED <<fileVars, live, up, buildVars, otherVars, ghostVars, hand>>

\* fn is given the configuration freshly parsed from the file.
LoadAndApply(h) ==
    /\ At(h, "load")
    /\ IF ~Loads(file) \/ Apply(job[h].edit, file) = Refused
       THEN UnlockSite(h)
       ELSE /\ job' = [job EXCEPT ![h].new = Apply(job[h].edit, file), ![h].at = "save"]
            /\ UNCHANGED siteMu
    /\ UNCHANGED <<fileVars, live, up, buildVars, otherVars, ghostVars, boundVars>>

SaveFile(h) ==
    /\ At(h, "save")
    /\ \/ /\ Valid(job[h].new)
          /\ WriteFile(job[h].new) /\ Goto(h, "reload") /\ UNCHANGED siteMu
       \/ /\ ~Valid(job[h].new) \/ DiskMayFill
          /\ UnlockSite(h) /\ UNCHANGED fileVars
    /\ UNCHANGED <<live, up, buildVars, otherVars, ghostVars, boundVars>>

\* ReloadSite reads the file once more and swaps the pointer.
Reload(h) ==
    /\ At(h, "reload")
    /\ IF Loads(file) THEN live' = file /\ outside' = FALSE /\ Goto(h, "build")
       ELSE UNCHANGED <<live, outside>> /\ Goto(h, "rollback")
    /\ UNCHANGED <<fileVars, up, siteMu, buildVars, otherVars, expected, excused, boundVars>>

\* The rollback writes the original bytes back; an error is ignored.
RollBackFile(h) ==
    /\ At(h, "rollback")
    /\ \/ WriteFile(job[h].original) /\ UNCHANGED excused
       \/ DiskMayFill /\ excused' = excused \cup {"file"} /\ UNCHANGED fileVars
    /\ outside' = (outside \/ ~Loads(file'))
    /\ Goto(h, "reloadOld")
    /\ UNCHANGED <<live, up, siteMu, buildVars, otherVars, expected, boundVars>>

\* ... and the pointer follows; nothing is rebuilt.
ReloadOld(h) ==
    /\ At(h, "reloadOld")
    /\ IF Loads(file) THEN live' = file /\ outside' = FALSE ELSE UNCHANGED <<live, outside>>
    /\ UnlockSite(h)
    /\ UNCHANGED <<fileVars, up, buildVars, otherVars, expected, excused, boundVars>>

-----------------------------------------------------------------------------
(* Rebuilds, as far as the configuration goes.                               *)

MayBuild(t) ==
    /\ t \in Handlers => At(t, "build")
    /\ t = Watch => watchPC = "build"
    /\ t \in Restorers => restore[t] = "build"

BeginBuild(t) ==
    /\ up /\ MayBuild(t)
    /\ builder = NoThread
    /\ builder' = t
    /\ begunSince' = event
    /\ IF t \in Handlers THEN Goto(t, "building") ELSE UNCHANGED job
    /\ watchPC' = IF t = Watch THEN "building" ELSE watchPC
    /\ restore' = [r \in Restorers |-> IF r = t THEN "building" ELSE restore[r]]
    /\ excused' = IF \E h \in Handlers : At(h, "reloadOld") THEN excused \cup {"pages"} ELSE excused
    /\ UNCHANGED <<file, event, live, up, siteMu, drawn, served, failures, lastErr, expected, outside,
                   boundVars>>

\* Each render function loads the pointer for itself.
Draw(p) ==
    /\ builder # NoThread /\ drawn[p] = Blank
    /\ \A q \in Pages : q < p => drawn[q] # Blank
    /\ drawn' = [drawn EXCEPT ![p] = live]
    /\ UNCHANGED <<fileVars, live, up, siteMu, builder, served, failures, lastErr, job, otherVars,
                   ghostVars, boundVars>>

AllDrawn == \A p \in Pages : drawn[p] # Blank

\* Rebuild returns; the handler it belongs to answers, or rolls back.  A restore answers
\* either way, and takes nothing back.
EndBuild(ok) ==
    /\ builder' = NoThread /\ drawn' = [p \in Pages |-> Blank]
    /\ watchPC' = IF builder = Watch THEN "wait" ELSE watchPC
    /\ restore' = [r \in Restorers |-> IF r = builder THEN "idle" ELSE restore[r]]
    /\ lastErr' = ~ok
    /\ IF builder \in Handlers
       THEN IF ok
            THEN /\ UnlockSite(builder)
                 /\ expected' = IF "file" \in excused THEN file ELSE Apply(job[builder].edit, expected)
            ELSE Goto(builder, "rollback") /\ UNCHANGED <<siteMu, expected>>
       ELSE UNCHANGED <<job, siteMu, expected>>
    /\ UNCHANGED <<fileVars, live, up, excused, outside, boundVars>>

PublishSite ==
    /\ builder # NoThread /\ AllDrawn
    /\ served' = drawn
    /\ UNCHANGED failures
    /\ EndBuild(TRUE)

FailBuild ==
    /\ builder # NoThread /\ failures < MaxFailures
    /\ failures' = failures + 1
    /\ UNCHANGED served
    /\ EndBuild(FALSE)

\* The debounce timer: a rebuild that began after the last event makes this one needless.
WatchFires ==
    /\ up /\ event /\ watchPC = "wait"
    /\ event' = FALSE /\ begunSince' = FALSE
    /\ watchPC' = IF begunSince THEN "wait" ELSE "build"
    /\ UNCHANGED <<file, live, up, siteMu, buildVars, job, restore, ghostVars, boundVars>>

-----------------------------------------------------------------------------
(* The rest of the world.                                                    *)

\* site.yml is replaced by somebody who takes no lock and does not reload.
WriteOutside(f) ==
    /\ WriteFile(f)
    /\ expected' = f /\ outside' = TRUE
    /\ excused' = IF siteMu = NoThread THEN excused ELSE excused \cup {"file"}

\* Somebody saves site.yml in an editor.
HandEdit(f) ==
    /\ hand < MaxHand /\ f # file
    /\ hand' = hand + 1
    /\ WriteOutside(f)
    /\ UNCHANGED <<live, up, siteMu, buildVars, job, otherVars, edits>>

\* Backups.Restore puts the backup's site.yml in its place.  adminBackupRestore rebuilds, unless
\* a later part of the restore fails: then the file stays, and the request answers with the error.
RestoreFile(r, f) ==
    /\ up /\ hand < MaxHand
    /\ restore[r] = "idle"
    /\ hand' = hand + 1
    /\ WriteOutside(f)
    /\ \E next \in {"build", "idle"} : restore' = [restore EXCEPT ![r] = next]
    /\ UNCHANGED <<live, up, siteMu, buildVars, job, watchPC, edits>>

Stop ==
    /\ up /\ failures < MaxFailures
    /\ failures' = failures + 1
    /\ up' = FALSE
    /\ live' = Blank
    /\ siteMu' = NoThread /\ builder' = NoThread
    /\ drawn' = [p \in Pages |-> Blank] /\ served' = [p \in Pages |-> Blank]
    /\ job' = [h \in Handlers |-> NoJob]
    /\ event' = FALSE /\ begunSince' = FALSE /\ watchPC' = "wait"
    /\ restore' = [r \in Restorers |-> "idle"] /\ lastErr' = FALSE
    /\ expected' = file /\ outside' = FALSE
    /\ UNCHANGED <<file, excused, boundVars>>

\* main: LoadOrSeed, the pointer, and the rebuild that comes before everything else.
\* Over a broken file the process exits.
Boot ==
    /\ ~up /\ file # Broken
    /\ up' = TRUE
    /\ LET found == IF file = Missing THEN Default ELSE file IN
         /\ file' = found /\ live' = found /\ expected' = found
         /\ served' = [p \in Pages |-> found]
    /\ UNCHANGED <<event, begunSince, siteMu, builder, drawn, failures, lastErr, job, otherVars, excused,
                   outside, boundVars>>

MutateStep(h) ==
    LoadAndApply(h) \/ SaveFile(h) \/ Reload(h) \/ RollBackFile(h) \/ ReloadOld(h)

SiteStep ==
    \/ \E h \in Handlers : (\E e \in Edits : ReadOriginal(h, e)) \/ MutateStep(h)
    \/ WatchFires
    \/ \E f \in HandEdits \cup {Broken} : HandEdit(f)

SiteNext ==
    \/ SiteStep
    \/ \E r \in Restorers, f \in HandEdits \cup {Broken} : RestoreFile(r, f)
    \/ \E t \in Threads : BeginBuild(t)
    \/ \E p \in Pages : Draw(p)
    \/ PublishSite \/ FailBuild
    \/ Stop \/ Boot

SiteSpec == SiteInit /\ [][SiteNext]_siteVars

\* What goes on without anybody asking for it: handlers inside mutateSite, the watcher's
\* timer, a rebuild to its end.
SiteProgress ==
    \/ \E h \in Handlers : MutateStep(h)
    \/ WatchFires
    \/ \E t \in Threads : BeginBuild(t)
    \/ (\E p \in Pages : Draw(p)) \/ PublishSite

\* The process does not stand still while one of them can go on.  Nothing is said of which.
FairSiteSpec == SiteSpec /\ WF_siteVars(SiteProgress)

-----------------------------------------------------------------------------
(* Properties.                                                              *)

\* Between two changes site.yml is what the answered changes lead to, applied one after
\* the other to what was there: none is lost to another handler that read the file before
\* it, none is applied twice, one that failed has left no trace, and what was written past
\* the process between two requests, by hand or by the restore of a backup, stays (the claim
\* of adminSiteSave's comment).  Only after such a write is the configuration in memory not
\* that of the file, until the next change or start loads it.
ChangesAreKept ==
    up /\ siteMu = NoThread /\ "file" \notin excused => file = expected /\ (~outside => live = file)

\* Readers are shown the configuration the process works with: pages drawn from one that
\* was given up, and a site drawn half from each of two, are replaced; and it is that of
\* the file, unless somebody wrote past the process.  A failed rebuild of a handler is recovered
\* from, since the rollback's own write raises an event; one that nobody repeats is the last
\* there was, and a rebuild that begins between that write and the reload makes the watcher
\* skip what it has not read.
ReadersCatchUp ==
    [](up => <>(\/ ~up \/ "pages" \in excused \/ lastErr
                \/ (\A p \in Pages : served[p] = live) /\ (outside \/ live = file)))
=============================================================================
