# Verification of dtcom

dtcom is one Go process that turns a directory of markdown posts into a public
site and serves it, with an admin interface, a REST API and an MCP server that
change the posts. This directory holds TLA+ models of every component of it that
keeps state, TLC configurations that check them on small instances, and proofs,
checked by TLAPS, of their safety properties for instances of every size.

Paths below are relative to `src/internal/` unless they start with `src/`.

## 1. The system

| component | where | state | operations |
| --- | --- | --- | --- |
| Rebuild engine | `build/build.go`, `build/article.go`, `store/articles.go` | generation directories under `public/`, the active and the retired one, table `articles_fts`, `nextPublish`, last error, the mutex `mu` | `Rebuild`; `Preview`, `PreviewHome` (read only) |
| Public serving | `server/public.go` | none: a request resolves the active generation, then opens a file in it | GET of pages, feed, markdown copies |
| Watcher and loops | `watcher/watcher.go`, `main.go` | the event channel (64), the debounce timer, the time of the last event | events, timer, 15 s schedule tick |
| Article operations | `server/api.go`, `server/admin_activity.go` | post files, under `postMu` | create, update, delete, undo |
| Audit log | `store/audit.go` | table `article_audit` | one row per operation that succeeded |
| Backups | `backup/`, `store/backup.go`, `server/admin_backups.go`, `main.go` | archives, the image pool, retention, under `Service.mu` | create, prune, restore, delete, download |
| Site configuration | `siteconfig/`, `server/siteconfig_handlers.go`, `server/admin_site_lists.go` | `site.yml` under `siteMu`, an atomic pointer to the parsed copy | save, add, move, toggle and remove list entries, roll back, reload |
| Media | `server/images.go`, `server/favicon.go`, `server/admin_media.go`, `build/imageset.go` | masters and renditions in `data/images`, the image index of the engine | upload, cut renditions, backfill, delete (`siteMu`, then `postMu`) |
| Links and feeds | `store/links.go`, `feeds/` | table `links` | add, list, remove, poll |
| Webmentions | `webmention/`, `store/webmentions.go` | table `webmentions` | receive, verify, moderate, send |
| PGP key cache | `pgp/cache.go` | `pgp.json`, one key | resolve, refresh |
| Rate limiter | `server/ratelimit.go` | a bucket for each client | allow, sweep |
| Authentication | `auth/auth.go` | used TOTP steps; signed cookies that are kept nowhere | login, check, logout |
| API tokens | `store/tokens.go`, `server/helpers.go` | table `api_tokens`, times of last use in memory | mint, look up, record a use, revoke |
| Agents' tools | `server/mcp.go`, `server/api.go` | the list of resources | article tools with scopes and revisions; list of resources; otherwise the operations above |
| View counting | `store/views.go`, `server/public.go`, `server/admin.go` | table `views` | beacon, reading time, dashboard |
| Rendering | `markdown/`, `build/ogimage.go`, templates | none | functions of their input |

How they interact. Every change ends in `Engine.Rebuild`, which serialises on
`Engine.mu`: article operations call it while holding `postMu`, the watcher
after a burst of file events, the schedule when an article is due, the feed
poller after an import, a restore when its files are in place, and media and restore
after new renditions. The engine reads
the posts from disk each time; nobody tells it what has changed. The watcher
sees the writes of the handlers too, and drops the rebuild when another has
begun since the event. Readers take no lock at all: one atomic pointer names
the generation to read from. Two writers take none of the locks that the handlers share:
somebody who edits files on the machine, and the restore of a backup, which has the lock
of the backups only. Neither loads `site.yml` into the process.

What is hard about it: edits of files between any two steps of a rebuild; a
failure after half of one; a process killed with a stage on disk, or with a post
half renamed; events arriving while the loop that waits for them is inside a
rebuild; a rollback of a file that another goroutine's rebuild has already
published; read-modify-write of files and rows whose reader was answered long
before the write; goroutines that act on what they fetched a while ago; a history
that lives in memory and ends with the process; a restore that exchanges posts,
`site.yml`, pictures and tables under handlers that have looked at them; several queries that are shown as
one answer; locks taken in pairs. `PROJECT.json` lists these hazards at the lines where they bite.

What makes each component correct:

* engine: what is served is one whole snapshot of what was read after the rebuild
  began, nothing early, nothing left over, and the search index goes with it;
* loops: no change is forgotten, and a scheduled article appears by itself;
* articles: no lost update, no two files with one slug, a failed operation
  changes nothing, a crash leaves the old or the new version, the audit log is
  the history and undo goes back along it;
* backups: every archive can be restored whole, a restore can be undone, and
  nothing that has changed goes unsaved;
* site configuration: no change lost or half undone, memory and file differ only after
  a write past the process, and readers are shown what the process works with;
* media: no picture deleted that a request has put to use, renditions shown once they are there, no
  two requests waiting for one another;
* links, webmentions, key: the public page is the newest of the table, a decision of the operator
  stays, nobody is told twice, an outage changes nothing;
* limiter, logins, tokens: never more than allowed, a code works once, the last use
  is shown;
* agents, views: what a call does not name stays as it is; what is shown as parts of
  a whole adds up.

## 2. Modules

| module | models | instances |
| --- | --- | --- |
| `Content` | posts, drafts, schedules, slugs; what of a directory is public | |
| `SiteBuild` | what `Rebuild` promises: reads after it began, replaces the site in one step or not at all | |
| `Engine` | `Rebuild` step by step on generations; requests; crashes | `MCEngine` |
| `EngineProofs`, `EngineRefinement` | theorems about `Engine` | |
| `Loops` | watcher, `watchLoop`, `scheduleLoop`, startup, on top of `SiteBuild` | `MCLoops` |
| `LoopsProofs` | theorems about `Loops` | |
| `Articles` | create, update, delete, undo, audit log, on top of `SiteBuild` | `MCArticles` |
| `ArticlesProofs` | theorems about `Articles` | |
| `Backup` | create, prune, delete, restore, download, the backup loop | `MCBackup` |
| `BackupProofs` | theorems about `Backup` | |
| `SiteConfig` | changes of `site.yml`, the pointer, the watcher, rebuilds page by page | `MCSite` |
| `Media` | pictures, renditions, posts that use them, deletion, on top of `SiteConfig` | `MCMedia` |
| `SiteProofs` | theorems about `SiteConfig` and `Media` | |
| `Links`, `Webmentions`, `KeyCache` | what reaches the site from outside | `MCServer` |
| `Limiter`, `Login`, `Tokens` | what stands between a request and its handler | `MCServer` |
| `Agents`, `Resources`, `Views` | tools, their list of posts, the statistics | `MCServer`, `MCAgents` |
| `ServerProofs` | theorems about `Links`, `Webmentions`, `KeyCache`, `Agents`, `Resources` | |
| `AccessProofs` | theorems about `Limiter`, `Login`, `Tokens`, `Views` | |

`Engine` implements `SiteBuild` (checked and proved), so `Loops` and `Articles`
use the abstract rebuild and stay small; what they do besides is, for a rebuild, an
edit or a renaming of a post file, and `SiteBuild` allows for those at any moment
(proved: both implement `SiteBuild`). `SiteConfig` needs more of a rebuild than
`SiteBuild` says, since each page reads the pointer when its turn comes, and has its
own; `Media` adds the pictures to it. The nine modules of `MCServer` share no state
in the code either (a behaviour of it runs one of them, so their state spaces add
up); what a rebuild is to `Links` and `KeyCache` is there reduced to the moment at
which it reads the table or resolves the key.

### Content and data

A post file is a name (`Posts`) holding a content (`Contents`) or nothing
(`Absent`). Equal contents are equal bytes, which is what `Article.Revision`, a
hash, stands for. Of the front matter the engine acts on whether it parses
(`Malformed`), `draft` (`Drafts`) and `publish_at` (`PublishAt`). `SlugOf` is
`slugFromFilename`; two names may share a slug. Bodies, titles and templates
are not represented: a page is what it was rendered from.

### Engine

| variable | in the code |
| --- | --- |
| `dir` | `PublicDir` and the generations under it; each a function from files to what they were rendered from, or `NoDir` |
| `active`, `retired`, `stage` | `activeDir`, `retiredDir`, `outputDir` |
| `index` | table `articles_fts` |
| `nextPublish`, `lastErr` | the fields of those names |
| `builder` | the holder of `mu` |
| `phase`, `left`, `snap`, `chosen`, `due`, `written` | how far `Rebuild` is; the files still to be read, `arts`, `published`, `next`, `written` |
| `held` | the generation each request in flight has resolved |

`Begin` is the lock, the sweep of the generations of a dead process, `MkdirTemp`
and `cloneTree`. `List` and `Read` are `LoadArticles`, one file at a time, with
edits in between. `Choose` reads the clock. `RenderArticle` writes the page of
one article and its markdown copy, for which the code reads the file a second
time; `RenderPage` one of the pages made from all articles, after all articles.
`Prune`, `Reindex` and `Switch` follow. `Fail` may happen anywhere up to the
commit of the index, with the deferred removal of the stage. `Crash` forgets
what is in memory. The order in which files are read and pages rendered is left
open; the code's order is one of those. `Edit` and `Move` are what others do to the
posts meanwhile: write or remove a file, or rename one, as an update with a new date does.

Links and temporary files: `writeAtomic` renames over a hard link, so a stage
never changes the files of the generation it was cloned from; in the model the
clone is a copy.

### Loops

Kernel events are a counter, since `watchLoop` ignores which file they are
about. `beganSince` stands for `BuildStartedAt().After(lastEvent)`: false from
an event on, true from the next start of a rebuild on. The event and the
goroutine that sends it are one step (`Change`), the 64 places of the channel
are not a limit because the sender waits. `missed` is a history variable for
changes that raised no event because nobody was watching.

### Articles

`job[h]` holds the locals of the operation of handler `h` and `at`, its next
step; each system call on a post file is a step of its own, and so are the
rebuild, the roll-back and the audit row. The renaming of `RenameToDate` may fail, which
the code logs: the file keeps its name and the operation goes on. The lookup by `findArticleBySlug` and
the check of the revision are one step: they read and decide nothing else.
`past`, `origin` and `gap` are history variables for the properties. At the start
every post parses, carries the date of its front matter in its name and has its slug for
itself (`TidyInit`), which is how handlers leave them. Requests
that are refused before they change anything are left out.

### Backup

| variable | in the code |
| --- | --- |
| `site` | what is backed up: `content/` as a whole, the image masters, the rows `ContentFingerprint` covers |
| `archives` | the archives `List` finds: time and kind (the name), what they hold, the site their fingerprint was made from |
| `pool` | `images/` at the destination |
| `op` | the holder of `Service.mu` and its locals: the database copy and the file lists, the fingerprint so far, the images still to be pooled, the archive being restored |
| `prunes`, `due`, `nextCheck` | where `backupLoop` and the handlers are outside the lock: about to call `Prune`, about to call `Create`, `nextCheckAt` |
| `download` | the archive a download has opened, and the pooled images still to be sent |
| `saved`, `replaced` | history, for the properties; so are the fields `calm` and `newest` of `op` |

`Create` reads the site at several moments, and each is a step: for the
comparison the files and then the rows (`Compare`, `Unchanged`, `Changed`), then
the copy of the database (`Snapshot`), the list and the hashes of the files
(`ListFiles`), the rows for the fingerprint (`PrintRows`), the files again for
the tar (`WriteTar`), the images one by one (`PoolImage`), the name (`Put`). The
site may change between any two. A fingerprint is represented by what it was
computed from. `Restore` is `Unpack`, the steps of `Create` for the safety copy,
and the replacement of the three parts of the site, of which content and images
can be seen half done. `TearDatabase` is `ReplaceWith` when it has to copy over the live
file, from another filesystem, and does not get to the end: any part of the rows may be left. `FailOp` and `Crash` may end an operation at any step; a
comparison that fails leads to a backup (`CannotTell`). `Prune` deletes what
`Dropped` selects, or as much of it as can be deleted, and sweeps what no archive
names; the ten minutes of grace are a choice, since within them nothing is swept.
`StartPrune` and `Sweep` hold the lock between them; downloads hold none.

What a restore means to handlers that run beside it, and the rebuild and the renditions
that follow, are in `SiteConfig`, `Media` and `Links`, each for its part of the site. Archives of version 1, which carry their images, and archives
without a fingerprint are left out. If `content/` changes while it is written to the
tar, the archive may mix two states of it; the model takes one, and the
properties promise nothing about such an archive.

### Site configuration

`file` is `site.yml`, `live` what `d.Site()` returns, `siteMu` the lock. A handler's
`mutateSite` is `ReadOriginal` (lock, read the bytes), `LoadAndApply` (parse, apply
the change, or answer that it is refused), `SaveFile`, `Reload` (`ReloadSite`), the
rebuild, and, when that fails, `RollBackFile` and `ReloadOld`. The changes are those
the admin pages make: navigation, social links, feeds (add, move, toggle, remove,
replace), the looks, the favicon. `LoadAndApply` reads the file a second time, as the
code does, and an editor may have written it in between. `Draw` is one page of a rebuild.
`event`, `begunSince` and `watchPC` are what `Loops` has of the watcher, for this
file. `HandEdit` and `RestoreFile` write the file past lock and pointer (`WriteOutside`);
after both there is a rebuild, the watcher's or the request's, from the pointer as it is.
`expected`, `excused` and `outside` (written past the process, not loaded since) are history
variables. The file is one value: an
editor's write is seen whole.

### Media

A picture is its content, as its file's name is a hash of it; its renditions are
written as one. `Upload` and `StoreImage` are the two halves of `storeImageBytes`,
with the `Stat` in between; `StartPass` and `WriteVariants` the goroutine behind it,
which works on pixels it has read and may fail (`CutFails`); `BackfillOne` and
`BackfillEnds` are the passes over all pictures, the one at startup and the one after a
restore (`StartRegeneration`), which alone waits for `renditionWork`. `Hit`, `Miss` and `StoreLookup` are `ImageIndex.Resolve`, which looks at the
disk outside its mutex. `StartDelete` to `RemoveRenditions` are `adminMediaDelete`:
both locks, the search for uses, the files one after the other. A post is the
picture it shows, saved under `postMu` and rolled back when its rebuild fails, or dropped
into the directory or taken away by somebody on the machine (`DropIn`). A restore puts the
posts of its backup in place (`RestorePosts`), then `site.yml` (`RestoreSite`), removes the
other posts (`DropPosts`) and exchanges the pictures (`RestoreMasters`), under neither lock;
it may fail at any step (`RestoreFails`), and goes on to the rebuild and the renditions.

### Links

`links` and `lastId` are the table and its `AUTOINCREMENT`; `linksPage` what readers
get. `AddLink`, `ListLinks`, `RemoveLink` are the handlers (a removal names a row of
a list shown some time before), `StartPoll`, `Fetch`, `Import`, `EndPoll` a poll of
`feeds.Poller`, feed by feed. The rebuild asks for the rows some time after it began
(`RenderLinks`), and is given the newest up to a limit (`Listings`; 500 in the code).
`RestoreLinks` exchanges the table and its sequence, and may fail with the new table in place
and no rebuild. Editors and pollers each bring the rebuild their code brings; the
button on the feeds page brings two (`Again`).

### Webmentions

`fetching` and `fetched` count goroutines: those that fetch the page, and those that
have their answer and have not written it. `scan` is `SendAll`, one notice at a time, or
nothing when the posts cannot be loaded; an article that does not render is passed over
like a link of which the table cannot tell (`Look`);
`told` the status of the outgoing row. A lost answer and a row that could not be
written are `Send` and `Record` with a trouble. `doubts` counts them, for the property.

### Key cache

`record` is `pgp.json`; `Resolve` is `Cache.Resolve` under its mutex, one step, with
its answers from the file, the keyserver or the last good one. A rebuild
(`BeginKeyBuild`, `ResolveKey`, `EndKeyBuild`) and the refresh (`BeginRefresh`,
`RefreshKey`) read the contact address some time before.

### Limiter, logins, tokens

`ReadClock` and `Allow` are the two halves of `Allow`, the second under the lock;
tokens are counted in ticks, so that no fractions are needed. `CheckBoth` is the
password and `totp.Validate`, `Consume` the mark, by a later reading of the clock.
`Lookup`, `Admit`, `Touch`, `WriteUse` follow a bearer token through `principalFor`;
what is decided under the lock is written after it.

### Agents, resources, views

`Begin` and its callers (`BeginPut`, `BeginUpdate`, `BeginPatch`) are a tool before it
takes `postMu`: the scope, the reading of the article, what the call leaves out.
`Apply` is the operation under the lock, with the scope and the revision; `Articles`
has its steps. A revision is a content, as it is a hash. `Resources` is
`syncArticleResources`, of which only the comparison is locked. `Views` is the
table, its two writes, and the dashboard as the sequence of queries it asks
(`Queries`), with beacons and midnight between any two.

## 3. Runs

| run | instance | shows |
| --- | --- | --- |
| `engine` | 2 slugs, 2 contents (one scheduled), 1 summary page, 3 generations, 1 request, 1 failure | whole and single-snapshot generations, index, grace period, no leftovers |
| `engine_refines` | 2 names with one slug, drafts and schedules, 2 threads, clock to 1 | `Engine` implements `SiteBuild`; nothing public early, neither page nor copy |
| `loops` | 1 post, 3 contents (scheduled, malformed), 2 edits, 1 failure, 1 crash | a stale site is always about to be repaired; it catches up |
| `loops_skip` | 2 edits, 1 failure | **violated**: a rebuild is skipped over one that failed |
| `articles` | 1 slug, 2 dates, 3 contents, 2 handlers, 3 operations, 1 failure, failing audit rows and renamings, 1 crash | seven properties of `Articles` |
| `articles_hostile` | an editor, a malformed post, a disk that fills up, other rebuilds all the time | every operation ends |
| `backup` | 2 images, 2 states of content and of the rows, 3 operations, 1 change, 1 crash, databases restored in part, 2 kept archives and 1 safety copy, clock to 1 | the six properties of `Backup` |
| `backup_unsaved` | as `backup` | **violated**: a link saved during a backup is in no archive, and the next is refused |
| `site` | 2 handlers, 2 changes of 5 kinds, 1 edit by hand or restore (also to a broken file), 2 pages, 2 failures or crashes | no change is lost or half undone; readers catch up |
| `media` | 1 picture, 2 handlers, a restorer, 2 uploads, favicons, posts, dropped files, deletions or restores, 1 failure or crash | nothing used is deleted, sizes are shown, the locks are given back |
| `server` | nine parts, each with its own bounds (below) | one or two properties of each part |
| `agents_merge` | 1 program, 3 writes of others, 2 titles, 2 bodies | **violated**: an omitted field goes back to an old value |

The runs marked **violated** check a sentence of the documentation or a comment;
`findings` in `PROJECT.json` quotes it and describes the behaviour TLC finds. Ten
more findings there have no run of their own; they are in section 5.

Bounds. Generation names are recycled once a directory is gone and no request
remembers it; with three of them a rebuild, the active and the retired one
exist together, which is all there can be. A request's grace is about two
switches, and the runs reach three. Two posts are enough for a snapshot to be
mixed from two moments; two names with one slug are enough for a clash. Three
operations are a change, its undo and the undo of that, or two changes and an
undo; one slug is enough because operations on different slugs share only the
locks and the rebuild. One failure and one crash at any step show what each
leaves behind; after it the system is in a state from which the next one is like
the first. `MaxTime` is the number of publication hours that pass.

`site`: a lost update takes two handlers and one change of each; a half undone one a
failure, and a wrongly skipped rebuild one edit by hand or one rollback; a mixed site
takes two pages; a crash, which is counted with the failures, may leave the file between any
two steps. Two failures are needed for what one hides: the rebuild of a handler fails after
somebody else's has shown its change, and then the rebuild of the event of its rollback. The
site keeps what was given up until the next rebuild, and `ReadersCatchUp` excepts it by name
(`lastErr`). `media`: what can be deleted wrongly is one picture, by one of two
requests while the other begins to use it as a post's picture or as the favicon, or while a
restore or a dropped file does; one crash brings the backfill, one restore the other. The properties speak of each picture alone, and pictures
share only locks, the encoder and the index, which is emptied as a whole.

`server`: *links* two feeds of one address each, one of which is refused, two pollers (one
of them the button) and an editor, 3 operations, 2 polls, 1 failure, 1 restart: a row
can be committed before, while and after another's rebuild reads the table, the
highest row be removed and another added. The limit is one row, so that a second does not
fit; imported rows are older than those added by hand, so that which of them is shown
matters. The backup of the table is an empty one. *Mentions* two reports of one mention, so
that two verdicts are under way at once; one notice, a post that goes and comes back,
2 troubles and 1 crash. *Key* two addresses, 2 changes of the address, one of the key and 1 outage, a refresh beside
a rebuild. *Limiter* 2 clients, 2 callers, a burst of 2 at one in 3 ticks for 6 ticks,
which is longer than a bucket takes to fill and to be swept. *Login* 2 browsers, 3
codes, a clock that runs past the forgetting of marks, 1 restart. *Tokens* 1 token, 2
requests, 5 ticks where a minute has 2. *Agents* 1 program and the author, 3 writes: enough
to change and change back. *Resources* 2 posts, 2 requests, 4 lists, 3 changes. *Views* 2
beacons, 1 dashboard, months of 3 days.

For the backups, three operations are a backup, a restore with its safety copy
and one more backup, restore or deletion, with the prunes between them; that is enough to
overflow both retention limits. One change at any of the steps is what tells the
moments at which `Create` reads the site apart. Two images let a restore remove
one and keep one. The clock makes two archives fall into one second or not.

`QuietIsSaved` and `RestoreIsUndoable` depend on names being in the order of
creation, since retention goes by them. Names are rounded to seconds; of two archives of
different kinds in one second neither is newer, and `freeName` moves a third one forward.
The definitions of `saved` and `replaced` therefore ask that the archive in question was
given the newest name (`op.newest` for a safety copy). That can fail only when several
archives are made within a second or two, and section 5 says what happens then. With it
both properties hold for any number of operations in any second: that is proved, and no
bound of the runs matters for it.

Fairness. `Loops` assumes that the clock runs, a rebuild that has the mutex
ends, a dead process is started again (compose restarts it), and the loops run:
weak fairness. Getting `Engine.mu` is strong fairness: `sync.Mutex` hands
itself to whoever waits longest once somebody has waited a millisecond, so a
loop gets it in spite of others that rebuild again and again. No rebuild is
assumed to succeed. `Articles` assumes the same of a handler that has `postMu`;
nobody is assumed to send requests.

`SiteConfig` and `Media` assume of all that goes on without being asked for
(handlers between their lock and their answer, the watcher's timer, goroutines that
have work, a rebuild to its end) only that the process does not stand still while
one of them can go on: weak fairness of their disjunction. Which one moves is left
open. In `MCServer` the sending of webmentions goes on: a ticker starts it every hour
and a fetch ends after 20 seconds. No answer is assumed to be good; troubles are bounded
in number, since nothing is announced to a site that never answers.

`CatchesUp` names its exceptions: a last rebuild that failed (reported by
`/readyz`), a change nobody watched, a start over a malformed post. Each is needed;
section 5 says what happens in them. `ReadersCatchUp` (a last
rebuild that failed, a rebuild inside a rollback, a write past the process) and
`SizesAreShown` (a last rebuild that failed, renditions that could not be written) name
theirs in the same way.

## 4. Proofs

Every invariant and every action property of the runs that pass is proved for any values
of the constants: any numbers of posts, handlers, clients, archives, pictures, operations
and crashes. The names in the table are properties of the runs unless a theorem is named.

| module | proves |
| --- | --- |
| `EngineProofs` | `TypeOK`, `OneSnapshot`, `IndexMatchesSite`, `GraceOfOneSwitch`, `NoLeftovers`, `NothingEarly` |
| `EngineRefinement` | `ImplementsSiteBuild` |
| `LoopsProofs` | `StaleIsTemporary`; that `Loops` implements `SiteBuild` (`LoopsImplementSiteBuild`); its types |
| `ArticlesProofs` | `OneFilePerSlug`, `NoLostUpdate`, `UpdateKeepsAVersion`, `FailedChangeIsUndone`, `UndoRestores`, `AuditIsTheHistory`, `SavedIsServed`; `SavedIsServedInFull`, `ArticlesImplementSiteBuild`; its types, with mutual exclusion (`OperationsExclude`) |
| `BackupProofs` | `BackupTypeOK`, `PoolComplete`, `ListedCanBeDownloaded`, `RestoreIsUndoable`, `RestoreBringsBack`, `QuietIsSaved` |
| `SiteProofs` | `ChangesAreKept` (of `SiteConfig` alone and within `Media`), `NothingUsedIsDeleted`; the types of `Media`, with who holds which lock (`LocksHaveHolders`) |
| `ServerProofs` | `LinksAreShown`, `RemovesWhatWasSeen`, `ModerationStands`, `ToldOnce`, `OutageKeepsKey`, `PatchLeavesTheRest`, `ListHeals` |
| `AccessProofs` | `NeverMoreThanAllowed`, `CodesAreSpent`, `LastUseIsShown`, `NumbersAddUp` |

Assumptions. The modules' named assumptions about their constants: names of different
kinds are different (`NoBucket`, `NotMinted`, `Missing` and the like are no value of
what they stand in for), limits are natural numbers, a request carries what its form or
section can hold (`EditsAssumption`), the first links, and those in backups, are numbered from 1 as
`AUTOINCREMENT` does, a picture can be a favicon. Three theorems ask for more:
`FailedChangesAreUndone` and `AuditIsAlwaysTheHistory` that writes of post files do not fail
(`~DiskMayFill`; the code ignores the error of a rollback's write, section 5), and
`SavedIsAlwaysServed` that no hour of publication comes while the model's clock runs, as in
run `articles`. What it says in the general case is `SavedIsServedInFull`: the site is
what is published of the files by the clock of some moment up to now. `NoUpdateIsLost`
is for as long as no editor has been at the files, as in the run.

**Engine.** The inductive invariant `IInv` is needed because the properties speak of the
served generation only, and that is made in the dark: it adds what each phase
has established about the stage (`StageInv`: what has been written is what was
chosen; after the prune, nothing else is there), about the chosen articles
(`ChosenInv`: chosen from what was read, none before its hour), about the index
after its commit (`IndexInv`), about the directories that exist (`DirsInv`) and
about the generations that requests hold (`HeldInv`). Each action has a step in
each lemma. For the refinement, rendering, pruning and indexing are stuttering
steps, and the switch is `Publish` because the finished stage holds what was
chosen.

**Loops.** Its invariant (`Fresh`): unless something has changed that the watcher is still at
or nobody watched (`Dirty`), the rebuild that runs has read the files as they are, and the
one that ran last has published them or failed. That nothing becomes public before
the hour `nextPublish` names (`NothingComesUnannounced`) rests on the first element of a
set of hours.

**Articles.** While an operation holds `postMu` and nobody edits a file outside, the
directory is a function of what it was when the lock was taken and of how far the
operation has come (`Expected`): that is `FilesInv`, and with the types, the lock and the
shape of each kind of operation (`Base`) it is inductive. Everything else is read off it:
`LogInv` ties each row to what it has in `past`, `HistoryInv` says that rows of a slug follow
one from the other and that the last tells what is on disk, `FreshInv` what the rebuild
under way has read of the change it was asked for. For `ArticlesImplementSiteBuild` each step
of an operation is an edit, a renaming or nothing.

**Backups.** The invariant has to say what an operation in progress has at
hand at each step (`OpInv`), since `Put` makes an archive of it, and that what the
archive in the making names is in the pool or still to be put there (`PoolInv`):
`PoolComplete` alone does not survive `Put`. `DownloadInv` ties what a download has
still to send to its archive; then `PoolComplete` makes the download succeed.
`CopiesInv` adds that what was gathered while nothing changed is the site; `UndoInv` and
`SavedInv` that the archive in question has the newest name of its kind, which is what a
prune keeps whatever the limits are (`PruneKeepsNewest`); `BackInv` which parts of the site
are replaced so far.

**Site configuration and media.** `SiteInv` says of each step of `mutateSite` what the
file, the pointer and the bytes kept for a rollback are, that only the holder of
`siteMu` is inside, and that file and pointer agree unless the file was written past the
process (`outside`), which editors and restores may do at any step. `Media` takes over the steps with their lemmas; `TaskOf` adds what a
request that works on a picture has found out, and holds: that nothing is deleted in use
is that both locks are held from the search for uses to the last removal. What takes
neither lock is not hidden: `dropped` holds exactly the posts that came from outside since the
search, `outside` covers the favicon, and the property excepts these by name.

**Links, webmentions, key, programs, resources.** `LinksInv`: if the page is no listing of
the table, somebody who has still to rebuild has changed it or has failed; numbers stand for
one row in the table and on every page handed out since the table was last exchanged. `TellingInv`: but for doubts, a notice was taken once
if the table says so or is about to be told. `KeyInv`: a key that is shown or about to be is
in the file, or its address was denied or lost since. `AgentInv` ties a patch to the
revision it was made from. `ResourceInv`: every entry was left by the last comparison, or a
request is going to compare or withdraw it.

**Limiter, logins, tokens, views.** `BudgetInv` compares what a bucket would hold if it were
refilled now with what the limit leaves, up to one wait and two for each time the sweep
has dropped it; the rest is arithmetic on `w * (1 + 2 * d)`. `SpentInv`: a code
that was accepted is marked, or the clock has left the periods it is good in, since
marks are kept for longer. `TouchedInv`: a use worth a write is in the table, on its way or
lost. For `NumbersAddUp` a sum is defined as the number of marks of its rows
(`Total`), so that "never more than" and "as many as" are an injection and a bijection
(`TotalOfParts`) and no induction is needed; `TableInv` has one row for a page, a day and a
visitor, and rows that only come, `DashInv` what each answer of the dashboard is compared with.

Where a first or a least element is needed (hours, months, bars), it comes from the
well-foundedness of the naturals (`WFMin`), not from induction.

Only model-checked:

* liveness, for which TLAPS has no rules here: `CatchesUp`, `OperationsEnd`, `ReadersCatchUp`,
  `SizesAreShown`, `LocksAreReleased`, `LinksAreAnnounced`;
* that the three properties of the runs marked **violated** are violated.

The proofs are about the models: that each definition is what its lines do is for the reader
of `map` in `PROJECT.json`.

## 5. Not modelled

`PROJECT.json` lists every component with its status.

No state, or none that changes after startup: Markdown and sanitising, social cards,
templates, feeds and sitemaps made from the posts, `config`, static assets, the
outbound client with its address checks, headers and compression, the browser's code,
container and scripts. They are functions of their input, most of them on text and
pixels, and tests are the better instrument.

Left out of the modelled components: in `Engine` what a rebuild reads besides the
posts (`SiteConfig`, `Media`, `Links` and `KeyCache` have that, each with the rebuild
reduced to the reading), `Preview` and `PreviewHome`, which take the mutex and change
nothing; in `Articles` requests that are refused before they change anything, and
fields besides the date; in `Backup` archives of version 1; in `Engine` and
`Webmentions` that a restore exchanges their tables too (`articles_fts` until the rebuild that
follows, and what was sent and reported); in `Media` pixels and the search for a name in the text of a post; in `Login`
the cookie, a function of key and clock; in `Views` places and the median of the
reading time, counted like referrers, and the statistics of the API; in MCP and REST the decoding, and the tools that only read or end in an
operation modelled elsewhere.

Met while modelling or proving; what the first three paragraphs list is in `findings`, with the
sentences it contradicts:

* the Markdown copy of an article is read a second time and may be a draft's
  (`build/article.go`); changes before the watcher is registered are not seen
  (`main.go`); a process that is restarted over a malformed post does not come up; a
  restore from an archive without images leaves those there are.
* a favicon whose file is missing when its uses are looked up, and which is uploaded again
  before the files are removed, is deleted though `site.yml` names it
  (`server/admin_media.go:46`); with several restores in one second and an earlier safety
  copy gone, the newest copy gets an older name than another's and is pruned as the oldest
  (`backup/backup.go:384`). Both were found when a proof did not go through, and TLC
  confirmed them.
* an edit of `site.yml` by hand raises a rebuild but is not loaded (`main.go:360`); nor is the
  `site.yml` of a restored backup, so that the site goes on with the one it had
  (`server/admin_backups.go:223`); `/links` and the pages that manage it list the newest 500
  rows (`build/build.go:513`); marks of used codes are in memory, so that a code works again
  after a restart within its ninety seconds (`auth/auth.go:43`).
* the search page reads an index that is committed a moment before the pointer moves
  (`build/build.go:271`), while `src/README.md:33` says all public routes switch
  atomically.
* a rollback that fails for lack of space loses the article silently
  (`server/api.go:440`); undoing an undo writes a newly dated content under an old
  name (`server/admin_activity.go:78`), against the comment at `server/api.go:427`.
* a post saved between the safety copy of a restore and the replacement of
  `content/` is in neither (`backup/restore.go:112`).
* a rebuild that begins between the write of a rollback and its reload makes the
  watcher skip the rebuild that would show the old configuration again
  (`main.go:355`); when the rebuild after a change of `site.yml` fails, and the one the
  watcher makes of the rollback as well, the pages may show what was given up until
  something else rebuilds.
* a restore, or a post dropped in, can begin to use a picture while it is being deleted, and a
  restore removes the pictures its backup has not got whether or not a new post shows them
  (`backup/restore.go:129`); a database copied over the live one in part stays
  (`store/backup.go:192`); numbers of links go back with the table, so that a button on an
  old page may mean another link.
* a favicon's file can be deleted between its upload and the change of `site.yml`, and
  so can a picture between the `Stat` of a second upload and its answer; renditions
  cut while their master is deleted stay behind.
* a link whose rebuild fails is in the table, so that the repeated request is told it
  exists; the button on the feeds page rebuilds twice; imported links whose rebuild
  failed are shown by the next one of anybody.
* a mention reported again while an earlier check is under way can be rejected on what
  the page said before, and stays so; checks in memory are lost by a restart, and
  mentions then wait until they are reported again; a post that does not parse stops
  all announcements.
* the key cache has one slot: a refresh with the old address, or a change of it that is
  rolled back, displaces the key, and an outage then takes it off the site.
* readings of the clock that reach a bucket out of order give away the time the caller
  waited, and twice that when the sweep drops the bucket in between.
* `update_article` merges with a reading no revision is compared with (run
  `agents_merge`), and so do its scope checks and those of a PUT, which go by the article as it was
  read: `PatchLeavesTheRest` is about `patch_article` alone; a GET of the API leaves out the cover, so a PUT of what was got drops it.
* reading time reported after midnight belongs to no row; visitors are counted after
  views, so that pages per visitor may be shown below one.

## 6. Plan

1. Done: engine, loops, article operations, backups; site configuration, media, and the
   nine parts of `MCServer`.
2. Done: every safety property and every action property that a run expects to hold is
   proved, and so is that `Loops` and `Articles` use the rebuild within what `SiteBuild`
   allows.
3. Left: abstract specifications for the other components (an audit log that is a sequence
   of versions, a backup store that never loses a saved site) and their refinement;
   `ReadersCatchUp` and `CatchesUp` as safety facts without the fairness ("whoever has
   to act can act"), as far as that does not need ENABLED; the code that is modelled
   thinly or not at all (the statistics of the API, previews, version 1 archives).
