------------------------------ MODULE Articles ------------------------------
(***************************************************************************)
(* The operations that change articles: create, update, delete              *)
(* (internal/server/api.go) and undo (internal/server/admin_activity.go),   *)
(* with the audit log they write (internal/store/audit.go).  REST, MCP and  *)
(* the admin pages all end in these four.                                   *)
(*                                                                         *)
(* Each holds postMu from its first look at the posts directory to its      *)
(* answer, changes files in one or two steps, calls Engine.Rebuild (that of *)
(* SiteBuild) and either records what it did or takes it back.  An editor   *)
(* on the machine changes the same files without asking for the lock.       *)
(***************************************************************************)
EXTENDS SiteBuild, Sequences, FiniteSets

CONSTANTS
    Handlers,     \* goroutines of requests that change articles
    Dates,        \* dates, as in file names and front matter
    DateOf,       \* the date in the front matter of a content
    NoFile,       \* no path
    DiskMayFill,  \* writes of post files may fail
    AuditMayFail, \* the insertion of an audit row may fail (it is only logged)
    MaxOps,       \* bound: operations begun
    MaxExternal,  \* bound: changes made by the editor
    MaxCrashes    \* bound: crashes

\* A post file is named <date>-<slug>.md.
ASSUME ArticlesAssumption ==
    /\ Handlers \subseteq Threads \ {Main}
    /\ Posts = Slugs \X Dates
    /\ SlugOf = [p \in Posts |-> p[1]]
    /\ DateOf \in [Contents -> Dates]
    /\ NoFile \notin Posts
    /\ DiskMayFill \in BOOLEAN /\ AuditMayFail \in BOOLEAN
    /\ {MaxOps, MaxExternal, MaxCrashes} \subseteq Nat

VARIABLES
    postMu,       \* Deps.postMu: its holder
    job,          \* the locals of the operation each handler is in
    audit,        \* table article_audit
    past,         \* history: the files of the slug before the audited operation
    origin,       \* history: the posts directory when postMu was taken
    gap,          \* history: a change the audit log does not know of
    ops, external, crashes   \* counters for the bounds

jobsVars == <<postMu, job, origin, ops>>
logVars  == <<audit, past, gap>>
vars == <<sbVars, jobsVars, logVars, external, crashes>>

Kinds == {"create", "update", "delete", "undo"}

\* The front matter's revision identifies the content, so a revision is a content.
Entries == [kind : Kinds, slug : Slugs, name : Posts,
            beforeRev : Contents \cup {Absent}, afterRev : Contents \cup {Absent},
            before : Contents \cup {Absent}, after : Contents \cup {Absent}]

\* at: the next step.  src: the file found (or to be created).  dst: the file that is
\* removed when the rebuild fails.  seen: a.Revision when found.  before: what ReadFile
\* returned.  new: what is written.  entry: the audit row being undone.
NoOp == [kind |-> "none", at |-> "idle", slug |-> Absent, src |-> NoFile, dst |-> NoFile,
         seen |-> Absent, before |-> Absent, new |-> Absent, entry |-> 0]

\* findArticleBySlug works: every post parses and no two share a slug.
Loadable ==
    \A p \in Posts : source[p] # Absent =>
        source[p] \in Contents \ Malformed /\ ~Clashes(source, p)

FilesOf(x) == {p \in Posts : SlugOf[p] = x /\ source[p] # Absent}

ArticlesInit ==
    /\ Init
    /\ postMu = NoThread
    /\ job = [h \in Handlers |-> NoOp]
    /\ audit = <<>>
    /\ past = <<>>
    /\ origin = NoPosts
    /\ gap = FALSE
    /\ ops = 0
    /\ external = 0
    /\ crashes = 0

-----------------------------------------------------------------------------
(* Taking postMu, looking the article up and checking the request.  A        *)
(* request that is refused changes nothing and is left out.                  *)

\* Mutant: an operation that does not take the lock (updateArticle once did not).
Acquire_Mutant(h) == job[h].at = "idle" /\ postMu' = h

Acquire(h) == postMu = NoThread /\ postMu' = h

Start(h, j) ==
    /\ site # NoSite
    /\ Acquire(h)
    /\ Loadable
    /\ ops < MaxOps
    /\ ops' = ops + 1
    /\ job' = [job EXCEPT ![h] = j]
    /\ origin' = source
    /\ UNCHANGED <<sbVars, logVars, external, crashes>>

\* Mutant: only the name of the new file is looked at.
SlugIsFree_Mutant(x, date) == source[<<x, date>>] = Absent

\* No post may have the slug, whatever its date.
SlugIsFree(x, date) == FilesOf(x) = {}

\* createArticle
StartCreate(h, x, c) ==
    /\ SlugIsFree(x, DateOf[c])
    /\ Start(h, [NoOp EXCEPT !.kind = "create", !.at = "write", !.slug = x, !.new = c,
                             !.src = <<x, DateOf[c]>>, !.dst = <<x, DateOf[c]>>])

\* The request carries the revision it has seen, or (from the admin pages) none.
RevisionAccepted(expected, p) == expected \in {Absent, source[p]}

\* updateArticle
StartUpdate(h, p, c, expected) ==
    /\ source[p] # Absent
    /\ RevisionAccepted(expected, p)
    /\ Start(h, [NoOp EXCEPT !.kind = "update", !.at = "read", !.slug = SlugOf[p],
                             !.new = c, !.src = p, !.dst = p, !.seen = source[p]])

\* deleteArticleRevision
StartDelete(h, p, expected) ==
    /\ source[p] # Absent
    /\ RevisionAccepted(expected, p)
    /\ Start(h, [NoOp EXCEPT !.kind = "delete", !.at = "read", !.slug = SlugOf[p],
                             !.src = p, !.seen = source[p]])

\* undoArticleAudit: the article must be what the audited operation left behind.
StartUndo(h, i) ==
    LET e == audit[i]
        undo == [NoOp EXCEPT !.kind = "undo", !.slug = e.slug, !.dst = e.name,
                             !.new = e.before, !.entry = i] IN
    \/ /\ e.afterRev = Absent
       /\ FilesOf(e.slug) = {}
       /\ Start(h, [undo EXCEPT !.at = "write"])
    \/ \E p \in FilesOf(e.slug) :
         /\ e.afterRev = source[p]
         /\ Start(h, [undo EXCEPT !.at = "read", !.src = p, !.seen = source[p]])

-----------------------------------------------------------------------------
(* The steps on the files.                                                   *)

At(h, step) == job[h].at = step

Goto(h, step) == job' = [job EXCEPT ![h].at = step]

\* Mutant: a path that returns without the unlock.
Answer_Mutant(h) ==
    /\ postMu' = postMu
    /\ job' = [job EXCEPT ![h] = NoOp]
    /\ origin' = NoPosts

\* The handler answers and releases postMu.
Answer(h) ==
    /\ postMu' = NoThread
    /\ job' = [job EXCEPT ![h] = NoOp]
    /\ origin' = NoPosts

SetFile(s, p, c) == [s EXCEPT ![p] = c]

FilesUnchanged == UNCHANGED source
SiteUnchanged == UNCHANGED <<now, site, nextPublish, lastErr, jobVars, failures>>

\* os.ReadFile of the article found.  It may have changed, or gone, since.
ReadBefore(h) ==
    /\ At(h, "read")
    /\ IF source[job[h].src] = Absent
       THEN Answer(h)
       ELSE /\ job' = [job EXCEPT ![h].before = source[job[h].src],
                                  ![h].at = IF job[h].kind = "update" THEN "write"
                                            ELSE "remove"]
            /\ UNCHANGED <<postMu, origin>>
    /\ FilesUnchanged /\ SiteUnchanged
    /\ UNCHANGED <<ops, logVars, external, crashes>>

\* os.Remove of the article found, for delete and undo.
RemoveFound(h) ==
    /\ At(h, "remove")
    /\ IF source[job[h].src] = Absent
       THEN Answer(h) /\ FilesUnchanged
       ELSE /\ Goto(h, IF job[h].kind = "undo" THEN "write" ELSE "rebuild")
            /\ source' = SetFile(source, job[h].src, Absent)
            /\ UNCHANGED <<postMu, origin>>
    /\ SiteUnchanged
    /\ UNCHANGED <<ops, logVars, external, crashes>>

\* Where new content goes: over the article found, or to the name in the audit row.
Target(h) == IF job[h].kind = "undo" THEN job[h].dst ELSE job[h].src

\* writeFileAtomic of the new content.  (Undoing a create writes nothing.)
WriteNew(h) ==
    /\ At(h, "write")
    /\ source' = IF job[h].new = Absent THEN source
                 ELSE SetFile(source, Target(h), job[h].new)
    /\ Goto(h, IF job[h].kind = "update" THEN "rename" ELSE "rebuild")
    /\ SiteUnchanged
    /\ UNCHANGED <<postMu, origin, ops, logVars, external, crashes>>

\* writeFileAtomic fails and leaves the target as it was.  Undo has removed the article
\* and tries to write it back, which may fail as well.
WriteNewFails(h) ==
    /\ DiskMayFill
    /\ At(h, "write")
    /\ job[h].new # Absent
    /\ \/ FilesUnchanged
       \/ /\ job[h].kind = "undo" /\ job[h].src # NoFile
          /\ source' = SetFile(source, job[h].src, job[h].before)
    /\ Answer(h)
    /\ SiteUnchanged
    /\ UNCHANGED <<ops, logVars, external, crashes>>

\* Mutant: the old name goes first.
Moved_Mutant(s, from, to) ==
    LET gone == SetFile(s, from, Absent) IN SetFile(gone, to, gone[from])

Moved(s, from, to) == SetFile(SetFile(s, to, s[from]), from, Absent)

\* updateArticle moves the file when the date has changed; when it cannot be moved the new
\* content stays under the old name.
RenameToDate(h) ==
    LET want == <<job[h].slug, DateOf[job[h].new]>>
        src  == job[h].src
    IN  /\ At(h, "rename")
        /\ \/ /\ want # src /\ source[src] # Absent
              /\ source' = Moved(source, src, want)
              /\ job' = [job EXCEPT ![h].at = "rebuild", ![h].dst = want]
           \/ FilesUnchanged /\ Goto(h, "rebuild")
        /\ SiteUnchanged
        /\ UNCHANGED <<postMu, origin, ops, logVars, external, crashes>>

\* Mutant: the name before the move is removed.
Written_Mutant(h) == job[h].src

\* Where the new content is by now.
Written(h) == job[h].dst

\* The rebuild failed: what was written is removed ...
TakeBack(h) ==
    /\ At(h, "rollback")
    /\ IF job[h].kind = "delete" THEN FilesUnchanged
       ELSE source' = SetFile(source, Written(h), Absent)
    /\ IF job[h].before = Absent
       THEN Answer(h)
       ELSE Goto(h, "restore") /\ UNCHANGED <<postMu, origin>>
    /\ SiteUnchanged
    /\ UNCHANGED <<ops, logVars, external, crashes>>

\* ... and what was there is written back.  An error is ignored.
PutBack(h) ==
    /\ At(h, "restore")
    /\ \/ source' = SetFile(source, job[h].src, job[h].before)
       \/ DiskMayFill /\ FilesUnchanged
    /\ Answer(h)
    /\ SiteUnchanged
    /\ UNCHANGED <<ops, logVars, external, crashes>>

\* Mutant: the name the file has now.
RowName_Mutant(j) == IF j.kind = "delete" THEN j.src ELSE j.dst

\* The name the file had, or, for undo, has again.
RowName(j) == IF j.kind = "undo" THEN j.dst ELSE j.src

\* Mutant: undo copies the revisions of the row it undoes.
RevBefore_Mutant(j) == IF j.kind = "undo" THEN audit[j.entry].beforeRev ELSE j.seen

\* Undo swaps the revisions of the row it undoes.
RevBefore(j) == IF j.kind = "undo" THEN audit[j.entry].afterRev ELSE j.seen
RevAfter(j)  == IF j.kind = "undo" THEN audit[j.entry].beforeRev ELSE j.new

\* The rebuild succeeded: recordArticleAudit, and the answer.  before is Absent for a
\* create; new is Absent for a delete and for the undoing of a create.
Row(j) ==
    [kind |-> j.kind, slug |-> j.slug, name |-> RowName(j),
     beforeRev |-> RevBefore(j), afterRev |-> RevAfter(j),
     before |-> j.before, after |-> j.new]

Record(h) ==
    /\ At(h, "record")
    /\ \/ /\ audit' = Append(audit, Row(job[h]))
          /\ past' = Append(past, [p \in {q \in Posts : SlugOf[q] = job[h].slug} |-> origin[p]])
          /\ UNCHANGED gap
       \/ /\ AuditMayFail
          /\ gap' = TRUE
          /\ UNCHANGED <<audit, past>>
    /\ Answer(h)
    /\ FilesUnchanged /\ SiteUnchanged
    /\ UNCHANGED <<ops, external, crashes>>

-----------------------------------------------------------------------------
(* Rebuilds: those of the handlers, and those of all other goroutines.       *)

StartRebuild(t) ==
    /\ Begin(t)
    /\ t = Main => site = NoSite
    /\ IF t \in Handlers THEN At(t, "rebuild") /\ Goto(t, "building") ELSE UNCHANGED job
    /\ UNCHANGED <<postMu, origin, ops, logVars, external, crashes>>

Working ==
    /\ List \/ (\E p \in Posts : Read(p)) \/ Choose
    /\ UNCHANGED <<jobsVars, logVars, external, crashes>>

RebuildDone ==
    /\ Publish
    /\ IF builder \in Handlers THEN Goto(builder, "record") ELSE UNCHANGED job
    /\ UNCHANGED <<postMu, origin, ops, logVars, external, crashes>>

RebuildFailed ==
    /\ Fail
    /\ IF builder \in Handlers THEN Goto(builder, "rollback") ELSE UNCHANGED job
    /\ UNCHANGED <<postMu, origin, ops, logVars, external, crashes>>

-----------------------------------------------------------------------------
(* The rest of the world.                                                    *)

\* Somebody with an editor: no lock, no revision, no audit row.
EditOutside(p, c) ==
    /\ external < MaxExternal
    /\ external' = external + 1
    /\ Edit(p, c)
    /\ gap' = TRUE
    /\ UNCHANGED <<jobsVars, audit, past, crashes>>

TimePasses == Tick /\ UNCHANGED <<jobsVars, logVars, external, crashes>>

\* The process dies in the middle of whatever its handlers were doing.
Die ==
    /\ crashes < MaxCrashes
    /\ crashes' = crashes + 1
    /\ Crash
    /\ postMu' = NoThread
    /\ job' = [h \in Handlers |-> NoOp]
    /\ origin' = NoPosts
    /\ gap' = (gap \/ postMu # NoThread)
    /\ UNCHANGED <<audit, past, ops, external>>

ArticlesNext ==
    \/ \E h \in Handlers :
         \/ \E x \in Slugs, c \in Contents \ Malformed : StartCreate(h, x, c)
         \/ \E p \in Posts, c \in Contents \ Malformed, e \in Contents \cup {Absent} :
              StartUpdate(h, p, c, e)
         \/ \E p \in Posts, e \in Contents \cup {Absent} : StartDelete(h, p, e)
         \/ \E i \in DOMAIN audit : StartUndo(h, i)
         \/ ReadBefore(h) \/ RemoveFound(h) \/ WriteNew(h) \/ WriteNewFails(h)
         \/ RenameToDate(h) \/ TakeBack(h) \/ PutBack(h) \/ Record(h)
    \/ \E t \in Threads : StartRebuild(t)
    \/ Working
    \/ RebuildDone
    \/ RebuildFailed
    \/ \E p \in Posts, c \in Contents \cup {Absent} : EditOutside(p, c)
    \/ TimePasses
    \/ Die

\* A request that has taken postMu runs on; the engine's mutex goes to whoever has
\* waited longest (sync.Mutex), and what holds it comes to an end.
ArticlesFairness ==
    /\ \A h \in Handlers :
         /\ WF_vars(ReadBefore(h) \/ RemoveFound(h) \/ WriteNew(h) \/ WriteNewFails(h))
         /\ WF_vars(RenameToDate(h) \/ TakeBack(h) \/ PutBack(h) \/ Record(h))
         /\ SF_vars(StartRebuild(h))
    /\ WF_vars(Working)
    /\ WF_vars(RebuildDone \/ RebuildFailed)

\* The posts are at the start as handlers leave them: every file parses, is named after the
\* date in its front matter, and is the only one with its slug.
NamesMatchDates == \A p \in Posts : source[p] # Absent => DateOf[source[p]] = p[2]

TidyInit == ArticlesInit /\ Loadable /\ NamesMatchDates

TidySpec == TidyInit /\ [][ArticlesNext]_vars

FairTidySpec == TidySpec /\ ArticlesFairness

-----------------------------------------------------------------------------
(* Properties.                                                              *)

Steps == {"idle", "read", "remove", "write", "rename", "rebuild", "building",
          "rollback", "restore", "record"}

\* The variables have their types, and whoever is inside an operation is the holder of
\* postMu: create, update, delete and undo exclude one another (the claim of mux.go).
ArticlesTypeOK ==
    /\ source \in Snapshots
    /\ site \in Sites \cup {NoSite}
    /\ postMu \in Handlers \cup {NoThread}
    /\ job \in [Handlers -> [kind : Kinds \cup {"none"}, at : Steps,
                             slug : Slugs \cup {Absent},
                             src : Posts \cup {NoFile}, dst : Posts \cup {NoFile},
                             seen : Contents \cup {Absent},
                             before : Contents \cup {Absent},
                             new : Contents \cup {Absent}, entry : 0..Len(audit)]]
    /\ \A i \in DOMAIN audit : audit[i] \in Entries
    /\ Len(past) = Len(audit)
    /\ \A h \in Handlers : job[h].at # "idle" <=> postMu = h

\* No sequence of operations, failed rebuilds and crashes leaves two files with one slug,
\* which would fail every rebuild from then on.
OneFilePerSlug == external = 0 => \A x \in Slugs : Cardinality(FilesOf(x)) <= 1

\* What an operation is about to overwrite or remove is what it has checked the revision
\* of: nobody's newer work is lost.
NoLostUpdate ==
    \A h \in Handlers :
        (job[h].kind = "update" /\ At(h, "write")) \/ At(h, "remove") =>
            source[job[h].src] = job[h].seen

\* While an article is being updated there is always a version of it on disk, so a crash
\* leaves the old or the new one; only the rollback of a failed update is not like that.
UpdateKeepsAVersion ==
    external = 0 =>
        \A h \in Handlers :
            job[h].kind = "update" /\ ~At(h, "restore") =>
                \E p \in FilesOf(job[h].slug) : source[p] \in {job[h].seen, job[h].new}

\* When an operation is about to answer "done", readers are already being served its
\* outcome: it rebuilt after its write, and no other rebuild has put back an older site.
SavedIsServed ==
    external = 0 =>
        \A h \in Handlers : At(h, "record") =>
            site[job[h].slug] = IF IsPublic(job[h].new, now) THEN job[h].new ELSE Absent

\* Rows of the audit log about the slug x, and the one before row i.
RowsOf(x) == {i \in DOMAIN audit : audit[i].slug = x}
IsNextRow(i, k) ==
    /\ i < k /\ audit[i].slug = audit[k].slug
    /\ \A m \in RowsOf(audit[i].slug) : m <= i \/ m >= k

\* The audit log is the history of every article: each row starts from what the one
\* before it left, and the last one tells what is on disk.
AuditIsTheHistory ==
    ~gap =>
        /\ \A i, k \in DOMAIN audit : IsNextRow(i, k) =>
               audit[k].before = audit[i].after /\ audit[k].beforeRev = audit[i].afterRev
        /\ postMu = NoThread => \A x \in Slugs : RowsOf(x) # {} =>
               LET last == CHOOSE i \in RowsOf(x) : \A k \in RowsOf(x) : k <= i
               IN  IF audit[last].after = Absent THEN FilesOf(x) = {}
                   ELSE \E p \in FilesOf(x) : source[p] = audit[last].after

\* Undoing a create, update or delete puts back the very files there were before it,
\* under their old names (the test TestAuditUndoRestoresOriginalDateAndSource).
UndoRestores ==
    ~gap =>
        \A h \in Handlers :
            At(h, "record") /\ job[h].kind = "undo" /\ audit[job[h].entry].kind # "undo" =>
                \A p \in DOMAIN past[job[h].entry] : source[p] = past[job[h].entry][p]

\* An operation that answers without having succeeded has changed no file: a failed
\* rebuild restores the source file.
FailedChangeIsUndone ==
    [][ /\ postMu # NoThread /\ postMu' = NoThread
        /\ ~At(postMu, "record")
        /\ crashes' = crashes /\ external = 0
        => source' = origin ]_vars

\* Every operation comes to an end, whatever fails and whoever else rebuilds: nobody
\* waits for postMu and the engine's mutex in a circle.
OperationsEnd == postMu # NoThread ~> postMu = NoThread
=============================================================================
