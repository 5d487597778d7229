--------------------------- MODULE ArticlesProofs ---------------------------
(***************************************************************************)
(* The operations on articles, for every number of handlers, slugs, dates   *)
(* and operations: each property of module Articles that is not about       *)
(* fairness.                                                                *)
(*                                                                         *)
(* While an operation holds postMu and nobody edits a file outside, the     *)
(* posts directory is a function of what it was when the lock was taken     *)
(* (origin) and of how far the operation has come (Expected).  The proofs   *)
(* rest on that.                                                            *)
(***************************************************************************)
EXTENDS Articles, SequenceTheorems, FiniteSetTheorems, TLAPS

Files == Contents \cup {Absent}

LEMMA ArticleConstants ==
    /\ Handlers \subseteq Threads /\ Main \in Threads /\ Main \notin Handlers /\ NoThread \notin Threads
    /\ Posts = Slugs \X Dates /\ SlugOf \in [Posts -> Slugs] /\ \A p \in Posts : SlugOf[p] = p[1]
    /\ \A x \in Slugs, t \in Dates : <<x, t>> \in Posts /\ SlugOf[<<x, t>>] = x
    /\ DateOf \in [Contents -> Dates]
    /\ NoFile \notin Posts /\ Absent \notin Contents
    /\ NoSite \notin Sites /\ Malformed \subseteq Contents
    /\ PublishAt \in [Contents -> Nat]
<1>1. \A p \in Posts : SlugOf[p] = p[1]
  BY ArticlesAssumption
<1>2. \A x \in Slugs, t \in Dates : <<x, t>> \in Posts
  BY ArticlesAssumption
<1> QED
  BY <1>1, <1>2, ArticlesAssumption, SiteBuildAssumption, ContentAssumption

-----------------------------------------------------------------------------
(* What an operation makes of the posts directory.                           *)

\* No two files have one slug.
Tidy(s) == \A p, q \in Posts : s[p] # Absent /\ s[q] # Absent /\ SlugOf[p] = SlugOf[q] => p = q

Empty(s, x) == \A p \in Posts : SlugOf[p] = x => s[p] = Absent

Jobs == [kind : Kinds \cup {"none"}, at : Steps, slug : Slugs \cup {Absent},
         src : Posts \cup {NoFile}, dst : Posts \cup {NoFile},
         seen : Files, before : Files, new : Files, entry : Nat]

\* The operation is about an article there is, in the file src.
HasOld(j) == j.kind # "create" /\ j.src # NoFile

\* What the lock holder found in o, the posts directory as it was.
Found(o, j) == IF HasOld(j) THEN o[j.src] = j.seen /\ j.seen # Absent ELSE Empty(o, j.slug)

\* The names an operation works with are names of its slug.
Named(j) ==
    /\ j.slug \in Slugs
    /\ j.src # NoFile => SlugOf[j.src] = j.slug
    /\ j.kind # "delete" => j.dst \in Posts /\ SlugOf[j.dst] = j.slug
    /\ j.kind = "create" => j.src = j.dst

Cleared(o, j) == IF HasOld(j) THEN SetFile(o, j.src, Absent) ELSE o
Done(o, j)    == IF j.kind = "delete" THEN Cleared(o, j) ELSE SetFile(Cleared(o, j), j.dst, j.new)

\* The posts directory, by the next step of the operation.
Expected(o, j) ==
    IF j.at \in {"read", "remove"} \/ (j.at = "write" /\ j.kind # "undo") THEN o
    ELSE IF j.at \in {"write", "restore"} THEN Cleared(o, j)
    ELSE Done(o, j)

LEMMA SetFileType ==
    ASSUME NEW s \in Snapshots, NEW p \in Posts, NEW c \in Files
    PROVE  /\ SetFile(s, p, c) \in Snapshots
           /\ SetFile(s, p, c)[p] = c
           /\ \A q \in Posts : q # p => SetFile(s, p, c)[q] = s[q]
BY DEF Snapshots, SetFile, Files

LEMMA SameFiles ==
    ASSUME NEW s \in Snapshots, NEW t \in Snapshots, \A p \in Posts : s[p] = t[p]
    PROVE  s = t
BY DEF Snapshots

\* With the old file out of the way, the slug has none.
LEMMA ClearedIsEmpty ==
    ASSUME NEW o \in Snapshots, Tidy(o), NEW j \in Jobs, Named(j), Found(o, j)
    PROVE  /\ Cleared(o, j) \in Snapshots
           /\ Empty(Cleared(o, j), j.slug)
           /\ \A p \in Posts : SlugOf[p] # j.slug => Cleared(o, j)[p] = o[p]
           /\ HasOld(j) => SetFile(Cleared(o, j), j.src, j.seen) = o
           /\ ~HasOld(j) => Cleared(o, j) = o
<1>1. CASE ~HasOld(j)
  BY <1>1 DEF Cleared, Found
<1>2. CASE HasOld(j)
  <2>1. j.src \in Posts /\ SlugOf[j.src] = j.slug /\ o[j.src] = j.seen /\ j.seen # Absent /\ j.seen \in Files
    BY <1>2 DEF HasOld, Named, Found, Jobs
  <2> DEFINE c == SetFile(o, j.src, Absent)
  <2>2. c \in Snapshots /\ c[j.src] = Absent /\ \A q \in Posts : q # j.src => c[q] = o[q]
    BY <2>1, SetFileType DEF Files
  <2>3. Cleared(o, j) = c
    BY <1>2 DEF Cleared
  <2> HIDE DEF c
  <2>4. Empty(c, j.slug) /\ \A p \in Posts : SlugOf[p] # j.slug => c[p] = o[p]
    BY <2>1, <2>2 DEF Empty, Tidy
  <2>5. SetFile(c, j.src, j.seen) = o
    BY <2>1, <2>2, SetFileType, SameFiles
  <2> QED
    BY <1>2, <2>2, <2>3, <2>4, <2>5
<1> QED
  BY <1>1, <1>2

\* When it is done, the slug has the new file, if any, and the other slugs what they had.
LEMMA DoneHasTheNew ==
    ASSUME NEW o \in Snapshots, Tidy(o), NEW j \in Jobs, Named(j), Found(o, j)
    PROVE  /\ Done(o, j) \in Snapshots
           /\ \A p \in Posts : SlugOf[p] # j.slug => Done(o, j)[p] = o[p]
           /\ \A p \in Posts : SlugOf[p] = j.slug =>
                Done(o, j)[p] = IF j.kind # "delete" /\ p = j.dst THEN j.new ELSE Absent
           /\ j.kind # "delete" => SetFile(Done(o, j), j.dst, Absent) = Cleared(o, j)
<1> DEFINE c == Cleared(o, j)
<1>1. c \in Snapshots /\ Empty(c, j.slug) /\ \A p \in Posts : SlugOf[p] # j.slug => c[p] = o[p]
  BY ClearedIsEmpty
<1> HIDE DEF c
<1>2. CASE j.kind = "delete"
  <2>1. Done(o, j) = c
    BY <1>2 DEF Done, c
  <2> QED
    BY <1>1, <1>2, <2>1 DEF Empty
<1>3. CASE j.kind # "delete"
  <2>1. j.dst \in Posts /\ SlugOf[j.dst] = j.slug /\ j.new \in Files
    BY <1>3 DEF Named, Jobs
  <2> DEFINE d == SetFile(c, j.dst, j.new)
  <2>2. d \in Snapshots /\ d[j.dst] = j.new /\ \A q \in Posts : q # j.dst => d[q] = c[q]
    BY <1>1, <2>1, SetFileType
  <2>3. Done(o, j) = d
    BY <1>3 DEF Done, c
  <2> HIDE DEF d
  <2>4. c[j.dst] = Absent
    BY <1>1, <2>1 DEF Empty
  <2>5. SetFile(d, j.dst, Absent) = c
    <3> DEFINE e == SetFile(d, j.dst, Absent)
    <3>1. e \in Snapshots /\ e[j.dst] = Absent /\ \A q \in Posts : q # j.dst => e[q] = d[q]
      BY <2>1, <2>2, SetFileType DEF Files
    <3> HIDE DEF e
    <3>2. \A q \in Posts : e[q] = c[q]
      BY <2>2, <2>4, <3>1
    <3>3. e = c
      BY <1>1, <3>1, <3>2, SameFiles
    <3> QED
      BY <3>3 DEF e
  <2> QED
    BY <1>1, <1>3, <2>1, <2>2, <2>3, <2>5 DEF Empty, c
<1> QED
  BY <1>2, <1>3

LEMMA StaysTidy ==
    ASSUME NEW o \in Snapshots, Tidy(o), NEW j \in Jobs, Named(j), Found(o, j)
    PROVE  Tidy(Cleared(o, j)) /\ Tidy(Done(o, j)) /\ Tidy(Expected(o, j)) /\ Expected(o, j) \in Snapshots
<1> DEFINE c == Cleared(o, j)
           d == Done(o, j)
<1>1. /\ c \in Snapshots /\ Empty(c, j.slug)
      /\ \A p \in Posts : SlugOf[p] # j.slug => c[p] = o[p]
  BY ClearedIsEmpty
<1>2. /\ d \in Snapshots
      /\ \A p \in Posts : SlugOf[p] # j.slug => d[p] = o[p]
      /\ \A p \in Posts : SlugOf[p] = j.slug => d[p] = IF j.kind # "delete" /\ p = j.dst THEN j.new ELSE Absent
  BY DoneHasTheNew
<1> HIDE DEF c, d
<1>3. Tidy(c)
  BY <1>1 DEF Tidy, Empty
<1>4. Tidy(d)
  BY <1>2 DEF Tidy
<1> QED
  BY <1>1, <1>2, <1>3, <1>4 DEF Expected, c, d

-----------------------------------------------------------------------------
(* What holds whoever else edits files: types, the lock, and what the        *)
(* operations are about.                                                     *)

FilesNamed(x) == {q \in Posts : SlugOf[q] = x}
Pasts == UNION {[FilesNamed(x) -> Files] : x \in Slugs}

Typed ==
    /\ source \in Snapshots /\ origin \in Snapshots /\ snap \in Snapshots
    /\ chosen \in Sites /\ site \in Sites \cup {NoSite}
    /\ builder \in Threads \cup {NoThread} /\ now \in Nat
    /\ postMu \in Handlers \cup {NoThread}
    /\ job \in [Handlers -> Jobs]
    /\ audit \in Seq(Entries) /\ past \in Seq(Pasts) /\ Len(past) = Len(audit)
    /\ external \in Nat /\ crashes \in Nat /\ gap \in BOOLEAN

Held ==
    \A h \in Handlers :
        /\ ~At(h, "idle") <=> postMu = h
        /\ At(h, "building") <=> builder = h
        /\ At(h, "idle") => job[h].kind = "none"

Rebuilding ==
    /\ builder = NoThread <=> phase = "idle"
    /\ phase \in {"idle", "begun"} => snap = NoPosts

Last == {"rebuild", "building", "rollback", "record"}

\* An operation of each kind, and how far it can have come.
Shape(j) ==
    /\ Named(j)
    /\ \/ /\ j.kind = "create" /\ j.at \in Last \cup {"write"}
          /\ j.src \in Posts /\ j.new \in Contents /\ j.before = Absent /\ j.seen = Absent
       \/ /\ j.kind = "update" /\ j.at \in Last \cup {"read", "write", "rename", "restore"}
          /\ j.src \in Posts /\ j.new \in Contents /\ j.seen # Absent
          /\ j.at \in {"read", "write", "rename"} => j.dst = j.src
       \/ /\ j.kind = "delete" /\ j.at \in Last \cup {"read", "remove", "restore"}
          /\ j.src \in Posts /\ j.new = Absent /\ j.seen # Absent
       \/ /\ j.kind = "undo"
          /\ j.entry \in 1..Len(audit)
          /\ j.slug = audit[j.entry].slug /\ j.dst = audit[j.entry].name /\ j.new = audit[j.entry].before
          /\ \/ /\ j.src = NoFile /\ j.at \in Last \cup {"write"}
                /\ j.before = Absent /\ audit[j.entry].afterRev = Absent
             \/ /\ j.src \in Posts /\ j.at \in Last \cup {"read", "remove", "write", "restore"}
                /\ j.seen # Absent /\ audit[j.entry].afterRev = j.seen

RowsNamed == \A i \in 1..Len(audit) : SlugOf[audit[i].name] = audit[i].slug

Base ==
    /\ Typed /\ Held /\ Rebuilding /\ RowsNamed
    /\ \A h \in Handlers : ~At(h, "idle") => Shape(job[h])

LEMMA PublishedType ==
    ASSUME NEW s \in Snapshots, NEW t \in Nat
    PROVE  Published(s, t) \in Sites
<1>1. \A q \in Posts : s[q] \in Contents \cup {Absent}
  BY DEF Snapshots
<1>2. ASSUME NEW x \in Slugs, \E p \in PublicPosts(s, t) : SlugOf[p] = x
      PROVE  (CHOOSE p \in PublicPosts(s, t) : SlugOf[p] = x) \in Posts
  BY <1>2 DEF PublicPosts
<1> QED
  BY <1>1, <1>2 DEF Published, Sites

LEMMA EmptyTypes ==
    NoPosts \in Snapshots /\ NoArticles \in Sites /\ NoOp \in Jobs /\ NoOp.at = "idle" /\ NoOp.kind = "none"
<1>1. NoPosts \in Snapshots /\ NoArticles \in Sites
  BY DEF NoPosts, NoArticles, Snapshots, Sites
<1>2. NoOp \in Jobs /\ NoOp.at = "idle" /\ NoOp.kind = "none"
  BY DEF NoOp, Jobs, Files, Steps
<1> QED
  BY <1>1, <1>2

LEMMA JobChanged ==
    ASSUME Typed, NEW h \in Handlers, NEW j \in Jobs, job' = [job EXCEPT ![h] = j]
    PROVE  /\ job' \in [Handlers -> Jobs] /\ job'[h] = j
           /\ \A g \in Handlers \ {h} : job'[g] = job[g]
BY DEF Typed

LEMMA JobGoes ==
    ASSUME Typed, NEW h \in Handlers, NEW s \in Steps, Goto(h, s)
    PROVE  /\ job' \in [Handlers -> Jobs]
           /\ \A g \in Handlers \ {h} : job'[g] = job[g]
           /\ job'[h] = [job[h] EXCEPT !.at = s] /\ job'[h].at = s
           /\ job'[h].kind = job[h].kind /\ job'[h].slug = job[h].slug
           /\ job'[h].src = job[h].src /\ job'[h].dst = job[h].dst /\ job'[h].seen = job[h].seen
           /\ job'[h].before = job[h].before /\ job'[h].new = job[h].new /\ job'[h].entry = job[h].entry
<1> DEFINE j == job[h]
<1>1. j \in Jobs
  BY DEF Typed
<1>2. job' = [job EXCEPT ![h] = [j EXCEPT !.at = s]]
  BY DEF Goto
<1> HIDE DEF j
<1>3. [j EXCEPT !.at = s] \in Jobs
  BY <1>1 DEF Jobs
<1>4. job' \in [Handlers -> Jobs] /\ job'[h] = [j EXCEPT !.at = s] /\ \A g \in Handlers \ {h} : job'[g] = job[g]
  BY <1>2, <1>3, JobChanged
<1>5. LET k == [j EXCEPT !.at = s] IN
        /\ k.at = s /\ k.kind = j.kind /\ k.slug = j.slug /\ k.src = j.src /\ k.dst = j.dst
        /\ k.seen = j.seen /\ k.before = j.before /\ k.new = j.new /\ k.entry = j.entry
  BY <1>1 DEF Jobs
<1> QED
  BY <1>4, <1>5 DEF j

LEMMA JobEnds ==
    ASSUME Typed, NEW h \in Handlers, Answer(h)
    PROVE  /\ job' \in [Handlers -> Jobs] /\ job'[h] = NoOp /\ job'[h].at = "idle" /\ job'[h].kind = "none"
           /\ \A g \in Handlers \ {h} : job'[g] = job[g]
           /\ postMu' = NoThread /\ origin' = NoPosts
BY JobChanged, EmptyTypes DEF Answer

\* The rest of the process and of the files stays as it is.
Apart == UNCHANGED <<now, site, builder, phase, snap, chosen, external, crashes>>

LEMMA AnswerKeepsBase ==
    ASSUME Base, NEW h \in Handlers, ~At(h, "idle"), ~At(h, "building"), Answer(h), Apart,
           source' \in Snapshots, gap' \in BOOLEAN,
           audit' \in Seq(Entries), past' \in Seq(Pasts), Len(past') = Len(audit'), RowsNamed'
    PROVE  Base'
<1>1. /\ job' \in [Handlers -> Jobs] /\ job'[h].at = "idle" /\ job'[h].kind = "none"
      /\ \A g \in Handlers \ {h} : job'[g] = job[g]
      /\ postMu' = NoThread /\ origin' \in Snapshots
  BY JobEnds, EmptyTypes DEF Base
<1>2. \A g \in Handlers : At(g, "idle")'
  BY <1>1 DEF Base, Held, At
<1>3. Typed'
  BY <1>1 DEF Base, Typed, Apart
<1>4. Held'
  BY <1>1, <1>2, ArticleConstants DEF Base, Held, At, Apart
<1>5. Rebuilding'
  BY DEF Base, Rebuilding, Apart
<1> QED
  BY <1>2, <1>3, <1>4, <1>5 DEF Base

LEMMA StepKeepsBase ==
    ASSUME Base, NEW h \in Handlers, ~At(h, "idle"), ~At(h, "building"), Apart,
           UNCHANGED <<postMu, origin, audit, past, gap>>,
           source' \in Snapshots,
           job' \in [Handlers -> Jobs], \A g \in Handlers \ {h} : job'[g] = job[g],
           job'[h].at \notin {"idle", "building"}, Shape(job[h])'
    PROVE  Base'
<1>1. Typed'
  BY DEF Base, Typed, Apart
<1>2. \A g \in Handlers : g # h => At(g, "idle") /\ At(g, "idle")'
  BY DEF Base, Held, At
<1>3. Held'
  BY <1>2 DEF Base, Held, At, Apart
<1>4. Rebuilding' /\ RowsNamed'
  BY DEF Base, Rebuilding, RowsNamed, Apart
<1> QED
  BY <1>1, <1>2, <1>3, <1>4 DEF Base

LEMMA StartKeepsBase ==
    ASSUME Base, NEW h \in Handlers, NEW j \in Jobs, j.at \in {"read", "write"}, Shape(j), Start(h, j)
    PROVE  /\ Base'
           /\ postMu = NoThread /\ postMu' = h /\ origin' = source /\ Loadable
           /\ job'[h] = j /\ (\A g \in Handlers : At(g, "idle")) /\ \A g \in Handlers \ {h} : At(g, "idle")'
           /\ UNCHANGED <<sbVars, audit, past, gap, external, crashes>>
<1>1. /\ postMu = NoThread /\ postMu' = h /\ origin' = source /\ Loadable
      /\ UNCHANGED <<sbVars, audit, past, gap, external, crashes>>
      /\ job' = [job EXCEPT ![h] = j]
  BY DEF Start, Acquire, logVars
<1>2. job' \in [Handlers -> Jobs] /\ job'[h] = j /\ \A g \in Handlers \ {h} : job'[g] = job[g]
  BY <1>1, JobChanged DEF Base
<1>3. \A g \in Handlers : At(g, "idle")
  BY <1>1, ArticleConstants DEF Base, Held
<1>4. \A g \in Handlers \ {h} : At(g, "idle")'
  BY <1>2, <1>3 DEF At
<1>5. UNCHANGED <<source, snap, chosen, site, builder, phase, now>>
  BY <1>1 DEF sbVars, jobVars
<1>6. Typed'
  BY <1>1, <1>2, <1>5 DEF Base, Typed
<1>7. Held'
  BY <1>1, <1>2, <1>3, <1>4, <1>5, ArticleConstants DEF Base, Held, At
<1>8. Rebuilding' /\ RowsNamed'
  BY <1>1, <1>5 DEF Base, Rebuilding, RowsNamed
<1>9. \A g \in Handlers : ~At(g, "idle")' => Shape(job[g])'
  BY <1>1, <1>2, <1>4 DEF Shape
<1> QED
  BY <1>1, <1>2, <1>3, <1>4, <1>6, <1>7, <1>8, <1>9 DEF Base

\* What a request of each kind starts with.
CreateOp(x, c) == [NoOp EXCEPT !.kind = "create", !.at = "write", !.slug = x, !.new = c,
                               !.src = <<x, DateOf[c]>>, !.dst = <<x, DateOf[c]>>]
UpdateOp(p, c) == [NoOp EXCEPT !.kind = "update", !.at = "read", !.slug = SlugOf[p],
                               !.new = c, !.src = p, !.dst = p, !.seen = source[p]]
DeleteOp(p)    == [NoOp EXCEPT !.kind = "delete", !.at = "read", !.slug = SlugOf[p],
                               !.src = p, !.seen = source[p]]
UndoOp(i)      == [NoOp EXCEPT !.kind = "undo", !.slug = audit[i].slug, !.dst = audit[i].name,
                               !.new = audit[i].before, !.entry = i]
UndoEmpty(i)   == [UndoOp(i) EXCEPT !.at = "write"]
UndoOver(i, p) == [UndoOp(i) EXCEPT !.at = "read", !.src = p, !.seen = source[p]]

LEMMA CreateShape ==
    ASSUME Base, NEW x \in Slugs, NEW c \in Contents
    PROVE  LET j == CreateOp(x, c) IN
             /\ j \in Jobs /\ Shape(j) /\ j.at = "write" /\ j.kind = "create" /\ j.slug = x /\ j.before = Absent
             /\ ~HasOld(j)
<1> DEFINE f == <<x, DateOf[c]>>
           j == CreateOp(x, c)
<1>1. f \in Posts /\ SlugOf[f] = x
  BY ArticleConstants
<1>2. /\ j.kind = "create" /\ j.at = "write" /\ j.slug = x /\ j.src = f /\ j.dst = f
        /\ j.seen = Absent /\ j.before = Absent /\ j.new = c /\ j.entry = 0
  BY DEF CreateOp, NoOp, f
<1>3. j \in Jobs
  BY <1>1 DEF CreateOp, NoOp, f, Jobs, Files, Steps, Kinds
<1> HIDE DEF j
<1>4. Shape(j) /\ ~HasOld(j)
  BY <1>1, <1>2 DEF Shape, Named, HasOld
<1> QED
  BY <1>2, <1>3, <1>4 DEF j

LEMMA UpdateShape ==
    ASSUME Base, NEW p \in Posts, NEW c \in Contents, source[p] # Absent
    PROVE  LET j == UpdateOp(p, c) IN
             /\ j \in Jobs /\ Shape(j) /\ j.at = "read" /\ j.kind = "update" /\ j.slug = SlugOf[p]
             /\ j.src = p /\ j.seen = source[p] /\ j.before = Absent /\ HasOld(j)
<1> DEFINE j == UpdateOp(p, c)
<1>1. SlugOf[p] \in Slugs /\ source[p] \in Files /\ p # NoFile
  BY ArticleConstants DEF Base, Typed, Snapshots, Files
<1>2. /\ j.kind = "update" /\ j.at = "read" /\ j.slug = SlugOf[p] /\ j.src = p /\ j.dst = p
        /\ j.seen = source[p] /\ j.before = Absent /\ j.new = c /\ j.entry = 0
  BY DEF UpdateOp, NoOp
<1>3. j \in Jobs
  BY <1>1 DEF UpdateOp, NoOp, Jobs, Files, Steps, Kinds
<1> HIDE DEF j
<1>4. Shape(j) /\ HasOld(j)
  BY <1>1, <1>2 DEF Shape, Named, HasOld
<1> QED
  BY <1>2, <1>3, <1>4 DEF j

LEMMA DeleteShape ==
    ASSUME Base, NEW p \in Posts, source[p] # Absent
    PROVE  LET j == DeleteOp(p) IN
             /\ j \in Jobs /\ Shape(j) /\ j.at = "read" /\ j.kind = "delete" /\ j.slug = SlugOf[p]
             /\ j.src = p /\ j.seen = source[p] /\ j.before = Absent /\ HasOld(j)
<1> DEFINE j == DeleteOp(p)
<1>1. SlugOf[p] \in Slugs /\ source[p] \in Files /\ p # NoFile
  BY ArticleConstants DEF Base, Typed, Snapshots, Files
<1>2. /\ j.kind = "delete" /\ j.at = "read" /\ j.slug = SlugOf[p] /\ j.src = p /\ j.dst = NoFile
        /\ j.seen = source[p] /\ j.before = Absent /\ j.new = Absent /\ j.entry = 0
  BY DEF DeleteOp, NoOp
<1>3. j \in Jobs
  BY <1>1 DEF DeleteOp, NoOp, Jobs, Files, Steps, Kinds
<1> HIDE DEF j
<1>4. Shape(j) /\ HasOld(j)
  BY <1>1, <1>2 DEF Shape, Named, HasOld
<1> QED
  BY <1>2, <1>3, <1>4 DEF j

LEMMA RowFields ==
    ASSUME Base, NEW i \in 1..Len(audit)
    PROVE  /\ audit[i] \in Entries /\ audit[i].slug \in Slugs /\ audit[i].name \in Posts
           /\ audit[i].before \in Files /\ audit[i].after \in Files
           /\ audit[i].beforeRev \in Files /\ audit[i].afterRev \in Files
           /\ SlugOf[audit[i].name] = audit[i].slug /\ i \in Nat
<1>1. audit[i] \in Entries
  BY ElementOfSeq DEF Base, Typed
<1> QED
  BY <1>1 DEF Entries, Files, Base, RowsNamed

LEMMA UndoShape ==
    ASSUME Base, NEW i \in 1..Len(audit)
    PROVE  /\ audit[i].afterRev = Absent =>
                LET j == UndoEmpty(i) IN
                  /\ j \in Jobs /\ Shape(j) /\ j.at = "write" /\ j.kind = "undo" /\ j.slug = audit[i].slug
                  /\ j.before = Absent /\ j.src = NoFile /\ ~HasOld(j)
           /\ \A p \in FilesOf(audit[i].slug) : audit[i].afterRev = source[p] =>
                LET j == UndoOver(i, p) IN
                  /\ j \in Jobs /\ Shape(j) /\ j.at = "read" /\ j.kind = "undo" /\ j.slug = audit[i].slug
                  /\ j.src = p /\ j.seen = source[p] /\ j.before = Absent /\ HasOld(j)
<1> DEFINE e == audit[i]
<1>1. /\ e.slug \in Slugs /\ e.name \in Posts /\ SlugOf[e.name] = e.slug /\ e.before \in Files
      /\ i \in Nat /\ i \in 1..Len(audit)
  BY RowFields
<1> HIDE DEF e
<1>2. ASSUME e.afterRev = Absent
      PROVE  LET j == UndoEmpty(i) IN
                  /\ j \in Jobs /\ Shape(j) /\ j.at = "write" /\ j.kind = "undo" /\ j.slug = e.slug
                  /\ j.before = Absent /\ j.src = NoFile /\ ~HasOld(j)
  <2> DEFINE j == UndoEmpty(i)
  <2>1. /\ j.kind = "undo" /\ j.at = "write" /\ j.slug = e.slug /\ j.src = NoFile /\ j.dst = e.name
        /\ j.seen = Absent /\ j.before = Absent /\ j.new = e.before /\ j.entry = i
    BY DEF UndoEmpty, UndoOp, NoOp, e
  <2>2. j \in Jobs
    BY <1>1 DEF UndoEmpty, UndoOp, NoOp, e, Jobs, Files, Steps, Kinds
  <2> HIDE DEF j
  <2>3. Shape(j) /\ ~HasOld(j)
    BY <1>1, <1>2, <2>1 DEF Shape, Named, HasOld, e
  <2> QED
    BY <2>1, <2>2, <2>3 DEF j
<1>3. ASSUME NEW p \in FilesOf(e.slug), e.afterRev = source[p]
      PROVE  LET j == UndoOver(i, p) IN
                  /\ j \in Jobs /\ Shape(j) /\ j.at = "read" /\ j.kind = "undo" /\ j.slug = e.slug
                  /\ j.src = p /\ j.seen = source[p] /\ j.before = Absent /\ HasOld(j)
  <2> DEFINE j == UndoOver(i, p)
  <2>1. p \in Posts /\ SlugOf[p] = e.slug /\ source[p] # Absent /\ source[p] \in Files /\ p # NoFile
    BY ArticleConstants DEF FilesOf, Base, Typed, Snapshots, Files
  <2>2. /\ j.kind = "undo" /\ j.at = "read" /\ j.slug = e.slug /\ j.src = p /\ j.dst = e.name
        /\ j.seen = source[p] /\ j.before = Absent /\ j.new = e.before /\ j.entry = i
    BY DEF UndoOver, UndoOp, NoOp, e
  <2>3. j \in Jobs
    BY <1>1, <2>1 DEF UndoOver, UndoOp, NoOp, e, Jobs, Files, Steps, Kinds
  <2> HIDE DEF j
  <2>4. Shape(j) /\ HasOld(j)
    BY <1>1, <1>3, <2>1, <2>2 DEF Shape, Named, HasOld, e
  <2> QED
    BY <2>2, <2>3, <2>4 DEF j
<1> QED
  BY <1>2, <1>3 DEF e

\* Taking the lock: the operation has the shape of its kind, and has found what there is.
Starting(h) ==
    \/ \E x \in Slugs, c \in Contents \ Malformed : StartCreate(h, x, c)
    \/ \E p \in Posts, c \in Contents \ Malformed, e \in Contents \cup {Absent} : StartUpdate(h, p, c, e)
    \/ \E p \in Posts, e \in Contents \cup {Absent} : StartDelete(h, p, e)
    \/ \E i \in DOMAIN audit : StartUndo(h, i)

LEMMA StartingBegins ==
    ASSUME Base, NEW h \in Handlers, Starting(h)
    PROVE  \E j \in Jobs :
             /\ Start(h, j) /\ Shape(j) /\ j.at \in {"read", "write"}
             /\ j.at = "read" <=> HasOld(j)
             /\ Found(source, j) /\ j.before = Absent /\ Expected(source, j) = source
             /\ j.kind = "update" => j.at = "read"
<1>1. CASE \E x \in Slugs, c \in Contents \ Malformed : StartCreate(h, x, c)
  <2>1. PICK x \in Slugs, c \in Contents \ Malformed : StartCreate(h, x, c)
    BY <1>1
  <2>2. Start(h, CreateOp(x, c)) /\ Empty(source, x)
    BY <2>1 DEF StartCreate, CreateOp, SlugIsFree, FilesOf, Empty
  <2> QED
    BY <2>2, CreateShape DEF Found, Expected
<1>2. CASE \E p \in Posts, c \in Contents \ Malformed, e \in Contents \cup {Absent} : StartUpdate(h, p, c, e)
  <2>1. PICK p \in Posts, c \in Contents \ Malformed, e \in Contents \cup {Absent} : StartUpdate(h, p, c, e)
    BY <1>2
  <2>2. Start(h, UpdateOp(p, c)) /\ source[p] # Absent
    BY <2>1 DEF StartUpdate, UpdateOp
  <2> QED
    BY <2>2, UpdateShape DEF Found, Expected
<1>3. CASE \E p \in Posts, e \in Contents \cup {Absent} : StartDelete(h, p, e)
  <2>1. PICK p \in Posts, e \in Contents \cup {Absent} : StartDelete(h, p, e)
    BY <1>3
  <2>2. Start(h, DeleteOp(p)) /\ source[p] # Absent
    BY <2>1 DEF StartDelete, DeleteOp
  <2> QED
    BY <2>2, DeleteShape DEF Found, Expected
<1>4. CASE \E i \in DOMAIN audit : StartUndo(h, i)
  <2>1. PICK i \in 1..Len(audit) : StartUndo(h, i)
    BY <1>4, LenProperties DEF Base, Typed
  <2>2. CASE audit[i].afterRev = Absent /\ FilesOf(audit[i].slug) = {} /\ Start(h, UndoEmpty(i))
    <3>1. Empty(source, audit[i].slug)
      BY <2>2 DEF FilesOf, Empty
    <3> QED
      BY <2>2, <3>1, UndoShape DEF Found, Expected, Cleared
  <2>3. CASE \E p \in FilesOf(audit[i].slug) : audit[i].afterRev = source[p] /\ Start(h, UndoOver(i, p))
    <3>1. PICK p \in FilesOf(audit[i].slug) : audit[i].afterRev = source[p] /\ Start(h, UndoOver(i, p))
      BY <2>3
    <3>2. source[p] # Absent
      BY DEF FilesOf
    <3> QED
      BY <3>1, <3>2, UndoShape DEF Found, Expected
  <2> QED
    BY <2>1, <2>2, <2>3 DEF StartUndo, UndoEmpty, UndoOver, UndoOp
<1> QED
  BY <1>1, <1>2, <1>3, <1>4 DEF Starting

-----------------------------------------------------------------------------
(* The posts directory while an operation is at work and nobody edits it     *)
(* outside.                                                                  *)

OnDisk(j) ==
    /\ Tidy(origin) /\ Found(origin, j)
    /\ j.before = IF HasOld(j) /\ j.at # "read" THEN j.seen ELSE Absent
    /\ source = Expected(origin, j)

FilesInv ==
    external = 0 =>
        /\ Tidy(source)
        /\ \A h \in Handlers : ~At(h, "idle") => OnDisk(job[h])

LEMMA OneAtWork ==
    ASSUME Base, NEW h \in Handlers, ~At(h, "idle")
    PROVE  /\ postMu = h /\ h # NoThread /\ \A g \in Handlers \ {h} : At(g, "idle")
           /\ job[h] \in Jobs /\ Shape(job[h]) /\ Named(job[h]) /\ job[h].kind # "none"
BY ArticleConstants DEF Base, Held, Typed, Shape

LEMMA FilesStep ==
    ASSUME Base', NEW h \in Handlers, postMu' = h, external' = 0 => OnDisk(job[h])'
    PROVE  FilesInv'
<1> SUFFICES ASSUME external' = 0 PROVE Tidy(source)' /\ \A g \in Handlers : ~At(g, "idle")' => OnDisk(job[g])'
  BY DEF FilesInv
<1>1. \A g \in Handlers : ~At(g, "idle")' => g = h
  BY DEF Base, Held
<1>2. OnDisk(job[h])' /\ Named(job'[h]) /\ job'[h] \in Jobs /\ origin' \in Snapshots
  BY DEF Base, Held, Typed, Shape
<1>3. Tidy(origin') /\ Found(origin', job'[h]) /\ source' = Expected(origin', job'[h])
  BY <1>2 DEF OnDisk
<1>4. Tidy(source')
  BY <1>2, <1>3, StaysTidy
<1> QED
  BY <1>1, <1>2, <1>4

LEMMA FilesEnd ==
    ASSUME Base', postMu' = NoThread, external' = 0 => Tidy(source')
    PROVE  FilesInv'
BY ArticleConstants DEF Base, Held, FilesInv

LEMMA StartingKeeps ==
    ASSUME Base, FilesInv, NEW h \in Handlers, Starting(h)
    PROVE  Base' /\ FilesInv'
<1>1. PICK j \in Jobs : /\ Start(h, j) /\ Shape(j) /\ j.at \in {"read", "write"}
                        /\ j.at = "read" <=> HasOld(j)
                        /\ Found(source, j) /\ j.before = Absent /\ Expected(source, j) = source
  BY StartingBegins
<1>2. /\ Base' /\ postMu' = h /\ origin' = source /\ job'[h] = j
      /\ source' = source /\ external' = external
  BY <1>1, StartKeepsBase DEF sbVars
<1>3. external = 0 => OnDisk(job[h])'
  BY <1>1, <1>2 DEF OnDisk, FilesInv
<1> QED
  BY <1>2, <1>3, FilesStep

LEMMA SitePart ==
    ASSUME SiteUnchanged, UNCHANGED <<ops, logVars, external, crashes>>
    PROVE  Apart /\ UNCHANGED <<audit, past, gap>>
BY DEF SiteUnchanged, jobVars, Apart, logVars

\* An operation that answers without having done anything more to the files.
LEMMA AnswerKeeps ==
    ASSUME Base, FilesInv, NEW h \in Handlers, ~At(h, "idle"), ~At(h, "building"), Answer(h), Apart,
           UNCHANGED <<audit, past>>, gap' \in BOOLEAN, source' \in Snapshots,
           external = 0 => Tidy(source')
    PROVE  Base' /\ FilesInv'
<1>1. Base'
  BY AnswerKeepsBase DEF Base, Typed, RowsNamed
<1>2. postMu' = NoThread /\ external' = external
  BY DEF Answer, Apart
<1> QED
  BY <1>1, <1>2, FilesEnd

LEMMA ReadBeforeKeeps ==
    ASSUME Base, FilesInv, NEW h \in Handlers, ReadBefore(h)
    PROVE  Base' /\ FilesInv'
<1> DEFINE j == job[h]
           b == source[j.src]
           s == IF j.kind = "update" THEN "write" ELSE "remove"
           k == [j EXCEPT !.before = b, !.at = s]
<1>1. /\ At(h, "read") /\ source' = source /\ Apart /\ UNCHANGED <<audit, past, gap>>
      /\ ~At(h, "idle") /\ ~At(h, "building")
  BY SitePart DEF ReadBefore, FilesUnchanged, At
<1>2. j \in Jobs /\ Shape(j) /\ postMu = h /\ source \in Snapshots /\ j.at = "read" /\ j.src \in Posts
  BY <1>1, OneAtWork DEF Base, Typed, At, Shape, Last
<1>3. CASE b = Absent
  <2>1. Answer(h)
    BY <1>3 DEF ReadBefore
  <2> QED
    BY <1>1, <1>2, <2>1, AnswerKeeps DEF FilesInv, Base, Typed
<1>4. CASE b # Absent
  <2>1. job' = [job EXCEPT ![h] = k] /\ UNCHANGED <<postMu, origin>>
    BY <1>4 DEF ReadBefore
  <2>2. b \in Files /\ s \in {"write", "remove"} /\ s \in Steps
    BY <1>2 DEF Snapshots, Files, Steps
  <2> HIDE DEF b, s, j
  <2>3. k \in Jobs /\ k.at = s /\ k.before = b /\ k.kind = j.kind /\ k.slug = j.slug /\ k.src = j.src
        /\ k.dst = j.dst /\ k.seen = j.seen /\ k.new = j.new /\ k.entry = j.entry
    BY <1>2, <2>2 DEF Jobs
  <2> HIDE DEF k
  <2>4. job' \in [Handlers -> Jobs] /\ job'[h] = k /\ \A g \in Handlers \ {h} : job'[g] = job[g]
    BY <2>1, <2>3, JobChanged DEF Base
  <2>5. (j.kind = "update" /\ s = "write") \/ (j.kind \in {"delete", "undo"} /\ s = "remove")
    BY <1>2 DEF Shape, Last, s
  <2>6. Shape(job[h])'
    BY <1>1, <1>2, <2>3, <2>4, <2>5 DEF Shape, Named, Last
  <2>7. Base'
    BY <1>1, <2>1, <2>2, <2>3, <2>4, <2>6, StepKeepsBase, <1>2
  <2>8. external = 0 => OnDisk(job[h])'
    <3> SUFFICES ASSUME external = 0 PROVE OnDisk(job[h])'
      OBVIOUS
    <3>1. OnDisk(j)
      BY <1>1 DEF FilesInv, j
    <3>2. HasOld(j) /\ HasOld(k)
      BY <1>2, <2>3, <2>5, ArticleConstants DEF HasOld
    <3>3. Found(origin, k) /\ b = j.seen
      BY <1>2, <2>3, <3>1, <3>2 DEF OnDisk, Found, Expected, b
    <3>4. Expected(origin, k) = origin /\ source = origin
      BY <1>2, <2>3, <2>5, <3>1 DEF OnDisk, Expected
    <3> QED
      BY <1>1, <2>1, <2>2, <2>3, <2>4, <3>1, <3>2, <3>3, <3>4 DEF OnDisk
  <2> QED
    BY <1>1, <1>2, <2>1, <2>7, <2>8, FilesStep DEF Apart
<1> QED
  BY <1>3, <1>4

\* A step that goes on without changing anything of the operation but where it is.
LEMMA GoesOn ==
    ASSUME Base, FilesInv, NEW h \in Handlers, ~At(h, "idle"), ~At(h, "building"), Apart,
           UNCHANGED <<postMu, origin, audit, past, gap>>, source' \in Snapshots,
           NEW s \in Steps \ {"idle", "read", "building"}, Goto(h, s),
           Shape(job[h])',
           job[h].at # "read",
           external = 0 => source' = Expected(origin, [job[h] EXCEPT !.at = s])
    PROVE  Base' /\ FilesInv'
<1> DEFINE j == job[h]
<1>1. /\ job' \in [Handlers -> Jobs] /\ \A g \in Handlers \ {h} : job'[g] = job[g]
      /\ job'[h] = [j EXCEPT !.at = s] /\ job'[h].at = s
      /\ job'[h].kind = j.kind /\ job'[h].slug = j.slug
      /\ job'[h].src = j.src /\ job'[h].dst = j.dst /\ job'[h].seen = j.seen
      /\ job'[h].before = j.before /\ job'[h].new = j.new
  BY JobGoes DEF Base
<1> HIDE DEF j
<1>2. Base'
  BY <1>1, StepKeepsBase
<1>3. external = 0 => OnDisk(job[h])'
  <2> SUFFICES ASSUME external = 0 PROVE OnDisk(job[h])'
    OBVIOUS
  <2>1. OnDisk(j)
    BY DEF FilesInv, j
  <2>2. source' = Expected(origin', job'[h])
    BY <1>1, <2>1 DEF j
  <2>3. HasOld(job'[h]) <=> HasOld(j)
    BY <1>1 DEF HasOld
  <2> QED
    BY <1>1, <2>1, <2>2, <2>3 DEF OnDisk, Found, j
<1>4. postMu' = h /\ external' = external
  BY OneAtWork DEF Apart
<1> QED
  BY <1>2, <1>3, <1>4, FilesStep

\* What an operation at step s would find.
LEMMA ExpectedThen ==
    ASSUME NEW o, NEW j \in Jobs, NEW s \in Steps
    PROVE  Expected(o, [j EXCEPT !.at = s]) =
              IF s \in {"read", "remove"} \/ (s = "write" /\ j.kind # "undo") THEN o
              ELSE IF s \in {"write", "restore"} THEN Cleared(o, j)
              ELSE Done(o, j)
<1> DEFINE k == [j EXCEPT !.at = s]
<1>1. /\ k.at = s /\ k.kind = j.kind /\ k.src = j.src /\ k.dst = j.dst /\ k.new = j.new
  BY DEF Jobs
<1> HIDE DEF k
<1>2. Cleared(o, k) = Cleared(o, j) /\ Done(o, k) = Done(o, j)
  BY <1>1 DEF Cleared, Done, HasOld
<1> QED
  BY <1>1, <1>2 DEF Expected, k

LEMMA RemoveFoundKeeps ==
    ASSUME Base, FilesInv, NEW h \in Handlers, RemoveFound(h)
    PROVE  Base' /\ FilesInv'
<1> DEFINE j == job[h]
           s == IF j.kind = "undo" THEN "write" ELSE "rebuild"
<1>1. At(h, "remove") /\ Apart /\ UNCHANGED <<audit, past, gap>> /\ ~At(h, "idle") /\ ~At(h, "building")
  BY SitePart DEF RemoveFound, At
<1>2. /\ j \in Jobs /\ Shape(j) /\ source \in Snapshots /\ j.at = "remove"
      /\ j.src \in Posts /\ j.kind \in {"delete", "undo"} /\ HasOld(j)
  BY <1>1, OneAtWork, ArticleConstants DEF Base, Typed, At, Shape, Last, HasOld
<1>3. CASE source[j.src] = Absent
  <2>1. Answer(h) /\ source' = source
    BY <1>3 DEF RemoveFound, FilesUnchanged
  <2> QED
    BY <1>1, <1>2, <2>1, AnswerKeeps DEF FilesInv, Base, Typed
<1>4. CASE source[j.src] # Absent
  <2>1. Goto(h, s) /\ source' = SetFile(source, j.src, Absent) /\ UNCHANGED <<postMu, origin>>
    BY <1>4 DEF RemoveFound
  <2>2. source' \in Snapshots /\ s \in Steps \ {"idle", "read", "building"}
    BY <1>2, <2>1, SetFileType DEF Files, Steps
  <2>3. /\ job'[h].at = s /\ job'[h].kind = j.kind /\ job'[h].slug = j.slug
        /\ job'[h].src = j.src /\ job'[h].dst = j.dst /\ job'[h].seen = j.seen
        /\ job'[h].before = j.before /\ job'[h].new = j.new /\ job'[h].entry = j.entry
    BY <2>1, <2>2, JobGoes DEF Base
  <2> HIDE DEF j
  <2>4. Shape(job[h])'
    BY <1>1, <1>2, <2>3 DEF Shape, Named, Last
  <2>5. external = 0 => source' = Expected(origin, [job[h] EXCEPT !.at = s])
    <3> SUFFICES ASSUME external = 0 PROVE source' = Expected(origin, [job[h] EXCEPT !.at = s])
      OBVIOUS
    <3>1. OnDisk(j)
      BY <1>1 DEF FilesInv, j
    <3>2. source = origin
      BY <1>2, <3>1 DEF OnDisk, Expected
    <3>3. source' = Cleared(origin, j)
      BY <1>2, <2>1, <3>2 DEF Cleared
    <3>4. j.kind = "delete" => Done(origin, j) = Cleared(origin, j)
      BY DEF Done
    <3>5. Expected(origin, [j EXCEPT !.at = s]) = IF j.kind = "undo" THEN Cleared(origin, j) ELSE Done(origin, j)
      BY <1>2, <2>2, ExpectedThen
    <3> QED
      BY <1>2, <3>3, <3>4, <3>5 DEF j
  <2> QED
    BY <1>1, <1>2, <2>1, <2>2, <2>4, <2>5, GoesOn DEF j
<1> QED
  BY <1>3, <1>4

LEMMA WriteNewKeeps ==
    ASSUME Base, FilesInv, NEW h \in Handlers, WriteNew(h)
    PROVE  Base' /\ FilesInv'
<1> DEFINE j == job[h]
           s == IF j.kind = "update" THEN "rename" ELSE "rebuild"
           f == IF j.kind = "undo" THEN j.dst ELSE j.src
<1>1. /\ At(h, "write") /\ Apart /\ UNCHANGED <<audit, past, gap, postMu, origin>>
      /\ ~At(h, "idle") /\ ~At(h, "building") /\ Goto(h, s)
      /\ source' = IF j.new = Absent THEN source ELSE SetFile(source, f, j.new)
  BY SitePart DEF WriteNew, At, Target
<1>2. /\ j \in Jobs /\ Shape(j) /\ source \in Snapshots /\ j.at = "write"
      /\ j.kind \in {"create", "update", "undo"} /\ f = j.dst /\ j.dst \in Posts /\ j.new \in Files
  BY <1>1, OneAtWork DEF Base, Typed, At, Shape, Last, Named, Jobs
<1>3. source' \in Snapshots /\ s \in Steps \ {"idle", "read", "building"}
  BY <1>1, <1>2, SetFileType DEF Steps
<1>4. /\ job'[h].at = s /\ job'[h].kind = j.kind /\ job'[h].slug = j.slug
      /\ job'[h].src = j.src /\ job'[h].dst = j.dst /\ job'[h].seen = j.seen
      /\ job'[h].before = j.before /\ job'[h].new = j.new /\ job'[h].entry = j.entry
  BY <1>1, <1>3, JobGoes DEF Base
<1> HIDE DEF j, f
<1>5. Shape(job[h])'
  BY <1>1, <1>2, <1>4 DEF Shape, Named, Last
<1>6. external = 0 => source' = Expected(origin, [job[h] EXCEPT !.at = s])
  <2> SUFFICES ASSUME external = 0 PROVE source' = Done(origin, j)
    BY <1>2, <1>3, ExpectedThen DEF j
  <2>1. OnDisk(j) /\ Named(j) /\ origin \in Snapshots
    BY <1>1, <1>2 DEF FilesInv, j, Shape, Base, Typed
  <2>2. CASE j.kind = "undo"
    <3>1. source = Cleared(origin, j)
      BY <1>2, <2>1, <2>2 DEF OnDisk, Expected
    <3>2. CASE j.new # Absent
      BY <1>1, <1>2, <2>2, <3>1, <3>2 DEF Done
    <3>3. CASE j.new = Absent
      <4>1. source' = Cleared(origin, j)
        BY <1>1, <3>1, <3>3
      <4>2. Cleared(origin, j) \in Snapshots /\ Empty(Cleared(origin, j), j.slug)
        BY <1>2, <2>1, ClearedIsEmpty DEF OnDisk
      <4>3. Done(origin, j) \in Snapshots /\ Done(origin, j) = SetFile(Cleared(origin, j), j.dst, Absent)
        BY <1>2, <2>1, <2>2, <3>3, DoneHasTheNew DEF OnDisk, Done
      <4>4. \A p \in Posts : Done(origin, j)[p] = Cleared(origin, j)[p]
        <5> DEFINE c == Cleared(origin, j)
        <5>1. SlugOf[j.dst] = j.slug /\ j.dst \in Posts
          BY <2>1, <2>2 DEF Named
        <5>2. c[j.dst] = Absent /\ c \in Snapshots
          BY <4>2, <5>1 DEF Empty
        <5> HIDE DEF c
        <5>3. \A p \in Posts : SetFile(c, j.dst, Absent)[p] = c[p]
          BY <5>1, <5>2, SetFileType DEF Files
        <5> QED
          BY <4>3, <5>3 DEF c
      <4> QED
        BY <4>1, <4>2, <4>3, <4>4, SameFiles
    <3> QED
      BY <3>2, <3>3
  <2>3. CASE j.kind # "undo"
    <3>1. source = origin /\ j.new # Absent /\ j.dst = j.src /\ j.src \in Posts
      BY <1>2, <2>1, <2>3, ArticleConstants DEF OnDisk, Expected, Shape, Last, Named
    <3>2. source' = SetFile(origin, j.dst, j.new)
      BY <1>1, <1>2, <3>1
    <3>3. Cleared(origin, j) = origin \/ Cleared(origin, j) = SetFile(origin, j.dst, Absent)
      BY <3>1 DEF Cleared
    <3>4. Done(origin, j) = SetFile(origin, j.dst, j.new)
      <4>1. SetFile(SetFile(origin, j.dst, Absent), j.dst, j.new) = SetFile(origin, j.dst, j.new)
        <5> DEFINE c == SetFile(origin, j.dst, Absent)
                   d == SetFile(c, j.dst, j.new)
                   e == SetFile(origin, j.dst, j.new)
        <5>1. c \in Snapshots /\ \A q \in Posts : q # j.dst => c[q] = origin[q]
          BY <1>2, <2>1, SetFileType DEF Files
        <5> HIDE DEF c
        <5>2. d \in Snapshots /\ d[j.dst] = j.new /\ \A q \in Posts : q # j.dst => d[q] = c[q]
          BY <1>2, <5>1, SetFileType
        <5>3. e \in Snapshots /\ e[j.dst] = j.new /\ \A q \in Posts : q # j.dst => e[q] = origin[q]
          BY <1>2, <2>1, SetFileType
        <5> HIDE DEF d, e
        <5>4. d = e
          BY <5>1, <5>2, <5>3, SameFiles
        <5> QED
          BY <5>4 DEF c, d, e
      <4> QED
        BY <1>2, <2>3, <3>3, <4>1 DEF Done
    <3> QED
      BY <3>2, <3>4
  <2> QED
    BY <2>2, <2>3
<1> QED
  BY <1>1, <1>2, <1>3, <1>5, <1>6, GoesOn DEF j

\* The holder of the lock, with what the proofs below need of it.
LEMMA AtWork ==
    ASSUME Base, FilesInv, NEW h \in Handlers, ~At(h, "idle")
    PROVE  LET j == job[h] IN
             /\ postMu = h /\ j \in Jobs /\ Shape(j) /\ Named(j) /\ source \in Snapshots
             /\ origin \in Snapshots /\ j.new \in Files /\ j.before \in Files
             /\ HasOld(j) <=> (j.kind # "create" /\ j.src \in Posts)
             /\ external = 0 =>
                  /\ OnDisk(j) /\ Tidy(origin) /\ Found(origin, j) /\ Tidy(Cleared(origin, j))
                  /\ Tidy(Done(origin, j)) /\ Cleared(origin, j) \in Snapshots
                  /\ HasOld(j) => SetFile(Cleared(origin, j), j.src, j.seen) = origin
                  /\ ~HasOld(j) => Cleared(origin, j) = origin
                  /\ j.kind # "delete" => SetFile(Done(origin, j), j.dst, Absent) = Cleared(origin, j)
<1> DEFINE j == job[h]
<1>1. postMu = h /\ j \in Jobs /\ Shape(j) /\ Named(j) /\ source \in Snapshots /\ origin \in Snapshots
  BY OneAtWork DEF Base, Typed
<1> HIDE DEF j
<1>2. j.new \in Files /\ j.before \in Files /\ j.src \in Posts \cup {NoFile}
  BY <1>1 DEF Jobs
<1>3. HasOld(j) <=> (j.kind # "create" /\ j.src \in Posts)
  BY <1>2, ArticleConstants DEF HasOld
<1>4. ASSUME external = 0
      PROVE  /\ OnDisk(j) /\ Tidy(origin) /\ Found(origin, j) /\ Tidy(Cleared(origin, j))
             /\ Tidy(Done(origin, j)) /\ Cleared(origin, j) \in Snapshots
             /\ HasOld(j) => SetFile(Cleared(origin, j), j.src, j.seen) = origin
             /\ ~HasOld(j) => Cleared(origin, j) = origin
             /\ j.kind # "delete" => SetFile(Done(origin, j), j.dst, Absent) = Cleared(origin, j)
  <2>1. OnDisk(j)
    BY <1>4 DEF FilesInv, j
  <2>2. Tidy(origin) /\ Found(origin, j)
    BY <2>1 DEF OnDisk
  <2> QED
    BY <1>1, <2>1, <2>2, StaysTidy, ClearedIsEmpty, DoneHasTheNew
<1> QED
  BY <1>1, <1>2, <1>3, <1>4 DEF j

LEMMA WriteNewFailsKeeps ==
    ASSUME Base, FilesInv, NEW h \in Handlers, WriteNewFails(h)
    PROVE  /\ Base' /\ FilesInv'
           /\ external = 0 /\ ~DiskMayFill => source' = origin
<1> DEFINE j == job[h]
<1>1. /\ DiskMayFill /\ At(h, "write") /\ j.at = "write" /\ Apart /\ UNCHANGED <<audit, past, gap>>
      /\ ~At(h, "idle") /\ ~At(h, "building") /\ Answer(h)
      /\ source' = source \/ (j.kind = "undo" /\ j.src # NoFile /\ source' = SetFile(source, j.src, j.before))
  BY SitePart DEF WriteNewFails, At, FilesUnchanged
<1>2. j.src \in Posts \cup {NoFile}
  BY <1>1, AtWork DEF Jobs
<1>3. source' \in Snapshots
  <2>1. source \in Snapshots /\ j.before \in Files
    BY <1>1, AtWork
  <2> QED
    BY <1>1, <1>2, <2>1, SetFileType
<1>4. ASSUME external = 0 PROVE Tidy(source')
  <2>1. CASE source' = source
    BY <1>4, <2>1 DEF FilesInv
  <2>2. CASE j.kind = "undo" /\ j.src # NoFile /\ source' = SetFile(source, j.src, j.before)
    <3>1. HasOld(j) /\ OnDisk(j) /\ SetFile(Cleared(origin, j), j.src, j.seen) = origin /\ Tidy(origin)
      BY <1>1, <1>2, <1>4, <2>2, AtWork
    <3>2. source = Cleared(origin, j) /\ j.before = j.seen
      BY <1>1, <2>2, <3>1 DEF OnDisk, Expected
    <3> QED
      BY <2>2, <3>1, <3>2
  <2> QED
    BY <1>1, <2>1, <2>2
<1>5. gap' \in BOOLEAN
  BY <1>1 DEF Base, Typed
<1>6. Base' /\ FilesInv'
  BY <1>1, <1>3, <1>4, <1>5, AnswerKeeps
<1> QED
  BY <1>1, <1>6

\* The two steps of a rollback.
LEMMA TakeBackKeeps ==
    ASSUME Base, FilesInv, NEW h \in Handlers, TakeBack(h)
    PROVE  /\ Base' /\ FilesInv'
           /\ external = 0 /\ postMu' = NoThread => source' = origin
<1> DEFINE j == job[h]
<1>1. /\ At(h, "rollback") /\ j.at = "rollback" /\ Apart /\ UNCHANGED <<audit, past, gap>>
      /\ ~At(h, "idle") /\ ~At(h, "building")
      /\ IF j.kind = "delete" THEN source' = source ELSE source' = SetFile(source, j.dst, Absent)
      /\ IF j.before = Absent THEN Answer(h) ELSE Goto(h, "restore") /\ UNCHANGED <<postMu, origin>>
  BY SitePart DEF TakeBack, At, FilesUnchanged, Written
<1>2. /\ j \in Jobs /\ Shape(j) /\ Named(j) /\ postMu = h
      /\ HasOld(j) <=> (j.kind # "create" /\ j.src \in Posts)
      /\ source \in Snapshots
  BY <1>1, AtWork
<1>3. external = 0 =>
        /\ OnDisk(j) /\ Tidy(Cleared(origin, j)) /\ Cleared(origin, j) \in Snapshots
        /\ ~HasOld(j) => Cleared(origin, j) = origin
        /\ j.kind # "delete" => SetFile(Done(origin, j), j.dst, Absent) = Cleared(origin, j)
  BY <1>1, AtWork
<1> HIDE DEF j
<1>4. source' \in Snapshots
  <2>1. CASE j.kind = "delete"
    BY <1>1, <1>2, <2>1
  <2>2. CASE j.kind # "delete"
    BY <1>1, <1>2, <2>2, SetFileType DEF Named, Files
  <2> QED
    BY <2>1, <2>2
<1>5. ASSUME external = 0 PROVE source' = Cleared(origin, j)
  <2>1. source = Done(origin, j)
    BY <1>1, <1>3, <1>5 DEF OnDisk, Expected
  <2> QED
    BY <1>1, <1>3, <1>5, <2>1 DEF Done
<1>6. gap' \in BOOLEAN
  BY <1>1 DEF Base, Typed
<1>7. CASE j.before = Absent
  <2>1. external = 0 => source' = origin
    <3> SUFFICES ASSUME external = 0 PROVE source' = origin
      OBVIOUS
    <3>1. ~HasOld(j)
      BY <1>1, <1>2, <1>3, <1>7 DEF OnDisk, Found
    <3> QED
      BY <1>3, <1>5, <3>1
  <2>2. Base' /\ FilesInv'
    BY <1>1, <1>3, <1>4, <1>5, <1>6, <1>7, AnswerKeeps
  <2> QED
    BY <2>1, <2>2
<1>8. CASE j.before # Absent
  <2>1. Goto(h, "restore") /\ UNCHANGED <<postMu, origin>> /\ "restore" \in Steps \ {"idle", "read", "building"}
    BY <1>1, <1>8 DEF Steps
  <2>2. /\ job'[h].at = "restore" /\ job'[h].kind = j.kind /\ job'[h].slug = j.slug
        /\ job'[h].src = j.src /\ job'[h].dst = j.dst /\ job'[h].seen = j.seen
        /\ job'[h].before = j.before /\ job'[h].new = j.new /\ job'[h].entry = j.entry
    BY <2>1, JobGoes DEF Base, j
  <2>3. Shape(job[h])'
    BY <1>1, <1>2, <1>8, <2>2 DEF Shape, Named, Last
  <2>4. external = 0 => source' = Expected(origin, [job[h] EXCEPT !.at = "restore"])
    BY <1>2, <1>5, <2>1, ExpectedThen DEF j
  <2>5. job[h].at # "read"
    BY <1>1 DEF j
  <2>6. Base' /\ FilesInv'
    BY <1>1, <1>4, <2>1, <2>3, <2>4, <2>5, GoesOn
  <2>7. postMu' # NoThread
    BY <1>2, <2>1, ArticleConstants
  <2> QED
    BY <2>6, <2>7
<1> QED
  BY <1>7, <1>8

LEMMA PutBackKeeps ==
    ASSUME Base, FilesInv, NEW h \in Handlers, PutBack(h)
    PROVE  /\ Base' /\ FilesInv'
           /\ external = 0 /\ ~DiskMayFill => source' = origin
<1> DEFINE j == job[h]
<1>1. /\ At(h, "restore") /\ j.at = "restore" /\ Apart /\ UNCHANGED <<audit, past, gap>>
      /\ ~At(h, "idle") /\ ~At(h, "building") /\ Answer(h)
      /\ source' = SetFile(source, j.src, j.before) \/ (DiskMayFill /\ source' = source)
  BY SitePart DEF PutBack, At, FilesUnchanged
<1>2. /\ j \in Jobs /\ Shape(j) /\ source \in Snapshots /\ j.before \in Files
      /\ HasOld(j) <=> (j.kind # "create" /\ j.src \in Posts)
  BY <1>1, AtWork
<1>3. external = 0 =>
        /\ OnDisk(j) /\ Tidy(origin)
        /\ HasOld(j) => SetFile(Cleared(origin, j), j.src, j.seen) = origin
  BY <1>1, AtWork
<1>4. gap' \in BOOLEAN
  BY <1>1 DEF Base, Typed
<1> HIDE DEF j
<1>5. HasOld(j) /\ j.src \in Posts
  BY <1>1, <1>2 DEF Shape, Last
<1>6. source' \in Snapshots
  BY <1>1, <1>2, <1>5, SetFileType
<1>7. ASSUME external = 0, source' = SetFile(source, j.src, j.before) PROVE source' = origin
  <2>1. source = Cleared(origin, j) /\ j.before = j.seen
    BY <1>1, <1>3, <1>5, <1>7 DEF OnDisk, Expected
  <2> QED
    BY <1>3, <1>5, <1>7, <2>1
<1>8. external = 0 => Tidy(source')
  BY <1>1, <1>3, <1>7 DEF FilesInv
<1>9. Base' /\ FilesInv'
  BY <1>1, <1>4, <1>6, <1>8, AnswerKeeps
<1> QED
  BY <1>1, <1>7, <1>9

\* The new content under its new name, the old name gone.
LEMMA MovedIsDone ==
    ASSUME NEW o \in Snapshots, NEW src \in Posts, NEW want \in Posts, NEW c \in Files, want # src,
           o[src] = Absent
    PROVE  Moved(SetFile(o, src, c), src, want) = SetFile(o, want, c)
<1> DEFINE a == SetFile(o, src, c)
           b == SetFile(a, want, a[src])
           d == SetFile(b, src, Absent)
           e == SetFile(o, want, c)
<1>1. a \in Snapshots /\ a[src] = c /\ \A q \in Posts : q # src => a[q] = o[q]
  BY SetFileType
<1>2. Moved(a, src, want) = d
  BY DEF Moved
<1> HIDE DEF a
<1>3. b \in Snapshots /\ b[want] = c /\ \A q \in Posts : q # want => b[q] = a[q]
  BY <1>1, SetFileType
<1> HIDE DEF b
<1>4. d \in Snapshots /\ d[src] = Absent /\ \A q \in Posts : q # src => d[q] = b[q]
  BY <1>3, SetFileType DEF Files
<1>5. e \in Snapshots /\ e[want] = c /\ \A q \in Posts : q # want => e[q] = o[q]
  BY SetFileType
<1> HIDE DEF d, e
<1>6. d = e
  BY <1>1, <1>3, <1>4, <1>5, SameFiles
<1> QED
  BY <1>2, <1>6 DEF a, e

LEMMA RenameToDateKeeps ==
    ASSUME Base, FilesInv, NEW h \in Handlers, RenameToDate(h)
    PROVE  Base' /\ FilesInv'
<1> DEFINE j == job[h]
           want == <<j.slug, DateOf[j.new]>>
           k == [j EXCEPT !.at = "rebuild", !.dst = want]
<1>1. /\ At(h, "rename") /\ j.at = "rename" /\ Apart /\ UNCHANGED <<audit, past, gap>>
      /\ ~At(h, "idle") /\ ~At(h, "building") /\ UNCHANGED <<postMu, origin>>
      /\ \/ source' = source /\ Goto(h, "rebuild")
         \/ /\ ~(want = j.src \/ source[j.src] = Absent)
            /\ source' = Moved(source, j.src, want) /\ job' = [job EXCEPT ![h] = k]
  BY SitePart DEF RenameToDate, At, FilesUnchanged
<1>2. /\ j \in Jobs /\ Shape(j) /\ Named(j) /\ postMu = h /\ source \in Snapshots /\ origin \in Snapshots
      /\ HasOld(j) <=> (j.kind # "create" /\ j.src \in Posts)
  BY <1>1, AtWork
<1>3. external = 0 => OnDisk(j) /\ Tidy(origin) /\ Found(origin, j)
  BY <1>1, AtWork
<1>4. j.kind = "update" /\ j.dst = j.src /\ HasOld(j) /\ j.src \in Posts /\ j.new \in Contents
  BY <1>1, <1>2 DEF Shape, Last
<1>5. want \in Posts /\ SlugOf[want] = j.slug
  BY <1>2, <1>4, ArticleConstants DEF Named
<1>6. external = 0 => source = SetFile(Cleared(origin, j), j.src, j.new)
  BY <1>1, <1>3, <1>4 DEF OnDisk, Expected, Done
<1>7. CASE source' = source /\ Goto(h, "rebuild")
  <2>1. source' = source /\ Goto(h, "rebuild") /\ "rebuild" \in Steps \ {"idle", "read", "building"}
    BY <1>1, <1>7 DEF Steps
  <2>2. /\ job'[h].at = "rebuild" /\ job'[h].kind = j.kind /\ job'[h].slug = j.slug
        /\ job'[h].src = j.src /\ job'[h].dst = j.dst /\ job'[h].seen = j.seen
        /\ job'[h].before = j.before /\ job'[h].new = j.new /\ job'[h].entry = j.entry
    BY <2>1, JobGoes DEF Base
  <2> HIDE DEF j
  <2>3. Shape(job[h])'
    BY <1>1, <1>2, <1>4, <2>2 DEF Shape, Named, Last
  <2>4. Expected(origin, [j EXCEPT !.at = "rebuild"]) = Done(origin, j)
    BY <1>2, <2>1, ExpectedThen
  <2>5. external = 0 => source' = Expected(origin, [job[h] EXCEPT !.at = "rebuild"])
    BY <1>4, <1>6, <2>1, <2>4 DEF j, Done
  <2> QED
    BY <1>1, <1>2, <2>1, <2>3, <2>5, GoesOn DEF j
<1>8. CASE /\ ~(want = j.src \/ source[j.src] = Absent)
           /\ source' = Moved(source, j.src, want) /\ job' = [job EXCEPT ![h] = k]
  <2>1. source' = Moved(source, j.src, want) /\ job' = [job EXCEPT ![h] = k]
    BY <1>1, <1>8
  <2> HIDE DEF j, want
  <2>2. /\ k \in Jobs /\ k.at = "rebuild" /\ k.dst = want /\ k.kind = j.kind /\ k.slug = j.slug /\ k.src = j.src
        /\ k.seen = j.seen /\ k.before = j.before /\ k.new = j.new /\ k.entry = j.entry
    BY <1>2, <1>5 DEF Jobs, Steps
  <2> HIDE DEF k
  <2>3. job' \in [Handlers -> Jobs] /\ job'[h] = k /\ \A g \in Handlers \ {h} : job'[g] = job[g]
    BY <2>1, <2>2, JobChanged DEF Base
  <2>4. Shape(job[h])'
    BY <1>1, <1>2, <1>4, <1>5, <2>2, <2>3 DEF Shape, Named, Last
  <2>5. source' \in Snapshots
    <3>1. source[j.src] \in Files
      BY <1>2, <1>4 DEF Snapshots, Files
    <3>2. SetFile(source, want, source[j.src]) \in Snapshots
      BY <1>2, <1>5, <3>1, SetFileType
    <3> QED
      BY <1>4, <2>1, <3>2, SetFileType DEF Moved, Files
  <2>6. Base'
    BY <1>1, <2>2, <2>3, <2>4, <2>5, StepKeepsBase
  <2>7. external = 0 => OnDisk(job[h])'
    <3> SUFFICES ASSUME external = 0 PROVE OnDisk(job[h])'
      OBVIOUS
    <3> DEFINE o == Cleared(origin, j)
    <3>1. o \in Snapshots /\ Empty(o, j.slug)
      BY <1>2, <1>3, ClearedIsEmpty
    <3>2. source = SetFile(o, j.src, j.new)
      BY <1>6
    <3> HIDE DEF o
    <3>3. o[j.src] = Absent /\ j.new \in Files
      BY <1>2, <1>4, <3>1, ArticleConstants DEF Empty, Named, Files
    <3>4. want # j.src
      BY <1>8
    <3>5. source' = SetFile(o, want, j.new)
      BY <1>4, <1>5, <2>1, <3>1, <3>2, <3>3, <3>4, MovedIsDone
    <3>6. HasOld(k) /\ Cleared(origin, k) = o
      BY <1>4, <2>2 DEF HasOld, Cleared, o
    <3>7. source' = Expected(origin, k)
      BY <1>4, <2>2, <3>5, <3>6 DEF Expected, Done
    <3>8. Tidy(origin) /\ Found(origin, k) /\ k.before = k.seen
      BY <1>1, <1>3, <1>4, <2>2, <3>6 DEF OnDisk, Found
    <3> QED
      BY <1>1, <2>2, <2>3, <3>6, <3>7, <3>8 DEF OnDisk
  <2> QED
    BY <1>1, <1>2, <2>6, <2>7, FilesStep DEF Apart
<1> QED
  BY <1>1, <1>7, <1>8

\* The row of the audit log, and the files it remembers.
LEMMA RowType ==
    ASSUME Base, NEW h \in Handlers, At(h, "record")
    PROVE  LET r == Row(job[h])
               f == [p \in {q \in Posts : SlugOf[q] = job[h].slug} |-> origin[p]]
           IN  /\ r \in Entries /\ SlugOf[r.name] = r.slug /\ f \in Pasts
               /\ r.kind = job[h].kind /\ r.slug = job[h].slug /\ r.name = RowName(job[h])
               /\ r.before = job[h].before /\ r.after = job[h].new
               /\ r.beforeRev = RevBefore(job[h]) /\ r.afterRev = RevAfter(job[h])
<1> DEFINE j == job[h]
           r == Row(j)
           f == [p \in {q \in Posts : SlugOf[q] = j.slug} |-> origin[p]]
<1>1. j \in Jobs /\ Shape(j) /\ Named(j) /\ j.at = "record"
  BY OneAtWork DEF At
<1> HIDE DEF j
<1>2. j.kind \in Kinds /\ j.slug \in Slugs
  BY <1>1 DEF Shape, Kinds, Named
<1>3. RowName(j) \in Posts /\ SlugOf[RowName(j)] = j.slug
  BY <1>1, ArticleConstants DEF RowName, Shape, Named
<1>4. j.before \in Files /\ j.new \in Files /\ j.seen \in Files
  BY <1>1 DEF Jobs
<1>5. RevBefore(j) \in Files /\ RevAfter(j) \in Files
  <2>1. CASE j.kind = "undo"
    <3>1. j.entry \in 1..Len(audit)
      BY <1>1, <2>1 DEF Shape
    <3> QED
      BY <2>1, <3>1, RowFields DEF RevBefore, RevAfter
  <2>2. CASE j.kind # "undo"
    BY <1>4, <2>2 DEF RevBefore, RevAfter
  <2> QED
    BY <2>1, <2>2
<1>6. r \in Entries
  BY <1>2, <1>3, <1>4, <1>5 DEF Row, Entries, Files
<1>7. /\ r.kind = j.kind /\ r.slug = j.slug /\ r.name = RowName(j) /\ r.before = j.before
      /\ r.after = j.new /\ r.beforeRev = RevBefore(j) /\ r.afterRev = RevAfter(j)
  BY DEF Row
<1>8. f \in Pasts
  <2>1. f \in [FilesNamed(j.slug) -> Files]
    BY DEF f, FilesNamed, Base, Typed, Snapshots, Files
  <2> QED
    BY <1>2, <2>1 DEF Pasts
<1> QED
  BY <1>3, <1>6, <1>7, <1>8 DEF j

LEMMA RecordKeeps ==
    ASSUME Base, FilesInv, NEW h \in Handlers, Record(h)
    PROVE  Base' /\ FilesInv'
<1> DEFINE j == job[h]
           r == Row(j)
           f == [p \in {q \in Posts : SlugOf[q] = j.slug} |-> origin[p]]
<1>1. /\ At(h, "record") /\ ~At(h, "idle") /\ ~At(h, "building") /\ Answer(h)
      /\ source' = source /\ UNCHANGED <<ops, external, crashes>>
      /\ \/ audit' = Append(audit, r) /\ past' = Append(past, f) /\ gap' = gap
         \/ gap' = TRUE /\ UNCHANGED <<audit, past>>
  BY DEF Record, FilesUnchanged, At
<1>2. Apart
  BY DEF Record, SiteUnchanged, Apart, jobVars
<1>3. r \in Entries /\ SlugOf[r.name] = r.slug /\ f \in Pasts
  BY <1>1, RowType
<1>4. audit \in Seq(Entries) /\ past \in Seq(Pasts) /\ Len(past) = Len(audit) /\ RowsNamed
  BY DEF Base, Typed
<1> HIDE DEF r, f
<1>5. /\ audit' \in Seq(Entries) /\ past' \in Seq(Pasts) /\ Len(past') = Len(audit')
      /\ RowsNamed' /\ gap' \in BOOLEAN
  <2>1. CASE audit' = Append(audit, r) /\ past' = Append(past, f) /\ gap' = gap
    <3>1. /\ audit' \in Seq(Entries) /\ Len(audit') = Len(audit) + 1 /\ audit'[Len(audit) + 1] = r
          /\ \A i \in 1..Len(audit) : audit'[i] = audit[i]
      BY <1>3, <1>4, <2>1, AppendProperties
    <3>2. past' \in Seq(Pasts) /\ Len(past') = Len(past) + 1
      BY <1>3, <1>4, <2>1, AppendProperties
    <3>3. Len(audit) \in Nat
      BY <1>4, LenProperties
    <3>4. RowsNamed'
      BY <1>3, <1>4, <3>1, <3>3 DEF RowsNamed
    <3> QED
      BY <1>4, <2>1, <3>1, <3>2, <3>4 DEF Base, Typed
  <2>2. CASE gap' = TRUE /\ UNCHANGED <<audit, past>>
    BY <1>4, <2>2 DEF RowsNamed
  <2> QED
    BY <1>1, <2>1, <2>2
<1>6. source' \in Snapshots
  BY <1>1 DEF Base, Typed
<1>7. Base'
  BY <1>1, <1>2, <1>5, <1>6, AnswerKeepsBase
<1>8. postMu' = NoThread /\ (external' = 0 => Tidy(source'))
  BY <1>1 DEF Answer, FilesInv
<1> QED
  BY <1>7, <1>8, FilesEnd

-----------------------------------------------------------------------------
(* The steps of rebuilds, and of the rest of the world.                      *)

\* The operation, if any, that is waiting for the rebuild, moves with it; the files do not.
LEMMA RebuildKeeps ==
    ASSUME Base, FilesInv, Rebuilding', Held',
           snap' \in Snapshots, chosen' \in Sites, site' \in Sites \cup {NoSite},
           builder' \in Threads \cup {NoThread}, now' \in Nat, crashes' \in Nat,
           UNCHANGED <<source, postMu, origin, audit, past, gap, external>>,
           job' = job \/ \E h \in Handlers, s \in Last : job[h].at \in {"rebuild", "building"} /\ Goto(h, s)
    PROVE  Base' /\ FilesInv'
<1>1. CASE job' = job
  <2>1. Typed' /\ RowsNamed'
    BY <1>1 DEF Base, Typed, RowsNamed
  <2>2. \A g \in Handlers : (~At(g, "idle"))' => Shape(job[g])'
    BY <1>1 DEF Base, At, Shape
  <2>3. Base'
    BY <2>1, <2>2 DEF Base
  <2>4. FilesInv'
    BY <1>1 DEF FilesInv, OnDisk, At
  <2> QED
    BY <2>3, <2>4
<1>2. CASE \E h \in Handlers, s \in Last : job[h].at \in {"rebuild", "building"} /\ Goto(h, s)
  <2>1. PICK h \in Handlers, s \in Last : job[h].at \in {"rebuild", "building"} /\ Goto(h, s)
    BY <1>2
  <2> DEFINE j == job[h]
  <2>2. s \in Steps /\ s # "idle" /\ ~At(h, "idle")
    BY <2>1 DEF Last, Steps, At
  <2>3. j \in Jobs /\ Shape(j) /\ postMu = h
    BY <2>2, AtWork
  <2>4. external = 0 => OnDisk(j)
    BY <2>2, AtWork
  <2>5. /\ job' \in [Handlers -> Jobs] /\ \A g \in Handlers \ {h} : job'[g] = job[g]
        /\ job'[h] = [j EXCEPT !.at = s] /\ job'[h].at = s
        /\ job'[h].kind = j.kind /\ job'[h].slug = j.slug
        /\ job'[h].src = j.src /\ job'[h].dst = j.dst /\ job'[h].seen = j.seen
        /\ job'[h].before = j.before /\ job'[h].new = j.new /\ job'[h].entry = j.entry
    BY <2>1, <2>2, JobGoes DEF Base
  <2>6. j.at \in Last
    BY <2>1 DEF Last
  <2> HIDE DEF j
  <2>7. Shape(job[h])'
    BY <2>3, <2>5, <2>6 DEF Shape, Named, Last
  <2>8. Typed' /\ RowsNamed'
    BY <2>5 DEF Base, Typed, RowsNamed
  <2>9. \A g \in Handlers \ {h} : At(g, "idle") /\ At(g, "idle")'
    BY <2>3, <2>5 DEF Base, Held, At
  <2>10. Base'
    BY <2>7, <2>8, <2>9 DEF Base
  <2>11. external = 0 => OnDisk(job[h])'
    <3> SUFFICES ASSUME external = 0 PROVE OnDisk(job[h])'
      OBVIOUS
    <3>1. Expected(origin, [j EXCEPT !.at = s]) = Done(origin, j) /\ s # "read"
      BY <2>1, <2>2, <2>3, ExpectedThen DEF Last
    <3>2. source = Done(origin, j) /\ j.at # "read"
      BY <2>4, <2>6 DEF OnDisk, Expected, Last
    <3>3. HasOld(job'[h]) <=> HasOld(j)
      BY <2>5 DEF HasOld
    <3> QED
      BY <2>4, <2>5, <3>1, <3>2, <3>3 DEF OnDisk, Found
  <2> QED
    BY <2>3, <2>10, <2>11, FilesStep
<1> QED
  BY <1>1, <1>2

LEMMA BeginKeeps ==
    ASSUME Base, FilesInv, NEW t \in Threads, StartRebuild(t)
    PROVE  Base' /\ FilesInv'
<1>1. /\ builder = NoThread /\ builder' = t /\ phase' = "begun"
      /\ UNCHANGED <<source, now, site, snap, chosen, postMu, origin, audit, past, gap, external, crashes>>
      /\ IF t \in Handlers THEN job[t].at = "rebuild" /\ Goto(t, "building") ELSE job' = job
  BY DEF StartRebuild, Begin, envVars, At, logVars
<1>2. snap = NoPosts /\ phase = "idle"
  BY <1>1 DEF Base, Rebuilding
<1>3. Rebuilding'
  BY <1>1, <1>2, ArticleConstants DEF Rebuilding
<1>4. Held'
  <2>1. CASE t \in Handlers
    <3>1. /\ job'[t].at = "building" /\ job[t].at = "rebuild" /\ \A g \in Handlers \ {t} : job'[g] = job[g]
      BY <1>1, <2>1, JobGoes DEF Base, Steps
    <3> QED
      BY <1>1, <2>1, <3>1, ArticleConstants DEF Base, Held, At
  <2>2. CASE t \notin Handlers
    BY <1>1, <2>2, ArticleConstants DEF Base, Held, At
  <2> QED
    BY <2>1, <2>2
<1>5. job' = job \/ \E h \in Handlers, s \in Last : job[h].at \in {"rebuild", "building"} /\ Goto(h, s)
  BY <1>1 DEF Last
<1> QED
  BY <1>1, <1>3, <1>4, <1>5, RebuildKeeps DEF Base, Typed

LEMMA WorkingKeeps ==
    ASSUME Base, FilesInv, Working
    PROVE  Base' /\ FilesInv'
<1>1. /\ UNCHANGED <<source, now, site, builder, job, postMu, origin, audit, past, gap, external, crashes>>
      /\ phase # "idle" /\ phase' \notin {"idle", "begun"} /\ snap' \in Snapshots /\ chosen' \in Sites
  <2>1. CASE List
    BY <2>1 DEF Working, List, envVars, jobsVars, logVars, Base, Typed
  <2>2. CASE \E p \in Posts : Read(p)
    <3>1. PICK p \in Posts : Read(p)
      BY <2>2
    <3>2. snap' = [snap EXCEPT ![p] = source[p]] /\ snap' \in Snapshots
      BY <3>1 DEF Read, Base, Typed, Snapshots
    <3> QED
      BY <3>1, <3>2 DEF Working, Read, envVars, jobsVars, logVars, Base, Typed
  <2>3. CASE Choose
    <3>1. chosen' \in Sites
      BY <2>3, PublishedType DEF Choose, Base, Typed
    <3> QED
      BY <2>3, <3>1 DEF Working, Choose, envVars, jobsVars, logVars, Base, Typed
  <2> QED
    BY <2>1, <2>2, <2>3 DEF Working
<1>2. Rebuilding'
  BY <1>1 DEF Base, Rebuilding
<1>3. Held'
  BY <1>1 DEF Base, Held, At
<1> QED
  BY <1>1, <1>2, <1>3, RebuildKeeps DEF Base, Typed

\* A rebuild comes to an end, well or not.
LEMMA EndKeeps ==
    ASSUME Base, FilesInv, NEW s \in {"record", "rollback"}, phase # "idle", EndJob,
           site' \in Sites \cup {NoSite},
           UNCHANGED <<source, now, postMu, origin, audit, past, gap, external, crashes>>,
           IF builder \in Handlers THEN Goto(builder, s) ELSE job' = job
    PROVE  Base' /\ FilesInv'
<1> PICK b \in Threads : b = builder
  BY DEF Base, Typed, Rebuilding
<1>1. builder' = NoThread /\ phase' = "idle" /\ snap' = NoPosts /\ chosen' = NoArticles
  BY DEF EndJob
<1>2. Rebuilding'
  BY <1>1 DEF Rebuilding
<1>3. s \in Last /\ s \in Steps /\ s # "building" /\ s # "idle"
  BY DEF Last, Steps
<1>4. CASE b \in Handlers
  <2>1. Goto(b, s) /\ job[b].at = "building"
    BY <1>4 DEF Base, Held, At
  <2>2. job'[b].at = s /\ \A g \in Handlers \ {b} : job'[g] = job[g]
    BY <1>3, <1>4, <2>1, JobGoes DEF Base
  <2>3. Held'
    BY <1>1, <1>3, <1>4, <2>1, <2>2, ArticleConstants DEF Base, Held, At
  <2>4. \E h \in Handlers, r \in Last : job[h].at \in {"rebuild", "building"} /\ Goto(h, r)
    BY <1>3, <1>4, <2>1
  <2> QED
    BY <1>1, <1>2, <2>3, <2>4, RebuildKeeps, EmptyTypes DEF Base, Typed
<1>5. CASE b \notin Handlers
  <2>1. job' = job
    BY <1>5
  <2>2. Held'
    BY <1>1, <1>5, <2>1, ArticleConstants DEF Base, Held, At
  <2> QED
    BY <1>1, <1>2, <2>1, <2>2, RebuildKeeps, EmptyTypes DEF Base, Typed
<1> QED
  BY <1>4, <1>5

LEMMA DoneKeeps ==
    ASSUME Base, FilesInv, RebuildDone
    PROVE  Base' /\ FilesInv'
<1>1. phase # "idle" /\ EndJob /\ site' \in Sites \cup {NoSite}
  BY DEF RebuildDone, Publish, Base, Typed
<1>2. UNCHANGED <<source, now, postMu, origin, audit, past, gap, external, crashes>>
  BY DEF RebuildDone, Publish, envVars, logVars
<1>3. IF builder \in Handlers THEN Goto(builder, "record") ELSE job' = job
  BY DEF RebuildDone
<1> QED
  BY <1>1, <1>2, <1>3, EndKeeps

LEMMA FailedKeeps ==
    ASSUME Base, FilesInv, RebuildFailed
    PROVE  Base' /\ FilesInv'
<1>1. phase # "idle" /\ EndJob /\ site' \in Sites \cup {NoSite}
  BY DEF RebuildFailed, Fail, Base, Typed, Rebuilding
<1>2. UNCHANGED <<source, now, postMu, origin, audit, past, gap, external, crashes>>
  BY DEF RebuildFailed, Fail, envVars, logVars
<1>3. IF builder \in Handlers THEN Goto(builder, "rollback") ELSE job' = job
  BY DEF RebuildFailed
<1> QED
  BY <1>1, <1>2, <1>3, EndKeeps

LEMMA OutsideKeeps ==
    ASSUME Base, FilesInv, NEW p \in Posts, NEW c \in Contents \cup {Absent}, EditOutside(p, c)
    PROVE  Base' /\ FilesInv' /\ external' # 0
<1>1. /\ external' = external + 1 /\ gap' = TRUE /\ source' = [source EXCEPT ![p] = c]
      /\ UNCHANGED <<now, site, builder, phase, snap, chosen, job, postMu, origin, audit, past, crashes>>
  BY DEF EditOutside, Edit, jobVars, jobsVars
<1>2. source' \in Snapshots
  BY <1>1 DEF Base, Typed, Snapshots
<1>3. Typed' /\ external' # 0
  BY <1>1, <1>2 DEF Base, Typed
<1>4. Held' /\ Rebuilding' /\ RowsNamed' /\ \A h \in Handlers : (~At(h, "idle"))' => Shape(job[h])'
  BY <1>1 DEF Base, Held, Rebuilding, RowsNamed, At, Shape
<1> QED
  BY <1>3, <1>4 DEF Base, FilesInv

LEMMA TimeKeeps ==
    ASSUME Base, FilesInv, TimePasses
    PROVE  Base' /\ FilesInv'
<1>1. /\ now' = now + 1
      /\ UNCHANGED <<source, site, builder, phase, snap, chosen, job, postMu, origin, audit, past, gap, external, crashes>>
  BY DEF TimePasses, Tick, jobVars, jobsVars, logVars
<1>2. Held' /\ Rebuilding'
  BY <1>1 DEF Base, Held, Rebuilding, At
<1>3. now' \in Nat
  BY <1>1 DEF Base, Typed
<1> QED
  BY <1>1, <1>2, <1>3, RebuildKeeps DEF Base, Typed

LEMMA DieKeeps ==
    ASSUME Base, FilesInv, Die
    PROVE  /\ Base' /\ FilesInv' /\ source' = source /\ crashes' # crashes /\ external' = external
           /\ postMu' = NoThread /\ \A h \in Handlers : At(h, "idle")'
<1>1. /\ crashes' = crashes + 1 /\ postMu' = NoThread /\ job' = [h \in Handlers |-> NoOp] /\ origin' = NoPosts
      /\ builder' = NoThread /\ phase' = "idle" /\ snap' = NoPosts /\ chosen' = NoArticles /\ site' = NoSite
      /\ gap' = (gap \/ postMu # NoThread)
      /\ UNCHANGED <<source, now, audit, past, external>>
  BY DEF Die, Crash, EndJob, envVars
<1>2. job' \in [Handlers -> Jobs] /\ \A h \in Handlers : At(h, "idle")' /\ job'[h].kind = "none"
  BY <1>1, EmptyTypes DEF At
<1>3. Typed' /\ crashes' # crashes
  BY <1>1, <1>2, EmptyTypes DEF Base, Typed
<1>4. Held' /\ Rebuilding' /\ RowsNamed'
  BY <1>1, <1>2, ArticleConstants DEF Base, Held, Rebuilding, RowsNamed, At
<1>5. Base'
  BY <1>2, <1>3, <1>4 DEF Base
<1>6. FilesInv'
  BY <1>1, <1>2 DEF FilesInv
<1> QED
  BY <1>1, <1>2, <1>3, <1>5, <1>6

LEMMA StutterKeeps ==
    ASSUME Base, FilesInv, UNCHANGED vars
    PROVE  Base' /\ FilesInv'
<1>1. UNCHANGED <<source, now, site, builder, phase, snap, chosen, job, postMu, origin, audit, past, gap, external, crashes>>
  BY DEF vars, sbVars, jobVars, jobsVars, logVars
<1>2. Held' /\ Rebuilding'
  BY <1>1 DEF Base, Held, Rebuilding, At
<1> QED
  BY <1>1, <1>2, RebuildKeeps DEF Base, Typed

LEMMA NextKeeps ==
    ASSUME Base, FilesInv, [ArticlesNext]_vars
    PROVE  Base' /\ FilesInv'
<1>1. ASSUME NEW h \in Handlers, Starting(h) PROVE Base' /\ FilesInv'
  BY <1>1, StartingKeeps
<1>2. ASSUME NEW h \in Handlers, \/ ReadBefore(h) \/ RemoveFound(h) \/ WriteNew(h) \/ WriteNewFails(h)
                                 \/ RenameToDate(h) \/ TakeBack(h) \/ PutBack(h) \/ Record(h)
      PROVE  Base' /\ FilesInv'
  BY <1>2, ReadBeforeKeeps, RemoveFoundKeeps, WriteNewKeeps, WriteNewFailsKeeps, RenameToDateKeeps,
     TakeBackKeeps, PutBackKeeps, RecordKeeps
<1>3. CASE \/ \E t \in Threads : StartRebuild(t)
           \/ Working \/ RebuildDone \/ RebuildFailed
           \/ \E p \in Posts, c \in Contents \cup {Absent} : EditOutside(p, c)
           \/ TimePasses \/ Die
  BY <1>3, BeginKeeps, WorkingKeeps, DoneKeeps, FailedKeeps, OutsideKeeps, TimeKeeps, DieKeeps
<1>4. CASE UNCHANGED vars
  BY <1>4, StutterKeeps
<1> QED
  BY <1>1, <1>2, <1>3, <1>4 DEF ArticlesNext, Starting

LEMMA InitKeeps ==
    ASSUME TidyInit
    PROVE  Base /\ FilesInv
<1>1. /\ source \in Snapshots /\ now = 0 /\ site = NoSite /\ builder = NoThread /\ phase = "idle"
      /\ snap = NoPosts /\ chosen = NoArticles /\ postMu = NoThread /\ job = [h \in Handlers |-> NoOp]
      /\ audit = <<>> /\ past = <<>> /\ origin = NoPosts /\ gap = FALSE /\ external = 0 /\ crashes = 0
  BY DEF TidyInit, ArticlesInit, Init, NoJob
<1>2. job \in [Handlers -> Jobs] /\ \A h \in Handlers : At(h, "idle") /\ job[h].kind = "none"
  BY <1>1, EmptyTypes DEF At
<1>3. audit \in Seq(Entries) /\ past \in Seq(Pasts) /\ Len(past) = Len(audit) /\ RowsNamed
  BY <1>1, EmptySeq DEF RowsNamed
<1>4. Typed
  BY <1>1, <1>2, <1>3, EmptyTypes DEF Typed
<1>5. Held /\ Rebuilding
  BY <1>1, <1>2, ArticleConstants DEF Held, Rebuilding, At
<1>6. Tidy(source)
  BY ArticleConstants DEF TidyInit, Loadable, Clashes, Tidy
<1> QED
  BY <1>2, <1>3, <1>4, <1>5, <1>6 DEF Base, FilesInv

\* The invariant of the operations: what they are about, and what they make of the files.
FilesAlways == Base /\ FilesInv

LEMMA FilesAlwaysHold == TidySpec => []FilesAlways
<1>1. TidyInit => FilesAlways
  BY InitKeeps DEF FilesAlways
<1>2. FilesAlways /\ [ArticlesNext]_vars => FilesAlways'
  BY NextKeeps DEF FilesAlways
<1> QED
  BY <1>1, <1>2, PTL DEF TidySpec

\* Every operation knows of rows of the audit log only that there are.
EntriesKnown == \A h \in Handlers : job[h].entry \in 0..Len(audit)

LEMMA EntriesKnownStep ==
    ASSUME FilesAlways, EntriesKnown, [ArticlesNext]_vars
    PROVE  EntriesKnown'
<1> DEFINE n == Len(audit)
<1>1. job \in [Handlers -> Jobs] /\ n \in Nat /\ NoOp.entry = 0 /\ audit \in Seq(Entries) /\ DOMAIN audit = 1..n
  BY LenProperties DEF FilesAlways, Base, Typed, NoOp
<1>2. ASSUME NEW h \in Handlers, NEW j, Start(h, j), j.entry \in 0..n PROVE EntriesKnown'
  BY <1>1, <1>2 DEF Start, logVars, EntriesKnown
<1>3. ASSUME NEW h \in Handlers, Starting(h) PROVE EntriesKnown'
  <2>1. ASSUME NEW x \in Slugs, NEW c \in Contents, StartCreate(h, x, c) PROVE EntriesKnown'
    <3>1. CreateOp(x, c).entry = 0
      BY DEF CreateOp, NoOp
    <3>2. Start(h, CreateOp(x, c))
      BY <2>1 DEF StartCreate, CreateOp
    <3> QED
      BY <1>1, <1>2, <3>1, <3>2
  <2>2. ASSUME NEW p \in Posts, NEW c \in Contents, NEW e \in Contents \cup {Absent}, StartUpdate(h, p, c, e)
        PROVE  EntriesKnown'
    <3>1. UpdateOp(p, c).entry = 0
      BY DEF UpdateOp, NoOp
    <3>2. Start(h, UpdateOp(p, c))
      BY <2>2 DEF StartUpdate, UpdateOp
    <3> QED
      BY <1>1, <1>2, <3>1, <3>2
  <2>3. ASSUME NEW p \in Posts, NEW e \in Contents \cup {Absent}, StartDelete(h, p, e) PROVE EntriesKnown'
    <3>1. DeleteOp(p).entry = 0
      BY DEF DeleteOp, NoOp
    <3>2. Start(h, DeleteOp(p))
      BY <2>3 DEF StartDelete, DeleteOp
    <3> QED
      BY <1>1, <1>2, <3>1, <3>2
  <2>4. ASSUME NEW i \in 1..n, StartUndo(h, i) PROVE EntriesKnown'
    <3>1. UndoEmpty(i).entry = i /\ \A p : UndoOver(i, p).entry = i
      BY DEF UndoEmpty, UndoOver, UndoOp, NoOp
    <3>2. Start(h, UndoEmpty(i)) \/ \E p \in FilesOf(audit[i].slug) : Start(h, UndoOver(i, p))
      BY <2>4 DEF StartUndo, UndoEmpty, UndoOver, UndoOp
    <3>3. i \in 0..n
      BY <1>1
    <3> QED
      BY <1>2, <3>1, <3>2, <3>3
  <2> QED
    BY <1>1, <1>3, <2>1, <2>2, <2>3, <2>4 DEF Starting
<1>4. ASSUME NEW h \in Handlers, NEW s, Goto(h, s), audit' = audit PROVE EntriesKnown'
  <2>1. \A g \in Handlers : job'[g].entry = job[g].entry
    BY <1>1, <1>4 DEF Goto, Jobs
  <2> QED
    BY <1>4, <2>1 DEF EntriesKnown
<1>5. ASSUME NEW h \in Handlers, Answer(h), Len(audit') \in Nat, Len(audit') >= n PROVE EntriesKnown'
  <2>1. \A g \in Handlers : job'[g].entry = job[g].entry \/ job'[g].entry = 0
    BY <1>1, <1>5, JobEnds DEF FilesAlways, Base
  <2>2. \A g \in Handlers : job'[g].entry \in 0..n
    BY <1>1, <2>1 DEF EntriesKnown
  <2> QED
    BY <1>1, <1>5, <2>2 DEF EntriesKnown
<1>6. ASSUME NEW h \in Handlers, \/ RemoveFound(h) \/ WriteNew(h) \/ WriteNewFails(h) \/ TakeBack(h) \/ PutBack(h)
      PROVE  EntriesKnown'
  <2>1. audit' = audit
    BY <1>6 DEF RemoveFound, WriteNew, WriteNewFails, TakeBack, PutBack, logVars
  <2>2. Answer(h) \/ \E s : Goto(h, s)
    BY <1>6 DEF RemoveFound, WriteNew, WriteNewFails, TakeBack, PutBack
  <2> QED
    BY <1>1, <1>4, <1>5, <2>1, <2>2
<1>7. ASSUME NEW h \in Handlers, ReadBefore(h) PROVE EntriesKnown'
  <2>1. audit' = audit
    BY <1>7 DEF ReadBefore, logVars
  <2>2. CASE Answer(h)
    BY <1>1, <1>5, <2>1, <2>2
  <2>3. CASE ~Answer(h)
    <3>1. \E b, s : job' = [job EXCEPT ![h] = [job[h] EXCEPT !.before = b, !.at = s]]
      <4>1. source[job[h].src] # Absent
        BY <1>7, <2>3 DEF ReadBefore
      <4> HIDE <2>3
      <4>2. job' = [job EXCEPT ![h].before = source[job[h].src],
                               ![h].at = IF job[h].kind = "update" THEN "write" ELSE "remove"]
        BY <1>7, <4>1 DEF ReadBefore
      <4> QED
        BY <4>2
    <3>2. \A g \in Handlers : job'[g].entry = job[g].entry
      BY <1>1, <3>1 DEF Jobs
    <3> QED
      BY <2>1, <3>2 DEF EntriesKnown
  <2> QED
    BY <2>2, <2>3
<1>8. ASSUME NEW h \in Handlers, RenameToDate(h) PROVE EntriesKnown'
  <2>1. audit' = audit
    BY <1>8 DEF RenameToDate, logVars
  <2>2. CASE Goto(h, "rebuild")
    BY <1>4, <2>1, <2>2
  <2>3. CASE ~Goto(h, "rebuild")
    <3>1. \E s, d : job' = [job EXCEPT ![h] = [job[h] EXCEPT !.at = s, !.dst = d]]
      <4>1. job' = [job EXCEPT ![h].at = "rebuild", ![h].dst = <<job[h].slug, DateOf[job[h].new]>>]
        BY <1>8, <2>3 DEF RenameToDate
      <4> QED
        BY <4>1
    <3>2. \A g \in Handlers : job'[g].entry = job[g].entry
      BY <1>1, <3>1 DEF Jobs
    <3> QED
      BY <2>1, <3>2 DEF EntriesKnown
  <2> QED
    BY <2>2, <2>3
<1>9. ASSUME NEW h \in Handlers, Record(h) PROVE EntriesKnown'
  <2>1. Answer(h) /\ (audit' = audit \/ audit' = Append(audit, Row(job[h])))
    BY <1>9 DEF Record
  <2>2. Row(job[h]) \in Entries
    BY <1>9, RowType DEF FilesAlways, Record
  <2>3. Len(audit') \in Nat /\ Len(audit') >= n
    BY <1>1, <2>1, <2>2, AppendProperties
  <2> QED
    BY <1>5, <2>1, <2>3
<1>10. CASE \/ \E t \in Threads : StartRebuild(t)
            \/ RebuildDone \/ RebuildFailed
  <2>1. audit' = audit
    BY <1>10 DEF StartRebuild, RebuildDone, RebuildFailed, logVars
  <2>2. job' = job \/ \E h \in Handlers, s \in Steps : Goto(h, s)
    BY <1>10 DEF StartRebuild, RebuildDone, RebuildFailed, Steps
  <2> QED
    BY <1>4, <2>1, <2>2 DEF EntriesKnown
<1>11. CASE \/ Working \/ TimePasses \/ UNCHANGED vars
            \/ \E p \in Posts, c \in Contents \cup {Absent} : EditOutside(p, c)
  <2>1. audit' = audit /\ job' = job
    BY <1>11 DEF Working, EditOutside, TimePasses, logVars, jobsVars, vars
  <2> QED
    BY <2>1 DEF EntriesKnown
<1>12. CASE Die
  <2>1. audit' = audit /\ \A h \in Handlers : job'[h] = NoOp
    BY <1>12 DEF Die
  <2> QED
    BY <1>1, <2>1 DEF EntriesKnown
<1> QED
  BY <1>3, <1>6, <1>7, <1>8, <1>9, <1>10, <1>11, <1>12 DEF ArticlesNext, Starting

LEMMA EntriesKnownAlways == TidySpec => []EntriesKnown
<1>1. TidyInit => EntriesKnown
  <2>1. NoOp.entry = 0
    BY DEF NoOp
  <2> QED
    BY <2>1, EmptySeq DEF TidyInit, ArticlesInit, EntriesKnown
<1>2. FilesAlways /\ EntriesKnown /\ [ArticlesNext]_vars => EntriesKnown'
  BY EntriesKnownStep
<1> QED
  BY <1>1, <1>2, FilesAlwaysHold, PTL DEF TidySpec

-----------------------------------------------------------------------------
(* The properties that rest on it.                                           *)

\* Whatever fails and whoever edits files, at most one operation is at work: postMu makes
\* create, update, delete and undo exclude one another (mux.go), and all they keep has its
\* type.
THEOREM OperationsExclude == TidySpec => []ArticlesTypeOK
<1>1. FilesAlways /\ EntriesKnown => ArticlesTypeOK
  <2> SUFFICES ASSUME FilesAlways, EntriesKnown PROVE ArticlesTypeOK
    OBVIOUS
  <2>1. Typed /\ Held /\ audit \in Seq(Entries) /\ Len(audit) \in Nat /\ DOMAIN audit = 1..Len(audit)
    BY LenProperties DEF FilesAlways, Base, Typed
  <2> DEFINE JobTypes == [kind : Kinds \cup {"none"}, at : Steps, slug : Slugs \cup {Absent},
                          src : Posts \cup {NoFile}, dst : Posts \cup {NoFile},
                          seen : Contents \cup {Absent}, before : Contents \cup {Absent},
                          new : Contents \cup {Absent}, entry : 0..Len(audit)]
  <2>2. ASSUME NEW h \in Handlers PROVE job[h] \in JobTypes
    <3>1. job[h] \in Jobs
      BY <2>1 DEF Typed
    <3>2. job[h].entry \in 0..Len(audit)
      BY DEF EntriesKnown
    <3> QED
      BY <3>1, <3>2 DEF Jobs, Files
  <2>3. job \in [Handlers -> JobTypes]
    BY <2>1, <2>2 DEF Typed
  <2>4. \A i \in DOMAIN audit : audit[i] \in Entries
    BY <2>1, ElementOfSeq
  <2> QED
    BY <2>1, <2>3, <2>4 DEF ArticlesTypeOK, Typed, Held, At
<1> QED
  BY <1>1, FilesAlwaysHold, EntriesKnownAlways, PTL

\* Whatever operations succeed, fail or are cut short by a crash, no two files share a slug.
THEOREM NeverTwoFilesWithOneSlug == TidySpec => []OneFilePerSlug
<1>1. FilesAlways => OneFilePerSlug
  <2> SUFFICES ASSUME FilesAlways, external = 0, NEW x \in Slugs PROVE Cardinality(FilesOf(x)) <= 1
    BY DEF OneFilePerSlug
  <2>1. \A p, q \in FilesOf(x) : p = q
    BY DEF FilesAlways, FilesInv, Tidy, FilesOf
  <2>2. CASE FilesOf(x) = {}
    BY <2>2, FS_EmptySet
  <2>3. CASE \E p : p \in FilesOf(x)
    <3>1. PICK p : p \in FilesOf(x)
      BY <2>3
    <3>2. FilesOf(x) = {p}
      BY <2>1, <3>1
    <3>3. Cardinality({p}) = 1
      BY FS_Singleton
    <3> QED
      BY <3>2, <3>3
  <2> QED
    BY <2>2, <2>3
<1> QED
  BY <1>1, FilesAlwaysHold, PTL

\* As long as nobody edits the files outside, an operation overwrites or removes the very
\* revision it has checked, whatever other requests are under way.
THEOREM NoUpdateIsLost == TidySpec => [](external = 0 => NoLostUpdate)
<1>1. FilesAlways => (external = 0 => NoLostUpdate)
  <2> SUFFICES ASSUME FilesAlways, external = 0, NEW h \in Handlers,
                      (job[h].kind = "update" /\ At(h, "write")) \/ At(h, "remove")
               PROVE  source[job[h].src] = job[h].seen
    BY DEF NoLostUpdate
  <2> DEFINE j == job[h]
  <2>1. ~At(h, "idle")
    BY DEF At
  <2>2. /\ Shape(j) /\ OnDisk(j) /\ Found(origin, j)
        /\ HasOld(j) <=> (j.kind # "create" /\ j.src \in Posts)
    BY <2>1, AtWork DEF FilesAlways
  <2>3. (j.kind = "update" /\ j.at = "write") \/ j.at = "remove"
    BY DEF At
  <2> HIDE DEF j
  <2>4. HasOld(j)
    BY <2>2, <2>3 DEF Shape, Last
  <2>5. source = origin
    BY <2>2, <2>3 DEF OnDisk, Expected
  <2>6. source[j.src] = j.seen
    BY <2>2, <2>4, <2>5 DEF Found
  <2> QED
    BY <2>6 DEF j
<1> QED
  BY <1>1, FilesAlwaysHold, PTL

\* Wherever an update is stopped, its old or its new version is on disk, except between the
\* two steps of a rollback.
THEOREM UpdateAlwaysKeepsAVersion == TidySpec => []UpdateKeepsAVersion
<1>1. FilesAlways => UpdateKeepsAVersion
  <2> SUFFICES ASSUME FilesAlways, external = 0, NEW h \in Handlers, job[h].kind = "update", ~At(h, "restore")
               PROVE  \E p \in FilesOf(job[h].slug) : source[p] \in {job[h].seen, job[h].new}
    BY DEF UpdateKeepsAVersion
  <2> DEFINE j == job[h]
  <2>1. ~At(h, "idle")
    BY DEF FilesAlways, Base, Held
  <2>2. /\ Shape(j) /\ Named(j) /\ OnDisk(j) /\ Found(origin, j) /\ origin \in Snapshots /\ Tidy(origin) /\ j \in Jobs
        /\ HasOld(j) <=> (j.kind # "create" /\ j.src \in Posts)
    BY <2>1, AtWork DEF FilesAlways
  <2>3. j.kind = "update" /\ j.at # "restore"
    BY DEF At
  <2> HIDE DEF j
  <2>4. /\ HasOld(j) /\ j.src \in Posts /\ SlugOf[j.src] = j.slug /\ j.new \in Contents /\ j.seen # Absent
        /\ j.dst \in Posts /\ SlugOf[j.dst] = j.slug
    BY <2>2, <2>3, ArticleConstants DEF Shape, Named
  <2>5. CASE j.at \in {"read", "write"}
    <3>1. source[j.src] = j.seen
      BY <2>2, <2>3, <2>4, <2>5 DEF OnDisk, Expected, Found
    <3> QED
      BY <2>4, <3>1 DEF FilesOf, j
  <2>6. CASE j.at \notin {"read", "write"}
    <3>1. j.at \in Last \cup {"rename"}
      BY <2>2, <2>3, <2>6 DEF Shape
    <3>2. source = Done(origin, j)
      BY <2>2, <3>1 DEF OnDisk, Expected, Last
    <3>3. source[j.dst] = j.new
      BY <2>2, <2>3, <2>4, <3>2, DoneHasTheNew
    <3> QED
      BY <2>4, <3>3, ArticleConstants DEF FilesOf, j
  <2> QED
    BY <2>5, <2>6
<1> QED
  BY <1>1, FilesAlwaysHold, PTL

\* Where no write to the disk fails, an operation that answers without having succeeded
\* leaves every file as it was when it took the lock.
THEOREM FailedChangesAreUndone ==
    ASSUME ~DiskMayFill
    PROVE  TidySpec => FailedChangeIsUndone
<1> DEFINE Undone == /\ postMu # NoThread /\ postMu' = NoThread
                     /\ ~At(postMu, "record")
                     /\ crashes' = crashes /\ external = 0
                     => source' = origin
<1>1. FilesAlways /\ [ArticlesNext]_vars => [Undone]_vars
  <2> SUFFICES ASSUME FilesAlways, ArticlesNext, postMu # NoThread, postMu' = NoThread, ~At(postMu, "record"),
                      crashes' = crashes, external = 0
               PROVE  source' = origin
    OBVIOUS
  <2>1. Base /\ FilesInv
    BY DEF FilesAlways
  <2>2. ASSUME NEW h \in Handlers, Starting(h) PROVE FALSE
    BY <2>1, <2>2, StartingBegins DEF Start, Acquire
  <2>3. ASSUME NEW h \in Handlers, ReadBefore(h) \/ RemoveFound(h) PROVE source' = origin
    <3>1. At(h, "read") \/ At(h, "remove")
      BY <2>3 DEF ReadBefore, RemoveFound
    <3>2. ~At(h, "idle") /\ job[h].at \in {"read", "remove"}
      BY <3>1 DEF At
    <3>3. postMu = h /\ OnDisk(job[h])
      BY <2>1, <3>2, AtWork
    <3>4. source = origin
      BY <3>2, <3>3 DEF OnDisk, Expected
    <3>5. source' = source
      BY <2>3 DEF ReadBefore, RemoveFound, FilesUnchanged
    <3> QED
      BY <3>4, <3>5
  <2>4. ASSUME NEW h \in Handlers, \/ WriteNewFails(h) \/ TakeBack(h) \/ PutBack(h) PROVE source' = origin
    BY <2>1, <2>4, WriteNewFailsKeeps, TakeBackKeeps, PutBackKeeps
  <2>5. ASSUME NEW h \in Handlers, Record(h) PROVE FALSE
    <3>1. At(h, "record") /\ ~At(h, "idle")
      BY <2>5 DEF Record, At
    <3> QED
      BY <2>1, <3>1, AtWork
  <2>6. CASE Die
    <3>1. crashes' # crashes
      BY <2>1, <2>6, DieKeeps
    <3> QED
      BY <3>1
  <2>7. CASE \/ \E h \in Handlers : WriteNew(h) \/ RenameToDate(h)
             \/ \E t \in Threads : StartRebuild(t)
             \/ Working \/ RebuildDone \/ RebuildFailed
             \/ \E p \in Posts, c \in Contents \cup {Absent} : EditOutside(p, c)
             \/ TimePasses
    <3>1. postMu' = postMu
      BY <2>7 DEF WriteNew, RenameToDate, StartRebuild, Working, RebuildDone, RebuildFailed, EditOutside,
                  TimePasses, jobsVars
    <3> QED
      BY <3>1
  <2> QED
    BY <2>2, <2>3, <2>4, <2>5, <2>6, <2>7 DEF ArticlesNext, Starting
<1> HIDE DEF Undone
<1>2. TidySpec => [][Undone]_vars
  BY <1>1, FilesAlwaysHold, PTL DEF TidySpec
<1> QED
  BY <1>2 DEF Undone, FailedChangeIsUndone

-----------------------------------------------------------------------------
(* The audit log: what each row says of the operation it records.            *)

\* A row tells what its operation found and what it left, and the files remembered with it
\* are the one it found and no other.
RowTrue(i) ==
    /\ audit[i].beforeRev = audit[i].before /\ audit[i].afterRev = audit[i].after
    /\ audit[i].kind # "undo" =>
         past[i] = [p \in FilesNamed(audit[i].slug) |-> IF p = audit[i].name THEN audit[i].before ELSE Absent]

LogInv ==
    /\ external # 0 => gap
    /\ external = 0 => \A i \in 1..Len(audit) : RowTrue(i)

\* The row of an operation that is about to be recorded is true.
LEMMA NewRowIsTrue ==
    ASSUME FilesAlways, LogInv, external = 0, NEW h \in Handlers, At(h, "record")
    PROVE  LET j == job[h]
               r == Row(j)
           IN  /\ r.before = (IF HasOld(j) THEN j.seen ELSE Absent)
               /\ r.beforeRev = r.before /\ r.afterRev = r.after
               /\ r.kind # "undo" =>
                    [p \in {q \in Posts : SlugOf[q] = j.slug} |-> origin[p]]
                      = [p \in FilesNamed(r.slug) |-> IF p = r.name THEN r.before ELSE Absent]
<1> DEFINE j == job[h]
           r == Row(j)
<1>1. /\ r.kind = j.kind /\ r.slug = j.slug /\ r.name = RowName(j) /\ r.before = j.before /\ r.after = j.new
      /\ r.beforeRev = RevBefore(j) /\ r.afterRev = RevAfter(j)
  BY RowType DEF FilesAlways
<1>2. ~At(h, "idle") /\ j.at = "record"
  BY DEF At
<1>3. /\ Shape(j) /\ Named(j) /\ j \in Jobs /\ OnDisk(j) /\ Found(origin, j) /\ Tidy(origin) /\ origin \in Snapshots
      /\ HasOld(j) <=> (j.kind # "create" /\ j.src \in Posts)
  BY <1>2, AtWork DEF FilesAlways
<1> HIDE DEF j, r
<1>4. j.before = (IF HasOld(j) THEN j.seen ELSE Absent)
  BY <1>2, <1>3 DEF OnDisk
<1>5. r.beforeRev = r.before /\ r.afterRev = r.after
  <2>1. CASE j.kind = "undo"
    <3>1. /\ j.entry \in 1..Len(audit) /\ j.new = audit[j.entry].before
          /\ \/ j.src = NoFile /\ audit[j.entry].afterRev = Absent
             \/ j.src \in Posts /\ audit[j.entry].afterRev = j.seen
      BY <1>3, <2>1 DEF Shape
    <3>2. j.before = audit[j.entry].afterRev
      BY <1>3, <1>4, <2>1, <3>1, ArticleConstants
    <3>3. j.new = audit[j.entry].beforeRev
      BY <3>1 DEF LogInv, RowTrue
    <3> QED
      BY <1>1, <2>1, <3>2, <3>3 DEF RevBefore, RevAfter
  <2>2. CASE j.kind # "undo"
    <3>1. j.before = j.seen
      BY <1>3, <1>4, <2>2 DEF Shape
    <3> QED
      BY <1>1, <2>2, <3>1 DEF RevBefore, RevAfter
  <2> QED
    BY <2>1, <2>2
<1>6. ASSUME j.kind # "undo"
      PROVE  [p \in {q \in Posts : SlugOf[q] = j.slug} |-> origin[p]]
               = [p \in FilesNamed(j.slug) |-> IF p = j.src THEN j.before ELSE Absent]
  <2>1. ASSUME NEW p \in Posts, SlugOf[p] = j.slug
        PROVE  origin[p] = IF p = j.src THEN j.before ELSE Absent
    <3>1. CASE HasOld(j)
      BY <1>3, <1>4, <2>1, <3>1, ArticleConstants DEF Found, Tidy, Named
    <3>2. CASE ~HasOld(j)
      BY <1>3, <1>4, <2>1, <3>2 DEF Found, Empty
    <3> QED
      BY <3>1, <3>2
  <2> QED
    BY <2>1 DEF FilesNamed
<1> QED
  BY <1>1, <1>4, <1>5, <1>6 DEF RowName, j, r

LEMMA LogStep ==
    ASSUME FilesAlways, LogInv, [ArticlesNext]_vars
    PROVE  LogInv'
<1> DEFINE n == Len(audit)
<1>1. n \in Nat /\ audit \in Seq(Entries) /\ past \in Seq(Pasts) /\ Len(past) = n /\ external \in Nat /\ gap \in BOOLEAN
  BY LenProperties DEF FilesAlways, Base, Typed
<1>2. ASSUME audit' = audit, past' = past, external' = external, gap => gap'
      PROVE  LogInv'
  BY <1>2 DEF LogInv, RowTrue
<1>3. ASSUME NEW h \in Handlers, Record(h) PROVE LogInv'
  <2> DEFINE j == job[h]
             r == Row(j)
             f == [p \in {q \in Posts : SlugOf[q] = j.slug} |-> origin[p]]
  <2>1. /\ At(h, "record") /\ external' = external
        /\ \/ audit' = Append(audit, r) /\ past' = Append(past, f) /\ gap' = gap
           \/ gap' = TRUE /\ audit' = audit /\ past' = past
    BY <1>3 DEF Record
  <2>2. CASE gap' = TRUE /\ audit' = audit /\ past' = past
    BY <1>2, <2>1, <2>2
  <2>3. CASE audit' = Append(audit, r) /\ past' = Append(past, f) /\ gap' = gap
    <3>1. r \in Entries /\ f \in Pasts
      BY <2>1, RowType DEF FilesAlways
    <3>2. external = 0 =>
            /\ r.beforeRev = r.before /\ r.afterRev = r.after
            /\ r.kind # "undo" => f = [p \in FilesNamed(r.slug) |-> IF p = r.name THEN r.before ELSE Absent]
      BY <2>1, NewRowIsTrue
    <3> HIDE DEF r, f
    <3>3. /\ Len(audit') = n + 1 /\ audit'[n + 1] = r /\ \A i \in 1..n : audit'[i] = audit[i]
      BY <1>1, <2>3, <3>1, AppendProperties
    <3>4. /\ past'[n + 1] = f /\ \A i \in 1..n : past'[i] = past[i]
      BY <1>1, <2>3, <3>1, AppendProperties
    <3>5. ASSUME external = 0, NEW i \in 1..(n + 1) PROVE RowTrue(i)'
      <4>1. CASE i = n + 1
        BY <3>2, <3>3, <3>4, <3>5, <4>1 DEF RowTrue
      <4>2. CASE i \in 1..n
        BY <3>3, <3>4, <3>5, <4>2 DEF RowTrue, LogInv
      <4> QED
        BY <1>1, <4>1, <4>2
    <3> QED
      BY <2>1, <2>3, <3>3, <3>5 DEF LogInv
  <2> QED
    BY <2>1, <2>2, <2>3
<1>4. ASSUME NEW p \in Posts, NEW c \in Contents \cup {Absent}, EditOutside(p, c) PROVE LogInv'
  <2>1. external' # 0 /\ gap' = TRUE
    BY <1>4, OutsideKeeps DEF FilesAlways, EditOutside
  <2> QED
    BY <2>1 DEF LogInv
<1>5. CASE Die
  BY <1>2, <1>5 DEF Die
<1>6. ASSUME NEW h \in Handlers,
             \/ Starting(h) \/ ReadBefore(h) \/ RemoveFound(h) \/ WriteNew(h) \/ WriteNewFails(h)
             \/ RenameToDate(h) \/ TakeBack(h) \/ PutBack(h)
      PROVE  LogInv'
  BY <1>2, <1>6 DEF Starting, StartCreate, StartUpdate, StartDelete, StartUndo, Start, ReadBefore, RemoveFound,
     WriteNew, WriteNewFails, RenameToDate, TakeBack, PutBack, logVars
<1>7. CASE \/ \E t \in Threads : StartRebuild(t)
           \/ Working \/ RebuildDone \/ RebuildFailed \/ TimePasses \/ UNCHANGED vars
  BY <1>2, <1>7 DEF StartRebuild, Working, RebuildDone, RebuildFailed, TimePasses, vars, logVars
<1> QED
  BY <1>3, <1>4, <1>5, <1>6, <1>7 DEF ArticlesNext, Starting

LEMMA LogAlways == TidySpec => []LogInv
<1>1. TidyInit => LogInv
  BY EmptySeq DEF TidyInit, ArticlesInit, LogInv
<1>2. FilesAlways /\ LogInv /\ [ArticlesNext]_vars => LogInv'
  BY LogStep
<1> QED
  BY <1>1, <1>2, FilesAlwaysHold, PTL DEF TidySpec

\* Undoing an operation that was no undo itself leaves the files of the slug exactly as
\* they were before that operation.
THEOREM UndoAlwaysRestores == TidySpec => []UndoRestores
<1>1. FilesAlways /\ LogInv => UndoRestores
  <2> SUFFICES ASSUME FilesAlways, LogInv, ~gap, NEW h \in Handlers, At(h, "record"), job[h].kind = "undo",
                      audit[job[h].entry].kind # "undo",
                      NEW p \in DOMAIN past[job[h].entry]
               PROVE  source[p] = past[job[h].entry][p]
    BY DEF UndoRestores
  <2> DEFINE j == job[h]
             i == j.entry
  <2>1. external = 0 /\ ~At(h, "idle") /\ j.at = "record"
    BY DEF LogInv, At
  <2>2. /\ Shape(j) /\ Named(j) /\ j \in Jobs /\ OnDisk(j) /\ Found(origin, j) /\ Tidy(origin) /\ origin \in Snapshots
    BY <2>1, AtWork DEF FilesAlways
  <2>3. i \in 1..Len(audit) /\ j.slug = audit[i].slug /\ j.dst = audit[i].name /\ j.new = audit[i].before
    BY <2>2 DEF Shape
  <2>4. past[i] = [q \in FilesNamed(j.slug) |-> IF q = j.dst THEN j.new ELSE Absent]
    BY <2>1, <2>3 DEF LogInv, RowTrue
  <2>5. j.kind = "undo"
    OBVIOUS
  <2> HIDE DEF j
  <2>6. p \in Posts /\ SlugOf[p] = j.slug /\ past[i][p] = IF p = j.dst THEN j.new ELSE Absent
    BY <2>4 DEF FilesNamed, j
  <2>7. source = Done(origin, j)
    BY <2>1, <2>2 DEF OnDisk, Expected
  <2>8. Done(origin, j)[p] = IF p = j.dst THEN j.new ELSE Absent
    BY <2>2, <2>5, <2>6, DoneHasTheNew
  <2> QED
    BY <2>6, <2>7, <2>8 DEF j
<1> QED
  BY <1>1, FilesAlwaysHold, LogAlways, PTL

-----------------------------------------------------------------------------
(* The audit log as the history of every article.                            *)

\* The posts directory as it is between operations.
Settled == IF postMu = NoThread THEN source ELSE origin

\* The slug has the content c, or, when c is Absent, no file.
Left(s, x, c) == IF c = Absent THEN Empty(s, x) ELSE \E p \in Posts : SlugOf[p] = x /\ s[p] = c

IsLast(i) == i \in 1..Len(audit) /\ \A k \in 1..Len(audit) : audit[k].slug = audit[i].slug => k <= i

\* The last row of an article tells what there is of it.
Told(s) == \A i \in 1..Len(audit) : IsLast(i) => Left(s, audit[i].slug, audit[i].after)

\* An article with rows has a last one.
HasLasts == \A k \in 1..Len(audit) : \E i \in 1..Len(audit) : IsLast(i) /\ audit[i].slug = audit[k].slug

Chained ==
    \A i, k \in 1..Len(audit) :
        IsNextRow(i, k) => audit[k].before = audit[i].after /\ audit[k].beforeRev = audit[i].afterRev

HistoryInv == ~gap => Chained /\ HasLasts /\ Told(Settled)

\* What is settled changes with the recording of an operation only.
LEMMA SettledStays ==
    ASSUME FilesAlways, LogInv, LogInv', ~DiskMayFill, [ArticlesNext]_vars, ~gap',
           \A h \in Handlers : ~Record(h)
    PROVE  UNCHANGED <<audit, gap>> /\ Settled' = Settled
<1>0. Base /\ FilesInv
  BY DEF FilesAlways
<1>1. external' = 0 /\ (gap => gap') => external = 0
  BY DEF LogInv
<1>2. ASSUME NEW h \in Handlers, Starting(h) PROVE UNCHANGED <<audit, gap>> /\ Settled' = Settled
  <2>1. PICK j \in Jobs : Start(h, j)
    BY <1>0, <1>2, StartingBegins
  <2>2. postMu = NoThread /\ postMu' = h /\ origin' = source /\ UNCHANGED <<audit, gap>>
    BY <2>1 DEF Start, Acquire, logVars
  <2>3. h # NoThread
    BY ArticleConstants
  <2> QED
    BY <2>2, <2>3 DEF Settled
<1>3. ASSUME NEW h \in Handlers, \/ ReadBefore(h) \/ RemoveFound(h) \/ WriteNew(h) \/ WriteNewFails(h)
                                 \/ RenameToDate(h) \/ TakeBack(h) \/ PutBack(h)
      PROVE  UNCHANGED <<audit, gap>> /\ Settled' = Settled
  <2>1. /\ UNCHANGED <<audit, gap, external, crashes>> /\ ~At(h, "idle") /\ ~At(h, "record")
        /\ postMu' = NoThread \/ UNCHANGED <<postMu, origin>>
    BY <1>3 DEF ReadBefore, RemoveFound, WriteNew, WriteNewFails, RenameToDate, TakeBack, PutBack, logVars, At, Answer
  <2>2. postMu = h /\ h # NoThread /\ external = 0
    BY <1>0, <2>1, AtWork, ArticleConstants DEF LogInv
  <2>3. CASE UNCHANGED <<postMu, origin>>
    BY <2>1, <2>2, <2>3 DEF Settled
  <2>4. CASE postMu' = NoThread
    <3>1. CASE ReadBefore(h) \/ RemoveFound(h)
      <4>1. job[h].at \in {"read", "remove"}
        BY <3>1 DEF ReadBefore, RemoveFound, At
      <4>2. OnDisk(job[h])
        BY <1>0, <2>1, <2>2, AtWork
      <4>3. source = origin
        BY <4>1, <4>2 DEF OnDisk, Expected
      <4>4. source' = source
        BY <2>2, <2>4, <3>1 DEF ReadBefore, RemoveFound, FilesUnchanged
      <4> QED
        BY <2>1, <2>2, <2>4, <4>3, <4>4 DEF Settled
    <3>2. CASE WriteNewFails(h) \/ TakeBack(h) \/ PutBack(h)
      <4>1. source' = origin
        BY <1>0, <2>2, <2>4, <3>2, WriteNewFailsKeeps, TakeBackKeeps, PutBackKeeps
      <4> QED
        BY <2>1, <2>2, <2>4, <4>1 DEF Settled
    <3>3. CASE WriteNew(h) \/ RenameToDate(h)
      BY <2>2, <2>4, <3>3 DEF WriteNew, RenameToDate
    <3> QED
      BY <1>3, <3>1, <3>2, <3>3
  <2> QED
    BY <2>1, <2>3, <2>4
<1>4. CASE \/ \E t \in Threads : StartRebuild(t)
           \/ Working \/ RebuildDone \/ RebuildFailed \/ TimePasses \/ UNCHANGED vars
  <2>1. UNCHANGED <<source, postMu, origin, audit, gap>>
    BY <1>4 DEF StartRebuild, Begin, Working, List, Read, Choose, RebuildDone, Publish, RebuildFailed, Fail,
                TimePasses, Tick, vars, envVars, sbVars, jobsVars, logVars
  <2> QED
    BY <2>1 DEF Settled
<1>5. ASSUME NEW p \in Posts, NEW c \in Contents \cup {Absent}, EditOutside(p, c) PROVE FALSE
  BY <1>5 DEF EditOutside
<1>6. CASE Die
  <2>1. /\ postMu' = NoThread /\ source' = source /\ audit' = audit
    BY <1>0, <1>6, DieKeeps DEF Die
  <2>2. gap' = (gap \/ postMu # NoThread) /\ gap \in BOOLEAN
    BY <1>0, <1>6 DEF Die, Base, Typed
  <2>3. postMu = NoThread /\ gap' = gap
    BY <2>2
  <2> QED
    BY <2>1, <2>3 DEF Settled
<1> QED
  BY <1>2, <1>3, <1>4, <1>5, <1>6 DEF ArticlesNext, Starting

\* What an operation found is what the last row about its article says, and what it leaves
\* is what its own row says.
LEMMA RowFits ==
    ASSUME NEW o \in Snapshots, Tidy(o), NEW j \in Jobs, Shape(j), Found(o, j), j.at = "record"
    PROVE  /\ \A c \in Files : Left(o, j.slug, c) => c = (IF HasOld(j) THEN j.seen ELSE Absent)
           /\ Left(Done(o, j), j.slug, j.new)
           /\ \A x \in Slugs \ {j.slug}, c \in Files : Left(o, x, c) => Left(Done(o, j), x, c)
<1> DEFINE d == Done(o, j)
<1>1. Named(j) /\ j.new \in Files /\ j.src \in Posts \cup {NoFile}
  BY DEF Shape, Jobs
<1>2. /\ d \in Snapshots /\ \A p \in Posts : SlugOf[p] # j.slug => d[p] = o[p]
      /\ \A p \in Posts : SlugOf[p] = j.slug => d[p] = IF j.kind # "delete" /\ p = j.dst THEN j.new ELSE Absent
  BY <1>1, DoneHasTheNew
<1> HIDE DEF d
<1>3. ASSUME NEW c \in Files, Left(o, j.slug, c) PROVE c = (IF HasOld(j) THEN j.seen ELSE Absent)
  <2>1. CASE HasOld(j)
    <3>1. j.src \in Posts /\ SlugOf[j.src] = j.slug /\ o[j.src] = j.seen /\ j.seen # Absent
      BY <1>1, <2>1, ArticleConstants DEF HasOld, Named, Found
    <3>2. c # Absent
      BY <1>3, <3>1 DEF Left, Empty
    <3>3. PICK p \in Posts : SlugOf[p] = j.slug /\ o[p] = c
      BY <1>3, <3>2 DEF Left
    <3>4. p = j.src
      BY <3>1, <3>2, <3>3 DEF Tidy
    <3> QED
      BY <2>1, <3>1, <3>3, <3>4
  <2>2. CASE ~HasOld(j)
    <3>1. Empty(o, j.slug)
      BY <2>2 DEF Found
    <3> QED
      BY <1>3, <2>2, <3>1 DEF Left, Empty
  <2> QED
    BY <2>1, <2>2
<1>4. Left(d, j.slug, j.new)
  <2>1. CASE j.new = Absent
    BY <1>2, <2>1 DEF Left, Empty
  <2>2. CASE j.new # Absent
    <3>1. j.kind # "delete" /\ j.dst \in Posts /\ SlugOf[j.dst] = j.slug
      BY <1>1, <2>2 DEF Shape, Named
    <3> QED
      BY <1>2, <2>2, <3>1 DEF Left
  <2> QED
    BY <2>1, <2>2
<1>5. ASSUME NEW x \in Slugs \ {j.slug}, NEW c \in Files, Left(o, x, c) PROVE Left(d, x, c)
  BY <1>2, <1>5 DEF Left, Empty
<1> QED
  BY <1>3, <1>4, <1>5 DEF d

LEMMA RecordAddsToHistory ==
    ASSUME FilesAlways, LogInv, HistoryInv, NEW h \in Handlers, Record(h), ~gap'
    PROVE  Chained' /\ HasLasts' /\ Told(Settled)'
<1> DEFINE j == job[h]
           r == Row(j)
           f == [p \in {q \in Posts : SlugOf[q] = j.slug} |-> origin[p]]
<1> PICK n \in Nat : n = Len(audit)
  BY LenProperties DEF FilesAlways, Base, Typed
<1>1. /\ At(h, "record") /\ external' = external /\ source' = source /\ postMu' = NoThread
      /\ audit' = Append(audit, r) /\ gap' = gap
  BY DEF Record, Answer, FilesUnchanged
<1>2. external = 0 /\ ~At(h, "idle") /\ j.at = "record" /\ Chained /\ HasLasts /\ Told(Settled)
  BY <1>1 DEF LogInv, At, HistoryInv
<1>3. /\ postMu = h /\ h # NoThread /\ Shape(j) /\ j \in Jobs /\ OnDisk(j) /\ Found(origin, j) /\ Tidy(origin)
      /\ origin \in Snapshots
  BY <1>2, AtWork, ArticleConstants DEF FilesAlways
<1>4. /\ r \in Entries /\ r.slug = j.slug /\ r.after = j.new
  BY <1>1, RowType DEF FilesAlways
<1>5. r.before = (IF HasOld(j) THEN j.seen ELSE Absent) /\ r.beforeRev = r.before
  BY <1>1, <1>2, NewRowIsTrue
<1>6. audit \in Seq(Entries) /\ n \in Nat
  BY LenProperties DEF FilesAlways, Base, Typed
<1> HIDE DEF j, r
<1>7. source' = Done(origin, j) /\ Settled = origin
  BY <1>1, <1>2, <1>3 DEF OnDisk, Expected, Settled
<1>8. /\ \A c \in Files : Left(origin, j.slug, c) => c = r.before
      /\ Left(source', j.slug, j.new)
      /\ \A x \in Slugs \ {j.slug}, c \in Files : Left(origin, x, c) => Left(source', x, c)
  BY <1>2, <1>3, <1>5, <1>7, RowFits
<1>9. /\ Len(audit') = n + 1 /\ DOMAIN audit' = 1..(n + 1) /\ DOMAIN audit = 1..n
      /\ audit'[n + 1] = r /\ \A i \in 1..n : audit'[i] = audit[i]
  BY <1>1, <1>4, <1>6, AppendProperties, LenProperties
<1>10. \A i \in 1..n : /\ audit[i].slug \in Slugs /\ audit[i].after \in Files
                       /\ audit[i].afterRev = audit[i].after
  BY <1>2, RowFields DEF FilesAlways, LogInv, RowTrue
<1>11. IsLast(n + 1)'
  BY <1>6, <1>9 DEF IsLast
<1>12. ASSUME NEW i \in 1..n, audit[i].slug # j.slug
       PROVE  IsLast(i)' <=> IsLast(i)
  BY <1>4, <1>6, <1>9, <1>12 DEF IsLast
<1>13. ASSUME NEW i \in 1..n, IsLast(i)' PROVE audit[i].slug # j.slug
  BY <1>4, <1>6, <1>9, <1>13 DEF IsLast
<1>14. HasLasts'
  <2> SUFFICES ASSUME NEW k \in 1..(n + 1)
               PROVE  \E i \in 1..(n + 1) : IsLast(i)' /\ audit'[i].slug = audit'[k].slug
    BY <1>9 DEF HasLasts
  <2>1. CASE k = n + 1 \/ audit[k].slug = j.slug
    <3>1. audit'[n + 1].slug = audit'[k].slug
      BY <1>4, <1>9, <2>1
    <3> QED
      BY <1>6, <1>11, <3>1
  <2>2. CASE k \in 1..n /\ audit[k].slug # j.slug
    <3>1. PICK i \in 1..n : IsLast(i) /\ audit[i].slug = audit[k].slug
      BY <1>2, <2>2 DEF HasLasts
    <3> QED
      BY <1>6, <1>9, <1>12, <2>2, <3>1
  <2> QED
    BY <1>6, <2>1, <2>2
<1>15. Told(Settled)'
  <2> SUFFICES ASSUME NEW i \in 1..(n + 1), IsLast(i)' PROVE Left(source', audit'[i].slug, audit'[i].after)
    BY <1>1, <1>9 DEF Told, Settled, Left, Empty
  <2>1. CASE i = n + 1
    BY <1>4, <1>8, <1>9, <2>1
  <2>2. CASE i \in 1..n
    <3>1. audit[i].slug # j.slug /\ IsLast(i)
      BY <1>12, <1>13, <2>2
    <3>2. Left(origin, audit[i].slug, audit[i].after)
      BY <1>2, <1>7, <2>2, <3>1 DEF Told
    <3> QED
      BY <1>8, <1>9, <1>10, <2>2, <3>1, <3>2
  <2> QED
    BY <1>6, <2>1, <2>2
<1>16. Chained'
  <2> SUFFICES ASSUME NEW i \in 1..(n + 1), NEW k \in 1..(n + 1), IsNextRow(i, k)'
               PROVE  audit'[k].before = audit'[i].after /\ audit'[k].beforeRev = audit'[i].afterRev
    BY <1>9 DEF Chained
  <2>1. /\ i < k /\ audit'[i].slug = audit'[k].slug
        /\ \A m \in 1..(n + 1) : audit'[m].slug = audit'[i].slug => m <= i \/ m >= k
    BY <1>9 DEF IsNextRow, RowsOf
  <2>2. i \in 1..n
    BY <1>6, <2>1
  <2>3. CASE k \in 1..n
    <3>1. \A m \in 1..n : audit[m].slug = audit[i].slug => m <= i \/ m >= k
      BY <1>6, <1>9, <2>1, <2>2
    <3>2. IsNextRow(i, k)
      BY <1>9, <2>1, <2>2, <2>3, <3>1 DEF IsNextRow, RowsOf
    <3> QED
      BY <1>2, <1>9, <2>2, <2>3, <3>2 DEF Chained
  <2>4. CASE k = n + 1
    <3>1. audit[i].slug = j.slug
      BY <1>4, <1>9, <2>1, <2>2, <2>4
    <3>2. IsLast(i)
      BY <1>6, <1>9, <2>1, <2>2, <2>4 DEF IsLast
    <3>3. Left(origin, j.slug, audit[i].after)
      BY <1>2, <1>7, <2>2, <3>1, <3>2 DEF Told
    <3>4. audit[i].after = r.before /\ audit[i].afterRev = r.before
      BY <1>8, <1>10, <2>2, <3>3
    <3> QED
      BY <1>5, <1>9, <2>2, <2>4, <3>4
  <2> QED
    BY <1>6, <2>3, <2>4
<1> QED
  BY <1>14, <1>15, <1>16

\* Where no write to the disk fails, the rows of each article follow one from the other,
\* and the last of them tells what there is of it.
THEOREM AuditIsAlwaysTheHistory ==
    ASSUME ~DiskMayFill
    PROVE  TidySpec => []AuditIsTheHistory
<1>1. TidyInit => HistoryInv
  BY EmptySeq DEF TidyInit, ArticlesInit, HistoryInv, Chained, HasLasts, Told
<1>2. FilesAlways /\ LogInv /\ LogInv' /\ HistoryInv /\ [ArticlesNext]_vars => HistoryInv'
  <2> SUFFICES ASSUME FilesAlways, LogInv, LogInv', HistoryInv, [ArticlesNext]_vars, ~gap'
               PROVE  Chained' /\ HasLasts' /\ Told(Settled)'
    BY DEF HistoryInv
  <2>1. CASE \E h \in Handlers : Record(h)
    BY <2>1, RecordAddsToHistory
  <2>2. CASE \A h \in Handlers : ~Record(h)
    <3>1. UNCHANGED <<audit, gap>> /\ Settled' = Settled
      BY <2>2, SettledStays
    <3>2. Chained /\ HasLasts /\ Told(Settled)
      BY <3>1 DEF HistoryInv
    <3> QED
      BY <3>1, <3>2 DEF Chained, HasLasts, Told, IsLast, IsNextRow, RowsOf
  <2> QED
    BY <2>1, <2>2
<1>3. FilesAlways /\ HistoryInv => AuditIsTheHistory
  <2> SUFFICES ASSUME FilesAlways, HistoryInv, ~gap PROVE AuditIsTheHistory
    BY DEF AuditIsTheHistory
  <2>1. audit \in Seq(Entries) /\ Len(audit) \in Nat /\ DOMAIN audit = 1..Len(audit)
    BY LenProperties DEF FilesAlways, Base, Typed
  <2>2. Chained /\ HasLasts /\ Told(Settled)
    BY DEF HistoryInv
  <2>3. \A i, k \in DOMAIN audit : IsNextRow(i, k) =>
           audit[k].before = audit[i].after /\ audit[k].beforeRev = audit[i].afterRev
    BY <2>1, <2>2 DEF Chained
  <2>4. ASSUME postMu = NoThread, NEW x \in Slugs, RowsOf(x) # {}
        PROVE  LET last == CHOOSE i \in RowsOf(x) : \A k \in RowsOf(x) : k <= i
               IN  IF audit[last].after = Absent THEN FilesOf(x) = {}
                   ELSE \E p \in FilesOf(x) : source[p] = audit[last].after
    <3> DEFINE last == CHOOSE i \in RowsOf(x) : \A k \in RowsOf(x) : k <= i
    <3>1. PICK k \in 1..Len(audit) : audit[k].slug = x
      BY <2>1, <2>4 DEF RowsOf
    <3>2. PICK i \in 1..Len(audit) : IsLast(i) /\ audit[i].slug = x
      BY <2>2, <3>1 DEF HasLasts
    <3>3. i \in RowsOf(x) /\ \A m \in RowsOf(x) : m <= i
      BY <2>1, <3>2 DEF RowsOf, IsLast
    <3>4. last \in RowsOf(x) /\ \A m \in RowsOf(x) : m <= last
      BY <3>3
    <3> HIDE DEF last
    <3>5. last \in 1..Len(audit) /\ IsLast(last) /\ audit[last].slug = x
      BY <2>1, <3>4 DEF RowsOf, IsLast
    <3>6. Left(source, x, audit[last].after)
      BY <2>2, <2>4, <3>5 DEF Told, Settled
    <3>7. IF audit[last].after = Absent THEN FilesOf(x) = {}
          ELSE \E p \in FilesOf(x) : source[p] = audit[last].after
      BY <3>6 DEF Left, Empty, FilesOf
    <3> QED
      BY <3>7 DEF last
  <2> QED
    BY <2>3, <2>4 DEF AuditIsTheHistory
<1> QED
  BY <1>1, <1>2, <1>3, FilesAlwaysHold, LogAlways, PTL DEF TidySpec

-----------------------------------------------------------------------------
(* What readers are served when an operation answers.                        *)

\* The site shows the files as they are, by the clock of some moment up to now.
Shows(a) == \E t \in 0..now : a = Published(source, t)

\* From the beginning of its rebuild to its answer, an operation's rebuild and any that
\* comes after it read the files as they are.
FreshInv ==
    /\ now <= MaxTime
    /\ external = 0 => \A h \in Handlers : At(h, "building") \/ At(h, "record") =>
         /\ phase = "read" => \A p \in Posts : snap[p] = IF p \in left THEN Absent ELSE source[p]
         /\ phase = "render" => Shows(chosen)
         /\ At(h, "record") => Shows(site)

LEMMA WorkingStaysFresh ==
    ASSUME FilesAlways, FreshInv, Working
    PROVE  FreshInv'
<1>1. UNCHANGED <<now, site, source, job, external>> /\ now \in Nat /\ source \in Snapshots /\ snap \in Snapshots
  BY DEF Working, List, Read, Choose, envVars, jobsVars, FilesAlways, Base, Typed
<1>2. ASSUME external = 0, NEW h \in Handlers, At(h, "building") \/ At(h, "record")
      PROVE  /\ phase' = "read" => \A p \in Posts : snap'[p] = IF p \in left' THEN Absent ELSE source[p]
             /\ phase' = "render" => Shows(chosen)'
  <2>1. CASE List
    <3>1. snap' = NoPosts /\ left' = {p \in Posts : source[p] # Absent} /\ phase' = "read"
      BY <2>1 DEF List, FilesAlways, Base, Rebuilding
    <3> QED
      BY <3>1 DEF NoPosts
  <2>2. ASSUME NEW p \in Posts, Read(p)
        PROVE  phase' = "read" /\ \A q \in Posts : snap'[q] = IF q \in left' THEN Absent ELSE source[q]
    <3>1. phase = "read" /\ phase' = "read" /\ left' = left \ {p} /\ snap' = [snap EXCEPT ![p] = source[p]]
      BY <2>2 DEF Read
    <3>2. \A q \in Posts : snap[q] = IF q \in left THEN Absent ELSE source[q]
      BY <1>2, <3>1 DEF FreshInv
    <3>3. \A q \in Posts : snap'[q] = IF q \in left' THEN Absent ELSE source[q]
      BY <1>1, <3>1, <3>2 DEF Snapshots
    <3> QED
      BY <3>1, <3>3
  <2>3. CASE Choose
    <3>1. phase = "read" /\ left = {} /\ phase' = "render" /\ chosen' = Published(snap, now)
      BY <2>3 DEF Choose
    <3>2. \A p \in Posts : snap[p] = source[p]
      BY <1>2, <3>1 DEF FreshInv
    <3>3. chosen' = Published(source, now)
      BY <1>1, <3>1, <3>2, SameFiles
    <3>4. now \in 0..now
      BY <1>1
    <3>5. Shows(chosen)'
      BY <1>1, <3>3, <3>4 DEF Shows
    <3> QED
      BY <3>1, <3>5
  <2> QED
    BY <2>1, <2>2, <2>3 DEF Working
<1>3. ASSUME external = 0, NEW h \in Handlers, At(h, "record") PROVE Shows(site)'
  BY <1>1, <1>3 DEF FreshInv, Shows
<1> QED
  BY <1>1, <1>2, <1>3 DEF FreshInv, At

LEMMA EndsStayFresh ==
    ASSUME FilesAlways, FreshInv, RebuildDone \/ RebuildFailed
    PROVE  FreshInv'
<1>1. /\ UNCHANGED <<now, source, external>> /\ phase' = "idle"
      /\ RebuildDone => site' = chosen /\ phase = "render"
      /\ ~RebuildDone => RebuildFailed /\ site' = site
  BY DEF RebuildDone, RebuildFailed, Publish, Fail, EndJob, envVars
<1> PICK b \in Threads : b = builder
  <2>1. phase # "idle"
    BY DEF RebuildDone, RebuildFailed, Publish, Fail, FilesAlways, Base, Rebuilding
  <2> QED
    BY <2>1 DEF FilesAlways, Base, Typed, Rebuilding
<1>2. ASSUME external = 0, NEW h \in Handlers, At(h, "record")' PROVE Shows(site)'
  <2>1. At(h, "record") \/ (h = b /\ RebuildDone)
    <3>1. CASE b \in Handlers
      <4>1. (RebuildDone /\ Goto(b, "record")) \/ (RebuildFailed /\ Goto(b, "rollback"))
        BY <3>1 DEF RebuildDone, RebuildFailed
      <4>2. \A g \in Handlers \ {b} : job'[g] = job[g]
        BY <3>1, <4>1, JobGoes DEF FilesAlways, Base, Steps
      <4>3. RebuildFailed => RebuildDone \/ job'[b].at = "rollback"
        BY <3>1, <4>1, JobGoes DEF FilesAlways, Base, Steps
      <4> QED
        BY <1>1, <1>2, <4>2, <4>3 DEF At
    <3>2. CASE b \notin Handlers
      BY <1>2, <3>2 DEF RebuildDone, RebuildFailed, At
    <3> QED
      BY <3>1, <3>2
  <2>2. At(h, "building") \/ At(h, "record")
    BY <2>1 DEF FilesAlways, Base, Held
  <2>3. CASE RebuildDone
    BY <1>1, <1>2, <2>2, <2>3 DEF FreshInv, Shows
  <2>4. CASE ~RebuildDone
    BY <1>1, <1>2, <2>1, <2>4 DEF FreshInv, Shows
  <2> QED
    BY <2>3, <2>4
<1> QED
  BY <1>1, <1>2 DEF FreshInv

\* Whoever moves on by a step of another kind is at neither of the two places.
LEMMA OthersStayFresh ==
    ASSUME FilesAlways, FreshInv, FilesAlways', NEW h \in Handlers, postMu' \in {h, NoThread},
           now' = now, job'[h].at \notin {"building", "record"}
    PROVE  FreshInv'
<1>1. \A g \in Handlers : ~At(g, "building")' /\ ~At(g, "record")'
  BY ArticleConstants DEF FilesAlways, Base, Held, At
<1> QED
  BY <1>1 DEF FreshInv

LEMMA FreshStep ==
    ASSUME FilesAlways, FilesAlways', FreshInv, [ArticlesNext]_vars
    PROVE  FreshInv'
<1>0. Base /\ FilesInv
  BY DEF FilesAlways
<1>1. ASSUME NEW h \in Handlers, Starting(h) PROVE FreshInv'
  <2>1. PICK j \in Jobs : Start(h, j) /\ Shape(j) /\ j.at \in {"read", "write"}
    BY <1>0, <1>1, StartingBegins
  <2>2. job'[h] = j /\ postMu' = h /\ now' = now
    BY <1>0, <2>1, StartKeepsBase DEF sbVars
  <2> QED
    BY <2>1, <2>2, OthersStayFresh
<1>2. ASSUME NEW h \in Handlers, \/ ReadBefore(h) \/ RemoveFound(h) \/ WriteNew(h) \/ WriteNewFails(h)
                                 \/ RenameToDate(h) \/ TakeBack(h) \/ PutBack(h) \/ Record(h)
      PROVE  FreshInv'
  <2>1. now' = now /\ ~At(h, "idle")
    BY <1>2 DEF ReadBefore, RemoveFound, WriteNew, WriteNewFails, RenameToDate, TakeBack, PutBack, Record,
                SiteUnchanged, At
  <2>2. postMu = h /\ job[h] \in Jobs
    BY <1>0, <2>1, AtWork
  <2>3. CASE Answer(h)
    <3>1. job'[h].at = "idle" /\ postMu' = NoThread
      BY <1>0, <2>3, JobEnds DEF Base
    <3> QED
      BY <2>1, <3>1, OthersStayFresh
  <2>4. CASE postMu' = postMu /\ \E s \in {"write", "remove", "rename", "rebuild", "restore"} : job'[h].at = s
    BY <2>1, <2>2, <2>4, OthersStayFresh
  <2>5. Answer(h) \/ (/\ postMu' = postMu
                      /\ \E s \in {"write", "remove", "rename", "rebuild", "restore"} : job'[h].at = s)
    <3>1. ASSUME NEW s \in {"write", "remove", "rename", "rebuild", "restore"}, Goto(h, s)
          PROVE  job'[h].at = s
      BY <1>0, <3>1, JobGoes DEF Base, Steps
    <3>2. job \in [Handlers -> Jobs]
      BY <1>0 DEF Base, Typed
    <3>3. CASE ReadBefore(h) /\ ~Answer(h)
      <4>1. /\ postMu' = postMu
            /\ \E b : \E s \in {"write", "remove"} : job' = [job EXCEPT ![h] = [job[h] EXCEPT !.before = b, !.at = s]]
        BY <3>3 DEF ReadBefore
      <4>2. \E s \in {"write", "remove"} : job'[h].at = s
        BY <2>2, <3>2, <4>1 DEF Jobs
      <4> QED
        BY <4>1, <4>2
    <3>4. CASE RenameToDate(h)
      <4>1. /\ postMu' = postMu
            /\ Goto(h, "rebuild") \/ \E d : job' = [job EXCEPT ![h] = [job[h] EXCEPT !.at = "rebuild", !.dst = d]]
        BY <3>4 DEF RenameToDate
      <4>2. job'[h].at = "rebuild"
        BY <2>2, <3>1, <3>2, <4>1 DEF Jobs
      <4> QED
        BY <4>1, <4>2
    <3>5. CASE WriteNewFails(h) \/ PutBack(h) \/ Record(h)
      BY <3>5 DEF WriteNewFails, PutBack, Record
    <3>6. CASE RemoveFound(h)
      BY <3>1, <3>6 DEF RemoveFound
    <3>7. CASE WriteNew(h)
      BY <3>1, <3>7 DEF WriteNew
    <3>8. CASE TakeBack(h)
      BY <3>1, <3>8 DEF TakeBack
    <3> QED
      BY <1>2, <3>3, <3>4, <3>5, <3>6, <3>7, <3>8
  <2> QED
    BY <2>3, <2>4, <2>5
<1>3. ASSUME NEW t \in Threads, StartRebuild(t) PROVE FreshInv'
  <2>1. /\ UNCHANGED <<now, site, source, external>> /\ phase' = "begun"
        /\ IF t \in Handlers THEN Goto(t, "building") ELSE job' = job
    BY <1>3 DEF StartRebuild, Begin, envVars
  <2>2. \A h \in Handlers : At(h, "record")' => At(h, "record")
    <3>1. CASE t \in Handlers
      <4>1. job'[t].at = "building" /\ \A g \in Handlers \ {t} : job'[g] = job[g]
        BY <1>0, <2>1, <3>1, JobGoes DEF Base, Steps
      <4> QED
        BY <4>1 DEF At
    <3>2. CASE t \notin Handlers
      BY <2>1, <3>2 DEF At
    <3> QED
      BY <3>1, <3>2
  <2> QED
    BY <2>1, <2>2 DEF FreshInv, Shows
<1>4. CASE Working \/ RebuildDone \/ RebuildFailed
  BY <1>4, WorkingStaysFresh, EndsStayFresh
<1>5. ASSUME NEW p \in Posts, NEW c \in Contents \cup {Absent}, EditOutside(p, c) PROVE FreshInv'
  <2>1. external' # 0 /\ now' = now
    BY <1>0, <1>5, OutsideKeeps DEF EditOutside, Edit
  <2> QED
    BY <2>1 DEF FreshInv
<1>6. CASE TimePasses
  <2>1. /\ now < MaxTime /\ now' = now + 1 /\ now \in Nat /\ MaxTime \in Nat
        /\ UNCHANGED <<source, site, chosen, snap, left, phase, job, external>>
    BY <1>0, <1>6, SiteBuildAssumption DEF TimePasses, Tick, jobVars, jobsVars, Base, Typed
  <2>2. \A a : Shows(a) => \E t \in 0..now' : a = Published(source, t)
    BY <2>1 DEF Shows
  <2> QED
    BY <2>1, <2>2 DEF FreshInv, At, Shows
<1>7. CASE Die
  <2>1. now' = now /\ \A h \in Handlers : At(h, "idle")'
    BY <1>0, <1>7, DieKeeps DEF Die, Crash, envVars
  <2> QED
    BY <2>1 DEF FreshInv, At
<1>8. CASE UNCHANGED vars
  <2>1. UNCHANGED <<now, source, site, chosen, snap, left, phase, job, external>>
    BY <1>8 DEF vars, sbVars, jobVars, jobsVars
  <2> QED
    BY <2>1 DEF FreshInv, At, Shows
<1> QED
  BY <1>1, <1>2, <1>3, <1>4, <1>5, <1>6, <1>7, <1>8 DEF ArticlesNext, Starting

ServedInFull == external = 0 => \A h \in Handlers : At(h, "record") => Shows(site)

LEMMA FreshAlways == TidySpec => []FreshInv
<1>1. TidyInit => FreshInv
  <2> SUFFICES ASSUME TidyInit PROVE FreshInv
    OBVIOUS
  <2>1. now = 0 /\ MaxTime \in Nat /\ Base
    BY InitKeeps, SiteBuildAssumption DEF TidyInit, ArticlesInit, Init
  <2>2. \A h \in Handlers : job[h] = NoOp
    BY DEF TidyInit, ArticlesInit
  <2>3. \A h \in Handlers : ~At(h, "building") /\ ~At(h, "record")
    BY <2>2, EmptyTypes DEF At
  <2> QED
    BY <2>1, <2>3 DEF FreshInv
<1>2. FilesAlways /\ FilesAlways' /\ FreshInv /\ [ArticlesNext]_vars => FreshInv'
  BY FreshStep
<1> QED
  BY <1>1, <1>2, FilesAlwaysHold, PTL DEF TidySpec

\* As long as nobody edits the files outside, an operation that is about to answer "done" is
\* served in full: the whole site is what the posts directory publishes, by the clock of some
\* moment up to now, whoever else rebuilds.
THEOREM SavedIsServedInFull == TidySpec => []ServedInFull
<1>1. FreshInv => ServedInFull
  BY DEF FreshInv, ServedInFull
<1> QED
  BY <1>1, FreshAlways, PTL

\* With one file for a slug, the site shows what is in it, if it is public.
LEMMA PublishedIsTheFile ==
    ASSUME NEW s \in Snapshots, Tidy(s), NEW x \in Slugs, NEW c \in Files, Left(s, x, c), NEW t \in Nat
    PROVE  Published(s, t)[x] = IF IsPublic(c, t) THEN c ELSE Absent
<1> DEFINE P == PublicPosts(s, t)
<1>1. Published(s, t)[x] = IF \E p \in P : SlugOf[p] = x THEN s[CHOOSE p \in P : SlugOf[p] = x] ELSE Absent
  BY DEF Published
<1>2. \A p \in P : p \in Posts /\ IsPublic(s[p], t) /\ s[p] # Absent
  BY ArticleConstants DEF PublicPosts, IsPublic
<1>3. \A p \in P : SlugOf[p] = x => s[p] = c
  BY <1>2 DEF Left, Empty, Tidy
<1>4. CASE \E p \in P : SlugOf[p] = x
  <2>1. PICK p \in P : SlugOf[p] = x
    BY <1>4
  <2>2. IsPublic(c, t)
    BY <1>2, <1>3, <2>1
  <2>3. (CHOOSE q \in P : SlugOf[q] = x) \in P /\ SlugOf[CHOOSE q \in P : SlugOf[q] = x] = x
    BY <2>1
  <2> HIDE DEF P
  <2> QED
    BY <1>1, <1>3, <1>4, <2>2, <2>3
<1>5. CASE ~\E p \in P : SlugOf[p] = x
  <2>1. ~IsPublic(c, t)
    <3> SUFFICES ASSUME IsPublic(c, t) PROVE FALSE
      OBVIOUS
    <3>1. c # Absent
      BY ArticleConstants DEF IsPublic
    <3>2. PICK p \in Posts : SlugOf[p] = x /\ s[p] = c
      BY <3>1 DEF Left
    <3> QED
      BY <1>5, <3>2 DEF PublicPosts
  <2> QED
    BY <1>1, <1>5, <2>1
<1> QED
  BY <1>4, <1>5

\* Where no post becomes public while the clock runs, the article an operation has just
\* saved is served as it was saved, or not at all when it is not public.
THEOREM SavedIsAlwaysServed ==
    ASSUME \A c \in Contents : PublishAt[c] \notin 1..MaxTime
    PROVE  TidySpec => []SavedIsServed
<1>1. FilesAlways /\ FreshInv => SavedIsServed
  <2> SUFFICES ASSUME FilesAlways, FreshInv, external = 0, NEW h \in Handlers, At(h, "record")
               PROVE  site[job[h].slug] = IF IsPublic(job[h].new, now) THEN job[h].new ELSE Absent
    BY DEF SavedIsServed
  <2> DEFINE j == job[h]
  <2>1. ~At(h, "idle") /\ j.at = "record"
    BY DEF At
  <2>2. /\ Shape(j) /\ Named(j) /\ j \in Jobs /\ j.new \in Files /\ OnDisk(j) /\ Found(origin, j)
        /\ Tidy(origin) /\ origin \in Snapshots /\ source \in Snapshots
    BY <2>1, AtWork DEF FilesAlways
  <2>3. now \in Nat /\ now <= MaxTime /\ Tidy(source)
    BY DEF FilesAlways, Base, Typed, FreshInv, FilesInv
  <2>4. PICK t \in 0..now : site = Published(source, t)
    BY DEF FreshInv, Shows
  <2> HIDE DEF j
  <2>5. j.slug \in Slugs /\ Left(source, j.slug, j.new)
    <3>1. source = Done(origin, j)
      BY <2>1, <2>2 DEF OnDisk, Expected
    <3> QED
      BY <2>1, <2>2, <3>1, RowFits DEF Named
  <2>6. site[j.slug] = IF IsPublic(j.new, t) THEN j.new ELSE Absent
    <3>1. t \in Nat
      BY <2>3
    <3> QED
      BY <2>2, <2>3, <2>4, <2>5, <3>1, PublishedIsTheFile
  <2>7. IsPublic(j.new, t) <=> IsPublic(j.new, now)
    <3>1. j.new \in Contents => PublishAt[j.new] \in Nat /\ PublishAt[j.new] \notin 1..MaxTime
      BY ArticleConstants
    <3>2. MaxTime \in Nat
      BY SiteBuildAssumption
    <3>3. j.new \in Contents => (PublishAt[j.new] <= t <=> PublishAt[j.new] <= now)
      BY <2>3, <3>1, <3>2
    <3> QED
      BY <3>3 DEF IsPublic
  <2> QED
    BY <2>6, <2>7 DEF j
<1> QED
  BY <1>1, FilesAlwaysHold, FreshAlways, PTL

-----------------------------------------------------------------------------
(* What the operations are to a rebuild.                                    *)

SbStep == Next \/ UNCHANGED sbVars

LEMMA FileWritten ==
    ASSUME Typed, NEW p, NEW c \in Contents \cup {Absent}, source' = SetFile(source, p, c), SiteUnchanged
    PROVE  SbStep
<1>1. CASE p \in Posts /\ source[p] # c
  BY <1>1 DEF SetFile, SiteUnchanged, Edit, SbStep, Next
<1>2. CASE ~(p \in Posts /\ source[p] # c)
  <2>1. source' = source
    BY <1>2 DEF Typed, Snapshots, SetFile
  <2> QED
    BY <2>1 DEF SiteUnchanged, SbStep, sbVars
<1> QED
  BY <1>1, <1>2

LEMMA FileMoved ==
    ASSUME Typed, NEW p \in Posts, NEW q \in Posts, p # q, source[p] # Absent,
           source' = Moved(source, p, q), SiteUnchanged
    PROVE  SbStep
<1>1. source' = [source EXCEPT ![q] = source[p], ![p] = Absent]
  BY DEF Moved, SetFile
<1> QED
  BY <1>1 DEF Move, SiteUnchanged, SbStep, Next

LEMMA NothingWritten ==
    ASSUME FilesUnchanged, SiteUnchanged
    PROVE  SbStep
BY DEF FilesUnchanged, SiteUnchanged, SbStep, sbVars

\* Each step of an operation changes one file, moves one, or none.
LEMMA OperationIsAnEdit ==
    ASSUME Base, NEW h \in Handlers,
           \/ ReadBefore(h) \/ RemoveFound(h) \/ WriteNew(h) \/ WriteNewFails(h)
           \/ RenameToDate(h) \/ TakeBack(h) \/ PutBack(h) \/ Record(h)
    PROVE  SbStep
<1> DEFINE j == job[h]
<1>1. Typed /\ j.before \in Contents \cup {Absent} /\ j.new \in Contents \cup {Absent}
  BY DEF Base, Typed, Jobs, Files
<1>2. CASE ReadBefore(h) \/ Record(h)
  BY <1>2, NothingWritten DEF ReadBefore, Record
<1>3. CASE RemoveFound(h)
  BY <1>1, <1>3, NothingWritten, FileWritten DEF RemoveFound
<1>4. CASE WriteNew(h)
  <2>1. CASE j.new = Absent
    BY <1>4, <2>1, NothingWritten DEF WriteNew, FilesUnchanged
  <2>2. CASE j.new # Absent
    BY <1>1, <1>4, <2>2, FileWritten DEF WriteNew
  <2> QED
    BY <2>1, <2>2
<1>5. CASE WriteNewFails(h)
  BY <1>1, <1>5, NothingWritten, FileWritten DEF WriteNewFails
<1>6. CASE RenameToDate(h)
  <2> DEFINE want == <<j.slug, DateOf[j.new]>>
  <2>1. CASE FilesUnchanged
    BY <1>6, <2>1, NothingWritten DEF RenameToDate
  <2>2. CASE ~FilesUnchanged
    <3>1. j.kind = "update" /\ Shape(j)
      BY <1>6 DEF RenameToDate, Base, At, Shape, Last
    <3>2. j.src \in Posts /\ j.slug \in Slugs /\ j.new \in Contents
      BY <3>1 DEF Shape, Named
    <3>3. want \in Posts
      BY <3>2, ArticleConstants
    <3> QED
      BY <1>1, <1>6, <2>2, <3>2, <3>3, FileMoved DEF RenameToDate
  <2> QED
    BY <2>1, <2>2
<1>7. CASE TakeBack(h)
  BY <1>1, <1>7, NothingWritten, FileWritten DEF TakeBack
<1>8. CASE PutBack(h)
  BY <1>1, <1>8, NothingWritten, FileWritten DEF PutBack
<1> QED
  BY <1>2, <1>3, <1>4, <1>5, <1>6, <1>7, <1>8

\* Handlers, their rollbacks, an editor and crashes do nothing to the posts, and ask nothing
\* of the engine, that SiteBuild does not allow for: seen through a rebuild, a run with any
\* number of operations is one of SiteBuild's.
THEOREM ArticlesImplementSiteBuild == TidySpec => Spec
<1>1. TidyInit => Init
  BY DEF TidyInit, ArticlesInit
<1>2. FilesAlways /\ [ArticlesNext]_vars => [Next]_sbVars
  <2> SUFFICES ASSUME Base, [ArticlesNext]_vars PROVE SbStep
    BY DEF FilesAlways, SbStep
  <2>1. ASSUME NEW h \in Handlers, Starting(h) PROVE SbStep
    BY <2>1 DEF Starting, StartCreate, StartUpdate, StartDelete, StartUndo, Start, SbStep
  <2>2. ASSUME NEW h \in Handlers, \/ ReadBefore(h) \/ RemoveFound(h) \/ WriteNew(h) \/ WriteNewFails(h)
                                   \/ RenameToDate(h) \/ TakeBack(h) \/ PutBack(h) \/ Record(h)
        PROVE  SbStep
    BY <2>2, OperationIsAnEdit
  <2>3. CASE \E t \in Threads : StartRebuild(t)
    BY <2>3 DEF StartRebuild, SbStep, Next
  <2>4. CASE Working \/ RebuildDone \/ RebuildFailed
    BY <2>4 DEF Working, RebuildDone, RebuildFailed, SbStep, Next, Build
  <2>5. CASE \E p \in Posts, c \in Contents \cup {Absent} : EditOutside(p, c)
    BY <2>5 DEF EditOutside, SbStep, Next
  <2>6. CASE TimePasses \/ Die
    BY <2>6 DEF TimePasses, Die, SbStep, Next
  <2>7. CASE UNCHANGED vars
    BY <2>7 DEF vars, SbStep
  <2> QED
    BY <2>1, <2>2, <2>3, <2>4, <2>5, <2>6, <2>7 DEF ArticlesNext, Starting
<1> QED
  BY <1>1, <1>2, FilesAlwaysHold, PTL DEF TidySpec, Spec
=============================================================================
