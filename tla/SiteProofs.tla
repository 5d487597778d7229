----------------------------- MODULE SiteProofs -----------------------------
(***************************************************************************)
(* site.yml and the pictures, for every number of handlers, changes and     *)
(* pictures: no answered change of site.yml is lost, none that failed       *)
(* leaves a trace, and no picture is deleted while it is used, but for the   *)
(* uses that come into being under neither lock.                            *)
(*                                                                         *)
(* The first part is about the steps of SiteConfig alone; Media takes them  *)
(* over together with the lemmas, and adds its own.                         *)
(***************************************************************************)
EXTENDS Media, SequenceTheorems, TLAPS

LEMMA SiteConstants ==
    /\ Handlers \subseteq Threads /\ Watch \in Threads /\ Watch \notin Handlers
    /\ NoThread \notin Threads
    /\ {"search", "links"} \subseteq Entries /\ Builtin \in Icons
    /\ FirstLook \in Looks
    /\ \A e \in Edits : WellFormed(e)
    /\ HandEdits \subseteq Configs \cup {Broken}
    /\ Missing \notin Configs /\ Broken \notin Configs
BY SiteConfigAssumption, EditsAssumption

-----------------------------------------------------------------------------
(* Every change makes a configuration of a configuration, or is refused.    *)

LEMMA DefaultIsAConfig == Default \in Configs
<1>1. <<"search", "links">> \in Seq(Entries)
  BY SiteConstants
<1>2. <<>> \in Seq(Entries) /\ <<>> \in Seq(Feeds)
  BY EmptySeq
<1>3. ASSUME NEW S, NEW T, NEW a \in S, NEW b \in S, NEW c \in T
      PROVE  [nav |-> a, social |-> b, feeds |-> c, look |-> FirstLook, icon |-> Builtin]
               \in [nav : S, social : S, feeds : T, look : Looks, icon : Icons]
  BY SiteConstants
<1> QED
  BY <1>1, <1>2, <1>3 DEF Default, Configs

LEMMA WithoutIsAList ==
    ASSUME NEW S, NEW list \in Seq(S), NEW i
    PROVE  Without(list, i) \in Seq(S) \cup {Refused}
<1>1. CASE i \notin DOMAIN list
  BY <1>1 DEF Without
<1>2. CASE i \in DOMAIN list
  <2>1. i \in 1..Len(list) /\ Len(list) \in Nat
    BY <1>2, LenProperties
  <2>2. SubSeq(list, 1, i - 1) \in Seq(S) /\ SubSeq(list, i + 1, Len(list)) \in Seq(S)
    BY <2>1, SubSeqProperties
  <2> QED
    BY <1>2, <2>2, ConcatProperties DEF Without
<1> QED
  BY <1>1, <1>2

LEMMA SwappedIsAList ==
    ASSUME NEW S, NEW list \in Seq(S), NEW i, NEW dir
    PROVE  Swapped(list, i, dir) \in Seq(S) \cup {Refused}
<1> DEFINE j == i + MoveDelta(dir)
<1>1. CASE i \in DOMAIN list /\ j \in DOMAIN list
  <2> HIDE DEF j
  <2>1. list[i] \in S /\ list[j] \in S
    BY <1>1, ElementOfSeq, LenProperties
  <2>2. [list EXCEPT ![i] = list[j], ![j] = list[i]] \in Seq(S)
    BY <1>1, <2>1, ExceptSeq, LenProperties
  <2> QED
    BY <1>1, <2>2 DEF Swapped, j
<1>2. CASE ~(i \in DOMAIN list /\ j \in DOMAIN list)
  BY <1>2 DEF Swapped
<1> QED
  BY <1>1, <1>2

LEMMA SectionReplaced ==
    ASSUME NEW c \in Configs
    PROVE  /\ \A s \in {"nav", "social"}, list \in Seq(Entries) \cup {Refused} :
                 With(c, s, list) \in Configs \cup {Refused}
           /\ \A list \in Seq(Feeds) \cup {Refused} : With(c, "feeds", list) \in Configs \cup {Refused}
           /\ c.nav \in Seq(Entries) /\ c.social \in Seq(Entries) /\ c.feeds \in Seq(Feeds)
<1> DEFINE E == Seq(Entries)
           F == Seq(Feeds)
<1>1. c \in [nav : E, social : E, feeds : F, look : Looks, icon : Icons]
  BY DEF Configs
<1> HIDE DEF E, F
<1>2. ASSUME NEW list \in E
      PROVE  /\ [c EXCEPT !.nav = list] \in [nav : E, social : E, feeds : F, look : Looks, icon : Icons]
             /\ [c EXCEPT !.social = list] \in [nav : E, social : E, feeds : F, look : Looks, icon : Icons]
  BY <1>1
<1>3. ASSUME NEW list \in F
      PROVE  [c EXCEPT !.feeds = list] \in [nav : E, social : E, feeds : F, look : Looks, icon : Icons]
  BY <1>1
<1>4. c.nav \in E /\ c.social \in E /\ c.feeds \in F
  BY <1>1
<1> QED
  BY <1>2, <1>3, <1>4 DEF With, Configs, E, F

LEMMA FeedChanged ==
    ASSUME NEW c \in Configs, NEW i
    PROVE  FeedToggle(c, i) \in Configs \cup {Refused}
<1>1. CASE i \notin DOMAIN c.feeds
  BY <1>1 DEF FeedToggle
<1>2. CASE i \in DOMAIN c.feeds
  <2> DEFINE feed == [c.feeds[i] EXCEPT !.on = ~c.feeds[i].on]
             list == [c.feeds EXCEPT ![i] = feed]
  <2>1. c.feeds \in Seq(Feeds)
    BY SectionReplaced
  <2>2. i \in 1..Len(c.feeds) /\ c.feeds[i] \in Feeds
    BY <1>2, <2>1, ElementOfSeq, LenProperties
  <2>3. feed \in Feeds
    BY <2>2 DEF Feeds
  <2> HIDE DEF feed
  <2>4. list \in Seq(Feeds)
    BY <2>1, <2>2, <2>3, ExceptSeq
  <2>5. [c EXCEPT !.feeds[i].on = ~c.feeds[i].on] = [c EXCEPT !.feeds = list]
    BY DEF feed
  <2> HIDE DEF list
  <2>6. c \in [nav : Seq(Entries), social : Seq(Entries), feeds : Seq(Feeds), look : Looks, icon : Icons]
    BY DEF Configs
  <2>7. [c EXCEPT !.feeds = list] \in Configs
    BY <2>4, <2>6 DEF Configs
  <2> QED
    BY <1>2, <2>5, <2>7 DEF FeedToggle
<1> QED
  BY <1>1, <1>2

LEMMA ApplyMakesConfigs ==
    ASSUME NEW c \in Configs, NEW e, WellFormed(e)
    PROVE  Apply(e, c) \in Configs \cup {Refused}
<1>1. c.nav \in Seq(Entries) /\ c.social \in Seq(Entries) /\ c.feeds \in Seq(Feeds)
  BY SectionReplaced
<1>2. CASE e.op \in {"navAdd", "socialAdd", "feedAdd"} /\ e.x \in Entries
  <2>1. Append(c.nav, e.x) \in Seq(Entries) /\ Append(c.social, e.x) \in Seq(Entries)
    BY <1>1, <1>2, AppendProperties
  <2>2. Feed(e.x, TRUE) \in Feeds
    BY <1>2 DEF Feed, Feeds
  <2>3. Append(c.feeds, Feed(e.x, TRUE)) \in Seq(Feeds)
    BY <1>1, <2>2, AppendProperties
  <2>4. /\ NavAdd(c, e.x) \in Configs \cup {Refused} /\ SocialAdd(c, e.x) \in Configs \cup {Refused}
        /\ FeedAdd(c, e.x) \in Configs \cup {Refused}
    BY <2>1, <2>3, SectionReplaced DEF NavAdd, SocialAdd, FeedAdd
  <2> QED
    BY <1>2, <2>4 DEF Apply
<1>3. CASE e.op \in {"navRemove", "socialRemove", "feedRemove", "feedToggle"}
  <2>1. /\ NavRemove(c, e.i) \in Configs \cup {Refused} /\ SocialRemove(c, e.i) \in Configs \cup {Refused}
        /\ FeedRemove(c, e.i) \in Configs \cup {Refused}
    BY <1>1, WithoutIsAList, SectionReplaced DEF NavRemove, SocialRemove, FeedRemove
  <2> QED
    BY <1>3, <2>1, FeedChanged DEF Apply
<1>4. CASE e.op \in {"navMove", "socialMove"}
  <2>1. /\ NavMove(c, e.i, e.x) \in Configs \cup {Refused} /\ SocialMove(c, e.i, e.x) \in Configs \cup {Refused}
    BY <1>1, SwappedIsAList, SectionReplaced DEF NavMove, SocialMove
  <2> QED
    BY <1>4, <2>1 DEF Apply
<1>5. CASE e.op = "replace" /\ e.x \in {"nav", "social"} /\ e.list \in Seq(Entries)
  BY <1>5, SectionReplaced DEF Apply, ReplaceSection
<1>9. CASE e.op = "replace" /\ e.x = "feeds" /\ e.list \in Seq(Feeds)
  BY <1>9, SectionReplaced DEF Apply, ReplaceSection
<1>6. CASE (e.op = "look" /\ e.x \in Looks) \/ (e.op = "favicon" /\ e.x \in Icons)
  <2>1. \A x \in Looks : SetLook(c, x) \in Configs
    BY DEF SetLook, Configs
  <2>2. \A x \in Icons : SetFavicon(c, x) \in Configs
    BY DEF SetFavicon, Configs
  <2> QED
    BY <1>6, <2>1, <2>2 DEF Apply
<1>7. e.op \in {"navRemove", "socialRemove", "feedRemove", "feedToggle", "navMove", "socialMove"} =>
        \/ e.op \in {"navRemove", "socialRemove", "feedRemove", "feedToggle"}
        \/ e.op \in {"navMove", "socialMove"}
  OBVIOUS
<1>8. QED
  <2> DEFINE Good == Apply(e, c) \in Configs \cup {Refused}
  <2>1. CASE e.op \in {"navAdd", "socialAdd", "feedAdd"} /\ e.x \in Entries
    BY <2>1, <1>2
  <2>2. CASE e.op \in {"navRemove", "socialRemove", "feedRemove", "feedToggle", "navMove", "socialMove"}
    BY <2>2, <1>3, <1>4, <1>7
  <2>3. CASE e.op = "replace" /\ e.x \in {"nav", "social"} /\ e.list \in Seq(Entries)
    BY <2>3, <1>5
  <2>4. CASE e.op = "replace" /\ e.x = "feeds" /\ e.list \in Seq(Feeds)
    BY <2>4, <1>9
  <2>5. CASE (e.op = "look" /\ e.x \in Looks) \/ (e.op = "favicon" /\ e.x \in Icons)
    BY <2>5, <1>6
  <2> HIDE DEF Good
  <2> QED
    BY <2>1, <2>2, <2>3, <2>4, <2>5 DEF WellFormed
-----------------------------------------------------------------------------
(* The invariant of site.yml: who may be inside mutateSite, and what the    *)
(* file, its copy in memory and the bytes kept for a rollback are at each   *)
(* step of it.                                                              *)

FaviconOf(m) == [op |-> "favicon", x |-> m, i |-> 0, list |-> <<>>]

Requests == Edits \cup {FaviconOf(m) : m \in Images}
Files    == Configs \cup {Missing, Broken}
Steps    == {"idle", "load", "save", "reload", "build", "building", "rollback", "reloadOld"}
Jobs     == [at : Steps, edit : Requests \cup {Blank}, original : Files \cup {Blank},
             new : Configs \cup {Blank}]

SiteTyped ==
    /\ up \in BOOLEAN /\ outside \in BOOLEAN
    /\ siteMu \in Handlers \cup {NoThread}
    /\ file \in Files
    /\ job \in [Handlers -> Jobs]

Locked ==
    \A h \in Handlers :
        /\ ~At(h, "idle") => siteMu = h /\ up
        /\ At(h, "building") => builder = h

Quiet == \A h \in Handlers : At(h, "idle")

\* What h has of a request is its own; what it writes back is what there was.
JobOf(h) ==
    /\ ~At(h, "idle") => job[h].edit \in Requests /\ job[h].original \in Files
    /\ At(h, "save") => job[h].new \in Configs

\* As long as nobody has written the file past the process.
Memory ==
    up /\ ~outside =>
        /\ file \in Configs
        /\ Quiet => live = file
        /\ \A h \in Handlers :
             job[h].at \in {"load", "save", "build", "building"} => live = file

Changing(h) ==
    /\ At(h, "load") => file = expected /\ job[h].original = expected
    /\ At(h, "save") => /\ file = expected /\ job[h].original = expected
                        /\ job[h].new = Apply(job[h].edit, expected)
    /\ job[h].at \in {"reload", "build", "building"} =>
         /\ job[h].original = expected
         /\ file = Apply(job[h].edit, expected)
    /\ At(h, "rollback") => job[h].original = expected
    /\ At(h, "reloadOld") => file = expected

Kept ==
    up /\ "file" \notin excused =>
        /\ Quiet => file = expected
        /\ \A h \in Handlers : Changing(h)

SiteInv == SiteTyped /\ Locked /\ (\A h \in Handlers : JobOf(h)) /\ Memory /\ Kept

-----------------------------------------------------------------------------

LEMMA RequestsAreWellFormed == \A e \in Requests : WellFormed(e)
<1>1. \A m \in Images : WellFormed(FaviconOf(m))
  BY MediaAssumption DEF FaviconOf, WellFormed
<1> QED
  BY <1>1, SiteConstants DEF Requests

\* Only one handler is inside mutateSite.
LEMMA OneAtATime ==
    ASSUME SiteInv
    PROVE  /\ siteMu = NoThread => Quiet
           /\ \A g, h \in Handlers : ~At(g, "idle") /\ ~At(h, "idle") => g = h
BY SiteConstants DEF SiteInv, Locked, Quiet

LEMMA JobChanged ==
    ASSUME SiteTyped, NEW h \in Handlers, NEW r \in Jobs, job' = [job EXCEPT ![h] = r]
    PROVE  /\ job' \in [Handlers -> Jobs]
           /\ job'[h] = r
           /\ \A g \in Handlers \ {h} : job'[g] = job[g]
BY DEF SiteTyped

LEMMA JobGoes ==
    ASSUME SiteTyped, NEW h \in Handlers, NEW s \in Steps, Goto(h, s)
    PROVE  /\ job' \in [Handlers -> Jobs]
           /\ job'[h].at = s /\ job'[h].edit = job[h].edit
           /\ job'[h].original = job[h].original /\ job'[h].new = job[h].new
           /\ \A g \in Handlers \ {h} : job'[g] = job[g]
<1>1. ASSUME NEW E, NEW O, NEW N, NEW j \in [at : Steps, edit : E, original : O, new : N]
      PROVE  /\ [j EXCEPT !.at = s] \in [at : Steps, edit : E, original : O, new : N]
             /\ [j EXCEPT !.at = s].at = s /\ [j EXCEPT !.at = s].edit = j.edit
             /\ [j EXCEPT !.at = s].original = j.original /\ [j EXCEPT !.at = s].new = j.new
  OBVIOUS
<1>2. job[h] \in Jobs
  BY DEF SiteTyped
<1>3. job' = [job EXCEPT ![h] = [job[h] EXCEPT !.at = s]]
  BY DEF Goto
<1>4. [job[h] EXCEPT !.at = s] \in Jobs
  BY <1>1, <1>2 DEF Jobs
<1>5. /\ [job[h] EXCEPT !.at = s].at = s /\ [job[h] EXCEPT !.at = s].edit = job[h].edit
      /\ [job[h] EXCEPT !.at = s].original = job[h].original /\ [job[h] EXCEPT !.at = s].new = job[h].new
  BY <1>1, <1>2 DEF Jobs
<1> QED
  BY <1>3, <1>4, <1>5, JobChanged

LEMMA JobEnds ==
    ASSUME SiteTyped, NEW h \in Handlers, UnlockSite(h)
    PROVE  /\ job' \in [Handlers -> Jobs]
           /\ job'[h] = NoJob /\ job'[h].at = "idle"
           /\ \A g \in Handlers \ {h} : job'[g] = job[g]
           /\ siteMu' = NoThread
<1>1. NoJob \in Jobs /\ NoJob.at = "idle"
  BY DEF NoJob, Jobs, Steps
<1> QED
  BY <1>1, JobChanged DEF UnlockSite

\* A handler that gives the lock back leaves nobody inside; then only the file, the
\* copy in memory and what is expected matter.
LEMMA UnlockKeeps ==
    ASSUME SiteInv, NEW h \in Handlers, siteMu = h, UnlockSite(h), up' = up, outside' \in BOOLEAN,
           file' \in Files,
           up /\ ~outside' => file' \in Configs /\ live' = file',
           up /\ "file" \notin excused' => file' = expected'
    PROVE  SiteInv'
<1>1. /\ job' \in [Handlers -> Jobs] /\ siteMu' = NoThread
      /\ \A g \in Handlers : job'[g].at = "idle"
  BY JobEnds, OneAtATime DEF SiteInv, At, Locked
<1> QED
  BY <1>1 DEF SiteInv, SiteTyped, Locked, JobOf, Memory, Kept, Quiet, Changing, At

LEMMA ReadOriginalKeeps ==
    ASSUME SiteInv, NEW h \in Handlers, NEW e \in Requests, ReadOriginal(h, e)
    PROVE  SiteInv'
<1> DEFINE r == [at |-> "load", edit |-> e, original |-> file, new |-> Blank]
<1>1. r \in Jobs
  BY DEF SiteInv, SiteTyped, Jobs, Steps
<1>2. Quiet /\ up /\ siteMu' = h
  BY OneAtATime DEF ReadOriginal, LockSite
<1>3. /\ job' \in [Handlers -> Jobs] /\ job'[h] = r
      /\ \A g \in Handlers \ {h} : job'[g].at = "idle"
  BY <1>1, <1>2, JobChanged DEF ReadOriginal, SiteInv, Quiet, At
<1>4. job'[h].at = "load" /\ job'[h].edit = e /\ job'[h].original = file
  BY <1>3
<1>5. UNCHANGED <<file, live, up, outside, expected, excused, builder>>
  BY DEF ReadOriginal, fileVars, buildVars, ghostVars
<1> HIDE DEF r
<1>6. SiteTyped' /\ Locked' /\ (\A g \in Handlers : JobOf(g))'
  BY <1>2, <1>3, <1>4, <1>5 DEF SiteInv, SiteTyped, Locked, JobOf, At
<1>7. Memory'
  BY <1>2, <1>3, <1>4, <1>5 DEF SiteInv, Memory, Quiet, At
<1>8. Kept'
  BY <1>2, <1>3, <1>4, <1>5 DEF SiteInv, Kept, Quiet, At, Changing
<1> QED
  BY <1>6, <1>7, <1>8 DEF SiteInv

\* What it means that only h is inside, where h is at s: the other handlers have no part
\* in the invariant.
LEMMA InsideKeeps ==
    ASSUME SiteInv, NEW h \in Handlers, ~At(h, "idle"),
           job' \in [Handlers -> Jobs], \A g \in Handlers \ {h} : job'[g] = job[g],
           job'[h].at # "idle", job'[h].edit = job[h].edit, job'[h].original = job[h].original,
           UNCHANGED <<up, siteMu, expected>>, outside' \in BOOLEAN, file' \in Files,
           JobOf(h)', job'[h].at = "building" => builder' = h,
           up /\ ~outside' => /\ file' \in Configs
                              /\ job'[h].at \in {"load", "save", "build", "building"} => live' = file',
           up /\ "file" \notin excused' => "file" \notin excused /\ Changing(h)'
    PROVE  SiteInv'
<1>1. siteMu = h /\ up /\ \A g \in Handlers \ {h} : At(g, "idle") /\ At(g, "idle")'
  BY OneAtATime DEF SiteInv, Locked, At
<1>2. SiteTyped' /\ Locked' /\ (\A g \in Handlers : JobOf(g))'
  BY <1>1 DEF SiteInv, SiteTyped, Locked, JobOf, At
<1>3. Memory'
  BY <1>1 DEF SiteInv, Memory, Quiet, At
<1>4. Kept'
  BY <1>1 DEF Kept, Quiet, At, Changing
<1> QED
  BY <1>2, <1>3, <1>4 DEF SiteInv

LEMMA LoadAndApplyKeeps ==
    ASSUME SiteInv, NEW h \in Handlers, LoadAndApply(h)
    PROVE  SiteInv'
<1> DEFINE e == job[h].edit
           new == Apply(e, file)
<1>1. /\ At(h, "load") /\ siteMu = h /\ up /\ e \in Requests /\ WellFormed(e)
      /\ UNCHANGED <<file, live, up, outside, expected, excused, builder>>
  BY RequestsAreWellFormed DEF LoadAndApply, SiteInv, Locked, JobOf, At, fileVars, buildVars,
     ghostVars, boundVars
<1>2. CASE ~Loads(file) \/ new = Refused
  <2>1. UnlockSite(h)
    BY <1>2 DEF LoadAndApply
  <2> HIDE DEF new, e
  <2> QED
    BY <1>1, <2>1, UnlockKeeps DEF SiteInv, SiteTyped, Memory, Kept, Changing, At
<1>3. CASE Loads(file) /\ new # Refused
  <2>1. file \in Configs
    BY <1>3 DEF SiteInv, SiteTyped, Files, Loads
  <2>2. new \in Configs
    BY <1>1, <1>3, <2>1, ApplyMakesConfigs
  <2>3. job' = [job EXCEPT ![h].new = new, ![h].at = "save"] /\ siteMu' = siteMu
    BY <1>3 DEF LoadAndApply
  <2> HIDE DEF new
  <2>4. ASSUME NEW E, NEW O, NEW N, NEW j \in [at : Steps, edit : E, original : O, new : N], NEW n \in N
        PROVE  /\ [j EXCEPT !.new = n, !.at = "save"] \in [at : Steps, edit : E, original : O, new : N]
               /\ [j EXCEPT !.new = n, !.at = "save"].at = "save"
               /\ [j EXCEPT !.new = n, !.at = "save"].new = n
               /\ [j EXCEPT !.new = n, !.at = "save"].edit = j.edit
               /\ [j EXCEPT !.new = n, !.at = "save"].original = j.original
    BY DEF Steps
  <2> DEFINE k == [job[h] EXCEPT !.new = new, !.at = "save"]
  <2>5. k \in Jobs /\ k.at = "save" /\ k.new = new /\ k.edit = job[h].edit /\ k.original = job[h].original
    <3>1. /\ job[h] \in [at : Steps, edit : Requests \cup {Blank}, original : Files \cup {Blank},
                         new : Configs \cup {Blank}]
          /\ new \in Configs \cup {Blank}
      BY <2>2 DEF SiteInv, SiteTyped, Jobs
    <3> QED
      BY <3>1, <2>4 DEF Jobs
  <2>6. job' = [job EXCEPT ![h] = k]
    BY <2>3
  <2> HIDE DEF k
  <2>7. job' \in [Handlers -> Jobs] /\ job'[h] = k /\ \A g \in Handlers \ {h} : job'[g] = job[g]
    BY <2>5, <2>6, JobChanged DEF SiteInv
  <2>8. up /\ ~outside => live = file
    BY <1>1 DEF SiteInv, Memory, At
  <2>9. "file" \notin excused => file = expected /\ job[h].original = expected /\ new = Apply(e, expected)
    BY <1>1 DEF SiteInv, Kept, Changing, new
  <2>10. JobOf(h)' /\ ("file" \notin excused' => Changing(h)')
    BY <1>1, <2>2, <2>5, <2>7, <2>9 DEF JobOf, Changing, At, SiteInv
  <2> QED
    BY <1>1, <2>1, <2>3, <2>5, <2>7, <2>8, <2>10, InsideKeeps DEF At, SiteInv, SiteTyped
<1> QED
  BY <1>2, <1>3

LEMMA SaveFileKeeps ==
    ASSUME SiteInv, NEW h \in Handlers, SaveFile(h)
    PROVE  SiteInv'
<1>1. /\ At(h, "save") /\ siteMu = h /\ up
      /\ UNCHANGED <<live, up, outside, expected, excused, builder>>
  BY DEF SaveFile, SiteInv, Locked, At, buildVars, ghostVars, boundVars
<1>2. CASE UnlockSite(h) /\ UNCHANGED fileVars
  BY <1>1, <1>2, UnlockKeeps DEF SiteInv, SiteTyped, Memory, Kept, Changing, At, fileVars
<1>3. CASE WriteFile(job[h].new) /\ Goto(h, "reload") /\ UNCHANGED siteMu
  <2>1. file' = job[h].new /\ file' \in Configs
    BY <1>1, <1>3 DEF WriteFile, SiteInv, JobOf
  <2>2. /\ job' \in [Handlers -> Jobs]
        /\ job'[h].at = "reload" /\ job'[h].edit = job[h].edit /\ job'[h].original = job[h].original
        /\ \A g \in Handlers \ {h} : job'[g] = job[g]
    BY <1>3, JobGoes DEF SiteInv, Steps
  <2>3. "file" \notin excused => job[h].original = expected /\ file' = Apply(job[h].edit, expected)
    BY <1>1, <2>1 DEF SiteInv, Kept, Changing
  <2>4. JobOf(h)' /\ ("file" \notin excused' => Changing(h)')
    BY <1>1, <2>1, <2>2, <2>3 DEF JobOf, Changing, At, SiteInv
  <2> QED
    BY <1>1, <1>3, <2>1, <2>2, <2>4, InsideKeeps DEF At, Files, SiteInv, SiteTyped
<1> QED
  BY <1>2, <1>3 DEF SaveFile

LEMMA ReloadKeeps ==
    ASSUME SiteInv, NEW h \in Handlers, Reload(h)
    PROVE  SiteInv'
<1>1. /\ At(h, "reload") /\ siteMu = h /\ up
      /\ UNCHANGED <<file, siteMu, up, expected, excused, builder>>
  BY DEF Reload, SiteInv, Locked, At, buildVars, boundVars, fileVars
<1>2. \/ Loads(file) /\ live' = file /\ outside' = FALSE /\ Goto(h, "build")
      \/ ~Loads(file) /\ UNCHANGED <<live, outside>> /\ Goto(h, "rollback")
  BY DEF Reload
<1>3. /\ job' \in [Handlers -> Jobs]
      /\ \/ job'[h].at = "build" /\ live' = file
         \/ job'[h].at = "rollback"
      /\ job'[h].edit = job[h].edit /\ job'[h].original = job[h].original
      /\ \A g \in Handlers \ {h} : job'[g] = job[g]
  BY <1>2, JobGoes DEF SiteInv, Steps
<1>4. JobOf(h)' /\ ("file" \notin excused' => Changing(h)')
  BY <1>1, <1>3 DEF JobOf, Kept, Changing, At, SiteInv
<1>5. outside' \in BOOLEAN /\ (~outside' => file \in Configs)
  BY <1>1, <1>2 DEF SiteInv, SiteTyped, Memory, Loads, Files
<1> QED
  BY <1>1, <1>3, <1>4, <1>5, InsideKeeps DEF At, SiteInv, SiteTyped

LEMMA RollBackFileKeeps ==
    ASSUME SiteInv, NEW h \in Handlers, RollBackFile(h)
    PROVE  SiteInv'
<1>1. /\ At(h, "rollback") /\ siteMu = h /\ up /\ job[h].original \in Files
      /\ UNCHANGED <<live, siteMu, up, expected, builder>>
  BY DEF RollBackFile, SiteInv, Locked, JobOf, At, buildVars, boundVars
<1>2. /\ job' \in [Handlers -> Jobs]
      /\ job'[h].at = "reloadOld"
      /\ job'[h].edit = job[h].edit /\ job'[h].original = job[h].original
      /\ \A g \in Handlers \ {h} : job'[g] = job[g]
  BY JobGoes DEF SiteInv, Steps, RollBackFile
<1>3. \/ file' = job[h].original /\ excused' = excused
      \/ file' = file /\ excused' = excused \cup {"file"}
  BY DEF RollBackFile, WriteFile, fileVars
<1>4. JobOf(h)' /\ ("file" \notin excused' => Changing(h)')
  BY <1>1, <1>2, <1>3 DEF JobOf, Kept, Changing, At, SiteInv
<1>5. file' \in Files
  BY <1>1, <1>3 DEF SiteInv, SiteTyped
<1>6. outside' \in BOOLEAN /\ (~outside' => file' \in Configs)
  BY <1>5 DEF RollBackFile, SiteInv, SiteTyped, Loads, Files
<1> QED
  BY <1>1, <1>2, <1>3, <1>4, <1>5, <1>6, InsideKeeps DEF At

LEMMA ReloadOldKeeps ==
    ASSUME SiteInv, NEW h \in Handlers, ReloadOld(h)
    PROVE  SiteInv'
<1>1. /\ At(h, "reloadOld") /\ siteMu = h /\ up /\ UnlockSite(h)
      /\ UNCHANGED <<file, up, expected, excused>>
      /\ IF Loads(file) THEN live' = file /\ outside' = FALSE ELSE UNCHANGED <<live, outside>>
  BY DEF ReloadOld, SiteInv, Locked, At, buildVars, boundVars, fileVars
<1>2. outside' \in BOOLEAN /\ (~outside' => file \in Configs /\ live' = file)
  BY <1>1, SiteConstants DEF SiteInv, SiteTyped, Memory, Loads, Files
<1>3. "file" \notin excused => file = expected
  BY <1>1 DEF SiteInv, Kept, Changing
<1> QED
  BY <1>1, <1>2, <1>3, UnlockKeeps DEF SiteInv, SiteTyped

LEMMA BeginBuildKeeps ==
    ASSUME SiteInv, NEW t \in Threads, BeginBuild(t)
    PROVE  SiteInv'
<1>1. /\ up /\ builder = NoThread /\ builder' = t
      /\ UNCHANGED <<file, live, siteMu, up, outside, expected>>
      /\ excused \subseteq excused' /\ ("file" \in excused' => "file" \in excused)
  BY DEF BeginBuild, boundVars
<1>2. CASE t \notin Handlers
  <2>1. job' = job
    BY <1>2 DEF BeginBuild
  <2>2. \A h \in Handlers : ~At(h, "building")
    BY <1>1, SiteConstants DEF SiteInv, Locked
  <2> QED
    BY <1>1, <2>1, <2>2 DEF SiteInv, SiteTyped, Locked, JobOf, Memory, Kept, Quiet, Changing, At
<1>3. CASE t \in Handlers
  <2>1. At(t, "build") /\ Goto(t, "building")
    BY <1>3 DEF BeginBuild, MayBuild
  <2>2. /\ job' \in [Handlers -> Jobs]
        /\ job'[t].at = "building"
        /\ job'[t].edit = job[t].edit /\ job'[t].original = job[t].original
        /\ \A g \in Handlers \ {t} : job'[g] = job[g]
    BY <1>3, <2>1, JobGoes DEF SiteInv, Steps
  <2>3. JobOf(t)' /\ ("file" \notin excused' => Changing(t)')
    BY <1>1, <1>3, <2>1, <2>2 DEF JobOf, Kept, Changing, At, SiteInv
  <2>4. ~outside => file \in Configs /\ live = file
    BY <1>1, <1>3, <2>1 DEF SiteInv, Memory, At
  <2> QED
    BY <1>1, <1>3, <2>1, <2>2, <2>3, <2>4, InsideKeeps DEF At, SiteInv, SiteTyped
<1> QED
  BY <1>2, <1>3

\* The rebuild of a handler is that of its change.
LEMMA EndBuildKeeps ==
    ASSUME SiteInv, builder \in Handlers => At(builder, "building"), NEW ok \in BOOLEAN, EndBuild(ok)
    PROVE  SiteInv'
<1>1. /\ builder' = NoThread
      /\ UNCHANGED <<file, live, up, outside, excused>>
  BY DEF EndBuild, fileVars, boundVars
<1>2. CASE builder \notin Handlers
  <2>1. UNCHANGED <<job, siteMu, expected>> /\ \A h \in Handlers : ~At(h, "building")
    BY <1>2 DEF EndBuild, SiteInv, Locked
  <2> QED
    BY <1>1, <2>1 DEF SiteInv, SiteTyped, Locked, JobOf, Memory, Kept, Quiet, Changing, At
<1>3. CASE builder \in Handlers /\ ok
  <2> DEFINE h == builder
  <2>1. /\ UnlockSite(h) /\ At(h, "building") /\ siteMu = h /\ up
        /\ expected' = IF "file" \in excused THEN file ELSE Apply(job[h].edit, expected)
    BY <1>3 DEF EndBuild, SiteInv, Locked, At
  <2>2. ~outside => file \in Configs /\ live = file
    BY <1>3, <2>1 DEF SiteInv, Memory, At
  <2>3. "file" \notin excused => file = expected'
    BY <1>3, <2>1 DEF SiteInv, Kept, Changing, At
  <2> QED
    BY <1>1, <1>3, <2>1, <2>2, <2>3, UnlockKeeps DEF SiteInv, SiteTyped
<1>4. CASE builder \in Handlers /\ ~ok
  <2> DEFINE h == builder
  <2>1. /\ Goto(h, "rollback") /\ At(h, "building") /\ up
        /\ UNCHANGED <<siteMu, expected>>
    BY <1>4 DEF EndBuild, SiteInv, Locked, At
  <2>2. /\ job' \in [Handlers -> Jobs]
        /\ job'[h].at = "rollback"
        /\ job'[h].edit = job[h].edit /\ job'[h].original = job[h].original
        /\ \A g \in Handlers \ {h} : job'[g] = job[g]
    BY <1>4, <2>1, JobGoes DEF SiteInv, Steps
  <2>3. ~outside => file \in Configs
    BY <2>1 DEF SiteInv, Memory
  <2>4. "file" \notin excused => job[h].original = expected
    BY <1>4, <2>1 DEF SiteInv, Kept, Changing, At
  <2>5. /\ \A g \in Handlers \ {h} : At(g, "idle") /\ At(g, "idle")'
        /\ siteMu = h
    BY <1>4, <2>1, <2>2, OneAtATime DEF SiteInv, Locked, At
  <2> HIDE DEF h
  <2>6. h \in Handlers
    BY <1>4 DEF h
  <2>7. SiteTyped' /\ Locked' /\ (\A g \in Handlers : JobOf(g))'
    BY <1>1, <2>1, <2>2, <2>5, <2>6 DEF SiteInv, SiteTyped, Locked, JobOf, At
  <2>8. Memory' /\ Kept'
    BY <1>1, <2>1, <2>2, <2>3, <2>4, <2>5, <2>6 DEF SiteInv, Memory, Kept, Quiet, Changing, At
  <2> QED
    BY <2>7, <2>8 DEF SiteInv
<1> QED
  BY <1>2, <1>3, <1>4

LEMMA WrittenAreFiles == HandEdits \cup {Broken} \subseteq Files
BY SiteConstants DEF Files

LEMMA WriteOutsideKeeps ==
    ASSUME SiteInv, NEW f \in Files, WriteOutside(f),
           UNCHANGED <<live, up, siteMu, builder, job>>
    PROVE  SiteInv'
<1>1. /\ file' = f /\ expected' = f /\ outside' = TRUE
      /\ excused' = IF siteMu = NoThread THEN excused ELSE excused \cup {"file"}
  BY DEF WriteOutside, WriteFile
<1>3. "file" \notin excused' => Quiet
  BY <1>1, OneAtATime
<1>4. SiteTyped' /\ Locked' /\ (\A h \in Handlers : JobOf(h))'
  BY <1>1 DEF SiteInv, SiteTyped, Locked, JobOf, At
<1>5. Memory'
  BY <1>1 DEF Memory
<1>6. Kept'
  BY <1>1, <1>3 DEF Kept, Quiet, Changing, At
<1> QED
  BY <1>4, <1>5, <1>6 DEF SiteInv

LEMMA StopKeeps ==
    ASSUME SiteInv, Stop
    PROVE  SiteInv'
<1>1. NoJob \in Jobs /\ NoJob.at = "idle"
  BY DEF NoJob, Jobs, Steps
<1> QED
  BY <1>1 DEF Stop, SiteInv, SiteTyped, Locked, JobOf, Memory, Kept, At

LEMMA BootKeeps ==
    ASSUME SiteInv, Boot
    PROVE  SiteInv'
<1>1. file' \in Configs /\ live' = file' /\ expected' = file'
  BY DefaultIsAConfig DEF Boot, SiteInv, SiteTyped, Files
<1>2. Quiet /\ job' = job /\ siteMu' = siteMu /\ outside' = outside /\ up'
  BY DEF Boot, SiteInv, Locked, Quiet, boundVars
<1> QED
  BY <1>1, <1>2 DEF SiteInv, SiteTyped, Files, Locked, JobOf, Memory, Kept, Changing, Quiet, At

\* Nothing the invariant speaks of changes.
LEMMA SiteStays ==
    ASSUME SiteInv, UNCHANGED <<file, live, up, siteMu, builder, job, expected, excused, outside>>
    PROVE  SiteInv'
BY DEF SiteInv, SiteTyped, Locked, JobOf, Memory, Kept, Changing, Quiet, At

LEMMA MutateKeeps ==
    ASSUME SiteInv, NEW h \in Handlers, MutateStep(h)
    PROVE  SiteInv'
BY LoadAndApplyKeeps, SaveFileKeeps, ReloadKeeps, RollBackFileKeeps, ReloadOldKeeps DEF MutateStep

LEMMA SiteStepKeeps ==
    ASSUME SiteInv, SiteStep
    PROVE  SiteInv'
<1>1. CASE \E h \in Handlers, e \in Edits : ReadOriginal(h, e)
  BY <1>1, ReadOriginalKeeps DEF Requests
<1>2. CASE \E h \in Handlers : MutateStep(h)
  BY <1>2, MutateKeeps
<1>3. CASE WatchFires
  BY <1>3, SiteStays DEF WatchFires, buildVars, ghostVars, boundVars
<1>4. CASE \E f \in HandEdits \cup {Broken} : HandEdit(f)
  BY <1>4, WrittenAreFiles, WriteOutsideKeeps DEF HandEdit, buildVars
<1> QED
  BY <1>1, <1>2, <1>3, <1>4 DEF SiteStep

LEMMA SiteInvInit == ASSUME SiteInit PROVE SiteInv
<1>1. NoJob \in Jobs /\ NoJob.at = "idle"
  BY DEF NoJob, Jobs, Steps
<1>2. file \in Files
  BY SiteConstants DEF SiteInit, Files
<1> QED
  BY <1>1, <1>2 DEF SiteInit, SiteInv, SiteTyped, Locked, JobOf, Memory, Kept, At

\* Who holds siteMu after such a step is in mutateSite, or held it before without being there;
\* the rebuild that goes on is the same one.
LEMMA SiteStepBuilds ==
    ASSUME SiteInv, SiteStep
    PROVE  /\ builder' = builder /\ up' = up
           /\ \A h \in Handlers : At(h, "building") => At(h, "building")'
           /\ \A h \in Handlers : siteMu' = h /\ (siteMu = h => ~At(h, "idle")) => ~At(h, "idle")'
           /\ Quiet /\ siteMu # NoThread => siteMu' = siteMu /\ live' = live
           /\ Quiet /\ siteMu # NoThread => (outside => outside')
<1>1. CASE \E g \in Handlers, e \in Edits : ReadOriginal(g, e)
  <2>1. PICK g \in Handlers, e \in Edits : ReadOriginal(g, e)
    BY <1>1
  <2>2. /\ At(g, "idle") /\ siteMu = NoThread /\ siteMu' = g /\ UNCHANGED <<builder, up, outside>>
        /\ job'[g].at = "load" /\ \A k \in Handlers \ {g} : job'[k] = job[k]
    BY <2>1 DEF ReadOriginal, LockSite, buildVars, ghostVars, SiteInv, SiteTyped
  <2> QED
    BY <2>2 DEF At
<1>2. CASE \E g \in Handlers : MutateStep(g)
  <2>1. PICK g \in Handlers : MutateStep(g)
    BY <1>2
  <2>2. job[g].at \in {"load", "save", "reload", "rollback", "reloadOld"} /\ UNCHANGED <<builder, up>>
    BY <2>1 DEF MutateStep, LoadAndApply, SaveFile, Reload, RollBackFile, ReloadOld, At, buildVars, boundVars
  <2>3. siteMu = g /\ ~Quiet /\ \A h \in Handlers : ~At(h, "building")
    BY <2>2, OneAtATime DEF At, SiteInv, Locked, Quiet
  <2>4. siteMu' = NoThread \/ (siteMu' = siteMu /\ ~At(g, "idle")')
    <3>1. CASE UnlockSite(g)
      BY <3>1 DEF UnlockSite
    <3>2. CASE siteMu' = siteMu /\ \E s \in {"reload", "build", "rollback", "reloadOld"} : Goto(g, s)
      <4>1. PICK s \in {"reload", "build", "rollback", "reloadOld"} : Goto(g, s)
        BY <3>2
      <4>2. s \in Steps /\ s # "idle"
        BY DEF Steps
      <4>3. job'[g].at = s
        BY <4>1, <4>2, JobGoes DEF SiteInv
      <4> QED
        BY <3>2, <4>2, <4>3 DEF At
    <3>3. CASE siteMu' = siteMu /\ job' = [job EXCEPT ![g].new = Apply(job[g].edit, file), ![g].at = "save"]
      <4>1. job'[g].at = "save"
        BY <3>3 DEF SiteInv, SiteTyped, Jobs
      <4> QED
        BY <3>3, <4>1 DEF At
    <3> QED
      BY <2>1, <3>1, <3>2, <3>3 DEF MutateStep, LoadAndApply, SaveFile, Reload, RollBackFile, ReloadOld
  <2> QED
    BY <2>2, <2>3, <2>4, SiteConstants
<1>3. CASE WatchFires
  BY <1>3 DEF WatchFires, At, buildVars, ghostVars, boundVars
<1>4. CASE \E f \in HandEdits \cup {Broken} : HandEdit(f)
  BY <1>4 DEF HandEdit, WriteOutside, At, buildVars
<1> QED
  BY <1>1, <1>2, <1>3, <1>4 DEF SiteStep

\* SiteConfig by itself: whoever of the handlers rebuilds is in mutateSite.
ChangeBuilds == builder \in Handlers => At(builder, "building")

LEMMA SiteInvNext == SiteInv /\ ChangeBuilds /\ [SiteNext]_siteVars => (SiteInv /\ ChangeBuilds)'
<1> SUFFICES ASSUME SiteInv, ChangeBuilds, [SiteNext]_siteVars
             PROVE  SiteInv' /\ ChangeBuilds'
  OBVIOUS
<1>1. CASE SiteStep
  BY <1>1, SiteStepBuilds, SiteStepKeeps DEF ChangeBuilds
<1>2. CASE \E t \in Threads : BeginBuild(t)
  <2>1. PICK t \in Threads : BeginBuild(t)
    BY <1>2
  <2>2. builder' = t /\ (t \in Handlers => Goto(t, "building"))
    BY <2>1 DEF BeginBuild
  <2>3. t \in Handlers => job'[t].at = "building"
    BY <2>2, JobGoes DEF Steps, SiteInv
  <2> QED
    BY <2>1, <2>2, <2>3, BeginBuildKeeps DEF ChangeBuilds, At
<1>3. CASE (\E p \in Pages : Draw(p)) \/ UNCHANGED siteVars
  BY <1>3, SiteStays DEF Draw, siteVars, fileVars, buildVars, ghostVars, boundVars, ChangeBuilds, At
<1>4. CASE PublishSite \/ FailBuild
  <2>1. \E ok \in BOOLEAN : EndBuild(ok)
    BY <1>4 DEF PublishSite, FailBuild
  <2>2. builder' = NoThread
    BY <2>1 DEF EndBuild
  <2> QED
    BY <2>1, <2>2, EndBuildKeeps, SiteConstants DEF ChangeBuilds
<1>5. CASE Stop
  BY <1>5, StopKeeps, SiteConstants DEF Stop, ChangeBuilds
<1>6. CASE Boot
  BY <1>6, BootKeeps DEF Boot, ChangeBuilds, At
<1>7. CASE \E r \in Restorers, f \in HandEdits \cup {Broken} : RestoreFile(r, f)
  BY <1>7, WrittenAreFiles, WriteOutsideKeeps DEF RestoreFile, buildVars, ChangeBuilds, At
<1> QED
  BY <1>1, <1>2, <1>3, <1>4, <1>5, <1>6, <1>7 DEF SiteNext

\* No answered change of site.yml is lost or applied twice, none that failed leaves a
\* trace, and the process works with the file there is unless it was written past the process,
\* by hand or by a restore, and not loaded since (server/admin_site_lists.go, mutateSite;
\* main.go, ReloadSite): for every number of handlers, restores and changes.
THEOREM ChangesAreAlwaysKept == SiteSpec => []ChangesAreKept
<1>1. SiteInit => SiteInv /\ ChangeBuilds
  BY SiteInvInit, SiteConstants DEF SiteInit, ChangeBuilds
<1>2. SiteInv => ChangesAreKept
  BY OneAtATime DEF SiteInv, Memory, Kept, ChangesAreKept
<1> QED
  BY <1>1, <1>2, SiteInvNext, PTL DEF SiteSpec

-----------------------------------------------------------------------------
(* The pictures.  What a request that works on a picture holds, and what it *)
(* has found out, at each of its steps.                                     *)

TaskSteps == {"idle", "store", "set", "write", "build", "building", "rollback",
              "lock", "check", "master", "renditions"}
Tasks     == [kind : {"none", "upload", "favicon", "post", "delete"}, at : TaskSteps,
              pic : Images \cup {Blank}, had : BOOLEAN]
Looked    == {"?", "bare", "sizes"}
Passes    == [at : {"idle", "cut", "fill", "build"}, pic : Images \cup {Blank}]
Copies    == [posts : SUBSET Images, file : Files, masters : SUBSET Images]

\* What the invariant of site.yml speaks of.
core == <<file, live, up, siteMu, builder, job, expected, excused, outside>>

MediaTyped ==
    /\ masters \in SUBSET Images /\ sized \in SUBSET Images
    /\ posts \in SUBSET Images /\ dropped \in SUBSET Images
    /\ postMu \in Handlers \cup {NoThread} /\ builder \in Threads \cup {NoThread}
    /\ task \in [Handlers -> Tasks]
    /\ waiting \in [Images -> Nat]
    /\ encoder \in Passes /\ (encoder.at = "cut" => encoder.pic \in Images)
    /\ backup \in [Restorers -> Copies]
    /\ index \in [Images -> Looked] /\ looked \in [Images -> Looked]
    /\ pics \in [Images -> Looked \cup {"none"}]

\* Between the check and the removal both locks are held, so what was found stays true.
TaskOf(h) ==
    /\ task[h].kind # "none" => up /\ At(h, "idle") /\ task[h].pic \in Images
    /\ task[h].kind = "post" => postMu = h
    /\ task[h].kind = "delete" => /\ siteMu = h
                                  /\ task[h].at # "lock" => postMu = h
    /\ Doing(h, "delete", "master") =>
         (task[h].had => /\ task[h].pic \notin posts \ dropped
                         /\ ~outside => live.icon # task[h].pic)

\* siteMu is held by somebody who will give it back.
SiteMuHeld ==
    \A h \in Handlers : siteMu = h => ~At(h, "idle") \/ task[h].kind = "delete"

\* A handler rebuilds for its change of site.yml or for its post.
Builds ==
    builder \in Handlers => At(builder, "building") \/ Doing(builder, "post", "building")

MediaInv ==
    /\ SiteInv
    /\ MediaTyped
    /\ \A h \in Handlers : TaskOf(h)
    /\ SiteMuHeld
    /\ Builds

-----------------------------------------------------------------------------

LEMMA TaskChanged ==
    ASSUME MediaTyped, NEW h \in Handlers, NEW r \in Tasks, task' = [task EXCEPT ![h] = r]
    PROVE  /\ task' \in [Handlers -> Tasks] /\ task'[h] = r
           /\ \A g \in Handlers \ {h} : task'[g] = task[g]
BY DEF MediaTyped

LEMMA TaskGoes ==
    ASSUME MediaTyped, NEW h \in Handlers, NEW s \in TaskSteps, Step(h, s)
    PROVE  /\ task' \in [Handlers -> Tasks]
           /\ task'[h].at = s /\ task'[h].kind = task[h].kind
           /\ task'[h].pic = task[h].pic /\ task'[h].had = task[h].had
           /\ \A g \in Handlers \ {h} : task'[g] = task[g]
<1>1. task[h] \in Tasks
  BY DEF MediaTyped
<1>2. [task[h] EXCEPT !.at = s] \in Tasks
  BY <1>1 DEF Tasks
<1>3. task' = [task EXCEPT ![h] = [task[h] EXCEPT !.at = s]]
  BY DEF Step
<1>4. task'[h] = [task[h] EXCEPT !.at = s] /\ task' \in [Handlers -> Tasks]
      /\ \A g \in Handlers \ {h} : task'[g] = task[g]
  BY <1>2, <1>3, TaskChanged
<1> QED
  BY <1>1, <1>4 DEF Tasks

LEMMA TaskEnds ==
    ASSUME MediaTyped, NEW h \in Handlers, EndTask(h)
    PROVE  /\ task' \in [Handlers -> Tasks]
           /\ task'[h].kind = "none" /\ task'[h].at = "idle"
           /\ \A g \in Handlers \ {h} : task'[g] = task[g]
<1>1. NoTask \in Tasks /\ NoTask.kind = "none" /\ NoTask.at = "idle"
  BY DEF NoTask, Tasks, TaskSteps
<1> QED
  BY <1>1, TaskChanged DEF EndTask

LEMMA TaskBegins ==
    ASSUME MediaTyped, NEW h \in Handlers, NEW kind \in {"upload", "favicon", "post", "delete"},
           NEW step \in TaskSteps, NEW m \in Images, Begin(h, kind, step, m)
    PROVE  /\ task' \in [Handlers -> Tasks]
           /\ task'[h].kind = kind /\ task'[h].at = step /\ task'[h].pic = m
           /\ \A g \in Handlers \ {h} : task'[g] = task[g]
           /\ up /\ At(h, "idle") /\ task[h].kind = "none" /\ ~Doing(h, "post", "building")
<1> DEFINE r == [kind |-> kind, at |-> step, pic |-> m,
                 had |-> kind \in {"upload", "favicon"} /\ m \in masters]
<1>1. r \in Tasks /\ r.kind = kind /\ r.at = step /\ r.pic = m
  BY DEF Tasks
<1>2. task' = [task EXCEPT ![h] = r] /\ up /\ At(h, "idle") /\ task[h] = NoTask
  BY DEF Begin
<1>3. task[h].kind = "none" /\ ~Doing(h, "post", "building")
  BY <1>2 DEF NoTask, Doing
<1> HIDE DEF r
<1>4. task' \in [Handlers -> Tasks] /\ task'[h] = r /\ \A g \in Handlers \ {h} : task'[g] = task[g]
  BY <1>1, <1>2, TaskChanged
<1> QED
  BY <1>1, <1>2, <1>3, <1>4

\* A request that is at work leaves the others what they have found out: whatever they have
\* locked, it has not.
LEMMA OthersStay ==
    ASSUME MediaInv, NEW h \in Handlers,
           \A g \in Handlers \ {h} : task'[g] = task[g] /\ job'[g] = job[g],
           up' = up, outside => outside' \/ siteMu \in {NoThread, h},
           postMu' = postMu \/ postMu \in {NoThread, h},
           siteMu' = siteMu \/ siteMu \in {NoThread, h},
           live' = live \/ siteMu \in {NoThread, h},
           posts' \ dropped' \subseteq posts \ dropped \/ postMu = h
    PROVE  \A g \in Handlers \ {h} : TaskOf(g)'
<1> SUFFICES ASSUME NEW g \in Handlers \ {h} PROVE TaskOf(g)'
  OBVIOUS
<1>1. TaskOf(g) /\ g # NoThread /\ task[g].kind \in {"none", "upload", "favicon", "post", "delete"}
  BY SiteConstants DEF MediaInv, MediaTyped, Tasks
<1> QED
  BY <1>1 DEF TaskOf, Doing, At

LEMMA OthersBuild ==
    ASSUME MediaInv, NEW h \in Handlers,
           \A g \in Handlers \ {h} : task'[g] = task[g] /\ job'[g] = job[g],
           builder' = builder, At(h, "idle"), ~Doing(h, "post", "building")
    PROVE  Builds'
BY DEF MediaInv, Builds, At, Doing

LEMMA OthersHold ==
    ASSUME MediaInv, NEW h \in Handlers,
           \A g \in Handlers \ {h} : task'[g] = task[g] /\ job'[g] = job[g],
           siteMu' = siteMu \/ siteMu' \in {NoThread, h},
           siteMu' = h => ~At(h, "idle")' \/ task'[h].kind = "delete"
    PROVE  SiteMuHeld'
BY SiteConstants DEF MediaInv, SiteMuHeld, At

\* Steps that leave all of site.yml alone that the invariant speaks of.
LEMMA Unchanged ==
    ASSUME UNCHANGED siteVars
    PROVE  UNCHANGED core
BY DEF core, siteVars, fileVars, buildVars, ghostVars, boundVars

LEMMA Failing ==
    ASSUME MayFail
    PROVE  UNCHANGED core
BY DEF core, MayFail, fileVars, ghostVars

LEMMA Waking ==
    ASSUME WakeWatcher
    PROVE  UNCHANGED core
BY DEF core, WakeWatcher, buildVars, ghostVars

\* Steps at which a handler holds no lock, or only the one for posts.
LEMMA RequestKeeps ==
    ASSUME MediaInv, NEW h \in Handlers, UNCHANGED core,
           At(h, "idle"), ~Doing(h, "post", "building"),
           MediaTyped',
           \A g \in Handlers \ {h} : task'[g] = task[g],
           task'[h].kind = "delete" <=> task[h].kind = "delete",
           postMu' = postMu \/ postMu \in {NoThread, h},
           posts' \ dropped' \subseteq posts \ dropped \/ postMu = h,
           TaskOf(h)'
    PROVE  MediaInv'
<1>1. SiteInv' /\ UNCHANGED <<file, live, up, siteMu, builder, job, expected, excused, outside>>
  BY SiteStays DEF core, MediaInv
<1>2. \A g \in Handlers : TaskOf(g)'
  BY <1>1, OthersStay
<1>3. Builds'
  BY <1>1, OthersBuild
<1>4. SiteMuHeld'
  BY <1>1, OthersHold DEF MediaInv, SiteMuHeld, At
<1> QED
  BY <1>1, <1>2, <1>3, <1>4 DEF MediaInv

LEMMA UploadKeeps ==
    ASSUME MediaInv, NEW h \in Handlers, NEW kind \in {"upload", "favicon"}, NEW m \in Images,
           Upload(h, kind, m)
    PROVE  MediaInv'
<1>1. /\ Begin(h, kind, "store", m) /\ UNCHANGED core
      /\ UNCHANGED <<masters, sized, posts, postMu, waiting, encoder, index, looked, pics, backup, dropped>>
  BY Unchanged DEF Upload, diskVars, lookupVars, cutVars
<1>2. /\ task' \in [Handlers -> Tasks] /\ task'[h].kind = kind /\ task'[h].at = "store" /\ task'[h].pic = m
      /\ \A g \in Handlers \ {h} : task'[g] = task[g]
      /\ up /\ At(h, "idle") /\ task[h].kind = "none" /\ ~Doing(h, "post", "building")
  BY <1>1, TaskBegins DEF MediaInv, TaskSteps
<1>3. MediaTyped' /\ UNCHANGED <<up, job>>
  BY <1>1, <1>2 DEF MediaInv, MediaTyped, core
<1>4. TaskOf(h)'
  BY <1>2, <1>3 DEF TaskOf, Doing, At
<1> QED
  BY <1>1, <1>2, <1>3, <1>4, RequestKeeps

LEMMA StoreImageKeeps ==
    ASSUME MediaInv, NEW h \in Handlers, StoreImage(h)
    PROVE  MediaInv'
<1>1. /\ Doing(h, "upload", "store") /\ EndTask(h) /\ UNCHANGED core
      /\ masters' = IF task[h].had THEN masters ELSE masters \cup {task[h].pic}
      /\ waiting' = [waiting EXCEPT ![task[h].pic] = @ + 1]
      /\ UNCHANGED <<sized, posts, postMu, encoder, index, looked, pics, backup, dropped>>
      /\ UNCHANGED builder
  BY Unchanged DEF StoreImage, lookupVars, cutVars, siteVars, buildVars
<1>2. At(h, "idle") /\ ~Doing(h, "post", "building") /\ task[h].pic \in Images
  BY <1>1 DEF MediaInv, TaskOf, Doing
<1>3. /\ task' \in [Handlers -> Tasks] /\ task'[h].kind = "none" /\ task'[h].at = "idle"
      /\ \A g \in Handlers \ {h} : task'[g] = task[g]
  BY <1>1, TaskEnds DEF MediaInv
<1>4. waiting' \in [Images -> Nat]
  BY <1>1, <1>2 DEF MediaInv, MediaTyped
<1>5. MediaTyped'
  BY <1>1, <1>2, <1>3, <1>4 DEF MediaInv, MediaTyped
<1>6. TaskOf(h)' /\ task[h].kind = "upload"
  BY <1>1, <1>3 DEF TaskOf, Doing
<1> QED
  BY <1>1, <1>2, <1>3, <1>5, <1>6, RequestKeeps

LEMMA StoreFaviconKeeps ==
    ASSUME MediaInv, NEW h \in Handlers, StoreFavicon(h)
    PROVE  MediaInv'
<1>1. /\ Doing(h, "favicon", "store") /\ Step(h, "set") /\ UNCHANGED core
      /\ masters' = IF task[h].had THEN masters ELSE masters \cup {task[h].pic}
      /\ UNCHANGED <<sized, posts, postMu, waiting, encoder, index, looked, pics, backup, dropped>>
      /\ UNCHANGED <<builder, up, job>>
  BY Unchanged DEF StoreFavicon, lookupVars, cutVars, siteVars, buildVars
<1>2. At(h, "idle") /\ ~Doing(h, "post", "building") /\ task[h].pic \in Images /\ up
  BY <1>1 DEF MediaInv, TaskOf, Doing
<1>3. /\ task' \in [Handlers -> Tasks] /\ task'[h].kind = "favicon" /\ task'[h].at = "set"
      /\ task'[h].pic = task[h].pic
      /\ \A g \in Handlers \ {h} : task'[g] = task[g]
  BY <1>1, TaskGoes DEF MediaInv, TaskSteps, Doing
<1>4. MediaTyped'
  BY <1>1, <1>2, <1>3 DEF MediaInv, MediaTyped
<1>5. TaskOf(h)' /\ task[h].kind = "favicon"
  BY <1>1, <1>2, <1>3 DEF TaskOf, Doing, At
<1> QED
  BY <1>1, <1>2, <1>3, <1>4, <1>5, RequestKeeps

LEMMA ChooseFaviconKeeps ==
    ASSUME MediaInv, NEW h \in Handlers, ChooseFavicon(h)
    PROVE  MediaInv'
<1> DEFINE e == FaviconOf(task[h].pic)
<1>1. /\ Doing(h, "favicon", "set") /\ EndTask(h) /\ ReadOriginal(h, e)
      /\ UNCHANGED <<masters, sized, posts, postMu, waiting, encoder, index, looked, pics, backup, dropped>>
  BY DEF ChooseFavicon, FaviconOf, diskVars, lookupVars, cutVars
<1>2. At(h, "idle") /\ ~Doing(h, "post", "building") /\ e \in Requests
  BY <1>1 DEF MediaInv, TaskOf, Doing, Requests
<1>3. SiteInv'
  BY <1>1, <1>2, ReadOriginalKeeps DEF MediaInv
<1>4. /\ task' \in [Handlers -> Tasks] /\ task'[h].kind = "none" /\ task'[h].at = "idle"
      /\ \A g \in Handlers \ {h} : task'[g] = task[g]
  BY <1>1, TaskEnds DEF MediaInv
<1> HIDE DEF e
<1>5. /\ siteMu = NoThread /\ siteMu' = h
      /\ UNCHANGED <<up, outside, live, builder>>
      /\ job' = [job EXCEPT ![h] = [at |-> "load", edit |-> e, original |-> file, new |-> Blank]]
  BY <1>1 DEF ReadOriginal, LockSite, buildVars, ghostVars
<1>6. job'[h].at = "load" /\ \A g \in Handlers \ {h} : job'[g] = job[g]
  BY <1>5 DEF MediaInv, SiteInv, SiteTyped
<1>7. MediaTyped'
  BY <1>1, <1>4, <1>5 DEF MediaInv, MediaTyped
<1>8. \A g \in Handlers : TaskOf(g)'
  BY <1>1, <1>4, <1>5, <1>6, OthersStay DEF TaskOf, Doing
<1>9. Builds'
  BY <1>2, <1>4, <1>5, <1>6, OthersBuild
<1>10. SiteMuHeld'
  BY <1>4, <1>5, <1>6, OthersHold DEF At
<1> QED
  BY <1>3, <1>7, <1>8, <1>9, <1>10 DEF MediaInv

LEMMA SavePostKeeps ==
    ASSUME MediaInv, NEW h \in Handlers, NEW m \in Images, SavePost(h, m)
    PROVE  MediaInv'
<1>1. /\ Begin(h, "post", "write", m) /\ UNCHANGED core
      /\ UNCHANGED <<masters, sized, posts, waiting, encoder, index, looked, pics, up, job, builder, backup, dropped>>
      /\ postMu = NoThread /\ postMu' = h
  BY Unchanged DEF SavePost, LockPosts, diskVars, lookupVars, cutVars, siteVars, buildVars
<1>2. /\ task' \in [Handlers -> Tasks] /\ task'[h].kind = "post" /\ task'[h].at = "write" /\ task'[h].pic = m
      /\ \A g \in Handlers \ {h} : task'[g] = task[g]
      /\ up /\ At(h, "idle") /\ task[h].kind = "none" /\ ~Doing(h, "post", "building")
  BY <1>1, TaskBegins DEF MediaInv, TaskSteps
<1>3. MediaTyped'
  BY <1>1, <1>2 DEF MediaInv, MediaTyped
<1>4. TaskOf(h)'
  BY <1>1, <1>2 DEF TaskOf, Doing, At
<1> QED
  BY <1>1, <1>2, <1>3, <1>4, RequestKeeps

LEMMA WritePostKeeps ==
    ASSUME MediaInv, NEW h \in Handlers, WritePost(h)
    PROVE  MediaInv'
<1>1. /\ Doing(h, "post", "write") /\ Step(h, "build") /\ UNCHANGED core
      /\ posts' = Toggled(posts, task[h].pic)
      /\ UNCHANGED <<masters, sized, postMu, waiting, encoder, index, looked, pics, up, job, builder, backup, dropped>>
  BY Waking DEF WritePost, WakeWatcher, lookupVars, cutVars, buildVars
<1>2. /\ At(h, "idle") /\ ~Doing(h, "post", "building") /\ up /\ postMu = h
      /\ task[h].pic \in Images
  BY <1>1 DEF MediaInv, TaskOf, Doing
<1>3. /\ task' \in [Handlers -> Tasks] /\ task'[h].kind = "post" /\ task'[h].at = "build"
      /\ task'[h].pic = task[h].pic
      /\ \A g \in Handlers \ {h} : task'[g] = task[g]
  BY <1>1, TaskGoes DEF MediaInv, TaskSteps, Doing
<1>4. MediaTyped'
  BY <1>1, <1>2, <1>3 DEF MediaInv, MediaTyped, Toggled
<1>5. TaskOf(h)' /\ task[h].kind = "post"
  BY <1>1, <1>2, <1>3 DEF TaskOf, Doing, At
<1> QED
  BY <1>1, <1>2, <1>3, <1>4, <1>5, RequestKeeps

LEMMA RollBackPostKeeps ==
    ASSUME MediaInv, NEW h \in Handlers, RollBackPost(h)
    PROVE  MediaInv'
<1>1. /\ Doing(h, "post", "rollback") /\ EndTask(h) /\ UNCHANGED core
      /\ posts' = Toggled(posts, task[h].pic) /\ postMu' = NoThread
      /\ UNCHANGED <<masters, sized, waiting, encoder, index, looked, pics, up, job, builder, backup, dropped>>
  BY Waking DEF RollBackPost, WakeWatcher, lookupVars, cutVars, buildVars
<1>2. /\ At(h, "idle") /\ ~Doing(h, "post", "building") /\ task[h].pic \in Images /\ postMu = h
  BY <1>1 DEF MediaInv, TaskOf, Doing
<1>3. /\ task' \in [Handlers -> Tasks] /\ task'[h].kind = "none" /\ task'[h].at = "idle"
      /\ \A g \in Handlers \ {h} : task'[g] = task[g]
  BY <1>1, TaskEnds DEF MediaInv
<1>4. MediaTyped'
  BY <1>1, <1>2, <1>3 DEF MediaInv, MediaTyped, Toggled
<1>5. TaskOf(h)' /\ task[h].kind = "post"
  BY <1>1, <1>2, <1>3 DEF TaskOf, Doing, At
<1> QED
  BY <1>1, <1>2, <1>3, <1>4, <1>5, RequestKeeps

\* siteMu taken or given back outside mutateSite.
LEMMA SiteMuMoves ==
    ASSUME SiteInv, Quiet, siteMu' \in Handlers \cup {NoThread},
           UNCHANGED <<file, live, up, builder, job, expected, excused, outside>>
    PROVE  SiteInv'
BY DEF SiteInv, SiteTyped, Locked, JobOf, Memory, Kept, Changing, Quiet, At

LEMMA StartDeleteKeeps ==
    ASSUME MediaInv, NEW h \in Handlers, NEW m \in Images, StartDelete(h, m)
    PROVE  MediaInv'
<1>1. /\ Begin(h, "delete", "lock", m) /\ siteMu = NoThread /\ siteMu' = h
      /\ UNCHANGED <<masters, sized, posts, postMu, waiting, encoder, index, looked, pics, backup, dropped>>
      /\ UNCHANGED <<file, live, up, builder, job, expected, excused, outside>>
  BY DEF StartDelete, LockSite, diskVars, lookupVars, cutVars, fileVars, buildVars, ghostVars, boundVars
<1>2. /\ task' \in [Handlers -> Tasks] /\ task'[h].kind = "delete" /\ task'[h].at = "lock" /\ task'[h].pic = m
      /\ \A g \in Handlers \ {h} : task'[g] = task[g]
      /\ up /\ At(h, "idle") /\ task[h].kind = "none" /\ ~Doing(h, "post", "building")
  BY <1>1, TaskBegins DEF MediaInv, TaskSteps
<1>3. SiteInv'
  BY <1>1, OneAtATime, SiteMuMoves DEF MediaInv
<1>4. MediaTyped'
  BY <1>1, <1>2 DEF MediaInv, MediaTyped
<1>5. \A g \in Handlers : TaskOf(g)'
  BY <1>1, <1>2, OthersStay DEF TaskOf, Doing, At
<1>6. Builds' /\ SiteMuHeld'
  BY <1>1, <1>2, OthersBuild, OthersHold
<1> QED
  BY <1>3, <1>4, <1>5, <1>6 DEF MediaInv

LEMMA LockForDeleteKeeps ==
    ASSUME MediaInv, NEW h \in Handlers, LockForDelete(h)
    PROVE  MediaInv'
<1>1. /\ Doing(h, "delete", "lock") /\ Step(h, "check") /\ UNCHANGED core
      /\ postMu = NoThread /\ postMu' = h
      /\ UNCHANGED <<masters, sized, posts, waiting, encoder, index, looked, pics, backup, dropped>>
      /\ UNCHANGED <<builder, job, siteMu, up>>
  BY Unchanged DEF LockForDelete, NeedsPosts, LockPosts, lookupVars, cutVars, diskVars, siteVars, buildVars
<1>2. /\ At(h, "idle") /\ ~Doing(h, "post", "building") /\ up /\ siteMu = h /\ task[h].pic \in Images
  BY <1>1 DEF MediaInv, TaskOf, Doing
<1>3. /\ task' \in [Handlers -> Tasks] /\ task'[h].kind = "delete" /\ task'[h].at = "check"
      /\ task'[h].pic = task[h].pic
      /\ \A g \in Handlers \ {h} : task'[g] = task[g]
  BY <1>1, TaskGoes DEF MediaInv, TaskSteps, Doing
<1>4. MediaTyped'
  BY <1>1, <1>3 DEF MediaInv, MediaTyped
<1>5. TaskOf(h)' /\ task[h].kind = "delete"
  BY <1>1, <1>2, <1>3 DEF TaskOf, Doing, At
<1> QED
  BY <1>1, <1>2, <1>3, <1>4, <1>5, RequestKeeps

LEMMA ReleaseKeeps ==
    ASSUME MediaInv, NEW h \in Handlers, task[h].kind = "delete", Release(h),
           posts' = posts, dropped' = dropped, MediaTyped'
    PROVE  MediaInv'
<1>1. /\ EndTask(h) /\ siteMu' = NoThread /\ siteMu = h /\ At(h, "idle") /\ up
      /\ postMu' = postMu \/ postMu = h
      /\ UNCHANGED <<file, live, up, builder, job, expected, excused, outside>>
  BY DEF Release, MediaInv, TaskOf, fileVars, buildVars, ghostVars, boundVars
<1>2. /\ task' \in [Handlers -> Tasks] /\ task'[h].kind = "none" /\ task'[h].at = "idle"
      /\ \A g \in Handlers \ {h} : task'[g] = task[g]
  BY <1>1, TaskEnds DEF MediaInv
<1>3. Quiet
  BY <1>1, OneAtATime DEF Quiet, MediaInv, SiteInv, Locked
<1>4. SiteInv'
  BY <1>1, <1>3, SiteMuMoves DEF MediaInv
<1>5. \A g \in Handlers : TaskOf(g)'
  BY <1>1, <1>2, OthersStay DEF TaskOf, Doing
<1>6. Builds' /\ SiteMuHeld'
  BY <1>1, <1>2, OthersBuild, OthersHold, SiteConstants DEF Doing
<1> QED
  BY <1>4, <1>5, <1>6 DEF MediaInv

LEMMA CheckUseKeeps ==
    ASSUME MediaInv, NEW h \in Handlers, CheckUse(h)
    PROVE  MediaInv'
<1>1. /\ Doing(h, "delete", "check")
      /\ UNCHANGED <<masters, sized, posts, waiting, encoder, index, looked, pics, backup, dropped>>
  BY Unchanged DEF CheckUse, diskVars, lookupVars, cutVars
<1>2. /\ At(h, "idle") /\ ~Doing(h, "post", "building") /\ up /\ siteMu = h /\ postMu = h
      /\ task[h].pic \in Images
  BY <1>1 DEF MediaInv, TaskOf, Doing
<1>3. CASE Used(task[h].pic)
  <2>1. Release(h)
    BY <1>3 DEF CheckUse
  <2>2. task' \in [Handlers -> Tasks] /\ postMu' = NoThread /\ UNCHANGED builder
    BY <1>2, <2>1, TaskEnds DEF MediaInv, Release, buildVars
  <2>3. MediaTyped'
    BY <1>1, <2>2 DEF MediaInv, MediaTyped
  <2> QED
    BY <1>1, <2>1, <2>3, ReleaseKeeps DEF Doing
<1>4. CASE ~Used(task[h].pic)
  <2> DEFINE b == task[h].pic \in masters
             r == [task[h] EXCEPT !.at = "master", !.had = b]
  <2>1. task' = [task EXCEPT ![h] = r] /\ UNCHANGED core /\ UNCHANGED <<postMu, builder, up, job, live, outside, siteMu>>
    BY <1>4, Unchanged DEF CheckUse, siteVars, buildVars, ghostVars, boundVars
  <2>2. task[h] \in Tasks
    BY DEF MediaInv, MediaTyped
  <2>3. /\ r \in Tasks /\ r.kind = "delete" /\ r.at = "master" /\ r.pic = task[h].pic
        /\ r.had = b
    <3>1. b \in BOOLEAN /\ "master" \in TaskSteps
      BY DEF TaskSteps
    <3> HIDE DEF b
    <3>2. r \in Tasks
      BY <2>2, <3>1 DEF Tasks
    <3>3. r.at = "master" /\ r.had = b /\ r.kind = task[h].kind /\ r.pic = task[h].pic
      BY <2>2, <3>1 DEF Tasks
    <3> QED
      BY <1>1, <3>2, <3>3 DEF Doing
  <2> HIDE DEF r
  <2>4. /\ task' \in [Handlers -> Tasks] /\ task'[h] = r
        /\ \A g \in Handlers \ {h} : task'[g] = task[g]
    BY <2>1, <2>3, TaskChanged DEF MediaInv
  <2>5. MediaTyped'
    BY <1>1, <2>1, <2>4 DEF MediaInv, MediaTyped
  <2>6. b => task[h].pic \notin posts /\ live.icon # task[h].pic
    BY <1>4 DEF Used
  <2>7. TaskOf(h)' /\ task[h].kind = "delete"
    BY <1>1, <1>2, <2>1, <2>3, <2>4, <2>6 DEF TaskOf, Doing, At
  <2> QED
    BY <1>1, <1>2, <2>1, <2>3, <2>4, <2>5, <2>7, RequestKeeps
<1> QED
  BY <1>3, <1>4

LEMMA RemoveMasterKeeps ==
    ASSUME MediaInv, NEW h \in Handlers, RemoveMaster(h)
    PROVE  MediaInv'
<1> DEFINE b == task[h].pic \in sized
           r == [task[h] EXCEPT !.at = "renditions", !.had = b]
<1>1. /\ Doing(h, "delete", "master") /\ UNCHANGED core
      /\ masters' = masters \ {task[h].pic}
      /\ task' = [task EXCEPT ![h] = r]
      /\ dropped' = {} /\ UNCHANGED <<sized, posts, postMu, waiting, encoder, index, looked, pics, backup>>
      /\ UNCHANGED <<builder, up, job, live, outside, siteMu>>
  BY Unchanged DEF RemoveMaster, lookupVars, cutVars, siteVars, buildVars, ghostVars, boundVars
<1>2. /\ At(h, "idle") /\ ~Doing(h, "post", "building") /\ up /\ siteMu = h /\ postMu = h
      /\ task[h].pic \in Images
  BY <1>1 DEF MediaInv, TaskOf, Doing
<1>3. task[h] \in Tasks
  BY DEF MediaInv, MediaTyped
<1>4. r \in Tasks /\ r.kind = "delete" /\ r.at = "renditions" /\ r.pic = task[h].pic
  <2>1. b \in BOOLEAN /\ "renditions" \in TaskSteps
    BY DEF TaskSteps
  <2> HIDE DEF b
  <2>2. r \in Tasks
    BY <1>3, <2>1 DEF Tasks
  <2>3. r.at = "renditions" /\ r.kind = task[h].kind /\ r.pic = task[h].pic
    BY <1>3, <2>1 DEF Tasks
  <2> QED
    BY <1>1, <2>2, <2>3 DEF Doing
<1> HIDE DEF r
<1>5. /\ task' \in [Handlers -> Tasks] /\ task'[h] = r
      /\ \A g \in Handlers \ {h} : task'[g] = task[g]
  BY <1>1, <1>4, TaskChanged DEF MediaInv
<1>6. MediaTyped'
  BY <1>1, <1>2, <1>5 DEF MediaInv, MediaTyped
<1>7. TaskOf(h)' /\ task[h].kind = "delete"
  BY <1>1, <1>2, <1>4, <1>5 DEF TaskOf, Doing, At
<1> QED
  BY <1>1, <1>2, <1>4, <1>5, <1>6, <1>7, RequestKeeps

LEMMA RemoveRenditionsKeeps ==
    ASSUME MediaInv, NEW h \in Handlers, RemoveRenditions(h)
    PROVE  MediaInv'
<1>1. /\ Doing(h, "delete", "renditions") /\ Release(h)
      /\ sized' \in SUBSET Images /\ index' = [m \in Images |-> "?"]
      /\ UNCHANGED <<masters, posts, waiting, encoder, looked, pics, backup, dropped>>
  BY DEF RemoveRenditions, Refresh, cutVars, MediaInv, MediaTyped
<1>2. task' \in [Handlers -> Tasks] /\ postMu' \in Handlers \cup {NoThread} /\ UNCHANGED builder
  BY <1>1, TaskEnds DEF MediaInv, MediaTyped, Release, buildVars
<1>3. MediaTyped'
  BY <1>1, <1>2 DEF MediaInv, MediaTyped, Looked
<1> QED
  BY <1>1, <1>3, ReleaseKeeps DEF Doing

\* What the rest of the process does to requests that work on pictures: nothing.
LEMMA TasksStay ==
    ASSUME MediaInv, UNCHANGED <<task, postMu, posts, dropped, up>>,
           \A h \in Handlers : task[h].kind # "none" => At(h, "idle")',
           \A h \in Handlers : task[h].kind = "delete" =>
               siteMu' = siteMu /\ live' = live /\ (outside => outside')
    PROVE  \A h \in Handlers : TaskOf(h)'
BY DEF MediaInv, TaskOf, Doing

\* Steps of nobody who holds a lock: what they do to the posts a deletion is excused for, and
\* what they do to site.yml is beside the process.
LEMMA PassingBy ==
    ASSUME MediaInv, SiteInv', MediaTyped',
           UNCHANGED <<task, postMu, live, up, siteMu, builder, job>>, outside => outside',
           \/ posts' \ dropped' \subseteq posts \ dropped
           \/ \A h \in Handlers : ~Doing(h, "delete", "master")
    PROVE  MediaInv'
<1>1. \A h \in Handlers : TaskOf(h)'
  BY DEF MediaInv, TaskOf, Doing, At
<1>2. Builds' /\ SiteMuHeld'
  BY DEF MediaInv, Builds, SiteMuHeld, At, Doing
<1> QED
  BY <1>1, <1>2 DEF MediaInv

\* The steps that read and write renditions, and those that look them up.
LEMMA TablesKeep ==
    ASSUME MediaInv, UNCHANGED core, UNCHANGED <<task, postMu, posts, dropped>>, MediaTyped'
    PROVE  MediaInv'
<1>1. SiteInv' /\ UNCHANGED <<live, up, siteMu, builder, job, outside>>
  BY SiteStays DEF core, MediaInv
<1> QED
  BY <1>1, PassingBy

LEMMA RenditionKeeps == ASSUME MediaInv, Rendition PROVE MediaInv'
<1>1. CASE WriteVariants
  <2>1. /\ UNCHANGED core /\ UNCHANGED <<task, postMu, masters, posts, dropped, builder, waiting, backup,
                                         looked, pics>>
        /\ encoder.at = "cut" /\ encoder' = [encoder EXCEPT !.at = AfterCut]
        /\ sized' = sized \cup {encoder.pic} /\ index' = [m \in Images |-> "?"]
    BY <1>1, Unchanged DEF WriteVariants, Refresh, siteVars, buildVars
  <2>2. encoder.pic \in Images /\ encoder \in Passes
    BY <2>1 DEF MediaInv, MediaTyped
  <2>3. encoder' \in Passes /\ encoder'.at = "build"
    BY <2>1, <2>2 DEF Passes, AfterCut
  <2>4. MediaTyped'
    BY <2>1, <2>2, <2>3 DEF MediaInv, MediaTyped, Looked
  <2> QED
    BY <2>1, <2>4, TablesKeep
<1>2. CASE \E m \in Images : StartPass(m)
  <2>1. PICK m \in Images : StartPass(m)
    BY <1>2
  <2>2. /\ UNCHANGED core /\ UNCHANGED <<task, postMu, masters, sized, posts, dropped, builder, backup, index,
                                         looked, pics>>
        /\ encoder' \in {[at |-> "cut", pic |-> m], NoPass}
        /\ waiting[m] > 0 /\ waiting' = [waiting EXCEPT ![m] = @ - 1]
    BY <2>1, Unchanged DEF StartPass, siteVars, buildVars, diskVars, lookupVars
  <2>3. waiting' \in [Images -> Nat]
    <3>1. waiting \in [Images -> Nat] /\ waiting[m] - 1 \in Nat
      BY <2>2 DEF MediaInv, MediaTyped
    <3> QED
      BY <2>2, <3>1
  <2>4. encoder' \in Passes /\ (encoder'.at = "cut" => encoder'.pic \in Images)
    BY <2>2 DEF Passes, NoPass
  <2>5. MediaTyped'
    BY <2>2, <2>3, <2>4 DEF MediaInv, MediaTyped
  <2> QED
    BY <2>2, <2>5, TablesKeep
<1>3. CASE CutFails \/ StartRegeneration
  <2>1. /\ UNCHANGED core /\ UNCHANGED <<task, postMu, masters, sized, posts, dropped, builder, waiting, backup,
                                         index, looked, pics>>
        /\ encoder' \in {NoPass, [NoPass EXCEPT !.at = "fill"]}
    BY <1>3, Unchanged, Failing DEF CutFails, StartRegeneration, MayFail, siteVars, buildVars, diskVars, lookupVars
  <2>2. encoder' \in Passes /\ encoder'.at # "cut"
    BY <2>1 DEF Passes, NoPass
  <2>3. MediaTyped'
    BY <2>1, <2>2 DEF MediaInv, MediaTyped
  <2> QED
    BY <2>1, <2>3, TablesKeep
<1> QED
  BY <1>1, <1>2, <1>3 DEF Rendition

LEMMA BackfillingKeeps == ASSUME MediaInv, Backfilling PROVE MediaInv'
<1>1. CASE \E t \in {Filler, Encoder} : BackfillEnds(t)
  <2>1. /\ UNCHANGED core /\ UNCHANGED <<task, postMu, masters, sized, posts, dropped, builder, waiting, backup,
                                         looked, pics>>
        /\ \/ encoder' = encoder
           \/ \E next \in {"build", "idle"} : encoder' = [NoPass EXCEPT !.at = next]
        /\ index' = index \/ index' = [m \in Images |-> "?"]
    BY <1>1, Unchanged DEF BackfillEnds, Refresh, siteVars, buildVars, diskVars
  <2>2. encoder' \in Passes /\ (encoder'.at = "cut" => encoder'.pic \in Images)
    BY <2>1 DEF MediaInv, MediaTyped, Passes, NoPass
  <2>3. MediaTyped'
    BY <2>1, <2>2 DEF MediaInv, MediaTyped, Looked
  <2> QED
    BY <2>1, <2>3, TablesKeep
<1>2. CASE \E t \in {Filler, Encoder}, m \in Images : BackfillOne(t, m)
  <2>1. PICK t \in {Filler, Encoder}, m \in Images : BackfillOne(t, m)
    BY <1>2
  <2>2. UNCHANGED core /\ builder' = builder
    BY <2>1, Unchanged, Failing DEF BackfillOne, MayFail, siteVars, buildVars
  <2>3. /\ UNCHANGED <<task, postMu, masters, posts, dropped, waiting, encoder, backup, index, looked, pics>>
        /\ sized' \in {sized, sized \cup {m}}
    BY <2>1 DEF BackfillOne, lookupVars
  <2>4. MediaTyped'
    BY <2>2, <2>3 DEF MediaInv, MediaTyped
  <2> QED
    BY <2>2, <2>3, <2>4, TablesKeep
<1> QED
  BY <1>1, <1>2 DEF Backfilling

\* Posts dropped in, and the steps of a restore.
LEMMA UnseenAreDropped ==
    ASSUME dropped' = dropped \cup Unseen
    PROVE  \/ posts' \ dropped' \subseteq posts \ dropped
           \/ \A h \in Handlers : ~Doing(h, "delete", "master")
BY DEF Unseen

LEMMA DropInKeeps == ASSUME MediaInv, NEW m \in Images, DropIn(m) PROVE MediaInv'
<1>1. /\ UNCHANGED core /\ UNCHANGED <<masters, sized, postMu, task, backup, waiting, encoder, index, looked,
                                       pics, live, up, siteMu, builder, job, outside>>
      /\ posts' = Toggled(posts, m) /\ dropped' = dropped \cup Unseen
  BY Waking DEF DropIn, WakeWatcher, buildVars, ghostVars, cutVars, lookupVars
<1>2. SiteInv'
  BY <1>1, SiteStays DEF core, MediaInv
<1>3. posts' \in SUBSET Images /\ dropped' \in SUBSET Images
  BY <1>1 DEF MediaInv, MediaTyped, Toggled, Unseen
<1>4. MediaTyped'
  BY <1>1, <1>3 DEF MediaInv, MediaTyped
<1> QED
  BY <1>1, <1>2, <1>4, UnseenAreDropped, PassingBy

LEMMA RestorePostsKeeps ==
    ASSUME MediaInv, NEW r \in Restorers, NEW b \in Backups, RestorePosts(r, b)
    PROVE  MediaInv'
<1>1. /\ UNCHANGED core /\ UNCHANGED <<masters, sized, postMu, task, waiting, encoder, index, looked,
                                       pics, live, up, siteMu, builder, job, outside>>
      /\ posts' = posts \cup b.posts /\ dropped' = dropped \cup Unseen
      /\ backup' = [backup EXCEPT ![r] = b]
  BY Waking DEF RestorePosts, WakeWatcher, buildVars, ghostVars, cutVars, lookupVars
<1>2. SiteInv'
  BY <1>1, SiteStays DEF core, MediaInv
<1>3. b \in Copies
  BY MediaAssumption, WrittenAreFiles DEF Copies
<1>4. /\ posts' \in SUBSET Images /\ dropped' \in SUBSET Images
      /\ backup' \in [Restorers -> Copies]
  <2>1. b.posts \subseteq Images
    BY <1>3 DEF Copies
  <2> QED
    BY <1>1, <1>3, <2>1 DEF MediaInv, MediaTyped, Unseen
<1>5. MediaTyped'
  BY <1>1, <1>4 DEF MediaInv, MediaTyped
<1> QED
  BY <1>1, <1>2, <1>5, UnseenAreDropped, PassingBy

LEMMA RestoreSiteKeeps ==
    ASSUME MediaInv, NEW r \in Restorers, RestoreSite(r)
    PROVE  MediaInv'
<1>1. /\ UNCHANGED <<masters, sized, posts, dropped, backup, postMu, task, waiting, encoder, index, looked,
                     pics, live, up, siteMu, builder, job>>
      /\ WriteOutside(backup[r].file) /\ outside' = TRUE
  BY DEF RestoreSite, WriteOutside, buildVars, diskVars, cutVars, lookupVars
<1>2. backup[r].file \in Files
  BY DEF MediaInv, MediaTyped, Copies
<1>3. SiteInv'
  BY <1>1, <1>2, WriteOutsideKeeps DEF MediaInv
<1>4. MediaTyped'
  BY <1>1 DEF MediaInv, MediaTyped
<1> QED
  BY <1>1, <1>3, <1>4, PassingBy

LEMMA RestoreEndsKeep ==
    ASSUME MediaInv, NEW r \in Restorers, DropPosts(r) \/ RestoreMasters(r) \/ RestoreFails(r)
    PROVE  MediaInv'
<1>1. /\ UNCHANGED core
      /\ UNCHANGED <<postMu, task, dropped, waiting, encoder, index, looked, pics>>
      /\ builder' = builder
      /\ posts' = posts \/ posts' = posts \cap backup[r].posts
      /\ backup' = backup \/ backup' = [backup EXCEPT ![r] = NoCopy]
      /\ masters' = masters \/ masters' = backup[r].masters
      /\ sized' = sized \/ sized' = sized \cap masters'
  BY Waking, Failing DEF DropPosts, RestoreMasters, RestoreFails, core, WakeWatcher, MayFail, buildVars,
     ghostVars, fileVars, diskVars, cutVars, lookupVars
<1>2. SiteInv' /\ UNCHANGED <<live, up, siteMu, builder, job, outside>>
  BY <1>1, SiteStays DEF core, MediaInv
<1>3. NoCopy \in Copies /\ backup[r].masters \in SUBSET Images
  BY DEF NoCopy, Copies, Files, MediaInv, MediaTyped
<1>4. MediaTyped'
  BY <1>1, <1>3 DEF MediaInv, MediaTyped
<1> QED
  BY <1>1, <1>2, <1>4, PassingBy

LEMMA DrawingKeeps == ASSUME MediaInv, Drawing PROVE MediaInv'
<1>1. CASE \E p \in Pages : DrawPage(p)
  <2>1. UNCHANGED <<file, live, up, siteMu, builder, job, expected, excused, outside>> /\ UNCHANGED mediaVars
    BY <1>1 DEF DrawPage, Draw, fileVars, ghostVars, boundVars
  <2>2. MediaTyped' /\ UNCHANGED <<task, postMu, posts, dropped>>
    BY <2>1 DEF MediaInv, MediaTyped, mediaVars, diskVars, workVars, cutVars, lookupVars
  <2>3. SiteInv' /\ Builds' /\ SiteMuHeld'
    BY <2>1, <2>2, SiteStays DEF MediaInv, Builds, SiteMuHeld, At, Doing
  <2>4. \A h \in Handlers : TaskOf(h)'
    BY <2>1, <2>2, TasksStay DEF MediaInv, TaskOf, At
  <2> QED
    BY <2>2, <2>3, <2>4 DEF MediaInv
<1>2. CASE \E m \in Images : Hit(m) \/ Miss(m) \/ StoreLookup(m)
  <2>1. PICK m \in Images : Hit(m) \/ Miss(m) \/ StoreLookup(m)
    BY <1>2
  <2>2. /\ UNCHANGED core
        /\ UNCHANGED <<task, postMu, masters, sized, posts, dropped, backup, builder, waiting, encoder>>
    BY <2>1, Unchanged DEF Hit, Miss, StoreLookup, siteVars, buildVars, diskVars, workVars, cutVars
  <2>3. /\ pics' = pics \/ \E v \in Looked \cup {"none"} : pics' = [pics EXCEPT ![m] = v]
        /\ looked' = looked \/ \E v \in Looked : looked' = [looked EXCEPT ![m] = v]
        /\ index' = index \/ \E v \in Looked : index' = [index EXCEPT ![m] = v]
    <3>1. index[m] \in Looked /\ looked[m] \in Looked /\ OnDisk(m) \in Looked
      BY DEF MediaInv, MediaTyped, OnDisk, Looked
    <3> QED
      BY <2>1, <3>1 DEF Hit, Miss, StoreLookup
  <2>4. MediaTyped'
    BY <2>2, <2>3 DEF MediaInv, MediaTyped
  <2> QED
    BY <2>2, <2>4, TablesKeep
<1> QED
  BY <1>1, <1>2 DEF Drawing

LEMMA SiteOnlyKeeps == ASSUME MediaInv, SiteOnly PROVE MediaInv'
<1>1. SiteStep /\ UNCHANGED mediaVars /\ SiteInv'
  BY SiteStepKeeps DEF SiteOnly, MediaInv
<1>2. UNCHANGED <<task, postMu, posts, dropped>>
  BY <1>1 DEF mediaVars, diskVars, workVars
<1>3. \A h \in Handlers : task[h].kind # "none" => At(h, "idle")'
  BY DEF SiteOnly, NoTask, MediaInv, TaskOf, At
<1>4. \A h \in Handlers : task[h].kind = "delete" => Quiet /\ siteMu # NoThread
  BY SiteConstants, OneAtATime DEF MediaInv, TaskOf, Quiet, SiteInv, Locked
<1>5. \A h \in Handlers : TaskOf(h)'
  BY <1>1, <1>2, <1>3, <1>4, SiteStepBuilds, TasksStay DEF MediaInv
<1>6. MediaTyped' /\ Builds'
  BY <1>1, <1>2, SiteStepBuilds DEF MediaInv, MediaTyped, Builds, Doing, mediaVars, diskVars, workVars,
     cutVars, lookupVars
<1>7. SiteMuHeld'
  BY <1>1, <1>2, SiteStepBuilds DEF MediaInv, SiteMuHeld
<1> QED
  BY <1>1, <1>5, <1>6, <1>7 DEF MediaInv

LEMMA StartBuildKeeps ==
    ASSUME MediaInv, NEW t \in Threads, StartBuild(t)
    PROVE  MediaInv'
<1>1. /\ BeginBuild(t) /\ builder' = t /\ (t \in Handlers => At(t, "build") /\ task[t].kind # "post")
      /\ UNCHANGED <<task, postMu, masters, sized, posts, dropped, backup, waiting, encoder, looked, pics>>
      /\ index' = [m \in Images |-> "?"]
      /\ UNCHANGED <<up, outside, siteMu, live>>
  BY DEF StartBuild, BeginBuild, MayBuild, ForgetIndex, Refresh, diskVars, workVars, cutVars, boundVars
<1>2. SiteInv'
  BY <1>1, BeginBuildKeeps DEF MediaInv
<1>3. \/ t \notin Handlers /\ job' = job
      \/ t \in Handlers /\ job'[t].at = "building" /\ \A h \in Handlers \ {t} : job'[h] = job[h]
  BY <1>1, JobGoes DEF BeginBuild, MediaInv, SiteInv, Steps
<1>4. MediaTyped'
  BY <1>1 DEF MediaInv, MediaTyped, Looked
<1>5. \A h \in Handlers : task[h].kind # "none" => At(h, "idle")'
  BY <1>1, <1>3 DEF MediaInv, TaskOf, At
<1>6. \A h \in Handlers : TaskOf(h)'
  BY <1>1, <1>5, TasksStay
<1>7. Builds' /\ SiteMuHeld'
  BY <1>1, <1>3 DEF MediaInv, Builds, SiteMuHeld, At
<1> QED
  BY <1>2, <1>4, <1>6, <1>7 DEF MediaInv

LEMMA StartPostBuildKeeps ==
    ASSUME MediaInv, NEW h \in Handlers, StartPostBuild(h)
    PROVE  MediaInv'
<1>1. /\ Doing(h, "post", "build") /\ Step(h, "building")
      /\ up /\ builder = NoThread /\ builder' = h
      /\ UNCHANGED <<postMu, masters, sized, posts, dropped, backup, waiting, encoder, looked, pics>>
      /\ index' = [m \in Images |-> "?"]
      /\ UNCHANGED <<file, live, up, siteMu, job, expected, outside>>
      /\ excused \subseteq excused' /\ ("file" \in excused' => "file" \in excused)
  BY DEF StartPostBuild, ForgetIndex, Refresh, diskVars, cutVars, boundVars
<1>2. /\ task' \in [Handlers -> Tasks]
      /\ task'[h].at = "building" /\ task'[h].kind = "post" /\ task'[h].pic = task[h].pic
      /\ \A g \in Handlers \ {h} : task'[g] = task[g]
  BY <1>1, TaskGoes DEF MediaInv, TaskSteps, Doing
<1>3. \A g \in Handlers : ~At(g, "building")
  BY <1>1, SiteConstants DEF MediaInv, SiteInv, Locked
<1>4. SiteInv'
  BY <1>1, <1>3 DEF MediaInv, SiteInv, SiteTyped, Locked, JobOf, Memory, Kept, Changing, Quiet, At
<1>5. MediaTyped'
  BY <1>1, <1>2, SiteConstants DEF MediaInv, MediaTyped, Looked
<1>6. TaskOf(h)'
  BY <1>1, <1>2 DEF MediaInv, TaskOf, Doing, At
<1>7. \A g \in Handlers : TaskOf(g)'
  BY <1>1, <1>2, <1>6, OthersStay
<1>8. Builds' /\ SiteMuHeld'
  BY <1>1, <1>2, <1>6 DEF MediaInv, Builds, SiteMuHeld, Doing, At
<1> QED
  BY <1>4, <1>5, <1>7, <1>8 DEF MediaInv

LEMMA EndRebuildKeeps ==
    ASSUME MediaInv, NEW ok \in BOOLEAN, EndRebuild(ok),
           IF ForPost THEN EndPostBuild(ok) ELSE EndBuild(ok)
    PROVE  MediaInv'
<1>1. /\ UNCHANGED <<masters, sized, posts, dropped, backup, waiting, index>>
      /\ encoder' \in {NoPass, encoder}
      /\ pics' = [m \in Images |-> "?"] /\ looked' = pics' /\ builder' = NoThread
      /\ UNCHANGED <<file, live, up, outside, excused>>
  BY DEF EndRebuild, EndPostBuild, EndBuild, diskVars, fileVars, ghostVars, boundVars
<1>0. encoder' \in Passes /\ (encoder'.at = "cut" => encoder'.pic \in Images)
  BY <1>1 DEF MediaInv, MediaTyped, NoPass, Passes
<1>2. CASE ForPost
  <2> PICK h \in Handlers : h = builder
    BY <1>2 DEF ForPost
  <2>1. /\ h \in Handlers /\ task[h].kind = "post" /\ At(h, "idle") /\ up /\ postMu = h
        /\ task[h].pic \in Images
    BY <1>2 DEF ForPost, MediaInv, TaskOf
  <2>2. UNCHANGED <<siteMu, job, expected>>
    BY <1>2 DEF EndPostBuild, ghostVars
  <2>3. \/ EndTask(h) /\ postMu' = NoThread
        \/ Step(h, "rollback") /\ postMu' = postMu
    BY <1>2 DEF EndRebuild, ForPost
  <2>4. /\ task' \in [Handlers -> Tasks]
        /\ \A g \in Handlers \ {h} : task'[g] = task[g]
        /\ \/ task'[h].kind = "none" /\ task'[h].at = "idle"
           \/ /\ task'[h].kind = "post" /\ task'[h].at = "rollback" /\ task'[h].pic = task[h].pic
              /\ postMu' = postMu
    BY <2>1, <2>3, TaskEnds, TaskGoes DEF MediaInv, TaskSteps
  <2>5. \A g \in Handlers : ~At(g, "building")
    BY <2>1 DEF MediaInv, SiteInv, Locked, At
  <2>6. SiteInv'
    BY <1>1, <2>2, <2>5 DEF MediaInv, SiteInv, SiteTyped, Locked, JobOf, Memory, Kept, Changing, Quiet, At
  <2>7. MediaTyped'
    BY <1>0, <1>1, <2>3, <2>4 DEF MediaInv, MediaTyped, Looked
  <2>8. TaskOf(h)'
    BY <1>1, <2>1, <2>2, <2>4 DEF TaskOf, Doing, At
  <2>9. \A g \in Handlers : TaskOf(g)'
    BY <1>1, <2>1, <2>2, <2>3, <2>4, <2>8, OthersStay
  <2>10. Builds' /\ SiteMuHeld'
    BY <1>1, <2>1, <2>2, <2>4, SiteConstants DEF MediaInv, Builds, SiteMuHeld, At
  <2> QED
    BY <2>6, <2>7, <2>9, <2>10 DEF MediaInv
<1>3. CASE ~ForPost
  <2>1. EndBuild(ok) /\ UNCHANGED <<task, postMu>>
    BY <1>3 DEF EndRebuild, ForPost
  <2>2. builder \in Handlers => At(builder, "building")
    BY <1>3 DEF ForPost, MediaInv, Builds, Doing
  <2>3. SiteInv'
    BY <2>1, <2>2, EndBuildKeeps DEF MediaInv
  <2>4. MediaTyped'
    BY <1>0, <1>1, <2>1 DEF MediaInv, MediaTyped, Looked
  <2>5. \/ builder \notin Handlers /\ UNCHANGED <<job, siteMu>>
        \/ /\ builder \in Handlers /\ siteMu = builder
           /\ task[builder].kind = "none"
           /\ \A h \in Handlers \ {builder} : job'[h] = job[h]
           /\ \/ siteMu' = NoThread
              \/ siteMu' = siteMu /\ job'[builder].at = "rollback"
    <3>1. CASE builder \notin Handlers
      BY <3>1, <2>1 DEF EndBuild
    <3>2. CASE builder \in Handlers
      <4>1. siteMu = builder /\ task[builder].kind = "none"
        BY <2>2, <3>2 DEF MediaInv, SiteInv, Locked, TaskOf, At
      <4>2. CASE ok
        <5>1. UnlockSite(builder)
          BY <2>1, <3>2, <4>2 DEF EndBuild
        <5> QED
          BY <3>2, <4>1, <5>1, JobEnds DEF MediaInv, SiteInv
      <4>3. CASE ~ok
        <5>1. Goto(builder, "rollback") /\ siteMu' = siteMu
          BY <2>1, <3>2, <4>3 DEF EndBuild
        <5> QED
          BY <3>2, <4>1, <5>1, JobGoes DEF MediaInv, SiteInv, Steps
      <4> QED
        BY <4>2, <4>3
    <3> QED
      BY <3>1, <3>2
  <2>6. \A h \in Handlers : TaskOf(h)'
    BY <1>1, <2>1, <2>5, TasksStay DEF MediaInv, TaskOf, At
  <2>7. Builds' /\ SiteMuHeld'
    BY <1>1, <2>1, <2>5, SiteConstants DEF MediaInv, Builds, SiteMuHeld, At
  <2> QED
    BY <2>3, <2>4, <2>6, <2>7 DEF MediaInv
<1> QED
  BY <1>2, <1>3

LEMMA DieKeeps == ASSUME MediaInv, Die PROVE MediaInv'
<1>1. SiteInv'
  BY StopKeeps DEF Die, MediaInv
<1>2. /\ UNCHANGED <<masters, sized, posts>> /\ postMu' = NoThread /\ builder' = NoThread /\ siteMu' = NoThread
      /\ task' = [h \in Handlers |-> NoTask] /\ encoder' = NoPass
      /\ waiting' = [m \in Images |-> 0] /\ index' = [m \in Images |-> "?"]
      /\ looked' = index' /\ pics' = index'
      /\ dropped' = {} /\ backup' = [r \in Restorers |-> NoCopy]
  BY DEF Die, Stop, diskVars
<1>3. /\ NoTask \in Tasks /\ NoTask.kind = "none"
      /\ NoPass \in Passes /\ NoPass.at = "idle" /\ NoCopy \in Copies
  BY DEF NoTask, Tasks, TaskSteps, NoPass, Passes, NoCopy, Copies, Files
<1>4. MediaTyped'
  BY <1>2, <1>3 DEF MediaInv, MediaTyped, Looked
<1>5. \A h \in Handlers : TaskOf(h)'
  BY <1>2, <1>3 DEF TaskOf, Doing
<1>6. Builds' /\ SiteMuHeld'
  BY <1>2, SiteConstants DEF Builds, SiteMuHeld
<1> QED
  BY <1>1, <1>4, <1>5, <1>6 DEF MediaInv

LEMMA StartKeeps == ASSUME MediaInv, Start PROVE MediaInv'
<1>1. SiteInv'
  BY BootKeeps DEF Start, MediaInv
<1>2. /\ UNCHANGED <<masters, sized, posts, postMu, builder, siteMu, job, task, encoder, waiting, index,
                     looked, pics, dropped, backup, outside>>
      /\ ~up
  BY DEF Start, Boot, diskVars, boundVars
<1>3. MediaTyped'
  BY <1>2 DEF MediaInv, MediaTyped
<1>4. \A h \in Handlers : TaskOf(h)'
  BY <1>2 DEF MediaInv, TaskOf, Doing
<1>5. Builds' /\ SiteMuHeld'
  BY <1>2 DEF MediaInv, Builds, SiteMuHeld, At, Doing
<1> QED
  BY <1>1, <1>3, <1>4, <1>5 DEF MediaInv

LEMMA MediaInvInit == ASSUME MediaInit PROVE MediaInv
<1>1. SiteInv
  BY SiteInvInit DEF MediaInit
<1>2. /\ NoTask \in Tasks /\ NoTask.kind = "none"
      /\ NoPass \in Passes /\ NoPass.at = "idle" /\ NoCopy \in Copies
  BY DEF NoTask, Tasks, TaskSteps, NoPass, Passes, NoCopy, Copies, Files
<1>3. MediaTyped
  BY <1>2 DEF MediaInit, SiteInit, MediaTyped, Looked
<1> QED
  BY <1>1, <1>2, <1>3, SiteConstants DEF MediaInit, SiteInit, MediaInv, TaskOf, SiteMuHeld, Builds, Doing

LEMMA MediaInvNext == MediaInv /\ [MediaNext]_vars => MediaInv'
<1> SUFFICES ASSUME MediaInv, [MediaNext]_vars PROVE MediaInv'
  OBVIOUS
<1>1. CASE UNCHANGED vars
  <2>1. UNCHANGED core /\ UNCHANGED <<task, postMu, posts, dropped, builder>>
    BY <1>1, Unchanged DEF vars, mediaVars, diskVars, workVars, siteVars, buildVars
  <2>2. MediaTyped'
    BY <1>1, <2>1 DEF MediaInv, MediaTyped, vars, mediaVars, diskVars, workVars, cutVars, lookupVars
  <2> QED
    BY <2>1, <2>2, TablesKeep
<1>2. ASSUME NEW h \in Handlers, NEW m \in Images,
             \/ \E k \in {"upload", "favicon"} : Upload(h, k, m)
             \/ SavePost(h, m) \/ StartDelete(h, m)
      PROVE  MediaInv'
  BY <1>2, UploadKeeps, SavePostKeeps, StartDeleteKeeps
<1>3. ASSUME NEW h \in Handlers, Storing(h) \/ Posting(h) \/ Deleting(h) PROVE MediaInv'
  BY <1>3, StoreImageKeeps, StoreFaviconKeeps, ChooseFaviconKeeps, WritePostKeeps, StartPostBuildKeeps,
     RollBackPostKeeps, LockForDeleteKeeps, CheckUseKeeps, RemoveMasterKeeps, RemoveRenditionsKeeps
     DEF Storing, Posting, Deleting
<1>4. CASE Publish \/ Fail
  <2>1. \E ok \in BOOLEAN : EndRebuild(ok) /\ IF ForPost THEN EndPostBuild(ok) ELSE EndBuild(ok)
    BY <1>4 DEF Publish, Fail, PublishSite, FailBuild
  <2> QED
    BY <2>1, EndRebuildKeeps
<1>5. ASSUME NEW r \in Restorers, (\E b \in Backups : RestorePosts(r, b)) \/ Restored(r) \/ RestoreFails(r)
      PROVE  MediaInv'
  BY <1>5, RestorePostsKeeps, RestoreSiteKeeps, RestoreEndsKeep DEF Restored
<1> QED
  BY <1>1, <1>2, <1>3, <1>4, <1>5, DropInKeeps, SiteOnlyKeeps, RenditionKeeps, BackfillingKeeps, StartBuildKeeps, DrawingKeeps,
     DieKeeps, StartKeeps DEF MediaNext

\* Handlers that change site.yml, save posts, upload and delete pictures: no answered change
\* of site.yml is lost among them, whatever is dropped in and restored beside them.
THEOREM ChangesAreKeptAmongPictures == MediaSpec => []ChangesAreKept
<1>1. MediaInv => ChangesAreKept
  BY OneAtATime DEF MediaInv, SiteInv, Memory, Kept, ChangesAreKept
<1> QED
  BY <1>1, MediaInvInit, MediaInvNext, PTL DEF MediaSpec

\* siteMu and postMu are held by a handler between its lock and its answer, and by nobody
\* else: none is left locked behind a request that is over.
THEOREM LocksHaveHolders == MediaSpec => []MediaTypeOK
<1>1. MediaInv => MediaTypeOK
  <2> SUFFICES ASSUME MediaInv PROVE MediaTypeOK
    OBVIOUS
  <2>1. \A h \in Handlers : (~At(h, "idle") \/ task[h].kind = "delete") <=> siteMu = h
    BY DEF MediaInv, SiteInv, Locked, TaskOf, SiteMuHeld
  <2>2. \A h \in Handlers : task[h].kind = "post" => postMu = h
    BY DEF MediaInv, TaskOf
  <2> QED
    BY <2>1, <2>2 DEF MediaInv, SiteInv, SiteTyped, MediaTyped, MediaTypeOK, Looked
<1> QED
  BY <1>1, MediaInvInit, MediaInvNext, PTL DEF MediaSpec

\* adminMediaDelete (server/admin_media.go) removes no picture that a post on disk shows or
\* that site.yml names, unless it was put to use under neither lock since the deletion looked
\* (a post dropped in or restored, a site.yml written past the process) or came back after it;
\* and nothing but a restore removes any other: for every number of requests and pictures.
THEOREM NothingUsedIsEverDeleted == MediaSpec => NothingUsedIsDeleted
<1> DEFINE Spared == \A m \in masters \ masters' :
                        \/ \E r \in Restorers : RestoreMasters(r)
                        \/ \E h \in Handlers :
                              /\ Doing(h, "delete", "master") /\ task[h].pic = m
                              /\ task[h].had => /\ m \notin posts \ dropped
                                                /\ ~outside => Loads(file) /\ file.icon # m
<1>1. MediaInv /\ [MediaNext]_vars => [Spared]_vars
  <2> SUFFICES ASSUME MediaInv, MediaNext, NEW m \in masters \ masters'
               PROVE  \/ \E r \in Restorers : RestoreMasters(r)
                      \/ \E h \in Handlers :
                            /\ Doing(h, "delete", "master") /\ task[h].pic = m
                            /\ task[h].had => /\ m \notin posts \ dropped
                                              /\ ~outside => Loads(file) /\ file.icon # m
    OBVIOUS
  <2>1. (\E h \in Handlers : RemoveMaster(h)) \/ (\E r \in Restorers : RestoreMasters(r))
    BY DEF MediaNext, SiteOnly, Upload, SavePost, StartDelete, Storing, StoreImage, StoreFavicon,
       ChooseFavicon, Posting, WritePost, StartPostBuild, RollBackPost, Deleting, LockForDelete, CheckUse,
       RemoveRenditions, Rendition, WriteVariants, StartPass, CutFails, StartRegeneration, Backfilling,
       BackfillEnds, BackfillOne, DropIn, RestorePosts, RestoreSite, DropPosts, Restored, RestoreFails,
       StartBuild, Drawing, DrawPage, Hit, Miss, StoreLookup, Publish, Fail, EndRebuild, Die, Start,
       mediaVars, diskVars
  <2>2. ASSUME NEW h \in Handlers, RemoveMaster(h)
        PROVE  /\ Doing(h, "delete", "master") /\ task[h].pic = m
               /\ task[h].had => /\ m \notin posts \ dropped
                                 /\ ~outside => Loads(file) /\ file.icon # m
    <3>1. Doing(h, "delete", "master") /\ m = task[h].pic
      BY <2>2 DEF RemoveMaster
    <3>2. /\ up /\ At(h, "idle") /\ siteMu = h
          /\ task[h].had => m \notin posts \ dropped /\ (~outside => live.icon # m)
      BY <3>1 DEF MediaInv, TaskOf, Doing
    <3>3. Quiet
      BY <3>2 DEF MediaInv, SiteInv, Locked, Quiet
    <3>4. ~outside => live = file /\ Loads(file)
      BY <3>2, <3>3, SiteConstants DEF MediaInv, SiteInv, Memory, Loads
    <3> QED
      BY <3>1, <3>2, <3>4
  <2> QED
    BY <2>1, <2>2
<1> HIDE DEF Spared
<1>3. MediaSpec => []MediaInv
  BY MediaInvInit, MediaInvNext, PTL DEF MediaSpec
<1>4. MediaSpec => [][Spared]_vars
  BY <1>1, <1>3, PTL DEF MediaSpec
<1> QED
  BY <1>4 DEF Spared, NothingUsedIsDeleted

=============================================================================
