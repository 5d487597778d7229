-------------------------------- MODULE Links --------------------------------
(***************************************************************************)
(* The list of links (internal/store/links.go): added and removed by hand   *)
(* through the admin pages, the API and the tools, imported from feeds      *)
(* (internal/feeds/poller.go), shown on /links by every rebuild, the newest *)
(* of them, and replaced with the rest of the database by a restore.        *)
(*                                                                         *)
(* No lock joins a change of the table with the rebuild that shows it, and  *)
(* polls run side by side: the ticker's, the one at startup, and those      *)
(* requests ask for.                                                        *)
(***************************************************************************)
EXTENDS Integers, Sequences, FiniteSets

CONSTANTS
    Editors,       \* goroutines of requests that add or remove links
    Pollers,       \* goroutines inside Poll
    Buttons,       \* those of them the button on the feeds page starts
    NoBuilder,     \* a free rebuild mutex
    Hrefs,         \* addresses
    UnsafeHrefs,   \* those SanitizeHref turns away
    FeedItems,     \* for each configured and enabled feed, the items it lists
    ItemsPerFeed,  \* maxItemsPerFeed
    ListLimit,     \* whoever lists links asks for so many (500)
    DatesOf,       \* for each source, what the sort_date of its rows may be
    FirstLinks,    \* the rows the table holds at first, numbered from 1
    Archives,      \* the tables in backups, with their last number
    MaxLinkOps, MaxPolls, MaxLinkFailures, MaxLinkRestarts   \* bounds

ASSUME LinksAssumption ==
    /\ NoBuilder \notin Editors \cup Pollers /\ Editors \cap Pollers = {} /\ Buttons \subseteq Pollers
    /\ UnsafeHrefs \subseteq Hrefs
    /\ FeedItems \in Seq(Seq(Hrefs))
    /\ IsFiniteSet(FirstLinks)
    /\ FirstLinks \subseteq [id : 1..Cardinality(FirstLinks), href : Hrefs,
                             source : {"manual", "rss"}, date : Nat]
    /\ \A a \in Archives :
         /\ a.last \in Nat
         /\ a.rows \subseteq [id : 1..a.last, href : Hrefs, source : {"manual", "rss"}, date : Nat]
    /\ \A rows \in {FirstLinks} \cup {a.rows : a \in Archives} :
         \A l, m \in rows : l.id = m.id => l = m
    /\ DatesOf \in [{"manual", "rss"} -> SUBSET Nat]
    /\ {ItemsPerFeed, ListLimit, MaxLinkOps, MaxPolls, MaxLinkFailures, MaxLinkRestarts} \subseteq Nat

VARIABLES
    links,         \* the table: [id, href, source, date]
    lastId,        \* sqlite_sequence of the table
    linksPage,     \* the rows on the /links readers get
    linkBuilder,   \* who is inside Rebuild
    linkRows,      \* the rows that rebuild renders, once it has asked for them
    edit,          \* the locals of an editor's request: the list it was shown, its step;
                   \* history: whether the table was replaced since (old)
    poll,          \* the locals of a poll
    unshown,       \* history: a rebuild failed, or a restore that would have rebuilt, and none
                   \* has shown the table since
    linkOps, polls, linkFailures, linkRestarts   \* counters for the bounds

linkTable == <<links, lastId>>
linkBuild == <<linksPage, linkBuilder, linkRows, unshown, linkFailures>>
linkVars  == <<linkTable, linkBuild, edit, poll, linkOps, polls, linkRestarts>>

NoEdit == [at |-> "idle", list |-> {}, old |-> FALSE]
NoPoll == [at |-> "idle", feed |-> 0, items |-> <<>>, imported |-> 0]
NotRead == {[id |-> 0]}

\* ListLinks: the newest rows; which of those of the same hour, if not all of them fit, is open.
Listings(rows) ==
    {R \in SUBSET rows :
        /\ Cardinality(R) = IF Cardinality(rows) < ListLimit THEN Cardinality(rows) ELSE ListLimit
        /\ \A l \in R, m \in rows \ R : l.date >= m.date}

LinksInit ==
    /\ links = FirstLinks /\ lastId = Cardinality(FirstLinks)
    /\ linksPage \in Listings(links) /\ linkBuilder = NoBuilder /\ linkRows = NotRead
    /\ edit = [e \in Editors |-> NoEdit] /\ poll = [p \in Pollers |-> NoPoll]
    /\ unshown = FALSE
    /\ linkOps = 0 /\ polls = 0 /\ linkFailures = 0 /\ linkRestarts = 0

Safe(href)   == href \notin UnsafeHrefs
Listed(href) == \E l \in links : l.href = href

\* Mutant: a table without AUTOINCREMENT gives the number after the highest there is.
NextId_Mutant == IF links = {} THEN 1 ELSE 1 + CHOOSE n \in {l.id : l \in links} : \A l \in links : l.id <= n

NextId == lastId + 1

\* The date is the request's, the item's or the clock's.
Insert(href, source) ==
    /\ \E d \in DatesOf[source] :
         links' = links \cup {[id |-> NextId, href |-> href, source |-> source, date |-> d]}
    /\ lastId' = IF NextId > lastId THEN NextId ELSE lastId

-----------------------------------------------------------------------------
(* Requests.                                                                 *)

\* The form, the API and the tool do the same: change the table, rebuild, answer.
EditorTurns(e, step) ==
    /\ edit[e].at = "idle" /\ linkOps < MaxLinkOps
    /\ linkOps' = linkOps + 1
    /\ edit' = [edit EXCEPT ![e].at = step]

\* The row is committed before the rebuild.  An unsafe address and one that is listed are
\* refused.
AddLink(e, href) ==
    /\ Safe(href) /\ ~Listed(href)
    /\ EditorTurns(e, "build")
    /\ Insert(href, "manual")
    /\ UNCHANGED <<linkBuild, poll, polls, linkRestarts>>

\* The page, or the answer, with the numbers a removal will be asked for by.
ListLinks(e) ==
    /\ edit[e].at = "idle"
    /\ \E rows \in Listings(links) : edit' = [edit EXCEPT ![e].list = rows, ![e].old = FALSE]
    /\ UNCHANGED <<linkTable, linkBuild, poll, linkOps, polls, linkRestarts>>

\* Imported links stay; nothing removed, nothing rebuilt.
RemoveLink(e, seen) ==
    LET gone == {l \in links : l.id = seen.id /\ l.source = "manual"} IN
    /\ EditorTurns(e, IF gone = {} THEN "idle" ELSE "build")
    /\ links' = links \ gone
    /\ UNCHANGED <<lastId, linkBuild, poll, polls, linkRestarts>>

\* A restore ends with Store.ReplaceWith, which exchanges the table and its sequence for those
\* of the backup, and is followed by a rebuild, unless it fails after the exchange (migrateDB);
\* lists that browsers show stay as they are.
RestoreLinks(e, a, ok) ==
    /\ edit[e].at = "idle" /\ linkOps < MaxLinkOps
    /\ ok \/ linkFailures < MaxLinkFailures
    /\ linkOps' = linkOps + 1
    /\ links' = a.rows /\ lastId' = a.last
    /\ edit' = [x \in Editors |-> [edit[x] EXCEPT !.old = edit[x].list # {},
                                                 !.at = IF x = e /\ ok THEN "build" ELSE @]]
    /\ unshown' = (unshown \/ ~ok)
    /\ linkFailures' = linkFailures + IF ok THEN 0 ELSE 1
    /\ UNCHANGED <<linksPage, linkBuilder, linkRows, poll, polls, linkRestarts>>

-----------------------------------------------------------------------------
(* Polls.                                                                    *)

StartPoll(p) ==
    /\ poll[p].at = "idle" /\ polls < MaxPolls
    /\ polls' = polls + 1
    /\ poll' = [poll EXCEPT ![p].at = "feeds"]
    /\ UNCHANGED <<linkTable, linkBuild, edit, linkOps, linkRestarts>>

\* The next feed answers with its items, of which the first are taken, or it fails.
Fetch(p) ==
    /\ poll[p].at = "feeds" /\ poll[p].items = <<>> /\ poll[p].feed < Len(FeedItems)
    /\ LET f == poll[p].feed + 1
           n == IF Len(FeedItems[f]) < ItemsPerFeed THEN Len(FeedItems[f]) ELSE ItemsPerFeed
       IN \E items \in {<<>>, SubSeq(FeedItems[f], 1, n)} :
            poll' = [poll EXCEPT ![p].feed = f, ![p].items = items]
    /\ UNCHANGED <<linkTable, linkBuild, edit, linkOps, polls, linkRestarts>>

\* UpsertRSSLink: an address that is listed stays as it is, an unsafe one is passed over.
Import(p) ==
    /\ poll[p].at = "feeds" /\ poll[p].items # <<>>
    /\ LET href == Head(poll[p].items)
           new  == Safe(href) /\ ~Listed(href)
       IN /\ IF new THEN Insert(href, "rss") ELSE UNCHANGED linkTable
          /\ poll' = [poll EXCEPT ![p].items = Tail(@), ![p].imported = @ + IF new THEN 1 ELSE 0]
    /\ UNCHANGED <<linkBuild, edit, linkOps, polls, linkRestarts>>

\* Mutant: a poll that was cancelled has nothing to show.
WorthARebuild_Mutant(p) == poll[p].imported > 0 /\ poll[p].feed = Len(FeedItems)

\* OnPoll
WorthARebuild(p) == poll[p].imported > 0

\* All feeds are done, or the context ended between two of them.
EndPoll(p) ==
    /\ poll[p].at = "feeds" /\ poll[p].items = <<>>
    /\ poll' = [poll EXCEPT ![p] =
                         IF WorthARebuild(p)
                         THEN [NoPoll EXCEPT !.at = "build", !.imported = poll[p].imported]
                         ELSE NoPoll]
    /\ UNCHANGED <<linkTable, linkBuild, edit, linkOps, polls, linkRestarts>>

-----------------------------------------------------------------------------
(* Rebuilds, as far as /links goes.                                          *)

Wants(w) == IF w \in Editors THEN edit[w].at = "build" ELSE poll[w].at = "build"

BeginLinksBuild(w) ==
    /\ linkBuilder = NoBuilder /\ Wants(w)
    /\ linkBuilder' = w
    /\ UNCHANGED <<linkTable, linksPage, linkRows, unshown, linkFailures, edit, poll, linkOps,
                   polls, linkRestarts>>

RenderLinks ==
    /\ linkBuilder # NoBuilder /\ linkRows = NotRead
    /\ linkRows' \in Listings(links)
    /\ UNCHANGED <<linkTable, linksPage, linkBuilder, unshown, linkFailures, edit, poll, linkOps,
                   polls, linkRestarts>>

\* adminFeedRefresh rebuilds what OnPoll has rebuilt, once more.
Again(p) == p \in Buttons /\ poll[p].imported > 0

\* Whoever rebuilt answers, with an error or without; nothing is taken back, and a poll
\* only logs it.
EndLinksBuild(ok) ==
    /\ linkBuilder # NoBuilder
    /\ ok => linkRows # NotRead
    /\ ~ok => linkFailures < MaxLinkFailures
    /\ linksPage' = IF ok THEN linkRows ELSE linksPage
    /\ unshown' = (~ok \/ (unshown /\ linkRows \notin Listings(links)))
    /\ linkFailures' = linkFailures + IF ok THEN 0 ELSE 1
    /\ linkBuilder' = NoBuilder /\ linkRows' = NotRead
    /\ IF linkBuilder \in Editors
       THEN edit' = [edit EXCEPT ![linkBuilder].at = "idle"] /\ UNCHANGED poll
       ELSE /\ poll' = [poll EXCEPT ![linkBuilder] =
                          IF Again(linkBuilder) THEN [NoPoll EXCEPT !.at = "build"] ELSE NoPoll]
            /\ UNCHANGED edit
    /\ UNCHANGED <<linkTable, linkOps, polls, linkRestarts>>

\* The process ends and starts again; main rebuilds before anything else runs.  Pages that
\* browsers show stay open.
RestartLinks ==
    /\ linkRestarts < MaxLinkRestarts
    /\ linkRestarts' = linkRestarts + 1
    /\ linkBuilder' = NoBuilder /\ linkRows' = NotRead
    /\ edit' = [e \in Editors |-> [edit[e] EXCEPT !.at = "idle"]]
    /\ poll' = [p \in Pollers |-> NoPoll]
    /\ linksPage' \in Listings(links) /\ unshown' = FALSE
    /\ UNCHANGED <<linkTable, linkOps, polls, linkFailures>>

LinksNext ==
    \/ \E e \in Editors : \/ \E href \in Hrefs : AddLink(e, href)
                          \/ ListLinks(e)
                          \/ \E seen \in edit[e].list : RemoveLink(e, seen)
                          \/ \E a \in Archives, ok \in BOOLEAN : RestoreLinks(e, a, ok)
    \/ \E p \in Pollers : StartPoll(p) \/ Fetch(p) \/ Import(p) \/ EndPoll(p)
    \/ \E w \in Editors \cup Pollers : BeginLinksBuild(w)
    \/ RenderLinks
    \/ \E ok \in BOOLEAN : EndLinksBuild(ok)
    \/ RestartLinks

LinksSpec == LinksInit /\ [][LinksNext]_linkVars

-----------------------------------------------------------------------------
(* Properties.                                                              *)

\* Once every request is answered and no poll has anything left to show, /links shows what a
\* listing of the table gives, its newest rows: a row that was committed while somebody else's
\* rebuild had read the table already is followed by a rebuild of its own, and so is what a poll
\* imported before it was cancelled, and a table that a restore put in place.  Only a failed
\* rebuild is left as it is (poller.go's caller logs it), and a restore that failed at the end.
LinksAreShown ==
    /\ linkBuilder = NoBuilder /\ ~unshown
    /\ \A e \in Editors : edit[e].at = "idle"
    /\ \A p \in Pollers : poll[p].imported = 0
    => linksPage \in Listings(links)

\* A removal takes away no other link than the one that was clicked on, however old the page is
\* that it was clicked on: numbers of removed links are not given to new ones.  After a restore
\* they may be, since the sequence goes back with the table; a page from before it is excepted.
RemovesWhatWasSeen ==
    [][\A e \in Editors : \A seen \in edit[e].list :
          RemoveLink(e, seen) /\ ~edit[e].old => links \ links' \subseteq {seen}]_linkVars
=============================================================================
