---------------------------- MODULE ServerProofs ----------------------------
(***************************************************************************)
(* What reaches the site from outside and what programs do to it, for every *)
(* number of editors, polls, reports, passes, addresses, programs and       *)
(* requests: /links shows the newest links and a removal takes what was     *)
(* seen, the operator's word on a mention stands and nobody is told twice,  *)
(* an outage keeps the key, a patch keeps the rest of the article, and a    *)
(* list of posts heals.                                                     *)
(***************************************************************************)
EXTENDS Links, Webmentions, KeyCache, Agents, Resources, SequenceTheorems, FiniteSetTheorems, TLAPS

-----------------------------------------------------------------------------
(* Links.  Whatever the page does not show yet, somebody who has still to   *)
(* rebuild has changed; and a rebuild that has read the table before a      *)
(* change is not the one of whoever changed it.                             *)

LinkRecords == [id : Nat \ {0}, href : Hrefs, source : {"manual", "rss"}, date : Nat]
Edits == [at : {"idle", "build"}, list : SUBSET LinkRecords, old : BOOLEAN]
Polls == [at : {"idle", "feeds", "build"}, feed : Nat, items : Seq(Hrefs), imported : Nat]

LinkTypes ==
    /\ links \subseteq LinkRecords /\ lastId \in Nat
    /\ linkBuilder \in Editors \cup Pollers \cup {NoBuilder}
    /\ linkRows = NotRead \/ linkRows \subseteq LinkRecords
    /\ edit \in [Editors -> Edits]
    /\ poll \in [Pollers -> Polls]

\* A number stands for one row, in the table and on every page that was handed out since the
\* table was last replaced.
Current(e) == IF edit[e].old THEN {} ELSE edit[e].list
Known == links \cup UNION {Current(e) : e \in Editors}

NumbersInv ==
    /\ \A l \in Known : l.id <= lastId
    /\ \A l, m \in Known : l.id = m.id => l = m

BuilderInv == IF linkBuilder = NoBuilder THEN linkRows = NotRead ELSE Wants(linkBuilder)

\* x has changed the table and will rebuild, or has asked for it.
Pending(x) == IF x \in Editors THEN edit[x].at = "build" ELSE poll[x].imported > 0

PendingBut(w) == \E x \in Editors \cup Pollers : x # w /\ Pending(x)

RenderedInv == linkRows = NotRead \/ linkRows \in Listings(links) \/ unshown \/ PendingBut(linkBuilder)
ShownInv    == linksPage \in Listings(links) \/ unshown \/ PendingBut(NoBuilder)

LinksInv == LinkTypes /\ NumbersInv /\ BuilderInv /\ RenderedInv /\ ShownInv

LEMMA LinkConstants ==
    /\ NoBuilder \notin Editors \cup Pollers /\ Editors \cap Pollers = {}
    /\ FeedItems \in Seq(Seq(Hrefs)) /\ ItemsPerFeed \in Nat
    /\ FirstLinks \subseteq LinkRecords /\ Cardinality(FirstLinks) \in Nat
    /\ \A l \in FirstLinks : l.id <= Cardinality(FirstLinks)
    /\ \A l, m \in FirstLinks : l.id = m.id => l = m
    /\ \A a \in Archives : /\ a.rows \subseteq LinkRecords /\ a.last \in Nat
                           /\ \A l \in a.rows : l.id <= a.last
                           /\ \A l, m \in a.rows : l.id = m.id => l = m
    /\ \A source \in {"manual", "rss"} : DatesOf[source] \subseteq Nat
    /\ ~(NotRead \subseteq LinkRecords)
<1>1. Cardinality(FirstLinks) \in Nat
  BY LinksAssumption, FS_CardinalityType
<1>2. FirstLinks \subseteq LinkRecords /\ \A l \in FirstLinks : l.id <= Cardinality(FirstLinks)
  BY <1>1, LinksAssumption DEF LinkRecords
<1>3. ~(NotRead \subseteq LinkRecords)
  BY DEF NotRead, LinkRecords
<1>4. ASSUME NEW a \in Archives
      PROVE  /\ a.rows \subseteq LinkRecords /\ a.last \in Nat
             /\ \A l \in a.rows : l.id <= a.last
             /\ \A l, m \in a.rows : l.id = m.id => l = m
  <2>1. /\ a.last \in Nat
        /\ a.rows \subseteq [id : 1..a.last, href : Hrefs, source : {"manual", "rss"}, date : Nat]
        /\ \A l, m \in a.rows : l.id = m.id => l = m
    BY LinksAssumption
  <2> QED
    BY <2>1 DEF LinkRecords
<1> QED
  BY <1>1, <1>2, <1>3, <1>4, LinksAssumption

LEMMA NoPollIsAPoll == NoPoll \in Polls /\ [NoPoll EXCEPT !.at = "build"] \in Polls
<1>1. <<>> \in Seq(Hrefs)
  BY EmptySeq
<1>2. NoPoll \in Polls
  BY <1>1 DEF NoPoll, Polls
<1>3. ASSUME NEW r \in Polls PROVE [r EXCEPT !.at = "build"] \in Polls
  BY DEF Polls
<1> QED
  BY <1>2, <1>3

\* A poll that takes one item more.
LEMMA PollTakes ==
    ASSUME NEW r \in Polls, NEW items \in Seq(Hrefs), NEW n \in Nat
    PROVE  [r EXCEPT !.items = items, !.imported = n] \in Polls
BY DEF Polls

LEMMA LinksInitially == LinksInit => LinksInv
<1> SUFFICES ASSUME LinksInit PROVE LinksInv
  OBVIOUS
<1>1. /\ \A e \in Editors : edit[e].list = {}
      /\ edit \in [Editors -> Edits] /\ poll \in [Pollers -> Polls]
  BY DEF LinksInit, NoEdit, NoPoll, Edits, Polls
<1>2. Known = FirstLinks
  BY <1>1 DEF LinksInit, Known, Current
<1> QED
  BY <1>1, <1>2, LinkConstants
     DEF LinksInit, LinksInv, LinkTypes, NumbersInv, BuilderInv, RenderedInv, ShownInv

\* A row with the next number is known from then on, and no other has that number.
LEMMA InsertNumbers ==
    ASSUME LinksInv, NEW href \in Hrefs, NEW source \in {"manual", "rss"}, Insert(href, source),
           \A e \in Editors : edit'[e].list = edit[e].list /\ edit'[e].old = edit[e].old
    PROVE  links' \subseteq LinkRecords /\ lastId' \in Nat /\ NumbersInv'
<1>0. PICK d \in DatesOf[source] :
        links' = links \cup {[id |-> NextId, href |-> href, source |-> source, date |-> d]}
  BY DEF Insert
<1> DEFINE row == [id |-> NextId, href |-> href, source |-> source, date |-> d]
<1>1. lastId \in Nat /\ links \subseteq LinkRecords
  BY DEF LinksInv, LinkTypes
<1>2. row \in LinkRecords /\ row.id = lastId + 1
  BY <1>1, LinkConstants DEF LinkRecords, NextId
<1>3. lastId' = lastId + 1 /\ links' = links \cup {row}
  BY <1>0, <1>1 DEF Insert, NextId
<1> HIDE DEF row
<1>4. Known' = Known \cup {row}
  BY <1>3 DEF Known, Current
<1>5. \A l \in Known : l.id <= lastId /\ l.id \in Nat
  BY DEF LinksInv, NumbersInv, LinkTypes, Known, Current, LinkRecords, Edits
<1> QED
  BY <1>1, <1>2, <1>3, <1>4, <1>5 DEF LinksInv, NumbersInv

LEMMA AddLinkKeeps ==
    ASSUME LinksInv, NEW e \in Editors, NEW href \in Hrefs, AddLink(e, href)
    PROVE  LinksInv'
<1>1. /\ edit[e].at = "idle" /\ edit' = [edit EXCEPT ![e].at = "build"]
      /\ UNCHANGED <<linksPage, linkBuilder, linkRows, unshown, poll>>
      /\ Insert(href, "manual")
      /\ edit \in [Editors -> Edits]
  BY DEF AddLink, EditorTurns, linkBuild, LinksInv, LinkTypes
<1>2. /\ edit' \in [Editors -> Edits] /\ edit'[e].at = "build"
      /\ \A x \in Editors : /\ edit'[x].list = edit[x].list /\ edit'[x].old = edit[x].old
                            /\ x # e => edit'[x] = edit[x]
  BY <1>1 DEF Edits
<1>3. links' \subseteq LinkRecords /\ lastId' \in Nat /\ NumbersInv'
  BY <1>1, <1>2, InsertNumbers
<1>4. e # linkBuilder /\ e # NoBuilder
  BY <1>1, LinkConstants DEF LinksInv, BuilderInv, Wants
<1>5. LinkTypes'
  BY <1>1, <1>2, <1>3 DEF LinksInv, LinkTypes
<1>6. BuilderInv'
  BY <1>1, <1>2, <1>4 DEF LinksInv, LinkTypes, BuilderInv, Wants
<1>7. Pending(e)'
  BY <1>2 DEF Pending
<1>8. RenderedInv' /\ ShownInv'
  BY <1>1, <1>4, <1>7 DEF RenderedInv, ShownInv, PendingBut
<1> QED
  BY <1>3, <1>5, <1>6, <1>8 DEF LinksInv

LEMMA ListLinksKeeps ==
    ASSUME LinksInv, NEW e \in Editors, ListLinks(e)
    PROVE  LinksInv'
<1>0. PICK rows \in Listings(links) : edit' = [edit EXCEPT ![e].list = rows, ![e].old = FALSE]
  BY DEF ListLinks
<1>1. /\ UNCHANGED <<links, lastId, linksPage, linkBuilder, linkRows, unshown, poll>>
      /\ edit \in [Editors -> Edits] /\ rows \subseteq links /\ links \subseteq LinkRecords
  BY DEF ListLinks, Listings, linkTable, linkBuild, LinksInv, LinkTypes
<1>2. /\ edit' \in [Editors -> Edits] /\ edit'[e].list = rows
      /\ \A x \in Editors : edit'[x].at = edit[x].at /\ (x # e => edit'[x] = edit[x])
  BY <1>0, <1>1 DEF Edits
<1>3. Known' \subseteq Known
  BY <1>1, <1>2 DEF Known, Current
<1>4. LinkTypes' /\ NumbersInv' /\ BuilderInv'
  BY <1>1, <1>2, <1>3 DEF LinksInv, LinkTypes, NumbersInv, BuilderInv, Wants
<1>5. ASSUME NEW x \in Editors \cup Pollers PROVE Pending(x)' <=> Pending(x)
  BY <1>1, <1>2 DEF Pending
<1> QED
  BY <1>1, <1>4, <1>5 DEF LinksInv, RenderedInv, ShownInv, PendingBut

LEMMA RemoveLinkKeeps ==
    ASSUME LinksInv, NEW e \in Editors, NEW seen \in edit[e].list, RemoveLink(e, seen)
    PROVE  LinksInv'
<1> DEFINE gone == {l \in links : l.id = seen.id /\ l.source = "manual"}
           step == IF gone = {} THEN "idle" ELSE "build"
<1>1. /\ edit[e].at = "idle" /\ edit' = [edit EXCEPT ![e].at = step] /\ links' = links \ gone
      /\ UNCHANGED <<lastId, linksPage, linkBuilder, linkRows, unshown, poll>>
      /\ edit \in [Editors -> Edits]
  BY DEF RemoveLink, EditorTurns, linkBuild, LinksInv, LinkTypes
<1>2. step \in {"idle", "build"} /\ (gone # {} => step = "build") /\ links' \subseteq links
  BY <1>1
<1>3. gone = {} => links' = links
  BY <1>1
<1> HIDE DEF gone, step
<1>4. /\ edit' \in [Editors -> Edits] /\ edit'[e].at = step
      /\ \A x \in Editors : /\ edit'[x].list = edit[x].list /\ edit'[x].old = edit[x].old
                            /\ x # e => edit'[x] = edit[x]
  BY <1>1, <1>2 DEF Edits
<1>5. Known' \subseteq Known
  BY <1>2, <1>4 DEF Known, Current
<1>6. e # linkBuilder /\ e # NoBuilder
  BY <1>1, LinkConstants DEF LinksInv, BuilderInv, Wants
<1>7. LinkTypes' /\ NumbersInv' /\ BuilderInv'
  BY <1>1, <1>2, <1>4, <1>5, <1>6 DEF LinksInv, LinkTypes, NumbersInv, BuilderInv, Wants
<1>8. ASSUME NEW x \in Editors \cup Pollers, Pending(x) PROVE Pending(x)'
  BY <1>1, <1>4, <1>8 DEF Pending
<1>9. gone # {} => Pending(e)'
  BY <1>2, <1>4 DEF Pending
<1>10. RenderedInv' /\ ShownInv'
  <2>1. CASE gone = {}
    BY <1>1, <1>3, <1>8, <2>1 DEF LinksInv, RenderedInv, ShownInv, PendingBut
  <2>2. CASE gone # {}
    BY <1>1, <1>6, <1>9, <2>2 DEF RenderedInv, ShownInv, PendingBut
  <2> QED
    BY <2>1, <2>2
<1> QED
  BY <1>7, <1>10 DEF LinksInv

\* Whoever restores rebuilds afterwards, or has failed, and no list from before counts.
LEMMA RestoreLinksKeeps ==
    ASSUME LinksInv, NEW e \in Editors, NEW a \in Archives, NEW ok \in BOOLEAN,
           RestoreLinks(e, a, ok)
    PROVE  LinksInv'
<1>1. /\ edit[e].at = "idle" /\ links' = a.rows /\ lastId' = a.last
      /\ UNCHANGED <<linksPage, linkBuilder, linkRows, poll>> /\ unshown' = (unshown \/ ~ok)
      /\ edit' = [x \in Editors |-> [edit[x] EXCEPT !.old = edit[x].list # {},
                                                   !.at = IF x = e /\ ok THEN "build" ELSE @]]
      /\ edit \in [Editors -> Edits]
  BY DEF RestoreLinks, linkBuild, LinksInv, LinkTypes
<1>2. ASSUME NEW x \in Editors
      PROVE  /\ edit'[x] \in Edits /\ edit'[x].list = edit[x].list
             /\ edit'[x].old = (edit[x].list # {})
             /\ edit'[x].at = IF x = e /\ ok THEN "build" ELSE edit[x].at
  <2> DEFINE old == edit[x].list # {}
             at  == IF x = e /\ ok THEN "build" ELSE edit[x].at
  <2>1. edit[x] \in Edits /\ edit'[x] = [edit[x] EXCEPT !.old = old, !.at = at]
    BY <1>1
  <2>2. old \in BOOLEAN /\ at \in {"idle", "build"}
    BY <2>1 DEF Edits
  <2> HIDE DEF old, at
  <2>3. edit'[x] \in Edits /\ edit'[x].list = edit[x].list /\ edit'[x].old = old /\ edit'[x].at = at
    BY <2>1, <2>2 DEF Edits
  <2> QED
    BY <2>3 DEF old, at
<1>3. edit' \in [Editors -> Edits]
  BY <1>1, <1>2
<1>4. Known' \subseteq a.rows
  <2>1. ASSUME NEW x \in Editors PROVE Current(x)' = {}
    <3>1. CASE edit[x].list = {}
      BY <1>2, <3>1 DEF Current
    <3>2. CASE edit[x].list # {}
      BY <1>2, <3>2 DEF Current
    <3> QED
      BY <3>1, <3>2
  <2> QED
    BY <1>1, <2>1 DEF Known
<1>5. e # linkBuilder /\ e # NoBuilder
  BY <1>1, LinkConstants DEF LinksInv, BuilderInv, Wants
<1>6. LinkTypes' /\ NumbersInv'
  BY <1>1, <1>3, <1>4, LinkConstants DEF LinksInv, LinkTypes, NumbersInv
<1>7. BuilderInv'
  BY <1>1, <1>2, <1>5 DEF LinksInv, BuilderInv, Wants
<1>8. unshown' \/ Pending(e)'
  BY <1>1, <1>2 DEF Pending
<1> QED
  BY <1>1, <1>5, <1>6, <1>7, <1>8 DEF LinksInv, RenderedInv, ShownInv, PendingBut

\* A poll outside its own rebuild changes no table, unless it imports.
LEMMA PollMoves ==
    ASSUME LinksInv, NEW p \in Pollers, poll[p].at # "build", NEW new \in Polls,
           poll' = [poll EXCEPT ![p] = new],
           new.imported = poll[p].imported,
           UNCHANGED <<links, lastId, linksPage, linkBuilder, linkRows, unshown, edit>>
    PROVE  LinksInv'
<1>1. poll \in [Pollers -> Polls]
  BY DEF LinksInv, LinkTypes
<1>2. poll'[p] = new /\ \A x \in Pollers : x # p => poll'[x] = poll[x]
  BY <1>1
<1>3. p # linkBuilder
  BY LinkConstants DEF LinksInv, BuilderInv, Wants
<1>4. ASSUME NEW x \in Editors \cup Pollers PROVE Pending(x)' <=> Pending(x)
  BY <1>2 DEF Pending
<1>5. LinkTypes'
  BY <1>1 DEF LinksInv, LinkTypes
<1>6. NumbersInv'
  BY DEF LinksInv, NumbersInv, Known, Current
<1>7. BuilderInv'
  BY <1>2, <1>3 DEF LinksInv, LinkTypes, BuilderInv, Wants
<1> QED
  BY <1>4, <1>5, <1>6, <1>7 DEF LinksInv, RenderedInv, ShownInv, PendingBut

LEMMA StartPollKeeps ==
    ASSUME LinksInv, NEW p \in Pollers, StartPoll(p)
    PROVE  LinksInv'
<1> DEFINE new == [poll[p] EXCEPT !.at = "feeds"]
<1>1. poll[p] \in Polls /\ poll[p].at = "idle" /\ poll' = [poll EXCEPT ![p] = new]
  BY DEF StartPoll, LinksInv, LinkTypes
<1>2. new \in Polls /\ new.imported = poll[p].imported
  BY <1>1 DEF Polls
<1>3. UNCHANGED <<links, lastId, linksPage, linkBuilder, linkRows, unshown, edit>>
  BY DEF StartPoll, linkTable, linkBuild
<1> QED
  BY <1>1, <1>2, <1>3, PollMoves

LEMMA FetchKeeps ==
    ASSUME LinksInv, NEW p \in Pollers, Fetch(p)
    PROVE  LinksInv'
<1> DEFINE f == poll[p].feed + 1
           n == IF Len(FeedItems[f]) < ItemsPerFeed THEN Len(FeedItems[f]) ELSE ItemsPerFeed
<1>1. poll[p] \in Polls /\ poll[p].at = "feeds" /\ poll[p].feed < Len(FeedItems)
  BY DEF Fetch, LinksInv, LinkTypes
<1>2. f \in 1..Len(FeedItems)
  BY <1>1, LinkConstants DEF Polls
<1>3. FeedItems[f] \in Seq(Hrefs)
  BY <1>2, LinkConstants, ElementOfSeq
<1>4. n \in 0..Len(FeedItems[f])
  BY <1>3, LinkConstants, LenProperties
<1>5. SubSeq(FeedItems[f], 1, n) \in Seq(Hrefs)
  BY <1>3, <1>4, SubSeqProperties
<1>6. PICK items \in {<<>>, SubSeq(FeedItems[f], 1, n)} :
        poll' = [poll EXCEPT ![p].feed = f, ![p].items = items]
  BY DEF Fetch
<1>7. items \in Seq(Hrefs)
  BY <1>5, <1>6, EmptySeq
<1>8. f \in Nat
  BY <1>2
<1> DEFINE new == [poll[p] EXCEPT !.feed = f, !.items = items]
<1> HIDE DEF f, n
<1>9. new \in Polls /\ new.imported = poll[p].imported
  BY <1>1, <1>7, <1>8 DEF Polls
<1>10. poll \in [Pollers -> Polls]
  BY DEF LinksInv, LinkTypes
<1>11. poll' = [poll EXCEPT ![p] = new]
  BY <1>1, <1>6, <1>10
<1>12. UNCHANGED <<links, lastId, linksPage, linkBuilder, linkRows, unshown, edit>>
  BY DEF Fetch, linkTable, linkBuild
<1> QED
  BY <1>1, <1>9, <1>11, <1>12, PollMoves

LEMMA ImportKeeps ==
    ASSUME LinksInv, NEW p \in Pollers, Import(p)
    PROVE  LinksInv'
<1> DEFINE href == Head(poll[p].items)
           new  == Safe(href) /\ ~Listed(href)
           more == IF new THEN 1 ELSE 0
<1>1. /\ poll \in [Pollers -> Polls] /\ poll[p].at = "feeds" /\ poll[p].items # <<>>
      /\ IF new THEN Insert(href, "rss") ELSE links' = links /\ lastId' = lastId
      /\ poll' = [poll EXCEPT ![p].items = Tail(@), ![p].imported = @ + more]
      /\ UNCHANGED <<linksPage, linkBuilder, linkRows, unshown, edit>>
  BY DEF Import, linkTable, linkBuild, LinksInv, LinkTypes
<1>2. poll[p].items \in Seq(Hrefs) /\ poll[p] \in Polls
  BY <1>1 DEF Polls
<1>3. href \in Hrefs /\ Tail(poll[p].items) \in Seq(Hrefs)
  BY <1>1, <1>2, HeadTailProperties
<1>4. more \in Nat /\ (new => more = 1)
  OBVIOUS
<1>5. new => Insert(href, "rss")
  BY <1>1
<1>6. ~new => links' = links /\ lastId' = lastId
  BY <1>1
<1> HIDE DEF href, new, more
<1>7. /\ poll' \in [Pollers -> Polls]
      /\ poll'[p].at = "feeds" /\ poll'[p].imported = poll[p].imported + more
      /\ \A x \in Pollers : x # p => poll'[x] = poll[x]
  <2> DEFINE rest == Tail(poll[p].items)
             sum  == poll[p].imported + more
             next == [poll[p] EXCEPT !.items = rest, !.imported = sum]
  <2>1. poll[p].imported \in Nat
    BY <1>2 DEF Polls
  <2>2. rest \in Seq(Hrefs) /\ sum \in Nat
    BY <1>3, <1>4, <2>1
  <2>3. sum = poll[p].imported + more
    OBVIOUS
  <2>4. next \in Polls
    BY <1>2, <2>2, PollTakes
  <2> HIDE DEF rest, sum
  <2>5. next.at = "feeds" /\ next.imported = sum
    BY <1>1, <1>2 DEF Polls
  <2>6. poll' = [poll EXCEPT ![p] = next]
    BY <1>1, <1>2 DEF rest, sum
  <2> HIDE DEF next
  <2> QED
    BY <1>1, <2>3, <2>5, <2>4, <2>6
<1>8. p # linkBuilder /\ p # NoBuilder /\ p \notin Editors
  BY <1>1, LinkConstants DEF LinksInv, BuilderInv, Wants
<1>9. BuilderInv'
  BY <1>1, <1>7, <1>8 DEF LinksInv, LinkTypes, BuilderInv, Wants
<1>10. CASE new
  <2>1. links' \subseteq LinkRecords /\ lastId' \in Nat /\ NumbersInv'
    BY <1>1, <1>3, <1>5, <1>10, InsertNumbers
  <2>2. LinkTypes'
    BY <1>1, <1>7, <2>1 DEF LinksInv, LinkTypes
  <2>3. poll[p].imported \in Nat
    BY <1>2 DEF Polls
  <2>4. Pending(p)'
    BY <1>4, <1>7, <1>8, <1>10, <2>3 DEF Pending
  <2> QED
    BY <1>1, <1>8, <1>9, <2>1, <2>2, <2>4 DEF LinksInv, RenderedInv, ShownInv, PendingBut
<1>11. CASE ~new
  <2>1. LinkTypes' /\ NumbersInv'
    BY <1>1, <1>6, <1>7, <1>11 DEF LinksInv, LinkTypes, NumbersInv, Known, Current
  <2>2. poll[p].imported \in Nat
    BY <1>2 DEF Polls
  <2>3. ASSUME NEW x \in Editors \cup Pollers, Pending(x) PROVE Pending(x)'
    BY <1>1, <1>4, <1>7, <2>2, <2>3 DEF Pending
  <2> QED
    BY <1>1, <1>6, <1>9, <1>11, <2>1, <2>3 DEF LinksInv, RenderedInv, ShownInv, PendingBut
<1> QED
  BY <1>10, <1>11

LEMMA EndPollKeeps ==
    ASSUME LinksInv, NEW p \in Pollers, EndPoll(p)
    PROVE  LinksInv'
<1> DEFINE new == IF WorthARebuild(p)
                  THEN [NoPoll EXCEPT !.at = "build", !.imported = poll[p].imported]
                  ELSE NoPoll
<1>1. poll[p] \in Polls /\ poll[p].at = "feeds" /\ poll' = [poll EXCEPT ![p] = new]
  BY DEF EndPoll, LinksInv, LinkTypes
<1>2. new \in Polls /\ new.imported = poll[p].imported
  <2>1. poll[p].imported \in Nat /\ NoPoll \in Polls
    BY <1>1, NoPollIsAPoll DEF Polls
  <2>2. [NoPoll EXCEPT !.at = "build", !.imported = poll[p].imported] \in Polls
    BY <2>1 DEF Polls
  <2>3. NoPoll.imported = 0
    BY DEF NoPoll
  <2>4. CASE WorthARebuild(p)
    BY <2>1, <2>2, <2>4 DEF Polls
  <2>5. CASE ~WorthARebuild(p)
    BY <2>1, <2>3, <2>5 DEF WorthARebuild
  <2> QED
    BY <2>4, <2>5
<1>3. UNCHANGED <<links, lastId, linksPage, linkBuilder, linkRows, unshown, edit>>
  BY DEF EndPoll, linkTable, linkBuild
<1> QED
  BY <1>1, <1>2, <1>3, PollMoves

LEMMA BeginLinksBuildKeeps ==
    ASSUME LinksInv, NEW w \in Editors \cup Pollers, BeginLinksBuild(w)
    PROVE  LinksInv'
<1>1. /\ linkBuilder = NoBuilder /\ Wants(w) /\ linkBuilder' = w
      /\ UNCHANGED <<links, lastId, linksPage, linkRows, unshown, edit, poll>>
  BY DEF BeginLinksBuild, linkTable
<1>2. LinkTypes' /\ NumbersInv' /\ BuilderInv'
  BY <1>1, LinkConstants DEF LinksInv, LinkTypes, NumbersInv, Known, Current, BuilderInv, Wants
<1>3. linkRows = NotRead
  BY <1>1 DEF LinksInv, BuilderInv
<1> QED
  BY <1>1, <1>2, <1>3 DEF LinksInv, RenderedInv, ShownInv, PendingBut, Pending

LEMMA RenderLinksKeeps ==
    ASSUME LinksInv, RenderLinks
    PROVE  LinksInv'
<1>1. /\ linkBuilder # NoBuilder /\ linkRows' \in Listings(links)
      /\ UNCHANGED <<links, lastId, linksPage, linkBuilder, unshown, edit, poll>>
      /\ linkRows' \subseteq links
  BY DEF RenderLinks, linkTable, Listings
<1> QED
  BY <1>1 DEF LinksInv, LinkTypes, NumbersInv, Known, Current, BuilderInv, Wants, RenderedInv,
              ShownInv, PendingBut, Pending

\* Whoever rebuilds is not among those that others are still waiting for.
LEMMA EndLinksBuildKeeps ==
    ASSUME LinksInv, NEW ok \in BOOLEAN, EndLinksBuild(ok)
    PROVE  LinksInv'
<1> DEFINE w == linkBuilder
<1>1. /\ w \in Editors \cup Pollers
      /\ ok => linkRows # NotRead
      /\ linksPage' = IF ok THEN linkRows ELSE linksPage
      /\ unshown' = (~ok \/ (unshown /\ linkRows \notin Listings(links)))
      /\ linkBuilder' = NoBuilder /\ linkRows' = NotRead
      /\ UNCHANGED <<links, lastId>>
      /\ edit \in [Editors -> Edits] /\ poll \in [Pollers -> Polls]
  BY DEF EndLinksBuild, linkTable, LinksInv, LinkTypes
<1>2. /\ edit' \in [Editors -> Edits] /\ poll' \in [Pollers -> Polls]
      /\ \A x \in Editors : edit'[x].list = edit[x].list /\ edit'[x].old = edit[x].old
      /\ \A x \in Editors : x # w => edit'[x] = edit[x]
      /\ \A x \in Pollers : x # w => poll'[x] = poll[x]
  <2>1. CASE w \in Editors
    <3>1. edit' = [edit EXCEPT ![w].at = "idle"] /\ poll' = poll
      BY <2>1 DEF EndLinksBuild
    <3> QED
      BY <1>1, <2>1, <3>1 DEF Edits
  <2>2. CASE w \notin Editors
    <3>1. PICK new \in {[NoPoll EXCEPT !.at = "build"], NoPoll} :
            poll' = [poll EXCEPT ![w] = new] /\ edit' = edit
      BY <2>2 DEF EndLinksBuild
    <3>2. new \in Polls
      BY NoPollIsAPoll
    <3> QED
      BY <1>1, <2>2, <3>1, <3>2
  <2> QED
    BY <2>1, <2>2
<1>3. Known' = Known
  BY <1>1, <1>2 DEF Known, Current
<1>4. LinkTypes' /\ NumbersInv' /\ BuilderInv' /\ RenderedInv'
  BY <1>1, <1>2, <1>3 DEF LinksInv, LinkTypes, NumbersInv, BuilderInv, RenderedInv
<1>5. ASSUME NEW x \in Editors \cup Pollers, x # w, Pending(x) PROVE Pending(x)'
  BY <1>2, <1>5 DEF Pending
<1>6. PendingBut(w) => PendingBut(NoBuilder)'
  BY <1>5, LinkConstants DEF PendingBut
<1>7. ShownInv'
  <2>1. Listings(links)' = Listings(links)
    BY <1>1 DEF Listings
  <2>2. CASE ~ok
    BY <1>1, <2>2 DEF ShownInv
  <2>3. CASE ok
    <3>1. linksPage' = linkRows /\ unshown' = (unshown /\ linkRows \notin Listings(links))
      BY <1>1, <2>3
    <3>2. linkRows \in Listings(links) \/ unshown \/ PendingBut(w)
      BY <1>1, <2>3 DEF LinksInv, RenderedInv
    <3> QED
      BY <1>6, <2>1, <3>1, <3>2 DEF ShownInv
  <2> QED
    BY <2>2, <2>3
<1> QED
  BY <1>4, <1>7 DEF LinksInv

LEMMA RestartLinksKeeps ==
    ASSUME LinksInv, RestartLinks
    PROVE  LinksInv'
<1>1. /\ linkBuilder' = NoBuilder /\ linkRows' = NotRead /\ linksPage' \in Listings(links)
      /\ edit' = [e \in Editors |-> [edit[e] EXCEPT !.at = "idle"]]
      /\ poll' = [p \in Pollers |-> NoPoll]
      /\ UNCHANGED <<links, lastId>>
      /\ edit \in [Editors -> Edits]
  BY DEF RestartLinks, linkTable, LinksInv, LinkTypes
<1>2. /\ edit' \in [Editors -> Edits]
      /\ \A x \in Editors : edit'[x].list = edit[x].list /\ edit'[x].old = edit[x].old
  BY <1>1 DEF Edits
<1>3. poll' \in [Pollers -> Polls]
  BY <1>1 DEF NoPoll, Polls
<1>4. Known' = Known
  BY <1>1, <1>2 DEF Known, Current
<1> QED
  BY <1>1, <1>2, <1>3, <1>4
     DEF LinksInv, LinkTypes, NumbersInv, BuilderInv, RenderedInv, ShownInv

LEMMA LinksKept == LinksInv /\ [LinksNext]_linkVars => LinksInv'
<1> SUFFICES ASSUME LinksInv, [LinksNext]_linkVars PROVE LinksInv'
  OBVIOUS
<1>1. CASE UNCHANGED linkVars
  BY <1>1 DEF linkVars, linkTable, linkBuild, LinksInv, LinkTypes, NumbersInv, Known, Current,
              BuilderInv, Wants, RenderedInv, ShownInv, PendingBut, Pending
<1> QED
  BY <1>1, AddLinkKeeps, ListLinksKeeps, RemoveLinkKeeps, RestoreLinksKeeps, StartPollKeeps, FetchKeeps, ImportKeeps,
     EndPollKeeps, BeginLinksBuildKeeps, RenderLinksKeeps, EndLinksBuildKeeps, RestartLinksKeeps
     DEF LinksNext

\* When nobody has anything left to rebuild, /links shows the newest rows of the table, unless a
\* rebuild failed, or a restore before its rebuild: whatever was added, removed, imported or restored meanwhile.
THEOREM LinksAreAlwaysShown == LinksSpec => []LinksAreShown
<1>1. LinksInv => LinksAreShown
  <2> SUFFICES ASSUME LinksInv, linkBuilder = NoBuilder, ~unshown,
                      \A e \in Editors : edit[e].at = "idle",
                      \A p \in Pollers : poll[p].imported = 0
               PROVE  linksPage \in Listings(links)
    BY DEF LinksAreShown
  <2>1. ~PendingBut(NoBuilder)
    BY DEF PendingBut, Pending
  <2> QED
    BY <2>1 DEF LinksInv, ShownInv
<1> QED
  BY <1>1, LinksInitially, LinksKept, PTL DEF LinksSpec

\* A removal takes only the row its caller was shown, unless the table was replaced since.
THEOREM RemovalsHitWhatWasSeen == LinksSpec => RemovesWhatWasSeen
<1> DEFINE Hits == \A e \in Editors : \A seen \in edit[e].list :
                      RemoveLink(e, seen) /\ ~edit[e].old => links \ links' \subseteq {seen}
<1>1. LinksInv /\ [LinksNext]_linkVars => [Hits]_linkVars
  <2> SUFFICES ASSUME LinksInv, NEW e \in Editors, NEW seen \in edit[e].list,
                      RemoveLink(e, seen), ~edit[e].old, NEW l \in links \ links'
               PROVE  l = seen
    OBVIOUS
  <2>1. l.id = seen.id
    BY DEF RemoveLink
  <2>2. l \in Known /\ seen \in Known
    BY DEF Known, Current
  <2> QED
    BY <2>1, <2>2 DEF LinksInv, NumbersInv
<1> HIDE DEF Hits
<1>2. LinksSpec => [][Hits]_linkVars
  BY <1>1, LinksInitially, LinksKept, PTL DEF LinksSpec
<1> QED
  BY <1>2 DEF RemovesWhatWasSeen, Hits

-----------------------------------------------------------------------------
(* Webmentions.                                                              *)

Statuses == {"none", "pending", "verified", "approved", "rejected"}

\* What the operator has said is what the row says, and nothing but the operator changes a
\* row that is approved or rejected.
ModerationInv ==
    /\ verdict \in [Mentions -> Statuses]
    /\ moderated \in [Mentions -> {"none", "approved", "rejected"}]
    /\ ModerationStands

LEMMA ModerationInitially == MentionsInit => ModerationInv
BY DEF MentionsInit, ModerationInv, ModerationStands, Statuses

LEMMA ModerationKept == ModerationInv /\ [MentionsNext]_mentionVars => ModerationInv'
<1> SUFFICES ASSUME ModerationInv, [MentionsNext]_mentionVars PROVE ModerationInv'
  OBVIOUS
<1> USE DEF ModerationInv, ModerationStands, Statuses
<1>1. ASSUME UNCHANGED <<verdict, moderated>> PROVE ModerationInv'
  BY <1>1
<1>2. CASE UNCHANGED mentionVars
  BY <1>1, <1>2 DEF mentionVars, inVars
<1>3. ASSUME NEW m \in Mentions, Receive(m) PROVE ModerationInv'
  BY <1>3 DEF Receive, Queued
<1>4. ASSUME NEW m \in Mentions, FetchSource(m) \/ SourceChanges(m) PROVE ModerationInv'
  BY <1>1, <1>4 DEF FetchSource, SourceChanges
<1>5. ASSUME NEW m \in Mentions, NEW v \in Verdicts, WriteVerdict(m, v) PROVE ModerationInv'
  BY <1>5 DEF WriteVerdict, Verified, Verdicts
<1>6. ASSUME NEW m \in Mentions, NEW v \in {"approved", "rejected"}, Moderate(m, v)
      PROVE  ModerationInv'
  BY <1>6 DEF Moderate
<1>7. CASE StartScan \/ EndScan \/ Send \/ Record \/ RestartMentions
  BY <1>1, <1>7 DEF StartScan, EndScan, Send, Record, RestartMentions, inVars
<1>8. ASSUME NEW n \in Notices, Look(n) \/ PostChanges(n) PROVE ModerationInv'
  BY <1>1, <1>8 DEF Look, PostChanges, inVars
<1> QED
  BY <1>2, <1>3, <1>4, <1>5, <1>6, <1>7, <1>8 DEF MentionsNext

\* What the operator decided stays, whatever is reported and verified afterwards.
THEOREM ModerationAlwaysStands == MentionsSpec => []ModerationStands
<1>1. ModerationInv => ModerationStands
  BY DEF ModerationInv
<1> QED
  BY <1>1, ModerationInitially, ModerationKept, PTL DEF MentionsSpec

AnswersToSend == {"none", "sent", "unsupported", "failed"}
Scans == [at : {"rest", "next", "send", "record"}, left : SUBSET Notices,
          notice : Notices \cup {"none"}, answer : AnswersToSend]

\* The other side took the notice in hand, and the table does not say so yet.
Unrecorded(n) == scan.at = "record" /\ scan.answer = "sent" /\ scan.notice = n

TellingTypes ==
    /\ told \in [Notices -> AnswersToSend]
    /\ scan \in Scans
    /\ accepted \in [Notices -> Nat] /\ doubts \in [Notices -> Nat]

\* The one goroutine has looked the notice in hand up, and nobody else writes the table.
InHandInv == scan.at \in {"send", "record"} => scan.notice \in Notices /\ ~Done(scan.notice)

\* But for doubts, a notice was taken once if the table says so or is about to be told, and
\* never if not.
AcceptedInv ==
    \A n \in Notices :
        accepted[n] <= doubts[n] + IF told[n] = "sent" \/ Unrecorded(n) THEN 1 ELSE 0

TellingInv == TellingTypes /\ InHandInv /\ AcceptedInv

LEMMA TellingInitially == MentionsInit => TellingInv
BY DEF MentionsInit, TellingInv, TellingTypes, InHandInv, AcceptedInv, Unrecorded, Resting, Scans,
       AnswersToSend

LEMMA LookKeeps ==
    ASSUME TellingInv, NEW n \in Notices, Look(n)
    PROVE  TellingInv'
<1>1. /\ scan.at = "next" /\ scan \in Scans
      /\ \/ scan' = [scan EXCEPT !.left = @ \ {n}]
         \/ ~Done(n) /\ scan' = [scan EXCEPT !.at = "send", !.notice = n]
      /\ UNCHANGED <<told, accepted, doubts>>
  BY DEF Look, TellingInv, TellingTypes
<1>2. scan' \in Scans /\ scan'.at \in {"next", "send"}
      /\ (scan'.at = "send" => scan'.notice = n /\ ~Done(n))
  BY <1>1 DEF Scans
<1> QED
  BY <1>1, <1>2 DEF TellingInv, TellingTypes, InHandInv, Done, AcceptedInv, Unrecorded

LEMMA SendKeeps ==
    ASSUME TellingInv, Send
    PROVE  TellingInv'
<1> DEFINE n == scan.notice
<1>1. /\ scan.at = "send" /\ scan \in Scans /\ told' = told
      /\ n \in Notices /\ told[n] # "sent"
      /\ accepted \in [Notices -> Nat] /\ doubts \in [Notices -> Nat]
  BY DEF Send, TellingInv, TellingTypes, InHandInv, Done
<1>2. PICK answer \in {"sent", "unsupported", "failed"}, more \in {0, 1}, doubt \in {0, 1} :
        /\ scan' = [scan EXCEPT !.at = "record", !.answer = answer]
        /\ accepted' = [accepted EXCEPT ![n] = @ + more]
        /\ doubts' = [doubts EXCEPT ![n] = @ + doubt]
        /\ more <= doubt + IF answer = "sent" THEN 1 ELSE 0
  <2>1. accepted = [accepted EXCEPT ![n] = @ + 0] /\ doubts = [doubts EXCEPT ![n] = @ + 0]
    BY <1>1
  <2> QED
    BY <1>1, <2>1 DEF Send
<1>3. /\ scan' \in Scans /\ scan'.at = "record" /\ scan'.notice = n /\ scan'.answer = answer
  BY <1>1, <1>2 DEF Scans, AnswersToSend
<1>4. TellingTypes'
  BY <1>1, <1>2, <1>3 DEF TellingInv, TellingTypes
<1>5. InHandInv'
  BY <1>1, <1>3 DEF TellingInv, InHandInv, Done
<1>6. AcceptedInv'
  <2> SUFFICES ASSUME NEW x \in Notices
               PROVE  accepted'[x] <= doubts'[x] + IF told[x] = "sent" \/ Unrecorded(x)' THEN 1 ELSE 0
    BY <1>1 DEF AcceptedInv
  <2>1. accepted[x] <= doubts[x] + IF told[x] = "sent" THEN 1 ELSE 0
    BY <1>1 DEF TellingInv, AcceptedInv, Unrecorded
  <2>2. CASE x = n
    BY <1>1, <1>2, <1>3, <2>1, <2>2 DEF Unrecorded
  <2>3. CASE x # n
    BY <1>1, <1>2, <1>3, <2>1, <2>3 DEF Unrecorded
  <2> QED
    BY <2>2, <2>3
<1> QED
  BY <1>4, <1>5, <1>6 DEF TellingInv

LEMMA RecordKeeps ==
    ASSUME TellingInv, Record
    PROVE  TellingInv'
<1> DEFINE n == scan.notice
<1>1. /\ scan.at = "record" /\ scan \in Scans /\ scan' = Next1(scan) /\ accepted' = accepted
      /\ n \in Notices /\ told[n] # "sent"
      /\ told \in [Notices -> AnswersToSend]
      /\ accepted \in [Notices -> Nat] /\ doubts \in [Notices -> Nat]
      /\ \/ told' = [told EXCEPT ![n] = scan.answer] /\ doubts' = doubts
         \/ /\ doubts' = [doubts EXCEPT ![n] = @ + IF scan.answer = "sent" THEN 1 ELSE 0]
            /\ told' = told
  BY DEF Record, Recorded, TellingInv, TellingTypes, InHandInv, Done
<1>2. scan' \in Scans /\ scan'.at = "next"
  BY <1>1 DEF Next1, Scans, AnswersToSend
<1>3. TellingTypes'
  BY <1>1, <1>2 DEF TellingTypes, Scans
<1>4. InHandInv'
  BY <1>2 DEF InHandInv
<1>5. AcceptedInv'
  <2> SUFFICES ASSUME NEW x \in Notices
               PROVE  accepted[x] <= doubts'[x] + IF told'[x] = "sent" THEN 1 ELSE 0
    BY <1>1, <1>2 DEF AcceptedInv, Unrecorded
  <2>1. accepted[x] <= doubts[x] + IF told[x] = "sent" \/ Unrecorded(x) THEN 1 ELSE 0
    BY DEF TellingInv, AcceptedInv
  <2>2. CASE x = n
    BY <1>1, <2>1, <2>2 DEF Unrecorded
  <2>3. CASE x # n
    BY <1>1, <2>1, <2>3 DEF Unrecorded
  <2> QED
    BY <2>2, <2>3
<1> QED
  BY <1>3, <1>4, <1>5 DEF TellingInv

LEMMA RestartMentionsKeeps ==
    ASSUME TellingInv, RestartMentions
    PROVE  TellingInv'
<1>1. /\ scan' = Resting /\ UNCHANGED <<told, accepted>>
      /\ doubts' = [n \in Notices |-> doubts[n] + IF Unrecorded(n) THEN 1 ELSE 0]
      /\ accepted \in [Notices -> Nat] /\ doubts \in [Notices -> Nat]
  BY DEF RestartMentions, Unrecorded, TellingInv, TellingTypes
<1>2. Resting \in Scans
  BY DEF Resting, Scans, AnswersToSend
<1>3. TellingTypes' /\ InHandInv'
  BY <1>1, <1>2 DEF TellingInv, TellingTypes, InHandInv, Resting
<1>4. AcceptedInv'
  BY <1>1 DEF TellingInv, AcceptedInv, Unrecorded, Resting
<1> QED
  BY <1>3, <1>4 DEF TellingInv

LEMMA TellingKept == TellingInv /\ [MentionsNext]_mentionVars => TellingInv'
<1> SUFFICES ASSUME TellingInv, [MentionsNext]_mentionVars PROVE TellingInv'
  OBVIOUS
<1>1. ASSUME UNCHANGED <<told, scan, accepted, doubts>> PROVE TellingInv'
  BY <1>1 DEF TellingInv, TellingTypes, InHandInv, Done, AcceptedInv, Unrecorded
<1>2. CASE UNCHANGED mentionVars
  BY <1>1, <1>2 DEF mentionVars, outVars
<1>3. ASSUME NEW m \in Mentions,
             \/ Receive(m) \/ FetchSource(m) \/ SourceChanges(m)
             \/ \E v \in Verdicts : WriteVerdict(m, v)
             \/ \E v \in {"approved", "rejected"} : Moderate(m, v)
      PROVE  TellingInv'
  BY <1>1, <1>3 DEF Receive, FetchSource, SourceChanges, WriteVerdict, Moderate, outVars
<1>4. CASE StartScan \/ EndScan
  <2>1. scan' \in Scans /\ scan'.at \in {"rest", "next"} /\ scan.at \in {"rest", "next"}
        /\ UNCHANGED <<told, accepted, doubts>>
    <3>1. CASE StartScan /\ scan' # scan
      <4> DEFINE left == {n \in Notices : public[n]}
      <4>1. left \subseteq Notices
        OBVIOUS
      <4>2. scan' = [Resting EXCEPT !.at = "next", !.left = left]
        BY <3>1 DEF StartScan
      <4> HIDE DEF left
      <4>3. scan' = [at |-> "next", left |-> left, notice |-> "none", answer |-> "none"]
        BY <4>2 DEF Resting
      <4>4. scan' \in Scans /\ scan'.at = "next"
        BY <4>1, <4>3 DEF Scans, AnswersToSend
      <4> QED
        BY <3>1, <4>4 DEF StartScan
    <3>2. CASE EndScan
      BY <3>2 DEF EndScan, Resting, Scans, AnswersToSend
    <3>3. CASE StartScan /\ scan' = scan
      BY <3>3 DEF StartScan, TellingInv, TellingTypes
    <3> QED
      BY <1>4, <3>1, <3>2, <3>3
  <2> QED
    BY <2>1 DEF TellingInv, TellingTypes, InHandInv, AcceptedInv, Unrecorded
<1>5. ASSUME NEW n \in Notices, PostChanges(n) PROVE TellingInv'
  BY <1>1, <1>5 DEF PostChanges
<1> QED
  BY <1>2, <1>3, <1>4, <1>5, LookKeeps, SendKeeps, RecordKeeps, RestartMentionsKeeps
     DEF MentionsNext

\* Nobody is told of a link twice, but for notices of which the answer or its record was lost.
THEOREM NobodyIsToldTwice == MentionsSpec => []ToldOnce
<1>1. TellingInv => ToldOnce
  <2> SUFFICES ASSUME TellingInv, NEW n \in Notices PROVE accepted[n] <= 1 + doubts[n]
    BY DEF ToldOnce
  <2>1. /\ accepted[n] \in Nat /\ doubts[n] \in Nat
        /\ accepted[n] <= doubts[n] + IF told[n] = "sent" \/ Unrecorded(n) THEN 1 ELSE 0
    BY DEF TellingInv, TellingTypes, AcceptedInv
  <2> QED
    BY <2>1
<1> QED
  BY <1>1, TellingInitially, TellingKept, PTL DEF MentionsSpec

-----------------------------------------------------------------------------
(* The key.  A key that is on the site, or on its way there, is the one in  *)
(* the file, unless the keyserver has denied its address since or the file  *)
(* lost it; so a lookup without a key in its answer has an excuse.          *)

AllAddresses == Addresses \cup {NoAddress}
Found == [of : AllAddresses, key : Nat]

KeyTypes ==
    /\ address \in AllAddresses
    /\ keyserver \in [Addresses -> Nat]
    /\ record \in Found /\ keyShown \in Found
    /\ refresh \in [at : {"idle", "resolve"}, of : AllAddresses]
    /\ keyBuild \in [at : {"idle", "resolve", "render"}, of : AllAddresses, out : Found,
                     excused : BOOLEAN]

Accounted(a) == (record.of = a /\ record.key # 0) \/ a \in denied \cup unkept

ShownKeyInv == keyShown.key # 0 => keyShown.of \in Addresses /\ Accounted(keyShown.of)

KeyBuildInv ==
    keyBuild.at = "render" =>
        /\ keyBuild.out.key # 0 => keyBuild.of \in Addresses /\ Accounted(keyBuild.of)
        /\ keyBuild.out.key = 0 /\ keyShown.of = keyBuild.of /\ keyShown.key # 0 => keyBuild.excused

KeyInv == KeyTypes /\ ShownKeyInv /\ KeyBuildInv

LEMMA KeyInitially == KeyInit => KeyInv
BY DEF KeyInit, KeyInv, KeyTypes, ShownKeyInv, KeyBuildInv, Found, AllAddresses, NoRecord, Answer,
       NoKeyBuild

\* What every lookup leaves behind, for its own address and for the others.
LEMMA ResolveAccounts ==
    ASSUME KeyTypes, NEW a \in AllAddresses, NEW force \in BOOLEAN, NEW out \in Answers,
           Resolve(a, force, out)
    PROVE  /\ record' \in Found /\ out \in Found
           /\ \A b \in Addresses : Accounted(b) => Accounted(b)'
           /\ out.key # 0 => a \in Addresses /\ Accounted(a)'
           /\ out.key = 0 /\ a \in Addresses /\ Accounted(a) => a \in denied' \cup unkept'
<1>1. record \in Found /\ keyserver \in [Addresses -> Nat] /\ NoAddress \notin Addresses
  BY KeyCacheAssumption DEF KeyTypes
<1>2. out \in Found
  BY KeyCacheAssumption DEF Answers, Answer, NoRecord, Found, AllAddresses
<1>3. CASE a = NoAddress
  <2>1. /\ record' = NoRecord /\ out = NoRecord /\ denied' = denied
        /\ unkept' = unkept \cup ({record.of} \ {NoAddress})
    BY <1>3 DEF Resolve, Forget
  <2>2. NoRecord \in Found /\ NoRecord.key = 0
    BY DEF NoRecord, Answer, Found, AllAddresses
  <2> QED
    BY <1>1, <1>2, <1>3, <2>1, <2>2 DEF Accounted
<1>4. CASE a \in Addresses /\ UNCHANGED <<record, denied, unkept>> /\ out = record /\ record.of = a
  BY <1>1, <1>2, <1>4 DEF Accounted
<1>5. CASE a \in Addresses /\ FetchFails(a, out)
  <2>1. /\ UNCHANGED <<record, denied, unkept>>
        /\ out.key # 0 => record.of = a /\ record.key # 0
        /\ record.of = a /\ record.key # 0 => out.key # 0
    BY <1>5 DEF FetchFails, LastGood, Answer
  <2> QED
    BY <1>1, <1>2, <1>5, <2>1 DEF Accounted
<1>6. CASE /\ a \in Addresses /\ FetchAnswers(a, out)
           /\ Save(out) \/ (unkept' = unkept \cup {a} /\ record' = record)
  <2>1. /\ out = [of |-> a, key |-> keyserver[a]]
        /\ denied' = IF keyserver[a] = 0 THEN denied \cup {a} ELSE denied \ {a}
    BY <1>6 DEF FetchAnswers, Answer
  <2>2. CASE Save(out)
    <3>1. /\ record' = out
          /\ \A b \in Addresses : b # a =>
               (b \in unkept' <=> b \in unkept \/ b = record.of)
      BY <2>1, <2>2 DEF Save
    <3> QED
      BY <1>1, <1>2, <1>6, <2>1, <3>1 DEF Accounted
  <2>3. CASE unkept' = unkept \cup {a} /\ record' = record
    BY <1>1, <1>2, <1>6, <2>1, <2>3 DEF Accounted
  <2> QED
    BY <1>6, <2>2, <2>3
<1> QED
  BY <1>3, <1>4, <1>5, <1>6 DEF Resolve, AllAddresses

LEMMA ResolveKeyKeeps ==
    ASSUME KeyInv, ResolveKey
    PROVE  KeyInv'
<1> DEFINE a == keyBuild.of
<1>1. PICK out \in Answers :
        /\ Resolve(a, FALSE, out)
        /\ keyBuild' = [keyBuild EXCEPT !.at = "render", !.out = out,
                                        !.excused = a \in denied' \cup unkept']
  BY DEF ResolveKey
<1>2. KeyTypes /\ a \in AllAddresses /\ UNCHANGED <<address, keyserver, refresh, keyShown>>
  BY DEF KeyInv, KeyTypes, ResolveKey
<1>3. /\ record' \in Found /\ out \in Found
      /\ \A b \in Addresses : Accounted(b) => Accounted(b)'
      /\ out.key # 0 => a \in Addresses /\ \A b \in Addresses : b = a => Accounted(b)'
      /\ out.key = 0 /\ a \in Addresses /\ Accounted(a) => a \in denied' \cup unkept'
  BY <1>1, <1>2, ResolveAccounts DEF Accounted
<1>4. /\ keyBuild' \in [at : {"idle", "resolve", "render"}, of : AllAddresses, out : Found,
                        excused : BOOLEAN]
      /\ keyBuild'.of = a /\ keyBuild'.out = out
      /\ keyBuild'.excused = (a \in denied' \cup unkept')
  <2> DEFINE excused == a \in denied' \cup unkept'
  <2>1. excused \in BOOLEAN /\ keyBuild' = [keyBuild EXCEPT !.at = "render", !.out = out, !.excused = excused]
    BY <1>1
  <2> HIDE DEF excused
  <2>2. /\ keyBuild' \in [at : {"idle", "resolve", "render"}, of : AllAddresses, out : Found,
                          excused : BOOLEAN]
        /\ keyBuild'.of = a /\ keyBuild'.out = out /\ keyBuild'.excused = excused
    BY <1>2, <1>3, <2>1 DEF KeyTypes
  <2> QED
    BY <2>2 DEF excused
<1>5. KeyTypes'
  BY <1>2, <1>3, <1>4 DEF KeyTypes
<1>6. ShownKeyInv'
  BY <1>2, <1>3 DEF KeyInv, ShownKeyInv
<1>7. KeyBuildInv'
  BY <1>2, <1>3, <1>4 DEF KeyInv, KeyBuildInv, ShownKeyInv
<1> QED
  BY <1>5, <1>6, <1>7 DEF KeyInv

LEMMA RefreshKeyKeeps ==
    ASSUME KeyInv, RefreshKey
    PROVE  KeyInv'
<1>1. PICK out \in Answers : Resolve(refresh.of, TRUE, out)
  BY DEF RefreshKey
<1>2. KeyTypes /\ refresh.of \in AllAddresses
  BY DEF KeyInv, KeyTypes
<1>3. record' \in Found /\ \A b \in Addresses : Accounted(b) => Accounted(b)'
  BY <1>1, <1>2, ResolveAccounts
<1>4. UNCHANGED <<address, keyserver, keyBuild, keyShown>> /\ refresh' = [at |-> "idle", of |-> NoAddress]
  BY DEF RefreshKey
<1>5. KeyTypes'
  BY <1>2, <1>3, <1>4 DEF KeyTypes, AllAddresses
<1> QED
  BY <1>3, <1>4, <1>5 DEF KeyInv, ShownKeyInv, KeyBuildInv

LEMMA KeyKept == KeyInv /\ [KeyNext]_keyVars => KeyInv'
<1> SUFFICES ASSUME KeyInv, [KeyNext]_keyVars PROVE KeyInv'
  OBVIOUS
<1> USE DEF KeyInv, KeyTypes, ShownKeyInv, KeyBuildInv, Accounted
<1>1. CASE UNCHANGED keyVars
  BY <1>1 DEF keyVars
<1>2. CASE BeginKeyBuild
  BY <1>2 DEF BeginKeyBuild, NoKeyBuild, NoRecord, Answer, Found, AllAddresses
<1>3. CASE EndKeyBuild
  <2>1. /\ keyShown' \in {Answer(keyBuild.of, keyBuild.out.key), keyShown}
        /\ keyBuild' = NoKeyBuild /\ keyBuild.at = "render"
        /\ UNCHANGED <<address, keyserver, record, refresh, denied, unkept>>
    BY <1>3 DEF EndKeyBuild
  <2>2. NoKeyBuild \in [at : {"idle", "resolve", "render"}, of : AllAddresses, out : Found,
                        excused : BOOLEAN] /\ NoKeyBuild.at = "idle"
    BY DEF NoKeyBuild, NoRecord, Answer, Found, AllAddresses
  <2> QED
    BY <2>1, <2>2 DEF Answer, Found
<1>4. CASE BeginRefresh
  BY <1>4 DEF BeginRefresh
<1>5. ASSUME NEW a \in AllAddresses, ChangeAddress(a) PROVE KeyInv'
  BY <1>5 DEF ChangeAddress
<1>6. ASSUME NEW a \in Addresses, ChangeKey(a) PROVE KeyInv'
  BY <1>6 DEF ChangeKey
<1>7. CASE Expire
  BY <1>7 DEF Expire
<1> QED
  BY <1>1, <1>2, <1>3, <1>4, <1>5, <1>6, <1>7, ResolveKeyKeeps, RefreshKeyKeeps
     DEF KeyNext, AllAddresses

\* A published key goes off the site only when the keyserver has said so, or when the file's
\* one slot no longer held it: never because the keyserver is down.
THEOREM OutagesKeepTheKey == KeySpec => OutageKeepsKey
<1> DEFINE Kept == keyShown'.of = keyShown.of /\ keyShown.key # 0 /\ keyShown'.key = 0
                     => keyBuild.excused
<1>1. KeyInv /\ [KeyNext]_keyVars => [Kept]_keyVars
  <2> SUFFICES ASSUME KeyInv, KeyNext, keyShown'.of = keyShown.of, keyShown.key # 0,
                      keyShown'.key = 0
               PROVE  keyBuild.excused
    OBVIOUS
  <2>1. keyShown' # keyShown
    OBVIOUS
  <2>2. EndKeyBuild
    BY <2>1 DEF KeyNext, BeginKeyBuild, ResolveKey, BeginRefresh, RefreshKey, ChangeAddress,
                ChangeKey, Expire
  <2>3. /\ keyBuild.at = "render"
        /\ keyShown' = [of |-> keyBuild.of, key |-> keyBuild.out.key]
    BY <2>1, <2>2 DEF EndKeyBuild, Answer
  <2> QED
    BY <2>3 DEF KeyInv, KeyBuildInv
<1> HIDE DEF Kept
<1>2. KeySpec => [][Kept]_keyVars
  BY <1>1, KeyInitially, KeyKept, PTL DEF KeySpec
<1> QED
  BY <1>2 DEF OutageKeepsKey, Kept

-----------------------------------------------------------------------------
(* Programs.  A patch under way was made from the revision its caller holds *)
(* and is tied to it.                                                       *)

Articles == {NoArticle} \cup [text : Texts, updated : Nat]

AgentTypes ==
    /\ article \in Articles
    /\ activity \in Seq([before : Articles, after : Articles])
    /\ held \in [Holders -> Articles]
    /\ call = [h \in Holders |-> call[h]]

CallMade(h) ==
    call[h] = NoCall \/ (call[h].tool \in {"put", "update", "patch"} /\ call[h].text \in Texts)

\* What the patch is going to write differs from what it expects to find in the body only, and
\* its caller may touch that.
PatchMade(h) ==
    call[h].tool = "patch" =>
        /\ call[h].given = {"body"}
        /\ call[h].expected # NoArticle =>
             /\ Keeps(call[h].expected, call[h], {"body"})
             /\ ~call[h].expected.text.draft => Allows(h, "publish")

AgentInv ==
    AgentTypes /\ \A h \in Holders : CallMade(h) /\ PatchMade(h)

LEMMA AgentsInitially == AgentsInit => AgentInv
<1> SUFFICES ASSUME AgentsInit PROVE AgentInv
  OBVIOUS
<1>1. article \in Articles
  BY DEF AgentsInit, Articles
<1>2. activity \in Seq([before : Articles, after : Articles])
  BY EmptySeq DEF AgentsInit
<1>3. held \in [Holders -> Articles]
  BY DEF AgentsInit, Articles
<1> QED
  BY <1>1, <1>2, <1>3 DEF AgentsInit, AgentInv, AgentTypes, CallMade, PatchMade, NoCall

LEMMA WriteTypes ==
    ASSUME AgentTypes, NEW new \in Articles, Write(new)
    PROVE  article' \in Articles /\ activity' \in Seq([before : Articles, after : Articles])
<1> DEFINE entry == [before |-> article, after |-> new]
<1>1. entry \in [before : Articles, after : Articles]
  BY DEF AgentTypes
<1>2. activity' = Append(activity, entry) /\ article' = new
  BY DEF Write
<1> HIDE DEF entry
<1> QED
  BY <1>1, <1>2, AppendProperties DEF AgentTypes

LEMMA StampedIsAnArticle ==
    ASSUME AgentTypes, NEW text \in Texts
    PROVE  Stamped(text) \in Articles
BY LenProperties DEF AgentTypes, Stamped, Articles

\* Nothing that leaves the calls alone disturbs them.
LEMMA OtherWrites ==
    ASSUME AgentInv, NEW new \in Articles, Write(new), call' = call, held' \in [Holders -> Articles]
    PROVE  AgentInv'
BY WriteTypes DEF AgentInv, AgentTypes, CallMade, PatchMade

LEMMA BeginKeeps ==
    ASSUME AgentInv, NEW h \in Holders, NEW tool \in {"put", "update", "patch"}, NEW text \in Texts,
           NEW given, Begin(h, tool, text, given),
           tool = "patch" => /\ given = {"body"} /\ article = held[h] /\ article # NoArticle
                             /\ \A f \in {"title", "draft"} : text[f] = article.text[f]
                             /\ ~article.text.draft => Allows(h, "publish")
    PROVE  AgentInv'
<1> DEFINE new == [tool |-> tool, text |-> text, given |-> given, expected |-> held[h]]
<1>1. call' = [call EXCEPT ![h] = new] /\ UNCHANGED <<article, activity, held>>
  BY DEF Begin
<1>2. call'[h] = new /\ \A x \in Holders : x # h => call'[x] = call[x]
  BY <1>1 DEF AgentInv, AgentTypes
<1>3. call' = [x \in Holders |-> call'[x]]
  BY <1>1 DEF AgentInv, AgentTypes
<1>4. AgentTypes'
  BY <1>1, <1>3 DEF AgentInv, AgentTypes
<1>5. ASSUME NEW x \in Holders, x # h
      PROVE  CallMade(x)' /\ PatchMade(x)'
  BY <1>2, <1>5 DEF AgentInv, CallMade, PatchMade, Keeps
<1>6. ASSUME NEW x \in Holders, x = h
      PROVE  CallMade(x)' /\ PatchMade(x)'
  BY <1>2, <1>6 DEF CallMade, PatchMade, Keeps, Fields
<1> QED
  BY <1>4, <1>5, <1>6 DEF AgentInv

LEMMA ApplyKeeps ==
    ASSUME AgentInv, NEW h \in Holders, Apply(h)
    PROVE  AgentInv'
<1>1. call' = [call EXCEPT ![h] = NoCall] /\ call[h] # NoCall
  BY DEF Apply
<1>2. call'[h] = NoCall /\ \A x \in Holders : x # h => call'[x] = call[x]
  BY <1>1 DEF AgentInv, AgentTypes
<1>3. call' = [x \in Holders |-> call'[x]]
  BY <1>1 DEF AgentInv, AgentTypes
<1>4. ASSUME NEW x \in Holders
      PROVE  CallMade(x)' /\ PatchMade(x)'
  BY <1>2 DEF AgentInv, CallMade, PatchMade, Keeps, NoCall
<1>5. CASE UNCHANGED <<article, activity, held>>
  BY <1>3, <1>4, <1>5 DEF AgentInv, AgentTypes
<1>6. CASE Write(Stamped(call[h].text)) /\ held' = [held EXCEPT ![h] = article']
  <2>1. PICK text : text = call[h].text
    OBVIOUS
  <2>2. CASE text \in Texts
    <3>1. article' \in Articles /\ activity' \in Seq([before : Articles, after : Articles])
      BY <1>6, <2>1, <2>2, StampedIsAnArticle, WriteTypes DEF AgentInv
    <3>2. held' \in [Holders -> Articles]
      BY <1>6, <3>1 DEF AgentInv, AgentTypes
    <3> QED
      BY <1>3, <1>4, <3>1, <3>2 DEF AgentInv, AgentTypes
  <2>3. text \in Texts
    BY <1>1, <2>1 DEF AgentInv, CallMade
  <2> QED
    BY <2>2, <2>3
<1> QED
  BY <1>5, <1>6 DEF Apply

\* What is filled in from the article as it was read makes a whole text again.
LEMMA MergedIsAText ==
    ASSUME NEW text \in Texts, NEW title \in Titles, NEW draft \in BOOLEAN
    PROVE  /\ Merged([title |-> title], text) \in Texts
           /\ Merged([draft |-> draft], text) \in Texts
<1>1. text.title \in Titles /\ text.body \in Bodies /\ text.draft \in BOOLEAN
  BY DEF Texts
<1>2. ASSUME NEW f, DOMAIN f = Fields, f = [x \in Fields |-> f[x]],
             f["title"] \in Titles, f["body"] \in Bodies, f["draft"] \in BOOLEAN
      PROVE  f \in Texts
  BY <1>2 DEF Texts, Fields
<1>3. ASSUME NEW named PROVE DOMAIN Merged(named, text) = Fields /\
             Merged(named, text) = [x \in Fields |-> Merged(named, text)[x]]
  BY DEF Merged
<1>4. Merged([title |-> title], text) \in Texts
  BY <1>1, <1>2, <1>3 DEF Merged, Fields
<1>5. Merged([draft |-> draft], text) \in Texts
  BY <1>1, <1>2, <1>3 DEF Merged, Fields
<1> QED
  BY <1>4, <1>5

LEMMA PatchKeeps ==
    ASSUME AgentInv, NEW h \in Holders, NEW find \in Bodies, NEW replace \in Bodies,
           BeginPatch(h, find, replace)
    PROVE  AgentInv'
<1> DEFINE text == [article.text EXCEPT !.body = replace]
<1>1. /\ article # NoArticle /\ article = held[h] /\ (Live => Allows(h, "publish"))
      /\ Begin(h, "patch", text, {"body"})
  BY DEF BeginPatch, ReadWhatIsExpected
<1>2. article.text \in Texts
  BY <1>1 DEF AgentInv, AgentTypes, Articles
<1>3. text \in Texts /\ text["title"] = article.text["title"] /\ text["draft"] = article.text["draft"]
  BY <1>2 DEF Texts
<1>4. ~article.text.draft => Allows(h, "publish")
  BY <1>1 DEF Live
<1> HIDE DEF text
<1> QED
  BY <1>1, <1>3, <1>4, BeginKeeps

LEMMA AgentKept == AgentInv /\ [AgentsNext]_agentVars => AgentInv'
<1> SUFFICES ASSUME AgentInv, [AgentsNext]_agentVars PROVE AgentInv'
  OBVIOUS
<1>1. CASE UNCHANGED agentVars
  BY <1>1 DEF agentVars, AgentInv, AgentTypes, CallMade, PatchMade
<1>2. ASSUME NEW h \in Holders, Get(h) PROVE AgentInv'
  <2>1. UNCHANGED <<article, activity, call>> /\ held' \in [Holders -> Articles]
    BY <1>2 DEF Get, AgentInv, AgentTypes
  <2> QED
    BY <2>1 DEF AgentInv, AgentTypes, CallMade, PatchMade
<1>3. ASSUME NEW h \in Holders, Delete(h) PROVE AgentInv'
  <2>1. Write(NoArticle) /\ call' = call /\ held' \in [Holders -> Articles] /\ NoArticle \in Articles
    BY <1>3 DEF Delete, AgentInv, AgentTypes, Articles
  <2> QED
    BY <2>1, OtherWrites
<1>4. ASSUME NEW h \in Holders, NEW text \in Texts, Create(h, text) PROVE AgentInv'
  <2>1. Write(Stamped(text)) /\ call' = call /\ held' = [held EXCEPT ![h] = article']
    BY <1>4 DEF Create
  <2>2. Stamped(text) \in Articles
    BY StampedIsAnArticle DEF AgentInv
  <2>3. held' \in [Holders -> Articles]
    BY <2>1, <2>2 DEF Write, AgentInv, AgentTypes
  <2> QED
    BY <2>1, <2>2, <2>3, OtherWrites
<1>5. ASSUME NEW h \in Holders, NEW text \in Texts, BeginPut(h, text) PROVE AgentInv'
  <2>1. Begin(h, "put", text, Fields)
    BY <1>5 DEF BeginPut
  <2> QED
    BY <2>1, BeginKeeps
<1>6. ASSUME NEW h \in Holders, NEW named, BeginUpdate(h, named),
             \A text \in Texts : Merged(named, text) \in Texts
      PROVE  AgentInv'
  <2>1. article # NoArticle /\ Begin(h, "update", Merged(named, article.text), DOMAIN named)
    BY <1>6 DEF BeginUpdate
  <2>2. article.text \in Texts
    BY <2>1 DEF AgentInv, AgentTypes, Articles
  <2>3. Merged(named, article.text) \in Texts
    BY <1>6, <2>2
  <2> QED
    BY <2>1, <2>3, BeginKeeps
<1>7. ASSUME NEW text \in Texts, AuthorSaves(text) PROVE AgentInv'
  BY <1>7, StampedIsAnArticle, OtherWrites DEF AuthorSaves, AgentInv, AgentTypes
<1>8. CASE AuthorDeletes
  <2>1. NoArticle \in Articles
    BY DEF Articles
  <2> QED
    BY <1>8, <2>1, OtherWrites DEF AuthorDeletes, AgentInv, AgentTypes
<1>9. ASSUME NEW i \in 1..Len(activity), AuthorUndoes(i) PROVE AgentInv'
  <2>1. activity[i] \in [before : Articles, after : Articles]
    BY ElementOfSeq DEF AgentInv, AgentTypes
  <2>2. activity[i].before \in Articles
    BY <2>1
  <2> QED
    BY <1>9, <2>2, OtherWrites DEF AuthorUndoes, AgentInv, AgentTypes
<1>10. ASSUME NEW h \in Holders, NEW title \in Titles, BeginUpdate(h, [title |-> title]) PROVE AgentInv'
  <2>1. \A text \in Texts : Merged([title |-> title], text) \in Texts
    BY MergedIsAText
  <2> QED
    BY <1>6, <1>10, <2>1
<1>11. ASSUME NEW h \in Holders, NEW draft \in BOOLEAN, BeginUpdate(h, [draft |-> draft]) PROVE AgentInv'
  <2>1. ASSUME NEW text \in Texts PROVE Merged([draft |-> draft], text) \in Texts
    <3>1. Titles # {}
      BY DEF Texts
    <3> QED
      BY <3>1, MergedIsAText
  <2> QED
    BY <1>6, <1>11, <2>1
<1> QED
  BY <1>1, <1>2, <1>3, <1>4, <1>5, <1>7, <1>8, <1>9, <1>10, <1>11, ApplyKeeps, PatchKeeps
     DEF AgentsNext

\* When a patch lands, the article keeps its title and whether it is a draft as they are then,
\* and a live one is patched only by a program that may publish.
THEOREM PatchesLeaveTheRest == AgentsSpec => PatchLeavesTheRest
<1> DEFINE Left == \A h \in Holders : Landed(h, "patch") =>
                      /\ Keeps(article, article', call[h].given)
                      /\ Live => Allows(h, "publish")
<1>1. AgentInv /\ [AgentsNext]_agentVars => [Left]_agentVars
  <2> SUFFICES ASSUME AgentInv, AgentsNext, NEW h \in Holders, Landed(h, "patch")
               PROVE  Keeps(article, article', call[h].given) /\ (Live => Allows(h, "publish"))
    OBVIOUS
  <2>1. call[h].tool = "patch" /\ call'[h] = NoCall /\ article' # article
    BY DEF Landed
  <2>2. call[h] # NoCall
    BY <2>1 DEF NoCall
  <2>3. \E x \in Holders : Apply(x)
    BY <2>1, <2>2
       DEF AgentsNext, Get, Delete, Create, BeginPut, BeginUpdate, BeginPatch, Begin, AuthorSaves,
           AuthorDeletes, AuthorUndoes
  <2>4. PICK x \in Holders : Apply(x)
    BY <2>3
  <2>5. x = h
    BY <2>1, <2>2, <2>4 DEF Apply, AgentInv, AgentTypes
  <2>6. /\ article # NoArticle /\ article = call[h].expected
        /\ article' = Stamped(call[h].text)
    BY <2>1, <2>4, <2>5 DEF Apply, Write
  <2>7. /\ call[h].given = {"body"} /\ Keeps(article, call[h], {"body"})
        /\ ~article.text.draft => Allows(h, "publish")
    BY <2>1, <2>6 DEF AgentInv, PatchMade
  <2> QED
    BY <2>6, <2>7 DEF Keeps, Stamped, Live
<1> HIDE DEF Left
<1>2. AgentsSpec => [][Left]_agentVars
  BY <1>1, AgentsInitially, AgentKept, PTL DEF AgentsSpec
<1> QED
  BY <1>2 DEF PatchLeavesTheRest, Left

-----------------------------------------------------------------------------
(* The list of posts.  Every entry was left by the last comparison, or some *)
(* request is going to compare it or to withdraw it: that holds whatever    *)
(* overlaps, and makes a request that is alone find the list in order.      *)

Listing == [at : {"add", "remove", "answer"}, present : SUBSET Slugs, todo : SUBSET Slugs,
            gone : SUBSET Slugs, disturbed : BOOLEAN]

ResourceTypes ==
    /\ onDisk \subseteq Slugs /\ mcpArticleRes \subseteq Slugs
    /\ lister \in [Listers -> Listing \cup {NotListing}]

Accounts(t, slug) ==
    \/ lister[t].at = "add" /\ slug \in lister[t].present
    \/ lister[t].at = "remove" /\ slug \in lister[t].gone

CoveredInv ==
    /\ \A slug \in resources : slug \in mcpArticleRes \/ \E t \in Listers : Accounts(t, slug)
    /\ \A t \in Listers : lister[t].at = "add" => lister[t].todo \subseteq lister[t].present

\* How far a request has come that nothing has overlapped.
InOrder(t) ==
    /\ lister[t].present = onDisk
    /\ lister[t].at = "add" => onDisk \ lister[t].todo \subseteq resources
    /\ lister[t].at = "remove" =>
         onDisk = mcpArticleRes /\ onDisk \subseteq resources /\ lister[t].gone \cap onDisk = {}
    /\ lister[t].at = "answer" => resources = onDisk

AloneInv ==
    \A t \in Listers : lister[t].at # "idle" /\ ~lister[t].disturbed =>
        InOrder(t) /\ \A u \in Listers \ {t} : lister[u].at = "idle"

ResourceInv == ResourceTypes /\ CoveredInv /\ AloneInv

LEMMA ListerShape ==
    ASSUME ResourceTypes, NEW t \in Listers
    PROVE  /\ lister[t].at = "idle" => lister[t] = NotListing
           /\ lister[t].at # "idle" => lister[t] \in Listing
BY DEF ResourceTypes, Listing, NotListing

LEMMA ResourcesInitially == ResourcesInit => ResourceInv
BY DEF ResourcesInit, ResourceInv, ResourceTypes, CoveredInv, AloneInv, NotListing

\* What is marked as overlapped is the same otherwise.
LEMMA DisturbMarks ==
    ASSUME ResourceTypes, NEW ts \in SUBSET Listers, NEW t \in Listers
    PROVE  /\ Disturb(ts)[t] \in Listing \cup {NotListing} /\ DOMAIN Disturb(ts) = Listers
           /\ Disturb(ts)[t].at = lister[t].at
           /\ lister[t].at # "idle" =>
                /\ Disturb(ts)[t].present = lister[t].present /\ Disturb(ts)[t].todo = lister[t].todo
                /\ Disturb(ts)[t].gone = lister[t].gone
                /\ t \in ts => Disturb(ts)[t].disturbed
           /\ t \notin ts => Disturb(ts)[t] = lister[t]
<1>1. CASE lister[t].at = "idle"
  BY <1>1 DEF ResourceTypes, Disturb
<1>2. CASE lister[t].at # "idle"
  <2>1. lister[t] \in Listing
    BY <1>2, ListerShape
  <2> QED
    BY <1>2, <2>1 DEF Disturb, Listing
<1> QED
  BY <1>1, <1>2

LEMMA BeginListKeeps ==
    ASSUME ResourceInv, NEW t \in Listers, NEW ok \in BOOLEAN, BeginList(t, ok)
    PROVE  ResourceInv'
<1> DEFINE others == Listers \ {t}
           first  == [at |-> IF ok THEN "add" ELSE "answer", present |-> onDisk, todo |-> onDisk,
                      gone |-> {}, disturbed |-> ~ok \/ \E u \in Listers : lister[u].at # "idle"]
<1>1. /\ lister[t].at = "idle" /\ lister' = [Disturb(others) EXCEPT ![t] = first]
      /\ UNCHANGED <<onDisk, resources, mcpArticleRes>>
      /\ ResourceTypes /\ onDisk \subseteq Slugs
  BY DEF BeginList, ResourceInv, ResourceTypes
<1>2. /\ first \in Listing /\ first.present = onDisk /\ first.todo = onDisk
      /\ first.at = IF ok THEN "add" ELSE "answer"
      /\ ~first.disturbed => ok /\ \A u \in Listers : lister[u].at = "idle"
  BY <1>1 DEF Listing
<1> HIDE DEF first
<1>3. /\ lister'[t] = first
      /\ \A u \in others : lister'[u] = Disturb(others)[u]
      /\ lister' \in [Listers -> Listing \cup {NotListing}]
  BY <1>1, <1>2, DisturbMarks DEF Disturb
<1>4. ASSUME NEW u \in others
      PROVE  /\ lister'[u].at = lister[u].at
             /\ lister[u].at # "idle" =>
                  /\ lister'[u].present = lister[u].present /\ lister'[u].todo = lister[u].todo
                  /\ lister'[u].gone = lister[u].gone
                  /\ lister'[u].disturbed
  BY <1>1, <1>3, DisturbMarks
<1>5. ResourceTypes'
  BY <1>1, <1>3 DEF ResourceTypes
<1>6. CoveredInv'
  <2>1. ASSUME NEW slug \in resources, slug \notin mcpArticleRes
        PROVE  \E u \in Listers : Accounts(u, slug)'
    <3>1. PICK u \in Listers : Accounts(u, slug)
      BY <2>1 DEF ResourceInv, CoveredInv
    <3>2. u # t
      BY <1>1, <3>1 DEF Accounts
    <3> QED
      BY <1>4, <3>1, <3>2 DEF Accounts
  <2>2. ASSUME NEW u \in Listers, lister'[u].at = "add" PROVE lister'[u].todo \subseteq lister'[u].present
    BY <1>2, <1>3, <1>4, <2>2 DEF ResourceInv, CoveredInv
  <2> QED
    BY <1>1, <2>1, <2>2 DEF CoveredInv
<1>7. AloneInv'
  <2> SUFFICES ASSUME NEW u \in Listers, lister'[u].at # "idle", ~lister'[u].disturbed
               PROVE  InOrder(u)' /\ \A v \in Listers \ {u} : lister'[v].at = "idle"
    BY DEF AloneInv
  <2>1. u = t
    BY <1>4
  <2>2. ok /\ \A v \in Listers : lister[v].at = "idle"
    BY <1>2, <1>3, <2>1
  <2>3. InOrder(u)'
    BY <1>1, <1>2, <1>3, <2>1, <2>2 DEF InOrder
  <2>4. \A v \in Listers \ {u} : lister'[v].at = "idle"
    BY <1>4, <2>1, <2>2
  <2> QED
    BY <2>3, <2>4
<1> QED
  BY <1>5, <1>6, <1>7 DEF ResourceInv

\* A step of one request: the others' locals stay, and the invariant has to be seen to for its
\* own and for what it changes of the list.
LEMMA OneListerMoves ==
    ASSUME ResourceInv, NEW t \in Listers, lister[t].at # "idle",
           NEW next \in Listing \cup {NotListing}, lister' = [lister EXCEPT ![t] = next],
           UNCHANGED onDisk, mcpArticleRes' \subseteq Slugs, CoveredInv',
           lister'[t].at # "idle" /\ ~lister'[t].disturbed => ~lister[t].disturbed /\ InOrder(t)'
    PROVE  ResourceInv'
<1>1. lister'[t] = next /\ \A u \in Listers : u # t => lister'[u] = lister[u]
  BY DEF ResourceInv, ResourceTypes
<1>2. ResourceTypes'
  BY DEF ResourceInv, ResourceTypes
<1>3. ASSUME NEW u \in Listers, u # t PROVE lister[u].at # "idle" => lister[u].disturbed
  BY <1>3 DEF ResourceInv, AloneInv
<1>4. ASSUME NEW u \in Listers, lister'[u].at # "idle", ~lister'[u].disturbed
      PROVE  InOrder(u)' /\ \A v \in Listers \ {u} : lister'[v].at = "idle"
  <2>1. u = t
    BY <1>1, <1>3, <1>4
  <2>2. \A v \in Listers \ {t} : lister[v].at = "idle"
    BY <1>4, <2>1 DEF ResourceInv, AloneInv
  <2>3. \A v \in Listers : v = t => InOrder(v)'
    BY <1>4, <2>1 DEF InOrder
  <2> QED
    BY <1>1, <2>1, <2>2, <2>3
<1> QED
  BY <1>2, <1>4 DEF ResourceInv, AloneInv

LEMMA AddResourceKeeps ==
    ASSUME ResourceInv, NEW t \in Listers, NEW slug \in Slugs, AddResource(t, slug)
    PROVE  ResourceInv'
<1> DEFINE todo == lister[t].todo \ {slug}
           next == [lister[t] EXCEPT !.todo = todo]
<1>1. /\ lister[t].at = "add" /\ slug \in lister[t].todo /\ lister[t] \in Listing
      /\ resources' = resources \cup {slug} /\ UNCHANGED <<onDisk, mcpArticleRes>>
      /\ lister' = [lister EXCEPT ![t] = next]
  BY ListerShape DEF AddResource, ResourceInv, ResourceTypes
<1>2. /\ next \in Listing /\ next.at = "add" /\ next.present = lister[t].present
      /\ next.todo = lister[t].todo \ {slug} /\ next.disturbed = lister[t].disturbed
  BY <1>1 DEF Listing
<1> HIDE DEF next
<1>3. lister'[t] = next /\ \A u \in Listers : u # t => lister'[u] = lister[u]
  BY <1>1 DEF ResourceInv, ResourceTypes
<1>4. slug \in lister[t].present
  BY <1>1 DEF ResourceInv, CoveredInv
<1>5. ASSUME NEW x, NEW u \in Listers, Accounts(u, x) PROVE Accounts(u, x)'
  BY <1>1, <1>2, <1>3, <1>5 DEF Accounts
<1>6. Accounts(t, slug)
  BY <1>1, <1>4 DEF Accounts
<1>7. CoveredInv'
  <2>1. \A x \in resources' : x \in mcpArticleRes \/ \E u \in Listers : Accounts(u, x)'
    BY <1>1, <1>5, <1>6 DEF ResourceInv, CoveredInv
  <2> QED
    BY <1>1, <1>2, <1>3, <2>1 DEF ResourceInv, CoveredInv
<1>8. ASSUME ~next.disturbed
      PROVE  /\ onDisk = lister[t].present
             /\ onDisk \ next.todo \subseteq resources'
  <2>1. InOrder(t)
    BY <1>1, <1>2, <1>8 DEF ResourceInv, AloneInv
  <2> QED
    BY <1>1, <1>2, <2>1 DEF InOrder
<1>9. ~lister'[t].disturbed => ~lister[t].disturbed /\ InOrder(t)'
  BY <1>1, <1>2, <1>3, <1>8 DEF InOrder
<1> QED
  BY <1>1, <1>2, <1>7, <1>9, OneListerMoves DEF ResourceInv, ResourceTypes

LEMMA CompareKeeps ==
    ASSUME ResourceInv, NEW t \in Listers, Compare(t)
    PROVE  ResourceInv'
<1> DEFINE present == lister[t].present
           gone    == mcpArticleRes \ present
           next    == [lister[t] EXCEPT !.at = "remove", !.gone = gone]
<1>1. /\ lister[t].at = "add" /\ lister[t].todo = {} /\ lister[t] \in Listing
      /\ mcpArticleRes' = present /\ mcpArticleRes \subseteq Slugs
      /\ UNCHANGED <<onDisk, resources>>
      /\ lister' = [lister EXCEPT ![t] = next]
  BY ListerShape DEF Compare, Gone, ResourceInv, ResourceTypes
<1>2. /\ next \in Listing /\ next.at = "remove" /\ next.present = present
      /\ next.gone = mcpArticleRes \ present /\ next.disturbed = lister[t].disturbed
      /\ present \subseteq Slugs
  BY <1>1 DEF Listing
<1> HIDE DEF next
<1>3. lister'[t] = next /\ \A u \in Listers : u # t => lister'[u] = lister[u]
  BY <1>1 DEF ResourceInv, ResourceTypes
<1>4. CoveredInv'
  <2>1. ASSUME NEW x \in resources, x \notin present PROVE \E u \in Listers : Accounts(u, x)'
    <3>1. CASE x \in mcpArticleRes
      BY <1>2, <1>3, <2>1, <3>1 DEF Accounts
    <3>2. CASE x \notin mcpArticleRes
      <4>1. PICK u \in Listers : Accounts(u, x)
        BY <2>1, <3>2 DEF ResourceInv, CoveredInv
      <4>2. u # t
        BY <1>1, <2>1, <4>1 DEF Accounts
      <4> QED
        BY <1>3, <4>1, <4>2 DEF Accounts
    <3> QED
      BY <3>1, <3>2
  <2> QED
    BY <1>1, <1>2, <1>3, <2>1 DEF ResourceInv, CoveredInv
<1>5. ASSUME ~next.disturbed
      PROVE  onDisk = present /\ onDisk \subseteq resources
  <2>1. InOrder(t)
    BY <1>1, <1>2, <1>5 DEF ResourceInv, AloneInv
  <2> QED
    BY <1>1, <2>1 DEF InOrder
<1>6. ~lister'[t].disturbed => ~lister[t].disturbed /\ InOrder(t)'
  BY <1>1, <1>2, <1>3, <1>5 DEF InOrder
<1> QED
  BY <1>1, <1>2, <1>4, <1>6, OneListerMoves

LEMMA RemoveResourcesKeeps ==
    ASSUME ResourceInv, NEW t \in Listers, RemoveResources(t)
    PROVE  ResourceInv'
<1> DEFINE next == [lister[t] EXCEPT !.at = "answer"]
<1>1. /\ lister[t].at = "remove" /\ lister[t] \in Listing
      /\ resources' = resources \ lister[t].gone
      /\ UNCHANGED <<onDisk, mcpArticleRes>>
      /\ lister' = [lister EXCEPT ![t] = next]
  BY ListerShape DEF RemoveResources, ResourceInv, ResourceTypes
<1>2. /\ next \in Listing /\ next.at = "answer" /\ next.present = lister[t].present
      /\ next.disturbed = lister[t].disturbed
  BY <1>1 DEF Listing
<1> HIDE DEF next
<1>3. lister'[t] = next /\ \A u \in Listers : u # t => lister'[u] = lister[u]
  BY <1>1 DEF ResourceInv, ResourceTypes
<1>4. CoveredInv'
  <2>1. ASSUME NEW x \in resources', x \notin mcpArticleRes PROVE \E u \in Listers : Accounts(u, x)'
    <3>1. PICK u \in Listers : Accounts(u, x)
      BY <1>1, <2>1 DEF ResourceInv, CoveredInv
    <3>2. u # t
      BY <1>1, <2>1, <3>1 DEF Accounts
    <3> QED
      BY <1>3, <3>1, <3>2 DEF Accounts
  <2> QED
    BY <1>1, <1>2, <1>3, <2>1 DEF ResourceInv, CoveredInv
<1>5. ASSUME ~next.disturbed
      PROVE  onDisk = lister[t].present /\ resources' = onDisk
  <2>1. InOrder(t) /\ \A u \in Listers \ {t} : lister[u].at = "idle"
    BY <1>1, <1>2, <1>5 DEF ResourceInv, AloneInv
  <2>2. \A x \in resources : x \in mcpArticleRes \/ x \in lister[t].gone
    BY <1>1, <2>1 DEF ResourceInv, CoveredInv, Accounts
  <2> QED
    BY <1>1, <2>1, <2>2 DEF InOrder
<1>6. ~lister'[t].disturbed => ~lister[t].disturbed /\ InOrder(t)'
  BY <1>1, <1>2, <1>3, <1>5 DEF InOrder
<1> QED
  BY <1>1, <1>2, <1>4, <1>6, OneListerMoves DEF ResourceInv, ResourceTypes

LEMMA AnswerListKeeps ==
    ASSUME ResourceInv, NEW t \in Listers, AnswerList(t)
    PROVE  ResourceInv'
<1>1. /\ lister[t].at = "answer" /\ lister' = [lister EXCEPT ![t] = NotListing]
      /\ UNCHANGED <<onDisk, resources, mcpArticleRes>>
  BY DEF AnswerList
<1>2. lister'[t] = NotListing /\ \A u \in Listers : u # t => lister'[u] = lister[u]
  BY <1>1 DEF ResourceInv, ResourceTypes
<1>3. NotListing.at = "idle"
  BY DEF NotListing
<1>4. CoveredInv'
  <2>1. ASSUME NEW x, NEW u \in Listers, Accounts(u, x) PROVE Accounts(u, x)'
    BY <1>1, <1>2, <2>1 DEF Accounts
  <2> QED
    BY <1>1, <1>2, <1>3, <2>1 DEF ResourceInv, CoveredInv
<1> QED
  BY <1>1, <1>2, <1>3, <1>4, OneListerMoves DEF ResourceInv, ResourceTypes

LEMMA PostMovesKeeps ==
    ASSUME ResourceInv, NEW slug \in Slugs, PostMoves(slug)
    PROVE  ResourceInv'
<1>1. /\ onDisk' \subseteq Slugs /\ lister' = Disturb(Listers)
      /\ UNCHANGED <<resources, mcpArticleRes>>
      /\ ResourceTypes
  BY DEF PostMoves, ResourceInv, ResourceTypes
<1>2. ASSUME NEW u \in Listers
      PROVE  /\ lister'[u] \in Listing \cup {NotListing}
             /\ lister'[u].at = lister[u].at
             /\ lister[u].at # "idle" =>
                  /\ lister'[u].present = lister[u].present /\ lister'[u].todo = lister[u].todo
                  /\ lister'[u].gone = lister[u].gone
                  /\ lister'[u].disturbed
  BY <1>1, DisturbMarks
<1>3. lister' \in [Listers -> Listing \cup {NotListing}]
  BY <1>1, <1>2 DEF Disturb
<1>4. ASSUME NEW x, NEW u \in Listers, Accounts(u, x) PROVE Accounts(u, x)'
  BY <1>2, <1>4 DEF Accounts
<1>5. CoveredInv'
  BY <1>1, <1>2, <1>4 DEF ResourceInv, CoveredInv
<1>6. ResourceTypes' /\ AloneInv'
  BY <1>1, <1>2, <1>3 DEF ResourceTypes, AloneInv
<1> QED
  BY <1>5, <1>6 DEF ResourceInv

\* A request for the list of posts that nothing overlaps gets the posts there are, whatever
\* overlapped before.
THEOREM ListsHeal == ResourcesSpec => []ListHeals
<1>1. ResourceInv /\ [ResourcesNext]_resourceVars => ResourceInv'
  <2> SUFFICES ASSUME ResourceInv, [ResourcesNext]_resourceVars PROVE ResourceInv'
    OBVIOUS
  <2>1. CASE UNCHANGED resourceVars
    BY <2>1 DEF resourceVars, ResourceInv, ResourceTypes, CoveredInv, Accounts, AloneInv, InOrder
  <2> QED
    BY <2>1, BeginListKeeps, AddResourceKeeps, CompareKeeps, RemoveResourcesKeeps, AnswerListKeeps,
       PostMovesKeeps DEF ResourcesNext
<1>2. ResourceInv => ListHeals
  BY DEF ResourceInv, AloneInv, InOrder, ListHeals
<1> QED
  BY <1>1, <1>2, ResourcesInitially, PTL DEF ResourcesSpec
=============================================================================
