------------------------------- MODULE Content -------------------------------
(***************************************************************************)
(* What the posts directory holds and which part of it is public           *)
(* (internal/build/article.go, the article loop of internal/build/build.go).*)
(*                                                                         *)
(* A post file is named by a member of Posts.  What is in the file is a     *)
(* member of Contents: two files with the same bytes hold the same member,  *)
(* which is what Article.Revision (a hash of the bytes) identifies.  The    *)
(* front matter is kept as far as the engine acts on it: whether it parses, *)
(* whether the post is a draft, and when it is to be published.             *)
(***************************************************************************)
EXTENDS Naturals

CONSTANTS
    Posts,        \* the names a post file can have: YYYY-MM-DD-slug.md
    Slugs,        \* the slugs
    SlugOf,       \* slugFromFilename
    Contents,     \* the byte strings a post file can hold
    Malformed,    \* those whose front matter does not parse
    Drafts,       \* those marked draft: true
    PublishAt,    \* PublishAt[c] is publish_at of c, 0 when the field is absent
    Absent        \* no such file

ASSUME ContentAssumption ==
    /\ SlugOf \in [Posts -> Slugs]
    /\ Malformed \subseteq Contents
    /\ Drafts \subseteq Contents
    /\ PublishAt \in [Contents -> Nat]
    /\ Absent \notin Contents

\* The posts directory: which file holds what.
Snapshots == [Posts -> Contents \cup {Absent}]

\* What is rendered and indexed, by slug.
Sites == [Slugs -> Contents \cup {Absent}]

NoPosts == [p \in Posts |-> Absent]
NoArticles == [x \in Slugs |-> Absent]

\* The file p is one of a pair that shares a slug.
Clashes(s, p) == \E q \in Posts \ {p} : SlugOf[q] = SlugOf[p] /\ s[q] # Absent

\* A post that is public at time t: no draft, and its hour has come.
IsPublic(c, t) == c \in Contents \ Drafts /\ PublishAt[c] <= t

\* Mutant: the test for drafts the wrong way round.
IsScheduled_Mutant(c, t) == c \in Drafts /\ PublishAt[c] > t

\* A post that will become public by itself, later than t.
IsScheduled(c, t) == c \in Contents \ Drafts /\ PublishAt[c] > t

\* Mutant: publish_at is forgotten.
PublicPosts_Mutant(s, t) == {p \in Posts : s[p] \in Contents \ Drafts}

PublicPosts(s, t) == {p \in Posts : IsPublic(s[p], t)}

Published(s, t) ==
    [x \in Slugs |->
        IF \E p \in PublicPosts(s, t) : SlugOf[p] = x
        THEN s[CHOOSE p \in PublicPosts(s, t) : SlugOf[p] = x]
        ELSE Absent]

\* The hours at which the articles of s still have to appear ...
DueTimes(s, t) == {PublishAt[s[p]] : p \in {q \in Posts : IsScheduled(s[q], t)}}

\* ... and the first of them, 0 when there is none (Engine.nextPublish).
IsFirst(d, times) == d \in times /\ \A e \in times : d <= e

NextDue(s, t) ==
    IF \E d \in DueTimes(s, t) : IsFirst(d, DueTimes(s, t))
    THEN CHOOSE d \in DueTimes(s, t) : IsFirst(d, DueTimes(s, t))
    ELSE 0
=============================================================================
