------------------------------ MODULE MCEngine ------------------------------
(***************************************************************************)
(* Instances of Engine for TLC: two slugs; v is public at once, w is   *)
(* scheduled for hour 1, d is a draft, bad does not parse.                  *)
(***************************************************************************)
EXTENDS Engine, TLC

CONSTANTS v, w, d, bad

MCPublishAt == [c \in Contents |-> IF c = w THEN 1 ELSE 0]

\* Two dated names for the slug a, one for b.
CONSTANTS a, b, a1, a2, b1
MCSlugOf == [x \in Posts |-> IF x = b1 THEN b ELSE a]

\* An older version left the page of an article in public/ itself.
MCLegacy == [x \in Slugs |-> IF x = a THEN v ELSE Absent]
MCNoLegacy == NoArticles

\* The names of generations are interchangeable.
GenNames == Permutations(Gens)
=============================================================================
