------------------------------ MODULE MCArticles ------------------------------
(***************************************************************************)
(* Instances of Articles for TLC: one slug x, two dates; the front matter   *)
(* of v and d says the first date, that of w the second; d is a draft.      *)
(***************************************************************************)
EXTENDS Articles, TLC

CONSTANTS x, d1, d2, w

MCPosts == Slugs \X Dates
MCSlugOf == [p \in MCPosts |-> p[1]]
MCDateOf == [c \in Contents |-> IF c = w THEN d2 ELSE d1]
MCPublishAt == [c \in Contents |-> 0]

Symmetry == Permutations(Handlers)
=============================================================================
