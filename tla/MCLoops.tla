------------------------------- MODULE MCLoops -------------------------------
(* Instances of Loops for TLC: v is public at once, w is scheduled for hour 1, *)
(* bad does not parse.                                                        *)
EXTENDS Loops

CONSTANTS w

MCSlugOf == [x \in Posts |-> x]
MCPublishAt == [c \in Contents |-> IF c = w THEN 1 ELSE 0]
=============================================================================
