------------------------------- MODULE MCMedia -------------------------------
(***************************************************************************)
(* An instance of Media for TLC: one picture, and a site.yml in which only  *)
(* the favicon changes (module MCSite makes the other changes).             *)
(***************************************************************************)
EXTENDS Media

CONSTANT pic

MCEntries == {"search", "links"}
MCIcons   == {Builtin, pic}

MCLooks == {"plain"}
MCBadLooks == {}

MCHandEdits == {Default, [Default EXCEPT !.icon = pic]}
MCEdits == {}

\* A backup from when the picture was the favicon and no post showed it.
MCBackups == {[posts |-> {}, file |-> [Default EXCEPT !.icon = pic], masters |-> {pic}]}
=============================================================================
