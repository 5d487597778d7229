------------------------------- MODULE MCSite -------------------------------
(***************************************************************************)
(* An instance of SiteConfig for TLC: two handlers with changes of several  *)
(* kinds, and somebody who writes a site.yml past them, or a broken one.    *)
(***************************************************************************)
EXTENDS SiteConfig

Ask(op, x, i) == [op |-> op, x |-> x, i |-> i, list |-> <<>>]

MCLooks == {"plain", "dark", "invalid"}
MCBadLooks == {"invalid"}

MCEntries == {"search", "links", "blog"}
MCIcons   == {Builtin}

\* The editor, and the backup, bring back the site.yml of a new site.
MCHandEdits == {Default}

MCEdits ==
    {Ask("navRemove", "", 1), Ask("feedAdd", "blog", 0), Ask("feedToggle", "", 1),
     [Ask("replace", "nav", 0) EXCEPT !.list = <<"links">>], Ask("look", "invalid", 0)}
=============================================================================
