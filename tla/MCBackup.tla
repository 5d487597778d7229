------------------------------ MODULE MCBackup ------------------------------
(* Instances of Backup for TLC. *)
EXTENDS Backup, TLC

CONSTANTS pic, other, r1

\* A site with a picture, which may be deleted.
MCInit ==
    /\ Init
    /\ site.images = {pic}
    /\ site.rows = r1

MCSpec == MCInit /\ [][Next]_vars

\* A site whose first picture is still to come.
MCBareInit ==
    /\ Init
    /\ site.images = {}
    /\ site.rows = r1

MCBareSpec == MCBareInit /\ [][Next]_vars

\* Nothing tells one state of content/ from another.
Symmetry == Permutations(Contents)
=============================================================================
