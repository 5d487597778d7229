----------------------------- MODULE BackupProofs -----------------------------
(***************************************************************************)
(* What Backup guarantees for every number of archives, images, operations  *)
(* and crashes: the types, that every archive finds its images in the pool, *)
(* that a listed archive can be downloaded, that a restore brings back what *)
(* its archive holds and can be undone, and that a quiet site is saved.     *)
(***************************************************************************)
EXTENDS Backup, FiniteSetTheorems, TLAPS

Ops ==
    [what : {"none", "create", "restore", "prune"},
     step : CreateSteps \cup RestoreSteps \cup {"idle", "sweep"},
     kind : Kinds \cup {None},
     copy : Sites \cup {None},
     print : Sites \cup {None},
     left : SUBSET Images,
     at : Nat,
     from : Archives \cup {None},
     calm : BOOLEAN,
     newest : BOOLEAN]

\* The variables that no operation keeps its place in.
StateInv ==
    /\ site \in Sites
    /\ now \in 0..MaxTime
    /\ archives \subseteq Archives
    /\ IsFiniteSet(archives)
    /\ pool \subseteq Images
    /\ prunes \in [{"scheduled", "manual"} -> Nat]
    /\ due \in BOOLEAN
    /\ saved \in BOOLEAN
    /\ replaced \in Sites \cup {None}

\* Which steps belong to which operation, and what each has at hand.
OpInv ==
    /\ op \in Ops
    /\ op.at <= now
    /\ op.what = "none" => op = NoOp
    /\ op.what = "create" => /\ op.step \in CreateSteps
                             /\ op.kind \in {"scheduled", "manual"}
    /\ op.what = "restore" => /\ op.step \in CreateSteps \cup RestoreSteps
                              /\ op.kind = "pre-restore"
                              /\ op.from \in Archives
    /\ op.what = "prune" => op.step = "sweep"
    /\ op.step \in {"files", "rows", "tar", "pool"} => op.copy \in Sites
    /\ op.step \in {"compare rows", "rows", "tar", "pool"} => op.print \in Sites

NamesInv == \A a, b \in archives : a.at = b.at /\ a.kind = b.kind => a = b

\* What an archive that is being made names, and has not still to put there, is in the
\* pool; and no sweep runs meanwhile.
PoolInv ==
    op.step \in {"rows", "tar", "pool"} => op.copy.images \subseteq pool \cup op.left

DownloadInv ==
    \/ download = NoDownload
    \/ /\ download \in [archive : Archives, left : SUBSET Images]
       /\ download.left \subseteq download.archive.site.images

IInv == StateInv /\ OpInv /\ NamesInv /\ PoolComplete /\ PoolInv /\ DownloadInv

-----------------------------------------------------------------------------
(* Initially.                                                               *)

\* The invariant holds when the process first starts.
LEMMA Initially == Init => IInv
<1> SUFFICES ASSUME Init PROVE IInv
  OBVIOUS
<1>1. now \in 0..MaxTime
  BY BackupAssumption DEF Init
<1>2. prunes \in [{"scheduled", "manual"} -> Nat]
  BY DEF Init, NoPrunes
<1>3. StateInv
  BY <1>1, <1>2, FS_EmptySet DEF Init, StateInv
<1>4. NoOp \in Ops
  BY DEF NoOp, Ops, Kinds
<1>5. OpInv
  BY <1>1, <1>4 DEF Init, OpInv, NoOp
<1>6. NamesInv /\ PoolComplete /\ PoolInv /\ DownloadInv
  BY DEF Init, NamesInv, PoolComplete, PoolInv, DownloadInv, NoOp
<1> QED
  BY <1>3, <1>5, <1>6 DEF IInv

-----------------------------------------------------------------------------
(* The operation in progress.                                               *)

\* An operation may end anywhere.
LEMMA NoOpFits == now' \in Nat /\ op' = NoOp => OpInv'
<1>1. NoOp \in Ops
  BY DEF NoOp, Ops, Kinds
<1> QED
  BY <1>1 DEF OpInv, NoOp

\* At a step of Create or Restore, that is the operation.
LEMMA Working ==
    ASSUME OpInv, op.step \in CreateSteps \cup RestoreSteps
    PROVE /\ op.what \in {"create", "restore"}
          /\ op.step \in RestoreSteps => op.what = "restore"
<1>1. op.what \in {"none", "create", "restore", "prune"}
  BY DEF OpInv, Ops
<1>2. op.what # "none"
  <2>1. NoOp.step = "idle"
    BY DEF NoOp
  <2> QED
    BY <2>1 DEF OpInv, CreateSteps, RestoreSteps
<1>3. op.what # "prune"
  BY DEF OpInv, CreateSteps, RestoreSteps
<1>4. op.step \in RestoreSteps => op.what # "create"
  BY DEF OpInv, CreateSteps, RestoreSteps
<1> QED
  BY <1>1, <1>2, <1>3, <1>4

\* No archive is dated later than now.
LEMMA NotLater ==
    ASSUME now \in Nat, now' = now, op.at <= now, op'.at = op.at \/ op'.at = now
    PROVE op'.at <= now'
<1>1. CASE op'.at = op.at
  BY <1>1
<1>2. CASE op'.at = now
  BY <1>2
<1> QED
  BY <1>1, <1>2

\* An operation goes on to a step of its own, with what that step needs.
LEMMA GoesOn ==
    ASSUME OpInv,
           op' \in Ops,
           op.step \in CreateSteps \cup RestoreSteps,
           op'.what = op.what, op'.kind = op.kind, op'.from = op.from,
           op'.at = op.at \/ op'.at = now,
           now \in Nat, now' = now,
           op'.step \in CreateSteps \cup RestoreSteps,
           op'.step \in RestoreSteps => op.what = "restore",
           op'.step \in {"files", "rows", "tar", "pool"} => op'.copy \in Sites,
           op'.step \in {"compare rows", "rows", "tar", "pool"} => op'.print \in Sites
    PROVE OpInv'
<1>1. op.what \in {"create", "restore"}
  BY Working
<1>2. op.at <= now
  BY DEF OpInv
<1>3. op'.at <= now'
  BY <1>2, NotLater
<1> QED
  BY <1>1, <1>3 DEF OpInv

\* Every step leaves the operation in progress with what its next step needs.
LEMMA OpStep == IInv /\ [Next]_vars => OpInv'
<1> SUFFICES ASSUME IInv, [Next]_vars PROVE OpInv'
  OBVIOUS
<1> USE DEF IInv
<1>0. now \in Nat
  BY BackupAssumption DEF StateInv
<1>a. op.at \in Nat
  BY DEF OpInv, Ops
<1>b. op.at <= now
  BY DEF OpInv
<1>1. CASE Compare
  <2>1. op.step \in CreateSteps \cup RestoreSteps
    BY <1>1 DEF Compare, At, CreateSteps, RestoreSteps
  <2>2. op' \in Ops
    <3>1. CASE op' = [op EXCEPT !.step = "snapshot", !.at = now]
      BY <1>0, <3>1 DEF OpInv, Ops, CreateSteps
    <3>2. CASE op' = [op EXCEPT !.print = site, !.step = "compare rows"]
      BY <3>2 DEF OpInv, StateInv, Ops, CreateSteps
    <3> QED
      BY <1>1, <3>1, <3>2 DEF Compare, GotoSnapshot, PrintFiles
  <2>3. /\ op'.what = op.what /\ op'.kind = op.kind /\ op'.from = op.from
        /\ op'.at = op.at \/ op'.at = now
        /\ op'.step \in CreateSteps \cup RestoreSteps
        /\ op'.step \in RestoreSteps => op.step \in RestoreSteps
        /\ op'.step \in {"files", "rows", "tar", "pool"} => op'.copy \in Sites
        /\ op'.step \in {"compare rows", "rows", "tar", "pool"} => op'.print \in Sites
    <3>1. CASE op' = [op EXCEPT !.step = "snapshot", !.at = now]
      <4>1. op'.step = "snapshot"
        BY <3>1 DEF OpInv, Ops
      <4> QED
        BY <3>1, <4>1 DEF OpInv, Ops, CreateSteps, RestoreSteps
    <3>2. CASE op' = [op EXCEPT !.print = site, !.step = "compare rows"]
      <4>1. op'.step = "compare rows" /\ op'.print = site
        BY <3>2 DEF OpInv, Ops
      <4> QED
        BY <3>2, <4>1 DEF OpInv, StateInv, Ops, CreateSteps, RestoreSteps
    <3> QED
      BY <1>1, <3>1, <3>2 DEF Compare, GotoSnapshot, PrintFiles
  <2>4. now' = now
    BY <1>1 DEF Compare
  <2> QED
    BY <1>0, <2>1, <2>2, <2>3, <2>4, Working, GoesOn
<1>2. CASE Changed
  <2>1. op.step \in CreateSteps \cup RestoreSteps
    BY <1>2 DEF Changed, At, CreateSteps, RestoreSteps
  <2>2. op' \in Ops
    BY <1>2, <1>0 DEF Changed, At, GotoSnapshot, OpInv, StateInv, Ops,
                CreateSteps, RestoreSteps
  <2>3. /\ op'.what = op.what /\ op'.kind = op.kind /\ op'.from = op.from
        /\ op'.at = op.at \/ op'.at = now
        /\ op'.step \in CreateSteps \cup RestoreSteps
        /\ op'.step \in RestoreSteps => op.step \in RestoreSteps
        /\ op'.step \in {"files", "rows", "tar", "pool"} => op'.copy \in Sites
        /\ op'.step \in {"compare rows", "rows", "tar", "pool"} => op'.print \in Sites
    BY <1>2, <1>0 DEF Changed, At, GotoSnapshot, OpInv, StateInv, Ops,
                CreateSteps, RestoreSteps
  <2>4. now' = now
    BY <1>2 DEF Changed
  <2> QED
    BY <1>0, <2>1, <2>2, <2>3, <2>4, Working, GoesOn
<1>3. CASE CannotTell
  <2>1. op.step \in CreateSteps \cup RestoreSteps
    BY <1>3 DEF CannotTell, At, CreateSteps, RestoreSteps
  <2>2. op' \in Ops
    BY <1>3, <1>0 DEF CannotTell, At, GotoSnapshot, OpInv, StateInv, Ops,
                CreateSteps, RestoreSteps
  <2>3. /\ op'.what = op.what /\ op'.kind = op.kind /\ op'.from = op.from
        /\ op'.at = op.at \/ op'.at = now
        /\ op'.step \in CreateSteps \cup RestoreSteps
        /\ op'.step \in RestoreSteps => op.step \in RestoreSteps
        /\ op'.step \in {"files", "rows", "tar", "pool"} => op'.copy \in Sites
        /\ op'.step \in {"compare rows", "rows", "tar", "pool"} => op'.print \in Sites
    BY <1>3, <1>0 DEF CannotTell, At, GotoSnapshot, OpInv, StateInv, Ops,
                CreateSteps, RestoreSteps
  <2>4. now' = now
    BY <1>3 DEF CannotTell
  <2> QED
    BY <1>0, <2>1, <2>2, <2>3, <2>4, Working, GoesOn
<1>4. CASE Snapshot
  <2>1. op.step \in CreateSteps \cup RestoreSteps
    BY <1>4 DEF Snapshot, At, CreateSteps, RestoreSteps
  <2>2. op' \in Ops
    BY <1>4, <1>0 DEF Snapshot, At, OpInv, StateInv, Ops,
                CreateSteps, RestoreSteps
  <2>3. /\ op'.what = op.what /\ op'.kind = op.kind /\ op'.from = op.from
        /\ op'.at = op.at \/ op'.at = now
        /\ op'.step \in CreateSteps \cup RestoreSteps
        /\ op'.step \in RestoreSteps => op.step \in RestoreSteps
        /\ op'.step \in {"files", "rows", "tar", "pool"} => op'.copy \in Sites
        /\ op'.step \in {"compare rows", "rows", "tar", "pool"} => op'.print \in Sites
    BY <1>4, <1>0 DEF Snapshot, At, OpInv, StateInv, Ops,
                CreateSteps, RestoreSteps
  <2>4. now' = now
    BY <1>4 DEF Snapshot
  <2> QED
    BY <1>0, <2>1, <2>2, <2>3, <2>4, Working, GoesOn
<1>5. CASE ListFiles
  <2>1. op.step \in CreateSteps \cup RestoreSteps
    BY <1>5 DEF ListFiles, At, CreateSteps, RestoreSteps
  <2>2. op' \in Ops
    <3>1. op.copy \in Sites /\ site \in Sites /\ site.images \in SUBSET Images
      BY <1>5 DEF ListFiles, At, OpInv, StateInv, Sites
    <3>2. [op.copy EXCEPT !.images = site.images] \in Sites
      BY <3>1 DEF Sites
    <3>3. op' = [op EXCEPT !.print = site, !.copy = [op.copy EXCEPT !.images = site.images],
                           !.left = site.images, !.step = "rows"]
      BY <1>5 DEF ListFiles, OpInv, Ops
    <3> HIDE DEF Sites
    <3> QED
      BY <3>1, <3>2, <3>3 DEF OpInv, Ops, CreateSteps
  <2>3. /\ op'.what = op.what /\ op'.kind = op.kind /\ op'.from = op.from
        /\ op'.at = op.at \/ op'.at = now
        /\ op'.step \in CreateSteps \cup RestoreSteps
        /\ op'.step \in RestoreSteps => op.step \in RestoreSteps
        /\ op'.step \in {"files", "rows", "tar", "pool"} => op'.copy \in Sites
        /\ op'.step \in {"compare rows", "rows", "tar", "pool"} => op'.print \in Sites
    BY <1>5, <1>0 DEF ListFiles, At, Sites, OpInv, StateInv, Ops,
                CreateSteps, RestoreSteps
  <2>4. now' = now
    BY <1>5 DEF ListFiles
  <2> QED
    BY <1>0, <2>1, <2>2, <2>3, <2>4, Working, GoesOn
<1>6. CASE PrintRows
  <2>1. op.step \in CreateSteps \cup RestoreSteps
    BY <1>6 DEF PrintRows, At, CreateSteps, RestoreSteps
  <2>2. op' \in Ops
    BY <1>6, <1>0 DEF PrintRows, At, WithRows, Sites, OpInv, StateInv, Ops,
                CreateSteps, RestoreSteps
  <2>3. /\ op'.what = op.what /\ op'.kind = op.kind /\ op'.from = op.from
        /\ op'.at = op.at \/ op'.at = now
        /\ op'.step \in CreateSteps \cup RestoreSteps
        /\ op'.step \in RestoreSteps => op.step \in RestoreSteps
        /\ op'.step \in {"files", "rows", "tar", "pool"} => op'.copy \in Sites
        /\ op'.step \in {"compare rows", "rows", "tar", "pool"} => op'.print \in Sites
    BY <1>6, <1>0 DEF PrintRows, At, WithRows, Sites, OpInv, StateInv, Ops,
                CreateSteps, RestoreSteps
  <2>4. now' = now
    BY <1>6 DEF PrintRows
  <2> QED
    BY <1>0, <2>1, <2>2, <2>3, <2>4, Working, GoesOn
<1>7. CASE WriteTar
  <2>1. op.step \in CreateSteps \cup RestoreSteps
    BY <1>7 DEF WriteTar, At, CreateSteps, RestoreSteps
  <2>2. op' \in Ops
    BY <1>7, <1>0 DEF WriteTar, At, Sites, OpInv, StateInv, Ops,
                CreateSteps, RestoreSteps
  <2>3. /\ op'.what = op.what /\ op'.kind = op.kind /\ op'.from = op.from
        /\ op'.at = op.at \/ op'.at = now
        /\ op'.step \in CreateSteps \cup RestoreSteps
        /\ op'.step \in RestoreSteps => op.step \in RestoreSteps
        /\ op'.step \in {"files", "rows", "tar", "pool"} => op'.copy \in Sites
        /\ op'.step \in {"compare rows", "rows", "tar", "pool"} => op'.print \in Sites
    BY <1>7, <1>0 DEF WriteTar, At, Sites, OpInv, StateInv, Ops,
                CreateSteps, RestoreSteps
  <2>4. now' = now
    BY <1>7 DEF WriteTar
  <2> QED
    BY <1>0, <2>1, <2>2, <2>3, <2>4, Working, GoesOn
<1>8. CASE \E i \in Images : PoolImage(i)
  <2>1. op.step \in CreateSteps \cup RestoreSteps
    BY <1>8 DEF PoolImage, At, CreateSteps, RestoreSteps
  <2>2. op' \in Ops
    <3>1. PICK i \in Images : op' = [op EXCEPT !.left = @ \ {i}]
      BY <1>8 DEF PoolImage
    <3>2. op.left \ {i} \in SUBSET Images
      BY DEF OpInv, Ops
    <3> QED
      BY <3>1, <3>2 DEF OpInv, Ops
  <2>3. /\ op'.what = op.what /\ op'.kind = op.kind /\ op'.from = op.from
        /\ op'.at = op.at \/ op'.at = now
        /\ op'.step \in CreateSteps \cup RestoreSteps
        /\ op'.step \in RestoreSteps => op.step \in RestoreSteps
        /\ op'.step \in {"files", "rows", "tar", "pool"} => op'.copy \in Sites
        /\ op'.step \in {"compare rows", "rows", "tar", "pool"} => op'.print \in Sites
    BY <1>8, <1>0 DEF PoolImage, At, OpInv, StateInv, Ops,
                CreateSteps, RestoreSteps
  <2>4. now' = now
    BY <1>8 DEF PoolImage
  <2> QED
    BY <1>0, <2>1, <2>2, <2>3, <2>4, Working, GoesOn
<1>9. CASE Unpack
  <2>1. op.step \in CreateSteps \cup RestoreSteps
    BY <1>9 DEF Unpack, At, CreateSteps, RestoreSteps
  <2>2. op' \in Ops
    BY <1>9, <1>0 DEF Unpack, At, OpInv, StateInv, Ops,
                CreateSteps, RestoreSteps
  <2>3. /\ op'.what = op.what /\ op'.kind = op.kind /\ op'.from = op.from
        /\ op'.at = op.at \/ op'.at = now
        /\ op'.step \in CreateSteps \cup RestoreSteps
        /\ op'.step \in RestoreSteps => op.step \in RestoreSteps
        /\ op'.step \in {"files", "rows", "tar", "pool"} => op'.copy \in Sites
        /\ op'.step \in {"compare rows", "rows", "tar", "pool"} => op'.print \in Sites
    BY <1>9, <1>0 DEF Unpack, At, OpInv, StateInv, Ops,
                CreateSteps, RestoreSteps
  <2>4. now' = now
    BY <1>9 DEF Unpack
  <2> QED
    BY <1>0, <2>1, <2>2, <2>3, <2>4, Working, GoesOn
<1>10. CASE BeginContent
  <2>1. op.step \in CreateSteps \cup RestoreSteps
    BY <1>10 DEF BeginContent, At, CreateSteps, RestoreSteps
  <2>2. op' \in Ops
    BY <1>10, <1>0 DEF BeginContent, At, Goto, OpInv, StateInv, Ops,
                CreateSteps, RestoreSteps
  <2>3. /\ op'.what = op.what /\ op'.kind = op.kind /\ op'.from = op.from
        /\ op'.at = op.at \/ op'.at = now
        /\ op'.step \in CreateSteps \cup RestoreSteps
        /\ op'.step \in RestoreSteps => op.step \in RestoreSteps
        /\ op'.step \in {"files", "rows", "tar", "pool"} => op'.copy \in Sites
        /\ op'.step \in {"compare rows", "rows", "tar", "pool"} => op'.print \in Sites
    BY <1>10, <1>0 DEF BeginContent, At, Goto, OpInv, StateInv, Ops,
                CreateSteps, RestoreSteps
  <2>4. now' = now
    BY <1>10 DEF BeginContent
  <2> QED
    BY <1>0, <2>1, <2>2, <2>3, <2>4, Working, GoesOn
<1>11. CASE SyncContent
  <2>1. op.step \in CreateSteps \cup RestoreSteps
    BY <1>11 DEF SyncContent, At, CreateSteps, RestoreSteps
  <2>2. op' \in Ops
    BY <1>11, <1>0 DEF SyncContent, At, Goto, OpInv, StateInv, Ops,
                CreateSteps, RestoreSteps
  <2>3. /\ op'.what = op.what /\ op'.kind = op.kind /\ op'.from = op.from
        /\ op'.at = op.at \/ op'.at = now
        /\ op'.step \in CreateSteps \cup RestoreSteps
        /\ op'.step \in RestoreSteps => op.step \in RestoreSteps
        /\ op'.step \in {"files", "rows", "tar", "pool"} => op'.copy \in Sites
        /\ op'.step \in {"compare rows", "rows", "tar", "pool"} => op'.print \in Sites
    BY <1>11, <1>0 DEF SyncContent, At, Goto, OpInv, StateInv, Ops,
                CreateSteps, RestoreSteps
  <2>4. now' = now
    BY <1>11 DEF SyncContent
  <2> QED
    BY <1>0, <2>1, <2>2, <2>3, <2>4, Working, GoesOn
<1>12. CASE CopyImages
  <2>1. op.step \in CreateSteps \cup RestoreSteps
    BY <1>12 DEF CopyImages, At, CreateSteps, RestoreSteps
  <2>2. op' \in Ops
    BY <1>12, <1>0 DEF CopyImages, At, Goto, OpInv, StateInv, Ops,
                CreateSteps, RestoreSteps
  <2>3. /\ op'.what = op.what /\ op'.kind = op.kind /\ op'.from = op.from
        /\ op'.at = op.at \/ op'.at = now
        /\ op'.step \in CreateSteps \cup RestoreSteps
        /\ op'.step \in RestoreSteps => op.step \in RestoreSteps
        /\ op'.step \in {"files", "rows", "tar", "pool"} => op'.copy \in Sites
        /\ op'.step \in {"compare rows", "rows", "tar", "pool"} => op'.print \in Sites
    BY <1>12, <1>0 DEF CopyImages, At, Goto, OpInv, StateInv, Ops,
                CreateSteps, RestoreSteps
  <2>4. now' = now
    BY <1>12 DEF CopyImages
  <2> QED
    BY <1>0, <2>1, <2>2, <2>3, <2>4, Working, GoesOn
<1>13. CASE SyncImages
  <2>1. op.step \in CreateSteps \cup RestoreSteps
    BY <1>13 DEF SyncImages, At, CreateSteps, RestoreSteps
  <2>2. op' \in Ops
    BY <1>13, <1>0 DEF SyncImages, At, Goto, OpInv, StateInv, Ops,
                CreateSteps, RestoreSteps
  <2>3. /\ op'.what = op.what /\ op'.kind = op.kind /\ op'.from = op.from
        /\ op'.at = op.at \/ op'.at = now
        /\ op'.step \in CreateSteps \cup RestoreSteps
        /\ op'.step \in RestoreSteps => op.step \in RestoreSteps
        /\ op'.step \in {"files", "rows", "tar", "pool"} => op'.copy \in Sites
        /\ op'.step \in {"compare rows", "rows", "tar", "pool"} => op'.print \in Sites
    BY <1>13, <1>0 DEF SyncImages, At, Goto, OpInv, StateInv, Ops,
                CreateSteps, RestoreSteps
  <2>4. now' = now
    BY <1>13 DEF SyncImages
  <2> QED
    BY <1>0, <2>1, <2>2, <2>3, <2>4, Working, GoesOn
<1>14. CASE ReplaceDatabase
  <2>1. op.step \in CreateSteps \cup RestoreSteps
    BY <1>14 DEF ReplaceDatabase, At, CreateSteps, RestoreSteps
  <2>2. op' \in Ops
    BY <1>14, <1>0 DEF ReplaceDatabase, At, Goto, OpInv, StateInv, Ops,
                CreateSteps, RestoreSteps
  <2>3. /\ op'.what = op.what /\ op'.kind = op.kind /\ op'.from = op.from
        /\ op'.at = op.at \/ op'.at = now
        /\ op'.step \in CreateSteps \cup RestoreSteps
        /\ op'.step \in RestoreSteps => op.step \in RestoreSteps
        /\ op'.step \in {"files", "rows", "tar", "pool"} => op'.copy \in Sites
        /\ op'.step \in {"compare rows", "rows", "tar", "pool"} => op'.print \in Sites
    BY <1>14, <1>0 DEF ReplaceDatabase, At, Goto, OpInv, StateInv, Ops,
                CreateSteps, RestoreSteps
  <2>4. now' = now
    BY <1>14 DEF ReplaceDatabase
  <2> QED
    BY <1>0, <2>1, <2>2, <2>3, <2>4, Working, GoesOn
<1>15. CASE \E s \in Edited : Change(s)
  <2>1. op' \in Ops /\ now' = now
    BY <1>15 DEF Change, OpInv, Ops
  <2>2. /\ op'.what = op.what /\ op'.kind = op.kind /\ op'.from = op.from /\ op'.at = op.at
        /\ op'.step = op.step /\ op'.copy = op.copy /\ op'.print = op.print
    BY <1>15 DEF Change, OpInv, Ops
  <2>3. op = NoOp => op' = NoOp
    BY <1>15 DEF Change
  <2> QED
    BY <2>1, <2>2, <2>3 DEF OpInv
<1>16. CASE Tick
  <2>1. op' = op /\ now' = now + 1
    BY <1>16 DEF Tick
  <2>2. op'.at <= now'
    BY <1>0, <1>a, <1>b, <2>1
  <2> QED
    BY <2>1, <2>2 DEF OpInv
<1>17. CASE StartManual \/ StartScheduled
  <2>1. \E kind \in {"scheduled", "manual"} : op' = Create(kind) /\ now' = now
    BY <1>17 DEF StartManual, StartScheduled, Begin
  <2>2. PICK kind \in {"scheduled", "manual"} : op' = Create(kind)
    BY <2>1
  <2>3. op' \in Ops
    BY <2>2 DEF Create, NoOp, Ops, Kinds, CreateSteps
  <2>4. op'.what = "create" /\ op'.step = "compare" /\ op'.kind = kind /\ op'.at = 0
    BY <2>2 DEF Create, NoOp
  <2>5. 0 <= now'
    BY <1>0, <2>1
  <2> QED
    BY <2>3, <2>4, <2>5 DEF OpInv, CreateSteps
<1>18. CASE Put
  <2>1. \/ op' = NoOp
        \/ /\ op.what # "create"
           /\ \E n \in BOOLEAN : op' = [op EXCEPT !.step = "content", !.newest = n]
    BY <1>18 DEF Put, EndOp
  <2>2. now' = now /\ op.step = "pool"
    BY <1>18 DEF Put, Pooled, At
  <2>3. CASE op' = NoOp
    BY <1>0, <2>2, <2>3, NoOpFits
  <2>4. CASE /\ op.what # "create"
             /\ \E n \in BOOLEAN : op' = [op EXCEPT !.step = "content", !.newest = n]
    <3>1. op.what = "restore" /\ op.step \in CreateSteps
      BY <2>2, <2>4, Working DEF CreateSteps
    <3>2. op' \in Ops
      BY <2>4 DEF OpInv, Ops, RestoreSteps
    <3>3. /\ op'.what = op.what /\ op'.kind = op.kind /\ op'.from = op.from /\ op'.at = op.at
          /\ op'.step = "content"
      BY <2>4 DEF OpInv, Ops
    <3>4. op.at <= now
      BY DEF OpInv
    <3> QED
      BY <2>2, <3>1, <3>2, <3>3, <3>4, <1>0, GoesOn DEF RestoreSteps
  <2> QED
    BY <2>1, <2>3, <2>4
<1>19. CASE StartPrune
  <2>1. op' = [NoOp EXCEPT !.what = "prune", !.step = "sweep"] /\ now' = now
    BY <1>19 DEF StartPrune
  <2>2. op' \in Ops
    BY <2>1 DEF NoOp, Ops, Kinds
  <2>3. op'.what = "prune" /\ op'.step = "sweep" /\ op'.at = 0
    BY <2>1 DEF NoOp
  <2>4. 0 <= now'
    BY <1>0, <2>1
  <2> QED
    BY <2>2, <2>3, <2>4 DEF OpInv
<1>20. CASE \E a \in archives : StartRestore(a)
  <2>1. PICK a \in archives : StartRestore(a)
    BY <1>20
  <2>2. /\ op' = [NoOp EXCEPT !.what = "restore", !.step = "unpack", !.kind = "pre-restore",
                             !.from = a]
        /\ now' = now
    BY <2>1 DEF StartRestore, Begin
  <2>3. a \in Archives
    BY DEF StateInv
  <2>4. op' \in Ops
    BY <2>2, <2>3 DEF NoOp, Ops, Kinds, RestoreSteps
  <2>5. /\ op'.what = "restore" /\ op'.step = "unpack" /\ op'.kind = "pre-restore"
        /\ op'.from = a /\ op'.at = 0
    BY <2>2 DEF NoOp
  <2>6. 0 <= now'
    BY <1>0, <2>2
  <2> QED
    BY <2>3, <2>4, <2>5, <2>6 DEF OpInv, RestoreSteps
<1>21. CASE Unchanged \/ Sweep \/ Restored \/ TearDatabase \/ FailOp \/ Crash
  BY <1>21, <1>0, NoOpFits DEF Unchanged, Sweep, Restored, TearDatabase, FailOp, Crash, EndOp
<1>22. CASE FindDue \/ (\E a \in archives : Delete(a)) \/ DownloadStep \/ UNCHANGED vars
  <2>1. op' = op /\ now' = now
    BY <1>22 DEF FindDue, Delete, DownloadStep, OpenDownload, SendImage,
                 EndDownload, AbortDownload, vars
  <2> QED
    BY <2>1 DEF OpInv
<1> QED
  BY <1>1, <1>2, <1>3, <1>4, <1>5, <1>6, <1>7, <1>8, <1>9, <1>10, <1>11, <1>12, <1>13,
     <1>14, <1>15, <1>16, <1>17, <1>18, <1>19, <1>20, <1>21, <1>22
     DEF Next, CreateStep, RestoreStep

-----------------------------------------------------------------------------
(* The variables.                                                           *)

\* What an edit leaves is a site.
LEMMA EditsAreSites == site \in Sites => Edited \subseteq Sites
<1> SUFFICES ASSUME site \in Sites, NEW s \in Edited PROVE s \in Sites
  OBVIOUS
<1>1. CASE \E c \in Contents : s = [site EXCEPT !.content = c]
  BY <1>1 DEF Sites
<1>2. CASE \E i \in Images : s = [site EXCEPT !.images = @ \cup {i}]
  BY <1>2 DEF Sites
<1>3. CASE \E i \in Images : s = [site EXCEPT !.images = @ \ {i}]
  BY <1>3 DEF Sites
<1>4. CASE \E r \in Rows : s = [site EXCEPT !.rows = r]
  BY <1>4 DEF Sites
<1> QED
  BY <1>1, <1>2, <1>3, <1>4 DEF Edited

\* What Put adds is an archive of what the operation has gathered.
LEMMA PutAdds ==
    ASSUME IInv, Put
    PROVE \E t \in Nat :
            LET a == [at |-> t, kind |-> op.kind, site |-> op.copy, print |-> op.print,
                      calm |-> op.calm]
            IN /\ a \in Archives
               /\ archives' = archives \cup {a}
               /\ \A b \in archives : ~(b.at = t /\ b.kind = op.kind)
               /\ op.what = "create" =>
                      /\ op' = NoOp
                      /\ saved' = (op.calm /\ \A b \in archives : b.at < t)
                      /\ replaced' = replaced
               /\ op.what # "create" =>
                      /\ op' = [op EXCEPT !.step = "content",
                                          !.newest = \A b \in SafetyCopies : b.at < t]
                      /\ saved' = saved
                      /\ replaced' = None
<1> USE DEF IInv
<1>1. op.step = "pool" /\ op.left = {}
  BY DEF Put, Pooled, At
<1>2. op.copy \in Sites /\ op.print \in Sites /\ op.calm \in BOOLEAN
  BY <1>1 DEF OpInv, Ops
<1>3. op.kind \in Kinds
  BY <1>1, Working DEF OpInv, CreateSteps, Kinds
<1>4. op.at \in Nat /\ Cardinality(archives) \in Nat
  BY FS_CardinalityType DEF OpInv, Ops, StateInv
<1>5. PICK t \in op.at..(op.at + Cardinality(archives)) :
          /\ FreeTime(t)
          /\ archives' = archives \cup {[at |-> t, kind |-> op.kind, site |-> op.copy,
                                         print |-> op.print, calm |-> op.calm]}
          /\ op.what = "create" =>
                 /\ op' = NoOp
                 /\ saved' = (op.calm /\ \A b \in archives : b.at < t)
                 /\ replaced' = replaced
          /\ op.what # "create" =>
                 /\ op' = [op EXCEPT !.step = "content",
                                     !.newest = \A b \in SafetyCopies : b.at < t]
                 /\ saved' = saved
                 /\ replaced' = None
  BY DEF Put, EndOp
<1>6. t \in Nat
  BY <1>4
<1>7. \A b \in archives : ~(b.at = t /\ b.kind = op.kind)
  BY <1>5 DEF FreeTime, Taken
<1>8. [at |-> t, kind |-> op.kind, site |-> op.copy, print |-> op.print, calm |-> op.calm]
        \in Archives
  BY <1>2, <1>3, <1>6 DEF Archives
<1> QED
  BY <1>5, <1>6, <1>7, <1>8

\* Every step leaves the variables with their types.
LEMMA StateStep == IInv /\ [Next]_vars => StateInv'
<1> SUFFICES ASSUME IInv, [Next]_vars PROVE StateInv'
  OBVIOUS
<1> USE DEF IInv
<1>1. CASE \E s \in Edited : Change(s)
  BY <1>1, EditsAreSites DEF Change, StateInv, callers
<1>2. CASE Tick
  <2>1. now \in 0..MaxTime /\ now < MaxTime /\ MaxTime \in Nat
    BY <1>2, BackupAssumption DEF Tick, StateInv
  <2> QED
    BY <1>2, <2>1 DEF Tick, StateInv, callers, history
<1>3. CASE Unchanged
  BY <1>3 DEF Unchanged, StateInv, OpInv, Ops
<1>4. CASE \E i \in Images : PoolImage(i)
  BY <1>4 DEF PoolImage, StateInv, callers, history
<1>5. CASE Put
  <2>1. archives' \subseteq Archives /\ IsFiniteSet(archives')
    <3>1. PICK t : LET a == [at |-> t, kind |-> op.kind, site |-> op.copy,
                             print |-> op.print, calm |-> op.calm]
                   IN a \in Archives /\ archives' = archives \cup {a}
      BY <1>5, PutAdds
    <3> QED
      BY <3>1, FS_AddElement DEF StateInv
  <2>2. prunes' \in [{"scheduled", "manual"} -> Nat]
    <3>1. prunes \in [{"scheduled", "manual"} -> Nat]
      BY DEF StateInv
    <3>2. CASE op.what = "create"
      <4>1. op.kind \in {"scheduled", "manual"}
        BY <3>2 DEF OpInv
      <4>2. prunes' = [prunes EXCEPT ![op.kind] = @ + 1]
        BY <1>5, <3>2 DEF Put
      <4> QED
        BY <3>1, <4>1, <4>2
    <3>3. CASE op.what # "create"
      BY <1>5, <3>1, <3>3 DEF Put
    <3> QED
      BY <3>2, <3>3
  <2>3. saved' \in BOOLEAN /\ replaced' \in Sites \cup {None}
    BY <1>5 DEF Put, StateInv, OpInv, Ops
  <2> QED
    BY <1>5, <2>1, <2>2, <2>3 DEF Put, StateInv
<1>6. CASE StartPrune
  <2>1. archives' \subseteq archives
    BY <1>6 DEF StartPrune
  <2>2. archives' \subseteq Archives /\ IsFiniteSet(archives')
    BY <2>1, FS_Subset DEF StateInv
  <2>3. prunes' \in [{"scheduled", "manual"} -> Nat]
    BY <1>6 DEF StartPrune, StateInv
  <2> QED
    BY <1>6, <2>2, <2>3 DEF StartPrune, StateInv, history
<1>7. CASE Sweep
  BY <1>7 DEF Sweep, StateInv, callers, history
<1>8. CASE \E a \in archives : Delete(a)
  <2>1. archives' \subseteq archives
    BY <1>8 DEF Delete
  <2>2. archives' \subseteq Archives /\ IsFiniteSet(archives')
    BY <2>1, FS_Subset DEF StateInv
  <2> QED
    BY <1>8, <2>2 DEF Delete, StateInv, callers
<1>9. CASE BeginContent
  <2>1. site' \in Sites
    BY <1>9 DEF BeginContent, StateInv, Sites
  <2> QED
    BY <1>9, <2>1 DEF BeginContent, StateInv, callers
<1>10. CASE SyncContent \/ CopyImages \/ SyncImages \/ ReplaceDatabase \/ TearDatabase
  <2>1. op.from \in Archives
    BY <1>10, Working DEF SyncContent, CopyImages, SyncImages, ReplaceDatabase, TearDatabase, At,
                          OpInv, RestoreSteps
  <2>2. /\ op.from.site.content \in Contents
        /\ op.from.site.images \subseteq Images
        /\ op.from.site.rows \in Rows
    BY <2>1 DEF Archives, Sites
  <2>3. site' \in Sites
    <3>1. CASE SyncContent
      BY <2>2, <3>1 DEF SyncContent, StateInv, Sites
    <3>2. CASE CopyImages
      BY <2>2, <3>2 DEF CopyImages, StateInv, Sites
    <3>3. CASE SyncImages
      BY <2>2, <3>3 DEF SyncImages, Synced, StateInv, Sites
    <3>4. CASE ReplaceDatabase
      BY <2>2, <3>4 DEF ReplaceDatabase, StateInv, Sites
    <3>5. CASE TearDatabase
      BY <3>5 DEF TearDatabase, StateInv, Sites
    <3> QED
      BY <1>10, <3>1, <3>2, <3>3, <3>4, <3>5
  <2> QED
    BY <1>10, <2>3 DEF SyncContent, CopyImages, SyncImages, ReplaceDatabase, TearDatabase,
                       StateInv, callers, history
<1>11. CASE FindDue \/ StartScheduled
  BY <1>11 DEF FindDue, StartScheduled, StateInv, history
<1>12. CASE Crash
  BY <1>12 DEF Crash, NoPrunes, StateInv, history
<1>13. CASE \/ StartManual \/ Compare \/ Changed \/ CannotTell \/ Snapshot \/ ListFiles
            \/ PrintRows \/ WriteTar \/ Unpack \/ Restored \/ FailOp
            \/ \E a \in archives : StartRestore(a)
  <2>1. UNCHANGED <<site, now, archives, pool, prunes, due, saved, replaced>>
    BY <1>13 DEF StartManual, Compare, Changed, CannotTell, Snapshot, ListFiles, PrintRows,
                 WriteTar, Unpack, Restored, FailOp, StartRestore, callers, history
  <2> QED
    BY <2>1 DEF StateInv
<1>14. CASE DownloadStep \/ UNCHANGED vars
  <2>1. UNCHANGED <<site, now, archives, pool, prunes, due, saved, replaced>>
    BY <1>14 DEF DownloadStep, OpenDownload, SendImage, EndDownload, AbortDownload, vars,
                 callers, history
  <2> QED
    BY <2>1 DEF StateInv
<1> QED
  BY <1>1, <1>2, <1>3, <1>4, <1>5, <1>6, <1>7, <1>8, <1>9, <1>10, <1>11, <1>12, <1>13, <1>14
     DEF Next, CreateStep, RestoreStep

-----------------------------------------------------------------------------
(* Names, the pool, downloads.                                              *)

\* No step gives a name that is taken: only Put adds an archive.
LEMMA NamesStep == IInv /\ [Next]_vars => NamesInv'
<1> SUFFICES ASSUME IInv, [Next]_vars PROVE NamesInv'
  OBVIOUS
<1> USE DEF IInv
<1>1. CASE Put
  <2>1. PICK t \in Nat :
          LET a == [at |-> t, kind |-> op.kind, site |-> op.copy, print |-> op.print,
                    calm |-> op.calm]
          IN archives' = archives \cup {a} /\ \A b \in archives : ~(b.at = t /\ b.kind = op.kind)
    BY <1>1, PutAdds
  <2> QED
    BY <2>1 DEF NamesInv
<1>2. CASE ~Put
  <2>1. archives' \subseteq archives
    BY <1>2 DEF Next, Change, Tick, StartManual, FindDue, StartScheduled, CreateStep, Compare,
       Unchanged, Changed, CannotTell, Snapshot, ListFiles, PrintRows, WriteTar, PoolImage,
       StartPrune, Sweep, Delete, StartRestore, RestoreStep, Unpack, BeginContent, SyncContent,
       CopyImages, SyncImages, ReplaceDatabase, TearDatabase, Restored, FailOp, DownloadStep,
       OpenDownload,
       SendImage, EndDownload, AbortDownload, Crash, vars
  <2> QED
    BY <2>1 DEF NamesInv
<1> QED
  BY <1>1, <1>2

\* Only a sweep takes anything from the pool, and it looks at the archives; only Put
\* adds an archive, and it finds the images that Create has put in the pool.
LEMMA PoolStep == IInv /\ [Next]_vars => PoolComplete' /\ PoolInv'
<1> SUFFICES ASSUME IInv, [Next]_vars PROVE PoolComplete' /\ PoolInv'
  OBVIOUS
<1> USE DEF IInv
<1>1. CASE ListFiles
  <2>1. op.copy \in Sites /\ site.images \subseteq Images
    BY <1>1 DEF ListFiles, At, OpInv, StateInv, Sites
  <2>2. op'.copy.images = site.images /\ op'.left = site.images
    BY <1>1, <2>1 DEF ListFiles, OpInv, Ops, Sites
  <2>3. UNCHANGED <<archives, pool>>
    BY <1>1 DEF ListFiles
  <2> QED
    BY <2>2, <2>3 DEF PoolComplete, PoolInv
<1>2. CASE PrintRows
  <2>1. op.step = "rows" /\ op'.copy = op.copy /\ op'.left = op.left
    BY <1>2 DEF PrintRows, At, OpInv, Ops
  <2>2. UNCHANGED <<archives, pool>>
    BY <1>2 DEF PrintRows
  <2> QED
    BY <2>1, <2>2 DEF PoolComplete, PoolInv
<1>3. CASE WriteTar
  <2>1. op.step = "tar" /\ op.copy \in Sites
    BY <1>3 DEF WriteTar, At, OpInv
  <2>2. op'.copy.images = op.copy.images /\ op'.left = op.left
    BY <1>3, <2>1 DEF WriteTar, OpInv, Ops, Sites
  <2>3. UNCHANGED <<archives, pool>>
    BY <1>3 DEF WriteTar
  <2> QED
    BY <2>1, <2>2, <2>3 DEF PoolComplete, PoolInv
<1>4. CASE \E i \in Images : PoolImage(i)
  <2>1. PICK i \in Images : PoolImage(i)
    BY <1>4
  <2>2. op.step = "pool" /\ op'.copy = op.copy /\ op'.left = op.left \ {i}
    BY <2>1 DEF PoolImage, At, OpInv, Ops
  <2>3. archives' = archives /\ pool' = pool \cup {i}
    BY <2>1 DEF PoolImage
  <2> QED
    BY <2>2, <2>3 DEF PoolComplete, PoolInv
<1>5. CASE Put
  <2>1. op.step = "pool" /\ op.left = {} /\ pool' = pool
    BY <1>5 DEF Put, Pooled, At
  <2>2. op.copy.images \subseteq pool
    BY <2>1 DEF PoolInv
  <2>3. PICK t \in Nat :
          archives' = archives \cup {[at |-> t, kind |-> op.kind, site |-> op.copy,
                                     print |-> op.print, calm |-> op.calm]}
    BY <1>5, PutAdds
  <2>4. PoolComplete'
    BY <2>1, <2>2, <2>3 DEF PoolComplete
  <2>5. op'.step \in {"idle", "content"}
    <3>1. \/ op' = NoOp
          \/ \E n \in BOOLEAN : op' = [op EXCEPT !.step = "content", !.newest = n]
      BY <1>5 DEF Put, EndOp
    <3>2. CASE op' = NoOp
      BY <3>2 DEF NoOp
    <3>3. CASE \E n \in BOOLEAN : op' = [op EXCEPT !.step = "content", !.newest = n]
      BY <3>3 DEF OpInv, Ops
    <3> QED
      BY <3>1, <3>2, <3>3
  <2> QED
    BY <2>4, <2>5 DEF PoolInv
<1>6. CASE StartPrune
  <2>1. archives' \subseteq archives /\ pool' = pool /\ op'.step = "sweep"
    BY <1>6 DEF StartPrune, NoOp
  <2> QED
    BY <2>1 DEF PoolComplete, PoolInv
<1>7. CASE Sweep
  <2>1. archives' = archives /\ Named \cap pool \subseteq pool' /\ op'.step = "idle"
    BY <1>7 DEF Sweep, EndOp, NoOp
  <2>2. \A a \in archives : a.site.images \subseteq Named
    BY DEF Named
  <2> QED
    BY <2>1, <2>2 DEF PoolComplete, PoolInv
<1>8. CASE \/ FindDue \/ Tick \/ (\E a \in archives : Delete(a)) \/ DownloadStep
           \/ UNCHANGED vars
  <2>1. op' = op /\ pool' = pool /\ archives' \subseteq archives
    BY <1>8 DEF FindDue, Tick, Delete, DownloadStep, OpenDownload, SendImage, EndDownload,
                AbortDownload, vars
  <2> QED
    BY <2>1 DEF PoolComplete, PoolInv
<1>9. CASE \E s \in Edited : Change(s)
  <2>1. op'.step = op.step /\ op'.copy = op.copy /\ op'.left = op.left
    BY <1>9 DEF Change, OpInv, Ops
  <2>2. UNCHANGED <<archives, pool>>
    BY <1>9 DEF Change
  <2> QED
    BY <2>1, <2>2 DEF PoolComplete, PoolInv
<1>10. CASE \/ StartManual \/ StartScheduled \/ Compare \/ Unchanged \/ Changed \/ CannotTell
            \/ Snapshot \/ (\E a \in archives : StartRestore(a)) \/ RestoreStep
            \/ FailOp \/ Crash
  <2>1. UNCHANGED <<archives, pool>>
    BY <1>10 DEF StartManual, StartScheduled, Compare, Unchanged, Changed, CannotTell,
       Snapshot, StartRestore, RestoreStep, Unpack, BeginContent, SyncContent, CopyImages,
       SyncImages, ReplaceDatabase, TearDatabase, Restored, FailOp, Crash
  <2>2. op'.step \notin {"rows", "tar", "pool"}
    <3>1. CASE StartManual \/ StartScheduled \/ \E a \in archives : StartRestore(a)
      BY <3>1 DEF StartManual, StartScheduled, StartRestore, Begin, Create, NoOp
    <3>2. CASE Compare
      <4>1. CASE GotoSnapshot
        BY <4>1 DEF GotoSnapshot, OpInv, Ops
      <4>2. CASE PrintFiles("compare rows")
        BY <4>2 DEF PrintFiles, OpInv, Ops
      <4> QED
        BY <3>2, <4>1, <4>2 DEF Compare
    <3>3. CASE Changed \/ CannotTell \/ Snapshot \/ Unpack
      BY <3>3 DEF Changed, CannotTell, Snapshot, Unpack, GotoSnapshot, OpInv, Ops
    <3>4. CASE BeginContent \/ SyncContent \/ CopyImages \/ SyncImages \/ ReplaceDatabase
      <4>1. PICK step \in RestoreSteps : op' = [op EXCEPT !.step = step]
        BY <3>4 DEF BeginContent, SyncContent, CopyImages, SyncImages, ReplaceDatabase, Goto,
                    RestoreSteps
      <4>2. op'.step = step
        BY <4>1 DEF OpInv, Ops
      <4> QED
        BY <4>1, <4>2 DEF RestoreSteps
    <3>5. CASE Unchanged \/ Restored \/ TearDatabase \/ FailOp \/ Crash
      <4>1. op' = NoOp
        BY <3>5 DEF Unchanged, Restored, TearDatabase, FailOp, Crash, EndOp
      <4> QED
        BY <4>1 DEF NoOp
    <3> QED
      BY <1>10, <3>1, <3>2, <3>3, <3>4, <3>5 DEF RestoreStep
  <2> QED
    BY <2>1, <2>2 DEF PoolComplete, PoolInv
<1> QED
  BY <1>1, <1>2, <1>3, <1>4, <1>5, <1>6, <1>7, <1>8, <1>9, <1>10 DEF Next, CreateStep

\* A download has only images of its archive still to send.
LEMMA DownloadKeeps == IInv /\ [Next]_vars => DownloadInv'
<1> SUFFICES ASSUME IInv, [Next]_vars PROVE DownloadInv'
  OBVIOUS
<1> USE DEF IInv
<1>1. CASE \E a \in archives : OpenDownload(a)
  <2>1. PICK a \in archives : OpenDownload(a)
    BY <1>1
  <2>2. a \in Archives /\ a.site.images \subseteq Images
    BY DEF StateInv, Archives, Sites
  <2>3. download' = [archive |-> a, left |-> a.site.images]
    BY <2>1 DEF OpenDownload
  <2> QED
    BY <2>2, <2>3 DEF DownloadInv
<1>2. CASE \E i \in Images : SendImage(i)
  <2>1. PICK i \in Images : SendImage(i)
    BY <1>2
  <2>2. download' = [download EXCEPT !.left = @ \ {i}] /\ i \in download.left
    BY <2>1 DEF SendImage
  <2>3. download # NoDownload
    BY <2>2 DEF NoDownload
  <2> QED
    BY <2>2, <2>3 DEF DownloadInv
<1>3. CASE EndDownload \/ AbortDownload \/ Crash
  BY <1>3 DEF EndDownload, AbortDownload, Crash, DownloadInv
<1>4. CASE download' = download
  BY <1>4 DEF DownloadInv, NoDownload
<1>5. \/ download' = download
      \/ (\E a \in archives : OpenDownload(a)) \/ (\E i \in Images : SendImage(i))
      \/ EndDownload \/ AbortDownload \/ Crash
  BY DEF Next, Change, Tick, StartManual, FindDue, StartScheduled, CreateStep, Compare,
     Unchanged, Changed, CannotTell, Snapshot, ListFiles, PrintRows, WriteTar, PoolImage, Put,
     StartPrune, Sweep, Delete, StartRestore, RestoreStep, Unpack, BeginContent, SyncContent,
     CopyImages, SyncImages, ReplaceDatabase, TearDatabase, Restored, FailOp, DownloadStep,
     callers, vars
<1> QED
  BY <1>1, <1>2, <1>3, <1>4, <1>5

-----------------------------------------------------------------------------
(* What Backup guarantees.                                                  *)

\* The inductive invariant: an operation under way has what its next step needs, and the
\* images of an archive in the making are in the pool or still to be put there.
THEOREM BackupInvariant == Spec => []IInv
<1>1. IInv /\ [Next]_vars => IInv'
  BY StateStep, OpStep, NamesStep, PoolStep, DownloadKeeps DEF IInv
<1> QED
  BY <1>1, Initially, PTL DEF Spec

\* The variables have their types, and no archive is ever written over another
\* (freeName).
THEOREM BackupTypeCorrect == Spec => []BackupTypeOK
<1>1. IInv => BackupTypeOK
  <2> SUFFICES ASSUME IInv PROVE BackupTypeOK
    OBVIOUS
  <2> USE DEF IInv
  <2>1. /\ site \in Sites /\ now \in 0..MaxTime /\ \A a \in archives : a \in Archives
        /\ pool \subseteq Images /\ prunes \in [{"scheduled", "manual"} -> Nat]
        /\ due \in BOOLEAN /\ saved \in BOOLEAN /\ replaced \in Sites \cup {None}
    BY DEF StateInv
  <2>2. \A a, b \in archives : a.at = b.at /\ a.kind = b.kind => a = b
    BY DEF NamesInv
  <2>3. /\ op.step \in CreateSteps \cup RestoreSteps \cup {"idle", "sweep"}
        /\ op.what \in {"none", "create", "restore", "prune"}
        /\ op.left \subseteq Images
        /\ op.at \in Nat
    BY DEF OpInv, Ops
  <2>4. op.at \in 0..now
    <3>1. now \in Nat
      BY BackupAssumption DEF StateInv
    <3>2. op.at <= now
      BY DEF OpInv
    <3> QED
      BY <2>3, <3>1, <3>2
  <2>5. op = NoOp => op.what = "none"
    BY DEF NoOp
  <2>6. (op.what = "none") <=> (op = NoOp)
    BY <2>5 DEF OpInv
  <2>7. download.left \subseteq Images
    BY DEF DownloadInv, NoDownload
  <2> QED
    BY <2>1, <2>2, <2>3, <2>4, <2>6, <2>7 DEF BackupTypeOK
<1> QED
  BY <1>1, BackupInvariant, PTL

\* An archive is never listed while an image it names is missing from the pool: not
\* while it is written, not after deletions, prunes and sweeps, not after a failure or a
\* crash at any step (create, sweepPool).
THEOREM PoolCompleteAlways == Spec => []PoolComplete
<1>1. IInv => PoolComplete
  BY DEF IInv
<1> QED
  BY <1>1, BackupInvariant, PTL

\* A download, which takes no lock, fails over a missing image only when its archive has
\* been deleted since it began (Download, appendPooled).
THEOREM DownloadsSucceed == Spec => ListedCanBeDownloaded
<1>1. IInv /\ AbortDownload => download.archive \notin archives
  <2> SUFFICES ASSUME IInv, AbortDownload, download.archive \in archives PROVE FALSE
    OBVIOUS
  <2> USE DEF IInv
  <2>1. download.left \ pool # {}
    BY DEF AbortDownload
  <2>2. download.left \subseteq download.archive.site.images
    BY <2>1 DEF DownloadInv, NoDownload
  <2>3. download.archive.site.images \subseteq pool
    BY DEF PoolComplete
  <2> QED
    BY <2>1, <2>2, <2>3
<1>2. IInv /\ [Next]_vars => [AbortDownload => download.archive \notin archives]_vars
  BY <1>1
<1> QED
  BY <1>2, BackupInvariant, PTL DEF Spec, ListedCanBeDownloaded

-----------------------------------------------------------------------------
(* What the steps have in common.                                           *)

\* The steps of Create up to the one that names the archive change the operation only.
Gathering ==
    \/ Compare \/ Changed \/ CannotTell \/ Snapshot \/ ListFiles \/ PrintRows \/ WriteTar
    \/ \E i \in Images : PoolImage(i)

\* The steps of Restore that replace a part of the site.
Replacing == BeginContent \/ SyncContent \/ CopyImages \/ SyncImages \/ ReplaceDatabase

\* The operation ends, and nothing is said of a restore.
Ending == Unchanged \/ Restored \/ FailOp \/ Crash \/ Sweep

\* An operation begins.
Beginning == StartManual \/ StartScheduled \/ \E a \in archives : StartRestore(a)

\* Steps beside the operation that leave the site and the archives as they are.
Aside == Tick \/ FindDue \/ DownloadStep \/ UNCHANGED vars

\* These are all the steps there are.
LEMMA AllSteps ==
    ASSUME [Next]_vars
    PROVE \/ Gathering \/ Replacing \/ Ending \/ Beginning \/ Aside \/ Unpack \/ Put
          \/ StartPrune \/ TearDatabase
          \/ \E s \in Edited : Change(s)
          \/ \E a \in archives : Delete(a)
BY DEF Next, CreateStep, RestoreStep, Gathering, Replacing, Ending, Beginning, Aside

\* What Create leaves alone while it gathers what goes into the archive.
LEMMA GatheringKeeps ==
    ASSUME IInv, Gathering
    PROVE /\ UNCHANGED <<site, archives, saved, replaced>>
          /\ op'.what = op.what /\ op'.calm = op.calm /\ op'.from = op.from
          /\ op'.step \in CreateSteps
          /\ op.step \in CreateSteps
<1> USE DEF IInv
<1>1. /\ UNCHANGED <<site, archives, saved, replaced>>
      /\ op.step \in CreateSteps
  BY DEF Gathering, Compare, Changed, CannotTell, Snapshot, ListFiles, PrintRows, WriteTar,
         PoolImage, At, CreateSteps, history
<1>2. CASE Compare \/ Changed \/ CannotTell
  <2>1. \/ op' = [op EXCEPT !.step = "snapshot", !.at = now]
        \/ op' = [op EXCEPT !.print = site, !.step = "compare rows"]
    BY <1>2 DEF Compare, Changed, CannotTell, GotoSnapshot, PrintFiles
  <2> QED
    BY <1>1, <2>1 DEF OpInv, Ops, CreateSteps
<1>3. CASE Snapshot \/ ListFiles \/ PrintRows \/ WriteTar
  BY <1>1, <1>3 DEF Snapshot, ListFiles, PrintRows, WriteTar, OpInv, Ops, CreateSteps
<1>4. CASE \E i \in Images : PoolImage(i)
  BY <1>1, <1>4 DEF PoolImage, OpInv, Ops, CreateSteps
<1> QED
  BY <1>2, <1>3, <1>4 DEF Gathering

\* What Restore leaves alone while it replaces the site.
LEMMA ReplacingKeeps ==
    ASSUME IInv, Replacing
    PROVE /\ archives' = archives
          /\ op'.what = op.what /\ op'.calm = op.calm /\ op'.from = op.from
          /\ op'.step \in {"content half", "images", "images half", "database", "restored"}
<1> USE DEF IInv
<1>1. archives' = archives
  BY DEF Replacing, BeginContent, SyncContent, CopyImages, SyncImages, ReplaceDatabase
<1>2. PICK step \in {"content half", "images", "images half", "database", "restored"} :
          op' = [op EXCEPT !.step = step]
  BY DEF Replacing, BeginContent, SyncContent, CopyImages, SyncImages, ReplaceDatabase, Goto
<1> QED
  BY <1>1, <1>2 DEF OpInv, Ops

\* What remains when an operation ends.
LEMMA EndingKeeps ==
    ASSUME Ending
    PROVE UNCHANGED <<site, archives, replaced>> /\ op' = NoOp
BY DEF Ending, Unchanged, Restored, FailOp, Crash, Sweep, EndOp, history

\* A database of which only a part was copied ends the operation.
LEMMA TearKeeps ==
    ASSUME TearDatabase
    PROVE UNCHANGED <<archives, saved, replaced>> /\ op' = NoOp /\ op.step = "database"
BY DEF TearDatabase, At, EndOp, history

\* What there is when an operation begins.
LEMMA BeginningKeeps ==
    ASSUME Beginning
    PROVE /\ UNCHANGED <<site, archives, saved, replaced>>
          /\ op'.step \in {"compare", "unpack"}
          /\ op'.what = "restore" => op'.step = "unpack"
<1>1. CASE StartManual \/ StartScheduled
  BY <1>1 DEF StartManual, StartScheduled, Begin, Create, NoOp, history
<1>2. CASE \E a \in archives : StartRestore(a)
  BY <1>2 DEF StartRestore, Begin, NoOp, history
<1> QED
  BY <1>1, <1>2 DEF Beginning

\* What no step beside the operation changes.
LEMMA AsideKeeps ==
    ASSUME Aside
    PROVE UNCHANGED <<site, archives, saved, replaced, op>>
BY DEF Aside, Tick, FindDue, DownloadStep, OpenDownload, SendImage, EndDownload, AbortDownload,
       vars, history

\* A restore that has unpacked takes its safety copy next.
LEMMA UnpackKeeps ==
    ASSUME IInv, Unpack
    PROVE /\ UNCHANGED <<site, archives, saved, replaced>>
          /\ op'.step = "snapshot"
          /\ op'.calm = TRUE
<1>1. op \in Ops
  BY DEF IInv, OpInv
<1> QED
  BY <1>1 DEF Unpack, Ops, history

\* A change to the site is noted by the operation under way.
LEMMA ChangeKeeps ==
    ASSUME IInv, NEW s \in Edited, Change(s)
    PROVE /\ UNCHANGED <<archives, replaced>>
          /\ saved' = FALSE
          /\ \/ op' = NoOp
             \/ op'.calm = FALSE /\ op'.step = op.step
<1>1. op \in Ops
  BY DEF IInv, OpInv
<1> QED
  BY <1>1 DEF Change, Ops

-----------------------------------------------------------------------------
(* Archives are of the site as it was.                                       *)

\* While nothing changes, what has been gathered is the site, and so is what its
\* fingerprint was computed from; an archive made in such a time has the fingerprint of
\* what is in it.
CopiesInv ==
    /\ \A a \in archives : a.calm => a.print = a.site
    /\ op.calm /\ op.step \in {"files", "rows", "tar", "pool"} => op.copy = site
    /\ op.calm /\ op.step \in {"compare rows", "rows", "tar", "pool"} => op.print = site

\* A site with a part of its own put into it.
LEMMA SameSite ==
    ASSUME NEW s \in Sites
    PROVE /\ [s EXCEPT !.images = s.images] = s
          /\ [s EXCEPT !.content = s.content] = s
          /\ [s EXCEPT !.rows = s.rows] = s
BY DEF Sites

\* Initially.
LEMMA CopiesInit == Init => CopiesInv
BY DEF Init, CopiesInv, NoOp

\* No step breaks this: a copy is taken of the site as it is, and when the site changes
\* the operation is no longer calm.
LEMMA CopiesStep == IInv /\ CopiesInv /\ [Next]_vars => CopiesInv'
<1> SUFFICES ASSUME IInv, CopiesInv, [Next]_vars PROVE CopiesInv'
  OBVIOUS
<1>0. op \in Ops /\ site \in Sites
  BY DEF IInv, OpInv, StateInv
<1>a. NoOp.step = "idle"
  BY DEF NoOp
<1>1. CASE Gathering
  <2>0. UNCHANGED <<site, archives>> /\ op'.calm = op.calm
    BY <1>1, GatheringKeeps
  <2>1. CASE Compare \/ Changed \/ CannotTell
    <3>1. \/ op' = [op EXCEPT !.step = "snapshot", !.at = now]
          \/ op' = [op EXCEPT !.print = site, !.step = "compare rows"]
      BY <2>1 DEF Compare, Changed, CannotTell, GotoSnapshot, PrintFiles
    <3> QED
      BY <1>0, <2>0, <3>1 DEF CopiesInv, Ops
  <2>2. CASE Snapshot
    BY <1>0, <2>0, <2>2 DEF Snapshot, CopiesInv, Ops
  <2>3. CASE ListFiles
    <3>1. op.step = "files"
      BY <2>3 DEF ListFiles, At
    <3>2. /\ op'.copy = [op.copy EXCEPT !.images = site.images]
          /\ op'.print = site
      BY <1>0, <2>3 DEF ListFiles, Ops
    <3> QED
      BY <1>0, <2>0, <3>1, <3>2, SameSite DEF CopiesInv
  <2>4. CASE PrintRows
    <3>1. op.step = "rows"
      BY <2>4 DEF PrintRows, At
    <3>2. /\ op'.copy = op.copy
          /\ op'.print = [op.print EXCEPT !.rows = site.rows]
      BY <1>0, <2>4 DEF PrintRows, WithRows, Ops
    <3> QED
      BY <1>0, <2>0, <3>1, <3>2, SameSite DEF CopiesInv
  <2>5. CASE WriteTar
    <3>1. op.step = "tar"
      BY <2>5 DEF WriteTar, At
    <3>2. /\ op'.copy = [op.copy EXCEPT !.content = site.content]
          /\ op'.print = op.print
      BY <1>0, <2>5 DEF WriteTar, Ops
    <3> QED
      BY <1>0, <2>0, <3>1, <3>2, SameSite DEF CopiesInv
  <2>6. CASE \E i \in Images : PoolImage(i)
    <3>1. op.step = "pool"
      BY <2>6 DEF PoolImage, At
    <3>2. op'.copy = op.copy /\ op'.print = op.print
      BY <1>0, <2>6 DEF PoolImage, Ops
    <3> QED
      BY <2>0, <3>1, <3>2 DEF CopiesInv
  <2> QED
    BY <1>1, <2>1, <2>2, <2>3, <2>4, <2>5, <2>6 DEF Gathering
<1>2. CASE Put
  <2>1. PICK t \in Nat :
          /\ archives' = archives \cup {[at |-> t, kind |-> op.kind, site |-> op.copy,
                                         print |-> op.print, calm |-> op.calm]}
          /\ \/ op' = NoOp
             \/ op' = [op EXCEPT !.step = "content",
                                 !.newest = \A b \in SafetyCopies : b.at < t]
    BY <1>2, PutAdds
  <2>2. op.step = "pool"
    BY <1>2 DEF Put, Pooled, At
  <2>3. op'.step \in {"idle", "content"}
    <3>1. CASE op' = NoOp
      BY <3>1 DEF NoOp
    <3>2. CASE op' = [op EXCEPT !.step = "content",
                                !.newest = \A b \in SafetyCopies : b.at < t]
      BY <1>0, <3>2 DEF Ops
    <3> QED
      BY <2>1, <3>1, <3>2
  <2>4. op.calm => op.copy = site /\ op.print = site
    BY <2>2 DEF CopiesInv
  <2>5. \A a \in archives' : a.calm => a.print = a.site
    <3> SUFFICES ASSUME NEW a \in archives', a.calm PROVE a.print = a.site
      OBVIOUS
    <3>1. CASE a \in archives
      BY <3>1 DEF CopiesInv
    <3>2. CASE a \notin archives
      <4>1. a = [at |-> t, kind |-> op.kind, site |-> op.copy, print |-> op.print,
                 calm |-> op.calm]
        BY <2>1, <3>2
      <4>2. a.print = op.print /\ a.site = op.copy
        BY <4>1
      <4>3. a.calm = op.calm
        BY <4>1, Zenon
      <4> QED
        BY <2>4, <4>2, <4>3
    <3> QED
      BY <3>1, <3>2
  <2> QED
    BY <2>3, <2>5 DEF CopiesInv
<1>3. CASE Replacing
  BY <1>3, ReplacingKeeps DEF CopiesInv
<1>4. CASE Ending
  BY <1>4, <1>a, EndingKeeps DEF CopiesInv
<1>5. CASE Beginning
  BY <1>5, BeginningKeeps DEF CopiesInv
<1>6. CASE Aside
  BY <1>6, AsideKeeps DEF CopiesInv
<1>7. CASE Unpack
  BY <1>7, UnpackKeeps DEF CopiesInv
<1>8. CASE StartPrune
  BY <1>8 DEF StartPrune, CopiesInv, NoOp
<1>9. CASE \E s \in Edited : Change(s)
  BY <1>9, <1>a, ChangeKeeps DEF CopiesInv
<1>10. CASE \E a \in archives : Delete(a)
  BY <1>10 DEF Delete, CopiesInv
<1>11. CASE TearDatabase
  BY <1>11, <1>a, TearKeeps DEF CopiesInv
<1> QED
  BY <1>1, <1>2, <1>3, <1>4, <1>5, <1>6, <1>7, <1>8, <1>9, <1>10, <1>11, AllSteps

-----------------------------------------------------------------------------
(* Prune keeps the newest.                                                   *)

\* The newest of a set of archives.
Latest(a, set) == a \in set /\ \A b \in set \ {a} : b.at < a.at

\* Of the archives that go, as long as at least one stays, none is the newest
\* (selectForRemoval).
LEMMA LatestStays ==
    ASSUME NEW set \in SUBSET Archives, IsFiniteSet(set),
           NEW limit \in Nat \ {0},
           NEW drop \in Oldest(set, limit),
           NEW a, Latest(a, set)
    PROVE a \notin drop
<1> SUFFICES ASSUME a \in drop PROVE FALSE
  OBVIOUS
<1>1. drop \subseteq set /\ a \in set
  BY DEF Oldest, Latest
<1>2. Cardinality(set \ drop) = limit
  BY DEF Oldest
<1>3. set \ drop # {}
  BY <1>2, FS_EmptySet
<1>4. PICK b : b \in set \ drop
  BY <1>3
<1>5. a.at <= b.at
  BY <1>4 DEF Oldest
<1>6. b.at < a.at
  BY <1>4 DEF Latest
<1>7. a.at \in Nat /\ b.at \in Nat
  BY <1>1, <1>4 DEF Archives
<1> QED
  BY <1>5, <1>6, <1>7

\* Prune deletes archives, and neither the newest ordinary archive nor the newest safety
\* copy.
LEMMA PruneKeepsNewest ==
    ASSUME IInv, StartPrune
    PROVE /\ archives' \subseteq archives
          /\ \A a : Latest(a, Ordinary) => a \in archives' /\ Latest(a, Ordinary)'
          /\ \A a : Latest(a, SafetyCopies) => a \in archives' /\ Latest(a, SafetyCopies)'
<1>0. PICK o \in Oldest(Ordinary, Keep), s \in Oldest(SafetyCopies, Safety) :
          \E gone \in SUBSET (o \cup s) : archives' = archives \ gone
  BY DEF StartPrune, Dropped
<1>1. PICK gone \in SUBSET (o \cup s) : archives' = archives \ gone
  BY <1>0
<1>2. /\ Ordinary \in SUBSET Archives /\ IsFiniteSet(Ordinary)
      /\ SafetyCopies \in SUBSET Archives /\ IsFiniteSet(SafetyCopies)
  BY FS_Subset DEF IInv, StateInv, Ordinary, SafetyCopies
<1>3. Keep \in Nat \ {0} /\ Safety \in Nat \ {0}
  BY BackupAssumption
<1>4. o \subseteq Ordinary /\ s \subseteq SafetyCopies /\ Ordinary \cap SafetyCopies = {}
  BY DEF Oldest, Ordinary, SafetyCopies
<1>5. Ordinary' = Ordinary \ gone /\ SafetyCopies' = SafetyCopies \ gone
  BY <1>1 DEF Ordinary, SafetyCopies
<1>6. Ordinary \subseteq archives /\ SafetyCopies \subseteq archives
  BY DEF Ordinary, SafetyCopies
<1>7. ASSUME NEW a, Latest(a, Ordinary) PROVE a \in archives' /\ Latest(a, Ordinary)'
  <2>1. a \notin o
    BY <1>2, <1>3, <1>7, LatestStays
  <2>2. a \in Ordinary /\ a \notin s
    BY <1>4, <1>7 DEF Latest
  <2> QED
    BY <1>1, <1>5, <1>6, <1>7, <2>1, <2>2 DEF Latest
<1>8. ASSUME NEW a, Latest(a, SafetyCopies) PROVE a \in archives' /\ Latest(a, SafetyCopies)'
  <2>1. a \notin s
    BY <1>2, <1>3, <1>8, LatestStays
  <2>2. a \in SafetyCopies /\ a \notin o
    BY <1>4, <1>8 DEF Latest
  <2> QED
    BY <1>1, <1>5, <1>6, <1>8, <2>1, <2>2 DEF Latest
<1> QED
  BY <1>1, <1>7, <1>8

-----------------------------------------------------------------------------
(* The way back.                                                             *)

\* The safety copy that makes a restore undoable is the newest of them: before it
\* begins to replace the site, and afterwards.
UndoInv ==
    /\ op.step = "content" /\ op.calm /\ op.newest =>
           \E a \in SafetyCopies : Latest(a, SafetyCopies) /\ a.site = site
    /\ replaced # None =>
           \E a \in SafetyCopies : Latest(a, SafetyCopies) /\ a.site = replaced

\* Initially there is nothing to be undone.
LEMMA UndoInit == Init => UndoInv
<1>1. NoOp.step = "idle"
  BY DEF NoOp
<1> QED
  BY <1>1 DEF Init, UndoInv

\* The names of the safety copies only go on when one of another kind is added.
LEMMA PutSafely ==
    ASSUME IInv, CopiesInv, UndoInv, Put
    PROVE UndoInv'
<1>0. op \in Ops /\ op.step = "pool" /\ NoOp.step = "idle"
  BY DEF IInv, OpInv, Put, Pooled, At, NoOp
<1>1. PICK t \in Nat :
        LET a == [at |-> t, kind |-> op.kind, site |-> op.copy, print |-> op.print,
                  calm |-> op.calm]
        IN /\ a \in Archives
           /\ archives' = archives \cup {a}
           /\ op.what = "create" => op' = NoOp /\ replaced' = replaced
           /\ op.what # "create" =>
                  /\ op' = [op EXCEPT !.step = "content",
                                      !.newest = \A b \in SafetyCopies : b.at < t]
                  /\ replaced' = None
  BY PutAdds
<1>2. site' = site
  BY DEF Put
<1>3. CASE op.what = "create"
  <2>1. op.kind # "pre-restore"
    BY <1>3 DEF IInv, OpInv
  <2>2. SafetyCopies' = SafetyCopies
    BY <1>1, <2>1 DEF SafetyCopies
  <2> QED
    BY <1>0, <1>1, <1>3, <2>2 DEF UndoInv, Latest
<1>4. CASE op.what # "create"
  <2>1. op.what = "restore"
    BY <1>0, <1>4, Working DEF IInv, CreateSteps
  <2>2. op.kind = "pre-restore"
    BY <2>1 DEF IInv, OpInv
  <2> DEFINE new == [at |-> t, kind |-> op.kind, site |-> op.copy, print |-> op.print,
                     calm |-> op.calm]
  <2>3. SafetyCopies' = SafetyCopies \cup {new} /\ new.at = t /\ new.site = op.copy
    BY <1>1, <2>2 DEF SafetyCopies
  <2>4. /\ op'.calm = op.calm
        /\ op'.newest = \A b \in SafetyCopies : b.at < t
    BY <1>0, <1>1, <1>4 DEF Ops
  <2>5. op.calm => op.copy = site
    BY <1>0 DEF CopiesInv
  <2>6. ASSUME op'.calm, op'.newest
        PROVE \E a \in SafetyCopies' : Latest(a, SafetyCopies)' /\ a.site = site'
    <3> HIDE DEF new
    <3>1. \A b \in SafetyCopies' \ {new} : b.at < new.at
      BY <2>3, <2>4, <2>6
    <3>2. new \in SafetyCopies' /\ new.site = site'
      BY <1>2, <2>3, <2>4, <2>5, <2>6
    <3> QED
      BY <3>1, <3>2 DEF Latest
  <2> QED
    BY <1>1, <1>4, <2>6 DEF UndoInv
<1> QED
  BY <1>3, <1>4

\* No step breaks this: only Prune and Delete take archives away, and Prune leaves the
\* newest of each kind; only Put adds one.
LEMMA UndoStep == IInv /\ CopiesInv /\ UndoInv /\ [Next]_vars => UndoInv'
<1> SUFFICES ASSUME IInv, CopiesInv, UndoInv, [Next]_vars PROVE UndoInv'
  OBVIOUS
<1>0. NoOp.step = "idle" /\ op \in Ops
  BY DEF NoOp, IInv, OpInv
<1>1. archives' = archives => SafetyCopies' = SafetyCopies
  BY DEF SafetyCopies
<1>2. CASE Gathering
  BY <1>1, <1>2, GatheringKeeps DEF UndoInv, CreateSteps, Latest
<1>3. CASE BeginContent
  <2>1. archives' = archives /\ op'.step = "content half"
    BY <1>0, <1>3 DEF BeginContent, Goto, Ops
  <2>2. op.step = "content" /\ replaced' = IF op.calm /\ op.newest THEN site ELSE None
    BY <1>3 DEF BeginContent, At
  <2> QED
    BY <1>1, <2>1, <2>2 DEF UndoInv, Latest
<1>4. CASE SyncContent \/ CopyImages \/ SyncImages \/ ReplaceDatabase
  <2>1. archives' = archives /\ op'.step # "content"
    BY <1>4, ReplacingKeeps DEF Replacing
  <2>2. replaced' = replaced
    BY <1>4 DEF SyncContent, CopyImages, SyncImages, ReplaceDatabase, history
  <2> QED
    BY <1>1, <2>1, <2>2 DEF UndoInv, Latest
<1>5. CASE Ending
  BY <1>0, <1>1, <1>5, EndingKeeps DEF UndoInv, Latest
<1>6. CASE Beginning
  BY <1>1, <1>6, BeginningKeeps DEF UndoInv, Latest
<1>7. CASE Aside
  BY <1>1, <1>7, AsideKeeps DEF UndoInv, Latest
<1>8. CASE Unpack
  BY <1>1, <1>8, UnpackKeeps DEF UndoInv, Latest
<1>9. CASE Put
  BY <1>9, PutSafely
<1>10. CASE StartPrune
  <2>1. op'.step = "sweep" /\ replaced' = replaced
    BY <1>10 DEF StartPrune, NoOp, history
  <2>2. \A a : Latest(a, SafetyCopies) => Latest(a, SafetyCopies)'
    BY <1>10, PruneKeepsNewest
  <2> QED
    BY <2>1, <2>2 DEF UndoInv, Latest
<1>11. CASE \E s \in Edited : Change(s)
  BY <1>0, <1>1, <1>11, ChangeKeeps DEF UndoInv, Latest
<1>12. CASE \E a \in archives : Delete(a)
  <2>1. PICK a \in archives : Delete(a)
    BY <1>12
  <2>2. op'.step = "idle"
    BY <1>0, <2>1 DEF Delete, Free
  <2>3. CASE a.kind = "pre-restore"
    BY <2>1, <2>2, <2>3 DEF Delete, UndoInv
  <2>4. CASE a.kind # "pre-restore"
    <3>1. SafetyCopies' = SafetyCopies /\ replaced' = replaced
      BY <2>1, <2>4 DEF Delete, SafetyCopies
    <3> QED
      BY <2>2, <3>1 DEF UndoInv, Latest
  <2> QED
    BY <2>3, <2>4
<1>13. CASE TearDatabase
  BY <1>0, <1>1, <1>13, TearKeeps DEF UndoInv, Latest
<1> QED
  BY <1>2, <1>3, <1>4, <1>5, <1>6, <1>7, <1>8, <1>9, <1>10, <1>11, <1>12, <1>13, AllSteps
     DEF Replacing

\* A restore chosen in error can be undone: as long as its safety copy has the newest
\* name of its kind and was taken of a quiet site, no failure, crash or prune takes it
\* away (create, selectForRemoval).
THEOREM RestoresAreUndoable == Spec => []RestoreIsUndoable
<1>1. UndoInv => RestoreIsUndoable
  BY DEF UndoInv, RestoreIsUndoable
<1>2. Init => CopiesInv /\ UndoInv
  BY CopiesInit, UndoInit
<1>3. IInv /\ CopiesInv /\ UndoInv /\ [Next]_vars => (CopiesInv /\ UndoInv)'
  BY CopiesStep, UndoStep
<1> QED
  BY <1>1, <1>2, <1>3, BackupInvariant, PTL DEF Spec

-----------------------------------------------------------------------------
(* What a restore brings back.                                               *)

\* The parts of the site that have been replaced so far, if nobody has changed them
\* since: content/, the images, the rows, in this order.
BackInv ==
    op.calm =>
        /\ op.step \in {"images", "images half", "database", "restored"} =>
               site.content = op.from.site.content
        /\ op.step \in {"database", "restored"} /\ op.from.site.images # {} =>
               site.images = op.from.site.images
        /\ op.step = "restored" => site.rows = op.from.site.rows

\* Initially.
LEMMA BackInit == Init => BackInv
BY DEF Init, BackInv, NoOp

\* Each step that replaces a part leaves the others as they are.
LEMMA ReplacesOnePart ==
    ASSUME IInv, BackInv, Replacing
    PROVE BackInv'
<1>0. /\ op \in Ops /\ site \in Sites
      /\ op'.calm = op.calm /\ op'.from = op.from
  BY ReplacingKeeps DEF IInv, OpInv, StateInv
<1>1. CASE BeginContent
  <2>1. op'.step = "content half"
    BY <1>0, <1>1 DEF BeginContent, Goto, Ops
  <2> QED
    BY <2>1 DEF BackInv
<1>2. CASE SyncContent
  <2>1. op'.step = "images" /\ site'.content = op.from.site.content
    BY <1>0, <1>2 DEF SyncContent, Goto, Ops, Sites
  <2> QED
    BY <1>0, <2>1 DEF BackInv
<1>3. CASE CopyImages
  <2>1. op.step = "images" /\ op'.step = "images half" /\ site'.content = site.content
    BY <1>0, <1>3 DEF CopyImages, At, Goto, Ops, Sites
  <2> QED
    BY <1>0, <2>1 DEF BackInv
<1>4. CASE SyncImages
  <2>1. /\ op.step = "images half" /\ op'.step = "database"
        /\ site'.content = site.content
        /\ site'.images = Synced(op.from.site.images)
    BY <1>0, <1>4 DEF SyncImages, At, Goto, Ops, Sites
  <2> QED
    BY <1>0, <2>1 DEF BackInv, Synced
<1>5. CASE ReplaceDatabase
  <2>1. /\ op.step = "database" /\ op'.step = "restored"
        /\ site'.content = site.content /\ site'.images = site.images
        /\ site'.rows = op.from.site.rows
    BY <1>0, <1>5 DEF ReplaceDatabase, At, Goto, Ops, Sites
  <2> QED
    BY <1>0, <2>1 DEF BackInv
<1> QED
  BY <1>1, <1>2, <1>3, <1>4, <1>5 DEF Replacing

\* No step breaks this; what changes the site otherwise is noted.
LEMMA BackStep == IInv /\ BackInv /\ [Next]_vars => BackInv'
<1> SUFFICES ASSUME IInv, BackInv, [Next]_vars PROVE BackInv'
  OBVIOUS
<1>0. NoOp.step = "idle"
  BY DEF NoOp
<1>1. CASE Gathering
  BY <1>1, GatheringKeeps DEF BackInv, CreateSteps
<1>2. CASE Replacing
  BY <1>2, ReplacesOnePart
<1>3. CASE Ending
  BY <1>0, <1>3, EndingKeeps DEF BackInv
<1>4. CASE Beginning
  BY <1>4, BeginningKeeps DEF BackInv
<1>5. CASE Aside
  BY <1>5, AsideKeeps DEF BackInv
<1>6. CASE Unpack
  BY <1>6, UnpackKeeps DEF BackInv
<1>7. CASE Put
  <2>1. op \in Ops
    BY DEF IInv, OpInv
  <2>2. \/ op' = NoOp
        \/ \E n \in BOOLEAN : op' = [op EXCEPT !.step = "content", !.newest = n]
    BY <1>7 DEF Put, EndOp
  <2>3. op'.step = "idle" \/ op'.step = "content"
    BY <1>0, <2>1, <2>2 DEF Ops
  <2> QED
    BY <2>3 DEF BackInv
<1>8. CASE StartPrune
  BY <1>8 DEF StartPrune, NoOp, BackInv
<1>9. CASE \E s \in Edited : Change(s)
  BY <1>0, <1>9, ChangeKeeps DEF BackInv
<1>10. CASE \E a \in archives : Delete(a)
  BY <1>10 DEF Delete, BackInv
<1>11. CASE TearDatabase
  BY <1>0, <1>11, TearKeeps DEF BackInv
<1> QED
  BY <1>1, <1>2, <1>3, <1>4, <1>5, <1>6, <1>7, <1>8, <1>9, <1>10, <1>11, AllSteps

\* A restore that comes to its end, on a site that nobody changes meanwhile, has brought
\* back the content, the rows and, when the archive has any, the images of its archive
\* (Restore, syncTree, ReplaceWith).
THEOREM RestoresBringBack == Spec => []RestoreBringsBack
<1>1. BackInv => RestoreBringsBack
  BY DEF BackInv, RestoreBringsBack, At
<1> QED
  BY <1>1, BackInit, BackStep, BackupInvariant, PTL DEF Spec

-----------------------------------------------------------------------------
(* What a backup has saved.                                                  *)

\* An archive holds the site, or has its fingerprint though it was taken while the site
\* was changing.
Covers(a) == a.site = site \/ (~a.calm /\ a.print = site)

\* What covers a saved site is the newest ordinary archive or the newest safety copy.
\* While the site is saved nothing replaces it, and a safety copy is a copy of it.
SavedInv ==
    saved =>
        /\ \E a : (Latest(a, Ordinary) \/ Latest(a, SafetyCopies)) /\ Covers(a)
        /\ op.step \notin {"content half", "images", "images half", "database", "restored"}
        /\ op.what = "restore" /\ op.step # "unpack" => op.calm

\* Initially nothing is saved.
LEMMA SavedInit == Init => SavedInv
BY DEF Init, SavedInv

\* The archives and the site as they are, the newest stays the newest.
LEMMA SavedStays ==
    ASSUME UNCHANGED <<site, archives>>
    PROVE \A a : /\ Latest(a, Ordinary)' <=> Latest(a, Ordinary)
                 /\ Latest(a, SafetyCopies)' <=> Latest(a, SafetyCopies)
                 /\ Covers(a)' <=> Covers(a)
BY DEF Latest, Ordinary, SafetyCopies, Covers

\* A backup that was not needed has been found so by the newest archive of all.
LEMMA UnchangedIsSaved ==
    ASSUME IInv, CopiesInv, Unchanged
    PROVE SavedInv'
<1>1. op' = NoOp /\ UNCHANGED <<site, archives>> /\ op.step = "compare rows"
  BY DEF Unchanged, EndOp, At
<1>2. NoOp.step = "idle" /\ NoOp.what = "none"
  BY DEF NoOp
<1>3. PICK a \in archives :
          /\ Newest(a) /\ a.print = WithRows(op.print)
          /\ saved' = (op.calm /\ \A b \in archives \ {a} : b.at < a.at)
  BY DEF Unchanged
<1>4. ASSUME saved' PROVE (Latest(a, Ordinary) \/ Latest(a, SafetyCopies)) /\ Covers(a)
  <2>1. op.calm /\ \A b \in archives \ {a} : b.at < a.at
    BY <1>3, <1>4
  <2>2. a \in Ordinary \/ a \in SafetyCopies
    BY DEF Ordinary, SafetyCopies
  <2>3. Ordinary \subseteq archives /\ SafetyCopies \subseteq archives
    BY DEF Ordinary, SafetyCopies
  <2>4. op.print = site
    BY <1>1, <2>1 DEF CopiesInv
  <2>5. a.print = site
    BY <1>3, <2>4, SameSite DEF WithRows, IInv, StateInv
  <2>6. Covers(a)
    BY <2>5 DEF CopiesInv, Covers
  <2> QED
    BY <2>1, <2>2, <2>3, <2>6 DEF Latest
<1> QED
  BY <1>1, <1>2, <1>4, SavedStays DEF SavedInv

\* A new archive covers the site, or leaves what does so the newest of its kind.
LEMMA PutIsSaved ==
    ASSUME IInv, CopiesInv, SavedInv, Put
    PROVE SavedInv'
<1>0. op \in Ops /\ op.step = "pool" /\ NoOp.step = "idle" /\ NoOp.what = "none"
  BY DEF IInv, OpInv, Put, Pooled, At, NoOp
<1> DEFINE new(t) == [at |-> t, kind |-> op.kind, site |-> op.copy, print |-> op.print,
                      calm |-> op.calm]
<1>1. PICK t \in Nat :
        /\ new(t) \in Archives
        /\ archives' = archives \cup {new(t)}
        /\ \A b \in archives : ~(b.at = t /\ b.kind = op.kind)
        /\ op.what = "create" =>
               /\ op' = NoOp
               /\ saved' = (op.calm /\ \A b \in archives : b.at < t)
        /\ op.what # "create" =>
               /\ op' = [op EXCEPT !.step = "content",
                                   !.newest = \A b \in SafetyCopies : b.at < t]
               /\ saved' = saved
  BY PutAdds
<1>2. site' = site
  BY DEF Put
<1>3. PICK n : n = new(t)
  OBVIOUS
<1>4. n.at = t /\ n.kind = op.kind /\ n.site = op.copy
  BY <1>3
<1>5. archives' = archives \cup {n}
  BY <1>1, <1>3
<1>6. op.calm => op.copy = site
  BY <1>0 DEF CopiesInv
<1> HIDE DEF new
<1>7. CASE op.what = "create"
  <2>1. ASSUME saved' PROVE Latest(n, Ordinary)' /\ Covers(n)'
    <3>1. op.calm /\ \A b \in archives : b.at < t
      BY <1>1, <1>7, <2>1
    <3>2. op.kind # "pre-restore"
      BY <1>7 DEF IInv, OpInv
    <3>3. Ordinary' = Ordinary \cup {n} /\ Ordinary \subseteq archives
      BY <1>4, <1>5, <3>2 DEF Ordinary
    <3>4. Covers(n)'
      BY <1>2, <1>4, <1>6, <3>1 DEF Covers
    <3> QED
      BY <1>4, <3>1, <3>3, <3>4 DEF Latest
  <2> QED
    BY <1>0, <1>1, <1>7, <2>1 DEF SavedInv
<1>8. CASE op.what # "create"
  <2>1. op.what = "restore"
    BY <1>0, <1>8, Working DEF IInv, CreateSteps
  <2>2. op.kind = "pre-restore"
    BY <2>1 DEF IInv, OpInv
  <2>3. Ordinary' = Ordinary /\ SafetyCopies' = SafetyCopies \cup {n}
    BY <1>4, <1>5, <2>2 DEF Ordinary, SafetyCopies
  <2>4. op'.step = "content" /\ op'.calm = op.calm
    BY <1>0, <1>1, <1>8 DEF Ops
  <2>5. ASSUME saved'
        PROVE op.calm /\ \E a : (Latest(a, Ordinary) \/ Latest(a, SafetyCopies))' /\ Covers(a)'
    <3>1. saved /\ op.calm
      BY <1>0, <1>1, <1>8, <2>1, <2>5 DEF SavedInv
    <3>2. PICK a : (Latest(a, Ordinary) \/ Latest(a, SafetyCopies)) /\ Covers(a)
      BY <3>1 DEF SavedInv
    <3>3. Covers(a)' /\ Covers(n)'
      BY <1>2, <1>4, <1>6, <3>1, <3>2 DEF Covers
    <3>4. CASE Latest(a, Ordinary)
      BY <2>3, <3>1, <3>3, <3>4 DEF Latest
    <3>5. CASE Latest(a, SafetyCopies)
      <4>1. a \in SafetyCopies /\ SafetyCopies \subseteq archives
        BY <3>5 DEF Latest, SafetyCopies
      <4>2. a.at # n.at
        BY <1>1, <1>4, <2>2, <4>1 DEF SafetyCopies
      <4>3. \A b \in SafetyCopies \cup {n} : b.at \in Nat
        BY <1>1, <1>4, <4>1 DEF IInv, StateInv, Archives
      <4>4. CASE n.at < a.at
        <5>1. Latest(a, SafetyCopies)'
          BY <2>3, <3>5, <4>4 DEF Latest
        <5> QED
          BY <3>1, <3>3, <5>1
      <4>5. CASE a.at < n.at
        <5>1. \A b \in SafetyCopies : b.at < n.at
          BY <3>5, <4>1, <4>3, <4>5 DEF Latest
        <5>2. Latest(n, SafetyCopies)'
          BY <2>3, <5>1 DEF Latest
        <5> QED
          BY <3>1, <3>3, <5>2
      <4> QED
        BY <4>1, <4>2, <4>3, <4>4, <4>5
    <3> QED
      BY <3>2, <3>4, <3>5
  <2> QED
    BY <2>4, <2>5 DEF SavedInv
<1> QED
  BY <1>7, <1>8

\* No step breaks this: what changes the site, or deletes an archive by hand, is noted,
\* and Prune leaves the newest of each kind.
LEMMA SavedStep == IInv /\ CopiesInv /\ SavedInv /\ [Next]_vars => SavedInv'
<1> SUFFICES ASSUME IInv, CopiesInv, SavedInv, [Next]_vars PROVE SavedInv'
  OBVIOUS
<1>0. NoOp.step = "idle" /\ NoOp.what = "none" /\ op \in Ops
  BY DEF NoOp, IInv, OpInv
<1>1. CASE Gathering
  <2>1. op.step \notin RestoreSteps
    BY <1>1, GatheringKeeps DEF CreateSteps, RestoreSteps
  <2> QED
    BY <1>1, <2>1, GatheringKeeps, SavedStays DEF SavedInv, CreateSteps, RestoreSteps
<1>2. CASE BeginContent
  BY <1>2 DEF BeginContent, SavedInv
<1>3. CASE SyncContent \/ CopyImages \/ SyncImages \/ ReplaceDatabase
  <2>1. op.step \in {"content half", "images", "images half", "database"} /\ saved' = saved
    BY <1>3 DEF SyncContent, CopyImages, SyncImages, ReplaceDatabase, At, history
  <2> QED
    BY <2>1 DEF SavedInv
<1>4. CASE Unchanged
  BY <1>4, UnchangedIsSaved
<1>5. CASE Restored \/ FailOp \/ Crash \/ Sweep
  <2>1. saved' = saved
    BY <1>5 DEF Restored, FailOp, Crash, Sweep, history
  <2> QED
    BY <1>0, <1>5, <2>1, EndingKeeps, SavedStays DEF Ending, SavedInv
<1>6. CASE Beginning
  BY <1>6, BeginningKeeps, SavedStays DEF SavedInv
<1>7. CASE Aside
  BY <1>7, AsideKeeps, SavedStays DEF SavedInv
<1>8. CASE Unpack
  BY <1>8, UnpackKeeps, SavedStays DEF SavedInv
<1>9. CASE Put
  BY <1>9, PutIsSaved
<1>10. CASE StartPrune
  <2>1. op'.step = "sweep" /\ op'.what = "prune" /\ site' = site /\ saved' = saved
    BY <1>10 DEF StartPrune, NoOp, history
  <2>2. \A a : /\ Latest(a, Ordinary) => Latest(a, Ordinary)'
               /\ Latest(a, SafetyCopies) => Latest(a, SafetyCopies)'
    BY <1>10, PruneKeepsNewest
  <2>3. \A a : Covers(a)' <=> Covers(a)
    BY <2>1 DEF Covers
  <2> QED
    BY <2>1, <2>2, <2>3 DEF SavedInv
<1>11. CASE (\E s \in Edited : Change(s)) \/ \E a \in archives : Delete(a)
  BY <1>11 DEF Change, Delete, SavedInv
<1>12. CASE TearDatabase
  BY <1>12, TearKeeps DEF SavedInv
<1> QED
  BY <1>1, <1>2, <1>3, <1>4, <1>5, <1>6, <1>7, <1>8, <1>9, <1>10, <1>11, <1>12, AllSteps
     DEF Replacing, Ending

\* After a backup, or the answer that none was needed, of a site that has not changed
\* since, there is an archive of it, whatever is pruned, fails or crashes; or one with its
\* fingerprint that was taken while the site was changing (create, unchanged,
\* selectForRemoval).
THEOREM QuietSitesAreSaved == Spec => []QuietIsSaved
<1>1. SavedInv => QuietIsSaved
  BY DEF SavedInv, QuietIsSaved, Latest, Ordinary, SafetyCopies, Covers
<1>2. Init => CopiesInv /\ SavedInv
  BY CopiesInit, SavedInit
<1>3. IInv /\ CopiesInv /\ SavedInv /\ [Next]_vars => (CopiesInv /\ SavedInv)'
  BY CopiesStep, SavedStep
<1> QED
  BY <1>1, <1>2, <1>3, BackupInvariant, PTL DEF Spec
=============================================================================
