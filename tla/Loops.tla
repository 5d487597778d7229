-------------------------------- MODULE Loops --------------------------------
(***************************************************************************)
(* The background loops of internal/main.go that keep the public site in    *)
(* step with the posts directory: the file watcher (internal/watcher), the  *)
(* debouncing watchLoop with its rule for skipping rebuilds, and the        *)
(* scheduleLoop that publishes articles when their hour comes.              *)
(*                                                                         *)
(* Rebuilds are those of SiteBuild.  Files are changed by anybody at any    *)
(* time; other goroutines (handlers, the feed poller, the image backfill)   *)
(* rebuild whenever they like.                                              *)
(***************************************************************************)
EXTENDS SiteBuild, FiniteSets

CONSTANTS
    Watch,        \* the goroutine of watchLoop
    Sched,        \* the goroutine of scheduleLoop
    MaxEdits,     \* bound: changes to post files
    MaxCrashes    \* bound: crashes

ASSUME LoopsAssumption ==
    /\ {Watch, Sched} \subseteq Threads
    /\ Cardinality({Main, Watch, Sched}) = 3
    /\ MaxEdits \in Nat
    /\ MaxCrashes \in Nat

VARIABLES
    watching,     \* watcher.Watch has registered the directories
    queue,        \* events on their way from the kernel to watchLoop
    pending,      \* watchLoop's local of that name: the debounce timer is armed
    beganSince,   \* BuildStartedAt().After(lastEvent)
    watchPC,      \* watchLoop is in its select, or inside engine.Rebuild
    schedPC,      \* scheduleLoop waits for a tick, or is inside engine.Rebuild
    missed,       \* history: a change nobody watched, and no rebuild since
    edits,        \* changes so far
    crashes       \* crashes so far

loopVars == <<watching, queue, pending, beganSince, watchPC, schedPC, missed>>
vars == <<sbVars, loopVars, edits, crashes>>

LoopsInit ==
    /\ Init
    /\ watching = FALSE
    /\ queue = 0
    /\ pending = FALSE
    /\ beganSince = FALSE
    /\ watchPC = "select"
    /\ schedPC = "tick"
    /\ missed = FALSE
    /\ edits = 0
    /\ crashes = 0

-----------------------------------------------------------------------------

\* A post file changes.  A registered watcher reports it; its goroutine blocks on a
\* full channel rather than dropping the event.
Change(p, c) ==
    /\ edits < MaxEdits
    /\ edits' = edits + 1
    /\ Edit(p, c)
    /\ queue' = IF watching THEN queue + 1 ELSE queue
    /\ missed' = (missed \/ ~watching)
    /\ UNCHANGED <<watching, pending, beganSince, watchPC, schedPC, crashes>>

TimePasses == Tick /\ UNCHANGED <<loopVars, edits, crashes>>

\* main registers the watcher some time after its own rebuild.
StartWatch ==
    /\ site # NoSite
    /\ ~watching
    /\ watching' = TRUE
    /\ UNCHANGED <<sbVars, queue, pending, beganSince, watchPC, schedPC, missed, edits,
                   crashes>>

\* Mutant: the time of the last event is not brought forward.
Receive_Mutant ==
    /\ watchPC = "select"
    /\ queue > 0
    /\ queue' = queue - 1
    /\ pending' = TRUE
    /\ UNCHANGED <<sbVars, watching, beganSince, watchPC, schedPC, missed, edits, crashes>>

\* watchLoop takes an event: the debounce window starts again.
Receive ==
    /\ watchPC = "select"
    /\ queue > 0
    /\ queue' = queue - 1
    /\ pending' = TRUE
    /\ beganSince' = FALSE
    /\ UNCHANGED <<sbVars, watching, watchPC, schedPC, missed, edits, crashes>>

TimerFires ==
    /\ watchPC = "select"
    /\ pending
    /\ pending' = FALSE

\* The timer fires and no rebuild has begun since the last event: rebuild.
Fire ==
    /\ TimerFires
    /\ ~beganSince
    /\ watchPC' = "rebuild"
    /\ UNCHANGED <<sbVars, watching, queue, beganSince, schedPC, missed, edits, crashes>>

\* The timer fires and one has: it has already read what the event was about.
Skip ==
    /\ TimerFires
    /\ beganSince
    /\ UNCHANGED <<sbVars, watching, queue, beganSince, watchPC, schedPC, missed, edits,
                   crashes>>

\* A tick of scheduleLoop finds the next publication due.
ScheduleDue ==
    /\ site # NoSite
    /\ schedPC = "tick"
    /\ nextPublish # 0 /\ now >= nextPublish
    /\ schedPC' = "rebuild"
    /\ UNCHANGED <<sbVars, watching, queue, pending, beganSince, watchPC, missed, edits,
                   crashes>>

\* The two loops rebuild once they have decided to, main at startup only, all other
\* goroutines at any time.
Decided(t) ==
    /\ t = Watch => watchPC = "rebuild"
    /\ t = Sched => schedPC = "rebuild"
    /\ t = Main => site = NoSite

\* A goroutine gets the engine's mutex.
StartRebuild(t) ==
    /\ Begin(t)
    /\ Decided(t)
    /\ beganSince' = TRUE
    /\ missed' = FALSE
    /\ UNCHANGED <<watching, queue, pending, watchPC, schedPC, edits, crashes>>

Working ==
    /\ List \/ (\E p \in Posts : Read(p)) \/ Choose
    /\ UNCHANGED <<loopVars, edits, crashes>>

\* Rebuild returns to its caller.
EndRebuild ==
    /\ Publish \/ Fail
    /\ watchPC' = IF builder = Watch THEN "select" ELSE watchPC
    /\ schedPC' = IF builder = Sched THEN "tick" ELSE schedPC
    /\ UNCHANGED <<watching, queue, pending, beganSince, missed, edits, crashes>>

\* The process dies with its watcher, its queue and its loops.
Die ==
    /\ crashes < MaxCrashes
    /\ crashes' = crashes + 1
    /\ Crash
    /\ watching' = FALSE
    /\ queue' = 0
    /\ pending' = FALSE
    /\ beganSince' = FALSE
    /\ watchPC' = "select"
    /\ schedPC' = "tick"
    /\ missed' = (missed \/ builder # NoThread \/ queue > 0 \/ pending \/ watchPC = "rebuild")
    /\ UNCHANGED edits

LoopsNext ==
    \/ \E p \in Posts, c \in Contents \cup {Absent} : Change(p, c)
    \/ TimePasses
    \/ StartWatch
    \/ Receive
    \/ Fire
    \/ Skip
    \/ ScheduleDue
    \/ \E t \in Threads : StartRebuild(t)
    \/ Working
    \/ EndRebuild
    \/ Die

\* The clock runs, a rebuild that holds the mutex comes to an end, a dead process is
\* started again, and the loops run.  sync.Mutex hands itself over in order of arrival
\* once a goroutine has waited a millisecond, so a waiting loop gets it in spite of
\* others that rebuild all the time: strong fairness.
Fairness ==
    /\ WF_vars(TimePasses)
    /\ WF_vars(Working)
    /\ WF_vars(EndRebuild)
    /\ WF_vars(StartRebuild(Main))
    /\ WF_vars(StartWatch)
    /\ WF_vars(Receive)
    /\ WF_vars(Fire)
    /\ WF_vars(Skip)
    /\ WF_vars(ScheduleDue)
    /\ SF_vars(StartRebuild(Watch))
    /\ SF_vars(StartRebuild(Sched))

LoopsSpec == LoopsInit /\ [][LoopsNext]_vars /\ Fairness

-----------------------------------------------------------------------------
(* Properties.                                                              *)

LoopsTypeOK ==
    /\ source \in Snapshots
    /\ site \in Sites \cup {NoSite}
    /\ queue \in 0..MaxEdits
    /\ watching \in BOOLEAN /\ pending \in BOOLEAN /\ beganSince \in BOOLEAN
    /\ watchPC \in {"select", "rebuild"}
    /\ schedPC \in {"tick", "rebuild"}
    /\ missed \in BOOLEAN
    /\ builder = Watch => watchPC = "rebuild"
    /\ builder = Sched => schedPC = "rebuild"

\* The site is the published part of what is on disk now.
Current == site # NoSite /\ site = Published(source, now)

\* main gives up when a post does not parse, every time it is started.
CannotStart == site = NoSite /\ \E p \in Posts : source[p] \in Malformed

\* Once files stop changing, the site catches up with them and with the clock, unless
\* the last rebuild failed (which /readyz reports), the change fell into the time
\* between main's rebuild and the registration of the watcher, or the process was
\* restarted over a post that does not parse.
CatchesUp == <>[](Current \/ lastErr \/ missed \/ CannotStart)

\* A change is never lost: as long as no rebuild has failed and no change went
\* unwatched, either the site is current or something is under way that will make it so.
StaleIsTemporary ==
    site # NoSite /\ ~Current /\ ~lastErr /\ ~missed =>
        \/ builder # NoThread
        \/ queue > 0 \/ pending \/ watchPC = "rebuild"
        \/ schedPC = "rebuild"
        \/ nextPublish # 0 /\ now >= nextPublish

\* What the comment on watchLoop says of the rule for skipping: the rebuild that began
\* after the last event has read it.  (If it is still running, it may yet do so.)
SkipOnlyWhenRead == [][Skip => builder # NoThread \/ ~lastErr]_vars
=============================================================================
