------------------------- MODULE EpisodeMaintenance -------------------------
(***************************************************************************)
(* What else writes episode rows and cache files while the pipeline runs:  *)
(* a change of the feed's settings and the Reconcile that follows it, the  *)
(* commands that queue episodes, the housekeeper's sweep, and the rules    *)
(* and polls that hide and show episodes.  Each works on a copy of the row *)
(* it read earlier, or on a list it drew up earlier; the steps between are *)
(* where a job or a request can come in.                                   *)
(***************************************************************************)
EXTENDS EpisodePipeline

CONSTANTS
    Admins,        \* API or web UI requests that change settings or queue episodes
    MaxChanges,    \* bound on changes of settings
    Tasks          \* which of "queue", "sweep", "hide" and "crash" happen

ASSUME MaintenanceAssumption ==
    /\ MaxChanges \in Nat
    /\ Tasks \subseteq {"queue", "sweep", "hide", "crash"}

VARIABLES
    admin,     \* each admin request
    sweep,     \* the housekeeper
    changes    \* how often the settings have changed

maintenanceVars == <<admin, sweep, changes>>

AdminRecs ==
    [ phase : {"idle", "list", "each", "save", "pick", "apply"},
      feed  : FeedSettings,            \* Reconcile's copy of the settings
      todo  : SUBSET Episodes,         \* episodes still to go through
      copy  : [Episodes -> Rows],      \* ListEpisodes, as it was read
      kind  : {"failed", "uncached"} ] \* what a queue command picks

NoCopy == Idle.snap

AdminIdle ==
    [ phase |-> "idle", feed |-> Idle.feed, todo |-> {},
      copy |-> [e \in Episodes |-> NoCopy], kind |-> "uncached" ]

SweepRecs == [ phase : {"idle", "remove", "save"}, ep : Episodes, copy : Rows ]

SweepIdle == [phase |-> "idle", ep |-> CHOOSE e \in Episodes : TRUE, copy |-> NoCopy]

MaintenanceInit ==
    /\ admin = [a \in Admins |-> AdminIdle]
    /\ sweep = SweepIdle
    /\ changes = 0

-----------------------------------------------------------------------------
(* updateFeed: save the settings, reconcile the episodes, queue them if    *)
(* the feed prepares ahead.                                                *)

ChangeSettings(a) ==
    /\ life = "up" /\ admin[a].phase = "idle" /\ changes < MaxChanges
    /\ \E s \in Settings \ {feed} :
          /\ feed' = s
          /\ admin' = [admin EXCEPT ![a].phase = "list"]
    /\ changes' = changes + 1
    /\ UNCHANGED <<row, hidden, disk, inFlight, job, life, sweep>>

(* Reconcile reads the feed and lists its episodes.                        *)
ReconcileList(a) ==
    /\ admin[a].phase = "list"
    /\ admin' = [admin EXCEPT ![a].phase = "each", ![a].feed = feed,
                              ![a].todo = Episodes, ![a].copy = row]
    /\ UNCHANGED <<pipelineVars, sweep, changes>>

Oldest(S, e) == e \in S /\ \A other \in S : e <= other

(* An episode being prepared is left alone; one that already fits too.     *)
ReconcileSkip(a, e) ==
    /\ admin[a].phase = "each" /\ Oldest(admin[a].todo, e)
    /\ preparing(e) \/ ~ReconcileSaves(admin[a].copy[e], admin[a].feed)
    /\ admin' = [admin EXCEPT ![a].todo = @ \ {e}, ![a].copy[e] = NoCopy]
    /\ UNCHANGED <<pipelineVars, sweep, changes>>

(* reconcileEpisode deletes the file; the row is saved next.               *)
ReconcileEpisode(a, e) ==
    /\ admin[a].phase = "each" /\ Oldest(admin[a].todo, e)
    /\ ~preparing(e) /\ ReconcileSaves(admin[a].copy[e], admin[a].feed)
    /\ admin' = [admin EXCEPT ![a].phase = "save", ![a].copy[e] = Reconciled(@, admin[a].feed)]
    /\ disk' = IF DropsFile(admin[a].copy[e], admin[a].feed)
               THEN [disk EXCEPT ![e] = NoAudio] ELSE disk
    /\ UNCHANGED <<row, hidden, feed, inFlight, job, life, sweep, changes>>

ReconcileSave(a, e) ==
    /\ admin[a].phase = "save" /\ Oldest(admin[a].todo, e)
    /\ row' = [row EXCEPT ![e] = admin[a].copy[e]]
    /\ admin' = [admin EXCEPT ![a].phase = "each", ![a].todo = @ \ {e}, ![a].copy[e] = NoCopy]
    /\ UNCHANGED <<hidden, disk, feed, inFlight, job, life, sweep, changes>>

ReconcileEnd(a) ==
    /\ admin[a].phase = "each" /\ admin[a].todo = {}
    /\ admin' = [admin EXCEPT ![a] =
                   IF admin[a].feed.ahead
                   THEN [AdminIdle EXCEPT !.phase = "pick", !.todo = Episodes] ELSE AdminIdle]
    /\ UNCHANGED <<pipelineVars, sweep, changes>>

-----------------------------------------------------------------------------
(* RetryFailed, Queue and QueueEpisode: pick, then queue what still fits.  *)

AskToQueue(a) ==
    /\ "queue" \in Tasks /\ life = "up" /\ admin[a].phase = "idle"
    /\ \E kind \in {"failed", "uncached"}, targets \in SUBSET Episodes :
          /\ targets # {}
          /\ admin' = [admin EXCEPT ![a].phase = "pick", ![a].todo = targets, ![a].kind = kind]
    /\ UNCHANGED <<pipelineVars, sweep, changes>>

PickToQueue(a) ==
    /\ admin[a].phase = "pick"
    /\ LET ids == {e \in admin[a].todo : ~preparing(e) /\ ~hidden[e]}
       IN  admin' = [admin EXCEPT ![a] =
                       IF Prepares(feed) /\ ids # {}
                       THEN [@ EXCEPT !.phase = "apply", !.todo = ids] ELSE AdminIdle]
    /\ UNCHANGED <<pipelineVars, sweep, changes>>

QueuedFailed(r) ==
    IF r.state = "failed" THEN [r EXCEPT !.next = "due", !.lateRetries = 0] ELSE r

ApplyQueue(a) ==
    /\ admin[a].phase = "apply"
    /\ row' = [e \in Episodes |->
                 CASE e \in admin[a].todo /\ admin[a].kind = "failed" -> QueuedFailed(row[e])
                   [] e \in admin[a].todo /\ admin[a].kind = "uncached" -> QueuedUncached(row[e])
                   [] OTHER -> row[e]]
    /\ admin' = [admin EXCEPT ![a] = AdminIdle]
    /\ UNCHANGED <<hidden, disk, feed, inFlight, job, life, sweep, changes>>

AdminStep(a) ==
    \/ ReconcileList(a) \/ ReconcileEnd(a) \/ PickToQueue(a) \/ ApplyQueue(a)
    \/ \E e \in Episodes : ReconcileSkip(a, e) \/ ReconcileEpisode(a, e) \/ ReconcileSave(a, e)

-----------------------------------------------------------------------------
(* The housekeeper: expired, already served or over the size cap is all    *)
(* the same here, any cached file may be picked.                           *)

SweepList(e) ==
    /\ "sweep" \in Tasks /\ life = "up" /\ sweep.phase = "idle" /\ row[e].cached
    /\ sweep' = [phase |-> "remove", ep |-> e, copy |-> row[e]]
    /\ UNCHANGED <<pipelineVars, admin, changes>>

SweepRemove ==
    /\ sweep.phase = "remove"
    /\ disk' = [disk EXCEPT ![sweep.ep] = NoAudio]
    /\ sweep' = [sweep EXCEPT !.phase = "save"]
    /\ UNCHANGED <<row, hidden, feed, inFlight, job, life, admin, changes>>

SweepSave ==
    /\ sweep.phase = "save"
    /\ row' = [row EXCEPT ![sweep.ep] = ForgetCache(sweep.copy)]
    /\ sweep' = SweepIdle
    /\ UNCHANGED <<hidden, disk, feed, inFlight, job, life, admin, changes>>

-----------------------------------------------------------------------------
(* Rules and polls (applyHiding, SyncEpisodes): one transaction each.      *)

Hide(e) ==
    /\ "hide" \in Tasks /\ life = "up" /\ ~hidden[e]
    /\ hidden' = [hidden EXCEPT ![e] = TRUE]
    /\ UNCHANGED <<row, disk, feed, inFlight, job, life, maintenanceVars>>

(* Mutant: one being prepared is made backlog too.                         *)
ShowWhatever(e) ==
    /\ "hide" \in Tasks /\ life = "up" /\ hidden[e]
    /\ hidden' = [hidden EXCEPT ![e] = FALSE]
    /\ \/ UNCHANGED row
       \/ row' = [row EXCEPT ![e].backlog = TRUE, ![e].state = "ready",
                             ![e].next = IF Prepares(feed) /\ feed.ahead /\ ~row[e].cached
                                         THEN "due" ELSE "none"]
    /\ UNCHANGED <<disk, feed, inFlight, job, life, maintenanceVars>>

(* Mutant: it is queued whether its file is there or not.                  *)
ShowQueued(e) ==
    /\ "hide" \in Tasks /\ life = "up" /\ hidden[e]
    /\ hidden' = [hidden EXCEPT ![e] = FALSE]
    /\ \/ UNCHANGED row
       \/ /\ ~row[e].backlog /\ row[e].state \in {"discovered", "ready"}
          /\ row' = [row EXCEPT ![e].backlog = TRUE, ![e].state = "ready",
                                ![e].next = IF Prepares(feed) /\ feed.ahead THEN "due" ELSE "none"]
    /\ UNCHANGED <<disk, feed, inFlight, job, life, maintenanceVars>>

(* A waiting or ready episode no feed has shown comes back as backlog,     *)
(* queued if the feed prepares ahead.                                      *)
Show(e) ==
    /\ "hide" \in Tasks /\ life = "up" /\ hidden[e]
    /\ hidden' = [hidden EXCEPT ![e] = FALSE]
    /\ \/ UNCHANGED row
       \/ /\ ~row[e].backlog /\ row[e].state \in {"discovered", "ready"}
          /\ row' = [row EXCEPT ![e].backlog = TRUE, ![e].state = "ready",
                                ![e].next = IF Prepares(feed) /\ feed.ahead /\ ~row[e].cached
                                            THEN "due" ELSE "none"]
    /\ UNCHANGED <<disk, feed, inFlight, job, life, maintenanceVars>>
=============================================================================
