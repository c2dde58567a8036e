---------------------------- MODULE EpisodeSystem ----------------------------
(***************************************************************************)
(* The pipeline, the server and what maintains their rows, running         *)
(* together in one process that may stop, crash and start again.           *)
(***************************************************************************)
EXTENDS EpisodeServer, EpisodeMaintenance

vars == <<pipelineVars, maintenanceVars, request>>

Init == PipelineInit /\ MaintenanceInit /\ ServerInit

(* Mutant: no minimum age.                                                 *)
RemoveOrphanAnyAge(e) ==
    /\ "sweep" \in Tasks /\ life = "up" /\ sweep.phase = "idle"
    /\ disk[e] # NoAudio /\ ~row[e].cached
    /\ disk' = [disk EXCEPT ![e] = NoAudio]
    /\ UNCHANGED <<row, hidden, feed, inFlight, job, life, maintenanceVars>>

(* The housekeeper's last pass: a file no row refers to, old enough that   *)
(* no job or tee has just put it there.                                    *)
RemoveOrphan(e) ==
    /\ "sweep" \in Tasks /\ life = "up" /\ sweep.phase = "idle"
    /\ disk[e] # NoAudio /\ ~row[e].cached
    /\ \A o \in Owners : job[o][e].phase # "record"
    /\ \A r \in Requests : request[r].ep = e => request[r].phase # "teesave"
    /\ disk' = [disk EXCEPT ![e] = NoAudio]
    /\ UNCHANGED <<row, hidden, feed, inFlight, job, life, maintenanceVars>>

(* What dies with the process.                                             *)
ForgetMemory ==
    /\ request' = [r \in Requests |-> RequestIdle]
    /\ admin' = [a \in Admins |-> AdminIdle]
    /\ sweep' = SweepIdle
    /\ UNCHANGED changes

StopProcess == (Stopped \/ Crash) /\ ForgetMemory

StartProcess ==
    \/ Restart(feed) /\ UNCHANGED <<maintenanceVars, request>>
    \/ /\ changes < MaxChanges /\ changes' = changes + 1
       /\ \E s \in Settings \ {feed} : Restart(s)
       /\ UNCHANGED <<admin, sweep, request>>

EndJob(o, e) == EndFlight(o, e) /\ WakeWaiting(e) /\ UNCHANGED maintenanceVars

Next ==
    \/ \E w \in Workers : WorkerStep(w) /\ UNCHANGED <<maintenanceVars, request>>
    \/ \E o \in Owners, e \in Episodes : JobStep(o, e) /\ UNCHANGED <<maintenanceVars, request>>
    \/ \E o \in Owners, e \in Episodes : EndJob(o, e)
    \/ \E e \in Episodes : (TakeSlot(e) \/ ComeDue(e)) /\ UNCHANGED <<maintenanceVars, request>>
    \/ \E r \in Requests, e \in Episodes : Ask(r, e) /\ UNCHANGED maintenanceVars
    \/ \E r \in Requests : RequestStep(r) /\ UNCHANGED maintenanceVars
    \/ \E a \in Admins : (ChangeSettings(a) \/ AskToQueue(a) \/ AdminStep(a)) /\ UNCHANGED request
    \/ \E e \in Episodes : (SweepList(e) \/ Hide(e) \/ Show(e) \/ RemoveOrphan(e)) /\ UNCHANGED request
    \/ (SweepRemove \/ SweepSave) /\ UNCHANGED request
    \/ "crash" \in Tasks /\ Shutdown /\ UNCHANGED <<maintenanceVars, request>>
    \/ "crash" \in Tasks /\ (StopProcess \/ StartProcess)

Spec == Init /\ [][Next]_vars

(* What the scheduling justifies: workers loop and wake at least every 30  *)
(* seconds, every download has a deadline, a goroutine that can run does,  *)
(* and a retry time comes.  Clients, settings, crashes and the end of a    *)
(* client's wait are owed nothing.  Slots go to goroutines in the order    *)
(* they asked, so one that keeps waiting gets its turn.                    *)
Fairness ==
    /\ \A w \in Workers : WF_vars(WorkerStep(w) /\ UNCHANGED <<maintenanceVars, request>>)
    /\ \A o \in Owners, e \in Episodes :
          /\ WF_vars((Attempt(o, e) \/ RecordOutcome(o, e)) /\ UNCHANGED <<maintenanceVars, request>>)
          /\ WF_vars(life = "stopping" /\ AbandonJob(o, e) /\ UNCHANGED <<maintenanceVars, request>>)
          /\ WF_vars(EndJob(o, e))
    /\ \A e \in Episodes :
          /\ SF_vars(TakeSlot(e) /\ UNCHANGED <<maintenanceVars, request>>)
          /\ WF_vars(ComeDue(e) /\ UNCHANGED <<maintenanceVars, request>>)
    /\ \A r \in Requests : WF_vars(ServeStep(r) /\ UNCHANGED maintenanceVars)
    /\ \A a \in Admins : WF_vars(AdminStep(a) /\ UNCHANGED request)
    /\ WF_vars((SweepRemove \/ SweepSave) /\ UNCHANGED request)
    /\ WF_vars(Stopped /\ ForgetMemory)

FairSpec == Spec /\ Fairness

-----------------------------------------------------------------------------
(* Type correctness of every variable, copies of rows included.            *)
TypeOK ==
    /\ row \in [Episodes -> Rows]
    /\ hidden \in [Episodes -> BOOLEAN]
    /\ disk \in [Episodes -> Audio]
    /\ feed \in Settings
    /\ inFlight \in [Episodes -> Owners \cup {NoOwner}]
    /\ job \in [Owners -> [Episodes -> JobRecs]]
    /\ life \in {"up", "stopping", "down"}
    /\ admin \in [Admins -> AdminRecs]
    /\ sweep \in SweepRecs
    /\ changes \in 0 .. MaxChanges
    /\ request \in [Requests -> RequestRecs]

(* Every row is sound (EpisodeRow), however old the copy a writer saved.   *)
RowsSound == \A e \in Episodes : RowSound(row[e])

(* inFlight holds exactly the jobs that run: no episode is prepared by two *)
(* jobs at a time, a batch included, and none stays registered after its   *)
(* job is gone, which would leave it "being prepared" until a restart.     *)
RegistryMatchesJobs ==
    \A e \in Episodes, o \in Owners :
        inFlight[e] = o <=> job[o][e].phase \in Registered

(* A client that waits, waits for a job that still runs: whichever way a   *)
(* job ends, the end finds and wakes everyone who joined it.               *)
NoLostWakeup ==
    \A r \in Requests : request[r].phase = "waiting" => preparing(request[r].ep)

(* "acquiring: a worker (or a request) is downloading or processing it"    *)
(* (docs/episodes.md:28).  Nothing else picks such a row up before the     *)
(* next start, and it holds newer episodes back.  The code keeps this as   *)
(* long as no backlog waits on an unprocessed feed; the run v_tee_strands  *)
(* shows how a stream strands an episode there.                            *)
AcquiringHasOwner ==
    life = "up" => \A e \in Episodes :
        row[e].state = "acquiring" => \E o \in Owners : job[o][e].phase \in Unrecorded

(* An attempt time on a ready episode of a processed feed means it lacks   *)
(* its file: no command, however old its list, no rule and no late save    *)
(* queues one that is prepared.  (A tee of an unprocessed feed may leave   *)
(* the time on the row: a claim asks for the missing file too.)            *)
FiledNotQueued ==
    feed.processed => \A e \in Episodes : HasFile(row[e]) => row[e].next = "none"

(* How the rows look to the feed.                                          *)
Stage(r) ==
    CASE r.state = "discovered" -> "waiting"
      [] r.state = "acquiring" -> "preparing"
      [] r.state \in {"ready", "failed"} /\ r.withheld -> "withheld"
      [] r.state \in {"ready", "failed"} /\ ~r.withheld -> "inFeed"

Lifecycle == INSTANCE EpisodeLifecycle
                WITH stage <- [e \in Episodes |-> Stage(row[e])], Hiding <- "hide" \in Tasks

(* With unchanged settings every row follows EpisodeLifecycle, whichever   *)
(* copies are written back when: no retry, crash, recovery or late save    *)
(* takes an episode out of the feed to wait, where it would also hold      *)
(* newer ones back, and none joins the feed without having been prepared.  *)
(* (Not so a stream of the backlog of a feed that prepares ahead without a *)
(* processor: it writes back the waiting row it has read, as in            *)
(* v_tee_strands.)                                                         *)
FollowsLifecycle == Lifecycle!Spec

(* As long as a processed feed has kept the policy "hide", no client gets  *)
(* unprocessed audio of it, streamed or from the cache.                    *)
HiddenAudioNeverServed ==
    changes = 0 /\ feed.processed /\ feed.hide =>
        \A r \in Requests : request[r].answer # "stream" /\ request[r].audio.by # "download"

AudioOf(recipe) == [by |-> recipe.by, with |-> recipe.with]

(* The file of a ready episode was made the way PreparedWith says, unless  *)
(* a job or a tee is between putting its file there and recording it.      *)
(* Settings may change at any point before; Reconcile and CheckEpisode     *)
(* find outdated files by this label alone.                                *)
LabelTellsTruth ==
    \A e \in Episodes :
        /\ HasFile(row[e]) /\ disk[e] # NoAudio /\ row[e].preparedWith # NoRecipe
        /\ \A o \in Owners : job[o][e].phase # "record"
        /\ ~Teeing(e)
        => disk[e] = AudioOf(row[e].preparedWith)

-----------------------------------------------------------------------------
(* The file of an episode prepared for the first time is still there when  *)
(* its row is recorded: no sweep, check, tee or request that looked at the *)
(* episode before removes it in between, and the housekeeper tells it from *)
(* a stray file by its age.                                                *)
CommittedFileStays ==
    \A o \in Owners, e \in Episodes :
        /\ job[o][e].phase = "record" /\ job[o][e].made = "ok"
        /\ job[o][e].snap.state = "acquiring"
        => disk[e] # NoAudio

-----------------------------------------------------------------------------
(* Liveness, under FairSpec.                                               *)

(* From some start on the process stays up.                                *)
StaysUp == <>[](life = "up")

(* The fairness of EpisodeLifecycle: once the process stays up, a new      *)
(* episode is published or given up on, whatever attempts failed and       *)
(* crashes came before; it cannot wait for ever and hold newer ones back.  *)
EverySettles == StaysUp => Lifecycle!Fairness

SlowRetriesSpent(r) == r.next = "none" /\ r.lateRetries >= WithheldRetryDelays

(* A withheld episode is tried again until it succeeds or has had all its  *)
(* slow retries.                                                           *)
WithheldIsRetried ==
    StaysUp => \A e \in Episodes :
        row[e].withheld ~> (~row[e].withheld \/ SlowRetriesSpent(row[e]))

(* A client that waits for a job is woken when the job ends, however it    *)
(* ends, even if the client's patience has no end.                         *)
WaiterAnswered ==
    \A r \in Requests : request[r].phase = "waiting" ~> request[r].phase # "waiting"

(* After the context is cancelled Run returns: every worker and every job  *)
(* started on request ends, those that still wait for a slot too.          *)
RunReturns == life = "stopping" ~> life = "down"

-----------------------------------------------------------------------------
(* What comments of the source say and the code does not keep.             *)

(* "A file made with settings that have since changed isn't served"        *)
(* (serve.go:101), one "being prepared" is "checked again once its job is  *)
(* done" (reconcile.go:118): a file a client waited for was made with the  *)
(* settings of the time it asked or of now.                                *)
ServesCurrentSettings ==
    \A r \in Requests : request[r].answer = "file" /\ request[r].waited =>
        request[r].audio \in {AudioOf(Recipe(request[r].asked)), AudioOf(Recipe(feed))}
=============================================================================
