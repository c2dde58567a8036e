------------------------- MODULE EpisodeSystemProofs -------------------------
(***************************************************************************)
(* Theorems about EpisodeSystem, for any episodes, workers, requests,      *)
(* settings and retry schedules.                                           *)
(*                                                                         *)
(* A row is written by whoever holds a copy of it, so "every row is sound" *)
(* is not inductive by itself: the invariant speaks of the copies that     *)
(* jobs, requests, admins and the housekeeper hold as well, and says of a  *)
(* request past its check that its copy is not withheld.                   *)
(***************************************************************************)
EXTENDS EpisodeSystem, TLAPS

-----------------------------------------------------------------------------
(* What the operators of EpisodeRow return: a row again, and a sound one   *)
(* from a sound one.                                                       *)

(* A bounded counter stays within its bound.                               *)
LEMMA UpType ==
    ASSUME NEW cap \in Nat, NEW n \in 0 .. cap
    PROVE  Up(n, cap) \in 0 .. cap
BY DEF Up

(* Every counter may start again from zero.                                *)
LEMMA ZeroType ==
    /\ 0 \in 0 .. RetryDelays + 1 /\ 0 \in 0 .. MaxRequestFailures
    /\ 0 \in 0 .. WithheldRetryDelays /\ 0 <= RetryDelays
BY DelaysAssumption

(* A recipe is one, whatever the failure policy did.                       *)
LEMMA RecipeType ==
    ASSUME NEW f \in FeedSettings
    PROVE  /\ Recipe(f) \in Recipes /\ Recipe(f).failed = "no"
           /\ FailedRecipe(f) \in Recipes /\ FailedRecipe(f).failed # "no"
           /\ NoRecipe \in Recipes /\ NoRecipe.failed = "no"
BY DEF Recipe, FailedRecipe, NoRecipe, Recipes, FeedSettings

(* A new row is sound, in either state a poll gives it.                    *)
LEMMA NewRowSound ==
    ASSUME NEW state \in {"discovered", "ready"}, NEW backlog \in BOOLEAN
    PROVE  NewRow(state, backlog) \in Rows /\ RowSound(NewRow(state, backlog))
BY DelaysAssumption DEF NewRow, Rows, RowSound, States, Times, NoRecipe, Recipes

(* The two ways counters are changed together.                             *)
LEMMA CountersType ==
    ASSUME NEW r \in Rows
    PROVE  /\ NoFailure(r) \in Rows /\ Counted(r) \in Rows
           /\ ~NoFailure(r).withheld
           /\ NoFailure(r).preparedWith = r.preparedWith
           /\ Counted(r).withheld = r.withheld
           /\ Counted(r).preparedWith = r.preparedWith
           /\ Counted(r).attempts = Up(r.attempts, RetryDelays + 1)
<1>1. /\ Up(r.attempts, RetryDelays + 1) \in 0 .. RetryDelays + 1
      /\ Up(r.failedAttempts, MaxRequestFailures) \in 0 .. MaxRequestFailures
  BY UpType, DelaysAssumption DEF Rows
<1>2. NoFailure(r) \in Rows /\ ~NoFailure(r).withheld /\ NoFailure(r).preparedWith = r.preparedWith
  BY ZeroType DEF NoFailure, Rows, Times
<1>3. /\ Counted(r) \in Rows
      /\ Counted(r).withheld = r.withheld
      /\ Counted(r).preparedWith = r.preparedWith
      /\ Counted(r).attempts = Up(r.attempts, RetryDelays + 1)
  BY <1>1 DEF Counted, Rows
<1> QED
  BY <1>2, <1>3

(* recordOutcome after a success.                                          *)
LEMMA SucceededSound ==
    ASSUME NEW snap \in Rows, NEW f \in FeedSettings, NEW processing \in BOOLEAN
    PROVE  Succeeded(snap, f, processing) \in Rows /\ RowSound(Succeeded(snap, f, processing))
<1> DEFINE s == NoFailure(snap)
<1>1. s \in Rows /\ ~s.withheld
  BY CountersType
<1>2. Recipe(f) \in Recipes /\ Recipe(f).failed = "no"
  BY RecipeType
<1>3. Up(s.attempts, RetryDelays + 1) \in 0 .. RetryDelays + 1
  BY <1>1, UpType, DelaysAssumption DEF Rows
<1> HIDE DEF s
<1> DEFINE attempts == Up(s.attempts, RetryDelays + 1)
           t == [s EXCEPT !.state = "ready", !.attempts = attempts,
                          !.preparedWith = Recipe(f), !.cached = TRUE, !.note = processing]
<1>4. Succeeded(snap, f, processing) = t
  BY DEF Succeeded, s
<1> HIDE DEF attempts
<1>5. t \in Rows
  <2>1. "ready" \in States
    BY DEF States
  <2> QED
    BY <1>1, <1>2, <1>3, <2>1 DEF Rows, attempts
<1>6. t.state = "ready" /\ ~t.withheld /\ t.preparedWith.failed = "no"
  BY <1>1, <1>2 DEF Rows
<1> HIDE DEF t
<1>7. RowSound(t)
  BY <1>6 DEF RowSound
<1> QED
  BY <1>4, <1>5, <1>7

(* recordOutcome after a failure: it never leaves a withheld episode that  *)
(* nothing would try again, nor a waiting one past the retry schedule.     *)
LEMMA FailureSound ==
    ASSUME NEW snap \in Rows, NEW f \in FeedSettings,
           NEW processing \in BOOLEAN, NEW permanent \in BOOLEAN,
           RowSound(snap), snap.state # "discovered"
    PROVE  /\ Failure(snap, f, processing, permanent) \in Rows
           /\ RowSound(Failure(snap, f, processing, permanent))
<1> DEFINE c == Counted(snap)
<1>1. /\ c \in Rows
      /\ c.withheld = snap.withheld /\ c.preparedWith = snap.preparedWith
      /\ c.attempts = Up(snap.attempts, RetryDelays + 1)
  BY CountersType
<1>2. Up(snap.lateRetries, WithheldRetryDelays) \in 0 .. WithheldRetryDelays
  BY UpType, DelaysAssumption DEF Rows
<1>3. FailedRecipe(f) \in Recipes /\ FailedRecipe(f).failed # "no"
  BY RecipeType
<1>4. CASE snap.state = "failed"
  <2> DEFINE late == Up(snap.lateRetries, WithheldRetryDelays)
             next == IF snap.withheld /\ late < WithheldRetryDelays THEN "later" ELSE "none"
             s    == [c EXCEPT !.lateRetries = late, !.preparedWith = FailedRecipe(f), !.next = next]
  <2>0. c.state = "failed"
    BY <1>4 DEF Counted, Rows
  <2>1. FailedAgain(snap, f) = s
    BY DEF FailedAgain
  <2>2. next \in Times /\ (snap.withheld /\ next = "none" => late >= WithheldRetryDelays)
    BY <1>2, DelaysAssumption DEF Times
  <2> HIDE DEF c, late, next
  <2>3. s \in Rows /\ RowSound(s)
    BY <2>0, <1>1, <1>2, <1>3, <2>2 DEF Rows, RowSound, late
  <2> QED
    BY <1>4, <2>1, <2>3 DEF Failure
<1>5. CASE snap.state # "failed" /\ GivesUp(snap, permanent)
  <2> DEFINE next == IF processing /\ f.hide THEN "later" ELSE "none"
             withheld == IF processing THEN f.hide ELSE c.withheld
             s == [c EXCEPT !.state = "failed", !.lateRetries = 0,
                            !.preparedWith = FailedRecipe(f), !.next = next, !.withheld = withheld]
  <2>1. GaveUp(snap, f, processing) = s
    BY DEF GaveUp
  <2>2. /\ next \in Times /\ withheld \in BOOLEAN
        /\ withheld => next # "none"
    BY <1>1, <1>5 DEF Times, FeedSettings, Rows, RowSound
  <2> HIDE DEF c, next, withheld
  <2>3. s \in Rows /\ RowSound(s)
    BY <1>1, <1>3, <2>2, ZeroType DEF Rows, RowSound, States
  <2> QED
    BY <1>5, <2>1, <2>3 DEF Failure
<1>6. CASE snap.state # "failed" /\ ~GivesUp(snap, permanent)
  <2>1. TriedAgain(snap) \in Rows
    BY <1>1 DEF TriedAgain, Rows, Times, States
  <2>2. snap.state = "acquiring" => c.attempts <= RetryDelays
    BY <1>1, <1>6, DelaysAssumption DEF GivesUp, Rows
  <2>3. snap.state = "ready" => c.state = "ready"
    BY DEF Counted, Rows
  <2> HIDE DEF c
  <2>4. RowSound(TriedAgain(snap))
    BY <1>1, <1>6, <2>2, <2>3 DEF TriedAgain, Rows, RowSound, States, c
  <2> QED
    BY <1>6, <2>1, <2>4 DEF Failure
<1> QED
  BY <1>4, <1>5, <1>6

(* reconcileEpisode.                                                       *)
LEMMA ReconciledSound ==
    ASSUME NEW r \in Rows, NEW f \in FeedSettings, RowSound(r)
    PROVE  Reconciled(r, f) \in Rows /\ RowSound(Reconciled(r, f))
<1>1. /\ Recipe(f) \in Recipes /\ Recipe(f).failed = "no"
      /\ FailedRecipe(f) \in Recipes /\ FailedRecipe(f).failed # "no"
      /\ NoRecipe \in Recipes /\ NoRecipe.failed = "no"
  BY RecipeType
<1>2. ClearedFile(r) \in Rows /\ ClearedFile(r).preparedWith = NoRecipe
  BY <1>1 DEF ClearedFile, ForgetCache, Rows
<1>3. r.state = "ready" => RowSound(ClearedFile(r))
  BY <1>1 DEF ClearedFile, ForgetCache, Rows, RowSound
<1>4. FreshStart(r, f) \in Rows /\ RowSound(FreshStart(r, f))
  <2> DEFINE c == NoFailure(ClearedFile(r))
             state == IF r.backlog \/ ~Prepares(f) THEN "ready" ELSE "discovered"
  <2>1. c \in Rows /\ ~c.withheld /\ c.preparedWith = NoRecipe
    BY <1>2, CountersType
  <2>2. state \in {"ready", "discovered"}
    OBVIOUS
  <2>3. FreshStart(r, f) = [c EXCEPT !.attempts = 0, !.state = state]
    BY DEF FreshStart
  <2> HIDE DEF c, state
  <2> QED
    BY <1>1, <2>1, <2>2, <2>3, ZeroType DEF Rows, RowSound, States
<1>5. ASSUME r.state = "failed"
      PROVE  LET s == [r EXCEPT !.preparedWith = FailedRecipe(f),
                                !.next = IF RestartsSlowRetries(r) THEN "due" ELSE @]
             IN  s \in Rows /\ RowSound(s)
  BY <1>1, <1>5 DEF Rows, RowSound, Times
<1>6. ASSUME r.state = "ready"
      PROVE  LET s == [r EXCEPT !.preparedWith = Recipe(f)] IN s \in Rows /\ RowSound(s)
  BY <1>1, <1>6 DEF Rows, RowSound
<1>7. (FileUnlabelled(r, f) \/ FileOutdated(r, f)) => r.state = "ready"
  BY DEF FileUnlabelled, FileOutdated, HasFile
<1> QED
  BY <1>2, <1>3, <1>4, <1>5, <1>6, <1>7 DEF Reconciled

(* Losing the file changes nothing else.                                   *)
LEMMA ForgetCacheSound ==
    ASSUME NEW r \in Rows, RowSound(r)
    PROVE  ForgetCache(r) \in Rows /\ RowSound(ForgetCache(r))
BY DEF ForgetCache, Rows, RowSound

-----------------------------------------------------------------------------
(* The invariant.                                                          *)

SoundRows == {r \in Rows : RowSound(r)}

(* Rows as a job holds them: a waiting one has been claimed first.         *)
ClaimedRows == {r \in SoundRows : r.state # "discovered"}

SoundJobs == {j \in JobRecs : j.snap \in ClaimedRows}

SoundAdmins == {a \in AdminRecs : a.copy \in [Episodes -> SoundRows]}

SoundSweeps == {s \in SweepRecs : s.copy \in SoundRows}

(* Where a request has found its copy not withheld and still holds it.     *)
NotWithheldPhases == {"forget", "route", "pass", "tee", "teesave"}

SoundRequests ==
    {q \in RequestRecs :
        q.snap \in SoundRows /\ (q.phase \in NotWithheldPhases => ~q.snap.withheld)}

JobTable == [Owners -> [Episodes -> SoundJobs]]

PipelineSound ==
    /\ row \in [Episodes -> SoundRows]
    /\ hidden \in [Episodes -> BOOLEAN]
    /\ disk \in [Episodes -> Audio]
    /\ feed \in Settings
    /\ inFlight \in [Episodes -> Owners \cup {NoOwner}]
    /\ job \in JobTable
    /\ life \in {"up", "stopping", "down"}

MaintenanceSound ==
    /\ admin \in [Admins -> SoundAdmins]
    /\ sweep \in SoundSweeps
    /\ changes \in 0 .. MaxChanges

ServerSound == request \in [Requests -> SoundRequests]

(* The inductive invariant behind TypeOK and RowsSound.                    *)
CopiesSound == PipelineSound /\ MaintenanceSound /\ ServerSound

-----------------------------------------------------------------------------
(* Rows and records.                                                       *)

LEMMA SettingsType == ASSUME NEW f \in Settings PROVE f \in FeedSettings
BY PipelineAssumption

(* What an idle job, admin, housekeeper or request holds is sound.         *)
LEMMA IdleSound ==
    /\ NewRow("ready", FALSE) \in ClaimedRows
    /\ Idle.feed \in Settings /\ Idle.snap \in ClaimedRows
    /\ Idle \in SoundJobs /\ Over \in SoundJobs
    /\ AdminIdle \in SoundAdmins /\ SweepIdle \in SoundSweeps
    /\ RequestIdle \in SoundRequests
<1>1. NewRow("ready", FALSE) \in ClaimedRows
  <2>1. NewRow("ready", FALSE) \in SoundRows
    BY NewRowSound DEF SoundRows
  <2> QED
    BY <2>1 DEF ClaimedRows, NewRow
<1>2. (CHOOSE s \in Settings : TRUE) \in Settings /\ (CHOOSE e \in Episodes : TRUE) \in Episodes
  BY PipelineAssumption
<1>3. Idle.feed \in Settings /\ Idle.feed \in FeedSettings /\ Idle.snap \in ClaimedRows
  BY <1>1, <1>2, SettingsType DEF Idle
<1>4. Idle \in SoundJobs
  BY <1>1, <1>2, SettingsType DEF Idle, SoundJobs, JobRecs, Phases, Outcomes, ClaimedRows, SoundRows
<1>5. Over \in SoundJobs
  BY <1>4 DEF Over, SoundJobs, JobRecs, Phases
<1>6. AdminIdle \in SoundAdmins
  BY <1>3 DEF AdminIdle, SoundAdmins, AdminRecs, NoCopy, ClaimedRows, SoundRows
<1>7. SweepIdle \in SoundSweeps
  BY <1>2, <1>3 DEF SweepIdle, SoundSweeps, SweepRecs, NoCopy, ClaimedRows, SoundRows
<1>8. RequestIdle \in SoundRequests
  <2>1. NoAudio \in Audio
    BY DEF NoAudio, Audio
  <2> QED
    BY <1>2, <1>3, <2>1 DEF RequestIdle, SoundRequests, RequestRecs, RequestPhases, Answers,
       ClaimedRows, SoundRows, NotWithheldPhases
<1> QED
  BY <1>1, <1>3, <1>4, <1>5, <1>6, <1>7, <1>8

(* A job as a claim or Prepare starts it.                                  *)
LEMMA NewJobSound ==
    ASSUME NEW phase \in Phases, NEW snap \in ClaimedRows, NEW f \in FeedSettings,
           NEW processing \in BOOLEAN
    PROVE  NewJob(phase, snap, f, processing) \in SoundJobs
BY DEF NewJob, SoundJobs, JobRecs, Outcomes, ClaimedRows, SoundRows

(* A job moves on to another phase.                                        *)
LEMMA JobPhaseSound ==
    ASSUME NEW j \in SoundJobs, NEW p \in Phases
    PROVE  [j EXCEPT !.phase = p] \in SoundJobs
BY DEF SoundJobs, JobRecs

(* One job of the table is replaced.                                       *)
LEMMA JobUpdate ==
    ASSUME NEW J \in JobTable, NEW o \in Owners, NEW e \in Episodes, NEW j \in SoundJobs
    PROVE  [J EXCEPT ![o][e] = j] \in JobTable
BY DEF JobTable

(* Claims: a waiting episode is marked acquiring, a queued one leased.     *)
LEMMA ClaimSound ==
    ASSUME NEW r \in SoundRows
    PROVE  /\ r.state = "discovered" => [r EXCEPT !.state = "acquiring"] \in ClaimedRows
           /\ r.state # "discovered" => [r EXCEPT !.next = "later"] \in ClaimedRows
           /\ [r EXCEPT !.next = "later"] \in SoundRows
           /\ [r EXCEPT !.next = "due"] \in SoundRows
BY DEF SoundRows, ClaimedRows, Rows, RowSound, States, Times

(* What recordOutcome saves.                                               *)
LEMMA OutcomeSound ==
    ASSUME NEW j \in SoundJobs
    PROVE  OutcomeRow(j) \in SoundRows
<1>1. /\ j.snap \in Rows /\ RowSound(j.snap) /\ j.snap.state # "discovered"
      /\ j.feed \in FeedSettings /\ j.processing \in BOOLEAN
  BY DEF SoundJobs, JobRecs, ClaimedRows, SoundRows
<1>2. Succeeded(j.snap, j.feed, j.processing) \in SoundRows
  BY <1>1, SucceededSound DEF SoundRows
<1>3. Failure(j.snap, j.feed, j.processing, j.made = "permanent") \in SoundRows
  <2>1. (j.made = "permanent") \in BOOLEAN
    OBVIOUS
  <2> QED
    BY <1>1, <2>1, FailureSound DEF SoundRows
<1> QED
  BY <1>2, <1>3 DEF OutcomeRow

(* The queries that queue rows, Recover, and what a finished tee saves.    *)
LEMMA QueuedSound ==
    ASSUME NEW r \in SoundRows
    PROVE  QueuedUncached(r) \in SoundRows /\ QueuedFailed(r) \in SoundRows
BY ZeroType DEF SoundRows, QueuedUncached, QueuedFailed, Rows, RowSound, Times

LEMMA RecoveredSound ==
    ASSUME NEW r \in SoundRows
    PROVE  Recovered(r) \in SoundRows
BY DEF SoundRows, Recovered, Rows, RowSound, States

LEMMA TeedSound ==
    ASSUME NEW r \in SoundRows, NEW f \in FeedSettings, ~r.withheld
    PROVE  Teed(r, f) \in SoundRows
<1> DEFINE state == IF r.state = "failed" /\ ~f.processed THEN "ready" ELSE r.state
           with  == IF state = "ready" THEN Recipe(f) ELSE r.preparedWith
<1>1. Teed(r, f) = [r EXCEPT !.cached = TRUE, !.state = state, !.preparedWith = with]
  BY DEF Teed
<1>2. /\ r \in Rows /\ RowSound(r) /\ Recipe(f) \in Recipes /\ Recipe(f).failed = "no"
  BY RecipeType DEF SoundRows
<1>3. /\ state \in States /\ with \in Recipes
      /\ state = "failed" <=> with.failed # "no"
      /\ state \in {"discovered", "acquiring"} => state = r.state
  BY <1>2 DEF Rows, RowSound, States
<1> HIDE DEF state, with
<1> QED
  BY <1>1, <1>2, <1>3 DEF SoundRows, Rows, RowSound

-----------------------------------------------------------------------------
(* The pipeline's own steps.                                               *)

LEMMA InitSound == Init => CopiesSound
<1> SUFFICES ASSUME Init PROVE CopiesSound
  OBVIOUS
<1>1. ASSUME NEW s \in {"discovered", "ready"}, NEW e \in Episodes
      PROVE  NewRow(s, e \in Backlog) \in SoundRows
  <2>1. (e \in Backlog) \in BOOLEAN
    OBVIOUS
  <2> QED
    BY <2>1, NewRowSound DEF SoundRows
<1>2. row \in [Episodes -> SoundRows]
  <2>1. PICK waiting \in SUBSET Backlog :
           row = [e \in Episodes |->
                NewRow(IF e \in waiting \/ (e \notin Backlog /\ Prepares(feed))
                       THEN "discovered" ELSE "ready", e \in Backlog)]
    BY DEF Init, PipelineInit
  <2> QED
    BY <1>1, <2>1
<1>3. PipelineSound
  <2>1. NoAudio \in Audio
    BY DEF NoAudio, Audio
  <2> QED
    BY <1>2, <2>1, IdleSound DEF Init, PipelineInit, PipelineSound, JobTable
<1>4. MaintenanceSound
  BY IdleSound, MaintenanceAssumption DEF Init, MaintenanceInit, MaintenanceSound
<1>5. ServerSound
  BY IdleSound DEF Init, ServerInit, ServerSound
<1> QED
  BY <1>3, <1>4, <1>5 DEF CopiesSound

LEMMA PipelineStutters == PipelineSound /\ UNCHANGED pipelineVars => PipelineSound'
BY DEF PipelineSound, pipelineVars

(* A step that replaces one job, and perhaps its registration, row or file. *)
LEMMA OneJobStep ==
    ASSUME PipelineSound, NEW o \in Owners, NEW e \in Episodes, NEW j \in SoundJobs,
           job' = [job EXCEPT ![o][e] = j],
           row' \in [Episodes -> SoundRows], disk' \in [Episodes -> Audio],
           inFlight' \in [Episodes -> Owners \cup {NoOwner}],
           UNCHANGED <<hidden, feed, life>>
    PROVE  PipelineSound'
BY JobUpdate DEF PipelineSound

LEMMA WorkerStepSound ==
    ASSUME PipelineSound, NEW w \in Workers, WorkerStep(w)
    PROVE  PipelineSound'
<1> USE DEF PipelineSound
<1>0. w \in Owners
  BY DEF Owners
<1>1. CASE ClaimNextEpisode(w)
  <2>1. PICK e \in Episodes :
           /\ WaitingForFirst(row[e])
           /\ row' = [row EXCEPT ![e].state = "acquiring"]
           /\ job' = [job EXCEPT ![w][e] =
                        NewJob("claimed", [row[e] EXCEPT !.state = "acquiring"], Idle.feed, FALSE)]
    BY <1>1 DEF ClaimNextEpisode, NewWork
  <2>2. [row[e] EXCEPT !.state = "acquiring"] \in ClaimedRows
    BY <2>1, ClaimSound DEF WaitingForFirst
  <2>3. NewJob("claimed", [row[e] EXCEPT !.state = "acquiring"], Idle.feed, FALSE) \in SoundJobs
    BY <2>2, NewJobSound, IdleSound, SettingsType DEF Phases
  <2>4. row' \in [Episodes -> SoundRows]
    BY <2>1, <2>2 DEF ClaimedRows
  <2> QED
    BY <1>0, <1>1, <2>1, <2>3, <2>4, OneJobStep DEF ClaimNextEpisode
<1>2. CASE ClaimQueuedEpisode(w)
  <2>1. PICK e \in Episodes :
           /\ Queueable(row[e])
           /\ row' = [row EXCEPT ![e].next = "later"]
           /\ job' = [job EXCEPT ![w][e] =
                        NewJob("claimed", [row[e] EXCEPT !.next = "later"], Idle.feed, FALSE)]
    BY <1>2 DEF ClaimQueuedEpisode, QueuedWork, QueuedAndDue
  <2>2. [row[e] EXCEPT !.next = "later"] \in ClaimedRows
    BY <2>1, ClaimSound DEF Queueable
  <2>3. NewJob("claimed", [row[e] EXCEPT !.next = "later"], Idle.feed, FALSE) \in SoundJobs
    BY <2>2, NewJobSound, IdleSound, SettingsType DEF Phases
  <2>4. row' \in [Episodes -> SoundRows]
    BY <2>1, <2>2 DEF ClaimedRows
  <2> QED
    BY <1>0, <1>2, <2>1, <2>3, <2>4, OneJobStep DEF ClaimQueuedEpisode
<1>3. CASE RunBatch(w)
  <2>1. ASSUME NEW e \in Episodes
        PROVE  [job[w][e] EXCEPT !.phase = "working"] \in SoundJobs
    <3>1. job[w][e] \in SoundJobs /\ "working" \in Phases
      BY <1>0 DEF Phases, JobTable
    <3> QED
      BY <3>1, JobPhaseSound
  <2>2. job' \in JobTable
    BY <1>0, <1>3, <2>1 DEF RunBatch, JobTable
  <2> QED
    BY <1>3, <2>2 DEF RunBatch
<1>4. ASSUME NEW e \in Episodes, StartFlight(w, e) \/ JoinBatch(w, e)
      PROVE  PipelineSound'
  <2>1. job[w][e] \in SoundJobs
    BY <1>0 DEF JobTable
  <2>2. ASSUME NEW p \in {"started", "joined"}
        PROVE  [job[w][e] EXCEPT !.phase = p] \in SoundJobs
    BY <2>1, JobPhaseSound DEF Phases
  <2>3. \/ job' = [job EXCEPT ![w][e] = [job[w][e] EXCEPT !.phase = "started"]]
        \/ job' = [job EXCEPT ![w][e] = [job[w][e] EXCEPT !.phase = "joined"]]
        \/ job' = [job EXCEPT ![w][e] = Idle]
    BY <1>0, <1>4 DEF StartFlight, JoinBatch, JobTable
  <2>4. /\ inFlight' \in [Episodes -> Owners \cup {NoOwner}]
        /\ UNCHANGED <<row, hidden, disk, feed, life>>
    BY <1>0, <1>4 DEF StartFlight, JoinBatch
  <2> QED
    BY <1>0, <2>2, <2>3, <2>4, IdleSound, OneJobStep
<1>5. ASSUME NEW e \in Episodes, LoadFeed(w, e)
      PROVE  PipelineSound'
  <2> DEFINE batched == BatchSize > 1 /\ job[w][e].snap.state # "acquiring"
             phase   == IF batched THEN "batch" ELSE "working"
             processing == batched \/ feed.processed
             j == [job[w][e] EXCEPT !.phase = phase, !.feed = feed, !.processing = processing]
  <2>1. job[w][e] \in SoundJobs /\ feed \in FeedSettings /\ phase \in Phases
    BY <1>0, SettingsType DEF JobTable, Phases
  <2>2. processing \in BOOLEAN
    BY <2>1 DEF FeedSettings
  <2>3. job' = [job EXCEPT ![w][e] = j]
    BY <1>0, <1>5 DEF LoadFeed, JobTable
  <2> HIDE DEF phase, processing
  <2>4. j \in SoundJobs
    <3>1. j \in JobRecs
      BY <2>1, <2>2 DEF SoundJobs, JobRecs
    <3>2. j.snap = job[w][e].snap
      BY <2>1 DEF SoundJobs, JobRecs
    <3> QED
      BY <2>1, <3>1, <3>2 DEF SoundJobs
  <2>5. UNCHANGED <<row, hidden, disk, feed, inFlight, life>>
    BY <1>5 DEF LoadFeed
  <2> HIDE DEF j
  <2> QED
    BY <1>0, <2>3, <2>4, <2>5, OneJobStep
<1>6. ASSUME NEW first \in Episodes, ClaimQueuedEpisodesForFeed(w, first)
      PROVE  PipelineSound'
  <2>1. PICK more \in SUBSET {e \in Episodes \ {first} : ~hidden[e] /\ QueuedAndDue(row[e])} :
           /\ row' = [e \in Episodes |-> IF e \in more THEN [row[e] EXCEPT !.next = "later"]
                                                       ELSE row[e]]
           /\ job' = [job EXCEPT ![w] = [e \in Episodes |->
                         IF e \in more
                         THEN NewJob("joining", [row[e] EXCEPT !.next = "later"],
                                     job[w][first].feed, TRUE)
                         ELSE IF e = first THEN [job[w][e] EXCEPT !.phase = "joined"]
                         ELSE job[w][e]]]
    BY <1>6 DEF ClaimQueuedEpisodesForFeed
  <2>2. ASSUME NEW e \in more PROVE [row[e] EXCEPT !.next = "later"] \in ClaimedRows
    BY <2>1, ClaimSound DEF QueuedAndDue, Queueable
  <2>3. row' \in [Episodes -> SoundRows]
    BY <2>1, <2>2 DEF ClaimedRows
  <2>4. job[w][first].feed \in FeedSettings
    BY <1>0 DEF JobTable, SoundJobs, JobRecs
  <2>5. ASSUME NEW e \in more
        PROVE  NewJob("joining", [row[e] EXCEPT !.next = "later"], job[w][first].feed, TRUE) \in SoundJobs
    BY <2>2, <2>4, NewJobSound DEF Phases
  <2>6. ASSUME NEW e \in Episodes
        PROVE  [job[w][e] EXCEPT !.phase = "joined"] \in SoundJobs /\ job[w][e] \in SoundJobs
    <3>1. job[w][e] \in SoundJobs /\ "joined" \in Phases
      BY <1>0 DEF Phases, JobTable
    <3> QED
      BY <3>1, JobPhaseSound
  <2>7. job' \in JobTable
    BY <1>0, <2>1, <2>5, <2>6 DEF JobTable
  <2> QED
    BY <1>6, <2>3, <2>7 DEF ClaimQueuedEpisodesForFeed
<1> QED
  BY <1>1, <1>2, <1>3, <1>4, <1>5, <1>6 DEF WorkerStep

(* An attempt, its outcome, and a job that ends without one.               *)
LEMMA JobStepSound ==
    ASSUME PipelineSound, NEW o \in Owners, NEW e \in Episodes, JobStep(o, e)
    PROVE  PipelineSound'
<1> USE DEF PipelineSound
<1>0. /\ job[o][e] \in SoundJobs /\ job[o][e] \in JobRecs
      /\ job[o][e].feed \in FeedSettings
  BY DEF JobTable, SoundJobs, JobRecs
<1>1. CASE Attempt(o, e)
  <2>1. PICK outcome \in Outcomes \ {"pending"} :
           /\ job' = [job EXCEPT ![o][e].phase = "record", ![o][e].made = outcome]
           /\ disk' = IF outcome = "ok"
                      THEN [disk EXCEPT ![e] =
                              [by |-> IF job[o][e].processing THEN "processor" ELSE "download",
                               with |-> job[o][e].feed.with]]
                      ELSE disk
    BY <1>1 DEF Attempt
  <2> DEFINE j == [job[o][e] EXCEPT !.phase = "record", !.made = outcome]
  <2>2. job' = [job EXCEPT ![o][e] = j]
    BY <2>1 DEF JobTable
  <2>3. j \in SoundJobs
    BY <1>0 DEF SoundJobs, JobRecs, Phases
  <2>4. disk' \in [Episodes -> Audio]
    BY <1>0, <2>1 DEF Audio, FeedSettings
  <2>5. UNCHANGED <<row, hidden, feed, inFlight, life>>
    BY <1>1 DEF Attempt
  <2> HIDE DEF j
  <2> QED
    BY <2>2, <2>3, <2>4, <2>5, OneJobStep
<1>2. CASE RecordOutcome(o, e)
  <2>1. row' \in [Episodes -> SoundRows]
    BY <1>0, <1>2, OutcomeSound DEF RecordOutcome
  <2> QED
    BY <1>2, <2>1, IdleSound, OneJobStep DEF RecordOutcome
<1>3. CASE AbandonJob(o, e)
  BY <1>3, IdleSound, OneJobStep DEF AbandonJob
<1> QED
  BY <1>1, <1>2, <1>3 DEF JobStep

LEMMA EndFlightSound ==
    ASSUME PipelineSound, NEW o \in Owners, NEW e \in Episodes, EndFlight(o, e)
    PROVE  PipelineSound'
<1>1. inFlight' \in [Episodes -> Owners \cup {NoOwner}]
  BY DEF EndFlight, PipelineSound
<1> QED
  BY <1>1, IdleSound, OneJobStep DEF EndFlight, PipelineSound

LEMMA SlotAndTimeSound ==
    ASSUME PipelineSound, NEW e \in Episodes, TakeSlot(e) \/ ComeDue(e)
    PROVE  PipelineSound'
<1> USE DEF PipelineSound
<1>1. CASE TakeSlot(e)
  <2>1. Listener \in Owners
    BY DEF Owners
  <2>2. [job[Listener][e] EXCEPT !.phase = "working"] \in SoundJobs
    <3>1. job[Listener][e] \in SoundJobs /\ "working" \in Phases
      BY <2>1 DEF JobTable, Phases
    <3> QED
      BY <3>1, JobPhaseSound
  <2>3. job' = [job EXCEPT ![Listener][e] = [job[Listener][e] EXCEPT !.phase = "working"]]
    BY <1>1, <2>1 DEF TakeSlot, JobTable
  <2> QED
    BY <1>1, <2>1, <2>2, <2>3, OneJobStep DEF TakeSlot
<1>2. CASE ComeDue(e)
  BY <1>2, ClaimSound DEF ComeDue
<1> QED
  BY <1>1, <1>2

(* Prepare, from a caller's copy of the row.                               *)
LEMMA PrepareStartsSound ==
    ASSUME PipelineSound, NEW e \in Episodes, NEW snap \in SoundRows, NEW f \in FeedSettings,
           PrepareStarts(e, snap, f)
    PROVE  PipelineSound'
<1> USE DEF PipelineSound
<1>1. Listener \in Owners /\ f.processed \in BOOLEAN /\ "slot" \in Phases
  BY DEF Owners, FeedSettings, Phases
<1>2. /\ inFlight' \in [Episodes -> Owners \cup {NoOwner}]
      /\ UNCHANGED <<hidden, disk, feed, life>>
  BY <1>1 DEF PrepareStarts
<1>3. CASE snap.state = "ready"
           /\ job' = [job EXCEPT ![Listener][e] = NewJob("slot", snap, f, f.processed)]
           /\ UNCHANGED row
  <2>1. snap \in ClaimedRows
    BY <1>3 DEF ClaimedRows
  <2>2. NewJob("slot", snap, f, f.processed) \in SoundJobs
    BY <1>1, <2>1, NewJobSound
  <2> QED
    BY <1>1, <1>2, <1>3, <2>2, OneJobStep
<1>4. CASE row[e].state = "discovered"
           /\ row' = [row EXCEPT ![e].state = "acquiring"]
           /\ job' = [job EXCEPT ![Listener][e] =
                        NewJob("slot", [row[e] EXCEPT !.state = "acquiring"], f, f.processed)]
  <2>1. [row[e] EXCEPT !.state = "acquiring"] \in ClaimedRows
    BY <1>4, ClaimSound
  <2>2. NewJob("slot", [row[e] EXCEPT !.state = "acquiring"], f, f.processed) \in SoundJobs
    BY <1>1, <2>1, NewJobSound
  <2>3. row' \in [Episodes -> SoundRows]
    BY <1>4, <2>1 DEF ClaimedRows
  <2> QED
    BY <1>1, <1>2, <1>4, <2>2, <2>3, OneJobStep
<1> QED
  BY <1>3, <1>4 DEF PrepareStarts

(* The end of the process, and what start-up makes of the rows.            *)
LEMMA StopSound ==
    ASSUME PipelineSound, Stopped \/ Crash \/ Shutdown
    PROVE  PipelineSound'
BY IdleSound DEF PipelineSound, Stopped, Crash, Shutdown, NoJobs, JobTable

LEMMA RestartSound ==
    ASSUME PipelineSound, NEW newFeed \in Settings, Restart(newFeed)
    PROVE  PipelineSound'
<1> USE DEF PipelineSound
<1>1. newFeed \in FeedSettings /\ NoAudio \in Audio
  BY SettingsType DEF NoAudio, Audio
<1>2. ASSUME NEW e \in Episodes
      PROVE  Reconciled(Recovered(row[e]), newFeed) \in SoundRows
  <2>1. Recovered(row[e]) \in SoundRows
    BY RecoveredSound
  <2> QED
    BY <1>1, <2>1, ReconciledSound DEF SoundRows
<1>3. ASSUME NEW e \in Episodes
      PROVE  QueuedUncached(Reconciled(Recovered(row[e]), newFeed)) \in SoundRows
  BY <1>2, QueuedSound
<1>4. row' \in [Episodes -> SoundRows]
  BY <1>2, <1>3 DEF Restart
<1>5. disk' \in [Episodes -> Audio]
  BY <1>1 DEF Restart
<1> QED
  BY <1>4, <1>5 DEF Restart

-----------------------------------------------------------------------------
(* What else writes rows.                                                  *)

LEMMA MaintenanceStutters == MaintenanceSound /\ UNCHANGED maintenanceVars => MaintenanceSound'
BY DEF MaintenanceSound, maintenanceVars

(* A step that saves rows or deletes files, and touches no job.            *)
LEMMA RowsAndFilesStep ==
    ASSUME PipelineSound, row' \in [Episodes -> SoundRows], disk' \in [Episodes -> Audio],
           UNCHANGED <<hidden, feed, inFlight, job, life>>
    PROVE  PipelineSound'
BY DEF PipelineSound

LEMMA AdminUpdate ==
    ASSUME MaintenanceSound, NEW a \in Admins, NEW q \in SoundAdmins,
           admin' = [admin EXCEPT ![a] = q], UNCHANGED <<sweep, changes>>
    PROVE  MaintenanceSound'
BY DEF MaintenanceSound

LEMMA AdminStarts ==
    ASSUME PipelineSound, MaintenanceSound, NEW a \in Admins,
           ChangeSettings(a) \/ AskToQueue(a)
    PROVE  PipelineSound' /\ MaintenanceSound'
<1>0. admin[a] \in SoundAdmins
  BY DEF MaintenanceSound
<1>1. CASE ChangeSettings(a)
  <2> DEFINE q == [admin[a] EXCEPT !.phase = "list"]
  <2>1. q \in SoundAdmins
    BY <1>0 DEF SoundAdmins, AdminRecs
  <2>2. admin' = [admin EXCEPT ![a] = q]
    BY <1>1 DEF ChangeSettings, MaintenanceSound
  <2>3. admin' \in [Admins -> SoundAdmins]
    BY <2>1, <2>2 DEF MaintenanceSound
  <2>4. changes' \in 0 .. MaxChanges
    BY <1>1, MaintenanceAssumption DEF ChangeSettings, MaintenanceSound
  <2>5. MaintenanceSound'
    BY <1>1, <2>3, <2>4 DEF ChangeSettings, MaintenanceSound
  <2> QED
    BY <1>1, <2>5 DEF ChangeSettings, PipelineSound
<1>2. CASE AskToQueue(a)
  <2>1. PICK kind \in {"failed", "uncached"}, targets \in SUBSET Episodes :
           admin' = [admin EXCEPT ![a].phase = "pick", ![a].todo = targets, ![a].kind = kind]
    BY <1>2 DEF AskToQueue
  <2> DEFINE q == [admin[a] EXCEPT !.phase = "pick", !.todo = targets, !.kind = kind]
  <2>2. q \in SoundAdmins
    BY <1>0 DEF SoundAdmins, AdminRecs
  <2>3. admin' = [admin EXCEPT ![a] = q]
    BY <2>1 DEF MaintenanceSound
  <2> HIDE DEF q
  <2> QED
    BY <1>2, <2>2, <2>3, AdminUpdate, PipelineStutters DEF AskToQueue
<1> QED
  BY <1>1, <1>2

LEMMA AdminStepSound ==
    ASSUME PipelineSound, MaintenanceSound, NEW a \in Admins, AdminStep(a)
    PROVE  PipelineSound' /\ MaintenanceSound'
<1>0. /\ admin[a] \in SoundAdmins /\ admin[a] \in AdminRecs
      /\ admin[a].copy \in [Episodes -> SoundRows]
      /\ admin[a].feed \in FeedSettings /\ admin[a].todo \in SUBSET Episodes
      /\ feed \in FeedSettings /\ NoAudio \in Audio
  BY SettingsType DEF MaintenanceSound, SoundAdmins, AdminRecs, PipelineSound, NoAudio, Audio
<1>a. NoCopy \in SoundRows
  BY IdleSound DEF NoCopy, ClaimedRows
<1>1. CASE ReconcileList(a)
  <2> DEFINE q == [admin[a] EXCEPT !.phase = "each", !.feed = feed, !.todo = Episodes, !.copy = row]
  <2>1. row \in [Episodes -> Rows] /\ row \in [Episodes -> SoundRows]
    BY DEF PipelineSound, SoundRows
  <2>2. q \in SoundAdmins
    BY <1>0, <2>1 DEF SoundAdmins, AdminRecs
  <2>3. admin' = [admin EXCEPT ![a] = q]
    BY <1>1 DEF ReconcileList, MaintenanceSound
  <2> HIDE DEF q
  <2> QED
    BY <1>1, <2>2, <2>3, AdminUpdate, PipelineStutters DEF ReconcileList
<1>2. CASE ReconcileEnd(a)
  <2> DEFINE q == IF admin[a].feed.ahead
                  THEN [AdminIdle EXCEPT !.phase = "pick", !.todo = Episodes] ELSE AdminIdle
  <2>1. q \in SoundAdmins
    BY IdleSound DEF SoundAdmins, AdminRecs
  <2>2. admin' = [admin EXCEPT ![a] = q]
    BY <1>2 DEF ReconcileEnd
  <2> HIDE DEF q
  <2> QED
    BY <1>2, <2>1, <2>2, AdminUpdate, PipelineStutters DEF ReconcileEnd
<1>3. CASE PickToQueue(a)
  <2> DEFINE ids == {e \in admin[a].todo : ~preparing(e) /\ ~hidden[e]}
             q   == IF Prepares(feed) /\ ids # {}
                    THEN [admin[a] EXCEPT !.phase = "apply", !.todo = ids] ELSE AdminIdle
  <2>1. ids \in SUBSET Episodes
    BY <1>0
  <2>2. admin' = [admin EXCEPT ![a] = q]
    BY <1>3 DEF PickToQueue
  <2> HIDE DEF ids
  <2>3. q \in SoundAdmins
    BY <1>0, <2>1, IdleSound DEF SoundAdmins, AdminRecs
  <2> HIDE DEF q
  <2> QED
    BY <1>3, <2>2, <2>3, AdminUpdate, PipelineStutters DEF PickToQueue
<1>4. CASE ApplyQueue(a)
  <2>1. ASSUME NEW e \in Episodes
        PROVE  row[e] \in SoundRows /\ QueuedFailed(row[e]) \in SoundRows
                 /\ QueuedUncached(row[e]) \in SoundRows
    BY QueuedSound DEF PipelineSound
  <2>2. row' \in [Episodes -> SoundRows]
    BY <1>4, <2>1 DEF ApplyQueue
  <2>3. PipelineSound'
    BY <1>4, <2>2, RowsAndFilesStep DEF ApplyQueue, PipelineSound
  <2> QED
    BY <1>4, <2>3, IdleSound, AdminUpdate DEF ApplyQueue
<1>5. ASSUME NEW e \in Episodes, ReconcileSkip(a, e)
      PROVE  PipelineSound' /\ MaintenanceSound'
  <2> DEFINE q == [admin[a] EXCEPT !.todo = @ \ {e}, !.copy[e] = NoCopy]
  <2>1. [admin[a].copy EXCEPT ![e] = NoCopy] \in [Episodes -> SoundRows]
    BY <1>0, <1>a
  <2>2. q \in SoundAdmins
    BY <1>0, <2>1 DEF SoundAdmins, AdminRecs, SoundRows
  <2>3. admin' = [admin EXCEPT ![a] = q]
    BY <1>5 DEF ReconcileSkip, MaintenanceSound
  <2> HIDE DEF q
  <2> QED
    BY <1>5, <2>2, <2>3, AdminUpdate, PipelineStutters DEF ReconcileSkip
<1>6. ASSUME NEW e \in Episodes, ReconcileEpisode(a, e)
      PROVE  PipelineSound' /\ MaintenanceSound'
  <2> DEFINE r == Reconciled(admin[a].copy[e], admin[a].feed)
             q == [admin[a] EXCEPT !.phase = "save", !.copy[e] = r]
  <2>1. r \in SoundRows
    BY <1>0, ReconciledSound DEF SoundRows
  <2>2. admin' = [admin EXCEPT ![a] = q]
    BY <1>0, <1>6 DEF ReconcileEpisode, MaintenanceSound
  <2> HIDE DEF r
  <2>3. q \in SoundAdmins
    BY <1>0, <2>1 DEF SoundAdmins, AdminRecs, SoundRows
  <2>4. disk' \in [Episodes -> Audio]
    BY <1>0, <1>6 DEF ReconcileEpisode, PipelineSound
  <2>5. PipelineSound'
    BY <1>6, <2>4, RowsAndFilesStep DEF ReconcileEpisode, PipelineSound
  <2> HIDE DEF q
  <2> QED
    BY <1>6, <2>2, <2>3, <2>5, AdminUpdate DEF ReconcileEpisode
<1>7. ASSUME NEW e \in Episodes, ReconcileSave(a, e)
      PROVE  PipelineSound' /\ MaintenanceSound'
  <2> DEFINE q == [admin[a] EXCEPT !.phase = "each", !.todo = @ \ {e}, !.copy[e] = NoCopy]
  <2>1. [admin[a].copy EXCEPT ![e] = NoCopy] \in [Episodes -> SoundRows]
    BY <1>0, <1>a
  <2>2. q \in SoundAdmins
    BY <1>0, <2>1 DEF SoundAdmins, AdminRecs, SoundRows
  <2>3. admin' = [admin EXCEPT ![a] = q]
    BY <1>7 DEF ReconcileSave, MaintenanceSound
  <2>4. row' \in [Episodes -> SoundRows]
    BY <1>0, <1>7 DEF ReconcileSave, PipelineSound
  <2>5. PipelineSound'
    BY <1>7, <2>4, RowsAndFilesStep DEF ReconcileSave, PipelineSound
  <2> HIDE DEF q
  <2> QED
    BY <1>7, <2>2, <2>3, <2>5, AdminUpdate DEF ReconcileSave
<1> QED
  BY <1>1, <1>2, <1>3, <1>4, <1>5, <1>6, <1>7 DEF AdminStep

LEMMA HousekeeperSound ==
    ASSUME PipelineSound, MaintenanceSound,
           \/ SweepRemove \/ SweepSave
           \/ \E e \in Episodes : SweepList(e) \/ RemoveOrphan(e)
    PROVE  PipelineSound' /\ MaintenanceSound'
<1>0. /\ sweep \in SoundSweeps /\ sweep \in SweepRecs /\ NoAudio \in Audio
      /\ sweep.ep \in Episodes /\ sweep.copy \in SoundRows
  BY DEF MaintenanceSound, SoundSweeps, SweepRecs, NoAudio, Audio
<1>1. CASE SweepRemove
  <2>1. [sweep EXCEPT !.phase = "save"] \in SoundSweeps
    BY <1>0 DEF SoundSweeps, SweepRecs
  <2>2. disk' \in [Episodes -> Audio]
    BY <1>0, <1>1 DEF SweepRemove, PipelineSound
  <2>3. PipelineSound'
    BY <1>1, <2>2, RowsAndFilesStep DEF SweepRemove, PipelineSound
  <2> QED
    BY <1>1, <2>1, <2>3 DEF SweepRemove, MaintenanceSound
<1>2. CASE SweepSave
  <2>1. ForgetCache(sweep.copy) \in SoundRows
    BY <1>0, ForgetCacheSound DEF SoundRows
  <2>2. row' \in [Episodes -> SoundRows]
    BY <1>2, <2>1 DEF SweepSave, PipelineSound
  <2>3. PipelineSound'
    BY <1>2, <2>2, RowsAndFilesStep DEF SweepSave, PipelineSound
  <2> QED
    BY <1>2, <2>3, IdleSound DEF SweepSave, MaintenanceSound
<1>3. ASSUME NEW e \in Episodes, SweepList(e)
      PROVE  PipelineSound' /\ MaintenanceSound'
  <2>1. row[e] \in SoundRows /\ row[e] \in Rows
    BY DEF PipelineSound, SoundRows
  <2>2. [phase |-> "remove", ep |-> e, copy |-> row[e]] \in SoundSweeps
    BY <2>1 DEF SoundSweeps, SweepRecs
  <2> QED
    BY <1>3, <2>2, PipelineStutters DEF SweepList, MaintenanceSound
<1>4. ASSUME NEW e \in Episodes, RemoveOrphan(e)
      PROVE  PipelineSound' /\ MaintenanceSound'
  <2>1. disk' \in [Episodes -> Audio]
    BY <1>0, <1>4 DEF RemoveOrphan, PipelineSound
  <2>2. PipelineSound'
    BY <1>4, <2>1, RowsAndFilesStep DEF RemoveOrphan, PipelineSound
  <2> QED
    BY <1>4, <2>2, MaintenanceStutters DEF RemoveOrphan
<1> QED
  BY <1>1, <1>2, <1>3, <1>4

LEMMA HidingSound ==
    ASSUME PipelineSound, NEW e \in Episodes, Hide(e) \/ Show(e)
    PROVE  PipelineSound'
<1> USE DEF PipelineSound
<1>1. CASE Hide(e)
  BY <1>1 DEF Hide
<1>2. CASE Show(e)
  <2> DEFINE next == IF Prepares(feed) /\ feed.ahead /\ ~row[e].cached THEN "due" ELSE "none"
             r == [row[e] EXCEPT !.backlog = TRUE, !.state = "ready", !.next = next]
  <2>1. next \in {"due", "none"}
    OBVIOUS
  <2>2. \/ UNCHANGED row
        \/ row[e].state \in {"discovered", "ready"} /\ row' = [row EXCEPT ![e] = r]
    BY <1>2 DEF Show
  <2> HIDE DEF next
  <2>3. ASSUME row[e].state \in {"discovered", "ready"} PROVE r \in SoundRows
    <3>1. /\ row[e] \in Rows /\ ~row[e].withheld /\ row[e].preparedWith.failed = "no"
      BY <2>3 DEF SoundRows, RowSound
    <3>2. r \in Rows
      BY <2>1, <3>1 DEF Rows, Times, States
    <3>3. r.state = "ready" /\ ~r.withheld /\ r.preparedWith.failed = "no"
      BY <3>1 DEF Rows
    <3> HIDE DEF r
    <3> QED
      BY <3>2, <3>3 DEF SoundRows, RowSound
  <2>4. row' \in [Episodes -> SoundRows]
    BY <2>2, <2>3
  <2> QED
    BY <1>2, <2>4 DEF Show
<1> QED
  BY <1>1, <1>2

-----------------------------------------------------------------------------
(* Serving.                                                                *)

LEMMA RequestUpdate ==
    ASSUME ServerSound, NEW r \in Requests, NEW q \in SoundRequests,
           request' = [request EXCEPT ![r] = q]
    PROVE  ServerSound'
BY DEF ServerSound

LEMMA AnswerSound ==
    ASSUME ServerSound, NEW r \in Requests, NEW kind \in Answers, NEW audio \in Audio,
           Answer(r, kind, audio)
    PROVE  ServerSound'
<1> DEFINE q == [request[r] EXCEPT !.phase = "answered", !.snap = Idle.snap, !.feed = Idle.feed,
                                   !.answer = kind, !.audio = audio]
<1>1. request[r] \in SoundRequests /\ Idle.snap \in SoundRows /\ Idle.feed \in FeedSettings
  BY IdleSound, SettingsType DEF ServerSound, ClaimedRows
<1>2. q \in SoundRequests
  BY <1>1 DEF SoundRequests, SoundRows, RequestRecs, RequestPhases, NotWithheldPhases
<1>3. request' = [request EXCEPT ![r] = q]
  BY DEF Answer, ServerSound
<1> HIDE DEF q
<1> QED
  BY <1>2, <1>3, RequestUpdate

(* A request moves on to a phase, its copy replaced by r: a sound one, and *)
(* not withheld where that has been found.                                 *)
LEMMA PhaseSound ==
    ASSUME NEW q \in SoundRequests, NEW phase \in RequestPhases, NEW s \in SoundRows,
           phase \in NotWithheldPhases => ~s.withheld
    PROVE  /\ [q EXCEPT !.phase = phase, !.snap = s] \in SoundRequests
           /\ s = q.snap => [q EXCEPT !.phase = phase] \in SoundRequests
           /\ s = q.snap => [q EXCEPT !.phase = phase, !.waited = TRUE] \in SoundRequests
<1>1. q \in RequestRecs /\ s \in Rows
  BY DEF SoundRequests, SoundRows
<1>2. [q EXCEPT !.phase = phase, !.snap = s] \in SoundRequests
  <2>1. [q EXCEPT !.phase = phase, !.snap = s] \in RequestRecs
    BY <1>1 DEF RequestRecs
  <2> QED
    BY <1>1, <2>1 DEF SoundRequests, RequestRecs
<1>3. ASSUME s = q.snap PROVE [q EXCEPT !.phase = phase] \in SoundRequests
  <2>1. [q EXCEPT !.phase = phase] \in RequestRecs
    BY <1>1 DEF RequestRecs
  <2> QED
    BY <1>1, <1>3, <2>1 DEF SoundRequests, RequestRecs
<1>4. ASSUME s = q.snap PROVE [q EXCEPT !.phase = phase, !.waited = TRUE] \in SoundRequests
  <2>1. [q EXCEPT !.phase = phase, !.waited = TRUE] \in RequestRecs
    BY <1>1 DEF RequestRecs
  <2> QED
    BY <1>1, <1>4, <2>1 DEF SoundRequests, RequestRecs
<1> QED
  BY <1>2, <1>3, <1>4

LEMMA AskSound ==
    ASSUME PipelineSound, ServerSound, NEW r \in Requests, NEW e \in Episodes, Ask(r, e)
    PROVE  PipelineSound' /\ ServerSound'
<1> DEFINE q == [RequestIdle EXCEPT !.phase = "feed", !.ep = e, !.snap = row[e], !.asked = feed]
<1>1. RequestIdle \in SoundRequests /\ row[e] \in SoundRows /\ feed \in FeedSettings
  BY IdleSound, SettingsType DEF PipelineSound
<1>2. q \in SoundRequests
  BY <1>1 DEF SoundRequests, SoundRows, RequestRecs, RequestPhases, NotWithheldPhases
<1>3. request' = [request EXCEPT ![r] = q]
  BY DEF Ask
<1> HIDE DEF q
<1> QED
  BY <1>2, <1>3, RequestUpdate, PipelineStutters DEF Ask

LEMMA RequestStepSound ==
    ASSUME PipelineSound, ServerSound, NEW r \in Requests, RequestStep(r)
    PROVE  PipelineSound' /\ ServerSound'
<1> DEFINE q == request[r]
<1>0. /\ q \in SoundRequests /\ q.snap \in SoundRows /\ q.ep \in Episodes
      /\ q.feed \in FeedSettings /\ q.snap.withheld \in BOOLEAN
      /\ q.phase \in NotWithheldPhases => ~q.snap.withheld
  BY DEF ServerSound, SoundRequests, RequestRecs, SoundRows, Rows
<1>1. /\ NoAudio \in Audio /\ feed \in FeedSettings
      /\ disk[q.ep] \in Audio /\ row[q.ep] \in SoundRows
  BY <1>0, SettingsType DEF NoAudio, Audio, PipelineSound
<1>2. Answers = {"none", "file", "stream", "redirect", "unavailable", "notfound"}
  BY DEF Answers
<1>3. ForgetCache(q.snap) \in SoundRows /\ ForgetCache(q.snap).withheld = q.snap.withheld
  <2>1. ForgetCache(q.snap) \in SoundRows
    BY <1>0, ForgetCacheSound DEF SoundRows
  <2>2. ForgetCache(q.snap).withheld = q.snap.withheld
    BY <1>0 DEF ForgetCache, SoundRows, Rows
  <2> QED
    BY <2>1, <2>2
<1>4. CASE ReadFeed(r)
  <2> DEFINE p == [q EXCEPT !.phase = "check", !.feed = feed]
  <2>1. p \in SoundRequests
    BY <1>0, <1>1 DEF SoundRequests, RequestRecs, RequestPhases, NotWithheldPhases
  <2>2. request' = [request EXCEPT ![r] = p]
    BY <1>4 DEF ReadFeed, ServerSound
  <2> HIDE DEF p
  <2> QED
    BY <1>4, <2>1, <2>2, RequestUpdate, PipelineStutters DEF ReadFeed
<1>5. CASE CheckEpisode(r)
  <2> DEFINE saves == ~preparing(q.ep) /\ ReconcileSaves(q.snap, q.feed)
             s == IF saves THEN Reconciled(q.snap, q.feed) ELSE q.snap
             phase == IF saves THEN "checksave" ELSE "serve"
             p == [q EXCEPT !.phase = phase, !.snap = s]
  <2>1. s \in SoundRows
    BY <1>0, ReconciledSound DEF SoundRows
  <2>2. phase \in RequestPhases /\ phase \notin NotWithheldPhases
    BY DEF RequestPhases, NotWithheldPhases
  <2>3. request' = [request EXCEPT ![r] = p]
    BY <1>5 DEF CheckEpisode, ServerSound
  <2>4. disk' \in [Episodes -> Audio]
    BY <1>0, <1>1, <1>5 DEF CheckEpisode, PipelineSound
  <2>5. PipelineSound'
    BY <1>5, <2>4, RowsAndFilesStep DEF CheckEpisode, PipelineSound
  <2> HIDE DEF s, phase
  <2>6. p \in SoundRequests
    BY <1>0, <2>1, <2>2, PhaseSound
  <2> HIDE DEF p, q
  <2> QED
    BY <2>3, <2>5, <2>6, RequestUpdate
<1>6. CASE SaveCheck(r)
  <2>1. row' \in [Episodes -> SoundRows]
    BY <1>0, <1>6 DEF SaveCheck, PipelineSound
  <2>2. PipelineSound'
    BY <1>6, <2>1, RowsAndFilesStep DEF SaveCheck, PipelineSound
  <2>3. [q EXCEPT !.phase = "serve"] \in SoundRequests
    BY <1>0, PhaseSound DEF RequestPhases, NotWithheldPhases
  <2>4. request' = [request EXCEPT ![r] = [q EXCEPT !.phase = "serve"]]
    BY <1>6 DEF SaveCheck, ServerSound
  <2> QED
    BY <2>2, <2>3, <2>4, RequestUpdate
<1>7. CASE ServeCached(r)
  <2>1. CASE Answer(r, "notfound", NoAudio) \/ Answer(r, "file", disk[q.ep])
    BY <1>1, <1>2, <1>7, <2>1, AnswerSound, PipelineStutters DEF ServeCached
  <2>2. CASE ~q.snap.withheld /\ request' = [request EXCEPT ![r].phase = "forget",
                                                            ![r].snap = ForgetCache(@)]
    <3>1. [q EXCEPT !.phase = "forget", !.snap = ForgetCache(q.snap)] \in SoundRequests
      BY <1>0, <1>3, <2>2, PhaseSound DEF RequestPhases
    <3>2. request' = [request EXCEPT ![r] = [q EXCEPT !.phase = "forget",
                                                      !.snap = ForgetCache(q.snap)]]
      BY <2>2 DEF ServerSound
    <3> QED
      BY <1>7, <3>1, <3>2, RequestUpdate, PipelineStutters DEF ServeCached
  <2>3. CASE ~q.snap.withheld /\ request' = [request EXCEPT ![r].phase = "route"]
    <3>1. [q EXCEPT !.phase = "route"] \in SoundRequests
      BY <1>0, <2>3, PhaseSound DEF RequestPhases
    <3>2. request' = [request EXCEPT ![r] = [q EXCEPT !.phase = "route"]]
      BY <2>3 DEF ServerSound
    <3> QED
      BY <1>7, <3>1, <3>2, RequestUpdate, PipelineStutters DEF ServeCached
  <2> QED
    BY <1>7, <2>1, <2>2, <2>3 DEF ServeCached
<1>8. CASE SaveForgotten(r)
  <2>1. row' \in [Episodes -> SoundRows]
    BY <1>0, <1>8 DEF SaveForgotten, PipelineSound
  <2>2. PipelineSound'
    BY <1>8, <2>1, RowsAndFilesStep DEF SaveForgotten, PipelineSound
  <2>3. [q EXCEPT !.phase = "route"] \in SoundRequests
    BY <1>0, <1>8, PhaseSound DEF SaveForgotten, RequestPhases, NotWithheldPhases
  <2>4. request' = [request EXCEPT ![r] = [q EXCEPT !.phase = "route"]]
    BY <1>8 DEF SaveForgotten, ServerSound
  <2> QED
    BY <2>2, <2>3, <2>4, RequestUpdate
<1>9. CASE Prepare(r)
  <2>1. CASE Answer(r, "unavailable", NoAudio) /\ UNCHANGED pipelineVars
    BY <1>1, <1>2, <2>1, AnswerSound, PipelineStutters
  <2>2. CASE /\ request' = [request EXCEPT ![r].phase = "waiting", ![r].waited = TRUE]
             /\ UNCHANGED pipelineVars \/ PrepareStarts(q.ep, q.snap, q.feed)
    <3>1. [q EXCEPT !.phase = "waiting", !.waited = TRUE] \in SoundRequests
      BY <1>0, PhaseSound DEF RequestPhases, NotWithheldPhases
    <3>2. request' = [request EXCEPT ![r] = [q EXCEPT !.phase = "waiting", !.waited = TRUE]]
      BY <2>2 DEF ServerSound
    <3>3. PipelineSound'
      BY <1>0, <2>2, PrepareStartsSound, PipelineStutters
    <3> QED
      BY <3>1, <3>2, <3>3, RequestUpdate
  <2> QED
    BY <1>9, <2>1, <2>2 DEF Prepare
<1>10. CASE StopWaiting(r)
  BY <1>1, <1>2, <1>10, AnswerSound, PipelineStutters DEF StopWaiting
<1>11. CASE Reread(r)
  <2>1. [q EXCEPT !.phase = "reread", !.snap = row[q.ep]] \in SoundRequests
    BY <1>0, <1>1, PhaseSound DEF RequestPhases, NotWithheldPhases
  <2>2. request' = [request EXCEPT ![r] = [q EXCEPT !.phase = "reread", !.snap = row[q.ep]]]
    BY <1>11 DEF Reread, ServerSound
  <2> QED
    BY <1>11, <2>1, <2>2, RequestUpdate, PipelineStutters DEF Reread
<1>12. CASE ServePrepared(r)
  <2>1. CASE \/ Answer(r, "file", disk[q.ep]) \/ Answer(r, "unavailable", NoAudio)
             \/ Answer(r, "notfound", NoAudio)
    BY <1>1, <1>2, <1>12, <2>1, AnswerSound, PipelineStutters DEF ServePrepared
  <2>2. CASE ~q.snap.withheld /\ request' = [request EXCEPT ![r].phase = "pass"]
    <3>1. [q EXCEPT !.phase = "pass"] \in SoundRequests
      BY <1>0, <2>2, PhaseSound DEF RequestPhases
    <3>2. request' = [request EXCEPT ![r] = [q EXCEPT !.phase = "pass"]]
      BY <2>2 DEF ServerSound
    <3> QED
      BY <1>12, <3>1, <3>2, RequestUpdate, PipelineStutters DEF ServePrepared
  <2> QED
    BY <1>12, <2>1, <2>2 DEF ServePrepared
<1>13. CASE Redirect(r) \/ Stream(r) \/ DiscardTee(r)
  BY <1>1, <1>2, <1>13, AnswerSound, PipelineStutters DEF Redirect, Stream, DiscardTee
<1>14. CASE StartTee(r)
  <2>1. ~q.snap.withheld
    BY <1>0, <1>14 DEF StartTee, Passes, NotWithheldPhases
  <2>2. [q EXCEPT !.phase = "tee"] \in SoundRequests
    BY <1>0, <2>1, PhaseSound DEF RequestPhases
  <2>3. request' = [request EXCEPT ![r] = [q EXCEPT !.phase = "tee"]]
    BY <1>14 DEF StartTee, ServerSound
  <2> QED
    BY <1>14, <2>2, <2>3, RequestUpdate, PipelineStutters DEF StartTee
<1>15. CASE CommitTee(r)
  <2>1. [by |-> "download", with |-> q.feed.with] \in Audio
    BY <1>0 DEF Audio, FeedSettings
  <2>2. disk' \in [Episodes -> Audio]
    BY <1>15, <2>1 DEF CommitTee, PipelineSound
  <2>3. PipelineSound'
    BY <1>15, <2>2, RowsAndFilesStep DEF CommitTee, PipelineSound
  <2>4. [q EXCEPT !.phase = "teesave"] \in SoundRequests
    BY <1>0, <1>15, PhaseSound DEF CommitTee, RequestPhases, NotWithheldPhases
  <2>5. request' = [request EXCEPT ![r] = [q EXCEPT !.phase = "teesave"]]
    BY <1>15 DEF CommitTee, ServerSound
  <2> QED
    BY <2>3, <2>4, <2>5, RequestUpdate
<1>16. CASE SaveTee(r)
  <2>1. ~q.snap.withheld
    BY <1>0, <1>16 DEF SaveTee, NotWithheldPhases
  <2>2. Teed(q.snap, q.feed) \in SoundRows
    BY <1>0, <2>1, TeedSound
  <2>3. row' \in [Episodes -> SoundRows]
    BY <1>16, <2>2 DEF SaveTee, PipelineSound
  <2>4. PipelineSound'
    BY <1>16, <2>3, RowsAndFilesStep DEF SaveTee, PipelineSound
  <2> QED
    BY <1>1, <1>2, <1>16, <2>4, AnswerSound DEF SaveTee
<1> QED
  BY <1>4, <1>5, <1>6, <1>7, <1>8, <1>9, <1>10, <1>11, <1>12, <1>13, <1>14, <1>15, <1>16
     DEF RequestStep, ServeStep

LEMMA WakeSound ==
    ASSUME ServerSound, NEW e \in Episodes, WakeWaiting(e)
    PROVE  ServerSound'
<1>1. ASSUME NEW r \in Requests
      PROVE  /\ request[r] \in SoundRequests
             /\ [request[r] EXCEPT !.phase = "woken"] \in SoundRequests
  <2>1. request[r] \in SoundRequests /\ request[r].snap \in SoundRows
    BY DEF ServerSound, SoundRequests
  <2> QED
    BY <2>1, PhaseSound DEF RequestPhases, NotWithheldPhases
<1> QED
  BY <1>1 DEF WakeWaiting, ServerSound

-----------------------------------------------------------------------------
(* The theorems on types and rows.                                         *)

LEMMA ServerStutters == ServerSound /\ UNCHANGED request => ServerSound'
BY DEF ServerSound

LEMMA NextSound == CopiesSound /\ [Next]_vars => CopiesSound'
<1> SUFFICES ASSUME CopiesSound, [Next]_vars PROVE CopiesSound'
  OBVIOUS
<1> USE DEF CopiesSound
<1>1. ASSUME NEW w \in Workers, WorkerStep(w), UNCHANGED <<maintenanceVars, request>>
      PROVE  CopiesSound'
  BY <1>1, WorkerStepSound, MaintenanceStutters, ServerStutters
<1>2. ASSUME NEW o \in Owners, NEW e \in Episodes, JobStep(o, e),
             UNCHANGED <<maintenanceVars, request>>
      PROVE  CopiesSound'
  BY <1>2, JobStepSound, MaintenanceStutters, ServerStutters
<1>3. ASSUME NEW o \in Owners, NEW e \in Episodes, EndJob(o, e)
      PROVE  CopiesSound'
  BY <1>3, EndFlightSound, WakeSound, MaintenanceStutters DEF EndJob
<1>4. ASSUME NEW e \in Episodes, TakeSlot(e) \/ ComeDue(e), UNCHANGED <<maintenanceVars, request>>
      PROVE  CopiesSound'
  BY <1>4, SlotAndTimeSound, MaintenanceStutters, ServerStutters
<1>5. ASSUME NEW r \in Requests, NEW e \in Episodes, Ask(r, e), UNCHANGED maintenanceVars
      PROVE  CopiesSound'
  BY <1>5, AskSound, MaintenanceStutters
<1>6. ASSUME NEW r \in Requests, RequestStep(r), UNCHANGED maintenanceVars
      PROVE  CopiesSound'
  BY <1>6, RequestStepSound, MaintenanceStutters
<1>7. ASSUME NEW a \in Admins, ChangeSettings(a) \/ AskToQueue(a) \/ AdminStep(a),
             UNCHANGED request
      PROVE  CopiesSound'
  BY <1>7, AdminStarts, AdminStepSound, ServerStutters
<1>8. ASSUME \/ SweepRemove \/ SweepSave
             \/ \E e \in Episodes : SweepList(e) \/ RemoveOrphan(e),
             UNCHANGED request
      PROVE  CopiesSound'
  BY <1>8, HousekeeperSound, ServerStutters
<1>9. ASSUME NEW e \in Episodes, Hide(e) \/ Show(e), UNCHANGED request
      PROVE  CopiesSound'
  <2>1. UNCHANGED maintenanceVars
    BY <1>9 DEF Hide, Show
  <2> QED
    BY <1>9, <2>1, HidingSound, MaintenanceStutters, ServerStutters
<1>10. ASSUME Shutdown, UNCHANGED <<maintenanceVars, request>> PROVE CopiesSound'
  BY <1>10, StopSound, MaintenanceStutters, ServerStutters
<1>11. ASSUME StopProcess PROVE CopiesSound'
  BY <1>11, StopSound, IdleSound DEF StopProcess, ForgetMemory, MaintenanceSound, ServerSound
<1>12. ASSUME StartProcess PROVE CopiesSound'
  <2>1. CASE Restart(feed) /\ UNCHANGED <<maintenanceVars, request>>
    BY <2>1, RestartSound, MaintenanceStutters, ServerStutters DEF PipelineSound
  <2>2. CASE /\ changes < MaxChanges /\ changes' = changes + 1
             /\ \E s \in Settings \ {feed} : Restart(s)
             /\ UNCHANGED <<admin, sweep, request>>
    <3>1. PipelineSound'
      BY <2>2, RestartSound
    <3>2. MaintenanceSound'
      BY <2>2, MaintenanceAssumption DEF MaintenanceSound
    <3> QED
      BY <2>2, <3>1, <3>2, ServerStutters
  <2> QED
    BY <1>12, <2>1, <2>2 DEF StartProcess
<1>13. CASE UNCHANGED vars
  BY <1>13, PipelineStutters, MaintenanceStutters, ServerStutters DEF vars
<1> QED
  BY <1>1, <1>2, <1>3, <1>4, <1>5, <1>6, <1>7, <1>8, <1>9, <1>10, <1>11, <1>12, <1>13 DEF Next

LEMMA CopiesAlwaysSound == Spec => []CopiesSound
BY InitSound, NextSound, PTL DEF Spec

(* Every variable keeps its type, whatever the interleaving of jobs,       *)
(* requests, admins, the housekeeper, crashes and restarts.                *)
THEOREM TypeCorrect == Spec => []TypeOK
<1>1. CopiesSound => TypeOK
  BY DEF CopiesSound, PipelineSound, MaintenanceSound, ServerSound, TypeOK, JobTable,
         SoundRows, SoundJobs, SoundAdmins, SoundSweeps, SoundRequests
<1> QED
  BY <1>1, CopiesAlwaysSound, PTL

(* No write of a stale copy, by a job, a tee, a check, Reconcile or the    *)
(* housekeeper, leaves a row the rest of the code cannot act on: withheld  *)
(* without being failed, withheld with nothing to try it again, waiting    *)
(* past the end of retryDelays, or labelled failed when it is not.         *)
THEOREM RowsAlwaysSound == Spec => []RowsSound
<1>1. CopiesSound => RowsSound
  BY DEF CopiesSound, PipelineSound, RowsSound, SoundRows
<1> QED
  BY <1>1, CopiesAlwaysSound, PTL
=============================================================================
