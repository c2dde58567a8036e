----------------------- MODULE EpisodeLifecycleProofs -----------------------
(***************************************************************************)
(* EpisodeSystem implements EpisodeLifecycle, clients never get what the   *)
(* failure policy hides, and claimed episodes, queued episodes and         *)
(* finished files are accounted for.                                       *)
(*                                                                         *)
(* All of it is about rows written back from copies of any age.  Two facts *)
(* make that harmless.  While the settings last, every row and every copy  *)
(* is one the settings have nothing against (Kept), so no check ever saves *)
(* one.  And a copy of an episode that has been prepared or given up on    *)
(* says so of the row as well, for good (FollowsRow): what is written over *)
(* a waiting row comes from the one job that claimed it.  Only what is     *)
(* hidden and, where no stream may be kept, what is queued hold however    *)
(* often the settings change.                                              *)
(***************************************************************************)
EXTENDS EpisodeRegistryProofs

(* No feed keeps a backlog waiting that clients may stream into the cache  *)
(* meanwhile: only there does a stream write a waiting row back (see the   *)
(* run v_tee_strands).                                                     *)
NoneStrands ==
    \A s \in Settings : s.mode = "cache" /\ s.ahead /\ ~s.processed => Backlog = {}

Waits(r) == r.state \in {"discovered", "acquiring"}

(* Streams of such a feed's episodes may be kept as they are.              *)
Tees(f) == f.mode = "cache" /\ ~f.processed

(* A row as the feed's settings leave it: labelled with them, withheld if  *)
(* they say so, without an attempt time once it has its file; and one that *)
(* waits has a file only if a stream of the backlog stranded it.           *)
Kept(r, f) ==
    /\ r.state = "failed" => r.preparedWith = FailedRecipe(f)
    /\ HasFile(r) => Prepares(f) /\ r.preparedWith = Recipe(f)
    /\ r.state = "failed" /\ f.processed /\ f.hide => r.withheld
    /\ HasFile(r) /\ f.processed => r.next = "none"
    /\ Waits(r) /\ r.cached => r.backlog /\ Tees(f)
    /\ NoneStrands /\ Tees(f) /\ Waits(r) => ~r.backlog

KeptJob(j, f) ==
    /\ Kept(j.snap, f)
    /\ j.phase \notin {"idle", "over"} => Prepares(f)
    /\ j.phase \in Loaded => j.feed = f /\ (f.processed => j.processing)
    /\ j.phase = "joining" => j.snap.state # "acquiring"

(* No check saves a copy; and a copy that a stream or a missing file will  *)
(* write back waits for nothing.                                           *)
KeptRequest(q, f) ==
    /\ Kept(q.snap, f)
    /\ q.phase \notin {"idle", "feed", "answered"} => q.feed = f
    /\ q.phase # "checksave"
    /\ q.phase = "forget" /\ NoneStrands => ~Waits(q.snap)
    /\ q.phase = "pass" => q.snap.state = "failed"
    /\ q.phase \in {"tee", "teesave"} =>
          /\ f.mode = "cache"
          /\ \/ q.snap.state = "failed"
             \/ ~f.processed /\ (q.snap.backlog \/ q.snap.state = "ready")
    /\ f.processed /\ f.hide =>
          /\ q.answer # "stream" /\ q.audio.by # "download"
          /\ q.phase \notin {"pass", "tee", "teesave"}

RowsKept == \A e \in Episodes : Kept(row[e], feed)
FilesKept == feed.processed /\ feed.hide => \A e \in Episodes : disk[e].by # "download"
JobsKept == \A o \in Owners, e \in Episodes : KeptJob(job[o][e], feed)
RequestsKept == \A r \in Requests : KeptRequest(request[r], feed)
AdminsKept == \A a \in Admins : admin[a].phase \in {"idle", "pick", "apply"}
SweepKept == Kept(sweep.copy, feed) /\ (sweep.phase # "idle" => sweep.copy.cached)

PipelineKept == RowsKept /\ FilesKept /\ JobsKept

AllKept == PipelineKept /\ RequestsKept /\ AdminsKept /\ SweepKept

(* The first half of the invariant: as long as the settings have not       *)
(* changed.                                                                *)
SettingsKept == changes = 0 => AllKept

-----------------------------------------------------------------------------
(* Rows.                                                                   *)

(* New rows, and what idle jobs, requests and the housekeeper hold.        *)
LEMMA KeptNew ==
    ASSUME NEW f \in FeedSettings, NEW backlog \in BOOLEAN, NEW state \in {"discovered", "ready"},
           state = "discovered" /\ NoneStrands /\ Tees(f) => ~backlog
    PROVE  Kept(NewRow(state, backlog), f)
BY DEF Kept, NewRow, HasFile, Waits

LEMMA KeptIdle ==
    ASSUME NEW f \in FeedSettings
    PROVE  /\ Kept(Idle.snap, f) /\ KeptJob(Idle, f) /\ KeptJob(Over, f)
           /\ Idle.phase = "idle" /\ Over.phase = "over"
           /\ KeptRequest(RequestIdle, f)
<1>1. Kept(NewRow("ready", FALSE), f)
  BY KeptNew
<1>2. Kept(Idle.snap, f) /\ Idle.phase = "idle"
  BY <1>1 DEF Idle
<1>3. Over.phase = "over" /\ Over.snap = Idle.snap
  BY DEF Over, Idle
<1>4. KeptJob(Idle, f) /\ KeptJob(Over, f)
  BY <1>2, <1>3 DEF KeptJob, Loaded
<1>5. KeptRequest(RequestIdle, f)
  BY <1>2 DEF KeptRequest, RequestIdle, NoAudio
<1> QED
  BY <1>2, <1>3, <1>4, <1>5

(* A claim keeps a row, and so does the time that comes.                   *)
LEMMA KeptClaims ==
    ASSUME NEW r \in SoundRows, NEW f \in FeedSettings, Kept(r, f)
    PROVE  /\ r.state = "discovered" => Kept([r EXCEPT !.state = "acquiring"], f)
           /\ Queueable(r) => Kept([r EXCEPT !.next = "later"], f)
           /\ r.next = "later" => Kept([r EXCEPT !.next = "due"], f)
BY DEF SoundRows, Rows, Kept, HasFile, Waits, Queueable

(* The settings have nothing against it.                                   *)
LEMMA KeptFits ==
    ASSUME NEW r \in SoundRows, NEW f \in FeedSettings, Kept(r, f)
    PROVE  ~ReconcileSaves(r, f) /\ Reconciled(r, f) = r
<1>1. FailedRecipe(f).failed # "no" /\ NoRecipe.failed = "no" /\ WithheldRetryDelays \in Nat \ {0}
  BY RecipeType, DelaysAssumption
<1>2. ~FailureOutdated(r, f)
  BY DEF Kept, FailureOutdated
<1>3. Prepares(f) => Recipe(f) # NoRecipe
  BY DEF Prepares, Recipe, NoRecipe, FeedSettings
<1>4. ~FileUnlabelled(r, f) /\ ~FileOutdated(r, f)
  BY <1>3 DEF Kept, FileUnlabelled, FileOutdated
<1>5. ~RestartsSlowRetries(r)
  BY <1>1 DEF RestartsSlowRetries, SoundRows, RowSound
<1>6. r.state = "failed" => r.preparedWith = FailedRecipe(f) /\ r.preparedWith # NoRecipe
  BY <1>1 DEF Kept
<1>7. ASSUME r.state = "failed" PROVE [r EXCEPT !.preparedWith = FailedRecipe(f), !.next = @] = r
  BY <1>6, <1>7 DEF SoundRows, Rows
<1>8. Reconciled(r, f) = r
  BY <1>2, <1>4, <1>5, <1>7 DEF Reconciled
<1> QED
  BY <1>2, <1>4, <1>5, <1>6, <1>8 DEF ReconcileSaves

(* Start-up, the commands, the housekeeper and the rules keep it.          *)
LEMMA KeptQueued ==
    ASSUME NEW r \in SoundRows, NEW f \in FeedSettings, Kept(r, f)
    PROVE  /\ Kept(Recovered(r), f) /\ Kept(QueuedUncached(r), f) /\ Kept(QueuedFailed(r), f)
           /\ Kept(ForgetCache(r), f)
<1>1. r \in Rows
  BY DEF SoundRows
<1>2. Kept(Recovered(r), f)
  BY <1>1 DEF Recovered, Rows, Kept, HasFile, Waits
<1>3. Kept(QueuedUncached(r), f)
  BY <1>1 DEF QueuedUncached, Rows, Kept, HasFile, Waits
<1>4. Kept(QueuedFailed(r), f)
  BY <1>1 DEF QueuedFailed, Rows, Kept, HasFile, Waits
<1>5. Kept(ForgetCache(r), f)
  BY <1>1 DEF ForgetCache, Rows, Kept, HasFile, Waits
<1> QED
  BY <1>2, <1>3, <1>4, <1>5

LEMMA KeptShown ==
    ASSUME NEW r \in SoundRows, NEW f \in FeedSettings, Kept(r, f), ~r.backlog,
           r.state \in {"discovered", "ready"}, NEW next \in Times, r.cached => next = "none"
    PROVE  Kept([r EXCEPT !.backlog = TRUE, !.state = "ready", !.next = next], f)
<1>1. r \in Rows /\ (r.cached => r.state = "ready")
  BY DEF SoundRows, Kept, Waits
<1> QED
  BY <1>1 DEF Rows, Kept, HasFile, Waits

(* A job's copy is one of the feed, and so is what it records.             *)
LEMMA KeptOutcome ==
    ASSUME NEW j \in SoundJobs, NEW f \in FeedSettings, KeptJob(j, f), j.phase = "record"
    PROVE  Kept(OutcomeRow(j), f)
<1>1. /\ j.snap \in Rows /\ RowSound(j.snap) /\ j.snap.state # "discovered"
      /\ j.processing \in BOOLEAN /\ Kept(j.snap, f)
  BY DEF SoundJobs, JobRecs, ClaimedRows, SoundRows, KeptJob
<1>2. j.feed = f /\ (f.processed => j.processing) /\ Prepares(f)
  BY DEF KeptJob, Loaded
<1>3. f.processed \in BOOLEAN /\ f.hide \in BOOLEAN
  BY DEF FeedSettings
<1> DEFINE snap == j.snap
           c == Counted(snap)
<1>4. /\ c \in Rows /\ c.withheld = snap.withheld /\ c.preparedWith = snap.preparedWith
      /\ c.state = snap.state /\ c.cached = snap.cached /\ c.backlog = snap.backlog
      /\ c.next = snap.next
  BY <1>1, CountersType DEF Counted, Rows
<1>5. Kept(Succeeded(snap, f, j.processing), f)
  <2>1. NoFailure(snap) \in Rows /\ NoFailure(snap).next = "none"
    BY <1>1, CountersType DEF NoFailure, Rows
  <2>2. /\ Succeeded(snap, f, j.processing).state = "ready"
        /\ Succeeded(snap, f, j.processing).preparedWith = Recipe(f)
        /\ Succeeded(snap, f, j.processing).next = "none"
    BY <2>1 DEF Succeeded, Rows
  <2> HIDE DEF snap
  <2> QED
    BY <1>2, <2>2 DEF Kept, HasFile, Waits
<1>6. ASSUME snap.state = "failed" PROVE Kept(FailedAgain(snap, f), f)
  <2>1. /\ FailedAgain(snap, f).state = "failed"
        /\ FailedAgain(snap, f).preparedWith = FailedRecipe(f)
        /\ FailedAgain(snap, f).withheld = snap.withheld
    BY <1>4, <1>6 DEF FailedAgain, Rows
  <2> QED
    BY <1>1, <1>6, <2>1 DEF Kept, HasFile, Waits
<1>7. Kept(GaveUp(snap, f, j.processing), f)
  <2>1. /\ GaveUp(snap, f, j.processing).state = "failed"
        /\ GaveUp(snap, f, j.processing).preparedWith = FailedRecipe(f)
        /\ j.processing => GaveUp(snap, f, j.processing).withheld = f.hide
    BY <1>4 DEF GaveUp, Rows
  <2> QED
    BY <1>2, <2>1 DEF Kept, HasFile, Waits
<1>8. ASSUME snap.state # "failed" PROVE Kept(TriedAgain(snap), f)
  <2>1. CASE snap.state = "acquiring"
    <3>1. /\ TriedAgain(snap).state = "discovered"
          /\ TriedAgain(snap).cached = snap.cached
          /\ TriedAgain(snap).backlog = snap.backlog
      BY <1>4, <2>1 DEF TriedAgain, Rows
    <3> QED
      BY <1>1, <2>1, <3>1 DEF Kept, HasFile, Waits
  <2>2. CASE snap.state # "acquiring"
    <3>1. /\ TriedAgain(snap).state = "ready" /\ TriedAgain(snap).next = "none"
          /\ TriedAgain(snap).cached = snap.cached
          /\ TriedAgain(snap).preparedWith = snap.preparedWith
      BY <1>1, <1>4, <1>8, <2>2 DEF TriedAgain, Rows, States
    <3>2. snap.state = "ready"
      BY <1>1, <1>8, <2>2 DEF Rows, States
    <3> QED
      BY <1>1, <3>1, <3>2 DEF Kept, HasFile, Waits
  <2> QED
    BY <2>1, <2>2
<1>9. Kept(Failure(snap, f, j.processing, j.made = "permanent"), f)
  BY <1>6, <1>7, <1>8 DEF Failure
<1> QED
  BY <1>2, <1>5, <1>9 DEF OutcomeRow

LEMMA KeptTeed ==
    ASSUME NEW r \in SoundRows, NEW f \in FeedSettings, Kept(r, f), f.mode = "cache",
           \/ r.state = "failed"
           \/ ~f.processed /\ (r.backlog \/ r.state = "ready")
    PROVE  Kept(Teed(r, f), f)
<1> DEFINE t == Teed(r, f)
           state == IF r.state = "failed" /\ ~f.processed THEN "ready" ELSE r.state
<1>1. r \in Rows
  BY DEF SoundRows
<1>2. /\ t.state = state /\ t.cached /\ t.backlog = r.backlog
      /\ t.withheld = r.withheld /\ t.next = r.next
      /\ state = "ready" => t.preparedWith = Recipe(f)
      /\ state # "ready" => t.preparedWith = r.preparedWith
  BY <1>1 DEF Teed, Rows
<1>3. Prepares(f) /\ (f.processed => r.state = "failed")
  BY DEF Prepares
<1> HIDE DEF t
<1>4. ASSUME f.processed PROVE Kept(t, f)
  BY <1>2, <1>3, <1>4 DEF Kept, HasFile, Waits
<1>5. ASSUME ~f.processed PROVE Kept(t, f)
  BY <1>2, <1>3, <1>5 DEF Kept, HasFile, Waits, Tees
<1> QED
  BY <1>4, <1>5 DEF t

(* A job that moves on.                                                    *)
LEMMA KeptPhase ==
    ASSUME NEW j \in JobRecs, NEW f \in FeedSettings, KeptJob(j, f), NEW p \in Phases,
           Prepares(f), p \in Loaded => j.phase \in Loaded, p # "joining"
    PROVE  KeptJob([j EXCEPT !.phase = p], f)
BY DEF JobRecs, KeptJob

-----------------------------------------------------------------------------
(* Steps of the pipeline.                                                  *)

LEMMA OneJobKept ==
    ASSUME PipelineSound, JobsKept, NEW o \in Owners, NEW e \in Episodes, NEW j,
           KeptJob(j, feed), job' = [job EXCEPT ![o][e] = j], UNCHANGED feed
    PROVE  JobsKept'
BY DEF PipelineSound, JobTable, JobsKept

LEMMA OneRowKept ==
    ASSUME PipelineSound, RowsKept, NEW e \in Episodes, NEW r,
           Kept(r, feed), row' = [row EXCEPT ![e] = r], UNCHANGED feed
    PROVE  RowsKept'
BY DEF PipelineSound, RowsKept

LEMMA NewJobKept ==
    ASSUME NEW f \in FeedSettings, NEW phase \in {"claimed", "joining", "slot"}, NEW snap, NEW g,
           NEW processing, Kept(snap, f), Prepares(f),
           phase # "claimed" => g = f /\ (f.processed => processing),
           phase = "joining" => snap.state # "acquiring"
    PROVE  KeptJob(NewJob(phase, snap, g, processing), f)
BY DEF NewJob, KeptJob, Loaded

LEMMA FeedType == ASSUME PipelineSound PROVE feed \in FeedSettings
BY SettingsType DEF PipelineSound

LEMMA WorkerStepKept ==
    ASSUME PipelineSound, PipelineKept, NEW w \in Workers, WorkerStep(w)
    PROVE  PipelineKept'
<1> USE DEF PipelineKept
<1>0. w \in Owners /\ feed \in FeedSettings /\ feed' = feed /\ FilesKept'
  <2>1. feed' = feed /\ disk' = disk
    BY DEF WorkerStep, ClaimNextEpisode, ClaimQueuedEpisode, RunBatch, StartFlight, LoadFeed,
           ClaimQueuedEpisodesForFeed, JoinBatch
  <2> QED
    BY <2>1, FeedType DEF Owners, FilesKept
<1>a. ASSUME NEW e \in Episodes
      PROVE  /\ row[e] \in SoundRows /\ Kept(row[e], feed)
             /\ job[w][e] \in JobRecs /\ KeptJob(job[w][e], feed)
  BY <1>0 DEF PipelineSound, JobTable, SoundJobs, RowsKept, JobsKept
<1>1. CASE ClaimNextEpisode(w)
  <2>1. PICK e \in NewWork :
           /\ row' = [row EXCEPT ![e].state = "acquiring"]
           /\ job' = [job EXCEPT ![w][e] =
                        NewJob("claimed", [row[e] EXCEPT !.state = "acquiring"], Idle.feed, FALSE)]
    BY <1>1 DEF ClaimNextEpisode
  <2> DEFINE r == [row[e] EXCEPT !.state = "acquiring"]
  <2>2. e \in Episodes /\ Prepares(feed) /\ row[e].state = "discovered"
    BY <2>1 DEF NewWork, WaitingForFirst
  <2>3. Kept(r, feed)
    BY <1>0, <1>a, <2>2, KeptClaims
  <2>4. row' = [row EXCEPT ![e] = r]
    BY <2>1 DEF PipelineSound
  <2>5. KeptJob(NewJob("claimed", r, Idle.feed, FALSE), feed)
    BY <1>0, <2>2, <2>3, NewJobKept
  <2> QED
    BY <1>0, <2>1, <2>2, <2>3, <2>4, <2>5, OneJobKept, OneRowKept
<1>2. CASE ClaimQueuedEpisode(w)
  <2>1. PICK e \in QueuedWork :
           /\ row' = [row EXCEPT ![e].next = "later"]
           /\ job' = [job EXCEPT ![w][e] =
                        NewJob("claimed", [row[e] EXCEPT !.next = "later"], Idle.feed, FALSE)]
    BY <1>2 DEF ClaimQueuedEpisode
  <2> DEFINE r == [row[e] EXCEPT !.next = "later"]
  <2>2. e \in Episodes /\ Prepares(feed) /\ Queueable(row[e])
    BY <2>1 DEF QueuedWork, QueuedAndDue
  <2>3. Kept(r, feed)
    BY <1>0, <1>a, <2>2, KeptClaims
  <2>4. row' = [row EXCEPT ![e] = r]
    BY <2>1 DEF PipelineSound
  <2>5. KeptJob(NewJob("claimed", r, Idle.feed, FALSE), feed)
    BY <1>0, <2>2, <2>3, NewJobKept
  <2> QED
    BY <1>0, <2>1, <2>2, <2>3, <2>4, <2>5, OneJobKept, OneRowKept
<1>3. CASE RunBatch(w)
  <2>1. /\ job' = [job EXCEPT ![w] = [e \in Episodes |->
               IF job[w][e].phase = "joined" THEN [job[w][e] EXCEPT !.phase = "working"]
                                             ELSE job[w][e]]]
        /\ row' = row
    BY <1>3 DEF RunBatch
  <2>2. ASSUME NEW e \in Episodes, job[w][e].phase = "joined"
        PROVE  KeptJob([job[w][e] EXCEPT !.phase = "working"], feed)
    <3>1. Prepares(feed)
      BY <1>a, <2>2 DEF KeptJob
    <3> QED
      BY <1>0, <1>a, <2>2, <3>1, KeptPhase DEF Loaded, Phases
  <2>3. JobsKept'
    BY <1>0, <1>a, <2>1, <2>2 DEF JobsKept, PipelineSound, JobTable
  <2> QED
    BY <1>0, <2>1, <2>3 DEF RowsKept
<1>4. ASSUME NEW e \in Episodes, StartFlight(w, e) \/ JoinBatch(w, e)
      PROVE  PipelineKept'
  <2>1. PICK p \in {"started", "joined"} :
           /\ p = "started" => job[w][e].phase = "claimed"
           /\ p = "joined" => job[w][e].phase = "joining"
           /\ \/ job' = [job EXCEPT ![w][e] = [job[w][e] EXCEPT !.phase = p]]
              \/ job' = [job EXCEPT ![w][e] = Idle]
    BY <1>0, <1>4 DEF StartFlight, JoinBatch, PipelineSound, JobTable
  <2>2. Prepares(feed)
    BY <1>a, <2>1 DEF KeptJob
  <2>3. KeptJob([job[w][e] EXCEPT !.phase = p], feed)
    BY <1>0, <1>a, <2>1, <2>2, KeptPhase DEF Loaded, Phases
  <2>4. JobsKept'
    BY <1>0, <2>1, <2>3, KeptIdle, OneJobKept
  <2> QED
    BY <1>0, <1>4, <2>4 DEF RowsKept, StartFlight, JoinBatch
<1>5. ASSUME NEW e \in Episodes, LoadFeed(w, e)
      PROVE  PipelineKept'
  <2> DEFINE batched == BatchSize > 1 /\ job[w][e].snap.state # "acquiring"
             phase   == IF batched THEN "batch" ELSE "working"
             j == [job[w][e] EXCEPT !.phase = phase, !.feed = feed,
                                    !.processing = batched \/ feed.processed]
  <2>1. job' = [job EXCEPT ![w][e] = j] /\ job[w][e].phase = "started" /\ row' = row
    BY <1>0, <1>5 DEF LoadFeed, PipelineSound, JobTable
  <2>2. Prepares(feed) /\ Kept(job[w][e].snap, feed)
    BY <1>a, <2>1 DEF KeptJob
  <2>3. /\ j.phase = phase /\ j.feed = feed /\ (feed.processed => j.processing)
        /\ j.snap = job[w][e].snap
    BY <1>a DEF JobRecs
  <2>4. phase \in Loaded /\ phase # "joining"
    BY DEF Loaded
  <2> HIDE DEF j, phase
  <2>5. KeptJob(j, feed)
    BY <2>2, <2>3, <2>4 DEF KeptJob
  <2> QED
    BY <1>0, <2>1, <2>5, OneJobKept DEF RowsKept
<1>6. ASSUME NEW first \in Episodes, ClaimQueuedEpisodesForFeed(w, first)
      PROVE  PipelineKept'
  <2>1. PICK more \in SUBSET {e \in Episodes \ {first} : ~hidden[e] /\ QueuedAndDue(row[e])} :
           /\ row' = [e \in Episodes |-> IF e \in more THEN [row[e] EXCEPT !.next = "later"]
                                                       ELSE row[e]]
           /\ job' = [job EXCEPT ![w] = [e \in Episodes |->
                         IF e \in more
                         THEN NewJob("joining", [row[e] EXCEPT !.next = "later"],
                                     job[w][first].feed, TRUE)
                         ELSE IF e = first THEN [job[w][e] EXCEPT !.phase = "joined"]
                         ELSE job[w][e]]]
    BY <1>6 DEF ClaimQueuedEpisodesForFeed
  <2>2. job[w][first].phase = "batch"
    BY <1>6 DEF ClaimQueuedEpisodesForFeed
  <2>3. Prepares(feed) /\ job[w][first].feed = feed
    BY <1>a, <2>2 DEF KeptJob, Loaded
  <2>4. ASSUME NEW e \in more
        PROVE  /\ Kept([row[e] EXCEPT !.next = "later"], feed)
               /\ [row[e] EXCEPT !.next = "later"].state # "acquiring"
    <3>1. e \in Episodes /\ Queueable(row[e])
      BY <2>1, <2>4 DEF QueuedAndDue
    <3>2. Kept([row[e] EXCEPT !.next = "later"], feed)
      BY <1>0, <1>a, <3>1, KeptClaims
    <3>3. row[e] \in Rows
      BY <1>a, <3>1 DEF SoundRows
    <3>4. [row[e] EXCEPT !.next = "later"].state # "acquiring"
      BY <3>1, <3>3 DEF Rows, Queueable
    <3> QED
      BY <3>2, <3>4
  <2>5. ASSUME NEW e \in more
        PROVE  KeptJob(NewJob("joining", [row[e] EXCEPT !.next = "later"],
                              job[w][first].feed, TRUE), feed)
    BY <1>0, <2>3, <2>4, NewJobKept
  <2>6. KeptJob([job[w][first] EXCEPT !.phase = "joined"], feed)
    BY <1>0, <1>a, <2>2, <2>3, KeptPhase DEF Loaded, Phases
  <2>7. JobsKept'
    BY <1>0, <1>a, <2>1, <2>5, <2>6 DEF JobsKept, PipelineSound, JobTable
  <2>8. RowsKept'
    BY <1>0, <1>a, <2>1, <2>4 DEF RowsKept
  <2> QED
    BY <1>0, <2>7, <2>8
<1> QED
  BY <1>1, <1>2, <1>3, <1>4, <1>5, <1>6 DEF WorkerStep

LEMMA JobStepKept ==
    ASSUME PipelineSound, PipelineKept, NEW o \in Owners, NEW e \in Episodes,
           JobStep(o, e) \/ EndFlight(o, e)
    PROVE  PipelineKept'
<1> USE DEF PipelineKept
<1>0. feed \in FeedSettings /\ feed' = feed
  BY FeedType DEF JobStep, Attempt, RecordOutcome, AbandonJob, EndFlight
<1>a. /\ job[o][e] \in SoundJobs /\ job[o][e] \in JobRecs /\ KeptJob(job[o][e], feed)
      /\ disk \in [Episodes -> Audio]
  BY DEF PipelineSound, JobTable, SoundJobs, JobsKept
<1>1. CASE Attempt(o, e)
  <2>1. PICK outcome \in Outcomes \ {"pending"} :
           /\ job' = [job EXCEPT ![o][e].phase = "record", ![o][e].made = outcome]
           /\ disk' = IF outcome = "ok"
                      THEN [disk EXCEPT ![e] =
                              [by |-> IF job[o][e].processing THEN "processor" ELSE "download",
                               with |-> job[o][e].feed.with]]
                      ELSE disk
    BY <1>1 DEF Attempt
  <2> DEFINE j == [job[o][e] EXCEPT !.phase = "record", !.made = outcome]
  <2>a. job' = [job EXCEPT ![o][e] = j]
    BY <2>1 DEF PipelineSound, JobTable
  <2>2. job' = [job EXCEPT ![o][e] = j] /\ job[o][e].phase = "working" /\ row' = row
    BY <1>1, <2>a DEF Attempt
  <2>3. /\ Kept(job[o][e].snap, feed) /\ Prepares(feed) /\ job[o][e].feed = feed
        /\ feed.processed => job[o][e].processing
    BY <1>a, <2>2 DEF KeptJob, Loaded
  <2>4. /\ j.phase = "record" /\ j.snap = job[o][e].snap /\ j.feed = job[o][e].feed
        /\ j.processing = job[o][e].processing
    BY <1>a DEF JobRecs
  <2>5. FilesKept'
    BY <1>0, <1>a, <2>1, <2>3 DEF FilesKept
  <2> HIDE DEF j
  <2>6. KeptJob(j, feed)
    BY <2>3, <2>4 DEF KeptJob
  <2> QED
    BY <1>0, <2>2, <2>5, <2>6, OneJobKept DEF RowsKept
<1>2. CASE RecordOutcome(o, e)
  <2>1. Kept(OutcomeRow(job[o][e]), feed)
    BY <1>0, <1>2, <1>a, KeptOutcome DEF RecordOutcome
  <2> QED
    BY <1>0, <1>2, <2>1, KeptIdle, OneJobKept, OneRowKept DEF RecordOutcome, FilesKept
<1>3. CASE AbandonJob(o, e)
  BY <1>0, <1>3, KeptIdle, OneJobKept DEF AbandonJob, FilesKept, RowsKept
<1>4. CASE EndFlight(o, e)
  BY <1>0, <1>4, KeptIdle, OneJobKept DEF EndFlight, FilesKept, RowsKept
<1> QED
  BY <1>1, <1>2, <1>3, <1>4 DEF JobStep

LEMMA SlotAndTimeKept ==
    ASSUME PipelineSound, PipelineKept, NEW e \in Episodes, TakeSlot(e) \/ ComeDue(e)
    PROVE  PipelineKept'
<1> USE DEF PipelineKept
<1>0. feed \in FeedSettings /\ feed' = feed /\ FilesKept' /\ Listener \in Owners
  BY FeedType DEF TakeSlot, ComeDue, FilesKept, Owners
<1>1. CASE TakeSlot(e)
  <2>1. /\ job[Listener][e] \in JobRecs /\ KeptJob(job[Listener][e], feed)
        /\ job[Listener][e].phase = "slot"
        /\ job' = [job EXCEPT ![Listener][e] = [job[Listener][e] EXCEPT !.phase = "working"]]
    BY <1>0, <1>1 DEF TakeSlot, PipelineSound, JobTable, SoundJobs, JobsKept
  <2>2. Prepares(feed)
    BY <2>1 DEF KeptJob
  <2>3. KeptJob([job[Listener][e] EXCEPT !.phase = "working"], feed)
    BY <1>0, <2>1, <2>2, KeptPhase DEF Loaded, Phases
  <2> QED
    BY <1>0, <1>1, <2>1, <2>3, OneJobKept DEF TakeSlot, RowsKept
<1>2. CASE ComeDue(e)
  <2>1. /\ row[e] \in SoundRows /\ Kept(row[e], feed) /\ row[e].next = "later"
        /\ row' = [row EXCEPT ![e] = [row[e] EXCEPT !.next = "due"]]
    BY <1>2 DEF ComeDue, PipelineSound, RowsKept
  <2>2. Kept([row[e] EXCEPT !.next = "due"], feed)
    BY <1>0, <2>1, KeptClaims
  <2> QED
    BY <1>0, <1>2, <2>1, <2>2, OneRowKept DEF ComeDue, JobsKept
<1> QED
  BY <1>1, <1>2

LEMMA PrepareStartsKept ==
    ASSUME PipelineSound, PipelineKept, NEW e \in Episodes, NEW snap \in SoundRows,
           Kept(snap, feed), Prepares(feed), PrepareStarts(e, snap, feed)
    PROVE  PipelineKept'
<1> USE DEF PipelineKept
<1>0. /\ feed \in FeedSettings /\ feed' = feed /\ FilesKept' /\ Listener \in Owners
      /\ row[e] \in SoundRows /\ Kept(row[e], feed)
  BY FeedType DEF PrepareStarts, FilesKept, Owners, PipelineSound, RowsKept
<1>1. CASE /\ job' = [job EXCEPT ![Listener][e] = NewJob("slot", snap, feed, feed.processed)]
           /\ UNCHANGED row
  <2>1. KeptJob(NewJob("slot", snap, feed, feed.processed), feed)
    BY <1>0, NewJobKept
  <2> QED
    BY <1>0, <1>1, <2>1, OneJobKept DEF RowsKept
<1>2. CASE row[e].state = "discovered"
           /\ row' = [row EXCEPT ![e].state = "acquiring"]
           /\ job' = [job EXCEPT ![Listener][e] =
                        NewJob("slot", [row[e] EXCEPT !.state = "acquiring"], feed, feed.processed)]
  <2> DEFINE r == [row[e] EXCEPT !.state = "acquiring"]
  <2>1. Kept(r, feed)
    BY <1>0, <1>2, KeptClaims
  <2>2. KeptJob(NewJob("slot", r, feed, feed.processed), feed)
    BY <1>0, <2>1, NewJobKept
  <2>3. row' = [row EXCEPT ![e] = r]
    BY <1>2 DEF PipelineSound
  <2> HIDE DEF r
  <2> QED
    BY <1>0, <1>2, <2>1, <2>2, <2>3, OneJobKept, OneRowKept DEF r
<1> QED
  BY <1>1, <1>2 DEF PrepareStarts

LEMMA StopKept ==
    ASSUME PipelineSound, PipelineKept, Stopped \/ Crash \/ Shutdown
    PROVE  PipelineKept'
<1>1. feed \in FeedSettings /\ UNCHANGED <<row, disk, feed>>
  BY FeedType DEF Stopped, Crash, Shutdown
<1>2. JobsKept'
  BY <1>1, KeptIdle DEF Stopped, Crash, Shutdown, NoJobs, JobsKept, PipelineKept
<1> QED
  BY <1>1, <1>2 DEF PipelineKept, RowsKept, FilesKept

LEMMA RestartKept ==
    ASSUME PipelineSound, PipelineKept, Restart(feed)
    PROVE  PipelineKept'
<1>0. feed \in FeedSettings /\ feed' = feed /\ job' = job
  BY FeedType DEF Restart
<1>1. ASSUME NEW e \in Episodes
      PROVE  /\ Recovered(row[e]) \in SoundRows /\ Kept(Recovered(row[e]), feed)
             /\ Reconciled(Recovered(row[e]), feed) = Recovered(row[e])
             /\ Kept(QueuedUncached(Recovered(row[e])), feed)
  <2>1. row[e] \in SoundRows /\ Kept(row[e], feed)
    BY DEF PipelineSound, PipelineKept, RowsKept
  <2>2. Recovered(row[e]) \in SoundRows /\ Kept(Recovered(row[e]), feed)
    BY <1>0, <2>1, RecoveredSound, KeptQueued
  <2> QED
    BY <1>0, <2>2, KeptFits, KeptQueued
<1>2. RowsKept'
  BY <1>0, <1>1 DEF Restart, RowsKept
<1>3. FilesKept'
  BY <1>0 DEF Restart, FilesKept, PipelineKept, NoAudio
<1> QED
  BY <1>0, <1>2, <1>3 DEF PipelineKept, JobsKept

-----------------------------------------------------------------------------
(* What else writes rows.                                                  *)

LEMMA AdminStepKept ==
    ASSUME PipelineSound, MaintenanceSound, PipelineKept, AdminsKept,
           NEW a \in Admins, AskToQueue(a) \/ AdminStep(a)
    PROVE  PipelineKept' /\ AdminsKept' /\ feed' = feed /\ sweep' = sweep
<1>0. feed \in FeedSettings /\ admin[a].phase \in {"idle", "pick", "apply"}
  BY FeedType DEF AdminsKept
<1>1. AskToQueue(a) \/ PickToQueue(a) \/ ApplyQueue(a)
  BY <1>0 DEF AdminStep, ReconcileList, ReconcileEnd, ReconcileSkip, ReconcileEpisode, ReconcileSave
<1>2. /\ feed' = feed /\ disk' = disk /\ job' = job /\ sweep' = sweep
  BY <1>1 DEF AskToQueue, PickToQueue, ApplyQueue, pipelineVars
<1>3. AdminsKept'
  <2>1. admin \in [Admins -> SoundAdmins] /\ AdminIdle.phase = "idle"
    BY DEF MaintenanceSound, AdminIdle
  <2>2. ASSUME NEW b \in Admins \ {a} PROVE admin'[b] = admin[b]
    BY <1>1, <2>1 DEF AskToQueue, PickToQueue, ApplyQueue
  <2>3. admin'[a].phase \in {"idle", "pick", "apply"}
    <3>1. CASE AskToQueue(a)
      BY <2>1, <3>1 DEF AskToQueue, SoundAdmins, AdminRecs
    <3>2. CASE PickToQueue(a)
      BY <2>1, <3>2 DEF PickToQueue, SoundAdmins, AdminRecs
    <3>3. CASE ApplyQueue(a)
      BY <2>1, <3>3 DEF ApplyQueue
    <3> QED
      BY <1>1, <3>1, <3>2, <3>3
  <2> QED
    BY <2>2, <2>3 DEF AdminsKept
<1>4. RowsKept'
  <2>1. CASE row' = row
    BY <1>2, <2>1 DEF PipelineKept, RowsKept
  <2>2. CASE ApplyQueue(a)
    <3>1. ASSUME NEW e \in Episodes
          PROVE  /\ Kept(row[e], feed) /\ Kept(QueuedFailed(row[e]), feed)
                 /\ Kept(QueuedUncached(row[e]), feed)
      BY <1>0, KeptQueued DEF PipelineSound, PipelineKept, RowsKept
    <3> QED
      BY <1>2, <2>2, <3>1 DEF ApplyQueue, RowsKept
  <2> QED
    BY <1>1, <2>1, <2>2 DEF AskToQueue, PickToQueue, pipelineVars
<1> QED
  BY <1>2, <1>3, <1>4 DEF PipelineKept, JobsKept, FilesKept

LEMMA HousekeeperKept ==
    ASSUME PipelineSound, MaintenanceSound, PipelineKept, SweepKept,
           \/ SweepRemove \/ SweepSave
           \/ \E e \in Episodes : SweepList(e) \/ RemoveOrphan(e)
    PROVE  PipelineKept' /\ SweepKept' /\ feed' = feed /\ admin' = admin
<1>0. /\ feed \in FeedSettings /\ feed' = feed /\ admin' = admin /\ job' = job
      /\ sweep.ep \in Episodes /\ sweep.copy \in SoundRows /\ Kept(sweep.copy, feed)
      /\ sweep \in SweepRecs /\ NoAudio.by = "none"
  <2>1. feed' = feed /\ admin' = admin /\ job' = job
    BY DEF SweepRemove, SweepSave, SweepList, RemoveOrphan, pipelineVars, maintenanceVars
  <2> QED
    BY <2>1, FeedType DEF MaintenanceSound, SoundSweeps, SweepRecs, SweepKept, NoAudio
<1>1. FilesKept'
  <2>1. ASSUME NEW e \in Episodes PROVE disk'[e] = disk[e] \/ disk'[e] = NoAudio
    BY <2>1 DEF SweepRemove, SweepSave, SweepList, RemoveOrphan, pipelineVars, PipelineSound
  <2> QED
    BY <1>0, <2>1 DEF PipelineKept, FilesKept
<1>2. RowsKept'
  <2>1. Kept(ForgetCache(sweep.copy), feed)
    BY <1>0, KeptQueued
  <2>2. row' = row \/ row' = [row EXCEPT ![sweep.ep] = ForgetCache(sweep.copy)]
    BY DEF SweepRemove, SweepSave, SweepList, RemoveOrphan, pipelineVars
  <2> QED
    BY <1>0, <2>1, <2>2, OneRowKept DEF PipelineKept, RowsKept
<1>3. SweepKept'
  <2>1. CASE SweepRemove
    BY <1>0, <2>1 DEF SweepRemove, SweepKept, SweepRecs
  <2>2. CASE SweepSave
    BY <1>0, <2>2, KeptIdle DEF SweepSave, SweepKept, SweepIdle, NoCopy
  <2>3. ASSUME NEW e \in Episodes, SweepList(e) PROVE SweepKept'
    BY <1>0, <2>3 DEF SweepList, SweepKept, PipelineKept, RowsKept
  <2>4. ASSUME NEW e \in Episodes, RemoveOrphan(e) PROVE SweepKept'
    BY <1>0, <2>4 DEF RemoveOrphan, maintenanceVars, SweepKept
  <2> QED
    BY <2>1, <2>2, <2>3, <2>4
<1> QED
  BY <1>0, <1>1, <1>2, <1>3 DEF PipelineKept, JobsKept

LEMMA HidingKept ==
    ASSUME PipelineSound, PipelineKept, NEW e \in Episodes, Hide(e) \/ Show(e)
    PROVE  PipelineKept' /\ feed' = feed /\ maintenanceVars' = maintenanceVars
<1>0. /\ feed \in FeedSettings /\ feed' = feed /\ UNCHANGED <<disk, job>>
      /\ maintenanceVars' = maintenanceVars
  BY FeedType DEF Hide, Show
<1>1. RowsKept'
  <2> DEFINE next == IF Prepares(feed) /\ feed.ahead /\ ~row[e].cached THEN "due" ELSE "none"
             r == [row[e] EXCEPT !.backlog = TRUE, !.state = "ready", !.next = next]
  <2>1. \/ UNCHANGED row
        \/ /\ ~row[e].backlog /\ row[e].state \in {"discovered", "ready"}
           /\ row' = [row EXCEPT ![e] = r]
    BY DEF Hide, Show, PipelineSound
  <2>2. next \in Times /\ (row[e].cached => next = "none")
    BY DEF Times
  <2> HIDE DEF next
  <2>3. ASSUME ~row[e].backlog, row[e].state \in {"discovered", "ready"} PROVE Kept(r, feed)
    BY <1>0, <2>2, <2>3, KeptShown DEF PipelineSound, PipelineKept, RowsKept
  <2> HIDE DEF r
  <2> QED
    BY <1>0, <2>1, <2>3, OneRowKept DEF PipelineKept, RowsKept
<1> QED
  BY <1>0, <1>1 DEF PipelineKept, FilesKept, JobsKept

-----------------------------------------------------------------------------
(* Serving.                                                                *)

LEMMA OneRequestKept ==
    ASSUME ServerSound, RequestsKept, NEW r \in Requests, NEW q, KeptRequest(q, feed),
           request' = [request EXCEPT ![r] = q], UNCHANGED feed
    PROVE  RequestsKept'
BY DEF ServerSound, RequestsKept

LEMMA AnswerKept ==
    ASSUME PipelineSound, ServerSound, RequestsKept, NEW r \in Requests, NEW kind, NEW audio,
           Answer(r, kind, audio), UNCHANGED feed,
           feed.processed /\ feed.hide => kind # "stream" /\ audio.by # "download"
    PROVE  RequestsKept'
<1> DEFINE q == [request[r] EXCEPT !.phase = "answered", !.snap = Idle.snap, !.feed = Idle.feed,
                                   !.answer = kind, !.audio = audio]
<1>1. /\ request[r] \in RequestRecs /\ KeptRequest(request[r], feed)
      /\ request' = [request EXCEPT ![r] = q]
  BY DEF ServerSound, SoundRequests, RequestsKept, Answer
<1>2. /\ q.phase = "answered" /\ q.snap = Idle.snap /\ q.answer = kind /\ q.audio = audio
  BY <1>1 DEF RequestRecs
<1>3. Kept(Idle.snap, feed)
  BY FeedType, KeptIdle
<1> HIDE DEF q
<1>4. KeptRequest(q, feed)
  BY <1>2, <1>3 DEF KeptRequest
<1> QED
  BY <1>1, <1>4, OneRequestKept

(* A request that has read the settings moves on.                          *)
LEMMA KeptMove ==
    ASSUME NEW q \in RequestRecs, NEW f \in FeedSettings, KeptRequest(q, f),
           q.phase \notin {"idle", "feed", "answered"},
           NEW p \in RequestPhases \ {"checksave"}, NEW s, Kept(s, f),
           p = "forget" /\ NoneStrands => ~Waits(s),
           p = "pass" => s.state = "failed",
           p \in {"tee", "teesave"} =>
              /\ f.mode = "cache"
              /\ \/ s.state = "failed"
                 \/ ~f.processed /\ (s.backlog \/ s.state = "ready"),
           p \in {"pass", "tee", "teesave"} => ~(f.processed /\ f.hide)
    PROVE  /\ KeptRequest([q EXCEPT !.phase = p, !.snap = s], f)
           /\ s = q.snap => KeptRequest([q EXCEPT !.phase = p], f)
           /\ s = q.snap => KeptRequest([q EXCEPT !.phase = p, !.waited = TRUE], f)
BY DEF RequestRecs, KeptRequest

LEMMA AskKept ==
    ASSUME PipelineSound, ServerSound, PipelineKept, RequestsKept,
           NEW r \in Requests, NEW e \in Episodes, Ask(r, e)
    PROVE  PipelineKept' /\ RequestsKept' /\ feed' = feed
<1> DEFINE q == [RequestIdle EXCEPT !.phase = "feed", !.ep = e, !.snap = row[e], !.asked = feed]
<1>1. /\ feed \in FeedSettings /\ Kept(row[e], feed) /\ UNCHANGED pipelineVars
      /\ request' = [request EXCEPT ![r] = q] /\ feed' = feed
  BY FeedType DEF Ask, PipelineKept, RowsKept, pipelineVars
<1>2. q.phase = "feed" /\ q.snap = row[e] /\ q.answer = "none" /\ q.audio = NoAudio
  BY DEF RequestIdle
<1> HIDE DEF q
<1>3. KeptRequest(q, feed)
  BY <1>1, <1>2 DEF KeptRequest, NoAudio
<1> QED
  BY <1>1, <1>3, OneRequestKept DEF PipelineKept, RowsKept, FilesKept, JobsKept, pipelineVars

LEMMA RequestStepKept ==
    ASSUME PipelineSound, ServerSound, PipelineKept, RequestsKept,
           NEW r \in Requests, RequestStep(r)
    PROVE  PipelineKept' /\ RequestsKept' /\ feed' = feed
<1> DEFINE q == request[r]
<1>0. /\ feed \in FeedSettings /\ q \in RequestRecs /\ q.snap \in SoundRows /\ q.ep \in Episodes
      /\ KeptRequest(q, feed) /\ Kept(q.snap, feed)
      /\ q.phase \in NotWithheldPhases => ~q.snap.withheld
      /\ request \in [Requests -> RequestRecs] /\ disk \in [Episodes -> Audio]
  BY FeedType DEF ServerSound, SoundRequests, RequestRecs, RequestsKept, KeptRequest, PipelineSound
<1>1. /\ q.phase \notin {"idle", "feed", "answered"} => q.feed = feed
      /\ feed.processed /\ feed.hide => disk[q.ep].by # "download"
      /\ Kept(row[q.ep], feed)
  BY <1>0 DEF KeptRequest, PipelineKept, FilesKept, RowsKept
<1>2. Kept(ForgetCache(q.snap), feed) /\ ~ReconcileSaves(q.snap, feed)
      /\ ForgetCache(q.snap).state = q.snap.state
  <2>1. ForgetCache(q.snap).state = q.snap.state
    BY <1>0 DEF SoundRows, Rows, ForgetCache
  <2> QED
    BY <1>0, <2>1, KeptQueued, KeptFits
<1>3. feed.processed /\ feed.hide /\ ~q.snap.withheld => q.snap.state # "failed"
  BY <1>0 DEF Kept
<1>4. ASSUME Passes(q)
      PROVE  /\ q.phase \notin {"idle", "feed", "answered"} /\ ~q.snap.withheld
             /\ ~(feed.processed /\ feed.hide)
             /\ q.phase = "pass" => q.snap.state = "failed"
  BY <1>0, <1>1, <1>3, <1>4 DEF Passes, MustWait, KeptRequest, NotWithheldPhases
<1>s. UNCHANGED pipelineVars => PipelineKept' /\ feed' = feed
  BY DEF pipelineVars, PipelineKept, RowsKept, FilesKept, JobsKept
<1>5. CASE ReadFeed(r)
  <2> DEFINE p == [q EXCEPT !.phase = "check", !.feed = feed]
  <2>1. request' = [request EXCEPT ![r] = p]
    BY <1>0, <1>5 DEF ReadFeed
  <2>2. /\ p.phase = "check" /\ p.feed = feed /\ p.snap = q.snap /\ p.answer = q.answer
        /\ p.audio = q.audio
    BY <1>0 DEF RequestRecs
  <2> HIDE DEF p
  <2>3. KeptRequest(p, feed)
    BY <1>0, <2>2 DEF KeptRequest
  <2> QED
    BY <1>5, <1>s, <2>1, <2>3, OneRequestKept DEF ReadFeed, pipelineVars
<1>6. CASE CheckEpisode(r)
  <2>1. /\ request' = [request EXCEPT ![r] = [q EXCEPT !.phase = "serve", !.snap = q.snap]]
        /\ UNCHANGED <<row, disk, feed, job>> /\ q.phase = "check"
    BY <1>0, <1>1, <1>2, <1>6 DEF CheckEpisode
  <2>2. KeptRequest([q EXCEPT !.phase = "serve", !.snap = q.snap], feed)
    BY <1>0, <2>1, KeptMove DEF RequestPhases
  <2> QED
    BY <2>1, <2>2, OneRequestKept DEF PipelineKept, RowsKept, FilesKept, JobsKept
<1>7. CASE SaveCheck(r)
  BY <1>0, <1>7 DEF SaveCheck, KeptRequest
<1>8. CASE ServeCached(r)
  <2>0. q.phase = "serve" /\ UNCHANGED pipelineVars /\ NoAudio.by = "none"
    BY <1>8 DEF ServeCached, NoAudio
  <2>1. CASE Answer(r, "notfound", NoAudio) \/ Answer(r, "file", disk[q.ep])
    BY <1>1, <1>s, <2>0, <2>1, AnswerKept
  <2>2. CASE q.snap.cached /\ request' = [request EXCEPT ![r].phase = "forget",
                                                         ![r].snap = ForgetCache(@)]
    <3>1. NoneStrands => ~Waits(ForgetCache(q.snap))
      BY <1>0, <1>2, <2>2 DEF Kept, Waits
    <3>2. KeptRequest([q EXCEPT !.phase = "forget", !.snap = ForgetCache(q.snap)], feed)
      BY <1>0, <1>2, <2>0, <3>1, KeptMove DEF RequestPhases
    <3>3. request' = [request EXCEPT ![r] = [q EXCEPT !.phase = "forget",
                                                      !.snap = ForgetCache(q.snap)]]
      BY <1>0, <2>2
    <3> QED
      BY <1>s, <2>0, <3>2, <3>3, OneRequestKept
  <2>3. CASE request' = [request EXCEPT ![r].phase = "route"]
    <3>1. KeptRequest([q EXCEPT !.phase = "route"], feed)
      BY <1>0, <2>0, KeptMove DEF RequestPhases
    <3>2. request' = [request EXCEPT ![r] = [q EXCEPT !.phase = "route"]]
      BY <1>0, <2>3
    <3> QED
      BY <1>s, <2>0, <3>1, <3>2, OneRequestKept
  <2> QED
    BY <1>8, <2>1, <2>2, <2>3 DEF ServeCached
<1>9. CASE SaveForgotten(r)
  <2>1. /\ row' = [row EXCEPT ![q.ep] = q.snap] /\ UNCHANGED <<disk, feed, job>>
        /\ q.phase = "forget"
        /\ request' = [request EXCEPT ![r] = [q EXCEPT !.phase = "route"]]
    BY <1>0, <1>9 DEF SaveForgotten
  <2>2. KeptRequest([q EXCEPT !.phase = "route"], feed)
    BY <1>0, <2>1, KeptMove DEF RequestPhases
  <2> QED
    BY <1>0, <2>1, <2>2, OneRequestKept, OneRowKept DEF PipelineKept, FilesKept, JobsKept
<1>10. CASE Prepare(r)
  <2>0. q.phase = "route" /\ q.feed = feed /\ Prepares(feed) /\ NoAudio.by = "none"
    BY <1>1, <1>10 DEF Prepare, MustWait, Prepares, NoAudio
  <2>1. CASE Answer(r, "unavailable", NoAudio) /\ UNCHANGED pipelineVars
    BY <1>s, <2>0, <2>1, AnswerKept
  <2>2. CASE /\ request' = [request EXCEPT ![r].phase = "waiting", ![r].waited = TRUE]
             /\ UNCHANGED pipelineVars \/ PrepareStarts(q.ep, q.snap, q.feed)
    <3>1. KeptRequest([q EXCEPT !.phase = "waiting", !.waited = TRUE], feed)
      BY <1>0, <2>0, KeptMove DEF RequestPhases
    <3>2. request' = [request EXCEPT ![r] = [q EXCEPT !.phase = "waiting", !.waited = TRUE]]
      BY <1>0, <2>2
    <3>3. PipelineKept' /\ feed' = feed
      BY <1>0, <1>s, <2>0, <2>2, PrepareStartsKept DEF PrepareStarts
    <3> QED
      BY <3>1, <3>2, <3>3, OneRequestKept
  <2> QED
    BY <1>10, <2>1, <2>2 DEF Prepare
<1>11. CASE StopWaiting(r)
  BY <1>s, <1>11, AnswerKept DEF StopWaiting, NoAudio
<1>12. CASE Reread(r)
  <2>1. KeptRequest([q EXCEPT !.phase = "reread", !.snap = row[q.ep]], feed)
    BY <1>0, <1>1, <1>12, KeptMove DEF Reread, RequestPhases
  <2>2. request' = [request EXCEPT ![r] = [q EXCEPT !.phase = "reread", !.snap = row[q.ep]]]
    BY <1>0, <1>12 DEF Reread
  <2> QED
    BY <1>s, <1>12, <2>1, <2>2, OneRequestKept DEF Reread
<1>13. CASE ServePrepared(r)
  <2>0. q.phase = "reread" /\ UNCHANGED pipelineVars /\ NoAudio.by = "none"
    BY <1>13 DEF ServePrepared, NoAudio
  <2>1. CASE \/ Answer(r, "file", disk[q.ep]) \/ Answer(r, "unavailable", NoAudio)
             \/ Answer(r, "notfound", NoAudio)
    BY <1>1, <1>s, <2>0, <2>1, AnswerKept
  <2>2. CASE /\ ~q.snap.withheld /\ q.snap.state = "failed"
             /\ request' = [request EXCEPT ![r].phase = "pass"]
    <3>1. KeptRequest([q EXCEPT !.phase = "pass"], feed)
      BY <1>0, <1>3, <2>0, <2>2, KeptMove DEF RequestPhases
    <3>2. request' = [request EXCEPT ![r] = [q EXCEPT !.phase = "pass"]]
      BY <1>0, <2>2
    <3> QED
      BY <1>s, <2>0, <3>1, <3>2, OneRequestKept
  <2> QED
    BY <1>13, <2>1, <2>2 DEF ServePrepared
<1>14. CASE Redirect(r) \/ Stream(r)
  BY <1>4, <1>s, <1>14, AnswerKept DEF Redirect, Stream, NoAudio
<1>15. CASE StartTee(r)
  <2>1. KeptRequest([q EXCEPT !.phase = "tee"], feed)
    <3>1. Passes(q) /\ Teeable(q)
      BY <1>15 DEF StartTee
    <3> QED
      BY <1>0, <1>1, <1>4, <3>1, KeptMove DEF Teeable, RequestPhases
  <2>2. request' = [request EXCEPT ![r] = [q EXCEPT !.phase = "tee"]]
    BY <1>0, <1>15 DEF StartTee
  <2> QED
    BY <1>s, <1>15, <2>1, <2>2, OneRequestKept DEF StartTee
<1>16. CASE CommitTee(r)
  <2>1. /\ request' = [request EXCEPT ![r] = [q EXCEPT !.phase = "teesave"]]
        /\ q.phase = "tee" /\ UNCHANGED <<row, feed, job>>
    BY <1>0, <1>16 DEF CommitTee
  <2>2. ~(feed.processed /\ feed.hide)
    BY <1>0, <2>1 DEF KeptRequest
  <2>3. KeptRequest([q EXCEPT !.phase = "teesave"], feed)
    BY <1>0, <2>1, <2>2, KeptMove DEF RequestPhases, KeptRequest
  <2> QED
    BY <2>1, <2>2, <2>3, OneRequestKept DEF PipelineKept, RowsKept, JobsKept, FilesKept
<1>17. CASE DiscardTee(r) \/ SaveTee(r)
  <2>1. q.phase \in {"tee", "teesave"} /\ Answer(r, "stream", NoAudio) /\ feed' = feed
    BY <1>17 DEF DiscardTee, SaveTee, pipelineVars
  <2>2. ~(feed.processed /\ feed.hide) /\ q.feed = feed
    BY <1>0, <1>1, <2>1 DEF KeptRequest
  <2>3. Kept(Teed(q.snap, feed), feed)
    BY <1>0, <2>1, KeptTeed DEF KeptRequest
  <2>4. PipelineKept'
    <3>1. CASE DiscardTee(r)
      BY <1>s, <3>1 DEF DiscardTee
    <3>2. CASE SaveTee(r)
      BY <1>0, <2>2, <2>3, <3>2, OneRowKept DEF SaveTee, PipelineKept, FilesKept, JobsKept
    <3> QED
      BY <1>17, <3>1, <3>2
  <2> QED
    BY <2>1, <2>2, <2>4, AnswerKept
<1> QED
  BY <1>5, <1>6, <1>7, <1>8, <1>9, <1>10, <1>11, <1>12, <1>13, <1>14, <1>15, <1>16, <1>17
     DEF RequestStep, ServeStep

-----------------------------------------------------------------------------
(* The whole system.                                                       *)

(* The end of a job, and of the process.                                   *)
LEMMA WakeKept ==
    ASSUME ServerSound, RequestsKept, NEW e, WakeWaiting(e), UNCHANGED feed
    PROVE  RequestsKept'
<1> SUFFICES ASSUME NEW r \in Requests PROVE KeptRequest(request[r], feed)'
  BY DEF RequestsKept
<1>1. request[r] \in RequestRecs /\ KeptRequest(request[r], feed)
  BY DEF ServerSound, SoundRequests, RequestsKept
<1>2. \/ request'[r] = request[r]
      \/ request[r].phase = "waiting" /\ request'[r] = [request[r] EXCEPT !.phase = "woken"]
  BY DEF WakeWaiting
<1>3. ASSUME request[r].phase = "waiting"
      PROVE  KeptRequest([request[r] EXCEPT !.phase = "woken"], feed)
  BY <1>1, <1>3 DEF RequestRecs, KeptRequest
<1> QED
  BY <1>1, <1>2, <1>3

LEMMA ForgetKept ==
    ASSUME PipelineSound, ForgetMemory, UNCHANGED feed
    PROVE  RequestsKept' /\ AdminsKept' /\ SweepKept'
<1>1. KeptRequest(RequestIdle, feed) /\ Kept(NoCopy, feed)
  BY KeptIdle, FeedType DEF NoCopy
<1>2. AdminIdle.phase = "idle" /\ SweepIdle.phase = "idle" /\ SweepIdle.copy = NoCopy
  BY DEF AdminIdle, SweepIdle
<1> QED
  BY <1>1, <1>2 DEF ForgetMemory, RequestsKept, AdminsKept, SweepKept

LEMMA InitKept == Init => SettingsKept
<1> SUFFICES ASSUME Init PROVE AllKept
  BY DEF SettingsKept
<1>1. PipelineSound /\ feed \in FeedSettings
  BY InitSound, FeedType DEF CopiesSound
<1>2. RowsKept
  <2> SUFFICES ASSUME NEW e \in Episodes PROVE Kept(row[e], feed)
    BY DEF RowsKept
  <2> DEFINE state(waiting) == IF e \in waiting \/ (e \notin Backlog /\ Prepares(feed))
                               THEN "discovered" ELSE "ready"
  <2>1. PICK waiting \in SUBSET Backlog :
           /\ waiting = {} \/ feed.processed \/ (feed.ahead /\ Prepares(feed))
           /\ row[e] = NewRow(state(waiting), e \in Backlog)
    BY DEF Init, PipelineInit
  <2>2. ASSUME state(waiting) = "discovered", NoneStrands, Tees(feed) PROVE e \notin Backlog
    BY <1>1, <2>1, <2>2 DEF NoneStrands, Tees, PipelineSound
  <2>3. state(waiting) \in {"discovered", "ready"} /\ (e \in Backlog) \in BOOLEAN
    OBVIOUS
  <2> HIDE DEF state
  <2> QED
    BY <1>1, <2>1, <2>2, <2>3, KeptNew
<1>3. FilesKept
  BY DEF Init, PipelineInit, FilesKept, NoAudio
<1>4. JobsKept
  BY <1>1, KeptIdle DEF Init, PipelineInit, JobsKept
<1>5. RequestsKept /\ AdminsKept /\ SweepKept
  <2>1. KeptRequest(RequestIdle, feed) /\ Kept(NoCopy, feed)
    BY <1>1, KeptIdle DEF NoCopy
  <2>2. AdminIdle.phase = "idle" /\ SweepIdle.phase = "idle" /\ SweepIdle.copy = NoCopy
    BY DEF AdminIdle, SweepIdle
  <2> QED
    BY <2>1, <2>2 DEF Init, MaintenanceInit, ServerInit, RequestsKept, AdminsKept, SweepKept
<1> QED
  BY <1>2, <1>3, <1>4, <1>5 DEF AllKept, PipelineKept

LEMMA NextKept == CopiesSound /\ SettingsKept /\ [Next]_vars => SettingsKept'
<1> SUFFICES ASSUME CopiesSound, SettingsKept, [Next]_vars, changes' = 0 PROVE AllKept'
  BY DEF SettingsKept
<1>1. /\ PipelineSound /\ MaintenanceSound /\ ServerSound
      /\ changes \in 0 .. MaxChanges /\ MaxChanges \in Nat
      /\ RequestsKept /\ UNCHANGED <<request, feed>> => RequestsKept'
      /\ AdminsKept /\ UNCHANGED admin => AdminsKept'
      /\ SweepKept /\ UNCHANGED <<sweep, feed>> => SweepKept'
  BY MaintenanceAssumption
     DEF CopiesSound, MaintenanceSound, RequestsKept, AdminsKept, SweepKept
<1>2. ASSUME changes' = changes
      PROVE  PipelineKept /\ RequestsKept /\ AdminsKept /\ SweepKept
  BY <1>2 DEF SettingsKept, AllKept
<1>3. ASSUME PipelineKept', RequestsKept', AdminsKept', SweepKept' PROVE AllKept'
  BY <1>3 DEF AllKept
<1>4. ASSUME UNCHANGED maintenanceVars, UNCHANGED request, UNCHANGED feed, PipelineKept'
      PROVE  AllKept'
  BY <1>1, <1>2, <1>3, <1>4 DEF maintenanceVars
<1>5. ASSUME NEW w \in Workers, WorkerStep(w), UNCHANGED <<maintenanceVars, request>>
      PROVE  AllKept'
  <2>1. UNCHANGED feed
    BY <1>5 DEF WorkerStep, ClaimNextEpisode, ClaimQueuedEpisode, RunBatch, StartFlight, LoadFeed,
       ClaimQueuedEpisodesForFeed, JoinBatch
  <2> QED
    BY <1>1, <1>2, <1>4, <1>5, <2>1, WorkerStepKept DEF maintenanceVars
<1>6. ASSUME NEW o \in Owners, NEW e \in Episodes, JobStep(o, e),
             UNCHANGED <<maintenanceVars, request>>
      PROVE  AllKept'
  <2>1. UNCHANGED feed
    BY <1>6 DEF JobStep, Attempt, RecordOutcome, AbandonJob
  <2> QED
    BY <1>1, <1>2, <1>4, <1>6, <2>1, JobStepKept DEF maintenanceVars
<1>7. ASSUME NEW o \in Owners, NEW e \in Episodes, EndJob(o, e) PROVE AllKept'
  <2>1. UNCHANGED <<feed, admin, sweep, changes>> /\ EndFlight(o, e) /\ WakeWaiting(e)
    BY <1>7 DEF EndJob, EndFlight, maintenanceVars
  <2> QED
    BY <1>1, <1>2, <1>3, <2>1, JobStepKept, WakeKept
<1>8. ASSUME NEW e \in Episodes, TakeSlot(e) \/ ComeDue(e), UNCHANGED <<maintenanceVars, request>>
      PROVE  AllKept'
  <2>1. UNCHANGED feed
    BY <1>8 DEF TakeSlot, ComeDue
  <2> QED
    BY <1>1, <1>2, <1>4, <1>8, <2>1, SlotAndTimeKept DEF maintenanceVars
<1>9. ASSUME NEW r \in Requests, RequestStep(r) \/ \E e \in Episodes : Ask(r, e),
             UNCHANGED maintenanceVars
      PROVE  AllKept'
  BY <1>1, <1>2, <1>3, <1>9, AskKept, RequestStepKept DEF maintenanceVars
<1>10. ASSUME NEW a \in Admins, AskToQueue(a) \/ AdminStep(a), UNCHANGED request
       PROVE  AllKept'
  <2>1. UNCHANGED changes
    BY <1>10 DEF AskToQueue, AdminStep, ReconcileList, ReconcileEnd, PickToQueue, ApplyQueue,
       ReconcileSkip, ReconcileEpisode, ReconcileSave
  <2> QED
    BY <1>1, <1>2, <1>3, <1>10, <2>1, AdminStepKept
<1>11. ASSUME NEW a \in Admins, ChangeSettings(a) PROVE FALSE
  BY <1>1, <1>11 DEF ChangeSettings
<1>12. ASSUME \/ SweepRemove \/ SweepSave
              \/ \E e \in Episodes : SweepList(e) \/ RemoveOrphan(e),
              UNCHANGED request
       PROVE  AllKept'
  <2>1. UNCHANGED changes
    BY <1>12 DEF SweepRemove, SweepSave, SweepList, RemoveOrphan, maintenanceVars
  <2> QED
    BY <1>1, <1>2, <1>3, <1>12, <2>1, HousekeeperKept
<1>13. ASSUME NEW e \in Episodes, Hide(e) \/ Show(e), UNCHANGED request PROVE AllKept'
  <2>1. UNCHANGED <<maintenanceVars, feed>>
    BY <1>13 DEF Hide, Show
  <2> QED
    BY <1>1, <1>2, <1>4, <1>13, <2>1, HidingKept DEF maintenanceVars
<1>14. ASSUME Shutdown, UNCHANGED <<maintenanceVars, request>> PROVE AllKept'
  <2>1. UNCHANGED feed
    BY <1>14 DEF Shutdown
  <2> QED
    BY <1>1, <1>2, <1>4, <1>14, <2>1, StopKept DEF maintenanceVars
<1>15. ASSUME StopProcess PROVE AllKept'
  <2>1. UNCHANGED <<feed, changes>> /\ ForgetMemory /\ (Stopped \/ Crash)
    BY <1>15 DEF StopProcess, Stopped, Crash, ForgetMemory
  <2> QED
    BY <1>1, <1>2, <1>3, <2>1, StopKept, ForgetKept
<1>16. ASSUME StartProcess PROVE AllKept'
  <2>1. Restart(feed) /\ UNCHANGED <<maintenanceVars, request>>
    BY <1>1, <1>16 DEF StartProcess
  <2>2. UNCHANGED feed
    BY <2>1 DEF Restart
  <2> QED
    BY <1>1, <1>2, <1>4, <2>1, <2>2, RestartKept DEF maintenanceVars
<1>17. CASE UNCHANGED vars
  <2>1. UNCHANGED <<pipelineVars, maintenanceVars, request>>
    BY <1>17 DEF vars
  <2>2. PipelineKept'
    BY <1>2, <2>1 DEF pipelineVars, maintenanceVars, PipelineKept, RowsKept, FilesKept, JobsKept
  <2> QED
    BY <1>4, <2>1, <2>2 DEF pipelineVars
<1> QED
  BY <1>5, <1>6, <1>7, <1>8, <1>9, <1>10, <1>11, <1>12, <1>13, <1>14, <1>15, <1>16, <1>17 DEF Next

LEMMA SettingsAlwaysKept == Spec => []SettingsKept
BY InitKept, NextKept, CopiesAlwaysSound, PTL DEF Spec

(* As long as a processed feed has kept the policy "hide", whatever fails, *)
(* restarts, waits or is swept, serve.go streams no episode of it and      *)
(* serves no file a download made.                                         *)
THEOREM HiddenNeverServed == Spec => []HiddenAudioNeverServed
<1>1. SettingsKept => HiddenAudioNeverServed
  BY DEF SettingsKept, AllKept, RequestsKept, KeptRequest, HiddenAudioNeverServed
<1> QED
  BY <1>1, SettingsAlwaysKept, PTL

-----------------------------------------------------------------------------
(* The second half: copies of settled episodes are of settled rows.        *)

(* A job that has claimed an episode for its first preparation.            *)
ForFirst(j) == j.phase \in Unrecorded /\ j.snap.state = "acquiring"

(* A job that claimed a waiting episode still has its claim; the others    *)
(* prepare again what has been settled.                                    *)
JobsFollow ==
    \A o \in Owners, e \in Episodes : job[o][e].phase \in Unrecorded =>
        IF job[o][e].snap.state = "acquiring" THEN row[e].state = "acquiring"
                                              ELSE ~Waits(row[e])

OneClaimer ==
    \A o, p \in Owners, e \in Episodes : ForFirst(job[o][e]) /\ ForFirst(job[p][e]) => o = p

RequestsFollow ==
    \A r \in Requests : request[r].phase \notin {"idle", "answered"} /\ ~Waits(request[r].snap) =>
        ~Waits(row[request[r].ep])

SweepFollows == sweep.phase # "idle" => ~Waits(row[sweep.ep])

DownIsIdle == life = "down" => job = NoJobs

AllFollow == JobsFollow /\ OneClaimer /\ RequestsFollow /\ SweepFollows /\ DownIsIdle

FollowsRow == changes = 0 /\ NoneStrands => AllFollow

(* What a step of the specification does to the stages.                    *)
stages == [e \in Episodes |-> Stage(row[e])]

StageStep == Lifecycle!Next \/ UNCHANGED stages

LEMMA StageOfWaiting ==
    ASSUME NEW r \in SoundRows
    PROVE  /\ Waits(r) <=> Stage(r) \in {"waiting", "preparing"}
           /\ ~Waits(r) <=> Stage(r) \in {"inFeed", "withheld"}
           /\ r.state = "discovered" <=> Stage(r) = "waiting"
           /\ r.state = "acquiring" <=> Stage(r) = "preparing"
<1>1. r.state \in States /\ r.withheld \in BOOLEAN
  BY DEF SoundRows, Rows
<1> QED
  BY <1>1 DEF States, Waits, Stage

(* One row changes.                                                        *)
LEMMA StageMove ==
    ASSUME PipelineSound, NEW e \in Episodes, NEW r \in SoundRows, row' = [row EXCEPT ![e] = r],
           \/ row[e].state = "discovered" /\ r.state = "acquiring"
           \/ row[e].state = "acquiring" /\ r.state # "acquiring"
           \/ ~Waits(row[e]) /\ ~Waits(r)
           \/ /\ "hide" \in Tasks /\ row[e].state \in {"discovered", "ready"} /\ r.state = "ready"
    PROVE  StageStep
<1> DEFINE from == Stage(row[e])
           to == Stage(r)
<1>1. row[e] \in SoundRows /\ r \in SoundRows /\ row \in [Episodes -> SoundRows]
  BY DEF PipelineSound
<1>2. \/ from = "waiting" /\ to = "preparing"
      \/ from = "preparing" /\ to \in {"waiting", "inFeed", "withheld"}
      \/ from \in {"inFeed", "withheld"} /\ to \in {"inFeed", "withheld"}
      \/ "hide" \in Tasks /\ from = "waiting" /\ to = "inFeed"
  BY <1>1 DEF SoundRows, Rows, States, RowSound, Waits, Stage
<1>3. stages[e] = from /\ stages' = [stages EXCEPT ![e] = to]
  BY <1>1 DEF stages
<1> HIDE DEF from, to
<1>4. CASE from = to
  <2>1. stages' = stages
    BY <1>3, <1>4 DEF stages
  <2> QED
    BY <2>1 DEF StageStep
<1>5. CASE from # to
  <2>1. \/ Lifecycle!Begin(e) \/ Lifecycle!PutBack(e) \/ Lifecycle!Settle(e)
        \/ Lifecycle!Withhold(e) \/ Lifecycle!Reveal(e) \/ Lifecycle!Show(e)
    BY <1>2, <1>3, <1>5 DEF stages, Lifecycle!Begin, Lifecycle!PutBack, Lifecycle!Settle,
       Lifecycle!Withhold, Lifecycle!Reveal, Lifecycle!Show, Lifecycle!Moves
  <2> QED
    BY <2>1 DEF StageStep, Lifecycle!Next
<1> QED
  BY <1>4, <1>5

(* Nothing that a stage depends on.                                        *)
LEMMA StageSame ==
    ASSUME PipelineSound, PipelineSound',
           \A e \in Episodes : row'[e].state = row[e].state /\ row'[e].withheld = row[e].withheld
    PROVE  StageStep
<1>1. ASSUME NEW e \in Episodes PROVE Stage(row'[e]) = Stage(row[e])
  <2>1. row[e] \in Rows /\ row'[e] \in Rows
    BY DEF PipelineSound, SoundRows
  <2> QED
    BY <2>1 DEF Rows, States, Stage
<1> QED
  BY <1>1 DEF StageStep, stages

(* What has been settled never waits again.                                *)
LEMMA SettledForGood ==
    ASSUME PipelineSound, PipelineSound', StageStep
    PROVE  \A e \in Episodes : ~Waits(row[e]) => ~Waits(row'[e])
<1> SUFFICES ASSUME NEW e \in Episodes, ~Waits(row[e]) PROVE ~Waits(row'[e])
  OBVIOUS
<1>1. /\ ~Waits(row[e]) <=> Stage(row[e]) \in {"inFeed", "withheld"}
      /\ ~Waits(row'[e]) <=> Stage(row'[e]) \in {"inFeed", "withheld"}
  BY StageOfWaiting DEF PipelineSound
<1>2. stages[e] = Stage(row[e]) /\ stages'[e] = Stage(row'[e]) /\ stages = [x \in Episodes |-> stages[x]]
  BY DEF stages
<1>3. stages[e] \in {"inFeed", "withheld"}
  BY <1>1, <1>2
<1>4. ASSUME NEW x \in Episodes, NEW from, NEW to, Lifecycle!Moves(x, from, to),
             from \subseteq {"inFeed", "withheld"} => to \subseteq {"inFeed", "withheld"},
             \/ from \cap {"inFeed", "withheld"} = {}
             \/ from \subseteq {"inFeed", "withheld"}
      PROVE  stages'[e] \in {"inFeed", "withheld"}
  BY <1>2, <1>3, <1>4 DEF stages, Lifecycle!Moves
<1>5. ASSUME Lifecycle!PutAllBack PROVE stages'[e] \in {"inFeed", "withheld"}
  BY <1>2, <1>3, <1>5 DEF stages, Lifecycle!PutAllBack
<1>6. ASSUME NEW x \in Episodes,
             \/ Lifecycle!Begin(x) \/ Lifecycle!PutBack(x) \/ Lifecycle!Settle(x)
             \/ Lifecycle!Withhold(x) \/ Lifecycle!Reveal(x) \/ Lifecycle!Show(x)
      PROVE  stages'[e] \in {"inFeed", "withheld"}
  BY <1>4, <1>6 DEF Lifecycle!Begin, Lifecycle!PutBack, Lifecycle!Settle,
       Lifecycle!Withhold, Lifecycle!Reveal, Lifecycle!Show
<1> QED
  BY <1>1, <1>2, <1>3, <1>5, <1>6 DEF StageStep, Lifecycle!Next

-----------------------------------------------------------------------------
(* What follows when nothing settled waits again.                          *)

LEMMA RequestsStillFollow ==
    ASSUME PipelineSound, PipelineSound', ServerSound, StageStep, RequestsFollow, UNCHANGED request
    PROVE  RequestsFollow'
BY SettledForGood DEF RequestsFollow, ServerSound, SoundRequests, RequestRecs

LEMMA SweepStillFollows ==
    ASSUME PipelineSound, PipelineSound', MaintenanceSound, StageStep, SweepFollows, UNCHANGED sweep
    PROVE  SweepFollows'
BY SettledForGood DEF SweepFollows, MaintenanceSound, SoundSweeps, SweepRecs

(* Jobs move on, end, or are started on what has been settled.             *)
LEMMA JobsStillFollow ==
    ASSUME PipelineSound, PipelineSound', StageStep, JobsFollow, OneClaimer,
           \A o \in Owners, e \in Episodes : job'[o][e].phase \in Unrecorded =>
              \/ /\ job[o][e].phase \in Unrecorded
                 /\ job'[o][e].snap.state = job[o][e].snap.state
                 /\ ForFirst(job[o][e]) /\ row[e].state = "acquiring" => row'[e].state = "acquiring"
              \/ job'[o][e].snap.state # "acquiring" /\ ~Waits(row'[e])
    PROVE  JobsFollow' /\ OneClaimer'
<1>1. ASSUME NEW o \in Owners, NEW e \in Episodes, job'[o][e].phase \in Unrecorded
      PROVE  /\ IF job'[o][e].snap.state = "acquiring" THEN row'[e].state = "acquiring"
                                                       ELSE ~Waits(row'[e])
             /\ job'[o][e].snap.state = "acquiring" => ForFirst(job[o][e])
  BY <1>1, SettledForGood DEF JobsFollow, ForFirst
<1>2. JobsFollow'
  BY <1>1 DEF JobsFollow
<1>3. OneClaimer'
  BY <1>1 DEF OneClaimer, ForFirst
<1> QED
  BY <1>2, <1>3

(* A waiting episode is claimed: nobody else has a job for it.             *)
LEMMA FirstClaimFollows ==
    ASSUME PipelineSound, JobsFollow, OneClaimer, NEW o \in Owners, NEW e \in Episodes, NEW j,
           row[e].state = "discovered", row' = [row EXCEPT ![e].state = "acquiring"],
           job' = [job EXCEPT ![o][e] = j], j.snap.state = "acquiring"
    PROVE  StageStep /\ JobsFollow' /\ OneClaimer'
<1>0. row \in [Episodes -> Rows] /\ job \in [Owners -> [Episodes -> JobRecs]]
  BY DEF PipelineSound, SoundRows, JobTable, SoundJobs
<1>1. \A p \in Owners : job[p][e].phase \notin Unrecorded
  BY DEF JobsFollow, Waits
<1>2. [row[e] EXCEPT !.state = "acquiring"] \in SoundRows
      /\ [row[e] EXCEPT !.state = "acquiring"].state = "acquiring"
      /\ row' = [row EXCEPT ![e] = [row[e] EXCEPT !.state = "acquiring"]]
  BY <1>0, ClaimSound DEF PipelineSound, ClaimedRows, Rows, SoundRows
<1>3. StageStep
  BY <1>2, StageMove
<1>4. /\ row'[e].state = "acquiring" /\ \A x \in Episodes \ {e} : row'[x] = row[x]
      /\ \A p \in Owners, x \in Episodes : job'[p][x] = IF p = o /\ x = e THEN j ELSE job[p][x]
  BY <1>0, <1>2
<1>5. JobsFollow'
  BY <1>1, <1>4 DEF JobsFollow
<1>6. OneClaimer'
  BY <1>1, <1>4 DEF OneClaimer, ForFirst
<1> QED
  BY <1>3, <1>5, <1>6

(* The row an outcome leaves.                                              *)
LEMMA OutcomeStates ==
    ASSUME NEW j \in SoundJobs
    PROVE  /\ j.snap.state # "acquiring" => ~Waits(OutcomeRow(j))
           /\ j.snap.state = "acquiring" => OutcomeRow(j).state # "acquiring"
           /\ ~WaitingForFirst(OutcomeRow(j))
<1>1. /\ j.snap \in Rows /\ j.snap.state \in {"acquiring", "ready", "failed"}
  BY DEF SoundJobs, ClaimedRows, SoundRows, Rows, States
<1>2. ASSUME NEW c \in Rows PROVE Counted(c).state = c.state /\ Counted(c) \in Rows
  BY <1>2, CountersType DEF Counted, Rows
<1>3. Succeeded(j.snap, j.feed, j.processing).state = "ready"
  BY <1>1 DEF Succeeded, NoFailure, Rows
<1>4. FailedAgain(j.snap, j.feed).state = j.snap.state
  BY <1>1, <1>2 DEF FailedAgain, Rows
<1>5. GaveUp(j.snap, j.feed, j.processing).state = "failed"
  BY <1>1, <1>2 DEF GaveUp, Rows
<1>6. /\ j.snap.state = "acquiring" =>
            TriedAgain(j.snap).state = "discovered" /\ TriedAgain(j.snap).next = "later"
      /\ j.snap.state # "acquiring" => TriedAgain(j.snap).state = j.snap.state
  BY <1>1, <1>2 DEF TriedAgain, Rows
<1>7. \/ OutcomeRow(j) = Succeeded(j.snap, j.feed, j.processing)
      \/ j.snap.state = "failed" /\ OutcomeRow(j) = FailedAgain(j.snap, j.feed)
      \/ OutcomeRow(j) = GaveUp(j.snap, j.feed, j.processing)
      \/ j.snap.state # "failed" /\ OutcomeRow(j) = TriedAgain(j.snap)
  BY DEF OutcomeRow, Failure
<1> QED
  BY <1>1, <1>3, <1>4, <1>5, <1>6, <1>7 DEF Waits, WaitingForFirst

LEMMA WorkerStepFollows ==
    ASSUME PipelineSound, PipelineSound', JobsFollow, OneClaimer, NEW w \in Workers, WorkerStep(w)
    PROVE  StageStep /\ JobsFollow' /\ OneClaimer'
<1>0. /\ row \in [Episodes -> Rows] /\ job \in [Owners -> [Episodes -> JobRecs]] /\ w \in Owners
      /\ Idle.phase = "idle"
  BY ListenerIsNoWorker, PhasesOfNewJobs DEF PipelineSound, SoundRows, JobTable, SoundJobs
<1>1. ASSUME UNCHANGED row,
             \A o \in Owners, e \in Episodes : job'[o][e].phase \in Unrecorded =>
                 job[o][e].phase \in Unrecorded /\ job'[o][e].snap = job[o][e].snap
      PROVE  StageStep /\ JobsFollow' /\ OneClaimer'
  BY <1>1, StageSame, JobsStillFollow
<1>2. CASE ClaimNextEpisode(w)
  <2>1. PICK e \in Episodes :
           /\ row[e].state = "discovered" /\ row' = [row EXCEPT ![e].state = "acquiring"]
           /\ job' = [job EXCEPT ![w][e] =
                        NewJob("claimed", [row[e] EXCEPT !.state = "acquiring"], Idle.feed, FALSE)]
    BY <1>2 DEF ClaimNextEpisode, NewWork, WaitingForFirst
  <2>2. NewJob("claimed", [row[e] EXCEPT !.state = "acquiring"], Idle.feed, FALSE).snap.state = "acquiring"
    BY <1>0 DEF NewJob, Rows
  <2> QED
    BY <1>0, <2>1, <2>2, FirstClaimFollows
<1>3. CASE ClaimQueuedEpisode(w)
  <2>1. PICK e \in Episodes :
           /\ ~Waits(row[e]) /\ row' = [row EXCEPT ![e].next = "later"]
           /\ job' = [job EXCEPT ![w][e] =
                        NewJob("claimed", [row[e] EXCEPT !.next = "later"], Idle.feed, FALSE)]
    BY <1>3 DEF ClaimQueuedEpisode, QueuedWork, QueuedAndDue, Queueable, Waits
  <2>2. NewJob("claimed", [row[e] EXCEPT !.next = "later"], Idle.feed, FALSE).snap.state = row[e].state
    BY <1>0 DEF NewJob, Rows
  <2>3. \A x \in Episodes : row'[x].state = row[x].state /\ row'[x].withheld = row[x].withheld
    BY <1>0, <2>1 DEF Rows
  <2>4. \A o \in Owners, x \in Episodes : job'[o][x] =
           IF o = w /\ x = e THEN NewJob("claimed", [row[e] EXCEPT !.next = "later"], Idle.feed, FALSE)
                             ELSE job[o][x]
    BY <1>0, <2>1
  <2>5. StageStep
    BY <2>3, StageSame
  <2>6. ASSUME NEW o \in Owners, NEW x \in Episodes, job'[o][x].phase \in Unrecorded
        PROVE  \/ job[o][x].phase \in Unrecorded /\ job'[o][x].snap = job[o][x].snap
               \/ x = e /\ job'[o][x].snap.state = row[e].state
    BY <2>2, <2>4, <2>6
  <2> QED
    BY <2>1, <2>3, <2>5, <2>6, JobsStillFollow DEF Waits
<1>4. CASE RunBatch(w)
  BY <1>0, <1>1, <1>4 DEF RunBatch, Unrecorded, JobRecs
<1>5. ASSUME NEW e \in Episodes, StartFlight(w, e) \/ JoinBatch(w, e)
      PROVE  StageStep /\ JobsFollow' /\ OneClaimer'
  <2>1. /\ UNCHANGED row /\ job[w][e].phase \in Unrecorded
        /\ \/ job' = [job EXCEPT ![w][e] = Idle]
           \/ \E p \in {"started", "joined"} :
                 job' = [job EXCEPT ![w][e] = [job[w][e] EXCEPT !.phase = p]]
    BY <1>0, <1>5 DEF StartFlight, JoinBatch, Unrecorded
  <2>2. ASSUME NEW p PROVE [job[w][e] EXCEPT !.phase = p].snap = job[w][e].snap
    BY <1>0 DEF JobRecs
  <2>3. \E j : /\ job' = [job EXCEPT ![w][e] = j]
               /\ j.phase \in Unrecorded => j.snap = job[w][e].snap
    BY <1>0, <2>1, <2>2 DEF Unrecorded
  <2> QED
    BY <1>0, <1>1, <2>1, <2>3
<1>6. ASSUME NEW e \in Episodes, LoadFeed(w, e)
      PROVE  StageStep /\ JobsFollow' /\ OneClaimer'
  <2>1. /\ UNCHANGED row /\ job[w][e].phase \in Unrecorded
        /\ \A o \in Owners, x \in Episodes : job'[o][x].snap = job[o][x].snap
                                             /\ (o # w \/ x # e => job'[o][x] = job[o][x])
    BY <1>0, <1>6 DEF LoadFeed, Unrecorded, JobRecs
  <2> QED
    BY <1>1, <2>1
<1>7. ASSUME NEW first \in Episodes, ClaimQueuedEpisodesForFeed(w, first)
      PROVE  StageStep /\ JobsFollow' /\ OneClaimer'
  <2>1. PICK more \in SUBSET {e \in Episodes \ {first} : ~hidden[e] /\ QueuedAndDue(row[e])} :
           /\ row' = [e \in Episodes |-> IF e \in more THEN [row[e] EXCEPT !.next = "later"]
                                                       ELSE row[e]]
           /\ job' = [job EXCEPT ![w] = [e \in Episodes |->
                         IF e \in more
                         THEN NewJob("joining", [row[e] EXCEPT !.next = "later"],
                                     job[w][first].feed, TRUE)
                         ELSE IF e = first THEN [job[w][e] EXCEPT !.phase = "joined"]
                         ELSE job[w][e]]]
    BY <1>7 DEF ClaimQueuedEpisodesForFeed
  <2>2. \A e \in more : ~Waits(row[e])
    BY <2>1 DEF QueuedAndDue, Queueable, Waits
  <2>3. \A e \in Episodes : row'[e].state = row[e].state /\ row'[e].withheld = row[e].withheld
    BY <1>0, <2>1 DEF Rows
  <2>4. job[w][first].phase \in Unrecorded
    BY <1>7 DEF ClaimQueuedEpisodesForFeed, Unrecorded
  <2>5. ASSUME NEW o \in Owners, NEW e \in Episodes, job'[o][e].phase \in Unrecorded
        PROVE  \/ job[o][e].phase \in Unrecorded /\ job'[o][e].snap = job[o][e].snap
               \/ e \in more /\ job'[o][e].snap.state = row[e].state
    <3>1. CASE o = w /\ e \in more
      <4>1. NewJob("joining", [row[e] EXCEPT !.next = "later"], job[w][first].feed, TRUE).snap.state
               = row[e].state
        BY <1>0, <3>1 DEF NewJob, Rows
      <4> QED
        BY <1>0, <2>1, <3>1, <4>1
    <3>2. CASE o = w /\ e = first
      <4>1. job'[w][first] = [job[w][first] EXCEPT !.phase = "joined"]
        BY <1>0, <2>1
      <4> QED
        BY <1>0, <2>4, <3>2, <4>1 DEF JobRecs
    <3>3. CASE o # w \/ (e \notin more /\ e # first)
      BY <1>0, <2>1, <2>5, <3>3
    <3> QED
      BY <3>1, <3>2, <3>3
  <2>6. StageStep
    BY <2>3, StageSame
  <2> QED
    BY <2>2, <2>3, <2>5, <2>6, JobsStillFollow DEF Waits
<1> QED
  BY <1>2, <1>3, <1>4, <1>5, <1>6, <1>7 DEF WorkerStep

LEMMA JobStepFollows ==
    ASSUME PipelineSound, PipelineSound', JobsFollow, OneClaimer, NEW o \in Owners, NEW e \in Episodes,
           JobStep(o, e) \/ EndFlight(o, e)
    PROVE  StageStep /\ JobsFollow' /\ OneClaimer'
<1>0. /\ row \in [Episodes -> Rows] /\ job \in [Owners -> [Episodes -> JobRecs]]
      /\ Idle.phase \notin Unrecorded /\ Over.phase \notin Unrecorded
  BY PhasesOfNewJobs DEF PipelineSound, SoundRows, JobTable, SoundJobs, Unrecorded
<1>1. ASSUME UNCHANGED row,
             \A p \in Owners, x \in Episodes : job'[p][x].phase \in Unrecorded =>
                 job[p][x].phase \in Unrecorded /\ job'[p][x].snap = job[p][x].snap
      PROVE  StageStep /\ JobsFollow' /\ OneClaimer'
  BY <1>1, StageSame, JobsStillFollow
<1>2. CASE Attempt(o, e)
  <2>1. /\ UNCHANGED row /\ job[o][e].phase \in Unrecorded
        /\ \E outcome : job' = [job EXCEPT ![o][e].phase = "record", ![o][e].made = outcome]
    BY <1>2 DEF Attempt, Unrecorded
  <2> QED
    BY <1>0, <1>1, <2>1 DEF JobRecs, Unrecorded
<1>3. CASE RecordOutcome(o, e)
  <2> DEFINE j == job[o][e]
             r == OutcomeRow(j)
  <2>1. /\ row' = [row EXCEPT ![e] = r] /\ job' = [job EXCEPT ![o][e] = Over]
        /\ j.phase \in Unrecorded /\ j \in SoundJobs /\ r \in SoundRows
    BY <1>3, OutcomeSound DEF RecordOutcome, Unrecorded, PipelineSound, JobTable
  <2>2. /\ j.snap.state # "acquiring" => ~Waits(r) /\ ~Waits(row[e])
        /\ j.snap.state = "acquiring" => r.state # "acquiring" /\ row[e].state = "acquiring"
    BY <2>1, OutcomeStates DEF JobsFollow
  <2>3. \A p \in Owners, x \in Episodes :
           job'[p][x] = IF p = o /\ x = e THEN Over ELSE job[p][x]
    BY <1>0, <2>1
  <2>4. row'[e] = r /\ \A x \in Episodes \ {e} : row'[x] = row[x]
    BY <1>0, <2>1
  <2> HIDE DEF r
  <2>5. StageStep
    BY <2>1, <2>2, StageMove
  <2>6. ASSUME NEW p \in Owners, NEW x \in Episodes, job'[p][x].phase \in Unrecorded
        PROVE  /\ job[p][x].phase \in Unrecorded
               /\ job'[p][x].snap.state = job[p][x].snap.state
               /\ ForFirst(job[p][x]) /\ row[x].state = "acquiring" => row'[x].state = "acquiring"
    <3>1. (p # o \/ x # e) /\ job'[p][x] = job[p][x] /\ job[p][x].phase \in Unrecorded
      BY <1>0, <2>3, <2>6
    <3>2. CASE x = e /\ ForFirst(job[p][x]) /\ row[x].state = "acquiring"
      BY <2>1, <2>2, <3>1, <3>2 DEF OneClaimer, ForFirst, Waits
    <3>3. CASE x # e
      BY <2>4, <3>1, <3>3
    <3> QED
      BY <3>1, <3>2, <3>3
  <2> QED
    BY <2>5, <2>6, JobsStillFollow
<1>4. CASE AbandonJob(o, e) \/ EndFlight(o, e)
  <2>1. UNCHANGED row /\ \E j \in {Over, Idle} : job' = [job EXCEPT ![o][e] = j]
    BY <1>4 DEF AbandonJob, EndFlight
  <2> QED
    BY <1>0, <1>1, <2>1
<1> QED
  BY <1>2, <1>3, <1>4 DEF JobStep

LEMMA SlotAndTimeFollow ==
    ASSUME PipelineSound, PipelineSound', JobsFollow, OneClaimer, NEW e \in Episodes,
           TakeSlot(e) \/ ComeDue(e)
    PROVE  StageStep /\ JobsFollow' /\ OneClaimer'
<1>0. row \in [Episodes -> Rows] /\ job \in [Owners -> [Episodes -> JobRecs]]
  BY DEF PipelineSound, SoundRows, JobTable, SoundJobs
<1>1. \A x \in Episodes : row'[x].state = row[x].state /\ row'[x].withheld = row[x].withheld
  BY <1>0 DEF TakeSlot, ComeDue, Rows
<1>2. \A o \in Owners, x \in Episodes : job'[o][x].phase \in Unrecorded =>
         job[o][x].phase \in Unrecorded /\ job'[o][x].snap = job[o][x].snap
  <2>1. CASE TakeSlot(e)
    <3>1. /\ job[Listener][e].phase \in Unrecorded
          /\ job' = [job EXCEPT ![Listener][e] = [job[Listener][e] EXCEPT !.phase = "working"]]
      BY <1>0, <2>1, ListenerIsNoWorker DEF TakeSlot, Unrecorded
    <3>2. [job[Listener][e] EXCEPT !.phase = "working"].snap = job[Listener][e].snap
      BY <1>0, ListenerIsNoWorker DEF JobRecs
    <3> QED
      BY <1>0, <3>1, <3>2
  <2>2. CASE ComeDue(e)
    BY <2>2 DEF ComeDue
  <2> QED
    BY <2>1, <2>2
<1>3. StageStep
  BY <1>1, StageSame
<1> QED
  BY <1>1, <1>2, <1>3, JobsStillFollow

(* Nothing moves; a settled row is written over a settled row.             *)
LEMMA NoMoveFollows ==
    ASSUME PipelineSound, PipelineSound', JobsFollow, OneClaimer, UNCHANGED job,
           \A e \in Episodes : row'[e].state = row[e].state /\ row'[e].withheld = row[e].withheld
    PROVE  StageStep /\ JobsFollow' /\ OneClaimer'
<1>1. StageStep
  BY StageSame
<1> QED
  BY <1>1, JobsStillFollow

LEMMA SettledSaveFollows ==
    ASSUME PipelineSound, PipelineSound', JobsFollow, OneClaimer, UNCHANGED job,
           NEW e \in Episodes, NEW r \in SoundRows, row' = [row EXCEPT ![e] = r],
           ~Waits(row[e]), ~Waits(r)
    PROVE  StageStep /\ JobsFollow' /\ OneClaimer'
<1>1. StageStep
  BY StageMove
<1>2. \A x \in Episodes : row[x].state = "acquiring" => row'[x].state = "acquiring"
  BY DEF PipelineSound, Waits
<1> QED
  BY <1>1, <1>2, JobsStillFollow

LEMMA PrepareStartsFollows ==
    ASSUME PipelineSound, PipelineSound', JobsFollow, OneClaimer,
           NEW e \in Episodes, NEW snap, NEW f, ~Waits(snap) => ~Waits(row[e]),
           PrepareStarts(e, snap, f)
    PROVE  StageStep /\ JobsFollow' /\ OneClaimer'
<1>0. /\ row \in [Episodes -> Rows] /\ job \in [Owners -> [Episodes -> JobRecs]] /\ Listener \in Owners
  BY ListenerIsNoWorker DEF PipelineSound, SoundRows, JobTable, SoundJobs
<1>1. CASE /\ snap.state = "ready" /\ UNCHANGED row
           /\ job' = [job EXCEPT ![Listener][e] = NewJob("slot", snap, f, f.processed)]
  <2>1. NewJob("slot", snap, f, f.processed).snap = snap
    BY DEF NewJob
  <2>2. ~Waits(row[e]) /\ snap.state # "acquiring"
    BY <1>1 DEF Waits
  <2>3. StageStep
    BY <1>1, StageSame
  <2>4. ASSUME NEW o \in Owners, NEW x \in Episodes, job'[o][x].phase \in Unrecorded
        PROVE  \/ job[o][x].phase \in Unrecorded /\ job'[o][x].snap = job[o][x].snap
               \/ job'[o][x].snap.state # "acquiring" /\ ~Waits(row'[x])
    BY <1>0, <1>1, <2>1, <2>2, <2>4
  <2> QED
    BY <1>1, <2>3, <2>4, JobsStillFollow
<1>2. CASE /\ row[e].state = "discovered" /\ row' = [row EXCEPT ![e].state = "acquiring"]
           /\ job' = [job EXCEPT ![Listener][e] =
                         NewJob("slot", [row[e] EXCEPT !.state = "acquiring"], f, f.processed)]
  <2>1. NewJob("slot", [row[e] EXCEPT !.state = "acquiring"], f, f.processed).snap.state = "acquiring"
    BY <1>0 DEF NewJob, Rows
  <2> QED
    BY <1>0, <1>2, <2>1, FirstClaimFollows
<1> QED
  BY <1>1, <1>2 DEF PrepareStarts

(* What a step of a request does to its copy.                              *)
LEMMA RequestMoves ==
    ASSUME ServerSound, PipelineSound, RequestsKept, NEW r \in Requests, RequestStep(r)
    PROVE  /\ \A x \in Requests \ {r} : request'[x] = request[x]
           /\ request'[r].ep = request[r].ep
           /\ \/ request'[r].phase = "answered"
              \/ request'[r].snap = row[request[r].ep]
              \/ /\ request[r].phase \notin {"idle", "answered"}
                 /\ request'[r].snap.state = request[r].snap.state
<1> DEFINE q == request[r]
<1>0. /\ request \in [Requests -> RequestRecs] /\ q \in RequestRecs /\ q.snap \in SoundRows
      /\ q.snap \in Rows /\ KeptRequest(q, feed) /\ feed \in FeedSettings
  BY FeedType DEF ServerSound, SoundRequests, SoundRows, RequestsKept
<1>1. ASSUME NEW kind, NEW audio, Answer(r, kind, audio)
      PROVE  /\ \A x \in Requests \ {r} : request'[x] = request[x]
             /\ request'[r].ep = q.ep /\ request'[r].phase = "answered"
  BY <1>0, <1>1 DEF Answer, RequestRecs
<1>2. ASSUME NEW p, NEW s, s.state = q.snap.state, q.phase \notin {"idle", "answered"},
             request' = [request EXCEPT ![r] = [q EXCEPT !.phase = p, !.snap = s]]
      PROVE  /\ \A x \in Requests \ {r} : request'[x] = request[x]
             /\ request'[r].ep = q.ep /\ request'[r].snap.state = q.snap.state
  BY <1>0, <1>2 DEF RequestRecs
<1>3. CASE ReadFeed(r) \/ SaveCheck(r) \/ SaveForgotten(r) \/ StartTee(r) \/ CommitTee(r)
  BY <1>0, <1>3 DEF ReadFeed, SaveCheck, SaveForgotten, StartTee, CommitTee, Passes, RequestRecs
<1>4. CASE CheckEpisode(r)
  <2>1. q.phase = "check" /\ q.feed = feed
    BY <1>0, <1>4 DEF CheckEpisode, KeptRequest
  <2>2. ~ReconcileSaves(q.snap, q.feed)
    BY <1>0, <2>1, KeptFits DEF KeptRequest
  <2>3. request' = [request EXCEPT ![r] = [q EXCEPT !.phase = "serve", !.snap = q.snap]]
    BY <1>0, <1>4, <2>2 DEF CheckEpisode
  <2> QED
    BY <1>2, <2>1, <2>3
<1>5. CASE ServeCached(r)
  <2>1. ForgetCache(q.snap).state = q.snap.state /\ q.phase = "serve"
    BY <1>0, <1>5 DEF ForgetCache, ServeCached, Rows
  <2>2. \/ Answer(r, "notfound", NoAudio) \/ Answer(r, "file", disk[q.ep])
        \/ request' = [request EXCEPT ![r] = [q EXCEPT !.phase = "forget", !.snap = ForgetCache(q.snap)]]
        \/ request' = [request EXCEPT ![r] = [q EXCEPT !.phase = "route"]]
    BY <1>0, <1>5 DEF ServeCached
  <2> QED
    BY <1>0, <1>1, <1>2, <2>1, <2>2 DEF RequestRecs
<1>6. CASE Prepare(r)
  <2>1. \/ Answer(r, "unavailable", NoAudio)
        \/ request' = [request EXCEPT ![r] = [q EXCEPT !.phase = "waiting", !.waited = TRUE]]
    BY <1>0, <1>6 DEF Prepare
  <2>2. q.phase = "route"
    BY <1>6 DEF Prepare
  <2> QED
    BY <1>0, <1>1, <2>1, <2>2 DEF RequestRecs
<1>7. CASE Reread(r)
  BY <1>0, <1>7 DEF Reread, RequestRecs
<1>8. CASE ServePrepared(r)
  <2>1. \/ \E kind, audio : Answer(r, kind, audio)
        \/ request' = [request EXCEPT ![r] = [q EXCEPT !.phase = "pass"]]
    BY <1>0, <1>8 DEF ServePrepared
  <2>2. q.phase = "reread"
    BY <1>8 DEF ServePrepared
  <2> QED
    BY <1>0, <1>1, <2>1, <2>2 DEF RequestRecs
<1>9. CASE Redirect(r) \/ Stream(r) \/ DiscardTee(r) \/ SaveTee(r) \/ StopWaiting(r)
  BY <1>1, <1>9 DEF Redirect, Stream, DiscardTee, SaveTee, StopWaiting
<1> QED
  BY <1>3, <1>4, <1>5, <1>6, <1>7, <1>8, <1>9 DEF RequestStep, ServeStep

LEMMA RequestStepFollows ==
    ASSUME NoneStrands, PipelineSound, PipelineSound', ServerSound, RequestsKept,
           JobsFollow, OneClaimer, RequestsFollow, NEW r \in Requests, RequestStep(r)
    PROVE  StageStep /\ JobsFollow' /\ OneClaimer' /\ RequestsFollow'
<1> DEFINE q == request[r]
<1>0. /\ q \in RequestRecs /\ q.ep \in Episodes /\ q.snap \in SoundRows /\ q.snap \in Rows
      /\ KeptRequest(q, feed) /\ feed \in FeedSettings
  BY FeedType DEF ServerSound, SoundRequests, SoundRows, RequestRecs, RequestsKept
<1>1. q.phase \notin {"idle", "answered"} /\ ~Waits(q.snap) => ~Waits(row[q.ep])
  BY DEF RequestsFollow
<1>2. StageStep /\ JobsFollow' /\ OneClaimer'
  <2>1. CASE SaveCheck(r)
    BY <1>0, <2>1 DEF SaveCheck, KeptRequest
  <2>2. CASE SaveForgotten(r)
    <3>1. /\ q.phase = "forget" /\ UNCHANGED job /\ row' = [row EXCEPT ![q.ep] = q.snap]
          /\ ~Waits(q.snap)
      BY <1>0, <2>2 DEF SaveForgotten, KeptRequest
    <3> QED
      BY <1>0, <1>1, <3>1, SettledSaveFollows
  <2>3. CASE SaveTee(r)
    <3>1. /\ q.phase = "teesave" /\ UNCHANGED job /\ q.feed = feed
          /\ row' = [row EXCEPT ![q.ep] = Teed(q.snap, q.feed)]
      BY <1>0, <2>3 DEF SaveTee, KeptRequest
    <3>2. ~Waits(q.snap)
      BY <1>0, <3>1 DEF KeptRequest, Kept, Tees, Waits
    <3>3. ~Waits(Teed(q.snap, q.feed))
      BY <1>0, <3>2 DEF Teed, Rows, Waits
    <3>4. Teed(q.snap, q.feed) \in SoundRows
      <4>1. ~q.snap.withheld
        BY <3>1 DEF ServerSound, SoundRequests, NotWithheldPhases
      <4> QED
        BY <1>0, <3>1, <3>2, <4>1, TeedSound DEF SoundRows, Waits
    <3> QED
      BY <1>0, <1>1, <3>1, <3>2, <3>3, <3>4, SettledSaveFollows
  <2>4. CASE Prepare(r) /\ PrepareStarts(q.ep, q.snap, q.feed)
    <3>1. q.phase = "route"
      BY <2>4 DEF Prepare
    <3> QED
      BY <1>0, <1>1, <2>4, <3>1, PrepareStartsFollows
  <2>5. CASE UNCHANGED <<row, job>>
    BY <2>5, NoMoveFollows
  <2> QED
    BY <2>1, <2>2, <2>3, <2>4, <2>5 DEF RequestStep, ServeStep, ReadFeed, CheckEpisode, ServeCached,
       Prepare, Reread, ServePrepared, Redirect, Stream, StartTee, CommitTee, DiscardTee,
       StopWaiting, pipelineVars
<1>3. RequestsFollow'
  <2>1. \A e \in Episodes : ~Waits(row[e]) => ~Waits(row'[e])
    BY <1>2, SettledForGood
  <2>2. ASSUME NEW x \in Requests, x # r PROVE request'[x] = request[x] /\ request[x].ep \in Episodes
    BY <2>2, RequestMoves DEF ServerSound, SoundRequests, RequestRecs
  <2>3. request'[r].phase \notin {"idle", "answered"} /\ ~Waits(request'[r].snap) => ~Waits(row[q.ep])
    BY <1>1, RequestMoves DEF Waits
  <2>4. request'[r].ep = q.ep
    BY RequestMoves
  <2> QED
    BY <1>0, <2>1, <2>2, <2>3, <2>4 DEF RequestsFollow
<1> QED
  BY <1>2, <1>3

LEMMA AskFollows ==
    ASSUME PipelineSound, PipelineSound', ServerSound, JobsFollow, OneClaimer, RequestsFollow,
           NEW r \in Requests, NEW e \in Episodes, Ask(r, e)
    PROVE  StageStep /\ JobsFollow' /\ OneClaimer' /\ RequestsFollow'
<1> DEFINE q == [RequestIdle EXCEPT !.phase = "feed", !.ep = e, !.snap = row[e], !.asked = feed]
<1>1. UNCHANGED <<row, job>> /\ request' = [request EXCEPT ![r] = q]
  BY DEF Ask, pipelineVars
<1>2. q.ep = e /\ q.snap = row[e]
  BY DEF RequestIdle
<1>3. StageStep /\ JobsFollow' /\ OneClaimer'
  BY <1>1, NoMoveFollows
<1> HIDE DEF q
<1>4. RequestsFollow'
  BY <1>1, <1>2 DEF RequestsFollow, ServerSound
<1> QED
  BY <1>3, <1>4

(* Commands and rules touch nothing that waits, but to publish it.         *)
LEMMA AdminStepFollows ==
    ASSUME PipelineSound, PipelineSound', JobsFollow, OneClaimer, AdminsKept,
           NEW a \in Admins, AskToQueue(a) \/ AdminStep(a)
    PROVE  StageStep /\ JobsFollow' /\ OneClaimer'
<1>1. AskToQueue(a) \/ PickToQueue(a) \/ ApplyQueue(a)
  BY DEF AdminStep, AdminsKept, ReconcileList, ReconcileEnd, ReconcileSkip, ReconcileEpisode,
         ReconcileSave
<1>2. UNCHANGED job
  BY <1>1 DEF AskToQueue, PickToQueue, ApplyQueue, pipelineVars
<1>3. ASSUME NEW e \in Episodes
      PROVE  row'[e].state = row[e].state /\ row'[e].withheld = row[e].withheld
  <2>1. row[e] \in Rows
    BY DEF PipelineSound, SoundRows
  <2>2. row'[e] \in {row[e], QueuedFailed(row[e]), QueuedUncached(row[e])}
    BY <1>1 DEF AskToQueue, PickToQueue, ApplyQueue, pipelineVars
  <2> QED
    BY <2>1, <2>2 DEF QueuedFailed, QueuedUncached, Rows
<1> QED
  BY <1>2, <1>3, NoMoveFollows

LEMMA HousekeeperFollows ==
    ASSUME NoneStrands, PipelineSound, PipelineSound', MaintenanceSound, PipelineKept, SweepKept,
           JobsFollow, OneClaimer, SweepFollows,
           \/ SweepRemove \/ SweepSave
           \/ \E e \in Episodes : SweepList(e) \/ RemoveOrphan(e)
    PROVE  StageStep /\ JobsFollow' /\ OneClaimer' /\ SweepFollows'
<1>0. ASSUME NEW r \in Rows, Kept(r, feed), r.cached PROVE ~Waits(r)
  BY <1>0 DEF Kept
<1>1. CASE SweepSave
  <2> DEFINE r == ForgetCache(sweep.copy)
  <2>1. /\ sweep.phase = "save" /\ sweep.ep \in Episodes /\ sweep.copy \in SoundRows
        /\ UNCHANGED job /\ row' = [row EXCEPT ![sweep.ep] = r] /\ sweep' = SweepIdle
    BY <1>1 DEF SweepSave, MaintenanceSound, SoundSweeps, SweepRecs
  <2>2. r \in SoundRows /\ ~Waits(r) /\ ~Waits(row[sweep.ep])
    <3>1. ~Waits(sweep.copy) /\ ~Waits(row[sweep.ep])
      BY <1>0, <2>1 DEF SweepKept, SweepFollows, SoundRows
    <3>2. r.state = sweep.copy.state
      BY <2>1 DEF SoundRows, Rows, ForgetCache
    <3> QED
      BY <2>1, <3>1, <3>2, ForgetCacheSound DEF Waits, SoundRows
  <2> HIDE DEF r
  <2>3. StageStep /\ JobsFollow' /\ OneClaimer'
    BY <2>1, <2>2, SettledSaveFollows
  <2>4. SweepFollows'
    BY <2>1 DEF SweepFollows, SweepIdle
  <2> QED
    BY <2>3, <2>4
<1>2. ASSUME NEW e \in Episodes, SweepList(e)
      PROVE  StageStep /\ JobsFollow' /\ OneClaimer' /\ SweepFollows'
  <2>1. UNCHANGED <<row, job>> /\ sweep'.ep = e /\ row[e].cached
    BY <1>2 DEF SweepList, pipelineVars
  <2>2. ~Waits(row[e])
    BY <1>0, <2>1 DEF PipelineKept, RowsKept, PipelineSound, SoundRows
  <2> QED
    BY <2>1, <2>2, NoMoveFollows DEF SweepFollows
<1>3. ASSUME SweepRemove \/ \E e \in Episodes : RemoveOrphan(e)
      PROVE  StageStep /\ JobsFollow' /\ OneClaimer' /\ SweepFollows'
  <2>1. UNCHANGED <<row, job>> /\ sweep'.ep = sweep.ep /\ (sweep'.phase # "idle" => sweep.phase # "idle")
    BY <1>3 DEF SweepRemove, RemoveOrphan, maintenanceVars, MaintenanceSound, SoundSweeps, SweepRecs
  <2> QED
    BY <2>1, NoMoveFollows DEF SweepFollows
<1> QED
  BY <1>1, <1>2, <1>3

LEMMA HidingFollows ==
    ASSUME PipelineSound, PipelineSound', JobsFollow, OneClaimer,
           NEW e \in Episodes, Hide(e) \/ Show(e)
    PROVE  StageStep /\ JobsFollow' /\ OneClaimer'
<1>1. CASE UNCHANGED row
  BY <1>1, NoMoveFollows DEF Hide, Show
<1>2. CASE ~UNCHANGED row
  <2> DEFINE next == IF Prepares(feed) /\ feed.ahead /\ ~row[e].cached THEN "due" ELSE "none"
             r == [row[e] EXCEPT !.backlog = TRUE, !.state = "ready", !.next = next]
  <2>1. /\ "hide" \in Tasks /\ row[e].state \in {"discovered", "ready"} /\ UNCHANGED job
        /\ row' = [row EXCEPT ![e] = r]
    BY <1>2 DEF Hide, Show, PipelineSound
  <2>2. r.state = "ready" /\ row'[e] = r
    BY <2>1 DEF PipelineSound, SoundRows, Rows
  <2> HIDE DEF r
  <2>3. StageStep
    BY <2>1, <2>2, StageMove DEF PipelineSound
  <2>4. \A x \in Episodes : row[x].state = "acquiring" => row'[x].state = "acquiring"
    BY <2>1 DEF PipelineSound
  <2> QED
    BY <2>1, <2>3, <2>4, JobsStillFollow
<1> QED
  BY <1>1, <1>2

LEMMA RestartFollows ==
    ASSUME PipelineSound, PipelineSound', PipelineKept, DownIsIdle, Restart(feed)
    PROVE  StageStep /\ JobsFollow' /\ OneClaimer' /\ DownIsIdle'
<1>1. job' = NoJobs /\ life' = "up" /\ feed \in FeedSettings
  BY FeedType DEF Restart, DownIsIdle
<1>2. JobsFollow' /\ OneClaimer' /\ DownIsIdle'
  BY <1>1, PhasesOfNewJobs DEF JobsFollow, OneClaimer, ForFirst, DownIsIdle, NoJobs, Unrecorded
<1>3. ASSUME NEW e \in Episodes
      PROVE  Stage(row'[e]) = IF Stage(row[e]) = "preparing" THEN "waiting" ELSE Stage(row[e])
  <2> DEFINE r == Recovered(row[e])
  <2>1. row[e] \in SoundRows /\ Kept(row[e], feed) /\ row'[e] \in SoundRows
    BY DEF PipelineSound, PipelineKept, RowsKept
  <2>2. r \in SoundRows /\ Kept(r, feed)
    BY <1>1, <2>1, KeptQueued, RecoveredSound
  <2>3. Reconciled(r, feed) = r
    BY <1>1, <2>2, KeptFits
  <2>4. row'[e] \in {r, QueuedUncached(r)}
    BY <2>3 DEF Restart
  <2>5. r.state = (IF row[e].state = "acquiring" THEN "discovered" ELSE row[e].state)
        /\ r.withheld = row[e].withheld
    BY <2>1 DEF Recovered, SoundRows, Rows
  <2>6. row'[e].state = r.state /\ row'[e].withheld = r.withheld
    BY <2>2, <2>4 DEF QueuedUncached, SoundRows, Rows
  <2> HIDE DEF r
  <2>7. row[e].state \in States /\ row[e].withheld \in BOOLEAN
    BY <2>1 DEF SoundRows, Rows
  <2> QED
    BY <2>5, <2>6, <2>7 DEF Stage, States
<1>4. StageStep
  BY <1>3 DEF StageStep, stages, Lifecycle!Next, Lifecycle!PutAllBack
<1> QED
  BY <1>2, <1>4

(* Changes of the settings are counted and never undone.                   *)
LEMMA SettingsLast ==
    ASSUME CopiesSound, [Next]_vars, changes' = 0
    PROVE  changes = 0 /\ UNCHANGED feed
<1>1. changes \in 0 .. MaxChanges /\ MaxChanges \in Nat
  BY MaintenanceAssumption DEF CopiesSound, MaintenanceSound
<1>2. UNCHANGED <<feed, changes>> \/ changes' = changes + 1
  <2>1. CASE \/ \E w \in Workers : WorkerStep(w) /\ UNCHANGED maintenanceVars
             \/ \E o \in Owners, e \in Episodes : JobStep(o, e) /\ UNCHANGED maintenanceVars
             \/ \E o \in Owners, e \in Episodes : EndJob(o, e)
             \/ \E e \in Episodes : (TakeSlot(e) \/ ComeDue(e)) /\ UNCHANGED maintenanceVars
    BY <2>1 DEF WorkerStep, ClaimNextEpisode, ClaimQueuedEpisode, RunBatch, StartFlight, LoadFeed,
       ClaimQueuedEpisodesForFeed, JoinBatch, JobStep, Attempt, RecordOutcome, AbandonJob, EndJob,
       EndFlight, TakeSlot, ComeDue, maintenanceVars
  <2>2. CASE \/ \E r \in Requests, e \in Episodes : Ask(r, e) /\ UNCHANGED maintenanceVars
             \/ \E r \in Requests : RequestStep(r) /\ UNCHANGED maintenanceVars
    BY <2>2 DEF Ask, RequestStep, ServeStep, ReadFeed, CheckEpisode, SaveCheck, ServeCached,
       SaveForgotten, Prepare, PrepareStarts, Reread, ServePrepared, Redirect, Stream, StartTee,
       CommitTee, DiscardTee, SaveTee, StopWaiting, pipelineVars, maintenanceVars
  <2>3. CASE \E a \in Admins : ChangeSettings(a) \/ AskToQueue(a) \/ AdminStep(a)
    <3>1. ASSUME NEW a \in Admins, ApplyQueue(a) PROVE UNCHANGED <<feed, changes>>
      BY <3>1 DEF ApplyQueue
    <3>2. ASSUME NEW a \in Admins,
                 ChangeSettings(a) \/ AskToQueue(a) \/ (AdminStep(a) /\ ~ApplyQueue(a))
          PROVE  UNCHANGED <<feed, changes>> \/ changes' = changes + 1
      BY <3>2 DEF ChangeSettings, AskToQueue, AdminStep, ReconcileList, ReconcileEnd, PickToQueue,
         ReconcileSkip, ReconcileEpisode, ReconcileSave, pipelineVars
    <3> QED
      BY <2>3, <3>1, <3>2
  <2>4. CASE \/ \E e \in Episodes : SweepList(e) \/ Hide(e) \/ Show(e) \/ RemoveOrphan(e)
             \/ SweepRemove \/ SweepSave
             \/ Shutdown /\ UNCHANGED maintenanceVars
             \/ UNCHANGED vars
    BY <2>4 DEF SweepList, Hide, Show, RemoveOrphan, SweepRemove, SweepSave, Shutdown,
       pipelineVars, maintenanceVars, vars
  <2>5. CASE StopProcess \/ StartProcess
    BY <2>5 DEF StopProcess, Stopped, Crash, ForgetMemory, StartProcess, Restart, maintenanceVars
  <2> QED
    BY <2>1, <2>2, <2>3, <2>4, <2>5 DEF Next
<1> QED
  BY <1>1, <1>2

LEMMA DownStaysIdle ==
    ASSUME PipelineSound, DownIsIdle, life' = life,
           \/ UNCHANGED job
           \/ \E w \in Workers : WorkerStep(w)
           \/ \E o \in Owners, e \in Episodes : JobStep(o, e) \/ EndFlight(o, e)
           \/ \E e \in Episodes : TakeSlot(e)
           \/ life = "up"
    PROVE  DownIsIdle'
<1> SUFFICES ASSUME life = "down" PROVE UNCHANGED job
  BY DEF DownIsIdle, NoJobs
<1>1. \A o \in Owners, e \in Episodes : job[o][e].phase = "idle"
  BY PhasesOfNewJobs DEF DownIsIdle, NoJobs
<1>2. ASSUME NEW w \in Workers PROVE ~WorkerStep(w)
  BY <1>1, ListenerIsNoWorker DEF WorkerStep, ClaimNextEpisode, ClaimQueuedEpisode, RunBatch,
     StartFlight, LoadFeed, ClaimQueuedEpisodesForFeed, JoinBatch
<1>3. ASSUME NEW o \in Owners, NEW e \in Episodes PROVE ~JobStep(o, e) /\ ~EndFlight(o, e)
  BY <1>1 DEF JobStep, Attempt, RecordOutcome, AbandonJob, EndFlight
<1>4. ASSUME NEW e \in Episodes PROVE ~TakeSlot(e)
  BY <1>1, ListenerIsNoWorker DEF TakeSlot
<1> QED
  BY <1>2, <1>3, <1>4

(* Any step under unchanged settings.                                      *)
LEMMA StepFollows ==
    ASSUME NoneStrands, CopiesSound, SettingsKept, FollowsRow, [Next]_vars, changes' = 0
    PROVE  StageStep /\ AllFollow'
<1>0. PipelineSound' /\ changes = 0 /\ UNCHANGED feed
  BY NextSound, SettingsLast DEF CopiesSound
<1>1. /\ PipelineSound /\ MaintenanceSound /\ ServerSound
      /\ PipelineKept /\ RequestsKept /\ AdminsKept /\ SweepKept
      /\ JobsFollow /\ OneClaimer /\ RequestsFollow /\ SweepFollows /\ DownIsIdle
  BY <1>0 DEF CopiesSound, SettingsKept, AllKept, FollowsRow, AllFollow
<1>2. ASSUME StageStep, JobsFollow', OneClaimer', RequestsFollow', SweepFollows', DownIsIdle'
      PROVE  StageStep /\ AllFollow'
  BY <1>2 DEF AllFollow
<1>3. /\ StageStep /\ UNCHANGED request => RequestsFollow'
      /\ StageStep /\ UNCHANGED sweep => SweepFollows'
  BY <1>0, <1>1, RequestsStillFollow, SweepStillFollows
<1>4. ASSUME NEW w \in Workers, WorkerStep(w), UNCHANGED <<maintenanceVars, request>>
      PROVE  StageStep /\ AllFollow'
  <2>1. life' = life
    BY <1>4 DEF WorkerStep, ClaimNextEpisode, ClaimQueuedEpisode, RunBatch, StartFlight, LoadFeed,
       ClaimQueuedEpisodesForFeed, JoinBatch
  <2>2. DownIsIdle'
    BY <1>1, <1>4, <2>1, DownStaysIdle
  <2> QED
    BY <1>0, <1>1, <1>2, <1>3, <1>4, <2>2, WorkerStepFollows DEF maintenanceVars
<1>5. ASSUME NEW o \in Owners, NEW e \in Episodes, JobStep(o, e),
             UNCHANGED <<maintenanceVars, request>>
      PROVE  StageStep /\ AllFollow'
  <2>1. life' = life
    BY <1>5 DEF JobStep, Attempt, RecordOutcome, AbandonJob
  <2>2. DownIsIdle'
    BY <1>1, <1>5, <2>1, DownStaysIdle
  <2> QED
    BY <1>0, <1>1, <1>2, <1>3, <1>5, <2>2, JobStepFollows DEF maintenanceVars
<1>6. ASSUME NEW o \in Owners, NEW e \in Episodes, EndJob(o, e) PROVE StageStep /\ AllFollow'
  <2>1. EndFlight(o, e) /\ WakeWaiting(e) /\ UNCHANGED <<maintenanceVars, life>>
    BY <1>6 DEF EndJob, EndFlight
  <2>2. DownIsIdle'
    BY <1>1, <2>1, DownStaysIdle
  <2>3. StageStep /\ JobsFollow' /\ OneClaimer'
    BY <1>0, <1>1, <2>1, JobStepFollows
  <2>4. RequestsFollow'
    <3>1. ASSUME NEW r \in Requests
          PROVE  /\ request'[r].ep = request[r].ep /\ request'[r].snap = request[r].snap
                 /\ request'[r].phase = request[r].phase \/ request[r].phase = "waiting"
                 /\ request[r].ep \in Episodes
      BY <1>1, <2>1 DEF WakeWaiting, ServerSound, SoundRequests, RequestRecs
    <3>2. \A x \in Episodes : ~Waits(row[x]) => ~Waits(row'[x])
      BY <1>0, <1>1, <2>3, SettledForGood
    <3> QED
      BY <1>1, <3>1, <3>2 DEF RequestsFollow
  <2> QED
    BY <1>2, <1>3, <2>1, <2>2, <2>3, <2>4 DEF maintenanceVars
<1>7. ASSUME NEW e \in Episodes, TakeSlot(e) \/ ComeDue(e), UNCHANGED <<maintenanceVars, request>>
      PROVE  StageStep /\ AllFollow'
  <2>1. DownIsIdle'
    BY <1>1, <1>7, DownStaysIdle DEF TakeSlot, ComeDue
  <2> QED
    BY <1>0, <1>1, <1>2, <1>3, <1>7, <2>1, SlotAndTimeFollow DEF maintenanceVars
<1>8. ASSUME NEW r \in Requests, RequestStep(r) \/ \E e \in Episodes : Ask(r, e),
             UNCHANGED maintenanceVars
      PROVE  StageStep /\ AllFollow'
  <2>1. life' = life /\ (UNCHANGED job \/ life = "up")
    BY <1>8 DEF Ask, RequestStep, ServeStep, ReadFeed, CheckEpisode, SaveCheck, ServeCached,
       SaveForgotten, Prepare, PrepareStarts, Reread, ServePrepared, Redirect, Stream, StartTee,
       CommitTee, DiscardTee, SaveTee, StopWaiting, pipelineVars
  <2>2. DownIsIdle'
    BY <1>1, <2>1, DownStaysIdle
  <2>3. StageStep /\ JobsFollow' /\ OneClaimer' /\ RequestsFollow'
    BY <1>0, <1>1, <1>8, AskFollows, RequestStepFollows
  <2> QED
    BY <1>2, <1>3, <1>8, <2>2, <2>3 DEF maintenanceVars
<1>9. ASSUME NEW a \in Admins, ChangeSettings(a) \/ AskToQueue(a) \/ AdminStep(a), UNCHANGED request
      PROVE  StageStep /\ AllFollow'
  <2>1. AskToQueue(a) \/ AdminStep(a)
    BY <1>0, <1>1, <1>9 DEF ChangeSettings
  <2>2. UNCHANGED <<job, life, sweep>>
    BY <2>1 DEF AskToQueue, AdminStep, ReconcileList, ReconcileEnd, PickToQueue,
       ApplyQueue, ReconcileSkip, ReconcileEpisode, ReconcileSave, pipelineVars
  <2>3. DownIsIdle'
    BY <1>1, <2>2, DownStaysIdle
  <2> QED
    BY <1>0, <1>1, <1>2, <1>3, <1>9, <2>1, <2>2, <2>3, AdminStepFollows
<1>10. ASSUME \/ SweepRemove \/ SweepSave
              \/ \E e \in Episodes : SweepList(e) \/ RemoveOrphan(e),
              UNCHANGED request
       PROVE  StageStep /\ AllFollow'
  <2>1. UNCHANGED <<job, life>>
    BY <1>10 DEF SweepRemove, SweepSave, SweepList, RemoveOrphan, pipelineVars
  <2>2. DownIsIdle'
    BY <1>1, <2>1, DownStaysIdle
  <2> QED
    BY <1>0, <1>1, <1>2, <1>3, <1>10, <2>2, HousekeeperFollows
<1>11. ASSUME NEW e \in Episodes, Hide(e) \/ Show(e), UNCHANGED request
       PROVE  StageStep /\ AllFollow'
  <2>1. UNCHANGED <<job, life, sweep>>
    BY <1>11 DEF Hide, Show, maintenanceVars
  <2>2. DownIsIdle'
    BY <1>1, <2>1, DownStaysIdle
  <2> QED
    BY <1>0, <1>1, <1>2, <1>3, <1>11, <2>1, <2>2, HidingFollows
<1>12. ASSUME \/ Shutdown /\ UNCHANGED <<maintenanceVars, request>>
              \/ UNCHANGED vars
       PROVE  StageStep /\ AllFollow'
  <2>1. UNCHANGED <<row, job, sweep, request>> /\ (life' = life \/ life' # "down")
    BY <1>12 DEF Shutdown, maintenanceVars, vars, pipelineVars
  <2>2. DownIsIdle'
    BY <1>1, <2>1 DEF DownIsIdle, NoJobs
  <2> QED
    BY <1>0, <1>1, <1>2, <1>3, <2>1, <2>2, NoMoveFollows
<1>13. ASSUME StopProcess PROVE StageStep /\ AllFollow'
  <2>1. ForgetMemory /\ UNCHANGED row /\ job' = NoJobs
    BY <1>13 DEF StopProcess, Stopped, Crash
  <2>2. StageStep
    BY <1>0, <1>1, <2>1, StageSame
  <2>3. JobsFollow' /\ OneClaimer' /\ DownIsIdle'
    BY <2>1, PhasesOfNewJobs DEF JobsFollow, OneClaimer, ForFirst, DownIsIdle, NoJobs, Unrecorded
  <2>4. RequestsFollow' /\ SweepFollows'
    BY <2>1 DEF ForgetMemory, RequestIdle, SweepIdle, RequestsFollow, SweepFollows
  <2> QED
    BY <1>2, <2>2, <2>3, <2>4
<1>14. ASSUME StartProcess PROVE StageStep /\ AllFollow'
  <2>1. Restart(feed) /\ UNCHANGED <<maintenanceVars, request>>
    BY <1>0, <1>14 DEF StartProcess
  <2>2. StageStep /\ JobsFollow' /\ OneClaimer' /\ DownIsIdle'
    BY <1>0, <1>1, <2>1, RestartFollows
  <2> QED
    BY <1>2, <1>3, <2>1, <2>2 DEF maintenanceVars
<1> QED
  BY <1>4, <1>5, <1>6, <1>7, <1>8, <1>9, <1>10, <1>11, <1>12, <1>13, <1>14 DEF Next

LEMMA InitFollows == Init => FollowsRow /\ Lifecycle!Init
<1> SUFFICES ASSUME Init PROVE AllFollow /\ Lifecycle!Init
  BY DEF FollowsRow
<1>1. AllFollow
  BY PhasesOfNewJobs DEF Init, PipelineInit, MaintenanceInit, ServerInit, RequestIdle, SweepIdle,
     AllFollow, JobsFollow, OneClaimer, ForFirst, RequestsFollow, SweepFollows, DownIsIdle,
     NoJobs, Unrecorded
<1>2. ASSUME NEW e \in Episodes PROVE Stage(row[e]) \in {"waiting", "inFeed"}
  <2>1. row[e].state \in {"discovered", "ready"} /\ row[e].withheld = FALSE
    BY DEF Init, PipelineInit, NewRow
  <2> QED
    BY <2>1 DEF Stage
<1> QED
  BY <1>1, <1>2 DEF Lifecycle!Init

LEMMA AlwaysFollows == Spec => []FollowsRow
<1>1. CopiesSound /\ SettingsKept /\ FollowsRow /\ [Next]_vars => FollowsRow'
  BY StepFollows DEF FollowsRow
<1> QED
  BY <1>1, InitFollows, SettingsAlwaysKept, CopiesAlwaysSound, PTL DEF Spec

(* With unchanged settings the pipeline implements EpisodeLifecycle,       *)
(* whichever copies jobs, requests, tees and the housekeeper write back:   *)
(* a settled episode never waits again, and none is published without      *)
(* having been prepared or given up on.                                    *)
THEOREM LifecycleImplemented ==
    ASSUME MaxChanges = 0, NoneStrands
    PROVE  Spec => FollowsLifecycle
<1>1. CopiesSound' => changes' = 0
  BY DEF CopiesSound, MaintenanceSound
<1>2. Init => Lifecycle!Init
  BY InitFollows
<1>3. CopiesSound /\ CopiesSound' /\ SettingsKept /\ FollowsRow /\ [Next]_vars
         => [Lifecycle!Next]_stages
  BY <1>1, StepFollows DEF StageStep
<1> QED
  BY <1>2, <1>3, CopiesAlwaysSound, SettingsAlwaysKept, AlwaysFollows, PTL
     DEF Spec, FollowsLifecycle, Lifecycle!Spec, stages

-----------------------------------------------------------------------------
(* Finished files.                                                         *)

FilesStay == changes = 0 /\ NoneStrands => CommittedFileStays

(* Only an attempt that ends brings a job to where it records.             *)
LEMMA RecordsStay ==
    ASSUME PipelineSound, NEW o \in Owners, NEW e \in Episodes, job'[o][e].phase = "record",
           \/ UNCHANGED job
           \/ \E w \in Workers : WorkerStep(w)
           \/ \E p \in Owners, x \in Episodes :
                 RecordOutcome(p, x) \/ AbandonJob(p, x) \/ EndFlight(p, x)
           \/ \E x \in Episodes : TakeSlot(x) \/ \E snap, f : PrepareStarts(x, snap, f)
    PROVE  job'[o][e] = job[o][e]
<1>0. /\ job \in [Owners -> [Episodes -> JobRecs]] /\ Workers \subseteq Owners /\ Listener \in Owners
      /\ Idle.phase # "record" /\ Over.phase # "record"
  BY ListenerIsNoWorker, PhasesOfNewJobs DEF PipelineSound, JobTable, SoundJobs
<1>1. ASSUME NEW w \in Workers, WorkerStep(w) PROVE job'[o][e] = job[o][e]
  <2>1. CASE RunBatch(w)
    BY <1>0, <2>1 DEF RunBatch, JobRecs
  <2>2. ASSUME NEW first \in Episodes, ClaimQueuedEpisodesForFeed(w, first)
        PROVE  job'[o][e] = job[o][e]
    <3>1. PICK more \in SUBSET Episodes :
             job' = [job EXCEPT ![w] = [x \in Episodes |->
                           IF x \in more
                           THEN NewJob("joining", [row[x] EXCEPT !.next = "later"],
                                       job[w][first].feed, TRUE)
                           ELSE IF x = first THEN [job[w][x] EXCEPT !.phase = "joined"]
                           ELSE job[w][x]]]
      BY <2>2 DEF ClaimQueuedEpisodesForFeed
    <3>2. [job[w][first] EXCEPT !.phase = "joined"].phase = "joined"
      BY <1>0 DEF JobRecs
    <3>3. \A x \in Episodes : NewJob("joining", [row[x] EXCEPT !.next = "later"],
                                     job[w][first].feed, TRUE).phase = "joining"
      BY DEF NewJob
    <3> QED
      BY <1>0, <3>1, <3>2, <3>3
  <2>3. ASSUME NEW x \in Episodes, LoadFeed(w, x) PROVE job'[o][e] = job[o][e]
    <3> DEFINE p == IF BatchSize > 1 /\ job[w][x].snap.state # "acquiring" THEN "batch" ELSE "working"
               b == (BatchSize > 1 /\ job[w][x].snap.state # "acquiring") \/ feed.processed
    <3>1. job' = [job EXCEPT ![w][x] =
             [job[w][x] EXCEPT !.phase = p, !.feed = feed, !.processing = b]]
      BY <1>0, <2>3 DEF LoadFeed
    <3>2. p \in {"batch", "working"}
      OBVIOUS
    <3> HIDE DEF p, b
    <3> QED
      BY <1>0, <3>1, <3>2 DEF JobRecs
  <2>4. ASSUME NEW x \in Episodes, StartFlight(w, x) \/ JoinBatch(w, x)
        PROVE  job'[o][e] = job[o][e]
    <3>1. \/ job' = [job EXCEPT ![w][x] = Idle]
          \/ job' = [job EXCEPT ![w][x] = [job[w][x] EXCEPT !.phase = "started"]]
          \/ job' = [job EXCEPT ![w][x] = [job[w][x] EXCEPT !.phase = "joined"]]
      BY <1>0, <2>4 DEF StartFlight, JoinBatch
    <3>2. job'[w][x].phase # "record"
      BY <1>0, <3>1 DEF JobRecs, NewJob
    <3>3. \E j : job' = [job EXCEPT ![w][x] = j]
      BY <3>1
    <3>4. o # w \/ e # x => job'[o][e] = job[o][e]
      BY <1>0, <3>3
    <3> QED
      BY <3>2, <3>4
  <2>5. CASE ClaimNextEpisode(w) \/ ClaimQueuedEpisode(w)
    <3>1. PICK x \in Episodes :
             \/ job' = [job EXCEPT ![w][x] =
                           NewJob("claimed", [row[x] EXCEPT !.state = "acquiring"], Idle.feed, FALSE)]
             \/ job' = [job EXCEPT ![w][x] =
                           NewJob("claimed", [row[x] EXCEPT !.next = "later"], Idle.feed, FALSE)]
      BY <2>5 DEF ClaimNextEpisode, ClaimQueuedEpisode, NewWork, QueuedWork
    <3>2. job'[w][x].phase # "record"
      BY <1>0, <3>1 DEF JobRecs, NewJob
    <3>3. \E j : job' = [job EXCEPT ![w][x] = j]
      BY <3>1
    <3>4. o # w \/ e # x => job'[o][e] = job[o][e]
      BY <1>0, <3>3
    <3> QED
      BY <3>2, <3>4
  <2> QED
    BY <1>1, <2>1, <2>2, <2>3, <2>4, <2>5 DEF WorkerStep
<1>2. ASSUME NEW p \in Owners, NEW x \in Episodes,
             RecordOutcome(p, x) \/ AbandonJob(p, x) \/ EndFlight(p, x)
      PROVE  job'[o][e] = job[o][e]
  BY <1>0, <1>2 DEF RecordOutcome, AbandonJob, EndFlight
<1>3. ASSUME NEW x \in Episodes, NEW snap, NEW f, TakeSlot(x) \/ PrepareStarts(x, snap, f)
      PROVE  job'[o][e] = job[o][e]
  <2>1. \/ job' = [job EXCEPT ![Listener][x] = [job[Listener][x] EXCEPT !.phase = "working"]]
        \/ job' = [job EXCEPT ![Listener][x] = NewJob("slot", snap, f, f.processed)]
        \/ job' = [job EXCEPT ![Listener][x] =
                      NewJob("slot", [row[x] EXCEPT !.state = "acquiring"], f, f.processed)]
    BY <1>0, <1>3 DEF TakeSlot, PrepareStarts
  <2>2. job'[Listener][x].phase # "record"
    BY <1>0, <2>1 DEF JobRecs, NewJob
  <2>3. o # Listener \/ e # x => job'[o][e] = job[o][e]
    BY <1>0, <2>1
  <2> QED
    BY <2>2, <2>3
<1> QED
  BY <1>1, <1>2, <1>3

LEMMA NextStays ==
    ASSUME NoneStrands, CopiesSound, SettingsKept, FollowsRow, FilesStay, [Next]_vars, changes' = 0
    PROVE  CommittedFileStays'
<1> SUFFICES ASSUME NEW o \in Owners, NEW e \in Episodes,
                    job'[o][e].phase = "record", job'[o][e].made = "ok",
                    job'[o][e].snap.state = "acquiring"
             PROVE  disk'[e] # NoAudio
  BY DEF CommittedFileStays
<1>0. changes = 0
  BY SettingsLast
<1>1. /\ PipelineSound /\ ServerSound
      /\ PipelineKept /\ RequestsKept /\ AdminsKept /\ SweepKept
      /\ JobsFollow /\ SweepFollows /\ DownIsIdle /\ CommittedFileStays
      /\ disk \in [Episodes -> Audio] /\ job \in [Owners -> [Episodes -> JobRecs]]
  BY <1>0 DEF CopiesSound, PipelineSound, JobTable, SoundJobs, SettingsKept, AllKept, FollowsRow,
     AllFollow, FilesStay
<1>2. ASSUME NEW made \in {"processor", "download"}, NEW with
      PROVE  [by |-> made, with |-> with] # NoAudio
  BY DEF NoAudio
<1>3. ASSUME job'[o][e] = job[o][e]
      PROVE  disk[e] # NoAudio /\ row[e].state = "acquiring"
  BY <1>1, <1>3 DEF CommittedFileStays, JobsFollow, Unrecorded
<1>4. ASSUME UNCHANGED disk, job'[o][e] = job[o][e] PROVE disk'[e] # NoAudio
  BY <1>3, <1>4
<1>5. ASSUME NEW p \in Owners, NEW x \in Episodes, Attempt(p, x) PROVE disk'[e] # NoAudio
  <2>1. PICK outcome \in Outcomes :
           /\ job' = [job EXCEPT ![p][x] = [job[p][x] EXCEPT !.phase = "record", !.made = outcome]]
           /\ disk' = IF outcome = "ok"
                      THEN [disk EXCEPT ![x] =
                              [by |-> IF job[p][x].processing THEN "processor" ELSE "download",
                               with |-> job[p][x].feed.with]]
                      ELSE disk
    <3>1. PICK outcome \in Outcomes \ {"pending"} :
             /\ job' = [job EXCEPT ![p][x].phase = "record", ![p][x].made = outcome]
             /\ disk' = IF outcome = "ok"
                        THEN [disk EXCEPT ![x] =
                                [by |-> IF job[p][x].processing THEN "processor" ELSE "download",
                                 with |-> job[p][x].feed.with]]
                        ELSE disk
      BY <1>5 DEF Attempt
    <3>2. job' = [job EXCEPT ![p][x] = [job[p][x] EXCEPT !.phase = "record", !.made = outcome]]
      BY <1>1, <3>1
    <3> QED
      BY <3>1, <3>2
  <2>2. CASE p = o /\ x = e
    <3>1. job'[o][e].made = outcome
      BY <1>1, <2>1, <2>2 DEF JobRecs
    <3>2. disk'[e] = [by |-> IF job[p][x].processing THEN "processor" ELSE "download",
                      with |-> job[p][x].feed.with]
      BY <1>1, <2>1, <2>2, <3>1
    <3> QED
      BY <1>2, <3>2
  <2>3. CASE p # o \/ x # e
    <3>1. job'[o][e] = job[o][e]
      BY <1>1, <2>1, <2>3
    <3>2. disk'[e] \in {disk[e], [by |-> IF job[p][x].processing THEN "processor" ELSE "download",
                                  with |-> job[p][x].feed.with]}
      BY <1>1, <2>1
    <3> QED
      BY <1>2, <1>3, <3>1, <3>2
  <2> QED
    BY <2>2, <2>3
<1>6. CASE \/ \E w \in Workers : WorkerStep(w)
           \/ \E p \in Owners, x \in Episodes :
                 RecordOutcome(p, x) \/ AbandonJob(p, x) \/ EndFlight(p, x)
           \/ \E x \in Episodes : TakeSlot(x)
  <2>1. UNCHANGED disk
    BY <1>6 DEF WorkerStep, ClaimNextEpisode, ClaimQueuedEpisode, RunBatch, StartFlight, LoadFeed,
       ClaimQueuedEpisodesForFeed, JoinBatch, RecordOutcome, AbandonJob, EndFlight, TakeSlot
  <2> QED
    BY <1>1, <1>4, <1>6, <2>1, RecordsStay
<1>7. CASE UNCHANGED <<disk, job>>
  BY <1>4, <1>7
<1>8. ASSUME NEW r \in Requests, RequestStep(r) PROVE disk'[e] # NoAudio
  <2> DEFINE q == request[r]
  <2>1. q.ep \in Episodes /\ q.snap \in SoundRows /\ KeptRequest(q, feed) /\ feed \in FeedSettings
    BY <1>1, FeedType DEF ServerSound, SoundRequests, RequestRecs, RequestsKept
  <2>2. CASE CheckEpisode(r)
    <3>1. ~ReconcileSaves(q.snap, q.feed)
      BY <2>1, <2>2, KeptFits DEF CheckEpisode, KeptRequest
    <3> QED
      BY <1>7, <2>2, <3>1 DEF CheckEpisode
  <2>3. CASE CommitTee(r)
    <3>1. UNCHANGED job /\ disk'[e] \in {disk[e], [by |-> "download", with |-> q.feed.with]}
      BY <1>1, <2>3 DEF CommitTee
    <3> QED
      BY <1>2, <1>3, <3>1
  <2>4. ASSUME NEW x \in Episodes, NEW snap, NEW f, PrepareStarts(x, snap, f)
        PROVE  disk'[e] # NoAudio
    <3>1. UNCHANGED disk
      BY <2>4 DEF PrepareStarts
    <3>2. job'[o][e] = job[o][e]
      BY <1>1, <2>4, RecordsStay
    <3> QED
      BY <1>4, <3>1, <3>2
  <2>5. CASE Prepare(r)
    BY <1>7, <2>1, <2>4, <2>5 DEF Prepare, pipelineVars
  <2> QED
    BY <1>7, <1>8, <2>2, <2>3, <2>5 DEF RequestStep, ServeStep, ReadFeed, SaveCheck, ServeCached,
       SaveForgotten, Reread, ServePrepared, Redirect, Stream, StartTee, DiscardTee, SaveTee,
       StopWaiting, pipelineVars
<1>9. ASSUME NEW a \in Admins, ChangeSettings(a) \/ AskToQueue(a) \/ AdminStep(a)
      PROVE  disk'[e] # NoAudio
  <2>1. AskToQueue(a) \/ PickToQueue(a) \/ ApplyQueue(a) \/ ChangeSettings(a)
    BY <1>1, <1>9 DEF AdminStep, AdminsKept, ReconcileList, ReconcileEnd, ReconcileSkip,
       ReconcileEpisode, ReconcileSave
  <2> QED
    BY <1>7, <2>1 DEF AskToQueue, PickToQueue, ApplyQueue, ChangeSettings, pipelineVars
<1>10. CASE SweepRemove
  <2>1. UNCHANGED job /\ ~Waits(row[sweep.ep]) /\ disk' = [disk EXCEPT ![sweep.ep] = NoAudio]
    BY <1>1, <1>10 DEF SweepRemove, SweepFollows
  <2> QED
    BY <1>1, <1>3, <2>1 DEF Waits
<1>11. ASSUME NEW x \in Episodes, RemoveOrphan(x) PROVE disk'[e] # NoAudio
  <2>1. UNCHANGED job /\ job[o][x].phase # "record" /\ disk' = [disk EXCEPT ![x] = NoAudio]
    BY <1>11 DEF RemoveOrphan
  <2> QED
    BY <1>1, <1>3, <2>1
<1>12. CASE \/ \E r \in Requests, x \in Episodes : Ask(r, x)
            \/ \E x \in Episodes : SweepList(x) \/ Hide(x) \/ Show(x) \/ ComeDue(x)
            \/ SweepSave \/ Shutdown \/ Stopped \/ UNCHANGED vars
  BY <1>7, <1>12 DEF Ask, SweepList, Hide, Show, ComeDue, SweepSave, Shutdown, Stopped, vars, pipelineVars
<1>13. ASSUME NEW f, Crash \/ Restart(f) PROVE FALSE
  BY <1>1, <1>13, PhasesOfNewJobs DEF Crash, Restart, DownIsIdle, NoJobs
<1> QED
  BY <1>5, <1>6, <1>8, <1>9, <1>10, <1>11, <1>12, <1>13
     DEF Next, JobStep, EndJob, StopProcess, StartProcess

(* With unchanged settings, the file that a first preparation has put in   *)
(* place is still there when its outcome is recorded: no check, sweep or   *)
(* forgotten file of an older copy is of an episode still being prepared.  *)
THEOREM CommittedFilesStay ==
    ASSUME MaxChanges = 0, NoneStrands
    PROVE  Spec => []CommittedFileStays
<1>1. Init => FilesStay
  BY PhasesOfNewJobs DEF Init, PipelineInit, FilesStay, CommittedFileStays
<1>2. CopiesSound /\ SettingsKept /\ FollowsRow /\ FilesStay /\ [Next]_vars => FilesStay'
  BY NextStays DEF FilesStay
<1>3. CopiesSound /\ FilesStay => CommittedFileStays
  BY DEF CopiesSound, MaintenanceSound, FilesStay
<1> QED
  BY <1>1, <1>2, <1>3, CopiesAlwaysSound, SettingsAlwaysKept, AlwaysFollows, PTL DEF Spec

-----------------------------------------------------------------------------
(* Claims.                                                                 *)

(* Being prepared, or about to be claimed.                                 *)
Restless(r) == r.state = "acquiring" \/ WaitingForFirst(r)

ClaimsOwned ==
    \A e \in Episodes : row[e].state = "acquiring" => \E o \in Owners : ForFirst(job[o][e])

(* A job that is over, and still registered, has left a row that nobody    *)
(* claims before the registry forgets the job.                             *)
OverRecorded ==
    \A o \in Owners, e \in Episodes : job[o][e].phase = "over" => ~Restless(row[e])

Owned == changes = 0 /\ NoneStrands /\ ~DbFaults /\ life = "up" => ClaimsOwned /\ OverRecorded

LEMMA OwnersStay ==
    ASSUME ClaimsOwned, OverRecorded,
           \A e \in Episodes : row'[e].state = "acquiring" =>
               row[e].state = "acquiring" \/ \E o \in Owners : ForFirst(job'[o][e]),
           \A o \in Owners, e \in Episodes :
               row'[e].state = "acquiring" /\ ForFirst(job[o][e]) => ForFirst(job'[o][e]),
           \A o \in Owners, e \in Episodes : job'[o][e].phase = "over" =>
               \/ ~Restless(row'[e])
               \/ job[o][e].phase = "over" /\ (Restless(row'[e]) => Restless(row[e]))
    PROVE  ClaimsOwned' /\ OverRecorded'
<1>1. ClaimsOwned'
  <2> SUFFICES ASSUME NEW e \in Episodes, row'[e].state = "acquiring"
               PROVE  \E o \in Owners : ForFirst(job'[o][e])
    BY DEF ClaimsOwned, ForFirst
  <2>1. CASE row[e].state = "acquiring"
    BY <2>1 DEF ClaimsOwned
  <2> QED
    BY <2>1
<1>2. OverRecorded'
  BY DEF OverRecorded, Restless, WaitingForFirst
<1> QED
  BY <1>1, <1>2

LEMMA FirstClaimOwned ==
    ASSUME PipelineSound, ClaimsOwned, OverRecorded, NEW o \in Owners, NEW e \in Episodes, NEW j,
           row' = [row EXCEPT ![e].state = "acquiring"], job' = [job EXCEPT ![o][e] = j],
           ForFirst(j), \A p \in Owners : job[p][e].phase # "over"
    PROVE  ClaimsOwned' /\ OverRecorded'
<1>0. row \in [Episodes -> Rows] /\ job \in [Owners -> [Episodes -> JobRecs]]
  BY DEF PipelineSound, SoundRows, JobTable, SoundJobs
<1>1. /\ \A x \in Episodes \ {e} : row'[x] = row[x]
      /\ \A p \in Owners, x \in Episodes : job'[p][x] = IF p = o /\ x = e THEN j ELSE job[p][x]
      /\ j.phase # "over"
  BY <1>0 DEF ForFirst, Unrecorded
<1>2. ClaimsOwned'
  BY <1>1 DEF ClaimsOwned, ForFirst
<1>3. OverRecorded'
  BY <1>1 DEF OverRecorded, Restless, WaitingForFirst
<1> QED
  BY <1>2, <1>3

LEMMA WorkerStepOwned ==
    ASSUME PipelineSound, RegistrySound, JobsKept, JobsFollow, OneClaimer, ClaimsOwned, OverRecorded,
           NEW w \in Workers, WorkerStep(w)
    PROVE  ClaimsOwned' /\ OverRecorded'
<1>0. /\ row \in [Episodes -> Rows] /\ job \in [Owners -> [Episodes -> JobRecs]] /\ w \in Owners
      /\ Idle.phase = "idle" /\ inFlight \in [Episodes -> Owners \cup {NoOwner}]
  BY ListenerIsNoWorker, PhasesOfNewJobs DEF PipelineSound, SoundRows, JobTable, SoundJobs
<1>1. ASSUME UNCHANGED row,
             \A o \in Owners, e \in Episodes :
                 /\ ForFirst(job[o][e]) => ForFirst(job'[o][e])
                 /\ job'[o][e].phase = "over" => job[o][e].phase = "over"
      PROVE  ClaimsOwned' /\ OverRecorded'
  BY <1>1, OwnersStay
<1>2. CASE ClaimNextEpisode(w)
  <2>1. PICK e \in Episodes :
           /\ WaitingForFirst(row[e]) /\ row' = [row EXCEPT ![e].state = "acquiring"]
           /\ job' = [job EXCEPT ![w][e] =
                        NewJob("claimed", [row[e] EXCEPT !.state = "acquiring"], Idle.feed, FALSE)]
    BY <1>2 DEF ClaimNextEpisode, NewWork
  <2>2. ForFirst(NewJob("claimed", [row[e] EXCEPT !.state = "acquiring"], Idle.feed, FALSE))
    BY <1>0 DEF NewJob, Rows, ForFirst, Unrecorded
  <2>3. \A p \in Owners : job[p][e].phase # "over"
    BY <2>1 DEF OverRecorded, Restless
  <2> QED
    BY <1>0, <2>1, <2>2, <2>3, FirstClaimOwned
<1>3. CASE ClaimQueuedEpisode(w)
  <2>1. PICK e \in Episodes :
           /\ row[e].state \in {"ready", "failed"} /\ row' = [row EXCEPT ![e].next = "later"]
           /\ job' = [job EXCEPT ![w][e] =
                        NewJob("claimed", [row[e] EXCEPT !.next = "later"], Idle.feed, FALSE)]
    BY <1>3 DEF ClaimQueuedEpisode, QueuedWork, QueuedAndDue, Queueable
  <2>2. /\ row'[e].state = row[e].state /\ \A x \in Episodes \ {e} : row'[x] = row[x]
        /\ NewJob("claimed", [row[e] EXCEPT !.next = "later"], Idle.feed, FALSE).phase = "claimed"
    BY <1>0, <2>1 DEF Rows, NewJob
  <2>3. \A o \in Owners, x \in Episodes : o # w \/ x # e => job'[o][x] = job[o][x]
    BY <1>0, <2>1
  <2>4. job'[w][e].phase = "claimed"
    BY <1>0, <2>1, <2>2
  <2>5. ~Restless(row'[e]) /\ row'[e].state # "acquiring"
    BY <2>1, <2>2 DEF Restless, WaitingForFirst
  <2> QED
    BY <2>2, <2>3, <2>4, <2>5, OwnersStay
<1>4. CASE RunBatch(w)
  <2>1. ASSUME NEW o \in Owners, NEW e \in Episodes
        PROVE  /\ ForFirst(job[o][e]) => ForFirst(job'[o][e])
               /\ job'[o][e].phase = "over" => job[o][e].phase = "over"
    <3>1. \/ job'[o][e] = job[o][e]
          \/ job'[o][e] = [job[o][e] EXCEPT !.phase = "working"]
      BY <1>0, <1>4 DEF RunBatch
    <3> QED
      BY <1>0, <3>1 DEF JobRecs, ForFirst, Unrecorded
  <2> QED
    BY <1>1, <1>4, <2>1 DEF RunBatch
<1>5. ASSUME NEW e \in Episodes, NEW p \in {"started", "joined", "batch", "working"}, UNCHANGED row,
             job'[w][e].phase = p, job'[w][e].snap = job[w][e].snap,
             \A o \in Owners, x \in Episodes : o # w \/ x # e => job'[o][x] = job[o][x]
      PROVE  ClaimsOwned' /\ OverRecorded'
  BY <1>1, <1>5 DEF ForFirst, Unrecorded
<1>6. ASSUME NEW e \in Episodes, StartFlight(w, e) \/ JoinBatch(w, e)
      PROVE  ClaimsOwned' /\ OverRecorded'
  <2>1. UNCHANGED row /\ \E j : job' = [job EXCEPT ![w][e] = j]
    BY <1>6 DEF StartFlight, JoinBatch
  <2>2. \A o \in Owners, x \in Episodes : o # w \/ x # e => job'[o][x] = job[o][x]
    BY <1>0, <2>1
  <2>3. CASE ~preparing(e)
    <3>1. PICK p \in {"started", "joined"} : job' = [job EXCEPT ![w][e] = [job[w][e] EXCEPT !.phase = p]]
      BY <1>0, <1>6, <2>3 DEF StartFlight, JoinBatch
    <3>2. job'[w][e].phase = p /\ job'[w][e].snap = job[w][e].snap
      BY <1>0, <3>1 DEF JobRecs
    <3> QED
      BY <1>5, <2>1, <2>2, <3>2
  <2>4. CASE preparing(e)
    <3>1. job' = [job EXCEPT ![w][e] = Idle] /\ job[w][e].phase \in {"claimed", "joining"}
      BY <1>6, <2>4 DEF StartFlight, JoinBatch
    <3>2. ~ForFirst(job[w][e])
      <4> SUFFICES ASSUME ForFirst(job[w][e]) PROVE FALSE
        OBVIOUS
      <4>1. row[e].state = "acquiring"
        BY <1>0 DEF ForFirst, JobsFollow
      <4>2. PICK p \in Owners : job[p][e].phase \in Registered
        BY <1>0, <2>4 DEF preparing, RegistrySound, RegistryMatchesJobs
      <4>3. p # w
        BY <3>1, <4>2 DEF Registered
      <4>4. job[p][e].phase # "over"
        BY <4>1 DEF OverRecorded, Restless
      <4>5. job[p][e].phase \in Unrecorded
        BY <4>2, <4>4 DEF Registered, Unrecorded
      <4>6. ForFirst(job[p][e])
        BY <4>1, <4>5 DEF JobsFollow, ForFirst, Waits
      <4> QED
        BY <1>0, <4>3, <4>6 DEF OneClaimer
    <3>3. job'[w][e].phase = "idle"
      BY <1>0, <3>1
    <3>4. ASSUME NEW o \in Owners, NEW x \in Episodes
          PROVE  /\ ForFirst(job[o][x]) => ForFirst(job'[o][x])
                 /\ job'[o][x].phase = "over" => job[o][x].phase = "over"
      BY <2>2, <3>2, <3>3
    <3> QED
      BY <1>1, <2>1, <3>4
  <2> QED
    BY <2>3, <2>4
<1>7. ASSUME NEW e \in Episodes, LoadFeed(w, e) PROVE ClaimsOwned' /\ OverRecorded'
  <2>1. UNCHANGED row /\ \E j : job' = [job EXCEPT ![w][e] = j]
    BY <1>7 DEF LoadFeed
  <2>2. \A o \in Owners, x \in Episodes : o # w \/ x # e => job'[o][x] = job[o][x]
    BY <1>0, <2>1
  <2>3. job'[w][e].phase \in {"batch", "working"} /\ job'[w][e].snap = job[w][e].snap
    BY <1>0, <1>7 DEF LoadFeed, JobRecs
  <2> QED
    BY <1>5, <2>1, <2>2, <2>3
<1>8. ASSUME NEW first \in Episodes, ClaimQueuedEpisodesForFeed(w, first)
      PROVE  ClaimsOwned' /\ OverRecorded'
  <2>1. PICK more \in SUBSET {e \in Episodes \ {first} : ~hidden[e] /\ QueuedAndDue(row[e])} :
           /\ row' = [e \in Episodes |-> IF e \in more THEN [row[e] EXCEPT !.next = "later"]
                                                       ELSE row[e]]
           /\ job' = [job EXCEPT ![w] = [e \in Episodes |->
                         IF e \in more
                         THEN NewJob("joining", [row[e] EXCEPT !.next = "later"],
                                     job[w][first].feed, TRUE)
                         ELSE IF e = first THEN [job[w][e] EXCEPT !.phase = "joined"]
                         ELSE job[w][e]]]
    BY <1>8 DEF ClaimQueuedEpisodesForFeed
  <2>2. \A e \in more : row[e].state \in {"ready", "failed"}
    BY <2>1 DEF QueuedAndDue, Queueable
  <2>3. ASSUME NEW e \in Episodes
        PROVE  /\ row'[e].state = row[e].state
               /\ Restless(row'[e]) => Restless(row[e])
    <3>1. CASE e \in more
      <4>1. row'[e].state = row[e].state
        BY <1>0, <2>1, <3>1 DEF Rows
      <4> QED
        BY <2>2, <3>1, <4>1 DEF Restless, WaitingForFirst
    <3>2. CASE e \notin more
      BY <2>1, <3>2
    <3> QED
      BY <3>1, <3>2
  <2>4. job[w][first].phase = "batch"
    BY <1>8 DEF ClaimQueuedEpisodesForFeed
  <2>5. /\ [job[w][first] EXCEPT !.phase = "joined"].phase = "joined"
        /\ [job[w][first] EXCEPT !.phase = "joined"].snap = job[w][first].snap
        /\ \A e \in Episodes : NewJob("joining", [row[e] EXCEPT !.next = "later"],
                                      job[w][first].feed, TRUE).phase = "joining"
    BY <1>0 DEF JobRecs, NewJob
  <2>6. ASSUME NEW o \in Owners, NEW e \in Episodes
        PROVE  /\ row[e].state = "acquiring" /\ ForFirst(job[o][e]) => ForFirst(job'[o][e])
               /\ job'[o][e].phase = "over" => job[o][e].phase = "over"
    <3>1. CASE o = w /\ e \in more
      <4>1. job'[o][e].phase = "joining"
        BY <1>0, <2>1, <2>5, <3>1
      <4> QED
        BY <2>2, <3>1, <4>1
    <3>2. CASE o = w /\ e = first
      <4>1. job'[o][e].phase = "joined" /\ job'[o][e].snap = job[o][e].snap
        BY <1>0, <2>1, <2>5, <3>2
      <4> QED
        BY <4>1 DEF ForFirst, Unrecorded
    <3>3. CASE o # w \/ (e \notin more /\ e # first)
      <4>1. job'[o][e] = job[o][e]
        BY <1>0, <2>1, <3>3
      <4> QED
        BY <4>1
    <3> QED
      BY <3>1, <3>2, <3>3
  <2> QED
    BY <2>3, <2>6, OwnersStay
<1> QED
  BY <1>2, <1>3, <1>4, <1>6, <1>7, <1>8 DEF WorkerStep

LEMMA JobStepOwned ==
    ASSUME PipelineSound, JobsFollow, ClaimsOwned, OverRecorded, ~DbFaults, life = "up",
           NEW o \in Owners, NEW e \in Episodes, JobStep(o, e) \/ EndFlight(o, e)
    PROVE  ClaimsOwned' /\ OverRecorded'
<1>0. /\ row \in [Episodes -> Rows] /\ job \in [Owners -> [Episodes -> JobRecs]]
      /\ Idle.phase = "idle" /\ Over.phase = "over"
  BY PhasesOfNewJobs DEF PipelineSound, SoundRows, JobTable, SoundJobs
<1>1. CASE Attempt(o, e)
  <2>1. PICK outcome : job' = [job EXCEPT ![o][e] = [job[o][e] EXCEPT !.phase = "record", !.made = outcome]]
    <3>1. PICK outcome : job' = [job EXCEPT ![o][e].phase = "record", ![o][e].made = outcome]
      BY <1>1 DEF Attempt
    <3>2. job' = [job EXCEPT ![o][e] = [job[o][e] EXCEPT !.phase = "record", !.made = outcome]]
      BY <1>0, <3>1
    <3> QED
      BY <3>2
  <2>2. UNCHANGED row
    BY <1>1 DEF Attempt
  <2>3. \A p \in Owners, x \in Episodes : p # o \/ x # e => job'[p][x] = job[p][x]
    BY <1>0, <2>1
  <2>4. job'[o][e].phase = "record" /\ job'[o][e].snap = job[o][e].snap
    BY <1>0, <2>1 DEF JobRecs
  <2>5. ASSUME NEW p \in Owners, NEW x \in Episodes
        PROVE  /\ ForFirst(job[p][x]) => ForFirst(job'[p][x])
               /\ job'[p][x].phase = "over" => job[p][x].phase = "over"
    BY <2>3, <2>4 DEF ForFirst, Unrecorded
  <2> QED
    BY <2>2, <2>5, OwnersStay
<1>2. CASE RecordOutcome(o, e)
  <2> DEFINE j == job[o][e]
             r == OutcomeRow(j)
  <2>1. /\ row' = [row EXCEPT ![e] = r] /\ job' = [job EXCEPT ![o][e] = Over]
        /\ j \in SoundJobs
    BY <1>2 DEF RecordOutcome, PipelineSound, JobTable
  <2>2. ~Restless(r)
    BY <2>1, OutcomeStates DEF Restless, Waits
  <2> HIDE DEF r
  <2>3. /\ row'[e] = r /\ \A x \in Episodes \ {e} : row'[x] = row[x]
        /\ \A p \in Owners, x \in Episodes : x # e => job'[p][x] = job[p][x]
    BY <1>0, <2>1
  <2>4. row'[e].state # "acquiring"
    BY <2>2, <2>3 DEF Restless
  <2> QED
    BY <2>2, <2>3, <2>4, OwnersStay
<1>3. CASE EndFlight(o, e)
  <2>1. UNCHANGED row /\ job' = [job EXCEPT ![o][e] = Idle] /\ job[o][e].phase = "over"
    BY <1>3 DEF EndFlight
  <2>2. ASSUME NEW p \in Owners, NEW x \in Episodes
        PROVE  /\ ForFirst(job[p][x]) => ForFirst(job'[p][x])
               /\ job'[p][x].phase = "over" => job[p][x].phase = "over"
    BY <1>0, <2>1 DEF ForFirst, Unrecorded
  <2> QED
    BY <2>1, <2>2, OwnersStay
<1>4. CASE AbandonJob(o, e)
  BY <1>4 DEF AbandonJob
<1> QED
  BY <1>1, <1>2, <1>3, <1>4 DEF JobStep

LEMMA SlotAndTimeOwned ==
    ASSUME PipelineSound, ClaimsOwned, OverRecorded, NEW e \in Episodes, TakeSlot(e) \/ ComeDue(e)
    PROVE  ClaimsOwned' /\ OverRecorded'
<1>0. /\ row \in [Episodes -> Rows] /\ job \in [Owners -> [Episodes -> JobRecs]] /\ Listener \in Owners
  BY ListenerIsNoWorker DEF PipelineSound, SoundRows, JobTable, SoundJobs
<1>1. CASE TakeSlot(e)
  <2>1. /\ UNCHANGED row
        /\ job' = [job EXCEPT ![Listener][e] = [job[Listener][e] EXCEPT !.phase = "working"]]
    BY <1>0, <1>1 DEF TakeSlot
  <2>2. /\ [job[Listener][e] EXCEPT !.phase = "working"].snap = job[Listener][e].snap
        /\ [job[Listener][e] EXCEPT !.phase = "working"].phase = "working"
    BY <1>0 DEF JobRecs
  <2>3. ASSUME NEW p \in Owners, NEW x \in Episodes
        PROVE  /\ ForFirst(job[p][x]) => ForFirst(job'[p][x])
               /\ job'[p][x].phase = "over" => job[p][x].phase = "over"
    BY <1>0, <2>1, <2>2 DEF ForFirst, Unrecorded
  <2> QED
    BY <2>1, <2>3, OwnersStay
<1>2. CASE ComeDue(e)
  <2>1. UNCHANGED job /\ \A o \in Owners : job[o][e].phase # "over"
    BY <1>2 DEF ComeDue
  <2>2. /\ \A x \in Episodes \ {e} : row'[x] = row[x]
        /\ \A x \in Episodes : row'[x].state = row[x].state
    BY <1>0, <1>2 DEF ComeDue, Rows
  <2> QED
    BY <2>1, <2>2, OwnersStay
<1> QED
  BY <1>1, <1>2

(* Only rows change, and none begins to wait.                              *)
LEMMA RowsOwned ==
    ASSUME ClaimsOwned, OverRecorded, UNCHANGED job,
           \A e \in Episodes : /\ Restless(row'[e]) => Restless(row[e])
                               /\ row'[e].state = "acquiring" => row[e].state = "acquiring"
    PROVE  ClaimsOwned' /\ OverRecorded'
BY OwnersStay

LEMMA PrepareStartsOwned ==
    ASSUME PipelineSound, RegistrySound, JobsFollow, ClaimsOwned, OverRecorded,
           NEW e \in Episodes, NEW snap, NEW f, ~Waits(snap) => ~Waits(row[e]),
           PrepareStarts(e, snap, f)
    PROVE  ClaimsOwned' /\ OverRecorded'
<1>0. /\ row \in [Episodes -> Rows] /\ job \in [Owners -> [Episodes -> JobRecs]]
      /\ Listener \in Owners /\ NoOwner \notin Owners
  BY ListenerIsNoWorker, PipelineAssumption DEF PipelineSound, SoundRows, JobTable, SoundJobs
<1>1. CASE /\ snap.state = "ready" /\ UNCHANGED row
           /\ job' = [job EXCEPT ![Listener][e] = NewJob("slot", snap, f, f.processed)]
  <2>1. NewJob("slot", snap, f, f.processed).phase = "slot"
    BY DEF NewJob
  <2>2. ~Waits(row[e])
    BY <1>1 DEF Waits
  <2>3. ASSUME NEW p \in Owners, NEW x \in Episodes
        PROVE  /\ row[x].state = "acquiring" /\ ForFirst(job[p][x]) => ForFirst(job'[p][x])
               /\ job'[p][x].phase = "over" => job[p][x].phase = "over"
    BY <1>0, <1>1, <2>1, <2>2 DEF Waits
  <2> QED
    BY <1>1, <2>3, OwnersStay
<1>2. CASE /\ row[e].state = "discovered" /\ row' = [row EXCEPT ![e].state = "acquiring"]
           /\ job' = [job EXCEPT ![Listener][e] =
                         NewJob("slot", [row[e] EXCEPT !.state = "acquiring"], f, f.processed)]
  <2>1. ForFirst(NewJob("slot", [row[e] EXCEPT !.state = "acquiring"], f, f.processed))
    BY <1>0 DEF NewJob, Rows, ForFirst, Unrecorded
  <2>2. \A p \in Owners : job[p][e].phase # "over"
    BY <1>0 DEF PrepareStarts, preparing, RegistrySound, RegistryMatchesJobs, Registered
  <2> QED
    BY <1>0, <1>2, <2>1, <2>2, FirstClaimOwned
<1> QED
  BY <1>1, <1>2 DEF PrepareStarts

(* A settled row is written over a settled row.                            *)
LEMMA SettledSaveOwned ==
    ASSUME PipelineSound, ClaimsOwned, OverRecorded, UNCHANGED job, NEW e \in Episodes, NEW r,
           row' = [row EXCEPT ![e] = r], ~Waits(r)
    PROVE  ClaimsOwned' /\ OverRecorded'
<1>1. \A x \in Episodes : row'[x] = IF x = e THEN r ELSE row[x]
  BY DEF PipelineSound
<1> QED
  BY <1>1, RowsOwned DEF Restless, WaitingForFirst, Waits

LEMMA RequestStepOwned ==
    ASSUME NoneStrands, PipelineSound, RegistrySound, ServerSound, RequestsKept, JobsFollow,
           RequestsFollow, ClaimsOwned, OverRecorded, NEW r \in Requests, RequestStep(r)
    PROVE  ClaimsOwned' /\ OverRecorded'
<1> DEFINE q == request[r]
<1>0. /\ q \in RequestRecs /\ q.ep \in Episodes /\ q.snap \in Rows
      /\ KeptRequest(q, feed) /\ feed \in FeedSettings
  BY FeedType DEF ServerSound, SoundRequests, SoundRows, RequestRecs, RequestsKept
<1>1. q.phase \notin {"idle", "answered"} /\ ~Waits(q.snap) => ~Waits(row[q.ep])
  BY DEF RequestsFollow
<1>2. CASE SaveCheck(r)
  BY <1>0, <1>2 DEF SaveCheck, KeptRequest
<1>3. CASE SaveForgotten(r)
  <2>1. UNCHANGED job /\ row' = [row EXCEPT ![q.ep] = q.snap] /\ ~Waits(q.snap)
    BY <1>0, <1>3 DEF SaveForgotten, KeptRequest
  <2> QED
    BY <1>0, <2>1, SettledSaveOwned
<1>4. CASE SaveTee(r)
  <2>1. /\ q.phase = "teesave" /\ UNCHANGED job
        /\ row' = [row EXCEPT ![q.ep] = Teed(q.snap, q.feed)]
    BY <1>4 DEF SaveTee
  <2>2. ~Waits(q.snap)
    BY <1>0, <2>1 DEF KeptRequest, Kept, Tees, Waits
  <2>3. ~Waits(Teed(q.snap, q.feed))
    BY <1>0, <2>2 DEF Teed, Rows, Waits
  <2> QED
    BY <1>0, <2>1, <2>3, SettledSaveOwned
<1>5. CASE Prepare(r) /\ PrepareStarts(q.ep, q.snap, q.feed)
  <2>1. q.phase = "route"
    BY <1>5 DEF Prepare
  <2> QED
    BY <1>0, <1>1, <1>5, <2>1, PrepareStartsOwned
<1>6. CASE UNCHANGED <<row, job>>
  BY <1>6, RowsOwned
<1> QED
  BY <1>2, <1>3, <1>4, <1>5, <1>6 DEF RequestStep, ServeStep, ReadFeed, CheckEpisode, ServeCached,
     Prepare, Reread, ServePrepared, Redirect, Stream, StartTee, CommitTee, DiscardTee,
     StopWaiting, pipelineVars

LEMMA AdminStepOwned ==
    ASSUME PipelineSound, AdminsKept, ClaimsOwned, OverRecorded,
           NEW a \in Admins, AskToQueue(a) \/ AdminStep(a)
    PROVE  ClaimsOwned' /\ OverRecorded'
<1>1. AskToQueue(a) \/ PickToQueue(a) \/ ApplyQueue(a)
  BY DEF AdminStep, AdminsKept, ReconcileList, ReconcileEnd, ReconcileSkip, ReconcileEpisode,
         ReconcileSave
<1>2. UNCHANGED job
  BY <1>1 DEF AskToQueue, PickToQueue, ApplyQueue, pipelineVars
<1>3. ASSUME NEW e \in Episodes
      PROVE  row'[e] = row[e] \/ (row'[e].state = row[e].state /\ row[e].state \in {"ready", "failed"})
  <2>1. row[e] \in Rows
    BY DEF PipelineSound, SoundRows
  <2>2. row'[e] \in {row[e], QueuedFailed(row[e]), QueuedUncached(row[e])}
    BY <1>1 DEF AskToQueue, PickToQueue, ApplyQueue, pipelineVars
  <2> QED
    BY <2>1, <2>2 DEF QueuedFailed, QueuedUncached, Rows
<1> QED
  BY <1>2, <1>3, RowsOwned DEF Restless, WaitingForFirst

LEMMA HousekeeperOwned ==
    ASSUME NoneStrands, PipelineSound, MaintenanceSound, SweepKept, ClaimsOwned, OverRecorded,
           \/ SweepRemove \/ SweepSave
           \/ \E e \in Episodes : SweepList(e) \/ RemoveOrphan(e)
    PROVE  ClaimsOwned' /\ OverRecorded'
<1>1. CASE SweepSave
  <2>1. /\ sweep.phase = "save" /\ sweep.ep \in Episodes /\ sweep.copy \in Rows
        /\ UNCHANGED job /\ row' = [row EXCEPT ![sweep.ep] = ForgetCache(sweep.copy)]
    BY <1>1 DEF SweepSave, MaintenanceSound, SoundSweeps, SweepRecs
  <2>2. ~Waits(sweep.copy)
    BY <2>1 DEF SweepKept, Kept
  <2>3. ~Waits(ForgetCache(sweep.copy))
    BY <2>1, <2>2 DEF Rows, ForgetCache, Waits
  <2> QED
    BY <2>1, <2>3, SettledSaveOwned
<1>2. ASSUME \/ SweepRemove \/ \E e \in Episodes : SweepList(e) \/ RemoveOrphan(e)
      PROVE  ClaimsOwned' /\ OverRecorded'
  <2>1. UNCHANGED <<row, job>>
    BY <1>2 DEF SweepRemove, SweepList, RemoveOrphan, pipelineVars
  <2> QED
    BY <2>1, RowsOwned
<1> QED
  BY <1>1, <1>2

LEMMA HidingOwned ==
    ASSUME PipelineSound, ClaimsOwned, OverRecorded, NEW e \in Episodes, Hide(e) \/ Show(e)
    PROVE  ClaimsOwned' /\ OverRecorded'
<1>1. CASE UNCHANGED row
  BY <1>1, RowsOwned DEF Hide, Show
<1>2. CASE ~UNCHANGED row
  <2> DEFINE next == IF Prepares(feed) /\ feed.ahead /\ ~row[e].cached THEN "due" ELSE "none"
             r == [row[e] EXCEPT !.backlog = TRUE, !.state = "ready", !.next = next]
  <2>1. UNCHANGED job /\ row' = [row EXCEPT ![e] = r]
    BY <1>2 DEF Hide, Show, PipelineSound
  <2>2. ~Waits(r)
    BY DEF PipelineSound, SoundRows, Rows, Waits
  <2> HIDE DEF r
  <2> QED
    BY <2>1, <2>2, SettledSaveOwned
<1> QED
  BY <1>1, <1>2

(* Start-up: interrupted claims wait again, and nothing runs.              *)
LEMMA RestartOwned ==
    ASSUME PipelineSound, PipelineKept, DownIsIdle, Restart(feed)
    PROVE  ClaimsOwned' /\ OverRecorded'
<1>1. feed \in FeedSettings /\ job' = NoJobs
  BY FeedType DEF Restart, DownIsIdle
<1>2. ASSUME NEW e \in Episodes PROVE row'[e].state # "acquiring"
  <2> DEFINE r == Recovered(row[e])
  <2>1. r \in SoundRows /\ Kept(r, feed)
    BY <1>1, KeptQueued, RecoveredSound DEF PipelineSound, PipelineKept, RowsKept
  <2>2. Reconciled(r, feed) = r
    BY <1>1, <2>1, KeptFits
  <2>3. row'[e] \in {r, QueuedUncached(r)}
    BY <2>2 DEF Restart
  <2>4. r.state # "acquiring" /\ r \in Rows
    BY <2>1 DEF Recovered, PipelineSound, SoundRows, Rows
  <2> QED
    BY <2>3, <2>4 DEF QueuedUncached, Rows
<1> QED
  BY <1>1, <1>2, PhasesOfNewJobs DEF ClaimsOwned, OverRecorded, NoJobs

LEMMA NextOwned ==
    ASSUME NoneStrands, CopiesSound, SettingsKept, FollowsRow, RegistrySound, Owned, [Next]_vars
    PROVE  Owned'
<1> SUFFICES ASSUME changes' = 0, ~DbFaults, life' = "up" PROVE ClaimsOwned' /\ OverRecorded'
  BY DEF Owned
<1>0. changes = 0 /\ UNCHANGED feed
  BY SettingsLast
<1>1. /\ PipelineSound /\ MaintenanceSound /\ ServerSound
      /\ PipelineKept /\ JobsKept /\ RequestsKept /\ AdminsKept /\ SweepKept
      /\ JobsFollow /\ OneClaimer /\ RequestsFollow /\ DownIsIdle
  BY <1>0 DEF CopiesSound, SettingsKept, AllKept, PipelineKept, FollowsRow, AllFollow
<1>2. ASSUME StartProcess PROVE ClaimsOwned' /\ OverRecorded'
  BY <1>0, <1>1, <1>2, RestartOwned DEF StartProcess
<1>3. ASSUME StopProcess \/ Shutdown PROVE FALSE
  BY <1>3 DEF StopProcess, Stopped, Crash, Shutdown
<1>4. ASSUME ~StartProcess PROVE life = "up"
  <2>1. CASE UNCHANGED life
    BY <2>1
  <2>2. ASSUME \/ \E w \in Workers : WorkerStep(w)
               \/ \E o \in Owners, e \in Episodes : JobStep(o, e) \/ EndJob(o, e)
               \/ \E e \in Episodes : TakeSlot(e) \/ ComeDue(e)
        PROVE  UNCHANGED life
    BY <2>2 DEF WorkerStep, ClaimNextEpisode, ClaimQueuedEpisode, RunBatch, StartFlight, LoadFeed,
       ClaimQueuedEpisodesForFeed, JoinBatch, JobStep, Attempt, RecordOutcome, AbandonJob, EndJob,
       EndFlight, TakeSlot, ComeDue
  <2>3. ASSUME NEW r \in Requests, RequestStep(r) \/ \E e \in Episodes : Ask(r, e)
        PROVE  UNCHANGED life
    BY <2>3 DEF Ask, RequestStep, ServeStep, ReadFeed, CheckEpisode, SaveCheck, ServeCached,
       SaveForgotten, Prepare, PrepareStarts, Reread, ServePrepared, Redirect, Stream, StartTee,
       CommitTee, DiscardTee, SaveTee, StopWaiting, pipelineVars
  <2>4. ASSUME NEW a \in Admins, AskToQueue(a) \/ AdminStep(a) \/ ChangeSettings(a)
        PROVE  UNCHANGED life
    BY <2>4 DEF AskToQueue, AdminStep, ReconcileList, ReconcileEnd, PickToQueue, ChangeSettings,
       ApplyQueue, ReconcileSkip, ReconcileEpisode, ReconcileSave, pipelineVars
  <2>5. ASSUME \/ SweepRemove \/ SweepSave \/ UNCHANGED vars
               \/ \E e \in Episodes : SweepList(e) \/ Hide(e) \/ Show(e) \/ RemoveOrphan(e)
        PROVE  UNCHANGED life
    BY <2>5 DEF SweepRemove, SweepSave, SweepList, Hide, Show, RemoveOrphan, pipelineVars, vars
  <2> QED
    BY <1>3, <1>4, <2>1, <2>2, <2>3, <2>4, <2>5 DEF Next
<1>5. SUFFICES ASSUME ~StartProcess, life = "up" PROVE ClaimsOwned' /\ OverRecorded'
  BY <1>2, <1>4
<1>6. ClaimsOwned /\ OverRecorded
  BY <1>0, <1>5 DEF Owned
<1>7. ASSUME NEW w \in Workers, WorkerStep(w) PROVE ClaimsOwned' /\ OverRecorded'
  BY <1>1, <1>6, <1>7, WorkerStepOwned
<1>8. ASSUME NEW o \in Owners, NEW e \in Episodes, JobStep(o, e) \/ EndJob(o, e)
      PROVE  ClaimsOwned' /\ OverRecorded'
  BY <1>1, <1>5, <1>6, <1>8, JobStepOwned DEF EndJob
<1>9. ASSUME NEW e \in Episodes, TakeSlot(e) \/ ComeDue(e) PROVE ClaimsOwned' /\ OverRecorded'
  BY <1>1, <1>6, <1>9, SlotAndTimeOwned
<1>10. ASSUME NEW r \in Requests, RequestStep(r) PROVE ClaimsOwned' /\ OverRecorded'
  BY <1>1, <1>6, <1>10, RequestStepOwned
<1>11. ASSUME NEW a \in Admins, ChangeSettings(a) \/ AskToQueue(a) \/ AdminStep(a)
       PROVE  ClaimsOwned' /\ OverRecorded'
  BY <1>0, <1>1, <1>6, <1>11, AdminStepOwned DEF ChangeSettings
<1>12. ASSUME \/ SweepRemove \/ SweepSave
              \/ \E e \in Episodes : SweepList(e) \/ RemoveOrphan(e)
       PROVE  ClaimsOwned' /\ OverRecorded'
  BY <1>1, <1>6, <1>12, HousekeeperOwned
<1>13. ASSUME NEW e \in Episodes, Hide(e) \/ Show(e) PROVE ClaimsOwned' /\ OverRecorded'
  BY <1>1, <1>6, <1>13, HidingOwned
<1>14. CASE \/ \E r \in Requests, e \in Episodes : Ask(r, e)
            \/ UNCHANGED vars
  <2>1. UNCHANGED <<row, job>>
    BY <1>14 DEF Ask, vars, pipelineVars
  <2> QED
    BY <1>6, <2>1, RowsOwned
<1> QED
  BY <1>3, <1>5, <1>7, <1>8, <1>9, <1>10, <1>11, <1>12, <1>13, <1>14 DEF Next

(* With unchanged settings and a database that answers, an episode that is *)
(* "acquiring" while the process runs always has a job that will record    *)
(* its outcome: none is stranded there until the next start, where it      *)
(* would hold newer episodes back.                                         *)
THEOREM ClaimsAlwaysOwned ==
    ASSUME MaxChanges = 0, NoneStrands, ~DbFaults
    PROVE  Spec => []AcquiringHasOwner
<1>1. Init => Owned
  BY PhasesOfNewJobs DEF Init, PipelineInit, Owned, ClaimsOwned, OverRecorded, NewRow
<1>2. CopiesSound /\ SettingsKept /\ FollowsRow /\ RegistrySound /\ Owned /\ [Next]_vars => Owned'
  BY NextOwned
<1>3. CopiesSound /\ Owned => AcquiringHasOwner
  BY DEF CopiesSound, MaintenanceSound, Owned, ClaimsOwned, ForFirst, AcquiringHasOwner
<1>4. Spec => []RegistrySound
  <2>1. CopiesSound /\ RegistrySound /\ [Next]_vars => RegistrySound'
    BY NextRegistry
  <2> QED
    BY <2>1, InitRegistry, CopiesAlwaysSound, PTL DEF Spec
<1> QED
  BY <1>1, <1>2, <1>3, <1>4, CopiesAlwaysSound, SettingsAlwaysKept, AlwaysFollows, PTL DEF Spec

-----------------------------------------------------------------------------
(* Queued episodes, under settings that change.                            *)

(* Streams into the cache of an unprocessed feed are never kept: such a    *)
(* stream gives a ready row its file and leaves its attempt time.          *)
NoTees == \A s \in Settings : ~Tees(s)

NotQueued(r) == HasFile(r) => r.next = "none"

RowsNotQueued == \A e \in Episodes : NotQueued(row[e])
JobsNotQueued == \A o \in Owners, e \in Episodes : NotQueued(job[o][e].snap)
AdminsNotQueued == \A a \in Admins, e \in Episodes : NotQueued(admin[a].copy[e])
SweepNotQueued == NotQueued(sweep.copy)

(* What a stream keeps meanwhile is of an episode that stays failed.       *)
RequestNotQueued(q) ==
    /\ NotQueued(q.snap) /\ q.feed \in Settings
    /\ q.phase \in {"tee", "teesave"} => q.snap.state = "failed" /\ q.feed.processed

RequestsNotQueued == \A r \in Requests : RequestNotQueued(request[r])

CopiesNotQueued ==
    RowsNotQueued /\ JobsNotQueued /\ AdminsNotQueued /\ SweepNotQueued /\ RequestsNotQueued

(* Claims, times, start-up, checks and commands.                           *)
LEMMA WritesNotQueued ==
    ASSUME NEW r \in SoundRows, NEW f \in FeedSettings, NotQueued(r)
    PROVE  /\ NotQueued([r EXCEPT !.state = "acquiring"])
           /\ Queueable(r) => NotQueued([r EXCEPT !.next = "later"])
           /\ r.next = "later" => NotQueued([r EXCEPT !.next = "due"])
           /\ NotQueued(Recovered(r)) /\ NotQueued(QueuedUncached(r)) /\ NotQueued(QueuedFailed(r))
           /\ NotQueued(ForgetCache(r)) /\ NotQueued(Reconciled(r, f))
           /\ r.state = "failed" /\ f.processed => NotQueued(Teed(r, f))
<1>0. r \in Rows
  BY DEF SoundRows
<1>1. NotQueued(ClearedFile(r)) /\ NotQueued(FreshStart(r, f))
  BY <1>0 DEF ClearedFile, FreshStart, ForgetCache, NoFailure, NotQueued, HasFile, Rows
<1>2. ASSUME NEW next, r.state = "failed"
      PROVE  NotQueued([r EXCEPT !.preparedWith = FailedRecipe(f), !.next = next])
  BY <1>0, <1>2 DEF NotQueued, HasFile, Rows
<1>3. NotQueued([r EXCEPT !.preparedWith = Recipe(f)])
  BY <1>0 DEF NotQueued, HasFile, Rows
<1>4. NotQueued(Reconciled(r, f))
  BY <1>1, <1>2, <1>3 DEF Reconciled
<1>5. r.state = "failed" /\ f.processed => NotQueued(Teed(r, f))
  BY <1>0 DEF Teed, NotQueued, HasFile, Rows
<1> QED
  BY <1>0, <1>4, <1>5 DEF Recovered, QueuedUncached, QueuedFailed, ForgetCache, Queueable, NotQueued,
     HasFile, Rows

LEMMA OutcomeNotQueued == ASSUME NEW j \in SoundJobs PROVE NotQueued(OutcomeRow(j))
<1>0. j.snap \in Rows
  BY DEF SoundJobs, ClaimedRows, SoundRows
<1>1. Counted(j.snap) \in Rows /\ Counted(j.snap).state = j.snap.state
  BY <1>0, CountersType DEF Counted, Rows
<1>2. NotQueued(Succeeded(j.snap, j.feed, j.processing))
  BY <1>0 DEF Succeeded, NoFailure, Rows, NotQueued, HasFile
<1>3. j.snap.state = "failed" => NotQueued(FailedAgain(j.snap, j.feed))
  BY <1>1 DEF FailedAgain, Rows, NotQueued, HasFile
<1>4. NotQueued(GaveUp(j.snap, j.feed, j.processing))
  BY <1>1 DEF GaveUp, Rows, NotQueued, HasFile
<1>5. NotQueued(TriedAgain(j.snap))
  BY <1>0, <1>1 DEF TriedAgain, Rows, NotQueued, HasFile
<1> QED
  BY <1>2, <1>3, <1>4, <1>5 DEF OutcomeRow, Failure

LEMMA OneRowNotQueued ==
    ASSUME PipelineSound, RowsNotQueued, NEW e \in Episodes, NEW r, NotQueued(r),
           row' = [row EXCEPT ![e] = r]
    PROVE  RowsNotQueued'
BY DEF PipelineSound, RowsNotQueued

(* Whatever else becomes of a job, it holds the copy it held, an idle      *)
(* job's, or the row it has just claimed.                                  *)
LEMMA SnapsNotQueued ==
    ASSUME RowsNotQueued', JobsNotQueued,
           \A o \in Owners, e \in Episodes :
               job'[o][e].snap \in {job[o][e].snap, Idle.snap, row'[e]}
    PROVE  JobsNotQueued'
<1>1. NotQueued(Idle.snap)
  BY DEF Idle, NewRow, NotQueued, HasFile
<1> QED
  BY <1>1 DEF JobsNotQueued, RowsNotQueued

LEMMA WorkerStepNotQueued ==
    ASSUME PipelineSound, RowsNotQueued, JobsNotQueued, NEW w \in Workers, WorkerStep(w)
    PROVE  RowsNotQueued' /\ JobsNotQueued'
<1>0. /\ row \in [Episodes -> SoundRows] /\ row \in [Episodes -> Rows] /\ w \in Owners
      /\ job \in [Owners -> [Episodes -> JobRecs]] /\ feed \in FeedSettings
  BY ListenerIsNoWorker, FeedType DEF PipelineSound, SoundRows, JobTable, SoundJobs
<1>1. ASSUME NEW e \in Episodes
      PROVE  /\ NotQueued([row[e] EXCEPT !.state = "acquiring"])
             /\ Queueable(row[e]) => NotQueued([row[e] EXCEPT !.next = "later"])
  BY <1>0, WritesNotQueued DEF RowsNotQueued
<1>2. ASSUME NEW e \in Episodes, NEW r, NotQueued(r), row' = [row EXCEPT ![e] = r],
             job' = [job EXCEPT ![w][e] = NewJob("claimed", r, Idle.feed, FALSE)]
      PROVE  RowsNotQueued' /\ JobsNotQueued'
  <2>1. row'[e] = r /\ NewJob("claimed", r, Idle.feed, FALSE).snap = r
    BY <1>0, <1>2 DEF NewJob
  <2>2. \A o \in Owners, x \in Episodes :
           job'[o][x].snap \in {job[o][x].snap, Idle.snap, row'[x]}
    BY <1>0, <1>2, <2>1
  <2>3. RowsNotQueued'
    BY <1>2, OneRowNotQueued
  <2> QED
    BY <2>2, <2>3, SnapsNotQueued
<1>3. CASE ClaimNextEpisode(w)
  <2>1. PICK e \in Episodes :
           /\ row' = [row EXCEPT ![e] = [row[e] EXCEPT !.state = "acquiring"]]
           /\ job' = [job EXCEPT ![w][e] =
                        NewJob("claimed", [row[e] EXCEPT !.state = "acquiring"], Idle.feed, FALSE)]
    BY <1>0, <1>3 DEF ClaimNextEpisode, NewWork
  <2> QED
    BY <1>1, <1>2, <2>1
<1>4. CASE ClaimQueuedEpisode(w)
  <2>1. PICK e \in Episodes :
           /\ Queueable(row[e]) /\ row' = [row EXCEPT ![e] = [row[e] EXCEPT !.next = "later"]]
           /\ job' = [job EXCEPT ![w][e] =
                        NewJob("claimed", [row[e] EXCEPT !.next = "later"], Idle.feed, FALSE)]
    BY <1>0, <1>4 DEF ClaimQueuedEpisode, QueuedWork, QueuedAndDue
  <2> QED
    BY <1>1, <1>2, <2>1
<1>5. ASSUME UNCHANGED row,
             \A o \in Owners, e \in Episodes : job'[o][e].snap \in {job[o][e].snap, Idle.snap}
      PROVE  RowsNotQueued' /\ JobsNotQueued'
  BY <1>5, SnapsNotQueued DEF RowsNotQueued
<1>6. CASE RunBatch(w)
  BY <1>0, <1>5, <1>6 DEF RunBatch, JobRecs
<1>7. ASSUME NEW e \in Episodes, StartFlight(w, e) \/ JoinBatch(w, e)
      PROVE  RowsNotQueued' /\ JobsNotQueued'
  <2>1. /\ UNCHANGED row
        /\ \/ job' = [job EXCEPT ![w][e] = Idle]
           \/ \E p : job' = [job EXCEPT ![w][e] = [job[w][e] EXCEPT !.phase = p]]
    BY <1>0, <1>7 DEF StartFlight, JoinBatch
  <2>2. ASSUME NEW p PROVE [job[w][e] EXCEPT !.phase = p].snap = job[w][e].snap
    BY <1>0 DEF JobRecs
  <2>3. PICK j : job' = [job EXCEPT ![w][e] = j] /\ j.snap \in {job[w][e].snap, Idle.snap}
    BY <2>1, <2>2
  <2>4. \A o \in Owners, x \in Episodes : job'[o][x].snap \in {job[o][x].snap, Idle.snap}
    BY <1>0, <2>3
  <2> QED
    BY <1>5, <2>1, <2>4
<1>8. ASSUME NEW e \in Episodes, LoadFeed(w, e) PROVE RowsNotQueued' /\ JobsNotQueued'
  <2>1. UNCHANGED row /\ \A o \in Owners, x \in Episodes : job'[o][x].snap = job[o][x].snap
    BY <1>0, <1>8 DEF LoadFeed, JobRecs
  <2> QED
    BY <1>5, <2>1
<1>9. ASSUME NEW first \in Episodes, ClaimQueuedEpisodesForFeed(w, first)
      PROVE  RowsNotQueued' /\ JobsNotQueued'
  <2>1. PICK more \in SUBSET {e \in Episodes \ {first} : ~hidden[e] /\ QueuedAndDue(row[e])} :
           /\ row' = [e \in Episodes |-> IF e \in more THEN [row[e] EXCEPT !.next = "later"]
                                                       ELSE row[e]]
           /\ job' = [job EXCEPT ![w] = [e \in Episodes |->
                         IF e \in more
                         THEN NewJob("joining", [row[e] EXCEPT !.next = "later"],
                                     job[w][first].feed, TRUE)
                         ELSE IF e = first THEN [job[w][e] EXCEPT !.phase = "joined"]
                         ELSE job[w][e]]]
    BY <1>9 DEF ClaimQueuedEpisodesForFeed
  <2>2. RowsNotQueued'
    BY <1>0, <1>1, <2>1 DEF RowsNotQueued, QueuedAndDue
  <2>3. [job[w][first] EXCEPT !.phase = "joined"].snap = job[w][first].snap
    BY <1>0 DEF JobRecs
  <2>4. \A e \in Episodes : NewJob("joining", [row[e] EXCEPT !.next = "later"],
                                   job[w][first].feed, TRUE).snap = [row[e] EXCEPT !.next = "later"]
    BY DEF NewJob
  <2>5. \A o \in Owners, x \in Episodes : job'[o][x].snap \in {job[o][x].snap, row'[x]}
    BY <1>0, <2>1, <2>3, <2>4
  <2> QED
    BY <2>2, <2>5, SnapsNotQueued
<1> QED
  BY <1>3, <1>4, <1>6, <1>7, <1>8, <1>9 DEF WorkerStep

LEMMA JobStepNotQueued ==
    ASSUME PipelineSound, RowsNotQueued, JobsNotQueued, NEW e \in Episodes,
           \/ \E o \in Owners : JobStep(o, e) \/ EndFlight(o, e)
           \/ TakeSlot(e) \/ ComeDue(e)
    PROVE  RowsNotQueued' /\ JobsNotQueued'
<1>0. /\ row \in [Episodes -> SoundRows] /\ row \in [Episodes -> Rows] /\ feed \in FeedSettings
      /\ job \in [Owners -> [Episodes -> JobRecs]] /\ Over.snap = Idle.snap /\ Listener \in Owners
  BY ListenerIsNoWorker, FeedType DEF PipelineSound, SoundRows, JobTable, SoundJobs, Over, Idle
<1>1. ASSUME NEW o \in Owners, NEW j, job' = [job EXCEPT ![o][e] = j],
             j.snap \in {job[o][e].snap, Idle.snap}, RowsNotQueued'
      PROVE  RowsNotQueued' /\ JobsNotQueued'
  <2>1. \A p \in Owners, x \in Episodes : job'[p][x].snap \in {job[p][x].snap, Idle.snap}
    BY <1>0, <1>1
  <2> QED
    BY <1>1, <2>1, SnapsNotQueued
<1>2. UNCHANGED row => RowsNotQueued'
  BY DEF RowsNotQueued
<1>3. ASSUME NEW o \in Owners, Attempt(o, e) PROVE RowsNotQueued' /\ JobsNotQueued'
  <2>1. PICK made : job' = [job EXCEPT ![o][e].phase = "record", ![o][e].made = made]
    BY <1>3 DEF Attempt
  <2>2. job' = [job EXCEPT ![o][e] = [job[o][e] EXCEPT !.phase = "record", !.made = made]]
    BY <1>0, <2>1
  <2>3. [job[o][e] EXCEPT !.phase = "record", !.made = made].snap = job[o][e].snap
    BY <1>0 DEF JobRecs
  <2>4. UNCHANGED row
    BY <1>3 DEF Attempt
  <2> QED
    BY <1>1, <1>2, <2>2, <2>3, <2>4
<1>4. ASSUME NEW o \in Owners, RecordOutcome(o, e) PROVE RowsNotQueued' /\ JobsNotQueued'
  <2>1. NotQueued(OutcomeRow(job[o][e]))
    BY OutcomeNotQueued DEF PipelineSound, JobTable
  <2>2. RowsNotQueued'
    BY <1>4, <2>1, OneRowNotQueued DEF RecordOutcome
  <2> QED
    BY <1>0, <1>1, <1>4, <2>2 DEF RecordOutcome
<1>5. ASSUME NEW o \in Owners, AbandonJob(o, e) \/ EndFlight(o, e)
      PROVE  RowsNotQueued' /\ JobsNotQueued'
  <2>1. UNCHANGED row /\ \E j \in {Over, Idle} : job' = [job EXCEPT ![o][e] = j]
    BY <1>5 DEF AbandonJob, EndFlight
  <2> QED
    BY <1>0, <1>1, <1>2, <2>1
<1>6. CASE TakeSlot(e)
  <2>1. /\ UNCHANGED row
        /\ job' = [job EXCEPT ![Listener][e] = [job[Listener][e] EXCEPT !.phase = "working"]]
    BY <1>0, <1>6 DEF TakeSlot
  <2>2. [job[Listener][e] EXCEPT !.phase = "working"].snap = job[Listener][e].snap
    BY <1>0 DEF JobRecs
  <2> QED
    BY <1>0, <1>1, <1>2, <2>1, <2>2
<1>7. CASE ComeDue(e)
  <2>1. UNCHANGED job /\ row' = [row EXCEPT ![e] = [row[e] EXCEPT !.next = "due"]]
    BY <1>0, <1>7 DEF ComeDue
  <2>2. NotQueued([row[e] EXCEPT !.next = "due"])
    BY <1>0, <1>7, WritesNotQueued DEF ComeDue, RowsNotQueued
  <2> QED
    BY <2>1, <2>2, OneRowNotQueued DEF JobsNotQueued
<1> QED
  BY <1>3, <1>4, <1>5, <1>6, <1>7 DEF JobStep

LEMMA PrepareStartsNotQueued ==
    ASSUME PipelineSound, RowsNotQueued, JobsNotQueued, NEW e \in Episodes, NEW snap, NEW f,
           NotQueued(snap), PrepareStarts(e, snap, f)
    PROVE  RowsNotQueued' /\ JobsNotQueued'
<1>0. /\ row \in [Episodes -> SoundRows] /\ job \in [Owners -> [Episodes -> JobRecs]]
      /\ Listener \in Owners /\ feed \in FeedSettings
  BY ListenerIsNoWorker, FeedType DEF PipelineSound, JobTable, SoundJobs
<1>1. PICK s : /\ NotQueued(s) /\ row' \in {row, [row EXCEPT ![e] = s]}
               /\ job' = [job EXCEPT ![Listener][e] = NewJob("slot", s, f, f.processed)]
  <2>1. NotQueued([row[e] EXCEPT !.state = "acquiring"])
    BY <1>0, WritesNotQueued DEF RowsNotQueued
  <2> QED
    BY <1>0, <2>1 DEF PrepareStarts
<1>2. NewJob("slot", s, f, f.processed).snap = s
  BY DEF NewJob
<1>3. RowsNotQueued'
  BY <1>0, <1>1, OneRowNotQueued DEF RowsNotQueued
<1>4. JobsNotQueued'
  BY <1>0, <1>1, <1>2 DEF JobsNotQueued
<1> QED
  BY <1>3, <1>4

LEMMA OneRequestNotQueued ==
    ASSUME ServerSound, RequestsNotQueued, NEW r \in Requests, NEW q, RequestNotQueued(q),
           request' = [request EXCEPT ![r] = q]
    PROVE  RequestsNotQueued'
BY DEF ServerSound, RequestsNotQueued

LEMMA IdleNotQueued ==
    /\ NotQueued(Idle.snap) /\ NotQueued(NoCopy) /\ Idle.feed \in Settings
    /\ RequestNotQueued(RequestIdle)
<1>1. NotQueued(Idle.snap) /\ Idle.feed \in Settings
  BY IdleSound DEF Idle, NewRow, NotQueued, HasFile
<1> QED
  BY <1>1 DEF NoCopy, RequestIdle, RequestNotQueued

LEMMA RequestStepNotQueued ==
    ASSUME NoTees, PipelineSound, ServerSound, RowsNotQueued, JobsNotQueued, RequestsNotQueued,
           NEW r \in Requests, RequestStep(r)
    PROVE  RowsNotQueued' /\ JobsNotQueued' /\ RequestsNotQueued'
<1> DEFINE q == request[r]
<1>0. /\ q \in RequestRecs /\ q.snap \in SoundRows /\ q.ep \in Episodes /\ RequestNotQueued(q)
      /\ request \in [Requests -> RequestRecs] /\ q.feed \in FeedSettings
      /\ NotQueued(row[q.ep]) /\ feed \in Settings
  BY DEF ServerSound, SoundRequests, RequestRecs, RequestsNotQueued, RowsNotQueued, PipelineSound
<1>s. UNCHANGED <<row, job>> => RowsNotQueued' /\ JobsNotQueued'
  BY DEF RowsNotQueued, JobsNotQueued
<1>1. ASSUME NEW p, p \notin {"tee", "teesave"}, NEW s, NotQueued(s), NEW f \in Settings
      PROVE  /\ RequestNotQueued([q EXCEPT !.phase = p, !.snap = s, !.feed = f])
             /\ RequestNotQueued([q EXCEPT !.phase = p, !.feed = f])
             /\ RequestNotQueued([q EXCEPT !.phase = p, !.snap = s])
             /\ RequestNotQueued([q EXCEPT !.phase = p])
             /\ RequestNotQueued([q EXCEPT !.phase = p, !.waited = TRUE])
  BY <1>0, <1>1 DEF RequestRecs, RequestNotQueued
<1>2. ASSUME NEW kind, NEW audio, Answer(r, kind, audio) PROVE RequestsNotQueued'
  <2> DEFINE a == [q EXCEPT !.phase = "answered", !.snap = Idle.snap, !.feed = Idle.feed,
                            !.answer = kind, !.audio = audio]
  <2>1. request' = [request EXCEPT ![r] = a]
    BY <1>2 DEF Answer
  <2>2. a.phase = "answered" /\ a.snap = Idle.snap /\ a.feed = Idle.feed
    BY <1>0 DEF RequestRecs
  <2> HIDE DEF a
  <2>3. RequestNotQueued(a)
    BY <2>2, IdleNotQueued DEF RequestNotQueued
  <2> QED
    BY <2>1, <2>3, OneRequestNotQueued
<1>3. CASE ReadFeed(r)
  <2>1. request' = [request EXCEPT ![r] = [q EXCEPT !.phase = "check", !.feed = feed]]
    BY <1>0, <1>3 DEF ReadFeed
  <2>2. RequestNotQueued([q EXCEPT !.phase = "check", !.feed = feed])
    BY <1>0, <1>1
  <2>3. RequestsNotQueued'
    BY <2>1, <2>2, OneRequestNotQueued
  <2> QED
    BY <1>3, <1>s, <2>3 DEF ReadFeed, pipelineVars
<1>4. CASE CheckEpisode(r)
  <2>1. PICK p \in {"checksave", "serve"}, s \in {q.snap, Reconciled(q.snap, q.feed)} :
           request' = [request EXCEPT ![r] = [q EXCEPT !.phase = p, !.snap = s]]
    BY <1>0, <1>4 DEF CheckEpisode
  <2>2. NotQueued(s)
    BY <1>0, <2>1, WritesNotQueued DEF RequestNotQueued
  <2>3. RequestsNotQueued'
    BY <1>0, <1>1, <2>1, <2>2, OneRequestNotQueued
  <2> QED
    BY <1>4, <1>s, <2>3 DEF CheckEpisode
<1>5. CASE SaveCheck(r) \/ SaveForgotten(r)
  <2>1. PICK p \in {"serve", "route"} :
           request' = [request EXCEPT ![r] = [q EXCEPT !.phase = p]]
    BY <1>0, <1>5 DEF SaveCheck, SaveForgotten
  <2>2. RequestsNotQueued'
    BY <1>0, <1>1, <2>1, OneRequestNotQueued
  <2>3. row' = [row EXCEPT ![q.ep] = q.snap] /\ UNCHANGED job
    BY <1>5 DEF SaveCheck, SaveForgotten
  <2>4. RowsNotQueued'
    BY <1>0, <2>3, OneRowNotQueued DEF RequestNotQueued
  <2> QED
    BY <2>2, <2>3, <2>4 DEF JobsNotQueued
<1>6. CASE ServeCached(r)
  <2>1. \/ \E kind, audio : Answer(r, kind, audio)
        \/ \E p \in {"forget", "route"}, s \in {q.snap, ForgetCache(q.snap)} :
              request' = [request EXCEPT ![r] = [q EXCEPT !.phase = p, !.snap = s]]
    <3>1. request' = [request EXCEPT ![r].phase = "route"] =>
             request' = [request EXCEPT ![r] = [q EXCEPT !.phase = "route", !.snap = q.snap]]
      BY <1>0 DEF RequestRecs
    <3>2. request' = [request EXCEPT ![r].phase = "forget", ![r].snap = ForgetCache(@)] =>
             request' = [request EXCEPT ![r] = [q EXCEPT !.phase = "forget", !.snap = ForgetCache(q.snap)]]
      BY <1>0
    <3> QED
      BY <1>6, <3>1, <3>2 DEF ServeCached
  <2>2. NotQueued(q.snap) /\ NotQueued(ForgetCache(q.snap))
    BY <1>0, WritesNotQueued DEF RequestNotQueued
  <2>3. RequestsNotQueued'
    BY <1>0, <1>1, <1>2, <2>1, <2>2, OneRequestNotQueued
  <2> QED
    BY <1>6, <1>s, <2>3 DEF ServeCached, pipelineVars
<1>7. CASE Prepare(r)
  <2>1. \/ \E kind, audio : Answer(r, kind, audio)
        \/ request' = [request EXCEPT ![r] = [q EXCEPT !.phase = "waiting", !.waited = TRUE]]
    BY <1>0, <1>7 DEF Prepare
  <2>2. RequestsNotQueued'
    BY <1>0, <1>1, <1>2, <2>1, IdleNotQueued, OneRequestNotQueued
  <2>3. CASE PrepareStarts(q.ep, q.snap, q.feed)
    BY <1>0, <2>2, <2>3, PrepareStartsNotQueued DEF RequestNotQueued
  <2> QED
    BY <1>7, <1>s, <2>2, <2>3 DEF Prepare, pipelineVars
<1>8. CASE Reread(r)
  <2>1. request' = [request EXCEPT ![r] = [q EXCEPT !.phase = "reread", !.snap = row[q.ep]]]
    BY <1>0, <1>8 DEF Reread
  <2>2. RequestsNotQueued'
    BY <1>0, <1>1, <2>1, OneRequestNotQueued
  <2> QED
    BY <1>8, <1>s, <2>2 DEF Reread, pipelineVars
<1>9. CASE ServePrepared(r)
  <2>1. \/ \E kind, audio : Answer(r, kind, audio)
        \/ request' = [request EXCEPT ![r] = [q EXCEPT !.phase = "pass"]]
    BY <1>0, <1>9 DEF ServePrepared
  <2>2. RequestNotQueued([q EXCEPT !.phase = "pass"])
    BY <1>0, <1>1
  <2>3. RequestsNotQueued'
    BY <1>2, <2>1, <2>2, OneRequestNotQueued
  <2> QED
    BY <1>9, <1>s, <2>3 DEF ServePrepared, pipelineVars
<1>10. CASE Redirect(r) \/ Stream(r) \/ DiscardTee(r) \/ StopWaiting(r)
  <2>1. RequestsNotQueued'
    BY <1>2, <1>10 DEF Redirect, Stream, DiscardTee, StopWaiting
  <2> QED
    BY <1>10, <1>s, <2>1 DEF Redirect, Stream, DiscardTee, StopWaiting, pipelineVars
<1>11. CASE StartTee(r) \/ CommitTee(r)
  <2>1. q.snap.state = "failed" /\ q.feed.processed
    <3>1. ~Tees(q.feed)
      BY <1>0 DEF NoTees, RequestNotQueued
    <3> QED
      BY <1>0, <1>11, <3>1 DEF StartTee, CommitTee, Teeable, Tees, RequestNotQueued
  <2>2. PICK p \in {"tee", "teesave"} :
           request' = [request EXCEPT ![r] = [q EXCEPT !.phase = p]]
    BY <1>0, <1>11 DEF StartTee, CommitTee
  <2>3. RequestNotQueued([q EXCEPT !.phase = p])
    BY <1>0, <2>1 DEF RequestRecs, RequestNotQueued
  <2>4. RequestsNotQueued'
    BY <2>2, <2>3, OneRequestNotQueued
  <2> QED
    BY <1>11, <1>s, <2>4 DEF StartTee, CommitTee, pipelineVars
<1>12. CASE SaveTee(r)
  <2>1. q.snap.state = "failed" /\ q.feed.processed /\ NotQueued(q.snap)
    BY <1>0, <1>12 DEF SaveTee, RequestNotQueued
  <2>2. NotQueued(Teed(q.snap, q.feed))
    BY <1>0, <2>1, WritesNotQueued
  <2>3. RowsNotQueued' /\ UNCHANGED job
    BY <1>0, <1>12, <2>2, OneRowNotQueued DEF SaveTee
  <2>4. RequestsNotQueued'
    BY <1>2, <1>12 DEF SaveTee
  <2> QED
    BY <2>3, <2>4 DEF JobsNotQueued
<1> QED
  BY <1>3, <1>4, <1>5, <1>6, <1>7, <1>8, <1>9, <1>10, <1>11, <1>12 DEF RequestStep, ServeStep

LEMMA AdminStepNotQueued ==
    ASSUME PipelineSound, MaintenanceSound, RowsNotQueued, AdminsNotQueued,
           NEW a \in Admins, ChangeSettings(a) \/ AskToQueue(a) \/ AdminStep(a)
    PROVE  RowsNotQueued' /\ AdminsNotQueued'
<1> DEFINE q == admin[a]
<1>0. /\ q \in AdminRecs /\ q.copy \in [Episodes -> SoundRows]
      /\ \A e \in Episodes : NotQueued(q.copy[e]) /\ NotQueued(row[e])
      /\ admin \in [Admins -> AdminRecs] /\ row \in [Episodes -> SoundRows] /\ NotQueued(NoCopy)
  BY IdleNotQueued DEF MaintenanceSound, SoundAdmins, AdminsNotQueued, RowsNotQueued, PipelineSound
<1>1. ASSUME NEW new, admin' = [admin EXCEPT ![a] = new], \A e \in Episodes : NotQueued(new.copy[e])
      PROVE  AdminsNotQueued'
  BY <1>0, <1>1 DEF AdminsNotQueued
<1>2. ASSUME NEW new, new.copy = q.copy, admin' = [admin EXCEPT ![a] = new], UNCHANGED row
      PROVE  RowsNotQueued' /\ AdminsNotQueued'
  BY <1>0, <1>1, <1>2 DEF RowsNotQueued
<1>3. \A e \in Episodes : NotQueued(AdminIdle.copy[e])
  BY <1>0 DEF AdminIdle
<1>4. ASSUME NEW c, NotQueued(c), NEW e \in Episodes
      PROVE  \A x \in Episodes : NotQueued([q.copy EXCEPT ![e] = c][x])
  BY <1>0, <1>4
<1>5. CASE ChangeSettings(a) \/ AskToQueue(a)
  <2>1. \E new : new.copy = q.copy /\ admin' = [admin EXCEPT ![a] = new]
    <3>1. CASE ChangeSettings(a)
      <4>1. admin' = [admin EXCEPT ![a] = [q EXCEPT !.phase = "list"]]
        BY <1>0, <3>1 DEF ChangeSettings
      <4>2. [q EXCEPT !.phase = "list"].copy = q.copy
        BY <1>0 DEF AdminRecs
      <4> QED
        BY <4>1, <4>2
    <3>2. CASE AskToQueue(a)
      <4>1. PICK kind, targets :
               admin' = [admin EXCEPT ![a].phase = "pick", ![a].todo = targets, ![a].kind = kind]
        BY <3>2 DEF AskToQueue
      <4>2. admin' = [admin EXCEPT ![a] = [q EXCEPT !.phase = "pick", !.todo = targets, !.kind = kind]]
        BY <1>0, <4>1
      <4>3. [q EXCEPT !.phase = "pick", !.todo = targets, !.kind = kind].copy = q.copy
        BY <1>0 DEF AdminRecs
      <4> QED
        BY <4>2, <4>3
    <3> QED
      BY <1>5, <3>1, <3>2
  <2>2. UNCHANGED row
    BY <1>5 DEF ChangeSettings, AskToQueue, pipelineVars
  <2> QED
    BY <1>2, <2>1, <2>2
<1>6. CASE ReconcileList(a)
  <2>1. UNCHANGED row /\ \A b \in Admins : admin'[b].copy \in {admin[b].copy, row}
    BY <1>0, <1>6 DEF ReconcileList, pipelineVars, AdminRecs
  <2> QED
    BY <1>0, <2>1 DEF RowsNotQueued, AdminsNotQueued
<1>7. CASE ReconcileEnd(a)
  <2> DEFINE pick == [AdminIdle EXCEPT !.phase = "pick", !.todo = Episodes]
             new == IF q.feed.ahead THEN pick ELSE AdminIdle
  <2>1. UNCHANGED row /\ admin' = [admin EXCEPT ![a] = new]
    BY <1>7 DEF ReconcileEnd, pipelineVars
  <2>2. pick.copy = AdminIdle.copy
    BY DEF AdminIdle
  <2> HIDE DEF pick
  <2>3. \A e \in Episodes : NotQueued(new.copy[e])
    BY <1>3, <2>2
  <2> HIDE DEF new
  <2>4. AdminsNotQueued'
    BY <1>1, <2>1, <2>3
  <2> QED
    BY <2>1, <2>4 DEF RowsNotQueued
<1>8. CASE PickToQueue(a)
  <2> DEFINE ids == {e \in q.todo : ~preparing(e) /\ ~hidden[e]}
             apply == [q EXCEPT !.phase = "apply", !.todo = ids]
             new == IF Prepares(feed) /\ ids # {} THEN apply ELSE AdminIdle
  <2>1. UNCHANGED row /\ admin' = [admin EXCEPT ![a] = new]
    BY <1>8 DEF PickToQueue, pipelineVars
  <2> HIDE DEF ids
  <2>2. apply.copy = q.copy
    BY <1>0 DEF AdminRecs
  <2> HIDE DEF apply
  <2>3. \A e \in Episodes : NotQueued(new.copy[e])
    BY <1>0, <1>3, <2>2
  <2> HIDE DEF new
  <2>4. AdminsNotQueued'
    BY <1>1, <2>1, <2>3
  <2> QED
    BY <2>1, <2>4 DEF RowsNotQueued
<1>9. CASE ApplyQueue(a)
  <2>1. \A e \in Episodes : row'[e] \in {row[e], QueuedFailed(row[e]), QueuedUncached(row[e])}
    BY <1>9 DEF ApplyQueue
  <2>2. feed \in FeedSettings
    BY FeedType
  <2>3. RowsNotQueued'
    BY <1>0, <2>1, <2>2, WritesNotQueued DEF RowsNotQueued
  <2>4. admin' = [admin EXCEPT ![a] = AdminIdle]
    BY <1>9 DEF ApplyQueue
  <2> QED
    BY <1>1, <1>3, <2>3, <2>4
<1>10. ASSUME NEW e \in Episodes, ReconcileSkip(a, e) PROVE RowsNotQueued' /\ AdminsNotQueued'
  <2> DEFINE new == [q EXCEPT !.todo = q.todo \ {e}, !.copy = [q.copy EXCEPT ![e] = NoCopy]]
  <2>1. UNCHANGED row /\ admin' = [admin EXCEPT ![a] = new]
    BY <1>0, <1>10 DEF ReconcileSkip, pipelineVars
  <2>2. new.copy = [q.copy EXCEPT ![e] = NoCopy]
    BY <1>0 DEF AdminRecs
  <2> HIDE DEF new
  <2>3. AdminsNotQueued'
    BY <1>0, <1>1, <1>4, <2>1, <2>2
  <2> QED
    BY <2>1, <2>3 DEF RowsNotQueued
<1>11. ASSUME NEW e \in Episodes, ReconcileEpisode(a, e) PROVE RowsNotQueued' /\ AdminsNotQueued'
  <2> DEFINE c == Reconciled(q.copy[e], q.feed)
             new == [q EXCEPT !.phase = "save", !.copy = [q.copy EXCEPT ![e] = c]]
  <2>1. UNCHANGED row /\ admin' = [admin EXCEPT ![a] = new]
    BY <1>0, <1>11 DEF ReconcileEpisode
  <2>2. new.copy = [q.copy EXCEPT ![e] = c]
    BY <1>0 DEF AdminRecs
  <2>3. NotQueued(c)
    BY <1>0, WritesNotQueued DEF AdminRecs
  <2> HIDE DEF new, c
  <2>4. AdminsNotQueued'
    BY <1>0, <1>1, <1>4, <2>1, <2>2, <2>3
  <2> QED
    BY <2>1, <2>4 DEF RowsNotQueued
<1>12. ASSUME NEW e \in Episodes, ReconcileSave(a, e) PROVE RowsNotQueued' /\ AdminsNotQueued'
  <2> DEFINE new == [q EXCEPT !.phase = "each", !.todo = q.todo \ {e},
                              !.copy = [q.copy EXCEPT ![e] = NoCopy]]
  <2>1. row' = [row EXCEPT ![e] = q.copy[e]] /\ admin' = [admin EXCEPT ![a] = new]
    BY <1>0, <1>12 DEF ReconcileSave
  <2>2. new.copy = [q.copy EXCEPT ![e] = NoCopy]
    BY <1>0 DEF AdminRecs
  <2> HIDE DEF new
  <2>3. AdminsNotQueued'
    BY <1>0, <1>1, <1>4, <2>1, <2>2
  <2> QED
    BY <1>0, <2>1, <2>3, OneRowNotQueued
<1> QED
  BY <1>5, <1>6, <1>7, <1>9, <1>10, <1>11, <1>12, <1>8 DEF AdminStep

LEMMA HousekeeperNotQueued ==
    ASSUME PipelineSound, MaintenanceSound, RowsNotQueued, SweepNotQueued,
           \/ SweepRemove \/ SweepSave
           \/ \E e \in Episodes : SweepList(e) \/ RemoveOrphan(e) \/ Hide(e) \/ Show(e)
    PROVE  RowsNotQueued' /\ SweepNotQueued'
<1>0. /\ sweep \in SweepRecs /\ sweep.copy \in SoundRows /\ sweep.ep \in Episodes
      /\ NotQueued(sweep.copy) /\ feed \in FeedSettings
  BY FeedType DEF MaintenanceSound, SoundSweeps, SweepRecs, SweepNotQueued
<1>1. CASE SweepSave
  <2>1. NotQueued(ForgetCache(sweep.copy))
    BY <1>0, WritesNotQueued
  <2>2. RowsNotQueued'
    BY <1>0, <1>1, <2>1, OneRowNotQueued DEF SweepSave
  <2> QED
    BY <1>1, <2>2, IdleNotQueued DEF SweepSave, SweepIdle, SweepNotQueued
<1>2. ASSUME NEW e \in Episodes, SweepList(e) PROVE RowsNotQueued' /\ SweepNotQueued'
  BY <1>2 DEF SweepList, RowsNotQueued, SweepNotQueued, pipelineVars
<1>3. ASSUME \/ SweepRemove \/ \E e \in Episodes : RemoveOrphan(e) \/ Hide(e) PROVE RowsNotQueued' /\ SweepNotQueued'
  <2>1. UNCHANGED row /\ sweep'.copy = sweep.copy
    BY <1>0, <1>3 DEF SweepRemove, RemoveOrphan, Hide, maintenanceVars, SweepRecs
  <2> QED
    BY <2>1 DEF RowsNotQueued, SweepNotQueued
<1>4. ASSUME NEW e \in Episodes, Show(e) PROVE RowsNotQueued' /\ SweepNotQueued'
  <2> DEFINE next == IF Prepares(feed) /\ feed.ahead /\ ~row[e].cached THEN "due" ELSE "none"
             r == [row[e] EXCEPT !.backlog = TRUE, !.state = "ready", !.next = next]
  <2>1. /\ \/ UNCHANGED row
           \/ row' = [row EXCEPT ![e] = r]
        /\ UNCHANGED sweep
    BY <1>4 DEF Show, PipelineSound, maintenanceVars
  <2>2. NotQueued(r)
    <3>1. row[e] \in Rows
      BY DEF PipelineSound, SoundRows
    <3>2. r.cached = row[e].cached /\ r.next = next
      BY <3>1 DEF Rows
    <3> QED
      BY <3>2 DEF NotQueued, HasFile
  <2> HIDE DEF r
  <2> QED
    BY <2>1, <2>2, OneRowNotQueued DEF RowsNotQueued, SweepNotQueued
<1> QED
  BY <1>1, <1>2, <1>3, <1>4

(* The end of the process, and its start under any settings.               *)
LEMMA StopNotQueued ==
    ASSUME RowsNotQueued, StopProcess
    PROVE  CopiesNotQueued'
<1>1. ForgetMemory /\ UNCHANGED row /\ job' = NoJobs
  BY DEF StopProcess, Stopped, Crash
<1>2. AdminIdle.copy = [e \in Episodes |-> NoCopy] /\ SweepIdle.copy = NoCopy
  BY DEF AdminIdle, SweepIdle
<1> QED
  BY <1>1, <1>2, IdleNotQueued DEF ForgetMemory, NoJobs, CopiesNotQueued, RowsNotQueued, JobsNotQueued,
     AdminsNotQueued, SweepNotQueued, RequestsNotQueued

LEMMA StartNotQueued ==
    ASSUME PipelineSound, CopiesNotQueued, StartProcess
    PROVE  CopiesNotQueued'
<1>1. PICK s \in FeedSettings : Restart(s) /\ UNCHANGED <<admin, sweep, request>>
  BY FeedType, SettingsType DEF StartProcess, maintenanceVars
<1>2. ASSUME NEW e \in Episodes PROVE NotQueued(row'[e])
  <2> DEFINE r == Reconciled(Recovered(row[e]), s)
  <2>1. row[e] \in SoundRows /\ NotQueued(row[e])
    BY DEF PipelineSound, CopiesNotQueued, RowsNotQueued
  <2>2. Recovered(row[e]) \in SoundRows /\ NotQueued(Recovered(row[e]))
    BY <2>1, RecoveredSound, WritesNotQueued
  <2>3. NotQueued(r) /\ r \in SoundRows
    BY <2>2, ReconciledSound, WritesNotQueued DEF SoundRows
  <2>4. row'[e] \in {r, QueuedUncached(r)}
    BY <1>1 DEF Restart
  <2> HIDE DEF r
  <2> QED
    BY <2>3, <2>4, WritesNotQueued
<1>3. UNCHANGED job
  BY <1>1 DEF Restart
<1> QED
  BY <1>1, <1>2, <1>3 DEF CopiesNotQueued, RowsNotQueued, JobsNotQueued, AdminsNotQueued, SweepNotQueued,
     RequestsNotQueued

LEMMA NextNotQueued ==
    ASSUME NoTees, CopiesSound, CopiesNotQueued, [Next]_vars
    PROVE  CopiesNotQueued'
<1>1. /\ PipelineSound /\ MaintenanceSound /\ ServerSound
      /\ RowsNotQueued /\ JobsNotQueued /\ AdminsNotQueued /\ SweepNotQueued /\ RequestsNotQueued
      /\ UNCHANGED job => JobsNotQueued' 
      /\ UNCHANGED admin => AdminsNotQueued'
      /\ UNCHANGED sweep => SweepNotQueued'
      /\ UNCHANGED request => RequestsNotQueued'
      /\ UNCHANGED row => RowsNotQueued'
  BY DEF CopiesSound, CopiesNotQueued, RowsNotQueued, JobsNotQueued, AdminsNotQueued, SweepNotQueued,
     RequestsNotQueued
<1>2. ASSUME RowsNotQueued', JobsNotQueued', AdminsNotQueued', SweepNotQueued', RequestsNotQueued'
      PROVE  CopiesNotQueued'
  BY <1>2 DEF CopiesNotQueued
<1>3. ASSUME NEW w \in Workers, WorkerStep(w), UNCHANGED <<maintenanceVars, request>>
      PROVE  CopiesNotQueued'
  BY <1>1, <1>2, <1>3, WorkerStepNotQueued DEF maintenanceVars
<1>4. ASSUME NEW e \in Episodes,
             \/ \E o \in Owners : JobStep(o, e)
             \/ TakeSlot(e) \/ ComeDue(e),
             UNCHANGED <<maintenanceVars, request>>
      PROVE  CopiesNotQueued'
  BY <1>1, <1>2, <1>4, JobStepNotQueued DEF maintenanceVars
<1>5. ASSUME NEW o \in Owners, NEW e \in Episodes, EndJob(o, e) PROVE CopiesNotQueued'
  <2>1. EndFlight(o, e) /\ WakeWaiting(e) /\ UNCHANGED maintenanceVars
    BY <1>5 DEF EndJob
  <2>2. RequestsNotQueued'
    <3>1. ASSUME NEW r \in Requests PROVE RequestNotQueued(request'[r])
      <4>1. request[r] \in RequestRecs /\ RequestNotQueued(request[r])
        BY <1>1 DEF ServerSound, SoundRequests, RequestsNotQueued
      <4>2. RequestNotQueued([request[r] EXCEPT !.phase = "woken"])
        BY <4>1 DEF RequestRecs, RequestNotQueued
      <4> QED
        BY <2>1, <4>1, <4>2 DEF WakeWaiting
    <3> QED
      BY <3>1 DEF RequestsNotQueued
  <2> QED
    BY <1>1, <1>2, <2>1, <2>2, JobStepNotQueued DEF maintenanceVars
<1>6. ASSUME NEW r \in Requests, NEW e \in Episodes, Ask(r, e), UNCHANGED maintenanceVars
      PROVE  CopiesNotQueued'
  <2> DEFINE q == [RequestIdle EXCEPT !.phase = "feed", !.ep = e, !.snap = row[e], !.asked = feed]
  <2>1. request' = [request EXCEPT ![r] = q] /\ UNCHANGED <<row, job>>
    BY <1>6 DEF Ask, pipelineVars
  <2>2. q.phase = "feed" /\ q.snap = row[e] /\ q.feed = Idle.feed
    BY DEF RequestIdle
  <2> HIDE DEF q
  <2>3. RequestNotQueued(q)
    BY <1>1, <2>2, IdleNotQueued DEF RequestNotQueued, RowsNotQueued
  <2> QED
    BY <1>1, <1>2, <1>6, <2>1, <2>3, OneRequestNotQueued DEF maintenanceVars
<1>7. ASSUME NEW r \in Requests, RequestStep(r), UNCHANGED maintenanceVars PROVE CopiesNotQueued'
  BY <1>1, <1>2, <1>7, RequestStepNotQueued DEF maintenanceVars
<1>8. ASSUME NEW a \in Admins, ChangeSettings(a) \/ AskToQueue(a) \/ AdminStep(a), UNCHANGED request
      PROVE  CopiesNotQueued'
  <2>1. UNCHANGED <<job, sweep>>
    BY <1>8 DEF ChangeSettings, AskToQueue, AdminStep, ReconcileList, ReconcileEnd, PickToQueue,
       ApplyQueue, ReconcileSkip, ReconcileEpisode, ReconcileSave, pipelineVars
  <2> QED
    BY <1>1, <1>2, <1>8, <2>1, AdminStepNotQueued
<1>9. ASSUME \/ SweepRemove \/ SweepSave
             \/ \E e \in Episodes : SweepList(e) \/ RemoveOrphan(e) \/ Hide(e) \/ Show(e),
             UNCHANGED request
      PROVE  CopiesNotQueued'
  <2>1. UNCHANGED <<job, admin>>
    BY <1>9 DEF SweepRemove, SweepSave, SweepList, RemoveOrphan, Hide, Show, pipelineVars,
       maintenanceVars
  <2> QED
    BY <1>1, <1>2, <1>9, <2>1, HousekeeperNotQueued
<1>10. ASSUME (Shutdown /\ UNCHANGED <<maintenanceVars, request>>) \/ UNCHANGED vars
       PROVE  CopiesNotQueued'
  BY <1>1, <1>2, <1>10 DEF Shutdown, vars, pipelineVars, maintenanceVars
<1>11. ASSUME StopProcess \/ StartProcess PROVE CopiesNotQueued'
  BY <1>1, <1>11, StopNotQueued, StartNotQueued DEF CopiesNotQueued
<1> QED
  BY <1>3, <1>4, <1>5, <1>6, <1>7, <1>8, <1>9, <1>10, <1>11 DEF Next

(* A ready episode of a processed feed that has its file has no attempt    *)
(* time: no command, however old its list, no rule and no late save queues *)
(* one that is prepared.  So with unchanged settings; and, if none of the  *)
(* settings keeps streams of unprocessed episodes, with any changes.       *)
THEOREM FiledNeverQueued ==
    ASSUME MaxChanges = 0 \/ NoTees
    PROVE  Spec => []FiledNotQueued
<1>1. CASE MaxChanges = 0
  <2>1. CopiesSound /\ SettingsKept => FiledNotQueued
    BY <1>1 DEF CopiesSound, MaintenanceSound, SettingsKept, AllKept, PipelineKept, RowsKept, Kept,
       FiledNotQueued
  <2> QED
    BY <2>1, CopiesAlwaysSound, SettingsAlwaysKept, PTL
<1>2. CASE NoTees
  <2>1. ASSUME Init PROVE CopiesNotQueued
    <3>1. \A s \in {"discovered", "ready"}, b \in BOOLEAN : NotQueued(NewRow(s, b))
      BY DEF NewRow, NotQueued, HasFile
    <3>2. RowsNotQueued
      <4>1. ASSUME NEW e \in Episodes
            PROVE  \E s \in {"discovered", "ready"} : row[e] = NewRow(s, e \in Backlog)
        BY <2>1 DEF Init, PipelineInit
      <4>2. \A e \in Episodes : (e \in Backlog) \in BOOLEAN
        OBVIOUS
      <4> QED
        BY <3>1, <4>1, <4>2 DEF RowsNotQueued
    <3>3. AdminIdle.copy = [e \in Episodes |-> NoCopy] /\ SweepIdle.copy = NoCopy
      BY DEF AdminIdle, SweepIdle
    <3> QED
      BY <2>1, <3>2, <3>3, IdleNotQueued DEF Init, PipelineInit, MaintenanceInit, ServerInit,
         CopiesNotQueued, JobsNotQueued, AdminsNotQueued, SweepNotQueued, RequestsNotQueued
  <2>2. CopiesSound /\ CopiesNotQueued /\ [Next]_vars => CopiesNotQueued'
    BY <1>2, NextNotQueued
  <2>3. CopiesNotQueued => FiledNotQueued
    BY DEF CopiesNotQueued, RowsNotQueued, NotQueued, FiledNotQueued
  <2> QED
    BY <2>1, <2>2, <2>3, CopiesAlwaysSound, PTL DEF Spec
<1> QED
  BY <1>1, <1>2
=============================================================================
