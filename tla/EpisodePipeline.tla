--------------------------- MODULE EpisodePipeline ---------------------------
(***************************************************************************)
(* The pipeline that prepares episodes into the cache: workers claiming    *)
(* rows, jobs started on a client's request, the registry of episodes in   *)
(* flight that keeps them apart, and the rows and files they leave.        *)
(*                                                                         *)
(* Each job holds a copy of its row, taken when it claimed the episode and *)
(* written back whole when it records its outcome (UpdateEpisode), and a   *)
(* copy of the feed's settings.  One feed; its episodes are numbered from  *)
(* the oldest.                                                             *)
(***************************************************************************)
EXTENDS EpisodeRow

CONSTANTS
    Episodes,         \* the feed's episodes, oldest first
    Backlog,          \* those that were there when the feed was added
    Workers,          \* Options.Workers background workers
    RequestWorkers,   \* cap(requestSlots)
    Settings,         \* the settings the feed may be given
    BatchSize,        \* what BatchSize offers; below 2, no batching
    DbFaults,         \* whether a database call of a job may fail
    LeaseOutlasts     \* whether queueLease outlasts every attempt, as its comment says

Listener == "request"     \* owns the jobs that Prepare starts
NoOwner  == "nobody"
Owners   == Workers \cup {Listener}

ASSUME PipelineAssumption ==
    /\ Episodes \subseteq Nat /\ Episodes # {}
    /\ Backlog \subseteq Episodes
    /\ RequestWorkers \in Nat \ {0}
    /\ Settings \subseteq FeedSettings /\ Settings # {}
    /\ BatchSize \in Nat
    /\ DbFaults \in BOOLEAN /\ LeaseOutlasts \in BOOLEAN
    /\ Listener \notin Workers /\ NoOwner \notin Owners
    /\ NoVariant \notin Variants

VARIABLES
    row,        \* the episodes table, without the columns UpdateEpisode leaves alone
    hidden,     \* hidden by a rule, or dropped by the source
    disk,       \* the file at each episode's path in the cache
    feed,       \* the feed's settings in the database
    inFlight,   \* Pipeline.inFlight: who is preparing each episode
    job,        \* what each owner is doing about each episode
    life        \* "up", "stopping" (the context is cancelled) or "down"

pipelineVars == <<row, hidden, disk, feed, inFlight, job, life>>

Phases == {"idle", "claimed", "started", "batch", "joining", "joined",
           "slot", "working", "record", "over"}

Outcomes == {"pending", "ok", "error", "permanent"}

JobRecs ==
    [ phase      : Phases,
      snap       : Rows,          \* the row as claimed
      feed       : FeedSettings,  \* the settings the job runs with
      processing : BOOLEAN,       \* the processor runs, rather than a download
      made       : Outcomes ]

(* A job not running; its copies mean nothing and are fixed.               *)
Idle ==
    [ phase |-> "idle", snap |-> NewRow("ready", FALSE), feed |-> CHOOSE s \in Settings : TRUE,
      processing |-> FALSE, made |-> "pending" ]

(* A job that has recorded its outcome, or never will; still registered.   *)
Over == [Idle EXCEPT !.phase = "over"]

NewJob(phase, snap, f, processing) ==
    [ phase |-> phase, snap |-> snap, feed |-> f, processing |-> processing,
      made |-> "pending" ]

(* Registered in inFlight: from startFlight to endFlight.                  *)
Registered == {"started", "batch", "joined", "slot", "working", "record", "over"}

(* Will still record an outcome on its row.                                *)
Unrecorded == {"claimed", "started", "batch", "joining", "joined", "slot", "working", "record"}

(* Mutant: only the jobs that requests started are looked up.              *)
preparingOnRequest(e) == inFlight[e] = Listener

preparing(e) == inFlight[e] # NoOwner

Free(w) == \A e \in Episodes : job[w][e].phase = "idle"

(* As subscribing and polling leave it: new episodes wait if the feed's    *)
(* episodes are prepared.  Of the backlog all wait if the feed prepares    *)
(* ahead, and if a processor handles it the newest few may.                *)
PipelineInit ==
    /\ feed \in Settings
    /\ \E waiting \in SUBSET Backlog :
          /\ feed.ahead /\ Prepares(feed) => waiting = Backlog
          /\ waiting = {} \/ feed.processed \/ (feed.ahead /\ Prepares(feed))
          /\ \A e \in waiting, older \in Backlog \ waiting : e > older
          /\ row = [e \in Episodes |->
                NewRow(IF e \in waiting \/ (e \notin Backlog /\ Prepares(feed))
                       THEN "discovered" ELSE "ready", e \in Backlog)]
    /\ hidden = [e \in Episodes |-> FALSE]
    /\ disk = [e \in Episodes |-> NoAudio]
    /\ inFlight = [e \in Episodes |-> NoOwner]
    /\ job = [o \in Owners |-> [e \in Episodes |-> Idle]]
    /\ life = "up"

-----------------------------------------------------------------------------
(* Workers: ProcessNext.                                                   *)

(* Episodes ClaimNextEpisode would take, of a feed preparedFeeds keeps.    *)
NewWork == {e \in Episodes : Prepares(feed) /\ ~hidden[e] /\ WaitingForFirst(row[e])}

QueuedWork == {e \in Episodes : Prepares(feed) /\ ~hidden[e] /\ QueuedAndDue(row[e])}

(* Mutant: a claim marks the episode "processing", a state of              *)
(* models.EpisodeState that nothing else in the pipeline knows.            *)
ClaimNextEpisodeAsProcessing(w) ==
    /\ life = "up" /\ Free(w)
    /\ \E e \in NewWork :
          /\ \A other \in NewWork : e <= other
          /\ row' = [row EXCEPT ![e].state = "processing"]
          /\ job' = [job EXCEPT ![w][e] =
                        NewJob("claimed", [row[e] EXCEPT !.state = "processing"], Idle.feed, FALSE)]
    /\ UNCHANGED <<hidden, disk, feed, inFlight, life>>

(* The oldest waiting episode, marked acquiring in the same transaction.   *)
ClaimNextEpisode(w) ==
    /\ life = "up" /\ Free(w)
    /\ \E e \in NewWork :
          /\ \A other \in NewWork : e <= other
          /\ row' = [row EXCEPT ![e].state = "acquiring"]
          /\ job' = [job EXCEPT ![w][e] =
                        NewJob("claimed", [row[e] EXCEPT !.state = "acquiring"], Idle.feed, FALSE)]
    /\ UNCHANGED <<hidden, disk, feed, inFlight, life>>

(* When nothing new waits: a queued one, claimed by moving its attempt     *)
(* time on to the lease.  The state stays.  Which of several queued ones   *)
(* has waited longest is left open.                                        *)
ClaimQueuedEpisode(w) ==
    /\ life = "up" /\ Free(w) /\ NewWork = {}
    /\ \E e \in QueuedWork :
          /\ row' = [row EXCEPT ![e].next = "later"]
          /\ job' = [job EXCEPT ![w][e] =
                        NewJob("claimed", [row[e] EXCEPT !.next = "later"], Idle.feed, FALSE)]
    /\ UNCHANGED <<hidden, disk, feed, inFlight, life>>

(* startFlight: registers, or leaves the episode to the job that has it.   *)
StartFlight(w, e) ==
    /\ job[w][e].phase = "claimed"
    /\ \/ /\ ~preparing(e)
          /\ inFlight' = [inFlight EXCEPT ![e] = w]
          /\ job' = [job EXCEPT ![w][e].phase = "started"]
       \/ /\ preparing(e)
          /\ job' = [job EXCEPT ![w][e] = Idle]
          /\ UNCHANGED inFlight
    /\ UNCHANGED <<row, hidden, disk, feed, life>>

(* GetFeed, and whether a queued episode is prepared in a batch: BatchSize *)
(* looks at the feed's exits, not at whether the processor handles it.     *)
LoadFeed(w, e) ==
    /\ life = "up" /\ job[w][e].phase = "started"
    /\ LET batched == BatchSize > 1 /\ job[w][e].snap.state # "acquiring"
       IN  job' = [job EXCEPT ![w][e] =
                      [@ EXCEPT !.phase = IF batched THEN "batch" ELSE "working",
                                !.feed = feed, !.processing = batched \/ feed.processed]]
    /\ UNCHANGED <<row, hidden, disk, feed, inFlight, life>>

(* prepareBatch claims the rest of its batch in one transaction, the       *)
(* newest first, whatever the feed's settings say by now.                  *)
ClaimQueuedEpisodesForFeed(w, first) ==
    /\ life = "up" /\ job[w][first].phase = "batch"
    /\ LET due == {e \in Episodes \ {first} : ~hidden[e] /\ QueuedAndDue(row[e])}
       IN  \E more \in SUBSET due :
              /\ Cardinality(more) <= BatchSize - 1
              /\ more # due => Cardinality(more) = BatchSize - 1
              /\ \A e \in more, other \in due \ more : e > other
              /\ row' = [e \in Episodes |-> IF e \in more THEN [row[e] EXCEPT !.next = "later"]
                                                          ELSE row[e]]
              /\ job' = [job EXCEPT ![w] = [e \in Episodes |->
                            IF e \in more
                            THEN NewJob("joining", [row[e] EXCEPT !.next = "later"],
                                        job[w][first].feed, TRUE)
                            ELSE IF e = first THEN [job[w][e] EXCEPT !.phase = "joined"]
                            ELSE job[w][e]]]
    /\ UNCHANGED <<hidden, disk, feed, inFlight, life>>

(* One claimed by a request in the meantime is left out of the batch.      *)
JoinBatch(w, e) ==
    /\ job[w][e].phase = "joining"
    /\ \/ /\ ~preparing(e)
          /\ inFlight' = [inFlight EXCEPT ![e] = w]
          /\ job' = [job EXCEPT ![w][e].phase = "joined"]
       \/ /\ preparing(e)
          /\ job' = [job EXCEPT ![w][e] = Idle]
          /\ UNCHANGED inFlight
    /\ UNCHANGED <<row, hidden, disk, feed, life>>

RunBatch(w) ==
    /\ \E e \in Episodes : job[w][e].phase = "joined"
    /\ \A e \in Episodes : job[w][e].phase \in {"idle", "joined"}
    /\ job' = [job EXCEPT ![w] = [e \in Episodes |->
                  IF job[w][e].phase = "joined" THEN [job[w][e] EXCEPT !.phase = "working"]
                                                ELSE job[w][e]]]
    /\ UNCHANGED <<row, hidden, disk, feed, inFlight, life>>

-----------------------------------------------------------------------------
(* Work on request: Prepare, called with the caller's copies of the        *)
(* episode and the feed.                                                   *)

PrepareJoins(e) == preparing(e)

PrepareBusy(e, snap) ==
    /\ ~preparing(e)
    /\ \/ life # "up"
       \/ snap.state \in {"acquiring", "failed"}
       \/ snap.state = "discovered" /\ row[e].state # "discovered"

(* A ready episode is prepared from the caller's copy; a discovered one is *)
(* claimed and read again, whatever its retry time.                        *)
PrepareStarts(e, snap, f) ==
    /\ ~preparing(e) /\ life = "up"
    /\ inFlight' = [inFlight EXCEPT ![e] = Listener]
    /\ \/ /\ snap.state = "ready"
          /\ job' = [job EXCEPT ![Listener][e] = NewJob("slot", snap, f, f.processed)]
          /\ UNCHANGED row
       \/ /\ snap.state = "discovered" /\ row[e].state = "discovered"
          /\ row' = [row EXCEPT ![e].state = "acquiring"]
          /\ job' = [job EXCEPT ![Listener][e] =
                        NewJob("slot", [row[e] EXCEPT !.state = "acquiring"], f, f.processed)]
    /\ UNCHANGED <<hidden, disk, feed, life>>

SlotsTaken == {e \in Episodes : job[Listener][e].phase \in {"working", "record"}}

TakeSlot(e) ==
    /\ job[Listener][e].phase = "slot"
    /\ Cardinality(SlotsTaken) < RequestWorkers
    /\ job' = [job EXCEPT ![Listener][e].phase = "working"]
    /\ UNCHANGED <<row, hidden, disk, feed, inFlight, life>>

-----------------------------------------------------------------------------
(* Any job: the attempt, its outcome, the end of the flight.               *)

(* The attempt ends; the cache renames a finished file into place.         *)
Attempt(o, e) ==
    /\ job[o][e].phase = "working"
    /\ \E outcome \in Outcomes \ {"pending"} :
          /\ job' = [job EXCEPT ![o][e].phase = "record", ![o][e].made = outcome]
          /\ disk' = IF outcome = "ok"
                     THEN [disk EXCEPT ![e] =
                             [by |-> IF job[o][e].processing THEN "processor" ELSE "download",
                              with |-> job[o][e].feed.with]]
                     ELSE disk
    /\ UNCHANGED <<row, hidden, feed, inFlight, life>>

(* Mutant: the outcome is labelled with the settings of now, not those the *)
(* attempt ran with.                                                       *)
OutcomeRowOfNow(j) ==
    IF j.made = "ok" THEN Succeeded(j.snap, feed, j.processing)
                     ELSE Failure(j.snap, feed, j.processing, j.made = "permanent")

OutcomeRow(j) ==
    IF j.made = "ok" THEN Succeeded(j.snap, j.feed, j.processing)
                     ELSE Failure(j.snap, j.feed, j.processing, j.made = "permanent")

(* recordOutcome writes the whole copy back, unless the context is done.   *)
RecordOutcome(o, e) ==
    /\ life = "up" /\ job[o][e].phase = "record"
    /\ row' = [row EXCEPT ![e] = OutcomeRow(job[o][e])]
    /\ job' = [job EXCEPT ![o][e] = Over]
    /\ UNCHANGED <<hidden, disk, feed, inFlight, life>>

(* Mutant: a worker whose feed cannot be read tries again instead of       *)
(* giving up.                                                              *)
AbandonJobOnceLoaded(o, e) ==
    /\ \/ life = "stopping" /\ job[o][e].phase \in {"batch", "joined", "slot", "working", "record"}
       \/ DbFaults /\ job[o][e].phase \in {"started", "batch", "record"}
    /\ job' = [job EXCEPT ![o][e] = Over]
    /\ UNCHANGED <<row, hidden, disk, feed, inFlight, life>>

(* A job that ends without recording: the context is cancelled, or a       *)
(* database call failed.  What it claimed stays claimed.                   *)
AbandonJob(o, e) ==
    /\ \/ life = "stopping" /\ job[o][e].phase \in {"started", "batch", "joined", "slot", "working", "record"}
       \/ DbFaults /\ job[o][e].phase \in {"started", "batch", "record"}
    /\ job' = [job EXCEPT ![o][e] = Over]
    /\ UNCHANGED <<row, hidden, disk, feed, inFlight, life>>

(* endFlight; a batch ends its flights together, after the last outcome.   *)
EndFlight(o, e) ==
    /\ job[o][e].phase = "over"
    /\ o \in Workers => \A x \in Episodes : job[o][x].phase \in {"idle", "over"}
    /\ inFlight' = [inFlight EXCEPT ![e] = IF @ = o THEN NoOwner ELSE @]
    /\ job' = [job EXCEPT ![o][e] = Idle]
    /\ UNCHANGED <<row, hidden, disk, feed, life>>

(* An attempt time comes.  Retry times are a minute or more away, so not   *)
(* between a job's save and its endFlight; a lease is three hours, which   *)
(* LeaseOutlasts takes to be longer than any job.                          *)
ComeDue(e) ==
    /\ row[e].next = "later"
    /\ \A o \in Owners : job[o][e].phase # "over"
    /\ LeaseOutlasts => \A o \in Owners : job[o][e].phase = "idle"
    /\ row' = [row EXCEPT ![e].next = "due"]
    /\ UNCHANGED <<hidden, disk, feed, inFlight, job, life>>

-----------------------------------------------------------------------------
(* Shutdown and restart.                                                   *)

Shutdown ==
    /\ life = "up"
    /\ life' = "stopping"
    /\ UNCHANGED <<row, hidden, disk, feed, inFlight, job>>

NoJobs == [o \in Owners |-> [e \in Episodes |-> Idle]]

(* Run has returned: every worker and every job on request has ended.      *)
Stopped ==
    /\ life = "stopping" /\ job = NoJobs
    /\ life' = "down"
    /\ UNCHANGED <<row, hidden, disk, feed, inFlight, job>>

(* The process dies.  Rows and files stay, the rest is memory.             *)
Crash ==
    /\ life # "down"
    /\ life' = "down"
    /\ inFlight' = [e \in Episodes |-> NoOwner]
    /\ job' = NoJobs
    /\ UNCHANGED <<row, hidden, disk, feed>>

(* Mutant: Recover leaves interrupted claims as they are.                  *)
NotRecovered(r) == r

(* Recover's rows: interrupted claims go back to waiting.                  *)
Recovered(r) == IF r.state = "acquiring" THEN [r EXCEPT !.state = "discovered"] ELSE r

(* Mutant: the condition is left to the list drawn up earlier.             *)
QueuedAnyway(r) == [r EXCEPT !.next = "due"]

(* QueueUncachedEpisodes on one row.                                       *)
QueuedUncached(r) == IF r.state = "ready" /\ ~r.cached THEN [r EXCEPT !.next = "due"] ELSE r

(* Start-up before anything else runs: Recover, Reconcile, and queueing    *)
(* what a feed prepared ahead lacks.  config.json may have changed.        *)
Restart(newFeed) ==
    /\ life = "down"
    /\ life' = "up"
    /\ feed' = newFeed
    /\ row' = [e \in Episodes |->
                 LET r == Reconciled(Recovered(row[e]), newFeed)
                 IN  IF newFeed.ahead /\ Prepares(newFeed) /\ ~hidden[e]
                     THEN QueuedUncached(r) ELSE r]
    /\ disk' = [e \in Episodes |->
                 IF DropsFile(Recovered(row[e]), newFeed) THEN NoAudio ELSE disk[e]]
    /\ UNCHANGED <<hidden, inFlight, job>>

(* The steps of the workers and of every job.                              *)
WorkerStep(w) ==
    \/ ClaimNextEpisode(w)
    \/ ClaimQueuedEpisode(w)
    \/ RunBatch(w)
    \/ \E e \in Episodes :
          \/ StartFlight(w, e)
          \/ LoadFeed(w, e)
          \/ ClaimQueuedEpisodesForFeed(w, e)
          \/ JoinBatch(w, e)

JobStep(o, e) == Attempt(o, e) \/ RecordOutcome(o, e) \/ AbandonJob(o, e)
=============================================================================
