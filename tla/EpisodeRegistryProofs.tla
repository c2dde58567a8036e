------------------------ MODULE EpisodeRegistryProofs ------------------------
(***************************************************************************)
(* Theorems about the registry of episodes in flight: it names exactly the *)
(* jobs that run, and whoever waits for a job waits for one in it.         *)
(*                                                                         *)
(* A batch is what makes this more than a lock per episode: it takes more  *)
(* episodes into a worker's hands, which is sound because the worker holds *)
(* only the first until then (OneAtATime).                                 *)
(***************************************************************************)
EXTENDS EpisodeSystemProofs

JobsTyped ==
    /\ inFlight \in [Episodes -> Owners \cup {NoOwner}]
    /\ job \in [Owners -> [Episodes -> JobRecs]]

(* Until its batch is claimed a worker has a single episode.               *)
Single == {"claimed", "started", "batch"}

OneAtATime ==
    \A w \in Workers, e \in Episodes :
        job[w][e].phase \in Single => \A x \in Episodes \ {e} : job[w][x].phase = "idle"

RegistrySound == RegistryMatchesJobs /\ OneAtATime

LEMMA CopiesTyped == CopiesSound => JobsTyped
BY DEF CopiesSound, PipelineSound, JobsTyped, JobTable, SoundJobs

LEMMA PhasesOfNewJobs == Idle.phase = "idle" /\ Over.phase = "over"
BY DEF Idle, Over

LEMMA ListenerIsNoWorker ==
    Listener \in Owners /\ Listener \notin Workers /\ NoOwner \notin Owners /\ Workers \subseteq Owners
BY PipelineAssumption DEF Owners

(* One job is replaced: it stays as registered as it was, joins the        *)
(* registry where nobody was, or leaves it.                                *)
LEMMA OneJobRegistry ==
    ASSUME JobsTyped, RegistryMatchesJobs, NEW o \in Owners, NEW e \in Episodes, NEW j,
           job' = [job EXCEPT ![o][e] = j],
           \/ /\ inFlight' = inFlight
              /\ j.phase \in Registered <=> job[o][e].phase \in Registered
           \/ /\ inFlight[e] = NoOwner
              /\ inFlight' = [inFlight EXCEPT ![e] = o]
              /\ j.phase \in Registered
           \/ /\ inFlight[e] = o
              /\ inFlight' = [inFlight EXCEPT ![e] = NoOwner]
              /\ j.phase \notin Registered
    PROVE  RegistryMatchesJobs'
<1> USE DEF JobsTyped, RegistryMatchesJobs
<1>1. ASSUME NEW x \in Episodes, NEW p \in Owners
      PROVE  job'[p][x] = IF p = o /\ x = e THEN j ELSE job[p][x]
  OBVIOUS
<1>2. ASSUME NEW x \in Episodes, NEW p \in Owners, p # o \/ x # e
      PROVE  inFlight'[x] = p <=> job'[p][x].phase \in Registered
  BY <1>1, <1>2, ListenerIsNoWorker
<1>3. inFlight'[e] = o <=> job'[o][e].phase \in Registered
  BY <1>1, ListenerIsNoWorker
<1> QED
  BY <1>2, <1>3

(* ... and a worker takes one in hand only when it holds no other.         *)
LEMMA OneJobSingle ==
    ASSUME JobsTyped, OneAtATime, NEW o \in Owners, NEW e \in Episodes, NEW j,
           job' = [job EXCEPT ![o][e] = j],
           \/ o \notin Workers
           \/ j.phase = "idle"
           \/ /\ job[o][e].phase \in Single
              /\ j.phase # "idle"
           \/ /\ job[o][e].phase # "idle"
              /\ j.phase \notin Single
           \/ \A x \in Episodes : job[o][x].phase = "idle"
    PROVE  OneAtATime'
<1> USE DEF JobsTyped, OneAtATime
<1>1. ASSUME NEW x \in Episodes, NEW w \in Workers
      PROVE  job'[w][x] = IF w = o /\ x = e THEN j ELSE job[w][x]
  BY ListenerIsNoWorker
<1>2. ASSUME NEW w \in Workers, NEW x \in Episodes, NEW y \in Episodes \ {x},
             job'[w][x].phase \in Single
      PROVE  job'[w][y].phase = "idle"
  <2>1. CASE w # o
    BY <1>1, <1>2, <2>1
  <2>2. CASE w = o
    BY <1>1, <1>2, <2>2 DEF Single
  <2> QED
    BY <2>1, <2>2
<1> QED
  BY <1>2

LEMMA InitRegistry == Init => RegistrySound
BY PhasesOfNewJobs, ListenerIsNoWorker
   DEF Init, PipelineInit, RegistrySound, RegistryMatchesJobs, OneAtATime, Registered, Single

LEMMA RegistryStutters ==
    ASSUME RegistrySound, UNCHANGED <<inFlight, job>>
    PROVE  RegistrySound'
BY DEF RegistrySound, RegistryMatchesJobs, OneAtATime

LEMMA WorkerStepRegistry ==
    ASSUME CopiesSound, RegistrySound, NEW w \in Workers, WorkerStep(w)
    PROVE  RegistrySound'
<1> USE ListenerIsNoWorker DEF RegistrySound
<1>0. JobsTyped /\ Idle.feed \in FeedSettings
      /\ \A e \in Episodes : /\ row[e] \in Rows
                             /\ [row[e] EXCEPT !.state = "acquiring"] \in Rows
                             /\ [row[e] EXCEPT !.next = "later"] \in Rows
  BY CopiesTyped, IdleSound, SettingsType
     DEF CopiesSound, PipelineSound, SoundRows, Rows, States, Times
<1>1. CASE ClaimNextEpisode(w) \/ ClaimQueuedEpisode(w)
  <2>1. PICK e \in Episodes, s \in Rows :
           job' = [job EXCEPT ![w][e] = NewJob("claimed", s, Idle.feed, FALSE)]
    BY <1>0, <1>1 DEF ClaimNextEpisode, ClaimQueuedEpisode, NewWork, QueuedWork
  <2>2. Free(w) /\ UNCHANGED inFlight
    BY <1>1 DEF ClaimNextEpisode, ClaimQueuedEpisode
  <2>3. NewJob("claimed", s, Idle.feed, FALSE).phase = "claimed"
    BY DEF NewJob
  <2>4. \A x \in Episodes : job[w][x].phase = "idle"
    BY <2>2 DEF Free
  <2> QED
    BY <1>0, <2>1, <2>2, <2>3, <2>4, OneJobRegistry, OneJobSingle DEF Registered
<1>2. CASE RunBatch(w)
  <2>1. /\ job' = [job EXCEPT ![w] = [e \in Episodes |->
               IF job[w][e].phase = "joined" THEN [job[w][e] EXCEPT !.phase = "working"]
                                             ELSE job[w][e]]]
        /\ UNCHANGED inFlight
    BY <1>2 DEF RunBatch
  <2>2. ASSUME NEW o \in Owners, NEW e \in Episodes
        PROVE  job'[o][e].phase = IF o = w /\ job[w][e].phase = "joined"
                                  THEN "working" ELSE job[o][e].phase
    BY <1>0, <2>1 DEF JobsTyped, JobRecs
  <2>3. RegistryMatchesJobs'
    BY <2>1, <2>2 DEF RegistryMatchesJobs, Registered
  <2>4. OneAtATime'
    BY <2>2 DEF OneAtATime, Single
  <2> QED
    BY <2>3, <2>4
<1>3. ASSUME NEW e \in Episodes, StartFlight(w, e) \/ JoinBatch(w, e)
      PROVE  RegistrySound'
  <2>1. ASSUME NEW p \in {"started", "joined"}
        PROVE  [job[w][e] EXCEPT !.phase = p].phase = p
    BY <1>0 DEF JobsTyped, JobRecs
  <2>2. CASE /\ inFlight[e] = NoOwner
             /\ inFlight' = [inFlight EXCEPT ![e] = w]
             /\ \/ /\ job[w][e].phase = "claimed"
                   /\ job' = [job EXCEPT ![w][e] = [job[w][e] EXCEPT !.phase = "started"]]
                \/ /\ job[w][e].phase = "joining"
                   /\ job' = [job EXCEPT ![w][e] = [job[w][e] EXCEPT !.phase = "joined"]]
    <3>1. PICK p \in {"started", "joined"} :
             /\ job' = [job EXCEPT ![w][e] = [job[w][e] EXCEPT !.phase = p]]
             /\ job[w][e].phase = IF p = "started" THEN "claimed" ELSE "joining"
      BY <2>2
    <3> DEFINE j == [job[w][e] EXCEPT !.phase = p]
    <3>2. j.phase = p
      BY <2>1
    <3> HIDE DEF j
    <3>3. job' = [job EXCEPT ![w][e] = j]
      BY <3>1 DEF j
    <3>4. /\ j.phase \in Registered
          /\ job[w][e].phase # "idle"
          /\ job[w][e].phase \in Single \/ j.phase \notin Single
          /\ j.phase # "idle"
      BY <3>1, <3>2 DEF Registered, Single
    <3>5. RegistryMatchesJobs'
      BY <1>0, <2>2, <3>3, <3>4, OneJobRegistry
    <3>6. OneAtATime'
      BY <1>0, <3>3, <3>4, OneJobSingle
    <3> QED
      BY <3>5, <3>6
  <2>3. CASE /\ inFlight' = inFlight
             /\ job[w][e].phase \in {"claimed", "joining"}
             /\ job' = [job EXCEPT ![w][e] = Idle]
    BY <1>0, <2>3, PhasesOfNewJobs, OneJobRegistry, OneJobSingle DEF Registered
  <2> QED
    BY <1>0, <1>3, <2>2, <2>3 DEF StartFlight, JoinBatch, preparing, JobsTyped
<1>4. ASSUME NEW e \in Episodes, LoadFeed(w, e)
      PROVE  RegistrySound'
  <2>1. PICK p \in {"batch", "working"}, b \in BOOLEAN :
           job' = [job EXCEPT ![w][e] =
                      [job[w][e] EXCEPT !.phase = p, !.feed = feed, !.processing = b]]
    <3> DEFINE batched == BatchSize > 1 /\ job[w][e].snap.state # "acquiring"
               p == IF batched THEN "batch" ELSE "working"
               b == batched \/ feed.processed
    <3>1. p \in {"batch", "working"}
      OBVIOUS
    <3>2. b \in BOOLEAN
      BY SettingsType DEF CopiesSound, PipelineSound, FeedSettings
    <3>3. job' = [job EXCEPT ![w][e] =
                      [job[w][e] EXCEPT !.phase = p, !.feed = feed, !.processing = b]]
      BY <1>0, <1>4 DEF LoadFeed, JobsTyped
    <3> HIDE DEF p, b
    <3> QED
      BY <3>1, <3>2, <3>3
  <2>2. [job[w][e] EXCEPT !.phase = p, !.feed = feed, !.processing = b].phase = p
    BY <1>0 DEF JobsTyped, JobRecs
  <2>3. job[w][e].phase = "started" /\ UNCHANGED inFlight
    BY <1>4 DEF LoadFeed
  <2> QED
    BY <1>0, <2>1, <2>2, <2>3, OneJobRegistry, OneJobSingle DEF Registered, Single
<1>5. ASSUME NEW first \in Episodes, ClaimQueuedEpisodesForFeed(w, first)
      PROVE  RegistrySound'
  <2>1. PICK more \in SUBSET {e \in Episodes \ {first} : ~hidden[e] /\ QueuedAndDue(row[e])} :
           job' = [job EXCEPT ![w] = [e \in Episodes |->
                         IF e \in more
                         THEN NewJob("joining", [row[e] EXCEPT !.next = "later"],
                                     job[w][first].feed, TRUE)
                         ELSE IF e = first THEN [job[w][e] EXCEPT !.phase = "joined"]
                         ELSE job[w][e]]]
    BY <1>5 DEF ClaimQueuedEpisodesForFeed
  <2>2. job[w][first].phase = "batch" /\ UNCHANGED inFlight
    BY <1>5 DEF ClaimQueuedEpisodesForFeed
  <2>3. \A x \in Episodes \ {first} : job[w][x].phase = "idle"
    BY <2>2 DEF OneAtATime, Single
  <2>4. ASSUME NEW e \in Episodes
        PROVE  job'[w][e].phase = IF e = first THEN "joined"
                                  ELSE IF e \in more THEN "joining" ELSE "idle"
    <3>1. NewJob("joining", [row[e] EXCEPT !.next = "later"], job[w][first].feed, TRUE).phase = "joining"
      BY DEF NewJob
    <3>2. [job[w][first] EXCEPT !.phase = "joined"].phase = "joined"
      BY <1>0 DEF JobsTyped, JobRecs
    <3> QED
      BY <1>0, <2>1, <2>3, <3>1, <3>2 DEF JobsTyped
  <2>5. ASSUME NEW o \in Owners, NEW e \in Episodes, o # w
        PROVE  job'[o][e] = job[o][e]
    BY <1>0, <2>1, <2>5 DEF JobsTyped
  <2>6. RegistryMatchesJobs'
    BY <2>2, <2>3, <2>4, <2>5 DEF RegistryMatchesJobs, Registered
  <2>7. OneAtATime'
    BY <2>4, <2>5 DEF OneAtATime, Single
  <2> QED
    BY <2>6, <2>7
<1> QED
  BY <1>1, <1>2, <1>3, <1>4, <1>5 DEF WorkerStep

LEMMA JobEndRegistry ==
    ASSUME CopiesSound, RegistrySound, NEW o \in Owners, NEW e \in Episodes,
           JobStep(o, e) \/ EndFlight(o, e)
    PROVE  RegistrySound'
<1> USE DEF RegistrySound
<1>0. JobsTyped
  BY CopiesTyped
<1>1. CASE Attempt(o, e)
  <2>0. PICK outcome \in Outcomes :
           job' = [job EXCEPT ![o][e].phase = "record", ![o][e].made = outcome]
    BY <1>1 DEF Attempt
  <2>1. job' = [job EXCEPT ![o][e] = [job[o][e] EXCEPT !.phase = "record", !.made = outcome]]
    BY <1>0, <2>0 DEF JobsTyped
  <2>2. [job[o][e] EXCEPT !.phase = "record", !.made = outcome].phase = "record"
    BY <1>0 DEF JobsTyped, JobRecs
  <2>3. job[o][e].phase = "working" /\ UNCHANGED inFlight
    BY <1>1 DEF Attempt
  <2> QED
    BY <1>0, <2>1, <2>2, <2>3, OneJobRegistry, OneJobSingle DEF Registered, Single
<1>2. CASE RecordOutcome(o, e) \/ AbandonJob(o, e)
  <2>1. /\ job' = [job EXCEPT ![o][e] = Over] /\ UNCHANGED inFlight
        /\ job[o][e].phase \in Registered /\ job[o][e].phase # "idle"
    BY <1>2 DEF RecordOutcome, AbandonJob, Registered
  <2> QED
    BY <1>0, <2>1, PhasesOfNewJobs, OneJobRegistry, OneJobSingle DEF Registered, Single
<1>3. CASE EndFlight(o, e)
  <2>1. inFlight[e] = o
    BY <1>3 DEF EndFlight, RegistryMatchesJobs, Registered
  <2>2. /\ job' = [job EXCEPT ![o][e] = Idle]
        /\ inFlight' = [inFlight EXCEPT ![e] = NoOwner]
    BY <1>3, <2>1 DEF EndFlight
  <2> QED
    BY <1>0, <2>1, <2>2, PhasesOfNewJobs, OneJobRegistry, OneJobSingle DEF Registered
<1> QED
  BY <1>1, <1>2, <1>3 DEF JobStep

LEMMA RequestJobRegistry ==
    ASSUME CopiesSound, RegistrySound, NEW e \in Episodes,
           \/ TakeSlot(e)
           \/ \E s \in Rows, f \in FeedSettings : PrepareStarts(e, s, f)
    PROVE  RegistrySound'
<1> USE ListenerIsNoWorker DEF RegistrySound
<1>0. JobsTyped
  BY CopiesTyped
<1>1. CASE TakeSlot(e)
  <2>1. /\ job' = [job EXCEPT ![Listener][e] = [job[Listener][e] EXCEPT !.phase = "working"]]
        /\ job[Listener][e].phase = "slot" /\ UNCHANGED inFlight
    BY <1>0, <1>1 DEF TakeSlot, JobsTyped
  <2>2. [job[Listener][e] EXCEPT !.phase = "working"].phase = "working"
    BY <1>0 DEF JobsTyped, JobRecs
  <2> QED
    BY <1>0, <2>1, <2>2, OneJobRegistry, OneJobSingle DEF Registered
<1>2. ASSUME NEW s \in Rows, NEW f \in FeedSettings, PrepareStarts(e, s, f)
      PROVE  RegistrySound'
  <2>1. [row[e] EXCEPT !.state = "acquiring"] \in Rows /\ f.processed \in BOOLEAN
    BY DEF CopiesSound, PipelineSound, SoundRows, Rows, States, FeedSettings
  <2>2. PICK c \in Rows : job' = [job EXCEPT ![Listener][e] = NewJob("slot", c, f, f.processed)]
    BY <1>2, <2>1 DEF PrepareStarts
  <2>3. NewJob("slot", c, f, f.processed).phase = "slot"
    BY DEF NewJob
  <2>4. inFlight[e] = NoOwner /\ inFlight' = [inFlight EXCEPT ![e] = Listener]
    BY <1>0, <1>2 DEF PrepareStarts, preparing, JobsTyped
  <2> QED
    BY <1>0, <2>2, <2>3, <2>4, OneJobRegistry, OneJobSingle DEF Registered
<1> QED
  BY <1>1, <1>2

LEMMA NextRegistry == CopiesSound /\ RegistrySound /\ [Next]_vars => RegistrySound'
<1> SUFFICES ASSUME CopiesSound, RegistrySound, [Next]_vars PROVE RegistrySound'
  OBVIOUS
<1>1. ASSUME NEW w \in Workers, WorkerStep(w) PROVE RegistrySound'
  BY <1>1, WorkerStepRegistry
<1>2. ASSUME NEW o \in Owners, NEW e \in Episodes, JobStep(o, e) \/ EndJob(o, e)
      PROVE  RegistrySound'
  BY <1>2, JobEndRegistry DEF EndJob
<1>3. ASSUME NEW e \in Episodes, TakeSlot(e) \/ ComeDue(e) PROVE RegistrySound'
  BY <1>3, RequestJobRegistry, RegistryStutters DEF ComeDue
<1>4. ASSUME NEW r \in Requests, NEW e \in Episodes, Ask(r, e) PROVE RegistrySound'
  BY <1>4, RegistryStutters DEF Ask, pipelineVars
<1>5. ASSUME NEW r \in Requests, RequestStep(r) PROVE RegistrySound'
  <2>1. CASE Prepare(r)
    <3>1. /\ request[r].ep \in Episodes /\ request[r].snap \in Rows
          /\ request[r].feed \in FeedSettings
      BY DEF CopiesSound, ServerSound, SoundRequests, RequestRecs
    <3>2. CASE PrepareStarts(request[r].ep, request[r].snap, request[r].feed)
      BY <3>1, <3>2, RequestJobRegistry
    <3>3. CASE UNCHANGED pipelineVars
      BY <3>3, RegistryStutters DEF pipelineVars
    <3> QED
      BY <2>1, <3>2, <3>3 DEF Prepare
  <2>2. CASE ~Prepare(r)
    <3>1. UNCHANGED <<inFlight, job>>
      BY <1>5, <2>2 DEF RequestStep, ServeStep, ReadFeed, CheckEpisode, SaveCheck, ServeCached,
         SaveForgotten, Reread, ServePrepared, Redirect, Stream, StartTee, CommitTee,
         DiscardTee, SaveTee, StopWaiting, pipelineVars
    <3> QED
      BY <3>1, RegistryStutters
  <2> QED
    BY <2>1, <2>2
<1>6. ASSUME NEW a \in Admins, ChangeSettings(a) \/ AskToQueue(a) \/ AdminStep(a)
      PROVE  RegistrySound'
  <2>1. UNCHANGED <<inFlight, job>>
    BY <1>6 DEF ChangeSettings, AskToQueue, AdminStep, ReconcileList, ReconcileEnd, PickToQueue,
       ApplyQueue, ReconcileSkip, ReconcileEpisode, ReconcileSave, pipelineVars
  <2> QED
    BY <2>1, RegistryStutters
<1>7. ASSUME \/ SweepRemove \/ SweepSave \/ Shutdown \/ UNCHANGED vars
             \/ \E e \in Episodes : SweepList(e) \/ Hide(e) \/ Show(e) \/ RemoveOrphan(e)
      PROVE  RegistrySound'
  <2>1. UNCHANGED <<inFlight, job>>
    BY <1>7 DEF SweepRemove, SweepSave, Shutdown, SweepList, Hide, Show, RemoveOrphan,
       pipelineVars, vars
  <2> QED
    BY <2>1, RegistryStutters
<1>8. ASSUME StopProcess \/ StartProcess PROVE RegistrySound'
  <2>1. CASE Crash
    BY <2>1, PhasesOfNewJobs, ListenerIsNoWorker
       DEF Crash, NoJobs, RegistrySound, RegistryMatchesJobs, OneAtATime, Registered, Single
  <2>2. CASE Stopped \/ \E s \in Settings : Restart(s)
    BY <2>2, RegistryStutters DEF Stopped, Restart
  <2>3. feed \in Settings
    BY DEF CopiesSound, PipelineSound
  <2> QED
    BY <1>8, <2>1, <2>2, <2>3 DEF StopProcess, StartProcess
<1> QED
  BY <1>1, <1>2, <1>3, <1>4, <1>5, <1>6, <1>7, <1>8 DEF Next

(* No episode is ever prepared by two jobs at a time, and none stays       *)
(* registered after its job is gone: startFlight, prepareBatch, Prepare    *)
(* and endFlight keep inFlight equal to the jobs that run.                 *)
THEOREM RegistryAlwaysMatches == Spec => []RegistryMatchesJobs
<1>1. Spec => []RegistrySound
  <2>1. CopiesSound /\ RegistrySound /\ [Next]_vars => RegistrySound'
    BY NextRegistry
  <2> QED
    BY <2>1, InitRegistry, CopiesAlwaysSound, PTL DEF Spec
<1>2. RegistrySound => RegistryMatchesJobs
  BY DEF RegistrySound
<1> QED
  BY <1>1, <1>2, PTL

-----------------------------------------------------------------------------
(* Who waits.                                                              *)

LEMMA WaitersStay ==
    ASSUME NoLostWakeup, CopiesSound,
           \A e \in Episodes : preparing(e) => preparing(e)',
           \A r \in Requests : request'[r].phase = "waiting" =>
               request[r].phase = "waiting" /\ request'[r].ep = request[r].ep
    PROVE  NoLostWakeup'
BY DEF NoLostWakeup, CopiesSound, ServerSound, SoundRequests, RequestRecs

LEMMA PhaseStep ==
    ASSUME CopiesSound, NEW r \in Requests, NEW q, request' = [request EXCEPT ![r] = q],
           q.phase # "waiting"
    PROVE  \A x \in Requests : request'[x].phase = "waiting" =>
               request[x].phase = "waiting" /\ request'[x].ep = request[x].ep
BY DEF CopiesSound, ServerSound

(* Serving moves a request to "waiting" only in Prepare.                   *)
LEMMA ServingPhases ==
    ASSUME CopiesSound, NEW r \in Requests, RequestStep(r), ~Prepare(r)
    PROVE  /\ UNCHANGED inFlight
           /\ \A x \in Requests : request'[x].phase = "waiting" =>
                 request[x].phase = "waiting" /\ request'[x].ep = request[x].ep
<1>0. request \in [Requests -> RequestRecs]
  BY DEF CopiesSound, ServerSound, SoundRequests
<1>1. UNCHANGED inFlight
  BY DEF RequestStep, ServeStep, ReadFeed, CheckEpisode, SaveCheck, ServeCached,
     SaveForgotten, Reread, ServePrepared, Redirect, Stream, StartTee, CommitTee,
     DiscardTee, SaveTee, StopWaiting, pipelineVars
<1>2. ASSUME NEW kind, NEW audio, Answer(r, kind, audio)
      PROVE  \A x \in Requests : request'[x].phase = "waiting" =>
                 request[x].phase = "waiting" /\ request'[x].ep = request[x].ep
  BY <1>0, <1>2 DEF Answer, RequestRecs
<1>3. CASE ReadFeed(r) \/ SaveCheck(r) \/ SaveForgotten(r) \/ Reread(r)
  BY <1>0, <1>1, <1>3 DEF ReadFeed, SaveCheck, SaveForgotten, Reread, RequestRecs
<1>4. CASE CheckEpisode(r)
  BY <1>0, <1>1, <1>4 DEF CheckEpisode, RequestRecs
<1>5. CASE StartTee(r) \/ CommitTee(r)
  BY <1>0, <1>1, <1>5 DEF StartTee, CommitTee, RequestRecs
<1>6. CASE ServeCached(r)
  BY <1>0, <1>1, <1>2, <1>6 DEF ServeCached, RequestRecs
<1>7. CASE ServePrepared(r)
  BY <1>0, <1>1, <1>2, <1>7 DEF ServePrepared, RequestRecs
<1>8. CASE Redirect(r) \/ Stream(r) \/ DiscardTee(r) \/ SaveTee(r) \/ StopWaiting(r)
  BY <1>1, <1>2, <1>8 DEF Redirect, Stream, DiscardTee, SaveTee, StopWaiting
<1> QED
  BY <1>3, <1>4, <1>5, <1>6, <1>7, <1>8 DEF RequestStep, ServeStep

LEMMA NextWakes == CopiesSound /\ NoLostWakeup /\ [Next]_vars => NoLostWakeup'
<1> SUFFICES ASSUME CopiesSound, NoLostWakeup, [Next]_vars PROVE NoLostWakeup'
  OBVIOUS
<1> USE ListenerIsNoWorker
<1>0. /\ inFlight \in [Episodes -> Owners \cup {NoOwner}]
      /\ request \in [Requests -> RequestRecs]
  BY DEF CopiesSound, PipelineSound, ServerSound, SoundRequests
<1>1. ASSUME UNCHANGED <<inFlight, request>> PROVE NoLostWakeup'
  BY <1>1 DEF NoLostWakeup, preparing
<1>2. ASSUME NEW w \in Workers, WorkerStep(w), UNCHANGED request PROVE NoLostWakeup'
  <2>1. \/ UNCHANGED inFlight
        \/ \E e \in Episodes : inFlight' = [inFlight EXCEPT ![e] = w]
    BY <1>2 DEF WorkerStep, ClaimNextEpisode, ClaimQueuedEpisode, RunBatch, StartFlight, LoadFeed,
       ClaimQueuedEpisodesForFeed, JoinBatch
  <2>2. \A e \in Episodes : preparing(e) => preparing(e)'
    BY <1>0, <2>1 DEF preparing
  <2> QED
    BY <1>2, <2>2, WaitersStay
<1>3. ASSUME NEW o \in Owners, NEW e \in Episodes, JobStep(o, e), UNCHANGED request
      PROVE  NoLostWakeup'
  BY <1>1, <1>3 DEF JobStep, Attempt, RecordOutcome, AbandonJob
<1>4. ASSUME NEW o \in Owners, NEW e \in Episodes, EndJob(o, e) PROVE NoLostWakeup'
  <2>1. \A x \in Episodes \ {e} : inFlight'[x] = inFlight[x]
    BY <1>0, <1>4 DEF EndJob, EndFlight
  <2>2. \A r \in Requests : request'[r].phase = "waiting" =>
           request[r].phase = "waiting" /\ request'[r].ep = request[r].ep /\ request[r].ep \in Episodes \ {e}
    BY <1>0, <1>4 DEF EndJob, WakeWaiting, RequestRecs
  <2> QED
    BY <2>1, <2>2 DEF NoLostWakeup, preparing
<1>5. ASSUME NEW e \in Episodes, TakeSlot(e) \/ ComeDue(e), UNCHANGED request PROVE NoLostWakeup'
  BY <1>1, <1>5 DEF TakeSlot, ComeDue
<1>6. ASSUME NEW r \in Requests, NEW e \in Episodes, Ask(r, e) PROVE NoLostWakeup'
  <2>1. \A e_1 \in Episodes : preparing(e_1) => preparing(e_1)'
    BY <1>6 DEF Ask, pipelineVars, preparing
  <2>2. \A x \in Requests : request'[x].phase = "waiting" =>
               request[x].phase = "waiting" /\ request'[x].ep = request[x].ep
    BY <1>0, <1>6 DEF Ask, RequestIdle
  <2> QED
    BY <2>1, <2>2, WaitersStay
<1>7. ASSUME NEW r \in Requests, RequestStep(r), ~Prepare(r) PROVE NoLostWakeup'
  <2>1. \A e \in Episodes : preparing(e) => preparing(e)'
    BY <1>7, ServingPhases DEF preparing
  <2> QED
    BY <1>7, <2>1, ServingPhases, WaitersStay
<1>8. ASSUME NEW r \in Requests, Prepare(r) PROVE NoLostWakeup'
  <2> DEFINE ep == request[r].ep
  <2>1. ep \in Episodes
    BY <1>0 DEF RequestRecs
  <2>2. CASE Answer(r, "unavailable", NoAudio) /\ UNCHANGED pipelineVars
    BY <1>0, <2>2 DEF Answer, pipelineVars, NoLostWakeup, preparing, RequestRecs
  <2>3. CASE /\ request' = [request EXCEPT ![r].phase = "waiting", ![r].waited = TRUE]
             /\ \/ preparing(ep) /\ UNCHANGED pipelineVars
                \/ inFlight' = [inFlight EXCEPT ![ep] = Listener]
    <3>1. \A e \in Episodes : preparing(e) => preparing(e)'
      BY <1>0, <2>3 DEF preparing, pipelineVars
    <3>2. preparing(ep)'
      BY <1>0, <2>1, <2>3, <3>1 DEF preparing
    <3>3. \A x \in Requests : x # r => request'[x] = request[x]
      BY <1>0, <2>3
    <3>4. request'[r].ep = ep
      BY <1>0, <2>3 DEF RequestRecs
    <3> QED
      BY <1>0, <3>1, <3>2, <3>3, <3>4 DEF NoLostWakeup, preparing, RequestRecs
  <2> QED
    BY <1>8, <2>2, <2>3 DEF Prepare, PrepareJoins, PrepareStarts
<1>9. ASSUME NEW a \in Admins, ChangeSettings(a) \/ AskToQueue(a) \/ AdminStep(a), UNCHANGED request
      PROVE  NoLostWakeup'
  BY <1>1, <1>9 DEF ChangeSettings, AskToQueue, AdminStep, ReconcileList, ReconcileEnd, PickToQueue,
       ApplyQueue, ReconcileSkip, ReconcileEpisode, ReconcileSave, pipelineVars
<1>10. ASSUME \/ SweepRemove \/ SweepSave \/ Shutdown
              \/ \E e \in Episodes : SweepList(e) \/ Hide(e) \/ Show(e) \/ RemoveOrphan(e),
              UNCHANGED request
       PROVE  NoLostWakeup'
  BY <1>1, <1>10 DEF SweepRemove, SweepSave, Shutdown, SweepList, Hide, Show, RemoveOrphan, pipelineVars
<1>11. ASSUME StopProcess PROVE NoLostWakeup'
  BY <1>11 DEF StopProcess, ForgetMemory, RequestIdle, NoLostWakeup
<1>12. ASSUME StartProcess PROVE NoLostWakeup'
  BY <1>1, <1>12 DEF StartProcess, Restart
<1>13. CASE UNCHANGED vars
  BY <1>1, <1>13 DEF vars, pipelineVars
<1> QED
  BY <1>2, <1>3, <1>4, <1>5, <1>6, <1>7, <1>8, <1>9, <1>10, <1>11, <1>12, <1>13 DEF Next

(* A request waits only while the job it joined is still registered:       *)
(* closing the job's channel and joining it cannot pass each other.        *)
THEOREM NoWakeupLost == Spec => []NoLostWakeup
<1>1. Init => NoLostWakeup
  BY DEF Init, ServerInit, RequestIdle, NoLostWakeup
<1> QED
  BY <1>1, NextWakes, CopiesAlwaysSound, PTL DEF Spec

-----------------------------------------------------------------------------
(* What the label of a file says.                                          *)

(* Where a job has read the settings it runs with.                         *)
Loaded == {"batch", "joining", "joined", "slot", "working", "record"}

(* Where labels can be trusted: every feed is prepared, so every file has  *)
(* a label; no stream is kept that might end while a job puts its own file *)
(* there; the processor handles what it prepares in batches; and no job    *)
(* ends between its file and its record.                                   *)
Labelling ==
    /\ \A s \in Settings : Prepares(s) /\ (Requests # {} => s.mode # "cache")
    /\ BatchSize < 2 \/ \A s \in Settings : s.processed
    /\ ~DbFaults /\ "crash" \notin Tasks

(* A row or a copy of one: only a ready episode has a file, with a label.  *)
Filed(r) == r.cached => r.state = "ready" /\ r.preparedWith # NoRecipe

(* Where a request holds a copy it may save, or prepare from.              *)
Saving == {"checksave", "forget", "route"}

FiledJob(j) ==
    /\ ~j.snap.cached /\ j.feed \in Settings
    /\ j.phase \in Loaded => j.processing = j.feed.processed
    /\ j.phase = "batch" => j.feed.processed

FiledRequest(q) ==
    /\ Filed(q.snap) /\ q.feed \in Settings
    /\ q.phase \in Saving => ~q.snap.cached
    /\ q.phase \notin {"tee", "teesave"}

FiledAdmin(a) ==
    \A e \in Episodes :
        /\ Filed(a.copy[e])
        /\ a.phase = "save" /\ Oldest(a.todo, e) => ~a.copy[e].cached

RowsFiled == \A e \in Episodes : Filed(row[e])
JobsFiled == \A o \in Owners, e \in Episodes : FiledJob(job[o][e])
RequestsFiled == \A r \in Requests : FiledRequest(request[r])
AdminsFiled == \A a \in Admins : FiledAdmin(admin[a])

(* The file of a job about to record it is that job's, or gone.            *)
FilesMade ==
    \A o \in Owners, e \in Episodes :
        job[o][e].phase = "record" /\ job[o][e].made = "ok"
            => disk[e] \in {NoAudio, AudioOf(Recipe(job[o][e].feed))}

LabelsTrue ==
    \A e \in Episodes :
        /\ row[e].cached /\ disk[e] # NoAudio
        /\ \A o \in Owners : job[o][e].phase # "record"
        => disk[e] = AudioOf(row[e].preparedWith)

(* No writer of an old copy gives an episode its file back: every copy a   *)
(* check, a sweep or a request saves has lost it, and so has every copy a  *)
(* job works from.                                                         *)
LabelsSound ==
    /\ life = "up"
    /\ RowsFiled /\ JobsFiled /\ RequestsFiled /\ AdminsFiled
    /\ FilesMade /\ LabelsTrue

-----------------------------------------------------------------------------
(* Rows and copies of rows.                                                *)

(* A row saved over r: with a file only if r has it, under the same label. *)
Refiled(r, s) == s.cached => r.cached /\ s.preparedWith = r.preparedWith /\ s.state = "ready"

LEMMA RecipeLabels ==
    ASSUME NEW f \in FeedSettings, Prepares(f)
    PROVE  /\ Recipe(f) # NoRecipe
           /\ AudioOf(Recipe(f)) = [by |-> IF f.processed THEN "processor" ELSE "download",
                                    with |-> f.with]
BY DEF Recipe, NoRecipe, AudioOf, Prepares, FeedSettings

LEMMA WritesFiled ==
    ASSUME NEW r \in Rows, Filed(r)
    PROVE  /\ Refiled(r, r)
           /\ r.state = "discovered" => /\ Refiled(r, [r EXCEPT !.state = "acquiring"])
                                        /\ ~[r EXCEPT !.state = "acquiring"].cached
           /\ Queueable(r) => /\ Refiled(r, [r EXCEPT !.next = "later"])
                              /\ ~[r EXCEPT !.next = "later"].cached
           /\ Refiled(r, [r EXCEPT !.next = "due"])
           /\ Refiled(r, QueuedUncached(r)) /\ Refiled(r, QueuedFailed(r))
           /\ ~ForgetCache(r).cached
BY DEF Filed, Refiled, Queueable, QueuedUncached, QueuedFailed, ForgetCache, Rows

(* A check saves only what has lost its file: one without a label, which   *)
(* it would label, is none the pipeline has left.                          *)
LEMMA ChecksFiled ==
    ASSUME NEW r \in Rows, NEW f \in FeedSettings, Filed(r), ReconcileSaves(r, f)
    PROVE  ~Reconciled(r, f).cached /\ Filed(Reconciled(r, f))
<1>1. ~ClearedFile(r).cached
  BY DEF ClearedFile, ForgetCache, Rows
<1>2. ~FreshStart(r, f).cached
  BY DEF FreshStart, NoFailure, ClearedFile, ForgetCache, Rows
<1>3. ~FileUnlabelled(r, f)
  BY DEF Filed, FileUnlabelled, HasFile
<1>4. ASSUME NEW next, r.state = "failed"
      PROVE  ~[r EXCEPT !.preparedWith = FailedRecipe(f), !.next = next].cached
  BY <1>4 DEF Filed, Rows
<1>5. ~Reconciled(r, f).cached
  <2>1. CASE FailureOutdated(r, f)
    BY <1>2, <2>1 DEF Reconciled, FailureOutdated, FileUnlabelled, FileOutdated, HasFile
  <2>2. CASE r.state = "failed" /\ ~FailureOutdated(r, f)
    <3> DEFINE next == IF RestartsSlowRetries(r) THEN "due" ELSE r.next
    <3>1. Reconciled(r, f) = [r EXCEPT !.preparedWith = FailedRecipe(f), !.next = next]
      BY <2>2 DEF Reconciled, FileUnlabelled, FileOutdated, HasFile
    <3> HIDE DEF next
    <3> QED
      BY <1>4, <2>2, <3>1
  <2>3. CASE r.state # "failed" /\ FileOutdated(r, f)
    BY <1>1, <1>3, <2>3 DEF Reconciled, FailureOutdated
  <2> QED
    BY <1>3, <2>1, <2>2, <2>3 DEF ReconcileSaves
<1> QED
  BY <1>5 DEF Filed

(* The row of an outcome has a file only if the attempt made one.          *)
LEMMA OutcomeFiled ==
    ASSUME NEW j \in SoundJobs, FiledJob(j), Prepares(j.feed)
    PROVE  /\ OutcomeRow(j).cached <=> j.made = "ok"
           /\ OutcomeRow(j).cached => /\ OutcomeRow(j).state = "ready"
                                      /\ OutcomeRow(j).preparedWith = Recipe(j.feed)
<1>0. j.snap \in Rows /\ ~j.snap.cached /\ j.feed \in FeedSettings
  BY DEF SoundJobs, ClaimedRows, SoundRows, JobRecs, FiledJob
<1>1. Counted(j.snap) \in Rows /\ ~Counted(j.snap).cached
  BY <1>0, CountersType DEF Counted, Rows
<1>2. LET s == Succeeded(j.snap, j.feed, j.processing)
      IN  s.cached /\ s.state = "ready" /\ s.preparedWith = Recipe(j.feed)
  BY <1>0 DEF Succeeded, NoFailure, Rows
<1>3. ~FailedAgain(j.snap, j.feed).cached
  BY <1>1 DEF FailedAgain, Rows
<1>4. ~GaveUp(j.snap, j.feed, j.processing).cached
  BY <1>1 DEF GaveUp, Rows
<1>5. ~TriedAgain(j.snap).cached
  BY <1>1 DEF TriedAgain, Rows
<1>6. ~Failure(j.snap, j.feed, j.processing, j.made = "permanent").cached
  BY <1>3, <1>4, <1>5 DEF Failure
<1> QED
  BY <1>2, <1>6 DEF OutcomeRow

-----------------------------------------------------------------------------
(* Steps.                                                                  *)

(* What nearly every step does: it saves no file that was not there,       *)
(* deletes files if any, and leaves alone whoever is about to record.      *)
RowsRefiled == \A e \in Episodes : Refiled(row[e], row'[e])
FilesLost == \A e \in Episodes : disk'[e] \in {disk[e], NoAudio}
RecordingStays ==
    \A o \in Owners, e \in Episodes :
        job[o][e].phase = "record" \/ job'[o][e].phase = "record" => job'[o][e] = job[o][e]

LEMMA LabelsKept ==
    ASSUME RowsFiled, FilesMade, LabelsTrue, RowsRefiled, FilesLost, RecordingStays
    PROVE  RowsFiled' /\ FilesMade' /\ LabelsTrue'
<1>1. RowsFiled'
  BY DEF RowsFiled, RowsRefiled, Refiled, Filed
<1>2. FilesMade'
  BY DEF FilesMade, FilesLost, RecordingStays
<1>3. ASSUME NEW e \in Episodes, row'[e].cached, disk'[e] # NoAudio,
             \A o \in Owners : job'[o][e].phase # "record"
      PROVE  disk'[e] = AudioOf(row'[e].preparedWith)
  <2>1. row[e].cached /\ row'[e].preparedWith = row[e].preparedWith /\ disk'[e] = disk[e]
    BY <1>3 DEF RowsRefiled, Refiled, FilesLost
  <2>2. \A o \in Owners : job[o][e].phase # "record"
    BY <1>3 DEF RecordingStays
  <2> QED
    BY <1>3, <2>1, <2>2 DEF LabelsTrue
<1>4. LabelsTrue'
  BY <1>3 DEF LabelsTrue
<1> QED
  BY <1>1, <1>2, <1>4

LEMMA RowsStayFiled == ASSUME CopiesSound, RowsFiled, UNCHANGED row PROVE RowsRefiled
BY DEF RowsRefiled, Refiled, RowsFiled, Filed

LEMMA OneRowRefiled ==
    ASSUME CopiesSound, RowsFiled, NEW e \in Episodes, NEW r, Refiled(row[e], r),
           row' = [row EXCEPT ![e] = r]
    PROVE  RowsRefiled
<1>1. row'[e] = r /\ \A x \in Episodes \ {e} : row'[x] = row[x]
  BY DEF CopiesSound, PipelineSound
<1> QED
  BY <1>1 DEF RowsRefiled, Refiled, RowsFiled, Filed

LEMMA OneJobFiled ==
    ASSUME CopiesSound, JobsFiled, NEW o \in Owners, NEW e \in Episodes, NEW j, FiledJob(j),
           job' = [job EXCEPT ![o][e] = j]
    PROVE  /\ JobsFiled'
           /\ job[o][e].phase # "record" /\ j.phase # "record" => RecordingStays
<1>1. ASSUME NEW p \in Owners, NEW x \in Episodes
      PROVE  job'[p][x] = IF p = o /\ x = e THEN j ELSE job[p][x]
  BY CopiesTyped DEF JobsTyped
<1> QED
  BY <1>1 DEF JobsFiled, RecordingStays

(* A copy without a file, under the settings of now or of the request.     *)
LEMMA NewJobFiled ==
    ASSUME NEW r, ~r.cached, NEW f \in Settings, NEW p \in Phases, NEW processing \in BOOLEAN,
           p # "batch", p \in Loaded => processing = f.processed
    PROVE  FiledJob(NewJob(p, r, f, processing)) /\ NewJob(p, r, f, processing).phase = p
BY DEF NewJob, FiledJob

LEMMA IdleFiled ==
    /\ FiledJob(Idle) /\ FiledJob(Over)
    /\ ~NoCopy.cached /\ Filed(NoCopy) /\ FiledAdmin(AdminIdle) /\ FiledRequest(RequestIdle)
<1>1. FiledJob(Idle) /\ ~Idle.snap.cached /\ Filed(Idle.snap) /\ Idle.feed \in Settings
  BY IdleSound DEF FiledJob, Idle, NewRow, Loaded, Filed
<1>2. Over.snap = Idle.snap /\ Over.feed = Idle.feed /\ Over.phase = "over"
  BY DEF Over, Idle
<1>3. FiledJob(Over)
  BY <1>1, <1>2 DEF FiledJob, Loaded
<1> QED
  BY <1>1, <1>3 DEF NoCopy, AdminIdle, FiledAdmin, RequestIdle, FiledRequest, Saving

LEMMA WorkerStepLabels ==
    ASSUME Labelling, CopiesSound, RegistrySound, RowsFiled, JobsFiled,
           NEW w \in Workers, WorkerStep(w)
    PROVE  RowsRefiled /\ JobsFiled' /\ UNCHANGED disk /\ RecordingStays
<1>0. /\ row \in [Episodes -> Rows] /\ w \in Owners /\ feed \in Settings
      /\ job \in [Owners -> [Episodes -> JobRecs]]
      /\ \A e \in Episodes : Filed(row[e])
      /\ \A o \in Owners, e \in Episodes : FiledJob(job[o][e])
  BY ListenerIsNoWorker, CopiesTyped
     DEF CopiesSound, PipelineSound, SoundRows, JobsTyped, RowsFiled, JobsFiled
<1>1. UNCHANGED disk
  BY DEF WorkerStep, ClaimNextEpisode, ClaimQueuedEpisode, RunBatch, StartFlight, LoadFeed,
     ClaimQueuedEpisodesForFeed, JoinBatch
<1>2. ASSUME NEW e \in Episodes, NEW r, Refiled(row[e], r), ~r.cached, Free(w),
             row' = [row EXCEPT ![e] = r],
             job' = [job EXCEPT ![w][e] = NewJob("claimed", r, Idle.feed, FALSE)]
      PROVE  RowsRefiled /\ JobsFiled' /\ RecordingStays
  <2> DEFINE j == NewJob("claimed", r, Idle.feed, FALSE)
  <2>1. FiledJob(j) /\ j.phase = "claimed"
    BY <1>2, IdleSound, NewJobFiled DEF Loaded, Phases
  <2>2. job[w][e].phase = "idle"
    BY <1>2 DEF Free
  <2> HIDE DEF j
  <2>3. RowsRefiled
    BY <1>2, OneRowRefiled
  <2>4. JobsFiled' /\ RecordingStays
    BY <1>0, <1>2, <2>1, <2>2, OneJobFiled DEF j
  <2> QED
    BY <2>3, <2>4
<1>3. CASE ClaimNextEpisode(w)
  <2>1. PICK e \in Episodes :
           /\ row[e].state = "discovered"
           /\ row' = [row EXCEPT ![e] = [row[e] EXCEPT !.state = "acquiring"]]
           /\ job' = [job EXCEPT ![w][e] =
                        NewJob("claimed", [row[e] EXCEPT !.state = "acquiring"], Idle.feed, FALSE)]
    BY <1>0, <1>3 DEF ClaimNextEpisode, NewWork, WaitingForFirst
  <2>2. /\ Refiled(row[e], [row[e] EXCEPT !.state = "acquiring"])
        /\ ~[row[e] EXCEPT !.state = "acquiring"].cached
    BY <1>0, <2>1, WritesFiled
  <2>3. Free(w)
    BY <1>3 DEF ClaimNextEpisode
  <2> QED
    BY <1>1, <1>2, <2>1, <2>2, <2>3
<1>4. CASE ClaimQueuedEpisode(w)
  <2>1. PICK e \in Episodes :
           /\ Queueable(row[e]) /\ row' = [row EXCEPT ![e] = [row[e] EXCEPT !.next = "later"]]
           /\ job' = [job EXCEPT ![w][e] =
                        NewJob("claimed", [row[e] EXCEPT !.next = "later"], Idle.feed, FALSE)]
    BY <1>0, <1>4 DEF ClaimQueuedEpisode, QueuedWork, QueuedAndDue
  <2>2. /\ Refiled(row[e], [row[e] EXCEPT !.next = "later"])
        /\ ~[row[e] EXCEPT !.next = "later"].cached
    BY <1>0, <2>1, WritesFiled
  <2>3. Free(w)
    BY <1>4 DEF ClaimQueuedEpisode
  <2> QED
    BY <1>1, <1>2, <2>1, <2>2, <2>3
<1>5. CASE RunBatch(w)
  <2>1. /\ job' = [job EXCEPT ![w] = [e \in Episodes |->
               IF job[w][e].phase = "joined" THEN [job[w][e] EXCEPT !.phase = "working"]
                                             ELSE job[w][e]]]
        /\ UNCHANGED row
    BY <1>5 DEF RunBatch
  <2>2. ASSUME NEW e \in Episodes, job[w][e].phase = "joined"
        PROVE  LET j == [job[w][e] EXCEPT !.phase = "working"]
               IN  FiledJob(j) /\ j.phase = "working"
    BY <1>0, <2>2 DEF FiledJob, JobRecs, Loaded
  <2>3. \A o \in Owners, e \in Episodes :
           job'[o][e] = IF o = w /\ job[w][e].phase = "joined"
                        THEN [job[w][e] EXCEPT !.phase = "working"] ELSE job[o][e]
    BY <1>0, <2>1
  <2>4. JobsFiled'
    BY <1>0, <2>2, <2>3 DEF JobsFiled
  <2>5. RecordingStays
    BY <2>2, <2>3 DEF RecordingStays
  <2> QED
    BY <1>1, <2>1, <2>4, <2>5, RowsStayFiled
<1>6. ASSUME NEW e \in Episodes, StartFlight(w, e) \/ JoinBatch(w, e)
      PROVE  RowsRefiled /\ JobsFiled' /\ RecordingStays
  <2>1. /\ UNCHANGED row
        /\ \/ job' = [job EXCEPT ![w][e] = Idle]
           \/ /\ job[w][e].phase = "claimed"
              /\ job' = [job EXCEPT ![w][e] = [job[w][e] EXCEPT !.phase = "started"]]
           \/ /\ job[w][e].phase = "joining"
              /\ job' = [job EXCEPT ![w][e] = [job[w][e] EXCEPT !.phase = "joined"]]
        /\ job[w][e].phase \in {"claimed", "joining"}
    BY <1>0, <1>6 DEF StartFlight, JoinBatch
  <2>2. LET j == [job[w][e] EXCEPT !.phase = "started"]
        IN  FiledJob(j) /\ j.phase = "started"
    BY <1>0 DEF FiledJob, JobRecs, Loaded
  <2>3. job[w][e].phase = "joining" =>
           LET j == [job[w][e] EXCEPT !.phase = "joined"]
           IN  FiledJob(j) /\ j.phase = "joined"
    BY <1>0 DEF FiledJob, JobRecs, Loaded
  <2>4. PICK j : FiledJob(j) /\ j.phase # "record" /\ job' = [job EXCEPT ![w][e] = j]
    BY <2>1, <2>2, <2>3, IdleFiled, PhasesOfNewJobs
  <2> QED
    BY <1>0, <2>1, <2>4, OneJobFiled, RowsStayFiled
<1>7. ASSUME NEW e \in Episodes, LoadFeed(w, e)
      PROVE  RowsRefiled /\ JobsFiled' /\ RecordingStays
  <2> DEFINE batched == BatchSize > 1 /\ job[w][e].snap.state # "acquiring"
             p == IF batched THEN "batch" ELSE "working"
             b == batched \/ feed.processed
             j == [job[w][e] EXCEPT !.phase = p, !.feed = feed, !.processing = b]
  <2>1. /\ job[w][e].phase = "started" /\ UNCHANGED row
        /\ job' = [job EXCEPT ![w][e] = j]
    BY <1>0, <1>7 DEF LoadFeed
  <2>2. batched => feed.processed
    BY <1>0, PipelineAssumption DEF Labelling
  <2>3. b = feed.processed
    BY <1>0, <2>2, SettingsType DEF FeedSettings
  <2>4. p \in {"batch", "working"} /\ (p = "batch" => feed.processed)
    BY <2>2
  <2> HIDE DEF p, b
  <2>5. /\ j.phase = p /\ j.feed = feed /\ j.processing = b /\ j.snap = job[w][e].snap
    BY <1>0 DEF JobRecs
  <2>6. FiledJob(j) /\ j.phase # "record"
    BY <1>0, <2>3, <2>4, <2>5 DEF FiledJob
  <2> HIDE DEF j
  <2> QED
    BY <1>0, <2>1, <2>6, OneJobFiled, RowsStayFiled
<1>8. ASSUME NEW first \in Episodes, ClaimQueuedEpisodesForFeed(w, first)
      PROVE  RowsRefiled /\ JobsFiled' /\ RecordingStays
  <2>1. PICK more \in SUBSET {e \in Episodes \ {first} : ~hidden[e] /\ QueuedAndDue(row[e])} :
           /\ row' = [e \in Episodes |-> IF e \in more THEN [row[e] EXCEPT !.next = "later"]
                                                       ELSE row[e]]
           /\ job' = [job EXCEPT ![w] = [e \in Episodes |->
                         IF e \in more
                         THEN NewJob("joining", [row[e] EXCEPT !.next = "later"],
                                     job[w][first].feed, TRUE)
                         ELSE IF e = first THEN [job[w][e] EXCEPT !.phase = "joined"]
                         ELSE job[w][e]]]
    BY <1>8 DEF ClaimQueuedEpisodesForFeed
  <2>2. job[w][first].phase = "batch"
    BY <1>8 DEF ClaimQueuedEpisodesForFeed
  <2>3. \A e \in more : /\ Refiled(row[e], [row[e] EXCEPT !.next = "later"])
                        /\ ~[row[e] EXCEPT !.next = "later"].cached
    BY <1>0, <2>1, WritesFiled DEF QueuedAndDue
  <2>4. RowsRefiled
    BY <1>0, <2>1, <2>3, WritesFiled DEF RowsRefiled
  <2> DEFINE new(e) == NewJob("joining", [row[e] EXCEPT !.next = "later"], job[w][first].feed, TRUE)
             joined == [job[w][first] EXCEPT !.phase = "joined"]
  <2>5. ASSUME NEW e \in more PROVE FiledJob(new(e)) /\ new(e).phase = "joining"
    <3>1. job[w][first].feed \in Settings /\ job[w][first].feed.processed
      BY <1>0, <2>2 DEF FiledJob
    <3>2. job[w][first].feed.processed = TRUE
      BY <3>1, SettingsType DEF FeedSettings
    <3> DEFINE r == [row[e] EXCEPT !.next = "later"]
               f == job[w][first].feed
    <3>3. ~r.cached /\ f \in Settings /\ "joining" \in Phases /\ f.processed = TRUE
      BY <2>3, <3>1, <3>2 DEF Phases
    <3> HIDE DEF r, f
    <3>4. LET j == NewJob("joining", r, f, TRUE) IN FiledJob(j) /\ j.phase = "joining"
      BY <3>3, NewJobFiled
    <3> QED
      BY <3>4 DEF r, f
  <2>6. FiledJob(joined) /\ joined.phase = "joined"
    BY <1>0, <2>2 DEF FiledJob, JobRecs, Loaded
  <2>7. \A o \in Owners, e \in Episodes :
           job'[o][e] = IF o = w /\ e \in more THEN new(e)
                        ELSE IF o = w /\ e = first THEN joined ELSE job[o][e]
    BY <1>0, <2>1
  <2>8. \A e \in more : job[w][e].phase # "record"
    BY <2>2 DEF RegistrySound, OneAtATime, Single
  <2> HIDE DEF new, joined
  <2>9. JobsFiled'
    BY <1>0, <2>5, <2>6, <2>7 DEF JobsFiled
  <2>10. RecordingStays
    BY <2>2, <2>5, <2>6, <2>7, <2>8 DEF RecordingStays
  <2> QED
    BY <2>4, <2>9, <2>10
<1> QED
  BY <1>1, <1>3, <1>4, <1>5, <1>6, <1>7, <1>8 DEF WorkerStep

(* The attempt's file and its record belong together: meanwhile no other   *)
(* job holds the episode.                                                  *)
LEMMA JobStepLabels ==
    ASSUME Labelling, CopiesSound, RegistrySound, LabelsSound,
           NEW o \in Owners, NEW e \in Episodes, JobStep(o, e)
    PROVE  RowsFiled' /\ JobsFiled' /\ FilesMade' /\ LabelsTrue'
<1> DEFINE j == job[o][e]
<1>0. /\ row \in [Episodes -> Rows] /\ disk \in [Episodes -> Audio]
      /\ job \in [Owners -> [Episodes -> JobRecs]] /\ j \in JobRecs /\ j \in SoundJobs
      /\ FiledJob(j) /\ j.feed \in FeedSettings /\ Prepares(j.feed)
  BY CopiesTyped, SettingsType
     DEF CopiesSound, PipelineSound, SoundRows, JobTable, JobsTyped, LabelsSound, JobsFiled,
         FiledJob, Labelling
<1>1. /\ RowsFiled /\ JobsFiled /\ FilesMade /\ LabelsTrue /\ life = "up"
  BY DEF LabelsSound
<1>2. CASE Attempt(o, e)
  <2>1. PICK outcome \in Outcomes :
           /\ job' = [job EXCEPT ![o][e].phase = "record", ![o][e].made = outcome]
           /\ disk' = IF outcome = "ok"
                      THEN [disk EXCEPT ![e] =
                              [by |-> IF j.processing THEN "processor" ELSE "download",
                               with |-> j.feed.with]]
                      ELSE disk
    BY <1>2 DEF Attempt
  <2>2. j.phase = "working" /\ UNCHANGED row
    BY <1>2 DEF Attempt
  <2> DEFINE new == [j EXCEPT !.phase = "record", !.made = outcome]
  <2>3. job' = [job EXCEPT ![o][e] = new]
    BY <1>0, <2>1
  <2>4. /\ new.phase = "record" /\ new.made = outcome
        /\ new.feed = j.feed /\ new.snap = j.snap /\ new.processing = j.processing
    BY <1>0 DEF JobRecs
  <2>5. FiledJob(new)
    BY <1>0, <2>2, <2>4 DEF FiledJob, Loaded
  <2> HIDE DEF new
  <2>6. RowsFiled' /\ JobsFiled'
    BY <1>1, <2>2, <2>3, <2>5, OneJobFiled DEF RowsFiled
  <2>7. /\ \A p \in Owners, x \in Episodes :
              job'[p][x] = IF p = o /\ x = e THEN new ELSE job[p][x]
        /\ \A x \in Episodes \ {e} : disk'[x] = disk[x]
    BY <1>0, <2>1, <2>3
  <2>8. ASSUME outcome = "ok" PROVE disk'[e] = AudioOf(Recipe(j.feed))
    <3>1. j.processing = j.feed.processed
      BY <1>0, <2>2 DEF FiledJob, Loaded
    <3>2. AudioOf(Recipe(j.feed)) = [by |-> IF j.feed.processed THEN "processor" ELSE "download",
                                     with |-> j.feed.with]
      BY <1>0, RecipeLabels
    <3> QED
      BY <1>0, <2>1, <2>8, <3>1, <3>2
  <2>9. \A p \in Owners \ {o} : job[p][e].phase # "record"
    BY <2>2 DEF RegistrySound, RegistryMatchesJobs, Registered
  <2>10. FilesMade'
    <3>1. ASSUME NEW p \in Owners, NEW x \in Episodes,
                 job'[p][x].phase = "record", job'[p][x].made = "ok"
          PROVE  disk'[x] \in {NoAudio, AudioOf(Recipe(job'[p][x].feed))}
      <4>1. CASE x # e
        BY <1>1, <2>7, <3>1, <4>1 DEF FilesMade
      <4>2. CASE x = e
        BY <2>4, <2>7, <2>8, <2>9, <3>1, <4>2
      <4> QED
        BY <4>1, <4>2
    <3> QED
      BY <3>1 DEF FilesMade
  <2>11. LabelsTrue'
    <3>1. ASSUME NEW x \in Episodes, \A p \in Owners : job'[p][x].phase # "record"
          PROVE  /\ x # e
                 /\ \A p \in Owners : job[p][x].phase # "record"
      BY <2>4, <2>7, <3>1
    <3> QED
      BY <1>1, <2>2, <2>7, <3>1 DEF LabelsTrue
  <2> QED
    BY <2>6, <2>10, <2>11
<1>3. CASE RecordOutcome(o, e)
  <2>1. /\ j.phase = "record" /\ UNCHANGED disk
        /\ row' = [row EXCEPT ![e] = OutcomeRow(j)]
        /\ job' = [job EXCEPT ![o][e] = Over]
    BY <1>3 DEF RecordOutcome
  <2>2. /\ \A p \in Owners, x \in Episodes :
              job'[p][x] = IF p = o /\ x = e THEN Over ELSE job[p][x]
        /\ \A x \in Episodes : row'[x] = IF x = e THEN OutcomeRow(j) ELSE row[x]
        /\ Over.phase = "over"
    BY <1>0, <2>1, PhasesOfNewJobs
  <2>3. /\ OutcomeRow(j).cached <=> j.made = "ok"
        /\ OutcomeRow(j).cached => /\ OutcomeRow(j).state = "ready"
                                   /\ OutcomeRow(j).preparedWith = Recipe(j.feed)
    BY <1>0, OutcomeFiled
  <2>4. Filed(OutcomeRow(j))
    BY <1>0, <2>3, RecipeLabels DEF Filed
  <2>5. RowsFiled'
    BY <1>1, <2>2, <2>4 DEF RowsFiled
  <2>6. JobsFiled'
    BY <1>1, <2>1, IdleFiled, OneJobFiled
  <2>7. FilesMade'
    BY <1>1, <2>1, <2>2 DEF FilesMade
  <2>8. ASSUME NEW x \in Episodes, row'[x].cached, disk'[x] # NoAudio,
               \A p \in Owners : job'[p][x].phase # "record"
        PROVE  disk'[x] = AudioOf(row'[x].preparedWith)
    <3>1. CASE x = e
      BY <1>1, <2>1, <2>2, <2>3, <2>8, <3>1 DEF FilesMade
    <3>2. CASE x # e
      BY <1>1, <2>1, <2>2, <2>8, <3>2 DEF LabelsTrue
    <3> QED
      BY <3>1, <3>2
  <2>9. LabelsTrue'
    BY <2>8 DEF LabelsTrue
  <2> QED
    BY <2>5, <2>6, <2>7, <2>9
<1>4. ~AbandonJob(o, e)
  BY <1>1 DEF AbandonJob, Labelling
<1> QED
  BY <1>2, <1>3, <1>4 DEF JobStep

LEMMA SlotAndTimeLabels ==
    ASSUME CopiesSound, RowsFiled, JobsFiled, NEW e \in Episodes,
           TakeSlot(e) \/ ComeDue(e) \/ \E o \in Owners : EndFlight(o, e)
    PROVE  RowsRefiled /\ JobsFiled' /\ UNCHANGED disk /\ RecordingStays
<1>0. /\ row \in [Episodes -> Rows] /\ job \in [Owners -> [Episodes -> JobRecs]]
      /\ Listener \in Owners /\ Filed(row[e])
      /\ \A o \in Owners : FiledJob(job[o][e])
  BY ListenerIsNoWorker, CopiesTyped
     DEF CopiesSound, PipelineSound, SoundRows, JobsTyped, RowsFiled, JobsFiled
<1>1. CASE TakeSlot(e)
  <2> DEFINE j == [job[Listener][e] EXCEPT !.phase = "working"]
  <2>1. /\ job' = [job EXCEPT ![Listener][e] = j]
        /\ job[Listener][e].phase = "slot" /\ UNCHANGED <<row, disk>>
    BY <1>0, <1>1 DEF TakeSlot
  <2>2. FiledJob(j) /\ j.phase = "working"
    BY <1>0, <2>1 DEF FiledJob, JobRecs, Loaded
  <2> HIDE DEF j
  <2> QED
    BY <1>0, <2>1, <2>2, OneJobFiled, RowsStayFiled
<1>2. CASE ComeDue(e)
  <2>1. UNCHANGED <<job, disk>> /\ row' = [row EXCEPT ![e] = [row[e] EXCEPT !.next = "due"]]
    BY <1>0, <1>2 DEF ComeDue
  <2>2. Refiled(row[e], [row[e] EXCEPT !.next = "due"])
    BY <1>0, WritesFiled
  <2> QED
    BY <2>1, <2>2, OneRowRefiled DEF JobsFiled, RecordingStays
<1>3. ASSUME NEW o \in Owners, EndFlight(o, e)
      PROVE  RowsRefiled /\ JobsFiled' /\ UNCHANGED disk /\ RecordingStays
  <2>1. /\ job' = [job EXCEPT ![o][e] = Idle]
        /\ job[o][e].phase = "over" /\ UNCHANGED <<row, disk>>
    BY <1>3 DEF EndFlight
  <2> QED
    BY <2>1, IdleFiled, PhasesOfNewJobs, OneJobFiled, RowsStayFiled
<1> QED
  BY <1>1, <1>2, <1>3

LEMMA PrepareStartsLabels ==
    ASSUME CopiesSound, RegistrySound, RowsFiled, JobsFiled, NEW e \in Episodes,
           NEW snap, ~snap.cached, NEW f \in Settings, PrepareStarts(e, snap, f)
    PROVE  RowsRefiled /\ JobsFiled' /\ UNCHANGED disk /\ RecordingStays
<1>0. /\ row \in [Episodes -> Rows] /\ Listener \in Owners /\ Filed(row[e])
      /\ f.processed \in BOOLEAN
  BY ListenerIsNoWorker, SettingsType
     DEF CopiesSound, PipelineSound, SoundRows, RowsFiled, FeedSettings
<1>1. row[e].state = "discovered" =>
         /\ Refiled(row[e], [row[e] EXCEPT !.state = "acquiring"])
         /\ ~[row[e] EXCEPT !.state = "acquiring"].cached
  BY <1>0, WritesFiled
<1>2. PICK s : /\ ~s.cached
               /\ job' = [job EXCEPT ![Listener][e] = NewJob("slot", s, f, f.processed)]
               /\ \/ UNCHANGED row
                  \/ Refiled(row[e], s) /\ row' = [row EXCEPT ![e] = s]
  BY <1>0, <1>1 DEF PrepareStarts
<1>3. RowsRefiled
  BY <1>2, OneRowRefiled, RowsStayFiled
<1>4. /\ FiledJob(NewJob("slot", s, f, f.processed))
      /\ NewJob("slot", s, f, f.processed).phase = "slot"
  BY <1>0, <1>2, NewJobFiled DEF Phases
<1>5. job[Listener][e].phase # "record"
  BY <1>0, ListenerIsNoWorker
     DEF PrepareStarts, preparing, RegistrySound, RegistryMatchesJobs, Registered
<1>6. JobsFiled' /\ RecordingStays
  BY <1>0, <1>2, <1>4, <1>5, OneJobFiled
<1> QED
  BY <1>3, <1>6 DEF PrepareStarts

LEMMA OneRequestFiled ==
    ASSUME ServerSound, RequestsFiled, NEW r \in Requests, NEW q, FiledRequest(q),
           request' = [request EXCEPT ![r] = q]
    PROVE  RequestsFiled'
BY DEF ServerSound, RequestsFiled

LEMMA RequestStepLabels ==
    ASSUME Labelling, CopiesSound, RegistrySound, RowsFiled, JobsFiled, RequestsFiled,
           NEW r \in Requests, RequestStep(r)
    PROVE  RowsRefiled /\ FilesLost /\ JobsFiled' /\ RecordingStays /\ RequestsFiled'
<1> DEFINE q == request[r]
<1>0. /\ q \in RequestRecs /\ q.snap \in Rows /\ q.ep \in Episodes /\ FiledRequest(q)
      /\ request \in [Requests -> RequestRecs] /\ q.feed \in Settings /\ q.feed \in FeedSettings
      /\ Filed(row[q.ep]) /\ feed \in Settings /\ ServerSound
      /\ disk \in [Episodes -> Audio]
  BY SettingsType
     DEF CopiesSound, PipelineSound, ServerSound, SoundRequests, SoundRows, RequestRecs,
         RequestsFiled, FiledRequest, RowsFiled
<1>s. UNCHANGED <<row, disk, job>> => RowsRefiled /\ FilesLost /\ JobsFiled' /\ RecordingStays
  BY RowsStayFiled DEF FilesLost, JobsFiled, RecordingStays
<1>1. ASSUME NEW p, p \notin {"tee", "teesave"}, NEW s, Filed(s), p \in Saving => ~s.cached,
             NEW f \in Settings
      PROVE  /\ FiledRequest([q EXCEPT !.phase = p, !.snap = s])
             /\ s = q.snap => /\ FiledRequest([q EXCEPT !.phase = p, !.feed = f])
                              /\ FiledRequest([q EXCEPT !.phase = p])
                              /\ FiledRequest([q EXCEPT !.phase = p, !.waited = TRUE])
  BY <1>0, <1>1 DEF RequestRecs, FiledRequest
<1>2. ASSUME NEW kind, NEW audio, Answer(r, kind, audio) PROVE RequestsFiled'
  <2> DEFINE a == [q EXCEPT !.phase = "answered", !.snap = Idle.snap, !.feed = Idle.feed,
                            !.answer = kind, !.audio = audio]
  <2>1. request' = [request EXCEPT ![r] = a]
    BY <1>2 DEF Answer
  <2>2. a.phase = "answered" /\ a.snap = NoCopy /\ a.feed = Idle.feed
    BY <1>0 DEF RequestRecs, NoCopy
  <2> HIDE DEF a
  <2>3. FiledRequest(a)
    BY <2>2, IdleFiled, IdleSound DEF FiledRequest, Saving
  <2> QED
    BY <1>0, <2>1, <2>3, OneRequestFiled
<1>3. CASE ReadFeed(r)
  <2>1. request' = [request EXCEPT ![r] = [q EXCEPT !.phase = "check", !.feed = feed]]
    BY <1>0, <1>3 DEF ReadFeed
  <2>2. FiledRequest([q EXCEPT !.phase = "check", !.feed = feed])
    BY <1>0, <1>1 DEF FiledRequest, Saving
  <2>3. RequestsFiled'
    BY <1>0, <2>1, <2>2, OneRequestFiled
  <2> QED
    BY <1>3, <1>s, <2>3 DEF ReadFeed, pipelineVars
<1>4. CASE CheckEpisode(r)
  <2>1. \/ request' = [request EXCEPT ![r] = [q EXCEPT !.phase = "serve", !.snap = q.snap]]
        \/ /\ ReconcileSaves(q.snap, q.feed)
           /\ request' = [request EXCEPT ![r] =
                 [q EXCEPT !.phase = "checksave", !.snap = Reconciled(q.snap, q.feed)]]
    BY <1>0, <1>4 DEF CheckEpisode
  <2>2. FiledRequest([q EXCEPT !.phase = "serve", !.snap = q.snap])
    BY <1>0, <1>1 DEF FiledRequest, Saving
  <2>3. ReconcileSaves(q.snap, q.feed) =>
           FiledRequest([q EXCEPT !.phase = "checksave", !.snap = Reconciled(q.snap, q.feed)])
    BY <1>0, <1>1, ChecksFiled DEF FiledRequest
  <2>4. RequestsFiled'
    BY <1>0, <2>1, <2>2, <2>3, OneRequestFiled
  <2>5. UNCHANGED <<row, job>> /\ disk' \in {disk, [disk EXCEPT ![q.ep] = NoAudio]}
    BY <1>4 DEF CheckEpisode
  <2>6. FilesLost
    BY <1>0, <2>5 DEF FilesLost
  <2> QED
    BY <2>4, <2>5, <2>6, RowsStayFiled DEF JobsFiled, RecordingStays
<1>5. CASE SaveCheck(r) \/ SaveForgotten(r)
  <2>1. PICK p \in {"serve", "route"} :
           request' = [request EXCEPT ![r] = [q EXCEPT !.phase = p]]
    BY <1>0, <1>5 DEF SaveCheck, SaveForgotten
  <2>2. ~q.snap.cached
    BY <1>0, <1>5 DEF SaveCheck, SaveForgotten, FiledRequest, Saving
  <2>3. FiledRequest([q EXCEPT !.phase = p])
    BY <1>0, <1>1, <2>1, <2>2 DEF FiledRequest
  <2>4. RequestsFiled'
    BY <1>0, <2>1, <2>3, OneRequestFiled
  <2>5. row' = [row EXCEPT ![q.ep] = q.snap] /\ UNCHANGED <<disk, job>>
    BY <1>5 DEF SaveCheck, SaveForgotten
  <2>6. RowsRefiled
    BY <1>0, <2>2, <2>5, OneRowRefiled DEF Refiled
  <2> QED
    BY <2>4, <2>5, <2>6 DEF FilesLost, JobsFiled, RecordingStays
<1>6. CASE ServeCached(r)
  <2>1. \/ \E kind, audio : Answer(r, kind, audio)
        \/ request' = [request EXCEPT ![r] = [q EXCEPT !.phase = "forget", !.snap = ForgetCache(q.snap)]]
        \/ /\ ~q.snap.cached
           /\ request' = [request EXCEPT ![r] = [q EXCEPT !.phase = "route"]]
    BY <1>0, <1>6 DEF ServeCached
  <2>2. ~ForgetCache(q.snap).cached /\ Filed(ForgetCache(q.snap))
    BY <1>0, WritesFiled DEF FiledRequest, Filed
  <2>3. /\ FiledRequest([q EXCEPT !.phase = "forget", !.snap = ForgetCache(q.snap)])
        /\ ~q.snap.cached => FiledRequest([q EXCEPT !.phase = "route"])
    BY <1>0, <1>1, <2>2 DEF FiledRequest
  <2>4. RequestsFiled'
    BY <1>0, <1>2, <2>1, <2>3, OneRequestFiled
  <2> QED
    BY <1>6, <1>s, <2>4 DEF ServeCached, pipelineVars
<1>7. CASE Prepare(r)
  <2>1. \/ \E kind, audio : Answer(r, kind, audio)
        \/ request' = [request EXCEPT ![r] = [q EXCEPT !.phase = "waiting", !.waited = TRUE]]
    BY <1>0, <1>7 DEF Prepare
  <2>2. FiledRequest([q EXCEPT !.phase = "waiting", !.waited = TRUE])
    BY <1>0, <1>1 DEF FiledRequest, Saving
  <2>3. RequestsFiled'
    BY <1>0, <1>2, <2>1, <2>2, OneRequestFiled
  <2>4. ~q.snap.cached
    BY <1>0, <1>7 DEF Prepare, FiledRequest, Saving
  <2>5. CASE PrepareStarts(q.ep, q.snap, q.feed)
    BY <1>0, <2>3, <2>4, <2>5, PrepareStartsLabels DEF FilesLost
  <2> QED
    BY <1>7, <1>s, <2>3, <2>5 DEF Prepare, pipelineVars
<1>8. CASE Reread(r)
  <2>1. request' = [request EXCEPT ![r] = [q EXCEPT !.phase = "reread", !.snap = row[q.ep]]]
    BY <1>0, <1>8 DEF Reread
  <2>2. FiledRequest([q EXCEPT !.phase = "reread", !.snap = row[q.ep]])
    BY <1>0, <1>1 DEF Saving
  <2>3. RequestsFiled'
    BY <1>0, <2>1, <2>2, OneRequestFiled
  <2> QED
    BY <1>8, <1>s, <2>3 DEF Reread, pipelineVars
<1>9. CASE ServePrepared(r)
  <2>1. \/ \E kind, audio : Answer(r, kind, audio)
        \/ request' = [request EXCEPT ![r] = [q EXCEPT !.phase = "pass"]]
    BY <1>0, <1>9 DEF ServePrepared
  <2>2. FiledRequest([q EXCEPT !.phase = "pass"])
    BY <1>0, <1>1 DEF FiledRequest, Saving
  <2>3. RequestsFiled'
    BY <1>0, <1>2, <2>1, <2>2, OneRequestFiled
  <2> QED
    BY <1>9, <1>s, <2>3 DEF ServePrepared, pipelineVars
<1>10. CASE Redirect(r) \/ Stream(r) \/ DiscardTee(r) \/ StopWaiting(r)
  <2>1. RequestsFiled'
    BY <1>2, <1>10 DEF Redirect, Stream, DiscardTee, StopWaiting
  <2> QED
    BY <1>10, <1>s, <2>1 DEF Redirect, Stream, DiscardTee, StopWaiting, pipelineVars
<1>11. ~StartTee(r) /\ ~CommitTee(r) /\ ~SaveTee(r)
  BY <1>0 DEF StartTee, CommitTee, SaveTee, Teeable, Labelling, FiledRequest
<1> QED
  BY <1>3, <1>4, <1>5, <1>6, <1>7, <1>8, <1>9, <1>10, <1>11 DEF RequestStep, ServeStep

LEMMA AdminStepLabels ==
    ASSUME CopiesSound, RowsFiled, AdminsFiled, NEW a \in Admins,
           ChangeSettings(a) \/ AskToQueue(a) \/ AdminStep(a)
    PROVE  RowsRefiled /\ FilesLost /\ AdminsFiled'
<1> DEFINE q == admin[a]
<1>0. /\ q \in AdminRecs /\ q.copy \in [Episodes -> Rows] /\ FiledAdmin(q)
      /\ admin \in [Admins -> AdminRecs] /\ row \in [Episodes -> Rows]
      /\ q.todo \subseteq Nat /\ q.feed \in FeedSettings /\ disk \in [Episodes -> Audio]
      /\ \A e \in Episodes : Filed(row[e])
  BY PipelineAssumption
     DEF CopiesSound, PipelineSound, MaintenanceSound, SoundAdmins, SoundRows, AdminRecs,
         AdminsFiled, RowsFiled
<1>1. ASSUME NEW new, admin' = [admin EXCEPT ![a] = new], FiledAdmin(new) PROVE AdminsFiled'
  BY <1>0, <1>1 DEF AdminsFiled
<1>s. UNCHANGED <<row, disk>> => RowsRefiled /\ FilesLost
  BY RowsStayFiled DEF FilesLost
<1>2. ASSUME NEW new, admin' = [admin EXCEPT ![a] = new], UNCHANGED <<row, disk>>,
             new.phase # "save", new.copy = q.copy
      PROVE  RowsRefiled /\ FilesLost /\ AdminsFiled'
  BY <1>0, <1>1, <1>2, <1>s DEF FiledAdmin
<1>3. ASSUME NEW e \in Episodes, NEW c, Filed(c)
      PROVE  \A x \in Episodes : Filed([q.copy EXCEPT ![e] = c][x])
  BY <1>0, <1>3 DEF FiledAdmin
<1>4. CASE ChangeSettings(a)
  <2>1. admin' = [admin EXCEPT ![a] = [q EXCEPT !.phase = "list"]] /\ UNCHANGED <<row, disk>>
    BY <1>0, <1>4 DEF ChangeSettings
  <2>2. [q EXCEPT !.phase = "list"].copy = q.copy /\ [q EXCEPT !.phase = "list"].phase = "list"
    BY <1>0 DEF AdminRecs
  <2> QED
    BY <1>2, <2>1, <2>2
<1>5. CASE AskToQueue(a)
  <2>1. PICK kind, targets :
           admin' = [admin EXCEPT ![a].phase = "pick", ![a].todo = targets, ![a].kind = kind]
    BY <1>5 DEF AskToQueue
  <2> DEFINE new == [q EXCEPT !.phase = "pick", !.todo = targets, !.kind = kind]
  <2>2. admin' = [admin EXCEPT ![a] = new]
    BY <1>0, <2>1
  <2>3. new.copy = q.copy /\ new.phase = "pick"
    BY <1>0 DEF AdminRecs
  <2> HIDE DEF new
  <2> QED
    BY <1>2, <1>5, <2>2, <2>3 DEF AskToQueue, pipelineVars
<1>6. CASE ReconcileList(a)
  <2> DEFINE new == [q EXCEPT !.phase = "each", !.feed = feed, !.todo = Episodes, !.copy = row]
  <2>1. admin' = [admin EXCEPT ![a] = new] /\ UNCHANGED <<row, disk>>
    BY <1>0, <1>6 DEF ReconcileList, pipelineVars
  <2>2. new.copy = row /\ new.phase = "each"
    BY <1>0 DEF AdminRecs
  <2> HIDE DEF new
  <2>3. FiledAdmin(new)
    BY <1>0, <2>2 DEF FiledAdmin
  <2> QED
    BY <1>1, <1>s, <2>1, <2>3
<1>7. CASE ReconcileEnd(a)
  <2> DEFINE pick == [AdminIdle EXCEPT !.phase = "pick", !.todo = Episodes]
             new == IF q.feed.ahead THEN pick ELSE AdminIdle
  <2>1. UNCHANGED <<row, disk>> /\ admin' = [admin EXCEPT ![a] = new]
    BY <1>7 DEF ReconcileEnd, pipelineVars
  <2>2. pick.copy = AdminIdle.copy /\ pick.phase = "pick"
    BY DEF AdminIdle
  <2> HIDE DEF pick
  <2>3. FiledAdmin(new)
    BY <2>2, IdleFiled DEF FiledAdmin
  <2> HIDE DEF new
  <2> QED
    BY <1>1, <1>s, <2>1, <2>3
<1>8. CASE PickToQueue(a)
  <2> DEFINE ids == {e \in q.todo : ~preparing(e) /\ ~hidden[e]}
             apply == [q EXCEPT !.phase = "apply", !.todo = ids]
             new == IF Prepares(feed) /\ ids # {} THEN apply ELSE AdminIdle
  <2>1. UNCHANGED <<row, disk>> /\ admin' = [admin EXCEPT ![a] = new]
    BY <1>8 DEF PickToQueue, pipelineVars
  <2> HIDE DEF ids
  <2>2. apply.copy = q.copy /\ apply.phase = "apply"
    BY <1>0 DEF AdminRecs
  <2> HIDE DEF apply
  <2>3. FiledAdmin(new)
    BY <1>0, <2>2, IdleFiled DEF FiledAdmin
  <2> HIDE DEF new
  <2> QED
    BY <1>1, <1>s, <2>1, <2>3
<1>9. CASE ApplyQueue(a)
  <2>1. \A e \in Episodes : row'[e] \in {row[e], QueuedFailed(row[e]), QueuedUncached(row[e])}
    BY <1>9 DEF ApplyQueue
  <2>2. RowsRefiled
    BY <1>0, <2>1, WritesFiled DEF RowsRefiled
  <2>3. admin' = [admin EXCEPT ![a] = AdminIdle] /\ UNCHANGED disk
    BY <1>9 DEF ApplyQueue
  <2> QED
    BY <1>1, <2>2, <2>3, IdleFiled DEF FilesLost
<1>10. ASSUME NEW e \in Episodes, ReconcileSkip(a, e) PROVE RowsRefiled /\ FilesLost /\ AdminsFiled'
  <2> DEFINE new == [q EXCEPT !.todo = q.todo \ {e}, !.copy = [q.copy EXCEPT ![e] = NoCopy]]
  <2>1. UNCHANGED <<row, disk>> /\ admin' = [admin EXCEPT ![a] = new] /\ q.phase = "each"
    BY <1>0, <1>10 DEF ReconcileSkip, pipelineVars
  <2>2. new.copy = [q.copy EXCEPT ![e] = NoCopy] /\ new.phase = "each"
    BY <1>0, <2>1 DEF AdminRecs
  <2> HIDE DEF new
  <2>3. FiledAdmin(new)
    BY <1>3, <2>2, IdleFiled DEF FiledAdmin
  <2> QED
    BY <1>1, <1>s, <2>1, <2>3
<1>11. ASSUME NEW e \in Episodes, ReconcileEpisode(a, e)
       PROVE  RowsRefiled /\ FilesLost /\ AdminsFiled'
  <2> DEFINE c == Reconciled(q.copy[e], q.feed)
             new == [q EXCEPT !.phase = "save", !.copy = [q.copy EXCEPT ![e] = c]]
  <2>1. /\ UNCHANGED row /\ admin' = [admin EXCEPT ![a] = new]
        /\ Oldest(q.todo, e) /\ ReconcileSaves(q.copy[e], q.feed)
        /\ disk' \in {disk, [disk EXCEPT ![e] = NoAudio]}
    BY <1>0, <1>11 DEF ReconcileEpisode
  <2>2. new.copy = [q.copy EXCEPT ![e] = c] /\ new.todo = q.todo
    BY <1>0 DEF AdminRecs
  <2>3. ~c.cached /\ Filed(c)
    BY <1>0, <2>1, ChecksFiled DEF FiledAdmin
  <2> HIDE DEF new, c
  <2>4. \A x \in Episodes : Oldest(q.todo, x) => x = e
    BY <1>0, <2>1 DEF Oldest
  <2>5. FiledAdmin(new)
    BY <1>0, <1>3, <2>2, <2>3, <2>4 DEF FiledAdmin
  <2>6. FilesLost
    BY <1>0, <2>1 DEF FilesLost
  <2> QED
    BY <1>1, <2>1, <2>5, <2>6, RowsStayFiled
<1>12. ASSUME NEW e \in Episodes, ReconcileSave(a, e)
       PROVE  RowsRefiled /\ FilesLost /\ AdminsFiled'
  <2> DEFINE new == [q EXCEPT !.phase = "each", !.todo = q.todo \ {e},
                              !.copy = [q.copy EXCEPT ![e] = NoCopy]]
  <2>1. /\ row' = [row EXCEPT ![e] = q.copy[e]] /\ admin' = [admin EXCEPT ![a] = new]
        /\ q.phase = "save" /\ Oldest(q.todo, e) /\ UNCHANGED disk
    BY <1>0, <1>12 DEF ReconcileSave
  <2>2. new.copy = [q.copy EXCEPT ![e] = NoCopy] /\ new.phase = "each"
    BY <1>0 DEF AdminRecs
  <2> HIDE DEF new
  <2>3. FiledAdmin(new)
    BY <1>3, <2>2, IdleFiled DEF FiledAdmin
  <2>4. ~q.copy[e].cached
    BY <1>0, <2>1 DEF FiledAdmin
  <2>5. RowsRefiled
    BY <2>1, <2>4, OneRowRefiled DEF Refiled
  <2> QED
    BY <1>1, <2>1, <2>3, <2>5 DEF FilesLost
<1> QED
  BY <1>4, <1>5, <1>6, <1>7, <1>8, <1>9, <1>10, <1>11, <1>12 DEF AdminStep

(* A sweep saves a copy that has lost its file; a shown episode keeps it.  *)
LEMMA HousekeeperLabels ==
    ASSUME CopiesSound, RowsFiled,
           \/ SweepRemove \/ SweepSave
           \/ \E e \in Episodes : SweepList(e) \/ RemoveOrphan(e) \/ Hide(e) \/ Show(e)
    PROVE  RowsRefiled /\ FilesLost
<1>0. /\ sweep.copy \in Rows /\ sweep.ep \in Episodes /\ row \in [Episodes -> Rows]
      /\ disk \in [Episodes -> Audio]
  BY DEF CopiesSound, PipelineSound, MaintenanceSound, SoundSweeps, SweepRecs, SoundRows
<1>1. CASE SweepSave
  <2>1. ~ForgetCache(sweep.copy).cached
    BY <1>0 DEF ForgetCache, Rows
  <2> QED
    BY <1>0, <1>1, <2>1, OneRowRefiled DEF SweepSave, Refiled, FilesLost
<1>2. ASSUME SweepRemove \/ \E e \in Episodes : SweepList(e) \/ RemoveOrphan(e) \/ Hide(e)
      PROVE  RowsRefiled /\ FilesLost
  <2>1. UNCHANGED row /\ FilesLost
    BY <1>0, <1>2 DEF SweepRemove, SweepList, RemoveOrphan, Hide, FilesLost, pipelineVars
  <2> QED
    BY <2>1, RowsStayFiled
<1>3. ASSUME NEW e \in Episodes, Show(e) PROVE RowsRefiled /\ FilesLost
  <2> DEFINE next == IF Prepares(feed) /\ feed.ahead /\ ~row[e].cached THEN "due" ELSE "none"
             r == [row[e] EXCEPT !.backlog = TRUE, !.state = "ready", !.next = next]
  <2>1. UNCHANGED disk /\ (UNCHANGED row \/ row' = [row EXCEPT ![e] = r])
    BY <1>0, <1>3 DEF Show
  <2>2. Refiled(row[e], r)
    BY <1>0 DEF Rows, Refiled
  <2> HIDE DEF r
  <2> QED
    BY <2>1, <2>2, OneRowRefiled, RowsStayFiled DEF FilesLost
<1> QED
  BY <1>1, <1>2, <1>3

LEMMA NextLabels ==
    ASSUME Labelling, CopiesSound, RegistrySound, LabelsSound, [Next]_vars
    PROVE  LabelsSound'
<1>1. /\ RowsFiled /\ JobsFiled /\ RequestsFiled /\ AdminsFiled /\ FilesMade /\ LabelsTrue
      /\ life = "up" /\ ServerSound
      /\ UNCHANGED request => RequestsFiled'
      /\ UNCHANGED admin => AdminsFiled'
      /\ UNCHANGED job => JobsFiled' /\ RecordingStays
      /\ UNCHANGED row => RowsRefiled
      /\ UNCHANGED disk => FilesLost
  BY RowsStayFiled
     DEF LabelsSound, CopiesSound, RequestsFiled, AdminsFiled, JobsFiled, RecordingStays, FilesLost
<1>2. UNCHANGED life
  <2>1. ASSUME \/ \E w \in Workers : WorkerStep(w)
               \/ \E o \in Owners, e \in Episodes : JobStep(o, e) \/ EndJob(o, e)
               \/ \E e \in Episodes : TakeSlot(e) \/ ComeDue(e)
        PROVE  UNCHANGED life
    BY <2>1 DEF WorkerStep, ClaimNextEpisode, ClaimQueuedEpisode, RunBatch, StartFlight, LoadFeed,
       ClaimQueuedEpisodesForFeed, JoinBatch, JobStep, Attempt, RecordOutcome, AbandonJob, EndJob,
       EndFlight, TakeSlot, ComeDue
  <2>2. ASSUME NEW r \in Requests, RequestStep(r) \/ \E e \in Episodes : Ask(r, e)
        PROVE  UNCHANGED life
    BY <2>2 DEF Ask, RequestStep, ServeStep, ReadFeed, CheckEpisode, SaveCheck, ServeCached,
       SaveForgotten, Prepare, PrepareStarts, Reread, ServePrepared, Redirect, Stream, StartTee,
       CommitTee, DiscardTee, SaveTee, StopWaiting, pipelineVars
  <2>3. ASSUME NEW a \in Admins, ChangeSettings(a) \/ AskToQueue(a) \/ AdminStep(a)
        PROVE  UNCHANGED life
    <3>1. ASSUME ChangeSettings(a) \/ AskToQueue(a) \/ ReconcileList(a) \/ ReconcileEnd(a)
                 \/ PickToQueue(a) \/ ApplyQueue(a)
          PROVE  UNCHANGED life
      BY <3>1 DEF ChangeSettings, AskToQueue, ReconcileList, ReconcileEnd, PickToQueue, ApplyQueue,
         pipelineVars
    <3>2. ASSUME NEW e \in Episodes,
                 ReconcileSkip(a, e) \/ ReconcileEpisode(a, e) \/ ReconcileSave(a, e)
          PROVE  UNCHANGED life
      BY <3>2 DEF ReconcileSkip, ReconcileEpisode, ReconcileSave, pipelineVars
    <3> QED
      BY <2>3, <3>1, <3>2 DEF AdminStep
  <2>4. ASSUME \/ SweepRemove \/ SweepSave \/ UNCHANGED vars
               \/ \E e \in Episodes : SweepList(e) \/ RemoveOrphan(e) \/ Hide(e) \/ Show(e)
        PROVE  UNCHANGED life
    BY <2>4 DEF SweepRemove, SweepSave, SweepList, RemoveOrphan, Hide, Show, pipelineVars, vars
  <2>5. "crash" \notin Tasks
    BY DEF Labelling
  <2> QED
    BY <2>1, <2>2, <2>3, <2>4, <2>5 DEF Next
<1>3. ASSUME RowsRefiled, FilesLost, RecordingStays, JobsFiled', RequestsFiled', AdminsFiled'
      PROVE  LabelsSound'
  BY <1>1, <1>2, <1>3, LabelsKept DEF LabelsSound
<1>4. ASSUME NEW w \in Workers, WorkerStep(w), UNCHANGED <<maintenanceVars, request>>
      PROVE  LabelsSound'
  BY <1>1, <1>3, <1>4, WorkerStepLabels DEF maintenanceVars
<1>5. ASSUME NEW o \in Owners, NEW e \in Episodes, JobStep(o, e),
             UNCHANGED <<maintenanceVars, request>>
      PROVE  LabelsSound'
  BY <1>1, <1>2, <1>5, JobStepLabels DEF maintenanceVars, LabelsSound
<1>6. ASSUME NEW e \in Episodes, TakeSlot(e) \/ ComeDue(e), UNCHANGED <<maintenanceVars, request>>
      PROVE  LabelsSound'
  BY <1>1, <1>3, <1>6, SlotAndTimeLabels DEF maintenanceVars
<1>7. ASSUME NEW o \in Owners, NEW e \in Episodes, EndJob(o, e) PROVE LabelsSound'
  <2>1. EndFlight(o, e) /\ WakeWaiting(e) /\ UNCHANGED maintenanceVars
    BY <1>7 DEF EndJob
  <2>2. ASSUME NEW r \in Requests PROVE FiledRequest(request'[r])
    <3>1. request[r] \in RequestRecs /\ FiledRequest(request[r])
      BY <1>1 DEF ServerSound, SoundRequests, RequestsFiled
    <3>2. FiledRequest([request[r] EXCEPT !.phase = "woken"])
      BY <3>1 DEF RequestRecs, FiledRequest, Saving
    <3> QED
      BY <2>1, <3>1, <3>2 DEF WakeWaiting
  <2>3. RequestsFiled'
    BY <2>2 DEF RequestsFiled
  <2> QED
    BY <1>1, <1>3, <2>1, <2>3, SlotAndTimeLabels DEF maintenanceVars
<1>8. ASSUME NEW r \in Requests, NEW e \in Episodes, Ask(r, e), UNCHANGED maintenanceVars
      PROVE  LabelsSound'
  <2> DEFINE q == [RequestIdle EXCEPT !.phase = "feed", !.ep = e, !.snap = row[e], !.asked = feed]
  <2>1. request' = [request EXCEPT ![r] = q] /\ UNCHANGED <<row, disk, job>>
    BY <1>8 DEF Ask, pipelineVars
  <2>2. q.phase = "feed" /\ q.snap = row[e] /\ q.feed = RequestIdle.feed
    BY DEF RequestIdle
  <2> HIDE DEF q
  <2>3. FiledRequest(q)
    BY <1>1, <2>2, IdleFiled DEF FiledRequest, RowsFiled, Saving
  <2> QED
    BY <1>1, <1>3, <1>8, <2>1, <2>3, OneRequestFiled DEF maintenanceVars
<1>9. ASSUME NEW r \in Requests, RequestStep(r), UNCHANGED maintenanceVars PROVE LabelsSound'
  BY <1>1, <1>3, <1>9, RequestStepLabels DEF maintenanceVars
<1>10. ASSUME NEW a \in Admins, ChangeSettings(a) \/ AskToQueue(a) \/ AdminStep(a), UNCHANGED request
       PROVE  LabelsSound'
  <2>1. UNCHANGED job
    BY <1>10 DEF ChangeSettings, AskToQueue, AdminStep, ReconcileList, ReconcileEnd, PickToQueue,
       ApplyQueue, ReconcileSkip, ReconcileEpisode, ReconcileSave, pipelineVars
  <2> QED
    BY <1>1, <1>3, <1>10, <2>1, AdminStepLabels
<1>11. ASSUME \/ SweepRemove \/ SweepSave
              \/ \E e \in Episodes : SweepList(e) \/ RemoveOrphan(e) \/ Hide(e) \/ Show(e),
              UNCHANGED request
       PROVE  LabelsSound'
  <2>1. UNCHANGED <<job, admin>>
    BY <1>11 DEF SweepRemove, SweepSave, SweepList, RemoveOrphan, Hide, Show, pipelineVars,
       maintenanceVars
  <2> QED
    BY <1>1, <1>3, <1>11, <2>1, HousekeeperLabels
<1>12. CASE UNCHANGED vars
  BY <1>1, <1>3, <1>12 DEF vars, pipelineVars, maintenanceVars
<1>13. "crash" \notin Tasks
  BY DEF Labelling
<1> QED
  BY <1>4, <1>5, <1>6, <1>7, <1>8, <1>9, <1>10, <1>11, <1>12, <1>13 DEF Next

LEMMA InitLabels == Init => LabelsSound
<1> SUFFICES ASSUME Init PROVE LabelsSound
  OBVIOUS
<1>1. \A e \in Episodes : ~row[e].cached
  BY DEF Init, PipelineInit, NewRow
<1>2. life = "up" /\ \A e \in Episodes : disk[e] = NoAudio
  BY DEF Init, PipelineInit
<1>3. JobsFiled /\ RequestsFiled /\ AdminsFiled /\ FilesMade
  BY IdleFiled, PhasesOfNewJobs
     DEF Init, PipelineInit, MaintenanceInit, ServerInit, JobsFiled, RequestsFiled, AdminsFiled,
         FilesMade
<1> QED
  BY <1>1, <1>2, <1>3 DEF LabelsSound, RowsFiled, Filed, LabelsTrue

(* The file of a ready episode was made the way its label says, whoever    *)
(* changes settings, queues, sweeps, hides and asks meanwhile, and however *)
(* old the copies that checks, sweeps and requests save: of feeds that are *)
(* prepared, without kept streams and without jobs that break off.         *)
THEOREM LabelsTellTruth ==
    ASSUME Labelling
    PROVE  Spec => []LabelTellsTruth
<1>1. CopiesSound /\ RegistrySound /\ LabelsSound /\ [Next]_vars => LabelsSound'
  BY NextLabels
<1>2. CopiesSound /\ RegistrySound /\ [Next]_vars => RegistrySound'
  BY NextRegistry
<1>3. LabelsSound => LabelTellsTruth
  BY DEF LabelsSound, LabelsTrue, LabelTellsTruth, HasFile
<1> QED
  BY <1>1, <1>2, <1>3, InitLabels, InitRegistry, CopiesAlwaysSound, PTL DEF Spec
=============================================================================
