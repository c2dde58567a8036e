---------------------------- MODULE EpisodeServer ----------------------------
(***************************************************************************)
(* Serving an episode's audio: Server.Serve from the first read of the row *)
(* to the answer.  A request keeps its copy of the row and of the settings *)
(* and writes the copy back in three places (a failed check, a missing     *)
(* file, a finished tee).  It may wait for a job of the pipeline.          *)
(***************************************************************************)
EXTENDS EpisodePipeline

CONSTANT Requests    \* clients' requests at the same time

VARIABLE request

RequestPhases == {"idle", "feed", "check", "checksave", "serve", "forget", "route",
                  "waiting", "woken", "reread", "pass", "tee", "teesave", "answered"}

Answers == {"none", "file", "stream", "redirect", "unavailable", "notfound"}

RequestRecs ==
    [ phase  : RequestPhases,
      ep     : Episodes,
      snap   : Rows,           \* its copy of the row
      feed   : FeedSettings,   \* its copy of the settings
      asked  : FeedSettings,   \* the settings when it came in
      waited : BOOLEAN,        \* it waited for a job
      answer : Answers,
      audio  : Audio ]         \* the cached file it got

RequestIdle ==
    [ phase |-> "idle", ep |-> CHOOSE e \in Episodes : TRUE, snap |-> Idle.snap,
      feed |-> Idle.feed, asked |-> Idle.feed, waited |-> FALSE,
      answer |-> "none", audio |-> NoAudio ]

ServerInit == request = [r \in Requests |-> RequestIdle]

(* Every answer ends the request; what it held no longer matters.          *)
Answer(r, kind, audio) ==
    request' = [request EXCEPT ![r] =
        [@ EXCEPT !.phase = "answered", !.snap = Idle.snap, !.feed = Idle.feed,
                  !.answer = kind, !.audio = audio]]

-----------------------------------------------------------------------------
Ask(r, e) ==
    /\ life = "up" /\ request[r].phase \in {"idle", "answered"}
    /\ request' = [request EXCEPT ![r] =
          [RequestIdle EXCEPT !.phase = "feed", !.ep = e, !.snap = row[e], !.asked = feed]]
    /\ UNCHANGED pipelineVars

ReadFeed(r) ==
    /\ request[r].phase = "feed"
    /\ request' = [request EXCEPT ![r].phase = "check", ![r].feed = feed]
    /\ UNCHANGED pipelineVars

(* CheckEpisode: reconcile the copy, unless a job is preparing the episode. *)
CheckEpisode(r) ==
    LET q == request[r]
        saves == ~preparing(q.ep) /\ ReconcileSaves(q.snap, q.feed)
    IN  /\ q.phase = "check"
        /\ request' = [request EXCEPT ![r].phase = IF saves THEN "checksave" ELSE "serve",
                                      ![r].snap = IF saves THEN Reconciled(@, q.feed) ELSE @]
        /\ disk' = IF saves /\ DropsFile(q.snap, q.feed)
                   THEN [disk EXCEPT ![q.ep] = NoAudio] ELSE disk
        /\ UNCHANGED <<row, hidden, feed, inFlight, job, life>>

SaveCheck(r) ==
    /\ request[r].phase = "checksave"
    /\ row' = [row EXCEPT ![request[r].ep] = request[r].snap]
    /\ request' = [request EXCEPT ![r].phase = "serve"]
    /\ UNCHANGED <<hidden, disk, feed, inFlight, job, life>>

(* A withheld episode is not found; a cached file is served; a file that   *)
(* is gone is forgotten.                                                   *)
ServeCached(r) ==
    LET q == request[r]
    IN  /\ q.phase = "serve"
        /\ \/ /\ q.snap.withheld
              /\ Answer(r, "notfound", NoAudio)
           \/ /\ ~q.snap.withheld /\ q.snap.cached /\ disk[q.ep] # NoAudio
              /\ Answer(r, "file", disk[q.ep])
           \/ /\ ~q.snap.withheld /\ q.snap.cached /\ disk[q.ep] = NoAudio
              /\ request' = [request EXCEPT ![r].phase = "forget", ![r].snap = ForgetCache(@)]
           \/ /\ ~q.snap.withheld /\ ~q.snap.cached
              /\ request' = [request EXCEPT ![r].phase = "route"]
        /\ UNCHANGED pipelineVars

SaveForgotten(r) ==
    /\ request[r].phase = "forget"
    /\ row' = [row EXCEPT ![request[r].ep] = request[r].snap]
    /\ request' = [request EXCEPT ![r].phase = "route"]
    /\ UNCHANGED <<hidden, disk, feed, inFlight, job, life>>

(* Mutant: an episode that waits for its turn or its retry is streamed.    *)
MustWaitIfReady(q) == q.feed.processed /\ q.snap.state = "ready"

MustWait(q) == q.feed.processed /\ q.snap.state # "failed"

(* awaitProcessing: Prepare, from the copies the request has.              *)
Prepare(r) ==
    LET q == request[r]
    IN  /\ q.phase = "route" /\ MustWait(q)
        /\ \/ /\ PrepareJoins(q.ep)
              /\ request' = [request EXCEPT ![r].phase = "waiting", ![r].waited = TRUE]
              /\ UNCHANGED pipelineVars
           \/ /\ PrepareBusy(q.ep, q.snap)
              /\ Answer(r, "unavailable", NoAudio)
              /\ UNCHANGED pipelineVars
           \/ /\ PrepareStarts(q.ep, q.snap, q.feed)
              /\ request' = [request EXCEPT ![r].phase = "waiting", ![r].waited = TRUE]

(* The client's wait runs out, or the client leaves.                       *)
StopWaiting(r) ==
    /\ request[r].phase = "waiting"
    /\ Answer(r, "unavailable", NoAudio)
    /\ UNCHANGED pipelineVars

(* Mutant: the end of a job reaches one of those that wait, as a value     *)
(* sent on the channel would.                                              *)
WakeOne(e) ==
    LET waiting == {r \in Requests : request[r].phase = "waiting" /\ request[r].ep = e}
    IN  request' = IF waiting = {} THEN request
                   ELSE [request EXCEPT ![CHOOSE r \in waiting : TRUE].phase = "woken"]

(* Mutant: an attempt that failed returns without closing the channel.     *)
WakeOnSuccess(e) ==
    request' = [r \in Requests |->
                  IF request[r].phase = "waiting" /\ request[r].ep = e /\ row[e].cached
                  THEN [request[r] EXCEPT !.phase = "woken"] ELSE request[r]]

(* close(done) wakes every request that waits for the episode.             *)
WakeWaiting(e) ==
    request' = [r \in Requests |->
                  IF request[r].phase = "waiting" /\ request[r].ep = e
                  THEN [request[r] EXCEPT !.phase = "woken"] ELSE request[r]]

Reread(r) ==
    /\ request[r].phase = "woken"
    /\ request' = [request EXCEPT ![r].phase = "reread", ![r].snap = row[request[r].ep]]
    /\ UNCHANGED pipelineVars

(* What the job left is served, without another check of the settings.     *)
ServePrepared(r) ==
    LET q == request[r]
    IN  /\ q.phase = "reread"
        /\ \/ /\ q.snap.cached /\ disk[q.ep] # NoAudio
              /\ Answer(r, "file", disk[q.ep])
           \/ /\ q.snap.cached /\ disk[q.ep] = NoAudio
              /\ Answer(r, "unavailable", NoAudio)
           \/ /\ ~q.snap.cached /\ q.snap.withheld
              /\ Answer(r, "notfound", NoAudio)
           \/ /\ ~q.snap.cached /\ ~q.snap.withheld /\ q.snap.state # "failed"
              /\ Answer(r, "unavailable", NoAudio)
           \/ /\ ~q.snap.cached /\ ~q.snap.withheld /\ q.snap.state = "failed"
              /\ request' = [request EXCEPT ![r].phase = "pass"]
        /\ UNCHANGED pipelineVars

-----------------------------------------------------------------------------
(* Passing the source through: a redirect, a stream, or a stream that is   *)
(* also written to the cache (a tee).                                      *)

Passes(q) == q.phase = "pass" \/ (q.phase = "route" /\ ~MustWait(q))

Teeing(e) == \E r \in Requests : request[r].ep = e /\ request[r].phase \in {"tee", "teesave"}

Teeable(q) ==
    /\ q.feed.mode = "cache"
    /\ \/ q.snap.state = "failed"
       \/ ~q.feed.processed /\ (q.snap.backlog \/ q.snap.state = "ready")
    /\ ~preparing(q.ep)
    /\ ~Teeing(q.ep)

Redirect(r) ==
    /\ Passes(request[r]) /\ request[r].feed.mode = "original"
    /\ Answer(r, "redirect", NoAudio)
    /\ UNCHANGED pipelineVars

(* A HEAD or a Range request, or one that may not be kept.                 *)
Stream(r) ==
    /\ Passes(request[r]) /\ request[r].feed.mode # "original"
    /\ Answer(r, "stream", NoAudio)
    /\ UNCHANGED pipelineVars

StartTee(r) ==
    /\ Passes(request[r]) /\ Teeable(request[r])
    /\ request' = [request EXCEPT ![r].phase = "tee"]
    /\ UNCHANGED pipelineVars

(* The whole source is in, and the part file takes the episode's path.     *)
CommitTee(r) ==
    LET q == request[r]
    IN  /\ q.phase = "tee"
        /\ disk' = [disk EXCEPT ![q.ep] = [by |-> "download", with |-> q.feed.with]]
        /\ request' = [request EXCEPT ![r].phase = "teesave"]
        /\ UNCHANGED <<row, hidden, feed, inFlight, job, life>>

(* The source broke off: nothing is kept.                                  *)
DiscardTee(r) ==
    /\ request[r].phase = "tee"
    /\ Answer(r, "stream", NoAudio)
    /\ UNCHANGED pipelineVars

(* The row a finished tee saves: a failed download recovers this way, a    *)
(* processed feed's failed episode stays failed.                           *)
Teed(snap, f) ==
    LET state == IF snap.state = "failed" /\ ~f.processed THEN "ready" ELSE snap.state
    IN  [snap EXCEPT !.cached = TRUE, !.state = state,
                     !.preparedWith = IF state = "ready" THEN Recipe(f) ELSE @]

SaveTee(r) ==
    LET q == request[r]
    IN  /\ q.phase = "teesave"
        /\ row' = [row EXCEPT ![q.ep] = Teed(q.snap, q.feed)]
        /\ Answer(r, "stream", NoAudio)
        /\ UNCHANGED <<hidden, disk, feed, inFlight, job, life>>

(* The steps the server takes on its own once a client has asked.          *)
ServeStep(r) ==
    \/ ReadFeed(r) \/ CheckEpisode(r) \/ SaveCheck(r) \/ ServeCached(r) \/ SaveForgotten(r)
    \/ Prepare(r) \/ Reread(r) \/ ServePrepared(r)
    \/ Redirect(r) \/ Stream(r) \/ StartTee(r) \/ CommitTee(r) \/ DiscardTee(r) \/ SaveTee(r)

RequestStep(r) == ServeStep(r) \/ StopWaiting(r)
=============================================================================
