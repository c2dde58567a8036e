----------------------------- MODULE EpisodeRow -----------------------------
(***************************************************************************)
(* One episode as the database stores it, and what the code computes from  *)
(* it in memory: the recipe of a feed's settings, the outcome of an        *)
(* attempt (recordOutcome), the check against changed settings             *)
(* (reconcileEpisode), and the queries that pick work.  No state here:     *)
(* EpisodePipeline and the modules above it hold rows and copies of rows.  *)
(*                                                                         *)
(* Data kept: what a claim, an outcome or a check reads.  The attempt time *)
(* next_attempt_at is "none", "due" (not after now) or "later".  The three *)
(* counters stop at the first value past every comparison the code makes,  *)
(* so stopping there loses nothing.                                        *)
(***************************************************************************)
EXTENDS Integers, FiniteSets

CONSTANTS
    RetryDelays,          \* len(retryDelays): scheduled retries of a claimed episode
    WithheldRetryDelays,  \* len(withheldRetryDelays): slow retries of a withheld one
    MaxRequestFailures,   \* maxRequestFailures: failures in a row on request
    Variants              \* the exits, region pairs and processor settings a feed may name

ASSUME DelaysAssumption ==
    /\ RetryDelays \in Nat
    /\ WithheldRetryDelays \in Nat \ {0}
    /\ MaxRequestFailures \in Nat \ {0}

NoVariant == "none"

States == {"discovered", "acquiring", "ready", "failed"}

Times == {"none", "due", "later"}

(* A feed's settings, as far as preparing its episodes depends on them.    *)
FeedSettings ==
    [ mode      : {"cache", "stream", "original"},
      processed : BOOLEAN,    \* the processor handles the feed
      hide      : BOOLEAN,    \* on failure: hide, rather than publish unprocessed
      ahead     : BOOLEAN,    \* prepare_ahead
      with      : Variants ]

(* PreparedWith: the recipe, and what the failure policy did if it failed. *)
Recipes ==
    [ by     : {"none", "download", "processor"},
      with   : Variants \cup {NoVariant},
      failed : {"no", "published", "withheld"} ]

NoRecipe == [by |-> "none", with |-> NoVariant, failed |-> "no"]

(* A file in the cache: how it was made, and through what.                 *)
Audio ==
    [ by   : {"none", "download", "processor"},
      with : Variants \cup {NoVariant} ]

NoAudio == [by |-> "none", with |-> NoVariant]

Rows ==
    [ state          : States,
      attempts       : 0 .. RetryDelays + 1,
      failedAttempts : 0 .. MaxRequestFailures,
      lateRetries    : 0 .. WithheldRetryDelays,
      next           : Times,
      withheld       : BOOLEAN,
      preparedWith   : Recipes,
      cached         : BOOLEAN,     \* cache_file is set
      note           : BOOLEAN,     \* a processor left a note
      backlog        : BOOLEAN ]

(* A row as a poll or a subscription creates it.                           *)
NewRow(state, backlog) ==
    [ state |-> state, attempts |-> 0, failedAttempts |-> 0, lateRetries |-> 0,
      next |-> "none", withheld |-> FALSE, preparedWith |-> NoRecipe,
      cached |-> FALSE, note |-> FALSE, backlog |-> backlog ]

Up(n, cap) == IF n < cap THEN n + 1 ELSE cap

(* Nothing failed, and no attempt is due.                                  *)
NoFailure(r) ==
    [r EXCEPT !.failedAttempts = 0, !.lateRetries = 0, !.next = "none", !.withheld = FALSE]

-----------------------------------------------------------------------------
(* Recipes (reconcile.go).                                                 *)

Recipe(f) ==
    CASE f.processed -> [by |-> "processor", with |-> f.with, failed |-> "no"]
      [] ~f.processed /\ f.mode = "cache" ->
            [by |-> "download", with |-> f.with, failed |-> "no"]
      [] OTHER -> NoRecipe

FailedRecipe(f) ==
    [Recipe(f) EXCEPT !.failed = IF f.processed /\ f.hide THEN "withheld" ELSE "published"]

Prepares(f) == f.processed \/ f.mode = "cache"

-----------------------------------------------------------------------------
(* What claims look for (database/pipeline.go).  preparing in the          *)
(* background is only for feeds the pipeline prepares; hidden and dropped  *)
(* episodes are kept apart from the row and tested by the caller.          *)

WaitingForFirst(r) == r.state = "discovered" /\ r.next # "later"

Queueable(r) == r.state = "failed" \/ (r.state = "ready" /\ ~r.cached)

QueuedAndDue(r) == r.next = "due" /\ Queueable(r)

-----------------------------------------------------------------------------
(* recordOutcome: snap is the row as it was claimed, f the settings the    *)
(* attempt ran with, processing whether the processor ran.                 *)

Succeeded(snap, f, processing) ==
    [NoFailure(snap) EXCEPT !.state = "ready", !.attempts = Up(@, RetryDelays + 1),
                            !.preparedWith = Recipe(f), !.cached = TRUE, !.note = processing]

(* Every failed attempt is counted.                                        *)
Counted(snap) ==
    [snap EXCEPT !.attempts = Up(@, RetryDelays + 1),
                 !.failedAttempts = Up(@, MaxRequestFailures)]

(* Mutant: a failed late retry schedules no further one.                   *)
FailedAgainForgotten(snap, f) ==
    [Counted(snap) EXCEPT !.lateRetries = Up(@, WithheldRetryDelays),
                          !.next = "none", !.preparedWith = FailedRecipe(f)]

(* A late retry failed: the episode stays failed.                          *)
FailedAgain(snap, f) ==
    LET late == Up(snap.lateRetries, WithheldRetryDelays)
    IN  [Counted(snap) EXCEPT
            !.lateRetries = late, !.preparedWith = FailedRecipe(f),
            !.next = IF snap.withheld /\ late < WithheldRetryDelays THEN "later" ELSE "none"]

(* Mutant: an episode is withheld without an attempt time.                 *)
GaveUpForGood(snap, f, processing) ==
    [Counted(snap) EXCEPT
        !.state = "failed", !.lateRetries = 0, !.preparedWith = FailedRecipe(f),
        !.next = "none", !.withheld = IF processing THEN f.hide ELSE @]

(* The failure policy applies.                                             *)
GaveUp(snap, f, processing) ==
    [Counted(snap) EXCEPT
        !.state = "failed", !.lateRetries = 0, !.preparedWith = FailedRecipe(f),
        !.next = IF processing /\ f.hide THEN "later" ELSE "none",
        !.withheld = IF processing THEN f.hide ELSE @]

(* Mutant: a claimed episode is retried without end.                       *)
GivesUpOnRequestsOnly(snap, permanent) ==
    \/ permanent
    \/ snap.state # "acquiring" /\ Up(snap.failedAttempts, MaxRequestFailures) >= MaxRequestFailures

GivesUp(snap, permanent) ==
    \/ permanent
    \/ snap.state = "acquiring" /\ Up(snap.attempts, RetryDelays + 1) > RetryDelays
    \/ snap.state # "acquiring" /\ Up(snap.failedAttempts, MaxRequestFailures) >= MaxRequestFailures

(* Mutant: every failure goes on the retry schedule, an episode that was   *)
(* already published too.                                                  *)
TriedAgainOnSchedule(snap) ==
    [Counted(snap) EXCEPT !.state = "discovered", !.next = "later"]

(* Tried again: on the retry schedule if claimed, else at the next request. *)
TriedAgain(snap) ==
    IF snap.state = "acquiring"
    THEN [Counted(snap) EXCEPT !.state = "discovered", !.next = "later"]
    ELSE [Counted(snap) EXCEPT !.next = "none"]

Failure(snap, f, processing, permanent) ==
    CASE snap.state = "failed" -> FailedAgain(snap, f)
      [] snap.state # "failed" /\ GivesUp(snap, permanent) -> GaveUp(snap, f, processing)
      [] OTHER -> TriedAgain(snap)

-----------------------------------------------------------------------------
(* reconcileEpisode, in memory.                                            *)

ForgetCache(r) == [r EXCEPT !.cached = FALSE]

ClearedFile(r) ==
    [ForgetCache(r) EXCEPT !.note = FALSE, !.preparedWith = NoRecipe]

(* A failed episode under other settings or another policy starts afresh.  *)
FreshStart(r, f) ==
    [NoFailure(ClearedFile(r)) EXCEPT
        !.attempts = 0,
        !.state = IF r.backlog \/ ~Prepares(f) THEN "ready" ELSE "discovered"]

FailureOutdated(r, f) ==
    r.state = "failed" /\ r.preparedWith \notin {FailedRecipe(f), NoRecipe}

(* Withheld before withheld episodes were retried: its retries start now.  *)
RestartsSlowRetries(r) ==
    r.state = "failed" /\ r.withheld /\ r.next = "none" /\ r.lateRetries = 0

HasFile(r) == r.state = "ready" /\ r.cached

FileUnlabelled(r, f) ==
    HasFile(r) /\ r.preparedWith = NoRecipe /\ (~f.processed \/ r.note)

FileOutdated(r, f) ==
    HasFile(r) /\ r.preparedWith # Recipe(f) /\ ~FileUnlabelled(r, f)

(* The row reconcileEpisode leaves.                                        *)
Reconciled(r, f) ==
    CASE FailureOutdated(r, f) -> FreshStart(r, f)
      [] r.state = "failed" /\ ~FailureOutdated(r, f) ->
            [r EXCEPT !.preparedWith = FailedRecipe(f),
                      !.next = IF RestartsSlowRetries(r) THEN "due" ELSE @]
      [] FileUnlabelled(r, f) -> [r EXCEPT !.preparedWith = Recipe(f)]
      [] FileOutdated(r, f) -> ClearedFile(r)
      [] OTHER -> r

(* Whether it reports a change, which the caller then saves.               *)
ReconcileSaves(r, f) ==
    \/ FailureOutdated(r, f)
    \/ r.state = "failed" /\ (r.preparedWith = NoRecipe \/ RestartsSlowRetries(r))
    \/ FileUnlabelled(r, f)
    \/ FileOutdated(r, f)

(* Whether it also deletes the file in the cache.                          *)
DropsFile(r, f) == (FailureOutdated(r, f) \/ FileOutdated(r, f)) /\ r.cached

-----------------------------------------------------------------------------
(* Every row the writers leave, however old the copy they write back, is   *)
(* one the rest of the code can act on: only a failed episode is withheld  *)
(* (a ready one would never be served again); a withheld one has a next    *)
(* attempt or has used its slow retries up (nothing else tries it again);  *)
(* a waiting one has a retry left, so retryDelays is never indexed past    *)
(* its end; and PreparedWith says "failed" exactly when the state does, as *)
(* reconcileEpisode takes for granted when it compares the two.            *)
RowSound(r) ==
    /\ r.withheld => r.state = "failed"
    /\ r.withheld => r.next # "none" \/ r.lateRetries >= WithheldRetryDelays
    /\ r.state \in {"discovered", "acquiring"} => r.attempts <= RetryDelays
    /\ r.state = "failed" <=> r.preparedWith.failed # "no"
=============================================================================
