-------------------------- MODULE EpisodeLifecycle --------------------------
(***************************************************************************)
(* What the pipeline promises about an episode as long as nobody changes   *)
(* its feed's settings: it waits, is prepared, and is then either in the   *)
(* feed for good or withheld from it.  A failed attempt or a crash puts it *)
(* back to waiting only while it is being prepared for the first time.     *)
(* An episode in the feed leaves it only when attempts to prepare it again *)
(* fail and the failure policy hides it; a withheld one joins the feed     *)
(* when a late retry succeeds.                                             *)
(***************************************************************************)
CONSTANTS
    Episodes,
    Hiding      \* whether rules and polls may hide episodes and show them again

VARIABLE stage    \* each episode's stage

Stages == {"waiting", "preparing", "inFeed", "withheld"}

Moves(e, from, to) ==
    /\ stage[e] \in from
    /\ \E s \in to : stage' = [stage EXCEPT ![e] = s]

Init == stage \in [Episodes -> {"waiting", "inFeed"}]

Begin(e)  == Moves(e, {"waiting"}, {"preparing"})

(* A retry is scheduled, or the process stopped before an outcome.         *)
PutBack(e) == Moves(e, {"preparing"}, {"waiting"})

Settle(e) == Moves(e, {"preparing"}, {"inFeed", "withheld"})

(* Attempts on request, and late retries.                                  *)
Withhold(e) == Moves(e, {"inFeed"}, {"withheld"})
Reveal(e)   == Moves(e, {"withheld"}, {"inFeed"})

(* Shown again before any feed had it: published as backlog.               *)
Show(e) == Hiding /\ Moves(e, {"waiting"}, {"inFeed"})

(* A start puts every interrupted episode back at once.                    *)
PutAllBack ==
    stage' = [e \in Episodes |-> IF stage[e] = "preparing" THEN "waiting" ELSE stage[e]]

Next ==
    \/ \E e \in Episodes : Begin(e) \/ PutBack(e) \/ Settle(e) \/ Withhold(e) \/ Reveal(e) \/ Show(e)
    \/ PutAllBack

Spec == Init /\ [][Next]_stage

(* While the process stays up, no episode waits or is prepared for ever.   *)
Fairness == \A e \in Episodes : WF_stage(Begin(e)) /\ SF_stage(Settle(e))
=============================================================================
