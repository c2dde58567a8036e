--------------------------- MODULE DroppedEpisodes ---------------------------
(***************************************************************************)
(* Beside the poller and the administrator, three others write the rows of *)
(* a feed: the job that prepares an episode, the housekeeper's sweep over  *)
(* the episodes the source no longer lists, and the buttons of the feed    *)
(* page that serve or delete one of these.  Each works on a copy.          *)
(***************************************************************************)
EXTENDS FeedService

VARIABLES
    worker,    \* the job
    sweep      \* the housekeeper's list, and what it has checked this run

droppedVars == <<worker, sweep>>

WorkerIdle == [item |-> 0, copy |-> NoRow, settings |-> NewSettings]

Workers == [item : 0 .. N, copy : Rows \cup {NoRow}, settings : Settings]

SweepIdle(checked) ==
    [ left |-> {}, copy |-> [i \in Items |-> NoRow], settings |-> NewSettings,
      checked |-> checked ]

Sweeps ==
    [ left : SUBSET Items, copy : [Items -> Rows \cup {NoRow}], settings : Settings,
      checked : [Items -> SUBSET (1 .. MaxIds)] ]

DroppedInit ==
    /\ worker = WorkerIdle
    /\ sweep = SweepIdle([i \in Items |-> {}])

(* The row a copy was taken of is still there.                             *)
Current(i, copy) == rows[i] # NoRow /\ rows[i].id = copy.id

Preparing(i, copy) == worker.item = i /\ worker.copy.id = copy.id

-----------------------------------------------------------------------------
(* The job, as far as feeds see it (EpisodePipeline has it in detail).     *)

(* Mutant: every episode being prepared is marked so.                      *)
ClaimedAll(r) == [r EXCEPT !.state = "acquiring"]

(* A new episode is claimed; a published one without its file is taken as  *)
(* it is, and so is a withheld one that is tried again.                    *)
Claimed(r) == IF r.state = "discovered" THEN [r EXCEPT !.state = "acquiring"] ELSE r

Preparable(r) ==
    \/ r.state = "discovered"
    \/ r.state = "ready" /\ ~r.cached
    \/ r.state = "failed" /\ r.withheld

StartWork ==
    /\ worker = WorkerIdle /\ feed.id # 0 /\ Prepares(feed.settings) /\ Begin("job")
    /\ \E i \in Stored(rows) :
          /\ Preparable(rows[i])
          /\ rows' = [rows EXCEPT ![i] = Claimed(@)]
          /\ worker' = [item |-> i, copy |-> Claimed(rows[i]), settings |-> feed.settings]
    /\ UNCHANGED <<source, feed, document, rules, made, poll, client, admin, time, ghosts, sweep>>

(* Prepared, tried again later, or given up.                               *)
Outcomes(copy, s) ==
    {[copy EXCEPT !.state = "ready", !.cached = TRUE, !.withheld = FALSE],
     [copy EXCEPT !.state = IF @ = "acquiring" THEN "discovered" ELSE @]}
        \cup
    IF copy.state = "failed" THEN {}
    ELSE {[copy EXCEPT !.state = "failed", !.withheld = IF s.processed THEN s.hide ELSE @]}

(* Mutant: the job writes back when the episode was released.              *)
SavedRowReleased(i, row) ==
    [row EXCEPT !.hidden = rows[i].hidden,
                !.dropped = rows[i].dropped, !.serve = rows[i].serve]

(* UpdateEpisode: the whole copy, but for what only others set.            *)
SavedRow(i, row) ==
    [row EXCEPT !.hidden = rows[i].hidden, !.released = rows[i].released,
                !.dropped = rows[i].dropped, !.serve = rows[i].serve]

(* noteGone: a dropped one whose source says that its audio is gone.       *)
NotedGone(i, copy, row) ==
    IF copy.dropped # "no" THEN {row, [row EXCEPT !.serve = "off"]} ELSE {row}

EndWork ==
    /\ worker # WorkerIdle
    /\ worker' = WorkerIdle
    /\ LET i == worker.item
           copy == worker.copy
       IN  IF Current(i, copy)
           THEN /\ \E row \in Outcomes(copy, worker.settings) :
                     \E saved \in IF row.cached THEN {SavedRow(i, row)}
                                  ELSE NotedGone(i, copy, SavedRow(i, row)) :
                        rows' = [rows EXCEPT ![i] = saved]
                /\ overwritten' = IF copy.kind # rows[i].kind THEN overwritten \cup {i}
                                  ELSE overwritten
           ELSE UNCHANGED <<rows, overwritten>>
    /\ UNCHANGED <<source, feed, document, rules, made, poll, client, admin, time, budget,
                   lost, sweep>>

-----------------------------------------------------------------------------
(* sweepDropped.                                                           *)

AgeDropped ==
    /\ \E i \in Stored(rows) :
          /\ rows[i].dropped = "new"
          /\ rows' = [rows EXCEPT ![i].dropped = "old"]
    /\ UNCHANGED <<source, feed, document, rules, made, poll, client, admin, time, budget,
                   ghosts, droppedVars>>

(* The rows and the feed are read at once, the episodes taken in turn.     *)
ListDropped ==
    /\ sweep.left = {} /\ Begin("sweep")
    /\ LET dropped == {i \in Stored(rows) : rows[i].dropped # "no"}
       IN  /\ dropped # {}
           /\ sweep' = [sweep EXCEPT
                  !.left = dropped, !.settings = feed.settings,
                  !.copy = [i \in Items |-> IF i \in dropped THEN rows[i] ELSE NoRow]]
    /\ UNCHANGED <<source, storeVars, poll, client, admin, time, ghosts, worker>>

(* The rest of the sweep's list.                                           *)
Swept(i) ==
    IF sweep.left = {i} THEN SweepIdle(sweep.checked)
    ELSE [sweep EXCEPT !.left = @ \ {i}, !.copy[i] = NoRow]

LinkDue(i) ==
    LET copy == sweep.copy[i]
    IN  ServesDropped(sweep.settings, copy) /\ ~copy.cached /\ copy.id \notin sweep.checked[i]

DeletionDue(i) ==
    LET copy == sweep.copy[i]
    IN  ~ServesDropped(sweep.settings, copy) /\ DeletesDropped(sweep.settings) /\ copy.dropped = "old"

(* A row deleted that has been listed again is not found again until the   *)
(* source changes.                                                         *)
RemoveRow(i) ==
    /\ rows' = [rows EXCEPT ![i] = NoRow]
    /\ lost' = IF rows[i].dropped = "no" THEN lost \cup {i} ELSE lost
    /\ overwritten' = overwritten \ {i}

(* checkLink.                                                              *)
CheckLink ==
    \E i \in sweep.left :
        /\ LinkDue(i)
        /\ sweep' = [Swept(i) EXCEPT !.checked[i] = @ \cup {sweep.copy[i].id}]
        /\ \/ /\ Current(i, sweep.copy[i])
              /\ rows' = [rows EXCEPT ![i].serve = "off"]
           \/ UNCHANGED rows
        /\ UNCHANGED <<source, feed, document, rules, made, poll, client, admin, time, budget,
                       ghosts, worker>>

(* Unless it is being prepared, or its file cannot be removed.             *)
SweepDelete ==
    \E i \in sweep.left :
        /\ DeletionDue(i)
        /\ sweep' = Swept(i)
        /\ \/ /\ Current(i, sweep.copy[i]) /\ ~Preparing(i, sweep.copy[i])
              /\ RemoveRow(i)
           \/ UNCHANGED <<rows, ghosts>>
        /\ UNCHANGED <<source, feed, document, rules, made, poll, client, admin, time, budget,
                       worker>>

SweepSkips ==
    \E i \in sweep.left :
        /\ ~LinkDue(i) /\ ~DeletionDue(i)
        /\ sweep' = Swept(i)
        /\ UNCHANGED <<source, storeVars, poll, client, admin, time, budget, ghosts, worker>>

-----------------------------------------------------------------------------
(* The feed page.                                                          *)

SetServe ==
    /\ Begin("edit")
    /\ \E i \in Stored(rows), serve \in Switches :
          /\ rows[i].serve # serve
          /\ rows' = [rows EXCEPT ![i].serve = serve]
    /\ UNCHANGED <<source, feed, document, rules, made, poll, client, admin, time, ghosts,
                   droppedVars>>

(* DeleteEpisode reads the row first: it has to be dropped, and not busy.  *)
ReadForDeletion ==
    /\ admin.phase = "idle" /\ Begin("edit")
    /\ \E i \in Stored(rows) :
          /\ rows[i].dropped # "no" /\ ~Preparing(i, rows[i])
          /\ admin' = [admin EXCEPT !.phase = "delete", !.item = i, !.id = rows[i].id]
    /\ UNCHANGED <<source, storeVars, poll, client, time, ghosts, droppedVars>>

DeleteEpisode ==
    /\ admin.phase = "delete"
    /\ admin' = AdminIdle
    /\ IF rows[admin.item] # NoRow /\ rows[admin.item].id = admin.id
       THEN RemoveRow(admin.item)
       ELSE UNCHANGED <<rows, ghosts>>
    /\ UNCHANGED <<source, feed, document, rules, made, poll, client, time, budget,
                   droppedVars>>
=============================================================================
