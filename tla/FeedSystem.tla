----------------------------- MODULE FeedSystem ------------------------------
(***************************************************************************)
(* A feed with everybody who changes it or reads it.                       *)
(***************************************************************************)
EXTENDS DroppedEpisodes

vars == <<serviceVars, droppedVars>>

Init == ServiceInit /\ DroppedInit

(* Everything on the service's own part of the state.                      *)
ServiceNext ==
    \/ ChangeSource
    \/ PollStart \/ PollFails \/ PollFetch \/ PollSave \/ PollSync \/ PollRecord
    \/ \E c \in Clients :
          \/ Ask(c) \/ GiveUp(c) \/ SubscribeFetch(c) \/ Subscribe(c)
          \/ ReadDocument(c) \/ ReadRows(c) \/ Answer(c)
    \/ LoadFeed \/ UpdateFeed \/ FeedChanged \/ SetRules \/ SaveForm \/ DeleteFeed

DroppedNext ==
    \/ StartWork \/ EndWork
    \/ AgeDropped \/ ListDropped \/ CheckLink \/ SweepDelete \/ SweepSkips
    \/ SetServe \/ ReadForDeletion \/ DeleteEpisode

Next == (ServiceNext /\ UNCHANGED droppedVars) \/ DroppedNext

Spec == Init /\ [][Next]_vars

-----------------------------------------------------------------------------
TypeOK ==
    /\ source \in Documents /\ document \in Documents
    /\ feed \in Feeds
    /\ rules \in Seq(Rules) /\ Len(rules) <= MaxRules
    /\ rows \in [Items -> Rows \cup {NoRow}]
    /\ made \in [feeds : 0 .. MaxIds, rows : [Items -> 0 .. MaxIds]]
    /\ poll \in PollRecs
    /\ client \in [Clients -> ClientRecs]
    /\ admin \in AdminRecs
    /\ time \in 0 .. MaxTime /\ budget \in [Operations -> Nat]
    /\ lost \subseteq Items /\ overwritten \subseteq Items
    /\ worker \in Workers /\ sweep \in Sweeps

(* However polls, saves of rules, jobs and deletions interleave, a stored  *)
(* episode is hidden exactly when the feed's rules hide it.  Excepted are  *)
(* those where a length only its file has makes the difference, which are  *)
(* decided again when the rules or the source change, and those whose      *)
(* title a job that started before has written back.                       *)
HiddenMatchesRules ==
    \A i \in Stored(rows) \ overwritten :
        Hides(rules, rows[i].kind, TRUE) = Hides(rules, rows[i].kind, FALSE) =>
            rows[i].hidden = Hides(rules, rows[i].kind, FALSE)

(* The document and the episodes are of two saves, of a poll that may be   *)
(* overtaken by everything else.  Between polls they agree on what the     *)
(* source lists, but for what a sync that failed, or a deletion from an    *)
(* old list, put out of step.                                              *)
RowsFollowDocument ==
    feed.id # 0 /\ poll.phase # "sync" /\ Listed(document) # {} =>
        \A i \in Items \ lost :
            i \in Listed(document) <=> (rows[i] # NoRow /\ rows[i].dropped = "no")

(* A feed is never served without episodes, whatever is hidden, withheld,  *)
(* dropped or waiting, as long as the source lists some: clients stop      *)
(* downloading from a feed they find empty.                                *)
NeverEmpty ==
    feed.id # 0 /\ poll.phase # "sync" /\ lost = {} /\ Listed(document) # {} =>
        Output(rows, feed.settings, document) # {}

(* An episode once published in its turn stays in the feed, unless it is   *)
(* itself hidden, withheld, dropped or deleted, a change of the settings   *)
(* undoes what was prepared, an older one comes in that was not there to   *)
(* be published before, or a job writes back that it is no backlog, as it  *)
(* was before it was shown again: other jobs and failures never take it    *)
(* out.                                                                    *)
Unchanged(i) ==
    /\ rows'[i] # NoRow /\ rows'[i].id = rows[i].id /\ rows'[i].backlog = rows[i].backlog
    /\ Visible(rows'[i]) /\ rows'[i].dropped = rows[i].dropped
    /\ i \in InFeed(rows', feed'.settings)

NewlyHolding(i) ==
    \E j \in 1 .. i - 1 :
        /\ j \in InFeed(rows', feed'.settings) /\ Holds(rows'[j], feed'.settings)
        /\ ~(j \in InFeed(rows, feed.settings) /\ Visible(rows[j]) /\ rows[j].dropped = "no")

InFeedStays ==
    [][\A i \in InOrder(rows, feed.settings) :
          /\ feed.id # 0 /\ feed'.id = feed.id /\ feed'.settings = feed.settings
          /\ admin.phase # "reconcile" \/ admin'.phase # "idle"
          /\ Unchanged(i) /\ ~NewlyHolding(i)
          => i \in InOrder(rows', feed'.settings)]_vars

(* An episode's release date is set once: no render that raced it, and no  *)
(* job that read the row before, moves or clears the date clients saw.     *)
ReleasedOnce ==
    [][\A i \in Stored(rows) :
          /\ rows'[i] # NoRow /\ rows'[i].id = rows[i].id /\ rows[i].released # 0
          => rows'[i].released = rows[i].released]_vars

(* Clients download an episode by itself only when it is dated after their *)
(* last check.  A render dates every episode that is new to its client so, *)
(* backlog and once dropped ones apart, however late it was prepared and   *)
(* whoever was served it first; excepted are those that were already       *)
(* released when a feed was made that left them out.                       *)
NewIsDatedAfterLastCheck ==
    [][\A c \in Clients :
          client[c].phase = "rows" /\ client'[c].phase = "release" =>
              \A i \in client'[c].sent \ (client[c].seen \cup client[c].missed) :
                  Dated(rows[i]) => client'[c].dates[i] > client[c].checked]_vars
=============================================================================
