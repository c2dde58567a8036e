----------------------------- MODULE FeedPublish -----------------------------
(***************************************************************************)
(* Which episodes a served feed holds, and with which dates: a feed's      *)
(* settings and the defaults behind them, publishedEpisodes, and the parts *)
(* of Render that depend on rows and document.  No state here.             *)
(*                                                                         *)
(* Items are numbered in publish order, the oldest first.  Of an item of a *)
(* document only its kind is kept, and NotListed for one that is not in    *)
(* it.  Every source date is 0, before the first render.                   *)
(***************************************************************************)
EXTENDS FeedRules

CONSTANTS
    N,                \* items a source may list
    Kinds,            \* what it says of them
    MaxTime,          \* bound: renders
    DefaultAhead, DefaultServe, DefaultDelete,   \* the global settings
    ProcessBacklog    \* episodes of a processed feed's backlog queued at once

ASSUME PublishAssumption ==
    /\ N \in Nat \ {0}
    /\ \A k \in Kinds : IsKind(k)
    /\ MaxTime \in Nat
    /\ {DefaultAhead, DefaultServe, DefaultDelete} \subseteq BOOLEAN
    /\ ProcessBacklog \in Nat

Items == 1 .. N

NotListed == [title |-> "not listed", secs |-> 0]

Documents == [Items -> Kinds \cup {NotListed}]

Listed(document) == {i \in Items : document[i] # NotListed}

Switches == {"", "on", "off"}

FeedSettings ==
    [ mode : {"cache", "stream", "original"}, processed : BOOLEAN, hide : BOOLEAN,
      ahead : Switches, serve : Switches, delete : Switches ]

(* A setting of its own, else the global one.                              *)
Switch(own, default) == own = "on" \/ (own = "" /\ default)

Prepares(s) == s.mode = "cache" \/ s.processed

PreparesAhead(s) == Switch(s.ahead, DefaultAhead)

ServesDropped(s, r) == Switch(r.serve, Switch(s.serve, DefaultServe))

DeletesDropped(s) == Switch(s.delete, DefaultDelete)

Rows ==
    [ id       : Nat \ {0},     \* a row that is deleted and found again is another
      kind     : Kinds,
      state    : {"discovered", "acquiring", "ready", "failed"},
      cached   : BOOLEAN,
      withheld : BOOLEAN,
      backlog  : BOOLEAN,
      hidden   : BOOLEAN,
      released : 0 .. MaxTime,  \* 0: never in a served feed
      dropped  : {"no", "new", "old"},   \* "old" once DroppedGrace has passed
      serve    : Switches ]

NoRow == [id |-> 0]

Stored(rows) == {i \in Items : rows[i] # NoRow}

-----------------------------------------------------------------------------
(* publishedEpisodes.                                                      *)

InFeed(rows, s) ==
    {i \in Stored(rows) : rows[i].dropped = "no" \/ ServesDropped(s, rows[i])}

Visible(r) == ~r.withheld /\ ~r.hidden

(* Published whether prepared or not.                                      *)
AtOnce(r, s) ==
    ~Prepares(s) \/ (r.backlog /\ ~PreparesAhead(s)) \/ r.dropped # "no"

Settled(r) == r.state \in {"ready", "failed"}

(* It waits, and newer ones wait for it.                                   *)
Holds(r, s) == Visible(r) /\ ~AtOnce(r, s) /\ ~Settled(r)

InOrder(rows, s) ==
    {i \in InFeed(rows, s) :
        /\ Visible(rows[i])
        /\ \/ AtOnce(rows[i], s)
           \/ /\ Settled(rows[i])
              /\ \A j \in InFeed(rows, s) : j < i => ~Holds(rows[j], s)}

OldestOf(S) == {i \in S : \A j \in S : i <= j}

(* Mutant: a feed of nothing but withheld and hidden episodes is empty.    *)
FallbackVisible(rows, s) == OldestOf({i \in InFeed(rows, s) : Visible(rows[i])})

(* What is published so that the feed is not empty.                        *)
Fallback(rows, s) ==
    LET visible == {i \in InFeed(rows, s) : Visible(rows[i])}
    IN  OldestOf(IF visible # {} THEN visible ELSE InFeed(rows, s))

Published(rows, s) ==
    IF InOrder(rows, s) # {} THEN InOrder(rows, s) ELSE Fallback(rows, s)

-----------------------------------------------------------------------------
(* Render.                                                                 *)

(* The items of the source, and those it dropped that are served.          *)
Output(rows, s, document) ==
    {i \in Published(rows, s) : i \in Listed(document) \/ rows[i].dropped # "no"}

(* Whether an item gets a date of its own: backlog keeps the source's, and *)
(* so does a dropped one that was never served.                            *)
Dated(r) == ~r.backlog /\ ~(r.dropped # "no" /\ r.released = 0)

(* Mutant: an episode that has been released keeps the source's date.      *)
ServedDateOnce(r, now) == IF Dated(r) /\ r.released = 0 THEN now ELSE 0

ServedDate(r, now) ==
    IF ~Dated(r) THEN 0 ELSE IF r.released # 0 THEN r.released ELSE now

NewlyReleased(rows, s) ==
    {i \in Published(rows, s) : Dated(rows[i]) /\ rows[i].released = 0}
=============================================================================
