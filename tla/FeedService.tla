----------------------------- MODULE FeedService -----------------------------
(***************************************************************************)
(* One source and the feed of it: clients that subscribe and read it, the  *)
(* poller, and an administrator who changes its settings and rules or      *)
(* deletes it.  Feed, document and rows are the database's; each actor     *)
(* works on copies it has read, and only what is one transaction is one    *)
(* step.                                                                   *)
(***************************************************************************)
EXTENDS FeedPublish

CONSTANTS
    Clients,
    Settings,         \* settings a feed may get; of them NewSettings on subscribing
    NewSettings,
    RuleLists,        \* lists of rules an administrator may send over the API
    Forms,            \* rows of the rule editor's form
    ETags,            \* whether the source answers conditional requests
    FirstSources,     \* what the source may list at first
    MaxIds,           \* bounds: feeds created, rows made of one item
    Budgets           \* bounds: how many of each operation may begin

(* Changes of the source, polls, requests of clients, changes by the       *)
(* administrator, jobs and sweeps.                                         *)
Operations == {"change", "poll", "read", "edit", "job", "sweep"}

ASSUME ServiceAssumption ==
    /\ Settings \subseteq FeedSettings /\ NewSettings \in Settings
    /\ ETags \in BOOLEAN
    /\ MaxIds \in Nat \ {0}
    /\ FirstSources \subseteq Documents
    /\ Budgets \subseteq [Operations -> Nat]
    /\ RuleLists \subseteq Seq(RulesSent) /\ Forms \subseteq Seq(FormRows)

VARIABLES
    source,      \* what the source lists
    feed,        \* its row, or NoFeed
    document,    \* the stored document
    rules,       \* the feed's rules
    rows,        \* its episodes
    made,        \* ids given: to feeds, and to rows of each item
    poll,        \* the poller
    client,      \* each client and its request
    admin,       \* the administrator's request
    time,        \* renders so far
    budget,      \* budget that may still begin
    lost,        \* items a failed sync or a deletion put out of step
    overwritten  \* items whose title or length a job has written back

ghosts == <<lost, overwritten>>
storeVars == <<feed, document, rules, rows, made>>
serviceVars == <<source, storeVars, poll, client, admin, time, budget, ghosts>>

Empty == [i \in Items |-> NotListed]   \* also the tag of a feed without one

(* A feed: its id, its settings, and the version of the document it holds, *)
(* as the source's ETag names it.                                          *)
NoFeed == [id |-> 0, settings |-> NewSettings, tag |-> Empty]

Feeds == [id : 0 .. MaxIds, settings : Settings, tag : Documents]

TagOf(data) == IF ETags THEN data ELSE Empty

PollRecs == [phase : {"idle", "fetch", "save", "sync", "record"}, feed : Feeds, data : Documents]
PollIdle == [phase |-> "idle", feed |-> NoFeed, data |-> Empty]

ClientRecs ==
    [ phase   : {"idle", "fetch", "create", "document", "rows", "release"},
      feed    : Feeds,
      data    : Documents,              \* what it fetched, or the document it read
      now     : 0 .. MaxTime,           \* of the render
      newly   : [Items -> Nat],         \* ids of rows it releases, 0 for none
      sent    : SUBSET Items,           \* items of the render
      dates   : [Items -> 0 .. MaxTime],
      seen    : SUBSET Items,           \* items in any feed it has got
      missed  : SUBSET Items,           \* released, but left out of its feed
      checked : 0 .. MaxTime ]          \* the last render it has got

ClientIdle(c) ==
    [c EXCEPT !.phase = "idle", !.feed = NoFeed, !.data = Empty, !.now = 0,
              !.newly = [i \in Items |-> 0], !.sent = {}, !.dates = [i \in Items |-> 0]]

NewClient ==
    [ phase |-> "idle", feed |-> NoFeed, data |-> Empty, now |-> 0,
      newly |-> [i \in Items |-> 0], sent |-> {}, dates |-> [i \in Items |-> 0],
      seen |-> {}, missed |-> {}, checked |-> 0 ]

AdminRecs ==
    [phase : {"idle", "save", "reconcile", "delete"}, feed : Feeds, item : Items, id : Nat]
AdminIdle == [phase |-> "idle", feed |-> NoFeed, item |-> 1, id |-> 0]

ServiceInit ==
    /\ source \in FirstSources
    /\ feed = NoFeed /\ document = Empty /\ rules = <<>>
    /\ rows = [i \in Items |-> NoRow]
    /\ made = [feeds |-> 0, rows |-> [i \in Items |-> 0]]
    /\ poll = PollIdle
    /\ client = [c \in Clients |-> NewClient]
    /\ admin = AdminIdle
    /\ time = 0 /\ budget \in Budgets /\ lost = {} /\ overwritten = {}

Begin(operation) ==
    /\ budget[operation] > 0
    /\ budget' = [budget EXCEPT ![operation] = @ - 1]

-----------------------------------------------------------------------------
(* Transactions.                                                           *)

NewRow(i, kind, state, backlog, hidden) ==
    [ id |-> made.rows[i] + 1, kind |-> kind, state |-> state, cached |-> FALSE,
      withheld |-> FALSE, backlog |-> backlog, hidden |-> hidden, released |-> 0,
      dropped |-> "no", serve |-> "" ]

(* A processor measured the file it made.                                  *)
MeasuredOf(r, s) == r.cached /\ s.processed

(* applyHiding, for one episode (EpisodeMaintenance has its attempt time). *)
Applied(r, list, s) ==
    LET wanted == Hides(list, r.kind, MeasuredOf(r, s))
        comesBack == /\ r.released = 0 /\ ~r.backlog
                     /\ r.state \in {"discovered", "ready"}
    IN  CASE r.hidden /\ ~wanted /\ comesBack ->
                [r EXCEPT !.hidden = FALSE, !.backlog = TRUE, !.state = "ready"]
          [] OTHER -> [r EXCEPT !.hidden = wanted]

(* Mutant: an episode's hidden flag does not follow its new title.         *)
FollowedOnly(r, kind, list, s) == [r EXCEPT !.dropped = "no", !.kind = kind]

(* An episode the source still lists: listed again, or said otherwise.     *)
Followed(r, kind, list, s) ==
    LET listed == [r EXCEPT !.dropped = "no"]
    IN  IF r.kind = kind THEN listed ELSE Applied([listed EXCEPT !.kind = kind], list, s)

(* Mutant: an episode being prepared is left as it is.                     *)
DroppedUnlessBusy(r) ==
    [r EXCEPT !.dropped = IF @ = "no" /\ r.state # "acquiring" THEN "new" ELSE @]

Dropped(r) == [r EXCEPT !.dropped = IF @ = "no" THEN "new" ELSE @]

Found(i, kind, list, s) ==
    NewRow(i, kind, IF Prepares(s) THEN "discovered" ELSE "ready", FALSE,
           Hides(list, kind, FALSE))

(* SyncEpisodes, with the rules as they are by now.                        *)
Synced(data, s) ==
    [i \in Items |->
        CASE i \in Listed(data) /\ rows[i] # NoRow -> Followed(rows[i], data[i], rules, s)
          [] i \in Listed(data) /\ rows[i] = NoRow -> Found(i, data[i], rules, s)
          [] i \notin Listed(data) /\ rows[i] # NoRow /\ Listed(data) # {} -> Dropped(rows[i])
          [] OTHER -> rows[i]]

CountIds(newRows) ==
    [i \in Items |-> IF newRows[i].id > made.rows[i] THEN newRows[i].id ELSE made.rows[i]]

RoomForRows == \A i \in Items : made.rows[i] < MaxIds

(* UpdateFeed: the whole row, of a feed that is still there.               *)
SaveFeed(f) == feed' = IF feed.id = f.id THEN f ELSE feed

-----------------------------------------------------------------------------
(* The source publishes, renames and drops what it likes.                  *)
ChangeSource ==
    /\ Begin("change")
    /\ \E i \in Items, k \in Kinds \cup {NotListed} :
          /\ source[i] # k
          /\ source' = [source EXCEPT ![i] = k]
    /\ UNCHANGED <<storeVars, poll, client, admin, time, ghosts>>

-----------------------------------------------------------------------------
(* Refresh, as the poller calls it for a feed that is due.                 *)

PollStart ==
    /\ poll.phase = "idle" /\ feed.id # 0 /\ Begin("poll")
    /\ poll' = [poll EXCEPT !.phase = "fetch", !.feed = feed]
    /\ UNCHANGED <<source, storeVars, client, admin, time, ghosts>>

(* No answer from any host in front of the feed, or none that parses.      *)
PollFails ==
    /\ poll.phase = "fetch"
    /\ poll' = [poll EXCEPT !.phase = "record"]
    /\ UNCHANGED <<source, storeVars, client, admin, time, budget, ghosts>>

NotModified == ETags /\ poll.feed.tag = source /\ poll.feed.tag # Empty

PollFetch ==
    /\ poll.phase = "fetch"
    /\ poll' = IF NotModified THEN [poll EXCEPT !.phase = "record"]
               ELSE [poll EXCEPT !.phase = "save", !.data = source]
    /\ UNCHANGED <<source, storeVars, client, admin, time, budget, ghosts>>

(* The document goes in before the episodes do.                            *)
PollSave ==
    /\ poll.phase = "save"
    /\ \/ /\ feed.id = poll.feed.id
          /\ document' = poll.data
          /\ poll' = [poll EXCEPT !.phase = "sync", !.feed.tag = TagOf(poll.data)]
       \/ /\ poll' = [poll EXCEPT !.phase = "record"]
          /\ UNCHANGED document
    /\ UNCHANGED <<source, feed, rules, rows, made, client, admin, time, budget, ghosts>>

(* Items a sync that fails leaves behind the document saved before it.     *)
OutOfStep(data) ==
    {i \in Items : (i \in Listed(data)) # (rows[i] # NoRow /\ rows[i].dropped = "no")}

PollSync ==
    /\ poll.phase = "sync" /\ RoomForRows
    /\ poll' = [poll EXCEPT !.phase = "record"]
    /\ LET new == Synced(poll.data, poll.feed.settings)
       IN  \/ /\ feed.id = poll.feed.id
              /\ rows' = new
              /\ made' = [made EXCEPT !.rows = CountIds(new)]
              /\ lost' = IF Listed(poll.data) # {} THEN {} ELSE lost
              /\ overwritten' = overwritten \ {i \in Items : rows[i] # NoRow /\ new[i].kind # rows[i].kind}
           \/ /\ UNCHANGED <<rows, made, overwritten>>
              /\ lost' = IF feed.id = poll.feed.id
                         THEN lost \cup OutOfStep(poll.data) ELSE lost
    /\ UNCHANGED <<source, feed, document, rules, client, admin, time, budget>>

(* Whatever happened, the feed row it started with is saved.               *)
PollRecord ==
    /\ poll.phase = "record"
    /\ SaveFeed(poll.feed) \/ UNCHANGED feed
    /\ poll' = PollIdle
    /\ UNCHANGED <<source, document, rules, rows, made, client, admin, time, budget, ghosts>>

-----------------------------------------------------------------------------
(* Clients: the prefix URL subscribes first, the feed URL does not.        *)

Ask(c) ==
    /\ client[c].phase = "idle" /\ time < MaxTime /\ Begin("read")
    /\ client' = [client EXCEPT ![c] =
                    IF feed.id # 0 THEN [@ EXCEPT !.phase = "document", !.feed = feed]
                                   ELSE [@ EXCEPT !.phase = "fetch"]]
    /\ UNCHANGED <<source, storeVars, poll, admin, time, ghosts>>

(* Turned away, given up, or failed: nothing is left behind.               *)
GiveUp(c) ==
    /\ client[c].phase # "idle"
    /\ client' = [client EXCEPT ![c] = ClientIdle(@)]
    /\ UNCHANGED <<source, storeVars, poll, admin, time, budget, ghosts>>

SubscribeFetch(c) ==
    /\ client[c].phase = "fetch"
    /\ client' = [client EXCEPT ![c].phase = "create", ![c].data = source]
    /\ UNCHANGED <<source, storeVars, poll, admin, time, budget, ghosts>>

(* The backlog queued at once: all of it, or its newest.                   *)
QueuedBacklog(data, s) ==
    IF PreparesAhead(s) /\ Prepares(s) THEN Listed(data)
    ELSE IF s.processed
         THEN {i \in Listed(data) : Cardinality({j \in Listed(data) : j > i}) < ProcessBacklog}
         ELSE {}

BacklogOf(data, s) ==
    [i \in Items |->
        IF i \in Listed(data)
        THEN NewRow(i, data[i], IF i \in QueuedBacklog(data, s) THEN "discovered" ELSE "ready",
                    TRUE, FALSE)
        ELSE NoRow]

(* CreateSubscription: unless another request came first.                  *)
Subscribe(c) ==
    /\ client[c].phase = "create" /\ made.feeds < MaxIds /\ RoomForRows
    /\ LET new == [id |-> made.feeds + 1, settings |-> NewSettings, tag |-> TagOf(client[c].data)]
           backlog == BacklogOf(client[c].data, NewSettings)
       IN  IF feed.id # 0
           THEN /\ client' = [client EXCEPT ![c].phase = "document", ![c].feed = feed]
                /\ UNCHANGED <<feed, document, rows, made, ghosts>>
           ELSE /\ client' = [client EXCEPT ![c].phase = "document", ![c].feed = new]
                /\ feed' = new /\ document' = client[c].data /\ rows' = backlog
                /\ made' = [feeds |-> new.id, rows |-> CountIds(backlog)]
                /\ lost' = {} /\ overwritten' = {}
    /\ UNCHANGED <<source, rules, poll, admin, time, budget>>

(* Render reads the document, then the episodes.                           *)
ReadDocument(c) ==
    /\ client[c].phase = "document"
    /\ client' = [client EXCEPT ![c] =
                    IF feed.id = @.feed.id THEN [@ EXCEPT !.phase = "rows", !.data = document]
                                           ELSE ClientIdle(@)]
    /\ UNCHANGED <<source, storeVars, poll, admin, time, budget, ghosts>>

RowsOf(id) == IF feed.id = id THEN rows ELSE [i \in Items |-> NoRow]

ReadRows(c) ==
    /\ client[c].phase = "rows" /\ time < MaxTime
    /\ time' = time + 1
    /\ LET s == client[c].feed.settings
           read == RowsOf(client[c].feed.id)
           now == time + 1
           sent == Output(read, s, client[c].data)
           newly == NewlyReleased(read, s)
           released == {i \in Stored(rows) :
                          \/ rows[i].released # 0 \/ i \in newly
                          \/ \E d \in Clients : client[d].newly[i] = rows[i].id}
       IN  client' = [client EXCEPT
                ![c].phase = "release", ![c].now = now, ![c].sent = sent,
                ![c].missed = @ \cup (released \ sent),
                ![c].newly = [i \in Items |-> IF i \in newly
                                              THEN read[i].id ELSE 0],
                ![c].dates = [i \in Items |-> IF i \in sent
                                              THEN ServedDate(read[i], now) ELSE 0]]
    /\ UNCHANGED <<source, storeVars, poll, admin, budget, ghosts>>

(* MarkReleased, then the answer goes out.                                 *)
Released(c) ==
    [i \in Items |->
        IF rows[i].id # 0 /\ rows[i].id = client[c].newly[i] /\ rows[i].released = 0
        THEN [rows[i] EXCEPT !.released = client[c].now] ELSE rows[i]]

Answered(k) == [ClientIdle(k) EXCEPT !.seen = @ \cup k.sent, !.checked = k.now]

Answer(c) ==
    /\ client[c].phase = "release"
    /\ rows' = Released(c)
    /\ client' = [client EXCEPT ![c] = Answered(@)]
    /\ UNCHANGED <<source, feed, document, rules, made, poll, admin, time, budget, ghosts>>

-----------------------------------------------------------------------------
(* The administrator: PATCH reads the row, changes it, and saves it whole. *)

LoadFeed ==
    /\ admin.phase = "idle" /\ feed.id # 0 /\ Begin("edit")
    /\ \E s \in Settings \ {feed.settings} :
          admin' = [admin EXCEPT !.phase = "save", !.feed = [feed EXCEPT !.settings = s]]
    /\ UNCHANGED <<source, storeVars, poll, client, time, ghosts>>

UpdateFeed ==
    /\ admin.phase = "save"
    /\ SaveFeed(admin.feed)
    /\ admin' = IF feed.id = admin.feed.id THEN [AdminIdle EXCEPT !.phase = "reconcile"]
                ELSE AdminIdle
    /\ UNCHANGED <<source, document, rules, rows, made, poll, client, time, budget, ghosts>>

(* What other settings made of an episode is undone.                       *)
Undone(r, s) ==
    CASE r.state = "failed" ->
            [r EXCEPT !.cached = FALSE, !.withheld = FALSE,
                      !.state = IF r.backlog \/ ~Prepares(s) THEN "ready" ELSE "discovered"]
      [] r.state = "ready" -> [r EXCEPT !.cached = FALSE]
      [] OTHER -> r

(* FeedChanged, as far as feeds see it (EpisodeMaintenance tells which).   *)
FeedChanged ==
    /\ admin.phase = "reconcile"
    /\ admin' = AdminIdle
    /\ \E outdated \in SUBSET Stored(rows) :
          rows' = [i \in Items |-> IF i \in outdated THEN Undone(rows[i], feed.settings)
                                  ELSE rows[i]]
    /\ UNCHANGED <<source, feed, document, rules, made, poll, client, time, budget, ghosts>>

(* The rules and the flags of every episode, at once.                      *)
ReplaceFeedRules(list) ==
    /\ feed.id # 0 /\ ValidRules(list)
    /\ rules' = list
    /\ rows' = [i \in Items |-> IF rows[i] = NoRow THEN NoRow
                                ELSE Applied(rows[i], list, feed.settings)]
    /\ overwritten' = {}
    /\ UNCHANGED <<source, feed, document, made, poll, client, admin, time, lost>>

SetRules == Begin("edit") /\ \E list \in RuleLists : ReplaceFeedRules(list)

SaveForm == Begin("edit") /\ \E form \in Forms : ReplaceFeedRules(RulesFromForm(form))

(* Everything stored for the feed goes with it.                            *)
DeleteFeed ==
    /\ feed.id # 0 /\ Begin("edit")
    /\ feed' = NoFeed /\ document' = Empty /\ rules' = <<>>
    /\ rows' = [i \in Items |-> NoRow]
    /\ lost' = {} /\ overwritten' = {}
    /\ UNCHANGED <<source, made, poll, client, admin, time>>
=============================================================================
