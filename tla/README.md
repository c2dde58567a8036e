# Solstein in TLA+

Models of [Solstein](../src/README.md), the podcast proxy in `src/`: TLA+ modules
checked by TLC on small instances, and theorems about them checked by TLAPS for
every value of the constants. Every definition follows the Go code; the table
`map` in `PROJECT.json` names the lines.

- [The system](#the-system): its parts, their state and what is hard about them
- [The plan](#the-plan): modules, in order
- [The modules](#the-modules): how they correspond to the code
- [The runs](#the-runs): what each checks, bounds, fairness
- [The proofs](#the-proofs)
- [What the checks found](#what-the-checks-found)
- [What is not modelled](#what-is-not-modelled)

## The system

Solstein sits between podcast clients (Audiobookshelf above all) and source
feeds. It polls each feed, keeps its episodes in SQLite, prepares them (a
download through a VPN exit, or two downloads compared to remove ads, the
"region diff"), and serves a rewritten feed and the audio. It is one process;
its concurrency is goroutines over one database, one cache directory and a few
mutex-guarded maps.

| Part | State | Operations | What is hard | What makes it correct |
|---|---|---|---|---|
| Episode pipeline (`episodes/pipeline.go`, `database/pipeline.go`) | rows of `episodes`; `inFlight`; request slots; each job's copy of its row and feed | claim (new, queued, batch, on request), attempt, record, end; Recover | three ways to claim; whole rows written back minutes later; shutdown with jobs waiting; leases | one job per episode; every row one the others can act on; nothing left acquiring; every episode settles |
| Serving (`episodes/serve.go`) | each request's copies; the `teeing` set | check, serve the file, wait for a job, stream, redirect, tee | state read before a wait or a stream and used after it | hidden audio never leaves; no client waits for nothing; a tee spoils no file |
| Settings changes (`episodes/reconcile.go`, `server/api.go`) | the feed's row; copies of episodes | save, Reconcile each episode, queue | runs against jobs and requests, tells files apart by a label only | label and file agree; a change gives failures another chance |
| Queue commands (`episodes/queue.go`) | a list of ids | pick, queue what still fits | time between the two | no prepared episode is queued |
| Housekeeper (`episodes/housekeeping.go`) | lists of rows | expire, evict, size cap, stray files | file and row change apart | a file just finished stays |
| Rules and sync (`feeds/rules.go`, `database/feed_rule.go`, `database/subscription.go`) | a feed's rules; `hidden`, `backlog`, `dropped_at` | match, hide, show, add, drop, retitle | rewrites rows workers hold; rules and rows saved by different people | what is stored is hidden as the rules say; a shown episode keeps to its lifecycle |
| Polling (`feeds/service.go`, `feeds/poller.go`) | feed row, stored document | subscribe, refresh, due | a fetch between read and save of the feed's row; several saves, any of which may fail | rows follow the document |
| Publishing (`feeds/publish.go`, `Render`) | `released_at` | which episodes a feed shows, with which date | order, holding back, dates of late ones, reads and saves apart | never empty; an episode in the feed stays; dates are set once, after the client's last check |
| Dropped episodes (`episodes/dropped.go`) | `dropped_at`, `serve` | note gone, check links, delete | deletion against jobs, polls and old lists | nothing comes back, nothing listed goes |
| Tunnel pool (`modules/exits/pool.go`, `tunnel.go`) | tunnels, keys, users | get, release, reap, forget | limits, shared keys, closing under use | one tunnel per key, users counted exactly, no tunnel closed under a user to make room |
| Exit selection (`modules/exits/select.go`, `module.go`, `setup.go`) | server lists, health, what each exit has | load, choose, fail over, refresh | health reported by many, lists that change under a choice | only permitted servers, the best location that is healthy |
| Downloads (`episodes/source.go`, `resume.go`, `outbound`) | a response and what was read of it | follow redirects, read, resume | breaks, and hosts that change the file meanwhile | a download that ends well is one file |
| Region diff (`modules/regiondiff`) | a turn, downloads, idle connections | pair, fall back to a partner, compare, check again | partial failures, one tunnel for two regions, exits that move, chance matches | cuts keep the show; other regions are really compared; one key is enough in turn |
| Sign-in (`auth`, `server/ui_auth.go`) | users, tokens, failures per key | steps, sessions, the account page, the console's commands | requests in parallel, whole rows saved from old copies, two processes | every step taken, limits and lifetimes hold, a code works once |
| Settings, RSS and MP3 parsing, the rest of the web UI, logging | configuration; none | read, check, render | little concurrency | functional |

Parts meet in the database (rows are read, kept and written back whole), in
`inFlight` (asked by requests, Reconcile and queue commands before they act), in
the channel a job closes when it ends, in `Wake`, and in the cache directory.
Downloads meet in the pool of each VPN provider. Signing in shares nothing with the
rest but the database, and that with the console, which is another process.

## The plan

In the order in which they were written.

1. `EpisodeRow`, `EpisodePipeline`: the row and the pipeline that prepares it.
2. `EpisodeServer`, `EpisodeMaintenance`: everything else that writes rows and files.
3. `EpisodeSystem` composes them; `EpisodeLifecycle` is the abstract
   specification of an episode, which `EpisodeSystem` implements.
4. `EpisodeSystemProofs`, `EpisodeRegistryProofs`.
5. `TunnelPool`; `ExitConfig`, `ExitSelection`, `ExitModule`; `Outbound`,
   `SourceDownload`; `DownloadSystem` composes them.
6. `FeedRules`, `FeedPublish`, `FeedService`, `DroppedEpisodes`; `FeedSystem`.
7. `SignInRows`, `SignIn`.
8. `FrameDiff`, `AudioDiff`, `RegionDiff`.
9. `TunnelPoolProofs`, `DownloadSystemProofs`, `SignInProofs`.
10. `EpisodeLifecycleProofs`; the rest of `DownloadSystemProofs` and `SignInProofs`.
11. `FeedSystemProofs`.
12. `RegionDiffProofs`.
13. Left: what the comparison computes of a download (`ComparisonsSound`) as theorems
    about `FrameDiff`, for which the prover lacks induction over data.

`FeedSystem` and `EpisodeSystem` are kept apart although both have episodes' rows:
the first needs several items, dates and documents, the second every column a job
acts on, and neither fits the other's state space. `DroppedEpisodes` has a job of
three outcomes for what `EpisodePipeline` has in full, `EpisodeMaintenance` the
hiding and showing that `FeedService` has in full. `RegionDiff` likewise counts
tunnels where `TunnelPool` has them.

## The modules

`EpisodeRow` has no state. A row is the part of `models.Episode` that a claim, an
outcome or a check reads. `Succeeded`, `FailedAgain`, `GaveUp` and `TriedAgain`
are the branches of `recordOutcome`; `Reconciled`, `ReconcileSaves` and
`DropsFile` are `reconcileEpisode`; `WaitingForFirst` and `QueuedAndDue` are the
conditions of the claims. `PreparedWith` is a record of who made the file,
through what, and what the failure policy did, for the string `recipe` builds.

`EpisodePipeline` holds `row` (the table), `hidden` (hidden or dropped, columns
`UpdateEpisode` leaves alone), `disk` (the file at each episode's path), `feed`
(its settings), `inFlight`, `job` (each worker's and the request side's job on
each episode, with its copies) and `life` of the process. A job's phases:

| Phase | Code |
|---|---|
| `claimed` | claimed by a worker, not yet in `inFlight` |
| `started` | registered; the feed is read next |
| `batch`, `joining`, `joined` | `prepareBatch`: the rest is claimed, then registered one by one |
| `slot` | a job on request waits in `Prepare`'s goroutine |
| `working` | the download or the processor runs |
| `record` | the file, if any, is in place; the outcome is not saved |
| `over` | saved, or given up; still registered until `endFlight` |

`EpisodeServer` holds `request`, each client's request with its copies; the steps
of `Serve` are its actions. Answering is one step (`Answer`). `EpisodeMaintenance`
holds `admin` (settings changes with their Reconcile, queue commands), `sweep`
(the housekeeper) and the actions of rules and polls. `EpisodeSystem` composes
them: the end of a job wakes the requests that wait, a stop or crash forgets what
is in memory, `RemoveOrphan` is the housekeeper's last pass, and it states the
properties. `MCEpisodeSystem` names the sets of settings the runs use.

`EpisodeLifecycle` says what all this amounts to for one episode while its feed's
settings stay: *waiting*, *preparing*, then *in the feed* or *withheld*; put back
only from preparing; out of the feed only to withheld. `EpisodeSystem` implements
it with `Stage` as the refinement mapping (`FollowsLifecycle`), and with fairness
(`EverySettles`).

What is abstracted in these:

- One feed. Claims and the registry are per episode, and settings per feed, so a
  second feed adds only the order in which claims pick.
- Time: an attempt time is `none`, `due` or `later`, and `ComeDue` makes it due.
  Retry times are a minute or more, so none comes due between a job's save and
  its `endFlight`. `LeaseOutlasts` TRUE takes `queueLease` at its word.
- The three counters stop at the first value past every comparison made with
  them; counting on would change nothing.
- A download or a processor run ends as `ok`, `error` or `permanent`; what it
  fetched is `Audio`: who made it and through what.
- Expiry, eviction and the size cap: `SweepList` may pick any cached file.
  `minimumFileAge` is the guard of `RemoveOrphan`: no file whose save is pending.
- A commit that fails counts as a tee that broke off. A HEAD or Range request is
  the `Stream` disjunct.
- Saves of settings, and of the queue's fields, are one step each, as the
  database makes them (`_txlock=immediate`).

**Downloads.** `TunnelPool` is one provider's pool: `tunnels` (by server), `tun` (the
tunnels that were ever opened, with their users, key and state), the keys' counts and
places, and who holds the mutex, for a tunnel is opened with it held (`BeginOpen`,
`OpenSucceeds`, `OpenFails`). `ExitConfig` is what `Load` and `Setup` make of a `vpn`
block, `ExitSelection` the servers each exit has, their health, `tiers` and `choose`.
`ExitModule` is a call through an exit as `through` and `attempt` run it:

| Phase of a call | Code |
|---|---|
| `pick`, `get` | `Module.pick`; `pool.get`, with the wait for room |
| `open` | `openTunnel` under the mutex |
| `handshake`, `operate` | `awaitHandshake`; the operation on the tunnel (a lookup, a dial) |
| `bench`, `forget`, `leave` | `reportFailure`, `pool.forget`, `release`, in that order |

`Outbound` says which exits there are and which a client gets, and `SourceDownload`
is `requestSource` and `resumingBody` on top of the calls, with the connections
`http.Transport` keeps alive (`idle`) and a host that may replace its file.
`DownloadSystem` adds the reaper (`RunPool`) and `Refresh` of the server list.

**Feeds.** `FeedRules` and `FeedPublish` have no state: matching, the order of a form's
rules, `publishedEpisodes`, and what Render outputs and dates. `FeedService` has the
source, the feed's row and document, rules and rows, a poll, clients and an
administrator, each with its copies: a poll is fetch, save of the document, sync and
deferred save of the row; a client's request reads the document, then the rows, then
saves the release dates and answers. `DroppedEpisodes` has a job and the sweep of
dropped episodes. `FeedSystem` composes them and states the properties. Items are
numbered in publish order; a title and a length stand for all that rules match.
`lost` and `overwritten` name the items that a failing sync, a deletion from an old
list or a job's save put out of step, so that properties can be about the others.

**Signing in.** `SignInRows` has the rows of users and tokens, what the service
computes from them, codes and the limiter; `SignIn` browsers whose requests load, change
and save rows step by step, and the console. One user at a time, who may be deleted and
added again under another number. Time is counted in the steps of authenticator codes.
`codes`, `twice` and `stale` record which codes were accepted and whether a copy was
ever saved over a row that had changed.

**Region diff.** `FrameDiff` is `diff.go` and `AudioDiff` `audio.go` as operators on
downloads, sequences of frames with a sound, bytes and the bytes each borrows from
those before it; `Verdicts` is the set of what a comparison may end in, for where the
code ranges over a map the outcome is open. `RegionDiff` is the processor: attempts
(`Process` and `ProcessBatch`), whose downloads each occupy a tunnel of their exit
while they run and while their connection stays open, hosts that send each country one
of a few downloads, and exits that move between countries.

## The runs

Each run is a `.cfg` file of the `MC` module of its system: the first six and `v_*` of
`MCEpisodeSystem`, the others of `MCDownloadSystem`, `MCFeedSystem`, `MCSignIn` and
`MCRegionDiff`. Every run sets `CHECK_DEADLOCK FALSE`, for the systems really may stop,
or their bounds are used up: everything prepared and all that the bounds allow has
happened, or the process is down for good.

For episodes, one or two are enough for what the runs ask: rows meet only in claims (order, batches) and in slots, and a second
episode makes both happen; two clients make joining and double tees happen; one
client is enough for stale copies. `RetryDelays` 0 to 2 stands for the schedule's
five, `WithheldRetryDelays` 1 or 2 for its eight, `MaxRequestFailures` 1 or 2 for
three: between them the runs reach each branch before, at and past the limit.

| Run | Properties | Instance | States |
|---|---|---|---|
| `serving` | `TypeOK`, `NoLostWakeup`, `AcquiringHasOwner`, `HiddenAudioNeverServed` | 1 episode, 1 worker, 2 clients, 4 settings, crashes, one restart under other settings | 2.3 million |
| `settings_change` | `RowsSound`, `LabelTellsTruth`, `FiledNotQueued` | 1 episode, 1 worker, 1 client, 1 admin, 2 recipes, one of them prepared ahead; 1 change, queue commands | 1.6 million |
| `hiding` | `FiledNotQueued`, `CommittedFileStays`, `FollowsLifecycle` | 1 episode, 1 worker, 1 client, prepare ahead with and without a processor, rules, the sweep | 0.7 million |
| `batching` | `RegistryMatchesJobs` | 2 episodes, 2 workers, 1 client, batches of 2, database faults, short leases | 1.0 million |
| `liveness` | `EverySettles`, `WithheldIsRetried`, `WaiterAnswered` | 2 episodes, 1 worker, 1 client, fairness, no crash | 0.1 million |
| `restart` | `FollowsLifecycle`, `EverySettles`, `RunReturns` | 1 backlog episode, 2 workers, 1 client, fairness, crashes, shutdowns and restarts | 60 000 |
| `downloads` | `TypeOK`, `KeysSound`, `UsesCounted`, `OnlyPermittedServers`, `WholeFile`; `KeptWhileUsed`, `BestLocation` | 2 callers, 3 servers, 4 tunnels opened in all, 1 tick, 1 fault, a redirect, a resumed download | 0.56 million |
| `feeds` | `TypeOK`, `HiddenMatchesRules`, `RowsFollowDocument`, `NeverEmpty`; `InFeedStays`, `ReleasedOnce`, `NewIsDatedAfterLastCheck` | 2 items, 2 clients (symmetric), 3 settings, 3 lists of rules and a form, 8 budgets of changes, polls, reads, edits, jobs and sweeps | 0.97 million |
| `signin` | `TypeOK`, `SessionsSound`, `EveryStepTaken`, `CodeUsedOnce`, `FailuresBounded` | 2 browsers (symmetric), 4 requests, 1 console command, 3 tokens, 2 users, 2 secrets, 3 steps of time | 3.1 million |
| `regiondiff` | `TypeOK`, `CutsSound`, `AgreedAcrossRegions`, `OneKeyIsEnough` | 2 attempts (symmetric), batches of 2, 4 exits in 3 countries, 13 downloads, 7 hosts, 4 `region_diff` blocks, 2 feeds | 0.37 million |

The runs `v_*` each check one statement of the source that the code does not
keep; see [below](#what-the-checks-found).

What the instances leave out, and why:

- `LabelTellsTruth` is checked without crashes and without tees,
  `CommittedFileStays` with fixed settings, for first preparations only: outside
  that the code does not keep them (see below).
- `FollowsLifecycle` is checked with fixed settings, because a change of settings
  does start episodes again, and without a stream of waiting backlog.
- `HiddenAudioNeverServed` speaks of the behaviours in which the settings have not
  changed. A request that began under other settings keeps to those.
- `liveness` leaves crashes to `restart`, which has one episode: two episodes,
  crashes and two-step schedules together are past what TLC checks in minutes.

Why the bounds of the other four are enough:

- `downloads`: with room for one tunnel and three servers two callers meet at the
  limit, fail over to the same server, wait for one another and leave idle
  connections behind; one fault is a handshake, a lookup or a dial that fails. `Size`,
  `Hops` and `MaxSkipped` make a redirect past a tracker and a break in the middle.
  The `vpn` blocks are a Proton account with fewer keys (one) than its `max_tunnels`
  (two), and a WireGuard provider with two files and `max_tunnels` one. A second fault
  only repeats the first: benches double up to `BenchMax`.
- `feeds`: with two items one waits before the other, and is hidden, dropped, lost or
  found again on its own. All the actors at once are past what TLC does in minutes,
  hence the budgets: every two of poll, client, job, administrator and sweep meet,
  most three do. `MaxIds` lets an item come back once as another row.
- `signin`: four requests are a whole sign-in with a step, and one racing it; tokens
  and users are numbered, so that one that is gone is not taken for a new one.
- `regiondiff`: the thresholds of the comparison are scaled down (an anchor is two
  frames, a shared run three) and so are the downloads: an ad that both share, one
  that is repeated, markers, a cut-off file, a re-encoded one, another show. One
  cancellation, fault, move or idle timeout happens in a behaviour, at any step.
  Before that, TLC evaluates `ComparisonsSound` of all pairs of downloads that one of
  the hosts sends, with every feed's options and stated duration.

These runs are of what may go wrong, and state no fairness: a download, a poll or a
sign-in that is given up is an outcome like the others.

**Fairness** (`Fairness` in `EpisodeSystem`): workers loop and wake at least every
30 seconds (`checkInterval`), every download has a deadline, goroutines run, and
times come, and a process that has cancelled its context exits when Run has
returned: weak fairness of each worker's steps, each job's attempt and save,
`endFlight`, `ComeDue`, each server step and, while stopping, of giving up.
Slots are a buffered channel whose waiting senders are served in turn, hence
strong fairness of `TakeSlot`. A client's arrival, its patience, a change of
settings, a crash, a start, a sweep: nothing is owed there. `WaiterAnswered` is
therefore about the job, not about the client's timeout, and `EverySettles` and
`WithheldIsRetried` ask something of the behaviours in which the process stays up
from some point on (`StaysUp`).

## The proofs

All for every value of the constants their modules' assumptions allow: of episodes
`DelaysAssumption`, `PipelineAssumption` and `MaintenanceAssumption` (schedules of any
length, any episodes, workers, clients, settings and batch size); of downloads
`PoolAssumption`, `SelectionAssumption`, `ModuleAssumption`, `DownloadAssumption` and
`VpnsAssumption` (any servers, callers, keys, limits, times, addresses and versions of
a file; one provider, finitely many servers and tunnels); of sign-in `RowsAssumption`
and `SignInAssumption` (any browsers, tokens, users, lifetimes and limits; the first
user, if any, has a sound row with at most the first secret); of feeds `RulesAssumption`,
`PublishAssumption` and `ServiceAssumption` (any number of items, any clients, settings,
lists of rules, also invalid ones, and forms, and any budgets); of region diff
`FrameDiffAssumption`, `AudioDiffAssumption` and `RegionDiffAssumption` (finitely many
attempts and exits, any `region_diff` blocks and feeds of the right types, any hosts,
batch size and budgets). `PROJECT.json` lists the
theorems with the property each states.

Each module is laid out as: the initial state, one lemma per group of actions, the
combined step, and a last step by temporal logic. No property below is inductive as
it stands; what makes it so is said of each.

### Episodes

- `EpisodeSystemProofs`: the operators of `EpisodeRow` map sound rows to sound rows
  (`RowSound` of one row is what writers must leave behind); `TypeCorrect` (`[]TypeOK`) and `RowsAlwaysSound`
  (`[]RowsSound`). Soundness of the table alone is not inductive, since a writer
  saves its copy whatever the table holds by then. `CopiesSound` therefore says it
  of every copy: a job's, a request's, Reconcile's, the sweep's. It also needs
  that a job's copy is never *discovered* (claims mark it first, and a request
  hands over a discovered one only through `ClaimEpisode`), so that the
  branch of `recordOutcome` it takes fits, and that a request past `Serve`'s check
  holds no withheld row, so that a tee cannot make one ready.
- `EpisodeRegistryProofs`: `RegistryAlwaysMatches` (`[]RegistryMatchesJobs`) and
  `NoWakeupLost` (`[]NoLostWakeup`). The invariant `RegistrySound` adds
  `OneAtATime`: until its batch is claimed a worker is busy with a single episode,
  so claiming the rest replaces no job of its own that is registered.
  - `LabelsTellTruth` (`[]LabelTellsTruth`), under settings that change. No copy that is
    saved gives an episode its file back: the copies that checks, sweeps, requests and
    jobs save have lost it, and a check that would label an unlabelled file finds none
    (`ChecksFiled`). So only an outcome does, and until it is recorded the file is the
    job's own or gone (`FilesMade`), for the registry keeps other jobs away.
    Its hypothesis `Labelling` is what the code does not promise otherwise: feeds that
    are prepared (a file made for one that is not has no label, and gets that of later
    settings); no stream that is kept, which may end while a job runs
    (`serve.go:149`); no batches of unprocessed episodes (`pipeline.go:284`); no job that
    breaks off between its file and its record (`pipeline.go:457`, `pipeline.go:537`). The
    run `settings_change` is an instance of it.
- `EpisodeLifecycleProofs`, on top of the two others:
  - `HiddenNeverServed` (`[]HiddenAudioNeverServed`). While no setting has changed, every
    row, file and copy in memory is `Kept`: what a job or tee under these settings could
    have made. The property follows, for a request has only such copies to serve from
    (`SettingsKept`).
  - `LifecycleImplemented` (`FollowsLifecycle`): the step simulation. `FollowsRow` says
    which copies may still be saved over which rows: a job that claimed a waiting
    episode still has its claim, and every other copy is of a row that is settled, as is
    the row it will be saved over. With that each action is a step of `EpisodeLifecycle`
    or a stutter, of each episode.
  - `CommittedFilesStay` (`[]CommittedFileStays`): whoever removes a file does so for a copy
    of a settled episode, and one that is being prepared for the first time is not.
  - `ClaimsAlwaysOwned` (`[]AcquiringHasOwner`): an acquiring row has a job that has not
    recorded, and a copy marked acquiring that a job still holds is of such a row
    (`ClaimsOwned`); a job that is over left no claim behind (`OverRecorded`).
  - `FiledNeverQueued` (`[]FiledNotQueued`): whoever may save a copy has, in the row or in
    the copy, no attempt time with a finished file.

  Their hypotheses are about what the code does not promise otherwise, each with a
  run or a hazard that shows it. `HiddenNeverServed` needs none (the property speaks of
  unchanged settings itself). The next three assume `MaxChanges = 0`, for a change
  starts episodes again, and `NoneStrands`, no stream of a waiting backlog
  episode, for such a stream saves a row of before the claim (`v_tee_strands`);
  `ClaimsAlwaysOwned` also `~DbFaults`, for a fault while an outcome is recorded leaves
  the claim (`pipeline.go:537`). `FiledNeverQueued` assumes `MaxChanges = 0 \/ NoTees`:
  a stream of an unprocessed episode leaves its attempt time, and once processing is
  switched on that episode is a ready one that is queued; TLC finds this without the
  hypothesis.

### Downloads

- `TunnelPoolProofs`: `KeysAlwaysApart`, that the count kept of each key is of the
  pooled tunnels on it and, where `max_tunnels` is at most the number of keys, no two
  of them share one. The reason is a count: while the pool has room, fewer tunnels are
  pooled than there are keys, so some key has none, and `pickKey` prefers it. The
  invariant adds what holds while the mutex is held (`OpeningSound`): the tunnel being
  opened, its server not yet in the pool, its key already counted.
- `DownloadSystemProofs`: the same of the whole system (`KeysAlwaysSound`), for each of its
  steps is one of the pool's or leaves the pool alone, and `Setup` caps a Proton
  provider's `max_tunnels` at its keys. The others are from one invariant, `UsersInv`:
  - `TypesAlwaysKept` (`[]TypeOK`): a call's attempts, addresses and tiers fit its exit, and
    so do redirects and resumes their limits (`CallsFit`, `SelectionSound`).
  - `UsesAlwaysCounted` (`[]UsesCounted`): a use of a tunnel is a call's, an open
    connection's or an idle connection's (`Users` names them), and every action moves one
    call and adds, removes or hands on at most one use. So each tunnel's count is the
    number of its uses, whether it is pooled, forgotten or shut (`UsesSound`).
  - `AlwaysPermitted` (`[]OnlyPermittedServers`): a tunnel that somebody uses keeps its
    server, since it cannot be opened anew while used, and that server was
    permitted to the exit that got it. Lists that are replaced later change neither.
  - `AlwaysWholeFile` (`[]WholeFile`): what was read so far is parts of the file
    that the download began with, if the host identifies its files at all (`FetchSound`).
  - `TunnelsKeptWhileUsed` (`KeptWhileUsed`) and `AlwaysBestLocation` (`BestLocation`), action
    properties: whom `makeRoom` closes is unused, whom the reaper closes idle, the server
    of a tunnel being opened is not in the pool; and `choose` picks in the first tier
    that has a healthy server.

### Feeds

- `FeedSystemProofs`: actors save copies of rows and feeds that may be gone, so all of it
  rests on `IdsGivenOnce`: ids are given once, and whoever holds a copy has an id that
  was given. Most steps are `Quiet`: they change nothing of a row that its place,
  its flag or its date depends on. The others are a poll's sync, subscribing, an answer,
  new rules, deletions and the end of a job.
  - `FeedTypes` (`[]TypeOK`). That a form's rows make a list of rules is a lemma
    about ranks (`EveryRankIsTaken`): of finitely many rows in any order, each place of the
    list is some row's.
  - `RowsFollowRules` (`[]HiddenMatchesRules`), with the fact that a feed that is made has
    no rules yet.
  - `DocumentFollowed` (`[]RowsFollowDocument`) and `FeedIsNeverEmpty` (`[]NeverEmpty`). The
    first is not inductive: a poll whose feed was deleted, or deleted and subscribed
    again, is still in its sync. `InStep` asks for agreement unless the sync is of this
    feed, and then that what it syncs is the stored document.
  - `ReleaseDatesStay` (`ReleasedOnce`) and `PublishedStays` (`InFeedStays`), action
    properties. For the second `WorkSound` relates the job's copy to its row: either the
    copy is settled, or the row is still acquiring and backlog as the copy says. The
    attempt to prove it without its last exception failed on a job that writes `backlog`
    back; see [below](#what-the-checks-found).
  - `NewIsDated` (`NewIsDatedAfterLastCheck`). `DatesSound` is about dates clients may have
    seen, stored or about to be stored by a render that has yet to answer: one
    that is no later than a client's last render was in that render, or the item was
    noted as missed.

### Signing in

- `SignInProofs`: `EveryStepAlwaysTaken` (`[]EveryStepTaken`) and
  `SessionsAlwaysSound` (`[]SessionsSound`). Requests save copies of any age and go on
  from tokens that may be gone, so the invariant (`SignInInv`) is about each copy and
  each token: every copy is a sound row; what a request or a token still allows is
  what its sign-in needed without what it has passed; a session's times are within its
  limits whatever time its last use is recorded with.
  - `CodesUsedOnce` (`[]CodeUsedOnce`): as long as no copy was saved over a changed row
    (`~stale`), the steps accepted of a user's secret are none past the one in the row, and
    a secret that is pending has none (`CodeInv`).
  - `FailuresAlwaysBounded` (`[]FailuresBounded`): of each key, the recent failures and
    the requests still to be counted are together fewer than the limit and the
    browsers (`LimiterOK`); a request enters only below the limit, and becomes a failure
    one for one.
  - `TypesKept` (`[]TypeOK`). `Recent` is a recursive function, as the loop in
    `limiter.go` is a recursion over the list; that it exists, returns such times and
    that one failure adds one is an induction, done here by the least number of a set
    (`LeastNumber`), since induction theorems that take an operator are out of reach.

### Region diff

- `RegionDiffProofs`, all from one invariant, `RegionInv` (with `KeyInv` for the tunnels):
  - `JobsSound` says what is known of each episode of an attempt at each of its steps:
    those before the current one are over or wait with their home download, those after
    it are fresh or wait, and the current one has what its step needs. While downloads
    are compared, the exits that agreed, failed or are asked now and those left
    are all that could be asked (`BothSound`, `FallbackSound`). `Located` adds that
    a download's country is still its exit's while no exit has moved.
    Each function that makes a step (`EndJob`, `Joined`, `Compared` and so on) has a
    lemma; each action then has one.
  - `RegionDiffTypeOK` (`[]TypeOK`), with `TurnSound`: who is past `waitForTurn` and not
    done holds the turn, and nobody else does, so only one attempt downloads.
  - `RegionDiffAgreedAcrossRegions` (`[]AgreedAcrossRegions`), from `Over` (an identical
    job has asked everyone) and `Apart`.
  - `RegionDiffOneKeyIsEnough` (`[]OneKeyIsEnough`). `KeyInv` names the connections that
    an attempt leaves open on purpose (`LeftOpen`): the home exit's during a batch's home
    downloads, and the compared exit's until the comparison is done. Every other
    idle connection would be one that nobody closes. So whoever needs a tunnel finds it
    free or its own, until a download fails, is repeated or is cancelled.
  - `RegionDiffCutsAreVerdicts`: a cut is a verdict of comparing the two downloads its
    job has in the end. With it `RegionDiffCutsSound` (`[]CutsSound`) brings
    what is published down to what the comparison makes of two downloads of one host
    (`ComparisonsSound`, its hypothesis, which TLC evaluates for the hosts of
    `MCRegionDiff`). It is false of arbitrary pairs: where hashes collide, `verify`
    drops the rest of a run, the show with it.

### Only model-checked

- `ComparisonsSound`, what the comparison of two downloads computes: a nest of inductions
  over their frames. It stays with TLC, on the downloads of `MCRegionDiff`, and is
  the hypothesis of `RegionDiffCutsSound`.
- Everything under fairness (`EverySettles`, `WithheldIsRetried`, `WaiterAnswered`,
  `RunReturns`): liveness and ENABLED are outside this prover.

## What the checks found

| Run | Statement | What happens |
|---|---|---|
| `v_stale_settings` | "A file made with settings that have since changed isn't served" (`serve.go:101`), "checked again once its job is done" (`reconcile.go:118`) | a request that joins a job begun under older settings gets its file: the row is read again after the wait, but not checked again |
| `v_tee_strands` | "acquiring: a worker (or a request) is downloading or processing it" (`docs/episodes.md:28`) | a stream of a backlog episode that waits on an unprocessed feed saves the row as the request read it: marked acquiring, after the job that marked it has ended. The episode stays so, and keeps newer ones waiting, until the next start |

Modelling showed other steps the code does not exclude. No property asks for them;
the hazards of `PROJECT.json` list them where they bite.

- `preparing` is asked once, when a stream starts (`serve.go:149`). A late retry, or
  a job after processing is switched on, that starts later and ends sooner is
  overwritten by the stream, file, row or both.
- A queued episode of a feed with region diff off is batched, and so processed,
  because only `BatchSize` is asked (`pipeline.go:284`).
- A late retry that fails under a new failure policy writes the new label without
  applying the policy (`pipeline.go:500`).
- A request with an old copy of the row prepares an episode that has just been
  prepared (`pipeline.go:363`); a sweep with an old list then removes the newer
  file (`housekeeping.go:117`).
- A crash between a file's rename and its row's save leaves the label of the file
  that was there before, if there was one.

Each needs a stream, a job, a list or a request that spans another one. The
properties that hold show how far they reach: rows stay sound through all of them.

Feeds:

- A sync that fails after the document and its ETag are on the feed is not repeated:
  the source then answers "not modified", and the items of that poll stay unknown
  until it changes (`feeds/service.go:352`, `380`). Render between the two saves shows
  the new document with the old rows.
- A poll and a change of settings each save the whole row of the feed, the one that
  comes last as it read it.
- The sweep deletes from a list: an episode that was listed again, or switched to
  "serve", in between goes, and is not found again under "not modified".
- `hidden` is not decided again when preparing an episode measures its length, and a
  job writes back the title and length that its copy of the row had.
- So does it with `backlog`: an episode that was hidden and asked for, and shown again as
  backlog while its job ran, loses the flag, and may then hold newer ones back
  (`database/episode.go:121`, `feed_rule.go:121`).
- A render that races another may serve an episode with a later date than the one
  recorded, and marks one released that its document did not hold.

Downloads:

- A caller that gives up while it waits in `pool.get` has its server benched by
  `through` although nothing is wrong with it; `attempt` takes care to call the same
  "nobody's fault" (`module.go`).
- After `forget` of a tunnel in use its device lives on with its key, uncounted: open
  devices may exceed `max_tunnels` for as long.
- Without ETag and Last-Modified a resumed download is only compared by size.

Region diff:

- On one key a repeated home download (`recheck`) meets the partner's idle connection:
  it waits out the pool's limit and fails, and its own idle connection is closed by
  nobody (`processor.go:506`). `fetchPartner` and the fallbacks likewise leave an idle
  connection behind when a later part of the attempt fails. `OneKeyIsEnough` holds
  where nothing is repeated or fails.
- `fetchPartner` returns no error when the context ends during the first candidate;
  the empty result is refused only further up (`writeProcessed`, `recordOutcome`).
- Countries are compared before the wait for a turn, not again afterwards.
- Overlapping markers at one edge are removed in the order of a map.

Signing in:

- Two requests at once may both verify one code, or both use one sign-in token; and
  any save of a user's row may undo another since it was loaded, a console's reset
  included. Sign-ins under way survive the deletion of the user's tokens.

## What is not modelled

- Of episodes: `MarkFullyServed`, `source_item` (they steer eviction and the copy of a
  dropped item), database errors outside a job, a rename that fails,
  `episodes/status.go`.
- Of feeds: which of several is due, rewriting the document (`rss/rewrite.go`), titles
  of bonus episodes, serving of images.
- Of downloads: the lookup of names through a tunnel with its retries
  (`tunnel.go:131-275`), packets, direct downloads, which addresses are public, parsing
  of server lists and locations, `TunnelBudget`'s warnings, more than one provider.
- Of region diff: downloads kept for inspection (`failures.go`), what is reported of
  cuts, refining an offset by ear and smoothing its edges.
- Of sign-in: hashing and its cost, names that do not exist (they count as wrong ones),
  codes of two steps that happen to be equal, cookies that are cleared. A request the
  limiter refuses changes nothing. `signInStep` loads token and user in one step.
- Settings, logging, the console's prompts, the parsers of RSS and MP3, the pages of the
  web UI: sequential functions of their input.
