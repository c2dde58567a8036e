----------------------------- MODULE RegionDiff -----------------------------
(***************************************************************************)
(* Region diff as the pipeline runs it (modules/regiondiff/processor.go,   *)
(* setup.go): an attempt downloads an episode through the home exit and    *)
(* through one in another country, compares the two, and asks the          *)
(* fallback exits while they agree; a batch does so for a few episodes,    *)
(* all the home downloads first.                                           *)
(*                                                                         *)
(* Connections matter: an exit's tunnel stays open while something is      *)
(* downloaded through it or a connection is kept alive, and a provider     *)
(* has only so many tunnels (processor.tunnels; see TunnelPool for them).  *)
(***************************************************************************)
EXTENDS AudioDiff

CONSTANTS
    Attempt,            \* calls of Process and ProcessBatch
    Exit, Direct,       \* Direct needs no tunnel, and its country is unknown
    Countries,          \* [Exit -> SUBSET Country]: where each may come out
    Content, Download(_),   \* what hosts send, and what it is to compare
    Hosts,              \* what a host may send to each country
    Blocks,             \* region_diff blocks of config.json
    Feeds,              \* their settings, and the duration they state; 0 is none
    Show,               \* the sounds that are the show
    BatchSize,
    Budgets             \* bounds: attempts cancelled, downloads that fail, exits that
                        \* move, idle connections that time out

NoExit == "no exit"
Nothing == "nothing"    \* not downloaded yet
Failure == "failure"

Switches == {"", "on", "off"}

ASSUME RegionDiffAssumption ==
    /\ IsFiniteSet(Attempt) /\ IsFiniteSet(Exit)
    /\ Feeds # {} /\ Direct \in Exit /\ NoExit \notin Exit /\ {Nothing, Failure} \cap Content = {}
    /\ \A c \in Content : Download(c).frames \in Seq(ToSet(Download(c).frames))
    /\ \A b \in Blocks :
          b \in [exits : Seq(ToSet(b.exits)), fallbacks : Seq(ToSet(b.fallbacks)),
                tunnels : Nat \ {0}, pairDownloads : {"auto", "together", "in_turn"},
                enabled : BOOLEAN, options : [audio : BOOLEAN, repeats : BOOLEAN, markers : BOOLEAN]]
    /\ \A f \in Feeds :
          f \in [exits : Seq(Exit), stated : Nat, diff : Switches, audio : Switches,
                repeats : Switches, markers : Switches]
    /\ \A f \in Feeds : f.exits = <<>> \/ (Len(f.exits) = 2 /\ f.exits[1] # f.exits[2])
    /\ BatchSize \in Nat \ {0}
    /\ Budgets \subseteq [cancel : Nat, fault : Nat, move : Nat, idle : Nat]

VARIABLES
    processor,      \* what Setup built: pair, fallbacks, and the rest of its block
    host,
    country,        \* where each exit comes out now
    using, idle,    \* by exit: downloads under way; a connection kept alive
    turn,           \* who holds oneAtATime
    attempt,
    refused,        \* a download found every tunnel taken
    untidy,         \* one failed, was repeated or cancelled
    budget

vars == <<processor, host, country, using, idle, turn, attempt, refused, untidy, budget>>

-----------------------------------------------------------------------------
(* setup.go                                                                *)

(* Both can only come out in one country, the same.                        *)
SameCountry(e, f) ==
    Direct \notin {e, f} /\ Countries[e] = Countries[f] /\ Cardinality(Countries[e]) = 1

TurnsOn(block) ==
    /\ Len(block.exits) = 2 /\ ToSet(block.exits) \subseteq Exit
    /\ block.exits[1] # block.exits[2] /\ ~SameCountry(block.exits[1], block.exits[2])

UsableFallbacks(block) ==
    LET Usable(e) == e \in Exit \ ToSet(block.exits) /\ ~SameCountry(block.exits[1], e)
        Listed(i) == \E j \in 1 .. i - 1 : block.fallbacks[j] = block.fallbacks[i]
    IN  Picked(block.fallbacks,
               {i \in DOMAIN block.fallbacks : Usable(block.fallbacks[i]) /\ ~Listed(i)})

Setup(block) == [block EXCEPT !.fallbacks = UsableFallbacks(block)]

-----------------------------------------------------------------------------
(* What the processor decides for a feed.                                  *)

ExitsFit(exits) == Cardinality(exits \ {Direct}) <= processor.tunnels

Pair(feed) == IF feed.exits = <<>> THEN processor.exits ELSE feed.exits

FallbacksFor(feed) ==
    Picked(processor.fallbacks,
           {i \in DOMAIN processor.fallbacks : processor.fallbacks[i] \notin ToSet(Pair(feed))})

Handles(feed) == IF feed.diff = "" THEN processor.enabled ELSE feed.diff = "on"

Switch(own, global) == IF own = "" THEN global ELSE own = "on"

OptionsFor(block, feed) == [audio   |-> Switch(feed.audio, block.options.audio),
                            repeats |-> Switch(feed.repeats, block.options.repeats),
                            markers |-> Switch(feed.markers, block.options.markers)]

TakesTurns == ~ExitsFit(ToSet(processor.exits) \cup ToSet(processor.fallbacks))

DownloadsInTurn(pair) ==
    CASE processor.pairDownloads = "in_turn"  -> TRUE
      [] processor.pairDownloads = "together" -> FALSE
      [] OTHER                                -> ~ExitsFit(ToSet(pair))

MayBatch(feed) == ~ExitsFit(ToSet(Pair(feed)))

-----------------------------------------------------------------------------
(* A job is one episode of an attempt.                                     *)

NoDownload == [content |-> Nothing, country |-> Nothing]
Failed     == [content |-> Failure, country |-> Nothing]

Got(download) == download.content \in Content

Outcome(kind, kept) == [kind |-> kind, kept |-> kept]

Pending == Outcome("pending", {})
Error   == Outcome("error", {})
Empty   == Outcome("empty", {})     \* no error and no audio either

NewJob(expected) ==
    [expected |-> expected, candidates |-> <<>>, left |-> <<>>, home |-> NoDownload,
     other |-> NoDownload, compared |-> NoExit, agreed |-> {}, failed |-> {}, outcome |-> Pending]

Idle == [pc |-> "idle", feed |-> CHOOSE f \in Feeds : TRUE, batch |-> FALSE, jobs |-> <<>>,
         job |-> 1, fetching |-> {}, cancelled |-> FALSE, moved |-> FALSE]

Init ==
    /\ \E block \in Blocks : TurnsOn(block) /\ processor = Setup(block)
    /\ host \in Hosts
    /\ country \in {c \in [Exit -> UNION {Countries[e] : e \in Exit}] : \A e \in Exit : c[e] \in Countries[e]}
    /\ using = [e \in Exit |-> 0]
    /\ idle = [e \in Exit |-> FALSE]
    /\ turn = {}
    /\ attempt = [a \in Attempt |-> Idle]
    /\ refused = FALSE /\ untidy = FALSE
    /\ budget \in Budgets

Audio(download) == Download(download.content).frames
Duration(download) == IF Got(download) THEN Len(Audio(download)) ELSE 0

(* What With may say; `@@' makes TLC work it out once.                     *)
VerdictTable ==
    [home \in Content, other \in Content, expected \in {f.stated : f \in Feeds},
     options \in {OptionsFor(block, feed) : block \in Blocks, feed \in Feeds} |->
        Verdicts(Download(home), Download(other), expected, options)] @@ <<>>

(* incomplete: a download much shorter than it should be.                  *)
Incomplete(duration, expected, other) ==
    \/ duration = 0 /\ other > 0
    \/ expected > 0 /\ 10 * duration < 8 * expected
    \/ expected = 0 /\ other > 0 /\ 10 * duration < 8 * other

-----------------------------------------------------------------------------
(* The steps of an attempt.  A step gives the attempt as it goes on, and   *)
(* the exits whose idle connections it closes.                             *)

Step(att, closed) == [attempt |-> att, closed |-> closed]

HomeExit(att) == Pair(att.feed)[1]
Job(att) == att.jobs[att.job]
Set(att, job, pc) == [att EXCEPT !.jobs[att.job] = job, !.pc = pc]

(* The next of a batch that has its home download, or the end.             *)
Onward(att, from) ==
    LET ready == {j \in from .. Len(att.jobs) : Got(att.jobs[j].home)}
    IN  IF ~att.batch \/ ready = {} THEN [att EXCEPT !.pc = "done"]
        ELSE [att EXCEPT !.job = Min(ready), !.pc = "partner"]

(* Mutant: the home exit's connection is left to its idle timeout.         *)
AfterHomeLeftIdle(att) ==
    IF att.job < Len(att.jobs) THEN Step([att EXCEPT !.job = @ + 1, !.pc = "check"], {})
    ELSE Step(Onward(att, 1), {})

(* The home exit's connection is closed once, when all of them are in.     *)
AfterHome(att) ==
    IF att.job < Len(att.jobs) THEN Step([att EXCEPT !.job = @ + 1, !.pc = "check"], {})
    ELSE Step(Onward(att, 1), {HomeExit(att) : j \in {j \in DOMAIN att.jobs : Got(att.jobs[j].home)}})

EndJob(att, job, outcome, closed) ==
    Step(Onward(Set(att, [job EXCEPT !.outcome = outcome], "partner"), att.job + 1), closed)

HomeFailed(att) ==
    LET ended == Set(att, [Job(att) EXCEPT !.outcome = Error], "done")
    IN  IF att.batch THEN AfterHome(ended) ELSE Step(ended, {})

(* finishPair: rechecks where they are called for, then the comparison.    *)
Doubts(job, download, other) == Incomplete(Duration(download), job.expected, Duration(other))

AfterRecheckHome(job) == IF Doubts(job, job.other, job.home) THEN "reother" ELSE "compare"

AfterPair(job) == IF Doubts(job, job.home, job.other) THEN "rehome" ELSE AfterRecheckHome(job)

(* With no partner: an error, but none when the first was cut off.         *)
NoPartner(att, job) ==
    EndJob(att, job, IF att.cancelled /\ job.failed = {} THEN Empty ELSE Error, {})

(* fetchPair, both at once: the home download failing ends the other.      *)
Joined(att, job) ==
    LET partnerEnded == Got(job.other) \/ job.other = Failed
    IN  IF job.home = NoDownload \/ ~partnerEnded THEN Step(Set(att, job, "pair"), {})
        ELSE IF job.home = Failed THEN EndJob(att, job, Error, {})
        ELSE IF job.other = Failed THEN NoPartner(att, job)
        ELSE Step(Set(att, job, AfterPair(job)), {})

HomeFetched(att, download) ==
    LET job == [Job(att) EXCEPT !.home = download]
    IN  IF att.pc = "pair" THEN Joined(att, job)
        ELSE IF ~Got(download) THEN HomeFailed(att)
        ELSE IF att.batch THEN AfterHome(Set(att, job, "home"))
        ELSE Step(Set(att, job, "partner"), {HomeExit(att)})

(* fetchPartner                                                            *)
PartnerFetched(att, exit, download) ==
    LET stopped == att.cancelled \/ Job(att).home = Failed
        tried   == [Job(att) EXCEPT !.left = Tail(@)]
        job     == IF Got(download) THEN [tried EXCEPT !.other = download, !.compared = exit]
                   ELSE IF stopped THEN [tried EXCEPT !.other = Failed]
                   ELSE [tried EXCEPT !.failed = @ \cup {exit},
                                      !.other = IF tried.left = <<>> THEN Failed ELSE NoDownload]
    IN  IF att.pc = "pair" THEN Joined(att, job)
        ELSE IF Got(job.other) THEN Step(Set(att, job, AfterPair(job)), {})
        ELSE IF job.other = Failed THEN NoPartner(att, job)
        ELSE Step(Set(att, job, "partner"), {})

(* recheck: the second download unless it looks no better.                 *)
Better(job, again, first, other) ==
    /\ Got(again)
    /\ ~Doubts(job, again, other) \/ Duration(again) > Duration(first)

HomeAgain(att, download) ==
    LET job  == Job(att)
        next == IF Better(job, download, job.home, job.other) THEN [job EXCEPT !.home = download] ELSE job
    IN  Step(Set(att, next, AfterRecheckHome(next)), {})

OtherAgain(att, download) ==
    LET job  == Job(att)
        next == IF Better(job, download, job.other, job.home) THEN [job EXCEPT !.other = download] ELSE job
    IN  Step(Set(att, next, "compare"), {})

(* Mutant: the pair agreeing is enough.                                    *)
AgreedAtOnce(att, job, closed) ==
    EndJob(att, job, Outcome("identical", DOMAIN Audio(job.home)), closed \cup {job.compared})

(* They agree: the next fallback is asked, if there is one left.           *)
Agreed(att, job, closed) ==
    IF job.left = <<>>
    THEN EndJob(att, job, Outcome("identical", DOMAIN Audio(job.home)), closed \cup {job.compared})
    ELSE Step(Set(att, job, "fallback"), closed \cup {job.compared})

(* Mutant: what the comparison makes no sense of is published as it is.    *)
ComparedOrWhole(att, verdict) ==
    LET job == Job(att)
    IN  CASE verdict = Identical ->
                Agreed(att, [job EXCEPT !.agreed = @ \cup {<<job.compared, job.other.country>>}], {})
          [] verdict.kind \in {"whole", "cut"} -> EndJob(att, job, verdict, {job.compared})
          [] OTHER -> EndJob(att, job, Outcome("whole", DOMAIN Audio(job.home)), {job.compared})

Compared(att, verdict) ==
    LET job == Job(att)
    IN  CASE verdict = Identical ->
                Agreed(att, [job EXCEPT !.agreed = @ \cup {<<job.compared, job.other.country>>}], {})
          [] verdict.kind \in {"whole", "cut"} -> EndJob(att, job, verdict, {job.compared})
          [] OTHER -> EndJob(att, job, Error, {job.compared})

FallbackFetched(att, exit, download, slow) ==
    LET tried == [Job(att) EXCEPT !.left = Tail(@)]
        job   == [tried EXCEPT !.compared = exit, !.other = download]
    IN  IF att.cancelled THEN EndJob(att, tried, Error, {tried.compared})
        ELSE IF Got(download) THEN Step(Set(att, job, AfterRecheckHome(job)), {})
        ELSE Agreed(att, [tried EXCEPT !.failed = @ \cup {exit}], IF slow THEN {exit} ELSE {})

Fetched(att, exit, download) ==
    IF exit = HomeExit(att)
    THEN IF att.pc = "rehome" THEN HomeAgain(att, download) ELSE HomeFetched(att, download)
    ELSE CASE att.pc \in {"partner", "pair"} -> PartnerFetched(att, exit, download)
           [] att.pc = "reother"             -> OtherAgain(att, download)
           [] att.pc = "fallback"            -> FallbackFetched(att, exit, download, FALSE)

-----------------------------------------------------------------------------
(* What an attempt downloads through now.                                  *)
Wanted(att) ==
    LET job == Job(att)
        homeWanted  == att.pc \in {"home", "rehome"} \/ (att.pc = "pair" /\ job.home = NoDownload)
        otherWanted == att.pc \in {"partner", "fallback"} \/ (att.pc = "pair" /\ job.other = NoDownload)
    IN  {e \in Exit : \/ homeWanted /\ e = HomeExit(att)
                      \/ otherWanted /\ e = Head(job.left)
                      \/ att.pc = "reother" /\ e = job.compared}

Open == {e \in Exit \ {Direct} : using[e] > 0 \/ idle[e]}

HasTunnel(e) == e = Direct \/ e \in Open \/ Cardinality(Open) < processor.tunnels

Stopped(att) == att.cancelled \/ (att.pc = "pair" /\ Job(att).home = Failed)

(* The step is taken, the connection through `kept' staying alive, if any. *)
Take(a, step, kept) ==
    /\ attempt' = [attempt EXCEPT ![a] = step.attempt]
    /\ idle' = [e \in Exit |-> (idle[e] \/ e \in kept) /\ e \notin step.closed]
    /\ turn' = IF step.attempt.pc = "done" THEN turn \ {a} ELSE turn

(* The pipeline hands over an episode, or a batch of a feed's.             *)
Start(a, feed, batch, n) ==
    /\ attempt[a].pc = "idle"
    /\ Handles(feed) /\ batch => MayBatch(feed)
    /\ attempt' = [attempt EXCEPT ![a] =
            [Idle EXCEPT !.pc = IF batch THEN "turn" ELSE "check", !.feed = feed, !.batch = batch,
                         !.jobs = [j \in 1 .. n |-> NewJob(feed.stated)]]]
    /\ UNCHANGED <<processor, host, country, using, idle, turn, refused, untidy, budget>>

(* inDifferentCountries                                                    *)
CheckCountries(a) ==
    LET att  == attempt[a]
        home == HomeExit(att)
        Elsewhere(e) == Direct \in {home, e} \/ country[e] # country[home]
        listed == <<Pair(att.feed)[2]>> \o FallbacksFor(att.feed)
        others == Picked(listed, {i \in DOMAIN listed : Elsewhere(listed[i])})
        job    == [Job(att) EXCEPT !.candidates = others, !.left = others]
    IN  /\ att.pc = "check"
        /\ Take(a, IF others = <<>> THEN HomeFailed(att)
                   ELSE Step(Set(att, job, IF att.batch THEN "home" ELSE "turn"), {}), {})
        /\ UNCHANGED <<processor, host, country, using, refused, untidy, budget>>

(* Mutant: nobody waits.                                                   *)
FreeTurn == TRUE

TurnFree == TakesTurns => turn = {}

TakeTurn(a) ==
    LET att == attempt[a]
        first == Head(Job(att).candidates)
    IN  /\ att.pc = "turn" /\ TurnFree
        /\ turn' = IF TakesTurns THEN turn \cup {a} ELSE turn
        /\ attempt' = [attempt EXCEPT ![a].pc =
                IF att.batch THEN "check"
                ELSE IF DownloadsInTurn(<<HomeExit(att), first>>) THEN "home" ELSE "pair"]
        /\ UNCHANGED <<processor, host, country, using, idle, refused, untidy, budget>>

GivenUp(att) ==
    [att EXCEPT !.pc = "done",
                !.jobs = [j \in DOMAIN att.jobs |-> [att.jobs[j] EXCEPT !.outcome = Error]]]

GiveUpTurn(a) ==
    /\ attempt[a].pc = "turn" /\ attempt[a].cancelled
    /\ attempt' = [attempt EXCEPT ![a] = GivenUp(@)]
    /\ UNCHANGED <<processor, host, country, using, idle, turn, refused, untidy, budget>>

-----------------------------------------------------------------------------
(* job.Fetch                                                               *)

Rechecks(a) == attempt[a].pc \in {"rehome", "reother"}

Connect(a, e) ==
    /\ e \in Wanted(attempt[a]) \ attempt[a].fetching
    /\ ~Stopped(attempt[a]) /\ HasTunnel(e)
    /\ attempt' = [attempt EXCEPT ![a].fetching = @ \cup {e}]
    /\ using' = [using EXCEPT ![e] = @ + 1]
    /\ untidy' = (untidy \/ Rechecks(a))
    /\ UNCHANGED <<processor, host, country, idle, turn, refused, budget>>

(* Every tunnel is taken, and stays so for as long as the pool waits; or   *)
(* the attempt has been stopped.                                           *)
ConnectFails(a, e) ==
    /\ e \in Wanted(attempt[a]) \ attempt[a].fetching
    /\ Stopped(attempt[a]) \/ ~HasTunnel(e)
    /\ Take(a, Fetched(attempt[a], e, Failed), {})
    /\ refused' = (refused \/ ~Stopped(attempt[a]))
    /\ untidy' = (untidy \/ Stopped(attempt[a]) \/ Rechecks(a))
    /\ UNCHANGED <<processor, host, country, using, budget>>

Ended(a, e) == [attempt[a] EXCEPT !.fetching = @ \ {e}]

Arrives(a, e, content) ==
    /\ e \in attempt[a].fetching /\ ~attempt[a].cancelled
    /\ content \in host[country[e]]
    /\ using' = [using EXCEPT ![e] = @ - 1]
    /\ Take(a, Fetched(Ended(a, e), e, [content |-> content, country |-> country[e]]), {e})
    /\ UNCHANGED <<processor, host, country, refused, untidy, budget>>

FetchFails(a, e) ==
    /\ e \in attempt[a].fetching
    /\ \/ Stopped(attempt[a]) /\ UNCHANGED budget
       \/ budget.fault > 0 /\ budget' = [budget EXCEPT !.fault = @ - 1]
    /\ using' = [using EXCEPT ![e] = @ - 1]
    /\ \E kept \in SUBSET {e} : Take(a, Fetched(Ended(a, e), e, Failed), kept)
    /\ untidy' = TRUE
    /\ UNCHANGED <<processor, host, country, refused>>

FallbackTooSlow(a, e) ==
    /\ attempt[a].pc = "fallback" /\ e \in attempt[a].fetching /\ ~attempt[a].cancelled
    /\ budget.fault > 0 /\ budget' = [budget EXCEPT !.fault = @ - 1]
    /\ using' = [using EXCEPT ![e] = @ - 1]
    /\ Take(a, FallbackFetched(Ended(a, e), e, Failed, TRUE), {e})
    /\ untidy' = TRUE
    /\ UNCHANGED <<processor, host, country, refused>>

(* comparison.With                                                         *)
Compare(a) ==
    LET att == attempt[a]  job == Job(att) IN
    /\ att.pc = "compare"
    /\ \/ \E verdict \in VerdictTable[job.home.content, job.other.content, job.expected, OptionsFor(processor, att.feed)] :
            Take(a, Compared(att, verdict), {})
       \/ att.cancelled /\ Take(a, EndJob(att, job, Error, {job.compared}), {})
    /\ UNCHANGED <<processor, host, country, using, refused, untidy, budget>>

-----------------------------------------------------------------------------
(* What goes on around it.                                                 *)

Cancel(a) ==
    /\ attempt[a].pc \notin {"idle", "done"} /\ ~attempt[a].cancelled
    /\ budget.cancel > 0 /\ budget' = [budget EXCEPT !.cancel = @ - 1]
    /\ attempt' = [attempt EXCEPT ![a].cancelled = TRUE]
    /\ untidy' = TRUE
    /\ UNCHANGED <<processor, host, country, using, idle, turn, refused>>

(* An exit fails over to a server in another country, or back.             *)
Move(e, to) ==
    /\ to # country[e]
    /\ budget.move > 0 /\ budget' = [budget EXCEPT !.move = @ - 1]
    /\ country' = [country EXCEPT ![e] = to]
    /\ attempt' = [a \in Attempt |->
            [attempt[a] EXCEPT !.moved = @ \/ attempt[a].pc \notin {"idle", "done"}]]
    /\ UNCHANGED <<processor, host, using, idle, turn, refused, untidy>>

IdleTimeout(e) ==
    /\ idle[e] /\ idle' = [idle EXCEPT ![e] = FALSE]
    /\ budget.idle > 0 /\ budget' = [budget EXCEPT !.idle = @ - 1]
    /\ UNCHANGED <<processor, host, country, using, turn, attempt, refused, untidy>>

Next ==
    \/ \E a \in Attempt :
        \/ \E feed \in Feeds : \/ Start(a, feed, FALSE, 1)
                               \/ \E n \in 2 .. BatchSize : Start(a, feed, TRUE, n)
        \/ CheckCountries(a) \/ TakeTurn(a) \/ GiveUpTurn(a)
        \/ \E e \in Exit : \/ Connect(a, e) \/ ConnectFails(a, e) \/ FetchFails(a, e)
                           \/ FallbackTooSlow(a, e)
                           \/ \E content \in Content : Arrives(a, e, content)
        \/ Compare(a) \/ Cancel(a)
    \/ \E e \in Exit : IdleTimeout(e) \/ \E to \in Countries[e] : Move(e, to)

Spec == Init /\ [][Next]_vars

-----------------------------------------------------------------------------
Jobs == UNION {{[job |-> attempt[a].jobs[j], attempt |-> attempt[a]] : j \in DOMAIN attempt[a].jobs} :
                  a \in Attempt}

(* What a host's downloads carry of the show, whatever else is in them.    *)
ShowIn(download) == {f.sound : f \in ToSet(Audio(download))} \cap Show

(* An episode that is published cut keeps all of its show, where the       *)
(* download it was compared with has it (toSegmentBoundaries, check).      *)
ShowStays(j) ==
    ShowIn(j.home) \subseteq ShowIn(j.other) =>
        \A i \in DOMAIN Audio(j.home) : Audio(j.home)[i].sound \in Show => i \in j.outcome.kept

(* What stays of it is in the other download too, but for stretches too    *)
(* short to be an ad where they were compared by ear.                      *)
OnlySharedStays(j) ==
    LET file   == Audio(j.home)
        there  == {f.sound : f \in ToSet(Audio(j.other))}
        alien  == {i \in j.outcome.kept : file[i].sound \notin there}
    IN  \A i \in alien : \E k \in DOMAIN file :
            /\ i - k \in -MinAudioBreak .. MinAudioBreak
            /\ file[k].sound \in there

(* And every frame that stays finds the bytes it borrows before it.        *)
Decodes(j) ==
    LET file    == Audio(j.home)
        written == j.outcome.kept \cup Carriers(file, j.outcome.kept)
    IN  \A s \in j.outcome.kept :
            \E first \in 1 .. s : /\ first .. s - 1 \subseteq written
                                 /\ \/ first = 1
                                    \/ Carry(file, first .. s - 1) >= file[s].begin

(* What CutsSound needs of the comparison (comparison.With), which is to   *)
(* say of every two downloads that one host may send.                      *)
ComparisonSound(home, other, expected, options) ==
    \A verdict \in VerdictTable[home, other, expected, options] :
        LET job == [home |-> [content |-> home], other |-> [content |-> other], outcome |-> verdict]
        IN  verdict.kind \in {"cut", "whole"} =>
                ShowStays(job) /\ OnlySharedStays(job) /\ Decodes(job)

SentBy(h) == Content \cap UNION {h[c] : c \in UNION {Countries[e] : e \in Exit}}

ComparisonsSound ==
    \A h \in Hosts : \A home, other \in SentBy(h) :
        \A expected \in {f.stated : f \in Feeds}, options \in {OptionsFor(b, f) : b \in Blocks, f \in Feeds} :
            ComparisonSound(home, other, expected, options)

(* What is handed to the cache: a cut that keeps the show and loses what   *)
(* only the home region plays, or audio at all, unless it was cancelled.   *)
CutsSound ==
    \A r \in Jobs :
        /\ r.job.outcome.kind \in {"cut", "whole"} =>
                ShowStays(r.job) /\ OnlySharedStays(r.job) /\ Decodes(r.job)
        /\ r.job.outcome.kind = "empty" => r.attempt.cancelled
        /\ r.job.outcome.kind = "identical" /\ r.job.outcome.kept = {} => Audio(r.job.home) = <<>>

(* An episode is declared to have no ads only when every exit it could be  *)
(* compared through agreed, failed or was too slow, at least one agreed,   *)
(* and none of them came out in the home exit's country, unless an exit    *)
(* moved meanwhile ("two exits in the same country are never compared",    *)
(* processor.go).                                                          *)
AgreedAcrossRegions ==
    \A r \in Jobs :
        LET exits == {x[1] : x \in r.job.agreed} IN
        r.job.outcome.kind = "identical" =>
            /\ exits # {} /\ exits \cup r.job.failed = ToSet(r.job.candidates)
            /\ \A x \in r.job.agreed :
                    Direct \in {x[1], HomeExit(r.attempt)} \/ r.attempt.moved \/ x[2] # r.job.home.country

(* "In turn, only one tunnel is needed at a time, so one VPN key is        *)
(* enough" (processor.go): where attempts take turns and download in turn, *)
(* none finds every tunnel taken while nothing fails, is repeated or       *)
(* cancelled.                                                              *)
OneKeyIsEnough ==
    (/\ TakesTurns /\ ~untidy
     /\ \A r \in Jobs : r.job.candidates = <<>> \/ r.attempt.batch
                         \/ DownloadsInTurn(<<HomeExit(r.attempt), r.job.candidates[1]>>)) => ~refused

(* Every variable keeps its type; an exit is in use by the attempts that   *)
(* download through it, and only who has the turn works where turns are    *)
(* taken (processor.go, oneAtATime).                                       *)
TypeOK ==
    /\ \A e \in Exit : /\ country[e] \in Countries[e] /\ idle[e] \in BOOLEAN
                       /\ using[e] = Cardinality({a \in Attempt : e \in attempt[a].fetching})
    /\ turn \subseteq Attempt /\ {refused, untidy} \subseteq BOOLEAN
    /\ \A a \in Attempt :
        /\ attempt[a].fetching \subseteq Wanted(attempt[a])
        /\ attempt[a].pc \in {"idle", "check", "turn", "home", "pair", "partner", "rehome", "reother",
                              "compare", "fallback", "done"}
        /\ attempt[a].pc = "done" =>
                \A j \in DOMAIN attempt[a].jobs : attempt[a].jobs[j].outcome # Pending
    /\ TakesTurns => Cardinality({a \in Attempt : attempt[a].fetching # {}}) <= 1
=============================================================================
