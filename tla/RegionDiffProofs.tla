-------------------------- MODULE RegionDiffProofs ---------------------------
(***************************************************************************)
(* What RegionDiff's runs check, for any number of attempts, exits,        *)
(* countries, episodes and downloads.                                      *)
(*                                                                         *)
(* RegionInv says of every attempt what is known of each of its episodes   *)
(* at the step it has reached (JobsSound), who holds the turn (TurnSound)  *)
(* and which exits are in use (UsesSound).  KeyInv says which connections  *)
(* an attempt leaves open on purpose while all goes as it should.  Every   *)
(* function that makes a step (EndJob, Joined, Compared ...) has a lemma   *)
(* of its own, every action one that it keeps both.                        *)
(***************************************************************************)
EXTENDS RegionDiff, FiniteSetTheorems, WellFoundedInduction, TLAPS

-----------------------------------------------------------------------------
(* Types.                                                                  *)

Places == UNION {Countries[e] : e \in Exit}

(* What the host of this run may send, and what a download may then be.    *)
Sent == SentBy(host)

Downloads == [content : Sent \cup {Nothing, Failure}, country : Places \cup {Nothing}]

Options == [audio : BOOLEAN, repeats : BOOLEAN, markers : BOOLEAN]

Given == UNION {VerdictTable[x] : x \in Content \X Content \X Nat \X Options}

Outcomes == {Pending, Error, Empty} \cup {Outcome("identical", DOMAIN Audio(d)) : d \in Downloads} \cup Given

JobStates ==
    [expected : Nat, candidates : Seq(Exit), left : Seq(Exit), home : Downloads, other : Downloads,
     compared : Exit \cup {NoExit}, agreed : SUBSET (Exit \X (Places \cup {Nothing})),
     failed : SUBSET Exit, outcome : Outcomes]

Collecting == {"check", "turn", "home"}
Comparing  == {"pair", "partner", "rehome", "reother", "compare", "fallback"}
Running    == Collecting \cup Comparing

AttemptStates ==
    [pc : Running \cup {"idle", "done"}, feed : Feeds, batch : BOOLEAN, jobs : Seq(JobStates),
     job : Nat, fetching : SUBSET Exit, cancelled : BOOLEAN, moved : BOOLEAN]

-----------------------------------------------------------------------------
(* Sequences.                                                              *)

(* Of finitely many positions each place is some position's.               *)
LEMMA EveryPlaceIsTaken ==
    ASSUME NEW S \in SUBSET Int, IsFiniteSet(S), NEW k \in 1 .. Cardinality(S)
    PROVE  \E i \in S : Cardinality({j \in S : j <= i}) = k
  <1> DEFINE Upto(n) == {j \in S : j <= n}
             place == [n \in S |-> Cardinality(Upto(n))]
  <1>0. Cardinality(S) \in Nat
    BY FS_CardinalityType
  <1>1. ASSUME NEW n \in S
        PROVE  IsFiniteSet(Upto(n)) /\ place[n] \in 1 .. Cardinality(S)
    <2>1. Upto(n) \in SUBSET S /\ n \in Upto(n)
      OBVIOUS
    <2>2. IsFiniteSet(Upto(n)) /\ Cardinality(Upto(n)) <= Cardinality(S)
      BY <2>1, FS_Subset
    <2>3. Cardinality(Upto(n)) \in Nat /\ Cardinality(Upto(n)) # 0
      BY <2>1, <2>2, FS_CardinalityType, FS_EmptySet
    <2> HIDE DEF Upto
    <2> QED
      BY <1>0, <2>2, <2>3
  <1>2. ASSUME NEW m \in S, NEW n \in S, m < n
        PROVE  place[m] < place[n]
    <2>0. m \in Int /\ n \in Int
      OBVIOUS
    <2>1. Upto(m) \in SUBSET Upto(n) /\ n \in Upto(n) /\ n \notin Upto(m)
      <3>1. ASSUME NEW x \in S, x <= m
            PROVE  x <= n
        <4>1. x \in Int
          OBVIOUS
        <4> QED
          BY <1>2, <2>0, <3>1, <4>1
      <3>2. n <= n /\ ~(n <= m)
        BY <1>2, <2>0
      <3> QED
        BY <3>1, <3>2
    <2>2. Cardinality(Upto(m)) <= Cardinality(Upto(n)) /\ Cardinality(Upto(m)) # Cardinality(Upto(n))
      BY <1>1, <2>1, FS_Subset
    <2>3. Cardinality(Upto(m)) \in Nat /\ Cardinality(Upto(n)) \in Nat
      BY <1>1, FS_CardinalityType
    <2> HIDE DEF Upto
    <2> QED
      BY <2>2, <2>3
  <1>3. ASSUME NEW m \in S, NEW n \in S, m # n
        PROVE  place[m] # place[n]
    <2>1. m < n \/ n < m
      BY <1>3
    <2>2. place[m] \in 1 .. Cardinality(S) /\ place[n] \in 1 .. Cardinality(S)
      BY <1>1
    <2> HIDE DEF place
    <2> QED
      BY <1>0, <1>2, <2>1, <2>2
  <1>4. place \in Injection(S, 1 .. Cardinality(S))
    <2>1. place \in [S -> 1 .. Cardinality(S)]
      BY <1>1
    <2> HIDE DEF place
    <2> QED
      BY <1>3, <2>1 DEF Injection, IsInjective
  <1>6. IsFiniteSet(1 .. Cardinality(S)) /\ Cardinality(1 .. Cardinality(S)) = Cardinality(S)
    BY <1>0, FS_Interval
  <1>7. place \in Surjection(S, 1 .. Cardinality(S))
    BY <1>4, <1>6, FS_Injection
  <1>8. \E n \in S : place[n] = k
    BY <1>7 DEF Surjection
  <1> QED
    BY <1>8

(* A set of numbers has a least one.                                       *)
LEMMA LeastNumber ==
    ASSUME NEW S, S \subseteq Nat, S # {}
    PROVE  Min(S) \in S /\ \A x \in S : Min(S) <= x
  <1>1. PICK n \in S : \A m \in S : ~(<<m, n>> \in OpToRel(<, Nat))
    BY NatLessThanWellFounded, WFMin
  <1>2. \A m \in S : ~(m < n)
    BY <1>1 DEF OpToRel
  <1>3. \A m \in S : n <= m
    BY <1>2
  <1> QED
    BY <1>3 DEF Min

(* What is picked of a sequence is a sequence of what is at the positions. *)
LEMMA PickedType ==
    ASSUME NEW T, NEW s \in Seq(T), NEW at \in SUBSET (DOMAIN s)
    PROVE  /\ Picked(s, at) \in Seq(T) /\ Len(Picked(s, at)) = Cardinality(at)
           /\ \A k \in 1 .. Cardinality(at) : \E i \in at : Picked(s, at)[k] = s[i]
           /\ IsFiniteSet(at) /\ Cardinality(at) \in Nat
  <1> DEFINE Place(i) == Cardinality({j \in at : j <= i})
             r == [k \in 1 .. Cardinality(at) |-> s[CHOOSE i \in at : Place(i) = k]]
  <1>1. Picked(s, at) = r
    BY Zenon DEF Picked
  <1>2. Len(s) \in Nat /\ DOMAIN s = 1 .. Len(s) /\ \A i \in DOMAIN s : s[i] \in T
    OBVIOUS
  <1>3. IsFiniteSet(at) /\ at \in SUBSET Int /\ Cardinality(at) \in Nat
    <2>1. IsFiniteSet(DOMAIN s) /\ DOMAIN s \in SUBSET Int
      BY <1>2, FS_Interval
    <2> QED
      BY <2>1, FS_Subset, FS_CardinalityType
  <1>4. ASSUME NEW k \in 1 .. Cardinality(at)
        PROVE  \E i \in at : r[k] = s[i]
    <2>1. \E i \in at : Place(i) = k
      BY <1>3, EveryPlaceIsTaken
    <2>2. (CHOOSE i \in at : Place(i) = k) \in at
      <3> HIDE DEF Place
      <3> QED
        BY <2>1
    <2> HIDE DEF Place
    <2> QED
      BY <2>2
  <1>5. r = [k \in 1 .. Cardinality(at) |-> r[k]]
    OBVIOUS
  <1> HIDE DEF r
  <1>6. \A k \in 1 .. Cardinality(at) : r[k] \in T
    BY <1>2, <1>4
  <1>7. r \in Seq(T) /\ Len(r) = Cardinality(at)
    BY <1>3, <1>5, <1>6
  <1> QED
    BY <1>1, <1>3, <1>4, <1>7
-----------------------------------------------------------------------------
(* The processor.                                                          *)

ProcessorSound == \E block \in Blocks : TurnsOn(block) /\ processor = Setup(block)

LEMMA ProcessorType ==
    ASSUME ProcessorSound
    PROVE  /\ processor.exits \in Seq(Exit) /\ Len(processor.exits) = 2
           /\ processor.exits[1] # processor.exits[2]
           /\ processor.fallbacks \in Seq(Exit)
           /\ processor.tunnels \in Nat \ {0}
           /\ processor.options \in Options
  <1>1. PICK block \in Blocks : TurnsOn(block) /\ processor = Setup(block)
    BY DEF ProcessorSound
  <1>2. /\ block \in [exits : Seq(ToSet(block.exits)), fallbacks : Seq(ToSet(block.fallbacks)),
                tunnels : Nat \ {0}, pairDownloads : {"auto", "together", "in_turn"},
                enabled : BOOLEAN, options : Options]
    BY RegionDiffAssumption DEF Options
  <1>3. /\ processor.exits = block.exits /\ processor.fallbacks = UsableFallbacks(block)
        /\ processor.tunnels = block.tunnels /\ processor.options = block.options
    BY <1>1, <1>2 DEF Setup
  <1>4. /\ block.exits \in Seq(Exit) /\ Len(block.exits) = 2 /\ block.exits[1] # block.exits[2]
    <2>1. block.exits \in Seq(ToSet(block.exits)) /\ ToSet(block.exits) \subseteq Exit
      BY <1>1, <1>2 DEF TurnsOn
    <2>2. Len(block.exits) = 2 /\ block.exits[1] # block.exits[2]
      BY <1>1 DEF TurnsOn
    <2> QED
      BY <2>1, <2>2
  <1>5. UsableFallbacks(block) \in Seq(Exit)
    <2> DEFINE fb == block.fallbacks
               Usable(e) == e \in Exit \ ToSet(block.exits) /\ ~SameCountry(block.exits[1], e)
               Listed(i) == \E j \in 1 .. i - 1 : fb[j] = fb[i]
               at == {i \in DOMAIN fb : Usable(fb[i]) /\ ~Listed(i)}
               r == Picked(fb, at)
    <2>1. UsableFallbacks(block) = r
      BY Zenon DEF UsableFallbacks
    <2>2. fb \in Seq(ToSet(fb))
      BY <1>2
    <2>3. \A i \in at : fb[i] \in Exit
      OBVIOUS
    <2>4. at \in SUBSET DOMAIN fb
      OBVIOUS
    <2> HIDE DEF at, fb
    <2>5. /\ r \in Seq(ToSet(fb)) /\ Len(r) = Cardinality(at) /\ Cardinality(at) \in Nat
          /\ \A k \in 1 .. Cardinality(at) : \E i \in at : r[k] = fb[i]
      BY <2>2, <2>4, PickedType
    <2> HIDE DEF r
    <2>6. \A k \in 1 .. Len(r) : r[k] \in Exit
      BY <2>3, <2>5
    <2>7. r \in Seq(Exit)
      BY <2>5, <2>6
    <2> QED
      BY <2>1, <2>7
  <1> QED
    BY <1>2, <1>3, <1>4, <1>5

(* A feed's exits are two, and what else it is compared through is neither.*)
LEMMA PairType ==
    ASSUME ProcessorSound, NEW feed \in Feeds
    PROVE  /\ Pair(feed) \in Seq(Exit) /\ Len(Pair(feed)) = 2
           /\ Pair(feed)[1] \in Exit /\ Pair(feed)[2] \in Exit /\ Pair(feed)[1] # Pair(feed)[2]
           /\ FallbacksFor(feed) \in Seq(Exit \ {Pair(feed)[1], Pair(feed)[2]})
           /\ OptionsFor(processor, feed) \in Options
  <1>1. /\ feed.exits \in Seq(Exit)
        /\ feed.exits = <<>> \/ (Len(feed.exits) = 2 /\ feed.exits[1] # feed.exits[2])
    BY RegionDiffAssumption
  <1>2. Pair(feed) \in Seq(Exit) /\ Len(Pair(feed)) = 2 /\ Pair(feed)[1] # Pair(feed)[2]
    <2>1. CASE feed.exits = <<>>
      BY <2>1, ProcessorType DEF Pair
    <2>2. CASE feed.exits # <<>>
      BY <1>1, <2>2 DEF Pair
    <2> QED
      BY <2>1, <2>2
  <1>3. Pair(feed)[1] \in Exit /\ Pair(feed)[2] \in Exit /\ ToSet(Pair(feed)) = {Pair(feed)[1], Pair(feed)[2]}
    BY <1>2 DEF ToSet
  <1>4. FallbacksFor(feed) \in Seq(Exit \ {Pair(feed)[1], Pair(feed)[2]})
    <2> DEFINE fb == processor.fallbacks
               at == {i \in DOMAIN fb : fb[i] \notin ToSet(Pair(feed))}
               r == Picked(fb, at)
    <2>1. FallbacksFor(feed) = r
      BY Zenon DEF FallbacksFor
    <2>2. fb \in Seq(Exit)
      BY ProcessorType
    <2>3. \A i \in at : fb[i] \in Exit \ {Pair(feed)[1], Pair(feed)[2]}
      BY <1>3, <2>2
    <2>4. at \in SUBSET DOMAIN fb
      OBVIOUS
    <2> HIDE DEF at, fb
    <2>5. /\ r \in Seq(Exit) /\ Len(r) = Cardinality(at) /\ Cardinality(at) \in Nat
          /\ \A k \in 1 .. Cardinality(at) : \E i \in at : r[k] = fb[i]
      BY <2>2, <2>4, PickedType
    <2> HIDE DEF r
    <2>6. \A k \in 1 .. Len(r) : r[k] \in Exit \ {Pair(feed)[1], Pair(feed)[2]}
      BY <2>3, <2>5
    <2>7. r \in Seq(Exit \ {Pair(feed)[1], Pair(feed)[2]})
      BY <2>5, <2>6
    <2> QED
      BY <2>1, <2>7
  <1>5. OptionsFor(processor, feed) \in Options
    <2>1. \A own, global : global \in BOOLEAN => Switch(own, global) \in BOOLEAN
      BY DEF Switch
    <2>2. /\ processor.options.audio \in BOOLEAN /\ processor.options.repeats \in BOOLEAN
          /\ processor.options.markers \in BOOLEAN
      BY ProcessorType DEF Options
    <2> QED
      BY <2>1, <2>2 DEF OptionsFor, Options
  <1> QED
    BY <1>2, <1>3, <1>4, <1>5
-----------------------------------------------------------------------------
(* What is known of a job, of its attempt's home exit h.                   *)

Exits(pairs) == {x[1] : x \in pairs}

Tried(job) == Exits(job.agreed) \cup job.failed

Fresh(job) ==
    /\ job.candidates = <<>> /\ job.left = <<>> /\ job.home = NoDownload /\ job.other = NoDownload
    /\ job.agreed = {} /\ job.failed = {} /\ job.outcome = Pending

(* The exits to compare with are known, none of them was asked.            *)
Unasked(job) ==
    /\ job.candidates # <<>> /\ job.left = job.candidates /\ job.other = NoDownload
    /\ job.agreed = {} /\ job.failed = {} /\ job.outcome = Pending

Ready(job) == Unasked(job) /\ job.home = NoDownload

Waits(job) == Unasked(job) /\ Got(job.home)

(* Identical means that everyone was asked, and somebody agreed.           *)
Over(job) ==
    /\ job.outcome # Pending
    /\ job.outcome.kind = "identical" =>
          /\ job.agreed # {} /\ Tried(job) = ToSet(job.candidates)
          /\ Got(job.home) /\ job.outcome.kept = DOMAIN Audio(job.home)

Lost(job) == Over(job) /\ ~Got(job.home)

(* Both exits download at once: one of the two is still to end.            *)
PairSound(job) ==
    /\ job.outcome = Pending /\ job.agreed = {} /\ job.candidates # <<>>
    /\ job.home = NoDownload \/ job.home = Failed \/ Got(job.home)
    /\ \/ /\ job.other = NoDownload
          /\ job.left # <<>> /\ job.failed \cup ToSet(job.left) = ToSet(job.candidates)
       \/ job.home = NoDownload /\ job.other = Failed
       \/ /\ job.home = NoDownload /\ Got(job.other) /\ job.compared \in Exit
          /\ job.failed \cup ToSet(job.left) \cup {job.compared} = ToSet(job.candidates)

PartnerSound(job) ==
    /\ job.outcome = Pending /\ job.agreed = {} /\ Got(job.home) /\ job.other = NoDownload
    /\ job.left # <<>> /\ job.failed \cup ToSet(job.left) = ToSet(job.candidates)

(* Two downloads to compare: the exit is the one that has still to agree.  *)
BothSound(job) ==
    /\ job.outcome = Pending /\ Got(job.home) /\ Got(job.other) /\ job.compared \in Exit
    /\ Tried(job) \cup ToSet(job.left) \cup {job.compared} = ToSet(job.candidates)

FallbackSound(job) ==
    /\ job.outcome = Pending /\ job.agreed # {} /\ Got(job.home) /\ job.left # <<>>
    /\ Tried(job) \cup ToSet(job.left) = ToSet(job.candidates)

Current(job, pc, batch) ==
    /\ pc = "check" => Fresh(job)
    /\ pc = "turn" => IF batch THEN Fresh(job) ELSE Ready(job)
    /\ pc = "home" => Ready(job)
    /\ pc = "pair" => PairSound(job) /\ ~batch
    /\ pc = "partner" => PartnerSound(job)
    /\ pc \in {"rehome", "reother", "compare"} => BothSound(job)
    /\ pc = "fallback" => FallbackSound(job)

(* The two downloads that agreed came from two countries.                  *)
Apart(job, h, moved) ==
    \A x \in job.agreed : Direct \in {x[1], h} \/ moved \/ x[2] # job.home.country

(* While no exit moves: where they come out is where they did.             *)
Located(job, h, at) ==
    /\ \A e \in ToSet(job.candidates) : Direct \in {e, h} \/ at[e] # at[h]
    /\ Got(job.home) => job.home.country = at[h]
    /\ Got(job.other) => job.other.country = at[job.compared]

(* A cut is one the comparison of the job's two downloads may give.        *)
Judged(job, options) ==
    job.outcome.kind \in {"whole", "cut"} =>
        /\ Got(job.home) /\ Got(job.other)
        /\ job.outcome \in VerdictTable[job.home.content, job.other.content, job.expected, options]

JobSound(job, att, h, at) ==
    /\ Judged(job, OptionsFor(processor, att.feed))
    /\ job.expected = att.feed.stated
    /\ h \notin ToSet(job.candidates) /\ ToSet(job.left) \subseteq ToSet(job.candidates)
    /\ Apart(job, h, att.moved)
    /\ job.outcome.kind = "empty" => att.cancelled

Placed(job, att, h, at) == ~att.moved => Located(job, h, at)

JobsSound(att) ==
    /\ att.pc = "idle" => att.jobs = <<>>
    /\ att.pc = "done" => \A j \in DOMAIN att.jobs : Over(att.jobs[j])
    /\ att.pc \in Running =>
          att.job \in DOMAIN att.jobs /\ Current(att.jobs[att.job], att.pc, att.batch)
    /\ att.pc \in Running /\ ~att.batch => Len(att.jobs) = 1
    /\ att.pc \in Collecting => \A j \in DOMAIN att.jobs :
          /\ j < att.job => Lost(att.jobs[j]) \/ Waits(att.jobs[j])
          /\ j > att.job => Fresh(att.jobs[j])
    /\ att.pc \in Comparing => \A j \in DOMAIN att.jobs :
          /\ j < att.job => Over(att.jobs[j])
          /\ j > att.job => Lost(att.jobs[j]) \/ Waits(att.jobs[j])

AttemptSound(att, h, at) ==
    /\ att \in AttemptStates
    /\ JobsSound(att)
    /\ \A j \in DOMAIN att.jobs :
          /\ JobSound(att.jobs[j], att, h, at)
          /\ att.pc # "done" => Placed(att.jobs[j], att, h, at)

-----------------------------------------------------------------------------
(* The invariant.                                                          *)

(* Who holds the turn: one attempt, from when it got it until it is done.  *)
Holds(att) == att.pc \in Comparing \cup {"home"} \/ (att.pc = "check" /\ att.batch)

TurnSound ==
    /\ turn \subseteq Attempt /\ \A a, b \in turn : a = b
    /\ \A a \in Attempt : a \in turn <=> TakesTurns /\ Holds(attempt[a])

UsesSound ==
    /\ idle \in [Exit -> BOOLEAN] /\ refused \in BOOLEAN /\ untidy \in BOOLEAN
    /\ using \in [Exit -> Nat]
    /\ \A e \in Exit : using[e] = Cardinality({a \in Attempt : e \in attempt[a].fetching})
    /\ \A a \in Attempt : attempt[a].fetching \subseteq Wanted(attempt[a])

CountriesSound == country \in [Exit -> Places] /\ \A e \in Exit : country[e] \in Countries[e]

AttemptsSound ==
    /\ DOMAIN attempt = Attempt
    /\ \A a \in Attempt : AttemptSound(attempt[a], HomeExit(attempt[a]), country)

RegionInv ==
    host \in Hosts /\ ProcessorSound /\ CountriesSound /\ AttemptsSound /\ TurnSound /\ UsesSound

(* The connections an attempt leaves open on purpose, while all is tidy.   *)
LeftOpen(att, e) ==
    \/ /\ att.pc \in {"home", "check"} /\ att.batch /\ e = HomeExit(att)
       /\ \E j \in DOMAIN att.jobs : Got(att.jobs[j].home)
    \/ att.pc \in {"rehome", "reother", "compare"} /\ e = Job(att).compared

InTurn(att) ==
    \A j \in DOMAIN att.jobs :
        \/ att.jobs[j].candidates = <<>> \/ att.batch
        \/ DownloadsInTurn(<<HomeExit(att), att.jobs[j].candidates[1]>>)

KeyInv ==
    (TakesTurns /\ ~untidy /\ \A a \in Attempt : InTurn(attempt[a])) =>
        /\ ~refused
        /\ \A e \in Exit \ {Direct} : idle[e] => \E a \in Attempt : LeftOpen(attempt[a], e)
        /\ \A a \in Attempt : attempt[a].pc # "pair"
        /\ \A a \in Attempt : attempt[a].pc \in {"rehome", "reother"} => attempt[a].fetching = {}

-----------------------------------------------------------------------------
(* The steps.                                                              *)

(* What a job has before it has anything.                                  *)
LEMMA ExtraTypes ==
    /\ NoDownload \in Downloads /\ Failed \in Downloads
    /\ ~Got(NoDownload) /\ ~Got(Failed) /\ NoDownload # Failed
    /\ {Pending, Error, Empty} \subseteq Outcomes
    /\ Error # Pending /\ Empty # Pending
    /\ Error.kind = "error" /\ Empty.kind = "empty" /\ Pending.kind = "pending"
  BY RegionDiffAssumption DEF NoDownload, Failed, Downloads, Got, Pending, Error, Empty, Outcome,
     Outcomes, Nothing, Failure

(* Setting the current job and the step leaves the rest of an attempt.     *)
LEMMA SetType ==
    ASSUME NEW att \in AttemptStates, att.job \in DOMAIN att.jobs, NEW job \in JobStates,
           NEW pc \in Running \cup {"done"}
    PROVE  /\ Set(att, job, pc) \in AttemptStates
           /\ Set(att, job, pc).pc = pc /\ Set(att, job, pc).feed = att.feed
           /\ Set(att, job, pc).batch = att.batch /\ Set(att, job, pc).job = att.job
           /\ Set(att, job, pc).fetching = att.fetching
           /\ Set(att, job, pc).cancelled = att.cancelled /\ Set(att, job, pc).moved = att.moved
           /\ Len(Set(att, job, pc).jobs) = Len(att.jobs)
           /\ DOMAIN Set(att, job, pc).jobs = DOMAIN att.jobs
           /\ Set(att, job, pc).jobs[att.job] = job
           /\ \A j \in DOMAIN att.jobs : j # att.job => Set(att, job, pc).jobs[j] = att.jobs[j]
  <1> DEFINE jobs == [att.jobs EXCEPT ![att.job] = job]
  <1>1. Set(att, job, pc) = [att EXCEPT !.jobs = jobs, !.pc = pc]
    BY DEF Set, AttemptStates
  <1>2. att.jobs \in Seq(JobStates)
    BY DEF AttemptStates
  <1>3. /\ jobs \in Seq(JobStates) /\ Len(jobs) = Len(att.jobs) /\ DOMAIN jobs = DOMAIN att.jobs
        /\ jobs[att.job] = job /\ \A j \in DOMAIN att.jobs : j # att.job => jobs[j] = att.jobs[j]
    BY <1>2
  <1> HIDE DEF jobs
  <1> QED
    BY <1>1, <1>3 DEF AttemptStates
(* The rest of an attempt stays as it is.                                  *)
Same(after, att) ==
    /\ after.feed = att.feed /\ after.batch = att.batch /\ after.fetching = att.fetching
    /\ after.cancelled = att.cancelled /\ after.moved = att.moved
    /\ DOMAIN after.jobs = DOMAIN att.jobs /\ Len(after.jobs) = Len(att.jobs)
    /\ \A j \in DOMAIN att.jobs : after.jobs[j].candidates = att.jobs[j].candidates

(* What a step is made of.                                                 *)
LEMMA StepFields ==
    ASSUME NEW att, NEW closed
    PROVE  Step(att, closed).attempt = att /\ Step(att, closed).closed = closed
  BY DEF Step

(* A job goes on in another step.                                          *)
LEMMA SetSound ==
    ASSUME NEW att, NEW h, NEW at, AttemptSound(att, h, at), att.pc \in Running,
           att.pc \in Comparing \/ ~att.batch, NEW job \in JobStates, NEW pc \in Comparing,
           Current(job, pc, att.batch), JobSound(job, att, h, at), Placed(job, att, h, at),
           job.candidates = att.jobs[att.job].candidates
    PROVE  AttemptSound(Set(att, job, pc), h, at) /\ Same(Set(att, job, pc), att)
  <1> DEFINE next == Set(att, job, pc)
  <1>1. att \in AttemptStates /\ att.job \in DOMAIN att.jobs /\ pc \in Running /\ JobsSound(att)
    BY DEF AttemptSound, JobsSound, Running
  <1>2. /\ next \in AttemptStates /\ next.pc = pc /\ Same(next, att) /\ next.job = att.job
        /\ next.jobs[att.job] = job
        /\ \A j \in DOMAIN att.jobs : j # att.job => next.jobs[j] = att.jobs[j]
    BY <1>1, SetType DEF Same
  <1>3. pc \notin {"idle", "done"} \cup Collecting /\ att.pc # "done"
    BY DEF Comparing, Collecting, Running
  <1> HIDE DEF next
  <1>4. JobsSound(next)
    <2>1. ~att.batch => Len(att.jobs) = 1 /\ DOMAIN att.jobs = {att.job}
      BY <1>1 DEF JobsSound, AttemptStates
    <2>2. att.pc \in Comparing => \A j \in DOMAIN att.jobs :
            /\ j < att.job => Over(att.jobs[j])
            /\ j > att.job => Lost(att.jobs[j]) \/ Waits(att.jobs[j])
      BY <1>1 DEF JobsSound
    <2>3. \A j \in DOMAIN next.jobs :
            /\ j < next.job => Over(next.jobs[j])
            /\ j > next.job => Lost(next.jobs[j]) \/ Waits(next.jobs[j])
      <3>1. att.job \in Nat /\ DOMAIN next.jobs = DOMAIN att.jobs
        BY <1>1, <1>2 DEF AttemptStates, Same
      <3> QED
        BY <1>1, <1>2, <2>1, <2>2, <3>1
    <2> QED
      BY <1>1, <1>2, <1>3, <2>1, <2>3 DEF JobsSound, Same
  <1>5. \A j \in DOMAIN next.jobs :
           JobSound(next.jobs[j], next, h, at) /\ Placed(next.jobs[j], next, h, at)
    <2> TAKE j \in DOMAIN next.jobs
    <2>1. JobSound(next.jobs[j], att, h, at) /\ Placed(next.jobs[j], att, h, at)
      BY <1>1, <1>2, <1>3 DEF AttemptSound, Same
    <2> QED
      BY <1>2, <2>1 DEF JobSound, Placed, Same
  <1> QED
    BY <1>2, <1>4, <1>5 DEF AttemptSound, next

(* The next job that waits is taken up, or the attempt is done.            *)
LEMMA OnwardSound ==
    ASSUME NEW att \in AttemptStates, NEW h, NEW at, NEW from \in Nat \ {0},
           att.job \in DOMAIN att.jobs, ~att.batch => Len(att.jobs) = 1 /\ from = 2,
           \A j \in DOMAIN att.jobs :
              /\ j < from => Over(att.jobs[j])
              /\ j >= from => Lost(att.jobs[j]) \/ Waits(att.jobs[j])
              /\ JobSound(att.jobs[j], att, h, at) /\ Placed(att.jobs[j], att, h, at)
    PROVE  /\ AttemptSound(Onward(att, from), h, at) /\ Same(Onward(att, from), att)
           /\ Onward(att, from).jobs = att.jobs
           /\ \/ Onward(att, from).pc = "done"
              \/ Onward(att, from).pc = "partner" /\ att.batch
  <1> DEFINE ready == {j \in from .. Len(att.jobs) : Got(att.jobs[j].home)}
             next == Onward(att, from)
  <1>0. next = IF ~att.batch \/ ready = {} THEN [att EXCEPT !.pc = "done"]
               ELSE [att EXCEPT !.job = Min(ready), !.pc = "partner"]
    BY DEF Onward
  <1>1. att.jobs \in Seq(JobStates) /\ Len(att.jobs) \in Nat /\ DOMAIN att.jobs = 1 .. Len(att.jobs)
    BY DEF AttemptStates
  <1> HIDE DEF next
  <1>2. CASE ~att.batch \/ ready = {}
    <2>1. /\ next \in AttemptStates /\ next.pc = "done" /\ next.jobs = att.jobs /\ Same(next, att)
      BY <1>0, <1>2 DEF AttemptStates, Same, Running
    <2>2. \A j \in DOMAIN att.jobs : Over(att.jobs[j])
      <3> TAKE j \in DOMAIN att.jobs
      <3>1. CASE j < from
        BY <3>1
      <3>2. CASE j >= from
        <4>1. ready = {} /\ j \in from .. Len(att.jobs)
          BY <1>1, <1>2, <3>2
        <4>2. ~Got(att.jobs[j].home)
          BY <4>1
        <4> QED
          BY <3>2, <4>2 DEF Waits, Lost
      <3> QED
        BY <1>1, <3>1, <3>2
    <2>3. JobsSound(next)
      BY <2>1, <2>2 DEF JobsSound, Running, Collecting, Comparing
    <2>4. \A j \in DOMAIN next.jobs : JobSound(next.jobs[j], next, h, at)
      BY <2>1 DEF JobSound, Same
    <2> QED
      BY <2>1, <2>3, <2>4 DEF AttemptSound, next
  <1>3. CASE att.batch /\ ready # {}
    <2>0. Min(ready) \in ready /\ \A x \in ready : Min(ready) <= x
      <3>1. ready \subseteq Nat
        BY <1>1
      <3> HIDE DEF ready
      <3> QED
        BY <1>3, <3>1, LeastNumber
    <2>1. /\ next \in AttemptStates /\ next.pc = "partner" /\ next.jobs = att.jobs /\ Same(next, att)
          /\ next.job = Min(ready) /\ next.job \in from .. Len(att.jobs) /\ Got(att.jobs[next.job].home)
      <3> DEFINE m == Min(ready)
      <3>1. m \in from .. Len(att.jobs) /\ Got(att.jobs[m].home)
        BY <2>0
      <3>2. m \in Nat /\ next = [att EXCEPT !.job = m, !.pc = "partner"]
        BY <1>0, <1>1, <1>3, <3>1
      <3> HIDE DEF m
      <3>3. /\ next \in AttemptStates /\ next.pc = "partner" /\ next.jobs = att.jobs /\ Same(next, att)
            /\ next.job = m
        BY <3>2 DEF AttemptStates, Same, Running, Comparing
      <3> QED
        BY <3>1, <3>3 DEF m
    <2>2. PartnerSound(next.jobs[next.job])
      <3>1. Waits(att.jobs[next.job])
        <4>1. next.job \in DOMAIN att.jobs /\ next.job >= from
          BY <1>1, <2>1
        <4> QED
          BY <2>1, <4>1 DEF Lost
      <3> QED
        BY <2>1, <3>1 DEF Waits, Unasked, PartnerSound
    <2>3. \A j \in DOMAIN next.jobs :
            /\ j < next.job => Over(next.jobs[j])
            /\ j > next.job => Lost(next.jobs[j]) \/ Waits(next.jobs[j])
      <3> TAKE j \in DOMAIN next.jobs
      <3>1. j \in Nat /\ next.job \in Nat /\ next.job >= from /\ j \in 1 .. Len(att.jobs)
        BY <1>1, <2>1
      <3>2. CASE j < from
        BY <1>1, <2>1, <3>1, <3>2
      <3>3. CASE j >= from /\ j < next.job
        <4>1. j \notin ready
          <5> HIDE DEF ready
          <5> QED
            BY <2>0, <2>1, <3>1, <3>3
        <4>2. ~Got(att.jobs[j].home)
          BY <1>1, <3>1, <3>3, <4>1
        <4> QED
          BY <1>1, <2>1, <3>1, <3>3, <4>2 DEF Waits, Lost
      <3>4. CASE j >= next.job
        BY <1>1, <2>1, <3>1, <3>4
      <3> QED
        BY <3>1, <3>2, <3>3, <3>4
    <2>4. JobsSound(next)
      <3>1. next.job \in DOMAIN next.jobs /\ next.batch
        BY <1>1, <1>3, <2>1 DEF Same
      <3> QED
        BY <2>1, <2>2, <2>3, <3>1 DEF JobsSound, Current, Running, Collecting, Comparing
    <2>5. \A j \in DOMAIN next.jobs :
             JobSound(next.jobs[j], next, h, at) /\ Placed(next.jobs[j], next, h, at)
      BY <2>1 DEF JobSound, Placed, Same
    <2> QED
      BY <1>3, <2>1, <2>4, <2>5 DEF AttemptSound, next
  <1> QED
    BY <1>2, <1>3

StepSound(step, att, h, at) ==
    /\ AttemptSound(step.attempt, h, at) /\ Same(step.attempt, att)
    /\ step.attempt.pc \in Comparing \cup {"done"} \/ (step.attempt.pc = "check" /\ att.batch)

(* A job ends, and the next one that waits is taken up.                    *)
LEMMA EndJobSound ==
    ASSUME NEW att, NEW h, NEW at, AttemptSound(att, h, at), att.pc \in Running,
           att.pc \in Comparing \/ ~att.batch, NEW job \in JobStates, NEW outcome \in Outcomes,
           NEW closed, Over([job EXCEPT !.outcome = outcome]),
           JobSound([job EXCEPT !.outcome = outcome], att, h, at), Placed(job, att, h, at),
           job.candidates = att.jobs[att.job].candidates
    PROVE  /\ StepSound(EndJob(att, job, outcome, closed), att, h, at)
           /\ EndJob(att, job, outcome, closed).closed = closed
           /\ EndJob(att, job, outcome, closed).attempt.pc \in {"partner", "done"}
           /\ att.batch \/ EndJob(att, job, outcome, closed).attempt.pc = "done"
  <1> DEFINE ended == [job EXCEPT !.outcome = outcome]
             set == Set(att, ended, "partner")
             next == Onward(set, att.job + 1)
  <1>1. att \in AttemptStates /\ att.job \in DOMAIN att.jobs /\ "partner" \in Running /\ JobsSound(att)
    BY DEF AttemptSound, JobsSound, Running, Comparing
  <1>2. ended \in JobStates /\ ended.candidates = job.candidates /\ Placed(ended, att, h, at)
    BY DEF JobStates, Placed, Located
  <1>3. EndJob(att, job, outcome, closed).attempt = next /\ EndJob(att, job, outcome, closed).closed = closed
    BY StepFields DEF EndJob
  <1>4. Over(ended) /\ JobSound(ended, att, h, at)
    OBVIOUS
  <1> HIDE DEF ended
  <1>5. /\ set \in AttemptStates /\ Same(set, att) /\ set.job = att.job /\ set.jobs[att.job] = ended
        /\ \A j \in DOMAIN att.jobs : j # att.job => set.jobs[j] = att.jobs[j]
    <2>1. /\ set \in AttemptStates /\ set.feed = att.feed /\ set.batch = att.batch /\ set.job = att.job
          /\ set.fetching = att.fetching /\ set.cancelled = att.cancelled /\ set.moved = att.moved
          /\ Len(set.jobs) = Len(att.jobs) /\ DOMAIN set.jobs = DOMAIN att.jobs
          /\ set.jobs[att.job] = ended
          /\ \A j \in DOMAIN att.jobs : j # att.job => set.jobs[j] = att.jobs[j]
      BY <1>1, <1>2, SetType
    <2> HIDE DEF set
    <2>2. \A j \in DOMAIN att.jobs : set.jobs[j].candidates = att.jobs[j].candidates
      BY <1>2, <2>1
    <2> QED
      BY <2>1, <2>2 DEF Same
  <1> HIDE DEF set
  <1>6. att.job \in Nat \ {0} /\ DOMAIN set.jobs = DOMAIN att.jobs /\ DOMAIN att.jobs \subseteq Nat
    BY <1>1, <1>5 DEF AttemptStates, Same
  <1>7. \A j \in DOMAIN set.jobs :
              /\ j < att.job + 1 => Over(set.jobs[j])
              /\ j >= att.job + 1 => Lost(set.jobs[j]) \/ Waits(set.jobs[j])
              /\ JobSound(set.jobs[j], set, h, at) /\ Placed(set.jobs[j], set, h, at)
    <2> TAKE j \in DOMAIN set.jobs
    <2>0. j \in DOMAIN att.jobs /\ j \in Nat
      BY <1>6
    <2>1. JobSound(set.jobs[j], att, h, at) /\ Placed(set.jobs[j], att, h, at)
      BY <1>2, <1>4, <1>5, <1>6 DEF AttemptSound, Running, Collecting, Comparing
    <2>2. JobSound(set.jobs[j], set, h, at) /\ Placed(set.jobs[j], set, h, at)
      BY <1>5, <2>1 DEF JobSound, Placed, Same
    <2>3. j # att.job => /\ j < att.job => Over(set.jobs[j])
                         /\ j > att.job => Lost(set.jobs[j]) \/ Waits(set.jobs[j])
      <3>1. CASE att.pc \in Comparing
        BY <1>1, <1>5, <2>0, <3>1 DEF JobsSound
      <3>2. CASE ~att.batch
        BY <1>1, <2>0, <3>2 DEF JobsSound, AttemptStates
      <3> QED
        BY <3>1, <3>2
    <2> QED
      BY <1>4, <1>5, <1>6, <2>0, <2>2, <2>3
  <1>8. ~set.batch => Len(set.jobs) = 1 /\ att.job + 1 = 2
    BY <1>1, <1>5 DEF JobsSound, Same, AttemptStates
  <1>9. /\ AttemptSound(next, h, at) /\ Same(next, set)
        /\ next.pc = "done" \/ (next.pc = "partner" /\ set.batch)
        /\ next.jobs = set.jobs
    <2>1. set.job \in DOMAIN set.jobs /\ att.job + 1 \in Nat \ {0}
      BY <1>1, <1>5, <1>6
    <2> HIDE DEF next
    <2>2. next = Onward(set, att.job + 1)
      BY DEF next
    <2> QED
      BY <1>5, <1>7, <1>8, <2>1, <2>2, OnwardSound
  <1> HIDE DEF next
  <1>10. Same(next, att) /\ (next.pc = "done" \/ (next.pc = "partner" /\ att.batch))
    BY <1>5, <1>9 DEF Same
  <1> QED
    BY <1>3, <1>9, <1>10 DEF StepSound, Comparing

(* A batch's home download is in or lost: the next one, or the comparisons.*)
LEMMA AfterHomeSound ==
    ASSUME NEW att \in AttemptStates, NEW h, NEW at, att.batch, att.job \in DOMAIN att.jobs,
           \A j \in DOMAIN att.jobs :
              /\ j <= att.job => Lost(att.jobs[j]) \/ Waits(att.jobs[j])
              /\ j > att.job => Fresh(att.jobs[j])
              /\ JobSound(att.jobs[j], att, h, at) /\ Placed(att.jobs[j], att, h, at)
    PROVE  /\ StepSound(AfterHome(att), att, h, at)
           /\ AfterHome(att).attempt.pc \in {"check", "partner", "done"}
           /\ AfterHome(att).attempt.jobs = att.jobs
           /\ IF AfterHome(att).attempt.pc = "check" THEN AfterHome(att).closed = {}
              ELSE (\E j \in DOMAIN att.jobs : Got(att.jobs[j].home)) =>
                       HomeExit(att) \in AfterHome(att).closed
  <1>0. /\ att.jobs \in Seq(JobStates) /\ Len(att.jobs) \in Nat /\ DOMAIN att.jobs = 1 .. Len(att.jobs)
        /\ att.job \in Nat \ {0}
    BY DEF AttemptStates
  <1>1. CASE att.job < Len(att.jobs)
    <2> DEFINE next == [att EXCEPT !.job = att.job + 1, !.pc = "check"]
    <2>1. AfterHome(att) = Step(next, {})
      BY <1>1 DEF AfterHome
    <2>2. /\ next \in AttemptStates /\ next.pc = "check" /\ next.jobs = att.jobs /\ Same(next, att)
          /\ next.job = att.job + 1
      <3>1. att.job + 1 \in Nat /\ "check" \in Running
        BY <1>0 DEF Running, Collecting
      <3>2. /\ next \in AttemptStates /\ next.pc = "check" /\ next.jobs = att.jobs
            /\ next.job = att.job + 1 /\ next.feed = att.feed /\ next.batch = att.batch
            /\ next.fetching = att.fetching /\ next.cancelled = att.cancelled /\ next.moved = att.moved
        BY <3>1 DEF AttemptStates
      <3> QED
        BY <3>2 DEF Same
    <2> HIDE DEF next
    <2>3. next.job \in DOMAIN next.jobs /\ next.batch /\ "check" \in Running
      BY <1>0, <1>1, <2>2 DEF Same, Running, Collecting
    <2>4. Current(next.jobs[next.job], "check", TRUE)
      BY <1>0, <2>2, <2>3 DEF Current
    <2>5. \A j \in DOMAIN next.jobs :
             /\ j < next.job => Lost(next.jobs[j]) \/ Waits(next.jobs[j])
             /\ j > next.job => Fresh(next.jobs[j])
      BY <1>0, <2>2
    <2>6. JobsSound(next)
      BY <2>2, <2>3, <2>4, <2>5 DEF JobsSound, Current, Comparing
    <2>7. \A j \in DOMAIN next.jobs :
             JobSound(next.jobs[j], next, h, at) /\ Placed(next.jobs[j], next, h, at)
      BY <2>2 DEF JobSound, Placed, Same
    <2>8. StepSound(Step(next, {}), att, h, at)
      BY <2>2, <2>6, <2>7, StepFields DEF StepSound, AttemptSound
    <2> QED
      BY <2>1, <2>2, <2>8, StepFields
  <1>2. CASE ~(att.job < Len(att.jobs))
    <2> DEFINE next == Onward(att, 1)
               closed == {HomeExit(att) : j \in {j \in DOMAIN att.jobs : Got(att.jobs[j].home)}}
    <2>1. AfterHome(att) = Step(next, closed)
      BY <1>2 DEF AfterHome
    <2>2. \A j \in DOMAIN att.jobs :
              /\ j < 1 => Over(att.jobs[j])
              /\ j >= 1 => Lost(att.jobs[j]) \/ Waits(att.jobs[j])
              /\ JobSound(att.jobs[j], att, h, at) /\ Placed(att.jobs[j], att, h, at)
      BY <1>0, <1>2
    <2> HIDE DEF next
    <2>3. /\ AttemptSound(next, h, at) /\ Same(next, att) /\ next.jobs = att.jobs
          /\ next.pc = "done" \/ (next.pc = "partner" /\ att.batch)
      BY <2>2, OnwardSound DEF next
    <2>4. StepSound(Step(next, closed), att, h, at)
      BY <2>3, StepFields DEF StepSound, Comparing
    <2>5. (\E j \in DOMAIN att.jobs : Got(att.jobs[j].home)) => HomeExit(att) \in closed
      OBVIOUS
    <2> HIDE DEF closed
    <2> QED
      BY <2>1, <2>3, <2>4, <2>5, StepFields
  <1> QED
    BY <1>1, <1>2

-----------------------------------------------------------------------------
(* What the steps do, each on the attempt it is taken for.                 *)

(* What is known of the job an attempt is at.                              *)
LEMMA CurrentJob ==
    ASSUME NEW att, NEW h, NEW at, AttemptSound(att, h, at), att.pc \in Running
    PROVE  /\ att \in AttemptStates /\ att.job \in DOMAIN att.jobs /\ Job(att) = att.jobs[att.job]
           /\ Job(att) \in JobStates /\ JobSound(Job(att), att, h, at) /\ Placed(Job(att), att, h, at)
           /\ Current(Job(att), att.pc, att.batch) /\ JobsSound(att)
           /\ ~att.batch => DOMAIN att.jobs = {att.job}
           /\ att.fetching \in SUBSET Exit
  <1>1. att \in AttemptStates /\ att.job \in DOMAIN att.jobs /\ Job(att) = att.jobs[att.job] /\ JobsSound(att)
    BY DEF AttemptSound, JobsSound, Job
  <1>2. att.pc # "done"
    BY DEF Running, Collecting, Comparing
  <1>3. Job(att) \in JobStates /\ att.fetching \in SUBSET Exit
    BY <1>1 DEF AttemptStates
  <1>4. JobSound(Job(att), att, h, at) /\ Placed(Job(att), att, h, at)
    BY <1>1, <1>2 DEF AttemptSound
  <1>5. Current(Job(att), att.pc, att.batch)
    BY <1>1 DEF JobsSound
  <1>6. ~att.batch => DOMAIN att.jobs = {att.job}
    BY <1>1 DEF JobsSound, AttemptStates
  <1> QED
    BY <1>1, <1>3, <1>4, <1>5, <1>6

(* The connections that an attempt leaves alive go on to be its own.       *)
KeepsOpen(step, att, kept) ==
    \A e \in Exit : (e \in kept \/ LeftOpen(att, e)) /\ e \notin step.closed => LeftOpen(step.attempt, e)

(* The home download of an episode fails, or has nothing to compare with.  *)
LEMMA HomeFailedSound ==
    ASSUME NEW att, NEW at, AttemptSound(att, HomeExit(att), at), att.pc \in {"check", "home"}
    PROVE  /\ StepSound(HomeFailed(att), att, HomeExit(att), at)
           /\ HomeFailed(att).attempt.pc \in {"check", "partner", "done"}
           /\ att.batch \/ HomeFailed(att).attempt.pc = "done"
           /\ KeepsOpen(HomeFailed(att), att, {})
  <1> DEFINE h == HomeExit(att)
             job == [Job(att) EXCEPT !.outcome = Error]
             ended == Set(att, job, "done")
             next == AfterHome(ended)
  <1>0. att.pc \in Running /\ att.pc \in Collecting
    BY DEF Running, Collecting
  <1>1. /\ att \in AttemptStates /\ att.job \in DOMAIN att.jobs /\ Job(att) = att.jobs[att.job]
        /\ Job(att) \in JobStates /\ JobSound(Job(att), att, h, at) /\ Placed(Job(att), att, h, at)
        /\ Current(Job(att), att.pc, att.batch) /\ JobsSound(att)
        /\ ~att.batch => DOMAIN att.jobs = {att.job}
    BY <1>0, CurrentJob
  <1>2. /\ job \in JobStates /\ job.candidates = Job(att).candidates /\ job.home = Job(att).home
        /\ job.left = Job(att).left /\ job.expected = Job(att).expected /\ job.other = Job(att).other
        /\ job.compared = Job(att).compared /\ job.agreed = Job(att).agreed /\ job.outcome = Error
    BY <1>1, ExtraTypes DEF JobStates
  <1>3. ~Got(job.home) /\ Job(att).home = NoDownload
    BY <1>1, <1>2, ExtraTypes DEF Current, Fresh, Ready
  <1> HIDE DEF job
  <1>4. Lost(job) /\ JobSound(job, att, h, at) /\ Placed(job, att, h, at)
    <2>1. Lost(job)
      BY <1>2, <1>3, ExtraTypes DEF Lost, Over
    <2>2. JobSound(job, att, h, at)
      BY <1>1, <1>2, ExtraTypes DEF JobSound, Judged, Apart
    <2>3. Placed(job, att, h, at)
      BY <1>1, <1>2 DEF Placed, Located
    <2> QED
      BY <2>1, <2>2, <2>3
  <1>5. /\ ended \in AttemptStates /\ ended.pc = "done" /\ Same(ended, att) /\ ended.job = att.job
        /\ ended.jobs[att.job] = job
        /\ \A j \in DOMAIN att.jobs : j # att.job => ended.jobs[j] = att.jobs[j]
    <2>1. /\ ended \in AttemptStates /\ ended.pc = "done" /\ ended.feed = att.feed
          /\ ended.batch = att.batch /\ ended.job = att.job
          /\ ended.fetching = att.fetching /\ ended.cancelled = att.cancelled /\ ended.moved = att.moved
          /\ Len(ended.jobs) = Len(att.jobs) /\ DOMAIN ended.jobs = DOMAIN att.jobs
          /\ ended.jobs[att.job] = job
          /\ \A j \in DOMAIN att.jobs : j # att.job => ended.jobs[j] = att.jobs[j]
      BY <1>1, <1>2, SetType
    <2> HIDE DEF ended
    <2> QED
      BY <1>1, <1>2, <2>1 DEF Same
  <1>6. HomeFailed(att) = IF att.batch THEN next ELSE Step(ended, {})
    BY DEF HomeFailed, job
  <1> HIDE DEF ended
  <1>7. /\ DOMAIN ended.jobs = DOMAIN att.jobs /\ att.job \in Nat /\ DOMAIN att.jobs \subseteq Nat
        /\ HomeExit(ended) = h
    BY <1>1, <1>5 DEF AttemptStates, Same, HomeExit
  <1>8. \A j \in DOMAIN ended.jobs :
              /\ j <= ended.job => Lost(ended.jobs[j]) \/ Waits(ended.jobs[j])
              /\ j > ended.job => Fresh(ended.jobs[j])
              /\ JobSound(ended.jobs[j], ended, h, at) /\ Placed(ended.jobs[j], ended, h, at)
    <2> TAKE j \in DOMAIN ended.jobs
    <2>1. JobSound(ended.jobs[j], att, h, at) /\ Placed(ended.jobs[j], att, h, at)
      BY <1>1, <1>4, <1>5, <1>7 DEF AttemptSound
    <2>2. JobSound(ended.jobs[j], ended, h, at) /\ Placed(ended.jobs[j], ended, h, at)
      BY <1>5, <2>1 DEF JobSound, Placed, Same
    <2>3. j # att.job => /\ j < att.job => Lost(ended.jobs[j]) \/ Waits(ended.jobs[j])
                         /\ j > att.job => Fresh(ended.jobs[j])
      BY <1>0, <1>1, <1>5, <1>7 DEF JobsSound
    <2> QED
      BY <1>4, <1>5, <1>7, <2>2, <2>3
  <1>9. CASE att.batch
    <2>1. ended.batch /\ ended.job \in DOMAIN ended.jobs
      BY <1>1, <1>5, <1>7, <1>9 DEF Same
    <2>2. /\ StepSound(next, ended, h, at) /\ next.attempt.pc \in {"check", "partner", "done"}
          /\ next.attempt.jobs = ended.jobs
          /\ IF next.attempt.pc = "check" THEN next.closed = {}
             ELSE (\E j \in DOMAIN ended.jobs : Got(ended.jobs[j].home)) => HomeExit(ended) \in next.closed
      BY <1>5, <1>8, <2>1, AfterHomeSound
    <2> HIDE DEF next
    <2>3. StepSound(next, att, h, at)
      BY <1>5, <2>2 DEF StepSound, Same
    <2>4. KeepsOpen(next, att, {})
      <3> SUFFICES ASSUME NEW e \in Exit, LeftOpen(att, e), e \notin next.closed
                   PROVE  LeftOpen(next.attempt, e)
        BY DEF KeepsOpen
      <3>1. e = h /\ \E j \in DOMAIN att.jobs : Got(att.jobs[j].home)
        BY DEF LeftOpen
      <3>2. \E j \in DOMAIN ended.jobs : Got(ended.jobs[j].home)
        BY <1>1, <1>3, <1>5, <1>7, <3>1, ExtraTypes
      <3>3. next.attempt.pc = "check" /\ next.attempt.batch /\ HomeExit(next.attempt) = h
        BY <1>7, <1>9, <2>2, <2>3, <3>1, <3>2 DEF StepSound, Same, HomeExit
      <3> QED
        BY <2>2, <3>1, <3>2, <3>3 DEF LeftOpen
    <2> QED
      BY <1>6, <1>9, <2>2, <2>3, <2>4
  <1>10. CASE ~att.batch
    <2>1. JobsSound(ended)
      BY <1>1, <1>4, <1>5, <1>7, <1>10 DEF JobsSound, Running, Collecting, Comparing, Lost
    <2>2. AttemptSound(ended, h, at)
      BY <1>5, <1>8, <2>1 DEF AttemptSound
    <2>3. StepSound(Step(ended, {}), att, h, at)
      BY <1>5, <2>2, StepFields DEF StepSound
    <2>4. KeepsOpen(Step(ended, {}), att, {})
      BY <1>10 DEF KeepsOpen, LeftOpen
    <2> QED
      BY <1>5, <1>6, <1>10, <2>3, <2>4, StepFields
  <1> QED
    BY <1>9, <1>10

(* A job that is not over goes on in one of the comparing steps.           *)
LEMMA GoesOn ==
    ASSUME NEW att, NEW h, NEW at, AttemptSound(att, h, at), att.pc \in Running,
           att.pc \in Comparing \/ ~att.batch, NEW job \in JobStates, NEW pc \in Comparing,
           Current(job, pc, att.batch), JobSound(job, att, h, at), Placed(job, att, h, at),
           job.candidates = Job(att).candidates, NEW closed
    PROVE  /\ StepSound(Step(Set(att, job, pc), closed), att, h, at)
           /\ Set(att, job, pc).pc = pc /\ Job(Set(att, job, pc)) = job
           /\ HomeExit(Set(att, job, pc)) = HomeExit(att)
  <1> DEFINE next == Set(att, job, pc)
  <1>1. AttemptSound(next, h, at) /\ Same(next, att)
    BY SetSound DEF Job
  <1>2. att \in AttemptStates /\ att.job \in DOMAIN att.jobs
    BY CurrentJob
  <1>3. next.pc = pc /\ next.job = att.job /\ next.jobs[att.job] = job
    BY <1>2, SetType DEF Running
  <1> HIDE DEF next
  <1> QED
    BY <1>1, <1>3, StepFields DEF StepSound, Job, HomeExit, Same, next

(* An episode ends with an error.                                          *)
LEMMA EndsInError ==
    ASSUME NEW att, NEW h, NEW at, AttemptSound(att, h, at),
           att.pc \in Comparing \/ (att.pc \in Running /\ ~att.batch),
           NEW job \in JobStates, NEW outcome \in {Error, Empty}, NEW closed,
           JobSound(job, att, h, at), Placed(job, att, h, at),
           outcome = Empty => att.cancelled,
           job.candidates = Job(att).candidates
    PROVE  /\ StepSound(EndJob(att, job, outcome, closed), att, h, at)
           /\ EndJob(att, job, outcome, closed).closed = closed
           /\ EndJob(att, job, outcome, closed).attempt.pc \in {"partner", "done"}
  <1> DEFINE ended == [job EXCEPT !.outcome = outcome]
  <1>1. outcome \in Outcomes /\ outcome # Pending /\ outcome.kind \notin {"identical", "whole", "cut"}
    BY ExtraTypes
  <1>2. /\ ended.outcome = outcome /\ ended.candidates = job.candidates /\ ended.left = job.left
        /\ ended.expected = job.expected /\ ended.agreed = job.agreed /\ ended.home = job.home
    BY DEF JobStates
  <1>3. outcome.kind = "empty" => att.cancelled
    BY ExtraTypes
  <1> HIDE DEF ended
  <1>4. Over(ended)
    BY <1>1, <1>2 DEF Over
  <1>5. JobSound(ended, att, h, at)
    BY <1>1, <1>2, <1>3 DEF JobSound, Judged, Apart
  <1>6. att.pc \in Running /\ job.candidates = att.jobs[att.job].candidates
    BY DEF Running, Job
  <1> QED
    BY <1>1, <1>4, <1>5, <1>6, EndJobSound DEF ended

(* An exit that agrees is one of those that were to be asked.              *)
LEMMA AgreedSound ==
    ASSUME NEW att, NEW h, NEW at, AttemptSound(att, h, at), att.pc \in Comparing,
           NEW job \in JobStates, NEW closed,
           JobSound(job, att, h, at), Placed(job, att, h, at), job.candidates = Job(att).candidates,
           job.outcome = Pending, job.agreed # {}, Got(job.home),
           Tried(job) \cup ToSet(job.left) = ToSet(job.candidates)
    PROVE  /\ StepSound(Agreed(att, job, closed), att, h, at)
           /\ Agreed(att, job, closed).closed = closed \cup {job.compared}
           /\ Agreed(att, job, closed).attempt.pc \in {"partner", "done", "fallback"}
  <1>0. att.pc \in Running
    BY DEF Running
  <1>1. CASE job.left = <<>>
    <2> DEFINE outcome == Outcome("identical", DOMAIN Audio(job.home))
               ended == [job EXCEPT !.outcome = outcome]
               shut == closed \cup {job.compared}
    <2>1. Agreed(att, job, closed) = EndJob(att, job, outcome, shut)
      BY <1>1 DEF Agreed
    <2>2. outcome \in Outcomes /\ outcome.kind = "identical" /\ outcome.kept = DOMAIN Audio(job.home)
      BY DEF Outcome, Outcomes, JobStates
    <2>3. outcome # Pending
      BY <2>2, ExtraTypes
    <2> HIDE DEF outcome
    <2>4. /\ ended.outcome = outcome /\ ended.candidates = job.candidates /\ ended.left = job.left
          /\ ended.expected = job.expected /\ ended.agreed = job.agreed /\ ended.home = job.home
          /\ ended.failed = job.failed
      BY <2>2 DEF JobStates
    <2> HIDE DEF ended, shut
    <2>5. Over(ended)
      <3>1. ToSet(job.left) = {}
        BY <1>1 DEF ToSet
      <3>2. Tried(ended) = ToSet(ended.candidates)
        BY <2>4, <3>1 DEF Tried
      <3> QED
        BY <2>2, <2>3, <2>4, <3>2 DEF Over
    <2>6. JobSound(ended, att, h, at)
      BY <2>2, <2>4 DEF JobSound, Judged, Apart
    <2>7. job.candidates = att.jobs[att.job].candidates
      BY DEF Job
    <2>8. /\ StepSound(EndJob(att, job, outcome, shut), att, h, at)
          /\ EndJob(att, job, outcome, shut).closed = shut
          /\ EndJob(att, job, outcome, shut).attempt.pc \in {"partner", "done"}
      BY <1>0, <2>2, <2>5, <2>6, <2>7, EndJobSound DEF ended
    <2> QED
      BY <2>1, <2>8 DEF shut
  <1>2. CASE job.left # <<>>
    <2> DEFINE shut == closed \cup {job.compared}
    <2>1. Agreed(att, job, closed) = Step(Set(att, job, "fallback"), shut)
      BY <1>2 DEF Agreed
    <2>2. Current(job, "fallback", att.batch) /\ "fallback" \in Comparing
      BY <1>2 DEF Current, FallbackSound, Comparing
    <2> HIDE DEF shut
    <2>3. /\ StepSound(Step(Set(att, job, "fallback"), shut), att, h, at)
          /\ Set(att, job, "fallback").pc = "fallback"
      BY <1>0, <2>2, GoesOn
    <2> QED
      BY <2>1, <2>3, StepFields DEF shut
  <1> QED
    BY <1>1, <1>2

(* Both downloads are in: one may be repeated, then they are compared.     *)
LEMMA BothInSound ==
    ASSUME NEW att, NEW h, NEW at, AttemptSound(att, h, at), att.pc \in Running,
           att.pc \in Comparing \/ ~att.batch, NEW job \in JobStates, BothSound(job),
           JobSound(job, att, h, at), Placed(job, att, h, at), job.candidates = Job(att).candidates,
           NEW pc \in {"rehome", "reother", "compare"}, NEW closed
    PROVE  /\ StepSound(Step(Set(att, job, pc), closed), att, h, at)
           /\ Set(att, job, pc).pc = pc /\ Job(Set(att, job, pc)) = job
           /\ HomeExit(Set(att, job, pc)) = HomeExit(att)
  <1>1. pc \in Comparing /\ Current(job, pc, att.batch)
    BY DEF Comparing, Current
  <1> QED
    BY <1>1, GoesOn

(* After a pair come a download repeated or the comparison.                *)
LEMMA AfterPairStep ==
    ASSUME NEW job
    PROVE  /\ AfterPair(job) \in {"rehome", "reother", "compare"}
           /\ AfterRecheckHome(job) \in {"reother", "compare"}
  BY DEF AfterPair, AfterRecheckHome

(* The exits left after the one that has been asked.                       *)
LEMMA TailSet ==
    ASSUME NEW s \in Seq(Exit), s # <<>>
    PROVE  /\ Head(s) \in Exit /\ Tail(s) \in Seq(Exit)
           /\ ToSet(s) = {Head(s)} \cup ToSet(Tail(s))
  <1>1. Head(s) = s[1] /\ Tail(s) \in Seq(Exit) /\ Len(Tail(s)) = Len(s) - 1
    OBVIOUS
  <1>2. \A i \in 1 .. Len(s) - 1 : Tail(s)[i] = s[i + 1]
    OBVIOUS
  <1>3. 1 \in DOMAIN s /\ DOMAIN s = 1 .. Len(s) /\ DOMAIN Tail(s) = 1 .. Len(s) - 1 /\ Len(s) \in Nat
    OBVIOUS
  <1>4. \A i \in DOMAIN s : i = 1 \/ (i - 1 \in DOMAIN Tail(s) /\ Tail(s)[i - 1] = s[i])
    BY <1>2, <1>3
  <1>5. \A i \in DOMAIN Tail(s) : i + 1 \in DOMAIN s /\ Tail(s)[i] = s[i + 1]
    BY <1>2, <1>3
  <1>6. ToSet(s) \subseteq {Head(s)} \cup ToSet(Tail(s))
    BY <1>1, <1>4 DEF ToSet
  <1>7. {Head(s)} \cup ToSet(Tail(s)) \subseteq ToSet(s)
    BY <1>1, <1>3, <1>5 DEF ToSet
  <1> QED
    BY <1>1, <1>3, <1>6, <1>7

(* A job goes on: what is known of it stays known.                         *)
LEMMA StillSound ==
    ASSUME NEW att, NEW h, NEW at, NEW before, JobSound(before, att, h, at), NEW job,
           job.expected = before.expected, job.candidates = before.candidates,
           ToSet(job.left) \subseteq ToSet(before.left), Apart(job, h, att.moved),
           job.outcome = Pending
    PROVE  JobSound(job, att, h, at)
  BY ExtraTypes DEF JobSound, Judged

(* Nobody is left to compare with.                                         *)
LEMMA NoPartnerSound ==
    ASSUME NEW att, NEW h, NEW at, AttemptSound(att, h, at), att.pc \in Comparing,
           NEW job \in JobStates, JobSound(job, att, h, at), Placed(job, att, h, at),
           job.candidates = Job(att).candidates
    PROVE  /\ StepSound(NoPartner(att, job), att, h, at)
           /\ NoPartner(att, job).attempt.pc \in {"partner", "done"}
  <1> DEFINE outcome == IF att.cancelled /\ job.failed = {} THEN Empty ELSE Error
  <1>1. NoPartner(att, job) = EndJob(att, job, outcome, {})
    BY DEF NoPartner
  <1>2. outcome \in {Error, Empty} /\ (outcome = Empty => att.cancelled)
    BY ExtraTypes
  <1> HIDE DEF outcome
  <1> QED
    BY <1>1, <1>2, EndsInError

(* A pair of which one download has ended now.                             *)
JoinSound(job) ==
    /\ job.outcome = Pending /\ job.agreed = {} /\ job.candidates # <<>>
    /\ job.home = NoDownload \/ job.home = Failed \/ Got(job.home)
    /\ \/ /\ job.other = NoDownload
          /\ job.left # <<>> /\ job.failed \cup ToSet(job.left) = ToSet(job.candidates)
       \/ job.other = Failed
       \/ /\ Got(job.other) /\ job.compared \in Exit
          /\ job.failed \cup ToSet(job.left) \cup {job.compared} = ToSet(job.candidates)

(* One of the two downloads of a pair is in: the other goes on, or both    *)
(* are there.                                                              *)
LEMMA JoinedSound ==
    ASSUME NEW att, NEW at, AttemptSound(att, HomeExit(att), at), att.pc = "pair",
           NEW job \in JobStates, JoinSound(job), JobSound(job, att, HomeExit(att), at),
           Placed(job, att, HomeExit(att), at), job.candidates = Job(att).candidates,
           \A x \in att.fetching : \/ x = HomeExit(att) /\ job.home = NoDownload
                                   \/ x = Head(job.left) /\ job.other = NoDownload
    PROVE  /\ StepSound(Joined(att, job), att, HomeExit(att), at)
           /\ att.fetching \subseteq Wanted(Joined(att, job).attempt)
  <1> DEFINE h == HomeExit(att)
  <1>1. att.pc \in Running /\ att.pc \in Comparing /\ "pair" \in Comparing
    BY DEF Running, Comparing
  <1>2. ~att.batch /\ att.fetching \in SUBSET Exit
    BY <1>1, CurrentJob DEF Current
  <1>3. CASE job.home = NoDownload \/ job.other = NoDownload
    <2>1. Joined(att, job) = Step(Set(att, job, "pair"), {})
      BY <1>3, ExtraTypes DEF Joined
    <2>2. Current(job, "pair", att.batch)
      BY <1>2, <1>3, ExtraTypes DEF Current, PairSound, JoinSound
    <2>3. /\ StepSound(Step(Set(att, job, "pair"), {}), att, h, at)
          /\ Set(att, job, "pair").pc = "pair" /\ Job(Set(att, job, "pair")) = job
          /\ HomeExit(Set(att, job, "pair")) = HomeExit(att)
      BY <1>1, <2>2, GoesOn
    <2>4. att.fetching \subseteq Wanted(Set(att, job, "pair"))
      BY <1>2, <2>3 DEF Wanted
    <2> QED
      BY <2>1, <2>3, <2>4, StepFields
  <1>4. CASE job.home # NoDownload /\ job.other # NoDownload
    <2>1. att.fetching = {}
      BY <1>4
    <2>2. Got(job.other) \/ job.other = Failed
      BY <1>4 DEF JoinSound
    <2>3. CASE job.home = Failed
      <3>1. Joined(att, job) = EndJob(att, job, Error, {})
        BY <1>4, <2>2, <2>3 DEF Joined
      <3> QED
        BY <1>1, <2>1, <3>1, EndsInError, ExtraTypes
    <2>4. CASE job.home # Failed /\ job.other = Failed
      <3>1. Joined(att, job) = NoPartner(att, job)
        BY <1>4, <2>2, <2>4 DEF Joined
      <3> QED
        BY <1>1, <2>1, <3>1, NoPartnerSound
    <2>5. CASE job.home # Failed /\ job.other # Failed
      <3>1. Joined(att, job) = Step(Set(att, job, AfterPair(job)), {})
        BY <1>4, <2>2, <2>5 DEF Joined
      <3>2. BothSound(job)
        BY <1>4, <2>5 DEF JoinSound, BothSound, Tried, Exits
      <3>3. StepSound(Step(Set(att, job, AfterPair(job)), {}), att, h, at)
        BY <1>1, <3>2, AfterPairStep, BothInSound
      <3> QED
        BY <2>1, <3>1, <3>3
    <2> QED
      BY <2>3, <2>4, <2>5
  <1> QED
    BY <1>3, <1>4

(* A download as it ends: there, from where the exit comes out, or failed. *)
Brought(download, e, att, at) ==
    /\ download \in Downloads
    /\ download = Failed \/ (Got(download) /\ (~att.moved => download.country = at[e]))

TriedPartner(att, exit, download) ==
    LET stopped == att.cancelled \/ Job(att).home = Failed
        tried   == [Job(att) EXCEPT !.left = Tail(@)]
    IN  IF Got(download) THEN [tried EXCEPT !.other = download, !.compared = exit]
        ELSE IF stopped THEN [tried EXCEPT !.other = Failed]
        ELSE [tried EXCEPT !.failed = @ \cup {exit},
                           !.other = IF tried.left = <<>> THEN Failed ELSE NoDownload]

(* The job once an exit has been asked: there is a download to compare     *)
(* with, another exit to ask, or none.                                     *)
AskedSound(job, att, h, at, e, d) ==
    /\ job \in JobStates /\ JobSound(job, att, h, at) /\ Placed(job, att, h, at)
    /\ job.candidates = Job(att).candidates /\ job.home = Job(att).home
    /\ job.outcome = Pending /\ job.agreed = {}
    /\ \/ /\ job.other = NoDownload
          /\ job.left # <<>> /\ job.failed \cup ToSet(job.left) = ToSet(job.candidates)
       \/ job.other = Failed
       \/ /\ Got(d) /\ Got(job.other) /\ job.compared \in Exit /\ job.compared = e
          /\ job.failed \cup ToSet(job.left) \cup {job.compared} = ToSet(job.candidates)
    /\ Got(d) => Got(job.other)

(* An exit to compare with was asked: what the job is then.                *)
LEMMA TriedPartnerSound ==
    ASSUME NEW att, NEW h, NEW at, NEW e, NEW d, Brought(d, e, att, at), Job(att) \in JobStates,
           JobSound(Job(att), att, h, at), Placed(Job(att), att, h, at),
           Job(att).outcome = Pending, Job(att).agreed = {}, Job(att).other = NoDownload,
           Job(att).left # <<>>, Job(att).failed \cup ToSet(Job(att).left) = ToSet(Job(att).candidates),
           e = Head(Job(att).left)
    PROVE  AskedSound(TriedPartner(att, e, d), att, h, at, e, d)
  <1> DEFINE old == Job(att)
             job == TriedPartner(att, e, d)
             stopped == att.cancelled \/ old.home = Failed
             tried == [old EXCEPT !.left = Tail(old.left)]
  <1>1. /\ Head(old.left) \in Exit /\ Tail(old.left) \in Seq(Exit)
        /\ ToSet(old.left) = {e} \cup ToSet(Tail(old.left))
    BY TailSet DEF JobStates
  <1>2. /\ tried \in JobStates /\ tried.expected = old.expected /\ tried.candidates = old.candidates
        /\ tried.left = Tail(old.left) /\ tried.home = old.home /\ tried.other = old.other
        /\ tried.compared = old.compared /\ tried.agreed = old.agreed /\ tried.failed = old.failed
        /\ tried.outcome = old.outcome
    BY <1>1 DEF JobStates
  <1>3. job = IF Got(d) THEN [tried EXCEPT !.other = d, !.compared = e]
              ELSE IF stopped THEN [tried EXCEPT !.other = Failed]
              ELSE [tried EXCEPT !.failed = tried.failed \cup {e},
                           !.other = IF tried.left = <<>> THEN Failed ELSE NoDownload]
    BY DEF TriedPartner
  <1> HIDE DEF tried, stopped, job
  <1>4. /\ job \in JobStates /\ job.expected = old.expected /\ job.candidates = old.candidates
        /\ job.left = Tail(old.left) /\ job.home = old.home /\ job.agreed = old.agreed
        /\ job.outcome = old.outcome
        /\ \/ Got(d) /\ job.other = d /\ job.compared = e /\ job.failed = old.failed
           \/ ~Got(d) /\ job.other = Failed
           \/ /\ ~Got(d) /\ job.other = NoDownload /\ job.left # <<>> /\ job.failed = old.failed \cup {e}
    <2>1. CASE Got(d)
      <3>1. job = [tried EXCEPT !.other = d, !.compared = e] /\ d \in Downloads /\ e \in Exit
        BY <1>1, <1>3, <2>1 DEF Brought
      <3>2. /\ job \in JobStates /\ job.expected = tried.expected /\ job.candidates = tried.candidates
            /\ job.left = tried.left /\ job.home = tried.home /\ job.agreed = tried.agreed
            /\ job.outcome = tried.outcome /\ job.other = d /\ job.compared = e
            /\ job.failed = tried.failed
        BY <1>2, <3>1 DEF JobStates
      <3> QED
        BY <1>2, <2>1, <3>2
    <2>2. CASE ~Got(d) /\ stopped
      <3>1. job = [tried EXCEPT !.other = Failed] /\ Failed \in Downloads
        BY <1>3, <2>2, ExtraTypes
      <3>2. /\ job \in JobStates /\ job.expected = tried.expected /\ job.candidates = tried.candidates
            /\ job.left = tried.left /\ job.home = tried.home /\ job.agreed = tried.agreed
            /\ job.outcome = tried.outcome /\ job.other = Failed
        BY <1>2, <3>1 DEF JobStates
      <3> QED
        BY <1>2, <2>2, <3>2
    <2>3. CASE ~Got(d) /\ ~stopped
      <3> DEFINE o == IF tried.left = <<>> THEN Failed ELSE NoDownload
                 f == tried.failed \cup {e}
      <3>1. job = [tried EXCEPT !.failed = f, !.other = o]
        BY <1>3, <2>3
      <3>2. o \in Downloads /\ (o = Failed \/ (o = NoDownload /\ tried.left # <<>>))
        BY ExtraTypes
      <3>3. f \in SUBSET Exit
        BY <1>1, <1>2 DEF JobStates
      <3> HIDE DEF o, f
      <3>4. /\ job \in JobStates /\ job.expected = tried.expected /\ job.candidates = tried.candidates
            /\ job.left = tried.left /\ job.home = tried.home /\ job.agreed = tried.agreed
            /\ job.outcome = tried.outcome /\ job.other = o /\ job.failed = f
        BY <1>2, <3>1, <3>2, <3>3 DEF JobStates
      <3> QED
        BY <1>2, <2>3, <3>2, <3>4 DEF f
    <2> QED
      BY <2>1, <2>2, <2>3
  <1>5. ToSet(job.left) \subseteq ToSet(old.left)
    BY <1>1, <1>4
  <1>6. JobSound(job, att, h, at)
    BY <1>4, <1>5, StillSound DEF Apart
  <1>7. Placed(job, att, h, at)
    BY <1>4, ExtraTypes DEF Placed, Located, Brought
  <1>8. /\ Got(d) => /\ Got(job.other) /\ job.compared \in Exit /\ job.compared = e
                     /\ job.failed \cup ToSet(job.left) \cup {job.compared} = ToSet(job.candidates)
        /\ job.other = NoDownload => job.left # <<>> /\ job.failed \cup ToSet(job.left) = ToSet(job.candidates)
    BY <1>1, <1>4, ExtraTypes
  <1> QED
    BY <1>4, <1>6, <1>7, <1>8 DEF job, AskedSound

(* What an attempt downloads through: one exit, or the two of a pair.      *)
LEMMA WantedExits ==
    ASSUME NEW att, NEW at, AttemptSound(att, HomeExit(att), at), NEW e \in Wanted(att)
    PROVE  /\ e \in Exit /\ att.pc \in Running
           /\ att.pc \in {"home", "pair", "partner", "rehome", "reother", "fallback"}
           /\ att.pc # "pair" => Wanted(att) \subseteq {e}
           /\ att.pc \in {"home", "rehome"} => e = HomeExit(att)
           /\ att.pc \in {"partner", "fallback"} => e = Head(Job(att).left) /\ e # HomeExit(att)
           /\ att.pc = "reother" => e = Job(att).compared /\ e # HomeExit(att)
           /\ att.pc = "pair" =>
                /\ \/ e = HomeExit(att) /\ Job(att).home = NoDownload
                   \/ e = Head(Job(att).left) /\ e # HomeExit(att) /\ Job(att).other = NoDownload
                /\ \A x \in Wanted(att) \ {e} :
                      \/ x = HomeExit(att) /\ Job(att).home = NoDownload /\ e # HomeExit(att)
                      \/ x = Head(Job(att).left) /\ Job(att).other = NoDownload /\ e = HomeExit(att)
  <1> DEFINE h == HomeExit(att)
             job == Job(att)
  <1>1. e \in Exit /\ att.pc \in {"home", "pair", "partner", "rehome", "reother", "fallback"}
    BY DEF Wanted
  <1>2. att.pc \in Running
    BY <1>1 DEF Running, Collecting, Comparing
  <1>3. JobSound(job, att, h, at) /\ Current(job, att.pc, att.batch) /\ job \in JobStates
    BY <1>2, CurrentJob
  <1>4. h \notin ToSet(job.candidates) /\ ToSet(job.left) \subseteq ToSet(job.candidates)
    BY <1>3 DEF JobSound
  <1>5. job.left # <<>> => Head(job.left) # h
    <2>1. job.left # <<>> => Head(job.left) \in ToSet(job.left)
      BY <1>3, TailSet DEF JobStates
    <2> QED
      BY <1>4, <2>1
  <1>6. att.pc \in {"partner", "fallback"} => job.left # <<>>
    BY <1>3 DEF Current, PartnerSound, FallbackSound
  <1>7. att.pc = "pair" /\ job.other = NoDownload => job.left # <<>>
    BY <1>3, ExtraTypes DEF Current, PairSound
  <1>8. att.pc = "reother" => job.compared # h
    BY <1>3, <1>4 DEF Current, BothSound
  <1> HIDE DEF job
  <1>9. \A x \in Wanted(att) :
            \/ att.pc \in {"home", "rehome"} /\ x = h
            \/ att.pc \in {"partner", "fallback"} /\ x = Head(job.left)
            \/ att.pc = "reother" /\ x = job.compared
            \/ att.pc = "pair" /\ job.home = NoDownload /\ x = h
            \/ att.pc = "pair" /\ job.other = NoDownload /\ x = Head(job.left)
    BY DEF Wanted, job
  <1>10. att.pc # "pair" => Wanted(att) \subseteq {e}
    BY <1>9
  <1>11. att.pc = "pair" =>
            /\ \/ e = h /\ job.home = NoDownload
               \/ e = Head(job.left) /\ e # h /\ job.other = NoDownload
            /\ \A x \in Wanted(att) \ {e} :
                  \/ x = h /\ job.home = NoDownload /\ e # h
                  \/ x = Head(job.left) /\ job.other = NoDownload /\ e = h
    BY <1>5, <1>7, <1>9
  <1>12. /\ att.pc \in {"home", "rehome"} => e = h
         /\ att.pc \in {"partner", "fallback"} => e = Head(job.left) /\ e # h
         /\ att.pc = "reother" => e = job.compared /\ e # h
    BY <1>5, <1>6, <1>8, <1>9
  <1> QED
    BY <1>1, <1>2, <1>10, <1>11, <1>12 DEF job

FetchSound(step, att, at) ==
    /\ StepSound(step, att, HomeExit(att), at)
    /\ att.fetching \subseteq Wanted(step.attempt)
    /\ att.pc # "pair" => step.attempt.pc # "pair"

(* The home download, alone.                                               *)
LEMMA HomeFetchedSound ==
    ASSUME NEW att, NEW at, AttemptSound(att, HomeExit(att), at), att.pc = "home",
           NEW d, Brought(d, HomeExit(att), att, at)
    PROVE  /\ StepSound(HomeFetched(att, d), att, HomeExit(att), at)
           /\ HomeFetched(att, d).attempt.pc # "pair"
           /\ Got(d) => KeepsOpen(HomeFetched(att, d), att, {HomeExit(att)})
  <1> DEFINE h == HomeExit(att)
             job == [Job(att) EXCEPT !.home = d]
  <1>0. att.pc \in Running /\ att.pc \in Collecting /\ "home" \in Running /\ "partner" \in Comparing
    BY DEF Running, Collecting, Comparing
  <1>1. /\ att \in AttemptStates /\ att.job \in DOMAIN att.jobs /\ Job(att) = att.jobs[att.job]
        /\ Job(att) \in JobStates /\ JobSound(Job(att), att, h, at) /\ Placed(Job(att), att, h, at)
        /\ Current(Job(att), att.pc, att.batch) /\ JobsSound(att)
        /\ ~att.batch => DOMAIN att.jobs = {att.job}
    BY <1>0, CurrentJob
  <1>2. Ready(Job(att))
    BY <1>1 DEF Current
  <1>3. CASE ~Got(d)
    <2>1. HomeFetched(att, d) = HomeFailed(att)
      BY <1>3 DEF HomeFetched
    <2> QED
      BY <1>3, <2>1, HomeFailedSound
  <1>4. CASE Got(d)
    <2>1. /\ job \in JobStates /\ job.candidates = Job(att).candidates /\ job.home = d
          /\ job.left = Job(att).left /\ job.expected = Job(att).expected /\ job.other = Job(att).other
          /\ job.compared = Job(att).compared /\ job.agreed = Job(att).agreed
          /\ job.outcome = Job(att).outcome /\ job.failed = Job(att).failed
      BY <1>1 DEF JobStates, Brought
    <2>2. HomeFetched(att, d) = IF att.batch THEN AfterHome(Set(att, job, "home"))
                                ELSE Step(Set(att, job, "partner"), {h})
      BY <1>4 DEF HomeFetched
    <2> HIDE DEF job
    <2>3. Waits(job)
      BY <1>2, <1>4, <2>1 DEF Waits, Ready, Unasked
    <2>4. JobSound(job, att, h, at)
      BY <1>1, <1>2, <2>1, StillSound DEF Apart, Ready, Unasked
    <2>5. Placed(job, att, h, at)
      BY <1>1, <1>2, <1>4, <2>1, ExtraTypes DEF Placed, Located, Brought, Ready, Unasked
    <2>6. CASE ~att.batch
      <3>1. Current(job, "partner", att.batch)
        <4>1. ToSet(job.left) = ToSet(job.candidates)
          BY <2>3 DEF Waits, Unasked
        <4> QED
          BY <2>3, <4>1 DEF Current, PartnerSound, Waits, Unasked
      <3>2. /\ StepSound(Step(Set(att, job, "partner"), {h}), att, h, at)
            /\ Set(att, job, "partner").pc = "partner"
        BY <1>0, <2>1, <2>4, <2>5, <2>6, <3>1, GoesOn
      <3>3. KeepsOpen(Step(Set(att, job, "partner"), {h}), att, {h})
        BY <2>6, StepFields DEF KeepsOpen, LeftOpen
      <3> QED
        BY <2>2, <2>6, <3>2, <3>3, StepFields
    <2>7. CASE att.batch
      <3> DEFINE set == Set(att, job, "home")
                 next == AfterHome(set)
      <3>1. /\ set \in AttemptStates /\ set.feed = att.feed
            /\ set.batch = att.batch /\ set.job = att.job
            /\ set.fetching = att.fetching /\ set.cancelled = att.cancelled /\ set.moved = att.moved
            /\ Len(set.jobs) = Len(att.jobs) /\ DOMAIN set.jobs = DOMAIN att.jobs
            /\ set.jobs[att.job] = job
            /\ \A j \in DOMAIN att.jobs : j # att.job => set.jobs[j] = att.jobs[j]
        BY <1>0, <1>1, <2>1, SetType
      <3> HIDE DEF set
      <3>2. Same(set, att) /\ HomeExit(set) = h
        BY <1>1, <2>1, <3>1 DEF Same, HomeExit
      <3>3. \A j \in DOMAIN set.jobs :
              /\ j <= set.job => Lost(set.jobs[j]) \/ Waits(set.jobs[j])
              /\ j > set.job => Fresh(set.jobs[j])
              /\ JobSound(set.jobs[j], set, h, at) /\ Placed(set.jobs[j], set, h, at)
        <4> TAKE j \in DOMAIN set.jobs
        <4>0. att.job \in Nat /\ j \in Nat /\ j \in DOMAIN att.jobs
          BY <1>1, <3>1 DEF AttemptStates
        <4>1. JobSound(set.jobs[j], att, h, at) /\ Placed(set.jobs[j], att, h, at)
          BY <1>1, <2>4, <2>5, <3>1 DEF AttemptSound
        <4>2. JobSound(set.jobs[j], set, h, at) /\ Placed(set.jobs[j], set, h, at)
          BY <3>2, <4>1 DEF JobSound, Placed, Same
        <4>3. j # att.job => /\ j < att.job => Lost(set.jobs[j]) \/ Waits(set.jobs[j])
                             /\ j > att.job => Fresh(set.jobs[j])
          BY <1>0, <1>1, <3>1, <4>0 DEF JobsSound
        <4> QED
          BY <2>3, <3>1, <4>0, <4>2, <4>3
      <3>4. /\ StepSound(next, set, h, at) /\ next.attempt.pc \in {"check", "partner", "done"}
            /\ next.attempt.jobs = set.jobs
            /\ IF next.attempt.pc = "check" THEN next.closed = {}
               ELSE (\E j \in DOMAIN set.jobs : Got(set.jobs[j].home)) => HomeExit(set) \in next.closed
        BY <1>1, <2>7, <3>1, <3>3, AfterHomeSound
      <3> HIDE DEF next
      <3>5. StepSound(next, att, h, at)
        BY <3>2, <3>4 DEF StepSound, Same
      <3>6. KeepsOpen(next, att, {h})
        <4> SUFFICES ASSUME NEW e \in Exit, e = h \/ LeftOpen(att, e), e \notin next.closed
                     PROVE  LeftOpen(next.attempt, e)
          BY DEF KeepsOpen
        <4>1. e = h
          BY DEF LeftOpen
        <4>2. \E j \in DOMAIN set.jobs : Got(set.jobs[j].home)
          BY <1>1, <1>4, <2>1, <3>1
        <4>3. next.attempt.pc = "check" /\ next.attempt.batch /\ HomeExit(next.attempt) = h
          BY <2>7, <3>2, <3>4, <3>5, <4>1, <4>2 DEF StepSound, Same, HomeExit
        <4> QED
          BY <3>4, <4>1, <4>2, <4>3 DEF LeftOpen
      <3> QED
        BY <2>2, <2>7, <3>4, <3>5, <3>6 DEF next, set
    <2> QED
      BY <2>6, <2>7
  <1> QED
    BY <1>3, <1>4

(* The download to compare with, after the home one.                       *)
LEMMA PartnerFetchedSound ==
    ASSUME NEW att, NEW at, AttemptSound(att, HomeExit(att), at), att.pc = "partner",
           NEW e, e = Head(Job(att).left), NEW d, Brought(d, e, att, at)
    PROVE  /\ StepSound(PartnerFetched(att, e, d), att, HomeExit(att), at)
           /\ PartnerFetched(att, e, d).attempt.pc # "pair"
           /\ Got(d) => KeepsOpen(PartnerFetched(att, e, d), att, {e})
  <1> DEFINE h == HomeExit(att)
             job == TriedPartner(att, e, d)
  <1>0. att.pc \in Running /\ att.pc \in Comparing
    BY DEF Running, Comparing
  <1>1. /\ Job(att) \in JobStates /\ JobSound(Job(att), att, h, at) /\ Placed(Job(att), att, h, at)
        /\ PartnerSound(Job(att))
    BY <1>0, CurrentJob DEF Current
  <1>a. /\ Job(att).outcome = Pending /\ Job(att).agreed = {} /\ Job(att).other = NoDownload
        /\ Job(att).left # <<>>
        /\ Job(att).failed \cup ToSet(Job(att).left) = ToSet(Job(att).candidates)
    BY <1>1 DEF PartnerSound
  <1>2. /\ job \in JobStates /\ JobSound(job, att, h, at) /\ Placed(job, att, h, at)
        /\ job.candidates = Job(att).candidates /\ job.home = Job(att).home
        /\ job.outcome = Pending /\ job.agreed = {}
        /\ \/ /\ job.other = NoDownload
              /\ job.left # <<>> /\ job.failed \cup ToSet(job.left) = ToSet(job.candidates)
           \/ job.other = Failed
           \/ /\ Got(d) /\ Got(job.other) /\ job.compared \in Exit /\ job.compared = e
              /\ job.failed \cup ToSet(job.left) \cup {job.compared} = ToSet(job.candidates)
        /\ Got(d) => Got(job.other)
    <2>1. AskedSound(job, att, h, at, e, d)
      BY <1>1, <1>a, TriedPartnerSound
    <2> HIDE DEF job
    <2> QED
      BY <2>1 DEF AskedSound
  <1>3. PartnerFetched(att, e, d) =
            IF Got(job.other) THEN Step(Set(att, job, AfterPair(job)), {})
            ELSE IF job.other = Failed THEN NoPartner(att, job)
            ELSE Step(Set(att, job, "partner"), {})
    BY DEF PartnerFetched, TriedPartner
  <1> HIDE DEF job
  <1>4. Got(job.home)
    BY <1>1, <1>2 DEF PartnerSound
  <1>5. CASE Got(job.other)
    <2>1. Got(d) /\ job.compared = e
      BY <1>2, <1>5, ExtraTypes
    <2>2. BothSound(job)
      BY <1>2, <1>4, <1>5, ExtraTypes DEF BothSound, Tried, Exits
    <2> DEFINE pc == AfterPair(job)
               next == Set(att, job, pc)
    <2>3. pc \in {"rehome", "reother", "compare"}
      BY AfterPairStep
    <2> HIDE DEF pc
    <2>4. StepSound(Step(next, {}), att, h, at) /\ next.pc = pc /\ Job(next) = job
      BY <1>0, <1>2, <2>2, <2>3, BothInSound
    <2> HIDE DEF next
    <2>5. KeepsOpen(Step(next, {}), att, {e})
      BY <2>1, <2>3, <2>4, StepFields DEF KeepsOpen, LeftOpen
    <2>6. PartnerFetched(att, e, d) = Step(next, {})
      BY <1>3, <1>5 DEF next, pc
    <2> QED
      BY <2>3, <2>4, <2>5, <2>6, StepFields
  <1>6. CASE ~Got(job.other) /\ job.other = Failed
    BY <1>0, <1>2, <1>3, <1>6, NoPartnerSound
  <1>7. CASE ~Got(job.other) /\ job.other # Failed
    <2>1. Current(job, "partner", att.batch)
      BY <1>2, <1>4, <1>7 DEF Current, PartnerSound
    <2>2. StepSound(Step(Set(att, job, "partner"), {}), att, h, at) /\ Set(att, job, "partner").pc = "partner"
      BY <1>0, <1>2, <2>1, GoesOn
    <2> QED
      BY <1>2, <1>3, <1>7, <2>2, StepFields
  <1> QED
    BY <1>5, <1>6, <1>7

(* One of the two downloads of a pair.                                     *)
LEMMA PairFetchedSound ==
    ASSUME NEW att, NEW at, AttemptSound(att, HomeExit(att), at), att.pc = "pair",
           NEW e \in Wanted(att), att.fetching \subseteq Wanted(att) \ {e},
           NEW d, Brought(d, e, att, at)
    PROVE  FetchSound(Fetched(att, e, d), att, at)
  <1> DEFINE h == HomeExit(att)
             old == Job(att)
  <1>0. att.pc \in Running /\ att.pc \in Comparing
    BY DEF Running, Comparing
  <1>1. /\ old \in JobStates /\ JobSound(old, att, h, at) /\ Placed(old, att, h, at)
        /\ PairSound(old)
    BY <1>0, CurrentJob DEF Current
  <1>2. CASE e = h
    <2> DEFINE job == [old EXCEPT !.home = d]
    <2>1. Fetched(att, e, d) = Joined(att, job)
      BY <1>2 DEF Fetched, HomeFetched
    <2>2. /\ job \in JobStates /\ job.candidates = old.candidates /\ job.home = d
          /\ job.left = old.left /\ job.expected = old.expected /\ job.other = old.other
          /\ job.compared = old.compared /\ job.agreed = old.agreed
          /\ job.outcome = old.outcome /\ job.failed = old.failed
      BY <1>1 DEF JobStates, Brought
    <2>3. old.home = NoDownload /\ \A x \in att.fetching : x = Head(old.left) /\ old.other = NoDownload
      BY <1>2, WantedExits
    <2> HIDE DEF job, old
    <2>4. JoinSound(job)
      BY <1>1, <2>2, ExtraTypes DEF PairSound, JoinSound, Brought
    <2>5. JobSound(job, att, h, at)
      BY <1>1, <2>2, StillSound DEF Apart, PairSound
    <2>6. Placed(job, att, h, at)
      BY <1>1, <1>2, <2>2, ExtraTypes DEF Placed, Located, Brought
    <2>7. /\ StepSound(Joined(att, job), att, h, at)
          /\ att.fetching \subseteq Wanted(Joined(att, job).attempt)
      BY <2>2, <2>3, <2>4, <2>5, <2>6, JoinedSound DEF old
    <2> QED
      BY <2>1, <2>7 DEF FetchSound
  <1>3. CASE e # h
    <2> DEFINE job == TriedPartner(att, e, d)
    <2>1. Fetched(att, e, d) = Joined(att, job)
      BY <1>3 DEF Fetched, PartnerFetched, TriedPartner
    <2>2. /\ e = Head(old.left) /\ old.other = NoDownload
          /\ \A x \in att.fetching : x = h /\ old.home = NoDownload
      BY <1>3, WantedExits
    <2>3. old.left # <<>> /\ old.failed \cup ToSet(old.left) = ToSet(old.candidates)
      BY <1>1, <2>2, ExtraTypes DEF PairSound
    <2>4. old.outcome = Pending /\ old.agreed = {}
      BY <1>1 DEF PairSound
    <2>5. /\ job \in JobStates /\ JobSound(job, att, h, at) /\ Placed(job, att, h, at)
          /\ job.candidates = old.candidates /\ job.home = old.home
          /\ job.outcome = Pending /\ job.agreed = {}
          /\ \/ /\ job.other = NoDownload
                /\ job.left # <<>> /\ job.failed \cup ToSet(job.left) = ToSet(job.candidates)
             \/ job.other = Failed
             \/ /\ Got(d) /\ Got(job.other) /\ job.compared \in Exit /\ job.compared = e
                /\ job.failed \cup ToSet(job.left) \cup {job.compared} = ToSet(job.candidates)
      <3>1. AskedSound(job, att, h, at, e, d)
        BY <1>1, <2>2, <2>3, <2>4, TriedPartnerSound
      <3> HIDE DEF job
      <3> QED
        BY <3>1 DEF AskedSound
    <2> HIDE DEF job, old
    <2>6. JoinSound(job)
      BY <1>1, <2>5 DEF PairSound, JoinSound
    <2>7. /\ StepSound(Joined(att, job), att, h, at)
          /\ att.fetching \subseteq Wanted(Joined(att, job).attempt)
      BY <2>2, <2>5, <2>6, JoinedSound DEF old
    <2> QED
      BY <2>1, <2>7 DEF FetchSound
  <1> QED
    BY <1>2, <1>3

(* A download repeated: the better of the two is kept.                     *)
LEMMA AgainSound ==
    ASSUME NEW att, NEW h, NEW at, AttemptSound(att, h, at), att.pc \in {"rehome", "reother"},
           NEW d, Brought(d, IF att.pc = "rehome" THEN h ELSE Job(att).compared, att, at),
           att.pc = "rehome" => h = HomeExit(att)
    PROVE  /\ att.pc = "rehome" => /\ StepSound(HomeAgain(att, d), att, h, at)
                                   /\ HomeAgain(att, d).attempt.pc # "pair"
           /\ att.pc = "reother" => /\ StepSound(OtherAgain(att, d), att, h, at)
                                    /\ OtherAgain(att, d).attempt.pc # "pair"
  <1> DEFINE job == Job(att)
  <1>0. att.pc \in Running /\ att.pc \in Comparing /\ "compare" \in {"rehome", "reother", "compare"}
    BY DEF Running, Comparing
  <1>1. /\ job \in JobStates /\ JobSound(job, att, h, at) /\ Placed(job, att, h, at) /\ BothSound(job)
    BY <1>0, CurrentJob DEF Current
  <1>2. ASSUME att.pc = "rehome"
        PROVE  StepSound(HomeAgain(att, d), att, h, at) /\ HomeAgain(att, d).attempt.pc # "pair"
    <2> DEFINE better == [job EXCEPT !.home = d]
               next == IF Better(job, d, job.home, job.other) THEN better ELSE job
    <2>1. HomeAgain(att, d) = Step(Set(att, next, AfterRecheckHome(next)), {})
      BY DEF HomeAgain
    <2>2. /\ next \in JobStates /\ BothSound(next) /\ JobSound(next, att, h, at) /\ Placed(next, att, h, at)
          /\ next.candidates = job.candidates
      <3>1. CASE ~Better(job, d, job.home, job.other)
        BY <1>1, <3>1
      <3>2. CASE Better(job, d, job.home, job.other)
        <4>1. Got(d) /\ next = better
          BY <3>2 DEF Better
        <4>2. /\ better \in JobStates /\ better.candidates = job.candidates /\ better.home = d
              /\ better.left = job.left /\ better.expected = job.expected /\ better.other = job.other
              /\ better.compared = job.compared /\ better.agreed = job.agreed
              /\ better.outcome = job.outcome /\ better.failed = job.failed
          BY <1>1 DEF JobStates, Brought
        <4> HIDE DEF better
        <4>3. BothSound(better)
          BY <1>1, <4>1, <4>2 DEF BothSound, Tried
        <4>4. Apart(better, h, att.moved)
          BY <1>1, <1>2, <4>1, <4>2, ExtraTypes
             DEF Apart, JobSound, BothSound, Placed, Located, Brought
        <4>5. JobSound(better, att, h, at)
          BY <1>1, <4>2, <4>4, StillSound DEF BothSound
        <4>6. Placed(better, att, h, at)
          BY <1>1, <1>2, <4>1, <4>2, ExtraTypes DEF Placed, Located, Brought
        <4> QED
          BY <4>1, <4>2, <4>3, <4>5, <4>6
      <3> QED
        BY <3>1, <3>2
    <2> HIDE DEF next
    <2>3. AfterRecheckHome(next) \in {"rehome", "reother", "compare"} /\ AfterRecheckHome(next) # "pair"
      BY AfterPairStep
    <2> QED
      BY <1>0, <2>1, <2>2, <2>3, BothInSound, StepFields
  <1>3. ASSUME att.pc = "reother"
        PROVE  StepSound(OtherAgain(att, d), att, h, at) /\ OtherAgain(att, d).attempt.pc # "pair"
    <2> DEFINE better == [job EXCEPT !.other = d]
               next == IF Better(job, d, job.other, job.home) THEN better ELSE job
    <2>1. OtherAgain(att, d) = Step(Set(att, next, "compare"), {})
      BY DEF OtherAgain
    <2>2. /\ next \in JobStates /\ BothSound(next) /\ JobSound(next, att, h, at) /\ Placed(next, att, h, at)
          /\ next.candidates = job.candidates
      <3>1. CASE ~Better(job, d, job.other, job.home)
        BY <1>1, <3>1
      <3>2. CASE Better(job, d, job.other, job.home)
        <4>1. Got(d) /\ next = better
          BY <3>2 DEF Better
        <4>2. /\ better \in JobStates /\ better.candidates = job.candidates /\ better.other = d
              /\ better.left = job.left /\ better.expected = job.expected /\ better.home = job.home
              /\ better.compared = job.compared /\ better.agreed = job.agreed
              /\ better.outcome = job.outcome /\ better.failed = job.failed
          BY <1>1 DEF JobStates, Brought
        <4> HIDE DEF better
        <4>3. BothSound(better)
          BY <1>1, <4>1, <4>2 DEF BothSound, Tried
        <4>4. JobSound(better, att, h, at)
          <5>1. Apart(better, h, att.moved) /\ better.outcome = Pending
            BY <1>1, <4>2 DEF BothSound, Apart, JobSound
          <5> QED
            BY <1>1, <4>2, <5>1, StillSound
        <4>5. Placed(better, att, h, at)
          BY <1>1, <1>3, <4>1, <4>2, ExtraTypes DEF Placed, Located, Brought
        <4> QED
          BY <4>1, <4>2, <4>3, <4>4, <4>5
      <3> QED
        BY <3>1, <3>2
    <2> HIDE DEF next
    <2> QED
      BY <1>0, <2>1, <2>2, BothInSound, StepFields
  <1> QED
    BY <1>2, <1>3

(* An episode ends with a cut.                                             *)
LEMMA CutSound ==
    ASSUME NEW att, NEW h, NEW at, AttemptSound(att, h, at), att.pc = "compare",
           NEW cut \in Outcomes, cut.kind \in {"whole", "cut"},
           Judged([Job(att) EXCEPT !.outcome = cut], OptionsFor(processor, att.feed))
    PROVE  /\ StepSound(EndJob(att, Job(att), cut, {Job(att).compared}), att, h, at)
           /\ EndJob(att, Job(att), cut, {Job(att).compared}).attempt.pc # "pair"
           /\ Job(att).compared \in EndJob(att, Job(att), cut, {Job(att).compared}).closed
  <1> DEFINE job == Job(att)
             ended == [job EXCEPT !.outcome = cut]
             shut == {job.compared}
  <1>0. att.pc \in Running /\ att.pc \in Comparing
    BY DEF Running, Comparing
  <1>1. /\ job \in JobStates /\ JobSound(job, att, h, at) /\ Placed(job, att, h, at)
        /\ job.candidates = att.jobs[att.job].candidates
    BY <1>0, CurrentJob DEF Job
  <1>2. /\ ended.outcome = cut /\ ended.candidates = job.candidates /\ ended.left = job.left
        /\ ended.expected = job.expected /\ ended.agreed = job.agreed /\ ended.home = job.home
    BY <1>1 DEF JobStates
  <1>3. Judged(ended, OptionsFor(processor, att.feed))
    OBVIOUS
  <1> HIDE DEF ended, shut
  <1>4. Over(ended)
    BY <1>2, ExtraTypes DEF Over
  <1>5. JobSound(ended, att, h, at)
    BY <1>1, <1>2, <1>3 DEF JobSound, Apart
  <1> HIDE DEF job
  <1>6. /\ StepSound(EndJob(att, job, cut, shut), att, h, at)
        /\ EndJob(att, job, cut, shut).closed = shut
        /\ EndJob(att, job, cut, shut).attempt.pc \in {"partner", "done"}
    BY <1>0, <1>1, <1>4, <1>5, EndJobSound DEF ended
  <1> QED
    BY <1>6 DEF job, shut

(* The comparison says what becomes of the episode.                        *)
LEMMA ComparedSound ==
    ASSUME ProcessorSound, NEW att, NEW at, AttemptSound(att, HomeExit(att), at), att.pc = "compare",
           NEW verdict \in VerdictTable[Job(att).home.content, Job(att).other.content,
                                        Job(att).expected, OptionsFor(processor, att.feed)]
    PROVE  /\ StepSound(Compared(att, verdict), att, HomeExit(att), at)
           /\ Compared(att, verdict).attempt.pc # "pair"
           /\ Job(att).compared \in Compared(att, verdict).closed
  <1> DEFINE h == HomeExit(att)
             job == Job(att)
             x == <<job.home.content, job.other.content, job.expected, OptionsFor(processor, att.feed)>>
             pair == <<job.compared, job.other.country>>
             agreeing == [job EXCEPT !.agreed = job.agreed \cup {pair}]
             cut == [job EXCEPT !.outcome = verdict]
  <1>0. att.pc \in Running /\ att.pc \in Comparing
    BY DEF Running, Comparing
  <1>1. /\ att \in AttemptStates /\ job \in JobStates /\ JobSound(job, att, h, at)
        /\ Placed(job, att, h, at) /\ BothSound(job)
    BY <1>0, CurrentJob DEF Current
  <1>2. verdict \in VerdictTable[x]
    OBVIOUS
  <1>3. Compared(att, verdict) =
            CASE verdict = Identical -> Agreed(att, agreeing, {})
              [] verdict.kind \in {"whole", "cut"} -> EndJob(att, job, verdict, {job.compared})
              [] OTHER -> EndJob(att, job, Error, {job.compared})
    BY DEF Compared
  <1>4. Identical.kind = "identical"
    BY DEF Identical, Verdict
  <1>5. CASE verdict = Identical
    <2>1. Compared(att, verdict) = Agreed(att, agreeing, {})
      BY <1>3, <1>4, <1>5
    <2>2. job.compared \in Exit /\ job.other.country \in Places \cup {Nothing}
      BY <1>1 DEF BothSound, JobStates, Downloads
    <2>3. job.agreed \cup {pair} \in SUBSET (Exit \X (Places \cup {Nothing}))
      <3>1. pair \in Exit \X (Places \cup {Nothing}) /\ job.agreed \in SUBSET (Exit \X (Places \cup {Nothing}))
        BY <1>1, <2>2 DEF JobStates
      <3> HIDE DEF pair, job
      <3> QED
        BY <3>1
    <2>4. /\ agreeing \in JobStates /\ agreeing.candidates = job.candidates /\ agreeing.home = job.home
          /\ agreeing.left = job.left /\ agreeing.expected = job.expected /\ agreeing.other = job.other
          /\ agreeing.compared = job.compared /\ agreeing.agreed = job.agreed \cup {pair}
          /\ agreeing.outcome = job.outcome /\ agreeing.failed = job.failed
      BY <1>1, <2>3 DEF JobStates
    <2> HIDE DEF agreeing
    <2>5. Apart(agreeing, h, att.moved)
      <3>1. Direct \in {pair[1], h} \/ att.moved \/ pair[2] # job.home.country
        <4>1. job.compared \in ToSet(job.candidates)
          BY <1>1 DEF BothSound
        <4> QED
          BY <1>1, <4>1 DEF Placed, Located, BothSound
      <3> HIDE DEF pair
      <3> QED
        BY <1>1, <2>4, <3>1 DEF Apart, JobSound
    <2>6. Tried(agreeing) \cup ToSet(agreeing.left) = ToSet(agreeing.candidates)
      <3>1. Tried(agreeing) = Tried(job) \cup {job.compared}
        <4>1. pair[1] = job.compared
          OBVIOUS
        <4> HIDE DEF pair, job
        <4>2. Exits(job.agreed \cup {pair}) = Exits(job.agreed) \cup {pair[1]}
          BY Zenon DEF Exits
        <4> QED
          BY <2>4, <4>1, <4>2 DEF Tried
      <3> QED
        BY <1>1, <2>4, <3>1 DEF BothSound
    <2>7. agreeing.outcome = Pending /\ agreeing.agreed # {} /\ Got(agreeing.home)
      BY <1>1, <2>4 DEF BothSound
    <2>8. JobSound(agreeing, att, h, at) /\ Placed(agreeing, att, h, at)
      BY <1>1, <2>4, <2>5, <2>7, StillSound DEF Placed, Located
    <2>9. /\ StepSound(Agreed(att, agreeing, {}), att, h, at)
          /\ Agreed(att, agreeing, {}).closed = {} \cup {agreeing.compared}
          /\ Agreed(att, agreeing, {}).attempt.pc \in {"partner", "done", "fallback"}
      BY <1>0, <2>4, <2>6, <2>7, <2>8, AgreedSound
    <2> QED
      BY <2>1, <2>4, <2>9
  <1>6. CASE verdict # Identical /\ verdict.kind \in {"whole", "cut"}
    <2>1. Compared(att, verdict) = EndJob(att, job, verdict, {job.compared})
      BY <1>3, <1>6
    <2>2. verdict \in Outcomes
      <3>1. x \in Content \X Content \X Nat \X Options
        <4>1. OptionsFor(processor, att.feed) \in Options
          BY <1>1, PairType DEF AttemptStates
        <4>2. job.home.content \in Content /\ job.other.content \in Content /\ job.expected \in Nat
          BY <1>1 DEF BothSound, Got, JobStates
        <4> QED
          BY <4>1, <4>2
      <3> HIDE DEF x
      <3> QED
        BY <1>2, <3>1 DEF Outcomes, Given
    <2>3. Judged(cut, OptionsFor(processor, att.feed))
      <3>1. /\ cut.outcome = verdict /\ cut.expected = job.expected
            /\ cut.home = job.home /\ cut.other = job.other
        BY <1>1 DEF JobStates
      <3> HIDE DEF cut
      <3> QED
        BY <1>1, <3>1 DEF Judged, BothSound
    <2> QED
      BY <1>6, <2>1, <2>2, <2>3, CutSound
  <1>7. CASE verdict # Identical /\ verdict.kind \notin {"whole", "cut"}
    <2>1. Compared(att, verdict) = EndJob(att, job, Error, {job.compared})
      BY <1>3, <1>7
    <2>2. /\ StepSound(EndJob(att, job, Error, {job.compared}), att, h, at)
          /\ EndJob(att, job, Error, {job.compared}).closed = {job.compared}
          /\ EndJob(att, job, Error, {job.compared}).attempt.pc \in {"partner", "done"}
      BY <1>0, <1>1, EndsInError, ExtraTypes
    <2> QED
      BY <2>1, <2>2
  <1> QED
    BY <1>5, <1>6, <1>7

(* A fallback's download ends.                                             *)
LEMMA FallbackFetchedSound ==
    ASSUME NEW att, NEW at, AttemptSound(att, HomeExit(att), at), att.pc = "fallback",
           NEW e, e = Head(Job(att).left), NEW d, Brought(d, e, att, at), NEW slow \in BOOLEAN
    PROVE  /\ StepSound(FallbackFetched(att, e, d, slow), att, HomeExit(att), at)
           /\ FallbackFetched(att, e, d, slow).attempt.pc # "pair"
           /\ Got(d) /\ ~att.cancelled => KeepsOpen(FallbackFetched(att, e, d, slow), att, {e})
  <1> DEFINE h == HomeExit(att)
             old == Job(att)
             tried == [old EXCEPT !.left = Tail(old.left)]
             job == [tried EXCEPT !.compared = e, !.other = d]
             missed == [tried EXCEPT !.failed = tried.failed \cup {e}]
             shut == IF slow THEN {e} ELSE {}
  <1>0. att.pc \in Running /\ att.pc \in Comparing
    BY DEF Running, Comparing
  <1>1. /\ old \in JobStates /\ JobSound(old, att, h, at)
        /\ Placed(old, att, h, at) /\ FallbackSound(old)
    BY <1>0, CurrentJob DEF Current
  <1>2. e \in Exit /\ Tail(old.left) \in Seq(Exit) /\ ToSet(old.left) = {e} \cup ToSet(Tail(old.left))
    BY <1>1, TailSet DEF FallbackSound, JobStates
  <1>3. /\ tried \in JobStates /\ tried.expected = old.expected /\ tried.candidates = old.candidates
        /\ tried.left = Tail(old.left) /\ tried.home = old.home /\ tried.other = old.other
        /\ tried.compared = old.compared /\ tried.agreed = old.agreed /\ tried.failed = old.failed
        /\ tried.outcome = old.outcome
    BY <1>1, <1>2 DEF JobStates
  <1>4. FallbackFetched(att, e, d, slow) =
            IF att.cancelled THEN EndJob(att, tried, Error, {tried.compared})
            ELSE IF Got(d) THEN Step(Set(att, job, AfterRecheckHome(job)), {})
            ELSE Agreed(att, missed, shut)
    BY DEF FallbackFetched
  <1> HIDE DEF tried, shut, old
  <1>5. JobSound(tried, att, h, at) /\ Placed(tried, att, h, at) /\ tried.candidates = Job(att).candidates
    BY <1>1, <1>2, <1>3, StillSound DEF FallbackSound, Apart, JobSound, Placed, Located, old
  <1>6. CASE att.cancelled
    <2>1. FallbackFetched(att, e, d, slow) = EndJob(att, tried, Error, {tried.compared})
      BY <1>4, <1>6
    <2>2. /\ StepSound(EndJob(att, tried, Error, {tried.compared}), att, h, at)
          /\ EndJob(att, tried, Error, {tried.compared}).attempt.pc \in {"partner", "done"}
      BY <1>0, <1>3, <1>5, EndsInError, ExtraTypes
    <2> QED
      BY <1>6, <2>1, <2>2
  <1>7. CASE ~att.cancelled /\ Got(d)
    <2>1. FallbackFetched(att, e, d, slow) = Step(Set(att, job, AfterRecheckHome(job)), {})
      BY <1>4, <1>7
    <2>2. /\ job \in JobStates /\ job.expected = tried.expected /\ job.candidates = tried.candidates
          /\ job.left = tried.left /\ job.home = tried.home /\ job.other = d
          /\ job.compared = e /\ job.agreed = tried.agreed /\ job.failed = tried.failed
          /\ job.outcome = tried.outcome
      BY <1>2, <1>3 DEF JobStates, Brought
    <2> HIDE DEF job
    <2>3. BothSound(job)
      <3>1. Tried(job) = Tried(old)
        BY <1>3, <2>2 DEF Tried
      <3> QED
        BY <1>1, <1>2, <1>3, <1>7, <2>2, <3>1 DEF BothSound, FallbackSound
    <2>4. JobSound(job, att, h, at)
      <3>1. Apart(job, h, att.moved) /\ job.outcome = Pending
        BY <1>5, <2>2, <2>3 DEF Apart, JobSound, BothSound
      <3> QED
        BY <1>5, <2>2, <3>1, StillSound
    <2>5. Placed(job, att, h, at)
      BY <1>5, <1>7, <2>2, ExtraTypes DEF Placed, Located, Brought
    <2> DEFINE pc == AfterRecheckHome(job)
               next == Set(att, job, pc)
    <2>6. pc \in {"reother", "compare"} /\ pc \in {"rehome", "reother", "compare"}
      BY AfterPairStep
    <2> HIDE DEF pc
    <2>7. StepSound(Step(next, {}), att, h, at) /\ next.pc = pc /\ Job(next) = job
      BY <1>0, <1>5, <2>2, <2>3, <2>4, <2>5, <2>6, BothInSound
    <2> HIDE DEF next
    <2>8. KeepsOpen(Step(next, {}), att, {e})
      BY <2>2, <2>6, <2>7, StepFields DEF KeepsOpen, LeftOpen
    <2>9. FallbackFetched(att, e, d, slow) = Step(next, {})
      BY <2>1 DEF next, pc
    <2> QED
      BY <2>6, <2>7, <2>8, <2>9, StepFields
  <1>8. CASE ~att.cancelled /\ ~Got(d)
    <2>1. FallbackFetched(att, e, d, slow) = Agreed(att, missed, shut)
      BY <1>4, <1>8
    <2>2. /\ missed \in JobStates /\ missed.expected = tried.expected
          /\ missed.candidates = tried.candidates
          /\ missed.left = tried.left /\ missed.home = tried.home /\ missed.other = tried.other
          /\ missed.compared = tried.compared /\ missed.agreed = tried.agreed
          /\ missed.failed = tried.failed \cup {e} /\ missed.outcome = tried.outcome
      BY <1>2, <1>3 DEF JobStates
    <2> HIDE DEF missed
    <2>3. /\ missed.outcome = Pending /\ missed.agreed # {} /\ Got(missed.home)
          /\ Tried(missed) \cup ToSet(missed.left) = ToSet(missed.candidates)
      <3>1. Tried(missed) = Tried(old) \cup {e}
        BY <1>3, <2>2 DEF Tried
      <3> QED
        BY <1>1, <1>2, <1>3, <2>2, <3>1 DEF FallbackSound
    <2>4. JobSound(missed, att, h, at) /\ Placed(missed, att, h, at)
      <3>1. Apart(missed, h, att.moved)
        BY <1>5, <2>2 DEF Apart, JobSound
      <3> QED
        BY <1>5, <2>2, <2>3, <3>1, StillSound DEF Placed, Located
    <2>5. /\ StepSound(Agreed(att, missed, shut), att, h, at)
          /\ Agreed(att, missed, shut).attempt.pc \in {"partner", "done", "fallback"}
      BY <1>0, <1>5, <2>2, <2>3, <2>4, AgreedSound
    <2> QED
      BY <1>8, <2>1, <2>5
  <1> QED
    BY <1>6, <1>7, <1>8

(* Whatever is fetched, it ends as a step that is sound.                   *)
LEMMA FetchedSound ==
    ASSUME NEW att, NEW at, AttemptSound(att, HomeExit(att), at), NEW e \in Wanted(att),
           att.fetching \subseteq Wanted(att) \ {e}, NEW d, Brought(d, e, att, at)
    PROVE  /\ FetchSound(Fetched(att, e, d), att, at)
           /\ Got(d) /\ ~att.cancelled /\ att.pc \in {"home", "partner", "fallback"} =>
                  KeepsOpen(Fetched(att, e, d), att, {e})
  <1> DEFINE h == HomeExit(att)
             step == Fetched(att, e, d)
  <1>1. /\ e \in Exit /\ att.pc \in Running
        /\ att.pc \in {"home", "pair", "partner", "rehome", "reother", "fallback"}
        /\ att.pc # "pair" => Wanted(att) \subseteq {e}
        /\ att.pc \in {"home", "rehome"} => e = h
        /\ att.pc \in {"partner", "fallback"} => e = Head(Job(att).left) /\ e # h
        /\ att.pc = "reother" => e = Job(att).compared /\ e # h
    BY WantedExits
  <1>2. att.pc # "pair" => att.fetching = {}
    BY <1>1
  <1> HIDE DEF step
  <1>3. CASE att.pc = "pair"
    BY <1>3, PairFetchedSound DEF step
  <1>4. CASE att.pc # "pair"
    <2>1. /\ StepSound(step, att, h, at) /\ step.attempt.pc # "pair"
          /\ Got(d) /\ ~att.cancelled /\ att.pc \in {"home", "partner", "fallback"} =>
                KeepsOpen(step, att, {e})
      <3>1. CASE att.pc = "home"
        <4>1. step = HomeFetched(att, d)
          BY <1>1, <3>1 DEF Fetched, step
        <4> QED
          BY <1>1, <3>1, <4>1, HomeFetchedSound
      <3>2. CASE att.pc = "partner"
        <4>1. step = PartnerFetched(att, e, d)
          BY <1>1, <3>2 DEF Fetched, step
        <4> QED
          BY <1>1, <3>2, <4>1, PartnerFetchedSound
      <3>3. CASE att.pc = "rehome"
        <4>1. step = HomeAgain(att, d)
          BY <1>1, <3>3 DEF Fetched, step
        <4>2. Brought(d, IF att.pc = "rehome" THEN h ELSE Job(att).compared, att, at)
          BY <1>1, <3>3
        <4>3. StepSound(HomeAgain(att, d), att, h, at) /\ HomeAgain(att, d).attempt.pc # "pair"
          BY <3>3, <4>2, AgainSound
        <4> QED
          BY <3>3, <4>1, <4>3
      <3>4. CASE att.pc = "reother"
        <4>1. step = OtherAgain(att, d)
          BY <1>1, <3>4 DEF Fetched, step
        <4>2. Brought(d, IF att.pc = "rehome" THEN h ELSE Job(att).compared, att, at)
          BY <1>1, <3>4
        <4>3. StepSound(OtherAgain(att, d), att, h, at) /\ OtherAgain(att, d).attempt.pc # "pair"
          BY <3>4, <4>2, AgainSound
        <4> QED
          BY <3>4, <4>1, <4>3
      <3>5. CASE att.pc = "fallback"
        <4>1. step = FallbackFetched(att, e, d, FALSE)
          BY <1>1, <3>5 DEF Fetched, step
        <4> QED
          BY <1>1, <3>5, <4>1, FallbackFetchedSound
      <3> QED
        BY <1>1, <1>4, <3>1, <3>2, <3>3, <3>4, <3>5
    <2> QED
      BY <1>2, <1>4, <2>1 DEF FetchSound, step
  <1> QED
    BY <1>3, <1>4

(* What an attempt downloads at a time makes no other difference.          *)
LEMMA OnlyFetching ==
    ASSUME NEW att, NEW h, NEW at, AttemptSound(att, h, at), NEW fetching \in SUBSET Exit
    PROVE  LET next == [att EXCEPT !.fetching = fetching] IN
           /\ AttemptSound(next, h, at) /\ next.fetching = fetching /\ next.pc = att.pc
           /\ next.batch = att.batch /\ next.cancelled = att.cancelled /\ next.moved = att.moved
           /\ HomeExit(next) = HomeExit(att) /\ Wanted(next) = Wanted(att)
           /\ InTurn(next) <=> InTurn(att)
           /\ \A x : LeftOpen(next, x) <=> LeftOpen(att, x)
  <1> DEFINE next == [att EXCEPT !.fetching = fetching]
  <1>0. att \in AttemptStates
    BY DEF AttemptSound
  <1>1. /\ next \in AttemptStates /\ next.fetching = fetching /\ next.pc = att.pc
        /\ next.feed = att.feed /\ next.batch = att.batch
        /\ next.jobs = att.jobs /\ next.job = att.job
        /\ next.cancelled = att.cancelled /\ next.moved = att.moved
    BY <1>0 DEF AttemptStates
  <1> HIDE DEF next
  <1>2. JobsSound(next)
    BY <1>1 DEF AttemptSound, JobsSound
  <1>3. \A j \in DOMAIN next.jobs :
           /\ JobSound(next.jobs[j], next, h, at)
           /\ next.pc # "done" => Placed(next.jobs[j], next, h, at)
    BY <1>1 DEF AttemptSound, JobSound, Placed
  <1>4. HomeExit(next) = HomeExit(att) /\ Job(next) = Job(att)
    BY <1>1 DEF HomeExit, Job
  <1>5. Wanted(next) = Wanted(att)
    BY <1>1, <1>4 DEF Wanted
  <1>6. \A x : LeftOpen(next, x) <=> LeftOpen(att, x)
    BY <1>1, <1>4 DEF LeftOpen
  <1>7. InTurn(next) <=> InTurn(att)
    BY <1>1, <1>4 DEF InTurn
  <1> QED
    BY <1>1, <1>2, <1>3, <1>4, <1>5, <1>6, <1>7 DEF AttemptSound, next

(* What a state says of the attempts it has is what the step says of those *)
(* it makes, as the processor stays.                                       *)
LEMMA Primed ==
    ASSUME processor' = processor, host' = host, NEW a
    PROVE  /\ TakesTurns' = TakesTurns
           /\ InTurn(attempt[a])' <=> InTurn(attempt'[a])
           /\ \A e : LeftOpen(attempt[a], e)' <=> LeftOpen(attempt'[a], e)
           /\ HomeExit(attempt[a])' = HomeExit(attempt'[a])
           /\ Wanted(attempt[a])' = Wanted(attempt'[a])
           /\ Holds(attempt[a])' <=> Holds(attempt'[a])
           /\ AttemptSound(attempt[a], HomeExit(attempt[a]), country)'
                <=> AttemptSound(attempt'[a], HomeExit(attempt'[a]), country')
  <1>1. TakesTurns' = TakesTurns
    BY DEF TakesTurns, ExitsFit
  <1>2. HomeExit(attempt[a])' = HomeExit(attempt'[a])
    BY DEF HomeExit, Pair
  <1>3. InTurn(attempt[a])' <=> InTurn(attempt'[a])
    BY <1>2 DEF InTurn, DownloadsInTurn, ExitsFit
  <1>4. Job(attempt[a])' = Job(attempt'[a])
    BY DEF Job
  <1>5. \A e : LeftOpen(attempt[a], e)' <=> LeftOpen(attempt'[a], e)
    BY <1>2, <1>4 DEF LeftOpen
  <1>6. Wanted(attempt[a])' = Wanted(attempt'[a])
    BY <1>2, <1>4 DEF Wanted
  <1>7. Holds(attempt[a])' <=> Holds(attempt'[a])
    BY DEF Holds
  <1>8. AttemptSound(attempt[a], HomeExit(attempt[a]), country)'
          <=> AttemptSound(attempt'[a], HomeExit(attempt'[a]), country')
    BY <1>2 DEF AttemptSound, JobSound, Placed, OptionsFor, AttemptStates, JobStates, Outcomes, Downloads, Sent
  <1> QED
    BY <1>1, <1>2, <1>3, <1>5, <1>6, <1>7, <1>8

(* One attempt goes on, the others stay as they are.                       *)
LEMMA TurnKept ==
    ASSUME TurnSound, DOMAIN attempt = Attempt, NEW a \in Attempt, NEW new,
           processor' = processor, host' = host,
           attempt' = [attempt EXCEPT ![a] = new],
           turn' = IF new.pc = "done" THEN turn \ {a} ELSE turn,
           new.pc = "done" \/ (Holds(new) <=> Holds(attempt[a]))
    PROVE  TurnSound'
  <1>1. attempt'[a] = new /\ \A b \in Attempt : b # a => attempt'[b] = attempt[b]
    OBVIOUS
  <1>2. turn' \subseteq turn /\ turn \subseteq Attempt /\ \A b, c \in turn : b = c
    BY DEF TurnSound
  <1>3. \A b \in Attempt : b \in turn' <=> TakesTurns /\ Holds(attempt'[b])
    <2> TAKE b \in Attempt
    <2>1. CASE b # a
      BY <1>1, <2>1 DEF TurnSound
    <2>2. CASE b = a /\ new.pc = "done"
      <3>1. ~Holds(new)
        BY <2>2 DEF Holds, Comparing
      <3> QED
        BY <1>1, <2>2, <3>1
    <2>3. CASE b = a /\ new.pc # "done"
      BY <1>1, <2>3 DEF TurnSound
    <2> QED
      BY <2>1, <2>2, <2>3
  <1>4. \A b \in Attempt : b \in turn' <=> TakesTurns' /\ Holds(attempt[b])'
    BY <1>3, Primed
  <1> QED
    BY <1>2, <1>4 DEF TurnSound

Users(e) == {a \in Attempt : e \in attempt[a].fetching}

Counted == using \in [Exit -> Nat] /\ \A e \in Exit : using[e] = Cardinality(Users(e))

(* Who downloads through an exit can be counted.                           *)
LEMMA UsersFinite ==
    ASSUME NEW e
    PROVE  IsFiniteSet(Users(e)) /\ Cardinality(Users(e)) \in Nat
  <1>1. Users(e) \in SUBSET Attempt
    BY DEF Users
  <1> QED
    BY <1>1, RegionDiffAssumption, FS_Subset, FS_CardinalityType

(* A step that leaves an attempt's downloads leaves the count.             *)
LEMMA CountedSame ==
    ASSUME Counted, DOMAIN attempt = Attempt, NEW a \in Attempt, NEW new,
           attempt' = [attempt EXCEPT ![a] = new], new.fetching = attempt[a].fetching, using' = using
    PROVE  Counted'
  <1>1. \A b \in Attempt : attempt'[b].fetching = attempt[b].fetching
    OBVIOUS
  <1>2. \A e : Users(e)' = Users(e)
    BY <1>1 DEF Users
  <1> QED
    BY <1>2 DEF Counted

(* A download begins.                                                      *)
LEMMA CountedMore ==
    ASSUME Counted, DOMAIN attempt = Attempt, NEW a \in Attempt, NEW new, NEW e \in Exit,
           attempt' = [attempt EXCEPT ![a] = new], e \notin attempt[a].fetching,
           new.fetching = attempt[a].fetching \cup {e}, using' = [using EXCEPT ![e] = @ + 1]
    PROVE  Counted'
  <1>1. attempt'[a] = new /\ \A b \in Attempt : b # a => attempt'[b] = attempt[b]
    OBVIOUS
  <1>2. \A x : x # e => Users(x)' = Users(x)
    BY <1>1 DEF Users
  <1>3. Users(e)' = Users(e) \cup {a} /\ a \notin Users(e)
    BY <1>1 DEF Users
  <1>4. Cardinality(Users(e)') = Cardinality(Users(e)) + 1
    BY <1>3, UsersFinite, FS_AddElement
  <1>5. using' \in [Exit -> Nat] /\ using'[e] = using[e] + 1 /\ \A x \in Exit : x # e => using'[x] = using[x]
    BY DEF Counted
  <1> QED
    BY <1>2, <1>4, <1>5 DEF Counted

(* A download ends.                                                        *)
LEMMA CountedLess ==
    ASSUME Counted, DOMAIN attempt = Attempt, NEW a \in Attempt, NEW new, NEW e \in Exit,
           attempt' = [attempt EXCEPT ![a] = new], e \in attempt[a].fetching,
           new.fetching = attempt[a].fetching \ {e}, using' = [using EXCEPT ![e] = @ - 1]
    PROVE  Counted'
  <1>1. attempt'[a] = new /\ \A b \in Attempt : b # a => attempt'[b] = attempt[b]
    OBVIOUS
  <1>2. \A x : x # e => Users(x)' = Users(x)
    BY <1>1 DEF Users
  <1>3. Users(e)' = Users(e) \ {a} /\ a \in Users(e)
    BY <1>1 DEF Users
  <1>4. Cardinality(Users(e)') = Cardinality(Users(e)) - 1
    BY <1>3, UsersFinite, FS_RemoveElement
  <1>5. Cardinality(Users(e)) # 0
    BY <1>3, UsersFinite, FS_EmptySet
  <1>6. using[e] \in Nat \ {0} /\ using[e] - 1 \in Nat
    BY <1>5, UsersFinite DEF Counted
  <1>7. using' \in [Exit -> Nat] /\ using'[e] = using[e] - 1 /\ \A x \in Exit : x # e => using'[x] = using[x]
    BY <1>6 DEF Counted
  <1> QED
    BY <1>2, <1>4, <1>7 DEF Counted

(* One attempt's step keeps the invariant when it is sound itself.         *)
LEMMA RegionKept ==
    ASSUME RegionInv, NEW a \in Attempt, NEW new, processor' = processor, host' = host, country' = country,
           attempt' = [attempt EXCEPT ![a] = new],
           AttemptSound(new, HomeExit(new), country), new.fetching \subseteq Wanted(new),
           TurnSound', idle' \in [Exit -> BOOLEAN], refused' \in BOOLEAN, untidy' \in BOOLEAN, Counted'
    PROVE  RegionInv'
  <1>1. DOMAIN attempt = Attempt
    BY DEF RegionInv, AttemptsSound
  <1>2. DOMAIN attempt' = Attempt /\ attempt'[a] = new /\ \A b \in Attempt : b # a => attempt'[b] = attempt[b]
    BY <1>1
  <1>3. ProcessorSound' /\ CountriesSound'
    BY DEF RegionInv, ProcessorSound, CountriesSound
  <1>4. AttemptsSound'
    <2>1. \A b \in Attempt : AttemptSound(attempt'[b], HomeExit(attempt'[b]), country)
      BY <1>2 DEF RegionInv, AttemptsSound
    <2>2. \A b \in Attempt : AttemptSound(attempt[b], HomeExit(attempt[b]), country)'
      BY <2>1, Primed
    <2> QED
      BY <1>2, <2>2 DEF AttemptsSound
  <1>5. UsesSound'
    <2>1. \A b \in Attempt : attempt'[b].fetching \subseteq Wanted(attempt'[b])
      BY <1>2 DEF RegionInv, UsesSound
    <2>2. \A b \in Attempt : attempt'[b].fetching \subseteq Wanted(attempt[b])'
      BY <2>1, Primed
    <2> QED
      BY <2>2 DEF UsesSound, Counted, Users
  <1> QED
    BY <1>3, <1>4, <1>5 DEF RegionInv

(* While all is tidy and attempts take turns, in turn.                     *)
Tidy == TakesTurns /\ ~untidy /\ \A a \in Attempt : InTurn(attempt[a])

KeyHeld ==
    /\ ~refused
    /\ \A e \in Exit \ {Direct} : idle[e] => \E a \in Attempt : LeftOpen(attempt[a], e)
    /\ \A a \in Attempt : attempt[a].pc # "pair"
    /\ \A a \in Attempt : attempt[a].pc \in {"rehome", "reother"} => attempt[a].fetching = {}

(* One attempt's step keeps what is known of the open connections.         *)
LEMMA KeyKept ==
    ASSUME KeyInv, DOMAIN attempt = Attempt, NEW a \in Attempt, NEW new, processor' = processor, host' = host,
           attempt' = [attempt EXCEPT ![a] = new], untidy => untidy',
           InTurn(new) => InTurn(attempt[a]),
           Tidy /\ KeyHeld /\ ~untidy' /\ InTurn(new) =>
              /\ ~refused' /\ new.pc # "pair"
              /\ new.pc \in {"rehome", "reother"} => new.fetching = {}
              /\ \A e \in Exit \ {Direct} : idle'[e] =>
                    LeftOpen(new, e) \/ \E b \in Attempt : b # a /\ LeftOpen(attempt[b], e)
    PROVE  KeyInv'
  <1>1. attempt'[a] = new /\ \A b \in Attempt : b # a => attempt'[b] = attempt[b]
    OBVIOUS
  <1> SUFFICES ASSUME TakesTurns', ~untidy', \A b \in Attempt : InTurn(attempt[b])'
               PROVE  /\ ~refused'
                      /\ \A e \in Exit \ {Direct} : idle'[e] => \E b \in Attempt : LeftOpen(attempt[b], e)'
                      /\ \A b \in Attempt : attempt'[b].pc # "pair"
                      /\ \A b \in Attempt : attempt'[b].pc \in {"rehome", "reother"} => attempt'[b].fetching = {}
    BY DEF KeyInv
  <1>2. TakesTurns /\ \A b \in Attempt : InTurn(attempt'[b])
    BY Primed
  <1>3. Tidy /\ InTurn(new)
    BY <1>1, <1>2 DEF Tidy
  <1>4. KeyHeld
    BY <1>3 DEF Tidy, KeyInv, KeyHeld
  <1>5. /\ ~refused' /\ new.pc # "pair"
        /\ new.pc \in {"rehome", "reother"} => new.fetching = {}
        /\ \A e \in Exit \ {Direct} : idle'[e] =>
              LeftOpen(new, e) \/ \E b \in Attempt : b # a /\ LeftOpen(attempt[b], e)
    BY <1>3, <1>4
  <1>6. \A e \in Exit \ {Direct} : idle'[e] => \E b \in Attempt : LeftOpen(attempt'[b], e)
    BY <1>1, <1>5
  <1>7. \A e \in Exit \ {Direct} : idle'[e] => \E b \in Attempt : LeftOpen(attempt[b], e)'
    BY <1>6, Primed
  <1>8. \A b \in Attempt : /\ attempt'[b].pc # "pair"
                           /\ attempt'[b].pc \in {"rehome", "reother"} => attempt'[b].fetching = {}
    BY <1>1, <1>4, <1>5 DEF KeyHeld
  <1> QED
    BY <1>5, <1>7, <1>8

(* Whether an attempt downloads in turn is settled with its exits.         *)
LEMMA SameInTurn ==
    ASSUME NEW after, NEW att, Same(after, att)
    PROVE  HomeExit(after) = HomeExit(att) /\ (InTurn(after) <=> InTurn(att))
  BY DEF Same, InTurn, HomeExit

(* Who downloads, or leaves a connection open, holds the turn.             *)
LEMMA WhoHolds ==
    ASSUME NEW att
    PROVE  /\ Wanted(att) # {} => Holds(att)
           /\ \A e : LeftOpen(att, e) => Holds(att)
  BY DEF Wanted, LeftOpen, Holds, Comparing

(* A step is taken that is sound.                                          *)
LEMMA StepTaken ==
    ASSUME RegionInv, NEW a \in Attempt, NEW att, NEW step, NEW kept, processor' = processor, host' = host,
           country' = country, StepSound(step, att, HomeExit(att), country),
           att.batch = attempt[a].batch, att.fetching \subseteq Wanted(step.attempt),
           Holds(attempt[a]) \/ step.attempt.pc = "done",
           Take(a, step, kept), refused' \in BOOLEAN, untidy' \in BOOLEAN, Counted'
    PROVE  RegionInv'
  <1> DEFINE new == step.attempt
  <1>1. /\ attempt' = [attempt EXCEPT ![a] = new]
        /\ turn' = IF new.pc = "done" THEN turn \ {a} ELSE turn
        /\ idle' \in [Exit -> BOOLEAN]
    BY DEF Take, RegionInv, UsesSound
  <1>2. /\ AttemptSound(new, HomeExit(att), country) /\ Same(new, att)
        /\ new.pc \in Comparing \cup {"done"} \/ (new.pc = "check" /\ att.batch)
    BY DEF StepSound
  <1> HIDE DEF new
  <1>3. HomeExit(new) = HomeExit(att) /\ new.fetching = att.fetching /\ new.batch = att.batch
    BY <1>2, SameInTurn DEF Same
  <1>4. new.pc = "done" \/ (Holds(new) /\ Holds(attempt[a]))
    BY <1>2, <1>3 DEF Holds, new
  <1>5. TurnSound'
    BY <1>1, <1>4, TurnKept DEF RegionInv, AttemptsSound
  <1>6. AttemptSound(new, HomeExit(new), country) /\ new.fetching \subseteq Wanted(new)
    BY <1>2, <1>3 DEF new
  <1> QED
    BY <1>1, <1>5, <1>6, RegionKept

(* A tunnel is there for who is alone with its turn, on one exit at a time.*)
LEMMA TunnelFree ==
    ASSUME RegionInv, Tidy, KeyHeld, NEW a \in Attempt,
           NEW e \in Wanted(attempt[a]) \ attempt[a].fetching,
           attempt[a].pc \notin {"rehome", "reother"}
    PROVE  HasTunnel(e)
  <1> DEFINE att == attempt[a]
  <1>1. AttemptSound(att, HomeExit(att), country) /\ att.fetching \subseteq Wanted(att)
    BY DEF RegionInv, AttemptsSound, UsesSound
  <1>2. e \in Exit /\ att.pc \in {"home", "partner", "fallback"} /\ Wanted(att) \subseteq {e}
    BY <1>1, WantedExits DEF KeyHeld
  <1>3. att.fetching = {}
    BY <1>1, <1>2
  <1>4. \A b \in Attempt : Holds(attempt[b]) => b = a
    BY WhoHolds DEF RegionInv, TurnSound, Tidy
  <1>5. \A x : Users(x) = {}
    <2>1. \A b \in Attempt : b # a => attempt[b].fetching = {}
      BY <1>4, WhoHolds DEF RegionInv, UsesSound
    <2> QED
      BY <1>3, <2>1 DEF Users
  <1>6. \A x \in Exit : using[x] = 0
    BY <1>5, FS_EmptySet DEF RegionInv, UsesSound, Users
  <1>7. ASSUME NEW x \in Exit \ {Direct}, idle[x]
        PROVE  x = e
    <2>1. PICK b \in Attempt : LeftOpen(attempt[b], x)
      BY <1>7 DEF KeyHeld
    <2>2. b = a
      BY <1>4, <2>1, WhoHolds
    <2>3. att.pc = "home" /\ x = HomeExit(att)
      BY <1>2, <2>1, <2>2 DEF LeftOpen
    <2> QED
      BY <1>1, <2>3, WantedExits
  <1>8. Open \subseteq {e}
    BY <1>6, <1>7 DEF Open
  <1>9. e \notin Open => Cardinality(Open) = 0
    BY <1>8, FS_EmptySet
  <1>10. processor.tunnels \in Nat \ {0}
    BY ProcessorType DEF RegionInv
  <1> QED
    BY <1>9, <1>10 DEF HasTunnel

(* The actions. No tunnel for a download.                                  *)
LEMMA ConnectFailsKeeps ==
    ASSUME RegionInv, KeyInv, NEW a \in Attempt, NEW e \in Exit, ConnectFails(a, e)
    PROVE  RegionInv' /\ KeyInv'
  <1> DEFINE att == attempt[a]
             step == Fetched(att, e, Failed)
  <1>1. /\ e \in Wanted(att) \ att.fetching /\ (Stopped(att) \/ ~HasTunnel(e))
        /\ Take(a, step, {})
        /\ refused' = (refused \/ ~Stopped(att))
        /\ untidy' = (untidy \/ Stopped(att) \/ Rechecks(a))
        /\ processor' = processor /\ host' = host /\ country' = country /\ using' = using
    BY DEF ConnectFails
  <1>2. AttemptSound(att, HomeExit(att), country) /\ att.fetching \subseteq Wanted(att) \ {e}
    BY <1>1 DEF RegionInv, AttemptsSound, UsesSound
  <1>3. Brought(Failed, e, att, country)
    BY ExtraTypes DEF Brought
  <1>4. FetchSound(step, att, country)
    BY <1>1, <1>2, <1>3, FetchedSound
  <1> HIDE DEF step
  <1>5. /\ StepSound(step, att, HomeExit(att), country) /\ att.fetching \subseteq Wanted(step.attempt)
        /\ Same(step.attempt, att)
    BY <1>4 DEF FetchSound, StepSound
  <1>6. attempt' = [attempt EXCEPT ![a] = step.attempt] /\ DOMAIN attempt = Attempt
    BY <1>1 DEF Take, RegionInv, AttemptsSound
  <1>7. refused' \in BOOLEAN /\ untidy' \in BOOLEAN
    BY <1>1 DEF RegionInv, UsesSound, Stopped, Rechecks
  <1>8. Counted'
    <2>1. step.attempt.fetching = attempt[a].fetching
      BY <1>5 DEF Same
    <2>2. Counted
      BY DEF RegionInv, UsesSound, Counted, Users
    <2> QED
      BY <1>1, <1>6, <2>1, <2>2, CountedSame
  <1>9. Holds(att)
    BY <1>1, WhoHolds
  <1>10. RegionInv'
    BY <1>1, <1>5, <1>7, <1>8, <1>9, StepTaken
  <1>11. ~(Tidy /\ KeyHeld /\ ~untidy')
    BY <1>1, TunnelFree DEF Rechecks
  <1>12. KeyInv'
    BY <1>1, <1>5, <1>6, <1>11, SameInTurn, KeyKept
  <1> QED
    BY <1>10, <1>12

(* What is known of an attempt as its download through an exit ends.       *)
LEMMA EndedSound ==
    ASSUME RegionInv, NEW a \in Attempt, NEW e \in Exit, e \in attempt[a].fetching
    PROVE  /\ AttemptSound(Ended(a, e), HomeExit(Ended(a, e)), country)
           /\ e \in Wanted(Ended(a, e)) /\ Ended(a, e).fetching \subseteq Wanted(Ended(a, e)) \ {e}
           /\ Ended(a, e).fetching = attempt[a].fetching \ {e}
           /\ Ended(a, e).pc = attempt[a].pc /\ Ended(a, e).cancelled = attempt[a].cancelled
           /\ Ended(a, e).batch = attempt[a].batch /\ Ended(a, e).moved = attempt[a].moved
           /\ InTurn(Ended(a, e)) <=> InTurn(attempt[a])
           /\ \A x : LeftOpen(Ended(a, e), x) <=> LeftOpen(attempt[a], x)
  <1> DEFINE old == attempt[a]
             att == Ended(a, e)
  <1>1. /\ AttemptSound(old, HomeExit(old), country)
        /\ old.fetching \subseteq Wanted(old) /\ e \in old.fetching
    BY DEF RegionInv, AttemptsSound, UsesSound
  <1> DEFINE rest == old.fetching \ {e}
  <1>2. att = [old EXCEPT !.fetching = rest]
    BY DEF Ended
  <1> HIDE DEF old, att
  <1>3. rest \in SUBSET Exit
    BY <1>1 DEF AttemptSound, AttemptStates
  <1> HIDE DEF rest
  <1>4. /\ AttemptSound(att, HomeExit(old), country) /\ att.fetching = rest /\ att.pc = old.pc
        /\ att.batch = old.batch /\ att.cancelled = old.cancelled /\ att.moved = old.moved
        /\ HomeExit(att) = HomeExit(old) /\ Wanted(att) = Wanted(old)
        /\ InTurn(att) <=> InTurn(old)
        /\ \A x : LeftOpen(att, x) <=> LeftOpen(old, x)
    BY <1>1, <1>2, <1>3, OnlyFetching
  <1> QED
    BY <1>1, <1>4 DEF old, att, rest

(* A download ends, and the connection stays alive or not.                 *)
LEMMA DownloadEnds ==
    ASSUME RegionInv, NEW a \in Attempt, NEW e \in Exit, e \in attempt[a].fetching, NEW step, NEW kept,
           FetchSound(step, Ended(a, e), country), Take(a, step, kept),
           processor' = processor, host' = host, country' = country, using' = [using EXCEPT ![e] = @ - 1],
           refused' \in BOOLEAN, untidy' \in BOOLEAN
    PROVE  /\ RegionInv' /\ attempt' = [attempt EXCEPT ![a] = step.attempt] /\ DOMAIN attempt = Attempt
           /\ InTurn(step.attempt) <=> InTurn(attempt[a])
           /\ step.attempt.fetching = attempt[a].fetching \ {e}
  <1> DEFINE att == Ended(a, e)
  <1>2. att.fetching = attempt[a].fetching \ {e} /\ att.batch = attempt[a].batch
    BY EndedSound
  <1>3. InTurn(att) <=> InTurn(attempt[a])
    BY EndedSound
  <1> HIDE DEF att
  <1>4. /\ StepSound(step, att, HomeExit(att), country) /\ att.fetching \subseteq Wanted(step.attempt)
        /\ Same(step.attempt, att)
    BY DEF FetchSound, StepSound, att
  <1>5. attempt' = [attempt EXCEPT ![a] = step.attempt] /\ DOMAIN attempt = Attempt
    BY DEF Take, RegionInv, AttemptsSound
  <1>6. step.attempt.fetching = attempt[a].fetching \ {e}
    BY <1>2, <1>4 DEF Same
  <1>7. Counted'
    <2>1. Counted
      BY DEF RegionInv, UsesSound, Counted, Users
    <2> QED
      BY <1>5, <1>6, <2>1, CountedLess
  <1>8. Holds(attempt[a])
    BY WhoHolds DEF RegionInv, UsesSound
  <1>9. RegionInv'
    BY <1>2, <1>4, <1>7, <1>8, StepTaken
  <1> QED
    BY <1>3, <1>4, <1>5, <1>6, <1>9, SameInTurn

(* A download arrives.                                                     *)
LEMMA ArrivesKeeps ==
    ASSUME RegionInv, KeyInv, NEW a \in Attempt, NEW e \in Exit, NEW content \in Content,
           Arrives(a, e, content)
    PROVE  RegionInv' /\ KeyInv'
  <1> DEFINE att == Ended(a, e)
             d == [content |-> content, country |-> country[e]]
             step == Fetched(att, e, d)
             new == step.attempt
  <1>1. /\ e \in attempt[a].fetching /\ ~attempt[a].cancelled
        /\ Take(a, step, {e}) /\ using' = [using EXCEPT ![e] = @ - 1]
        /\ processor' = processor /\ host' = host /\ country' = country
        /\ refused' = refused /\ untidy' = untidy
    BY DEF Arrives
  <1>2. d \in Downloads /\ Got(d) /\ d.country = country[e]
    <2>1. country[e] \in Places /\ content \in host[country[e]]
      BY DEF RegionInv, CountriesSound, Arrives
    <2>2. content \in Sent
      BY <2>1 DEF Sent, SentBy, Places
    <2> QED
      BY <2>1, <2>2 DEF Downloads, Got
  <1> HIDE DEF att, d
  <1>3. Brought(d, e, att, country)
    BY <1>2 DEF Brought
  <1>4. /\ AttemptSound(att, HomeExit(att), country)
        /\ e \in Wanted(att) /\ att.fetching \subseteq Wanted(att) \ {e}
        /\ att.fetching = attempt[a].fetching \ {e}
        /\ att.pc = attempt[a].pc /\ att.cancelled = attempt[a].cancelled
        /\ \A x : LeftOpen(att, x) <=> LeftOpen(attempt[a], x)
    BY <1>1, EndedSound DEF att
  <1>5. /\ FetchSound(step, att, country)
        /\ ~att.cancelled /\ att.pc \in {"home", "partner", "fallback"} => KeepsOpen(step, att, {e})
    BY <1>2, <1>3, <1>4, FetchedSound
  <1> HIDE DEF step
  <1>6. refused' \in BOOLEAN /\ untidy' \in BOOLEAN
    BY <1>1 DEF RegionInv, UsesSound
  <1>7. /\ RegionInv' /\ attempt' = [attempt EXCEPT ![a] = new] /\ DOMAIN attempt = Attempt
        /\ InTurn(new) <=> InTurn(attempt[a])
        /\ new.fetching = attempt[a].fetching \ {e}
    BY <1>1, <1>5, <1>6, DownloadEnds DEF att
  <1>8. ASSUME Tidy, KeyHeld
        PROVE  /\ ~refused' /\ new.pc # "pair"
               /\ new.pc \in {"rehome", "reother"} => new.fetching = {}
               /\ \A x \in Exit \ {Direct} : idle'[x] =>
                     LeftOpen(new, x) \/ \E b \in Attempt : b # a /\ LeftOpen(attempt[b], x)
    <2>1. att.pc # "pair" /\ att.pc \notin {"rehome", "reother"}
      BY <1>1, <1>4, <1>8 DEF KeyHeld
    <2>2. att.pc \in {"home", "partner", "fallback"} /\ Wanted(att) \subseteq {e}
      BY <1>4, <2>1, WantedExits
    <2>3. KeepsOpen(step, att, {e})
      BY <1>1, <1>4, <1>5, <2>2
    <2>4. new.pc # "pair" /\ new.fetching = {} /\ ~refused'
      BY <1>1, <1>4, <1>5, <1>7, <1>8, <2>1, <2>2 DEF FetchSound, KeyHeld
    <2>5. ASSUME NEW x \in Exit \ {Direct}, idle'[x]
          PROVE  LeftOpen(new, x) \/ \E b \in Attempt : b # a /\ LeftOpen(attempt[b], x)
      <3>1. (idle[x] \/ x = e) /\ x \notin step.closed
        BY <1>1, <2>5 DEF Take
      <3>2. CASE x = e
        BY <2>3, <3>1, <3>2 DEF KeepsOpen
      <3>3. CASE idle[x]
        <4>1. PICK b \in Attempt : LeftOpen(attempt[b], x)
          BY <1>8, <3>3 DEF KeyHeld
        <4>2. CASE b = a
          BY <1>4, <2>3, <3>1, <4>1, <4>2 DEF KeepsOpen
        <4> QED
          BY <4>1, <4>2
      <3> QED
        BY <3>1, <3>2, <3>3
    <2> QED
      BY <2>4, <2>5
  <1>9. KeyInv'
    <2> HIDE DEF new
    <2> QED
      BY <1>1, <1>7, <1>8, KeyKept
  <1> QED
    BY <1>7, <1>9

(* A download fails.                                                       *)
LEMMA FetchFailsKeeps ==
    ASSUME RegionInv, KeyInv, NEW a \in Attempt, NEW e \in Exit, FetchFails(a, e)
    PROVE  RegionInv' /\ KeyInv'
  <1> DEFINE att == Ended(a, e)
             step == Fetched(att, e, Failed)
             new == step.attempt
  <1>1. PICK kept \in SUBSET {e} :
            /\ e \in attempt[a].fetching
            /\ Take(a, step, kept) /\ using' = [using EXCEPT ![e] = @ - 1]
            /\ processor' = processor /\ host' = host /\ country' = country
            /\ refused' = refused /\ untidy' = TRUE
    BY DEF FetchFails
  <1> HIDE DEF att
  <1>2. Brought(Failed, e, att, country)
    BY ExtraTypes DEF Brought
  <1>3. /\ AttemptSound(att, HomeExit(att), country)
        /\ e \in Wanted(att) /\ att.fetching \subseteq Wanted(att) \ {e}
    BY <1>1, EndedSound DEF att
  <1>4. FetchSound(step, att, country)
    BY <1>2, <1>3, FetchedSound
  <1> HIDE DEF step
  <1>5. refused' \in BOOLEAN /\ untidy' \in BOOLEAN
    BY <1>1 DEF RegionInv, UsesSound
  <1>6. /\ RegionInv' /\ attempt' = [attempt EXCEPT ![a] = new] /\ DOMAIN attempt = Attempt
        /\ InTurn(new) <=> InTurn(attempt[a])
    BY <1>1, <1>4, <1>5, DownloadEnds DEF att
  <1>7. KeyInv'
    BY <1>1 DEF KeyInv
  <1> QED
    BY <1>6, <1>7

(* A fallback is too slow.                                                 *)
LEMMA FallbackTooSlowKeeps ==
    ASSUME RegionInv, KeyInv, NEW a \in Attempt, NEW e \in Exit, FallbackTooSlow(a, e)
    PROVE  RegionInv' /\ KeyInv'
  <1> DEFINE att == Ended(a, e)
             step == FallbackFetched(att, e, Failed, TRUE)
             new == step.attempt
  <1>1. /\ e \in attempt[a].fetching /\ attempt[a].pc = "fallback"
        /\ Take(a, step, {e}) /\ using' = [using EXCEPT ![e] = @ - 1]
        /\ processor' = processor /\ host' = host /\ country' = country /\ refused' = refused /\ untidy' = TRUE
    BY DEF FallbackTooSlow
  <1> HIDE DEF att
  <1>2. Brought(Failed, e, att, country)
    BY ExtraTypes DEF Brought
  <1>3. /\ AttemptSound(att, HomeExit(att), country) /\ att.pc = "fallback"
        /\ e \in Wanted(att) /\ att.fetching \subseteq Wanted(att) \ {e}
    BY <1>1, EndedSound DEF att
  <1>4. e = Head(Job(att).left) /\ Wanted(att) \subseteq {e}
    BY <1>3, WantedExits
  <1>5. FetchSound(step, att, country)
    <2>1. StepSound(step, att, HomeExit(att), country) /\ step.attempt.pc # "pair"
      BY <1>2, <1>3, <1>4, FallbackFetchedSound
    <2> HIDE DEF step
    <2> QED
      BY <1>3, <1>4, <2>1 DEF FetchSound
  <1> HIDE DEF step
  <1>6. refused' \in BOOLEAN /\ untidy' \in BOOLEAN
    BY <1>1 DEF RegionInv, UsesSound
  <1>7. RegionInv'
    BY <1>1, <1>5, <1>6, DownloadEnds DEF att
  <1>8. KeyInv'
    BY <1>1 DEF KeyInv
  <1> QED
    BY <1>7, <1>8

(* A comparison.                                                           *)
LEMMA CompareKeeps ==
    ASSUME RegionInv, KeyInv, NEW a \in Attempt, Compare(a)
    PROVE  RegionInv' /\ KeyInv'
  <1> DEFINE att == attempt[a]
             job == Job(att)
  <1>0. AttemptSound(att, HomeExit(att), country) /\ att.fetching \subseteq Wanted(att)
    BY DEF RegionInv, AttemptsSound, UsesSound
  <1>1. /\ att.pc = "compare"
        /\ processor' = processor /\ host' = host /\ country' = country /\ using' = using
        /\ refused' = refused /\ untidy' = untidy
    BY DEF Compare
  <1>2. att.fetching = {}
    BY <1>0, <1>1 DEF Wanted
  <1>3. PICK step : /\ Take(a, step, {}) /\ StepSound(step, att, HomeExit(att), country)
                    /\ step.attempt.pc # "pair" /\ job.compared \in step.closed
    <2>1. CASE \E verdict \in VerdictTable[job.home.content, job.other.content, job.expected,
                                     OptionsFor(processor, att.feed)] :
                  Take(a, Compared(att, verdict), {})
      <3>1. PICK verdict \in VerdictTable[job.home.content, job.other.content, job.expected,
                                     OptionsFor(processor, att.feed)] :
                  Take(a, Compared(att, verdict), {})
        BY <2>1
      <3>2. ProcessorSound
        BY DEF RegionInv
      <3> QED
        BY <1>0, <1>1, <3>1, <3>2, ComparedSound
    <2>2. CASE Take(a, EndJob(att, job, Error, {job.compared}), {})
      <3> DEFINE step == EndJob(att, job, Error, {job.compared})
      <3>1. att.pc \in Running /\ att.pc \in Comparing
        BY <1>1 DEF Running, Comparing
      <3>2. job \in JobStates /\ JobSound(job, att, HomeExit(att), country) /\ Placed(job, att, HomeExit(att), country)
        BY <1>0, <3>1, CurrentJob
      <3>3. /\ StepSound(step, att, HomeExit(att), country)
            /\ step.closed = {job.compared} /\ step.attempt.pc \in {"partner", "done"}
        BY <1>0, <3>1, <3>2, EndsInError, ExtraTypes
      <3> HIDE DEF step
      <3>4. Take(a, step, {})
        BY <2>2 DEF step
      <3> QED
        BY <3>3, <3>4
    <2> QED
      BY <2>1, <2>2 DEF Compare
  <1> DEFINE new == step.attempt
  <1>4. attempt' = [attempt EXCEPT ![a] = new] /\ DOMAIN attempt = Attempt
    BY <1>3 DEF Take, RegionInv, AttemptsSound
  <1>5. Same(new, att)
    BY <1>3 DEF StepSound
  <1>6. Counted'
    <2>1. Counted
      BY DEF RegionInv, UsesSound, Counted, Users
    <2>2. new.fetching = attempt[a].fetching
      BY <1>5 DEF Same
    <2> QED
      BY <1>1, <1>4, <2>1, <2>2, CountedSame
  <1>7. refused' \in BOOLEAN /\ untidy' \in BOOLEAN
    BY <1>1 DEF RegionInv, UsesSound
  <1>8. RegionInv'
    <2>1. Holds(att)
      BY <1>1 DEF Holds, Comparing
    <2> QED
      BY <1>1, <1>2, <1>3, <1>6, <1>7, <2>1, StepTaken
  <1>9. ASSUME Tidy, KeyHeld
        PROVE  /\ ~refused' /\ new.pc # "pair"
               /\ new.pc \in {"rehome", "reother"} => new.fetching = {}
               /\ \A x \in Exit \ {Direct} : idle'[x] =>
                     LeftOpen(new, x) \/ \E b \in Attempt : b # a /\ LeftOpen(attempt[b], x)
    <2>1. ~refused' /\ new.pc # "pair" /\ new.fetching = {}
      BY <1>1, <1>2, <1>3, <1>5, <1>9 DEF KeyHeld, Same
    <2>2. ASSUME NEW x \in Exit \ {Direct}, idle'[x]
          PROVE  \E b \in Attempt : b # a /\ LeftOpen(attempt[b], x)
      <3>1. idle[x] /\ x \notin step.closed
        BY <1>3, <2>2 DEF Take
      <3>2. PICK b \in Attempt : LeftOpen(attempt[b], x)
        BY <1>9, <3>1 DEF KeyHeld
      <3>3. CASE b = a
        BY <1>1, <1>3, <3>1, <3>2, <3>3 DEF LeftOpen
      <3> QED
        BY <3>2, <3>3
    <2> QED
      BY <2>1, <2>2
  <1>10. KeyInv'
    <2>1. InTurn(new) <=> InTurn(attempt[a])
      BY <1>5, SameInTurn
    <2> HIDE DEF new
    <2> QED
      BY <1>1, <1>4, <1>9, <2>1, KeyKept
  <1> QED
    BY <1>8, <1>10

(* A download begins.                                                      *)
LEMMA ConnectKeeps ==
    ASSUME RegionInv, KeyInv, NEW a \in Attempt, NEW e \in Exit, Connect(a, e)
    PROVE  RegionInv' /\ KeyInv'
  <1> DEFINE att == attempt[a]
             fetching == att.fetching \cup {e}
             new == [att EXCEPT !.fetching = fetching]
  <1>0. /\ AttemptSound(att, HomeExit(att), country) /\ att.fetching \subseteq Wanted(att)
        /\ DOMAIN attempt = Attempt
    BY DEF RegionInv, AttemptsSound, UsesSound
  <1>1. /\ e \in Wanted(att) /\ e \notin att.fetching
        /\ attempt' = [attempt EXCEPT ![a] = new]
        /\ using' = [using EXCEPT ![e] = @ + 1] /\ untidy' = (untidy \/ Rechecks(a))
        /\ processor' = processor /\ host' = host /\ country' = country /\ idle' = idle /\ turn' = turn
        /\ refused' = refused
    BY <1>0 DEF Connect
  <1>2. fetching \in SUBSET Exit
    BY <1>0 DEF AttemptSound, AttemptStates
  <1> HIDE DEF fetching
  <1>3. /\ AttemptSound(new, HomeExit(att), country) /\ new.fetching = fetching /\ new.pc = att.pc
        /\ new.batch = att.batch
        /\ HomeExit(new) = HomeExit(att) /\ Wanted(new) = Wanted(att)
        /\ InTurn(new) <=> InTurn(att)
        /\ \A x : LeftOpen(new, x) <=> LeftOpen(att, x)
    BY <1>0, <1>2, OnlyFetching
  <1> HIDE DEF new
  <1>4. TurnSound'
    <2>1. att.pc # "done" /\ (Holds(new) <=> Holds(att))
      BY <1>1, <1>3 DEF Holds, Wanted
    <2> QED
      BY <1>0, <1>1, <1>3, <2>1, TurnKept DEF RegionInv
  <1>5. Counted'
    <2>1. Counted
      BY DEF RegionInv, UsesSound, Counted, Users
    <2> QED
      BY <1>0, <1>1, <1>3, <2>1, CountedMore DEF fetching
  <1>6. idle' \in [Exit -> BOOLEAN] /\ refused' \in BOOLEAN /\ untidy' \in BOOLEAN
    BY <1>1 DEF RegionInv, UsesSound, Rechecks
  <1>7. RegionInv'
    BY <1>0, <1>1, <1>3, <1>4, <1>5, <1>6, RegionKept DEF fetching
  <1>8. ASSUME Tidy, KeyHeld, ~untidy'
        PROVE  /\ ~refused' /\ new.pc # "pair"
               /\ new.pc \in {"rehome", "reother"} => new.fetching = {}
               /\ \A x \in Exit \ {Direct} : idle'[x] =>
                     LeftOpen(new, x) \/ \E b \in Attempt : b # a /\ LeftOpen(attempt[b], x)
    <2>1. new.pc \notin {"rehome", "reother"}
      BY <1>1, <1>3, <1>8 DEF Rechecks
    <2> QED
      BY <1>1, <1>3, <1>8, <2>1 DEF KeyHeld
  <1>9. KeyInv'
    BY <1>0, <1>1, <1>3, <1>8, KeyKept
  <1> QED
    BY <1>7, <1>9

(* An attempt is cancelled.                                                *)
LEMMA CancelKeeps ==
    ASSUME RegionInv, KeyInv, NEW a \in Attempt, Cancel(a)
    PROVE  RegionInv' /\ KeyInv'
  <1> DEFINE att == attempt[a]
             h == HomeExit(att)
             new == [att EXCEPT !.cancelled = TRUE]
  <1>0. /\ AttemptSound(att, h, country) /\ att.fetching \subseteq Wanted(att)
        /\ DOMAIN attempt = Attempt /\ att \in AttemptStates
    BY DEF RegionInv, AttemptsSound, UsesSound, AttemptSound
  <1>1. /\ att.pc \notin {"idle", "done"}
        /\ attempt' = [attempt EXCEPT ![a] = new] /\ using' = using /\ untidy' = TRUE
        /\ processor' = processor /\ host' = host /\ country' = country /\ idle' = idle /\ turn' = turn
        /\ refused' = refused
    BY <1>0 DEF Cancel
  <1> HIDE DEF att
  <1>2. /\ new \in AttemptStates /\ new.fetching = att.fetching /\ new.pc = att.pc
        /\ new.feed = att.feed /\ new.batch = att.batch
        /\ new.jobs = att.jobs /\ new.job = att.job
        /\ new.cancelled = TRUE /\ new.moved = att.moved
    BY <1>0 DEF AttemptStates
  <1> HIDE DEF new
  <1>3. HomeExit(new) = h /\ Wanted(new) = Wanted(att)
    BY <1>2 DEF HomeExit, Wanted, Job
  <1>4. AttemptSound(new, h, country)
    <2>1. JobsSound(new)
      BY <1>0, <1>2 DEF AttemptSound, JobsSound
    <2>2. \A j \in DOMAIN new.jobs :
             /\ JobSound(new.jobs[j], new, h, country)
             /\ new.pc # "done" => Placed(new.jobs[j], new, h, country)
      BY <1>0, <1>2 DEF AttemptSound, JobSound, Placed
    <2> QED
      BY <1>2, <2>1, <2>2 DEF AttemptSound
  <1>5. TurnSound'
    <2>1. Holds(new) <=> Holds(att)
      BY <1>2 DEF Holds
    <2> QED
      BY <1>0, <1>1, <1>2, <2>1, TurnKept DEF RegionInv, att
  <1>6. Counted'
    <2>1. Counted
      BY DEF RegionInv, UsesSound, Counted, Users
    <2> QED
      BY <1>0, <1>1, <1>2, <2>1, CountedSame DEF att
  <1>7. idle' \in [Exit -> BOOLEAN] /\ refused' \in BOOLEAN /\ untidy' \in BOOLEAN
    BY <1>1 DEF RegionInv, UsesSound
  <1>8. RegionInv'
    BY <1>0, <1>1, <1>2, <1>3, <1>4, <1>5, <1>6, <1>7, RegionKept
  <1>9. KeyInv'
    BY <1>1 DEF KeyInv
  <1> QED
    BY <1>8, <1>9

(* An idle connection times out.                                           *)
LEMMA IdleTimeoutKeeps ==
    ASSUME RegionInv, KeyInv, NEW e \in Exit, IdleTimeout(e)
    PROVE  RegionInv' /\ KeyInv'
  <1>1. /\ idle' = [idle EXCEPT ![e] = FALSE]
        /\ processor' = processor /\ host' = host /\ country' = country /\ using' = using /\ turn' = turn
        /\ attempt' = attempt /\ refused' = refused /\ untidy' = untidy
    BY DEF IdleTimeout
  <1>2. idle' \in [Exit -> BOOLEAN] /\ \A x \in Exit : idle'[x] => idle[x]
    BY <1>1 DEF RegionInv, UsesSound
  <1>3. ProcessorSound' /\ CountriesSound'
    BY <1>1 DEF RegionInv, ProcessorSound, CountriesSound
  <1>4. AttemptsSound'
    BY <1>1, Primed DEF RegionInv, AttemptsSound
  <1>5. TurnSound'
    BY <1>1, Primed DEF RegionInv, TurnSound
  <1>6. UsesSound'
    BY <1>1, <1>2, Primed DEF RegionInv, UsesSound
  <1>7. KeyInv'
    BY <1>1, <1>2, Primed DEF KeyInv
  <1> QED
    BY <1>1, <1>3, <1>4, <1>5, <1>6, <1>7 DEF RegionInv

(* An exit that moves: what was where is no longer known of who runs.      *)
LEMMA MovedSound ==
    ASSUME NEW att, NEW h, NEW at, NEW to, AttemptSound(att, h, at)
    PROVE  LET next == [att EXCEPT !.moved = @ \/ att.pc \notin {"idle", "done"}] IN
           /\ AttemptSound(next, h, to) /\ next.fetching = att.fetching
           /\ HomeExit(next) = HomeExit(att) /\ Wanted(next) = Wanted(att)
           /\ (InTurn(next) <=> InTurn(att)) /\ (Holds(next) <=> Holds(att))
           /\ next.pc = att.pc /\ \A x : LeftOpen(next, x) <=> LeftOpen(att, x)
  <1> DEFINE moved == att.moved \/ att.pc \notin {"idle", "done"}
             next == [att EXCEPT !.moved = @ \/ att.pc \notin {"idle", "done"}]
  <1>0. att \in AttemptStates
    BY DEF AttemptSound
  <1>1. next = [att EXCEPT !.moved = moved]
    OBVIOUS
  <1>2. moved \in BOOLEAN /\ (att.moved => moved) /\ (att.pc \notin {"idle", "done"} => moved)
    BY <1>0 DEF AttemptStates
  <1> HIDE DEF moved, next
  <1>3. /\ next \in AttemptStates /\ next.fetching = att.fetching /\ next.pc = att.pc
        /\ next.feed = att.feed /\ next.batch = att.batch
        /\ next.jobs = att.jobs /\ next.job = att.job
        /\ next.cancelled = att.cancelled /\ next.moved = moved
    BY <1>0, <1>1, <1>2 DEF AttemptStates
  <1>4. JobsSound(next)
    BY <1>3 DEF AttemptSound, JobsSound
  <1>5. ASSUME NEW j \in DOMAIN next.jobs
        PROVE  /\ JobSound(next.jobs[j], next, h, to)
               /\ next.pc # "done" => Placed(next.jobs[j], next, h, to)
    <2>1. JobSound(next.jobs[j], att, h, at)
      BY <1>3, <1>5 DEF AttemptSound
    <2>2. Apart(next.jobs[j], h, next.moved)
      BY <1>2, <1>3, <2>1 DEF JobSound, Apart
    <2>3. JobSound(next.jobs[j], next, h, to)
      BY <1>3, <2>1, <2>2 DEF JobSound
    <2>4. next.pc # "done" => next.moved
      <3>1. att.pc = "idle" => DOMAIN att.jobs = {}
        BY DEF AttemptSound, JobsSound
      <3> QED
        BY <1>2, <1>3, <1>5, <3>1
    <2> QED
      BY <2>3, <2>4 DEF Placed
  <1>6. HomeExit(next) = HomeExit(att) /\ Job(next) = Job(att)
    BY <1>3 DEF HomeExit, Job
  <1>7. Wanted(next) = Wanted(att)
    BY <1>3, <1>6 DEF Wanted
  <1>8. \A x : LeftOpen(next, x) <=> LeftOpen(att, x)
    BY <1>3, <1>6 DEF LeftOpen
  <1>9. (InTurn(next) <=> InTurn(att)) /\ (Holds(next) <=> Holds(att))
    BY <1>3, <1>6 DEF InTurn, Holds
  <1> QED
    BY <1>3, <1>4, <1>5, <1>6, <1>7, <1>8, <1>9 DEF AttemptSound, next

(* An exit moves.                                                          *)
LEMMA MoveKeeps ==
    ASSUME RegionInv, KeyInv, NEW e \in Exit, NEW to \in Countries[e], Move(e, to)
    PROVE  RegionInv' /\ KeyInv'
  <1> DEFINE Next1(a) == [attempt[a] EXCEPT !.moved = @ \/ attempt[a].pc \notin {"idle", "done"}]
  <1>1. /\ country' = [country EXCEPT ![e] = to] /\ attempt' = [a \in Attempt |-> Next1(a)]
        /\ processor' = processor /\ host' = host /\ using' = using /\ turn' = turn
        /\ idle' = idle /\ refused' = refused /\ untidy' = untidy
    BY DEF Move
  <1>2. \A a \in Attempt : attempt'[a] = Next1(a)
    BY <1>1
  <1>3. \A a \in Attempt : AttemptSound(attempt[a], HomeExit(attempt[a]), country)
    BY DEF RegionInv, AttemptsSound
  <1>4. ASSUME NEW a \in Attempt
        PROVE  /\ AttemptSound(attempt'[a], HomeExit(attempt'[a]), country')
               /\ attempt'[a].fetching = attempt[a].fetching
               /\ HomeExit(attempt'[a]) = HomeExit(attempt[a]) /\ Wanted(attempt'[a]) = Wanted(attempt[a])
               /\ (InTurn(attempt'[a]) <=> InTurn(attempt[a])) /\ (Holds(attempt'[a]) <=> Holds(attempt[a]))
               /\ attempt'[a].pc = attempt[a].pc
               /\ \A x : LeftOpen(attempt'[a], x) <=> LeftOpen(attempt[a], x)
    <2> DEFINE att == attempt[a]
               new == attempt'[a]
               where == country'
    <2>1. new = [att EXCEPT !.moved = @ \/ att.pc \notin {"idle", "done"}]
      BY <1>2
    <2>2. AttemptSound(att, HomeExit(att), country)
      BY <1>3
    <2> HIDE DEF att, new, where
    <2>3. /\ AttemptSound(new, HomeExit(att), where) /\ new.fetching = att.fetching
          /\ HomeExit(new) = HomeExit(att) /\ Wanted(new) = Wanted(att)
          /\ (InTurn(new) <=> InTurn(att)) /\ (Holds(new) <=> Holds(att))
          /\ new.pc = att.pc /\ \A x : LeftOpen(new, x) <=> LeftOpen(att, x)
      BY <2>1, <2>2, MovedSound
    <2> QED
      BY <2>3 DEF att, new, where
  <1>5. ProcessorSound' /\ CountriesSound'
    <2>1. to \in Places
      BY DEF Places
    <2> QED
      BY <1>1, <2>1 DEF RegionInv, ProcessorSound, CountriesSound
  <1>6. AttemptsSound'
    BY <1>1, <1>4, Primed DEF AttemptsSound
  <1>7. TurnSound'
    <2>1. \A a \in Attempt : Holds(attempt[a])' <=> Holds(attempt'[a])
      BY <1>1, Primed
    <2>2. TakesTurns' = TakesTurns
      BY <1>1, Primed
    <2>3. \A a \in Attempt : a \in turn' <=> TakesTurns' /\ Holds(attempt[a])'
      BY <1>1, <1>4, <2>1, <2>2 DEF RegionInv, TurnSound
    <2> QED
      BY <1>1, <2>3 DEF RegionInv, TurnSound
  <1>8. UsesSound'
    <2>1. \A x : Users(x)' = Users(x)
      BY <1>4 DEF Users
    <2>2. \A a \in Attempt : attempt'[a].fetching \subseteq Wanted(attempt[a])'
      <3>1. \A a \in Attempt : attempt'[a].fetching \subseteq Wanted(attempt'[a])
        BY <1>4 DEF RegionInv, UsesSound
      <3>2. \A a \in Attempt : Wanted(attempt[a])' = Wanted(attempt'[a])
        BY <1>1, Primed
      <3> QED
        BY <3>1, <3>2
    <2> QED
      BY <1>1, <2>1, <2>2 DEF RegionInv, UsesSound, Users
  <1>9. KeyInv'
    <2>1. \A a \in Attempt : /\ InTurn(attempt[a])' <=> InTurn(attempt[a])
                             /\ \A x : LeftOpen(attempt[a], x)' <=> LeftOpen(attempt[a], x)
      BY <1>1, <1>4, Primed
    <2>2. TakesTurns' = TakesTurns
      BY <1>1, Primed
    <2> QED
      BY <1>1, <1>4, <2>1, <2>2 DEF KeyInv
  <1> QED
    BY <1>1, <1>5, <1>6, <1>7, <1>8, <1>9 DEF RegionInv

(* A cancelled attempt no longer waits for the turn.                       *)
LEMMA GiveUpTurnKeeps ==
    ASSUME RegionInv, KeyInv, NEW a \in Attempt, GiveUpTurn(a)
    PROVE  RegionInv' /\ KeyInv'
  <1> DEFINE att == attempt[a]
             h == HomeExit(att)
             jobs == [j \in DOMAIN att.jobs |-> [att.jobs[j] EXCEPT !.outcome = Error]]
             new == GivenUp(att)
  <1>0. /\ AttemptSound(att, h, country) /\ att.fetching \subseteq Wanted(att)
        /\ DOMAIN attempt = Attempt /\ att \in AttemptStates
    BY DEF RegionInv, AttemptsSound, UsesSound, AttemptSound
  <1>1. /\ att.pc = "turn"
        /\ attempt' = [attempt EXCEPT ![a] = new] /\ using' = using /\ untidy' = untidy
        /\ processor' = processor /\ host' = host /\ country' = country /\ idle' = idle /\ turn' = turn
        /\ refused' = refused
    BY <1>0 DEF GiveUpTurn
  <1>2. new = [att EXCEPT !.pc = "done", !.jobs = jobs]
    BY DEF GivenUp
  <1> HIDE DEF att, h
  <1>3. \A j \in DOMAIN att.jobs :
           /\ jobs[j] \in JobStates /\ jobs[j].candidates = att.jobs[j].candidates
           /\ jobs[j].left = att.jobs[j].left /\ jobs[j].expected = att.jobs[j].expected
           /\ jobs[j].agreed = att.jobs[j].agreed /\ jobs[j].home = att.jobs[j].home
           /\ jobs[j].outcome = Error
    <2> TAKE j \in DOMAIN att.jobs
    <2>1. att.jobs[j] \in JobStates
      BY <1>0 DEF AttemptStates
    <2>2. jobs[j] = [att.jobs[j] EXCEPT !.outcome = Error]
      OBVIOUS
    <2> HIDE DEF jobs
    <2> QED
      BY <2>1, <2>2, ExtraTypes DEF JobStates
  <1>4. jobs \in Seq(JobStates) /\ Len(jobs) = Len(att.jobs) /\ DOMAIN jobs = DOMAIN att.jobs
    <2>1. att.jobs \in Seq(JobStates) /\ DOMAIN att.jobs = 1 .. Len(att.jobs) /\ Len(att.jobs) \in Nat
      BY <1>0 DEF AttemptStates
    <2>2. jobs = [j \in 1 .. Len(att.jobs) |-> jobs[j]]
      BY <2>1
    <2>3. \A j \in 1 .. Len(att.jobs) : jobs[j] \in JobStates
      BY <1>3, <2>1
    <2> HIDE DEF jobs
    <2> QED
      BY <2>1, <2>2, <2>3
  <1> HIDE DEF jobs, new
  <1>5. /\ new \in AttemptStates /\ new.fetching = att.fetching /\ new.pc = "done"
        /\ new.feed = att.feed /\ new.batch = att.batch /\ new.jobs = jobs /\ new.job = att.job
        /\ new.cancelled = att.cancelled /\ new.moved = att.moved
    BY <1>0, <1>2, <1>4 DEF AttemptStates
  <1>6. Same(new, att)
    BY <1>3, <1>4, <1>5 DEF Same
  <1>7. HomeExit(new) = h /\ (InTurn(new) <=> InTurn(att))
    BY <1>6, SameInTurn DEF h
  <1>8. AttemptSound(new, h, country)
    <2>1. \A j \in DOMAIN new.jobs : Over(new.jobs[j])
      BY <1>3, <1>4, <1>5, ExtraTypes DEF Over
    <2>2. JobsSound(new)
      BY <1>5, <2>1 DEF JobsSound, Running, Collecting, Comparing
    <2>3. \A j \in DOMAIN new.jobs : JobSound(new.jobs[j], new, h, country)
      <3> TAKE j \in DOMAIN new.jobs
      <3>1. JobSound(att.jobs[j], att, h, country)
        BY <1>0, <1>4, <1>5 DEF AttemptSound
      <3> QED
        BY <1>3, <1>4, <1>5, <3>1, ExtraTypes DEF JobSound, Judged, Apart
    <2> QED
      BY <1>5, <2>2, <2>3 DEF AttemptSound
  <1>9. new.fetching = {} /\ ~Holds(att)
    BY <1>0, <1>1, <1>5 DEF Wanted, Holds, Comparing
  <1>10. TurnSound'
    <2>1. turn' = turn \ {a}
      BY <1>1, <1>9 DEF RegionInv, TurnSound, att
    <2> QED
      BY <1>0, <1>1, <1>5, <2>1, TurnKept DEF RegionInv
  <1>11. Counted'
    <2>1. Counted
      BY DEF RegionInv, UsesSound, Counted, Users
    <2> QED
      BY <1>0, <1>1, <1>5, <2>1, CountedSame DEF att
  <1>12. idle' \in [Exit -> BOOLEAN] /\ refused' \in BOOLEAN /\ untidy' \in BOOLEAN
    BY <1>1 DEF RegionInv, UsesSound
  <1>13. RegionInv'
    BY <1>0, <1>1, <1>7, <1>8, <1>9, <1>10, <1>11, <1>12, RegionKept
  <1>14. \A x : ~LeftOpen(att, x)
    BY <1>9, WhoHolds
  <1>15. KeyInv'
    BY <1>0, <1>1, <1>5, <1>7, <1>14, KeyKept DEF KeyHeld, att
  <1> QED
    BY <1>13, <1>15

(* An attempt gets the turn.                                               *)
LEMMA TakeTurnKeeps ==
    ASSUME RegionInv, KeyInv, NEW a \in Attempt, TakeTurn(a)
    PROVE  RegionInv' /\ KeyInv'
  <1> DEFINE att == attempt[a]
             h == HomeExit(att)
             pc == IF att.batch THEN "check"
                   ELSE IF DownloadsInTurn(<<h, Head(Job(att).candidates)>>) THEN "home" ELSE "pair"
             new == [att EXCEPT !.pc = pc]
  <1>0. /\ AttemptSound(att, h, country) /\ att.fetching \subseteq Wanted(att)
        /\ DOMAIN attempt = Attempt /\ att \in AttemptStates
    BY DEF RegionInv, AttemptsSound, UsesSound, AttemptSound
  <1>1. /\ att.pc = "turn" /\ TurnFree
        /\ turn' = IF TakesTurns THEN turn \cup {a} ELSE turn
        /\ attempt' = [attempt EXCEPT ![a] = new] /\ using' = using /\ untidy' = untidy
        /\ processor' = processor /\ host' = host /\ country' = country /\ idle' = idle
        /\ refused' = refused
    BY <1>0 DEF TakeTurn
  <1>2. pc \in {"check", "home", "pair"} /\ (att.batch <=> pc = "check")
    OBVIOUS
  <1>3. pc = "pair" => ~DownloadsInTurn(<<h, Head(Job(att).candidates)>>)
    OBVIOUS
  <1> HIDE DEF att, h, pc
  <1>4. att.pc \in Running /\ att.pc \in Collecting /\ pc \in Running
    BY <1>1, <1>2 DEF Running, Collecting, Comparing
  <1>5. /\ Job(att) \in JobStates /\ Current(Job(att), "turn", att.batch) /\ Job(att) = att.jobs[att.job]
        /\ att.job \in DOMAIN att.jobs /\ JobsSound(att) /\ (~att.batch => DOMAIN att.jobs = {att.job})
    BY <1>0, <1>1, <1>4, CurrentJob
  <1>6. /\ new \in AttemptStates /\ new.fetching = att.fetching /\ new.pc = pc
        /\ new.feed = att.feed /\ new.batch = att.batch /\ new.jobs = att.jobs /\ new.job = att.job
        /\ new.cancelled = att.cancelled /\ new.moved = att.moved
    BY <1>0, <1>4 DEF AttemptStates
  <1> HIDE DEF new
  <1>7. Same(new, att)
    BY <1>6 DEF Same
  <1>8. HomeExit(new) = h /\ (InTurn(new) <=> InTurn(att))
    BY <1>7, SameInTurn DEF h
  <1>9. Current(Job(att), pc, att.batch)
    <2>1. pc = "check" => Fresh(Job(att))
      BY <1>2, <1>5 DEF Current
    <2>2. pc # "check" => Ready(Job(att)) /\ ~att.batch
      BY <1>2, <1>5 DEF Current
    <2>3. Ready(Job(att)) => PairSound(Job(att))
      BY DEF Ready, Unasked, PairSound
    <2> QED
      BY <1>2, <2>1, <2>2, <2>3 DEF Current
  <1>10. AttemptSound(new, h, country)
    <2>1. JobsSound(new)
      <3>1. new.pc \notin {"idle", "done"} /\ new.job \in DOMAIN new.jobs
        BY <1>2, <1>5, <1>6
      <3>2. Current(new.jobs[new.job], new.pc, new.batch)
        BY <1>5, <1>6, <1>9
      <3>3. ~new.batch => Len(new.jobs) = 1
        BY <1>4, <1>5, <1>6 DEF JobsSound
      <3>4. \A j \in DOMAIN new.jobs :
              /\ j < new.job => Lost(new.jobs[j]) \/ Waits(new.jobs[j])
              /\ j > new.job => Fresh(new.jobs[j])
        BY <1>4, <1>5, <1>6 DEF JobsSound
      <3>5. new.pc \in Comparing => \A j \in DOMAIN new.jobs : ~(j < new.job) /\ ~(j > new.job)
        <4>1. new.pc \in Comparing => ~att.batch
          BY <1>2, <1>6 DEF Comparing
        <4>2. att.job \in Nat
          BY <1>0 DEF AttemptStates
        <4> QED
          BY <1>5, <1>6, <4>1, <4>2
      <3> QED
        BY <3>1, <3>2, <3>3, <3>4, <3>5 DEF JobsSound
    <2>2. \A j \in DOMAIN new.jobs :
             JobSound(new.jobs[j], new, h, country) /\ Placed(new.jobs[j], new, h, country)
      BY <1>0, <1>1, <1>6 DEF AttemptSound, JobSound, Placed
    <2> QED
      BY <1>6, <2>1, <2>2 DEF AttemptSound
  <1>11. att.fetching = {} /\ ~Holds(att) /\ Holds(new)
    BY <1>0, <1>1, <1>2, <1>6 DEF Wanted, Holds, Comparing
  <1>12. TurnSound'
    <2>1. TakesTurns => turn = {}
      BY <1>1 DEF TurnFree
    <2>2. \A b \in Attempt : b \in turn' <=> TakesTurns /\ Holds(attempt'[b])
      <3> TAKE b \in Attempt
      <3>1. CASE b = a
        <4>1. attempt'[b] = new
          BY <1>0, <1>1, <3>1
        <4>2. a \notin turn
          BY <1>11 DEF RegionInv, TurnSound, att
        <4> QED
          BY <1>1, <1>11, <3>1, <4>1, <4>2
      <3>2. CASE b # a
        <4>1. attempt'[b] = attempt[b]
          BY <1>0, <1>1, <3>2
        <4> QED
          BY <1>1, <3>2, <4>1 DEF RegionInv, TurnSound
      <3> QED
        BY <3>1, <3>2
    <2>3. \A b \in Attempt : b \in turn' <=> TakesTurns' /\ Holds(attempt[b])'
      BY <1>1, <2>2, Primed
    <2>4. turn' \subseteq Attempt /\ \A b, c \in turn' : b = c
      BY <1>1, <2>1 DEF RegionInv, TurnSound
    <2> QED
      BY <2>3, <2>4 DEF TurnSound
  <1>13. Counted'
    <2>1. Counted
      BY DEF RegionInv, UsesSound, Counted, Users
    <2> QED
      BY <1>0, <1>1, <1>6, <2>1, CountedSame DEF att
  <1>14. idle' \in [Exit -> BOOLEAN] /\ refused' \in BOOLEAN /\ untidy' \in BOOLEAN
    BY <1>1 DEF RegionInv, UsesSound
  <1>15. RegionInv'
    BY <1>0, <1>1, <1>6, <1>8, <1>10, <1>11, <1>12, <1>13, <1>14, RegionKept
  <1>16. \A x : ~LeftOpen(att, x)
    BY <1>11, WhoHolds
  <1>17. InTurn(new) => new.pc # "pair"
    <2>1. SUFFICES ASSUME InTurn(att), pc = "pair"
                   PROVE  FALSE
      BY <1>6, <1>8
    <2>2. ~att.batch /\ Unasked(Job(att))
      BY <1>2, <1>5, <2>1 DEF Current, Ready
    <2>3. Job(att).candidates # <<>> /\ Head(Job(att).candidates) = Job(att).candidates[1]
      BY <1>5, <2>2 DEF Unasked, JobStates
    <2> QED
      BY <1>3, <1>5, <2>1, <2>2, <2>3 DEF InTurn, h
  <1>18. KeyInv'
    <2>1. Tidy /\ KeyHeld /\ ~untidy' /\ InTurn(new) =>
              /\ ~refused' /\ new.pc # "pair"
              /\ new.pc \in {"rehome", "reother"} => new.fetching = {}
              /\ \A e \in Exit \ {Direct} : idle'[e] =>
                    LeftOpen(new, e) \/ \E b \in Attempt : b # a /\ LeftOpen(attempt[b], e)
      BY <1>1, <1>2, <1>6, <1>16, <1>17 DEF KeyHeld, att
    <2> QED
      BY <1>0, <1>1, <1>8, <2>1, KeyKept DEF att
  <1> QED
    BY <1>15, <1>18

(* A job as the pipeline hands it over.                                    *)
LEMMA NewJobSound ==
    ASSUME NEW stated \in Nat
    PROVE  /\ NewJob(stated) \in JobStates /\ Fresh(NewJob(stated)) /\ NewJob(stated).expected = stated
           /\ ToSet(NewJob(stated).candidates) = {} /\ ToSet(NewJob(stated).left) = {}
           /\ ~Got(NewJob(stated).home) /\ ~Got(NewJob(stated).other)
  <1>1. NewJob(stated) \in JobStates
    BY ExtraTypes DEF NewJob, JobStates
  <1>2. Fresh(NewJob(stated)) /\ NewJob(stated).expected = stated
    BY DEF NewJob, Fresh
  <1>3. ToSet(<<>>) = {}
    BY DEF ToSet
  <1> QED
    BY <1>1, <1>2, <1>3, ExtraTypes DEF Fresh

(* The pipeline hands over an episode or a batch.                          *)
LEMMA StartKeeps ==
    ASSUME RegionInv, KeyInv, NEW a \in Attempt, NEW feed \in Feeds, NEW batch \in BOOLEAN,
           NEW n \in Nat \ {0}, batch \/ n = 1, Start(a, feed, batch, n)
    PROVE  RegionInv' /\ KeyInv'
  <1> DEFINE att == attempt[a]
             jobs == [j \in 1 .. n |-> NewJob(feed.stated)]
             pc == IF batch THEN "turn" ELSE "check"
             new == [Idle EXCEPT !.pc = pc, !.feed = feed, !.batch = batch, !.jobs = jobs]
             h == HomeExit(new)
  <1>0. /\ AttemptSound(att, HomeExit(att), country) /\ att.fetching \subseteq Wanted(att)
        /\ DOMAIN attempt = Attempt
    BY DEF RegionInv, AttemptsSound, UsesSound
  <1>1. /\ att.pc = "idle" /\ turn' = turn
        /\ attempt' = [attempt EXCEPT ![a] = new] /\ using' = using /\ untidy' = untidy
        /\ processor' = processor /\ host' = host /\ country' = country /\ idle' = idle
        /\ refused' = refused
    BY <1>0 DEF Start
  <1>2. feed.stated \in Nat
    BY RegionDiffAssumption
  <1>3. /\ jobs \in Seq(JobStates) /\ Len(jobs) = n /\ DOMAIN jobs = 1 .. n
        /\ \A j \in 1 .. n : jobs[j] = NewJob(feed.stated)
    BY <1>2, NewJobSound
  <1>4. pc \in {"turn", "check"} /\ pc \in Running /\ (batch <=> pc = "turn")
    BY DEF Running, Collecting
  <1> HIDE DEF att, jobs, pc
  <1>5. /\ new \in AttemptStates /\ new.fetching = {} /\ new.pc = pc
        /\ new.feed = feed /\ new.batch = batch /\ new.jobs = jobs /\ new.job = 1
        /\ new.cancelled = FALSE /\ new.moved = FALSE
    BY <1>3, <1>4 DEF AttemptStates, Idle
  <1> HIDE DEF new
  <1>6. AttemptSound(new, h, country)
    <2>1. JobsSound(new)
      <3>1. new.pc \notin {"idle", "done"} \cup Comparing /\ new.job \in DOMAIN new.jobs
        BY <1>3, <1>4, <1>5 DEF Comparing
      <3>2. \A j \in DOMAIN new.jobs : Fresh(new.jobs[j]) /\ ~(j < 1)
        BY <1>2, <1>3, <1>5, NewJobSound
      <3>3. Current(new.jobs[new.job], new.pc, new.batch)
        BY <1>4, <1>5, <3>1, <3>2 DEF Current
      <3>4. ~new.batch => Len(new.jobs) = 1
        BY <1>3, <1>5
      <3> QED
        BY <1>5, <3>1, <3>2, <3>3, <3>4 DEF JobsSound
    <2>2. ASSUME NEW j \in DOMAIN new.jobs
          PROVE  JobSound(new.jobs[j], new, h, country) /\ Placed(new.jobs[j], new, h, country)
      <3>1. new.jobs[j] = NewJob(feed.stated)
        BY <1>3, <1>5, <2>2
      <3>2. JobSound(NewJob(feed.stated), new, h, country)
        BY <1>2, <1>5, NewJobSound, ExtraTypes DEF JobSound, Judged, Apart, Fresh
      <3>3. Placed(NewJob(feed.stated), new, h, country)
        BY <1>2, NewJobSound DEF Placed, Located
      <3> QED
        BY <3>1, <3>2, <3>3
    <2> QED
      BY <1>5, <2>1, <2>2 DEF AttemptSound
  <1>7. att.fetching = {} /\ ~Holds(att) /\ ~Holds(new)
    BY <1>0, <1>1, <1>4, <1>5 DEF Wanted, Holds, Comparing
  <1>8. TurnSound'
    BY <1>0, <1>1, <1>4, <1>5, <1>7, TurnKept DEF RegionInv, att
  <1>9. Counted'
    <2>1. Counted
      BY DEF RegionInv, UsesSound, Counted, Users
    <2> QED
      BY <1>0, <1>1, <1>5, <1>7, <2>1, CountedSame DEF att
  <1>10. idle' \in [Exit -> BOOLEAN] /\ refused' \in BOOLEAN /\ untidy' \in BOOLEAN
    BY <1>1 DEF RegionInv, UsesSound
  <1>11. RegionInv'
    BY <1>0, <1>1, <1>5, <1>6, <1>8, <1>9, <1>10, RegionKept DEF h
  <1>12. InTurn(att)
    BY <1>0, <1>1 DEF InTurn, AttemptSound, JobsSound
  <1>13. \A x : ~LeftOpen(att, x)
    BY <1>7, WhoHolds
  <1>14. KeyInv'
    BY <1>0, <1>1, <1>4, <1>5, <1>12, <1>13, KeyKept DEF KeyHeld, att
  <1> QED
    BY <1>11, <1>14

(* The exits an episode is compared through come out elsewhere.            *)
LEMMA ElsewhereFound ==
    ASSUME ProcessorSound, NEW feed \in Feeds, NEW home, home = Pair(feed)[1]
    PROVE  LET Elsewhere(e) == Direct \in {home, e} \/ country[e] # country[home]
               listed == <<Pair(feed)[2]>> \o FallbacksFor(feed)
               others == Picked(listed, {i \in DOMAIN listed : Elsewhere(listed[i])})
           IN  /\ others \in Seq(Exit) /\ home \notin ToSet(others)
               /\ \A e \in ToSet(others) : Direct \in {e, home} \/ country[e] # country[home]
  <1> DEFINE Elsewhere(e) == Direct \in {home, e} \/ country[e] # country[home]
             listed == <<Pair(feed)[2]>> \o FallbacksFor(feed)
             rest == Exit \ {home}
             at == {i \in DOMAIN listed : Elsewhere(listed[i])}
             others == Picked(listed, at)
  <1>1. listed \in Seq(rest)
    <2>1. Pair(feed)[2] \in rest
      BY PairType
    <2>2. FallbacksFor(feed) \in Seq(rest)
      <3>1. FallbacksFor(feed) \in Seq(Exit \ {Pair(feed)[1], Pair(feed)[2]})
        BY PairType
      <3> QED
        BY <3>1
    <2> HIDE DEF rest
    <2> QED
      BY <2>1, <2>2
  <1>2. at \in SUBSET DOMAIN listed /\ \A i \in at : Elsewhere(listed[i])
    OBVIOUS
  <1> HIDE DEF listed, at, rest, Elsewhere
  <1>3. /\ others \in Seq(rest) /\ Len(others) = Cardinality(at) /\ Cardinality(at) \in Nat
        /\ \A k \in 1 .. Cardinality(at) : \E i \in at : others[k] = listed[i]
    BY <1>1, <1>2, PickedType
  <1> HIDE DEF others
  <1>4. \A k \in DOMAIN others : others[k] \in rest /\ Elsewhere(others[k])
    BY <1>2, <1>3
  <1>5. others \in Seq(Exit)
    BY <1>3 DEF rest
  <1>6. ToSet(others) \subseteq rest /\ \A e \in ToSet(others) : Elsewhere(e)
    BY <1>4 DEF ToSet
  <1> QED
    BY <1>5, <1>6 DEF others, listed, at, rest, Elsewhere

(* The exits in the home exit's country are left out.                      *)
LEMMA CheckCountriesKeeps ==
    ASSUME RegionInv, KeyInv, NEW a \in Attempt, CheckCountries(a)
    PROVE  RegionInv' /\ KeyInv'
  <1> DEFINE att == attempt[a]
             h == HomeExit(att)
             listed == <<Pair(att.feed)[2]>> \o FallbacksFor(att.feed)
             Elsewhere(e) == Direct \in {h, e} \/ country[e] # country[h]
             others == Picked(listed, {i \in DOMAIN listed : Elsewhere(listed[i])})
             old == Job(att)
             job == [old EXCEPT !.candidates = others, !.left = others]
             pc == IF att.batch THEN "home" ELSE "turn"
             set == Set(att, job, pc)
             step == IF others = <<>> THEN HomeFailed(att) ELSE Step(set, {})
  <1>0. /\ AttemptSound(att, h, country) /\ att.fetching \subseteq Wanted(att)
        /\ DOMAIN attempt = Attempt /\ att \in AttemptStates /\ att.feed \in Feeds /\ ProcessorSound
        /\ Counted
    BY DEF RegionInv, AttemptsSound, UsesSound, AttemptSound, AttemptStates, Counted, Users
  <1>1. /\ att.pc = "check" /\ Take(a, step, {})
        /\ processor' = processor /\ host' = host /\ country' = country /\ using' = using
        /\ refused' = refused /\ untidy' = untidy
    BY DEF CheckCountries
  <1>2. h = Pair(att.feed)[1]
    BY DEF HomeExit
  <1>3. /\ others \in Seq(Exit) /\ h \notin ToSet(others)
        /\ \A e \in ToSet(others) : Direct \in {e, h} \/ country[e] # country[h]
    BY <1>0, <1>2, ElsewhereFound
  <1> HIDE DEF others
  <1>4. pc \in {"home", "turn"} /\ (att.batch <=> pc = "home") /\ pc \in Running /\ pc \in Collecting
    BY DEF Running, Collecting
  <1> HIDE DEF pc, att, h
  <1>5. att.pc \in Running /\ att.pc \in Collecting
    BY <1>1 DEF Running, Collecting
  <1>6. /\ old \in JobStates /\ Fresh(old) /\ old = att.jobs[att.job] /\ JobSound(old, att, h, country)
        /\ att.job \in DOMAIN att.jobs /\ JobsSound(att) /\ (~att.batch => DOMAIN att.jobs = {att.job})
    BY <1>0, <1>1, <1>5, CurrentJob DEF Current
  <1>7. att.fetching = {}
    BY <1>0, <1>1 DEF Wanted
  <1>8. refused' \in BOOLEAN /\ untidy' \in BOOLEAN /\ idle' \in [Exit -> BOOLEAN]
    BY <1>1 DEF RegionInv, UsesSound, Take
  <1>9. CASE others = <<>>
    <2> DEFINE failed == HomeFailed(att)
               new == failed.attempt
    <2>1. Take(a, failed, {})
      BY <1>1, <1>9
    <2>2. /\ StepSound(failed, att, h, country) /\ new.pc \in {"check", "partner", "done"}
          /\ att.batch \/ new.pc = "done"
          /\ KeepsOpen(failed, att, {})
      BY <1>0, <1>1, HomeFailedSound DEF h
    <2> HIDE DEF failed
    <2>3. attempt' = [attempt EXCEPT ![a] = new]
      BY <2>1 DEF Take
    <2>4. Same(new, att) /\ (new.pc \in Comparing \cup {"done"} \/ (new.pc = "check" /\ att.batch))
      BY <2>2 DEF StepSound
    <2>5. Counted'
      BY <1>0, <1>1, <2>3, <2>4, CountedSame DEF Same, att
    <2>6. RegionInv'
      <3>1. Holds(att) \/ new.pc = "done"
        <4>1. att.batch => Holds(att)
          BY <1>1 DEF Holds
        <4>2. ~att.batch => new.pc = "done"
          BY <2>2
        <4> QED
          BY <4>1, <4>2
      <3>2. att.fetching \subseteq Wanted(failed.attempt)
        BY <1>7
      <3>3. StepSound(failed, att, HomeExit(att), country)
        BY <2>2 DEF h
      <3> QED
        BY <1>1, <1>8, <2>1, <2>5, <3>1, <3>2, <3>3, StepTaken DEF att
    <2>7. InTurn(new) <=> InTurn(att)
      BY <2>4, SameInTurn
    <2>8. ASSUME Tidy, KeyHeld
          PROVE  /\ ~refused' /\ new.pc # "pair"
                 /\ new.pc \in {"rehome", "reother"} => new.fetching = {}
                 /\ \A x \in Exit \ {Direct} : idle'[x] =>
                       LeftOpen(new, x) \/ \E b \in Attempt : b # a /\ LeftOpen(attempt[b], x)
      <3>1. \A x \in Exit : idle'[x] => idle[x] /\ x \notin failed.closed
        BY <2>1 DEF Take
      <3>2. \A x \in Exit : LeftOpen(att, x) /\ x \notin failed.closed => LeftOpen(new, x)
        BY <2>2 DEF KeepsOpen
      <3>3. \A x \in Exit \ {Direct} : idle[x] => \E b \in Attempt : LeftOpen(attempt[b], x)
        BY <2>8 DEF KeyHeld
      <3> QED
        BY <1>1, <2>2, <2>8, <3>1, <3>2, <3>3 DEF KeyHeld, att
    <2>9. KeyInv'
      <3> HIDE DEF new
      <3> QED
        BY <1>0, <1>1, <2>3, <2>7, <2>8, KeyKept DEF att
    <2> QED
      BY <2>6, <2>9
  <1>10. CASE others # <<>>
    <2> HIDE DEF old
    <2>1. /\ job \in JobStates /\ job.candidates = others /\ job.left = others
          /\ job.home = old.home /\ job.expected = old.expected /\ job.other = old.other
          /\ job.agreed = old.agreed /\ job.outcome = old.outcome /\ job.failed = old.failed
      BY <1>3, <1>6 DEF JobStates
    <2> HIDE DEF job
    <2>2. Ready(job)
      BY <1>6, <1>10, <2>1 DEF Fresh, Ready, Unasked
    <2>3. JobSound(job, att, h, country)
      BY <1>3, <1>6, <2>1, ExtraTypes DEF JobSound, Judged, Apart, Fresh
    <2>4. Placed(job, att, h, country)
      BY <1>3, <2>1, <2>2, ExtraTypes DEF Placed, Located, Ready, Unasked
    <2>5. Take(a, Step(set, {}), {})
      BY <1>1, <1>10
    <2>6. /\ set \in AttemptStates /\ set.pc = pc /\ set.feed = att.feed
          /\ set.batch = att.batch /\ set.job = att.job
          /\ set.fetching = att.fetching /\ set.cancelled = att.cancelled /\ set.moved = att.moved
          /\ Len(set.jobs) = Len(att.jobs) /\ DOMAIN set.jobs = DOMAIN att.jobs
          /\ set.jobs[att.job] = job
          /\ \A j \in DOMAIN att.jobs : j # att.job => set.jobs[j] = att.jobs[j]
      BY <1>0, <1>4, <1>6, <2>1, SetType
    <2> HIDE DEF set
    <2>7. /\ attempt' = [attempt EXCEPT ![a] = set]
          /\ turn' = IF set.pc = "done" THEN turn \ {a} ELSE turn
          /\ \A x \in Exit : idle'[x] => idle[x]
      BY <2>5, StepFields DEF Take
    <2>8. HomeExit(set) = h
      BY <2>6 DEF HomeExit, h
    <2>9. AttemptSound(set, h, country)
      <3>1. JobsSound(set)
        <4>1. set.pc \notin {"idle", "done"} \cup Comparing /\ set.job \in DOMAIN set.jobs
          BY <1>4, <1>6, <2>6 DEF Comparing
        <4>2. Current(set.jobs[set.job], set.pc, set.batch)
          BY <1>4, <2>2, <2>6 DEF Current
        <4>3. ~set.batch => Len(set.jobs) = 1
          BY <1>5, <1>6, <2>6 DEF JobsSound
        <4>4. \A j \in DOMAIN set.jobs :
              /\ j < set.job => Lost(set.jobs[j]) \/ Waits(set.jobs[j])
              /\ j > set.job => Fresh(set.jobs[j])
          <5> TAKE j \in DOMAIN set.jobs
          <5>0. att.job \in Nat /\ j \in Nat
            BY <1>0, <1>6, <2>6 DEF AttemptStates
          <5>1. CASE j = att.job
            BY <2>6, <5>0, <5>1
          <5>2. CASE j # att.job
            BY <1>5, <1>6, <2>6, <5>2 DEF JobsSound
          <5> QED
            BY <5>1, <5>2
        <4> QED
          BY <4>1, <4>2, <4>3, <4>4 DEF JobsSound
      <3>2. ASSUME NEW j \in DOMAIN set.jobs
            PROVE  JobSound(set.jobs[j], set, h, country) /\ Placed(set.jobs[j], set, h, country)
        <4>1. JobSound(set.jobs[j], att, h, country) /\ Placed(set.jobs[j], att, h, country)
          BY <1>0, <1>1, <2>3, <2>4, <2>6, <3>2 DEF AttemptSound
        <4> QED
          BY <2>6, <4>1 DEF JobSound, Placed
      <3> QED
        BY <2>6, <3>1, <3>2 DEF AttemptSound
    <2>10. Holds(set) <=> Holds(att)
      BY <1>1, <1>4, <2>6 DEF Holds, Comparing
    <2>11. TurnSound'
      BY <1>0, <1>1, <2>7, <2>10, TurnKept DEF RegionInv, att
    <2>12. Counted'
      BY <1>0, <1>1, <2>6, <2>7, CountedSame DEF att
    <2>13. RegionInv'
      BY <1>1, <1>7, <1>8, <2>6, <2>7, <2>8, <2>9, <2>11, <2>12, RegionKept
    <2>14. InTurn(set) => InTurn(att)
      <3>1. SUFFICES ASSUME InTurn(set), NEW j \in DOMAIN att.jobs
                     PROVE  \/ att.jobs[j].candidates = <<>> \/ att.batch
                            \/ DownloadsInTurn(<<h, att.jobs[j].candidates[1]>>)
        BY DEF InTurn, h
      <3>2. CASE j = att.job
        BY <1>6, <3>2 DEF Fresh, old
      <3>3. CASE j # att.job
        BY <2>6, <2>8, <3>1, <3>3 DEF InTurn
      <3> QED
        BY <3>2, <3>3
    <2>15. ASSUME NEW x, LeftOpen(att, x)
           PROVE  LeftOpen(set, x)
      <3>1. att.batch /\ x = h /\ \E j \in DOMAIN att.jobs : Got(att.jobs[j].home)
        BY <1>1, <2>15 DEF LeftOpen, h
      <3>2. PICK j \in DOMAIN att.jobs : Got(att.jobs[j].home)
        BY <3>1
      <3>3. j # att.job
        BY <1>6, <3>2, ExtraTypes DEF Fresh, old
      <3>4. \E k \in DOMAIN set.jobs : Got(set.jobs[k].home)
        BY <2>6, <3>2, <3>3
      <3> QED
        BY <1>4, <2>6, <2>8, <3>1, <3>4 DEF LeftOpen
    <2>16. ASSUME Tidy, KeyHeld
           PROVE  /\ ~refused' /\ set.pc # "pair"
                  /\ set.pc \in {"rehome", "reother"} => set.fetching = {}
                  /\ \A x \in Exit \ {Direct} : idle'[x] =>
                        LeftOpen(set, x) \/ \E b \in Attempt : b # a /\ LeftOpen(attempt[b], x)
      <3>1. \A x \in Exit \ {Direct} : idle[x] => \E b \in Attempt : LeftOpen(attempt[b], x)
        BY <2>16 DEF KeyHeld
      <3> QED
        BY <1>1, <1>4, <2>6, <2>7, <2>15, <2>16, <3>1 DEF KeyHeld, att
    <2>17. KeyInv'
      BY <1>0, <1>1, <2>7, <2>14, <2>16, KeyKept DEF att
    <2> QED
      BY <2>13, <2>17
  <1> QED
    BY <1>9, <1>10

(* The invariant holds at first.                                           *)
LEMMA InitSound ==
    ASSUME Init
    PROVE  RegionInv /\ KeyInv
  <1>1. /\ country \in [Exit -> Places] /\ \A e \in Exit : country[e] \in Countries[e]
        /\ using = [e \in Exit |-> 0] /\ idle = [e \in Exit |-> FALSE] /\ turn = {}
        /\ attempt = [a \in Attempt |-> Idle] /\ refused = FALSE /\ untidy = FALSE
    BY DEF Init, Places
  <1>2. ProcessorSound
    BY DEF Init, ProcessorSound
  <1>3. Idle.pc = "idle" /\ Idle.jobs = <<>> /\ Idle.fetching = {} /\ Idle \in AttemptStates
    <2>1. (CHOOSE f \in Feeds : TRUE) \in Feeds
      BY RegionDiffAssumption
    <2> DEFINE feed == CHOOSE f \in Feeds : TRUE
    <2>2. feed \in Feeds
      BY <2>1
    <2>3. Idle = [pc |-> "idle", feed |-> feed, batch |-> FALSE, jobs |-> <<>>,
                  job |-> 1, fetching |-> {}, cancelled |-> FALSE, moved |-> FALSE]
      BY DEF Idle
    <2> HIDE DEF feed
    <2> QED
      BY <2>2, <2>3 DEF AttemptStates
  <1>4. \A h, at : AttemptSound(Idle, h, at)
    <2>1. DOMAIN Idle.jobs = {}
      BY <1>3
    <2> QED
      BY <1>3, <2>1 DEF AttemptSound, JobsSound, Running, Collecting, Comparing
  <1>5. CountriesSound /\ AttemptsSound
    BY <1>1, <1>4 DEF CountriesSound, AttemptsSound
  <1>6. TurnSound
    <2>1. ~Holds(Idle)
      BY <1>3 DEF Holds, Comparing
    <2> QED
      BY <1>1, <2>1 DEF TurnSound
  <1>7. UsesSound
    <2>1. \A e : {a \in Attempt : e \in attempt[a].fetching} = {}
      BY <1>1, <1>3
    <2>2. \A a \in Attempt : attempt[a].fetching \subseteq Wanted(attempt[a])
      BY <1>1, <1>3
    <2> QED
      BY <1>1, <2>1, <2>2, FS_EmptySet DEF UsesSound
  <1>8. KeyInv
    BY <1>1, <1>3 DEF KeyInv
  <1> QED
    BY <1>2, <1>5, <1>6, <1>7, <1>8 DEF RegionInv, Init

(* And while nothing happens.                                              *)
LEMMA UnchangedKeeps ==
    ASSUME RegionInv, KeyInv, UNCHANGED vars
    PROVE  RegionInv' /\ KeyInv'
  <1>1. /\ processor' = processor /\ host' = host /\ country' = country /\ using' = using
        /\ idle' = idle /\ turn' = turn /\ attempt' = attempt /\ refused' = refused /\ untidy' = untidy
    BY DEF vars
  <1>2. ProcessorSound' /\ CountriesSound'
    BY <1>1 DEF RegionInv, ProcessorSound, CountriesSound
  <1>3. AttemptsSound'
    BY <1>1, Primed DEF RegionInv, AttemptsSound
  <1>4. TurnSound'
    BY <1>1, Primed DEF RegionInv, TurnSound
  <1>5. UsesSound'
    BY <1>1, Primed DEF RegionInv, UsesSound
  <1>6. KeyInv'
    BY <1>1, Primed DEF KeyInv
  <1> QED
    BY <1>1, <1>2, <1>3, <1>4, <1>5, <1>6 DEF RegionInv

(* And every step keeps it.                                                *)
LEMMA NextKeeps ==
    ASSUME RegionInv, KeyInv, [Next]_vars
    PROVE  RegionInv' /\ KeyInv'
  <1>1. CASE UNCHANGED vars
    BY <1>1, UnchangedKeeps
  <1>2. ASSUME NEW a \in Attempt, NEW feed \in Feeds, Start(a, feed, FALSE, 1)
        PROVE  RegionInv' /\ KeyInv'
    <2>1. 1 \in Nat \ {0} /\ FALSE \in BOOLEAN
      OBVIOUS
    <2> QED
      BY <1>2, <2>1, StartKeeps
  <1>3. ASSUME NEW a \in Attempt, NEW feed \in Feeds, NEW n \in 2 .. BatchSize, Start(a, feed, TRUE, n)
        PROVE  RegionInv' /\ KeyInv'
    <2>1. n \in Nat \ {0}
      BY RegionDiffAssumption
    <2> QED
      BY <1>3, <2>1, StartKeeps
  <1>4. ASSUME NEW a \in Attempt,
               CheckCountries(a) \/ TakeTurn(a) \/ GiveUpTurn(a) \/ Compare(a) \/ Cancel(a)
        PROVE  RegionInv' /\ KeyInv'
    BY <1>4, CheckCountriesKeeps, TakeTurnKeeps, GiveUpTurnKeeps, CompareKeeps, CancelKeeps
  <1>5. ASSUME NEW a \in Attempt, NEW e \in Exit,
               \/ Connect(a, e) \/ ConnectFails(a, e) \/ FetchFails(a, e) \/ FallbackTooSlow(a, e)
               \/ \E content \in Content : Arrives(a, e, content)
        PROVE  RegionInv' /\ KeyInv'
    BY <1>5, ConnectKeeps, ConnectFailsKeeps, FetchFailsKeeps, FallbackTooSlowKeeps, ArrivesKeeps
  <1>6. ASSUME NEW e \in Exit, IdleTimeout(e) \/ \E to \in Countries[e] : Move(e, to)
        PROVE  RegionInv' /\ KeyInv'
    BY <1>6, IdleTimeoutKeeps, MoveKeeps
  <1> QED
    BY <1>1, <1>2, <1>3, <1>4, <1>5, <1>6 DEF Next

(* The invariant holds of every reachable state of the attempts (Process,  *)
(* ProcessBatch, oneAtATime).                                              *)
THEOREM RegionDiffInvariant == Spec => [](RegionInv /\ KeyInv)
  <1>1. RegionInv /\ KeyInv /\ [Next]_vars => (RegionInv /\ KeyInv)'
    BY NextKeeps
  <1> QED
    BY <1>1, InitSound, PTL DEF Spec

-----------------------------------------------------------------------------
(* An attempt that downloads has the turn, where turns are taken.          *)
LEMMA OneDownloads ==
    ASSUME RegionInv, TakesTurns
    PROVE  Cardinality({a \in Attempt : attempt[a].fetching # {}}) <= 1
  <1> DEFINE busy == {a \in Attempt : attempt[a].fetching # {}}
  <1>1. ASSUME NEW a \in busy
        PROVE  a \in turn
    <2>1. a \in Attempt /\ attempt[a].fetching # {} /\ attempt[a].fetching \subseteq Wanted(attempt[a])
      BY DEF RegionInv, UsesSound
    <2>2. Holds(attempt[a])
      BY <2>1 DEF Wanted, Holds, Comparing
    <2> QED
      BY <2>1, <2>2 DEF RegionInv, TurnSound
  <1>2. \A a, b \in busy : a = b
    BY <1>1 DEF RegionInv, TurnSound
  <1>3. CASE busy = {}
    BY <1>3, FS_EmptySet
  <1>4. CASE busy # {}
    <2>1. PICK a \in busy : TRUE
      BY <1>4
    <2>2. busy = {a}
      BY <1>2, <2>1
    <2>3. Cardinality({a}) = 1
      BY FS_Singleton
    <2> QED
      BY <2>2, <2>3
  <1> QED
    BY <1>3, <1>4

(* Every variable has its type, an exit is in use by those that download   *)
(* through it, whoever is done has an outcome for each episode, and where  *)
(* turns are taken one attempt downloads at a time (oneAtATime).           *)
THEOREM RegionDiffTypeOK == Spec => []TypeOK
  <1>1. ASSUME RegionInv
        PROVE  TypeOK
    <2>1. \A e \in Exit : /\ country[e] \in Countries[e] /\ idle[e] \in BOOLEAN
                          /\ using[e] = Cardinality({a \in Attempt : e \in attempt[a].fetching})
      BY <1>1 DEF RegionInv, CountriesSound, UsesSound
    <2>2. turn \subseteq Attempt /\ {refused, untidy} \subseteq BOOLEAN
      BY <1>1 DEF RegionInv, TurnSound, UsesSound
    <2>3. ASSUME NEW a \in Attempt
          PROVE  /\ attempt[a].fetching \subseteq Wanted(attempt[a])
                 /\ attempt[a].pc \in {"idle", "check", "turn", "home", "pair", "partner", "rehome",
                                       "reother", "compare", "fallback", "done"}
                 /\ attempt[a].pc = "done" =>
                        \A j \in DOMAIN attempt[a].jobs : attempt[a].jobs[j].outcome # Pending
      <3>1. attempt[a].fetching \subseteq Wanted(attempt[a])
        BY <1>1 DEF RegionInv, UsesSound
      <3>2. attempt[a] \in AttemptStates /\ JobsSound(attempt[a])
        BY <1>1 DEF RegionInv, AttemptsSound, AttemptSound
      <3>3. attempt[a].pc \in Running \cup {"idle", "done"}
        BY <3>2 DEF AttemptStates
      <3> QED
        BY <3>1, <3>2, <3>3 DEF Running, Collecting, Comparing, JobsSound, Over
    <2> QED
      BY <1>1, <2>1, <2>2, <2>3, OneDownloads DEF TypeOK
  <1> QED
    BY <1>1, RegionDiffInvariant, PTL

(* A job that has an outcome is over.                                      *)
LEMMA OutcomeMeansOver ==
    ASSUME RegionInv, NEW a \in Attempt, NEW j \in DOMAIN attempt[a].jobs,
           attempt[a].jobs[j].outcome # Pending
    PROVE  Over(attempt[a].jobs[j])
  <1> DEFINE att == attempt[a]
             job == att.jobs[j]
  <1>1. att \in AttemptStates /\ JobsSound(att)
    BY DEF RegionInv, AttemptsSound, AttemptSound
  <1>2. att.pc \in Running \cup {"idle", "done"} /\ att.job \in Nat /\ j \in Nat
    BY <1>1 DEF AttemptStates
  <1> HIDE DEF att
  <1>3. CASE att.pc = "done"
    BY <1>1, <1>3 DEF JobsSound, att
  <1>4. CASE att.pc = "idle"
    <2>1. att.jobs = <<>>
      BY <1>1, <1>4 DEF JobsSound
    <2> QED
      BY <2>1 DEF att
  <1>5. CASE att.pc \in Running
    <2>1. /\ att.job \in DOMAIN att.jobs /\ Current(att.jobs[att.job], att.pc, att.batch)
          /\ att.pc \in Collecting \/ att.pc \in Comparing
          /\ job.outcome # Pending /\ j \in DOMAIN att.jobs
      BY <1>1, <1>5 DEF JobsSound, Running, att
    <2>2. CASE j = att.job
      <3>1. att.pc \in {"check", "turn", "home", "pair", "partner", "rehome", "reother", "compare", "fallback"}
        BY <2>1 DEF Collecting, Comparing
      <3> QED
        BY <2>1, <2>2, <3>1
           DEF Current, Fresh, Ready, Unasked, PairSound, PartnerSound, BothSound, FallbackSound
    <2>3. CASE j # att.job
      <3>1. j < att.job \/ j > att.job
        BY <1>2, <2>3
      <3>2. Lost(job) \/ Waits(job) \/ Fresh(job) \/ Over(job)
        BY <1>1, <2>1, <3>1 DEF JobsSound
      <3> QED
        BY <2>1, <3>2 DEF Lost, Waits, Unasked, Fresh, att
    <2> QED
      BY <2>2, <2>3
  <1> QED
    BY <1>2, <1>3, <1>4, <1>5

(* A published job: one of an attempt, over, and what is known of it.      *)
LEMMA JobIsSound ==
    ASSUME RegionInv, NEW r \in Jobs
    PROVE  /\ r.attempt \in AttemptStates /\ r.job \in JobStates
           /\ JobSound(r.job, r.attempt, HomeExit(r.attempt), country)
           /\ r.job.outcome # Pending => Over(r.job)
  <1>1. PICK a \in Attempt : \E j \in DOMAIN attempt[a].jobs :
                r = [job |-> attempt[a].jobs[j], attempt |-> attempt[a]]
    BY DEF Jobs
  <1>2. PICK j \in DOMAIN attempt[a].jobs : r = [job |-> attempt[a].jobs[j], attempt |-> attempt[a]]
    BY <1>1
  <1>3. r.job = attempt[a].jobs[j] /\ r.attempt = attempt[a]
    BY <1>2
  <1>4. AttemptSound(attempt[a], HomeExit(attempt[a]), country)
    BY DEF RegionInv, AttemptsSound
  <1>5. /\ attempt[a] \in AttemptStates
        /\ JobSound(attempt[a].jobs[j], attempt[a], HomeExit(attempt[a]), country)
    BY <1>4 DEF AttemptSound
  <1>6. attempt[a].jobs[j] \in JobStates
    BY <1>5 DEF AttemptStates
  <1>7. attempt[a].jobs[j].outcome # Pending => Over(attempt[a].jobs[j])
    BY OutcomeMeansOver
  <1> QED
    BY <1>3, <1>5, <1>6, <1>7

(* An episode is declared free of ads only when everyone it could be       *)
(* compared through agreed, failed or was too slow, somebody agreed, and   *)
(* the two downloads came from two countries (inDifferentCountries,        *)
(* compareWithFallbacks).                                                  *)
THEOREM RegionDiffAgreedAcrossRegions == Spec => []AgreedAcrossRegions
  <1>1. ASSUME RegionInv
        PROVE  AgreedAcrossRegions
    <2>1. SUFFICES ASSUME NEW r \in Jobs, r.job.outcome.kind = "identical"
                   PROVE  LET exits == {x[1] : x \in r.job.agreed} IN
                          /\ exits # {} /\ exits \cup r.job.failed = ToSet(r.job.candidates)
                          /\ \A x \in r.job.agreed :
                                Direct \in {x[1], HomeExit(r.attempt)} \/ r.attempt.moved
                                    \/ x[2] # r.job.home.country
      BY DEF AgreedAcrossRegions
    <2>2. r.job.outcome # Pending
      BY <2>1, ExtraTypes
    <2>3. Over(r.job) /\ JobSound(r.job, r.attempt, HomeExit(r.attempt), country)
      BY <1>1, <2>1, <2>2, JobIsSound
    <2>4. r.job.agreed # {} /\ Tried(r.job) = ToSet(r.job.candidates)
      BY <2>1, <2>3 DEF Over
    <2>5. Apart(r.job, HomeExit(r.attempt), r.attempt.moved)
      BY <2>3 DEF JobSound
    <2>6. {x[1] : x \in r.job.agreed} # {}
      BY <2>4
    <2> QED
      BY <2>4, <2>5, <2>6 DEF Tried, Exits, Apart
  <1> QED
    BY <1>1, RegionDiffInvariant, PTL

(* "In turn, only one tunnel is needed at a time, so one VPN key is        *)
(* enough" (processor.go): no attempt finds every tunnel taken while       *)
(* attempts take turns and download in turn, and nothing fails.            *)
THEOREM RegionDiffOneKeyIsEnough == Spec => []OneKeyIsEnough
  <1>1. ASSUME RegionInv, KeyInv
        PROVE  OneKeyIsEnough
    <2>1. SUFFICES ASSUME TakesTurns, ~untidy,
                          \A r \in Jobs : r.job.candidates = <<>> \/ r.attempt.batch
                             \/ DownloadsInTurn(<<HomeExit(r.attempt), r.job.candidates[1]>>)
                   PROVE  ~refused
      BY DEF OneKeyIsEnough
    <2>2. ASSUME NEW a \in Attempt, NEW j \in DOMAIN attempt[a].jobs
          PROVE  \/ attempt[a].jobs[j].candidates = <<>> \/ attempt[a].batch
                 \/ DownloadsInTurn(<<HomeExit(attempt[a]), attempt[a].jobs[j].candidates[1]>>)
      <3> DEFINE r == [job |-> attempt[a].jobs[j], attempt |-> attempt[a]]
      <3>1. r \in Jobs
        BY DEF Jobs
      <3>2. r.job = attempt[a].jobs[j] /\ r.attempt = attempt[a]
        OBVIOUS
      <3> HIDE DEF r
      <3>3. \/ r.job.candidates = <<>> \/ r.attempt.batch
            \/ DownloadsInTurn(<<HomeExit(r.attempt), r.job.candidates[1]>>)
        BY <2>1, <3>1
      <3> QED
        BY <3>2, <3>3
    <2>3. \A a \in Attempt : InTurn(attempt[a])
      BY <2>2 DEF InTurn
    <2> QED
      BY <1>1, <2>1, <2>3 DEF KeyInv
  <1> QED
    BY <1>1, RegionDiffInvariant, PTL

-----------------------------------------------------------------------------
(* A job's cut is the comparison's of the downloads it has: what the       *)
(* comparison promises of two downloads holds of it.                       *)
CutSafe(j) == ShowStays(j) /\ OnlySharedStays(j) /\ Decodes(j)

LEMMA SameDownloadsSameCut ==
    ASSUME NEW i, NEW j, i.home.content = j.home.content, i.other.content = j.other.content,
           i.outcome = j.outcome, CutSafe(i)
    PROVE  CutSafe(j)
  <1>1. Audio(i.home) = Audio(j.home) /\ Audio(i.other) = Audio(j.other)
    BY DEF Audio
  <1>2. ShowStays(j)
    BY <1>1 DEF CutSafe, ShowStays, ShowIn
  <1>3. OnlySharedStays(j)
    BY <1>1 DEF CutSafe, OnlySharedStays
  <1>4. Decodes(j)
    BY <1>1 DEF CutSafe, Decodes
  <1> QED
    BY <1>2, <1>3, <1>4 DEF CutSafe

(* The options of a feed are those of a block of the configuration.        *)
LEMMA OptionsOfBlock ==
    ASSUME ProcessorSound, NEW feed \in Feeds
    PROVE  OptionsFor(processor, feed) \in {OptionsFor(b, f) : b \in Blocks, f \in Feeds}
  <1>1. PICK block \in Blocks : processor = Setup(block)
    BY DEF ProcessorSound
  <1>2. block \in [exits : Seq(ToSet(block.exits)), fallbacks : Seq(ToSet(block.fallbacks)),
                tunnels : Nat \ {0}, pairDownloads : {"auto", "together", "in_turn"},
                enabled : BOOLEAN, options : Options]
    BY RegionDiffAssumption DEF Options
  <1>3. processor.options = block.options
    BY <1>1, <1>2 DEF Setup
  <1>4. OptionsFor(processor, feed) = OptionsFor(block, feed)
    BY <1>3 DEF OptionsFor
  <1> QED
    BY <1>4

(* What the comparison promises of two downloads.                          *)
LEMMA VerdictSafe ==
    ASSUME NEW home, NEW other, NEW expected, NEW options,
           ComparisonSound(home, other, expected, options),
           NEW verdict \in VerdictTable[home, other, expected, options], verdict.kind \in {"cut", "whole"}
    PROVE  CutSafe([home |-> [content |-> home], other |-> [content |-> other], outcome |-> verdict])
  BY Zenon DEF ComparisonSound, CutSafe

(* And so of a job that has them.                                          *)
LEMMA JudgedSafe ==
    ASSUME ComparisonsSound, RegionInv, NEW feed \in Feeds, NEW job \in JobStates,
           job.expected = feed.stated, Judged(job, OptionsFor(processor, feed)),
           job.outcome.kind \in {"cut", "whole"}
    PROVE  CutSafe(job)
  <1> DEFINE home == job.home.content
             other == job.other.content
             options == OptionsFor(processor, feed)
             same == [home |-> [content |-> home], other |-> [content |-> other], outcome |-> job.outcome]
  <1>1. Got(job.home) /\ Got(job.other)
    BY DEF Judged
  <1>2. job.outcome \in VerdictTable[home, other, job.expected, options]
    BY Zenon DEF Judged
  <1>3. job.home \in Downloads /\ job.other \in Downloads
    BY DEF JobStates
  <1>4. home \in Sent /\ other \in Sent
    BY <1>1, <1>3, RegionDiffAssumption DEF Downloads, Got
  <1>5. host \in Hosts /\ options \in {OptionsFor(b, f) : b \in Blocks, f \in Feeds}
    BY OptionsOfBlock DEF RegionInv
  <1>6. job.expected \in {f.stated : f \in Feeds}
    OBVIOUS
  <1>7. same.home.content = home /\ same.other.content = other /\ same.outcome = job.outcome
    OBVIOUS
  <1> HIDE DEF options, home, other
  <1>8. CutSafe(same)
    <2>1. home \in SentBy(host) /\ other \in SentBy(host)
      BY <1>4 DEF Sent
    <2>2. ComparisonSound(home, other, job.expected, options)
      BY <1>5, <1>6, <2>1 DEF ComparisonsSound
    <2> QED
      BY <1>2, <2>2, VerdictSafe, Zenon
  <1> HIDE DEF same
  <1> QED
    BY <1>7, <1>8, SameDownloadsSameCut DEF home, other

(* A cut that is published is a verdict of comparing the very two          *)
(* downloads the job has in the end, with the feed's options and stated    *)
(* duration: never one of a download that a recheck or a fallback has      *)
(* replaced (finishPair, compareWithFallbacks).                            *)
THEOREM RegionDiffCutsAreVerdicts ==
    Spec => [](\A r \in Jobs : Judged(r.job, OptionsFor(processor, r.attempt.feed)))
  <1>1. ASSUME RegionInv
        PROVE  \A r \in Jobs : Judged(r.job, OptionsFor(processor, r.attempt.feed))
    BY <1>1, JobIsSound DEF JobSound
  <1> QED
    BY <1>1, RegionDiffInvariant, PTL

(* What is handed to the cache keeps the show, loses what only the home    *)
(* region plays and decodes, or is the whole of the audio, whatever was    *)
(* downloaded twice, cancelled, batched or compared again on the way: as   *)
(* far as the comparison of two of the host's downloads keeps its promise. *)
THEOREM RegionDiffCutsSound ==
    ASSUME ComparisonsSound
    PROVE  Spec => []CutsSound
  <1>1. ASSUME RegionInv
        PROVE  CutsSound
    <2>1. SUFFICES ASSUME NEW r \in Jobs
                   PROVE  /\ r.job.outcome.kind \in {"cut", "whole"} => CutSafe(r.job)
                          /\ r.job.outcome.kind = "empty" => r.attempt.cancelled
                          /\ r.job.outcome.kind = "identical" /\ r.job.outcome.kept = {} =>
                                Audio(r.job.home) = <<>>
      BY DEF CutsSound, CutSafe
    <2>2. /\ r.attempt \in AttemptStates /\ r.job \in JobStates
          /\ JobSound(r.job, r.attempt, HomeExit(r.attempt), country)
          /\ r.job.outcome # Pending => Over(r.job)
      BY <1>1, JobIsSound
    <2>3. r.job.outcome.kind \in {"cut", "whole"} => CutSafe(r.job)
      <3>1. /\ Judged(r.job, OptionsFor(processor, r.attempt.feed)) /\ r.attempt.feed \in Feeds
            /\ r.job.expected = r.attempt.feed.stated
        BY <2>2 DEF JobSound, AttemptStates
      <3> QED
        BY <1>1, <2>2, <3>1, JudgedSafe
    <2>4. r.job.outcome.kind = "empty" => r.attempt.cancelled
      BY <2>2 DEF JobSound
    <2>5. ASSUME r.job.outcome.kind = "identical", r.job.outcome.kept = {}
          PROVE  Audio(r.job.home) = <<>>
      <3>1. Got(r.job.home) /\ DOMAIN Audio(r.job.home) = {}
        BY <2>2, <2>5, ExtraTypes DEF Over
      <3>2. Audio(r.job.home) \in Seq(ToSet(Audio(r.job.home)))
        BY <3>1, RegionDiffAssumption DEF Audio, Got
      <3> DEFINE audio == Audio(r.job.home)
      <3>3. audio \in Seq(ToSet(audio)) /\ DOMAIN audio = {}
        BY <3>1, <3>2
      <3> HIDE DEF audio
      <3>4. audio = <<>>
        BY <3>3
      <3> QED
        BY <3>4 DEF audio
    <2> QED
      BY <2>3, <2>4, <2>5
  <1> QED
    BY <1>1, RegionDiffInvariant, PTL
=============================================================================
