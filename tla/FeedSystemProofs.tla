-------------------------- MODULE FeedSystemProofs ---------------------------
(***************************************************************************)
(* The properties of FeedSystem, for any items, kinds, clients, settings,  *)
(* rules and budgets.  Every one of them needs that an id is given once,   *)
(* so that a copy whose row was deleted is never taken for the copy of a   *)
(* row found since (IdsSound).                                             *)
(***************************************************************************)
EXTENDS FeedSystem, FiniteSetTheorems, WellFoundedInduction, TLAPS

USE RulesAssumption, PublishAssumption, ServiceAssumption

-----------------------------------------------------------------------------
(* Rows.                                                                   *)

LEMMA NoRowIsNone == NoRow \notin Rows /\ NoRow.id = 0 /\ \A r \in Rows : r # NoRow /\ r.id # 0
  BY DEF NoRow, Rows

(* What nobody but the source, the poller or the clients says of a row.    *)
SameButState(r, q) ==
    /\ r.id = q.id /\ r.kind = q.kind /\ r.hidden = q.hidden
    /\ r.released = q.released /\ r.dropped = q.dropped

LEMMA HidesIsBoolean == \A list, kind, measured : Hides(list, kind, measured) \in BOOLEAN
  BY DEF Hides

(* applyHiding sets the flag, and more only of an episode it shows again.  *)
LEMMA AppliedRow ==
    ASSUME NEW r \in Rows, NEW list, NEW s
    PROVE  LET a == Applied(r, list, s)
           IN  /\ a \in Rows /\ a.id = r.id /\ a.kind = r.kind
               /\ a.released = r.released /\ a.dropped = r.dropped
               /\ a.hidden = Hides(list, r.kind, MeasuredOf(r, s))
               /\ ~r.hidden \/ r.state = "acquiring" \/ r.state = "failed"
                    => a.state = r.state /\ a.backlog = r.backlog
  <1> DEFINE wanted == Hides(list, r.kind, MeasuredOf(r, s))
             comesBack == /\ r.released = 0 /\ ~r.backlog
                          /\ r.state \in {"discovered", "ready"}
  <1>0. wanted \in BOOLEAN /\ r.hidden \in BOOLEAN
    BY HidesIsBoolean DEF Rows
  <1>1. CASE r.hidden /\ ~wanted /\ comesBack
    <2>1. Applied(r, list, s) = [r EXCEPT !.hidden = FALSE, !.backlog = TRUE, !.state = "ready"]
      BY <1>1, Zenon DEF Applied
    <2>2. r.state # "acquiring" /\ r.state # "failed"
      BY <1>1
    <2> QED
      BY <1>0, <1>1, <2>1, <2>2 DEF Rows
  <1>2. CASE ~(r.hidden /\ ~wanted /\ comesBack)
    <2>1. Applied(r, list, s) = [r EXCEPT !.hidden = wanted]
      BY <1>2, Zenon DEF Applied
    <2>2. \A w \in BOOLEAN :
              LET q == [r EXCEPT !.hidden = w]
              IN  /\ q \in Rows /\ q.id = r.id /\ q.kind = r.kind /\ q.released = r.released
                  /\ q.dropped = r.dropped /\ q.hidden = w /\ q.state = r.state
                  /\ q.backlog = r.backlog
      BY DEF Rows
    <2> HIDE DEF wanted
    <2>3. wanted = Hides(list, r.kind, MeasuredOf(r, s))
      BY DEF wanted
    <2> QED
      BY <1>0, <2>1, <2>2, <2>3
  <1> QED
    BY <1>1, <1>2

(* An episode the source still lists is no longer dropped, and hidden as   *)
(* the rules say of what the source says now.                              *)
LEMMA FollowedRow ==
    ASSUME NEW r \in Rows, NEW kind \in Kinds, NEW list, NEW s
    PROVE  LET f == Followed(r, kind, list, s)
           IN  /\ f \in Rows /\ f.id = r.id /\ f.kind = kind
               /\ f.released = r.released /\ f.dropped = "no"
               /\ IF r.kind = kind THEN f.hidden = r.hidden
                  ELSE \E measured \in BOOLEAN : f.hidden = Hides(list, kind, measured)
               /\ ~r.hidden \/ r.state = "acquiring" \/ r.state = "failed"
                    => f.state = r.state /\ f.backlog = r.backlog
  <1> DEFINE listed == [r EXCEPT !.dropped = "no"]
             said == [listed EXCEPT !.kind = kind]
  <1>1. listed \in Rows /\ said \in Rows
    BY DEF Rows
  <1>2. CASE r.kind = kind
    BY <1>1, <1>2 DEF Followed, Rows
  <1>3. CASE r.kind # kind
    <2>1. Followed(r, kind, list, s) = Applied(said, list, s)
      BY <1>3 DEF Followed
    <2>2. MeasuredOf(said, s) \in BOOLEAN
      BY DEF MeasuredOf, Rows
    <2>3. /\ said.id = r.id /\ said.kind = kind /\ said.released = r.released
          /\ said.dropped = "no" /\ said.hidden = r.hidden /\ said.state = r.state
          /\ said.backlog = r.backlog
      BY DEF Rows
    <2> HIDE DEF said
    <2> QED
      BY <1>1, <1>3, <2>1, <2>2, <2>3, AppliedRow
  <1> QED
    BY <1>2, <1>3

LEMMA DroppedRow ==
    ASSUME NEW r \in Rows
    PROVE  LET d == Dropped(r)
           IN  /\ d \in Rows /\ d.dropped # "no"
               /\ d.id = r.id /\ d.kind = r.kind /\ d.hidden = r.hidden /\ d.released = r.released
               /\ d.state = r.state /\ d.backlog = r.backlog
  BY DEF Dropped, Rows

LEMMA MadeRow ==
    ASSUME NEW i \in Items, made.rows[i] \in Nat, NEW kind \in Kinds,
           NEW state \in {"discovered", "ready"}, NEW backlog \in BOOLEAN, NEW hidden \in BOOLEAN
    PROVE  LET n == NewRow(i, kind, state, backlog, hidden)
           IN  /\ n \in Rows /\ n.id = made.rows[i] + 1 /\ n.kind = kind /\ n.state = state
               /\ n.hidden = hidden /\ n.released = 0 /\ n.dropped = "no" /\ n.backlog = backlog
  BY DEF NewRow, Rows, Switches

LEMMA UndoneRow ==
    ASSUME NEW r \in Rows, NEW s
    PROVE  LET u == Undone(r, s)
           IN  /\ u \in Rows /\ SameButState(u, r) /\ u.backlog = r.backlog
               /\ r.state = "acquiring" => u.state = "acquiring"
  <1>1. CASE r.state = "failed"
    BY <1>1 DEF Undone, Rows, SameButState
  <1>2. CASE r.state = "ready"
    <2>1. Undone(r, s) = [r EXCEPT !.cached = FALSE]
      BY <1>2, Zenon DEF Undone
    <2> QED
      BY <1>2, <2>1 DEF Rows, SameButState
  <1>3. CASE r.state # "failed" /\ r.state # "ready"
    <2>1. Undone(r, s) = r
      BY <1>3, Zenon DEF Undone
    <2> QED
      BY <2>1 DEF SameButState
  <1> QED
    BY <1>1, <1>2, <1>3

LEMMA ClaimedRow ==
    ASSUME NEW r \in Rows, Preparable(r)
    PROVE  LET c == Claimed(r)
           IN  /\ c \in Rows /\ SameButState(c, r) /\ c.backlog = r.backlog
               /\ c.state \in {"acquiring", "ready", "failed"}
               /\ c.state # "acquiring" => c = r
               /\ c.state = "acquiring" => r.state = "discovered"
  BY DEF Claimed, Preparable, Rows, SameButState

(* What a job may end in, of the copy it works on.                         *)
LEMMA OutcomeRow ==
    ASSUME NEW copy \in Rows, NEW s \in Settings, NEW row \in Outcomes(copy, s)
    PROVE  /\ row \in Rows /\ row.id = copy.id /\ row.kind = copy.kind
           /\ row.backlog = copy.backlog
           /\ copy.state \in {"ready", "failed"} => row.state \in {"ready", "failed"}
  <1>1. s.processed \in BOOLEAN /\ s.hide \in BOOLEAN
    BY DEF FeedSettings
  <1>2. \/ row = [copy EXCEPT !.state = "ready", !.cached = TRUE, !.withheld = FALSE]
        \/ row = [copy EXCEPT !.state = IF @ = "acquiring" THEN "discovered" ELSE @]
        \/ row = [copy EXCEPT !.state = "failed", !.withheld = IF s.processed THEN s.hide ELSE @]
    BY DEF Outcomes
  <1>3. CASE row = [copy EXCEPT !.state = "ready", !.cached = TRUE, !.withheld = FALSE]
    BY <1>3 DEF Rows
  <1>4. CASE row = [copy EXCEPT !.state = IF @ = "acquiring" THEN "discovered" ELSE @]
    BY <1>4 DEF Rows
  <1>5. CASE row = [copy EXCEPT !.state = "failed", !.withheld = IF s.processed THEN s.hide ELSE @]
    BY <1>1, <1>5 DEF Rows
  <1> QED
    BY <1>2, <1>3, <1>4, <1>5

LEMMA SavedRowKeeps ==
    ASSUME NEW i \in Items, rows[i] \in Rows, NEW row \in Rows,
           NEW copy, NEW saved \in NotedGone(i, copy, SavedRow(i, row)) \cup {SavedRow(i, row)}
    PROVE  /\ saved \in Rows /\ saved.id = row.id /\ saved.kind = row.kind
           /\ saved.state = row.state /\ saved.backlog = row.backlog
           /\ saved.hidden = rows[i].hidden /\ saved.released = rows[i].released
           /\ saved.dropped = rows[i].dropped
  <1> DEFINE n == SavedRow(i, row)
  <1>1. /\ n \in Rows /\ n.id = row.id /\ n.kind = row.kind /\ n.state = row.state
        /\ n.backlog = row.backlog /\ n.hidden = rows[i].hidden /\ n.released = rows[i].released
        /\ n.dropped = rows[i].dropped
    BY DEF SavedRow, Rows
  <1> HIDE DEF n
  <1>2. saved = n \/ saved = [n EXCEPT !.serve = "off"]
    BY DEF NotedGone, n
  <1>3. ASSUME saved = [n EXCEPT !.serve = "off"]
        PROVE  /\ saved \in Rows /\ saved.id = n.id /\ saved.kind = n.kind /\ saved.state = n.state
               /\ saved.backlog = n.backlog /\ saved.hidden = n.hidden
               /\ saved.released = n.released /\ saved.dropped = n.dropped
    BY <1>1, <1>3 DEF Rows, Switches
  <1> QED
    BY <1>1, <1>2, <1>3

-----------------------------------------------------------------------------
(* The editor's form.                                                      *)

(* In any order of finitely many rows each rank is some row's.             *)
LEMMA EveryRankIsTaken ==
    ASSUME NEW S \in SUBSET Nat, IsFiniteSet(S), NEW place \in [S -> Int],
           NEW k \in 1 .. Cardinality(S)
    PROVE  \E n \in S :
              k = Cardinality({m \in S : place[m] < place[n] \/ (place[m] = place[n] /\ m <= n)})
  <1> DEFINE Up(n) == {m \in S : place[m] < place[n] \/ (place[m] = place[n] /\ m <= n)}
             rank == [n \in S |-> Cardinality(Up(n))]
  <1>1. ASSUME NEW n \in S
        PROVE  IsFiniteSet(Up(n)) /\ rank[n] \in 1 .. Cardinality(S)
    <2>1. Up(n) \in SUBSET S /\ n \in Up(n)
      OBVIOUS
    <2>2. IsFiniteSet(Up(n)) /\ Cardinality(Up(n)) <= Cardinality(S)
      BY <2>1, FS_Subset
    <2>3. Cardinality(Up(n)) \in Nat /\ Cardinality(Up(n)) # 0 /\ Cardinality(S) \in Nat
      BY <2>1, <2>2, FS_CardinalityType, FS_EmptySet
    <2> HIDE DEF Up
    <2> QED
      BY <2>2, <2>3
  <1>2. ASSUME NEW m \in S, NEW n \in S, place[m] < place[n] \/ (place[m] = place[n] /\ m < n)
        PROVE  rank[m] < rank[n]
    <2>0. place[m] \in Int /\ place[n] \in Int /\ m \in Nat /\ n \in Nat
      OBVIOUS
    <2>4. n \in Up(n) /\ n \notin Up(m)
      BY <1>2, <2>0
    <2>5. ASSUME NEW a \in Up(m)
          PROVE  a \in Up(n)
      <3>1. a \in S /\ a \in Nat /\ place[a] \in Int
        OBVIOUS
      <3>2. place[a] < place[m] \/ (place[a] = place[m] /\ a <= m)
        OBVIOUS
      <3>3. place[a] < place[n] \/ (place[a] = place[n] /\ a <= n)
        BY <1>2, <2>0, <3>1, <3>2
      <3> QED
        BY <3>1, <3>3
    <2>1. Up(m) \in SUBSET Up(n) /\ n \in Up(n) /\ n \notin Up(m)
      BY <2>4, <2>5
    <2>2. Cardinality(Up(m)) <= Cardinality(Up(n)) /\ Cardinality(Up(m)) # Cardinality(Up(n))
      BY <1>1, <2>1, FS_Subset
    <2>3. Cardinality(Up(m)) \in Nat /\ Cardinality(Up(n)) \in Nat
      BY <1>1, FS_CardinalityType
    <2> HIDE DEF Up
    <2> QED
      BY <2>2, <2>3
  <1>3. ASSUME NEW m \in S, NEW n \in S, m # n
        PROVE  rank[m] # rank[n]
    <2>0. Cardinality(S) \in Nat
      BY FS_CardinalityType
    <2>1. /\ rank[m] \in Nat /\ rank[n] \in Nat
          /\ place[m] \in Int /\ place[n] \in Int /\ m \in Nat /\ n \in Nat
      <3>1. rank[m] \in 1 .. Cardinality(S) /\ rank[n] \in 1 .. Cardinality(S)
        BY <1>1
      <3>2. place[m] \in Int /\ place[n] \in Int /\ m \in Nat /\ n \in Nat
        OBVIOUS
      <3> HIDE DEF rank
      <3> QED
        BY <2>0, <3>1, <3>2
    <2>2. \/ place[m] < place[n] \/ (place[m] = place[n] /\ m < n)
          \/ place[n] < place[m] \/ (place[n] = place[m] /\ n < m)
      BY <1>3, <2>1
    <2> HIDE DEF rank
    <2> QED
      BY <1>2, <2>1, <2>2
  <1>4. rank \in Injection(S, 1 .. Cardinality(S))
    <2>1. rank \in [S -> 1 .. Cardinality(S)]
      BY <1>1
    <2> HIDE DEF rank
    <2> QED
      BY <1>3, <2>1 DEF Injection, IsInjective
  <1>5. Cardinality(S) \in Nat
    BY FS_CardinalityType
  <1>6. IsFiniteSet(1 .. Cardinality(S)) /\ Cardinality(1 .. Cardinality(S)) = Cardinality(S)
    BY <1>5, FS_Interval
  <1>7. rank \in Surjection(S, 1 .. Cardinality(S))
    BY <1>4, <1>6, FS_Injection
  <1>8. \E n \in S : rank[n] = k
    BY <1>7 DEF Surjection
  <1> QED
    BY <1>8

(* So the rules a form makes are rules somebody may send.                  *)
LEMMA FormsMakeRules ==
    ASSUME NEW form \in Seq(FormRows)
    PROVE  RulesFromForm(form) \in Seq(RulesSent)
  <1> DEFINE kept == {n \in 1 .. Len(form) : Kept(form[n])}
             place == [n \in kept |-> Place(form[n], Len(form))]
             rank == [n \in kept |->
                         Cardinality({m \in kept : place[m] < place[n] \/ (place[m] = place[n] /\ m <= n)})]
             list == [k \in 1 .. Cardinality(kept) |-> form[CHOOSE n \in kept : rank[n] = k].rule]
  <1>1. RulesFromForm(form) = list
    BY Zenon DEF RulesFromForm
  <1>2. Len(form) \in Nat /\ \A n \in 1 .. Len(form) : form[n] \in FormRows
    OBVIOUS
  <1>3. kept \in SUBSET Nat /\ IsFiniteSet(kept)
    <2>1. IsFiniteSet(1 .. Len(form)) /\ kept \in SUBSET (1 .. Len(form))
      BY <1>2, FS_Interval
    <2>2. IsFiniteSet(kept)
      BY <2>1, FS_Subset
    <2> QED
      BY <1>2, <2>2
  <1>4. \A n \in kept : form[n].rule \in RulesSent /\ Place(form[n], Len(form)) \in Int
    BY <1>2 DEF Kept, FormRows, Place
  <1>5. place \in [kept -> Int]
    BY <1>4
  <1>6. ASSUME NEW k \in 1 .. Cardinality(kept)
        PROVE  list[k] \in RulesSent
    <2>1. \E n \in kept : rank[n] = k
      <3> HIDE DEF place, kept
      <3>1. PICK n \in kept :
               k = Cardinality({m \in kept : place[m] < place[n] \/ (place[m] = place[n] /\ m <= n)})
        BY <1>3, <1>5, EveryRankIsTaken
      <3> QED
        BY <3>1
    <2>2. (CHOOSE n \in kept : rank[n] = k) \in kept
      <3> HIDE DEF rank, kept
      <3> QED
        BY <2>1
    <2> HIDE DEF kept, rank
    <2> QED
      BY <1>4, <2>2
  <1>7. Cardinality(kept) \in Nat
    BY <1>3, FS_CardinalityType
  <1>8. list \in Seq(RulesSent)
    <2>1. DOMAIN list = 1 .. Cardinality(kept) /\ list = [k \in 1 .. Cardinality(kept) |-> list[k]]
      OBVIOUS
    <2> HIDE DEF list, kept
    <2> QED
      BY <1>6, <1>7, <2>1, SMTT(40)
  <1> QED
    BY <1>1, <1>8

LEMMA CheckedRules ==
    ASSUME NEW list \in Seq(RulesSent), ValidRules(list)
    PROVE  list \in Seq(Rules) /\ Len(list) <= MaxRules
  <1>1. Len(list) \in Nat /\ \A n \in 1 .. Len(list) : list[n] \in RulesSent /\ Valid(list[n])
    BY DEF ValidRules
  <1>2. \A n \in 1 .. Len(list) : list[n] \in Rules
    BY <1>1 DEF RulesSent, Valid, Rules
  <1> QED
    BY <1>1, <1>2 DEF ValidRules

-----------------------------------------------------------------------------
(* The invariant.                                                          *)

(* Ids are given once, to feeds and to rows of each item; and what holds a *)
(* copy has one.                                                           *)
IdsSound ==
    /\ feed.id <= made.feeds
    /\ poll.phase # "idle" => poll.feed.id # 0 /\ poll.feed.id <= made.feeds
    /\ \A i \in Items :
          /\ rows[i].id <= made.rows[i]
          /\ sweep.copy[i].id <= made.rows[i]
          /\ \A c \in Clients : client[c].newly[i] <= made.rows[i]
    /\ \A i \in sweep.left : sweep.copy[i] \in Rows
    /\ worker # WorkerIdle =>
          /\ worker.item \in Items /\ worker.copy \in Rows
          /\ worker.copy.id <= made.rows[worker.item]

Typed == TypeOK /\ IdsSound

LEMMA TypesAtFirst ==
    /\ Empty \in Documents /\ NoFeed \in Feeds /\ PollIdle \in PollRecs /\ NewClient \in ClientRecs
    /\ AdminIdle \in AdminRecs /\ WorkerIdle \in Workers
    /\ \A checked \in [Items -> SUBSET (1 .. MaxIds)] : SweepIdle(checked) \in Sweeps
    /\ NoFeed.id = 0
  <1>1. Empty \in Documents
    BY DEF Empty, Documents
  <1>2. NoFeed \in Feeds /\ NoFeed.id = 0
    BY <1>1 DEF NoFeed, Feeds
  <1>3. PollIdle \in PollRecs
    BY <1>1, <1>2 DEF PollIdle, PollRecs
  <1>4. NewClient \in ClientRecs
    BY <1>1, <1>2 DEF NewClient, ClientRecs
  <1>5. AdminIdle \in AdminRecs
    BY <1>2 DEF AdminIdle, AdminRecs, Items
  <1>6. WorkerIdle \in Workers
    BY DEF WorkerIdle, Workers
  <1>7. ASSUME NEW checked \in [Items -> SUBSET (1 .. MaxIds)]
        PROVE  SweepIdle(checked) \in Sweeps
    BY DEF SweepIdle, Sweeps
  <1> QED
    BY <1>1, <1>2, <1>3, <1>4, <1>5, <1>6, <1>7

LEMMA ClientIdles ==
    ASSUME NEW k \in ClientRecs
    PROVE  /\ ClientIdle(k) \in ClientRecs /\ ClientIdle(k).phase = "idle"
           /\ ClientIdle(k).seen = k.seen /\ ClientIdle(k).missed = k.missed
           /\ ClientIdle(k).checked = k.checked
           /\ ClientIdle(k).newly = [i \in Items |-> 0]
  <1> DEFINE none == [i \in Items |-> 0]
  <1>1. none \in [Items -> Nat] /\ none \in [Items -> 0 .. MaxTime] /\ 0 \in 0 .. MaxTime
    OBVIOUS
  <1>2. ClientIdle(k) = [k EXCEPT !.phase = "idle", !.feed = NoFeed, !.data = Empty, !.now = 0,
                                  !.newly = none, !.sent = {}, !.dates = none]
    BY DEF ClientIdle
  <1> HIDE DEF none
  <1>3. NoFeed \in Feeds /\ Empty \in Documents /\ {} \in SUBSET Items
    BY TypesAtFirst
  <1>4. /\ ClientIdle(k) \in ClientRecs /\ ClientIdle(k).phase = "idle"
        /\ ClientIdle(k).seen = k.seen /\ ClientIdle(k).missed = k.missed
        /\ ClientIdle(k).checked = k.checked /\ ClientIdle(k).newly = none
    BY <1>1, <1>2, <1>3, ZenonT(60) DEF ClientRecs
  <1> QED
    BY <1>4 DEF none

LEMMA BudgetTyped ==
    ASSUME TypeOK, NEW operation \in Operations, Begin(operation)
    PROVE  budget' \in [Operations -> Nat]
  BY DEF TypeOK, Begin

LEMMA InitTyped == Init => Typed
  <1> SUFFICES ASSUME Init
               PROVE  Typed
    OBVIOUS
  <1> USE DEF Init, ServiceInit, DroppedInit
  <1>1. TypeOK
    <2>1. rules \in Seq(Rules) /\ Len(rules) <= MaxRules
      OBVIOUS
    <2>2. client \in [Clients -> ClientRecs]
      BY TypesAtFirst
    <2>3. worker \in Workers /\ sweep \in Sweeps
      BY TypesAtFirst
    <2>4. made \in [feeds : 0 .. MaxIds, rows : [Items -> 0 .. MaxIds]]
      OBVIOUS
    <2> QED
      BY <2>1, <2>2, <2>3, <2>4, TypesAtFirst DEF TypeOK
  <1>2. IdsSound
    BY NoRowIsNone, TypesAtFirst DEF IdsSound, PollIdle, NewClient, SweepIdle, WorkerIdle, NoRow
  <1> QED
    BY <1>1, <1>2 DEF Typed

-----------------------------------------------------------------------------
(* Types, action by action.                                                *)

LEMMA PollTyped ==
    ASSUME Typed, UNCHANGED droppedVars,
           PollStart \/ PollFails \/ PollFetch \/ PollSave \/ PollRecord
    PROVE  Typed'
  <1> USE DEF Typed, TypeOK, IdsSound, storeVars, ghosts, droppedVars
  <1>1. CASE PollStart
    <2>1. budget' \in [Operations -> Nat]
      BY <1>1, BudgetTyped DEF PollStart, Operations
    <2>2. poll' \in PollRecs /\ poll'.feed = feed /\ feed.id # 0
      BY <1>1 DEF PollStart, PollRecs
    <2> QED
      BY <1>1, <2>1, <2>2 DEF PollStart
  <1>2. CASE PollFails
    BY <1>2 DEF PollFails, PollRecs
  <1>3. CASE PollFetch
    BY <1>3 DEF PollFetch, PollRecs
  <1>4. CASE PollSave
    <2>1. TagOf(poll.data) \in Documents /\ poll.data \in Documents
      BY TypesAtFirst DEF TagOf, PollRecs
    <2>2. /\ poll' \in PollRecs /\ document' \in Documents
          /\ poll.phase # "idle" /\ poll'.feed.id = poll.feed.id
      <3> DEFINE saved == [poll EXCEPT !.phase = "sync", !.feed.tag = TagOf(poll.data)]
                 failed == [poll EXCEPT !.phase = "record"]
      <3>1. poll \in PollRecs /\ document \in Documents /\ poll.phase = "save"
        BY <1>4 DEF PollSave
      <3>2. saved = [poll EXCEPT !.phase = "sync", !.feed = [poll.feed EXCEPT !.tag = TagOf(poll.data)]]
        BY <3>1 DEF PollRecs
      <3>3. /\ [poll.feed EXCEPT !.tag = TagOf(poll.data)] \in Feeds
            /\ [poll.feed EXCEPT !.tag = TagOf(poll.data)].id = poll.feed.id
        BY <2>1, <3>1 DEF PollRecs, Feeds
      <3>4. saved \in PollRecs /\ saved.feed.id = poll.feed.id
        BY <3>1, <3>2, <3>3 DEF PollRecs
      <3>5. failed \in PollRecs /\ failed.feed.id = poll.feed.id
        BY <3>1 DEF PollRecs
      <3>6. (poll' = saved /\ document' = poll.data) \/ (poll' = failed /\ document' = document)
        BY <1>4 DEF PollSave
      <3> HIDE DEF saved, failed
      <3> QED
        BY <2>1, <3>1, <3>4, <3>5, <3>6
    <2> QED
      BY <1>4, <2>2 DEF PollSave
  <1>5. CASE PollRecord
    BY <1>5, TypesAtFirst DEF PollRecord, SaveFeed, PollRecs, PollIdle
  <1> QED
    BY <1>1, <1>2, <1>3, <1>4, <1>5

(* What a client is at, without a change of what it is about to release.   *)
LEMMA ReadersTyped ==
    ASSUME Typed, UNCHANGED droppedVars, NEW c \in Clients,
           Ask(c) \/ GiveUp(c) \/ SubscribeFetch(c) \/ ReadDocument(c)
    PROVE  Typed'
  <1>1. client[c] \in ClientRecs /\ client \in [Clients -> ClientRecs]
    BY DEF Typed, TypeOK
  <1>2. UNCHANGED <<source, storeVars, poll, admin, time, ghosts, worker, sweep>>
    BY DEF Ask, GiveUp, SubscribeFetch, ReadDocument, droppedVars
  <1>3. budget' \in [Operations -> Nat]
    <2>1. CASE Ask(c)
      BY <2>1, BudgetTyped DEF Ask, Operations, Typed
    <2>2. CASE GiveUp(c) \/ SubscribeFetch(c) \/ ReadDocument(c)
      BY <2>2 DEF GiveUp, SubscribeFetch, ReadDocument, Typed, TypeOK
    <2> QED
      BY <2>1, <2>2
  <1>4. PICK k \in ClientRecs :
           /\ client' = [client EXCEPT ![c] = k]
           /\ k.newly = client[c].newly \/ k.newly = [i \in Items |-> 0]
    <2>1. ASSUME NEW phase \in {"fetch", "create", "document", "rows"},
                 NEW f \in Feeds, NEW data \in Documents
          PROVE  /\ [client[c] EXCEPT !.phase = phase] \in ClientRecs
                 /\ [client[c] EXCEPT !.phase = phase].newly = client[c].newly
                 /\ [client[c] EXCEPT !.phase = phase, !.feed = f] \in ClientRecs
                 /\ [client[c] EXCEPT !.phase = phase, !.feed = f].newly = client[c].newly
                 /\ [client[c] EXCEPT !.phase = phase, !.data = data] \in ClientRecs
                 /\ [client[c] EXCEPT !.phase = phase, !.data = data].newly = client[c].newly
      BY <1>1 DEF ClientRecs
    <2>2. feed \in Feeds /\ source \in Documents /\ document \in Documents
      BY DEF Typed, TypeOK
    <2>3. CASE Ask(c)
      BY <2>1, <2>2, <2>3 DEF Ask
    <2>4. CASE GiveUp(c)
      BY <1>1, <2>4, ClientIdles DEF GiveUp
    <2>5. CASE SubscribeFetch(c)
      <3>1. client' = [client EXCEPT ![c] = [client[c] EXCEPT !.phase = "create", !.data = source]]
        BY <1>1, <2>5 DEF SubscribeFetch
      <3> QED
        BY <2>1, <2>2, <3>1
    <2>6. CASE ReadDocument(c)
      BY <1>1, <2>1, <2>2, <2>6, ClientIdles DEF ReadDocument
    <2> QED
      BY <2>3, <2>4, <2>5, <2>6
  <1>5. /\ client' \in [Clients -> ClientRecs]
        /\ \A d \in Clients : client'[d] = IF d = c THEN k ELSE client[d]
    BY <1>1, <1>4
  <1>6. ASSUME NEW i \in Items, NEW d \in Clients
        PROVE  client'[d].newly[i] <= made.rows[i]
    <2>1. made.rows[i] \in Nat /\ client[d].newly[i] <= made.rows[i]
      BY DEF Typed, TypeOK, IdsSound
    <2> QED
      BY <1>4, <1>5, <2>1
  <1>7. TypeOK'
    BY <1>2, <1>3, <1>5 DEF Typed, TypeOK, storeVars, ghosts
  <1>8. IdsSound'
    BY <1>2, <1>6 DEF Typed, IdsSound, storeVars
  <1> QED
    BY <1>7, <1>8 DEF Typed

LEMMA EditorTyped ==
    ASSUME Typed, UNCHANGED droppedVars, ChangeSource \/ LoadFeed \/ UpdateFeed
    PROVE  Typed'
  <1> USE DEF Typed, TypeOK, IdsSound, storeVars, ghosts, droppedVars
  <1>1. CASE ChangeSource
    <2>1. budget' \in [Operations -> Nat]
      BY <1>1, BudgetTyped DEF ChangeSource, Operations
    <2>2. source' \in Documents
      BY <1>1 DEF ChangeSource, Documents
    <2> QED
      BY <1>1, <2>1, <2>2 DEF ChangeSource
  <1>2. CASE LoadFeed
    <2>1. budget' \in [Operations -> Nat]
      BY <1>2, BudgetTyped DEF LoadFeed, Operations
    <2>2. admin' \in AdminRecs
      <3>1. \A s \in Settings : [feed EXCEPT !.settings = s] \in Feeds
        BY DEF Feeds
      <3>2. PICK s \in Settings :
               admin' = [admin EXCEPT !.phase = "save", !.feed = [feed EXCEPT !.settings = s]]
        BY <1>2 DEF LoadFeed
      <3> QED
        BY <3>1, <3>2 DEF AdminRecs
    <2> QED
      BY <1>2, <2>1, <2>2 DEF LoadFeed
  <1>3. CASE UpdateFeed
    BY <1>3, TypesAtFirst DEF UpdateFeed, SaveFeed, AdminRecs
  <1> QED
    BY <1>1, <1>2, <1>3

(* What is left of a sweep's list.                                         *)
LEMMA SweptTyped ==
    ASSUME Typed, NEW i \in sweep.left
    PROVE  /\ i \in Items /\ Swept(i) \in Sweeps /\ Swept(i).checked = sweep.checked
           /\ \A j \in Items : Swept(i).copy[j] = NoRow \/ Swept(i).copy[j] = sweep.copy[j]
           /\ \A j \in Swept(i).left : j \in sweep.left /\ Swept(i).copy[j] = sweep.copy[j]
  <1>1. sweep \in Sweeps /\ i \in Items
    BY DEF Typed, TypeOK, Sweeps
  <1>2. CASE sweep.left = {i}
    <2>1. Swept(i) = SweepIdle(sweep.checked) /\ sweep.checked \in [Items -> SUBSET (1 .. MaxIds)]
      BY <1>1, <1>2 DEF Swept, Sweeps
    <2> QED
      BY <1>1, <2>1, TypesAtFirst DEF SweepIdle
  <1>3. CASE sweep.left # {i}
    <2> DEFINE copies == [sweep.copy EXCEPT ![i] = NoRow]
    <2>1. copies \in [Items -> Rows \cup {NoRow}] /\ \A j \in Items : copies[j] = IF j = i THEN NoRow ELSE sweep.copy[j]
      BY <1>1 DEF Sweeps
    <2>2. Swept(i) = [sweep EXCEPT !.left = sweep.left \ {i}, !.copy = copies]
      BY <1>1, <1>3 DEF Swept, Sweeps
    <2> HIDE DEF copies
    <2>3. /\ Swept(i) \in Sweeps /\ Swept(i).checked = sweep.checked
          /\ Swept(i).left = sweep.left \ {i} /\ Swept(i).copy = copies
      BY <1>1, <2>1, <2>2, Zenon DEF Sweeps
    <2> QED
      BY <1>1, <2>1, <2>3 DEF Sweeps
  <1> QED
    BY <1>2, <1>3

LEMMA SweepTyped ==
    ASSUME Typed, ListDropped \/ SweepSkips \/ ReadForDeletion
    PROVE  Typed'
  <1> USE DEF Typed, TypeOK, IdsSound, storeVars, ghosts, droppedVars
  <1>1. CASE ListDropped
    <2> DEFINE dropped == {i \in Stored(rows) : rows[i].dropped # "no"}
               copies == [i \in Items |-> IF i \in dropped THEN rows[i] ELSE NoRow]
    <2>1. budget' \in [Operations -> Nat]
      BY <1>1, BudgetTyped DEF ListDropped, Operations
    <2>2. dropped \subseteq Items /\ \A i \in dropped : rows[i] \in Rows
      BY DEF Stored
    <2>3. /\ copies \in [Items -> Rows \cup {NoRow}]
          /\ \A i \in Items : copies[i] = rows[i] \/ copies[i] = NoRow
          /\ \A i \in dropped : copies[i] \in Rows
      BY <2>2
    <2>4. sweep' = [sweep EXCEPT !.left = dropped, !.settings = feed.settings, !.copy = copies]
      BY <1>1 DEF ListDropped
    <2> HIDE DEF dropped, copies
    <2>5. sweep' \in Sweeps /\ sweep'.left = dropped /\ sweep'.copy = copies
      BY <2>2, <2>3, <2>4 DEF Sweeps, Feeds
    <2>6. \A i \in Items : copies[i].id <= made.rows[i]
      <3> SUFFICES ASSUME NEW i \in Items
                   PROVE  copies[i].id <= made.rows[i]
        OBVIOUS
      <3>1. made.rows[i] \in Nat /\ rows[i].id <= made.rows[i]
        OBVIOUS
      <3>2. CASE copies[i] = rows[i]
        BY <3>1, <3>2
      <3>3. CASE copies[i] = NoRow
        <4>1. copies[i].id = 0
          BY <3>3, NoRowIsNone
        <4> QED
          BY <3>1, <4>1
      <3> QED
        BY <2>3, <3>2, <3>3
    <2> QED
      BY <1>1, <2>1, <2>3, <2>5, <2>6 DEF ListDropped
  <1>2. CASE SweepSkips
    <2>1. PICK i \in sweep.left : sweep' = Swept(i)
      BY <1>2 DEF SweepSkips
    <2>2. /\ sweep' \in Sweeps
          /\ \A j \in Items : sweep'.copy[j] = NoRow \/ sweep'.copy[j] = sweep.copy[j]
          /\ \A j \in sweep'.left : j \in sweep.left /\ sweep'.copy[j] = sweep.copy[j]
      BY <2>1, SweptTyped
    <2>3. \A j \in Items : made.rows[j] \in Nat /\ sweep.copy[j].id <= made.rows[j]
      OBVIOUS
    <2>4. ASSUME NEW j \in Items
          PROVE  sweep'.copy[j].id <= made.rows[j]
      <3>1. CASE sweep'.copy[j] = NoRow
        <4>1. sweep'.copy[j].id = 0 /\ made.rows[j] \in Nat
          BY <2>3, <3>1, NoRowIsNone
        <4> QED
          BY <4>1
      <3>2. CASE sweep'.copy[j] = sweep.copy[j]
        BY <2>3, <3>2
      <3> QED
        BY <2>2, <3>1, <3>2
    <2> QED
      BY <1>2, <2>2, <2>4 DEF SweepSkips
  <1>3. CASE ReadForDeletion
    <2>1. budget' \in [Operations -> Nat]
      BY <1>3, BudgetTyped DEF ReadForDeletion, Operations
    <2>2. PICK i \in Stored(rows) :
             admin' = [admin EXCEPT !.phase = "delete", !.item = i, !.id = rows[i].id]
      BY <1>3 DEF ReadForDeletion
    <2>3. i \in Items /\ rows[i] \in Rows /\ rows[i].id \in Nat
      BY DEF Stored, Rows
    <2>4. admin' \in AdminRecs
      BY <2>2, <2>3 DEF AdminRecs
    <2> QED
      BY <1>3, <2>1, <2>4 DEF ReadForDeletion
  <1> QED
    BY <1>1, <1>2, <1>3

-----------------------------------------------------------------------------
(* What the others do to rows.  Most change nothing of a row that its      *)
(* place in the feed depends on.                                           *)
Reconciled == admin.phase = "reconcile" /\ admin'.phase = "idle"

Calm(i) ==
    \/ rows'[i] = rows[i]
    \/ /\ rows[i] \in Rows /\ rows'[i] \in Rows
       /\ rows'[i].id = rows[i].id /\ rows'[i].kind = rows[i].kind
       /\ rows'[i].hidden = rows[i].hidden /\ rows'[i].backlog = rows[i].backlog
       /\ rows'[i].released = rows[i].released
       /\ rows'[i].dropped = "no" <=> rows[i].dropped = "no"
       /\ rows[i].state = "acquiring" => rows'[i].state = "acquiring"
       /\ Reconciled \/ (Settled(rows[i]) => Settled(rows'[i]))

Quiet ==
    /\ \A i \in Items : Calm(i)
    /\ feed'.id = feed.id
    /\ UNCHANGED <<made, rules, ghosts>>

LEMMA CalmRows ==
    ASSUME TypeOK, NEW i \in Items, Calm(i)
    PROVE  rows'[i] \in Rows \cup {NoRow} /\ rows'[i].id = rows[i].id
  BY DEF TypeOK, Calm

LEMMA FeedChangedTyped ==
    ASSUME Typed, UNCHANGED droppedVars, FeedChanged
    PROVE  Typed' /\ Quiet
  <1> USE DEF Typed
  <1>1. PICK outdated \in SUBSET Stored(rows) :
           rows' = [i \in Items |-> IF i \in outdated THEN Undone(rows[i], feed.settings)
                                   ELSE rows[i]]
    BY DEF FeedChanged
  <1>2. admin' = AdminIdle /\ Reconciled
    BY DEF FeedChanged, AdminIdle, Reconciled
  <1>3. ASSUME NEW i \in Items
        PROVE  Calm(i)
    <2>1. CASE i \in outdated
      <3>1. rows[i] \in Rows /\ rows'[i] = Undone(rows[i], feed.settings)
        BY <1>1, <2>1 DEF Stored, TypeOK
      <3> QED
        BY <1>2, <3>1, UndoneRow DEF Calm, SameButState
    <2>2. CASE i \notin outdated
      BY <1>1, <2>2 DEF Calm
    <2> QED
      BY <2>1, <2>2
  <1>4. rows' \in [Items -> Rows \cup {NoRow}] /\ \A i \in Items : rows'[i].id = rows[i].id
    BY <1>1, <1>3, CalmRows
  <1>5. Quiet
    BY <1>3 DEF Quiet, FeedChanged
  <1> QED
    BY <1>2, <1>4, <1>5, TypesAtFirst DEF FeedChanged, TypeOK, IdsSound, ghosts, droppedVars

LEMMA StartWorkTyped ==
    ASSUME Typed, StartWork
    PROVE  Typed' /\ Quiet
  <1> USE DEF Typed
  <1>1. PICK i \in Stored(rows) :
           /\ Preparable(rows[i])
           /\ rows' = [rows EXCEPT ![i] = Claimed(rows[i])]
           /\ worker' = [item |-> i, copy |-> Claimed(rows[i]), settings |-> feed.settings]
    BY DEF StartWork
  <1>2. i \in Items /\ rows[i] \in Rows
    BY DEF Stored, TypeOK
  <1>3. /\ Claimed(rows[i]) \in Rows /\ SameButState(Claimed(rows[i]), rows[i])
        /\ Claimed(rows[i]).backlog = rows[i].backlog
        /\ Claimed(rows[i]).state # "acquiring" => Claimed(rows[i]) = rows[i]
        /\ Claimed(rows[i]).state = "acquiring" => rows[i].state = "discovered"
    BY <1>1, <1>2, ClaimedRow
  <1>4. ASSUME NEW j \in Items
        PROVE  Calm(j)
    <2>1. rows'[j] = IF j = i THEN Claimed(rows[i]) ELSE rows[j]
      BY <1>1, <1>2 DEF TypeOK
    <2> QED
      BY <1>2, <1>3, <2>1 DEF Calm, SameButState, Settled
  <1>5. rows' \in [Items -> Rows \cup {NoRow}] /\ \A j \in Items : rows'[j].id = rows[j].id
    BY <1>1, <1>2, <1>3, <1>4, CalmRows DEF TypeOK
  <1>6. Quiet
    BY <1>4 DEF Quiet, StartWork
  <1>7. budget' \in [Operations -> Nat]
    BY BudgetTyped DEF StartWork, Operations
  <1>8. /\ worker' \in Workers /\ worker'.item = i /\ worker'.copy \in Rows
        /\ worker'.copy.id <= made.rows[i]
    BY <1>1, <1>2, <1>3 DEF Workers, Items, SameButState, TypeOK, Feeds, IdsSound
  <1> QED
    BY <1>2, <1>5, <1>6, <1>7, <1>8 DEF StartWork, TypeOK, IdsSound, ghosts

(* A field of one row that only the sweep or the feed's page sets.         *)
LEMMA FieldTyped ==
    ASSUME Typed, NEW i \in Items, rows[i] \in Rows, NEW row \in Rows,
           rows' = [rows EXCEPT ![i] = row],
           row.id = rows[i].id, row.kind = rows[i].kind, row.hidden = rows[i].hidden,
           row.backlog = rows[i].backlog, row.released = rows[i].released,
           row.dropped = "no" <=> rows[i].dropped = "no", row.state = rows[i].state
    PROVE  /\ \A j \in Items : Calm(j)
           /\ rows' \in [Items -> Rows \cup {NoRow}] /\ \A j \in Items : rows'[j].id = rows[j].id
  <1>1. ASSUME NEW j \in Items
        PROVE  Calm(j)
    <2>1. rows'[j] = IF j = i THEN row ELSE rows[j]
      BY DEF Typed, TypeOK
    <2> QED
      BY <2>1 DEF Calm, Settled
  <1> QED
    BY <1>1, CalmRows DEF Typed, TypeOK

LEMMA AgeDroppedTyped ==
    ASSUME Typed, AgeDropped
    PROVE  Typed' /\ Quiet
  <1>1. PICK i \in Stored(rows) :
           rows[i].dropped = "new" /\ rows' = [rows EXCEPT ![i] = [rows[i] EXCEPT !.dropped = "old"]]
    BY DEF AgeDropped, Stored, Typed, TypeOK
  <1>2. i \in Items /\ rows[i] \in Rows
    BY DEF Stored, Typed, TypeOK
  <1> DEFINE row == [rows[i] EXCEPT !.dropped = "old"]
  <1>3. /\ row \in Rows /\ row.id = rows[i].id /\ row.kind = rows[i].kind
        /\ row.hidden = rows[i].hidden /\ row.backlog = rows[i].backlog
        /\ row.released = rows[i].released /\ row.dropped = "old" /\ row.state = rows[i].state
    BY <1>2 DEF Rows
  <1>4. /\ \A j \in Items : Calm(j)
        /\ rows' \in [Items -> Rows \cup {NoRow}] /\ \A j \in Items : rows'[j].id = rows[j].id
    <2> HIDE DEF row
    <2>1. rows' = [rows EXCEPT ![i] = row]
      BY <1>1 DEF row
    <2> QED
      BY <1>1, <1>2, <1>3, <2>1, FieldTyped
  <1>5. Quiet
    BY <1>4 DEF Quiet, AgeDropped
  <1> QED
    BY <1>4, <1>5 DEF AgeDropped, Typed, TypeOK, IdsSound, ghosts, droppedVars

LEMMA SetServeTyped ==
    ASSUME Typed, SetServe
    PROVE  Typed' /\ Quiet
  <1>1. PICK i \in Stored(rows), serve \in Switches :
           rows' = [rows EXCEPT ![i] = [rows[i] EXCEPT !.serve = serve]]
    BY DEF SetServe, Stored, Typed, TypeOK
  <1>2. i \in Items /\ rows[i] \in Rows
    BY DEF Stored, Typed, TypeOK
  <1> DEFINE row == [rows[i] EXCEPT !.serve = serve]
  <1>3. /\ row \in Rows /\ row.id = rows[i].id /\ row.kind = rows[i].kind
        /\ row.hidden = rows[i].hidden /\ row.backlog = rows[i].backlog
        /\ row.released = rows[i].released /\ row.dropped = rows[i].dropped /\ row.state = rows[i].state
    BY <1>2 DEF Rows
  <1>4. /\ \A j \in Items : Calm(j)
        /\ rows' \in [Items -> Rows \cup {NoRow}] /\ \A j \in Items : rows'[j].id = rows[j].id
    <2> HIDE DEF row
    <2>1. rows' = [rows EXCEPT ![i] = row]
      BY <1>1 DEF row
    <2> QED
      BY <1>2, <1>3, <2>1, FieldTyped
  <1>5. Quiet
    BY <1>4 DEF Quiet, SetServe
  <1>6. budget' \in [Operations -> Nat]
    BY BudgetTyped DEF SetServe, Operations, Typed
  <1> QED
    BY <1>4, <1>5, <1>6 DEF SetServe, Typed, TypeOK, IdsSound, ghosts, droppedVars

LEMMA CheckLinkTyped ==
    ASSUME Typed, CheckLink
    PROVE  Typed' /\ Quiet
  <1>1. PICK i \in sweep.left :
           /\ sweep' = [Swept(i) EXCEPT !.checked[i] = @ \cup {sweep.copy[i].id}]
           /\ \/ Current(i, sweep.copy[i]) /\ rows' = [rows EXCEPT ![i].serve = "off"]
              \/ UNCHANGED rows
    BY DEF CheckLink
  <1>2. /\ i \in Items /\ sweep.copy[i] \in Rows /\ sweep.copy[i].id \in 1 .. MaxIds
    <2>1. i \in Items /\ sweep.copy[i] \in Rows
      BY <1>1, SweptTyped DEF Typed, IdsSound
    <2>2. sweep.copy[i].id <= made.rows[i] /\ made.rows[i] \in 0 .. MaxIds
      BY <2>1 DEF Typed, TypeOK, IdsSound
    <2>3. sweep.copy[i].id \in Nat \ {0}
      BY <2>1 DEF Rows
    <2> QED
      BY <2>1, <2>2, <2>3
  <1>3. /\ \A j \in Items : Calm(j)
        /\ rows' \in [Items -> Rows \cup {NoRow}] /\ \A j \in Items : rows'[j].id = rows[j].id
    <2>1. CASE UNCHANGED rows
      BY <2>1 DEF Calm, Typed, TypeOK
    <2>2. CASE Current(i, sweep.copy[i]) /\ rows' = [rows EXCEPT ![i].serve = "off"]
      <3> DEFINE row == [rows[i] EXCEPT !.serve = "off"]
      <3>1. rows[i] \in Rows
        BY <1>2, <2>2 DEF Current, Typed, TypeOK
      <3>2. /\ row \in Rows /\ row.id = rows[i].id /\ row.kind = rows[i].kind
            /\ row.hidden = rows[i].hidden /\ row.backlog = rows[i].backlog
            /\ row.released = rows[i].released /\ row.dropped = rows[i].dropped
            /\ row.state = rows[i].state
        BY <3>1 DEF Rows, Switches
      <3>3. rows' = [rows EXCEPT ![i] = row]
        BY <1>2, <2>2 DEF Typed, TypeOK
      <3> HIDE DEF row
      <3> QED
        BY <1>2, <3>1, <3>2, <3>3, FieldTyped
    <2> QED
      BY <1>1, <2>1, <2>2
  <1>4. Quiet
    BY <1>3 DEF Quiet, CheckLink
  <1>5. sweep' \in Sweeps /\ sweep'.left = Swept(i).left /\ sweep'.copy = Swept(i).copy
    <2>1. Swept(i) \in Sweeps
      BY <1>1, SweptTyped
    <2> DEFINE kept == Swept(i)
               checks == [kept.checked EXCEPT ![i] = kept.checked[i] \cup {sweep.copy[i].id}]
    <2>2. checks \in [Items -> SUBSET (1 .. MaxIds)]
      BY <1>2, <2>1 DEF Sweeps
    <2>3. sweep' = [kept EXCEPT !.checked = checks]
      BY <1>1, <2>1 DEF Sweeps
    <2> HIDE DEF kept, checks
    <2>4. kept \in Sweeps
      BY <2>1 DEF kept
    <2>5. sweep' \in Sweeps /\ sweep'.left = kept.left /\ sweep'.copy = kept.copy
      BY <2>2, <2>3, <2>4 DEF Sweeps
    <2> QED
      BY <2>5 DEF kept
  <1>6. ASSUME NEW j \in Items
        PROVE  sweep'.copy[j].id <= made.rows[j]
    <2>1. sweep'.copy[j] = NoRow \/ sweep'.copy[j] = sweep.copy[j]
      BY <1>1, <1>5, SweptTyped
    <2>2. made.rows[j] \in Nat /\ sweep.copy[j].id <= made.rows[j]
      BY DEF Typed, TypeOK, IdsSound
    <2> QED
      BY <2>1, <2>2, NoRowIsNone
  <1>7. \A j \in sweep'.left : sweep'.copy[j] \in Rows
    BY <1>1, <1>5, SweptTyped DEF Typed, IdsSound
  <1> QED
    BY <1>3, <1>4, <1>5, <1>6, <1>7 DEF CheckLink, Typed, TypeOK, IdsSound, ghosts

-----------------------------------------------------------------------------
(* What the source says, found by a poll or on subscribing.                *)

(* How a poll leaves an item, of a document with some.                     *)
FollowedAs(i, data, s) ==
    /\ i \in Listed(data) /\ rows[i] # NoRow => rows'[i] = Followed(rows[i], data[i], rules, s)
    /\ i \in Listed(data) /\ rows[i] = NoRow => rows'[i] = Found(i, data[i], rules, s)
    /\ i \notin Listed(data) /\ rows[i] # NoRow =>
          rows'[i] = IF Listed(data) # {} THEN Dropped(rows[i]) ELSE rows[i]
    /\ i \notin Listed(data) /\ rows[i] = NoRow => rows'[i] = NoRow

LEMMA SyncedRows ==
    ASSUME NEW data, NEW s, rows' = Synced(data, s), NEW i \in Items
    PROVE  FollowedAs(i, data, s)
  <1>1. CASE i \in Listed(data) /\ rows[i] # NoRow
    <2>1. rows'[i] = Followed(rows[i], data[i], rules, s)
      BY <1>1, Zenon DEF Synced
    <2> QED
      BY <1>1, <2>1 DEF FollowedAs
  <1>2. CASE i \in Listed(data) /\ rows[i] = NoRow
    <2>1. rows'[i] = Found(i, data[i], rules, s)
      BY <1>2, Zenon DEF Synced
    <2> QED
      BY <1>2, <2>1 DEF FollowedAs
  <1>3. CASE i \notin Listed(data) /\ rows[i] # NoRow /\ Listed(data) # {}
    <2>1. rows'[i] = Dropped(rows[i])
      BY <1>3, Zenon DEF Synced
    <2> QED
      BY <1>3, <2>1 DEF FollowedAs
  <1>4. CASE i \notin Listed(data) /\ ~(rows[i] # NoRow /\ Listed(data) # {})
    <2>1. rows'[i] = rows[i]
      BY <1>4, Zenon DEF Synced
    <2> QED
      BY <1>4, <2>1 DEF FollowedAs
  <1> QED
    BY <1>1, <1>2, <1>3, <1>4

(* A row is new, or the one that was there.                                *)
Fresh(i) ==
    /\ rows'[i] \in Rows /\ rows'[i].id = made.rows[i] + 1 /\ rows'[i].released = 0
    /\ rows'[i].dropped = "no"

LEMMA FoundRow ==
    ASSUME TypeOK, NEW i \in Items, made.rows[i] < MaxIds, NEW kind \in Kinds, NEW s
    PROVE  LET f == Found(i, kind, rules, s)
           IN  /\ f \in Rows /\ f.id = made.rows[i] + 1 /\ f.kind = kind
               /\ f.released = 0 /\ f.dropped = "no"
               /\ \E measured \in BOOLEAN : f.hidden = Hides(rules, kind, measured)
  <1> DEFINE state == IF Prepares(s) THEN "discovered" ELSE "ready"
             hidden == Hides(rules, kind, FALSE)
  <1>1. state \in {"discovered", "ready"} /\ hidden \in BOOLEAN
    BY HidesIsBoolean
  <1>2. Found(i, kind, rules, s) = NewRow(i, kind, state, FALSE, hidden)
    BY DEF Found
  <1> HIDE DEF state, hidden
  <1>3. LET n == NewRow(i, kind, state, FALSE, hidden)
        IN  /\ n \in Rows /\ n.id = made.rows[i] + 1 /\ n.kind = kind /\ n.state = state
            /\ n.hidden = hidden /\ n.released = 0 /\ n.dropped = "no"
    <2>1. made.rows[i] \in Nat
      BY DEF TypeOK
    <2>2. \A b \in BOOLEAN :
             LET n == NewRow(i, kind, state, b, hidden)
             IN  /\ n \in Rows /\ n.id = made.rows[i] + 1 /\ n.kind = kind /\ n.state = state
                 /\ n.hidden = hidden /\ n.released = 0 /\ n.dropped = "no"
      BY <1>1, <2>1, MadeRow
    <2>3. FALSE \in BOOLEAN
      OBVIOUS
    <2> QED
      BY <2>2, <2>3, Zenon
  <1>4. \E measured \in BOOLEAN : hidden = Hides(rules, kind, measured)
    BY Zenon DEF hidden
  <1> QED
    BY <1>2, <1>3, <1>4

LEMMA SyncedRow ==
    ASSUME TypeOK, RoomForRows, NEW i \in Items, NEW data \in Documents, NEW s,
           FollowedAs(i, data, s)
    PROVE  /\ rows'[i] \in Rows \cup {NoRow}
           /\ rows[i] # NoRow => rows'[i] # NoRow /\ rows'[i].id = rows[i].id
                                  /\ rows'[i].released = rows[i].released
           /\ rows[i] = NoRow => rows'[i] = NoRow \/ Fresh(i)
           /\ Listed(data) # {} => (i \in Listed(data) <=> (rows'[i] # NoRow /\ rows'[i].dropped = "no"))
           /\ rows[i] # NoRow /\ (~rows[i].hidden \/ rows[i].state = "acquiring")
                 => rows'[i].state = rows[i].state /\ rows'[i].backlog = rows[i].backlog
           /\ rows'[i] # NoRow =>
                 \/ /\ rows[i] # NoRow /\ rows'[i].kind = rows[i].kind
                    /\ rows'[i].hidden = rows[i].hidden
                 \/ \E measured \in BOOLEAN : rows'[i].hidden = Hides(rules, rows'[i].kind, measured)
  <1>1. rows[i] # NoRow => rows[i] \in Rows
    BY DEF TypeOK
  <1>2. i \in Listed(data) => data[i] \in Kinds
    BY DEF Listed, Documents
  <1>3. made.rows[i] < MaxIds
    BY DEF RoomForRows
  <1>4. CASE i \in Listed(data) /\ rows[i] # NoRow
    <2>1. rows'[i] = Followed(rows[i], data[i], rules, s)
      BY <1>4 DEF FollowedAs
    <2>2. /\ rows'[i] \in Rows /\ rows'[i].id = rows[i].id /\ rows'[i].kind = data[i]
          /\ rows'[i].released = rows[i].released /\ rows'[i].dropped = "no"
          /\ IF rows[i].kind = data[i] THEN rows'[i].hidden = rows[i].hidden
             ELSE \E measured \in BOOLEAN : rows'[i].hidden = Hides(rules, data[i], measured)
          /\ ~rows[i].hidden \/ rows[i].state = "acquiring" \/ rows[i].state = "failed"
                => rows'[i].state = rows[i].state /\ rows'[i].backlog = rows[i].backlog
      BY <1>1, <1>2, <1>4, <2>1, FollowedRow
    <2> QED
      BY <1>4, <2>2, NoRowIsNone
  <1>5. CASE i \in Listed(data) /\ rows[i] = NoRow
    <2>1. rows'[i] = Found(i, data[i], rules, s)
      BY <1>5 DEF FollowedAs
    <2>2. /\ rows'[i] \in Rows /\ rows'[i].id = made.rows[i] + 1 /\ rows'[i].kind = data[i]
          /\ rows'[i].released = 0 /\ rows'[i].dropped = "no"
          /\ \E measured \in BOOLEAN : rows'[i].hidden = Hides(rules, data[i], measured)
      BY <1>2, <1>3, <1>5, <2>1, FoundRow
    <2> QED
      BY <1>5, <2>2, NoRowIsNone DEF Fresh
  <1>6. CASE i \notin Listed(data) /\ rows[i] # NoRow
    <2>1. rows'[i] = IF Listed(data) # {} THEN Dropped(rows[i]) ELSE rows[i]
      BY <1>6 DEF FollowedAs
    <2>2. CASE Listed(data) # {}
      BY <1>1, <1>6, <2>1, <2>2, DroppedRow, NoRowIsNone
    <2>3. CASE Listed(data) = {}
      BY <1>1, <1>6, <2>1, <2>3
    <2> QED
      BY <2>2, <2>3
  <1>7. CASE i \notin Listed(data) /\ rows[i] = NoRow
    BY <1>7 DEF FollowedAs
  <1> QED
    BY <1>4, <1>5, <1>6, <1>7

LEMMA CountedIds ==
    ASSUME TypeOK, RoomForRows, NEW new \in [Items -> Rows \cup {NoRow}],
           \A i \in Items : new[i].id <= made.rows[i] + 1
    PROVE  /\ CountIds(new) \in [Items -> 0 .. MaxIds]
           /\ \A i \in Items : made.rows[i] <= CountIds(new)[i] /\ new[i].id <= CountIds(new)[i]
  <1>1. ASSUME NEW i \in Items
        PROVE  /\ CountIds(new)[i] \in 0 .. MaxIds
               /\ made.rows[i] <= CountIds(new)[i] /\ new[i].id <= CountIds(new)[i]
    <2>1. new[i].id \in Nat /\ made.rows[i] \in Nat /\ made.rows[i] < MaxIds
      BY NoRowIsNone DEF Rows, TypeOK, RoomForRows
    <2>2. CountIds(new)[i] = IF new[i].id > made.rows[i] THEN new[i].id ELSE made.rows[i]
      BY DEF CountIds
    <2> QED
      BY <2>1, <2>2
  <1>2. CountIds(new) = [i \in Items |-> CountIds(new)[i]]
    BY DEF CountIds
  <1> QED
    BY <1>1, <1>2

(* Whoever has an id keeps it, and those given out only grow.              *)
LEMMA IdsKept ==
    ASSUME Typed, TypeOK', UNCHANGED sweep, UNCHANGED worker,
           feed'.id <= made'.feeds,
           poll'.phase # "idle" => poll'.feed.id = poll.feed.id /\ poll.phase # "idle",
           made.feeds <= made'.feeds,
           \A i \in Items :
              /\ made.rows[i] <= made'.rows[i] /\ rows'[i].id <= made'.rows[i]
              /\ \A c \in Clients : client'[c].newly[i] = client[c].newly[i] \/ client'[c].newly[i] = 0
    PROVE  Typed'
  <1>1. /\ made.feeds \in Nat /\ made'.feeds \in Nat /\ poll.feed.id \in Nat
        /\ \A i \in Items : made.rows[i] \in Nat /\ made'.rows[i] \in Nat
    BY DEF Typed, TypeOK, PollRecs, Feeds
  <1>2. \A i \in Items : sweep.copy[i].id \in Nat /\ \A c \in Clients : client[c].newly[i] \in Nat
    <2>1. \A i \in Items : sweep.copy[i] \in Rows \cup {NoRow}
      BY DEF Typed, TypeOK, Sweeps
    <2>2. \A c \in Clients : client[c].newly \in [Items -> Nat]
      BY DEF Typed, TypeOK, ClientRecs
    <2> QED
      BY <2>1, <2>2, NoRowIsNone DEF Rows
  <1>3. /\ feed'.id <= made'.feeds
        /\ poll'.phase # "idle" => poll'.feed.id # 0 /\ poll'.feed.id <= made'.feeds
    BY <1>1 DEF Typed, IdsSound
  <1>4. ASSUME NEW i \in Items
        PROVE  /\ rows'[i].id <= made'.rows[i]
               /\ sweep'.copy[i].id <= made'.rows[i]
               /\ \A c \in Clients : client'[c].newly[i] <= made'.rows[i]
    <2>1. /\ rows'[i].id <= made'.rows[i] /\ made.rows[i] <= made'.rows[i]
          /\ made.rows[i] \in Nat /\ made'.rows[i] \in Nat
      BY <1>1
    <2>2. sweep'.copy[i].id <= made'.rows[i]
      <3>1. sweep.copy[i].id \in Nat /\ sweep.copy[i].id <= made.rows[i]
        BY <1>2 DEF Typed, IdsSound
      <3> QED
        BY <2>1, <3>1
    <2>3. ASSUME NEW c \in Clients
          PROVE  client'[c].newly[i] <= made'.rows[i]
      <3>1. client[c].newly[i] \in Nat /\ client[c].newly[i] <= made.rows[i]
        BY <1>2 DEF Typed, IdsSound
      <3>2. client'[c].newly[i] = client[c].newly[i] \/ client'[c].newly[i] = 0
        OBVIOUS
      <3> QED
        BY <2>1, <3>1, <3>2
    <2> QED
      BY <2>1, <2>2, <2>3
  <1>5. worker' # WorkerIdle =>
          /\ worker'.item \in Items /\ worker'.copy \in Rows
          /\ worker'.copy.id <= made'.rows[worker'.item]
    BY <1>1 DEF Typed, IdsSound, Rows
  <1>6. \A i \in sweep'.left : sweep'.copy[i] \in Rows
    BY DEF Typed, IdsSound
  <1> QED
    BY <1>3, <1>4, <1>5, <1>6 DEF Typed, IdsSound

LEMMA PollSyncTyped ==
    ASSUME Typed, UNCHANGED droppedVars, PollSync
    PROVE  /\ Typed'
           /\ (\A i \in Items : FollowedAs(i, poll.data, poll.feed.settings)) \/ UNCHANGED rows
  <1> DEFINE new == Synced(poll.data, poll.feed.settings)
  <1>1. poll' = [poll EXCEPT !.phase = "record"] /\ RoomForRows
    BY DEF PollSync
  <1>2. poll' \in PollRecs /\ poll'.feed = poll.feed /\ poll.phase # "idle"
    BY <1>1 DEF PollSync, Typed, TypeOK, PollRecs
  <1>3. \/ rows' = new /\ made' = [made EXCEPT !.rows = CountIds(new)]
        \/ UNCHANGED <<rows, made>>
    BY DEF PollSync
  <1>4. /\ lost' \subseteq Items /\ overwritten' \subseteq Items
    BY DEF PollSync, OutOfStep, Typed, TypeOK
  <1>5. CASE rows' = new /\ made' = [made EXCEPT !.rows = CountIds(new)]
    <2>1. \A i \in Items : FollowedAs(i, poll.data, poll.feed.settings)
      BY <1>5, SyncedRows
    <2>2. poll.data \in Documents
      BY DEF Typed, TypeOK, PollRecs
    <2>3. ASSUME NEW i \in Items
          PROVE  new[i] \in Rows \cup {NoRow} /\ new[i].id <= made.rows[i] + 1
      <3>1. /\ rows'[i] \in Rows \cup {NoRow}
            /\ rows[i] # NoRow => rows'[i] # NoRow /\ rows'[i].id = rows[i].id
            /\ rows[i] = NoRow => rows'[i] = NoRow \/ Fresh(i)
        BY <1>1, <2>1, <2>2, SyncedRow DEF Typed
      <3>2. made.rows[i] \in Nat /\ rows[i].id \in Nat /\ rows[i].id <= made.rows[i]
        BY NoRowIsNone DEF Typed, TypeOK, IdsSound, Rows
      <3>3. rows'[i].id <= made.rows[i] + 1
        BY <3>1, <3>2, NoRowIsNone DEF Fresh
      <3> QED
        BY <1>5, <3>1, <3>3
    <2>4. new \in [Items -> Rows \cup {NoRow}]
      <3>1. new = [i \in Items |-> new[i]]
        BY DEF Synced
      <3> HIDE DEF new
      <3> QED
        BY <2>3, <3>1
    <2>5. /\ CountIds(new) \in [Items -> 0 .. MaxIds]
          /\ \A i \in Items : made.rows[i] <= CountIds(new)[i] /\ new[i].id <= CountIds(new)[i]
      <3> HIDE DEF new
      <3> QED
        BY <1>1, <2>3, <2>4, CountedIds DEF Typed
    <2> HIDE DEF new
    <2>6. /\ made' \in [feeds : 0 .. MaxIds, rows : [Items -> 0 .. MaxIds]]
          /\ made'.rows = CountIds(new) /\ made'.feeds = made.feeds
      BY <1>5, <2>5 DEF Typed, TypeOK
    <2>7. TypeOK'
      BY <1>2, <1>4, <1>5, <2>4, <2>6 DEF PollSync, Typed, TypeOK, droppedVars
    <2>8. made.feeds <= made'.feeds /\ feed'.id <= made'.feeds
      BY <2>6 DEF PollSync, Typed, TypeOK, IdsSound
    <2>9. Typed'
      BY <1>2, <1>5, <2>5, <2>6, <2>7, <2>8, IdsKept DEF PollSync, droppedVars
    <2> QED
      BY <2>1, <2>9
  <1>6. CASE UNCHANGED <<rows, made>>
    <2>1. TypeOK'
      BY <1>2, <1>4, <1>6 DEF PollSync, Typed, TypeOK, droppedVars
    <2>2. IdsSound'
      BY <1>2, <1>6 DEF PollSync, Typed, IdsSound, droppedVars
    <2> QED
      BY <1>6, <2>1, <2>2 DEF Typed
  <1> QED
    BY <1>3, <1>5, <1>6

(* Subscribing gives every item the source lists a row of the backlog.     *)
NewFeed(data) ==
    /\ feed.id = 0 /\ feed'.id = made.feeds + 1 /\ document' = data
    /\ UNCHANGED rules /\ lost' = {} /\ overwritten' = {}
    /\ \A i \in Items : (rows'[i] = NoRow) \/ (Fresh(i) /\ ~rows'[i].hidden)
    /\ \A i \in Items : i \in Listed(data) <=> rows'[i] # NoRow

LEMMA BacklogRow ==
    ASSUME TypeOK, RoomForRows, NEW data \in Documents, NEW s, NEW i \in Items
    PROVE  /\ BacklogOf(data, s)[i] \in Rows \cup {NoRow}
           /\ i \in Listed(data) <=> BacklogOf(data, s)[i] # NoRow
           /\ i \in Listed(data) =>
                 /\ BacklogOf(data, s)[i].id = made.rows[i] + 1
                 /\ BacklogOf(data, s)[i].released = 0 /\ BacklogOf(data, s)[i].dropped = "no"
                 /\ ~BacklogOf(data, s)[i].hidden
  <1>1. CASE i \in Listed(data)
    <2> DEFINE state == IF i \in QueuedBacklog(data, s) THEN "discovered" ELSE "ready"
    <2>1. BacklogOf(data, s)[i] = NewRow(i, data[i], state, TRUE, FALSE)
      BY <1>1 DEF BacklogOf
    <2>2. data[i] \in Kinds /\ made.rows[i] \in Nat
      BY <1>1 DEF Listed, Documents, TypeOK
    <2>3. state \in {"discovered", "ready"} /\ TRUE \in BOOLEAN /\ FALSE \in BOOLEAN
      OBVIOUS
    <2> HIDE DEF state
    <2>4. \A b \in BOOLEAN, h \in BOOLEAN :
             LET n == NewRow(i, data[i], state, b, h)
             IN  /\ n \in Rows /\ n.id = made.rows[i] + 1 /\ n.hidden = h
                 /\ n.released = 0 /\ n.dropped = "no"
      BY <2>2, <2>3, MadeRow
    <2>5. LET n == NewRow(i, data[i], state, TRUE, FALSE)
          IN  /\ n \in Rows /\ n.id = made.rows[i] + 1 /\ n.hidden = FALSE
              /\ n.released = 0 /\ n.dropped = "no"
      BY <2>3, <2>4, Zenon
    <2> QED
      BY <1>1, <2>1, <2>5, NoRowIsNone
  <1>2. CASE i \notin Listed(data)
    BY <1>2 DEF BacklogOf
  <1> QED
    BY <1>1, <1>2

LEMMA SubscribeTyped ==
    ASSUME Typed, UNCHANGED droppedVars, NEW c \in Clients, Subscribe(c)
    PROVE  /\ Typed'
           /\ client[c].phase = "create" /\ UNCHANGED <<poll, time, admin>>
           /\ \E k \in ClientRecs :
                 /\ client' = [client EXCEPT ![c] = k] /\ k.phase = "document"
                 /\ k.newly = client[c].newly /\ k.seen = client[c].seen
                 /\ k.missed = client[c].missed /\ k.checked = client[c].checked
           /\ (Quiet /\ UNCHANGED <<rows, feed, document>>) \/ NewFeed(client[c].data)
  <1> DEFINE data == client[c].data
             new == [id |-> made.feeds + 1, settings |-> NewSettings, tag |-> TagOf(data)]
             backlog == BacklogOf(data, NewSettings)
             Reading(f) == [client[c] EXCEPT !.phase = "document", !.feed = f]
  <1>1. /\ client[c].phase = "create" /\ made.feeds < MaxIds /\ RoomForRows
        /\ UNCHANGED <<source, rules, poll, admin, time, budget>>
    BY DEF Subscribe
  <1>2. client[c] \in ClientRecs /\ data \in Documents /\ made.feeds \in Nat
    BY DEF Typed, TypeOK, ClientRecs
  <1>3. new \in Feeds
    BY <1>1, <1>2, TypesAtFirst DEF Feeds, TagOf
  <1>4. ASSUME NEW f \in Feeds
        PROVE  /\ Reading(f) \in ClientRecs /\ Reading(f).phase = "document"
               /\ Reading(f).newly = client[c].newly /\ Reading(f).seen = client[c].seen
               /\ Reading(f).missed = client[c].missed /\ Reading(f).checked = client[c].checked
    BY <1>2 DEF ClientRecs
  <1>5. ASSUME NEW k \in ClientRecs, client' = [client EXCEPT ![c] = k], k.newly = client[c].newly
        PROVE  /\ client' \in [Clients -> ClientRecs]
               /\ \A i \in Items, d \in Clients : client'[d].newly[i] = client[d].newly[i]
    BY <1>5 DEF Typed, TypeOK
  <1>6. CASE feed.id # 0
    <2>1. /\ client' = [client EXCEPT ![c] = Reading(feed)]
          /\ UNCHANGED <<feed, document, rows, made, ghosts>>
      BY <1>2, <1>6 DEF Subscribe, Typed, TypeOK
    <2>2. Reading(feed) \in ClientRecs /\ Reading(feed).newly = client[c].newly
      BY <1>4 DEF Typed, TypeOK
    <2>3. TypeOK'
      BY <1>1, <1>5, <2>1, <2>2 DEF Typed, TypeOK, ghosts, droppedVars
    <2>4. IdsSound'
      BY <1>1, <1>5, <2>1, <2>2 DEF Typed, IdsSound, droppedVars
    <2>5. Quiet
      BY <1>1, <2>1 DEF Quiet, Calm
    <2>6. feed \in Feeds
      BY DEF Typed, TypeOK
    <2> HIDE DEF Reading
    <2> QED
      BY <1>1, <1>4, <2>1, <2>3, <2>4, <2>5, <2>6 DEF Typed
  <1>7. CASE feed.id = 0
    <2>1. /\ client' = [client EXCEPT ![c] = Reading(new)]
          /\ feed' = new /\ document' = data /\ rows' = backlog
          /\ made' = [feeds |-> new.id, rows |-> CountIds(backlog)]
          /\ lost' = {} /\ overwritten' = {}
      BY <1>2, <1>7 DEF Subscribe, Typed, TypeOK
    <2>2. ASSUME NEW i \in Items
          PROVE  /\ backlog[i] \in Rows \cup {NoRow}
                 /\ i \in Listed(data) <=> backlog[i] # NoRow
                 /\ i \in Listed(data) =>
                      /\ backlog[i].id = made.rows[i] + 1 /\ backlog[i].released = 0
                      /\ backlog[i].dropped = "no" /\ ~backlog[i].hidden
      BY <1>1, <1>2, BacklogRow DEF Typed
    <2>3. backlog \in [Items -> Rows \cup {NoRow}]
      <3>1. backlog = [i \in Items |-> backlog[i]]
        BY DEF BacklogOf
      <3> HIDE DEF backlog
      <3> QED
        BY <2>2, <3>1
    <2>4. \A i \in Items : backlog[i].id <= made.rows[i] + 1
      <3> HIDE DEF backlog, data
      <3>1. \A i \in Items : made.rows[i] \in Nat
        BY DEF Typed, TypeOK
      <3>2. \A i \in Items : i \notin Listed(data) => backlog[i].id = 0
        BY <2>2, NoRowIsNone
      <3> QED
        BY <2>2, <3>1, <3>2
    <2>5. /\ CountIds(backlog) \in [Items -> 0 .. MaxIds]
          /\ \A i \in Items : made.rows[i] <= CountIds(backlog)[i] /\ backlog[i].id <= CountIds(backlog)[i]
      <3> HIDE DEF backlog
      <3> QED
        BY <1>1, <2>3, <2>4, CountedIds DEF Typed
    <2> HIDE DEF backlog
    <2>6. /\ made' \in [feeds : 0 .. MaxIds, rows : [Items -> 0 .. MaxIds]]
          /\ made'.rows = CountIds(backlog) /\ made'.feeds = made.feeds + 1 /\ feed'.id = made.feeds + 1
      BY <1>1, <1>2, <2>1, <2>5
    <2>7. Reading(new) \in ClientRecs /\ Reading(new).newly = client[c].newly
      BY <1>3, <1>4
    <2>8. TypeOK'
      <3> HIDE DEF Reading, new, data
      <3> QED
        BY <1>1, <1>2, <1>3, <1>5, <2>1, <2>3, <2>6, <2>7 DEF Typed, TypeOK, droppedVars
    <2>9. Typed'
      <3>1. \A i \in Items :
              /\ made.rows[i] <= made'.rows[i] /\ rows'[i].id <= made'.rows[i]
              /\ \A d \in Clients : client'[d].newly[i] = client[d].newly[i]
        <4> HIDE DEF Reading, new, data
        <4> QED
          BY <1>5, <2>1, <2>5, <2>6, <2>7
      <3>2. made.feeds <= made'.feeds /\ feed'.id <= made'.feeds
        BY <1>2, <2>6
      <3> HIDE DEF Reading, new, data
      <3> QED
        BY <1>1, <2>8, <3>1, <3>2, IdsKept DEF droppedVars
    <2>10. NewFeed(data)
      <3>1. ASSUME NEW i \in Items
            PROVE  /\ rows'[i] = NoRow \/ (Fresh(i) /\ ~rows'[i].hidden)
                   /\ i \in Listed(data) <=> rows'[i] # NoRow
        <4> HIDE DEF data
        <4> QED
          BY <2>1, <2>2 DEF Fresh
      <3> QED
        BY <1>1, <1>7, <2>1, <2>6, <3>1 DEF NewFeed
    <2> HIDE DEF Reading
    <2> QED
      BY <1>1, <1>3, <1>4, <2>1, <2>9, <2>10
  <1> QED
    BY <1>6, <1>7

-----------------------------------------------------------------------------
(* A render: what it reads, and what it writes once it is answered.        *)

LEMMA PublishedStored ==
    ASSUME NEW rs, NEW s, NEW data
    PROVE  /\ Published(rs, s) \subseteq Stored(rs) /\ Output(rs, s, data) \subseteq Stored(rs)
           /\ NewlyReleased(rs, s) \subseteq Published(rs, s)
           /\ Output(rs, s, data) \subseteq Published(rs, s) /\ Stored(rs) \subseteq Items
  BY DEF Published, InOrder, Fallback, OldestOf, InFeed, Output, NewlyReleased, Stored

LEMMA ReadRowsTyped ==
    ASSUME Typed, UNCHANGED droppedVars, NEW c \in Clients, ReadRows(c)
    PROVE  Typed'
  <1> DEFINE s == client[c].feed.settings
             read == RowsOf(client[c].feed.id)
             now == time + 1
             sent == Output(read, s, client[c].data)
             newly == NewlyReleased(read, s)
             released == {i \in Stored(rows) :
                             \/ rows[i].released # 0 \/ i \in newly
                             \/ \E d \in Clients : client[d].newly[i] = rows[i].id}
             missed == client[c].missed \cup (released \ sent)
             ids == [i \in Items |-> IF i \in newly THEN read[i].id ELSE 0]
             dates == [i \in Items |-> IF i \in sent THEN ServedDate(read[i], now) ELSE 0]
             k == [client[c] EXCEPT !.phase = "release", !.now = now, !.sent = sent,
                                    !.missed = missed, !.newly = ids, !.dates = dates]
  <1>1. client[c] \in ClientRecs /\ time < MaxTime /\ now \in 0 .. MaxTime
    <2>1. client[c] \in ClientRecs
      BY DEF Typed, TypeOK
    <2>2. time < MaxTime /\ time \in 0 .. MaxTime
      BY Zenon DEF ReadRows, Typed, TypeOK
    <2> QED
      BY <2>1, <2>2
  <1>2. \A i \in Items : read[i] = rows[i] \/ read[i] = NoRow
    BY DEF RowsOf
  <1>3. sent \subseteq Items /\ newly \subseteq Stored(read) /\ sent \subseteq Stored(read)
    BY PublishedStored
  <1>4. \A i \in Stored(read) : i \in Items /\ read[i] \in Rows /\ read[i] = rows[i]
    BY <1>2 DEF Stored, Typed, TypeOK
  <1>5. missed \in SUBSET Items
    BY <1>1 DEF Stored, ClientRecs
  <1>6. ids \in [Items -> Nat] /\ \A i \in Items : ids[i] <= made.rows[i]
    <2>1. \A i \in Items : made.rows[i] \in Nat /\ rows[i].id <= made.rows[i]
      BY DEF Typed, TypeOK, IdsSound
    <2>2. \A i \in newly : read[i].id \in Nat /\ read[i].id = rows[i].id
      BY <1>3, <1>4 DEF Rows
    <2> HIDE DEF newly, read
    <2> QED
      BY <2>1, <2>2
  <1>7. dates \in [Items -> 0 .. MaxTime]
    <2>1. \A i \in sent : ServedDate(read[i], now) \in 0 .. MaxTime
      BY <1>1, <1>3, <1>4 DEF ServedDate, Rows
    <2> HIDE DEF sent, read, now
    <2> QED
      BY <2>1
  <1>8. client' = [client EXCEPT ![c] = k] /\ time' = now
    BY DEF ReadRows
  <1> HIDE DEF s, read, sent, newly, released, missed, ids, dates
  <1>9. k \in ClientRecs /\ k.newly = ids
    BY <1>1, <1>3, <1>5, <1>6, <1>7 DEF ClientRecs
  <1> HIDE DEF k
  <1>10. /\ client' \in [Clients -> ClientRecs]
         /\ \A i \in Items, d \in Clients : client'[d].newly[i] <= made.rows[i]
    BY <1>6, <1>8, <1>9 DEF Typed, TypeOK, IdsSound
  <1>11. TypeOK'
    BY <1>1, <1>8, <1>10 DEF ReadRows, Typed, TypeOK, storeVars, ghosts, droppedVars
  <1>12. IdsSound'
    BY <1>10 DEF ReadRows, Typed, IdsSound, storeVars, droppedVars
  <1> QED
    BY <1>11, <1>12 DEF Typed

(* Only the date of rows that had none.                                    *)
Marked(c, i) ==
    \/ rows'[i] = rows[i]
    \/ /\ rows[i] \in Rows /\ rows[i].released = 0 /\ rows[i].id = client[c].newly[i]
       /\ client[c].now \in 0 .. MaxTime
       /\ rows'[i] = [rows[i] EXCEPT !.released = client[c].now]

LEMMA MarkedRow ==
    ASSUME TypeOK, NEW c \in Clients, NEW i \in Items, Marked(c, i)
    PROVE  /\ rows'[i] \in Rows \cup {NoRow} /\ rows'[i].id = rows[i].id
           /\ rows[i] = NoRow <=> rows'[i] = NoRow
           /\ rows[i] # NoRow =>
                 /\ rows'[i].kind = rows[i].kind /\ rows'[i].state = rows[i].state
                 /\ rows'[i].hidden = rows[i].hidden /\ rows'[i].backlog = rows[i].backlog
                 /\ rows'[i].withheld = rows[i].withheld /\ rows'[i].cached = rows[i].cached
                 /\ rows'[i].dropped = rows[i].dropped /\ rows'[i].serve = rows[i].serve
                 /\ IF rows[i].released = 0
                    THEN rows'[i].released = 0 \/ (rows'[i].released = client[c].now
                                                     /\ rows[i].id = client[c].newly[i])
                    ELSE rows'[i].released = rows[i].released
  <1>1. rows[i] \in Rows \cup {NoRow}
    BY DEF TypeOK
  <1>2. CASE rows'[i] = rows[i]
    BY <1>1, <1>2
  <1>3. CASE /\ rows[i] \in Rows /\ rows[i].released = 0 /\ rows[i].id = client[c].newly[i]
             /\ client[c].now \in 0 .. MaxTime
             /\ rows'[i] = [rows[i] EXCEPT !.released = client[c].now]
    <2>1. rows'[i] \in Rows
      BY <1>3 DEF Rows
    <2> QED
      BY <1>3, <2>1, NoRowIsNone DEF Rows
  <1> QED
    BY <1>2, <1>3 DEF Marked

LEMMA AnsweredClient ==
    ASSUME NEW k \in ClientRecs
    PROVE  /\ Answered(k) \in ClientRecs /\ Answered(k).phase = "idle"
           /\ Answered(k).newly = [i \in Items |-> 0]
           /\ Answered(k).seen = k.seen \cup k.sent /\ Answered(k).missed = k.missed
           /\ Answered(k).checked = k.now
  <1> DEFINE idle == ClientIdle(k)
  <1>1. /\ idle \in ClientRecs /\ idle.phase = "idle" /\ idle.newly = [i \in Items |-> 0]
        /\ idle.seen = k.seen /\ idle.missed = k.missed
    BY ClientIdles
  <1>2. Answered(k) = [idle EXCEPT !.seen = idle.seen \cup k.sent, !.checked = k.now]
    BY DEF Answered
  <1> HIDE DEF idle
  <1>3. idle.seen \cup k.sent \in SUBSET Items /\ k.now \in 0 .. MaxTime
    BY <1>1 DEF ClientRecs
  <1> QED
    BY <1>1, <1>2, <1>3 DEF ClientRecs

LEMMA AnswerTyped ==
    ASSUME Typed, UNCHANGED droppedVars, NEW c \in Clients, Answer(c)
    PROVE  Typed' /\ \A i \in Items : Marked(c, i)
  <1>1. client[c] \in ClientRecs /\ client[c].now \in 0 .. MaxTime
    BY DEF Typed, TypeOK, ClientRecs
  <1>2. ASSUME NEW i \in Items
        PROVE  Marked(c, i)
    <2>1. rows'[i] = IF rows[i].id # 0 /\ rows[i].id = client[c].newly[i] /\ rows[i].released = 0
                     THEN [rows[i] EXCEPT !.released = client[c].now] ELSE rows[i]
      BY DEF Answer, Released
    <2>2. rows[i].id # 0 => rows[i] \in Rows
      BY NoRowIsNone DEF Typed, TypeOK
    <2> QED
      BY <1>1, <2>1, <2>2 DEF Marked
  <1>3. rows' \in [Items -> Rows \cup {NoRow}] /\ \A i \in Items : rows'[i].id = rows[i].id
    <2>1. rows' = [i \in Items |-> rows'[i]]
      BY DEF Answer, Released
    <2> QED
      BY <1>2, <2>1, MarkedRow DEF Typed
  <1>4. Answered(client[c]) \in ClientRecs /\ Answered(client[c]).newly = [i \in Items |-> 0]
    BY <1>1, AnsweredClient
  <1>5. client' = [client EXCEPT ![c] = Answered(client[c])]
    BY DEF Answer
  <1>6. /\ client' \in [Clients -> ClientRecs]
        /\ \A i \in Items, d \in Clients : client'[d].newly[i] <= made.rows[i]
    BY <1>4, <1>5 DEF Typed, TypeOK, IdsSound
  <1>7. TypeOK'
    BY <1>3, <1>6 DEF Answer, Typed, TypeOK, ghosts, droppedVars
  <1>8. IdsSound'
    BY <1>3, <1>6 DEF Answer, Typed, IdsSound, droppedVars
  <1> QED
    BY <1>2, <1>7, <1>8 DEF Typed

-----------------------------------------------------------------------------
(* The rules and the deletion of a feed, the end of a job, and a row that  *)
(* is deleted.                                                             *)

(* Every row follows a list of rules somebody sent or entered.             *)
RulesReplaced ==
    /\ UNCHANGED <<feed, document, made, poll, client, admin, time, lost>> /\ overwritten' = {}
    /\ rules' \in Seq(Rules) /\ Len(rules') <= MaxRules
    /\ feed.id # 0
    /\ \A i \in Items : rows'[i] = IF rows[i] = NoRow THEN NoRow
                                   ELSE Applied(rows[i], rules', feed.settings)

LEMMA ReplacedRow ==
    ASSUME TypeOK, RulesReplaced, NEW i \in Items
    PROVE  /\ rows'[i] \in Rows \cup {NoRow} /\ rows'[i].id = rows[i].id
           /\ rows[i] = NoRow <=> rows'[i] = NoRow
           /\ rows[i] # NoRow =>
                 /\ rows'[i].kind = rows[i].kind
                 /\ rows'[i].released = rows[i].released /\ rows'[i].dropped = rows[i].dropped
                 /\ \E measured \in BOOLEAN : rows'[i].hidden = Hides(rules', rows[i].kind, measured)
                 /\ ~rows[i].hidden \/ rows[i].state = "acquiring" \/ rows[i].state = "failed"
                      => rows'[i].state = rows[i].state /\ rows'[i].backlog = rows[i].backlog
  <1>1. CASE rows[i] = NoRow
    BY <1>1 DEF RulesReplaced
  <1>2. CASE rows[i] # NoRow
    <2>1. rows[i] \in Rows /\ rows'[i] = Applied(rows[i], rules', feed.settings)
      BY <1>2 DEF TypeOK, RulesReplaced
    <2>2. MeasuredOf(rows[i], feed.settings) \in BOOLEAN
      BY <2>1 DEF MeasuredOf, Rows
    <2> QED
      BY <1>2, <2>1, <2>2, AppliedRow, NoRowIsNone
  <1> QED
    BY <1>1, <1>2

LEMMA RulesTyped ==
    ASSUME Typed, UNCHANGED droppedVars, SetRules \/ SaveForm
    PROVE  Typed' /\ RulesReplaced
  <1>1. PICK list \in Seq(RulesSent) : ReplaceFeedRules(list)
    BY FormsMakeRules DEF SetRules, SaveForm
  <1>2. list \in Seq(Rules) /\ Len(list) <= MaxRules
    BY <1>1, CheckedRules DEF ReplaceFeedRules
  <1>3. RulesReplaced
    BY <1>1, <1>2 DEF ReplaceFeedRules, RulesReplaced
  <1>4. rows' \in [Items -> Rows \cup {NoRow}] /\ \A i \in Items : rows'[i].id = rows[i].id
    <2>1. rows' = [i \in Items |-> rows'[i]]
      BY <1>1 DEF ReplaceFeedRules
    <2> QED
      BY <1>3, <2>1, ReplacedRow DEF Typed
  <1>5. budget' \in [Operations -> Nat]
    BY BudgetTyped DEF SetRules, SaveForm, Operations, Typed
  <1>6. UNCHANGED source
    BY <1>1 DEF ReplaceFeedRules
  <1>7. TypeOK'
    BY <1>3, <1>4, <1>5, <1>6 DEF RulesReplaced, Typed, TypeOK, droppedVars
  <1>8. IdsSound'
    BY <1>3, <1>4 DEF RulesReplaced, Typed, IdsSound, droppedVars
  <1> QED
    BY <1>3, <1>7, <1>8 DEF Typed

FeedDeleted ==
    /\ feed' = NoFeed /\ document' = Empty /\ rules' = <<>>
    /\ \A i \in Items : rows'[i] = NoRow
    /\ lost' = {} /\ overwritten' = {}
    /\ UNCHANGED <<made, poll, client, admin, time>>

LEMMA DeleteFeedTyped ==
    ASSUME Typed, UNCHANGED droppedVars, DeleteFeed
    PROVE  Typed' /\ FeedDeleted
  <1>1. FeedDeleted /\ rows' = [i \in Items |-> NoRow] /\ UNCHANGED source
    BY DEF DeleteFeed, FeedDeleted
  <1>2. budget' \in [Operations -> Nat]
    BY BudgetTyped DEF DeleteFeed, Operations, Typed
  <1>3. rules' \in Seq(Rules) /\ Len(rules') <= MaxRules
    BY <1>1 DEF FeedDeleted
  <1>4. TypeOK'
    BY <1>1, <1>2, <1>3, TypesAtFirst DEF FeedDeleted, Typed, TypeOK, droppedVars
  <1>5. IdsSound'
    <2>1. made.feeds \in Nat /\ \A i \in Items : made.rows[i] \in Nat
      BY DEF Typed, TypeOK
    <2>2. feed'.id = 0 /\ \A i \in Items : rows'[i].id = 0
      BY <1>1, NoRowIsNone, TypesAtFirst DEF FeedDeleted
    <2> QED
      BY <1>1, <2>1, <2>2 DEF FeedDeleted, Typed, IdsSound, droppedVars
  <1> QED
    BY <1>1, <1>4, <1>5 DEF Typed

(* The row a job was for has what the job took of it, with an outcome.     *)
WorkSaved ==
    LET i == worker.item
        copy == worker.copy
    IN  /\ i \in Items /\ copy \in Rows /\ rows[i] \in Rows /\ rows[i].id = copy.id
        /\ rows'[i] \in Rows /\ rows'[i].id = copy.id /\ rows'[i].kind = copy.kind
        /\ rows'[i].backlog = copy.backlog
        /\ copy.state \in {"ready", "failed"} => rows'[i].state \in {"ready", "failed"}
        /\ rows'[i].hidden = rows[i].hidden /\ rows'[i].released = rows[i].released
        /\ rows'[i].dropped = rows[i].dropped
        /\ \A j \in Items \ {i} : rows'[j] = rows[j]
        /\ overwritten' = IF copy.kind # rows[i].kind THEN overwritten \cup {i} ELSE overwritten

LEMMA EndWorkTyped ==
    ASSUME Typed, EndWork
    PROVE  /\ Typed'
           /\ UNCHANGED <<feed, document, rules, made, poll, client, admin, time, lost>>
           /\ worker # WorkerIdle /\ worker' = WorkerIdle
           /\ WorkSaved \/ UNCHANGED <<rows, overwritten>>
  <1> DEFINE i == worker.item
             copy == worker.copy
  <1>1. /\ UNCHANGED <<source, feed, document, rules, made, poll, client, admin, time, budget,
                       lost, sweep>>
        /\ worker # WorkerIdle /\ worker' = WorkerIdle
    BY DEF EndWork
  <1>2. i \in Items /\ copy \in Rows /\ copy.id <= made.rows[i] /\ worker.settings \in Settings
    BY <1>1 DEF Typed, TypeOK, IdsSound, Workers
  <1>3. CASE Current(i, copy)
    <2>1. rows[i] \in Rows /\ rows[i].id = copy.id
      BY <1>2, <1>3 DEF Current, Typed, TypeOK
    <2>0. PICK row \in Outcomes(copy, worker.settings) :
             \E saved \in IF row.cached THEN {SavedRow(i, row)}
                          ELSE NotedGone(i, copy, SavedRow(i, row)) :
                rows' = [rows EXCEPT ![i] = saved]
      BY <1>3 DEF EndWork
    <2>2. PICK saved \in NotedGone(i, copy, SavedRow(i, row)) \cup {SavedRow(i, row)} :
             rows' = [rows EXCEPT ![i] = saved]
      BY <2>0
    <2>3. overwritten' = IF copy.kind # rows[i].kind THEN overwritten \cup {i} ELSE overwritten
      BY <1>3 DEF EndWork
    <2>4. /\ row \in Rows /\ row.id = copy.id /\ row.kind = copy.kind /\ row.backlog = copy.backlog
          /\ copy.state \in {"ready", "failed"} => row.state \in {"ready", "failed"}
      BY <1>2, OutcomeRow
    <2>5. /\ saved \in Rows /\ saved.id = row.id /\ saved.kind = row.kind
          /\ saved.state = row.state /\ saved.backlog = row.backlog
          /\ saved.hidden = rows[i].hidden /\ saved.released = rows[i].released
          /\ saved.dropped = rows[i].dropped
      BY <1>2, <2>1, <2>4, SavedRowKeeps
    <2> HIDE DEF i, copy
    <2>6. /\ rows' \in [Items -> Rows \cup {NoRow}] /\ rows'[i] = saved
          /\ \A j \in Items \ {i} : rows'[j] = rows[j]
          /\ overwritten' \subseteq Items
      BY <1>2, <2>2, <2>3, <2>5 DEF Typed, TypeOK
    <2>7. \A j \in Items : rows'[j].id = rows[j].id
      BY <2>1, <2>4, <2>5, <2>6
    <2>8. WorkSaved
      BY <1>2, <2>1, <2>3, <2>4, <2>5, <2>6 DEF WorkSaved, i, copy
    <2>9. TypeOK'
      BY <1>1, <2>6, TypesAtFirst DEF Typed, TypeOK
    <2>10. IdsSound'
      BY <1>1, <2>7 DEF Typed, IdsSound
    <2> QED
      BY <1>1, <2>8, <2>9, <2>10 DEF Typed
  <1>4. CASE ~Current(i, copy)
    <2>1. UNCHANGED <<rows, overwritten>>
      BY <1>4 DEF EndWork
    <2>2. TypeOK'
      BY <1>1, <2>1, TypesAtFirst DEF Typed, TypeOK
    <2>3. IdsSound'
      BY <1>1, <2>1 DEF Typed, IdsSound
    <2> QED
      BY <1>1, <2>1, <2>2, <2>3 DEF Typed
  <1> QED
    BY <1>3, <1>4

RowRemoved(i) ==
    /\ rows[i] \in Rows /\ rows'[i] = NoRow /\ \A j \in Items \ {i} : rows'[j] = rows[j]
    /\ lost' = IF rows[i].dropped = "no" THEN lost \cup {i} ELSE lost
    /\ overwritten' = overwritten \ {i}

LEMMA RemovedTyped ==
    ASSUME Typed, NEW i \in Items, rows[i] # NoRow, RemoveRow(i)
    PROVE  /\ RowRemoved(i)
           /\ rows' \in [Items -> Rows \cup {NoRow}] /\ \A j \in Items : rows'[j].id <= made.rows[j]
           /\ lost' \subseteq Items /\ overwritten' \subseteq Items
  <1>1. rows[i] \in Rows
    BY DEF Typed, TypeOK
  <1>2. rows' = [rows EXCEPT ![i] = NoRow]
    BY DEF RemoveRow
  <1>3. /\ rows' \in [Items -> Rows \cup {NoRow}] /\ rows'[i] = NoRow
        /\ \A j \in Items \ {i} : rows'[j] = rows[j]
    BY <1>2 DEF Typed, TypeOK
  <1>4. \A j \in Items : rows'[j].id <= made.rows[j]
    <2>1. \A j \in Items : made.rows[j] \in Nat /\ rows[j].id <= made.rows[j]
      BY DEF Typed, TypeOK, IdsSound
    <2> QED
      BY <1>3, <2>1, NoRowIsNone
  <1> QED
    BY <1>1, <1>3, <1>4 DEF RemoveRow, RowRemoved, Typed, TypeOK

LEMMA RemovalTyped ==
    ASSUME Typed, SweepDelete \/ DeleteEpisode
    PROVE  /\ Typed'
           /\ UNCHANGED <<feed, document, rules, made, poll, client, time, worker>>
           /\ \/ UNCHANGED <<rows, ghosts>> 
              \/ \E i \in Items : RowRemoved(i)
  <1>1. CASE SweepDelete
    <2>1. PICK i \in sweep.left :
             /\ sweep' = Swept(i)
             /\ \/ Current(i, sweep.copy[i]) /\ RemoveRow(i)
                \/ UNCHANGED <<rows, ghosts>>
      BY <1>1 DEF SweepDelete
    <2>2. /\ sweep' \in Sweeps /\ i \in Items
          /\ \A j \in Items : sweep'.copy[j] = NoRow \/ sweep'.copy[j] = sweep.copy[j]
          /\ \A j \in sweep'.left : j \in sweep.left /\ sweep'.copy[j] = sweep.copy[j]
      BY <2>1, SweptTyped
    <2>3. /\ \/ UNCHANGED <<rows, ghosts>> 
             \/ RowRemoved(i)
          /\ rows' \in [Items -> Rows \cup {NoRow}] /\ \A j \in Items : rows'[j].id <= made.rows[j]
          /\ lost' \subseteq Items /\ overwritten' \subseteq Items
      <3>1. CASE UNCHANGED <<rows, ghosts>>
        BY <3>1 DEF Typed, TypeOK, IdsSound, ghosts
      <3>2. CASE Current(i, sweep.copy[i]) /\ RemoveRow(i)
        BY <2>2, <3>2, RemovedTyped DEF Current
      <3> QED
        BY <2>1, <3>1, <3>2
    <2>4. ASSUME NEW j \in Items
          PROVE  sweep'.copy[j].id <= made.rows[j]
      <3>1. made.rows[j] \in Nat /\ sweep.copy[j].id <= made.rows[j]
        BY DEF Typed, TypeOK, IdsSound
      <3> QED
        BY <2>2, <3>1, NoRowIsNone
    <2>5. UNCHANGED <<source, feed, document, rules, made, poll, client, admin, time, budget, worker>>
      BY <1>1 DEF SweepDelete
    <2>6. TypeOK'
      BY <2>2, <2>3, <2>5 DEF Typed, TypeOK
    <2>7. IdsSound'
      BY <2>2, <2>3, <2>4, <2>5 DEF Typed, IdsSound
    <2> QED
      BY <2>2, <2>3, <2>5, <2>6, <2>7 DEF Typed
  <1>2. CASE DeleteEpisode
    <2>1. admin.item \in Items
      BY DEF Typed, TypeOK, AdminRecs
    <2>2. /\ \/ UNCHANGED <<rows, ghosts>> 
             \/ RowRemoved(admin.item)
          /\ rows' \in [Items -> Rows \cup {NoRow}] /\ \A j \in Items : rows'[j].id <= made.rows[j]
          /\ lost' \subseteq Items /\ overwritten' \subseteq Items
      <3>1. CASE UNCHANGED <<rows, ghosts>>
        BY <3>1 DEF Typed, TypeOK, IdsSound, ghosts
      <3>2. CASE rows[admin.item] # NoRow /\ RemoveRow(admin.item)
        BY <2>1, <3>2, RemovedTyped
      <3> QED
        BY <1>2, <3>1, <3>2 DEF DeleteEpisode
    <2>3. /\ UNCHANGED <<source, feed, document, rules, made, poll, client, time, budget, droppedVars>>
          /\ admin' = AdminIdle
      BY <1>2 DEF DeleteEpisode
    <2>4. TypeOK'
      BY <2>2, <2>3, TypesAtFirst DEF Typed, TypeOK, droppedVars
    <2>5. IdsSound'
      BY <2>2, <2>3 DEF Typed, IdsSound, droppedVars
    <2> QED
      BY <2>1, <2>2, <2>3, <2>4, <2>5 DEF Typed, droppedVars
  <1> QED
    BY <1>1, <1>2

-----------------------------------------------------------------------------
(* Every step.                                                             *)

(* The steps that leave what the properties are about as it is.            *)
QuietNext ==
    \/ /\ UNCHANGED droppedVars
       /\ \/ ChangeSource \/ LoadFeed \/ UpdateFeed \/ FeedChanged
          \/ PollStart \/ PollFails \/ PollFetch \/ PollSave \/ PollRecord
          \/ \E c \in Clients :
                Ask(c) \/ GiveUp(c) \/ SubscribeFetch(c) \/ ReadDocument(c) \/ ReadRows(c)
    \/ StartWork \/ AgeDropped \/ ListDropped \/ CheckLink \/ SweepSkips
    \/ SetServe \/ ReadForDeletion

LEMMA StepKinds ==
    ASSUME [Next]_vars
    PROVE  \/ UNCHANGED vars
           \/ QuietNext
           \/ PollSync /\ UNCHANGED droppedVars
           \/ (\E c \in Clients : Subscribe(c)) /\ UNCHANGED droppedVars
           \/ (\E c \in Clients : Answer(c)) /\ UNCHANGED droppedVars
           \/ (SetRules \/ SaveForm) /\ UNCHANGED droppedVars
           \/ DeleteFeed /\ UNCHANGED droppedVars
           \/ EndWork
           \/ SweepDelete \/ DeleteEpisode
  BY Zenon DEF Next, ServiceNext, DroppedNext, QuietNext

LEMMA QuietSteps ==
    ASSUME Typed, QuietNext
    PROVE  Typed' /\ Quiet
  <1>1. CASE UNCHANGED droppedVars /\ (ChangeSource \/ LoadFeed \/ UpdateFeed)
    <2>1. UNCHANGED <<rows, made, rules, ghosts>> /\ feed'.id = feed.id
      BY <1>1 DEF ChangeSource, LoadFeed, UpdateFeed, SaveFeed, storeVars
    <2> QED
      BY <1>1, <2>1, EditorTyped DEF Quiet, Calm
  <1>2. CASE UNCHANGED droppedVars /\ FeedChanged
    BY <1>2, FeedChangedTyped
  <1>3. CASE UNCHANGED droppedVars /\ (PollStart \/ PollFails \/ PollFetch \/ PollSave \/ PollRecord)
    <2>1. UNCHANGED <<rows, made, rules, ghosts>> /\ feed'.id = feed.id
      BY <1>3 DEF PollStart, PollFails, PollFetch, PollSave, PollRecord, SaveFeed, storeVars, ghosts
    <2> QED
      BY <1>3, <2>1, PollTyped DEF Quiet, Calm
  <1>4. ASSUME UNCHANGED droppedVars, NEW c \in Clients,
               Ask(c) \/ GiveUp(c) \/ SubscribeFetch(c) \/ ReadDocument(c) \/ ReadRows(c)
        PROVE  Typed' /\ Quiet
    <2>1. UNCHANGED <<rows, made, rules, ghosts, feed>>
      BY <1>4 DEF Ask, GiveUp, SubscribeFetch, ReadDocument, ReadRows, storeVars
    <2> QED
      BY <1>4, <2>1, ReadersTyped, ReadRowsTyped DEF Quiet, Calm
  <1>5. CASE ListDropped \/ SweepSkips \/ ReadForDeletion
    <2>1. UNCHANGED <<rows, made, rules, ghosts, feed>>
      BY <1>5 DEF ListDropped, SweepSkips, ReadForDeletion, storeVars
    <2> QED
      BY <1>5, <2>1, SweepTyped DEF Quiet, Calm
  <1>6. CASE StartWork \/ AgeDropped \/ CheckLink \/ SetServe
    BY <1>6, StartWorkTyped, AgeDroppedTyped, CheckLinkTyped, SetServeTyped
  <1> QED
    BY <1>1, <1>2, <1>3, <1>4, <1>5, <1>6 DEF QuietNext

LEMMA StepTyped == Typed /\ [Next]_vars => Typed'
  <1> SUFFICES ASSUME Typed, [Next]_vars
               PROVE  Typed'
    OBVIOUS
  <1>1. CASE UNCHANGED vars
    BY <1>1 DEF vars, serviceVars, storeVars, ghosts, droppedVars, Typed, TypeOK, IdsSound
  <1> QED
    BY <1>1, StepKinds, QuietSteps, PollSyncTyped, SubscribeTyped, AnswerTyped, RulesTyped,
       DeleteFeedTyped, EndWorkTyped, RemovalTyped

(* Every variable keeps its type: what actors work on are feeds, documents *)
(* and rows that were stored once, whatever has become of them since.      *)
THEOREM FeedTypes == Spec => []TypeOK
  <1>1. Typed => TypeOK
    BY DEF Typed
  <1> QED
    BY <1>1, InitTyped, StepTyped, PTL DEF Spec

(* An id is given once, to feeds and to the rows of each item, so that no  *)
(* copy of a row or a feed that is gone is ever taken for another's.       *)
THEOREM IdsGivenOnce == Spec => []Typed
  BY InitTyped, StepTyped, PTL DEF Spec

-----------------------------------------------------------------------------
(* Rows keep their release date.                                           *)

LEMMA IdsBounded ==
    ASSUME Typed, NEW i \in Items
    PROVE  rows[i].id \in Nat /\ made.rows[i] \in Nat /\ rows[i].id <= made.rows[i]
  <1>1. rows[i] \in Rows \cup {NoRow}
    BY DEF Typed, TypeOK
  <1>2. rows[i].id \in Nat
    BY <1>1, NoRowIsNone DEF Rows
  <1> QED
    BY <1>2 DEF Typed, TypeOK, IdsSound

(* A step takes a row away, leaves its id and release date, or makes one.  *)
KeptRow(i) ==
    \/ rows'[i] = NoRow
    \/ rows[i] # NoRow /\ rows'[i].id = rows[i].id /\ rows'[i].released = rows[i].released
    \/ Fresh(i) /\ (rows[i] = NoRow \/ feed.id = 0)

LEMMA RowsKept ==
    ASSUME Typed, [Next]_vars, NEW i \in Items
    PROVE  KeptRow(i) \/ ((\E c \in Clients : Answer(c)) /\ UNCHANGED droppedVars)
  <1>1. CASE UNCHANGED vars
    BY <1>1 DEF vars, serviceVars, storeVars, KeptRow
  <1>2. CASE QuietNext
    <2>1. Calm(i)
      BY <1>2, QuietSteps DEF Quiet
    <2> QED
      BY <2>1, NoRowIsNone DEF Calm, KeptRow
  <1>3. CASE PollSync /\ UNCHANGED droppedVars
    <2>1. FollowedAs(i, poll.data, poll.feed.settings) \/ rows' = rows
      BY <1>3, PollSyncTyped
    <2>2. CASE FollowedAs(i, poll.data, poll.feed.settings)
      <3>1. poll.data \in Documents /\ RoomForRows
        BY <1>3 DEF PollSync, Typed, TypeOK, PollRecs
      <3>2. /\ rows[i] # NoRow => rows'[i].id = rows[i].id /\ rows'[i].released = rows[i].released
            /\ rows[i] = NoRow => rows'[i] = NoRow \/ Fresh(i)
        BY <2>2, <3>1, SyncedRow DEF Typed
      <3> QED
        BY <3>2 DEF KeptRow
    <2> QED
      BY <2>1, <2>2 DEF KeptRow
  <1>4. CASE (\E c \in Clients : Subscribe(c)) /\ UNCHANGED droppedVars
    <2>1. PICK c \in Clients : UNCHANGED rows \/ NewFeed(client[c].data)
      BY <1>4, SubscribeTyped
    <2> QED
      BY <2>1 DEF NewFeed, KeptRow
  <1>5. CASE (SetRules \/ SaveForm) /\ UNCHANGED droppedVars
    BY <1>5, RulesTyped, ReplacedRow DEF KeptRow, Typed
  <1>6. CASE DeleteFeed /\ UNCHANGED droppedVars
    BY <1>6, DeleteFeedTyped DEF FeedDeleted, KeptRow
  <1>7. CASE EndWork
    BY <1>7, EndWorkTyped, NoRowIsNone DEF WorkSaved, KeptRow
  <1>8. CASE SweepDelete \/ DeleteEpisode
    BY <1>8, RemovalTyped DEF RowRemoved, KeptRow
  <1> QED
    BY <1>1, <1>2, <1>3, <1>4, <1>5, <1>6, <1>7, <1>8, StepKinds

(* An episode's release date is set once: no render that raced it, and no  *)
(* job that read the row before, moves or clears the date clients saw.     *)
THEOREM ReleaseDatesStay == Spec => ReleasedOnce
  <1>1. ASSUME Typed, [Next]_vars, NEW i \in Stored(rows),
               rows'[i] # NoRow, rows'[i].id = rows[i].id, rows[i].released # 0
        PROVE  rows'[i].released = rows[i].released
    <2>1. i \in Items /\ rows[i] # NoRow
      BY DEF Stored
    <2>2. CASE KeptRow(i)
      <3>1. rows[i].id \in Nat /\ made.rows[i] \in Nat /\ rows[i].id <= made.rows[i]
        BY <1>1, <2>1, IdsBounded
      <3> QED
        BY <1>1, <2>1, <2>2, <3>1 DEF KeptRow, Fresh
    <2>3. CASE (\E c \in Clients : Answer(c)) /\ UNCHANGED droppedVars
      <3>1. PICK c \in Clients : Marked(c, i)
        BY <1>1, <2>1, <2>3, AnswerTyped
      <3> QED
        BY <1>1, <2>1, <3>1, MarkedRow DEF Typed
    <2> QED
      BY <1>1, <2>1, <2>2, <2>3, RowsKept
  <1>2. Typed /\ [Next]_vars =>
          [\A i \in Stored(rows) :
              /\ rows'[i] # NoRow /\ rows'[i].id = rows[i].id /\ rows[i].released # 0
              => rows'[i].released = rows[i].released]_vars
    BY <1>1
  <1> QED
    BY <1>2, IdsGivenOnce, PTL DEF Spec, ReleasedOnce

-----------------------------------------------------------------------------
(* Hidden flags follow the rules.                                          *)

(* A feed that is made starts without rules, as its episodes are then.     *)
RulesFollowed == HiddenMatchesRules /\ (feed.id = 0 => rules = <<>>)

MatchesNow(i) ==
    Hides(rules, rows[i].kind, TRUE) = Hides(rules, rows[i].kind, FALSE) =>
        rows[i].hidden = Hides(rules, rows[i].kind, FALSE)

LEMMA NoRulesHideNothing ==
    ASSUME NEW kind, NEW measured
    PROVE  Hides(<<>>, kind, measured) = FALSE
  BY DEF Hides, Deciding

LEMMA InitFollowed == Init => RulesFollowed
  BY NoRowIsNone DEF Init, ServiceInit, RulesFollowed, HiddenMatchesRules, Stored

LEMMA EitherMeasure ==
    ASSUME NEW list, NEW kind, NEW hidden,
           \E measured \in BOOLEAN : hidden = Hides(list, kind, measured),
           Hides(list, kind, TRUE) = Hides(list, kind, FALSE)
    PROVE  hidden = Hides(list, kind, FALSE)
  <1>1. PICK measured \in BOOLEAN : hidden = Hides(list, kind, measured)
    OBVIOUS
  <1>2. CASE measured = TRUE
    BY <1>1, <1>2, Zenon
  <1>3. CASE measured = FALSE
    BY <1>1, <1>3, Zenon
  <1> QED
    BY <1>2, <1>3, Zenon

LEMMA StepFollowed == Typed /\ RulesFollowed /\ [Next]_vars => RulesFollowed'
  <1> SUFFICES ASSUME Typed, RulesFollowed, [Next]_vars
               PROVE  RulesFollowed'
    OBVIOUS
  <1>1. ASSUME UNCHANGED rules, feed'.id = 0 => feed.id = 0,
               \A i \in Items :
                  i \notin overwritten' /\ rows'[i] # NoRow =>
                    \/ /\ i \notin overwritten /\ rows[i] # NoRow
                       /\ rows'[i].kind = rows[i].kind /\ rows'[i].hidden = rows[i].hidden
                    \/ \E measured \in BOOLEAN :
                          rows'[i].hidden = Hides(rules, rows'[i].kind, measured)
        PROVE  RulesFollowed'
    <2>1. ASSUME NEW i \in Stored(rows') \ overwritten',
                 Hides(rules, rows'[i].kind, TRUE) = Hides(rules, rows'[i].kind, FALSE)
          PROVE  rows'[i].hidden = Hides(rules, rows'[i].kind, FALSE)
      <3>1. i \in Items /\ rows'[i] # NoRow /\ i \notin overwritten'
        BY DEF Stored
      <3>2. CASE /\ i \notin overwritten /\ rows[i] # NoRow
                 /\ rows'[i].kind = rows[i].kind /\ rows'[i].hidden = rows[i].hidden
        BY <2>1, <3>1, <3>2 DEF RulesFollowed, HiddenMatchesRules, Stored
      <3>3. CASE \E measured \in BOOLEAN : rows'[i].hidden = Hides(rules, rows'[i].kind, measured)
        BY <2>1, <3>3, EitherMeasure, Zenon
      <3> QED
        BY <1>1, <3>1, <3>2, <3>3
    <2> QED
      BY <1>1, <2>1, Zenon DEF RulesFollowed, HiddenMatchesRules
  <1>2. CASE UNCHANGED vars
    <2>1. UNCHANGED <<rules, rows, overwritten, feed>>
      BY <1>2 DEF vars, serviceVars, storeVars, ghosts
    <2> QED
      BY <1>1, <2>1
  <1>3. CASE QuietNext
    <2>1. Quiet
      BY <1>3, QuietSteps
    <2> QED
      BY <1>1, <2>1, NoRowIsNone DEF Quiet, Calm, ghosts
  <1>4. CASE PollSync /\ UNCHANGED droppedVars
    <2>1. poll.data \in Documents /\ RoomForRows /\ UNCHANGED <<feed, rules>>
      BY <1>4 DEF PollSync, Typed, TypeOK, PollRecs
    <2>2. CASE UNCHANGED <<rows, overwritten>>
      BY <1>1, <2>1, <2>2
    <2>3. CASE /\ rows' = Synced(poll.data, poll.feed.settings)
               /\ overwritten' = overwritten \ {i \in Items : rows[i] # NoRow /\ rows'[i].kind # rows[i].kind}
      <3>1. ASSUME NEW i \in Items, rows'[i] # NoRow, i \notin overwritten'
            PROVE  \/ /\ i \notin overwritten /\ rows[i] # NoRow
                      /\ rows'[i].kind = rows[i].kind /\ rows'[i].hidden = rows[i].hidden
                   \/ \E measured \in BOOLEAN :
                         rows'[i].hidden = Hides(rules, rows'[i].kind, measured)
        <4>1. FollowedAs(i, poll.data, poll.feed.settings)
          BY <2>3, SyncedRows
        <4>2. \/ /\ rows[i] # NoRow /\ rows'[i].kind = rows[i].kind
                 /\ rows'[i].hidden = rows[i].hidden
              \/ \E measured \in BOOLEAN : rows'[i].hidden = Hides(rules, rows'[i].kind, measured)
          BY <2>1, <3>1, <4>1, SyncedRow, Zenon DEF Typed
        <4>3. rows[i] # NoRow /\ rows'[i].kind = rows[i].kind => i \notin overwritten
          BY <2>3, <3>1
        <4> QED
          BY <4>2, <4>3, Zenon
      <3> QED
        BY <1>1, <2>1, <3>1, Zenon
    <2>4. \/ UNCHANGED <<rows, overwritten>>
          \/ /\ rows' = Synced(poll.data, poll.feed.settings)
             /\ overwritten' = overwritten \ {i \in Items : rows[i] # NoRow /\ rows'[i].kind # rows[i].kind}
      BY <1>4 DEF PollSync
    <2> QED
      BY <2>2, <2>3, <2>4
  <1>5. CASE (\E c \in Clients : Subscribe(c)) /\ UNCHANGED droppedVars
    <2>1. PICK c \in Clients : Quiet \/ NewFeed(client[c].data)
      BY <1>5, SubscribeTyped
    <2>2. CASE Quiet
      BY <1>1, <2>2, NoRowIsNone DEF Quiet, Calm, ghosts
    <2>3. CASE NewFeed(client[c].data)
      <3>1. rules = <<>> /\ UNCHANGED rules /\ made.feeds \in Nat /\ feed'.id # 0
        BY <2>3 DEF NewFeed, RulesFollowed, Typed, TypeOK
      <3>2. ASSUME NEW i \in Stored(rows')
            PROVE  rows'[i].hidden = FALSE
        <4>1. rows'[i] \in Rows /\ ~rows'[i].hidden
          BY <2>3 DEF NewFeed, Stored, Fresh
        <4> QED
          BY <4>1 DEF Rows
      <3> QED
        BY <3>1, <3>2, NoRulesHideNothing, Zenon DEF RulesFollowed, HiddenMatchesRules
    <2> QED
      BY <2>1, <2>2, <2>3
  <1>6. CASE (\E c \in Clients : Answer(c)) /\ UNCHANGED droppedVars
    <2>1. PICK c \in Clients : Answer(c) /\ \A i \in Items : Marked(c, i)
      BY <1>6, AnswerTyped
    <2>2. UNCHANGED <<rules, feed, overwritten>>
      BY <2>1 DEF Answer, ghosts
    <2> QED
      BY <1>1, <2>1, <2>2, MarkedRow DEF Typed
  <1>7. CASE (SetRules \/ SaveForm) /\ UNCHANGED droppedVars
    <2>1. RulesReplaced
      BY <1>7, RulesTyped
    <2>2. ASSUME NEW i \in Stored(rows'),
                 Hides(rules', rows'[i].kind, TRUE) = Hides(rules', rows'[i].kind, FALSE)
          PROVE  rows'[i].hidden = Hides(rules', rows'[i].kind, FALSE)
      <3>1. /\ rows'[i].kind = rows[i].kind
            /\ \E measured \in BOOLEAN : rows'[i].hidden = Hides(rules', rows[i].kind, measured)
        BY <2>1, ReplacedRow DEF Stored, Typed
      <3> QED
        BY <2>2, <3>1, EitherMeasure, Zenon
    <2>3. feed'.id # 0
      BY <2>1 DEF RulesReplaced
    <2> QED
      BY <2>2, <2>3, Zenon DEF RulesFollowed, HiddenMatchesRules
  <1>8. CASE DeleteFeed /\ UNCHANGED droppedVars
    BY <1>8, DeleteFeedTyped DEF FeedDeleted, RulesFollowed, HiddenMatchesRules, Stored
  <1>9. CASE EndWork
    <2>1. UNCHANGED <<feed, rules>> /\ (WorkSaved \/ UNCHANGED <<rows, overwritten>>)
      BY <1>9, EndWorkTyped
    <2>2. CASE WorkSaved
      <3>1. ASSUME NEW i \in Items, rows'[i] # NoRow, i \notin overwritten'
            PROVE  /\ i \notin overwritten /\ rows[i] # NoRow
                   /\ rows'[i].kind = rows[i].kind /\ rows'[i].hidden = rows[i].hidden
        BY <2>2, <3>1, NoRowIsNone DEF WorkSaved
      <3> QED
        BY <1>1, <2>1, <3>1
    <2>3. CASE UNCHANGED <<rows, overwritten>>
      BY <1>1, <2>1, <2>3
    <2> QED
      BY <2>1, <2>2, <2>3
  <1>10. CASE SweepDelete \/ DeleteEpisode
    <2>1. /\ UNCHANGED <<feed, rules>>
          /\ \/ UNCHANGED <<rows, overwritten>>
             \/ \E i \in Items : RowRemoved(i)
      BY <1>10, RemovalTyped DEF ghosts
    <2>2. ASSUME NEW i \in Items, rows'[i] # NoRow, i \notin overwritten'
          PROVE  /\ i \notin overwritten /\ rows[i] # NoRow
                 /\ rows'[i].kind = rows[i].kind /\ rows'[i].hidden = rows[i].hidden
      BY <2>1, <2>2 DEF RowRemoved
    <2> QED
      BY <1>1, <2>1, <2>2
  <1> QED
    BY <1>2, <1>3, <1>4, <1>5, <1>6, <1>7, <1>8, <1>9, <1>10, StepKinds

(* However polls, saves of rules, jobs and deletions interleave, a stored  *)
(* episode is hidden as the rules say, unless only its file's length would *)
(* tell or a job has written an older title back.                          *)
THEOREM RowsFollowRules == Spec => []HiddenMatchesRules
  <1>1. RulesFollowed => HiddenMatchesRules
    BY DEF RulesFollowed
  <1>2. Typed /\ RulesFollowed /\ [Next]_vars => Typed' /\ RulesFollowed'
    BY StepTyped, StepFollowed
  <1> QED
    BY <1>1, <1>2, InitTyped, InitFollowed, PTL DEF Spec

-----------------------------------------------------------------------------
(* The document and the rows.                                              *)

Agree(i) == i \in Listed(document) <=> (rows[i] # NoRow /\ rows[i].dropped = "no")

Syncing == poll.phase = "sync" /\ poll.feed.id = feed.id

(* Also while a poll of a feed that has been deleted is yet to find that   *)
(* its feed is gone; and what a poll of this one is to bring the episodes  *)
(* in step with is the stored document.                                    *)
InStep ==
    /\ Syncing => document = poll.data
    /\ feed.id # 0 /\ ~Syncing /\ Listed(document) # {} => \A i \in Items \ lost : Agree(i)

LEMMA InitInStep == Init => InStep
  BY DEF Init, ServiceInit, InStep, Syncing, NoFeed, PollIdle

(* Rows that only change otherwise.                                        *)
LEMMA StillInStep ==
    ASSUME InStep, UNCHANGED document, feed'.id = feed.id,
           Syncing' <=> Syncing, Syncing => poll'.data = poll.data,
           \A i \in Items \ lost' :
              i \notin lost /\ (rows'[i] # NoRow /\ rows'[i].dropped = "no"
                                 <=> rows[i] # NoRow /\ rows[i].dropped = "no")
    PROVE  InStep'
  BY DEF InStep, Agree

LEMMA QuietInStep ==
    ASSUME Typed, InStep, QuietNext
    PROVE  InStep'
  <1>1. Quiet
    BY QuietSteps
  <1>2. \A i \in Items :
           rows'[i] # NoRow /\ rows'[i].dropped = "no" <=> rows[i] # NoRow /\ rows[i].dropped = "no"
    BY <1>1, NoRowIsNone DEF Quiet, Calm
  <1>3. CASE PollSave
    <2>1. /\ poll.phase = "save" /\ poll \in PollRecs /\ UNCHANGED <<feed, rows, lost>>
          /\ \/ feed.id = poll.feed.id /\ document' = poll.data
                /\ poll' = [poll EXCEPT !.phase = "sync", !.feed.tag = TagOf(poll.data)]
             \/ poll' = [poll EXCEPT !.phase = "record"] /\ UNCHANGED document
      BY <1>3 DEF PollSave, Typed, TypeOK, ghosts
    <2>2. CASE /\ feed.id = poll.feed.id /\ document' = poll.data
               /\ poll' = [poll EXCEPT !.phase = "sync", !.feed.tag = TagOf(poll.data)]
      <3>1. poll' = [poll EXCEPT !.phase = "sync", !.feed = [poll.feed EXCEPT !.tag = TagOf(poll.data)]]
        BY <2>1, <2>2 DEF PollRecs
      <3>2. [poll.feed EXCEPT !.tag = TagOf(poll.data)].id = poll.feed.id
        BY <2>1 DEF PollRecs, Feeds
      <3>3. poll'.phase = "sync" /\ poll'.feed.id = poll.feed.id /\ poll'.data = poll.data
        BY <2>1, <3>1, <3>2 DEF PollRecs
      <3> QED
        BY <2>1, <2>2, <3>3 DEF InStep, Syncing
    <2>3. CASE poll' = [poll EXCEPT !.phase = "record"] /\ UNCHANGED document
      <3>1. poll'.phase = "record"
        BY <2>1, <2>3 DEF PollRecs
      <3> QED
        BY <2>1, <2>3, <3>1, StillInStep DEF Syncing
    <2> QED
      BY <2>1, <2>2, <2>3
  <1>4. CASE PollStart \/ PollFails \/ PollFetch \/ PollRecord
    <2>1. poll.phase # "sync" /\ poll'.phase # "sync" /\ UNCHANGED document
      <3>1. poll \in PollRecs
        BY DEF Typed, TypeOK
      <3>2. CASE PollStart
        BY <3>1, <3>2 DEF PollStart, PollRecs, storeVars
      <3>3. CASE PollFails
        BY <3>1, <3>3 DEF PollFails, PollRecs, storeVars
      <3>4. CASE PollFetch
        BY <3>1, <3>4 DEF PollFetch, PollRecs, storeVars
      <3>5. CASE PollRecord
        BY <3>5 DEF PollRecord, PollIdle
      <3> QED
        BY <1>4, <3>2, <3>3, <3>4, <3>5
    <2> QED
      BY <1>1, <1>2, <2>1, StillInStep DEF Syncing, Quiet, ghosts
  <1>5. CASE UNCHANGED <<poll, document>>
    BY <1>1, <1>2, <1>5, StillInStep DEF Syncing, Quiet, ghosts
  <1>6. \/ PollSave \/ PollStart \/ PollFails \/ PollFetch \/ PollRecord
        \/ UNCHANGED <<poll, document>>
    BY DEF QuietNext, ChangeSource, LoadFeed, UpdateFeed, FeedChanged, Ask, GiveUp,
           SubscribeFetch, ReadDocument, ReadRows, StartWork, AgeDropped, ListDropped, CheckLink,
           SweepSkips, SetServe, ReadForDeletion, storeVars
  <1> QED
    BY <1>3, <1>4, <1>5, <1>6

LEMMA SyncInStep ==
    ASSUME Typed, InStep, UNCHANGED droppedVars, PollSync
    PROVE  InStep'
  <1>1. /\ poll.phase = "sync" /\ RoomForRows /\ poll.data \in Documents /\ poll.feed.id # 0
        /\ UNCHANGED <<feed, document>>
    BY DEF PollSync, Typed, TypeOK, PollRecs, IdsSound
  <1>2. poll'.phase = "record"
    BY DEF PollSync, Typed, TypeOK, PollRecs
  <1>3. CASE feed.id # poll.feed.id
    <2>1. UNCHANGED <<rows, lost>>
      BY <1>3 DEF PollSync
    <2> QED
      BY <1>1, <1>2, <1>3, <2>1, StillInStep DEF Syncing
  <1>4. CASE feed.id = poll.feed.id
    <2>1. document = poll.data
      BY <1>1, <1>4 DEF InStep, Syncing
    <2>2. ASSUME Listed(document) # {}, NEW i \in Items \ lost'
          PROVE  Agree(i)'
      <3>1. CASE rows' = Synced(poll.data, poll.feed.settings)
        <4>1. FollowedAs(i, poll.data, poll.feed.settings)
          BY <3>1, SyncedRows
        <4>2. i \in Listed(poll.data) <=> (rows'[i] # NoRow /\ rows'[i].dropped = "no")
          BY <1>1, <2>1, <2>2, <4>1, SyncedRow DEF Typed
        <4> QED
          BY <1>1, <2>1, <4>2 DEF Agree
      <3>2. CASE UNCHANGED rows /\ lost' = lost \cup OutOfStep(poll.data)
        BY <1>1, <2>1, <2>2, <3>2 DEF OutOfStep, Agree
      <3> QED
        BY <1>4, <3>1, <3>2 DEF PollSync
    <2> QED
      BY <1>1, <1>2, <2>2 DEF InStep, Syncing
  <1> QED
    BY <1>3, <1>4

LEMMA StepInStep == Typed /\ InStep /\ [Next]_vars => InStep'
  <1> SUFFICES ASSUME Typed, InStep, [Next]_vars
               PROVE  InStep'
    OBVIOUS
  <1>1. CASE UNCHANGED vars
    BY <1>1 DEF vars, serviceVars, storeVars, ghosts, InStep, Syncing, Agree
  <1>2. CASE (\E c \in Clients : Subscribe(c)) /\ UNCHANGED droppedVars
    <2>1. PICK c \in Clients :
             /\ UNCHANGED poll
             /\ (Quiet /\ UNCHANGED <<rows, feed, document>>) \/ NewFeed(client[c].data)
      BY <1>2, SubscribeTyped
    <2>2. CASE Quiet /\ UNCHANGED <<rows, feed, document>>
      BY <2>1, <2>2, StillInStep DEF Syncing, Quiet, ghosts
    <2>3. CASE NewFeed(client[c].data)
      <3>1. ~Syncing'
        <4>1. made.feeds \in Nat /\ poll.feed.id \in Nat
          BY DEF Typed, TypeOK, PollRecs, Feeds
        <4>2. poll.phase = "sync" => poll.feed.id <= made.feeds
          BY DEF Typed, IdsSound
        <4> QED
          BY <2>1, <2>3, <4>1, <4>2 DEF NewFeed, Syncing
      <3>2. \A i \in Items : Agree(i)'
        BY <2>3 DEF NewFeed, Agree, Fresh
      <3> QED
        BY <3>1, <3>2 DEF InStep
    <2> QED
      BY <2>1, <2>2, <2>3
  <1>3. CASE (\E c \in Clients : Answer(c)) /\ UNCHANGED droppedVars
    <2>1. PICK c \in Clients : Answer(c) /\ \A i \in Items : Marked(c, i)
      BY <1>3, AnswerTyped
    <2>2. UNCHANGED <<feed, document, poll, lost>>
      BY <2>1 DEF Answer, ghosts
    <2>3. \A i \in Items :
             rows'[i] # NoRow /\ rows'[i].dropped = "no" <=> rows[i] # NoRow /\ rows[i].dropped = "no"
      BY <2>1, MarkedRow DEF Typed
    <2> QED
      BY <2>2, <2>3, StillInStep DEF Syncing
  <1>4. CASE (SetRules \/ SaveForm) /\ UNCHANGED droppedVars
    <2>1. RulesReplaced
      BY <1>4, RulesTyped
    <2>2. \A i \in Items :
             rows'[i] # NoRow /\ rows'[i].dropped = "no" <=> rows[i] # NoRow /\ rows[i].dropped = "no"
      BY <2>1, ReplacedRow DEF Typed
    <2> QED
      BY <2>1, <2>2, StillInStep DEF Syncing, RulesReplaced
  <1>5. CASE DeleteFeed /\ UNCHANGED droppedVars
    <2>1. FeedDeleted
      BY <1>5, DeleteFeedTyped
    <2>2. feed'.id = 0 /\ (poll.phase = "sync" => poll.feed.id # 0)
      BY <2>1, TypesAtFirst DEF FeedDeleted, Typed, IdsSound
    <2> QED
      BY <2>1, <2>2 DEF FeedDeleted, InStep, Syncing
  <1>6. CASE EndWork
    <2>1. UNCHANGED <<feed, document, poll, lost>> /\ (WorkSaved \/ UNCHANGED rows)
      BY <1>6, EndWorkTyped
    <2>2. \A i \in Items :
             rows'[i] # NoRow /\ rows'[i].dropped = "no" <=> rows[i] # NoRow /\ rows[i].dropped = "no"
      BY <2>1, NoRowIsNone DEF WorkSaved
    <2> QED
      BY <2>1, <2>2, StillInStep DEF Syncing
  <1>7. CASE SweepDelete \/ DeleteEpisode
    <2>1. /\ UNCHANGED <<feed, document, poll>>
          /\ \/ UNCHANGED <<rows, lost>>
             \/ \E i \in Items : RowRemoved(i)
      BY <1>7, RemovalTyped DEF ghosts
    <2>2. ASSUME NEW i \in Items, i \notin lost'
          PROVE  i \notin lost /\ (rows'[i] # NoRow /\ rows'[i].dropped = "no"
                                     <=> rows[i] # NoRow /\ rows[i].dropped = "no")
      BY <2>1, <2>2 DEF RowRemoved
    <2> QED
      BY <2>1, <2>2, StillInStep DEF Syncing
  <1> QED
    BY <1>1, <1>2, <1>3, <1>4, <1>5, <1>6, <1>7, StepKinds, QuietInStep, SyncInStep

LEMMA AlwaysInStep == Spec => [](Typed /\ InStep)
  <1>1. Typed /\ InStep /\ [Next]_vars => Typed' /\ InStep'
    BY StepTyped, StepInStep
  <1> QED
    BY <1>1, InitTyped, InitInStep, PTL DEF Spec

(* Between polls the stored document and the episodes agree on what the    *)
(* source lists, but for what a sync that failed or a deletion from an old *)
(* list put out of step.                                                   *)
THEOREM DocumentFollowed == Spec => []RowsFollowDocument
  <1>1. InStep => RowsFollowDocument
    BY DEF InStep, Syncing, Agree, RowsFollowDocument
  <1> QED
    BY <1>1, AlwaysInStep, PTL

LEMMA LeastNumber ==
    ASSUME NEW T, T \subseteq Nat, T # {}
    PROVE  \E n \in T : \A m \in T : n <= m
  <1>1. PICK n \in T : \A m \in T : ~(<<m, n>> \in OpToRel(<, Nat))
    BY NatLessThanWellFounded, WFMin
  <1>2. \A m \in T : ~(m < n)
    BY <1>1 DEF OpToRel
  <1> QED
    BY <1>2

LEMMA SomethingPublished ==
    ASSUME NEW rs, NEW s, InFeed(rs, s) # {}
    PROVE  Published(rs, s) # {} /\ Published(rs, s) \subseteq InFeed(rs, s)
  <1>1. \A T \in SUBSET InFeed(rs, s) : T # {} => OldestOf(T) # {} /\ OldestOf(T) \subseteq T
    <2>1. InFeed(rs, s) \subseteq Nat
      BY DEF InFeed, Stored, Items
    <2>2. \A T : OldestOf(T) \subseteq T
      BY DEF OldestOf
    <2> QED
      BY <2>1, <2>2, LeastNumber DEF OldestOf
  <1>2. InOrder(rs, s) \subseteq InFeed(rs, s)
    BY DEF InOrder
  <1>3. Fallback(rs, s) # {} /\ Fallback(rs, s) \subseteq InFeed(rs, s)
    <2> DEFINE visible == {i \in InFeed(rs, s) : Visible(rs[i])}
    <2>1. Fallback(rs, s) = OldestOf(IF visible # {} THEN visible ELSE InFeed(rs, s))
      BY DEF Fallback
    <2>2. visible \in SUBSET InFeed(rs, s)
      OBVIOUS
    <2> HIDE DEF visible
    <2> QED
      BY <1>1, <2>1, <2>2
  <1> QED
    BY <1>2, <1>3 DEF Published

(* As long as the source lists episodes the served feed holds some: of     *)
(* those there are the oldest, if all of them are withheld, hidden or      *)
(* waiting.                                                                *)
THEOREM FeedIsNeverEmpty == Spec => []NeverEmpty
  <1>1. ASSUME InStep, feed.id # 0, poll.phase # "sync", lost = {}, Listed(document) # {}
        PROVE  Output(rows, feed.settings, document) # {}
    <2>1. \A i \in Items : Agree(i)
      BY <1>1 DEF InStep, Syncing
    <2>2. PICK i \in Items : i \in Listed(document)
      BY <1>1 DEF Listed
    <2>3. i \in InFeed(rows, feed.settings)
      BY <2>1, <2>2 DEF Agree, InFeed, Stored
    <2>4. PICK j \in Published(rows, feed.settings) : j \in InFeed(rows, feed.settings)
      BY <2>3, SomethingPublished
    <2>5. j \in Listed(document) \/ rows[j].dropped # "no"
      BY <2>1, <2>4 DEF Agree, InFeed, Stored
    <2> QED
      BY <2>4, <2>5 DEF Output
  <1>2. InStep => NeverEmpty
    BY <1>1 DEF NeverEmpty
  <1> QED
    BY <1>2, AlwaysInStep, PTL

-----------------------------------------------------------------------------
(* The job's copy.                                                         *)

Claiming == worker.item \in Items /\ Current(worker.item, worker.copy)

(* A job works on an episode that it has claimed, and nobody else then     *)
(* changes how that one is published, or on one that is settled.           *)
WorkSound ==
    worker # WorkerIdle =>
        /\ worker.copy.state \in {"acquiring", "ready", "failed"}
        /\ Claiming /\ worker.copy.state = "acquiring" =>
              /\ rows[worker.item].state = "acquiring"
              /\ rows[worker.item].backlog = worker.copy.backlog

LEMMA InitWork == Init => WorkSound
  BY DEF Init, DroppedInit, WorkSound

(* A row keeps what its place depends on, if it is seen or being prepared. *)
Placed(i) ==
    rows[i] # NoRow /\ (~rows[i].hidden \/ rows[i].state = "acquiring") =>
        \/ rows'[i] = NoRow
        \/ /\ rows'[i].backlog = rows[i].backlog
           /\ rows[i].state = "acquiring" => rows'[i].state = "acquiring"
           /\ Reconciled \/ (Settled(rows[i]) => Settled(rows'[i]))

LEMMA RowsPlaced ==
    ASSUME Typed, [Next]_vars
    PROVE  EndWork \/ (\A i \in Items : Placed(i)) \/ \A i \in Items : rows'[i] = NoRow \/ Fresh(i)
  <1>1. CASE UNCHANGED vars
    BY <1>1 DEF vars, serviceVars, storeVars, Placed
  <1>2. CASE QuietNext
    BY <1>2, QuietSteps DEF Quiet, Calm, Placed
  <1>3. CASE PollSync /\ UNCHANGED droppedVars
    <2>1. (\A i \in Items : FollowedAs(i, poll.data, poll.feed.settings)) \/ rows' = rows
      BY <1>3, PollSyncTyped
    <2>2. CASE \A i \in Items : FollowedAs(i, poll.data, poll.feed.settings)
      <3>1. poll.data \in Documents /\ RoomForRows
        BY <1>3 DEF PollSync, Typed, TypeOK, PollRecs
      <3>2. ASSUME NEW i \in Items, rows[i] # NoRow, ~rows[i].hidden \/ rows[i].state = "acquiring"
            PROVE  rows'[i].state = rows[i].state /\ rows'[i].backlog = rows[i].backlog
        BY <2>2, <3>1, <3>2, SyncedRow DEF Typed
      <3> QED
        BY <3>2 DEF Placed, Settled
    <2> QED
      BY <2>1, <2>2 DEF Placed
  <1>4. CASE (\E c \in Clients : Subscribe(c)) /\ UNCHANGED droppedVars
    <2>1. PICK c \in Clients : UNCHANGED rows \/ NewFeed(client[c].data)
      BY <1>4, SubscribeTyped
    <2> QED
      BY <2>1 DEF NewFeed, Placed
  <1>5. CASE (\E c \in Clients : Answer(c)) /\ UNCHANGED droppedVars
    <2>1. PICK c \in Clients : \A i \in Items : Marked(c, i)
      BY <1>5, AnswerTyped
    <2> QED
      BY <2>1, MarkedRow DEF Placed, Settled, Typed
  <1>6. CASE (SetRules \/ SaveForm) /\ UNCHANGED droppedVars
    <2>1. RulesReplaced
      BY <1>6, RulesTyped
    <2> QED
      BY <2>1, ReplacedRow DEF Placed, Settled, Typed
  <1>7. CASE DeleteFeed /\ UNCHANGED droppedVars
    BY <1>7, DeleteFeedTyped DEF FeedDeleted, Placed
  <1>8. CASE SweepDelete \/ DeleteEpisode
    BY <1>8, RemovalTyped DEF RowRemoved, Placed
  <1> QED
    BY <1>1, <1>2, <1>3, <1>4, <1>5, <1>6, <1>7, <1>8, StepKinds

LEMMA OthersKeepWorker ==
    ASSUME [Next]_vars
    PROVE  StartWork \/ EndWork \/ UNCHANGED worker
  BY StepKinds DEF QuietNext, vars, droppedVars, AgeDropped, ListDropped, CheckLink, SweepSkips,
     SetServe, ReadForDeletion, SweepDelete, DeleteEpisode

LEMMA StepWork == Typed /\ WorkSound /\ [Next]_vars => WorkSound'
  <1> SUFFICES ASSUME Typed, WorkSound, [Next]_vars
               PROVE  WorkSound'
    OBVIOUS
  <1>1. CASE StartWork
    <2>1. PICK i \in Stored(rows) :
             /\ Preparable(rows[i])
             /\ rows' = [rows EXCEPT ![i] = Claimed(rows[i])]
             /\ worker' = [item |-> i, copy |-> Claimed(rows[i]), settings |-> feed.settings]
      BY <1>1 DEF StartWork
    <2>2. i \in Items /\ rows[i] \in Rows
      BY DEF Stored, Typed, TypeOK
    <2>3. /\ worker'.item = i /\ worker'.copy = Claimed(rows[i]) /\ rows'[i] = Claimed(rows[i])
          /\ Claimed(rows[i]).state \in {"acquiring", "ready", "failed"}
      BY <2>1, <2>2, ClaimedRow DEF Typed, TypeOK
    <2> QED
      BY <2>3 DEF WorkSound
  <1>2. CASE EndWork
    BY <1>2, EndWorkTyped DEF WorkSound, WorkerIdle
  <1>3. CASE ~StartWork /\ ~EndWork /\ worker # WorkerIdle
    <2> DEFINE i == worker.item
               copy == worker.copy
    <2>1. UNCHANGED worker /\ copy \in Rows /\ i \in Items /\ copy.id <= made.rows[i]
      BY <1>3, OthersKeepWorker DEF Typed, IdsSound
    <2>2. copy.state \in {"acquiring", "ready", "failed"}
      BY <1>3 DEF WorkSound
    <2>3. ASSUME rows'[i] # NoRow, rows'[i].id = copy.id, copy.state = "acquiring"
          PROVE  rows'[i].state = "acquiring" /\ rows'[i].backlog = copy.backlog
      <3>1. ~Fresh(i)
        <4>1. copy.id \in Nat /\ made.rows[i] \in Nat
          BY <2>1, IdsBounded DEF Rows
        <4> QED
          BY <2>1, <2>3, <4>1 DEF Fresh
      <3>2. rows[i] # NoRow /\ rows[i].id = copy.id
        <4>1. CASE KeptRow(i)
          BY <2>3, <3>1, <4>1 DEF KeptRow
        <4>2. CASE (\E c \in Clients : Answer(c)) /\ UNCHANGED droppedVars
          BY <2>1, <2>3, <4>2, AnswerTyped, MarkedRow DEF Typed
        <4> QED
          BY <2>1, <4>1, <4>2, RowsKept
      <3>3. rows[i].state = "acquiring" /\ rows[i].backlog = copy.backlog
        BY <1>3, <2>1, <2>3, <3>2 DEF WorkSound, Claiming, Current
      <3>4. Placed(i)
        BY <1>3, <2>1, <2>3, <3>1, RowsPlaced
      <3> QED
        BY <2>3, <3>2, <3>3, <3>4 DEF Placed
    <2> QED
      BY <2>1, <2>2, <2>3 DEF WorkSound, Claiming, Current
  <1>4. CASE ~StartWork /\ ~EndWork /\ worker = WorkerIdle
    BY <1>4, OthersKeepWorker DEF WorkSound, WorkerIdle
  <1> QED
    BY <1>1, <1>2, <1>3, <1>4

-----------------------------------------------------------------------------
(* Published episodes stay.                                                *)

(* What is seen keeps its place, or is settled by now.                     *)
Steady(i) ==
    rows[i] # NoRow /\ rows'[i] # NoRow /\ rows'[i].id = rows[i].id /\ Visible(rows[i]) =>
        \/ Settled(rows'[i])
        \/ rows'[i].backlog = rows[i].backlog /\ ~Settled(rows[i])

LEMMA StepSteady ==
    ASSUME Typed, WorkSound, [Next]_vars, ~Reconciled, NEW i \in Items
    PROVE  Steady(i)
  <1> SUFFICES ASSUME rows[i] # NoRow, rows'[i] # NoRow, rows'[i].id = rows[i].id, ~rows[i].hidden
               PROVE  \/ Settled(rows'[i])
                      \/ rows'[i].backlog = rows[i].backlog /\ ~Settled(rows[i])
    BY DEF Steady, Visible
  <1>1. CASE EndWork
    <2>1. WorkSaved \/ UNCHANGED rows
      BY <1>1, EndWorkTyped
    <2>2. CASE WorkSaved /\ i = worker.item
      <3>1. worker # WorkerIdle /\ worker.copy.id = rows[i].id
        BY <1>1, <2>2, EndWorkTyped DEF WorkSaved
      <3>2. CASE worker.copy.state \in {"ready", "failed"}
        BY <2>2, <3>2 DEF WorkSaved, Settled
      <3>3. CASE worker.copy.state = "acquiring"
        <4>1. rows[i].state = "acquiring" /\ rows[i].backlog = worker.copy.backlog
          BY <2>2, <3>1, <3>3 DEF WorkSound, Claiming, Current
        <4> QED
          BY <2>2, <4>1 DEF WorkSaved, Settled
      <3> QED
        BY <3>1, <3>2, <3>3 DEF WorkSound
    <2>3. CASE rows'[i] = rows[i]
      BY <2>3
    <2> QED
      BY <2>1, <2>2, <2>3 DEF WorkSaved
  <1>2. CASE ~EndWork
    <2>1. ~Fresh(i)
      BY IdsBounded DEF Fresh
    <2>2. Placed(i)
      BY <1>2, <2>1, RowsPlaced
    <2> QED
      BY <2>2 DEF Placed
  <1> QED
    BY <1>1, <1>2

LEMMA StaysInOrder ==
    ASSUME Typed, \A j \in Items : Steady(j), feed'.settings = feed.settings,
           NEW i \in InOrder(rows, feed.settings), Unchanged(i), ~NewlyHolding(i),
           \A j \in Items : rows[j] # NoRow /\ rows'[j] # NoRow => rows'[j].id = rows[j].id
    PROVE  i \in InOrder(rows', feed'.settings)
  <1> DEFINE s == feed.settings
  <1>1. /\ i \in Items /\ rows[i] # NoRow /\ Visible(rows[i])
        /\ AtOnce(rows[i], s) \/ (Settled(rows[i]) /\ \A j \in InFeed(rows, s) : j < i => ~Holds(rows[j], s))
    BY DEF InOrder, InFeed, Stored
  <1>2. /\ rows'[i] # NoRow /\ rows'[i].id = rows[i].id /\ rows'[i].backlog = rows[i].backlog
        /\ Visible(rows'[i]) /\ rows'[i].dropped = rows[i].dropped /\ i \in InFeed(rows', s)
    BY DEF Unchanged
  <1>3. CASE AtOnce(rows[i], s)
    <2>1. AtOnce(rows'[i], s)
      BY <1>2, <1>3 DEF AtOnce
    <2> QED
      BY <1>2, <2>1 DEF InOrder
  <1>4. CASE Settled(rows[i]) /\ \A j \in InFeed(rows, s) : j < i => ~Holds(rows[j], s)
    <2>1. Settled(rows'[i])
      BY <1>1, <1>2, <1>4 DEF Steady
    <2>2. ASSUME NEW j \in InFeed(rows', s), j < i, Holds(rows'[j], s)
          PROVE  FALSE
      <3>1. j \in Items /\ j \in 1 .. i - 1 /\ rows'[j] # NoRow
        BY <1>1, <2>2 DEF InFeed, Stored, Items
      <3>2. j \in InFeed(rows, s) /\ Visible(rows[j]) /\ rows[j].dropped = "no" /\ rows[j] # NoRow
        BY <2>2, <3>1 DEF NewlyHolding, InFeed, Stored
      <3>3. ~Settled(rows'[j]) /\ ~AtOnce(rows'[j], s)
        BY <2>2 DEF Holds
      <3>4. rows'[j].backlog = rows[j].backlog /\ ~Settled(rows[j])
        BY <3>1, <3>2, <3>3 DEF Steady
      <3>5. AtOnce(rows[j], s)
        BY <1>4, <2>2, <3>2, <3>4 DEF Holds
      <3> QED
        BY <3>2, <3>3, <3>4, <3>5 DEF AtOnce
    <2> QED
      BY <1>2, <2>1, <2>2 DEF InOrder
  <1> QED
    BY <1>1, <1>3, <1>4

(* What has been published in its turn stays published, whatever jobs,     *)
(* polls, renders and sweeps do to the other episodes, but for the reasons *)
(* that InFeedStays names.                                                 *)
THEOREM PublishedStays == Spec => InFeedStays
  <1> DEFINE Stays ==
               \A i \in InOrder(rows, feed.settings) :
                  /\ feed.id # 0 /\ feed'.id = feed.id /\ feed'.settings = feed.settings
                  /\ admin.phase # "reconcile" \/ admin'.phase # "idle"
                  /\ Unchanged(i) /\ ~NewlyHolding(i)
                  => i \in InOrder(rows', feed'.settings)
  <1>1. ASSUME Typed, WorkSound, [Next]_vars,
               NEW i \in InOrder(rows, feed.settings),
               feed.id # 0, feed'.settings = feed.settings, ~Reconciled,
               Unchanged(i), ~NewlyHolding(i)
        PROVE  i \in InOrder(rows', feed'.settings)
    <2>1. \A j \in Items : Steady(j)
      BY <1>1, StepSteady
    <2>2. ASSUME NEW j \in Items, rows[j] # NoRow, rows'[j] # NoRow
          PROVE  rows'[j].id = rows[j].id
      <3>1. CASE KeptRow(j)
        BY <1>1, <2>2, <3>1 DEF KeptRow
      <3>2. CASE (\E c \in Clients : Answer(c)) /\ UNCHANGED droppedVars
        BY <1>1, <3>2, AnswerTyped, MarkedRow DEF Typed
      <3> QED
        BY <1>1, <3>1, <3>2, RowsKept
    <2> QED
      BY <1>1, <2>1, <2>2, StaysInOrder
  <1>2. Typed /\ WorkSound /\ [Next]_vars => [Stays]_vars
    BY <1>1 DEF Reconciled
  <1>3. Typed /\ WorkSound /\ [Next]_vars => Typed' /\ WorkSound'
    BY StepTyped, StepWork
  <1> HIDE DEF Stays
  <1>4. Spec => [][Stays]_vars
    BY <1>2, <1>3, InitTyped, InitWork, PTL DEF Spec
  <1> QED
    BY <1>4 DEF InFeedStays, Stays

-----------------------------------------------------------------------------
(* Dates.                                                                  *)

(* A date clients may have seen of an item: one that is stored, or that a  *)
(* render is about to store.                                               *)
Given(i, date) ==
    /\ rows[i] # NoRow
    /\ \/ rows[i].released # 0 /\ date = rows[i].released
       \/ \E d \in Clients : client[d].newly[i] = rows[i].id /\ date = client[d].now

Known(c) == client[c].seen \cup client[c].missed

(* No date is from the future, and an episode with a date no later than a  *)
(* render was in that render, or was already released when it left it out. *)
DatesSound ==
    \A c \in Clients :
        /\ client[c].checked <= time
        /\ \A i \in Items, date \in Nat :
              Given(i, date) /\ date <= client[c].checked => i \in Known(c)
        /\ client[c].phase = "release" =>
              /\ client[c].now <= time
              /\ \A i \in Items, date \in Nat :
                    Given(i, date) /\ date <= client[c].now => i \in Known(c) \cup client[c].sent

LEMMA InitDates == Init => DatesSound
  BY DEF Init, ServiceInit, NewClient, DatesSound, Given

(* What a client knows, and what it is about to store, other than by       *)
(* reading rows or answering.                                              *)
ClientKeeps(c) ==
    /\ client'[c].seen = client[c].seen /\ client'[c].missed = client[c].missed
    /\ client'[c].checked = client[c].checked
    /\ \/ client'[c].newly = client[c].newly /\ client'[c].now = client[c].now
       \/ client'[c].newly = [i \in Items |-> 0]
    /\ client'[c].phase = "release" =>
          /\ client[c].phase = "release"
          /\ client'[c].now = client[c].now /\ client'[c].sent = client[c].sent

LEMMA ReadersKeep ==
    ASSUME Typed, NEW c \in Clients,
           Ask(c) \/ GiveUp(c) \/ SubscribeFetch(c) \/ Subscribe(c) \/ ReadDocument(c)
    PROVE  \A d \in Clients : ClientKeeps(d)
  <1>1. client[c] \in ClientRecs /\ client \in [Clients -> ClientRecs]
    BY DEF Typed, TypeOK
  <1> DEFINE Same(k) ==
               /\ k.seen = client[c].seen /\ k.missed = client[c].missed
               /\ k.checked = client[c].checked /\ k.newly = client[c].newly
               /\ k.now = client[c].now /\ k.phase # "release"
  <1>2. ASSUME NEW k, client' = [client EXCEPT ![c] = k], Same(k) \/ k = ClientIdle(client[c])
        PROVE  \A d \in Clients : ClientKeeps(d)
    <2>1. \A d \in Clients : client'[d] = IF d = c THEN k ELSE client[d]
      BY <1>1, <1>2
    <2>2. CASE Same(k)
      BY <2>1, <2>2 DEF ClientKeeps
    <2>3. CASE k = ClientIdle(client[c])
      BY <1>1, <2>1, <2>3, ClientIdles DEF ClientKeeps
    <2> QED
      BY <1>2, <2>2, <2>3
  <1>3. CASE Ask(c)
    <2>1. Same([client[c] EXCEPT !.phase = "document", !.feed = feed])
      BY <1>1 DEF ClientRecs
    <2>2. Same([client[c] EXCEPT !.phase = "fetch"])
      BY <1>1 DEF ClientRecs
    <2> HIDE DEF Same
    <2> QED
      BY <1>2, <1>3, <2>1, <2>2 DEF Ask
  <1>4. CASE GiveUp(c)
    BY <1>2, <1>4 DEF GiveUp
  <1>5. CASE SubscribeFetch(c)
    <2>1. Same([client[c] EXCEPT !.phase = "create", !.data = source])
      BY <1>1 DEF ClientRecs
    <2>2. client' = [client EXCEPT ![c] = [client[c] EXCEPT !.phase = "create", !.data = source]]
      BY <1>1, <1>5 DEF SubscribeFetch
    <2> HIDE DEF Same
    <2> QED
      BY <1>2, <2>1, <2>2
  <1>6. CASE Subscribe(c)
    <2>1. \E f : client' = [client EXCEPT ![c] = [client[c] EXCEPT !.phase = "document", !.feed = f]]
      BY <1>1, <1>6 DEF Subscribe
    <2>2. ASSUME NEW f
          PROVE  Same([client[c] EXCEPT !.phase = "document", !.feed = f])
      BY <1>1 DEF ClientRecs
    <2> HIDE DEF Same
    <2> QED
      BY <1>2, <2>1, <2>2
  <1>7. CASE ReadDocument(c)
    <2>1. Same([client[c] EXCEPT !.phase = "rows", !.data = document])
      BY <1>1 DEF ClientRecs
    <2> HIDE DEF Same
    <2> QED
      BY <1>2, <1>7, <2>1 DEF ReadDocument
  <1> QED
    BY <1>3, <1>4, <1>5, <1>6, <1>7

LEMMA ClientsKeep ==
    ASSUME Typed, [Next]_vars
    PROVE  \/ UNCHANGED time /\ \A d \in Clients : ClientKeeps(d)
           \/ (\E c \in Clients : ReadRows(c)) /\ UNCHANGED droppedVars
           \/ (\E c \in Clients : Answer(c)) /\ UNCHANGED droppedVars
  <1>1. UNCHANGED client => \A d \in Clients : ClientKeeps(d)
    BY DEF ClientKeeps
  <1>2. CASE UNCHANGED vars
    BY <1>1, <1>2 DEF vars, serviceVars
  <1>3. CASE UNCHANGED droppedVars /\ (ChangeSource \/ LoadFeed \/ UpdateFeed \/ FeedChanged)
    BY <1>1, <1>3 DEF ChangeSource, LoadFeed, UpdateFeed, FeedChanged
  <1>4. CASE UNCHANGED droppedVars /\ (PollStart \/ PollFails \/ PollFetch \/ PollSave \/ PollRecord)
    BY <1>1, <1>4 DEF PollStart, PollFails, PollFetch, PollSave, PollRecord
  <1>5. CASE PollSync
    BY <1>1, <1>5 DEF PollSync
  <1>6. ASSUME NEW c \in Clients,
               Ask(c) \/ GiveUp(c) \/ SubscribeFetch(c) \/ Subscribe(c) \/ ReadDocument(c)
        PROVE  UNCHANGED time
    BY <1>6 DEF Ask, GiveUp, SubscribeFetch, Subscribe, ReadDocument
  <1>7. CASE StartWork \/ AgeDropped \/ ListDropped \/ CheckLink \/ SweepSkips \/ SetServe
             \/ ReadForDeletion
    BY <1>1, <1>7 DEF StartWork, AgeDropped, ListDropped, CheckLink, SweepSkips, SetServe,
                      ReadForDeletion
  <1>8. CASE EndWork \/ SweepDelete \/ DeleteEpisode
    BY <1>1, <1>8 DEF EndWork, SweepDelete, DeleteEpisode
  <1>9. CASE SetRules \/ SaveForm \/ DeleteFeed
    BY <1>1, <1>9 DEF SetRules, SaveForm, ReplaceFeedRules, DeleteFeed
  <1>10. QuietNext =>
            \/ UNCHANGED droppedVars /\ (ChangeSource \/ LoadFeed \/ UpdateFeed \/ FeedChanged)
            \/ UNCHANGED droppedVars /\ (PollStart \/ PollFails \/ PollFetch \/ PollSave \/ PollRecord)
            \/ \E c \in Clients : Ask(c) \/ GiveUp(c) \/ SubscribeFetch(c) \/ ReadDocument(c)
            \/ (\E c \in Clients : ReadRows(c)) /\ UNCHANGED droppedVars
            \/ \/ StartWork \/ AgeDropped \/ ListDropped \/ CheckLink \/ SweepSkips \/ SetServe
               \/ ReadForDeletion
    BY DEF QuietNext
  <1> QED
    BY <1>2, <1>3, <1>4, <1>5, <1>6, <1>7, <1>8, <1>9, <1>10, ReadersKeep, StepKinds

(* No step but a render gives a date.                                      *)
LEMMA GivenBefore ==
    ASSUME Typed, Typed', \A d \in Clients : ClientKeeps(d), NEW i \in Items, KeptRow(i), NEW date,
           Given(i, date)'
    PROVE  Given(i, date)
  <1>1. rows'[i] # NoRow /\ rows'[i].id \in Nat /\ rows'[i].id # 0
    BY NoRowIsNone DEF Given, Typed, TypeOK, Rows
  <1>2. CASE Fresh(i)
    <2>1. PICK d \in Clients : client'[d].newly[i] = rows'[i].id
      BY <1>2 DEF Fresh, Given
    <2>2. client[d].newly[i] = rows'[i].id
      BY <1>1, <2>1 DEF ClientKeeps
    <2>3. client[d].newly[i] <= made.rows[i] /\ made.rows[i] \in Nat
      BY DEF Typed, TypeOK, IdsSound
    <2> QED
      BY <1>1, <1>2, <2>2, <2>3 DEF Fresh
  <1>3. CASE rows[i] # NoRow /\ rows'[i].id = rows[i].id /\ rows'[i].released = rows[i].released
    <2>1. ASSUME NEW d \in Clients, client'[d].newly[i] = rows'[i].id
          PROVE  client[d].newly[i] = rows[i].id /\ client'[d].now = client[d].now
      BY <1>1, <1>3, <2>1 DEF ClientKeeps
    <2> QED
      BY <1>3, <2>1 DEF Given
  <1> QED
    BY <1>1, <1>2, <1>3 DEF KeptRow

LEMMA TimesTyped ==
    ASSUME Typed, NEW c \in Clients
    PROVE  /\ client[c] \in ClientRecs /\ client[c].checked \in Nat /\ client[c].now \in Nat
           /\ time \in Nat
  BY DEF Typed, TypeOK, ClientRecs

LEMMA OtherStepsDates ==
    ASSUME Typed, Typed', DatesSound, UNCHANGED time,
           \A d \in Clients : ClientKeeps(d), \A i \in Items : KeptRow(i)
    PROVE  DatesSound'
  <1> SUFFICES ASSUME NEW c \in Clients
               PROVE  /\ client'[c].checked <= time'
                      /\ \A i \in Items, date \in Nat :
                            Given(i, date)' /\ date <= client'[c].checked => i \in Known(c)'
                      /\ client'[c].phase = "release" =>
                            /\ client'[c].now <= time'
                            /\ \A i \in Items, date \in Nat :
                                  Given(i, date)' /\ date <= client'[c].now
                                    => i \in Known(c)' \cup client'[c].sent
    BY DEF DatesSound
  <1>1. Known(c)' = Known(c) /\ client'[c].checked = client[c].checked
    BY DEF Known, ClientKeeps
  <1>2. client'[c].phase = "release" =>
          client[c].phase = "release" /\ client'[c].now = client[c].now /\ client'[c].sent = client[c].sent
    BY DEF ClientKeeps
  <1>3. \A i \in Items, date \in Nat : Given(i, date)' => Given(i, date)
    BY GivenBefore
  <1> QED
    BY <1>1, <1>2, <1>3 DEF DatesSound

(* Answering makes a date that was to be stored a stored one; and the      *)
(* client knows of every date that is not after its render.                *)
LEMMA AnswerDates ==
    ASSUME Typed, Typed', DatesSound, UNCHANGED droppedVars, NEW c \in Clients, Answer(c)
    PROVE  DatesSound'
  <1>1. /\ client[c].phase = "release" /\ UNCHANGED time
        /\ \A d \in Clients : client'[d] = IF d = c THEN Answered(client[c]) ELSE client[d]
    BY DEF Answer, Typed, TypeOK
  <1>2. /\ Answered(client[c]).phase = "idle" /\ Answered(client[c]).newly = [i \in Items |-> 0]
        /\ Answered(client[c]).seen = client[c].seen \cup client[c].sent
        /\ Answered(client[c]).missed = client[c].missed
        /\ Answered(client[c]).checked = client[c].now
    BY AnsweredClient, TimesTyped
  <1>3. ASSUME NEW i \in Items, NEW date, Given(i, date)'
        PROVE  Given(i, date)
    <2>1. rows'[i] # NoRow /\ rows'[i].id # 0
      BY <1>3, NoRowIsNone DEF Given, Typed, TypeOK
    <2>2. Marked(c, i)
      BY AnswerTyped
    <2>3. /\ rows[i] # NoRow /\ rows'[i].id = rows[i].id
          /\ IF rows[i].released = 0
             THEN rows'[i].released = 0 \/ (rows'[i].released = client[c].now
                                              /\ rows[i].id = client[c].newly[i])
             ELSE rows'[i].released = rows[i].released
      BY <2>1, <2>2, MarkedRow DEF Typed
    <2>4. CASE rows'[i].released # 0 /\ date = rows'[i].released
      BY <2>3, <2>4 DEF Given
    <2>5. ASSUME NEW d \in Clients, client'[d].newly[i] = rows'[i].id, date = client'[d].now
          PROVE  Given(i, date)
      <3>1. d # c
        BY <1>1, <1>2, <2>1, <2>5
      <3> QED
        BY <1>1, <2>3, <2>5, <3>1 DEF Given
    <2> QED
      BY <1>3, <2>4, <2>5 DEF Given
  <1>4. ASSUME NEW d \in Clients, d # c
        PROVE  client'[d] = client[d] /\ Known(d)' = Known(d)
    BY <1>1, <1>4 DEF Known
  <1>5. Known(c)' = Known(c) \cup client[c].sent /\ client'[c].checked = client[c].now
        /\ client'[c].phase # "release"
    BY <1>1, <1>2 DEF Known
  <1>6. ASSUME NEW d \in Clients
        PROVE  /\ client'[d].checked <= time'
               /\ \A i \in Items, date \in Nat :
                     Given(i, date)' /\ date <= client'[d].checked => i \in Known(d)'
               /\ client'[d].phase = "release" =>
                     /\ client'[d].now <= time'
                     /\ \A i \in Items, date \in Nat :
                           Given(i, date)' /\ date <= client'[d].now
                             => i \in Known(d)' \cup client'[d].sent
    <2>1. CASE d = c
      BY <1>1, <1>3, <1>5, <2>1 DEF DatesSound
    <2>2. CASE d # c
      BY <1>1, <1>3, <1>4, <2>2 DEF DatesSound
    <2> QED
      BY <2>1, <2>2
  <1> QED
    BY <1>6 DEF DatesSound

(* A render's date is after every earlier one, and it sends or notes as    *)
(* missed all that has a date by then.                                     *)
LEMMA ReadRowsDates ==
    ASSUME Typed, Typed', DatesSound, UNCHANGED droppedVars, NEW c \in Clients, ReadRows(c)
    PROVE  DatesSound'
  <1> DEFINE s == client[c].feed.settings
             read == RowsOf(client[c].feed.id)
             now == time + 1
             sent == Output(read, s, client[c].data)
             newly == NewlyReleased(read, s)
             released == {i \in Stored(rows) :
                             \/ rows[i].released # 0 \/ i \in newly
                             \/ \E d \in Clients : client[d].newly[i] = rows[i].id}
             missed == client[c].missed \cup (released \ sent)
             ids == [i \in Items |-> IF i \in newly THEN read[i].id ELSE 0]
             dates == [i \in Items |-> IF i \in sent THEN ServedDate(read[i], now) ELSE 0]
             k == [client[c] EXCEPT !.phase = "release", !.now = now, !.sent = sent,
                                    !.missed = missed, !.newly = ids, !.dates = dates]
  <1>1. client' = [client EXCEPT ![c] = k] /\ time' = now /\ UNCHANGED rows
    BY DEF ReadRows, storeVars
  <1>2. client[c] \in ClientRecs /\ time \in Nat
    BY TimesTyped
  <1>3. released \subseteq missed \cup sent
    OBVIOUS
  <1>4. \A i \in Items : ids[i] = IF i \in newly THEN read[i].id ELSE 0
    OBVIOUS
  <1>5. ASSUME NEW i \in Items, NEW date, Given(i, date) \/ (rows[i] # NoRow /\ i \in newly)
        PROVE  i \in released
    BY <1>5 DEF Given, Stored
  <1> HIDE DEF s, read, sent, newly, released, missed, ids, dates
  <1>6. /\ k.phase = "release" /\ k.now = now /\ k.sent = sent /\ k.missed = missed /\ k.newly = ids
        /\ k.seen = client[c].seen /\ k.checked = client[c].checked
    BY <1>2 DEF ClientRecs
  <1>7. \A d \in Clients : client'[d] = IF d = c THEN k ELSE client[d]
    <2> HIDE DEF k
    <2> QED
      BY <1>1 DEF Typed, TypeOK
  <1> HIDE DEF k
  <1>8. ASSUME NEW i \in Items, NEW date, Given(i, date)'
        PROVE  Given(i, date) \/ (date = now /\ rows[i] # NoRow /\ i \in newly)
    <2>1. rows[i] # NoRow /\ rows[i].id # 0
      BY <1>1, <1>8, NoRowIsNone DEF Given, Typed, TypeOK
    <2>2. CASE rows[i].released # 0 /\ date = rows[i].released
      BY <2>1, <2>2 DEF Given
    <2>3. ASSUME NEW d \in Clients, client'[d].newly[i] = rows[i].id, date = client'[d].now
          PROVE  Given(i, date) \/ (date = now /\ i \in newly)
      <3>1. CASE d = c
        BY <1>4, <1>6, <1>7, <2>1, <2>3, <3>1
      <3>2. CASE d # c
        BY <1>7, <2>1, <2>3, <3>2 DEF Given
      <3> QED
        BY <3>1, <3>2
    <2> QED
      BY <1>1, <1>8, <2>1, <2>2, <2>3 DEF Given
  <1>9. ASSUME NEW d \in Clients
        PROVE  /\ client'[d].checked <= time'
               /\ \A i \in Items, date \in Nat :
                     Given(i, date)' /\ date <= client'[d].checked => i \in Known(d)'
               /\ client'[d].phase = "release" =>
                     /\ client'[d].now <= time'
                     /\ \A i \in Items, date \in Nat :
                           Given(i, date)' /\ date <= client'[d].now
                             => i \in Known(d)' \cup client'[d].sent
    <2>1. /\ client[d].checked \in Nat /\ client[d].now \in Nat /\ client[d].checked <= time
          /\ client'[d].checked = client[d].checked /\ now = time + 1 /\ time' = now
          /\ Known(d) \subseteq Known(d)'
      <3>1. client[d].checked \in Nat /\ client[d].now \in Nat /\ client[d].checked <= time
        BY TimesTyped DEF DatesSound
      <3>2. client[c].missed \subseteq missed
        BY DEF missed
      <3>3. client'[d].checked = client[d].checked /\ Known(d) \subseteq Known(d)'
        BY <1>6, <1>7, <3>2 DEF Known
      <3> QED
        BY <1>1, <3>1, <3>3
    <2>2. ASSUME NEW i \in Items, NEW date \in Nat, Given(i, date)', date <= time
          PROVE  Given(i, date)
      BY <1>2, <1>8, <2>2
    <2>3. CASE d = c
      <3>1. ASSUME NEW i \in Items, NEW date \in Nat, Given(i, date)'
            PROVE  i \in Known(c)' \cup client'[c].sent
        <4>1. i \in released
          BY <1>5, <1>8, <3>1
        <4> QED
          BY <1>3, <1>6, <1>7, <4>1 DEF Known
      <3>2. client'[c].now = now
        BY <1>6, <1>7
      <3>3. \A i \in Items, date \in Nat :
               Given(i, date)' /\ date <= client'[c].checked => i \in Known(c)'
        BY <1>2, <2>1, <2>2, <2>3 DEF DatesSound
      <3> QED
        BY <1>2, <2>1, <2>3, <3>1, <3>2, <3>3
    <2>4. CASE d # c
      <3>1. client'[d] = client[d]
        BY <1>7, <2>4
      <3> QED
        BY <1>2, <2>1, <2>2, <3>1 DEF DatesSound
    <2> QED
      BY <2>3, <2>4
  <1> QED
    BY <1>9 DEF DatesSound

LEMMA StepDates == Typed /\ DatesSound /\ [Next]_vars => DatesSound'
  <1> SUFFICES ASSUME Typed, DatesSound, [Next]_vars
               PROVE  DatesSound'
    OBVIOUS
  <1>1. Typed'
    BY StepTyped
  <1>2. CASE (\E c \in Clients : ReadRows(c)) /\ UNCHANGED droppedVars
    BY <1>1, <1>2, ReadRowsDates
  <1>3. CASE (\E c \in Clients : Answer(c)) /\ UNCHANGED droppedVars
    BY <1>1, <1>3, AnswerDates
  <1>4. CASE /\ UNCHANGED time /\ \A d \in Clients : ClientKeeps(d)
             /\ ~((\E c \in Clients : Answer(c)) /\ UNCHANGED droppedVars)
    BY <1>1, <1>4, RowsKept, OtherStepsDates
  <1> QED
    BY <1>2, <1>3, <1>4, ClientsKeep

(* Whoever has read a feed and finds an episode in it later finds it dated *)
(* after its last check, unless the episode was there to be dated before.  *)
THEOREM NewIsDated == Spec => NewIsDatedAfterLastCheck
  <1> DEFINE Dates ==
               \A c \in Clients :
                  client[c].phase = "rows" /\ client'[c].phase = "release" =>
                      \A i \in client'[c].sent \ (client[c].seen \cup client[c].missed) :
                          Dated(rows[i]) => client'[c].dates[i] > client[c].checked
  <1>1. ASSUME Typed, DatesSound, [Next]_vars, NEW c \in Clients,
               client[c].phase = "rows", client'[c].phase = "release",
               NEW i \in client'[c].sent \ (client[c].seen \cup client[c].missed), Dated(rows[i])
        PROVE  client'[c].dates[i] > client[c].checked
    <2>1. PICK d \in Clients : ReadRows(d) /\ UNCHANGED droppedVars
      <3>1. ~ \A d \in Clients : ClientKeeps(d)
        BY <1>1 DEF ClientKeeps
      <3>2. ASSUME NEW d \in Clients, Answer(d), UNCHANGED droppedVars
            PROVE  FALSE
        <4>1. client' = [client EXCEPT ![d] = Answered(client[d])] /\ client[d].phase = "release"
          BY <3>2 DEF Answer
        <4>2. Answered(client[d]).phase = "idle"
          BY <1>1, AnsweredClient, TimesTyped
        <4> QED
          BY <1>1, <4>1, <4>2 DEF Typed, TypeOK
      <3> QED
        BY <1>1, <3>1, <3>2, ClientsKeep
    <2> DEFINE s == client[d].feed.settings
               read == RowsOf(client[d].feed.id)
               now == time + 1
               sent == Output(read, s, client[d].data)
               newly == NewlyReleased(read, s)
               released == {j \in Stored(rows) :
                               \/ rows[j].released # 0 \/ j \in newly
                               \/ \E e \in Clients : client[e].newly[j] = rows[j].id}
               missed == client[d].missed \cup (released \ sent)
               ids == [j \in Items |-> IF j \in newly THEN read[j].id ELSE 0]
               dates == [j \in Items |-> IF j \in sent THEN ServedDate(read[j], now) ELSE 0]
    <2>2. client' = [client EXCEPT
                        ![d] = [client[d] EXCEPT !.phase = "release", !.now = now, !.sent = sent,
                                                 !.missed = missed, !.newly = ids, !.dates = dates]]
      BY <2>1 DEF ReadRows
    <2> HIDE DEF ids, missed, newly, released, dates
    <2>3. d = c
      BY <1>1, <2>2 DEF Typed, TypeOK
    <2>4. sent \subseteq Items /\ sent \subseteq Stored(read)
      BY PublishedStored
    <2>5. read = rows \/ read = [j \in Items |-> NoRow]
      BY DEF RowsOf
    <2>6. client[c] \in ClientRecs /\ client[c].checked \in Nat /\ time \in Nat /\ client[c].checked <= time
      BY <1>1, TimesTyped DEF DatesSound
    <2> HIDE DEF sent, read, s
    <2>7. client'[c].sent = sent /\ client'[c].dates = dates
      BY <1>1, <2>2, <2>3, <2>6 DEF Typed, TypeOK, ClientRecs
    <2>8. /\ i \in Items /\ rows[i] \in Rows /\ read[i] = rows[i] /\ i \notin Known(c)
          /\ client'[c].dates[i] = ServedDate(rows[i], now)
      <3>1. i \in sent /\ i \notin Known(c)
        BY <1>1, <2>7 DEF Known
      <3>2. i \in Items /\ read[i] = rows[i] /\ rows[i] # NoRow
        BY <2>4, <2>5, <3>1 DEF Stored
      <3> QED
        BY <1>1, <2>7, <3>1, <3>2 DEF dates, Typed, TypeOK
    <2>9. CASE rows[i].released = 0
      BY <1>1, <2>6, <2>8, <2>9 DEF ServedDate
    <2>10. CASE rows[i].released # 0
      <3>1. Given(i, rows[i].released) /\ rows[i].released \in Nat
        BY <2>8, <2>10, NoRowIsNone DEF Given, Rows
      <3>2. ~(rows[i].released <= client[c].checked)
        BY <1>1, <2>8, <3>1 DEF DatesSound
      <3> QED
        BY <1>1, <2>6, <2>8, <2>10, <3>1, <3>2 DEF ServedDate
    <2> QED
      BY <2>9, <2>10
  <1>2. Typed /\ DatesSound /\ [Next]_vars => [Dates]_vars
    BY <1>1
  <1>3. Typed /\ DatesSound /\ [Next]_vars => Typed' /\ DatesSound'
    BY StepTyped, StepDates
  <1> HIDE DEF Dates
  <1>4. Spec => [][Dates]_vars
    BY <1>2, <1>3, InitTyped, InitDates, PTL DEF Spec
  <1> QED
    BY <1>4 DEF NewIsDatedAfterLastCheck, Dates
=============================================================================
