--------------------------- MODULE ExitSelection ---------------------------
(***************************************************************************)
(* Which server an exit uses (modules/exits/select.go, and what guards it  *)
(* in module.go): the choice each exit has made, what is known of the      *)
(* servers' health, and the server list, which a Proton provider replaces  *)
(* while it runs (proton_refresh.go).                                      *)
(***************************************************************************)
EXTENDS TunnelPool, ExitConfig, FiniteSetsExt

CONSTANTS
    BenchBase, BenchMax, FailureMemory, Rotation,
    Upstream        \* the lists upstream publishes, by timestamp; 1 is the one Solstein ships with

ASSUME SelectionAssumption ==
    /\ BenchBase \in Nat \ {0} /\ BenchMax \in Nat /\ BenchMax >= BenchBase
    /\ Rotation \in Nat \ {0}
    /\ 1 \in DOMAIN Upstream /\ \A at \in DOMAIN Upstream : at \in Nat /\ Upstream[at] \subseteq Server

VARIABLES
    config,         \* module.config, with the one provider of the model
    servers,        \* module.servers
    choice,         \* module.states
    health,         \* module.health
    list            \* module.protonList, by its timestamp

selectionVars == <<config, servers, choice, health, list>>

Exits      == DOMAIN config.exits
Healthy    == [consecutive |-> 0, until |-> 0, failures |-> <<>>]
NoChoice   == [current |-> NoServer, at |-> 0]

SelectionTypeOK ==
    /\ servers \subseteq Server
    /\ \A e \in Exits : choice[e].current \in Server \cup {NoServer} /\ choice[e].at \in 0 .. MaxTime
    /\ \A s \in Server : health[s].consecutive \in Nat /\ health[s].until \in Nat
    /\ list \in Nat

(* loadProtonList: the cached list if it is newer than the built-in one.   *)
ListAtStart(cached) == IF cached > 1 THEN cached ELSE 1

SelectionInit(setup, provider, cached) ==
    /\ config = setup
    /\ list = ListAtStart(cached)
    /\ servers = LoadServers(Upstream[ListAtStart(cached)], provider)
    /\ choice = [e \in DOMAIN setup.exits |-> NoChoice]
    /\ health = [s \in Server |-> Healthy]

(* health.benched, recentFailures, recordFailure, recordSuccess            *)
Benched(s) == now < health[s].until

RecentFailures(s) == Len(SelectSeq(health[s].failures, LAMBDA at : now - at < FailureMemory))

BenchFor(n) == Min({BenchMax, BenchBase * 2^(Min({n - 1, 10}))})

Failed(h) ==
    [consecutive |-> h.consecutive + 1,
     until |-> now + BenchFor(h.consecutive + 1),
     failures |-> Append(SelectSeq(h.failures, LAMBDA at : now - at < FailureMemory), now)]

RecordFailure(s) == health' = [health EXCEPT ![s] = Failed(@)]
RecordSuccess(s) == health' = [health EXCEPT ![s] = [Healthy EXCEPT !.failures = health[s].failures]]

(* matches: a location names a server or a place it is in.                 *)
Matches(s, location) == location \in Info[s].names \cup Info[s].places

(* tiers: the servers of each location, each in the first it matches.      *)
Allowed(e) == {s \in servers : Info[s].country \notin config.exits[e].exclude}

TierCount(e) ==
    LET exit == config.exits[e] IN IF exit.locations = <<>> \/ exit.strict THEN 1 ELSE Len(exit.locations)

(* Mutant: excluded countries are only left out of the first tier.         *)
TierForgetsExclusion(e, i) ==
    LET exit == config.exits[e] IN
    IF exit.locations = <<>> THEN Allowed(e)
    ELSE {s \in servers : /\ i = 1 => s \in Allowed(e)
                          /\ Matches(s, exit.locations[i])
                          /\ \A j \in 1 .. i - 1 : ~Matches(s, exit.locations[j])}

Tier(e, i) ==
    LET exit == config.exits[e] IN
    IF exit.locations = <<>> THEN Allowed(e)
    ELSE {s \in Allowed(e) : /\ Matches(s, exit.locations[i])
                             /\ \A j \in 1 .. i - 1 : ~Matches(s, exit.locations[j])}

HealthyIn(e, i) == {s \in Tier(e, i) : ~Benched(s)}
TiersUp(e)      == {i \in 1 .. TierCount(e) : HealthyIn(e, i) # {}}

(* Servers are in the order of their names, tiers in that of the locations. *)
First(S) == {s \in S : \A t \in S : s <= t}

(* choose: keep the current server while it is healthy and in the best     *)
(* tier that has a healthy one; otherwise pick another by the strategy.    *)
Kept(e, candidates) ==
    /\ choice[e].current \in candidates
    /\ ~(config.exits[e].selection = "random" /\ now - choice[e].at >= Rotation)

Options(e, candidates) ==
    IF config.exits[e].selection = "random"
    THEN IF Cardinality(candidates) > 1 THEN candidates \ {choice[e].current} ELSE candidates
    ELSE IF config.exits[e].selection = "least-failed"
    THEN First({s \in candidates : \A t \in candidates : RecentFailures(s) <= RecentFailures(t)})
    ELSE First(candidates)

(* pick: the exit has no server, or uses s.                                *)
NoneToPick(e) == TiersUp(e) = {}

(* Mutant: an exit stays where it is while its server is healthy.          *)
PickStaying(e, s) ==
    /\ TiersUp(e) # {}
    /\ LET healthy == UNION {HealthyIn(e, i) : i \in TiersUp(e)} IN
       IF choice[e].current \in healthy THEN s = choice[e].current /\ UNCHANGED choice
       ELSE /\ s \in Options(e, HealthyIn(e, Min(TiersUp(e))))
            /\ choice' = [choice EXCEPT ![e] = [current |-> s, at |-> now]]

Pick(e, s) ==
    \E i \in First(TiersUp(e)) :
        LET candidates == HealthyIn(e, i) IN
        IF Kept(e, candidates) THEN s = choice[e].current /\ UNCHANGED choice
        ELSE /\ s \in Options(e, candidates)
             /\ choice' = [choice EXCEPT ![e] = [current |-> s, at |-> now]]

-----------------------------------------------------------------------------
(* runProtonRefresh, refreshProton, useProtonList: the list upstream has is *)
(* used if it is newer than the one in use, which nothing else replaces.   *)
Proton == \E p \in DOMAIN config.providers : config.providers[p].type = "protonvpn"

RefreshList ==
    /\ Proton
    /\ \E fetched \in DOMAIN Upstream :
        /\ fetched > list /\ list' = fetched
        /\ servers' = UNION {LoadServers(Upstream[fetched], config.providers[p]) : p \in DOMAIN config.providers}
    /\ UNCHANGED <<config, choice, health>>

(* ExitCountries, ExitCountry (module.go), for whoever compares exits.     *)
ExitCountries(e) ==
    {Info[s].country : s \in UNION {Tier(e, i) : i \in 1 .. TierCount(e)}}

(* What an exit is for (select.go): its connections go through servers its *)
(* configuration allows -- never an excluded country, and only its first   *)
(* location when it is strict.                                             *)
Permitted(exit, s) ==
    /\ Info[s].country \notin exit.exclude
    /\ exit.locations = <<>> \/ \E i \in 1 .. Len(exit.locations) :
            Matches(s, exit.locations[i]) /\ (exit.strict => i = 1)
=============================================================================
