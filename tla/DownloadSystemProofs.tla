------------------------ MODULE DownloadSystemProofs ------------------------
(***************************************************************************)
(* What TunnelPoolProofs shows of the pool alone holds of the downloads    *)
(* that use it: nothing the callers, the exits module, the reaper and the  *)
(* refresh do is more than the pool may be made to do, and start-up gives  *)
(* a Proton account at least one key per tunnel.                           *)
(*                                                                         *)
(* The rest is about who uses a tunnel.  UsersInv says, of each tunnel,    *)
(* that it counts its users (UsesSound); of each call, what it holds in    *)
(* each phase (CallsFit, OpenerWaits); of each download, how it fits its   *)
(* call and what it has of which file (FetchSound); and of each exit, that *)
(* it may use the servers it is about to use or uses (PermittedSound): a   *)
(* tunnel stays its server's for as long as anybody is counted.            *)
(***************************************************************************)
EXTENDS DownloadSystem, TunnelPoolProofs

Deadlines == {Min({at + WaitLimit, MaxTime}) : at \in Nat} \cup {0}

CallRecord ==
    [phase : Phase, exit : {ExitOf(c) : c \in Caller} \cup {""}, op : {"lookup", "dial"}, attempt : Nat,
     server : Server \cup {NoServer}, tunnel : Tunnel \cup {NoTunnel}, deadline : Deadlines,
     outcome : {"", "ok", "failed", "again"}, cancelled : BOOLEAN, tried : Nat, lost : BOOLEAN]

(* Who asks the pool for a tunnel asks for a server's.                     *)
SoundCalls == {r \in CallRecord : r.phase = "get" => r.server \in Server}

CallsSound == call \in [Caller -> SoundCalls]

(* Set up, a Proton account has the keys for its tunnels.                  *)
ProtonHasKeys == Proton => KeysSuffice

DownloadInv == PoolInv /\ CallsSound /\ ProtonHasKeys

-----------------------------------------------------------------------------
LEMMA OneCall ==
    ASSUME CallsSound, NEW c \in Caller, NEW r \in SoundCalls, call' = [call EXCEPT ![c] = r]
    PROVE  CallsSound'
BY DEF CallsSound

LEMMA IdleCall == NoCall \in SoundCalls
BY DEF NoCall, SoundCalls, CallRecord, Phase, NoServer, NoTunnel, Deadlines

LEMMA OtherPhase ==
    ASSUME NEW r \in SoundCalls, NEW p \in Phase \ {"get"}
    PROVE  [r EXCEPT !.phase = p] \in SoundCalls
BY DEF SoundCalls, CallRecord

LEMMA PhaseAndOutcome ==
    ASSUME NEW r \in SoundCalls, NEW p \in Phase \ {"get"}, NEW o \in {"", "ok", "failed", "again"}
    PROVE  /\ [r EXCEPT !.phase = p, !.outcome = o] \in SoundCalls
           /\ [r EXCEPT !.phase = p, !.tunnel = NoTunnel, !.outcome = o] \in SoundCalls
BY DEF SoundCalls, CallRecord

LEMMA CountsTyped ==
    ASSUME NEW r \in SoundCalls
    PROVE  r.attempt \in Nat /\ r.tried \in Nat
<1>1. r \in CallRecord
  BY DEF SoundCalls
<1> QED
  BY <1>1 DEF CallRecord

LEMMA NextAttemptSound ==
    ASSUME NEW r \in SoundCalls
    PROVE  NextAttempt(r) \in SoundCalls
<1>1. r.attempt + 1 \in Nat
  BY CountsTyped
<1>2. [r EXCEPT !.phase = "pick", !.attempt = r.attempt + 1, !.tunnel = NoTunnel, !.outcome = ""] \in SoundCalls
  BY <1>1 DEF SoundCalls, CallRecord, Phase
<1>3. [r EXCEPT !.phase = "unavailable", !.tunnel = NoTunnel, !.outcome = ""] \in SoundCalls
  BY DEF SoundCalls, CallRecord, Phase
<1> QED
  BY <1>2, <1>3 DEF NextAttempt

LEMMA DiallingSound ==
    ASSUME NEW c \in Caller, NEW r \in SoundCalls
    PROVE  Dialling(c, r) \in SoundCalls
<1>1. r.tried + 1 \in Nat
  BY CountsTyped
<1>2. [r EXCEPT !.phase = "pick", !.op = "dial", !.attempt = 1, !.tunnel = NoTunnel, !.outcome = "",
                !.tried = r.tried + 1] \in SoundCalls
  BY <1>1 DEF SoundCalls, CallRecord, Phase
<1>3. [r EXCEPT !.phase = "refused", !.op = "dial", !.tunnel = NoTunnel, !.outcome = ""] \in SoundCalls
  BY DEF SoundCalls, CallRecord, Phase
<1> QED
  BY <1>2, <1>3 DEF Dialling

-----------------------------------------------------------------------------
(* What is not the pool's.                                                 *)
LEMMA PoolAtRest ==
    ASSUME UNCHANGED poolVars
    PROVE  limits' = limits /\ [PoolNext]_poolVars
BY DEF poolVars

(* Giving back a tunnel: also one the pool has dropped.                    *)
LEMMA ReleaseIsPoolStep ==
    ASSUME PoolTypeOK, NEW t, Release(t), UNCHANGED restOfPool
    PROVE  limits' = limits /\ [PoolNext]_poolVars
<1>1. limits' = limits
  BY DEF restOfPool
<1>2. CASE t \in Tunnel
  BY <1>1, <1>2 DEF PoolNext
<1>3. CASE t \notin Tunnel
  <2>1. tun' = tun
    BY <1>3 DEF Release, PoolTypeOK
  <2> QED
    BY <1>1, <2>1 DEF restOfPool, poolVars
<1> QED
  BY <1>2, <1>3

LEMMA UseIsPoolStep ==
    ASSUME PoolTypeOK, NEW t, ~tun[t].closed, Use(t), UNCHANGED restOfPool
    PROVE  limits' = limits /\ [PoolNext]_poolVars
<1>1. limits' = limits
  BY DEF restOfPool
<1>2. CASE t \in Tunnel
  BY <1>1, <1>2 DEF PoolNext
<1>3. CASE t \notin Tunnel
  <2>1. tun' = tun
    BY <1>3 DEF Use, PoolTypeOK
  <2> QED
    BY <1>1, <2>1 DEF restOfPool, poolVars
<1> QED
  BY <1>2, <1>3

(* forget of a server without a tunnel.                                    *)
LEMMA RemovingNothing ==
    ASSUME PoolTypeOK, KeysCounted, RemoveTunnels({}), UNCHANGED <<limits, opening, now>>
    PROVE  limits' = limits /\ [PoolNext]_poolVars
<1>1. tunnels' = tunnels /\ tun' = tun /\ keyLast' = keyLast
  <2>1. tunnels' = tunnels
    BY DEF RemoveTunnels, PoolTypeOK
  <2>2. tun' = tun
    BY DEF RemoveTunnels, PoolTypeOK
  <2>3. keyLast' = [k \in Key |-> keyLast[k]]
    BY DEF RemoveTunnels
  <2> QED
    BY <2>1, <2>2, <2>3 DEF PoolTypeOK
<1>2. keyUse' = keyUse
  <2>1. \A k : TunnelsOnKey(k) \cap {} = {}
    OBVIOUS
  <2>2. \A k \in Key : keyUse[k] \in Nat /\ keyUse[k] - Cardinality({}) = keyUse[k]
    BY FS_EmptySet DEF PoolTypeOK
  <2> QED
    BY <2>1, <2>2 DEF RemoveTunnels, PoolTypeOK
<1> QED
  BY <1>1, <1>2 DEF poolVars

(* A step of the whole leads the pool where its own steps lead.            *)
StepOK == limits' = limits /\ config' = config /\ [PoolNext]_poolVars /\ CallsSound'

-----------------------------------------------------------------------------
(* The calls.                                                              *)
LEMMA CallSteps ==
    ASSUME DownloadInv, NEW c \in Caller, CallStep(c) \/ GiveUp(c)
    PROVE  StepOK
<1> USE DEF DownloadInv, PoolInv, StepOK
<1> DEFINE r == call[c]
<1>1. r \in SoundCalls /\ r \in CallRecord
  BY DEF CallsSound, SoundCalls
<1>2. \A p \in Phase \ {"get"} : To(c, p) => CallsSound'
  BY <1>1, OneCall, OtherPhase DEF To
<1>3. {"pick", "open", "handshake", "operate", "bench", "forget", "leave", "connected", "refused",
       "unavailable"} \subseteq Phase \ {"get"}
  BY DEF Phase
<1>4. \A o \in {"ok", "failed"} : Leaving(c, o) => CallsSound'
  <2>1. SUFFICES ASSUME NEW o \in {"ok", "failed"}, Leaving(c, o) PROVE CallsSound'
    OBVIOUS
  <2>2. [r EXCEPT !.phase = "leave", !.outcome = o] \in SoundCalls
    BY <1>1, <1>3, PhaseAndOutcome
  <2>3. call' = [call EXCEPT ![c] = [r EXCEPT !.phase = "leave", !.outcome = o]]
    BY <2>1 DEF Leaving, CallsSound
  <2> QED
    BY <2>2, <2>3, OneCall
<1>5. CASE PickServer(c)
  <2>1. CallsSound'
    <3>1. CASE To(c, "unavailable")
      BY <1>2, <1>3, <3>1
    <3>2. ASSUME NEW t \in Server,
                 call' = [call EXCEPT ![c].phase = "get", ![c].server = t,
                                      ![c].deadline = Min({now + WaitLimit, MaxTime})]
          PROVE  CallsSound'
      <4>1. Min({now + WaitLimit, MaxTime}) \in Deadlines
        BY DEF Deadlines, PoolTypeOK
      <4>2. [r EXCEPT !.phase = "get", !.server = t, !.deadline = Min({now + WaitLimit, MaxTime})] \in SoundCalls
        BY <1>1, <4>1 DEF SoundCalls, CallRecord, Phase
      <4>3. call' = [call EXCEPT ![c] = [r EXCEPT !.phase = "get", !.server = t,
                                                  !.deadline = Min({now + WaitLimit, MaxTime})]]
        BY <3>2 DEF CallsSound
      <4> QED
        BY <4>2, <4>3, OneCall
    <3> QED
      BY <1>5, <3>1, <3>2 DEF PickServer
  <2> QED
    BY <1>5, <2>1, PoolAtRest DEF PickServer
<1>6. CASE GetOpen(c)
  <2>1. CallsSound'
    <3>1. tunnels[r.server] \in Tunnel \cup {NoTunnel}
      BY <1>1, <1>6 DEF GetOpen, SoundCalls, PoolTypeOK
    <3>2. [r EXCEPT !.phase = "handshake", !.tunnel = tunnels[r.server]] \in SoundCalls
      BY <1>1, <3>1 DEF SoundCalls, CallRecord, Phase
    <3>3. call' = [call EXCEPT ![c] = [r EXCEPT !.phase = "handshake", !.tunnel = tunnels[r.server]]]
      BY <1>6 DEF GetOpen, CallsSound
    <3> QED
      BY <3>2, <3>3, OneCall
  <2> QED
    BY <1>6, <2>1, UseIsPoolStep DEF GetOpen, Reuse, Usable, selectionVars
<1>7. CASE GetByOpening(c)
  <2>1. r.server \in Server
    BY <1>1, <1>7 DEF GetByOpening, SoundCalls
  <2>2. limits' = limits /\ PoolNext
    BY <1>7, <2>1 DEF GetByOpening, BeginOpen, PoolNext
  <2> QED
    BY <1>2, <1>3, <1>7, <2>2 DEF GetByOpening, selectionVars
<1>8. CASE GetNothing(c)
  BY <1>2, <1>3, <1>8, PoolAtRest DEF GetNothing, selectionVars
<1>9. CASE OpenTunnel(c)
  <2>1. limits' = limits /\ PoolNext
    BY <1>9 DEF OpenTunnel, OpenSucceeds, OpenFails, PoolNext
  <2>2. ASSUME NEW t \in Tunnel, call' = [call EXCEPT ![c].phase = "handshake", ![c].tunnel = t]
        PROVE  CallsSound'
    <3>1. [r EXCEPT !.phase = "handshake", !.tunnel = t] \in SoundCalls
      BY <1>1 DEF SoundCalls, CallRecord, Phase
    <3>2. call' = [call EXCEPT ![c] = [r EXCEPT !.phase = "handshake", !.tunnel = t]]
      BY <2>2 DEF CallsSound
    <3> QED
      BY <3>1, <3>2, OneCall
  <2> QED
    BY <1>2, <1>3, <1>9, <2>1, <2>2 DEF OpenTunnel, selectionVars
<1>10. CASE AwaitHandshake(c)
  BY <1>2, <1>3, <1>4, <1>10, PoolAtRest DEF AwaitHandshake, selectionVars
<1>11. CASE Operate(c)
  <2>1. CallsSound'
    BY <1>2, <1>3, <1>4, <1>11 DEF Operate
  <2>2. limits' = limits /\ [PoolNext]_poolVars
    <3>1. CASE UNCHANGED tun
      BY <1>11, <3>1 DEF Operate, restOfPool, poolVars
    <3>2. CASE ~tun[r.tunnel].closed /\ Use(r.tunnel)
      BY <1>11, <3>2, UseIsPoolStep DEF Operate
    <3> QED
      BY <1>11, <3>1, <3>2 DEF Operate
  <2> QED
    BY <1>11, <2>1, <2>2 DEF Operate
<1>12. CASE Bench(c)
  BY <1>2, <1>3, <1>12, PoolAtRest DEF Bench
<1>13. CASE ForgetFailed(c)
  <2>1. AfterForget(r) \in SoundCalls
    BY <1>1, <1>3, NextAttemptSound, PhaseAndOutcome DEF AfterForget
  <2>2. CallsSound'
    BY <1>13, <2>1, OneCall DEF ForgetFailed
  <2>3. limits' = limits /\ [PoolNext]_poolVars
    <3>1. CASE r.server \in Server
      BY <1>13, <3>1 DEF ForgetFailed, Forget, PoolNext
    <3>2. CASE r.server \notin Server
      <4>1. {r.server} \cap Pooled = {}
        BY <3>2 DEF Pooled
      <4> QED
        BY <1>13, <4>1, RemovingNothing DEF ForgetFailed, Forget
    <3> QED
      BY <3>1, <3>2
  <2> QED
    BY <1>13, <2>2, <2>3 DEF ForgetFailed, selectionVars
<1>14. CASE Leave(c)
  <2>1. AfterAttempt(c, r) \in SoundCalls
    BY <1>1, <1>3, NextAttemptSound, DiallingSound, PhaseAndOutcome DEF AfterAttempt
  <2>2. CallsSound'
    BY <1>14, <2>1, OneCall DEF Leave
  <2> QED
    BY <1>14, <2>2, ReleaseIsPoolStep DEF Leave, selectionVars
<1>15. CASE NextAddress(c)
  <2>1. Dialling(c, r) \in SoundCalls
    BY <1>1, DiallingSound
  <2>2. [Dialling(c, r) EXCEPT !.lost = r.lost \/ r.phase = "unavailable"] \in SoundCalls
    <3>1. (r.lost \/ r.phase = "unavailable") \in BOOLEAN
      OBVIOUS
    <3> QED
      BY <2>1, <3>1 DEF SoundCalls, CallRecord
  <2>3. CallsSound'
    BY <1>15, <2>2, OneCall DEF NextAddress
  <2> QED
    BY <1>15, <2>3, PoolAtRest DEF NextAddress, selectionVars
<1>16. CASE GiveUp(c)
  <2>1. [r EXCEPT !.cancelled = TRUE] \in SoundCalls
    BY <1>1 DEF SoundCalls, CallRecord
  <2>2. call' = [call EXCEPT ![c] = [r EXCEPT !.cancelled = TRUE]]
    BY <1>16 DEF GiveUp, CallsSound
  <2>3. CallsSound'
    BY <2>1, <2>2, OneCall
  <2> QED
    BY <1>16, <2>3, PoolAtRest DEF GiveUp, selectionVars
<1> QED
  BY <1>5, <1>6, <1>7, <1>8, <1>9, <1>10, <1>11, <1>12, <1>13, <1>14, <1>15, <1>16 DEF CallStep

-----------------------------------------------------------------------------
(* The downloads.                                                          *)
LEMMA EndedCall ==
    ASSUME CallsSound, NEW c \in Caller,
           call' = [call EXCEPT ![c] = NoCall] \/ call' = call
    PROVE  CallsSound'
<1>1. CASE call' = call
  BY <1>1 DEF CallsSound
<1>2. CASE call' = [call EXCEPT ![c] = NoCall]
  BY <1>2, OneCall, IdleCall
<1> QED
  BY <1>1, <1>2

LEMMA NewCall ==
    ASSUME NEW c \in Caller
    PROVE  [NoCall EXCEPT !.phase = "pick", !.exit = ExitOf(c)] \in SoundCalls
BY IdleCall DEF SoundCalls, CallRecord, Phase

LEMMA FetchSteps ==
    ASSUME DownloadInv, NEW c \in Caller, FetchStep(c)
    PROVE  StepOK
<1> USE DEF DownloadInv, PoolInv, StepOK, selectionVars, moduleVars
<1>1. ASSUME NEW stage, Ended(c, stage) PROVE CallsSound'
  BY <1>1, EndedCall DEF Ended
<1>2. NoResponse(c) => CallsSound'
  BY <1>1, EndedCall DEF NoResponse, CloseIdleThen, SkipFrom
<1>3. CASE Begin(c)
  BY <1>1, <1>3, EndedCall, PoolAtRest DEF Begin
<1>4. CASE Send(c)
  <2> DEFINE new == [NoCall EXCEPT !.phase = "pick", !.exit = ExitOf(c)]
  <2>1. new \in SoundCalls /\ [new EXCEPT !.phase = "unavailable"] \in SoundCalls /\ Dialling(c, new) \in SoundCalls
    BY NewCall, DiallingSound, OtherPhase DEF Phase
  <2>2. ASSUME NEW t \in Tunnel
        PROVE  [NoCall EXCEPT !.phase = "connected", !.exit = ExitOf(c), !.tunnel = t] \in SoundCalls
    BY IdleCall DEF SoundCalls, CallRecord, Phase
  <2> HIDE DEF new
  <2>3. CallsSound'
    BY <1>4, <2>1, <2>2, OneCall DEF Send, new
  <2> QED
    BY <1>4, <2>3, PoolAtRest DEF Send
<1>5. CASE CallFails(c)
  BY <1>1, <1>2, <1>5, PoolAtRest DEF CallFails
<1>6. CASE ConnectionDies(c)
  BY <1>2, <1>6, ReleaseIsPoolStep DEF ConnectionDies, Hangup
<1>7. CASE BadAnswer(c)
  <2>1. CallsSound'
    BY <1>1, <1>7, EndedCall DEF BadAnswer, SkipFrom
  <2> QED
    BY <1>7, <2>1, ReleaseIsPoolStep DEF BadAnswer, Hangup
<1>8. CASE Answer(c) \/ ReadSome(c)
  BY <1>8, EndedCall, PoolAtRest DEF Answer, ReadSome
<1>9. CASE Finish(c)
  BY <1>1, <1>9, PoolAtRest DEF Finish
<1>10. CASE Break(c)
  <2>1. CallsSound'
    BY <1>1, <1>10, EndedCall DEF Break
  <2> QED
    BY <1>10, <2>1, ReleaseIsPoolStep DEF Break, Hangup
<1>11. CASE Resume(c)
  <2>1. CallsSound'
    BY <1>1, <1>11, EndedCall DEF Resume
  <2>2. limits' = limits /\ [PoolNext]_poolVars
    BY <1>11, PoolAtRest, ReleaseIsPoolStep DEF Resume, Hangup
  <2> QED
    BY <1>11, <2>1, <2>2 DEF Resume
<1>12. CASE CloseIdle(c)
  <2>1. CallsSound'
    BY <1>12, EndedCall DEF CloseIdle
  <2>2. limits' = limits /\ [PoolNext]_poolVars
    BY <1>12, PoolAtRest, ReleaseIsPoolStep DEF CloseIdle, DropIdle
  <2> QED
    BY <1>12, <2>1, <2>2 DEF CloseIdle
<1> QED
  BY <1>3, <1>4, <1>5, <1>6, <1>7, <1>8, <1>9, <1>10, <1>11, <1>12 DEF FetchStep

LEMMA EveryStep ==
    ASSUME DownloadInv, [Next]_vars
    PROVE  StepOK
<1> USE DEF DownloadInv, PoolInv, StepOK, selectionVars, moduleVars
<1>1. ASSUME UNCHANGED call PROVE CallsSound'
  BY <1>1 DEF CallsSound
<1>2. CASE UNCHANGED vars
  BY <1>1, <1>2, PoolAtRest DEF vars
<1>3. CASE IdleTimesOut
  BY <1>1, <1>3, ReleaseIsPoolStep DEF IdleTimesOut, DropIdle
<1>4. CASE HostChanges
  BY <1>1, <1>4, PoolAtRest DEF HostChanges
<1>5. CASE RunPool
  BY <1>1, <1>5 DEF RunPool, PoolNext, Reap, Tick
<1>6. CASE Refresh
  BY <1>1, <1>6, PoolAtRest DEF Refresh, RefreshList
<1> QED
  BY <1>2, <1>3, <1>4, <1>5, <1>6, CallSteps, FetchSteps DEF Next

-----------------------------------------------------------------------------
(* Start-up: Load gives a Proton account as many tunnels as keys unless    *)
(* told otherwise, and Setup no more.                                      *)
LEMMA InitialSettings ==
    ASSUME NEW vpn \in Vpns, DOMAIN Setup(vpn).exits # {}
    PROVE  LET p == Setup(vpn).providers[ProviderName] IN
           /\ DOMAIN Setup(vpn).providers = {ProviderName}
           /\ p.max \in Nat /\ p.keys \in Nat
           /\ p.type = "protonvpn" => p.max \in 1 .. p.keys
<1> DEFINE raw == vpn.providers[ProviderName]
           loaded == LoadProvider(raw)
           p == Setup(vpn).providers[ProviderName]
<1>1. raw.keys \in Nat /\ raw.max \in Nat /\ DOMAIN vpn.providers = {ProviderName}
  BY VpnsAssumption
<1>2. DOMAIN Load(vpn).providers = {ProviderName} /\ ProviderAccepted(raw)
  <2>1. PICK e \in DOMAIN vpn.exits : vpn.exits[e].provider \in {q \in DOMAIN vpn.providers : ProviderAccepted(vpn.providers[q])}
    BY DEF Setup, Load
  <2> QED
    BY <1>1, <2>1 DEF Load
<1>3. DOMAIN Setup(vpn).providers = {ProviderName} /\ p = Capped(loaded)
  BY <1>1, <1>2 DEF Setup, Load
<1>4. /\ loaded.type = raw.type /\ loaded.keys = raw.keys
      /\ loaded.max = IF raw.type = "protonvpn" /\ raw.max = 0 THEN raw.keys ELSE raw.max
  BY DEF LoadProvider
<1>5. loaded.type = "protonvpn" => loaded.keys > 0 /\ loaded.max > 0
  BY <1>1, <1>2, <1>4 DEF ProviderAccepted
<1>6. [loaded EXCEPT !.max = loaded.keys].max = loaded.keys /\ [loaded EXCEPT !.max = loaded.keys].keys = loaded.keys
  BY DEF LoadProvider
<1> HIDE DEF loaded
<1>7. p.keys = loaded.keys /\ p.max = IF loaded.type = "protonvpn" /\ loaded.max > loaded.keys THEN loaded.keys ELSE loaded.max
  BY <1>3, <1>6 DEF Capped
<1>8. p.type = loaded.type
  BY <1>3 DEF Capped, loaded, LoadProvider
<1> QED
  BY <1>1, <1>3, <1>4, <1>5, <1>7, <1>8

LEMMA InitInv == Init => DownloadInv
<1> SUFFICES ASSUME Init PROVE DownloadInv
  OBVIOUS
<1>1. PICK vpn \in Vpns, cached \in {0, 1} :
        LET setup == Setup(vpn) IN
        /\ DOMAIN setup.exits # {}
        /\ PoolInit([max |-> setup.providers[ProviderName].max, keys |-> setup.providers[ProviderName].keys])
        /\ SelectionInit(setup, setup.providers[ProviderName], cached)
  BY DEF Init
<1> DEFINE p == Setup(vpn).providers[ProviderName]
<1>2. /\ p.max \in Nat /\ p.keys \in Nat
      /\ p.type = "protonvpn" => p.max \in 1 .. p.keys
      /\ DOMAIN Setup(vpn).providers = {ProviderName}
  BY <1>1, InitialSettings
<1>3. [max |-> p.max, keys |-> p.keys] \in Settings
  BY <1>2 DEF Settings
<1>4. PoolInv
  BY <1>1, <1>3, InitSound
<1>5. CallsSound
  BY IdleCall DEF Init, ModuleInit, CallsSound
<1>6. config = Setup(vpn) /\ limits = [max |-> p.max, keys |-> p.keys]
  BY <1>1 DEF SelectionInit, PoolInit
<1>7. ProtonHasKeys
  BY <1>2, <1>6 DEF ProtonHasKeys, Proton, KeysSuffice
<1> QED
  BY <1>4, <1>5, <1>7 DEF DownloadInv

-----------------------------------------------------------------------------
(* Through every interleaving of calls, failovers, downloads, closings and *)
(* list refreshes: the pool knows what is open on each key, and no two     *)
(* tunnels of a Proton account are on one key, whatever max_tunnels says.  *)
THEOREM KeysAlwaysSound == Spec => []KeysSound
<1>1. DownloadInv /\ [Next]_vars => DownloadInv'
  <2> SUFFICES ASSUME DownloadInv, [Next]_vars PROVE DownloadInv'
    OBVIOUS
  <2>1. StepOK
    BY EveryStep
  <2>2. PoolInv'
    BY <2>1, StepSound DEF StepOK, DownloadInv
  <2>3. ProtonHasKeys'
    BY <2>1 DEF StepOK, DownloadInv, ProtonHasKeys, Proton, KeysSuffice
  <2> QED
    BY <2>1, <2>2, <2>3 DEF StepOK, DownloadInv
<1>2. DownloadInv => KeysSound
  BY DEF DownloadInv, PoolInv, ProtonHasKeys, KeysSuffice, OneTunnelPerKey, KeysSound, ProtonKeysApart
<1> QED
  BY InitInv, <1>1, <1>2, PTL DEF Spec

-----------------------------------------------------------------------------
(* Choosing a server.                                                      *)

(* The configuration in use, which does not change.                        *)
ConfigSound ==
    /\ \A e \in Exits : config.exits[e].locations \in Seq(STRING)
    /\ \A p \in DOMAIN config.providers : config.providers[p].files \subseteq Server

ChoiceRecord == [current : Server \cup {NoServer}, at : 0 .. MaxTime]

HealthSound(h) == h.consecutive \in Nat /\ h.until \in Nat

SelectionSound ==
    /\ now <= MaxTime
    /\ servers \subseteq Server
    /\ choice \in [Exits -> ChoiceRecord]
    /\ DOMAIN health = Server /\ \A s \in Server : HealthSound(health[s])
    /\ list \in Nat

LEMMA TierPermitted ==
    ASSUME ConfigSound, NEW e \in Exits, NEW i \in 1 .. TierCount(e), NEW s \in Tier(e, i)
    PROVE  s \in servers /\ Permitted(config.exits[e], s)
<1> DEFINE exit == config.exits[e]
<1>1. exit.locations \in Seq(STRING) /\ s \in servers /\ Info[s].country \notin exit.exclude
  BY DEF ConfigSound, Tier, Allowed
<1>2. CASE exit.locations = <<>>
  BY <1>1, <1>2 DEF Permitted
<1>3. CASE exit.locations # <<>>
  <2>1. Len(exit.locations) \in Nat \ {0}
    BY <1>1, <1>3
  <2>2. Matches(s, exit.locations[i])
    BY <1>3 DEF Tier
  <2>3. i \in 1 .. Len(exit.locations) /\ (exit.strict => i = 1)
    BY <1>3, <2>1 DEF TierCount
  <2> QED
    BY <1>1, <2>2, <2>3 DEF Permitted
<1> QED
  BY <1>2, <1>3

LEMMA OptionsAreCandidates ==
    ASSUME NEW e, NEW candidates, NEW s \in Options(e, candidates)
    PROVE  s \in candidates
BY DEF Options, First

(* What an exit picks is a healthy server of the first of its tiers that   *)
(* has one.                                                                *)
LEMMA PickedFrom ==
    ASSUME PoolTypeOK, SelectionSound, ConfigSound, NEW e \in Exits, NEW s, Pick(e, s)
    PROVE  /\ \E i \in First(TiersUp(e)) : s \in HealthyIn(e, i)
           /\ s \in Server /\ Permitted(config.exits[e], s)
           /\ choice' \in [Exits -> ChoiceRecord]
<1>1. PICK i \in First(TiersUp(e)) :
        LET candidates == HealthyIn(e, i) IN
        IF Kept(e, candidates) THEN s = choice[e].current /\ UNCHANGED choice
        ELSE /\ s \in Options(e, candidates)
             /\ choice' = [choice EXCEPT ![e] = [current |-> s, at |-> now]]
  BY DEF Pick
<1>2. s \in HealthyIn(e, i)
  BY <1>1, OptionsAreCandidates DEF Kept
<1>3. i \in 1 .. TierCount(e) /\ s \in Tier(e, i)
  BY <1>2 DEF First, TiersUp, HealthyIn
<1>4. s \in Server /\ Permitted(config.exits[e], s)
  BY <1>3, TierPermitted DEF SelectionSound
<1>5. choice' \in [Exits -> ChoiceRecord]
  <2>1. [current |-> s, at |-> now] \in ChoiceRecord
    BY <1>4, PoolAssumption DEF ChoiceRecord, SelectionSound, PoolTypeOK
  <2> QED
    BY <1>1, <2>1 DEF SelectionSound
<1> QED
  BY <1>2, <1>4, <1>5

LEMMA ServersLoaded ==
    ASSUME NEW provider, provider.files \subseteq Server, NEW at \in DOMAIN Upstream
    PROVE  LoadServers(Upstream[at], provider) \subseteq Server
BY SelectionAssumption DEF LoadServers, ProtonServers, LoadConfs

LEMMA BenchTyped ==
    ASSUME NEW n \in Nat \ {0}
    PROVE  BenchFor(n) \in Nat
<1>1. Min({n - 1, 10}) \in 0 .. 10
  BY DEF Min
<1>2. ASSUME NEW k \in 0 .. 10 PROVE 2^k \in Nat
  <2>0. CASE k = 0
    BY <2>0
  <2>1. CASE k = 1
    BY <2>1
  <2>2. CASE k = 2
    BY <2>2
  <2>3. CASE k = 3
    BY <2>3
  <2>4. CASE k = 4
    BY <2>4
  <2>5. CASE k = 5
    BY <2>5
  <2>6. CASE k = 6
    BY <2>6
  <2>7. CASE k = 7
    BY <2>7
  <2>8. CASE k = 8
    BY <2>8
  <2>9. CASE k = 9
    BY <2>9
  <2>10. CASE k = 10
    BY <2>10
  <2> QED
    BY <1>2, <2>0, <2>1, <2>2, <2>3, <2>4, <2>5, <2>6, <2>7, <2>8, <2>9, <2>10
<1>3. PICK k \in Nat : k = 2^(Min({n - 1, 10}))
  BY <1>1, <1>2
<1>4. BenchBase \in Nat /\ BenchMax \in Nat
  BY SelectionAssumption
<1>5. BenchBase * k \in Nat
  BY <1>4
<1>6. Min({BenchMax, BenchBase * k}) \in Nat
  BY <1>4, <1>5 DEF Min
<1> QED
  BY <1>3, <1>6 DEF BenchFor

LEMMA HealthAfter ==
    ASSUME PoolTypeOK, SelectionSound, NEW s, RecordFailure(s) \/ RecordSuccess(s) \/ UNCHANGED health
    PROVE  DOMAIN health' = Server /\ \A t \in Server : HealthSound(health'[t])
<1>1. ASSUME s \in Server, RecordFailure(s) PROVE HealthSound(health'[s])
  <2>1. health'[s] = Failed(health[s])
    BY <1>1 DEF RecordFailure, SelectionSound
  <2>2. health[s].consecutive \in Nat
    BY <1>1 DEF SelectionSound, HealthSound
  <2>3. BenchFor(health[s].consecutive + 1) \in Nat
    BY <2>2, BenchTyped
  <2> QED
    BY <2>1, <2>2, <2>3 DEF Failed, HealthSound, PoolTypeOK
<1>2. ASSUME s \in Server, RecordSuccess(s) PROVE HealthSound(health'[s])
  <2>1. health'[s] = [Healthy EXCEPT !.failures = health[s].failures]
    BY <1>2 DEF RecordSuccess, SelectionSound
  <2> QED
    BY <2>1 DEF HealthSound, Healthy
<1>3. DOMAIN health' = Server /\ \A t \in Server : t # s => health'[t] = health[t]
  BY DEF RecordFailure, RecordSuccess, SelectionSound
<1>4. UNCHANGED health => \A t \in Server : HealthSound(health'[t])
  BY DEF SelectionSound
<1> QED
  BY <1>1, <1>2, <1>3, <1>4 DEF SelectionSound

(* The pool neither turns the clock back nor past its end.                 *)
LEMMA PoolKeepsTime ==
    ASSUME PoolTypeOK, now <= MaxTime, [PoolNext]_poolVars
    PROVE  now' <= MaxTime
<1>1. CASE now' = now
  BY <1>1
<1>2. CASE Tick
  BY <1>2, PoolAssumption DEF Tick, PoolTypeOK
<1> QED
  BY <1>1, <1>2 DEF PoolNext, poolVars, restOfPool, BeginOpen, OpenFails, OpenSucceeds, Forget, Reap, CloseAll

-----------------------------------------------------------------------------
(* What a call holds.                                                      *)

(* A call of caller c, by its bounds, what it holds and where it goes.     *)
WithinBounds(c, r) == r.attempt \in 1 .. Attempts /\ r.tried \in 0 .. Len(Addresses[c])

HoldsRight(r) ==
    /\ r.phase \in {"handshake", "operate", "leave", "connected"} => r.tunnel \in Tunnel
    /\ r.phase \in {"idle", "pick", "get", "open", "refused", "unavailable"} => r.tunnel = NoTunnel
    /\ r.phase = "leave" => r.outcome # ""

CallRecordOf(c) ==
    {r \in SoundCalls : WithinBounds(c, r) /\ HoldsRight(r) /\ (r.phase # "idle" => r.exit = ExitOf(c))}

(* A download calls through an exit there is, one call at a time; what it  *)
(* reads it reads from a connection.                                       *)
CallFits(f, r, c) ==
    /\ f.stage \notin {"asking", "reading", "resuming"} => r = NoCall
    /\ f.stage = "reading" => r.phase = "connected"
    /\ f.stage \in {"asking", "reading", "resuming", "closing"} => ExitOf(c) \in Exits

CallsFit == \A c \in Caller : call[c] \in CallRecordOf(c) /\ CallFits(fetch[c], call[c], c)

(* While a tunnel is opened it is for a call that waits for it.            *)
OpenerWaits ==
    opening # Free =>
        /\ opening.by \in Caller
        /\ call[opening.by].phase = "open" /\ call[opening.by].server = opening.server

OnTunnel(r)    == r.phase \in {"handshake", "operate", "bench", "forget", "leave"}
Connecting1(r) == r.phase = "connected" \/ (r.phase = "leave" /\ r.op = "dial" /\ r.outcome = "ok")

(* Whoever uses a tunnel is counted.                                       *)
UsesSound ==
    /\ idle \in [Exits -> [Tunnel -> Nat]]
    /\ \A t \in Tunnel : IsFiniteSet(Users(t)) /\ tun[t].active = Cardinality(Users(t))

LEMMA UsersOf ==
    ASSUME NEW t, NEW x
    PROVE  x \in Users(t) <=>
             \/ \E c \in Caller : x = <<"call", c, 0>> /\ call[c].tunnel = t /\ OnTunnel(call[c])
             \/ \E c \in Caller : x = <<"connection", c, 0>> /\ call[c].tunnel = t /\ Connecting1(call[c])
             \/ \E e \in Exits : \E n \in 1 .. idle[e][t] : x = <<"idle", e, n>>
BY DEF Users, OnCall, Connecting, Connected, OnTunnel, Connecting1

LEMMA UsersAfter ==
    ASSUME NEW t, NEW x
    PROVE  x \in Users(t)' <=>
             \/ \E c \in Caller : x = <<"call", c, 0>> /\ call'[c].tunnel = t /\ OnTunnel(call'[c])
             \/ \E c \in Caller : x = <<"connection", c, 0>> /\ call'[c].tunnel = t /\ Connecting1(call'[c])
             \/ \E e \in Exits' : \E n \in 1 .. idle'[e][t] : x = <<"idle", e, n>>
BY DEF Users, OnCall, Connecting, Connected, OnTunnel, Connecting1

(* The uses of all but one tunnel stay, or of all.                         *)
LEMMA UsesKept ==
    ASSUME UsesSound, config' = config, UNCHANGED idle,
           \A t \in Tunnel : tun'[t].active = tun[t].active,
           \A c \in Caller, t \in Tunnel :
              /\ call'[c].tunnel = t /\ OnTunnel(call'[c]) <=> call[c].tunnel = t /\ OnTunnel(call[c])
              /\ call'[c].tunnel = t /\ Connecting1(call'[c]) <=> call[c].tunnel = t /\ Connecting1(call[c])
    PROVE  UsesSound'
<1>1. Exits' = Exits
  BY DEF Exits
<1>2. ASSUME NEW t \in Tunnel PROVE Users(t)' = Users(t)
  <2>1. \A x : x \in Users(t)' <=> x \in Users(t)
    BY <1>1, UsersOf, UsersAfter
  <2> QED
    BY <2>1
<1> QED
  BY <1>1, <1>2 DEF UsesSound

(* One use more of tunnel k, or one less.                                  *)
LEMMA UseAdded ==
    ASSUME NEW k \in Tunnel, NEW x, UsesSound, x \notin Users(k), Users(k)' = Users(k) \cup {x},
           tun'[k].active = tun[k].active + 1
    PROVE  IsFiniteSet(Users(k)') /\ tun'[k].active = Cardinality(Users(k)')
BY FS_AddElement DEF UsesSound

LEMMA UseRemoved ==
    ASSUME NEW k \in Tunnel, NEW x \in Users(k), UsesSound, Users(k)' = Users(k) \ {x},
           tun'[k].active = tun[k].active - 1
    PROVE  IsFiniteSet(Users(k)') /\ tun'[k].active = Cardinality(Users(k)')
BY FS_RemoveElement DEF UsesSound

LEMMA UsedIsActive ==
    ASSUME UsesSound, NEW t \in Tunnel, NEW x \in Users(t)
    PROVE  tun[t].active > 0
<1>1. Cardinality(Users(t)) \in Nat
  BY FS_CardinalityType DEF UsesSound
<1>2. Cardinality(Users(t)) # 0
  BY FS_EmptySet DEF UsesSound
<1> QED
  BY <1>1, <1>2 DEF UsesSound

(* Where only one call changes, only its two uses do: of a tunnel it was   *)
(* handed, and of the one its connection is through.                       *)
LEMMA OneCallsUses ==
    ASSUME CallsSound, config' = config, UNCHANGED idle, NEW c \in Caller, NEW r,
           call' = [call EXCEPT ![c] = r]
    PROVE  \E x, y :
             /\ x # y
             /\ \A t : x \in Users(t) <=> (call[c].tunnel = t /\ OnTunnel(call[c]))
             /\ \A t : y \in Users(t) <=> (call[c].tunnel = t /\ Connecting1(call[c]))
             /\ \A t : x \in Users(t)' <=> (r.tunnel = t /\ OnTunnel(r))
             /\ \A t : y \in Users(t)' <=> (r.tunnel = t /\ Connecting1(r))
             /\ \A t, u : u # x /\ u # y => (u \in Users(t)' <=> u \in Users(t))
<1> DEFINE x == <<"call", c, 0>>
           y == <<"connection", c, 0>>
<1>1. Exits' = Exits
  BY DEF Exits
<1>2. call'[c] = r /\ \A d \in Caller : d # c => call'[d] = call[d]
  BY DEF CallsSound
<1>3. x # y
  OBVIOUS
<1>4. ASSUME NEW t
      PROVE  /\ x \in Users(t) <=> (call[c].tunnel = t /\ OnTunnel(call[c]))
             /\ y \in Users(t) <=> (call[c].tunnel = t /\ Connecting1(call[c]))
  BY UsersOf
<1>5. ASSUME NEW t
      PROVE  /\ x \in Users(t)' <=> (r.tunnel = t /\ OnTunnel(r))
             /\ y \in Users(t)' <=> (r.tunnel = t /\ Connecting1(r))
  BY <1>2, UsersAfter
<1>6. ASSUME NEW t, NEW u, u # x, u # y PROVE u \in Users(t)' <=> u \in Users(t)
  BY <1>1, <1>2, <1>6, UsersOf, UsersAfter
<1> HIDE DEF x, y
<1> QED
  BY <1>3, <1>4, <1>5, <1>6

(* Uses of one tunnel change, and are counted.                             *)
LEMMA OneTunnelsUses ==
    ASSUME UsesSound, config' = config, idle' \in [Exits -> [Tunnel -> Nat]], NEW k \in Tunnel,
           \A t \in Tunnel : t # k => Users(t)' = Users(t) /\ tun'[t].active = tun[t].active,
           \/ \E x : x \notin Users(k) /\ Users(k)' = Users(k) \cup {x} /\ tun'[k].active = tun[k].active + 1
           \/ \E x \in Users(k) : Users(k)' = Users(k) \ {x} /\ tun'[k].active = tun[k].active - 1
    PROVE  UsesSound'
<1>1. IsFiniteSet(Users(k)') /\ tun'[k].active = Cardinality(Users(k)')
  BY UseAdded, UseRemoved
<1> QED
  BY <1>1 DEF UsesSound, Exits

LEMMA CallTakesTunnel ==
    ASSUME UsesSound, CallsSound, config' = config, UNCHANGED idle, NEW c \in Caller, NEW r, NEW k \in Tunnel,
           call' = [call EXCEPT ![c] = r], call[c].tunnel = NoTunnel,
           r.tunnel = k, OnTunnel(r), ~Connecting1(r),
           \A t \in Tunnel : tun'[t].active = IF t = k THEN tun[t].active + 1 ELSE tun[t].active
    PROVE  UsesSound'
<1>1. PICK x, y :
             /\ x # y
             /\ \A t : x \in Users(t) <=> (call[c].tunnel = t /\ OnTunnel(call[c]))
             /\ \A t : y \in Users(t) <=> (call[c].tunnel = t /\ Connecting1(call[c]))
             /\ \A t : x \in Users(t)' <=> (r.tunnel = t /\ OnTunnel(r))
             /\ \A t : y \in Users(t)' <=> (r.tunnel = t /\ Connecting1(r))
             /\ \A t, u : u # x /\ u # y => (u \in Users(t)' <=> u \in Users(t))
  BY OneCallsUses
<1>2. \A t \in Tunnel : x \notin Users(t) /\ y \notin Users(t) /\ y \notin Users(t)'
  BY <1>1, PoolAssumption
<1>3. \A u : u \in Users(k)' <=> (u \in Users(k) \/ u = x)
  BY <1>1, <1>2
<1>4. ASSUME NEW t \in Tunnel, t # k PROVE Users(t)' = Users(t)
  <2>1. \A u : u \in Users(t)' <=> u \in Users(t)
    BY <1>1, <1>2, <1>4
  <2> QED
    BY <2>1
<1>5. Users(k)' = Users(k) \cup {x}
  BY <1>3
<1> QED
  BY <1>2, <1>4, <1>5, OneTunnelsUses DEF UsesSound

LEMMA CallConnects ==
    ASSUME UsesSound, CallsSound, config' = config, UNCHANGED idle, NEW c \in Caller, NEW r, NEW k \in Tunnel,
           call' = [call EXCEPT ![c] = r], call[c].tunnel = k, r.tunnel = k,
           OnTunnel(call[c]), OnTunnel(r), ~Connecting1(call[c]), Connecting1(r),
           \A t \in Tunnel : tun'[t].active = IF t = k THEN tun[t].active + 1 ELSE tun[t].active
    PROVE  UsesSound'
<1>1. PICK x, y :
             /\ x # y
             /\ \A t : x \in Users(t) <=> (call[c].tunnel = t /\ OnTunnel(call[c]))
             /\ \A t : y \in Users(t) <=> (call[c].tunnel = t /\ Connecting1(call[c]))
             /\ \A t : x \in Users(t)' <=> (r.tunnel = t /\ OnTunnel(r))
             /\ \A t : y \in Users(t)' <=> (r.tunnel = t /\ Connecting1(r))
             /\ \A t, u : u # x /\ u # y => (u \in Users(t)' <=> u \in Users(t))
  BY OneCallsUses
<1>2. \A u : u \in Users(k)' <=> (u \in Users(k) \/ u = y)
  BY <1>1
<1>3. ASSUME NEW t \in Tunnel, t # k PROVE Users(t)' = Users(t)
  <2>1. \A u : u \in Users(t)' <=> u \in Users(t)
    BY <1>1, <1>3
  <2> QED
    BY <2>1
<1>4. Users(k)' = Users(k) \cup {y} /\ y \notin Users(k)
  BY <1>1, <1>2
<1> QED
  BY <1>3, <1>4, OneTunnelsUses DEF UsesSound

(* Giving back what the pool handed over, where a connection stays, and    *)
(* hanging up.                                                             *)
LEMMA CallLetsGo ==
    ASSUME UsesSound, CallsSound, config' = config, UNCHANGED idle, NEW c \in Caller, NEW r, NEW k \in Tunnel,
           call' = [call EXCEPT ![c] = r], call[c].tunnel = k, r.tunnel \in {k, NoTunnel}, ~OnTunnel(r),
           \/ /\ OnTunnel(call[c])
              /\ Connecting1(call[c]) <=> (r.tunnel = k /\ Connecting1(r))
           \/ ~OnTunnel(call[c]) /\ Connecting1(call[c]) /\ ~Connecting1(r),
           \A t \in Tunnel : tun'[t].active = IF t = k THEN tun[t].active - 1 ELSE tun[t].active
    PROVE  UsesSound'
<1>1. PICK x, y :
             /\ x # y
             /\ \A t : x \in Users(t) <=> (call[c].tunnel = t /\ OnTunnel(call[c]))
             /\ \A t : y \in Users(t) <=> (call[c].tunnel = t /\ Connecting1(call[c]))
             /\ \A t : x \in Users(t)' <=> (r.tunnel = t /\ OnTunnel(r))
             /\ \A t : y \in Users(t)' <=> (r.tunnel = t /\ Connecting1(r))
             /\ \A t, u : u # x /\ u # y => (u \in Users(t)' <=> u \in Users(t))
  BY OneCallsUses
<1>2. ASSUME NEW t \in Tunnel, t # k PROVE Users(t)' = Users(t)
  <2>1. \A u : u \in Users(t)' <=> u \in Users(t)
    BY <1>1, <1>2, PoolAssumption
  <2> QED
    BY <2>1
<1>3. \E z \in Users(k) : Users(k)' = Users(k) \ {z}
  <2>1. CASE OnTunnel(call[c])
    <3>1. x \in Users(k) /\ \A u : u \in Users(k)' <=> (u \in Users(k) /\ u # x)
      BY <1>1, <2>1
    <3> QED
      BY <3>1
  <2>2. CASE ~OnTunnel(call[c])
    <3>1. y \in Users(k) /\ \A u : u \in Users(k)' <=> (u \in Users(k) /\ u # y)
      BY <1>1, <2>2
    <3> QED
      BY <3>1
  <2> QED
    BY <2>1, <2>2
<1> QED
  BY <1>2, <1>3, OneTunnelsUses DEF UsesSound

(* One idle connection less, or one more.                                  *)
IdleUses(t) == UNION {{<<"idle", e, n>> : n \in 1 .. idle[e][t]} : e \in Exits}

LEMMA OneIdleLess ==
    ASSUME idle \in [Exits -> [Tunnel -> Nat]], config' = config, NEW e \in Exits, NEW k \in Tunnel,
           idle[e][k] > 0, idle' = [idle EXCEPT ![e][k] = @ - 1]
    PROVE  /\ idle' \in [Exits -> [Tunnel -> Nat]]
           /\ \E n : LET z == <<"idle", e, n>> IN
                /\ z \in IdleUses(k) /\ \A u : u \in IdleUses(k)' <=> (u \in IdleUses(k) /\ u # z)
                /\ \A t \in Tunnel : t # k => \A u : u \in IdleUses(t)' <=> u \in IdleUses(t)
<1> DEFINE n == idle[e][k]
           z == <<"idle", e, n>>
<1>1. n \in Nat /\ n - 1 \in Nat /\ Exits' = Exits
  BY DEF Exits
<1>2. /\ idle'[e][k] = n - 1
      /\ \A f \in Exits, t \in Tunnel : f # e \/ t # k => idle'[f][t] = idle[f][t]
      /\ idle' \in [Exits -> [Tunnel -> Nat]]
  BY <1>1
<1>3. z \in IdleUses(k)
  BY <1>1 DEF IdleUses
<1>4. ASSUME NEW u PROVE u \in IdleUses(k)' <=> (u \in IdleUses(k) /\ u # z)
  <2>1. ASSUME u \in IdleUses(k)' PROVE u \in IdleUses(k) /\ u # z
    <3>1. PICK f \in Exits : \E j \in 1 .. idle'[f][k] : u = <<"idle", f, j>>
      BY <1>1, <2>1 DEF IdleUses
    <3>2. PICK j \in 1 .. idle'[f][k] : u = <<"idle", f, j>>
      BY <3>1
    <3>3. j \in 1 .. idle[f][k] /\ (f = e => j # n)
      BY <1>1, <1>2, <3>2
    <3> QED
      BY <3>2, <3>3 DEF IdleUses
  <2>2. ASSUME u \in IdleUses(k), u # z PROVE u \in IdleUses(k)'
    <3>1. PICK f \in Exits : \E j \in 1 .. idle[f][k] : u = <<"idle", f, j>>
      BY <2>2 DEF IdleUses
    <3>2. PICK j \in 1 .. idle[f][k] : u = <<"idle", f, j>>
      BY <3>1
    <3>3. j \in 1 .. idle'[f][k]
      BY <1>1, <1>2, <2>2, <3>2
    <3>4. f \in Exits'
      BY <1>1
    <3>5. u \in {<<"idle", f, i>> : i \in 1 .. idle'[f][k]}
      BY <3>2, <3>3
    <3> QED
      BY <3>4, <3>5 DEF IdleUses
  <2> QED
    BY <2>1, <2>2
<1>5. ASSUME NEW t \in Tunnel, t # k, NEW u PROVE u \in IdleUses(t)' <=> u \in IdleUses(t)
  BY <1>1, <1>2, <1>5 DEF IdleUses
<1> QED
  BY <1>2, <1>3, <1>4, <1>5

LEMMA OneIdleMore ==
    ASSUME idle \in [Exits -> [Tunnel -> Nat]], config' = config, NEW e \in Exits, NEW k \in Tunnel,
           idle' = [idle EXCEPT ![e][k] = @ + 1]
    PROVE  /\ idle' \in [Exits -> [Tunnel -> Nat]]
           /\ \E n : LET z == <<"idle", e, n>> IN
                /\ z \notin IdleUses(k) /\ \A u : u \in IdleUses(k)' <=> (u \in IdleUses(k) \/ u = z)
                /\ \A t \in Tunnel : t # k => \A u : u \in IdleUses(t)' <=> u \in IdleUses(t)
<1> DEFINE n == idle[e][k] + 1
           z == <<"idle", e, n>>
<1>1. idle[e][k] \in Nat /\ n \in Nat /\ Exits' = Exits
  BY DEF Exits
<1>2. /\ idle'[e][k] = n
      /\ \A f \in Exits, t \in Tunnel : f # e \/ t # k => idle'[f][t] = idle[f][t]
      /\ idle' \in [Exits -> [Tunnel -> Nat]]
  BY <1>1
<1>3. z \notin IdleUses(k)
  BY <1>1 DEF IdleUses
<1>4. ASSUME NEW u PROVE u \in IdleUses(k)' <=> (u \in IdleUses(k) \/ u = z)
  <2>1. ASSUME u \in IdleUses(k)', u # z PROVE u \in IdleUses(k)
    <3>1. PICK f \in Exits : \E j \in 1 .. idle'[f][k] : u = <<"idle", f, j>>
      BY <1>1, <2>1 DEF IdleUses
    <3>2. PICK j \in 1 .. idle'[f][k] : u = <<"idle", f, j>>
      BY <3>1
    <3>3. j \in 1 .. idle[f][k]
      <4>1. CASE f = e
        <5>1. j # n
          BY <2>1, <3>2, <4>1
        <5>2. j \in 1 .. n
          BY <1>2, <4>1
        <5> QED
          BY <1>1, <4>1, <5>1, <5>2
      <4>2. CASE f # e
        BY <1>2, <4>2
      <4> QED
        BY <4>1, <4>2
    <3>4. u \in {<<"idle", f, i>> : i \in 1 .. idle[f][k]}
      BY <3>2, <3>3
    <3> QED
      BY <3>4 DEF IdleUses
  <2>2. ASSUME u \in IdleUses(k) \/ u = z PROVE u \in IdleUses(k)'
    <3>1. PICK f \in Exits : \E j \in 1 .. idle'[f][k] : u = <<"idle", f, j>>
      <4>1. CASE u = z
        <5>1. n \in 1 .. idle'[e][k]
          BY <1>1, <1>2
        <5> QED
          BY <4>1, <5>1
      <4>2. CASE u \in IdleUses(k)
        <5>1. PICK f \in Exits : \E j \in 1 .. idle[f][k] : u = <<"idle", f, j>>
          BY <4>2 DEF IdleUses
        <5>2. 1 .. idle[f][k] \subseteq 1 .. idle'[f][k]
          BY <1>1, <1>2
        <5> QED
          BY <5>1, <5>2
      <4> QED
        BY <2>2, <4>1, <4>2
    <3>2. f \in Exits' /\ u \in {<<"idle", f, i>> : i \in 1 .. idle'[f][k]}
      BY <1>1, <3>1
    <3> QED
      BY <3>2 DEF IdleUses
  <2> QED
    BY <2>1, <2>2
<1>5. ASSUME NEW t \in Tunnel, t # k, NEW u PROVE u \in IdleUses(t)' <=> u \in IdleUses(t)
  BY <1>1, <1>2, <1>5 DEF IdleUses
<1> QED
  BY <1>2, <1>3, <1>4, <1>5

LEMMA UsersOfIdle ==
    ASSUME NEW t, NEW x
    PROVE  /\ x \in Users(t) <=>
                \/ \E c \in Caller : x = <<"call", c, 0>> /\ call[c].tunnel = t /\ OnTunnel(call[c])
                \/ \E c \in Caller : x = <<"connection", c, 0>> /\ call[c].tunnel = t /\ Connecting1(call[c])
                \/ x \in IdleUses(t)
           /\ x \in Users(t)' <=>
                \/ \E c \in Caller : x = <<"call", c, 0>> /\ call'[c].tunnel = t /\ OnTunnel(call'[c])
                \/ \E c \in Caller : x = <<"connection", c, 0>> /\ call'[c].tunnel = t /\ Connecting1(call'[c])
                \/ x \in IdleUses(t)'
<1>1. Users(t) = {<<"call", c, 0>> : c \in OnCall(t)} \cup {<<"connection", c, 0>> : c \in Connecting(t)}
                    \cup IdleUses(t)
  BY DEF Users, IdleUses
<1>2. Users(t)' = {<<"call", c, 0>> : c \in OnCall(t)'} \cup {<<"connection", c, 0>> : c \in Connecting(t)'}
                    \cup IdleUses(t)'
  BY DEF Users, IdleUses
<1> QED
  BY <1>1, <1>2 DEF OnCall, Connecting, Connected, OnTunnel, Connecting1

LEMMA IdleUsesAreIdle ==
    ASSUME NEW t, NEW c
    PROVE  <<"call", c, 0>> \notin IdleUses(t) /\ <<"connection", c, 0>> \notin IdleUses(t)
BY DEF IdleUses

(* An idle connection is closed.                                           *)
LEMMA IdleLetsGo ==
    ASSUME UsesSound, config' = config, NEW e \in Exits, NEW k \in Tunnel, UNCHANGED call,
           idle[e][k] > 0, idle' = [idle EXCEPT ![e][k] = @ - 1],
           \A t \in Tunnel : tun'[t].active = IF t = k THEN tun[t].active - 1 ELSE tun[t].active
    PROVE  UsesSound'
<1>1. idle \in [Exits -> [Tunnel -> Nat]]
  BY DEF UsesSound
<1>2. PICK n : LET z == <<"idle", e, n>> IN
        /\ z \in IdleUses(k) /\ \A u : u \in IdleUses(k)' <=> (u \in IdleUses(k) /\ u # z)
        /\ \A t \in Tunnel : t # k => \A u : u \in IdleUses(t)' <=> u \in IdleUses(t)
  BY <1>1, OneIdleLess
<1>3. ASSUME NEW t \in Tunnel, t # k PROVE Users(t)' = Users(t)
  <2>1. \A u : u \in Users(t)' <=> u \in Users(t)
    BY <1>2, <1>3, UsersOfIdle
  <2> QED
    BY <2>1
<1>4. \E z \in Users(k) : Users(k)' = Users(k) \ {z}
  <2> DEFINE z == <<"idle", e, n>>
  <2>1. z \in Users(k)
    BY <1>2, UsersOfIdle
  <2>2. \A c : z # <<"call", c, 0>> /\ z # <<"connection", c, 0>>
    OBVIOUS
  <2> HIDE DEF z
  <2>3. \A u : u \in IdleUses(k)' <=> (u \in IdleUses(k) /\ u # z)
    BY <1>2 DEF z
  <2>4. \A u : u \in Users(k)' <=> (u \in Users(k) /\ u # z)
    BY <2>2, <2>3, UsersOfIdle
  <2> QED
    BY <2>1, <2>4
<1>5. idle' \in [Exits -> [Tunnel -> Nat]]
  BY <1>1, OneIdleLess
<1> QED
  BY <1>3, <1>4, <1>5, OneTunnelsUses DEF UsesSound

LEMMA UseSwapped ==
    ASSUME NEW k \in Tunnel, NEW x, NEW z, UsesSound, x \in Users(k), z \notin Users(k),
           \A u : u \in Users(k)' <=> ((u \in Users(k) /\ u # x) \/ u = z), tun'[k].active = tun[k].active
    PROVE  IsFiniteSet(Users(k)') /\ tun'[k].active = Cardinality(Users(k)')
<1> DEFINE S == Users(k) \ {x}
<1>1. IsFiniteSet(Users(k)) /\ tun[k].active = Cardinality(Users(k)) /\ Cardinality(Users(k)) \in Nat
  BY FS_CardinalityType DEF UsesSound
<1>2. IsFiniteSet(S) /\ Cardinality(S) = Cardinality(Users(k)) - 1
  BY <1>1, FS_RemoveElement
<1>3. z \notin S
  OBVIOUS
<1>4. Users(k)' = S \cup {z}
  OBVIOUS
<1> HIDE DEF S
<1>5. IsFiniteSet(Users(k)') /\ Cardinality(Users(k)') = Cardinality(S) + 1
  BY <1>2, <1>3, <1>4, FS_AddElement
<1> QED
  BY <1>1, <1>2, <1>5

(* A connection is kept for later, and taken again.                        *)
LEMMA ConnectionIdles ==
    ASSUME UsesSound, CallsSound, config' = config, NEW c \in Caller, NEW e \in Exits, NEW k \in Tunnel,
           call[c].phase = "connected", call[c].tunnel = k, call' = [call EXCEPT ![c] = NoCall],
           idle' = [idle EXCEPT ![e][k] = @ + 1], UNCHANGED tun
    PROVE  UsesSound'
<1>1. idle \in [Exits -> [Tunnel -> Nat]]
  BY DEF UsesSound
<1>2. PICK n : LET z == <<"idle", e, n>> IN
        /\ z \notin IdleUses(k) /\ \A u : u \in IdleUses(k)' <=> (u \in IdleUses(k) \/ u = z)
        /\ \A t \in Tunnel : t # k => \A u : u \in IdleUses(t)' <=> u \in IdleUses(t)
  BY <1>1, OneIdleMore
<1> DEFINE y == <<"connection", c, 0>>
           z == <<"idle", e, n>>
<1>3. \A d : z # <<"call", d, 0>> /\ z # <<"connection", d, 0>>
  OBVIOUS
<1>4. /\ call'[c] = NoCall /\ \A d \in Caller : d # c => call'[d] = call[d]
      /\ ~OnTunnel(NoCall) /\ ~Connecting1(NoCall) /\ ~OnTunnel(call[c]) /\ Connecting1(call[c])
  BY DEF CallsSound, NoCall, OnTunnel, Connecting1
<1>5. ASSUME NEW t \in Tunnel, t # k PROVE Users(t)' = Users(t)
  <2>1. \A u : u \in Users(t)' <=> u \in Users(t)
    BY <1>2, <1>4, <1>5, UsersOfIdle
  <2> QED
    BY <2>1
<1>6. y \in Users(k) /\ y \notin IdleUses(k)
  BY <1>4, UsersOfIdle, IdleUsesAreIdle
<1>7. \A d \in Caller : d # c => <<"connection", d, 0>> # y /\ <<"call", d, 0>> # y
  OBVIOUS
<1>8. <<"call", c, 0>> # y
  OBVIOUS
<1> HIDE DEF z
<1>9. /\ z \notin IdleUses(k)
      /\ \A u : u \in IdleUses(k)' <=> (u \in IdleUses(k) \/ u = z)
  BY <1>2 DEF z
<1>10. z \notin Users(k)
  BY <1>3, <1>9, UsersOfIdle
<1>11. \A u : u \in Users(k)' <=> ((u \in Users(k) /\ u # y) \/ u = z)
  BY <1>3, <1>4, <1>6, <1>7, <1>8, <1>9, UsersOfIdle
<1>12. IsFiniteSet(Users(k)') /\ tun'[k].active = Cardinality(Users(k)')
  BY <1>6, <1>10, <1>11, UseSwapped
<1>13. idle' \in [Exits -> [Tunnel -> Nat]]
  BY <1>1, OneIdleMore
<1> QED
  BY <1>5, <1>12, <1>13 DEF UsesSound, Exits

LEMMA ConnectionTakenAgain ==
    ASSUME UsesSound, CallsSound, config' = config, NEW c \in Caller, NEW e \in Exits, NEW k \in Tunnel, NEW r,
           ~OnTunnel(call[c]), ~Connecting1(call[c]), call' = [call EXCEPT ![c] = r],
           r.phase = "connected", r.tunnel = k,
           idle[e][k] > 0, idle' = [idle EXCEPT ![e][k] = @ - 1], UNCHANGED tun
    PROVE  UsesSound'
<1>1. idle \in [Exits -> [Tunnel -> Nat]]
  BY DEF UsesSound
<1>2. PICK n : LET z == <<"idle", e, n>> IN
        /\ z \in IdleUses(k) /\ \A u : u \in IdleUses(k)' <=> (u \in IdleUses(k) /\ u # z)
        /\ \A t \in Tunnel : t # k => \A u : u \in IdleUses(t)' <=> u \in IdleUses(t)
  BY <1>1, OneIdleLess
<1> DEFINE y == <<"connection", c, 0>>
           z == <<"idle", e, n>>
<1>3. \A d : z # <<"call", d, 0>> /\ z # <<"connection", d, 0>>
  OBVIOUS
<1>4. /\ call'[c] = r /\ \A d \in Caller : d # c => call'[d] = call[d]
      /\ ~OnTunnel(r) /\ Connecting1(r)
  BY DEF CallsSound, OnTunnel, Connecting1
<1>5. ASSUME NEW t \in Tunnel, t # k PROVE Users(t)' = Users(t)
  <2>1. \A u : u \in Users(t)' <=> u \in Users(t)
    BY <1>2, <1>4, <1>5, UsersOfIdle
  <2> QED
    BY <2>1
<1>6. z \in Users(k) /\ y \notin IdleUses(k)
  BY <1>2, UsersOfIdle, IdleUsesAreIdle
<1>7. \A d \in Caller : d # c => <<"connection", d, 0>> # y /\ <<"call", d, 0>> # y
  OBVIOUS
<1>8. <<"call", c, 0>> # y
  OBVIOUS
<1> HIDE DEF z
<1>9. \A u : u \in IdleUses(k)' <=> (u \in IdleUses(k) /\ u # z)
  BY <1>2 DEF z
<1>10. y \notin Users(k)
  BY <1>6, <1>7, <1>8, UsersOfIdle
<1>11. \A u : u \in Users(k)' <=> ((u \in Users(k) /\ u # z) \/ u = y)
  BY <1>3, <1>4, <1>6, <1>7, <1>8, <1>9, UsersOfIdle
<1>12. IsFiniteSet(Users(k)') /\ tun'[k].active = Cardinality(Users(k)')
  BY <1>6, <1>10, <1>11, UseSwapped
<1>13. idle' \in [Exits -> [Tunnel -> Nat]]
  BY <1>1, OneIdleLess
<1> QED
  BY <1>5, <1>12, <1>13 DEF UsesSound, Exits

(* A call that holds nothing, or goes on holding what it held.             *)
LEMMA CallHoldsAsBefore ==
    ASSUME UsesSound, CallsSound, config' = config, UNCHANGED idle, NEW c \in Caller, NEW r,
           call' = [call EXCEPT ![c] = r], r.tunnel = call[c].tunnel,
           \/ r.tunnel = NoTunnel
           \/ (OnTunnel(r) <=> OnTunnel(call[c])) /\ (Connecting1(r) <=> Connecting1(call[c])),
           \A t \in Tunnel : tun'[t].active = tun[t].active
    PROVE  UsesSound'
<1>1. call'[c] = r /\ \A d \in Caller : d # c => call'[d] = call[d]
  BY DEF CallsSound
<1>2. NoTunnel \notin Tunnel
  BY PoolAssumption
<1>3. ASSUME NEW d \in Caller, NEW t \in Tunnel
      PROVE  /\ call'[d].tunnel = t /\ OnTunnel(call'[d]) <=> call[d].tunnel = t /\ OnTunnel(call[d])
             /\ call'[d].tunnel = t /\ Connecting1(call'[d]) <=> call[d].tunnel = t /\ Connecting1(call[d])
  BY <1>1, <1>2
<1> QED
  BY <1>3, UsesKept

-----------------------------------------------------------------------------
(* What the pool does to a tunnel: its users are counted, and as long as   *)
(* it has any it stays its server's.                                       *)
ServersStay ==
    \A t \in Tunnel : tun[t].active > 0 /\ tun'[t].active > 0 => tun'[t].server = tun[t].server

ActiveStays == \A t \in Tunnel : tun'[t].active = tun[t].active

LEMMA ShutRecord ==
    ASSUME NEW x \in TunnelRecord
    PROVE  Shut(x).active = x.active /\ (x.active > 0 => Shut(x).server = x.server)
BY DEF Shut, Gone, TunnelRecord

LEMMA LeftRecord ==
    ASSUME NEW x \in TunnelRecord, x.active > 0
    PROVE  Left(x).active = x.active - 1 /\ (Left(x).active > 0 => Left(x).server = x.server)
BY DEF Left, Gone, TunnelRecord

LEMMA RemovalKeepsUsers ==
    ASSUME PoolTypeOK, NEW S, RemoveTunnels(S)
    PROVE  ActiveStays /\ ServersStay
<1>1. ASSUME NEW t \in Tunnel
      PROVE  tun'[t].active = tun[t].active /\ (tun[t].active > 0 => tun'[t].server = tun[t].server)
  <2>1. tun[t] \in TunnelRecord
    BY DEF PoolTypeOK
  <2>2. tun'[t] = tun[t] \/ tun'[t] = Shut(tun[t])
    BY DEF RemoveTunnels
  <2> QED
    BY <2>1, <2>2, ShutRecord
<1> QED
  BY <1>1 DEF ActiveStays, ServersStay

LEMMA ReleaseCounts ==
    ASSUME PoolTypeOK, NEW k \in Tunnel, Release(k)
    PROVE  /\ \A t \in Tunnel : tun'[t].active = IF t = k THEN tun[t].active - 1 ELSE tun[t].active
           /\ ServersStay
<1>1. tun[k] \in TunnelRecord /\ tun[k].active > 0
  BY DEF PoolTypeOK, Release
<1>2. tun'[k] = Left(tun[k]) /\ \A t \in Tunnel : t # k => tun'[t] = tun[t]
  BY DEF PoolTypeOK, Release
<1> QED
  BY <1>1, <1>2, LeftRecord DEF ServersStay

LEMMA UseCounts ==
    ASSUME PoolTypeOK, NEW k \in Tunnel, Use(k)
    PROVE  /\ \A t \in Tunnel : tun'[t].active = IF t = k THEN tun[t].active + 1 ELSE tun[t].active
           /\ ServersStay
<1>1. tun[k] \in TunnelRecord
  BY DEF PoolTypeOK
<1>2. /\ tun'[k] = [tun[k] EXCEPT !.active = tun[k].active + 1, !.lastUsed = now]
      /\ \A t \in Tunnel : t # k => tun'[t] = tun[t]
  BY DEF PoolTypeOK, Use
<1>3. tun'[k].active = tun[k].active + 1 /\ tun'[k].server = tun[k].server
  BY <1>1, <1>2 DEF TunnelRecord
<1> QED
  BY <1>2, <1>3 DEF ServersStay

LEMMA OpeningCounts ==
    ASSUME PoolTypeOK, NEW c, NEW k \in Tunnel, OpenSucceeds(c, k)
    PROVE  /\ \A t \in Tunnel : tun'[t].active = IF t = k THEN tun[t].active + 1 ELSE tun[t].active
           /\ tun'[k].server = opening.server
           /\ ServersStay
<1>1. tun[k].active = 0
  BY DEF OpenSucceeds, FreshTunnel, Gone
<1>2. tun'[k].active = 1 /\ tun'[k].server = opening.server /\ \A t \in Tunnel : t # k => tun'[t] = tun[t]
  BY DEF OpenSucceeds, PoolTypeOK
<1> QED
  BY <1>1, <1>2 DEF ServersStay

LEMMA PoolKeepsServers ==
    ASSUME PoolTypeOK, [PoolNext]_poolVars
    PROVE  ServersStay
<1>1. CASE UNCHANGED tun
  BY <1>1 DEF ServersStay
<1>2. ASSUME NEW S, RemoveTunnels(S) PROVE ServersStay
  BY <1>2, RemovalKeepsUsers
<1>3. ASSUME NEW s \in Server, Reuse(s) PROVE ServersStay
  <2>1. tunnels[s] \in Tunnel
    BY <1>3 DEF Reuse, Usable, PoolTypeOK
  <2> QED
    BY <1>3, <2>1, UseCounts DEF Reuse
<1> QED
  BY <1>1, <1>2, <1>3, ReleaseCounts, UseCounts, OpeningCounts
     DEF PoolNext, poolVars, BeginOpen, OpenFails, Forget, Reap, CloseAll, Tick

-----------------------------------------------------------------------------
(* Connections go where their exit may.                                    *)
PermittedSound ==
    /\ \A c \in Caller : call[c].phase \in {"get", "open"} =>
            Permitted(config.exits[call[c].exit], call[c].server)
    /\ OnlyPermittedServers
    /\ \A e \in Exits, t \in Tunnel : idle[e][t] > 0 => Permitted(config.exits[e], tun[t].server)

UsersActive ==
    /\ \A c \in Caller : call[c].tunnel # NoTunnel => call[c].tunnel \in Tunnel /\ tun[call[c].tunnel].active > 0
    /\ \A e \in Exits, t \in Tunnel : idle[e][t] > 0 => tun[t].active > 0

LEMMA HoldersAreUsers == CallsFit /\ UsesSound => UsersActive
<1> SUFFICES ASSUME CallsFit, UsesSound PROVE UsersActive
  OBVIOUS
<1>1. ASSUME NEW c \in Caller, call[c].tunnel # NoTunnel
      PROVE  call[c].tunnel \in Tunnel /\ tun[call[c].tunnel].active > 0
  <2>1. call[c] \in CallRecordOf(c) /\ call[c] \in CallRecord
    BY DEF CallsFit, CallRecordOf, SoundCalls
  <2>2. call[c].tunnel \in Tunnel
    BY <1>1, <2>1 DEF CallRecord
  <2>3. OnTunnel(call[c]) \/ Connecting1(call[c])
    BY <1>1, <2>1 DEF CallRecordOf, HoldsRight, CallRecord, Phase, OnTunnel, Connecting1
  <2>4. \E x : x \in Users(call[c].tunnel)
    BY <2>3, UsersOf
  <2> QED
    BY <2>2, <2>4, UsedIsActive
<1>2. ASSUME NEW e \in Exits, NEW t \in Tunnel, idle[e][t] > 0
      PROVE  tun[t].active > 0
  <2>1. idle[e][t] \in Nat
    BY DEF UsesSound
  <2>2. <<"idle", e, 1>> \in Users(t)
    BY <1>2, <2>1, UsersOf
  <2> QED
    BY <2>2, UsedIsActive
<1> QED
  BY <1>1, <1>2 DEF UsersActive

(* It is enough to look at what a step adds: who holds a tunnel before and *)
(* after is counted on both sides, and so the tunnel is its server's still. *)
LEMMA StillPermitted ==
    ASSUME CallsFit, CallsFit', UsesSound, UsesSound', PermittedSound, ServersStay, config' = config,
           \A c \in Caller : call'[c].tunnel # NoTunnel =>
              \/ call'[c].tunnel = call[c].tunnel /\ call'[c].exit = call[c].exit
              \/ Permitted(config.exits[call'[c].exit], tun'[call'[c].tunnel].server),
           \A c \in Caller : call'[c].phase \in {"get", "open"} =>
              Permitted(config.exits[call'[c].exit], call'[c].server),
           \A e \in Exits, t \in Tunnel : idle'[e][t] > 0 =>
              idle[e][t] > 0 \/ Permitted(config.exits[e], tun'[t].server)
    PROVE  PermittedSound'
<1>1. Exits' = Exits
  BY DEF Exits
<1>u. UsersActive /\ UsersActive'
  BY HoldersAreUsers, PTL
<1>2. ASSUME NEW c \in Caller, call'[c].tunnel # NoTunnel
      PROVE  Permitted(config.exits[call'[c].exit], tun'[call'[c].tunnel].server)
  <2>1. CASE Permitted(config.exits[call'[c].exit], tun'[call'[c].tunnel].server)
    BY <2>1
  <2>2. CASE call'[c].tunnel = call[c].tunnel /\ call'[c].exit = call[c].exit
    <3>1. call[c].tunnel \in Tunnel /\ tun[call[c].tunnel].active > 0
      BY <1>u, <1>2, <2>2 DEF UsersActive
    <3>2. tun'[call[c].tunnel].active > 0
      BY <1>u, <1>2, <2>2 DEF UsersActive
    <3>3. tun'[call[c].tunnel].server = tun[call[c].tunnel].server
      BY <3>1, <3>2 DEF ServersStay
    <3>4. Permitted(config.exits[call[c].exit], tun[call[c].tunnel].server)
      BY <1>2, <2>2 DEF PermittedSound, OnlyPermittedServers
    <3> QED
      BY <2>2, <3>3, <3>4
  <2> QED
    BY <1>2, <2>1, <2>2
<1>3. ASSUME NEW e \in Exits, NEW t \in Tunnel, idle'[e][t] > 0
      PROVE  Permitted(config.exits[e], tun'[t].server)
  <2>1. CASE idle[e][t] > 0
    <3>1. tun[t].active > 0
      BY <1>u, <2>1 DEF UsersActive
    <3>2. tun'[t].active > 0
      BY <1>u, <1>1, <1>3 DEF UsersActive
    <3>3. tun'[t].server = tun[t].server
      BY <3>1, <3>2 DEF ServersStay
    <3> QED
      BY <2>1, <3>3 DEF PermittedSound
  <2> QED
    BY <1>3, <2>1
<1>4. \A r, s : Permitted(r, s)' <=> Permitted(r, s)
  BY DEF Permitted, Matches
<1>5. OnlyPermittedServers'
  BY <1>2, <1>4 DEF OnlyPermittedServers
<1> QED
  BY <1>1, <1>3, <1>4, <1>5 DEF PermittedSound
-----------------------------------------------------------------------------
(* Calls stay sound.                                                       *)

(* A call moves on within its download.                                    *)
LEMMA CallMoves ==
    ASSUME CallsFit, CallsSound, CallsSound', config' = config, UNCHANGED fetch, NEW c \in Caller, NEW r,
           call' = [call EXCEPT ![c] = r],
           call[c].phase # "idle", r.phase # "idle", call[c].phase = "connected" => r.phase = "connected",
           r.exit = call[c].exit, WithinBounds(c, r), HoldsRight(r)
    PROVE  CallsFit'
<1>1. Exits' = Exits
  BY DEF Exits
<1>2. call'[c] = r /\ r \in SoundCalls /\ \A d \in Caller : d # c => call'[d] = call[d]
  BY DEF CallsSound
<1>3. call[c] \in CallRecordOf(c) /\ CallFits(fetch[c], call[c], c)
  BY DEF CallsFit
<1>4. r \in CallRecordOf(c)
  BY <1>2, <1>3 DEF CallRecordOf
<1>5. CallFits(fetch[c], r, c)
  <2>1. NoCall.phase = "idle"
    BY DEF NoCall
  <2> QED
    BY <1>3, <2>1 DEF CallFits
<1>6. ASSUME NEW d \in Caller
      PROVE  call'[d] \in CallRecordOf(d) /\ CallFits(fetch[d], call'[d], d)
  BY <1>2, <1>4, <1>5, <1>6 DEF CallsFit
<1>7. ASSUME NEW d \in Caller PROVE (CallRecordOf(d))' = CallRecordOf(d)
  BY DEF CallRecordOf
<1>8. ASSUME NEW d \in Caller PROVE CallFits(fetch[d], call[d], d)' <=> CallFits(fetch[d], call'[d], d)
  BY <1>1 DEF CallFits
<1> QED
  BY <1>6, <1>7, <1>8 DEF CallsFit

(* A call's record, and what its next one is by.                           *)
LEMMA CallKnown ==
    ASSUME CallsFit, NEW c \in Caller
    PROVE  /\ call[c] \in SoundCalls /\ call[c] \in CallRecord
           /\ WithinBounds(c, call[c]) /\ HoldsRight(call[c])
BY DEF CallsFit, CallRecordOf, SoundCalls

LEMMA NextAttemptFits ==
    ASSUME NEW c \in Caller, NEW r \in CallRecord, WithinBounds(c, r)
    PROVE  LET n == NextAttempt(r) IN
           /\ WithinBounds(c, n) /\ HoldsRight(n) /\ n.phase \in {"pick", "unavailable"}
           /\ n.exit = r.exit /\ n.tunnel = NoTunnel
<1>1. r.attempt \in 1 .. 2 /\ Attempts = 2
  BY DEF WithinBounds, Attempts
<1> DEFINE again == [r EXCEPT !.phase = "pick", !.attempt = r.attempt + 1, !.tunnel = NoTunnel, !.outcome = ""]
           over == [r EXCEPT !.phase = "unavailable", !.tunnel = NoTunnel, !.outcome = ""]
<1>2. /\ again.phase = "pick" /\ again.attempt = r.attempt + 1 /\ again.tunnel = NoTunnel
      /\ again.exit = r.exit /\ again.tried = r.tried
  BY DEF CallRecord
<1>3. /\ over.phase = "unavailable" /\ over.attempt = r.attempt /\ over.tunnel = NoTunnel
      /\ over.exit = r.exit /\ over.tried = r.tried
  BY DEF CallRecord
<1>4. NextAttempt(r) = IF r.attempt < 2 THEN again ELSE over
  BY DEF NextAttempt, Attempts
<1> HIDE DEF again, over
<1>5. r.tried \in 0 .. Len(Addresses[c])
  BY DEF WithinBounds
<1>6. WithinBounds(c, again) <=> again.attempt \in 1 .. 2
  BY <1>1, <1>2, <1>5 DEF WithinBounds
<1>7. WithinBounds(c, over)
  BY <1>1, <1>3, <1>5 DEF WithinBounds
<1>8. HoldsRight(again) /\ HoldsRight(over)
  BY <1>2, <1>3 DEF HoldsRight
<1> QED
  BY <1>1, <1>2, <1>3, <1>4, <1>6, <1>7, <1>8

LEMMA CandidatesCounted ==
    ASSUME NEW c \in Caller
    PROVE  /\ Len(Addresses[c]) \in Nat
           /\ Cardinality(Candidates(Addresses[c])) \in 0 .. Len(Addresses[c])
<1>1. Addresses[c] \in Seq(Address)
  BY ModuleAssumption
<1>2. Len(Addresses[c]) \in Nat
  BY <1>1
<1>3. IsFiniteSet(1 .. Len(Addresses[c])) /\ Cardinality(1 .. Len(Addresses[c])) = Len(Addresses[c])
  BY <1>2, FS_Interval
<1>4. Candidates(Addresses[c]) \subseteq 1 .. Len(Addresses[c])
  BY DEF Candidates
<1> QED
  BY <1>2, <1>3, <1>4, FS_Subset, FS_CardinalityType

LEMMA DiallingFits ==
    ASSUME NEW c \in Caller, NEW r \in CallRecord, WithinBounds(c, r)
    PROVE  LET n == Dialling(c, r) IN
           /\ WithinBounds(c, n) /\ HoldsRight(n) /\ n.phase \in {"pick", "refused"}
           /\ n.exit = r.exit /\ n.tunnel = NoTunnel
<1>1. PICK m : m = Cardinality(Candidates(Addresses[c]))
  OBVIOUS
<1>2. m \in 0 .. Len(Addresses[c]) /\ Len(Addresses[c]) \in Nat
  BY <1>1, CandidatesCounted
<1> DEFINE next == [r EXCEPT !.phase = "pick", !.op = "dial", !.attempt = 1, !.tunnel = NoTunnel, !.outcome = "",
                            !.tried = r.tried + 1]
           none == [r EXCEPT !.phase = "refused", !.op = "dial", !.tunnel = NoTunnel, !.outcome = ""]
<1>3. /\ next.phase = "pick" /\ next.attempt = 1 /\ next.tunnel = NoTunnel
      /\ next.exit = r.exit /\ next.tried = r.tried + 1
  BY DEF CallRecord
<1>4. /\ none.phase = "refused" /\ none.attempt = r.attempt /\ none.tunnel = NoTunnel
      /\ none.exit = r.exit /\ none.tried = r.tried
  BY DEF CallRecord
<1>5. Dialling(c, r) = IF r.tried < m THEN next ELSE none
  BY <1>1 DEF Dialling
<1> HIDE DEF next, none
<1>6. r.tried \in 0 .. Len(Addresses[c]) /\ r.attempt \in 1 .. Attempts
  BY DEF WithinBounds
<1>7. r.tried < m => WithinBounds(c, next)
  BY <1>2, <1>3, <1>6 DEF WithinBounds, Attempts
<1>8. WithinBounds(c, none)
  BY <1>2, <1>4, <1>6 DEF WithinBounds, Attempts
<1>9. HoldsRight(next) /\ HoldsRight(none)
  BY <1>3, <1>4 DEF HoldsRight
<1> QED
  BY <1>3, <1>4, <1>5, <1>7, <1>8, <1>9

LEMMA PhaseMoves ==
    ASSUME CallsFit, CallsSound, CallsSound', config' = config, UNCHANGED fetch, NEW c \in Caller, NEW p,
           To(c, p), call[c].phase \notin {"idle", "connected"}, p \notin {"idle", "leave"},
           p \in {"handshake", "operate", "connected"} => call[c].tunnel \in Tunnel,
           p \in {"pick", "get", "open", "refused", "unavailable"} => call[c].tunnel = NoTunnel
    PROVE  CallsFit'
<1> DEFINE n == [call[c] EXCEPT !.phase = p]
<1>1. call[c] \in CallRecord /\ WithinBounds(c, call[c])
  BY CallKnown
<1>2. /\ n.phase = p /\ n.attempt = call[c].attempt /\ n.tried = call[c].tried
      /\ n.tunnel = call[c].tunnel /\ n.exit = call[c].exit
  BY <1>1 DEF CallRecord
<1>3. call' = [call EXCEPT ![c] = n]
  BY DEF To, CallsSound
<1> HIDE DEF n
<1>4. WithinBounds(c, n) /\ HoldsRight(n)
  BY <1>1, <1>2 DEF WithinBounds, HoldsRight
<1> QED
  BY <1>2, <1>3, <1>4, CallMoves

LEMMA LeavingMoves ==
    ASSUME CallsFit, CallsSound, CallsSound', config' = config, UNCHANGED fetch, NEW c \in Caller,
           NEW o \in {"ok", "failed"}, Leaving(c, o), call[c].phase \in {"handshake", "operate"}
    PROVE  CallsFit'
<1> DEFINE n == [call[c] EXCEPT !.phase = "leave", !.outcome = o]
<1>1. call[c] \in CallRecord /\ WithinBounds(c, call[c]) /\ HoldsRight(call[c])
  BY CallKnown
<1>2. /\ n.phase = "leave" /\ n.attempt = call[c].attempt /\ n.tried = call[c].tried
      /\ n.tunnel = call[c].tunnel /\ n.exit = call[c].exit /\ n.outcome = o
  BY <1>1 DEF CallRecord
<1>3. call' = [call EXCEPT ![c] = n]
  BY DEF Leaving, CallsSound
<1> HIDE DEF n
<1>4. WithinBounds(c, n) /\ HoldsRight(n)
  BY <1>1, <1>2 DEF WithinBounds, HoldsRight
<1> QED
  BY <1>2, <1>3, <1>4, CallMoves

LEMMA AfterAttemptFits ==
    ASSUME NEW c \in Caller, NEW r \in CallRecord, WithinBounds(c, r), HoldsRight(r), r.phase = "leave"
    PROVE  LET n == AfterAttempt(c, r) IN
           /\ WithinBounds(c, n) /\ HoldsRight(n) /\ n.exit = r.exit
           /\ \/ n.phase \in {"pick", "unavailable", "refused"} /\ n.tunnel = NoTunnel /\ ~Connecting1(r)
              \/ n.phase = "connected" /\ n.tunnel = r.tunnel /\ Connecting1(r)
<1>1. r.outcome \in {"ok", "failed", "again"} /\ r.op \in {"lookup", "dial"} /\ r.tunnel \in Tunnel
  BY DEF HoldsRight, CallRecord
<1> DEFINE failed == [r EXCEPT !.phase = "refused", !.tunnel = NoTunnel, !.outcome = ""]
           connected == [r EXCEPT !.phase = "connected", !.outcome = ""]
<1>2. /\ failed.phase = "refused" /\ failed.attempt = r.attempt /\ failed.tunnel = NoTunnel
      /\ failed.exit = r.exit /\ failed.tried = r.tried
  BY DEF CallRecord
<1>3. /\ connected.phase = "connected" /\ connected.attempt = r.attempt /\ connected.tunnel = r.tunnel
      /\ connected.exit = r.exit /\ connected.tried = r.tried
  BY DEF CallRecord
<1>4. /\ r.outcome = "again" => AfterAttempt(c, r) = NextAttempt(r)
      /\ r.outcome = "failed" => AfterAttempt(c, r) = failed
      /\ r.outcome = "ok" /\ r.op = "lookup" => AfterAttempt(c, r) = Dialling(c, r)
      /\ r.outcome = "ok" /\ r.op = "dial" => AfterAttempt(c, r) = connected
  <2>1. CASE r.outcome = "again"
    BY <2>1, Zenon DEF AfterAttempt
  <2>2. CASE r.outcome = "failed"
    BY <2>2, Zenon DEF AfterAttempt
  <2>3. CASE r.outcome = "ok" /\ r.op = "lookup"
    BY <2>3, Zenon DEF AfterAttempt
  <2>4. CASE r.outcome = "ok" /\ r.op = "dial"
    BY <2>4, Zenon DEF AfterAttempt
  <2> QED
    BY <1>1, <2>1, <2>2, <2>3, <2>4
<1> HIDE DEF failed, connected
<1>5. WithinBounds(c, failed) /\ WithinBounds(c, connected)
  BY <1>2, <1>3 DEF WithinBounds
<1>6. HoldsRight(failed) /\ HoldsRight(connected)
  BY <1>1, <1>2, <1>3 DEF HoldsRight
<1>7. Connecting1(r) <=> (r.outcome = "ok" /\ r.op = "dial")
  BY DEF Connecting1
<1> QED
  BY <1>1, <1>2, <1>3, <1>4, <1>5, <1>6, <1>7, NextAttemptFits, DiallingFits

LEMMA AfterForgetFits ==
    ASSUME NEW c \in Caller, NEW r \in CallRecord, WithinBounds(c, r), r.phase = "forget"
    PROVE  LET n == AfterForget(r) IN
           /\ WithinBounds(c, n) /\ HoldsRight(n) /\ n.exit = r.exit /\ n.tunnel = r.tunnel
           /\ \/ n.phase \in {"pick", "unavailable"} /\ n.tunnel = NoTunnel
              \/ n.phase = "leave" /\ ~Connecting1(n)
<1> DEFINE leaving == [r EXCEPT !.phase = "leave", !.outcome = "again"]
<1>1. /\ leaving.phase = "leave" /\ leaving.attempt = r.attempt /\ leaving.tunnel = r.tunnel
      /\ leaving.exit = r.exit /\ leaving.tried = r.tried /\ leaving.outcome = "again"
  BY DEF CallRecord
<1>2. AfterForget(r) = IF r.tunnel = NoTunnel THEN NextAttempt(r) ELSE leaving
  BY DEF AfterForget
<1> HIDE DEF leaving
<1>3. r.tunnel \in Tunnel \cup {NoTunnel}
  BY DEF CallRecord
<1>4. WithinBounds(c, leaving)
  BY <1>1 DEF WithinBounds
<1>5. r.tunnel # NoTunnel => HoldsRight(leaving)
  BY <1>1, <1>3 DEF HoldsRight
<1>6. ~Connecting1(leaving)
  BY <1>1 DEF Connecting1
<1> QED
  BY <1>1, <1>2, <1>4, <1>5, <1>6, NextAttemptFits

LEMMA CallsStayFit ==
    ASSUME DownloadInv, CallsFit, NEW c \in Caller, CallStep(c) \/ GiveUp(c), UNCHANGED downloadVars
    PROVE  CallsFit'
<1> DEFINE r == call[c]
<1> USE DEF DownloadInv
<1>1. CallsSound' /\ config' = config /\ UNCHANGED fetch
  BY CallSteps DEF StepOK, downloadVars
<1>2. r \in SoundCalls /\ r \in CallRecord /\ WithinBounds(c, r) /\ HoldsRight(r)
  BY CallKnown
<1>3. r.phase \in {"handshake", "operate", "leave"} => r.tunnel \in Tunnel
  BY <1>2 DEF HoldsRight
<1>4. r.phase \in {"pick", "get", "open", "refused", "unavailable"} => r.tunnel = NoTunnel
  BY <1>2 DEF HoldsRight
<1>5. ASSUME NEW n, call' = [call EXCEPT ![c] = n], r.phase \notin {"idle", "connected"}, n.phase # "idle",
             n.exit = r.exit, WithinBounds(c, n), HoldsRight(n)
      PROVE  CallsFit'
  BY <1>1, <1>5, CallMoves
<1>6. CASE PickServer(c)
  <2>1. CASE To(c, "unavailable")
    BY <1>1, <1>4, <1>6, <2>1, PhaseMoves DEF PickServer
  <2>2. ASSUME NEW s, call' = [call EXCEPT ![c].phase = "get", ![c].server = s,
                                           ![c].deadline = Min({now + WaitLimit, MaxTime})]
        PROVE  CallsFit'
    <3> DEFINE n == [r EXCEPT !.phase = "get", !.server = s, !.deadline = Min({now + WaitLimit, MaxTime})]
    <3>1. /\ n.phase = "get" /\ n.attempt = r.attempt /\ n.tunnel = r.tunnel
          /\ n.exit = r.exit /\ n.tried = r.tried
      BY <1>2 DEF CallRecord
    <3>2. call' = [call EXCEPT ![c] = n]
      BY <2>2 DEF CallsSound
    <3> HIDE DEF n
    <3>3. r.phase = "pick" /\ r.tunnel = NoTunnel
      BY <1>4, <1>6 DEF PickServer
    <3>4. WithinBounds(c, n) /\ HoldsRight(n)
      BY <1>2, <3>1, <3>3 DEF WithinBounds, HoldsRight
    <3> QED
      BY <1>5, <3>1, <3>2, <3>3, <3>4
  <2> QED
    BY <1>6, <2>1, <2>2 DEF PickServer
<1>7. ASSUME NEW t \in Tunnel, call' = [call EXCEPT ![c].phase = "handshake", ![c].tunnel = t],
             r.phase \in {"get", "open"}
      PROVE  CallsFit'
  <2> DEFINE n == [r EXCEPT !.phase = "handshake", !.tunnel = t]
  <2>1. /\ n.phase = "handshake" /\ n.attempt = r.attempt /\ n.tunnel = t
        /\ n.exit = r.exit /\ n.tried = r.tried
    BY <1>2 DEF CallRecord
  <2>2. call' = [call EXCEPT ![c] = n]
    BY <1>7 DEF CallsSound
  <2> HIDE DEF n
  <2>3. WithinBounds(c, n) /\ HoldsRight(n)
    BY <1>2, <2>1 DEF WithinBounds, HoldsRight
  <2> QED
    BY <1>5, <1>7, <2>1, <2>2, <2>3
<1>8. CASE GetOpen(c)
  <2>1. tunnels[r.server] \in Tunnel
    BY <1>2, <1>8 DEF GetOpen, Reuse, Usable, SoundCalls, PoolInv, PoolTypeOK
  <2> QED
    BY <1>7, <1>8, <2>1 DEF GetOpen
<1>9. CASE GetByOpening(c)
  BY <1>1, <1>4, <1>9, PhaseMoves DEF GetByOpening
<1>10. CASE GetNothing(c)
  BY <1>1, <1>4, <1>10, PhaseMoves DEF GetNothing
<1>11. CASE OpenTunnel(c)
  <2>1. CASE To(c, "bench")
    BY <1>1, <1>11, <2>1, PhaseMoves DEF OpenTunnel
  <2> QED
    BY <1>7, <1>11, <2>1 DEF OpenTunnel
<1>12. CASE AwaitHandshake(c)
  <2>1. CASE To(c, "operate") \/ To(c, "bench")
    BY <1>1, <1>3, <1>12, <2>1, PhaseMoves DEF AwaitHandshake
  <2> QED
    BY <1>1, <1>12, <2>1, LeavingMoves DEF AwaitHandshake
<1>13. CASE Operate(c)
  <2>1. CASE To(c, "bench")
    BY <1>1, <1>13, <2>1, PhaseMoves DEF Operate
  <2> QED
    BY <1>1, <1>13, <2>1, LeavingMoves DEF Operate
<1>14. CASE Bench(c)
  BY <1>1, <1>14, PhaseMoves DEF Bench
<1>15. CASE ForgetFailed(c)
  BY <1>2, <1>5, <1>15, AfterForgetFits DEF ForgetFailed
<1>16. CASE Leave(c)
  BY <1>2, <1>5, <1>16, AfterAttemptFits DEF Leave
<1>17. CASE NextAddress(c)
  <2> DEFINE d == Dialling(c, r)
             n == [d EXCEPT !.lost = r.lost \/ r.phase = "unavailable"]
  <2>1. d \in CallRecord
    BY <1>2, DiallingSound DEF SoundCalls
  <2>2. WithinBounds(c, d) /\ HoldsRight(d) /\ d.phase # "idle" /\ d.exit = r.exit
    BY <1>2, DiallingFits
  <2> HIDE DEF d
  <2>3. /\ n.phase = d.phase /\ n.attempt = d.attempt /\ n.tunnel = d.tunnel
        /\ n.exit = d.exit /\ n.tried = d.tried /\ n.outcome = d.outcome
    BY <2>1 DEF CallRecord
  <2>4. call' = [call EXCEPT ![c] = n]
    BY <1>17 DEF NextAddress, d
  <2> HIDE DEF n
  <2>5. WithinBounds(c, n) /\ HoldsRight(n)
    BY <2>2, <2>3 DEF WithinBounds, HoldsRight
  <2> QED
    BY <1>5, <1>17, <2>2, <2>3, <2>4, <2>5 DEF NextAddress
<1>18. CASE GiveUp(c)
  <2> DEFINE n == [r EXCEPT !.cancelled = TRUE]
  <2>1. /\ n.phase = r.phase /\ n.attempt = r.attempt /\ n.tunnel = r.tunnel
        /\ n.exit = r.exit /\ n.tried = r.tried /\ n.outcome = r.outcome
    BY <1>2 DEF CallRecord
  <2>2. call' = [call EXCEPT ![c] = n]
    BY <1>18 DEF GiveUp, CallsSound
  <2> HIDE DEF n
  <2>3. WithinBounds(c, n) /\ HoldsRight(n)
    BY <1>2, <2>1 DEF WithinBounds, HoldsRight
  <2> QED
    BY <1>1, <1>18, <2>1, <2>2, <2>3, CallMoves DEF GiveUp
<1> QED
  BY <1>6, <1>8, <1>9, <1>10, <1>11, <1>12, <1>13, <1>14, <1>15, <1>16, <1>17, <1>18 DEF CallStep

(* One call at a time moves.                                               *)
LEMMA OthersStay ==
    ASSUME CallsSound, NEW c \in Caller, CallStep(c) \/ GiveUp(c)
    PROVE  \A d \in Caller : d # c => call'[d] = call[d]
<1>1. CASE PickServer(c) \/ GetOpen(c) \/ GetByOpening(c) \/ GetNothing(c)
  BY <1>1 DEF CallsSound, PickServer, GetOpen, GetByOpening, GetNothing, To
<1>2. CASE OpenTunnel(c) \/ AwaitHandshake(c) \/ Operate(c) \/ Bench(c)
  BY <1>2 DEF CallsSound, OpenTunnel, AwaitHandshake, Operate, Bench, To, Leaving
<1>3. CASE ForgetFailed(c) \/ Leave(c) \/ NextAddress(c) \/ GiveUp(c)
  BY <1>3 DEF CallsSound, ForgetFailed, Leave, NextAddress, GiveUp
<1> QED
  BY <1>1, <1>2, <1>3 DEF CallStep

LEMMA OpenerStays ==
    ASSUME OpenerWaits, UNCHANGED opening, NEW c, \A d \in Caller : d # c => call'[d] = call[d],
           call[c].phase = "open" => call'[c].phase = "open" /\ call'[c].server = call[c].server
    PROVE  OpenerWaits'
BY DEF OpenerWaits, Free

LEMMA OpenersStay ==
    ASSUME DownloadInv, CallsFit, OpenerWaits, NEW c \in Caller, CallStep(c) \/ GiveUp(c)
    PROVE  OpenerWaits'
<1> USE DEF DownloadInv
<1>1. \A d \in Caller : d # c => call'[d] = call[d]
  BY OthersStay
<1>2. call[c] \in CallRecord
  BY CallKnown
<1>3. Free' = Free
  BY DEF Free
<1>4. CASE UNCHANGED opening /\ call[c].phase # "open"
  BY <1>1, <1>4, OpenerStays
<1>5. CASE GetByOpening(c)
  <2>1. call'[c].phase = "open" /\ call'[c].server = call[c].server
    BY <1>2, <1>5 DEF GetByOpening, To, CallsSound, CallRecord
  <2>2. opening'.by = c /\ opening'.server = call[c].server
    BY <1>5 DEF GetByOpening, BeginOpen
  <2> QED
    BY <2>1, <2>2 DEF OpenerWaits
<1>6. CASE OpenTunnel(c)
  BY <1>3, <1>6 DEF OpenTunnel, OpenSucceeds, OpenFails, OpenerWaits
<1>7. CASE GiveUp(c)
  <2>1. UNCHANGED opening
    BY <1>7 DEF GiveUp, poolVars
  <2>2. call'[c] = [call[c] EXCEPT !.cancelled = TRUE]
    BY <1>7 DEF GiveUp, CallsSound
  <2>3. call'[c].phase = call[c].phase /\ call'[c].server = call[c].server
    BY <1>2, <2>2 DEF CallRecord
  <2> QED
    BY <1>1, <2>1, <2>3, OpenerStays
<1>8. CASE PickServer(c) \/ GetOpen(c) \/ GetNothing(c) \/ AwaitHandshake(c)
  BY <1>4, <1>8 DEF PickServer, GetOpen, GetNothing, AwaitHandshake, poolVars, restOfPool
<1>9. CASE Operate(c) \/ Bench(c) \/ ForgetFailed(c) \/ Leave(c) \/ NextAddress(c)
  BY <1>4, <1>9 DEF Operate, Bench, ForgetFailed, Forget, Leave, NextAddress, poolVars, restOfPool
<1> QED
  BY <1>5, <1>6, <1>7, <1>8, <1>9 DEF CallStep

(* What exits have chosen stays sound.                                     *)
LEMMA SelectionStaysSound ==
    ASSUME PoolTypeOK, SelectionSound, [PoolNext]_poolVars, config' = config,
           servers' \subseteq Server, choice' \in [Exits -> ChoiceRecord], list' \in Nat,
           (\E s : RecordFailure(s) \/ RecordSuccess(s)) \/ UNCHANGED health
    PROVE  SelectionSound'
<1>1. now' <= MaxTime
  BY PoolKeepsTime DEF SelectionSound
<1>2. DOMAIN health' = Server /\ \A s \in Server : HealthSound(health'[s])
  BY HealthAfter
<1> QED
  BY <1>1, <1>2 DEF SelectionSound, Exits, HealthSound, ChoiceRecord

LEMMA CallsKeepSelection ==
    ASSUME DownloadInv, ConfigSound, SelectionSound, CallsFit, NEW c \in Caller, CallStep(c) \/ GiveUp(c),
           ExitOf(c) \in Exits
    PROVE  SelectionSound'
<1> USE DEF DownloadInv, PoolInv
<1>1. [PoolNext]_poolVars /\ config' = config
  BY CallSteps DEF StepOK
<1>2. servers \subseteq Server /\ choice \in [Exits -> ChoiceRecord] /\ list \in Nat
  BY DEF SelectionSound
<1>3. CASE UNCHANGED selectionVars
  BY <1>1, <1>2, <1>3, SelectionStaysSound DEF selectionVars
<1>4. CASE PickServer(c)
  <2>1. call[c].exit \in Exits
    BY <1>4 DEF PickServer, CallsFit, CallRecordOf
  <2>2. choice' \in [Exits -> ChoiceRecord]
    BY <1>2, <1>4, <2>1, PickedFrom DEF PickServer
  <2> QED
    BY <1>1, <1>2, <1>4, <2>2, SelectionStaysSound DEF PickServer
<1>5. CASE Operate(c)
  BY <1>1, <1>2, <1>5, SelectionStaysSound DEF Operate
<1>6. CASE Bench(c)
  BY <1>1, <1>2, <1>6, SelectionStaysSound DEF Bench
<1> QED
  BY <1>3, <1>4, <1>5, <1>6
     DEF CallStep, GetOpen, GetByOpening, GetNothing, OpenTunnel, AwaitHandshake, ForgetFailed, Leave, NextAddress,
         GiveUp

-----------------------------------------------------------------------------
(* Calls' steps keep the count of uses.                                    *)
LEMMA CallHasExit ==
    ASSUME CallsFit, NEW c \in Caller, call[c].phase # "idle"
    PROVE  ExitOf(c) \in Exits /\ call[c].exit = ExitOf(c)
<1>1. NoCall.phase = "idle"
  BY DEF NoCall
<1> QED
  BY <1>1 DEF CallsFit, CallFits, CallRecordOf

LEMMA PhaseChanged ==
    ASSUME CallsFit, CallsSound, NEW c \in Caller, NEW p, To(c, p)
    PROVE  /\ call'[c].phase = p /\ call'[c].tunnel = call[c].tunnel /\ call'[c].op = call[c].op
           /\ call'[c].outcome = call[c].outcome /\ call'[c].exit = call[c].exit
           /\ call'[c].server = call[c].server
<1>1. call[c] \in CallRecord
  BY CallKnown
<1> QED
  BY <1>1 DEF To, CallsSound, CallRecord

LEMMA CallLeaving ==
    ASSUME CallsFit, CallsSound, NEW c \in Caller, NEW o, Leaving(c, o)
    PROVE  /\ call'[c].phase = "leave" /\ call'[c].outcome = o /\ call'[c].tunnel = call[c].tunnel
           /\ call'[c].op = call[c].op /\ call'[c].exit = call[c].exit
<1>1. call[c] \in CallRecord
  BY CallKnown
<1> QED
  BY <1>1 DEF Leaving, CallsSound, CallRecord

LEMMA CallsKeepCount ==
    ASSUME DownloadInv, CallsFit, CallsFit', UsesSound, NEW c \in Caller, CallStep(c) \/ GiveUp(c), UNCHANGED idle
    PROVE  UsesSound'
<1> USE DEF DownloadInv, PoolInv
<1> PICK r, n : r = call[c] /\ n = call'[c]
  OBVIOUS
<1>1. CallsSound' /\ config' = config
  BY CallSteps DEF StepOK
<1>2. call' = [call EXCEPT ![c] = n]
  BY <1>1, OthersStay DEF CallsSound
<1>3. r \in CallRecord /\ HoldsRight(r) /\ r \in SoundCalls
  BY CallKnown
<1>4. HoldsRight(n) /\ n \in CallRecord
  BY DEF CallsFit, CallRecordOf, SoundCalls, HoldsRight
<1>5. /\ r.phase \in {"handshake", "operate", "leave"} => r.tunnel \in Tunnel
      /\ r.phase \in {"pick", "get", "open", "refused", "unavailable"} => r.tunnel = NoTunnel
  BY <1>3 DEF HoldsRight
<1>6. /\ n.phase \in {"handshake", "operate", "leave", "connected"} => n.tunnel \in Tunnel
      /\ n.phase \in {"pick", "get", "open", "refused", "unavailable"} => n.tunnel = NoTunnel
  BY <1>4 DEF HoldsRight
<1>7. ASSUME ActiveStays, n.tunnel = r.tunnel,
             \/ n.tunnel = NoTunnel
             \/ OnTunnel(n) /\ OnTunnel(r) /\ ~Connecting1(n) /\ ~Connecting1(r)
      PROVE  UsesSound'
  BY <1>1, <1>2, <1>7, CallHoldsAsBefore DEF ActiveStays
<1>8. UNCHANGED tun => ActiveStays
  BY DEF ActiveStays
<1>9. CASE PickServer(c) \/ GetNothing(c) \/ NextAddress(c)
  <2>1. r.tunnel = NoTunnel /\ UNCHANGED tun
    BY <1>5, <1>9 DEF PickServer, GetNothing, NextAddress, poolVars
  <2>2. n.tunnel = NoTunnel
    <3>1. CASE To(c, "unavailable") \/ To(c, "bench")
      BY <2>1, <3>1, PhaseChanged
    <3>2. CASE PickServer(c)
      <4>1. ASSUME NEW s, call' = [call EXCEPT ![c].phase = "get", ![c].server = s,
                                               ![c].deadline = Min({now + WaitLimit, MaxTime})]
            PROVE  n.tunnel = r.tunnel
        BY <1>3, <4>1 DEF CallsSound, CallRecord
      <4> QED
        BY <2>1, <3>1, <3>2, <4>1 DEF PickServer
    <3>3. CASE NextAddress(c)
      <4>1. n = [Dialling(c, r) EXCEPT !.lost = r.lost \/ r.phase = "unavailable"]
        BY <3>3 DEF NextAddress, CallsSound
      <4>2. WithinBounds(c, r)
        BY CallKnown
      <4>3. Dialling(c, r).tunnel = NoTunnel
        BY <1>3, <4>2, DiallingFits
      <4> QED
        BY <4>1, <4>3
    <3> QED
      BY <1>9, <3>1, <3>2, <3>3 DEF GetNothing
  <2> QED
    BY <1>7, <1>8, <2>1, <2>2
<1>10. CASE GetOpen(c)
  <2>1. r.server \in Server /\ r.phase = "get"
    BY <1>3, <1>10 DEF GetOpen, SoundCalls
  <2>2. PICK k \in Tunnel : k = tunnels[r.server]
    BY <1>10, <2>1 DEF GetOpen, Reuse, Usable, PoolTypeOK
  <2>3. Use(k)
    BY <1>10, <2>2 DEF GetOpen, Reuse
  <2>4. n.tunnel = k /\ n.phase = "handshake"
    BY <1>3, <1>10, <2>2 DEF GetOpen, CallsSound, CallRecord
  <2>5. OnTunnel(n) /\ ~Connecting1(n) /\ r.tunnel = NoTunnel
    BY <1>5, <2>1, <2>4 DEF OnTunnel, Connecting1
  <2>6. \A t \in Tunnel : tun'[t].active = IF t = k THEN tun[t].active + 1 ELSE tun[t].active
    BY <2>3, UseCounts
  <2> QED
    BY <1>1, <1>2, <2>4, <2>5, <2>6, CallTakesTunnel
<1>11. CASE GetByOpening(c)
  <2>1. ActiveStays
    BY <1>11, RemovalKeepsUsers DEF GetByOpening, BeginOpen
  <2>2. r.tunnel = NoTunnel /\ n.tunnel = r.tunnel
    BY <1>5, <1>11, PhaseChanged DEF GetByOpening
  <2> QED
    BY <1>7, <2>1, <2>2
<1>12. CASE OpenTunnel(c)
  <2>1. r.tunnel = NoTunnel
    BY <1>5, <1>12 DEF OpenTunnel
  <2>2. CASE OpenFails(c) /\ To(c, "bench")
    BY <1>7, <1>8, <2>1, <2>2, PhaseChanged DEF OpenFails
  <2>3. ASSUME NEW k \in Tunnel, OpenSucceeds(c, k),
               call' = [call EXCEPT ![c].phase = "handshake", ![c].tunnel = k]
        PROVE  UsesSound'
    <3>1. n.tunnel = k /\ n.phase = "handshake"
      BY <1>3, <2>3 DEF CallsSound, CallRecord
    <3>2. OnTunnel(n) /\ ~Connecting1(n)
      BY <3>1 DEF OnTunnel, Connecting1
    <3>3. \A t \in Tunnel : tun'[t].active = IF t = k THEN tun[t].active + 1 ELSE tun[t].active
      BY <2>3, OpeningCounts
    <3> QED
      BY <1>1, <1>2, <2>1, <3>1, <3>2, <3>3, CallTakesTunnel
  <2> QED
    BY <1>12, <2>2, <2>3 DEF OpenTunnel
<1>13. ASSUME Leaving(c, "failed") \/ To(c, "bench") \/ To(c, "operate"), UNCHANGED tun,
              r.phase \in {"handshake", "operate"}
       PROVE  UsesSound'
  <2>1. n.tunnel = r.tunnel
    BY <1>13, PhaseChanged, CallLeaving
  <2>2. OnTunnel(n) /\ ~Connecting1(n)
    BY <1>13, PhaseChanged, CallLeaving DEF OnTunnel, Connecting1
  <2>3. OnTunnel(r) /\ ~Connecting1(r)
    BY <1>13 DEF OnTunnel, Connecting1
  <2> QED
    BY <1>7, <1>8, <1>13, <2>1, <2>2, <2>3
<1>14. CASE AwaitHandshake(c)
  <2>1. r.phase = "handshake" /\ UNCHANGED tun
    BY <1>14 DEF AwaitHandshake, poolVars
  <2>2. Leaving(c, "failed") \/ To(c, "bench") \/ To(c, "operate")
    BY <1>14 DEF AwaitHandshake
  <2> QED
    BY <1>13, <2>1, <2>2
<1>15. CASE Operate(c)
  <2>1. r.phase = "operate" /\ r.tunnel \in Tunnel
    BY <1>5, <1>15 DEF Operate
  <2>2. OnTunnel(r) /\ ~Connecting1(r)
    BY <2>1 DEF OnTunnel, Connecting1
  <2>3. CASE Leaving(c, "ok") /\ r.op = "dial" /\ Use(r.tunnel)
    <3>1. n.phase = "leave" /\ n.outcome = "ok" /\ n.op = "dial" /\ n.tunnel = r.tunnel
      BY <2>3, CallLeaving
    <3>2. OnTunnel(n) /\ Connecting1(n)
      BY <3>1 DEF OnTunnel, Connecting1
    <3>3. \A t \in Tunnel : tun'[t].active = IF t = r.tunnel THEN tun[t].active + 1 ELSE tun[t].active
      BY <2>1, <2>3, UseCounts
    <3> QED
      BY <1>1, <1>2, <2>1, <2>2, <3>1, <3>2, <3>3, CallConnects
  <2>4. CASE Leaving(c, "ok") /\ r.op # "dial" /\ UNCHANGED tun
    <3>1. n.phase = "leave" /\ n.op # "dial" /\ n.tunnel = r.tunnel
      BY <2>4, CallLeaving
    <3>2. OnTunnel(n) /\ ~Connecting1(n)
      BY <3>1 DEF OnTunnel, Connecting1
    <3> QED
      BY <1>7, <1>8, <2>2, <2>4, <3>1, <3>2
  <2> QED
    BY <1>13, <1>15, <2>1, <2>3, <2>4 DEF Operate
<1>16. CASE Bench(c)
  <2>1. n.phase = "forget" /\ n.tunnel = r.tunnel /\ r.phase = "bench" /\ UNCHANGED tun
    BY <1>16, PhaseChanged DEF Bench, poolVars
  <2>2. OnTunnel(n) /\ OnTunnel(r) /\ ~Connecting1(n) /\ ~Connecting1(r)
    BY <2>1 DEF OnTunnel, Connecting1
  <2> QED
    BY <1>7, <1>8, <2>1, <2>2
<1>17. CASE ForgetFailed(c)
  <2>1. n = AfterForget(r) /\ r.phase = "forget" /\ WithinBounds(c, r)
    BY <1>17, CallKnown DEF ForgetFailed, CallsSound
  <2>2. ActiveStays
    BY <1>17, RemovalKeepsUsers DEF ForgetFailed, Forget
  <2>3. n.tunnel = r.tunnel /\ (n.tunnel = NoTunnel \/ (n.phase = "leave" /\ ~Connecting1(n)))
    BY <1>3, <2>1, AfterForgetFits
  <2>4. OnTunnel(r) /\ ~Connecting1(r) /\ (n.phase = "leave" => OnTunnel(n))
    BY <2>1 DEF OnTunnel, Connecting1
  <2> QED
    BY <1>7, <2>2, <2>3, <2>4
<1>18. CASE Leave(c)
  <2>1. n = AfterAttempt(c, r) /\ r.phase = "leave" /\ r.tunnel \in Tunnel /\ WithinBounds(c, r)
    BY <1>5, <1>18, CallKnown DEF Leave, CallsSound
  <2>2. \/ n.phase \in {"pick", "unavailable", "refused"} /\ n.tunnel = NoTunnel /\ ~Connecting1(r)
        \/ n.phase = "connected" /\ n.tunnel = r.tunnel /\ Connecting1(r)
    BY <1>3, <2>1, AfterAttemptFits
  <2>3. OnTunnel(r) /\ ~OnTunnel(n) /\ n.tunnel \in {r.tunnel, NoTunnel}
    BY <2>1, <2>2 DEF OnTunnel
  <2>4. Connecting1(r) <=> (n.tunnel = r.tunnel /\ Connecting1(n))
    BY <2>1, <2>2 DEF Connecting1
  <2>5. \A t \in Tunnel : tun'[t].active = IF t = r.tunnel THEN tun[t].active - 1 ELSE tun[t].active
    BY <1>18, <2>1, ReleaseCounts DEF Leave
  <2> QED
    BY <1>1, <1>2, <2>1, <2>3, <2>4, <2>5, CallLetsGo
<1>19. CASE GiveUp(c)
  <2>1. n = [r EXCEPT !.cancelled = TRUE] /\ UNCHANGED tun
    BY <1>19 DEF GiveUp, CallsSound, poolVars
  <2>2. n.tunnel = r.tunnel /\ n.phase = r.phase /\ n.op = r.op /\ n.outcome = r.outcome
    BY <1>3, <2>1 DEF CallRecord
  <2>3. (OnTunnel(n) <=> OnTunnel(r)) /\ (Connecting1(n) <=> Connecting1(r))
    BY <2>2 DEF OnTunnel, Connecting1
  <2> QED
    BY <1>1, <1>2, <2>1, <2>2, <2>3, CallHoldsAsBefore
<1> QED
  BY <1>9, <1>10, <1>11, <1>12, <1>14, <1>15, <1>16, <1>17, <1>18, <1>19 DEF CallStep

(* A call is handed a tunnel by the pool only.                             *)
LEMMA TunnelsHandedOver ==
    ASSUME DownloadInv, CallsFit, NEW c \in Caller, CallStep(c) \/ GiveUp(c), ~GetOpen(c), ~OpenTunnel(c)
    PROVE  call'[c].tunnel \in {call[c].tunnel, NoTunnel}
<1> USE DEF DownloadInv
<1> PICK r, n : r = call[c] /\ n = call'[c]
  OBVIOUS
<1>1. r \in CallRecord /\ WithinBounds(c, r) /\ HoldsRight(r)
  BY CallKnown
<1>2. (\E p : To(c, p)) \/ (\E o : Leaving(c, o)) => n.tunnel = r.tunnel
  BY PhaseChanged, CallLeaving
<1>3. ASSUME NEW s, call' = [call EXCEPT ![c].phase = "get", ![c].server = s,
                                         ![c].deadline = Min({now + WaitLimit, MaxTime})]
      PROVE  n.tunnel = r.tunnel
  BY <1>1, <1>3 DEF CallsSound, CallRecord
<1>4. CASE PickServer(c)
  BY <1>2, <1>3, <1>4 DEF PickServer
<1>5. CASE GetByOpening(c) \/ GetNothing(c) \/ AwaitHandshake(c) \/ Bench(c)
  BY <1>2, <1>5 DEF GetByOpening, GetNothing, AwaitHandshake, Bench
<1>6. CASE Operate(c)
  BY <1>2, <1>6 DEF Operate
<1>7. CASE ForgetFailed(c)
  <2>1. n = AfterForget(r) /\ r.phase = "forget"
    BY <1>7 DEF ForgetFailed, CallsSound
  <2> QED
    BY <1>1, <2>1, AfterForgetFits
<1>8. CASE Leave(c)
  <2>1. n = AfterAttempt(c, r) /\ r.phase = "leave"
    BY <1>8 DEF Leave, CallsSound
  <2> QED
    BY <1>1, <2>1, AfterAttemptFits
<1>9. CASE NextAddress(c)
  <2>1. n = [Dialling(c, r) EXCEPT !.lost = r.lost \/ r.phase = "unavailable"]
    BY <1>9 DEF NextAddress, CallsSound
  <2>2. Dialling(c, r).tunnel = NoTunnel
    BY <1>1, DiallingFits
  <2> QED
    BY <2>1, <2>2
<1>10. CASE GiveUp(c)
  <2>1. n = [r EXCEPT !.cancelled = TRUE]
    BY <1>10 DEF GiveUp, CallsSound
  <2> QED
    BY <2>1
<1> QED
  BY <1>4, <1>5, <1>6, <1>7, <1>8, <1>9, <1>10 DEF CallStep

(* A call that is to be handed a tunnel has picked its server, or still    *)
(* wants the one it picked.                                                *)
LEMMA ServersPicked ==
    ASSUME DownloadInv, CallsFit, NEW c \in Caller, CallStep(c) \/ GiveUp(c),
           call'[c].phase \in {"get", "open"}
    PROVE  \/ call[c].phase \in {"get", "open"} /\ call'[c].server = call[c].server
           \/ PickServer(c) /\ call[c].phase = "pick" /\ Pick(call[c].exit, call'[c].server)
<1> USE DEF DownloadInv
<1> PICK r, n : r = call[c] /\ n = call'[c]
  OBVIOUS
<1>1. r \in CallRecord /\ WithinBounds(c, r) /\ HoldsRight(r)
  BY CallKnown
<1>2. \A p : To(c, p) => n.phase = p /\ n.server = r.server
  BY PhaseChanged
<1>3. \A o : Leaving(c, o) => n.phase = "leave"
  BY CallLeaving
<1>4. CASE PickServer(c)
  <2>1. ASSUME NEW s, Pick(r.exit, s),
               call' = [call EXCEPT ![c].phase = "get", ![c].server = s,
                                    ![c].deadline = Min({now + WaitLimit, MaxTime})]
        PROVE  Pick(r.exit, n.server)
    <3>1. n.server = s
      BY <1>1, <2>1 DEF CallsSound, CallRecord
    <3> QED
      BY <2>1, <3>1
  <2>2. r.phase = "pick"
    BY <1>4 DEF PickServer
  <2>3. CASE To(c, "unavailable")
    BY <1>2, <2>3
  <2>4. Pick(r.exit, n.server) \/ To(c, "unavailable")
    BY <1>4, <2>1 DEF PickServer
  <2> QED
    BY <1>4, <2>2, <2>3, <2>4
<1>5. CASE GetOpen(c)
  <2>1. n.phase = "handshake"
    BY <1>1, <1>5 DEF GetOpen, CallsSound, CallRecord
  <2> QED
    BY <2>1
<1>6. CASE GetByOpening(c)
  BY <1>2, <1>6 DEF GetByOpening
<1>7. CASE OpenTunnel(c)
  <2>1. ASSUME NEW t, call' = [call EXCEPT ![c].phase = "handshake", ![c].tunnel = t]
        PROVE  n.phase = "handshake"
    BY <1>1, <2>1 DEF CallsSound, CallRecord
  <2> QED
    BY <1>2, <1>7, <2>1 DEF OpenTunnel
<1>8. CASE GetNothing(c) \/ AwaitHandshake(c) \/ Bench(c)
  BY <1>2, <1>3, <1>8 DEF GetNothing, AwaitHandshake, Bench
<1>9. CASE Operate(c)
  BY <1>2, <1>3, <1>9 DEF Operate
<1>10. CASE ForgetFailed(c)
  <2>1. n = AfterForget(r) /\ r.phase = "forget"
    BY <1>10 DEF ForgetFailed, CallsSound
  <2> QED
    BY <1>1, <2>1, AfterForgetFits
<1>11. CASE Leave(c)
  <2>1. n = AfterAttempt(c, r) /\ r.phase = "leave"
    BY <1>11 DEF Leave, CallsSound
  <2> QED
    BY <1>1, <2>1, AfterAttemptFits
<1>12. CASE NextAddress(c)
  <2>1. n = [Dialling(c, r) EXCEPT !.lost = r.lost \/ r.phase = "unavailable"]
    BY <1>12 DEF NextAddress, CallsSound
  <2>2. Dialling(c, r).phase \in {"pick", "refused"}
    BY <1>1, DiallingFits
  <2> QED
    BY <2>1, <2>2
<1>13. CASE GiveUp(c)
  <2>1. n = [r EXCEPT !.cancelled = TRUE]
    BY <1>13 DEF GiveUp, CallsSound
  <2> QED
    BY <2>1
<1> QED
  BY <1>4, <1>5, <1>6, <1>7, <1>8, <1>9, <1>10, <1>11, <1>12, <1>13 DEF CallStep

LEMMA CallsStayPermitted ==
    ASSUME DownloadInv, ConfigSound, SelectionSound, CallsFit, CallsFit', OpenerWaits, UsesSound, UsesSound',
           PermittedSound, NEW c \in Caller, CallStep(c) \/ GiveUp(c), UNCHANGED idle
    PROVE  PermittedSound'
<1> USE DEF DownloadInv, PoolInv
<1> PICK r, n : r = call[c] /\ n = call'[c]
  OBVIOUS
<1>1. CallsSound' /\ config' = config /\ [PoolNext]_poolVars
  BY CallSteps DEF StepOK
<1>2. ServersStay
  BY <1>1, PoolKeepsServers
<1>3. \A d \in Caller : d # c => call'[d] = call[d]
  BY OthersStay
<1>4. r.phase # "idle" /\ r.exit = ExitOf(c) /\ r.exit \in Exits
  <2>1. r.phase # "idle"
    BY DEF CallStep, PickServer, GetOpen, GetByOpening, GetNothing, OpenTunnel, AwaitHandshake, Operate, Bench,
           ForgetFailed, Leave, NextAddress, GiveUp
  <2> QED
    BY <2>1, CallHasExit
<1>5. n.phase # "idle" => n.exit = r.exit
  BY <1>4 DEF CallsFit, CallRecordOf
<1>6. n.tunnel # NoTunnel => n.phase # "idle"
  BY DEF CallsFit, CallRecordOf, HoldsRight
<1>7. r.phase \in {"get", "open"} => Permitted(config.exits[r.exit], r.server)
  BY DEF PermittedSound
<1>8. n.tunnel # NoTunnel =>
        \/ n.tunnel = r.tunnel /\ n.exit = r.exit
        \/ Permitted(config.exits[n.exit], tun'[n.tunnel].server)
  <2>1. SUFFICES ASSUME n.tunnel # NoTunnel
                 PROVE  n.tunnel = r.tunnel \/ Permitted(config.exits[r.exit], tun'[n.tunnel].server)
    BY <1>5, <1>6
  <2>2. r \in CallRecord /\ r \in SoundCalls
    BY CallKnown
  <2>3. CASE GetOpen(c)
    <3>1. r.phase = "get" /\ r.server \in Server /\ tunnels[r.server] # NoTunnel /\ Use(tunnels[r.server])
      BY <2>2, <2>3 DEF GetOpen, Reuse, Usable, SoundCalls
    <3>2. n.tunnel = tunnels[r.server]
      BY <2>2, <2>3 DEF GetOpen, CallsSound, CallRecord
    <3>3. tunnels[r.server] \in Tunnel /\ tun[tunnels[r.server]].server = r.server
      BY <3>1 DEF PoolTypeOK, PooledOpen, Pooled
    <3>4. tun'[n.tunnel].server = r.server
      BY <3>1, <3>2, <3>3, UsedRecord
    <3> QED
      BY <1>7, <3>1, <3>4
  <2>4. CASE OpenTunnel(c)
    <3>1. CASE To(c, "bench")
      BY <3>1, PhaseChanged
    <3>2. ASSUME NEW k \in Tunnel, OpenSucceeds(c, k),
                 call' = [call EXCEPT ![c].phase = "handshake", ![c].tunnel = k]
          PROVE  Permitted(config.exits[r.exit], tun'[n.tunnel].server)
      <4>1. n.tunnel = k
        BY <2>2, <3>2 DEF CallsSound, CallRecord
      <4>2. opening # Free /\ opening.by = c
        BY <3>2, PoolAssumption DEF OpenSucceeds, Free
      <4>3. r.server = opening.server /\ r.phase = "open"
        BY <4>2 DEF OpenerWaits
      <4>4. tun'[k].server = opening.server
        BY <3>2, OpeningCounts
      <4> QED
        BY <1>7, <4>1, <4>3, <4>4
    <3> QED
      BY <2>4, <3>1, <3>2 DEF OpenTunnel
  <2> QED
    BY <2>1, <2>3, <2>4, TunnelsHandedOver
<1>9. n.phase \in {"get", "open"} => Permitted(config.exits[n.exit], n.server)
  <2>1. SUFFICES ASSUME n.phase \in {"get", "open"} PROVE Permitted(config.exits[r.exit], n.server)
    BY <1>5
  <2>2. CASE Pick(r.exit, n.server)
    BY <1>4, <2>2, PickedFrom
  <2> QED
    BY <1>7, <2>1, <2>2, ServersPicked
<1>10. \A d \in Caller : call'[d].tunnel # NoTunnel =>
              \/ call'[d].tunnel = call[d].tunnel /\ call'[d].exit = call[d].exit
              \/ Permitted(config.exits[call'[d].exit], tun'[call'[d].tunnel].server)
  BY <1>3, <1>8
<1>11. \A d \in Caller : call'[d].phase \in {"get", "open"} =>
              Permitted(config.exits[call'[d].exit], call'[d].server)
  BY <1>3, <1>9 DEF PermittedSound
<1>12. \A e \in Exits, t \in Tunnel : idle'[e][t] > 0 =>
              idle[e][t] > 0 \/ Permitted(config.exits[e], tun'[t].server)
  OBVIOUS
<1> QED
  BY <1>1, <1>2, <1>10, <1>11, <1>12, StillPermitted

-----------------------------------------------------------------------------
(* Downloads, and the files they read.                                     *)
FetchRecord ==
    [stage : Stages, target : Nat, resent : BOOLEAN, skipped : Nat, total : Nat, of : Version \cup {0},
     read : Nat, resumes : Nat, parts : SUBSET Version, then : {"rest", "asking", "resuming"}]

(* Of how far a download is: with nothing, or inside the file it reads.    *)
AtStart(f) == f.parts = {} /\ f.read = 0
InFile(f)  == f.of \in Version /\ f.total = Size[f.of] /\ f.read <= f.total

FetchFits(c, f) ==
    /\ f.target \in 1 .. Hops[c] /\ f.resumes \in 0 .. MaxResumes
    /\ f.stage = "closing" => f.then \in {"asking", "resuming"}
    /\ f.stage \in {"rest", "asking"} \/ (f.stage = "closing" /\ f.then = "asking") => AtStart(f)
    /\ f.stage \in {"reading", "resuming"} \/ (f.stage = "closing" /\ f.then = "resuming") => InFile(f)
    /\ f.stage = "done" => f.of \in Version /\ f.read = Size[f.of]

(* What was read is of the file it is being read from, if the host tells   *)
(* its files apart.                                                        *)
OneFile(f) == host.ident # "none" => f.parts \subseteq {f.of}

HostSound == host \in [version : Version, ident : Idents \cup {"?"}]

FetchSound ==
    /\ HostSound
    /\ fetch \in [Caller -> FetchRecord]
    /\ \A c \in Caller : FetchFits(c, fetch[c]) /\ OneFile(fetch[c])

LEMMA FetchesStay ==
    ASSUME FetchSound, UNCHANGED fetch, HostSound', host'.ident # "none" => host.ident # "none"
    PROVE  FetchSound'
<1>1. ASSUME NEW c \in Caller PROVE FetchFits(c, fetch[c])' /\ OneFile(fetch[c])'
  BY DEF FetchSound, FetchFits, OneFile, AtStart, InFile
<1> QED
  BY <1>1 DEF FetchSound, FetchRecord

LEMMA OneFetch ==
    ASSUME FetchSound, NEW c \in Caller, NEW f \in FetchRecord, fetch' = [fetch EXCEPT ![c] = f],
           HostSound', host'.ident # "none" => host.ident # "none",
           FetchFits(c, f), host'.ident # "none" => f.parts \subseteq {f.of}
    PROVE  FetchSound'
<1>1. fetch' \in [Caller -> FetchRecord]
  BY DEF FetchSound
<1>2. fetch'[c] = f /\ \A d \in Caller : d # c => fetch'[d] = fetch[d]
  BY DEF FetchSound
<1>3. ASSUME NEW d \in Caller PROVE FetchFits(d, fetch'[d]) /\ (host'.ident # "none" => fetch'[d].parts \subseteq {fetch'[d].of})
  <2>1. CASE d = c
    BY <1>2, <2>1
  <2>2. CASE d # c
    BY <1>2, <2>2 DEF FetchSound, OneFile
  <2> QED
    BY <2>1, <2>2
<1>4. ASSUME NEW d \in Caller PROVE FetchFits(d, fetch[d])' <=> FetchFits(d, fetch'[d])
  BY DEF FetchFits, AtStart, InFile
<1>5. ASSUME NEW d \in Caller PROVE OneFile(fetch[d])' <=> (host'.ident # "none" => fetch'[d].parts \subseteq {fetch'[d].of})
  BY DEF OneFile
<1> QED
  BY <1>1, <1>3, <1>4, <1>5 DEF FetchSound, FetchRecord

LEMMA FetchKnown ==
    ASSUME FetchSound, NEW c \in Caller
    PROVE  /\ fetch[c] \in FetchRecord /\ FetchFits(c, fetch[c]) /\ OneFile(fetch[c])
           /\ Hops[c] \in Nat \ {0}
BY DownloadAssumption DEF FetchSound

(* A download that has failed, wherever it was, or is done.                *)
LEMMA EndedSound ==
    ASSUME FetchSound, NEW c \in Caller, NEW stage \in {"failed", "done"}, Ended(c, stage),
           HostSound', host'.ident # "none" => host.ident # "none",
           stage = "done" => fetch[c].of \in Version /\ fetch[c].read = Size[fetch[c].of]
    PROVE  FetchSound'
<1> PICK f : f = fetch[c]
  OBVIOUS
<1> DEFINE g == [NoFetch EXCEPT !.stage = stage, !.parts = f.parts, !.read = f.read, !.of = f.of]
<1>1. f \in FetchRecord /\ FetchFits(c, f) /\ OneFile(f) /\ Hops[c] \in Nat \ {0}
  BY FetchKnown
<1>2. g = [NoFetch EXCEPT !.stage = stage, !.parts = f.parts, !.read = f.read, !.of = f.of]
  OBVIOUS
<1>3. g \in FetchRecord
  BY <1>1 DEF FetchRecord, NoFetch, Stages
<1>4. /\ g.stage = stage /\ g.target = 1 /\ g.resumes = 0 /\ g.parts = f.parts /\ g.read = f.read /\ g.of = f.of
  BY DEF NoFetch
<1>5. fetch' = [fetch EXCEPT ![c] = g]
  BY DEF Ended
<1> HIDE DEF g
<1>6. FetchFits(c, g)
  BY <1>1, <1>4, DownloadAssumption DEF FetchFits
<1>7. host'.ident # "none" => g.parts \subseteq {g.of}
  BY <1>1, <1>4 DEF OneFile
<1> QED
  BY <1>3, <1>5, <1>6, <1>7, OneFetch

LEMMA SkipSound ==
    ASSUME FetchSound, NEW c \in Caller, fetch[c].stage = "asking", NEW at \in fetch[c].target .. Hops[c],
           SkipFrom(c, at), UNCHANGED host
    PROVE  FetchSound'
<1> PICK f : f = fetch[c]
  OBVIOUS
<1>1. f \in FetchRecord /\ FetchFits(c, f) /\ OneFile(f) /\ Hops[c] \in Nat \ {0}
  BY FetchKnown
<1>2. HostSound' /\ host' = host
  BY DEF FetchSound, HostSound, Version
<1>3. CASE Ended(c, "failed")
  BY <1>2, <1>3, EndedSound
<1>4. CASE ~Ended(c, "failed")
  <2> DEFINE g == [f EXCEPT !.stage = "asking", !.target = at + 1, !.resent = FALSE, !.skipped = f.skipped + 1]
  <2>1. at + 1 \in 1 .. Hops[c] /\ at + 1 \in Nat /\ f.skipped + 1 \in Nat
    BY <1>1, <1>4 DEF SkipFrom, FetchRecord, FetchFits
  <2>2. /\ g.stage = "asking" /\ g.target = at + 1 /\ g.resumes = f.resumes /\ g.parts = f.parts
        /\ g.read = f.read /\ g.of = f.of /\ g.then = f.then /\ g.total = f.total
    BY <1>1 DEF FetchRecord
  <2>3. g \in FetchRecord
    BY <1>1, <2>1 DEF FetchRecord, Stages
  <2>4. fetch' = [fetch EXCEPT ![c] = g]
    BY <1>1, <1>4 DEF SkipFrom, FetchSound
  <2> HIDE DEF g
  <2>5. FetchFits(c, g)
    BY <1>1, <2>1, <2>2 DEF FetchFits, AtStart
  <2>6. host'.ident # "none" => g.parts \subseteq {g.of}
    BY <1>1, <1>2, <2>2 DEF OneFile
  <2> QED
    BY <1>2, <2>3, <2>4, <2>5, <2>6, OneFetch
<1> QED
  BY <1>3, <1>4

LEMMA NoResponseSound ==
    ASSUME FetchSound, NEW c \in Caller, fetch[c].stage \in {"asking", "resuming"}, NoResponse(c), UNCHANGED host
    PROVE  FetchSound'
<1> PICK f : f = fetch[c]
  OBVIOUS
<1>1. f \in FetchRecord /\ FetchFits(c, f) /\ OneFile(f) /\ Hops[c] \in Nat \ {0}
  BY FetchKnown
<1>2. HostSound' /\ host' = host
  BY DEF FetchSound, HostSound, Version
<1>3. CASE Ended(c, "failed")
  BY <1>2, <1>3, EndedSound
<1>4. CASE CloseIdleThen(c, "asking") /\ f.stage = "asking"
  <2> DEFINE g == [f EXCEPT !.stage = "closing", !.then = "asking", !.resent = TRUE]
  <2>1. /\ g.stage = "closing" /\ g.target = f.target /\ g.resumes = f.resumes /\ g.parts = f.parts
        /\ g.read = f.read /\ g.of = f.of /\ g.then = "asking" /\ g.total = f.total
    BY <1>1 DEF FetchRecord
  <2>2. g \in FetchRecord
    BY <1>1 DEF FetchRecord, Stages
  <2>3. fetch' = [fetch EXCEPT ![c] = g]
    BY <1>4 DEF CloseIdleThen, FetchSound
  <2> HIDE DEF g
  <2>4. FetchFits(c, g)
    BY <1>1, <1>4, <2>1 DEF FetchFits, AtStart
  <2>5. host'.ident # "none" => g.parts \subseteq {g.of}
    BY <1>1, <1>2, <2>1 DEF OneFile
  <2> QED
    BY <1>2, <2>2, <2>3, <2>4, <2>5, OneFetch
<1>5. CASE f.stage = "asking" /\ \E at \in f.target .. Hops[c] : SkipFrom(c, at)
  BY <1>5, SkipSound
<1> QED
  BY <1>3, <1>4, <1>5 DEF NoResponse

LEMMA FetchesSound ==
    ASSUME FetchSound, CallsFit, NEW c \in Caller, FetchStep(c)
    PROVE  FetchSound'
<1> PICK f : f = fetch[c]
  OBVIOUS
<1>1. f \in FetchRecord /\ FetchFits(c, f) /\ OneFile(f) /\ Hops[c] \in Nat \ {0}
  BY FetchKnown
<1>2. UNCHANGED host => HostSound'
  BY DEF FetchSound, HostSound, Version
<1>3. ASSUME NEW g \in FetchRecord, fetch' = [fetch EXCEPT ![c] = g], FetchFits(c, g), UNCHANGED host,
             host.ident # "none" => g.parts \subseteq {g.of}
      PROVE  FetchSound'
  BY <1>2, <1>3, OneFetch
<1>4. ASSUME Ended(c, "failed"), UNCHANGED host PROVE FetchSound'
  BY <1>2, <1>4, EndedSound
<1>5. CASE Begin(c)
  <2> DEFINE g == [f EXCEPT !.stage = "asking", !.target = IF SkipTrackers THEN Hops[c] ELSE 1]
  <2>1. CASE fetch' = [fetch EXCEPT ![c] = g]
    <3>1. (IF SkipTrackers THEN Hops[c] ELSE 1) \in 1 .. Hops[c]
      BY <1>1
    <3>2. /\ g.stage = "asking" /\ g.target \in 1 .. Hops[c] /\ g.resumes = f.resumes /\ g.parts = f.parts
          /\ g.read = f.read /\ g.of = f.of
      BY <1>1, <3>1 DEF FetchRecord
    <3>3. g \in FetchRecord
      BY <1>1, <3>1 DEF FetchRecord, Stages
    <3>4. f.stage = "rest" /\ UNCHANGED host
      BY <1>5 DEF Begin
    <3> HIDE DEF g
    <3>5. FetchFits(c, g)
      BY <1>1, <3>2, <3>4 DEF FetchFits, AtStart
    <3> QED
      BY <1>1, <1>3, <2>1, <3>2, <3>3, <3>4, <3>5 DEF OneFile
  <2>2. fetch' = [fetch EXCEPT ![c] = g] \/ Ended(c, "failed")
    BY <1>5 DEF Begin, FetchSound
  <2> QED
    BY <1>4, <1>5, <2>1, <2>2 DEF Begin
<1>6. CASE Send(c)
  BY <1>2, <1>6, FetchesStay DEF Send
<1>7. CASE CallFails(c)
  <2>1. f.stage \in {"asking", "resuming"}
    <3>1. NoCall.phase = "idle"
      BY DEF NoCall
    <3> QED
      BY <1>7, <3>1 DEF CallFails, CallsFit, CallFits
  <2> QED
    BY <1>4, <1>7, <2>1, NoResponseSound DEF CallFails
<1>8. CASE ConnectionDies(c)
  BY <1>8, NoResponseSound DEF ConnectionDies
<1>9. CASE BadAnswer(c)
  BY <1>9, SkipSound DEF BadAnswer
<1>10. CASE Answer(c)
  <2> DEFINE g == [f EXCEPT !.stage = "reading", !.total = Size[host.version], !.of = host.version]
  <2>1. host.version \in Version /\ Size[host.version] \in Nat
    BY DownloadAssumption DEF FetchSound, HostSound, Version
  <2>2. /\ g.stage = "reading" /\ g.target = f.target /\ g.resumes = f.resumes /\ g.parts = f.parts
        /\ g.read = f.read /\ g.of = host.version /\ g.total = Size[host.version]
    BY <1>1 DEF FetchRecord
  <2>3. g \in FetchRecord
    BY <1>1, <2>1 DEF FetchRecord, Stages
  <2>4. f.stage = "asking" /\ UNCHANGED host /\ fetch' = [fetch EXCEPT ![c] = g]
    BY <1>10 DEF Answer, FetchSound
  <2> HIDE DEF g
  <2>5. AtStart(f)
    BY <1>1, <2>4 DEF FetchFits
  <2>6. FetchFits(c, g)
    BY <1>1, <2>1, <2>2, <2>5 DEF FetchFits, AtStart, InFile
  <2> QED
    BY <1>3, <2>2, <2>3, <2>4, <2>5, <2>6 DEF AtStart
<1>11. CASE ReadSome(c)
  <2> DEFINE g == [f EXCEPT !.read = f.read + 1, !.parts = f.parts \cup {f.of}]
  <2>1. f.stage = "reading" /\ f.read < f.total /\ UNCHANGED host /\ fetch' = [fetch EXCEPT ![c] = g]
    BY <1>11 DEF ReadSome, FetchSound
  <2>2. InFile(f)
    BY <1>1, <2>1 DEF FetchFits
  <2>3. f.read + 1 \in Nat /\ f.parts \cup {f.of} \subseteq Version
    BY <1>1, <2>2 DEF FetchRecord, InFile
  <2>4. /\ g.stage = "reading" /\ g.target = f.target /\ g.resumes = f.resumes /\ g.parts = f.parts \cup {f.of}
        /\ g.read = f.read + 1 /\ g.of = f.of /\ g.total = f.total
    BY <1>1, <2>1 DEF FetchRecord
  <2>5. g \in FetchRecord
    BY <1>1, <2>3 DEF FetchRecord
  <2> HIDE DEF g
  <2>6. f.read \in Nat /\ f.total \in Nat
    BY <1>1 DEF FetchRecord
  <2>7. FetchFits(c, g)
    BY <1>1, <2>1, <2>2, <2>4, <2>6 DEF FetchFits, InFile
  <2>8. host.ident # "none" => g.parts \subseteq {g.of}
    BY <1>1, <2>4 DEF OneFile
  <2> QED
    BY <1>3, <2>1, <2>5, <2>7, <2>8
<1>12. CASE Finish(c)
  <2>1. f.of \in Version /\ f.read = Size[f.of]
    BY <1>1, <1>12 DEF Finish, FetchFits, InFile
  <2> QED
    BY <1>2, <1>12, <2>1, EndedSound DEF Finish
<1>13. CASE Break(c)
  <2> DEFINE g == [f EXCEPT !.stage = "closing", !.then = "resuming", !.resumes = f.resumes + 1]
  <2>1. CASE Resumable(c) /\ fetch' = [fetch EXCEPT ![c] = g]
    <3>1. f.stage = "reading" /\ UNCHANGED host
      BY <1>13 DEF Break
    <3>2. f.resumes + 1 \in 0 .. MaxResumes /\ f.resumes + 1 \in Nat
      BY <1>1, <2>1, DownloadAssumption DEF Resumable, FetchRecord, FetchFits
    <3>3. /\ g.stage = "closing" /\ g.target = f.target /\ g.resumes = f.resumes + 1 /\ g.parts = f.parts
          /\ g.read = f.read /\ g.of = f.of /\ g.then = "resuming" /\ g.total = f.total
      BY <1>1 DEF FetchRecord
    <3>4. g \in FetchRecord
      BY <1>1, <3>2 DEF FetchRecord, Stages
    <3> HIDE DEF g
    <3>5. FetchFits(c, g)
      BY <1>1, <3>1, <3>2, <3>3 DEF FetchFits, InFile
    <3> QED
      BY <1>1, <1>3, <2>1, <3>1, <3>3, <3>4, <3>5 DEF OneFile
  <2>2. (Resumable(c) /\ fetch' = [fetch EXCEPT ![c] = g]) \/ Ended(c, "failed")
    BY <1>13 DEF Break, FetchSound
  <2> QED
    BY <1>4, <1>13, <2>1, <2>2 DEF Break
<1>14. CASE Resume(c)
  <2>1. f.stage = "resuming" /\ InFile(f)
    BY <1>1, <1>14 DEF Resume, FetchFits
  <2>2. PICK ident \in Idents : host.ident \in {"?", ident} /\ host' = [host EXCEPT !.ident = ident]
    BY <1>14 DEF Resume
  <2>3. host \in [version : Version, ident : Idents \cup {"?"}]
    BY DEF FetchSound, HostSound
  <2>4. host'.ident = ident /\ host'.version = host.version
    BY <2>2, <2>3
  <2>5. HostSound'
    <3>1. host' \in [version : Version, ident : Idents \cup {"?"}]
      BY <2>2, <2>3
    <3> QED
      BY <3>1 DEF HostSound, Version, Idents
  <2>6. host'.ident # "none" => host.ident # "none"
    BY <2>2, <2>4
  <2>7. CASE Ended(c, "failed")
    BY <2>5, <2>6, <2>7, EndedSound
  <2> DEFINE g == [f EXCEPT !.stage = "reading", !.of = host.version]
  <2>8. CASE IsRest(c, ident) /\ fetch' = [fetch EXCEPT ![c] = g]
    <3>1. /\ g.stage = "reading" /\ g.target = f.target /\ g.resumes = f.resumes /\ g.parts = f.parts
          /\ g.read = f.read /\ g.of = host.version /\ g.total = f.total
      BY <1>1 DEF FetchRecord
    <3>2. g \in FetchRecord
      BY <1>1, <2>3 DEF FetchRecord, Stages
    <3> HIDE DEF g
    <3>3. Size[host.version] = f.total
      BY <2>8 DEF IsRest
    <3>4. FetchFits(c, g)
      BY <1>1, <2>1, <2>3, <3>1, <3>3 DEF FetchFits, InFile
    <3>5. ident # "none" => host.version = f.of
      BY <2>8 DEF IsRest, SendsRest, Idents
    <3>6. host'.ident # "none" => g.parts \subseteq {g.of}
      BY <1>1, <2>4, <2>6, <3>1, <3>5 DEF OneFile
    <3> QED
      BY <2>5, <2>6, <2>8, <3>2, <3>4, <3>6, OneFetch
  <2>9. (IsRest(c, ident) /\ fetch' = [fetch EXCEPT ![c] = g]) \/ Ended(c, "failed")
    BY <1>14, <2>4 DEF Resume, FetchSound
  <2> QED
    BY <2>7, <2>8, <2>9
<1>15. CASE CloseIdle(c)
  <2>1. UNCHANGED host /\ f.stage = "closing"
    BY <1>15 DEF CloseIdle
  <2>2. CASE UNCHANGED fetch
    BY <1>2, <2>1, <2>2, FetchesStay
  <2> DEFINE g == [f EXCEPT !.stage = f.then]
  <2>3. CASE fetch' = [fetch EXCEPT ![c] = g]
    <3>1. f.then \in {"asking", "resuming"}
      BY <1>1, <2>1 DEF FetchFits
    <3>2. /\ g.stage = f.then /\ g.target = f.target /\ g.resumes = f.resumes /\ g.parts = f.parts
          /\ g.read = f.read /\ g.of = f.of /\ g.total = f.total
      BY <1>1 DEF FetchRecord
    <3>3. g \in FetchRecord
      BY <1>1, <3>1 DEF FetchRecord, Stages
    <3> HIDE DEF g
    <3>4. FetchFits(c, g)
      BY <1>1, <2>1, <3>1, <3>2 DEF FetchFits, InFile, AtStart
    <3> QED
      BY <1>1, <1>3, <2>1, <2>3, <3>2, <3>3, <3>4 DEF OneFile
  <2> QED
    BY <1>15, <2>2, <2>3 DEF CloseIdle, FetchSound
<1> QED
  BY <1>5, <1>6, <1>7, <1>8, <1>9, <1>10, <1>11, <1>12, <1>13, <1>14, <1>15 DEF FetchStep

-----------------------------------------------------------------------------
(* A download and its calls fit together.                                  *)
LEMMA FetchMoves ==
    ASSUME CallsFit, CallsSound, FetchSound, config' = config, NEW c \in Caller, NEW f, NEW n,
           fetch' = [fetch EXCEPT ![c] = f], call' = [call EXCEPT ![c] = n],
           n \in CallRecordOf(c), CallFits(f, n, c)
    PROVE  CallsFit'
<1>1. Exits' = Exits
  BY DEF Exits
<1>2. /\ call'[c] = n /\ \A d \in Caller : d # c => call'[d] = call[d]
      /\ fetch'[c] = f /\ \A d \in Caller : d # c => fetch'[d] = fetch[d]
  BY DEF CallsSound, FetchSound
<1>3. ASSUME NEW d \in Caller
      PROVE  call'[d] \in CallRecordOf(d) /\ CallFits(fetch'[d], call'[d], d)
  <2>1. CASE d = c
    BY <1>2, <2>1
  <2>2. CASE d # c
    BY <1>2, <2>2 DEF CallsFit
  <2> QED
    BY <2>1, <2>2
<1>4. ASSUME NEW d \in Caller PROVE (CallRecordOf(d))' = CallRecordOf(d)
  BY DEF CallRecordOf
<1>5. ASSUME NEW d \in Caller PROVE CallFits(fetch[d], call[d], d)' <=> CallFits(fetch'[d], call'[d], d)
  BY <1>1 DEF CallFits
<1> QED
  BY <1>3, <1>4, <1>5 DEF CallsFit

LEMMA NoCallFits ==
    ASSUME NEW c \in Caller
    PROVE  NoCall \in CallRecordOf(c)
<1>1. WithinBounds(c, NoCall)
  BY CandidatesCounted DEF WithinBounds, NoCall, Attempts
<1>2. HoldsRight(NoCall) /\ NoCall.phase = "idle"
  BY DEF HoldsRight, NoCall
<1> QED
  BY <1>1, <1>2, IdleCall DEF CallRecordOf

(* What a download's call starts as.                                       *)
LEMMA NewCallFits ==
    ASSUME NEW c \in Caller
    PROVE  LET new == [NoCall EXCEPT !.phase = "pick", !.exit = ExitOf(c)] IN
           /\ new \in CallRecordOf(c) /\ [new EXCEPT !.phase = "unavailable"] \in CallRecordOf(c)
           /\ Dialling(c, new) \in CallRecordOf(c)
           /\ \A t \in Tunnel : [NoCall EXCEPT !.phase = "connected", !.exit = ExitOf(c), !.tunnel = t] \in CallRecordOf(c)
<1> DEFINE new == [NoCall EXCEPT !.phase = "pick", !.exit = ExitOf(c)]
           none == [new EXCEPT !.phase = "unavailable"]
<1>1. NoCall \in CallRecord /\ WithinBounds(c, NoCall) /\ NoCall.tunnel = NoTunnel
  BY NoCallFits DEF CallRecordOf, SoundCalls, NoCall
<1>2. /\ new.phase = "pick" /\ new.exit = ExitOf(c) /\ new.tunnel = NoTunnel
      /\ new.attempt = NoCall.attempt /\ new.tried = NoCall.tried
  BY DEF NoCall
<1>3. /\ none.phase = "unavailable" /\ none.exit = ExitOf(c) /\ none.tunnel = NoTunnel
      /\ none.attempt = NoCall.attempt /\ none.tried = NoCall.tried
  BY DEF NoCall
<1>4. new \in SoundCalls /\ none \in SoundCalls /\ Dialling(c, new) \in SoundCalls
  BY NewCall, DiallingSound, OtherPhase DEF Phase
<1>5. ASSUME NEW t \in Tunnel
      PROVE  [NoCall EXCEPT !.phase = "connected", !.exit = ExitOf(c), !.tunnel = t] \in CallRecordOf(c)
  <2> DEFINE n == [NoCall EXCEPT !.phase = "connected", !.exit = ExitOf(c), !.tunnel = t]
  <2>1. n \in SoundCalls
    BY IdleCall DEF SoundCalls, CallRecord, Phase
  <2>2. /\ n.phase = "connected" /\ n.exit = ExitOf(c) /\ n.tunnel = t
        /\ n.attempt = NoCall.attempt /\ n.tried = NoCall.tried
    BY DEF NoCall
  <2> HIDE DEF n
  <2>3. WithinBounds(c, n) /\ HoldsRight(n)
    BY <1>1, <2>2 DEF WithinBounds, HoldsRight
  <2>4. n \in CallRecordOf(c)
    BY <2>1, <2>2, <2>3 DEF CallRecordOf
  <2> QED
    BY <2>4 DEF n
<1> HIDE DEF none
<1>6. none \in CallRecordOf(c)
  <2>1. WithinBounds(c, none) /\ HoldsRight(none)
    BY <1>1, <1>3 DEF WithinBounds, HoldsRight
  <2> QED
    BY <1>3, <1>4, <2>1 DEF CallRecordOf
<1> HIDE DEF new
<1>7. WithinBounds(c, new) /\ HoldsRight(new) /\ new \in CallRecord
  BY <1>1, <1>2, <1>4 DEF WithinBounds, HoldsRight, SoundCalls
<1>8. new \in CallRecordOf(c)
  BY <1>2, <1>4, <1>7 DEF CallRecordOf
<1>9. Dialling(c, new) \in CallRecordOf(c)
  BY <1>2, <1>4, <1>7, DiallingFits DEF CallRecordOf
<1> QED
  BY <1>5, <1>6, <1>8, <1>9 DEF new, none

LEMMA EndedStage ==
    ASSUME FetchSound, CallsSound, NEW c \in Caller, NEW stage, Ended(c, stage)
    PROVE  /\ fetch'[c].stage = stage /\ call'[c] = NoCall
           /\ \A d \in Caller : d # c => fetch'[d] = fetch[d] /\ call'[d] = call[d]
BY DEF Ended, FetchSound, CallsSound, NoFetch

LEMMA NoResponseStage ==
    ASSUME FetchSound, CallsSound, NEW c \in Caller, NoResponse(c)
    PROVE  /\ fetch'[c].stage \in {"asking", "closing", "failed"} /\ call'[c] = NoCall
           /\ \A d \in Caller : d # c => fetch'[d] = fetch[d] /\ call'[d] = call[d]
<1>1. ASSUME NEW at, SkipFrom(c, at), ~Ended(c, "failed")
      PROVE  /\ fetch'[c].stage = "asking" /\ call'[c] = NoCall
             /\ \A d \in Caller : d # c => fetch'[d] = fetch[d] /\ call'[d] = call[d]
  BY <1>1 DEF SkipFrom, FetchSound, CallsSound, FetchRecord
<1>2. ASSUME CloseIdleThen(c, "asking")
      PROVE  /\ fetch'[c].stage = "closing" /\ call'[c] = NoCall
             /\ \A d \in Caller : d # c => fetch'[d] = fetch[d] /\ call'[d] = call[d]
  BY <1>2 DEF CloseIdleThen, FetchSound, CallsSound, FetchRecord
<1>3. Ended(c, "failed") => /\ fetch'[c].stage = "failed" /\ call'[c] = NoCall
                            /\ \A d \in Caller : d # c => fetch'[d] = fetch[d] /\ call'[d] = call[d]
  BY EndedStage
<1>4. Ended(c, "failed") \/ CloseIdleThen(c, "asking") \/ \E at : SkipFrom(c, at) /\ ~Ended(c, "failed")
  BY DEF NoResponse
<1> QED
  BY <1>1, <1>2, <1>3, <1>4

LEMMA SkipStage ==
    ASSUME FetchSound, CallsSound, NEW c \in Caller, NEW at, SkipFrom(c, at)
    PROVE  /\ fetch'[c].stage \in {"asking", "failed"} /\ call'[c] = NoCall
           /\ \A d \in Caller : d # c => fetch'[d] = fetch[d] /\ call'[d] = call[d]
<1>1. CASE Ended(c, "failed")
  BY <1>1, EndedStage
<1>2. CASE ~Ended(c, "failed")
  BY <1>2 DEF SkipFrom, FetchSound, CallsSound, FetchRecord
<1> QED
  BY <1>1, <1>2

(* Where a download's step leads it, and its call.                         *)
LEMMA FetchStages ==
    ASSUME DownloadInv, FetchSound, CallsFit, NEW c \in Caller, FetchStep(c)
    PROVE  /\ \A d \in Caller : d # c => fetch'[d] = fetch[d] /\ call'[d] = call[d]
           /\ \/ call'[c] = NoCall /\ fetch'[c].stage # "reading"
              \/ call'[c] = call[c] /\ call[c].phase = "connected" /\ fetch'[c].stage = "reading"
              \/ call'[c] \in CallRecordOf(c) /\ Send(c) /\ fetch'[c] = fetch[c]
           /\ fetch[c].stage = "rest" /\ fetch'[c].stage # "failed" => ~ClientRefused(Asked[c], Exits)
           /\ fetch[c].stage \in {"rest", "asking", "reading", "resuming", "closing"}
<1> USE DEF DownloadInv
<1> PICK f : f = fetch[c]
  OBVIOUS
<1>1. f \in FetchRecord /\ FetchFits(c, f) /\ fetch \in [Caller -> FetchRecord] /\ CallFits(f, call[c], c)
  BY FetchKnown DEF FetchSound, CallsFit
<1>2. NoCall.phase = "idle"
  BY DEF NoCall
<1>3. CASE Begin(c)
  <2>1. f.stage = "rest" /\ call[c] = NoCall
    BY <1>1, <1>3 DEF Begin, CallFits
  <2>2. CASE ~ClientRefused(Asked[c], Exits)
    BY <1>1, <1>3, <2>1, <2>2 DEF Begin, CallsSound, FetchRecord
  <2>3. CASE Ended(c, "failed")
    BY <2>1, <2>3, EndedStage
  <2> QED
    BY <1>3, <2>2, <2>3 DEF Begin
<1>4. CASE Send(c)
  <2>1. f.stage \in {"asking", "resuming"} /\ fetch' = fetch
    BY <1>4 DEF Send
  <2>2. PICK n \in CallRecordOf(c) : call' = [call EXCEPT ![c] = n]
    <3> DEFINE new == [NoCall EXCEPT !.phase = "pick", !.exit = ExitOf(c)]
    <3>1. /\ new \in CallRecordOf(c) /\ [new EXCEPT !.phase = "unavailable"] \in CallRecordOf(c)
          /\ Dialling(c, new) \in CallRecordOf(c)
          /\ \A t \in Tunnel : [NoCall EXCEPT !.phase = "connected", !.exit = ExitOf(c), !.tunnel = t] \in CallRecordOf(c)
      BY NewCallFits
    <3> HIDE DEF new
    <3> QED
      BY <1>4, <3>1 DEF Send, new
  <2> QED
    BY <1>4, <2>1, <2>2 DEF CallsSound
<1>5. CASE CallFails(c)
  <2>1. f.stage \in {"asking", "resuming"}
    BY <1>1, <1>2, <1>5 DEF CallFails, CallFits
  <2> QED
    BY <1>5, <2>1, EndedStage, NoResponseStage DEF CallFails
<1>6. CASE ConnectionDies(c)
  BY <1>6, NoResponseStage DEF ConnectionDies
<1>7. CASE BadAnswer(c)
  BY <1>7, SkipStage DEF BadAnswer
<1>8. CASE Answer(c) \/ ReadSome(c)
  <2>1. call' = call /\ call[c].phase = "connected" /\ f.stage \in {"asking", "reading"}
    BY <1>8 DEF Answer, ReadSome, Connected, moduleVars
  <2>2. fetch'[c].stage = "reading" /\ \A d \in Caller : d # c => fetch'[d] = fetch[d]
    BY <1>1, <1>8 DEF Answer, ReadSome, FetchRecord
  <2> QED
    BY <2>1, <2>2
<1>9. CASE Finish(c)
  BY <1>9, EndedStage DEF Finish
<1>10. CASE Break(c)
  <2>1. f.stage = "reading"
    BY <1>10 DEF Break
  <2>2. CASE Resumable(c)
    BY <1>1, <1>10, <2>1, <2>2 DEF Break, CallsSound, FetchRecord
  <2>3. CASE ~Resumable(c)
    BY <1>10, <2>1, <2>3, EndedStage DEF Break
  <2> QED
    BY <2>2, <2>3
<1>11. CASE Resume(c)
  <2>1. f.stage = "resuming" /\ call[c].phase = "connected"
    BY <1>11 DEF Resume, Connected
  <2>2. CASE fetch' = [fetch EXCEPT ![c].stage = "reading", ![c].of = host.version] /\ call' = call
    BY <1>1, <2>1, <2>2 DEF FetchRecord
  <2>3. CASE Ended(c, "failed")
    BY <2>1, <2>3, EndedStage
  <2> QED
    BY <1>11, <2>2, <2>3 DEF Resume
<1>12. CASE CloseIdle(c)
  <2>1. f.stage = "closing" /\ call' = call /\ call[c] = NoCall
    BY <1>1, <1>12 DEF CloseIdle, moduleVars, CallFits
  <2>2. f.then \in {"asking", "resuming"}
    BY <1>1, <2>1 DEF FetchFits
  <2>3. fetch'[c].stage \in {"closing", "asking", "resuming"} /\ \A d \in Caller : d # c => fetch'[d] = fetch[d]
    BY <1>1, <1>12, <2>1, <2>2 DEF CloseIdle, FetchRecord
  <2> QED
    BY <2>1, <2>3
<1> QED
  BY <1>3, <1>4, <1>5, <1>6, <1>7, <1>8, <1>9, <1>10, <1>11, <1>12 DEF FetchStep

LEMMA FetchesStayFit ==
    ASSUME DownloadInv, FetchSound, CallsFit, NEW c \in Caller, FetchStep(c)
    PROVE  CallsFit'
<1> USE DEF DownloadInv
<1> PICK f, n, r : f = fetch'[c] /\ n = call'[c] /\ r = call[c]
  OBVIOUS
<1>1. config' = config /\ CallsSound' /\ FetchSound'
  <2>1. FetchSound'
    BY FetchesSound
  <2> QED
    BY <2>1, FetchSteps DEF StepOK
<1>2. fetch' = [fetch EXCEPT ![c] = f] /\ call' = [call EXCEPT ![c] = n]
  BY <1>1, FetchStages DEF FetchSound, CallsSound
<1>3. r \in CallRecordOf(c) /\ CallFits(fetch[c], r, c)
  BY DEF CallsFit
<1>4. n \in CallRecordOf(c)
  BY <1>3, FetchStages, NoCallFits
<1>5. NoCall.phase = "idle"
  BY DEF NoCall
<1>6. f.stage \in {"asking", "reading", "resuming", "closing"} => ExitOf(c) \in Exits
  <2>1. CASE fetch[c].stage = "rest"
    <3>1. SUFFICES ASSUME f.stage # "failed" PROVE ExitOf(c) \in Exits
      OBVIOUS
    <3>2. ~ClientRefused(Asked[c], Exits)
      BY <2>1, <3>1, FetchStages
    <3>3. ExitOf(c) = Direct => DisableDirect
      BY DownloadAssumption
    <3> QED
      BY <3>2, <3>3 DEF ClientRefused, ExitOf, Available
  <2>2. CASE fetch[c].stage # "rest"
    BY <1>3, <2>2, FetchStages DEF CallFits
  <2> QED
    BY <2>1, <2>2
<1>7. CallFits(f, n, c)
  <2>1. CASE n = NoCall /\ f.stage # "reading"
    BY <1>6, <2>1 DEF CallFits
  <2>2. CASE n = r /\ r.phase = "connected" /\ f.stage = "reading"
    BY <1>6, <2>2 DEF CallFits
  <2>3. CASE Send(c) /\ f = fetch[c]
    <3>1. f.stage \in {"asking", "resuming"}
      BY <2>3 DEF Send
    <3> QED
      BY <1>6, <3>1 DEF CallFits
  <2> QED
    BY <2>1, <2>2, <2>3, FetchStages
<1> QED
  BY <1>1, <1>2, <1>4, <1>7, FetchMoves

-----------------------------------------------------------------------------
(* Downloads' steps keep the count of uses.                                *)
LEMMA SendCalls ==
    ASSUME CallsSound, NEW c \in Caller, Send(c)
    PROVE  /\ call[c].phase = "idle" /\ UNCHANGED <<tun, opening>>
           /\ \/ /\ UNCHANGED idle
                 /\ call'[c].phase \in {"pick", "unavailable", "refused"} /\ call'[c].tunnel = NoTunnel
              \/ \E t \in Tunnel :
                    /\ idle[ExitOf(c)][t] > 0 /\ idle' = [idle EXCEPT ![ExitOf(c)][t] = @ - 1]
                    /\ call'[c].phase = "connected" /\ call'[c].tunnel = t /\ call'[c].exit = ExitOf(c)
<1> DEFINE new == [NoCall EXCEPT !.phase = "pick", !.exit = ExitOf(c)]
           none == [new EXCEPT !.phase = "unavailable"]
<1>1. new.phase = "pick" /\ new.tunnel = NoTunnel /\ none.phase = "unavailable" /\ none.tunnel = NoTunnel
  BY DEF NoCall
<1>2. Dialling(c, new).phase \in {"pick", "refused"} /\ Dialling(c, new).tunnel = NoTunnel
  <2>1. NoCall \in CallRecord /\ WithinBounds(c, NoCall)
    BY NoCallFits DEF CallRecordOf, SoundCalls
  <2>2. new.attempt = NoCall.attempt /\ new.tried = NoCall.tried /\ new \in CallRecord
    BY NewCall DEF NoCall, SoundCalls
  <2> HIDE DEF new
  <2>3. WithinBounds(c, new)
    BY <2>1, <2>2 DEF WithinBounds
  <2> QED
    BY <2>2, <2>3, DiallingFits
<1>3. ASSUME NEW t
      PROVE  LET n == [NoCall EXCEPT !.phase = "connected", !.exit = ExitOf(c), !.tunnel = t] IN
             n.phase = "connected" /\ n.exit = ExitOf(c) /\ n.tunnel = t
  BY DEF NoCall
<1>4. call[c].phase = "idle" /\ UNCHANGED <<tun, opening>>
  BY DEF Send, poolVars
<1> HIDE DEF new, none
<1>5. \/ UNCHANGED idle /\ (call'[c] = none \/ call'[c] = new \/ call'[c] = Dialling(c, new))
      \/ \E t \in Tunnel :
            /\ idle[ExitOf(c)][t] > 0 /\ idle' = [idle EXCEPT ![ExitOf(c)][t] = @ - 1]
            /\ call'[c] = [NoCall EXCEPT !.phase = "connected", !.exit = ExitOf(c), !.tunnel = t]
  BY DEF Send, CallsSound, new, none
<1>6. CASE UNCHANGED idle /\ (call'[c] = none \/ call'[c] = new \/ call'[c] = Dialling(c, new))
  BY <1>1, <1>2, <1>4, <1>6
<1>7. ASSUME NEW t \in Tunnel, idle[ExitOf(c)][t] > 0, idle' = [idle EXCEPT ![ExitOf(c)][t] = @ - 1],
             call'[c] = [NoCall EXCEPT !.phase = "connected", !.exit = ExitOf(c), !.tunnel = t]
      PROVE  call'[c].phase = "connected" /\ call'[c].tunnel = t /\ call'[c].exit = ExitOf(c)
  BY <1>3, <1>7
<1> QED
  BY <1>4, <1>5, <1>6, <1>7

LEMMA ConnectedKnown ==
    ASSUME CallsFit, NEW c \in Caller, call[c].phase = "connected"
    PROVE  /\ call[c].tunnel \in Tunnel /\ call[c].exit = ExitOf(c) /\ ExitOf(c) \in Exits
           /\ ~OnTunnel(call[c]) /\ Connecting1(call[c]) /\ ~OnTunnel(NoCall) /\ ~Connecting1(NoCall)
<1>1. call[c].tunnel \in Tunnel
  BY DEF CallsFit, CallRecordOf, HoldsRight
<1>2. ~OnTunnel(NoCall) /\ ~Connecting1(NoCall) /\ NoCall.tunnel = NoTunnel
  BY DEF NoCall, OnTunnel, Connecting1
<1>3. ~OnTunnel(call[c]) /\ Connecting1(call[c])
  BY DEF OnTunnel, Connecting1
<1> QED
  BY <1>1, <1>2, <1>3, CallHasExit

LEMMA FetchesKeepCount ==
    ASSUME DownloadInv, FetchSound, CallsFit, UsesSound, NEW c \in Caller, FetchStep(c)
    PROVE  UsesSound'
<1> USE DEF DownloadInv, PoolInv
<1> PICK r, n : r = call[c] /\ n = call'[c]
  OBVIOUS
<1>1. config' = config /\ CallsSound'
  BY FetchSteps DEF StepOK
<1>2. call' = [call EXCEPT ![c] = n]
  BY <1>1, FetchStages DEF CallsSound
<1>3. HoldsRight(r) /\ NoCall.tunnel = NoTunnel /\ NoCall.phase = "idle"
  BY CallKnown DEF NoCall
<1>4. ASSUME UNCHANGED <<tun, idle>>, r.tunnel = NoTunnel, n.tunnel = NoTunnel
      PROVE  UsesSound'
  BY <1>1, <1>2, <1>4, CallHoldsAsBefore
<1>5. ASSUME UNCHANGED <<tun, idle, call>>
      PROVE  UsesSound'
  BY <1>1, <1>5, UsesKept
<1>6. ASSUME Hangup(c), UNCHANGED idle, Connected(c), n = NoCall
      PROVE  UsesSound'
  <2>1. r.tunnel \in Tunnel /\ ~OnTunnel(r) /\ Connecting1(r) /\ ~OnTunnel(n) /\ ~Connecting1(n)
    BY <1>6, ConnectedKnown DEF Connected
  <2>2. \A t \in Tunnel : tun'[t].active = IF t = r.tunnel THEN tun[t].active - 1 ELSE tun[t].active
    BY <1>6, <2>1, ReleaseCounts DEF Hangup
  <2> QED
    BY <1>1, <1>2, <1>3, <1>6, <2>1, <2>2, CallLetsGo
<1>7. CASE Begin(c)
  <2>1. r = NoCall /\ UNCHANGED <<tun, idle>>
    BY <1>7 DEF Begin, CallsFit, CallFits, poolVars
  <2>2. n = NoCall
    BY <1>7, <2>1, EndedStage DEF Begin
  <2> QED
    BY <1>3, <1>4, <2>1, <2>2
<1>8. CASE Send(c)
  <2>1. r.phase = "idle" /\ UNCHANGED tun
    BY <1>8, SendCalls
  <2>2. r.tunnel = NoTunnel /\ ~OnTunnel(r) /\ ~Connecting1(r)
    BY <1>3, <2>1 DEF HoldsRight, OnTunnel, Connecting1
  <2>3. CASE UNCHANGED idle /\ n.tunnel = NoTunnel
    BY <1>4, <2>1, <2>2, <2>3
  <2>4. ASSUME NEW t \in Tunnel, idle[ExitOf(c)][t] > 0, idle' = [idle EXCEPT ![ExitOf(c)][t] = @ - 1],
               n.phase = "connected", n.tunnel = t
        PROVE  UsesSound'
    <3>1. ExitOf(c) \in Exits
      BY <1>8 DEF Send, CallsFit, CallFits
    <3> QED
      BY <1>1, <1>2, <2>1, <2>2, <2>4, <3>1, ConnectionTakenAgain
  <2> QED
    BY <1>8, <2>3, <2>4, SendCalls
<1>9. CASE CallFails(c)
  <2>1. r.phase \in {"refused", "unavailable"} /\ UNCHANGED <<tun, idle>>
    BY <1>9 DEF CallFails, poolVars
  <2>2. r.tunnel = NoTunnel
    BY <1>3, <2>1 DEF HoldsRight
  <2>3. n = NoCall
    BY <1>9, EndedStage, NoResponseStage DEF CallFails
  <2> QED
    BY <1>3, <1>4, <2>1, <2>2, <2>3
<1>10. CASE ConnectionDies(c)
  BY <1>6, <1>10, NoResponseStage DEF ConnectionDies
<1>11. CASE BadAnswer(c)
  BY <1>6, <1>11, SkipStage DEF BadAnswer
<1>12. CASE Answer(c) \/ ReadSome(c)
  BY <1>5, <1>12 DEF Answer, ReadSome, moduleVars, poolVars
<1>13. CASE Finish(c)
  <2>1. r.tunnel \in Tunnel /\ ExitOf(c) \in Exits
    BY <1>13, ConnectedKnown DEF Finish, Connected
  <2>2. idle' = [idle EXCEPT ![ExitOf(c)][r.tunnel] = @ + 1] /\ UNCHANGED tun /\ r.phase = "connected"
    BY <1>13 DEF Finish, Connected, poolVars
  <2>3. n = NoCall
    BY <1>13, EndedStage DEF Finish
  <2> QED
    BY <1>1, <1>2, <2>1, <2>2, <2>3, ConnectionIdles
<1>14. CASE Break(c)
  <2>1. n = NoCall
    BY <1>14, EndedStage DEF Break, CallsSound
  <2> QED
    BY <1>6, <1>14, <2>1 DEF Break
<1>15. CASE Resume(c)
  <2>1. CASE UNCHANGED <<poolVars, call>>
    BY <1>5, <1>15, <2>1 DEF Resume, poolVars
  <2>2. CASE Hangup(c) /\ Ended(c, "failed")
    BY <1>6, <1>15, <2>2, EndedStage DEF Resume
  <2> QED
    BY <1>15, <2>1, <2>2 DEF Resume
<1>16. CASE CloseIdle(c)
  <2>1. UNCHANGED call /\ ExitOf(c) \in Exits
    BY <1>16 DEF CloseIdle, moduleVars, CallsFit, CallFits
  <2>2. CASE UNCHANGED <<poolVars, idle>>
    BY <1>5, <2>1, <2>2 DEF poolVars
  <2>3. ASSUME NEW t \in Tunnel, DropIdle(ExitOf(c), t) PROVE UsesSound'
    <3>1. \A u \in Tunnel : tun'[u].active = IF u = t THEN tun[u].active - 1 ELSE tun[u].active
      BY <2>3, ReleaseCounts DEF DropIdle
    <3> QED
      BY <1>1, <2>1, <2>3, <3>1, IdleLetsGo DEF DropIdle
  <2> QED
    BY <1>16, <2>2, <2>3 DEF CloseIdle
<1> QED
  BY <1>7, <1>8, <1>9, <1>10, <1>11, <1>12, <1>13, <1>14, <1>15, <1>16 DEF FetchStep

-----------------------------------------------------------------------------
(* What else a download's step keeps.                                      *)
LEMMA FetchesLeaveOpeners ==
    ASSUME DownloadInv, FetchSound, CallsFit, OpenerWaits, NEW c \in Caller, FetchStep(c)
    PROVE  OpenerWaits'
<1> USE DEF DownloadInv
<1>1. \A d \in Caller : d # c => call'[d] = call[d]
  BY FetchStages
<1>2. NoCall.phase = "idle"
  BY DEF NoCall
<1>3. UNCHANGED opening /\ (call[c].phase = "open" => call' = call)
  <2>1. CASE Begin(c) \/ CallFails(c)
    <3>1. call[c].phase # "open" /\ UNCHANGED opening
      BY <1>2, <2>1 DEF Begin, CallFails, CallsFit, CallFits, poolVars
    <3> QED
      BY <3>1
  <2>2. CASE Send(c)
    BY <2>2, SendCalls
  <2>3. CASE ConnectionDies(c) \/ BadAnswer(c) \/ Answer(c) \/ ReadSome(c) \/ Finish(c) \/ Break(c) \/ Resume(c)
    BY <2>3 DEF ConnectionDies, BadAnswer, Answer, ReadSome, Finish, Break, Resume, Connected, Hangup, restOfPool,
                poolVars
  <2>4. CASE CloseIdle(c)
    BY <2>4 DEF CloseIdle, DropIdle, moduleVars, restOfPool, poolVars
  <2> QED
    BY <2>1, <2>2, <2>3, <2>4 DEF FetchStep
<1> QED
  BY <1>1, <1>3, OpenerStays

LEMMA FetchesKeepSelection ==
    ASSUME DownloadInv, ConfigSound, SelectionSound, CallsFit, NEW c \in Caller, FetchStep(c)
    PROVE  SelectionSound'
<1> USE DEF DownloadInv, PoolInv
<1>1. [PoolNext]_poolVars /\ config' = config
  BY FetchSteps DEF StepOK
<1>2. servers \subseteq Server /\ choice \in [Exits -> ChoiceRecord] /\ list \in Nat
  BY DEF SelectionSound
<1>3. CASE UNCHANGED selectionVars
  BY <1>1, <1>2, <1>3, SelectionStaysSound DEF selectionVars
<1>4. CASE Send(c)
  <2>1. ExitOf(c) \in Exits
    BY <1>4 DEF Send, CallsFit, CallFits
  <2>2. choice' \in [Exits -> ChoiceRecord]
    BY <1>2, <1>4, <2>1, PickedFrom DEF Send, HasDialer
  <2> QED
    BY <1>1, <1>2, <1>4, <2>2, SelectionStaysSound DEF Send
<1> QED
  BY <1>3, <1>4
     DEF FetchStep, Begin, CallFails, ConnectionDies, BadAnswer, Answer, ReadSome, Finish, Break, Resume, CloseIdle

LEMMA FetchesStayPermitted ==
    ASSUME DownloadInv, FetchSound, CallsFit, CallsFit', UsesSound, UsesSound', PermittedSound,
           NEW c \in Caller, FetchStep(c)
    PROVE  PermittedSound'
<1> USE DEF DownloadInv, PoolInv
<1> PICK r, n : r = call[c] /\ n = call'[c]
  OBVIOUS
<1>1. config' = config /\ ServersStay
  BY FetchSteps, PoolKeepsServers DEF StepOK
<1>2. \A d \in Caller : d # c => call'[d] = call[d]
  BY FetchStages
<1>3. NoCall.tunnel = NoTunnel /\ NoCall.phase = "idle" /\ idle \in [Exits -> [Tunnel -> Nat]]
  BY DEF NoCall, UsesSound
<1>4. /\ n.tunnel # NoTunnel =>
           \/ n.tunnel = r.tunnel /\ n.exit = r.exit
           \/ Permitted(config.exits[n.exit], tun'[n.tunnel].server)
      /\ n.phase \notin {"get", "open"}
  <2>1. CASE n = NoCall \/ (n = r /\ r.phase = "connected")
    BY <1>3, <2>1
  <2>2. CASE Send(c)
    <3>1. ASSUME NEW t \in Tunnel, idle[ExitOf(c)][t] > 0, n.phase = "connected", n.tunnel = t, n.exit = ExitOf(c)
          PROVE  Permitted(config.exits[n.exit], tun'[n.tunnel].server)
      <4>1. ExitOf(c) \in Exits
        BY <2>2 DEF Send, CallsFit, CallFits
      <4>2. UNCHANGED tun
        BY <2>2, SendCalls
      <4> QED
        BY <3>1, <4>1, <4>2 DEF PermittedSound
    <3> QED
      BY <2>2, <3>1, SendCalls
  <2> QED
    BY <2>1, <2>2, FetchStages
<1>5. ASSUME NEW e \in Exits, NEW t \in Tunnel, idle'[e][t] > 0
      PROVE  idle[e][t] > 0 \/ Permitted(config.exits[e], tun'[t].server)
  <2>1. CASE UNCHANGED idle
    BY <1>5, <2>1
  <2>2. ASSUME NEW x \in Exits, NEW u \in Tunnel, idle[x][u] > 0, idle' = [idle EXCEPT ![x][u] = @ - 1]
        PROVE  idle[e][t] > 0
    BY <1>3, <1>5, <2>2
  <2>3. CASE Finish(c)
    <3>1. idle' = [idle EXCEPT ![ExitOf(c)][r.tunnel] = @ + 1] /\ UNCHANGED tun /\ r.phase = "connected"
      BY <2>3 DEF Finish, Connected, poolVars
    <3>2. r.tunnel \in Tunnel /\ r.exit = ExitOf(c) /\ ExitOf(c) \in Exits
      BY <3>1, ConnectedKnown
    <3>3. r.tunnel # NoTunnel
      BY <3>2, PoolAssumption
    <3>4. Permitted(config.exits[ExitOf(c)], tun[r.tunnel].server)
      BY <3>2, <3>3 DEF PermittedSound, OnlyPermittedServers
    <3>5. idle'[e][t] = idle[e][t] \/ (e = ExitOf(c) /\ t = r.tunnel)
      BY <1>3, <3>1, <3>2
    <3> QED
      BY <1>5, <3>1, <3>4, <3>5
  <2>4. CASE Send(c)
    <3>1. ExitOf(c) \in Exits
      BY <2>4 DEF Send, CallsFit, CallFits
    <3> QED
      BY <2>1, <2>2, <2>4, <3>1, SendCalls
  <2>5. CASE CloseIdle(c)
    <3>1. ExitOf(c) \in Exits
      BY <2>5 DEF CloseIdle, CallsFit, CallFits
    <3> QED
      BY <2>1, <2>2, <2>5, <3>1 DEF CloseIdle, DropIdle
  <2> QED
    BY <2>1, <2>3, <2>4, <2>5
       DEF FetchStep, Begin, CallFails, ConnectionDies, BadAnswer, Answer, ReadSome, Break, Resume
<1>6. \A d \in Caller : call'[d].tunnel # NoTunnel =>
              \/ call'[d].tunnel = call[d].tunnel /\ call'[d].exit = call[d].exit
              \/ Permitted(config.exits[call'[d].exit], tun'[call'[d].tunnel].server)
  BY <1>2, <1>4
<1>7. \A d \in Caller : call'[d].phase \in {"get", "open"} =>
              Permitted(config.exits[call'[d].exit], call'[d].server)
  BY <1>2, <1>4 DEF PermittedSound
<1> QED
  BY <1>1, <1>5, <1>6, <1>7, StillPermitted

-----------------------------------------------------------------------------
(* The whole.                                                              *)
UsersInv ==
    /\ DownloadInv /\ ConfigSound /\ SelectionSound /\ FetchSound
    /\ CallsFit /\ OpenerWaits /\ UsesSound /\ PermittedSound

LEMMA CallsKeepAll ==
    ASSUME UsersInv, NEW c \in Caller, CallStep(c) \/ GiveUp(c), UNCHANGED downloadVars
    PROVE  SelectionSound' /\ FetchSound' /\ CallsFit' /\ OpenerWaits' /\ UsesSound' /\ PermittedSound'
<1> USE DEF UsersInv
<1>1. UNCHANGED <<fetch, idle, host>>
  BY DEF downloadVars
<1>2. call[c].phase # "idle"
  BY DEF CallStep, PickServer, GetOpen, GetByOpening, GetNothing, OpenTunnel, AwaitHandshake, Operate, Bench,
         ForgetFailed, Leave, NextAddress, GiveUp
<1>3. SelectionSound'
  BY <1>2, CallHasExit, CallsKeepSelection
<1>4. FetchSound'
  <2>1. HostSound'
    BY <1>1 DEF FetchSound, HostSound, Version
  <2> QED
    BY <1>1, <2>1, FetchesStay
<1>5. CallsFit'
  BY CallsStayFit
<1>6. OpenerWaits'
  BY OpenersStay
<1>7. UsesSound'
  BY <1>1, <1>5, CallsKeepCount
<1>8. PermittedSound'
  BY <1>1, <1>5, <1>7, CallsStayPermitted
<1> QED
  BY <1>3, <1>4, <1>5, <1>6, <1>7, <1>8

LEMMA FetchesKeepAll ==
    ASSUME UsersInv, NEW c \in Caller, FetchStep(c)
    PROVE  SelectionSound' /\ FetchSound' /\ CallsFit' /\ OpenerWaits' /\ UsesSound' /\ PermittedSound'
<1> USE DEF UsersInv
<1>1. SelectionSound' /\ FetchSound' /\ OpenerWaits'
  BY FetchesKeepSelection, FetchesSound, FetchesLeaveOpeners
<1>2. CallsFit'
  BY FetchesStayFit
<1>3. UsesSound'
  BY FetchesKeepCount
<1> QED
  BY <1>1, <1>2, <1>3, FetchesStayPermitted

LEMMA OthersKeepAll ==
    ASSUME UsersInv, IdleTimesOut \/ HostChanges \/ RunPool \/ Refresh \/ UNCHANGED vars
    PROVE  SelectionSound' /\ FetchSound' /\ CallsFit' /\ OpenerWaits' /\ UsesSound' /\ PermittedSound'
<1> USE DEF UsersInv, DownloadInv, PoolInv
<1>1. config' = config /\ [PoolNext]_poolVars /\ ServersStay /\ Exits' = Exits
  BY EveryStep, PoolKeepsServers DEF StepOK, Next, Exits
<1>2. UNCHANGED <<call, fetch, choice, health, opening>>
  BY DEF IdleTimesOut, DropIdle, HostChanges, RunPool, Reap, Tick, Refresh, RefreshList, vars, poolVars,
         selectionVars, moduleVars, downloadVars, restOfPool
<1>3. SelectionSound'
  <2>1. servers \subseteq Server /\ choice \in [Exits -> ChoiceRecord] /\ list \in Nat
    BY DEF SelectionSound
  <2>2. CASE Refresh
    <3>1. PICK fetched \in DOMAIN Upstream :
            /\ list' = fetched
            /\ servers' = UNION {LoadServers(Upstream[fetched], config.providers[p]) : p \in DOMAIN config.providers}
      BY <2>2 DEF Refresh, RefreshList
    <3>2. \A p \in DOMAIN config.providers : LoadServers(Upstream[fetched], config.providers[p]) \subseteq Server
      BY ServersLoaded DEF ConfigSound
    <3>3. servers' \subseteq Server /\ list' \in Nat
      BY <3>1, <3>2, SelectionAssumption
    <3> QED
      BY <1>1, <1>2, <2>1, <3>3, SelectionStaysSound
  <2>3. CASE ~Refresh
    <3>1. UNCHANGED <<servers, list>>
      BY <2>3 DEF IdleTimesOut, HostChanges, RunPool, vars, selectionVars
    <3> QED
      BY <1>1, <1>2, <2>1, <3>1, SelectionStaysSound
  <2> QED
    BY <2>2, <2>3
<1>4. FetchSound'
  <2>1. CASE HostChanges
    <3>1. host' = [host EXCEPT !.version = host.version + 1] /\ host.version + 1 \in Version
      BY <2>1 DEF HostChanges
    <3>2. host \in [version : Version, ident : Idents \cup {"?"}]
      BY DEF FetchSound, HostSound
    <3>3. host' \in [version : Version, ident : Idents \cup {"?"}] /\ host'.ident = host.ident
      BY <3>1, <3>2
    <3>4. HostSound'
      BY <3>3 DEF HostSound, Version, Idents
    <3> QED
      BY <1>2, <3>3, <3>4, FetchesStay
  <2>2. CASE ~HostChanges
    <3>1. UNCHANGED host
      BY <2>2 DEF IdleTimesOut, RunPool, Refresh, vars, downloadVars
    <3>2. HostSound'
      BY <3>1 DEF FetchSound, HostSound, Version
    <3> QED
      BY <1>2, <3>1, <3>2, FetchesStay
  <2> QED
    BY <2>1, <2>2
<1>5. CallsFit'
  <2>1. ASSUME NEW c \in Caller PROVE (CallRecordOf(c))' = CallRecordOf(c)
    BY DEF CallRecordOf
  <2>2. ASSUME NEW c \in Caller PROVE CallFits(fetch[c], call[c], c)' <=> CallFits(fetch[c], call[c], c)
    BY <1>1, <1>2 DEF CallFits
  <2> QED
    BY <1>2, <2>1, <2>2 DEF CallsFit
<1>6. OpenerWaits'
  BY <1>2 DEF OpenerWaits, Free
<1>7. UsesSound'
  <2>1. ASSUME NEW e \in Exits, NEW t \in Tunnel, DropIdle(e, t) PROVE UsesSound'
    <3>1. \A u \in Tunnel : tun'[u].active = IF u = t THEN tun[u].active - 1 ELSE tun[u].active
      BY <2>1, ReleaseCounts DEF DropIdle
    <3> QED
      BY <1>1, <1>2, <2>1, <3>1, IdleLetsGo DEF DropIdle
  <2>2. CASE UNCHANGED idle /\ ActiveStays
    BY <1>1, <1>2, <2>2, UsesKept DEF ActiveStays
  <2>3. Reap => ActiveStays
    BY RemovalKeepsUsers DEF Reap
  <2>4. UNCHANGED tun => ActiveStays
    BY DEF ActiveStays
  <2>5. CASE IdleTimesOut
    BY <2>1, <2>5 DEF IdleTimesOut
  <2>6. CASE ~IdleTimesOut
    BY <2>2, <2>3, <2>4, <2>6 DEF HostChanges, RunPool, Tick, Refresh, vars, downloadVars, poolVars
  <2> QED
    BY <2>5, <2>6
<1>8. PermittedSound'
  <2>1. ASSUME NEW e \in Exits, NEW t \in Tunnel, idle'[e][t] > 0 PROVE idle[e][t] > 0
    <3>1. CASE UNCHANGED idle
      BY <2>1, <3>1
    <3>2. ASSUME NEW x \in Exits, NEW u \in Tunnel, idle[x][u] > 0, idle' = [idle EXCEPT ![x][u] = @ - 1]
          PROVE  idle[e][t] > 0
      BY <2>1, <3>2 DEF UsesSound
    <3> QED
      BY <3>1, <3>2 DEF IdleTimesOut, DropIdle, HostChanges, RunPool, Refresh, vars, downloadVars
  <2>2. \A c \in Caller : call'[c].phase \in {"get", "open"} => Permitted(config.exits[call'[c].exit], call'[c].server)
    BY <1>2 DEF PermittedSound
  <2> QED
    BY <1>1, <1>2, <1>5, <1>7, <2>1, <2>2, StillPermitted
<1> QED
  BY <1>3, <1>4, <1>5, <1>6, <1>7, <1>8

LEMMA EveryStepKeepsAll == UsersInv /\ [Next]_vars => UsersInv'
<1> SUFFICES ASSUME UsersInv, [Next]_vars PROVE UsersInv'
  OBVIOUS
<1>1. DownloadInv
  BY DEF UsersInv
<1>2. StepOK
  BY <1>1, EveryStep
<1>3. DownloadInv'
  <2>1. PoolInv'
    BY <1>1, <1>2, StepSound DEF StepOK, DownloadInv
  <2>2. ProtonHasKeys'
    BY <1>1, <1>2 DEF StepOK, DownloadInv, ProtonHasKeys, Proton, KeysSuffice
  <2> QED
    BY <1>2, <2>1, <2>2 DEF StepOK, DownloadInv
<1>4. ConfigSound'
  BY <1>2 DEF StepOK, UsersInv, ConfigSound, Exits
<1>5. SelectionSound' /\ FetchSound' /\ CallsFit' /\ OpenerWaits' /\ UsesSound' /\ PermittedSound'
  BY CallsKeepAll, FetchesKeepAll, OthersKeepAll DEF Next
<1> QED
  BY <1>3, <1>4, <1>5 DEF UsersInv

(* Start-up.                                                               *)
LEMMA SetupSound ==
    ASSUME NEW vpn \in Vpns
    PROVE  /\ \A e \in DOMAIN Setup(vpn).exits : Setup(vpn).exits[e].locations \in Seq(STRING)
           /\ \A p \in DOMAIN Setup(vpn).providers : Setup(vpn).providers[p].files \subseteq Server
<1>1. ASSUME NEW e \in DOMAIN Setup(vpn).exits PROVE Setup(vpn).exits[e].locations \in Seq(STRING)
  <2>1. e \in DOMAIN vpn.exits /\ Setup(vpn).exits[e] = vpn.exits[e]
    BY DEF Setup, Load
  <2> QED
    BY <2>1, VpnsAssumption
<1>2. ASSUME NEW p \in DOMAIN Setup(vpn).providers PROVE Setup(vpn).providers[p].files \subseteq Server
  <2>1. p \in DOMAIN vpn.providers /\ Setup(vpn).providers[p] = Capped(LoadProvider(vpn.providers[p]))
    BY DEF Setup, Load
  <2>2. vpn.providers[p].files \subseteq Server
    BY <2>1, VpnsAssumption
  <2>3. LoadProvider(vpn.providers[p]).files = vpn.providers[p].files
    BY DEF LoadProvider
  <2>4. Capped(LoadProvider(vpn.providers[p])).files = LoadProvider(vpn.providers[p]).files
    BY DEF Capped
  <2> QED
    BY <2>1, <2>2, <2>3, <2>4
<1> QED
  BY <1>1, <1>2

LEMMA FetchesStart == DownloadInit => FetchSound
<1> SUFFICES ASSUME DownloadInit PROVE FetchSound
  OBVIOUS
<1>1. NoFetch \in FetchRecord
  BY DEF NoFetch, FetchRecord, Stages
<1>2. ASSUME NEW c \in Caller PROVE FetchFits(c, NoFetch)
  BY DownloadAssumption DEF FetchFits, NoFetch, AtStart
<1>3. OneFile(NoFetch)
  BY DEF OneFile, NoFetch
<1>4. HostSound
  BY DownloadAssumption DEF DownloadInit, HostSound, Version
<1> QED
  BY <1>1, <1>2, <1>3, <1>4 DEF DownloadInit, FetchSound

LEMMA InitKeepsAll == Init => UsersInv
<1> SUFFICES ASSUME Init PROVE UsersInv
  OBVIOUS
<1>1. PICK vpn \in Vpns, cached \in {0, 1} :
        LET setup == Setup(vpn) IN
        /\ DOMAIN setup.exits # {}
        /\ PoolInit([max |-> setup.providers[ProviderName].max, keys |-> setup.providers[ProviderName].keys])
        /\ SelectionInit(setup, setup.providers[ProviderName], cached)
  BY DEF Init
<1>2. DownloadInv
  BY InitInv
<1>3. config = Setup(vpn) /\ now = 0 /\ opening = Free /\ tun = [t \in Tunnel |-> Gone]
  BY <1>1 DEF SelectionInit, PoolInit
<1>4. ConfigSound
  BY <1>3, SetupSound DEF ConfigSound, Exits
<1>5. SelectionSound
  <2>1. ListAtStart(cached) = 1 /\ 1 \in DOMAIN Upstream
    BY <1>1, SelectionAssumption DEF ListAtStart
  <2>2. ProviderName \in DOMAIN Setup(vpn).providers
    BY <1>1, InitialSettings
  <2>3. servers \subseteq Server /\ list \in Nat
    BY <1>1, <2>1, <2>2, SetupSound, ServersLoaded DEF SelectionInit
  <2>4. choice \in [Exits -> ChoiceRecord]
    <3>1. NoChoice \in ChoiceRecord
      BY PoolAssumption DEF NoChoice, ChoiceRecord
    <3> QED
      BY <1>1, <3>1 DEF SelectionInit, Exits
  <2>5. DOMAIN health = Server /\ \A s \in Server : HealthSound(health[s])
    BY <1>1 DEF SelectionInit, HealthSound, Healthy
  <2> QED
    BY <1>3, <2>3, <2>4, <2>5, PoolAssumption DEF SelectionSound
<1>6. FetchSound
  BY FetchesStart DEF Init
<1>7. /\ NoCall.phase = "idle" /\ NoCall.tunnel = NoTunnel /\ NoFetch.stage = "rest"
      /\ ~OnTunnel(NoCall) /\ ~Connecting1(NoCall)
  BY DEF NoCall, NoFetch, OnTunnel, Connecting1
<1>8. call = [c \in Caller |-> NoCall] /\ fetch = [c \in Caller |-> NoFetch]
      /\ idle = [e \in Exits |-> [t \in Tunnel |-> 0]]
  BY DEF Init, ModuleInit, DownloadInit
<1>9. CallsFit
  BY <1>7, <1>8, NoCallFits DEF CallsFit, CallFits
<1>10. OpenerWaits
  BY <1>3 DEF OpenerWaits
<1>11. UsesSound
  <2>1. ASSUME NEW t \in Tunnel PROVE Users(t) = {}
    <3>1. \A e \in Exits : 1 .. idle[e][t] = {}
      BY <1>8
    <3>2. \A x : x \notin Users(t)
      BY <1>7, <1>8, <3>1, UsersOf
    <3> QED
      BY <3>2
  <2>2. \A t \in Tunnel : tun[t].active = 0
    BY <1>3 DEF Gone
  <2>3. IsFiniteSet({}) /\ Cardinality({}) = 0
    BY FS_EmptySet
  <2> QED
    BY <1>8, <2>1, <2>2, <2>3 DEF UsesSound
<1>12. PermittedSound
  BY <1>7, <1>8 DEF PermittedSound, OnlyPermittedServers
<1> QED
  BY <1>2, <1>4, <1>5, <1>6, <1>9, <1>10, <1>11, <1>12 DEF UsersInv

LEMMA InvImpliesTypes == UsersInv => TypeOK
<1> SUFFICES ASSUME UsersInv PROVE TypeOK
  OBVIOUS
<1>1. PoolTypeOK
  BY DEF UsersInv, DownloadInv, PoolInv
<1>2. SelectionTypeOK
  BY DEF UsersInv, SelectionSound, SelectionTypeOK, ChoiceRecord, HealthSound
<1>3. ModuleTypeOK
  BY DEF UsersInv, CallsFit, CallRecordOf, SoundCalls, CallRecord, WithinBounds, ModuleTypeOK
<1>4. DownloadTypeOK
  BY DEF UsersInv, FetchSound, FetchRecord, FetchFits, UsesSound, DownloadTypeOK
<1> QED
  BY <1>1, <1>2, <1>3, <1>4 DEF TypeOK

LEMMA InvHolds == Spec => []UsersInv
BY InitKeepsAll, EveryStepKeepsAll, PTL DEF Spec

-----------------------------------------------------------------------------
(* Every call, connection, choice and download has its type, and calls and *)
(* downloads are within their bounds: two attempts, the host's addresses,  *)
(* maxResumes and the chain's URLs.                                        *)
THEOREM TypesAlwaysKept == Spec => []TypeOK
BY InvHolds, InvImpliesTypes, PTL

(* A tunnel counts exactly those who use it, through calls that fail or are *)
(* given up, connections kept for later and tunnels shut while in use: no   *)
(* device is closed under a user.                                          *)
THEOREM UsesAlwaysCounted == Spec => []UsesCounted
<1>1. UsersInv => UsesCounted
  BY DEF UsersInv, UsesSound, UsesCounted
<1> QED
  BY InvHolds, <1>1, PTL

(* Whatever fails over, and whenever the server list is replaced, a        *)
(* connection goes out through a server its exit allows.                   *)
THEOREM AlwaysPermitted == Spec => []OnlyPermittedServers
<1>1. UsersInv => OnlyPermittedServers
  BY DEF UsersInv, PermittedSound
<1> QED
  BY InvHolds, <1>1, PTL

(* What a download has kept is one file from beginning to end, if the host  *)
(* tells its files apart in any way.                                       *)
THEOREM AlwaysWholeFile == Spec => []WholeFile
<1>1. UsersInv => WholeFile
  BY DEF UsersInv, FetchSound, FetchFits, OneFile, WholeFile
<1> QED
  BY InvHolds, <1>1, PTL

-----------------------------------------------------------------------------
(* What a step may not do.                                                 *)
LEMMA RemovedAre ==
    ASSUME PoolTypeOK, NEW S, RemoveTunnels(S), NEW s \in Server, tunnels'[s] # tunnels[s]
    PROVE  s \in S
BY DEF RemoveTunnels

BeginOpens == \E c \in Caller, s \in Server : BeginOpen(c, s)

LEMMA UnusedRemoved ==
    ASSUME PoolInv, BeginOpens \/ Reap, NEW s \in Server, tunnels[s] # NoTunnel, tunnels'[s] # tunnels[s]
    PROVE  ~InUse(tunnels[s])
<1> USE DEF PoolInv
<1>1. s \in Pooled
  BY DEF Pooled
<1>2. CASE Reap
  <2>1. s \in Expired
    BY <1>2, RemovedAre DEF Reap
  <2> QED
    BY <2>1, PoolAssumption DEF Expired, IdleFor
<1>3. ASSUME NEW c, NEW w, BeginOpen(c, w) PROVE ~InUse(tunnels[s])
  <2>1. PICK V \in Victims(w) : RemoveTunnels(V \cup ({w} \cap Pooled))
    BY <1>3 DEF BeginOpen
  <2>2. w \notin Pooled
    BY <1>3 DEF BeginOpen, Usable, Pooled, PooledOpen
  <2>3. s \in V
    BY <2>1, <2>2, RemovedAre
  <2> QED
    BY <2>1, <2>3 DEF Victims, Unused
<1> QED
  BY <1>2, <1>3 DEF BeginOpens

LEMMA KeptInStep ==
    ASSUME UsersInv, Next, NEW s \in Server, tunnels[s] # NoTunnel, InUse(tunnels[s]), tunnels'[s] # tunnels[s]
    PROVE  \E c \in Caller : call[c].phase = "forget" /\ call[c].server = s
<1> USE DEF UsersInv, DownloadInv, PoolInv
<1>1. ~BeginOpens /\ ~Reap
  BY UnusedRemoved
<1>2. ~\E c \in Caller, t \in Tunnel : OpenSucceeds(c, t)
  <2>1. SUFFICES ASSUME NEW c \in Caller, NEW t \in Tunnel, OpenSucceeds(c, t) PROVE FALSE
    OBVIOUS
  <2>2. opening # Free
    BY <2>1, PoolAssumption DEF OpenSucceeds, Free
  <2>3. opening.server \notin Pooled
    BY <2>2 DEF OpeningSound
  <2>4. tunnels' = [tunnels EXCEPT ![opening.server] = t]
    BY <2>1 DEF OpenSucceeds
  <2> QED
    BY <2>3, <2>4 DEF Pooled, PoolTypeOK
<1>3. ASSUME NEW c \in Caller, ForgetFailed(c) PROVE call[c].phase = "forget" /\ call[c].server = s
  BY <1>3, RemovedAre DEF ForgetFailed, Forget
<1>4. ASSUME NEW c \in Caller, CallStep(c) \/ GiveUp(c) PROVE ForgetFailed(c)
  <2>1. ~GetByOpening(c)
    <3>1. GetByOpening(c) => call[c].server \in Server
      BY DEF GetByOpening, CallsSound, SoundCalls
    <3> QED
      BY <1>1, <3>1 DEF GetByOpening, BeginOpens
  <2>2. ~OpenTunnel(c)
    BY <1>2 DEF OpenTunnel, OpenFails
  <2>3. ~PickServer(c) /\ ~GetOpen(c) /\ ~GetNothing(c) /\ ~AwaitHandshake(c) /\ ~Operate(c)
    BY DEF PickServer, GetOpen, GetNothing, AwaitHandshake, Operate, poolVars, restOfPool
  <2>4. ~Bench(c) /\ ~Leave(c) /\ ~NextAddress(c) /\ ~GiveUp(c)
    BY DEF Bench, Leave, NextAddress, GiveUp, poolVars, restOfPool
  <2> QED
    BY <1>4, <2>1, <2>2, <2>3, <2>4 DEF CallStep
<1>5. ASSUME NEW c \in Caller, FetchStep(c) PROVE FALSE
  BY <1>5
     DEF FetchStep, Begin, Send, CallFails, ConnectionDies, BadAnswer, Answer, ReadSome, Finish, Break, Resume,
         CloseIdle, DropIdle, Hangup, poolVars, restOfPool
<1>6. ~IdleTimesOut /\ ~HostChanges /\ ~RunPool /\ ~Refresh
  BY <1>1 DEF IdleTimesOut, DropIdle, HostChanges, RunPool, Tick, Refresh, poolVars, restOfPool
<1> QED
  BY <1>3, <1>4, <1>5, <1>6 DEF Next

(* A call comes by the server it is to have from the choice of its exit.   *)
LEMMA PickedInStep ==
    ASSUME UsersInv, Next, NEW c \in Caller, call[c].phase = "pick", call'[c].phase = "get"
    PROVE  Pick(call[c].exit, call'[c].server) /\ call[c].exit \in Exits
<1> USE DEF UsersInv, DownloadInv
<1>1. call'[c] # call[c]
  OBVIOUS
<1>2. ASSUME NEW d \in Caller, CallStep(d) \/ GiveUp(d) PROVE Pick(call[c].exit, call'[c].server)
  <2>1. d = c
    BY <1>1, <1>2, OthersStay
  <2> QED
    BY <1>2, <2>1, ServersPicked
<1>3. ASSUME NEW d \in Caller, FetchStep(d) PROVE FALSE
  <2>1. d = c
    BY <1>1, <1>3, FetchStages
  <2>2. NoCall.phase = "idle"
    BY DEF NoCall
  <2> QED
    BY <1>1, <1>3, <2>1, <2>2, FetchStages DEF Send
<1>4. ~IdleTimesOut /\ ~HostChanges /\ ~RunPool /\ ~Refresh
  BY <1>1 DEF IdleTimesOut, HostChanges, RunPool, Refresh, moduleVars
<1>5. call[c].exit \in Exits
  BY CallHasExit
<1> QED
  BY <1>2, <1>3, <1>4, <1>5 DEF Next

LEMMA BestPicked ==
    ASSUME UsersInv, NEW e \in Exits, NEW s, Pick(e, s)
    PROVE  /\ ~Benched(s)
           /\ \A i \in 1 .. TierCount(e) :
                 (\E r \in Tier(e, i) : ~Benched(r)) => \E j \in 1 .. i : s \in Tier(e, j)
<1>1. PICK j \in First(TiersUp(e)) : s \in HealthyIn(e, j)
  BY PickedFrom DEF UsersInv, DownloadInv, PoolInv
<1>2. ~Benched(s) /\ s \in Tier(e, j)
  BY <1>1 DEF HealthyIn
<1>3. ASSUME NEW i \in 1 .. TierCount(e), \E r \in Tier(e, i) : ~Benched(r)
      PROVE  j \in 1 .. i
  <2>1. i \in TiersUp(e)
    BY <1>3 DEF TiersUp, HealthyIn
  <2>2. j \in 1 .. TierCount(e) /\ j <= i
    BY <1>1, <2>1 DEF First, TiersUp
  <2> QED
    BY <2>2
<1> QED
  BY <1>2, <1>3

(* A tunnel in use leaves the pool only as its server fails for a call.    *)
THEOREM TunnelsKeptWhileUsed == Spec => KeptWhileUsed
<1> DEFINE Kept1 == \A s \in Server :
        tunnels[s] # NoTunnel /\ InUse(tunnels[s]) /\ tunnels'[s] # tunnels[s] =>
            \E c \in Caller : call[c].phase = "forget" /\ call[c].server = s
<1>1. UsersInv /\ [Next]_vars => [Kept1]_vars
  BY KeptInStep
<1> QED
  BY InvHolds, <1>1, PTL DEF Spec, KeptWhileUsed

(* A call is sent to a healthy server of the best location that has one.   *)
THEOREM AlwaysBestLocation == Spec => BestLocation
<1> DEFINE Best == \A c \in Caller : call[c].phase = "pick" /\ call'[c].phase = "get" =>
        LET e == call[c].exit  s == call'[c].server IN
        /\ ~Benched(s)
        /\ \A i \in 1 .. TierCount(e) :
              (\E r \in Tier(e, i) : ~Benched(r)) => \E j \in 1 .. i : s \in Tier(e, j)
<1>1. UsersInv /\ [Next]_vars => [Best]_vars
  BY PickedInStep, BestPicked
<1> QED
  BY InvHolds, <1>1, PTL DEF Spec, BestLocation
=============================================================================
