--------------------------- MODULE DownloadSystem ---------------------------
(***************************************************************************)
(* Downloads through the exits of one VPN provider: the callers, the       *)
(* exits module, its pool of tunnels with the goroutine that reaps it, and *)
(* the refresh of its server list.                                         *)
(***************************************************************************)
EXTENDS SourceDownload

CONSTANTS
    Vpns,           \* vpn blocks of config.json to start with
    ProviderName

(* The model has one provider.                                             *)
ASSUME VpnsAssumption ==
    \A vpn \in Vpns :
        /\ DOMAIN vpn.providers = {ProviderName}
        /\ vpn.providers[ProviderName].keys \in Nat
        /\ vpn.providers[ProviderName].max \in Nat
        /\ vpn.providers[ProviderName].files \subseteq Server
        /\ \A e \in DOMAIN vpn.exits : vpn.exits[e].locations \in Seq(STRING)

vars == <<poolVars, selectionVars, moduleVars, downloadVars>>

(* main.go, New: the module exists when there is an exit to use.           *)
Init ==
    /\ \E vpn \in Vpns, cached \in {0, 1} :
        LET setup == Setup(vpn) IN
        /\ DOMAIN setup.exits # {} /\ ManagerAccepted(DOMAIN setup.exits)
        /\ PoolInit([max |-> setup.providers[ProviderName].max, keys |-> setup.providers[ProviderName].keys])
        /\ SelectionInit(setup, setup.providers[ProviderName], cached)
    /\ ModuleInit /\ DownloadInit

RunPool == (Reap \/ Tick) /\ UNCHANGED <<selectionVars, moduleVars, downloadVars>>

Refresh == RefreshList /\ UNCHANGED <<poolVars, moduleVars, downloadVars>>

Next ==
    \/ \E c \in Caller : (CallStep(c) \/ GiveUp(c)) /\ UNCHANGED downloadVars
    \/ \E c \in Caller : FetchStep(c)
    \/ IdleTimesOut \/ HostChanges
    \/ RunPool \/ Refresh

Spec == Init /\ [][Next]_vars

TypeOK == PoolTypeOK /\ SelectionTypeOK /\ ModuleTypeOK /\ DownloadTypeOK

-----------------------------------------------------------------------------
(* A tunnel counts exactly those who use it: calls from being handed it    *)
(* until they leave, and connections open through it, idle ones included.  *)
(* So a device is closed when the last of them goes and never earlier:     *)
(* closing it under a user "would not be an error but fatal" (tunnel.go).  *)
Connecting(t) ==
    {c \in Caller : /\ call[c].tunnel = t
                    /\ \/ Connected(c)
                       \/ call[c].phase = "leave" /\ call[c].op = "dial" /\ call[c].outcome = "ok"}

Users(t) ==
    {<<"call", c, 0>> : c \in OnCall(t)} \cup {<<"connection", c, 0>> : c \in Connecting(t)}
        \cup UNION {{<<"idle", e, n>> : n \in 1 .. idle[e][t]} : e \in Exits}

UsesCounted == \A t \in Tunnel : tun[t].active = Cardinality(Users(t))

(* A Proton account's keys are each for one tunnel at a time, whatever      *)
(* max_tunnels says: two tunnels on one key cut each other off (setup.go,  *)
(* "one tunnel per key").                                                  *)
ProtonKeysApart == Proton => KeysApart

(* And the pool's account of its keys, by which it picks one, is right.    *)
KeysSound == KeysCounted /\ ProtonKeysApart

(* A connection only ever goes out where its exit is allowed to, through   *)
(* failovers and changes of the server list: never an excluded country,    *)
(* and only the first location of a strict exit (select.go, tiers).        *)
OnlyPermittedServers ==
    \A c \in Caller : call[c].tunnel # NoTunnel =>
        Permitted(config.exits[call[c].exit], tun[call[c].tunnel].server)

(* A download that ends well is one file from beginning to end, whatever   *)
(* broke and whatever the host changed meanwhile, if the host identifies   *)
(* its files in any way (resume.go: "the rest of the same file").          *)
WholeFile ==
    \A c \in Caller : fetch[c].stage = "done" =>
        /\ host.ident # "none" => fetch[c].parts \subseteq {fetch[c].of}
        /\ fetch[c].read = Size[fetch[c].of]

(* A tunnel in use leaves the pool only because its server has failed for  *)
(* some call: not to make room, and not as idle ("rather than cut          *)
(* someone's download", pool.go).                                          *)
KeptWhileUsed ==
    [][\A s \in Server :
        tunnels[s] # NoTunnel /\ InUse(tunnels[s]) /\ tunnels'[s] # tunnels[s] =>
            \E c \in Caller : call[c].phase = "forget" /\ call[c].server = s]_vars

(* An exit moves back to a location it prefers as soon as a server there   *)
(* is healthy, and does not move otherwise while its own is: what a call   *)
(* is sent to is in the best location that has a healthy server.           *)
BestLocation ==
    [][\A c \in Caller : call[c].phase = "pick" /\ call'[c].phase = "get" =>
        LET e == call[c].exit  s == call'[c].server IN
        /\ ~Benched(s)
        /\ \A i \in 1 .. TierCount(e) :
              (\E r \in Tier(e, i) : ~Benched(r)) => \E j \in 1 .. i : s \in Tier(e, j)]_vars
=============================================================================
