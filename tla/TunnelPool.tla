----------------------------- MODULE TunnelPool -----------------------------
(***************************************************************************)
(* One VPN provider's tunnels (modules/exits/pool.go, tunnel.go): opened   *)
(* on first use, shared by whoever wants the same server, closed when      *)
(* idle, when their server fails or to make room, and never more of them   *)
(* in the pool than max_tunnels.                                           *)
(*                                                                         *)
(* A tunnel is a handle in Tunnel.  It leaves the pool when it is shut, and *)
(* lives on until its last user has left: only then is its device closed,  *)
(* after which the handle stands for no tunnel and may be used again.      *)
(* Both mutexes of the code hold over single steps here, except the pool's *)
(* while a tunnel is being opened, which `opening' records.                *)
(***************************************************************************)
EXTENDS Integers, FiniteSets

CONSTANTS
    Server,         \* servers, numbered in the order of their names
    Tunnel,         \* handles
    Caller,         \* goroutines that ask for tunnels
    MaxTime,        \* bound: how far the clock runs
    IdleTimeout, KeyMoveSettle

NoServer == 0
NoTunnel == 0
Nobody   == "nobody"

ASSUME PoolAssumption ==
    /\ Server \subseteq Nat \ {NoServer} /\ IsFiniteSet(Server)
    /\ Tunnel \subseteq Nat \ {NoTunnel} /\ IsFiniteSet(Tunnel)
    /\ Nobody \notin Caller
    /\ MaxTime \in Nat /\ IdleTimeout \in Nat \ {0} /\ KeyMoveSettle \in Nat

VARIABLES
    limits,     \* [max, keys]: max_tunnels (0 is no limit), number of keys
    tunnels,    \* pool.tunnels, by server
    keyUse, keyLast,
    tun,        \* the tunnels themselves
    opening,    \* who holds pool.mutex over pool.open, for which server and key
    now

poolVars == <<limits, tunnels, keyUse, keyLast, tun, opening, now>>

Key     == 1 .. limits.keys
NoKey   == 0
Gone    == [server |-> NoServer, key |-> NoKey, active |-> 0, closed |-> TRUE, lastUsed |-> 0]
Free    == [by |-> Nobody, server |-> NoServer, key |-> NoKey]
NoPlace == [server |-> NoServer, at |-> 0]

TunnelRecord ==
    [server : Server \cup {NoServer}, key : Nat, active : Nat, closed : BOOLEAN, lastUsed : Nat]

PoolTypeOK ==
    /\ limits \in [max : Nat, keys : Nat]
    /\ tunnels \in [Server -> Tunnel \cup {NoTunnel}]
    /\ keyUse \in [Key -> Nat]
    /\ keyLast \in [Key -> [server : Server \cup {NoServer}, at : Nat]]
    /\ tun \in [Tunnel -> TunnelRecord]
    /\ opening \in [by : Caller \cup {Nobody}, server : Server \cup {NoServer}, key : Nat]
    /\ now \in Nat

PoolInit(settings) ==
    /\ limits = settings
    /\ tunnels = [s \in Server |-> NoTunnel]
    /\ keyUse = [k \in 1 .. settings.keys |-> 0]
    /\ keyLast = [k \in 1 .. settings.keys |-> NoPlace]
    /\ tun = [t \in Tunnel |-> Gone]
    /\ opening = Free
    /\ now = 0

Pooled          == {s \in Server : tunnels[s] # NoTunnel}
TunnelsOnKey(k) == {s \in Pooled : tun[tunnels[s]].key = k}
InUse(t)        == tun[t].active > 0
IdleFor(t)      == IF InUse(t) THEN 0 ELSE now - tun[t].lastUsed
MutexFree       == opening = Free

(* tunnel.close, closeDevice: nobody may start using it, and the device is  *)
(* closed now or by the last user to leave.                                *)
Shut(r) == IF r.active > 0 THEN [r EXCEPT !.closed = TRUE] ELSE Gone

(* pool.remove, of each server in S.                                       *)
RemoveTunnels(S) ==
    /\ tunnels' = [s \in Server |-> IF s \in S THEN NoTunnel ELSE tunnels[s]]
    /\ tun' = [t \in Tunnel |-> IF \E s \in S : tunnels[s] = t THEN Shut(tun[t]) ELSE tun[t]]
    /\ keyUse' = [k \in Key |-> keyUse[k] - Cardinality(TunnelsOnKey(k) \cap S)]
    /\ keyLast' = [k \in Key |-> IF TunnelsOnKey(k) \cap S = {} THEN keyLast[k]
                                 ELSE [server |-> CHOOSE s \in TunnelsOnKey(k) \cap S : TRUE, at |-> now]]

(* pool.pickKey: the least used key, among those one last used on this     *)
(* server, then one settled, then the one used longest ago.                *)
KeyClass(last, k, s) ==
    IF last[k].server = s THEN 0
    ELSE IF last[k].server = NoServer \/ now - last[k].at >= KeyMoveSettle THEN 1 ELSE 2

KeySince(last, k) == IF last[k].server = NoServer THEN MaxTime + 1 ELSE now - last[k].at

BetterKey(use, last, s, i, j) ==
    \/ use[i] < use[j]
    \/ use[i] = use[j] /\ KeyClass(last, i, s) < KeyClass(last, j, s)
    \/ use[i] = use[j] /\ KeyClass(last, i, s) = KeyClass(last, j, s) /\ KeySince(last, i) > KeySince(last, j)

PickedKey(use, last, s, i) ==
    \A j \in Key \ {i} : BetterKey(use, last, s, i, j) \/ (i < j /\ ~BetterKey(use, last, s, j, i))

-----------------------------------------------------------------------------
(* pool.tryGet and tunnel.use                                              *)
Usable(s) == tunnels[s] # NoTunnel /\ ~tun[tunnels[s]].closed

Use(t)     == tun' = [tun EXCEPT ![t].active = @ + 1, ![t].lastUsed = now]
Reuse(s)   == MutexFree /\ Usable(s) /\ Use(tunnels[s])
Full(s)    == limits.max > 0 /\ Cardinality(Pooled \ {s}) >= limits.max
Unused(s)  == {v \in Pooled \ {s} : ~InUse(tunnels[v])}
NoRoom(s)  == MutexFree /\ ~Usable(s) /\ Full(s) /\ Unused(s) = {}

(* Mutant: the tunnel idle for longest by the clock, in use or not.        *)
VictimsInUse(s) ==
    IF ~Full(s) THEN {{}}
    ELSE {{v} : v \in {w \in Pooled \ {s} : \A x \in Pooled \ {s} : tun[tunnels[x]].lastUsed >= tun[tunnels[w]].lastUsed}}

(* What is removed to make room: nothing, or a tunnel idle for longest.    *)
Victims(s) ==
    IF ~Full(s) THEN {{}}
    ELSE {{v} : v \in {w \in Unused(s) : \A x \in Unused(s) : IdleFor(tunnels[x]) <= IdleFor(tunnels[w])}}

BeginOpen(c, s) ==
    /\ MutexFree /\ ~Usable(s)
    /\ \E V \in Victims(s) : RemoveTunnels(V \cup ({s} \cap Pooled))
    /\ IF Key = {} THEN opening' = [by |-> c, server |-> s, key |-> NoKey]
       ELSE \E i \in Key : /\ PickedKey(keyUse', keyLast', s, i)
                           /\ opening' = [by |-> c, server |-> s, key |-> i]
    /\ UNCHANGED <<limits, now>>

(* Handles nobody refers to; the model takes the first.                    *)
FreshTunnel(t) == tun[t] = Gone /\ \A u \in Tunnel : u < t => tun[u] # Gone

OpenSucceeds(c, t) ==
    LET s == opening.server  k == opening.key IN
    /\ opening.by = c /\ FreshTunnel(t)
    /\ tunnels' = [tunnels EXCEPT ![s] = t]
    /\ tun' = [tun EXCEPT ![t] = [server |-> s, key |-> k, active |-> 1, closed |-> FALSE, lastUsed |-> now]]
    /\ keyUse' = [i \in Key |-> IF i = k THEN keyUse[i] + 1 ELSE keyUse[i]]
    /\ keyLast' = [i \in Key |-> IF i = k THEN [server |-> s, at |-> now] ELSE keyLast[i]]
    /\ opening' = Free
    /\ UNCHANGED <<limits, now>>

OpenFails(c) ==
    /\ opening.by = c
    /\ opening' = Free
    /\ UNCHANGED <<limits, tunnels, keyUse, keyLast, tun, now>>

(* tunnel.release: the last user of a shut tunnel closes its device.       *)
Left(r) ==
    IF r.closed /\ r.active = 1 THEN Gone
    ELSE [r EXCEPT !.active = @ - 1, !.lastUsed = now]

Release(t) ==
    /\ tun[t].active > 0
    /\ tun' = [tun EXCEPT ![t] = Left(tun[t])]

(* pool.forget; pool.reap (idleFor, so none in use); pool.closeAll         *)
Forget(s) == MutexFree /\ RemoveTunnels({s} \cap Pooled) /\ UNCHANGED <<limits, opening, now>>

Expired == {s \in Pooled : IdleFor(tunnels[s]) >= IdleTimeout}

Reap == MutexFree /\ Expired # {} /\ RemoveTunnels(Expired) /\ UNCHANGED <<limits, opening, now>>

CloseAll == MutexFree /\ RemoveTunnels(Pooled) /\ UNCHANGED <<limits, opening, now>>

Tick == now < MaxTime /\ now' = now + 1 /\ UNCHANGED <<limits, tunnels, keyUse, keyLast, tun, opening>>

-----------------------------------------------------------------------------
(* What whoever uses the pool may make it do.                              *)
restOfPool == <<limits, tunnels, keyUse, keyLast, opening, now>>

PoolNext ==
    \/ \E s \in Server : Reuse(s) /\ UNCHANGED restOfPool
    \/ \E t \in Tunnel : ((~tun[t].closed /\ Use(t)) \/ Release(t)) /\ UNCHANGED restOfPool
    \/ \E c \in Caller, s \in Server : BeginOpen(c, s)
    \/ \E c \in Caller : OpenFails(c) \/ \E t \in Tunnel : OpenSucceeds(c, t)
    \/ \E s \in Server : Forget(s)
    \/ Reap \/ CloseAll \/ Tick

PoolSpec(settings) == PoolInit(settings) /\ [][PoolNext]_poolVars

(* The pool's account of its keys is right: keyUse counts the tunnels in   *)
(* the pool on each key, so pickKey ranks keys by what is really open.     *)
KeysCounted == \A k \in Key : keyUse[k] = Cardinality(TunnelsOnKey(k))

(* No more tunnels in the pool than max_tunnels, and no two on one key:     *)
(* "every tunnel has its own" (pool.go).                                   *)
KeysApart ==
    /\ Cardinality(Pooled) <= limits.max
    /\ \A r, s \in Pooled : tun[tunnels[r]].key = tun[tunnels[s]].key => r = s

(* That holds where max_tunnels is no more than the keys.                  *)
OneTunnelPerKey == limits.max \in 1 .. limits.keys => KeysApart
=============================================================================
