-------------------------- MODULE TunnelPoolProofs --------------------------
(***************************************************************************)
(* What the pool promises, for any number of servers, callers, keys and    *)
(* tunnels, whatever its users make it do: its account of its keys is      *)
(* right, and where max_tunnels is no more than the keys, no two tunnels   *)
(* share one.                                                              *)
(*                                                                         *)
(* The argument is a pigeonhole: a tunnel is only opened with fewer in the *)
(* pool than there are keys, so some key is on no tunnel, and pickKey,     *)
(* which ranks keys by their use, takes such a one.  Between the choice    *)
(* and the tunnel's joining the pool the pool's mutex is held, which       *)
(* OpeningSound says is long enough.                                       *)
(***************************************************************************)
EXTENDS TunnelPool, FiniteSetTheorems, TLAPS

Settings == [max : Nat, keys : Nat]

KeysSuffice == limits.max \in 1 .. limits.keys

(* What is in the pool is open, and is its server's only.                  *)
PooledOpen == \A s \in Pooled : tun[tunnels[s]].server = s /\ ~tun[tunnels[s]].closed

(* While a tunnel is being opened there is room for it, on a key of its own *)
RoomAndKey ==
    /\ Cardinality(Pooled) < limits.max
    /\ opening.key \in Key /\ keyUse[opening.key] = 0

OpeningSound ==
    opening # Free =>
        /\ opening.server \in Server \ Pooled
        /\ KeysSuffice => RoomAndKey

PoolInv == PoolTypeOK /\ PooledOpen /\ OpeningSound /\ KeysCounted /\ OneTunnelPerKey

-----------------------------------------------------------------------------
LEMMA PooledFinite ==
    ASSUME NEW k
    PROVE  /\ IsFiniteSet(Pooled) /\ Cardinality(Pooled) \in Nat
           /\ TunnelsOnKey(k) \subseteq Pooled
           /\ IsFiniteSet(TunnelsOnKey(k)) /\ Cardinality(TunnelsOnKey(k)) \in Nat
<1>1. Pooled \in SUBSET Server /\ TunnelsOnKey(k) \in SUBSET Pooled
  BY DEF Pooled, TunnelsOnKey
<1>2. IsFiniteSet(Pooled) /\ IsFiniteSet(TunnelsOnKey(k))
  BY <1>1, PoolAssumption, FS_Subset
<1> QED
  BY <1>1, <1>2, FS_CardinalityType

(* A handle in the pool is a tunnel's, and no other server's.              *)
LEMMA PooledHandles ==
    ASSUME PoolTypeOK, PooledOpen
    PROVE  /\ \A s \in Pooled : s \in Server /\ tunnels[s] \in Tunnel
           /\ \A r, s \in Pooled : tunnels[r] = tunnels[s] => r = s
BY DEF PoolTypeOK, PooledOpen, Pooled

(* Fewer tunnels than keys leave a key that is on none of them.            *)
LEMMA SomeKeyFree ==
    ASSUME NEW n \in Nat, NEW S, IsFiniteSet(S), Cardinality(S) < n, NEW keyOf,
           NEW use, \A k \in 1 .. n : use[k] # 0 => \E s \in S : keyOf[s] = k
    PROVE  \E k \in 1 .. n : use[k] = 0
<1> DEFINE OnPool == {keyOf[s] : s \in S}
<1> DEFINE onPool == [s \in S |-> keyOf[s]]
<1>1. Cardinality(S) \in Nat
  BY FS_CardinalityType
<1>2. onPool \in Surjection(S, OnPool)
  BY DEF Surjection
<1>3. IsFiniteSet(OnPool) /\ Cardinality(OnPool) <= Cardinality(S)
  BY <1>2, FS_Surjection
<1>4. IsFiniteSet(1 .. n) /\ Cardinality(1 .. n) = n
  BY FS_Interval
<1>5. ~(1 .. n \subseteq OnPool)
  <2>1. SUFFICES ASSUME 1 .. n \subseteq OnPool PROVE FALSE
    OBVIOUS
  <2>2. Cardinality(1 .. n) <= Cardinality(OnPool) /\ Cardinality(OnPool) \in Nat
    BY <1>3, <2>1, FS_Subset, FS_CardinalityType
  <2> QED
    BY <1>1, <1>3, <1>4, <2>2
<1>6. PICK k \in 1 .. n : k \notin OnPool
  BY <1>5
<1> QED
  BY <1>6

(* pickKey takes a key that is on no tunnel while there is one.            *)
LEMMA PickedIsFree ==
    ASSUME NEW use \in [Key -> Nat], NEW last, NEW s, NEW i \in Key, PickedKey(use, last, s, i),
           NEW k \in Key, use[k] = 0
    PROVE  use[i] = 0
BY DEF PickedKey, BetterKey

-----------------------------------------------------------------------------
(* Tunnels leave the pool.                                                 *)
LEMMA RemovalSound ==
    ASSUME PoolInv, NEW S \in SUBSET Pooled, RemoveTunnels(S), limits' = limits
    PROVE  /\ Pooled' = Pooled \ S
           /\ tunnels' \in [Server -> Tunnel \cup {NoTunnel}]
           /\ tun' \in [Tunnel -> TunnelRecord]
           /\ keyUse' \in [Key -> Nat]
           /\ keyLast' \in [Key -> [server : Server \cup {NoServer}, at : Nat]]
           /\ PooledOpen' /\ KeysCounted' /\ OneTunnelPerKey'
<1> USE DEF PoolInv
<1>1. Pooled' = Pooled \ S
  BY DEF RemoveTunnels, Pooled
<1>2. \A s \in Pooled \ S : tunnels'[s] = tunnels[s] /\ tun'[tunnels[s]] = tun[tunnels[s]]
  BY PooledHandles DEF RemoveTunnels, Pooled
<1>3. tunnels' \in [Server -> Tunnel \cup {NoTunnel}]
  BY DEF RemoveTunnels, PoolTypeOK
<1>4. tun' \in [Tunnel -> TunnelRecord]
  <2>1. ASSUME NEW r \in TunnelRecord PROVE Shut(r) \in TunnelRecord
    BY <2>1 DEF Shut, TunnelRecord, Gone, NoKey
  <2> QED
    BY <2>1 DEF RemoveTunnels, PoolTypeOK
<1>5. PooledOpen'
  BY <1>1, <1>2 DEF PooledOpen
<1>6. ASSUME NEW k \in Key
      PROVE  /\ TunnelsOnKey(k)' = TunnelsOnKey(k) \ S
             /\ keyUse'[k] = Cardinality(TunnelsOnKey(k) \ S)
             /\ keyUse'[k] \in Nat
  <2>1. TunnelsOnKey(k)' = TunnelsOnKey(k) \ S
    BY <1>1, <1>2 DEF TunnelsOnKey
  <2>2. keyUse'[k] = Cardinality(TunnelsOnKey(k)) - Cardinality(TunnelsOnKey(k) \cap S)
    BY DEF RemoveTunnels, KeysCounted
  <2>3. /\ IsFiniteSet(TunnelsOnKey(k) \ S)
        /\ Cardinality(TunnelsOnKey(k) \ S) = Cardinality(TunnelsOnKey(k)) - Cardinality(TunnelsOnKey(k) \cap S)
    BY PooledFinite, FS_Difference
  <2> QED
    BY <2>1, <2>2, <2>3, FS_CardinalityType
<1>7. Key' = Key
  BY DEF Key
<1>8. keyUse' \in [Key -> Nat]
  BY <1>6 DEF RemoveTunnels
<1>9. KeysCounted'
  BY <1>6, <1>7 DEF KeysCounted
<1>10. keyLast' \in [Key -> [server : Server \cup {NoServer}, at : Nat]]
  <2>1. ASSUME NEW k \in Key, TunnelsOnKey(k) \cap S # {}
        PROVE  (CHOOSE s \in TunnelsOnKey(k) \cap S : TRUE) \in Server
    BY <2>1 DEF TunnelsOnKey, Pooled
  <2>2. now \in Nat
    BY DEF PoolTypeOK
  <2> QED
    BY <2>1, <2>2 DEF RemoveTunnels, PoolTypeOK
<1>11. OneTunnelPerKey'
  <2>1. Cardinality(Pooled \ S) <= Cardinality(Pooled) /\ Cardinality(Pooled \ S) \in Nat
    BY PooledFinite, FS_Subset, FS_CardinalityType
  <2>2. limits.max \in Nat /\ Cardinality(Pooled) \in Nat
    BY PooledFinite DEF PoolTypeOK
  <2> QED
    BY <1>1, <1>2, <2>1, <2>2 DEF OneTunnelPerKey, KeysApart
<1> QED
  BY <1>1, <1>3, <1>4, <1>5, <1>8, <1>9, <1>10, <1>11

(* The pool lends a tunnel out, gets it back or waits: nothing in it moves. *)
LEMMA LendingSound ==
    ASSUME PoolInv, UNCHANGED <<limits, tunnels, keyUse, keyLast, opening>>, now' \in Nat,
           tun' \in [Tunnel -> TunnelRecord],
           \A t \in Tunnel : ~tun[t].closed =>
               tun'[t].server = tun[t].server /\ tun'[t].key = tun[t].key /\ ~tun'[t].closed
    PROVE  PoolInv'
<1> USE DEF PoolInv
<1>1. Pooled' = Pooled /\ Key' = Key /\ Free' = Free
  BY DEF Pooled, Key, Free
<1>2. \A s \in Pooled : /\ tunnels'[s] = tunnels[s]
                        /\ tun'[tunnels[s]].server = tun[tunnels[s]].server
                        /\ tun'[tunnels[s]].key = tun[tunnels[s]].key
                        /\ ~tun'[tunnels[s]].closed
  BY PooledHandles DEF PooledOpen
<1>3. \A k : TunnelsOnKey(k)' = TunnelsOnKey(k)
  BY <1>1, <1>2 DEF TunnelsOnKey
<1>4. PoolTypeOK'
  BY <1>1 DEF PoolTypeOK
<1>5. PooledOpen'
  BY <1>1, <1>2 DEF PooledOpen
<1>6. KeysCounted'
  BY <1>1, <1>3 DEF KeysCounted
<1>7. OpeningSound'
  BY <1>1 DEF OpeningSound, RoomAndKey, KeysSuffice
<1>8. OneTunnelPerKey'
  BY <1>1, <1>2 DEF OneTunnelPerKey, KeysApart
<1> QED
  BY <1>4, <1>5, <1>6, <1>7, <1>8

LEMMA UsedRecord ==
    ASSUME PoolTypeOK, NEW t \in Tunnel, Use(t)
    PROVE  /\ tun' \in [Tunnel -> TunnelRecord]
           /\ \A u \in Tunnel : /\ tun'[u].server = tun[u].server /\ tun'[u].key = tun[u].key
                                /\ tun'[u].closed = tun[u].closed
<1> DEFINE used == [tun[t] EXCEPT !.active = tun[t].active + 1, !.lastUsed = now]
<1>1. tun \in [Tunnel -> TunnelRecord] /\ now \in Nat
  BY DEF PoolTypeOK
<1>2. tun[t].active + 1 \in Nat
  BY <1>1 DEF TunnelRecord
<1>3. tun' = [tun EXCEPT ![t] = used]
  BY <1>1 DEF Use
<1>4. used \in TunnelRecord /\ used.server = tun[t].server /\ used.key = tun[t].key /\ used.closed = tun[t].closed
  BY <1>1, <1>2 DEF TunnelRecord
<1> HIDE DEF used
<1> QED
  BY <1>1, <1>3, <1>4

LEMMA ReleasedRecord ==
    ASSUME PoolTypeOK, NEW t \in Tunnel, Release(t)
    PROVE  /\ tun' \in [Tunnel -> TunnelRecord]
           /\ \A u \in Tunnel : ~tun[u].closed =>
                  /\ tun'[u].server = tun[u].server /\ tun'[u].key = tun[u].key /\ ~tun'[u].closed
<1> DEFINE left == [tun[t] EXCEPT !.active = tun[t].active - 1, !.lastUsed = now]
<1>1. tun \in [Tunnel -> TunnelRecord] /\ now \in Nat
  BY DEF PoolTypeOK
<1>2. tun[t].active - 1 \in Nat
  BY <1>1 DEF TunnelRecord, Release
<1>3. tun' = [tun EXCEPT ![t] = IF tun[t].closed /\ tun[t].active = 1 THEN Gone ELSE left]
  BY <1>1 DEF Release, Left
<1>4. left \in TunnelRecord /\ left.server = tun[t].server /\ left.key = tun[t].key /\ left.closed = tun[t].closed
  BY <1>1, <1>2 DEF TunnelRecord
<1>5. Gone \in TunnelRecord
  BY DEF Gone, NoKey, TunnelRecord
<1> HIDE DEF left
<1> QED
  BY <1>1, <1>3, <1>4, <1>5

LEMMA InitSound ==
    ASSUME NEW settings \in Settings, PoolInit(settings)
    PROVE  PoolInv
<1> USE DEF PoolInit, Settings
<1>1. Pooled = {}
  BY DEF Pooled
<1>2. PoolTypeOK
  BY DEF PoolTypeOK, Key, NoPlace, Gone, NoKey, TunnelRecord, Free
<1>3. \A k : TunnelsOnKey(k) = {}
  BY <1>1 DEF TunnelsOnKey
<1>4. Cardinality({}) = 0
  BY FS_EmptySet
<1>5. KeysCounted
  BY <1>3, <1>4 DEF KeysCounted, Key
<1>6. OneTunnelPerKey
  BY <1>1, <1>4 DEF OneTunnelPerKey, KeysApart
<1> QED
  BY <1>1, <1>2, <1>5, <1>6 DEF PoolInv, PooledOpen, OpeningSound

-----------------------------------------------------------------------------
(* The choice of a key, once there is room for one more tunnel.            *)
LEMMA BeginOpenSound ==
    ASSUME PoolInv, NEW c \in Caller, NEW s \in Server, BeginOpen(c, s)
    PROVE  PoolInv'
<1> USE DEF PoolInv
<1>1. PICK V \in Victims(s) : RemoveTunnels(V \cup ({s} \cap Pooled))
  BY DEF BeginOpen
<1>2. s \notin Pooled
  BY DEF BeginOpen, Usable, Pooled, PooledOpen
<1>3. V \in SUBSET Pooled /\ {s} \cap Pooled = {} /\ RemoveTunnels(V)
  <2>1. V \in SUBSET Pooled
    BY DEF Victims, Unused
  <2>2. {s} \cap Pooled = {} /\ V \cup ({s} \cap Pooled) = V
    BY <1>2
  <2> QED
    BY <1>1, <2>1, <2>2
<1>4. limits' = limits /\ now' = now /\ Key' = Key
  BY DEF BeginOpen, Key
<1>5. /\ Pooled' = Pooled \ V
      /\ tunnels' \in [Server -> Tunnel \cup {NoTunnel}]
      /\ tun' \in [Tunnel -> TunnelRecord]
      /\ keyUse' \in [Key -> Nat]
      /\ keyLast' \in [Key -> [server : Server \cup {NoServer}, at : Nat]]
      /\ PooledOpen' /\ KeysCounted' /\ OneTunnelPerKey'
  BY <1>3, <1>4, RemovalSound
<1>6. opening' \in [by : Caller, server : {s}, key : Key \cup {NoKey}]
  BY DEF BeginOpen
<1>7. PoolTypeOK'
  <2>1. Key \cup {NoKey} \subseteq Nat
    BY DEF Key, NoKey, PoolTypeOK
  <2>2. opening' \in [by : Caller \cup {Nobody}, server : Server \cup {NoServer}, key : Nat]
    BY <1>6, <2>1
  <2> QED
    BY <1>4, <1>5, <2>2 DEF PoolTypeOK
<1>8. ASSUME KeysSuffice
      PROVE  /\ Cardinality(Pooled') < limits.max
             /\ opening'.key \in Key /\ keyUse'[opening'.key] = 0
  <2>1. limits.max \in Nat /\ limits.keys \in Nat /\ limits.max > 0 /\ limits.max <= limits.keys
    BY <1>8 DEF KeysSuffice, PoolTypeOK
  <2>2. IsFiniteSet(Pooled) /\ Cardinality(Pooled) \in Nat /\ Cardinality(Pooled) <= limits.max
    BY <1>8, PooledFinite DEF KeysSuffice, OneTunnelPerKey, KeysApart
  <2>3. Pooled \ {s} = Pooled
    BY <1>2
  <2>4. Cardinality(Pooled') < limits.max
    <3>1. CASE Full(s)
      <4>1. PICK v \in Pooled : V = {v}
        BY <3>1 DEF Victims, Unused
      <4>2. Cardinality(Pooled \ {v}) = Cardinality(Pooled) - 1
        BY <4>1, <2>2, FS_RemoveElement
      <4> QED
        BY <1>5, <2>1, <2>2, <4>1, <4>2
    <3>2. CASE ~Full(s)
      <4>1. V = {}
        BY <3>2 DEF Victims
      <4> QED
        BY <1>5, <2>1, <2>2, <2>3, <3>2, <4>1 DEF Full
    <3> QED
      BY <3>1, <3>2
  <2>5. IsFiniteSet(Pooled') /\ Cardinality(Pooled') \in Nat
    BY <1>5, <2>2, FS_Difference, FS_CardinalityType
  <2>6. PICK k \in Key : keyUse'[k] = 0
    <3> DEFINE keyOf == [r \in Pooled' |-> tun'[tunnels'[r]].key]
    <3>1. Cardinality(Pooled') < limits.keys
      BY <2>1, <2>4, <2>5
    <3>2. \A k \in 1 .. limits.keys : keyUse'[k] # 0 => \E r \in Pooled' : keyOf[r] = k
      <4>1. ASSUME NEW k \in Key, keyUse'[k] # 0 PROVE TunnelsOnKey(k)' # {}
        BY <1>4, <1>5, <4>1, FS_EmptySet DEF KeysCounted
      <4> QED
        BY <4>1 DEF TunnelsOnKey, Key
    <3> HIDE DEF keyOf
    <3> QED
      BY <2>1, <2>5, <3>1, <3>2, SomeKeyFree DEF Key
  <2>7. PICK i \in Key : PickedKey(keyUse', keyLast', s, i) /\ opening' = [by |-> c, server |-> s, key |-> i]
    BY <2>6 DEF BeginOpen
  <2> QED
    BY <1>5, <2>4, <2>6, <2>7, PickedIsFree
<1>9. OpeningSound'
  BY <1>2, <1>4, <1>5, <1>6, <1>8 DEF OpeningSound, RoomAndKey, KeysSuffice
<1> QED
  BY <1>5, <1>7, <1>9

(* The new tunnel joins the pool, on the key that was kept for it.         *)
LEMMA OpenSucceedsSound ==
    ASSUME PoolInv, NEW c \in Caller, NEW t \in Tunnel, OpenSucceeds(c, t)
    PROVE  PoolInv'
<1> USE DEF PoolInv
<1> PICK s, k : s = opening.server /\ k = opening.key
  OBVIOUS
<1>1. opening # Free /\ s \in Server \ Pooled /\ k \in Nat
  BY PoolAssumption DEF OpenSucceeds, Free, OpeningSound, PoolTypeOK
<1>2. tun[t] = Gone /\ \A r \in Pooled : tunnels[r] # t
  BY DEF OpenSucceeds, FreshTunnel, PooledOpen, Gone
<1>3. limits' = limits /\ now' = now /\ Key' = Key /\ opening' = Free /\ Free' = Free
  BY DEF OpenSucceeds, Key, Free
<1>4. /\ tunnels' = [tunnels EXCEPT ![s] = t]
      /\ tun' = [tun EXCEPT ![t] = [server |-> s, key |-> k, active |-> 1, closed |-> FALSE, lastUsed |-> now]]
  BY DEF OpenSucceeds
<1>5. Pooled' = Pooled \cup {s} /\ tunnels'[s] = t
  BY <1>1, <1>4, PoolAssumption DEF Pooled, PoolTypeOK
<1>6. \A r \in Pooled : tunnels'[r] = tunnels[r] /\ tun'[tunnels[r]] = tun[tunnels[r]]
  BY <1>1, <1>2, <1>4, PooledHandles DEF PoolTypeOK
<1>7. tun'[t] = [server |-> s, key |-> k, active |-> 1, closed |-> FALSE, lastUsed |-> now]
  BY <1>4 DEF PoolTypeOK
<1>8. PooledOpen'
  BY <1>5, <1>6, <1>7 DEF PooledOpen
<1>9. PoolTypeOK'
  <2>1. tunnels' \in [Server -> Tunnel \cup {NoTunnel}]
    BY <1>4 DEF PoolTypeOK
  <2>2. tun' \in [Tunnel -> TunnelRecord]
    BY <1>1, <1>4 DEF PoolTypeOK, TunnelRecord
  <2>3. keyUse' \in [Key -> Nat]
    BY DEF OpenSucceeds, PoolTypeOK
  <2>4. keyLast' \in [Key -> [server : Server \cup {NoServer}, at : Nat]]
    BY <1>1 DEF OpenSucceeds, PoolTypeOK
  <2> QED
    BY <1>3, <2>1, <2>2, <2>3, <2>4 DEF PoolTypeOK, Free, NoKey
<1>10. KeysCounted'
  <2>1. ASSUME NEW i \in Key, i # k PROVE TunnelsOnKey(i)' = TunnelsOnKey(i)
    BY <1>5, <1>6, <1>7, <2>1 DEF TunnelsOnKey
  <2>2. TunnelsOnKey(k)' = TunnelsOnKey(k) \cup {s} /\ s \notin TunnelsOnKey(k)
    BY <1>1, <1>5, <1>6, <1>7 DEF TunnelsOnKey
  <2>3. Cardinality(TunnelsOnKey(k) \cup {s}) = Cardinality(TunnelsOnKey(k)) + 1
    BY <2>2, PooledFinite, FS_AddElement
  <2>4. keyUse' = [i \in Key |-> IF i = k THEN keyUse[i] + 1 ELSE keyUse[i]]
    BY DEF OpenSucceeds
  <2> QED
    BY <1>3, <2>1, <2>2, <2>3, <2>4 DEF KeysCounted
<1>11. OneTunnelPerKey'
  <2>1. SUFFICES ASSUME KeysSuffice
                 PROVE  /\ Cardinality(Pooled') <= limits.max
                        /\ \A q, r \in Pooled' : tun'[tunnels'[q]].key = tun'[tunnels'[r]].key => q = r
    BY <1>3 DEF OneTunnelPerKey, KeysApart, KeysSuffice
  <2>2. RoomAndKey /\ KeysApart
    BY <1>1, <2>1 DEF OpeningSound, OneTunnelPerKey, KeysSuffice
  <2>3. Cardinality(Pooled') <= limits.max
    <3>1. Cardinality(Pooled') = Cardinality(Pooled) + 1 /\ Cardinality(Pooled) \in Nat
      BY <1>1, <1>5, PooledFinite, FS_AddElement
    <3> QED
      BY <2>2, <3>1 DEF RoomAndKey, PoolTypeOK
  <2>4. TunnelsOnKey(k) = {}
    BY <2>2, PooledFinite, FS_EmptySet DEF RoomAndKey, KeysCounted
  <2>5. \A r \in Pooled : tun[tunnels[r]].key # k
    BY <2>4 DEF TunnelsOnKey
  <2> QED
    BY <1>5, <1>6, <1>7, <2>2, <2>3, <2>5 DEF KeysApart
<1>12. OpeningSound'
  BY <1>3 DEF OpeningSound
<1> QED
  BY <1>8, <1>9, <1>10, <1>11, <1>12

LEMMA OpenFailsSound ==
    ASSUME PoolInv, NEW c \in Caller, OpenFails(c)
    PROVE  PoolInv'
<1> USE DEF PoolInv
<1>1. Pooled' = Pooled /\ Key' = Key /\ Free' = Free /\ \A k : TunnelsOnKey(k)' = TunnelsOnKey(k)
  BY DEF OpenFails, Pooled, Key, Free, TunnelsOnKey
<1>2. PoolTypeOK' /\ OpeningSound'
  BY <1>1 DEF OpenFails, PoolTypeOK, Free, NoKey, OpeningSound
<1>3. PooledOpen' /\ KeysCounted' /\ OneTunnelPerKey'
  BY <1>1 DEF OpenFails, PooledOpen, KeysCounted, OneTunnelPerKey, KeysApart
<1> QED
  BY <1>2, <1>3

(* What forget, reap and closeAll have in common.                          *)
LEMMA ClosingSound ==
    ASSUME PoolInv, NEW S \in SUBSET Pooled, MutexFree, RemoveTunnels(S),
           UNCHANGED <<limits, opening, now>>
    PROVE  PoolInv'
<1>1. Key' = Key /\ Free' = Free
  BY DEF Key, Free
<1>2. PoolTypeOK'
  BY <1>1, RemovalSound DEF PoolTypeOK, PoolInv
<1>3. OpeningSound'
  BY <1>1 DEF OpeningSound, MutexFree
<1> QED
  BY <1>2, <1>3, RemovalSound DEF PoolInv

LEMMA StepSound ==
    ASSUME PoolInv, [PoolNext]_poolVars
    PROVE  PoolInv'
<1> USE DEF PoolInv
<1>1. now \in Nat /\ tun \in [Tunnel -> TunnelRecord]
  BY DEF PoolTypeOK
<1>2. CASE UNCHANGED poolVars
  BY <1>1, <1>2, LendingSound DEF poolVars
<1>3. ASSUME NEW s \in Server, Reuse(s), UNCHANGED restOfPool PROVE PoolInv'
  <2>1. tunnels[s] \in Tunnel /\ Use(tunnels[s])
    BY <1>3 DEF Reuse, Usable, PoolTypeOK
  <2> QED
    BY <1>1, <1>3, <2>1, UsedRecord, LendingSound DEF restOfPool
<1>4. ASSUME NEW t \in Tunnel, Use(t) \/ Release(t), UNCHANGED restOfPool PROVE PoolInv'
  BY <1>1, <1>4, UsedRecord, ReleasedRecord, LendingSound DEF restOfPool
<1>5. ASSUME NEW s \in Server, Forget(s) PROVE PoolInv'
  <2>1. {s} \cap Pooled \in SUBSET Pooled
    OBVIOUS
  <2> QED
    BY <1>5, <2>1, ClosingSound DEF Forget
<1>6. CASE Reap
  <2>1. Expired \in SUBSET Pooled
    BY DEF Expired
  <2> QED
    BY <1>6, <2>1, ClosingSound DEF Reap
<1>7. CASE CloseAll
  <2>1. Pooled \in SUBSET Pooled
    OBVIOUS
  <2> QED
    BY <1>7, <2>1, ClosingSound DEF CloseAll
<1>8. CASE Tick
  BY <1>1, <1>8, LendingSound DEF Tick
<1> QED
  BY <1>2, <1>3, <1>4, <1>5, <1>6, <1>7, <1>8, BeginOpenSound, OpenSucceedsSound, OpenFailsSound DEF PoolNext

(* Whatever the pool's users make it do: keyUse is what is open on each    *)
(* key, and where max_tunnels is no more than the keys, no two tunnels of  *)
(* the pool share one, and there are no more of them than max_tunnels.     *)
THEOREM KeysAlwaysApart ==
    ASSUME NEW CONSTANT settings \in Settings
    PROVE  PoolSpec(settings) => [](KeysCounted /\ OneTunnelPerKey)
<1>1. PoolInit(settings) => PoolInv
  BY InitSound
<1>2. PoolInv /\ [PoolNext]_poolVars => PoolInv'
  BY StepSound
<1>3. PoolInv => KeysCounted /\ OneTunnelPerKey
  BY DEF PoolInv
<1> QED
  BY <1>1, <1>2, <1>3, PTL DEF PoolSpec
=============================================================================
