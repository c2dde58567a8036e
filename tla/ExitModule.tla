----------------------------- MODULE ExitModule -----------------------------
(***************************************************************************)
(* Connections through an exit (modules/exits/module.go): each call picks  *)
(* the exit's server, takes its tunnel from the pool in use, makes sure of *)
(* a handshake, and looks a name up or dials; a server whose tunnel fails  *)
(* is benched, its tunnel forgotten, and the call tried once more on the   *)
(* next choice.                                                            *)
(*                                                                         *)
(* The network is a bounded adversary: `faults' counts the servers that    *)
(* fail, destinations that do not answer and callers that give up.         *)
(***************************************************************************)
EXTENDS ExitSelection, Outbound

CONSTANTS
    WaitLimit,      \* tunnelWait
    Addresses,      \* what each caller's host resolves to, or the one it is
    MaxFaults       \* bound

ASSUME ModuleAssumption ==
    WaitLimit \in Nat /\ MaxFaults \in Nat /\ Addresses \in [Caller -> Seq(Address)]

Attempts == 2

VARIABLES
    call,           \* what each caller's dial is doing
    faults

moduleVars == <<call, faults>>

\* phases: pick, get (pool.get, waiting included),
\* open (holds the pool's mutex), handshake, operate, bench and forget
\* (reportFailure), leave (the deferred release); idle when there is none,
\* and connected, refused, unavailable when it has returned.
Phase == {"idle", "pick", "get", "open", "handshake", "operate", "bench", "forget",
          "leave", "connected", "refused", "unavailable"}

NoCall == [phase |-> "idle", exit |-> "", op |-> "lookup", attempt |-> 1, server |-> NoServer,
           tunnel |-> NoTunnel, deadline |-> 0, outcome |-> "", cancelled |-> FALSE,
           tried |-> 0, lost |-> FALSE]

ModuleTypeOK ==
    \A c \in Caller :
        /\ call[c].phase \in Phase /\ call[c].op \in {"lookup", "dial"}
        /\ call[c].attempt \in 1 .. Attempts
        /\ call[c].server \in Server \cup {NoServer} /\ call[c].tunnel \in Tunnel \cup {NoTunnel}
        /\ call[c].outcome \in {"", "ok", "failed", "again"}
        /\ call[c].tried \in 0 .. Len(Addresses[c])

ModuleInit == call = [c \in Caller |-> NoCall] /\ faults = 0

Fault     == faults < MaxFaults /\ faults' = faults + 1
NoFault   == UNCHANGED faults
To(c, p)  == call' = [call EXCEPT ![c].phase = p]
GaveUp(c) == call[c].cancelled

(* Mutant: one attempt too many.                                           *)
NextAttemptTooMany(r) ==
    IF r.attempt <= Attempts THEN [r EXCEPT !.phase = "pick", !.attempt = @ + 1, !.tunnel = NoTunnel, !.outcome = ""]
    ELSE [r EXCEPT !.phase = "unavailable", !.tunnel = NoTunnel, !.outcome = ""]

(* After an attempt that counts against its server.                        *)
NextAttempt(r) ==
    IF r.attempt < Attempts THEN [r EXCEPT !.phase = "pick", !.attempt = @ + 1, !.tunnel = NoTunnel, !.outcome = ""]
    ELSE [r EXCEPT !.phase = "unavailable", !.tunnel = NoTunnel, !.outcome = ""]

(* module.Dialer: asked for the exit's dialer, the module fails at once    *)
(* when no server can be used.                                             *)
HasDialer(e) == \E s \in Server : Pick(e, s)

PickServer(c) ==
    /\ call[c].phase = "pick"
    /\ \/ NoneToPick(call[c].exit) /\ To(c, "unavailable") /\ UNCHANGED choice
       \/ \E s \in Server :
            /\ Pick(call[c].exit, s)
            /\ call' = [call EXCEPT ![c].phase = "get", ![c].server = s, ![c].deadline = Min({now + WaitLimit, MaxTime})]
    /\ UNCHANGED <<poolVars, config, servers, health, list, faults>>

(* pool.get: an open tunnel, one more, or a wait for room, which may last  *)
(* until the clock of the model stops at the latest.                       *)
GetOpen(c) ==
    /\ call[c].phase = "get"
    /\ Reuse(call[c].server)
    /\ call' = [call EXCEPT ![c].phase = "handshake", ![c].tunnel = tunnels[call[c].server]]
    /\ UNCHANGED <<restOfPool, selectionVars, faults>>

GetByOpening(c) ==
    /\ call[c].phase = "get"
    /\ BeginOpen(c, call[c].server)
    /\ To(c, "open")
    /\ UNCHANGED <<selectionVars, faults>>

GetNothing(c) ==
    /\ call[c].phase = "get" /\ NoRoom(call[c].server)
    /\ \/ now >= call[c].deadline /\ To(c, "unavailable")
       \/ now < call[c].deadline /\ GaveUp(c) /\ To(c, "bench")
    /\ UNCHANGED <<poolVars, selectionVars, faults>>

OpenTunnel(c) ==
    /\ call[c].phase = "open"
    /\ \/ \E t \in Tunnel : /\ OpenSucceeds(c, t)
                            /\ call' = [call EXCEPT ![c].phase = "handshake", ![c].tunnel = t]
                            /\ NoFault
       \/ OpenFails(c) /\ To(c, "bench") /\ (IF GaveUp(c) THEN NoFault ELSE Fault)
    /\ UNCHANGED selectionVars

(* attempt: awaitHandshake, then the operation; whatever comes of it, the  *)
(* use the pool handed over is given back last.                            *)
Leaving(c, outcome) == call' = [call EXCEPT ![c].phase = "leave", ![c].outcome = outcome]

AwaitHandshake(c) ==
    /\ call[c].phase = "handshake"
    /\ \/ To(c, "operate") /\ NoFault
       \/ GaveUp(c) /\ Leaving(c, "failed") /\ NoFault
       \/ tun[call[c].tunnel].closed /\ To(c, "bench") /\ NoFault      \* errTunnelShut
       \/ To(c, "bench") /\ Fault                                      \* the server does not answer
    /\ UNCHANGED <<poolVars, selectionVars>>

(* Mutant: the dialled connection does not count as a use of its tunnel.   *)
OperateUncounted(c) ==
    LET t == call[c].tunnel IN
    /\ call[c].phase = "operate"
    /\ \/ /\ ~tun[t].closed /\ RecordSuccess(call[c].server) /\ Leaving(c, "ok") /\ NoFault /\ UNCHANGED tun
       \/ /\ \/ tun[t].closed /\ NoFault
             \/ Fault
             \/ GaveUp(c) /\ NoFault
          /\ Leaving(c, "failed") \/ (~GaveUp(c) /\ To(c, "bench"))
          /\ UNCHANGED <<health, tun>>
    /\ UNCHANGED <<restOfPool, config, servers, choice, list>>

(* A connection is a use of the tunnel of its own; a shut tunnel takes no  *)
(* new one.  A failure with a fresh handshake is the destination's.        *)
Operate(c) ==
    LET t == call[c].tunnel IN
    /\ call[c].phase = "operate"
    /\ \/ /\ ~tun[t].closed
          /\ IF call[c].op = "dial" THEN Use(t) ELSE UNCHANGED tun
          /\ RecordSuccess(call[c].server) /\ Leaving(c, "ok") /\ NoFault
       \/ /\ \/ tun[t].closed /\ NoFault
             \/ Fault
             \/ GaveUp(c) /\ NoFault
          /\ Leaving(c, "failed") \/ (~GaveUp(c) /\ To(c, "bench"))
          /\ UNCHANGED <<health, tun>>
    /\ UNCHANGED <<restOfPool, config, servers, choice, list>>

(* reportFailure: the server is benched, then its tunnel dropped, whoever  *)
(* else is using it.                                                       *)
Bench(c) ==
    /\ call[c].phase = "bench"
    /\ RecordFailure(call[c].server)
    /\ To(c, "forget")
    /\ UNCHANGED <<poolVars, config, servers, choice, list, faults>>

AfterForget(r) ==
    IF r.tunnel = NoTunnel THEN NextAttempt(r) ELSE [r EXCEPT !.phase = "leave", !.outcome = "again"]

ForgetFailed(c) ==
    /\ call[c].phase = "forget"
    /\ Forget(call[c].server)
    /\ call' = [call EXCEPT ![c] = AfterForget(call[c])]
    /\ UNCHANGED <<selectionVars, faults>>

(* guardedDial: the host's addresses are dialled one after the other, each *)
(* a call of its own, until one answers.                                   *)
Dialling(c, r) ==
    IF r.tried < Cardinality(Candidates(Addresses[c]))
    THEN [r EXCEPT !.phase = "pick", !.op = "dial", !.attempt = 1, !.tunnel = NoTunnel, !.outcome = "",
                   !.tried = @ + 1]
    ELSE [r EXCEPT !.phase = "refused", !.op = "dial", !.tunnel = NoTunnel, !.outcome = ""]

(* ErrDestinationBlocked: the host has only addresses it may not have.     *)
Blocked(c) == call[c].op = "dial" /\ AllBlocked(Addresses[c])

AfterAttempt(c, r) ==
    CASE r.outcome = "again" -> NextAttempt(r)
      [] r.outcome = "failed" -> [r EXCEPT !.phase = "refused", !.tunnel = NoTunnel, !.outcome = ""]
      [] r.outcome = "ok" /\ r.op = "lookup" -> Dialling(c, r)
      [] OTHER -> [r EXCEPT !.phase = "connected", !.outcome = ""]

Leave(c) ==
    /\ call[c].phase = "leave"
    /\ Release(call[c].tunnel)
    /\ call' = [call EXCEPT ![c] = AfterAttempt(c, call[c])]
    /\ UNCHANGED <<restOfPool, selectionVars, faults>>

MoreToTry(c) ==
    call[c].op = "dial" /\ call[c].tried < Cardinality(Candidates(Addresses[c])) /\ ~GaveUp(c)

NextAddress(c) ==
    /\ call[c].phase \in {"refused", "unavailable"} /\ MoreToTry(c)
    /\ call' = [call EXCEPT ![c] =
            [Dialling(c, call[c]) EXCEPT !.lost = call[c].lost \/ call[c].phase = "unavailable"]]
    /\ UNCHANGED <<poolVars, selectionVars, faults>>

(* The caller's context ends: given up, or out of time.                    *)
GiveUp(c) ==
    /\ call[c].phase # "idle" /\ ~GaveUp(c) /\ Fault
    /\ call' = [call EXCEPT ![c].cancelled = TRUE]
    /\ UNCHANGED <<poolVars, selectionVars>>

CallStep(c) ==
    \/ PickServer(c) \/ GetOpen(c) \/ GetByOpening(c) \/ GetNothing(c) \/ OpenTunnel(c)
    \/ AwaitHandshake(c) \/ Operate(c) \/ Bench(c) \/ ForgetFailed(c) \/ Leave(c)
    \/ NextAddress(c)

(* Who uses a tunnel: calls on it, from the pool's handing it over until   *)
(* they leave, and open connections.                                       *)
OnCall(t) == {c \in Caller : call[c].tunnel = t /\ call[c].phase \in
                                {"handshake", "operate", "bench", "forget", "leave"}}
=============================================================================
