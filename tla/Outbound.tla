------------------------------ MODULE Outbound ------------------------------
(***************************************************************************)
(* What outbound.Manager decides before a request reaches an exit          *)
(* (outbound/outbound.go, dial.go): which exit it leaves by, and which of  *)
(* the host's addresses may be dialled.                                    *)
(***************************************************************************)
EXTENDS Integers, Sequences

CONSTANTS
    DefaultExit,    \* options.DefaultExit, "" when there is none
    DisableDirect,
    AllowPrivate    \* AllowPrivateDestinations

Direct == "direct"

(* An address is of the dialled network's family or not, public or not.    *)
Address == [fits : BOOLEAN, public : BOOLEAN]

(* New: the exits of the providers, and direct unless it is off.  A default *)
(* must be one of them, and with direct off there must be one.             *)
Available(exits) == exits \cup (IF DisableDirect THEN {} ELSE {Direct})

ManagerAccepted(exits) ==
    /\ Direct \notin exits
    /\ DisableDirect => DefaultExit # ""
    /\ DefaultExit # "" => DefaultExit \in Available(exits)

(* Client, DefaultExit                                                     *)
ExitFor(asked) ==
    IF asked # "" THEN asked ELSE IF DefaultExit # "" THEN DefaultExit ELSE Direct

ClientRefused(asked, exits) == ExitFor(asked) \notin Available(exits)

(* guardedDial, matchesNetwork, isPublic: which of the addresses to try.   *)
Candidates(addresses) ==
    {i \in 1 .. Len(addresses) : addresses[i].fits /\ (AllowPrivate \/ addresses[i].public)}

AllBlocked(addresses) ==
    Candidates(addresses) = {} /\ \E i \in 1 .. Len(addresses) : addresses[i].fits
=============================================================================
