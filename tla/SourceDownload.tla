--------------------------- MODULE SourceDownload ---------------------------
(***************************************************************************)
(* An episode's audio asked for through an exit (episodes/source.go,       *)
(* resume.go, pipeline.fetch; outbound.Manager's clients): its URL is a    *)
(* chain of tracking redirects, of which dead ones are stepped over; a     *)
(* request without a response is sent once more; a connection that breaks  *)
(* is carried on from where it broke, if what the host sends is the rest   *)
(* of the same file.                                                       *)
(*                                                                         *)
(* `host' is the audio's host: the file it serves now and, once that has   *)
(* mattered, how it identifies files.  It follows RFC 9110 on Range and    *)
(* If-Range.  A file is as long as Size says, in reads.                    *)
(***************************************************************************)
EXTENDS ExitModule

CONSTANTS
    Hops,               \* URLs in each chain: trackers, then the audio
    MaxSkipped,         \* maxSkippedTrackers
    MaxResumes,         \* maxResumes
    SkipTrackers,       \* pipeline.options.SkipTrackers
    Size,               \* of each version of the file
    Asked,              \* the exit each caller's download asks for, "" for none
    Named               \* callers whose hosts are names, to be looked up

VARIABLES
    fetch,              \* each caller's download
    idle,               \* keep-alive connections per exit's client, per tunnel
    host

ExitOf(c) == ExitFor(Asked[c])

(* Requests that leave by the host's own network are not part of the model. *)
ASSUME DownloadAssumption ==
    /\ \A c \in Caller : ExitOf(c) = Direct => DisableDirect
    /\ Hops \in [Caller -> Nat \ {0}] /\ MaxSkipped \in Nat /\ MaxResumes \in Nat
    /\ 1 \in DOMAIN Size /\ \A version \in DOMAIN Size : Size[version] \in Nat

downloadVars == <<fetch, idle, host>>
Version == DOMAIN Size

NoFetch == [stage |-> "rest", target |-> 1, resent |-> FALSE, skipped |-> 0,
            total |-> 0, of |-> 0, read |-> 0, resumes |-> 0, parts |-> {}, then |-> "rest"]

Stages == {"rest", "asking", "reading", "resuming", "closing", "done", "failed"}

DownloadTypeOK ==
    /\ \A c \in Caller : /\ fetch[c].stage \in Stages /\ fetch[c].target \in 1 .. Hops[c]
                         /\ fetch[c].parts \subseteq Version /\ fetch[c].resumes \in 0 .. MaxResumes
    /\ \A e \in Exits : idle[e] \in [Tunnel -> Nat]

DownloadInit ==
    /\ fetch = [c \in Caller |-> NoFetch]
    /\ idle = [e \in Exits |-> [t \in Tunnel |-> 0]]
    /\ host = [version |-> 1, ident |-> "?"]

(* A connection is open from the dial that made it until it is closed.     *)
Connected(c) == call[c].phase = "connected"

Ended(c, stage) ==
    /\ fetch' = [fetch EXCEPT ![c] = [NoFetch EXCEPT !.stage = stage, !.parts = fetch[c].parts, !.read = fetch[c].read, !.of = fetch[c].of]]
    /\ call' = [call EXCEPT ![c] = NoCall]

Hangup(c) == Release(call[c].tunnel) /\ UNCHANGED restOfPool

(* Manager.Client: no client for an exit there is none of.                 *)
Begin(c) ==
    /\ fetch[c].stage = "rest"
    /\ IF ~ClientRefused(Asked[c], Exits)
       THEN /\ fetch' = [fetch EXCEPT ![c].stage = "asking", ![c].target = IF SkipTrackers THEN Hops[c] ELSE 1]
            /\ UNCHANGED call
       ELSE Ended(c, "failed")
    /\ UNCHANGED <<poolVars, selectionVars, faults, idle, host>>

(* client.Do: on an idle connection of the exit's client, or a new one,    *)
(* which guardedDial makes: it looks the host up, then dials its address.  *)
Send(c) ==
    /\ fetch[c].stage \in {"asking", "resuming"} /\ call[c].phase = "idle"
    /\ \/ /\ call' = [call EXCEPT ![c] =
                LET new == [NoCall EXCEPT !.phase = "pick", !.exit = ExitOf(c)] IN
                IF NoneToPick(ExitOf(c)) THEN [new EXCEPT !.phase = "unavailable"]
                ELSE IF c \in Named THEN new ELSE Dialling(c, new)]
          /\ HasDialer(ExitOf(c)) \/ (NoneToPick(ExitOf(c)) /\ UNCHANGED choice)
          /\ UNCHANGED idle
       \/ \E t \in Tunnel :
            /\ idle[ExitOf(c)][t] > 0
            /\ idle' = [idle EXCEPT ![ExitOf(c)][t] = @ - 1]
            /\ call' = [call EXCEPT ![c] = [NoCall EXCEPT !.phase = "connected", !.exit = ExitOf(c), !.tunnel = t]]
            /\ UNCHANGED choice
    /\ UNCHANGED <<poolVars, config, servers, health, list, faults, fetch, host>>

(* requestSource, after a request to the chain failed at one of its URLs:  *)
(* the next URL of the chain is asked, if there is one.                    *)
SkipFrom(c, failedAt) ==
    IF failedAt < Hops[c] /\ fetch[c].skipped < MaxSkipped
    THEN /\ fetch' = [fetch EXCEPT ![c].stage = "asking", ![c].target = failedAt + 1, ![c].resent = FALSE, ![c].skipped = @ + 1]
         /\ call' = [call EXCEPT ![c] = NoCall]
    ELSE Ended(c, "failed")

CloseIdleThen(c, stage) ==
    /\ fetch' = [fetch EXCEPT ![c].stage = "closing", ![c].then = stage, ![c].resent = TRUE]
    /\ call' = [call EXCEPT ![c] = NoCall]

(* requestOnce: without a response, once more on a new connection.         *)
NoResponse(c) ==
    IF fetch[c].stage = "resuming" \/ GaveUp(c) THEN Ended(c, "failed")
    ELSE IF ~fetch[c].resent THEN CloseIdleThen(c, "asking")
    ELSE \E at \in fetch[c].target .. Hops[c] : SkipFrom(c, at)

(* The exit itself could not be used for one of the addresses, none of     *)
(* them may be dialled, or the destination did not answer.                 *)
CallFails(c) ==
    /\ ~MoreToTry(c)
    /\ \/ call[c].phase = "unavailable" /\ Ended(c, "failed")
       \/ /\ call[c].phase = "refused"
          /\ IF call[c].lost \/ Blocked(c) THEN Ended(c, "failed") ELSE NoResponse(c)
    /\ UNCHANGED <<poolVars, selectionVars, faults, idle, host>>

ConnectionDies(c) ==
    /\ Connected(c) /\ fetch[c].stage \in {"asking", "resuming"}
    /\ (IF GaveUp(c) THEN NoFault ELSE Fault)
    /\ Hangup(c) /\ NoResponse(c)
    /\ UNCHANGED <<selectionVars, idle, host>>

(* A dead tracker: an answer that accept refuses.                          *)
BadAnswer(c) ==
    /\ Connected(c) /\ fetch[c].stage = "asking" /\ ~GaveUp(c) /\ Fault
    /\ Hangup(c) /\ \E at \in fetch[c].target .. Hops[c] : SkipFrom(c, at)
    /\ UNCHANGED <<selectionVars, idle, host>>

(* newResumingBody: the total, and the version the validators stand for.   *)
Answer(c) ==
    /\ Connected(c) /\ fetch[c].stage = "asking"
    /\ fetch' = [fetch EXCEPT ![c].stage = "reading", ![c].total = Size[host.version], ![c].of = host.version]
    /\ UNCHANGED <<poolVars, selectionVars, moduleVars, idle, host>>

(* resumingBody.Read: data, the end of the file, or a break.               *)
ReadSome(c) ==
    /\ Connected(c) /\ fetch[c].stage = "reading" /\ fetch[c].read < fetch[c].total
    /\ ~GaveUp(c)
    /\ fetch' = [fetch EXCEPT ![c].read = @ + 1, ![c].parts = @ \cup {fetch[c].of}]
    /\ UNCHANGED <<poolVars, selectionVars, moduleVars, idle, host>>

Finish(c) ==
    /\ Connected(c) /\ fetch[c].stage = "reading" /\ fetch[c].read = fetch[c].total
    /\ idle' = [idle EXCEPT ![ExitOf(c)][call[c].tunnel] = @ + 1]
    /\ Ended(c, "done")
    /\ UNCHANGED <<poolVars, selectionVars, faults, host>>

Resumable(c) == ~GaveUp(c) /\ fetch[c].read < fetch[c].total /\ fetch[c].resumes < MaxResumes

Break(c) ==
    /\ Connected(c) /\ fetch[c].stage = "reading"
    /\ (IF GaveUp(c) THEN NoFault ELSE Fault)
    /\ Hangup(c)
    /\ IF Resumable(c)
       THEN /\ fetch' = [fetch EXCEPT ![c].stage = "closing", ![c].then = "resuming", ![c].resumes = @ + 1]
            /\ call' = [call EXCEPT ![c] = NoCall]
       ELSE Ended(c, "failed")
    /\ UNCHANGED <<selectionVars, idle, host>>

(* resume: what the host answers to the Range, and checkRest.  With a      *)
(* validator in If-Range the host sends the rest only of the same file;    *)
(* otherwise the ETag and the total are all there is to tell by.           *)
SendsRest(c, ident) == ident \in {"strong", "date"} => host.version = fetch[c].of

(* Mutant: any partial answer is taken for the rest.                       *)
IsAnyRest(c, ident) == SendsRest(c, ident) /\ Size[host.version] = fetch[c].total

IsRest(c, ident) ==
    /\ SendsRest(c, ident)
    /\ ident \in {"strong", "weak"} => host.version = fetch[c].of
    /\ Size[host.version] = fetch[c].total

Idents == {"strong", "weak", "date", "none"}

Resume(c) ==
    /\ Connected(c) /\ fetch[c].stage = "resuming"
    /\ \E ident \in Idents : host.ident \in {"?", ident} /\ host' = [host EXCEPT !.ident = ident]
    /\ IF IsRest(c, host'.ident)
       THEN /\ fetch' = [fetch EXCEPT ![c].stage = "reading", ![c].of = host.version]
            /\ UNCHANGED <<poolVars, call>>
       ELSE Hangup(c) /\ Ended(c, "failed")
    /\ UNCHANGED <<selectionVars, faults, idle>>

(* CloseIdleConnections, one connection after the other; and the client's  *)
(* IdleConnTimeout.                                                        *)
DropIdle(e, t) ==
    /\ idle[e][t] > 0 /\ idle' = [idle EXCEPT ![e][t] = @ - 1]
    /\ Release(t) /\ UNCHANGED restOfPool

CloseIdle(c) ==
    /\ fetch[c].stage = "closing"
    /\ IF \E t \in Tunnel : idle[ExitOf(c)][t] > 0
       THEN (\E t \in Tunnel : DropIdle(ExitOf(c), t)) /\ UNCHANGED fetch
       ELSE fetch' = [fetch EXCEPT ![c].stage = fetch[c].then] /\ UNCHANGED <<poolVars, idle>>
    /\ UNCHANGED <<selectionVars, moduleVars, host>>

IdleTimesOut ==
    /\ \E e \in Exits, t \in Tunnel : DropIdle(e, t)
    /\ UNCHANGED <<selectionVars, moduleVars, fetch, host>>

HostChanges ==
    /\ host.version + 1 \in Version /\ host' = [host EXCEPT !.version = @ + 1]
    /\ UNCHANGED <<poolVars, selectionVars, moduleVars, fetch, idle>>

FetchStep(c) ==
    \/ Begin(c) \/ Send(c) \/ CallFails(c) \/ ConnectionDies(c) \/ BadAnswer(c) \/ Answer(c)
    \/ ReadSome(c) \/ Finish(c) \/ Break(c) \/ Resume(c) \/ CloseIdle(c)
=============================================================================
