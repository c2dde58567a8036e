----------------------------- MODULE SignInRows ------------------------------
(***************************************************************************)
(* The rows signing in works on, and what the service computes from them:  *)
(* a user, the tokens issued to it, and the failed attempts the limiter    *)
(* counts.  Time is counted in the steps of authenticator codes, from 1;   *)
(* 0 stands for no time, no user, no secret.  Of a password only matters   *)
(* whether it is a one-time one from the console.                          *)
(***************************************************************************)
EXTENDS Naturals, Sequences, FiniteSets

CONSTANTS
    Skew,              \* steps either side of now a code may be of
    SignInLifetime, SessionIdle, SessionMax, OneTimeLifetime, TouchEvery,
    LimitWindow, LimitPerUser, LimitPerIP,
    MaxTime, MaxUsers, MaxSecrets, MaxTokens   \* bounds

ASSUME RowsAssumption ==
    /\ {Skew, SignInLifetime, SessionIdle, SessionMax, OneTimeLifetime, TouchEvery} \subseteq Nat
    /\ SessionIdle <= SessionMax
    /\ OneTimeLifetime > 0
    /\ {LimitWindow, LimitPerUser, LimitPerIP} \subseteq Nat \ {0}
    /\ {MaxTime, MaxUsers, MaxSecrets} \subseteq Nat \ {0} /\ MaxTokens \in Nat

Times == 1 .. MaxTime

(* A code is of one secret and one step.                                   *)
CodeSteps == 1 .. MaxTime + Skew

Users ==
    [ id      : 1 .. MaxUsers,
      must    : BOOLEAN,                      \* MustChangePassword
      expires : Nat,                          \* of a one-time password, else 0
      enabled : BOOLEAN,                      \* asks for codes
      secret  : 0 .. MaxSecrets,
      pending : 0 .. MaxSecrets,              \* being set up
      last    : CodeSteps \cup {0} ]          \* step of the last code accepted

NoUser == [id |-> 0]

Scopes == {"set-password", "totp"}

(* needed and passed are no columns: the steps the sign-in that led to the *)
(* token had to take, and those it has taken.                              *)
SignInTokens ==
    [ kind : {"sign-in"}, user : 1 .. MaxUsers, scopes : (SUBSET Scopes) \ {{}},
      expires : Nat, created : Times, used : Times,
      needed : SUBSET Scopes, passed : SUBSET Scopes ]

Sessions ==
    [ kind : {"session"}, user : 1 .. MaxUsers, scopes : {{"ui"}},
      expires : Nat, created : Times, used : Times,
      needed : SUBSET Scopes, passed : SUBSET Scopes ]

NoToken == [kind |-> "none"]

-----------------------------------------------------------------------------
(* Users.                                                                  *)

WithOneTimePassword(u, now) == [u EXCEPT !.must = TRUE, !.expires = now + OneTimeLifetime]

WithOwnPassword(u) == [u EXCEPT !.must = FALSE, !.expires = 0]

WithoutTOTP(u) == [u EXCEPT !.enabled = FALSE, !.secret = 0, !.pending = 0, !.last = 0]

WithTOTP(u, step) ==
    [u EXCEPT !.enabled = TRUE, !.secret = u.pending, !.pending = 0, !.last = step]

NewUser(id, now) ==
    WithOneTimePassword([ id |-> id, must |-> TRUE, expires |-> 0, enabled |-> FALSE,
                          secret |-> 0, pending |-> 0, last |-> 0 ], now)

(* A row signing in can work with asks for codes exactly when it has a     *)
(* secret to check them with and remembers a step; and its password        *)
(* expires exactly when it is a one-time one.                              *)
Sound(u) ==
    u # NoUser =>
        /\ u.enabled <=> u.secret # 0
        /\ u.enabled <=> u.last # 0
        /\ u.must <=> u.expires # 0

PasswordExpired(u, now) == u.expires # 0 /\ now > u.expires

(* The steps a right password leaves.                                      *)
Steps(u) ==
    (IF u.must THEN {"set-password"} ELSE {}) \cup (IF u.enabled THEN {"totp"} ELSE {})

(* Mutant: the step of the last code is accepted again.                    *)
MatchingAgain(now, last) == {s \in CodeSteps : s + Skew >= now /\ s <= now + Skew /\ s >= last}

(* matchTOTP: the steps whose codes are accepted.                          *)
Matching(now, last) == {s \in CodeSteps : s + Skew >= now /\ s <= now + Skew /\ s > last}

-----------------------------------------------------------------------------
(* Tokens.                                                                 *)

SignInToken(user, scopes, needed, passed, now) ==
    [ kind |-> "sign-in", user |-> user, scopes |-> scopes, expires |-> now + SignInLifetime,
      created |-> now, used |-> now, needed |-> needed, passed |-> passed ]

(* at is when the sign-in got here, now when the token is made.            *)
Session(user, needed, passed, at, now) ==
    [ kind |-> "session", user |-> user, scopes |-> {"ui"}, expires |-> at + SessionIdle,
      created |-> now, used |-> now, needed |-> needed, passed |-> passed ]

AllowsStep(t, scope, now) == t.kind = "sign-in" /\ now <= t.expires /\ scope \in t.scopes

SessionValid(t, now) ==
    t.kind = "session" /\ now <= t.expires /\ now <= t.created + SessionMax

TouchDue(t, now) == now >= t.used + TouchEvery

(* Mutant: a session that is used lasts for ever.                          *)
TouchedForEver(t, at) == [t EXCEPT !.used = at, !.expires = at + SessionIdle]

Touched(t, at) ==
    [t EXCEPT !.used = at,
              !.expires = IF at + SessionIdle > t.created + SessionMax
                          THEN t.created + SessionMax ELSE at + SessionIdle]

Expired(t, now) == t # NoToken /\ t.expires < now

-----------------------------------------------------------------------------
(* The limiter: for each key the times of its failures.                    *)

Recent(times, now) ==
    LET kept[i \in 0 .. Len(times)] ==
            IF i = 0 THEN <<>>
            ELSE IF now < times[i] + LimitWindow THEN Append(kept[i - 1], times[i]) ELSE kept[i - 1]
    IN  kept[Len(times)]

(* Mutant: one failure more than the limit is let through.                 *)
BlockedLate(times, limit, now) == Len(Recent(times, now)) > limit

Blocked(times, limit, now) == Len(Recent(times, now)) >= limit

Failed(times, at) == Append(Recent(times, at), at)
=============================================================================
