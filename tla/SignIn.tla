------------------------------- MODULE SignIn --------------------------------
(***************************************************************************)
(* Signing in to the web UI: browsers that sign in step by step, use their *)
(* sessions and change their account, and the console that adds, resets    *)
(* and deletes users.  A request loads the user's row, and later saves the *)
(* whole of its copy; each use of the database is a step of its own.       *)
(***************************************************************************)
EXTENDS SignInRows

CONSTANTS
    Browsers,      \* each has an address and its cookies
    FirstUsers,    \* the user at first, or none
    MaxRequests,   \* bounds: requests, and commands on the console
    MaxCommands

ASSUME SignInAssumption ==
    /\ IsFiniteSet(Browsers) /\ "user" \notin Browsers
    /\ FirstUsers \subseteq Users \cup {NoUser} /\ \A u \in FirstUsers : Sound(u)
    /\ \A u \in FirstUsers \ {NoUser} :    \* with the first number, if any
          u.secret <= 1 /\ u.pending <= 1 /\ (u.pending # 0 => u.pending # u.secret)
    /\ MaxRequests \in Nat /\ MaxCommands \in Nat

VARIABLES
    user,       \* the user's row, or NoUser
    tokens,     \* the tokens, by their number
    made,       \* how many users, secrets and tokens there have been
    now,
    failures,   \* the limiter's
    request,    \* of each browser
    cookie,     \* numbers of the tokens a browser holds
    console,    \* the command being run
    begun,      \* requests and commands so far
    codes,      \* codes accepted so far
    twice,      \* whether one was accepted twice
    stale       \* whether a copy was saved over a row changed since

vars == <<user, tokens, made, now, failures, request, cookie, console, begun, codes, twice, stale>>

Tokens == 1 .. MaxTokens

Keys == Browsers \cup {"user"}

Limit(key) == IF key = "user" THEN LimitPerUser ELSE LimitPerIP

Requests ==
    [ phase  : {"idle", "password", "choose", "code", "consume", "next", "issue", "record",
                "touch", "account", "change", "end", "save"},
      read   : Users \cup {NoUser},    \* the row as it was loaded
      copy   : Users \cup {NoUser},    \* what the request made of it
      token  : 0 .. MaxTokens,
      steps  : SUBSET Scopes,          \* left to take
      needed : SUBSET Scopes, passed : SUBSET Scopes,
      at     : 0 .. MaxTime,
      due    : BOOLEAN,                \* the session's use is recorded
      code   : CodeSteps \cup {0} ]    \* confirmed, to be recorded as accepted

Idle ==
    [ phase |-> "idle", read |-> NoUser, copy |-> NoUser, token |-> 0, steps |-> {},
      needed |-> {}, passed |-> {}, at |-> 0, due |-> FALSE, code |-> 0 ]

Commands == [phase : {"idle", "save", "end"}, read : Users \cup {NoUser}, copy : Users \cup {NoUser}]

NoCommand == [phase |-> "idle", read |-> NoUser, copy |-> NoUser]

Init ==
    /\ user \in FirstUsers
    /\ tokens = [t \in Tokens |-> NoToken]
    /\ made = [users |-> 1, secrets |-> 1, tokens |-> 0]
    /\ now = 1
    /\ failures = [k \in Keys |-> <<>>]
    /\ request = [b \in Browsers |-> Idle]
    /\ cookie = [b \in Browsers |-> [session |-> 0, signin |-> 0]]
    /\ console = NoCommand
    /\ begun = [requests |-> 0, commands |-> 0]
    /\ codes = IF user # NoUser /\ user.enabled THEN {<<user.secret, user.last>>} ELSE {}
    /\ twice = FALSE /\ stale = FALSE

Tick ==
    /\ now < MaxTime
    /\ now' = now + 1
    /\ UNCHANGED <<user, tokens, made, failures, request, cookie, console, begun, codes, twice, stale>>

BeginRequest == begun.requests < MaxRequests /\ begun' = [begun EXCEPT !.requests = @ + 1]

To(b, r) == request' = [request EXCEPT ![b] = r]

(* A request that fails, or whose client is gone.                          *)
GiveUp(b) ==
    /\ request[b].phase # "idle"
    /\ To(b, Idle)
    /\ UNCHANGED <<user, tokens, made, now, failures, cookie, console, begun, codes, twice, stale>>

-----------------------------------------------------------------------------
(* UpdateUser: the whole row, of a user who is still there.                *)

There(row) == user # NoUser /\ row # NoUser /\ user.id = row.id

Save(read, row) ==
    /\ There(row)
    /\ user' = row
    /\ stale' = (stale \/ user # read)

Accepted(secret, step) ==
    /\ codes' = codes \cup {<<secret, step>>}
    /\ twice' = (twice \/ <<secret, step>> \in codes)

NewToken == made.tokens + 1

(* DeleteUserTokens, and what deleting a user does to the tokens.          *)
TokensWithout(id) ==
    [t \in Tokens |-> IF tokens[t] # NoToken /\ tokens[t].user = id THEN NoToken ELSE tokens[t]]

(* The token of a cookie, if there still is one.                           *)
Held(number) ==
    IF number # 0 /\ tokens[number] # NoToken THEN tokens[number] ELSE NoToken

-----------------------------------------------------------------------------
(* SignIn.                                                                 *)

SignInStart(b) ==
    /\ request[b].phase = "idle" /\ BeginRequest
    /\ ~Blocked(failures["user"], Limit("user"), now) /\ ~Blocked(failures[b], Limit(b), now)
    /\ To(b, [Idle EXCEPT !.phase = "password", !.read = user, !.copy = user, !.at = now])
    /\ UNCHANGED <<user, tokens, made, now, failures, cookie, console, codes, twice, stale>>

(* failed: of the name and of the address.                                 *)
CountFailure(b) ==
    failures' = [failures EXCEPT !["user"] = Failed(@, request[b].at),
                                 ![b] = Failed(@, request[b].at)]

(* A wrong password, or a wrong code; with no such user always.            *)
Wrong(b) ==
    /\ request[b].phase \in {"password", "code"}
    /\ CountFailure(b)
    /\ To(b, Idle)
    /\ UNCHANGED <<user, tokens, made, now, cookie, console, begun, codes, twice, stale>>

RightPassword(b) ==
    /\ request[b].phase = "password" /\ request[b].copy # NoUser
    /\ ~PasswordExpired(request[b].copy, request[b].at)
    /\ failures' = [failures EXCEPT !["user"] = <<>>]
    /\ To(b, [request[b] EXCEPT !.phase = "next", !.steps = Steps(request[b].copy),
                                !.needed = Steps(request[b].copy)])
    /\ UNCHANGED <<user, tokens, made, now, cookie, console, begun, codes, twice, stale>>

-----------------------------------------------------------------------------
(* The steps after the password, each with the sign-in token of the last.  *)

Step(b, t, phase, scope) ==
    To(b, [Idle EXCEPT !.phase = phase, !.read = user, !.copy = user, !.token = cookie[b].signin,
                       !.steps = t.scopes \ {scope}, !.needed = t.needed,
                       !.passed = t.passed \cup {scope}, !.at = now])

SetPassword(b) ==
    /\ request[b].phase = "idle" /\ BeginRequest
    /\ LET t == Held(cookie[b].signin)
       IN  AllowsStep(t, "set-password", now) /\ Step(b, t, "choose", "set-password")
    /\ UNCHANGED <<user, tokens, made, now, failures, cookie, console, codes, twice, stale>>

ChoosePassword(b) ==
    /\ request[b].phase = "choose"
    /\ LET row == WithOwnPassword(request[b].copy)
       IN  /\ Save(request[b].read, row)
           /\ To(b, [request[b] EXCEPT !.phase = "consume", !.read = row, !.copy = row])
    /\ UNCHANGED <<tokens, made, now, failures, cookie, console, begun, codes, twice>>

(* Mutant: a code may be entered before the password is chosen.            *)
AllowsCodeAnyTime(t) == AllowsStep(t, "totp", now)

(* Choosing a password comes first.                                        *)
AllowsCode(t) == AllowsStep(t, "totp", now) /\ "set-password" \notin t.scopes

VerifyTOTP(b) ==
    /\ request[b].phase = "idle" /\ BeginRequest
    /\ LET t == Held(cookie[b].signin)
       IN  AllowsCode(t) /\ Step(b, [t EXCEPT !.scopes = {"totp"}], "code", "totp")
    /\ ~Blocked(failures["user"], Limit("user"), now) /\ ~Blocked(failures[b], Limit(b), now)
    /\ UNCHANGED <<user, tokens, made, now, failures, cookie, console, codes, twice, stale>>

RightCode(b) ==
    /\ request[b].phase = "code" /\ request[b].copy.secret # 0
    /\ \E step \in Matching(request[b].at, request[b].copy.last) :
          LET row == [request[b].copy EXCEPT !.last = step]
          IN  /\ Save(request[b].read, row)
              /\ Accepted(row.secret, step)
              /\ To(b, [request[b] EXCEPT !.phase = "consume", !.read = row, !.copy = row])
    /\ UNCHANGED <<tokens, made, now, failures, cookie, console, begun>>

Consume(b) ==
    /\ request[b].phase = "consume"
    /\ tokens' = [tokens EXCEPT ![request[b].token] = NoToken]
    /\ To(b, [request[b] EXCEPT !.phase = "next"])
    /\ UNCHANGED <<user, made, now, failures, cookie, console, begun, codes, twice, stale>>

-----------------------------------------------------------------------------
(* next: a token for the steps left, or the session.                       *)

(* Mutant: the answer to a request already is a token's, steps or not.     *)
StepsLeftOrNot(r) == r.phase = "next"

StepsLeft(r) == r.phase = "next" /\ r.steps # {}

IssueToken(b) ==
    /\ StepsLeft(request[b])
    /\ There(request[b].copy) /\ NewToken <= MaxTokens
    /\ tokens' = [tokens EXCEPT ![NewToken] =
                    SignInToken(user.id, request[b].steps, request[b].needed,
                                request[b].passed, now)]
    /\ made' = [made EXCEPT !.tokens = NewToken]
    /\ cookie' = [cookie EXCEPT ![b].signin = NewToken]
    /\ To(b, Idle)
    /\ UNCHANGED <<user, now, failures, console, begun, codes, twice, stale>>

DeleteExpired(b) ==
    /\ request[b].phase = "next" /\ request[b].steps = {}
    /\ tokens' = [t \in Tokens |-> IF Expired(tokens[t], now) THEN NoToken ELSE tokens[t]]
    /\ To(b, [request[b] EXCEPT !.phase = "issue", !.at = now])
    /\ UNCHANGED <<user, made, now, failures, cookie, console, begun, codes, twice, stale>>

IssueSession(b) ==
    /\ request[b].phase = "issue"
    /\ There(request[b].copy) /\ NewToken <= MaxTokens
    /\ tokens' = [tokens EXCEPT ![NewToken] =
                    Session(user.id, request[b].needed, request[b].passed, request[b].at, now)]
    /\ made' = [made EXCEPT !.tokens = NewToken]
    /\ To(b, [request[b] EXCEPT !.phase = "record", !.token = NewToken])
    /\ UNCHANGED <<user, now, failures, cookie, console, begun, codes, twice, stale>>

(* LastSignInAt is saved with the whole row; then the browser is told.     *)
RecordSignIn(b) ==
    /\ request[b].phase = "record"
    /\ Save(request[b].read, request[b].copy)
    /\ cookie' = [cookie EXCEPT ![b] = [session |-> request[b].token, signin |-> 0]]
    /\ To(b, Idle)
    /\ UNCHANGED <<tokens, made, now, failures, console, begun, codes, twice>>

-----------------------------------------------------------------------------
(* A request with a session: Session, and what the browser came for.       *)

Authenticate(b) ==
    /\ request[b].phase = "idle" /\ BeginRequest
    /\ LET t == Held(cookie[b].session)
       IN  /\ SessionValid(t, now)
           /\ To(b, [Idle EXCEPT !.phase = "touch", !.copy = user, !.token = cookie[b].session,
                                 !.at = now, !.due = TouchDue(t, now)])
    /\ UNCHANGED <<user, tokens, made, now, failures, cookie, console, codes, twice, stale>>

(* TouchToken changes a token that is still there.                         *)
Touch(b) ==
    /\ request[b].phase = "touch"
    /\ tokens' = IF request[b].due /\ Held(request[b].token) # NoToken
                 THEN [tokens EXCEPT ![request[b].token] = Touched(tokens[request[b].token], request[b].at)]
                 ELSE tokens
    /\ To(b, [request[b] EXCEPT !.phase = "account", !.due = FALSE])
    /\ UNCHANGED <<user, made, now, failures, cookie, console, begun, codes, twice, stale>>

SignOut(b) ==
    /\ request[b].phase = "account"
    /\ tokens' = [tokens EXCEPT ![request[b].token] = NoToken]
    /\ cookie' = [cookie EXCEPT ![b].session = 0]
    /\ To(b, Idle)
    /\ UNCHANGED <<user, made, now, failures, console, begun, codes, twice, stale>>

(* The account page's forms load the row of the session's user again.      *)
Load(b, phase, row, code) ==
    /\ request[b].phase = "account" /\ There(request[b].copy)
    /\ To(b, [request[b] EXCEPT !.phase = phase, !.read = user, !.copy = row, !.code = code])

ChangePassword(b) ==
    /\ Load(b, "change", WithOwnPassword(user), 0)
    /\ UNCHANGED <<user, tokens, made, now, failures, cookie, console, begun, codes, twice, stale>>

SavePassword(b) ==
    /\ request[b].phase = "change"
    /\ Save(request[b].read, request[b].copy)
    /\ To(b, [request[b] EXCEPT !.phase = "end", !.read = request[b].copy])
    /\ UNCHANGED <<tokens, made, now, failures, cookie, console, begun, codes, twice>>

(* Every session ends, and this browser gets a new one.                    *)
EndSessions(b) ==
    /\ request[b].phase = "end"
    /\ tokens' = TokensWithout(request[b].copy.id)
    /\ To(b, [request[b] EXCEPT !.phase = "next", !.token = 0])
    /\ UNCHANGED <<user, made, now, failures, cookie, console, begun, codes, twice, stale>>

(* A secret that is pending already is shown again.                        *)
BeginTOTP(b) ==
    /\ user # NoUser /\ user.pending = 0 /\ made.secrets < MaxSecrets
    /\ Load(b, "save", [user EXCEPT !.pending = made.secrets + 1], 0)
    /\ made' = [made EXCEPT !.secrets = @ + 1]
    /\ UNCHANGED <<user, tokens, now, failures, cookie, console, begun, codes, twice, stale>>

ConfirmTOTP(b) ==
    /\ user # NoUser /\ user.pending # 0
    /\ \E step \in Matching(now, 0) : Load(b, "save", WithTOTP(user, step), step)
    /\ UNCHANGED <<user, tokens, made, now, failures, cookie, console, begun, codes, twice, stale>>

DisableTOTP(b) ==
    /\ user # NoUser /\ Load(b, "save", WithoutTOTP(user), 0)
    /\ UNCHANGED <<user, tokens, made, now, failures, cookie, console, begun, codes, twice, stale>>

SaveAccount(b) ==
    /\ request[b].phase = "save"
    /\ Save(request[b].read, request[b].copy)
    /\ IF request[b].code # 0 THEN Accepted(request[b].copy.secret, request[b].code)
       ELSE UNCHANGED <<codes, twice>>
    /\ To(b, Idle)
    /\ UNCHANGED <<tokens, made, now, failures, cookie, console, begun>>

-----------------------------------------------------------------------------
(* The console, a process of its own.                                      *)

BeginCommand ==
    /\ console.phase = "idle" /\ begun.commands < MaxCommands
    /\ begun' = [begun EXCEPT !.commands = @ + 1]

AddUser ==
    /\ BeginCommand /\ user = NoUser /\ made.users < MaxUsers
    /\ user' = NewUser(made.users + 1, now)
    /\ made' = [made EXCEPT !.users = @ + 1]
    /\ UNCHANGED <<tokens, now, failures, request, cookie, console, codes, twice, stale>>

(* ResetPassword or ResetTOTP.                                             *)
Reset ==
    /\ BeginCommand /\ user # NoUser
    /\ \E row \in {WithOneTimePassword(user, now), WithoutTOTP(user)} :
          console' = [phase |-> "save", read |-> user, copy |-> row]
    /\ UNCHANGED <<user, tokens, made, now, failures, request, cookie, codes, twice, stale>>

SaveReset ==
    /\ console.phase = "save"
    /\ \/ Save(console.read, console.copy) /\ console' = [console EXCEPT !.phase = "end"]
       \/ ~There(console.copy) /\ console' = NoCommand /\ UNCHANGED <<user, stale>>
    /\ UNCHANGED <<tokens, made, now, failures, request, cookie, begun, codes, twice>>

EndReset ==
    /\ console.phase = "end"
    /\ tokens' = TokensWithout(console.copy.id)
    /\ console' = NoCommand
    /\ UNCHANGED <<user, made, now, failures, request, cookie, begun, codes, twice, stale>>

(* The tokens go with their user.                                          *)
DeleteUser ==
    /\ BeginCommand /\ user # NoUser
    /\ user' = NoUser
    /\ tokens' = TokensWithout(user.id)
    /\ UNCHANGED <<made, now, failures, request, cookie, console, codes, twice, stale>>

-----------------------------------------------------------------------------
Next ==
    \/ Tick
    \/ \E b \in Browsers :
          \/ GiveUp(b)
          \/ SignInStart(b) \/ Wrong(b) \/ RightPassword(b)
          \/ SetPassword(b) \/ ChoosePassword(b) \/ VerifyTOTP(b) \/ RightCode(b) \/ Consume(b)
          \/ IssueToken(b) \/ DeleteExpired(b) \/ IssueSession(b) \/ RecordSignIn(b)
          \/ Authenticate(b) \/ Touch(b) \/ SignOut(b)
          \/ ChangePassword(b) \/ SavePassword(b) \/ EndSessions(b)
          \/ BeginTOTP(b) \/ ConfirmTOTP(b) \/ DisableTOTP(b) \/ SaveAccount(b)
    \/ AddUser \/ Reset \/ SaveReset \/ EndReset \/ DeleteUser

Spec == Init /\ [][Next]_vars

-----------------------------------------------------------------------------
TypeOK ==
    /\ user \in Users \cup {NoUser}
    /\ tokens \in [Tokens -> SignInTokens \cup Sessions \cup {NoToken}]
    /\ made \in [users : 0 .. MaxUsers, secrets : 0 .. MaxSecrets, tokens : 0 .. MaxTokens]
    /\ now \in Times
    /\ failures \in [Keys -> Seq(Times)]
    /\ request \in [Browsers -> Requests]
    /\ cookie \in [Browsers -> [session : 0 .. MaxTokens, signin : 0 .. MaxTokens]]
    /\ console \in Commands
    /\ begun \in [requests : 0 .. MaxRequests, commands : 0 .. MaxCommands]
    /\ codes \subseteq (1 .. MaxSecrets) \X CodeSteps
    /\ twice \in BOOLEAN /\ stale \in BOOLEAN

(* Every save writes a whole row, from a copy that may be of any age.      *)
(* Still the row is always one signing in can work with (Sound).           *)
UserSound == Sound(user)

(* No token outlives its user: whatever was under way when a user was      *)
(* deleted, and added again, leaves none behind.                           *)
TokensHaveUser == \A t \in Tokens : tokens[t] # NoToken => user # NoUser /\ tokens[t].user = user.id

(* A session ends after SessionIdle without use, and SessionMax after it   *)
(* began, however late a use of it is recorded.                            *)
SessionsEnd ==
    \A t \in Tokens :
        tokens[t].kind = "session" =>
            /\ tokens[t].expires <= tokens[t].used + SessionIdle
            /\ tokens[t].expires <= tokens[t].created + SessionMax

(* The three together: what the rows promise whoever reads them.           *)
SessionsSound == UserSound /\ TokensHaveUser /\ SessionsEnd

(* A session is only ever issued to a sign-in that has taken every step    *)
(* its password left; and a token on the way there allows exactly those    *)
(* steps that are left, whichever order and however often a browser sends  *)
(* its requests.                                                           *)
EveryStepTaken ==
    \A t \in Tokens :
        /\ tokens[t].kind = "session" => tokens[t].needed \subseteq tokens[t].passed
        /\ tokens[t].kind = "sign-in" => tokens[t].scopes = tokens[t].needed \ tokens[t].passed

(* A code is accepted once, as matchTOTP says; except that a request may   *)
(* save its copy over a row another has changed since it was loaded.       *)
CodeUsedOnce == stale \/ ~twice

(* The limiter is asked before a password is checked and told afterwards:  *)
(* the failures it counts pass the limit by no more than the requests that *)
(* were under way when it was reached.                                     *)
FailuresBounded ==
    \A key \in Keys :
        Len(Recent(failures[key], now)) < Limit(key) + Cardinality(Browsers)
=============================================================================
