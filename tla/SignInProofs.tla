---------------------------- MODULE SignInProofs ----------------------------
(***************************************************************************)
(* What signing in promises, for any number of browsers, tokens and users  *)
(* and any settings of its times: no session without every step the        *)
(* password left, no session that outlasts its limits or its user, never a *)
(* row signing in cannot work with, no more failures than the limiter      *)
(* means to let through, and no code accepted twice.                       *)
(*                                                                         *)
(* Requests hold copies of the row and go on from tokens, so the invariant *)
(* is about the copies and the tokens as much as about the row: every copy *)
(* is sound whatever its age, and what a request or a token still allows   *)
(* is exactly what its sign-in has not passed yet.                         *)
(*                                                                         *)
(* The last two have an invariant of their own, further down: the failures *)
(* counted together with the requests that may still fail stay below the   *)
(* limit and their number; and what will be saved is made of the row it    *)
(* was loaded from, so that while that row is the user's still, no code of *)
(* its secret is past its last, and no pending secret has had any.         *)
(***************************************************************************)
EXTENDS SignIn, TLAPS, WellFoundedInduction, FiniteSetTheorems

Rows    == {u \in Users \cup {NoUser} : Sound(u)}
Written == Rows \ {NoUser}

Commanded == [phase : {"idle", "save", "end"}, read : Rows, copy : Rows]

Asking ==
    {r \in Requests : /\ r.read \in Rows /\ r.copy \in Rows
                      /\ r.steps = r.needed \ r.passed
                      /\ r.phase # "idle" => r.at # 0
                      /\ r.phase = "password" => r.passed = {}
                      /\ r.phase \in {"issue", "record"} => r.steps = {}}

OnTheWay == {t \in SignInTokens : t.scopes = t.needed \ t.passed}

SignedIn ==
    {t \in Sessions : /\ t.needed \subseteq t.passed
                      /\ t.expires <= t.used + SessionIdle
                      /\ t.expires <= t.created + SessionMax}

RowsOK ==
    /\ user \in Rows /\ console \in Commanded /\ now \in Times
    /\ made \in [users : 0 .. MaxUsers, secrets : 0 .. MaxSecrets, tokens : 0 .. MaxTokens]
    /\ cookie \in [Browsers -> [session : 0 .. MaxTokens, signin : 0 .. MaxTokens]]

RequestsOK == request \in [Browsers -> Asking] /\ \A b \in Browsers : request[b].at <= now

TokensOK == tokens \in [Tokens -> OnTheWay \cup SignedIn \cup {NoToken}] /\ TokensHaveUser

SignInInv == RowsOK /\ RequestsOK /\ TokensOK

-----------------------------------------------------------------------------
(* What is made of a row is sound, and the same user's.                    *)
LEMMA NumbersTyped ==
    /\ Skew \in Nat /\ SignInLifetime \in Nat /\ SessionIdle \in Nat /\ SessionMax \in Nat
    /\ OneTimeLifetime \in Nat /\ OneTimeLifetime > 0 /\ TouchEvery \in Nat
    /\ SessionIdle <= SessionMax
    /\ MaxTime \in Nat /\ MaxUsers \in Nat /\ MaxSecrets \in Nat /\ MaxTokens \in Nat
BY RowsAssumption

LEMMA NoUserIsARow == NoUser \in Rows /\ NoUser \notin Users
BY NumbersTyped DEF Rows, NoUser, Sound, Users

LEMMA RowFields ==
    ASSUME NEW u \in Written
    PROVE  /\ u \in Users /\ Sound(u) /\ u # NoUser
           /\ u.id \in 1 .. MaxUsers /\ u.expires \in Nat /\ u.secret \in 0 .. MaxSecrets
           /\ u.pending \in 0 .. MaxSecrets /\ u.last \in CodeSteps \cup {0}
           /\ u.must \in BOOLEAN /\ u.enabled \in BOOLEAN
BY DEF Written, Rows, Users

LEMMA PasswordRows ==
    ASSUME NEW u \in Written, NEW at \in Nat
    PROVE  /\ WithOwnPassword(u) \in Written /\ WithOwnPassword(u).id = u.id
           /\ WithOneTimePassword(u, at) \in Written /\ WithOneTimePassword(u, at).id = u.id
<1>1. at + OneTimeLifetime \in Nat /\ at + OneTimeLifetime # 0
  BY NumbersTyped
<1>2. u \in Users /\ Sound(u) /\ u # NoUser
  BY RowFields
<1>3. WithOwnPassword(u) \in Users /\ Sound(WithOwnPassword(u)) /\ WithOwnPassword(u).id = u.id
  BY <1>2 DEF WithOwnPassword, Users, Sound
<1>4. WithOneTimePassword(u, at) \in Users /\ Sound(WithOneTimePassword(u, at)) /\ WithOneTimePassword(u, at).id = u.id
  BY <1>1, <1>2 DEF WithOneTimePassword, Users, Sound
<1> QED
  BY <1>3, <1>4, NoUserIsARow DEF Written, Rows

LEMMA StepIsNumber == \A step \in CodeSteps : step \in Nat /\ step # 0
BY NumbersTyped DEF CodeSteps

LEMMA TOTPColumns ==
    ASSUME NEW u \in Users, NEW enabled \in BOOLEAN, NEW secret \in 0 .. MaxSecrets,
           NEW pending \in 0 .. MaxSecrets, NEW last \in CodeSteps \cup {0}
    PROVE  [u EXCEPT !.enabled = enabled, !.secret = secret, !.pending = pending, !.last = last] \in Users
BY DEF Users

LEMMA TOTPRows ==
    ASSUME NEW u \in Written
    PROVE  /\ WithoutTOTP(u) \in Written /\ WithoutTOTP(u).id = u.id
           /\ \A step \in CodeSteps : u.pending # 0 =>
                  WithTOTP(u, step) \in Written /\ WithTOTP(u, step).id = u.id
           /\ \A secret \in 0 .. MaxSecrets :
                  [u EXCEPT !.pending = secret] \in Written /\ [u EXCEPT !.pending = secret].id = u.id
           /\ \A step \in CodeSteps : u.secret # 0 =>
                  [u EXCEPT !.last = step] \in Written /\ [u EXCEPT !.last = step].id = u.id
<1>0. 0 \in 0 .. MaxSecrets
  BY NumbersTyped
<1>1. u \in Users /\ Sound(u) /\ u # NoUser
  BY RowFields
<1>2. WithoutTOTP(u) \in Users /\ Sound(WithoutTOTP(u)) /\ WithoutTOTP(u).id = u.id
  <2> PICK v : v = WithoutTOTP(u)
    OBVIOUS
  <2>1. v \in Users
    BY <1>1, <1>0, TOTPColumns DEF WithoutTOTP
  <2>2. v.id = u.id /\ v.enabled = FALSE /\ v.secret = 0 /\ v.last = 0
    BY <1>1 DEF WithoutTOTP, Users
  <2>3. (v.must <=> u.must) /\ v.expires = u.expires
    BY <1>1 DEF WithoutTOTP, Users
  <2> QED
    BY <1>1, <2>1, <2>2, <2>3 DEF Sound
<1>3. ASSUME NEW step \in CodeSteps, u.pending # 0
      PROVE  WithTOTP(u, step) \in Users /\ Sound(WithTOTP(u, step)) /\ WithTOTP(u, step).id = u.id
  <2> PICK v : v = WithTOTP(u, step)
    OBVIOUS
  <2>1. v \in Users
    BY <1>1, <1>0, TOTPColumns, RowFields DEF WithTOTP
  <2>2. v.id = u.id /\ v.enabled = TRUE /\ v.secret = u.pending /\ v.last = step /\ step # 0
    BY <1>1, StepIsNumber DEF WithTOTP, Users
  <2>3. (v.must <=> u.must) /\ v.expires = u.expires
    BY <1>1 DEF WithTOTP, Users
  <2> QED
    BY <1>1, <1>3, <2>1, <2>2, <2>3 DEF Sound
<1>4. ASSUME NEW secret \in 0 .. MaxSecrets
      PROVE  LET v == [u EXCEPT !.pending = secret] IN v \in Users /\ Sound(v) /\ v.id = u.id
  BY <1>1 DEF Users, Sound
<1>5. ASSUME NEW step \in CodeSteps, u.secret # 0
      PROVE  LET v == [u EXCEPT !.last = step] IN v \in Users /\ Sound(v) /\ v.id = u.id
  <2>1. u.last # 0 /\ step # 0
    BY <1>1, <1>5, StepIsNumber DEF Sound
  <2> QED
    BY <1>1, <1>5, <2>1 DEF Users, Sound
<1> QED
  BY <1>2, <1>3, <1>4, <1>5, NoUserIsARow DEF Written, Rows

LEMMA NewUserRow ==
    ASSUME NEW id \in 1 .. MaxUsers, NEW at \in Nat
    PROVE  NewUser(id, at) \in Written
<1> DEFINE u == [ id |-> id, must |-> TRUE, expires |-> 0, enabled |-> FALSE,
                  secret |-> 0, pending |-> 0, last |-> 0 ]
           v == WithOneTimePassword(u, at)
<1>1. at + OneTimeLifetime \in Nat /\ at + OneTimeLifetime # 0 /\ 0 \in 0 .. MaxSecrets
  BY NumbersTyped
<1>2. u \in Users
  BY <1>1 DEF Users
<1>3. v \in Users
  BY <1>1, <1>2 DEF WithOneTimePassword, Users
<1>4. ~v.enabled /\ v.secret = 0 /\ v.last = 0 /\ v.must /\ v.expires = at + OneTimeLifetime
  BY DEF WithOneTimePassword
<1>5. NewUser(id, at) = v
  BY DEF NewUser
<1> HIDE DEF v
<1>6. Sound(v)
  BY <1>1, <1>4 DEF Sound
<1> QED
  BY <1>3, <1>5, <1>6, NoUserIsARow DEF Written, Rows

-----------------------------------------------------------------------------
(* Requests.                                                               *)
LEMMA IdleAsks == Idle \in Asking /\ Idle.at = 0
<1>1. Idle \in Requests
  BY NumbersTyped DEF Idle, Requests
<1> QED
  BY <1>1, NoUserIsARow DEF Idle, Asking

LEMMA OneRequest ==
    ASSUME RequestsOK, now \in Nat, now' \in Nat, now <= now',
           NEW b \in Browsers, NEW r \in Asking, r.at <= now', To(b, r)
    PROVE  RequestsOK'
<1>1. request' \in [Browsers -> Asking]
  BY DEF RequestsOK, To
<1>2. ASSUME NEW c \in Browsers PROVE request'[c].at <= now'
  <2>1. request[c].at \in Nat /\ request[c].at <= now
    BY NumbersTyped DEF RequestsOK, Asking, Requests
  <2>2. request'[c] = IF c = b THEN r ELSE request[c]
    BY DEF RequestsOK, To
  <2> QED
    BY <2>1, <2>2
<1> QED
  BY <1>1, <1>2 DEF RequestsOK

(* The phase changes.                                                      *)
LEMMA PhaseMovesOn ==
    ASSUME NEW r \in Asking, NEW p \in {"consume", "next", "account", "end"}, r.phase # "idle"
    PROVE  [r EXCEPT !.phase = p] \in Asking /\ [r EXCEPT !.phase = p].at = r.at
<1>1. r \in Requests
  BY DEF Asking
<1>2. [r EXCEPT !.phase = p] \in Requests
  BY <1>1 DEF Requests
<1> QED
  BY <1>1, <1>2 DEF Asking, Requests

-----------------------------------------------------------------------------
(* Tokens.                                                                 *)
LEMMA NoTokenIsNone == NoToken \notin OnTheWay /\ NoToken \notin SignedIn
BY DEF NoToken, OnTheWay, SignedIn, SignInTokens, Sessions

LEMMA FewerTokens ==
    ASSUME TokensOK, user' = user, DOMAIN tokens' = Tokens, tokens' = [t \in DOMAIN tokens' |-> tokens'[t]],
           \A t \in Tokens : tokens'[t] \in {tokens[t], NoToken}
    PROVE  TokensOK'
BY DEF TokensOK, TokensHaveUser, Tokens

LEMMA TokenGone ==
    ASSUME TokensOK, user' = user, NEW n, tokens' = [tokens EXCEPT ![n] = NoToken]
    PROVE  TokensOK'
BY FewerTokens DEF TokensOK

LEMMA TokensOfUserGone ==
    ASSUME TokensOK, user' = user, NEW id, tokens' = TokensWithout(id)
    PROVE  TokensOK'
BY FewerTokens DEF TokensWithout

LEMMA SameTokens ==
    ASSUME TokensOK, user' = user, tokens' = tokens
    PROVE  TokensOK'
BY DEF TokensOK, TokensHaveUser

LEMMA TokenAdded ==
    ASSUME TokensOK, user' = user, user # NoUser, NEW n \in Tokens, NEW t \in OnTheWay \cup SignedIn,
           t.user = user.id, tokens' = [tokens EXCEPT ![n] = t]
    PROVE  TokensOK'
BY DEF TokensOK, TokensHaveUser

LEMMA SavedRow ==
    ASSUME TokensOK, NEW read, NEW row \in Rows, Save(read, row), tokens' = tokens
    PROVE  user' = row /\ row \in Written /\ row.id = user.id /\ user # NoUser /\ TokensOK'
BY DEF Save, There, TokensOK, TokensHaveUser, Written

LEMMA SignInTokenOnTheWay ==
    ASSUME NEW id \in 1 .. MaxUsers, NEW scopes \in (SUBSET Scopes) \ {{}}, NEW needed \in SUBSET Scopes,
           NEW passed \in SUBSET Scopes, scopes = needed \ passed, NEW at \in Times
    PROVE  SignInToken(id, scopes, needed, passed, at) \in OnTheWay
           /\ SignInToken(id, scopes, needed, passed, at).user = id
<1>1. at + SignInLifetime \in Nat
  BY NumbersTyped DEF Times
<1>2. SignInToken(id, scopes, needed, passed, at) \in SignInTokens
  BY <1>1 DEF SignInToken, SignInTokens
<1> QED
  BY <1>2 DEF SignInToken, OnTheWay

LEMMA SessionSignedIn ==
    ASSUME NEW id \in 1 .. MaxUsers, NEW needed \in SUBSET Scopes, NEW passed \in SUBSET Scopes,
           needed \subseteq passed, NEW at \in Nat, NEW n \in Times, at <= n
    PROVE  Session(id, needed, passed, at, n) \in SignedIn
           /\ Session(id, needed, passed, at, n).user = id
<1>1. /\ at + SessionIdle \in Nat /\ n \in Nat
      /\ at + SessionIdle <= n + SessionIdle /\ at + SessionIdle <= n + SessionMax
  BY NumbersTyped DEF Times
<1>2. Session(id, needed, passed, at, n) \in Sessions
  BY <1>1 DEF Session, Sessions
<1> QED
  BY <1>1, <1>2 DEF Session, SignedIn

LEMMA TouchedToken ==
    ASSUME NEW t \in OnTheWay \cup SignedIn, NEW at \in Times
    PROVE  Touched(t, at) \in OnTheWay \cup SignedIn /\ Touched(t, at).user = t.user
<1> DEFINE until == IF at + SessionIdle > t.created + SessionMax THEN t.created + SessionMax ELSE at + SessionIdle
           used == [t EXCEPT !.used = at, !.expires = until]
<1>1. t \in Sessions \cup SignInTokens
  BY DEF OnTheWay, SignedIn
<1>2. t.created \in Nat /\ at \in Nat
  BY <1>1, NumbersTyped DEF Sessions, SignInTokens, Times
<1>3. until \in Nat /\ until <= at + SessionIdle /\ until <= t.created + SessionMax
  BY <1>2, NumbersTyped
<1>4. Touched(t, at) = used
  BY DEF Touched
<1> HIDE DEF until
<1>5. t \in Sessions => used \in Sessions
  BY <1>3 DEF Sessions
<1>6. t \in SignInTokens => used \in SignInTokens
  BY <1>3 DEF SignInTokens
<1>7. /\ used.user = t.user /\ used.scopes = t.scopes
      /\ used.needed = t.needed /\ used.passed = t.passed
      /\ used.created = t.created /\ used.used = at /\ used.expires = until
  BY <1>1 DEF Sessions, SignInTokens
<1> HIDE DEF used
<1> QED
  BY <1>3, <1>4, <1>5, <1>6, <1>7 DEF OnTheWay, SignedIn

-----------------------------------------------------------------------------
(* The steps of a browser.                                                 *)
LEMMA RequestFields ==
    ASSUME RequestsOK, RowsOK, NEW b \in Browsers
    PROVE  /\ request[b] \in Asking /\ request[b] \in Requests
           /\ request[b].read \in Rows /\ request[b].copy \in Rows
           /\ request[b].needed \in SUBSET Scopes /\ request[b].passed \in SUBSET Scopes
           /\ request[b].steps \in SUBSET Scopes
           /\ request[b].steps = request[b].needed \ request[b].passed
           /\ request[b].token \in 0 .. MaxTokens
           /\ request[b].at \in Nat /\ request[b].at <= now /\ now \in Nat /\ now \in 0 .. MaxTime
<1>1. request[b] \in Asking /\ request[b].at <= now /\ now \in Times
  BY DEF RequestsOK, RowsOK
<1>2. request[b] \in Requests
  BY <1>1 DEF Asking
<1> QED
  BY <1>1, <1>2, NumbersTyped DEF Asking, Requests, Times

(* The row, the clock and the numbers stay.                                *)
LEMMA RowsStay ==
    ASSUME RowsOK, user' \in Rows, UNCHANGED <<console, now, made>>,
           cookie' \in [Browsers -> [session : 0 .. MaxTokens, signin : 0 .. MaxTokens]]
    PROVE  RowsOK'
BY DEF RowsOK

LEMMA CookiesTyped ==
    ASSUME RowsOK
    PROVE  /\ cookie \in [Browsers -> [session : 0 .. MaxTokens, signin : 0 .. MaxTokens]]
           /\ user \in Rows
BY DEF RowsOK

LEMMA BecomesIdle ==
    ASSUME SignInInv, NEW b \in Browsers, To(b, Idle), now' = now
    PROVE  RequestsOK'
<1>1. now \in Nat /\ Idle.at <= now'
  BY RequestFields, IdleAsks DEF SignInInv
<1> QED
  BY <1>1, IdleAsks, OneRequest DEF SignInInv

LEMMA Moves ==
    ASSUME SignInInv, NEW b \in Browsers, NEW r \in Asking, r.at = request[b].at, To(b, r), now' = now
    PROVE  RequestsOK'
<1>1. r.at <= now' /\ now \in Nat /\ now' \in Nat /\ now <= now'
  BY RequestFields DEF SignInInv
<1> QED
  BY <1>1, OneRequest DEF SignInInv

LEMMA MovesTo ==
    ASSUME SignInInv, NEW b \in Browsers, NEW p \in {"consume", "next", "account", "end"},
           request[b].phase # "idle", To(b, [request[b] EXCEPT !.phase = p]), now' = now
    PROVE  RequestsOK'
<1> DEFINE r == [request[b] EXCEPT !.phase = p]
<1>1. r \in Asking /\ r.at = request[b].at
  BY RequestFields, PhaseMovesOn DEF SignInInv
<1>2. To(b, r)
  OBVIOUS
<1> HIDE DEF r
<1> QED
  BY <1>1, <1>2, Moves

LEMMA MovesWith ==
    ASSUME SignInInv, NEW b \in Browsers, NEW p \in {"consume", "next", "account", "end"}, NEW row \in Rows,
           request[b].phase # "idle",
           To(b, [request[b] EXCEPT !.phase = p, !.read = row, !.copy = row]), now' = now
    PROVE  RequestsOK'
<1> DEFINE r == [request[b] EXCEPT !.phase = p, !.read = row, !.copy = row]
<1>1. r \in Requests
  <2>1. request[b] \in Requests /\ row \in Users \cup {NoUser}
    BY RequestFields DEF SignInInv, Rows
  <2> QED
    BY <2>1 DEF Requests
<1>2. /\ r.phase = p /\ r.read = row /\ r.copy = row /\ r.at = request[b].at
      /\ r.steps = request[b].steps /\ r.needed = request[b].needed /\ r.passed = request[b].passed
  BY RequestFields DEF SignInInv, Requests
<1>3. To(b, r)
  OBVIOUS
<1> HIDE DEF r
<1>4. r \in Asking
  BY <1>1, <1>2, RequestFields DEF SignInInv, Asking
<1> QED
  BY <1>2, <1>3, <1>4, Moves

(* A token a browser holds, if there still is one.                         *)
LEMMA HeldToken ==
    ASSUME SignInInv, NEW n \in 0 .. MaxTokens, Held(n) # NoToken
    PROVE  n \in Tokens /\ Held(n) = tokens[n] /\ Held(n) \in OnTheWay \cup SignedIn
<1>1. n \in Tokens
  BY NumbersTyped DEF Held, Tokens
<1> QED
  BY <1>1 DEF Held, SignInInv, TokensOK

LEMMA SigningIn ==
    ASSUME SignInInv, NEW b \in Browsers,
           GiveUp(b) \/ SignInStart(b) \/ Wrong(b) \/ RightPassword(b)
    PROVE  SignInInv'
<1> USE DEF SignInInv
<1>1. CASE GiveUp(b) \/ Wrong(b)
  BY <1>1, BecomesIdle, RowsStay, SameTokens, CookiesTyped DEF GiveUp, Wrong
<1>2. CASE SignInStart(b)
  <2> DEFINE r == [Idle EXCEPT !.phase = "password", !.read = user, !.copy = user, !.at = now]
  <2>1. user \in Rows /\ user \in Users \cup {NoUser} /\ now \in 0 .. MaxTime /\ now # 0 /\ Idle \in Requests
    BY RequestFields, CookiesTyped, IdleAsks DEF Asking, Rows, RowsOK, Times
  <2>2. r \in Requests
    BY <2>1 DEF Requests
  <2>3. r.phase = "password" /\ r.read = user /\ r.copy = user /\ r.at = now
        /\ r.steps = {} /\ r.needed = {} /\ r.passed = {}
    BY <2>1 DEF Idle
  <2> HIDE DEF r
  <2>4. r \in Asking
    BY <2>1, <2>2, <2>3, IdleAsks DEF Asking
  <2>5. To(b, r) /\ now' = now
    BY <1>2 DEF SignInStart, r
  <2>6. RequestsOK'
    BY <2>1, <2>3, <2>4, <2>5, RequestFields, OneRequest
  <2> QED
    BY <1>2, <2>6, RowsStay, SameTokens, CookiesTyped DEF SignInStart
<1>3. CASE RightPassword(b)
  <2> DEFINE steps == Steps(request[b].copy)
             r == [request[b] EXCEPT !.phase = "next", !.steps = steps, !.needed = steps]
  <2>1. steps \in SUBSET Scopes
    BY DEF Steps, Scopes
  <2> HIDE DEF steps
  <2>2. request[b].passed = {} /\ request[b].at # 0
    BY <1>3, RequestFields DEF RightPassword, Asking
  <2>3. r \in Requests
    <3>1. request[b] \in Requests
      BY RequestFields
    <3> QED
      BY <2>1, <3>1 DEF Requests
  <2>4. r.phase = "next" /\ r.steps = steps /\ r.needed = steps /\ r.passed = {} /\ r.at = request[b].at
        /\ r.read = request[b].read /\ r.copy = request[b].copy
    BY <2>2, RequestFields DEF Requests
  <2>5. To(b, r) /\ now' = now
    BY <1>3 DEF RightPassword, steps
  <2> HIDE DEF r
  <2>6. r \in Asking
    BY <2>2, <2>3, <2>4, RequestFields DEF Asking
  <2>7. RequestsOK'
    BY <2>4, <2>5, <2>6, RequestFields, OneRequest
  <2> QED
    BY <1>3, <2>7, RowsStay, SameTokens, CookiesTyped DEF RightPassword
<1> QED
  BY <1>1, <1>2, <1>3

(* A step of a sign-in, with the token of the last: what it leaves is what *)
(* that token left, without it.                                            *)
LEMMA StepBegins ==
    ASSUME SignInInv, NEW b \in Browsers, NEW t, NEW phase \in {"choose", "code"}, NEW scope \in Scopes,
           t.needed \in SUBSET Scopes, t.passed \in SUBSET Scopes,
           t.scopes \ {scope} = t.needed \ (t.passed \cup {scope}),
           Step(b, t, phase, scope), now' = now
    PROVE  RequestsOK'
<1> DEFINE passed == t.passed \cup {scope}
           r == [Idle EXCEPT !.phase = phase, !.read = user, !.copy = user, !.token = cookie[b].signin,
                             !.steps = t.needed \ passed, !.needed = t.needed, !.passed = passed, !.at = now]
<1>1. /\ user \in Rows /\ cookie[b].signin \in 0 .. MaxTokens /\ passed \in SUBSET Scopes
      /\ now \in 0 .. MaxTime /\ now # 0 /\ now \in Nat
  BY RequestFields DEF SignInInv, RowsOK, Times
<1>2. To(b, r)
  BY DEF Step
<1> HIDE DEF passed
<1>3. Idle \in Requests /\ t.needed \ passed \in SUBSET Scopes /\ user \in Users \cup {NoUser}
  BY <1>1, IdleAsks DEF Asking, Rows
<1>4. r \in Requests
  BY <1>1, <1>3 DEF Requests
<1>5. /\ r.phase = phase /\ r.read = user /\ r.copy = user /\ r.at = now
      /\ r.steps = t.needed \ passed /\ r.needed = t.needed /\ r.passed = passed
  BY <1>3 DEF Requests
<1> HIDE DEF r
<1>6. r \in Asking
  BY <1>1, <1>4, <1>5 DEF Asking
<1> QED
  BY <1>1, <1>2, <1>5, <1>6, OneRequest DEF SignInInv

LEMMA SignInTokenFields ==
    ASSUME NEW t \in OnTheWay
    PROVE  t.needed \in SUBSET Scopes /\ t.passed \in SUBSET Scopes /\ t.scopes = t.needed \ t.passed
BY DEF OnTheWay, SignInTokens

LEMMA TakingSteps ==
    ASSUME SignInInv, NEW b \in Browsers, SetPassword(b) \/ VerifyTOTP(b)
    PROVE  SignInInv'
<1> DEFINE t == Held(cookie[b].signin)
<1>1. cookie[b].signin \in 0 .. MaxTokens
  BY CookiesTyped DEF SignInInv
<1>2. ASSUME t.kind = "sign-in" PROVE t \in OnTheWay
  <2>1. t # NoToken
    BY <1>2 DEF NoToken
  <2>2. t \in OnTheWay \cup SignedIn
    BY <1>1, <2>1, HeldToken
  <2> QED
    BY <1>2, <2>2 DEF SignedIn, Sessions
<1>3. CASE SetPassword(b)
  <2>1. t.kind = "sign-in" /\ "set-password" \in t.scopes /\ Step(b, t, "choose", "set-password")
    BY <1>3 DEF SetPassword, AllowsStep
  <2>2. t.needed \in SUBSET Scopes /\ t.passed \in SUBSET Scopes /\ t.scopes = t.needed \ t.passed
    BY <1>2, <2>1, SignInTokenFields
  <2> HIDE DEF t
  <2>3. t.scopes \ {"set-password"} = t.needed \ (t.passed \cup {"set-password"})
    BY <2>2
  <2>4. now' = now /\ "set-password" \in Scopes
    BY <1>3 DEF SetPassword, Scopes
  <2>5. RequestsOK'
    BY <2>1, <2>2, <2>3, <2>4, StepBegins
  <2> QED
    BY <1>3, <2>5, RowsStay, SameTokens, CookiesTyped DEF SetPassword, SignInInv
<1>4. CASE VerifyTOTP(b)
  <2> DEFINE s == [t EXCEPT !.scopes = {"totp"}]
  <2>1. t.kind = "sign-in" /\ "set-password" \notin t.scopes /\ Step(b, s, "code", "totp")
    BY <1>4 DEF VerifyTOTP, AllowsCode, AllowsStep
  <2>2. t \in OnTheWay
    BY <1>2, <2>1
  <2> HIDE DEF t
  <2>3. t.needed \in SUBSET Scopes /\ t.passed \in SUBSET Scopes /\ t.scopes = t.needed \ t.passed
    BY <2>2, SignInTokenFields
  <2>4. s.scopes = {"totp"} /\ s.needed = t.needed /\ s.passed = t.passed
    BY <2>2 DEF OnTheWay, SignInTokens
  <2> HIDE DEF s
  <2>5. t.needed \ (t.passed \cup {"totp"}) = {}
    BY <2>1, <2>3 DEF Scopes
  <2>6. s.scopes \ {"totp"} = s.needed \ (s.passed \cup {"totp"})
    BY <2>4, <2>5
  <2>7. now' = now /\ "totp" \in Scopes
    BY <1>4 DEF VerifyTOTP, Scopes
  <2>8. RequestsOK'
    BY <2>1, <2>3, <2>4, <2>6, <2>7, StepBegins
  <2> QED
    BY <1>4, <2>8, RowsStay, SameTokens, CookiesTyped DEF VerifyTOTP, SignInInv
<1> QED
  BY <1>3, <1>4

(* A row that is saved is there: it is not made of NoUser.                 *)
LEMMA SavedCopy ==
    ASSUME SignInInv, NEW b \in Browsers, NEW read, NEW row, Save(read, row), row.id = request[b].copy.id
    PROVE  request[b].copy \in Written
<1>1. user \in Written /\ row.id = user.id
  BY DEF Save, There, SignInInv, RowsOK, Written
<1>2. row.id # 0
  BY <1>1, RowFields, NumbersTyped
<1> QED
  BY <1>2, RequestFields DEF SignInInv, Written, NoUser

LEMMA StepsDone ==
    ASSUME SignInInv, NEW b \in Browsers, ChoosePassword(b) \/ RightCode(b)
    PROVE  SignInInv'
<1> DEFINE copy == request[b].copy
<1>1. SUFFICES ASSUME NEW row, Save(request[b].read, row), request[b].phase # "idle",
                      To(b, [request[b] EXCEPT !.phase = "consume", !.read = row, !.copy = row]),
                      row.id = copy.id, copy \in Written => row \in Rows,
                      UNCHANGED <<tokens, made, now, cookie, console>>
               PROVE  SignInInv'
  <2>1. CASE ChoosePassword(b)
    <3> DEFINE row == WithOwnPassword(copy)
    <3>1. row.id = copy.id
      BY RequestFields DEF SignInInv, WithOwnPassword, Rows, Users, NoUser
    <3>2. copy \in Written => row \in Rows
      BY PasswordRows DEF Written
    <3> QED
      BY <2>1, <3>1, <3>2, <1>1 DEF ChoosePassword
  <2>2. CASE RightCode(b)
    <3>1. PICK step \in Matching(request[b].at, copy.last) :
             LET row == [copy EXCEPT !.last = step]
             IN  /\ Save(request[b].read, row)
                 /\ To(b, [request[b] EXCEPT !.phase = "consume", !.read = row, !.copy = row])
      BY <2>2 DEF RightCode
    <3> DEFINE row == [copy EXCEPT !.last = step]
    <3>2. row.id = copy.id
      BY RequestFields DEF SignInInv, Rows, Users, NoUser
    <3>3. step \in CodeSteps /\ copy.secret # 0
      BY <2>2, <3>1 DEF Matching, RightCode
    <3>4. copy \in Written => row \in Rows
      BY <3>3, TOTPRows DEF Written
    <3>5. request[b].phase # "idle" /\ UNCHANGED <<tokens, made, now, cookie, console>>
      BY <2>2 DEF RightCode
    <3> QED
      BY <3>1, <3>2, <3>4, <3>5, <1>1
  <2> QED
    BY <2>1, <2>2
<1>2. row \in Rows
  BY <1>1, SavedCopy
<1>3. user' = row /\ TokensOK'
  BY <1>1, <1>2, SavedRow DEF SignInInv
<1>4. RequestsOK'
  BY <1>1, <1>2, MovesWith
<1> QED
  BY <1>1, <1>2, <1>3, <1>4, RowsStay, CookiesTyped DEF SignInInv

LEMMA Consuming ==
    ASSUME SignInInv, NEW b \in Browsers, Consume(b)
    PROVE  SignInInv'
<1>1. RequestsOK'
  BY MovesTo DEF Consume
<1>2. TokensOK'
  BY TokenGone DEF Consume, SignInInv
<1> QED
  BY <1>1, <1>2, RowsStay, CookiesTyped DEF Consume, SignInInv

(* next.                                                                   *)
LEMMA NumberOfToken ==
    ASSUME SignInInv, NewToken <= MaxTokens
    PROVE  /\ NewToken \in Tokens
           /\ [made EXCEPT !.tokens = NewToken] \in
                 [users : 0 .. MaxUsers, secrets : 0 .. MaxSecrets, tokens : 0 .. MaxTokens]
<1>1. made \in [users : 0 .. MaxUsers, secrets : 0 .. MaxSecrets, tokens : 0 .. MaxTokens]
  BY DEF SignInInv, RowsOK
<1>2. NewToken \in Tokens /\ NewToken \in 0 .. MaxTokens
  BY <1>1, NumbersTyped DEF NewToken, Tokens
<1> QED
  BY <1>1, <1>2

LEMMA UserIsThere ==
    ASSUME SignInInv, NEW row, There(row)
    PROVE  user # NoUser /\ user \in Written /\ user.id \in 1 .. MaxUsers
<1>1. user # NoUser /\ user \in Written
  BY DEF There, SignInInv, RowsOK, Written
<1> QED
  BY <1>1, RowFields

LEMMA IssuingToken ==
    ASSUME SignInInv, NEW b \in Browsers, IssueToken(b)
    PROVE  SignInInv'
<1> DEFINE t == SignInToken(user.id, request[b].steps, request[b].needed, request[b].passed, now)
<1>1. /\ request[b].steps # {} /\ There(request[b].copy) /\ NewToken <= MaxTokens
      /\ tokens' = [tokens EXCEPT ![NewToken] = t]
      /\ made' = [made EXCEPT !.tokens = NewToken]
      /\ cookie' = [cookie EXCEPT ![b].signin = NewToken]
      /\ To(b, Idle) /\ UNCHANGED <<user, now, console>>
  BY DEF IssueToken, StepsLeft
<1>2. user # NoUser /\ user.id \in 1 .. MaxUsers
  BY <1>1, UserIsThere
<1>3. t \in OnTheWay /\ t.user = user.id
  <2>1. now \in Times /\ request[b].steps \in (SUBSET Scopes) \ {{}}
    BY <1>1, RequestFields DEF SignInInv, RowsOK
  <2> QED
    BY <1>2, <2>1, RequestFields, SignInTokenOnTheWay DEF SignInInv
<1> HIDE DEF t
<1>4. NewToken \in Tokens /\ NewToken \in 0 .. MaxTokens
  BY <1>1, NumberOfToken, NumbersTyped DEF Tokens
<1>5. TokensOK'
  BY <1>1, <1>2, <1>3, <1>4, TokenAdded DEF SignInInv
<1>6. RequestsOK'
  BY <1>1, BecomesIdle
<1>7. cookie' \in [Browsers -> [session : 0 .. MaxTokens, signin : 0 .. MaxTokens]]
  BY <1>1, <1>4, CookiesTyped DEF SignInInv
<1>8. RowsOK'
  BY <1>1, <1>7, NumberOfToken DEF SignInInv, RowsOK
<1> QED
  BY <1>5, <1>6, <1>8 DEF SignInInv

LEMMA Expiring ==
    ASSUME SignInInv, NEW b \in Browsers, DeleteExpired(b)
    PROVE  SignInInv'
<1> DEFINE r == [request[b] EXCEPT !.phase = "issue", !.at = now]
<1>1. request[b].steps = {} /\ To(b, r)
  BY DEF DeleteExpired
<1>2. now \in 0 .. MaxTime /\ now # 0 /\ now \in Nat
  BY RequestFields DEF SignInInv, RowsOK, Times
<1>3. r \in Requests
  <2>1. request[b] \in Requests
    BY RequestFields DEF SignInInv
  <2> QED
    BY <1>2, <2>1 DEF Requests
<1>4. /\ r.phase = "issue" /\ r.at = now /\ r.read = request[b].read /\ r.copy = request[b].copy
      /\ r.steps = request[b].steps /\ r.needed = request[b].needed /\ r.passed = request[b].passed
  BY RequestFields DEF SignInInv, Requests
<1> HIDE DEF r
<1>5. r \in Asking
  BY <1>1, <1>2, <1>3, <1>4, RequestFields DEF SignInInv, Asking
<1>6. now' = now
  BY DEF DeleteExpired
<1>7. RequestsOK'
  BY <1>1, <1>2, <1>4, <1>5, <1>6, OneRequest DEF SignInInv
<1>8. TokensOK'
  BY FewerTokens DEF DeleteExpired, SignInInv
<1> QED
  BY <1>7, <1>8, RowsStay, CookiesTyped DEF DeleteExpired, SignInInv

LEMMA IssuingSession ==
    ASSUME SignInInv, NEW b \in Browsers, IssueSession(b)
    PROVE  SignInInv'
<1> DEFINE t == Session(user.id, request[b].needed, request[b].passed, request[b].at, now)
           r == [request[b] EXCEPT !.phase = "record", !.token = NewToken]
<1>1. /\ request[b].phase = "issue" /\ There(request[b].copy) /\ NewToken <= MaxTokens
      /\ tokens' = [tokens EXCEPT ![NewToken] = t]
      /\ made' = [made EXCEPT !.tokens = NewToken]
      /\ To(b, r) /\ UNCHANGED <<user, now, console, cookie>>
  BY DEF IssueSession
<1>2. user # NoUser /\ user.id \in 1 .. MaxUsers
  BY <1>1, UserIsThere
<1>3. request[b].steps = {} /\ request[b].at # 0
  BY <1>1, RequestFields DEF SignInInv, Asking
<1>4. t \in SignedIn /\ t.user = user.id
  <2>1. now \in Times /\ request[b].needed \subseteq request[b].passed
    BY <1>3, RequestFields DEF SignInInv, RowsOK
  <2> QED
    BY <1>2, <2>1, RequestFields, SessionSignedIn DEF SignInInv
<1> HIDE DEF t
<1>5. NewToken \in Tokens /\ NewToken \in 0 .. MaxTokens
  BY <1>1, NumberOfToken, NumbersTyped DEF Tokens
<1>6. TokensOK'
  BY <1>1, <1>2, <1>4, <1>5, TokenAdded DEF SignInInv
<1>7. r \in Requests
  <2>1. request[b] \in Requests
    BY RequestFields DEF SignInInv
  <2> QED
    BY <1>5, <2>1 DEF Requests
<1>8. /\ r.phase = "record" /\ r.at = request[b].at /\ r.read = request[b].read /\ r.copy = request[b].copy
      /\ r.steps = request[b].steps /\ r.needed = request[b].needed /\ r.passed = request[b].passed
  BY RequestFields DEF SignInInv, Requests
<1> HIDE DEF r
<1>9. r \in Asking
  BY <1>3, <1>7, <1>8, RequestFields DEF SignInInv, Asking
<1>10. RequestsOK'
  BY <1>1, <1>8, <1>9, Moves
<1>11. RowsOK'
  BY <1>1, NumberOfToken DEF SignInInv, RowsOK
<1> QED
  BY <1>6, <1>10, <1>11 DEF SignInInv

LEMMA Recording ==
    ASSUME SignInInv, NEW b \in Browsers, RecordSignIn(b)
    PROVE  SignInInv'
<1>1. request[b].copy \in Rows /\ request[b].token \in 0 .. MaxTokens /\ 0 \in 0 .. MaxTokens
  BY RequestFields, NumbersTyped DEF SignInInv
<1>2. user' = request[b].copy /\ TokensOK'
  BY <1>1, SavedRow DEF RecordSignIn, SignInInv
<1>3. cookie' \in [Browsers -> [session : 0 .. MaxTokens, signin : 0 .. MaxTokens]]
  BY <1>1, CookiesTyped DEF RecordSignIn, SignInInv
<1>4. RequestsOK'
  BY BecomesIdle DEF RecordSignIn
<1> QED
  BY <1>1, <1>2, <1>3, <1>4, RowsStay DEF RecordSignIn, SignInInv

-----------------------------------------------------------------------------
(* Sessions and accounts.                                                  *)
LEMMA Authenticating ==
    ASSUME SignInInv, NEW b \in Browsers, Authenticate(b)
    PROVE  SignInInv'
<1> DEFINE due == TouchDue(Held(cookie[b].session), now)
           r == [Idle EXCEPT !.phase = "touch", !.copy = user, !.token = cookie[b].session,
                             !.at = now, !.due = due]
<1>1. To(b, r) /\ now' = now
  BY DEF Authenticate
<1>2. /\ user \in Rows /\ user \in Users \cup {NoUser} /\ now \in 0 .. MaxTime /\ now # 0 /\ now \in Nat
      /\ Idle \in Requests /\ cookie[b].session \in 0 .. MaxTokens
  BY RequestFields, CookiesTyped, IdleAsks DEF SignInInv, Asking, Rows, RowsOK, Times
<1>3. due \in BOOLEAN
  BY DEF TouchDue
<1> HIDE DEF due
<1>4. r \in Requests
  BY <1>2, <1>3 DEF Requests
<1>5. /\ r.phase = "touch" /\ r.at = now /\ r.copy = user /\ r.read = NoUser
      /\ r.steps = {} /\ r.needed = {} /\ r.passed = {}
  BY <1>2 DEF Idle
<1> HIDE DEF r
<1>6. r \in Asking
  BY <1>2, <1>4, <1>5, NoUserIsARow DEF Asking
<1>7. RequestsOK'
  BY <1>1, <1>2, <1>5, <1>6, OneRequest DEF SignInInv
<1> QED
  BY <1>7, RowsStay, SameTokens, CookiesTyped DEF Authenticate, SignInInv

LEMMA TokenKept ==
    ASSUME TokensOK, user' = user, NEW n \in Tokens, tokens[n] # NoToken,
           NEW t \in OnTheWay \cup SignedIn, t.user = tokens[n].user, tokens' = [tokens EXCEPT ![n] = t]
    PROVE  TokensOK'
BY DEF TokensOK, TokensHaveUser

LEMMA Touching ==
    ASSUME SignInInv, NEW b \in Browsers, Touch(b)
    PROVE  SignInInv'
<1> DEFINE n == request[b].token
           r == [request[b] EXCEPT !.phase = "account", !.due = FALSE]
<1>1. request[b].phase = "touch" /\ To(b, r) /\ UNCHANGED <<user, now>>
  BY DEF Touch
<1>2. r \in Requests
  <2>1. request[b] \in Requests
    BY RequestFields DEF SignInInv
  <2> QED
    BY <2>1 DEF Requests
<1>3. /\ r.phase = "account" /\ r.at = request[b].at /\ r.read = request[b].read /\ r.copy = request[b].copy
      /\ r.steps = request[b].steps /\ r.needed = request[b].needed /\ r.passed = request[b].passed
  BY RequestFields DEF SignInInv, Requests
<1>4. request[b].at # 0
  BY <1>1, RequestFields DEF SignInInv, Asking
<1> HIDE DEF r
<1>5. r \in Asking
  BY <1>2, <1>3, <1>4, RequestFields DEF SignInInv, Asking
<1>6. RequestsOK'
  BY <1>1, <1>3, <1>5, Moves
<1>7. TokensOK'
  <2>1. CASE request[b].due /\ Held(n) # NoToken
    <3>1. n \in Tokens /\ tokens[n] \in OnTheWay \cup SignedIn /\ tokens[n] # NoToken
      BY <2>1, HeldToken, RequestFields DEF SignInInv
    <3>2. request[b].at \in Times
      BY <1>4, RequestFields DEF SignInInv, Requests, Times
    <3> DEFINE t == Touched(tokens[n], request[b].at)
    <3>3. t \in OnTheWay \cup SignedIn /\ t.user = tokens[n].user
      BY <3>1, <3>2, TouchedToken
    <3>4. tokens' = [tokens EXCEPT ![n] = t]
      BY <2>1 DEF Touch
    <3> HIDE DEF t
    <3> QED
      BY <1>1, <3>1, <3>3, <3>4, TokenKept DEF SignInInv
  <2>2. CASE ~(request[b].due /\ Held(n) # NoToken)
    BY <2>2, SameTokens DEF Touch, SignInInv
  <2> QED
    BY <2>1, <2>2
<1> QED
  BY <1>6, <1>7, RowsStay, CookiesTyped DEF Touch, SignInInv

LEMMA SigningOut ==
    ASSUME SignInInv, NEW b \in Browsers, SignOut(b)
    PROVE  SignInInv'
<1>1. RequestsOK'
  BY BecomesIdle DEF SignOut
<1>2. TokensOK'
  BY TokenGone DEF SignOut, SignInInv
<1>3. cookie' \in [Browsers -> [session : 0 .. MaxTokens, signin : 0 .. MaxTokens]]
  BY NumbersTyped, CookiesTyped DEF SignOut, SignInInv
<1> QED
  BY <1>1, <1>2, <1>3, RowsStay, CookiesTyped DEF SignOut, SignInInv

LEMMA Loads ==
    ASSUME SignInInv, NEW b \in Browsers, NEW phase \in {"change", "save"}, NEW row,
           NEW code \in CodeSteps \cup {0}, user \in Written => row \in Rows,
           Load(b, phase, row, code), now' = now
    PROVE  RequestsOK'
<1> DEFINE r == [request[b] EXCEPT !.phase = phase, !.read = user, !.copy = row, !.code = code]
<1>1. request[b].phase = "account" /\ There(request[b].copy) /\ To(b, r)
  BY DEF Load
<1>2. user \in Rows /\ row \in Rows /\ user \in Users \cup {NoUser} /\ row \in Users \cup {NoUser}
  BY <1>1, UserIsThere, CookiesTyped DEF SignInInv, Rows
<1>3. r \in Requests
  <2>1. request[b] \in Requests
    BY RequestFields DEF SignInInv
  <2> QED
    BY <1>2, <2>1 DEF Requests
<1>4. /\ r.phase = phase /\ r.at = request[b].at /\ r.read = user /\ r.copy = row
      /\ r.steps = request[b].steps /\ r.needed = request[b].needed /\ r.passed = request[b].passed
  BY RequestFields DEF SignInInv, Requests
<1>5. request[b].at # 0
  BY <1>1, RequestFields DEF SignInInv, Asking
<1> HIDE DEF r
<1>6. r \in Asking
  BY <1>2, <1>3, <1>4, <1>5, RequestFields DEF SignInInv, Asking
<1> QED
  BY <1>1, <1>4, <1>6, Moves

LEMMA LoadingAccount ==
    ASSUME SignInInv, NEW b \in Browsers,
           ChangePassword(b) \/ BeginTOTP(b) \/ ConfirmTOTP(b) \/ DisableTOTP(b)
    PROVE  SignInInv'
<1>0. made \in [users : 0 .. MaxUsers, secrets : 0 .. MaxSecrets, tokens : 0 .. MaxTokens]
  BY DEF SignInInv, RowsOK
<1>1. CASE ChangePassword(b)
  <2>1. user \in Written => WithOwnPassword(user) \in Rows
    BY PasswordRows DEF Written
  <2>2. RequestsOK'
    BY <1>1, <2>1, Loads DEF ChangePassword
  <2> QED
    BY <1>1, <2>2, RowsStay, SameTokens, CookiesTyped DEF ChangePassword, SignInInv
<1>2. CASE BeginTOTP(b)
  <2> DEFINE secret == made.secrets + 1
  <2>1. secret \in 0 .. MaxSecrets
    BY <1>0, <1>2, NumbersTyped DEF BeginTOTP
  <2>2. user \in Written => [user EXCEPT !.pending = secret] \in Rows
    BY <2>1, TOTPRows DEF Written
  <2>3. RequestsOK'
    BY <1>2, <2>2, Loads DEF BeginTOTP
  <2>4. made' = [made EXCEPT !.secrets = secret]
    BY <1>2 DEF BeginTOTP
  <2> HIDE DEF secret
  <2>5. made' \in [users : 0 .. MaxUsers, secrets : 0 .. MaxSecrets, tokens : 0 .. MaxTokens]
    BY <1>0, <2>1, <2>4
  <2>6. RowsOK'
    BY <1>2, <2>5 DEF BeginTOTP, SignInInv, RowsOK
  <2> QED
    BY <1>2, <2>3, <2>6, SameTokens DEF BeginTOTP, SignInInv
<1>3. CASE ConfirmTOTP(b)
  <2>1. PICK step \in Matching(now, 0) : Load(b, "save", WithTOTP(user, step), step)
    BY <1>3 DEF ConfirmTOTP
  <2>2. step \in CodeSteps /\ user.pending # 0 /\ now' = now
    BY <1>3 DEF Matching, ConfirmTOTP
  <2>3. user \in Written => WithTOTP(user, step) \in Rows
    BY <2>2, TOTPRows DEF Written
  <2>4. RequestsOK'
    BY <2>1, <2>2, <2>3, Loads
  <2> QED
    BY <1>3, <2>4, RowsStay, SameTokens, CookiesTyped DEF ConfirmTOTP, SignInInv
<1>4. CASE DisableTOTP(b)
  <2>1. user \in Written => WithoutTOTP(user) \in Rows
    BY TOTPRows DEF Written
  <2>2. RequestsOK'
    BY <1>4, <2>1, Loads DEF DisableTOTP
  <2> QED
    BY <1>4, <2>2, RowsStay, SameTokens, CookiesTyped DEF DisableTOTP, SignInInv
<1> QED
  BY <1>1, <1>2, <1>3, <1>4

LEMMA SavingAccount ==
    ASSUME SignInInv, NEW b \in Browsers, SavePassword(b) \/ SaveAccount(b)
    PROVE  SignInInv'
<1> DEFINE copy == request[b].copy
<1>1. copy \in Rows
  BY RequestFields DEF SignInInv
<1>2. Save(request[b].read, copy) /\ UNCHANGED <<tokens, made, now, cookie, console>>
  BY DEF SavePassword, SaveAccount
<1>3. user' = copy /\ TokensOK'
  BY <1>1, <1>2, SavedRow DEF SignInInv
<1>4. RequestsOK'
  <2>1. CASE SavePassword(b)
    <3> DEFINE r == [request[b] EXCEPT !.phase = "end", !.read = copy]
    <3>1. request[b].phase = "change" /\ To(b, r)
      BY <2>1 DEF SavePassword
    <3>2. r \in Requests
      <4>1. request[b] \in Requests /\ copy \in Users \cup {NoUser}
        BY <1>1, RequestFields DEF SignInInv, Rows
      <4> HIDE DEF copy
      <4> QED
        BY <4>1 DEF Requests
    <3>3. /\ r.phase = "end" /\ r.at = request[b].at /\ r.read = copy /\ r.copy = copy
          /\ r.steps = request[b].steps /\ r.needed = request[b].needed /\ r.passed = request[b].passed
      BY RequestFields DEF SignInInv, Requests
    <3>4. request[b].at # 0
      BY <3>1, RequestFields DEF SignInInv, Asking
    <3> HIDE DEF r
    <3>5. r \in Asking
      BY <1>1, <3>2, <3>3, <3>4, RequestFields DEF SignInInv, Asking
    <3> QED
      BY <1>2, <3>1, <3>3, <3>5, Moves
  <2>2. CASE SaveAccount(b)
    BY <2>2, BecomesIdle DEF SaveAccount
  <2> QED
    BY <2>1, <2>2
<1> QED
  BY <1>1, <1>2, <1>3, <1>4, RowsStay, CookiesTyped DEF SignInInv

LEMMA EndingSessions ==
    ASSUME SignInInv, NEW b \in Browsers, EndSessions(b)
    PROVE  SignInInv'
<1> DEFINE r == [request[b] EXCEPT !.phase = "next", !.token = 0]
<1>1. request[b].phase = "end" /\ To(b, r) /\ UNCHANGED <<user, now>>
  BY DEF EndSessions
<1>2. r \in Requests
  <2>1. 0 \in 0 .. MaxTokens
    BY NumbersTyped
  <2>2. request[b] \in Requests
    BY RequestFields DEF SignInInv
  <2> QED
    BY <2>1, <2>2 DEF Requests
<1>3. /\ r.phase = "next" /\ r.at = request[b].at /\ r.read = request[b].read /\ r.copy = request[b].copy
      /\ r.steps = request[b].steps /\ r.needed = request[b].needed /\ r.passed = request[b].passed
  BY RequestFields DEF SignInInv, Requests
<1>4. request[b].at # 0
  BY <1>1, RequestFields DEF SignInInv, Asking
<1> HIDE DEF r
<1>5. r \in Asking
  BY <1>2, <1>3, <1>4, RequestFields DEF SignInInv, Asking
<1>6. RequestsOK'
  BY <1>1, <1>3, <1>5, Moves
<1>7. TokensOK'
  BY TokensOfUserGone DEF EndSessions, SignInInv
<1> QED
  BY <1>6, <1>7, RowsStay, CookiesTyped DEF EndSessions, SignInInv

-----------------------------------------------------------------------------
(* The clock and the console.                                              *)
LEMMA Ticking ==
    ASSUME SignInInv, Tick
    PROVE  SignInInv'
<1>1. now \in Nat /\ now' \in Times /\ now <= now'
  BY NumbersTyped DEF SignInInv, RowsOK, Times, Tick
<1>2. RequestsOK'
  <2>1. ASSUME NEW b \in Browsers PROVE request[b].at <= now'
    BY <1>1, RequestFields DEF SignInInv, Times
  <2> QED
    BY <2>1 DEF Tick, SignInInv, RequestsOK
<1>3. RowsOK'
  BY <1>1 DEF Tick, SignInInv, RowsOK
<1> QED
  BY <1>2, <1>3, SameTokens DEF Tick, SignInInv

LEMMA SameRequests ==
    ASSUME RequestsOK, UNCHANGED <<request, now>>
    PROVE  RequestsOK'
BY DEF RequestsOK

LEMMA Commanding ==
    ASSUME SignInInv, AddUser \/ Reset \/ SaveReset \/ EndReset \/ DeleteUser
    PROVE  SignInInv'
<1>1. /\ user \in Rows /\ console \in Commanded /\ now \in Nat
      /\ made \in [users : 0 .. MaxUsers, secrets : 0 .. MaxSecrets, tokens : 0 .. MaxTokens]
  BY NumbersTyped DEF SignInInv, RowsOK, Times
<1>2. NoCommand \in Commanded
  BY NoUserIsARow DEF NoCommand, Commanded
<1>3. CASE AddUser
  <2> DEFINE id == made.users + 1
  <2>1. id \in 1 .. MaxUsers /\ id \in 0 .. MaxUsers
    BY <1>1, <1>3, NumbersTyped DEF AddUser
  <2>2. user' \in Rows
    BY <1>1, <1>3, <2>1, NewUserRow DEF AddUser, Written
  <2>3. made' = [made EXCEPT !.users = id]
    BY <1>3 DEF AddUser
  <2> HIDE DEF id
  <2>4. made' \in [users : 0 .. MaxUsers, secrets : 0 .. MaxSecrets, tokens : 0 .. MaxTokens]
    BY <1>1, <2>1, <2>3
  <2>5. TokensOK'
    <3>1. \A t \in Tokens : tokens[t] = NoToken
      BY <1>3 DEF AddUser, SignInInv, TokensOK, TokensHaveUser
    <3> QED
      BY <1>3, <3>1 DEF AddUser, SignInInv, TokensOK, TokensHaveUser
  <2>6. RowsOK'
    BY <1>3, <2>2, <2>4 DEF AddUser, SignInInv, RowsOK
  <2> QED
    BY <1>3, <2>5, <2>6, SameRequests DEF AddUser, SignInInv
<1>4. CASE Reset
  <2>1. PICK row \in {WithOneTimePassword(user, now), WithoutTOTP(user)} :
           console' = [phase |-> "save", read |-> user, copy |-> row]
    BY <1>4 DEF Reset
  <2>2. row \in Rows
    BY <1>1, <1>4, PasswordRows, TOTPRows DEF Reset, Written
  <2>3. console' \in Commanded
    BY <1>1, <2>1, <2>2 DEF Commanded
  <2>4. RowsOK'
    BY <1>4, <2>3 DEF Reset, SignInInv, RowsOK
  <2> QED
    BY <1>4, <2>4, SameRequests, SameTokens DEF Reset, SignInInv
<1>5. CASE SaveReset
  <2>1. console.copy \in Rows
    BY <1>1 DEF Commanded
  <2>2. CASE Save(console.read, console.copy) /\ console' = [console EXCEPT !.phase = "end"]
    <3>1. user' \in Rows /\ TokensOK'
      BY <1>5, <2>1, <2>2, SavedRow DEF SaveReset, SignInInv
    <3>2. console' \in Commanded
      BY <1>1, <2>2 DEF Commanded
    <3>3. RowsOK'
      BY <1>5, <3>1, <3>2 DEF SaveReset, SignInInv, RowsOK
    <3> QED
      BY <1>5, <3>1, <3>3, SameRequests DEF SaveReset, SignInInv
  <2>3. CASE console' = NoCommand /\ UNCHANGED <<user, stale>>
    <3>1. RowsOK'
      BY <1>2, <1>5, <2>3 DEF SaveReset, SignInInv, RowsOK
    <3> QED
      BY <1>5, <2>3, <3>1, SameRequests, SameTokens DEF SaveReset, SignInInv
  <2> QED
    BY <1>5, <2>2, <2>3 DEF SaveReset
<1>6. CASE EndReset
  <2>1. RowsOK'
    BY <1>2, <1>6 DEF EndReset, SignInInv, RowsOK
  <2>2. TokensOK'
    BY <1>6, TokensOfUserGone DEF EndReset, SignInInv
  <2> QED
    BY <1>6, <2>1, <2>2, SameRequests DEF EndReset, SignInInv
<1>7. CASE DeleteUser
  <2>1. user' = NoUser /\ tokens' = TokensWithout(user.id)
    BY <1>7 DEF DeleteUser
  <2>2. \A t \in Tokens : tokens[t] # NoToken => tokens[t].user = user.id
    BY DEF SignInInv, TokensOK, TokensHaveUser
  <2>3. tokens' = [t \in Tokens |-> NoToken]
    BY <2>1, <2>2 DEF TokensWithout
  <2>4. TokensOK'
    BY <2>3 DEF TokensOK, TokensHaveUser
  <2>5. RowsOK'
    BY <1>7, <2>1, NoUserIsARow DEF DeleteUser, SignInInv, RowsOK
  <2> QED
    BY <1>7, <2>4, <2>5, SameRequests DEF DeleteUser, SignInInv
<1> QED
  BY <1>3, <1>4, <1>5, <1>6, <1>7

-----------------------------------------------------------------------------
LEMMA InitInv ==
    ASSUME Init
    PROVE  SignInInv
<1>1. now \in Times /\ 0 \in 0 .. MaxTokens /\ 1 \in 0 .. MaxUsers /\ 1 \in 0 .. MaxSecrets
  BY RowsAssumption DEF Init, Times
<1>2. user \in Rows
  BY SignInAssumption DEF Init, Rows
<1>3. console \in Commanded
  BY NoUserIsARow DEF Init, NoCommand, Commanded
<1>4. RowsOK
  BY <1>1, <1>2, <1>3 DEF Init, RowsOK
<1>5. RequestsOK
  <2>1. 0 <= now
    BY <1>1 DEF Times
  <2> QED
    BY <2>1, IdleAsks DEF Init, RequestsOK
<1>6. TokensOK
  BY DEF Init, TokensOK, TokensHaveUser
<1> QED
  BY <1>4, <1>5, <1>6 DEF SignInInv

LEMMA StepInv ==
    ASSUME SignInInv, [Next]_vars
    PROVE  SignInInv'
<1>1. CASE UNCHANGED vars
  BY <1>1 DEF vars, SignInInv, RowsOK, RequestsOK, TokensOK, TokensHaveUser
<1>2. CASE Tick
  BY <1>2, Ticking
<1>3. ASSUME NEW b \in Browsers,
             \/ GiveUp(b) \/ SignInStart(b) \/ Wrong(b) \/ RightPassword(b)
             \/ SetPassword(b) \/ ChoosePassword(b) \/ VerifyTOTP(b) \/ RightCode(b) \/ Consume(b)
             \/ IssueToken(b) \/ DeleteExpired(b) \/ IssueSession(b) \/ RecordSignIn(b)
             \/ Authenticate(b) \/ Touch(b) \/ SignOut(b)
             \/ ChangePassword(b) \/ SavePassword(b) \/ EndSessions(b)
             \/ BeginTOTP(b) \/ ConfirmTOTP(b) \/ DisableTOTP(b) \/ SaveAccount(b)
      PROVE  SignInInv'
  BY <1>3, SigningIn, TakingSteps, StepsDone, Consuming, IssuingToken, Expiring, IssuingSession, Recording,
     Authenticating, Touching, SigningOut, LoadingAccount, SavingAccount, EndingSessions
<1>4. CASE AddUser \/ Reset \/ SaveReset \/ EndReset \/ DeleteUser
  BY <1>4, Commanding
<1> QED
  BY <1>1, <1>2, <1>3, <1>4 DEF Next

LEMMA InvSound ==
    ASSUME SignInInv
    PROVE  EveryStepTaken /\ SessionsSound
<1>1. \A t \in Tokens : tokens[t] \in OnTheWay \cup SignedIn \cup {NoToken}
  BY DEF SignInInv, TokensOK
<1>2. EveryStepTaken
  <2>1. NoToken.kind # "session" /\ NoToken.kind # "sign-in"
    BY DEF NoToken
  <2> QED
    BY <1>1, <2>1 DEF EveryStepTaken, OnTheWay, SignedIn, SignInTokens, Sessions
<1>3. SessionsEnd
  <2>1. NoToken.kind # "session"
    BY DEF NoToken
  <2> QED
    BY <1>1, <2>1 DEF SessionsEnd, OnTheWay, SignedIn, SignInTokens
<1>4. UserSound /\ TokensHaveUser
  BY DEF UserSound, SignInInv, RowsOK, TokensOK, Rows
<1> QED
  BY <1>2, <1>3, <1>4 DEF SessionsSound

(* Of any number of browsers, whichever requests they have under way, and  *)
(* whatever the console does meanwhile, none gets a session before it has  *)
(* taken every step its password left (auth/service.go: SignIn, next).     *)
THEOREM EveryStepAlwaysTaken == Spec => []EveryStepTaken
<1>1. Init => SignInInv
  BY InitInv
<1>2. SignInInv /\ [Next]_vars => SignInInv'
  BY StepInv
<1>3. SignInInv => EveryStepTaken
  BY InvSound
<1> QED
  BY <1>1, <1>2, <1>3, PTL DEF Spec

(* Whole rows are saved from copies of any age, tokens are made and touched *)
(* late: still the row is one signing in can work with, no token outlives  *)
(* its user, and no session its limits (auth/service.go: Session, next;    *)
(* auth/console.go; database/auth.go).                                     *)
THEOREM SessionsAlwaysSound == Spec => []SessionsSound
<1>1. Init => SignInInv
  BY InitInv
<1>2. SignInInv /\ [Next]_vars => SignInInv'
  BY StepInv
<1>3. SignInInv => SessionsSound
  BY InvSound
<1> QED
  BY <1>1, <1>2, <1>3, PTL DEF Spec

-----------------------------------------------------------------------------
(* The limiter.  What it keeps is computed by going through the times it   *)
(* has, so its lemmas are by induction, here in the form that a set of     *)
(* numbers has a least one.                                                *)
LEMMA LeastNumber ==
    ASSUME NEW T, T \subseteq Nat, T # {}
    PROVE  \E n \in T : \A m \in T : n <= m
<1>1. PICK n \in T : \A m \in T : ~(<<m, n>> \in OpToRel(<, Nat))
  BY NatLessThanWellFounded, WFMin
<1>2. \A m \in T : ~(m < n)
  BY <1>1 DEF OpToRel
<1> QED
  BY <1>2

(* The values up to the n-th time, with value[i] what is kept of the first *)
(* i times.                                                                *)
IsKept(value, times, at, n) ==
    value = [i \in 0 .. n |->
                IF i = 0 THEN <<>>
                ELSE IF at < times[i] + LimitWindow THEN Append(value[i - 1], times[i]) ELSE value[i - 1]]

Kept(times, at) == CHOOSE value : IsKept(value, times, at, Len(times))

LEMMA RecentIsKept ==
    ASSUME NEW times, NEW at
    PROVE  Recent(times, at) = Kept(times, at)[Len(times)]
BY DEF Recent, Kept, IsKept

LEMMA KeptExists ==
    ASSUME NEW times, NEW at, NEW n \in Nat
    PROVE  \E value : IsKept(value, times, at, n)
<1> DEFINE T == {m \in Nat : ~ \E value : IsKept(value, times, at, m)}
<1>1. SUFFICES ASSUME T # {} PROVE FALSE
  OBVIOUS
<1>2. PICK m \in T : \A k \in T : m <= k
  <2> HIDE DEF T
  <2>1. T \subseteq Nat
    BY DEF T
  <2> QED
    BY <1>1, <2>1, LeastNumber
<1>3. CASE m = 0
  <2> DEFINE value == [i \in 0 .. 0 |-> <<>>]
  <2>1. IsKept(value, times, at, 0)
    BY DEF IsKept
  <2> QED
    BY <1>3, <2>1
<1>4. CASE m # 0
  <2>1. m \in Nat /\ m - 1 \in Nat /\ m - 1 \notin T
    BY <1>2, <1>4
  <2>2. PICK old : IsKept(old, times, at, m - 1)
    BY <2>1
  <2> DEFINE next == IF at < times[m] + LimitWindow THEN Append(old[m - 1], times[m]) ELSE old[m - 1]
             value == [i \in 0 .. m |-> IF i = m THEN next ELSE old[i]]
  <2>3. \A i \in 0 .. m : value[i] = IF i = m THEN next ELSE old[i]
    OBVIOUS
  <2>4. \A i \in 0 .. m - 1 : old[i] = IF i = 0 THEN <<>>
            ELSE IF at < times[i] + LimitWindow THEN Append(old[i - 1], times[i]) ELSE old[i - 1]
    BY <2>2 DEF IsKept
  <2>5. \A i \in 0 .. m : value[i] = IF i = 0 THEN <<>>
            ELSE IF at < times[i] + LimitWindow THEN Append(value[i - 1], times[i]) ELSE value[i - 1]
    <3> TAKE i \in 0 .. m
    <3> HIDE DEF value
    <3>1. CASE i = m
      <4>1. value[m - 1] = old[m - 1] /\ value[m] = next
        BY <1>4, <2>1, <2>3
      <4> QED
        BY <1>4, <3>1, <4>1
    <3>2. CASE i # m
      <4>1. i \in 0 .. m - 1 /\ (i # 0 => i - 1 \in 0 .. m /\ i - 1 # m)
        BY <3>2, <2>1
      <4>2. value[i] = old[i] /\ (i # 0 => value[i - 1] = old[i - 1])
        BY <3>2, <4>1, <2>3
      <4> QED
        BY <4>1, <4>2, <2>4
    <3> QED
      BY <3>1, <3>2
  <2>6. value = [i \in 0 .. m |-> value[i]]
    OBVIOUS
  <2> HIDE DEF value
  <2>7. IsKept(value, times, at, m)
    BY <2>5, <2>6 DEF IsKept
  <2> QED
    BY <2>7
<1> QED
  BY <1>3, <1>4

LEMMA KeptValues ==
    ASSUME NEW times \in Seq(Nat), NEW at
    PROVE  /\ Kept(times, at)[0] = <<>>
           /\ \A i \in 1 .. Len(times) :
                 Kept(times, at)[i] =
                    IF at < times[i] + LimitWindow THEN Append(Kept(times, at)[i - 1], times[i])
                    ELSE Kept(times, at)[i - 1]
<1> DEFINE value == Kept(times, at)
<1>1. Len(times) \in Nat
  OBVIOUS
<1>2. IsKept(value, times, at, Len(times))
  BY <1>1, KeptExists DEF Kept
<1> HIDE DEF value
<1>3. \A i \in 0 .. Len(times) : value[i] = IF i = 0 THEN <<>>
        ELSE IF at < times[i] + LimitWindow THEN Append(value[i - 1], times[i]) ELSE value[i - 1]
  BY <1>2 DEF IsKept
<1>4. value[0] = <<>> /\ \A i \in 1 .. Len(times) : value[i] =
        IF at < times[i] + LimitWindow THEN Append(value[i - 1], times[i]) ELSE value[i - 1]
  BY <1>1, <1>3
<1> QED
  BY <1>4 DEF value

(* Of two sequences of times that begin alike the same is kept so far.     *)
LEMMA KeptOfPrefix ==
    ASSUME NEW s \in Seq(Nat), NEW x \in Nat, NEW at
    PROVE  \A i \in 0 .. Len(s) : Kept(Append(s, x), at)[i] = Kept(s, at)[i]
<1> DEFINE a == Kept(Append(s, x), at)
           b == Kept(s, at)
           T == {i \in 0 .. Len(s) : a[i] # b[i]}
<1>1. SUFFICES ASSUME T # {} PROVE FALSE
  OBVIOUS
<1>2. PICK i \in T : \A j \in T : i <= j
  <2>1. T \subseteq Nat
    OBVIOUS
  <2> HIDE DEF T
  <2> QED
    BY <1>1, <2>1, LeastNumber
<1>3. /\ Append(s, x) \in Seq(Nat) /\ Len(Append(s, x)) = Len(s) + 1 /\ Len(s) \in Nat
      /\ \A j \in 1 .. Len(s) : Append(s, x)[j] = s[j]
  OBVIOUS
<1>4. a[0] = b[0]
  BY <1>3, KeptValues
<1>5. i # 0 /\ i \in 1 .. Len(s) /\ i - 1 \in 0 .. Len(s) /\ i - 1 \notin T
  BY <1>2, <1>3, <1>4
<1>6. a[i - 1] = b[i - 1]
  BY <1>5
<1>7. a[i] = IF at < s[i] + LimitWindow THEN Append(a[i - 1], s[i]) ELSE a[i - 1]
  <2> PICK t : t = Append(s, x)
    OBVIOUS
  <2>1. t \in Seq(Nat) /\ i \in 1 .. Len(t) /\ t[i] = s[i]
    BY <1>3, <1>5
  <2>2. Kept(t, at)[i] = IF at < t[i] + LimitWindow THEN Append(Kept(t, at)[i - 1], t[i]) ELSE Kept(t, at)[i - 1]
    BY <2>1, KeptValues
  <2> QED
    BY <2>1, <2>2
<1>8. b[i] = IF at < s[i] + LimitWindow THEN Append(b[i - 1], s[i]) ELSE b[i - 1]
  BY <1>3, <1>5, KeptValues
<1> QED
  BY <1>2, <1>6, <1>7, <1>8

LEMMA RecentOfNone ==
    ASSUME NEW at
    PROVE  Recent(<<>>, at) = <<>>
<1>1. <<>> \in Seq(Nat) /\ Len(<<>>) = 0
  OBVIOUS
<1> QED
  BY <1>1, RecentIsKept, KeptValues

LEMMA RecentOfMore ==
    ASSUME NEW s \in Seq(Nat), NEW x \in Nat, NEW at
    PROVE  Recent(Append(s, x), at) =
              IF at < x + LimitWindow THEN Append(Recent(s, at), x) ELSE Recent(s, at)
<1> DEFINE t == Append(s, x)
<1>1. t \in Seq(Nat) /\ Len(t) = Len(s) + 1 /\ Len(s) \in Nat /\ t[Len(s) + 1] = x
  OBVIOUS
<1>2. Kept(t, at)[Len(s)] = Kept(s, at)[Len(s)]
  BY <1>1, KeptOfPrefix
<1>3. Len(t) \in 1 .. Len(t) /\ Len(t) - 1 = Len(s) /\ t[Len(t)] = x
  BY <1>1
<1> HIDE DEF t
<1>4. Kept(t, at)[Len(t)] =
         IF at < x + LimitWindow THEN Append(Kept(t, at)[Len(s)], x) ELSE Kept(t, at)[Len(s)]
  BY <1>1, <1>3, KeptValues
<1>5. Recent(t, at) = IF at < x + LimitWindow THEN Append(Recent(s, at), x) ELSE Recent(s, at)
  BY <1>2, <1>4, RecentIsKept
<1> QED
  BY <1>5 DEF t

(* Induction over sequences: a set that holds one holds the empty one, or  *)
(* one that is longer by an element than one it does not hold.             *)
LEMMA ShortestSequence ==
    ASSUME NEW S, NEW T, T \subseteq Seq(S), T # {}
    PROVE  <<>> \in T \/ \E s \in Seq(S), x \in S : s \notin T /\ Append(s, x) \in T
<1> DEFINE N == {Len(t) : t \in T}
<1>1. N \subseteq Nat /\ N # {}
  <2>1. \A t \in T : t \in Seq(S) /\ Len(t) \in Nat
    OBVIOUS
  <2> QED
    BY <2>1
<1>2. PICK n \in N : \A m \in N : n <= m
  <2> HIDE DEF N
  <2> QED
    BY <1>1, LeastNumber
<1>3. PICK t \in T : Len(t) = n
  BY <1>2
<1>4. t \in Seq(S) /\ n \in Nat
  BY <1>3
<1>5. CASE n = 0
  <2>1. t = <<>>
    BY <1>3, <1>4, <1>5
  <2> QED
    BY <1>3, <2>1
<1>6. CASE n # 0
  <2> DEFINE s == SubSeq(t, 1, n - 1)
             x == t[n]
  <2>1. n - 1 \in Nat /\ n \in 1 .. Len(t)
    BY <1>3, <1>4, <1>6
  <2>2. s \in Seq(S) /\ x \in S /\ Len(s) = n - 1
    BY <1>3, <1>4, <2>1
  <2>3. Append(s, x) = t
    BY <1>3, <1>4, <2>1, <2>2
  <2>4. s \notin T
    <3>1. s \in T => Len(s) \in N
      OBVIOUS
    <3> HIDE DEF N, s
    <3> QED
      BY <1>2, <1>4, <2>2, <3>1
  <2> QED
    BY <1>3, <2>2, <2>3, <2>4
<1> QED
  BY <1>5, <1>6

LEMMA RecentTyped ==
    ASSUME NEW times \in Seq(Times), NEW at
    PROVE  Recent(times, at) \in Seq(Times)
<1> DEFINE T == {s \in Seq(Times) : Recent(s, at) \notin Seq(Times)}
<1>1. SUFFICES T = {}
  OBVIOUS
<1>2. Recent(<<>>, at) \in Seq(Times)
  <2>1. Recent(<<>>, at) = <<>>
    BY RecentOfNone
  <2>2. <<>> \in Seq(Times)
    OBVIOUS
  <2> QED
    BY <2>1, <2>2, Zenon
<1>3. ASSUME NEW s \in Seq(Times), NEW x \in Times, s \notin T
      PROVE  Append(s, x) \notin T
  <2>1. s \in Seq(Nat) /\ x \in Nat
    BY NumbersTyped DEF Times
  <2>2. Recent(Append(s, x), at) \in {Append(Recent(s, at), x), Recent(s, at)}
    BY <2>1, RecentOfMore
  <2>3. Recent(s, at) \in Seq(Times)
    BY <1>3
  <2> QED
    BY <1>3, <2>2, <2>3
<1>4. T \subseteq Seq(Times) /\ <<>> \notin T
  BY <1>2
<1> HIDE DEF T
<1> QED
  BY <1>3, <1>4, ShortestSequence

(* As time passes, less is recent.                                         *)
LEMMA RecentShrinks ==
    ASSUME NEW times \in Seq(Times), NEW at \in Nat, NEW later \in Nat, at <= later
    PROVE  Len(Recent(times, later)) <= Len(Recent(times, at))
<1> DEFINE T == {s \in Seq(Times) : ~(Len(Recent(s, later)) <= Len(Recent(s, at)))}
<1>1. SUFFICES T = {}
  OBVIOUS
<1>2. Len(Recent(<<>>, later)) <= Len(Recent(<<>>, at))
  BY RecentOfNone
<1>3. ASSUME NEW s \in Seq(Times), NEW x \in Times, s \notin T
      PROVE  Append(s, x) \notin T
  <2>1. s \in Seq(Nat) /\ x \in Nat /\ LimitWindow \in Nat
    BY NumbersTyped, RowsAssumption DEF Times
  <2> DEFINE a == Recent(s, at)
             b == Recent(s, later)
             aa == Recent(Append(s, x), at)
             bb == Recent(Append(s, x), later)
  <2>2. /\ aa = IF at < x + LimitWindow THEN Append(a, x) ELSE a
        /\ bb = IF later < x + LimitWindow THEN Append(b, x) ELSE b
    BY <2>1, RecentOfMore
  <2>3. a \in Seq(Times) /\ b \in Seq(Times) /\ Len(b) <= Len(a)
    BY <1>3, RecentTyped
  <2>4. later < x + LimitWindow => at < x + LimitWindow
    BY <2>1
  <2> HIDE DEF a, b
  <2>5. Len(bb) <= Len(aa)
    BY <2>2, <2>3, <2>4
  <2> QED
    BY <2>5
<1>4. T \subseteq Seq(Times) /\ <<>> \notin T
  BY <1>2
<1> HIDE DEF T
<1> QED
  BY <1>3, <1>4, ShortestSequence

(* What was dropped earlier is not recent later.                           *)
LEMMA RecentAgain ==
    ASSUME NEW times \in Seq(Times), NEW at \in Nat, NEW later \in Nat, at <= later
    PROVE  Recent(Recent(times, at), later) = Recent(times, later)
<1> DEFINE T == {s \in Seq(Times) : Recent(Recent(s, at), later) # Recent(s, later)}
<1>1. SUFFICES T = {}
  OBVIOUS
<1>2. Recent(Recent(<<>>, at), later) = Recent(<<>>, later)
  <2>1. Recent(<<>>, at) = <<>> /\ Recent(<<>>, later) = <<>>
    BY RecentOfNone
  <2> QED
    BY <2>1
<1>3. ASSUME NEW s \in Seq(Times), NEW x \in Times, s \notin T
      PROVE  Append(s, x) \notin T
  <2>1. s \in Seq(Nat) /\ x \in Nat /\ LimitWindow \in Nat
    BY NumbersTyped, RowsAssumption DEF Times
  <2> DEFINE a == Recent(s, at)
             t == Append(s, x)
  <2>2. a \in Seq(Times) /\ a \in Seq(Nat) /\ Recent(a, later) = Recent(s, later)
    <3>1. a \in Seq(Times)
      BY RecentTyped
    <3>2. a \in Seq(Nat)
      BY <3>1, NumbersTyped DEF Times
    <3> QED
      BY <1>3, <3>1, <3>2
  <2>3. Recent(t, at) = IF at < x + LimitWindow THEN Append(a, x) ELSE a
    BY <2>1, RecentOfMore
  <2>4. Recent(t, later) = IF later < x + LimitWindow THEN Append(Recent(s, later), x) ELSE Recent(s, later)
    BY <2>1, RecentOfMore
  <2>5. later < x + LimitWindow => at < x + LimitWindow
    BY <2>1
  <2> HIDE DEF a
  <2>6. Recent(Append(a, x), later) =
           IF later < x + LimitWindow THEN Append(Recent(a, later), x) ELSE Recent(a, later)
    BY <2>1, <2>2, RecentOfMore
  <2>7. Recent(Recent(t, at), later) = Recent(t, later)
    BY <2>2, <2>3, <2>4, <2>5, <2>6
  <2> QED
    BY <2>7
<1>4. T \subseteq Seq(Times) /\ <<>> \notin T
  BY <1>2
<1> HIDE DEF T
<1> QED
  BY <1>3, <1>4, ShortestSequence

(* One more failure is counted, and only one, also by who looks later.     *)
LEMMA FailedOnce ==
    ASSUME NEW times \in Seq(Times), NEW at \in Times, NEW later \in Nat, at <= later
    PROVE  /\ Failed(times, at) \in Seq(Times)
           /\ Len(Recent(Failed(times, at), later)) <= Len(Recent(times, later)) + 1
<1>1. at \in Nat /\ Recent(times, at) \in Seq(Times)
  BY RecentTyped, NumbersTyped DEF Times
<1>2. Recent(times, at) \in Seq(Nat)
  BY <1>1, NumbersTyped DEF Times
<1>3. Recent(Recent(times, at), later) = Recent(times, later)
  BY <1>1, RecentAgain
<1>4. Recent(Append(Recent(times, at), at), later) \in {Append(Recent(times, later), at), Recent(times, later)}
  BY <1>1, <1>2, <1>3, RecentOfMore
<1>5. Recent(times, later) \in Seq(Times)
  BY RecentTyped
<1>6. Len(Append(Recent(times, later), at)) = Len(Recent(times, later)) + 1 /\ Len(Recent(times, later)) \in Nat
  BY <1>5
<1> QED
  BY <1>1, <1>4, <1>6 DEF Failed

-----------------------------------------------------------------------------
(* The invariant of the rest: what may still be counted at the limiter,    *)
(* and which codes can be accepted.                                        *)

(* The requests the limiter let in that may still fail at a key's cost.    *)
Guessing(key) ==
    {b \in Browsers : request[b].phase \in {"password", "code"} /\ key \in {"user", b}}

LimiterOK ==
    /\ failures \in [Keys -> Seq(Times)]
    /\ \A key \in Keys :
          Len(Recent(failures[key], now)) + Cardinality(Guessing(key)) < Limit(key) + Cardinality(Browsers)

CountsOK ==
    /\ begun \in [requests : 0 .. MaxRequests, commands : 0 .. MaxCommands]
    /\ codes \subseteq (1 .. MaxSecrets) \X CodeSteps
    /\ twice \in BOOLEAN /\ stale \in BOOLEAN

SameCodes(u, v) == u.secret = v.secret /\ u.pending = v.pending /\ u.last = v.last

NoCodes(u) == u.secret = 0 /\ u.pending = 0 /\ u.last = 0

(* What is saved is made of the row as it was loaded: as it is, confirmed, *)
(* without codes, or with a secret of its own pending.                     *)
MadeOfRead(r) ==
    /\ r.phase \in {"password", "choose", "code", "consume", "next", "issue", "record", "end"} =>
          r.copy = r.read
    /\ r.phase = "change" => SameCodes(r.copy, r.read)
    /\ r.phase = "save" /\ r.code # 0 =>
          /\ r.read.pending # 0 /\ r.copy.secret = r.read.pending
          /\ r.copy.pending = 0 /\ r.copy.last = r.code
    /\ r.phase = "save" /\ r.code = 0 =>
          \/ NoCodes(r.copy)
          \/ r.copy.pending # 0 /\ r.copy.secret = r.read.secret /\ r.copy.last = r.read.last

CopiesMade ==
    /\ \A b \in Browsers : MadeOfRead(request[b])
    /\ console.phase = "save" => SameCodes(console.copy, console.read) \/ NoCodes(console.copy)

(* A secret a request will offer, and nobody has yet.                      *)
Offers(r) == r.phase = "save" /\ r.copy # NoUser /\ r.copy.pending # 0

OfferNew(b) ==
    LET n == request[b].copy.pending
    IN  /\ n <= made.secrets
        /\ \A c \in codes : c[1] # n
        /\ user # NoUser => n # user.secret /\ n # user.pending
        /\ \A d \in Browsers \ {b} : Offers(request[d]) => request[d].copy.pending # n

(* Of the user's secret no code past the last was accepted, of the pending *)
(* one none.                                                               *)
CodesUsed(u) ==
    u # NoUser =>
        /\ u.secret <= made.secrets /\ u.pending <= made.secrets
        /\ u.pending # 0 => u.pending # u.secret
        /\ \A c \in codes : c[1] # u.pending /\ (c[1] = u.secret => c[2] <= u.last)

CodesOK ==
    /\ ~twice
    /\ \A c \in codes : c[1] <= made.secrets
    /\ CodesUsed(user)
    /\ \A b \in Browsers : Offers(request[b]) => OfferNew(b)

CodeInv == CopiesMade /\ (~stale => CodesOK)

AllInv == SignInInv /\ CountsOK /\ LimiterOK /\ CodeInv

-----------------------------------------------------------------------------
(* What a request becomes.                                                 *)
LEMMA Becomes ==
    ASSUME SignInInv, NEW b \in Browsers, NEW r, To(b, r)
    PROVE  \A c \in Browsers : request'[c] = IF c = b THEN r ELSE request[c]
BY DEF To, SignInInv, RequestsOK

LEMMA CopyFields ==
    ASSUME SignInInv, NEW b \in Browsers, There(request[b].copy)
    PROVE  /\ request[b].copy \in Written /\ request[b].copy \in Users
           /\ request[b].copy.secret \in 0 .. MaxSecrets /\ user # NoUser
<1>1. request[b].copy \in Rows /\ request[b].copy # NoUser
  BY RequestFields DEF SignInInv, There
<1>2. request[b].copy \in Written
  BY <1>1 DEF Written
<1> QED
  BY <1>2, RowFields DEF There

LEMMA MatchingSteps ==
    ASSUME NEW at, NEW last
    PROVE  Matching(at, last) \subseteq CodeSteps /\ \A step \in Matching(at, last) : step > last
BY DEF Matching

LEMMA BegunTyped ==
    ASSUME CountsOK, BeginRequest \/ BeginCommand
    PROVE  begun' \in [requests : 0 .. MaxRequests, commands : 0 .. MaxCommands]
<1>1. begun \in [requests : 0 .. MaxRequests, commands : 0 .. MaxCommands]
  BY DEF CountsOK
<1>2. MaxRequests \in Nat /\ MaxCommands \in Nat
  BY SignInAssumption
<1>3. CASE BeginRequest
  <2> PICK n : n = begun.requests + 1
    OBVIOUS
  <2>1. n \in 0 .. MaxRequests /\ begun' = [begun EXCEPT !.requests = n]
    BY <1>1, <1>2, <1>3 DEF BeginRequest
  <2> QED
    BY <1>1, <2>1
<1>4. CASE BeginCommand
  <2> PICK n : n = begun.commands + 1
    OBVIOUS
  <2>1. n \in 0 .. MaxCommands /\ begun' = [begun EXCEPT !.commands = n]
    BY <1>1, <1>2, <1>4 DEF BeginCommand
  <2> QED
    BY <1>1, <2>1
<1> QED
  BY <1>3, <1>4

LEMMA AcceptedTyped ==
    ASSUME CountsOK, NEW secret \in 1 .. MaxSecrets, NEW step \in CodeSteps, Accepted(secret, step)
    PROVE  codes' \subseteq (1 .. MaxSecrets) \X CodeSteps /\ twice' \in BOOLEAN
BY DEF CountsOK, Accepted

LEMMA SaveTyped ==
    ASSUME CountsOK, NEW read, NEW row, Save(read, row)
    PROVE  stale' \in BOOLEAN
BY DEF CountsOK, Save

LEMMA ColumnsMade ==
    ASSUME NEW u \in Written
    PROVE  /\ SameCodes(WithOwnPassword(u), u)
           /\ \A at : SameCodes(WithOneTimePassword(u, at), u)
           /\ NoCodes(WithoutTOTP(u))
           /\ \A step : /\ WithTOTP(u, step).secret = u.pending
                        /\ WithTOTP(u, step).pending = 0 /\ WithTOTP(u, step).last = step
           /\ \A n : /\ [u EXCEPT !.pending = n].secret = u.secret
                     /\ [u EXCEPT !.pending = n].pending = n /\ [u EXCEPT !.pending = n].last = u.last
           /\ \A step : /\ [u EXCEPT !.last = step].secret = u.secret
                        /\ [u EXCEPT !.last = step].pending = u.pending /\ [u EXCEPT !.last = step].last = step
<1>1. u \in Users
  BY RowFields
<1> QED
  BY <1>1 DEF SameCodes, NoCodes, WithOwnPassword, WithOneTimePassword, WithoutTOTP, WithTOTP, Users

LEMMA ChosenPassword ==
    ASSUME SignInInv, NEW b \in Browsers, ChoosePassword(b)
    PROVE  \E row \in Written :
              /\ Save(request[b].read, row) /\ SameCodes(row, request[b].copy)
              /\ request[b].copy \in Written
              /\ To(b, [request[b] EXCEPT !.phase = "consume", !.read = row, !.copy = row])
<1> DEFINE copy == request[b].copy
           row == WithOwnPassword(copy)
<1>1. Save(request[b].read, row) /\ To(b, [request[b] EXCEPT !.phase = "consume", !.read = row, !.copy = row])
  BY DEF ChoosePassword
<1>2. copy \in Rows
  BY RequestFields DEF SignInInv
<1>3. row.id = copy.id
  BY <1>2 DEF WithOwnPassword, Rows, Users, NoUser
<1>4. copy \in Written
  BY <1>1, <1>3, SavedCopy
<1>5. row \in Written /\ SameCodes(row, copy)
  <2>1. 0 \in Nat
    OBVIOUS
  <2> QED
    BY <1>4, <2>1, PasswordRows, ColumnsMade
<1> HIDE DEF row
<1> QED
  BY <1>1, <1>4, <1>5

LEMMA EnteredCode ==
    ASSUME SignInInv, NEW b \in Browsers, RightCode(b)
    PROVE  \E step \in CodeSteps, row \in Written :
              /\ Save(request[b].read, row) /\ Accepted(row.secret, step)
              /\ request[b].copy \in Written /\ request[b].copy.secret # 0
              /\ row.secret = request[b].copy.secret /\ row.pending = request[b].copy.pending
              /\ row.last = step /\ step > request[b].copy.last
              /\ To(b, [request[b] EXCEPT !.phase = "consume", !.read = row, !.copy = row])
<1> DEFINE copy == request[b].copy
<1>1. PICK step \in Matching(request[b].at, copy.last) :
         LET row == [copy EXCEPT !.last = step]
         IN  /\ Save(request[b].read, row) /\ Accepted(row.secret, step)
             /\ To(b, [request[b] EXCEPT !.phase = "consume", !.read = row, !.copy = row])
  BY DEF RightCode
<1> DEFINE row == [copy EXCEPT !.last = step]
<1>2. copy \in Rows /\ copy.secret # 0
  BY RequestFields DEF SignInInv, RightCode
<1>3. row.id = copy.id
  BY <1>2 DEF Rows, Users, NoUser
<1>4. copy \in Written
  BY <1>1, <1>3, SavedCopy
<1>5. step \in CodeSteps /\ step > copy.last
  BY MatchingSteps
<1>6. /\ row \in Written /\ row.secret = copy.secret /\ row.pending = copy.pending /\ row.last = step
  BY <1>2, <1>4, <1>5, TOTPRows, ColumnsMade
<1>7. /\ Save(request[b].read, row) /\ Accepted(row.secret, step)
      /\ To(b, [request[b] EXCEPT !.phase = "consume", !.read = row, !.copy = row])
  BY <1>1
<1> HIDE DEF row
<1> QED
  BY <1>2, <1>4, <1>5, <1>6, <1>7

LEMMA CountsKept ==
    ASSUME SignInInv, CountsOK, CopiesMade, [Next]_vars
    PROVE  CountsOK'
<1>1. CASE UNCHANGED vars
  BY <1>1 DEF vars, CountsOK
<1>2. CASE Tick
  BY <1>2 DEF Tick, CountsOK
<1>3. ASSUME NEW b \in Browsers,
             \/ GiveUp(b) \/ Wrong(b) \/ RightPassword(b) \/ Consume(b)
             \/ IssueToken(b) \/ DeleteExpired(b) \/ IssueSession(b) \/ Touch(b) \/ SignOut(b)
             \/ ChangePassword(b) \/ EndSessions(b) \/ BeginTOTP(b) \/ ConfirmTOTP(b) \/ DisableTOTP(b)
      PROVE  CountsOK'
  BY <1>3 DEF CountsOK, GiveUp, Wrong, RightPassword, Consume, IssueToken, DeleteExpired, IssueSession,
     Touch, SignOut, ChangePassword, EndSessions, BeginTOTP, ConfirmTOTP, DisableTOTP
<1>4. ASSUME NEW b \in Browsers, SignInStart(b) \/ SetPassword(b) \/ VerifyTOTP(b) \/ Authenticate(b)
      PROVE  CountsOK'
  <2>1. BeginRequest /\ UNCHANGED <<codes, twice, stale>>
    BY <1>4 DEF SignInStart, SetPassword, VerifyTOTP, Authenticate
  <2> QED
    BY <2>1, BegunTyped DEF CountsOK
<1>5. ASSUME NEW b \in Browsers, ChoosePassword(b) \/ RecordSignIn(b) \/ SavePassword(b)
      PROVE  CountsOK'
  <2>1. /\ Save(request[b].read, WithOwnPassword(request[b].copy)) \/ Save(request[b].read, request[b].copy)
        /\ UNCHANGED <<begun, codes, twice>>
    BY <1>5 DEF ChoosePassword, RecordSignIn, SavePassword
  <2> QED
    BY <2>1, SaveTyped DEF CountsOK
<1>6. ASSUME NEW b \in Browsers, RightCode(b)
      PROVE  CountsOK'
  <2>1. PICK step \in CodeSteps, row \in Written :
           Save(request[b].read, row) /\ Accepted(row.secret, step) /\ row.secret = request[b].copy.secret
           /\ request[b].copy.secret # 0
    BY <1>6, EnteredCode
  <2>2. row.secret \in 1 .. MaxSecrets
    BY <2>1, RowFields, NumbersTyped
  <2> QED
    BY <1>6, <2>1, <2>2, AcceptedTyped, SaveTyped DEF CountsOK, RightCode
<1>7. ASSUME NEW b \in Browsers, SaveAccount(b)
      PROVE  CountsOK'
  <2> DEFINE r == request[b]
  <2>1. Save(r.read, r.copy) /\ begun' = begun /\ r.phase = "save"
    BY <1>7 DEF SaveAccount
  <2>2. CASE r.code # 0
    <3>1. r.copy.secret \in 0 .. MaxSecrets
      BY <2>1, CopyFields DEF Save
    <3>2. r.read \in Rows /\ r.read.pending # 0 /\ r.copy.secret = r.read.pending
      BY <2>1, <2>2, RequestFields DEF CopiesMade, MadeOfRead, SignInInv
    <3>3. r.code \in CodeSteps /\ Accepted(r.copy.secret, r.code)
      BY <1>7, <2>2, RequestFields DEF SignInInv, Requests, SaveAccount
    <3>4. r.copy.secret \in 1 .. MaxSecrets
      BY <3>1, <3>2, NumbersTyped
    <3> QED
      BY <2>1, <3>3, <3>4, AcceptedTyped, SaveTyped DEF CountsOK
  <2>3. CASE r.code = 0
    BY <1>7, <2>1, <2>3, SaveTyped DEF CountsOK, SaveAccount
  <2> QED
    BY <2>2, <2>3
<1>8. CASE AddUser \/ Reset \/ DeleteUser
  <2>1. BeginCommand /\ UNCHANGED <<codes, twice, stale>>
    BY <1>8 DEF AddUser, Reset, DeleteUser
  <2> QED
    BY <2>1, BegunTyped DEF CountsOK
<1>9. CASE SaveReset
  BY <1>9, SaveTyped DEF SaveReset, CountsOK
<1>10. CASE EndReset
  BY <1>10 DEF EndReset, CountsOK
<1> QED
  BY <1>1, <1>2, <1>3, <1>4, <1>5, <1>6, <1>7, <1>8, <1>9, <1>10 DEF Next

-----------------------------------------------------------------------------
(* What each step makes of its request, as far as codes and guesses go.    *)
Others(b) == \A c \in Browsers \ {b} : request'[c] = request[c]

LEMMA RequestEnds ==
    ASSUME SignInInv, NEW b \in Browsers,
           GiveUp(b) \/ Wrong(b) \/ IssueToken(b) \/ RecordSignIn(b) \/ SignOut(b) \/ SaveAccount(b)
    PROVE  request'[b] = Idle /\ Others(b)
<1>1. To(b, Idle)
  BY DEF GiveUp, Wrong, IssueToken, RecordSignIn, SignOut, SaveAccount
<1> QED
  BY <1>1, Becomes DEF Others

LEMMA StepLoads ==
    ASSUME SignInInv, NEW b \in Browsers, NEW t, NEW phase, NEW scope, Step(b, t, phase, scope)
    PROVE  request'[b].phase = phase /\ request'[b].read = user /\ request'[b].copy = user /\ Others(b)
<1> DEFINE r == [Idle EXCEPT !.phase = phase, !.read = user, !.copy = user, !.token = cookie[b].signin,
                             !.steps = t.scopes \ {scope}, !.needed = t.needed,
                             !.passed = t.passed \cup {scope}, !.at = now]
<1>1. To(b, r)
  BY DEF Step
<1>2. r.phase = phase /\ r.read = user /\ r.copy = user
  BY DEF Idle
<1> HIDE DEF r
<1> QED
  BY <1>1, <1>2, Becomes DEF Others

LEMMA RequestLoads ==
    ASSUME SignInInv, NEW b \in Browsers, SignInStart(b) \/ SetPassword(b) \/ VerifyTOTP(b)
    PROVE  /\ request'[b].phase \in {"password", "choose", "code"}
           /\ request'[b].read = user /\ request'[b].copy = user /\ Others(b)
<1>2. CASE SignInStart(b)
  <2> DEFINE r == [Idle EXCEPT !.phase = "password", !.read = user, !.copy = user, !.at = now]
  <2>1. To(b, r)
    BY <1>2 DEF SignInStart
  <2>2. r.phase = "password" /\ r.read = user /\ r.copy = user
    BY DEF Idle
  <2> HIDE DEF r
  <2> QED
    BY <2>1, <2>2, Becomes DEF Others
<1>3. CASE SetPassword(b)
  BY <1>3, StepLoads DEF SetPassword
<1>4. CASE VerifyTOTP(b)
  <2> DEFINE t == [Held(cookie[b].signin) EXCEPT !.scopes = {"totp"}]
  <2>1. Step(b, t, "code", "totp")
    BY <1>4 DEF VerifyTOTP
  <2> HIDE DEF t
  <2> QED
    BY <2>1, StepLoads
<1> QED
  BY <1>2, <1>3, <1>4

LEMMA RequestSaved ==
    ASSUME SignInInv, NEW b \in Browsers, NEW row,
           To(b, [request[b] EXCEPT !.phase = "consume", !.read = row, !.copy = row])
    PROVE  /\ request'[b].phase = "consume" /\ request'[b].read = row /\ request'[b].copy = row /\ Others(b)
<1> DEFINE r == [request[b] EXCEPT !.phase = "consume", !.read = row, !.copy = row]
<1>1. r.phase = "consume" /\ r.read = row /\ r.copy = row
  BY RequestFields DEF SignInInv, Requests
<1>2. To(b, r)
  OBVIOUS
<1> HIDE DEF r
<1> QED
  BY <1>1, <1>2, Becomes DEF Others

LEMMA RequestGoesOn ==
    ASSUME SignInInv, NEW b \in Browsers,
           RightPassword(b) \/ Consume(b) \/ DeleteExpired(b) \/ IssueSession(b) \/ EndSessions(b)
    PROVE  /\ request[b].phase \in {"password", "consume", "next", "issue", "end"}
           /\ request'[b].phase \in {"next", "issue", "record"}
           /\ request'[b].read = request[b].read /\ request'[b].copy = request[b].copy /\ Others(b)
<1>0. request[b] \in Requests
  BY RequestFields DEF SignInInv
<1>1. SUFFICES ASSUME NEW r, To(b, r), r.phase \in {"next", "issue", "record"},
                      r.read = request[b].read, r.copy = request[b].copy
               PROVE  request'[b].phase \in {"next", "issue", "record"}
                      /\ request'[b].read = request[b].read /\ request'[b].copy = request[b].copy /\ Others(b)
  <2>1. request[b].phase \in {"password", "consume", "next", "issue", "end"}
    BY DEF RightPassword, Consume, DeleteExpired, IssueSession, EndSessions
  <2>2. CASE RightPassword(b)
    <3> DEFINE r == [request[b] EXCEPT !.phase = "next", !.steps = Steps(request[b].copy),
                                       !.needed = Steps(request[b].copy)]
    <3>1. To(b, r) /\ r.phase = "next" /\ r.read = request[b].read /\ r.copy = request[b].copy
      BY <1>0, <2>2 DEF RightPassword, Requests
    <3> HIDE DEF r
    <3> QED
      BY <1>1, <2>1, <3>1
  <2>3. CASE Consume(b)
    <3> DEFINE r == [request[b] EXCEPT !.phase = "next"]
    <3>1. To(b, r) /\ r.phase = "next" /\ r.read = request[b].read /\ r.copy = request[b].copy
      BY <1>0, <2>3 DEF Consume, Requests
    <3> HIDE DEF r
    <3> QED
      BY <1>1, <2>1, <3>1
  <2>4. CASE DeleteExpired(b)
    <3> DEFINE r == [request[b] EXCEPT !.phase = "issue", !.at = now]
    <3>1. To(b, r) /\ r.phase = "issue" /\ r.read = request[b].read /\ r.copy = request[b].copy
      BY <1>0, <2>4 DEF DeleteExpired, Requests
    <3> HIDE DEF r
    <3> QED
      BY <1>1, <2>1, <3>1
  <2>5. CASE IssueSession(b)
    <3> DEFINE r == [request[b] EXCEPT !.phase = "record", !.token = NewToken]
    <3>1. To(b, r) /\ r.phase = "record" /\ r.read = request[b].read /\ r.copy = request[b].copy
      BY <1>0, <2>5 DEF IssueSession, Requests
    <3> HIDE DEF r
    <3> QED
      BY <1>1, <2>1, <3>1
  <2>6. CASE EndSessions(b)
    <3> DEFINE r == [request[b] EXCEPT !.phase = "next", !.token = 0]
    <3>1. To(b, r) /\ r.phase = "next" /\ r.read = request[b].read /\ r.copy = request[b].copy
      BY <1>0, <2>6 DEF EndSessions, Requests
    <3> HIDE DEF r
    <3> QED
      BY <1>1, <2>1, <3>1
  <2> QED
    BY <2>2, <2>3, <2>4, <2>5, <2>6
<1> QED
  BY <1>1, Becomes DEF Others

LEMMA RequestVisits ==
    ASSUME SignInInv, NEW b \in Browsers, Authenticate(b) \/ Touch(b)
    PROVE  request'[b].phase \in {"touch", "account"} /\ Others(b)
<1>1. CASE Authenticate(b)
  <2> DEFINE t == Held(cookie[b].session)
             r == [Idle EXCEPT !.phase = "touch", !.copy = user, !.token = cookie[b].session,
                               !.at = now, !.due = TouchDue(t, now)]
  <2>1. To(b, r) /\ r.phase = "touch"
    BY <1>1 DEF Authenticate, Idle
  <2> HIDE DEF r
  <2> QED
    BY <2>1, Becomes DEF Others
<1>2. CASE Touch(b)
  <2> DEFINE r == [request[b] EXCEPT !.phase = "account", !.due = FALSE]
  <2>1. request[b] \in Requests
    BY RequestFields DEF SignInInv
  <2>2. To(b, r) /\ r.phase = "account"
    BY <1>2, <2>1 DEF Touch, Requests
  <2> HIDE DEF r
  <2> QED
    BY <2>2, Becomes DEF Others
<1> QED
  BY <1>1, <1>2

LEMMA RequestChanges ==
    ASSUME SignInInv, NEW b \in Browsers, NEW phase, NEW row, NEW code, Load(b, phase, row, code)
    PROVE  /\ request'[b].phase = phase /\ request'[b].read = user /\ request'[b].copy = row
           /\ request'[b].code = code /\ Others(b) /\ user \in Written
<1> DEFINE r == [request[b] EXCEPT !.phase = phase, !.read = user, !.copy = row, !.code = code]
<1>1. To(b, r) /\ user \in Written
  BY UserIsThere DEF Load
<1>2. r.phase = phase /\ r.read = user /\ r.copy = row /\ r.code = code
  BY RequestFields DEF SignInInv, Requests
<1> HIDE DEF r
<1> QED
  BY <1>1, <1>2, Becomes DEF Others

LEMMA RequestEndsSessions ==
    ASSUME SignInInv, NEW b \in Browsers, SavePassword(b)
    PROVE  /\ request'[b].phase = "end" /\ request'[b].read = request[b].copy
           /\ request'[b].copy = request[b].copy /\ Others(b)
<1> DEFINE r == [request[b] EXCEPT !.phase = "end", !.read = request[b].copy]
<1>1. To(b, r)
  BY DEF SavePassword
<1>2. r.phase = "end" /\ r.read = request[b].copy /\ r.copy = request[b].copy
  BY RequestFields DEF SignInInv, Requests
<1> HIDE DEF r
<1> QED
  BY <1>1, <1>2, Becomes DEF Others

(* None of these waits for a password or a code afterwards.                *)
LEMMA NoGuesses ==
    ASSUME SignInInv, NEW b \in Browsers,
           \/ GiveUp(b) \/ SetPassword(b) \/ ChoosePassword(b) \/ RightCode(b) \/ Consume(b)
           \/ IssueToken(b) \/ DeleteExpired(b) \/ IssueSession(b) \/ RecordSignIn(b)
           \/ Authenticate(b) \/ Touch(b) \/ SignOut(b)
           \/ ChangePassword(b) \/ SavePassword(b) \/ EndSessions(b)
           \/ BeginTOTP(b) \/ ConfirmTOTP(b) \/ DisableTOTP(b) \/ SaveAccount(b)
    PROVE  request'[b].phase \notin {"password", "code"} /\ Others(b)
<1>1. CASE GiveUp(b) \/ IssueToken(b) \/ RecordSignIn(b) \/ SignOut(b) \/ SaveAccount(b)
  BY <1>1, RequestEnds DEF Idle
<1>2. CASE ChoosePassword(b)
  <2>1. PICK row \in Written : To(b, [request[b] EXCEPT !.phase = "consume", !.read = row, !.copy = row])
    BY <1>2, ChosenPassword
  <2> QED
    BY <2>1, RequestSaved
<1>3. CASE RightCode(b)
  <2>1. PICK row \in Written : To(b, [request[b] EXCEPT !.phase = "consume", !.read = row, !.copy = row])
    BY <1>3, EnteredCode
  <2> QED
    BY <2>1, RequestSaved
<1>4. CASE Consume(b) \/ DeleteExpired(b) \/ IssueSession(b) \/ EndSessions(b)
  BY <1>4, RequestGoesOn
<1>5. CASE Authenticate(b) \/ Touch(b)
  BY <1>5, RequestVisits
<1>6. CASE ChangePassword(b) \/ BeginTOTP(b) \/ ConfirmTOTP(b) \/ DisableTOTP(b)
  <2>1. PICK phase, row, code : phase \in {"change", "save"} /\ Load(b, phase, row, code)
    BY <1>6 DEF ChangePassword, BeginTOTP, ConfirmTOTP, DisableTOTP
  <2> QED
    BY <2>1, RequestChanges
<1>7. CASE SavePassword(b)
  BY <1>7, RequestEndsSessions
<1>8. CASE SetPassword(b)
  BY <1>8, StepLoads DEF SetPassword
<1> QED
  BY <1>1, <1>2, <1>3, <1>4, <1>5, <1>6, <1>7, <1>8

-----------------------------------------------------------------------------
(* The limiter's count.                                                    *)
LEMMA GuessingFinite ==
    ASSUME NEW key
    PROVE  /\ IsFiniteSet(Browsers) /\ Cardinality(Browsers) \in Nat
           /\ IsFiniteSet(Guessing(key)) /\ Cardinality(Guessing(key)) \in Nat
           /\ Cardinality(Guessing(key)) <= Cardinality(Browsers)
<1>1. IsFiniteSet(Browsers) /\ Guessing(key) \subseteq Browsers
  BY SignInAssumption DEF Guessing
<1> QED
  BY <1>1, FS_Subset, FS_CardinalityType

LEMMA LimitTyped ==
    ASSUME NEW key
    PROVE  Limit(key) \in Nat /\ Limit(key) > 0
BY RowsAssumption DEF Limit

(* Nobody more guesses, and no failure is added.                           *)
LEMMA CountStays ==
    ASSUME NEW key \in Keys, LimiterOK, now \in Nat, now' \in Nat, now <= now',
           failures'[key] \in {failures[key], <<>>}, Guessing(key)' \subseteq Guessing(key)
    PROVE  Len(Recent(failures'[key], now')) + Cardinality(Guessing(key)')
              < Limit(key) + Cardinality(Browsers)
<1> DEFINE few == Guessing(key)'
           many == Guessing(key)
           n == Len(Recent(failures[key], now))
           m == Len(Recent(failures'[key], now'))
<1>1. Cardinality(few) <= Cardinality(many) /\ Cardinality(few) \in Nat /\ Cardinality(many) \in Nat
  <2>1. IsFiniteSet(many) /\ few \subseteq many
    BY GuessingFinite
  <2> HIDE DEF few, many
  <2> QED
    BY <2>1, FS_Subset, FS_CardinalityType
<1>2. failures[key] \in Seq(Times)
  BY DEF LimiterOK
<1>3. n \in Nat /\ Recent(failures[key], now') \in Seq(Times) /\ Len(Recent(failures[key], now')) <= n
  <2>1. Recent(failures[key], now) \in Seq(Times) /\ Recent(failures[key], now') \in Seq(Times)
    BY <1>2, RecentTyped
  <2> QED
    BY <1>2, <2>1, RecentShrinks
<1>4. m \in Nat /\ m <= n
  <2>1. CASE failures'[key] = failures[key]
    BY <1>3, <2>1
  <2>2. CASE failures'[key] = <<>>
    <3>1. Recent(<<>>, now') = <<>>
      BY RecentOfNone
    <3> QED
      BY <1>3, <2>2, <3>1
  <2> QED
    BY <2>1, <2>2
<1>5. n + Cardinality(many) < Limit(key) + Cardinality(Browsers)
  BY DEF LimiterOK
<1>6. Limit(key) \in Nat /\ Cardinality(Browsers) \in Nat
  BY GuessingFinite, LimitTyped
<1> HIDE DEF few, many, n, m
<1> QED
  BY <1>1, <1>3, <1>4, <1>5, <1>6 DEF few, m

LEMMA LimiterQuiet ==
    ASSUME SignInInv, LimiterOK, now' \in Nat, now <= now', failures' = failures,
           \A b \in Browsers : request'[b].phase \in {"password", "code"} =>
                                  request[b].phase \in {"password", "code"}
    PROVE  LimiterOK'
<1>1. now \in Nat
  BY NumbersTyped DEF SignInInv, RowsOK, Times
<1>2. ASSUME NEW key \in Keys
      PROVE  Guessing(key)' \subseteq Guessing(key)
  BY DEF Guessing
<1> QED
  BY <1>1, <1>2, CountStays DEF LimiterOK

(* One that was let in at a key has not reached its limit.                 *)
LEMMA LetIn ==
    ASSUME NEW key \in Keys, LimiterOK, now \in Nat, ~Blocked(failures[key], Limit(key), now)
    PROVE  Len(Recent(failures[key], now)) + Cardinality(Guessing(key)')
              < Limit(key) + Cardinality(Browsers)
<1>1. Len(Recent(failures[key], now)) \in Nat
  <2>1. Recent(failures[key], now) \in Seq(Times)
    BY RecentTyped DEF LimiterOK
  <2> QED
    BY <2>1
<1>2. Len(Recent(failures[key], now)) < Limit(key)
  BY <1>1, LimitTyped DEF Blocked
<1>3. Cardinality(Guessing(key)') <= Cardinality(Browsers) /\ Cardinality(Guessing(key)') \in Nat
      /\ Cardinality(Browsers) \in Nat
  <2> DEFINE G == Guessing(key)'
  <2>1. G \subseteq Browsers /\ IsFiniteSet(Browsers)
    BY SignInAssumption DEF Guessing
  <2> HIDE DEF G
  <2>2. IsFiniteSet(G) /\ Cardinality(G) <= Cardinality(Browsers)
    BY <2>1, FS_Subset
  <2>3. Cardinality(G) \in Nat /\ Cardinality(Browsers) \in Nat
    BY <2>1, <2>2, FS_CardinalityType
  <2> QED
    BY <2>2, <2>3 DEF G
<1> QED
  BY <1>1, <1>2, <1>3, LimitTyped

LEMMA LimiterLetsIn ==
    ASSUME SignInInv, LimiterOK, NEW b \in Browsers, NEW r, To(b, r), UNCHANGED <<failures, now>>,
           ~Blocked(failures["user"], Limit("user"), now), ~Blocked(failures[b], Limit(b), now)
    PROVE  LimiterOK'
<1>1. now \in Nat
  BY NumbersTyped DEF SignInInv, RowsOK, Times
<1>2. ASSUME NEW key \in Keys, key \notin {"user", b}
      PROVE  Guessing(key)' \subseteq Guessing(key)
  BY <1>2, Becomes DEF Guessing
<1>3. ASSUME NEW key \in Keys
      PROVE  Len(Recent(failures'[key], now')) + Cardinality(Guessing(key)')
                < Limit(key) + Cardinality(Browsers)
  <2>1. CASE key \in {"user", b}
    BY <1>1, <2>1, LetIn
  <2>2. CASE key \notin {"user", b}
    BY <1>1, <1>2, <2>2, CountStays
  <2> QED
    BY <2>1, <2>2
<1> QED
  BY <1>3 DEF LimiterOK

(* A failure: one is counted more, and one fewer may still fail.           *)
LEMMA LimiterCounts ==
    ASSUME SignInInv, LimiterOK, NEW b \in Browsers, Wrong(b)
    PROVE  LimiterOK'
<1> DEFINE at == request[b].at
<1>0. now \in Nat /\ now' = now /\ at \in Times /\ at <= now /\ request[b].phase \in {"password", "code"}
      /\ To(b, Idle) /\ CountFailure(b)
  <2>1. at # 0
    BY RequestFields DEF Wrong, SignInInv, Asking
  <2> QED
    BY <2>1, RequestFields, NumbersTyped DEF Wrong, SignInInv, Requests, Times
<1>1. "user" \in Keys /\ b \in Keys /\ b # "user" /\ failures \in [Keys -> Seq(Times)]
  BY SignInAssumption DEF Keys, LimiterOK
<1>2. /\ \A key \in {"user", b} : failures'[key] = Failed(failures[key], at)
      /\ \A key \in Keys \ {"user", b} : failures'[key] = failures[key]
      /\ DOMAIN failures' = Keys /\ failures' = [key \in DOMAIN failures' |-> failures'[key]]
  BY <1>0, <1>1 DEF CountFailure
<1>3. ASSUME NEW key \in {"user", b}
      PROVE  /\ failures'[key] \in Seq(Times)
             /\ Len(Recent(failures'[key], now')) + Cardinality(Guessing(key)')
                   < Limit(key) + Cardinality(Browsers)
  <2> DEFINE n == Len(Recent(failures[key], now))
             m == Len(Recent(failures'[key], now))
             many == Guessing(key)
             few == Guessing(key)'
  <2>1. key \in Keys /\ failures[key] \in Seq(Times)
    BY <1>1
  <2>2. Failed(failures[key], at) \in Seq(Times) /\ m <= n + 1
    BY <1>0, <1>2, <2>1, FailedOnce
  <2>3. n \in Nat /\ m \in Nat
    <3>1. Recent(failures[key], now) \in Seq(Times)
      BY <2>1, RecentTyped
    <3>2. Recent(failures'[key], now) \in Seq(Times)
      BY <1>2, <2>2, RecentTyped
    <3> QED
      BY <3>1, <3>2
  <2>4. b \in many /\ few = many \ {b}
    <3>1. b \in many
      BY <1>0 DEF Guessing
    <3>2. request'[b].phase = "idle" /\ \A c \in Browsers \ {b} : request'[c] = request[c]
      BY <1>0, Becomes DEF Idle
    <3> QED
      BY <3>1, <3>2 DEF Guessing
  <2>5. IsFiniteSet(many) /\ Cardinality(many) \in Nat /\ Cardinality(Browsers) \in Nat /\ Limit(key) \in Nat
    BY GuessingFinite, LimitTyped
  <2>6. n + Cardinality(many) < Limit(key) + Cardinality(Browsers)
    BY <2>1 DEF LimiterOK
  <2> HIDE DEF many, few, n, m
  <2>7. Cardinality(few) = Cardinality(many) - 1
    BY <2>4, <2>5, FS_RemoveElement
  <2> QED
    BY <1>0, <1>2, <2>2, <2>3, <2>5, <2>6, <2>7 DEF few, m
<1>4. ASSUME NEW key \in Keys \ {"user", b}
      PROVE  /\ failures'[key] \in Seq(Times)
             /\ Len(Recent(failures'[key], now')) + Cardinality(Guessing(key)')
                   < Limit(key) + Cardinality(Browsers)
  <2>1. Guessing(key)' \subseteq Guessing(key)
    BY <1>0, Becomes DEF Guessing
  <2>2. key \in Keys /\ failures'[key] = failures[key] /\ failures'[key] \in Seq(Times)
    BY <1>1, <1>2
  <2>3. now' \in Nat /\ now <= now' /\ now \in Nat /\ failures'[key] \in {failures[key], <<>>}
    BY <1>0, <2>2
  <2>4. Len(Recent(failures'[key], now')) + Cardinality(Guessing(key)') < Limit(key) + Cardinality(Browsers)
    BY <2>1, <2>2, <2>3, CountStays
  <2> QED
    BY <2>2, <2>4
<1>5. \A key \in Keys : failures'[key] \in Seq(Times)
  BY <1>3, <1>4
<1> QED
  BY <1>2, <1>3, <1>4, <1>5 DEF LimiterOK

LEMMA LimiterForgets ==
    ASSUME SignInInv, LimiterOK, NEW b \in Browsers, RightPassword(b)
    PROVE  LimiterOK'
<1>1. now \in Nat /\ now' = now /\ request[b] \in Requests
  BY RequestFields DEF RightPassword, SignInInv
<1>2. failures' = [failures EXCEPT !["user"] = <<>>] /\ <<>> \in Seq(Times)
  BY DEF RightPassword
<1>3. failures' \in [Keys -> Seq(Times)] /\ \A key \in Keys : failures'[key] \in {failures[key], <<>>}
  BY <1>2 DEF LimiterOK
<1>4. request'[b].phase = "next" /\ \A c \in Browsers \ {b} : request'[c] = request[c]
  <2> DEFINE r == [request[b] EXCEPT !.phase = "next", !.steps = Steps(request[b].copy),
                                     !.needed = Steps(request[b].copy)]
  <2>1. r.phase = "next" /\ To(b, r)
    BY <1>1 DEF RightPassword, Requests
  <2> HIDE DEF r
  <2> QED
    BY <2>1, Becomes
<1>5. \A key \in Keys : Guessing(key)' \subseteq Guessing(key)
  BY <1>4 DEF Guessing
<1>6. now' \in Nat /\ now <= now'
  BY <1>1
<1>7. ASSUME NEW key \in Keys
      PROVE  Len(Recent(failures'[key], now')) + Cardinality(Guessing(key)') < Limit(key) + Cardinality(Browsers)
  BY <1>1, <1>3, <1>5, <1>6, CountStays
<1> QED
  BY <1>3, <1>7 DEF LimiterOK

LEMMA LimiterKept ==
    ASSUME SignInInv, LimiterOK, [Next]_vars
    PROVE  LimiterOK'
<1>0. now \in Nat
  BY NumbersTyped DEF SignInInv, RowsOK, Times
<1>1. CASE UNCHANGED vars
  BY <1>0, <1>1, LimiterQuiet DEF vars
<1>2. CASE Tick
  <2>1. now' \in Nat /\ now <= now' /\ UNCHANGED <<failures, request>>
    BY <1>0, <1>2 DEF Tick
  <2> QED
    BY <2>1, LimiterQuiet
<1>3. ASSUME NEW b \in Browsers, SignInStart(b) \/ VerifyTOTP(b)
      PROVE  LimiterOK'
  <2>1. CASE SignInStart(b)
    BY <2>1, LimiterLetsIn DEF SignInStart
  <2>2. CASE VerifyTOTP(b)
    <3> DEFINE t == Held(cookie[b].signin)
               u == [t EXCEPT !.scopes = {"totp"}]
               r == [Idle EXCEPT !.phase = "code", !.read = user, !.copy = user, !.token = cookie[b].signin,
                                 !.steps = u.scopes \ {"totp"}, !.needed = u.needed,
                                 !.passed = u.passed \cup {"totp"}, !.at = now]
    <3>1. To(b, r)
      BY <2>2 DEF VerifyTOTP, Step
    <3> HIDE DEF r
    <3> QED
      BY <2>2, <3>1, LimiterLetsIn DEF VerifyTOTP
  <2> QED
    BY <1>3, <2>1, <2>2
<1>4. ASSUME NEW b \in Browsers, Wrong(b)
      PROVE  LimiterOK'
  BY <1>4, LimiterCounts
<1>5. ASSUME NEW b \in Browsers, RightPassword(b)
      PROVE  LimiterOK'
  BY <1>5, LimiterForgets
<1>6. ASSUME NEW b \in Browsers,
             \/ GiveUp(b) \/ SetPassword(b) \/ ChoosePassword(b) \/ RightCode(b) \/ Consume(b)
             \/ IssueToken(b) \/ DeleteExpired(b) \/ IssueSession(b) \/ RecordSignIn(b)
             \/ Authenticate(b) \/ Touch(b) \/ SignOut(b)
             \/ ChangePassword(b) \/ SavePassword(b) \/ EndSessions(b)
             \/ BeginTOTP(b) \/ ConfirmTOTP(b) \/ DisableTOTP(b) \/ SaveAccount(b)
      PROVE  LimiterOK'
  <2>1. UNCHANGED <<failures, now>>
    BY <1>6 DEF GiveUp, SetPassword, ChoosePassword, RightCode, Consume, IssueToken, DeleteExpired, IssueSession,
       RecordSignIn, Authenticate, Touch, SignOut, ChangePassword, SavePassword, EndSessions,
       BeginTOTP, ConfirmTOTP, DisableTOTP, SaveAccount
  <2>2. now' \in Nat /\ now <= now'
    BY <1>0, <2>1
  <2> QED
    BY <1>6, <2>1, <2>2, NoGuesses, LimiterQuiet DEF Others
<1>7. CASE AddUser \/ Reset \/ SaveReset \/ EndReset \/ DeleteUser
  <2>1. UNCHANGED <<failures, now, request>>
    BY <1>7 DEF AddUser, Reset, SaveReset, EndReset, DeleteUser
  <2>2. now' \in Nat /\ now <= now'
    BY <1>0, <2>1
  <2> QED
    BY <2>1, <2>2, LimiterQuiet
<1> QED
  BY <1>1, <1>2, <1>3, <1>4, <1>5, <1>6, <1>7 DEF Next

-----------------------------------------------------------------------------
(* Copies are made of the rows they were loaded from.                      *)
LEMMA CopiesStay ==
    ASSUME CopiesMade, NEW b \in Browsers, Others(b), MadeOfRead(request'[b]), console' = console
    PROVE  CopiesMade'
<1>1. ASSUME NEW c \in Browsers
      PROVE  MadeOfRead(request'[c])
  BY DEF CopiesMade, Others
<1>2. \A c \in Browsers : MadeOfRead(request[c])'
  BY <1>1 DEF MadeOfRead, SameCodes, NoCodes
<1> QED
  BY <1>2 DEF CopiesMade, SameCodes, NoCodes

LEMMA CopiesKept ==
    ASSUME SignInInv, CopiesMade, [Next]_vars
    PROVE  CopiesMade'
<1>1. CASE UNCHANGED <<request, console>>
  BY <1>1 DEF CopiesMade, MadeOfRead, SameCodes, NoCodes
<1>2. ASSUME NEW b \in Browsers,
             GiveUp(b) \/ Wrong(b) \/ IssueToken(b) \/ RecordSignIn(b) \/ SignOut(b) \/ SaveAccount(b)
      PROVE  CopiesMade'
  <2>1. request'[b] = Idle /\ Others(b) /\ console' = console
    BY <1>2, RequestEnds DEF GiveUp, Wrong, IssueToken, RecordSignIn, SignOut, SaveAccount
  <2>2. MadeOfRead(request'[b])
    BY <2>1 DEF MadeOfRead, Idle
  <2> QED
    BY <2>1, <2>2, CopiesStay
<1>3. ASSUME NEW b \in Browsers, SignInStart(b) \/ SetPassword(b) \/ VerifyTOTP(b)
      PROVE  CopiesMade'
  <2>1. console' = console
    BY <1>3 DEF SignInStart, SetPassword, VerifyTOTP
  <2>2. MadeOfRead(request'[b])
    BY <1>3, RequestLoads DEF MadeOfRead
  <2> QED
    BY <1>3, <2>1, <2>2, RequestLoads, CopiesStay
<1>4. ASSUME NEW b \in Browsers, ChoosePassword(b) \/ RightCode(b)
      PROVE  CopiesMade'
  <2>1. PICK row : To(b, [request[b] EXCEPT !.phase = "consume", !.read = row, !.copy = row])
    BY <1>4, ChosenPassword, EnteredCode
  <2>2. request'[b].phase = "consume" /\ request'[b].read = row /\ request'[b].copy = row /\ Others(b)
    BY <2>1, RequestSaved
  <2>3. MadeOfRead(request'[b]) /\ console' = console
    BY <1>4, <2>2 DEF MadeOfRead, ChoosePassword, RightCode
  <2> QED
    BY <2>2, <2>3, CopiesStay
<1>5. ASSUME NEW b \in Browsers,
             RightPassword(b) \/ Consume(b) \/ DeleteExpired(b) \/ IssueSession(b) \/ EndSessions(b)
      PROVE  CopiesMade'
  <2>1. MadeOfRead(request[b])
    BY DEF CopiesMade
  <2>2. MadeOfRead(request'[b])
    BY <1>5, <2>1, RequestGoesOn DEF MadeOfRead
  <2>3. console' = console
    BY <1>5 DEF RightPassword, Consume, DeleteExpired, IssueSession, EndSessions
  <2> QED
    BY <1>5, <2>2, <2>3, RequestGoesOn, CopiesStay
<1>6. ASSUME NEW b \in Browsers, Authenticate(b) \/ Touch(b)
      PROVE  CopiesMade'
  <2>1. MadeOfRead(request'[b])
    BY <1>6, RequestVisits DEF MadeOfRead
  <2>2. console' = console
    BY <1>6 DEF Authenticate, Touch
  <2> QED
    BY <1>6, <2>1, <2>2, RequestVisits, CopiesStay
<1>7. ASSUME NEW b \in Browsers, ChangePassword(b)
      PROVE  CopiesMade'
  <2>1. Load(b, "change", WithOwnPassword(user), 0) /\ console' = console
    BY <1>7 DEF ChangePassword
  <2>2. /\ request'[b].phase = "change" /\ request'[b].read = user
        /\ request'[b].copy = WithOwnPassword(user) /\ Others(b) /\ user \in Written
    BY <2>1, RequestChanges
  <2>3. MadeOfRead(request'[b])
    BY <2>2, ColumnsMade DEF MadeOfRead
  <2> QED
    BY <2>1, <2>2, <2>3, CopiesStay
<1>8. ASSUME NEW b \in Browsers, BeginTOTP(b)
      PROVE  CopiesMade'
  <2> DEFINE row == [user EXCEPT !.pending = made.secrets + 1]
  <2>1. Load(b, "save", row, 0) /\ console' = console
    BY <1>8 DEF BeginTOTP
  <2>2. /\ request'[b].phase = "save" /\ request'[b].read = user
        /\ request'[b].copy = row /\ request'[b].code = 0 /\ Others(b) /\ user \in Written
    BY <2>1, RequestChanges
  <2>3. made.secrets + 1 # 0
    BY DEF SignInInv, RowsOK
  <2>4. row.pending = made.secrets + 1 /\ row.secret = user.secret /\ row.last = user.last
    BY <2>2, ColumnsMade
  <2> HIDE DEF row
  <2>5. MadeOfRead(request'[b])
    BY <2>2, <2>3, <2>4 DEF MadeOfRead
  <2> QED
    BY <2>1, <2>2, <2>5, CopiesStay
<1>9. ASSUME NEW b \in Browsers, ConfirmTOTP(b)
      PROVE  CopiesMade'
  <2>1. PICK step \in Matching(now, 0) : Load(b, "save", WithTOTP(user, step), step)
    BY <1>9 DEF ConfirmTOTP
  <2> DEFINE row == WithTOTP(user, step)
  <2>2. /\ request'[b].phase = "save" /\ request'[b].read = user
        /\ request'[b].copy = row /\ request'[b].code = step /\ Others(b) /\ user \in Written
    BY <2>1, RequestChanges
  <2>3. user.pending # 0 /\ console' = console /\ step # 0
    BY <1>9, MatchingSteps, StepIsNumber DEF ConfirmTOTP
  <2>4. row.secret = user.pending /\ row.pending = 0 /\ row.last = step
    BY <2>2, ColumnsMade
  <2> HIDE DEF row
  <2>5. MadeOfRead(request'[b])
    BY <2>2, <2>3, <2>4 DEF MadeOfRead
  <2> QED
    BY <2>2, <2>3, <2>5, CopiesStay
<1>10. ASSUME NEW b \in Browsers, DisableTOTP(b)
      PROVE  CopiesMade'
  <2>1. Load(b, "save", WithoutTOTP(user), 0) /\ console' = console
    BY <1>10 DEF DisableTOTP
  <2>2. /\ request'[b].phase = "save" /\ request'[b].copy = WithoutTOTP(user)
        /\ request'[b].code = 0 /\ Others(b) /\ user \in Written
    BY <2>1, RequestChanges
  <2>3. MadeOfRead(request'[b])
    BY <2>2, ColumnsMade DEF MadeOfRead
  <2> QED
    BY <2>1, <2>2, <2>3, CopiesStay
<1>11. ASSUME NEW b \in Browsers, SavePassword(b)
      PROVE  CopiesMade'
  <2>1. MadeOfRead(request'[b]) /\ console' = console
    BY <1>11, RequestEndsSessions DEF MadeOfRead, SavePassword
  <2> QED
    BY <1>11, <2>1, RequestEndsSessions, CopiesStay
<1>12. CASE Reset
  <2>1. user \in Written /\ request' = request
    BY <1>12 DEF Reset, SignInInv, RowsOK, Written
  <2>2. PICK row \in {WithOneTimePassword(user, now), WithoutTOTP(user)} :
           console' = [phase |-> "save", read |-> user, copy |-> row]
    BY <1>12 DEF Reset
  <2>3. console'.copy = row /\ console'.read = user
    BY <2>2
  <2>4. SameCodes(console'.copy, console'.read) \/ NoCodes(console'.copy)
    BY <2>1, <2>2, <2>3, ColumnsMade
  <2> QED
    BY <2>1, <2>4 DEF CopiesMade, MadeOfRead, SameCodes, NoCodes
<1>13. CASE SaveReset \/ EndReset
  <2>1. console'.phase # "save" /\ request' = request
    <3>1. console \in Commanded
      BY DEF SignInInv, RowsOK
    <3> QED
      BY <1>13, <3>1 DEF SaveReset, EndReset, NoCommand, Commanded
  <2> QED
    BY <2>1 DEF CopiesMade, MadeOfRead, SameCodes, NoCodes
<1>14. CASE Tick \/ AddUser \/ DeleteUser \/ UNCHANGED vars
  BY <1>1, <1>14 DEF Tick, AddUser, DeleteUser, vars
<1> QED
  BY <1>2, <1>3, <1>4, <1>5, <1>6, <1>7, <1>8, <1>9, <1>10, <1>11, <1>12, <1>13, <1>14 DEF Next

-----------------------------------------------------------------------------
(* Codes.  While no copy was saved over a row that had changed, a copy     *)
(* that is saved was made of the very row it replaces.                     *)
LEMMA SavedFresh ==
    ASSUME NEW read, NEW row, Save(read, row), ~stale'
    PROVE  ~stale /\ user = read /\ user' = row /\ user # NoUser
BY DEF Save, There

LEMMA SecretsTyped ==
    ASSUME SignInInv, CountsOK
    PROVE  /\ made.secrets \in Nat /\ made.secrets <= MaxSecrets
           /\ \A c \in codes : c[1] \in Nat /\ c[1] # 0 /\ c[2] \in Nat
           /\ user # NoUser => /\ user.secret \in Nat /\ user.pending \in Nat /\ user.last \in Nat
                               /\ user \in Written
<1>1. made.secrets \in Nat /\ made.secrets <= MaxSecrets
  BY NumbersTyped DEF SignInInv, RowsOK
<1>2. \A c \in codes : c[1] \in Nat /\ c[1] # 0 /\ c[2] \in Nat
  BY NumbersTyped DEF CountsOK, CodeSteps
<1>3. user # NoUser => user \in Written
  BY DEF SignInInv, RowsOK, Written
<1>4. ASSUME user \in Written
      PROVE  user.secret \in Nat /\ user.pending \in Nat /\ user.last \in Nat
  BY <1>4, RowFields, NumbersTyped DEF CodeSteps
<1> QED
  BY <1>1, <1>2, <1>3, <1>4

(* Nothing is accepted, and nothing new offered.                           *)
LEMMA CodesStay ==
    ASSUME SignInInv, CountsOK, CodesOK, codes' = codes, twice' = twice, made'.secrets = made.secrets,
           \/ user' = user \/ user' = NoUser \/ NoCodes(user')
           \/ user # NoUser /\ SameCodes(user', user),
           \A b \in Browsers : Offers(request'[b]) => request'[b] = request[b]
    PROVE  CodesOK'
<1>1. user' # NoUser => NoCodes(user') \/ (user # NoUser /\ SameCodes(user', user))
  BY DEF SameCodes
<1>2. CodesUsed(user)'
  <2>1. CASE NoCodes(user')
    BY <2>1, SecretsTyped DEF NoCodes, CodesUsed
  <2>2. CASE user # NoUser /\ SameCodes(user', user)
    BY <2>2 DEF SameCodes, CodesUsed, CodesOK
  <2>3. CASE user' = NoUser
    BY <2>3 DEF CodesUsed
  <2> QED
    BY <1>1, <2>1, <2>2, <2>3
<1>3. ASSUME NEW b \in Browsers, Offers(request'[b])
      PROVE  OfferNew(b)'
  <2> DEFINE n == request[b].copy.pending
  <2>1. request'[b] = request[b] /\ Offers(request[b]) /\ OfferNew(b) /\ n # 0
    BY <1>3 DEF CodesOK, Offers
  <2>2. n <= made.secrets /\ (\A c \in codes : c[1] # n) /\ (user # NoUser => n # user.secret /\ n # user.pending)
    BY <2>1 DEF OfferNew
  <2>3. user' # NoUser => n # user'.secret /\ n # user'.pending
    BY <1>1, <2>1, <2>2 DEF NoCodes, SameCodes
  <2>4. \A d \in Browsers \ {b} : Offers(request'[d]) => request'[d].copy.pending # n
    BY <2>1 DEF OfferNew
  <2> QED
    BY <2>1, <2>2, <2>3, <2>4 DEF OfferNew
<1> QED
  BY <1>2, <1>3 DEF CodesOK, Offers

LEMMA OffersOfOthers ==
    ASSUME NEW b \in Browsers, Others(b), ~Offers(request'[b])
    PROVE  \A c \in Browsers : Offers(request'[c]) => request'[c] = request[c]
BY DEF Others

(* The steps of a browser that leave the row and the codes alone.          *)
LEMMA CodesUntouched ==
    ASSUME SignInInv, CountsOK, CodesOK, NEW b \in Browsers,
           \/ GiveUp(b) \/ SignInStart(b) \/ Wrong(b) \/ RightPassword(b) \/ SetPassword(b) \/ VerifyTOTP(b)
           \/ Consume(b) \/ IssueToken(b) \/ DeleteExpired(b) \/ IssueSession(b)
           \/ Authenticate(b) \/ Touch(b) \/ SignOut(b) \/ ChangePassword(b) \/ EndSessions(b)
           \/ ConfirmTOTP(b) \/ DisableTOTP(b)
    PROVE  CodesOK'
<1>1. UNCHANGED <<user, codes, twice>> /\ made'.secrets = made.secrets
  <2>1. made \in [users : 0 .. MaxUsers, secrets : 0 .. MaxSecrets, tokens : 0 .. MaxTokens]
    BY DEF SignInInv, RowsOK
  <2> QED
    BY <2>1 DEF GiveUp, SignInStart, Wrong, RightPassword, SetPassword, VerifyTOTP, Consume, IssueToken,
       DeleteExpired, IssueSession, Authenticate, Touch, SignOut, ChangePassword, EndSessions,
       ConfirmTOTP, DisableTOTP
<1>2. Others(b) /\ ~Offers(request'[b])
  <2>1. CASE GiveUp(b) \/ Wrong(b) \/ IssueToken(b) \/ SignOut(b)
    BY <2>1, RequestEnds DEF Idle, Offers
  <2>2. CASE SignInStart(b) \/ SetPassword(b) \/ VerifyTOTP(b)
    BY <2>2, RequestLoads DEF Offers
  <2>3. CASE RightPassword(b) \/ Consume(b) \/ DeleteExpired(b) \/ IssueSession(b) \/ EndSessions(b)
    BY <2>3, RequestGoesOn DEF Offers
  <2>4. CASE Authenticate(b) \/ Touch(b)
    BY <2>4, RequestVisits DEF Offers
  <2>5. CASE ChangePassword(b)
    <3>1. Load(b, "change", WithOwnPassword(user), 0)
      BY <2>5 DEF ChangePassword
    <3> QED
      BY <3>1, RequestChanges DEF Offers
  <2>6. CASE ConfirmTOTP(b)
    <3>1. PICK step : Load(b, "save", WithTOTP(user, step), step)
      BY <2>6 DEF ConfirmTOTP
    <3> QED
      BY <3>1, RequestChanges, ColumnsMade DEF Offers
  <2>7. CASE DisableTOTP(b)
    <3>1. Load(b, "save", WithoutTOTP(user), 0)
      BY <2>7 DEF DisableTOTP
    <3> QED
      BY <3>1, RequestChanges, ColumnsMade DEF Offers, NoCodes
  <2> QED
    BY <2>1, <2>2, <2>3, <2>4, <2>5, <2>6, <2>7
<1> QED
  BY <1>1, <1>2, OffersOfOthers, CodesStay

(* Saves that leave the columns of codes as they are in the row.           *)
LEMMA CodesOfOtherSaves ==
    ASSUME SignInInv, CountsOK, CopiesMade, CodesOK, ~stale', NEW b \in Browsers,
           ChoosePassword(b) \/ RecordSignIn(b) \/ SavePassword(b)
    PROVE  CodesOK'
<1>0. MadeOfRead(request[b])
  BY DEF CopiesMade
<1>1. UNCHANGED <<made, codes, twice>>
  BY DEF ChoosePassword, RecordSignIn, SavePassword
<1>2. Others(b) /\ ~Offers(request'[b]) /\ user # NoUser /\ SameCodes(user', user)
  <2>1. CASE ChoosePassword(b)
    <3>1. PICK row \in Written :
             /\ Save(request[b].read, row) /\ SameCodes(row, request[b].copy)
             /\ To(b, [request[b] EXCEPT !.phase = "consume", !.read = row, !.copy = row])
      BY <2>1, ChosenPassword
    <3>2. request[b].copy = request[b].read
      BY <1>0, <2>1 DEF ChoosePassword, MadeOfRead
    <3>3. user' = row /\ user = request[b].read /\ user # NoUser
      BY <3>1, SavedFresh
    <3>4. Others(b) /\ request'[b].phase = "consume"
      BY <3>1, RequestSaved
    <3> QED
      BY <3>1, <3>2, <3>3, <3>4 DEF Offers
  <2>2. CASE RecordSignIn(b)
    <3>1. request[b].copy = request[b].read /\ Save(request[b].read, request[b].copy)
      BY <1>0, <2>2 DEF RecordSignIn, MadeOfRead
    <3>2. Others(b) /\ ~Offers(request'[b])
      BY <2>2, RequestEnds DEF Idle, Offers
    <3> QED
      BY <3>1, <3>2, SavedFresh DEF SameCodes
  <2>3. CASE SavePassword(b)
    <3>1. SameCodes(request[b].copy, request[b].read) /\ Save(request[b].read, request[b].copy)
      BY <1>0, <2>3 DEF SavePassword, MadeOfRead
    <3>2. Others(b) /\ ~Offers(request'[b])
      BY <2>3, RequestEndsSessions DEF Offers
    <3> QED
      BY <3>1, <3>2, SavedFresh
  <2> QED
    BY <2>1, <2>2, <2>3
<1> QED
  BY <1>1, <1>2, OffersOfOthers, CodesStay

(* A code of a secret the row has, and of a step after its last.           *)
LEMMA CodesOfNewCode ==
    ASSUME SignInInv, CountsOK, CodesOK, NEW b \in Browsers, Others(b), ~Offers(request'[b]),
           NEW row, NEW secret, NEW step \in CodeSteps, user # NoUser, user' = row, row # NoUser,
           row.secret = secret, row.last = step, secret # 0, made' = made, Accepted(secret, step),
           \/ secret = user.secret /\ step > user.last /\ row.pending = user.pending
           \/ secret = user.pending /\ row.pending = 0
    PROVE  CodesOK'
<1>1. /\ made.secrets \in Nat /\ user.secret \in Nat /\ user.pending \in Nat /\ user.last \in Nat
      /\ step \in Nat /\ \A c \in codes : c[1] \in Nat /\ c[1] # 0 /\ c[2] \in Nat
  BY SecretsTyped, StepIsNumber
<1>2. CodesUsed(user)
  BY DEF CodesOK
<1>3. secret <= made.secrets /\ secret \in Nat /\ row.pending # secret
      /\ row.pending \in Nat /\ row.pending <= made.secrets
  BY <1>1, <1>2 DEF CodesUsed
<1>4. \A c \in codes : c[1] # row.pending /\ (c[1] = secret => c[2] < step)
  BY <1>1, <1>2 DEF CodesUsed
<1>5. codes' = codes \cup {<<secret, step>>} /\ twice' = (twice \/ <<secret, step>> \in codes)
  BY DEF Accepted
<1>6. ~twice'
  <2>1. <<secret, step>> \notin codes
    <3>1. SUFFICES ASSUME <<secret, step>> \in codes PROVE FALSE
      OBVIOUS
    <3>2. step < step
      BY <1>4, <3>1
    <3> QED
      BY <1>1, <3>2
  <2> QED
    BY <1>5, <2>1 DEF CodesOK
<1>7. \A c \in codes' : c \in codes \/ (c[1] = secret /\ c[2] = step)
  BY <1>5
<1>8. CodesUsed(user)'
  <2>1. \A c \in codes' : c[1] # row.pending /\ (c[1] = secret => c[2] <= step)
    BY <1>1, <1>3, <1>4, <1>7
  <2> QED
    BY <1>3, <2>1 DEF CodesUsed
<1>9. ASSUME NEW d \in Browsers, Offers(request'[d])
      PROVE  OfferNew(d)'
  <2> DEFINE n == request[d].copy.pending
  <2>1. request'[d] = request[d] /\ OfferNew(d) /\ n # 0
    BY <1>9, OffersOfOthers DEF CodesOK, Offers
  <2>2. n <= made.secrets /\ (\A c \in codes : c[1] # n) /\ n # user.secret /\ n # user.pending
    BY <2>1 DEF OfferNew
  <2>3. (\A c \in codes' : c[1] # n) /\ n # user'.secret /\ n # user'.pending
    BY <1>7, <2>1, <2>2
  <2>4. \A e \in Browsers \ {d} : Offers(request'[e]) => request'[e].copy.pending # n
    <3>1. \A e \in Browsers \ {d} : Offers(request[e]) => request[e].copy.pending # n
      BY <2>1 DEF OfferNew
    <3>2. \A e \in Browsers : Offers(request'[e]) => request'[e] = request[e]
      BY OffersOfOthers
    <3> QED
      BY <3>1, <3>2
  <2> QED
    BY <2>1, <2>2, <2>3, <2>4 DEF OfferNew
<1>10. \A c \in codes' : c[1] <= made'.secrets
  BY <1>3, <1>7 DEF CodesOK
<1>11. \A d \in Browsers : Offers(request[d])' => OfferNew(d)'
  BY <1>9 DEF Offers
<1> QED
  BY <1>6, <1>8, <1>10, <1>11 DEF CodesOK

LEMMA CodesOfRightCode ==
    ASSUME SignInInv, CountsOK, CopiesMade, CodesOK, ~stale', NEW b \in Browsers, RightCode(b)
    PROVE  CodesOK'
<1> DEFINE copy == request[b].copy
<1>1. PICK step \in CodeSteps, row \in Written :
         /\ Save(request[b].read, row) /\ Accepted(row.secret, step)
         /\ copy.secret # 0 /\ row.secret = copy.secret /\ row.pending = copy.pending
         /\ row.last = step /\ step > copy.last
         /\ To(b, [request[b] EXCEPT !.phase = "consume", !.read = row, !.copy = row])
  BY EnteredCode
<1>2. copy = request[b].read
  BY DEF CopiesMade, MadeOfRead, RightCode
<1>3. user = copy /\ user' = row /\ user # NoUser /\ row # NoUser /\ made' = made
  BY <1>1, <1>2, SavedFresh DEF RightCode, Written
<1>4. Others(b) /\ ~Offers(request'[b])
  BY <1>1, RequestSaved DEF Offers
<1> QED
  BY <1>1, <1>3, <1>4, CodesOfNewCode

(* A new secret is offered.                                                *)
LEMMA CodesOfOffer ==
    ASSUME SignInInv, CountsOK, CodesOK, NEW b \in Browsers, BeginTOTP(b)
    PROVE  CodesOK'
<1> DEFINE n == made.secrets + 1
           row == [user EXCEPT !.pending = n]
<1>1. Load(b, "save", row, 0) /\ UNCHANGED <<user, codes, twice>> /\ made' = [made EXCEPT !.secrets = n]
  BY DEF BeginTOTP
<1>2. request'[b].phase = "save" /\ request'[b].copy = row /\ Others(b) /\ user \in Written
  BY <1>1, RequestChanges
<1>3. row.pending = n
  BY <1>2, ColumnsMade
<1>4. made'.secrets = n
  BY <1>1 DEF SignInInv, RowsOK
<1>5. /\ made.secrets \in Nat /\ user.secret \in Nat /\ user.pending \in Nat /\ user # NoUser
      /\ \A c \in codes : c[1] \in Nat
  BY <1>2, SecretsTyped, NoUserIsARow DEF Written
<1> HIDE DEF row
<1>6. \A c \in codes : c[1] <= made.secrets
  BY DEF CodesOK
<1>7. CodesUsed(user)'
  BY <1>1, <1>4, <1>5 DEF CodesUsed, CodesOK
<1>8. ASSUME NEW d \in Browsers \ {b}, Offers(request'[d])
      PROVE  /\ request'[d] = request[d] /\ Offers(request[d]) /\ OfferNew(d)
             /\ request[d].copy.pending <= made.secrets
  BY <1>2, <1>8 DEF Others, CodesOK, OfferNew
<1>9. OfferNew(b)'
  <2>1. user.secret < n /\ user.pending < n /\ \A c \in codes : c[1] # n
    BY <1>5, <1>6 DEF CodesOK, CodesUsed
  <2>2. \A d \in Browsers \ {b} : Offers(request'[d]) => request'[d].copy.pending # n
    <3>1. ASSUME NEW d \in Browsers \ {b}, Offers(request'[d]) PROVE request'[d].copy.pending # n
      BY <1>5, <1>8, <3>1
    <3> QED
      BY <3>1
  <2>3. n <= n /\ user.secret # n /\ user.pending # n
    BY <1>5, <2>1
  <2> HIDE DEF n
  <2> QED
    BY <1>1, <1>2, <1>3, <1>4, <2>1, <2>2, <2>3 DEF OfferNew
<1>10. ASSUME NEW d \in Browsers \ {b}, Offers(request'[d])
       PROVE  OfferNew(d)'
  <2> DEFINE m == request[d].copy.pending
  <2>1. request'[d] = request[d] /\ OfferNew(d) /\ m <= made.secrets
    BY <1>8, <1>10
  <2>2. m \in Nat
    <3>1. request[d].copy \in Written
      BY <1>8, <1>10, RequestFields DEF SignInInv, Offers, Written
    <3> QED
      BY <3>1, RowFields, NumbersTyped
  <2>3. m <= n /\ m # n
    BY <1>5, <2>1, <2>2
  <2>4. (\A c \in codes : c[1] # m) /\ m # user.secret /\ m # user.pending
    BY <1>5, <2>1 DEF OfferNew
  <2>5. \A e \in Browsers \ {d} : Offers(request'[e]) => request'[e].copy.pending # m
    <3>1. ASSUME NEW e \in Browsers \ {d}, Offers(request'[e]) PROVE request'[e].copy.pending # m
      <4>1. CASE e = b
        BY <1>2, <1>3, <2>3, <4>1
      <4>2. CASE e # b
        BY <1>8, <2>1, <3>1, <4>2 DEF OfferNew
      <4> QED
        BY <4>1, <4>2
    <3> QED
      BY <3>1
  <2> HIDE DEF m, n
  <2> QED
    BY <1>1, <1>4, <2>1, <2>3, <2>4, <2>5 DEF OfferNew, m
<1>11. \A c \in codes' : c[1] <= made'.secrets
  BY <1>1, <1>4, <1>5, <1>6
<1>12. \A d \in Browsers : Offers(request[d])' => OfferNew(d)'
  BY <1>9, <1>10 DEF Offers
<1>13. ~twice'
  BY <1>1 DEF CodesOK
<1> QED
  BY <1>7, <1>11, <1>12, <1>13 DEF CodesOK

(* Once a copy was saved over a row that had changed, that is remembered.  *)
LEMMA StaleStays ==
    ASSUME CountsOK, [Next]_vars, ~stale'
    PROVE  ~stale
<1>1. \A read, row : Save(read, row) => ~stale
  BY DEF Save
<1>2. ASSUME NEW b \in Browsers,
             \/ ChoosePassword(b) \/ RightCode(b) \/ RecordSignIn(b) \/ SavePassword(b) \/ SaveAccount(b)
      PROVE  ~stale
  BY <1>1, <1>2 DEF ChoosePassword, RightCode, RecordSignIn, SavePassword, SaveAccount
<1>3. ASSUME NEW b \in Browsers,
             \/ GiveUp(b) \/ SignInStart(b) \/ Wrong(b) \/ RightPassword(b) \/ SetPassword(b) \/ VerifyTOTP(b)
             \/ Consume(b) \/ IssueToken(b) \/ DeleteExpired(b) \/ IssueSession(b)
             \/ Authenticate(b) \/ Touch(b) \/ SignOut(b) \/ ChangePassword(b) \/ EndSessions(b)
             \/ BeginTOTP(b) \/ ConfirmTOTP(b) \/ DisableTOTP(b)
      PROVE  ~stale
  BY <1>3 DEF GiveUp, SignInStart, Wrong, RightPassword, SetPassword, VerifyTOTP, Consume, IssueToken,
     DeleteExpired, IssueSession, Authenticate, Touch, SignOut, ChangePassword, EndSessions,
     BeginTOTP, ConfirmTOTP, DisableTOTP
<1>4. CASE Tick \/ AddUser \/ Reset \/ SaveReset \/ EndReset \/ DeleteUser \/ UNCHANGED vars
  BY <1>1, <1>4 DEF Tick, AddUser, Reset, SaveReset, EndReset, DeleteUser, vars
<1> QED
  BY <1>2, <1>3, <1>4 DEF Next

(* The account page saves: a confirmed secret with its first code, none,   *)
(* or the one offered.                                                     *)
LEMMA CodesOfAccount ==
    ASSUME SignInInv, CountsOK, CopiesMade, CodesOK, ~stale', NEW b \in Browsers, SaveAccount(b)
    PROVE  CodesOK'
<1> DEFINE r == request[b]
<1>1. /\ r.phase = "save" /\ Save(r.read, r.copy) /\ made' = made
      /\ IF r.code # 0 THEN Accepted(r.copy.secret, r.code) ELSE UNCHANGED <<codes, twice>>
  BY DEF SaveAccount
<1>2. user = r.read /\ user' = r.copy /\ user # NoUser /\ r.copy # NoUser /\ r.copy \in Written
  BY <1>1, SavedFresh, CopyFields DEF Save, Written
<1>3. request'[b] = Idle /\ Others(b) /\ ~Offers(request'[b])
  <2>1. request'[b] = Idle /\ Others(b)
    BY RequestEnds
  <2> QED
    BY <2>1 DEF Idle, Offers
<1>4. MadeOfRead(r)
  BY DEF CopiesMade
<1>5. CASE r.code # 0
  <2>1. /\ user.pending # 0 /\ r.copy.secret = user.pending /\ r.copy.pending = 0 /\ r.copy.last = r.code
    BY <1>1, <1>2, <1>4, <1>5 DEF MadeOfRead
  <2>2. r.code \in CodeSteps /\ Accepted(r.copy.secret, r.code)
    BY <1>1, <1>5, RequestFields DEF SignInInv, Requests
  <2> HIDE DEF r
  <2> QED
    BY <1>1, <1>2, <1>3, <2>1, <2>2, CodesOfNewCode
<1>6. CASE r.code = 0 /\ NoCodes(r.copy)
  BY <1>1, <1>2, <1>3, <1>6, OffersOfOthers, CodesStay
<1>7. CASE r.code = 0 /\ ~NoCodes(r.copy)
  <2> DEFINE n == r.copy.pending
  <2>1. n # 0 /\ r.copy.secret = user.secret /\ r.copy.last = user.last /\ UNCHANGED <<codes, twice>>
    BY <1>1, <1>2, <1>4, <1>7 DEF MadeOfRead
  <2>2. OfferNew(b)
    BY <1>1, <1>2, <2>1 DEF CodesOK, Offers
  <2>3. n <= made.secrets /\ (\A c \in codes : c[1] # n) /\ n # user.secret
    BY <1>2, <2>2 DEF OfferNew
  <2>4. CodesUsed(user)'
    BY <1>1, <1>2, <2>1, <2>3 DEF CodesUsed, CodesOK
  <2>5. ASSUME NEW d \in Browsers, Offers(request'[d])
        PROVE  OfferNew(d)'
    <3> DEFINE m == request[d].copy.pending
    <3>1. d # b /\ request'[d] = request[d] /\ OfferNew(d) /\ Offers(request[d])
      BY <1>3, <2>5 DEF Others, CodesOK
    <3>2. m # n
      BY <2>2, <3>1 DEF OfferNew
    <3>3. m <= made.secrets /\ (\A c \in codes : c[1] # m) /\ m # user.secret
      BY <1>2, <3>1 DEF OfferNew
    <3>4. \A e \in Browsers \ {d} : Offers(request'[e]) => request'[e].copy.pending # m
      <4>1. \A e \in Browsers : Offers(request'[e]) => request'[e] = request[e]
        BY <1>3, OffersOfOthers
      <4> QED
        BY <3>1, <4>1 DEF OfferNew
    <3> QED
      BY <1>1, <1>2, <2>1, <3>1, <3>2, <3>3, <3>4 DEF OfferNew
  <2>6. \A d \in Browsers : Offers(request[d])' => OfferNew(d)'
    BY <2>5 DEF Offers
  <2> QED
    BY <1>1, <2>1, <2>4, <2>6 DEF CodesOK
<1> QED
  BY <1>5, <1>6, <1>7

(* The console.                                                            *)
LEMMA CodesOfCommands ==
    ASSUME SignInInv, CountsOK, CopiesMade, CodesOK, ~stale',
           AddUser \/ Reset \/ SaveReset \/ EndReset \/ DeleteUser
    PROVE  CodesOK'
<1>1. UNCHANGED <<request, codes, twice>> /\ made'.secrets = made.secrets
  <2>1. made \in [users : 0 .. MaxUsers, secrets : 0 .. MaxSecrets, tokens : 0 .. MaxTokens]
    BY DEF SignInInv, RowsOK
  <2> QED
    BY <2>1 DEF AddUser, Reset, SaveReset, EndReset, DeleteUser
<1>2. \/ user' = user \/ user' = NoUser \/ NoCodes(user')
      \/ user # NoUser /\ SameCodes(user', user)
  <2>1. CASE AddUser
    BY <2>1 DEF AddUser, NewUser, WithOneTimePassword, NoCodes
  <2>2. CASE Reset \/ EndReset \/ DeleteUser
    BY <2>2 DEF Reset, EndReset, DeleteUser
  <2>3. CASE SaveReset
    <3>1. CASE Save(console.read, console.copy)
      BY <2>3, <3>1, SavedFresh DEF SaveReset, CopiesMade
    <3>2. CASE ~Save(console.read, console.copy)
      BY <2>3, <3>2 DEF SaveReset
    <3> QED
      BY <3>1, <3>2
  <2> QED
    BY <2>1, <2>2, <2>3
<1> QED
  BY <1>1, <1>2, CodesStay

LEMMA CodesKept ==
    ASSUME SignInInv, CountsOK, CodeInv, [Next]_vars
    PROVE  CodeInv'
<1>1. CopiesMade'
  BY CopiesKept DEF CodeInv
<1>2. SUFFICES ASSUME ~stale' PROVE CodesOK'
  BY <1>1 DEF CodeInv
<1>3. ~stale
  BY <1>2, StaleStays DEF CountsOK
<1>4. CodesOK /\ CopiesMade
  BY <1>3 DEF CodeInv
<1>5. CASE Tick \/ UNCHANGED vars
  <2>1. UNCHANGED <<user, made, codes, twice, request>>
    BY <1>5 DEF Tick, vars
  <2> QED
    BY <1>4, <2>1, CodesStay
<1>6. ASSUME NEW b \in Browsers,
             \/ GiveUp(b) \/ SignInStart(b) \/ Wrong(b) \/ RightPassword(b) \/ SetPassword(b) \/ VerifyTOTP(b)
             \/ Consume(b) \/ IssueToken(b) \/ DeleteExpired(b) \/ IssueSession(b)
             \/ Authenticate(b) \/ Touch(b) \/ SignOut(b) \/ ChangePassword(b) \/ EndSessions(b)
             \/ ConfirmTOTP(b) \/ DisableTOTP(b)
      PROVE  CodesOK'
  BY <1>4, <1>6, CodesUntouched
<1>7. ASSUME NEW b \in Browsers,
             \/ ChoosePassword(b) \/ RecordSignIn(b) \/ SavePassword(b)
             \/ RightCode(b) \/ BeginTOTP(b) \/ SaveAccount(b)
      PROVE  CodesOK'
  BY <1>2, <1>4, <1>7, CodesOfOtherSaves, CodesOfRightCode, CodesOfOffer, CodesOfAccount
<1>8. CASE AddUser \/ Reset \/ SaveReset \/ EndReset \/ DeleteUser
  BY <1>2, <1>4, <1>8, CodesOfCommands
<1> QED
  BY <1>5, <1>6, <1>7, <1>8 DEF Next

-----------------------------------------------------------------------------
LEMMA LimiterStarts ==
    ASSUME Init
    PROVE  LimiterOK
<1>1. failures \in [Keys -> Seq(Times)]
  BY DEF Init
<1>2. ASSUME NEW key \in Keys
      PROVE  Len(Recent(failures[key], now)) + Cardinality(Guessing(key)) < Limit(key) + Cardinality(Browsers)
  <2>1. failures[key] = <<>> /\ Recent(<<>>, now) = <<>>
    BY RecentOfNone DEF Init
  <2>2. Guessing(key) = {}
    BY DEF Init, Guessing, Idle
  <2> QED
    BY <2>1, <2>2, GuessingFinite, LimitTyped, FS_EmptySet
<1> QED
  BY <1>1, <1>2 DEF LimiterOK

LEMMA CodesStart ==
    ASSUME Init
    PROVE  CountsOK /\ CodeInv
<1>1. user \in FirstUsers /\ made.secrets = 1 /\ stale = FALSE /\ twice = FALSE
  BY DEF Init
<1>2. user # NoUser => /\ user \in Written /\ user.secret <= 1 /\ user.pending <= 1
                       /\ (user.pending # 0 => user.pending # user.secret)
  BY <1>1, SignInAssumption DEF Written, Rows
<1>3. user \in Written => /\ user.secret \in 0 .. MaxSecrets /\ user.pending \in Nat
                          /\ user.last \in CodeSteps \cup {0} /\ user.last \in Nat
                          /\ (user.enabled => user.secret # 0 /\ user.last # 0)
  BY RowFields, NumbersTyped DEF Sound, CodeSteps
<1>4. codes \subseteq {<<user.secret, user.last>>} /\ (codes # {} => user # NoUser /\ user.enabled)
  BY DEF Init
<1>5. CountsOK
  <2>1. codes \subseteq (1 .. MaxSecrets) \X CodeSteps
    BY <1>2, <1>3, <1>4, NumbersTyped
  <2>2. begun \in [requests : 0 .. MaxRequests, commands : 0 .. MaxCommands]
    BY SignInAssumption DEF Init
  <2> QED
    BY <1>1, <2>1, <2>2 DEF CountsOK
<1>6. \A b \in Browsers : request[b] = Idle
  BY DEF Init
<1>7. CopiesMade
  <2>1. MadeOfRead(Idle) /\ console.phase = "idle"
    BY DEF MadeOfRead, Idle, Init, NoCommand
  <2> QED
    BY <1>6, <2>1 DEF CopiesMade
<1>8. CodesUsed(user)
  <2>1. ASSUME user # NoUser, NEW c \in codes
        PROVE  c[1] = user.secret /\ c[2] = user.last /\ user.secret # 0
    BY <1>2, <1>3, <1>4, <2>1
  <2>2. ASSUME user # NoUser, NEW c \in codes
        PROVE  c[1] # user.pending /\ c[2] <= user.last
    BY <1>2, <1>3, <2>1, <2>2
  <2> QED
    BY <1>1, <1>2, <2>2 DEF CodesUsed
<1>9. \A c \in codes : c[1] <= made.secrets
  BY <1>1, <1>2, <1>4
<1>10. \A b \in Browsers : ~Offers(request[b])
  BY <1>6 DEF Offers, Idle
<1> QED
  BY <1>1, <1>5, <1>7, <1>8, <1>9, <1>10 DEF CodeInv, CodesOK

LEMMA AllInvHolds == Spec => []AllInv
<1>1. Init => AllInv
  BY InitInv, LimiterStarts, CodesStart DEF AllInv
<1>2. AllInv /\ [Next]_vars => AllInv'
  BY StepInv, CountsKept, LimiterKept, CodesKept DEF AllInv, CodeInv
<1> QED
  BY <1>1, <1>2, PTL DEF Spec

(* Every variable of signing in keeps its type, the times the limiter      *)
(* counts and the codes it has seen accepted included (auth/service.go,    *)
(* auth/limiter.go, auth/totp.go).                                         *)
THEOREM TypesKept == Spec => []TypeOK
<1>1. AllInv => TypeOK
  <2> SUFFICES ASSUME AllInv PROVE TypeOK
    OBVIOUS
  <2>1. user \in Users \cup {NoUser} /\ console \in Commands
    BY DEF AllInv, SignInInv, RowsOK, Rows, Commanded, Commands
  <2>2. request \in [Browsers -> Requests]
    BY DEF AllInv, SignInInv, RequestsOK, Asking
  <2>3. tokens \in [Tokens -> SignInTokens \cup Sessions \cup {NoToken}]
    BY DEF AllInv, SignInInv, TokensOK, OnTheWay, SignedIn
  <2> QED
    BY <2>1, <2>2, <2>3 DEF TypeOK, AllInv, SignInInv, RowsOK, CountsOK, LimiterOK
<1> QED
  BY <1>1, AllInvHolds, PTL

(* As long as no request saved its copy over a row another had changed, a  *)
(* code was accepted once, whichever secret it is of and whoever asks in   *)
(* between: a pending secret is new until it is confirmed, and every code  *)
(* of the user's secret is at most the last (auth/totp.go: matchTOTP).     *)
THEOREM CodesUsedOnce == Spec => []CodeUsedOnce
<1>1. AllInv => CodeUsedOnce
  BY DEF AllInv, CodeInv, CodesOK, CodeUsedOnce
<1> QED
  BY <1>1, AllInvHolds, PTL

(* The failures the limiter counts pass its limit by no more than the      *)
(* requests that were let in before: each that is checked was one of them, *)
(* and what it had dropped before is not counted again (auth/limiter.go).  *)
THEOREM FailuresAlwaysBounded == Spec => []FailuresBounded
<1>1. AllInv => FailuresBounded
  <2> SUFFICES ASSUME AllInv, NEW key \in Keys
               PROVE  Len(Recent(failures[key], now)) < Limit(key) + Cardinality(Browsers)
    BY DEF FailuresBounded
  <2>1. Recent(failures[key], now) \in Seq(Times)
    BY RecentTyped DEF AllInv, LimiterOK
  <2>2. Len(Recent(failures[key], now)) \in Nat
    BY <2>1
  <2>3. Len(Recent(failures[key], now)) + Cardinality(Guessing(key)) < Limit(key) + Cardinality(Browsers)
    BY DEF AllInv, LimiterOK
  <2> QED
    BY <2>2, <2>3, GuessingFinite, LimitTyped
<1> QED
  BY <1>1, AllInvHolds, PTL
=============================================================================
