------------------------------ MODULE Account ------------------------------
(***************************************************************************)
(* One user's account: browser sessions with rotating refresh tokens, API  *)
(* keys, and suspension (internal/auth, internal/api/auth.go, apikeys.go,  *)
(* policy.go, internal/policy/suspension.go and their tables).  Every      *)
(* handler runs as a request of its own; each database call is one step,   *)
(* so the requests of two tabs, an API client and an administrator         *)
(* interleave between any two calls.                                       *)
(*                                                                         *)
(* The browser's tabs share one cookie jar.  A response can be lost, and a *)
(* database call can fail before or after it took effect.  Plaintexts and  *)
(* hashes stand for their rows: both columns are unique.                   *)
(***************************************************************************)
EXTENDS Naturals, FiniteSets

CONSTANTS
    Request,    \* handler invocations that can be in flight at once
    Token,      \* refresh_tokens rows
    Key,        \* api_keys rows
    None,       \* no row, no cookie
    MaxStarts   \* bound: requests started in one behaviour

ASSUME NoneAssumption == None \notin Token \cup Key
ASSUME MaxStartsAssumption == MaxStarts \in Nat

VARIABLES
    token,      \* refresh_tokens: absent, active (revoked_at NULL) or revoked
    lapsed,     \* the refresh tokens whose expires_at has passed
    family,     \* history: the login each token descends from
    key,        \* api_keys: absent, active or revoked
    known,      \* the keys whose plaintext reached their owner
    suspended,  \* users.suspended_at is set
    jar,        \* the refresh cookie the browser holds
    access,     \* the access cookie: None, valid or expired
    req,        \* the requests in flight
    starts,     \* requests started so far
    ended,      \* history: logins a logout has ended
    dead,       \* history: keys whose revocation has been reported done
    barred,     \* history: a suspension has been reported done
    cause       \* history: something happened that may cost the session

vars == <<token, lapsed, family, key, known, suspended, jar, access, req, starts,
          ended, dead, barred, cause>>
sessionVars == <<token, lapsed, family, jar, access, ended, cause>>
keyVars == <<key, known, suspended, dead, barred>>

RowState == {"absent", "active", "revoked"}
SessionOps == {"login", "refresh", "logout"}
KeyOps == {"createKey", "revokeKey", "call", "suspend"}
Steps == {"idle", "read", "revoke", "issue", "create", "verify", "mark",
          "revokeAll", "stop", "reply"}
Outcomes == {"none", "set", "clear", "keep", "ok", "served"}

Idle == [op |-> "none", pc |-> "idle", arg |-> None, new |-> None,
         out |-> "none", cover |-> {}, late |-> FALSE, after |-> FALSE]

TypeOK ==
    /\ token \in [Token -> RowState]
    /\ lapsed \subseteq Token
    /\ family \in [Token -> Token \cup {None}]
    /\ key \in [Key -> RowState]
    /\ known \subseteq Key
    /\ suspended \in BOOLEAN
    /\ jar \in Token \cup {None}
    /\ access \in {None, "valid", "expired"}
    /\ req \in [Request -> [op : SessionOps \cup KeyOps \cup {"none"},
                            pc : Steps, arg : Token \cup Key \cup {None},
                            new : Token \cup {None}, out : Outcomes,
                            cover : SUBSET Key, late : BOOLEAN, after : BOOLEAN]]
    /\ starts \in 0 .. MaxStarts
    /\ ended \subseteq Token
    /\ dead \subseteq Key
    /\ barred \in BOOLEAN
    /\ cause \in BOOLEAN

Init ==
    /\ token = [t \in Token |-> "absent"]
    /\ lapsed = {}
    /\ family = [t \in Token |-> None]
    /\ key = [k \in Key |-> "absent"]
    /\ known = {}
    /\ suspended = FALSE
    /\ jar = None
    /\ access = None
    /\ req = [r \in Request |-> Idle]
    /\ starts = 0
    /\ ended = {}
    /\ dead = {}
    /\ barred = FALSE
    /\ cause = TRUE

-----------------------------------------------------------------------------
(* Requests arrive.                                                        *)

At(r, op, pc) == req[r].op = op /\ req[r].pc = pc

Goto(r, pc) == req' = [req EXCEPT ![r].pc = pc]

Finish(r, out) == req' = [req EXCEPT ![r].pc = "reply", ![r].out = out]

\* A failed call: what the handler answers when err # nil. A rejected
\* rotation clears the cookies, a logout clears them whatever happened.
ErrorOutcome(op) == IF op \in {"refresh", "logout"} THEN "clear" ELSE "keep"

Fail(r) == Finish(r, ErrorOutcome(req[r].op))

Start(r, op, pc, arg, cover) ==
    /\ req[r] = Idle
    /\ starts < MaxStarts
    /\ starts' = starts + 1
    /\ req' = [req EXCEPT ![r] =
                  [Idle EXCEPT !.op = op, !.pc = pc, !.arg = arg,
                               !.cover = cover,
                               !.late = (op = "call" /\ arg \in dead),
                               !.after = barred]]

\* Bound: a request that may insert a token only starts while a row is left
\* for it and for the ones in flight.
TokenLeft ==
    Cardinality({r \in Request : req[r].op \in {"login", "refresh"}
                                 /\ req[r].new = None})
        < Cardinality({t \in Token : token[t] = "absent"})

SessionRequests == {r \in Request : req[r].op \in SessionOps}

\* POST /v1/auth/login: the password was right.
StartLogin(r) ==
    /\ TokenLeft
    /\ Start(r, "login", "read", None, {})
    /\ cause' = (cause \/ SessionRequests # {})
    /\ UNCHANGED <<token, lapsed, family, jar, access, ended, keyVars>>

\* POST /v1/auth/refresh carrying the refresh cookie.
StartRefresh(r) ==
    /\ TokenLeft
    /\ jar # None
    /\ Start(r, "refresh", "read", jar, {})
    /\ cause' = (cause \/ SessionRequests # {})
    /\ UNCHANGED <<token, lapsed, family, jar, access, ended, keyVars>>

\* POST /v1/auth/logout.
StartLogout(r) ==
    /\ jar # None
    /\ Start(r, "logout", "read", jar, {})
    /\ cause' = TRUE
    /\ UNCHANGED <<token, lapsed, family, jar, access, ended, keyVars>>

\* The access token a request carries: the browser's, from its cookie.
sessionToken == access

\* JWTAuth looks at the access token alone: no table is read.
Authenticated == sessionToken = "valid"

\* POST /v1/api-keys up to the key's generation, which repeats no other's.
StartCreateKey(r) ==
    /\ Authenticated
    /\ \E k \in Key :
          /\ key[k] = "absent"
          /\ \A q \in Request : req[q].op = "createKey" => req[q].arg # k
          /\ Start(r, "createKey", "create", k, {})
    /\ UNCHANGED <<sessionVars, keyVars>>

\* DELETE /v1/api-keys/{id}.
StartRevokeKey(r) ==
    /\ Authenticated
    /\ \E k \in Key :
          /\ key[k] # "absent"
          /\ Start(r, "revokeKey", "revoke", k, {k})
    /\ UNCHANGED <<sessionVars, keyVars>>

\* A request that presents an API key its owner was given.
StartCall(r) ==
    /\ \E k \in known : Start(r, "call", "read", k, {})
    /\ UNCHANGED <<sessionVars, keyVars>>

\* Enforcer.Suspend, called by the admin route or by the escalator. It revokes
\* at least the keys that exist when it is called; nothing it does covers a
\* key or a session made later (SuspendedIsShutOut).
StartSuspend(r) ==
    /\ Start(r, "suspend", "mark", None, {k \in Key : key[k] # "absent"})
    /\ UNCHANGED <<sessionVars, keyVars>>

-----------------------------------------------------------------------------
(* Sessions.                                                               *)

\* GetByEmail and VerifyPassword. Suspension is not looked at.
LoginRead(r) ==
    /\ At(r, "login", "read")
    /\ Goto(r, "issue")
    /\ UNCHANGED <<starts, sessionVars, keyVars>>

\* The row as one read finds it; its state may change right after.
GetByHash(t) == [revoked |-> token[t] = "revoked", expired |-> t \in lapsed]

\* RotateRefreshToken's GetByHash and its two rejections.
RotateRead(r) ==
    /\ At(r, "refresh", "read")
    /\ LET row == GetByHash(req[r].arg) IN
          IF row.revoked \/ row.expired THEN Fail(r) ELSE Goto(r, "revoke")
    /\ UNCHANGED <<starts, sessionVars, keyVars>>

\* RevokeRefreshToken's GetByHash: any row will do.
LogoutRead(r) ==
    /\ At(r, "logout", "read")
    /\ Goto(r, "revoke")
    /\ UNCHANGED <<starts, sessionVars, keyVars>>

\* Rows the UPDATE matches. The mutant forgets revoked_at IS NULL.
RevocableAny(t) == token[t] # "absent"
Revocable(t) == token[t] = "active"

\* RefreshTokenRepository.Revoke: no row updated is ErrNotFound.
RotateRevoke(r) ==
    LET t == req[r].arg IN
    /\ At(r, "refresh", "revoke")
    /\ IF Revocable(t)
       THEN token' = [token EXCEPT ![t] = "revoked"] /\ Goto(r, "issue")
       ELSE Fail(r) /\ UNCHANGED token
    /\ UNCHANGED <<lapsed, family, jar, access, ended, cause, starts, keyVars>>

\* Logout's Revoke; its error is dropped.
LogoutRevoke(r) ==
    LET t == req[r].arg IN
    /\ At(r, "logout", "revoke")
    /\ Finish(r, "clear")
    /\ IF Revocable(t)
       THEN /\ token' = [token EXCEPT ![t] = "revoked"]
            /\ ended' = ended \cup {family[t]}
       ELSE UNCHANGED <<token, ended>>
    /\ UNCHANGED <<lapsed, family, jar, access, cause, starts, keyVars>>

\* The login a new token belongs to: a rotation continues its chain.
FamilyFor(r, n) == IF req[r].op = "refresh" THEN family[req[r].arg] ELSE n

\* RefreshTokenRepository.Create.
Insert(r, n) ==
    /\ token[n] = "absent"
    /\ token' = [token EXCEPT ![n] = "active"]
    /\ family' = [family EXCEPT ![n] = FamilyFor(r, n)]

\* IssueSession: sign an access token, insert a refresh token.
IssueSession(r) ==
    /\ req[r].pc = "issue"
    /\ \E n \in Token :
          /\ Insert(r, n)
          /\ req' = [req EXCEPT ![r].pc = "reply", ![r].out = "set",
                                ![r].new = n]
    /\ UNCHANGED <<lapsed, jar, access, ended, cause, starts, keyVars>>

\* A database call of a session handler fails without effect.
SessionCallFails(r) ==
    /\ req[r].op \in SessionOps
    /\ req[r].pc \in {"read", "revoke", "issue"}
    /\ Fail(r)
    /\ cause' = TRUE
    /\ UNCHANGED <<token, lapsed, family, jar, access, ended, starts, keyVars>>

\* Revoke took effect but its answer was lost: the handler sees an error.
RevokeAnswerLost(r) ==
    LET t == req[r].arg IN
    /\ req[r].op \in {"refresh", "logout"} /\ req[r].pc = "revoke"
    /\ Revocable(t)
    /\ token' = [token EXCEPT ![t] = "revoked"]
    /\ Fail(r)
    /\ cause' = TRUE
    /\ UNCHANGED <<lapsed, family, jar, access, ended, starts, keyVars>>

\* The token was inserted but the answer was lost: nobody holds it.
IssueAnswerLost(r) ==
    /\ req[r].pc = "issue"
    /\ \E n \in Token : Insert(r, n)
    /\ Fail(r)
    /\ cause' = TRUE
    /\ UNCHANGED <<lapsed, jar, access, ended, starts, keyVars>>

-----------------------------------------------------------------------------
(* API keys and suspension.                                                *)

\* APIKeyRepository.Create, under the unique display_prefix.
CreateKey(r) ==
    /\ At(r, "createKey", "create")
    /\ key[req[r].arg] = "absent"
    /\ key' = [key EXCEPT ![req[r].arg] = "active"]
    /\ Finish(r, "ok")
    /\ UNCHANGED <<known, suspended, dead, barred, starts, sessionVars>>

\* APIKeyRepository.Revoke: an already revoked key is ErrNotFound.
RevokeKey(r) ==
    LET k == req[r].arg IN
    /\ At(r, "revokeKey", "revoke")
    /\ IF key[k] = "active"
       THEN key' = [key EXCEPT ![k] = "revoked"] /\ Finish(r, "ok")
       ELSE Fail(r) /\ UNCHANGED key
    /\ UNCHANGED <<known, suspended, dead, barred, starts, sessionVars>>

\* The key's row, by the prefix the caller presents.
GetByPrefix(k) == key[k]

\* APIKeyAuth's GetByPrefix and the RevokedAt check on the row it returned.
AuthRead(r) ==
    /\ At(r, "call", "read")
    /\ IF GetByPrefix(req[r].arg) = "active" THEN Goto(r, "verify")
                                             ELSE Fail(r)
    /\ UNCHANGED <<starts, sessionVars, keyVars>>

\* VerifyAPIKey on the row read before; then the next handler serves.
AuthVerify(r) ==
    /\ At(r, "call", "verify")
    /\ Finish(r, "served")
    /\ UNCHANGED <<starts, sessionVars, keyVars>>

\* UserRepository.Suspend. The mutant returns early for a suspended user.
SuspendMarkOnce(r) ==
    /\ At(r, "suspend", "mark")
    /\ suspended' = TRUE
    /\ IF suspended THEN Finish(r, "ok") ELSE Goto(r, "revokeAll")
    /\ UNCHANGED <<key, known, dead, barred, starts, sessionVars>>
SuspendMark(r) ==
    /\ At(r, "suspend", "mark")
    /\ suspended' = TRUE
    /\ Goto(r, "revokeAll")
    /\ UNCHANGED <<key, known, dead, barred, starts, sessionVars>>

\* The UPDATE of APIKeyRepository.RevokeAllByUser.
RevokeAllByUser == [k \in Key |-> IF key[k] = "active" THEN "revoked" ELSE key[k]]

\* Suspend's second step.
SuspendRevokeAll(r) ==
    /\ At(r, "suspend", "revokeAll")
    /\ key' = RevokeAllByUser
    /\ Goto(r, "stop")
    /\ UNCHANGED <<known, suspended, dead, barred, starts, sessionVars>>

\* The deployments are stopped and terminated (module Deployment).
SuspendStop(r) ==
    /\ At(r, "suspend", "stop")
    /\ Finish(r, "ok")
    /\ UNCHANGED <<starts, sessionVars, keyVars>>

\* A database call of a key handler fails without effect.
KeyCallFails(r) ==
    /\ req[r].op \in KeyOps
    /\ req[r].pc \in {"create", "revoke", "read", "mark", "revokeAll", "stop"}
    /\ Fail(r)
    /\ UNCHANGED <<starts, sessionVars, keyVars>>

\* A statement of a key handler or of Suspend was executed but its answer was
\* lost: the caller sees an error, and of a new key nobody has the plaintext.
KeyAnswerLost(r) ==
    LET k == req[r].arg IN
    /\ \/ /\ At(r, "createKey", "create") /\ key[k] = "absent"
          /\ key' = [key EXCEPT ![k] = "active"]
          /\ UNCHANGED suspended
       \/ /\ At(r, "revokeKey", "revoke") /\ key[k] = "active"
          /\ key' = [key EXCEPT ![k] = "revoked"]
          /\ UNCHANGED suspended
       \/ /\ At(r, "suspend", "mark")
          /\ suspended' = TRUE
          /\ UNCHANGED key
       \/ /\ At(r, "suspend", "revokeAll")
          /\ key' = RevokeAllByUser
          /\ UNCHANGED suspended
    /\ Fail(r)
    /\ UNCHANGED <<known, dead, barred, starts, sessionVars>>

-----------------------------------------------------------------------------
(* Responses and time.                                                     *)

Done(r) == req' = [req EXCEPT ![r] = Idle]

\* setSessionCookies. The mutant leaves the refresh cookie as it was.
SetAccessCookieOnly(t) == jar' = jar /\ access' = "valid"
setSessionCookies(t) == jar' = t /\ access' = "valid"

\* clearSessionCookies.
clearSessionCookies == jar' = None /\ access' = None

\* The response reaches its caller.
Reply(r) ==
    /\ req[r].pc = "reply"
    /\ Done(r)
    /\ CASE req[r].out = "set"   -> setSessionCookies(req[r].new)
         [] req[r].out = "clear" -> clearSessionCookies
         [] OTHER                -> UNCHANGED <<jar, access>>
    /\ cause' = IF req[r].op = "login" /\ req[r].out = "set"
                   /\ SessionRequests = {r}
                THEN req[r].new \in lapsed ELSE cause
    /\ LET ok == req[r].out = "ok" IN
          /\ dead' = IF ok THEN dead \cup req[r].cover ELSE dead
          /\ known' = known \cup {k \in Key : ok /\ req[r].op = "createKey" /\ k = req[r].arg}
          /\ barred' = (barred \/ (ok /\ req[r].op = "suspend"))
    /\ UNCHANGED <<token, lapsed, family, key, suspended, ended, starts>>

\* The response is lost on its way to the browser.
ReplyLost(r) ==
    /\ req[r].pc = "reply"
    /\ req[r].op \in SessionOps
    /\ Done(r)
    /\ cause' = TRUE
    /\ UNCHANGED <<token, lapsed, family, jar, access, ended, starts, keyVars>>

\* A refresh token reaches its expires_at.
RefreshLapses(t) ==
    /\ token[t] = "active"
    /\ t \notin lapsed
    /\ lapsed' = lapsed \cup {t}
    /\ cause' = TRUE
    /\ UNCHANGED <<token, family, jar, access, ended, req, starts, keyVars>>

\* The access token reaches its exp.
AccessLapses ==
    /\ access = "valid"
    /\ access' = "expired"
    /\ UNCHANGED <<token, lapsed, family, jar, ended, cause, req, starts,
                   keyVars>>

Next ==
    \/ \E r \in Request :
          \/ StartLogin(r) \/ StartRefresh(r) \/ StartLogout(r)
          \/ StartCreateKey(r) \/ StartRevokeKey(r) \/ StartCall(r)
          \/ StartSuspend(r)
          \/ LoginRead(r) \/ RotateRead(r) \/ LogoutRead(r)
          \/ RotateRevoke(r) \/ LogoutRevoke(r) \/ IssueSession(r)
          \/ SessionCallFails(r) \/ RevokeAnswerLost(r) \/ IssueAnswerLost(r)
          \/ CreateKey(r) \/ RevokeKey(r) \/ AuthRead(r) \/ AuthVerify(r)
          \/ SuspendMark(r) \/ SuspendRevokeAll(r) \/ SuspendStop(r)
          \/ KeyCallFails(r) \/ KeyAnswerLost(r)
          \/ Reply(r) \/ ReplyLost(r)
    \/ \E t \in Token : RefreshLapses(t)
    \/ AccessLapses

Spec == Init /\ [][Next]_vars

-----------------------------------------------------------------------------
(* Properties.                                                             *)

\* However many tabs rotate the same cookie at once, and wherever a call
\* fails, a login never has two refresh tokens that could still be used
\* (auth/session.go RotateRefreshToken: the old one "cannot be replayed").
OneLivePerLogin ==
    \A t, u \in Token :
        token[t] = "active" /\ token[u] = "active" /\ family[t] = family[u]
            => t = u

\* Logout and a rotation racing for the same token: when the logout's
\* revocation took effect the login has no usable token, and no rotation
\* under way will give it one (api/auth.go LogoutHandler).
LogoutWins ==
    \A f \in ended :
        /\ \A t \in Token : family[t] = f => token[t] # "active"
        /\ \A r \in Request :
              At(r, "refresh", "issue") => family[req[r].arg] # f

\* A browser that was signed in stays signed in, holding a refresh token the
\* next rotation will accept, unless something that may cost the session
\* happened: a logout, an expiry, a failed call or lost response, or two
\* session requests at once.
SessionKept ==
    ~cause =>
        /\ jar # None
        /\ SessionRequests = {} => token[jar] = "active" /\ jar \notin lapsed

\* After a key's revocation was reported done, by DELETE or by a suspension
\* called when the key existed, and however often either had failed before or
\* after taking effect, no request that arrives with the key is served
\* (httpmw/apikey.go checks RevokedAt on each request).
RevocationTakesHold ==
    \A r \in Request : req[r].out = "served" => ~req[r].late

\* policy/suspension.go:87-91 says of Suspend that the account is "unable to
\* authenticate via a fresh login" and that revoking its keys is "blocking every
\* API-key-authenticated request from the very next one onward": of the requests
\* that begin after a suspension was reported done, no login is given a session
\* and no request with a key is served, whenever the key was made.
SuspendedIsShutOut ==
    \A r \in Request : req[r].after =>
        /\ ~(req[r].op = "login" /\ req[r].out = "set")
        /\ req[r].out # "served"

=============================================================================
