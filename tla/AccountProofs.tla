--------------------------- MODULE AccountProofs ---------------------------
(***************************************************************************)
(* Theorems about Account, for any number of requests, refresh tokens, API *)
(* keys and starts: what holds of one user's sessions and keys however     *)
(* handlers interleave, calls fail and responses are lost.                 *)
(***************************************************************************)
EXTENDS Account, TLAPS

(* The inductive invariant, in named parts.                                *)

Rotators == {"refresh", "logout"}

\* What a handler has at each step.
Shapes ==
    \A r \in Request :
        /\ req[r].op = "none" => req[r] = Idle
        /\ req[r].pc = "issue" => req[r].op \in {"login", "refresh"}
        /\ req[r].op \in Rotators => req[r].arg \in Token /\ token[req[r].arg] # "absent"
        /\ req[r].op \in {"call", "revokeKey"} => req[r].arg \in Key
        /\ req[r].new # None => /\ req[r].pc = "reply" /\ req[r].out = "set"
                                /\ token[req[r].new] # "absent"
        /\ req[r].out = "set" => req[r].new # None
        /\ req[r].op \in KeyOps => req[r].out \notin {"set", "clear"}

\* Every row belongs to the login whose first row has its name, and only rows
\* are held, expire or are ended.
Descent ==
    /\ \A t \in Token : token[t] = "absent" <=> family[t] = None
    /\ \A t \in Token : family[t] # None => token[family[t]] # "absent"
    /\ jar # None => token[jar] # "absent"
    /\ \A t \in lapsed \cup ended : token[t] # "absent"

\* A rotation between its UPDATE and its INSERT is the only one of its login,
\* which has no usable token meanwhile.
Between(r) == At(r, "refresh", "issue")
Rotation ==
    \A r \in Request : Between(r) =>
        /\ \A t \in Token : family[t] = family[req[r].arg] => token[t] # "active"
        /\ \A q \in Request : Between(q) /\ family[req[q].arg] = family[req[r].arg] => q = r

SessionInv == TypeOK /\ Shapes /\ Descent /\ OneLivePerLogin /\ Rotation /\ LogoutWins

\* A token on its way to the browser is usable and nobody else has it yet.
Fresh ==
    \A r \in Request : req[r].new # None =>
        /\ token[req[r].new] = "active"
        /\ jar # req[r].new
        /\ \A q \in Request : req[q].op \in Rotators => req[q].arg # req[r].new
        /\ \A q \in Request \ {r} : req[q].new # req[r].new

Usable(t) == t # None /\ token[t] = "active" /\ t \notin lapsed

\* How far the only session request has come when nothing went wrong.
OnCourse(r) ==
    \/ /\ req[r].op = "login"
       /\ Usable(jar)
       /\ req[r].pc \in {"read", "issue"} \/ (req[r].pc = "reply" /\ req[r].out = "set")
    \/ /\ req[r].op = "refresh"
       /\ \/ req[r].pc \in {"read", "revoke"} /\ req[r].arg = jar /\ Usable(jar)
          \/ req[r].pc = "issue"
          \/ req[r].pc = "reply" /\ req[r].out = "set" /\ req[r].new \notin lapsed

Course ==
    ~cause =>
        /\ jar # None
        /\ \A q, r \in SessionRequests : q = r
        /\ \A r \in SessionRequests : OnCourse(r)
        /\ SessionRequests = {} => Usable(jar)

\* Revocation: what a request is to cover, what it reports done, and what a
\* call with a dead key can reach.
Covers(r) == \A k \in req[r].cover : key[k] = "revoked"
Revocation ==
    /\ \A k \in dead : key[k] = "revoked"
    /\ \A r \in Request :
          /\ \A k \in req[r].cover : key[k] # "absent"
          /\ req[r].op = "revokeKey" => req[r].cover = {req[r].arg}
          /\ req[r].op \in {"call", "createKey"} \cup SessionOps => req[r].cover = {}
          /\ req[r].op = "suspend" /\ req[r].pc = "stop" => Covers(r)
          /\ req[r].out = "ok" => Covers(r)
          /\ req[r].late => req[r].op = "call" /\ req[r].arg \in dead
          /\ req[r].pc = "verify" => ~req[r].late
          /\ req[r].out = "served" => ~req[r].late

-----------------------------------------------------------------------------
(* How the actions change a request.                                       *)

Handler == [op : SessionOps \cup KeyOps \cup {"none"}, pc : Steps,
            arg : Token \cup Key \cup {None}, new : Token \cup {None},
            out : Outcomes, cover : SUBSET Key, late : BOOLEAN, after : BOOLEAN]

Others(r) == \A q \in Request \ {r} : req'[q] = req[q]

\* r goes on: its operation and what it was called with stay.
Moved(r, pc, out, new) ==
    /\ req' \in [Request -> Handler]
    /\ Others(r)
    /\ req'[r].pc = pc /\ req'[r].out = out /\ req'[r].new = new
    /\ req'[r].op = req[r].op /\ req'[r].arg = req[r].arg
    /\ req'[r].cover = req[r].cover /\ req'[r].late = req[r].late

\* r begins.
Begun(r, op, pc, arg, cover) ==
    /\ req' \in [Request -> Handler]
    /\ Others(r)
    /\ req[r] = Idle
    /\ req'[r].op = op /\ req'[r].pc = pc /\ req'[r].arg = arg
    /\ req'[r].new = None /\ req'[r].out = "none" /\ req'[r].cover = cover
    /\ req'[r].late <=> op = "call" /\ arg \in dead

\* r is over.
Over(r) == req' \in [Request -> Handler] /\ Others(r) /\ req'[r] = Idle

\* A request that is not in flight is a handler record.
LEMMA IdleIsHandler == Idle \in Handler
  BY DEF Idle, Handler, Steps, Outcomes

\* Goto moves one request to its next step and nothing else of it.
LEMMA GotoMoves ==
    ASSUME TypeOK, NEW r \in Request, NEW pc \in Steps, Goto(r, pc)
    PROVE  Moved(r, pc, req[r].out, req[r].new)
<1>1. req \in [Request -> Handler]
  BY DEF TypeOK, Handler
<1>2. [req[r] EXCEPT !.pc = pc] \in Handler
  BY <1>1 DEF Handler
<1> QED
  BY <1>1, <1>2 DEF Goto, Moved, Others, Handler

\* Finish moves one request to its response.
LEMMA FinishMoves ==
    ASSUME TypeOK, NEW r \in Request, NEW out \in Outcomes, Finish(r, out)
    PROVE  Moved(r, "reply", out, req[r].new)
<1>1. req \in [Request -> Handler]
  BY DEF TypeOK, Handler
<1>2. [req[r] EXCEPT !.pc = "reply", !.out = out] \in Handler
  BY <1>1 DEF Handler, Steps
<1> QED
  BY <1>1, <1>2 DEF Finish, Moved, Others, Handler

\* Fail moves one request to the response an error is answered with.
LEMMA FailMoves ==
    ASSUME TypeOK, NEW r \in Request, Fail(r)
    PROVE  Moved(r, "reply", ErrorOutcome(req[r].op), req[r].new)
<1>1. ErrorOutcome(req[r].op) \in Outcomes
  BY DEF ErrorOutcome, Outcomes
<1> QED
  BY <1>1, FinishMoves DEF Fail

\* IssueSession's response carries the token that was inserted.
LEMMA IssueMoves ==
    ASSUME TypeOK, NEW r \in Request, NEW n \in Token,
           req' = [req EXCEPT ![r].pc = "reply", ![r].out = "set", ![r].new = n]
    PROVE  Moved(r, "reply", "set", n)
<1>1. req \in [Request -> Handler]
  BY DEF TypeOK, Handler
<1>2. [req[r] EXCEPT !.pc = "reply", !.out = "set", !.new = n] \in Handler
  BY <1>1 DEF Handler, Steps, Outcomes
<1> QED
  BY <1>1, <1>2 DEF Moved, Others, Handler

\* Start begins an idle request and counts it.
LEMMA StartBegins ==
    ASSUME TypeOK, NEW r \in Request, NEW op \in SessionOps \cup KeyOps, NEW pc \in Steps,
           NEW arg \in Token \cup Key \cup {None}, NEW cover \in SUBSET Key,
           Start(r, op, pc, arg, cover)
    PROVE  Begun(r, op, pc, arg, cover) /\ starts' \in 0 .. MaxStarts
<1>1. req \in [Request -> Handler] /\ starts \in 0 .. MaxStarts
  BY DEF TypeOK, Handler
<1> DEFINE late == op = "call" /\ arg \in dead
           h == [Idle EXCEPT !.op = op, !.pc = pc, !.arg = arg, !.cover = cover, !.late = late,
                            !.after = barred]
<1>2. late \in BOOLEAN /\ barred \in BOOLEAN
  BY DEF TypeOK
<1>3. /\ h \in Handler
      /\ h.op = op /\ h.pc = pc /\ h.arg = arg /\ h.new = None /\ h.out = "none"
      /\ h.cover = cover /\ h.late = late
  <2> HIDE DEF late
  <2> QED
    BY <1>2 DEF Idle, Handler, Steps, Outcomes
<1>4. req' = [req EXCEPT ![r] = h]
  BY DEF Start
<1>5. req' \in [Request -> Handler] /\ Others(r) /\ req'[r] = h
  <2> HIDE DEF h
  <2> QED
    BY <1>1, <1>3, <1>4 DEF Others
<1>6. starts' \in 0 .. MaxStarts
  BY <1>1, MaxStartsAssumption DEF Start
<1> QED
  BY <1>3, <1>5, <1>6 DEF Begun, Start

\* Done ends one request.
LEMMA DoneIsOver ==
    ASSUME TypeOK, NEW r \in Request, Done(r)
    PROVE  Over(r)
  BY IdleIsHandler DEF TypeOK, Handler, Done, Over, Others

-----------------------------------------------------------------------------
(* One usable token per login, and logout wins.                            *)

\* A step that writes no refresh token keeps the invariant when it lets no
\* rotation into its gap and gives the browser no cookie without a row.
LEMMA QuietSession ==
    ASSUME SessionInv, TypeOK', Shapes', UNCHANGED <<token, family, ended>>,
           jar' # None => token[jar'] # "absent",
           \A t \in lapsed' : token[t] # "absent",
           \A q \in Request : Between(q)' => Between(q) /\ req'[q].arg = req[q].arg
    PROVE  SessionInv'
<1>1. Descent'
  BY DEF SessionInv, Descent
<1>2. OneLivePerLogin'
  BY DEF SessionInv, OneLivePerLogin
<1>3. Rotation'
  BY DEF SessionInv, Rotation
<1>4. LogoutWins'
  <2>1. \A q \in Request : Between(q)' <=> At(q, "refresh", "issue")'
    BY DEF Between
  <2>2. \A q \in Request : Between(q) <=> At(q, "refresh", "issue")
    BY DEF Between
  <2> QED
    BY <2>1, <2>2 DEF SessionInv, LogoutWins
<1> QED
  BY <1>1, <1>2, <1>3, <1>4 DEF SessionInv

\* A session request arrives.
LEMMA StartSession ==
    ASSUME SessionInv, NEW r \in Request, StartLogin(r) \/ StartRefresh(r) \/ StartLogout(r)
    PROVE  /\ SessionInv'
           /\ Begun(r, "login", "read", None, {}) \/ Begun(r, "refresh", "read", jar, {})
                \/ Begun(r, "logout", "read", jar, {})
<1> USE DEF SessionInv
<1>1. PICK op \in SessionOps, arg \in Token \cup {None} :
        /\ Start(r, op, "read", arg, {})
        /\ op \in Rotators => arg = jar /\ jar # None
        /\ op = "login" => arg = None
  BY DEF StartLogin, StartRefresh, StartLogout, SessionOps, TypeOK, Rotators
<1>2. Begun(r, op, "read", arg, {}) /\ starts' \in 0 .. MaxStarts
  BY <1>1, StartBegins DEF Steps
<1>3. cause' \in BOOLEAN
  BY DEF StartLogin, StartRefresh, StartLogout, TypeOK
<1>4. UNCHANGED <<token, lapsed, family, jar, access, ended, key, known, suspended, dead, barred>>
  BY DEF StartLogin, StartRefresh, StartLogout, keyVars
<1>5. TypeOK'
  BY <1>2, <1>3, <1>4 DEF TypeOK, Begun, Handler
<1>6. Shapes'
  BY <1>1, <1>2, <1>4 DEF Shapes, Descent, TypeOK, Begun, Others, KeyOps, SessionOps, Rotators
<1>7. SessionInv'
  BY <1>2, <1>4, <1>5, <1>6, QuietSession DEF Descent, Begun, Others, Between, At
<1> QED
  BY <1>1, <1>2, <1>7 DEF SessionOps, Rotators

\* A key request arrives.
LEMMA StartKey ==
    ASSUME SessionInv, NEW r \in Request,
           StartCreateKey(r) \/ StartRevokeKey(r) \/ StartCall(r) \/ StartSuspend(r)
    PROVE  /\ SessionInv'
           /\ \E op \in KeyOps, pc \in {"create", "revoke", "read", "mark"},
                 arg \in Key \cup {None}, cover \in SUBSET Key :
                /\ Begun(r, op, pc, arg, cover)
                /\ \A k \in cover : key[k] # "absent"
                /\ op = "revokeKey" => cover = {arg}
                /\ op \in {"call", "createKey"} => cover = {}
<1> USE DEF SessionInv
<1>1. PICK op \in KeyOps, pc \in {"create", "revoke", "read", "mark"},
           arg \in Key \cup {None}, cover \in SUBSET Key :
        /\ Start(r, op, pc, arg, cover)
        /\ op \in {"call", "revokeKey"} => arg \in Key
        /\ \A k \in cover : key[k] # "absent"
        /\ op = "revokeKey" => cover = {arg}
        /\ op \in {"call", "createKey"} => cover = {}
  <2>1. CASE StartCreateKey(r)
    BY <2>1 DEF StartCreateKey, KeyOps
  <2>2. CASE StartRevokeKey(r)
    BY <2>2 DEF StartRevokeKey, KeyOps
  <2>3. CASE StartCall(r)
    <3>1. PICK k \in known : Start(r, "call", "read", k, {})
      BY <2>3 DEF StartCall
    <3>2. k \in Key
      BY DEF TypeOK
    <3> QED
      BY <3>1, <3>2 DEF KeyOps
  <2>4. CASE StartSuspend(r)
    BY <2>4 DEF StartSuspend, KeyOps
  <2> QED
    BY <2>1, <2>2, <2>3, <2>4
<1>2. Begun(r, op, pc, arg, cover) /\ starts' \in 0 .. MaxStarts
  BY <1>1, StartBegins DEF Steps
<1>3. UNCHANGED <<token, lapsed, family, jar, access, ended, cause, key, known, suspended, dead, barred>>
  BY DEF StartCreateKey, StartRevokeKey, StartCall, StartSuspend, keyVars, sessionVars
<1>4. TypeOK'
  BY <1>2, <1>3 DEF TypeOK, Begun, Handler
<1>5. Shapes'
  BY <1>1, <1>2, <1>3 DEF Shapes, Begun, Others, KeyOps, Rotators
<1>6. SessionInv'
  BY <1>1, <1>2, <1>3, <1>4, <1>5, QuietSession DEF Descent, Begun, Others, Between, At, KeyOps
<1> QED
  BY <1>1, <1>2, <1>6

\* A read of a session handler, or a call of it that failed without effect,
\* moves its request and nothing else.
LEMMA SessionMoves ==
    ASSUME TypeOK, Shapes, NEW r \in Request,
           LoginRead(r) \/ RotateRead(r) \/ LogoutRead(r) \/ SessionCallFails(r)
    PROVE  /\ req[r].op \in SessionOps /\ req[r].pc \in {"read", "revoke", "issue"}
           /\ req[r].new = None
           /\ \/ At(r, "login", "read") /\ Moved(r, "issue", req[r].out, None)
              \/ req[r].op \in Rotators /\ Moved(r, "revoke", req[r].out, None)
              \/ Moved(r, "reply", ErrorOutcome(req[r].op), None)
           /\ UNCHANGED <<token, lapsed, family, jar, access, ended, starts, key, known, suspended, dead, barred>>
<1>1. /\ req[r].op \in SessionOps /\ req[r].pc \in {"read", "revoke", "issue"}
      /\ req[r].new = None
  BY DEF LoginRead, RotateRead, LogoutRead, SessionCallFails, At, SessionOps, Shapes
<1>2. \/ At(r, "login", "read") /\ Moved(r, "issue", req[r].out, None)
      \/ req[r].op \in Rotators /\ Moved(r, "revoke", req[r].out, None)
      \/ Moved(r, "reply", ErrorOutcome(req[r].op), None)
  BY <1>1, GotoMoves, FailMoves DEF LoginRead, RotateRead, LogoutRead, SessionCallFails, At, Rotators, Steps
<1>3. UNCHANGED <<token, lapsed, family, jar, access, ended, starts, key, known, suspended, dead, barred>>
  BY DEF LoginRead, RotateRead, LogoutRead, SessionCallFails, sessionVars, keyVars
<1> QED
  BY <1>1, <1>2, <1>3

\* Such a step keeps the sessions' invariant.
LEMMA SessionWalk ==
    ASSUME SessionInv, NEW r \in Request,
           LoginRead(r) \/ RotateRead(r) \/ LogoutRead(r) \/ SessionCallFails(r)
    PROVE  SessionInv'
<1> USE DEF SessionInv
<1>1. /\ req[r].op \in SessionOps /\ req[r].pc \in {"read", "revoke", "issue"}
      /\ req[r].new = None
  BY SessionMoves
<1>2. \/ At(r, "login", "read") /\ Moved(r, "issue", req[r].out, None)
      \/ req[r].op \in Rotators /\ Moved(r, "revoke", req[r].out, None)
      \/ Moved(r, "reply", ErrorOutcome(req[r].op), None)
  BY SessionMoves
<1>3. /\ UNCHANGED <<token, lapsed, family, jar, access, ended, starts, key, known, suspended, dead, barred>>
      /\ cause' \in BOOLEAN
  BY SessionMoves DEF LoginRead, RotateRead, LogoutRead, SessionCallFails, sessionVars, TypeOK
<1>4. TypeOK'
  BY <1>2, <1>3 DEF TypeOK, Moved, Handler
<1>5. Shapes'
  BY <1>1, <1>2, <1>3 DEF Shapes, Moved, Others, At, ErrorOutcome, SessionOps, KeyOps, Rotators
<1> QED
  BY <1>2, <1>3, <1>4, <1>5, QuietSession DEF Descent, Moved, Others, Between, At, Rotators

\* A step of a key handler moves its request and touches no session.
LEMMA KeyMoves ==
    ASSUME TypeOK, Shapes, NEW r \in Request,
           \/ CreateKey(r) \/ RevokeKey(r) \/ AuthRead(r) \/ AuthVerify(r)
           \/ SuspendMark(r) \/ SuspendRevokeAll(r) \/ SuspendStop(r) \/ KeyCallFails(r)
           \/ KeyAnswerLost(r)
    PROVE  /\ req[r].op \in KeyOps /\ req[r].pc # "reply" /\ req[r].new = None
           /\ \E pc \in {"verify", "revokeAll", "stop", "reply"},
                 out \in {req[r].out, "ok", "served", "keep"} : Moved(r, pc, out, None)
           /\ UNCHANGED <<token, lapsed, family, jar, access, ended, cause, starts>>
<1>1. req[r].op \in KeyOps /\ req[r].pc # "reply" /\ req[r].new = None
  BY DEF CreateKey, RevokeKey, AuthRead, AuthVerify, SuspendMark, SuspendRevokeAll, SuspendStop,
         KeyCallFails, KeyAnswerLost, RevokeAllByUser, At, KeyOps, Shapes
<1>2. \E pc \in {"verify", "revokeAll", "stop", "reply"}, out \in {req[r].out, "ok", "served", "keep"} :
        Moved(r, pc, out, None)
  <2>1. ErrorOutcome(req[r].op) = "keep"
    BY <1>1 DEF ErrorOutcome, KeyOps
  <2>2. \A pc \in {"verify", "revokeAll", "stop"} : Goto(r, pc) => Moved(r, pc, req[r].out, None)
    BY <1>1, GotoMoves DEF Steps
  <2>3. \A out \in {"ok", "served"} : Finish(r, out) => Moved(r, "reply", out, None)
    BY <1>1, FinishMoves DEF Outcomes
  <2>4. Fail(r) => Moved(r, "reply", "keep", None)
    BY <1>1, <2>1, FailMoves
  <2> QED
    BY <2>2, <2>3, <2>4 DEF CreateKey, RevokeKey, AuthRead, AuthVerify, SuspendMark,
       SuspendRevokeAll, SuspendStop, KeyCallFails, KeyAnswerLost
<1>3. UNCHANGED <<token, lapsed, family, jar, access, ended, cause, starts>>
  BY DEF CreateKey, RevokeKey, AuthRead, AuthVerify, SuspendMark, SuspendRevokeAll, SuspendStop,
         KeyCallFails, KeyAnswerLost, RevokeAllByUser, sessionVars
<1> QED
  BY <1>1, <1>2, <1>3

\* A step of a key handler keeps the sessions' invariant.
LEMMA KeyWalk ==
    ASSUME SessionInv, NEW r \in Request,
           \/ CreateKey(r) \/ RevokeKey(r) \/ AuthRead(r) \/ AuthVerify(r)
           \/ SuspendMark(r) \/ SuspendRevokeAll(r) \/ SuspendStop(r) \/ KeyCallFails(r)
           \/ KeyAnswerLost(r)
    PROVE  SessionInv'
<1> USE DEF SessionInv
<1>1. req[r].op \in KeyOps /\ req[r].pc # "reply" /\ req[r].new = None
  BY KeyMoves
<1>2. \E pc \in {"verify", "revokeAll", "stop", "reply"}, out \in {req[r].out, "ok", "served", "keep"} :
        Moved(r, pc, out, None)
  BY KeyMoves
<1>3. UNCHANGED <<token, lapsed, family, jar, access, ended, cause, starts>>
  BY KeyMoves
<1>4. key' \in [Key -> RowState]
  BY DEF CreateKey, RevokeKey, AuthRead, AuthVerify, SuspendMark, SuspendRevokeAll, SuspendStop,
         KeyCallFails, KeyAnswerLost, RevokeAllByUser, keyVars, TypeOK, RowState
<1>5. suspended' \in BOOLEAN
  BY DEF CreateKey, RevokeKey, AuthRead, AuthVerify, SuspendMark, SuspendRevokeAll, SuspendStop,
         KeyCallFails, KeyAnswerLost, RevokeAllByUser, keyVars, TypeOK
<1>6. dead' \subseteq Key /\ known' \subseteq Key /\ barred' \in BOOLEAN
  BY DEF CreateKey, RevokeKey, AuthRead, AuthVerify, SuspendMark, SuspendRevokeAll, SuspendStop,
         KeyCallFails, KeyAnswerLost, RevokeAllByUser, keyVars, TypeOK
<1>7. TypeOK'
  BY <1>2, <1>3, <1>4, <1>5, <1>6 DEF TypeOK, Moved, Handler
<1>8. Shapes'
  BY <1>1, <1>2, <1>3 DEF Shapes, Moved, Others, KeyOps, Rotators
<1> QED
  BY <1>2, <1>3, <1>7, <1>8, QuietSession DEF Descent, Moved, Others, Between, At

\* A response arrives or is lost.
LEMMA ReplyStep ==
    ASSUME SessionInv, NEW r \in Request, Reply(r) \/ ReplyLost(r)
    PROVE  SessionInv'
<1> USE DEF SessionInv
<1>1. Over(r)
  BY DoneIsOver DEF Reply, ReplyLost
<1>2. UNCHANGED <<token, lapsed, family, key, suspended, ended, starts>> /\ cause' \in BOOLEAN
  <2>1. UNCHANGED <<token, lapsed, family, key, suspended, ended, starts>>
    BY DEF Reply, ReplyLost, keyVars
  <2>2. cause' = TRUE \/ cause' = cause \/ cause' = (req[r].new \in lapsed)
    BY Zenon DEF Reply, ReplyLost
  <2>3. cause \in BOOLEAN /\ (req[r].new \in lapsed) \in BOOLEAN
    BY DEF TypeOK
  <2>4. cause' \in BOOLEAN
    BY <2>2, <2>3, Zenon
  <2> QED
    BY <2>1, <2>4
<1>3. /\ jar' \in {jar, None} \/ (req[r].out = "set" /\ jar' = req[r].new)
      /\ access' \in {None, "valid", "expired"}
  BY DEF Reply, ReplyLost, setSessionCookies, clearSessionCookies, TypeOK
<1>4. dead' \subseteq Key /\ known' \subseteq Key /\ barred' \in BOOLEAN
  <2>1. dead' \subseteq Key /\ known' \subseteq Key
    BY DEF Reply, ReplyLost, keyVars, TypeOK
  <2>2. \/ barred' = barred
        \/ barred' = (barred \/ (req[r].out = "ok" /\ req[r].op = "suspend"))
    BY Zenon DEF Reply, ReplyLost, keyVars
  <2>3. barred' \in BOOLEAN
    BY <2>2, Zenon DEF TypeOK
  <2> QED
    BY <2>1, <2>3
<1>5. TypeOK'
  BY <1>1, <1>2, <1>3, <1>4 DEF TypeOK, Over, Handler
<1>6. Shapes'
  BY <1>1, <1>2 DEF Shapes, Over, Others, Idle, Rotators, KeyOps
<1>7. jar' # None => token[jar'] # "absent"
  BY <1>3 DEF Descent, Shapes
<1> QED
  BY <1>1, <1>2, <1>5, <1>6, <1>7, QuietSession DEF Descent, Over, Others, Between, At, Idle

\* Revoke takes effect on a usable token: its login has none left, so the
\* rotation that did it is alone in its gap, and a logout has ended the login.
LEMMA RevokeStep ==
    ASSUME SessionInv, NEW r \in Request, req[r].op \in Rotators, req[r].pc = "revoke",
           Revocable(req[r].arg), token' = [token EXCEPT ![req[r].arg] = "revoked"],
           \/ req[r].op = "refresh" /\ ended' = ended /\ Moved(r, "issue", req[r].out, req[r].new)
           \/ req[r].op = "logout" /\ ended' = ended \cup {family[req[r].arg]}
              /\ Moved(r, "reply", "clear", req[r].new)
           \/ ended' = ended /\ Moved(r, "reply", "clear", req[r].new),
           UNCHANGED <<lapsed, family, jar, access, starts, key, known, suspended, dead, barred>>,
           cause' \in BOOLEAN
    PROVE  SessionInv'
<1> USE DEF SessionInv
<1> DEFINE t == req[r].arg
           f == family[req[r].arg]
<1>1. t \in Token /\ token[t] = "active" /\ req[r].new = None /\ f \in Token
  BY DEF Shapes, Revocable, Descent, TypeOK
<1>2. /\ token' \in [Token -> RowState] /\ token'[t] = "revoked"
      /\ \A u \in Token \ {t} : token'[u] = token[u]
  BY <1>1 DEF TypeOK, RowState
<1>3. \A u \in Token : family[u] = f => token'[u] # "active"
  BY <1>1, <1>2 DEF OneLivePerLogin
<1>4. \A q \in Request : Between(q) => family[req[q].arg] # f
  BY <1>1 DEF Rotation
<1>5. TypeOK'
  BY <1>1, <1>2 DEF TypeOK, Moved, Handler
<1>6. Shapes'
  BY <1>1, <1>2 DEF Shapes, TypeOK, Moved, Others, KeyOps, Rotators
<1>7. Descent'
  BY <1>1, <1>2 DEF Descent, TypeOK
<1>8. OneLivePerLogin'
  BY <1>1, <1>2 DEF OneLivePerLogin
<1>9. \A q \in Request : Between(q)' => req'[q].arg = req[q].arg /\ (Between(q) \/ q = r)
  BY DEF Between, At, Moved, Others
<1>10. Rotation'
  <2> SUFFICES ASSUME NEW q \in Request, Between(q)'
               PROVE  /\ \A u \in Token : family[u] = family[req[q].arg] => token'[u] # "active"
                      /\ \A p \in Request : Between(p)' /\ family[req[p].arg] = family[req[q].arg]
                                                => p = q
    BY <1>9 DEF Rotation
  <2>1. CASE q = r
    BY <1>3, <1>4, <1>9, <2>1
  <2>2. CASE Between(q)
    BY <1>1, <1>2, <1>4, <1>9, <2>2 DEF Rotation
  <2> QED
    BY <1>9, <2>1, <2>2
<1>11. LogoutWins'
  <2> SUFFICES ASSUME NEW g \in ended'
               PROVE  /\ \A u \in Token : family[u] = g => token'[u] # "active"
                      /\ \A q \in Request : Between(q)' => family[req[q].arg] # g
    BY <1>9 DEF LogoutWins, Between
  <2>1. CASE g \in ended
    <3>1. g # f
      BY <1>1, <2>1 DEF LogoutWins
    <3> QED
      BY <1>1, <1>2, <1>9, <2>1, <3>1 DEF LogoutWins, Between
  <2>2. CASE g = f /\ req[r].op = "logout"
    <3>1. ~Between(r)'
      BY <2>2 DEF Moved, Between, At
    <3> QED
      BY <1>3, <1>4, <1>9, <2>2, <3>1
  <2> QED
    BY <2>1, <2>2
<1> QED
  BY <1>5, <1>6, <1>7, <1>8, <1>10, <1>11

\* RotateRevoke, LogoutRevoke and a revocation whose answer was lost, as
\* moves of their request.
LEMMA RevokeMoves ==
    ASSUME TypeOK, Shapes, NEW r \in Request,
           RotateRevoke(r) \/ LogoutRevoke(r) \/ RevokeAnswerLost(r)
    PROVE  /\ req[r].op \in Rotators /\ req[r].pc = "revoke" /\ req[r].new = None
           /\ UNCHANGED <<lapsed, family, jar, access, starts, key, known, suspended, dead, barred>>
           /\ \/ /\ Revocable(req[r].arg)
                 /\ token' = [token EXCEPT ![req[r].arg] = "revoked"]
                 /\ \/ /\ req[r].op = "refresh" /\ ended' = ended
                       /\ Moved(r, "issue", req[r].out, None)
                    \/ /\ req[r].op = "logout" /\ ended' = ended \cup {family[req[r].arg]}
                       /\ Moved(r, "reply", "clear", None)
                    \/ ended' = ended /\ Moved(r, "reply", "clear", None)
              \/ /\ ~Revocable(req[r].arg) /\ UNCHANGED <<token, ended>>
                 /\ Moved(r, "reply", "clear", None)
<1>1. req[r].op \in Rotators /\ req[r].pc = "revoke" /\ req[r].new = None
  BY DEF RotateRevoke, LogoutRevoke, RevokeAnswerLost, At, Rotators, Shapes
<1>2. UNCHANGED <<lapsed, family, jar, access, starts, key, known, suspended, dead, barred>>
  BY DEF RotateRevoke, LogoutRevoke, RevokeAnswerLost, keyVars
<1>3. ErrorOutcome(req[r].op) = "clear"
  BY <1>1 DEF ErrorOutcome, Rotators
<1>4. Fail(r) \/ Finish(r, "clear") => Moved(r, "reply", "clear", None)
  BY <1>1, <1>3, FailMoves, FinishMoves DEF Outcomes
<1>5. Goto(r, "issue") => Moved(r, "issue", req[r].out, None)
  BY <1>1, GotoMoves DEF Steps
<1>6. CASE Revocable(req[r].arg)
  <2>1. token' = [token EXCEPT ![req[r].arg] = "revoked"]
    BY <1>6 DEF RotateRevoke, LogoutRevoke, RevokeAnswerLost
  <2>2. \/ req[r].op = "refresh" /\ ended' = ended /\ Moved(r, "issue", req[r].out, None)
        \/ req[r].op = "logout" /\ ended' = ended \cup {family[req[r].arg]}
           /\ Moved(r, "reply", "clear", None)
        \/ ended' = ended /\ Moved(r, "reply", "clear", None)
    BY <1>4, <1>5, <1>6 DEF RotateRevoke, LogoutRevoke, RevokeAnswerLost, At
  <2> QED
    BY <1>1, <1>2, <1>6, <2>1, <2>2
<1>7. CASE ~Revocable(req[r].arg)
  <2>1. UNCHANGED <<token, ended>> /\ Moved(r, "reply", "clear", None)
    BY <1>4, <1>7 DEF RotateRevoke, LogoutRevoke, RevokeAnswerLost
  <2> QED
    BY <1>1, <1>2, <1>7, <2>1
<1> QED
  BY <1>6, <1>7

\* The three keep the sessions' invariant.
LEMMA RevokeActions ==
    ASSUME SessionInv, NEW r \in Request,
           RotateRevoke(r) \/ LogoutRevoke(r) \/ RevokeAnswerLost(r)
    PROVE  SessionInv'
<1> USE DEF SessionInv
<1>1. /\ req[r].op \in Rotators /\ req[r].pc = "revoke" /\ req[r].new = None
      /\ UNCHANGED <<lapsed, family, jar, access, starts, key, known, suspended, dead, barred>>
  BY RevokeMoves
<1>2. cause' \in BOOLEAN
  BY DEF RotateRevoke, LogoutRevoke, RevokeAnswerLost, TypeOK
<1>3. CASE Revocable(req[r].arg)
  BY <1>1, <1>2, <1>3, RevokeMoves, RevokeStep
<1>4. CASE ~Revocable(req[r].arg)
  <2>1. UNCHANGED <<token, ended>> /\ Moved(r, "reply", "clear", None)
    BY <1>4, RevokeMoves
  <2>2. TypeOK'
    BY <1>1, <1>2, <2>1 DEF TypeOK, Moved, Handler
  <2>3. Shapes'
    BY <1>1, <2>1 DEF Shapes, Moved, Others, KeyOps, Rotators
  <2> QED
    BY <1>1, <2>1, <2>2, <2>3, QuietSession DEF Descent, Moved, Others, Between, At
<1> QED
  BY <1>3, <1>4

\* The INSERT of a login starts a family of its own; that of a rotation
\* continues the one whose gap it closes.
LEMMA InsertStep ==
    ASSUME SessionInv, NEW r \in Request, NEW n \in Token, req[r].pc = "issue", Insert(r, n),
           \/ Moved(r, "reply", "set", n)
           \/ Moved(r, "reply", ErrorOutcome(req[r].op), req[r].new),
           UNCHANGED <<lapsed, jar, access, ended, starts, key, known, suspended, dead, barred>>,
           cause' \in BOOLEAN
    PROVE  SessionInv'
<1> USE DEF SessionInv
<1> DEFINE f == FamilyFor(r, n)
<1>1. req[r].op \in {"login", "refresh"} /\ req[r].new = None
  BY DEF Shapes
<1>2. /\ token[n] = "absent" /\ token' \in [Token -> RowState] /\ token'[n] = "active"
      /\ \A u \in Token \ {n} : token'[u] = token[u]
  BY DEF Insert, TypeOK, RowState
<1>3. /\ f \in Token /\ (f = n \/ token[f] # "absent")
      /\ req[r].op = "login" => f = n
      /\ req[r].op = "refresh" => f = family[req[r].arg] /\ f # n
  BY <1>1, <1>2 DEF FamilyFor, Shapes, Descent, TypeOK, Rotators
<1>4. /\ family' \in [Token -> Token \cup {None}] /\ family'[n] = f
      /\ \A u \in Token \ {n} : family'[u] = family[u]
  BY <1>3 DEF Insert, TypeOK
<1>5. /\ family[n] = None /\ f # None
      /\ \A u \in Token : family[u] # n
  BY <1>2, <1>3, NoneAssumption DEF Descent, TypeOK
<1>6. \A u \in Token : family[u] = f => token[u] # "active"
  BY <1>1, <1>3, <1>5 DEF Rotation, Between, At
<1>7. \A q \in Request \ {r} : Between(q) => family[req[q].arg] # f
  <2>1. CASE req[r].op = "login"
    BY <1>3, <1>5, <2>1 DEF Shapes, Between, At, Rotators
  <2>2. CASE req[r].op = "refresh"
    BY <1>3, <2>2 DEF Rotation, Between, At
  <2> QED
    BY <1>1, <2>1, <2>2
<1>8. \A q \in Request : /\ Between(q)' => q # r /\ Between(q) /\ req'[q] = req[q]
                         /\ Between(q) => req[q].arg \in Token /\ req[q].arg # n
  BY <1>2 DEF Between, At, Moved, Others, Shapes, Rotators
<1>9. TypeOK'
  BY <1>2, <1>4 DEF TypeOK, Moved, Handler
<1>10. Shapes'
  <2>1. \A u \in Token : token[u] # "absent" => token'[u] # "absent"
    BY <1>2
  <2>2. \A q \in Request \ {r} : req'[q] = req[q]
    BY DEF Moved, Others
  <2>3. \A q \in Request : req[q].new \in Token \cup {None}
    BY DEF TypeOK
  <2>4. /\ req'[r].op = req[r].op /\ req'[r].arg = req[r].arg /\ req'[r].pc = "reply"
        /\ \/ req'[r].out = "set" /\ req'[r].new = n
           \/ req'[r].out \in {"clear", "keep"} /\ req'[r].new = None
    BY <1>1 DEF Moved, ErrorOutcome
  <2>5. n # None
    BY NoneAssumption
  <2> QED
    BY <1>1, <1>2, <2>1, <2>2, <2>3, <2>4, <2>5 DEF Shapes, KeyOps, Rotators
<1>11. Descent'
  BY <1>2, <1>3, <1>4, <1>5 DEF Descent, TypeOK
<1>12. OneLivePerLogin'
  BY <1>2, <1>4, <1>6 DEF OneLivePerLogin
<1>13. Rotation'
  BY <1>2, <1>4, <1>7, <1>8 DEF Rotation
<1>14. LogoutWins'
  <2> HIDE DEF SessionInv
  <2> SUFFICES ASSUME NEW g \in ended
               PROVE  /\ \A u \in Token : family'[u] = g => token'[u] # "active"
                      /\ \A q \in Request : Between(q)' => family'[req'[q].arg] # g
    BY DEF LogoutWins, Between
  <2>1. /\ token[g] # "absent"
        /\ \A u \in Token : family[u] = g => token[u] # "active"
        /\ \A q \in Request : Between(q) => family[req[q].arg] # g
    BY DEF SessionInv, Descent, LogoutWins, Between
  <2>2. f # g
    BY <1>1, <1>2, <1>3, <2>1 DEF Between, At
  <2> QED
    BY <1>2, <1>4, <1>8, <2>1, <2>2
<1> QED
  BY <1>9, <1>10, <1>11, <1>12, <1>13, <1>14

\* IssueSession and an INSERT whose answer was lost.
LEMMA IssueActions ==
    ASSUME SessionInv, NEW r \in Request, IssueSession(r) \/ IssueAnswerLost(r)
    PROVE  SessionInv'
<1>1. /\ UNCHANGED <<lapsed, jar, access, ended, starts, key, known, suspended, dead, barred>>
      /\ cause' \in BOOLEAN /\ req[r].pc = "issue"
  BY DEF IssueSession, IssueAnswerLost, keyVars, SessionInv, TypeOK
<1>2. PICK n \in Token : /\ Insert(r, n)
                         /\ \/ req' = [req EXCEPT ![r].pc = "reply", ![r].out = "set", ![r].new = n]
                            \/ Fail(r)
  BY DEF IssueSession, IssueAnswerLost
<1>3. Moved(r, "reply", "set", n) \/ Moved(r, "reply", ErrorOutcome(req[r].op), req[r].new)
  BY <1>2, IssueMoves, FailMoves DEF SessionInv
<1> QED
  BY <1>1, <1>2, <1>3, InsertStep

\* Time passes.
LEMMA LapseStep ==
    ASSUME SessionInv, (\E t \in Token : RefreshLapses(t)) \/ AccessLapses
    PROVE  SessionInv'
<1> USE DEF SessionInv
<1>1. /\ UNCHANGED <<token, family, jar, ended, req, starts, key, known, suspended, dead, barred>>
      /\ cause' \in BOOLEAN /\ access' \in {None, "valid", "expired"}
      /\ lapsed' \subseteq Token /\ \A t \in lapsed' : token[t] # "absent"
  BY DEF RefreshLapses, AccessLapses, keyVars, TypeOK, Descent
<1>2. TypeOK'
  BY <1>1 DEF TypeOK
<1>3. Shapes'
  BY <1>1 DEF Shapes
<1> QED
  BY <1>1, <1>2, <1>3, QuietSession DEF Descent, Between, At

\* The initial states have the invariant.
LEMMA InitSession ==
    ASSUME Init
    PROVE  SessionInv
<1>1. TypeOK
  <2>1. req \in [Request -> Handler]
    BY IdleIsHandler DEF Init
  <2>2. starts \in 0 .. MaxStarts
    BY MaxStartsAssumption DEF Init
  <2> QED
    BY <2>1, <2>2 DEF Init, TypeOK, Handler, RowState
<1>2. \A r \in Request : req[r].op = "none" /\ req[r].pc = "idle" /\ req[r].new = None
                          /\ req[r].out = "none" /\ req[r] = Idle
  BY DEF Init, Idle
<1>3. Shapes
  BY <1>2 DEF Shapes, Rotators, KeyOps
<1>4. Descent /\ OneLivePerLogin
  BY DEF Init, Descent, OneLivePerLogin
<1>5. Rotation /\ LogoutWins
  BY <1>2 DEF Init, Rotation, LogoutWins, Between, At
<1> QED
  BY <1>1, <1>3, <1>4, <1>5 DEF SessionInv

\* Every step keeps the invariant.
LEMMA NextSession ==
    ASSUME SessionInv, [Next]_vars
    PROVE  SessionInv'
<1>1. CASE UNCHANGED vars
  BY <1>1 DEF vars, SessionInv, TypeOK, Shapes, Descent, OneLivePerLogin, Rotation, Between,
              LogoutWins, At
<1>2. CASE \E r \in Request : StartLogin(r) \/ StartRefresh(r) \/ StartLogout(r)
  BY <1>2, StartSession
<1>3. CASE \E r \in Request : \/ StartCreateKey(r) \/ StartRevokeKey(r) \/ StartCall(r)
                              \/ StartSuspend(r)
  BY <1>3, StartKey
<1>4. CASE \E r \in Request : \/ LoginRead(r) \/ RotateRead(r) \/ LogoutRead(r)
                              \/ SessionCallFails(r)
  BY <1>4, SessionWalk
<1>5. CASE \E r \in Request : \/ CreateKey(r) \/ RevokeKey(r) \/ AuthRead(r) \/ AuthVerify(r)
                              \/ SuspendMark(r) \/ SuspendRevokeAll(r) \/ SuspendStop(r)
                              \/ KeyCallFails(r) \/ KeyAnswerLost(r)
  BY <1>5, KeyWalk
<1>6. CASE \E r \in Request : RotateRevoke(r) \/ LogoutRevoke(r) \/ RevokeAnswerLost(r)
  BY <1>6, RevokeActions
<1>7. CASE \E r \in Request : IssueSession(r) \/ IssueAnswerLost(r)
  BY <1>7, IssueActions
<1>8. CASE \E r \in Request : Reply(r) \/ ReplyLost(r)
  BY <1>8, ReplyStep
<1>9. CASE (\E t \in Token : RefreshLapses(t)) \/ AccessLapses
  BY <1>9, LapseStep
<1> QED
  BY <1>1, <1>2, <1>3, <1>4, <1>5, <1>6, <1>7, <1>8, <1>9 DEF Next

\* The inductive invariant holds in every behaviour.
THEOREM SessionInvariant == Spec => []SessionInv
<1>1. Init => SessionInv
  BY InitSession
<1>2. SessionInv /\ [Next]_vars => SessionInv'
  BY NextSession
<1> QED
  BY <1>1, <1>2, PTL DEF Spec

\* Every variable keeps its type (the handlers' records, internal/auth and
\* internal/api/auth.go).
THEOREM TypeCorrect == Spec => []TypeOK
<1>1. SessionInv => TypeOK
  BY DEF SessionInv
<1> QED
  BY <1>1, SessionInvariant, PTL

\* However many tabs rotate the same cookie at once, and wherever a call
\* fails, a login never has two usable refresh tokens (auth/session.go
\* RotateRefreshToken).
THEOREM RotationIsExclusive == Spec => []OneLivePerLogin
<1>1. SessionInv => OneLivePerLogin
  BY DEF SessionInv
<1> QED
  BY <1>1, SessionInvariant, PTL

\* When a logout's revocation took effect its login has no usable token, and
\* no rotation under way will give it one (api/auth.go LogoutHandler).
THEOREM LogoutIsFinal == Spec => []LogoutWins
<1>1. SessionInv => LogoutWins
  BY DEF SessionInv
<1> QED
  BY <1>1, SessionInvariant, PTL

-----------------------------------------------------------------------------
(* The browser stays signed in.                                            *)

CourseInv == SessionInv /\ Fresh /\ Course

\* A step that hands out no token keeps Fresh when it spends none that is on
\* its way, gives it to nobody else and starts no rotation of it.
LEMMA QuietFresh ==
    ASSUME Fresh, NEW r \in Request, Others(r), req'[r].new = None,
           jar' \in {jar, None},
           \A q \in Request : req[q].new # None => token'[req[q].new] = "active",
           req'[r].op \in Rotators =>
               \A q \in Request : req[q].new # None => req'[r].arg # req[q].new
    PROVE  Fresh'
  BY DEF Fresh, Others

\* A step that leaves every session request as it was.
LEMMA QuietCourse ==
    ASSUME Course, SessionRequests' = SessionRequests,
           \A q \in SessionRequests : req'[q] = req[q],
           UNCHANGED <<token, lapsed, jar, cause>>
    PROVE  Course'
  BY DEF Course, OnCourse, Usable

\* The only session request of a course, while it is still on it.
LEMMA CourseMoves ==
    ASSUME Course, NEW r \in Request, Others(r), req[r].op \in SessionOps,
           req'[r].op = req[r].op, UNCHANGED jar, ~cause' => ~cause,
           ~cause /\ OnCourse(r) => OnCourse(r)'
    PROVE  Course'
<1> SUFFICES ASSUME ~cause'
             PROVE  /\ jar # None
                    /\ \A p, q \in SessionRequests' : p = q
                    /\ \A q \in SessionRequests' : OnCourse(q)'
                    /\ SessionRequests' # {}
  BY DEF Course
<1>1. SessionRequests' = SessionRequests /\ r \in SessionRequests
  BY DEF SessionRequests, Others
<1>2. jar # None /\ (\A p, q \in SessionRequests : p = q) /\ OnCourse(r)
  BY <1>1 DEF Course
<1> QED
  BY <1>1, <1>2

\* A session request arrives: alone, and with a usable cookie, or cause is set.
LEMMA StartCourse ==
    ASSUME CourseInv, NEW r \in Request, StartLogin(r) \/ StartRefresh(r) \/ StartLogout(r)
    PROVE  Fresh' /\ Course'
<1> USE DEF CourseInv
<1>1. /\ \/ Begun(r, "login", "read", None, {}) \/ Begun(r, "refresh", "read", jar, {})
         \/ Begun(r, "logout", "read", jar, {})
      /\ UNCHANGED <<token, lapsed, family, jar>>
  BY StartSession DEF StartLogin, StartRefresh, StartLogout
<1>2. Fresh'
  BY <1>1, QuietFresh DEF Begun, Fresh, Rotators
<1>3. Course'
  <2> SUFFICES ASSUME ~cause' PROVE Course'
    BY DEF Course
  <2>1. ~cause /\ SessionRequests = {} /\ ~StartLogout(r)
    BY DEF StartLogin, StartRefresh, StartLogout
  <2>2. \/ Begun(r, "login", "read", None, {}) \/ Begun(r, "refresh", "read", jar, {})
    BY <1>1, <2>1, StartBegins DEF StartLogin, StartRefresh, SessionInv, SessionOps, Steps, TypeOK
  <2>3. Usable(jar) /\ Usable(jar)'
    BY <1>1, <2>1 DEF Course, Usable
  <2>4. SessionRequests' = {r}
    BY <2>1, <2>2 DEF SessionRequests, Begun, Others, SessionOps
  <2>5. OnCourse(r)'
    BY <1>1, <2>2, <2>3 DEF OnCourse, Begun
  <2> QED
    BY <2>3, <2>4, <2>5 DEF Course, Usable
<1> QED
  BY <1>2, <1>3

\* A key request arrives.
LEMMA StartKeyCourse ==
    ASSUME CourseInv, NEW r \in Request,
           StartCreateKey(r) \/ StartRevokeKey(r) \/ StartCall(r) \/ StartSuspend(r)
    PROVE  Fresh' /\ Course'
<1> USE DEF CourseInv
<1>1. UNCHANGED <<token, lapsed, family, jar, cause>>
  BY DEF StartCreateKey, StartRevokeKey, StartCall, StartSuspend, sessionVars
<1>2. Others(r) /\ req[r].op = "none" /\ req'[r].op \in KeyOps /\ req'[r].new = None
  BY StartKey DEF Begun, Idle
<1>3. Fresh'
  BY <1>1, <1>2, QuietFresh DEF Fresh, KeyOps, Rotators
<1>4. SessionRequests' = SessionRequests /\ \A q \in SessionRequests : req'[q] = req[q]
  BY <1>2 DEF SessionRequests, Others, KeyOps, SessionOps
<1> QED
  BY <1>1, <1>3, <1>4, QuietCourse

\* A step of a key handler.
LEMMA KeyCourse ==
    ASSUME CourseInv, NEW r \in Request,
           \/ CreateKey(r) \/ RevokeKey(r) \/ AuthRead(r) \/ AuthVerify(r)
           \/ SuspendMark(r) \/ SuspendRevokeAll(r) \/ SuspendStop(r) \/ KeyCallFails(r)
           \/ KeyAnswerLost(r)
    PROVE  Fresh' /\ Course'
<1> USE DEF CourseInv
<1>1. UNCHANGED <<token, lapsed, jar, cause>>
  BY KeyMoves DEF SessionInv
<1>2. Others(r) /\ req[r].op \in KeyOps /\ req'[r].op \in KeyOps /\ req'[r].new = None
  BY KeyMoves DEF SessionInv, Moved
<1>3. Fresh'
  BY <1>1, <1>2, QuietFresh DEF Fresh, KeyOps, Rotators
<1>4. SessionRequests' = SessionRequests /\ \A q \in SessionRequests : req'[q] = req[q]
  BY <1>2 DEF SessionRequests, Others, KeyOps, SessionOps
<1> QED
  BY <1>1, <1>3, <1>4, QuietCourse

\* A read that finds the cookie usable goes on; a failed call sets cause.
LEMMA ReadCourse ==
    ASSUME CourseInv, NEW r \in Request,
           LoginRead(r) \/ RotateRead(r) \/ LogoutRead(r) \/ SessionCallFails(r)
    PROVE  Fresh' /\ Course'
<1> USE DEF CourseInv
<1>1. /\ UNCHANGED <<token, lapsed, jar>> /\ req[r].op \in SessionOps
      /\ Others(r) /\ req'[r].op = req[r].op /\ req'[r].arg = req[r].arg /\ req'[r].new = None
  BY SessionMoves DEF SessionInv, Moved
<1>2. Fresh'
  BY <1>1, QuietFresh DEF Fresh
<1>3. ~cause' => ~cause
  BY DEF LoginRead, RotateRead, LogoutRead, SessionCallFails, sessionVars
<1>4. CASE LoginRead(r)
  <2>1. req'[r].pc = "issue"
    BY <1>4, GotoMoves DEF LoginRead, SessionInv, Moved, Steps
  <2>2. OnCourse(r) => OnCourse(r)'
    BY <1>1, <1>4, <2>1 DEF LoginRead, At, OnCourse, Usable
  <2> QED
    BY <1>1, <1>2, <1>3, <2>2, CourseMoves
<1>5. CASE RotateRead(r)
  <2>1. OnCourse(r) => ~GetByHash(req[r].arg).revoked /\ ~GetByHash(req[r].arg).expired
    BY <1>5 DEF RotateRead, At, OnCourse, Usable, GetByHash
  <2>2. OnCourse(r) => req'[r].pc = "revoke"
    BY <1>5, <2>1, GotoMoves DEF RotateRead, SessionInv, Moved, Steps
  <2>3. OnCourse(r) => OnCourse(r)'
    BY <1>1, <1>5, <2>2 DEF RotateRead, At, OnCourse, Usable
  <2> QED
    BY <1>1, <1>2, <1>3, <2>3, CourseMoves
<1>6. CASE LogoutRead(r)
  <2>1. ~OnCourse(r)
    BY <1>6 DEF LogoutRead, At, OnCourse
  <2> QED
    BY <1>1, <1>2, <1>3, <2>1, CourseMoves
<1>7. CASE SessionCallFails(r)
  BY <1>2, <1>7 DEF SessionCallFails, Course
<1> QED
  BY <1>4, <1>5, <1>6, <1>7

\* The rotation's UPDATE: the token it spends is in the browser's jar or
\* already replaced there, never on its way.
LEMMA RevokeCourse ==
    ASSUME CourseInv, NEW r \in Request,
           RotateRevoke(r) \/ LogoutRevoke(r) \/ RevokeAnswerLost(r)
    PROVE  Fresh' /\ Course'
<1> USE DEF CourseInv
<1>1. /\ req[r].op \in Rotators /\ req[r].pc = "revoke" /\ UNCHANGED <<lapsed, jar>>
      /\ Others(r) /\ req'[r].op = req[r].op /\ req'[r].arg = req[r].arg /\ req'[r].new = None
  BY RevokeMoves DEF SessionInv, Moved
<1>2. \A u \in Token : u # req[r].arg => token'[u] = token[u]
  BY RevokeMoves DEF SessionInv, TypeOK
<1>3. \A q \in Request : req[q].new \in Token \cup {None}
  BY DEF SessionInv, TypeOK
<1>4. Fresh'
  BY <1>1, <1>2, <1>3, QuietFresh DEF Fresh
<1>5. ~cause' => ~cause
  BY DEF RotateRevoke, LogoutRevoke, RevokeAnswerLost
<1>6. CASE RotateRevoke(r)
  <2>1. OnCourse(r) => Revocable(req[r].arg)
    BY <1>6 DEF RotateRevoke, At, OnCourse, Usable, Revocable
  <2>2. OnCourse(r) => req'[r].pc = "issue"
    BY <1>6, <2>1, GotoMoves DEF RotateRevoke, SessionInv, Moved, Steps
  <2>3. OnCourse(r) => OnCourse(r)'
    BY <1>1, <1>6, <2>2 DEF RotateRevoke, At, OnCourse
  <2> QED
    BY <1>1, <1>4, <1>5, <2>3, CourseMoves DEF Rotators, SessionOps
<1>7. CASE LogoutRevoke(r)
  <2>1. ~OnCourse(r)
    BY <1>7 DEF LogoutRevoke, At, OnCourse
  <2> QED
    BY <1>1, <1>4, <1>5, <2>1, CourseMoves DEF Rotators, SessionOps
<1>8. CASE RevokeAnswerLost(r)
  BY <1>4, <1>8 DEF RevokeAnswerLost, Course
<1> QED
  BY <1>6, <1>7, <1>8

\* The INSERT: the new row is nobody else's.
LEMMA IssueCourse ==
    ASSUME CourseInv, NEW r \in Request, IssueSession(r) \/ IssueAnswerLost(r)
    PROVE  Fresh' /\ Course'
<1> USE DEF CourseInv
<1>1. req[r].pc = "issue" /\ req[r].op \in {"login", "refresh"} /\ UNCHANGED <<lapsed, jar>>
  BY DEF IssueSession, IssueAnswerLost, SessionInv, Shapes
<1>2. PICK n \in Token :
        /\ Insert(r, n)
        /\ \/ /\ IssueSession(r)
              /\ req' = [req EXCEPT ![r].pc = "reply", ![r].out = "set", ![r].new = n]
           \/ IssueAnswerLost(r) /\ Fail(r)
  BY DEF IssueSession, IssueAnswerLost
<1>3. /\ token[n] = "absent" /\ token'[n] = "active"
      /\ \A u \in Token : u # n => token'[u] = token[u]
  BY <1>2 DEF Insert, SessionInv, TypeOK
<1>4. /\ jar # n /\ n \notin lapsed /\ n # None
      /\ \A q \in Request : /\ req[q].op \in Rotators => req[q].arg # n
                            /\ req[q].new # n /\ req[q].new \in Token \cup {None}
  BY <1>3, NoneAssumption DEF SessionInv, Descent, Shapes, TypeOK
<1>5. /\ Others(r) /\ req'[r].op = req[r].op /\ req'[r].arg = req[r].arg
      /\ \/ IssueSession(r) /\ req'[r].new = n /\ req'[r].pc = "reply" /\ req'[r].out = "set"
         \/ IssueAnswerLost(r) /\ req'[r].new = req[r].new
  BY <1>2, IssueMoves, FailMoves DEF SessionInv, Moved
<1>6. Fresh'
  <2>1. CASE req'[r].new = n
    BY <1>1, <1>3, <1>4, <1>5, <2>1 DEF Fresh, Others
  <2>2. CASE req'[r].new = req[r].new
    BY <1>1, <1>3, <1>4, <1>5, <2>2 DEF Fresh, Others
  <2> QED
    BY <1>5, <2>1, <2>2
<1>7. CASE IssueAnswerLost(r)
  BY <1>6, <1>7 DEF IssueAnswerLost, Course
<1>8. CASE IssueSession(r) /\ req'[r].new = n /\ req'[r].pc = "reply" /\ req'[r].out = "set"
  <2>1. cause' = cause
    BY <1>8 DEF IssueSession
  <2>2. Usable(jar) => Usable(jar)'
    BY <1>1, <1>3, <1>4 DEF Usable, SessionInv, TypeOK
  <2>3. OnCourse(r) => OnCourse(r)'
    BY <1>1, <1>4, <1>5, <1>8, <2>2 DEF OnCourse
  <2> QED
    BY <1>1, <1>5, <1>6, <2>1, <2>3, CourseMoves DEF SessionOps
<1> QED
  BY <1>5, <1>7, <1>8

\* A response: the browser gets the token that is on its way.
LEMMA ReplyCourse ==
    ASSUME CourseInv, NEW r \in Request, Reply(r) \/ ReplyLost(r)
    PROVE  Fresh' /\ Course'
<1> USE DEF CourseInv
<1>1. Over(r) /\ UNCHANGED <<token, lapsed>> /\ req[r].pc = "reply" /\ req[r].op # "none"
  BY DoneIsOver DEF Reply, ReplyLost, SessionInv, Shapes, Idle
<1>2. Others(r) /\ req'[r].new = None /\ req'[r].op = "none"
  BY <1>1 DEF Over, Idle
<1>3. jar' \in {jar, None} \/ (req[r].out = "set" /\ jar' = req[r].new)
  BY DEF Reply, ReplyLost, setSessionCookies, clearSessionCookies
<1>4. Fresh'
  <2>1. CASE jar' \in {jar, None}
    BY <1>1, <1>2, <2>1, QuietFresh DEF Fresh, Rotators
  <2>2. CASE req[r].out = "set" /\ jar' = req[r].new
    BY <1>1, <1>2, <2>2 DEF Fresh, Others, SessionInv, Shapes, Rotators
  <2> QED
    BY <1>3, <2>1, <2>2
<1>5. SessionRequests' = SessionRequests \ {r}
  BY <1>2 DEF SessionRequests, Others, SessionOps
<1>6. CASE ReplyLost(r)
  BY <1>4, <1>6 DEF ReplyLost, Course
<1>7. CASE Reply(r) /\ req[r].op \in KeyOps
  <2>1. UNCHANGED <<jar, cause>>
    BY <1>7 DEF Reply, SessionInv, Shapes, KeyOps
  <2>2. SessionRequests' = SessionRequests /\ \A q \in SessionRequests : req'[q] = req[q]
    BY <1>2, <1>5, <1>7 DEF SessionRequests, Others, KeyOps, SessionOps
  <2> QED
    BY <1>1, <1>4, <2>1, <2>2, QuietCourse
<1>8. CASE Reply(r) /\ req[r].op \in SessionOps /\ ~cause'
  <2>1. r \in SessionRequests
    BY <1>8 DEF SessionRequests
  <2>2. \/ req[r].op = "login" /\ req[r].out = "set" /\ SessionRequests = {r}
           /\ req[r].new \notin lapsed
        \/ ~cause /\ ~(req[r].op = "login" /\ req[r].out = "set" /\ SessionRequests = {r})
    BY <1>8 DEF Reply
  <2>3. ~cause => SessionRequests = {r} /\ OnCourse(r)
    BY <2>1 DEF Course
  <2>4. req[r].out = "set" /\ SessionRequests = {r} /\ req[r].new \notin lapsed
    BY <1>1, <2>2, <2>3 DEF OnCourse
  <2>5. jar' = req[r].new /\ jar' # None /\ token[jar'] = "active"
    BY <1>8, <2>4 DEF Reply, setSessionCookies, Fresh, SessionInv, Shapes
  <2>6. Usable(jar)' /\ SessionRequests' = {}
    BY <1>1, <1>5, <2>4, <2>5 DEF Usable
  <2> QED
    BY <1>4, <2>6 DEF Course, Usable
<1>9. CASE cause'
  BY <1>4, <1>9 DEF Course
<1> QED
  BY <1>1, <1>6, <1>7, <1>8, <1>9 DEF SessionInv, TypeOK

\* Time passes.
LEMMA LapseCourse ==
    ASSUME CourseInv, (\E t \in Token : RefreshLapses(t)) \/ AccessLapses
    PROVE  Fresh' /\ Course'
<1>1. UNCHANGED <<token, jar, req>>
  BY DEF RefreshLapses, AccessLapses
<1>2. Fresh'
  BY <1>1 DEF CourseInv, Fresh
<1>3. CASE \E t \in Token : RefreshLapses(t)
  BY <1>2, <1>3 DEF RefreshLapses, Course
<1>4. CASE AccessLapses
  <2>1. UNCHANGED <<lapsed, cause>>
    BY <1>4 DEF AccessLapses
  <2>2. SessionRequests' = SessionRequests
    BY <1>1 DEF SessionRequests
  <2> QED
    BY <1>1, <1>2, <2>1, <2>2, QuietCourse DEF CourseInv
<1> QED
  BY <1>3, <1>4

\* Every step keeps the browser's course.
LEMMA NextCourse ==
    ASSUME CourseInv, [Next]_vars
    PROVE  CourseInv'
<1>1. SessionInv'
  BY NextSession DEF CourseInv
<1>2. Fresh' /\ Course'
  <2>1. CASE UNCHANGED vars
    <3>1. UNCHANGED <<token, lapsed, jar, req, cause>>
      BY <2>1 DEF vars
    <3>2. Fresh'
      BY <3>1 DEF CourseInv, Fresh
    <3>3. SessionRequests' = SessionRequests
      BY <3>1 DEF SessionRequests
    <3> QED
      BY <3>1, <3>2, <3>3, QuietCourse DEF CourseInv
  <2>2. CASE \E r \in Request : StartLogin(r) \/ StartRefresh(r) \/ StartLogout(r)
    BY <2>2, StartCourse
  <2>3. CASE \E r \in Request : \/ StartCreateKey(r) \/ StartRevokeKey(r) \/ StartCall(r)
                                \/ StartSuspend(r)
    BY <2>3, StartKeyCourse
  <2>4. CASE \E r \in Request : \/ LoginRead(r) \/ RotateRead(r) \/ LogoutRead(r)
                                \/ SessionCallFails(r)
    BY <2>4, ReadCourse
  <2>5. CASE \E r \in Request : \/ CreateKey(r) \/ RevokeKey(r) \/ AuthRead(r) \/ AuthVerify(r)
                                \/ SuspendMark(r) \/ SuspendRevokeAll(r) \/ SuspendStop(r)
                                \/ KeyCallFails(r) \/ KeyAnswerLost(r)
    BY <2>5, KeyCourse
  <2>6. CASE \E r \in Request : RotateRevoke(r) \/ LogoutRevoke(r) \/ RevokeAnswerLost(r)
    BY <2>6, RevokeCourse
  <2>7. CASE \E r \in Request : IssueSession(r) \/ IssueAnswerLost(r)
    BY <2>7, IssueCourse
  <2>8. CASE \E r \in Request : Reply(r) \/ ReplyLost(r)
    BY <2>8, ReplyCourse
  <2>9. CASE (\E t \in Token : RefreshLapses(t)) \/ AccessLapses
    BY <2>9, LapseCourse
  <2> QED
    BY <2>1, <2>2, <2>3, <2>4, <2>5, <2>6, <2>7, <2>8, <2>9 DEF Next
<1> QED
  BY <1>1, <1>2 DEF CourseInv

\* A browser that was signed in stays signed in, with a refresh token the next
\* rotation accepts, until a logout, an expiry, a failed call, a lost response
\* or two session requests at once (auth/session.go, api/auth.go).
THEOREM StaysSignedIn == Spec => []SessionKept
<1>1. Init => CourseInv
  <2> SUFFICES ASSUME Init PROVE CourseInv
    OBVIOUS
  <2>1. Fresh /\ Course
    BY DEF Init, Fresh, Course, Idle
  <2> QED
    BY <2>1, InitSession DEF CourseInv
<1>2. CourseInv /\ [Next]_vars => CourseInv'
  BY NextCourse
<1>3. CourseInv => SessionKept
  BY DEF CourseInv, Course, SessionKept, Usable
<1> QED
  BY <1>1, <1>2, <1>3, PTL DEF Spec

-----------------------------------------------------------------------------
(* Revocation takes hold.                                                  *)

KeysInv == SessionInv /\ Revocation

\* What every step does to the key table: no row comes back.
KeysForward ==
    \A k \in Key : /\ key[k] = "revoked" => key'[k] = "revoked"
                   /\ key[k] # "absent" => key'[k] # "absent"

\* A request moves on: what it then reports or reaches is all there is to see.
LEMMA MoveRevocation ==
    ASSUME TypeOK, Revocation, NEW r \in Request, NEW pc, NEW out, NEW new,
           Moved(r, pc, out, new), KeysForward, UNCHANGED dead,
           req[r].op = "suspend" /\ pc = "stop" => \A k \in req[r].cover : key'[k] = "revoked",
           out = "ok" => \A k \in req[r].cover : key'[k] = "revoked",
           pc = "verify" \/ out = "served" => ~req[r].late
    PROVE  Revocation'
<1>1. \A q \in Request : req[q].cover \subseteq Key
  BY DEF TypeOK
<1>2. \A q \in Request :
        /\ req'[q].op = req[q].op /\ req'[q].arg = req[q].arg
        /\ req'[q].cover = req[q].cover /\ req'[q].late = req[q].late
        /\ q # r => req'[q] = req[q]
  BY DEF Moved, Others
<1>3. req'[r].pc = pc /\ req'[r].out = out
  BY DEF Moved
<1>4. \A k \in dead' : key'[k] = "revoked"
  BY DEF KeysForward, Revocation, TypeOK
<1>5. \A q \in Request :
        /\ \A k \in req'[q].cover : key'[k] # "absent"
        /\ req'[q].op = "revokeKey" => req'[q].cover = {req'[q].arg}
        /\ req'[q].op \in {"call", "createKey"} \cup SessionOps => req'[q].cover = {}
        /\ req'[q].late => req'[q].op = "call" /\ req'[q].arg \in dead'
  BY <1>1, <1>2 DEF KeysForward, Revocation
<1>6. \A q \in Request : Covers(q) => Covers(q)'
  BY <1>1, <1>2 DEF KeysForward, Covers
<1>7. \A q \in Request \ {r} :
        /\ req'[q].op = "suspend" /\ req'[q].pc = "stop" => Covers(q)'
        /\ req'[q].out = "ok" => Covers(q)'
        /\ req'[q].pc = "verify" => ~req'[q].late
        /\ req'[q].out = "served" => ~req'[q].late
  BY <1>2, <1>6 DEF Revocation
<1>8. /\ req'[r].op = "suspend" /\ req'[r].pc = "stop" => Covers(r)'
      /\ req'[r].out = "ok" => Covers(r)'
      /\ req'[r].pc = "verify" => ~req'[r].late
      /\ req'[r].out = "served" => ~req'[r].late
  BY <1>2, <1>3 DEF Covers
<1> QED
  BY <1>4, <1>5, <1>7, <1>8 DEF Revocation

\* A request arrives: it covers rows that exist, and is late only as a call
\* with a dead key.
LEMMA BegunRevocation ==
    ASSUME TypeOK, Revocation, NEW r \in Request, NEW op \in SessionOps \cup KeyOps,
           NEW pc \in {"create", "revoke", "read", "mark"}, NEW arg, NEW cover,
           Begun(r, op, pc, arg, cover), \A k \in cover : key[k] # "absent",
           op = "revokeKey" => cover = {arg},
           op \in {"call", "createKey"} \cup SessionOps => cover = {},
           UNCHANGED <<key, dead>>
    PROVE  Revocation'
<1>1. \A q \in Request \ {r} : req'[q] = req[q]
  BY DEF Begun, Others
<1>2. /\ req'[r].op = op /\ req'[r].pc = pc /\ req'[r].arg = arg
      /\ req'[r].cover = cover /\ req'[r].out = "none"
      /\ req'[r].late => op = "call" /\ arg \in dead
  BY DEF Begun
<1> QED
  BY <1>1, <1>2 DEF Revocation, Covers

\* The steps of the session handlers.
LEMMA SessionRevocation ==
    ASSUME KeysInv, NEW r \in Request,
           \/ LoginRead(r) \/ RotateRead(r) \/ LogoutRead(r) \/ SessionCallFails(r)
           \/ RotateRevoke(r) \/ LogoutRevoke(r) \/ RevokeAnswerLost(r)
           \/ IssueSession(r) \/ IssueAnswerLost(r)
    PROVE  Revocation'
<1> USE DEF KeysInv, SessionInv
<1>1. req[r].op \in SessionOps /\ UNCHANGED <<key, dead>>
  <2>1. CASE LoginRead(r) \/ RotateRead(r) \/ LogoutRead(r) \/ SessionCallFails(r)
    BY <2>1, SessionMoves
  <2>2. CASE RotateRevoke(r) \/ LogoutRevoke(r) \/ RevokeAnswerLost(r)
    BY <2>2, RevokeMoves DEF Rotators, SessionOps
  <2>3. CASE IssueSession(r) \/ IssueAnswerLost(r)
    BY <2>3 DEF IssueSession, IssueAnswerLost, Shapes, SessionOps, keyVars
  <2> QED
    BY <2>1, <2>2, <2>3
<1>2. \E pc, out, new : Moved(r, pc, out, new)
  <2>1. CASE LoginRead(r) \/ RotateRead(r) \/ LogoutRead(r) \/ SessionCallFails(r)
    BY <2>1, SessionMoves
  <2>2. CASE RotateRevoke(r) \/ LogoutRevoke(r) \/ RevokeAnswerLost(r)
    BY <2>2, RevokeMoves
  <2>3. CASE IssueSession(r) \/ IssueAnswerLost(r)
    BY <2>3, IssueMoves, FailMoves DEF IssueSession, IssueAnswerLost
  <2> QED
    BY <2>1, <2>2, <2>3
<1>3. req[r].cover = {} /\ ~req[r].late
  BY <1>1 DEF Revocation, SessionOps
<1>4. KeysForward
  BY <1>1 DEF KeysForward
<1> QED
  BY <1>1, <1>2, <1>3, <1>4, MoveRevocation

\* The steps of the key handlers.
LEMMA KeyRevocation ==
    ASSUME KeysInv, NEW r \in Request,
           \/ CreateKey(r) \/ RevokeKey(r) \/ AuthRead(r) \/ AuthVerify(r)
           \/ SuspendMark(r) \/ SuspendRevokeAll(r) \/ SuspendStop(r) \/ KeyCallFails(r)
           \/ KeyAnswerLost(r)
    PROVE  Revocation'
<1> USE DEF KeysInv, SessionInv
<1>1. dead' = dead /\ req[r].op \in KeyOps /\ req[r].pc # "reply"
  BY KeyMoves DEF CreateKey, RevokeKey, AuthRead, AuthVerify, SuspendMark, SuspendRevokeAll,
     SuspendStop, KeyCallFails, KeyAnswerLost, RevokeAllByUser, keyVars
<1>2. KeysForward
  BY DEF KeysForward, CreateKey, RevokeKey, AuthRead, AuthVerify, SuspendMark, SuspendRevokeAll,
     SuspendStop, KeyCallFails, KeyAnswerLost, RevokeAllByUser, keyVars, TypeOK, RowState
<1>3. /\ req[r].cover \subseteq Key
      /\ req[r].out = "ok" => \A k \in req[r].cover : key'[k] = "revoked"
      /\ req[r].out = "served" => ~req[r].late
  BY <1>2 DEF TypeOK, KeysForward, Revocation, Covers
<1>4. Fail(r) => Moved(r, "reply", "keep", req[r].new)
  <2>1. ErrorOutcome(req[r].op) = "keep"
    BY <1>1 DEF ErrorOutcome, KeyOps
  <2> QED
    BY <2>1, FailMoves
<1>5. \A pc \in Steps : Goto(r, pc) => Moved(r, pc, req[r].out, req[r].new)
  BY GotoMoves
<1>6. \A out \in Outcomes : Finish(r, out) => Moved(r, "reply", out, req[r].new)
  BY FinishMoves
<1>7. Fail(r) => Revocation'
  BY <1>1, <1>2, <1>4, MoveRevocation
<1>8. CASE CreateKey(r)
  <2>1. Moved(r, "reply", "ok", req[r].new)
    BY <1>6, <1>8 DEF CreateKey, Outcomes
  <2>2. req[r].cover = {}
    BY <1>8 DEF CreateKey, At, Revocation
  <2> QED
    BY <1>1, <1>2, <2>1, <2>2, MoveRevocation
<1>9. CASE RevokeKey(r)
  <2>1. CASE key[req[r].arg] = "active"
    <3>1. Moved(r, "reply", "ok", req[r].new) /\ key' = [key EXCEPT ![req[r].arg] = "revoked"]
      BY <1>6, <1>9, <2>1 DEF RevokeKey, Outcomes
    <3>2. req[r].cover = {req[r].arg} /\ req[r].arg \in Key
      BY <1>9 DEF RevokeKey, At, Revocation, Shapes
    <3>3. \A k \in req[r].cover : key'[k] = "revoked"
      BY <3>1, <3>2 DEF TypeOK
    <3> QED
      BY <1>1, <1>2, <3>1, <3>3, MoveRevocation
  <2> QED
    BY <1>7, <1>9, <2>1 DEF RevokeKey
<1>10. CASE AuthRead(r)
  <2>1. CASE GetByPrefix(req[r].arg) = "active"
    <3>1. Moved(r, "verify", req[r].out, req[r].new)
      BY <1>5, <1>10, <2>1 DEF AuthRead, Steps
    <3>2. ~req[r].late
      BY <2>1 DEF GetByPrefix, Revocation
    <3> QED
      BY <1>1, <1>2, <1>3, <3>1, <3>2, MoveRevocation
  <2> QED
    BY <1>7, <1>10, <2>1 DEF AuthRead
<1>11. CASE AuthVerify(r)
  <2>1. Moved(r, "reply", "served", req[r].new) /\ ~req[r].late
    BY <1>6, <1>11 DEF AuthVerify, At, Outcomes, Revocation
  <2> QED
    BY <1>1, <1>2, <2>1, MoveRevocation
<1>12. CASE SuspendMark(r)
  <2>1. Moved(r, "revokeAll", req[r].out, req[r].new)
    BY <1>5, <1>12 DEF SuspendMark, Steps
  <2> QED
    BY <1>1, <1>2, <1>3, <2>1, MoveRevocation
<1>13. CASE SuspendRevokeAll(r)
  <2>1. Moved(r, "stop", req[r].out, req[r].new)
    BY <1>5, <1>13 DEF SuspendRevokeAll, Steps
  <2>2. \A k \in req[r].cover : key'[k] = "revoked"
    BY <1>3, <1>13 DEF SuspendRevokeAll, RevokeAllByUser, Revocation, TypeOK, RowState
  <2> QED
    BY <1>1, <1>2, <1>3, <2>1, <2>2, MoveRevocation
<1>14. CASE SuspendStop(r)
  <2>1. Moved(r, "reply", "ok", req[r].new)
    BY <1>6, <1>14 DEF SuspendStop, Outcomes
  <2>2. \A k \in req[r].cover : key'[k] = "revoked"
    BY <1>2, <1>3, <1>14 DEF SuspendStop, At, Revocation, Covers, KeysForward
  <2> QED
    BY <1>1, <1>2, <2>1, <2>2, MoveRevocation
<1>15. CASE KeyCallFails(r)
  BY <1>7, <1>15 DEF KeyCallFails
<1>16. CASE KeyAnswerLost(r)
  BY <1>7, <1>16 DEF KeyAnswerLost
<1> QED
  BY <1>8, <1>9, <1>10, <1>11, <1>12, <1>13, <1>14, <1>15, <1>16

\* A response: what it reports done is revoked.
LEMMA ReplyRevocation ==
    ASSUME KeysInv, NEW r \in Request, Reply(r) \/ ReplyLost(r)
    PROVE  Revocation'
<1> USE DEF KeysInv, SessionInv
<1>1. Over(r) /\ UNCHANGED key
  BY DoneIsOver DEF Reply, ReplyLost, keyVars
<1>2. /\ \A q \in Request \ {r} : req'[q] = req[q]
      /\ req'[r].op = "none" /\ req'[r].pc = "idle" /\ req'[r].out = "none"
      /\ req'[r].cover = {} /\ req'[r].late = FALSE
  BY <1>1 DEF Over, Others, Idle
<1>3. dead \subseteq dead' /\ \A k \in dead' : key[k] = "revoked"
  BY DEF Reply, ReplyLost, keyVars, Revocation, Covers
<1> QED
  BY <1>1, <1>2, <1>3 DEF Revocation, Covers, SessionOps

\* Every step keeps it.
LEMMA NextRevocation ==
    ASSUME KeysInv, [Next]_vars
    PROVE  KeysInv'
<1>1. SessionInv'
  BY NextSession DEF KeysInv
<1>2. Revocation'
  <2>1. CASE \/ UNCHANGED vars \/ (\E t \in Token : RefreshLapses(t)) \/ AccessLapses
    <3>1. UNCHANGED <<key, dead, req>>
      BY <2>1 DEF vars, RefreshLapses, AccessLapses, keyVars
    <3> QED
      BY <3>1 DEF KeysInv, Revocation, Covers
  <2>2. ASSUME NEW r \in Request, StartLogin(r) \/ StartRefresh(r) \/ StartLogout(r)
        PROVE  Revocation'
    <3>1. UNCHANGED <<key, dead>>
      BY <2>2 DEF StartLogin, StartRefresh, StartLogout, keyVars
    <3>2. PICK op \in SessionOps, arg \in {None, jar} : Begun(r, op, "read", arg, {})
      BY <2>2, StartSession DEF KeysInv, SessionOps
    <3>3. TypeOK /\ Revocation
      BY DEF KeysInv, SessionInv
    <3> QED
      BY <3>1, <3>2, <3>3, BegunRevocation DEF SessionOps
  <2>3. ASSUME NEW r \in Request,
               StartCreateKey(r) \/ StartRevokeKey(r) \/ StartCall(r) \/ StartSuspend(r)
        PROVE  Revocation'
    <3>1. UNCHANGED <<key, dead>>
      BY <2>3 DEF StartCreateKey, StartRevokeKey, StartCall, StartSuspend, keyVars
    <3>2. PICK op \in KeyOps, pc \in {"create", "revoke", "read", "mark"},
               arg \in Key \cup {None}, cover \in SUBSET Key :
             /\ Begun(r, op, pc, arg, cover)
             /\ \A k \in cover : key[k] # "absent"
             /\ op = "revokeKey" => cover = {arg}
             /\ op \in {"call", "createKey"} => cover = {}
      BY <2>3, StartKey DEF KeysInv
    <3>3. TypeOK /\ Revocation
      BY DEF KeysInv, SessionInv
    <3>4. op \notin SessionOps
      BY <3>2 DEF KeyOps, SessionOps
    <3> QED
      BY <3>1, <3>2, <3>3, <3>4, BegunRevocation
  <2>4. ASSUME NEW r \in Request,
               \/ LoginRead(r) \/ RotateRead(r) \/ LogoutRead(r) \/ SessionCallFails(r)
               \/ RotateRevoke(r) \/ LogoutRevoke(r) \/ RevokeAnswerLost(r)
               \/ IssueSession(r) \/ IssueAnswerLost(r)
        PROVE  Revocation'
    BY <2>4, SessionRevocation
  <2>5. ASSUME NEW r \in Request,
               \/ CreateKey(r) \/ RevokeKey(r) \/ AuthRead(r) \/ AuthVerify(r)
               \/ SuspendMark(r) \/ SuspendRevokeAll(r) \/ SuspendStop(r) \/ KeyCallFails(r)
           \/ KeyAnswerLost(r)
        PROVE  Revocation'
    BY <2>5, KeyRevocation
  <2>6. ASSUME NEW r \in Request, Reply(r) \/ ReplyLost(r)
        PROVE  Revocation'
    BY <2>6, ReplyRevocation
  <2> QED
    BY <2>1, <2>2, <2>3, <2>4, <2>5, <2>6 DEF Next
<1> QED
  BY <1>1, <1>2 DEF KeysInv

\* After a key's revocation was reported done, by DELETE or by a suspension
\* that covers it, no request that arrives with the key is served
\* (policy/suspension.go, auth/apikey middleware).
THEOREM RevokedIsRefused == Spec => []RevocationTakesHold
<1>1. Init => KeysInv
  <2> SUFFICES ASSUME Init PROVE KeysInv
    OBVIOUS
  <2>1. Revocation
    BY DEF Init, Revocation, Covers, Idle, SessionOps
  <2> QED
    BY <2>1, InitSession DEF KeysInv
<1>2. KeysInv /\ [Next]_vars => KeysInv'
  BY NextRevocation
<1>3. KeysInv => RevocationTakesHold
  BY DEF KeysInv, Revocation, RevocationTakesHold
<1> QED
  BY <1>1, <1>2, <1>3, PTL DEF Spec

=============================================================================
