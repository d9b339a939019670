---------------------------- MODULE SessionsProofs ----------------------------
(***************************************************************************)
(* Proofs about Sessions, for any number of users, browsers, sessions and  *)
(* requests and without the bounds on time and tokens: SessionsInvariant's *)
(* IInv is inductive and implies the safety properties, and Sessions       *)
(* implements SessionContract.                                             *)
(***************************************************************************)
EXTENDS SessionsInvariant, TLAPS

(* Nothing a field can hold is mistaken for None or for 'pending'.         *)
LEMMA Distinct ==
  /\ None \notin User /\ None \notin Browser /\ None \notin Session
  /\ None \notin Token /\ None \notin Access
  /\ \A t \in Token : HashOf(t) \in [bcrypt : Token] /\ HashOf(t).bcrypt = t
  /\ \A h \in [bcrypt : Token] : h \notin {None, Pending} /\ h = HashOf(h.bcrypt)
  /\ Pending # None
BY ConstantsAssumption DEF HashOf

(* The fields of an idle slot have their types.                            *)
LEMMA IdleTyped == Idle \in Request /\ HandlerOK(Idle)
BY Distinct DEF Idle, Request, Op, Step, HandlerOK

(* The initial states satisfy the invariant.                               *)
LEMMA Initially == Init => IInv
<1> SUFFICES ASSUME Init PROVE IInv
  OBVIOUS
<1> USE DEF Init
<1>1. TypeOK
  BY IdleTyped DEF TypeOK, Row, NoRow
<1>2. /\ \A r \in Req : HandlerOK(req[r]) /\ req[r] = Idle
      /\ \A s \in Session : RowOK(s) /\ ~Hashed(s)
  BY IdleTyped DEF RowOK, Hashed, NoRow
<1>3. Numbered /\ FreshOK /\ SpentNeverOpens /\ HeldOK /\ AnswerMeansRevoked
  BY <1>2 DEF Numbered, FreshOK, SpentNeverOpens, HeldOK, AnswerMeansRevoked,
              Writing, Idle
<1>4. TimeOK
  BY <1>2 DEF TimeOK, Writing, Idle, NoRow
<1> QED
  BY <1>1, <1>2, <1>3, <1>4 DEF IInv

(* A step that only puts request q into slot r, where q has no token to    *)
(* store and no access token, and what it claims of the table is true.     *)
LEMMA QuietStep ==
  ASSUME IInv, NEW r \in Req, NEW q \in Request,
         req' = [req EXCEPT ![r] = q],
         UNCHANGED <<sessions, minted, spent, jar, bearer, now>>,
         HandlerOK(q), q.at \notin {"sethash", "rotate"}, q.acc = None,
         q.at = "read" => Known(q.tok),
         q.at = "reply" /\ q.new # None => Known(q.new),
         q.at = "revoke" /\ q.op = "revoke" => sessions[q.sid].owner = q.usr,
         q.at = "insert" => q.chk <= now,
         q.at = "reply" /\ q.op \in {"logout", "revoke"} /\ q.sid # None
           => sessions[q.sid].revoked # None
  PROVE  IInv'
<1>1. /\ req' \in [Req -> Request]
      /\ req'[r] = q
      /\ \A x \in Req : x # r => req'[x] = req[x]
  BY DEF IInv, TypeOK
<1>2. TypeOK'
  BY <1>1 DEF IInv, TypeOK
<1>3. /\ (\A x \in Req : HandlerOK(req[x]))'
      /\ (\A s \in Session : RowOK(s))'
  BY <1>1 DEF IInv, HandlerOK, RowOK, Hashed
<1>4. \A t : Known(t)' <=> Known(t)
  BY DEF Known, Verifies
<1>5. Numbered' /\ FreshOK'
  BY <1>1, <1>4 DEF IInv, Numbered, FreshOK, Writing, Hashed
<1>6. SpentNeverOpens' /\ AnswerMeansRevoked'
  BY <1>1 DEF IInv, SpentNeverOpens, AnswerMeansRevoked, Verifies
<1>7. HeldOK'
  BY <1>1, <1>4 DEF IInv, HeldOK, Hashed
<1>8. TimeOK'
  BY <1>1 DEF IInv, TimeOK, GrantOK, Writing
<1> QED
  BY <1>2, <1>3, <1>5, <1>6, <1>7, <1>8 DEF IInv
-----------------------------------------------------------------------------
(* A request that arrives is typed and claims nothing false.               *)
LEMMA CallKeeps ==
  ASSUME IInv, NEW r \in Req, NEW b \in Browser, Call(r, b)
  PROVE  IInv'
<1>1. ASSUME NEW u \in User, NEW op \in {"login", "login-ui", "oauth"},
             StartLogin(r, b, u, op)
      PROVE  IInv'
  <2> DEFINE q == [Idle EXCEPT !.op = op, !.at = "identify", !.br = b, !.usr = u]
  <2>1. q \in Request /\ HandlerOK(q) /\ q.at = "identify" /\ q.acc = None
    BY Distinct DEF Request, Op, Step, Idle, HandlerOK
  <2>2. Arrive(r, q)
    BY <1>1 DEF StartLogin
  <2> HIDE DEF q
  <2> QED
    BY <2>1, <2>2, QuietStep DEF Arrive
<1>2. ASSUME StartRefresh(r, b) PROVE IInv'
  <2> DEFINE q == [Idle EXCEPT !.op = "refresh", !.at = "read", !.br = b, !.tok = jar[b]]
  <2>1. jar[b] \in Token /\ Known(jar[b])
    BY <1>2 DEF StartRefresh, IInv, TypeOK, HeldOK
  <2>2. q \in Request /\ HandlerOK(q) /\ q.at = "read" /\ q.tok = jar[b] /\ q.acc = None
    BY <2>1, Distinct DEF Request, Op, Step, Idle, HandlerOK
  <2>3. Arrive(r, q)
    BY <1>2 DEF StartRefresh
  <2> HIDE DEF q
  <2> QED
    BY <2>1, <2>2, <2>3, QuietStep DEF Arrive
<1>3. ASSUME NEW s \in Session, NEW op \in {"logout", "logout-ui"}, StartLogout(r, b, s, op)
      PROVE  IInv'
  <2> DEFINE q == [Idle EXCEPT !.op = op, !.at = "revoke", !.br = b, !.sid = s]
  <2>1. q \in Request /\ HandlerOK(q) /\ q.at = "revoke" /\ q.op # "revoke" /\ q.acc = None
    BY Distinct DEF Request, Op, Step, Idle, HandlerOK
  <2>2. Arrive(r, q)
    BY <1>3 DEF StartLogout
  <2> HIDE DEF q
  <2> QED
    BY <2>1, <2>2, QuietStep DEF Arrive
<1>4. ASSUME NEW s \in Session, StartRevoke(r, b, s) PROVE IInv'
  <2> DEFINE q == [Idle EXCEPT !.op = "revoke", !.at = "owner", !.br = b,
                               !.usr = bearer[b].sub, !.sid = s]
  <2>1. bearer[b].sub \in User
    BY <1>4 DEF StartRevoke, Authorized, IInv, TypeOK, Access
  <2>2. q \in Request /\ HandlerOK(q) /\ q.at = "owner" /\ q.acc = None
    BY <2>1, Distinct DEF Request, Op, Step, Idle, HandlerOK
  <2>3. Arrive(r, q)
    BY <1>4 DEF StartRevoke
  <2> HIDE DEF q
  <2> QED
    BY <2>2, <2>3, QuietStep DEF Arrive
<1>5. ASSUME StartLogoutAll(r, b) PROVE IInv'
  <2> DEFINE q == [Idle EXCEPT !.op = "logout-all", !.at = "revokeall", !.br = b,
                               !.usr = bearer[b].sub]
  <2>1. bearer[b].sub \in User
    BY <1>5 DEF StartLogoutAll, Authorized, IInv, TypeOK, Access
  <2>2. q \in Request /\ HandlerOK(q) /\ q.at = "revokeall" /\ q.acc = None
    BY <2>1, Distinct DEF Request, Op, Step, Idle, HandlerOK
  <2>3. Arrive(r, q)
    BY <1>5 DEF StartLogoutAll
  <2> HIDE DEF q
  <2> QED
    BY <2>2, <2>3, QuietStep DEF Arrive
<1> QED
  BY <1>1, <1>2, <1>3, <1>4, <1>5 DEF Call

(* The steps of a handler that write nothing.                              *)
LEMMA ReadersKeep ==
  ASSUME IInv, NEW r \in Req,
         Identify(r) \/ CheckOwner(r) \/ SwallowFailure(r) \/ Abort(r)
  PROVE  IInv'
<1>0. req \in [Req -> Request] /\ HandlerOK(req[r]) /\ now \in Nat /\ req[r] \in Request
  BY DEF IInv, TypeOK
<1>1. CASE Identify(r)
  <2> DEFINE q == [req[r] EXCEPT !.at = "insert", !.exp = now + RefreshTTL, !.chk = now]
  <2>1. /\ req[r].at = "identify"
        /\ req' = [req EXCEPT ![r] = q]
        /\ UNCHANGED <<sessions, minted, spent, jar, bearer, now>>
    BY <1>1 DEF Identify
  <2>2. now + RefreshTTL \in Nat
    BY <1>0, ConstantsAssumption
  <2>3. q \in Request /\ HandlerOK(q) /\ q.at = "insert" /\ q.chk = now /\ q.acc = None
    BY <1>0, <2>1, <2>2 DEF Request, Op, Step, HandlerOK
  <2> HIDE DEF q
  <2>4. q.chk <= now
    BY <1>0, <2>3
  <2> QED
    BY <2>1, <2>3, <2>4, QuietStep
<1>2. CASE CheckOwner(r)
  <2> DEFINE q == IF sessions[req[r].sid].owner = req[r].usr
                    THEN [req[r] EXCEPT !.at = "revoke"] ELSE Idle
  <2>1. q \in Request /\ HandlerOK(q) /\ q.acc = None /\ q.at \in {"revoke", "idle"}
    BY <1>0, <1>2, IdleTyped DEF CheckOwner, Idle, Request, Op, Step, HandlerOK
  <2>2. q.at = "revoke" => sessions[q.sid].owner = q.usr
    BY <1>0, <1>2, Distinct DEF CheckOwner, Idle, HandlerOK, Request
  <2>3. req' = [req EXCEPT ![r] = q]
    BY <1>0, <1>2 DEF CheckOwner
  <2> HIDE DEF q
  <2> QED
    BY <1>2, <2>1, <2>2, <2>3, QuietStep DEF CheckOwner
<1>3. CASE SwallowFailure(r)
  <2> DEFINE q == Reply(req[r], None)
  <2>1. q \in Request /\ HandlerOK(q) /\ q.new = None /\ q.acc = None
        /\ q.at = "reply" /\ q.op = "logout-ui"
    BY <1>0, <1>3 DEF SwallowFailure, Reply, Idle, Request, Op, Step, HandlerOK
  <2>2. req' = [req EXCEPT ![r] = q]
    BY <1>0, <1>3 DEF SwallowFailure
  <2> HIDE DEF q
  <2> QED
    BY <1>3, <2>1, <2>2, QuietStep DEF SwallowFailure
<1>4. CASE Abort(r)
  <2>1. Idle.at = "idle" /\ Idle.acc = None
    BY DEF Idle
  <2> QED
    BY <1>4, <2>1, IdleTyped, QuietStep DEF Abort
<1> QED
  BY <1>1, <1>2, <1>3, <1>4

(* What a revocation of one session tells of in its answer: that session,  *)
(* if it exists, and nothing else it knows.                                *)
LEMMA FoundTyped ==
  ASSUME IInv, NEW r \in Req, req[r].at = "revoke"
  PROVE  /\ Found(req[r]) \in Request
         /\ \A f \in {"op", "at", "br", "usr", "tok", "new", "exp", "chk", "acc"} :
              Found(req[r])[f] = req[r][f]
         /\ Found(req[r]).sid # None
              => Found(req[r]).sid = req[r].sid /\ sessions[req[r].sid].owner # None
BY DEF IInv, TypeOK, HandlerOK, Request, Found

(* revoke_session and revoke_all_sessions_for_user: revoked_at becomes now *)
(* in rows where it was NULL, everything else in the table stays.          *)
LEMMA RevokersKeep ==
  ASSUME IInv, NEW r \in Req, RevokeSession(r) \/ RevokeAll(r)
  PROVE  IInv'
<1> DEFINE p == IF req[r].at = "revoke" THEN Found(req[r]) ELSE req[r]
           q == Reply(p, None)
<1>1. /\ sessions \in [Session -> Row] /\ req \in [Req -> Request]
      /\ req[r] \in Request /\ HandlerOK(req[r]) /\ now \in Nat /\ None \notin Nat
      /\ None \notin User
  BY ConstantsAssumption DEF IInv, TypeOK
<1>2. /\ req[r].at \in {"revoke", "revokeall"}
      /\ req' = [req EXCEPT ![r] = q]
      /\ UNCHANGED <<minted, spent, jar, bearer, now>>
  <2>1. CASE RevokeSession(r)
    BY <1>1, <2>1 DEF RevokeSession
  <2>2. CASE RevokeAll(r)
    BY <1>1, <2>2 DEF RevokeAll
  <2> QED
    BY <2>1, <2>2
<1>3. /\ q \in Request /\ HandlerOK(q)
      /\ q.at = "reply" /\ q.new = None /\ q.acc = None /\ q.op = req[r].op
      /\ q.op \in {"logout", "revoke"} /\ q.sid # None
           => q.sid = req[r].sid /\ req[r].at = "revoke"
              /\ sessions[req[r].sid].owner # None
  <2>1. p \in Request /\ p.op = req[r].op /\ p.br = req[r].br /\ p.new = req[r].new
    BY <1>1, FoundTyped
  <2>2. req[r].at = "revoke" /\ p.sid # None
          => p.sid = req[r].sid /\ sessions[req[r].sid].owner # None
    BY FoundTyped
  <2>3. /\ req[r].br \in Browser /\ req[r].new = None
        /\ req[r].at = "revokeall" => req[r].op = "logout-all"
    BY <1>1, <1>2 DEF HandlerOK
  <2> HIDE DEF p
  <2>4. q \in Request /\ HandlerOK(q)
    BY <2>1, <2>3 DEF Reply, Request, Op, Step, HandlerOK
  <2> QED
    BY <1>2, <2>1, <2>2, <2>3, <2>4 DEF Reply
<1>4. /\ sessions' \in [Session -> Row]
      /\ \A s \in Session :
           /\ sessions'[s].owner = sessions[s].owner
           /\ sessions'[s].hash = sessions[s].hash
           /\ sessions[s].revoked # None => sessions'[s].revoked = sessions[s].revoked
           /\ sessions[s].revoked = None /\ sessions'[s].revoked # None
                => sessions'[s].revoked = now /\ sessions[s].owner # None
  <2>1. /\ \A s \in Session : sessions'[s] \in {sessions[s], RevokedRow(sessions[s])}
        /\ sessions' = [x \in Session |-> sessions'[x]]
    BY <1>1 DEF RevokeSession, RevokeAll
  <2>2. \A s \in Session :
          /\ RevokedRow(sessions[s]) \in Row
          /\ RevokedRow(sessions[s]).owner = sessions[s].owner
          /\ RevokedRow(sessions[s]).hash = sessions[s].hash
          /\ sessions[s].revoked # None
               => RevokedRow(sessions[s]).revoked = sessions[s].revoked
          /\ sessions[s].revoked = None /\ RevokedRow(sessions[s]).revoked # None
               => RevokedRow(sessions[s]).revoked = now /\ sessions[s].owner # None
    BY <1>1 DEF RevokedRow, Row
  <2>3. ASSUME NEW s \in Session PROVE sessions[s] \in Row /\ sessions'[s] \in Row
    <3>1. CASE sessions'[s] = sessions[s]
      BY <1>1, <3>1
    <3>2. CASE sessions'[s] = RevokedRow(sessions[s])
      BY <1>1, <2>2, <3>2
    <3> QED
      BY <2>1, <3>1, <3>2
  <2>4. sessions' \in [Session -> Row]
    BY <1>1, <2>3 DEF RevokeSession, RevokeAll
  <2>5. ASSUME NEW s \in Session
        PROVE  /\ sessions'[s].owner = sessions[s].owner
               /\ sessions'[s].hash = sessions[s].hash
               /\ sessions[s].revoked # None => sessions'[s].revoked = sessions[s].revoked
               /\ sessions[s].revoked = None /\ sessions'[s].revoked # None
                    => sessions'[s].revoked = now /\ sessions[s].owner # None
    <3>1. CASE sessions'[s] = sessions[s]
      BY <3>1
    <3>2. CASE sessions'[s] = RevokedRow(sessions[s])
      BY <2>2, <3>2
    <3> QED
      BY <2>1, <3>1, <3>2
  <2> QED
    BY <2>4, <2>5
<1>5. q.op \in {"logout", "revoke"} /\ q.sid # None => sessions'[q.sid].revoked # None
  <2> SUFFICES ASSUME q.op \in {"logout", "revoke"}, q.sid # None
               PROVE  sessions'[req[r].sid].revoked # None
    BY <1>3
  <2>1. RevokeSession(r) /\ req[r].sid \in Session /\ sessions[req[r].sid].owner # None
    BY <1>1, <1>3 DEF RevokeAll, HandlerOK
  <2>2. sessions'[req[r].sid] = RevokedRow(sessions[req[r].sid])
    BY <1>1, <2>1 DEF RevokeSession
  <2> QED
    BY <1>1, <2>1, <2>2 DEF RevokedRow, Row
<1> HIDE DEF p, q
<1>6. /\ req' \in [Req -> Request]
      /\ req'[r] = q
      /\ \A x \in Req : x # r => req'[x] = req[x]
  BY <1>1, <1>2, <1>3
<1>7. /\ TypeOK'
      /\ (\A x \in Req : HandlerOK(req[x]))'
      /\ (\A s \in Session : RowOK(s))'
  <2>1. TypeOK'
    BY <1>2, <1>4, <1>6 DEF IInv, TypeOK
  <2>2. (\A x \in Req : HandlerOK(req[x]))'
    BY <1>3, <1>6 DEF IInv, HandlerOK
  <2>3. (\A s \in Session : RowOK(s))'
    BY <1>4 DEF IInv, RowOK, Hashed
  <2> QED
    BY <2>1, <2>2, <2>3
<1>8. /\ \A t \in Token : Known(t)' <=> Known(t)
      /\ \A s \in Session : Hashed(s)' <=> Hashed(s)
  BY <1>2, <1>4 DEF Known, Verifies, Token, Hashed
<1>9. Numbered' /\ SpentNeverOpens'
  <2>1. Numbered'
    BY <1>2, <1>3, <1>4, <1>6, <1>8 DEF IInv, Numbered, Writing, Hashed
  <2>2. SpentNeverOpens'
    BY <1>2, <1>4 DEF IInv, TypeOK, SpentNeverOpens, Verifies, Token
  <2> QED
    BY <2>1, <2>2
<1>10. FreshOK'
  BY <1>3, <1>4, <1>6, <1>8 DEF IInv, FreshOK, Writing, HandlerOK
<1>11. HeldOK'
  BY <1>2, <1>3, <1>4, <1>6, <1>8 DEF IInv, HeldOK, TypeOK, Request, HandlerOK, Token
<1>12. TimeOK'
  <2>1. \A s \in Session, c \in Nat : GrantOK(s, c) => GrantOK(s, c)'
    BY <1>1, <1>2, <1>4 DEF GrantOK
  <2>2. /\ \A x \in Req : req[x].chk \in Nat /\ (Writing(x) => req[x].sid \in Session)
        /\ \A x \in Req : req[x].acc # None => req[x].acc.sid \in Session /\ req[x].acc.chk \in Nat
        /\ \A b \in Browser : bearer[b] # None => bearer[b].sid \in Session /\ bearer[b].chk \in Nat
    BY DEF IInv, TypeOK, Request, Access, HandlerOK, Writing
  <2> QED
    BY <1>1, <1>2, <1>3, <1>4, <1>6, <2>1, <2>2 DEF IInv, TimeOK, Writing
<1>13. AnswerMeansRevoked'
  <2>1. \A x \in Req : req[x].sid # None => req[x].sid \in Session
    BY DEF IInv, TypeOK, Request
  <2>2. \A x \in Req \ {r} :
          req'[x].at = "reply" /\ req'[x].op \in {"logout", "revoke"} /\ req'[x].sid # None
            => sessions'[req'[x].sid].revoked # None
    BY <1>4, <1>6, <2>1 DEF IInv, AnswerMeansRevoked
  <2> QED
    BY <1>5, <1>6, <2>2 DEF AnswerMeansRevoked
<1> QED
  BY <1>7, <1>9, <1>10, <1>11, <1>12, <1>13 DEF IInv

(* A reply that arrives gives the browser what the handler held.           *)
LEMMA DeliverKeeps ==
  ASSUME IInv, NEW r \in Req, Deliver(r)
  PROVE  IInv'
<1> DEFINE c == IF req[r].new # None THEN req[r].new
                ELSE IF req[r].op = "logout-ui" THEN None ELSE jar[req[r].br]
           a == IF req[r].acc # None THEN req[r].acc ELSE bearer[req[r].br]
<1>1. /\ req \in [Req -> Request] /\ jar \in [Browser -> Token \cup {None}]
      /\ bearer \in [Browser -> Access \cup {None}]
      /\ req[r] \in Request /\ HandlerOK(req[r])
  BY DEF IInv, TypeOK
<1>2. /\ req[r].at = "reply"
      /\ jar' = [jar EXCEPT ![req[r].br] = c]
      /\ bearer' = [bearer EXCEPT ![req[r].br] = a]
      /\ req' = [req EXCEPT ![r] = Idle]
      /\ UNCHANGED <<sessions, minted, spent, now>>
  BY DEF Deliver
<1>3. req[r].br \in Browser
  BY <1>1, <1>2 DEF HandlerOK
<1>4. /\ c \in Token \cup {None} /\ (c # None => Known(c))
      /\ a \in Access \cup {None} /\ (a # None => GrantOK(a.sid, a.chk))
  <2>1. /\ req[r].new \in Token \cup {None} /\ req[r].acc \in Access \cup {None}
        /\ jar[req[r].br] \in Token \cup {None} /\ bearer[req[r].br] \in Access \cup {None}
    BY <1>1, <1>3 DEF Request
  <2>2. /\ req[r].new # None => Known(req[r].new)
        /\ jar[req[r].br] # None => Known(jar[req[r].br])
        /\ req[r].acc # None => GrantOK(req[r].acc.sid, req[r].acc.chk)
        /\ bearer[req[r].br] # None
             => GrantOK(bearer[req[r].br].sid, bearer[req[r].br].chk)
    BY <1>2, <1>3 DEF IInv, HeldOK, TimeOK
  <2> QED
    BY <2>1, <2>2
<1> HIDE DEF c, a
<1>5. Idle.at = "idle" /\ Idle.new = None /\ Idle.acc = None
  BY DEF Idle
<1>6. /\ req' \in [Req -> Request] /\ req'[r] = Idle
      /\ \A x \in Req : x # r => req'[x] = req[x]
      /\ jar' \in [Browser -> Token \cup {None}]
      /\ \A b \in Browser : jar'[b] = jar[b] \/ jar'[b] = c
      /\ bearer' \in [Browser -> Access \cup {None}]
      /\ \A b \in Browser : bearer'[b] = bearer[b] \/ bearer'[b] = a
  BY <1>1, <1>2, <1>3, <1>4, IdleTyped
<1>7. /\ TypeOK'
      /\ (\A x \in Req : HandlerOK(req[x]))'
      /\ (\A s \in Session : RowOK(s))'
  BY <1>2, <1>6, IdleTyped DEF IInv, TypeOK, HandlerOK, RowOK, Hashed
<1>8. /\ \A t : Known(t)' <=> Known(t)
      /\ \A s : Hashed(s)' <=> Hashed(s)
      /\ \A s, t : GrantOK(s, t)' <=> GrantOK(s, t)
  BY <1>2 DEF Known, Verifies, Hashed, GrantOK
<1>9. Numbered' /\ FreshOK'
  BY <1>2, <1>5, <1>6, <1>8 DEF IInv, Numbered, FreshOK, Writing
<1>10. SpentNeverOpens' /\ AnswerMeansRevoked'
  BY <1>2, <1>5, <1>6 DEF IInv, SpentNeverOpens, AnswerMeansRevoked, Verifies
<1>11. HeldOK'
  BY <1>2, <1>4, <1>5, <1>6, <1>8 DEF IInv, HeldOK
<1>12. TimeOK'
  BY <1>2, <1>4, <1>5, <1>6, <1>8 DEF IInv, TimeOK, Writing
<1> QED
  BY <1>7, <1>9, <1>10, <1>11, <1>12 DEF IInv

(* Only the clock moves, and no past is dated later than it.               *)
LEMMA TickKeeps ==
  ASSUME IInv, Tick
  PROVE  IInv'
<1>1. now \in Nat /\ now' = now + 1 /\ UNCHANGED <<sessions, minted, spent, req, jar, bearer>>
  BY DEF Tick, IInv, TypeOK
<1>2. TypeOK' /\ (\A r \in Req : HandlerOK(req[r]))' /\ (\A s \in Session : RowOK(s))'
  BY <1>1 DEF IInv, TypeOK, HandlerOK, RowOK, Hashed
<1>3. Numbered' /\ FreshOK' /\ HeldOK' /\ SpentNeverOpens' /\ AnswerMeansRevoked'
  BY <1>1 DEF IInv, Numbered, FreshOK, HeldOK, SpentNeverOpens, AnswerMeansRevoked,
              Writing, Hashed, Known, Verifies
<1>4. TimeOK'
  <2>1. \A s \in Session : sessions[s].revoked \in Nat \cup {None}
    BY DEF IInv, TypeOK, Row
  <2>2. /\ \A r \in Req : req[r].chk \in Nat
        /\ \A r \in Req : req[r].acc # None => req[r].acc.chk \in Nat
        /\ \A b \in Browser : bearer[b] # None => bearer[b].chk \in Nat
    BY DEF IInv, TypeOK, Request, Access
  <2>3. \A s : \A c \in Nat : GrantOK(s, c) => GrantOK(s, c)'
    BY <1>1 DEF GrantOK
  <2> QED
    BY <1>1, <2>1, <2>2, <2>3 DEF IInv, TimeOK, Writing
<1> QED
  BY <1>2, <1>3, <1>4 DEF IInv

(* The next random part has never been generated.                          *)
LEMMA FreshTokenIsFresh ==
  ASSUME IInv, NEW s \in Session
  PROVE  /\ FreshToken(s) \in Token /\ FreshToken(s).sid = s
         /\ FreshToken(s).secret = minted + 1
         /\ ~Known(FreshToken(s))
         /\ \A r \in Req : Writing(r) => req[r].new # FreshToken(s)
<1>1. minted \in Nat /\ spent \subseteq Token /\ sessions \in [Session -> Row]
  BY DEF IInv, TypeOK
<1>2. /\ FreshToken(s) \in Token /\ FreshToken(s).sid = s
      /\ FreshToken(s).secret = minted + 1
  BY <1>1 DEF FreshToken, Token
<1>3. \A t \in Token : t.secret <= minted => t # FreshToken(s)
  BY <1>1, <1>2 DEF Token
<1>4. FreshToken(s) \notin spent
  BY <1>1, <1>3 DEF IInv, Numbered
<1>5. ~Verifies(FreshToken(s), sessions[s].hash)
  <2>1. CASE ~Hashed(s)
    BY <1>2, <2>1, Distinct DEF Hashed, Verifies
  <2>2. CASE Hashed(s)
    BY <1>1, <1>2, <1>3, <2>2, Distinct DEF Hashed, Verifies, IInv, Numbered, Row
  <2> QED
    BY <2>1, <2>2
<1>6. \A r \in Req : Writing(r) => req[r].new # FreshToken(s)
  BY <1>3 DEF IInv, Numbered, HandlerOK, Writing
<1> QED
  BY <1>2, <1>4, <1>5, <1>6 DEF Known

(* get_session_by_id and the checks: a refused token ends the request, an  *)
(* accepted one gets a fresh successor.                                    *)
LEMMA ReadSessionKeeps ==
  ASSUME IInv, NEW r \in Req, ReadSession(r)
  PROVE  IInv'
<1>1. /\ sessions \in [Session -> Row] /\ req \in [Req -> Request]
      /\ req[r] \in Request /\ HandlerOK(req[r]) /\ now \in Nat /\ minted \in Nat
      /\ spent \subseteq Token
  BY DEF IInv, TypeOK
<1>2. CASE req' = [req EXCEPT ![r] = Idle] /\ UNCHANGED <<sessions, minted, spent, jar, bearer, now>>
  <2>1. Idle.at = "idle" /\ Idle.acc = None
    BY DEF Idle
  <2> QED
    BY <1>2, <2>1, IdleTyped, QuietStep
<1> DEFINE t == req[r].tok
           q == [req[r] EXCEPT !.at = "rotate", !.sid = t.sid, !.usr = sessions[t.sid].owner,
                               !.new = FreshToken(t.sid), !.exp = now + RefreshTTL, !.chk = now]
<1>3. CASE Accepts(t) /\ minted' = minted + 1 /\ req' = [req EXCEPT ![r] = q]
           /\ UNCHANGED <<sessions, spent, jar, bearer, now>>
  <2>1. req[r].at = "read"
    BY DEF ReadSession
  <2>2. /\ t \in Token /\ t.sid \in Session /\ Known(t)
        /\ req[r].op = "refresh" /\ req[r].br \in Browser /\ req[r].acc = None
    BY <1>1, <2>1 DEF HandlerOK, Token, IInv, HeldOK
  <2>3. /\ sessions[t.sid].owner \in User
        /\ sessions[t.sid].revoked = None
        /\ Hashed(t.sid)
    BY <1>1, <1>3, <2>2, Distinct DEF Accepts, Row, Hashed, Verifies
  <2>4. /\ FreshToken(t.sid) \in Token /\ FreshToken(t.sid).sid = t.sid
        /\ FreshToken(t.sid).secret = minted + 1
        /\ ~Known(FreshToken(t.sid))
        /\ \A x \in Req : Writing(x) => req[x].new # FreshToken(t.sid)
    BY <2>2, FreshTokenIsFresh
  <2>5. now + RefreshTTL \in Nat
    BY <1>1, ConstantsAssumption
  <2>6. /\ q \in Request /\ HandlerOK(q)
        /\ q.at = "rotate" /\ q.tok = t /\ q.sid = t.sid /\ q.new = FreshToken(t.sid)
        /\ q.chk = now /\ q.acc = None
    BY <1>1, <2>2, <2>3, <2>4, <2>5 DEF Request, Op, Step, HandlerOK
  <2> HIDE DEF t, q
  <2>7. /\ req' \in [Req -> Request] /\ req'[r] = q
        /\ \A x \in Req : x # r => req'[x] = req[x]
    BY <1>1, <1>3, <2>6
  <2>8. /\ TypeOK'
        /\ (\A x \in Req : HandlerOK(req[x]))'
        /\ (\A s \in Session : RowOK(s))'
    <3>1. TypeOK'
      BY <1>1, <1>3, <2>7 DEF IInv, TypeOK
    <3>2. (\A x \in Req : HandlerOK(req[x]))'
      BY <2>6, <2>7 DEF IInv, HandlerOK
    <3>3. (\A s \in Session : RowOK(s))'
      BY <1>3 DEF IInv, RowOK, Hashed
    <3> QED
      BY <3>1, <3>2, <3>3
  <2>9. /\ \A u : Known(u)' <=> Known(u)
        /\ \A s : Hashed(s)' <=> Hashed(s)
        /\ \A s, c : GrantOK(s, c)' <=> GrantOK(s, c)
    BY <1>3 DEF Known, Verifies, Hashed, GrantOK
  <2>10. Numbered'
    <3>1. \A s \in Session : Hashed(s) => sessions[s].hash.bcrypt.secret \in Nat
      BY <1>1 DEF Hashed, Row, Token
    <3>2. \A u \in spent : u.secret \in Nat
      BY <1>1 DEF Token
    <3>3. \A x \in Req : Writing(x) => req[x].new.secret \in Nat
      BY DEF IInv, HandlerOK, Writing, Token
    <3> QED
      BY <1>1, <1>3, <2>4, <2>6, <2>7, <2>9, <3>1, <3>2, <3>3 DEF IInv, Numbered, Writing
  <2>11. FreshOK'
    BY <1>3, <2>4, <2>6, <2>7, <2>9 DEF IInv, FreshOK, Writing
  <2>12. SpentNeverOpens' /\ AnswerMeansRevoked'
    BY <1>3, <2>6, <2>7 DEF IInv, SpentNeverOpens, AnswerMeansRevoked, Verifies
  <2>13. HeldOK'
    BY <1>3, <2>2, <2>6, <2>7, <2>9 DEF IInv, HeldOK
  <2>14. TimeOK'
    <3>1. GrantOK(t.sid, now)
      BY <1>1, <2>3, Distinct DEF GrantOK
    <3> QED
      BY <1>3, <2>6, <2>7, <2>9, <3>1 DEF IInv, TimeOK, Writing
  <2> QED
    BY <2>8, <2>10, <2>11, <2>12, <2>13, <2>14 DEF IInv
<1> QED
  BY <1>2, <1>3 DEF ReadSession

(* create_session_placeholder: the id is new, so no token is for it.       *)
LEMMA InsertSessionKeeps ==
  ASSUME IInv, NEW r \in Req, InsertSession(r)
  PROVE  IInv'
<1>1. /\ sessions \in [Session -> Row] /\ req \in [Req -> Request]
      /\ req[r] \in Request /\ HandlerOK(req[r]) /\ now \in Nat /\ minted \in Nat
      /\ spent \subseteq Token
  BY DEF IInv, TypeOK
<1>2. PICK s \in Session :
        /\ sessions[s].owner = None
        /\ sessions' = [sessions EXCEPT ![s] = PlaceholderRow(req[r])]
        /\ req' = [req EXCEPT ![r] =
                     [@ EXCEPT !.at = "sethash", !.sid = s, !.new = FreshToken(s)]]
  BY DEF InsertSession
<1> DEFINE row == PlaceholderRow(req[r])
           q == [req[r] EXCEPT !.at = "sethash", !.sid = s, !.new = FreshToken(s)]
<1>3. /\ req[r].at = "insert" /\ minted' = minted + 1
      /\ sessions' = [sessions EXCEPT ![s] = row] /\ req' = [req EXCEPT ![r] = q]
      /\ UNCHANGED <<spent, jar, bearer, now>>
  BY <1>2 DEF InsertSession
<1>4. /\ FreshToken(s) \in Token /\ FreshToken(s).sid = s
      /\ FreshToken(s).secret = minted + 1
      /\ ~Known(FreshToken(s))
      /\ \A x \in Req : Writing(x) => req[x].new # FreshToken(s)
  BY FreshTokenIsFresh
<1>5. /\ req[r].usr \in User /\ req[r].chk <= now /\ req[r].br \in Browser
      /\ req[r].op \in {"login", "login-ui", "oauth"} /\ req[r].acc = None
      /\ sessions[s].hash = None /\ ~Hashed(s)
  BY <1>1, <1>2, <1>3 DEF HandlerOK, IInv, TimeOK, RowOK, Hashed
<1>6. /\ row \in Row /\ row.owner \in User /\ row.hash = Pending /\ row.revoked = None
  BY <1>1, <1>5 DEF PlaceholderRow, Row, Request
<1>7. /\ q \in Request /\ HandlerOK(q)
      /\ q.at = "sethash" /\ q.sid = s /\ q.new = FreshToken(s)
      /\ q.chk = req[r].chk /\ q.acc = None
  BY <1>1, <1>4, <1>5 DEF Request, Op, Step, HandlerOK
<1> HIDE DEF row, q
<1>8. /\ req' \in [Req -> Request] /\ req'[r] = q
      /\ \A x \in Req : x # r => req'[x] = req[x]
      /\ sessions' \in [Session -> Row] /\ sessions'[s] = row
      /\ \A x \in Session : x # s => sessions'[x] = sessions[x]
  BY <1>1, <1>3, <1>6, <1>7
<1>9. /\ TypeOK'
      /\ (\A x \in Req : HandlerOK(req[x]))'
      /\ (\A x \in Session : RowOK(x))'
  <2>1. TypeOK'
    BY <1>1, <1>3, <1>8 DEF IInv, TypeOK
  <2>2. (\A x \in Req : HandlerOK(req[x]))'
    BY <1>7, <1>8 DEF IInv, HandlerOK
  <2>3. (\A x \in Session : RowOK(x))'
    BY <1>6, <1>8, Distinct DEF IInv, RowOK, Hashed
  <2> QED
    BY <2>1, <2>2, <2>3
<1>10. /\ \A x \in Session : Hashed(x)' <=> Hashed(x)
       /\ \A t \in Token : Known(t)' <=> Known(t)
       /\ \A t \in Token : Verifies(t, sessions[t.sid].hash)'
                            <=> Verifies(t, sessions[t.sid].hash)
  <2>1. \A x \in Session : Hashed(x)' <=> Hashed(x)
    BY <1>5, <1>6, <1>8 DEF Hashed
  <2>2. \A t \in Token : Verifies(t, sessions[t.sid].hash)'
                            <=> Verifies(t, sessions[t.sid].hash)
    <3> SUFFICES ASSUME NEW t \in Token
                 PROVE  Verifies(t, sessions'[t.sid].hash)
                          <=> Verifies(t, sessions[t.sid].hash)
      BY DEF Verifies
    <3>1. t.sid \in Session
      BY DEF Token
    <3>2. ~Verifies(t, Pending) /\ ~Verifies(t, None)
      BY Distinct DEF Verifies
    <3> QED
      BY <1>5, <1>6, <1>8, <3>1, <3>2
  <2> QED
    BY <1>3, <2>1, <2>2 DEF Known
<1>11. Numbered'
  <2>1. \A x \in Session : Hashed(x) => sessions[x].hash.bcrypt.secret \in Nat
    BY <1>1 DEF Hashed, Row, Token
  <2>2. \A u \in spent : u.secret \in Nat
    BY <1>1 DEF Token
  <2>3. \A x \in Req : Writing(x) => req[x].new.secret \in Nat
    BY DEF IInv, HandlerOK, Writing, Token
  <2>4. \A x \in Session : Hashed(x)' => sessions'[x] = sessions[x]
    BY <1>5, <1>8, <1>10
  <2> QED
    BY <1>1, <1>3, <1>4, <1>7, <1>8, <1>10, <2>1, <2>2, <2>3, <2>4 DEF IInv, Numbered, Writing
<1>12. FreshOK'
  <2>1. \A x \in Req : Writing(x) => req[x].new \in Token
    BY DEF IInv, HandlerOK, Writing
  <2>2. \A x \in Req : req[x].at = "sethash" => req[x].sid # s
    BY <1>5, Distinct DEF IInv, FreshOK
  <2>3. \A x \in Req : req[x].at = "sethash" => req[x].sid \in Session
    BY DEF IInv, HandlerOK
  <2> QED
    BY <1>4, <1>6, <1>7, <1>8, <1>10, <2>1, <2>2, <2>3 DEF IInv, FreshOK, Writing
<1>13. SpentNeverOpens'
  BY <1>1, <1>3, <1>10 DEF IInv, SpentNeverOpens, Verifies
<1>14. HeldOK'
  <2>1. \A t \in spent : t \in Token /\ t.sid \in Session
    BY <1>1 DEF Token
  <2>2. \A b \in Browser : jar[b] # None => jar[b] \in Token
    BY DEF IInv, TypeOK
  <2>3. \A x \in Req : /\ req[x].at \in {"read", "rotate"} => req[x].tok \in Token
                       /\ req[x].new # None => req[x].new \in Token
                       /\ req[x].at = "revoke" => req[x].sid \in Session
    BY <1>1 DEF IInv, HandlerOK, Request
  <2>4. \A x \in Req : req[x].at = "revoke" /\ req[x].op = "revoke"
          => sessions[req[x].sid].owner = req[x].usr /\ req[x].usr # None
    BY Distinct DEF IInv, HeldOK, HandlerOK
  <2>5. \A x \in Session : sessions[x].owner # None => sessions'[x].owner = sessions[x].owner
    BY <1>2, <1>8
  <2> QED
    BY <1>3, <1>7, <1>8, <1>10, <2>1, <2>2, <2>3, <2>4, <2>5 DEF IInv, HeldOK
<1>15. TimeOK'
  <2>1. \A c : GrantOK(s, c) => FALSE
    BY <1>2 DEF GrantOK
  <2>2. \A x \in Session, c \in Nat : GrantOK(x, c) => GrantOK(x, c)'
    BY <1>3, <1>8, <2>1 DEF GrantOK
  <2>3. GrantOK(req[r].sid, req[r].chk)'
    BY <1>3, <1>5, <1>6, <1>7, <1>8, Distinct DEF GrantOK
  <2>4. /\ \A x \in Req : req[x].chk \in Nat /\ (Writing(x) => req[x].sid \in Session)
        /\ \A x \in Req : req[x].acc # None => req[x].acc.sid \in Session /\ req[x].acc.chk \in Nat
        /\ \A b \in Browser : bearer[b] # None => bearer[b].sid \in Session /\ bearer[b].chk \in Nat
    BY DEF IInv, TypeOK, Request, Access, HandlerOK, Writing
  <2>5. /\ \A x \in Session : sessions'[x].revoked # None => sessions'[x].revoked <= now'
        /\ \A x \in Req : req'[x].at = "insert" => req'[x].chk <= now'
    BY <1>3, <1>6, <1>7, <1>8 DEF IInv, TimeOK
  <2> QED
    BY <1>3, <1>7, <1>8, <2>2, <2>3, <2>4, <2>5 DEF IInv, TimeOK, Writing
<1>16. AnswerMeansRevoked'
  <2>1. sessions[s].revoked = None
    BY <1>2 DEF IInv, RowOK
  <2>2. \A x \in Req : req[x].sid # None => req[x].sid \in Session
    BY <1>1 DEF Request
  <2> QED
    BY <1>6, <1>7, <1>8, <2>1, <2>2 DEF IInv, AnswerMeansRevoked
<1> QED
  BY <1>9, <1>11, <1>12, <1>13, <1>14, <1>15, <1>16 DEF IInv

(* A reply of a login or refresh is typed and keeps the new token.         *)
LEMMA ReplyTyped ==
  ASSUME NEW p \in Request, NEW access \in Access \cup {None}, p.br \in Browser,
         p.op \in {"login", "login-ui", "oauth", "refresh"}
  PROVE  /\ Reply(p, access) \in Request /\ HandlerOK(Reply(p, access))
         /\ Reply(p, access).at = "reply" /\ Reply(p, access).op = p.op
         /\ Reply(p, access).new = p.new /\ Reply(p, access).acc = access
BY DEF Reply, Idle, Request, Op, Step, HandlerOK

(* The two statements that store a token r has generated, for the session  *)
(* it works on: the new credential replaces nothing or retires the old     *)
(* one, and no other token changes sides.                                  *)
LEMMA StoreKeeps ==
  ASSUME IInv, NEW r \in Req, Writing(r), NEW access \in Access \cup {None},
         NEW row \in Row, NEW s \in Session, NEW n \in Token,
         req[r].sid = s, req[r].new = n,
         req' = [req EXCEPT ![r] = Reply(req[r], access)],
         sessions' = [sessions EXCEPT ![s] = row],
         row.owner = sessions[s].owner,
         row.hash = HashOf(n),
         row.revoked = sessions[s].revoked,
         access # None => access.sid = s /\ access.chk = req[r].chk,
         spent' = spent \cup {t \in Token : HashOf(t) = sessions[s].hash},
         UNCHANGED <<minted, jar, bearer, now>>
  PROVE  IInv'
<1> DEFINE q == Reply(req[r], access)
<1>1. /\ sessions \in [Session -> Row] /\ req \in [Req -> Request]
      /\ req[r] \in Request /\ HandlerOK(req[r]) /\ now \in Nat /\ minted \in Nat
      /\ spent \subseteq Token
  BY DEF IInv, TypeOK
<1>2. /\ s \in Session /\ n \in Token /\ n.sid = s /\ n.secret <= minted /\ ~Known(n)
      /\ req[r].op \in {"login", "login-ui", "oauth", "refresh"}
      /\ req[r].br \in Browser
      /\ GrantOK(s, req[r].chk)
  BY <1>1 DEF Writing, HandlerOK, IInv, Numbered, FreshOK, TimeOK
<1>3. /\ q \in Request /\ HandlerOK(q)
      /\ q.at = "reply" /\ q.new = req[r].new /\ q.acc = access
      /\ q.op \in {"login", "login-ui", "oauth", "refresh"}
  BY <1>1, <1>2, ReplyTyped
<1>4. /\ req' = [req EXCEPT ![r] = q] /\ sessions' = [sessions EXCEPT ![s] = row]
      /\ row.owner = sessions[s].owner /\ row.hash = HashOf(n)
      /\ row.revoked = sessions[s].revoked
      /\ access # None => access.sid = s /\ access.chk = req[r].chk
      /\ spent' = spent \cup {t \in Token : HashOf(t) = sessions[s].hash}
  OBVIOUS
<1> HIDE DEF q
<1>5. /\ req' \in [Req -> Request] /\ req'[r] = q
      /\ \A x \in Req : x # r => req'[x] = req[x]
      /\ sessions' \in [Session -> Row] /\ sessions'[s] = row
      /\ \A x \in Session : x # s => sessions'[x] = sessions[x]
      /\ spent' \subseteq Token
  BY <1>1, <1>2, <1>3, <1>4
<1>6. /\ \A x \in Session : Hashed(x) => Hashed(x)'
      /\ Hashed(s)'
      /\ \A x \in Session : /\ sessions'[x].owner = sessions[x].owner
                            /\ sessions'[x].revoked = sessions[x].revoked
  BY <1>2, <1>4, <1>5, Distinct DEF Hashed
<1>7. /\ \A t \in Token : Known(t) => Known(t)'
      /\ \A t \in Token : t # n => (Known(t)' => Known(t))
  <2> SUFFICES ASSUME NEW t \in Token
               PROVE  /\ Known(t) => t \in spent' \/ sessions'[t.sid].hash = HashOf(t)
                      /\ t # n /\ (t \in spent' \/ sessions'[t.sid].hash = HashOf(t)) => Known(t)
    BY DEF Known, Verifies
  <2>1. t.sid \in Session
    BY DEF Token
  <2>2. HashOf(t) = HashOf(n) => t = n
    BY <1>2, Distinct
  <2>3. HashOf(t) = sessions[s].hash => t.sid = s
    BY <1>1, <1>2, Distinct DEF IInv, RowOK, Hashed
  <2> QED
    BY <1>4, <1>5, <2>1, <2>2, <2>3 DEF Known, Verifies
<1>8. Known(n)'
  BY <1>2, <1>4, <1>5 DEF Known, Verifies
<1>9. /\ TypeOK'
      /\ (\A x \in Req : HandlerOK(req[x]))'
      /\ (\A x \in Session : RowOK(x))'
  <2>1. TypeOK'
    BY <1>1, <1>5 DEF IInv, TypeOK
  <2>2. (\A x \in Req : HandlerOK(req[x]))'
    BY <1>3, <1>5 DEF IInv, HandlerOK
  <2>3. \A x \in Session : x # s => RowOK(x)'
    BY <1>5 DEF IInv, RowOK, Hashed
  <2>4. RowOK(s)'
    BY <1>2, <1>4, <1>5, Distinct DEF IInv, RowOK, Hashed, GrantOK
  <2> QED
    BY <2>1, <2>2, <2>3, <2>4
<1>10. Numbered'
  <2>1. \A x \in Session : Hashed(x)' => sessions'[x].hash.bcrypt.secret <= minted
    BY <1>2, <1>4, <1>5, Distinct DEF IInv, Numbered, Hashed
  <2>2. \A t \in Token : HashOf(t) = sessions[s].hash => t.secret <= minted
    BY <1>1, <1>2, Distinct DEF IInv, Numbered, Hashed
  <2>3. \A t \in spent' : t.secret <= minted
    BY <1>4, <2>2 DEF IInv, Numbered
  <2>4. \A x \in Req : Writing(x)' => x # r /\ Writing(x)
    BY <1>3, <1>5 DEF Writing
  <2> QED
    BY <1>5, <2>1, <2>3, <2>4 DEF IInv, Numbered
<1>11. FreshOK'
  <2>1. \A x \in Req : Writing(x)' => x # r /\ Writing(x) /\ req'[x] = req[x]
    BY <1>3, <1>5 DEF Writing
  <2>2. \A x \in Req : Writing(x)' => req[x].new \in Token /\ req[x].new # n
    BY <2>1 DEF IInv, HandlerOK, Writing, FreshOK
  <2>3. \A x \in Req : req'[x].at = "sethash" => sessions'[req[x].sid] = sessions[req[x].sid]
    <3> SUFFICES ASSUME NEW x \in Req, req'[x].at = "sethash"
                 PROVE  sessions'[req[x].sid] = sessions[req[x].sid]
      OBVIOUS
    <3>1. x # r /\ req[x].at = "sethash" /\ req[x].sid \in Session
      BY <2>1 DEF Writing, IInv, HandlerOK
    <3>2. CASE req[r].at = "sethash"
      BY <1>5, <3>1, <3>2 DEF IInv, FreshOK
    <3>3. CASE req[r].at = "rotate"
      <4>1. Hashed(s)
        BY <1>1, <3>3, Distinct DEF IInv, HeldOK, HandlerOK, Known, Verifies, Hashed
      <4>2. ~Hashed(req[x].sid)
        BY <3>1 DEF IInv, FreshOK, Hashed
      <4> QED
        BY <1>5, <3>1, <4>1, <4>2
    <3> QED
      BY <3>2, <3>3 DEF Writing
  <2> QED
    BY <1>7, <2>1, <2>2, <2>3 DEF IInv, FreshOK, Writing
<1>12. SpentNeverOpens'
  <2> SUFFICES ASSUME NEW t \in spent'
               PROVE  sessions'[t.sid].hash # HashOf(t)
    BY DEF SpentNeverOpens, Verifies
  <2>1. t \in Token /\ t.sid \in Session
    BY <1>5 DEF Token
  <2>2. t # n
    <3>1. n \notin spent
      BY <1>2 DEF Known
    <3>2. HashOf(n) # sessions[s].hash
      BY <1>2 DEF Known, Verifies
    <3> QED
      BY <1>4, <3>1, <3>2
  <2>3. HashOf(t) = HashOf(n) => t = n
    BY <1>2, <2>1, Distinct
  <2>4. CASE t \in spent
    BY <1>4, <1>5, <2>1, <2>2, <2>3, <2>4 DEF IInv, SpentNeverOpens, Verifies
  <2>5. CASE HashOf(t) = sessions[s].hash
    <3>1. t.sid = s
      BY <1>1, <1>2, <2>1, <2>5, Distinct DEF IInv, RowOK, Hashed
    <3> QED
      BY <1>4, <1>5, <2>2, <2>3, <3>1
  <2> QED
    BY <1>4, <2>4, <2>5
<1>13. HeldOK'
  <2>1. \A t \in spent' : Hashed(t.sid)'
    <3> SUFFICES ASSUME NEW t \in spent' PROVE Hashed(t.sid)'
      OBVIOUS
    <3>1. t \in Token /\ t.sid \in Session
      BY <1>5 DEF Token
    <3>2. CASE t \in spent
      BY <1>6, <3>1, <3>2 DEF IInv, HeldOK
    <3>3. CASE HashOf(t) = sessions[s].hash
      BY <1>1, <1>2, <1>6, <3>1, <3>3, Distinct DEF IInv, RowOK, Hashed
    <3> QED
      BY <1>4, <3>2, <3>3
  <2>2. (\A b \in Browser : jar[b] # None => Known(jar[b]))'
    <3>1. \A b \in Browser : jar[b] # None => jar[b] \in Token /\ Known(jar[b])
      BY DEF IInv, HeldOK, TypeOK
    <3> QED
      BY <1>7, <3>1
  <2>3. (\A x \in Req : req[x].at \in {"read", "rotate"} => Known(req[x].tok))'
    BY <1>3, <1>5, <1>7 DEF IInv, HeldOK, HandlerOK
  <2>4. (\A x \in Req : req[x].at = "reply" /\ req[x].new # None => Known(req[x].new))'
    BY <1>1, <1>3, <1>5, <1>7, <1>8 DEF IInv, HeldOK, Request
  <2>5. \A x \in Req : req'[x].at = "revoke" /\ req'[x].op = "revoke"
          => sessions'[req'[x].sid].owner = req'[x].usr
    BY <1>3, <1>5, <1>6 DEF IInv, HeldOK, HandlerOK
  <2>6. \A x \in Req : req'[x].at = "rotate" => req'[x].sid = req'[x].tok.sid
    BY <1>3, <1>5 DEF IInv, HeldOK
  <2> QED
    BY <2>1, <2>2, <2>3, <2>4, <2>5, <2>6 DEF HeldOK
<1>14. TimeOK'
  <2>1. \A x \in Session : \A c : GrantOK(x, c)' <=> GrantOK(x, c)
    BY <1>6 DEF GrantOK
  <2>2. /\ \A x \in Req : Writing(x) => req[x].sid \in Session
        /\ \A x \in Req : req[x].acc # None => req[x].acc.sid \in Session
        /\ \A b \in Browser : bearer[b] # None => bearer[b].sid \in Session
    BY DEF IInv, TypeOK, Request, Access, HandlerOK, Writing
  <2> QED
    BY <1>2, <1>3, <1>4, <1>5, <1>6, <2>1, <2>2 DEF IInv, TimeOK, Writing
<1>15. AnswerMeansRevoked'
  BY <1>3, <1>5, <1>6 DEF IInv, TypeOK, Request, AnswerMeansRevoked
<1> QED
  BY <1>9, <1>10, <1>11, <1>12, <1>13, <1>14, <1>15 DEF IInv

(* set_session_token_hash.                                                 *)
LEMMA SetHashKeeps ==
  ASSUME IInv, NEW r \in Req, SetHash(r)
  PROVE  IInv'
<1> DEFINE s == req[r].sid
           access == IF req[r].op = "login"
                       THEN NewAccess(req[r].usr, s, req[r].chk) ELSE None
           row == [sessions[s] EXCEPT !.hash = HashOf(req[r].new)]
<1>1. /\ req[r].at = "sethash" /\ HandlerOK(req[r]) /\ req[r] \in Request
      /\ s \in Session /\ req[r].new \in Token /\ req[r].usr \in User
      /\ sessions[s].hash = Pending /\ sessions[s] \in Row
      /\ req[r].chk \in Nat /\ now + AccessTTL \in Nat
  BY ConstantsAssumption DEF SetHash, IInv, TypeOK, HandlerOK, FreshOK, Request
<1>2. access \in Access \cup {None}
      /\ (access # None => access.sid = s /\ access.chk = req[r].chk)
  BY <1>1 DEF NewAccess, Access
<1>3. /\ row \in Row /\ row.owner = sessions[s].owner
      /\ row.hash = HashOf(req[r].new) /\ row.revoked = sessions[s].revoked
  BY <1>1, Distinct DEF Row
<1>4. spent' = spent \cup {t \in Token : HashOf(t) = sessions[s].hash}
  BY <1>1, Distinct DEF SetHash
<1>5. /\ req' = [req EXCEPT ![r] = Reply(req[r], access)]
      /\ sessions' = [sessions EXCEPT ![s] = row]
      /\ UNCHANGED <<minted, jar, bearer, now>>
  BY <1>1 DEF SetHash, IInv, TypeOK
<1> HIDE DEF access, row
<1> QED
  BY <1>1, <1>2, <1>3, <1>4, <1>5, StoreKeeps DEF Writing

(* rotate_session.                                                         *)
LEMMA RotateKeeps ==
  ASSUME IInv, NEW r \in Req, Rotate(r)
  PROVE  IInv'
<1> DEFINE s == req[r].sid
           access == NewAccess(req[r].usr, s, req[r].chk)
           row == RotatedRow(sessions[s], req[r])
<1>1. /\ req[r].at = "rotate" /\ HandlerOK(req[r]) /\ req[r] \in Request
      /\ s \in Session /\ req[r].new \in Token /\ req[r].usr \in User
      /\ sessions[s] \in Row
      /\ req[r].chk \in Nat /\ req[r].exp \in Nat /\ now + AccessTTL \in Nat
  BY ConstantsAssumption DEF Rotate, IInv, TypeOK, HandlerOK, Request
<1>2. /\ access \in Access /\ access # None
      /\ access.sid = s /\ access.chk = req[r].chk
  BY <1>1, Distinct DEF NewAccess, Access
<1>3. /\ row \in Row /\ row.owner = sessions[s].owner
      /\ row.hash = HashOf(req[r].new) /\ row.revoked = sessions[s].revoked
  BY <1>1, Distinct DEF RotatedRow, Row
<1>4. spent' = spent \cup {t \in Token : HashOf(t) = sessions[s].hash}
  <2>1. spent' = spent \cup {h.bcrypt : h \in {sessions[s].hash} \ {None, Pending}}
    BY DEF Rotate
  <2>2. sessions[s].hash \in [bcrypt : Token] \cup {None, Pending}
    BY <1>1 DEF Row
  <2>3. \A t \in Token : HashOf(t) \notin {None, Pending}
    BY Distinct
  <2> QED
    BY <2>1, <2>2, <2>3, Distinct
<1>5. /\ req' = [req EXCEPT ![r] = Reply(req[r], access)]
      /\ sessions' = [sessions EXCEPT ![s] = row]
      /\ UNCHANGED <<minted, jar, bearer, now>>
  BY <1>1 DEF Rotate, IInv, TypeOK
<1> HIDE DEF access, row
<1> QED
  BY <1>1, <1>2, <1>3, <1>4, <1>5, StoreKeeps DEF Writing

(* The invariant does not depend on anything but the variables.            *)
LEMMA StutterKeeps == IInv /\ UNCHANGED vars => IInv'
BY DEF IInv, vars, TypeOK, HandlerOK, RowOK, Numbered, FreshOK, SpentNeverOpens, HeldOK,
       TimeOK, AnswerMeansRevoked, Hashed, Known, Verifies, Writing, GrantOK

(* Every step keeps the invariant.                                         *)
LEMMA StepKeeps == IInv /\ [Next]_vars => IInv'
<1> SUFFICES ASSUME IInv, [Next]_vars PROVE IInv'
  OBVIOUS
<1>1. CASE \E r \in Req, b \in Browser : Call(r, b)
  BY <1>1, CallKeeps
<1>2. CASE \E r \in Req : Handle(r)
  BY <1>2, ReadersKeep, InsertSessionKeeps, SetHashKeeps, ReadSessionKeeps, RotateKeeps,
     RevokersKeep DEF Handle
<1>3. CASE \E r \in Req : Deliver(r) \/ Abort(r)
  BY <1>3, DeliverKeeps, ReadersKeep
<1>4. CASE Tick
  BY <1>4, TickKeeps
<1>5. CASE UNCHANGED vars
  BY <1>5, StutterKeeps
<1> QED
  BY <1>1, <1>2, <1>3, <1>4, <1>5 DEF Next

(* The invariant holds in every state of every behaviour.                  *)
THEOREM Invariance == Spec => []IInv
BY Initially, StepKeeps, PTL DEF Spec
-----------------------------------------------------------------------------
(* Every variable keeps its type.                                          *)
THEOREM TypeCorrect == Spec => []TypeOK
<1>1. IInv => TypeOK
  BY DEF IInv
<1> QED
  BY <1>1, Invariance, PTL

(* A refresh token that a rotation has retired is never accepted again,    *)
(* however the statements of concurrent refreshes interleave.              *)
THEOREM RetiredForGood == Spec => []SpentNeverOpens
<1>1. IInv => SpentNeverOpens
  BY DEF IInv
<1> QED
  BY <1>1, Invariance, PTL

(* When /auth/logout or .../revoke is about to answer 204, the session it  *)
(* names is revoked.                                                       *)
THEOREM RevokedWhenAnswered == Spec => []AnswerMeansRevoked
<1>1. IInv => AnswerMeansRevoked
  BY DEF IInv
<1> QED
  BY <1>1, Invariance, PTL

(* An access token is granted only on a check that precedes the revocation *)
(* of its session.                                                         *)
THEOREM GrantsPrecedeRevocation == Spec => []NoGrantAfterRevocation
<1>1. IInv => NoGrantAfterRevocation
  BY DEF IInv, TimeOK, GrantOK, NoGrantAfterRevocation
<1> QED
  BY <1>1, Invariance, PTL

(* Every cookie in a browser is, or has been, the credential of a row.     *)
THEOREM CookiesAreKnown == Spec => []CookieWasCredential
<1>1. IInv => CookieWasCredential
  BY DEF IInv, HeldOK, Known, CookieWasCredential
<1> QED
  BY <1>1, Invariance, PTL

(* A half-finished login opens its session for nobody.                     *)
THEOREM PendingStaysShut == Spec => []PendingOpensForNobody
<1>1. IInv => PendingOpensForNobody
  <2> SUFFICES ASSUME IInv, NEW s \in Session, sessions[s].hash = Pending
               PROVE  /\ \A b \in Browser : jar[b] # None => jar[b].sid # s
                      /\ \A r \in Req : req[r].at \in {"read", "rotate"} => req[r].tok.sid # s
    BY DEF PendingOpensForNobody
  <2>1. \A t : Known(t) => Hashed(t.sid) \/ t \notin Token
    BY Distinct DEF Known, Verifies, IInv, HeldOK, Hashed
  <2> QED
    BY <2>1 DEF IInv, HeldOK, TypeOK, HandlerOK, Hashed
<1> QED
  BY <1>1, Invariance, PTL
-----------------------------------------------------------------------------
(* No statement stores an expires_at that was computed with a later clock, *)
(* and none adds to the one it finds.                                      *)
LEMMA ExpiryKeeps == TypeOK /\ ExpiryOK /\ [Next]_vars => ExpiryOK'
<1> SUFFICES ASSUME TypeOK, ExpiryOK, [Next]_vars PROVE ExpiryOK'
  OBVIOUS
<1>1. /\ now \in Nat /\ RefreshTTL \in Nat /\ now + RefreshTTL \in Nat
      /\ req \in [Req -> Request] /\ \A r \in Req : req[r] \in Request /\ req[r].exp \in Nat
      /\ sessions \in [Session -> Row] /\ \A s \in Session : sessions[s].expires \in Nat
  BY ConstantsAssumption DEF TypeOK, Request, Row
<1>2. ASSUME NEW r \in Req, \A x \in Req \ {r} : req'[x] = req[x],
             req'[r].exp \in Nat, req'[r].exp <= now + RefreshTTL,
             \A s \in Session : \/ sessions'[s].expires = sessions[s].expires
                                \/ sessions'[s].expires = req[r].exp,
             now' = now
      PROVE  ExpiryOK'
  BY <1>1, <1>2 DEF ExpiryOK, IdleSessionsExpire
<1>3. ASSUME NEW r \in Req, NEW b \in Browser, Call(r, b) PROVE ExpiryOK'
  <2>1. /\ \A x \in Req \ {r} : req'[x] = req[x]
        /\ sessions' = sessions /\ now' = now
    BY <1>1, <1>3 DEF Call, StartLogin, StartRefresh, StartLogout, StartRevoke,
       StartLogoutAll, Arrive
  <2>2. req'[r].exp = 0
    BY <1>1, <1>3 DEF Call, StartLogin, StartRefresh, StartLogout, StartRevoke,
       StartLogoutAll, Arrive, Idle
  <2> QED
    BY <1>1, <1>2, <2>1, <2>2
<1>4. ASSUME NEW r \in Req, Handle(r) PROVE ExpiryOK'
  <2>1. CASE Identify(r) \/ ReadSession(r)
    <3>1. req'[r].exp \in {0, now + RefreshTTL} /\ \A x \in Req \ {r} : req'[x] = req[x]
      <4>1. CASE Identify(r)
        BY <1>1, <4>1 DEF Identify, Request
      <4>2. CASE ReadSession(r) /\ Accepts(req[r].tok)
        BY <1>1, <4>2 DEF ReadSession, Request
      <4>3. CASE ReadSession(r) /\ ~Accepts(req[r].tok)
        BY <1>1, <4>3 DEF ReadSession, Idle
      <4> QED
        BY <2>1, <4>1, <4>2, <4>3
    <3> QED
      BY <1>1, <1>2, <2>1, <3>1 DEF Identify, ReadSession
  <2>2. CASE InsertSession(r)
    <3>1. PICK s \in Session :
            /\ sessions' = [sessions EXCEPT ![s] = PlaceholderRow(req[r])]
            /\ req' = [req EXCEPT ![r] =
                         [@ EXCEPT !.at = "sethash", !.sid = s, !.new = FreshToken(s)]]
      BY <2>2 DEF InsertSession
    <3>2. PlaceholderRow(req[r]).expires = req[r].exp
      BY DEF PlaceholderRow
    <3>3. /\ \A x \in Req \ {r} : req'[x] = req[x]
          /\ req'[r].exp = req[r].exp
      BY <1>1, <3>1 DEF Request
    <3>4. \A x \in Session : \/ sessions'[x].expires = sessions[x].expires
                             \/ sessions'[x].expires = req[r].exp
      BY <1>1, <3>1, <3>2
    <3> QED
      BY <1>1, <1>2, <2>2, <3>3, <3>4 DEF ExpiryOK, InsertSession
  <2>3. CASE SetHash(r) \/ Rotate(r)
    <3>1. /\ req'[r].exp = 0
          /\ \A x \in Req \ {r} : req'[x] = req[x]
      BY <1>1, <2>3 DEF SetHash, Rotate, Reply
    <3>2. \A s \in Session : \/ sessions'[s].expires = sessions[s].expires
                             \/ sessions'[s].expires = req[r].exp
      <4>1. CASE SetHash(r)
        BY <1>1, <4>1 DEF SetHash, Row
      <4>2. CASE Rotate(r)
        <5>1. sessions' = [sessions EXCEPT ![req[r].sid] =
                             RotatedRow(sessions[req[r].sid], req[r])]
          BY <1>1, <4>2 DEF Rotate
        <5>2. req[r].sid \in Session =>
                RotatedRow(sessions[req[r].sid], req[r]).expires = req[r].exp
          BY <1>1 DEF RotatedRow, Row
        <5> QED
          BY <1>1, <5>1, <5>2
      <4> QED
        BY <2>3, <4>1, <4>2
    <3> QED
      BY <1>1, <1>2, <2>3, <3>1, <3>2 DEF SetHash, Rotate
  <2>4. CASE CheckOwner(r)
    <3> DEFINE q == IF sessions[req[r].sid].owner = req[r].usr
                      THEN [req[r] EXCEPT !.at = "revoke"] ELSE Idle
    <3>0. req' = [req EXCEPT ![r] = q]
      BY <1>1, <2>4 DEF CheckOwner
    <3>1. req'[r].exp \in {0, req[r].exp} /\ \A x \in Req \ {r} : req'[x] = req[x]
      BY <1>1, <3>0 DEF Idle, Request
    <3> HIDE DEF q
    <3> QED
      BY <1>1, <1>2, <2>4, <3>1 DEF CheckOwner, ExpiryOK
  <2>5. CASE RevokeSession(r) \/ SwallowFailure(r) \/ RevokeAll(r)
    <3>1. req'[r].exp = 0 /\ (\A x \in Req \ {r} : req'[x] = req[x]) /\ now' = now
      BY <1>1, <2>5 DEF RevokeSession, SwallowFailure, RevokeAll, Reply
    <3>2. \A s \in Session : sessions'[s].expires = sessions[s].expires
      BY <1>1, <2>5 DEF RevokeSession, SwallowFailure, RevokeAll, RevokedRow, Row
    <3> QED
      BY <1>1, <1>2, <3>1, <3>2
  <2> QED
    BY <1>4, <2>1, <2>2, <2>3, <2>4, <2>5 DEF Handle
<1>5. ASSUME NEW r \in Req, Deliver(r) \/ Abort(r) PROVE ExpiryOK'
  BY <1>1, <1>2, <1>5 DEF Deliver, Abort, Idle
<1>6. CASE Tick
  BY <1>1, <1>6 DEF Tick, ExpiryOK, IdleSessionsExpire
<1>7. CASE UNCHANGED vars
  BY <1>7 DEF vars, ExpiryOK, IdleSessionsExpire
<1> QED
  BY <1>3, <1>4, <1>5, <1>6, <1>7 DEF Next

(* A session that is not used is over RefreshTTL later, whatever refreshes *)
(* have overtaken one another before.                                      *)
THEOREM IdleEnds == Spec => []IdleSessionsExpire
<1>1. Init => ExpiryOK
  BY ConstantsAssumption DEF Init, ExpiryOK, IdleSessionsExpire, NoRow, Idle
<1>2. IInv => TypeOK
  BY DEF IInv
<1>3. ExpiryOK => IdleSessionsExpire
  BY DEF ExpiryOK
<1> QED
  BY <1>1, <1>2, <1>3, ExpiryKeeps, Invariance, PTL DEF Spec
-----------------------------------------------------------------------------
(* SerialSpec.  What r brings its browser when its answer arrives.         *)
Brings(r) == req[r].at = "reply" /\ req[r].new # None

(* No two browsers get hold of one token, so a rotation for one of them    *)
(* takes it from nobody else.                                              *)
ApartOK ==
  /\ \A r, q \in Req : r # q /\ req[r].br # None => req[r].br # req[q].br
  /\ \A r \in Req : req[r].at \in {"read", "rotate"} => req[r].tok = jar[req[r].br]
  /\ \A b, c \in Browser : b # c /\ jar[b] # None => jar[b] # jar[c]
  /\ \A r \in Req : Brings(r) => \A b \in Browser : req[r].new # jar[b]
  /\ \A r, q \in Req : r # q /\ Brings(r) /\ Brings(q) => req[r].new # req[q].new

(* A browser has the credential of its session, or it is on its way.       *)
CurrentOK ==
  /\ \A r \in Req : Brings(r) => Verifies(req[r].new, sessions[req[r].new.sid].hash)
  /\ \A b \in Browser : jar[b] # None /\ (\A r \in Req : Brings(r) => req[r].br # b)
                          => Verifies(jar[b], sessions[jar[b].sid].hash)

SInv == IInv /\ ApartOK /\ CurrentOK

(* A step of a handler that brings nothing and stores nothing.             *)
LEMMA SerialQuiet ==
  ASSUME SInv, NEW r \in Req, NEW q, req' = [req EXCEPT ![r] = q], jar' = jar,
         \A s \in Session : sessions[s].hash \in {sessions'[s].hash, None},
         q.br = None \/ q.br = req[r].br \/ Waits(q.br),
         ~Brings(r), q.at = "reply" => q.new = None,
         q.at \in {"read", "rotate"} => q.tok = jar[q.br]
  PROVE  ApartOK' /\ CurrentOK'
<1>1. req \in [Req -> Request] /\ jar \in [Browser -> Token \cup {None}]
  BY DEF SInv, IInv, TypeOK
<1>2. req'[r] = q /\ \A x \in Req : x # r => req'[x] = req[x]
  BY <1>1
<1>3. ~Brings(r)' /\ \A x \in Req : x # r => (Brings(x)' <=> Brings(x))
  BY <1>2 DEF Brings
<1>4. ApartOK'
  BY <1>1, <1>2, <1>3 DEF SInv, ApartOK, Waits
<1>5. CurrentOK'
  <2>1. \A x \in Req : Brings(x) => req[x].new \in Token /\ req[x].new.sid \in Session
    BY <1>1, Distinct DEF Brings, Request, Token
  <2>2. \A b \in Browser : jar[b] # None => jar[b] \in Token /\ jar[b].sid \in Session
    BY <1>1 DEF Token
  <2>3. \A x \in Req : Brings(x)' => Brings(x) /\ x # r /\ req'[x] = req[x]
    BY <1>2, <1>3
  <2>4. \A x \in Req : Brings(x) => Brings(x)' /\ req'[x] = req[x]
    BY <1>2, <1>3
  <2>5. \A t \in Token : t.sid \in Session /\ Verifies(t, sessions[t.sid].hash) =>
          Verifies(t, sessions'[t.sid].hash)
    BY Distinct DEF Verifies
  <2> QED
    BY <2>1, <2>2, <2>3, <2>4, <2>5 DEF SInv, CurrentOK
<1> QED
  BY <1>4, <1>5

(* The UPDATE of a login or a rotation: nobody else had what it replaces.  *)
LEMMA SerialStore ==
  ASSUME SInv, NEW r \in Req, NEW acc, Writing(r),
         req' = [req EXCEPT ![r] = Reply(req[r], acc)], jar' = jar,
         \A s \in Session : sessions'[s].hash = IF s = req[r].sid THEN HashOf(req[r].new)
                                                ELSE sessions[s].hash
  PROVE  ApartOK' /\ CurrentOK'
<1>1. req \in [Req -> Request] /\ jar \in [Browser -> Token \cup {None}]
  BY DEF SInv, IInv, TypeOK
<1>2. /\ req'[r].at = "reply" /\ req'[r].br = req[r].br /\ req'[r].new = req[r].new
      /\ \A x \in Req : x # r => req'[x] = req[x]
  BY <1>1 DEF Reply
<1>3. /\ req[r].sid \in Session /\ req[r].new \in Token /\ req[r].new.sid = req[r].sid
      /\ req[r].br \in Browser /\ req[r].new # None
  BY Distinct DEF SInv, IInv, HandlerOK, Writing
<1>4. Brings(r)' /\ ~Brings(r) /\ \A x \in Req : x # r => (Brings(x)' <=> Brings(x))
  BY <1>2, <1>3 DEF Brings, Writing
<1>5. /\ ~Known(req[r].new)
      /\ \A b \in Browser : jar[b] # None => Known(jar[b])
      /\ \A x \in Req : Brings(x) => Known(req[x].new)
  BY DEF SInv, IInv, FreshOK, HeldOK, Brings
<1>6. ApartOK'
  <2>1. \A b \in Browser : req[r].new # jar[b]
    BY <1>3, <1>5
  <2>2. \A x \in Req : Brings(x) => req[r].new # req[x].new
    BY <1>5
  <2> QED
    BY <1>2, <1>4, <2>1, <2>2 DEF SInv, ApartOK
<1>7. /\ \A x \in Req : Brings(x) => req[x].new \in Token /\ req[x].new.sid \in Session
      /\ \A b \in Browser : jar[b] # None => jar[b] \in Token /\ jar[b].sid \in Session
  BY <1>1 DEF Brings, Request, Token
<1>8. \/ sessions[req[r].sid].hash = Pending
      \/ /\ req[r].tok = jar[req[r].br] /\ req[r].tok \in Token
         /\ Verifies(req[r].tok, sessions[req[r].sid].hash)
  <2>1. CASE req[r].at = "sethash"
    BY <2>1 DEF SInv, IInv, FreshOK
  <2>2. CASE req[r].at = "rotate"
    <3>1. /\ req[r].tok = jar[req[r].br] /\ req[r].tok \in Token
          /\ req[r].sid = req[r].tok.sid
      BY <2>2 DEF SInv, IInv, HandlerOK, HeldOK, ApartOK
    <3>2. \A x \in Req : Brings(x) => req[x].br # req[r].br
      BY <1>3, <1>4, Distinct DEF SInv, ApartOK
    <3>3. jar[req[r].br] # None
      BY <3>1, Distinct
    <3> QED
      BY <1>3, <3>1, <3>2, <3>3 DEF SInv, CurrentOK
  <2> QED
    BY <2>1, <2>2 DEF Writing
<1>9. ASSUME NEW t \in Token, t.sid = req[r].sid, Verifies(t, sessions[t.sid].hash)
      PROVE  t = jar[req[r].br]
  BY <1>8, <1>9, Distinct DEF Verifies
<1>10. CurrentOK'
  <2>1. ASSUME NEW x \in Req, Brings(x)'
        PROVE  Verifies(req'[x].new, sessions'[req'[x].new.sid].hash)
    <3>1. CASE x = r
      BY <1>2, <1>3, <3>1 DEF Verifies
    <3>2. CASE x # r
      <4>1. /\ Brings(x) /\ req'[x] = req[x] /\ req[x].new \in Token /\ req[x].new.sid \in Session
            /\ Verifies(req[x].new, sessions[req[x].new.sid].hash)
        BY <1>2, <1>4, <1>7, <2>1, <3>2 DEF SInv, CurrentOK
      <4>2. req[x].new # jar[req[r].br]
        BY <1>3, <4>1 DEF SInv, ApartOK
      <4>3. req[x].new.sid # req[r].sid
        BY <1>9, <4>1, <4>2
      <4> QED
        BY <4>1, <4>3
    <3> QED
      BY <3>1, <3>2
  <2>2. ASSUME NEW b \in Browser, jar[b] # None, \A x \in Req : Brings(x)' => req'[x].br # b
        PROVE  Verifies(jar[b], sessions'[jar[b].sid].hash)
    <3>1. b # req[r].br /\ \A x \in Req : Brings(x) => req[x].br # b
      BY <1>2, <1>4, <2>2
    <3>2. jar[b] \in Token /\ jar[b].sid \in Session /\ Verifies(jar[b], sessions[jar[b].sid].hash)
      BY <1>7, <2>2, <3>1 DEF SInv, CurrentOK
    <3>3. jar[b] # jar[req[r].br]
      BY <1>3, <2>2, <3>1 DEF SInv, ApartOK
    <3>4. jar[b].sid # req[r].sid
      BY <1>9, <3>2, <3>3
    <3> QED
      BY <3>2, <3>4
  <2> QED
    BY <2>1, <2>2 DEF CurrentOK
<1> QED
  BY <1>6, <1>10

(* The answer: what it brings becomes the cookie.                          *)
LEMMA SerialDeliver ==
  ASSUME SInv, NEW r \in Req, Deliver(r)
  PROVE  ApartOK' /\ CurrentOK'
<1>1. /\ req \in [Req -> Request] /\ jar \in [Browser -> Token \cup {None}]
      /\ \A x \in Req : req[x].at # "idle" => req[x].br \in Browser
  BY DEF SInv, IInv, TypeOK, HandlerOK
<1>2. PICK b \in Browser : b = req[r].br
  BY <1>1 DEF Deliver
<1>3. PICK t : t = IF req[r].new # None THEN req[r].new
                   ELSE IF req[r].op = "logout-ui" THEN None ELSE jar[b]
  OBVIOUS
<1>4. /\ req[r].at = "reply" /\ jar' = [jar EXCEPT ![b] = t]
      /\ req' = [req EXCEPT ![r] = Idle] /\ sessions' = sessions
  BY <1>2, <1>3 DEF Deliver
<1>5. /\ jar'[b] = t /\ \A c \in Browser : c # b => jar'[c] = jar[c]
      /\ req'[r] = Idle /\ \A x \in Req : x # r => req'[x] = req[x]
  BY <1>1, <1>4
<1>6. ~Brings(r)' /\ \A x \in Req : x # r => (Brings(x)' <=> Brings(x))
  BY <1>5 DEF Brings, Idle
<1>7. \A x \in Req : x # r => req[x].br # b
  BY <1>2, Distinct DEF SInv, ApartOK
<1>8. t = None \/ (Brings(r) /\ t = req[r].new) \/ (~Brings(r) /\ t = jar[b])
  BY <1>3, <1>4 DEF Brings
<1>9. ApartOK'
  <2>1. \A x, y \in Req : x # y /\ req'[x].br # None => req'[x].br # req'[y].br
    BY <1>5 DEF SInv, ApartOK, Idle
  <2>2. \A x \in Req : req'[x].at \in {"read", "rotate"} => req'[x].tok = jar'[req'[x].br]
    BY <1>1, <1>5, <1>7 DEF SInv, ApartOK, Idle
  <2>3. \A c \in Browser : c # b /\ t # None => t # jar[c]
    BY <1>8 DEF SInv, ApartOK
  <2>4. \A x \in Req : x # r /\ Brings(x) => req[x].new # t
    BY <1>8 DEF SInv, ApartOK, Brings
  <2>5. \A c, d \in Browser : c # d /\ jar'[c] # None => jar'[c] # jar'[d]
    BY <1>5, <2>3 DEF SInv, ApartOK
  <2>6. \A x \in Req : Brings(x)' => \A c \in Browser : req'[x].new # jar'[c]
    BY <1>5, <1>6, <2>4 DEF SInv, ApartOK
  <2>7. \A x, y \in Req : x # y /\ Brings(x)' /\ Brings(y)' => req'[x].new # req'[y].new
    BY <1>5, <1>6 DEF SInv, ApartOK
  <2> QED
    BY <2>1, <2>2, <2>5, <2>6, <2>7 DEF ApartOK
<1>10. CurrentOK'
  <2>1. t # None => Verifies(t, sessions[t.sid].hash)
    <3>1. CASE Brings(r) /\ t = req[r].new
      BY <3>1 DEF SInv, CurrentOK
    <3>2. CASE ~Brings(r) /\ t = jar[b]
      BY <1>7, <3>2 DEF SInv, CurrentOK
    <3> QED
      BY <1>8, <3>1, <3>2
  <2>2. \A x \in Req : Brings(x)' => Verifies(req'[x].new, sessions'[req'[x].new.sid].hash)
    BY <1>4, <1>5, <1>6 DEF SInv, CurrentOK
  <2>3. ASSUME NEW c \in Browser, jar'[c] # None, \A x \in Req : Brings(x)' => req'[x].br # c
        PROVE  Verifies(jar'[c], sessions'[jar'[c].sid].hash)
    <3>1. CASE c = b
      BY <1>4, <1>5, <2>1, <2>3, <3>1
    <3>2. CASE c # b
      <4>1. jar[c] # None /\ jar'[c] = jar[c] /\ \A x \in Req : Brings(x) => req[x].br # c
        BY <1>2, <1>5, <1>6, <2>3, <3>2
      <4> QED
        BY <1>4, <4>1 DEF SInv, CurrentOK
    <3> QED
      BY <3>1, <3>2
  <2> QED
    BY <2>2, <2>3 DEF CurrentOK
<1> QED
  BY <1>9, <1>10

LEMMA SerialCall ==
  ASSUME SInv, NEW r \in Req, NEW b \in Browser, Waits(b), Call(r, b)
  PROVE  ApartOK' /\ CurrentOK'
<1>1. PICK q : /\ Arrive(r, q) /\ q.br = b /\ q.at \notin {"reply", "rotate"}
               /\ q.at = "read" => q.tok = jar[b]
  <2>1. ASSUME NEW u \in User, NEW op \in {"login", "login-ui", "oauth"}, StartLogin(r, b, u, op)
        PROVE  \E q : /\ Arrive(r, q) /\ q.br = b /\ q.at \notin {"reply", "rotate"}
                      /\ q.at = "read" => q.tok = jar[b]
    <3> DEFINE q == [Idle EXCEPT !.op = op, !.at = "identify", !.br = b, !.usr = u]
    <3>1. Arrive(r, q) /\ q.br = b /\ q.at = "identify"
      BY <2>1 DEF StartLogin, Idle
    <3> HIDE DEF q
    <3> QED
      BY <3>1
  <2>2. CASE StartRefresh(r, b)
    <3> DEFINE q == [Idle EXCEPT !.op = "refresh", !.at = "read", !.br = b, !.tok = jar[b]]
    <3>1. Arrive(r, q) /\ q.br = b /\ q.at = "read" /\ q.tok = jar[b]
      BY <2>2 DEF StartRefresh, Idle
    <3> HIDE DEF q
    <3> QED
      BY <3>1
  <2>3. ASSUME NEW s \in Session, NEW op \in {"logout", "logout-ui"}, StartLogout(r, b, s, op)
        PROVE  \E q : /\ Arrive(r, q) /\ q.br = b /\ q.at \notin {"reply", "rotate"}
                      /\ q.at = "read" => q.tok = jar[b]
    <3> DEFINE q == [Idle EXCEPT !.op = op, !.at = "revoke", !.br = b, !.sid = s]
    <3>1. Arrive(r, q) /\ q.br = b /\ q.at = "revoke"
      BY <2>3 DEF StartLogout, Idle
    <3> HIDE DEF q
    <3> QED
      BY <3>1
  <2>4. ASSUME NEW s \in Session, StartRevoke(r, b, s)
        PROVE  \E q : /\ Arrive(r, q) /\ q.br = b /\ q.at \notin {"reply", "rotate"}
                      /\ q.at = "read" => q.tok = jar[b]
    <3> DEFINE q == [Idle EXCEPT !.op = "revoke", !.at = "owner", !.br = b,
                                 !.usr = bearer[b].sub, !.sid = s]
    <3>1. Arrive(r, q) /\ q.br = b /\ q.at = "owner"
      BY <2>4 DEF StartRevoke, Idle
    <3> HIDE DEF q
    <3> QED
      BY <3>1
  <2>5. CASE StartLogoutAll(r, b)
    <3> DEFINE q == [Idle EXCEPT !.op = "logout-all", !.at = "revokeall", !.br = b,
                                 !.usr = bearer[b].sub]
    <3>1. Arrive(r, q) /\ q.br = b /\ q.at = "revokeall"
      BY <2>5 DEF StartLogoutAll, Idle
    <3> HIDE DEF q
    <3> QED
      BY <3>1
  <2> QED
    BY <2>1, <2>2, <2>3, <2>4, <2>5 DEF Call
<1>2. /\ req[r].at = "idle" /\ req' = [req EXCEPT ![r] = q]
      /\ jar' = jar /\ sessions' = sessions
  BY <1>1 DEF Arrive
<1> QED
  BY <1>1, <1>2, SerialQuiet DEF Brings

LEMMA SerialHandle ==
  ASSUME SInv, NEW r \in Req, Handle(r)
  PROVE  ApartOK' /\ CurrentOK'
<1>1. /\ req \in [Req -> Request] /\ sessions \in [Session -> Row]
      /\ \A x \in Req : req[x].at \notin {"sethash", "rotate", "reply"} => req[x].new = None
  BY DEF SInv, IInv, TypeOK, HandlerOK
<1>2. CASE Identify(r)
  <2> DEFINE q == [req[r] EXCEPT !.at = "insert", !.exp = now + RefreshTTL, !.chk = now]
  <2>1. req' = [req EXCEPT ![r] = q] /\ q.br = req[r].br /\ q.at = "insert"
    BY <1>1, <1>2 DEF Identify, Request
  <2>2. jar' = jar /\ sessions' = sessions /\ ~Brings(r)
    BY <1>2 DEF Identify, Brings
  <2> HIDE DEF q
  <2> QED
    BY <2>1, <2>2, SerialQuiet
<1>3. CASE InsertSession(r)
  <2>1. PICK s \in Session :
          /\ sessions[s].owner = None
          /\ sessions' = [sessions EXCEPT ![s] = PlaceholderRow(req[r])]
          /\ req' = [req EXCEPT ![r] =
                       [@ EXCEPT !.at = "sethash", !.sid = s, !.new = FreshToken(s)]]
    BY <1>3 DEF InsertSession
  <2> DEFINE q == [req[r] EXCEPT !.at = "sethash", !.sid = s, !.new = FreshToken(s)]
  <2>2. req' = [req EXCEPT ![r] = q] /\ q.br = req[r].br /\ q.at = "sethash"
    BY <1>1, <2>1 DEF Request
  <2>3. sessions[s].hash = None
    BY <2>1 DEF SInv, IInv, RowOK
  <2>4. \A x \in Session : sessions[x].hash \in {sessions'[x].hash, None}
    BY <1>1, <2>1, <2>3
  <2>5. jar' = jar /\ ~Brings(r)
    BY <1>3 DEF InsertSession, Brings
  <2> HIDE DEF q
  <2> QED
    BY <2>2, <2>4, <2>5, SerialQuiet
<1>4. ASSUME SetHash(r) \/ Rotate(r)
      PROVE  ApartOK' /\ CurrentOK'
  <2>1. Writing(r) /\ jar' = jar /\ \E acc : req' = [req EXCEPT ![r] = Reply(req[r], acc)]
    BY <1>4 DEF SetHash, Rotate, Writing
  <2>2. req[r].sid \in Session
    BY <2>1 DEF SInv, IInv, HandlerOK, Writing
  <2>3. \A s \in Session : sessions'[s].hash = IF s = req[r].sid THEN HashOf(req[r].new)
                                                 ELSE sessions[s].hash
    <3>1. CASE SetHash(r)
      BY <1>1, <2>2, <3>1 DEF SetHash, Row
    <3>2. CASE Rotate(r)
      <4>1. sessions' = [sessions EXCEPT ![req[r].sid] = RotatedRow(sessions[req[r].sid], req[r])]
        BY <1>1, <3>2 DEF Rotate
      <4>2. RotatedRow(sessions[req[r].sid], req[r]).hash = HashOf(req[r].new)
        BY <1>1, <2>2 DEF RotatedRow, Row
      <4> QED
        BY <1>1, <2>2, <4>1, <4>2
    <3> QED
      BY <1>4, <3>1, <3>2
  <2> QED
    BY <2>1, <2>3, SerialStore
<1>5. CASE ReadSession(r)
  <2>1. /\ req[r].at = "read" /\ jar' = jar /\ sessions' = sessions /\ ~Brings(r)
        /\ req[r].tok = jar[req[r].br]
    BY <1>5 DEF ReadSession, Brings, SInv, ApartOK
  <2>2. CASE Accepts(req[r].tok)
    <3> DEFINE t == req[r].tok
               q == [req[r] EXCEPT !.at = "rotate", !.sid = t.sid,
                                   !.usr = sessions[t.sid].owner,
                                   !.new = FreshToken(t.sid),
                                   !.exp = now + RefreshTTL, !.chk = now]
    <3>1. req' = [req EXCEPT ![r] = q]
      BY <1>1, <1>5, <2>2 DEF ReadSession
    <3>2. q.br = req[r].br /\ q.at = "rotate" /\ q.tok = jar[q.br]
      BY <1>1, <2>1 DEF Request
    <3> HIDE DEF q
    <3> QED
      BY <2>1, <3>1, <3>2, SerialQuiet
  <2>3. CASE ~Accepts(req[r].tok)
    <3>1. req' = [req EXCEPT ![r] = Idle]
      BY <1>5, <2>3 DEF ReadSession
    <3>2. Idle.br = None /\ Idle.at = "idle"
      BY DEF Idle
    <3> QED
      BY <2>1, <3>1, <3>2, SerialQuiet
  <2> QED
    BY <2>2, <2>3
<1>6. CASE CheckOwner(r)
  <2> DEFINE q == IF sessions[req[r].sid].owner = req[r].usr
                    THEN [req[r] EXCEPT !.at = "revoke"] ELSE Idle
  <2>1. req' = [req EXCEPT ![r] = q]
    BY <1>1, <1>6 DEF CheckOwner
  <2>2. (q.br = req[r].br /\ q.at = "revoke") \/ (q.br = None /\ q.at = "idle")
    BY <1>1 DEF Request, Idle
  <2>3. jar' = jar /\ sessions' = sessions /\ ~Brings(r)
    BY <1>6 DEF CheckOwner, Brings
  <2> HIDE DEF q
  <2> QED
    BY <2>1, <2>2, <2>3, SerialQuiet
<1>7. CASE RevokeSession(r) \/ SwallowFailure(r) \/ RevokeAll(r)
  <2>1. PICK p : /\ req[r].at \in {"revoke", "revokeall"} /\ jar' = jar
                 /\ req' = [req EXCEPT ![r] = Reply(p, None)]
                 /\ p.br = req[r].br /\ p.new = req[r].new
    BY <1>1, <1>7, FoundTyped DEF SInv, RevokeSession, SwallowFailure, RevokeAll
  <2>2. \A s \in Session : sessions'[s].hash = sessions[s].hash
    <3>1. \A s \in Session : RevokedRow(sessions[s]).hash = sessions[s].hash
      BY <1>1 DEF RevokedRow, Row
    <3>2. CASE RevokeSession(r)
      <4>1. sessions' = [sessions EXCEPT ![req[r].sid] = RevokedRow(sessions[req[r].sid])]
        BY <1>1, <3>2 DEF RevokeSession
      <4> QED
        BY <1>1, <3>1, <4>1
    <3>3. CASE SwallowFailure(r)
      BY <3>3 DEF SwallowFailure
    <3>4. CASE RevokeAll(r)
      BY <3>1, <3>4 DEF RevokeAll
    <3> QED
      BY <1>7, <3>2, <3>3, <3>4
  <2>3. /\ Reply(p, None).br = req[r].br /\ Reply(p, None).at = "reply"
        /\ Reply(p, None).new = None /\ ~Brings(r)
    BY <1>1, <2>1 DEF Reply, Brings
  <2> QED
    BY <2>1, <2>2, <2>3, SerialQuiet
<1> QED
  BY <1>2, <1>3, <1>4, <1>5, <1>6, <1>7 DEF Handle

LEMMA SerialKeeps == SInv /\ [SerialNext]_vars => SInv'
<1> SUFFICES ASSUME SInv, [SerialNext]_vars
             PROVE  SInv'
  OBVIOUS
<1>1. [Next]_vars
  BY DEF SerialNext, Next
<1>2. IInv'
  BY <1>1, StepKeeps DEF SInv
<1>3. ASSUME NEW r \in Req, NEW b \in Browser, Waits(b) /\ Call(r, b)
      PROVE  ApartOK' /\ CurrentOK'
  BY <1>3, SerialCall
<1>4. ASSUME NEW r \in Req, Handle(r) \/ Deliver(r)
      PROVE  ApartOK' /\ CurrentOK'
  BY <1>4, SerialHandle, SerialDeliver
<1>5. ASSUME Tick \/ UNCHANGED vars
      PROVE  ApartOK' /\ CurrentOK'
  <2>1. UNCHANGED <<sessions, req, jar>>
    BY <1>5 DEF Tick, vars
  <2>2. \A r \in Req : Brings(r)' <=> Brings(r)
    BY <2>1 DEF Brings
  <2>3. ApartOK'
    BY <2>1, <2>2 DEF SInv, ApartOK
  <2>4. CurrentOK'
    BY <2>1, <2>2 DEF SInv, CurrentOK, Verifies
  <2> QED
    BY <2>3, <2>4
<1>6. ApartOK' /\ CurrentOK'
  BY <1>3, <1>4, <1>5 DEF SerialNext
<1> QED
  BY <1>2, <1>6 DEF SInv

(* Browsers that wait for their answers, on a network that loses none, are *)
(* never locked out of a session by rotating it.                           *)
THEOREM NobodyLockedOut == SerialSpec => []CookieIsCurrent
<1>1. Init => SInv
  <2> SUFFICES ASSUME Init
               PROVE  ApartOK /\ CurrentOK
    BY Initially DEF SInv
  <2> QED
    BY DEF Init, ApartOK, CurrentOK, Brings, Idle
<1>2. SInv => CookieIsCurrent
  BY DEF SInv, CurrentOK, CookieIsCurrent, Waits
<1> QED
  BY <1>1, <1>2, SerialKeeps, PTL DEF SerialSpec
=============================================================================
