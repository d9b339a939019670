----------------------- MODULE SessionsRefinementProofs -----------------------
(***************************************************************************)
(* Proofs about the steps of Sessions: what no statement may do to a row,  *)
(* and that every step is one SessionContract allows.                      *)
(***************************************************************************)
EXTENDS SessionsProofs

(* What each statement that writes the table does to it; everything else   *)
(* leaves the table and the retired tokens alone.                          *)
LEMMA TableSteps ==
  ASSUME IInv, [Next]_vars
  PROVE  \/ UNCHANGED <<sessions, spent>>
         \/ \E r \in Req : InsertSession(r) \/ SetHash(r) \/ Rotate(r)
                             \/ RevokeSession(r) \/ RevokeAll(r)
<1>1. ASSUME NEW r \in Req, NEW b \in Browser, Call(r, b)
      PROVE  UNCHANGED <<sessions, spent>>
  BY <1>1 DEF Call, StartLogin, StartRefresh, StartLogout, StartRevoke, StartLogoutAll,
              Arrive
<1>2. ASSUME NEW r \in Req, Handle(r)
      PROVE  \/ UNCHANGED <<sessions, spent>>
             \/ InsertSession(r) \/ SetHash(r) \/ Rotate(r)
             \/ RevokeSession(r) \/ RevokeAll(r)
  BY <1>2 DEF Handle, Identify, ReadSession, CheckOwner, SwallowFailure
<1>3. ASSUME NEW r \in Req, Deliver(r) \/ Abort(r)
      PROVE  UNCHANGED <<sessions, spent>>
  BY <1>3 DEF Deliver, Abort
<1>4. Tick \/ UNCHANGED vars => UNCHANGED <<sessions, spent>>
  BY DEF Tick, vars
<1> QED
  BY <1>1, <1>2, <1>3, <1>4 DEF Next

(* revoked_at, once set, is never cleared or moved: not by the second half *)
(* of a login, not by a rotation that read the row before.                 *)
THEOREM RevocationHolds == Spec => RevocationIsFinal
<1>1. ASSUME IInv, [Next]_vars, NEW s \in Session, sessions[s].revoked # None
      PROVE  sessions'[s].revoked = sessions[s].revoked
  <2>1. sessions \in [Session -> Row]
    BY <1>1 DEF IInv, TypeOK
  <2>2. CASE UNCHANGED <<sessions, spent>>
    BY <2>2
  <2>3. ASSUME NEW r \in Req, InsertSession(r)
        PROVE  sessions'[s] = sessions[s]
    <3>1. \A x \in Session : sessions[x].owner = None => x # s
      BY <1>1 DEF IInv, RowOK
    <3> QED
      BY <2>1, <2>3, <3>1 DEF InsertSession
  <2>4. ASSUME NEW r \in Req, SetHash(r)
        PROVE  sessions'[s].revoked = sessions[s].revoked
    BY <2>1, <2>4 DEF SetHash, Row
  <2>5. ASSUME NEW r \in Req, Rotate(r)
        PROVE  sessions'[s].revoked = sessions[s].revoked
    BY <2>1, <2>5 DEF Rotate, RotatedRow, Row
  <2>6. ASSUME NEW r \in Req, RevokeSession(r) \/ RevokeAll(r)
        PROVE  sessions'[s] = sessions[s]
    BY <1>1, <2>1, <2>6 DEF RevokeSession, RevokeAll, RevokedRow
  <2> QED
    BY <1>1, <2>2, <2>3, <2>4, <2>5, <2>6, TableSteps
<1>2. IInv /\ [Next]_vars
        => [\A s \in Session : sessions[s].revoked # None
              => sessions'[s].revoked = sessions[s].revoked]_vars
  BY <1>1
<1> QED
  BY <1>2, Invariance, PTL DEF Spec, RevocationIsFinal

(* A session is revoked by a logout that names it or, with an access       *)
(* token, by the user who owns it: ownership is read one statement before  *)
(* the UPDATE and still stands then.  Nothing else writes revoked_at.      *)
THEOREM RevocationIsAskedFor == Spec => RevokedOnRequest
<1>1. ASSUME IInv, [Next]_vars, NEW s \in Session, sessions[s].revoked # sessions'[s].revoked
      PROVE  \E r \in Req :
               /\ req'[r] # req[r]
               /\ \/ req[r].op \in {"logout", "logout-ui"} /\ req[r].sid = s
                  \/ req[r].op \in {"revoke", "logout-all"} /\ req[r].usr = sessions[s].owner
  <2>1. sessions \in [Session -> Row] /\ req \in [Req -> Request]
    BY <1>1 DEF IInv, TypeOK
  <2>2. ASSUME NEW r \in Req, InsertSession(r)
        PROVE  sessions'[s].revoked = sessions[s].revoked
    BY <1>1, <2>1, <2>2 DEF InsertSession, IInv, RowOK, PlaceholderRow
  <2>3. ASSUME NEW r \in Req, SetHash(r)
        PROVE  sessions'[s].revoked = sessions[s].revoked
    BY <2>1, <2>3 DEF SetHash, Row
  <2>4. ASSUME NEW r \in Req, Rotate(r)
        PROVE  sessions'[s].revoked = sessions[s].revoked
    BY <2>1, <2>4 DEF Rotate, RotatedRow, Row
  <2>5. ASSUME NEW r \in Req, RevokeSession(r)
        PROVE  /\ req'[r] # req[r]
               /\ \/ req[r].op \in {"logout", "logout-ui"} /\ req[r].sid = s
                  \/ req[r].op = "revoke" /\ req[r].usr = sessions[s].owner
    <3>1. req[r].sid = s
      BY <1>1, <2>1, <2>5 DEF RevokeSession
    <3>2. req[r].op \in {"logout", "logout-ui", "revoke"} /\ req[r].at = "revoke"
      BY <1>1, <2>5 DEF RevokeSession, IInv, HandlerOK
    <3>3. req'[r].at = "reply"
      BY <2>1, <2>5 DEF RevokeSession, Reply
    <3> QED
      BY <1>1, <3>1, <3>2, <3>3 DEF IInv, HeldOK
  <2>6. ASSUME NEW r \in Req, RevokeAll(r)
        PROVE  /\ req'[r] # req[r] /\ req[r].op = "logout-all"
               /\ req[r].usr = sessions[s].owner
    <3>1. req[r].at = "revokeall" /\ req[r].op = "logout-all"
      BY <1>1, <2>6 DEF RevokeAll, IInv, HandlerOK
    <3>2. req'[r].at = "reply"
      BY <2>1, <2>6 DEF RevokeAll, Reply
    <3> QED
      BY <1>1, <2>6, <3>1, <3>2 DEF RevokeAll
  <2> QED
    BY <1>1, <2>2, <2>3, <2>4, <2>5, <2>6, TableSteps
<1>2. IInv /\ [Next]_vars
        => [\A s \in Session : sessions[s].revoked # sessions'[s].revoked =>
              \E r \in Req :
                /\ req'[r] # req[r]
                /\ \/ req[r].op \in {"logout", "logout-ui"} /\ req[r].sid = s
                   \/ req[r].op \in {"revoke", "logout-all"} /\ req[r].usr = sessions[s].owner]_vars
  BY <1>1
<1> QED
  BY <1>2, Invariance, PTL DEF Spec, RevokedOnRequest
-----------------------------------------------------------------------------
(* The abstract state of a table whose rows are well formed.               *)
LEMMA AbstractState ==
  ASSUME IInv
  PROVE  \A s \in Session :
           /\ phaseBar[s] = "absent" <=> sessions[s].owner = None
           /\ phaseBar[s] = "open" <=> sessions[s].owner # None /\ sessions[s].revoked = None
           /\ Hashed(s) => credBar[s] \in Token /\ sessions[s].hash = HashOf(credBar[s])
           /\ ~Hashed(s) => credBar[s] = None
BY Distinct DEF IInv, TypeOK, Row, phaseBar, credBar, Hashed

(* A token the table does not know has not been used.                      *)
LEMMA UnknownIsUnused ==
  ASSUME IInv, NEW t \in Token, ~Known(t)
  PROVE  t \notin usedBar
<1> SUFFICES ASSUME NEW s \in Session, credBar[s] = t PROVE FALSE
  BY DEF Known, usedBar
<1>1. Hashed(s) /\ sessions[s].hash = HashOf(t)
  BY AbstractState, Distinct
<1>2. t.sid = s
  BY <1>1, Distinct DEF IInv, RowOK
<1> QED
  BY <1>1, <1>2 DEF Known, Verifies

(* A statement that stores the fresh token n in row s installs it.         *)
LEMMA StoreInstalls ==
  ASSUME IInv, NEW s \in Session, NEW n \in Token, ~Known(n),
         sessions[s].owner # None,
         sessions' \in [Session -> Row],
         \A x \in Session : x # s => sessions'[x] = sessions[x],
         sessions'[s].hash = HashOf(n),
         sessions'[s].owner = sessions[s].owner,
         sessions'[s].revoked = sessions[s].revoked,
         spent' = spent \cup {t \in Token : HashOf(t) = sessions[s].hash}
  PROVE  Contract!Install(s)
<1>1. sessions \in [Session -> Row]
  BY DEF IInv, TypeOK
<1>2. credBar' = [credBar EXCEPT ![s] = n] /\ credBar'[s] = n
  <2>1. HashOf(n) \notin {None, Pending} /\ HashOf(n).bcrypt = n
    BY Distinct
  <2>2. credBar' = [x \in Session |-> IF x = s THEN n ELSE credBar[x]]
    BY <2>1 DEF credBar
  <2> QED
    BY <2>2 DEF credBar
<1>3. phaseBar' = phaseBar
  BY <1>1 DEF phaseBar
<1>4. usedBar' = usedBar \cup {n}
  <2>1. {t \in Token : HashOf(t) = sessions[s].hash} = {credBar[s]} \ {None}
    BY AbstractState, Distinct DEF Hashed
  <2>2. {credBar'[x] : x \in Session} = {credBar[x] : x \in Session \ {s}} \cup {n}
    BY <1>2 DEF credBar
  <2> QED
    BY <2>1, <2>2, Distinct DEF usedBar
<1>5. phaseBar[s] # "absent" /\ n \in Token \ usedBar
  BY AbstractState, UnknownIsUnused
<1> QED
  BY <1>2, <1>3, <1>4, <1>5 DEF Contract!Install

(* Sessions keeps the promise of SessionContract.                          *)
THEOREM KeepsContract == Spec => ImplementsContract
<1>1. Init => Contract!Init
  <2> SUFFICES ASSUME Init PROVE Contract!Init
    OBVIOUS
  <2>1. phaseBar = [s \in Session |-> "absent"] /\ credBar = [s \in Session |-> None]
    BY DEF Init, NoRow, phaseBar, credBar
  <2>2. usedBar = {}
    BY <2>1 DEF Init, usedBar
  <2> QED
    BY <2>1, <2>2 DEF Contract!Init
<1>2. IInv /\ [Next]_vars => [Contract!Next]_(Contract!vars)
  <2> SUFFICES ASSUME IInv, [Next]_vars
               PROVE  Contract!Next \/ UNCHANGED <<phaseBar, credBar, usedBar>>
    BY DEF Contract!vars
  <2>0. sessions \in [Session -> Row] /\ sessions' \in [Session -> Row]
    BY StepKeeps DEF IInv, TypeOK
  <2>1. CASE UNCHANGED <<sessions, spent>>
    BY <2>1 DEF phaseBar, credBar, usedBar
  <2>2. ASSUME NEW r \in Req, InsertSession(r)
        PROVE  Contract!Next
    <3>1. PICK s \in Session : /\ sessions[s].owner = None
                              /\ sessions' = [sessions EXCEPT ![s] = PlaceholderRow(req[r])]
      BY <2>2 DEF InsertSession
    <3>2. spent' = spent /\ req[r].usr \in User
      BY <2>2 DEF InsertSession, IInv, HandlerOK
    <3>3. sessions[s].hash = None
      BY <3>1 DEF IInv, RowOK
    <3>4. phaseBar' = [phaseBar EXCEPT ![s] = "open"]
      BY <2>0, <3>1, <3>2, Distinct DEF phaseBar, PlaceholderRow
    <3>5. credBar' = credBar
      BY <2>0, <3>1, <3>3 DEF credBar, PlaceholderRow
    <3>6. usedBar' = usedBar
      BY <3>2, <3>5 DEF usedBar
    <3>7. phaseBar[s] = "absent"
      BY <3>1, AbstractState
    <3> QED
      BY <3>4, <3>5, <3>6, <3>7 DEF Contract!Next, Contract!Open
  <2>3. ASSUME NEW r \in Req, SetHash(r) \/ Rotate(r)
        PROVE  Contract!Next
    <3>1. PICK s \in Session, n \in Token : s = req[r].sid /\ n = req[r].new
      BY <2>3 DEF SetHash, Rotate, IInv, HandlerOK
    <3>2. ~Known(n) /\ sessions[s].owner # None
      BY <2>3, <3>1 DEF SetHash, Rotate, IInv, FreshOK, TimeOK, GrantOK, Writing
    <3>3. /\ \A x \in Session : x # s => sessions'[x] = sessions[x]
          /\ sessions'[s].hash = HashOf(n)
          /\ sessions'[s].owner = sessions[s].owner
          /\ sessions'[s].revoked = sessions[s].revoked
      <4>1. CASE SetHash(r)
        <5>1. sessions' = [sessions EXCEPT ![s].hash = HashOf(n)]
          BY <3>1, <4>1 DEF SetHash
        <5> QED
          BY <2>0, <5>1 DEF Row
      <4>2. CASE Rotate(r)
        <5>1. sessions' = [sessions EXCEPT ![s] = RotatedRow(sessions[s], req[r])]
          BY <2>0, <3>1, <4>2 DEF Rotate
        <5>2. /\ RotatedRow(sessions[s], req[r]).hash = HashOf(n)
              /\ RotatedRow(sessions[s], req[r]).owner = sessions[s].owner
              /\ RotatedRow(sessions[s], req[r]).revoked = sessions[s].revoked
          BY <2>0, <3>1 DEF RotatedRow, Row
        <5> QED
          BY <2>0, <5>1, <5>2
      <4> QED
        BY <2>3, <4>1, <4>2
    <3>4. spent' = spent \cup {t \in Token : HashOf(t) = sessions[s].hash}
      <4>1. sessions[s].hash \in [bcrypt : Token] \cup {None, Pending}
        BY <2>0 DEF Row
      <4>2. \A t \in Token : HashOf(t) \notin {None, Pending}
        BY Distinct
      <4>3. CASE SetHash(r)
        BY <3>1, <4>2, <4>3 DEF SetHash, IInv, FreshOK
      <4>4. CASE Rotate(r)
        <5>1. spent' = spent \cup {h.bcrypt : h \in {sessions[s].hash} \ {None, Pending}}
          BY <3>1, <4>4 DEF Rotate
        <5> QED
          BY <4>1, <4>2, <5>1, Distinct
      <4> QED
        BY <2>3, <4>3, <4>4
    <3>5. Contract!Install(s)
      BY <2>0, <3>2, <3>3, <3>4, StoreInstalls
    <3> QED
      BY <3>5 DEF Contract!Next
  <2>4. ASSUME NEW r \in Req, RevokeSession(r) \/ RevokeAll(r)
        PROVE  Contract!Next
    <3>1. \A s \in Session : sessions'[s] \in {sessions[s], RevokedRow(sessions[s])}
      BY <2>0, <2>4 DEF RevokeSession, RevokeAll
    <3>2. spent' = spent
      BY <2>4 DEF RevokeSession, RevokeAll
    <3>3. PICK S \in SUBSET Session :
            S = {s \in Session : phaseBar[s] = "open" /\ sessions'[s].revoked # None}
      OBVIOUS
    <3>4. \A s \in Session : /\ sessions'[s].owner = sessions[s].owner
                             /\ sessions'[s].hash = sessions[s].hash
                             /\ sessions[s].owner = None => sessions'[s].revoked = sessions[s].revoked
                             /\ sessions[s].revoked # None => sessions'[s].revoked # None
      <4> SUFFICES ASSUME NEW s \in Session
                   PROVE  /\ sessions'[s].owner = sessions[s].owner
                          /\ sessions'[s].hash = sessions[s].hash
                          /\ sessions[s].owner = None => sessions'[s].revoked = sessions[s].revoked
                          /\ sessions[s].revoked # None => sessions'[s].revoked # None
        OBVIOUS
      <4>1. CASE sessions'[s] = sessions[s]
        BY <4>1
      <4>2. CASE sessions'[s] = RevokedRow(sessions[s])
        BY <2>0, <4>2 DEF RevokedRow, Row
      <4> QED
        BY <3>1, <4>1, <4>2
    <3>5. phaseBar' = [s \in Session |-> IF s \in S THEN "closed" ELSE phaseBar[s]]
      BY <2>0, <3>3, <3>4 DEF phaseBar
    <3>6. credBar' = credBar
      BY <3>4 DEF credBar
    <3>7. usedBar' = usedBar
      BY <3>2, <3>6 DEF usedBar
    <3> QED
      BY <3>3, <3>5, <3>6, <3>7 DEF Contract!Next, Contract!Close
  <2> QED
    BY <2>1, <2>2, <2>3, <2>4, TableSteps
<1> QED
  BY <1>1, <1>2, Invariance, PTL DEF Spec, ImplementsContract

(* A refresh token that once stopped opening its session, because it was   *)
(* replaced or the session revoked, never opens one again.                 *)
THEOREM LockedOut == Spec => LockedOutForGood
<1>1. IInv => /\ usedBar \subseteq Token
              /\ \A s \in Session : phaseBar[s] = "absent" => credBar[s] = None
  <2> SUFFICES ASSUME IInv
               PROVE  /\ usedBar \subseteq Token
                      /\ \A s \in Session : phaseBar[s] = "absent" => credBar[s] = None
    OBVIOUS
  <2>1. usedBar \subseteq Token
    BY AbstractState DEF usedBar, IInv, TypeOK
  <2>2. \A s \in Session : sessions[s].owner = None => ~Hashed(s)
    BY DEF IInv, RowOK, Hashed
  <2> QED
    BY <2>1, <2>2, AbstractState
<1>2. IInv /\ [Contract!Next]_(Contract!vars)
        => [\A c \in usedBar : (\A s \in Session : ~Contract!Admits(s, c))
              => (\A s \in Session : ~Contract!Admits(s, c)')]_(Contract!vars)
  <2> SUFFICES ASSUME IInv, Contract!Next, NEW c \in usedBar,
                      \A s \in Session : ~(phaseBar[s] = "open" /\ credBar[s] = c),
                      NEW s \in Session
               PROVE  ~(phaseBar'[s] = "open" /\ credBar'[s] = c)
    BY DEF Contract!Admits
  <2>1. c # None
    BY <1>1, Distinct
  <2>2. ASSUME NEW x \in Session, Contract!Open(x)
        PROVE  ~(phaseBar'[s] = "open" /\ credBar'[s] = c)
    BY <1>1, <2>1, <2>2 DEF Contract!Open, phaseBar
  <2>3. ASSUME NEW x \in Session, Contract!Install(x)
        PROVE  ~(phaseBar'[s] = "open" /\ credBar'[s] = c)
    BY <2>3 DEF Contract!Install, credBar
  <2>4. ASSUME NEW S \in SUBSET Session, Contract!Close(S)
        PROVE  ~(phaseBar'[s] = "open" /\ credBar'[s] = c)
    BY <2>4 DEF Contract!Close
  <2> QED
    BY <2>2, <2>3, <2>4 DEF Contract!Next
<1> QED
  BY <1>2, Invariance, KeepsContract, PTL DEF ImplementsContract, LockedOutForGood,
     Contract!LockedOutForGood
=============================================================================
