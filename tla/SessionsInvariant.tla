-------------------------- MODULE SessionsInvariant --------------------------
(***************************************************************************)
(* Why the properties of Sessions hold: an inductive invariant, in parts   *)
(* that are each about one thing the handlers rely on.                     *)
(***************************************************************************)
EXTENDS SessionsRefinement

(* A row that has got its first hash.                                      *)
Hashed(s) == sessions[s].hash \notin {None, Pending}

(* t is, or was until a rotation replaced it, the credential of its row.   *)
Known(t) == t \in spent \/ Verifies(t, sessions[t.sid].hash)

(* r has generated a refresh token and not stored it yet.                  *)
Writing(r) == req[r].at \in {"sethash", "rotate"}

(* What a handler holds at each await, and for which routes it gets there. *)
HandlerOK(q) ==
  /\ q.at # "idle" => q.br \in Browser
  /\ q.at \in {"identify", "insert", "sethash"} => q.op \in {"login", "login-ui", "oauth"}
  /\ q.at \in {"read", "rotate"} => q.op = "refresh" /\ q.tok \in Token
  /\ q.at = "owner" => q.op = "revoke"
  /\ q.at = "revoke" => q.op \in {"logout", "logout-ui", "revoke"}
  /\ q.at = "revokeall" => q.op = "logout-all"
  /\ q.at \in {"identify", "insert", "sethash", "rotate", "owner", "revokeall"} => q.usr \in User
  /\ q.at = "revoke" /\ q.op = "revoke" => q.usr \in User
  /\ q.at \in {"sethash", "rotate", "owner", "revoke"} => q.sid \in Session
  /\ q.at \in {"sethash", "rotate"} => q.new \in Token /\ q.new.sid = q.sid
  /\ q.at \notin {"sethash", "rotate", "reply"} => q.new = None
  /\ q.acc # None => q.at = "reply"

(* A row exists as a whole or not at all, and stores hashes of its own     *)
(* tokens only.                                                            *)
RowOK(s) ==
  /\ sessions[s].owner = None => sessions[s].hash = None /\ sessions[s].revoked = None
  /\ sessions[s].owner # None => sessions[s].hash # None
  /\ Hashed(s) => sessions[s].hash.bcrypt.sid = s

(* Random parts are numbered in the order they are generated.              *)
Numbered ==
  /\ \A s \in Session : Hashed(s) => sessions[s].hash.bcrypt.secret <= minted
  /\ \A t \in spent : t.secret <= minted
  /\ \A r \in Req : Writing(r) => req[r].new.secret <= minted

(* A token on its way to the table is nowhere else yet, and only one login *)
(* works on a row without a hash.                                          *)
FreshOK ==
  /\ \A r \in Req : Writing(r) => ~Known(req[r].new)
  /\ \A r, q \in Req : r # q /\ Writing(r) /\ Writing(q) => req[r].new # req[q].new
  /\ \A r \in Req : req[r].at = "sethash" => sessions[req[r].sid].hash = Pending
  /\ \A r, q \in Req : r # q /\ req[r].at = "sethash" /\ req[q].at = "sethash"
                         => req[r].sid # req[q].sid

(* A token a browser or another handler has is known to the table.         *)
HeldOK ==
  /\ \A t \in spent : Hashed(t.sid)
  /\ \A b \in Browser : jar[b] # None => Known(jar[b])
  /\ \A r \in Req : req[r].at \in {"read", "rotate"} => Known(req[r].tok)
  /\ \A r \in Req : req[r].at = "rotate" => req[r].sid = req[r].tok.sid
  /\ \A r \in Req : req[r].at = "reply" /\ req[r].new # None => Known(req[r].new)
  /\ \A r \in Req : req[r].at = "revoke" /\ req[r].op = "revoke"
                      => sessions[req[r].sid].owner = req[r].usr

(* A credential of session s checked at time c supports a grant: nothing   *)
(* has been revoked before the check.                                      *)
GrantOK(s, c) ==
  /\ c <= now
  /\ sessions[s].owner # None
  /\ sessions[s].revoked # None => c <= sessions[s].revoked

TimeOK ==
  /\ \A s \in Session : sessions[s].revoked # None => sessions[s].revoked <= now
  /\ \A r \in Req : req[r].at = "insert" => req[r].chk <= now
  /\ \A r \in Req : Writing(r) => GrantOK(req[r].sid, req[r].chk)
  /\ \A r \in Req : req[r].acc # None => GrantOK(req[r].acc.sid, req[r].acc.chk)
  /\ \A b \in Browser : bearer[b] # None => GrantOK(bearer[b].sid, bearer[b].chk)

(* No row and no handler has an expires_at that is too late.               *)
ExpiryOK ==
  /\ IdleSessionsExpire
  /\ \A r \in Req : req[r].exp <= now + RefreshTTL

(* The inductive invariant: true at the start, kept by every statement of  *)
(* every handler, and enough for each safety property of Sessions.         *)
IInv ==
  /\ TypeOK
  /\ \A r \in Req : HandlerOK(req[r])
  /\ \A s \in Session : RowOK(s)
  /\ Numbered
  /\ FreshOK
  /\ SpentNeverOpens
  /\ HeldOK
  /\ TimeOK
  /\ AnswerMeansRevoked
=============================================================================
