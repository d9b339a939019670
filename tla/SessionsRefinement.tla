-------------------------- MODULE SessionsRefinement --------------------------
(***************************************************************************)
(* Sessions implements SessionContract: a row is a session, the token its  *)
(* hash was made from is the credential, and revoked_at closes it.         *)
(***************************************************************************)
EXTENDS Sessions

phaseBar == [s \in Session |-> IF sessions[s].owner = None THEN "absent"
                               ELSE IF sessions[s].revoked = None THEN "open"
                               ELSE "closed"]

credBar == [s \in Session |-> IF sessions[s].hash \in {None, Pending} THEN None
                              ELSE sessions[s].hash.bcrypt]

usedBar == spent \cup ({credBar[s] : s \in Session} \ {None})

Contract == INSTANCE SessionContract
  WITH Credential <- Token, phase <- phaseBar, cred <- credBar, used <- usedBar

(* The handlers keep the promise of SessionContract: every step of theirs  *)
(* opens, gives a credential to, or closes sessions as it allows, or       *)
(* changes nothing a caller relies on.                                     *)
ImplementsContract == Contract!Init /\ [][Contract!Next]_(Contract!vars)

(* So a refresh token that once stopped opening its session (it was        *)
(* replaced, or the session revoked) never opens one again.                *)
LockedOutForGood == Contract!LockedOutForGood
=============================================================================
