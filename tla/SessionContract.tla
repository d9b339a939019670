--------------------------- MODULE SessionContract ---------------------------
(***************************************************************************)
(* What the session store promises to the rest of oob, without requests,   *)
(* cookies, hashes or time: a session is opened once and closed at most    *)
(* once, and the credential that opens it is only ever replaced by one     *)
(* that no session has had before.                                         *)
(***************************************************************************)
CONSTANTS Session, Credential, None

VARIABLES
  phase,   \* phase[s]: "absent", "open" or "closed"
  cred,    \* cred[s]: the credential stored for s, or None
  used     \* every credential that has been stored

vars == <<phase, cred, used>>

Init ==
  /\ phase = [s \in Session |-> "absent"]
  /\ cred = [s \in Session |-> None]
  /\ used = {}

(* A login reserves a session that nothing opens yet.                      *)
Open(s) ==
  /\ phase[s] = "absent"
  /\ phase' = [phase EXCEPT ![s] = "open"]
  /\ UNCHANGED <<cred, used>>

(* A login gives it its first credential, or a refresh exchanges the one   *)
(* it has.  A session that was closed in the meantime may still be written *)
(* to, which does not reopen it.                                           *)
Install(s) ==
  /\ phase[s] # "absent"
  /\ cred'[s] \in Credential \ used
  /\ cred' = [cred EXCEPT ![s] = cred'[s]]
  /\ used' = used \cup {cred'[s]}
  /\ UNCHANGED phase

(* A logout or revocation closes one session, a logout-all several.        *)
Close(S) ==
  /\ \A s \in S : phase[s] = "open"
  /\ phase' = [s \in Session |-> IF s \in S THEN "closed" ELSE phase[s]]
  /\ UNCHANGED <<cred, used>>

Next ==
  \/ \E s \in Session : Open(s) \/ Install(s)
  \/ \E S \in SUBSET Session : Close(S)

Spec == Init /\ [][Next]_vars
-----------------------------------------------------------------------------
(* What a caller may rely on.                                              *)
Admits(s, c) == phase[s] = "open" /\ cred[s] = c

(* A credential that has been stored and no longer admits to any session   *)
(* never admits to one again.                                              *)
LockedOutForGood ==
  [][\A c \in used : (\A s \in Session : ~Admits(s, c))
                        => (\A s \in Session : ~Admits(s, c)')]_vars
=============================================================================
