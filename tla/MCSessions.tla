----------------------------- MODULE MCSessions -----------------------------
(* Sessions on a small instance: model values for users, browsers, session *)
(* ids and request slots, which are interchangeable.                       *)
EXTENDS SessionsInvariant, TLC

Symmetry == Permutations(User) \cup Permutations(Browser)
              \cup Permutations(Session) \cup Permutations(Req)
=============================================================================
