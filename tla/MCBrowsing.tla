----------------------------- MODULE MCBrowsing -----------------------------
(* Browsing on a small instance.                                           *)
EXTENDS Browsing, TLC
=============================================================================
