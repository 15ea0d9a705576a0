----------------------------- MODULE MCTokenCache -----------------------------
(* Model values and a concrete SystemOf for TLC: two cache keys (two API users) *)
(* of one system.                                                              *)
EXTENDS TokenCache, TLC

CONSTANTS k1, k2, s1

TwoUsers == k1 :> s1 @@ k2 :> s1
=============================================================================
