---------------------------- MODULE MCSfapiSession ----------------------------
(* Two API users of one system, as session keys, for TLC. *)
EXTENDS SfapiSession, TLC

CONSTANTS k1, k2, s1

TwoUsers == k1 :> s1 @@ k2 :> s1
=============================================================================
