---------------------------- MODULE MCRequestRetry ----------------------------
(* Retry-After values around the bounds: negative, zero, one, half the budget,  *)
(* all of it, more than the cap, and not a number.                              *)
EXTENDS RequestRetry

MCRetryAfters == {-1, 0, 1, 3, 6, 9, NaN}
=============================================================================
