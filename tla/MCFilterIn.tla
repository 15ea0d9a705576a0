----------------------------- MODULE MCFilterIn -----------------------------
EXTENDS FilterIn

CONSTANTS short, mid, long, huge

\* All lists of up to four of four values, one of them too long for any URL.
MCInputs == UNION {[1..n -> Values] : n \in 0..4}
MCWidth == [v \in Values |-> CASE v = short -> 1 [] v = mid -> 2 [] v = long -> 3 [] v = huge -> 9]
=============================================================================
