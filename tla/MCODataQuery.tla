----------------------------- MODULE MCODataQuery -----------------------------
(* Every server, and calls in which at most one thing keeps paging=snapshot    *)
(* away, for TLC.                                                              *)
EXTENDS ODataQuery, Naturals

MCCalls ==
    {c \in AllCalls : /\ Cardinality({p \in {"pages", "top", "v4"} : c[p]}) <= 1
                      /\ ~c.paged => ~(c.pages \/ c.top \/ c.v4)}
=============================================================================
