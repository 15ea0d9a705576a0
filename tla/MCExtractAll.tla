---------------------------- MODULE MCExtractAll ----------------------------
EXTENDS ExtractAll

\* v2 links with a $skiptoken or a $skip; v4 ones with either or with something else.
EveryForm == [v2 |-> {"token", "skip"}, v4 |-> {"token", "skip", "other"}]
=============================================================================
