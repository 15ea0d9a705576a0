---------------------------- MODULE MCSystemSelect ----------------------------
(* Two systems, two pages and two edits, after no plugin or one; two entry points,    *)
(* also of one name, only load.                                                       *)
EXTENDS SystemSelect, TLC

Alone == {<<>>, <<"a">>}
Lists == Alone \union {<<"a", "b">>, <<"a", "a">>}

Interchangeable == Permutations(Systems)
=============================================================================
