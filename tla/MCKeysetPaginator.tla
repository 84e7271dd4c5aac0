------------------------- MODULE MCKeysetPaginator --------------------------
(* KeysetPaginator for TLC: which id is the larger one matters, so no       *)
(* symmetry.                                                                *)
EXTENDS KeysetPaginator

BothKeys == {<<"id">>, <<"createdAt", "id">>}
=============================================================================
