--------------------------- MODULE MCVaultRestores --------------------------
EXTENDS StateBackups
CONSTANTS e1, e2, c1, c2, r1, r2, k1, k2, j1
Orders == {<<"custody", "objects">>, <<"objects", "custody">>, <<"custody">>, <<"objects">>}
Types == {"NOTE_ADDED", "ARCHIVED"}
Threads == Permutations({c1, c2})
=============================================================================
