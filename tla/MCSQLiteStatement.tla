------------------------- MODULE MCSQLiteStatement -------------------------
(* Model-checking instance of SQLiteStatement: two statements on one       *)
(* connection, a query of two rows.                                        *)
EXTENDS SQLiteStatement, TLC

CONSTANTS s1, s2

MCStmts    == {s1, s2}
MCSymmetry == Permutations(MCStmts)
=============================================================================
