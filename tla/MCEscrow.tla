------------------------------ MODULE MCEscrow ------------------------------
(* Model-checking instance of Escrow: three accounts of which two send    *)
(* escrows (one escrow id each), an escrowed amount of 2 that a release   *)
(* may take in parts of 1 or 2, and a fee of 0 or 1.                       *)
EXTENDS Escrow, TLC

CONSTANTS a1, a2, a3

MCAccounts  == {a1, a2, a3}
MCSenders   == {a1, a2}
MCEscrowIds == {1}
MCAmounts   == {2}
MCFees      == {0, 1}

\* The two senders are interchangeable model values.
MCSymmetry == Permutations(MCSenders)
=============================================================================
