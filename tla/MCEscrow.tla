------------------------------- MODULE MCEscrow -------------------------------
(* Escrow with WETH and a second token, of each kind in turn, that may be    *)
(* listed at any time.                                                       *)
EXTENDS Escrow

OneAccount  == {"alice"}
UpToTwo     == 0 .. 2
=============================================================================
