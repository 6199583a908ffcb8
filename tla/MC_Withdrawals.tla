--------------------------- MODULE MC_Withdrawals ---------------------------
(***************************************************************************)
(* Three validators.  Every run stays within NoWrap, the hypothesis of the *)
(* theorems of WithdrawalsProofs, as the code's uint32 does for fewer than *)
(* 2^32 counted operations.                                                *)
(***************************************************************************)
EXTENDS Withdrawals

CONSTANTS v1, v2, v3

MCValidators == {v1, v2, v3}

ASSUME MCNoWrap == NoWrap
=============================================================================
