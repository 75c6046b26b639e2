----------------------------- MODULE MCDceBoot -----------------------------
(***************************************************************************)
(* DceBoot for TLC.  The constants are given in the cfg files; Users are   *)
(* model values, and because the user processes all run the same code they *)
(* may be permuted in the runs that check safety only.                     *)
(***************************************************************************)
EXTENDS DceBoot, TLC

UserSymmetry == Permutations(Users)
=============================================================================
