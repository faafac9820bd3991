------------------------------ MODULE MCQbResd ------------------------------
(* The daemon with a grid of two or three sizes and requests between and   *)
(* beside them; set-res is given one of the requested sizes.               *)
EXTENDS QbResd
=============================================================================
