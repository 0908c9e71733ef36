------------------------------ MODULE MCForest ------------------------------
(* Forest for TLC, with words of six bits: nine leaves have the rows of the *)
(* largest forest the position arithmetic is defined for, 2^62 leaves in    *)
(* the code.                                                                *)
EXTENDS Forest
=============================================================================
