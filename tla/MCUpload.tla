------------------------------ MODULE MCUpload ------------------------------
(* Model-checking values for Upload: blocks are numbers, 0 is a gap.         *)
EXTENDS Upload

(* An edit may change the compared first block, or only what follows it.     *)
Edits   == {<<1, 2, 3>>, <<4, 2, 3>>, <<1, 5>>}
OneFile == {<<1, 2, 3, 4>>}
=============================================================================
