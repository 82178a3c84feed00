------------------------------ MODULE MCLimits ------------------------------
(* Instances of Limits for TLC.                                              *)
EXTENDS Limits

FewSettings == {-32, -1, 0, 7, 31}
FewFields == {-32, -1, 0, 2, 10, 11, 21, 22, 31}
==============================================================================
