----------------------------- MODULE MCImagePull -----------------------------
(* Instances of ImagePull for TLC.                                           *)
EXTENDS ImagePull

CONSTANTS python, go, s1, s2, s3
==============================================================================
