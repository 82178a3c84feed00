--------------------------- MODULE MCSuiteRunner ----------------------------
(* Instances of SuiteRunner for TLC.                                         *)
EXTENDS SuiteRunner

CONSTANTS noOutput, oneOutput, otherOutput
==============================================================================
