--------------------------- MODULE MCConsumerGroup ---------------------------
(* Instances of ConsumerGroup for TLC.                                       *)
EXTENDS ConsumerGroup

\* Scripts only, or a record that stops its reader before the first script.
TwoLogs == {[m \in Records |-> IF Off(m) = 1 THEN k ELSE "script"] : k \in Kinds}
==============================================================================
