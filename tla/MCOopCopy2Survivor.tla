------------------------ MODULE MCOopCopy2Survivor ------------------------
(* Small instance of GCOopCopy2Survivor: the JVM left two words of the young  *)
(* buffer and none of the old one.                                            *)
EXTENDS GCOopCopy2Survivor

MCJvmTop == [p \in {0, 1} |-> IF p = 0 THEN 1 ELSE 3]
MCJvmEnd == [p \in {0, 1} |-> 3]
=============================================================================
