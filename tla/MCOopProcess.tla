---------------------------- MODULE MCOopProcess ----------------------------
(* Small instances of GCOopProcess: a plain object A with two fields, a type *)
(* array B with two fields, an object C outside the collected regions; one   *)
(* field lies in a humongous region, some references stay in their region.   *)
EXTENDS GCOopProcess

CONSTANTS a1, a2, b1, b2, c1, A, B, C, r1, r2, r3

MCSrcOop == [t \in OopTasks |-> CASE t \in {a1, a2} -> A [] t \in {b1, b2} -> B [] t = c1 -> C]
MCObjectRegion == [o \in Objects |-> IF o = C THEN r3 ELSE r1]
MCSameRegion == {<<a1, a1>>, <<b1, b2>>, <<b2, b2>>} \cap (OopTasks \X OopTasks)

MCFieldRegion == [t \in OopTasks |-> CASE t = a1 -> r1 [] t = a2 -> r2 [] t = b1 -> r3
                                       [] t = b2 -> r1 [] t = c1 -> r3]
=============================================================================
