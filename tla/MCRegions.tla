----------------------------- MODULE MCRegions -----------------------------
(* Two free regions and an old one that may be in use already; a chunk of    *)
(* two words, or of one if no more are left.                                 *)
EXTENDS GCParAllocate

MCJvmOrder == <<"r2", "r1">>
MCSizes == {<<1, 2>>, <<2, 2>>}

-----------------------------------------------------------------------------
(* The comment at GCNewGCAlloc.scala:194: a request that finds no free       *)
(* region raises the interrupt that asks the JVM to expand the heap.         *)
ExpansionAsked ==
  (NgAt("WAIT_ALLOC_AND_CONFIG") /\ freeDone = Found(NoRegion))
    ~> NgAt("CALL_EXPAND_SINGLE_REGION_IRQ")
=============================================================================
