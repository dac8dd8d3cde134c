---------------------------- MODULE GCNewGCAlloc ----------------------------
(***************************************************************************)
(* GCNewGCAlloc (hwgc_acc/GCNewGCAlloc.scala): gets a free region for an   *)
(* allocator, stamps its type, records a survivor in the JVM's growable    *)
(* array, and sets the region's remembered set and attribute.  GCAccTop    *)
(* ties its interrupt port off, so a request that needs the JVM (a full    *)
(* array, an expansion of the heap) stays where it is.                     *)
(***************************************************************************)
EXTENDS GCAllocFreeRegion

CONSTANTS ArrayMax      \* capacity of the survivors' array

ASSUME ArrayAssumption == ArrayMax \in Nat

Kinds == {"young", "old"}

VARIABLES
  ng,              \* the machine: its state and registers; dataPtr: does it hold the
                   \* address of the array's items
  newDone,         \* its answer, as GCParAllocate latches it (new_gc_alloc_done_reg)
  regionType,      \* memory: HeapRegion type, "free" until stamped
  remset,          \* memory: state of the region's remembered set, "any" until set
  regionAttr,      \* memory: does the attribute table ask for remembered set updates
  survivors        \* memory: the growable array: len, its items, and where the JVM put it

ngMemory == <<regionType, remset, regionAttr, survivors>>
ngVars   == <<ng, newDone, ngMemory>>

NgInit ==
  /\ ng = [state |-> "IDLE", kind |-> "old", region |-> NoRegion, arrayLen |-> 0,
           growArrayPtrValid |-> FALSE, regionAttrBaseValid |-> FALSE,
           expandFailureValid |-> FALSE, dataPtr |-> FALSE]
  /\ newDone = NoAnswer
  /\ regionType = [r \in Regions |-> "free"]
  /\ remset = [r \in Regions |-> "any"]
  /\ regionAttr = [r \in Regions |-> "none"]
  /\ \E split \in BOOLEAN :
       survivors = [len |-> 0, items |-> [i \in 0 .. ArrayMax - 1 |-> NoRegion], split |-> split]

-----------------------------------------------------------------------------
NgAt(s)   == ng.state = s
NgGoto(s) == ng' = [ng EXCEPT !.state = s]

(* finish: the answer goes to GCParAllocate. *)
NgFinish(r) ==
  /\ newDone' = Found(r)
  /\ NgGoto("IDLE")

NgCommand(kind) ==
  /\ NgAt("IDLE")
  /\ ng' = [ng EXCEPT !.state = "READ_NODE_INDEX", !.kind = kind, !.region = NoRegion]
  /\ freeDone' = NoAnswer
  /\ UNCHANGED <<ngMemory, list, link, fr, free>>

ReadNodeIndex ==
  /\ NgAt("READ_NODE_INDEX") /\ NgGoto("CALL_ALLOC_FREE")
  /\ UNCHANGED <<newDone, ngMemory, frVars>>

CallAllocFree ==
  /\ NgAt("CALL_ALLOC_FREE")
  /\ FrCommand(ng.kind = "old")
  /\ NgGoto("WAIT_ALLOC_AND_CONFIG")
  /\ UNCHANGED <<newDone, ngMemory, freeDone>>

(* The pointers the job needs are read once, while the free list is at work. *)
ReadGrowArrayPtr ==
  /\ NgAt("WAIT_ALLOC_AND_CONFIG") /\ ng.kind = "young" /\ ~ng.growArrayPtrValid
  /\ ng' = [ng EXCEPT !.growArrayPtrValid = TRUE]
  /\ UNCHANGED <<newDone, ngMemory, frVars>>

configRead == (ng.kind = "young" => ng.growArrayPtrValid)

ReadRegionAttrBase ==
  /\ NgAt("WAIT_ALLOC_AND_CONFIG") /\ configRead /\ ~ng.regionAttrBaseValid
  /\ ng' = [ng EXCEPT !.regionAttrBaseValid = TRUE]
  /\ UNCHANGED <<newDone, ngMemory, frVars>>

AllocDone ==
  /\ NgAt("WAIT_ALLOC_AND_CONFIG") /\ configRead /\ ng.regionAttrBaseValid
  /\ freeDone.valid /\ freeDone.region # NoRegion
  /\ freeDone' = NoAnswer
  /\ ng' = [ng EXCEPT !.region = freeDone.region, !.state = "WRITE_REGION_TYPE"]
  /\ UNCHANGED <<newDone, ngMemory, list, link, fr, free>>

(* No region is free.  The cycle that sees the answer also clears it, so    *)
(* the read of the expansion flag it starts is given up in the next cycle,  *)
(* its answer is dropped, and expandFailureValid never gets set.            *)
NoRegionFree ==
  /\ NgAt("WAIT_ALLOC_AND_CONFIG") /\ configRead /\ ng.regionAttrBaseValid
  /\ freeDone = Found(NoRegion)
  /\ freeDone' = NoAnswer
  /\ IF ng.expandFailureValid THEN NgGoto("CALL_EXPAND_SINGLE_REGION_IRQ") ELSE UNCHANGED ng
  /\ UNCHANGED <<newDone, ngMemory, list, link, fr, free>>

WriteRegionType ==
  /\ NgAt("WRITE_REGION_TYPE")
  /\ regionType' = [regionType EXCEPT ![ng.region] = ng.kind]
  /\ NgGoto(IF ng.kind = "young" THEN "READ_GROW_ARRAY" ELSE "READ_REGION_INFO")
  /\ UNCHANGED <<newDone, remset, regionAttr, survivors, frVars>>

(* len, max and the data pointer behind them: split says that the pointer   *)
(* is in the next line (the array is at 24 modulo 32).                      *)
canReadDataPtrTogether == ~survivors.split

(* A full array asks the JVM to grow it, and is never answered.  Where the  *)
(* data pointer is read together with len it is read once more; where it is *)
(* not, dataPtr takes the part of the answer that was not read, which the   *)
(* adapter fills with zeros, and keeps it.                                  *)
ReadGrowArray ==
  /\ NgAt("READ_GROW_ARRAY")
  /\ ng' = [ng EXCEPT !.arrayLen = survivors.len, !.dataPtr = canReadDataPtrTogether,
                      !.state = IF survivors.len = ArrayMax THEN "SEND_GROW_IRQ"
                                ELSE IF canReadDataPtrTogether THEN "READ_DATA_PTR"
                                ELSE "WRITE_GROW_ARRAY_LEN"]
  /\ UNCHANGED <<newDone, ngMemory, frVars>>

ReadDataPtr ==
  /\ NgAt("READ_DATA_PTR")
  /\ ng' = [ng EXCEPT !.state = "WRITE_GROW_ARRAY_LEN", !.dataPtr = TRUE]
  /\ UNCHANGED <<newDone, ngMemory, frVars>>

WriteGrowArrayLen ==
  /\ NgAt("WRITE_GROW_ARRAY_LEN")
  /\ survivors' = [survivors EXCEPT !.len = ng.arrayLen + 1]
  /\ NgGoto("WRITE_GROW_ARRAY_ITEM")
  /\ UNCHANGED <<newDone, regionType, remset, regionAttr, frVars>>

(* Mutant: the item goes to the slot of the length already incremented. *)
WriteGrowArrayItemNext ==
  /\ NgAt("WRITE_GROW_ARRAY_ITEM")
  /\ survivors' = IF ng.dataPtr
                  THEN [survivors EXCEPT !.items[(ng.arrayLen + 1) % ArrayMax] = ng.region]
                  ELSE survivors
  /\ NgGoto("READ_REGION_INFO")
  /\ UNCHANGED <<newDone, regionType, remset, regionAttr, frVars>>

(* With a null dataPtr the write goes to the address 8 * arrayLen, far from *)
(* the array; nobody waits for it, the machine goes on.                     *)
WriteGrowArrayItem ==
  /\ NgAt("WRITE_GROW_ARRAY_ITEM")
  /\ survivors' = IF ng.dataPtr THEN [survivors EXCEPT !.items[ng.arrayLen] = ng.region]
                                ELSE survivors
  /\ NgGoto("READ_REGION_INFO")
  /\ UNCHANGED <<newDone, regionType, remset, regionAttr, frVars>>

ReadRegionInfoNg ==
  /\ NgAt("READ_REGION_INFO") /\ NgGoto("FINAL_UPDATE")
  /\ UNCHANGED <<newDone, ngMemory, frVars>>

(* FINAL_UPDATE: the state of the remembered set, then the attribute: only  *)
(* a region that is not old asks for updates.                               *)
WriteRemsetState ==
  /\ NgAt("FINAL_UPDATE")
  /\ remset' = [remset EXCEPT ![ng.region] = IF ng.kind = "young" THEN "complete" ELSE "untracked"]
  /\ NgGoto("WRITE_REGION_ATTR")
  /\ UNCHANGED <<newDone, regionType, regionAttr, survivors, frVars>>

WriteRegionAttr ==
  /\ NgAt("WRITE_REGION_ATTR")
  /\ regionAttr' = [regionAttr EXCEPT ![ng.region] = IF ng.kind = "young" THEN "update" ELSE "skip"]
  /\ NgFinish(ng.region)
  /\ UNCHANGED <<regionType, remset, survivors, frVars>>

NgStep ==
  \/ ReadNodeIndex \/ CallAllocFree \/ ReadGrowArrayPtr \/ ReadRegionAttrBase \/ AllocDone
  \/ NoRegionFree \/ WriteRegionType \/ ReadGrowArray \/ ReadDataPtr
  \/ WriteGrowArrayLen \/ WriteGrowArrayItem \/ ReadRegionInfoNg \/ WriteRemsetState
  \/ WriteRegionAttr

(* The regions that are stamped, and those the array lists. *)
Stamped(kind) == {r \in Regions : regionType[r] = kind}
Listed        == {survivors.items[i] : i \in 0 .. survivors.len - 1}
=============================================================================
