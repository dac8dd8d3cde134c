--------------------- MODULE GCOopCopy2Survivor_proofs ---------------------
(* Proofs about GCOopCopy2Survivor, for any objects, sizes and buffers: no   *)
(* word is given away twice, and what GCOopProcess sees of the unit is       *)
(* SurvivorSpec.  Then about GCCopy, which it sends the object to: the copy  *)
(* is exact and a reader of it gets the right bytes, for any beats, slots    *)
(* and entries.                                                              *)
EXTENDS GCOopCopy2Survivor, GCCopy, TLAPS, WellFoundedInduction

-----------------------------------------------------------------------------
(* The invariant. *)

SlotType ==
  [pc : States, cmd : Cmds \cup {None}, owner : Owners, size : Nat, idx : Plabs, dest : Nat,
   plabForceOld : BOOLEAN, afterAllocCache : BOOLEAN, usingPlabCacheBuffer : BOOLEAN,
   plabBuffer : Plabs, forwardDecided : BOOLEAN, writeDestOopPtrDone : BOOLEAN,
   notified : BOOLEAN, copyDone : BOOLEAN, traceIssued : BOOLEAN, traceDone : BOOLEAN,
   allocDone : BOOLEAN, issued : BOOLEAN]
EventType == [owner : Owners, dest : Nat]

Typed ==
  /\ slot \in [SurvSlots -> SlotType]
  /\ plabValid \in [Plabs -> BOOLEAN] /\ plabBufferValid \in [Plabs -> BOOLEAN]
  /\ plabRefillBusy \in [Plabs -> BOOLEAN]
  /\ plabTop \in [Plabs -> Nat] /\ plabEnd \in [Plabs -> Nat]
  /\ memTop \in [Plabs -> Nat] /\ memEnd \in [Plabs -> Nat] /\ heapNext \in Nat
  /\ plabOpOwner \in [Plabs -> SurvSlots \cup {None}]
  /\ destAttrValid \in BOOLEAN /\ olderSlot \in SurvSlots
  /\ copyOwner \in SurvSlots \cup {None} /\ traceOwner \in SurvSlots \cup {None}
  /\ allocOwner \in SurvSlots \cup {None}
  /\ typeArrayPending \in [SurvSlots -> Owners \cup {None}]
  /\ donePending \in [SurvSlots -> EventType \cup {None}]
  /\ sent \in 0 .. MaxObjects /\ told \in [Owners -> BOOLEAN] /\ placed \in [Cmds -> SUBSET Nat]

\* States after the forwarding pointer, and those that have a place before it.
Late == {"SEND_COPY_WORK", "SEND_TRACE_WORK", "GET_MONITOR_MW", "WRITE_MONITOR_MW",
         "WAIT_COPY_TRACE"}
Placed == {"WRITE_FORCE_OLD", "DECIDE_FORWARD_PTR"}

\* What a slot in each of its states has, holds and waits for.
Stands(i) ==
  /\ slotValid(i) <=> slot[i].cmd # None
  /\ slotValid(i) => SizeOf(i) >= 1
  /\ slot[i].issued => slot[i].pc \in {"DEST_ATTR_DECIDE", "PLAB_SELECT", "ASTRAY"}
  /\ slot[i].allocDone => At(i, "WAIT_ALLOC") /\ slot[i].dest <= HeapWords
  /\ slot[i].forwardDecided <=> slot[i].pc \in Late
  /\ slot[i].pc \in Late \cup Placed => slot[i].dest \in 1 .. HeapWords
  /\ Direct(i) \/ Refilling(i) \/ Allocating(i) => ownsPlab(i, Idx(i))
  /\ allocOwner = i => At(i, "WAIT_ALLOC") /\ ~slot[i].allocDone
  /\ At(i, "WAIT_ALLOC") => ~plabValid[Idx(i)]
AllStand == \A i \in SurvSlots : Stands(i)

\* The words of a buffer not given away yet, on chip where the copy is valid:
\* while the top in memory is being bumped, it is ahead of that on chip.
Base(p) == IF plabValid[p] THEN plabTop[p] ELSE memTop[p]
Room(p) == Base(p) .. (memEnd[p] - 1)
DirectOn(i, p) == Direct(i) /\ Idx(i) = p

InBounds(p) ==
  /\ 1 <= Base(p) /\ Base(p) <= memTop[p] /\ memTop[p] <= memEnd[p]
  /\ memEnd[p] <= heapNext /\ memEnd[p] <= HeapWords + 1
InStep(p) ==
  plabValid[p] =>
    /\ plabEnd[p] = memEnd[p]
    /\ (\A i \in SurvSlots : ~DirectOn(i, p)) => plabTop[p] = memTop[p]
Bumped(i, p) ==
  DirectOn(i, p) => /\ plabValid[p] /\ slot[i].dest = plabTop[p]
                    /\ memTop[p] = plabTop[p] + SizeOf(i)
Buffers == \A p \in Plabs : InBounds(p) /\ InStep(p) /\ \A i \in SurvSlots : Bumped(i, p)

\* What was given away is apart from each other, from the rooms, and from what
\* GCAllocate has left.
Apart ==
  /\ Room(0) \cap Room(1) = {}
  /\ \A c \in Cmds : /\ \A w \in placed[c] : w < heapNext
                     /\ \A p \in Plabs : Room(p) \cap placed[c] = {}
                     /\ \A d \in Cmds \ {c} : placed[c] \cap placed[d] = {}

\* A slot of GCOopProcess is served, or told Done, once.
Serves(i, o) == slotValid(i) /\ slot[i].owner = o
Answers(i, o) == donePending[i] # None /\ donePending[i].owner = o
Single == \A o \in Owners, i \in SurvSlots :
  /\ Serves(i, o) => ~Serves(Other(i), o) /\ ~Answers(0, o) /\ ~Answers(1, o)
  /\ Answers(i, o) => ~Answers(Other(i), o)

\* A Done has the address of a copy.
AnswersRight == \A i \in SurvSlots : donePending[i] # None => donePending[i].dest \in 1 .. HeapWords

IInv == Typed /\ AllStand /\ Buffers /\ Apart /\ Single /\ AnswersRight

-----------------------------------------------------------------------------
(* What the steps have in common. *)

bufVars == <<plabValid, plabTop, plabEnd, memTop, memEnd, heapNext>>

\* The two slots.
LEMMA OtherSlot == ASSUME NEW i \in SurvSlots
                   PROVE  /\ Other(i) \in SurvSlots /\ Other(i) # i /\ Other(Other(i)) = i
                          /\ \A j \in SurvSlots : j = i \/ j = Other(i)
BY DEF SurvSlots, Other

\* The other slot stands as it did: its locks are its own.
LEMMA OtherStands ==
  ASSUME AllStand, NEW i \in SurvSlots, slot'[Other(i)] = slot[Other(i)],
         \A p \in Plabs : plabOpOwner[p] = Other(i) => plabOpOwner'[p] = Other(i),
         \A p \in Plabs : plabOpOwner[p] = Other(i) => plabValid'[p] = plabValid[p],
         allocOwner' = Other(i) => allocOwner = Other(i),
         slot[Other(i)].idx \in Plabs
  PROVE  Stands(Other(i))'
<1>1. Stands(Other(i)) /\ Other(i) \in SurvSlots
  BY OtherSlot DEF AllStand
<1>. QED
  BY <1>1 DEF Stands, slotValid, At, SizeOf, Direct, Refilling, Allocating, ownsPlab, Idx

\* The words of the buffers, when no bump begins or ends.
LEMMA BuffersKept ==
  ASSUME Buffers, UNCHANGED bufVars,
         \A j \in SurvSlots : /\ Direct(j)' <=> Direct(j)
                              /\ Direct(j) => /\ slot'[j].dest = slot[j].dest
                                              /\ slot'[j].idx = slot[j].idx
                                              /\ slot'[j].size = slot[j].size
  PROVE  Buffers'
<1>1. \A j \in SurvSlots, p \in Plabs : DirectOn(j, p)' <=> DirectOn(j, p)
  BY DEF DirectOn, Idx
<1>2. \A j \in SurvSlots, p \in Plabs : Bumped(j, p) => Bumped(j, p)'
  BY <1>1 DEF Bumped, SizeOf, bufVars, DirectOn
<1>3. \A p \in Plabs : InStep(p) => InStep(p)'
  BY <1>1 DEF InStep, bufVars
<1>4. \A p \in Plabs : InBounds(p) => InBounds(p)'
  BY DEF InBounds, Base, bufVars
<1>. QED  BY <1>2, <1>3, <1>4 DEF Buffers

\* What was given away, when nothing is.
LEMMA ApartKept == ASSUME Apart, UNCHANGED <<bufVars, placed>> PROVE Apart'
BY DEF Apart, Room, Base, bufVars

\* GCOopProcess is served as before.
LEMMA SeenKept ==
  ASSUME Single, AnswersRight, UNCHANGED donePending,
         \A j \in SurvSlots : (slotValid(j)' <=> slotValid(j)) /\ slot'[j].owner = slot[j].owner
  PROVE  Single' /\ AnswersRight'
<1>1. \A j \in SurvSlots, o \in Owners : (Serves(j, o)' <=> Serves(j, o))
                                     /\ (Answers(j, o)' <=> Answers(j, o))
  BY DEF Serves, Answers
<1>2. Single'
  BY <1>1, OtherSlot DEF Single, SurvSlots
<1>3. AnswersRight'
  BY DEF AnswersRight
<1>. QED  BY <1>2, <1>3

\* A step of slot i that is of no concern to the other slot, to the buffers or
\* to GCOopProcess.
Minor(i) ==
  /\ slot'[Other(i)] = slot[Other(i)]
  /\ UNCHANGED <<bufVars, placed, donePending>>
  /\ \A p \in Plabs : plabOpOwner[p] = Other(i) => plabOpOwner'[p] = Other(i)
  /\ allocOwner' = allocOwner
  /\ slotValid(i)' <=> slotValid(i)
  /\ slot'[i].owner = slot[i].owner
  /\ slot'[i].forwardDecided = slot[i].forwardDecided
  /\ slot[i].forwardDecided => slot'[i].dest = slot[i].dest
  /\ Direct(i)' <=> Direct(i)
  /\ Direct(i) => /\ slot'[i].dest = slot[i].dest /\ slot'[i].idx = slot[i].idx
                  /\ slot'[i].size = slot[i].size

\* Such a step keeps all but the slot's own part of the invariant.
LEMMA MinorKeeps ==
  ASSUME IInv, NEW i \in SurvSlots, Typed', Stands(i)',
         slot'[Other(i)] = slot[Other(i)], UNCHANGED <<bufVars, placed, donePending>>,
         \A p \in Plabs : plabOpOwner[p] = Other(i) => plabOpOwner'[p] = Other(i),
         allocOwner' = Other(i) => allocOwner = Other(i),
         slotValid(i)' <=> slotValid(i), slot'[i].owner = slot[i].owner,
         Direct(i)' <=> Direct(i),
         Direct(i) => /\ slot'[i].dest = slot[i].dest /\ slot'[i].idx = slot[i].idx
                      /\ slot'[i].size = slot[i].size
  PROVE  IInv'
<1>1. \A j \in SurvSlots : slot[j].idx \in Plabs
  BY DEF IInv, Typed, SlotType
<1>2. AllStand'
  BY <1>1, OtherStands, OtherSlot DEF IInv, AllStand, bufVars
<1>3. \A j \in SurvSlots : /\ Direct(j)' <=> Direct(j)
                           /\ Direct(j) => /\ slot'[j].dest = slot[j].dest
                                           /\ slot'[j].idx = slot[j].idx
                                           /\ slot'[j].size = slot[j].size
  BY OtherSlot DEF Direct, At
<1>4. Buffers'
  BY <1>3, BuffersKept DEF IInv
<1>5. Apart'
  BY ApartKept DEF IInv
<1>6. \A j \in SurvSlots : (slotValid(j)' <=> slotValid(j)) /\ slot'[j].owner = slot[j].owner
  BY OtherSlot DEF slotValid, At
<1>7. Single' /\ AnswersRight'
  BY <1>6, SeenKept DEF IInv
<1>. QED  BY <1>2, <1>4, <1>5, <1>7 DEF IInv

\* Most steps are of this kind.
LEMMA MinorStep == ASSUME IInv, NEW i \in SurvSlots, Typed', Stands(i)', Minor(i) PROVE IInv'
BY MinorKeeps DEF Minor

-----------------------------------------------------------------------------
(* The steps that only lead on. *)

\* What is known of a slot.
LEMMA SlotKnown ==
  ASSUME IInv, NEW i \in SurvSlots
  PROVE  /\ slot \in [SurvSlots -> SlotType] /\ slot[i] \in SlotType /\ Stands(i)
         /\ Other(i) \in SurvSlots /\ Other(i) # i
BY OtherSlot DEF IInv, Typed, AllStand

LEMMA LeadOnKeeps ==
  ASSUME IInv, NEW i \in SurvSlots, LeadOn(i) PROVE IInv' /\ Minor(i)
<1>0. /\ slot \in [SurvSlots -> SlotType] /\ slot[i] \in SlotType /\ Stands(i)
      /\ Other(i) \in SurvSlots /\ Other(i) # i
  BY SlotKnown
<1>1. PICK s \in States : slot' = [slot EXCEPT ![i].pc = s] /\ s = LeadsTo(i)
        /\ slot[i].pc \in {"READ_KLASS", "SIZE_DEICIDE", "GET_MONITOR_MW", "WRITE_MONITOR_MW"}
  BY DEF LeadOn, GotoState, LeadsTo, At, States
<1>2. slot' \in [SurvSlots -> SlotType] /\ slot'[i] = [slot[i] EXCEPT !.pc = s]
      /\ slot'[Other(i)] = slot[Other(i)]
  BY <1>0, <1>1 DEF SlotType
<1>3. Typed'
  BY <1>2 DEF IInv, Typed, LeadOn, plabVars, workVars, eventVars, memVars, envVars
<1>4. s \in {"SIZE_DEICIDE", "DEST_ATTR_DECIDE", "WRITE_MONITOR_MW", "WAIT_COPY_TRACE"}
      /\ (s \in Late <=> slot[i].pc \in Late)
  BY <1>1 DEF LeadsTo, At, Late
<1>5. Minor(i)
  BY <1>0, <1>1, <1>2, <1>4 DEF Minor, LeadOn, plabVars, workVars, eventVars, memVars, envVars,
     bufVars, slotValid, At, Direct, SlotType
<1>6. Stands(i)'
  BY <1>0, <1>1, <1>2, <1>4 DEF Stands, LeadOn, plabVars, workVars, slotValid, At, SizeOf, Direct,
     Refilling, Allocating, Late, Placed, SlotType
<1>. QED  BY <1>3, <1>5, <1>6, MinorStep

\* The buffer of an object is chosen before anything is done with one.
LEMMA AgeDecideKeeps ==
  ASSUME IInv, NEW i \in SurvSlots, AgeDecide(i) PROVE IInv' /\ Minor(i)
<1>0. /\ slot \in [SurvSlots -> SlotType] /\ slot[i] \in SlotType /\ Stands(i)
      /\ Other(i) \in SurvSlots /\ Other(i) # i /\ Typed
  BY SlotKnown DEF IInv
<1>1. PICK p \in Plabs : slot' = [slot EXCEPT ![i] = [slot[i] EXCEPT !.pc = "PLAB_SELECT",
        !.idx = p]]
  BY <1>0 DEF AgeDecide, GotoState
<1>2. slot' \in [SurvSlots -> SlotType] /\ slot'[Other(i)] = slot[Other(i)]
  BY <1>0, <1>1 DEF SlotType, States, Plabs
<1>3. Typed'
  BY <1>0, <1>2 DEF Typed, AgeDecide, plabVars, workVars, eventVars, memVars, envVars
<1>4. Minor(i)
  BY <1>0, <1>1, <1>2 DEF Minor, AgeDecide, plabVars, workVars, eventVars, memVars, envVars,
     bufVars, slotValid, At, Direct, Late, Stands, SlotType
<1>5. Stands(i)'
  BY <1>0, <1>1, <1>2 DEF Stands, AgeDecide, plabVars, workVars, slotValid, At, SizeOf, Direct,
     Refilling, Allocating, Late, Placed, ownsPlab, Idx, SlotType
<1>. QED  BY <1>3, <1>4, <1>5, MinorStep


LEMMA DestAttrAskKeeps ==
  ASSUME IInv, NEW i \in SurvSlots, DestAttrAsk(i) PROVE IInv' /\ Minor(i)
<1>0. /\ slot \in [SurvSlots -> SlotType] /\ slot[i] \in SlotType /\ Stands(i)
      /\ Other(i) \in SurvSlots /\ Other(i) # i /\ Typed
  BY SlotKnown DEF IInv
<1>1. slot' = [slot EXCEPT ![i] = [slot[i] EXCEPT !.issued = TRUE, !.notified = TRUE]]
  BY <1>0 DEF DestAttrAsk, GotoState
<1>2. slot' \in [SurvSlots -> SlotType] /\ slot'[Other(i)] = slot[Other(i)]
  BY <1>0, <1>1 DEF SlotType, States, Plabs
<1>3. Typed'
  BY <1>0, <1>2 DEF Typed, DestAttrAsk, plabVars, workVars, eventVars, memVars, envVars,
     NotifyTypeArray, SlotType
<1>4. Minor(i)
  BY <1>0, <1>1, <1>2 DEF Minor, DestAttrAsk, plabVars, workVars, eventVars, memVars, envVars,
     bufVars, slotValid, At, Direct, Late, Stands, SlotType
<1>5. Stands(i)'
  BY <1>0, <1>1, <1>2 DEF Stands, DestAttrAsk, plabVars, workVars, slotValid, At, SizeOf, Direct,
     Refilling, Allocating, Late, Placed, ownsPlab, Idx, SlotType
<1>. QED  BY <1>3, <1>4, <1>5, MinorStep


LEMMA DestAttrAnswerKeeps ==
  ASSUME IInv, NEW i \in SurvSlots, DestAttrAnswer(i) PROVE IInv' /\ Minor(i)
<1>0. /\ slot \in [SurvSlots -> SlotType] /\ slot[i] \in SlotType /\ Stands(i)
      /\ Other(i) \in SurvSlots /\ Other(i) # i /\ Typed
  BY SlotKnown DEF IInv
<1>1. slot' = [slot EXCEPT ![i] = [slot[i] EXCEPT !.issued = FALSE, !.pc = "AGE_DECIDE"]]
  BY <1>0 DEF DestAttrAnswer, GotoState
<1>2. slot' \in [SurvSlots -> SlotType] /\ slot'[Other(i)] = slot[Other(i)]
  BY <1>0, <1>1 DEF SlotType, States, Plabs
<1>3. Typed'
  BY <1>0, <1>2 DEF Typed, DestAttrAnswer, plabVars, workVars, eventVars, memVars, envVars
<1>4. Minor(i)
  BY <1>0, <1>1, <1>2 DEF Minor, DestAttrAnswer, plabVars, workVars, eventVars, memVars, envVars,
     bufVars, slotValid, At, Direct, Late, Stands, SlotType
<1>5. Stands(i)'
  BY <1>0, <1>1, <1>2 DEF Stands, DestAttrAnswer, plabVars, workVars, slotValid, At, SizeOf, Direct,
     Refilling, Allocating, Late, Placed, ownsPlab, Idx, SlotType
<1>. QED  BY <1>3, <1>4, <1>5, MinorStep


LEMMA DestAttrHitKeeps ==
  ASSUME IInv, NEW i \in SurvSlots, DestAttrHit(i) PROVE IInv' /\ Minor(i)
<1>0. /\ slot \in [SurvSlots -> SlotType] /\ slot[i] \in SlotType /\ Stands(i)
      /\ Other(i) \in SurvSlots /\ Other(i) # i /\ Typed
  BY SlotKnown DEF IInv
<1>1. slot' = [slot EXCEPT ![i] = [slot[i] EXCEPT !.notified = TRUE,
        !.pc = IF slot[i].issued THEN "ASTRAY" ELSE "AGE_DECIDE"]]
  BY <1>0 DEF DestAttrHit, GotoState
<1>2. slot' \in [SurvSlots -> SlotType] /\ slot'[Other(i)] = slot[Other(i)]
  BY <1>0, <1>1 DEF SlotType, States, Plabs
<1>3. Typed'
  BY <1>0, <1>2 DEF Typed, DestAttrHit, plabVars, workVars, eventVars, memVars, envVars,
     NotifyTypeArray, SlotType
<1>4. Minor(i)
  BY <1>0, <1>1, <1>2 DEF Minor, DestAttrHit, plabVars, workVars, eventVars, memVars, envVars,
     bufVars, slotValid, At, Direct, Late, Stands, SlotType
<1>5. Stands(i)'
  BY <1>0, <1>1, <1>2 DEF Stands, DestAttrHit, plabVars, workVars, slotValid, At, SizeOf, Direct,
     Refilling, Allocating, Late, Placed, ownsPlab, Idx, SlotType
<1>. QED  BY <1>3, <1>4, <1>5, MinorStep


LEMMA ReadPlabPtrKeeps ==
  ASSUME IInv, NEW i \in SurvSlots, ReadPlabPtr(i) PROVE IInv' /\ Minor(i)
<1>0. /\ slot \in [SurvSlots -> SlotType] /\ slot[i] \in SlotType /\ Stands(i)
      /\ Other(i) \in SurvSlots /\ Other(i) # i /\ Typed
  BY SlotKnown DEF IInv
<1>1. slot' = [slot EXCEPT ![i] = [slot[i] EXCEPT !.pc = "READ_PLAB_BUF"]]
  BY <1>0 DEF ReadPlabPtr, GotoState
<1>2. slot' \in [SurvSlots -> SlotType] /\ slot'[Other(i)] = slot[Other(i)]
  BY <1>0, <1>1 DEF SlotType, States, Plabs
<1>3. Typed'
  BY <1>0, <1>2 DEF Typed, ReadPlabPtr, plabVars, workVars, eventVars, memVars, envVars
<1>4. Minor(i)
  BY <1>0, <1>1, <1>2 DEF Minor, ReadPlabPtr, plabVars, workVars, eventVars, memVars, envVars,
     bufVars, slotValid, At, Direct, Late, Stands, SlotType
<1>5. Stands(i)'
  BY <1>0, <1>1, <1>2 DEF Stands, ReadPlabPtr, plabVars, workVars, slotValid, At, SizeOf, Direct,
     Refilling, Allocating, Late, Placed, ownsPlab, Idx, SlotType
<1>. QED  BY <1>3, <1>4, <1>5, MinorStep


LEMMA ReadPlabBufKeeps ==
  ASSUME IInv, NEW i \in SurvSlots, ReadPlabBuf(i) PROVE IInv' /\ Minor(i)
<1>0. /\ slot \in [SurvSlots -> SlotType] /\ slot[i] \in SlotType /\ Stands(i)
      /\ Other(i) \in SurvSlots /\ Other(i) # i /\ Typed
  BY SlotKnown DEF IInv
<1>1. slot' = [slot EXCEPT ![i] = [slot[i] EXCEPT !.pc = "READ_PLAB_TOPEND"]]
  BY <1>0 DEF ReadPlabBuf, GotoState
<1>2. slot' \in [SurvSlots -> SlotType] /\ slot'[Other(i)] = slot[Other(i)]
  BY <1>0, <1>1 DEF SlotType, States, Plabs
<1>3. Typed'
  BY <1>0, <1>2 DEF Typed, ReadPlabBuf, plabVars, workVars, eventVars, memVars, envVars
<1>4. Minor(i)
  BY <1>0, <1>1, <1>2 DEF Minor, ReadPlabBuf, plabVars, workVars, eventVars, memVars, envVars,
     bufVars, slotValid, At, Direct, Late, Stands, SlotType
<1>5. Stands(i)'
  BY <1>0, <1>1, <1>2 DEF Stands, ReadPlabBuf, plabVars, workVars, slotValid, At, SizeOf, Direct,
     Refilling, Allocating, Late, Placed, ownsPlab, Idx, SlotType
<1>. QED  BY <1>3, <1>4, <1>5, MinorStep


LEMMA WriteForceOldKeeps ==
  ASSUME IInv, NEW i \in SurvSlots, WriteForceOld(i) PROVE IInv' /\ Minor(i)
<1>0. /\ slot \in [SurvSlots -> SlotType] /\ slot[i] \in SlotType /\ Stands(i)
      /\ Other(i) \in SurvSlots /\ Other(i) # i /\ Typed
  BY SlotKnown DEF IInv
<1>1. slot' = [slot EXCEPT ![i] = [slot[i] EXCEPT !.pc = "DECIDE_FORWARD_PTR"]]
  BY <1>0 DEF WriteForceOld, GotoState
<1>2. slot' \in [SurvSlots -> SlotType] /\ slot'[Other(i)] = slot[Other(i)]
  BY <1>0, <1>1 DEF SlotType, States, Plabs
<1>3. Typed'
  BY <1>0, <1>2 DEF Typed, WriteForceOld, plabVars, workVars, eventVars, memVars, envVars
<1>4. Minor(i)
  BY <1>0, <1>1, <1>2 DEF Minor, WriteForceOld, plabVars, workVars, eventVars, memVars, envVars,
     bufVars, slotValid, At, Direct, Late, Stands, SlotType
<1>5. Stands(i)'
  BY <1>0, <1>1, <1>2 DEF Stands, WriteForceOld, plabVars, workVars, slotValid, At, SizeOf, Direct,
     Refilling, Allocating, Late, Placed, ownsPlab, Idx, SlotType
<1>. QED  BY <1>3, <1>4, <1>5, MinorStep


LEMMA CopyEndsKeeps ==
  ASSUME IInv, NEW i \in SurvSlots, CopyEnds(i) PROVE IInv' /\ Minor(i)
<1>0. /\ slot \in [SurvSlots -> SlotType] /\ slot[i] \in SlotType /\ Stands(i)
      /\ Other(i) \in SurvSlots /\ Other(i) # i /\ Typed
  BY SlotKnown DEF IInv
<1>1. slot' = [slot EXCEPT ![i] = [slot[i] EXCEPT !.copyDone = TRUE]]
  BY <1>0 DEF CopyEnds, GotoState
<1>2. slot' \in [SurvSlots -> SlotType] /\ slot'[Other(i)] = slot[Other(i)]
  BY <1>0, <1>1 DEF SlotType, States, Plabs
<1>3. Typed'
  BY <1>0, <1>2 DEF Typed, CopyEnds, plabVars, workVars, eventVars, memVars, envVars
<1>4. Minor(i)
  BY <1>0, <1>1, <1>2 DEF Minor, CopyEnds, plabVars, workVars, eventVars, memVars, envVars,
     bufVars, slotValid, At, Direct, Late, Stands, SlotType
<1>5. Stands(i)'
  BY <1>0, <1>1, <1>2 DEF Stands, CopyEnds, plabVars, workVars, slotValid, At, SizeOf, Direct,
     Refilling, Allocating, Late, Placed, ownsPlab, Idx, SlotType
<1>. QED  BY <1>3, <1>4, <1>5, MinorStep


LEMMA WriteDestMarkKeeps ==
  ASSUME IInv, NEW i \in SurvSlots, WriteDestMark(i) PROVE IInv' /\ Minor(i)
<1>0. /\ slot \in [SurvSlots -> SlotType] /\ slot[i] \in SlotType /\ Stands(i)
      /\ Other(i) \in SurvSlots /\ Other(i) # i /\ Typed
  BY SlotKnown DEF IInv
<1>1. slot' = [slot EXCEPT ![i] = [slot[i] EXCEPT !.writeDestOopPtrDone = TRUE]]
  BY <1>0 DEF WriteDestMark, GotoState
<1>2. slot' \in [SurvSlots -> SlotType] /\ slot'[Other(i)] = slot[Other(i)]
  BY <1>0, <1>1 DEF SlotType, States, Plabs
<1>3. Typed'
  BY <1>0, <1>2 DEF Typed, WriteDestMark, plabVars, workVars, eventVars, memVars, envVars
<1>4. Minor(i)
  BY <1>0, <1>1, <1>2 DEF Minor, WriteDestMark, plabVars, workVars, eventVars, memVars, envVars,
     bufVars, slotValid, At, Direct, Late, Stands, SlotType
<1>5. Stands(i)'
  BY <1>0, <1>1, <1>2 DEF Stands, WriteDestMark, plabVars, workVars, slotValid, At, SizeOf, Direct,
     Refilling, Allocating, Late, Placed, ownsPlab, Idx, SlotType
<1>. QED  BY <1>3, <1>4, <1>5, MinorStep


LEMMA SendTraceWorkKeeps ==
  ASSUME IInv, NEW i \in SurvSlots, SendTraceWork(i) PROVE IInv' /\ Minor(i)
<1>0. /\ slot \in [SurvSlots -> SlotType] /\ slot[i] \in SlotType /\ Stands(i)
      /\ Other(i) \in SurvSlots /\ Other(i) # i /\ Typed
  BY SlotKnown DEF IInv
<1>1. slot' = [slot EXCEPT ![i] = [slot[i] EXCEPT !.traceIssued = TRUE]]
  BY <1>0 DEF SendTraceWork, GotoState
<1>2. slot' \in [SurvSlots -> SlotType] /\ slot'[Other(i)] = slot[Other(i)]
  BY <1>0, <1>1 DEF SlotType, States, Plabs
<1>3. Typed'
  BY <1>0, <1>2 DEF Typed, SendTraceWork, plabVars, workVars, eventVars, memVars, envVars
<1>4. Minor(i)
  BY <1>0, <1>1, <1>2 DEF Minor, SendTraceWork, plabVars, workVars, eventVars, memVars, envVars,
     bufVars, slotValid, At, Direct, Late, Stands, SlotType
<1>5. Stands(i)'
  BY <1>0, <1>1, <1>2 DEF Stands, SendTraceWork, plabVars, workVars, slotValid, At, SizeOf, Direct,
     Refilling, Allocating, Late, Placed, ownsPlab, Idx, SlotType
<1>. QED  BY <1>3, <1>4, <1>5, MinorStep


LEMMA TraceEndsKeeps ==
  ASSUME IInv, NEW i \in SurvSlots, TraceEnds(i) PROVE IInv' /\ Minor(i)
<1>0. /\ slot \in [SurvSlots -> SlotType] /\ slot[i] \in SlotType /\ Stands(i)
      /\ Other(i) \in SurvSlots /\ Other(i) # i /\ Typed
  BY SlotKnown DEF IInv
<1>1. slot' = [slot EXCEPT ![i] = [slot[i] EXCEPT !.traceDone = TRUE]]
  BY <1>0 DEF TraceEnds, GotoState
<1>2. slot' \in [SurvSlots -> SlotType] /\ slot'[Other(i)] = slot[Other(i)]
  BY <1>0, <1>1 DEF SlotType, States, Plabs
<1>3. Typed'
  BY <1>0, <1>2 DEF Typed, TraceEnds, plabVars, workVars, eventVars, memVars, envVars
<1>4. Minor(i)
  BY <1>0, <1>1, <1>2 DEF Minor, TraceEnds, plabVars, workVars, eventVars, memVars, envVars,
     bufVars, slotValid, At, Direct, Late, Stands, SlotType
<1>5. Stands(i)'
  BY <1>0, <1>1, <1>2 DEF Stands, TraceEnds, plabVars, workVars, slotValid, At, SizeOf, Direct,
     Refilling, Allocating, Late, Placed, ownsPlab, Idx, SlotType
<1>. QED  BY <1>3, <1>4, <1>5, MinorStep


LEMMA LeaveTraceKeeps ==
  ASSUME IInv, NEW i \in SurvSlots, LeaveTrace(i) PROVE IInv' /\ Minor(i)
<1>0. /\ slot \in [SurvSlots -> SlotType] /\ slot[i] \in SlotType /\ Stands(i)
      /\ Other(i) \in SurvSlots /\ Other(i) # i /\ Typed
  BY SlotKnown DEF IInv
<1>1. slot' = [slot EXCEPT ![i] = [slot[i] EXCEPT !.pc =
        IF slot[i].cmd \in Inflated THEN "GET_MONITOR_MW" ELSE "WAIT_COPY_TRACE"]]
  BY <1>0 DEF LeaveTrace, GotoState
<1>2. slot' \in [SurvSlots -> SlotType] /\ slot'[Other(i)] = slot[Other(i)]
  BY <1>0, <1>1 DEF SlotType, States, Plabs
<1>3. Typed'
  BY <1>0, <1>2 DEF Typed, LeaveTrace, plabVars, workVars, eventVars, memVars, envVars
<1>4. Minor(i)
  BY <1>0, <1>1, <1>2 DEF Minor, LeaveTrace, plabVars, workVars, eventVars, memVars, envVars,
     bufVars, slotValid, At, Direct, Late, Stands, SlotType
<1>5. Stands(i)'
  BY <1>0, <1>1, <1>2 DEF Stands, LeaveTrace, plabVars, workVars, slotValid, At, SizeOf, Direct,
     Refilling, Allocating, Late, Placed, ownsPlab, Idx, SlotType
<1>. QED  BY <1>3, <1>4, <1>5, MinorStep


LEMMA SendCopyWorkKeeps ==
  ASSUME IInv, NEW i \in SurvSlots, SendCopyWork(i) PROVE IInv' /\ Minor(i)
<1>0. /\ slot \in [SurvSlots -> SlotType] /\ slot[i] \in SlotType /\ Stands(i)
      /\ Other(i) \in SurvSlots /\ Other(i) # i /\ Typed
  BY SlotKnown DEF IInv
<1>1. slot' = [slot EXCEPT ![i] = [slot[i] EXCEPT !.pc = "SEND_TRACE_WORK"]]
  BY <1>0 DEF SendCopyWork, GotoState
<1>2. slot' \in [SurvSlots -> SlotType] /\ slot'[Other(i)] = slot[Other(i)]
  BY <1>0, <1>1 DEF SlotType, States, Plabs
<1>3. Typed'
  BY <1>0, <1>2 DEF Typed, SendCopyWork, plabVars, workVars, eventVars, memVars, envVars
<1>4. Minor(i)
  BY <1>0, <1>1, <1>2 DEF Minor, SendCopyWork, plabVars, workVars, eventVars, memVars, envVars,
     bufVars, slotValid, At, Direct, Late, Stands, SlotType, First, WaitForCopy
<1>5. Stands(i)'
  BY <1>0, <1>1, <1>2 DEF Stands, SendCopyWork, plabVars, workVars, slotValid, At, SizeOf, Direct,
     Refilling, Allocating, Late, Placed, ownsPlab, Idx, SlotType, First, WaitForCopy
<1>. QED  BY <1>3, <1>4, <1>5, MinorStep

\* The type array event leaves.
LEMMA SendTypeArrayKeeps ==
  ASSUME IInv, NEW i \in SurvSlots, SendTypeArray(i) PROVE IInv' /\ Minor(i)
<1>0. Stands(i) /\ Typed
  BY SlotKnown DEF IInv
<1>1. typeArrayPending[i] \in Owners /\ UNCHANGED slot
  BY <1>0 DEF Typed, SendTypeArray
<1>2. Typed'
  BY <1>0, <1>1 DEF Typed, SendTypeArray, plabVars, workVars, memVars
<1>3. Minor(i)
  BY <1>0, <1>1 DEF Minor, SendTypeArray, plabVars, workVars, memVars, bufVars, slotValid, At,
     Direct
<1>4. Stands(i)'
  BY <1>0, <1>1 DEF Stands, SendTypeArray, plabVars, workVars, slotValid, At, SizeOf, Direct,
     Refilling, Allocating, ownsPlab, Idx
<1>. QED  BY <1>2, <1>3, <1>4, MinorStep

-----------------------------------------------------------------------------
(* Locks. *)

\* The slot whose turn it is takes no lock from the other one.
LEMMA GrantFree ==
  ASSUME IInv, NEW i \in SurvSlots, slotPlabSelectGrant(i)
  PROVE  At(i, "PLAB_SELECT") /\ plabOpOwner[Idx(i)] \in {None, i}
BY DEF slotPlabSelectGrant, plabSelectOwn, plabSelectReq, ownsPlab, plabFreeOrMine

LEMMA LockTaken ==
  ASSUME IInv, NEW i \in SurvSlots, plabOpOwner[Idx(i)] \in {None, i}, lockPlab(i)
  PROVE  /\ plabOpOwner' \in [Plabs -> SurvSlots \cup {None}] /\ plabOpOwner'[Idx(i)] = i
         /\ \A p \in Plabs : plabOpOwner[p] = Other(i) => plabOpOwner'[p] = Other(i)
<1>1. Idx(i) \in Plabs /\ plabOpOwner \in [Plabs -> SurvSlots \cup {None}]
  BY DEF IInv, Typed, Idx, SlotType
<1>2. Other(i) # None /\ Other(i) # i
  BY BuffersAssumption, OtherSlot DEF SurvSlots
<1>. QED  BY <1>1, <1>2 DEF lockPlab

LEMMA LockGiven ==
  ASSUME IInv, NEW i \in SurvSlots, unlockPlab(i)
  PROVE  /\ plabOpOwner' \in [Plabs -> SurvSlots \cup {None}]
         /\ \A p \in Plabs : plabOpOwner[p] = Other(i) => plabOpOwner'[p] = Other(i)
<1>1. Idx(i) \in Plabs /\ plabOpOwner \in [Plabs -> SurvSlots \cup {None}]
  BY DEF IInv, Typed, Idx, SlotType
<1>2. Other(i) # i
  BY OtherSlot
<1>. QED  BY <1>1, <1>2 DEF unlockPlab

\* No two slots work on one buffer.
LEMMA OneWorks ==
  ASSUME IInv, NEW i \in SurvSlots, NEW j \in SurvSlots, i # j, plabOpOwner[Idx(i)] = i,
         Direct(j) \/ Refilling(j) \/ Allocating(j)
  PROVE  Idx(j) # Idx(i)
BY DEF IInv, AllStand, Stands, ownsPlab

\* An object whose place is being taken fits.
LEMMA DirectFits ==
  ASSUME IInv, NEW i \in SurvSlots, Direct(i)
  PROVE  plabValid[Idx(i)] /\ plabEnough(i) /\ plabTop[Idx(i)] >= 1
<1>1. Idx(i) \in Plabs
  BY DEF IInv, Typed, Idx, SlotType
<1>2. Bumped(i, Idx(i)) /\ InStep(Idx(i)) /\ InBounds(Idx(i))
  BY <1>1 DEF IInv, Buffers
<1>3. DirectOn(i, Idx(i))
  BY DEF DirectOn
<1>4. plabTop[Idx(i)] \in Nat /\ plabEnd[Idx(i)] \in Nat /\ SizeOf(i) \in Nat
      /\ memTop[Idx(i)] \in Nat /\ memEnd[Idx(i)] \in Nat
  BY <1>1 DEF IInv, Typed, SlotType, SizeOf
<1>. QED  BY <1>2, <1>3, <1>4 DEF Bumped, InStep, InBounds, Base, plabEnough

\* No room for the object: GCAllocate will be asked.
LEMMA NoRoomKeeps ==
  ASSUME IInv, NEW i \in SurvSlots, NoRoom(i) PROVE IInv' /\ Minor(i)
<1>0. /\ slot \in [SurvSlots -> SlotType] /\ slot[i] \in SlotType /\ Stands(i)
      /\ Other(i) \in SurvSlots /\ Other(i) # i /\ Typed
  BY SlotKnown DEF IInv
<1>a. At(i, "PLAB_SELECT") /\ plabOpOwner[Idx(i)] \in {None, i} /\ Idx(i) \in Plabs
  BY <1>0, GrantFree DEF NoRoom, Idx, SlotType
<1>b. /\ plabOpOwner' \in [Plabs -> SurvSlots \cup {None}] /\ plabOpOwner'[Idx(i)] = i
      /\ \A p \in Plabs : plabOpOwner[p] = Other(i) => plabOpOwner'[p] = Other(i)
  BY <1>a, LockTaken DEF NoRoom
<1>c. ~Direct(i)
  BY <1>a, DirectFits DEF NoRoom
<1>1. slot' = [slot EXCEPT ![i] = [slot[i] EXCEPT !.pc = "ALLOC_CACHE"]]
  BY <1>0 DEF NoRoom, GotoState
<1>2. slot' \in [SurvSlots -> SlotType] /\ slot'[Other(i)] = slot[Other(i)]
  BY <1>0, <1>1 DEF SlotType, States, Plabs
<1>3. Typed'
  BY <1>0, <1>2, <1>b DEF Typed, NoRoom, plabVars, workVars, eventVars, memVars, envVars
<1>4. Minor(i)
  BY <1>0, <1>1, <1>2, <1>a, <1>b, <1>c
     DEF Minor, NoRoom, plabVars, workVars, eventVars, memVars, envVars,
     bufVars, slotValid, At, Direct, Late, Stands, SlotType
<1>5. Stands(i)'
  BY <1>0, <1>1, <1>2, <1>a, <1>b, <1>c
     DEF Stands, NoRoom, plabVars, workVars, slotValid, At, SizeOf, Direct,
     Refilling, Allocating, Late, Placed, ownsPlab, Idx, SlotType
<1>. QED  BY <1>3, <1>4, <1>5, MinorStep

\* The copy is void: it will be read anew.
LEMMA RefillStartKeeps ==
  ASSUME IInv, NEW i \in SurvSlots, RefillStart(i) PROVE IInv' /\ Minor(i)
<1>0. /\ slot \in [SurvSlots -> SlotType] /\ slot[i] \in SlotType /\ Stands(i)
      /\ Other(i) \in SurvSlots /\ Other(i) # i /\ Typed
  BY SlotKnown DEF IInv
<1>a. At(i, "PLAB_SELECT") /\ plabOpOwner[Idx(i)] \in {None, i} /\ Idx(i) \in Plabs
  BY <1>0, GrantFree DEF RefillStart, Idx, SlotType
<1>b. /\ plabOpOwner' \in [Plabs -> SurvSlots \cup {None}] /\ plabOpOwner'[Idx(i)] = i
      /\ \A p \in Plabs : plabOpOwner[p] = Other(i) => plabOpOwner'[p] = Other(i)
  BY <1>a, LockTaken DEF RefillStart
<1>c. ~Direct(i)
  BY <1>a, DirectFits DEF RefillStart
<1>1. slot' = [slot EXCEPT ![i] = [slot[i] EXCEPT !.pc = IF plabBufferValid[Idx(i)]
        THEN "READ_PLAB_TOPEND" ELSE "READ_PLAB_PTR"]]
  BY <1>0 DEF RefillStart, GotoState
<1>2. slot' \in [SurvSlots -> SlotType] /\ slot'[Other(i)] = slot[Other(i)]
  BY <1>0, <1>1 DEF SlotType, States, Plabs
<1>3. Typed'
  BY <1>0, <1>2, <1>a, <1>b DEF Typed, RefillStart, plabVars, workVars, eventVars, memVars, envVars
<1>4. Minor(i)
  BY <1>0, <1>1, <1>2, <1>a, <1>b, <1>c
     DEF Minor, RefillStart, plabVars, workVars, eventVars, memVars, envVars,
     bufVars, slotValid, At, Direct, Late, Stands, SlotType
<1>5. Stands(i)'
  BY <1>0, <1>1, <1>2, <1>a, <1>b, <1>c
     DEF Stands, RefillStart, plabVars, workVars, slotValid, At, SizeOf, Direct,
     Refilling, Allocating, Late, Placed, ownsPlab, Idx, SlotType
<1>. QED  BY <1>3, <1>4, <1>5, MinorStep

\* GCAllocate's answer is used, or the old buffer is tried next.
LEMMA WaitAllocKeeps ==
  ASSUME IInv, NEW i \in SurvSlots, WaitAlloc(i) PROVE IInv' /\ Minor(i)
<1>0. /\ slot \in [SurvSlots -> SlotType] /\ slot[i] \in SlotType /\ Stands(i)
      /\ Other(i) \in SurvSlots /\ Other(i) # i /\ Typed
  BY SlotKnown DEF IInv
<1>b. /\ plabOpOwner' \in [Plabs -> SurvSlots \cup {None}]
      /\ \A p \in Plabs : plabOpOwner[p] = Other(i) => plabOpOwner'[p] = Other(i)
  BY LockGiven DEF WaitAlloc
<1>1. slot' = [slot EXCEPT ![i] = IF slot[i].dest = 0
        THEN [slot[i] EXCEPT !.allocDone = FALSE, !.idx = 1, !.plabForceOld = TRUE,
                             !.pc = "PLAB_SELECT"]
        ELSE [slot[i] EXCEPT !.allocDone = FALSE,
                             !.pc = IF slot[i].plabForceOld THEN "WRITE_FORCE_OLD"
                                                            ELSE "DECIDE_FORWARD_PTR"]]
  BY <1>0 DEF WaitAlloc, GotoState
<1>2. slot' \in [SurvSlots -> SlotType] /\ slot'[Other(i)] = slot[Other(i)]
  BY <1>0, <1>1, ZenonT(30) DEF SlotType, States, Plabs
<1>3. Typed'
  BY <1>0, <1>2, <1>b DEF Typed, WaitAlloc, plabVars, workVars, eventVars, memVars, envVars
<1>4. Minor(i)
  BY <1>0, <1>1, <1>2, <1>b DEF Minor, WaitAlloc, plabVars, workVars, eventVars, memVars, envVars,
     bufVars, slotValid, At, Direct, Late, Stands, SlotType
<1>5. Stands(i)'
  BY <1>0, <1>1, <1>2, <1>b DEF Stands, WaitAlloc, plabVars, workVars, slotValid, At, SizeOf, Direct,
     Refilling, Allocating, Late, Placed, ownsPlab, Idx, SlotType
<1>. QED  BY <1>3, <1>4, <1>5, MinorStep

\* The forwarding pointer is installed.
LEMMA CasForwardPtrKeeps ==
  ASSUME IInv, NEW i \in SurvSlots, CasForwardPtr(i) PROVE IInv'
<1>0. /\ slot \in [SurvSlots -> SlotType] /\ slot[i] \in SlotType /\ Stands(i)
      /\ Other(i) \in SurvSlots /\ Other(i) # i /\ Typed
  BY SlotKnown DEF IInv
<1>1. slot' = [slot EXCEPT ![i] = [slot[i] EXCEPT !.pc = "SEND_COPY_WORK", !.forwardDecided = TRUE]]
  BY <1>0 DEF CasForwardPtr, GotoState
<1>2. slot' \in [SurvSlots -> SlotType] /\ slot'[Other(i)] = slot[Other(i)]
  BY <1>0, <1>1 DEF SlotType, States, Plabs
<1>3. Typed'
  BY <1>0, <1>2 DEF Typed, CasForwardPtr, plabVars, workVars, eventVars, memVars, envVars
<1>4. /\ slotValid(i) /\ slotValid(i)' /\ ~Direct(i) /\ ~Direct(i)'
           /\ slot'[i].owner = slot[i].owner
      /\ UNCHANGED <<bufVars, placed, donePending, plabOpOwner, allocOwner>>
  BY <1>0, <1>1, <1>2 DEF CasForwardPtr, plabVars, workVars, eventVars, memVars, envVars,
     bufVars, slotValid, At, Direct, Late, Stands, SlotType
<1>5. Stands(i)'
  BY <1>0, <1>1, <1>2 DEF Stands, CasForwardPtr, plabVars, workVars, slotValid, At, SizeOf, Direct,
     Refilling, Allocating, Late, Placed, ownsPlab, Idx, SlotType
<1>. QED  BY <1>2, <1>3, <1>4, <1>5, MinorKeeps

-----------------------------------------------------------------------------
(* The steps at a buffer: slot i has its lock.                               *)

\* The parts of the invariant a step at a buffer does not change.
LEMMA AtBuffer ==
  ASSUME IInv, NEW i \in SurvSlots, Typed', Stands(i)', Buffers', Apart',
         slot'[Other(i)] = slot[Other(i)], UNCHANGED donePending,
         \A p \in Plabs : plabOpOwner[p] = Other(i) => plabOpOwner'[p] = Other(i),
         \A p \in Plabs : plabOpOwner[p] = Other(i) => plabValid'[p] = plabValid[p],
         allocOwner' = Other(i) => allocOwner = Other(i),
         slotValid(i)' <=> slotValid(i), slot'[i].owner = slot[i].owner
  PROVE  IInv'
<1>1. \A j \in SurvSlots : slot[j].idx \in Plabs
  BY DEF IInv, Typed, SlotType
<1>2. AllStand'
  BY <1>1, OtherStands, OtherSlot DEF IInv, AllStand
<1>3. \A j \in SurvSlots : (slotValid(j)' <=> slotValid(j)) /\ slot'[j].owner = slot[j].owner
  BY OtherSlot DEF slotValid, At
<1>4. Single' /\ AnswersRight'
  BY <1>3, SeenKept DEF IInv
<1>. QED  BY <1>2, <1>4 DEF IInv

\* What is known of a buffer.
LEMMA BufferKnown ==
  ASSUME IInv, NEW i \in SurvSlots
  PROVE  /\ Idx(i) \in Plabs /\ SizeOf(i) \in Nat /\ slot[i].dest \in Nat
         /\ \A p \in Plabs :
              /\ plabTop[p] \in Nat /\ plabEnd[p] \in Nat /\ memTop[p] \in Nat /\ memEnd[p] \in Nat
              /\ plabValid[p] \in BOOLEAN
              /\ InBounds(p) /\ InStep(p) /\ \A j \in SurvSlots : Bumped(j, p)
         /\ heapNext \in Nat
BY DEF IInv, Typed, Buffers, SlotType, Idx, SizeOf

\* Nobody else is at a buffer that slot i may lock.
LEMMA OthersElsewhere ==
  ASSUME IInv, NEW i \in SurvSlots, NEW q \in Plabs, plabOpOwner[q] \in {None, i},
         slot'[Other(i)] = slot[Other(i)], NEW j \in SurvSlots, j # i
  PROVE  /\ ~DirectOn(j, q) /\ ~DirectOn(j, q)'
         /\ \A p \in Plabs : DirectOn(j, p)' <=> DirectOn(j, p)
         /\ slot'[j] = slot[j]
<1>1. j = Other(i) /\ slot'[j] = slot[j]
  BY OtherSlot
<1>2. ~DirectOn(j, q)
  BY BuffersAssumption DEF DirectOn, Idx, IInv, AllStand, Stands, ownsPlab, SurvSlots
<1>3. \A p \in Plabs : DirectOn(j, p)' <=> DirectOn(j, p)
  BY <1>1 DEF DirectOn, Direct, Idx, At
<1>. QED  BY <1>1, <1>2, <1>3

\* A buffer whose words on chip and in memory stay as they are.
LEMMA BufferStays ==
  ASSUME IInv, NEW p \in Plabs,
         plabValid'[p] = plabValid[p], plabTop'[p] = plabTop[p], plabEnd'[p] = plabEnd[p],
         memTop'[p] = memTop[p], memEnd'[p] = memEnd[p], heapNext' \in Nat, heapNext' >= heapNext,
         \A j \in SurvSlots : /\ DirectOn(j, p)' <=> DirectOn(j, p)
                              /\ DirectOn(j, p) => /\ slot'[j].dest = slot[j].dest
                                                   /\ slot'[j].size = slot[j].size
  PROVE  InBounds(p)' /\ InStep(p)' /\ (\A j \in SurvSlots : Bumped(j, p)')
         /\ Room(p)' = Room(p)
<1>1. InBounds(p) /\ InStep(p) /\ (\A j \in SurvSlots : Bumped(j, p))
      /\ memEnd[p] \in Nat /\ heapNext \in Nat
  BY DEF IInv, Buffers, Typed
<1>2. InBounds(p)' /\ Room(p)' = Room(p)
  BY <1>1 DEF InBounds, Base, Room
<1>3. InStep(p)'
  BY <1>1 DEF InStep
<1>4. \A j \in SurvSlots : Bumped(j, p)'
  BY <1>1 DEF Bumped, SizeOf
<1>. QED  BY <1>2, <1>3, <1>4

\* DirectSend bumps the top in memory: the place is promised, and the room as
\* it was.
LEMMA DirectSendKeeps ==
  ASSUME IInv, NEW i \in SurvSlots, DirectSend(i)
  PROVE  IInv' /\ slot'[Other(i)] = slot[Other(i)] /\ UNCHANGED donePending
         /\ slotValid(i) /\ slotValid(i)' /\ slot'[i].owner = slot[i].owner
         /\ ~slot[i].forwardDecided /\ ~slot'[i].forwardDecided
<1>0. /\ slot \in [SurvSlots -> SlotType] /\ slot[i] \in SlotType /\ Stands(i)
      /\ Other(i) \in SurvSlots /\ Other(i) # i /\ Typed
  BY SlotKnown DEF IInv
<1>a. PICK q \in Plabs : q = Idx(i)
  BY BufferKnown
<1>1. slot' = [slot EXCEPT ![i] = [slot[i] EXCEPT !.dest = plabTop[q], !.issued = TRUE,
        !.afterAllocCache = TRUE, !.usingPlabCacheBuffer = TRUE, !.plabBuffer = q]]
  BY <1>0, <1>a DEF DirectSend
<1>2. q \in Plabs /\ SizeOf(i) \in Nat /\ heapNext \in Nat /\ memTop[q] \in Nat
      /\ plabTop[q] \in Nat /\ plabEnd[q] \in Nat /\ memEnd[q] \in Nat
      /\ InBounds(q) /\ InStep(q) /\ \A j \in SurvSlots : Bumped(j, q)
  BY <1>a, BufferKnown
<1>3. slot' \in [SurvSlots -> SlotType] /\ slot'[Other(i)] = slot[Other(i)]
  BY <1>0, <1>1, <1>2 DEF SlotType, Plabs
<1>4. At(i, "PLAB_SELECT") /\ plabOpOwner[q] \in {None, i} /\ ~slot[i].issued
      /\ plabValid[q] /\ plabEnd[q] - plabTop[q] >= SizeOf(i)
  BY <1>a, GrantFree DEF DirectSend, DirectAlloc, plabEnough
<1>5. /\ plabOpOwner' \in [Plabs -> SurvSlots \cup {None}] /\ plabOpOwner'[q] = i
      /\ \A p \in Plabs : plabOpOwner[p] = Other(i) => plabOpOwner'[p] = Other(i)
  BY <1>a, <1>4, LockTaken DEF DirectSend
<1>6. Typed'
  BY <1>0, <1>a, <1>2, <1>3, <1>5 DEF Typed, DirectSend, workVars, eventVars, envVars
<1>7. /\ slotValid(i) /\ slotValid(i)' /\ slot'[i].owner = slot[i].owner
      /\ ~slot[i].forwardDecided /\ ~slot'[i].forwardDecided
      /\ slot'[i].idx = q /\ slot'[i].size = SizeOf(i) /\ Direct(i)' /\ ~Direct(i)
  BY <1>0, <1>a, <1>1, <1>4 DEF slotValid, At, Stands, Late, Direct, Idx, SizeOf, SlotType
<1>8. Stands(i)'
  BY <1>0, <1>a, <1>1, <1>4, <1>5, SMTT(30) DEF Stands, DirectSend, workVars, slotValid, At, SizeOf, Direct,
     Refilling, Allocating, Late, Placed, ownsPlab, Idx, SlotType
<1>9. \A j \in SurvSlots : j # i =>
        /\ ~DirectOn(j, q) /\ ~DirectOn(j, q)' /\ slot'[j] = slot[j]
        /\ \A p \in Plabs : DirectOn(j, p)' <=> DirectOn(j, p)
  BY <1>3, <1>4, OthersElsewhere
<1>10. DirectOn(i, q)' /\ \A p \in Plabs : p # q => ~DirectOn(i, p) /\ ~DirectOn(i, p)'
  BY <1>a, <1>7 DEF DirectOn, Idx
<1>11. memTop[q] = plabTop[q] /\ plabEnd[q] = memEnd[q]
  BY <1>2, <1>4, <1>7, <1>9 DEF InStep, DirectOn
<1>12. memTop'[q] = plabTop[q] + SizeOf(i)
       /\ UNCHANGED <<plabValid, plabTop, plabEnd, memEnd, heapNext, placed, donePending>>
       /\ \A p \in Plabs : p # q => memTop'[p] = memTop[p]
  BY <1>0, <1>a, <1>2 DEF DirectSend, workVars, eventVars, envVars, Typed
<1>13. InBounds(q)' /\ InStep(q)' /\ Room(q)' = Room(q)
  BY <1>2, <1>4, <1>10, <1>11, <1>12 DEF InBounds, InStep, Room, Base
<1>14. \A j \in SurvSlots : Bumped(j, q)'
  BY <1>1, <1>2, <1>4, <1>7, <1>9, <1>12, <1>0 DEF Bumped, SizeOf
<1>15. \A p \in Plabs : p # q => InBounds(p)' /\ InStep(p)' /\ (\A j \in SurvSlots : Bumped(j, p)')
                                      /\ Room(p)' = Room(p)
  BY <1>2, <1>9, <1>10, <1>12, BufferStays
<1>16. Buffers'
  BY <1>13, <1>14, <1>15, <1>2 DEF Buffers
<1>17. Apart'
  BY <1>13, <1>15, <1>12 DEF IInv, Apart, Plabs
<1>. QED  BY <1>3, <1>5, <1>6, <1>7, <1>8, <1>12, <1>16, <1>17, AtBuffer
       DEF DirectSend, workVars

\* SizeOf are given to an object that nobody has.
LEMMA GiveWords ==
  ASSUME IInv, NEW c \in Cmds, NEW W \in SUBSET Nat, placed' = [placed EXCEPT ![c] = W],
         heapNext' \in Nat, heapNext' >= heapNext, \A w \in W : w < heapNext',
         \A d \in Cmds : W \cap placed[d] = {},
         \A p \in Plabs : Room(p)' \cap W = {} /\ \A d \in Cmds : Room(p)' \cap placed[d] = {},
         Room(0)' \cap Room(1)' = {}
  PROVE  Apart'
<1>1. placed \in [Cmds -> SUBSET Nat] /\ heapNext \in Nat /\ Apart
  BY DEF IInv, Typed
<1>2. \A d \in Cmds : placed'[d] = IF d = c THEN W ELSE placed[d]
  BY <1>1
<1>3. \A d \in Cmds : \A w \in placed'[d] : w < heapNext'
  <2>1. \A d \in Cmds : \A w \in placed[d] : w \in Nat /\ w < heapNext
    BY <1>1 DEF Apart
  <2>. QED  BY <1>1, <1>2, <2>1
<1>4. \A d \in Cmds : \A p \in Plabs : Room(p)' \cap placed'[d] = {}
  BY <1>2
<1>5. \A d \in Cmds : \A e \in Cmds \ {d} : placed'[d] \cap placed'[e] = {}
  BY <1>1, <1>2 DEF Apart
<1>. QED  BY <1>3, <1>4, <1>5 DEF Apart

\* DirectDone: what was promised is given, the room is smaller by it.
LEMMA DirectDoneKeeps ==
  ASSUME IInv, NEW i \in SurvSlots, DirectDone(i)
  PROVE  IInv' /\ slot'[Other(i)] = slot[Other(i)] /\ UNCHANGED donePending
         /\ slotValid(i) /\ slotValid(i)' /\ slot'[i].owner = slot[i].owner
         /\ ~slot[i].forwardDecided /\ ~slot'[i].forwardDecided
<1>0. /\ slot \in [SurvSlots -> SlotType] /\ slot[i] \in SlotType /\ Stands(i)
      /\ Other(i) \in SurvSlots /\ Other(i) # i /\ Typed
  BY SlotKnown DEF IInv
<1>a. PICK q \in Plabs : q = Idx(i)
  BY BufferKnown
<1>1. slot' = [slot EXCEPT ![i] = [slot[i] EXCEPT !.pc = "DECIDE_FORWARD_PTR", !.issued = FALSE]]
  BY <1>0 DEF DirectDone
<1>2. SizeOf(i) \in Nat /\ heapNext \in Nat /\ memTop[q] \in Nat /\ slot[i].dest \in Nat
      /\ plabTop[q] \in Nat /\ plabEnd[q] \in Nat /\ memEnd[q] \in Nat
      /\ InBounds(q) /\ InStep(q) /\ Bumped(i, q)
  BY BufferKnown
<1>3. slot' \in [SurvSlots -> SlotType] /\ slot'[Other(i)] = slot[Other(i)]
  BY <1>0, <1>1 DEF SlotType, States
<1>4. At(i, "PLAB_SELECT") /\ plabOpOwner[q] = i /\ slot[i].issued /\ Direct(i) /\ DirectOn(i, q)
  BY <1>0, <1>a, GrantFree DEF DirectDone, DirectAlloc, Direct, DirectOn, Stands, ownsPlab
<1>5. /\ plabOpOwner' \in [Plabs -> SurvSlots \cup {None}]
      /\ \A p \in Plabs : plabOpOwner[p] = Other(i) => plabOpOwner'[p] = Other(i)
  BY LockGiven DEF DirectDone
<1>6. /\ plabValid[q] /\ slot[i].dest = plabTop[q] /\ memTop[q] = plabTop[q] + SizeOf(i)
      /\ plabEnd[q] = memEnd[q] /\ plabTop[q] >= 1
  BY <1>2, <1>4 DEF Bumped, InStep, InBounds, Base
<1>7. PICK c \in Cmds : c = slot[i].cmd
  BY <1>0, <1>4 DEF Stands, slotValid, At, SlotType
<1>8. PICK W \in SUBSET Nat : W = plabTop[q] .. (plabTop[q] + SizeOf(i) - 1)
  BY <1>2
<1>9. placed' = [placed EXCEPT ![c] = W] /\ plabTop' = [plabTop EXCEPT ![q] = plabTop[q] + SizeOf(i)]
      /\ UNCHANGED <<plabValid, plabEnd, plabBufferValid, plabRefillBusy, memTop, memEnd, heapNext,
                     donePending, allocOwner>>
  BY <1>0, <1>a, <1>6, <1>7, <1>8 DEF DirectDone, PlaceOf, memVars, eventVars, workVars, Typed
<1>10. Typed'
  <2>1. plabTop' \in [Plabs -> Nat] /\ placed' \in [Cmds -> SUBSET Nat]
    BY <1>0, <1>2, <1>8, <1>9 DEF Typed
  <2>. QED  BY <1>0, <1>3, <1>5, <1>9, <2>1 DEF Typed, DirectDone, workVars, eventVars
<1>11. /\ slotValid(i) /\ slotValid(i)' /\ slot'[i].owner = slot[i].owner
       /\ ~slot[i].forwardDecided /\ ~slot'[i].forwardDecided /\ ~Direct(i)'
  BY <1>0, <1>1, <1>4 DEF slotValid, At, Stands, Late, Direct, SlotType
<1>12. slot[i].dest \in 1 .. HeapWords
  BY <1>0, <1>2, <1>4, <1>6, BuffersAssumption DEF InBounds, Stands, slotValid, At
<1>13. Stands(i)'
  BY <1>0, <1>1, <1>4, <1>9, <1>12 DEF Stands, slotValid, At, SizeOf, Direct,
     Refilling, Allocating, Late, Placed, SlotType
<1>14. \A j \in SurvSlots : j # i =>
        /\ ~DirectOn(j, q) /\ ~DirectOn(j, q)' /\ slot'[j] = slot[j]
        /\ \A p \in Plabs : DirectOn(j, p)' <=> DirectOn(j, p)
  BY <1>3, <1>4, OthersElsewhere
<1>15. \A p \in Plabs : p # q => ~DirectOn(i, p)
  BY <1>a DEF DirectOn
<1>16. \A p \in Plabs : ~DirectOn(i, p)'
  BY <1>11 DEF DirectOn
<1>17. Room(q) = plabTop[q] .. (memEnd[q] - 1)
       /\ Room(q)' = (plabTop[q] + SizeOf(i)) .. (memEnd[q] - 1)
  BY <1>0, <1>6, <1>9 DEF Room, Base, Typed
<1>18. InBounds(q)' /\ InStep(q)'
  BY <1>0, <1>2, <1>6, <1>9 DEF InBounds, InStep, Base, Typed
<1>19. \A j \in SurvSlots : Bumped(j, q)'
  BY <1>14, <1>16 DEF Bumped
<1>20. \A p \in Plabs : p # q => InBounds(p)' /\ InStep(p)' /\ (\A j \in SurvSlots : Bumped(j, p)')
                                 /\ Room(p)' = Room(p)
  <2>. SUFFICES ASSUME NEW p \in Plabs, p # q
                PROVE  InBounds(p)' /\ InStep(p)' /\ (\A j \in SurvSlots : Bumped(j, p)')
                       /\ Room(p)' = Room(p)
    OBVIOUS
  <2>1. plabTop'[p] = plabTop[p]
    BY <1>0, <1>9 DEF Typed
  <2>. QED  BY <2>1, <1>2, <1>9, <1>14, <1>15, <1>16, BufferStays
<1>21. Buffers'
  BY <1>18, <1>19, <1>20 DEF Buffers
<1>22. W \subseteq Room(q) /\ Room(q)' \subseteq Room(q) /\ Room(q)' \cap W = {}
       /\ \A w \in W : w < heapNext
  BY <1>2, <1>6, <1>8, <1>17 DEF InBounds
<1>23. Apart'
  <2>1. Apart
    BY DEF IInv
  <2>2. \A p \in Plabs : Room(p)' \subseteq Room(p) /\ Room(p)' \cap W = {}
    BY <1>20, <1>22, <2>1 DEF Apart, Plabs
  <2>3. Room(0)' \cap Room(1)' = {} /\ \A d \in Cmds : W \cap placed[d] = {}
    BY <1>22, <2>1, <2>2 DEF Apart, Plabs
  <2>4. \A p \in Plabs, d \in Cmds : Room(p)' \cap placed[d] = {}
    BY <2>1, <2>2 DEF Apart
  <2>5. heapNext' = heapNext /\ heapNext' \in Nat /\ heapNext' >= heapNext
        /\ \A w \in W : w < heapNext'
    BY <1>2, <1>9, <1>22
  <2>. QED  BY <1>9, <2>2, <2>3, <2>4, <2>5, GiveWords
<1>. QED  BY <1>3, <1>5, <1>9, <1>10, <1>11, <1>13, <1>21, <1>23, AtBuffer

\* ReadPlabTopEnd: nobody bumps the top meanwhile, so a valid copy stays as it
\* is and a void one gets what memory holds.
LEMMA ReadPlabTopEndKeeps ==
  ASSUME IInv, NEW i \in SurvSlots, ReadPlabTopEnd(i) PROVE IInv'
         /\ slot'[Other(i)] = slot[Other(i)] /\ UNCHANGED donePending
         /\ slotValid(i) /\ slotValid(i)' /\ slot'[i].owner = slot[i].owner
         /\ ~slot[i].forwardDecided /\ ~slot'[i].forwardDecided
<1>0. /\ slot \in [SurvSlots -> SlotType] /\ slot[i] \in SlotType /\ Stands(i)
      /\ Other(i) \in SurvSlots /\ Other(i) # i /\ Typed
  BY SlotKnown DEF IInv
<1>a. PICK q \in Plabs : q = Idx(i)
  BY BufferKnown
<1>1. slot' = [slot EXCEPT ![i] = [slot[i] EXCEPT !.pc = "PLAB_SELECT"]]
  BY <1>0 DEF ReadPlabTopEnd, GotoState
<1>2. heapNext \in Nat /\ memTop[q] \in Nat /\ memEnd[q] \in Nat /\ InBounds(q) /\ InStep(q)
  BY BufferKnown
<1>3. slot' \in [SurvSlots -> SlotType] /\ slot'[Other(i)] = slot[Other(i)]
  BY <1>0, <1>1 DEF SlotType, States
<1>4. At(i, "READ_PLAB_TOPEND") /\ plabOpOwner[q] = i /\ ~slot[i].issued
  BY <1>0, <1>a DEF ReadPlabTopEnd, Stands, Refilling, ownsPlab, At
<1>5. /\ plabOpOwner' \in [Plabs -> SurvSlots \cup {None}]
      /\ \A p \in Plabs : plabOpOwner[p] = Other(i) => plabOpOwner'[p] = Other(i)
  BY LockGiven DEF ReadPlabTopEnd
<1>6. /\ plabTop' = [plabTop EXCEPT ![q] = memTop[q]]
           /\ plabEnd' = [plabEnd EXCEPT ![q] = memEnd[q]]
      /\ plabValid' = [plabValid EXCEPT ![q] = TRUE]
      /\ plabRefillBusy' = [plabRefillBusy EXCEPT ![q] = FALSE]
      /\ UNCHANGED <<memTop, memEnd, heapNext, placed, donePending, allocOwner>>
  BY <1>a DEF ReadPlabTopEnd, memVars, eventVars, workVars, envVars
<1>7. Typed'
  BY <1>0, <1>2, <1>3, <1>5, <1>6 DEF Typed, ReadPlabTopEnd, workVars, eventVars, envVars
<1>8. /\ slotValid(i) /\ slotValid(i)' /\ slot'[i].owner = slot[i].owner
      /\ ~slot[i].forwardDecided /\ ~slot'[i].forwardDecided /\ ~Direct(i)' /\ ~Direct(i)
  BY <1>0, <1>1, <1>4 DEF slotValid, At, Stands, Late, Direct, SlotType
<1>9. Stands(i)'
  BY <1>0, <1>1, <1>4, <1>6 DEF Stands, slotValid, At, SizeOf, Direct,
     Refilling, Allocating, Late, Placed, SlotType
<1>10. \A j \in SurvSlots : j # i =>
        /\ ~DirectOn(j, q) /\ ~DirectOn(j, q)' /\ slot'[j] = slot[j]
        /\ \A p \in Plabs : DirectOn(j, p)' <=> DirectOn(j, p)
  BY <1>3, <1>4, OthersElsewhere
<1>11. \A p \in Plabs : ~DirectOn(i, p) /\ ~DirectOn(i, p)'
  BY <1>8 DEF DirectOn
<1>12. Base(q) = memTop[q] /\ Base(q)' = memTop[q]
  BY <1>0, <1>2, <1>6, <1>10, <1>11 DEF Base, InStep, Typed
<1>13. InBounds(q)' /\ InStep(q)' /\ (\A j \in SurvSlots : Bumped(j, q)') /\ Room(q)' = Room(q)
  BY <1>0, <1>2, <1>6, <1>10, <1>11, <1>12 DEF InBounds, InStep, Bumped, Room, Typed
<1>14. \A p \in Plabs : p # q => InBounds(p)' /\ InStep(p)' /\ (\A j \in SurvSlots : Bumped(j, p)')
                                 /\ Room(p)' = Room(p)
  <2>. SUFFICES ASSUME NEW p \in Plabs, p # q
                PROVE  InBounds(p)' /\ InStep(p)' /\ (\A j \in SurvSlots : Bumped(j, p)')
                       /\ Room(p)' = Room(p)
    OBVIOUS
  <2>1. plabTop'[p] = plabTop[p] /\ plabEnd'[p] = plabEnd[p] /\ plabValid'[p] = plabValid[p]
    BY <1>0, <1>6 DEF Typed
  <2>2. \A j \in SurvSlots : /\ DirectOn(j, p)' <=> DirectOn(j, p)
                             /\ DirectOn(j, p) => /\ slot'[j].dest = slot[j].dest
                                                  /\ slot'[j].size = slot[j].size
    BY <1>10, <1>11
  <2>3. UNCHANGED <<memTop, memEnd, heapNext>> /\ heapNext' >= heapNext
    BY <1>2, <1>6
  <2>. QED  BY <2>1, <2>2, <2>3, <1>2, BufferStays
<1>15. Buffers' /\ Apart'
  BY <1>6, <1>13, <1>14 DEF Buffers, IInv, Apart, Plabs
<1>16. \A p \in Plabs : plabOpOwner[p] = Other(i) => plabValid'[p] = plabValid[p]
  BY <1>0, <1>4, <1>6 DEF Typed
<1>. QED  BY <1>3, <1>5, <1>6, <1>7, <1>8, <1>9, <1>15, <1>16, AtBuffer

\* AllocSend: the copy on chip is void from here on, and agreed with memory.
LEMMA AllocSendKeeps ==
  ASSUME IInv, NEW i \in SurvSlots, AllocSend(i)
  PROVE  IInv' /\ slot'[Other(i)] = slot[Other(i)] /\ UNCHANGED donePending
         /\ slotValid(i) /\ slotValid(i)' /\ slot'[i].owner = slot[i].owner
         /\ ~slot[i].forwardDecided /\ ~slot'[i].forwardDecided
<1>0. /\ slot \in [SurvSlots -> SlotType] /\ slot[i] \in SlotType /\ Stands(i)
      /\ Other(i) \in SurvSlots /\ Other(i) # i /\ Typed
  BY SlotKnown DEF IInv
<1>a. PICK q \in Plabs : q = Idx(i)
  BY BufferKnown
<1>1. slot' = [slot EXCEPT ![i] = [slot[i] EXCEPT !.pc = "WAIT_ALLOC", !.dest = 0,
        !.plabBuffer = q, !.afterAllocCache = TRUE, !.usingPlabCacheBuffer = FALSE]]
  BY <1>0, <1>a DEF AllocSend
<1>2. heapNext \in Nat /\ memTop[q] \in Nat /\ memEnd[q] \in Nat /\ InBounds(q) /\ InStep(q)
  BY BufferKnown
<1>3. slot' \in [SurvSlots -> SlotType] /\ slot'[Other(i)] = slot[Other(i)]
  BY <1>0, <1>1 DEF SlotType, States
<1>4. At(i, "ALLOC_CACHE") /\ plabOpOwner[q] = i /\ ~slot[i].issued /\ ~slot[i].allocDone
  BY <1>0, <1>a DEF AllocSend, WantsAlloc, Stands, ownsPlab, At
<1>6. /\ plabValid' = [plabValid EXCEPT ![q] = FALSE] /\ allocOwner' = i
      /\ UNCHANGED <<plabTop, plabEnd, plabOpOwner, memTop, memEnd, heapNext, placed, donePending>>
  BY <1>a DEF AllocSend, memVars, eventVars, envVars
<1>7. Typed'
  BY <1>0, <1>3, <1>6 DEF Typed, AllocSend, eventVars, envVars
<1>8. /\ slotValid(i) /\ slotValid(i)' /\ slot'[i].owner = slot[i].owner
      /\ ~slot[i].forwardDecided /\ ~slot'[i].forwardDecided /\ ~Direct(i)' /\ ~Direct(i)
      /\ slot'[i].idx = q
  BY <1>0, <1>a, <1>1, <1>4 DEF slotValid, At, Stands, Late, Direct, Idx, SlotType
<1>9. Stands(i)'
  BY <1>0, <1>1, <1>4, <1>6, <1>8 DEF Stands, slotValid, At, SizeOf, Direct,
     Refilling, Allocating, Late, Placed, SlotType, ownsPlab, Idx, Typed
<1>10. \A j \in SurvSlots : j # i =>
        /\ ~DirectOn(j, q) /\ ~DirectOn(j, q)' /\ slot'[j] = slot[j]
        /\ \A p \in Plabs : DirectOn(j, p)' <=> DirectOn(j, p)
  BY <1>3, <1>4, OthersElsewhere
<1>11. \A p \in Plabs : ~DirectOn(i, p) /\ ~DirectOn(i, p)'
  BY <1>8 DEF DirectOn
<1>12. Base(q) = memTop[q] /\ Base(q)' = memTop[q]
  BY <1>0, <1>2, <1>6, <1>10, <1>11 DEF Base, InStep, Typed
<1>13. InBounds(q)' /\ InStep(q)' /\ (\A j \in SurvSlots : Bumped(j, q)') /\ Room(q)' = Room(q)
  BY <1>0, <1>2, <1>6, <1>10, <1>11, <1>12 DEF InBounds, InStep, Bumped, Room, Typed
<1>14. \A p \in Plabs : p # q => InBounds(p)' /\ InStep(p)' /\ (\A j \in SurvSlots : Bumped(j, p)')
                                 /\ Room(p)' = Room(p)
  <2>. SUFFICES ASSUME NEW p \in Plabs, p # q
                PROVE  InBounds(p)' /\ InStep(p)' /\ (\A j \in SurvSlots : Bumped(j, p)')
                       /\ Room(p)' = Room(p)
    OBVIOUS
  <2>1. plabValid'[p] = plabValid[p]
    BY <1>0, <1>6 DEF Typed
  <2>2. \A j \in SurvSlots : /\ DirectOn(j, p)' <=> DirectOn(j, p)
                             /\ DirectOn(j, p) => /\ slot'[j].dest = slot[j].dest
                                                  /\ slot'[j].size = slot[j].size
    BY <1>10, <1>11
  <2>3. UNCHANGED <<plabTop, plabEnd, memTop, memEnd, heapNext>> /\ heapNext' >= heapNext
    BY <1>2, <1>6
  <2>. QED  BY <2>1, <2>2, <2>3, <1>2, BufferStays
<1>15. Buffers' /\ Apart'
  BY <1>6, <1>13, <1>14 DEF Buffers, IInv, Apart, Plabs
<1>16. \A p \in Plabs : plabOpOwner[p] = Other(i) => plabValid'[p] = plabValid[p]
  BY <1>0, <1>4, <1>6 DEF Typed
<1>. QED  BY <1>0, <1>3, <1>6, <1>7, <1>8, <1>9, <1>15, <1>16, AtBuffer

\* GCAllocate answers the slot that waits.
LEMMA AllocAnswers ==
  ASSUME IInv, NEW i \in SurvSlots, allocOwner = i
  PROVE  /\ At(i, "WAIT_ALLOC") /\ ~slot[i].allocDone /\ ~slot[i].issued
         /\ plabOpOwner[Idx(i)] = i /\ ~plabValid[Idx(i)]
         /\ slotValid(i) /\ SizeOf(i) >= 1 /\ slot[i].cmd \in Cmds /\ ~slot[i].forwardDecided
<1>1. Stands(i) /\ slot[i] \in SlotType
  BY SlotKnown
<1>. QED  BY <1>1 DEF Stands, At, Allocating, ownsPlab, slotValid, SlotType, Late

\* What an answer does to the slot.
LEMMA AnsweredSlot ==
  ASSUME IInv, NEW i \in SurvSlots, allocOwner = i, NEW word \in 0 .. HeapWords, Answered(i, word),
         UNCHANGED <<plabOpOwner, plabValid>>
  PROVE  /\ slot' \in [SurvSlots -> SlotType] /\ slot'[Other(i)] = slot[Other(i)]
         /\ slot'[i].owner = slot[i].owner /\ slot'[i].idx = Idx(i) /\ slot'[i].size = SizeOf(i)
         /\ slotValid(i)' /\ ~slot'[i].forwardDecided /\ ~Direct(i) /\ ~Direct(i)'
         /\ Stands(i)'
<1>0. /\ slot \in [SurvSlots -> SlotType] /\ slot[i] \in SlotType /\ Stands(i)
      /\ Other(i) \in SurvSlots /\ Other(i) # i
      /\ At(i, "WAIT_ALLOC") /\ ~slot[i].allocDone /\ ~slot[i].issued /\ ~slot[i].forwardDecided
  BY SlotKnown, AllocAnswers
<1>1. slot' = [slot EXCEPT ![i] = [slot[i] EXCEPT !.allocDone = TRUE, !.dest = word]]
  BY <1>0 DEF Answered
<1>b. word \in Nat /\ word <= HeapWords /\ allocOwner' = None
  BY BuffersAssumption DEF Answered
<1>2. slot' \in [SurvSlots -> SlotType] /\ slot'[Other(i)] = slot[Other(i)]
  BY <1>0, <1>1, <1>b DEF SlotType
<1>3. /\ slot'[i].owner = slot[i].owner /\ slot'[i].idx = Idx(i) /\ slot'[i].size = SizeOf(i)
      /\ slotValid(i)' /\ ~slot'[i].forwardDecided /\ ~Direct(i) /\ ~Direct(i)'
  BY <1>0, <1>1 DEF slotValid, At, Direct, Idx, SizeOf, SlotType
<1>4. Stands(i)'
  BY <1>0, <1>1, <1>b, BuffersAssumption DEF Stands, slotValid, At, SizeOf, Direct, SurvSlots,
     Refilling, Allocating, Late, Placed, SlotType, ownsPlab, Idx
<1>. QED  BY <1>2, <1>3, <1>4

\* What an answer leaves alone, whatever it is.
LEMMA AnsweredRest ==
  ASSUME IInv, NEW i \in SurvSlots, allocOwner = i, AllocEnds(i), NEW word \in 0 .. HeapWords,
         Answered(i, word), Buffers', Apart',
         memTop' \in [Plabs -> Nat], memEnd' \in [Plabs -> Nat], heapNext' \in Nat
  PROVE  /\ IInv' /\ slot'[Other(i)] = slot[Other(i)] /\ UNCHANGED donePending
         /\ slotValid(i) /\ slotValid(i)' /\ slot'[i].owner = slot[i].owner
         /\ ~slot[i].forwardDecided /\ ~slot'[i].forwardDecided
<1>1. UNCHANGED <<plabValid, plabTop, plabEnd, plabBufferValid, plabOpOwner, plabRefillBusy,
                  destAttrValid, olderSlot, copyOwner, traceOwner, typeArrayPending, donePending,
                  sent, told>>
  BY DEF AllocEnds, plabVars, eventVars
<1>2. /\ slot' \in [SurvSlots -> SlotType] /\ slot'[Other(i)] = slot[Other(i)]
      /\ slot'[i].owner = slot[i].owner
      /\ slotValid(i)' /\ ~slot'[i].forwardDecided /\ Stands(i)'
  BY <1>1, AnsweredSlot
<1>3. slotValid(i) /\ ~slot[i].forwardDecided /\ slot[i].cmd \in Cmds
  BY AllocAnswers
<1>4. Typed
  BY DEF IInv
<1>5. (IF word = 0 THEN {} ELSE PlaceOf(i, word)) \in SUBSET Nat
  BY BuffersAssumption, BufferKnown DEF PlaceOf
<1>6. placed' \in [Cmds -> SUBSET Nat] /\ allocOwner' = None
  BY <1>3, <1>4, <1>5 DEF Typed, Answered
<1>7. Typed'
  BY <1>1, <1>2, <1>4, <1>6 DEF Typed
<1>8. allocOwner' # Other(i)
  BY <1>6, OtherSlot, BuffersAssumption DEF SurvSlots
<1>. QED  BY <1>1, <1>2, <1>3, <1>7, <1>8, AtBuffer

\* Nobody bumps the top of the buffer whose replacement is under way.
LEMMA NobodyBumps ==
  ASSUME IInv, NEW i \in SurvSlots, allocOwner = i, NEW q \in Plabs, q = Idx(i),
         slot'[Other(i)] = slot[Other(i)], ~Direct(i)'
  PROVE  /\ \A j \in SurvSlots : ~DirectOn(j, q) /\ ~DirectOn(j, q)'
         /\ \A j \in SurvSlots, p \in Plabs :
              /\ DirectOn(j, p)' <=> DirectOn(j, p)
              /\ DirectOn(j, p) => slot'[j].dest = slot[j].dest /\ slot'[j].size = slot[j].size
<1>1. plabOpOwner[q] = i /\ ~Direct(i)
  BY AllocAnswers DEF Direct
<1>2. \A j \in SurvSlots : j # i =>
        /\ ~DirectOn(j, q) /\ ~DirectOn(j, q)' /\ slot'[j] = slot[j]
        /\ \A p \in Plabs : DirectOn(j, p)' <=> DirectOn(j, p)
  BY <1>1, OthersElsewhere
<1>3. \A p \in Plabs : ~DirectOn(i, p) /\ ~DirectOn(i, p)'
  BY <1>1 DEF DirectOn
<1>. QED  BY <1>2, <1>3

\* A new buffer, the object at its beginning.
LEMMA NewBufferKeeps ==
  ASSUME IInv, NEW i \in SurvSlots, AllocEnds(i), NewBuffer(i)
  PROVE  /\ IInv' /\ slot'[Other(i)] = slot[Other(i)] /\ UNCHANGED donePending
         /\ slotValid(i) /\ slotValid(i)' /\ slot'[i].owner = slot[i].owner
         /\ ~slot[i].forwardDecided /\ ~slot'[i].forwardDecided
<1>0. allocOwner = i /\ Answered(i, heapNext) /\ UNCHANGED <<plabValid, plabTop, plabEnd,
        plabOpOwner>>
  BY DEF AllocEnds, NewBuffer, plabVars
<1>a. PICK q \in Plabs : q = Idx(i)
  BY BufferKnown
<1>b. PICK n \in Nat : n = SizeOf(i)
  BY BufferKnown
<1>1. /\ heapNext \in Nat /\ heapNext >= 1 /\ n >= 1 /\ ~plabValid[q] /\ n <= BufferWords
      /\ BufferWords \in Nat /\ HeapWords \in Nat /\ heapNext + BufferWords <= HeapWords + 1
  <2>1. n >= 1 /\ ~plabValid[q]
    BY <1>0, <1>a, <1>b, AllocAnswers
  <2>2. InBounds(q) /\ heapNext \in Nat /\ memTop[q] \in Nat /\ memEnd[q] \in Nat
    BY BufferKnown
  <2>3. heapNext >= 1
    BY <2>1, <2>2 DEF InBounds, Base
  <2>. QED  BY <1>b, <2>1, <2>2, <2>3, BuffersAssumption DEF NewBuffer
<1>2. heapNext \in 0 .. HeapWords
  BY <1>1
<1>3. /\ slot'[Other(i)] = slot[Other(i)] /\ ~Direct(i)'
  BY <1>0, <1>2, AnsweredSlot
<1>4. memTop' = [memTop EXCEPT ![q] = heapNext + n] /\ heapNext' = heapNext + BufferWords
      /\ memEnd' = [memEnd EXCEPT ![q] = heapNext + BufferWords]
  BY <1>a, <1>b DEF NewBuffer
<1>5. PICK c \in Cmds : c = slot[i].cmd
  BY <1>0, AllocAnswers
<1>6. PICK W \in SUBSET Nat : W = heapNext .. (heapNext + n - 1)
  BY <1>1
<1>7. placed' = [placed EXCEPT ![c] = W]
  <2>1. PlaceOf(i, heapNext) = W /\ heapNext # 0
    BY <1>1, <1>b, <1>6 DEF PlaceOf
  <2>. QED  BY <1>0, <1>5, <2>1 DEF Answered
<1>8. /\ \A j \in SurvSlots : ~DirectOn(j, q) /\ ~DirectOn(j, q)'
      /\ \A j \in SurvSlots, p \in Plabs :
              /\ DirectOn(j, p)' <=> DirectOn(j, p)
              /\ DirectOn(j, p) => slot'[j].dest = slot[j].dest /\ slot'[j].size = slot[j].size
  BY <1>0, <1>a, <1>3, NobodyBumps
<1>9. /\ memTop \in [Plabs -> Nat] /\ memEnd \in [Plabs -> Nat]
      /\ memTop' \in [Plabs -> Nat] /\ memEnd' \in [Plabs -> Nat] /\ heapNext' \in Nat
      /\ memTop'[q] = heapNext + n /\ memEnd'[q] = heapNext + BufferWords
  BY <1>1, <1>4 DEF IInv, Typed
<1>10. InBounds(q)' /\ InStep(q)' /\ (\A j \in SurvSlots : Bumped(j, q)')
       /\ Room(q)' = (heapNext + n) .. (heapNext + BufferWords - 1)
  BY <1>0, <1>1, <1>4, <1>8, <1>9 DEF InBounds, InStep, Bumped, Room, Base
<1>11. \A p \in Plabs : p # q => InBounds(p)' /\ InStep(p)' /\ (\A j \in SurvSlots : Bumped(j, p)')
                                 /\ Room(p)' = Room(p)
  <2>. SUFFICES ASSUME NEW p \in Plabs, p # q
                PROVE  InBounds(p)' /\ InStep(p)' /\ (\A j \in SurvSlots : Bumped(j, p)')
                       /\ Room(p)' = Room(p)
    OBVIOUS
  <2>1. memTop'[p] = memTop[p] /\ memEnd'[p] = memEnd[p]
    BY <1>4, <1>9
  <2>2. heapNext' >= heapNext
    BY <1>1, <1>4
  <2>. QED  BY <2>1, <2>2, <1>0, <1>8, <1>9, BufferStays
<1>12. Buffers'
  BY <1>10, <1>11 DEF Buffers
<1>13. \A p \in Plabs : \A w \in Room(p) : w \in Nat /\ w < heapNext
  <2>. SUFFICES ASSUME NEW p \in Plabs, NEW w \in Room(p) PROVE w \in Nat /\ w < heapNext
    OBVIOUS
  <2>1. InBounds(p) /\ memEnd[p] \in Nat /\ Base(p) \in Nat
    BY BufferKnown DEF Base
  <2>. QED  BY <1>1, <2>1 DEF InBounds, Room
<1>14. \A d \in Cmds : \A w \in placed[d] : w \in Nat /\ w < heapNext
  BY DEF IInv, Typed, Apart
<1>15. Apart'
  <2>1. \A d \in Cmds : W \cap placed[d] = {} /\ Room(q)' \cap placed[d] = {}
    BY <1>1, <1>6, <1>10, <1>14
  <2>2. W \cap Room(q)' = {} /\ \A w \in W : w < heapNext'
    BY <1>1, <1>4, <1>6, <1>10
  <2>3. \A p \in Plabs : p # q => Room(p)' \cap W = {} /\ Room(p)' \cap Room(q)' = {}
    BY <1>1, <1>6, <1>10, <1>11, <1>13
  <2>4. \A p \in Plabs, d \in Cmds : p # q => Room(p)' \cap placed[d] = {}
    BY <1>11 DEF IInv, Apart
  <2>5. Room(0)' \cap Room(1)' = {}
    BY <2>3 DEF Plabs
  <2>6. heapNext' >= heapNext
    BY <1>1, <1>4
  <2>. QED  BY <1>7, <1>9, <2>1, <2>2, <2>3, <2>4, <2>5, <2>6, GiveWords
<1>. QED  BY <1>0, <1>2, <1>9, <1>12, <1>15, AnsweredRest

\* A place outside of the buffer, which stays.
LEMMA OutsideBufferKeeps ==
  ASSUME IInv, NEW i \in SurvSlots, AllocEnds(i), OutsideBuffer(i)
  PROVE  /\ IInv' /\ slot'[Other(i)] = slot[Other(i)] /\ UNCHANGED donePending
         /\ slotValid(i) /\ slotValid(i)' /\ slot'[i].owner = slot[i].owner
         /\ ~slot[i].forwardDecided /\ ~slot'[i].forwardDecided
<1>0. /\ allocOwner = i /\ Answered(i, heapNext)
      /\ UNCHANGED <<plabValid, plabTop, plabEnd, plabOpOwner, memTop, memEnd>>
  BY DEF AllocEnds, OutsideBuffer, plabVars
<1>a. PICK q \in Plabs : q = Idx(i)
  BY BufferKnown
<1>b. PICK n \in Nat : n = SizeOf(i)
  BY BufferKnown
<1>1. /\ heapNext \in Nat /\ heapNext >= 1 /\ n >= 1
      /\ HeapWords \in Nat /\ heapNext + n <= HeapWords + 1
  <2>1. n >= 1 /\ ~plabValid[q]
    BY <1>0, <1>a, <1>b, AllocAnswers
  <2>2. InBounds(q) /\ heapNext \in Nat /\ memTop[q] \in Nat /\ memEnd[q] \in Nat
    BY BufferKnown
  <2>3. heapNext >= 1
    BY <2>1, <2>2 DEF InBounds, Base
  <2>. QED  BY <1>b, <2>1, <2>2, <2>3, BuffersAssumption DEF OutsideBuffer
<1>2. heapNext \in 0 .. HeapWords /\ heapNext' = heapNext + n /\ heapNext' \in Nat
      /\ heapNext' >= heapNext
  BY <1>1, <1>b DEF OutsideBuffer
<1>3. /\ slot'[Other(i)] = slot[Other(i)] /\ ~Direct(i)'
  BY <1>0, <1>2, AnsweredSlot
<1>5. PICK c \in Cmds : c = slot[i].cmd
  BY <1>0, AllocAnswers
<1>6. PICK W \in SUBSET Nat : W = heapNext .. (heapNext + n - 1)
  BY <1>1
<1>7. placed' = [placed EXCEPT ![c] = W]
  <2>1. PlaceOf(i, heapNext) = W /\ heapNext # 0
    BY <1>1, <1>b, <1>6 DEF PlaceOf
  <2>. QED  BY <1>0, <1>5, <2>1 DEF Answered
<1>8. \A j \in SurvSlots, p \in Plabs :
        /\ DirectOn(j, p)' <=> DirectOn(j, p)
        /\ DirectOn(j, p) => slot'[j].dest = slot[j].dest /\ slot'[j].size = slot[j].size
  BY <1>0, <1>a, <1>3, NobodyBumps
<1>11. \A p \in Plabs : InBounds(p)' /\ InStep(p)' /\ (\A j \in SurvSlots : Bumped(j, p)')
                        /\ Room(p)' = Room(p)
  BY <1>0, <1>2, <1>8, BufferStays
<1>12. Buffers'
  BY <1>11 DEF Buffers
<1>13. \A p \in Plabs : \A w \in Room(p) : w \in Nat /\ w < heapNext
  <2>. SUFFICES ASSUME NEW p \in Plabs, NEW w \in Room(p) PROVE w \in Nat /\ w < heapNext
    OBVIOUS
  <2>1. InBounds(p) /\ memEnd[p] \in Nat /\ Base(p) \in Nat
    BY BufferKnown DEF Base
  <2>. QED  BY <1>1, <2>1 DEF InBounds, Room
<1>14. \A d \in Cmds : \A w \in placed[d] : w \in Nat /\ w < heapNext
  BY DEF IInv, Typed, Apart
<1>15. Apart'
  <2>1. \A d \in Cmds : W \cap placed[d] = {}
    BY <1>1, <1>6, <1>14
  <2>2. \A w \in W : w < heapNext'
    BY <1>1, <1>2, <1>6
  <2>3. \A p \in Plabs : Room(p)' \cap W = {}
    BY <1>1, <1>6, <1>11, <1>13
  <2>4. \A p \in Plabs, d \in Cmds : Room(p)' \cap placed[d] = {}
    BY <1>11 DEF IInv, Apart
  <2>5. Room(0)' \cap Room(1)' = {}
    BY <1>11 DEF Plabs, IInv, Apart
  <2>. QED  BY <1>2, <1>7, <2>1, <2>2, <2>3, <2>4, <2>5, GiveWords
<1>. QED  BY <1>0, <1>2, <1>12, <1>15, AnsweredRest DEF IInv, Typed

\* No place among the young regions.
LEMMA NoPlaceKeeps ==
  ASSUME IInv, NEW i \in SurvSlots, AllocEnds(i), NoPlace(i)
  PROVE  /\ IInv' /\ slot'[Other(i)] = slot[Other(i)] /\ UNCHANGED donePending
         /\ slotValid(i) /\ slotValid(i)' /\ slot'[i].owner = slot[i].owner
         /\ ~slot[i].forwardDecided /\ ~slot'[i].forwardDecided
<1>0. /\ allocOwner = i /\ Answered(i, 0) /\ 0 \in 0 .. HeapWords
      /\ UNCHANGED <<plabValid, plabTop, plabEnd, plabOpOwner, memTop, memEnd, heapNext>>
  BY BuffersAssumption DEF AllocEnds, NoPlace, plabVars, memVars
<1>a. PICK q \in Plabs : q = Idx(i)
  BY BufferKnown
<1>1. heapNext \in Nat
  BY BufferKnown
<1>3. /\ slot'[Other(i)] = slot[Other(i)] /\ ~Direct(i)'
  BY <1>0, AnsweredSlot
<1>5. PICK c \in Cmds : c = slot[i].cmd
  BY <1>0, AllocAnswers
<1>7. placed' = [placed EXCEPT ![c] = {}]
  BY <1>0, <1>5 DEF Answered
<1>8. \A j \in SurvSlots, p \in Plabs :
        /\ DirectOn(j, p)' <=> DirectOn(j, p)
        /\ DirectOn(j, p) => slot'[j].dest = slot[j].dest /\ slot'[j].size = slot[j].size
  BY <1>0, <1>a, <1>3, NobodyBumps
<1>11. \A p \in Plabs : InBounds(p)' /\ InStep(p)' /\ (\A j \in SurvSlots : Bumped(j, p)')
                        /\ Room(p)' = Room(p)
  BY <1>0, <1>1, <1>8, BufferStays
<1>12. Buffers'
  BY <1>11 DEF Buffers
<1>15. Apart'
  <2>4. \A p \in Plabs, d \in Cmds : Room(p)' \cap placed[d] = {}
    BY <1>11 DEF IInv, Apart
  <2>5. Room(0)' \cap Room(1)' = {}
    BY <1>11 DEF Plabs, IInv, Apart
  <2>6. {} \in SUBSET Nat /\ heapNext' \in Nat /\ heapNext' >= heapNext
        /\ \A w \in {} : w < heapNext'
    BY <1>0, <1>1
  <2>7. \A d \in Cmds : {} \cap placed[d] = {}
    OBVIOUS
  <2>8. \A p \in Plabs : Room(p)' \cap {} = {} /\ \A d \in Cmds : Room(p)' \cap placed[d] = {}
    BY <2>4
  <2>. QED  BY <1>7, <2>5, <2>6, <2>7, <2>8, GiveWords
<1>. QED  BY <1>0, <1>12, <1>15, AnsweredRest DEF IInv, Typed

-----------------------------------------------------------------------------
(* MaxObjects come and go.                                                      *)

\* An empty slot, and one that has just taken an object.
LEMMA NoSlot ==
  /\ EmptySlot \in SlotType /\ EmptySlot.pc = "IDLE" /\ EmptySlot.cmd = None
  /\ ~EmptySlot.issued /\ ~EmptySlot.allocDone /\ ~EmptySlot.forwardDecided
BY DEF EmptySlot, SlotType, States, Owners, Plabs

LEMMA NewSlot ==
  ASSUME NEW c \in Cmds, NEW o \in Owners, NEW n \in ObjSizes
  PROVE  /\ Alloc(c, o, n) \in SlotType /\ Alloc(c, o, n).pc = "READ_KLASS"
         /\ Alloc(c, o, n).cmd = c /\ Alloc(c, o, n).owner = o /\ Alloc(c, o, n).size = n
         /\ ~Alloc(c, o, n).issued /\ ~Alloc(c, o, n).allocDone /\ ~Alloc(c, o, n).forwardDecided
         /\ c # None /\ n >= 1 /\ n \in Nat
<1>1. n \in Nat /\ n >= 1 /\ c \in Nat /\ None \notin Nat
  BY BuffersAssumption DEF Cmds
<1>2. Alloc(c, o, n) = [EmptySlot EXCEPT !.pc = "READ_KLASS", !.cmd = c, !.owner = o, !.size = n]
  BY DEF Alloc
<1>. QED  BY <1>1, <1>2, NoSlot, ZenonT(30) DEF SlotType, States

\* Both stand.
LEMMA NewStands ==
  ASSUME NEW i \in SurvSlots, NEW c \in Cmds, NEW o \in Owners, NEW n \in ObjSizes,
         slot'[i] = Alloc(c, o, n), allocOwner' # i
  PROVE  Stands(i)'
BY NewSlot DEF Stands, slotValid, At, SizeOf, Direct, Refilling, Allocating, Late, Placed

LEMMA EmptyStands ==
  ASSUME NEW i \in SurvSlots, slot'[i] = EmptySlot, allocOwner' # i
  PROVE  Stands(i)'
BY NoSlot DEF Stands, slotValid, At, SizeOf, Direct, Refilling, Allocating, Late, Placed

\* What is in a slot that is not valid, or about to end.
LEMMA NotAtWork ==
  ASSUME IInv, NEW i \in SurvSlots, slot[i].pc \in {"IDLE", "WAIT_COPY_TRACE"}
  PROVE  /\ allocOwner # i /\ ~Direct(i)
         /\ slot[i].pc = "WAIT_COPY_TRACE" => /\ slotValid(i) /\ slot[i].forwardDecided
                                              /\ slot[i].dest \in 1 .. HeapWords
                                              /\ slot[i].owner \in Owners
<1>1. Stands(i) /\ slot[i] \in SlotType
  BY SlotKnown
<1>. QED  BY <1>1 DEF Stands, At, Direct, Late, slotValid, SlotType

LEMMA AcceptCommandKeeps ==
  ASSUME IInv, NEW c \in Cmds, NEW o \in Owners, AcceptCommand(c, o)
  PROVE  IInv'
<1>1. PICK i \in SurvSlots : ~slotValid(i) /\ \E n \in ObjSizes : slot' = [slot EXCEPT ![i] = Alloc(c, o,
        n)]
                         /\ olderSlot' = IF slotValid(Other(i)) THEN olderSlot ELSE i
  BY DEF AcceptCommand, SurvSlots
<1>2. PICK n \in ObjSizes : slot' = [slot EXCEPT ![i] = Alloc(c, o, n)]
  BY <1>1
<1>3. /\ slot \in [SurvSlots -> SlotType] /\ Other(i) \in SurvSlots /\ Other(i) # i /\ Typed
      /\ slot[i].pc = "IDLE" /\ allocOwner # i /\ ~Direct(i)
  BY <1>1, SlotKnown, NotAtWork DEF IInv, slotValid, At
<1>4. slot' \in [SurvSlots -> SlotType] /\ slot'[Other(i)] = slot[Other(i)]
      /\ slot'[i] = Alloc(c, o, n) /\ slotValid(i)' /\ slot'[i].owner = o /\ ~Direct(i)'
  BY <1>2, <1>3, NewSlot DEF slotValid, At, Direct
<1>5. UNCHANGED <<bufVars, plabVars, destAttrValid, workVars, eventVars, placed>>
  BY DEF AcceptCommand, bufVars, plabVars, memVars
<1>6. Typed'
  <2>1. sent' \in 0 .. MaxObjects /\ told' \in [Owners -> BOOLEAN]
    BY <1>3, BuffersAssumption DEF AcceptCommand, MaySend, Sent, Typed, Cmds
  <2>2. olderSlot' \in SurvSlots
    BY <1>1, <1>3 DEF Typed
  <2>. QED  BY <1>3, <1>4, <1>5, <2>1, <2>2
            DEF Typed, bufVars, plabVars, workVars, eventVars
<1>7. Stands(i)'
  BY <1>3, <1>4, <1>5, NewStands DEF workVars
<1>8. AllStand'
  <2>1. Stands(Other(i))'
    BY <1>3, <1>4, <1>5, OtherStands DEF IInv, SlotType, workVars, plabVars
  <2>. QED  BY <1>7, <2>1, OtherSlot DEF AllStand
<1>9. Buffers' /\ Apart'
  <2>1. \A j \in SurvSlots : /\ Direct(j)' <=> Direct(j)
                             /\ Direct(j) => /\ slot'[j].dest = slot[j].dest
                                             /\ slot'[j].idx = slot[j].idx
                                             /\ slot'[j].size = slot[j].size
    BY <1>3, <1>4, OtherSlot DEF Direct, At
  <2>. QED  BY <1>5, <2>1, BuffersKept, ApartKept DEF IInv
<1>10. Single'
  <2>1. UNCHANGED donePending /\ ~InFlight(o)
    BY <1>5 DEF AcceptCommand, MaySend, eventVars
  <2>2. \A j \in SurvSlots : ~Serves(j, o) /\ ~Answers(j, o)
    BY <2>1 DEF InFlight, Serves, Answers
  <2>3. \A x \in Owners, j \in SurvSlots : Answers(j, x)' <=> Answers(j, x)
    BY <2>1 DEF Answers
  <2>4. \A x \in Owners : /\ Serves(i, x)' <=> x = o
                          /\ Serves(Other(i), x)' <=> Serves(Other(i), x)
    BY <1>4 DEF Serves, slotValid, At
  <2>. QED  BY <2>2, <2>3, <2>4, <1>3, OtherSlot DEF IInv, Single, SurvSlots
<1>11. AnswersRight'
  BY <1>5 DEF IInv, AnswersRight, eventVars
<1>. QED  BY <1>6, <1>8, <1>9, <1>10, <1>11 DEF IInv

\* The end of slot i's work, without what becomes of the slots.
LEMMA WorkDoneGives ==
  ASSUME IInv, NEW i \in SurvSlots, WorkDone(i)
  PROVE  /\ slot[i].pc = "WAIT_COPY_TRACE" /\ slotValid(i) /\ slot[i].owner \in Owners
         /\ slot[i].forwardDecided /\ allocOwner # i /\ ~Direct(i) /\ donePending[i] = None
         /\ donePending' = [donePending EXCEPT ![i] = [owner |-> slot[i].owner,
              dest |-> slot[i].dest]]
         /\ donePending' \in [SurvSlots -> EventType \cup {None}]
         /\ donePending'[i] # None /\ donePending'[i].owner = slot[i].owner
         /\ donePending'[i].dest = slot[i].dest
         /\ donePending'[Other(i)] = donePending[Other(i)]
         /\ AnswersRight'
         /\ plabOpOwner' \in [Plabs -> SurvSlots \cup {None}]
         /\ \A p \in Plabs : plabOpOwner[p] = Other(i) => plabOpOwner'[p] = Other(i)
         /\ UNCHANGED <<bufVars, plabBufferValid, plabRefillBusy, destAttrValid, copyOwner,
              traceOwner,
                        allocOwner, typeArrayPending, placed>>
<1>1. /\ slot[i].pc = "WAIT_COPY_TRACE" /\ slotValid(i) /\ slot[i].owner \in Owners
      /\ slot[i].forwardDecided /\ allocOwner # i /\ ~Direct(i) /\ slot[i].dest \in 1 .. HeapWords
      /\ Other(i) \in SurvSlots /\ Other(i) # i
  BY NotAtWork, OtherSlot DEF WorkDone, At
<1>2. PICK e \in EventType : e = [owner |-> slot[i].owner, dest |-> slot[i].dest]
  <2>1. HeapWords \in Nat
    BY BuffersAssumption
  <2>2. slot[i].dest \in Nat
    BY <1>1, <2>1
  <2>3. [owner |-> slot[i].owner, dest |-> slot[i].dest] \in EventType
    BY <1>1, <2>2 DEF EventType
  <2>. QED  BY <2>3
<1>3. e # None /\ e.owner = slot[i].owner /\ e.dest = slot[i].dest
  BY <1>2, BuffersAssumption DEF EventType, Owners
<1>4. /\ donePending' = [donePending EXCEPT ![i] = e] /\ donePending[i] = None
      /\ plabOpOwner' = [p \in Plabs |-> IF ownsPlab(i, p) THEN None ELSE plabOpOwner[p]]
      /\ UNCHANGED <<bufVars, plabBufferValid, plabRefillBusy, destAttrValid, copyOwner, traceOwner,
                     allocOwner, typeArrayPending, placed>>
  BY <1>2 DEF WorkDone, workVars, memVars, bufVars
<1>5. donePending \in [SurvSlots -> EventType \cup {None}]
      /\ plabOpOwner \in [Plabs -> SurvSlots \cup {None}] /\ AnswersRight
  BY DEF IInv, Typed
<1>6. /\ donePending' \in [SurvSlots -> EventType \cup {None}] /\ donePending'[i] = e
      /\ donePending'[Other(i)] = donePending[Other(i)]
  BY <1>1, <1>4, <1>5
<1>7. plabOpOwner' \in [Plabs -> SurvSlots \cup {None}]
      /\ \A p \in Plabs : plabOpOwner[p] = Other(i) => plabOpOwner'[p] = Other(i)
  BY <1>1, <1>4, <1>5 DEF ownsPlab
<1>8. AnswersRight'
  BY <1>1, <1>3, <1>5, <1>6, OtherSlot DEF AnswersRight
<1>. QED  BY <1>1, <1>2, <1>3, <1>4, <1>6, <1>7, <1>8

\* Its object is now answered where it was served.
LEMMA FinishKeeps ==
  ASSUME IInv, NEW i \in SurvSlots, FinishSlot(i)
  PROVE  IInv'
<1>1. /\ slot[i].pc = "WAIT_COPY_TRACE" /\ slotValid(i) /\ slot[i].owner \in Owners
      /\ allocOwner # i /\ ~Direct(i)
      /\ donePending' \in [SurvSlots -> EventType \cup {None}]
      /\ donePending'[i] # None /\ donePending'[i].owner = slot[i].owner
      /\ donePending'[Other(i)] = donePending[Other(i)]
      /\ AnswersRight'
      /\ plabOpOwner' \in [Plabs -> SurvSlots \cup {None}]
      /\ \A p \in Plabs : plabOpOwner[p] = Other(i) => plabOpOwner'[p] = Other(i)
      /\ UNCHANGED <<bufVars, plabBufferValid, plabRefillBusy, destAttrValid, copyOwner, traceOwner,
                     allocOwner, typeArrayPending, placed>>
  BY WorkDoneGives DEF FinishSlot
<1>2. /\ slot \in [SurvSlots -> SlotType] /\ Other(i) \in SurvSlots /\ Other(i) # i /\ Typed
      /\ slot' = [slot EXCEPT ![i] = EmptySlot]
  BY SlotKnown DEF IInv, FinishSlot
<1>3. slot' \in [SurvSlots -> SlotType] /\ slot'[Other(i)] = slot[Other(i)]
      /\ slot'[i] = EmptySlot /\ ~slotValid(i)' /\ ~Direct(i)'
  BY <1>2, NoSlot DEF slotValid, At, Direct
<1>4. Typed'
  <2>1. olderSlot' \in SurvSlots /\ UNCHANGED <<sent, told>>
    BY <1>2 DEF FinishSlot, SurvSlots
  <2>. QED  BY <1>1, <1>2, <1>3, <2>1 DEF Typed, bufVars
<1>5. AllStand'
  <2>1. Stands(i)'
    BY <1>1, <1>3, EmptyStands
  <2>2. Stands(Other(i))'
    BY <1>1, <1>2, <1>3, OtherStands DEF IInv, SlotType, bufVars
  <2>. QED  BY <2>1, <2>2, OtherSlot DEF AllStand
<1>6. Buffers' /\ Apart'
  <2>1. \A j \in SurvSlots : /\ Direct(j)' <=> Direct(j)
                             /\ Direct(j) => /\ slot'[j].dest = slot[j].dest
                                             /\ slot'[j].idx = slot[j].idx
                                             /\ slot'[j].size = slot[j].size
    BY <1>1, <1>2, <1>3, OtherSlot DEF Direct, At
  <2>. QED  BY <1>1, <2>1, BuffersKept, ApartKept DEF IInv
<1>7. Single'
  <2>1. \A x \in Owners : /\ ~Serves(i, x)' /\ (Answers(i, x)' <=> x = slot[i].owner)
                          /\ Serves(Other(i), x)' <=> Serves(Other(i), x)
                          /\ Answers(Other(i), x)' <=> Answers(Other(i), x)
    BY <1>1, <1>3 DEF Serves, Answers, slotValid, At
  <2>2. Serves(i, slot[i].owner)
    BY <1>1 DEF Serves
  <2>. QED  BY <1>1, <1>2, <2>1, <2>2, OtherSlot DEF IInv, Single, SurvSlots
<1>. QED  BY <1>1, <1>4, <1>5, <1>6, <1>7 DEF IInv

\* Slot 0 ends while slot 1 begins.
LEMMA FinishAndAcceptKeeps ==
  ASSUME IInv, NEW c \in Cmds, NEW o \in Owners, FinishAndAccept(c, o)
  PROVE  IInv'
<1>0. 0 \in SurvSlots /\ 1 \in SurvSlots /\ Other(0) = 1 /\ Other(1) = 0
  BY DEF SurvSlots, Other
<1>1. /\ slot[0].pc = "WAIT_COPY_TRACE" /\ slotValid(0) /\ slot[0].owner \in Owners
      /\ allocOwner # 0 /\ ~Direct(0)
      /\ donePending' \in [SurvSlots -> EventType \cup {None}]
      /\ donePending'[0] # None /\ donePending'[0].owner = slot[0].owner
      /\ donePending'[1] = donePending[1]
      /\ AnswersRight'
      /\ plabOpOwner' \in [Plabs -> SurvSlots \cup {None}]
      /\ UNCHANGED <<bufVars, plabBufferValid, plabRefillBusy, destAttrValid, copyOwner, traceOwner,
                     allocOwner, typeArrayPending, placed>>
  BY <1>0, WorkDoneGives DEF FinishAndAccept
<1>2. /\ slot \in [SurvSlots -> SlotType] /\ Typed /\ slot[1].pc = "IDLE" /\ ~slotValid(1)
      /\ allocOwner # 1 /\ ~Direct(1)
  BY <1>0, SlotKnown, NotAtWork DEF IInv, FinishAndAccept, slotValid, At
<1>3. PICK n \in ObjSizes : slot' = [slot EXCEPT ![0] = EmptySlot, ![1] = Alloc(c, o, n)]
  BY DEF FinishAndAccept
<1>4. /\ slot' \in [SurvSlots -> SlotType] /\ slot'[0] = EmptySlot /\ slot'[1] = Alloc(c, o, n)
      /\ ~slotValid(0)' /\ ~Direct(0)' /\ slotValid(1)' /\ ~Direct(1)' /\ slot'[1].owner = o
  BY <1>0, <1>2, <1>3, NoSlot, NewSlot DEF slotValid, At, Direct
<1>5. Typed'
  <2>1. sent' \in 0 .. MaxObjects /\ told' \in [Owners -> BOOLEAN] /\ olderSlot' \in SurvSlots
    BY <1>2, BuffersAssumption DEF FinishAndAccept, MaySend, Sent, Typed, Cmds, SurvSlots
  <2>. QED  BY <1>1, <1>2, <1>4, <2>1 DEF Typed, bufVars
<1>6. AllStand'
  BY <1>0, <1>1, <1>2, <1>4, EmptyStands, NewStands DEF AllStand, SurvSlots
<1>7. Buffers' /\ Apart'
  <2>1. \A j \in SurvSlots : ~Direct(j)' /\ ~Direct(j)
    BY <1>1, <1>2, <1>4 DEF SurvSlots
  <2>. QED  BY <1>1, <2>1, BuffersKept, ApartKept DEF IInv
<1>8. Single'
  <2>1. \A x \in Owners : /\ ~Serves(0, x)' /\ (Answers(0, x)' <=> x = slot[0].owner)
                          /\ Serves(1, x)' <=> x = o
                          /\ Answers(1, x)' <=> Answers(1, x)
    BY <1>1, <1>4 DEF Serves, Answers
  <2>2. Serves(0, slot[0].owner)
    BY <1>1 DEF Serves
  <2>3. ~Serves(0, o) /\ ~Answers(1, o)
    BY <1>0 DEF FinishAndAccept, MaySend, InFlight, Serves, Answers
  <2>4. ~Answers(1, slot[0].owner) /\ slot[0].owner # o
    BY <1>0, <1>1, <2>2, <2>3 DEF IInv, Single
  <2>. QED  BY <1>0, <1>1, <2>1, <2>3, <2>4 DEF Single, SurvSlots
<1>. QED  BY <1>1, <1>5, <1>6, <1>7, <1>8 DEF IInv

\* The Done event leaves.
LEMMA SendDoneKeeps ==
  ASSUME IInv, NEW i \in SurvSlots, SendDone(i)
  PROVE  IInv'
<1>1. Typed /\ UNCHANGED <<slot, bufVars, plabVars, workVars, placed>>
      /\ donePending' = [donePending EXCEPT ![i] = None]
  BY DEF IInv, SendDone, plabVars, memVars, bufVars
<1>2. Typed'
  BY <1>1 DEF Typed, SendDone, plabVars, workVars, memVars, bufVars
<1>3. AllStand'
  BY <1>1 DEF IInv, AllStand, Stands, plabVars, workVars, slotValid, At, SizeOf, Direct,
     Refilling, Allocating, ownsPlab, Idx
<1>4. Buffers' /\ Apart'
  <2>1. \A j \in SurvSlots : Direct(j)' <=> Direct(j)
    BY <1>1 DEF Direct, At
  <2>. QED  BY <1>1, <2>1, BuffersKept, ApartKept DEF IInv
<1>5. \A j \in SurvSlots : j # i => donePending'[j] = donePending[j]
  BY <1>1 DEF Typed
<1>6. donePending'[i] = None
  BY <1>1 DEF Typed
<1>7. Single'
  <2>1. \A x \in Owners, j \in SurvSlots : (Serves(j, x)' <=> Serves(j, x))
                                       /\ (Answers(j, x)' => Answers(j, x))
    BY <1>1, <1>5, <1>6 DEF Serves, Answers, slotValid, At
  <2>. QED  BY <2>1, OtherSlot DEF IInv, Single, SurvSlots
<1>8. AnswersRight'
  BY <1>5, <1>6 DEF IInv, AnswersRight
<1>. QED  BY <1>2, <1>3, <1>4, <1>7, <1>8 DEF IInv

-----------------------------------------------------------------------------
(* The invariant.                                                            *)

LEMMA IInvInit == SurvInit => IInv
<1>. SUFFICES ASSUME SurvInit PROVE IInv
  OBVIOUS
<1>1. \A i \in SurvSlots : slot[i] = EmptySlot /\ donePending[i] = None /\ allocOwner # i
  BY BuffersAssumption DEF SurvInit, SurvSlots
<1>2. /\ \A p \in Plabs : plabValid[p] = FALSE /\ memTop[p] = JvmTop[p] /\ memEnd[p] = JvmEnd[p]
      /\ heapNext = JvmEnd[1] /\ placed = [c \in Cmds |-> {}]
  BY DEF SurvInit
<1>3. /\ \A p \in Plabs : /\ JvmTop[p] \in Nat /\ JvmEnd[p] \in Nat /\ 1 <= JvmTop[p]
                          /\ JvmTop[p] <= JvmEnd[p] /\ JvmEnd[p] <= JvmEnd[1]
                          /\ JvmEnd[p] <= HeapWords + 1
      /\ JvmEnd[0] <= JvmTop[1] /\ MaxObjects \in Nat /\ HeapWords \in Nat
  BY BuffersAssumption DEF Plabs
<1>4. Typed
  <2>1. slot \in [SurvSlots -> SlotType]
    BY NoSlot DEF SurvInit
  <2>2. /\ memTop \in [Plabs -> Nat] /\ memEnd \in [Plabs -> Nat] /\ heapNext \in Nat
    BY BuffersAssumption DEF SurvInit, Plabs
  <2>3. sent \in 0 .. MaxObjects
    BY <1>3 DEF SurvInit
  <2>. QED  BY <2>1, <2>2, <2>3 DEF SurvInit, Typed, SurvSlots, Plabs
<1>5. AllStand
  BY <1>1, NoSlot DEF AllStand, Stands, slotValid, At, Direct, Refilling, Allocating, Late, Placed
<1>6. \A i \in SurvSlots : ~Direct(i) /\ ~slotValid(i)
  BY <1>1, NoSlot DEF Direct, slotValid, At
<1>7. Buffers
  BY <1>2, <1>3, <1>6 DEF Buffers, InBounds, InStep, Bumped, DirectOn, Base, Plabs
<1>8. Room(0) \cap Room(1) = {}
  BY <1>2, <1>3 DEF Room, Base, Plabs
<1>9. Apart
  BY <1>2, <1>8 DEF Apart
<1>10. Single /\ AnswersRight
  BY <1>1, <1>6 DEF Single, AnswersRight, Serves, Answers, SurvSlots, Other
<1>. QED  BY <1>4, <1>5, <1>7, <1>9, <1>10 DEF IInv

LEMMA SlotStepKeeps ==
  ASSUME IInv, NEW i \in SurvSlots, SlotStep(i) PROVE IInv'
<1>1. CASE LeadOn(i) \/ DestAttrAsk(i) \/ DestAttrAnswer(i) \/ DestAttrHit(i) \/ AgeDecide(i)
  BY <1>1, LeadOnKeeps, DestAttrAskKeeps, DestAttrAnswerKeeps, DestAttrHitKeeps, AgeDecideKeeps
<1>2. CASE DirectSend(i) \/ DirectDone(i) \/ NoRoom(i)
  BY <1>2, DirectSendKeeps, DirectDoneKeeps, NoRoomKeeps
<1>3. CASE RefillStart(i) \/ ReadPlabPtr(i) \/ ReadPlabBuf(i) \/ ReadPlabTopEnd(i)
  BY <1>3, RefillStartKeeps, ReadPlabPtrKeeps, ReadPlabBufKeeps, ReadPlabTopEndKeeps
<1>4. CASE AllocSend(i) \/ WaitAlloc(i) \/ WriteForceOld(i) \/ CasForwardPtr(i)
  BY <1>4, AllocSendKeeps, WaitAllocKeeps, WriteForceOldKeeps, CasForwardPtrKeeps
<1>5. CASE SendCopyWork(i) \/ LeaveTrace(i) \/ FinishSlot(i)
  BY <1>5, SendCopyWorkKeeps, LeaveTraceKeeps, FinishKeeps
<1>. QED  BY <1>1, <1>2, <1>3, <1>4, <1>5 DEF SlotStep

LEMMA StutterKeeps == ASSUME IInv, UNCHANGED survVars PROVE IInv'
<1>. USE DEF survVars, plabVars, workVars, eventVars, memVars, envVars
<1>1. Typed' /\ AnswersRight'
  BY DEF IInv, Typed, AnswersRight
<1>2. AllStand'
  BY DEF IInv, AllStand, Stands, slotValid, At, SizeOf, Direct, Refilling, Allocating, ownsPlab, Idx
<1>3. Buffers' /\ Apart'
  <2>1. \A j \in SurvSlots : Direct(j)' <=> Direct(j)
    BY DEF Direct, At
  <2>. QED  BY <2>1, BuffersKept, ApartKept DEF IInv, bufVars
<1>4. Single'
  BY SeenKept DEF IInv, slotValid, At
<1>. QED  BY <1>1, <1>2, <1>3, <1>4 DEF IInv

LEMMA IInvStep == IInv /\ [SurvNext]_survVars => IInv'
<1>. SUFFICES ASSUME IInv, [SurvNext]_survVars PROVE IInv'
  OBVIOUS
<1>1. CASE UNCHANGED survVars
  BY <1>1, StutterKeeps
<1>2. ASSUME NEW c \in Cmds, NEW o \in Owners, AcceptCommand(c, o) \/ FinishAndAccept(c, o)
      PROVE  IInv'
  BY <1>2, AcceptCommandKeeps, FinishAndAcceptKeeps
<1>3. ASSUME NEW i \in SurvSlots, SlotStep(i) PROVE IInv'
  BY <1>3, SlotStepKeeps
<1>4. ASSUME NEW i \in SurvSlots, AllocEnds(i) PROVE IInv'
  BY <1>4, NewBufferKeeps, OutsideBufferKeeps, NoPlaceKeeps DEF AllocEnds
<1>5. ASSUME NEW i \in SurvSlots, \/ WriteDestMark(i) \/ SendTraceWork(i) \/ CopyEnds(i) \/ TraceEnds(i)
                                  \/ SendDone(i) \/ SendTypeArray(i)
      PROVE  IInv'
  BY <1>5, WriteDestMarkKeeps, SendTraceWorkKeeps, CopyEndsKeeps, TraceEndsKeeps, SendDoneKeeps,
     SendTypeArrayKeeps
<1>. QED  BY <1>1, <1>2, <1>3, <1>4, <1>5 DEF SurvNext

\* The invariant holds of every behaviour.
THEOREM Invariance == SurvSpec => []IInv
<1>. QED  BY IInvInit, IInvStep, PTL DEF SurvSpec

\* What was promised lies in a room, and memory's rest beside it.
LEMMA ShowsNoOverlap == IInv => NoOverlap
<1>. SUFFICES ASSUME IInv PROVE NoOverlap
  OBVIOUS
<1>1. Typed /\ Apart /\ Buffers
  BY DEF IInv
<1>2. \A p \in Plabs : Rest(p) \subseteq Room(p)
  <2>. SUFFICES ASSUME NEW p \in Plabs PROVE Rest(p) \subseteq Room(p)
    OBVIOUS
  <2>1. InBounds(p) /\ memTop[p] \in Nat /\ memEnd[p] \in Nat /\ Base(p) \in Nat
    BY BufferKnown DEF Base, Plabs, SurvSlots
  <2>. QED  BY <2>1 DEF InBounds, Rest, Room
<1>3. \A i \in SurvSlots : Promised(i) \subseteq (IF Direct(i) THEN Room(Idx(i)) ELSE {})
  <2>. SUFFICES ASSUME NEW i \in SurvSlots, Direct(i) PROVE Promised(i) \subseteq Room(Idx(i))
    BY DEF Promised
  <2>a. PICK q \in Plabs : q = Idx(i)
    BY BufferKnown
  <2>1. /\ InBounds(q) /\ Bumped(i, q) /\ memTop[q] \in Nat /\ memEnd[q] \in Nat
        /\ plabTop[q] \in Nat /\ SizeOf(i) \in Nat
    BY <2>a, BufferKnown
  <2>2. plabValid[q] /\ slot[i].dest = plabTop[q] /\ memTop[q] = plabTop[q] + SizeOf(i)
    BY <2>a, <2>1 DEF Bumped, DirectOn
  <2>. QED  BY <2>a, <2>1, <2>2 DEF Promised, PlaceOf, Room, Base, InBounds
<1>4. Direct(0) /\ Direct(1) => Idx(0) # Idx(1)
  BY OneWorks DEF IInv, AllStand, Stands, ownsPlab, SurvSlots
<1>5. Promised(0) \cap Promised(1) = {}
  BY <1>1, <1>3, <1>4, BufferKnown DEF Apart, SurvSlots, Plabs, Promised
<1>6. \A i \in SurvSlots, c \in Cmds : Promised(i) \cap placed[c] = {}
  BY <1>1, <1>3, BufferKnown DEF Apart
<1>7. \A p \in Plabs : Rest(p) \cap UNION {placed[c] : c \in Cmds} = {}
  BY <1>1, <1>2 DEF Apart
<1>8. Rest(0) \cap Rest(1) = {}
  BY <1>1, <1>2 DEF Apart, Plabs
<1>. QED  BY <1>1, <1>5, <1>6, <1>7, <1>8 DEF NoOverlap, Apart

\* The registers of the unit keep their types.
THEOREM TypeCorrect == SurvSpec => []SurvTypeOK
<1>1. IInv => SurvTypeOK
  <2>. SUFFICES ASSUME IInv PROVE SurvTypeOK
    OBVIOUS
  <2>1. Typed /\ \A i \in SurvSlots : slot[i] \in SlotType /\ Stands(i)
    BY SlotKnown DEF IInv
  <2>. QED  BY <2>1 DEF SurvTypeOK, Typed, SlotType, Stands
<1>. QED  BY <1>1, Invariance, PTL

\* No word is given to two objects, nor to an object and a buffer's rest.
THEOREM WordsApart == SurvSpec => []NoOverlap
<1>. QED  BY ShowsNoOverlap, Invariance, PTL

-----------------------------------------------------------------------------
(* What GCOopProcess sees of it is SurvivorSpec.                             *)

\* The stage of the object of slot o of GCOopProcess, one case at a time.
LEMMA SeenIdle ==
  ASSUME NEW o \in Owners, ~InFlight(o)
  PROVE  copier[o] = [stage |-> "idle", copy |-> 0]
BY DEF copier, InFlight

LEMMA SeenAnswered ==
  ASSUME Single, NEW o \in Owners, NEW i \in SurvSlots, Answers(i, o)
  PROVE  copier[o] = Announced(donePending[i].dest)
<1>1. \A j \in SurvSlots : Answers(j, o) => j = i
  BY OtherSlot DEF Single
<1>2. (CHOOSE j \in SurvSlots : donePending[j] # None /\ donePending[j].owner = o) = i
  BY <1>1 DEF Answers
<1>. QED  BY <1>2 DEF copier, Answers

LEMMA SeenServed ==
  ASSUME Single, NEW o \in Owners, NEW i \in SurvSlots, Serves(i, o)
  PROVE  copier[o] = IF slot[i].forwardDecided THEN Announced(slot[i].dest)
                     ELSE [stage |-> "asked", copy |-> 0]
<1>1. \A j \in SurvSlots : (Serves(j, o) => j = i) /\ ~Answers(j, o)
  BY OtherSlot DEF Single, SurvSlots
<1>2. (CHOOSE j \in SurvSlots : slotValid(j) /\ slot[j].owner = o) = i
  BY <1>1 DEF Serves
<1>3. ~\E j \in SurvSlots : donePending[j] # None /\ donePending[j].owner = o
  BY <1>1 DEF Answers
<1>4. \E j \in SurvSlots : slotValid(j) /\ slot[j].owner = o
  BY DEF Serves
<1>. QED  BY <1>2, <1>3, <1>4 DEF copier

\* The same of the next state.
LEMMA SeenIdleNext ==
  ASSUME NEW o \in Owners, ~InFlight(o)'
  PROVE  copier'[o] = [stage |-> "idle", copy |-> 0]
BY DEF copier, InFlight

LEMMA SeenAnsweredNext ==
  ASSUME Single', NEW o \in Owners, NEW i \in SurvSlots, Answers(i, o)'
  PROVE  copier'[o] = Announced(donePending'[i].dest)
<1>1. \A j \in SurvSlots : Answers(j, o)' => j = i
  BY OtherSlot DEF Single
<1>2. (CHOOSE j \in SurvSlots : donePending'[j] # None /\ donePending'[j].owner = o) = i
  BY <1>1 DEF Answers
<1>. QED  BY <1>2 DEF copier, Answers, Announced

LEMMA SeenServedNext ==
  ASSUME Single', NEW o \in Owners, NEW i \in SurvSlots, Serves(i, o)'
  PROVE  copier'[o] = IF slot'[i].forwardDecided THEN Announced(slot'[i].dest)
                      ELSE [stage |-> "asked", copy |-> 0]
<1>1. \A j \in SurvSlots : (Serves(j, o)' => j = i) /\ ~Answers(j, o)'
  BY OtherSlot DEF Single, SurvSlots
<1>2. (CHOOSE j \in SurvSlots : slotValid(j)' /\ slot'[j].owner = o) = i
  BY <1>1 DEF Serves
<1>3. ~\E j \in SurvSlots : donePending'[j] # None /\ donePending'[j].owner = o
  BY <1>1 DEF Answers
<1>4. \E j \in SurvSlots : slotValid(j)' /\ slot'[j].owner = o
  BY DEF Serves
<1>. QED  BY <1>2, <1>3, <1>4 DEF copier, Announced

\* A slot of GCOopProcess sees nothing of a step that leaves its object where
\* it is.
LEMMA SameStage ==
  ASSUME Single, Single', NEW o \in Owners,
         \A j \in SurvSlots :
           /\ Serves(j, o)' <=> Serves(j, o)
           /\ Answers(j, o)' <=> Answers(j, o)
           /\ Answers(j, o) => donePending'[j] = donePending[j]
           /\ Serves(j, o) => /\ slot'[j].forwardDecided = slot[j].forwardDecided
                              /\ slot[j].forwardDecided => slot'[j].dest = slot[j].dest
  PROVE  copier'[o] = copier[o]
<1>1. ASSUME NEW i \in SurvSlots, Answers(i, o) PROVE copier'[o] = copier[o]
  BY <1>1, SeenAnswered, SeenAnsweredNext
<1>2. ASSUME NEW i \in SurvSlots, Serves(i, o) PROVE copier'[o] = copier[o]
  BY <1>2, SeenServed, SeenServedNext
<1>3. CASE \A j \in SurvSlots : ~Answers(j, o) /\ ~Serves(j, o)
  <2>1. ~InFlight(o) /\ ~InFlight(o)'
    BY <1>3 DEF InFlight, Serves, Answers
  <2>. QED  BY <2>1, SeenIdle, SeenIdleNext
<1>. QED  BY <1>1, <1>2, <1>3

LEMMA CopierFunction ==
  /\ copier = [o \in Owners |-> copier[o]] /\ DOMAIN copier = Owners
  /\ copier' = [o \in Owners |-> copier'[o]] /\ DOMAIN copier' = Owners
BY DEF copier

\* Steps within a slot are not seen at all.
LEMMA Unseen ==
  ASSUME IInv, IInv', NEW i \in SurvSlots, slot'[Other(i)] = slot[Other(i)], UNCHANGED donePending,
         slotValid(i)' <=> slotValid(i), slot'[i].owner = slot[i].owner,
         slot'[i].forwardDecided = slot[i].forwardDecided,
         slot[i].forwardDecided => slot'[i].dest = slot[i].dest
  PROVE  copier' = copier
<1>1. \A j \in SurvSlots : /\ slotValid(j)' <=> slotValid(j)
                           /\ slot'[j].owner = slot[j].owner
                           /\ slot'[j].forwardDecided = slot[j].forwardDecided
                           /\ slot[j].forwardDecided => slot'[j].dest = slot[j].dest
  BY OtherSlot DEF slotValid, At
<1>2. \A o \in Owners : copier'[o] = copier[o]
  <2>. SUFFICES ASSUME NEW o \in Owners PROVE copier'[o] = copier[o]
    OBVIOUS
  <2>1. \A j \in SurvSlots : /\ Serves(j, o)' <=> Serves(j, o)
                             /\ Answers(j, o)' <=> Answers(j, o)
    BY <1>1 DEF Serves, Answers
  <2>2. Single /\ Single'
    BY DEF IInv
  <2>. QED  BY <1>1, <2>1, <2>2, SameStage
<1>. QED  BY <1>2, CopierFunction

LEMMA MinorUnseen ==
  ASSUME IInv, IInv', NEW i \in SurvSlots, Minor(i) PROVE copier' = copier
BY Unseen DEF Minor

LEMMA NotDecidedUnseen ==
  ASSUME IInv, IInv', NEW i \in SurvSlots, slot'[Other(i)] = slot[Other(i)], UNCHANGED donePending,
         slotValid(i), slotValid(i)', slot'[i].owner = slot[i].owner,
         ~slot[i].forwardDecided, ~slot'[i].forwardDecided
  PROVE  copier' = copier
<1>1. slot[i] \in SlotType /\ slot'[i] \in SlotType
  BY DEF IInv, Typed
<1>2. slot'[i].forwardDecided = slot[i].forwardDecided
  BY <1>1 DEF SlotType
<1>. QED  BY <1>2, Unseen

\* One slot of GCOopProcess sees something, the other one nothing.
LEMMA OneSees ==
  ASSUME NEW o \in Owners, NEW v, copier'[o] = v,
         \A x \in Owners : x # o => copier'[x] = copier[x]
  PROVE  copier' = [copier EXCEPT ![o] = v]
BY CopierFunction

-----------------------------------------------------------------------------
(* The steps that are seen.                                                  *)

\* An object is taken: Ask.
LEMMA AcceptSeen ==
  ASSUME IInv, IInv', NEW c \in Cmds, NEW o \in Owners, AcceptCommand(c, o)
  PROVE  Survivor!Ask(o)
<1>1. ~InFlight(o) /\ UNCHANGED donePending
  BY DEF AcceptCommand, MaySend, eventVars
<1>2. PICK i \in SurvSlots : ~slotValid(i) /\ \E n \in ObjSizes : slot' = [slot EXCEPT ![i] = Alloc(c, o,
        n)]
  BY DEF AcceptCommand, SurvSlots
<1>3. PICK n \in ObjSizes : slot' = [slot EXCEPT ![i] = Alloc(c, o, n)]
  BY <1>2
<1>4. /\ slot' \in [SurvSlots -> SlotType] /\ slot'[i] = Alloc(c, o, n)
      /\ \A j \in SurvSlots : j # i => slot'[j] = slot[j]
  BY <1>3, NewSlot DEF IInv, Typed
<1>5. Serves(i, o)' /\ ~slot'[i].forwardDecided
  BY <1>4, NewSlot DEF Serves, slotValid, At
<1>6. Single /\ Single'
  BY DEF IInv
<1>7. copier[o] = [stage |-> "idle", copy |-> 0] /\ copier'[o] = [stage |-> "asked", copy |-> 0]
  BY <1>1, <1>5, <1>6, SeenIdle, SeenServedNext
<1>8. \A x \in Owners : x # o => copier'[x] = copier[x]
  <2>. SUFFICES ASSUME NEW x \in Owners, x # o PROVE copier'[x] = copier[x]
    OBVIOUS
  <2>1. \A j \in SurvSlots : Answers(j, x)' <=> Answers(j, x)
    BY <1>1 DEF Answers
  <2>2. ~Serves(i, x) /\ ~Serves(i, x)'
    BY <1>2, <1>4, NewSlot DEF Serves
  <2>3. \A j \in SurvSlots : j # i => (Serves(j, x)' <=> Serves(j, x))
    BY <1>4 DEF Serves, slotValid, At
  <2>. QED  BY <1>1, <1>4, <1>6, <2>1, <2>2, <2>3, SameStage
<1>9. copier' = [copier EXCEPT ![o] = [stage |-> "asked", copy |-> 0]]
  BY <1>7, <1>8, OneSees
<1>10. copier' = [copier EXCEPT ![o].stage = "asked"]
  BY <1>7, <1>9, CopierFunction
<1>. QED  BY <1>7, <1>10 DEF Survivor!Ask

\* The forwarding pointer is installed: Announce.
LEMMA CasSeen ==
  ASSUME IInv, IInv', NEW i \in SurvSlots, CasForwardPtr(i)
  PROVE  \E o \in Owners, a \in 1 .. HeapWords : Survivor!Announce(o, a)
<1>1. /\ slot \in [SurvSlots -> SlotType] /\ slot[i] \in SlotType /\ Stands(i)
  BY SlotKnown
<1>2. slot' = [slot EXCEPT ![i] = [slot[i] EXCEPT !.pc = "SEND_COPY_WORK", !.forwardDecided = TRUE]]
      /\ slot[i].pc = "DECIDE_FORWARD_PTR" /\ UNCHANGED donePending
  BY <1>1 DEF CasForwardPtr, At, eventVars
<1>3. PICK o \in Owners : o = slot[i].owner
  BY <1>1 DEF SlotType
<1>4. PICK a \in 1 .. HeapWords : a = slot[i].dest
  BY <1>1, <1>2 DEF Stands, Placed
<1>5. /\ slot'[i].forwardDecided /\ slot'[i].dest = a /\ slot'[i].owner = o
      /\ slotValid(i)' /\ slotValid(i) /\ ~slot[i].forwardDecided
      /\ \A j \in SurvSlots : j # i => slot'[j] = slot[j]
  BY <1>1, <1>2, <1>3, <1>4 DEF slotValid, At, SlotType, Stands, Late
<1>6. Single /\ Single' /\ Serves(i, o) /\ Serves(i, o)'
  BY <1>3, <1>5 DEF IInv, Serves
<1>7. copier[o] = [stage |-> "asked", copy |-> 0] /\ copier'[o] = Announced(a)
  BY <1>5, <1>6, SeenServed, SeenServedNext
<1>8. \A x \in Owners : x # o => copier'[x] = copier[x]
  <2>. SUFFICES ASSUME NEW x \in Owners, x # o PROVE copier'[x] = copier[x]
    OBVIOUS
  <2>1. \A j \in SurvSlots : Answers(j, x)' <=> Answers(j, x)
    BY <1>2 DEF Answers
  <2>2. ~Serves(i, x) /\ ~Serves(i, x)'
    BY <1>3, <1>5 DEF Serves
  <2>3. \A j \in SurvSlots : j # i => (Serves(j, x)' <=> Serves(j, x))
    BY <1>5 DEF Serves, slotValid, At
  <2>. QED  BY <1>2, <1>5, <1>6, <2>1, <2>2, <2>3, SameStage
<1>9. copier' = [copier EXCEPT ![o] = Announced(a)]
  BY <1>7, <1>8, OneSees
<1>10. Survivor!Announce(o, a)
  BY <1>7, <1>9 DEF Survivor!Announce, Announced
<1>. QED  BY <1>10

\* A slot that ends passes its address on to the event: nothing is seen.
LEMMA FinishUnseen ==
  ASSUME IInv, IInv', NEW i \in SurvSlots, FinishSlot(i)
  PROVE  copier' = copier
<1>1. /\ slotValid(i) /\ slot[i].owner \in Owners /\ slot[i].forwardDecided
      /\ donePending'[i] # None /\ donePending'[i].owner = slot[i].owner
      /\ donePending'[i].dest = slot[i].dest /\ donePending[i] = None
      /\ donePending'[Other(i)] = donePending[Other(i)]
  BY WorkDoneGives DEF FinishSlot
<1>2. slot'[i] = EmptySlot /\ slot'[Other(i)] = slot[Other(i)]
  BY SlotKnown, NoSlot DEF FinishSlot
<1>3. Single /\ Single'
  BY DEF IInv
<1>4. \A x \in Owners : copier'[x] = copier[x]
  <2>. SUFFICES ASSUME NEW x \in Owners PROVE copier'[x] = copier[x]
    OBVIOUS
  <2>1. CASE x = slot[i].owner
    <3>1. Serves(i, x) /\ Answers(i, x)'
      BY <1>1, <2>1 DEF Serves, Answers
    <3>. QED  BY <1>1, <1>3, <3>1, SeenServed, SeenAnsweredNext
  <2>2. CASE x # slot[i].owner
    <3>1. /\ ~Serves(i, x) /\ ~Serves(i, x)' /\ ~Answers(i, x) /\ ~Answers(i, x)'
      BY <1>1, <1>2, <2>2, NoSlot DEF Serves, Answers, slotValid, At
    <3>2. \A j \in SurvSlots : j # i => /\ slot'[j] = slot[j] /\ donePending'[j] = donePending[j]
                                        /\ Serves(j, x)' <=> Serves(j, x)
                                        /\ Answers(j, x)' <=> Answers(j, x)
      BY <1>1, <1>2, OtherSlot DEF Serves, Answers, slotValid, At
    <3>. QED  BY <1>3, <3>1, <3>2, SameStage
  <2>. QED  BY <2>1, <2>2
<1>. QED  BY <1>4, CopierFunction

\* Slot 0 ends unseen while slot 1 takes an object: Ask.
LEMMA FinishAndAcceptSeen ==
  ASSUME IInv, IInv', NEW c \in Cmds, NEW o \in Owners, FinishAndAccept(c, o)
  PROVE  Survivor!Ask(o)
<1>0. 0 \in SurvSlots /\ 1 \in SurvSlots /\ Other(0) = 1 /\ Other(1) = 0
  BY DEF SurvSlots, Other
<1>1. /\ slotValid(0) /\ slot[0].owner \in Owners /\ slot[0].forwardDecided
      /\ donePending'[0] # None /\ donePending'[0].owner = slot[0].owner
      /\ donePending'[0].dest = slot[0].dest /\ donePending[0] = None
      /\ donePending'[1] = donePending[1]
  BY <1>0, WorkDoneGives DEF FinishAndAccept
<1>2. PICK n \in ObjSizes : slot' = [slot EXCEPT ![0] = EmptySlot, ![1] = Alloc(c, o, n)]
  BY DEF FinishAndAccept
<1>3. slot'[0] = EmptySlot /\ slot'[1] = Alloc(c, o, n)
  BY <1>0, <1>2 DEF IInv, Typed
<1>4. ~slotValid(1) /\ ~slotValid(0)' /\ slotValid(1)' /\ slot'[1].owner = o
      /\ ~slot'[1].forwardDecided /\ ~InFlight(o)
  BY <1>3, NoSlot, NewSlot DEF FinishAndAccept, MaySend, slotValid, At
<1>5. Single /\ Single' /\ Serves(1, o)'
  BY <1>4 DEF IInv, Serves
<1>6. copier[o] = [stage |-> "idle", copy |-> 0] /\ copier'[o] = [stage |-> "asked", copy |-> 0]
  BY <1>0, <1>4, <1>5, SeenIdle, SeenServedNext
<1>7. slot[0].owner # o
  BY <1>0, <1>1, <1>4 DEF InFlight
<1>8. \A x \in Owners : x # o => copier'[x] = copier[x]
  <2>. SUFFICES ASSUME NEW x \in Owners, x # o PROVE copier'[x] = copier[x]
    OBVIOUS
  <2>1. CASE x = slot[0].owner
    <3>1. Serves(0, x) /\ Answers(0, x)'
      BY <1>1, <2>1 DEF Serves, Answers
    <3>. QED  BY <1>0, <1>1, <1>5, <3>1, SeenServed, SeenAnsweredNext
  <2>2. CASE x # slot[0].owner
    <3>1. /\ ~Serves(0, x) /\ ~Serves(0, x)' /\ ~Answers(0, x) /\ ~Answers(0, x)'
          /\ ~Serves(1, x) /\ ~Serves(1, x)'
      BY <1>1, <1>4, <2>2 DEF Serves, Answers
    <3>2. Answers(1, x)' <=> Answers(1, x)
      BY <1>1 DEF Answers
    <3>. QED  BY <1>1, <1>5, <3>1, <3>2, SameStage DEF SurvSlots
  <2>. QED  BY <2>1, <2>2
<1>9. copier' = [copier EXCEPT ![o] = [stage |-> "asked", copy |-> 0]]
  BY <1>6, <1>8, OneSees
<1>10. copier' = [copier EXCEPT ![o].stage = "asked"]
  BY <1>6, <1>9, CopierFunction
<1>. QED  BY <1>6, <1>10 DEF Survivor!Ask

\* Done is said: FinishSlot.
LEMMA SendDoneSeen ==
  ASSUME IInv, IInv', NEW i \in SurvSlots, SendDone(i)
  PROVE  \E o \in Owners, a \in 1 .. HeapWords : Survivor!Finish(o, a)
<1>1. /\ donePending \in [SurvSlots -> EventType \cup {None}] /\ donePending[i] # None
      /\ donePending' = [donePending EXCEPT ![i] = None] /\ UNCHANGED slot
  BY DEF IInv, Typed, SendDone
<1>2. donePending[i] \in EventType /\ donePending[i].dest \in 1 .. HeapWords
  BY <1>1 DEF IInv, AnswersRight
<1>3. PICK o \in Owners : o = donePending[i].owner
  BY <1>2 DEF EventType
<1>4. PICK a \in 1 .. HeapWords : a = donePending[i].dest
  BY <1>2
<1>5. Single /\ Single' /\ Answers(i, o)
  BY <1>1, <1>3 DEF IInv, Answers
<1>6. copier[o] = Announced(a)
  BY <1>4, <1>5, SeenAnswered
<1>7. donePending'[i] = None /\ \A j \in SurvSlots : j # i => donePending'[j] = donePending[j]
  BY <1>1
<1>8. copier'[o] = [stage |-> "idle", copy |-> 0]
  <2>1. \A j \in SurvSlots : ~Answers(j, o)' /\ ~Serves(j, o)'
    BY <1>1, <1>5, <1>7, OtherSlot DEF Single, Answers, Serves, slotValid, At, SurvSlots
  <2>2. ~InFlight(o)'
    BY <2>1 DEF InFlight, Serves, Answers
  <2>. QED  BY <2>2, SeenIdleNext
<1>9. \A x \in Owners : x # o => copier'[x] = copier[x]
  <2>. SUFFICES ASSUME NEW x \in Owners, x # o PROVE copier'[x] = copier[x]
    OBVIOUS
  <2>1. \A j \in SurvSlots : /\ Serves(j, x)' <=> Serves(j, x)
                             /\ Answers(j, x)' <=> Answers(j, x)
                             /\ Answers(j, x) => donePending'[j] = donePending[j]
    BY <1>1, <1>3, <1>7 DEF Serves, Answers, slotValid, At
  <2>. QED  BY <1>1, <1>5, <2>1, SameStage
<1>10. copier' = [copier EXCEPT ![o] = [stage |-> "idle", copy |-> 0]]
  BY <1>8, <1>9, OneSees
<1>11. Survivor!Finish(o, a)
  BY <1>6, <1>10 DEF Survivor!Finish, Survivor!Idle, Announced
<1>. QED  BY <1>11

\* At first GCOopProcess has asked for nothing.
LEMMA InitSeen == SurvInit => Survivor!Init
<1>. SUFFICES ASSUME SurvInit PROVE Survivor!Init
  OBVIOUS
<1>1. \A o \in Owners : ~InFlight(o)
  BY NoSlot DEF SurvInit, InFlight, slotValid, At
<1>2. \A o \in Owners : copier[o] = [stage |-> "idle", copy |-> 0]
  BY <1>1, SeenIdle
<1>3. copier = [o \in Owners |-> [stage |-> "idle", copy |-> 0]]
  BY <1>2, CopierFunction
<1>. QED  BY <1>3 DEF Survivor!Init, Survivor!Idle

LEMMA SlotStepSeen ==
  ASSUME IInv, IInv', NEW i \in SurvSlots, SlotStep(i)
  PROVE  copier' = copier \/ \E o \in Owners, a \in 1 .. HeapWords : Survivor!Announce(o, a)
<1>1. CASE LeadOn(i) \/ DestAttrAsk(i) \/ DestAttrAnswer(i) \/ DestAttrHit(i) \/ AgeDecide(i)
  <2>1. Minor(i)
    BY <1>1, LeadOnKeeps, DestAttrAskKeeps, DestAttrAnswerKeeps, DestAttrHitKeeps, AgeDecideKeeps
  <2>. QED  BY <2>1, MinorUnseen
<1>2. CASE \/ NoRoom(i) \/ RefillStart(i) \/ ReadPlabPtr(i) \/ ReadPlabBuf(i) \/ WaitAlloc(i)
           \/ WriteForceOld(i) \/ SendCopyWork(i) \/ LeaveTrace(i)
  <2>1. Minor(i)
    BY <1>2, NoRoomKeeps, RefillStartKeeps, ReadPlabPtrKeeps, ReadPlabBufKeeps, WaitAllocKeeps,
       WriteForceOldKeeps, SendCopyWorkKeeps, LeaveTraceKeeps
  <2>. QED  BY <2>1, MinorUnseen
<1>3. CASE DirectSend(i)
  <2>1. /\ slot'[Other(i)] = slot[Other(i)] /\ UNCHANGED donePending
        /\ slotValid(i) /\ slotValid(i)' /\ slot'[i].owner = slot[i].owner
        /\ ~slot[i].forwardDecided /\ ~slot'[i].forwardDecided
    BY <1>3, DirectSendKeeps
  <2>. QED  BY <2>1, NotDecidedUnseen
<1>4. CASE DirectDone(i)
  <2>1. /\ slot'[Other(i)] = slot[Other(i)] /\ UNCHANGED donePending
        /\ slotValid(i) /\ slotValid(i)' /\ slot'[i].owner = slot[i].owner
        /\ ~slot[i].forwardDecided /\ ~slot'[i].forwardDecided
    BY <1>4, DirectDoneKeeps
  <2>. QED  BY <2>1, NotDecidedUnseen
<1>5. CASE ReadPlabTopEnd(i)
  <2>1. /\ slot'[Other(i)] = slot[Other(i)] /\ UNCHANGED donePending
        /\ slotValid(i) /\ slotValid(i)' /\ slot'[i].owner = slot[i].owner
        /\ ~slot[i].forwardDecided /\ ~slot'[i].forwardDecided
    BY <1>5, ReadPlabTopEndKeeps
  <2>. QED  BY <2>1, NotDecidedUnseen
<1>6. CASE AllocSend(i)
  <2>1. /\ slot'[Other(i)] = slot[Other(i)] /\ UNCHANGED donePending
        /\ slotValid(i) /\ slotValid(i)' /\ slot'[i].owner = slot[i].owner
        /\ ~slot[i].forwardDecided /\ ~slot'[i].forwardDecided
    BY <1>6, AllocSendKeeps
  <2>. QED  BY <2>1, NotDecidedUnseen
<1>7. CASE CasForwardPtr(i)
  BY <1>7, CasSeen
<1>8. CASE FinishSlot(i)
  BY <1>8, FinishUnseen
<1>. QED  BY <1>1, <1>2, <1>3, <1>4, <1>5, <1>6, <1>7, <1>8 DEF SlotStep

LEMMA StepSeen ==
  ASSUME IInv, IInv', [SurvNext]_survVars PROVE [Survivor!Next]_copier
<1>1. CASE UNCHANGED survVars
  <2>1. UNCHANGED <<slot, donePending>>
    BY <1>1 DEF survVars, eventVars
  <2>. QED  BY <2>1 DEF copier, slotValid, At, Announced
<1>2. ASSUME NEW c \in Cmds, NEW o \in Owners, AcceptCommand(c, o) \/ FinishAndAccept(c, o)
      PROVE  Survivor!Next
  BY <1>2, AcceptSeen, FinishAndAcceptSeen DEF Survivor!Next
<1>3. ASSUME NEW i \in SurvSlots, SlotStep(i) PROVE [Survivor!Next]_copier
  BY <1>3, SlotStepSeen DEF Survivor!Next
<1>4. ASSUME NEW i \in SurvSlots, AllocEnds(i) PROVE copier' = copier
  <2>1. /\ slot'[Other(i)] = slot[Other(i)] /\ UNCHANGED donePending
        /\ slotValid(i) /\ slotValid(i)' /\ slot'[i].owner = slot[i].owner
        /\ ~slot[i].forwardDecided /\ ~slot'[i].forwardDecided
    BY <1>4, NewBufferKeeps, OutsideBufferKeeps, NoPlaceKeeps DEF AllocEnds
  <2>. QED  BY <2>1, NotDecidedUnseen
<1>5. ASSUME NEW i \in SurvSlots, \/ WriteDestMark(i) \/ SendTraceWork(i) \/ CopyEnds(i) \/ TraceEnds(i)
                                  \/ SendTypeArray(i)
      PROVE  copier' = copier
  <2>1. Minor(i)
    BY <1>5, WriteDestMarkKeeps, SendTraceWorkKeeps, CopyEndsKeeps, TraceEndsKeeps,
       SendTypeArrayKeeps
  <2>. QED  BY <2>1, MinorUnseen
<1>6. ASSUME NEW i \in SurvSlots, SendDone(i) PROVE Survivor!Next
  BY <1>6, SendDoneSeen DEF Survivor!Next
<1>. QED  BY <1>1, <1>2, <1>3, <1>4, <1>5, <1>6 DEF SurvNext

\* GCOopProcess may rely on SurvivorSpec: one object of each of its slots at a
\* time, its address told to all before Done, and Done to the slot that asked,
\* with that address (ImplementsSurvivor).
THEOREM SurvivorImplemented == SurvSpec => ImplementsSurvivor
<1>1. SurvInit => Survivor!Init
  BY InitSeen
<1>2. IInv /\ IInv' /\ [SurvNext]_survVars => [Survivor!Next]_copier
  BY StepSeen
<1>. QED  BY <1>1, <1>2, Invariance, PTL DEF SurvSpec, ImplementsSurvivor, Survivor!Spec

-----------------------------------------------------------------------------
(***************************************************************************)
(* GCCopy.  A beat is cut into at most two parts, one for each line of the *)
(* destination it reaches.  Its invariant says where each part is: still   *)
(* to be read, waiting in a slot, in the entry of its line, or copied.     *)
(***************************************************************************)

\* The parts of a beat, and the line each goes to.
DstStart(b) == copy.dst + LogicalStart(b)
FirstBytes(b) == Smaller(ValidBytes(b), BeatBytes - (DstStart(b) % BeatBytes))
Part(b, k) ==
  IF k = 1 THEN DstStart(b) .. DstStart(b) + FirstBytes(b) - 1
  ELSE DstStart(b) + FirstBytes(b) .. DstStart(b) + ValidBytes(b) - 1
PartLine(b, k) == AlignDown(DstStart(b)) + (k - 1) * BeatBytes
Full(b, k) == [a \in Part(b, k) |-> SourceOf(a)]
BeatAddr(b) == AlignDown(copy.src) + b * BeatBytes
Destination == copy.dst .. copy.dst + copy.size - 1
BeatsToRead == 0 .. readBeatCount - 1

\* A beat under way is in its slot; a part of it is with the entry of its line
\* from the fragment to the answer of the write.
Slot(b) == b % GCCopyEntry
Busy(b) == rob[Slot(b)].busy /\ rob[Slot(b)].reqIdx = b
GivenTo(b, w) == \E j \in DOMAIN wcb[w].contrib : wcb[w].contrib[j] = <<Slot(b), b>>
InLine(b, k) == \E w \in WcbSlots : wcb[w].valid /\ wcb[w].line = PartLine(b, k) /\ GivenTo(b, w)

Bytes == UNION {[S -> Int] : S \in SUBSET Int}
CopyTyped ==
  /\ copy \in [valid : BOOLEAN, src : Nat, dst : Nat, size : Nat, epoch : Nat]
  /\ readReqIdx \in Nat /\ nextCommitIdx \in Nat /\ committedBytes \in Int
  /\ rob \in [RobSlots -> [busy : BOOLEAN, data : Int, reqIdx : Nat, frag : [1 .. 2 -> Bytes],
                           acks : Int]]
  /\ wcb \in [WcbSlots -> [valid : BOOLEAN, issued : BOOLEAN, line : Int, data : Bytes,
                           contrib : Seq(RobSlots \X Nat)]]
  /\ completion \in [0 .. CompletionEntries - 1 -> Int]
  /\ copyReads \subseteq [slot : RobSlots, addr : Int]
  /\ copyWrites \subseteq [wcb : WcbSlots, data : Bytes]
  /\ copied \in Bytes
  /\ predecode \in [addr : Int, epoch : Nat, valid : BOOLEAN, beat : Int, offset : Int]

\* Beats are read and written within the window of the completion bits.
Window ==
  /\ nextCommitIdx <= readReqIdx /\ readReqIdx <= readBeatCount
  /\ readReqIdx - nextCommitIdx <= CompletionEntries
  /\ committedBytes = IF nextCommitIdx = readBeatCount THEN copy.size
                      ELSE LogicalStart(nextCommitIdx)
SlotsInWindow ==
  \A i \in RobSlots :
    /\ rob[i].busy => /\ rob[i].reqIdx \in nextCommitIdx .. readReqIdx - 1
                      /\ Slot(rob[i].reqIdx) = i
    /\ ~rob[i].busy => rob[i].frag[1] = <<>> /\ rob[i].frag[2] = <<>>
CompletedInWindow ==
  \A k \in DOMAIN completion : completion[k] # NoBeat =>
    /\ completion[k] \in nextCommitIdx .. readReqIdx - 1
    /\ CompletionIndex(completion[k]) = k
    /\ ~Busy(completion[k])
QuietBetween ==
  ~copy.valid => /\ \A i \in RobSlots : ~rob[i].busy
                 /\ \A w \in WcbSlots : ~wcb[w].valid

\* What the memory port has is what a slot or an entry waits for.
ReadsAwaited ==
  \A r \in copyReads : /\ rob[r.slot].busy /\ rob[r.slot].data = NoBeat
                       /\ r.addr = BeatAddr(rob[r.slot].reqIdx)
WritesAwaited ==
  \A w \in copyWrites : /\ wcb[w.wcb].valid /\ wcb[w.wcb].issued
                        /\ w.data = wcb[w.wcb].data

\* Where the parts of a beat are.
B(P) == IF P THEN 1 ELSE 0
PartPlaced(i, b, k) ==
  \/ rob[i].frag[k] = Full(b, k) /\ Part(b, k) # {} /\ ~InLine(b, k)
  \/ rob[i].frag[k] = <<>> /\ (InLine(b, k) \/ Part(b, k) \subseteq DOMAIN copied)
SlotState(i) ==
  LET b == rob[i].reqIdx IN
  /\ rob[i].data = NoBeat => \A k \in 1 .. 2 : rob[i].frag[k] = <<>> /\ ~InLine(b, k)
  /\ rob[i].data # NoBeat => rob[i].data = BeatAddr(b) /\ \A k \in 1 .. 2 : PartPlaced(i, b, k)
  /\ rob[i].acks = B(InLine(b, 1)) + B(InLine(b, 2))
SlotsKnown == \A i \in RobSlots : rob[i].busy => SlotState(i)

\* An entry has what its one or two beats have in its line.
Gives(c, w) == /\ c[1] = Slot(c[2]) /\ Busy(c[2])
               /\ \E k \in 1 .. 2 : PartLine(c[2], k) = wcb[w].line /\ Part(c[2], k) # {}
LineKnown(w) ==
  /\ Len(wcb[w].contrib) \in 1 .. 2
  /\ \A j \in DOMAIN wcb[w].contrib : Gives(wcb[w].contrib[j], w)
  /\ Len(wcb[w].contrib) = 2 => wcb[w].contrib[1] # wcb[w].contrib[2]
  /\ DOMAIN wcb[w].data =
       {a \in Destination : AlignDown(a) = wcb[w].line /\ GivenTo(BeatOf(a), w)}
  /\ \A a \in DOMAIN wcb[w].data : wcb[w].data[a] = SourceOf(a)
  /\ wcb[w].issued => Expected(wcb[w].line) \subseteq DOMAIN wcb[w].data
LinesKnown == \A w \in WcbSlots : wcb[w].valid => LineKnown(w)
LinesApart ==
  \A w, v \in WcbSlots : wcb[w].valid /\ wcb[v].valid /\ wcb[w].line = wcb[v].line => w = v

CopiedRight == \A a \in DOMAIN copied : a \in Destination /\ copied[a] = SourceOf(a)
BeatCopied(b) == \A k \in 1 .. 2 : Part(b, k) \subseteq DOMAIN copied
DoneCopied == \A b \in 0 .. readReqIdx - 1 : ~Busy(b) => BeatCopied(b)

\* A position that was worked out for this copy.
OfThisCopy == predecode.valid /\ predecode.epoch = copy.epoch
PredecodeKnown ==
  /\ predecode.epoch <= copy.epoch
  /\ OfThisCopy => /\ InCopyRange(predecode.addr) /\ InCopyRange(predecode.addr + 1)
                   /\ predecode.beat = BeatOf(predecode.addr)
                   /\ predecode.offset = OffsetOf(predecode.addr)

CopyInv ==
  /\ CopyTyped /\ Window /\ SlotsInWindow /\ CompletedInWindow /\ QuietBetween
  /\ ReadsAwaited /\ WritesAwaited /\ SlotsKnown /\ LinesKnown /\ LinesApart
  /\ CopiedRight /\ DoneCopied /\ PredecodeKnown

(* Lines and beats.                                                        *)

LEMMA Mult == ASSUME NEW n \in Nat \ {0}, NEW b \in Int, NEW c \in Int, b < c
              PROVE  n * c >= n * b + n
OBVIOUS

LEMMA Division == ASSUME NEW x \in Int, NEW n \in Nat \ {0}
                  PROVE  /\ x \div n \in Int /\ x % n \in 0 .. n - 1
                         /\ x = n * (x \div n) + (x % n)
OBVIOUS

LEMMA DivisionUnique ==
  ASSUME NEW n \in Nat \ {0}, NEW q \in Int, NEW r \in 0 .. n - 1
  PROVE  (n * q + r) \div n = q /\ (n * q + r) % n = r
OBVIOUS

\* Numbers less than n apart have different remainders.
LEMMA ModDistinct ==
  ASSUME NEW n \in Nat \ {0}, NEW b \in Int, NEW c \in Int, b % n = c % n, b < c + n, c < b + n
  PROVE  b = c
<1>1. PICK p \in Int : b = n * p + (b % n)
  BY Division
<1>2. PICK q \in Int : c = n * q + (c % n)
  BY Division
<1>3. b % n \in Int
  BY Division
<1>4. ~(p < q) /\ ~(q < p)
  BY <1>1, <1>2, <1>3, Mult
<1>5. QED
  BY <1>1, <1>2, <1>4

\* Where the line of an address begins.
LEMMA LineBegins ==
  ASSUME NEW a \in Int
  PROVE  /\ AlignDown(a) \in Int /\ AlignDown(a) <= a /\ a < AlignDown(a) + BeatBytes
         /\ a % BeatBytes = a - AlignDown(a)
         /\ \E q \in Int : AlignDown(a) = BeatBytes * q
<1>1. BeatBytes \in Nat \ {0}
  BY CopyEntriesAssumption
<1>2. PICK q \in Int, m \in 0 .. BeatBytes - 1 : a = BeatBytes * q + m /\ a % BeatBytes = m
  BY <1>1, Division
<1>3. AlignDown(a) = a - m
  BY <1>2 DEF AlignDown
<1>4. AlignDown(a) = BeatBytes * q
  BY <1>1, <1>2, <1>3
<1>5. QED
  BY <1>1, <1>2, <1>3, <1>4

LEMMA LineOfAddress ==
  ASSUME NEW a \in Int, NEW q \in Int, BeatBytes * q <= a, a < BeatBytes * q + BeatBytes
  PROVE  AlignDown(a) = BeatBytes * q
<1>1. BeatBytes \in Nat \ {0} /\ BeatBytes * q \in Int
  BY CopyEntriesAssumption
<1>2. PICK r \in 0 .. BeatBytes - 1 : a = BeatBytes * q + r
  <2>1. a - BeatBytes * q \in 0 .. BeatBytes - 1
    BY <1>1
  <2>2. QED
    BY <1>1, <2>1
<1>3. a % BeatBytes = r
  BY <1>1, <1>2, DivisionUnique
<1>4. QED
  BY <1>1, <1>2, <1>3 DEF AlignDown

LEMMA NextLine ==
  ASSUME NEW a \in Int, NEW l \in Int, AlignDown(l) = l, l <= a, a < l + BeatBytes
  PROVE  AlignDown(a) = l
<1>1. PICK q \in Int : l = BeatBytes * q
  BY LineBegins
<1>2. QED
  BY <1>1, LineOfAddress

LEMMA LineOfLine ==
  ASSUME NEW a \in Int
  PROVE  /\ AlignDown(AlignDown(a)) = AlignDown(a)
         /\ AlignDown(AlignDown(a) + BeatBytes) = AlignDown(a) + BeatBytes
<1>1. PICK q \in Int : AlignDown(a) = BeatBytes * q
  BY LineBegins
<1>2. BeatBytes \in Nat \ {0} /\ BeatBytes * q \in Int
        /\ BeatBytes * (q + 1) = BeatBytes * q + BeatBytes
  BY CopyEntriesAssumption
<1>3. AlignDown(BeatBytes * q) = BeatBytes * q
  BY <1>2, LineOfAddress
<1>4. \A p \in Int : BeatBytes * p \in Int /\ AlignDown(BeatBytes * p) = BeatBytes * p
  <2> TAKE p \in Int
  <2>1. PICK x \in Int : x = BeatBytes * p
    BY <1>2
  <2>2. BeatBytes * p <= x /\ x < BeatBytes * p + BeatBytes
    BY <1>2, <2>1
  <2>3. AlignDown(x) = BeatBytes * p
    BY <2>2, LineOfAddress
  <2>4. QED
    BY <2>1, <2>3
<1>5. QED
  BY <1>1, <1>2, <1>3, <1>4, q + 1 \in Int

\* A part of the command's own arithmetic: where it begins in its first beat,
\* and how many beats it has.
CommandTyped == copy \in [valid : BOOLEAN, src : Nat, dst : Nat, size : Nat, epoch : Nat]

LEMMA Beats ==
  ASSUME CommandTyped
  PROVE  /\ BeatBytes \in Nat \ {0}
         /\ srcOff \in 0 .. BeatBytes - 1 /\ srcOff = copy.src - AlignDown(copy.src)
         /\ readBeatCount \in Nat
         /\ copy.size = 0 => readBeatCount = 0
         /\ copy.size # 0 => /\ readBeatCount # 0
                             /\ BeatBytes * (readBeatCount - 1) < srcOff + copy.size
                             /\ srcOff + copy.size <= BeatBytes * readBeatCount
         /\ copy.src \in Nat /\ copy.dst \in Nat /\ copy.size \in Nat
<1>1. BeatBytes \in Nat \ {0} /\ copy.src \in Nat /\ copy.size \in Nat /\ copy.dst \in Nat
  BY CopyEntriesAssumption DEF CommandTyped
<1>2. srcOff \in 0 .. BeatBytes - 1 /\ srcOff = copy.src - AlignDown(copy.src)
  <2>1. PICK s \in Int : s = copy.src
    BY <1>1
  <2>2. s % BeatBytes \in 0 .. BeatBytes - 1 /\ s % BeatBytes = s - AlignDown(s)
    BY <1>1, Division, LineBegins
  <2>3. QED
    BY <2>1, <2>2 DEF srcOff
<1>3. CASE copy.size = 0
  BY <1>1, <1>2, <1>3 DEF readBeatCount
<1>4. CASE copy.size # 0
  <2> DEFINE x == srcOff + copy.size + BeatBytes - 1
             q == x \div BeatBytes
  <2>1. x \in Nat /\ x >= BeatBytes
    BY <1>1, <1>2, <1>4
  <2>2. q \in Int /\ BeatBytes * q <= x /\ x < BeatBytes * q + BeatBytes
    <3> HIDE DEF x
    <3>1. x \in Int
      BY <2>1
    <3>2. q \in Int /\ x % BeatBytes \in 0 .. BeatBytes - 1 /\ x = BeatBytes * q + (x % BeatBytes)
      BY <1>1, <3>1, Division
    <3>3. BeatBytes * q \in Int
      BY <1>1, <3>2
    <3> HIDE DEF q
    <3>4. QED
      BY <1>1, <3>1, <3>2, <3>3
  <2>3. ~(q < 1)
    BY <1>1, <2>1, <2>2, Mult
  <2>4. readBeatCount = q
    BY <1>4 DEF readBeatCount
  <2>5. BeatBytes * q \in Int /\ BeatBytes * (q - 1) = BeatBytes * q - BeatBytes
    BY <1>1, <2>2
  <2> HIDE DEF q
  <2>6. QED
    BY <1>1, <1>2, <1>4, <2>1, <2>2, <2>3, <2>4, <2>5
<1>5. QED
  BY <1>3, <1>4

LEMMA BeatBounds ==
  ASSUME CommandTyped, NEW b \in BeatsToRead
  PROVE  /\ b \in Nat /\ copy.size # 0 /\ LogicalStart(b) \in 0 .. copy.size - 1
         /\ ValidBytes(b) \in 1 .. BeatBytes
         /\ LogicalStart(b) + ValidBytes(b) = Smaller(copy.size, BeatBytes * b + BeatBytes - srcOff)
         /\ LogicalStart(b) = IF b = 0 THEN 0 ELSE BeatBytes * b - srcOff
         /\ LogicalStart(b) + ValidBytes(b)
              = IF b + 1 = readBeatCount THEN copy.size ELSE LogicalStart(b + 1)
<1>1. /\ b \in Nat /\ b < readBeatCount /\ readBeatCount \in Nat /\ BeatBytes \in Nat \ {0}
      /\ copy.size \in Nat /\ copy.size # 0 /\ srcOff \in 0 .. BeatBytes - 1
      /\ BeatBytes * (readBeatCount - 1) < srcOff + copy.size
      /\ srcOff + copy.size <= BeatBytes * readBeatCount
  BY Beats DEF BeatsToRead
<1>2. PICK n \in Nat \ {0}, o \in Nat, z \in Nat \ {0}, c \in Nat :
        n = BeatBytes /\ o = srcOff /\ z = copy.size /\ c = readBeatCount
  <2>1. BeatBytes \in Nat \ {0} /\ copy.size \in Nat \ {0} /\ readBeatCount \in Nat
    BY <1>1
  <2>2. srcOff \in Nat
    BY <1>1
  <2>3. QED
    BY <2>1, <2>2
<1>3. PICK x \in Int : x = n * b
  BY <1>1, <1>2
<1>4. n * (b + 1) = x + n /\ b * n = x /\ (b + 1) * n = x + n /\ (b = 0 => x = 0)
  BY <1>1, <1>2, <1>3
<1>5. /\ b # 0 => x >= n
      /\ b + 1 = c => o + z <= x + n
      /\ b + 1 # c => x + n < o + z
      /\ x < o + z
  <2>1. b # 0 => x >= n
    BY <1>1, <1>2, <1>3, Mult
  <2>2. b + 1 = c => o + z <= x + n
    BY <1>1, <1>2, <1>4
  <2>3. b + 1 # c => n * (b + 1) <= n * (c - 1)
    <3>1. b + 1 = c - 1 => n * (b + 1) = n * (c - 1)
      OBVIOUS
    <3>2. b + 1 < c - 1 => n * (b + 1) + n <= n * (c - 1)
      BY <1>1, <1>2, Mult
    <3>3. n * (b + 1) \in Int /\ n * (c - 1) \in Int
      BY <1>1, <1>2
    <3>4. QED
      BY <1>1, <1>2, <3>1, <3>2, <3>3
  <2>4. n * (c - 1) \in Int /\ n * (c - 1) < o + z
    BY <1>1, <1>2
  <2>5. b + 1 # c => x + n < o + z
    BY <1>4, <2>3, <2>4
  <2>6. b + 1 = c => x = n * (c - 1)
    BY <1>1, <1>2, <1>3
  <2>7. QED
    BY <1>1, <1>2, <2>1, <2>2, <2>4, <2>5, <2>6
<1>6. LogicalStart(b) = IF b = 0 THEN 0 ELSE x - o
  BY <1>2, <1>4 DEF LogicalStart
<1>7. LogicalStart(b + 1) = x + n - o
  BY <1>1, <1>2, <1>4 DEF LogicalStart
<1>8. ValidStart(b) = IF b = 0 THEN o ELSE 0
  BY <1>2 DEF ValidStart
<1>9. ValidBytes(b) = IF z - LogicalStart(b) < n - ValidStart(b) THEN z - LogicalStart(b)
        ELSE n - ValidStart(b)
  BY <1>2 DEF ValidBytes, Smaller
<1>10. Smaller(copy.size, BeatBytes * b + BeatBytes - srcOff) = IF z < x + n - o THEN z
         ELSE x + n - o
  BY <1>2, <1>3 DEF Smaller
<1>11. o < n
  BY <1>1, <1>2
<1> DEFINE s == LogicalStart(b)
           v == ValidBytes(b)
<1>12. s \in Int /\ v \in Int /\ s \in 0 .. z - 1 /\ v \in 1 .. n
  BY <1>1, <1>2, <1>4, <1>5, <1>6, <1>8, <1>9, <1>11
<1>13. s + v = IF z < x + n - o THEN z ELSE x + n - o
  BY <1>1, <1>2, <1>4, <1>5, <1>6, <1>8, <1>9, <1>11
<1>14. s + v = IF b + 1 = c THEN z ELSE x + n - o
  BY <1>1, <1>2, <1>5, <1>13
<1> HIDE DEF s, v
<1>15. QED
  BY <1>1, <1>2, <1>3, <1>6, <1>7, <1>10, <1>12, <1>13, <1>14 DEF s, v

\* The beat of an address of the destination, and the addresses of a beat.
BeatSpan(b) == DstStart(b) .. DstStart(b) + ValidBytes(b) - 1

LEMMA InBeat ==
  ASSUME CommandTyped, NEW b \in BeatsToRead, NEW a \in Int
  PROVE  a \in BeatSpan(b) <=> /\ a \in Destination
                            /\ BeatBytes * b <= srcOff + (a - copy.dst)
                            /\ srcOff + (a - copy.dst) < BeatBytes * b + BeatBytes
<1>1. PICK n \in Nat \ {0}, o \in Nat, z \in Nat, d \in Nat, x \in Int, s \in Int, v \in Int :
        /\ n = BeatBytes /\ o = srcOff /\ z = copy.size /\ d = copy.dst /\ x = BeatBytes * b
        /\ s = LogicalStart(b) /\ v = ValidBytes(b)
  <2>1. b \in Nat /\ LogicalStart(b) \in Int /\ ValidBytes(b) \in Int
    BY BeatBounds
  <2>2. BeatBytes \in Nat \ {0} /\ srcOff \in Nat /\ copy.size \in Nat /\ copy.dst \in Nat
    BY Beats
  <2>3. BeatBytes * b \in Int
    BY <2>1, <2>2
  <2>4. QED
    BY <2>1, <2>2, <2>3
<1>2. /\ s = IF b = 0 THEN 0 ELSE x - o
      /\ s + v = IF z < x + n - o THEN z ELSE x + n - o
      /\ s \in 0 .. z - 1
  BY <1>1, BeatBounds DEF Smaller
<1>3. o < n /\ (b = 0 => x = 0) /\ (b # 0 => x >= n)
  <2>1. srcOff < BeatBytes
    BY Beats
  <2>2. b \in Nat
    BY BeatBounds
  <2>3. b # 0 => x >= n
    BY <1>1, <2>2, Mult
  <2>4. QED
    BY <1>1, <2>1, <2>2, <2>3
<1>4. a \in BeatSpan(b) <=> d + s <= a /\ a < d + (s + v)
  BY <1>1 DEF BeatSpan, DstStart
<1>5. a \in Destination <=> d <= a /\ a < d + z
  BY <1>1 DEF Destination
<1>6. QED
  BY <1>1, <1>2, <1>3, <1>4, <1>5

LEMMA BeatOfAddress ==
  ASSUME CommandTyped, NEW a \in Destination
  PROVE  BeatOf(a) \in BeatsToRead /\ a \in BeatSpan(BeatOf(a))
<1>1. PICK n \in Nat \ {0}, o \in Nat, z \in Nat, d \in Nat, s \in Nat, c \in Nat :
        /\ n = BeatBytes /\ o = srcOff /\ z = copy.size /\ d = copy.dst /\ s = copy.src
        /\ c = readBeatCount
  <2>1. BeatBytes \in Nat \ {0} /\ srcOff \in 0 .. BeatBytes - 1 /\ readBeatCount \in Nat
    BY Beats
  <2>2. srcOff \in Nat /\ copy.size \in Nat /\ copy.dst \in Nat /\ copy.src \in Nat
    BY <2>1, Beats
  <2>3. QED
    BY <2>1, <2>2
<1>2. a \in Int /\ d <= a /\ a < d + z
  BY <1>1 DEF Destination
<1> DEFINE y == o + (a - d)
           b == y \div n
<1>3. y \in Nat /\ y < o + z
  BY <1>1, <1>2
<1>4. BeatOf(a) = b
  <2>1. AlignDown(s) \in Int /\ o = s - AlignDown(s)
    <3>1. AlignDown(s) \in Int
      BY <1>1, LineBegins
    <3>2. o = s - AlignDown(s)
      BY <1>1, Beats
    <3>3. QED
      BY <3>1, <3>2
  <2>2. SourceOf(a) - AlignDown(s) = y
    BY <1>1, <1>2, <2>1 DEF SourceOf
  <2>3. QED
    BY <1>1, <2>2 DEF BeatOf
<1>5. b \in Int /\ n * b <= y /\ y < n * b + n
  <2> HIDE DEF y
  <2>1. b \in Int /\ y % n \in 0 .. n - 1 /\ y = n * b + (y % n)
    BY <1>1, <1>3, Division
  <2>2. n * b \in Int
    BY <1>1, <2>1
  <2> HIDE DEF b
  <2>3. QED
    BY <1>1, <1>3, <2>1, <2>2
<1>6. o + z <= n * c
  BY <1>1, <1>2, Beats
<1> HIDE DEF y, b
<1>7. n * b \in Int /\ n * c \in Int
  BY <1>1, <1>5
<1>8. ~(b < 0)
  BY <1>1, <1>3, <1>5, <1>7, Mult
<1>9. ~(c < b) /\ b # c
  BY <1>1, <1>3, <1>5, <1>6, <1>7, Mult
<1>10. b \in BeatsToRead
  BY <1>1, <1>5, <1>8, <1>9 DEF BeatsToRead
<1>11. QED
  BY <1>1, <1>2, <1>4, <1>5, <1>10, InBeat DEF y

LEMMA AddressOfBeat ==
  ASSUME CommandTyped, NEW b \in BeatsToRead, NEW a \in Int, a \in BeatSpan(b)
  PROVE  a \in Destination /\ BeatOf(a) = b
<1>1. a \in Destination
  BY InBeat
<1>2. PICK c \in BeatsToRead : c = BeatOf(a) /\ a \in BeatSpan(c)
  BY <1>1, BeatOfAddress
<1>3. PICK n \in Nat \ {0}, y \in Int : n = BeatBytes /\ y = srcOff + (a - copy.dst)
  BY Beats
<1>4. n * b <= y /\ y < n * b + n /\ n * c <= y /\ y < n * c + n
  BY <1>2, <1>3, InBeat
<1>5. b \in Int /\ c \in Int /\ n * b \in Int /\ n * c \in Int
  BY <1>2, <1>3, BeatBounds
<1>6. ~(b < c) /\ ~(c < b)
  BY <1>3, <1>4, <1>5, Mult
<1>7. QED
  BY <1>1, <1>2, <1>5, <1>6

\* The parts of a beat: the first is never empty, each lies in one line.
LEMMA PartsOfBeat ==
  ASSUME CommandTyped, NEW b \in BeatsToRead
  PROVE  /\ Part(b, 1) \cup Part(b, 2) = BeatSpan(b) /\ Part(b, 1) \cap Part(b, 2) = {}
         /\ \A k \in 1 .. 2 :
              /\ Part(b, k) \subseteq Destination
              /\ PartLine(b, k) \in Int
              /\ \A a \in Part(b, k) : AlignDown(a) = PartLine(b, k) /\ BeatOf(a) = b
<1>1. PICK n \in Nat \ {0}, s \in Int, v \in Nat \ {0} :
        v <= n /\ n = BeatBytes /\ s = DstStart(b) /\ v = ValidBytes(b)
  <2>1. BeatBytes \in Nat \ {0} /\ copy.dst \in Nat
    BY Beats
  <2>2. LogicalStart(b) \in Int /\ ValidBytes(b) \in 1 .. BeatBytes
    BY BeatBounds
  <2>3. DstStart(b) \in Int
    BY <2>1, <2>2 DEF DstStart
  <2>4. QED
    BY <2>1, <2>2, <2>3
<1>2. PICK l \in Int : l = AlignDown(s) /\ l <= s /\ s < l + n /\ s % n = s - l
  BY <1>1, LineBegins
<1>3. /\ AlignDown(l) = l
      /\ AlignDown(l + n) = l + n
  BY <1>1, <1>2, LineOfLine
<1>4. PICK m \in Int : m = FirstBytes(b) /\ m = IF v < n - (s - l) THEN v ELSE n - (s - l)
  <2>1. FirstBytes(b) = IF v < n - (s - l) THEN v ELSE n - (s - l)
    BY <1>1, <1>2 DEF FirstBytes, Smaller
  <2>2. QED
    BY <1>1, <1>2, <2>1
<1>5. 1 <= m /\ m <= v /\ s + m <= l + n /\ (m < v => s + m = l + n)
  BY <1>1, <1>2, <1>4
<1>6. \A a : /\ a \in Part(b, 1) <=> a \in Int /\ s <= a /\ a < s + m
             /\ a \in Part(b, 2) <=> a \in Int /\ s + m <= a /\ a < s + v
             /\ a \in BeatSpan(b) <=> a \in Int /\ s <= a /\ a < s + v
  <2>1. /\ Part(b, 1) = s .. s + m - 1
        /\ Part(b, 2) = s + m .. s + v - 1
        /\ BeatSpan(b) = s .. s + v - 1
    BY <1>1, <1>4 DEF Part, BeatSpan
  <2>2. s + m - 1 \in Int /\ s + v - 1 \in Int
    BY <1>1, <1>4
  <2>3. PICK e \in Int, f \in Int : e = s + m /\ f = s + v
    BY <1>1, <1>4
  <2>4. /\ Part(b, 1) = s .. e - 1
        /\ Part(b, 2) = e .. f - 1
        /\ BeatSpan(b) = s .. f - 1
    BY <2>1, <2>3
  <2>5. \A x \in Int, y \in Int : \A a : a \in x .. y - 1 <=> a \in Int /\ x <= a /\ a < y
    OBVIOUS
  <2>6. QED
    BY <1>1, <2>3, <2>4, <2>5
<1>7. PartLine(b, 1) = l /\ PartLine(b, 2) = l + n
  BY <1>1, <1>2 DEF PartLine
<1>8. Part(b, 1) \cup Part(b, 2) = BeatSpan(b) /\ Part(b, 1) \cap Part(b, 2) = {}
  BY <1>1, <1>5, <1>6
<1>9. ASSUME NEW k \in 1 .. 2
      PROVE  /\ Part(b, k) \subseteq Destination
             /\ PartLine(b, k) \in Int
             /\ \A a \in Part(b, k) : AlignDown(a) = PartLine(b, k) /\ BeatOf(a) = b
  <2>1. PartLine(b, k) \in Int
    BY <1>1, <1>7
  <2>2. ASSUME NEW a \in Part(b, k)
        PROVE  a \in Destination /\ BeatOf(a) = b /\ AlignDown(a) = PartLine(b, k)
    <3>1. a \in Int /\ a \in BeatSpan(b)
      BY <1>6, <1>8
    <3>2. a \in Destination /\ BeatOf(a) = b
      BY <3>1, AddressOfBeat
    <3>3. CASE k = 1
      <4>1. l <= a /\ a < l + n
        BY <1>1, <1>2, <1>5, <1>6, <3>1, <3>3
      <4>2. AlignDown(a) = l
        BY <1>1, <1>3, <3>1, <4>1, NextLine
      <4>3. QED
        BY <1>7, <3>2, <3>3, <4>2
    <3>4. CASE k = 2
      <4>1. l + n <= a /\ a < l + n + n
        BY <1>1, <1>2, <1>5, <1>6, <3>1, <3>4
      <4>2. AlignDown(a) = l + n
        BY <1>1, <1>3, <3>1, <4>1, NextLine
      <4>3. QED
        BY <1>7, <3>2, <3>4, <4>2
    <3>5. QED
      BY <3>3, <3>4
  <2>3. QED
    BY <2>1, <2>2
<1>10. QED
  BY <1>8, <1>9

\* The two parts go to different lines.
LEMMA PartLinesApart ==
  ASSUME CommandTyped, NEW b \in BeatsToRead
  PROVE  PartLine(b, 1) # PartLine(b, 2)
<1>1. DstStart(b) \in Int
  <2>1. LogicalStart(b) \in Int /\ copy.dst \in Int
    BY Beats, BeatBounds
  <2>2. QED
    BY <2>1 DEF DstStart
<1>2. PICK l \in Int, n \in Nat \ {0} : l = AlignDown(DstStart(b)) /\ n = BeatBytes
  BY <1>1, LineBegins, Beats
<1>3. QED
  BY <1>2 DEF PartLine

\* What a beat has in a line is its part there.
LEMMA PartOfAddress ==
  ASSUME CommandTyped, NEW a \in Destination
  PROVE  \E k \in 1 .. 2 : a \in Part(BeatOf(a), k) /\ AlignDown(a) = PartLine(BeatOf(a), k)
<1>1. PICK b \in BeatsToRead : b = BeatOf(a) /\ a \in BeatSpan(b)
  BY BeatOfAddress
<1>2. PICK k \in 1 .. 2 : a \in Part(b, k)
  <2>1. a \in Part(b, 1) \/ a \in Part(b, 2)
    BY <1>1, PartsOfBeat
  <2>2. QED
    BY <2>1
<1>3. QED
  BY <1>1, <1>2, PartsOfBeat

LEMMA PartIs ==
  ASSUME CommandTyped, NEW b \in BeatsToRead, NEW k \in 1 .. 2
  PROVE  Part(b, k) = {a \in Destination : BeatOf(a) = b /\ AlignDown(a) = PartLine(b, k)}
<1>1. ASSUME NEW a \in Destination, BeatOf(a) = b, AlignDown(a) = PartLine(b, k)
      PROVE  a \in Part(b, k)
  <2>1. PICK j \in 1 .. 2 : a \in Part(b, j) /\ PartLine(b, k) = PartLine(b, j)
    BY <1>1, PartOfAddress
  <2>2. j = k
    BY <2>1, PartLinesApart
  <2>3. QED
    BY <2>1, <2>2
<1>2. QED
  BY <1>1, PartsOfBeat

\* No three beats reach one line: two that do have all of it.
LEMMA TwoBeatsFillLine ==
  ASSUME CommandTyped, NEW b \in BeatsToRead, NEW c \in BeatsToRead, b # c,
         NEW j \in 1 .. 2, NEW k \in 1 .. 2, Part(b, j) # {}, Part(c, k) # {},
         PartLine(b, j) = PartLine(c, k),
         NEW a \in Destination, AlignDown(a) = PartLine(b, j)
  PROVE  BeatOf(a) \in {b, c}
<1>1. PICK x \in Part(b, j) : TRUE
  OBVIOUS
<1>2. PICK y \in Part(c, k) : TRUE
  OBVIOUS
<1>3. PICK e \in BeatsToRead : e = BeatOf(a) /\ a \in BeatSpan(e)
  BY BeatOfAddress
<1>4. /\ x \in Destination /\ AlignDown(x) = PartLine(b, j) /\ x \in BeatSpan(b)
      /\ y \in Destination /\ AlignDown(y) = PartLine(b, j) /\ y \in BeatSpan(c)
  <2>1. x \in Part(b, 1) \cup Part(b, 2)
    BY <1>1
  <2>2. y \in Part(c, 1) \cup Part(c, 2)
    BY <1>2
  <2>3. QED
    BY <1>1, <1>2, <2>1, <2>2, PartsOfBeat
<1>5. PICK n \in Nat \ {0}, d \in Int, l \in Int :
        n = BeatBytes /\ d = srcOff - copy.dst /\ l = PartLine(b, j)
  BY Beats, PartsOfBeat
<1>6. a \in Int /\ x \in Int /\ y \in Int
  BY <1>4, Beats DEF Destination
<1>7. \A z \in Destination : AlignDown(z) = l => l <= z /\ z < l + n
  <2>1. TAKE z \in Destination
  <2>2. z \in Int
    BY Beats DEF Destination
  <2>3. QED
    BY <1>5, <2>2, LineBegins
<1>8. l <= a /\ a < l + n /\ l <= x /\ x < l + n /\ l <= y /\ y < l + n
  BY <1>4, <1>5, <1>7
<1>9. b \in Int /\ c \in Int /\ e \in Int
  BY BeatBounds
<1>10. \A g \in BeatsToRead : \A z \in Int : z \in BeatSpan(g) => n * g <= z + d
         /\ z + d < n * g + n
  <2>1. TAKE g \in BeatsToRead
  <2>2. TAKE z \in Int
  <2>3. srcOff + (z - copy.dst) = z + d
    BY <1>5, Beats
  <2>4. QED
    BY <1>5, <2>3, InBeat
<1>11. PICK p \in Int, q \in Int, r \in Int : p = n * b /\ q = n * c /\ r = n * e
  BY <1>9
<1>12. /\ p <= x + d /\ x + d < p + n /\ q <= y + d /\ y + d < q + n
       /\ r <= a + d /\ a + d < r + n
  BY <1>3, <1>4, <1>6, <1>10, <1>11
<1>13. \A g, h \in Int : g < h => n * h >= n * g + n
  BY Mult
<1>14. /\ b < c => q >= p + n
       /\ c < b => p >= q + n
       /\ b < e => r >= p + n
       /\ e < b => p >= r + n
       /\ c < e => r >= q + n
       /\ e < c => q >= r + n
  BY <1>9, <1>11, <1>13
<1>15. SUFFICES ASSUME e # b, e # c PROVE FALSE
  BY <1>3
<1>16. \/ b < e /\ e < c
       \/ e < b /\ b < c
       \/ b < c /\ c < e
       \/ c < e /\ e < b
       \/ e < c /\ c < b
       \/ c < b /\ b < e
  BY <1>9, <1>15
<1>17. QED
  BY <1>5, <1>6, <1>8, <1>12, <1>14, <1>16

(* Between commands.                                                       *)

\* Nothing has been read yet and nothing is under way.
Clean ==
  /\ CommandTyped
  /\ readReqIdx = 0 /\ nextCommitIdx = 0 /\ committedBytes = 0
  /\ rob = [i \in RobSlots |-> FreeSlot] /\ wcb = [w \in WcbSlots |-> FreeWcb]
  /\ completion = [i \in 0 .. CompletionEntries - 1 |-> NoBeat]
  /\ copyReads = {} /\ copyWrites = {} /\ copied = <<>>
  /\ predecode \in [addr : Int, epoch : Nat, valid : BOOLEAN, beat : Int, offset : Int]
  /\ predecode.epoch <= copy.epoch /\ ~OfThisCopy

LEMMA NothingAsBytes == <<>> \in Bytes /\ DOMAIN <<>> = {}
<1>1. <<>> \in [{} -> Int]
  OBVIOUS
<1>2. QED
  BY <1>1 DEF Bytes

LEMMA FreeTyped ==
  /\ FreeSlot \in [busy : BOOLEAN, data : Int, reqIdx : Nat, frag : [1 .. 2 -> Bytes], acks : Int]
  /\ FreeWcb \in [valid : BOOLEAN, issued : BOOLEAN, line : Int, data : Bytes,
                  contrib : Seq(RobSlots \X Nat)]
  /\ FreeSlot.busy = FALSE /\ FreeSlot.frag[1] = <<>> /\ FreeSlot.frag[2] = <<>>
  /\ FreeWcb.valid = FALSE
<1>1. PICK e \in Bytes : e = <<>>
  BY NothingAsBytes
<1>2. <<e, e>> \in [1 .. 2 -> Bytes] /\ <<e, e>>[1] = e /\ <<e, e>>[2] = e
  OBVIOUS
<1>3. PICK g \in [1 .. 2 -> Bytes] : g = <<e, e>> /\ g[1] = e /\ g[2] = e
  BY <1>2
<1>4. PICK m \in Int : m = NoBeat
  BY DEF NoBeat
<1>5. FreeSlot = [busy |-> FALSE, data |-> m, reqIdx |-> 0, frag |-> g, acks |-> 0]
  BY <1>1, <1>3, <1>4 DEF FreeSlot
<1>6. FreeWcb = [valid |-> FALSE, issued |-> FALSE, line |-> 0, data |-> e, contrib |-> <<>>]
  BY <1>1 DEF FreeWcb
<1>7. <<>> \in Seq(RobSlots \X Nat)
  OBVIOUS
<1>8. QED
  BY <1>1, <1>3, <1>5, <1>6, <1>7

LEMMA CleanKnown == Clean => CopyInv
<1> SUFFICES ASSUME Clean PROVE CopyInv
  OBVIOUS
<1> USE DEF Clean
<1>1. CopyTyped
  <2>1. NoBeat \in Int
    BY DEF NoBeat
  <2>2. QED
    BY <2>1, NothingAsBytes, FreeTyped DEF CopyTyped, CommandTyped
<1>2. readBeatCount \in Nat /\ (copy.size = 0 <=> readBeatCount = 0)
  BY Beats
<1>3. \A i \in RobSlots : ~rob[i].busy /\ rob[i].frag[1] = <<>> /\ rob[i].frag[2] = <<>>
  BY FreeTyped
<1>4. \A w \in WcbSlots : ~wcb[w].valid
  BY FreeTyped
<1>5. Window
  BY <1>2, CopyEntriesAssumption DEF Window, LogicalStart
<1>6. SlotsInWindow /\ QuietBetween /\ SlotsKnown /\ LinesKnown /\ LinesApart
  BY <1>3, <1>4 DEF SlotsInWindow, QuietBetween, SlotsKnown, LinesKnown, LinesApart
<1>7. CompletedInWindow
  BY DEF CompletedInWindow
<1>8. ReadsAwaited /\ WritesAwaited
  BY DEF ReadsAwaited, WritesAwaited
<1>9. CopiedRight
  BY NothingAsBytes DEF CopiedRight
<1>10. DoneCopied
  BY DEF DoneCopied
<1>11. PredecodeKnown
  BY DEF PredecodeKnown
<1>12. QED
  BY <1>1, <1>5, <1>6, <1>7, <1>8, <1>9, <1>10, <1>11 DEF CopyInv

LEMMA CopyInitHolds == CopyInit => CopyInv
<1> SUFFICES ASSUME CopyInit PROVE CopyInv
  OBVIOUS
<1>1. CommandTyped
  BY DEF CopyInit, CommandTyped
<1>2. predecode \in [addr : Int, epoch : Nat, valid : BOOLEAN, beat : Int, offset : Int]
  BY DEF CopyInit, NoQuery
<1>3. predecode.epoch <= copy.epoch /\ ~OfThisCopy
  BY DEF CopyInit, NoQuery, OfThisCopy
<1>4. QED
  BY <1>1, <1>2, <1>3, CleanKnown DEF CopyInit, Clean

LEMMA StartCopyKeeps ==
  ASSUME CopyInv, NEW c \in Copies, StartCopy(c)
  PROVE  CopyInv'
<1>1. copyReads = {} /\ copyWrites = {}
  <2>1. ~copy.valid
    BY DEF StartCopy
  <2>2. \A r \in copyReads : r.slot \in RobSlots /\ rob[r.slot].busy
    BY DEF CopyInv, CopyTyped, ReadsAwaited
  <2>3. \A w \in copyWrites : w.wcb \in WcbSlots /\ wcb[w.wcb].valid
    BY DEF CopyInv, CopyTyped, WritesAwaited
  <2>4. QED
    BY <2>1, <2>2, <2>3 DEF CopyInv, QuietBetween
<1>2. CommandTyped'
  <2>1. c.src \in Nat /\ c.dst \in Nat /\ c.size \in Nat
    BY CopyEntriesAssumption
  <2>2. copy.epoch + 1 \in Nat
    BY DEF CopyInv, CopyTyped
  <2>3. QED
    BY <2>1, <2>2 DEF StartCopy, CommandTyped
<1>3. (predecode.epoch <= copy.epoch /\ ~OfThisCopy)'
  <2>1. predecode' = predecode /\ copy'.epoch = copy.epoch + 1
    BY DEF StartCopy
  <2>2. predecode.epoch \in Nat /\ copy.epoch \in Nat /\ predecode.epoch <= copy.epoch
    BY DEF CopyInv, CopyTyped, PredecodeKnown
  <2>3. QED
    BY <2>1, <2>2 DEF OfThisCopy
<1>4. DOMAIN completion = 0 .. CompletionEntries - 1
  BY DEF CopyInv, CopyTyped
<1>5. (predecode \in [addr : Int, epoch : Nat, valid : BOOLEAN, beat : Int, offset : Int])'
  BY DEF StartCopy, CopyInv, CopyTyped
<1>6. Clean'
  BY <1>1, <1>2, <1>3, <1>4, <1>5 DEF StartCopy, Clean
<1>7. QED
  BY <1>6, CleanKnown, PTL

\* What is said of beats and lines depends on the command only.
SameCommand == copy'.src = copy.src /\ copy'.dst = copy.dst /\ copy'.size = copy.size

LEMMA CommandKept ==
  ASSUME SameCommand
  PROVE  /\ readBeatCount' = readBeatCount /\ Destination' = Destination
         /\ BeatsToRead' = BeatsToRead
         /\ \A b : /\ LogicalStart(b)' = LogicalStart(b) /\ ValidBytes(b)' = ValidBytes(b)
                   /\ BeatAddr(b)' = BeatAddr(b)
         /\ \A b, k : /\ Part(b, k)' = Part(b, k) /\ PartLine(b, k)' = PartLine(b, k)
                      /\ Full(b, k)' = Full(b, k)
         /\ \A a : /\ BeatOf(a)' = BeatOf(a) /\ OffsetOf(a)' = OffsetOf(a)
                   /\ SourceOf(a)' = SourceOf(a) /\ InCopyRange(a)' = InCopyRange(a)
<1> USE DEF SameCommand, srcOff
<1>1. readBeatCount' = readBeatCount /\ Destination' = Destination
  BY DEF readBeatCount, Destination
<1>2. BeatsToRead' = BeatsToRead
  BY <1>1 DEF BeatsToRead
<1>3. \A b : /\ LogicalStart(b)' = LogicalStart(b) /\ ValidBytes(b)' = ValidBytes(b)
             /\ BeatAddr(b)' = BeatAddr(b)
  BY DEF LogicalStart, ValidBytes, BeatAddr, ValidStart
<1>4. \A b, k : Part(b, k)' = Part(b, k) /\ PartLine(b, k)' = PartLine(b, k)
  BY <1>3 DEF Part, PartLine, DstStart, FirstBytes
<1>5. \A a : /\ BeatOf(a)' = BeatOf(a) /\ OffsetOf(a)' = OffsetOf(a)
             /\ SourceOf(a)' = SourceOf(a) /\ InCopyRange(a)' = InCopyRange(a)
  BY DEF BeatOf, OffsetOf, SourceOf, InCopyRange
<1>6. \A b, k : Full(b, k)' = Full(b, k)
  BY <1>4, <1>5 DEF Full
<1>7. QED
  BY <1>1, <1>2, <1>3, <1>4, <1>5, <1>6

LEMMA Commanded == ASSUME CopyInv PROVE CommandTyped
BY DEF CopyInv, CopyTyped, CommandTyped

\* What does not touch the slots and entries keeps all that is said of them.
LEMMA AsideKeeps ==
  ASSUME CopyInv, SameCommand, CommandTyped', copy'.valid => copy.valid,
         ~copy'.valid => (\A i \in RobSlots : ~rob[i].busy) /\ (\A w \in WcbSlots : ~wcb[w].valid),
         UNCHANGED <<readReqIdx, nextCommitIdx, committedBytes, rob, completion, wcb,
                     copyReads, copyWrites, copied>>,
         predecode' \in [addr : Int, epoch : Nat, valid : BOOLEAN, beat : Int, offset : Int],
         PredecodeKnown'
  PROVE  CopyInv'
<1> USE CommandKept
<1>1. CopyTyped'
  BY DEF CopyInv, CopyTyped, CommandTyped
<1>2. \A b : Slot(b)' = Slot(b) /\ Busy(b)' = Busy(b)
  BY DEF Slot, Busy
<1>3. \A b, w : GivenTo(b, w)' = GivenTo(b, w)
  BY DEF GivenTo, Slot
<1>4. \A b, k : InLine(b, k)' = InLine(b, k)
  BY <1>3 DEF InLine
<1>5. Window'
  <2>1. Window
    BY DEF CopyInv
  <2>2. PICK m : m = nextCommitIdx /\ m = nextCommitIdx'
    OBVIOUS
  <2>3. LogicalStart(nextCommitIdx)' = LogicalStart(nextCommitIdx)
    BY <2>2 DEF LogicalStart, SameCommand, srcOff
  <2>4. copy'.size = copy.size
    BY DEF SameCommand
  <2>5. QED
    BY <2>1, <2>3, <2>4 DEF Window
<1>6. SlotsInWindow'
  BY <1>2 DEF CopyInv, SlotsInWindow
<1>7. CompletedInWindow'
  BY <1>2 DEF CopyInv, CompletedInWindow, CompletionIndex
<1>8. QuietBetween'
  BY DEF CopyInv, QuietBetween
<1>9. ReadsAwaited' /\ WritesAwaited'
  BY DEF CopyInv, ReadsAwaited, WritesAwaited
<1>10. SlotsKnown'
  <2>1. SlotsKnown
    BY DEF CopyInv
  <2>2. ASSUME NEW i \in RobSlots, rob[i].busy, SlotState(i)
        PROVE  SlotState(i)'
    BY <1>4, <2>2 DEF SlotState, PartPlaced
  <2>3. QED
    BY <2>1, <2>2 DEF SlotsKnown
<1>11. LinesKnown'
  <2>1. LinesKnown
    BY DEF CopyInv
  <2>2. ASSUME NEW w \in WcbSlots, wcb[w].valid
        PROVE  LineKnown(w)'
    <3>1. LineKnown(w)
      BY <2>1, <2>2 DEF LinesKnown
    <3>2. copy.valid' /\ Expected(wcb[w].line)' = Expected(wcb[w].line)
      <4>1. copy'.valid /\ copy.valid
        BY <2>2
      <4>2. QED
        BY <4>1 DEF Expected
    <3>3. \A c : Gives(c, w)' = Gives(c, w)
      BY <1>2 DEF Gives
    <3>4. {a \in Destination : AlignDown(a) = wcb[w].line /\ GivenTo(BeatOf(a), w)}'
            = {a \in Destination : AlignDown(a) = wcb[w].line /\ GivenTo(BeatOf(a), w)}
      <4>1. \A a : GivenTo(BeatOf(a), w)' = GivenTo(BeatOf(a), w)
        BY DEF GivenTo, Slot
      <4>2. \A a : AlignDown(a)' = AlignDown(a)
        BY DEF AlignDown
      <4>3. QED
        BY <4>1, <4>2
    <3>5. QED
      BY <3>1, <3>2, <3>3, <3>4 DEF LineKnown
  <2>3. QED
    BY <2>2 DEF LinesKnown
<1>12. LinesApart'
  BY DEF CopyInv, LinesApart
<1>13. CopiedRight'
  BY DEF CopyInv, CopiedRight
<1>14. DoneCopied'
  BY <1>2 DEF CopyInv, DoneCopied, BeatCopied
<1>15. QED
  BY <1>1, <1>5, <1>6, <1>7, <1>8, <1>9, <1>10, <1>11, <1>12, <1>13, <1>14 DEF CopyInv

LEMMA EndCopyKeeps == ASSUME CopyInv, EndCopy PROVE CopyInv'
<1>1. copy \in [valid : BOOLEAN, src : Nat, dst : Nat, size : Nat, epoch : Nat]
  BY DEF CopyInv, CopyTyped
<1>2. copy' = [copy EXCEPT !.valid = FALSE]
  BY DEF EndCopy
<1>3. SameCommand /\ copy'.epoch = copy.epoch /\ ~copy'.valid /\ CommandTyped'
  BY <1>1, <1>2 DEF SameCommand, CommandTyped
<1>4. (\A i \in RobSlots : ~rob[i].busy) /\ (\A w \in WcbSlots : ~wcb[w].valid)
  BY DEF EndCopy, taskDoneNow
<1>5. predecode' = predecode
  BY DEF EndCopy
<1>6. PredecodeKnown'
  BY <1>3, <1>5, CommandKept DEF CopyInv, PredecodeKnown, OfThisCopy
<1>7. predecode' \in [addr : Int, epoch : Nat, valid : BOOLEAN, beat : Int, offset : Int]
  BY <1>5 DEF CopyInv, CopyTyped
<1>8. UNCHANGED <<readReqIdx, nextCommitIdx, committedBytes, rob, completion, wcb,
                  copyReads, copyWrites, copied>>
  BY DEF EndCopy
<1>9. QED
  BY <1>3, <1>4, <1>6, <1>7, <1>8, AsideKeeps

LEMMA PositionKept ==
  ASSUME CopyInv, NEW a \in Queried, prepareCopyReadMeta(a)
  PROVE  CopyInv'
<1>1. copy' = copy /\ CommandTyped
  BY Commanded DEF prepareCopyReadMeta
<1>2. SameCommand /\ CommandTyped'
  BY <1>1 DEF SameCommand, CommandTyped
<1>3. a \in Int
  BY CopyEntriesAssumption
<1>4. /\ BeatOf(a) \in Int /\ OffsetOf(a) \in Int
  <2>1. PICK s \in Int, x \in Int, n \in Nat \ {0} :
          s = SourceOf(a) /\ x = AlignDown(copy.src) /\ n = BeatBytes
    <3>1. copy.src \in Int /\ copy.dst \in Int /\ BeatBytes \in Nat \ {0}
      BY <1>1, Beats
    <3>2. SourceOf(a) \in Int
      BY <1>3, <3>1 DEF SourceOf
    <3>3. PICK c \in Int : c = copy.src
      BY <3>1
    <3>4. AlignDown(c) \in Int
      BY LineBegins
    <3>5. QED
      BY <3>1, <3>2, <3>3, <3>4
  <2>2. (s - x) \div n \in Int /\ s % n \in Int
    BY <2>1, Division
  <2>3. QED
    BY <2>1, <2>2 DEF BeatOf, OffsetOf
<1>5. PICK v \in BOOLEAN : v = (copy.valid /\ InCopyRange(a) /\ InCopyRange(a + 1))
  BY <1>1 DEF CommandTyped, InCopyRange
<1>6. PICK b \in Int, o \in Int, e \in Nat :
        /\ b = IF v THEN BeatOf(a) ELSE 0
        /\ o = IF v THEN OffsetOf(a) ELSE 0
        /\ e = copy.epoch
  BY <1>1, <1>4 DEF CommandTyped
<1>7. predecode' = [addr |-> a, epoch |-> e, valid |-> v, beat |-> b, offset |-> o]
  BY <1>5, <1>6 DEF prepareCopyReadMeta
<1>8. predecode' \in [addr : Int, epoch : Nat, valid : BOOLEAN, beat : Int, offset : Int]
  BY <1>3, <1>7
<1>9. PredecodeKnown'
  <2>1. predecode'.epoch <= copy'.epoch
    BY <1>1, <1>6, <1>7
  <2>2. ASSUME v
        PROVE  /\ InCopyRange(a)' /\ InCopyRange(a + 1)'
               /\ b = BeatOf(a)' /\ o = OffsetOf(a)'
    BY <1>2, <1>5, <1>6, <2>2, CommandKept
  <2>3. predecode'.valid = v /\ predecode'.addr = a /\ predecode'.beat = b /\ predecode'.offset = o
    BY <1>7
  <2>4. /\ InCopyRange(predecode.addr)' = InCopyRange(a)'
        /\ InCopyRange(predecode.addr + 1)' = InCopyRange(a + 1)'
        /\ BeatOf(predecode.addr)' = BeatOf(a)'
        /\ OffsetOf(predecode.addr)' = OffsetOf(a)'
    BY <2>3 DEF InCopyRange, BeatOf, OffsetOf, SourceOf
  <2>5. QED
    BY <2>1, <2>2, <2>3, <2>4 DEF PredecodeKnown, OfThisCopy
<1>10. UNCHANGED <<readReqIdx, nextCommitIdx, committedBytes, rob, completion, wcb,
                   copyReads, copyWrites, copied>>
  BY DEF prepareCopyReadMeta
<1>11. QED
  BY <1>1, <1>2, <1>8, <1>9, <1>10, AsideKeeps DEF CopyInv, QuietBetween

(* What the machine chooses from.                                          *)

LEMMA LeastNumber ==
  ASSUME NEW S, S \subseteq Nat, S # {}
  PROVE  \E x \in S : \A y \in S : x <= y
<1>1. \E x \in S : \A y \in S : <<y, x>> \notin OpToRel(<, Nat)
  BY NatLessThanWellFounded, WFMin
<1>2. PICK x \in S : \A y \in S : <<y, x>> \notin OpToRel(<, Nat)
  BY <1>1
<1>3. \A y \in S : ~(y < x)
  BY <1>2 DEF OpToRel
<1>4. QED
  BY <1>3

LEMMA FirstWcbIn ==
  ASSUME NEW S, S \subseteq WcbSlots, S # {}
  PROVE  FirstWcb(S) \in S
<1>1. S \subseteq Nat
  BY CopyEntriesAssumption DEF WcbSlots
<1>2. \E x \in S : \A y \in S : x <= y
  BY <1>1, LeastNumber
<1>3. QED
  BY <1>2 DEF FirstWcb

LEMMA FirstFragmentIn ==
  ASSUME NEW S, S \subseteq RobSlots \X {1, 2}, S # {}
  PROVE  FirstFragment(S) \in S
<1> DEFINE T == {2 * f[1] + f[2] : f \in S}
<1>1. \A f \in S : 2 * f[1] + f[2] \in Nat
  BY CopyEntriesAssumption DEF RobSlots
<1>2. T \subseteq Nat /\ T # {}
  BY <1>1
<1>3. PICK x \in T : \A y \in T : x <= y
  BY <1>2, LeastNumber
<1>4. PICK f \in S : x = 2 * f[1] + f[2]
  BY <1>3
<1>5. \A g \in S : 2 * f[1] + f[2] <= 2 * g[1] + g[2]
  BY <1>3, <1>4
<1> HIDE DEF T
<1>6. QED
  BY <1>5 DEF FirstFragment

\* The beats in the slots are beats of the command.
LEMMA SlotBeat ==
  ASSUME CopyInv, NEW i \in RobSlots, rob[i].busy
  PROVE  /\ rob[i].reqIdx \in BeatsToRead /\ rob[i].reqIdx \in Nat
         /\ rob[i].reqIdx \in nextCommitIdx .. readReqIdx - 1
         /\ Slot(rob[i].reqIdx) = i /\ Busy(rob[i].reqIdx) /\ SlotState(i)
<1>1. rob[i].reqIdx \in nextCommitIdx .. readReqIdx - 1 /\ Slot(rob[i].reqIdx) = i
  BY DEF CopyInv, SlotsInWindow
<1>2. nextCommitIdx \in Nat /\ readReqIdx \in Nat /\ readReqIdx <= readBeatCount
  BY DEF CopyInv, CopyTyped, Window
<1>3. readBeatCount \in Nat
  BY Commanded, Beats
<1>4. rob[i].reqIdx \in BeatsToRead /\ rob[i].reqIdx \in Nat
  BY <1>1, <1>2, <1>3 DEF BeatsToRead
<1>5. SlotState(i)
  BY DEF CopyInv, SlotsKnown
<1>6. QED
  BY <1>1, <1>4, <1>5 DEF Busy

\* The beats that gave to an entry are under way and reach its line.
LEMMA GiverKnown ==
  ASSUME CopyInv, NEW v \in WcbSlots, wcb[v].valid, NEW b, GivenTo(b, v)
  PROVE  /\ b \in BeatsToRead /\ b \in 0 .. readReqIdx - 1 /\ Slot(b) \in RobSlots /\ Busy(b)
         /\ \E k \in 1 .. 2 : PartLine(b, k) = wcb[v].line /\ Part(b, k) # {} /\ InLine(b, k)
<1>1. PICK j \in DOMAIN wcb[v].contrib : wcb[v].contrib[j] = <<Slot(b), b>>
  BY DEF GivenTo
<1>2. wcb[v].contrib \in Seq(RobSlots \X Nat)
  BY DEF CopyInv, CopyTyped
<1>3. <<Slot(b), b>> \in RobSlots \X Nat
  BY <1>1, <1>2
<1>4. Gives(<<Slot(b), b>>, v)
  BY <1>1 DEF CopyInv, LinesKnown, LineKnown
<1>5. Busy(b) /\ \E k \in 1 .. 2 : PartLine(b, k) = wcb[v].line /\ Part(b, k) # {}
  BY <1>4 DEF Gives
<1>6. rob[Slot(b)].busy /\ rob[Slot(b)].reqIdx = b /\ Slot(b) \in RobSlots
  BY <1>3, <1>5 DEF Busy
<1>7. b \in BeatsToRead /\ b \in nextCommitIdx .. readReqIdx - 1 /\ nextCommitIdx \in Nat
  <2>1. b \in BeatsToRead /\ b \in nextCommitIdx .. readReqIdx - 1
    BY <1>6, SlotBeat
  <2>2. nextCommitIdx \in Nat
    BY DEF CopyInv, CopyTyped
  <2>3. QED
    BY <2>1, <2>2
<1>8. QED
  BY <1>5, <1>6, <1>7 DEF InLine

\* A line that a part lies in is complete when it has all of it.
LEMMA ExpectedIs ==
  ASSUME CopyInv, copy.valid, NEW b \in BeatsToRead, NEW k \in 1 .. 2, Part(b, k) # {}
  PROVE  Expected(PartLine(b, k)) = {a \in Destination : AlignDown(a) = PartLine(b, k)}
<1>1. CommandTyped
  BY Commanded
<1>2. PICK x \in Part(b, k) : TRUE
  OBVIOUS
<1>3. x \in Destination /\ AlignDown(x) = PartLine(b, k)
  BY <1>1, PartsOfBeat
<1>4. copy.dst \in Int /\ copy.size \in Int /\ BeatBytes \in Nat \ {0}
  BY <1>1, Beats
<1>5. Destination \subseteq Int
  BY <1>4 DEF Destination
<1>6. PICK l \in Int : l = PartLine(b, k) /\ AlignDown(l) = l
  BY <1>1, <1>3, <1>5, PartsOfBeat, LineOfLine
<1>7. ASSUME NEW a \in Destination, AlignDown(a) = l PROVE a \in l .. l + BeatBytes - 1
  <2>1. a \in Int /\ AlignDown(a) <= a /\ a < AlignDown(a) + BeatBytes
    BY <1>5, LineBegins
  <2>2. QED
    BY <1>4, <1>7, <2>1
<1>8. ASSUME NEW a \in l .. l + BeatBytes - 1 PROVE AlignDown(a) = l
  <2>1. a \in Int /\ l <= a /\ a < l + BeatBytes
    BY <1>4
  <2>2. QED
    BY <1>6, <2>1, NextLine
<1>9. QED
  BY <1>6, <1>7, <1>8 DEF Expected, InCopyRange, Destination

\* An entry whose line is not complete has taken from one beat only.
LEMMA OneContributor ==
  ASSUME CopyInv, copy.valid, NEW v \in WcbSlots, wcb[v].valid, ~wcb[v].issued, ~wcbReady(v)
  PROVE  Len(wcb[v].contrib) = 1
<1>1. LineKnown(v) /\ wcb[v].contrib \in Seq(RobSlots \X Nat)
  BY DEF CopyInv, LinesKnown, CopyTyped
<1>2. SUFFICES ASSUME Len(wcb[v].contrib) = 2 PROVE FALSE
  BY <1>1 DEF LineKnown
<1>3. PICK c, d : c = wcb[v].contrib[1] /\ d = wcb[v].contrib[2]
  OBVIOUS
<1>4. 1 \in DOMAIN wcb[v].contrib /\ 2 \in DOMAIN wcb[v].contrib
  BY <1>1, <1>2
<1>5. c \in RobSlots \X Nat /\ d \in RobSlots \X Nat /\ Gives(c, v) /\ Gives(d, v) /\ c # d
  BY <1>1, <1>2, <1>3, <1>4 DEF LineKnown
<1>6. PICK b, e : c = <<Slot(b), b>> /\ d = <<Slot(e), e>> /\ b # e
  BY <1>5 DEF Gives
<1>7. GivenTo(b, v) /\ GivenTo(e, v)
  BY <1>3, <1>4, <1>6 DEF GivenTo
<1>8. b \in BeatsToRead /\ e \in BeatsToRead /\ CommandTyped
  BY <1>7, GiverKnown, Commanded
<1>9. PICK j \in 1 .. 2 : PartLine(b, j) = wcb[v].line /\ Part(b, j) # {}
  BY <1>7, GiverKnown
<1>10. PICK k \in 1 .. 2 : PartLine(e, k) = wcb[v].line /\ Part(e, k) # {}
  BY <1>7, GiverKnown
<1>11. \A a \in Destination : AlignDown(a) = PartLine(b, j) => BeatOf(a) \in {b, e}
  BY <1>6, <1>8, <1>9, <1>10, TwoBeatsFillLine
<1>12. \A a \in Destination : AlignDown(a) = wcb[v].line => a \in DOMAIN wcb[v].data
  BY <1>1, <1>7, <1>9, <1>11 DEF LineKnown
<1>13. Expected(wcb[v].line) \subseteq DOMAIN wcb[v].data
  BY <1>8, <1>9, <1>12, ExpectedIs
<1>14. QED
  BY <1>13 DEF wcbReady

\* A fragment is a part that waits.
LEMMA FragmentKnown ==
  ASSUME CopyInv, NEW f \in Fragments
  PROVE  LET b == rob[f[1]].reqIdx IN
         /\ f = <<f[1], f[2]>> /\ f[1] \in RobSlots /\ f[2] \in 1 .. 2
         /\ rob[f[1]].busy /\ rob[f[1]].data # NoBeat
         /\ b \in BeatsToRead /\ Slot(b) = f[1] /\ Busy(b)
         /\ BytesOf(f) = Full(b, f[2]) /\ Part(b, f[2]) # {} /\ ~InLine(b, f[2])
         /\ LineOf(f) = PartLine(b, f[2])
<1> DEFINE b == rob[f[1]].reqIdx
<1>1. /\ f = <<f[1], f[2]>> /\ f[1] \in RobSlots /\ f[2] \in 1 .. 2
      /\ rob[f[1]].busy /\ BytesOf(f) # <<>> /\ BytesOf(f) = rob[f[1]].frag[f[2]]
  BY DEF Fragments, BytesOf
<1>2. b \in BeatsToRead /\ Slot(b) = f[1] /\ Busy(b) /\ SlotState(f[1])
  BY <1>1, SlotBeat
<1>3. rob[f[1]].data # NoBeat
  BY <1>1, <1>2 DEF SlotState
<1>4. PartPlaced(f[1], b, f[2])
  BY <1>1, <1>2, <1>3 DEF SlotState
<1>5. BytesOf(f) = Full(b, f[2]) /\ Part(b, f[2]) # {} /\ ~InLine(b, f[2])
  BY <1>1, <1>4 DEF PartPlaced
<1>6. DOMAIN BytesOf(f) = Part(b, f[2])
  BY <1>5 DEF Full
<1>7. \A a \in Part(b, f[2]) : AlignDown(a) = PartLine(b, f[2])
  BY <1>1, <1>2, PartsOfBeat, Commanded
<1>8. LineOf(f) = PartLine(b, f[2])
  BY <1>5, <1>6, <1>7 DEF LineOf
<1>9. QED
  BY <1>1, <1>2, <1>3, <1>5, <1>8

LEMMA SelectedKnown ==
  ASSUME CopyInv, NEW f, f = Selected
  PROVE  /\ Mergeable # {} => f \in Mergeable /\ SelectedWcb(f) \in MergesWith(f)
         /\ \/ f = NoneSelected
            \/ /\ f \in Fragments /\ f # NoneSelected /\ SelectedWcb(f) \in WcbSlots
               /\ \/ SelectedWcb(f) \in MergesWith(f)
                  \/ MergesWith(f) = {} /\ SelectedWcb(f) \in FreeWcbs
<1>1. Fragments \subseteq RobSlots \X {1, 2} /\ Mergeable \subseteq Fragments
  BY DEF Fragments, Mergeable
<1>2. \A g : MergesWith(g) \subseteq WcbSlots /\ FreeWcbs \subseteq WcbSlots
  BY DEF MergesWith, FreeWcbs
<1>3. NoneSelected \notin Fragments
  BY <1>1 DEF NoneSelected, NoBeat, RobSlots
<1>4. CASE Mergeable # {}
  <2>1. f = FirstFragment(Mergeable)
    BY <1>4 DEF Selected
  <2>2. f \in Mergeable
    BY <1>1, <1>4, <2>1, FirstFragmentIn
  <2>3. MergesWith(f) # {} /\ SelectedWcb(f) = FirstWcb(MergesWith(f))
    BY <2>2 DEF Mergeable, SelectedWcb
  <2>4. SelectedWcb(f) \in MergesWith(f)
    BY <1>2, <2>3, FirstWcbIn
  <2>5. QED
    BY <1>1, <1>2, <1>3, <2>2, <2>4
<1>5. CASE Mergeable = {} /\ FreeWcbs # {} /\ Fragments # {}
  <2>1. f = FirstFragment(Fragments)
    BY <1>5 DEF Selected
  <2>2. f \in Fragments
    BY <1>1, <1>5, <2>1, FirstFragmentIn
  <2>3. MergesWith(f) = {} /\ SelectedWcb(f) = FirstWcb(FreeWcbs)
    BY <1>5, <2>2 DEF Mergeable, SelectedWcb
  <2>4. SelectedWcb(f) \in FreeWcbs
    BY <1>2, <1>5, <2>3, FirstWcbIn
  <2>5. QED
    BY <1>2, <1>3, <1>5, <2>2, <2>3, <2>4
<1>6. CASE Mergeable = {} /\ ~(FreeWcbs # {} /\ Fragments # {})
  BY <1>6 DEF Selected
<1>7. QED
  BY <1>4, <1>5, <1>6

(* One cycle.                                                              *)

Cycle(f, taken, r, issued, w) ==
  /\ copy.valid /\ f = Selected
  /\ taken \in Reads \cup {NoRead} /\ r \in copyReads \cup {NoRead}
  /\ issued \in Writes \cup {NoAnswer} /\ w \in copyWrites \cup {NoAnswer}
  /\ CopyCycle(f, taken, r, issued, w)

AskedKnown(taken) ==
  \/ taken = NoRead
  \/ /\ taken # NoRead /\ taken = ReadRequest /\ taken.slot = readSlot /\ readSlot \in RobSlots
     /\ taken.addr = BeatAddr(readReqIdx)
     /\ ~rob[readSlot].busy /\ readReqIdx \in BeatsToRead
     /\ readReqIdx - nextCommitIdx < CompletionEntries
ReadKnown(r) ==
  \/ r = NoRead
  \/ /\ r # NoRead /\ r \in copyReads /\ r.slot \in RobSlots /\ rob[r.slot].busy
     /\ rob[r.slot].data = NoBeat /\ r.addr = BeatAddr(rob[r.slot].reqIdx)
IssuedKnown(issued) ==
  \/ issued = NoAnswer
  \/ /\ issued # NoAnswer /\ issued.wcb \in WcbSlots /\ wcbReady(issued.wcb)
     /\ issued = [wcb |-> issued.wcb, data |-> wcb[issued.wcb].data]
WrittenKnown(w) ==
  \/ w = NoAnswer
  \/ /\ w # NoAnswer /\ w \in copyWrites /\ w.wcb \in WcbSlots /\ wcb[w.wcb].valid
     /\ wcb[w.wcb].issued /\ w.data = wcb[w.wcb].data

LEMMA CycleChoices ==
  ASSUME CopyInv, NEW f, NEW taken, NEW r, NEW issued, NEW w, Cycle(f, taken, r, issued, w)
  PROVE  /\ AskedKnown(taken) /\ ReadKnown(r) /\ IssuedKnown(issued) /\ WrittenKnown(w)
         /\ NoRead.slot = NoBeat /\ NoAnswer.wcb = NoBeat
         /\ NoBeat \notin RobSlots /\ NoBeat \notin WcbSlots
<1>1. NoRead.slot = NoBeat /\ NoAnswer.wcb = NoBeat /\ NoBeat \notin RobSlots
        /\ NoBeat \notin WcbSlots
  BY DEF NoRead, NoAnswer, NoBeat, RobSlots, WcbSlots
<1>2. AskedKnown(taken)
  <2>1. SUFFICES ASSUME taken # NoRead PROVE AskedKnown(taken)
    BY DEF AskedKnown
  <2>2. readCanAllocate /\ taken = ReadRequest
    BY <2>1 DEF Cycle, Reads
  <2>3. readReqIdx \in Nat /\ readReqIdx <= readBeatCount /\ GCCopyEntry \in Nat \ {0}
    BY CopyEntriesAssumption DEF CopyInv, CopyTyped, Window
  <2>4. readSlot \in RobSlots
    BY <2>3, Division DEF readSlot, RobSlots
  <2>5. readReqIdx \in BeatsToRead
    BY <2>2, <2>3, Commanded, Beats DEF readCanAllocate, BeatsToRead
  <2>6. taken.slot = readSlot /\ taken.addr = BeatAddr(readReqIdx)
    BY <2>2 DEF ReadRequest, BeatAddr
  <2>7. QED
    BY <2>1, <2>2, <2>4, <2>5, <2>6 DEF AskedKnown, readCanAllocate
<1>3. ReadKnown(r)
  <2>1. SUFFICES ASSUME r # NoRead PROVE ReadKnown(r)
    BY DEF ReadKnown
  <2>2. r \in copyReads
    BY <2>1 DEF Cycle
  <2>3. r.slot \in RobSlots
    BY <2>2 DEF CopyInv, CopyTyped
  <2>4. QED
    BY <2>1, <2>2, <2>3 DEF CopyInv, ReadsAwaited, ReadKnown
<1>4. IssuedKnown(issued)
  <2>1. SUFFICES ASSUME issued # NoAnswer PROVE IssuedKnown(issued)
    BY DEF IssuedKnown
  <2>2. writeReady # {} /\ issued = WriteRequest
    BY <2>1 DEF Cycle, Writes
  <2>3. FirstWcb(writeReady) \in writeReady
    BY <2>2, FirstWcbIn DEF writeReady
  <2>4. QED
    BY <2>1, <2>2, <2>3 DEF IssuedKnown, WriteRequest, writeReady
<1>5. WrittenKnown(w)
  <2>1. SUFFICES ASSUME w # NoAnswer PROVE WrittenKnown(w)
    BY DEF WrittenKnown
  <2>2. w \in copyWrites
    BY <2>1 DEF Cycle
  <2>3. w.wcb \in WcbSlots
    BY <2>2 DEF CopyInv, CopyTyped
  <2>4. QED
    BY <2>1, <2>2, <2>3 DEF CopyInv, WritesAwaited, WrittenKnown
<1>6. QED
  BY <1>1, <1>2, <1>3, <1>4, <1>5

\* The entries after the cycle.
EntryGiven(f) ==
  LET t == SelectedWcb(f)
      b == rob[f[1]].reqIdx IN
  /\ t \in WcbSlots
  /\ wcb'[t] = Gathered(f, t)
  /\ wcb'[t].valid /\ ~wcb'[t].issued /\ wcb'[t].line = PartLine(b, f[2])
  /\ \/ /\ wcb[t].valid /\ ~wcb[t].issued /\ ~wcbReady(t) /\ wcb[t].line = PartLine(b, f[2])
        /\ Len(wcb[t].contrib) = 1
        /\ wcb'[t].contrib = <<wcb[t].contrib[1], <<f[1], b>> >>
        /\ wcb'[t].data = Onto(Full(b, f[2]), wcb[t].data)
     \/ /\ ~wcb[t].valid /\ MergesWith(f) = {}
        /\ wcb'[t].contrib = << <<f[1], b>> >>
        /\ wcb'[t].data = Full(b, f[2])

EntryKept(v, issued) ==
  /\ wcb'[v].valid = wcb[v].valid /\ wcb'[v].line = wcb[v].line
  /\ wcb'[v].data = wcb[v].data /\ wcb'[v].contrib = wcb[v].contrib
  /\ wcb'[v].issued <=> wcb[v].issued \/ v = issued.wcb

LEMMA EntriesAfter ==
  ASSUME CopyInv, NEW f, NEW taken, NEW r, NEW issued, NEW w, Cycle(f, taken, r, issued, w)
  PROVE  /\ w # NoAnswer => wcb'[w.wcb] = FreeWcb
         /\ f # NoneSelected => EntryGiven(f) /\ SelectedWcb(f) # w.wcb
         /\ \A v \in WcbSlots : v # w.wcb /\ (f # NoneSelected => v # SelectedWcb(f))
              => EntryKept(v, issued)
<1> DEFINE to == IF f = NoneSelected THEN NoBeat ELSE SelectedWcb(f)
<1>1. wcb' = [v \in WcbSlots |->
       CASE v = w.wcb         -> FreeWcb
         [] v = to            -> Gathered(f, v)
         [] v = issued.wcb    -> [wcb[v] EXCEPT !.issued = TRUE]
         [] OTHER             -> wcb[v]]
  <2>1. CopyCycle(f, taken, r, issued, w)
    BY DEF Cycle
  <2>2. QED
    BY <2>1 DEF CopyCycle
<1>2. /\ AskedKnown(taken) /\ ReadKnown(r) /\ IssuedKnown(issued) /\ WrittenKnown(w)
      /\ NoBeat \notin WcbSlots /\ NoAnswer.wcb = NoBeat
  BY CycleChoices
<1>3. wcb \in [WcbSlots -> [valid : BOOLEAN, issued : BOOLEAN, line : Int, data : Bytes,
                            contrib : Seq(RobSlots \X Nat)]]
  BY DEF CopyInv, CopyTyped
<1>4. issued # NoAnswer => issued.wcb # w.wcb
  BY <1>2 DEF IssuedKnown, WrittenKnown, wcbReady
<1>5. f # NoneSelected => SelectedWcb(f) # w.wcb /\ SelectedWcb(f) # issued.wcb
                          /\ SelectedWcb(f) \in WcbSlots
  <2>1. SUFFICES ASSUME f # NoneSelected
                 PROVE  SelectedWcb(f) # w.wcb /\ SelectedWcb(f) # issued.wcb
                        /\ SelectedWcb(f) \in WcbSlots
    OBVIOUS
  <2>2. /\ SelectedWcb(f) \in WcbSlots
        /\ \/ SelectedWcb(f) \in MergesWith(f)
           \/ SelectedWcb(f) \in FreeWcbs
    BY <2>1, SelectedKnown DEF Cycle
  <2>3. QED
    BY <1>2, <2>2 DEF MergesWith, FreeWcbs, WrittenKnown, IssuedKnown, wcbReady
<1>6. w # NoAnswer => wcb'[w.wcb] = FreeWcb
  <2>1. SUFFICES ASSUME w # NoAnswer PROVE wcb'[w.wcb] = FreeWcb
    OBVIOUS
  <2>2. w.wcb \in WcbSlots /\ w.wcb # issued.wcb
    BY <1>2, <1>4, <2>1 DEF WrittenKnown
  <2>3. w.wcb # to
    BY <1>2, <1>5, <2>2
  <2> HIDE DEF to
  <2>4. QED
    BY <1>1, <2>2, <2>3
<1>7. ASSUME f # NoneSelected
      PROVE  EntryGiven(f) /\ SelectedWcb(f) # w.wcb
  <2> DEFINE t == SelectedWcb(f)
             b == rob[f[1]].reqIdx
  <2>1. /\ f \in Fragments /\ t \in WcbSlots
        /\ \/ t \in MergesWith(f)
           \/ MergesWith(f) = {} /\ t \in FreeWcbs
    BY <1>7, SelectedKnown DEF Cycle
  <2>2. BytesOf(f) = Full(b, f[2]) /\ LineOf(f) = PartLine(b, f[2])
    BY <2>1, FragmentKnown
  <2>3. t # w.wcb /\ t # issued.wcb /\ t = to
    BY <1>7, <1>5
  <2>4. wcb'[t] = Gathered(f, t)
    <3> HIDE DEF t, to
    <3>1. QED
      BY <1>1, <2>1, <2>3
  <2>5. Contribution(f) = <<f[1], b>>
    BY DEF Contribution
  <2>6. CASE t \in MergesWith(f)
    <3>1. wcb[t].valid /\ ~wcb[t].issued /\ ~wcbReady(t) /\ wcb[t].line = PartLine(b, f[2])
      BY <2>2, <2>6 DEF MergesWith
    <3>2. Len(wcb[t].contrib) = 1
      BY <2>1, <3>1, OneContributor DEF Cycle
    <3>3. Gathered(f, t) = [wcb[t] EXCEPT !.data = Onto(Full(b, f[2]), wcb[t].data),
                                          !.contrib = <<wcb[t].contrib[1], <<f[1], b>> >>]
      BY <2>2, <2>5, <3>1 DEF Gathered
    <3>4. wcb[t] \in [valid : BOOLEAN, issued : BOOLEAN, line : Int, data : Bytes,
                      contrib : Seq(RobSlots \X Nat)]
      BY <1>3, <2>1
    <3>5. /\ wcb'[t].valid /\ ~wcb'[t].issued /\ wcb'[t].line = PartLine(b, f[2])
          /\ wcb'[t].contrib = <<wcb[t].contrib[1], <<f[1], b>> >>
          /\ wcb'[t].data = Onto(Full(b, f[2]), wcb[t].data)
      BY <2>4, <3>1, <3>3, <3>4
    <3>6. QED
      BY <2>1, <2>3, <2>4, <3>1, <3>2, <3>5 DEF EntryGiven
  <2>7. CASE MergesWith(f) = {} /\ t \in FreeWcbs
    <3>1. ~wcb[t].valid
      BY <2>7 DEF FreeWcbs
    <3>2. wcb'[t] = [valid |-> TRUE, issued |-> FALSE, line |-> PartLine(b, f[2]),
                     data |-> Full(b, f[2]), contrib |-> << <<f[1], b>> >>]
      BY <2>2, <2>4, <2>5, <3>1 DEF Gathered
    <3>3. QED
      BY <2>1, <2>3, <2>4, <2>7, <3>1, <3>2 DEF EntryGiven
  <2>8. QED
    BY <2>1, <2>6, <2>7
<1>8. ASSUME NEW v \in WcbSlots, v # w.wcb, f # NoneSelected => v # SelectedWcb(f)
      PROVE  EntryKept(v, issued)
  <2>1. v # to
    BY <1>2, <1>8
  <2>2. wcb[v] \in [valid : BOOLEAN, issued : BOOLEAN, line : Int, data : Bytes,
                    contrib : Seq(RobSlots \X Nat)]
    BY <1>3
  <2>3. wcb'[v] = IF v = issued.wcb THEN [wcb[v] EXCEPT !.issued = TRUE] ELSE wcb[v]
    <3> HIDE DEF to
    <3>1. QED
      BY <1>1, <1>8, <2>1
  <2>4. QED
    BY <2>2, <2>3 DEF EntryKept
<1>9. QED
  BY <1>6, <1>7, <1>8

\* Which parts are with the entry of their line after the cycle.
Comes(b, k, f) == f # NoneSelected /\ f[1] = Slot(b) /\ f[2] = k /\ rob[f[1]].reqIdx = b
Gone(b, k, w) == w # NoAnswer /\ wcb[w.wcb].line = PartLine(b, k) /\ GivenTo(b, w.wcb)

LEMMA CycleCommand ==
  ASSUME CopyInv, NEW f, NEW taken, NEW r, NEW issued, NEW w, Cycle(f, taken, r, issued, w)
  PROVE  copy' = copy /\ SameCommand /\ CommandTyped /\ copy.valid /\ predecode' = predecode
<1>1. copy' = copy /\ predecode' = predecode /\ copy.valid
  BY DEF Cycle, CopyCycle
<1>2. QED
  BY <1>1, Commanded DEF SameCommand

LEMMA GivenAfter ==
  ASSUME CopyInv, NEW f, NEW taken, NEW r, NEW issued, NEW w, Cycle(f, taken, r, issued, w),
         NEW v \in WcbSlots, NEW b
  PROVE  wcb'[v].valid /\ GivenTo(b, v)' <=>
           /\ v # w.wcb
           /\ \/ wcb[v].valid /\ GivenTo(b, v)
              \/ f # NoneSelected /\ v = SelectedWcb(f) /\ b = rob[f[1]].reqIdx
<1>1. /\ w # NoAnswer => wcb'[w.wcb] = FreeWcb
      /\ f # NoneSelected => EntryGiven(f) /\ SelectedWcb(f) # w.wcb
      /\ v # w.wcb /\ (f # NoneSelected => v # SelectedWcb(f)) => EntryKept(v, issued)
  BY EntriesAfter
<1>2. NoBeat \notin WcbSlots /\ NoAnswer.wcb = NoBeat
  BY CycleChoices
<1>3. CASE v = w.wcb
  <2>1. wcb'[v] = FreeWcb
    BY <1>1, <1>2, <1>3
  <2>2. ~wcb'[v].valid
    BY <2>1, FreeTyped
  <2>3. QED
    BY <1>3, <2>2
<1>4. CASE v # w.wcb /\ (f # NoneSelected => v # SelectedWcb(f))
  BY <1>1, <1>4 DEF EntryKept, GivenTo
<1>5. CASE v # w.wcb /\ f # NoneSelected /\ v = SelectedWcb(f)
  <2> DEFINE g == rob[f[1]].reqIdx
  <2>1. EntryGiven(f) /\ wcb'[v].valid
    BY <1>1, <1>5 DEF EntryGiven
  <2>2. f \in Fragments
    BY <1>5, SelectedKnown DEF Cycle
  <2>3. Slot(g) = f[1]
    BY <2>2, FragmentKnown
  <2>4. <<Slot(b), b>> = <<f[1], g>> <=> b = g
    BY <2>3
  <2>5. CASE /\ wcb[v].valid /\ Len(wcb[v].contrib) = 1
             /\ wcb'[v].contrib = <<wcb[v].contrib[1], <<f[1], g>> >>
    <3>1. wcb[v].contrib \in Seq(RobSlots \X Nat)
      BY DEF CopyInv, CopyTyped
    <3>2. DOMAIN wcb[v].contrib = {1}
      BY <2>5, <3>1
    <3>3. GivenTo(b, v) <=> wcb[v].contrib[1] = <<Slot(b), b>>
      BY <3>2 DEF GivenTo
    <3>4. PICK c, d : c = wcb[v].contrib[1] /\ d = <<f[1], g>> /\ wcb'[v].contrib = <<c, d>>
      BY <2>5
    <3>5. GivenTo(b, v)' <=> c = <<Slot(b), b>> \/ d = <<Slot(b), b>>
      BY <3>4 DEF GivenTo
    <3>6. QED
      BY <1>5, <2>1, <2>4, <2>5, <3>3, <3>4, <3>5
  <2>6. CASE ~wcb[v].valid /\ wcb'[v].contrib = << <<f[1], g>> >>
    <3>1. GivenTo(b, v)' <=> <<Slot(b), b>> = <<f[1], g>>
      BY <2>6 DEF GivenTo
    <3>2. QED
      BY <1>5, <2>1, <2>4, <2>6, <3>1
  <2>7. QED
    BY <1>5, <2>1, <2>5, <2>6 DEF EntryGiven
<1>6. QED
  BY <1>3, <1>4, <1>5

LEMMA LineAfter ==
  ASSUME CopyInv, NEW f, NEW taken, NEW r, NEW issued, NEW w, Cycle(f, taken, r, issued, w),
         NEW v \in WcbSlots, wcb'[v].valid
  PROVE  /\ v # w.wcb
         /\ wcb[v].valid => wcb'[v].line = wcb[v].line
         /\ ~wcb[v].valid => f # NoneSelected /\ v = SelectedWcb(f)
         /\ f # NoneSelected /\ v = SelectedWcb(f) =>
              wcb'[v].line = PartLine(rob[f[1]].reqIdx, f[2])
<1>1. /\ w # NoAnswer => wcb'[w.wcb] = FreeWcb
      /\ f # NoneSelected => EntryGiven(f) /\ SelectedWcb(f) # w.wcb
      /\ v # w.wcb /\ (f # NoneSelected => v # SelectedWcb(f)) => EntryKept(v, issued)
  BY EntriesAfter
<1>2. NoBeat \notin WcbSlots /\ NoAnswer.wcb = NoBeat
  BY CycleChoices
<1>3. v # w.wcb
  BY <1>1, <1>2, FreeTyped
<1>4. CASE f # NoneSelected /\ v = SelectedWcb(f)
  BY <1>1, <1>3, <1>4 DEF EntryGiven
<1>5. CASE f # NoneSelected => v # SelectedWcb(f)
  BY <1>1, <1>3, <1>5 DEF EntryKept
<1>6. QED
  BY <1>4, <1>5

LEMMA InLineAfter ==
  ASSUME CopyInv, NEW f, NEW taken, NEW r, NEW issued, NEW w, Cycle(f, taken, r, issued, w),
         NEW b \in BeatsToRead, NEW k \in 1 .. 2
  PROVE  InLine(b, k)' <=> (InLine(b, k) /\ ~Gone(b, k, w)) \/ Comes(b, k, f)
<1>1. SameCommand /\ CommandTyped
  BY CycleCommand
<1>2. PartLine(b, k)' = PartLine(b, k)
  BY <1>1, CommandKept
<1>3. InLine(b, k)' <=> \E v \in WcbSlots : wcb'[v].valid /\ wcb'[v].line = PartLine(b, k)
                                             /\ GivenTo(b, v)'
  BY <1>2 DEF InLine
<1>4. WrittenKnown(w)
  BY CycleChoices
<1>5. ASSUME NEW v \in WcbSlots, wcb'[v].valid, wcb'[v].line = PartLine(b, k), GivenTo(b, v)'
      PROVE  (InLine(b, k) /\ ~Gone(b, k, w)) \/ Comes(b, k, f)
  <2>1. /\ v # w.wcb
        /\ \/ wcb[v].valid /\ GivenTo(b, v)
           \/ f # NoneSelected /\ v = SelectedWcb(f) /\ b = rob[f[1]].reqIdx
    BY <1>5, GivenAfter
  <2>2. CASE wcb[v].valid /\ GivenTo(b, v)
    <3>1. wcb[v].line = PartLine(b, k)
      BY <1>5, <2>2, LineAfter
    <3>2. InLine(b, k)
      BY <2>2, <3>1 DEF InLine
    <3>3. ~Gone(b, k, w)
      BY <1>4, <2>1, <2>2, <3>1 DEF Gone, WrittenKnown, CopyInv, LinesApart
    <3>4. QED
      BY <3>2, <3>3
  <2>3. CASE f # NoneSelected /\ v = SelectedWcb(f) /\ b = rob[f[1]].reqIdx
    <3>1. f \in Fragments
      BY <2>3, SelectedKnown DEF Cycle
    <3>2. f[1] = Slot(b) /\ f[2] \in 1 .. 2
      BY <2>3, <3>1, FragmentKnown
    <3>3. PartLine(b, k) = PartLine(b, f[2])
      BY <1>5, <2>3, LineAfter
    <3>4. f[2] = k
      BY <1>1, <3>2, <3>3, PartLinesApart
    <3>5. QED
      BY <2>3, <3>2, <3>4 DEF Comes
  <2>4. QED
    BY <2>1, <2>2, <2>3
<1>6. ASSUME InLine(b, k), ~Gone(b, k, w)
      PROVE  InLine(b, k)'
  <2>1. PICK v \in WcbSlots : wcb[v].valid /\ wcb[v].line = PartLine(b, k) /\ GivenTo(b, v)
    BY <1>6 DEF InLine
  <2>2. v # w.wcb
    <3>1. SUFFICES ASSUME v = w.wcb PROVE FALSE
      OBVIOUS
    <3>2. w # NoAnswer
      BY <3>1, CycleChoices
    <3>3. QED
      BY <1>6, <2>1, <3>1, <3>2 DEF Gone
  <2>3. wcb'[v].valid /\ GivenTo(b, v)'
    BY <2>1, <2>2, GivenAfter
  <2>4. QED
    BY <1>3, <2>1, <2>3, LineAfter
<1>7. ASSUME Comes(b, k, f)
      PROVE  InLine(b, k)'
  <2>1. f # NoneSelected /\ f[1] = Slot(b) /\ f[2] = k /\ rob[f[1]].reqIdx = b
    BY <1>7 DEF Comes
  <2>2. PICK v \in WcbSlots : v = SelectedWcb(f) /\ v # w.wcb
    BY <2>1, SelectedKnown, EntriesAfter DEF Cycle
  <2>3. wcb'[v].valid /\ GivenTo(b, v)'
    BY <2>1, <2>2, GivenAfter
  <2>4. wcb'[v].line = PartLine(b, k)
    BY <2>1, <2>2, <2>3, LineAfter
  <2>5. QED
    BY <1>3, <2>2, <2>3, <2>4
<1>8. QED
  BY <1>3, <1>5, <1>6, <1>7

(* The slots after the cycle.                                              *)

LEMMA FullTyped ==
  ASSUME CommandTyped, NEW b \in BeatsToRead, NEW k \in 1 .. 2
  PROVE  /\ Full(b, k) \in Bytes /\ DOMAIN Full(b, k) = Part(b, k)
         /\ Part(b, k) = {} => Full(b, k) = <<>>
<1>1. Part(b, k) \subseteq Int /\ copy.src \in Int /\ copy.dst \in Int
  <2>1. Part(b, k) \subseteq Destination /\ copy.dst \in Int /\ copy.size \in Int
          /\ copy.src \in Int
    BY PartsOfBeat, Beats
  <2>2. QED
    BY <2>1 DEF Destination
<1>2. Full(b, k) \in [Part(b, k) -> Int]
  BY <1>1 DEF Full, SourceOf
<1>3. QED
  BY <1>1, <1>2 DEF Full, Bytes

LEMMA ContributesIs ==
  ASSUME CopyInv, NEW i \in RobSlots, rob[i].busy, NEW w
  PROVE  Contributes(i, w) <=> w # NoAnswer /\ GivenTo(rob[i].reqIdx, w.wcb)
<1>1. Slot(rob[i].reqIdx) = i
  BY SlotBeat
<1>2. QED
  BY <1>1 DEF Contributes, GivenTo

LEMMA ContributesKnown ==
  ASSUME CopyInv, NEW f, NEW taken, NEW r, NEW issued, NEW w, Cycle(f, taken, r, issued, w),
         NEW i \in RobSlots
  PROVE  LET b == rob[i].reqIdx IN
         /\ Contributes(i, w) => /\ rob[i].busy /\ rob[i].data # NoBeat
                                 /\ \E k \in 1 .. 2 : Gone(b, k, w) /\ InLine(b, k)
         /\ rob[i].busy => \A k \in 1 .. 2 : Gone(b, k, w) => Contributes(i, w) /\ InLine(b, k)
<1> DEFINE b == rob[i].reqIdx
<1>1. WrittenKnown(w)
  BY CycleChoices
<1>2. ASSUME Contributes(i, w)
      PROVE  rob[i].busy /\ rob[i].data # NoBeat /\ \E k \in 1 .. 2 : Gone(b, k, w) /\ InLine(b, k)
  <2>1. rob[i].busy /\ w # NoAnswer
    BY <1>2 DEF Contributes
  <2>2. GivenTo(b, w.wcb) /\ w.wcb \in WcbSlots /\ wcb[w.wcb].valid
    BY <1>1, <1>2, <2>1, ContributesIs DEF WrittenKnown
  <2>3. PICK k \in 1 .. 2 : PartLine(b, k) = wcb[w.wcb].line /\ InLine(b, k)
    BY <2>2, GiverKnown
  <2>4. rob[i].data # NoBeat
    BY <2>1, <2>3, SlotBeat DEF SlotState
  <2>5. QED
    BY <2>1, <2>2, <2>3, <2>4 DEF Gone
<1>3. ASSUME rob[i].busy, NEW k \in 1 .. 2, Gone(b, k, w)
      PROVE  Contributes(i, w) /\ InLine(b, k)
  <2>1. Contributes(i, w)
    BY <1>3, ContributesIs DEF Gone
  <2>2. InLine(b, k)
    BY <1>1, <1>3 DEF Gone, InLine, WrittenKnown
  <2>3. QED
    BY <2>1, <2>2
<1>4. QED
  BY <1>2, <1>3

\* The acknowledgements counted are the parts with an entry.
LEMMA AcksKnown ==
  ASSUME CopyInv, NEW f, NEW taken, NEW r, NEW issued, NEW w, Cycle(f, taken, r, issued, w),
         NEW i \in RobSlots, rob[i].busy, NEW b, b = rob[i].reqIdx
  PROVE  AcksAfter(i, f, w) = B(InLine(b, 1)') + B(InLine(b, 2)')
<1>1. b \in BeatsToRead /\ Slot(b) = i /\ SlotState(i) /\ CommandTyped
  BY SlotBeat, Commanded
<1>2. rob[i].acks = B(InLine(b, 1)) + B(InLine(b, 2))
  BY <1>1 DEF SlotState
<1>3. PICK p \in BOOLEAN, q \in BOOLEAN : p = InLine(b, 1) /\ q = InLine(b, 2)
  BY DEF InLine
<1>4. PICK g \in BOOLEAN, h \in BOOLEAN : g = Gone(b, 1, w) /\ h = Gone(b, 2, w)
  BY DEF Gone
<1>5. PICK c \in BOOLEAN, d \in BOOLEAN : c = Comes(b, 1, f) /\ d = Comes(b, 2, f)
  BY DEF Comes
<1>6. /\ InLine(b, 1)' <=> (p /\ ~g) \/ c
      /\ InLine(b, 2)' <=> (q /\ ~h) \/ d
  BY <1>1, <1>3, <1>4, <1>5, InLineAfter
<1>7. (g => p) /\ (h => q) /\ ~(g /\ h) /\ (Contributes(i, w) <=> g \/ h)
  <2>1. PartLine(b, 1) # PartLine(b, 2)
    BY <1>1, PartLinesApart
  <2>2. ~(g /\ h)
    BY <1>4, <2>1 DEF Gone
  <2>3. (g \/ h => Contributes(i, w)) /\ (g => p) /\ (h => q)
    BY <1>3, <1>4, ContributesKnown
  <2>4. Contributes(i, w) => g \/ h
    <3>1. SUFFICES ASSUME Contributes(i, w) PROVE g \/ h
      OBVIOUS
    <3>2. PICK k \in 1 .. 2 : Gone(b, k, w)
      BY <3>1, ContributesKnown
    <3>3. QED
      BY <1>4, <3>2
  <2>5. QED
    BY <2>2, <2>3, <2>4
<1>8. (c => ~p) /\ (d => ~q) /\ ~(c /\ d) /\ (f[1] = i <=> c \/ d)
  <2>1. ~(c /\ d) /\ (c \/ d => f[1] = i)
    <3>1. Comes(b, 1, f) => f[1] = i /\ f[2] = 1
      BY <1>1 DEF Comes
    <3>2. Comes(b, 2, f) => f[1] = i /\ f[2] = 2
      BY <1>1 DEF Comes
    <3>3. QED
      BY <1>5, <3>1, <3>2
  <2>2. ASSUME f[1] = i
        PROVE  f \in Fragments /\ f # NoneSelected
    <3>1. f # NoneSelected
      BY <2>2 DEF NoneSelected, NoBeat, RobSlots
    <3>2. QED
      BY <3>1, SelectedKnown DEF Cycle
  <2>3. ASSUME f[1] = i
        PROVE  /\ f[2] = 1 \/ f[2] = 2
               /\ f[2] = 1 => ~p
               /\ f[2] = 2 => ~q
    <3>1. f[2] \in 1 .. 2 /\ ~InLine(b, f[2])
      BY <2>2, <2>3, FragmentKnown
    <3>2. QED
      BY <1>3, <3>1
  <2>4. f[1] = i => c \/ d
    BY <1>1, <1>5, <2>2, <2>3 DEF Comes
  <2>5. (c => ~p) /\ (d => ~q)
    BY <1>1, <1>5, <2>3 DEF Comes
  <2>6. QED
    BY <2>1, <2>4, <2>5
<1>9. AcksAfter(i, f, w) = B(p) + B(q) + B(c \/ d) - B(g \/ h)
  BY <1>2, <1>3, <1>7, <1>8 DEF AcksAfter, B
<1>10. B(InLine(b, 1)') + B(InLine(b, 2)') = B((p /\ ~g) \/ c) + B((q /\ ~h) \/ d)
  BY <1>6 DEF B
<1>11. B(p) + B(q) + B(c \/ d) - B(g \/ h) = B((p /\ ~g) \/ c) + B((q /\ ~h) \/ d)
  BY <1>7, <1>8 DEF B
<1>12. QED
  BY <1>9, <1>10, <1>11

SlotRecords == [busy : BOOLEAN, data : Int, reqIdx : Nat, frag : [1 .. 2 -> Bytes], acks : Int]

LEMMA AllocatedKnown ==
  ASSUME CopyInv
  PROVE  /\ Allocated \in SlotRecords /\ Allocated.busy /\ Allocated.data = NoBeat
         /\ Allocated.reqIdx = readReqIdx /\ Allocated.acks = 0
         /\ \A k \in 1 .. 2 : Allocated.frag[k] = <<>>
<1>1. FreeSlot \in SlotRecords /\ FreeSlot.frag[1] = <<>> /\ FreeSlot.frag[2] = <<>>
  BY FreeTyped DEF SlotRecords
<1>2. FreeSlot.data = NoBeat /\ FreeSlot.acks = 0
  BY DEF FreeSlot
<1>3. readReqIdx \in Nat
  BY DEF CopyInv, CopyTyped
<1>4. PICK t \in BOOLEAN, q \in Nat : t = TRUE /\ q = readReqIdx
  BY <1>3
<1>5. PICK s \in SlotRecords : s = FreeSlot
  BY <1>1
<1>6. Allocated = [s EXCEPT !.busy = t, !.reqIdx = q]
  BY <1>4, <1>5 DEF Allocated
<1>7. /\ Allocated \in SlotRecords /\ Allocated.busy = t /\ Allocated.reqIdx = q
      /\ Allocated.data = s.data /\ Allocated.acks = s.acks /\ Allocated.frag = s.frag
  BY <1>6 DEF SlotRecords
<1>8. \A k \in 1 .. 2 : k = 1 \/ k = 2
  OBVIOUS
<1>9. QED
  BY <1>1, <1>2, <1>4, <1>5, <1>7, <1>8

LEMMA ReceivedKnown ==
  ASSUME CopyInv, NEW r, ReadKnown(r), r # NoRead
  PROVE  LET b == rob[r.slot].reqIdx IN
         /\ Received(r) \in SlotRecords /\ Received(r).busy /\ Received(r).data = BeatAddr(b)
         /\ Received(r).reqIdx = b /\ Received(r).acks = rob[r.slot].acks
         /\ \A k \in 1 .. 2 : Received(r).frag[k] = Full(b, k)
<1> DEFINE i == r.slot
           b == rob[r.slot].reqIdx
<1>1. i \in RobSlots /\ rob[i].busy /\ rob[i] \in SlotRecords /\ r.addr = BeatAddr(b)
  BY DEF ReadKnown, CopyInv, CopyTyped, SlotRecords
<1>2. b \in BeatsToRead /\ CommandTyped
  BY <1>1, SlotBeat, Commanded
<1>3. PICK n \in Nat \ {0}, s \in Int, v \in Int, m \in Int, d \in Int, l \in Int :
        /\ n = BeatBytes /\ s = DstStart(b) /\ v = ValidBytes(b) /\ m = FirstBytes(b)
        /\ d = copy.dst /\ l = LogicalStart(b)
  <2>1. BeatBytes \in Nat \ {0} /\ copy.dst \in Int
    BY <1>2, Beats
  <2>2. LogicalStart(b) \in Int /\ ValidBytes(b) \in Int
    BY <1>2, BeatBounds
  <2>3. DstStart(b) \in Int
    BY <2>1, <2>2 DEF DstStart
  <2>4. PICK s \in Int : s = DstStart(b)
    BY <2>3
  <2>5. s % BeatBytes \in Int
    BY <2>1, <2>4, Division
  <2>6. FirstBytes(b) \in Int
    BY <2>1, <2>2, <2>4, <2>5 DEF FirstBytes, Smaller
  <2>7. QED
    BY <2>1, <2>2, <2>4, <2>6
<1>4. s = d + l
  BY <1>3 DEF DstStart
<1>5. Part(b, 1) = s .. s + m - 1 /\ Part(b, 2) = s + m .. s + m + (v - m) - 1
  <2>1. Part(b, 1) = s .. s + m - 1 /\ Part(b, 2) = s + m .. s + v - 1
    BY <1>3 DEF Part
  <2>2. s + v - 1 = s + m + (v - m) - 1
    BY <1>3
  <2>3. QED
    BY <2>1, <2>2
<1>6. PICK y \in Int : y = BeatAddr(b) + ValidStart(b) /\ y - l = copy.src
  <2>1. PICK o \in Int, x \in Int, c \in Int : o = srcOff /\ x = BeatBytes * b /\ c = copy.src
    BY <1>2, <1>3, Beats, BeatBounds
  <2>2. PICK e \in Int : e = AlignDown(copy.src) /\ o = c - e
    <3>1. AlignDown(c) \in Int
      BY LineBegins
    <3>2. QED
      BY <1>2, <2>1, <3>1, Beats
  <2>3. b * BeatBytes = x /\ (b = 0 => x = 0)
    BY <1>2, <1>3, <2>1, BeatBounds
  <2>4. BeatAddr(b) = e + x
    BY <2>2, <2>3 DEF BeatAddr
  <2>5. ValidStart(b) = IF b = 0 THEN o ELSE 0
    BY <2>1 DEF ValidStart
  <2>6. l = IF b = 0 THEN 0 ELSE x - o
    BY <1>2, <1>3, <2>1, BeatBounds
  <2>7. PICK u \in Int : u = ValidStart(b) /\ u = IF b = 0 THEN o ELSE 0
    BY <2>5
  <2>8. BeatAddr(b) + ValidStart(b) = (e + x) + u
    BY <2>4, <2>7
  <2>9. (e + x) + u - l = copy.src /\ (e + x) + u \in Int
    <3>1. CASE b = 0
      <4>1. x = 0 /\ l = 0 /\ u = o
        BY <2>3, <2>6, <2>7, <3>1
      <4>2. QED
        BY <2>1, <2>2, <4>1
    <3>2. CASE b # 0
      <4>1. l = x - o /\ u = 0
        BY <2>6, <2>7, <3>2
      <4>2. QED
        BY <2>1, <2>2, <4>1
    <3>3. QED
      BY <3>1, <3>2
  <2>10. QED
    BY <2>8, <2>9
<1>7. ASSUME NEW a \in Int
      PROVE  r.addr + ValidStart(b) + (a - copy.dst - LogicalStart(b)) = SourceOf(a)
  <2>1. y + (a - d - l) = (y - l) + (a - d)
    BY <1>3, <1>6
  <2>2. QED
    BY <1>1, <1>3, <1>6, <2>1 DEF SourceOf
<1>8. /\ Fragment(r, s, m) = Full(b, 1)
      /\ Fragment(r, s + m, v - m) = Full(b, 2)
  <2>1. Fragment(r, s, m) = [a \in Part(b, 1) |-> SourceOf(a)]
    <3>1. \A a \in s .. s + m - 1 : a \in Int
      BY <1>3
    <3>2. QED
      BY <1>5, <1>7, <3>1 DEF Fragment
  <2>2. Fragment(r, s + m, v - m) = [a \in Part(b, 2) |-> SourceOf(a)]
    <3>1. \A a \in s + m .. s + m + (v - m) - 1 : a \in Int
      BY <1>3
    <3>2. QED
      BY <1>5, <1>7, <3>1 DEF Fragment
  <2>3. QED
    BY <2>1, <2>2 DEF Full
<1>9. Received(r) = [rob[i] EXCEPT !.data = r.addr, !.frag = <<Full(b, 1), Full(b, 2)>>]
  <2>1. copy.dst + LogicalStart(b) = s /\ Smaller(ValidBytes(b), BeatBytes - (s % BeatBytes)) = m
    BY <1>3, <1>4 DEF FirstBytes
  <2>2. QED
    BY <1>3, <1>8, <2>1 DEF Received
<1>10. PICK p \in Bytes, q \in Bytes : p = Full(b, 1) /\ q = Full(b, 2)
  BY <1>2, FullTyped
<1>11. PICK g \in [1 .. 2 -> Bytes] : g = <<p, q>> /\ g[1] = p /\ g[2] = q
  <2>1. <<p, q>> \in [1 .. 2 -> Bytes] /\ <<p, q>>[1] = p /\ <<p, q>>[2] = q
    OBVIOUS
  <2>2. QED
    BY <2>1
<1>12. PICK z \in Int : z = r.addr
  <2>1. r.addr \in Int
    BY DEF ReadKnown, CopyInv, CopyTyped
  <2>2. QED
    BY <2>1
<1>13. Received(r) = [rob[i] EXCEPT !.data = z, !.frag = g]
  BY <1>9, <1>10, <1>11, <1>12
<1>14. /\ Received(r) \in SlotRecords /\ Received(r).busy /\ Received(r).data = z
       /\ Received(r).reqIdx = b /\ Received(r).acks = rob[i].acks /\ Received(r).frag = g
  BY <1>1, <1>13 DEF SlotRecords
<1>15. \A k \in 1 .. 2 : k = 1 \/ k = 2
  OBVIOUS
<1>16. QED
  BY <1>1, <1>10, <1>11, <1>12, <1>14, <1>15

LEMMA SlotsAfter ==
  ASSUME CopyInv, NEW f, NEW taken, NEW r, NEW issued, NEW w, Cycle(f, taken, r, issued, w),
         NEW i \in RobSlots
  PROVE  /\ BeatCompletes(i, f, w) => /\ rob'[i] = FreeSlot /\ rob[i].busy
                                      /\ rob[i].data # NoBeat
         /\ i = taken.slot => /\ rob'[i] = Allocated /\ ~rob[i].busy
                              /\ ~BeatCompletes(i, f, w)
         /\ i = r.slot => /\ rob'[i] = Received(r) /\ rob[i].busy /\ rob[i].data = NoBeat
                          /\ ~BeatCompletes(i, f, w) /\ i # taken.slot
         /\ ~BeatCompletes(i, f, w) /\ i # taken.slot /\ i # r.slot =>
              /\ rob'[i] \in SlotRecords
              /\ rob'[i].busy = rob[i].busy /\ rob'[i].data = rob[i].data
              /\ rob'[i].reqIdx = rob[i].reqIdx /\ rob'[i].acks = AcksAfter(i, f, w)
              /\ \A k \in 1 .. 2 :
                   rob'[i].frag[k] = IF f = <<i, k>> THEN <<>> ELSE rob[i].frag[k]
<1>1. /\ AskedKnown(taken) /\ ReadKnown(r) /\ WrittenKnown(w)
      /\ NoRead.slot = NoBeat /\ NoBeat \notin RobSlots
  BY CycleChoices
<1>2. BeatCompletes(i, f, w) => rob[i].busy /\ rob[i].data # NoBeat
  BY ContributesKnown DEF BeatCompletes
<1>3. i = taken.slot => ~rob[i].busy
  BY <1>1 DEF AskedKnown
<1>4. i = r.slot => rob[i].busy /\ rob[i].data = NoBeat
  BY <1>1 DEF ReadKnown
<1> DEFINE done == {j \in RobSlots : BeatCompletes(j, f, w)}
<1>5. rob' = [j \in RobSlots |->
       CASE j \in done        -> FreeSlot
         [] j = taken.slot    -> Allocated
         [] j = r.slot        -> Received(r)
         [] OTHER -> [rob[j] EXCEPT !.acks = AcksAfter(j, f, w), !.frag = FragmentsLeft(j, f)]]
  <2>1. CopyCycle(f, taken, r, issued, w)
    BY DEF Cycle
  <2>2. QED
    BY <2>1 DEF CopyCycle
<1>6. i \in done <=> BeatCompletes(i, f, w)
  OBVIOUS
<1> HIDE DEF done
<1>7. rob'[i] =
       CASE i \in done        -> FreeSlot
         [] i = taken.slot    -> Allocated
         [] i = r.slot        -> Received(r)
         [] OTHER -> [rob[i] EXCEPT !.acks = AcksAfter(i, f, w), !.frag = FragmentsLeft(i, f)]
  BY <1>5
<1>8. ASSUME ~BeatCompletes(i, f, w), i # taken.slot, i # r.slot
      PROVE  /\ rob'[i] \in SlotRecords
             /\ rob'[i].busy = rob[i].busy /\ rob'[i].data = rob[i].data
             /\ rob'[i].reqIdx = rob[i].reqIdx /\ rob'[i].acks = AcksAfter(i, f, w)
             /\ \A k \in 1 .. 2 :
                  rob'[i].frag[k] = IF f = <<i, k>> THEN <<>> ELSE rob[i].frag[k]
  <2>1. rob'[i] = [rob[i] EXCEPT !.acks = AcksAfter(i, f, w), !.frag = FragmentsLeft(i, f)]
    BY <1>6, <1>7, <1>8
  <2>2. rob[i] \in SlotRecords
    BY DEF CopyInv, CopyTyped, SlotRecords
  <2>3. PICK m \in Int : m = AcksAfter(i, f, w)
    <3>1. rob[i].acks \in Int
      BY <2>2 DEF SlotRecords
    <3>2. QED
      BY <3>1 DEF AcksAfter
  <2>4. PICK g \in [1 .. 2 -> Bytes] :
          /\ g = FragmentsLeft(i, f)
          /\ \A k \in 1 .. 2 : g[k] = IF f = <<i, k>> THEN <<>> ELSE rob[i].frag[k]
    <3>1. \A k \in 1 .. 2 : rob[i].frag[k] \in Bytes
      BY <2>2 DEF SlotRecords
    <3>2. FragmentsLeft(i, f) \in [1 .. 2 -> Bytes]
      BY <3>1, NothingAsBytes DEF FragmentsLeft
    <3>3. QED
      BY <3>2 DEF FragmentsLeft
  <2>5. rob'[i] = [rob[i] EXCEPT !.acks = m, !.frag = g]
    BY <2>1, <2>3, <2>4
  <2>6. /\ rob'[i] \in SlotRecords
        /\ rob'[i].busy = rob[i].busy /\ rob'[i].data = rob[i].data
        /\ rob'[i].reqIdx = rob[i].reqIdx /\ rob'[i].acks = m /\ rob'[i].frag = g
    BY <2>2, <2>5 DEF SlotRecords
  <2>7. QED
    BY <2>3, <2>4, <2>6
<1>9. rob'[i] = IF BeatCompletes(i, f, w) THEN FreeSlot
                ELSE IF i = taken.slot THEN Allocated
                ELSE IF i = r.slot THEN Received(r) ELSE rob'[i]
  BY <1>2, <1>3, <1>4, <1>6, <1>7
<1>10. QED
  BY <1>2, <1>3, <1>4, <1>8, <1>9

LEMMA OntoTyped ==
  ASSUME NEW new \in Bytes, NEW old \in Bytes
  PROVE  /\ Onto(new, old) \in Bytes
         /\ DOMAIN Onto(new, old) = DOMAIN new \cup DOMAIN old
         /\ \A a \in DOMAIN Onto(new, old) :
              Onto(new, old)[a] = IF a \in DOMAIN new THEN new[a] ELSE old[a]
<1>1. /\ DOMAIN new \subseteq Int /\ DOMAIN old \subseteq Int
      /\ \A a \in DOMAIN new : new[a] \in Int
      /\ \A a \in DOMAIN old : old[a] \in Int
  <2>1. \A g \in Bytes : DOMAIN g \in SUBSET Int /\ \A a \in DOMAIN g : g[a] \in Int
    <3>1. SUFFICES ASSUME NEW g \in Bytes
                   PROVE  DOMAIN g \in SUBSET Int /\ \A a \in DOMAIN g : g[a] \in Int
      OBVIOUS
    <3>2. PICK S \in SUBSET Int : g \in [S -> Int]
      BY DEF Bytes
    <3>3. QED
      BY <3>2
  <2>2. QED
    BY <2>1
<1>2. Onto(new, old) \in [DOMAIN new \cup DOMAIN old -> Int]
  BY <1>1 DEF Onto
<1>3. DOMAIN new \cup DOMAIN old \in SUBSET Int
  BY <1>1
<1>4. Onto(new, old) \in Bytes
  BY <1>2, <1>3 DEF Bytes
<1>5. QED
  BY <1>4 DEF Onto

\* The destination after the cycle.
LEMMA CopiedAfter ==
  ASSUME CopyInv, NEW f, NEW taken, NEW r, NEW issued, NEW w, Cycle(f, taken, r, issued, w)
  PROVE  /\ copied' \in Bytes /\ CopiedRight' /\ DOMAIN copied \subseteq DOMAIN copied'
         /\ \A b \in BeatsToRead, k \in 1 .. 2 :
              Gone(b, k, w) => Part(b, k) \subseteq DOMAIN copied'
<1>1. SameCommand /\ CommandTyped /\ WrittenKnown(w)
  BY CycleCommand, CycleChoices
<1>2. copied' = IF w = NoAnswer THEN copied ELSE Onto(w.data, copied)
  <2>1. CopyCycle(f, taken, r, issued, w)
    BY DEF Cycle
  <2>2. QED
    BY <2>1 DEF CopyCycle
<1>3. copied \in Bytes /\ CopiedRight
  BY DEF CopyInv, CopyTyped
<1>4. CASE w = NoAnswer
  <2>1. copied' = copied
    BY <1>2, <1>4
  <2>2. CopiedRight'
    BY <1>1, <1>3, <2>1, CommandKept DEF CopiedRight
  <2>3. QED
    BY <1>3, <1>4, <2>1, <2>2 DEF Gone
<1>5. CASE w # NoAnswer
  <2>1. w.wcb \in WcbSlots /\ wcb[w.wcb].valid /\ w.data = wcb[w.wcb].data
    BY <1>1, <1>5 DEF WrittenKnown
  <2>2. PICK d \in Bytes : d = w.data /\ d = wcb[w.wcb].data
    BY <2>1 DEF CopyInv, CopyTyped
  <2>3. /\ DOMAIN d = {a \in Destination : AlignDown(a) = wcb[w.wcb].line
                                            /\ GivenTo(BeatOf(a), w.wcb)}
        /\ \A a \in DOMAIN d : d[a] = SourceOf(a)
    BY <2>1, <2>2 DEF CopyInv, LinesKnown, LineKnown
  <2>4. copied' = Onto(d, copied)
    BY <1>2, <1>5, <2>2
  <2>5. /\ copied' \in Bytes
        /\ DOMAIN copied' = DOMAIN d \cup DOMAIN copied
        /\ \A a \in DOMAIN copied' : copied'[a] = IF a \in DOMAIN d THEN d[a] ELSE copied[a]
    <3>1. copied' \in Bytes /\ DOMAIN copied' = DOMAIN d \cup DOMAIN copied
      BY <1>3, <2>4, OntoTyped
    <3>2. \A a \in DOMAIN copied' : copied'[a] = IF a \in DOMAIN d THEN d[a] ELSE copied[a]
      BY <2>4, <3>1 DEF Onto
    <3>3. QED
      BY <3>1, <3>2
  <2>6. \A a \in DOMAIN copied' : a \in Destination /\ copied'[a] = SourceOf(a)
    BY <1>3, <2>3, <2>5 DEF CopiedRight
  <2>7. CopiedRight'
    BY <1>1, <2>6, CommandKept DEF CopiedRight
  <2>8. ASSUME NEW b \in BeatsToRead, NEW k \in 1 .. 2, Gone(b, k, w)
        PROVE  Part(b, k) \subseteq DOMAIN copied'
    <3>1. wcb[w.wcb].line = PartLine(b, k) /\ GivenTo(b, w.wcb)
      BY <2>8 DEF Gone
    <3>2. \A a \in Part(b, k) : a \in Destination /\ AlignDown(a) = PartLine(b, k) /\ BeatOf(a) = b
      BY <1>1, PartsOfBeat
    <3>3. QED
      BY <2>3, <2>5, <3>1, <3>2
  <2>9. QED
    BY <2>5, <2>7, <2>8
<1>6. QED
  BY <1>4, <1>5

\* A part stays where it is, or goes from its slot to an entry or from there to
\* the destination.
LEMMA PartAfter ==
  ASSUME CopyInv, NEW f, NEW taken, NEW r, NEW issued, NEW w, Cycle(f, taken, r, issued, w),
         NEW i \in RobSlots, rob[i].busy, rob[i].data # NoBeat, NEW b, b = rob[i].reqIdx,
         NEW k \in 1 .. 2, NEW left, left = IF f = <<i, k>> THEN <<>> ELSE rob[i].frag[k]
  PROVE  \/ left = Full(b, k) /\ Part(b, k) # {} /\ ~InLine(b, k)'
         \/ left = <<>> /\ (InLine(b, k)' \/ Part(b, k) \subseteq DOMAIN copied')
<1>1. b \in BeatsToRead /\ Slot(b) = i /\ SlotState(i)
  BY SlotBeat
<1>2. PartPlaced(i, b, k)
  BY <1>1 DEF SlotState
<1>3. InLine(b, k)' <=> (InLine(b, k) /\ ~Gone(b, k, w)) \/ Comes(b, k, f)
  BY <1>1, InLineAfter
<1>4. Comes(b, k, f) <=> f = <<i, k>>
  <2>1. f = <<i, k>> => f # NoneSelected
    BY DEF NoneSelected, NoBeat, RobSlots
  <2>2. f = <<i, k>> => Comes(b, k, f)
    BY <1>1, <2>1 DEF Comes
  <2>3. ASSUME Comes(b, k, f) PROVE f = <<i, k>>
    <3>1. f # NoneSelected /\ f[1] = i /\ f[2] = k
      BY <1>1, <2>3 DEF Comes
    <3>2. f \in Fragments
      BY <3>1, SelectedKnown DEF Cycle
    <3>3. f = <<f[1], f[2]>>
      BY <3>2, FragmentKnown
    <3>4. QED
      BY <3>1, <3>3
  <2>4. QED
    BY <2>2, <2>3
<1>5. /\ DOMAIN copied \subseteq DOMAIN copied'
      /\ (Gone(b, k, w) => Part(b, k) \subseteq DOMAIN copied')
  BY <1>1, CopiedAfter
<1>6. CASE f = <<i, k>>
  BY <1>3, <1>4, <1>6
<1>7. CASE f # <<i, k>>
  <2>1. left = rob[i].frag[k]
    BY <1>7
  <2>2. QED
    BY <1>2, <1>3, <1>4, <1>5, <1>7, <2>1 DEF PartPlaced
<1>8. QED
  BY <1>6, <1>7

\* A beat that completes has been copied.
LEMMA CompletedCopied ==
  ASSUME CopyInv, NEW f, NEW taken, NEW r, NEW issued, NEW w, Cycle(f, taken, r, issued, w),
         NEW i \in RobSlots, BeatCompletes(i, f, w), NEW b, b = rob[i].reqIdx,
         NEW k \in 1 .. 2
  PROVE  ~InLine(b, k)' /\ Part(b, k) \subseteq DOMAIN copied'
<1>1. rob[i].busy /\ rob[i].data # NoBeat
  BY SlotsAfter
<1>2. AcksAfter(i, f, w) = 0 /\ FragmentsLeft(i, f) = NoFragment
  BY DEF BeatCompletes
<1>3. B(InLine(b, 1)') + B(InLine(b, 2)') = 0
  BY <1>1, <1>2, AcksKnown
<1>4. ~InLine(b, 1)' /\ ~InLine(b, 2)'
  BY <1>3 DEF B
<1>5. ~InLine(b, k)'
  <2>1. k = 1 \/ k = 2
    OBVIOUS
  <2>2. QED
    BY <1>4, <2>1
<1>6. PICK left : left = IF f = <<i, k>> THEN <<>> ELSE rob[i].frag[k]
  OBVIOUS
<1>7. left = <<>>
  <2>1. FragmentsLeft(i, f)[k] = left
    BY <1>6 DEF FragmentsLeft
  <2>2. NoFragment[k] = <<>>
    <3>1. k = 1 \/ k = 2
      OBVIOUS
    <3>2. NoFragment[1] = <<>> /\ NoFragment[2] = <<>>
      BY FreeTyped DEF NoFragment
    <3>3. QED
      BY <3>1, <3>2
  <2>3. QED
    BY <1>2, <2>1, <2>2
<1>8. b \in BeatsToRead
  BY <1>1, SlotBeat
<1>9. DOMAIN Full(b, k) = Part(b, k)
  BY <1>8, FullTyped, Commanded
<1>10. \/ left = Full(b, k) /\ Part(b, k) # {} /\ ~InLine(b, k)'
       \/ left = <<>> /\ (InLine(b, k)' \/ Part(b, k) \subseteq DOMAIN copied')
  BY <1>1, <1>6, PartAfter
<1>11. QED
  BY <1>5, <1>7, <1>9, <1>10, NothingAsBytes

\* The beats under way after the cycle.
LEMMA SlotOf == ASSUME NEW b \in Nat PROVE Slot(b) \in RobSlots
BY CopyEntriesAssumption, Division DEF Slot, RobSlots

LEMMA HeldAfter ==
  ASSUME CopyInv, NEW f, NEW taken, NEW r, NEW issued, NEW w, Cycle(f, taken, r, issued, w),
         NEW b \in Nat
  PROVE  Busy(b)' <=> \/ Busy(b) /\ ~BeatCompletes(Slot(b), f, w)
                      \/ taken # NoRead /\ b = readReqIdx
<1>1. PICK i \in RobSlots : i = Slot(b)
  BY SlotOf
<1>2. Busy(b) <=> rob[i].busy /\ rob[i].reqIdx = b
  BY <1>1 DEF Busy
<1>3. Busy(b)' <=> rob'[i].busy /\ rob'[i].reqIdx = b
  BY <1>1 DEF Busy, Slot
<1>4. /\ AskedKnown(taken) /\ ReadKnown(r)
      /\ NoRead.slot = NoBeat /\ NoBeat \notin RobSlots
  BY CycleChoices
<1>5. taken # NoRead /\ b = readReqIdx => i = taken.slot
  BY <1>1, <1>4 DEF AskedKnown, readSlot, Slot
<1>6. CASE BeatCompletes(i, f, w)
  <2>1. rob'[i] = FreeSlot /\ i # taken.slot
    BY <1>6, SlotsAfter
  <2>2. ~Busy(b)'
    BY <1>3, <2>1, FreeTyped
  <2>3. QED
    BY <1>1, <1>5, <1>6, <2>1, <2>2
<1>7. CASE i = taken.slot
  <2>1. rob'[i] = Allocated /\ ~rob[i].busy /\ taken # NoRead
    BY <1>4, <1>7, SlotsAfter
  <2>2. QED
    BY <1>2, <1>3, <2>1, AllocatedKnown
<1>8. CASE i = r.slot
  <2>1. /\ rob'[i] = Received(r) /\ rob[i].busy /\ ~BeatCompletes(i, f, w)
        /\ i # taken.slot /\ r # NoRead
    BY <1>4, <1>8, SlotsAfter
  <2>2. rob'[i].busy /\ rob'[i].reqIdx = rob[i].reqIdx
    BY <1>4, <1>8, <2>1, ReceivedKnown
  <2>3. QED
    BY <1>1, <1>2, <1>3, <1>5, <2>1, <2>2
<1>9. CASE ~BeatCompletes(i, f, w) /\ i # taken.slot /\ i # r.slot
  <2>1. rob'[i].busy = rob[i].busy /\ rob'[i].reqIdx = rob[i].reqIdx
    BY <1>9, SlotsAfter
  <2>2. QED
    BY <1>1, <1>2, <1>3, <1>5, <1>9, <2>1
<1>10. QED
  BY <1>6, <1>7, <1>8, <1>9

\* A beat with a part in an entry goes on.
LEMMA InLineHeld ==
  ASSUME CopyInv, NEW f, NEW taken, NEW r, NEW issued, NEW w, Cycle(f, taken, r, issued, w),
         NEW b \in BeatsToRead, Busy(b), NEW k \in 1 .. 2, InLine(b, k)'
  PROVE  Busy(b)'
<1>1. b \in Nat /\ Slot(b) \in RobSlots
  BY Commanded, Beats, SlotOf DEF BeatsToRead
<1>2. ~BeatCompletes(Slot(b), f, w)
  <2>1. PICK i \in RobSlots : i = Slot(b) /\ rob[i].busy /\ b = rob[i].reqIdx
    BY <1>1 DEF Busy
  <2>2. QED
    BY <2>1, CompletedCopied
<1>3. QED
  BY <1>1, <1>2, HeldAfter

(* What a cycle keeps.                                                     *)

LEMMA CycleCounts ==
  ASSUME CopyInv, NEW f, NEW taken, NEW r, NEW issued, NEW w, Cycle(f, taken, r, issued, w)
  PROVE  /\ readReqIdx' = IF taken = NoRead THEN readReqIdx ELSE readReqIdx + 1
         /\ nextCommitIdx' = IF commitHeadDone THEN nextCommitIdx + 1 ELSE nextCommitIdx
         /\ committedBytes' = IF commitHeadDone THEN committedBytes + ValidBytes(nextCommitIdx)
                              ELSE committedBytes
         /\ copyReads' = (copyReads \ {r}) \cup ({taken} \ {NoRead})
         /\ copyWrites' = (copyWrites \ {w}) \cup ({issued} \ {NoAnswer})
         /\ readReqIdx \in Nat /\ nextCommitIdx \in Nat /\ nextCommitIdx <= readReqIdx
         /\ commitHeadDone => /\ nextCommitIdx \in BeatsToRead /\ nextCommitIdx < readReqIdx
                              /\ ~Busy(nextCommitIdx)
<1>1. CopyCycle(f, taken, r, issued, w)
  BY DEF Cycle
<1>2. readReqIdx \in Nat /\ nextCommitIdx \in Nat /\ nextCommitIdx <= readReqIdx
  BY DEF CopyInv, CopyTyped, Window
<1>3. ASSUME commitHeadDone
      PROVE  /\ nextCommitIdx \in BeatsToRead /\ nextCommitIdx < readReqIdx
             /\ ~Busy(nextCommitIdx)
  <2>1. /\ nextCommitIdx < readBeatCount
        /\ completion[CompletionIndex(nextCommitIdx)] = nextCommitIdx
    BY <1>3 DEF commitHeadDone, CompletionHit
  <2>2. PICK k \in 0 .. CompletionEntries - 1 : k = CompletionIndex(nextCommitIdx)
    <3>1. CompletionEntries \in Nat \ {0}
      BY CopyEntriesAssumption
    <3>2. PICK m \in Nat : m = nextCommitIdx
      BY <1>2
    <3>3. m % CompletionEntries \in 0 .. CompletionEntries - 1
      BY <3>1, Division
    <3>4. QED
      BY <3>2, <3>3 DEF CompletionIndex
  <2>3. k \in DOMAIN completion /\ completion[k] # NoBeat
    BY <1>2, <2>1, <2>2 DEF CopyInv, CopyTyped, NoBeat
  <2>4. nextCommitIdx \in nextCommitIdx .. readReqIdx - 1 /\ ~Busy(nextCommitIdx)
    BY <2>1, <2>2, <2>3 DEF CopyInv, CompletedInWindow
  <2>5. QED
    BY <1>2, <2>1, <2>4, Commanded, Beats DEF BeatsToRead
<1>4. QED
  BY <1>1, <1>2, <1>3 DEF CopyCycle

LEMMA WindowKept ==
  ASSUME CopyInv, NEW f, NEW taken, NEW r, NEW issued, NEW w, Cycle(f, taken, r, issued, w)
  PROVE  Window' /\ readReqIdx' \in Nat /\ nextCommitIdx' \in Nat /\ committedBytes' \in Int
<1>1. PICK x \in Nat, n \in Nat, e \in Nat, c \in Nat :
        x = readReqIdx /\ n = nextCommitIdx /\ e = CompletionEntries /\ c = readBeatCount
  BY CycleCounts, Commanded, Beats, CopyEntriesAssumption
<1>2. n <= x /\ x <= c /\ x - n <= e
  BY <1>1 DEF CopyInv, Window
<1>3. taken # NoRead => x < c /\ x - n < e
  BY <1>1, CycleChoices, Commanded, Beats DEF AskedKnown, BeatsToRead
<1>4. SameCommand /\ CommandTyped
  BY CycleCommand
<1>5. PICK y \in Nat, m \in Nat :
        /\ y = readReqIdx' /\ y = IF taken = NoRead THEN x ELSE x + 1
        /\ m = nextCommitIdx' /\ m = IF commitHeadDone THEN n + 1 ELSE n
  BY <1>1, CycleCounts
<1>6. commitHeadDone => n < x
  BY <1>1, CycleCounts
<1>7. m <= y /\ y <= c /\ y - m <= e
  BY <1>2, <1>3, <1>5, <1>6
<1>8. committedBytes = IF n = c THEN copy.size ELSE LogicalStart(n)
  BY <1>1 DEF CopyInv, Window
<1>9. committedBytes' = IF m = c THEN copy.size ELSE LogicalStart(m)
  <2>1. CASE ~commitHeadDone
    BY <1>5, <1>8, <2>1, CycleCounts
  <2>2. CASE commitHeadDone
    <3>1. n \in BeatsToRead /\ n # c /\ m = n + 1
      BY <1>1, <1>2, <1>5, <1>6, <2>2, CycleCounts
    <3>2. committedBytes' = LogicalStart(n) + ValidBytes(n)
      BY <1>1, <1>8, <2>2, <3>1, CycleCounts
    <3>3. LogicalStart(n) + ValidBytes(n) = IF n + 1 = c THEN copy.size ELSE LogicalStart(n + 1)
      BY <1>1, <1>4, <3>1, BeatBounds
    <3>4. QED
      BY <3>1, <3>2, <3>3
  <2>3. QED
    BY <2>1, <2>2
<1>10. copy'.size = copy.size /\ readBeatCount' = c /\ LogicalStart(m)' = LogicalStart(m)
  BY <1>1, <1>4, CommandKept DEF SameCommand
<1>11. LogicalStart(nextCommitIdx)' = LogicalStart(m)
  BY <1>5, <1>10 DEF LogicalStart
<1>12. Window'
  BY <1>1, <1>5, <1>7, <1>9, <1>10, <1>11 DEF Window
<1>13. committedBytes' \in Int
  <2>1. committedBytes \in Int
    BY DEF CopyInv, CopyTyped
  <2>2. commitHeadDone => ValidBytes(nextCommitIdx) \in Int
    BY <1>4, BeatBounds, CycleCounts
  <2>3. QED
    BY <2>1, <2>2, CycleCounts
<1>14. QED
  BY <1>5, <1>12, <1>13

LEMMA SlotsInWindowKept ==
  ASSUME CopyInv, NEW f, NEW taken, NEW r, NEW issued, NEW w, Cycle(f, taken, r, issued, w)
  PROVE  /\ SlotsInWindow'
         /\ \A i \in RobSlots : rob'[i] \in SlotRecords
<1>1. PICK x \in Nat, n \in Nat, y \in Nat, m \in Nat :
        /\ x = readReqIdx /\ n = nextCommitIdx /\ y = readReqIdx' /\ m = nextCommitIdx'
        /\ y = IF taken = NoRead THEN x ELSE x + 1
        /\ m = IF commitHeadDone THEN n + 1 ELSE n
  BY CycleCounts
<1>2. n <= x /\ (commitHeadDone => n < x /\ ~Busy(n))
  BY <1>1, CycleCounts
<1>3. AskedKnown(taken) /\ ReadKnown(r) /\ NoRead.slot = NoBeat /\ NoBeat \notin RobSlots
  BY CycleChoices
<1>4. ASSUME NEW i \in RobSlots, rob[i].busy
      PROVE  rob[i].reqIdx \in m .. y - 1 /\ Slot(rob[i].reqIdx) = i
  <2>1. PICK b \in Nat : b = rob[i].reqIdx
    BY <1>4, SlotBeat
  <2>2. n <= b /\ b < x /\ Busy(b) /\ Slot(b) = i
    BY <1>1, <1>4, <2>1, SlotBeat
  <2>3. commitHeadDone => b # n
    BY <1>2, <2>2
  <2>4. b \in m .. y - 1
    BY <1>1, <2>1, <2>2, <2>3
  <2>5. QED
    BY <2>1, <2>2, <2>4
<1>5. ASSUME NEW i \in RobSlots
      PROVE  /\ rob'[i].busy => rob'[i].reqIdx \in m .. y - 1 /\ Slot(rob'[i].reqIdx) = i
             /\ ~rob'[i].busy => rob'[i].frag[1] = <<>> /\ rob'[i].frag[2] = <<>>
             /\ rob'[i] \in SlotRecords
  <2>1. CASE BeatCompletes(i, f, w)
    <3>1. rob'[i] = FreeSlot
      BY <2>1, SlotsAfter
    <3>2. QED
      BY <3>1, FreeTyped DEF SlotRecords
  <2>2. CASE i = taken.slot
    <3>1. rob'[i] = Allocated /\ taken # NoRead
      BY <1>3, <2>2, SlotsAfter
    <3>2. readSlot = i
      BY <1>3, <2>2, <3>1 DEF AskedKnown
    <3>3. Slot(x) = i /\ x \in m .. y - 1
      BY <1>1, <1>2, <3>1, <3>2 DEF readSlot, Slot
    <3>4. QED
      BY <1>1, <3>1, <3>3, AllocatedKnown
  <2>3. CASE i = r.slot
    <3>1. rob'[i] = Received(r) /\ rob[i].busy /\ r # NoRead
      BY <1>3, <2>3, SlotsAfter
    <3>2. Received(r) \in SlotRecords /\ Received(r).busy /\ Received(r).reqIdx = rob[i].reqIdx
      BY <1>3, <2>3, <3>1, ReceivedKnown
    <3>3. QED
      BY <1>4, <3>1, <3>2
  <2>4. CASE ~BeatCompletes(i, f, w) /\ i # taken.slot /\ i # r.slot
    <3>1. /\ rob'[i] \in SlotRecords
          /\ rob'[i].busy = rob[i].busy /\ rob'[i].reqIdx = rob[i].reqIdx
          /\ \A k \in 1 .. 2 : rob'[i].frag[k] = IF f = <<i, k>> THEN <<>> ELSE rob[i].frag[k]
      BY <2>4, SlotsAfter
    <3>2. ~rob[i].busy => rob[i].frag[1] = <<>> /\ rob[i].frag[2] = <<>>
      BY DEF CopyInv, SlotsInWindow
    <3>3. 1 \in 1 .. 2 /\ 2 \in 1 .. 2
      OBVIOUS
    <3>4. ~rob[i].busy => rob'[i].frag[1] = <<>> /\ rob'[i].frag[2] = <<>>
      BY <3>1, <3>2, <3>3
    <3>5. QED
      BY <1>4, <3>1, <3>4
  <2>5. QED
    BY <2>1, <2>2, <2>3, <2>4
<1>6. SlotsInWindow'
  BY <1>1, <1>5 DEF SlotsInWindow, Slot
<1>7. QED
  BY <1>5, <1>6

LEMMA CompletedInWindowKept ==
  ASSUME CopyInv, NEW f, NEW taken, NEW r, NEW issued, NEW w, Cycle(f, taken, r, issued, w)
  PROVE  CompletedInWindow' /\ completion' \in [0 .. CompletionEntries - 1 -> Int]
<1>1. PICK x \in Nat, n \in Nat, y \in Nat, m \in Nat :
        /\ x = readReqIdx /\ n = nextCommitIdx /\ y = readReqIdx' /\ m = nextCommitIdx'
        /\ y = IF taken = NoRead THEN x ELSE x + 1
        /\ m = IF commitHeadDone THEN n + 1 ELSE n
  BY CycleCounts
<1>2. commitHeadDone => ~Busy(n)
  BY <1>1, CycleCounts
<1>3. completion \in [0 .. CompletionEntries - 1 -> Int]
  BY DEF CopyInv, CopyTyped
<1> DEFINE beats == {rob[i].reqIdx : i \in {j \in RobSlots : BeatCompletes(j, f, w)}}
<1>4. completion' = [k \in DOMAIN completion |->
       IF commitHeadDone /\ k = CompletionIndex(nextCommitIdx) THEN NoBeat
       ELSE IF \E b \in beats : k = CompletionIndex(b)
            THEN CHOOSE b \in beats : k = CompletionIndex(b)
            ELSE completion[k]]
  <2>1. CopyCycle(f, taken, r, issued, w)
    BY DEF Cycle
  <2>2. QED
    BY <2>1 DEF CopyCycle
<1>5. ASSUME NEW b \in beats
      PROVE  b \in Nat /\ b \in n .. x - 1 /\ Busy(b) /\ BeatCompletes(Slot(b), f, w)
  <2>1. PICK i \in RobSlots : BeatCompletes(i, f, w) /\ b = rob[i].reqIdx
    BY <1>5
  <2>2. rob[i].busy
    BY <2>1, SlotsAfter
  <2>3. QED
    BY <1>1, <2>1, <2>2, SlotBeat
<1> HIDE DEF beats
<1>6. ASSUME NEW k \in 0 .. CompletionEntries - 1
      PROVE  /\ completion'[k] \in Int
             /\ completion'[k] # NoBeat =>
                  /\ completion'[k] \in m .. y - 1
                  /\ CompletionIndex(completion'[k]) = k
                  /\ \A b : b = completion'[k] => ~Busy(b)'
  <2>1. CASE commitHeadDone /\ k = CompletionIndex(nextCommitIdx)
    <3>1. completion'[k] = NoBeat
      BY <1>3, <1>4, <2>1
    <3>2. QED
      BY <3>1 DEF NoBeat
  <2>2. CASE /\ ~(commitHeadDone /\ k = CompletionIndex(nextCommitIdx))
             /\ \E b \in beats : k = CompletionIndex(b)
    <3>1. completion'[k] = CHOOSE b \in beats : k = CompletionIndex(b)
      BY <1>3, <1>4, <2>2
    <3>2. PICK b \in beats : b = completion'[k] /\ k = CompletionIndex(b)
      BY <2>2, <3>1
    <3>3. b \in Nat /\ b \in n .. x - 1 /\ Busy(b) /\ BeatCompletes(Slot(b), f, w)
      BY <1>5
    <3>4. commitHeadDone => b # n
      BY <1>2, <3>3
    <3>5. b \in m .. y - 1
      BY <1>1, <3>3, <3>4
    <3>6. ~Busy(b)'
      BY <1>1, <3>3, HeldAfter
    <3>7. QED
      BY <3>2, <3>3, <3>5, <3>6
  <2>3. CASE /\ ~(commitHeadDone /\ k = CompletionIndex(nextCommitIdx))
             /\ ~(\E b \in beats : k = CompletionIndex(b))
    <3>1. completion'[k] = completion[k]
      BY <1>3, <1>4, <2>3
    <3>2. PICK b \in Int : b = completion[k]
      BY <1>3
    <3>3. SUFFICES ASSUME b # NoBeat
                   PROVE  b \in m .. y - 1 /\ CompletionIndex(b) = k /\ ~Busy(b)'
      BY <3>1, <3>2
    <3>4. b \in n .. x - 1 /\ CompletionIndex(b) = k /\ ~Busy(b)
      BY <1>1, <1>3, <3>2, <3>3 DEF CopyInv, CompletedInWindow
    <3>5. commitHeadDone => b # n
      BY <1>1, <2>3, <3>4
    <3>6. b \in Nat /\ b \in m .. y - 1
      BY <1>1, <3>4, <3>5
    <3>7. ~Busy(b)'
      BY <1>1, <3>4, <3>6, HeldAfter
    <3>8. QED
      BY <3>4, <3>6, <3>7
  <2>4. QED
    BY <2>1, <2>2, <2>3
<1>7. completion' \in [0 .. CompletionEntries - 1 -> Int]
  <2>1. DOMAIN completion = 0 .. CompletionEntries - 1
    BY <1>3
  <2>2. completion' = [k \in 0 .. CompletionEntries - 1 |-> completion'[k]]
    BY <1>4, <2>1
  <2>3. QED
    BY <1>6, <2>2
<1>8. CompletedInWindow'
  <2>1. ASSUME NEW k \in DOMAIN completion', completion'[k] # NoBeat
        PROVE  /\ completion'[k] \in m .. y - 1
               /\ CompletionIndex(completion[k])' = k
               /\ ~Busy(completion[k])'
    <3>1. k \in 0 .. CompletionEntries - 1
      BY <1>7, <2>1
    <3>2. PICK b : b = completion'[k]
      OBVIOUS
    <3>3. b \in m .. y - 1 /\ CompletionIndex(b) = k /\ ~Busy(b)'
      BY <1>6, <2>1, <3>1, <3>2
    <3>4. Busy(completion[k])' <=> Busy(b)'
      BY <3>2 DEF Busy, Slot
    <3>5. CompletionIndex(completion[k])' = CompletionIndex(b)
      BY <3>2 DEF CompletionIndex
    <3>6. QED
      BY <3>2, <3>3, <3>4, <3>5
  <2>2. QED
    BY <1>1, <2>1 DEF CompletedInWindow
<1>9. QED
  BY <1>7, <1>8

LEMMA BeatAddrTyped ==
  ASSUME CommandTyped, NEW b \in Nat
  PROVE  BeatAddr(b) \in Nat
<1>1. PICK s \in Nat, n \in Nat \ {0} : s = copy.src /\ n = BeatBytes
  BY Beats
<1>2. /\ AlignDown(s) \in Int /\ s < AlignDown(s) + BeatBytes
      /\ \E q \in Int : AlignDown(s) = BeatBytes * q
  <2>1. s \in Int
    OBVIOUS
  <2>2. QED
    BY <2>1, LineBegins
<1>3. PICK q \in Int, l \in Int : l = AlignDown(s) /\ l = n * q /\ s < l + n
  BY <1>1, <1>2
<1>4. ~(q < 0)
  <2>1. SUFFICES ASSUME q < 0 PROVE FALSE
    OBVIOUS
  <2>2. n * 0 >= n * q + n
    BY <2>1, Mult
  <2>3. n * 0 = 0
    OBVIOUS
  <2>4. QED
    BY <1>3, <2>2, <2>3
<1>5. n * q \in Nat /\ b * n \in Nat
  BY <1>4
<1>6. PICK x \in Nat, y \in Nat : x = l /\ y = b * n
  BY <1>3, <1>5
<1>7. BeatAddr(b) = x + y
  BY <1>1, <1>3, <1>6 DEF BeatAddr
<1>8. QED
  BY <1>7

LEMMA ReadsAwaitedKept ==
  ASSUME CopyInv, NEW f, NEW taken, NEW r, NEW issued, NEW w, Cycle(f, taken, r, issued, w)
  PROVE  ReadsAwaited' /\ copyReads' \subseteq [slot : RobSlots, addr : Int]
<1>1. /\ AskedKnown(taken) /\ ReadKnown(r)
      /\ NoRead.slot = NoBeat /\ NoBeat \notin RobSlots
  BY CycleChoices
<1>2. SameCommand /\ CommandTyped /\ \A b : BeatAddr(b)' = BeatAddr(b)
  BY CycleCommand, CommandKept
<1>3. copyReads \subseteq [slot : RobSlots, addr : Int] /\ ReadsAwaited
  BY DEF CopyInv, CopyTyped
<1>4. ASSUME NEW u \in copyReads'
      PROVE  /\ u \in [slot : RobSlots, addr : Int]
             /\ rob'[u.slot].busy /\ rob'[u.slot].data = NoBeat
             /\ \A b : b = rob'[u.slot].reqIdx => u.addr = BeatAddr(b)
  <2>1. (u \in copyReads /\ u # r) \/ (u = taken /\ taken # NoRead)
    <3>1. copyReads' = (copyReads \ {r}) \cup ({taken} \ {NoRead})
      BY CycleCounts
    <3>2. QED
      BY <1>4, <3>1
  <2>2. CASE u \in copyReads /\ u # r
    <3>1. PICK i \in RobSlots : i = u.slot
      BY <1>3, <2>2
    <3>2. rob[i].busy /\ rob[i].data = NoBeat /\ u.addr = BeatAddr(rob[i].reqIdx)
      BY <1>3, <2>2, <3>1 DEF ReadsAwaited
    <3>3. i # r.slot
      <4>1. SUFFICES ASSUME i = r.slot PROVE FALSE
        OBVIOUS
      <4>2. r \in copyReads /\ r.addr = u.addr
        BY <1>1, <3>2, <4>1 DEF ReadKnown
      <4>3. r = u
        <5>1. r \in [slot : RobSlots, addr : Int] /\ u \in [slot : RobSlots, addr : Int]
          BY <1>3, <2>2, <4>2
        <5>2. r = [slot |-> r.slot, addr |-> r.addr] /\ u = [slot |-> u.slot, addr |-> u.addr]
          BY <5>1
        <5>3. QED
          BY <3>1, <4>1, <4>2, <5>2
      <4>4. QED
        BY <2>2, <4>3
    <3>4. ~BeatCompletes(i, f, w) /\ i # taken.slot
      BY <3>2, SlotsAfter
    <3>5. rob'[i].busy /\ rob'[i].data = NoBeat /\ rob'[i].reqIdx = rob[i].reqIdx
      BY <3>2, <3>3, <3>4, SlotsAfter
    <3>6. QED
      BY <1>3, <2>2, <3>1, <3>2, <3>5
  <2>3. CASE u = taken /\ taken # NoRead
    <3>1. /\ taken.slot = readSlot /\ readSlot \in RobSlots /\ taken.addr = BeatAddr(readReqIdx)
          /\ taken = [slot |-> taken.slot, addr |-> taken.addr]
      BY <1>1, <2>3 DEF AskedKnown, ReadRequest
    <3>2. readReqIdx \in Nat
      BY CycleCounts
    <3>3. BeatAddr(readReqIdx) \in Int
      BY <1>2, <3>2, BeatAddrTyped
    <3>4. PICK z \in Int, i \in RobSlots : z = taken.addr /\ i = taken.slot
      BY <3>1, <3>3
    <3>5. u = [slot |-> i, addr |-> z]
      BY <2>3, <3>1, <3>4
    <3>6. rob'[i] = Allocated
      BY <3>4, SlotsAfter
    <3>7. QED
      BY <3>1, <3>4, <3>5, <3>6, AllocatedKnown
  <2>4. QED
    BY <2>1, <2>2, <2>3
<1>5. ASSUME NEW u \in copyReads'
      PROVE  u.addr = BeatAddr(rob[u.slot].reqIdx)'
  <2>1. PICK b : b = rob'[u.slot].reqIdx
    OBVIOUS
  <2>2. BeatAddr(rob[u.slot].reqIdx)' = BeatAddr(b)'
    BY <2>1 DEF BeatAddr
  <2>3. QED
    BY <1>2, <1>4, <2>1, <2>2
<1>6. ReadsAwaited'
  BY <1>4, <1>5 DEF ReadsAwaited
<1>7. QED
  BY <1>4, <1>6

LEMMA WritesAwaitedKept ==
  ASSUME CopyInv, NEW f, NEW taken, NEW r, NEW issued, NEW w, Cycle(f, taken, r, issued, w)
  PROVE  WritesAwaited' /\ copyWrites' \subseteq [wcb : WcbSlots, data : Bytes]
<1>1. /\ IssuedKnown(issued) /\ WrittenKnown(w)
      /\ NoAnswer.wcb = NoBeat /\ NoBeat \notin WcbSlots
  BY CycleChoices
<1>2. copyWrites \subseteq [wcb : WcbSlots, data : Bytes] /\ WritesAwaited
  BY DEF CopyInv, CopyTyped
<1>3. \A v \in WcbSlots : wcb[v].data \in Bytes
  BY DEF CopyInv, CopyTyped
<1>4. f # NoneSelected =>
        /\ SelectedWcb(f) \in WcbSlots
        /\ ~wcb[SelectedWcb(f)].valid
           \/ (~wcb[SelectedWcb(f)].issued /\ ~wcbReady(SelectedWcb(f)))
  <2>1. f # NoneSelected => EntryGiven(f)
    BY EntriesAfter
  <2>2. QED
    BY <2>1 DEF EntryGiven
<1>5. ASSUME NEW u \in copyWrites'
      PROVE  /\ u \in [wcb : WcbSlots, data : Bytes]
             /\ wcb'[u.wcb].valid /\ wcb'[u.wcb].issued /\ u.data = wcb'[u.wcb].data
  <2>1. (u \in copyWrites /\ u # w) \/ (u = issued /\ issued # NoAnswer)
    <3>1. copyWrites' = (copyWrites \ {w}) \cup ({issued} \ {NoAnswer})
      BY CycleCounts
    <3>2. QED
      BY <1>5, <3>1
  <2>2. /\ u.wcb \in WcbSlots /\ u \in [wcb : WcbSlots, data : Bytes]
        /\ wcb[u.wcb].valid /\ u.data = wcb[u.wcb].data
        /\ wcb[u.wcb].issued \/ (u.wcb = issued.wcb /\ wcbReady(u.wcb))
    <3>1. CASE u \in copyWrites
      BY <1>2, <3>1 DEF WritesAwaited
    <3>2. CASE u = issued /\ issued # NoAnswer
      <4>1. issued.wcb \in WcbSlots /\ wcbReady(issued.wcb)
            /\ issued = [wcb |-> issued.wcb, data |-> wcb[issued.wcb].data]
        BY <1>1, <3>2 DEF IssuedKnown
      <4>2. PICK v \in WcbSlots, d \in Bytes : v = issued.wcb /\ d = wcb[v].data
        BY <1>3, <4>1
      <4>3. u = [wcb |-> v, data |-> d] /\ wcbReady(v)
        BY <3>2, <4>1, <4>2
      <4>4. wcb[v].valid
        BY <4>3 DEF wcbReady
      <4>5. QED
        BY <4>2, <4>3, <4>4
    <3>3. QED
      BY <2>1, <3>1, <3>2
  <2>3. u.wcb # w.wcb
    <3>1. SUFFICES ASSUME u.wcb = w.wcb PROVE FALSE
      OBVIOUS
    <3>2. w # NoAnswer /\ w \in copyWrites /\ wcb[w.wcb].issued /\ w.data = u.data
      BY <1>1, <2>2, <3>1 DEF WrittenKnown
    <3>3. w = u
      BY <1>2, <2>2, <3>1, <3>2
    <3>4. ~wcbReady(u.wcb)
      BY <3>1, <3>2 DEF wcbReady
    <3>5. QED
      BY <1>1, <2>1, <3>1, <3>2, <3>3, <3>4 DEF IssuedKnown
  <2>4. f # NoneSelected => u.wcb # SelectedWcb(f)
    BY <1>4, <2>2
  <2>5. EntryKept(u.wcb, issued)
    BY <2>2, <2>3, <2>4, EntriesAfter
  <2>6. QED
    BY <2>2, <2>5 DEF EntryKept
<1>6. WritesAwaited'
  BY <1>5 DEF WritesAwaited
<1>7. QED
  BY <1>5, <1>6

LEMMA SlotsKnownKept ==
  ASSUME CopyInv, NEW f, NEW taken, NEW r, NEW issued, NEW w, Cycle(f, taken, r, issued, w)
  PROVE  SlotsKnown'
<1>1. /\ AskedKnown(taken) /\ ReadKnown(r)
      /\ NoRead.slot = NoBeat /\ NoBeat \notin RobSlots
  BY CycleChoices
<1>2. SameCommand /\ CommandTyped
  BY CycleCommand
<1>3. /\ \A b : BeatAddr(b)' = BeatAddr(b)
      /\ \A b, k : Part(b, k)' = Part(b, k) /\ Full(b, k)' = Full(b, k)
  BY <1>2, CommandKept
<1>4. ASSUME NEW i \in RobSlots, rob'[i].busy, NEW b, b = rob'[i].reqIdx
      PROVE  /\ rob'[i].data = NoBeat =>
                  \A k \in 1 .. 2 : rob'[i].frag[k] = <<>> /\ ~InLine(b, k)'
             /\ rob'[i].data # NoBeat =>
                  /\ rob'[i].data = BeatAddr(b)
                  /\ \A k \in 1 .. 2 :
                       \/ rob'[i].frag[k] = Full(b, k) /\ Part(b, k) # {} /\ ~InLine(b, k)'
                       \/ /\ rob'[i].frag[k] = <<>>
                          /\ InLine(b, k)' \/ Part(b, k) \subseteq DOMAIN copied'
             /\ rob'[i].acks = B(InLine(b, 1)') + B(InLine(b, 2)')
  <2>1. ~BeatCompletes(i, f, w)
    BY <1>4, SlotsAfter, FreeTyped
  <2>2. CASE i = taken.slot
    <3>1. rob'[i] = Allocated /\ ~rob[i].busy /\ taken # NoRead
      BY <1>1, <2>2, SlotsAfter
    <3>2. /\ rob'[i].data = NoBeat /\ b = readReqIdx /\ rob'[i].acks = 0
          /\ \A k \in 1 .. 2 : rob'[i].frag[k] = <<>>
      BY <1>4, <3>1, AllocatedKnown
    <3>3. b \in BeatsToRead /\ Slot(b) = i /\ b \in Nat
      BY <1>1, <2>2, <3>1, <3>2, CycleCounts DEF AskedKnown, readSlot, Slot
    <3>4. ASSUME NEW k \in 1 .. 2 PROVE ~InLine(b, k)'
      <4>1. ~InLine(b, k)
        <5>1. SUFFICES ASSUME NEW v \in WcbSlots, wcb[v].valid, GivenTo(b, v) PROVE FALSE
          BY DEF InLine
        <5>2. b \in 0 .. readReqIdx - 1
          BY <5>1, GiverKnown
        <5>3. QED
          BY <3>2, <3>3, <5>2
      <4>2. ~Comes(b, k, f)
        <5>1. SUFFICES ASSUME f # NoneSelected, f[1] = i PROVE FALSE
          BY <3>3 DEF Comes
        <5>2. f \in Fragments
          BY <5>1, SelectedKnown DEF Cycle
        <5>3. QED
          BY <3>1, <5>1, <5>2, FragmentKnown
      <4>3. QED
        BY <3>3, <4>1, <4>2, InLineAfter
    <3>5. ~InLine(b, 1)' /\ ~InLine(b, 2)'
      BY <3>4
    <3>6. QED
      BY <3>2, <3>4, <3>5 DEF B
  <2>3. CASE i = r.slot
    <3>1. rob'[i] = Received(r) /\ rob[i].busy /\ rob[i].data = NoBeat /\ r # NoRead
      BY <1>1, <2>3, SlotsAfter
    <3>2. /\ b = rob[i].reqIdx /\ rob'[i].data = BeatAddr(b) /\ rob'[i].acks = rob[i].acks
          /\ \A k \in 1 .. 2 : rob'[i].frag[k] = Full(b, k)
      BY <1>1, <1>4, <2>3, <3>1, ReceivedKnown
    <3>3. b \in BeatsToRead /\ Slot(b) = i /\ SlotState(i) /\ b \in Nat
      BY <3>1, <3>2, SlotBeat
    <3>4. \A k \in 1 .. 2 : rob[i].frag[k] = <<>> /\ ~InLine(b, k)
      BY <3>1, <3>2, <3>3 DEF SlotState
    <3>5. ASSUME NEW k \in 1 .. 2 PROVE ~InLine(b, k)'
      <4>1. ~Comes(b, k, f)
        <5>1. SUFFICES ASSUME f # NoneSelected, f[1] = i PROVE FALSE
          BY <3>3 DEF Comes
        <5>2. f \in Fragments
          BY <5>1, SelectedKnown DEF Cycle
        <5>3. QED
          BY <3>1, <5>1, <5>2, FragmentKnown
      <4>2. QED
        BY <3>3, <3>4, <4>1, InLineAfter
    <3>6. ~InLine(b, 1) /\ ~InLine(b, 2) /\ ~InLine(b, 1)' /\ ~InLine(b, 2)'
      BY <3>4, <3>5
    <3>7. rob[i].acks = B(InLine(b, 1)) + B(InLine(b, 2))
      BY <3>2, <3>3 DEF SlotState
    <3>8. rob'[i].acks = B(InLine(b, 1)') + B(InLine(b, 2)')
      BY <3>2, <3>6, <3>7 DEF B
    <3>9. rob'[i].data # NoBeat
      <4>1. BeatAddr(b) \in Nat
        BY <1>2, <3>3, BeatAddrTyped
      <4>2. QED
        BY <3>2, <4>1 DEF NoBeat
    <3>10. \A k \in 1 .. 2 : Part(b, k) = {} => Full(b, k) = <<>>
      BY <1>2, <3>3, FullTyped
    <3>11. QED
      BY <3>2, <3>5, <3>8, <3>9, <3>10
  <2>4. CASE i # taken.slot /\ i # r.slot
    <3>1. /\ rob[i].busy /\ rob'[i].data = rob[i].data /\ b = rob[i].reqIdx
          /\ rob'[i].acks = AcksAfter(i, f, w)
          /\ \A k \in 1 .. 2 : rob'[i].frag[k] = IF f = <<i, k>> THEN <<>> ELSE rob[i].frag[k]
      BY <1>4, <2>1, <2>4, SlotsAfter
    <3>2. rob'[i].acks = B(InLine(b, 1)') + B(InLine(b, 2)')
      BY <3>1, AcksKnown
    <3>3. b \in BeatsToRead /\ Slot(b) = i /\ SlotState(i)
      BY <3>1, SlotBeat
    <3>4. CASE rob[i].data = NoBeat
      <4>1. \A k \in 1 .. 2 : rob[i].frag[k] = <<>> /\ ~InLine(b, k)
        BY <3>1, <3>3, <3>4 DEF SlotState
      <4>2. ASSUME NEW k \in 1 .. 2 PROVE ~InLine(b, k)'
        <5>1. ~Comes(b, k, f)
          <6>1. SUFFICES ASSUME f # NoneSelected, f[1] = i PROVE FALSE
            BY <3>3 DEF Comes
          <6>2. f \in Fragments
            BY <6>1, SelectedKnown DEF Cycle
          <6>3. QED
            BY <3>4, <6>1, <6>2, FragmentKnown
        <5>2. QED
          BY <3>3, <4>1, <5>1, InLineAfter
      <4>3. QED
        BY <3>1, <3>2, <3>4, <4>1, <4>2
    <3>5. CASE rob[i].data # NoBeat
      <4>1. rob'[i].data = BeatAddr(b)
        BY <3>1, <3>3, <3>5 DEF SlotState
      <4>2. ASSUME NEW k \in 1 .. 2
            PROVE  \/ rob'[i].frag[k] = Full(b, k) /\ Part(b, k) # {} /\ ~InLine(b, k)'
                   \/ /\ rob'[i].frag[k] = <<>>
                      /\ InLine(b, k)' \/ Part(b, k) \subseteq DOMAIN copied'
        <5>1. PICK left : left = IF f = <<i, k>> THEN <<>> ELSE rob[i].frag[k]
          OBVIOUS
        <5>2. \/ left = Full(b, k) /\ Part(b, k) # {} /\ ~InLine(b, k)'
              \/ left = <<>> /\ (InLine(b, k)' \/ Part(b, k) \subseteq DOMAIN copied')
          BY <3>1, <3>5, <5>1, PartAfter
        <5>3. rob'[i].frag[k] = left
          BY <3>1, <5>1
        <5>4. QED
          BY <5>2, <5>3
      <4>3. QED
        BY <3>1, <3>2, <3>5, <4>1, <4>2
    <3>6. QED
      BY <3>4, <3>5
  <2>5. QED
    BY <2>2, <2>3, <2>4
<1>5. ASSUME NEW i \in RobSlots, rob'[i].busy
      PROVE  SlotState(i)'
  <2>1. PICK b : b = rob'[i].reqIdx
    OBVIOUS
  <2>2. \A k : (InLine(rob[i].reqIdx, k)' <=> InLine(b, k)')
    BY <2>1 DEF InLine, GivenTo, PartLine, DstStart, LogicalStart, AlignDown, srcOff, Slot
  <2>3. \A k : /\ Full(rob[i].reqIdx, k)' = Full(b, k)
               /\ Part(rob[i].reqIdx, k)' = Part(b, k)
    <3>1. \A k : /\ Full(rob[i].reqIdx, k)' = Full(b, k)'
                 /\ Part(rob[i].reqIdx, k)' = Part(b, k)'
      BY <2>1 DEF Full, Part, DstStart, FirstBytes, ValidBytes, ValidStart, LogicalStart, srcOff,
         Smaller, SourceOf
    <3>2. QED
      BY <1>3, <3>1
  <2>4. BeatAddr(rob[i].reqIdx)' = BeatAddr(b)
    <3>1. BeatAddr(rob[i].reqIdx)' = BeatAddr(b)'
      BY <2>1 DEF BeatAddr
    <3>2. QED
      BY <1>3, <3>1
  <2>5. /\ B(InLine(rob[i].reqIdx, 1)') = B(InLine(b, 1)')
        /\ B(InLine(rob[i].reqIdx, 2)') = B(InLine(b, 2)')
    BY <2>2 DEF B
  <2>6. QED
    BY <1>4, <1>5, <2>1, <2>2, <2>3, <2>4, <2>5 DEF SlotState, PartPlaced, B
<1>6. QED
  BY <1>5 DEF SlotsKnown

LEMMA DoneCopiedKept ==
  ASSUME CopyInv, NEW f, NEW taken, NEW r, NEW issued, NEW w, Cycle(f, taken, r, issued, w)
  PROVE  DoneCopied'
<1>1. SameCommand /\ CommandTyped /\ \A b, k : Part(b, k)' = Part(b, k)
  BY CycleCommand, CommandKept
<1>2. ASSUME NEW b \in 0 .. readReqIdx' - 1, ~Busy(b)', NEW k \in 1 .. 2
      PROVE  Part(b, k) \subseteq DOMAIN copied'
  <2>1. PICK x \in Nat : x = readReqIdx /\ readReqIdx' = IF taken = NoRead THEN x ELSE x + 1
    BY CycleCounts
  <2>2. b \in Nat /\ (b < x \/ (taken # NoRead /\ b = x))
    BY <2>1
  <2>3. ~(taken # NoRead /\ b = x) /\ (Busy(b) => BeatCompletes(Slot(b), f, w))
    BY <1>2, <2>1, <2>2, HeldAfter
  <2>4. b \in 0 .. readReqIdx - 1
    BY <2>1, <2>2, <2>3
  <2>5. CASE Busy(b)
    <3>1. PICK i \in RobSlots : i = Slot(b) /\ b = rob[i].reqIdx
      BY <2>2, <2>5, SlotOf DEF Busy
    <3>2. QED
      BY <2>3, <2>5, <3>1, CompletedCopied
  <2>6. CASE ~Busy(b)
    <3>1. Part(b, k) \subseteq DOMAIN copied
      BY <2>4, <2>6 DEF CopyInv, DoneCopied, BeatCopied
    <3>2. QED
      BY <3>1, CopiedAfter
  <2>7. QED
    BY <2>5, <2>6
<1>3. QED
  BY <1>1, <1>2 DEF DoneCopied, BeatCopied

\* A beat given to an entry that is there after the cycle is still held.
LEMMA GiverHeld ==
  ASSUME CopyInv, NEW f, NEW taken, NEW r, NEW issued, NEW w, Cycle(f, taken, r, issued, w),
         NEW v \in WcbSlots, wcb'[v].valid, NEW b, GivenTo(b, v)'
  PROVE  /\ b \in BeatsToRead /\ Slot(b) \in RobSlots /\ b \in Nat /\ Busy(b)'
         /\ \E k \in 1 .. 2 : PartLine(b, k) = wcb'[v].line /\ Part(b, k) # {}
<1>1. /\ v # w.wcb
      /\ \/ wcb[v].valid /\ GivenTo(b, v)
         \/ f # NoneSelected /\ v = SelectedWcb(f) /\ b = rob[f[1]].reqIdx
  BY GivenAfter
<1>2. CASE wcb[v].valid /\ GivenTo(b, v)
  <2>1. PICK k \in 1 .. 2 : PartLine(b, k) = wcb[v].line /\ Part(b, k) # {} /\ InLine(b, k)
    BY <1>2, GiverKnown
  <2>2. b \in BeatsToRead /\ Slot(b) \in RobSlots /\ b \in Nat /\ Busy(b)
    BY <1>2, GiverKnown, Commanded, BeatBounds
  <2>3. wcb'[v].line = wcb[v].line
    BY <1>2, LineAfter
  <2>4. InLine(b, k)'
    <3>1. SameCommand
      BY CycleCommand
    <3>2. PartLine(b, k)' = PartLine(b, k)
      BY <3>1, CommandKept
    <3>3. QED
      BY <2>1, <2>3, <3>2 DEF InLine
  <2>5. Busy(b)'
    BY <2>2, <2>4, InLineHeld
  <2>6. QED
    BY <2>1, <2>2, <2>3, <2>5
<1>3. CASE f # NoneSelected /\ v = SelectedWcb(f) /\ b = rob[f[1]].reqIdx
  <2>1. f \in Fragments
    BY <1>3, SelectedKnown DEF Cycle
  <2>2. /\ f[1] \in RobSlots /\ f[2] \in 1 .. 2 /\ b \in BeatsToRead /\ Slot(b) = f[1] /\ Busy(b)
        /\ Part(b, f[2]) # {}
    BY <1>3, <2>1, FragmentKnown
  <2>3. wcb'[v].line = PartLine(b, f[2])
    BY <1>3, LineAfter
  <2>4. Comes(b, f[2], f)
    BY <1>3, <2>2 DEF Comes
  <2>5. InLine(b, f[2])'
    BY <2>2, <2>4, InLineAfter
  <2>6. Busy(b)' /\ b \in Nat
    BY <2>2, <2>5, InLineHeld, Commanded, BeatBounds
  <2>7. QED
    BY <2>2, <2>3, <2>6
<1>4. QED
  BY <1>1, <1>2, <1>3

\* What the entry is that a fragment was given to.
LEMMA GivenEntryKnown ==
  ASSUME CopyInv, NEW f, NEW taken, NEW r, NEW issued, NEW w, Cycle(f, taken, r, issued, w),
         f # NoneSelected, NEW v \in WcbSlots, v = SelectedWcb(f)
  PROVE  /\ Len(wcb'[v].contrib) \in 1 .. 2
         /\ Len(wcb'[v].contrib) = 2 => wcb'[v].contrib[1] # wcb'[v].contrib[2]
         /\ wcb'[v].contrib \in Seq(RobSlots \X Nat) /\ wcb'[v].data \in Bytes
         /\ DOMAIN wcb'[v].data =
              {a \in Destination : AlignDown(a) = wcb'[v].line /\ GivenTo(BeatOf(a), v)'}
         /\ \A a \in DOMAIN wcb'[v].data : wcb'[v].data[a] = SourceOf(a)
<1>1. EntryGiven(f) /\ v # w.wcb /\ f \in Fragments
  BY EntriesAfter, SelectedKnown DEF Cycle
<1>2. PICK b \in BeatsToRead, k \in 1 .. 2, i \in RobSlots : b = rob[f[1]].reqIdx /\ k = f[2]
        /\ i = f[1]
  BY <1>1, FragmentKnown
<1>3. b \in BeatsToRead /\ Slot(b) = i /\ ~InLine(b, k)
  BY <1>1, <1>2, FragmentKnown
<1>4. CommandTyped /\ b \in Nat
  BY <1>3, Commanded, BeatBounds
<1>5. /\ Full(b, k) \in Bytes /\ DOMAIN Full(b, k) = Part(b, k)
      /\ \A a \in Part(b, k) : Full(b, k)[a] = SourceOf(a)
  BY <1>3, <1>4, FullTyped DEF Full
<1>6. Part(b, k) = {a \in Destination : BeatOf(a) = b /\ AlignDown(a) = PartLine(b, k)}
  BY <1>3, <1>4, PartIs
<1>7. wcb'[v].valid /\ wcb'[v].line = PartLine(b, k)
  BY <1>1, <1>2 DEF EntryGiven
<1>8. \A c : GivenTo(c, v)' <=> (wcb[v].valid /\ GivenTo(c, v)) \/ c = b
  <2>1. TAKE c
  <2>2. wcb'[v].valid /\ GivenTo(c, v)' <=>
           /\ v # w.wcb
           /\ \/ wcb[v].valid /\ GivenTo(c, v)
              \/ f # NoneSelected /\ v = SelectedWcb(f) /\ c = rob[f[1]].reqIdx
    BY GivenAfter
  <2>3. QED
    BY <1>1, <1>2, <1>7, <2>2
<1>9. CASE wcb[v].valid
  <2>1. /\ wcb[v].line = PartLine(b, k) /\ Len(wcb[v].contrib) = 1
        /\ wcb'[v].contrib = <<wcb[v].contrib[1], <<i, b>> >>
        /\ wcb'[v].data = Onto(Full(b, k), wcb[v].data)
    BY <1>1, <1>2, <1>9 DEF EntryGiven
  <2>2. /\ wcb[v].contrib \in Seq(RobSlots \X Nat) /\ wcb[v].data \in Bytes /\ LineKnown(v)
    BY <1>9 DEF CopyInv, CopyTyped, LinesKnown
  <2>3. PICK c \in RobSlots \X Nat : c = wcb[v].contrib[1]
    BY <2>1, <2>2
  <2>4. wcb'[v].contrib = <<c, <<i, b>> >> /\ <<i, b>> \in RobSlots \X Nat
    BY <1>4, <2>1, <2>3
  <2>5. c # <<i, b>>
    <3>1. SUFFICES ASSUME c = <<i, b>> PROVE FALSE
      OBVIOUS
    <3>2. 1 \in DOMAIN wcb[v].contrib
      BY <2>1, <2>2
    <3>3. GivenTo(b, v)
      BY <1>3, <2>3, <3>1, <3>2 DEF GivenTo
    <3>4. InLine(b, k)
      BY <1>9, <2>1, <3>3 DEF InLine
    <3>5. QED
      BY <1>3, <3>4
  <2>6. /\ Len(wcb'[v].contrib) = 2 /\ wcb'[v].contrib[1] # wcb'[v].contrib[2]
        /\ wcb'[v].contrib \in Seq(RobSlots \X Nat)
    BY <2>4, <2>5
  <2>7. /\ wcb'[v].data \in Bytes
        /\ DOMAIN wcb'[v].data = Part(b, k) \cup DOMAIN wcb[v].data
        /\ \A a \in DOMAIN wcb'[v].data :
             wcb'[v].data[a] = IF a \in Part(b, k) THEN Full(b, k)[a] ELSE wcb[v].data[a]
    <3>1. PICK y \in Bytes, x \in Bytes : y = Full(b, k) /\ x = wcb[v].data
      BY <1>5, <2>2
    <3>2. PICK d : d = Onto(y, x)
      OBVIOUS
    <3>3. d \in Bytes /\ DOMAIN d = DOMAIN y \cup DOMAIN x
      BY <3>2, OntoTyped
    <3>4. \A a \in DOMAIN d : d[a] = IF a \in DOMAIN y THEN y[a] ELSE x[a]
      BY <3>2, <3>3 DEF Onto
    <3>5. wcb'[v].data = d
      BY <2>1, <3>1, <3>2
    <3>6. QED
      BY <1>5, <3>1, <3>3, <3>4, <3>5
  <2>8. /\ DOMAIN wcb[v].data =
             {a \in Destination : AlignDown(a) = PartLine(b, k) /\ GivenTo(BeatOf(a), v)}
        /\ \A a \in DOMAIN wcb[v].data : wcb[v].data[a] = SourceOf(a)
    BY <2>1, <2>2 DEF LineKnown
  <2>9. \A a \in DOMAIN wcb'[v].data : wcb'[v].data[a] = SourceOf(a)
    BY <1>5, <2>7, <2>8
  <2>10. DOMAIN wcb'[v].data =
           {a \in Destination : /\ AlignDown(a) = PartLine(b, k)
                                /\ GivenTo(BeatOf(a), v) \/ BeatOf(a) = b}
    BY <1>6, <2>7, <2>8
  <2>11. \A a : GivenTo(BeatOf(a), v)' <=> GivenTo(BeatOf(a), v) \/ BeatOf(a) = b
    <3>1. TAKE a
    <3>2. PICK e : e = BeatOf(a)
      OBVIOUS
    <3>3. GivenTo(BeatOf(a), v)' <=> GivenTo(e, v)'
      BY <3>2, CycleCommand, CommandKept DEF GivenTo, Slot
    <3>4. GivenTo(BeatOf(a), v) <=> GivenTo(e, v)
      BY <3>2
    <3>5. QED
      BY <1>8, <1>9, <3>2, <3>3, <3>4
  <2>12. QED
    BY <1>7, <2>6, <2>7, <2>9, <2>10, <2>11
<1>10. CASE ~wcb[v].valid
  <2>1. wcb'[v].contrib = << <<i, b>> >> /\ wcb'[v].data = Full(b, k)
    BY <1>1, <1>2, <1>10 DEF EntryGiven
  <2>2. <<i, b>> \in RobSlots \X Nat
    BY <1>4
  <2>3. Len(wcb'[v].contrib) = 1 /\ wcb'[v].contrib \in Seq(RobSlots \X Nat)
    BY <2>1, <2>2
  <2>4. \A a : GivenTo(BeatOf(a), v)' <=> BeatOf(a) = b
    <3>1. TAKE a
    <3>2. PICK c : c = BeatOf(a)
      OBVIOUS
    <3>3. GivenTo(BeatOf(a), v)' <=> GivenTo(c, v)'
      BY <3>2, CycleCommand, CommandKept DEF GivenTo, Slot
    <3>4. QED
      BY <1>8, <1>10, <3>2, <3>3
  <2>5. DOMAIN wcb'[v].data =
          {a \in Destination : AlignDown(a) = PartLine(b, k) /\ BeatOf(a) = b}
    BY <1>5, <1>6, <2>1
  <2>6. QED
    BY <1>5, <1>7, <2>1, <2>3, <2>4, <2>5
<1>11. QED
  BY <1>9, <1>10

LEMMA LineKept ==
  ASSUME CopyInv, NEW f, NEW taken, NEW r, NEW issued, NEW w, Cycle(f, taken, r, issued, w),
         NEW v \in WcbSlots, wcb'[v].valid
  PROVE  LineKnown(v)'
<1>1. /\ SameCommand /\ copy' = copy /\ CommandTyped
  BY CycleCommand
<1>2. /\ \A a : SourceOf(a)' = SourceOf(a) /\ BeatOf(a)' = BeatOf(a)
      /\ \A b, k : PartLine(b, k)' = PartLine(b, k) /\ Part(b, k)' = Part(b, k)
      /\ Destination' = Destination
  BY <1>1, CommandKept
<1>3. /\ v # w.wcb
      /\ ~wcb[v].valid => f # NoneSelected /\ v = SelectedWcb(f)
  BY LineAfter
<1>4. /\ Len(wcb'[v].contrib) \in 1 .. 2
      /\ Len(wcb'[v].contrib) = 2 => wcb'[v].contrib[1] # wcb'[v].contrib[2]
      /\ wcb'[v].contrib \in Seq(RobSlots \X Nat)
      /\ DOMAIN wcb'[v].data =
           {a \in Destination : AlignDown(a) = wcb'[v].line /\ GivenTo(BeatOf(a), v)'}
      /\ \A a \in DOMAIN wcb'[v].data : wcb'[v].data[a] = SourceOf(a)
      /\ wcb'[v].issued =>
           {a \in wcb'[v].line .. wcb'[v].line + BeatBytes - 1 : copy.valid /\ InCopyRange(a)}
             \subseteq DOMAIN wcb'[v].data
  <2>1. CASE f # NoneSelected /\ v = SelectedWcb(f)
    <3>1. ~wcb'[v].issued
      BY <2>1, EntriesAfter DEF EntryGiven
    <3>2. QED
      BY <2>1, <3>1, GivenEntryKnown
  <2>2. CASE f # NoneSelected => v # SelectedWcb(f)
    <3>1. EntryKept(v, issued) /\ wcb[v].valid
      BY <1>3, <2>2, EntriesAfter
    <3>2. LineKnown(v) /\ wcb[v].contrib \in Seq(RobSlots \X Nat)
      BY <3>1 DEF CopyInv, CopyTyped, LinesKnown
    <3>3. \A a : GivenTo(BeatOf(a), v)' <=> GivenTo(BeatOf(a), v)
      BY <1>2, <3>1 DEF EntryKept, GivenTo, Slot
    <3>4. wcb'[v].issued => Expected(wcb[v].line) \subseteq DOMAIN wcb[v].data
      <4>1. IssuedKnown(issued) /\ NoAnswer.wcb = NoBeat /\ NoBeat \notin WcbSlots
        BY CycleChoices
      <4>2. v = issued.wcb => wcbReady(v)
        BY <4>1 DEF IssuedKnown
      <4>3. QED
        BY <3>1, <3>2, <4>2 DEF EntryKept, LineKnown, wcbReady
    <3>5. QED
      BY <3>1, <3>2, <3>3, <3>4 DEF EntryKept, LineKnown, Expected
  <2>3. QED
    BY <2>1, <2>2
<1>5. ASSUME NEW j \in DOMAIN wcb'[v].contrib
      PROVE  /\ wcb'[v].contrib[j][1] = Slot(wcb'[v].contrib[j][2])
             /\ Busy(wcb[v].contrib[j][2])'
             /\ \E k \in 1 .. 2 : /\ PartLine(wcb'[v].contrib[j][2], k) = wcb'[v].line
                                  /\ Part(wcb'[v].contrib[j][2], k) # {}
  <2>1. PICK i \in RobSlots, b \in Nat : wcb'[v].contrib[j] = <<i, b>>
    <3>1. PICK s \in Seq(RobSlots \X Nat) : s = wcb'[v].contrib
      BY <1>4
    <3>2. s[j] \in RobSlots \X Nat
      BY <3>1
    <3>3. QED
      BY <3>1, <3>2
  <2>2. i = Slot(b)
    <3>1. CASE f # NoneSelected /\ v = SelectedWcb(f)
      <4>1. EntryGiven(f) /\ f \in Fragments
        BY <3>1, EntriesAfter, SelectedKnown DEF Cycle
      <4>2. PICK c \in BeatsToRead, x \in RobSlots : c = rob[f[1]].reqIdx /\ x = f[1] /\ x = Slot(c)
        BY <4>1, FragmentKnown
      <4>3. CASE wcb[v].valid
        <5>1. /\ Len(wcb[v].contrib) = 1
              /\ wcb'[v].contrib = <<wcb[v].contrib[1], <<x, c>> >>
          BY <3>1, <4>1, <4>2, <4>3 DEF EntryGiven
        <5>2. Gives(wcb[v].contrib[1], v)
          <6>1. LineKnown(v) /\ wcb[v].contrib \in Seq(RobSlots \X Nat)
            BY <4>3 DEF CopyInv, CopyTyped, LinesKnown
          <6>2. 1 \in DOMAIN wcb[v].contrib
            BY <5>1, <6>1
          <6>3. QED
            BY <6>1, <6>2 DEF LineKnown
        <5>3. j \in 1 .. 2
          BY <5>1
        <5>4. CASE j = 1
          BY <2>1, <5>1, <5>2, <5>4 DEF Gives
        <5>5. CASE j = 2
          BY <2>1, <4>2, <5>1, <5>5
        <5>6. QED
          BY <5>3, <5>4, <5>5
      <4>4. CASE ~wcb[v].valid
        <5>1. wcb'[v].contrib = << <<x, c>> >>
          BY <3>1, <4>1, <4>2, <4>4 DEF EntryGiven
        <5>2. j = 1
          BY <5>1
        <5>3. QED
          BY <2>1, <4>2, <5>1, <5>2
      <4>5. QED
        BY <4>3, <4>4
    <3>2. CASE f # NoneSelected => v # SelectedWcb(f)
      <4>1. EntryKept(v, issued) /\ wcb[v].valid
        BY <1>3, <3>2, EntriesAfter
      <4>2. Gives(wcb[v].contrib[j], v) /\ wcb[v].contrib[j] = <<i, b>>
        BY <2>1, <4>1 DEF CopyInv, LinesKnown, LineKnown, EntryKept
      <4>3. QED
        BY <4>2 DEF Gives
    <3>3. QED
      BY <3>1, <3>2
  <2>3. GivenTo(b, v)'
    BY <2>1, <2>2 DEF GivenTo, Slot
  <2>4. /\ Busy(b)' /\ \E k \in 1 .. 2 : PartLine(b, k) = wcb'[v].line /\ Part(b, k) # {}
    BY <2>3, GiverHeld
  <2>5. wcb'[v].contrib[j][1] = i /\ wcb'[v].contrib[j][2] = b
    BY <2>1
  <2>6. Busy(wcb[v].contrib[j][2])'
    BY <2>4, <2>5 DEF Busy, Slot
  <2>7. QED
    BY <2>2, <2>4, <2>5, <2>6
<1>6. \A j \in DOMAIN wcb'[v].contrib : Gives(wcb[v].contrib[j], v)'
  <2>1. TAKE j \in DOMAIN wcb'[v].contrib
  <2>2. wcb'[v].contrib[j][1] = Slot(wcb[v].contrib[j][2])'
    BY <1>5 DEF Slot
  <2>3. \E k \in 1 .. 2 : /\ PartLine(wcb[v].contrib[j][2], k)' = wcb'[v].line
                          /\ Part(wcb[v].contrib[j][2], k)' # {}
    <3>1. PICK b : b = wcb'[v].contrib[j][2]
      OBVIOUS
    <3>2. \A k : /\ PartLine(wcb[v].contrib[j][2], k)' = PartLine(b, k)'
                 /\ Part(wcb[v].contrib[j][2], k)' = Part(b, k)'
      BY <3>1 DEF PartLine, Part, DstStart, FirstBytes, ValidBytes, ValidStart, LogicalStart,
         srcOff, Smaller, AlignDown
    <3>3. PICK k \in 1 .. 2 : PartLine(b, k) = wcb'[v].line /\ Part(b, k) # {}
      BY <1>5, <3>1
    <3>4. PartLine(b, k)' = PartLine(b, k) /\ Part(b, k)' = Part(b, k)
      BY <1>2
    <3>5. QED
      BY <3>2, <3>3, <3>4
  <2>4. QED
    BY <1>5, <2>2, <2>3 DEF Gives
<1>7. DOMAIN wcb'[v].data =
        {a \in Destination' : AlignDown(a) = wcb'[v].line /\ GivenTo(BeatOf(a), v)'}
  BY <1>2, <1>4
<1>8. wcb'[v].issued => Expected(wcb[v].line)' \subseteq DOMAIN wcb'[v].data
  BY <1>1, <1>4 DEF Expected, InCopyRange
<1>9. \A a \in DOMAIN wcb'[v].data : wcb'[v].data[a] = SourceOf(a)'
  BY <1>2, <1>4
<1>10. QED
  BY <1>4, <1>6, <1>7, <1>8, <1>9 DEF LineKnown, AlignDown

LEMMA LinesKept ==
  ASSUME CopyInv, NEW f, NEW taken, NEW r, NEW issued, NEW w, Cycle(f, taken, r, issued, w)
  PROVE  LinesKnown' /\ LinesApart'
<1>1. LinesKnown'
  BY LineKept DEF LinesKnown
<1>2. ASSUME NEW v \in WcbSlots, NEW u \in WcbSlots, wcb'[v].valid, wcb'[u].valid,
             wcb'[v].line = wcb'[u].line, ~wcb[v].valid, v # u
      PROVE  FALSE
  <2>1. f # NoneSelected /\ v = SelectedWcb(f) /\ f \in Fragments
    BY <1>2, LineAfter, SelectedKnown DEF Cycle
  <2>2. wcb[u].valid /\ wcb'[u].line = wcb[u].line
    BY <1>2, <2>1, LineAfter
  <2>3. PICK b \in BeatsToRead, k \in 1 .. 2 : b = rob[f[1]].reqIdx /\ k = f[2]
    BY <2>1, FragmentKnown
  <2>4. /\ b \in BeatsToRead /\ Part(b, k) # {} /\ ~InLine(b, k) /\ LineOf(f) = PartLine(b, k)
    BY <2>1, <2>3, FragmentKnown
  <2>5. wcb'[v].line = PartLine(b, k) /\ MergesWith(f) = {}
    BY <1>2, <2>1, <2>3, LineAfter, EntriesAfter DEF EntryGiven
  <2>6. wcb[u].line = PartLine(b, k) /\ u \notin MergesWith(f)
    BY <1>2, <2>2, <2>5
  <2>7. wcb[u].issued \/ wcbReady(u)
    BY <2>2, <2>4, <2>6 DEF MergesWith
  <2>8. LineKnown(u) /\ copy.valid /\ CommandTyped
    BY <2>2, CycleCommand DEF CopyInv, LinesKnown
  <2>9. Expected(wcb[u].line) \subseteq DOMAIN wcb[u].data
    BY <2>7, <2>8 DEF LineKnown, wcbReady
  <2>10. PICK a : a \in Part(b, k)
    BY <2>4
  <2>11. a \in Destination /\ AlignDown(a) = PartLine(b, k) /\ BeatOf(a) = b
    BY <2>4, <2>8, <2>10, PartIs
  <2>12. a \in Expected(PartLine(b, k))
    BY <2>4, <2>8, <2>11, ExpectedIs
  <2>13. GivenTo(b, u)
    BY <2>6, <2>8, <2>9, <2>11, <2>12 DEF LineKnown
  <2>14. QED
    BY <2>2, <2>4, <2>6, <2>13 DEF InLine
<1>3. ASSUME NEW v \in WcbSlots, NEW u \in WcbSlots, wcb'[v].valid, wcb'[u].valid,
             wcb'[v].line = wcb'[u].line, wcb[v].valid, wcb[u].valid
      PROVE  v = u
  <2>1. wcb'[v].line = wcb[v].line /\ wcb'[u].line = wcb[u].line
    BY <1>3, LineAfter
  <2>2. QED
    BY <1>3, <2>1 DEF CopyInv, LinesApart
<1>4. LinesApart'
  BY <1>2, <1>3 DEF LinesApart
<1>5. QED
  BY <1>1, <1>4

LEMMA EntriesTyped ==
  ASSUME CopyInv, NEW f, NEW taken, NEW r, NEW issued, NEW w, Cycle(f, taken, r, issued, w)
  PROVE  wcb' \in [WcbSlots -> [valid : BOOLEAN, issued : BOOLEAN, line : Int, data : Bytes,
                                contrib : Seq(RobSlots \X Nat)]]
<1> DEFINE R == [valid : BOOLEAN, issued : BOOLEAN, line : Int, data : Bytes,
                 contrib : Seq(RobSlots \X Nat)]
<1> DEFINE to == IF f = NoneSelected THEN NoBeat ELSE SelectedWcb(f)
<1>1. wcb' = [v \in WcbSlots |->
       CASE v = w.wcb         -> FreeWcb
         [] v = to            -> Gathered(f, v)
         [] v = issued.wcb    -> [wcb[v] EXCEPT !.issued = TRUE]
         [] OTHER             -> wcb[v]]
  <2>1. CopyCycle(f, taken, r, issued, w)
    BY DEF Cycle
  <2>2. QED
    BY <2>1 DEF CopyCycle
<1>2. wcb' = [v \in WcbSlots |-> wcb'[v]]
  BY <1>1
<1>3. \A v \in WcbSlots : wcb[v] \in R
  BY DEF CopyInv, CopyTyped
<1>4. ASSUME NEW v \in WcbSlots PROVE wcb'[v] \in R
  <2>1. \/ wcb'[v] = FreeWcb \/ wcb'[v] = wcb[v] \/ wcb'[v] = [wcb[v] EXCEPT !.issued = TRUE]
        \/ f # NoneSelected /\ v = SelectedWcb(f)
    <3>1. NoBeat \notin WcbSlots
      BY CycleChoices
    <3>2. \/ wcb'[v] = FreeWcb \/ wcb'[v] = wcb[v] \/ wcb'[v] = [wcb[v] EXCEPT !.issued = TRUE]
          \/ v = to
      BY <1>1
    <3>3. v = to => f # NoneSelected /\ v = SelectedWcb(f)
      BY <3>1
    <3>4. QED
      BY <3>2, <3>3
  <2>2. CASE wcb'[v] = FreeWcb
    BY <2>2, FreeTyped
  <2>3. CASE wcb'[v] = wcb[v]
    BY <1>3, <2>3
  <2>4. CASE wcb'[v] = [wcb[v] EXCEPT !.issued = TRUE]
    BY <1>3, <2>4
  <2>5. CASE f # NoneSelected /\ v = SelectedWcb(f)
    <3>1. /\ wcb'[v].contrib \in Seq(RobSlots \X Nat) /\ wcb'[v].data \in Bytes
          /\ EntryGiven(f) /\ f \in Fragments
      BY <2>5, GivenEntryKnown, EntriesAfter, SelectedKnown DEF Cycle
    <3>2. LineOf(f) \in Int
      <4>1. LineOf(f) = PartLine(rob[f[1]].reqIdx, f[2]) /\ rob[f[1]].reqIdx \in BeatsToRead
            /\ f[2] \in 1 .. 2
        BY <3>1, FragmentKnown
      <4>2. QED
        BY <4>1, Commanded, PartsOfBeat
    <3>3. wcb'[v] = Gathered(f, v)
      BY <2>5, <3>1 DEF EntryGiven
    <3>4. PICK d \in Bytes, c \in Seq(RobSlots \X Nat) : d = wcb'[v].data /\ c = wcb'[v].contrib
      BY <3>1
    <3>5. CASE wcb[v].valid
      <4>1. PICK x, y : wcb'[v] = [wcb[v] EXCEPT !.data = x, !.contrib = y]
        BY <3>3, <3>5 DEF Gathered
      <4>2. x = d /\ y = c
        BY <1>3, <3>4, <4>1
      <4>3. QED
        BY <1>3, <4>1, <4>2
    <3>6. CASE ~wcb[v].valid
      <4>1. PICK l \in Int : l = LineOf(f)
        BY <3>2
      <4>2. PICK x, y : wcb'[v] = [valid |-> TRUE, issued |-> FALSE, line |-> l, data |-> x,
              contrib |-> y]
        BY <3>3, <3>6, <4>1 DEF Gathered
      <4>3. x = d /\ y = c
        BY <3>4, <4>2
      <4>4. QED
        BY <4>2, <4>3
    <3>7. QED
      BY <3>5, <3>6
  <2>6. QED
    BY <2>1, <2>2, <2>3, <2>4, <2>5
<1>5. QED
  BY <1>2, <1>4

LEMMA CycleKeeps ==
  ASSUME CopyInv, NEW f, NEW taken, NEW r, NEW issued, NEW w, Cycle(f, taken, r, issued, w)
  PROVE  CopyInv'
<1>1. copy' = copy /\ SameCommand /\ copy.valid /\ predecode' = predecode
  BY CycleCommand
<1>2. rob' \in [RobSlots -> SlotRecords]
  <2> DEFINE done == {j \in RobSlots : BeatCompletes(j, f, w)}
             Later(j) ==
               CASE j \in done        -> FreeSlot
                 [] j = taken.slot    -> Allocated
                 [] j = r.slot        -> Received(r)
                 [] OTHER ->
                      [rob[j] EXCEPT !.acks = AcksAfter(j, f, w), !.frag = FragmentsLeft(j, f)]
  <2>1. CopyCycle(f, taken, r, issued, w)
    BY DEF Cycle
  <2>2. rob' = [j \in RobSlots |-> Later(j)]
    BY <2>1 DEF CopyCycle
  <2> HIDE DEF Later
  <2>3. DOMAIN rob' = RobSlots /\ rob' = [j \in RobSlots |-> rob'[j]]
    BY <2>2
  <2>4. QED
    BY <2>3, SlotsInWindowKept
<1>3. CopyTyped'
  <2>1. /\ copy' \in [valid : BOOLEAN, src : Nat, dst : Nat, size : Nat, epoch : Nat]
        /\ predecode' \in [addr : Int, epoch : Nat, valid : BOOLEAN, beat : Int, offset : Int]
    BY <1>1 DEF CopyInv, CopyTyped
  <2>2. readReqIdx' \in Nat /\ nextCommitIdx' \in Nat /\ committedBytes' \in Int
    BY WindowKept
  <2>3. /\ completion' \in [0 .. CompletionEntries - 1 -> Int]
        /\ copyReads' \subseteq [slot : RobSlots, addr : Int]
        /\ copyWrites' \subseteq [wcb : WcbSlots, data : Bytes]
        /\ copied' \in Bytes
    BY CompletedInWindowKept, ReadsAwaitedKept, WritesAwaitedKept, CopiedAfter
  <2>4. wcb' \in [WcbSlots -> [valid : BOOLEAN, issued : BOOLEAN, line : Int, data : Bytes,
                               contrib : Seq(RobSlots \X Nat)]]
    BY EntriesTyped
  <2>5. QED
    BY <1>2, <2>1, <2>2, <2>3, <2>4 DEF CopyTyped, SlotRecords
<1>4. QuietBetween'
  BY <1>1 DEF QuietBetween
<1>5. PredecodeKnown'
  BY <1>1 DEF CopyInv, PredecodeKnown, OfThisCopy,
     InCopyRange, BeatOf, OffsetOf, SourceOf, AlignDown
<1>6. Window' /\ SlotsInWindow' /\ CompletedInWindow' /\ ReadsAwaited' /\ WritesAwaited'
  BY WindowKept, SlotsInWindowKept, CompletedInWindowKept, ReadsAwaitedKept, WritesAwaitedKept
<1>7. SlotsKnown' /\ LinesKnown' /\ LinesApart' /\ CopiedRight' /\ DoneCopied'
  BY SlotsKnownKept, LinesKept, CopiedAfter, DoneCopiedKept
<1>8. QED
  BY <1>3, <1>4, <1>5, <1>6, <1>7 DEF CopyInv

LEMMA CopyNextKeeps == CopyInv /\ [CopyNext]_copyVars => CopyInv'
<1>1. SUFFICES ASSUME CopyInv, [CopyNext]_copyVars PROVE CopyInv'
  OBVIOUS
<1>2. CASE CopyMachine
  <2>1. CASE EndCopy
    BY <1>1, <2>1, EndCopyKeeps
  <2>2. CASE ~EndCopy
    <3>1. \E f, taken, r, issued, w : Cycle(f, taken, r, issued, w)
      BY <1>2, <2>2 DEF CopyMachine, Cycle
    <3>2. QED
      BY <1>1, <3>1, CycleKeeps
  <2>3. QED
    BY <2>1, <2>2
<1>3. CASE \E c \in Copies : StartCopy(c)
  BY <1>1, <1>3, StartCopyKeeps
<1>4. CASE \E a \in Queried : prepareCopyReadMeta(a)
  BY <1>1, <1>4, PositionKept
<1>5. CASE UNCHANGED copyVars
  <2>1. /\ SameCommand /\ copy' = copy /\ predecode' = predecode
        /\ UNCHANGED <<readReqIdx, nextCommitIdx, committedBytes, rob, completion, wcb,
                       copyReads, copyWrites, copied>>
    BY <1>5 DEF copyVars, SameCommand
  <2>2. CommandTyped /\ CommandTyped'
    BY <1>1, <2>1, Commanded DEF CommandTyped
  <2>3. PredecodeKnown'
    BY <1>1, <2>1 DEF CopyInv, PredecodeKnown, OfThisCopy,
     InCopyRange, BeatOf, OffsetOf, SourceOf, AlignDown
  <2>4. predecode' \in [addr : Int, epoch : Nat, valid : BOOLEAN, beat : Int, offset : Int]
    BY <1>1, <2>1 DEF CopyInv, CopyTyped
  <2>5. ~copy'.valid => /\ \A i \in RobSlots : ~rob[i].busy
                        /\ \A w \in WcbSlots : ~wcb[w].valid
    BY <1>1, <2>1 DEF CopyInv, QuietBetween
  <2>6. QED
    BY <1>1, <2>1, <2>2, <2>3, <2>4, <2>5, AsideKeeps
<1>6. QED
  BY <1>1, <1>2, <1>3, <1>4, <1>5 DEF CopyNext

LEMMA CopyInvHolds == CopySpec => []CopyInv
<1>1. CopyInit => CopyInv
  BY CopyInitHolds
<1>2. CopyInv /\ [CopyNext]_copyVars => CopyInv'
  BY CopyNextKeeps
<1>3. QED
  BY <1>1, <1>2, PTL DEF CopySpec

(* What follows from where the parts are.                                  *)

LEMMA CopyIsExact == CopyInv => CopyExact
<1>1. SUFFICES ASSUME CopyInv, taskDoneNow
               PROVE  copied = [a \in copy.dst .. copy.dst + copy.size - 1 |-> SourceOf(a)]
  BY DEF CopyExact
<1>2. CommandTyped /\ readReqIdx = readBeatCount /\ \A i \in RobSlots : ~rob[i].busy
  BY <1>1, Commanded DEF taskDoneNow
<1>3. ASSUME NEW a \in Destination PROVE a \in DOMAIN copied
  <2>1. PICK k \in 1 .. 2 : a \in Part(BeatOf(a), k)
    BY <1>2, PartOfAddress
  <2>2. PICK b \in BeatsToRead : b = BeatOf(a)
    BY <1>2, BeatOfAddress
  <2>3. b \in Nat /\ b \in 0 .. readReqIdx - 1
    BY <1>2, <2>2, BeatBounds DEF BeatsToRead
  <2>4. ~Busy(b)
    BY <1>2, <2>3, SlotOf DEF Busy
  <2>5. BeatCopied(b)
    BY <1>1, <2>3, <2>4 DEF CopyInv, DoneCopied
  <2>6. QED
    BY <2>1, <2>2, <2>5 DEF BeatCopied
<1>4. \A a \in DOMAIN copied : a \in Destination /\ copied[a] = SourceOf(a)
  BY <1>1 DEF CopyInv, CopiedRight
<1>5. copied = [a \in DOMAIN copied |-> copied[a]]
  <2>1. PICK S \in SUBSET Int : copied \in [S -> Int]
    BY <1>1 DEF CopyInv, CopyTyped, Bytes
  <2>2. QED
    BY <2>1
<1>6. DOMAIN copied = Destination
  BY <1>3, <1>4
<1>7. QED
  BY <1>4, <1>5, <1>6 DEF Destination

\* Where a byte of the source is.
LEMMA PositionOf ==
  ASSUME CommandTyped, NEW a \in Int
  PROVE  /\ BeatAddr(BeatOf(a)) + OffsetOf(a) = SourceOf(a)
         /\ \A lane \in 0 .. 1 :
              /\ BeatOf(a + lane) = BeatOf(a) + (OffsetOf(a) + lane) \div BeatBytes
              /\ OffsetOf(a + lane) = (OffsetOf(a) + lane) % BeatBytes
<1>1. PICK n \in Nat \ {0}, s \in Nat, d \in Nat : n = BeatBytes /\ s = copy.src /\ d = copy.dst
  BY Beats
<1>2. PICK q \in Int, l \in Int : l = AlignDown(s) /\ l = n * q
  <2>1. AlignDown(s) \in Int /\ \E q \in Int : AlignDown(s) = BeatBytes * q
    BY LineBegins
  <2>2. QED
    BY <1>1, <2>1
<1>3. PICK y \in Int : y = s + (a - d)
  OBVIOUS
<1>4. \A j \in Int : SourceOf(a + j) = y + j
  BY <1>1, <1>3 DEF SourceOf
<1>5. SourceOf(a) = y
  BY <1>1, <1>3 DEF SourceOf
<1>6. PICK p \in Int, o \in 0 .. n - 1 : y = n * p + o /\ o = y % n
  BY Division
<1>7. ASSUME NEW j \in 0 .. 1
      PROVE  /\ BeatOf(a + j) = p - q + (o + j) \div n
             /\ OffsetOf(a + j) = (o + j) % n
  <2>1. PICK u \in Int, m \in 0 .. n - 1 :
          u = (o + j) \div n /\ m = (o + j) % n /\ o + j = n * u + m
    <3>1. PICK e \in Int : e = o + j
      OBVIOUS
    <3>2. e \div n \in Int /\ e % n \in 0 .. n - 1 /\ e = n * (e \div n) + (e % n)
      BY Division
    <3>3. QED
      BY <3>1, <3>2
  <2>2. y + j = n * (p + u) + m /\ y + j - n * q = n * (p + u - q) + m
    BY <1>6, <2>1
  <2>3. (n * (p + u) + m) % n = m
    <3>1. PICK c \in Int : c = p + u
      OBVIOUS
    <3>2. (n * c + m) % n = m
      BY DivisionUnique
    <3>3. QED
      BY <3>1, <3>2
  <2>4. (n * (p + u - q) + m) \div n = p + u - q
    <3>1. PICK c \in Int : c = p + u - q
      OBVIOUS
    <3>2. (n * c + m) \div n = c
      BY DivisionUnique
    <3>3. QED
      BY <3>1, <3>2
  <2>5. BeatOf(a + j) = (y + j - n * q) \div n /\ OffsetOf(a + j) = (y + j) % n
    <3>1. PICK e \in Int, g \in Int : e = y + j /\ g = n * q
      OBVIOUS
    <3>2. SourceOf(a + j) = e /\ AlignDown(copy.src) = g /\ BeatBytes = n
      BY <1>1, <1>2, <1>4, <3>1
    <3>3. BeatOf(a + j) = (e - g) \div n /\ OffsetOf(a + j) = e % n
      BY <3>2 DEF BeatOf, OffsetOf
    <3>4. QED
      BY <3>1, <3>3
  <2>6. BeatOf(a + j) = p + u - q /\ OffsetOf(a + j) = m
    BY <2>2, <2>3, <2>4, <2>5
  <2>7. p + u - q = p - q + u
    OBVIOUS
  <2>8. QED
    BY <2>1, <2>6, <2>7
<1>8. BeatOf(a) = p - q /\ OffsetOf(a) = o
  <2>1. y - n * q = n * (p - q) + o
    BY <1>6
  <2>2. (n * (p - q) + o) \div n = p - q
    <3>1. PICK c \in Int : c = p - q
      OBVIOUS
    <3>2. (n * c + o) \div n = c
      BY DivisionUnique
    <3>3. QED
      BY <3>1, <3>2
  <2>3. BeatOf(a) = (y - n * q) \div n /\ OffsetOf(a) = y % n
    BY <1>1, <1>2, <1>5 DEF BeatOf, OffsetOf
  <2>4. QED
    BY <1>6, <2>1, <2>2, <2>3
<1>9. BeatAddr(BeatOf(a)) = n * q + (p - q) * n
  BY <1>1, <1>2, <1>8 DEF BeatAddr
<1>10. n * q + (p - q) * n + o = n * p + o
  OBVIOUS
<1>11. QED
  BY <1>1, <1>5, <1>6, <1>7, <1>8, <1>9, <1>10

\* What was read of an address below the committed bytes is copied.
LEMMA CommittedCopied ==
  ASSUME CopyInv, NEW a \in Destination, a - copy.dst < committedBytes
  PROVE  a \in DOMAIN copied
<1>1. CommandTyped
  BY Commanded
<1>2. PICK b \in BeatsToRead, k \in 1 .. 2 : b = BeatOf(a) /\ a \in Part(b, k) /\ a \in BeatSpan(b)
  BY <1>1, BeatOfAddress, PartOfAddress
<1>3. PICK c \in Nat, x \in Nat : c = nextCommitIdx /\ x = readReqIdx /\ c <= x
  BY DEF CopyInv, CopyTyped, Window
<1>4. b \in Nat /\ b < c
  <2>1. PICK n \in Nat \ {0}, o \in Nat, d \in Nat, z \in Nat :
          n = BeatBytes /\ o = srcOff /\ d = copy.dst /\ z = readBeatCount
    BY <1>1, Beats
  <2>2. b \in Nat /\ b < z
    BY <1>1, <2>1, BeatBounds DEF BeatsToRead
  <2>3. a \in Int
    BY <2>1, <1>1, Beats DEF Destination
  <2>4. n * b <= o + (a - d)
    BY <1>1, <1>2, <2>1, <2>3, InBeat
  <2>5. committedBytes = IF c = z THEN copy.size ELSE LogicalStart(c)
    BY <1>3, <2>1 DEF CopyInv, Window
  <2>6. CASE c = z
    BY <2>2, <2>6
  <2>7. CASE c # z
    <3>1. a - d < LogicalStart(c) /\ a >= d
      BY <2>1, <2>5, <2>7 DEF Destination
    <3>2. LogicalStart(c) = IF c = 0 THEN 0 ELSE c * n - o
      BY <2>1 DEF LogicalStart
    <3>3. n * b < n * c
      <4>1. PICK i \in Int : i = a - d
        BY <2>3
      <4>2. c # 0 /\ i < c * n - o /\ n * b <= o + i
        <5>1. PICK z1 \in Int : z1 = LogicalStart(c) /\ z1 = IF c = 0 THEN 0 ELSE c * n - o
          <6>1. (IF c = 0 THEN 0 ELSE c * n - o) \in Int
            BY <2>1
          <6>2. QED
            BY <3>2, <6>1
        <5>2. i < z1 /\ i >= 0 /\ n * b <= o + i
          BY <2>3, <2>4, <3>1, <4>1, <5>1
        <5>3. QED
          BY <5>1, <5>2
      <4>3. c * n = n * c
        OBVIOUS
      <4>4. PICK g \in Int, h \in Int : g = n * b /\ h = n * c
        BY <2>2
      <4>5. QED
        BY <4>2, <4>3, <4>4
    <3>4. ~(b >= c)
      BY <2>2, <3>3, Mult
    <3>5. QED
      BY <2>2, <3>4
  <2>8. QED
    BY <2>6, <2>7
<1>5. ~Busy(b)
  <2>1. SUFFICES ASSUME Busy(b) PROVE FALSE
    OBVIOUS
  <2>2. PICK i \in RobSlots : i = Slot(b) /\ rob[i].busy /\ rob[i].reqIdx = b
    BY <1>4, <2>1, SlotOf DEF Busy
  <2>3. b \in nextCommitIdx .. readReqIdx - 1
    BY <2>2, SlotBeat
  <2>4. QED
    BY <1>3, <1>4, <2>3
<1>6. BeatCopied(b)
  BY <1>3, <1>4, <1>5 DEF CopyInv, DoneCopied
<1>7. QED
  BY <1>2, <1>6 DEF BeatCopied

LEMMA LanesSound ==
  ASSUME CopyInv, NEW a \in Destination
  PROVE  LaneSound(a, BeatOf(a), OffsetOf(a))
<1>1. CommandTyped /\ a \in Int
  BY Commanded, Beats DEF Destination
<1>2. PICK b \in BeatsToRead, k \in 1 .. 2 : b = BeatOf(a) /\ a \in Part(b, k)
  BY <1>1, BeatOfAddress, PartOfAddress
<1>3. PICK o : o = OffsetOf(a) /\ BeatAddr(b) + o = SourceOf(a) /\ b \in Nat
  BY <1>1, <1>2, PositionOf, BeatBounds
<1>4. MemoryVisible(a, b) => a \in DOMAIN copied
  <2>1. CASE a - copy.dst < committedBytes
    BY <2>1, CommittedCopied
  <2>2. CASE CompletionHit(b)
    <3>1. PICK j \in 0 .. CompletionEntries - 1 : j = CompletionIndex(b)
      <4>1. CompletionEntries \in Nat \ {0}
        BY CopyEntriesAssumption
      <4>2. b % CompletionEntries \in 0 .. CompletionEntries - 1
        BY <1>3, <4>1, Division
      <4>3. QED
        BY <4>2 DEF CompletionIndex
    <3>2. j \in DOMAIN completion /\ completion[j] = b /\ b # NoBeat
      BY <1>3, <2>2, <3>1 DEF CopyInv, CopyTyped, CompletionHit, NoBeat
    <3>3. b \in nextCommitIdx .. readReqIdx - 1 /\ ~Busy(b)
      BY <3>2 DEF CopyInv, CompletedInWindow
    <3>4. b \in 0 .. readReqIdx - 1
      BY <1>3, <3>3
    <3>5. BeatCopied(b)
      BY <3>3, <3>4 DEF CopyInv, DoneCopied
    <3>6. QED
      BY <1>2, <3>5 DEF BeatCopied
  <2>3. QED
    BY <2>1, <2>2 DEF MemoryVisible
<1>5. a \in DOMAIN copied => copied[a] = SourceOf(a)
  BY DEF CopyInv, CopiedRight
<1>6. PICK i \in RobSlots : i = b % GCCopyEntry
  BY <1>3, SlotOf DEF Slot
<1>7. RobHit(b) => rob[i].data = BeatAddr(b)
  <2>1. SUFFICES ASSUME rob[i].busy, rob[i].data # NoBeat, rob[i].reqIdx = b
                 PROVE  rob[i].data = BeatAddr(b)
    BY <1>6 DEF RobHit
  <2>2. SlotState(i)
    BY <2>1, SlotBeat
  <2>3. QED
    BY <2>1, <2>2 DEF SlotState
<1>8. \A r \in ResponseBypass(b) : r.addr = BeatAddr(b)
  BY <1>6 DEF ResponseBypass, CopyInv, ReadsAwaited
<1>9. LaneSound(a, b, o)
  BY <1>3, <1>4, <1>5, <1>6, <1>7, <1>8 DEF LaneSound
<1>10. QED
  BY <1>2, <1>3, <1>9

LEMMA ForwardIsSound == CopyInv => ForwardSound
<1>1. SUFFICES ASSUME CopyInv, NEW a \in Queried, NEW lane \in 0 .. 1, NEW predecoded \in BOOLEAN,
                      copy.valid, InCopyRange(a + lane),
                      predecoded => /\ predecodeMatches /\ predecode.addr = a
                                    /\ copy.epoch - predecode.epoch < EpochValues
               PROVE  LaneSound(a + lane, QueryBeat(a, lane, predecoded),
                                QueryOffset(a, lane, predecoded))
  BY DEF ForwardSound
<1>2. PICK x \in Int : x = a
  BY CopyEntriesAssumption
<1>3. PICK z \in Destination : z = x + lane
  BY <1>1, <1>2 DEF InCopyRange, Destination
<1>4. /\ BeatOf(z) = BeatOf(x) + (OffsetOf(x) + lane) \div BeatBytes
      /\ OffsetOf(z) = (OffsetOf(x) + lane) % BeatBytes
  BY <1>1, <1>3, Commanded, PositionOf
<1>5. predecoded => predecode.beat = BeatOf(x) /\ predecode.offset = OffsetOf(x)
  <2>1. SUFFICES ASSUME predecoded
                 PROVE  predecode.beat = BeatOf(x) /\ predecode.offset = OffsetOf(x)
    OBVIOUS
  <2>2. PICK n \in Nat \ {0}, b \in Int, c \in Int :
          n = EpochValues /\ b = predecode.epoch /\ c = copy.epoch
    <3>1. predecode.epoch \in Int /\ copy.epoch \in Int
      BY <1>1 DEF CopyInv, CopyTyped
    <3>2. EpochValues \in Nat \ {0}
      BY CopyEntriesAssumption
    <3>3. QED
      BY <3>1, <3>2
  <2>3. b % n = c % n /\ b < c + n /\ c < b + n
    BY <1>1, <2>1, <2>2 DEF predecodeMatches, CopyInv, PredecodeKnown
  <2>4. b = c
    BY <2>3, ModDistinct
  <2>5. OfThisCopy
    BY <1>1, <2>1, <2>2, <2>4 DEF OfThisCopy, predecodeMatches
  <2>6. QED
    BY <1>1, <1>2, <2>1, <2>5 DEF CopyInv, PredecodeKnown
<1>6. QueryBeat(a, lane, predecoded) = BeatOf(z) /\ QueryOffset(a, lane, predecoded) = OffsetOf(z)
  BY <1>2, <1>3, <1>4, <1>5 DEF QueryBeat, QueryOffset
<1>7. LaneSound(z, BeatOf(z), OffsetOf(z))
  BY <1>1, LanesSound
<1>8. QED
  BY <1>2, <1>3, <1>6, <1>7

LEMMA AssertionsFollow == CopyInv => CopyAssertions
<1>1. SUFFICES ASSUME CopyInv, NEW f, f = Selected
               PROVE  /\ Mergeable # {} => Len(wcb[SelectedWcb(f)].contrib) = 1
                      /\ \A w \in {v \in copyWrites : WriteWelcome(v)}, i \in RobSlots :
                           /\ Contributes(i, w) /\ f[1] # i => rob[i].acks # 0
                           /\ BeatCompletes(i, f, w) =>
                                completion[CompletionIndex(rob[i].reqIdx)]
                                  \in {NoBeat, rob[i].reqIdx}
  BY DEF CopyAssertions
<1>2. Mergeable # {} => Len(wcb[SelectedWcb(f)].contrib) = 1
  <2>1. SUFFICES ASSUME Mergeable # {} PROVE Len(wcb[SelectedWcb(f)].contrib) = 1
    OBVIOUS
  <2>2. PICK v \in WcbSlots : v = SelectedWcb(f) /\ wcb[v].valid /\ ~wcb[v].issued /\ ~wcbReady(v)
    BY <1>1, <2>1, SelectedKnown DEF MergesWith
  <2>3. copy.valid
    BY <1>1, <2>2 DEF CopyInv, QuietBetween
  <2>4. QED
    BY <1>1, <2>2, <2>3, OneContributor
<1>3. ASSUME NEW w \in copyWrites, NEW i \in RobSlots, WriteWelcome(w), Contributes(i, w)
      PROVE  /\ rob[i].acks # 0
             /\ completion[CompletionIndex(rob[i].reqIdx)] \in {NoBeat, rob[i].reqIdx}
  <2>1. rob[i].busy
    BY <1>3 DEF Contributes
  <2>2. PICK b \in Nat : b = rob[i].reqIdx /\ b \in nextCommitIdx .. readReqIdx - 1 /\ SlotState(i)
    BY <1>1, <2>1, SlotBeat
  <2>3. w.wcb \in WcbSlots /\ wcb[w.wcb].valid /\ GivenTo(b, w.wcb)
    BY <1>1, <1>3, <2>1, <2>2, ContributesIs DEF CopyInv, CopyTyped, WriteWelcome
  <2>4. PICK k \in 1 .. 2 : InLine(b, k)
    BY <1>1, <2>3, GiverKnown
  <2>5. rob[i].acks = B(InLine(b, 1)) + B(InLine(b, 2))
    BY <2>2 DEF SlotState
  <2>6. rob[i].acks # 0
    <3>1. PICK p \in BOOLEAN, q \in BOOLEAN : p = InLine(b, 1) /\ q = InLine(b, 2)
      BY DEF InLine
    <3>2. p \/ q
      BY <2>4, <3>1
    <3>3. rob[i].acks = B(p) + B(q)
      BY <2>5, <3>1
    <3>4. QED
      BY <3>2, <3>3 DEF B
  <2>7. completion[CompletionIndex(b)] \in {NoBeat, b}
    <3>1. PICK n \in Nat \ {0}, j \in Int :
            n = CompletionEntries /\ j \in 0 .. n - 1 /\ j = CompletionIndex(b) /\ j = b % n
      <4>1. CompletionEntries \in Nat \ {0}
        BY CopyEntriesAssumption
      <4>2. b % CompletionEntries \in 0 .. CompletionEntries - 1
        BY <4>1, Division
      <4>3. QED
        BY <4>1, <4>2 DEF CompletionIndex
    <3>2. SUFFICES ASSUME completion[j] # NoBeat PROVE completion[j] = b
      BY <3>1
    <3>3. j \in DOMAIN completion
      BY <1>1, <3>1 DEF CopyInv, CopyTyped
    <3>4. /\ completion[j] \in nextCommitIdx .. readReqIdx - 1
          /\ CompletionIndex(completion[j]) = j
      BY <1>1, <3>2, <3>3 DEF CopyInv, CompletedInWindow
    <3>5. PICK x \in Nat, y \in Nat : x = nextCommitIdx /\ y = readReqIdx /\ y - x <= n
      BY <1>1, <3>1 DEF CopyInv, CopyTyped, Window
    <3>6. PICK c \in Int : c = completion[j] /\ c \in x .. y - 1 /\ c % n = b % n
      BY <3>1, <3>4, <3>5 DEF CompletionIndex
    <3>7. b \in x .. y - 1
      BY <2>2, <3>5
    <3>8. b < c + n /\ c < b + n
      BY <3>5, <3>6, <3>7
    <3>9. b = c
      <4>1. c % n = b % n
        BY <3>6
      <4>2. QED
        <5>1. PICK g \in Int : g = b
          OBVIOUS
        <5>2. c % n = g % n /\ g < c + n /\ c < g + n
          BY <3>8, <4>1, <5>1
        <5>3. c = g
          BY <5>2, ModDistinct
        <5>4. QED
          BY <5>1, <5>3
    <3>10. QED
      BY <3>6, <3>9
  <2>8. QED
    BY <2>2, <2>6, <2>7
<1>4. QED
  BY <1>1, <1>2, <1>3 DEF BeatCompletes

\* A copy of any object between any addresses is exact: when GCCopy reports it
\* done, every byte of the source is in its place and nothing around it was
\* written, for any number of slots and entries and any order of answers.
THEOREM CopiesExact == CopySpec => []CopyExact
BY CopyInvHolds, CopyIsExact, PTL

\* GCFetch is given the bytes the object holds while it is being copied, from
\* memory, from a slot and from the answer of the cycle, and with a position
\* that was worked out when the task entered.
THEOREM ForwardsSound == CopySpec => []ForwardSound
BY CopyInvHolds, ForwardIsSound, PTL

\* The assertions of GCCopy hold for any parameters and commands.
THEOREM CopyAssertionsHold == CopySpec => []CopyAssertions
BY CopyInvHolds, AssertionsFollow, PTL
=============================================================================
