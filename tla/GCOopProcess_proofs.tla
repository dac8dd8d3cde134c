------------------------ MODULE GCOopProcess_proofs ------------------------
(* Proofs about GCOopProcess: GCFetch is held by exactly one task, and an    *)
(* object that is no type array is copied once; and while no slot has gone   *)
(* on before the answer it waits for, every field left is the address of the *)
(* copy and every card is the right one: for any tasks, objects, regions and *)
(* cache sizes.                                                              *)
EXTENDS GCOopProcess, TLAPS

(* What a slot learns of the humongous bit of its field ends it, or moves it *)
(* on without touching its copy.                                             *)
LEMMA HumongousKnownType ==
  ASSUME OopTypeOK, NEW i \in OopSlots, NEW hum \in BOOLEAN, HumongousKnown(i, hum)
  PROVE  slot' \in [OopSlots -> SlotType] /\ copySlot' \in [OopSlots -> CopyType]
<1>1. slot \in [OopSlots -> SlotType] /\ copySlot \in [OopSlots -> CopyType]
  BY DEF OopTypeOK
<1>2. EmptySlot \in SlotType /\ NoCopy \in CopyType
  BY DEF EmptySlot, NoCopy, SlotType, CopyType, States, Reads, Address
<1>3. CASE finishSlot(i)
  BY <1>1, <1>2, <1>3 DEF finishSlot
<1>4. CASE /\ slot' = [slot EXCEPT ![i].pc = "READ_DEST_ATTR",
                           ![i].fromMark = FALSE, ![i].humongous = hum]
           /\ UNCHANGED copySlot
  <2>1. [slot[i] EXCEPT !.pc = "READ_DEST_ATTR", !.fromMark = FALSE, !.humongous = hum]
          \in SlotType
    BY <1>1 DEF SlotType, States, Reads
  <2>2. slot' = [slot EXCEPT ![i] = [slot[i] EXCEPT !.pc = "READ_DEST_ATTR",
                                       !.fromMark = FALSE, !.humongous = hum]]
    BY <1>1, <1>4
  <2>3. QED
    BY <1>1, <1>4, <2>1, <2>2
<1>5. CASE /\ slot' = [slot EXCEPT ![i].pc = "WAIT_COPY_OR_MARK", ![i].humongous = hum]
           /\ UNCHANGED copySlot
  BY <1>1, <1>5, ZenonT(30) DEF SlotType, States, Reads
<1>6. QED
  BY <1>3, <1>4, <1>5 DEF HumongousKnown

(* A cache keeps its type when an entry is filled. *)
LEMMA FillType ==
  ASSUME NEW cache \in Seq(Regions), NEW r \in Regions, NEW n \in Nat \ {0}
  PROVE  Fill(cache, r, n) \in Seq(Regions)
<1>1. CASE Len(cache) < n
  BY <1>1 DEF Fill
<1>2. CASE ~(Len(cache) < n)
  <2>1. cache # << >>
    BY <1>2
  <2>2. Tail(cache) \in Seq(Regions)
    BY <2>1
  <2>3. QED
    BY <1>2, <2>2 DEF Fill
<1>3. QED
  BY <1>1, <1>2

(* A slot's object and regions are of their types while it has a task. *)
LEMMA RegionTypes ==
  ASSUME OopTypeOK, NEW i \in OopSlots, slot[i].task \in OopTasks
  PROVE  Oop(i) \in Objects /\ srcRegion(i) \in Regions /\ heapRegion(i) \in Regions
  BY ConstantsAssumption DEF Oop, srcRegion, heapRegion

-----------------------------------------------------------------------------
(* GCFetch is held by one task. *)

(* Which task a slot has, and which of them has not said Done. *)
FetchParts == SlotShape /\ DifferentTasks /\ Unreleased /\ FetchHeldByOne

(* Slot j is where it was, as far as Done is concerned. *)
SameSlot(j) == /\ slot'[j].pc = slot[j].pc /\ slot'[j].task = slot[j].task
               /\ slot'[j].fromMark = slot[j].fromMark
               /\ copySlot'[j] = copySlot[j] /\ copier'[j].stage = copier[j].stage

(* Slot i moves on with its task, or ends. *)
SlotMoves(i) == /\ \A j \in OopSlots \ {i} : SameSlot(j)
                /\ Shape(i)' /\ todo' = todo
                /\ slotValid(i)' => slotValid(i) /\ slot'[i].task = slot[i].task

(* A step of slot i keeps the shape of all slots and says nothing of others. *)
LEMMA MoveShapes ==
  ASSUME FetchInv, NEW i \in OopSlots, SlotMoves(i)
  PROVE  /\ SlotShape' /\ DifferentTasks'
         /\ \A j \in OopSlots \ {i} : DoneUnsaid(j)' = DoneUnsaid(j)
<1>1. ASSUME NEW j \in OopSlots \ {i} PROVE Shape(j)'
  BY <1>1 DEF FetchInv, SlotShape, SlotMoves, SameSlot, Shape, slotValid, At
<1>2. ASSUME NEW j \in OopSlots \ {i} PROVE DoneUnsaid(j)' = DoneUnsaid(j)
  BY <1>2 DEF SlotMoves, SameSlot, DoneUnsaid
<1>3. \A j \in OopSlots : slotValid(j)' => slotValid(j) /\ slot'[j].task = slot[j].task
  BY DEF SlotMoves, SameSlot, slotValid, At
<1>4. DifferentTasks'
  BY <1>3 DEF FetchInv, DifferentTasks, OopSlots
<1>5. QED
  BY <1>1, <1>2, <1>4 DEF SlotMoves, SlotShape

(* A step that says nothing to GCFetch. *)
LEMMA Quiet ==
  ASSUME FetchInv, NEW i \in OopSlots, SlotMoves(i), DoneUnsaid(i)' = DoneUnsaid(i),
         unreleased' = unreleased, fetchWaits' = fetchWaits,
         allowSecondInFlight' = allowSecondInFlight
  PROVE  FetchParts'
<1>1. \A j \in OopSlots : DoneUnsaid(j)' = DoneUnsaid(j)
  BY MoveShapes
<1>2. Unreleased'
  BY <1>1 DEF FetchInv, Unreleased
<1>3. FetchHeldByOne'
  BY DEF FetchInv, FetchHeldByOne
<1>4. QED
  BY <1>2, <1>3, MoveShapes DEF FetchParts

(* A step that says Done, for a task that has not said it. *)
LEMMA Release ==
  ASSUME FetchInv, NEW i \in OopSlots, SlotMoves(i), DoneUnsaid(i), ~DoneUnsaid(i)',
         releaseFetch(i)
  PROVE  FetchParts'
<1>1. i \in unreleased /\ unreleased \subseteq OopSlots /\ unreleased # OopSlots
  BY DEF FetchInv, Unreleased, FetchHeldByOne
<1>2. unreleased' = {}
  BY <1>1 DEF releaseFetch, OopSlots
<1>3. Unreleased'
  BY <1>1, <1>2, MoveShapes DEF FetchInv, Unreleased, OopSlots
<1>4. FetchHeldByOne'
  BY <1>2 DEF FetchHeldByOne, releaseFetch, OopSlots
<1>5. QED
  BY <1>3, <1>4, MoveShapes DEF FetchParts


(* The actions, one by one. *)
LEMMA TypesOf ==
  ASSUME OopTypeOK, NEW i \in OopSlots
  PROVE  /\ slot \in [OopSlots -> SlotType] /\ slot[i] \in SlotType
         /\ copySlot \in [OopSlots -> CopyType] /\ copySlot[i] \in CopyType
         /\ copier \in [OopSlots -> CopierType] /\ copier[i] \in CopierType
  BY DEF OopTypeOK

(* The step of one slot, told by what became of it. *)
LEMMA OneMoves ==
  ASSUME NEW i \in OopSlots,
         \A j \in OopSlots \ {i} : slot'[j] = slot[j] /\ copySlot'[j] = copySlot[j]
                                   /\ copier'[j] = copier[j],
         Shape(i)', todo' = todo,
         slotValid(i)' => slotValid(i) /\ slot'[i].task = slot[i].task
  PROVE  SlotMoves(i)
  BY DEF SlotMoves, SameSlot

(* The humongous bit is known: no Done is said. *)
LEMMA HumongousStep ==
  ASSUME FetchInv, NEW i \in OopSlots, NEW hum \in BOOLEAN, HumongousKnown(i, hum),
         slot[i].pc \in {"READ_HEAP_PTR", "READ_HUMONGOUS"},
         UNCHANGED <<fetchVars, copier>>
  PROVE  FetchParts'
<1>0. OopTypeOK /\ Shape(i)
  BY DEF FetchInv, SlotShape
<1>1. SlotMoves(i) /\ DoneUnsaid(i)' = DoneUnsaid(i)
  <2>1. CASE finishSlot(i) /\ slot[i].fromMark
    BY <1>0, <2>1, TypesOf DEF finishSlot, EmptySlot, NoCopy, SlotMoves, SameSlot, Shape,
      DoneUnsaid, slotValid, At, Lookup, Copying, fetchVars, SlotType, CopyType
  <2>2. CASE /\ slot' = [slot EXCEPT ![i].pc = "READ_DEST_ATTR",
                            ![i].fromMark = FALSE, ![i].humongous = hum]
             /\ UNCHANGED copySlot /\ slot[i].fromMark
    <3>1. /\ slot'[i].pc = "READ_DEST_ATTR" /\ slot'[i].fromMark = FALSE
          /\ slot'[i].task = slot[i].task
          /\ \A j \in OopSlots \ {i} : slot'[j] = slot[j]
      BY <1>0, <2>2, TypesOf DEF SlotType
    <3>a. copySlot' = copySlot /\ copier' = copier /\ todo' = todo /\ slot[i].fromMark
      BY <2>2 DEF fetchVars
    <3>2. Shape(i)'
      BY <1>0, <3>1, <3>a DEF Shape, slotValid, At, Copying
    <3>3. slotValid(i)' => slotValid(i) /\ slot'[i].task = slot[i].task
      BY <3>1 DEF slotValid, At
    <3>4. DoneUnsaid(i)' = DoneUnsaid(i)
      BY <1>0, <3>1, <3>a DEF DoneUnsaid, Shape, Lookup, Copying
    <3>5. QED
      BY <3>1, <3>a, <3>2, <3>3, <3>4, OneMoves
  <2>3. CASE /\ slot' = [slot EXCEPT ![i].pc = "WAIT_COPY_OR_MARK", ![i].humongous = hum]
             /\ UNCHANGED copySlot /\ ~slot[i].fromMark
    <3>1. /\ slot'[i].pc = "WAIT_COPY_OR_MARK" /\ slot'[i].fromMark = slot[i].fromMark
          /\ slot'[i].task = slot[i].task
          /\ \A j \in OopSlots \ {i} : slot'[j] = slot[j]
      BY <1>0, <2>3, TypesOf DEF SlotType
    <3>a. copySlot' = copySlot /\ copier' = copier /\ todo' = todo /\ ~slot[i].fromMark
      BY <2>3 DEF fetchVars
    <3>2. Shape(i)'
      BY <1>0, <3>1, <3>a DEF Shape, slotValid, At, Copying
    <3>3. slotValid(i)' => slotValid(i) /\ slot'[i].task = slot[i].task
      BY <3>1 DEF slotValid, At
    <3>4. DoneUnsaid(i)' = DoneUnsaid(i)
      BY <1>0, <3>1, <3>a DEF DoneUnsaid, Shape, Lookup, Copying
    <3>5. QED
      BY <3>1, <3>a, <3>2, <3>3, <3>4, OneMoves
  <2>4. QED
    BY <2>1, <2>2, <2>3 DEF HumongousKnown
<1>2. QED
  BY <1>1, Quiet DEF fetchVars


(* A request or a write changes nothing that Done depends on. *)
LEMMA AskReadStep ==
  ASSUME FetchInv, NEW i \in OopSlots, UNCHANGED <<slot, copySlot, copier, fetchVars>>
  PROVE  FetchParts'
<1>1. SlotMoves(i) /\ DoneUnsaid(i)' = DoneUnsaid(i)
  BY DEF FetchInv, SlotShape, SlotMoves, SameSlot, Shape, DoneUnsaid, slotValid, At, fetchVars
<1>2. QED
  BY <1>1, Quiet DEF fetchVars

(* A slot goes on within its lookup. *)
LEMMA LookupStep ==
  ASSUME FetchInv, NEW i \in OopSlots, NEW s \in Lookup, NEW b \in BOOLEAN,
         slot[i].pc \in {"READ_SRC_ATTR", "DECIDE"},
         slot' = [slot EXCEPT ![i].pc = s, ![i].inCset = b]
           \/ slot' = [slot EXCEPT ![i].pc = s, ![i].fromMark = FALSE],
         UNCHANGED <<copySlot, copier, fetchVars>>
  PROVE  FetchParts'
<1>0. OopTypeOK /\ Shape(i)
  BY DEF FetchInv, SlotShape
<1>1. /\ slot'[i].pc = s /\ slot'[i].fromMark = FALSE /\ slot'[i].task = slot[i].task
      /\ \A j \in OopSlots \ {i} : slot'[j] = slot[j]
  BY <1>0, TypesOf DEF SlotType, Shape
<1>2. copySlot' = copySlot /\ copier' = copier /\ todo' = todo /\ slot[i].fromMark = FALSE
  BY <1>0, TypesOf DEF fetchVars, Shape, SlotType
<1>3. Shape(i)'
  BY <1>0, <1>1, <1>2 DEF Shape, slotValid, At, Copying, Lookup
<1>4. slotValid(i)' => slotValid(i) /\ slot'[i].task = slot[i].task
  BY <1>1 DEF slotValid, At
<1>5. DoneUnsaid(i)' = DoneUnsaid(i)
  BY <1>0, <1>1, <1>2 DEF DoneUnsaid, Shape, Lookup, Copying
<1>6. QED
  BY <1>1, <1>2, <1>3, <1>4, <1>5, OneMoves, Quiet DEF fetchVars

(* Between states that neither look up nor copy, or within the copying ones. *)
LEMMA MoveOnStep ==
  ASSUME FetchInv, NEW i \in OopSlots, NEW s \in States \ (Lookup \cup {"IDLE"}),
         slot[i].pc \in States \ (Lookup \cup {"IDLE"}),
         slot' = [slot EXCEPT ![i].pc = s],
         slot[i].fromMark \/ (s \in Copying <=> slot[i].pc \in Copying),
         slot[i].fromMark => s \in {"READ_HEAP_PTR", "READ_HUMONGOUS"},
         UNCHANGED <<copySlot, copier, fetchVars>>
  PROVE  FetchParts'
<1>0. OopTypeOK /\ Shape(i)
  BY DEF FetchInv, SlotShape
<1>1. /\ slot'[i].pc = s /\ slot'[i].fromMark = slot[i].fromMark
      /\ slot'[i].task = slot[i].task
      /\ \A j \in OopSlots \ {i} : slot'[j] = slot[j]
  BY <1>0, TypesOf DEF SlotType
<1>2. copySlot' = copySlot /\ copier' = copier /\ todo' = todo
  BY DEF fetchVars
<1>3. Shape(i)'
  BY <1>0, <1>1, <1>2 DEF Shape, slotValid, At, Copying
<1>4. slotValid(i)' => slotValid(i) /\ slot'[i].task = slot[i].task
  BY <1>1 DEF slotValid, At
<1>5. DoneUnsaid(i)' = DoneUnsaid(i)
  BY <1>0, <1>1, <1>2 DEF DoneUnsaid, Lookup
<1>6. QED
  BY <1>1, <1>2, <1>3, <1>4, <1>5, OneMoves, Quiet DEF fetchVars

(* A slot that is past its lookup and has no copy ends. *)
LEMMA FinishStep ==
  ASSUME FetchInv, NEW i \in OopSlots, finishSlot(i), slotValid(i),
         slot[i].pc \notin Lookup, ~copySlot[i].inflight, ~copySlot[i].done,
         UNCHANGED <<copier, fetchVars>>
  PROVE  FetchParts'
<1>0. OopTypeOK /\ Shape(i)
  BY DEF FetchInv, SlotShape
<1>1. /\ slot'[i] = EmptySlot /\ copySlot'[i] = NoCopy
      /\ \A j \in OopSlots \ {i} : slot'[j] = slot[j] /\ copySlot'[j] = copySlot[j]
  BY <1>0, TypesOf DEF finishSlot
<1>2. copier' = copier /\ todo' = todo
  BY DEF fetchVars
<1>3. Shape(i)'
  BY <1>0, <1>1, <1>2 DEF Shape, slotValid, At, Copying, EmptySlot, NoCopy
<1>4. ~slotValid(i)'
  BY <1>1 DEF slotValid, At, EmptySlot
<1>5. DoneUnsaid(i)' = DoneUnsaid(i)
  BY <1>1 DEF DoneUnsaid, Lookup, EmptySlot, NoCopy
<1>6. QED
  BY <1>1, <1>2, <1>3, <1>4, <1>5, OneMoves, Quiet DEF fetchVars


(* IgnoreTask ends a lookup with Done. *)
LEMMA IgnoreTaskStep ==
  ASSUME FetchInv, NEW i \in OopSlots, IgnoreTask(i)
  PROVE  FetchParts'
<1>0. OopTypeOK /\ Shape(i)
  BY DEF FetchInv, SlotShape
<1>1. /\ slot'[i] = EmptySlot /\ copySlot'[i] = NoCopy
      /\ \A j \in OopSlots \ {i} : slot'[j] = slot[j] /\ copySlot'[j] = copySlot[j]
  BY <1>0, TypesOf DEF IgnoreTask, finishSlot
<1>2. /\ copier' = copier /\ todo' = todo /\ releaseFetch(i)
      /\ slot[i].pc = "DECIDE"
  BY DEF IgnoreTask, releaseFetch, At
<1>3. Shape(i)'
  BY <1>0, <1>1, <1>2 DEF Shape, slotValid, At, Copying, EmptySlot, NoCopy
<1>4. ~slotValid(i)'
  BY <1>1 DEF slotValid, At, EmptySlot
<1>5. DoneUnsaid(i) /\ ~DoneUnsaid(i)'
  BY <1>1, <1>2 DEF DoneUnsaid, Lookup, EmptySlot, NoCopy
<1>6. QED
  BY <1>1, <1>2, <1>3, <1>4, <1>5, OneMoves, Release

(* UseForward ends a lookup with Done. *)
LEMMA UseForwardStep ==
  ASSUME FetchInv, NEW i \in OopSlots, UseForward(i)
  PROVE  FetchParts'
<1>0. OopTypeOK /\ Shape(i)
  BY DEF FetchInv, SlotShape
<1>1. /\ slot'[i].pc = "WRITE_BACK" /\ slot'[i].fromMark = TRUE
      /\ slot'[i].task = slot[i].task
      /\ \A j \in OopSlots \ {i} : slot'[j] = slot[j]
  BY <1>0, TypesOf DEF UseForward, SlotType
<1>2. /\ copySlot' = copySlot /\ copier' = copier /\ todo' = todo /\ releaseFetch(i)
      /\ slot[i].pc \in {"DECIDE", "COPY_SURV_REQ"}
  BY DEF UseForward, releaseFetch, At
<1>3. Shape(i)'
  BY <1>0, <1>1, <1>2 DEF Shape, slotValid, At, Copying
<1>4. slotValid(i)
  BY <1>2 DEF slotValid, At
<1>5. DoneUnsaid(i) /\ ~DoneUnsaid(i)'
  BY <1>0, <1>1, <1>2 DEF DoneUnsaid, Shape, Lookup, Copying
<1>6. QED
  BY <1>1, <1>2, <1>3, <1>4, <1>5, OneMoves, Release

(* SendCopy goes from the lookup to the copy: Done stays unsaid. *)
LEMMA SendCopyStep ==
  ASSUME FetchInv, NEW i \in OopSlots, SendCopy(i)
  PROVE  FetchParts'
<1>0. OopTypeOK /\ Shape(i)
  BY DEF FetchInv, SlotShape
<1>1. /\ slot'[i].pc = "READ_HEAP_PTR" /\ slot'[i].fromMark = slot[i].fromMark
      /\ slot'[i].task = slot[i].task
      /\ copySlot'[i].inflight = TRUE /\ copySlot'[i].bypass = FALSE
      /\ copySlot'[i].done = copySlot[i].done
      /\ copier'[i].stage = "asked"
      /\ \A j \in OopSlots \ {i} : /\ slot'[j] = slot[j] /\ copySlot'[j] = copySlot[j]
                                   /\ copier'[j] = copier[j]
  BY <1>0, TypesOf DEF SendCopy, SlotType, CopyType, CopierType, Survivor!Ask
<1>2. /\ UNCHANGED fetchVars /\ todo' = todo /\ slot[i].pc = "COPY_SURV_REQ"
  BY DEF SendCopy, WantsCopy, At, fetchVars
<1>3. Shape(i)'
  BY <1>0, <1>1, <1>2 DEF Shape, slotValid, At, Copying
<1>4. slotValid(i)
  BY <1>2 DEF slotValid, At
<1>5. DoneUnsaid(i) /\ DoneUnsaid(i)'
  BY <1>1, <1>2 DEF DoneUnsaid, Lookup
<1>6. QED
  BY <1>1, <1>2, <1>3, <1>4, <1>5, OneMoves, Quiet DEF fetchVars

(* CopyIsDone says Done unless the type array bypass has said it. *)
LEMMA CopyIsDoneStep ==
  ASSUME FetchInv, NEW i \in OopSlots, CopyIsDone(i)
  PROVE  FetchParts'
<1>0. OopTypeOK /\ Shape(i)
  BY DEF FetchInv, SlotShape
<1>1. /\ slot'[i].pc = "WRITE_BACK" /\ slot'[i].fromMark = slot[i].fromMark
      /\ slot'[i].task = slot[i].task
      /\ copySlot'[i].inflight = copySlot[i].inflight
      /\ copySlot'[i].bypass = FALSE /\ copySlot'[i].done = FALSE
      /\ \A j \in OopSlots \ {i} : slot'[j] = slot[j] /\ copySlot'[j] = copySlot[j]
  BY <1>0, TypesOf DEF CopyIsDone, SlotType, CopyType
<1>2. /\ copier' = copier /\ todo' = todo
      /\ slot[i].pc = "WAIT_COPY_OR_MARK" /\ copySlot[i].done
  BY DEF CopyIsDone, releaseFetch, fetchVars, At
<1>3. ~copySlot[i].inflight
  BY <1>0, <1>2 DEF Shape
<1>4. Shape(i)'
  BY <1>0, <1>1, <1>2, <1>3 DEF Shape, slotValid, At, Copying
<1>5. slotValid(i)
  BY <1>2 DEF slotValid, At
<1>6. SlotMoves(i) /\ ~DoneUnsaid(i)'
  BY <1>1, <1>2, <1>3, <1>4, <1>5, OneMoves DEF DoneUnsaid, Lookup
<1>7. CASE copySlot[i].bypass
  <2>1. ~DoneUnsaid(i)
    BY <1>2, <1>7 DEF DoneUnsaid, Lookup
  <2>2. UNCHANGED fetchVars
    BY <1>7 DEF CopyIsDone
  <2>3. DoneUnsaid(i)' = DoneUnsaid(i)
    BY <1>6, <2>1 DEF DoneUnsaid
  <2>4. QED
    BY <1>6, <2>2, <2>3, Quiet DEF fetchVars
<1>8. CASE ~copySlot[i].bypass
  <2>1. DoneUnsaid(i)
    BY <1>2, <1>8 DEF DoneUnsaid
  <2>2. releaseFetch(i)
    BY <1>8 DEF CopyIsDone
  <2>3. QED
    BY <1>6, <2>1, <2>2, Release
<1>9. QED
  BY <1>7, <1>8

(* TypeArray says Done once, while the copy goes on. *)
LEMMA TypeArrayStep ==
  ASSUME FetchInv, NEW i \in OopSlots, TypeArray(i)
  PROVE  FetchParts'
<1>0. OopTypeOK /\ Shape(i)
  BY DEF FetchInv, SlotShape
<1>1. /\ copySlot'[i].inflight = copySlot[i].inflight
      /\ copySlot'[i].bypass = TRUE /\ copySlot'[i].done = copySlot[i].done
      /\ \A j \in OopSlots \ {i} : copySlot'[j] = copySlot[j]
  BY <1>0, TypesOf DEF TypeArray, CopyType
<1>2. /\ slot' = slot /\ copier' = copier /\ todo' = todo /\ releaseFetch(i)
      /\ copySlot[i].inflight /\ ~copySlot[i].bypass
  BY DEF TypeArray, releaseFetch
<1>3. Shape(i)'
  BY <1>0, <1>1, <1>2 DEF Shape, slotValid, At
<1>4. slotValid(i)' => slotValid(i) /\ slot'[i].task = slot[i].task
  BY <1>2 DEF slotValid, At
<1>5. slot[i].pc \in Copying
  BY <1>0, <1>2 DEF Shape
<1>6. DoneUnsaid(i) /\ ~DoneUnsaid(i)'
  BY <1>1, <1>2, <1>5 DEF DoneUnsaid, Lookup, Copying
<1>7. QED
  BY <1>1, <1>2, <1>3, <1>4, <1>6, OneMoves, Release

(* WriteForward changes mark words only. *)
LEMMA WriteForwardStep ==
  ASSUME FetchInv, NEW i \in OopSlots, WriteForward(i)
  PROVE  FetchParts'
<1>0. OopTypeOK /\ Shape(i)
  BY DEF FetchInv, SlotShape
<1>1. \A j \in OopSlots : /\ slot'[j].pc = slot[j].pc /\ slot'[j].task = slot[j].task
                          /\ slot'[j].fromMark = slot[j].fromMark
  BY <1>0, TypesOf DEF WriteForward, SlotType
<1>2. /\ copier[i].stage = "asked" /\ copier'[i].stage = "announced"
      /\ \A j \in OopSlots \ {i} : copier'[j] = copier[j]
  BY <1>0, TypesOf DEF WriteForward, CopierType, Survivor!Announce
<1>3. UNCHANGED fetchVars /\ copySlot' = copySlot /\ todo' = todo
  BY DEF WriteForward, fetchVars
<1>4. Shape(i)'
  BY <1>0, <1>1, <1>2, <1>3 DEF Shape, slotValid, At
<1>5. SlotMoves(i)
  BY <1>1, <1>2, <1>3, <1>4 DEF SlotMoves, SameSlot, slotValid, At
<1>6. DoneUnsaid(i)' = DoneUnsaid(i)
  BY <1>1, <1>3 DEF DoneUnsaid
<1>7. QED
  BY <1>3, <1>5, <1>6, Quiet DEF fetchVars

(* CopyDone turns inflight into done. *)
LEMMA CopyDoneStep ==
  ASSUME FetchInv, NEW i \in OopSlots, CopyDone(i)
  PROVE  FetchParts'
<1>0. OopTypeOK /\ Shape(i)
  BY DEF FetchInv, SlotShape
<1>1. /\ slot'[i].pc = slot[i].pc /\ slot'[i].fromMark = slot[i].fromMark
      /\ slot'[i].task = slot[i].task
      /\ copySlot'[i].inflight = FALSE /\ copySlot'[i].done = TRUE
      /\ copySlot'[i].bypass = copySlot[i].bypass
      /\ \A j \in OopSlots \ {i} : slot'[j] = slot[j] /\ copySlot'[j] = copySlot[j]
  BY <1>0, TypesOf DEF CopyDone, SlotType, CopyType
<1>2. /\ copier[i].stage = "announced" /\ copier'[i].stage = "idle"
      /\ \A j \in OopSlots \ {i} : copier'[j] = copier[j]
  BY <1>0, TypesOf DEF CopyDone, CopierType, Survivor!Finish, Survivor!Idle
<1>3. UNCHANGED fetchVars /\ todo' = todo
  BY DEF CopyDone, fetchVars
<1>4. copySlot[i].inflight
  BY <1>0, <1>2 DEF Shape
<1>5. Shape(i)'
  BY <1>0, <1>1, <1>2, <1>3, <1>4 DEF Shape, slotValid, At
<1>6. slotValid(i)' => slotValid(i) /\ slot'[i].task = slot[i].task
  BY <1>1 DEF slotValid, At
<1>7. DoneUnsaid(i)' = DoneUnsaid(i)
  BY <1>1, <1>4 DEF DoneUnsaid
<1>8. QED
  BY <1>1, <1>2, <1>3, <1>5, <1>6, <1>7, OneMoves, Quiet DEF fetchVars

(* AcceptTask finds every task in a slot released, and adds one that is not. *)
LEMMA AcceptTaskStep ==
  ASSUME FetchInv, NEW t \in OopTasks, AcceptTask(t)
  PROVE  FetchParts'
<1> PICK i \in OopSlots : i = IF slotValid(0) THEN 1 ELSE 0
  BY DEF OopSlots
<1>0. OopTypeOK /\ ~slotValid(i)
  BY DEF FetchInv, AcceptTask, hasFreeSlot, OopSlots
<1>1. /\ Shape(i) /\ slot[i].pc = "IDLE" /\ \A j \in OopSlots : Shape(j)
      /\ ~fetchWaits /\ unreleased = {} /\ t \in todo
  BY <1>0 DEF FetchInv, SlotShape, FetchHeldByOne, AcceptTask, slotValid, At
<1>2. /\ slot'[i].pc = "READ_SRC_ATTR" /\ slot'[i].fromMark = FALSE
      /\ slot'[i].task = t /\ copySlot'[i] = NoCopy
      /\ \A j \in OopSlots \ {i} : slot'[j] = slot[j] /\ copySlot'[j] = copySlot[j]
  BY <1>0, TypesOf DEF AcceptTask, EmptySlot
<1>3. /\ copier' = copier /\ todo' = todo \ {t} /\ fetchWaits' = TRUE
      /\ allowSecondInFlight' = FALSE /\ unreleased' = {i}
  BY <1>1 DEF AcceptTask
<1>4. copier[i].stage = "idle"
  BY <1>1 DEF Shape, Copying
<1>5. t # None
  BY ConstantsAssumption
<1>6. Shape(i)'
  BY <1>0, <1>2, <1>3, <1>4, <1>5 DEF Shape, slotValid, At, Copying, NoCopy
<1>7. ASSUME NEW j \in OopSlots \ {i} PROVE Shape(j)' /\ slot'[j].task # t
  BY <1>1, <1>2, <1>3, <1>5, <1>7 DEF Shape, slotValid, At
<1>8. DifferentTasks'
  BY <1>0, <1>2, <1>7 DEF DifferentTasks, OopSlots
<1>9. Unreleased'
  <2>1. ASSUME NEW j \in OopSlots \ {i} PROVE ~DoneUnsaid(j)'
    BY <1>1, <1>2, <2>1 DEF FetchInv, Unreleased, DoneUnsaid
  <2>2. DoneUnsaid(i)'
    BY <1>2 DEF DoneUnsaid, Lookup
  <2>3. QED
    BY <1>0, <1>3, <2>1, <2>2 DEF Unreleased
<1>10. FetchHeldByOne'
  BY <1>3 DEF FetchHeldByOne, OopSlots
<1>11. QED
  BY <1>0, <1>6, <1>7, <1>8, <1>9, <1>10 DEF FetchParts, SlotShape


-----------------------------------------------------------------------------
(* Types.  A step changes one slot and keeps the rest of OopTypeOK.            *)

(* An answer to a question is a Boolean, right or not. *)
LEMMA ValueType ==
  ASSUME NEW i, NEW s, NEW r, NEW S
  PROVE  Value(i, s, r \in S) \subseteq BOOLEAN
<1>1. (r \in S) \in BOOLEAN
  OBVIOUS
<1>2. QED
  BY <1>1 DEF Value

(* The slots, when the slot i is set to a value of the type. *)
LEMMA SetSlot ==
  ASSUME OopTypeOK, NEW i \in OopSlots, NEW v \in SlotType, slot' = [slot EXCEPT ![i] = v]
  PROVE  slot' \in [OopSlots -> SlotType]
  BY DEF OopTypeOK

(* What no action but those of a slot's bookkeeping changes. *)
LEMMA TypeKept ==
  ASSUME OopTypeOK, slot' \in [OopSlots -> SlotType], copySlot' \in [OopSlots -> CopyType],
         UNCHANGED <<issued, asked, cacheVars, fetchVars, overtaken, copier, heapVars>>
  PROVE  OopTypeOK'
  BY DEF OopTypeOK, cacheVars, fetchVars, heapVars

(* Steps of a slot keep the types. *)
LEMMA SlotStepType ==
  ASSUME FetchInv, NEW i \in OopSlots, SlotStep(i)
  PROVE  OopTypeOK'
<1>0. OopTypeOK /\ Shape(i)
  BY DEF FetchInv, SlotShape
<1>a. /\ slot \in [OopSlots -> SlotType] /\ slot[i] \in SlotType
      /\ copySlot \in [OopSlots -> CopyType] /\ copySlot[i] \in CopyType
  BY <1>0, TypesOf
<1>b. slotValid(i) => slot[i].task \in OopTasks
  BY <1>0, <1>a DEF Shape, SlotType, Address
<1>c. EmptySlot \in SlotType /\ NoCopy \in CopyType
  BY DEF EmptySlot, NoCopy, SlotType, CopyType, States, Reads, Address
<1>1. CASE AskRead(i)
  BY <1>0, <1>1 DEF AskRead, OopTypeOK, cacheVars, fetchVars, heapVars
<1>2. CASE SrcAttrHit(i)
  <2>1. [slot[i] EXCEPT !.pc = "DECIDE", !.inCset = srcRegion(i) \in InCset] \in SlotType
    <3>1. \A b \in BOOLEAN : [slot[i] EXCEPT !.pc = "DECIDE", !.inCset = b] \in SlotType
      BY <1>a DEF SlotType, States
    <3>2. (srcRegion(i) \in InCset) \in BOOLEAN
      OBVIOUS
    <3>3. QED
      BY <3>1, <3>2, Zenon
  <2>2. slot' = [slot EXCEPT ![i] = [slot[i] EXCEPT !.pc = "DECIDE",
                                       !.inCset = srcRegion(i) \in InCset]]
    BY <1>2, <1>a DEF SrcAttrHit
  <2>3. slot' \in [OopSlots -> SlotType]
    BY <1>0, <2>1, <2>2, SetSlot
  <2>4. QED
    BY <1>0, <1>2, <1>a, <2>3, TypeKept DEF SrcAttrHit
<1>3. CASE HeapRegionHit(i)
  <2>1. slot' \in [OopSlots -> SlotType] /\ copySlot' \in [OopSlots -> CopyType]
    <3>1. HumongousKnown(i, heapRegion(i) \in Humongous)
      BY <1>3 DEF HeapRegionHit
    <3>2. (heapRegion(i) \in Humongous) \in BOOLEAN
      OBVIOUS
    <3>3. QED
      BY <1>0, <3>1, <3>2, HumongousKnownType
  <2>2. asked' \in [OopSlots -> SUBSET Reads]
    BY <1>0, <1>3 DEF HeapRegionHit, OopTypeOK
  <2>3. overtaken' \in BOOLEAN
    BY <1>0, <1>3 DEF HeapRegionHit, OopTypeOK
  <2>4. UNCHANGED <<issued, cacheVars, fetchVars, copier, heapVars>>
    BY <1>3 DEF HeapRegionHit
  <2>5. QED
    BY <1>0, <2>1, <2>2, <2>3, <2>4 DEF OopTypeOK, cacheVars, fetchVars, heapVars
<1>4. CASE IgnoreTask(i)
  BY <1>0, <1>4, <1>a, <1>c DEF IgnoreTask, finishSlot, releaseFetch, OopTypeOK, cacheVars, heapVars
<1>5. CASE UseForward(i)
  <2>1. [slot[i] EXCEPT !.pc = "WRITE_BACK", !.dest = slot[i].mark, !.fromMark = TRUE] \in SlotType
    BY <1>a DEF SlotType, States
  <2>2. slot' = [slot EXCEPT ![i] = [slot[i] EXCEPT !.pc = "WRITE_BACK",
                                       !.dest = slot[i].mark, !.fromMark = TRUE]]
    BY <1>5, <1>a DEF UseForward
  <2>3. slot' \in [OopSlots -> SlotType]
    BY <1>0, <2>1, <2>2, SetSlot
  <2>4. QED
    BY <1>0, <1>5, <1>a, <2>3 DEF UseForward, releaseFetch, OopTypeOK, cacheVars, heapVars
<1>6. CASE DecideCopy(i)
  <2>1. [slot[i] EXCEPT !.pc = "COPY_SURV_REQ", !.fromMark = FALSE] \in SlotType
    BY <1>a DEF SlotType, States
  <2>2. slot' = [slot EXCEPT ![i] = [slot[i] EXCEPT !.pc = "COPY_SURV_REQ", !.fromMark = FALSE]]
    BY <1>6, <1>a DEF DecideCopy
  <2>3. slot' \in [OopSlots -> SlotType]
    BY <1>0, <2>1, <2>2, SetSlot
  <2>4. QED
    BY <1>0, <1>6, <1>a, <2>3, TypeKept DEF DecideCopy
<1>7. CASE SendCopy(i)
  <2>1. slot' \in [OopSlots -> SlotType]
    BY <1>7, <1>a DEF SendCopy, SlotType, States, Reads
  <2>2. copySlot' \in [OopSlots -> CopyType]
    <3>1. [copySlot[i] EXCEPT !.inflight = TRUE, !.bypass = FALSE] \in CopyType
      BY <1>a DEF CopyType
    <3>2. copySlot' = [copySlot EXCEPT ![i] = [copySlot[i] EXCEPT !.inflight = TRUE,
            !.bypass = FALSE]]
      BY <1>7, <1>a DEF SendCopy
    <3>3. QED
      BY <1>a, <3>1, <3>2
  <2>3. copier' \in [OopSlots -> CopierType]
    BY <1>0, <1>7 DEF SendCopy, Survivor!Ask, OopTypeOK, CopierType
  <2>4. QED
    BY <1>0, <1>7, <2>1, <2>2, <2>3 DEF SendCopy, OopTypeOK, cacheVars, fetchVars, heapVars
<1>8. CASE CopyIsDone(i)
  <2>1. slot' \in [OopSlots -> SlotType]
    BY <1>8, <1>a DEF CopyIsDone, SlotType, States
  <2>2. copySlot' \in [OopSlots -> CopyType]
    <3>1. [copySlot[i] EXCEPT !.done = FALSE, !.bypass = FALSE] \in CopyType
      BY <1>a DEF CopyType
    <3>2. copySlot' = [copySlot EXCEPT ![i] = [copySlot[i] EXCEPT !.done = FALSE, !.bypass = FALSE]]
      BY <1>8, <1>a DEF CopyIsDone
    <3>3. QED
      BY <1>a, <3>1, <3>2
  <2>3. /\ allowSecondInFlight' \in BOOLEAN /\ fetchWaits' \in BOOLEAN
        /\ unreleased' \subseteq OopSlots /\ todo' \subseteq OopTasks
    BY <1>0, <1>8 DEF CopyIsDone, releaseFetch, fetchVars, OopTypeOK
  <2>4. QED
    BY <1>0, <1>8, <2>1, <2>2, <2>3 DEF CopyIsDone, OopTypeOK, cacheVars, heapVars
<1>9. CASE SendWrite(i)
  <2>1. field' \in [OopTasks -> Address]
    BY <1>0, <1>9, <1>a DEF SendWrite, OopTypeOK, SlotType
  <2>2. QED
    BY <1>0, <1>9, <2>1 DEF SendWrite, OopTypeOK, cacheVars, fetchVars
<1>10. CASE LeaveWriteBack(i)
  <2>1. slot' \in [OopSlots -> SlotType] /\ copySlot' \in [OopSlots -> CopyType]
    <3>1. CASE finishSlot(i)
      BY <1>a, <1>c, <3>1 DEF finishSlot
    <3>2. CASE /\ slot' = [slot EXCEPT ![i].pc =
                             IF slot[i].fromMark THEN "READ_HEAP_PTR" ELSE "READ_DEST_ATTR"]
               /\ UNCHANGED copySlot
      BY <1>a, <3>2 DEF SlotType, States, Reads
    <3>3. QED
      BY <1>10, <3>1, <3>2 DEF LeaveWriteBack
  <2>2. issued' \in [OopSlots -> BOOLEAN]
    BY <1>0, <1>10 DEF LeaveWriteBack, OopTypeOK
  <2>3. UNCHANGED <<asked, cacheVars, fetchVars, copier, heapVars, overtaken>>
    BY <1>10 DEF LeaveWriteBack
  <2>4. QED
    BY <1>0, <2>1, <2>2, <2>3 DEF OopTypeOK, cacheVars, fetchVars, heapVars
<1>11. CASE SendAop(i)
  <2>1. slot[i].task \in OopTasks
    BY <1>11, <1>b DEF SendAop, slotValid, At
  <2>2. aopSent' \subseteq OopTasks
    BY <1>0, <1>11, <2>1 DEF SendAop, OopTypeOK
  <2>3. slot' \in [OopSlots -> SlotType] /\ copySlot' \in [OopSlots -> CopyType]
    BY <1>11, <1>a, <1>c DEF SendAop, finishSlot
  <2>4. QED
    BY <1>0, <1>11, <2>2, <2>3 DEF SendAop, OopTypeOK, cacheVars, fetchVars
<1>12. QED
  BY <1>1, <1>2, <1>3, <1>4, <1>5, <1>6, <1>7, <1>8, <1>9, <1>10, <1>11 DEF SlotStep

(* Answers of the memory keep the types. *)
LEMMA AnswerType ==
  ASSUME FetchInv, NEW i \in OopSlots, NEW s \in Reads, Answer(i, s)
  PROVE  OopTypeOK'
<1>0. OopTypeOK /\ Shape(i)
  BY DEF FetchInv, SlotShape
<1>a. /\ slot \in [OopSlots -> SlotType] /\ slot[i] \in SlotType
      /\ copySlot \in [OopSlots -> CopyType] /\ copySlot[i] \in CopyType
  BY <1>0, TypesOf
<1>b. slotValid(i) => srcRegion(i) \in Regions /\ heapRegion(i) \in Regions
  BY <1>0, <1>a, RegionTypes DEF Shape, SlotType, Address
<1>c. AttrEntries \in Nat \ {0} /\ HeapEntries \in Nat \ {0}
  BY ConstantsAssumption
<1>1. /\ slot' \in [OopSlots -> SlotType] /\ copySlot' \in [OopSlots -> CopyType]
      /\ regionAttrCache' \in Seq(Regions) /\ heapRegionCache' \in Seq(Regions)
  <2>0. regionAttrCache \in Seq(Regions) /\ heapRegionCache \in Seq(Regions)
    BY <1>0 DEF OopTypeOK
  <2>1. CASE SrcAttrAnswer(i, s)
    <3>1. PICK v \in BOOLEAN : slot' = [slot EXCEPT ![i].pc = "DECIDE", ![i].inCset = v]
      <4>1. Value(i, s, srcRegion(i) \in InCset) \subseteq BOOLEAN
        BY ValueType
      <4>2. QED
        BY <2>1, <4>1, Zenon DEF SrcAttrAnswer
    <3>2. [slot[i] EXCEPT !.pc = "DECIDE", !.inCset = v] \in SlotType
      BY <1>a DEF SlotType, States
    <3>3. slot' = [slot EXCEPT ![i] = [slot[i] EXCEPT !.pc = "DECIDE", !.inCset = v]]
      BY <1>a, <3>1
    <3>4. slot' \in [OopSlots -> SlotType]
      BY <1>0, <3>2, <3>3, SetSlot
    <3>5. regionAttrCache' \in Seq(Regions)
      BY <1>b, <1>c, <2>0, <2>1, FillType DEF SrcAttrAnswer, slotValid, At
    <3>6. QED
      BY <1>a, <2>0, <2>1, <3>4, <3>5 DEF SrcAttrAnswer
  <2>2. CASE HeapPtrAnswer(i)
    BY <1>a, <2>0, <2>2 DEF HeapPtrAnswer, cacheVars, SlotType, States, Reads
  <2>3. CASE HumongousAnswer(i, s)
    <3>1. PICK hum \in BOOLEAN : HumongousKnown(i, hum)
      <4>1. Value(i, s, heapRegion(i) \in Humongous) \subseteq BOOLEAN
        BY ValueType
      <4>2. QED
        BY <2>3, <4>1, Zenon DEF HumongousAnswer
    <3>2. slot' \in [OopSlots -> SlotType] /\ copySlot' \in [OopSlots -> CopyType]
      BY <1>0, <3>1, HumongousKnownType
    <3>3. heapRegionCache' \in Seq(Regions)
      BY <1>b, <1>c, <2>0, <2>3, FillType DEF HumongousAnswer, slotValid, At
    <3>4. QED
      BY <2>0, <2>3, <3>2, <3>3 DEF HumongousAnswer
  <2>4. CASE DestAttrAnswer(i)
    BY <1>a, <2>0, <2>4 DEF DestAttrAnswer, cacheVars, SlotType, States
  <2>5. CASE UNCHANGED <<slot, copySlot, issued, cacheVars>>
    BY <1>a, <2>0, <2>5 DEF cacheVars
  <2>6. QED
    BY <2>1, <2>2, <2>3, <2>4, <2>5 DEF Answer
<1>2. issued' \in [OopSlots -> BOOLEAN] /\ asked' \in [OopSlots -> SUBSET Reads]
  BY <1>0 DEF Answer, OopTypeOK
<1>3. UNCHANGED <<fetchVars, copier, heapVars, overtaken>>
  BY DEF Answer
<1>4. QED
  BY <1>0, <1>1, <1>2, <1>3 DEF OopTypeOK, fetchVars, heapVars


(* Steps of the neighbours keep the types. *)
LEMMA NeighbourType ==
  ASSUME FetchInv,
         \/ \E t \in OopTasks : AcceptTask(t)
         \/ \E i \in OopSlots : TypeArray(i) \/ WriteForward(i) \/ CopyDone(i)
  PROVE  OopTypeOK'
<1>0. OopTypeOK /\ SlotShape
  BY DEF FetchInv
<1>a. /\ slot \in [OopSlots -> SlotType] /\ copySlot \in [OopSlots -> CopyType]
      /\ copier \in [OopSlots -> CopierType] /\ forward \in [Objects -> Address]
  BY <1>0 DEF OopTypeOK
<1>1. ASSUME NEW t \in OopTasks, AcceptTask(t) PROVE OopTypeOK'
  <2>1. PICK i \in OopSlots : i = IF slotValid(0) THEN 1 ELSE 0
    BY DEF OopSlots
  <2>2. forward[SrcOop[t]] \in Address
    BY <1>a, ConstantsAssumption
  <2>3. [EmptySlot EXCEPT !.pc = "READ_SRC_ATTR", !.task = t, !.mark = forward[SrcOop[t]]]
          \in SlotType
    BY <2>2 DEF EmptySlot, SlotType, States, Reads, Address
  <2>4. slot' = [slot EXCEPT ![i] = [EmptySlot EXCEPT !.pc = "READ_SRC_ATTR",
                                       !.task = t, !.mark = forward[SrcOop[t]]]]
    BY <1>1, <2>1 DEF AcceptTask
  <2>5. slot' \in [OopSlots -> SlotType]
    BY <1>0, <2>3, <2>4, SetSlot
  <2>6. NoCopy \in CopyType
    BY DEF NoCopy, CopyType
  <2>7. copySlot' \in [OopSlots -> CopyType]
    BY <1>a, <1>1, <2>1, <2>6 DEF AcceptTask
  <2>8. /\ unreleased' \subseteq OopSlots /\ todo' \subseteq OopTasks
        /\ fetchWaits' \in BOOLEAN /\ allowSecondInFlight' \in BOOLEAN
    BY <1>0, <1>1, <2>1 DEF AcceptTask, OopTypeOK
  <2>9. UNCHANGED <<issued, asked, cacheVars, copier, heapVars, overtaken>>
    BY <1>1 DEF AcceptTask
  <2>10. QED
    BY <1>0, <2>5, <2>7, <2>8, <2>9 DEF OopTypeOK, cacheVars, heapVars
<1>2. ASSUME NEW i \in OopSlots, TypeArray(i) PROVE OopTypeOK'
  <2>1. copySlot' \in [OopSlots -> CopyType]
    BY <1>a, <1>2 DEF TypeArray, CopyType
  <2>2. QED
    BY <1>0, <1>2, <2>1 DEF TypeArray, releaseFetch, OopTypeOK, cacheVars, heapVars
<1>3. ASSUME NEW i \in OopSlots, WriteForward(i) PROVE OopTypeOK'
  <2>0. Shape(i) /\ copier[i].stage = "asked"
    BY <1>0, <1>3 DEF SlotShape, WriteForward, Survivor!Announce
  <2>1. slot[i].task \in OopTasks /\ Oop(i) \in Objects
    BY <1>0, <1>a, <2>0, RegionTypes DEF Shape, SlotType, Address, slotValid, At, Copying
  <2>2. slot[i].task \in Address
    BY <2>1 DEF Address
  <2>3. ASSUME NEW j \in OopSlots PROVE [slot[j] EXCEPT !.mark = slot[i].task] \in SlotType
    BY <1>a, <2>2, <2>3 DEF SlotType
  <2>4. slot' \in [OopSlots -> SlotType]
    BY <1>a, <1>3, <2>3 DEF WriteForward
  <2>5. forward' \in [Objects -> Address]
    BY <1>a, <1>3, <2>1, <2>2 DEF WriteForward
  <2>6. copier' \in [OopSlots -> CopierType]
    BY <1>a, <1>3, <2>2 DEF WriteForward, Survivor!Announce, CopierType
  <2>7. UNCHANGED <<copySlot, issued, asked, cacheVars, fetchVars, field, aopSent, overtaken>>
    BY <1>3 DEF WriteForward
  <2>8. QED
    BY <1>0, <2>4, <2>5, <2>6, <2>7 DEF OopTypeOK, cacheVars, fetchVars
<1>4. ASSUME NEW i \in OopSlots, CopyDone(i) PROVE OopTypeOK'
  <2>1. slot' \in [OopSlots -> SlotType]
    <3>1. copier[i].copy \in Address
      BY <1>a DEF CopierType
    <3>2. [slot[i] EXCEPT !.dest = copier[i].copy] \in SlotType
      BY <1>a, <3>1 DEF SlotType
    <3>3. slot' = [slot EXCEPT ![i] = [slot[i] EXCEPT !.dest = copier[i].copy]]
      BY <1>a, <1>4 DEF CopyDone
    <3>4. QED
      BY <1>a, <3>2, <3>3
  <2>2. copySlot' \in [OopSlots -> CopyType]
    <3>1. [copySlot[i] EXCEPT !.done = TRUE, !.inflight = FALSE] \in CopyType
      BY <1>a DEF CopyType
    <3>2. copySlot' = [copySlot EXCEPT ![i] = [copySlot[i] EXCEPT !.done = TRUE,
            !.inflight = FALSE]]
      BY <1>4, <1>a DEF CopyDone
    <3>3. QED
      BY <1>a, <3>1, <3>2
  <2>3. copier' \in [OopSlots -> CopierType]
    BY <1>a, <1>4 DEF CopyDone, Survivor!Finish, Survivor!Idle, CopierType, Address
  <2>4. UNCHANGED <<issued, asked, cacheVars, fetchVars, heapVars, overtaken>>
    BY <1>4 DEF CopyDone
  <2>5. QED
    BY <1>0, <2>1, <2>2, <2>3, <2>4 DEF OopTypeOK, cacheVars, fetchVars, heapVars
<1>5. QED
  BY <1>1, <1>2, <1>3, <1>4

-----------------------------------------------------------------------------
(* The invariant. *)

(* Every step of a slot keeps FetchParts. *)
LEMMA SlotStepParts ==
  ASSUME FetchInv, NEW i \in OopSlots, SlotStep(i)
  PROVE  FetchParts'
<1>0. OopTypeOK /\ Shape(i) /\ slot[i] \in SlotType
  BY TypesOf DEF FetchInv, SlotShape
<1>1. CASE AskRead(i) \/ SendWrite(i)
  BY <1>1, AskReadStep DEF AskRead, SendWrite
<1>2. CASE SrcAttrHit(i)
  <2>1. (srcRegion(i) \in InCset) \in BOOLEAN /\ "DECIDE" \in Lookup
    BY DEF Lookup
  <2>2. slot[i].pc \in {"READ_SRC_ATTR", "DECIDE"}
    BY <1>2 DEF SrcAttrHit, At
  <2>3. /\ slot' = [slot EXCEPT ![i].pc = "DECIDE", ![i].inCset = srcRegion(i) \in InCset]
        /\ UNCHANGED <<copySlot, copier, fetchVars>>
    BY <1>2 DEF SrcAttrHit
  <2>4. QED
    BY <2>1, <2>2, <2>3, LookupStep
<1>3. CASE HeapRegionHit(i)
  <2>1. (heapRegion(i) \in Humongous) \in BOOLEAN
    OBVIOUS
  <2>2. /\ HumongousKnown(i, heapRegion(i) \in Humongous)
        /\ slot[i].pc \in {"READ_HEAP_PTR", "READ_HUMONGOUS"}
        /\ UNCHANGED <<fetchVars, copier>>
    BY <1>3 DEF HeapRegionHit, At
  <2>3. QED
    BY <2>1, <2>2, HumongousStep
<1>4. CASE DecideCopy(i)
  BY <1>4, LookupStep DEF DecideCopy, At, Lookup
<1>5. CASE LeaveWriteBack(i)
  <2>1. /\ slot[i].pc = "WRITE_BACK" /\ UNCHANGED <<copier, fetchVars>>
        /\ ~copySlot[i].inflight /\ ~copySlot[i].done
    BY <1>0, <1>5 DEF LeaveWriteBack, At, Shape, Copying
  <2>2. CASE finishSlot(i)
    BY <2>1, <2>2, FinishStep DEF slotValid, At, Lookup
  <2>3. CASE /\ slot' = [slot EXCEPT ![i].pc =
                           IF slot[i].fromMark THEN "READ_HEAP_PTR" ELSE "READ_DEST_ATTR"]
             /\ UNCHANGED copySlot
    <3>1. CASE slot[i].fromMark
      <4>1. slot' = [slot EXCEPT ![i].pc = "READ_HEAP_PTR"]
        BY <2>3, <3>1
      <4>2. QED
        BY <2>1, <2>3, <3>1, <4>1, MoveOnStep DEF States, Reads, Lookup
    <3>2. CASE ~slot[i].fromMark
      <4>1. slot' = [slot EXCEPT ![i].pc = "READ_DEST_ATTR"]
        BY <2>3, <3>2
      <4>2. QED
        BY <2>1, <2>3, <3>2, <4>1, MoveOnStep DEF States, Reads, Lookup, Copying
    <3>3. QED
      BY <3>1, <3>2
  <2>4. QED
    BY <1>5, <2>2, <2>3 DEF LeaveWriteBack
<1>6. CASE SendAop(i)
  BY <1>0, <1>6, FinishStep DEF SendAop, slotValid, At, Lookup, Shape, Copying
<1>7. QED
  BY <1>1, <1>2, <1>3, <1>4, <1>5, <1>6, IgnoreTaskStep, UseForwardStep, SendCopyStep,
    CopyIsDoneStep DEF SlotStep

(* Every answer keeps FetchParts. *)
LEMMA AnswerParts ==
  ASSUME FetchInv, NEW i \in OopSlots, NEW s \in Reads, Answer(i, s)
  PROVE  FetchParts'
<1>0. OopTypeOK /\ Shape(i) /\ UNCHANGED <<fetchVars, copier>>
  BY DEF FetchInv, SlotShape, Answer
<1>1. CASE SrcAttrAnswer(i, s)
  <2>1. Value(i, s, srcRegion(i) \in InCset) \subseteq BOOLEAN
    BY ValueType
  <2>2. PICK v \in BOOLEAN : slot' = [slot EXCEPT ![i].pc = "DECIDE", ![i].inCset = v]
    BY <1>1, <2>1, Zenon DEF SrcAttrAnswer
  <2>3. slot[i].pc = "READ_SRC_ATTR" /\ UNCHANGED copySlot
    BY <1>1 DEF SrcAttrAnswer, At
  <2>4. QED
    BY <1>0, <2>2, <2>3, LookupStep DEF Lookup
<1>2. CASE HeapPtrAnswer(i)
  BY <1>0, <1>2, MoveOnStep DEF HeapPtrAnswer, At, States, Reads, Lookup, Copying
<1>3. CASE HumongousAnswer(i, s)
  <2>1. Value(i, s, heapRegion(i) \in Humongous) \subseteq BOOLEAN
    BY ValueType
  <2>2. PICK hum \in BOOLEAN : HumongousKnown(i, hum)
    BY <1>3, <2>1, Zenon DEF HumongousAnswer
  <2>3. slot[i].pc = "READ_HUMONGOUS"
    BY <1>3 DEF HumongousAnswer, At
  <2>4. QED
    BY <1>0, <2>2, <2>3, HumongousStep
<1>4. CASE DestAttrAnswer(i)
  BY <1>0, <1>4, MoveOnStep DEF DestAttrAnswer, At, States, Reads, Lookup, Copying, Shape
<1>5. CASE UNCHANGED <<slot, copySlot, issued, cacheVars>>
  BY <1>0, <1>5, AskReadStep
<1>6. QED
  BY <1>1, <1>2, <1>3, <1>4, <1>5 DEF Answer

(* FetchInv holds at first. *)
LEMMA FetchInvInit == OopInit => FetchInv
<1> SUFFICES ASSUME OopInit PROVE FetchInv
  OBVIOUS
<1>1. copier = [i \in OopSlots |-> [stage |-> "idle", copy |-> None]]
  BY DEF OopInit, Survivor!Init, Survivor!Idle
<1>2. OopTypeOK
  <2>1. EmptySlot \in SlotType /\ NoCopy \in CopyType
    BY DEF EmptySlot, NoCopy, SlotType, CopyType, States, Reads, Address
  <2>2. slot \in [OopSlots -> SlotType] /\ copySlot \in [OopSlots -> CopyType]
    BY <2>1 DEF OopInit
  <2>3. copier \in [OopSlots -> CopierType]
    BY <1>1 DEF CopierType, Address
  <2>4. <<>> \in Seq(Regions)
    OBVIOUS
  <2>5. regionAttrCache \in Seq(Regions) /\ heapRegionCache \in Seq(Regions)
    BY <2>4 DEF OopInit
  <2>6. QED
    BY <2>2, <2>3, <2>5 DEF OopInit, OopTypeOK, Address
<1>3. SlotShape
  BY <1>1 DEF OopInit, SlotShape, Shape, slotValid, At, EmptySlot, NoCopy, Copying
<1>4. DifferentTasks
  BY DEF OopInit, DifferentTasks, slotValid, At, EmptySlot, OopSlots
<1>5. Unreleased
  BY DEF OopInit, Unreleased, DoneUnsaid, EmptySlot, NoCopy, Lookup
<1>6. FetchHeldByOne
  BY DEF OopInit, FetchHeldByOne, OopSlots
<1>7. QED
  BY <1>2, <1>3, <1>4, <1>5, <1>6 DEF FetchInv

(* FetchInv is inductive. *)
LEMMA FetchInvStep == FetchInv /\ [OopNext]_oopVars => FetchInv'
<1> SUFFICES ASSUME FetchInv, [OopNext]_oopVars PROVE FetchInv'
  OBVIOUS
<1>1. CASE OopNext
  <2>1. OopTypeOK'
    BY <1>1, SlotStepType, AnswerType, NeighbourType DEF OopNext
  <2>2. FetchParts'
    BY <1>1, AcceptTaskStep, SlotStepParts, AnswerParts, TypeArrayStep, WriteForwardStep,
      CopyDoneStep DEF OopNext
  <2>3. QED
    BY <2>1, <2>2 DEF FetchInv, FetchParts
<1>2. CASE UNCHANGED oopVars
  BY <1>2 DEF oopVars, slotVars, cacheVars, fetchVars, heapVars, FetchInv, OopTypeOK, SlotShape,
    Shape, DifferentTasks, Unreleased, DoneUnsaid, FetchHeldByOne, slotValid, At
<1>3. QED
  BY <1>1, <1>2

(* In every behaviour the variables keep their types. *)
THEOREM TypeCorrect == OopSpec => []OopTypeOK
<1>1. FetchInv => OopTypeOK
  BY DEF FetchInv
<1>2. QED
  BY <1>1, FetchInvInit, FetchInvStep, PTL DEF OopSpec

(* io.Fetch2Process.Done: GCFetch, which holds its next task back until     *)
(* Done, always waits for exactly the one task that has not said Done.      *)
THEOREM HeldByOne == OopSpec => []FetchHeldByOne
<1>1. FetchInv => FetchHeldByOne
  BY DEF FetchInv
<1>2. QED
  BY <1>1, FetchInvInit, FetchInvStep, PTL DEF OopSpec


-----------------------------------------------------------------------------
(* An object that is no type array is copied once. *)

CopyParts == MarksFollow /\ CopyState /\ ForwardsToCopy

(* Slot i goes on with its task, or ends, and asks for no copy. *)
NoNewCopy(i) ==
  /\ \A j \in OopSlots \ {i} : /\ slot'[j] = slot[j] /\ copySlot'[j] = copySlot[j]
                               /\ copier'[j] = copier[j]
  /\ slotValid(i)' => /\ slotValid(i) /\ slot'[i].task = slot[i].task
                      /\ slot'[i].mark = slot[i].mark
                      /\ copySlot'[i].bypass => copySlot[i].bypass
                      /\ copier'[i].stage # "idle" => copier'[i] = copier[i]
  /\ forward' = forward

(* A step without a new copy keeps marks, copies and forwarding pointers in step. *)
LEMMA CopyKept ==
  ASSUME CopyInv, FetchInv', NEW i \in OopSlots, NoNewCopy(i)
  PROVE  CopyParts'
<1>1. ForwardsToCopy'
  BY DEF CopyInv, ForwardsToCopy, NoNewCopy
<1>2. MarksFollow'
  BY DEF CopyInv, MarksFollow, NoNewCopy, Oop, slotValid, At
<1>3. CASE ~slotValid(i)'
  <2>1. ~copySlot'[i].bypass /\ copier'[i].stage = "idle"
    BY <1>3 DEF FetchInv, SlotShape, Shape, slotValid, At, Copying
  <2>2. CopyState'
    BY <2>1 DEF CopyInv, CopyState, NoNewCopy, Oop
  <2>3. QED
    BY <1>1, <1>2, <2>2 DEF CopyParts
<1>4. CASE slotValid(i)'
  <2>1. CopyState'
    BY <1>4 DEF CopyInv, CopyState, NoNewCopy, Oop
  <2>2. QED
    BY <1>1, <1>2, <2>1 DEF CopyParts
<1>5. QED
  BY <1>3, <1>4

(* Two slots that wait for copies, one of them of an object that is no type  *)
(* array, wait for copies of different objects: both would hold GCFetch.     *)
LEMMA OneCopier ==
  ASSUME CopyInv, NEW i \in OopSlots, NEW j \in OopSlots, i # j, Oop(i) = Oop(j),
         Oop(i) \notin TypeArrays, copier[i].stage # "idle"
  PROVE  copier[j].stage = "idle"
<1> SUFFICES ASSUME copier[j].stage # "idle" PROVE FALSE
  OBVIOUS
<1>1. copySlot[i].inflight /\ copySlot[j].inflight
  BY DEF CopyInv, FetchInv, SlotShape, Shape
<1>2. ~copySlot[i].bypass /\ ~copySlot[j].bypass
  BY DEF CopyInv, CopyState
<1>3. i \in unreleased /\ j \in unreleased
  BY <1>1, <1>2 DEF CopyInv, FetchInv, Unreleased, DoneUnsaid
<1>4. unreleased \subseteq OopSlots
  BY DEF CopyInv, FetchInv, OopTypeOK
<1>5. \A x \in OopSlots : x = i \/ x = j
  BY DEF OopSlots
<1>6. OopSlots \subseteq unreleased
  BY <1>3, <1>5
<1>7. unreleased = OopSlots
  BY <1>4, <1>6, Zenon
<1>8. QED
  BY <1>7 DEF CopyInv, FetchInv, FetchHeldByOne

(* WriteForward installs the first pointer of its object and tells both slots. *)
LEMMA WriteForwardCopies ==
  ASSUME CopyInv, NEW i \in OopSlots, WriteForward(i)
  PROVE  /\ CopyParts'
         /\ \A o \in Objects \ TypeArrays : forward[o] # None => forward'[o] = forward[o]
<1>0. OopTypeOK /\ Shape(i) /\ slot[i] \in SlotType /\ copier[i].stage = "asked"
  BY TypesOf DEF CopyInv, FetchInv, SlotShape, WriteForward, Survivor!Announce
<1>1. slot[i].task \in OopTasks /\ slot[i].task # None /\ Oop(i) \in Objects
  BY <1>0, RegionTypes, ConstantsAssumption
    DEF Shape, SlotType, Address, slotValid, At, Copying
<1>2. /\ forward'[Oop(i)] = slot[i].task
      /\ \A o \in Objects \ {Oop(i)} : forward'[o] = forward[o]
  BY <1>0, <1>1 DEF WriteForward, OopTypeOK
<1>3. \A j \in OopSlots : /\ slot'[j].pc = slot[j].pc /\ slot'[j].task = slot[j].task
                          /\ slot'[j].mark = IF slotValid(j) /\ Oop(j) = Oop(i)
                                               THEN slot[i].task ELSE slot[j].mark
  BY <1>0, TypesOf DEF WriteForward, SlotType
<1>4. /\ copier'[i] = [stage |-> "announced", copy |-> slot[i].task]
      /\ \A j \in OopSlots \ {i} : copier'[j] = copier[j]
  BY <1>0, TypesOf DEF WriteForward, Survivor!Announce
<1>5. copySlot' = copySlot
  BY DEF WriteForward
<1>6. ASSUME NEW j \in OopSlots, slotValid(j) PROVE Oop(j) \in Objects
  BY <1>0, <1>6, TypesOf, RegionTypes DEF CopyInv, FetchInv, SlotShape, Shape, SlotType, Address
<1>7. MarksFollow'
  BY <1>2, <1>3, <1>6 DEF CopyInv, MarksFollow, Oop, slotValid, At
<1>8. CopyState'
  <2>1. ASSUME NEW j \in OopSlots PROVE copySlot'[j].bypass => Oop(j)' \in TypeArrays
    BY <1>3, <1>5, <2>1 DEF CopyInv, CopyState, Oop
  <2>2. ASSUME NEW j \in OopSlots \ {i}, copier[j].stage # "idle"
        PROVE  /\ forward'[Oop(j)] = forward[Oop(j)] \/ forward'[Oop(j)] # None
               /\ Oop(j) \notin TypeArrays => forward'[Oop(j)] = forward[Oop(j)]
    <3>1. slotValid(j)
      BY <2>2 DEF CopyInv, FetchInv, SlotShape, Shape, slotValid, At, Copying
    <3>2. CASE Oop(j) = Oop(i)
      BY <1>0, <1>1, <1>2, <2>2, <3>2, OneCopier
    <3>3. CASE Oop(j) # Oop(i)
      BY <1>2, <1>6, <3>1, <3>3
    <3>4. QED
      BY <3>2, <3>3
  <2>3. ASSUME NEW j \in OopSlots,
               copier'[j].stage = "asked", Oop(j)' \notin TypeArrays
        PROVE  forward'[Oop(j)'] = None
    BY <1>3, <1>4, <2>2, <2>3 DEF CopyInv, CopyState, Oop
  <2>4. ASSUME NEW j \in OopSlots, copier'[j].stage = "announced"
        PROVE  /\ copier'[j].copy = slot'[j].task /\ forward'[Oop(j)'] # None
               /\ Oop(j)' \notin TypeArrays => forward'[Oop(j)'] = slot'[j].task
    <3>1. Oop(j)' = Oop(j)
      BY <1>3 DEF Oop
    <3>2. CASE j = i
      BY <1>1, <1>2, <1>3, <1>4, <3>1, <3>2
    <3>3. CASE j # i
      BY <1>3, <1>4, <2>2, <2>4, <3>1, <3>3 DEF CopyInv, CopyState
    <3>4. QED
      BY <3>2, <3>3
  <2>5. QED
    BY <2>1, <2>3, <2>4 DEF CopyState
<1>9. ForwardsToCopy'
  BY <1>1, <1>2 DEF CopyInv, ForwardsToCopy, Oop
<1>10. ASSUME NEW o \in Objects \ TypeArrays, forward[o] # None PROVE forward'[o] = forward[o]
  <2>1. o # Oop(i)
    BY <1>0, <1>10 DEF CopyInv, CopyState
  <2>2. QED
    BY <1>2, <2>1
<1>11. QED
  BY <1>7, <1>8, <1>9, <1>10 DEF CopyParts


(* SendCopy asks for an object that is not forwarded: its mark word is current. *)
LEMMA SendCopyCopies ==
  ASSUME CopyInv, NEW i \in OopSlots, SendCopy(i)
  PROVE  CopyParts'
<1>0. OopTypeOK /\ slotValid(i) /\ slot[i].mark = None
  BY DEF CopyInv, FetchInv, SendCopy, WantsCopy, slotValid, At
<1>1. \A j \in OopSlots : /\ slot'[j].task = slot[j].task /\ slot'[j].mark = slot[j].mark
                          /\ slotValid(j)' => slotValid(j)
  BY <1>0, TypesOf DEF SendCopy, SlotType, slotValid, At
<1>2. /\ copier'[i].stage = "asked" /\ \A j \in OopSlots \ {i} : copier'[j] = copier[j]
  BY <1>0, TypesOf DEF SendCopy, Survivor!Ask, CopierType
<1>3. \A j \in OopSlots : copySlot'[j].bypass => copySlot[j].bypass
  BY <1>0, TypesOf DEF SendCopy, CopyType
<1>4. forward' = forward
  BY DEF SendCopy, heapVars
<1>5. forward[Oop(i)] = None
  BY <1>0 DEF CopyInv, MarksFollow
<1>6. MarksFollow'
  BY <1>1, <1>4 DEF CopyInv, MarksFollow, Oop
<1>7. CopyState'
  BY <1>1, <1>2, <1>3, <1>4, <1>5 DEF CopyInv, CopyState, Oop
<1>8. ForwardsToCopy'
  BY <1>4 DEF CopyInv, ForwardsToCopy
<1>9. QED
  BY <1>6, <1>7, <1>8 DEF CopyParts

(* The bypass is granted for type arrays only. *)
LEMMA TypeArrayCopies ==
  ASSUME CopyInv, NEW i \in OopSlots, TypeArray(i)
  PROVE  CopyParts'
<1>0. OopTypeOK
  BY DEF CopyInv, FetchInv
<1>1. slot' = slot /\ copier' = copier /\ forward' = forward /\ Oop(i) \in TypeArrays
  BY DEF TypeArray, heapVars
<1>2. \A j \in OopSlots \ {i} : copySlot'[j] = copySlot[j]
  BY <1>0, TypesOf DEF TypeArray
<1>3. QED
  BY <1>1, <1>2 DEF CopyInv, CopyParts, MarksFollow, CopyState, ForwardsToCopy, Oop,
    slotValid, At

(* A task is accepted with the current mark word. *)
LEMMA AcceptTaskCopies ==
  ASSUME CopyInv, FetchInv', NEW t \in OopTasks, AcceptTask(t)
  PROVE  CopyParts'
<1> PICK i \in OopSlots : i = IF slotValid(0) THEN 1 ELSE 0
  BY DEF OopSlots
<1>0. OopTypeOK /\ ~slotValid(i) /\ Shape(i)
  BY DEF CopyInv, FetchInv, SlotShape, AcceptTask, hasFreeSlot, OopSlots
<1>1. /\ slot'[i].task = t /\ slot'[i].mark = forward[SrcOop[t]]
      /\ copySlot'[i] = NoCopy
      /\ \A j \in OopSlots \ {i} : slot'[j] = slot[j] /\ copySlot'[j] = copySlot[j]
  BY <1>0, TypesOf DEF AcceptTask, EmptySlot
<1>2. copier' = copier /\ forward' = forward
  BY DEF AcceptTask, heapVars
<1>3. copier[i].stage = "idle"
  BY <1>0 DEF Shape, slotValid, At, Copying
<1>4. MarksFollow'
  BY <1>1, <1>2 DEF CopyInv, MarksFollow, Oop, slotValid, At
<1>5. CopyState'
  BY <1>1, <1>2, <1>3 DEF CopyInv, CopyState, Oop, NoCopy
<1>6. ForwardsToCopy'
  BY <1>2 DEF CopyInv, ForwardsToCopy
<1>7. QED
  BY <1>4, <1>5, <1>6 DEF CopyParts

(* The humongous bit is no business of copies. *)
LEMMA HumongousNoNewCopy ==
  ASSUME OopTypeOK, NEW i \in OopSlots, NEW hum \in BOOLEAN, HumongousKnown(i, hum), slotValid(i),
         UNCHANGED <<copier, heapVars>>
  PROVE  NoNewCopy(i)
<1>1. CASE finishSlot(i)
  BY <1>1, TypesOf DEF finishSlot, NoNewCopy, EmptySlot, slotValid, At, heapVars
<1>2. CASE /\ slot' = [slot EXCEPT ![i].pc = "READ_DEST_ATTR",
                           ![i].fromMark = FALSE, ![i].humongous = hum]
           /\ UNCHANGED copySlot
  <2>1. /\ slot'[i].task = slot[i].task /\ slot'[i].mark = slot[i].mark
        /\ \A j \in OopSlots \ {i} : slot'[j] = slot[j]
    BY <1>2, TypesOf DEF SlotType
  <2>2. copySlot' = copySlot /\ copier' = copier /\ forward' = forward
    BY <1>2 DEF heapVars
  <2>3. QED
    BY <2>1, <2>2 DEF NoNewCopy
<1>3. CASE /\ slot' = [slot EXCEPT ![i].pc = "WAIT_COPY_OR_MARK", ![i].humongous = hum]
           /\ UNCHANGED copySlot
  <2>1. /\ slot'[i].task = slot[i].task /\ slot'[i].mark = slot[i].mark
        /\ \A j \in OopSlots \ {i} : slot'[j] = slot[j]
    BY <1>3, TypesOf DEF SlotType
  <2>2. copySlot' = copySlot /\ copier' = copier /\ forward' = forward
    BY <1>3 DEF heapVars
  <2>3. QED
    BY <2>1, <2>2 DEF NoNewCopy
<1>4. QED
  BY <1>1, <1>2, <1>3 DEF HumongousKnown

(* All steps of a slot but SendCopy are without a new copy. *)
LEMMA SlotStepCopies ==
  ASSUME CopyInv, NEW i \in OopSlots, SlotStep(i), ~SendCopy(i)
  PROVE  NoNewCopy(i)
<1>0. /\ OopTypeOK /\ slot[i] \in SlotType /\ copySlot[i] \in CopyType
      /\ slot \in [OopSlots -> SlotType] /\ copySlot \in [OopSlots -> CopyType]
  BY TypesOf DEF CopyInv, FetchInv
<1>1. CASE AskRead(i) \/ SendWrite(i)
  BY <1>1 DEF AskRead, SendWrite, NoNewCopy, heapVars, slotValid, At
<1>2. CASE SrcAttrHit(i) \/ DecideCopy(i)
  <2>1. /\ slot'[i].task = slot[i].task /\ slot'[i].mark = slot[i].mark
        /\ \A j \in OopSlots \ {i} : slot'[j] = slot[j]
    BY <1>0, <1>2 DEF SrcAttrHit, DecideCopy, SlotType
  <2>2. /\ copySlot' = copySlot /\ copier' = copier /\ forward' = forward /\ slotValid(i)
    BY <1>2 DEF SrcAttrHit, DecideCopy, heapVars, slotValid, At
  <2>3. QED
    BY <2>1, <2>2 DEF NoNewCopy
<1>3. CASE HeapRegionHit(i)
  <2>1. (heapRegion(i) \in Humongous) \in BOOLEAN
    OBVIOUS
  <2>2. /\ HumongousKnown(i, heapRegion(i) \in Humongous) /\ slotValid(i)
        /\ UNCHANGED <<copier, heapVars>>
    BY <1>3 DEF HeapRegionHit, slotValid, At
  <2>3. QED
    BY <1>0, <2>1, <2>2, HumongousNoNewCopy
<1>4. CASE IgnoreTask(i) \/ SendAop(i)
  BY <1>0, <1>4 DEF IgnoreTask, SendAop, finishSlot, NoNewCopy, EmptySlot, slotValid, At, heapVars
<1>5. CASE UseForward(i)
  <2>1. /\ slot'[i].task = slot[i].task /\ slot'[i].mark = slot[i].mark
        /\ \A j \in OopSlots \ {i} : slot'[j] = slot[j]
    BY <1>0, <1>5 DEF UseForward, SlotType
  <2>2. /\ copySlot' = copySlot /\ copier' = copier /\ forward' = forward /\ slotValid(i)
    BY <1>5 DEF UseForward, heapVars, slotValid, At
  <2>3. QED
    BY <2>1, <2>2 DEF NoNewCopy
<1>6. CASE CopyIsDone(i)
  <2>1. /\ slot'[i].task = slot[i].task /\ slot'[i].mark = slot[i].mark
        /\ copySlot'[i].bypass = FALSE
        /\ \A j \in OopSlots \ {i} : slot'[j] = slot[j] /\ copySlot'[j] = copySlot[j]
    BY <1>0, <1>6 DEF CopyIsDone, SlotType, CopyType
  <2>2. /\ copier' = copier /\ forward' = forward /\ slotValid(i)
    BY <1>6 DEF CopyIsDone, heapVars, slotValid, At
  <2>3. QED
    BY <2>1, <2>2 DEF NoNewCopy
<1>7. CASE LeaveWriteBack(i)
  <2>1. copier' = copier /\ forward' = forward /\ slotValid(i)
    BY <1>7 DEF LeaveWriteBack, heapVars, slotValid, At
  <2>2. CASE finishSlot(i)
    BY <1>0, <2>1, <2>2 DEF finishSlot, NoNewCopy, EmptySlot, slotValid, At
  <2>3. CASE /\ slot' = [slot EXCEPT ![i].pc =
                           IF slot[i].fromMark THEN "READ_HEAP_PTR" ELSE "READ_DEST_ATTR"]
             /\ UNCHANGED copySlot
    <3>1. /\ slot'[i].task = slot[i].task /\ slot'[i].mark = slot[i].mark
          /\ \A j \in OopSlots \ {i} : slot'[j] = slot[j]
      BY <1>0, <2>3 DEF SlotType
    <3>2. QED
      BY <2>1, <2>3, <3>1 DEF NoNewCopy
  <2>4. QED
    BY <1>7, <2>2, <2>3 DEF LeaveWriteBack
<1>8. QED
  BY <1>1, <1>2, <1>3, <1>4, <1>5, <1>6, <1>7 DEF SlotStep

(* All answers are without a new copy. *)
LEMMA AnswerCopies ==
  ASSUME CopyInv, NEW i \in OopSlots, NEW s \in Reads, Answer(i, s)
  PROVE  NoNewCopy(i)
<1>0. /\ OopTypeOK /\ slot \in [OopSlots -> SlotType] /\ copier' = copier /\ forward' = forward
      /\ UNCHANGED heapVars
  BY DEF CopyInv, FetchInv, OopTypeOK, Answer, heapVars
<1>1. CASE HumongousAnswer(i, s)
  <2>1. Value(i, s, heapRegion(i) \in Humongous) \subseteq BOOLEAN
    BY ValueType
  <2>2. PICK hum \in BOOLEAN : HumongousKnown(i, hum)
    BY <1>1, <2>1, Zenon DEF HumongousAnswer
  <2>3. slotValid(i)
    BY <1>1 DEF HumongousAnswer, slotValid, At
  <2>4. QED
    BY <1>0, <2>2, <2>3, HumongousNoNewCopy
<1>2. CASE SrcAttrAnswer(i, s) \/ HeapPtrAnswer(i) \/ DestAttrAnswer(i)
  <2>1. /\ slot'[i].task = slot[i].task /\ slot'[i].mark = slot[i].mark
        /\ \A j \in OopSlots \ {i} : slot'[j] = slot[j]
    BY <1>0, <1>2 DEF SrcAttrAnswer, HeapPtrAnswer, DestAttrAnswer, SlotType
  <2>2. copySlot' = copySlot /\ slotValid(i)
    BY <1>2 DEF SrcAttrAnswer, HeapPtrAnswer, DestAttrAnswer, slotValid, At
  <2>3. QED
    BY <1>0, <2>1, <2>2 DEF NoNewCopy
<1>3. CASE UNCHANGED <<slot, copySlot, issued, cacheVars>>
  BY <1>0, <1>3 DEF NoNewCopy, slotValid, At
<1>4. QED
  BY <1>1, <1>2, <1>3 DEF Answer

(* CopyDone ends a copy. *)
LEMMA CopyDoneCopies ==
  ASSUME CopyInv, NEW i \in OopSlots, CopyDone(i)
  PROVE  NoNewCopy(i)
<1>0. OopTypeOK
  BY DEF CopyInv, FetchInv
<1>1. /\ slot'[i].pc = slot[i].pc /\ slot'[i].task = slot[i].task
      /\ slot'[i].mark = slot[i].mark
      /\ \A j \in OopSlots \ {i} : slot'[j] = slot[j] /\ copySlot'[j] = copySlot[j]
      /\ copySlot'[i].bypass = copySlot[i].bypass
  BY <1>0, TypesOf DEF CopyDone, SlotType, CopyType
<1>2. /\ copier'[i].stage = "idle" /\ \A j \in OopSlots \ {i} : copier'[j] = copier[j]
      /\ forward' = forward
  BY <1>0, TypesOf DEF CopyDone, CopierType, Survivor!Finish, Survivor!Idle, heapVars
<1>3. QED
  BY <1>1, <1>2 DEF NoNewCopy, slotValid, At

(* CopyInv holds at first. *)
LEMMA CopyInvInit == OopInit => CopyInv
<1> SUFFICES ASSUME OopInit PROVE CopyInv
  OBVIOUS
<1>1. copier = [i \in OopSlots |-> [stage |-> "idle", copy |-> None]]
  BY DEF OopInit, Survivor!Init, Survivor!Idle
<1>2. FetchInv
  BY FetchInvInit
<1>3. MarksFollow /\ CopyState /\ ForwardsToCopy
  BY <1>1 DEF OopInit, MarksFollow, CopyState, ForwardsToCopy, slotValid, At, EmptySlot, NoCopy
<1>4. QED
  BY <1>2, <1>3 DEF CopyInv

(* CopyInv is inductive, and no step changes the pointer of a plain object. *)
LEMMA CopyInvStep ==
  ASSUME CopyInv, [OopNext]_oopVars
  PROVE  /\ CopyInv'
         /\ \A o \in Objects \ TypeArrays : forward[o] # None => forward'[o] = forward[o]
<1>0. FetchInv /\ FetchInv'
  BY FetchInvStep DEF CopyInv
<1>1. CASE \E t \in OopTasks : AcceptTask(t)
  BY <1>0, <1>1, AcceptTaskCopies DEF CopyInv, CopyParts, AcceptTask, heapVars
<1>2. CASE \E i \in OopSlots : WriteForward(i)
  BY <1>0, <1>2, WriteForwardCopies DEF CopyInv, CopyParts
<1>3. CASE \E i \in OopSlots : SendCopy(i) \/ TypeArray(i)
  <2>1. CopyParts'
    BY <1>3, SendCopyCopies, TypeArrayCopies
  <2>2. forward' = forward
    BY <1>3 DEF SendCopy, TypeArray, heapVars
  <2>3. QED
    BY <1>0, <2>1, <2>2 DEF CopyInv, CopyParts
<1>4. CASE \E i \in OopSlots : NoNewCopy(i)
  <2>1. CopyParts'
    BY <1>0, <1>4, CopyKept
  <2>2. forward' = forward
    BY <1>4 DEF NoNewCopy
  <2>3. QED
    BY <1>0, <2>1, <2>2 DEF CopyInv, CopyParts
<1>5. CASE UNCHANGED oopVars
  <2>1. slot' = slot /\ copySlot' = copySlot /\ copier' = copier /\ forward' = forward
    BY <1>5 DEF oopVars, slotVars, heapVars
  <2>2. CopyParts'
    BY <2>1 DEF CopyInv, CopyParts, MarksFollow, CopyState, ForwardsToCopy, Oop, slotValid, At
  <2>3. QED
    BY <1>0, <2>1, <2>2 DEF CopyInv, CopyParts
<1>6. QED
  BY <1>1, <1>2, <1>3, <1>4, <1>5, SlotStepCopies, AnswerCopies, CopyDoneCopies DEF OopNext

(* An object that is no type array is copied once: its mark word, once it   *)
(* points to a copy, points to that copy for good.                          *)
THEOREM ObjectCopiedOnce == OopSpec => CopiedOnce
<1>1. CopyInv /\ [OopNext]_oopVars => CopyInv'
  BY CopyInvStep
<1>2. CopyInv /\ [OopNext]_oopVars =>
        [\A o \in Objects \ TypeArrays : forward[o] # None => forward'[o] = forward[o]]_oopVars
  BY CopyInvStep
<1>3. QED
  BY <1>1, <1>2, CopyInvInit, PTL DEF OopSpec, CopiedOnce

-----------------------------------------------------------------------------
(* Fields and cards, as long as no slot went on while its read was out.      *)

\* What is claimed of a task that is over.
TaskFine(t) ==
  /\ IF InCsetTask(t) THEN RightAddress(t, field[t]) ELSE field[t] = None
  /\ t \in aopSent <=> InCsetTask(t) /\ Crosses(t, field[t])
AllFine == \A t \in OopTasks : Done(t) => TaskFine(t)

ReadOf(i) ==
  /\ asked[i] = IF issued[i] /\ slot[i].pc \in Reads THEN {slot[i].pc} ELSE {}
  /\ issued[i] => slot[i].pc \in Reads \cup {"WRITE_BACK"}
  /\ issued[i] /\ At(i, "READ_SRC_ATTR") => ~Hit(i)

KnowParts == OwnRead /\ SlotsKnow /\ Untouched /\ AllFine
KnowInv == ~overtaken => KnowParts

\* Slot i does something about its task t: nothing else changes.
Mine(i, t) ==
  /\ slotValid(i) /\ slot[i].task = t
  /\ \A j \in OopSlots \ {i} : /\ slot'[j] = slot[j] /\ copySlot'[j] = copySlot[j]
                               /\ issued'[j] = issued[j] /\ asked'[j] = asked[j]
                               /\ At(j, "READ_SRC_ATTR") => regionAttrCache' = regionAttrCache
  /\ forward' = forward /\ todo' = todo
  /\ \A u \in OopTasks \ {t} : field'[u] = field[u] /\ (u \in aopSent' <=> u \in aopSent)

\* A slot at work has a task that is one of GCFetch's.
LEMMA TaskOf ==
  ASSUME CopyInv, NEW i \in OopSlots, slotValid(i)
  PROVE  /\ slot[i] \in SlotType /\ copySlot[i] \in CopyType /\ slot[i].task \in OopTasks
         /\ slot[i].task \notin todo /\ Shape(i) /\ Oop(i) = SrcOop[slot[i].task]
  BY TypesOf, ConstantsAssumption
     DEF CopyInv, FetchInv, SlotShape, Shape, SlotType, Address, Oop

\* What a slot knows stays true while it, its task and what it knows of stay.
LEMMA KnowsStays ==
  ASSUME CopyInv, NEW j \in OopSlots, slotValid(j), Knows(j), ReadOf(j), NEW u \in OopTasks,
         slot[j].task = u,
         slot'[j] = slot[j], copySlot'[j] = copySlot[j], issued'[j] = issued[j],
         asked'[j] = asked[j],
         At(j, "READ_SRC_ATTR") => regionAttrCache' = regionAttrCache,
         field'[u] = field[u], u \in aopSent' <=> u \in aopSent, forward' = forward
  PROVE  Knows(j)' /\ ReadOf(j)'
<1>1. \A a : RightAddress(u, a)' <=> RightAddress(u, a)
  BY DEF RightAddress
<1>2. Knows(j)'
  BY <1>1 DEF Knows, InCsetTask, Crosses
<1>3. At(j, "READ_SRC_ATTR") => Hit(j)' = Hit(j)
  BY DEF Hit, At, Cached, srcRegion, Oop
<1>. QED  BY <1>2, <1>3 DEF ReadOf, At

LEMMA MineKept ==
  ASSUME CopyInv, KnowParts, NEW i \in OopSlots, NEW t \in OopTasks, Mine(i, t), ReadOf(i)',
         \/ slotValid(i)' /\ slot'[i].task = t /\ Knows(i)'
         \/ slot'[i] = EmptySlot /\ TaskFine(t)'
  PROVE  KnowParts'
<1>1. ASSUME slotValid(i)' PROVE Knows(i)'
  <2>1. slot'[i] = EmptySlot => ~slotValid(i)'
    BY DEF slotValid, At, EmptySlot
  <2>. QED  BY <1>1, <2>1, Zenon
<1>2. ASSUME NEW j \in OopSlots \ {i}, slotValid(j) PROVE Knows(j)' /\ ReadOf(j)'
  <2>1. slot[j].task \in OopTasks /\ slot[j].task # t
    BY <1>2, TaskOf DEF CopyInv, FetchInv, DifferentTasks, Mine, OopSlots
  <2>2. Knows(j) /\ ReadOf(j)
    BY <1>2 DEF KnowParts, SlotsKnow, OwnRead, ReadOf
  <2>. QED  BY <1>2, <2>1, <2>2, KnowsStays DEF Mine
<1>3. ASSUME NEW j \in OopSlots \ {i} PROVE ReadOf(j)'
  <2>1. CASE slotValid(j)
    BY <1>2, <2>1
  <2>2. CASE ~slotValid(j)
    BY <2>2 DEF KnowParts, OwnRead, ReadOf, Mine, slotValid, At, Reads
  <2>. QED  BY <2>1, <2>2
<1>4. ASSUME NEW j \in OopSlots \ {i} PROVE slotValid(j)' <=> slotValid(j)
  BY DEF Mine, slotValid, At
<1>5. OwnRead'
  BY <1>3 DEF OwnRead, ReadOf
<1>6. SlotsKnow'
  BY <1>1, <1>2, <1>4 DEF SlotsKnow
<1>7. Untouched'
  <2>1. t \notin todo /\ todo \subseteq OopTasks
    BY TaskOf DEF Mine, CopyInv, FetchInv, OopTypeOK
  <2>. QED  BY <2>1 DEF KnowParts, Untouched, Mine
<1>8. AllFine'
  <2>. SUFFICES ASSUME NEW u \in OopTasks, Done(u)' PROVE TaskFine(u)'
    BY DEF AllFine
  <2>1. CASE u = t
    BY <2>1 DEF Done, Held
  <2>2. CASE u # t
    <3>1. Done(u)
      BY <2>2 DEF Done, Held, Mine
    <3>2. TaskFine(u)
      BY <3>1 DEF KnowParts, AllFine
    <3>3. field'[u] = field[u] /\ (u \in aopSent' <=> u \in aopSent) /\ forward' = forward
      BY <2>2 DEF Mine
    <3>. QED  BY <3>2, <3>3 DEF TaskFine, RightAddress, Crosses, InCsetTask
  <2>. QED  BY <2>1, <2>2
<1>. QED  BY <1>5, <1>6, <1>7, <1>8 DEF KnowParts

\* What is known of a slot at work.
LEMMA WorksOn ==
  ASSUME CopyInv, KnowParts, NEW i \in OopSlots, slotValid(i)
  PROVE  /\ slot \in [OopSlots -> SlotType] /\ slot[i] \in SlotType
         /\ copySlot \in [OopSlots -> CopyType] /\ copySlot[i] \in CopyType
         /\ issued \in [OopSlots -> BOOLEAN] /\ asked \in [OopSlots -> SUBSET Reads]
         /\ field \in [OopTasks -> Address]
         /\ slot[i].task \in OopTasks /\ Shape(i) /\ Oop(i) = SrcOop[slot[i].task]
         /\ Knows(i) /\ ReadOf(i)
BY TaskOf DEF KnowParts, SlotsKnow, OwnRead, ReadOf, CopyInv, FetchInv, OopTypeOK

\* The reads of a slot.
LEMMA AskReadKnows ==
  ASSUME CopyInv, CopyInv', KnowParts, NEW i \in OopSlots, AskRead(i) PROVE KnowParts'
<1>. DEFINE t == slot[i].task
<1>0. slotValid(i) /\ slot[i].pc \in Reads
  BY DEF AskRead, slotValid, At, Reads
<1>1. t \in OopTasks /\ Knows(i) /\ ReadOf(i) /\ asked \in [OopSlots -> SUBSET Reads]
      /\ issued \in [OopSlots -> BOOLEAN]
  BY <1>0, WorksOn
<1>2. Mine(i, t) /\ slot' = slot /\ copySlot' = copySlot /\ field' = field /\ aopSent' = aopSent
      /\ forward' = forward
  BY <1>0, <1>1 DEF AskRead, Mine, heapVars, fetchVars, cacheVars
<1>3. ReadOf(i)'
  <2>1. Hit(i)' = Hit(i)
    BY DEF AskRead, cacheVars, Hit, At, srcRegion, heapRegion, Oop, Cached
  <2>2. asked'[i] = {slot'[i].pc} /\ issued'[i]
    BY <1>0, <1>1, <1>2 DEF AskRead, ReadOf
  <2>. QED  BY <1>0, <1>2, <2>1, <2>2 DEF AskRead, ReadOf
<1>4. Knows(i)'
  BY <1>0, <1>1, <1>2 DEF Knows, RightAddress, Crosses, InCsetTask, Reads
<1>. QED  BY <1>0, <1>1, <1>2, <1>3, <1>4, MineKept DEF slotValid, At

\* A slot whose next state reads nothing yet.
LEMMA NoRead ==
  ASSUME NEW i \in OopSlots, ~issued'[i], asked'[i] = {}
  PROVE  ReadOf(i)'
BY DEF ReadOf

LEMMA NothingOut ==
  ASSUME NEW i \in OopSlots, ReadOf(i), slot[i].pc \notin Reads \cup {"WRITE_BACK"}
  PROVE  ~issued[i] /\ asked[i] = {}
BY DEF ReadOf

LEMMA SrcAttrHitKnows ==
  ASSUME CopyInv, CopyInv', KnowParts, NEW i \in OopSlots, SrcAttrHit(i)
  PROVE  KnowParts'
<1>. DEFINE t == slot[i].task
<1>0. slotValid(i) /\ slot[i].pc = "READ_SRC_ATTR"
  BY DEF SrcAttrHit, slotValid, At
<1>1. /\ t \in OopTasks /\ Knows(i) /\ ReadOf(i) /\ slot[i] \in SlotType /\ Shape(i)
      /\ slot \in [OopSlots -> SlotType] /\ Oop(i) = SrcOop[t]
  BY <1>0, WorksOn
<1>2. slot'[i] = [slot[i] EXCEPT !.pc = "DECIDE", !.inCset = InCsetTask(t)]
  BY <1>1 DEF SrcAttrHit, srcRegion, InCsetTask
<1>3. Mine(i, t) /\ copySlot' = copySlot /\ field' = field /\ aopSent' = aopSent
      /\ forward' = forward /\ issued' = issued /\ asked' = asked
  BY <1>0, <1>1 DEF SrcAttrHit, Mine, heapVars, fetchVars, cacheVars
<1>4. ReadOf(i)'
  <2>1. ~issued[i] /\ asked[i] = {}
    BY <1>0, <1>1 DEF ReadOf, At, SrcAttrHit
  <2>. QED  BY <1>3, <2>1, NoRead
<1>5. Knows(i)' /\ slotValid(i)' /\ slot'[i].task = t
  BY <1>0, <1>1, <1>2, <1>3 DEF Knows, RightAddress, Crosses, InCsetTask, SlotType, slotValid, At,
     Shape, Copying
<1>. QED  BY <1>1, <1>3, <1>4, <1>5, MineKept

\* The humongous bit of the field is known, and right.
LEMMA HumongousKnows ==
  ASSUME CopyInv, CopyInv', KnowParts, NEW i \in OopSlots, NEW hum \in BOOLEAN,
         slot[i].pc \in {"READ_HEAP_PTR", "READ_HUMONGOUS"},
         hum <=> heapRegion(i) \in Humongous, HumongousKnown(i, hum), Mine(i, slot[i].task),
         UNCHANGED heapVars, ~issued'[i], asked'[i] = {}
  PROVE  KnowParts'
<1>. DEFINE t == slot[i].task
<1>0. slotValid(i)
  BY DEF slotValid, At
<1>1. /\ t \in OopTasks /\ Knows(i) /\ slot[i] \in SlotType /\ Shape(i)
      /\ slot \in [OopSlots -> SlotType] /\ copySlot \in [OopSlots -> CopyType]
  BY <1>0, WorksOn
<1>2. hum <=> FieldRegion[t] \in Humongous
  BY DEF heapRegion
<1>3. field' = field /\ aopSent' = aopSent /\ forward' = forward
  BY DEF heapVars
<1>4. CASE slot[i].fromMark /\ hum
  <2>1. slot'[i] = EmptySlot
    BY <1>1, <1>4 DEF HumongousKnown, finishSlot
  <2>2. PICK u \in OopTasks : u = t
    BY <1>1
  <2>3. TaskFine(u)'
    BY <1>1, <1>2, <1>3, <1>4, <2>2 DEF TaskFine, Knows, RightAddress, Crosses, InCsetTask
  <2>. QED  BY <2>1, <2>2, <2>3, NoRead, MineKept
<1>5. CASE slot[i].fromMark /\ ~hum
  <2>1. slot'[i] = [slot[i] EXCEPT !.pc = "READ_DEST_ATTR", !.fromMark = FALSE, !.humongous = hum]
        /\ copySlot' = copySlot
    BY <1>1, <1>5 DEF HumongousKnown
  <2>2. Knows(i)' /\ slotValid(i)' /\ slot'[i].task = t
    BY <1>1, <1>2, <1>3, <1>5, <2>1
       DEF Knows, RightAddress, Crosses, InCsetTask, SlotType, slotValid, At, Shape, Copying
  <2>. QED  BY <1>1, <2>2, NoRead, MineKept
<1>6. CASE ~slot[i].fromMark
  <2>1. slot'[i] = [slot[i] EXCEPT !.pc = "WAIT_COPY_OR_MARK", !.humongous = hum]
        /\ copySlot' = copySlot
    BY <1>1, <1>6 DEF HumongousKnown
  <2>2. Knows(i)' /\ slotValid(i)' /\ slot'[i].task = t
    BY <1>1, <1>2, <1>3, <1>6, <2>1
       DEF Knows, RightAddress, Crosses, InCsetTask, SlotType, slotValid, At, Shape, Copying
  <2>. QED  BY <1>1, <2>2, NoRead, MineKept
<1>. QED  BY <1>4, <1>5, <1>6

\* A hit of the region cache counts as long as nothing was read.
LEMMA HeapRegionHitKnows ==
  ASSUME CopyInv, CopyInv', KnowParts, NEW i \in OopSlots, HeapRegionHit(i), ~overtaken'
  PROVE  KnowParts'
<1>. DEFINE t == slot[i].task
<1>0. slotValid(i) /\ slot[i].pc = "READ_HEAP_PTR" /\ ~issued[i]
  BY DEF HeapRegionHit, slotValid, At
<1>1. /\ t \in OopTasks /\ Knows(i) /\ ReadOf(i) /\ slot \in [OopSlots -> SlotType]
      /\ copySlot \in [OopSlots -> CopyType] /\ asked \in [OopSlots -> SUBSET Reads]
  BY <1>0, WorksOn
<1>2. asked'[i] = {} /\ ~issued'[i] /\ \A j \in OopSlots \ {i} : asked'[j] = asked[j]
  BY <1>0, <1>1 DEF HeapRegionHit, ReadOf
<1>3. \A j \in OopSlots \ {i} : slot'[j] = slot[j] /\ copySlot'[j] = copySlot[j]
  BY <1>1 DEF HeapRegionHit, HumongousKnown, finishSlot
<1>4. Mine(i, t)
  BY <1>0, <1>2, <1>3 DEF HeapRegionHit, Mine, heapVars, fetchVars, cacheVars
<1>5. PICK hum \in BOOLEAN : hum = (heapRegion(i) \in Humongous)
  <2>1. (heapRegion(i) \in Humongous) \in BOOLEAN
    OBVIOUS
  <2>. QED  BY <2>1, Zenon
<1>6. HumongousKnown(i, hum) /\ UNCHANGED heapVars
  BY <1>5 DEF HeapRegionHit
<1>. QED  BY <1>0, <1>2, <1>4, <1>5, <1>6, HumongousKnows

\* While a slot is in a state of the look-up no other one is.
LEMMA OneLooksUp ==
  ASSUME CopyInv, NEW i \in OopSlots, NEW j \in OopSlots, i # j, slot[i].pc \in Lookup
  PROVE  slot[j].pc \notin Lookup
<1>. SUFFICES ASSUME slot[j].pc \in Lookup PROVE FALSE
  OBVIOUS
<1>1. unreleased \subseteq OopSlots /\ i \in unreleased /\ j \in unreleased
  BY DEF CopyInv, FetchInv, OopTypeOK, Unreleased, DoneUnsaid
<1>2. \A x \in OopSlots : x = i \/ x = j
  BY DEF OopSlots
<1>3. unreleased = OopSlots
  BY <1>1, <1>2, Zenon
<1>. QED  BY <1>3 DEF CopyInv, FetchInv, FetchHeldByOne

\* An answer is the one its slot waits for.
LEMMA AnswerKnows ==
  ASSUME CopyInv, CopyInv', KnowParts, NEW i \in OopSlots, NEW s \in Reads, Answer(i, s)
  PROVE  KnowParts'
<1>. DEFINE t == slot[i].task
<1>0. s \in asked[i] /\ slotValid(i) /\ slot[i].pc = s /\ issued[i]
  BY DEF Answer, KnowParts, OwnRead, slotValid, At, Reads
<1>1. /\ t \in OopTasks /\ Knows(i) /\ ReadOf(i) /\ slot[i] \in SlotType /\ Shape(i)
      /\ slot \in [OopSlots -> SlotType] /\ Oop(i) = SrcOop[t]
      /\ copySlot \in [OopSlots -> CopyType]
      /\ issued \in [OopSlots -> BOOLEAN] /\ asked \in [OopSlots -> SUBSET Reads]
  BY <1>0, WorksOn
<1>2. /\ asked'[i] = {} /\ ~issued'[i] /\ UNCHANGED <<fetchVars, heapVars>>
      /\ \A j \in OopSlots \ {i} : asked'[j] = asked[j] /\ issued'[j] = issued[j]
  BY <1>0, <1>1 DEF Answer, ReadOf
<1>3. field' = field /\ aopSent' = aopSent /\ forward' = forward /\ todo' = todo
  BY <1>2 DEF heapVars, fetchVars
<1>4. \/ SrcAttrAnswer(i, s) \/ HeapPtrAnswer(i) \/ HumongousAnswer(i, s) \/ DestAttrAnswer(i)
  BY <1>0 DEF Answer
<1>5. CASE SrcAttrAnswer(i, s)
  <2>1. slot'[i] = [slot[i] EXCEPT !.pc = "DECIDE", !.inCset = InCsetTask(t)]
    BY <1>0, <1>1, <1>5 DEF SrcAttrAnswer, Value, At, srcRegion, InCsetTask
  <2>2. copySlot' = copySlot /\ \A j \in OopSlots \ {i} : slot'[j] = slot[j]
    BY <1>1, <1>5 DEF SrcAttrAnswer
  <2>3. \A j \in OopSlots \ {i} : ~At(j, "READ_SRC_ATTR")
    BY <1>0, <1>5, OneLooksUp DEF SrcAttrAnswer, At, Lookup
  <2>4. Mine(i, t)
    BY <1>0, <1>2, <1>3, <2>2, <2>3 DEF Mine
  <2>5. Knows(i)' /\ slotValid(i)' /\ slot'[i].task = t
    BY <1>0, <1>1, <1>3, <1>5, <2>1, <2>2, ZenonT(30) DEF Knows, RightAddress, Crosses, InCsetTask,
       SlotType, slotValid, At, Shape, Copying, SrcAttrAnswer
  <2>. QED  BY <1>1, <1>2, <2>4, <2>5, NoRead, MineKept
<1>6. CASE HeapPtrAnswer(i)
  <2>1. /\ slot'[i] = [slot[i] EXCEPT !.pc = "READ_HUMONGOUS"] /\ slot[i].pc = "READ_HEAP_PTR"
        /\ copySlot' = copySlot /\ \A j \in OopSlots \ {i} : slot'[j] = slot[j]
    BY <1>1, <1>6 DEF HeapPtrAnswer, At
  <2>2. Mine(i, t)
    BY <1>0, <1>2, <1>3, <1>6, <2>1 DEF Mine, HeapPtrAnswer, cacheVars
  <2>3. Knows(i)' /\ slotValid(i)' /\ slot'[i].task = t
    BY <1>1, <1>3, <2>1 DEF Knows, RightAddress, Crosses, InCsetTask, SlotType, slotValid, At
  <2>. QED  BY <1>1, <1>2, <2>2, <2>3, NoRead, MineKept
<1>7. CASE HumongousAnswer(i, s)
  <2>1. PICK hum \in BOOLEAN : hum = (heapRegion(i) \in Humongous)
    <3>1. (heapRegion(i) \in Humongous) \in BOOLEAN
      OBVIOUS
    <3>. QED  BY <3>1, Zenon
  <2>2. HumongousKnown(i, hum)
    BY <1>0, <1>7, <2>1 DEF HumongousAnswer, Value, At
  <2>3. \A j \in OopSlots \ {i} : slot'[j] = slot[j] /\ copySlot'[j] = copySlot[j]
    BY <1>1, <2>2 DEF HumongousKnown, finishSlot
  <2>4. Mine(i, t)
    BY <1>0, <1>2, <1>3, <1>7, <2>3 DEF Mine, HumongousAnswer
  <2>5. slot[i].pc = "READ_HUMONGOUS"
    BY <1>7 DEF HumongousAnswer, At
  <2>. QED  BY <1>2, <2>1, <2>2, <2>4, <2>5, HumongousKnows
<1>8. CASE DestAttrAnswer(i)
  <2>1. /\ slot'[i] = [slot[i] EXCEPT !.pc = "SEND_AOP"] /\ slot[i].pc = "READ_DEST_ATTR"
        /\ copySlot' = copySlot /\ \A j \in OopSlots \ {i} : slot'[j] = slot[j]
    BY <1>1, <1>8 DEF DestAttrAnswer, At
  <2>2. Mine(i, t)
    BY <1>0, <1>2, <1>3, <1>8, <2>1 DEF Mine, DestAttrAnswer, cacheVars
  <2>3. Knows(i)' /\ slotValid(i)' /\ slot'[i].task = t
    BY <1>1, <1>3, <2>1 DEF Knows, RightAddress, Crosses, InCsetTask, SlotType, slotValid, At
  <2>. QED  BY <1>1, <1>2, <2>2, <2>3, NoRead, MineKept
<1>. QED  BY <1>4, <1>5, <1>6, <1>7, <1>8

\* Outside the collected regions: over, and nothing written.
LEMMA IgnoreTaskKnows ==
  ASSUME CopyInv, CopyInv', KnowParts, NEW i \in OopSlots, IgnoreTask(i) PROVE KnowParts'
<1>. DEFINE t == slot[i].task
<1>0. slotValid(i) /\ slot[i].pc = "DECIDE" /\ ~slot[i].inCset
  BY DEF IgnoreTask, slotValid, At
<1>1. /\ t \in OopTasks /\ Knows(i) /\ ReadOf(i) /\ slot[i] \in SlotType /\ Shape(i)
      /\ slot \in [OopSlots -> SlotType] /\ copySlot \in [OopSlots -> CopyType]
  BY <1>0, WorksOn
<1>2. /\ slot'[i] = EmptySlot /\ \A j \in OopSlots \ {i} : slot'[j] = slot[j]
      /\ \A j \in OopSlots \ {i} : copySlot'[j] = copySlot[j]
      /\ issued' = issued /\ asked' = asked /\ regionAttrCache' = regionAttrCache
      /\ field' = field /\ aopSent' = aopSent /\ forward' = forward /\ todo' = todo
  BY <1>1 DEF IgnoreTask, finishSlot, releaseFetch, cacheVars, heapVars
<1>3. Mine(i, t)
  BY <1>0, <1>2 DEF Mine
<1>4. ReadOf(i)'
  BY <1>0, <1>1, <1>2, NothingOut, NoRead DEF Reads
<1>5. PICK u \in OopTasks : u = t
  BY <1>1
<1>6. TaskFine(u)'
  <2>1. field[u] = None /\ u \notin aopSent /\ ~InCsetTask(u)
    BY <1>0, <1>1, <1>5 DEF Knows, Shape
  <2>. QED  BY <1>2, <2>1 DEF TaskFine, InCsetTask
<1>. QED  BY <1>2, <1>3, <1>4, <1>5, <1>6, MineKept

\* The mark word the slot has is the one in memory.
LEMMA UseForwardKnows ==
  ASSUME CopyInv, CopyInv', KnowParts, NEW i \in OopSlots, UseForward(i) PROVE KnowParts'
<1>. DEFINE t == slot[i].task
<1>0. slotValid(i) /\ slot[i].pc \in {"DECIDE", "COPY_SURV_REQ"} /\ slot[i].mark # None
  BY DEF UseForward, slotValid, At
<1>1. /\ t \in OopTasks /\ Knows(i) /\ ReadOf(i) /\ slot[i] \in SlotType /\ Shape(i)
      /\ slot \in [OopSlots -> SlotType] /\ Oop(i) = SrcOop[t]
  BY <1>0, WorksOn
<1>2. /\ slot'[i] = [slot[i] EXCEPT !.pc = "WRITE_BACK", !.dest = slot[i].mark, !.fromMark = TRUE]
      /\ \A j \in OopSlots \ {i} : slot'[j] = slot[j]
      /\ issued' = issued /\ asked' = asked /\ regionAttrCache' = regionAttrCache
      /\ copySlot' = copySlot
      /\ field' = field /\ aopSent' = aopSent /\ forward' = forward /\ todo' = todo
  BY <1>1 DEF UseForward, releaseFetch, cacheVars, heapVars
<1>3. Mine(i, t)
  BY <1>0, <1>2 DEF Mine
<1>4. ~issued[i] /\ ReadOf(i)'
  BY <1>0, <1>1, <1>2, NothingOut, NoRead DEF Reads
<1>5. RightAddress(t, slot[i].mark)
  <2>1. slot[i].mark = forward[SrcOop[t]] /\ SrcOop[t] \in Objects
    BY <1>0, <1>1, ConstantsAssumption DEF CopyInv, MarksFollow
  <2>. QED  BY <1>0, <2>1 DEF RightAddress, CopyInv, ForwardsToCopy
<1>6. slot[i].inCset /\ InCsetTask(t)
  BY <1>0, <1>1 DEF Knows, UseForward, At
<1>7. Knows(i)' /\ slotValid(i)' /\ slot'[i].task = t
  BY <1>0, <1>1, <1>2, <1>4, <1>5, <1>6
     DEF Knows, RightAddress, Crosses, InCsetTask, SlotType, slotValid, At
<1>. QED  BY <1>1, <1>3, <1>4, <1>7, MineKept

LEMMA DecideCopyKnows ==
  ASSUME CopyInv, CopyInv', KnowParts, NEW i \in OopSlots, DecideCopy(i) PROVE KnowParts'
<1>. DEFINE t == slot[i].task
<1>0. slotValid(i) /\ slot[i].pc = "DECIDE" /\ slot[i].inCset
  BY DEF DecideCopy, slotValid, At
<1>1. /\ t \in OopTasks /\ Knows(i) /\ ReadOf(i) /\ slot[i] \in SlotType /\ Shape(i)
      /\ slot \in [OopSlots -> SlotType]
  BY <1>0, WorksOn
<1>2. /\ slot'[i] = [slot[i] EXCEPT !.pc = "COPY_SURV_REQ", !.fromMark = FALSE]
      /\ \A j \in OopSlots \ {i} : slot'[j] = slot[j]
      /\ issued' = issued /\ asked' = asked /\ regionAttrCache' = regionAttrCache
      /\ copySlot' = copySlot
      /\ field' = field /\ aopSent' = aopSent /\ forward' = forward /\ todo' = todo
  BY <1>1 DEF DecideCopy, fetchVars, cacheVars, heapVars
<1>3. Mine(i, t)
  BY <1>0, <1>2 DEF Mine
<1>4. ReadOf(i)'
  BY <1>0, <1>1, <1>2, NothingOut, NoRead DEF Reads
<1>5. Knows(i)' /\ slotValid(i)' /\ slot'[i].task = t
  BY <1>0, <1>1, <1>2
     DEF Knows, RightAddress, Crosses, InCsetTask, SlotType, slotValid, At, Shape, Copying
<1>. QED  BY <1>1, <1>3, <1>4, <1>5, MineKept

LEMMA SendCopyKnows ==
  ASSUME CopyInv, CopyInv', KnowParts, NEW i \in OopSlots, SendCopy(i) PROVE KnowParts'
<1>. DEFINE t == slot[i].task
<1>0. slotValid(i) /\ slot[i].pc = "COPY_SURV_REQ"
  BY DEF SendCopy, WantsCopy, slotValid, At
<1>1. /\ t \in OopTasks /\ Knows(i) /\ ReadOf(i) /\ slot[i] \in SlotType /\ Shape(i)
      /\ slot \in [OopSlots -> SlotType] /\ copySlot \in [OopSlots -> CopyType]
      /\ copySlot[i] \in CopyType
  BY <1>0, WorksOn
<1>2. /\ slot'[i] = [slot[i] EXCEPT !.pc = "READ_HEAP_PTR"]
      /\ \A j \in OopSlots \ {i} : slot'[j] = slot[j] /\ copySlot'[j] = copySlot[j]
      /\ issued' = issued /\ asked' = asked /\ regionAttrCache' = regionAttrCache
      /\ copySlot'[i].done = copySlot[i].done
      /\ field' = field /\ aopSent' = aopSent /\ forward' = forward /\ todo' = todo
  BY <1>1 DEF SendCopy, fetchVars, cacheVars, heapVars, CopyType
<1>3. Mine(i, t)
  BY <1>0, <1>2 DEF Mine
<1>4. ReadOf(i)'
  BY <1>0, <1>1, <1>2, NothingOut, NoRead DEF Reads
<1>5. Knows(i)' /\ slotValid(i)' /\ slot'[i].task = t
  BY <1>0, <1>1, <1>2
     DEF Knows, RightAddress, Crosses, InCsetTask, SlotType, slotValid, At, Shape, Copying
<1>. QED  BY <1>1, <1>3, <1>4, <1>5, MineKept

\* The address that came back for this slot's owner number is what it writes.
LEMMA CopyIsDoneKnows ==
  ASSUME CopyInv, CopyInv', KnowParts, NEW i \in OopSlots, CopyIsDone(i) PROVE KnowParts'
<1>. DEFINE t == slot[i].task
<1>0. slotValid(i) /\ slot[i].pc = "WAIT_COPY_OR_MARK" /\ copySlot[i].done
  BY DEF CopyIsDone, slotValid, At
<1>1. /\ t \in OopTasks /\ Knows(i) /\ ReadOf(i) /\ slot[i] \in SlotType /\ Shape(i)
      /\ slot \in [OopSlots -> SlotType] /\ copySlot \in [OopSlots -> CopyType]
      /\ copySlot[i] \in CopyType
  BY <1>0, WorksOn
<1>2. /\ slot'[i] = [slot[i] EXCEPT !.pc = "WRITE_BACK"]
      /\ \A j \in OopSlots \ {i} : slot'[j] = slot[j] /\ copySlot'[j] = copySlot[j]
      /\ issued' = issued /\ asked' = asked /\ regionAttrCache' = regionAttrCache
      /\ field' = field /\ aopSent' = aopSent /\ forward' = forward /\ todo' = todo
  BY <1>1 DEF CopyIsDone, releaseFetch, fetchVars, cacheVars, heapVars
<1>3. ~copySlot'[i].done
  BY <1>1 DEF CopyIsDone, CopyType
<1>4. Mine(i, t)
  BY <1>0, <1>2 DEF Mine
<1>5. ~issued[i] /\ ReadOf(i)'
  BY <1>0, <1>1, <1>2, NothingOut, NoRead DEF Reads
<1>6. Knows(i)' /\ slotValid(i)' /\ slot'[i].task = t
  BY <1>0, <1>1, <1>2, <1>3, <1>5
     DEF Knows, RightAddress, Crosses, InCsetTask, SlotType, slotValid, At, Shape, Copying
<1>. QED  BY <1>1, <1>4, <1>5, <1>6, MineKept

LEMMA SendWriteKnows ==
  ASSUME CopyInv, CopyInv', KnowParts, NEW i \in OopSlots, SendWrite(i) PROVE KnowParts'
<1>. DEFINE t == slot[i].task
<1>0. slotValid(i) /\ slot[i].pc = "WRITE_BACK" /\ ~issued[i]
  BY DEF SendWrite, slotValid, At
<1>1. /\ t \in OopTasks /\ Knows(i) /\ ReadOf(i) /\ slot[i] \in SlotType /\ Shape(i)
      /\ issued \in [OopSlots -> BOOLEAN] /\ field \in [OopTasks -> Address]
  BY <1>0, WorksOn
<1>2. /\ slot' = slot /\ copySlot' = copySlot /\ asked' = asked /\ issued'[i]
      /\ \A j \in OopSlots \ {i} : issued'[j] = issued[j]
      /\ regionAttrCache' = regionAttrCache
      /\ field'[t] = slot[i].dest /\ \A u \in OopTasks \ {t} : field'[u] = field[u]
      /\ aopSent' = aopSent /\ forward' = forward /\ todo' = todo
  BY <1>1 DEF SendWrite, fetchVars, cacheVars
<1>3. Mine(i, t)
  BY <1>0, <1>2 DEF Mine
<1>4. ReadOf(i)'
  BY <1>0, <1>1, <1>2 DEF ReadOf, Reads, At
<1>5. Knows(i)' /\ slotValid(i)' /\ slot'[i].task = t
  BY <1>0, <1>1, <1>2 DEF Knows, RightAddress, Crosses, InCsetTask, slotValid, At
<1>. QED  BY <1>1, <1>3, <1>4, <1>5, MineKept

\* The field is written; a reference within one region, or from a humongous
\* one, needs no card.
LEMMA LeaveWriteBackKnows ==
  ASSUME CopyInv, CopyInv', KnowParts, NEW i \in OopSlots, LeaveWriteBack(i) PROVE KnowParts'
<1>. DEFINE t == slot[i].task
<1>0. slotValid(i) /\ slot[i].pc = "WRITE_BACK" /\ issued[i]
  BY DEF LeaveWriteBack, slotValid, At
<1>1. /\ t \in OopTasks /\ Knows(i) /\ ReadOf(i) /\ slot[i] \in SlotType /\ Shape(i)
      /\ slot \in [OopSlots -> SlotType] /\ copySlot \in [OopSlots -> CopyType]
      /\ issued \in [OopSlots -> BOOLEAN] /\ asked \in [OopSlots -> SUBSET Reads]
  BY <1>0, WorksOn
<1>2. /\ \A j \in OopSlots \ {i} : /\ slot'[j] = slot[j] /\ copySlot'[j] = copySlot[j]
                                   /\ issued'[j] = issued[j]
      /\ asked' = asked /\ ~issued'[i] /\ regionAttrCache' = regionAttrCache
      /\ field' = field /\ aopSent' = aopSent /\ forward' = forward /\ todo' = todo
  BY <1>1 DEF LeaveWriteBack, finishSlot, fetchVars, cacheVars, heapVars
<1>3. Mine(i, t)
  BY <1>0, <1>2 DEF Mine
<1>4. ReadOf(i)'
  <2>1. asked[i] = {}
    BY <1>0, <1>1 DEF ReadOf, Reads
  <2>. QED  BY <1>2, <2>1, NoRead
<1>5. CASE sameRegion(i) \/ (~slot[i].fromMark /\ slot[i].humongous)
  <2>1. slot'[i] = EmptySlot
    BY <1>1, <1>5 DEF LeaveWriteBack, finishSlot
  <2>2. PICK u \in OopTasks : u = t
    BY <1>1
  <2>3. /\ field[u] = slot[i].dest /\ RightAddress(u, field[u]) /\ InCsetTask(u)
        /\ u \notin aopSent /\ ~Crosses(u, field[u])
    BY <1>0, <1>1, <1>5, <2>2 DEF Knows, Crosses, sameRegion
  <2>4. TaskFine(u)'
    BY <1>2, <2>3 DEF TaskFine, RightAddress, Crosses, InCsetTask
  <2>. QED  BY <1>3, <1>4, <2>1, <2>2, <2>4, MineKept
<1>6. CASE ~(sameRegion(i) \/ (~slot[i].fromMark /\ slot[i].humongous))
  <2>1. /\ slot'[i] = [slot[i] EXCEPT
                         !.pc = IF slot[i].fromMark THEN "READ_HEAP_PTR" ELSE "READ_DEST_ATTR"]
        /\ copySlot' = copySlot
    BY <1>1, <1>6 DEF LeaveWriteBack
  <2>2. <<t, slot[i].dest>> \notin SameRegion
    BY <1>6 DEF sameRegion
  <2>3. Knows(i)' /\ slotValid(i)' /\ slot'[i].task = t
    BY <1>0, <1>1, <1>2, <1>6, <2>1, <2>2
       DEF Knows, RightAddress, Crosses, InCsetTask, SlotType, slotValid, At, Shape, Copying
  <2>. QED  BY <1>1, <1>3, <1>4, <2>3, MineKept
<1>. QED  BY <1>5, <1>6

LEMMA SendAopKnows ==
  ASSUME CopyInv, CopyInv', KnowParts, NEW i \in OopSlots, SendAop(i) PROVE KnowParts'
<1>. DEFINE t == slot[i].task
<1>0. slotValid(i) /\ slot[i].pc = "SEND_AOP"
  BY DEF SendAop, slotValid, At
<1>1. /\ t \in OopTasks /\ Knows(i) /\ ReadOf(i) /\ slot[i] \in SlotType /\ Shape(i)
      /\ slot \in [OopSlots -> SlotType] /\ copySlot \in [OopSlots -> CopyType]
  BY <1>0, WorksOn
<1>2. /\ slot'[i] = EmptySlot
      /\ \A j \in OopSlots \ {i} : slot'[j] = slot[j] /\ copySlot'[j] = copySlot[j]
      /\ issued' = issued /\ asked' = asked /\ regionAttrCache' = regionAttrCache
      /\ field' = field /\ aopSent' = aopSent \cup {t} /\ forward' = forward /\ todo' = todo
  BY <1>1 DEF SendAop, finishSlot, fetchVars, cacheVars
<1>3. Mine(i, t)
  BY <1>0, <1>2 DEF Mine
<1>4. ReadOf(i)'
  BY <1>0, <1>1, <1>2, NothingOut, NoRead DEF Reads
<1>5. PICK u \in OopTasks : u = t
  BY <1>1
<1>6. field[u] = slot[i].dest /\ RightAddress(u, field[u]) /\ InCsetTask(u) /\ Crosses(u, field[u])
  BY <1>0, <1>1, <1>5 DEF Knows
<1>7. TaskFine(u)'
  BY <1>2, <1>5, <1>6 DEF TaskFine, RightAddress, Crosses, InCsetTask
<1>. QED  BY <1>2, <1>3, <1>4, <1>5, <1>7, MineKept

\* GCOopCopy2Survivor's side: a type array, and the end of a copy.
LEMMA TypeArrayKnows ==
  ASSUME CopyInv, CopyInv', KnowParts, NEW i \in OopSlots, TypeArray(i) PROVE KnowParts'
<1>. DEFINE t == slot[i].task
<1>0. slotValid(i)
  BY DEF TypeArray, CopyInv, FetchInv, SlotShape, Shape, slotValid, At, Copying
<1>1. /\ t \in OopTasks /\ Knows(i) /\ ReadOf(i) /\ slot[i] \in SlotType
      /\ copySlot \in [OopSlots -> CopyType] /\ copySlot[i] \in CopyType
  BY <1>0, WorksOn
<1>2. /\ slot' = slot /\ \A j \in OopSlots \ {i} : copySlot'[j] = copySlot[j]
      /\ copySlot'[i].done = copySlot[i].done
      /\ issued' = issued /\ asked' = asked /\ regionAttrCache' = regionAttrCache
      /\ field' = field /\ aopSent' = aopSent /\ forward' = forward /\ todo' = todo
  BY <1>1 DEF TypeArray, releaseFetch, cacheVars, heapVars, CopyType
<1>3. Mine(i, t)
  BY <1>0, <1>2 DEF Mine
<1>4. ReadOf(i)'
  BY <1>1, <1>2 DEF ReadOf, Hit, At, Cached, srcRegion, heapRegion, Oop
<1>5. Knows(i)' /\ slotValid(i)' /\ slot'[i].task = t
  BY <1>0, <1>1, <1>2 DEF Knows, RightAddress, Crosses, InCsetTask, slotValid, At
<1>. QED  BY <1>1, <1>3, <1>4, <1>5, MineKept

LEMMA CopyDoneKnows ==
  ASSUME CopyInv, CopyInv', KnowParts, NEW i \in OopSlots, CopyDone(i) PROVE KnowParts'
<1>. DEFINE t == slot[i].task
<1>0. copier[i].stage = "announced" /\ copySlot[i].inflight /\ slotValid(i)
      /\ slot[i].pc \in Copying /\ ~slot[i].fromMark
  BY DEF CopyDone, Survivor!Finish, CopyInv, FetchInv, SlotShape, Shape, slotValid, At, Copying
<1>1. /\ t \in OopTasks /\ Knows(i) /\ ReadOf(i) /\ slot[i] \in SlotType /\ Oop(i) = SrcOop[t]
      /\ slot \in [OopSlots -> SlotType]
      /\ copySlot \in [OopSlots -> CopyType] /\ copySlot[i] \in CopyType
  BY <1>0, WorksOn
<1>2. copier[i].copy = t /\ RightAddress(t, t)
  BY <1>0, <1>1, ConstantsAssumption DEF CopyInv, CopyState, RightAddress
<1>3. /\ slot'[i] = [slot[i] EXCEPT !.dest = t]
      /\ \A j \in OopSlots \ {i} : slot'[j] = slot[j] /\ copySlot'[j] = copySlot[j]
      /\ issued' = issued /\ asked' = asked /\ regionAttrCache' = regionAttrCache
      /\ field' = field /\ aopSent' = aopSent /\ forward' = forward /\ todo' = todo
  BY <1>1, <1>2 DEF CopyDone, fetchVars, cacheVars, heapVars, CopyType
<1>4. Mine(i, t)
  BY <1>0, <1>3 DEF Mine
<1>5. /\ slot'[i].pc = slot[i].pc /\ slot'[i].task = t /\ slot'[i].dest = t
      /\ ~slot'[i].fromMark /\ slot'[i].inCset = slot[i].inCset
      /\ slot'[i].humongous = slot[i].humongous
  BY <1>0, <1>1, <1>3 DEF SlotType
<1>6. ReadOf(i)'
  BY <1>0, <1>1, <1>3, <1>5 DEF ReadOf, At, Copying
<1>7. Knows(i)' /\ slotValid(i)'
  BY <1>0, <1>1, <1>2, <1>3, <1>5
     DEF Knows, RightAddress, Crosses, InCsetTask, slotValid, At, Copying
<1>. QED  BY <1>1, <1>4, <1>5, <1>6, <1>7, MineKept

\* WriteForward makes no address wrong: a plain object gets its one pointer, a
\* type array has one after it, too.
LEMMA WriteForwardRight ==
  ASSUME CopyInv, NEW i \in OopSlots, WriteForward(i), NEW u \in OopTasks, NEW a, RightAddress(u, a)
  PROVE  RightAddress(u, a)'
<1>0. OopTypeOK /\ Shape(i) /\ slotValid(i)
  BY DEF WriteForward, Survivor!Announce, CopyInv, FetchInv, SlotShape, Shape, slotValid, At,
     Copying
<1>1. slot[i].task \in OopTasks /\ slot[i].task # None /\ Oop(i) \in Objects
  BY <1>0, TaskOf, RegionTypes, ConstantsAssumption
<1>2. SrcOop[u] \in Objects /\ forward[SrcOop[u]] # None
  BY ConstantsAssumption DEF RightAddress
<1>3. forward' = [forward EXCEPT ![Oop(i)] = slot[i].task] /\ forward \in [Objects -> Address]
  BY <1>0 DEF WriteForward, OopTypeOK
<1>4. forward'[SrcOop[u]] # None
  BY <1>1, <1>2, <1>3
<1>5. SrcOop[u] \notin TypeArrays => forward'[SrcOop[u]] = forward[SrcOop[u]]
  BY <1>2, WriteForwardCopies
<1>. QED  BY <1>4, <1>5 DEF RightAddress

LEMMA WriteForwardKnows ==
  ASSUME CopyInv, CopyInv', KnowParts, NEW i \in OopSlots, WriteForward(i) PROVE KnowParts'
<1>1. /\ slot \in [OopSlots -> SlotType]
      /\ UNCHANGED <<copySlot, issued, asked, cacheVars, fetchVars, field, aopSent>>
  BY DEF WriteForward, CopyInv, FetchInv, OopTypeOK
<1>2. /\ copySlot' = copySlot /\ issued' = issued /\ asked' = asked /\ field' = field
      /\ aopSent' = aopSent /\ regionAttrCache' = regionAttrCache
      /\ heapRegionCache' = heapRegionCache /\ todo' = todo
  BY <1>1 DEF cacheVars, fetchVars
<1>3. \A j \in OopSlots :
        /\ slot'[j].pc = slot[j].pc /\ slot'[j].task = slot[j].task /\ slot'[j].dest = slot[j].dest
        /\ slot'[j].inCset = slot[j].inCset /\ slot'[j].fromMark = slot[j].fromMark
        /\ slot'[j].humongous = slot[j].humongous
  BY <1>1 DEF WriteForward, SlotType
<1>4. OwnRead'
  <2>1. \A j \in OopSlots : Hit(j)' = Hit(j)
    BY <1>2, <1>3 DEF Hit, At, Cached, srcRegion, heapRegion, Oop
  <2>. QED  BY <1>2, <1>3, <2>1 DEF KnowParts, OwnRead, At
<1>5. SlotsKnow'
  <2>. SUFFICES ASSUME NEW j \in OopSlots, slotValid(j)' PROVE Knows(j)'
    BY DEF SlotsKnow
  <2>1. slotValid(j)
    BY <1>3 DEF slotValid, At
  <2>2. PICK u \in OopTasks : u = slot[j].task
    BY <2>1, TaskOf
  <2>3. Knows(j)
    BY <2>1 DEF KnowParts, SlotsKnow
  <2>4. PICK a : a = slot[j].dest
    OBVIOUS
  <2>5. RightAddress(u, a) => RightAddress(u, a)'
    BY WriteForwardRight
  <2>6. RightAddress(slot[j].task, slot[j].dest) => RightAddress(slot[j].task, slot[j].dest)'
    BY <1>3, <2>2, <2>4, <2>5 DEF RightAddress
  <2>. QED  BY <1>2, <1>3, <2>2, <2>3, <2>6 DEF Knows, Crosses, InCsetTask
<1>6. Untouched'
  BY <1>2 DEF KnowParts, Untouched
<1>7. AllFine'
  <2>. SUFFICES ASSUME NEW u \in OopTasks, Done(u)' PROVE TaskFine(u)'
    BY DEF AllFine
  <2>1. Done(u)
    BY <1>2, <1>3 DEF Done, Held
  <2>2. TaskFine(u)
    BY <2>1 DEF KnowParts, AllFine
  <2>3. PICK a : a = field[u]
    OBVIOUS
  <2>4. RightAddress(u, a) => RightAddress(u, a)'
    BY WriteForwardRight
  <2>5. RightAddress(u, field[u]) => RightAddress(u, field[u])'
    BY <1>2, <2>3, <2>4 DEF RightAddress
  <2>. QED  BY <1>2, <2>2, <2>5 DEF TaskFine, Crosses, InCsetTask
<1>. QED  BY <1>4, <1>5, <1>6, <1>7 DEF KnowParts

\* A task that is handed over was never touched.
LEMMA AcceptTaskKnows ==
  ASSUME CopyInv, CopyInv', KnowParts, NEW t \in OopTasks, AcceptTask(t) PROVE KnowParts'
<1>0. PICK i \in OopSlots : i = IF slotValid(0) THEN 1 ELSE 0
  BY DEF OopSlots
<1>1. i \in OopSlots /\ ~slotValid(i) /\ t \in todo
  BY <1>0 DEF AcceptTask, hasFreeSlot, OopSlots
<1>2. /\ slot \in [OopSlots -> SlotType] /\ copySlot \in [OopSlots -> CopyType]
      /\ slot[i].pc = "IDLE" /\ slot[i].task = None
  BY <1>1 DEF CopyInv, FetchInv, OopTypeOK, SlotShape, Shape, slotValid, At
<1>3. /\ slot'[i] = [EmptySlot EXCEPT !.pc = "READ_SRC_ATTR", !.task = t,
                                       !.mark = forward[SrcOop[t]]]
      /\ copySlot'[i] = NoCopy
      /\ \A j \in OopSlots \ {i} : slot'[j] = slot[j] /\ copySlot'[j] = copySlot[j]
      /\ issued' = issued /\ asked' = asked /\ regionAttrCache' = regionAttrCache
      /\ field' = field /\ aopSent' = aopSent /\ forward' = forward /\ todo' = todo \ {t}
  BY <1>0, <1>1, <1>2 DEF AcceptTask, cacheVars, heapVars
<1>4. Knows(i)' /\ slotValid(i)'
  BY <1>1, <1>3 DEF Knows, KnowParts, Untouched, EmptySlot, NoCopy, slotValid, At
<1>5. ReadOf(i)'
  <2>1. ReadOf(i)
    BY <1>1 DEF KnowParts, OwnRead, ReadOf
  <2>. QED  BY <1>1, <1>2, <1>3, <2>1, NothingOut, NoRead DEF Reads
<1>6. ASSUME NEW j \in OopSlots \ {i} PROVE ReadOf(j)' /\ (slotValid(j)' => Knows(j)')
  <2>1. CASE slotValid(j)
    <3>1. Knows(j) /\ ReadOf(j) /\ slot[j].task \in OopTasks
      BY <2>1, WorksOn
    <3>. QED  BY <1>3, <2>1, <3>1, KnowsStays
  <2>2. CASE ~slotValid(j)
    <3>1. ReadOf(j)
      BY DEF KnowParts, OwnRead, ReadOf
    <3>2. slot[j].pc = "IDLE"
      BY <2>2 DEF slotValid, At
    <3>. QED  BY <1>3, <3>1, <3>2, NothingOut, NoRead DEF Reads, slotValid, At
  <2>. QED  BY <2>1, <2>2
<1>7. OwnRead' /\ SlotsKnow'
  BY <1>4, <1>5, <1>6 DEF OwnRead, ReadOf, SlotsKnow
<1>8. Untouched'
  BY <1>3 DEF KnowParts, Untouched
<1>9. AllFine'
  <2>. SUFFICES ASSUME NEW u \in OopTasks, Done(u)' PROVE TaskFine(u)'
    BY DEF AllFine
  <2>1. u # t
    BY <1>1, <1>3 DEF Done, Held, EmptySlot
  <2>2. Done(u)
    BY <1>1, <1>2, <1>3, <2>1, ConstantsAssumption DEF Done, Held
  <2>3. TaskFine(u)
    BY <2>2 DEF KnowParts, AllFine
  <2>. QED  BY <1>3, <2>3 DEF TaskFine, RightAddress, Crosses, InCsetTask
<1>. QED  BY <1>7, <1>8, <1>9 DEF KnowParts

LEMMA StutterKnows == ASSUME KnowParts, UNCHANGED oopVars PROVE KnowParts'
<1>1. /\ slot' = slot /\ copySlot' = copySlot /\ issued' = issued /\ asked' = asked
      /\ field' = field /\ aopSent' = aopSent /\ forward' = forward /\ todo' = todo
      /\ regionAttrCache' = regionAttrCache /\ heapRegionCache' = heapRegionCache
  BY DEF oopVars, slotVars, cacheVars, fetchVars, heapVars
<1>2. OwnRead' /\ Untouched'
  BY <1>1 DEF KnowParts, OwnRead, Untouched, Hit, At, Cached, srcRegion, heapRegion, Oop
<1>3. SlotsKnow'
  BY <1>1 DEF KnowParts, SlotsKnow, slotValid, At, Knows, RightAddress, Crosses, InCsetTask
<1>4. AllFine'
  BY <1>1 DEF KnowParts, AllFine, Done, Held, TaskFine, RightAddress, Crosses, InCsetTask
<1>. QED  BY <1>2, <1>3, <1>4 DEF KnowParts

\* The invariant with what slots know, and with it what is claimed of tasks
\* that are over.
LEMMA KnowInit == OopInit => KnowParts
<1>. SUFFICES ASSUME OopInit PROVE KnowParts
  OBVIOUS
<1>1. \A i \in OopSlots : slot[i] = EmptySlot /\ ~issued[i] /\ asked[i] = {}
  BY DEF OopInit
<1>2. OwnRead /\ SlotsKnow
  BY <1>1, SMTT(30) DEF OwnRead, SlotsKnow, EmptySlot, slotValid, At
<1>3. Untouched /\ AllFine
  BY DEF OopInit, Untouched, AllFine, Done
<1>. QED  BY <1>2, <1>3 DEF KnowParts

LEMMA KnowStep ==
  ASSUME CopyInv, KnowInv, [OopNext]_oopVars PROVE KnowInv'
<1>. SUFFICES ASSUME ~overtaken' PROVE KnowParts'
  BY DEF KnowInv
<1>1. CopyInv'
  BY CopyInvStep
<1>2. ~overtaken
  <2>1. CASE \E i \in OopSlots : HeapRegionHit(i)
    BY <2>1 DEF HeapRegionHit
  <2>2. CASE UNCHANGED overtaken
    BY <2>2
  <2>. QED
    BY <2>1, <2>2 DEF OopNext, oopVars, AcceptTask, SlotStep, AskRead, SrcAttrHit, IgnoreTask,
       UseForward, DecideCopy, SendCopy, CopyIsDone, SendWrite, LeaveWriteBack, SendAop, Answer, TypeArray,
       WriteForward, CopyDone
<1>3. KnowParts
  BY <1>2 DEF KnowInv
<1>4. CASE \E t \in OopTasks : AcceptTask(t)
  BY <1>1, <1>3, <1>4, AcceptTaskKnows
<1>5. ASSUME NEW i \in OopSlots, SlotStep(i) PROVE KnowParts'
  BY <1>1, <1>3, <1>5, AskReadKnows, SrcAttrHitKnows, HeapRegionHitKnows, IgnoreTaskKnows,
     UseForwardKnows, DecideCopyKnows, SendCopyKnows, CopyIsDoneKnows, SendWriteKnows,
     LeaveWriteBackKnows, SendAopKnows DEF SlotStep
<1>6. ASSUME NEW i \in OopSlots, \/ \E s \in Reads : Answer(i, s)
                                 \/ TypeArray(i) \/ WriteForward(i) \/ CopyDone(i)
      PROVE  KnowParts'
  BY <1>1, <1>3, <1>6, AnswerKnows, TypeArrayKnows, WriteForwardKnows, CopyDoneKnows
<1>7. CASE UNCHANGED oopVars
  BY <1>3, <1>7, StutterKnows
<1>. QED  BY <1>4, <1>5, <1>6, <1>7 DEF OopNext

\* The whole inductive invariant.
THEOREM Invariance == OopSpec => []OopIInv
<1>1. OopInit => CopyInv /\ KnowInv
  BY CopyInvInit, KnowInit DEF KnowInv
<1>2. CopyInv /\ KnowInv /\ [OopNext]_oopVars => (CopyInv /\ KnowInv)'
  BY CopyInvStep, KnowStep
<1>3. CopyInv /\ KnowInv => OopIInv
  BY DEF OopIInv, KnowInv, KnowParts, AllFine, TaskFine, FieldsAgree, CardsMarked
<1>. QED  BY <1>1, <1>2, <1>3, PTL DEF OopSpec

\* A task that is over has the address of the one copy of its object in its
\* field, as long as no slot went on while its read was out (FieldsAgree).
THEOREM FieldsSettledRight == OopSpec => []FieldsAgree
<1>1. OopIInv => FieldsAgree
  BY DEF OopIInv
<1>. QED  BY <1>1, Invariance, PTL

\* It was handed to GCAop exactly when its card has to be marked (CardsMarked).
THEOREM CardsSent == OopSpec => []CardsMarked
<1>1. OopIInv => CardsMarked
  BY DEF OopIInv
<1>. QED  BY <1>1, Invariance, PTL
============================================================================
