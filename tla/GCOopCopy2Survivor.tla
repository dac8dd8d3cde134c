------------------------ MODULE GCOopCopy2Survivor ------------------------
(***************************************************************************)
(* hwgc_acc/GCOopCopy2Survivor.scala: the unit that gives an object a      *)
(* place, installs the forwarding pointer and has the object copied and    *)
(* traced.  Two slots share the unit's copy of the two allocation buffers  *)
(* (PLAB 0 for young, 1 for old destinations): a locked buffer belongs to  *)
(* one slot, which bumps its top in memory and on chip, refills the copy   *)
(* from memory or has GCAllocate replace the buffer.                       *)
(*                                                                         *)
(* GCOopProcess sends a second object only once the first was announced    *)
(* to be a type array (see GCOopProcess), which the model takes as given.  *)
(* Addresses are words of the destination space; 0 is no address.  The two *)
(* PLAB structures are distinct.                                           *)
(***************************************************************************)
EXTENDS Integers, FiniteSets

CONSTANTS
  MaxObjects,       \* how many objects are sent, 1, 2, ... in this order
  ObjSizes,         \* how many words an object may have
  TypeArrayCmds,    \* objects that are type arrays
  Mirrors,          \* objects whose size is not in their klass
  Inflated,         \* objects whose mark word is a monitor
  JvmTop, JvmEnd,   \* buffer -> what the JVM left of it
  BufferWords,      \* words of a fresh buffer
  HeapWords,        \* Bound: words GCAllocate can hand out
  None              \* no object, nobody

Cmds == 1 .. MaxObjects

ASSUME BuffersAssumption ==
  /\ BufferWords \in Nat \ {0} /\ HeapWords \in Nat
  /\ MaxObjects \in Nat
  /\ ObjSizes \subseteq Nat \ {0}
  /\ TypeArrayCmds \subseteq Cmds /\ Mirrors \subseteq Cmds /\ Inflated \subseteq Cmds
  /\ None \notin Nat \cup [owner : {0, 1}, dest : Nat]
  \* the words left are addresses and apart, and GCAllocate hands out none of
  \* them; an empty buffer may stand anywhere
  /\ JvmTop \in [{0, 1} -> Nat] /\ JvmEnd \in [{0, 1} -> Nat]
  /\ JvmTop[0] <= JvmEnd[0] /\ JvmEnd[0] <= JvmTop[1] /\ JvmTop[1] <= JvmEnd[1]
  /\ 1 <= JvmTop[0] /\ JvmEnd[1] <= HeapWords + 1

SurvSlots == {0, 1}  \* slots of this unit
Owners == {0, 1}     \* slots of GCOopProcess
Plabs == {0, 1}      \* 0 young, 1 old

VARIABLES
  slot,             \* slot -> its state machine and its context
  plabValid, plabTop, plabEnd,          \* the cached buffers
  plabBufferValid,                      \* where the buffer is, is known
  plabOpOwner,      \* buffer -> the slot that holds its lock
  plabRefillBusy,
  destAttrValid,    \* destAttrRegionCache is loaded
  olderSlot,
  copyOwner, traceOwner, allocOwner,    \* the slot whose work is being done
  typeArrayPending, donePending,        \* events not sent yet
  memTop, memEnd,   \* the buffers in memory
  heapNext,         \* next word GCAllocate takes a buffer or an object from
  sent,             \* how many were sent
  told,             \* owner -> the type array event of its object was sent
  placed            \* object -> the words it was given

plabVars  == <<plabValid, plabTop, plabEnd, plabBufferValid, plabOpOwner, plabRefillBusy>>
workVars  == <<copyOwner, traceOwner, allocOwner>>
eventVars == <<typeArrayPending, donePending>>
memVars   == <<memTop, memEnd, heapNext>>
envVars   == <<sent, told, placed>>
survVars == <<slot, plabVars, destAttrValid, olderSlot, workVars, eventVars, memVars, envVars>>

EmptySlot ==
  [pc |-> "IDLE", cmd |-> None, owner |-> 0, size |-> 0, idx |-> 0, dest |-> 0,
   plabForceOld |-> FALSE, afterAllocCache |-> FALSE, usingPlabCacheBuffer |-> FALSE,
   plabBuffer |-> 0, forwardDecided |-> FALSE, writeDestOopPtrDone |-> FALSE,
   notified |-> FALSE, copyDone |-> FALSE, traceIssued |-> FALSE, traceDone |-> FALSE,
   allocDone |-> FALSE, issued |-> FALSE]

SurvInit ==
  /\ slot = [i \in SurvSlots |-> EmptySlot]
  /\ plabValid = [p \in Plabs |-> FALSE] /\ plabBufferValid = [p \in Plabs |-> FALSE]
  /\ plabTop = [p \in Plabs |-> 0] /\ plabEnd = [p \in Plabs |-> 0]
  /\ plabOpOwner = [p \in Plabs |-> None] /\ plabRefillBusy = [p \in Plabs |-> FALSE]
  /\ destAttrValid = FALSE /\ olderSlot = 0
  /\ copyOwner = None /\ traceOwner = None /\ allocOwner = None
  /\ typeArrayPending = [i \in SurvSlots |-> None]
  /\ donePending = [i \in SurvSlots |-> None]
  /\ memTop = JvmTop /\ memEnd = JvmEnd /\ heapNext = JvmEnd[1]
  /\ sent = 0 /\ told = [o \in Owners |-> FALSE]
  /\ placed = [c \in Cmds |-> {}]

-----------------------------------------------------------------------------
(* What the actions are made of. *)

At(i, s) == slot[i].pc = s
slotValid(i) == ~At(i, "IDLE")
Other(i) == 1 - i
Idx(i) == slot[i].idx
SizeOf(i) == slot[i].size
PlaceOf(i, word) == word .. (word + SizeOf(i) - 1)
needTrace(i) == slot[i].cmd \notin TypeArrayCmds

ownsPlab(i, p) == plabOpOwner[p] = i
\* Mutant: the lock is not looked at.
AlwaysFree(i, p) == TRUE

plabFreeOrMine(i, p) == plabOpOwner[p] \in {None, i}
lockPlab(i) == plabOpOwner' = [plabOpOwner EXCEPT ![Idx(i)] = i]
unlockPlab(i) ==
  plabOpOwner' = [plabOpOwner EXCEPT ![Idx(i)] = IF @ = i THEN None ELSE @]
plabEnough(i) == plabEnd[Idx(i)] - plabTop[Idx(i)] >= SizeOf(i)

\* An object of GCOopProcess's slot o was sent and its Done has not come.
InFlight(o) == \E i \in SurvSlots :
  \/ slotValid(i) /\ slot[i].owner = o
  \/ donePending[i] # None /\ donePending[i].owner = o

GotoState(i, s) == slot' = [slot EXCEPT ![i].pc = s]

\* The other slot took its word from this buffer and may still roll it back,
\* or it holds the lock.
slotAllocCacheHazard(i) ==
  LET j == Other(i) IN
  \/ /\ slotValid(j) /\ slot[j].usingPlabCacheBuffer /\ slot[j].afterAllocCache
     /\ plabValid[Idx(i)] /\ slot[j].plabBuffer = Idx(i) /\ ~slot[j].forwardDecided
  \/ ~plabFreeOrMine(i, Idx(i))

plabSelectOwn(i) == At(i, "PLAB_SELECT") /\ ownsPlab(i, Idx(i))
plabSelectReq(i) == At(i, "PLAB_SELECT") /\ plabFreeOrMine(i, Idx(i))

\* One slot a cycle: the one with a lock, else the one with the older object.
slotPlabSelectGrant(i) ==
  \/ plabSelectOwn(i) /\ (i = 0 \/ ~plabSelectOwn(0))
  \/ /\ \A j \in SurvSlots : ~plabSelectOwn(j)
     /\ plabSelectReq(i) /\ (olderSlot = i \/ ~plabSelectReq(Other(i)))

\* Younger objects wait for the older one's turn at a unit both want.
First(i, waiting) == i \in waiting /\ (olderSlot = i \/ Other(i) \notin waiting)

-----------------------------------------------------------------------------
(* GCOopProcess sends an object. *)

Alloc(c, o, n) ==
  [EmptySlot EXCEPT !.pc = "READ_KLASS", !.cmd = c, !.owner = o, !.size = n]

\* One task waits for its Done; every other object here is a known type array.
MaySend(c, o) == /\ c = sent + 1
                 /\ ~InFlight(o)
                 /\ \A q \in Owners : InFlight(q) => told[q]
Sent(c, o) == sent' = c /\ told' = [told EXCEPT ![o] = FALSE]

AcceptCommand(c, o) ==
  /\ MaySend(c, o) /\ \E i \in SurvSlots : ~slotValid(i)
  /\ LET i == IF slotValid(0) THEN 1 ELSE 0 IN
       /\ \E n \in ObjSizes : slot' = [slot EXCEPT ![i] = Alloc(c, o, n)]
       /\ olderSlot' = IF slotValid(Other(i)) THEN olderSlot ELSE i
  /\ Sent(c, o)
  /\ UNCHANGED <<plabVars, destAttrValid, workVars, eventVars, memVars, placed>>

(* Reads and writes that only lead on: the klass, the size of a mirror, the age
   in the monitor of an inflated mark word. *)

LeadsTo(i) ==
  CASE At(i, "READ_KLASS") -> IF slot[i].cmd \in Mirrors THEN "SIZE_DEICIDE"
                                                         ELSE "DEST_ATTR_DECIDE"
    [] At(i, "SIZE_DEICIDE") -> "DEST_ATTR_DECIDE"
    [] At(i, "GET_MONITOR_MW") -> "WRITE_MONITOR_MW"
    [] At(i, "WRITE_MONITOR_MW") -> "WAIT_COPY_TRACE"
    [] OTHER -> "nowhere"

LeadOn(i) ==
  /\ LeadsTo(i) # "nowhere" /\ GotoState(i, LeadsTo(i))
  /\ UNCHANGED <<plabVars, destAttrValid, olderSlot, workVars, eventVars, memVars, envVars>>

\* The age of the object decides for PLAB 0 or 1.
AgeDecide(i) ==
  /\ At(i, "AGE_DECIDE")
  /\ \E p \in Plabs : slot' = [slot EXCEPT ![i].pc = "PLAB_SELECT", ![i].idx = p]
  /\ UNCHANGED <<plabVars, destAttrValid, olderSlot, workVars, eventVars, memVars, envVars>>

(* DEST_ATTR_DECIDE: a type array is announced; the attributes are read once. *)

NotifyTypeArray(i) ==
  typeArrayPending' = IF needTrace(i) \/ slot[i].notified THEN typeArrayPending
                      ELSE [typeArrayPending EXCEPT ![i] = slot[i].owner]

DestAttrAsk(i) ==
  /\ At(i, "DEST_ATTR_DECIDE") /\ ~destAttrValid /\ ~slot[i].issued
  /\ NotifyTypeArray(i)
  /\ slot' = [slot EXCEPT ![i].issued = TRUE, ![i].notified = TRUE]
  /\ UNCHANGED <<plabVars, destAttrValid, olderSlot, workVars, donePending, memVars, envVars>>

DestAttrAnswer(i) ==
  /\ At(i, "DEST_ATTR_DECIDE") /\ ~destAttrValid /\ slot[i].issued
  /\ slot' = [slot EXCEPT ![i].issued = FALSE, ![i].pc = "AGE_DECIDE"]
  /\ destAttrValid' = TRUE
  /\ UNCHANGED <<plabVars, olderSlot, workVars, eventVars, memVars, envVars>>

\* Loaded by the other slot while the own read is out: the slot goes on and a
\* later state takes the answer.  The model follows it no further.
DestAttrHit(i) ==
  /\ At(i, "DEST_ATTR_DECIDE") /\ destAttrValid
  /\ NotifyTypeArray(i)
  /\ slot' = [slot EXCEPT ![i].notified = TRUE,
                          ![i].pc = IF slot[i].issued THEN "ASTRAY" ELSE "AGE_DECIDE"]
  /\ UNCHANGED <<plabVars, destAttrValid, olderSlot, workVars, donePending, memVars, envVars>>

(* PLAB_SELECT. *)

\* The cached buffer has room: lock it, bump the top in memory and on chip.
DirectAlloc(i) ==
  /\ slotPlabSelectGrant(i) /\ plabValid[Idx(i)]
  /\ ~slotAllocCacheHazard(i) /\ plabEnough(i)

DirectSend(i) ==
  /\ DirectAlloc(i) /\ ~slot[i].issued
  /\ lockPlab(i)
  /\ slot' = [slot EXCEPT ![i].dest = plabTop[Idx(i)], ![i].issued = TRUE,
                ![i].afterAllocCache = TRUE, ![i].usingPlabCacheBuffer = TRUE,
                ![i].plabBuffer = Idx(i)]
  /\ memTop' = [memTop EXCEPT ![Idx(i)] = plabTop[Idx(i)] + SizeOf(i)]
  /\ UNCHANGED <<plabValid, plabTop, plabEnd, plabBufferValid, plabRefillBusy, memEnd, heapNext>>
  /\ UNCHANGED <<destAttrValid, olderSlot, workVars, eventVars, envVars>>

DirectDone(i) ==
  /\ DirectAlloc(i) /\ slot[i].issued
  /\ plabTop' = [plabTop EXCEPT ![Idx(i)] = @ + SizeOf(i)]
  /\ unlockPlab(i)
  /\ slot' = [slot EXCEPT ![i].pc = "DECIDE_FORWARD_PTR", ![i].issued = FALSE]
  /\ placed' = [placed EXCEPT ![slot[i].cmd] = PlaceOf(i, slot[i].dest)]
  /\ UNCHANGED <<plabValid, plabEnd, plabBufferValid, plabRefillBusy, sent, told>>
  /\ UNCHANGED <<destAttrValid, olderSlot, workVars, eventVars, memVars>>

NoRoom(i) ==
  /\ slotPlabSelectGrant(i) /\ plabValid[Idx(i)]
  /\ ~slotAllocCacheHazard(i) /\ ~plabEnough(i)
  /\ lockPlab(i) /\ GotoState(i, "ALLOC_CACHE")
  /\ UNCHANGED <<plabValid, plabTop, plabEnd, plabBufferValid, plabRefillBusy>>
  /\ UNCHANGED <<destAttrValid, olderSlot, workVars, eventVars, memVars, envVars>>

RefillStart(i) ==
  /\ slotPlabSelectGrant(i) /\ ~plabValid[Idx(i)] /\ ~plabRefillBusy[Idx(i)]
  /\ plabRefillBusy' = [plabRefillBusy EXCEPT ![Idx(i)] = TRUE]
  /\ lockPlab(i)
  /\ GotoState(i, IF plabBufferValid[Idx(i)] THEN "READ_PLAB_TOPEND" ELSE "READ_PLAB_PTR")
  /\ UNCHANGED <<plabValid, plabTop, plabEnd, plabBufferValid>>
  /\ UNCHANGED <<destAttrValid, olderSlot, workVars, eventVars, memVars, envVars>>

ReadPlabPtr(i) ==
  /\ At(i, "READ_PLAB_PTR") /\ GotoState(i, "READ_PLAB_BUF")
  /\ UNCHANGED <<plabVars, destAttrValid, olderSlot, workVars, eventVars, memVars, envVars>>

ReadPlabBuf(i) ==
  /\ At(i, "READ_PLAB_BUF") /\ GotoState(i, "READ_PLAB_TOPEND")
  /\ plabBufferValid' = [plabBufferValid EXCEPT ![Idx(i)] = TRUE]
  /\ UNCHANGED <<plabValid, plabTop, plabEnd, plabOpOwner, plabRefillBusy>>
  /\ UNCHANGED <<destAttrValid, olderSlot, workVars, eventVars, memVars, envVars>>

\* Mutant: plabRefillBusy stays set.
ReadPlabTopEndStaysBusy(i) ==
  /\ At(i, "READ_PLAB_TOPEND") /\ GotoState(i, "PLAB_SELECT")
  /\ plabTop' = [plabTop EXCEPT ![Idx(i)] = memTop[Idx(i)]]
  /\ plabEnd' = [plabEnd EXCEPT ![Idx(i)] = memEnd[Idx(i)]]
  /\ plabValid' = [plabValid EXCEPT ![Idx(i)] = TRUE]
  /\ unlockPlab(i)
  /\ UNCHANGED <<plabBufferValid, plabRefillBusy>>
  /\ UNCHANGED <<destAttrValid, olderSlot, workVars, eventVars, memVars, envVars>>

ReadPlabTopEnd(i) ==
  /\ At(i, "READ_PLAB_TOPEND") /\ GotoState(i, "PLAB_SELECT")
  /\ plabTop' = [plabTop EXCEPT ![Idx(i)] = memTop[Idx(i)]]
  /\ plabEnd' = [plabEnd EXCEPT ![Idx(i)] = memEnd[Idx(i)]]
  /\ plabValid' = [plabValid EXCEPT ![Idx(i)] = TRUE]
  /\ plabRefillBusy' = [plabRefillBusy EXCEPT ![Idx(i)] = FALSE]
  /\ unlockPlab(i)
  /\ UNCHANGED plabBufferValid
  /\ UNCHANGED <<destAttrValid, olderSlot, workVars, eventVars, memVars, envVars>>

(* ALLOC_CACHE: GCAllocate finds a place while the cached buffer is void. *)

WantsAlloc(i) ==
  At(i, "ALLOC_CACHE") /\ ~slotAllocCacheHazard(i) /\ ownsPlab(i, Idx(i))

AllocSend(i) ==
  /\ WantsAlloc(i) /\ (i = 0 \/ ~WantsAlloc(0))
  /\ allocOwner = None /\ allocOwner' = i
  /\ plabValid' = [plabValid EXCEPT ![Idx(i)] = FALSE]
  /\ slot' = [slot EXCEPT ![i].pc = "WAIT_ALLOC", ![i].dest = 0, ![i].plabBuffer = Idx(i),
                ![i].afterAllocCache = TRUE, ![i].usingPlabCacheBuffer = FALSE]
  /\ UNCHANGED <<plabTop, plabEnd, plabBufferValid, plabOpOwner, plabRefillBusy>>
  /\ UNCHANGED <<destAttrValid, olderSlot, copyOwner, traceOwner, eventVars, memVars, envVars>>

\* GCAllocate's answer: a place in a new buffer, one outside of it, or none.
Answered(i, word) ==
  /\ slot' = [slot EXCEPT ![i].allocDone = TRUE, ![i].dest = word]
  /\ placed' = [placed EXCEPT ![slot[i].cmd] = IF word = 0 THEN {} ELSE PlaceOf(i, word)]
  /\ allocOwner' = None

NewBuffer(i) ==
  /\ SizeOf(i) <= BufferWords /\ heapNext + BufferWords - 1 <= HeapWords
  /\ Answered(i, heapNext)
  /\ memTop' = [memTop EXCEPT ![Idx(i)] = heapNext + SizeOf(i)]
  /\ memEnd' = [memEnd EXCEPT ![Idx(i)] = heapNext + BufferWords]
  /\ heapNext' = heapNext + BufferWords

OutsideBuffer(i) ==
  /\ heapNext + SizeOf(i) - 1 <= HeapWords
  /\ Answered(i, heapNext)
  /\ heapNext' = heapNext + SizeOf(i)
  /\ UNCHANGED <<memTop, memEnd>>

\* Only the young regions run out: the old ones always have room for a copy.
NoPlace(i) == Idx(i) = 0 /\ Answered(i, 0) /\ UNCHANGED memVars

AllocEnds(i) ==
  /\ allocOwner = i
  /\ NewBuffer(i) \/ OutsideBuffer(i) \/ NoPlace(i)
  /\ UNCHANGED <<plabVars, destAttrValid, olderSlot, copyOwner, traceOwner, eventVars,
                 sent, told>>

WaitAlloc(i) ==
  /\ At(i, "WAIT_ALLOC") /\ slot[i].allocDone
  /\ unlockPlab(i)
  /\ slot' = [slot EXCEPT ![i] =
       IF slot[i].dest = 0
         THEN [@ EXCEPT !.allocDone = FALSE, !.idx = 1, !.plabForceOld = TRUE,
                        !.pc = "PLAB_SELECT"]
         ELSE [@ EXCEPT !.allocDone = FALSE,
                        !.pc = IF slot[i].plabForceOld THEN "WRITE_FORCE_OLD"
                                                 ELSE "DECIDE_FORWARD_PTR"]]
  /\ UNCHANGED <<plabValid, plabTop, plabEnd, plabBufferValid, plabRefillBusy>>
  /\ UNCHANGED <<destAttrValid, olderSlot, workVars, eventVars, memVars, envVars>>

WriteForceOld(i) ==
  /\ At(i, "WRITE_FORCE_OLD") /\ GotoState(i, "DECIDE_FORWARD_PTR")
  /\ UNCHANGED <<plabVars, destAttrValid, olderSlot, workVars, eventVars, memVars, envVars>>

(* The forwarding pointer is installed and announced.  The type array event
   left long before: it waits a cycle or two, the answer takes many. *)
CasForwardPtr(i) ==
  /\ At(i, "DECIDE_FORWARD_PTR") /\ typeArrayPending[i] = None
  /\ slot' = [slot EXCEPT ![i].pc = "SEND_COPY_WORK", ![i].forwardDecided = TRUE]
  /\ UNCHANGED <<plabVars, destAttrValid, olderSlot, workVars, eventVars, memVars, envVars>>

(* The object is copied and traced, each unit working for one slot. *)

WaitForCopy == {i \in SurvSlots : At(i, "SEND_COPY_WORK")}
SendCopyWork(i) ==
  /\ First(i, WaitForCopy) /\ copyOwner = None /\ copyOwner' = i
  /\ GotoState(i, "SEND_TRACE_WORK")
  /\ UNCHANGED <<plabVars, destAttrValid, olderSlot, traceOwner, allocOwner, eventVars,
                 memVars, envVars>>

CopyEnds(i) ==
  /\ copyOwner = i /\ copyOwner' = None
  /\ slot' = [slot EXCEPT ![i].copyDone = TRUE]
  /\ UNCHANGED <<plabVars, destAttrValid, olderSlot, traceOwner, allocOwner, eventVars,
                 memVars, envVars>>

WriteDestMark(i) ==
  /\ At(i, "SEND_TRACE_WORK") /\ ~slot[i].writeDestOopPtrDone
  /\ slot' = [slot EXCEPT ![i].writeDestOopPtrDone = TRUE]
  /\ UNCHANGED <<plabVars, destAttrValid, olderSlot, workVars, eventVars, memVars, envVars>>

WaitForTrace ==
  {i \in SurvSlots : At(i, "SEND_TRACE_WORK") /\ ~slot[i].traceIssued /\ needTrace(i)}
SendTraceWork(i) ==
  /\ First(i, WaitForTrace) /\ traceOwner = None /\ traceOwner' = i
  /\ slot' = [slot EXCEPT ![i].traceIssued = TRUE]
  /\ UNCHANGED <<plabVars, destAttrValid, olderSlot, copyOwner, allocOwner, eventVars,
                 memVars, envVars>>

TraceEnds(i) ==
  /\ traceOwner = i /\ traceOwner' = None
  /\ slot' = [slot EXCEPT ![i].traceDone = TRUE]
  /\ UNCHANGED <<plabVars, destAttrValid, olderSlot, copyOwner, allocOwner, eventVars,
                 memVars, envVars>>

\* The age of an inflated mark word is written to its monitor (the code looks
\* at the low bits of the destination as well).
LeaveTrace(i) ==
  /\ At(i, "SEND_TRACE_WORK")
  /\ slot[i].writeDestOopPtrDone /\ (slot[i].traceIssued \/ ~needTrace(i))
  /\ GotoState(i, IF slot[i].cmd \in Inflated THEN "GET_MONITOR_MW" ELSE "WAIT_COPY_TRACE")
  /\ UNCHANGED <<plabVars, destAttrValid, olderSlot, workVars, eventVars, memVars, envVars>>

(* The slot ends; its done event leaves in the next cycles, long before the
   slot ends again. *)

\* Mutant: Done names the slot of this unit.
WorkDoneUnderOwnNumber(i) ==
  /\ At(i, "WAIT_COPY_TRACE") /\ slot[i].copyDone /\ (slot[i].traceDone \/ ~needTrace(i))
  /\ donePending[i] = None
  /\ donePending' = [donePending EXCEPT ![i] = [owner |-> i, dest |-> slot[i].dest]]
  /\ plabOpOwner' = [p \in Plabs |-> IF ownsPlab(i, p) THEN None ELSE plabOpOwner[p]]
  /\ UNCHANGED <<plabValid, plabTop, plabEnd, plabBufferValid, plabRefillBusy,
                 destAttrValid, workVars, typeArrayPending, memVars, placed>>

WorkDone(i) ==
  /\ At(i, "WAIT_COPY_TRACE") /\ slot[i].copyDone /\ (slot[i].traceDone \/ ~needTrace(i))
  /\ donePending[i] = None
  /\ donePending' = [donePending EXCEPT ![i] = [owner |-> slot[i].owner, dest |-> slot[i].dest]]
  /\ plabOpOwner' = [p \in Plabs |-> IF ownsPlab(i, p) THEN None ELSE plabOpOwner[p]]
  /\ UNCHANGED <<plabValid, plabTop, plabEnd, plabBufferValid, plabRefillBusy,
                 destAttrValid, workVars, typeArrayPending, memVars, placed>>

FinishSlot(i) ==
  /\ WorkDone(i)
  /\ slot' = [slot EXCEPT ![i] = EmptySlot]
  /\ olderSlot' = IF slotValid(Other(i)) THEN Other(i) ELSE 0
  /\ UNCHANGED <<sent, told>>

\* In the cycle slot 0 ends, slot 1 takes an object: neither sees the other's
\* new state, and olderSlot is left pointing at the empty slot.
FinishAndAccept(c, o) ==
  /\ WorkDone(0) /\ ~slotValid(1)
  /\ MaySend(c, o) /\ Sent(c, o)
  /\ \E n \in ObjSizes : slot' = [slot EXCEPT ![0] = EmptySlot, ![1] = Alloc(c, o, n)]
  /\ olderSlot' = 0

(* Events: one a cycle, done before type array, slot 0 before slot 1. *)

SendDone(i) ==
  /\ donePending[i] # None /\ (i = 0 \/ donePending[0] = None)
  /\ donePending' = [donePending EXCEPT ![i] = None]
  /\ UNCHANGED <<slot, plabVars, destAttrValid, olderSlot, workVars, typeArrayPending,
                 memVars, sent, told, placed>>

SendTypeArray(i) ==
  /\ \A j \in SurvSlots : donePending[j] = None
  /\ typeArrayPending[i] # None /\ (i = 0 \/ typeArrayPending[0] = None)
  /\ told' = [told EXCEPT ![typeArrayPending[i]] = TRUE]
  /\ typeArrayPending' = [typeArrayPending EXCEPT ![i] = None]
  /\ UNCHANGED <<slot, plabVars, destAttrValid, olderSlot, workVars, donePending,
                 memVars, sent, placed>>

-----------------------------------------------------------------------------
SlotStep(i) ==
  \/ LeadOn(i) \/ DestAttrAsk(i) \/ DestAttrAnswer(i) \/ DestAttrHit(i) \/ AgeDecide(i)
  \/ DirectSend(i) \/ DirectDone(i) \/ NoRoom(i)
  \/ RefillStart(i) \/ ReadPlabPtr(i) \/ ReadPlabBuf(i) \/ ReadPlabTopEnd(i)
  \/ AllocSend(i) \/ WaitAlloc(i) \/ WriteForceOld(i) \/ CasForwardPtr(i)
  \/ SendCopyWork(i) \/ LeaveTrace(i) \/ FinishSlot(i)

SurvNext ==
  \/ \E c \in Cmds, o \in Owners : AcceptCommand(c, o) \/ FinishAndAccept(c, o)
  \/ \E i \in SurvSlots : \/ SlotStep(i) \/ WriteDestMark(i) \/ SendTraceWork(i)
                          \/ AllocEnds(i) \/ CopyEnds(i) \/ TraceEnds(i)
                          \/ SendDone(i) \/ SendTypeArray(i)

SurvSpec == SurvInit /\ [][SurvNext]_survVars

\* Slots and events move every cycle they can; memory, GCAllocate, GCCopy and
\* GCTrace come to an end.  Nothing makes GCOopProcess send an object.
SurvFairness == \A i \in SurvSlots :
  /\ WF_survVars(SlotStep(i)) /\ WF_survVars(WriteDestMark(i)) /\ WF_survVars(SendTraceWork(i))
  /\ WF_survVars(AllocEnds(i)) /\ WF_survVars(CopyEnds(i)) /\ WF_survVars(TraceEnds(i))
  /\ WF_survVars(SendDone(i)) /\ WF_survVars(SendTypeArray(i))

SurvFairSpec == SurvSpec /\ SurvFairness

-----------------------------------------------------------------------------
(* Properties. *)

Direct(i) == At(i, "PLAB_SELECT") /\ slot[i].issued
Refilling(i) == slot[i].pc \in {"READ_PLAB_PTR", "READ_PLAB_BUF", "READ_PLAB_TOPEND"}
Allocating(i) == slot[i].pc \in {"ALLOC_CACHE", "WAIT_ALLOC"}

States == {"IDLE", "ASTRAY", "READ_KLASS", "SIZE_DEICIDE", "DEST_ATTR_DECIDE", "AGE_DECIDE",
  "PLAB_SELECT", "READ_PLAB_PTR", "READ_PLAB_BUF", "READ_PLAB_TOPEND", "ALLOC_CACHE",
  "WAIT_ALLOC", "WRITE_FORCE_OLD", "DECIDE_FORWARD_PTR", "SEND_COPY_WORK",
  "SEND_TRACE_WORK", "GET_MONITOR_MW", "WRITE_MONITOR_MW", "WAIT_COPY_TRACE"}

SurvTypeOK ==
  /\ \A i \in SurvSlots :
       /\ slot[i].pc \in States /\ slot[i].cmd \in Cmds \cup {None}
       /\ slotValid(i) <=> slot[i].cmd # None
       /\ slot[i].owner \in Owners /\ slot[i].idx \in Plabs /\ slot[i].dest \in Nat
       /\ typeArrayPending[i] \in Owners \cup {None}
  /\ plabOpOwner \in [Plabs -> SurvSlots \cup {None}]
  /\ plabValid \in [Plabs -> BOOLEAN] /\ plabRefillBusy \in [Plabs -> BOOLEAN]
  /\ {copyOwner, traceOwner, allocOwner} \subseteq SurvSlots \cup {None}
  /\ olderSlot \in SurvSlots /\ sent \in 0 .. MaxObjects /\ placed \in [Cmds -> SUBSET Nat]

\* No word is given to two objects, nor to an object and a buffer's rest.
Promised(i) == IF Direct(i) THEN PlaceOf(i, slot[i].dest) ELSE {}
Rest(p) == memTop[p] .. (memEnd[p] - 1)
NoOverlap ==
  /\ \A c, d \in Cmds : c # d => placed[c] \cap placed[d] = {}
  /\ \A i \in SurvSlots : /\ \A c \in Cmds : Promised(i) \cap placed[c] = {}
                          /\ Promised(0) \cap Promised(1) = {}
  /\ \A p \in Plabs : Rest(p) \cap UNION {placed[c] : c \in Cmds} = {}
  /\ Rest(0) \cap Rest(1) = {}

\* GCOopProcess sees SurvivorSpec: an address told to all units, then Done with
\* that address, to the slot that asked.
Announced(a) == [stage |-> "announced", copy |-> a]
copier == [o \in Owners |->
  IF \E i \in SurvSlots : donePending[i] # None /\ donePending[i].owner = o
    THEN LET i == CHOOSE i \in SurvSlots : donePending[i] # None /\ donePending[i].owner = o
         IN Announced(donePending[i].dest)
  ELSE IF \E i \in SurvSlots : slotValid(i) /\ slot[i].owner = o
    THEN LET i == CHOOSE i \in SurvSlots : slotValid(i) /\ slot[i].owner = o
         IN IF slot[i].forwardDecided THEN Announced(slot[i].dest)
            ELSE [stage |-> "asked", copy |-> 0]
  ELSE [stage |-> "idle", copy |-> 0]]

Survivor == INSTANCE SurvivorSpec WITH Copies <- 1 .. HeapWords, NoCopy <- 0
ImplementsSurvivor == Survivor!Spec

\* Every object that was sent is done, whatever waits for whom at the buffers
\* and the shared units (unless a slot went on while its read was out); only so
\* many are sent, so that a time comes when none is left.
EveryObjectDone == (\E o \in Owners : InFlight(o)) ~>
  (\A o \in Owners : ~InFlight(o)) \/ \E i \in SurvSlots : At(i, "ASTRAY")
=============================================================================
