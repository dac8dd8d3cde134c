------------------------- MODULE GCAllocFreeRegion -------------------------
(***************************************************************************)
(* GCAllocFreeRegion (hwgc_acc/GCAllocFreeRegion.scala): takes a region    *)
(* off the JVM's free list, a doubly linked list in memory, at its head    *)
(* for an old region and at its tail for a survivor.  One action is one    *)
(* state of the machine; a memory access takes effect when it is accepted. *)
(***************************************************************************)
EXTENDS Integers, Sequences

CONSTANTS
  Regions,      \* the heap regions
  NoRegion,     \* the null pointer
  JvmOrder,     \* a free list as the JVM may leave it: a sequence of distinct regions
  LengthMod,    \* the length of the list is kept modulo this (2^32)
  MaxCycles     \* bound: cycles until the write of CLEAR_REMOVED_LINK is accepted

ASSUME FreeRegionAssumption ==
  /\ NoRegion \notin Regions
  /\ JvmOrder \in Seq(Regions)
  /\ \A i, j \in DOMAIN JvmOrder : JvmOrder[i] = JvmOrder[j] => i = j
  /\ LengthMod \in Nat \ {0}
  /\ MaxCycles \in Nat

Region0 == Regions \cup {NoRegion}

VARIABLES
  list,       \* memory: length, head, tail and last, the hint of an ordered insertion
  link,       \* memory: next and prev of every region
  fr,         \* the machine: its state and registers
  freeDone,   \* its answer, as GCNewGCAlloc latches it (allocFreeRegionDone)
  free        \* history: the list should hold JvmOrder[free.lo], ..., JvmOrder[free.hi];
              \* the JVM left it from free.first on

frVars == <<list, link, fr, freeDone, free>>

NoAnswer  == [valid |-> FALSE, region |-> NoRegion]
Found(r) == [valid |-> TRUE, region |-> r]

Index == free.lo .. free.hi

(* The ends of a list that holds JvmOrder[lo], ..., JvmOrder[hi], and the   *)
(* links of its i-th region.                                                *)
HeadOf(lo, hi) == IF lo <= hi THEN JvmOrder[lo] ELSE NoRegion
TailOf(lo, hi) == IF lo <= hi THEN JvmOrder[hi] ELSE NoRegion
LinkOf(lo, hi, i) == [next |-> IF i < hi THEN JvmOrder[i + 1] ELSE NoRegion,
                      prev |-> IF i > lo THEN JvmOrder[i - 1] ELSE NoRegion]

(* The list as the JVM left it: a suffix of JvmOrder, the hint null or one  *)
(* of its regions, the length right.                                        *)
FrInit ==
  /\ \E lo \in 1 .. Len(JvmOrder) + 1 : free = [first |-> lo, lo |-> lo, hi |-> Len(JvmOrder)]
  /\ list \in [length : {free.hi - free.lo + 1},
               head : {HeadOf(free.lo, free.hi)}, tail : {TailOf(free.lo, free.hi)},
               last : {NoRegion} \cup {JvmOrder[i] : i \in Index}]
  /\ link = [r \in Regions |->
       IF \E i \in Index : JvmOrder[i] = r
       THEN LinkOf(free.lo, free.hi, CHOOSE i \in Index : JvmOrder[i] = r)
       ELSE [next |-> NoRegion, prev |-> NoRegion]]
  /\ fr = [state |-> "IDLE", fromHead |-> FALSE, head |-> NoRegion, tail |-> NoRegion,
           last |-> NoRegion, length |-> 0, region |-> NoRegion, neighbor |-> NoRegion]
  /\ freeDone = NoAnswer

-----------------------------------------------------------------------------
FrAt(s) == fr.state = s

FrFinish(r) ==
  /\ freeDone' = Found(r)

(* IDLE: a command; an old region (type without bit 1) comes from the head. *)
FrCommand(fromHead) ==
  /\ FrAt("IDLE")
  /\ fr' = [fr EXCEPT !.state = "READ_LIST_META_0", !.fromHead = fromHead,
                      !.region = NoRegion, !.neighbor = NoRegion]
  /\ UNCHANGED <<list, link, free>>

(* Where head is read depends on the alignment of the list, no matter here: *)
(* nobody else writes the list between the two reads.                       *)
ReadListMeta0 ==
  /\ FrAt("READ_LIST_META_0")
  /\ fr' = [fr EXCEPT !.state = "READ_LIST_META_1", !.length = list.length]
  /\ UNCHANGED <<list, link, freeDone, free>>

ReadListMeta1 ==
  /\ FrAt("READ_LIST_META_1")
  /\ IF fr.length = 0
     THEN /\ FrFinish(NoRegion)
          /\ fr' = [fr EXCEPT !.state = "IDLE", !.head = list.head, !.tail = list.tail,
                              !.last = list.last]
     ELSE /\ fr' = [fr EXCEPT !.state = "READ_SELECTED_LINK", !.head = list.head,
                              !.tail = list.tail, !.last = list.last]
          /\ UNCHANGED freeDone
  /\ UNCHANGED <<list, link, free>>

selectedRegion  == IF fr.fromHead THEN fr.head ELSE fr.tail
selectedLink(r) == IF fr.fromHead THEN link[r].next ELSE link[r].prev

(* The read of a null candidate's link (an empty list with a length left)   *)
(* is a read of an unmapped page: it is never answered.                     *)
ReadSelectedLink ==
  /\ FrAt("READ_SELECTED_LINK") /\ selectedRegion # NoRegion
  /\ fr' = [fr EXCEPT !.state = "UPDATE_LIST_HEAD_TAIL", !.region = selectedRegion,
                      !.neighbor = selectedLink(selectedRegion)]
  /\ UNCHANGED <<list, link, freeDone, free>>

noNeighbor == fr.neighbor = NoRegion
isLast     == fr.region = fr.last

(* Mutant: the hint stays when the region it names is taken from the tail.  *)
NewListEndsKeepHint ==
  IF noNeighbor
  THEN [list EXCEPT !.head = NoRegion, !.tail = NoRegion]
  ELSE IF fr.fromHead THEN [list EXCEPT !.head = fr.neighbor, !.last = IF isLast THEN NoRegion ELSE @]
                      ELSE [list EXCEPT !.tail = fr.neighbor]

(* The fields of the list each of the four cases writes. *)
NewListEnds ==
  IF noNeighbor
  THEN [list EXCEPT !.head = NoRegion, !.tail = NoRegion,
                    !.last = IF isLast THEN NoRegion ELSE @]
  ELSE IF fr.fromHead
  THEN [list EXCEPT !.head = fr.neighbor, !.tail = IF isLast THEN fr.tail ELSE @,
                    !.last = IF isLast THEN NoRegion ELSE @]
  ELSE [list EXCEPT !.tail = fr.neighbor, !.last = IF isLast THEN NoRegion ELSE @]

UpdateListHeadTail ==
  /\ FrAt("UPDATE_LIST_HEAD_TAIL")
  /\ list' = NewListEnds
  /\ free' = IF fr.fromHead THEN [free EXCEPT !.lo = @ + 1] ELSE [free EXCEPT !.hi = @ - 1]
  /\ fr' = [fr EXCEPT !.state = IF noNeighbor THEN "CLEAR_REMOVED_LINK"
                                              ELSE "CLEAR_NEIGHBOR_LINK"]
  /\ UNCHANGED <<link, freeDone>>

ClearNeighborLink ==
  /\ FrAt("CLEAR_NEIGHBOR_LINK")
  /\ link' = IF fr.fromHead THEN [link EXCEPT ![fr.neighbor].prev = NoRegion]
                            ELSE [link EXCEPT ![fr.neighbor].next = NoRegion]
  /\ fr' = [fr EXCEPT !.state = "CLEAR_REMOVED_LINK"]
  /\ UNCHANGED <<list, freeDone, free>>

(* listLength is decremented in every cycle of the state: those in which    *)
(* the write waits to be accepted, and the one that leaves the state.       *)
ClearRemovedLink ==
  /\ FrAt("CLEAR_REMOVED_LINK")
  /\ link' = IF fr.fromHead THEN [link EXCEPT ![fr.region].next = NoRegion]
                            ELSE [link EXCEPT ![fr.region].prev = NoRegion]
  /\ \E waiting \in 1 .. MaxCycles :
       fr' = [fr EXCEPT !.state = "WRITE_LIST_LENGTH",
                        !.length = (@ - (waiting + 1)) % LengthMod]
  /\ UNCHANGED <<list, freeDone, free>>

WriteListLength ==
  /\ FrAt("WRITE_LIST_LENGTH")
  /\ list' = [list EXCEPT !.length = fr.length]
  /\ FrFinish(fr.region)
  /\ fr' = [fr EXCEPT !.state = "IDLE"]
  /\ UNCHANGED <<link, free>>

FrStep ==
  \/ ReadListMeta0 \/ ReadListMeta1 \/ ReadSelectedLink \/ UpdateListHeadTail
  \/ ClearNeighborLink \/ ClearRemovedLink \/ WriteListLength

-----------------------------------------------------------------------------
(* The unit on its own: its user asks again once it has taken the answer.   *)
FrAsk  == (\E h \in BOOLEAN : FrCommand(h)) /\ freeDone' = NoAnswer
FrNext == FrAsk \/ FrStep
FrSpec == FrInit /\ [][FrNext]_frVars

(* Both ends of the list, every link and the hint agree with the regions    *)
(* not taken, whichever end each of them left from; only the back link of   *)
(* the new end is late by one write.  What is answered has left the list.   *)
FreeListSound ==
  /\ list.head = HeadOf(free.lo, free.hi) /\ list.tail = TailOf(free.lo, free.hi)
  /\ \A i \in Index :
       \/ link[JvmOrder[i]] = LinkOf(free.lo, free.hi, i)
       \/ FrAt("CLEAR_NEIGHBOR_LINK") /\ JvmOrder[i] = fr.neighbor
  /\ list.last # NoRegion => \E i \in Index : JvmOrder[i] = list.last
  /\ \A i \in Index : freeDone # Found(JvmOrder[i])
=============================================================================
