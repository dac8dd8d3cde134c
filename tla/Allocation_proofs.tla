-------------------------- MODULE Allocation_proofs ---------------------------
(* The units behind a copy, each for any number of regions, words, cards    *)
(* and nodes.  A region of the free list is in the hands of one machine at  *)
(* a time on its way to an allocator; the words of an allocator's region go *)
(* to a PLAB, to objects or to a filler; the cards a job adds to the queue  *)
(* stand in it in their order, before and after it is written back.         *)
EXTENDS GCParAllocate, GCAllocate, GCAop, FiniteSetTheorems, TLAPS

Waiting == {"IDLE", "READ_LIST_META_0", "READ_LIST_META_1"}
Removed == {"CLEAR_NEIGHBOR_LINK", "CLEAR_REMOVED_LINK", "WRITE_LIST_LENGTH"}
FrStates == Waiting \union {"READ_SELECTED_LINK", "UPDATE_LIST_HEAD_TAIL"} \union Removed

FrTypes ==
  /\ free \in [first : Nat, lo : Nat, hi : Nat]
  /\ 1 <= free.lo /\ free.lo <= free.hi + 1 /\ free.hi <= Len(JvmOrder)
  /\ list \in [length : Int, head : Region0, tail : Region0, last : Region0]
  /\ link \in [Regions -> [next : Region0, prev : Region0]]
  /\ fr \in [state : FrStates, fromHead : BOOLEAN, head : Region0, tail : Region0,
             last : Region0, length : Int, region : Region0, neighbor : Region0]

Ends == list.head = HeadOf(free.lo, free.hi) /\ list.tail = TailOf(free.lo, free.hi)
Hint == list.last # NoRegion => \E i \in Index : JvmOrder[i] = list.last

NextOf(i) == IF i < free.hi THEN JvmOrder[i + 1] ELSE NoRegion
PrevOf(i) == IF i > free.lo THEN JvmOrder[i - 1] ELSE NoRegion
Late(i) == fr.state = "CLEAR_NEIGHBOR_LINK" /\ JvmOrder[i] = fr.neighbor
Links ==
  \A i \in Index :
    /\ link[JvmOrder[i]].next = NextOf(i) \/ (Late(i) /\ ~fr.fromHead)
    /\ link[JvmOrder[i]].prev = PrevOf(i) \/ (Late(i) /\ fr.fromHead)

\* What the machine knows of the list.
Reads ==
  /\ fr.state \in {"READ_SELECTED_LINK", "UPDATE_LIST_HEAD_TAIL"} =>
       fr.head = list.head /\ fr.tail = list.tail /\ fr.last = list.last
  /\ fr.state = "UPDATE_LIST_HEAD_TAIL" =>
       /\ free.lo <= free.hi
       /\ fr.region = JvmOrder[IF fr.fromHead THEN free.lo ELSE free.hi]
       /\ fr.neighbor = IF fr.fromHead THEN NextOf(free.lo) ELSE PrevOf(free.hi)
  /\ fr.state = "CLEAR_NEIGHBOR_LINK" =>
       /\ free.lo <= free.hi
       /\ fr.neighbor = JvmOrder[IF fr.fromHead THEN free.lo ELSE free.hi]

\* What was taken is not in the list, and is not answered before it is off.
Taken ==
  /\ fr.state \in Removed => fr.region \in Regions /\ \A i \in Index : JvmOrder[i] # fr.region
  /\ fr.state # "IDLE" => freeDone = NoAnswer
  /\ \A i \in Index : freeDone # Found(JvmOrder[i])

FrInv == FrTypes /\ Ends /\ Hint /\ Links /\ Reads /\ Taken

-----------------------------------------------------------------------------
\* The regions of the list have an order and are all different.
LEMMA Order ==
  ASSUME FreeRegionAssumption, FrTypes
  PROVE  /\ Index \subseteq DOMAIN JvmOrder /\ Index \subseteq Nat
         /\ \A i \in Index : JvmOrder[i] \in Regions /\ JvmOrder[i] # NoRegion
         /\ \A i, j \in Index : JvmOrder[i] = JvmOrder[j] => i = j
<1>1. JvmOrder \in Seq(Regions) /\ Len(JvmOrder) \in Nat /\ DOMAIN JvmOrder = 1 .. Len(JvmOrder)
  BY DEF FreeRegionAssumption
<1>2. Index \subseteq DOMAIN JvmOrder /\ Index \subseteq Nat
  BY <1>1 DEF Index, FrTypes
<1>3. \A i \in DOMAIN JvmOrder : JvmOrder[i] \in Regions
  BY <1>1
<1>4. QED
  BY <1>2, <1>3 DEF FreeRegionAssumption

\* The list the JVM leaves is sound and the machine idle.
LEMMA FrInvInit == FreeRegionAssumption /\ FrInit => FrInv
<1> SUFFICES ASSUME FreeRegionAssumption, FrInit PROVE FrInv
  OBVIOUS
<1>1. JvmOrder \in Seq(Regions) /\ Len(JvmOrder) \in Nat /\ DOMAIN JvmOrder = 1 .. Len(JvmOrder)
      /\ \A i \in DOMAIN JvmOrder : JvmOrder[i] \in Regions /\ JvmOrder[i] # NoRegion
  BY DEF FreeRegionAssumption
<1>2. free \in [first : Nat, lo : Nat, hi : Nat] /\ 1 <= free.lo /\ free.lo <= free.hi + 1
      /\ free.hi = Len(JvmOrder) /\ Index \subseteq DOMAIN JvmOrder
  BY <1>1 DEF FrInit, Index
<1>3. \A i \in Index : LinkOf(free.lo, free.hi, i) \in [next : Region0, prev : Region0]
  BY <1>1, <1>2 DEF LinkOf, Index, Region0
<1>4. /\ list.head = HeadOf(free.lo, free.hi) /\ list.tail = TailOf(free.lo, free.hi)
      /\ list.last \in {NoRegion} \cup {JvmOrder[i] : i \in Index}
      /\ list \in [length : Int, head : Region0, tail : Region0, last : Region0]
  BY <1>1, <1>2 DEF FrInit, HeadOf, TailOf, Region0, Index
<1>5. ASSUME NEW i \in Index
      PROVE  link[JvmOrder[i]] = LinkOf(free.lo, free.hi, i)
  <2>1. (CHOOSE j \in Index : JvmOrder[j] = JvmOrder[i]) = i
    BY <1>2 DEF FreeRegionAssumption
  <2>2. JvmOrder[i] \in Regions
    BY <1>1, <1>2
  <2>3. QED
    BY <2>1, <2>2 DEF FrInit
<1>6. link \in [Regions -> [next : Region0, prev : Region0]]
  <2>1. ASSUME NEW r \in Regions PROVE link[r] \in [next : Region0, prev : Region0]
    <3>1. CASE \E i \in Index : JvmOrder[i] = r
      BY <1>3, <1>5, <3>1
    <3>2. CASE ~ \E i \in Index : JvmOrder[i] = r
      BY <3>2 DEF FrInit, Region0
    <3>3. QED
      BY <3>1, <3>2
  <2>2. link = [r \in Regions |-> link[r]]
    BY DEF FrInit
  <2>3. QED
    BY <2>1, <2>2
<1>7. fr \in [state : FrStates, fromHead : BOOLEAN, head : Region0, tail : Region0,
              last : Region0, length : Int, region : Region0, neighbor : Region0]
      /\ fr.state = "IDLE" /\ freeDone = NoAnswer
  BY DEF FrInit, FrStates, Waiting, Removed, Region0
<1>8. FrTypes
  BY <1>2, <1>4, <1>6, <1>7 DEF FrTypes
<1>9. Links
  <2>1. ASSUME NEW i \in Index
        PROVE  link[JvmOrder[i]].next = NextOf(i) /\ link[JvmOrder[i]].prev = PrevOf(i)
    <3>1. link[JvmOrder[i]] = LinkOf(free.lo, free.hi, i)
      BY <1>5
    <3>2. QED
      BY <3>1 DEF LinkOf, NextOf, PrevOf
  <2>2. QED
    BY <2>1 DEF Links
<1>10. Ends /\ Hint /\ Reads /\ Taken
  BY <1>4, <1>7 DEF Ends, Hint, Reads, Taken, Removed, NoAnswer, Found
<1>11. QED
  BY <1>8, <1>9, <1>10 DEF FrInv

-----------------------------------------------------------------------------
\* A step that leaves the list, its links and the regions alone and does not go
\* where something has to be known of them.
LEMMA QuietKeeps ==
  ASSUME FrInv, UNCHANGED <<list, link, free>>, fr.state \in Waiting, fr'.state \in Waiting,
         fr' \in [state : FrStates, fromHead : BOOLEAN, head : Region0, tail : Region0,
                  last : Region0, length : Int, region : Region0, neighbor : Region0],
         fr'.state # "IDLE" => freeDone' = NoAnswer,
         freeDone' = NoAnswer \/ (freeDone' = Found(NoRegion) /\ FreeRegionAssumption)
  PROVE  FrInv'
<1>1. FrTypes' /\ Index' = Index
  BY DEF FrInv, FrTypes, Index
<1>2. Ends' /\ Hint'
  BY <1>1 DEF FrInv, Ends, Hint
<1>3. Links'
  BY <1>1 DEF FrInv, Links, Late, NextOf, PrevOf, Waiting
<1>4. Reads'
  BY DEF Reads, Waiting
<1>5. \A i \in Index : freeDone' # Found(JvmOrder[i])
  <2>1. CASE freeDone' = NoAnswer
    BY <2>1 DEF NoAnswer, Found
  <2>2. CASE freeDone' = Found(NoRegion) /\ FreeRegionAssumption
    BY <2>2, Order DEF FrInv, Found
  <2>3. QED
    BY <2>1, <2>2
<1>6. Taken'
  BY <1>1, <1>5 DEF Taken, Waiting, Removed
<1>7. QED
  BY <1>1, <1>2, <1>3, <1>4, <1>6 DEF FrInv

\* A call starts the machine.
LEMMA AskKeeps == ASSUME FreeRegionAssumption, FrInv, FrAsk PROVE FrInv'
<1>1. /\ fr' \in [state : FrStates, fromHead : BOOLEAN, head : Region0, tail : Region0,
                  last : Region0, length : Int, region : Region0, neighbor : Region0]
      /\ fr'.state = "READ_LIST_META_0" /\ fr.state = "IDLE" /\ freeDone' = NoAnswer
  BY ZenonT(30) DEF FrAsk, FrCommand, FrAt, FrInv, FrTypes, FrStates, Waiting, Region0
<1>2. QED
  BY <1>1, QuietKeeps DEF FrAsk, FrCommand, Waiting

\* The machine reads the length of the list.
LEMMA Meta0Keeps == ASSUME FreeRegionAssumption, FrInv, ReadListMeta0 PROVE FrInv'
<1>1. /\ fr' \in [state : FrStates, fromHead : BOOLEAN, head : Region0, tail : Region0,
                  last : Region0, length : Int, region : Region0, neighbor : Region0]
      /\ fr'.state = "READ_LIST_META_1" /\ fr.state = "READ_LIST_META_0"
  BY DEF ReadListMeta0, FrAt, FrInv, FrTypes, FrStates, Waiting
<1>2. freeDone' = NoAnswer
  BY <1>1 DEF ReadListMeta0, FrInv, Taken
<1>3. QED
  BY <1>1, <1>2, QuietKeeps DEF ReadListMeta0, Waiting

\* It reads the ends and the hint, or finds the list empty.
LEMMA Meta1Keeps == ASSUME FreeRegionAssumption, FrInv, ReadListMeta1 PROVE FrInv'
<1>1. fr.state = "READ_LIST_META_1" /\ freeDone = NoAnswer
  BY DEF ReadListMeta1, FrAt, FrInv, Taken
<1>2. CASE fr.length = 0
  <2>1. /\ fr' \in [state : FrStates, fromHead : BOOLEAN, head : Region0, tail : Region0,
                    last : Region0, length : Int, region : Region0, neighbor : Region0]
        /\ fr'.state = "IDLE" /\ freeDone' = Found(NoRegion)
    BY <1>2 DEF ReadListMeta1, FrFinish, FrInv, FrTypes, FrStates, Waiting
  <2>2. QED
    BY <1>1, <2>1, QuietKeeps DEF ReadListMeta1, Waiting
<1>3. CASE fr.length # 0
  <2>1. /\ fr' = [fr EXCEPT !.state = "READ_SELECTED_LINK", !.head = list.head,
                            !.tail = list.tail, !.last = list.last]
        /\ freeDone' = NoAnswer /\ UNCHANGED <<list, link, free>>
    BY <1>1, <1>3 DEF ReadListMeta1
  <2>2. FrTypes' /\ Index' = Index
    BY <2>1 DEF FrInv, FrTypes, FrStates, Index
  <2>3. fr'.state = "READ_SELECTED_LINK" /\ fr'.head = list.head /\ fr'.tail = list.tail
        /\ fr'.last = list.last
    BY <2>1 DEF FrInv, FrTypes
  <2>4. Ends' /\ Hint' /\ Reads'
    BY <2>1, <2>2, <2>3 DEF FrInv, Ends, Hint, Reads
  <2>5. Links'
    BY <1>1, <2>1, <2>2, <2>3 DEF FrInv, Links, Late, NextOf, PrevOf
  <2>6. Taken'
    BY <2>1, <2>2, <2>3 DEF Taken, Removed, NoAnswer, Found
  <2>7. QED
    BY <2>2, <2>4, <2>5, <2>6 DEF FrInv
<1>4. QED
  BY <1>2, <1>3

\* The machine reads the link of the region it is to take.
LEMMA SelectKeeps == ASSUME FreeRegionAssumption, FrInv, ReadSelectedLink PROVE FrInv'
<1>1. /\ fr.state = "READ_SELECTED_LINK" /\ freeDone' = NoAnswer /\ freeDone = NoAnswer
      /\ fr.head = list.head /\ fr.tail = list.tail /\ fr.last = list.last
      /\ selectedRegion # NoRegion /\ UNCHANGED <<list, link, free>>
  BY DEF ReadSelectedLink, FrAt, FrInv, Taken, Reads
<1>2. free.lo <= free.hi /\ free.lo \in Index /\ free.hi \in Index
      /\ selectedRegion = JvmOrder[IF fr.fromHead THEN free.lo ELSE free.hi]
  BY <1>1 DEF FrInv, FrTypes, Ends, HeadOf, TailOf, selectedRegion, Index
<1>3. selectedRegion \in Regions
  BY <1>2, Order DEF FrInv
<1>4. selectedLink(selectedRegion) = IF fr.fromHead THEN NextOf(free.lo) ELSE PrevOf(free.hi)
  BY <1>1, <1>2 DEF FrInv, Links, Late, selectedLink
<1>5. selectedLink(selectedRegion) \in Region0
  BY <1>3 DEF FrInv, FrTypes, selectedLink
<1>6. fr' = [fr EXCEPT !.state = "UPDATE_LIST_HEAD_TAIL", !.region = selectedRegion,
                       !.neighbor = selectedLink(selectedRegion)]
  BY DEF ReadSelectedLink
<1>7. FrTypes' /\ Index' = Index
  BY <1>1, <1>3, <1>5, <1>6 DEF FrInv, FrTypes, FrStates, Index, Region0
<1>8. /\ fr'.state = "UPDATE_LIST_HEAD_TAIL" /\ fr'.region = selectedRegion
      /\ fr'.neighbor = selectedLink(selectedRegion) /\ fr'.fromHead = fr.fromHead
      /\ fr'.head = fr.head /\ fr'.tail = fr.tail /\ fr'.last = fr.last
  BY <1>6 DEF FrInv, FrTypes
<1>9. Ends' /\ Hint'
  BY <1>1, <1>7 DEF FrInv, Ends, Hint
<1>10. Reads'
  BY <1>1, <1>2, <1>4, <1>8 DEF Reads, NextOf, PrevOf
<1>11. Links'
  BY <1>1, <1>7, <1>8 DEF FrInv, Links, Late, NextOf, PrevOf
<1>12. Taken'
  BY <1>1, <1>7, <1>8 DEF Taken, Removed, NoAnswer, Found
<1>13. QED
  BY <1>7, <1>9, <1>10, <1>11, <1>12 DEF FrInv

\* The four ways the ends of the list are written.
LEMMA UpdateKeeps == ASSUME FreeRegionAssumption, FrInv, UpdateListHeadTail PROVE FrInv'
<1>1. /\ fr.state = "UPDATE_LIST_HEAD_TAIL" /\ freeDone' = freeDone /\ freeDone = NoAnswer
      /\ fr.tail = list.tail /\ fr.last = list.last /\ link' = link /\ list' = NewListEnds
      /\ fr' = [fr EXCEPT !.state = IF noNeighbor THEN "CLEAR_REMOVED_LINK"
           ELSE "CLEAR_NEIGHBOR_LINK"]
      /\ free.lo <= free.hi
      /\ fr.region = JvmOrder[IF fr.fromHead THEN free.lo ELSE free.hi]
      /\ fr.neighbor = IF fr.fromHead THEN NextOf(free.lo) ELSE PrevOf(free.hi)
  BY DEF UpdateListHeadTail, FrAt, FrInv, Taken, Reads
<1>2. /\ free.lo \in Nat /\ free.hi \in Nat /\ 1 <= free.lo /\ free.hi <= Len(JvmOrder)
      /\ Len(JvmOrder) \in Nat /\ fr.fromHead \in BOOLEAN
  BY DEF FrInv, FrTypes, FreeRegionAssumption
<1>3. /\ free'.lo = IF fr.fromHead THEN free.lo + 1 ELSE free.lo
      /\ free'.hi = IF fr.fromHead THEN free.hi ELSE free.hi - 1
      /\ free' \in [first : Nat, lo : Nat, hi : Nat]
  BY <1>1, <1>2, SMTT(30) DEF UpdateListHeadTail, FrInv, FrTypes
<1>4. /\ Index' \subseteq Index
      /\ \A i \in Index' : i # (IF fr.fromHead THEN free.lo ELSE free.hi)
      /\ \A i \in Index : i = (IF fr.fromHead THEN free.lo ELSE free.hi) \/ i \in Index'
      /\ \A i \in Index : i \in Nat
      /\ (IF fr.fromHead THEN free.lo ELSE free.hi) \in Index
  BY <1>1, <1>2, <1>3 DEF Index
<1>5. /\ \A i \in Index : JvmOrder[i] \in Regions /\ JvmOrder[i] # NoRegion
      /\ \A i, j \in Index : JvmOrder[i] = JvmOrder[j] => i = j
  BY Order DEF FrInv
<1>6. fr.region \in Regions /\ \A i \in Index' : JvmOrder[i] # fr.region
  BY <1>1, <1>4, <1>5
<1>7. noNeighbor <=> free.lo = free.hi
  BY <1>1, <1>2, <1>5 DEF noNeighbor, NextOf, PrevOf, Index
<1>8. /\ fr'.state = IF noNeighbor THEN "CLEAR_REMOVED_LINK" ELSE "CLEAR_NEIGHBOR_LINK"
      /\ fr'.fromHead = fr.fromHead /\ fr'.region = fr.region /\ fr'.neighbor = fr.neighbor
      /\ fr' \in [state : FrStates, fromHead : BOOLEAN, head : Region0, tail : Region0,
                  last : Region0, length : Int, region : Region0, neighbor : Region0]
  BY <1>1 DEF FrInv, FrTypes, FrStates, Removed
<1>9. /\ list'.head = IF noNeighbor THEN NoRegion ELSE IF fr.fromHead THEN fr.neighbor
           ELSE list.head
      /\ list'.tail = IF noNeighbor THEN NoRegion ELSE IF fr.fromHead THEN list.tail
           ELSE fr.neighbor
      /\ list'.last = IF fr.region = list.last THEN NoRegion ELSE list.last
      /\ list' \in [length : Int, head : Region0, tail : Region0, last : Region0]
  <2>1. list \in [length : Int, head : Region0, tail : Region0, last : Region0]
        /\ fr.neighbor \in Region0 /\ fr.tail \in Region0 /\ NoRegion \in Region0
    BY DEF FrInv, FrTypes, Region0
  <2>2. CASE noNeighbor
    BY <1>1, <2>1, <2>2 DEF NewListEnds, isLast
  <2>3. CASE ~noNeighbor /\ fr.fromHead
    BY <1>1, <2>1, <2>3 DEF NewListEnds, isLast
  <2>4. CASE ~noNeighbor /\ ~fr.fromHead
    BY <1>1, <2>1, <2>4 DEF NewListEnds, isLast
  <2>5. QED
    BY <1>2, <2>2, <2>3, <2>4
<1>10. FrTypes'
  <2>1. 1 <= free'.lo /\ free'.lo <= free'.hi + 1 /\ free'.hi <= Len(JvmOrder)
    BY <1>1, <1>2, <1>3
  <2>2. QED
    BY <1>1, <1>3, <1>8, <1>9, <2>1 DEF FrInv, FrTypes
<1>11. Ends'
  <2>1. list.head = JvmOrder[free.lo] /\ list.tail = JvmOrder[free.hi]
    BY <1>1 DEF FrInv, Ends, HeadOf, TailOf
  <2>2. list'.head = HeadOf(free'.lo, free'.hi)
    BY <1>1, <1>2, <1>3, <1>7, <1>9, <2>1 DEF HeadOf, NextOf
  <2>3. list'.tail = TailOf(free'.lo, free'.hi)
    BY <1>1, <1>2, <1>3, <1>7, <1>9, <2>1 DEF TailOf, PrevOf
  <2>4. QED
    BY <2>2, <2>3 DEF Ends
<1>12. Hint'
  <2>1. ASSUME list'.last # NoRegion PROVE \E i \in Index' : JvmOrder[i] = list'.last
    <3>1. list'.last = list.last /\ list.last # fr.region
      BY <1>9, <2>1
    <3>2. PICK i \in Index : JvmOrder[i] = list.last
      BY <2>1, <3>1 DEF FrInv, Hint
    <3>3. i \in Index'
      BY <1>1, <1>4, <3>1, <3>2
    <3>4. QED
      BY <3>1, <3>2, <3>3
  <2>2. QED
    BY <2>1 DEF Hint
<1>13. Reads'
  <2>1. CASE noNeighbor
    BY <1>8, <2>1 DEF Reads
  <2>2. CASE ~noNeighbor
    <3>1. free'.lo <= free'.hi
      BY <1>1, <1>2, <1>3, <1>7, <2>2
    <3>2. fr'.neighbor = JvmOrder[IF fr'.fromHead THEN free'.lo ELSE free'.hi]
      BY <1>1, <1>2, <1>3, <1>7, <1>8, <2>2 DEF NextOf, PrevOf
    <3>3. QED
      BY <1>8, <2>2, <3>1, <3>2 DEF Reads
  <2>3. QED
    BY <2>1, <2>2
<1>14. Links'
  <2>1. ASSUME NEW i \in Index'
        PROVE  /\ link'[JvmOrder[i]].next = NextOf(i)' \/ (Late(i)' /\ ~fr'.fromHead)
               /\ link'[JvmOrder[i]].prev = PrevOf(i)' \/ (Late(i)' /\ fr'.fromHead)
    <3>1. i \in Index /\ i \in Nat /\ free'.lo <= i /\ i <= free'.hi
      BY <1>3, <1>4, <2>1 DEF Index
    <3>2. link[JvmOrder[i]].next = NextOf(i) /\ link[JvmOrder[i]].prev = PrevOf(i)
      BY <1>1, <3>1 DEF FrInv, Links, Late
    <3>3. ~noNeighbor
      BY <1>1, <1>2, <1>3, <1>7, <3>1
    <3>4. CASE fr.fromHead
      <4>1. NextOf(i)' = NextOf(i) /\ (PrevOf(i)' = PrevOf(i) \/ i = free.lo + 1)
        BY <1>2, <1>3, <3>1, <3>4 DEF NextOf, PrevOf
      <4>2. i = free.lo + 1 => Late(i)'
        BY <1>1, <1>2, <1>3, <1>8, <3>1, <3>3, <3>4 DEF Late, NextOf
      <4>3. QED
        BY <1>1, <1>8, <3>2, <3>4, <4>1, <4>2
    <3>5. CASE ~fr.fromHead
      <4>1. PrevOf(i)' = PrevOf(i) /\ (NextOf(i)' = NextOf(i) \/ i = free.hi - 1)
        BY <1>2, <1>3, <3>1, <3>5 DEF NextOf, PrevOf
      <4>2. i = free.hi - 1 => Late(i)'
        BY <1>1, <1>2, <1>3, <1>8, <3>1, <3>3, <3>5 DEF Late, PrevOf
      <4>3. QED
        BY <1>1, <1>8, <3>2, <3>5, <4>1, <4>2
    <3>6. QED
      BY <3>4, <3>5
  <2>2. QED
    BY <2>1 DEF Links
<1>15. Taken'
  BY <1>1, <1>6, <1>8 DEF Taken, NoAnswer, Found
<1>16. QED
  BY <1>10, <1>11, <1>12, <1>13, <1>14, <1>15 DEF FrInv

\* The new end loses its link to the region taken.
LEMMA NeighborKeeps == ASSUME FreeRegionAssumption, FrInv, ClearNeighborLink PROVE FrInv'
<1>1. /\ fr.state = "CLEAR_NEIGHBOR_LINK" /\ UNCHANGED <<list, freeDone, free>>
      /\ fr' = [fr EXCEPT !.state = "CLEAR_REMOVED_LINK"]
      /\ free.lo <= free.hi
      /\ fr.neighbor = JvmOrder[IF fr.fromHead THEN free.lo ELSE free.hi]
  BY DEF ClearNeighborLink, FrAt, FrInv, Reads
<1>2. /\ fr'.state = "CLEAR_REMOVED_LINK" /\ fr'.region = fr.region
      /\ fr' \in [state : FrStates, fromHead : BOOLEAN, head : Region0, tail : Region0,
                  last : Region0, length : Int, region : Region0, neighbor : Region0]
  BY <1>1 DEF FrInv, FrTypes, FrStates, Removed
<1>3. /\ Index' = Index /\ free.lo \in Index /\ free.hi \in Index
      /\ \A i \in Index : JvmOrder[i] \in Regions
      /\ \A i, j \in Index : JvmOrder[i] = JvmOrder[j] => i = j
  BY <1>1, Order DEF Index, FrInv, FrTypes
<1>4. fr.neighbor \in Regions
  BY <1>1, <1>3
<1>5. link' \in [Regions -> [next : Region0, prev : Region0]]
  BY <1>4 DEF ClearNeighborLink, FrInv, FrTypes, Region0
<1>6. FrTypes'
  BY <1>1, <1>2, <1>5 DEF FrInv, FrTypes
<1>7. Ends' /\ Hint' /\ Reads'
  BY <1>1, <1>2, <1>3 DEF FrInv, Ends, Hint, Reads
<1>8. ASSUME NEW i \in Index
      PROVE  link'[JvmOrder[i]].next = NextOf(i) /\ link'[JvmOrder[i]].prev = PrevOf(i)
  <2>1. link[JvmOrder[i]] \in [next : Region0, prev : Region0] /\ JvmOrder[i] \in Regions
    BY <1>3 DEF FrInv, FrTypes
  <2>2. CASE JvmOrder[i] # fr.neighbor
    <3>1. link'[JvmOrder[i]] = link[JvmOrder[i]]
      BY <1>4, <2>1, <2>2 DEF ClearNeighborLink, FrInv, FrTypes
    <3>2. QED
      BY <2>2, <3>1 DEF FrInv, Links, Late
  <2>3. CASE JvmOrder[i] = fr.neighbor /\ fr.fromHead
    <3>1. i = free.lo
      BY <1>1, <1>3, <2>3
    <3>2. link'[JvmOrder[i]] = [link[JvmOrder[i]] EXCEPT !.prev = NoRegion]
      BY <1>4, <2>1, <2>3 DEF ClearNeighborLink, FrInv, FrTypes
    <3>3. link'[JvmOrder[i]].next = link[JvmOrder[i]].next /\ link'[JvmOrder[i]].prev = NoRegion
      BY <2>1, <3>2
    <3>4. PrevOf(i) = NoRegion /\ link[JvmOrder[i]].next = NextOf(i)
      BY <2>3, <3>1 DEF PrevOf, FrInv, FrTypes, Links
    <3>5. QED
      BY <3>3, <3>4
  <2>4. CASE JvmOrder[i] = fr.neighbor /\ ~fr.fromHead
    <3>1. i = free.hi
      BY <1>1, <1>3, <2>4
    <3>2. link'[JvmOrder[i]] = [link[JvmOrder[i]] EXCEPT !.next = NoRegion]
      BY <1>4, <2>1, <2>4 DEF ClearNeighborLink, FrInv, FrTypes
    <3>3. link'[JvmOrder[i]].prev = link[JvmOrder[i]].prev /\ link'[JvmOrder[i]].next = NoRegion
      BY <2>1, <3>2
    <3>4. NextOf(i) = NoRegion /\ link[JvmOrder[i]].prev = PrevOf(i)
      BY <2>4, <3>1 DEF NextOf, FrInv, FrTypes, Links
    <3>5. QED
      BY <3>3, <3>4
  <2>5. QED
    BY <2>2, <2>3, <2>4
<1>9. Links'
  BY <1>1, <1>3, <1>8 DEF Links, NextOf, PrevOf
<1>10. Taken'
  BY <1>1, <1>2, <1>3 DEF FrInv, Taken, Removed
<1>11. QED
  BY <1>6, <1>7, <1>9, <1>10 DEF FrInv

\* The region taken loses its links.
LEMMA RemovedKeeps == ASSUME FreeRegionAssumption, FrInv, ClearRemovedLink PROVE FrInv'
<1>1. /\ fr.state = "CLEAR_REMOVED_LINK" /\ UNCHANGED <<list, freeDone, free>>
      /\ fr.region \in Regions /\ \A i \in Index : JvmOrder[i] # fr.region
      /\ Index' = Index
  BY DEF ClearRemovedLink, FrAt, FrInv, Taken, Removed, Index
<1>2. /\ fr'.state = "WRITE_LIST_LENGTH" /\ fr'.region = fr.region
      /\ fr' \in [state : FrStates, fromHead : BOOLEAN, head : Region0, tail : Region0,
                  last : Region0, length : Int, region : Region0, neighbor : Region0]
  <2>1. fr \in [state : FrStates, fromHead : BOOLEAN, head : Region0, tail : Region0,
                last : Region0, length : Int, region : Region0, neighbor : Region0]
        /\ LengthMod \in Nat \ {0}
    BY DEF FrInv, FrTypes, FreeRegionAssumption
  <2>2. PICK waiting \in 1 .. MaxCycles :
          fr' = [fr EXCEPT !.state = "WRITE_LIST_LENGTH",
                           !.length = (fr.length - (waiting + 1)) % LengthMod]
    BY DEF ClearRemovedLink
  <2>3. (fr.length - (waiting + 1)) % LengthMod \in Int
    BY <2>1, <2>2 DEF FreeRegionAssumption
  <2>4. QED
    BY <2>1, <2>2, <2>3 DEF FrStates, Removed
<1>3. link' \in [Regions -> [next : Region0, prev : Region0]]
  BY <1>1 DEF ClearRemovedLink, FrInv, FrTypes, Region0
<1>4. FrTypes'
  BY <1>1, <1>2, <1>3 DEF FrInv, FrTypes
<1>5. Ends' /\ Hint' /\ Reads'
  BY <1>1, <1>2 DEF FrInv, Ends, Hint, Reads
<1>6. \A i \in Index : JvmOrder[i] \in Regions
  BY Order DEF FrInv
<1>7. \A i \in Index : link'[JvmOrder[i]] = link[JvmOrder[i]]
  BY <1>1, <1>6 DEF ClearRemovedLink, FrInv, FrTypes
<1>8. Links'
  <2>1. \A i \in Index : NextOf(i)' = NextOf(i) /\ PrevOf(i)' = PrevOf(i) /\ ~Late(i)
    BY <1>1 DEF NextOf, PrevOf, Late
  <2>2. QED
    BY <1>1, <1>7, <2>1 DEF FrInv, Links
<1>9. Taken'
  BY <1>1, <1>2 DEF FrInv, Taken, Removed
<1>10. QED
  BY <1>4, <1>5, <1>8, <1>9 DEF FrInv

\* The length is written and the region answered.
LEMMA LengthKeeps == ASSUME FreeRegionAssumption, FrInv, WriteListLength PROVE FrInv'
<1>1. /\ fr.state = "WRITE_LIST_LENGTH" /\ UNCHANGED <<link, free>> /\ Index' = Index
      /\ freeDone' = Found(fr.region) /\ fr' = [fr EXCEPT !.state = "IDLE"]
      /\ list' = [list EXCEPT !.length = fr.length]
      /\ \A i \in Index : JvmOrder[i] # fr.region
  BY DEF WriteListLength, FrFinish, FrAt, FrInv, Taken, Removed, Index
<1>2. FrTypes' /\ fr'.state = "IDLE"
      /\ list'.head = list.head /\ list'.tail = list.tail /\ list'.last = list.last
  BY <1>1 DEF FrInv, FrTypes, FrStates, Waiting
<1>3. Ends' /\ Hint' /\ Reads'
  BY <1>1, <1>2 DEF FrInv, Ends, Hint, Reads
<1>4. Links'
  <2>1. \A i \in Index : NextOf(i)' = NextOf(i) /\ PrevOf(i)' = PrevOf(i) /\ ~Late(i)
    BY <1>1 DEF NextOf, PrevOf, Late
  <2>2. QED
    BY <1>1, <2>1 DEF FrInv, Links
<1>5. Taken'
  BY <1>1, <1>2 DEF Taken, Removed, Found
<1>6. QED
  BY <1>2, <1>3, <1>4, <1>5 DEF FrInv

\* The step relation.
LEMMA FrInvStep == FreeRegionAssumption /\ FrInv /\ [FrNext]_frVars => FrInv'
<1> SUFFICES ASSUME FreeRegionAssumption, FrInv, [FrNext]_frVars PROVE FrInv'
  OBVIOUS
<1>1. CASE UNCHANGED frVars
  BY <1>1 DEF frVars, FrInv, FrTypes, Ends, Hint, Links, Late, NextOf, PrevOf, Reads, Taken, Index
<1>2. CASE FrAsk
  BY <1>2, AskKeeps
<1>3. CASE FrStep
  BY <1>3, Meta0Keeps, Meta1Keeps, SelectKeeps, UpdateKeeps, NeighborKeeps, RemovedKeeps,
     LengthKeeps
  DEF FrStep
<1>4. QED
  BY <1>1, <1>2, <1>3 DEF FrNext

\* The invariant implies the property.
LEMMA FrInvShows == FreeRegionAssumption /\ FrInv => FreeListSound
<1> SUFFICES ASSUME FreeRegionAssumption, FrInv PROVE FreeListSound
  OBVIOUS
<1>1. ASSUME NEW i \in Index
      PROVE  \/ link[JvmOrder[i]] = LinkOf(free.lo, free.hi, i)
             \/ FrAt("CLEAR_NEIGHBOR_LINK") /\ JvmOrder[i] = fr.neighbor
  <2>1. CASE Late(i)
    BY <2>1 DEF Late, FrAt
  <2>2. CASE ~Late(i)
    <3>1. link[JvmOrder[i]].next = NextOf(i) /\ link[JvmOrder[i]].prev = PrevOf(i)
      BY <2>2 DEF FrInv, Links
    <3>2. link[JvmOrder[i]] \in [next : Region0, prev : Region0]
      BY Order DEF FrInv, FrTypes
    <3>3. link[JvmOrder[i]] = [next |-> NextOf(i), prev |-> PrevOf(i)]
      BY <3>1, <3>2
    <3>4. QED
      BY <3>3 DEF LinkOf, NextOf, PrevOf
  <2>3. QED
    BY <2>1, <2>2
<1>2. QED
  BY <1>1 DEF FrInv, Ends, Hint, Taken, FreeListSound

-----------------------------------------------------------------------------
\* A free list of any length stays a sound list while regions are taken off
\* either end of it.
THEOREM ListSound == FrSpec => []FreeListSound
<1>1. FrInit => FrInv
  BY FrInvInit, FreeRegionAssumption
<1>2. FrInv /\ [FrNext]_frVars => FrInv'
  BY FrInvStep, FreeRegionAssumption
<1>3. FrInv => FreeListSound
  BY FrInvShows, FreeRegionAssumption
<1>4. QED
  BY <1>1, <1>2, <1>3, PTL DEF FrSpec

-----------------------------------------------------------------------------
(* GCParAllocate and what it commands.  The invariant behind                *)
(* RegionsAccounted follows a region from the list to the allocator: it is  *)
(* in the hands of one machine at a time (InHand), and belongs to an        *)
(* allocator (Known) from the cycle it is installed.                        *)
AnyRegion == Region0 \cup {DummyRegion}
Answers   == [valid : BOOLEAN, region : Region0]

NgAsking  == {"READ_NODE_INDEX", "CALL_ALLOC_FREE"}
NgStoring == {"READ_GROW_ARRAY", "READ_DATA_PTR", "WRITE_GROW_ARRAY_LEN", "WRITE_GROW_ARRAY_ITEM",
              "SEND_GROW_IRQ"}
NgListing == {"READ_REGION_INFO", "FINAL_UPDATE", "WRITE_REGION_ATTR"}
NgHas     == {"WRITE_REGION_TYPE"} \cup NgStoring \cup NgListing
NgStates  == {"IDLE", "WAIT_ALLOC_AND_CONFIG", "CALL_EXPAND_SINGLE_REGION_IRQ"}
             \cup NgAsking \cup NgHas

AtReads   == {"READ_ALLOC_REGION", "READ_REGION_INFO", "WRITE_REGION_TO_DUMMY"}
AtAsking  == AtReads \cup {"WAIT_NEW_ALLOC_REGION"}
AtHas     == {"START_PAR_AND_CLEAR_NEW_REGION", "READ_NEW_ALLOC_REGION", "WRITE_REGION_TO_NEW"}
AtStates  == {"IDLE", "NEW_ALLOC_REQ", "WAIT_PAR_DONE"} \cup AtAsking \cup AtHas

MfTrying  == {"FIRST_ALLOC", "WAIT_IML_DONE", "START_PAR_ALLOC", "WAIT_PAR_ALLOC",
              "UNLOCK_ALLOC_REGION", "CHECK_ALLOC_RESULT", "LOCK_FREELIST", "START_ATTEMPT"}
MfStates  == {"IDLE", "LOAD_ALLOC_REGION", "WAIT_ATTEMPT", "MARK_ALLOCATOR_FULL",
              "UNLOCK_FREELIST", "MIXED_ANSWERS"} \cup MfTrying

NgRegisters ==
  [state : NgStates, kind : Kinds, region : Region0, arrayLen : Nat, growArrayPtrValid : BOOLEAN,
   regionAttrBaseValid : BOOLEAN, expandFailureValid : BOOLEAN, dataPtr : BOOLEAN]
AtRegisters ==
  [state : AtStates, attr : Attrs, region : AnyRegion, want : Nat, top : Int, new : Region0]
MfRegisters ==
  [state : MfStates, attr : Attrs, min : Nat, want : Nat, region : AnyRegion,
   selectAllocate : BOOLEAN]
ImlRegisters ==
  [state : {"IDLE", "READ_TOP_END", "WRITE_TOP"}, region : AnyRegion, min : Nat, want : Nat,
   top : Int, amount : Int]
PaRegisters ==
  [state : {"IDLE", "START_IML_AND_READ_REGION", "READ_BOT", "WAIT_IML_DONE", "UPDATE_BOT"},
   region : AnyRegion, min : Nat, want : Nat]
CacheEntries == [valid : BOOLEAN, region : AnyRegion]
Installed    == [region : Regions \cup {DummyRegion}, used : Int]
Arrays       ==
  [len : Nat, items : [0 .. ArrayMax - 1 -> Region0], split : BOOLEAN]

FreeTypes == freeDone \in Answers /\ newDone \in Answers /\ ng \in NgRegisters
MemTypes ==
  /\ regionType \in [Regions -> {"free"} \cup Kinds]
  /\ remset \in [Regions -> {"any", "complete", "untracked"}]
  /\ regionAttr \in [Regions -> {"none", "update", "skip"}]
  /\ survivors \in Arrays
  /\ allocRegion \in [Attrs -> Installed] /\ top \in [Regions -> Int]
  /\ retired \in [Attrs -> SUBSET Regions] /\ oldSet \in Int
MachineTypes ==
  /\ mf \in MfRegisters /\ at \in AtRegisters /\ iml \in ImlRegisters /\ pa \in PaRegisters
  /\ regionCache \in [Attrs -> CacheEntries]

\* The regions a machine works on are regions, or the one that stands for none.
Named ==
  /\ iml.state # "IDLE" => iml.region # NoRegion
  /\ pa.state # "IDLE" => pa.region # NoRegion
  /\ mf.state \in MfTrying => mf.region # NoRegion
  /\ ng.state \in NgHas => ng.region # NoRegion
  /\ newDone.valid => newDone.region # NoRegion
  /\ at.state \in AtHas => at.new # NoRegion

\* Who waits for whom: a request goes down one machine after the other, and
\* its answer comes back up.
Calls ==
  /\ at.state # "IDLE" <=> mf.state = "WAIT_ATTEMPT"
  /\ ng.state # "IDLE" => at.state \in AtAsking /\ ~newDone.valid /\ ng.kind = Kind(at.attr)
  /\ newDone.valid => at.state \in AtAsking
  /\ fr.state # "IDLE" \/ freeDone.valid => ng.state = "WAIT_ALLOC_AND_CONFIG"
  /\ ~freeDone.valid => freeDone = NoAnswer

\* What mainFsm and attemptAlloc take for the allocator's region.
Fresh ==
  /\ \A a \in Attrs : regionCache[a].valid => regionCache[a].region = allocRegion[a].region
  /\ mf.state \in MfTrying => mf.region = allocRegion[mf.attr].region
  /\ at.state \in {"NEW_ALLOC_REQ"} \cup AtReads => at.region = allocRegion[at.attr].region
  /\ at.state \in {"READ_REGION_INFO", "WRITE_REGION_TO_DUMMY"} => at.region # DummyRegion
  /\ at.state \in {"WAIT_NEW_ALLOC_REGION"} \cup AtHas =>
       allocRegion[at.attr].region = DummyRegion

Known(a) == retired[a] \cup ({allocRegion[a].region} \ {DummyRegion})

\* The region on its way from the list to the allocator, if there is one.
InHand ==
  IF fr.state \in Removed THEN {fr.region}
  ELSE IF freeDone.valid THEN {freeDone.region} \ {NoRegion}
  ELSE IF ng.state \in NgHas THEN {ng.region}
  ELSE IF newDone.valid THEN {newDone.region}
  ELSE IF at.state \in AtHas THEN {at.new} ELSE {}

JvmRegions == {JvmOrder[i] : i \in DOMAIN JvmOrder}

Apart ==
  /\ InHand \subseteq JvmRegions
  /\ OnList \cap InHand = {}
  /\ (OnList \cup InHand) \cap (Known(0) \cup Known(1)) = {}
  /\ Known(0) \cap Known(1) = {}
  /\ \A a \in Attrs : allocRegion[a].region \notin retired[a]
  /\ Given = OnList \cup InHand \cup ((Known(0) \cup Known(1)) \ {OldRegion})

Remset(kind) == IF kind = "young" THEN "complete" ELSE "untracked"
Updates(kind) == IF kind = "young" THEN "update" ELSE "skip"
Set(r, kind) == regionType[r] = kind /\ remset[r] = Remset(kind) /\ regionAttr[r] = Updates(kind)

\* How far the region in hand is prepared; those of the allocators are.
Prepared ==
  /\ \A a \in Attrs : \A r \in Known(a) \ {OldRegion} : Set(r, Kind(a))
  /\ ng.state \in NgHas \ {"WRITE_REGION_TYPE"} => regionType[ng.region] = ng.kind
  /\ NgAt("WRITE_REGION_ATTR") => remset[ng.region] = Remset(ng.kind)
  /\ newDone.valid => Set(newDone.region, Kind(at.attr))
  /\ at.state \in AtHas => Set(at.new, Kind(at.attr))

\* The survivors' array: it has an entry for each region of allocator 0 and the
\* one in hand, once it is recorded, and they are in the slots that are written
\* if the data pointer can be read with the length.
Recorded ==
  IF ng.state \in NgListing /\ ng.kind = "young" THEN {ng.region}
  ELSE IF newDone.valid /\ at.attr = 0 THEN {newDone.region}
  ELSE IF at.state \in AtHas /\ at.attr = 0 THEN {at.new} ELSE {}
written == IF NgAt("WRITE_GROW_ARRAY_ITEM") THEN ng.arrayLen ELSE survivors.len
Filed(n) == {survivors.items[k] : k \in 0 .. n - 1}
ArraySound ==
  /\ ng.state \in NgStoring => ng.kind = "young"
  /\ ng.state \in {"READ_DATA_PTR", "WRITE_GROW_ARRAY_LEN"} =>
       ng.arrayLen = survivors.len /\ ng.arrayLen < ArrayMax
  /\ ng.state \in {"WRITE_GROW_ARRAY_LEN", "WRITE_GROW_ARRAY_ITEM"} =>
       ng.dataPtr \/ survivors.split
  /\ NgAt("WRITE_GROW_ARRAY_ITEM") => survivors.len = ng.arrayLen + 1
  /\ survivors.len <= ArrayMax
  /\ ~survivors.split => Filed(written) = Known(0) \cup Recorded
  /\ IsFiniteSet(Known(0) \cup Recorded) /\ Cardinality(Known(0) \cup Recorded) = written

\* The old set is counted one step before the region is retired.
Counted ==
  /\ IsFiniteSet(retired[1])
  /\ oldSet = Cardinality(retired[1])
              + (IF at.attr = 1 /\ AtState("WRITE_REGION_TO_DUMMY") THEN 1 ELSE 0)

OldElsewhere == OldRegion \notin Known(0)

RegionTypes == FreeTypes /\ MemTypes /\ MachineTypes /\ Named
RegionInv ==
  /\ FrInv /\ RegionTypes /\ Calls /\ Fresh /\ Apart /\ OldElsewhere
  /\ Prepared /\ ArraySound /\ Counted

\* What the assumptions say of the regions and their names.
LEMMA Constants ==
  /\ NoRegion \notin Regions /\ DummyRegion \notin Region0 /\ OldRegion \in Regions
  /\ NoRegion # DummyRegion /\ OldRegion # DummyRegion
  /\ OldRegion \notin JvmRegions /\ JvmRegions \subseteq Regions
  /\ Sizes \subseteq Nat \X Nat /\ RegionWords \in Nat /\ ArrayMax \in Nat /\ Attrs = {0, 1}
<1>1. JvmRegions \subseteq Regions
  BY FreeRegionAssumption DEF JvmRegions
<1>2. OldRegion \notin JvmRegions
  BY ParAssumption DEF JvmRegions
<1>. QED  BY <1>1, <1>2, FreeRegionAssumption, ParAssumption, ArrayAssumption DEF Region0, Attrs

\* The start pulse of parAllocateIml, taken or ignored.
LEMMA ImlStarts ==
  ASSUME NEW r \in AnyRegion \ {NoRegion}, NEW m \in Nat, NEW w \in Nat, iml \in ImlRegisters,
         iml.state # "IDLE" => iml.region # NoRegion, StartIml(r, m, w)
  PROVE  iml' \in ImlRegisters /\ (iml'.state # "IDLE" => iml'.region # NoRegion)
<1>1. CASE iml.state = "IDLE"
  <2>1. iml' = [iml EXCEPT !.state = "READ_TOP_END", !.region = r, !.min = m, !.want = w]
    BY <1>1 DEF StartIml
  <2>. QED  BY <2>1 DEF ImlRegisters
<1>2. CASE iml.state # "IDLE"
  BY <1>2 DEF StartIml
<1>. QED  BY <1>1, <1>2

\* The start pulse of parAllocate.
LEMMA ParStarts ==
  ASSUME NEW r \in AnyRegion \ {NoRegion}, NEW m \in Nat, NEW w \in Nat, iml \in ImlRegisters,
         pa \in PaRegisters, iml.state # "IDLE" => iml.region # NoRegion,
         pa.state # "IDLE" => pa.region # NoRegion, StartPar(r, m, w)
  PROVE  /\ iml' \in ImlRegisters /\ (iml'.state # "IDLE" => iml'.region # NoRegion)
         /\ pa' \in PaRegisters /\ (pa'.state # "IDLE" => pa'.region # NoRegion)
<1>1. CASE pa.state = "IDLE"
  <2>1. /\ pa' = [pa EXCEPT !.state = "START_IML_AND_READ_REGION", !.region = r,
                            !.min = m, !.want = w]
        /\ StartIml(r, m, w)
    BY <1>1 DEF StartPar
  <2>. QED  BY <2>1, ImlStarts DEF PaRegisters
<1>2. CASE pa.state # "IDLE"
  BY <1>2 DEF StartPar
<1>. QED  BY <1>1, <1>2

\* What mainFsm does of a done pulse it may be waiting for.
LEMMA MfWoken ==
  ASSUME mf \in MfRegisters, NEW from \in MfTrying, NEW to \in MfTrying,
         mf' = IF mf.state = from THEN [mf EXCEPT !.state = to] ELSE mf
  PROVE  /\ mf' \in MfRegisters /\ mf'.region = mf.region /\ mf'.attr = mf.attr
         /\ (mf'.state \in MfTrying <=> mf.state \in MfTrying)
         /\ (mf'.state = "WAIT_ATTEMPT" <=> mf.state = "WAIT_ATTEMPT")
BY DEF MfRegisters, MfStates, MfTrying

\* The free list stays sound while its unit rests.
LEMMA SameLow ==
  RegionInv /\ UNCHANGED frVars => FrInv'
BY FrInvStep, FreeRegionAssumption DEF FrNext, RegionInv

\* What is filed is the same when the array and its writer are.
LEMMA SameFiled ==
  ASSUME UNCHANGED survivors, UNCHANGED ng
    PROVE written' = written /\ Filed(written)' = Filed(written)
<1>1. written' = written
  BY DEF written, NgAt
<1>2. Filed(written)' = Filed(written)
  BY <1>1 DEF Filed
<1>. QED  BY <1>1, <1>2

\* A step of mainFsm that begins or ends no attempt, of parAllocate or of
\* parAllocateIml concerns no region but the one it allocates in.
LEMMA PlainStep ==
  ASSUME RegionInv, UNCHANGED <<at, allocRegion, regionCache, oldSet, retired, lowVars>>,
         mf' \in MfRegisters, iml' \in ImlRegisters, pa' \in PaRegisters, top' \in [Regions -> Int],
         iml'.state # "IDLE" => iml'.region # NoRegion, pa'.state # "IDLE" => pa'.region # NoRegion,
         mf'.state = "WAIT_ATTEMPT" <=> mf.state = "WAIT_ATTEMPT",
         mf'.state \in MfTrying =>
           mf'.region # NoRegion /\ mf'.region = allocRegion[mf'.attr].region
  PROVE  RegionInv'
<1>. USE DEF RegionInv, lowVars, frVars, ngVars, ngMemory
<1>1. FrInv'
  BY SameLow
<1>2. RegionTypes'
  BY DEF RegionTypes, FreeTypes, MemTypes, MachineTypes, Named
<1>3. Calls'
  BY DEF Calls
<1>4. Fresh'
  BY DEF Fresh
<1>5. Apart' /\ OldElsewhere'
  BY DEF Apart, Given, OnList, Index, InHand, Known, OldElsewhere
<1>6. Prepared'
  BY DEF Prepared, Known, NgAt, Set
<1>7. ArraySound'
  BY SameFiled DEF ArraySound, Recorded, Known, NgAt
<1>8. Counted'
  BY DEF Counted, AtState
<1>. QED  BY <1>1, <1>2, <1>3, <1>4, <1>5, <1>6, <1>7, <1>8

-----------------------------------------------------------------------------
\* parAllocateIml, parAllocate and mainFsm.
LEMMA ImlReadTopEndKeeps == ASSUME RegionInv, ImlReadTopEnd PROVE RegionInv'
<1>. USE DEF RegionInv, RegionTypes
<1>1. /\ iml \in ImlRegisters /\ mf \in MfRegisters /\ top \in [Regions -> Int]
      /\ iml.state = "READ_TOP_END" /\ iml.region \in Regions \cup {DummyRegion}
      /\ iml.want \in Nat
  BY DEF ImlReadTopEnd, MachineTypes, MemTypes, Named, ImlRegisters, AnyRegion, Region0
<1>2. TopOf(iml.region) \in Int /\ Amount \in Int
  BY <1>1, Constants DEF TopOf, Amount, Available
<1>3. iml' \in ImlRegisters /\ iml'.region = iml.region
  <2>1. CASE iml' = [iml EXCEPT !.state = "WRITE_TOP", !.top = TopOf(iml.region), !.amount = Amount]
    BY <2>1, <1>1, <1>2 DEF ImlRegisters
  <2>2. CASE iml' = [iml EXCEPT !.state = "IDLE"]
    BY <2>2, <1>1 DEF ImlRegisters
  <2>. QED  BY <2>1, <2>2 DEF ImlReadTopEnd
<1>4. \/ mf' = mf
      \/ mf' = IF mf.state = "WAIT_IML_DONE" THEN [mf EXCEPT !.state = "CHECK_ALLOC_RESULT"] ELSE mf
  BY DEF ImlReadTopEnd, ImlDone
<1>5. /\ mf' \in MfRegisters /\ mf'.region = mf.region /\ mf'.attr = mf.attr
      /\ (mf'.state \in MfTrying <=> mf.state \in MfTrying)
      /\ (mf'.state = "WAIT_ATTEMPT" <=> mf.state = "WAIT_ATTEMPT")
  BY <1>1, <1>4, MfWoken DEF MfTrying
<1>6. /\ UNCHANGED <<at, allocRegion, regionCache, oldSet, retired, lowVars, pa, top>>
  BY DEF ImlReadTopEnd, parMemory
<1>. QED  BY <1>1, <1>3, <1>5, <1>6, PlainStep, Constants DEF MachineTypes, Named, Fresh, Region0

\* The top of the current region goes up.
LEMMA ImlWriteTopKeeps == ASSUME RegionInv, ImlWriteTop PROVE RegionInv'
<1>. USE DEF RegionInv, RegionTypes
<1>1. /\ iml \in ImlRegisters /\ mf \in MfRegisters /\ top \in [Regions -> Int]
      /\ iml' = [iml EXCEPT !.state = "IDLE"]
      /\ top' = [top EXCEPT ![iml.region] = iml.top + iml.amount]
  BY DEF ImlWriteTop, MachineTypes, MemTypes
<1>2. iml' \in ImlRegisters /\ iml'.state = "IDLE" /\ iml.top + iml.amount \in Int
  BY <1>1 DEF ImlRegisters
<1>3. top' \in [Regions -> Int]
  BY <1>1, <1>2
<1>4. mf' = IF mf.state = "WAIT_IML_DONE" THEN [mf EXCEPT !.state = "CHECK_ALLOC_RESULT"] ELSE mf
  BY DEF ImlWriteTop, ImlDone
<1>5. /\ mf' \in MfRegisters /\ mf'.region = mf.region /\ mf'.attr = mf.attr
      /\ (mf'.state \in MfTrying <=> mf.state \in MfTrying)
      /\ (mf'.state = "WAIT_ATTEMPT" <=> mf.state = "WAIT_ATTEMPT")
  BY <1>1, <1>4, MfWoken DEF MfTrying
<1>6. UNCHANGED <<at, allocRegion, regionCache, oldSet, retired, lowVars, pa>>
  BY DEF ImlWriteTop
<1>. QED  BY <1>2, <1>3, <1>5, <1>6, PlainStep DEF MachineTypes, Named, Fresh

\* A parallel allocation reads, waits for ImlAlloc and answers.
LEMMA PaKeeps == ASSUME RegionInv, PaStep PROVE RegionInv'
<1>. USE DEF RegionInv, RegionTypes
<1>1. /\ iml \in ImlRegisters /\ mf \in MfRegisters /\ pa \in PaRegisters
           /\ top \in [Regions -> Int]
      /\ iml.state # "IDLE" => iml.region # NoRegion
      /\ pa.state # "IDLE" => pa.region # NoRegion
  BY DEF MachineTypes, MemTypes, Named
<1>2. UNCHANGED <<at, allocRegion, regionCache, oldSet, retired, lowVars, top>>
  BY DEF PaStep, StartImlAgain, ParRead, ParWaitIml, ParUpdateBot, parMemory
<1>3. iml' \in ImlRegisters /\ (iml'.state # "IDLE" => iml'.region # NoRegion)
  <2>1. CASE StartImlAgain
    <3>1. pa.region \in AnyRegion \ {NoRegion} /\ pa.min \in Nat /\ pa.want \in Nat
      BY <2>1, <1>1 DEF StartImlAgain, PaRegisters
    <3>. QED  BY <3>1, <2>1, <1>1, ImlStarts DEF StartImlAgain
  <2>2. CASE UNCHANGED iml
    BY <2>2, <1>1
  <2>. QED  BY <2>1, <2>2 DEF PaStep, ParRead, ParWaitIml, ParUpdateBot
<1>4. pa' \in PaRegisters /\ (pa'.state # "IDLE" => pa'.region # NoRegion)
  <2>1. CASE StartImlAgain
    BY <2>1, <1>1 DEF StartImlAgain
  <2>2. CASE ParRead
    BY <2>2, <1>1 DEF ParRead, PaRegisters
  <2>3. CASE ParWaitIml
    BY <2>3, <1>1 DEF ParWaitIml, ParDone, PaRegisters
  <2>4. CASE ParUpdateBot
    BY <2>4, <1>1 DEF ParUpdateBot, ParDone, PaRegisters
  <2>. QED  BY <2>1, <2>2, <2>3, <2>4 DEF PaStep
<1>5. \/ mf' = mf
      \/ mf' = IF mf.state = "WAIT_PAR_ALLOC" THEN [mf EXCEPT !.state = "UNLOCK_ALLOC_REGION"]
           ELSE mf
  BY DEF PaStep, StartImlAgain, ParRead, ParWaitIml, ParUpdateBot, ParDone
<1>6. /\ mf' \in MfRegisters /\ mf'.region = mf.region /\ mf'.attr = mf.attr
      /\ (mf'.state \in MfTrying <=> mf.state \in MfTrying)
      /\ (mf'.state = "WAIT_ATTEMPT" <=> mf.state = "WAIT_ATTEMPT")
  BY <1>1, <1>5, MfWoken DEF MfTrying
<1>. QED  BY <1>1, <1>2, <1>3, <1>4, <1>6, PlainStep DEF Named, Fresh

\* A command starts the machine.
LEMMA CommandKeeps == ASSUME RegionInv, Command PROVE RegionInv'
<1>. USE DEF RegionInv, RegionTypes
<1>1. PICK a \in Attrs, sz \in Sizes :
        mf' = [mf EXCEPT !.state = "LOAD_ALLOC_REGION", !.attr = a, !.min = sz[1], !.want = sz[2],
                         !.region = NoRegion, !.selectAllocate = FALSE]
  BY DEF Command
<1>2. sz[1] \in Nat /\ sz[2] \in Nat /\ NoRegion \in AnyRegion
  BY Constants DEF AnyRegion, Region0
<1>3. mf' \in MfRegisters /\ mf'.state = "LOAD_ALLOC_REGION" /\ mf.state = "IDLE"
  BY <1>1, <1>2 DEF MachineTypes, MfRegisters, MfStates, Command, MfState
<1>4. UNCHANGED <<at, allocRegion, regionCache, oldSet, retired, lowVars, top, iml, pa>>
  BY DEF Command, parMemory
<1>. QED  BY <1>3, <1>4, PlainStep DEF MachineTypes, MemTypes, Named, MfTrying

\* The cache is filled from memory, or is fresh.
LEMMA LoadKeeps == ASSUME RegionInv, LoadAllocRegion PROVE RegionInv'
<1>. USE DEF RegionInv, RegionTypes
<1>. DEFINE a == mf.attr
<1>1. /\ mf \in MfRegisters /\ a \in Attrs /\ regionCache \in [Attrs -> CacheEntries]
      /\ allocRegion \in [Attrs -> Installed] /\ allocRegion[a].region \in AnyRegion
      /\ allocRegion[a].region # NoRegion
      /\ mf.state = "LOAD_ALLOC_REGION"
      /\ UNCHANGED <<iml, pa, at, parMemory, retired, lowVars>>
  BY Constants DEF LoadAllocRegion, MfState, MachineTypes, MemTypes, MfRegisters, Installed,
                   AnyRegion, Region0, mfSame
<1>2. /\ regionCache' \in [Attrs -> CacheEntries] /\ regionCache'[a].region = allocRegion[a].region
      /\ \A b \in Attrs : regionCache'[b].valid => regionCache'[b].region = allocRegion[b].region
  <2>1. CASE regionCache[a].valid
    <3>1. regionCache' = regionCache
      BY <2>1 DEF LoadAllocRegion
    <3>. QED  BY <3>1, <2>1, <1>1 DEF Fresh
  <2>2. CASE ~regionCache[a].valid
    <3>1. regionCache' = [regionCache EXCEPT ![a] = [valid |-> TRUE,
            region |-> allocRegion[a].region]]
      BY <2>2 DEF LoadAllocRegion
    <3>2. [valid |-> TRUE, region |-> allocRegion[a].region] \in CacheEntries
      BY <1>1 DEF CacheEntries
    <3>3. regionCache'[a].region = allocRegion[a].region
      BY <3>1, <1>1
    <3>. QED  BY <3>1, <3>2, <3>3, <1>1 DEF Fresh
  <2>. QED  BY <2>1, <2>2
<1>3. mf' = [mf EXCEPT !.state = "FIRST_ALLOC", !.region = allocRegion[a].region]
  BY <1>2 DEF LoadAllocRegion
<1>4. /\ mf' \in MfRegisters /\ mf'.state = "FIRST_ALLOC" /\ mf'.attr = a
      /\ mf'.region = allocRegion[a].region
  BY <1>1, <1>3 DEF MfRegisters, MfStates, MfTrying
<1>. USE <1>1 DEF lowVars, frVars, ngVars, ngMemory, parMemory
<1>5. RegionTypes'
  BY <1>2, <1>4 DEF FreeTypes, MemTypes, MachineTypes, Named
<1>6. Calls'
  BY <1>4 DEF Calls
<1>7. Fresh'
  BY <1>2, <1>4 DEF Fresh
<1>8. Apart' /\ OldElsewhere'
  BY DEF Apart, Given, OnList, Index, InHand, Known, OldElsewhere
<1>9. Prepared'
  BY DEF Prepared, Known, NgAt, Set
<1>10. ArraySound'
  BY SameFiled DEF ArraySound, Recorded, Known, NgAt
<1>11. Counted'
  BY DEF Counted, AtState
<1>. QED  BY SameLow, <1>5, <1>6, <1>7, <1>8, <1>9, <1>10, <1>11

\* The steps of mainFsm between the load and the attempt, and after it.
LEMMA TryKeeps ==
  ASSUME RegionInv,
         \/ FirstAlloc \/ StartParAlloc \/ UnlockAllocRegion \/ CheckAllocResult
         \/ LockFreeList \/ MarkAllocatorFull \/ UnlockFreeList
  PROVE  RegionInv'
<1>. USE DEF RegionInv, RegionTypes
<1>1. /\ iml \in ImlRegisters /\ mf \in MfRegisters /\ pa \in PaRegisters
           /\ top \in [Regions -> Int]
      /\ iml.state # "IDLE" => iml.region # NoRegion
      /\ pa.state # "IDLE" => pa.region # NoRegion
      /\ mf.state \in MfTrying => mf.region \in AnyRegion \ {NoRegion}
      /\ mf.min \in Nat /\ mf.want \in Nat
  BY DEF MachineTypes, MemTypes, Named, MfRegisters
<1>2. UNCHANGED <<at, allocRegion, regionCache, oldSet, retired, lowVars, top>>
  BY DEF FirstAlloc, StartParAlloc, UnlockAllocRegion, CheckAllocResult, LockFreeList,
         MarkAllocatorFull, UnlockFreeList, mfSame, parMemory
<1>3. /\ iml' \in ImlRegisters /\ (iml'.state # "IDLE" => iml'.region # NoRegion)
      /\ pa' \in PaRegisters /\ (pa'.state # "IDLE" => pa'.region # NoRegion)
  <2>1. CASE FirstAlloc
    <3>1. mf.region \in AnyRegion \ {NoRegion} /\ pa' = pa
      BY <2>1, <1>1 DEF FirstAlloc, MfState, MfTrying
    <3>2. StartIml(mf.region, mf.min, mf.want) \/ iml' = iml
      BY <2>1 DEF FirstAlloc
    <3>. QED  BY <3>1, <3>2, <1>1, ImlStarts
  <2>2. CASE StartParAlloc
    <3>1. mf.region \in AnyRegion \ {NoRegion} /\ StartPar(mf.region, mf.min, mf.want)
      BY <2>2, <1>1 DEF StartParAlloc, MfState, MfTrying
    <3>. QED  BY <3>1, <1>1, ParStarts
  <2>3. CASE UNCHANGED <<iml, pa>>
    BY <2>3, <1>1
  <2>. QED  BY <2>1, <2>2, <2>3 DEF UnlockAllocRegion, CheckAllocResult, LockFreeList,
                                    MarkAllocatorFull, UnlockFreeList
<1>4. /\ mf' \in MfRegisters /\ mf'.region = mf.region /\ mf'.attr = mf.attr
      /\ mf.state # "WAIT_ATTEMPT" /\ mf'.state # "WAIT_ATTEMPT"
      /\ (mf'.state \in MfTrying => mf.state \in MfTrying)
  <2>1. CASE FirstAlloc
    BY <2>1, <1>1 DEF FirstAlloc, MfState, MfGoto, MfRegisters, MfStates, MfTrying
  <2>2. CASE StartParAlloc \/ UnlockAllocRegion \/ LockFreeList
    BY <2>2, <1>1 DEF StartParAlloc, UnlockAllocRegion, LockFreeList, MfState, MfGoto,
                      MfRegisters, MfStates, MfTrying
  <2>3. CASE CheckAllocResult
    <3>1. \/ mf' = [mf EXCEPT !.state = "IDLE"]
          \/ mf' = [mf EXCEPT !.state = "LOCK_FREELIST", !.selectAllocate = FALSE]
          \/ mf' = [mf EXCEPT !.state = "FIRST_ALLOC", !.selectAllocate = TRUE]
      BY <2>3 DEF CheckAllocResult
    <3>. QED  BY <3>1, <2>3, <1>1 DEF CheckAllocResult, MfState, MfRegisters, MfStates, MfTrying
  <2>4. CASE MarkAllocatorFull \/ UnlockFreeList
    BY <2>4, <1>1 DEF MarkAllocatorFull, UnlockFreeList, MfState, MfGoto, MfRegisters, MfStates,
       MfTrying
  <2>. QED  BY <2>1, <2>2, <2>3, <2>4
<1>. QED  BY <1>1, <1>2, <1>3, <1>4, PlainStep DEF Fresh

\* Two machines mix their answers.
LEMMA MixedKeeps == ASSUME RegionInv, MixedAnswers PROVE RegionInv'
<1>. USE DEF RegionInv, RegionTypes
<1>1. mf \in MfRegisters /\ mf.state # "WAIT_ATTEMPT" /\ mf' = [mf EXCEPT !.state = "MIXED_ANSWERS"]
  BY DEF MixedAnswers, usesPort, MfState, MfGoto, MachineTypes
<1>2. mf' \in MfRegisters /\ mf'.state = "MIXED_ANSWERS"
  BY <1>1 DEF MfRegisters, MfStates
<1>3. UNCHANGED <<at, allocRegion, regionCache, oldSet, retired, lowVars, top, iml, pa>>
  BY DEF MixedAnswers, mfSame, parMemory
<1>. QED  BY <1>1, <1>2, <1>3, PlainStep DEF MachineTypes, MemTypes, Named, MfTrying

\* GCParAllocate asks for a new region.
LEMMA StartAttemptKeeps == ASSUME RegionInv, StartAttempt PROVE RegionInv'
<1>. USE DEF RegionInv, RegionTypes
<1>1. /\ mf.state = "START_ATTEMPT" /\ mf \in MfRegisters /\ at \in AtRegisters
      /\ at.state = "IDLE" /\ ng.state = "IDLE" /\ ~newDone.valid
      /\ mf' = [mf EXCEPT !.state = "WAIT_ATTEMPT"]
      /\ at' = [at EXCEPT !.state = "NEW_ALLOC_REQ", !.attr = mf.attr, !.region = mf.region,
                          !.want = mf.want]
      /\ UNCHANGED <<iml, pa, regionCache, parMemory, retired, lowVars>>
  BY DEF StartAttempt, MfState, MfGoto, MachineTypes, Calls, AtAsking, AtReads, mfSame
<1>2. mf' \in MfRegisters /\ mf'.state = "WAIT_ATTEMPT"
  BY <1>1 DEF MfRegisters, MfStates
<1>3. /\ at' \in AtRegisters /\ at'.state = "NEW_ALLOC_REQ" /\ at'.attr = mf.attr
      /\ at'.region = mf.region
  BY <1>1 DEF AtRegisters, AtStates, MfRegisters
<1>4. mf.region = allocRegion[mf.attr].region
  BY <1>1 DEF Fresh, MfTrying
<1>. USE <1>1 DEF lowVars, frVars, ngVars, ngMemory, parMemory
<1>5. RegionTypes'
  BY <1>2, <1>3 DEF FreeTypes, MemTypes, MachineTypes, Named, MfTrying, AtHas
<1>6. Calls'
  BY <1>2, <1>3 DEF Calls
<1>7. Fresh'
  BY <1>2, <1>3, <1>4 DEF Fresh, MfTrying, AtReads, AtHas
<1>8. InHand' = InHand
  BY <1>3 DEF InHand, AtHas, Calls
<1>9. Apart' /\ OldElsewhere'
  BY <1>8 DEF Apart, Given, OnList, Index, Known, OldElsewhere
<1>10. Prepared'
  BY <1>3 DEF Prepared, Known, NgAt, Set, AtHas
<1>11. ArraySound'
  <2>1. Recorded' = Recorded
    BY <1>3 DEF Recorded, AtHas, NgListing
  <2>. QED  BY <2>1, SameFiled DEF ArraySound, Known, NgAt
<1>12. Counted'
  BY <1>3 DEF Counted, AtState
<1>. QED  BY SameLow, <1>5, <1>6, <1>7, <1>9, <1>10, <1>11, <1>12

-----------------------------------------------------------------------------
\* attemptAlloc.  A step that reads, or starts parAllocate.
LEMMA AtMoves ==
  ASSUME RegionInv, UNCHANGED <<mf, regionCache, allocRegion, retired, oldSet, top, lowVars>>,
         iml' \in ImlRegisters, pa' \in PaRegisters,
         iml'.state # "IDLE" => iml'.region # NoRegion, pa'.state # "IDLE" => pa'.region # NoRegion,
         at' \in AtRegisters, at'.attr = at.attr, at'.region = at.region, at'.new = at.new,
         at.state # "IDLE", at'.state # "IDLE",
         at.state # "WRITE_REGION_TO_DUMMY", at'.state # "WRITE_REGION_TO_DUMMY",
         at'.state \in AtAsking <=> at.state \in AtAsking,
         at'.state \in AtHas <=> at.state \in AtHas,
         at'.state \in {"NEW_ALLOC_REQ"} \cup AtReads =>
           at.state \in {"NEW_ALLOC_REQ"} \cup AtReads,
         at'.state = "READ_REGION_INFO" => at.region # DummyRegion,
         at'.state \in {"WAIT_NEW_ALLOC_REGION"} \cup AtHas =>
           allocRegion[at.attr].region = DummyRegion
  PROVE  RegionInv'
<1>. USE DEF RegionInv, RegionTypes, lowVars, frVars, ngVars, ngMemory
<1>1. RegionTypes'
  BY DEF FreeTypes, MemTypes, MachineTypes, Named
<1>2. Calls'
  BY DEF Calls
<1>3. Fresh'
  BY DEF Fresh
<1>4. InHand' = InHand /\ Recorded' = Recorded
  BY DEF InHand, Recorded
<1>5. Apart' /\ OldElsewhere'
  BY <1>4 DEF Apart, Given, OnList, Index, Known, OldElsewhere
<1>6. Prepared'
  BY DEF Prepared, Known, NgAt, Set
<1>7. ArraySound'
  BY <1>4, SameFiled DEF ArraySound, Known, NgAt
<1>8. Counted'
  BY DEF Counted, AtState
<1>. QED  BY SameLow, <1>1, <1>2, <1>3, <1>5, <1>6, <1>7, <1>8

\* The request to GCNewGCAlloc, which is idle.
LEMMA AtRequestKeeps == ASSUME RegionInv, AtRequest PROVE RegionInv'
<1>. USE DEF RegionInv, RegionTypes
<1>1. /\ at.state = "NEW_ALLOC_REQ" /\ ng.state = "IDLE" /\ at \in AtRegisters /\ ng \in NgRegisters
      /\ mf.state = "WAIT_ATTEMPT" /\ ~newDone.valid /\ freeDone = NoAnswer /\ fr.state = "IDLE"
      /\ ng' = [ng EXCEPT !.state = "READ_NODE_INDEX", !.kind = Kind(at.attr), !.region = NoRegion]
      /\ at' = [at EXCEPT !.state = "READ_ALLOC_REGION"]
      /\ UNCHANGED <<mf, iml, pa, regionCache, parMemory, retired, newDone, ngMemory, frVars>>
  BY DEF AtRequest, AtState, AtGoto, atSame, NgCommand, NgAt, Calls, MachineTypes, FreeTypes,
         AtAsking, AtReads, frVars
<1>2. Kind(at.attr) \in Kinds /\ NoRegion \in Region0
  BY DEF Kind, Kinds, Region0
<1>3. /\ ng' \in NgRegisters /\ ng'.state = "READ_NODE_INDEX" /\ ng'.kind = Kind(at.attr)
      /\ ng'.arrayLen = ng.arrayLen
  BY <1>1, <1>2 DEF NgRegisters, NgStates, NgAsking
<1>4. /\ at' \in AtRegisters /\ at'.state = "READ_ALLOC_REGION" /\ at'.attr = at.attr
      /\ at'.region = at.region
  BY <1>1 DEF AtRegisters, AtStates, AtAsking, AtReads
<1>. USE <1>1 DEF frVars, ngMemory, parMemory
<1>5. RegionTypes'
  BY <1>3, <1>4 DEF FreeTypes, MemTypes, MachineTypes, Named, AtHas, NgHas, NgStoring, NgListing
<1>6. Calls'
  BY <1>3, <1>4 DEF Calls, AtAsking, AtReads
<1>7. Fresh'
  BY <1>4 DEF Fresh, AtReads, AtHas
<1>8. InHand = {} /\ InHand' = {} /\ Recorded = {} /\ Recorded' = {}
  BY <1>3, <1>4 DEF InHand, Recorded, AtHas, NgHas, NgStoring, NgListing, Removed, NoAnswer
<1>9. Apart' /\ OldElsewhere'
  BY <1>8 DEF Apart, Given, OnList, Index, Known, OldElsewhere
<1>10. Prepared'
  BY <1>3, <1>4 DEF Prepared, Known, NgAt, Set, AtHas, NgHas, NgStoring, NgListing
<1>11. ArraySound'
  <2>1. written' = written /\ written = survivors.len
    BY <1>3 DEF written, NgAt
  <2>2. Filed(written)' = Filed(written)
    BY <2>1 DEF Filed
  <2>. QED  BY <1>3, <1>8, <2>1, <2>2 DEF ArraySound, Known, NgAt, NgStoring
<1>12. Counted'
  BY <1>4 DEF Counted, AtState
<1>. QED  BY SameLow, <1>5, <1>6, <1>7, <1>9, <1>10, <1>11, <1>12

\* The old region is known, or there is none.
LEMMA AtReadsKeep ==
  ASSUME RegionInv, AtReadAllocRegion \/ AtStartPar \/ AtReadNew PROVE RegionInv'
<1>. USE DEF RegionInv, RegionTypes
<1>1. /\ at \in AtRegisters /\ iml \in ImlRegisters /\ pa \in PaRegisters
      /\ top \in [Regions -> Int] /\ at.region \in AnyRegion
      /\ iml.state # "IDLE" => iml.region # NoRegion
      /\ pa.state # "IDLE" => pa.region # NoRegion
      /\ UNCHANGED <<mf, regionCache, allocRegion, retired, oldSet, top, lowVars>>
  BY DEF MachineTypes, MemTypes, Named, AtReadAllocRegion, AtStartPar, AtReadNew, parMemory,
         AtRegisters
<1>2. CASE AtReadAllocRegion
  <2>1. at.state = "READ_ALLOC_REGION" /\ at.region = allocRegion[at.attr].region
    BY <1>2 DEF AtReadAllocRegion, AtState, Fresh, AtReads
  <2>2. at.region \in Regions \/ at.region = DummyRegion
    <3>1. at.attr \in Attrs
      BY <1>1 DEF AtRegisters
    <3>. QED  BY <3>1, <2>1 DEF MemTypes, Installed
  <2>3. TopOf(at.region) \in Int
    BY <1>1, <2>2, Constants DEF TopOf
  <2>4. UNCHANGED <<iml, pa>>
    BY <1>2 DEF AtReadAllocRegion, atSame
  <2>5. CASE at.region = DummyRegion
    <3>1. at' = [at EXCEPT !.state = "WAIT_NEW_ALLOC_REGION"]
      BY <1>2, <2>5 DEF AtReadAllocRegion, AtGoto
    <3>2. /\ at' \in AtRegisters /\ at'.state = "WAIT_NEW_ALLOC_REGION" /\ at'.attr = at.attr
          /\ at'.region = at.region /\ at'.new = at.new
      BY <3>1, <1>1 DEF AtRegisters, AtStates, AtAsking
    <3>. QED  BY <3>2, <1>1, <2>1, <2>4, <2>5, AtMoves DEF AtAsking, AtReads, AtHas
  <2>6. CASE at.region # DummyRegion
    <3>1. at' = [at EXCEPT !.state = "READ_REGION_INFO", !.top = TopOf(at.region)]
      BY <1>2, <2>6 DEF AtReadAllocRegion
    <3>2. /\ at' \in AtRegisters /\ at'.state = "READ_REGION_INFO" /\ at'.attr = at.attr
          /\ at'.region = at.region /\ at'.new = at.new
      BY <3>1, <1>1, <2>3 DEF AtRegisters, AtStates, AtAsking, AtReads
    <3>. QED  BY <3>2, <1>1, <2>1, <2>4, <2>6, AtMoves DEF AtAsking, AtReads, AtHas
  <2>. QED  BY <2>5, <2>6
<1>3. CASE AtStartPar
  <2>1. /\ at.state = "START_PAR_AND_CLEAR_NEW_REGION" /\ StartPar(at.new, at.want, at.want)
        /\ at' = [at EXCEPT !.state = "READ_NEW_ALLOC_REGION"]
    BY <1>3 DEF AtStartPar, AtState, AtGoto
  <2>2. at.new \in AnyRegion \ {NoRegion} /\ at.want \in Nat
        /\ allocRegion[at.attr].region = DummyRegion
    BY <1>1, <2>1 DEF Named, AtHas, AtRegisters, AnyRegion, Fresh
  <2>3. /\ iml' \in ImlRegisters /\ (iml'.state # "IDLE" => iml'.region # NoRegion)
        /\ pa' \in PaRegisters /\ (pa'.state # "IDLE" => pa'.region # NoRegion)
    BY <2>1, <2>2, <1>1, ParStarts
  <2>4. /\ at' \in AtRegisters /\ at'.state = "READ_NEW_ALLOC_REGION" /\ at'.attr = at.attr
        /\ at'.region = at.region /\ at'.new = at.new
    BY <2>1, <1>1 DEF AtRegisters, AtStates, AtHas
  <2>. QED  BY <2>1, <2>2, <2>3, <2>4, <1>1, AtMoves DEF AtAsking, AtReads, AtHas
<1>4. CASE AtReadNew
  <2>1. /\ at.state = "READ_NEW_ALLOC_REGION" /\ UNCHANGED <<iml, pa>>
        /\ at' = [at EXCEPT !.state = "WRITE_REGION_TO_NEW", !.top = top[at.new]]
    BY <1>4 DEF AtReadNew, AtState, atSame
  <2>2. at.new \in Regions /\ allocRegion[at.attr].region = DummyRegion
    BY <1>1, <2>1 DEF Named, AtHas, AtRegisters, Region0, Fresh
  <2>3. top[at.new] \in Int
    BY <2>2, <1>1
  <2>4. /\ at' \in AtRegisters /\ at'.state = "WRITE_REGION_TO_NEW" /\ at'.attr = at.attr
        /\ at'.region = at.region /\ at'.new = at.new
    BY <2>1, <2>3, <1>1 DEF AtRegisters, AtStates, AtHas
  <2>. QED  BY <2>1, <2>2, <2>4, <1>1, AtMoves DEF AtAsking, AtReads, AtHas
<1>. QED  BY <1>2, <1>3, <1>4

\* The region about to be retired is counted, if it is old.
LEMMA AtCountKeeps == ASSUME RegionInv, AtCountRetired PROVE RegionInv'
<1>. USE DEF RegionInv, RegionTypes
<1>1. /\ at.state = "READ_REGION_INFO" /\ at \in AtRegisters /\ at.attr \in Attrs
      /\ at' = [at EXCEPT !.state = "WRITE_REGION_TO_DUMMY"]
      /\ oldSet' = (IF at.attr = 1 THEN oldSet + 1 ELSE oldSet) /\ oldSet \in Int
      /\ UNCHANGED <<mf, iml, pa, regionCache, top, allocRegion, retired, lowVars>>
  BY DEF AtCountRetired, AtState, AtGoto, MachineTypes, MemTypes, atSame, AtRegisters
<1>2. /\ at' \in AtRegisters /\ at'.state = "WRITE_REGION_TO_DUMMY" /\ at'.attr = at.attr
      /\ at'.region = at.region /\ at'.new = at.new
  BY <1>1 DEF AtRegisters, AtStates, AtAsking, AtReads
<1>. USE <1>1 DEF lowVars, frVars, ngVars, ngMemory
<1>3. RegionTypes'
  BY <1>2 DEF FreeTypes, MemTypes, MachineTypes, Named, AtHas
<1>4. Calls'
  BY <1>2 DEF Calls, AtAsking, AtReads
<1>5. Fresh'
  BY <1>2 DEF Fresh, AtReads, AtHas
<1>6. InHand' = InHand /\ Recorded' = Recorded
  BY <1>2 DEF InHand, Recorded, AtHas
<1>7. Apart' /\ OldElsewhere'
  BY <1>6 DEF Apart, Given, OnList, Index, Known, OldElsewhere
<1>8. Prepared'
  BY <1>2 DEF Prepared, Known, NgAt, Set, AtHas
<1>9. ArraySound'
  BY <1>6, SameFiled DEF ArraySound, Known, NgAt
<1>10. Counted'
  <2>1. Cardinality(retired[1]) \in Nat /\ oldSet = Cardinality(retired[1])
    BY FS_CardinalityType DEF Counted, AtState
  <2>. QED  BY <1>2, <2>1 DEF Counted, AtState
<1>. QED  BY SameLow, <1>3, <1>4, <1>5, <1>7, <1>8, <1>9, <1>10

\* The region goes from the allocator to the retired ones.
LEMMA AtWriteDummyKeeps == ASSUME RegionInv, AtWriteDummy PROVE RegionInv'
<1>. USE DEF RegionInv, RegionTypes
<1>. DEFINE a == at.attr
            dummy == [region |-> DummyRegion, used |-> 0]
<1>1. /\ at.state = "WRITE_REGION_TO_DUMMY" /\ at \in AtRegisters /\ a \in Attrs
      /\ at' = [at EXCEPT !.state = "WAIT_NEW_ALLOC_REGION"]
      /\ allocRegion' = [allocRegion EXCEPT ![a] = dummy]
      /\ regionCache' = [regionCache EXCEPT ![a].region =
           IF regionCache[a].valid THEN DummyRegion ELSE @]
      /\ retired' = [retired EXCEPT ![a] = @ \cup {at.region}]
      /\ UNCHANGED <<mf, iml, pa, top, oldSet, lowVars>>
  BY DEF AtWriteDummy, AtState, AtGoto, EmitCacheUpdate, MachineTypes, atSame, AtRegisters
<1>2. /\ allocRegion \in [Attrs -> Installed] /\ retired \in [Attrs -> SUBSET Regions]
      /\ regionCache \in [Attrs -> CacheEntries] /\ dummy \in Installed
      /\ DummyRegion \in AnyRegion /\ regionCache[a] \in CacheEntries
  BY <1>1 DEF MemTypes, MachineTypes, Installed, AnyRegion
<1>3. /\ at.region = allocRegion[a].region /\ at.region # DummyRegion /\ at.region \in Regions
      /\ at.region \notin retired[a]
  <2>1. at.region = allocRegion[a].region /\ at.region # DummyRegion
    BY <1>1 DEF Fresh, AtReads
  <2>2. allocRegion[a].region \in Regions \cup {DummyRegion}
    BY <1>1, <1>2 DEF Installed
  <2>. QED  BY <1>1, <2>1, <2>2 DEF Apart
<1>4. /\ at' \in AtRegisters /\ at'.state = "WAIT_NEW_ALLOC_REGION" /\ at'.attr = a
      /\ at'.region = at.region /\ at'.new = at.new
  BY <1>1 DEF AtRegisters, AtStates, AtAsking
<1>5. /\ allocRegion' \in [Attrs -> Installed] /\ allocRegion'[a].region = DummyRegion
      /\ \A b \in Attrs : b # a => allocRegion'[b] = allocRegion[b]
  BY <1>1, <1>2
<1>6. /\ retired' \in [Attrs -> SUBSET Regions] /\ retired'[a] = retired[a] \cup {at.region}
      /\ \A b \in Attrs : b # a => retired'[b] = retired[b]
  BY <1>1, <1>2, <1>3
<1>7. /\ regionCache' \in [Attrs -> CacheEntries]
      /\ \A b \in Attrs : regionCache'[b].valid => regionCache'[b].region = allocRegion'[b].region
  <2>1. CASE regionCache[a].valid
    <3>1. regionCache' = [regionCache EXCEPT ![a] = [regionCache[a] EXCEPT !.region = DummyRegion]]
      BY <1>1, <1>2, <2>1
    <3>2. /\ [regionCache[a] EXCEPT !.region = DummyRegion] \in CacheEntries
          /\ [regionCache[a] EXCEPT !.region = DummyRegion].region = DummyRegion
      BY <1>2 DEF CacheEntries
    <3>. QED  BY <3>1, <3>2, <1>1, <1>2, <1>5 DEF Fresh
  <2>2. CASE ~regionCache[a].valid
    <3>1. regionCache' = regionCache
      <4>1. regionCache' = [regionCache EXCEPT ![a] = [regionCache[a] EXCEPT !.region = @]]
        BY <1>1, <1>2, <2>2
      <4>2. [regionCache[a] EXCEPT !.region = @] = regionCache[a]
        BY <1>2 DEF CacheEntries
      <4>. QED  BY <4>1, <4>2, <1>2
    <3>. QED  BY <3>1, <2>2, <1>2, <1>5 DEF Fresh
  <2>. QED  BY <2>1, <2>2
<1>8. \A b \in Attrs : Known(b)' = Known(b)
  BY <1>1, <1>3, <1>5, <1>6 DEF Known
<1>. USE <1>1 DEF lowVars, frVars, ngVars, ngMemory
<1>9. RegionTypes'
  BY <1>4, <1>5, <1>6, <1>7 DEF FreeTypes, MemTypes, MachineTypes, Named, AtHas
<1>10. Calls'
  BY <1>4 DEF Calls, AtAsking, AtReads
<1>11. Fresh'
  BY <1>4, <1>5, <1>7 DEF Fresh, AtReads, AtHas, MfTrying, Calls
<1>12. InHand' = InHand /\ Recorded' = Recorded
  BY <1>4 DEF InHand, Recorded, AtHas
<1>13. 0 \in Attrs /\ 1 \in Attrs
  BY DEF Attrs
<1>14. Apart' /\ OldElsewhere'
  <2>1. \A b \in Attrs : allocRegion'[b].region \notin retired'[b]
    BY <1>5, <1>6, Constants DEF Apart, Region0
  <2>2. OnList' = OnList /\ Given' = Given
    BY DEF OnList, Index, Given
  <2>. QED  BY <1>8, <1>12, <1>13, <2>1, <2>2 DEF Apart, OldElsewhere
<1>15. Prepared'
  BY <1>4, <1>8 DEF Prepared, NgAt, Set, AtHas
<1>16. ArraySound'
  BY <1>8, <1>12, <1>13, SameFiled DEF ArraySound, NgAt
<1>17. Counted'
  <2>1. IsFiniteSet(retired[1])
    BY DEF Counted
  <2>2. CASE a = 1
    <3>1. /\ IsFiniteSet(retired[1] \cup {at.region})
          /\ Cardinality(retired[1] \cup {at.region}) = Cardinality(retired[1]) + 1
      BY <2>1, <2>2, <1>3, FS_AddElement
    <3>2. Cardinality(retired[1]) \in Nat
      BY <2>1, FS_CardinalityType
    <3>. QED  BY <3>1, <3>2, <2>2, <1>4, <1>6 DEF Counted, AtState
  <2>3. CASE a # 1
    BY <2>3, <1>4, <1>6, <1>13 DEF Counted, AtState
  <2>. QED  BY <2>2, <2>3
<1>. QED  BY SameLow, <1>9, <1>10, <1>11, <1>14, <1>15, <1>16, <1>17

\* GCNewGCAlloc's answer is taken.
LEMMA AtTakeKeeps == ASSUME RegionInv, AtTakeRegion PROVE RegionInv'
<1>. USE DEF RegionInv, RegionTypes
<1>1. /\ at.state = "WAIT_NEW_ALLOC_REGION" /\ newDone.valid /\ at \in AtRegisters
      /\ ng.state = "IDLE" /\ ~freeDone.valid /\ fr.state = "IDLE" /\ newDone \in Answers
      /\ newDone' = NoAnswer
      /\ at' = [at EXCEPT !.state = "START_PAR_AND_CLEAR_NEW_REGION", !.new = newDone.region]
      /\ UNCHANGED <<mf, iml, pa, regionCache, parMemory, retired, ng, ngMemory, frVars>>
  BY DEF AtTakeRegion, AtState, atSame, Calls, MachineTypes, FreeTypes
<1>2. newDone.region \in Region0 /\ newDone.region # NoRegion
  BY <1>1 DEF Answers, Named
<1>3. /\ at' \in AtRegisters /\ at'.state = "START_PAR_AND_CLEAR_NEW_REGION" /\ at'.attr = at.attr
      /\ at'.region = at.region /\ at'.new = newDone.region
  BY <1>1, <1>2 DEF AtRegisters, AtStates, AtHas
<1>4. newDone' \in Answers /\ ~newDone'.valid
  BY <1>1 DEF NoAnswer, Answers, Region0
<1>. USE <1>1 DEF frVars, ngMemory, parMemory
<1>5. RegionTypes'
  BY <1>2, <1>3, <1>4 DEF FreeTypes, MemTypes, MachineTypes, Named
<1>6. Calls'
  BY <1>3, <1>4 DEF Calls
<1>7. Fresh'
  BY <1>3 DEF Fresh, AtReads, AtHas
<1>8. InHand' = InHand /\ Recorded' = Recorded
  BY <1>3, <1>4 DEF InHand, Recorded, AtHas, NgHas, NgStoring, NgListing, Removed
<1>9. Apart' /\ OldElsewhere'
  BY <1>8 DEF Apart, Given, OnList, Index, Known, OldElsewhere
<1>10. Prepared'
  BY <1>3, <1>4 DEF Prepared, Known, NgAt, Set, AtHas
<1>11. ArraySound'
  BY <1>8, SameFiled DEF ArraySound, Known, NgAt
<1>12. Counted'
  BY <1>3 DEF Counted, AtState
<1>. QED  BY SameLow, <1>5, <1>6, <1>7, <1>9, <1>10, <1>11, <1>12

\* The region in hand becomes the allocator's.
LEMMA AtWriteNewKeeps == ASSUME RegionInv, AtWriteNew PROVE RegionInv'
<1>. USE DEF RegionInv, RegionTypes
<1>. DEFINE a == at.attr
            new == [region |-> at.new, used |-> at.top]
<1>1. /\ at.state = "WRITE_REGION_TO_NEW" /\ at \in AtRegisters /\ a \in Attrs
      /\ ng.state = "IDLE" /\ ~newDone.valid /\ ~freeDone.valid /\ fr.state = "IDLE"
      /\ at' = [at EXCEPT !.state = "WAIT_PAR_DONE"]
      /\ allocRegion' = [allocRegion EXCEPT ![a] = new]
      /\ regionCache' = [regionCache EXCEPT ![a].region = IF regionCache[a].valid THEN at.new
           ELSE @]
      /\ UNCHANGED <<mf, iml, pa, top, oldSet, retired, lowVars>>
  BY DEF AtWriteNew, AtState, AtGoto, EmitCacheUpdate, MachineTypes, atSame, AtRegisters, Calls,
         AtAsking, AtReads
<1>2. /\ allocRegion \in [Attrs -> Installed] /\ at.new \in Regions /\ new \in Installed
      /\ regionCache \in [Attrs -> CacheEntries] /\ at.new \in AnyRegion
      /\ regionCache[a] \in CacheEntries
  BY <1>1 DEF MemTypes, MachineTypes, Installed, AnyRegion, AtRegisters, Named, AtHas, Region0
<1>3. InHand = {at.new} /\ Recorded = IF a = 0 THEN {at.new} ELSE {}
  BY <1>1 DEF InHand, Recorded, AtHas, NgHas, NgStoring, NgListing, Removed
<1>4. /\ at' \in AtRegisters /\ at'.state = "WAIT_PAR_DONE" /\ at'.attr = a /\ at'.new = at.new
  BY <1>1 DEF AtRegisters, AtStates
<1>5. /\ allocRegion' \in [Attrs -> Installed] /\ allocRegion'[a].region = at.new
      /\ \A b \in Attrs : b # a => allocRegion'[b] = allocRegion[b]
  BY <1>1, <1>2
<1>6. /\ regionCache' \in [Attrs -> CacheEntries]
      /\ \A b \in Attrs : regionCache'[b].valid => regionCache'[b].region = allocRegion'[b].region
  <2>1. CASE regionCache[a].valid
    <3>1. regionCache' = [regionCache EXCEPT ![a] = [regionCache[a] EXCEPT !.region = at.new]]
      BY <1>1, <1>2, <2>1
    <3>2. /\ [regionCache[a] EXCEPT !.region = at.new] \in CacheEntries
          /\ [regionCache[a] EXCEPT !.region = at.new].region = at.new
      BY <1>2 DEF CacheEntries
    <3>. QED  BY <3>1, <3>2, <1>1, <1>2, <1>5 DEF Fresh
  <2>2. CASE ~regionCache[a].valid
    <3>1. regionCache' = regionCache
      <4>1. regionCache' = [regionCache EXCEPT ![a] = [regionCache[a] EXCEPT !.region = @]]
        BY <1>1, <1>2, <2>2
      <4>2. [regionCache[a] EXCEPT !.region = @] = regionCache[a]
        BY <1>2 DEF CacheEntries
      <4>. QED  BY <4>1, <4>2, <1>2
    <3>. QED  BY <3>1, <2>2, <1>2, <1>5 DEF Fresh
  <2>. QED  BY <2>1, <2>2
<1>7. allocRegion[a].region = DummyRegion
  BY <1>1 DEF Fresh, AtHas
<1>8. /\ Known(a)' = Known(a) \cup {at.new}
      /\ \A b \in Attrs : b # a => Known(b)' = Known(b)
  BY <1>1, <1>2, <1>5, <1>7, Constants DEF Known, Region0
<1>9. 0 \in Attrs /\ 1 \in Attrs /\ (a = 0 \/ a = 1)
  BY <1>1 DEF Attrs
<1>. USE <1>1 DEF lowVars, frVars, ngVars, ngMemory
<1>10. RegionTypes'
  BY <1>4, <1>5, <1>6 DEF FreeTypes, MemTypes, MachineTypes, Named, AtHas
<1>11. Calls'
  BY <1>4 DEF Calls
<1>12. Fresh'
  BY <1>4, <1>6 DEF Fresh, AtReads, AtHas, MfTrying, Calls
<1>13. InHand' = {} /\ Recorded' = {}
  BY <1>4 DEF InHand, Recorded, AtHas, NgHas, NgStoring, NgListing, Removed
<1>14. Apart'
  <2>1. OnList' = OnList /\ Given' = Given
    BY DEF OnList, Index, Given
  <2>2. at.new \notin Known(0) \cup Known(1) \cup OnList /\ at.new # OldRegion
    BY <1>3, Constants DEF Apart
  <2>3. \A b \in Attrs : allocRegion'[b].region \notin retired[b]
    BY <1>5, <1>9, <2>2 DEF Apart, Known
  <2>4. Known(0) \cap Known(1) = {} /\ OnList \cap (Known(0) \cup Known(1)) = {}
    BY DEF Apart
  <2>5. Known(0)' \cap Known(1)' = {} /\ OnList \cap (Known(0)' \cup Known(1)') = {}
    BY <1>8, <1>9, <2>2, <2>4
  <2>6. /\ Given = OnList \cup {at.new} \cup ((Known(0) \cup Known(1)) \ {OldRegion})
        /\ Known(0)' \cup Known(1)' = Known(0) \cup Known(1) \cup {at.new}
    BY <1>3, <1>8, <1>9 DEF Apart
  <2>7. Given = OnList \cup ((Known(0)' \cup Known(1)') \ {OldRegion})
    BY <2>2, <2>6
  <2>. QED  BY <1>13, <2>1, <2>3, <2>5, <2>7 DEF Apart
<1>15. OldElsewhere'
  BY <1>3, <1>8, <1>9, Constants DEF OldElsewhere, Apart
<1>16. Prepared'
  <2>1. Set(at.new, Kind(a))
    BY <1>1 DEF Prepared, AtHas
  <2>2. \A b \in Attrs : \A r \in Known(b)' \ {OldRegion} : Set(r, Kind(b))
    BY <1>8, <2>1 DEF Prepared
  <2>. QED  BY <2>2, <1>4 DEF Prepared, NgAt, Set, AtHas, NgHas, NgStoring, NgListing
<1>17. ArraySound'
  <2>1. Known(0)' \cup Recorded' = Known(0) \cup Recorded
    BY <1>3, <1>8, <1>9, <1>13
  <2>. QED  BY <2>1, SameFiled DEF ArraySound, NgAt
<1>18. Counted'
  BY <1>4 DEF Counted, AtState
<1>. QED  BY SameLow, <1>10, <1>11, <1>12, <1>14, <1>15, <1>16, <1>17, <1>18

\* The end of the attempt.
LEMMA AtWaitParKeeps == ASSUME RegionInv, AtWaitPar PROVE RegionInv'
<1>. USE DEF RegionInv, RegionTypes
<1>1. /\ at.state = "WAIT_PAR_DONE" /\ at \in AtRegisters /\ mf \in MfRegisters
      /\ ng.state = "IDLE" /\ ~newDone.valid /\ ~freeDone.valid /\ fr.state = "IDLE"
      /\ at' = [at EXCEPT !.state = "IDLE"]
      /\ \/ mf' = [mf EXCEPT !.state = "MARK_ALLOCATOR_FULL"]
         \/ mf' = [mf EXCEPT !.state = "UNLOCK_FREELIST"]
      /\ UNCHANGED <<iml, pa, regionCache, parMemory, retired, lowVars>>
  BY DEF AtWaitPar, AtState, AtGoto, MachineTypes, Calls, AtAsking, AtReads
<1>2. at' \in AtRegisters /\ at'.state = "IDLE" /\ at'.attr = at.attr
  BY <1>1 DEF AtRegisters, AtStates
<1>3. mf' \in MfRegisters /\ mf'.state \in {"MARK_ALLOCATOR_FULL", "UNLOCK_FREELIST"}
  BY <1>1 DEF MfRegisters, MfStates
<1>. USE <1>1 DEF lowVars, frVars, ngVars, ngMemory, parMemory
<1>4. RegionTypes'
  BY <1>2, <1>3 DEF FreeTypes, MemTypes, MachineTypes, Named, AtHas, MfTrying
<1>5. Calls'
  BY <1>2, <1>3 DEF Calls
<1>6. Fresh'
  BY <1>2, <1>3 DEF Fresh, AtReads, AtHas, MfTrying
<1>7. InHand' = InHand /\ Recorded' = Recorded
  BY <1>2 DEF InHand, Recorded, AtHas
<1>8. Apart' /\ OldElsewhere'
  BY <1>7 DEF Apart, Given, OnList, Index, Known, OldElsewhere
<1>9. Prepared'
  BY <1>2 DEF Prepared, Known, NgAt, Set, AtHas
<1>10. ArraySound'
  BY <1>7, SameFiled DEF ArraySound, Known, NgAt
<1>11. Counted'
  BY <1>2 DEF Counted, AtState
<1>. QED  BY SameLow, <1>4, <1>5, <1>6, <1>8, <1>9, <1>10, <1>11

-----------------------------------------------------------------------------
\* GCNewGCAlloc.  A step that reads, with or without a region in hand.
LEMMA NgMoves ==
  ASSUME RegionInv, UNCHANGED <<parVars, newDone, ngMemory, frVars>>,
         ng' \in NgRegisters, ng'.kind = ng.kind, ng'.region = ng.region,
         ng.state # "IDLE", ng'.state # "IDLE",
         ng'.state \in NgHas <=> ng.state \in NgHas,
         ng'.state \in NgListing <=> ng.state \in NgListing,
         fr.state # "IDLE" \/ freeDone.valid => ng'.state = "WAIT_ALLOC_AND_CONFIG",
         ng'.state \in NgHas => regionType[ng.region] = ng.kind,
         ng'.state # "WRITE_REGION_ATTR", ng.state # "WRITE_GROW_ARRAY_ITEM",
         ng'.state # "WRITE_GROW_ARRAY_ITEM",
         ng'.state \in NgStoring => ng.kind = "young",
         ng'.state \in {"READ_DATA_PTR", "WRITE_GROW_ARRAY_LEN"} =>
           ng'.arrayLen = survivors.len /\ ng'.arrayLen < ArrayMax,
         ng'.state = "WRITE_GROW_ARRAY_LEN" => ng'.dataPtr \/ survivors.split
  PROVE  RegionInv'
<1>. USE DEF RegionInv, RegionTypes, parVars, machines, parMemory, frVars, ngMemory
<1>1. RegionTypes'
  BY DEF FreeTypes, MemTypes, MachineTypes, Named
<1>2. Calls'
  BY DEF Calls
<1>3. Fresh'
  BY DEF Fresh
<1>4. InHand' = InHand /\ Recorded' = Recorded
  BY DEF InHand, Recorded
<1>5. Apart' /\ OldElsewhere'
  BY <1>4 DEF Apart, Given, OnList, Index, Known, OldElsewhere
<1>6. Prepared'
  BY DEF Prepared, Known, NgAt, Set
<1>7. ArraySound'
  <2>1. written' = written
    BY DEF written, NgAt
  <2>2. Filed(written)' = Filed(written)
    BY <2>1 DEF Filed
  <2>. QED  BY <1>4, <2>1, <2>2 DEF ArraySound, Known, NgAt
<1>8. Counted'
  BY DEF Counted, AtState
<1>. QED  BY SameLow, <1>1, <1>2, <1>3, <1>5, <1>6, <1>7, <1>8

\* The states of GCNewGCAlloc that only read.
LEMMA NgReadsKeep ==
  ASSUME RegionInv,
         ReadNodeIndex \/ ReadGrowArrayPtr \/ ReadRegionAttrBase \/ ReadGrowArray \/ ReadDataPtr
         \/ ReadRegionInfoNg,
         UNCHANGED parVars
  PROVE  RegionInv'
<1>. USE DEF RegionInv, RegionTypes
<1>1. ng \in NgRegisters /\ survivors.len \in Nat /\ survivors.len <= ArrayMax
      /\ UNCHANGED <<newDone, ngMemory, frVars>>
  BY DEF FreeTypes, MemTypes, Arrays, ArraySound, ReadNodeIndex, ReadGrowArrayPtr,
         ReadRegionAttrBase, ReadGrowArray, ReadDataPtr, ReadRegionInfoNg
<1>2. CASE ReadNodeIndex
  <2>1. ng.state = "READ_NODE_INDEX" /\ ng' = [ng EXCEPT !.state = "CALL_ALLOC_FREE"]
    BY <1>2 DEF ReadNodeIndex, NgAt, NgGoto
  <2>2. ng' \in NgRegisters /\ ng'.state = "CALL_ALLOC_FREE" /\ ng'.kind = ng.kind
        /\ ng'.region = ng.region
    BY <2>1, <1>1 DEF NgRegisters, NgStates, NgAsking
  <2>. QED  BY <2>1, <2>2, <1>1, NgMoves DEF NgHas, NgStoring, NgListing, Calls
<1>3. CASE ReadGrowArrayPtr \/ ReadRegionAttrBase
  <2>1. ng.state = "WAIT_ALLOC_AND_CONFIG"
        /\ \/ ng' = [ng EXCEPT !.growArrayPtrValid = TRUE]
           \/ ng' = [ng EXCEPT !.regionAttrBaseValid = TRUE]
    BY <1>3 DEF ReadGrowArrayPtr, ReadRegionAttrBase, NgAt
  <2>2. ng' \in NgRegisters /\ ng'.state = ng.state /\ ng'.kind = ng.kind /\ ng'.region = ng.region
    BY <2>1, <1>1 DEF NgRegisters
  <2>. QED  BY <2>1, <2>2, <1>1, NgMoves DEF NgHas, NgStoring, NgListing
<1>4. CASE ReadGrowArray
  <2>1. ng.state = "READ_GROW_ARRAY" /\ ng.kind = "young" /\ regionType[ng.region] = ng.kind
        /\ fr.state = "IDLE" /\ ~freeDone.valid
    BY <1>4 DEF ReadGrowArray, NgAt, ArraySound, NgStoring, Prepared, NgHas, Calls
  <2>0. canReadDataPtrTogether \in BOOLEAN
    BY DEF canReadDataPtrTogether
  <2>2. CASE survivors.len = ArrayMax
    <3>1. ng' = [ng EXCEPT !.arrayLen = survivors.len, !.dataPtr = canReadDataPtrTogether,
                           !.state = "SEND_GROW_IRQ"]
      BY <2>2, <1>4 DEF ReadGrowArray
    <3>2. ng' \in NgRegisters /\ ng'.state = "SEND_GROW_IRQ" /\ ng'.kind = ng.kind
          /\ ng'.region = ng.region
      BY <3>1, <1>1, <2>0 DEF NgRegisters, NgStates, NgHas, NgStoring
    <3>. QED  BY <3>2, <2>1, <1>1, NgMoves DEF NgHas, NgStoring, NgListing
  <2>3. CASE survivors.len # ArrayMax
    <3>1. ng' = [ng EXCEPT !.arrayLen = survivors.len, !.dataPtr = canReadDataPtrTogether,
                           !.state = IF canReadDataPtrTogether THEN "READ_DATA_PTR"
                                                               ELSE "WRITE_GROW_ARRAY_LEN"]
      BY <2>3, <1>4 DEF ReadGrowArray
    <3>2. ng' \in NgRegisters /\ ng'.kind = ng.kind /\ ng'.region = ng.region
          /\ ng'.arrayLen = survivors.len
          /\ \/ ng'.state = "READ_DATA_PTR"
             \/ ng'.state = "WRITE_GROW_ARRAY_LEN" /\ survivors.split
      BY <3>1, <1>1, <2>0 DEF NgRegisters, NgStates, NgHas, NgStoring, canReadDataPtrTogether
    <3>3. survivors.len < ArrayMax
      BY <2>3, <1>1, Constants
    <3>. QED  BY <3>2, <3>3, <2>1, <1>1, NgMoves DEF NgHas, NgStoring, NgListing
  <2>. QED  BY <2>2, <2>3
<1>5. CASE ReadDataPtr
  <2>1. ng.state = "READ_DATA_PTR" /\ ng.kind = "young" /\ regionType[ng.region] = ng.kind
        /\ fr.state = "IDLE" /\ ~freeDone.valid
        /\ ng.arrayLen = survivors.len /\ ng.arrayLen < ArrayMax
        /\ ng' = [ng EXCEPT !.state = "WRITE_GROW_ARRAY_LEN", !.dataPtr = TRUE]
    BY <1>5 DEF ReadDataPtr, NgAt, NgGoto, ArraySound, NgStoring, Prepared, NgHas, Calls
  <2>2. ng' \in NgRegisters /\ ng'.state = "WRITE_GROW_ARRAY_LEN" /\ ng'.kind = ng.kind
        /\ ng'.region = ng.region /\ ng'.arrayLen = ng.arrayLen /\ ng'.dataPtr
    BY <2>1, <1>1 DEF NgRegisters, NgStates, NgHas, NgStoring
  <2>. QED  BY <2>1, <2>2, <1>1, NgMoves DEF NgHas, NgStoring, NgListing
<1>6. CASE ReadRegionInfoNg
  <2>1. ng.state = "READ_REGION_INFO" /\ regionType[ng.region] = ng.kind
        /\ fr.state = "IDLE" /\ ~freeDone.valid
        /\ ng' = [ng EXCEPT !.state = "FINAL_UPDATE"]
    BY <1>6 DEF ReadRegionInfoNg, NgAt, NgGoto, NgListing, Prepared, NgHas, Calls
  <2>2. ng' \in NgRegisters /\ ng'.state = "FINAL_UPDATE" /\ ng'.kind = ng.kind
        /\ ng'.region = ng.region
    BY <2>1, <1>1 DEF NgRegisters, NgStates, NgHas, NgListing
  <2>. QED  BY <2>1, <2>2, <1>1, NgMoves DEF NgHas, NgStoring, NgListing
<1>. QED  BY <1>2, <1>3, <1>4, <1>5, <1>6

\* The command to GCAllocFreeRegion.
LEMMA CallAllocFreeKeeps == ASSUME RegionInv, CallAllocFree, UNCHANGED parVars PROVE RegionInv'
<1>. USE DEF RegionInv, RegionTypes
<1>1. /\ ng.state = "CALL_ALLOC_FREE" /\ FrCommand(ng.kind = "old") /\ ng \in NgRegisters
      /\ fr.state = "IDLE" /\ freeDone = NoAnswer /\ freeDone' = freeDone
      /\ at.state \in AtAsking /\ ~newDone.valid
      /\ ng' = [ng EXCEPT !.state = "WAIT_ALLOC_AND_CONFIG"]
      /\ UNCHANGED <<newDone, ngMemory, free>>
  BY DEF CallAllocFree, NgAt, NgGoto, FreeTypes, Calls, FrCommand, FrAt
<1>2. FrInv'
  <2>1. (ng.kind = "old") \in BOOLEAN
    OBVIOUS
  <2>2. FrAsk
    BY <1>1, <2>1 DEF FrAsk
  <2>. QED  BY <2>2, AskKeeps, FreeRegionAssumption
<1>3. ng' \in NgRegisters /\ ng'.state = "WAIT_ALLOC_AND_CONFIG" /\ ng'.kind = ng.kind
  BY <1>1 DEF NgRegisters, NgStates
<1>4. fr'.state = "READ_LIST_META_0"
  BY <1>1 DEF FrCommand, FrInv, FrTypes
<1>. USE <1>1 DEF parVars, machines, parMemory, ngMemory
<1>5. RegionTypes'
  BY <1>3 DEF FreeTypes, MemTypes, MachineTypes, Named, NgHas, NgStoring, NgListing
<1>6. Calls'
  BY <1>3 DEF Calls
<1>7. Fresh'
  BY DEF Fresh
<1>8. InHand = {} /\ InHand' = {} /\ Recorded' = Recorded
  BY <1>3, <1>4 DEF InHand, Recorded, AtHas, AtAsking, AtReads, NgHas, NgStoring, NgListing,
                    Removed, NoAnswer
<1>9. Apart' /\ OldElsewhere'
  BY <1>8 DEF Apart, Given, OnList, Index, Known, OldElsewhere
<1>10. Prepared'
  BY <1>3 DEF Prepared, Known, NgAt, Set, NgHas, NgStoring, NgListing
<1>11. ArraySound'
  <2>1. written' = written
    BY <1>3 DEF written, NgAt
  <2>2. Filed(written)' = Filed(written)
    BY <2>1 DEF Filed
  <2>. QED  BY <1>3, <1>8, <2>1, <2>2 DEF ArraySound, Known, NgAt, NgStoring
<1>12. Counted'
  BY DEF Counted, AtState
<1>. QED  BY <1>2, <1>5, <1>6, <1>7, <1>9, <1>10, <1>11, <1>12

\* An answer of the free list is taken.
LEMMA FreeDoneCleared ==
  ASSUME FrInv, UNCHANGED <<list, link, fr, free>>, freeDone' = NoAnswer PROVE FrInv'
<1>1. FrTypes' /\ Ends' /\ Hint' /\ Links' /\ Reads'
  BY DEF FrInv, FrTypes, Ends, Hint, Links, Late, NextOf, PrevOf, Reads, Index
<1>2. Taken'
  BY DEF FrInv, Taken, Index, NoAnswer, Found
<1>. QED  BY <1>1, <1>2 DEF FrInv

\* The region the free list's machine answers with, or that there is none.
LEMMA FreeAnswerKeeps == ASSUME RegionInv, AllocDone \/ NoRegionFree, UNCHANGED parVars
  PROVE RegionInv'
<1>. USE DEF RegionInv, RegionTypes
<1>1. /\ ng.state = "WAIT_ALLOC_AND_CONFIG" /\ ng \in NgRegisters /\ freeDone.valid
      /\ freeDone \in Answers /\ freeDone' = NoAnswer
      /\ at.state \in AtAsking /\ ~newDone.valid
      /\ UNCHANGED <<newDone, ngMemory, list, link, fr, free>>
      /\ fr.state = "IDLE"
  BY DEF AllocDone, NoRegionFree, NgAt, Calls, FreeTypes, FrInv, Taken, Found, NoAnswer
<1>2. FrInv'
  BY <1>1, FreeDoneCleared
<1>3. freeDone' \in Answers /\ ~freeDone'.valid
  BY <1>1 DEF NoAnswer, Answers, Region0
<1>. USE <1>1 DEF parVars, machines, parMemory, ngMemory
<1>4. CASE AllocDone
  <2>1. ng' = [ng EXCEPT !.region = freeDone.region, !.state = "WRITE_REGION_TYPE"]
        /\ freeDone.region # NoRegion /\ freeDone.region \in Region0
    BY <1>4 DEF AllocDone, Answers
  <2>2. ng' \in NgRegisters /\ ng'.state = "WRITE_REGION_TYPE" /\ ng'.kind = ng.kind
        /\ ng'.region = freeDone.region
    BY <2>1 DEF NgRegisters, NgStates, NgHas
  <2>3. RegionTypes'
    BY <1>3, <2>1, <2>2 DEF FreeTypes, MemTypes, MachineTypes, Named
  <2>4. Calls'
    BY <1>3, <2>2 DEF Calls
  <2>5. Fresh'
    BY DEF Fresh
  <2>6. InHand' = InHand /\ Recorded' = Recorded
    BY <1>3, <2>1, <2>2 DEF InHand, Recorded, NgHas, NgStoring, NgListing, Removed, AtHas, AtAsking,
                            AtReads
  <2>7. Apart' /\ OldElsewhere'
    BY <2>6 DEF Apart, Given, OnList, Index, Known, OldElsewhere
  <2>8. Prepared'
    BY <2>2 DEF Prepared, Known, NgAt, Set
  <2>9. ArraySound'
    <3>1. written' = written
      BY <2>2 DEF written, NgAt
    <3>2. Filed(written)' = Filed(written)
      BY <3>1 DEF Filed
    <3>. QED  BY <2>2, <2>6, <3>1, <3>2 DEF ArraySound, Known, NgAt, NgStoring
  <2>10. Counted'
    BY DEF Counted, AtState
  <2>. QED  BY <1>2, <2>3, <2>4, <2>5, <2>7, <2>8, <2>9, <2>10
<1>5. CASE NoRegionFree
  <2>1. freeDone.region = NoRegion
        /\ (ng' = ng \/ ng' = [ng EXCEPT !.state = "CALL_EXPAND_SINGLE_REGION_IRQ"])
    BY <1>5 DEF NoRegionFree, NgGoto, Found
  <2>2. ng' \in NgRegisters /\ ng'.kind = ng.kind
        /\ ng'.state \in {"WAIT_ALLOC_AND_CONFIG", "CALL_EXPAND_SINGLE_REGION_IRQ"}
    BY <2>1 DEF NgRegisters, NgStates
  <2>3. RegionTypes'
    BY <1>3, <2>2 DEF FreeTypes, MemTypes, MachineTypes, Named, NgHas, NgStoring, NgListing
  <2>4. Calls'
    BY <1>3, <2>2 DEF Calls
  <2>5. Fresh'
    BY DEF Fresh
  <2>6. InHand = {} /\ InHand' = {} /\ Recorded' = Recorded
    BY <1>3, <2>1, <2>2 DEF InHand, Recorded, NgHas, NgStoring, NgListing, Removed, AtHas, AtAsking,
                            AtReads
  <2>7. Apart' /\ OldElsewhere'
    BY <2>6 DEF Apart, Given, OnList, Index, Known, OldElsewhere
  <2>8. Prepared'
    BY <2>2 DEF Prepared, Known, NgAt, Set, NgHas, NgStoring, NgListing
  <2>9. ArraySound'
    <3>1. written' = written
      BY <2>2 DEF written, NgAt
    <3>2. Filed(written)' = Filed(written)
      BY <3>1 DEF Filed
    <3>. QED  BY <2>2, <2>6, <3>1, <3>2 DEF ArraySound, Known, NgAt, NgStoring
  <2>10. Counted'
    BY DEF Counted, AtState
  <2>. QED  BY <1>2, <2>3, <2>4, <2>5, <2>7, <2>8, <2>9, <2>10
<1>. QED  BY <1>4, <1>5

\* While GCNewGCAlloc prepares a region nobody else knows it.
LEMMA NgHolds ==
  ASSUME RegionInv, ng.state \in NgHas
  PROVE  /\ ng.region \in Regions /\ InHand = {ng.region} /\ fr.state = "IDLE" /\ ~freeDone.valid
         /\ ng.region \notin Known(0) \cup Known(1) /\ at.state \in AtAsking /\ ~newDone.valid
         /\ ng \in NgRegisters /\ at.state \notin AtHas /\ ng.kind = Kind(at.attr)
         /\ at.attr \in Attrs /\ \A a \in Attrs : ng.region \notin Known(a)
<1>1. /\ fr.state = "IDLE" /\ ~freeDone.valid /\ at.state \in AtAsking /\ ~newDone.valid
      /\ ng.kind = Kind(at.attr) /\ ng \in NgRegisters /\ ng.region # NoRegion /\ at \in AtRegisters
  BY DEF RegionInv, RegionTypes, Calls, NgHas, NgStoring, NgListing, FreeTypes, MachineTypes, Named
<1>2. InHand = {ng.region}
  BY <1>1 DEF InHand, Removed
<1>3. ng.region \in Regions /\ at.state \notin AtHas /\ at.attr \in Attrs
  BY <1>1 DEF NgRegisters, Region0, AtHas, AtAsking, AtReads, AtRegisters
<1>4. ng.region \notin Known(0) \cup Known(1)
  BY <1>2 DEF RegionInv, Apart
<1>. QED  BY <1>1, <1>2, <1>3, <1>4 DEF Attrs

\* A step of GCNewGCAlloc that writes memory about its region: who has which
\* region does not change.
LEMMA NgWrites ==
  ASSUME RegionInv, ng.state \in NgHas, ng'.state \in NgHas, ng'.region = ng.region,
         ng'.kind = ng.kind, ng' \in NgRegisters,
         UNCHANGED <<parVars, newDone, frVars>>, MemTypes', Prepared', ArraySound'
  PROVE  RegionInv'
<1>. USE DEF RegionInv, RegionTypes, parVars, machines, parMemory, frVars
<1>1. RegionTypes'
  BY NgHolds DEF FreeTypes, MachineTypes, Named
<1>2. Calls'
  BY NgHolds DEF Calls, NgHas, NgStoring, NgListing
<1>3. Fresh'
  BY DEF Fresh
<1>4. InHand' = InHand
  BY DEF InHand
<1>5. Apart' /\ OldElsewhere'
  BY <1>4 DEF Apart, Given, OnList, Index, Known, OldElsewhere
<1>6. Counted'
  BY DEF Counted, AtState
<1>. QED  BY SameLow, <1>1, <1>2, <1>3, <1>5, <1>6

\* The type is stamped.
LEMMA WriteTypeKeeps == ASSUME RegionInv, WriteRegionType, UNCHANGED parVars PROVE RegionInv'
<1>. USE DEF RegionInv, RegionTypes
<1>1. /\ ng.state = "WRITE_REGION_TYPE" /\ ng \in NgRegisters /\ ng.region \in Regions
      /\ ng.kind \in Kinds /\ ng.state \in NgHas
      /\ \A a \in Attrs : ng.region \notin Known(a)
      /\ regionType' = [regionType EXCEPT ![ng.region] = ng.kind]
      /\ ng' = [ng EXCEPT !.state = IF ng.kind = "young" THEN "READ_GROW_ARRAY"
           ELSE "READ_REGION_INFO"]
      /\ UNCHANGED <<newDone, remset, regionAttr, survivors, frVars>>
  BY NgHolds DEF WriteRegionType, NgAt, NgGoto, NgHas, NgRegisters
<1>2. /\ ng' \in NgRegisters /\ ng'.region = ng.region /\ ng'.kind = ng.kind
      /\ ng'.arrayLen = ng.arrayLen
      /\ \/ ng.kind = "young" /\ ng'.state = "READ_GROW_ARRAY"
         \/ ng.kind # "young" /\ ng'.state = "READ_REGION_INFO"
  BY <1>1 DEF NgRegisters, NgStates, NgHas, NgStoring, NgListing
<1>3. /\ regionType' \in [Regions -> {"free"} \cup Kinds] /\ regionType'[ng.region] = ng.kind
      /\ \A r \in Regions : r # ng.region => regionType'[r] = regionType[r]
  BY <1>1 DEF MemTypes
<1>. USE <1>1 DEF parVars, machines, parMemory
<1>4. MemTypes'
  BY <1>3 DEF MemTypes
<1>5. Prepared'
  <2>1. \A a \in Attrs : Known(a)' = Known(a) /\ Known(a) \subseteq Regions
    BY DEF Known, MemTypes, Installed
  <2>2. \A a \in Attrs : \A r \in Known(a)' \ {OldRegion} : Set(r, Kind(a))'
    BY <1>3, <2>1 DEF Prepared, Set, Remset, Updates, Kind
  <2>. QED  BY <1>2, <1>3, <2>2, NgHolds DEF Prepared, NgAt
<1>6. ArraySound'
  <2>1. written' = written /\ Recorded' = {} /\ Recorded = {} /\ survivors' = survivors
    BY <1>2, NgHolds DEF written, NgAt, Recorded, NgListing
  <2>2. Filed(written)' = Filed(written)
    BY <2>1 DEF Filed
  <2>. QED  BY <1>2, <2>1, <2>2 DEF ArraySound, Known, NgAt, NgStoring
<1>. QED  BY <1>2, <1>4, <1>5, <1>6, NgWrites DEF NgHas, NgStoring, NgListing

\* The array is longer before the item is there.
LEMMA WriteLenKeeps == ASSUME RegionInv, WriteGrowArrayLen, UNCHANGED parVars PROVE RegionInv'
<1>. USE DEF RegionInv, RegionTypes
<1>1. /\ ng.state = "WRITE_GROW_ARRAY_LEN" /\ ng.state \in NgHas /\ ng \in NgRegisters
      /\ ng.kind = "young" /\ ng.arrayLen = survivors.len /\ ng.arrayLen < ArrayMax
      /\ ng.arrayLen \in Nat /\ ArrayMax \in Nat
      /\ survivors \in Arrays /\ survivors' = [survivors EXCEPT !.len = ng.arrayLen + 1]
      /\ ng' = [ng EXCEPT !.state = "WRITE_GROW_ARRAY_ITEM"]
      /\ UNCHANGED <<newDone, regionType, remset, regionAttr, frVars>>
  BY NgHolds, Constants DEF WriteGrowArrayLen, NgAt, NgGoto, NgHas, NgStoring, ArraySound, MemTypes,
                            NgRegisters
<1>2. /\ ng' \in NgRegisters /\ ng'.region = ng.region /\ ng'.kind = ng.kind
      /\ ng'.arrayLen = ng.arrayLen /\ ng'.state = "WRITE_GROW_ARRAY_ITEM"
      /\ ng'.dataPtr = ng.dataPtr
  BY <1>1 DEF NgRegisters, NgStates, NgHas, NgStoring
<1>3. survivors' \in Arrays /\ survivors'.len = ng.arrayLen + 1
        /\ survivors'.items = survivors.items /\ survivors'.split = survivors.split
  BY <1>1 DEF Arrays
<1>. USE <1>1 DEF parVars, machines, parMemory
<1>4. MemTypes'
  BY <1>3 DEF MemTypes
<1>5. Prepared'
  BY <1>2, NgHolds DEF Prepared, NgAt, Known, Set, NgHas, NgStoring
<1>6. ArraySound'
  <2>1. written' = ng.arrayLen /\ written = ng.arrayLen /\ Recorded' = {} /\ Recorded = {}
    BY <1>2, NgHolds DEF written, NgAt, Recorded, NgListing
  <2>2. Filed(written)' = Filed(written)
    BY <1>3, <2>1 DEF Filed
  <2>3. survivors'.len <= ArrayMax
    BY <1>3
  <2>. QED  BY <1>2, <1>3, <2>1, <2>2, <2>3 DEF ArraySound, Known, NgAt, NgStoring
<1>. QED  BY <1>2, <1>4, <1>5, <1>6, NgWrites DEF NgHas, NgStoring

\* The item is in the slot the length counts already, if its address is known.
LEMMA WriteItemKeeps == ASSUME RegionInv, WriteGrowArrayItem, UNCHANGED parVars PROVE RegionInv'
<1>. USE DEF RegionInv, RegionTypes
<1>. DEFINE n == ng.arrayLen
<1>1. /\ ng.state = "WRITE_GROW_ARRAY_ITEM" /\ ng.state \in NgHas /\ ng \in NgRegisters
      /\ ng.kind = "young" /\ survivors.len = n + 1 /\ n \in Nat /\ ArrayMax \in Nat
      /\ survivors.len <= ArrayMax /\ ng.region \in Regions
      /\ survivors \in Arrays /\ (ng.dataPtr \/ survivors.split)
      /\ survivors' = IF ng.dataPtr THEN [survivors EXCEPT !.items[n] = ng.region] ELSE survivors
      /\ ng' = [ng EXCEPT !.state = "READ_REGION_INFO"]
      /\ UNCHANGED <<newDone, regionType, remset, regionAttr, frVars>>
  BY NgHolds, Constants
     DEF WriteGrowArrayItem, NgAt, NgGoto, NgHas, NgStoring, ArraySound, MemTypes,
                            NgRegisters
<1>2. /\ ng' \in NgRegisters /\ ng'.region = ng.region /\ ng'.kind = ng.kind
      /\ ng'.state = "READ_REGION_INFO"
  BY <1>1 DEF NgRegisters, NgStates, NgHas, NgListing
<1>3. /\ survivors.items \in [0 .. ArrayMax - 1 -> Region0] /\ n \in 0 .. ArrayMax - 1
      /\ ng.region \in Region0
  BY <1>1 DEF Arrays, Region0
<1>4. survivors' \in Arrays /\ survivors'.len = survivors.len /\ survivors'.split = survivors.split
  <2>1. CASE ng.dataPtr
    <3>1. survivors' = [survivors EXCEPT !.items = [survivors.items EXCEPT ![n] = ng.region]]
      BY <2>1, <1>1 DEF Arrays
    <3>2. [survivors.items EXCEPT ![n] = ng.region] \in [0 .. ArrayMax - 1 -> Region0]
      BY <1>3
    <3>. QED  BY <3>1, <3>2, <1>1 DEF Arrays
  <2>2. CASE ~ng.dataPtr
    BY <2>2, <1>1
  <2>. QED  BY <2>1, <2>2
<1>5. ~survivors.split => /\ survivors'.items[n] = ng.region
                          /\ \A k \in 0 .. n - 1 : survivors'.items[k] = survivors.items[k]
  <2>. SUFFICES ASSUME ~survivors.split
                PROVE  /\ survivors'.items[n] = ng.region
                       /\ \A k \in 0 .. n - 1 : survivors'.items[k] = survivors.items[k]
    OBVIOUS
  <2>1. survivors'.items = [survivors.items EXCEPT ![n] = ng.region]
    BY <1>1 DEF Arrays
  <2>. QED  BY <2>1, <1>1, <1>3
<1>. USE <1>1 DEF parVars, machines, parMemory
<1>8. MemTypes'
  BY <1>4 DEF MemTypes
<1>9. Prepared'
  BY <1>2, NgHolds DEF Prepared, NgAt, Known, Set, NgHas, NgStoring, NgListing
<1>10. ArraySound'
  <2>1. written' = n + 1 /\ written = n /\ Recorded' = {ng.region} /\ Recorded = {}
    BY <1>2, <1>4, NgHolds DEF written, NgAt, Recorded, NgListing
  <2>2. /\ ~survivors.split => Filed(n) = Known(0)
        /\ IsFiniteSet(Known(0)) /\ Cardinality(Known(0)) = n
    BY <2>1 DEF ArraySound
  <2>3. Known(0)' = Known(0)
    BY DEF Known
  <2>4. ng.region \notin Known(0)
    BY NgHolds
  <2>5. /\ IsFiniteSet(Known(0) \cup {ng.region})
        /\ Cardinality(Known(0) \cup {ng.region}) = n + 1
    <3>1. IsFiniteSet(Known(0)) /\ Cardinality(Known(0)) = n
      BY <2>2
    <3>2. Cardinality(Known(0) \cup {ng.region}) = Cardinality(Known(0)) + 1
      BY <3>1, <2>4, FS_AddElement
    <3>. QED  BY <3>1, <3>2, FS_AddElement
  <2>6. ~survivors.split => Filed(written)' = Known(0) \cup {ng.region}
    <3>. SUFFICES ASSUME ~survivors.split PROVE Filed(written)' = Known(0) \cup {ng.region}
      OBVIOUS
    <3>1. Filed(written)' = {survivors'.items[k] : k \in 0 .. n}
      BY <2>1 DEF Filed
    <3>2. 0 .. n = (0 .. n - 1) \cup {n}
      BY <1>1
    <3>3. {survivors'.items[k] : k \in 0 .. n} = Filed(n) \cup {ng.region}
      BY <3>2, <1>5 DEF Filed
    <3>. QED  BY <3>1, <3>3, <2>2
  <2>. QED  BY <1>2, <1>4, <2>1, <2>3, <2>5, <2>6 DEF ArraySound, NgAt, NgStoring
<1>. QED  BY <1>2, <1>8, <1>9, <1>10, NgWrites DEF NgHas, NgListing

\* The state of the remembered set.
LEMMA WriteRemsetKeeps == ASSUME RegionInv, WriteRemsetState, UNCHANGED parVars PROVE RegionInv'
<1>. USE DEF RegionInv, RegionTypes
<1>1. /\ ng.state = "FINAL_UPDATE" /\ ng \in NgRegisters /\ ng.region \in Regions
      /\ ng.kind \in Kinds /\ ng.state \in NgHas /\ regionType[ng.region] = ng.kind
      /\ \A a \in Attrs : ng.region \notin Known(a)
      /\ remset' = [remset EXCEPT ![ng.region] = Remset(ng.kind)]
      /\ ng' = [ng EXCEPT !.state = "WRITE_REGION_ATTR"]
      /\ UNCHANGED <<newDone, regionType, regionAttr, survivors, frVars>>
  BY NgHolds DEF WriteRemsetState, NgAt, NgGoto, NgHas, NgListing, NgRegisters, Remset, Prepared
<1>2. /\ ng' \in NgRegisters /\ ng'.region = ng.region /\ ng'.kind = ng.kind
      /\ ng'.state = "WRITE_REGION_ATTR"
  BY <1>1 DEF NgRegisters, NgStates, NgHas, NgListing
<1>3. /\ remset' \in [Regions -> {"any", "complete", "untracked"}]
      /\ remset'[ng.region] = Remset(ng.kind)
      /\ \A r \in Regions : r # ng.region => remset'[r] = remset[r]
  <2>1. Remset(ng.kind) \in {"any", "complete", "untracked"}
    BY DEF Remset
  <2>. QED  BY <2>1, <1>1 DEF MemTypes
<1>. USE <1>1 DEF parVars, machines, parMemory
<1>4. MemTypes'
  BY <1>3 DEF MemTypes
<1>5. Prepared'
  <2>1. \A a \in Attrs : Known(a)' = Known(a) /\ Known(a) \subseteq Regions
    BY DEF Known, MemTypes, Installed
  <2>2. \A a \in Attrs : \A r \in Known(a)' \ {OldRegion} : Set(r, Kind(a))'
    BY <1>3, <2>1 DEF Prepared, Set, Updates, Kind
  <2>. QED  BY <1>2, <1>3, <2>2, NgHolds DEF Prepared, NgAt
<1>6. ArraySound'
  <2>1. Recorded' = Recorded
    BY <1>2 DEF Recorded, NgListing
  <2>2. written' = written /\ survivors' = survivors
    BY <1>2 DEF written, NgAt
  <2>3. Filed(written)' = Filed(written)
    BY <2>2 DEF Filed
  <2>. QED  BY <1>2, <2>1, <2>2, <2>3 DEF ArraySound, Known, NgAt, NgStoring
<1>. QED  BY <1>2, <1>4, <1>5, <1>6, NgWrites DEF NgHas, NgListing

\* The attribute, and the answer.
LEMMA WriteAttrKeeps == ASSUME RegionInv, WriteRegionAttr, UNCHANGED parVars PROVE RegionInv'
<1>. USE DEF RegionInv, RegionTypes
<1>1. /\ ng.state = "WRITE_REGION_ATTR" /\ ng \in NgRegisters /\ ng.region \in Regions
      /\ ng.kind = Kind(at.attr) /\ ng.state \in NgHas /\ regionType[ng.region] = ng.kind
      /\ remset[ng.region] = Remset(ng.kind)
      /\ (\A a \in Attrs : ng.region \notin Known(a)) /\ at.attr \in Attrs
      /\ regionAttr' = [regionAttr EXCEPT ![ng.region] = Updates(ng.kind)]
      /\ ng' = [ng EXCEPT !.state = "IDLE"] /\ newDone' = [valid |-> TRUE, region |-> ng.region]
      /\ UNCHANGED <<regionType, remset, survivors, frVars>>
  BY NgHolds DEF WriteRegionAttr, NgAt, NgGoto, NgFinish, Found, NgHas, NgListing, NgRegisters,
                 Updates, Prepared
<1>2. ng' \in NgRegisters /\ ng'.state = "IDLE"
  BY <1>1 DEF NgRegisters, NgStates
<1>3. newDone' \in Answers /\ newDone'.valid /\ newDone'.region = ng.region
  BY <1>1 DEF Answers, Region0
<1>4. /\ regionAttr' \in [Regions -> {"none", "update", "skip"}]
      /\ regionAttr'[ng.region] = Updates(ng.kind)
      /\ \A r \in Regions : r # ng.region => regionAttr'[r] = regionAttr[r]
  <2>1. Updates(ng.kind) \in {"none", "update", "skip"}
    BY DEF Updates
  <2>. QED  BY <2>1, <1>1 DEF MemTypes
<1>. USE <1>1 DEF parVars, machines, parMemory, frVars
<1>5. RegionTypes'
  BY <1>2, <1>3, <1>4, Constants
     DEF FreeTypes, MemTypes, MachineTypes, Named, NgHas, NgStoring, NgListing
<1>6. Calls'
  BY <1>2, <1>3, NgHolds DEF Calls
<1>7. Fresh'
  BY DEF Fresh
<1>8. InHand' = InHand
  BY <1>2, <1>3, NgHolds DEF InHand, NgHas, NgStoring, NgListing, Removed
<1>9. Recorded' = Recorded
  BY <1>2, <1>3, NgHolds DEF Recorded, NgListing, Kind
<1>10. Apart' /\ OldElsewhere'
  BY <1>8 DEF Apart, Given, OnList, Index, Known, OldElsewhere
<1>11. Prepared'
  <2>1. \A a \in Attrs : Known(a)' = Known(a) /\ Known(a) \subseteq Regions
    BY DEF Known, MemTypes, Installed
  <2>2. \A a \in Attrs : \A r \in Known(a)' \ {OldRegion} : Set(r, Kind(a))'
    BY <1>4, <2>1 DEF Prepared, Set, Remset, Kind
  <2>3. Set(newDone.region, Kind(at.attr))'
    BY <1>3, <1>4 DEF Set
  <2>. QED  BY <1>2, <2>2, <2>3, NgHolds DEF Prepared, NgAt, NgHas, NgStoring, NgListing
<1>12. ArraySound'
  <2>1. written' = written /\ survivors' = survivors
    BY <1>2 DEF written, NgAt
  <2>2. Filed(written)' = Filed(written)
    BY <2>1 DEF Filed
  <2>. QED  BY <1>2, <1>9, <2>1, <2>2 DEF ArraySound, Known, NgAt, NgStoring
<1>13. Counted'
  BY DEF Counted, AtState
<1>. QED  BY SameLow, <1>5, <1>6, <1>7, <1>10, <1>11, <1>12, <1>13

-----------------------------------------------------------------------------
\* GCAllocFreeRegion, at work for GCNewGCAlloc.
LEMMA FrMoves ==
  ASSUME RegionInv, FrInv', UNCHANGED <<parVars, ngVars>>, fr.state # "IDLE",
         freeDone' = NoAnswer \/ (\E r \in Region0 : freeDone' = Found(r)),
         OnList' \subseteq OnList, InHand' \subseteq (InHand \cup OnList) \cap JvmRegions,
         OnList' \cap InHand' = {}, OnList' \cup InHand' = OnList \cup InHand, Given' = Given
  PROVE  RegionInv'
<1>. USE DEF RegionInv, RegionTypes, parVars, machines, parMemory, ngVars, ngMemory
<1>1. ng.state = "WAIT_ALLOC_AND_CONFIG"
  BY DEF Calls
<1>2. freeDone' \in Answers /\ (~freeDone'.valid => freeDone' = NoAnswer)
  <2>1. CASE freeDone' = NoAnswer
    BY <2>1 DEF NoAnswer, Answers, Region0
  <2>2. ASSUME NEW r \in Region0, freeDone' = Found(r)
        PROVE  freeDone' \in Answers /\ freeDone'.valid
    BY <2>2 DEF Found, Answers
  <2>. QED  BY <2>1, <2>2
<1>3. RegionTypes'
  BY <1>2 DEF FreeTypes, MemTypes, MachineTypes, Named
<1>4. Calls'
  BY <1>1, <1>2 DEF Calls
<1>5. Fresh'
  BY DEF Fresh
<1>6. Recorded' = Recorded
  BY DEF Recorded
<1>7. Known(0)' = Known(0) /\ Known(1)' = Known(1)
  BY DEF Known
<1>8. Apart' /\ OldElsewhere'
  BY <1>7 DEF Apart, OldElsewhere
<1>9. Prepared'
  BY DEF Prepared, Known, NgAt, Set
<1>10. ArraySound'
  BY <1>6, <1>7, SameFiled DEF ArraySound, NgAt
<1>11. Counted'
  BY DEF Counted, AtState
<1>. QED  BY <1>3, <1>4, <1>5, <1>8, <1>9, <1>10, <1>11

\* While the free list's machine works nobody has another region in hand.
LEMMA FrHolds ==
  ASSUME RegionInv, fr.state # "IDLE"
  PROVE  /\ freeDone = NoAnswer
         /\ InHand = IF fr.state \in Removed THEN {fr.region} ELSE {}
         /\ fr \in [state : FrStates, fromHead : BOOLEAN, head : Region0, tail : Region0,
                    last : Region0, length : Int, region : Region0, neighbor : Region0]
<1>1. freeDone = NoAnswer /\ ng.state = "WAIT_ALLOC_AND_CONFIG"
  BY DEF RegionInv, FrInv, Taken, Calls
<1>2. at.state \in AtAsking /\ ~newDone.valid
  BY <1>1 DEF RegionInv, Calls
<1>. QED  BY <1>1, <1>2 DEF InHand, NoAnswer, NgHas, NgStoring, NgListing, AtHas, AtAsking, AtReads,
                            RegionInv, FrInv, FrTypes

\* A step of the free list unit while its caller waits.
LEMMA FrStepKeeps == ASSUME RegionInv, FrStep, UNCHANGED <<parVars, ngVars>> PROVE RegionInv'
<1>1. FrInv'
  BY FrInvStep, FreeRegionAssumption DEF RegionInv, FrNext
<1>2. fr.state # "IDLE"
  BY DEF FrStep, ReadListMeta0, ReadListMeta1, ReadSelectedLink, UpdateListHeadTail,
         ClearNeighborLink, ClearRemovedLink, WriteListLength, FrAt
<1>3. OnList \cap InHand = {} /\ InHand \subseteq JvmRegions
  BY DEF RegionInv, Apart
<1>4. ng' = ng /\ newDone' = newDone /\ at' = at
  BY DEF parVars, machines, ngVars
<1>5. ng.state = "WAIT_ALLOC_AND_CONFIG" /\ ~newDone.valid /\ at.state \notin AtHas
  BY <1>2 DEF RegionInv, Calls, AtHas, AtAsking, AtReads
<1>6. CASE ReadListMeta0 \/ ReadSelectedLink
  <2>1. /\ fr'.state \notin Removed /\ freeDone' = freeDone /\ free' = free
        /\ fr.state \notin Removed
    BY <1>2, <1>6, FrHolds DEF ReadListMeta0, ReadSelectedLink, FrAt, Removed, FrStates, Waiting
  <2>2. InHand' = {} /\ InHand = {} /\ OnList' = OnList /\ Given' = Given
    BY <2>1, <1>2, <1>4, <1>5, FrHolds
       DEF InHand, OnList, Index, Given, NoAnswer, NgHas, NgStoring, NgListing
  <2>. QED  BY <2>1, <2>2, <1>1, <1>2, <1>3, FrHolds, FrMoves
<1>7. CASE ReadListMeta1
  <2>1. /\ fr'.state \notin Removed /\ free' = free
        /\ (freeDone' = freeDone \/ freeDone' = Found(NoRegion)) /\ fr.state \notin Removed
    BY <1>2, <1>7, FrHolds DEF ReadListMeta1, FrFinish, FrAt, Removed
  <2>2. InHand' = {} /\ InHand = {} /\ OnList' = OnList /\ Given' = Given
    BY <2>1, <1>2, <1>4, <1>5, FrHolds
       DEF InHand, OnList, Index, Given, NoAnswer, Found, NgHas, NgStoring, NgListing
  <2>. QED  BY <2>1, <2>2, <1>1, <1>2, <1>3, FrHolds, FrMoves DEF Region0
<1>8. CASE UpdateListHeadTail
  <2>1. /\ fr.state = "UPDATE_LIST_HEAD_TAIL" /\ freeDone' = freeDone
        /\ fr' = [fr EXCEPT !.state = IF noNeighbor THEN "CLEAR_REMOVED_LINK"
                                                    ELSE "CLEAR_NEIGHBOR_LINK"]
        /\ free' = IF fr.fromHead THEN [free EXCEPT !.lo = @ + 1] ELSE [free EXCEPT !.hi = @ - 1]
    BY <1>8 DEF UpdateListHeadTail, FrAt
  <2>2. fr'.state \in Removed /\ fr'.region = fr.region
    BY <2>1, <1>2, FrHolds DEF Removed
  <2>3. /\ free.lo \in Nat /\ free.hi \in Nat /\ free.lo <= free.hi
        /\ fr.region = JvmOrder[IF fr.fromHead THEN free.lo ELSE free.hi]
        /\ free \in [first : Nat, lo : Nat, hi : Nat]
    BY <2>1 DEF RegionInv, FrInv, FrTypes, Reads
  <2>4. Index' \subseteq Index
    BY <2>1, <2>3 DEF Index
  <2>5. fr.region \in OnList
    BY <2>3 DEF OnList, Index
  <2>6. OnList' \subseteq OnList
    BY <2>4 DEF OnList
  <2>7. InHand' = {fr.region}
    BY <2>2 DEF InHand
  <2>8. fr.region \notin OnList'
    BY <2>2, <1>1 DEF FrInv, Taken, OnList
  <2>9. OnList \subseteq JvmRegions
    BY Order, FreeRegionAssumption DEF OnList, JvmRegions, RegionInv, FrInv
  <2>10. Given' = Given
    BY <2>1, <2>3 DEF Given
  <2>11. Index \subseteq Index' \cup {IF fr.fromHead THEN free.lo ELSE free.hi}
    BY <2>1, <2>3 DEF Index
  <2>12. OnList \subseteq OnList' \cup {fr.region}
    BY <2>3, <2>11 DEF OnList
  <2>13. InHand = {}
    BY <2>1, FrHolds DEF Removed
  <2>. QED  BY <2>1, <2>5, <2>6, <2>7, <2>8, <2>9, <2>10, <2>12, <2>13, <1>1, <1>2, FrHolds, FrMoves
<1>9. CASE ClearNeighborLink \/ ClearRemovedLink
  <2>1. /\ fr'.state \in Removed /\ fr'.region = fr.region /\ freeDone' = freeDone /\ free' = free
        /\ fr.state \in Removed
    <3>1. CASE ClearNeighborLink
      BY <3>1, <1>2, FrHolds DEF ClearNeighborLink, FrAt, Removed
    <3>2. CASE ClearRemovedLink
      <4>1. PICK wait \in 1 .. MaxCycles :
              fr' = [fr EXCEPT !.state = "WRITE_LIST_LENGTH",
                !.length = (@ - (wait + 1)) % LengthMod]
        BY <3>2 DEF ClearRemovedLink
      <4>. QED  BY <4>1, <3>2, <1>2, FrHolds DEF ClearRemovedLink, FrAt, Removed
    <3>. QED  BY <3>1, <3>2, <1>9
  <2>2. InHand' = InHand /\ OnList' = OnList /\ Given' = Given
    BY <2>1, <1>2, FrHolds DEF InHand, OnList, Index, Given
  <2>. QED  BY <2>1, <2>2, <1>1, <1>2, <1>3, FrHolds, FrMoves
<1>10. CASE WriteListLength
  <2>1. /\ fr.state = "WRITE_LIST_LENGTH" /\ fr' = [fr EXCEPT !.state = "IDLE"]
        /\ freeDone' = Found(fr.region) /\ free' = free
    BY <1>10 DEF WriteListLength, FrFinish, FrAt
  <2>2. fr'.state = "IDLE" /\ fr.region \in Regions
    BY <2>1, <1>2, FrHolds DEF RegionInv, FrInv, Taken, Removed
  <2>3. InHand' = InHand /\ OnList' = OnList /\ Given' = Given
    BY <2>1, <2>2, <1>2, FrHolds, Constants DEF InHand, OnList, Index, Given, Found, Removed
  <2>. QED  BY <2>1, <2>2, <2>3, <1>1, <1>2, <1>3, FrMoves DEF Region0
<1>. QED  BY <1>6, <1>7, <1>8, <1>9, <1>10 DEF FrStep

-----------------------------------------------------------------------------
\* The regions start with the JVM, or one of them with the allocator.
LEMMA RegionInitially == ParInit => RegionInv
<1>. SUFFICES ASSUME ParInit PROVE RegionInv
  OBVIOUS
<1>1. /\ mf = [state |-> "IDLE", attr |-> 0, min |-> 0, want |-> 0, region |-> NoRegion,
               selectAllocate |-> FALSE]
      /\ iml = [state |-> "IDLE", region |-> NoRegion, min |-> 0, want |-> 0, top |-> 0,
           amount |-> 0]
      /\ pa = [state |-> "IDLE", region |-> NoRegion, min |-> 0, want |-> 0]
      /\ at = [state |-> "IDLE", attr |-> 0, region |-> NoRegion, want |-> 0, top |-> 0,
               new |-> NoRegion]
      /\ regionCache = [a \in Attrs |-> [valid |-> FALSE, region |-> NoRegion]]
      /\ oldSet = 0 /\ retired = [a \in Attrs |-> {}]
  BY DEF ParInit
<1>2. /\ ng = [state |-> "IDLE", kind |-> "old", region |-> NoRegion, arrayLen |-> 0,
               growArrayPtrValid |-> FALSE, regionAttrBaseValid |-> FALSE,
               expandFailureValid |-> FALSE, dataPtr |-> FALSE]
      /\ newDone = NoAnswer /\ freeDone = NoAnswer /\ fr.state = "IDLE"
      /\ regionType = [r \in Regions |-> "free"] /\ remset = [r \in Regions |-> "any"]
      /\ regionAttr = [r \in Regions |-> "none"]
      /\ \E split \in BOOLEAN : survivors =
           [len |-> 0, items |-> [k \in 0 .. ArrayMax - 1 |-> NoRegion], split |-> split]
  BY DEF ParInit, NgInit, FrInit
<1>3. FrInv
  BY FrInvInit, FreeRegionAssumption DEF ParInit
<1>4. top \in [Regions -> Int]
  BY Constants DEF ParInit
<1>5. /\ allocRegion \in [Attrs -> Installed] /\ allocRegion[0].region = DummyRegion
      /\ allocRegion[1].region \in {DummyRegion, OldRegion}
  <2>1. PICK r \in {DummyRegion, OldRegion} :
          allocRegion = [a \in Attrs |-> IF a = 0 \/ r = DummyRegion
                                         THEN [region |-> DummyRegion, used |-> 0]
                                         ELSE [region |-> r, used |-> top[r]]]
    BY DEF ParInit
  <2>2. [region |-> DummyRegion, used |-> 0] \in Installed
    BY DEF Installed
  <2>3. r # DummyRegion => [region |-> r, used |-> top[r]] \in Installed
    BY <1>4, Constants DEF Installed
  <2>. QED  BY <2>1, <2>2, <2>3 DEF Attrs
<1>6. NoRegion \in AnyRegion /\ NoRegion \in Region0
  BY DEF AnyRegion, Region0
<1>7. FreeTypes
  BY <1>2, <1>6 DEF FreeTypes, Answers, NoAnswer, NgRegisters, NgStates, Kinds
<1>8. survivors \in Arrays
  BY <1>2, <1>6 DEF Arrays
<1>9. MemTypes
  BY <1>1, <1>2, <1>4, <1>5, <1>8 DEF MemTypes, Kinds
<1>10. mf \in MfRegisters /\ at \in AtRegisters
  BY <1>1, <1>6 DEF MfRegisters, MfStates, AtRegisters, AtStates, Attrs
<1>11. iml \in ImlRegisters /\ pa \in PaRegisters
  BY <1>1, <1>6 DEF ImlRegisters, PaRegisters
<1>12. regionCache \in [Attrs -> CacheEntries]
  BY <1>1, <1>6 DEF CacheEntries
<1>13. Named /\ Calls /\ Fresh
  BY <1>1, <1>2 DEF Named, Calls, Fresh, MfTrying, NgHas, NgStoring, NgListing, NoAnswer, AtHas,
                    AtReads
<1>14. InHand = {} /\ Recorded = {}
  BY <1>1, <1>2 DEF InHand, Recorded, Removed, NoAnswer, NgHas, NgStoring, NgListing, AtHas
<1>15. Known(0) = {} /\ Known(1) \subseteq {OldRegion} /\ \A a \in Attrs : retired[a] = {}
  BY <1>1, <1>5 DEF Known, Attrs
<1>16. OnList \subseteq JvmRegions
  BY <1>3, Order, FreeRegionAssumption DEF OnList, JvmRegions, FrInv
<1>17. Apart /\ OldElsewhere
  <2>1. Given = OnList
    BY DEF ParInit, FrInit, Given, OnList, Index
  <2>. QED  BY <1>14, <1>15, <1>16, <2>1, Constants DEF Apart, OldElsewhere
<1>18. Prepared
  <2>1. \A a \in Attrs : Known(a) \ {OldRegion} = {}
    BY <1>15 DEF Attrs
  <2>. QED  BY <2>1, <1>1, <1>2 DEF Prepared, NgHas, NgStoring, NgListing, NgAt, NoAnswer, AtHas
<1>19. ArraySound
  <2>1. written = 0 /\ survivors.len = 0
    BY <1>2 DEF written, NgAt
  <2>2. Filed(0) = {}
    BY DEF Filed
  <2>3. Filed(written) = {} /\ written = 0
    BY <2>1, <2>2
  <2>4. IsFiniteSet(Known(0) \cup Recorded) /\ Cardinality(Known(0) \cup Recorded) = written
    BY <2>3, <1>14, <1>15, FS_EmptySet
  <2>5. ng.state = "IDLE" /\ survivors.len <= ArrayMax
    BY <2>1, <1>2, Constants
  <2>. QED  BY <2>3, <2>4, <2>5, <1>14, <1>15 DEF ArraySound, NgStoring, NgAt
<1>20. Counted
  BY <1>1, <1>15, FS_EmptySet DEF Counted, AtState, Attrs
<1>. QED  BY <1>3, <1>7, <1>9, <1>10, <1>11, <1>12, <1>13, <1>17, <1>18, <1>19, <1>20
          DEF RegionInv, RegionTypes, MachineTypes

\* A stuttering step.
LEMMA RegionIdle == RegionInv /\ UNCHANGED allocVars => RegionInv'
<1>. SUFFICES ASSUME RegionInv, UNCHANGED allocVars PROVE RegionInv'
  OBVIOUS
<1>. USE DEF RegionInv, RegionTypes, allocVars, parVars, machines, parMemory, lowVars, ngVars,
             ngMemory,
             frVars
<1>1. RegionTypes' /\ Calls' /\ Fresh'
  BY DEF FreeTypes, MemTypes, MachineTypes, Named, Calls, Fresh
<1>2. Apart' /\ OldElsewhere'
  BY DEF Apart, Given, OnList, Index, InHand, Known, OldElsewhere
<1>3. Prepared' /\ Counted'
  BY DEF Prepared, Known, NgAt, Set, Counted, AtState
<1>4. ArraySound'
  BY SameFiled DEF ArraySound, Recorded, Known, NgAt
<1>. QED  BY SameLow, <1>1, <1>2, <1>3, <1>4

\* The step relation.
LEMMA RegionStep == RegionInv /\ [AllocNext]_allocVars => RegionInv'
<1>. SUFFICES ASSUME RegionInv, [AllocNext]_allocVars PROVE RegionInv'
  OBVIOUS
<1>1. CASE Command \/ MfStep \/ MixedAnswers
  BY <1>1, CommandKeeps, LoadKeeps, TryKeeps, StartAttemptKeeps, MixedKeeps DEF MfStep
<1>2. CASE AtStep
  BY <1>2, AtRequestKeeps, AtReadsKeep, AtCountKeeps, AtWriteDummyKeeps, AtTakeKeeps,
     AtWriteNewKeeps, AtWaitParKeeps DEF AtStep
<1>3. CASE PaStep \/ ImlStep
  BY <1>3, PaKeeps, ImlReadTopEndKeeps, ImlWriteTopKeeps DEF ImlStep
<1>4. CASE NgAlone
  BY <1>4, NgReadsKeep, CallAllocFreeKeeps, FreeAnswerKeeps, WriteTypeKeeps, WriteLenKeeps,
     WriteItemKeeps, WriteRemsetKeeps, WriteAttrKeeps DEF NgAlone, NgStep
<1>5. CASE FrAlone
  BY <1>5, FrStepKeeps DEF FrAlone
<1>. QED  BY <1>1, <1>2, <1>3, <1>4, <1>5, RegionIdle DEF AllocNext

\* The invariant holds throughout.
LEMMA RegionInvariance == AllocSpec => []RegionInv
BY RegionInitially, RegionStep, PTL DEF AllocSpec

\* The free list is sound under GCNewGCAlloc's use of it, too.
THEOREM ListUsedSoundly == AllocSpec => []FreeListSound
<1>1. RegionInv => FreeListSound
  BY FrInvShows, FreeRegionAssumption DEF RegionInv
<1>. QED  BY <1>1, RegionInvariance, PTL

\* mainFsm allocates in the region that is installed.
THEOREM CacheFresh == AllocSpec => []RegionCacheFresh
<1>1. RegionInv => RegionCacheFresh
  BY DEF RegionInv, Fresh, RegionCacheFresh, MfTrying
<1>. QED  BY <1>1, RegionInvariance, PTL

\* No region is in two hands, none the JVM gave is lost, and the JVM's accounts
\* of them are right, for any heap, any free list and any number of commands.
THEOREM RegionsKept == AllocSpec => []RegionsAccounted
<1>1. RegionInv => RegionsAccounted
  <2>. SUFFICES ASSUME RegionInv PROVE RegionsAccounted
    OBVIOUS
  <2>. USE DEF RegionInv
  <2>1. /\ OnList \cap (Current \cup retired[0] \cup retired[1]) = {}
        /\ retired[0] \cap retired[1] = {} /\ Current \cap (retired[0] \cup retired[1]) = {}
        /\ (allocRegion[0].region = allocRegion[1].region => allocRegion[0].region = DummyRegion)
    BY DEF Apart, Known, Current, Attrs
  <2>2. ASSUME AtState("IDLE")
        PROVE  /\ oldSet = Cardinality(retired[1])
               /\ Given = OnList \cup ((Current \cup retired[0] \cup retired[1]) \ {OldRegion})
               /\ survivors.len = Cardinality(Survivors)
               /\ (canReadDataPtrTogether => Listed = Survivors)
               /\ \A a \in Attrs :
                    \A r \in (retired[a] \cup {allocRegion[a].region}) \ {DummyRegion, OldRegion} :
                      /\ regionType[r] = Kind(a)
                      /\ remset[r] = (IF a = 0 THEN "complete" ELSE "untracked")
                      /\ regionAttr[r] = (IF a = 0 THEN "update" ELSE "skip")
    <3>1. at.state = "IDLE" /\ ng.state = "IDLE" /\ ~newDone.valid
      BY <2>2 DEF AtState, Calls, AtAsking, AtReads
    <3>2. written = survivors.len /\ Recorded = {}
      BY <3>1 DEF written, NgAt, Recorded, NgListing, AtHas
    <3>3. Listed = Filed(survivors.len)
      BY DEF Listed, Filed
    <3>4. oldSet = Cardinality(retired[1])
      BY <3>1, FS_CardinalityType DEF Counted, AtState
    <3>5. \A a \in Attrs :
            \A r \in (retired[a] \cup {allocRegion[a].region}) \ {DummyRegion, OldRegion} :
              Set(r, Kind(a))
      BY DEF Prepared, Known
    <3>6. \A a \in Attrs : /\ Remset(Kind(a)) = IF a = 0 THEN "complete" ELSE "untracked"
                           /\ Updates(Kind(a)) = IF a = 0 THEN "update" ELSE "skip"
      BY DEF Remset, Updates, Kind
    <3>7. /\ Survivors = Known(0)
          /\ Known(0) \cup Known(1) = Current \cup retired[0] \cup retired[1]
      BY DEF Survivors, Known, Current, Attrs
    <3>8. InHand = {}
      BY <3>1 DEF InHand, NgHas, NgStoring, NgListing, AtHas, Calls, Removed
    <3>9. Given = OnList \cup ((Current \cup retired[0] \cup retired[1]) \ {OldRegion})
      BY <3>7, <3>8 DEF Apart
    <3>. QED  BY <3>2, <3>3, <3>4, <3>5, <3>6, <3>7, <3>9
              DEF ArraySound, Known, Set, canReadDataPtrTogether
  <2>. QED  BY <2>1, <2>2 DEF RegionsAccounted
<1>. QED  BY <1>1, RegionInvariance, PTL

-----------------------------------------------------------------------------
(* GCAllocate.  The invariant behind WordsAccounted says who has each word  *)
(* while a command is at work: the words of an answer not yet taken, or of  *)
(* the PLAB about to be installed, are on their way (OnTheWay), and the     *)
(* room of a PLAB that was filled up is no room any more (OpenRoom).        *)
AlStates ==
  {"sIdle", "sDecideAllocateMode", "sReadBufferMeta", "sWriteOldPlabHeader", "sWaitParAllocate",
   "sWriteRefill", "sWriteCollapseBuffer", "sSendDirectRetry"}
AlRegisters ==
  [state : AlStates, attr : AttrIdx, size : Nat, top : Nat, hardEnd : Nat,
   dest : Nat \cup {NullPtr}, actual : Nat, return : BOOLEAN]
ParResults == [done : BOOLEAN, dest : Nat \cup {NullPtr}, size : Nat]
ParAsks    == [busy : BOOLEAN, min : Nat, want : Nat]
Plabs      == [bottom : Nat, top : Nat, hardEnd : Nat]

AlTypes ==
  /\ al \in AlRegisters /\ parResult \in ParResults /\ parAsked \in ParAsks
  /\ plab \in [AttrIdx -> Plabs] /\ handed \in [AttrIdx -> Nat]
  /\ objects \in [AttrIdx -> SUBSET Nat] /\ fillers \in [AttrIdx -> SUBSET Nat]
  /\ alAsked \in Nat

\* What is left of a PLAB holds at least the header of a filler.
PlabRoomy ==
  \A a \in AttrIdx : \/ plab[a].top = plab[a].hardEnd
                     \/ plab[a].top + Reserve <= plab[a].hardEnd

\* A command to GCParAllocate is under way or answered only while the machine
\* waits or is on its way to wait; what it asked for is what it needs.
Asked ==
  /\ parAsked.busy \/ parResult.done =>
       al.state \in {"sReadBufferMeta", "sWriteOldPlabHeader", "sWaitParAllocate"}
  /\ ~(parAsked.busy /\ parResult.done)
  /\ parAsked.busy => IF al.return THEN parAsked.min = al.size /\ parAsked.want = al.size
                                   ELSE parAsked.min = required
  /\ parResult.done /\ parResult.dest # NullPtr =>
       IF al.return THEN parResult.size = al.size ELSE parResult.size >= required

\* The registers of the machine in each of its states.
PlabRead ==
  /\ al.state \in {"sWriteOldPlabHeader", "sWriteCollapseBuffer"} => al.top < al.hardEnd
  /\ \/ al.state \in {"sWriteOldPlabHeader", "sWriteCollapseBuffer"}
     \/ AlAt("sWaitParAllocate") /\ ~al.return
     => al.top = plab[al.attr].top /\ al.hardEnd = plab[al.attr].hardEnd
  /\ al.state \in {"sDecideAllocateMode", "sReadBufferMeta", "sWriteOldPlabHeader", "sWriteRefill",
                   "sWriteCollapseBuffer"} => ~al.return
  /\ AlAt("sSendDirectRetry") => al.return
  /\ AlAt("sWriteRefill") => al.dest # NullPtr /\ al.actual >= required

Working(a) == al.attr = a /\ ~AlAt("sIdle")

OnTheWay(a) ==
  IF Working(a) /\ parResult.done /\ parResult.dest # NullPtr
  THEN Words(parResult.dest, parResult.size)
  ELSE IF Working(a) /\ AlAt("sWriteRefill") THEN Words(al.dest, al.actual) ELSE {}

OpenRoom(a) ==
  IF Working(a) /\ (\/ al.state \in {"sWriteRefill", "sWriteCollapseBuffer"}
                    \/ AlAt("sWaitParAllocate") /\ ~al.return)
  THEN {} ELSE Room(a)

\* Every word handed out is in exactly one of the four.
Shared(a) ==
  /\ objects[a] \cup fillers[a] \cup OpenRoom(a) \cup OnTheWay(a) = Words(0, handed[a])
  /\ objects[a] \cap fillers[a] = {}
  /\ OpenRoom(a) \cap (objects[a] \cup fillers[a]) = {}
  /\ OnTheWay(a) \cap (objects[a] \cup fillers[a] \cup OpenRoom(a)) = {}
WordsShared == \A a \in AttrIdx : Shared(a)

AlInv == AlTypes /\ PlabRoomy /\ Asked /\ PlabRead /\ WordsShared

\* The words of an attribute no step is about stay where they are.
LEMMA OthersShare ==
  ASSUME NEW a \in AttrIdx, Shared(a), ~Working(a), ~Working(a)',
         plab'[a] = plab[a], handed'[a] = handed[a], objects'[a] = objects[a],
           fillers'[a] = fillers[a]
  PROVE  Shared(a)'
BY DEF Shared, OpenRoom, OnTheWay, Room

\* A step that moves no word.
LEMMA NothingMoves ==
  ASSUME NEW a \in AttrIdx, Shared(a), OpenRoom(a)' = OpenRoom(a), OnTheWay(a)' = OnTheWay(a),
         handed' = handed, objects' = objects, fillers' = fillers
  PROVE  Shared(a)'
BY DEF Shared

\* GCAllocate starts idle with empty PLABs.
LEMMA AlInitially == AllocateAssumption /\ AlInit => AlInv
<1>. SUFFICES ASSUME AllocateAssumption, AlInit PROVE AlInv
  OBVIOUS
<1>1. /\ \A a \in AttrIdx : plab[a] = [bottom |-> 0, top |-> 0, hardEnd |-> 0]
      /\ al.state = "sIdle" /\ ~parResult.done /\ ~parAsked.busy
  BY DEF AlInit, Plab
<1>2. AlTypes
  BY DEF AlInit, AlTypes, AlRegisters, AlStates, ParResults, ParAsks, Plabs, Plab, AttrIdx
<1>3. PlabRoomy
  BY <1>1 DEF PlabRoomy
<1>4. Asked /\ PlabRead
  BY <1>1 DEF Asked, PlabRead, AlAt
<1>5. WordsShared
  <2>. SUFFICES ASSUME NEW a \in AttrIdx PROVE Shared(a)
    BY DEF WordsShared
  <2>1. Room(a) = {} /\ handed[a] = 0 /\ objects[a] = {} /\ fillers[a] = {} /\ ~Working(a)
    BY <1>1 DEF Room, AlInit, Working, AlAt
  <2>. QED  BY <2>1 DEF Shared, OpenRoom, OnTheWay, Words
<1>. QED  BY <1>2, <1>3, <1>4, <1>5 DEF AlInv

\* A command is taken up.
LEMMA CommandShares ==
  ASSUME AllocateAssumption, AlInv, NEW b \in AttrIdx, NEW n \in ObjectSizes, AlCommand(b, n)
  PROVE  AlInv'
<1>. USE DEF AlInv
<1>1. /\ al.state = "sIdle" /\ n \in Nat
      /\ al' = [al EXCEPT !.state = "sDecideAllocateMode", !.attr = b, !.size = n, !.return = FALSE]
      /\ parResult' = [parResult EXCEPT !.done = FALSE]
      /\ UNCHANGED <<parAsked, plab, handed, objects, fillers>> /\ alAsked' = alAsked + 1
  BY DEF AlCommand, AlAt, AllocateAssumption
<1>2. /\ al' \in AlRegisters /\ al'.state = "sDecideAllocateMode" /\ ~al'.return
      /\ parResult' \in ParResults /\ ~parResult'.done /\ ~parAsked.busy /\ ~parResult.done
  BY <1>1 DEF AlTypes, AlRegisters, AlStates, ParResults, Asked
<1>3. AlTypes'
  BY <1>1, <1>2 DEF AlTypes
<1>4. PlabRoomy'
  BY <1>1 DEF PlabRoomy
<1>5. Asked' /\ PlabRead'
  BY <1>1, <1>2 DEF Asked, PlabRead, AlAt
<1>6. ASSUME NEW a \in AttrIdx PROVE Shared(a)'
  <2>1. OpenRoom(a)' = OpenRoom(a) /\ OnTheWay(a)' = OnTheWay(a)
    BY <1>1, <1>2 DEF OpenRoom, OnTheWay, Room, Working, AlAt
  <2>. QED  BY <2>1, <1>1, NothingMoves DEF WordsShared
<1>. QED  BY <1>3, <1>4, <1>5, <1>6 DEF WordsShared

\* sDecideAllocateMode: what is asked for is what the object needs.
LEMMA DecideShares == ASSUME AllocateAssumption, AlInv, DecideAllocateMode PROVE AlInv'
<1>. USE DEF AlInv
<1>1. /\ al.state = "sDecideAllocateMode" /\ ~parAsked.busy /\ ~parResult.done /\ ~al.return
      /\ UNCHANGED <<parResult, plab, handed, objects, fillers, alAsked>>
  BY DEF DecideAllocateMode, AlAt, SendToParAllocate, Asked, PlabRead
<1>2. \/ /\ al' = [al EXCEPT !.state = "sReadBufferMeta"]
         /\ parAsked' = [busy |-> TRUE, min |-> required, want |-> PlabWords]
      \/ /\ al' = [al EXCEPT !.state = "sWaitParAllocate", !.return = TRUE]
         /\ parAsked' = [busy |-> TRUE, min |-> al.size, want |-> al.size]
  BY DEF DecideAllocateMode, SendToParAllocate
<1>3. al \in AlRegisters /\ required \in Nat /\ PlabWords \in Nat /\ al.size \in Nat
  BY DEF AlTypes, AlRegisters, required, Reserve, AllocateAssumption
<1>4. /\ al' \in AlRegisters /\ al'.size = al.size /\ al'.attr = al.attr
      /\ parAsked' \in ParAsks /\ parAsked'.busy
      /\ \/ al'.state = "sReadBufferMeta" /\ ~al'.return /\ parAsked'.min = required
         \/ /\ al'.state = "sWaitParAllocate" /\ al'.return
            /\ parAsked'.min = al.size /\ parAsked'.want = al.size
  <2>1. CASE al'.state = "sReadBufferMeta"
    <3>1. /\ al' = [al EXCEPT !.state = "sReadBufferMeta"]
          /\ parAsked' = [busy |-> TRUE, min |-> required, want |-> PlabWords]
      BY <2>1, <1>2, <1>3 DEF AlRegisters
    <3>2. parAsked' \in ParAsks
      BY <3>1, <1>3 DEF ParAsks
    <3>. QED  BY <3>1, <3>2, <1>1, <1>3 DEF AlRegisters, AlStates
  <2>2. CASE al'.state # "sReadBufferMeta"
    <3>1. /\ al' = [al EXCEPT !.state = "sWaitParAllocate", !.return = TRUE]
          /\ parAsked' = [busy |-> TRUE, min |-> al.size, want |-> al.size]
      BY <2>2, <1>2, <1>3 DEF AlRegisters
    <3>2. parAsked' \in ParAsks
      BY <3>1, <1>3 DEF ParAsks
    <3>. QED  BY <3>1, <3>2, <1>1, <1>3 DEF AlRegisters, AlStates
  <2>. QED  BY <2>1, <2>2
<1>5. required' = required
  BY <1>4 DEF required
<1>6. AlTypes' /\ PlabRoomy'
  BY <1>1, <1>4 DEF AlTypes, PlabRoomy
<1>7. Asked' /\ PlabRead'
  BY <1>1, <1>4, <1>5 DEF Asked, PlabRead, AlAt
<1>8. ASSUME NEW a \in AttrIdx PROVE Shared(a)'
  <2>1. OpenRoom(a)' = OpenRoom(a) /\ OnTheWay(a)' = OnTheWay(a)
    BY <1>1, <1>4 DEF OpenRoom, OnTheWay, Room, Working, AlAt
  <2>. QED  BY <2>1, <1>1, NothingMoves DEF WordsShared
<1>. QED  BY <1>6, <1>7, <1>8 DEF WordsShared

\* sReadBufferMeta: the machine knows the PLAB.
LEMMA ReadShares == ASSUME AllocateAssumption, AlInv, ReadBufferMeta PROVE AlInv'
<1>. USE DEF AlInv
<1>1. /\ al.state = "sReadBufferMeta" /\ ~al.return
      /\ al' = [al EXCEPT !.state = IF plab[al.attr].top < plab[al.attr].hardEnd
                                    THEN "sWriteOldPlabHeader" ELSE "sWaitParAllocate",
                          !.top = plab[al.attr].top, !.hardEnd = plab[al.attr].hardEnd]
      /\ UNCHANGED <<parResult, parAsked, plab, handed, objects, fillers, alAsked>>
  BY DEF ReadBufferMeta, AlAt, PlabRead
<1>2. al \in AlRegisters /\ al.attr \in AttrIdx /\ plab[al.attr] \in Plabs
      /\ plab[al.attr].top \in Nat /\ plab[al.attr].hardEnd \in Nat
  BY DEF AlTypes, AlRegisters, Plabs
<1>3. /\ al' \in AlRegisters /\ al'.size = al.size /\ al'.attr = al.attr /\ al'.return = al.return
      /\ al'.top = plab[al.attr].top /\ al'.hardEnd = plab[al.attr].hardEnd
      /\ \/ al'.state = "sWriteOldPlabHeader" /\ al'.top < al'.hardEnd
         \/ al'.state = "sWaitParAllocate" /\ ~(plab[al.attr].top < plab[al.attr].hardEnd)
  BY <1>1, <1>2 DEF AlRegisters, AlStates
<1>4. required' = required
  BY <1>3 DEF required
<1>5. AlTypes' /\ PlabRoomy'
  BY <1>1, <1>3 DEF AlTypes, PlabRoomy
<1>6. Asked' /\ PlabRead'
  BY <1>1, <1>3, <1>4 DEF Asked, PlabRead, AlAt
<1>7. ASSUME NEW a \in AttrIdx PROVE Shared(a)'
  <2>1. a = al.attr /\ ~(plab[a].top < plab[a].hardEnd) => Room(a) = {}
    BY <1>2 DEF Room
  <2>2. Room(a)' = Room(a)
    BY <1>1 DEF Room
  <2>3. OpenRoom(a)' = OpenRoom(a)
    BY <1>1, <1>3, <2>1, <2>2 DEF OpenRoom, Working, AlAt
  <2>4. OnTheWay(a)' = OnTheWay(a)
    BY <1>1, <1>3 DEF OnTheWay, Working, AlAt
  <2>. QED  BY <2>3, <2>4, <1>1, NothingMoves DEF WordsShared
<1>. QED  BY <1>5, <1>6, <1>7 DEF WordsShared

\* sWriteOldPlabHeader: the filler covers the room that was left, no less and no more.
LEMMA FillShares == ASSUME AllocateAssumption, AlInv, WriteOldPlabHeader PROVE AlInv'
<1>. USE DEF AlInv
<1>1. /\ al.state = "sWriteOldPlabHeader" /\ ~al.return /\ al.top < al.hardEnd
      /\ al.top = plab[al.attr].top /\ al.hardEnd = plab[al.attr].hardEnd
      /\ al' = [al EXCEPT !.state = "sWaitParAllocate"]
      /\ fillers' = [fillers EXCEPT ![al.attr] = @ \cup Words(al.top, FillerWords)]
      /\ UNCHANGED <<parResult, parAsked, plab, handed, objects, alAsked>>
  BY DEF WriteOldPlabHeader, AlAt, AlGoto, PlabRead
<1>2. /\ al \in AlRegisters /\ al.attr \in AttrIdx /\ plab[al.attr] \in Plabs
      /\ plab[al.attr].top \in Nat /\ plab[al.attr].hardEnd \in Nat
      /\ fillers \in [AttrIdx -> SUBSET Nat]
  BY DEF AlTypes, AlRegisters, Plabs
<1>3. Words(al.top, FillerWords) = Room(al.attr)
  <2>1. al.top + 2 <= al.hardEnd
    BY <1>1, <1>2 DEF PlabRoomy, Reserve
  <2>2. FillerWords = al.hardEnd - al.top
    BY <2>1, <1>1, <1>2 DEF FillerWords, AllocateAssumption
  <2>3. al.top + FillerWords - 1 = al.hardEnd - 1
    BY <2>2, <1>1, <1>2
  <2>. QED  BY <2>3, <1>1 DEF Words, Room
<1>4. /\ al' \in AlRegisters /\ al'.size = al.size /\ al'.attr = al.attr /\ al'.return = al.return
      /\ al'.top = al.top /\ al'.hardEnd = al.hardEnd /\ al'.state = "sWaitParAllocate"
  BY <1>1, <1>2 DEF AlRegisters, AlStates
<1>5. required' = required
  BY <1>4 DEF required
<1>6. Room(al.attr) \subseteq Nat
  BY <1>2 DEF Room
<1>7. fillers' \in [AttrIdx -> SUBSET Nat]
  BY <1>1, <1>2, <1>3, <1>6
<1>8. AlTypes' /\ PlabRoomy'
  BY <1>1, <1>4, <1>7 DEF AlTypes, PlabRoomy
<1>9. Asked' /\ PlabRead'
  BY <1>1, <1>4, <1>5 DEF Asked, PlabRead, AlAt
<1>10. ASSUME NEW a \in AttrIdx PROVE Shared(a)'
  <2>1. CASE a = al.attr
    <3>1. fillers'[a] = fillers[a] \cup Room(a) /\ OpenRoom(a) = Room(a)
      BY <2>1, <1>1, <1>2, <1>3 DEF OpenRoom, AlAt, Working
    <3>2. OpenRoom(a)' = {} /\ OnTheWay(a)' = OnTheWay(a)
      BY <2>1, <1>1, <1>4 DEF OpenRoom, OnTheWay, AlAt, Working
    <3>. QED  BY <3>1, <3>2, <1>1 DEF Shared, WordsShared
  <2>2. CASE a # al.attr
    <3>1. fillers'[a] = fillers[a]
      BY <2>2, <1>1, <1>2
    <3>. QED  BY <3>1, <2>2, <1>1, <1>4, OthersShare DEF WordsShared, Working
  <2>. QED  BY <2>1, <2>2
<1>. QED  BY <1>8, <1>9, <1>10 DEF WordsShared

\* sWaitParAllocate: what came is an object, or a PLAB about to be installed, or nothing.
LEMMA WaitShares == ASSUME AllocateAssumption, AlInv, WaitParAllocate PROVE AlInv'
<1>. USE DEF AlInv
<1>. DEFINE b == al.attr
            given == parResult.dest
            left == al.top < al.hardEnd
<1>1. /\ al.state = "sWaitParAllocate" /\ parResult.done /\ ~parAsked.busy
      /\ parResult' = [parResult EXCEPT !.done = FALSE]
      /\ al' = [al EXCEPT !.dest = given, !.actual = parResult.size,
                      !.return = ~al.return /\ given = NullPtr /\ al.top >= al.hardEnd,
                      !.state = IF al.return THEN "sIdle"
                                ELSE IF given # NullPtr THEN "sWriteRefill"
                                ELSE IF left THEN "sWriteCollapseBuffer"
                                ELSE "sSendDirectRetry"]
      /\ IF al.return THEN AlFinish(given) ELSE UNCHANGED objects
      /\ UNCHANGED <<parAsked, plab, handed, fillers, alAsked>>
  BY DEF WaitParAllocate, AlAt, Asked
<1>2. /\ al \in AlRegisters /\ b \in AttrIdx /\ plab[b] \in Plabs /\ parResult \in ParResults
      /\ al.top \in Nat /\ al.hardEnd \in Nat /\ given \in Nat \cup {NullPtr}
           /\ parResult.size \in Nat
      /\ al.size \in Nat /\ objects \in [AttrIdx -> SUBSET Nat] /\ al.return \in BOOLEAN
      /\ left = ~(al.top >= al.hardEnd) /\ left \in BOOLEAN
  BY DEF AlTypes, AlRegisters, ParResults
<1>3. /\ al'.size = al.size /\ al'.attr = b /\ al'.top = al.top /\ al'.hardEnd = al.hardEnd
      /\ al'.dest = given /\ al'.actual = parResult.size
      /\ \/ al.return /\ al'.state = "sIdle"
         \/ ~al.return /\ given # NullPtr /\ al'.state = "sWriteRefill" /\ ~al'.return
         \/ ~al.return /\ given = NullPtr /\ left /\ al'.state = "sWriteCollapseBuffer"
              /\ ~al'.return
         \/ ~al.return /\ given = NullPtr /\ ~left /\ al'.state = "sSendDirectRetry" /\ al'.return
      /\ al'.state \in AlStates /\ al'.return \in BOOLEAN
  BY <1>1, <1>2 DEF AlRegisters, AlStates
<1>4. al' \in AlRegisters
  BY <1>1, <1>2, <1>3 DEF AlRegisters
<1>5. parResult' \in ParResults /\ ~parResult'.done
  BY <1>1, <1>2 DEF ParResults
<1>6. required' = required
  BY <1>3 DEF required
<1>7. \/ al.return /\ given # NullPtr /\ parResult.size = al.size
         /\ objects' = [objects EXCEPT ![b] = @ \cup Words(given, parResult.size)]
      \/ (~al.return \/ given = NullPtr) /\ objects' = objects
  <2>1. CASE al.return /\ given # NullPtr
    <3>1. parResult.size = al.size
      BY <2>1, <1>1 DEF Asked
    <3>2. objects' = [objects EXCEPT ![b] = @ \cup Words(given, al.size)]
      BY <2>1, <1>1 DEF AlFinish
    <3>. QED  BY <3>1, <3>2, <2>1
  <2>2. CASE al.return /\ given = NullPtr
    <3>1. objects' = [objects EXCEPT ![b] = objects[b]]
      BY <2>2, <1>1 DEF AlFinish
    <3>. QED  BY <3>1, <2>2, <1>2
  <2>3. CASE ~al.return
    BY <2>3, <1>1
  <2>. QED  BY <2>1, <2>2, <2>3
<1>8. Words(given, parResult.size) \subseteq Nat \/ given = NullPtr
  BY <1>2 DEF Words
<1>9. objects' \in [AttrIdx -> SUBSET Nat]
  BY <1>7, <1>8, <1>2
<1>10. AlTypes' /\ PlabRoomy'
  BY <1>1, <1>4, <1>5, <1>9 DEF AlTypes, PlabRoomy
<1>11. Asked'
  BY <1>1, <1>5 DEF Asked
<1>12. PlabRead'
  <2>1. ~al.return => al.top = plab[b].top /\ al.hardEnd = plab[b].hardEnd
    BY <1>1 DEF PlabRead, AlAt
  <2>2. ~al.return /\ given # NullPtr => parResult.size >= required
    BY <1>1 DEF Asked
  <2>. QED  BY <2>1, <2>2, <1>1, <1>3, <1>6 DEF PlabRead, AlAt
<1>13. ASSUME NEW a \in AttrIdx PROVE Shared(a)'
  <2>1. CASE a = b
    <3>1. Shared(a) /\ Room(a)' = Room(a)
      BY <1>1 DEF WordsShared, Room
    <3>2. OnTheWay(a) = IF given # NullPtr THEN Words(given, parResult.size) ELSE {}
      BY <2>1, <1>1 DEF OnTheWay, Working, AlAt
    <3>3. CASE al.return
      <4>1. OpenRoom(a) = Room(a) /\ OpenRoom(a)' = Room(a) /\ OnTheWay(a)' = {}
        BY <3>3, <3>1, <1>1, <1>3, <1>5 DEF OpenRoom, OnTheWay, Working, AlAt
      <4>2. objects'[a] = objects[a] \cup OnTheWay(a)
        BY <3>3, <3>2, <2>1, <1>7, <1>2
      <4>. QED  BY <4>1, <4>2, <3>1, <1>1 DEF Shared
    <3>4. CASE ~al.return /\ given # NullPtr
      <4>1. OpenRoom(a) = {} /\ OpenRoom(a)' = {} /\ OnTheWay(a)' = OnTheWay(a)
              /\ objects' = objects
        BY <3>4, <3>2, <2>1, <1>1, <1>3, <1>5, <1>7 DEF OpenRoom, OnTheWay, Working, AlAt
      <4>. QED  BY <4>1, <3>1, <1>1 DEF Shared
    <3>5. CASE ~al.return /\ given = NullPtr /\ left
      <4>1. OpenRoom(a) = {} /\ OpenRoom(a)' = {} /\ OnTheWay(a)' = OnTheWay(a)
              /\ objects' = objects
        BY <3>5, <3>2, <2>1, <1>1, <1>3, <1>5, <1>7 DEF OpenRoom, OnTheWay, Working, AlAt
      <4>. QED  BY <4>1, <3>1, <1>1 DEF Shared
    <3>6. CASE ~al.return /\ given = NullPtr /\ ~left
      <4>1. Room(a) = {}
        <5>1. ~(plab[a].top < plab[a].hardEnd)
          BY <3>6, <2>1, <1>1 DEF PlabRead, AlAt
        <5>. QED  BY <5>1, <2>1, <1>2 DEF Room, Plabs
      <4>2. OpenRoom(a) = {} /\ OpenRoom(a)' = {} /\ OnTheWay(a)' = OnTheWay(a)
              /\ objects' = objects
        BY <4>1, <3>1, <3>6, <3>2, <2>1, <1>1, <1>3, <1>5, <1>7
           DEF OpenRoom, OnTheWay, Working, AlAt
      <4>. QED  BY <4>2, <3>1, <1>1 DEF Shared
    <3>. QED  BY <3>3, <3>4, <3>5, <3>6
  <2>2. CASE a # b
    <3>1. objects'[a] = objects[a]
      BY <2>2, <1>7, <1>2
    <3>. QED  BY <3>1, <2>2, <1>1, <1>3, OthersShare DEF WordsShared, Working
  <2>. QED  BY <2>1, <2>2
<1>. QED  BY <1>10, <1>11, <1>12, <1>13 DEF WordsShared

\* sWriteRefill: the new PLAB begins with the object, the rest is its room.
LEMMA RefillShares == ASSUME AllocateAssumption, AlInv, WriteRefill PROVE AlInv'
<1>. USE DEF AlInv
<1>. DEFINE b == al.attr
            new == [bottom |-> al.dest, top |-> al.dest + al.size, hardEnd |-> al.dest + al.actual]
<1>1. /\ al.state = "sWriteRefill" /\ ~parAsked.busy /\ ~parResult.done /\ ~al.return
      /\ al.dest # NullPtr /\ al.actual >= required
      /\ al' = [al EXCEPT !.state = "sIdle"]
      /\ plab' = [plab EXCEPT ![b] =
           Plab(al.dest, al.dest + (IF al.actual - Reserve >= al.size THEN al.size ELSE 0),
                al.dest + al.actual)]
      /\ AlFinish(al.dest)
      /\ UNCHANGED <<parResult, parAsked, handed, fillers, alAsked>>
  BY DEF WriteRefill, AlAt, AlGoto, PlabRead, Asked
<1>2. /\ al \in AlRegisters /\ b \in AttrIdx /\ al.dest \in Nat /\ al.actual \in Nat
           /\ al.size \in Nat
      /\ plab \in [AttrIdx -> Plabs] /\ objects \in [AttrIdx -> SUBSET Nat]
  BY <1>1 DEF AlTypes, AlRegisters
<1>3. al.actual >= al.size + 2
  BY <1>1, <1>2 DEF required, Reserve
<1>4. plab' = [plab EXCEPT ![b] = new] /\ new \in Plabs
  <2>1. (IF al.actual - Reserve >= al.size THEN al.size ELSE 0) = al.size
    BY <1>2, <1>3 DEF Reserve
  <2>2. plab' = [plab EXCEPT ![b] = new]
    BY <2>1, <1>1 DEF Plab
  <2>3. new \in Plabs
    BY <1>2 DEF Plabs
  <2>. QED  BY <2>2, <2>3
<1>5. objects' = [objects EXCEPT ![b] = @ \cup Words(al.dest, al.size)]
  BY <1>1 DEF AlFinish
<1>6. al' \in AlRegisters /\ al'.attr = b /\ al'.state = "sIdle" /\ al'.return = al.return
      /\ al'.size = al.size
  BY <1>1, <1>2 DEF AlRegisters, AlStates
<1>7. Words(al.dest, al.size) \subseteq Nat
  BY <1>2 DEF Words
<1>8. objects' \in [AttrIdx -> SUBSET Nat] /\ plab' \in [AttrIdx -> Plabs]
  BY <1>2, <1>4, <1>5, <1>7
<1>9. AlTypes'
  BY <1>1, <1>6, <1>8 DEF AlTypes
<1>10. PlabRoomy'
  BY <1>2, <1>3, <1>4 DEF PlabRoomy, Reserve
<1>11. Asked' /\ PlabRead'
  BY <1>1, <1>6 DEF Asked, PlabRead, AlAt
<1>12. ASSUME NEW a \in AttrIdx PROVE Shared(a)'
  <2>1. CASE a = b
    <3>1. OpenRoom(a) = {} /\ OnTheWay(a) = Words(al.dest, al.actual)
      BY <2>1, <1>1 DEF OpenRoom, OnTheWay, Working, AlAt
    <3>2. plab'[a] = new /\ objects'[a] = objects[a] \cup Words(al.dest, al.size)
      BY <2>1, <1>2, <1>4, <1>5
    <3>3. OpenRoom(a)' = (al.dest + al.size) .. (al.dest + al.actual - 1) /\ OnTheWay(a)' = {}
      <4>1. Room(a)' = (al.dest + al.size) .. (al.dest + al.actual - 1)
        <5>1. /\ plab'[a].top = al.dest + al.size
              /\ plab'[a].hardEnd - 1 = al.dest + al.actual - 1
          BY <3>2, <1>2
        <5>. QED  BY <5>1 DEF Room
      <4>2. OpenRoom(a)' = Room(a)'
        BY <1>6 DEF OpenRoom, Working, AlAt
      <4>3. OnTheWay(a)' = {}
        BY <1>6 DEF OnTheWay, Working, AlAt
      <4>. QED  BY <4>1, <4>2, <4>3
    <3>4. /\ Words(al.dest, al.size) \cup OpenRoom(a)' = Words(al.dest, al.actual)
          /\ Words(al.dest, al.size) \cap OpenRoom(a)' = {}
      BY <3>3, <1>2, <1>3 DEF Words
    <3>5. Shared(a)
      BY DEF WordsShared
    <3>. QED  BY <3>1, <3>2, <3>3, <3>4, <3>5, <1>1 DEF Shared
  <2>2. CASE a # b
    <3>1. objects'[a] = objects[a] /\ plab'[a] = plab[a]
      BY <2>2, <1>2, <1>4, <1>5
    <3>. QED  BY <3>1, <2>2, <1>1, <1>6, OthersShare DEF WordsShared, Working
  <2>. QED  BY <2>1, <2>2
<1>. QED  BY <1>9, <1>10, <1>11, <1>12 DEF WordsShared

\* sWriteCollapseBuffer: the PLAB that was filled up is empty from now on.
LEMMA CollapseShares == ASSUME AllocateAssumption, AlInv, WriteCollapseBuffer PROVE AlInv'
<1>. USE DEF AlInv
<1>. DEFINE b == al.attr
            new == [bottom |-> al.hardEnd, top |-> al.hardEnd, hardEnd |-> al.hardEnd]
<1>1. /\ al.state = "sWriteCollapseBuffer" /\ ~parAsked.busy /\ ~parResult.done
      /\ al' = [al EXCEPT !.state = "sSendDirectRetry", !.return = TRUE]
      /\ plab' = [plab EXCEPT ![b] = new]
      /\ UNCHANGED <<parResult, parAsked, handed, objects, fillers, alAsked>>
  BY DEF WriteCollapseBuffer, AlAt, Plab, Asked
<1>2. al \in AlRegisters /\ b \in AttrIdx /\ al.hardEnd \in Nat /\ plab \in [AttrIdx -> Plabs]
      /\ new \in Plabs
  BY DEF AlTypes, AlRegisters, Plabs
<1>3. /\ al' \in AlRegisters /\ al'.attr = b /\ al'.state = "sSendDirectRetry" /\ al'.return
      /\ al'.size = al.size
  BY <1>1, <1>2 DEF AlRegisters, AlStates
<1>4. plab' \in [AttrIdx -> Plabs]
  BY <1>1, <1>2
<1>5. AlTypes'
  BY <1>1, <1>3, <1>4 DEF AlTypes
<1>6. PlabRoomy'
  BY <1>1, <1>2 DEF PlabRoomy
<1>7. Asked' /\ PlabRead'
  BY <1>1, <1>3 DEF Asked, PlabRead, AlAt
<1>8. ASSUME NEW a \in AttrIdx PROVE Shared(a)'
  <2>1. CASE a = b
    <3>1. plab'[a] = new
      BY <2>1, <1>1, <1>2
    <3>2. Room(a)' = {}
      BY <3>1, <1>2 DEF Room
    <3>3. OpenRoom(a)' = OpenRoom(a) /\ OnTheWay(a)' = OnTheWay(a)
      BY <2>1, <3>2, <1>1, <1>3 DEF OpenRoom, OnTheWay, Working, AlAt
    <3>. QED  BY <3>3, <1>1, NothingMoves DEF WordsShared
  <2>2. CASE a # b
    <3>1. plab'[a] = plab[a]
      BY <2>2, <1>1, <1>2
    <3>. QED  BY <3>1, <2>2, <1>1, <1>3, OthersShare DEF WordsShared, Working
  <2>. QED  BY <2>1, <2>2
<1>. QED  BY <1>5, <1>6, <1>7, <1>8 DEF WordsShared

\* sSendDirectRetry: room for the object alone is asked for.
LEMMA RetryShares == ASSUME AllocateAssumption, AlInv, SendDirectRetry PROVE AlInv'
<1>. USE DEF AlInv
<1>1. /\ al.state = "sSendDirectRetry" /\ ~parResult.done /\ al.return
      /\ al' = [al EXCEPT !.state = "sWaitParAllocate"]
      /\ parAsked' = [busy |-> TRUE, min |-> al.size, want |-> al.size]
      /\ UNCHANGED <<parResult, plab, handed, objects, fillers, alAsked>>
  BY DEF SendDirectRetry, SendToParAllocate, AlAt, AlGoto, Asked, PlabRead
<1>2. al \in AlRegisters /\ al.size \in Nat
  BY DEF AlTypes, AlRegisters
<1>3. /\ al' \in AlRegisters /\ al'.attr = al.attr /\ al'.state = "sWaitParAllocate" /\ al'.return
      /\ al'.size = al.size
  BY <1>1, <1>2 DEF AlRegisters, AlStates
<1>4. parAsked' \in ParAsks /\ parAsked'.busy /\ parAsked'.min = al.size /\ parAsked'.want = al.size
  BY <1>1, <1>2 DEF ParAsks
<1>5. AlTypes' /\ PlabRoomy'
  BY <1>1, <1>3, <1>4 DEF AlTypes, PlabRoomy
<1>6. Asked' /\ PlabRead'
  BY <1>1, <1>3, <1>4 DEF Asked, PlabRead, AlAt
<1>7. ASSUME NEW a \in AttrIdx PROVE Shared(a)'
  <2>1. OpenRoom(a)' = OpenRoom(a) /\ OnTheWay(a)' = OnTheWay(a)
    BY <1>1, <1>3 DEF OpenRoom, OnTheWay, Room, Working, AlAt
  <2>. QED  BY <2>1, <1>1, NothingMoves DEF WordsShared
<1>. QED  BY <1>5, <1>6, <1>7 DEF WordsShared

\* GCParAllocate hands out words nobody had.
LEMMA AnswerShares == ASSUME AllocateAssumption, AlInv, ParAnswers PROVE AlInv'
<1>. USE DEF AlInv
<1>. DEFINE b == al.attr
<1>1. /\ parAsked.busy /\ ~parResult.done /\ parAsked' = [parAsked EXCEPT !.busy = FALSE]
      /\ UNCHANGED <<al, plab, objects, fillers, alAsked>>
      /\ al.state \in {"sReadBufferMeta", "sWriteOldPlabHeader", "sWaitParAllocate"}
  BY DEF ParAnswers, Asked
<1>2. /\ al \in AlRegisters /\ b \in AttrIdx /\ handed \in [AttrIdx -> Nat] /\ handed[b] \in Nat
      /\ parAsked \in ParAsks /\ parAsked.min \in Nat /\ parAsked.want \in Nat
      /\ al.size \in Nat /\ required \in Nat
  BY DEF AlTypes, AlRegisters, ParAsks, required, Reserve
<1>3. \/ /\ parResult' = [done |-> TRUE, dest |-> NullPtr, size |-> 0] /\ handed' = handed
      \/ \E n \in parAsked.min .. parAsked.want :
           /\ parResult' = [done |-> TRUE, dest |-> handed[b], size |-> n]
           /\ handed' = [handed EXCEPT ![b] = @ + n]
  BY DEF ParAnswers
<1>4. parAsked' \in ParAsks /\ ~parAsked'.busy
  BY <1>1, <1>2 DEF ParAsks
<1>5. CASE parResult' = [done |-> TRUE, dest |-> NullPtr, size |-> 0] /\ handed' = handed
  <2>1. parResult' \in ParResults /\ parResult'.dest = NullPtr
    BY <1>5 DEF ParResults
  <2>2. AlTypes' /\ PlabRoomy'
    BY <1>1, <1>4, <1>5, <2>1 DEF AlTypes, PlabRoomy
  <2>3. Asked' /\ PlabRead'
    BY <1>1, <1>4, <2>1 DEF Asked, PlabRead, AlAt
  <2>4. ASSUME NEW a \in AttrIdx PROVE Shared(a)'
    <3>1. OpenRoom(a)' = OpenRoom(a) /\ OnTheWay(a)' = OnTheWay(a)
      BY <1>1, <2>1 DEF OpenRoom, OnTheWay, Room, Working, AlAt
    <3>. QED  BY <3>1, <1>1, <1>5, NothingMoves DEF WordsShared
  <2>. QED  BY <2>2, <2>3, <2>4 DEF WordsShared
<1>6. ASSUME NEW n \in parAsked.min .. parAsked.want,
             parResult' = [done |-> TRUE, dest |-> handed[b], size |-> n],
             handed' = [handed EXCEPT ![b] = @ + n]
      PROVE  AlInv'
  <2>1. /\ parResult' \in ParResults /\ parResult'.done /\ parResult'.dest = handed[b]
        /\ parResult'.size = n /\ n \in Nat /\ handed[b] # NullPtr
    BY <1>2, <1>6 DEF ParResults, NullPtr
  <2>2. handed' \in [AttrIdx -> Nat] /\ handed'[b] = handed[b] + n
    BY <1>2, <1>6, <2>1
  <2>3. AlTypes' /\ PlabRoomy'
    BY <1>1, <1>4, <2>1, <2>2 DEF AlTypes, PlabRoomy
  <2>4. IF al.return THEN n = al.size ELSE n >= required
    BY <1>1, <1>2 DEF Asked
  <2>5. required' = required
    BY <1>1 DEF required
  <2>6. Asked' /\ PlabRead'
    BY <1>1, <1>4, <2>1, <2>4, <2>5 DEF Asked, PlabRead, AlAt
  <2>7. ASSUME NEW a \in AttrIdx PROVE Shared(a)'
    <3>1. CASE a = b
      <4>1. OpenRoom(a)' = OpenRoom(a)
        BY <1>1 DEF OpenRoom, Room, Working, AlAt
      <4>2. OnTheWay(a) = {} /\ OnTheWay(a)' = Words(handed[a], n)
        BY <3>1, <1>1, <2>1 DEF OnTheWay, Working, AlAt
      <4>3. /\ Words(0, handed'[a]) = Words(0, handed[a]) \cup Words(handed[a], n)
            /\ Words(0, handed[a]) \cap Words(handed[a], n) = {}
        BY <3>1, <1>2, <2>1, <2>2 DEF Words
      <4>4. Shared(a)
        BY DEF WordsShared
      <4>. QED  BY <4>1, <4>2, <4>3, <4>4, <1>1 DEF Shared
    <3>2. CASE a # b
      <4>1. handed'[a] = handed[a]
        BY <3>2, <1>2, <1>6
      <4>. QED  BY <4>1, <3>2, <1>1, OthersShare DEF WordsShared, Working
    <3>. QED  BY <3>1, <3>2
  <2>. QED  BY <2>3, <2>6, <2>7 DEF WordsShared
<1>. QED  BY <1>3, <1>5, <1>6

\* A slot takes words of a PLAB that no command is about.
LEMMA SlotShares ==
  ASSUME AllocateAssumption, AlInv, NEW b \in AttrIdx, NEW n \in ObjectSizes, SlotAllocates(b, n)
  PROVE  AlInv'
<1>. USE DEF AlInv
<1>1. /\ ~Working(b) /\ plab[b].top + n <= plab[b].hardEnd - Reserve
      /\ plab' = [plab EXCEPT ![b].top = @ + n]
      /\ objects' = [objects EXCEPT ![b] = @ \cup Words(plab[b].top, n)]
      /\ UNCHANGED <<al, parResult, parAsked, handed, fillers, alAsked>>
  BY DEF SlotAllocates, Working
<1>2. /\ plab \in [AttrIdx -> Plabs] /\ plab[b] \in Plabs /\ plab[b].top \in Nat
      /\ plab[b].hardEnd \in Nat /\ n \in Nat /\ objects \in [AttrIdx -> SUBSET Nat]
  BY DEF AlTypes, Plabs, AllocateAssumption
<1>3. /\ plab'[b] = [plab[b] EXCEPT !.top = plab[b].top + n]
      /\ \A a \in AttrIdx : a # b => plab'[a] = plab[a]
      /\ plab' = [plab EXCEPT ![b] = [plab[b] EXCEPT !.top = plab[b].top + n]]
  BY <1>1, <1>2
<1>4. plab'[b] \in Plabs /\ plab'[b].top = plab[b].top + n /\ plab'[b].hardEnd = plab[b].hardEnd
  BY <1>2, <1>3 DEF Plabs
<1>5. plab' \in [AttrIdx -> Plabs]
  BY <1>2, <1>3, <1>4
<1>6. Words(plab[b].top, n) \subseteq Nat
  BY <1>2 DEF Words
<1>7. objects' \in [AttrIdx -> SUBSET Nat]
  BY <1>1, <1>2, <1>6
<1>8. AlTypes'
  BY <1>1, <1>5, <1>7 DEF AlTypes
<1>9. PlabRoomy'
  <2>1. ASSUME NEW a \in AttrIdx
        PROVE  plab'[a].top = plab'[a].hardEnd \/ plab'[a].top + Reserve <= plab'[a].hardEnd
    <3>1. CASE a = b
      BY <3>1, <1>1, <1>2, <1>4 DEF Reserve
    <3>2. CASE a # b
      BY <3>2, <1>3 DEF PlabRoomy
    <3>. QED  BY <3>1, <3>2
  <2>. QED  BY <2>1 DEF PlabRoomy
<1>10. Asked'
  BY <1>1 DEF Asked, required
<1>11. PlabRead'
  <2>1. ~AlAt("sIdle") => plab'[al.attr] = plab[al.attr]
    <3>1. al.attr \in AttrIdx
      BY DEF AlTypes, AlRegisters
    <3>. QED  BY <3>1, <1>1, <1>3 DEF Working
  <2>. QED  BY <2>1, <1>1 DEF PlabRead, AlAt, required
<1>12. ASSUME NEW a \in AttrIdx PROVE Shared(a)'
  <2>1. CASE a = b
    <3>1. OpenRoom(a) = Room(a) /\ OpenRoom(a)' = Room(a)' /\ OnTheWay(a) = {} /\ OnTheWay(a)' = {}
      BY <2>1, <1>1 DEF OpenRoom, OnTheWay, Working, AlAt
    <3>2. objects'[a] = objects[a] \cup Words(plab[b].top, n)
      BY <2>1, <1>1, <1>2
    <3>3. /\ Room(a) = Words(plab[b].top, n) \cup Room(a)'
          /\ Words(plab[b].top, n) \cap Room(a)' = {}
      BY <2>1, <1>1, <1>2, <1>4 DEF Room, Words, Reserve
    <3>4. Shared(a)
      BY DEF WordsShared
    <3>. QED  BY <3>1, <3>2, <3>3, <3>4, <1>1 DEF Shared
  <2>2. CASE a # b
    <3>1. objects'[a] = objects[a] /\ plab'[a] = plab[a]
      BY <2>2, <1>1, <1>2, <1>3
    <3>2. OpenRoom(a)' = OpenRoom(a) /\ OnTheWay(a)' = OnTheWay(a)
      BY <3>1, <1>1 DEF OpenRoom, OnTheWay, Room, Working, AlAt
    <3>3. Shared(a)
      BY DEF WordsShared
    <3>. QED  BY <3>1, <3>2, <3>3, <1>1 DEF Shared
  <2>. QED  BY <2>1, <2>2
<1>. QED  BY <1>8, <1>9, <1>10, <1>11, <1>12 DEF WordsShared

\* Each step of GCAllocate keeps the invariant.
LEMMA AlKept ==
  ASSUME AllocateAssumption, AlInv, UNCHANGED alVars PROVE AlInv'
BY DEF AlInv, alVars, AlTypes, PlabRoomy, Asked, PlabRead, WordsShared, Shared, OpenRoom, OnTheWay,
       Room, Working, AlAt, required

\* The step relation.
LEMMA AlStep == AllocateAssumption /\ AlInv /\ [AlNext]_alVars => AlInv'
BY CommandShares, DecideShares, ReadShares, FillShares, WaitShares, RefillShares, CollapseShares,
   RetryShares, AnswerShares, SlotShares, AlKept
   DEF AlNext, AlMachine

\* Every word handed out is in one object, one filler or the room of the PLAB,
\* never in two, for any sizes, any waste factor and any header size.
THEOREM WordsKept == AlSpec => []WordsAccounted
<1>1. AlInv => WordsAccounted
  <2>. SUFFICES ASSUME AlInv, NEW a \in AttrIdx, AlAt("sIdle") \/ al.attr # a
                PROVE  /\ objects[a] \cup fillers[a] \cup Room(a) = Words(0, handed[a])
                       /\ objects[a] \cap fillers[a] = {}
                       /\ Room(a) \cap (objects[a] \cup fillers[a]) = {}
    BY DEF WordsAccounted
  <2>1. OpenRoom(a) = Room(a) /\ OnTheWay(a) = {} /\ Shared(a)
    BY DEF AlInv, WordsShared, OpenRoom, OnTheWay, Working
  <2>. QED  BY <2>1 DEF Shared
<1>. QED  BY <1>1, AlInitially, AlStep, AllocateAssumption, PTL DEF AlSpec

-----------------------------------------------------------------------------
(* GCAop.  The invariant behind CardsKept follows the queue through the     *)
(* caches, the gathered words and the write-back: what the queue is now     *)
(* (index, buffer, lastOf, headOf, tailOf) is always start and kept.        *)
NodeOr == Nodes \cup {NoNode}
CardOr == Cards \cup {NoCard}

AopLooks    == {"CALC_CARD", "CHECK_LAST_INDEX"}
AopAllocs   == {"WRITE_OLD_NODE", "ALLOC_READ_FREE_LIST", "ALLOC_WRITE_FREE_TOP",
  "ALLOC_SLOW_RETRY"}
AopReplaces == {"LINK_OLD_BUFFER", "READ_NODE_CAPACITY"} \cup AopAllocs
AopAdds     == {"CHECK_INDEX", "ENQUEUE_RES"} \cup AopReplaces
WbWritten   == {"WB_WRITE_INDEX_BUFFER", "WB_WRITE_OFFSET30_38", "WB_WRITE_LAST_INDEX",
                "WB_CLEAR_CACHE"}
AopStates   == {"IDLE", "WB_FLUSH_BUFFER_WRITE"} \cup AopLooks \cup AopAdds \cup WbWritten

AopRegisters ==
  [state : AopStates, card : CardOr, cardIndex : CardOr, lastValid : BOOLEAN, last : CardOr,
   bufferValid : BOOLEAN, index : Int, buffer : NodeOr, listValid : BOOLEAN, head : NodeOr,
   tail : NodeOr, node : NodeOr, newTop : NodeOr, wr : Seq(CardOr), wraddr : Int]
CardQueues == [index : Int, buffer : NodeOr, head : NodeOr, tail : NodeOr, last : CardOr]
AopJobs    == [phase : {"running", "over"}, count : Nat]
Starts     == [index : 0 .. Capacity, list : NodeOr]

AopTypes ==
  /\ aop \in AopRegisters /\ aopPending \in BOOLEAN /\ cardQueue \in CardQueues
  /\ nodeWords \in [Nodes -> [WordSlots -> NodeOr \cup CardOr]] /\ freeNodes \in NodeOr
  /\ aopJob \in AopJobs /\ start \in Starts /\ lastAsked \in CardOr
  /\ kept \in Seq(Cards) /\ filled \in SUBSET Nodes

lastOf == IF aop.lastValid THEN aop.last ELSE cardQueue.last
headOf == IF aop.listValid THEN aop.head ELSE cardQueue.head
tailOf == IF aop.listValid THEN aop.tail ELSE cardQueue.tail

\* A card that is asked for and not in the queue yet, and how many are in it.
adding == aop.state \in AopAdds \/ (aop.state \in AopLooks /\ aop.cardIndex # lastOf)
stored == IF adding THEN Len(kept) - 1 ELSE Len(kept)

\* The card at work is the last one asked for; nothing else is missing.
AtWork ==
  /\ aop.state \in AopLooks \cup AopAdds => aop.cardIndex = lastAsked
  /\ ~adding => lastOf = lastAsked
  /\ adding => Len(kept) > 0 /\ kept[Len(kept)] = aop.cardIndex
  /\ aop.state \in AopAdds \cup {"CHECK_LAST_INDEX"} => aop.lastValid
  /\ aop.state \in AopAdds => aop.bufferValid
  /\ aop.state \in AopLooks \cup {"CHECK_INDEX"} => aop.card = aop.cardIndex
  /\ aop.state = "ENQUEUE_RES" /\ Len(kept) <= start.index => aop.card = aop.cardIndex
  /\ aop.state \in AopReplaces => aop.listValid /\ index = 0
  /\ Len(kept) <= start.index + 1
  /\ aopJob.phase = "over" /\ ~aopPending =>
       AopAt("IDLE") /\ ~aop.lastValid /\ ~aop.bufferValid /\ ~aop.listValid /\ aop.wr = <<>>

\* The cards are in their slots as long as the buffer had room for them.
Stored ==
  /\ index = start.index - stored
  /\ Len(kept) <= start.index => \A k \in 1 .. stored : Word(start.index - k) = kept[k]
  /\ aop.wr # <<>> => aop.bufferValid /\ aop.wraddr = aop.index
  /\ start.index > 0 \/ aop.wr # <<>> \/ aop.state \in {"READ_NODE_CAPACITY", "ENQUEUE_RES"} =>
       buffer \in Nodes

\* How far the write-back is.
WrittenSoFar ==
  /\ aop.state \in WbWritten =>
       \A s \in aop.wraddr .. aop.wraddr + Len(aop.wr) - 1 :
         s \in WordSlots => nodeWords[buffer][s] = Word(s)
  /\ aop.state \in WbWritten \ {"WB_WRITE_INDEX_BUFFER"} =>
       cardQueue.index = index /\ cardQueue.buffer = buffer
  /\ aop.state \in {"WB_WRITE_LAST_INDEX", "WB_CLEAR_CACHE"} =>
       cardQueue.head = headOf /\ cardQueue.tail = tailOf
  /\ AopAt("WB_CLEAR_CACHE") => cardQueue.last = lastOf

\* The replaced buffer, the list and the free node are different nodes, and the
\* replaced one is on its way into the list or at its head.
Linked ==
  /\ filled = {} => headOf = start.list /\ tailOf = start.list
  /\ filled # {} => Len(kept) = start.index + 1
  /\ aop.state \in AopLooks \cup {"CHECK_INDEX", "LINK_OLD_BUFFER"} => filled = {}
  /\ AopAt("WRITE_OLD_NODE") => filled # {}
  /\ \A old \in filled :
       /\ filled = {old} /\ old # start.list /\ old # freeNodes
       /\ tailOf = IF start.list = NoNode THEN old ELSE start.list
       /\ IF AopAt("WRITE_OLD_NODE") THEN aop.node = old /\ headOf = start.list
                                     ELSE headOf = old /\ nodeWords[old][-1] = start.list
       /\ aop.state \notin AopAllocs => buffer # old
  /\ AopAt("ALLOC_WRITE_FREE_TOP") => aop.node = freeNodes /\ aop.newTop = NoNode
  /\ freeNodes # NoNode => freeNodes # start.list /\ freeNodes # buffer
  /\ buffer # NoNode => buffer # start.list
  /\ index >= 0 => \A n \in Nodes \ filled : nodeWords[n][-1] = NoNode

AopInv == AopTypes /\ AtWork /\ Stored /\ WrittenSoFar /\ Linked

\* AopOthers: AopTypes' from the new registers, when nothing else changes.
LEMMA AopTypesKept ==
  ASSUME AopTypes, aop' \in AopRegisters,
         UNCHANGED <<aopPending, aopMemory, aopJob, aopHist>>
  PROVE  AopTypes'
  BY DEF AopTypes, aopMemory, aopHist

\* CalcCard takes over the last card that is in memory.
LEMMA CalcCardKeeps ==
  ASSUME AopInv, CalcCard
  PROVE  AopInv'
<1>1. /\ aop.state = "CALC_CARD"
      /\ aop' = [aop EXCEPT !.state = "CHECK_LAST_INDEX", !.lastValid = TRUE, !.last = lastOf]
      /\ UNCHANGED <<aopPending, aopMemory, aopJob, aopHist>>
  BY DEF CalcCard, AopAt, lastOf
<1>2. aop \in AopRegisters /\ lastOf \in CardOr
  BY DEF AopInv, AopTypes, AopRegisters, CardQueues, lastOf
<1>3. aop' \in AopRegisters
  BY <1>1, <1>2 DEF AopRegisters, AopStates, AopLooks
<1>4. /\ aop'.state = "CHECK_LAST_INDEX" /\ aop'.lastValid /\ aop'.last = lastOf
      /\ aop'.card = aop.card /\ aop'.cardIndex = aop.cardIndex
      /\ aop'.bufferValid = aop.bufferValid /\ aop'.index = aop.index /\ aop'.buffer = aop.buffer
      /\ aop'.listValid = aop.listValid /\ aop'.head = aop.head /\ aop'.tail = aop.tail
      /\ aop'.node = aop.node /\ aop'.newTop = aop.newTop
      /\ aop'.wr = aop.wr /\ aop'.wraddr = aop.wraddr
  BY <1>1, <1>2 DEF AopRegisters
<1>5. /\ cardQueue' = cardQueue /\ nodeWords' = nodeWords /\ freeNodes' = freeNodes
      /\ start' = start /\ lastAsked' = lastAsked /\ kept' = kept /\ filled' = filled
      /\ aopJob' = aopJob /\ aopPending' = aopPending
  BY <1>1 DEF aopMemory, aopHist
<1>6. /\ lastOf' = lastOf /\ index' = index /\ buffer' = buffer /\ headOf' = headOf
      /\ tailOf' = tailOf
  BY <1>4, <1>5 DEF lastOf, index, buffer, headOf, tailOf
<1>7. adding' = adding
  BY <1>1, <1>4, <1>6 DEF adding, AopAdds, AopReplaces, AopAllocs, AopLooks
<1>8. stored' = stored
  BY <1>5, <1>7 DEF stored
<1>9. \A s : Word(s)' = Word(s)
  BY <1>4, <1>5, <1>6 DEF Word
<1>10. AopTypes'
  BY <1>1, <1>3, AopTypesKept DEF AopInv
<1>11. AtWork'
  BY <1>1, <1>4, <1>5, <1>6, <1>7
     DEF AopInv, AtWork, AopAt, AopAdds, AopReplaces, AopAllocs, AopLooks
<1>12. Stored'
  BY <1>1, <1>4, <1>5, <1>6, <1>8, <1>9 DEF AopInv, Stored
<1>13. WrittenSoFar'
  BY <1>4 DEF WrittenSoFar, WbWritten, AopAt
<1>14. Linked'
  BY <1>1, <1>4, <1>5, <1>6 DEF AopInv, Linked, AopAt, AopAllocs, AopLooks
<1>. QED BY <1>10, <1>11, <1>12, <1>13, <1>14 DEF AopInv

\* Registers: one step sets the state and the cached index and buffer.
LEMMA BufferTaken ==
  ASSUME aop \in AopRegisters, index \in Int, buffer \in NodeOr,
         NEW q \in AopStates, NEW v \in BOOLEAN, aop.bufferValid => v,
         v = aop.bufferValid => aop' = [aop EXCEPT !.state = q],
         v # aop.bufferValid =>
           aop' = [aop EXCEPT !.state = q, !.bufferValid = v, !.index = index, !.buffer = buffer],
         UNCHANGED <<aopPending, aopMemory, aopJob, aopHist>>
  PROVE  /\ aop' \in AopRegisters
         /\ aop'.state = q /\ aop'.bufferValid = v
         /\ aop'.card = aop.card /\ aop'.cardIndex = aop.cardIndex
         /\ aop'.lastValid = aop.lastValid /\ aop'.last = aop.last
         /\ aop'.listValid = aop.listValid /\ aop'.head = aop.head /\ aop'.tail = aop.tail
         /\ aop'.node = aop.node /\ aop'.newTop = aop.newTop
         /\ aop'.wr = aop.wr /\ aop'.wraddr = aop.wraddr
         /\ v => aop'.index = index /\ aop'.buffer = buffer
         /\ index' = index /\ buffer' = buffer /\ lastOf' = lastOf
         /\ headOf' = headOf /\ tailOf' = tailOf
         /\ \A s : Word(s)' = Word(s)
<1>1. /\ aop' \in AopRegisters
      /\ aop'.state = q /\ aop'.bufferValid = v
      /\ aop'.card = aop.card /\ aop'.cardIndex = aop.cardIndex
      /\ aop'.lastValid = aop.lastValid /\ aop'.last = aop.last
      /\ aop'.listValid = aop.listValid /\ aop'.head = aop.head /\ aop'.tail = aop.tail
      /\ aop'.node = aop.node /\ aop'.newTop = aop.newTop
      /\ aop'.wr = aop.wr /\ aop'.wraddr = aop.wraddr
      /\ v => aop'.index = index /\ aop'.buffer = buffer
  <2>1. CASE v = aop.bufferValid
    BY <2>1 DEF AopRegisters, index, buffer
  <2>2. CASE v # aop.bufferValid
    BY <2>2 DEF AopRegisters
  <2>. QED BY <2>1, <2>2
<1>2. cardQueue' = cardQueue /\ nodeWords' = nodeWords
  BY DEF aopMemory
<1>3. index' = index /\ buffer' = buffer
  BY <1>1, <1>2 DEF index, buffer
<1>4. lastOf' = lastOf /\ headOf' = headOf /\ tailOf' = tailOf
  BY <1>1, <1>2 DEF lastOf, headOf, tailOf
<1>5. \A s : Word(s)' = Word(s)
  BY <1>1, <1>2, <1>3 DEF Word
<1>. QED BY <1>1, <1>3, <1>4, <1>5

\* CheckLastIndex drops a repeated card, and otherwise takes over the index and
\* the buffer that are in memory.
LEMMA CheckLastIndexKeeps ==
  ASSUME AopInv, CheckLastIndex
  PROVE  AopInv'
<1>. DEFINE q == IF aop.last = aop.cardIndex THEN "IDLE" ELSE "CHECK_INDEX"
            v == aop.bufferValid \/ aop.last # aop.cardIndex
<1>1. /\ aop.state = "CHECK_LAST_INDEX" /\ aop \in AopRegisters
      /\ UNCHANGED <<aopPending, aopMemory, aopJob, aopHist>>
      /\ index \in Int /\ buffer \in NodeOr
  BY DEF CheckLastIndex, AopAt, AopInv, AopTypes, AopRegisters, CardQueues, index, buffer
<1>2. aop.cardIndex = lastAsked /\ aop.card = aop.cardIndex /\ aop.lastValid /\ lastOf = aop.last
  BY <1>1 DEF AopInv, AtWork, AopLooks, lastOf
<1>3. /\ cardQueue' = cardQueue /\ nodeWords' = nodeWords /\ freeNodes' = freeNodes
      /\ start' = start /\ lastAsked' = lastAsked /\ kept' = kept /\ filled' = filled
      /\ aopJob' = aopJob /\ aopPending' = aopPending
  BY <1>1 DEF aopMemory, aopHist
<1>4. /\ q \in AopStates /\ v \in BOOLEAN /\ (aop.bufferValid => v)
      /\ v = aop.bufferValid => aop' = [aop EXCEPT !.state = q]
      /\ v # aop.bufferValid =>
           aop' = [aop EXCEPT !.state = q, !.bufferValid = v, !.index = index, !.buffer = buffer]
  BY <1>1 DEF CheckLastIndex, AopStates, AopAdds, index, buffer, AopRegisters
<1>. HIDE DEF q, v
<1>5. /\ aop' \in AopRegisters
      /\ aop'.state = q /\ aop'.bufferValid = v
      /\ aop'.card = aop.card /\ aop'.cardIndex = aop.cardIndex
      /\ aop'.lastValid = aop.lastValid /\ aop'.last = aop.last
      /\ aop'.listValid = aop.listValid /\ aop'.head = aop.head /\ aop'.tail = aop.tail
      /\ aop'.node = aop.node /\ aop'.newTop = aop.newTop
      /\ aop'.wr = aop.wr /\ aop'.wraddr = aop.wraddr
      /\ v => aop'.index = index /\ aop'.buffer = buffer
      /\ index' = index /\ buffer' = buffer /\ lastOf' = lastOf
      /\ headOf' = headOf /\ tailOf' = tailOf
      /\ \A s : Word(s)' = Word(s)
  BY <1>1, <1>4, BufferTaken
<1>6. adding' = adding
  BY <1>1, <1>2, <1>5 DEF q, adding, AopAdds, AopReplaces, AopAllocs, AopLooks
<1>7. stored' = stored
  BY <1>3, <1>6 DEF stored
<1>8. AopTypes'
  BY <1>1, <1>5, AopTypesKept DEF AopInv
<1>9. AtWork'
  <2>1. ~(aopJob.phase = "over" /\ ~aopPending)
    BY <1>1 DEF AopInv, AtWork, AopAt
  <2>2. Len(kept) <= start.index + 1
    BY DEF AopInv, AtWork
  <2>3. adding => Len(kept) > 0 /\ kept[Len(kept)] = aop.cardIndex
    BY DEF AopInv, AtWork
  <2>4. CASE aop.last = aop.cardIndex
    BY <1>1, <1>2, <1>3, <1>5, <1>6, <2>1, <2>2, <2>3, <2>4
       DEF q, AtWork, AopAt, AopAdds, AopReplaces, AopAllocs, AopLooks
  <2>5. CASE aop.last # aop.cardIndex
    <3>1. adding /\ adding'
      BY <1>1, <1>2, <1>6, <2>5 DEF adding, AopLooks
    <3>2. aop'.state = "CHECK_INDEX" /\ aop'.bufferValid
      BY <1>5, <2>5 DEF q, v
    <3>. QED BY <1>1, <1>2, <1>3, <1>5, <2>1, <2>2, <2>3, <3>1, <3>2
             DEF AtWork, AopAt, AopAdds, AopReplaces, AopAllocs, AopLooks
  <2>. QED BY <2>4, <2>5
<1>10. aop'.wr # <<>> => aop'.bufferValid /\ aop'.wraddr = aop'.index
  BY <1>5, <1>4 DEF AopInv, Stored, index
<1>11. Stored'
  BY <1>1, <1>3, <1>5, <1>7, <1>10 DEF q, AopInv, Stored
<1>12. WrittenSoFar'
  BY <1>5 DEF q, WrittenSoFar, WbWritten, AopAt
<1>13. Linked'
  BY <1>1, <1>3, <1>5 DEF q, AopInv, Linked, AopAt, AopAllocs, AopLooks
<1>. QED BY <1>8, <1>9, <1>11, <1>12, <1>13 DEF AopInv

\* CheckIndex finds room, or takes over the list that is in memory.
LEMMA CheckIndexKeeps ==
  ASSUME AopInv, CheckIndex
  PROVE  AopInv'
<1>1. /\ aop.state = "CHECK_INDEX" /\ aop \in AopRegisters
      /\ UNCHANGED <<aopPending, aopMemory, aopJob, aopHist>>
      /\ headOf \in NodeOr /\ tailOf \in NodeOr
  BY DEF CheckIndex, AopAt, AopInv, AopTypes, AopRegisters, CardQueues, headOf, tailOf
<1>2. /\ aop.cardIndex = lastAsked /\ aop.card = aop.cardIndex /\ aop.lastValid /\ aop.bufferValid
      /\ index = aop.index /\ buffer = aop.buffer /\ aop.index \in Int
  BY <1>1 DEF AopInv, AtWork, AopAdds, index, buffer, AopRegisters
<1>3. /\ cardQueue' = cardQueue /\ nodeWords' = nodeWords /\ freeNodes' = freeNodes
      /\ start' = start /\ lastAsked' = lastAsked /\ kept' = kept /\ filled' = filled
      /\ aopJob' = aopJob /\ aopPending' = aopPending
  BY <1>1 DEF aopMemory, aopHist
<1>4. /\ aop' \in AopRegisters
      /\ aop'.card = aop.card /\ aop'.cardIndex = aop.cardIndex
      /\ aop'.lastValid = aop.lastValid /\ aop'.last = aop.last
      /\ aop'.bufferValid = aop.bufferValid /\ aop'.index = aop.index /\ aop'.buffer = aop.buffer
      /\ aop'.node = aop.node /\ aop'.newTop = aop.newTop
      /\ aop'.wr = aop.wr /\ aop'.wraddr = aop.wraddr
      /\ headOf' = headOf /\ tailOf' = tailOf
      /\ aop'.state = IF aop.index # 0 THEN "ENQUEUE_RES" ELSE "LINK_OLD_BUFFER"
      /\ aop.index = 0 => aop'.listValid
  <2>1. CASE aop.index # 0
    <3>1. aop' = [aop EXCEPT !.state = "ENQUEUE_RES"]
      BY <1>1, <2>1 DEF CheckIndex
    <3>. QED BY <1>1, <1>3, <2>1, <3>1
             DEF AopRegisters, AopStates, AopAdds, headOf, tailOf
  <2>2. CASE aop.index = 0 /\ aop.listValid
    <3>1. aop' = [aop EXCEPT !.state = "LINK_OLD_BUFFER"]
      BY <1>1, <2>2 DEF CheckIndex
    <3>. QED BY <1>1, <1>3, <2>2, <3>1
             DEF AopRegisters, AopStates, AopAdds, AopReplaces, headOf, tailOf
  <2>3. CASE aop.index = 0 /\ ~aop.listValid
    <3>1. aop' = [aop EXCEPT !.state = "LINK_OLD_BUFFER", !.listValid = TRUE,
                             !.head = headOf, !.tail = tailOf]
      BY <1>1, <2>3 DEF CheckIndex, headOf, tailOf
    <3>. QED BY <1>1, <1>3, <2>3, <3>1
             DEF AopRegisters, AopStates, AopAdds, AopReplaces, headOf, tailOf
  <2>. QED BY <2>1, <2>2, <2>3
<1>5. lastOf' = lastOf /\ index' = index /\ buffer' = buffer
  BY <1>3, <1>4 DEF lastOf, index, buffer
<1>6. adding' /\ adding
  BY <1>1, <1>4 DEF adding, AopAdds, AopReplaces
<1>7. stored' = stored
  BY <1>3, <1>6 DEF stored
<1>8. \A s : Word(s)' = Word(s)
  BY <1>3, <1>4, <1>5 DEF Word
<1>9. AopTypes'
  BY <1>1, <1>4, AopTypesKept DEF AopInv
<1>10. AtWork'
  BY <1>1, <1>2, <1>3, <1>4, <1>5, <1>6
     DEF AopInv, AtWork, AopAt, AopAdds, AopReplaces, AopAllocs, AopLooks
<1>11. aop'.state = "ENQUEUE_RES" => buffer \in Nodes
  <2>1. start.index \in Nat /\ Len(kept) \in Nat
    BY DEF AopInv, AopTypes, Starts
  <2>2. index = start.index - stored /\ stored = Len(kept) - 1 /\ stored >= 0
    BY <1>6, <2>1 DEF AopInv, Stored, AtWork, stored
  <2>3. Len(kept) <= start.index + 1
    BY DEF AopInv, AtWork
  <2>4. aop'.state = "ENQUEUE_RES" => index # 0
    BY <1>2, <1>4
  <2>5. index # 0 => start.index > 0
    BY <2>1, <2>2, <2>3
  <2>. QED BY <2>4, <2>5 DEF AopInv, Stored
<1>12. Stored'
  BY <1>1, <1>3, <1>4, <1>5, <1>7, <1>8, <1>11 DEF AopInv, Stored
<1>13. WrittenSoFar'
  BY <1>4 DEF WrittenSoFar, WbWritten, AopAt
<1>14. Linked'
  BY <1>1, <1>3, <1>4, <1>5 DEF AopInv, Linked, AopAt, AopAllocs, AopLooks
<1>. QED BY <1>9, <1>10, <1>12, <1>13, <1>14 DEF AopInv

\* AopFull: a buffer is replaced only when the cards fill all that the JVM left.
LEMMA AopFull ==
  ASSUME AopInv, aop.state \in AopReplaces
  PROVE  /\ aop.listValid /\ aop.bufferValid /\ aop.lastValid /\ adding
         /\ index = 0 /\ aop.index = 0 /\ buffer = aop.buffer
         /\ headOf = aop.head /\ tailOf = aop.tail
         /\ Len(kept) = start.index + 1
         /\ ~(aopJob.phase = "over" /\ ~aopPending)
         /\ aop.state \notin AopLooks
<1>1. aop.listValid /\ aop.bufferValid /\ aop.lastValid /\ index = 0
  BY DEF AopInv, AtWork, AopAdds
<1>2. adding
  BY DEF adding, AopAdds
<1>3. index = start.index - stored /\ stored = Len(kept) - 1
  BY <1>2 DEF AopInv, Stored, stored
<1>4. start.index \in Nat /\ Len(kept) \in Nat
  BY DEF AopInv, AopTypes, Starts
<1>5. Len(kept) = start.index + 1
  BY <1>1, <1>3, <1>4
<1>6. aop.index = 0 /\ buffer = aop.buffer /\ headOf = aop.head /\ tailOf = aop.tail
  BY <1>1 DEF index, buffer, headOf, tailOf
<1>7. ~(aopJob.phase = "over" /\ ~aopPending) /\ aop.state \notin AopLooks
  BY DEF AopInv, AtWork, AopAt, AopReplaces, AopAllocs, AopLooks
<1>. QED BY <1>1, <1>2, <1>5, <1>6, <1>7

\* LinkOldBuffer puts the full buffer, if there is one, on its way into the list.
LEMMA LinkOldBufferKeeps ==
  ASSUME AopInv, LinkOldBuffer
  PROVE  AopInv'
<1>1. /\ aop.state = "LINK_OLD_BUFFER" /\ aop \in AopRegisters /\ aop.state \in AopReplaces
      /\ filled = {}
  BY DEF LinkOldBuffer, AopAt, AopInv, AopTypes, AopReplaces, Linked
<1>2. /\ aop.listValid /\ aop.bufferValid /\ aop.lastValid /\ adding
      /\ index = 0 /\ aop.index = 0 /\ buffer = aop.buffer
      /\ headOf = aop.head /\ tailOf = aop.tail
      /\ Len(kept) = start.index + 1
      /\ ~(aopJob.phase = "over" /\ ~aopPending)
  BY <1>1, AopFull
<1>3. /\ cardQueue' = cardQueue /\ nodeWords' = nodeWords /\ freeNodes' = freeNodes
      /\ start' = start /\ lastAsked' = lastAsked /\ kept' = kept
      /\ aopJob' = aopJob /\ aopPending' = aopPending
  BY DEF LinkOldBuffer, aopMemory
<1>4. /\ aop' \in AopRegisters
      /\ aop'.card = aop.card /\ aop'.cardIndex = aop.cardIndex
      /\ aop'.lastValid = aop.lastValid /\ aop'.last = aop.last
      /\ aop'.bufferValid = aop.bufferValid /\ aop'.index = aop.index /\ aop'.buffer = aop.buffer
      /\ aop'.listValid = aop.listValid /\ aop'.head = aop.head
      /\ aop'.wr = aop.wr /\ aop'.wraddr = aop.wraddr
      /\ IF buffer = NoNode
         THEN aop'.state = "ALLOC_READ_FREE_LIST" /\ aop'.tail = aop.tail /\ filled' = {}
         ELSE /\ aop'.state = "WRITE_OLD_NODE" /\ aop'.node = buffer /\ filled' = {buffer}
              /\ aop'.tail = IF aop.tail = NoNode THEN buffer ELSE aop.tail
  <2>1. CASE aop.buffer = NoNode
    <3>1. aop' = [aop EXCEPT !.state = "ALLOC_READ_FREE_LIST"] /\ filled' = filled
      BY <2>1 DEF LinkOldBuffer, AopGoto
    <3>. QED BY <1>1, <1>2, <2>1, <3>1
             DEF AopRegisters, AopStates, AopAdds, AopReplaces, AopAllocs
  <2>2. CASE aop.buffer # NoNode
    <3>1. /\ aop' = [aop EXCEPT !.state = "WRITE_OLD_NODE", !.node = aop.buffer,
                                !.tail = IF aop.tail = NoNode THEN aop.buffer ELSE aop.tail]
          /\ filled' = filled \cup {aop.buffer}
      BY <2>2 DEF LinkOldBuffer
    <3>. QED BY <1>1, <1>2, <2>2, <3>1
             DEF AopRegisters, AopStates, AopAdds, AopReplaces, AopAllocs
  <2>. QED BY <2>1, <2>2
<1>5. lastOf' = lastOf /\ index' = index /\ buffer' = buffer /\ headOf' = headOf
  BY <1>3, <1>4 DEF lastOf, index, buffer, headOf
<1>6. tailOf' = IF buffer = NoNode \/ aop.tail # NoNode THEN tailOf ELSE buffer
  BY <1>2, <1>4 DEF tailOf
<1>7. adding' /\ aop'.state \in AopAllocs
  BY <1>4 DEF adding, AopAdds, AopReplaces, AopAllocs
<1>8. stored' = stored
  BY <1>2, <1>3, <1>7 DEF stored
<1>9. buffer \in NodeOr
  BY <1>1, <1>2 DEF AopRegisters
<1>10. AopTypes'
  <2>1. filled' \in SUBSET Nodes
    BY <1>4, <1>9 DEF NodeOr
  <2>. QED BY <1>3, <1>4, <2>1 DEF AopInv, AopTypes
<1>11. AtWork'
  BY <1>1, <1>2, <1>3, <1>4, <1>5, <1>7
     DEF AopInv, AtWork, AopAt, AopAdds, AopReplaces, AopAllocs, AopLooks
<1>12. Stored'
  <2>1. ~(Len(kept)' <= start'.index)
    BY <1>2, <1>3 DEF AopInv, AopTypes, Starts
  <2>. QED BY <1>1, <1>3, <1>4, <1>5, <1>7, <1>8, <2>1 DEF AopInv, Stored, AopAllocs
<1>13. WrittenSoFar'
  BY <1>7 DEF WrittenSoFar, WbWritten, AopAt, AopAllocs
<1>14. Linked'
  <2>1. /\ headOf = start.list /\ tailOf = start.list
        /\ freeNodes # NoNode => freeNodes # start.list /\ freeNodes # buffer
        /\ buffer # NoNode => buffer # start.list
        /\ \A n \in Nodes : nodeWords[n][-1] = NoNode
    BY <1>1, <1>2 DEF AopInv, Linked
  <2>2. CASE buffer = NoNode
    BY <1>2, <1>3, <1>4, <1>5, <1>6, <2>1, <2>2 DEF Linked, AopAt, AopAllocs, AopLooks
  <2>3. CASE buffer # NoNode
    BY <1>2, <1>3, <1>4, <1>5, <1>6, <2>1, <2>3 DEF Linked, AopAt, AopAllocs, AopLooks
  <2>. QED BY <2>2, <2>3
<1>. QED BY <1>10, <1>11, <1>12, <1>13, <1>14 DEF AopInv

\* WriteOldNode links the full buffer to the list the JVM had.
LEMMA WriteOldNodeKeeps ==
  ASSUME AopInv, WriteOldNode
  PROVE  AopInv'
<1>1. /\ aop.state = "WRITE_OLD_NODE" /\ aop \in AopRegisters /\ aop.state \in AopReplaces
      /\ filled # {}
  BY DEF WriteOldNode, AopAt, AopInv, AopTypes, AopReplaces, AopAllocs, Linked
<1>2. /\ aop.listValid /\ aop.bufferValid /\ aop.lastValid /\ adding
      /\ index = 0 /\ aop.index = 0 /\ buffer = aop.buffer
      /\ headOf = aop.head /\ tailOf = aop.tail
      /\ Len(kept) = start.index + 1
      /\ ~(aopJob.phase = "over" /\ ~aopPending)
  BY <1>1, AopFull
<1>3. /\ cardQueue' = cardQueue /\ freeNodes' = freeNodes
      /\ start' = start /\ lastAsked' = lastAsked /\ kept' = kept /\ filled' = filled
      /\ aopJob' = aopJob /\ aopPending' = aopPending
  BY DEF WriteOldNode, aopHist
<1>4. PICK old \in filled : filled = {old} /\ aop.node = old /\ headOf = start.list
  BY <1>1 DEF AopInv, Linked, AopAt
<1>5. old \in Nodes /\ start.list \in NodeOr
  BY DEF AopInv, AopTypes, Starts
<1>6. nodeWords' = [nodeWords EXCEPT ![old] = [nodeWords[old] EXCEPT ![-1] = start.list]]
  BY <1>2, <1>4 DEF WriteOldNode
<1>7. nodeWords' \in [Nodes -> [WordSlots -> NodeOr \cup CardOr]]
  <2>1. nodeWords \in [Nodes -> [WordSlots -> NodeOr \cup CardOr]]
    BY DEF AopInv, AopTypes
  <2>2. nodeWords[old] \in [WordSlots -> NodeOr \cup CardOr]
    BY <1>5, <2>1
  <2>3. [nodeWords[old] EXCEPT ![-1] = start.list] \in [WordSlots -> NodeOr \cup CardOr]
    BY <1>5, <2>2
  <2>. QED BY <1>5, <1>6, <2>1, <2>3
<1>8. /\ nodeWords'[old][-1] = start.list
      /\ \A n \in Nodes : n # old => nodeWords'[n] = nodeWords[n]
  <2>1. nodeWords \in [Nodes -> [WordSlots -> NodeOr \cup CardOr]] /\ -1 \in WordSlots
    BY AopAssumption DEF AopInv, AopTypes, WordSlots
  <2>. QED BY <1>5, <1>6, <2>1
<1>9. /\ aop' \in AopRegisters
      /\ aop'.card = aop.card /\ aop'.cardIndex = aop.cardIndex
      /\ aop'.lastValid = aop.lastValid /\ aop'.last = aop.last
      /\ aop'.bufferValid = aop.bufferValid /\ aop'.index = aop.index /\ aop'.buffer = aop.buffer
      /\ aop'.listValid = aop.listValid /\ aop'.head = old /\ aop'.tail = aop.tail
      /\ aop'.wr = aop.wr /\ aop'.wraddr = aop.wraddr
      /\ aop'.state = "ALLOC_READ_FREE_LIST"
  <2>1. aop' = [aop EXCEPT !.state = "ALLOC_READ_FREE_LIST", !.head = old]
    BY <1>4 DEF WriteOldNode
  <2>. QED BY <1>1, <1>5, <2>1
           DEF AopRegisters, AopStates, AopAdds, AopReplaces, AopAllocs, NodeOr
<1>10. /\ lastOf' = lastOf /\ index' = index /\ buffer' = buffer
       /\ headOf' = old /\ tailOf' = tailOf
  BY <1>2, <1>3, <1>9 DEF lastOf, index, buffer, headOf, tailOf
<1>11. adding'
  BY <1>9 DEF adding, AopAdds, AopReplaces, AopAllocs
<1>12. stored' = stored
  BY <1>2, <1>3, <1>11 DEF stored
<1>13. AopTypes'
  BY <1>3, <1>7, <1>9 DEF AopInv, AopTypes
<1>14. AtWork'
  BY <1>1, <1>2, <1>3, <1>9, <1>10, <1>11
     DEF AopInv, AtWork, AopAt, AopAdds, AopReplaces, AopAllocs, AopLooks
<1>15. Stored'
  <2>1. ~(Len(kept)' <= start'.index)
    BY <1>2, <1>3 DEF AopInv, AopTypes, Starts
  <2>. QED BY <1>1, <1>3, <1>9, <1>10, <1>12, <2>1 DEF AopInv, Stored
<1>16. WrittenSoFar'
  BY <1>9 DEF WrittenSoFar, WbWritten, AopAt
<1>17. Linked'
  BY <1>1, <1>2, <1>3, <1>4, <1>8, <1>9, <1>10 DEF AopInv, Linked, AopAt, AopAllocs, AopLooks
<1>. QED BY <1>13, <1>14, <1>15, <1>16, <1>17 DEF AopInv

\* AllocReadFreeList: the free list has one node at most.
LEMMA AllocReadFreeListKeeps ==
  ASSUME AopInv, AllocReadFreeList
  PROVE  AopInv'
<1>1. /\ aop.state = "ALLOC_READ_FREE_LIST" /\ aop \in AopRegisters /\ aop.state \in AopReplaces
      /\ UNCHANGED <<aopPending, aopMemory, aopJob, aopHist>>
  BY DEF AllocReadFreeList, AopAt, AopInv, AopTypes, AopReplaces, AopAllocs
<1>2. /\ aop.listValid /\ aop.bufferValid /\ aop.lastValid /\ adding
      /\ index = 0 /\ aop.index = 0 /\ buffer = aop.buffer
      /\ headOf = aop.head /\ tailOf = aop.tail
      /\ Len(kept) = start.index + 1
      /\ ~(aopJob.phase = "over" /\ ~aopPending)
  BY <1>1, AopFull
<1>3. /\ cardQueue' = cardQueue /\ nodeWords' = nodeWords /\ freeNodes' = freeNodes
      /\ start' = start /\ lastAsked' = lastAsked /\ kept' = kept /\ filled' = filled
      /\ aopJob' = aopJob /\ aopPending' = aopPending
  BY <1>1 DEF aopMemory, aopHist
<1>4. freeNodes \in NodeOr /\ (freeNodes # NoNode => nodeWords[freeNodes][-1] = NoNode)
  BY <1>2 DEF AopInv, AopTypes, Linked, NodeOr
<1>5. aop' = [aop EXCEPT !.state = "ALLOC_WRITE_FREE_TOP", !.node = freeNodes, !.newTop = NoNode]
  BY <1>4 DEF AllocReadFreeList
<1>6. /\ aop' \in AopRegisters
      /\ aop'.card = aop.card /\ aop'.cardIndex = aop.cardIndex
      /\ aop'.lastValid = aop.lastValid /\ aop'.last = aop.last
      /\ aop'.bufferValid = aop.bufferValid /\ aop'.index = aop.index /\ aop'.buffer = aop.buffer
      /\ aop'.listValid = aop.listValid /\ aop'.head = aop.head /\ aop'.tail = aop.tail
      /\ aop'.node = freeNodes /\ aop'.newTop = NoNode
      /\ aop'.wr = aop.wr /\ aop'.wraddr = aop.wraddr
      /\ aop'.state = "ALLOC_WRITE_FREE_TOP"
  BY <1>1, <1>4, <1>5 DEF AopRegisters, AopStates, AopAdds, AopReplaces, AopAllocs, NodeOr
<1>7. /\ lastOf' = lastOf /\ index' = index /\ buffer' = buffer
      /\ headOf' = headOf /\ tailOf' = tailOf
  BY <1>3, <1>6 DEF lastOf, index, buffer, headOf, tailOf
<1>8. adding'
  BY <1>6 DEF adding, AopAdds, AopReplaces, AopAllocs
<1>9. stored' = stored
  BY <1>2, <1>3, <1>8 DEF stored
<1>10. AopTypes'
  BY <1>1, <1>6, AopTypesKept DEF AopInv
<1>11. AtWork'
  BY <1>1, <1>2, <1>3, <1>6, <1>7, <1>8
     DEF AopInv, AtWork, AopAt, AopAdds, AopReplaces, AopAllocs, AopLooks
<1>12. Stored'
  <2>1. ~(Len(kept)' <= start'.index)
    BY <1>2, <1>3 DEF AopInv, AopTypes, Starts
  <2>. QED BY <1>1, <1>3, <1>6, <1>7, <1>9, <2>1 DEF AopInv, Stored
<1>13. WrittenSoFar'
  BY <1>6 DEF WrittenSoFar, WbWritten, AopAt
<1>14. Linked'
  BY <1>1, <1>2, <1>3, <1>6, <1>7 DEF AopInv, Linked, AopAt, AopAllocs, AopLooks
<1>. QED BY <1>10, <1>11, <1>12, <1>13, <1>14 DEF AopInv

\* AllocWriteFreeTop takes the free node into use, or waits for one for ever.
LEMMA AllocWriteFreeTopKeeps ==
  ASSUME AopInv, AllocWriteFreeTop
  PROVE  AopInv'
<1>1. /\ aop.state = "ALLOC_WRITE_FREE_TOP" /\ aop \in AopRegisters /\ aop.state \in AopReplaces
  BY DEF AllocWriteFreeTop, AopAt, AopInv, AopTypes, AopReplaces, AopAllocs
<1>2. /\ aop.listValid /\ aop.bufferValid /\ aop.lastValid /\ adding
      /\ index = 0 /\ aop.index = 0 /\ buffer = aop.buffer
      /\ headOf = aop.head /\ tailOf = aop.tail
      /\ Len(kept) = start.index + 1
      /\ ~(aopJob.phase = "over" /\ ~aopPending)
  BY <1>1, AopFull
<1>3. aop.node = freeNodes /\ aop.newTop = NoNode
  BY <1>1 DEF AopInv, Linked, AopAt
<1>4. /\ cardQueue' = cardQueue /\ nodeWords' = nodeWords /\ freeNodes' = NoNode
      /\ start' = start /\ lastAsked' = lastAsked /\ kept' = kept /\ filled' = filled
      /\ aopJob' = aopJob /\ aopPending' = aopPending
  BY <1>3 DEF AllocWriteFreeTop, aopHist
<1>5. freeNodes \in NodeOr /\ buffer \in NodeOr
  BY <1>1, <1>2 DEF AopInv, AopTypes, AopRegisters
<1>6. /\ aop' \in AopRegisters
      /\ aop'.card = aop.card /\ aop'.cardIndex = aop.cardIndex
      /\ aop'.lastValid = aop.lastValid /\ aop'.last = aop.last
      /\ aop'.bufferValid = aop.bufferValid /\ aop'.index = aop.index
      /\ aop'.listValid = aop.listValid /\ aop'.head = aop.head /\ aop'.tail = aop.tail
      /\ aop'.wr = aop.wr /\ aop'.wraddr = aop.wraddr
      /\ IF freeNodes = NoNode
         THEN aop'.state = "ALLOC_SLOW_RETRY" /\ aop'.buffer = buffer
         ELSE aop'.state = "READ_NODE_CAPACITY" /\ aop'.buffer = freeNodes
  <2>1. CASE freeNodes = NoNode
    <3>1. aop' = [aop EXCEPT !.state = "ALLOC_SLOW_RETRY"]
      BY <1>3, <2>1 DEF AllocWriteFreeTop
    <3>. QED BY <1>1, <1>2, <2>1, <3>1
             DEF AopRegisters, AopStates, AopAdds, AopReplaces, AopAllocs
  <2>2. CASE freeNodes # NoNode
    <3>1. aop' = [aop EXCEPT !.state = "READ_NODE_CAPACITY", !.buffer = freeNodes]
      BY <1>3, <2>2 DEF AllocWriteFreeTop
    <3>. QED BY <1>1, <1>5, <2>2, <3>1
             DEF AopRegisters, AopStates, AopAdds, AopReplaces, AopAllocs
  <2>. QED BY <2>1, <2>2
<1>7. /\ lastOf' = lastOf /\ index' = index /\ headOf' = headOf /\ tailOf' = tailOf
      /\ buffer' = IF freeNodes = NoNode THEN buffer ELSE freeNodes
  BY <1>2, <1>4, <1>6 DEF lastOf, index, buffer, headOf, tailOf
<1>8. adding'
  BY <1>6 DEF adding, AopAdds, AopReplaces, AopAllocs
<1>9. stored' = stored
  BY <1>2, <1>4, <1>8 DEF stored
<1>10. AopTypes'
  BY <1>4, <1>6 DEF AopInv, AopTypes, NodeOr
<1>11. AtWork'
  BY <1>1, <1>2, <1>4, <1>6, <1>7, <1>8
     DEF AopInv, AtWork, AopAt, AopAdds, AopReplaces, AopAllocs, AopLooks
<1>12. Stored'
  <2>1. ~(Len(kept)' <= start'.index)
    BY <1>2, <1>4 DEF AopInv, AopTypes, Starts
  <2>2. freeNodes # NoNode => freeNodes \in Nodes
    BY <1>5 DEF NodeOr
  <2>3. index' = start'.index - stored'
    BY <1>4, <1>7, <1>9 DEF AopInv, Stored
  <2>4. aop'.wr # <<>> => aop'.bufferValid /\ aop'.wraddr = aop'.index
    BY <1>2, <1>6 DEF AopInv, Stored
  <2>5. start'.index > 0 \/ aop'.wr # <<>> \/ aop'.state \in {"READ_NODE_CAPACITY",
          "ENQUEUE_RES"} =>
          buffer' \in Nodes
    BY <1>1, <1>4, <1>6, <1>7, <2>2 DEF AopInv, Stored
  <2>. QED BY <2>1, <2>3, <2>4, <2>5 DEF Stored
<1>13. WrittenSoFar'
  BY <1>6 DEF WrittenSoFar, WbWritten, AopAt
<1>14. Linked'
  <2>1. CASE freeNodes = NoNode
    BY <1>1, <1>2, <1>4, <1>6, <1>7, <2>1 DEF AopInv, Linked, AopAt, AopAllocs, AopLooks
  <2>2. CASE freeNodes # NoNode
    <3>1. aop'.state = "READ_NODE_CAPACITY" /\ buffer' = freeNodes
      BY <1>6, <1>7, <2>2
    <3>2. \A old \in filled' :
            /\ filled' = {old} /\ old # start'.list /\ old # freeNodes'
            /\ tailOf' = (IF start'.list = NoNode THEN old ELSE start'.list)
            /\ headOf' = old /\ nodeWords'[old][-1] = start'.list
            /\ buffer' # old
      <4>1. SUFFICES ASSUME NEW old \in filled
                     PROVE  /\ filled = {old} /\ old # start.list /\ old # NoNode
                            /\ tailOf = (IF start.list = NoNode THEN old ELSE start.list)
                            /\ headOf = old /\ nodeWords[old][-1] = start.list
                            /\ freeNodes # old
        BY <1>4, <1>7, <3>1
      <4>2. old # NoNode
        BY AopAssumption DEF AopInv, AopTypes
      <4>. QED BY <1>1, <4>2 DEF AopInv, Linked, AopAt
    <3>3. freeNodes # start.list
      BY <2>2 DEF AopInv, Linked
    <3>4. (filled = {} => headOf = start.list /\ tailOf = start.list)
          /\ (filled # {} => Len(kept) = start.index + 1)
          /\ \A n \in Nodes \ filled : nodeWords[n][-1] = NoNode
      BY <1>2 DEF AopInv, Linked
    <3>. QED BY <1>4, <1>7, <3>1, <3>2, <3>3, <3>4 DEF Linked, AopAt, AopAllocs, AopLooks
  <2>. QED BY <2>1, <2>2
<1>. QED BY <1>10, <1>11, <1>12, <1>13, <1>14 DEF AopInv

\* ReadNodeCapacity loses the card, whose register takes the capacity.
LEMMA ReadNodeCapacityKeeps ==
  ASSUME AopInv, ReadNodeCapacity
  PROVE  AopInv'
<1>1. /\ aop.state = "READ_NODE_CAPACITY" /\ aop \in AopRegisters /\ aop.state \in AopReplaces
      /\ UNCHANGED <<aopPending, aopMemory, aopJob, aopHist>>
      /\ aop' = [aop EXCEPT !.state = "ENQUEUE_RES", !.card = NoCard]
  BY DEF ReadNodeCapacity, AopAt, AopInv, AopTypes, AopReplaces
<1>2. /\ aop.listValid /\ aop.bufferValid /\ aop.lastValid /\ adding
      /\ index = 0 /\ aop.index = 0 /\ buffer = aop.buffer
      /\ headOf = aop.head /\ tailOf = aop.tail
      /\ Len(kept) = start.index + 1
      /\ ~(aopJob.phase = "over" /\ ~aopPending)
  BY <1>1, AopFull
<1>3. /\ cardQueue' = cardQueue /\ nodeWords' = nodeWords /\ freeNodes' = freeNodes
      /\ start' = start /\ lastAsked' = lastAsked /\ kept' = kept /\ filled' = filled
      /\ aopJob' = aopJob /\ aopPending' = aopPending
  BY <1>1 DEF aopMemory, aopHist
<1>4. /\ aop' \in AopRegisters
      /\ aop'.cardIndex = aop.cardIndex
      /\ aop'.lastValid = aop.lastValid /\ aop'.last = aop.last
      /\ aop'.bufferValid = aop.bufferValid /\ aop'.index = aop.index /\ aop'.buffer = aop.buffer
      /\ aop'.listValid = aop.listValid /\ aop'.head = aop.head /\ aop'.tail = aop.tail
      /\ aop'.wr = aop.wr /\ aop'.wraddr = aop.wraddr
      /\ aop'.state = "ENQUEUE_RES"
  BY <1>1 DEF AopRegisters, AopStates, AopAdds, CardOr
<1>5. /\ lastOf' = lastOf /\ index' = index /\ buffer' = buffer
      /\ headOf' = headOf /\ tailOf' = tailOf
  BY <1>3, <1>4 DEF lastOf, index, buffer, headOf, tailOf
<1>6. adding'
  BY <1>4 DEF adding, AopAdds
<1>7. stored' = stored
  BY <1>2, <1>3, <1>6 DEF stored
<1>8. ~(Len(kept)' <= start'.index)
  BY <1>2, <1>3 DEF AopInv, AopTypes, Starts
<1>9. AopTypes'
  BY <1>1, <1>4, AopTypesKept DEF AopInv
<1>10. AtWork'
  BY <1>1, <1>2, <1>3, <1>4, <1>5, <1>6, <1>8
     DEF AopInv, AtWork, AopAt, AopAdds, AopReplaces, AopAllocs, AopLooks
<1>11. Stored'
  BY <1>1, <1>3, <1>4, <1>5, <1>7, <1>8 DEF AopInv, Stored
<1>12. WrittenSoFar'
  BY <1>4 DEF WrittenSoFar, WbWritten, AopAt
<1>13. Linked'
  BY <1>1, <1>2, <1>3, <1>4, <1>5 DEF AopInv, Linked, AopAt, AopAllocs, AopLooks
<1>. QED BY <1>9, <1>10, <1>11, <1>12, <1>13 DEF AopInv

NodeMemory == [Nodes -> [WordSlots -> NodeOr \cup CardOr]]

\* WordsWritten: what a write of gathered words leaves in memory.
LEMMA WordsWritten ==
  ASSUME nodeWords \in NodeMemory, NEW b \in Nodes, NEW i \in Int, NEW w \in Seq(CardOr),
         WriteWords(b, i, w)
  PROVE  /\ nodeWords' \in NodeMemory
         /\ \A n \in Nodes \ {b} : nodeWords'[n] = nodeWords[n]
         /\ \A t \in WordSlots :
              nodeWords'[b][t] = IF t \in i .. i + Len(w) - 1 THEN w[Len(w) - (t - i)]
                                 ELSE nodeWords[b][t]
<1>. DEFINE f == [t \in WordSlots |-> IF t \in i .. i + Len(w) - 1 THEN w[Len(w) - (t - i)]
                                      ELSE nodeWords[b][t]]
<1>1. nodeWords' = [nodeWords EXCEPT ![b] = f]
  BY DEF WriteWords
<1>2. nodeWords[b] \in [WordSlots -> NodeOr \cup CardOr]
  BY DEF NodeMemory
<1>3. \A t \in WordSlots : f[t] \in NodeOr \cup CardOr
  <2>1. SUFFICES ASSUME NEW t \in WordSlots
                 PROVE  f[t] \in NodeOr \cup CardOr
    OBVIOUS
  <2>2. t \in Int
    BY AopAssumption DEF WordSlots
  <2>3. CASE t \in i .. i + Len(w) - 1
    <3>1. Len(w) - (t - i) \in 1 .. Len(w)
      BY <2>2, <2>3
    <3>2. w[Len(w) - (t - i)] \in CardOr
      BY <3>1
    <3>. QED BY <2>3, <3>2
  <2>4. CASE t \notin i .. i + Len(w) - 1
    BY <1>2, <2>4
  <2>. QED BY <2>3, <2>4
<1>4. f \in [WordSlots -> NodeOr \cup CardOr]
  BY <1>3
<1>5. \A t \in WordSlots :
        f[t] = IF t \in i .. i + Len(w) - 1 THEN w[Len(w) - (t - i)] ELSE nodeWords[b][t]
  OBVIOUS
<1>. HIDE DEF f
<1>6. nodeWords'[b] = f /\ (\A n \in Nodes \ {b} : nodeWords'[n] = nodeWords[n])
  BY <1>1 DEF NodeMemory
<1>7. nodeWords' \in NodeMemory
  BY <1>1, <1>4 DEF NodeMemory
<1>. QED BY <1>5, <1>6, <1>7

\* AppendKeeps: an appended sequence has the new element last.
LEMMA CardAppended ==
  ASSUME NEW w \in Seq(CardOr), NEW c \in CardOr
  PROVE  /\ Append(w, c) \in Seq(CardOr) /\ Len(Append(w, c)) = Len(w) + 1
         /\ Append(w, c)[Len(w) + 1] = c
         /\ \A k \in 1 .. Len(w) : Append(w, c)[k] = w[k]
  OBVIOUS

\* OneLower: an interval that grows by one at its lower end.
LEMMA OneLower ==
  ASSUME NEW t \in Int, NEW i \in Int, NEW n \in Nat, t >= i, t # i
  PROVE  /\ t \in i .. i + (n + 1) - 1 <=> t \in (i + 1) .. (i + 1) + n - 1
         /\ t \in i .. i + (n + 1) - 1 =>
              /\ (n + 1) - (t - i) = n - (t - (i + 1))
              /\ (n + 1) - (t - i) \in 1 .. n
  OBVIOUS

\* Enqueue gathers the card, and writes what is gathered at the end of a line.
LEMMA EnqueueKeeps ==
  ASSUME AopInv, Enqueue
  PROVE  AopInv'
<1>. DEFINE i == aop.index - 1
            w == Append(aop.wr, aop.card)
            flushed == (i + LineOffset[aop.buffer]) % LineWords = 0
<1>1. /\ aop.state = "ENQUEUE_RES" /\ aop \in AopRegisters /\ nodeWords \in NodeMemory
      /\ kept \in Seq(Cards) /\ start \in Starts /\ Len(kept) \in Nat
           /\ start.index \in 0 .. Capacity
  BY DEF Enqueue, AopAt, AopInv, AopTypes, NodeMemory, Starts
<1>2. /\ aop.lastValid /\ aop.bufferValid /\ adding
      /\ buffer = aop.buffer /\ index = aop.index /\ buffer \in Nodes
      /\ aop.cardIndex = lastAsked /\ Len(kept) > 0 /\ kept[Len(kept)] = aop.cardIndex
      /\ stored = Len(kept) - 1 /\ index = start.index - stored
      /\ Len(kept) <= start.index + 1
      /\ Len(kept) <= start.index => aop.card = aop.cardIndex
      /\ ~(aopJob.phase = "over" /\ ~aopPending)
  BY <1>1 DEF AopInv, AtWork, Stored, adding, stored, AopAdds, buffer, index, AopAt
<1>3. /\ aop' = [aop EXCEPT !.state = "IDLE", !.last = aop.cardIndex, !.index = i,
                            !.wr = IF flushed THEN <<>> ELSE w,
                            !.wraddr = IF flushed THEN 0 ELSE i]
      /\ IF flushed THEN WriteWords(aop.buffer, i, w) ELSE UNCHANGED nodeWords
  BY DEF Enqueue
<1>4. i \in Int /\ aop.wr \in Seq(CardOr) /\ aop.card \in CardOr /\ aop.cardIndex \in CardOr
  BY <1>1 DEF AopRegisters
<1>5. w \in Seq(CardOr) /\ Len(w) = Len(aop.wr) + 1 /\ w[Len(aop.wr) + 1] = aop.card
      /\ \A k \in 1 .. Len(aop.wr) : w[k] = aop.wr[k]
  BY <1>4, CardAppended
<1>. HIDE DEF i, w, flushed
<1>6. /\ cardQueue' = cardQueue /\ freeNodes' = freeNodes
      /\ start' = start /\ lastAsked' = lastAsked /\ kept' = kept /\ filled' = filled
      /\ aopJob' = aopJob /\ aopPending' = aopPending
  BY DEF Enqueue, aopHist
<1>7. /\ aop' \in AopRegisters
      /\ aop'.state = "IDLE" /\ aop'.last = aop.cardIndex /\ aop'.index = i
      /\ aop'.wr = (IF flushed THEN <<>> ELSE w) /\ aop'.wraddr = (IF flushed THEN 0 ELSE i)
      /\ aop'.card = aop.card /\ aop'.cardIndex = aop.cardIndex
      /\ aop'.lastValid /\ aop'.bufferValid /\ aop'.buffer = aop.buffer
      /\ aop'.listValid = aop.listValid /\ aop'.head = aop.head /\ aop'.tail = aop.tail
      /\ aop'.node = aop.node /\ aop'.newTop = aop.newTop
  <2>1. "IDLE" \in AopStates
    BY DEF AopStates
  <2>2. (IF flushed THEN <<>> ELSE w) \in Seq(CardOr) /\ (IF flushed THEN 0 ELSE i) \in Int
    BY <1>4, <1>5
  <2>. QED BY <1>1, <1>2, <1>3, <1>4, <2>1, <2>2 DEF AopRegisters
<1>8. /\ lastOf' = aop.cardIndex /\ index' = i /\ buffer' = buffer
      /\ headOf' = headOf /\ tailOf' = tailOf
  BY <1>2, <1>6, <1>7 DEF lastOf, index, buffer, headOf, tailOf
<1>9. ~adding' /\ stored' = Len(kept)
  BY <1>6, <1>7 DEF adding, stored, AopAdds, AopReplaces, AopAllocs, AopLooks
<1>10. /\ nodeWords' \in NodeMemory
       /\ \A n \in Nodes \ {buffer} : nodeWords'[n] = nodeWords[n]
       /\ \A t \in WordSlots :
            nodeWords'[buffer][t] = IF flushed /\ t \in i .. i + Len(w) - 1
                                    THEN w[Len(w) - (t - i)] ELSE nodeWords[buffer][t]
  <2>1. CASE flushed
    <3>1. WriteWords(buffer, i, w)
      BY <1>2, <1>3, <2>1
    <3>2. /\ nodeWords' \in NodeMemory
          /\ \A n \in Nodes \ {buffer} : nodeWords'[n] = nodeWords[n]
          /\ \A t \in WordSlots :
               nodeWords'[buffer][t] = IF t \in i .. i + Len(w) - 1 THEN w[Len(w) - (t - i)]
                                       ELSE nodeWords[buffer][t]
      <4>1. nodeWords \in NodeMemory /\ buffer \in Nodes /\ i \in Int /\ w \in Seq(CardOr)
        BY <1>1, <1>2, <1>4, <1>5
      <4>. QED BY <3>1, <4>1, WordsWritten
    <3>. QED BY <2>1, <3>2
  <2>2. CASE ~flushed
    BY <1>1, <1>3, <2>2
  <2>. QED BY <2>1, <2>2
<1>11. i = start.index - Len(kept) /\ index = i + 1
  BY <1>1, <1>2, <1>4 DEF i
<1>12. \A t \in 0 .. Capacity - 1 :
         t >= i => Word(t)' = IF t = i THEN aop.card ELSE Word(t)
  <2>1. SUFFICES ASSUME NEW t \in 0 .. Capacity - 1, t >= i
                 PROVE  Word(t)' = IF t = i THEN aop.card ELSE Word(t)
    OBVIOUS
  <2>2. t \in Int /\ t \in WordSlots /\ Len(aop.wr) \in Nat
    BY <1>4, AopAssumption DEF WordSlots
  <2>3. Word(t)' = IF t \in i .. i + Len(w) - 1 THEN w[Len(w) - (t - i)] ELSE nodeWords[buffer][t]
    <3>1. CASE flushed
      <4>1. aop'.wr = <<>> /\ aop'.wraddr = 0
        BY <1>7, <3>1
      <4>2. t \notin aop'.wraddr .. aop'.wraddr + Len(aop'.wr) - 1
        BY <4>1
      <4>3. Word(t)' = nodeWords'[buffer][t]
        BY <1>8, <4>2 DEF Word
      <4>. QED BY <1>10, <2>2, <3>1, <4>3
    <3>2. CASE ~flushed
      <4>1. aop'.wr = w /\ aop'.wraddr = i
        BY <1>7, <3>2
      <4>. QED BY <1>8, <1>10, <2>2, <3>2, <4>1 DEF Word
    <3>. QED BY <3>1, <3>2
  <2>6. i \in Int /\ Len(w) = Len(aop.wr) + 1 /\ t >= i
    BY <1>4, <1>5, <2>1
  <2>4. CASE t = i
    <3>1. t \in i .. i + Len(w) - 1 /\ Len(w) - (t - i) = Len(aop.wr) + 1
      BY <1>4, <1>5, <2>2, <2>4
    <3>. QED BY <1>5, <2>3, <2>4, <3>1
  <2>5. CASE t # i
    <3>1. CASE aop.wr = <<>>
      <4>1. t \notin i .. i + Len(w) - 1
        BY <1>4, <1>5, <2>1, <2>2, <2>5, <3>1
      <4>2. t \notin aop.wraddr .. aop.wraddr + Len(aop.wr) - 1
        BY <1>1, <3>1 DEF AopRegisters
      <4>. QED BY <2>3, <2>5, <4>1, <4>2 DEF Word
    <3>2. CASE aop.wr # <<>>
      <4>1. aop.wraddr = i + 1
        BY <1>2, <1>11, <3>2 DEF AopInv, Stored
      <4>2. /\ t \in i .. i + Len(w) - 1 <=> t \in aop.wraddr .. aop.wraddr + Len(aop.wr) - 1
            /\ t \in i .. i + Len(w) - 1 =>
                 /\ Len(w) - (t - i) = Len(aop.wr) - (t - aop.wraddr)
                 /\ Len(w) - (t - i) \in 1 .. Len(aop.wr)
        <5>1. i + 1 = aop.wraddr /\ Len(aop.wr) + 1 = Len(w)
          BY <2>6, <4>1
        <5>. QED BY <2>2, <2>5, <2>6, <5>1, OneLower
      <4>3. CASE t \in i .. i + Len(w) - 1
        <5>1. w[Len(w) - (t - i)] = aop.wr[Len(aop.wr) - (t - aop.wraddr)]
          BY <1>5, <4>2, <4>3
        <5>. QED BY <2>3, <2>5, <4>2, <4>3, <5>1 DEF Word
      <4>4. CASE t \notin i .. i + Len(w) - 1
        BY <2>3, <2>5, <4>2, <4>4 DEF Word
      <4>. QED BY <4>3, <4>4
    <3>. QED BY <3>1, <3>2
  <2>. QED BY <2>4, <2>5
<1>13. AopTypes'
  BY <1>6, <1>7, <1>10 DEF AopInv, AopTypes, NodeMemory
<1>14. AtWork'
  BY <1>2, <1>6, <1>7, <1>8, <1>9
     DEF AopInv, AtWork, AopAt, AopAdds, AopReplaces, AopAllocs, AopLooks
<1>15. Stored'
  <2>1. ASSUME Len(kept) <= start.index, NEW k \in 1 .. Len(kept)
        PROVE  Word(start.index - k)' = kept[k]
    <3>1. start.index - k \in 0 .. Capacity - 1 /\ start.index - k >= i
      BY <1>1, <1>11, <2>1, AopAssumption
    <3>2. CASE k = Len(kept)
      BY <1>2, <1>6, <1>11, <1>12, <2>1, <3>1, <3>2
    <3>3. CASE k # Len(kept)
      <4>1. k \in 1 .. stored /\ start.index - k # i
        BY <1>1, <1>2, <1>11, <3>3
      <4>2. Word(start.index - k) = kept[k]
        BY <2>1, <4>1 DEF AopInv, Stored
      <4>. QED BY <1>6, <1>12, <3>1, <4>1, <4>2
    <3>. QED BY <3>2, <3>3
  <2>2. aop'.wr # <<>> => aop'.wraddr = aop'.index
    BY <1>7
  <2>. QED BY <1>2, <1>6, <1>7, <1>8, <1>9, <1>11, <2>1, <2>2 DEF Stored
<1>16. WrittenSoFar'
  BY <1>7 DEF WrittenSoFar, WbWritten, AopAt
<1>17. Linked'
  <2>1. \A old \in filled : old # buffer /\ old \in Nodes
    BY <1>1 DEF AopInv, AopTypes, Linked, AopAllocs
  <2>2. \A old \in filled : nodeWords'[old] = nodeWords[old]
    BY <1>10, <2>1
  <2>3. i >= 0 => \A n \in Nodes \ filled : nodeWords'[n][-1] = NoNode
    <3>1. SUFFICES ASSUME i >= 0, NEW n \in Nodes \ filled
                   PROVE  nodeWords'[n][-1] = NoNode
      OBVIOUS
    <3>2. nodeWords[n][-1] = NoNode
      BY <1>4, <1>11, <3>1 DEF AopInv, Linked
    <3>3. -1 \in WordSlots /\ -1 \notin i .. i + Len(w) - 1
      BY <1>4, <3>1, AopAssumption DEF WordSlots
    <3>. QED BY <1>10, <3>2, <3>3
  <2>. QED BY <1>1, <1>6, <1>7, <1>8, <2>1, <2>2, <2>3
           DEF AopInv, Linked, AopAt, AopAllocs, AopLooks
<1>. QED BY <1>13, <1>14, <1>15, <1>16, <1>17 DEF AopInv

\* AopCommand takes up a card that is not in the queue, or one that is its last.
LEMMA AopCommandKeeps ==
  ASSUME AopInv, NEW c \in Cards, AopCommand(c)
  PROVE  AopInv'
<1>1. /\ aop.state = "IDLE" /\ aop \in AopRegisters /\ aopJob.phase = "running"
      /\ kept \in Seq(Cards) /\ start \in Starts /\ Len(kept) \in Nat
           /\ start.index \in 0 .. Capacity
      /\ Len(kept) <= start.index
  BY DEF AopCommand, AopAt, AopInv, AopTypes, Starts
<1>2. ~adding /\ stored = Len(kept) /\ lastOf = lastAsked
  <2>1. ~adding
    BY <1>1 DEF adding, AopAdds, AopReplaces, AopAllocs, AopLooks
  <2>. QED BY <2>1 DEF stored, AopInv, AtWork
<1>3. filled = {}
  <2>1. Len(kept) # start.index + 1
    BY <1>1
  <2>. QED BY <2>1 DEF AopInv, Linked
<1>4. /\ cardQueue' = cardQueue /\ nodeWords' = nodeWords /\ freeNodes' = freeNodes
      /\ start' = start /\ lastAsked' = c /\ filled' = filled
      /\ kept' = IF c = lastAsked THEN kept ELSE Append(kept, c)
      /\ aopJob' = aopJob /\ aopPending' = aopPending
  BY DEF AopCommand, aopMemory
<1>5. /\ aop' \in AopRegisters
      /\ aop'.state = "CALC_CARD" /\ aop'.card = c /\ aop'.cardIndex = c
      /\ aop'.lastValid = aop.lastValid /\ aop'.last = aop.last
      /\ aop'.bufferValid = aop.bufferValid /\ aop'.index = aop.index /\ aop'.buffer = aop.buffer
      /\ aop'.listValid = aop.listValid /\ aop'.head = aop.head /\ aop'.tail = aop.tail
      /\ aop'.node = aop.node /\ aop'.newTop = aop.newTop
      /\ aop'.wr = aop.wr /\ aop'.wraddr = aop.wraddr
  <2>1. aop' = [aop EXCEPT !.state = "CALC_CARD", !.card = c, !.cardIndex = c]
    BY DEF AopCommand
  <2>. QED BY <1>1, <2>1 DEF AopRegisters, AopStates, AopLooks, CardOr
<1>6. /\ lastOf' = lastOf /\ index' = index /\ buffer' = buffer
      /\ headOf' = headOf /\ tailOf' = tailOf
  BY <1>4, <1>5 DEF lastOf, index, buffer, headOf, tailOf
<1>7. \A s : Word(s)' = Word(s)
  BY <1>4, <1>5, <1>6 DEF Word
<1>8. adding' <=> c # lastAsked
  BY <1>2, <1>5, <1>6 DEF adding, AopAdds, AopReplaces, AopAllocs, AopLooks
<1>9. /\ kept' \in Seq(Cards) /\ Len(kept') = Len(kept) + (IF c = lastAsked THEN 0 ELSE 1)
      /\ c # lastAsked => kept'[Len(kept')] = c
      /\ \A k \in 1 .. Len(kept) : kept'[k] = kept[k]
  <2>1. CASE c = lastAsked
    BY <1>1, <1>4, <2>1
  <2>2. CASE c # lastAsked
    BY <1>1, <1>4, <2>2
  <2>. QED BY <2>1, <2>2
<1>10. stored' = Len(kept)
  <2>1. stored' = IF adding' THEN Len(kept') - 1 ELSE Len(kept')
    BY DEF stored
  <2>2. CASE c = lastAsked
    BY <1>1, <1>8, <1>9, <2>1, <2>2
  <2>3. CASE c # lastAsked
    BY <1>1, <1>8, <1>9, <2>1, <2>3
  <2>. QED BY <2>2, <2>3
<1>11. AopTypes'
  BY <1>4, <1>5, <1>9 DEF AopInv, AopTypes, CardOr
<1>12. AtWork'
  <2>1. Len(kept') <= start.index + 1 /\ (c # lastAsked => Len(kept') > 0)
    BY <1>1, <1>9
  <2>2. aop'.state = "CALC_CARD" /\ ~(aopJob'.phase = "over" /\ ~aopPending')
    BY <1>1, <1>4, <1>5
  <2>. QED BY <1>2, <1>4, <1>5, <1>6, <1>8, <1>9, <2>1, <2>2
           DEF AtWork, AopAt, AopAdds, AopReplaces, AopAllocs, AopLooks
<1>13. Stored'
  <2>1. ASSUME NEW k \in 1 .. Len(kept)
        PROVE  Word(start.index - k)' = kept'[k]
    <3>1. Word(start.index - k) = kept[k]
      BY <1>1, <1>2, <2>1 DEF AopInv, Stored
    <3>. QED BY <1>4, <1>7, <1>9, <3>1
  <2>2. index = start.index - Len(kept)
    BY <1>2 DEF AopInv, Stored
  <2>. QED BY <1>1, <1>4, <1>5, <1>6, <1>10, <2>1, <2>2 DEF AopInv, Stored
<1>14. WrittenSoFar'
  BY <1>5 DEF WrittenSoFar, WbWritten, AopAt
<1>15. Linked'
  BY <1>1, <1>3, <1>4, <1>5, <1>6 DEF AopInv, Linked, AopAt, AopAllocs, AopLooks
<1>. QED BY <1>11, <1>12, <1>13, <1>14, <1>15 DEF AopInv

\* JobSteps: a job's end and the next one's start leave the machine alone.
LEMMA JobStepsKeep ==
  ASSUME AopInv, CardSourcesDone \/ NextJob
  PROVE  AopInv'
<1>1. /\ aop' = aop /\ cardQueue' = cardQueue /\ nodeWords' = nodeWords /\ freeNodes' = freeNodes
      /\ start' = start /\ lastAsked' = lastAsked /\ kept' = kept /\ filled' = filled
      /\ aopJob' \in AopJobs /\ aopPending' \in BOOLEAN
      /\ ~(aopJob'.phase = "over" /\ ~aopPending')
  <2>1. aopJob \in AopJobs /\ aopPending \in BOOLEAN
    BY DEF AopInv, AopTypes
  <2>2. CASE CardSourcesDone
    <3>1. aopJob' = [aopJob EXCEPT !.phase = "over"] /\ aopPending'
      BY <2>2 DEF CardSourcesDone
    <3>2. aopJob' \in AopJobs
      BY <2>1, <3>1 DEF AopJobs
    <3>. QED BY <2>2, <3>1, <3>2 DEF CardSourcesDone, aopMemory, aopHist
  <2>3. CASE NextJob
    <3>1. aopJob' = [phase |-> "running", count |-> aopJob.count + 1]
      BY <2>3 DEF NextJob
    <3>2. aopJob' \in AopJobs /\ aopJob'.phase = "running"
      BY <2>1, <3>1 DEF AopJobs
    <3>. QED BY <2>1, <2>3, <3>2 DEF NextJob, aopMemory, aopHist
  <2>. QED BY <2>2, <2>3
<1>2. /\ lastOf' = lastOf /\ index' = index /\ buffer' = buffer
      /\ headOf' = headOf /\ tailOf' = tailOf
  BY <1>1 DEF lastOf, index, buffer, headOf, tailOf
<1>3. adding' = adding
  BY <1>1, <1>2 DEF adding
<1>4. stored' = stored
  BY <1>1, <1>3 DEF stored
<1>5. \A s : Word(s)' = Word(s)
  BY <1>1, <1>2 DEF Word
<1>6. AopTypes'
  BY <1>1 DEF AopInv, AopTypes
<1>7. AtWork'
  BY <1>1, <1>2, <1>3 DEF AopInv, AtWork, AopAt
<1>8. Stored'
  BY <1>1, <1>2, <1>4, <1>5 DEF AopInv, Stored
<1>9. WrittenSoFar'
  BY <1>1, <1>2, <1>5 DEF AopInv, WrittenSoFar, AopAt
<1>10. Linked'
  BY <1>1, <1>2 DEF AopInv, Linked, AopAt
<1>. QED BY <1>6, <1>7, <1>8, <1>9, <1>10 DEF AopInv

\* WbStart begins the write-back that is due.
LEMMA WbStartKeeps ==
  ASSUME AopInv, WbStart
  PROVE  AopInv'
<1>1. /\ aop.state = "IDLE" /\ aop \in AopRegisters /\ aopPending
      /\ UNCHANGED <<aopPending, aopMemory, aopJob, aopHist>>
      /\ aop' = [aop EXCEPT !.state = "WB_FLUSH_BUFFER_WRITE"]
  BY DEF WbStart, AopAt, AopGoto, AopInv, AopTypes
<1>2. /\ cardQueue' = cardQueue /\ nodeWords' = nodeWords /\ freeNodes' = freeNodes
      /\ start' = start /\ lastAsked' = lastAsked /\ kept' = kept /\ filled' = filled
      /\ aopJob' = aopJob /\ aopPending' = aopPending
  BY <1>1 DEF aopMemory, aopHist
<1>3. /\ aop' \in AopRegisters /\ aop'.state = "WB_FLUSH_BUFFER_WRITE"
      /\ aop'.card = aop.card /\ aop'.cardIndex = aop.cardIndex
      /\ aop'.lastValid = aop.lastValid /\ aop'.last = aop.last
      /\ aop'.bufferValid = aop.bufferValid /\ aop'.index = aop.index /\ aop'.buffer = aop.buffer
      /\ aop'.listValid = aop.listValid /\ aop'.head = aop.head /\ aop'.tail = aop.tail
      /\ aop'.node = aop.node /\ aop'.newTop = aop.newTop
      /\ aop'.wr = aop.wr /\ aop'.wraddr = aop.wraddr
  BY <1>1 DEF AopRegisters, AopStates
<1>4. /\ lastOf' = lastOf /\ index' = index /\ buffer' = buffer
      /\ headOf' = headOf /\ tailOf' = tailOf
  BY <1>2, <1>3 DEF lastOf, index, buffer, headOf, tailOf
<1>5. ~adding' /\ ~adding
  BY <1>1, <1>3 DEF adding, AopAdds, AopReplaces, AopAllocs, AopLooks
<1>6. stored' = stored
  BY <1>2, <1>5 DEF stored
<1>7. \A s : Word(s)' = Word(s)
  BY <1>2, <1>3, <1>4 DEF Word
<1>8. AopTypes'
  BY <1>1, <1>3, AopTypesKept DEF AopInv
<1>9. AtWork'
  BY <1>1, <1>2, <1>3, <1>4, <1>5
     DEF AopInv, AtWork, AopAt, AopAdds, AopReplaces, AopAllocs, AopLooks
<1>10. Stored'
  BY <1>1, <1>2, <1>3, <1>4, <1>6, <1>7 DEF AopInv, Stored
<1>11. WrittenSoFar'
  BY <1>3 DEF WrittenSoFar, WbWritten, AopAt
<1>12. Linked'
  BY <1>1, <1>2, <1>3, <1>4 DEF AopInv, Linked, AopAt, AopAllocs, AopLooks
<1>. QED BY <1>8, <1>9, <1>10, <1>11, <1>12 DEF AopInv

\* WbFlush writes the gathered words to the buffer in use.
LEMMA WbFlushKeeps ==
  ASSUME AopInv, WbFlush
  PROVE  AopInv'
<1>1. /\ aop.state = "WB_FLUSH_BUFFER_WRITE" /\ aop \in AopRegisters /\ nodeWords \in NodeMemory
      /\ aop' = [aop EXCEPT !.state = "WB_WRITE_INDEX_BUFFER"]
      /\ aop.wr \in Seq(CardOr) /\ aop.wraddr \in Int /\ Len(aop.wr) \in Nat
  BY DEF WbFlush, AopAt, AopGoto, AopInv, AopTypes, NodeMemory, AopRegisters
<1>2. /\ cardQueue' = cardQueue /\ freeNodes' = freeNodes
      /\ start' = start /\ lastAsked' = lastAsked /\ kept' = kept /\ filled' = filled
      /\ aopJob' = aopJob /\ aopPending' = aopPending
  BY DEF WbFlush, aopHist
<1>3. /\ aop' \in AopRegisters /\ aop'.state = "WB_WRITE_INDEX_BUFFER"
      /\ aop'.card = aop.card /\ aop'.cardIndex = aop.cardIndex
      /\ aop'.lastValid = aop.lastValid /\ aop'.last = aop.last
      /\ aop'.bufferValid = aop.bufferValid /\ aop'.index = aop.index /\ aop'.buffer = aop.buffer
      /\ aop'.listValid = aop.listValid /\ aop'.head = aop.head /\ aop'.tail = aop.tail
      /\ aop'.node = aop.node /\ aop'.newTop = aop.newTop
      /\ aop'.wr = aop.wr /\ aop'.wraddr = aop.wraddr
  BY <1>1 DEF AopRegisters, AopStates, WbWritten
<1>4. /\ lastOf' = lastOf /\ index' = index /\ buffer' = buffer
      /\ headOf' = headOf /\ tailOf' = tailOf
  BY <1>2, <1>3 DEF lastOf, index, buffer, headOf, tailOf
<1>5. ~adding' /\ ~adding
  BY <1>1, <1>3 DEF adding, AopAdds, AopReplaces, AopAllocs, AopLooks
<1>6. stored' = stored
  BY <1>2, <1>5 DEF stored
<1>7. aop.wr # <<>> =>
        aop.bufferValid /\ aop.wraddr = index /\ buffer = aop.buffer /\ buffer \in Nodes
  BY DEF AopInv, Stored, index, buffer
<1>8. /\ nodeWords' \in NodeMemory
      /\ \A n \in Nodes : (aop.wr = <<>> \/ n # buffer) => nodeWords'[n] = nodeWords[n]
      /\ \A t \in WordSlots : Word(t)' = Word(t)
      /\ \A t \in WordSlots : t \in aop.wraddr .. aop.wraddr + Len(aop.wr) - 1 =>
           nodeWords'[buffer][t] = Word(t)
      /\ \A t \in WordSlots : aop.wr # <<>>
           /\ t < index => nodeWords'[buffer][t] = nodeWords[buffer][t]
  <2>1. CASE aop.wr = <<>>
    <3>1. nodeWords' = nodeWords
      BY <2>1 DEF WbFlush
    <3>2. \A t \in WordSlots : t \notin aop.wraddr .. aop.wraddr + Len(aop.wr) - 1
      BY <1>1, <2>1
    <3>3. \A s : Word(s)' = Word(s)
      BY <1>3, <1>4, <3>1 DEF Word
    <3>. QED BY <1>1, <2>1, <3>1, <3>2, <3>3
  <2>2. CASE aop.wr # <<>>
    <3>1. WriteWords(buffer, aop.wraddr, aop.wr)
      BY <1>7, <2>2 DEF WbFlush
    <3>2. buffer \in Nodes
      BY <1>7, <2>2
    <3>3. /\ nodeWords' \in NodeMemory
          /\ \A n \in Nodes \ {buffer} : nodeWords'[n] = nodeWords[n]
          /\ \A t \in WordSlots :
               nodeWords'[buffer][t] = IF t \in aop.wraddr .. aop.wraddr + Len(aop.wr) - 1
                                       THEN aop.wr[Len(aop.wr) - (t - aop.wraddr)]
                                       ELSE nodeWords[buffer][t]
      BY <1>1, <3>1, <3>2, WordsWritten
    <3>4. \A t \in WordSlots : Word(t)' = Word(t)
      BY <1>3, <1>4, <3>3 DEF Word
    <3>5. \A t \in WordSlots : t \in aop.wraddr .. aop.wraddr + Len(aop.wr) - 1 =>
            nodeWords'[buffer][t] = Word(t)
      BY <3>3 DEF Word
    <3>6. \A t \in WordSlots : t < index => t \notin aop.wraddr .. aop.wraddr + Len(aop.wr) - 1
      BY <1>1, <1>7, <2>2
    <3>. QED BY <2>2, <3>3, <3>4, <3>5, <3>6
  <2>. QED BY <2>1, <2>2
<1>9. AopTypes'
  BY <1>2, <1>3, <1>8 DEF AopInv, AopTypes, NodeMemory
<1>10. AtWork'
  BY <1>1, <1>2, <1>3, <1>4, <1>5
     DEF AopInv, AtWork, AopAt, AopAdds, AopReplaces, AopAllocs, AopLooks
<1>11. Stored'
  <2>1. ASSUME Len(kept) <= start.index, NEW k \in 1 .. stored
        PROVE  Word(start.index - k)' = kept[k]
    <3>1. start.index - k \in WordSlots
      <4>1. start.index \in 0 .. Capacity /\ stored = Len(kept) /\ Len(kept) \in Nat
        BY <1>5 DEF AopInv, AopTypes, Starts, stored
      <4>. QED BY <2>1, <4>1, AopAssumption DEF WordSlots
    <3>2. Word(start.index - k) = kept[k]
      BY <2>1 DEF AopInv, Stored
    <3>. QED BY <1>2, <1>8, <3>1, <3>2
  <2>. QED BY <1>1, <1>2, <1>3, <1>4, <1>6, <2>1 DEF AopInv, Stored
<1>12. WrittenSoFar'
  <2>1. \A s \in aop'.wraddr .. aop'.wraddr + Len(aop'.wr) - 1 :
          s \in WordSlots => nodeWords'[buffer'][s] = Word(s)'
    BY <1>3, <1>4, <1>8
  <2>. QED BY <1>3, <2>1 DEF WrittenSoFar, WbWritten, AopAt
<1>13. Linked'
  <2>1. \A old \in filled : old # buffer /\ old \in Nodes
    BY <1>1 DEF AopInv, AopTypes, Linked, AopAllocs
  <2>2. \A old \in filled : nodeWords'[old] = nodeWords[old]
    BY <1>8, <2>1
  <2>3. index >= 0 => \A n \in Nodes \ filled : nodeWords'[n][-1] = NoNode
    <3>1. SUFFICES ASSUME index >= 0, NEW n \in Nodes \ filled
                   PROVE  nodeWords'[n][-1] = NoNode
      OBVIOUS
    <3>2. nodeWords[n][-1] = NoNode
      BY <3>1 DEF AopInv, Linked
    <3>3. -1 \in WordSlots /\ -1 < index
      <4>1. index \in Int
        BY <1>1 DEF AopInv, AopTypes, AopRegisters, CardQueues, index
      <4>. QED BY <3>1, <4>1, AopAssumption DEF WordSlots
    <3>. QED BY <1>8, <3>2, <3>3
  <2>. QED BY <1>1, <1>2, <1>3, <1>4, <2>1, <2>2, <2>3
           DEF AopInv, Linked, AopAt, AopAllocs, AopLooks
<1>. QED BY <1>9, <1>10, <1>11, <1>12, <1>13 DEF AopInv

\* WbIndexBuffer writes the index and the buffer.
LEMMA WbIndexBufferKeeps ==
  ASSUME AopInv, WbIndexBuffer
  PROVE  AopInv'
<1>1. /\ aop.state = "WB_WRITE_INDEX_BUFFER" /\ aop \in AopRegisters
      /\ aop' = [aop EXCEPT !.state = "WB_WRITE_OFFSET30_38"]
      /\ cardQueue' = IF aop.bufferValid THEN [cardQueue EXCEPT !.index = aop.index,
           !.buffer = aop.buffer] ELSE cardQueue
      /\ cardQueue \in CardQueues
      /\ nodeWords' = nodeWords /\ freeNodes' = freeNodes
      /\ start' = start /\ lastAsked' = lastAsked /\ kept' = kept /\ filled' = filled
      /\ aopJob' = aopJob /\ aopPending' = aopPending
  BY DEF WbIndexBuffer, AopAt, AopGoto, AopInv, AopTypes, aopHist
<1>2. /\ aop' \in AopRegisters /\ aop'.state = "WB_WRITE_OFFSET30_38"
      /\ aop'.card = aop.card /\ aop'.cardIndex = aop.cardIndex
      /\ aop'.lastValid = aop.lastValid /\ aop'.last = aop.last
      /\ aop'.bufferValid = aop.bufferValid /\ aop'.index = aop.index /\ aop'.buffer = aop.buffer
      /\ aop'.listValid = aop.listValid /\ aop'.head = aop.head /\ aop'.tail = aop.tail
      /\ aop'.node = aop.node /\ aop'.newTop = aop.newTop
      /\ aop'.wr = aop.wr /\ aop'.wraddr = aop.wraddr
  BY <1>1 DEF AopRegisters, AopStates, WbWritten
<1>3. /\ cardQueue' \in CardQueues
      /\ cardQueue'.index = index /\ cardQueue'.buffer = buffer
      /\ cardQueue'.head = cardQueue.head /\ cardQueue'.tail = cardQueue.tail
      /\ cardQueue'.last = cardQueue.last
  BY <1>1 DEF AopRegisters, CardQueues, lastOf, index, buffer, headOf, tailOf
<1>4. /\ lastOf' = lastOf /\ index' = index /\ buffer' = buffer
      /\ headOf' = headOf /\ tailOf' = tailOf
  BY <1>2, <1>3 DEF lastOf, index, buffer, headOf, tailOf
<1>5. ~adding' /\ ~adding
  BY <1>1, <1>2 DEF adding, AopAdds, AopReplaces, AopAllocs, AopLooks
<1>6. stored' = stored
  BY <1>1, <1>5 DEF stored
<1>7. \A s : Word(s)' = Word(s)
  BY <1>1, <1>2, <1>4 DEF Word
<1>8. AopTypes'
  BY <1>1, <1>2, <1>3 DEF AopInv, AopTypes
<1>9. AtWork'
  BY <1>1, <1>2, <1>4, <1>5
     DEF AopInv, AtWork, AopAt, AopAdds, AopReplaces, AopAllocs, AopLooks
<1>10. Stored'
  BY <1>1, <1>2, <1>4, <1>6, <1>7 DEF AopInv, Stored
<1>11. WrittenSoFar'
  BY <1>1, <1>2, <1>3, <1>4, <1>7 DEF AopInv, WrittenSoFar, WbWritten, AopAt
<1>12. Linked'
  BY <1>1, <1>2, <1>4 DEF AopInv, Linked, AopAt, AopAllocs, AopLooks
<1>. QED BY <1>8, <1>9, <1>10, <1>11, <1>12 DEF AopInv

\* WbList writes the list of full buffers.
LEMMA WbListKeeps ==
  ASSUME AopInv, WbList
  PROVE  AopInv'
<1>1. /\ aop.state = "WB_WRITE_OFFSET30_38" /\ aop \in AopRegisters
      /\ aop' = [aop EXCEPT !.state = "WB_WRITE_LAST_INDEX"]
      /\ cardQueue' = IF aop.listValid THEN [cardQueue EXCEPT !.head = aop.head,
           !.tail = aop.tail] ELSE cardQueue
      /\ cardQueue \in CardQueues
      /\ nodeWords' = nodeWords /\ freeNodes' = freeNodes
      /\ start' = start /\ lastAsked' = lastAsked /\ kept' = kept /\ filled' = filled
      /\ aopJob' = aopJob /\ aopPending' = aopPending
  BY DEF WbList, AopAt, AopGoto, AopInv, AopTypes, aopHist
<1>2. /\ aop' \in AopRegisters /\ aop'.state = "WB_WRITE_LAST_INDEX"
      /\ aop'.card = aop.card /\ aop'.cardIndex = aop.cardIndex
      /\ aop'.lastValid = aop.lastValid /\ aop'.last = aop.last
      /\ aop'.bufferValid = aop.bufferValid /\ aop'.index = aop.index /\ aop'.buffer = aop.buffer
      /\ aop'.listValid = aop.listValid /\ aop'.head = aop.head /\ aop'.tail = aop.tail
      /\ aop'.node = aop.node /\ aop'.newTop = aop.newTop
      /\ aop'.wr = aop.wr /\ aop'.wraddr = aop.wraddr
  BY <1>1 DEF AopRegisters, AopStates, WbWritten
<1>3. /\ cardQueue' \in CardQueues
      /\ cardQueue'.index = cardQueue.index /\ cardQueue'.buffer = cardQueue.buffer
      /\ cardQueue'.head = headOf /\ cardQueue'.tail = tailOf
      /\ cardQueue'.last = cardQueue.last
  BY <1>1 DEF AopRegisters, CardQueues, lastOf, index, buffer, headOf, tailOf
<1>4. /\ lastOf' = lastOf /\ index' = index /\ buffer' = buffer
      /\ headOf' = headOf /\ tailOf' = tailOf
  BY <1>2, <1>3 DEF lastOf, index, buffer, headOf, tailOf
<1>5. ~adding' /\ ~adding
  BY <1>1, <1>2 DEF adding, AopAdds, AopReplaces, AopAllocs, AopLooks
<1>6. stored' = stored
  BY <1>1, <1>5 DEF stored
<1>7. \A s : Word(s)' = Word(s)
  BY <1>1, <1>2, <1>4 DEF Word
<1>8. AopTypes'
  BY <1>1, <1>2, <1>3 DEF AopInv, AopTypes
<1>9. AtWork'
  BY <1>1, <1>2, <1>4, <1>5
     DEF AopInv, AtWork, AopAt, AopAdds, AopReplaces, AopAllocs, AopLooks
<1>10. Stored'
  BY <1>1, <1>2, <1>4, <1>6, <1>7 DEF AopInv, Stored
<1>11. WrittenSoFar'
  BY <1>1, <1>2, <1>3, <1>4, <1>7 DEF AopInv, WrittenSoFar, WbWritten, AopAt
<1>12. Linked'
  BY <1>1, <1>2, <1>4 DEF AopInv, Linked, AopAt, AopAllocs, AopLooks
<1>. QED BY <1>8, <1>9, <1>10, <1>11, <1>12 DEF AopInv

\* WbLast writes the last card.
LEMMA WbLastKeeps ==
  ASSUME AopInv, WbLast
  PROVE  AopInv'
<1>1. /\ aop.state = "WB_WRITE_LAST_INDEX" /\ aop \in AopRegisters
      /\ aop' = [aop EXCEPT !.state = "WB_CLEAR_CACHE"]
      /\ cardQueue' = IF aop.lastValid THEN [cardQueue EXCEPT !.last = aop.last] ELSE cardQueue
      /\ cardQueue \in CardQueues
      /\ nodeWords' = nodeWords /\ freeNodes' = freeNodes
      /\ start' = start /\ lastAsked' = lastAsked /\ kept' = kept /\ filled' = filled
      /\ aopJob' = aopJob /\ aopPending' = aopPending
  BY DEF WbLast, AopAt, AopGoto, AopInv, AopTypes, aopHist
<1>2. /\ aop' \in AopRegisters /\ aop'.state = "WB_CLEAR_CACHE"
      /\ aop'.card = aop.card /\ aop'.cardIndex = aop.cardIndex
      /\ aop'.lastValid = aop.lastValid /\ aop'.last = aop.last
      /\ aop'.bufferValid = aop.bufferValid /\ aop'.index = aop.index /\ aop'.buffer = aop.buffer
      /\ aop'.listValid = aop.listValid /\ aop'.head = aop.head /\ aop'.tail = aop.tail
      /\ aop'.node = aop.node /\ aop'.newTop = aop.newTop
      /\ aop'.wr = aop.wr /\ aop'.wraddr = aop.wraddr
  BY <1>1 DEF AopRegisters, AopStates, WbWritten
<1>3. /\ cardQueue' \in CardQueues
      /\ cardQueue'.index = cardQueue.index /\ cardQueue'.buffer = cardQueue.buffer
      /\ cardQueue'.head = cardQueue.head /\ cardQueue'.tail = cardQueue.tail
      /\ cardQueue'.last = lastOf
  BY <1>1 DEF AopRegisters, CardQueues, lastOf, index, buffer, headOf, tailOf
<1>4. /\ lastOf' = lastOf /\ index' = index /\ buffer' = buffer
      /\ headOf' = headOf /\ tailOf' = tailOf
  BY <1>2, <1>3 DEF lastOf, index, buffer, headOf, tailOf
<1>5. ~adding' /\ ~adding
  BY <1>1, <1>2 DEF adding, AopAdds, AopReplaces, AopAllocs, AopLooks
<1>6. stored' = stored
  BY <1>1, <1>5 DEF stored
<1>7. \A s : Word(s)' = Word(s)
  BY <1>1, <1>2, <1>4 DEF Word
<1>8. AopTypes'
  BY <1>1, <1>2, <1>3 DEF AopInv, AopTypes
<1>9. AtWork'
  BY <1>1, <1>2, <1>4, <1>5
     DEF AopInv, AtWork, AopAt, AopAdds, AopReplaces, AopAllocs, AopLooks
<1>10. Stored'
  BY <1>1, <1>2, <1>4, <1>6, <1>7 DEF AopInv, Stored
<1>11. WrittenSoFar'
  BY <1>1, <1>2, <1>3, <1>4, <1>7 DEF AopInv, WrittenSoFar, WbWritten, AopAt
<1>12. Linked'
  BY <1>1, <1>2, <1>4 DEF AopInv, Linked, AopAt, AopAllocs, AopLooks
<1>. QED BY <1>8, <1>9, <1>10, <1>11, <1>12 DEF AopInv

\* WbClear drops the caches: what they held is in memory by then.
LEMMA WbClearKeeps ==
  ASSUME AopInv, WbClear
  PROVE  AopInv'
<1>1. /\ aop.state = "WB_CLEAR_CACHE" /\ aop \in AopRegisters
      /\ aop' = [aop EXCEPT !.state = "IDLE", !.lastValid = FALSE, !.bufferValid = FALSE,
                            !.listValid = FALSE, !.wr = <<>>, !.wraddr = 0]
      /\ cardQueue' = cardQueue /\ nodeWords' = nodeWords /\ freeNodes' = freeNodes
      /\ start' = start /\ lastAsked' = lastAsked /\ kept' = kept /\ filled' = filled
      /\ aopJob' = aopJob /\ aopPending' = FALSE
  BY DEF WbClear, AopAt, AopInv, AopTypes, aopHist, aopMemory
<1>2. /\ aop' \in AopRegisters /\ aop'.state = "IDLE"
      /\ ~aop'.lastValid /\ ~aop'.bufferValid /\ ~aop'.listValid
      /\ aop'.wr = <<>> /\ aop'.wraddr = 0
  <2>1. "IDLE" \in AopStates /\ <<>> \in Seq(CardOr)
    BY DEF AopStates
  <2>2. aop' \in AopRegisters
    <3>. DEFINE e == <<>>
    <3>1. e \in Seq(CardOr) /\ FALSE \in BOOLEAN /\ 0 \in Int
      OBVIOUS
    <3>2. aop' = [aop EXCEPT !.state = "IDLE", !.lastValid = FALSE, !.bufferValid = FALSE,
                             !.listValid = FALSE, !.wr = e, !.wraddr = 0]
      BY <1>1
    <3>. HIDE DEF e
    <3>. QED BY <1>1, <2>1, <3>1, <3>2, ZenonT(30) DEF AopRegisters
  <2>. QED BY <1>1, <2>2 DEF AopRegisters
<1>3. /\ cardQueue.index = index /\ cardQueue.buffer = buffer /\ cardQueue.head = headOf
      /\ cardQueue.tail = tailOf /\ cardQueue.last = lastOf
      /\ \A s \in aop.wraddr .. aop.wraddr + Len(aop.wr) - 1 :
           s \in WordSlots => nodeWords[buffer][s] = Word(s)
  BY <1>1 DEF AopInv, WrittenSoFar, WbWritten, AopAt
<1>4. /\ lastOf' = lastOf /\ index' = index /\ buffer' = buffer
      /\ headOf' = headOf /\ tailOf' = tailOf
  BY <1>1, <1>2, <1>3 DEF lastOf, index, buffer, headOf, tailOf
<1>5. ~adding' /\ ~adding
  BY <1>1, <1>2 DEF adding, AopAdds, AopReplaces, AopAllocs, AopLooks
<1>6. stored' = stored
  BY <1>1, <1>5 DEF stored
<1>7. \A t \in WordSlots : Word(t)' = Word(t)
  <2>1. SUFFICES ASSUME NEW t \in WordSlots PROVE Word(t)' = Word(t)
    OBVIOUS
  <2>2. t \notin aop'.wraddr .. aop'.wraddr + Len(aop'.wr) - 1
    BY <1>2
  <2>3. Word(t)' = nodeWords[buffer][t]
    BY <1>1, <1>4, <2>2 DEF Word
  <2>4. CASE t \in aop.wraddr .. aop.wraddr + Len(aop.wr) - 1
    BY <1>3, <2>3, <2>4
  <2>5. CASE t \notin aop.wraddr .. aop.wraddr + Len(aop.wr) - 1
    BY <2>3, <2>5 DEF Word
  <2>. QED BY <2>4, <2>5
<1>8. AopTypes'
  BY <1>1, <1>2 DEF AopInv, AopTypes
<1>9. AtWork'
  BY <1>1, <1>2, <1>4, <1>5
     DEF AopInv, AtWork, AopAt, AopAdds, AopReplaces, AopAllocs, AopLooks
<1>10. Stored'
  <2>1. ASSUME Len(kept) <= start.index, NEW k \in 1 .. stored
        PROVE  Word(start.index - k)' = kept[k]
    <3>1. start.index - k \in WordSlots
      <4>1. start.index \in 0 .. Capacity /\ stored = Len(kept) /\ Len(kept) \in Nat
        BY <1>5 DEF AopInv, AopTypes, Starts, stored
      <4>. QED BY <2>1, <4>1, AopAssumption DEF WordSlots
    <3>2. Word(start.index - k) = kept[k]
      BY <2>1 DEF AopInv, Stored
    <3>. QED BY <1>1, <1>7, <3>1, <3>2
  <2>. QED BY <1>1, <1>2, <1>4, <1>6, <2>1 DEF AopInv, Stored
<1>11. WrittenSoFar'
  BY <1>2 DEF WrittenSoFar, WbWritten, AopAt
<1>12. Linked'
  BY <1>1, <1>2, <1>4 DEF AopInv, Linked, AopAt, AopAllocs, AopLooks
<1>. QED BY <1>8, <1>9, <1>10, <1>11, <1>12 DEF AopInv

\* JvmTakesCards: the JVM leaves a queue of its own once everything is in memory.
LEMMA JvmTakesCardsKeeps ==
  ASSUME AopInv, JvmTakesCards
  PROVE  AopInv'
<1>1. /\ aop.state = "IDLE" /\ aop \in AopRegisters /\ aop' = aop
      /\ aopJob' = aopJob /\ aopPending' = aopPending /\ lastAsked' = lastAsked
      /\ kept' = <<>> /\ filled' = {} /\ nodeWords' = [n \in Nodes |-> EmptyNode]
      /\ ~aop.lastValid /\ ~aop.bufferValid /\ ~aop.listValid /\ aop.wr = <<>>
  BY DEF JvmTakesCards, WrittenBack, AopAt, AopInv, AopTypes, AtWork
<1>2. ~adding /\ ~adding'
  BY <1>1 DEF adding, AopAdds, AopReplaces, AopAllocs, AopLooks
<1>3. cardQueue.last = lastAsked
  BY <1>1, <1>2 DEF AopInv, AtWork, lastOf
<1>4. PICK n \in Nodes : \E m, f \in (Nodes \ {n}) \cup {NoNode} :
        /\ m = f => m = NoNode
        /\ cardQueue' = [index |-> Capacity, buffer |-> IF Capacity = 0 THEN NoNode ELSE n,
                         head |-> m, tail |-> m, last |-> cardQueue.last]
        /\ freeNodes' = f
        /\ start' = [index |-> Capacity, list |-> m]
  BY DEF JvmTakesCards, JvmQueue
<1>5. PICK m \in (Nodes \ {n}) \cup {NoNode}, f \in (Nodes \ {n}) \cup {NoNode} :
        /\ m = f => m = NoNode
        /\ cardQueue' = [index |-> Capacity, buffer |-> n, head |-> m, tail |-> m,
                         last |-> lastAsked]
        /\ freeNodes' = f
        /\ start' = [index |-> Capacity, list |-> m]
  BY <1>3, <1>4, AopAssumption
<1>6. /\ lastOf' = lastAsked /\ index' = Capacity /\ buffer' = n /\ headOf' = m /\ tailOf' = m
      /\ start'.index = Capacity /\ start'.list = m
  BY <1>1, <1>5 DEF lastOf, index, buffer, headOf, tailOf
<1>7. stored' = 0
  BY <1>1, <1>2 DEF stored
<1>8. nodeWords' \in NodeMemory /\ (\A k \in Nodes : nodeWords'[k][-1] = NoNode)
  <2>1. EmptyNode \in [WordSlots -> NodeOr \cup CardOr] /\ EmptyNode[-1] = NoNode
    BY AopAssumption DEF EmptyNode, NodeOr, CardOr, WordSlots
  <2>. QED BY <1>1, <2>1 DEF NodeMemory
<1>9. AopTypes'
  <2>1. lastAsked \in CardOr /\ Capacity \in Nat
    BY AopAssumption DEF AopInv, AopTypes
  <2>2. cardQueue' \in CardQueues /\ start' \in Starts /\ freeNodes' \in NodeOr
    BY <1>5, <2>1 DEF CardQueues, Starts, NodeOr
  <2>3. kept' \in Seq(Cards) /\ filled' \in SUBSET Nodes
    BY <1>1
  <2>. QED BY <1>1, <1>8, <2>2, <2>3 DEF AopInv, AopTypes, NodeMemory
<1>10. AtWork'
  <2>1. Len(kept') <= start'.index + 1
    BY <1>1, <1>6, AopAssumption
  <2>. QED BY <1>1, <1>2, <1>6, <2>1
           DEF AopInv, AtWork, AopAt, AopAdds, AopReplaces, AopAllocs, AopLooks
<1>11. Stored'
  BY <1>1, <1>6, <1>7, AopAssumption DEF Stored
<1>12. WrittenSoFar'
  BY <1>1 DEF WrittenSoFar, WbWritten, AopAt
<1>13. Linked'
  BY <1>1, <1>5, <1>6, <1>8, AopAssumption DEF Linked, AopAt, AopAllocs, AopLooks
<1>. QED BY <1>9, <1>10, <1>11, <1>12, <1>13 DEF AopInv

\* AopBegins: the queue as the JVM left it, and nothing asked for.
LEMMA AopBegins ==
  ASSUME AopInit
  PROVE  AopInv
<1>1. /\ aop = [state |-> "IDLE", card |-> NoCard, cardIndex |-> NoCard, lastValid |-> FALSE,
                last |-> NoCard, bufferValid |-> FALSE, index |-> 0, buffer |-> NoNode,
                listValid |-> FALSE, head |-> NoNode, tail |-> NoNode,
                node |-> NoNode, newTop |-> NoNode, wr |-> <<>>, wraddr |-> 0]
      /\ aopPending = FALSE /\ nodeWords = [n \in Nodes |-> EmptyNode]
      /\ aopJob = [phase |-> "running", count |-> 1] /\ kept = <<>> /\ filled = {}
  BY DEF AopInit
<1>2. PICK n \in Nodes, i \in 0 .. Capacity, l \in CardOr :
        \E m, f \in (Nodes \ {n}) \cup {NoNode} :
          /\ m = f => m = NoNode
          /\ cardQueue = [index |-> i, buffer |-> IF i = 0 THEN NoNode ELSE n, head |-> m,
                          tail |-> m, last |-> l]
          /\ freeNodes = f
          /\ start = [index |-> i, list |-> m]
          /\ lastAsked = l
  BY DEF AopInit, CardOr
<1>3. PICK m \in (Nodes \ {n}) \cup {NoNode}, f \in (Nodes \ {n}) \cup {NoNode} :
        /\ m = f => m = NoNode
        /\ cardQueue = [index |-> i, buffer |-> IF i = 0 THEN NoNode ELSE n, head |-> m,
                        tail |-> m, last |-> l]
        /\ freeNodes = f
        /\ start = [index |-> i, list |-> m]
        /\ lastAsked = l
  BY <1>2
<1>4. /\ lastOf = l /\ index = i /\ buffer = (IF i = 0 THEN NoNode ELSE n)
      /\ headOf = m /\ tailOf = m /\ start.index = i /\ start.list = m
  BY <1>1, <1>3 DEF lastOf, index, buffer, headOf, tailOf
<1>5. ~adding
  BY <1>1 DEF adding, AopAdds, AopReplaces, AopAllocs, AopLooks
<1>6. stored = 0
  BY <1>1, <1>5 DEF stored
<1>7. nodeWords \in NodeMemory /\ (\A k \in Nodes : nodeWords[k][-1] = NoNode)
  <2>1. EmptyNode \in [WordSlots -> NodeOr \cup CardOr] /\ EmptyNode[-1] = NoNode
    BY AopAssumption DEF EmptyNode, NodeOr, CardOr, WordSlots
  <2>. QED BY <1>1, <2>1 DEF NodeMemory
<1>8. AopTypes
  <2>1. aop \in AopRegisters
    <3>1. "IDLE" \in AopStates /\ NoCard \in CardOr /\ NoNode \in NodeOr /\ <<>> \in Seq(CardOr)
      BY DEF AopStates, CardOr, NodeOr
    <3>. QED BY <1>1, <3>1 DEF AopRegisters
  <2>2. cardQueue \in CardQueues /\ start \in Starts /\ freeNodes \in NodeOr
    BY <1>3 DEF CardQueues, Starts, NodeOr
  <2>3. kept \in Seq(Cards) /\ filled \in SUBSET Nodes /\ aopJob \in AopJobs
    BY <1>1 DEF AopJobs
  <2>. QED BY <1>1, <1>3, <1>7, <2>1, <2>2, <2>3 DEF AopTypes, NodeMemory
<1>9. AtWork
  <2>1. Len(kept) <= start.index + 1
    BY <1>1, <1>4
  <2>. QED BY <1>1, <1>3, <1>4, <1>5, <2>1
           DEF AtWork, AopAt, AopAdds, AopReplaces, AopAllocs, AopLooks
<1>10. Stored
  BY <1>1, <1>4, <1>6 DEF Stored
<1>11. WrittenSoFar
  BY <1>1 DEF WrittenSoFar, WbWritten, AopAt
<1>12. Linked
  BY <1>1, <1>3, <1>4, <1>7, AopAssumption DEF Linked, AopAt, AopAllocs, AopLooks
<1>. QED BY <1>8, <1>9, <1>10, <1>11, <1>12 DEF AopInv

\* AopKept: no step of the machine, of the jobs or of the JVM breaks it.
LEMMA AopKept ==
  ASSUME AopInv, [AopNext]_aopVars
  PROVE  AopInv'
<1>1. CASE \E c \in Cards : AopCommand(c)
  BY <1>1, AopCommandKeeps
<1>2. CASE AopMachine
  BY <1>2, CalcCardKeeps, CheckLastIndexKeeps, CheckIndexKeeps, LinkOldBufferKeeps,
     WriteOldNodeKeeps, AllocReadFreeListKeeps, AllocWriteFreeTopKeeps, ReadNodeCapacityKeeps,
     EnqueueKeeps, WbStartKeeps, WbFlushKeeps, WbIndexBufferKeeps, WbListKeeps, WbLastKeeps,
     WbClearKeeps DEF AopMachine
<1>3. CASE CardSourcesDone \/ NextJob
  BY <1>3, JobStepsKeep
<1>4. CASE JvmTakesCards
  BY <1>4, JvmTakesCardsKeeps
<1>5. CASE UNCHANGED aopVars
  <2>1. /\ aop' = aop /\ cardQueue' = cardQueue /\ nodeWords' = nodeWords
        /\ freeNodes' = freeNodes /\ start' = start /\ lastAsked' = lastAsked /\ kept' = kept
        /\ filled' = filled /\ aopJob' = aopJob /\ aopPending' = aopPending
    BY <1>5 DEF aopVars, aopMemory, aopHist
  <2>2. /\ lastOf' = lastOf /\ index' = index /\ buffer' = buffer
        /\ headOf' = headOf /\ tailOf' = tailOf
    BY <2>1 DEF lastOf, index, buffer, headOf, tailOf
  <2>3. adding' = adding
    BY <2>1, <2>2 DEF adding
  <2>4. stored' = stored
    BY <2>1, <2>3 DEF stored
  <2>5. \A s : Word(s)' = Word(s)
    BY <2>1, <2>2 DEF Word
  <2>6. AopTypes' /\ AtWork'
    BY <2>1, <2>2, <2>3 DEF AopInv, AopTypes, AtWork, AopAt
  <2>7. Stored' /\ WrittenSoFar'
    BY <2>1, <2>2, <2>4, <2>5 DEF AopInv, Stored, WrittenSoFar, AopAt
  <2>8. Linked'
    BY <2>1, <2>2 DEF AopInv, Linked, AopAt
  <2>. QED BY <2>6, <2>7, <2>8 DEF AopInv
<1>. QED BY <1>1, <1>2, <1>3, <1>4, <1>5 DEF AopNext

\* Every dirty card that was asked for is in the JVM's buffer or on its way
\* there, in order, as long as the buffer has room, and a buffer that was full
\* is at the head of the JVM's list once the write-back is done, for buffers,
\* lines, cards and jobs of any number (CardsKept).
THEOREM CardsInOrder == AopSpec => []CardsKept
<1>1. AopInv => CardsKept
  <2>1. SUFFICES ASSUME AopInv PROVE CardsInQueue /\ FullBufferLinked
    BY DEF CardsKept
  <2>2. CardsInQueue
    <3>1. SUFFICES ASSUME aop.state = "IDLE", Len(kept) <= start.index
                   PROVE  /\ index = start.index - Len(kept)
                          /\ \A k \in 1 .. Len(kept) : Word(start.index - k) = kept[k]
                          /\ lastOf = lastAsked
                          /\ WrittenBack => ~aop.bufferValid /\ ~aop.lastValid
                                            /\ ~aop.listValid /\ aop.wr = <<>>
      BY DEF CardsInQueue, AopAt, lastOf
    <3>2. ~adding /\ stored = Len(kept)
      BY <3>1 DEF adding, stored, AopAdds, AopReplaces, AopAllocs, AopLooks
    <3>. QED BY <2>1, <3>1, <3>2 DEF AopInv, AtWork, Stored, WrittenBack
  <2>3. FullBufferLinked
    <3>1. SUFFICES ASSUME WrittenBack
                   PROVE  IF filled = {}
                          THEN cardQueue.head = start.list /\ cardQueue.tail = start.list
                          ELSE /\ filled = {cardQueue.head}
                               /\ nodeWords[cardQueue.head][-1] = start.list
                               /\ cardQueue.tail = IF start.list = NoNode THEN cardQueue.head
                                                   ELSE start.list
                               /\ {cardQueue.buffer, freeNodes} \cap
                                    {cardQueue.head, cardQueue.tail} \subseteq {NoNode}
      BY DEF FullBufferLinked
    <3>2. aop.state = "IDLE" /\ ~aop.bufferValid /\ ~aop.listValid
      BY <2>1, <3>1 DEF AopInv, AtWork, WrittenBack, AopAt
    <3>3. headOf = cardQueue.head /\ tailOf = cardQueue.tail /\ buffer = cardQueue.buffer
      BY <3>2 DEF headOf, tailOf, buffer
    <3>4. CASE filled = {}
      BY <2>1, <3>3, <3>4 DEF AopInv, Linked
    <3>5. CASE filled # {}
      <4>1. PICK old \in filled : TRUE
        BY <3>5
      <4>2. /\ filled = {old} /\ old # start.list /\ old # freeNodes /\ buffer # old
            /\ tailOf = (IF start.list = NoNode THEN old ELSE start.list)
            /\ headOf = old /\ nodeWords[old][-1] = start.list
        BY <2>1, <3>2, <4>1 DEF AopInv, Linked, AopAt, AopAllocs
      <4>3. /\ freeNodes # NoNode => freeNodes # start.list
            /\ buffer # NoNode => buffer # start.list
        BY <2>1 DEF AopInv, Linked
      <4>. QED BY <3>3, <3>5, <4>2, <4>3
    <3>. QED BY <3>4, <3>5
  <2>. QED BY <2>2, <2>3
<1>. QED BY <1>1, AopBegins, AopKept, PTL DEF AopSpec
===============================================================================
