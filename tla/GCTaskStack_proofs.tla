------------------------- MODULE GCTaskStack_proofs -------------------------
(***************************************************************************)
(* Proofs about the task stack, for any ring, cache, line and queue sizes  *)
(* that satisfy ConstAssumption.  Ring positions are compared by their     *)
(* depth below stack_top: slot Dec(stack_top, d) holds the task at depth d.*)
(***************************************************************************)
EXTENDS GCTaskStack, TLAPS, WellFoundedInduction

(* The number of entries between a bottom b (exclusive) and a top t. *)
Dist(t, b) == IF t >= b THEN t - b ELSE t + Entry - b

LEMMA UsageIsDist == Usage = Dist(stack_top, stack_bottom)
BY DEF Usage, Dist

LEMMA PointerTypes ==
  ASSUME NEW p \in Slots, NEW n \in 0 .. Entry - 1
  PROVE  Inc(p, n) \in Slots /\ Dec(p, n) \in Slots
BY ConstAssumption DEF Slots, Inc, Dec

LEMMA DistType == ASSUME NEW t \in Slots, NEW b \in Slots PROVE Dist(t, b) \in 0 .. Entry - 1
BY ConstAssumption DEF Slots, Dist

LEMMA DecZero == ASSUME NEW t \in Slots PROVE Dec(t, 0) = t
BY ConstAssumption DEF Slots, Dec

(* Different depths are different slots. *)
LEMMA DepthsDiffer ==
  ASSUME NEW t \in Slots, NEW d \in 0 .. Entry - 1, NEW e \in 0 .. Entry - 1,
         Dec(t, d) = Dec(t, e)
  PROVE  d = e
BY ConstAssumption DEF Slots, Dec

(* Moving the top by one shifts every depth by one. *)
LEMMA PushShifts ==
  ASSUME NEW t \in Slots, NEW d \in 0 .. Entry - 2
  PROVE  Dec(Inc(t, 1), d + 1) = Dec(t, d) /\ Inc(t, 1) # Dec(t, d)
BY ConstAssumption DEF Slots, Dec, Inc

LEMMA PopShifts ==
  ASSUME NEW t \in Slots, NEW d \in 0 .. Entry - 2
  PROVE  Dec(Dec(t, 1), d) = Dec(t, d + 1)
BY ConstAssumption DEF Slots, Dec, Inc

LEMMA DistPush ==
  ASSUME NEW t \in Slots, NEW b \in Slots, Dist(t, b) < Entry - 1
  PROVE  Dist(Inc(t, 1), b) = Dist(t, b) + 1
BY ConstAssumption DEF Slots, Dist, Inc

LEMMA DistPop ==
  ASSUME NEW t \in Slots, NEW b \in Slots, Dist(t, b) > 0
  PROVE  Dist(Dec(t, 1), b) = Dist(t, b) - 1
BY ConstAssumption DEF Slots, Dist, Dec

(* Moving the bottom: up when tasks leave for memory, down when they come back. *)
LEMMA DistRaise ==
  ASSUME NEW t \in Slots, NEW b \in Slots, NEW n \in 0 .. Dist(t, b)
  PROVE  Dist(t, Inc(b, n)) = Dist(t, b) - n
BY ConstAssumption DEF Slots, Dist, Inc

LEMMA DistLower ==
  ASSUME NEW t \in Slots, NEW b \in Slots, NEW n \in Nat, Dist(t, b) + n < Entry
  PROVE  Dist(t, Dec(b, n)) = Dist(t, b) + n
BY ConstAssumption DEF Slots, Dist, Dec

(* The slots at and below the bottom, and those above it, by depth. *)
LEMMA BelowBottom ==
  ASSUME NEW t \in Slots, NEW b \in Slots, NEW i \in Nat, Dist(t, b) + i < Entry
  PROVE  Dec(b, i) = Dec(t, Dist(t, b) + i)
BY ConstAssumption DEF Slots, Dist, Dec

LEMMA AboveBottom ==
  ASSUME NEW t \in Slots, NEW b \in Slots, NEW i \in 1 .. Dist(t, b)
  PROVE  Inc(b, i) = Dec(t, Dist(t, b) - i)
BY ConstAssumption DEF Slots, Dist, Dec, Inc

LEMMA LeastIs ==
  ASSUME NEW a \in Int, NEW b \in Int
  PROVE  /\ Least(a, b) \in {a, b}
         /\ Least(a, b) <= a /\ Least(a, b) <= b
BY DEF Least

(* What the request arithmetic of the memory path yields. *)
LEMMA LineNumbers ==
  ASSUME TypeOK
  PROVE  /\ LineOffset \in 0 .. LineElems - 1
         /\ SpillNum \in 1 .. LineElems
         /\ ReadNum \in 0 .. LineElems /\ ReadNum <= queue_bottom
         /\ (queue_bottom # 0 => ReadNum > 0)
         /\ Usage \in 0 .. Entry - 1 /\ Free = Entry - 1 - Usage
         /\ CanReceive \in 0 .. ReadNum
<1>1. Usage \in 0 .. Entry - 1 /\ Free = Entry - 1 - Usage
  BY DistType, UsageIsDist DEF TypeOK, Free
<1>2. queue_elems_base + queue_bottom \in Nat /\ LineElems \in Nat \ {0}
  BY ConstAssumption DEF TypeOK
<1>3. LineOffset \in 0 .. LineElems - 1
  BY <1>2 DEF LineOffset
<1>4. queue_bottom \in Nat
  BY ConstAssumption DEF TypeOK
<1>5. SpillNum \in 1 .. LineElems
  BY <1>2, <1>3 DEF SpillNum
<1>6. /\ ReadNum \in 0 .. LineElems /\ ReadNum <= queue_bottom
      /\ (queue_bottom # 0 => ReadNum > 0)
  BY <1>2, <1>3, <1>4 DEF ReadNum, Least
<1>7. CanReceive \in 0 .. ReadNum
  BY <1>1, <1>6, ConstAssumption DEF CanReceive, FreeForReadback, Least
<1>8. QED
  BY <1>1, <1>3, <1>5, <1>6, <1>7

(***************************************************************************)
(* The memory path of a cycle.  The slots that ReadBack fills lie below    *)
(* the bottom, and wherever the bottom moves, the entries that TopCache    *)
(* may mirror stay on chip.                                                *)
(***************************************************************************)
LEMMA ReceivedBelow ==
  ASSUME TypeOK, NEW resp \in BOOLEAN
  PROVE  \A s \in Received(resp) :
            /\ ReadBackRuns /\ readIssued /\ resp
            /\ \E i \in 0 .. CanReceive - 1 :
                  /\ s = Dec(stack_bottom, i)
                  /\ s = Dec(stack_top, Usage + i)
                  /\ Usage + i < Entry - 1
                  /\ Dec(stack_bottom, s) = i
<1> SUFFICES ASSUME NEW s \in Received(resp)
             PROVE  /\ ReadBackRuns /\ readIssued /\ resp
                    /\ \E i \in 0 .. CanReceive - 1 :
                          /\ s = Dec(stack_bottom, i)
                          /\ s = Dec(stack_top, Usage + i)
                          /\ Usage + i < Entry - 1
                          /\ Dec(stack_bottom, s) = i
  OBVIOUS
<1>1. ReadBackRuns /\ readIssued /\ resp
  BY DEF Received
<1>2. PICK i \in 0 .. CanReceive - 1 : s = Dec(stack_bottom, i)
  BY <1>1 DEF Received
<1>3. Usage <= ReadNeed /\ CanReceive <= LineElems /\ Usage \in Nat /\ CanReceive \in Nat
  BY <1>1, LineNumbers, ConstAssumption DEF ReadBackRuns
<1>4. Usage + i < Entry - 1 /\ i \in 0 .. Entry - 1
  BY <1>2, <1>3, ConstAssumption
<1>5. s = Dec(stack_top, Usage + i)
  <2>1. i \in Nat /\ Dist(stack_top, stack_bottom) + i < Entry
    BY <1>3, <1>4, ConstAssumption, UsageIsDist
  <2>2. stack_top \in Slots /\ stack_bottom \in Slots
    BY DEF TypeOK
  <2>3. QED
    BY <1>2, <2>1, <2>2, BelowBottom, UsageIsDist
<1>6. Dec(stack_bottom, s) = i
  BY <1>2, <1>4, ConstAssumption DEF Dec, Slots, TypeOK
<1>7. QED
  BY <1>1, <1>2, <1>4, <1>5, <1>6

(* Where the memory path leaves the bottom of the ring. *)
LEMMA BottomMoves ==
  ASSUME IInv, NEW ready \in BOOLEAN, NEW resp \in BOOLEAN, MemoryPath(ready, resp)
  PROVE  /\ stack_bottom' \in Slots
         /\ \/ Dist(stack_top, stack_bottom') = Usage /\ stack_bottom' = stack_bottom
            \/ /\ spill.phase = "ISSUED" /\ ~ReadBackRuns
               /\ Dist(stack_top, stack_bottom') = Usage - SpillNum
            \/ /\ ReadBackRuns /\ readIssued /\ resp /\ spill.phase = "IDLE"
               /\ Dist(stack_top, stack_bottom') = Usage + CanReceive
               /\ Usage + CanReceive < Entry - 1
<1>t. TypeOK /\ stack_bottom \in Slots /\ stack_top \in Slots
  BY DEF IInv, TypeOK
<1>1. CASE SpillRetire(resp)
  <2>1. spill.bottom = stack_bottom /\ spill.num = SpillNum /\ spill.phase = "ISSUED"
    BY <1>1 DEF IInv, SpillIntact, SpillRetire
  <2>2. SpillNum \in 1 .. LineElems /\ Usage \in 0 .. Entry - 1
    BY <1>t, LineNumbers
  <2>3. SpillNum \in 0 .. Usage
    BY <2>1, <2>2, ConstAssumption DEF IInv, SpillMargin, TypeOK
  <2>4. stack_bottom' = Inc(stack_bottom, SpillNum)
    BY <1>1, <2>1 DEF SpillRetire
  <2>5. Dist(stack_top, stack_bottom') = Usage - SpillNum
    BY <2>3, <2>4, <1>t, DistRaise, UsageIsDist
  <2>6. stack_bottom' \in Slots
    <3>1. SpillNum \in 0 .. Entry - 1
      BY <2>2, <2>3, ConstAssumption
    <3>2. QED
      BY <3>1, <2>4, <1>t, PointerTypes
  <2>7. ~ReadBackRuns
    BY <2>1 DEF ReadBackRuns, SpillRuns
  <2>8. QED
    BY <2>1, <2>5, <2>6, <2>7
<1>2. CASE ReadBackReceive(resp)
  <2>1. ReadBackRuns /\ readIssued /\ resp /\ stack_bottom' = Dec(stack_bottom, CanReceive)
    BY <1>2 DEF ReadBackReceive
  <2>2. Usage <= ReadNeed /\ Usage \in Nat /\ CanReceive \in 0 .. LineElems
    BY <2>1, <1>t, LineNumbers, ConstAssumption DEF ReadBackRuns
  <2>3. Usage + CanReceive < Entry - 1 /\ CanReceive \in 0 .. Entry - 1
    BY <2>2, ConstAssumption
  <2>4. Dist(stack_top, stack_bottom') = Usage + CanReceive
    <3>1. CanReceive \in Nat /\ Dist(stack_top, stack_bottom) + CanReceive < Entry
      BY <2>2, <2>3, ConstAssumption, UsageIsDist
    <3>2. QED
      BY <2>1, <3>1, <1>t, DistLower, UsageIsDist
  <2>5. stack_bottom' \in Slots
    BY <2>1, <2>3, <1>t, PointerTypes
  <2>6. spill.phase = "IDLE"
    BY <2>1 DEF ReadBackRuns, SpillRuns
  <2>7. QED
    BY <2>1, <2>3, <2>4, <2>5, <2>6
<1>3. CASE \/ SpillRead(resp) \/ SpillPack(resp) \/ SpillRequest(ready, resp)
           \/ ReadBackRequest(ready, resp) \/ ReadBackWait(resp) \/ NeitherRuns(resp)
  <2>1. stack_bottom' = stack_bottom
    BY <1>3 DEF SpillRead, SpillPack, SpillRequest, ReadBackRequest, ReadBackWait, NeitherRuns
  <2>2. QED
    BY <2>1, <1>t, UsageIsDist
<1>4. QED
  BY <1>1, <1>2, <1>3 DEF MemoryPath

LEMMA BottomRoom ==
  ASSUME IInv, NEW ready \in BOOLEAN, NEW resp \in BOOLEAN, MemoryPath(ready, resp)
  PROVE  /\ Dist(stack_top, stack_bottom') \in 0 .. Entry - 1
         /\ \/ Dist(stack_top, stack_bottom') >= Usage
            \/ /\ MemoryBusy
               /\ Dist(stack_top, stack_bottom') >= TopCacheDepth + 1
               /\ slowPops < MaxPops => Dist(stack_top, stack_bottom') >= TopCacheDepth + 2
         /\ Usage < Entry - 1 => Dist(stack_top, stack_bottom') < Entry - 1
<1> DEFINE U == Dist(stack_top, stack_bottom')
<1>t. TypeOK /\ stack_top \in Slots /\ slowPops \in Nat /\ slowPops <= MaxPops
  BY DEF IInv, TypeOK, SpillMargin
<1>1. U \in 0 .. Entry - 1
  BY BottomMoves, DistType, <1>t
<1>2. Usage \in 0 .. Entry - 1 /\ CanReceive \in Nat /\ SpillNum \in 1 .. LineElems
  BY <1>t, LineNumbers
<1>3. CASE U = Usage \/ (U = Usage + CanReceive /\ Usage + CanReceive < Entry - 1)
  BY <1>1, <1>2, <1>3, ConstAssumption
<1>4. CASE spill.phase = "ISSUED" /\ U = Usage - SpillNum
  <2>1. Usage + slowPops + 1 >= SpillNeed /\ MemoryBusy
    BY <1>4 DEF IInv, SpillMargin, MemoryBusy
  <2>2. QED
    BY <1>1, <1>2, <1>4, <1>t, <2>1, ConstAssumption
<1>5. QED
  BY <1>3, <1>4, BottomMoves

(* What the memory path writes leaves the live slots alone. *)
LEMMA RingKeeps ==
  ASSUME TypeOK, NEW resp \in BOOLEAN, NEW P, NEW M, RingWrites(P, M, Received(resp)),
         NEW d \in 0 .. Usage - 1
  PROVE  /\ Dec(stack_top, d) \in Slots
         /\ Dec(stack_top, d) \notin P =>
              /\ stack_data'[Dec(stack_top, d)] = stack_data[Dec(stack_top, d)]
              /\ prefetched'[Dec(stack_top, d)]
                   = (Dec(stack_top, d) \in M \/ prefetched[Dec(stack_top, d)])
<1>1. Usage \in 0 .. Entry - 1 /\ d \in 0 .. Entry - 1 /\ CanReceive \in Nat
  BY LineNumbers, ConstAssumption
<1>2. Dec(stack_top, d) \in Slots
  BY <1>1, PointerTypes DEF TypeOK
<1>3. Dec(stack_top, d) \notin Received(resp)
  <2> SUFFICES ASSUME Dec(stack_top, d) \in Received(resp) PROVE FALSE
    OBVIOUS
  <2>1. PICK i \in 0 .. CanReceive - 1 :
            Dec(stack_top, d) = Dec(stack_top, Usage + i) /\ Usage + i < Entry - 1
    BY ReceivedBelow
  <2>2. Usage + i \in 0 .. Entry - 1 /\ d # Usage + i
    BY <1>1, <2>1, ConstAssumption
  <2>3. QED
    <3>1. stack_top \in Slots
      BY DEF TypeOK
    <3>2. QED
      BY <1>1, <2>1, <2>2, <3>1, DepthsDiffer
<1>4. QED
  BY <1>2, <1>3 DEF RingWrites, TypeOK

(* The slot above the top, written by a push, is not one ReadBack fills. *)
LEMMA PushedSlot ==
  ASSUME TypeOK, NEW resp \in BOOLEAN, Usage < Entry - 1
  PROVE  Inc(stack_top, 1) \in Slots /\ Inc(stack_top, 1) \notin Received(resp)
<1>1. stack_top \in Slots /\ 1 \in 0 .. Entry - 1 /\ CanReceive \in Nat /\ Usage \in Nat
  BY ConstAssumption, LineNumbers DEF TypeOK
<1>2. Inc(stack_top, 1) \notin Received(resp)
  <2> SUFFICES ASSUME Inc(stack_top, 1) \in Received(resp) PROVE FALSE
    OBVIOUS
  <2>1. PICK i \in 0 .. CanReceive - 1 :
            Inc(stack_top, 1) = Dec(stack_top, Usage + i) /\ Usage + i < Entry - 1
    BY ReceivedBelow
  <2>2. Usage + i \in 0 .. Entry - 2
    BY <1>1, <2>1, ConstAssumption
  <2>3. QED
    BY <1>1, <2>1, <2>2, PushShifts
<1>3. QED
  BY <1>1, <1>2, PointerTypes

(* The tasks ReadBack stores are tasks of the queue. *)
LEMMA ReceivedTasks ==
  ASSUME IInv, NEW ready \in BOOLEAN, NEW resp \in BOOLEAN, MemoryPath(ready, resp),
         NEW s \in Received(resp)
  PROVE  ReceivedTask(s) \in Tasks
<1>t. TypeOK
  BY DEF IInv
<1>1. PICK i \in 0 .. CanReceive - 1 : Dec(stack_bottom, s) = i
  BY <1>t, ReceivedBelow
<1>2. ReadBackRuns /\ readIssued /\ resp
  BY <1>t, ReceivedBelow
<1>3. read.valid /\ Usage <= ReadNeed
  BY <1>2 DEF MemoryPath, ReadBackRuns
<1>4. ~(Usage + slowPops + LineElems + 1 >= SpillNeed)
  <2>1. slowPops \in Nat /\ slowPops <= MaxPops
    BY DEF IInv, SpillMargin, TypeOK
  <2>2. Usage \in Nat
    BY <1>t, LineNumbers
  <2>3. QED
    BY <1>3, <2>1, <2>2, ConstAssumption
<1>5. read.data = [k \in 1 .. ReadNum |-> jvm_queue[queue_bottom - ReadNum + k - 1]]
  BY <1>3, <1>4 DEF IInv, ReadFresh
<1>6. ReadNum - i \in 1 .. ReadNum /\ ReadNum \in Nat /\ ReadNum <= queue_bottom
  BY <1>1, <1>t, LineNumbers, ConstAssumption
<1>7. queue_bottom - ReadNum + (ReadNum - i) - 1 \in 0 .. QueueSize - 1
  BY <1>6, <1>t, ConstAssumption DEF TypeOK
<1>8. QED
  BY <1>1, <1>5, <1>6, <1>7, <1>t DEF ReceivedTask, TypeOK

LEMMA RingTypes ==
  ASSUME IInv, NEW ready \in BOOLEAN, NEW resp \in BOOLEAN, MemoryPath(ready, resp),
         NEW P, NEW M, P # {} => pushes < MaxPush, RingWrites(P, M, Received(resp))
  PROVE  stack_data' \in [Slots -> Tasks] /\ prefetched' \in [Slots -> BOOLEAN]
<1>1. ASSUME P # {} PROVE NewTask \in Tasks
  BY <1>1, ConstAssumption DEF NewTask, IInv, TypeOK
<1>2. stack_data \in [Slots -> Tasks]
  BY DEF IInv, TypeOK
<1>3. \A s \in Received(resp) : ReceivedTask(s) \in Tasks
  BY ReceivedTasks
<1>4. stack_data' \in [Slots -> Tasks]
  <2>1. \A s \in Slots : (IF s \in Received(resp) THEN ReceivedTask(s)
                          ELSE IF s \in P THEN NewTask ELSE stack_data[s]) \in Tasks
    BY <1>1, <1>2, <1>3
  <2>2. QED
    BY <2>1 DEF RingWrites
<1>5. prefetched' \in [Slots -> BOOLEAN]
  BY DEF RingWrites
<1>6. QED
  BY <1>4, <1>5

(***************************************************************************)
(* TopCache stays the mirror of the top of the ring, one lemma per         *)
(* alternative of the fast path.                                           *)
(***************************************************************************)
LEMMA CacheFacts ==
  ASSUME IInv, state = "WORK"
  PROVE  /\ TypeOK /\ stack_top \in Slots /\ stack_bottom \in Slots
         /\ Usage \in 0 .. Entry - 1
         /\ topCacheCount \in 0 .. TopCacheDepth /\ topCacheCount <= Usage
         /\ \A i \in 0 .. topCacheCount - 1 :
               /\ topCache[i] \in CacheEntry
               /\ topCache[i].idx = Dec(stack_top, i)
               /\ topCache[i].data = stack_data[Dec(stack_top, i)]
               /\ topCache[i].prefetched = prefetched[Dec(stack_top, i)]
         /\ refill.valid =>
              /\ topCacheCount < Usage
              /\ refill.idx = Dec(stack_top, topCacheCount)
              /\ refill.data = stack_data[Dec(stack_top, topCacheCount)]
         /\ slowPops \in Nat /\ slowPops <= MaxPops
<1>1. TypeOK /\ TopCacheCoherent /\ SpillMargin
  BY DEF IInv
<1>2. Usage \in 0 .. Entry - 1
  BY <1>1, LineNumbers
<1>3. \A i \in 0 .. topCacheCount - 1 : topCache[i] \in CacheEntry
  BY <1>1 DEF TypeOK
<1>4. QED
  BY <1>1, <1>2, <1>3 DEF TypeOK, TopCacheCoherent, SpillMargin

LEMMA PushCoherent ==
  ASSUME IInv, state = "WORK", PushOnly,
         NEW ready \in BOOLEAN, NEW resp \in BOOLEAN, MemoryPath(ready, resp),
         RingWrites({Inc(stack_top, 1)}, {}, Received(resp))
  PROVE  /\ TopCacheCoherent' /\ stack_top' \in Slots
         /\ topCacheCount' = Least(topCacheCount + 1, TopCacheDepth)
         /\ Usage' = Dist(stack_top, stack_bottom') + 1
<1> DEFINE U == Dist(stack_top, stack_bottom')
<1>1. /\ TypeOK /\ stack_top \in Slots /\ Usage \in 0 .. Entry - 1
      /\ topCacheCount \in 0 .. TopCacheDepth /\ topCacheCount <= Usage
  BY CacheFacts
<1>2. Usage < Entry - 1
  <2>1. Free # 0 /\ Free = Entry - 1 - Usage
    BY <1>1, LineNumbers DEF PushOnly, CountPush, PushReady
  <2>2. QED
    BY <1>1, <2>1, ConstAssumption
<1>3. U \in 0 .. Entry - 2 /\ (U >= Usage \/ U >= TopCacheDepth + 1)
  <2>1. U \in 0 .. Entry - 1 /\ U < Entry - 1 /\ (U >= Usage \/ U >= TopCacheDepth + 1)
    BY <1>2, BottomRoom
  <2>2. QED
    BY <2>1, ConstAssumption
<1>4. stack_top' = Inc(stack_top, 1) /\ stack_top' \in Slots
  BY <1>1, <1>2, PushedSlot DEF PushOnly
<1>5. Usage' = U + 1
  <2>1. Usage' = Dist(stack_top', stack_bottom')
    BY DEF Usage, Dist
  <2>2. U < Entry - 1 /\ stack_bottom' \in Slots
    BY <1>3, BottomMoves, ConstAssumption
  <2>3. QED
    BY <1>1, <1>4, <2>1, <2>2, DistPush
<1>6. /\ topCacheCount' = Least(topCacheCount + 1, TopCacheDepth)
      /\ topCacheCount' \in Nat /\ topCacheCount' <= topCacheCount + 1
      /\ topCacheCount' <= TopCacheDepth
  BY <1>1, ConstAssumption DEF PushOnly, Least
<1>7. topCacheCount' <= Usage'
  BY <1>1, <1>3, <1>5, <1>6, ConstAssumption
<1>8. ASSUME NEW i \in 0 .. topCacheCount' - 1
      PROVE  /\ topCache'[i].idx = Dec(stack_top', i)
             /\ topCache'[i].data = stack_data'[topCache'[i].idx]
             /\ topCache'[i].prefetched = prefetched'[topCache'[i].idx]
  <2>1. topCache'[i] = IF i = 0 THEN NewEntry(Inc(stack_top, 1)) ELSE topCache[i - 1]
    BY <1>6 DEF PushOnly
  <2>2. CASE i = 0
    <3>1. Inc(stack_top, 1) \in Slots /\ Inc(stack_top, 1) \notin Received(resp)
      BY <1>1, <1>2, PushedSlot
    <3>2. stack_data'[Inc(stack_top, 1)] = NewTask /\ prefetched'[Inc(stack_top, 1)] = FALSE
      BY <3>1 DEF RingWrites
    <3>3. Dec(stack_top', 0) = Inc(stack_top, 1)
      BY <1>4, DecZero
    <3>4. topCache'[i] = [data |-> NewTask, idx |-> Inc(stack_top, 1), prefetched |-> FALSE]
      BY <2>1, <2>2 DEF NewEntry
    <3>5. Dec(stack_top', i) = Inc(stack_top, 1)
      BY <2>2, <3>3
    <3>6. /\ topCache'[i].idx = Inc(stack_top, 1)
          /\ topCache'[i].data = NewTask
          /\ topCache'[i].prefetched = FALSE
      BY <3>4
    <3>7. QED
      BY <3>2, <3>5, <3>6
  <2>3. CASE i # 0
    <3>1. i - 1 \in 0 .. topCacheCount - 1 /\ i - 1 \in 0 .. Usage - 1 /\ i - 1 \in 0 .. Entry - 2
      BY <1>1, <1>2, <1>6, <2>3, ConstAssumption
    <3>2. /\ topCache[i - 1].idx = Dec(stack_top, i - 1)
          /\ topCache[i - 1].data = stack_data[Dec(stack_top, i - 1)]
          /\ topCache[i - 1].prefetched = prefetched[Dec(stack_top, i - 1)]
      BY <3>1, CacheFacts
    <3>3. /\ Dec(Inc(stack_top, 1), (i - 1) + 1) = Dec(stack_top, i - 1)
          /\ Inc(stack_top, 1) # Dec(stack_top, i - 1)
      BY <1>1, <3>1, PushShifts
    <3>4. (i - 1) + 1 = i
      BY <2>3
    <3>5. /\ stack_data'[Dec(stack_top, i - 1)] = stack_data[Dec(stack_top, i - 1)]
          /\ prefetched'[Dec(stack_top, i - 1)] = prefetched[Dec(stack_top, i - 1)]
      <4>1. Dec(stack_top, i - 1) \notin {Inc(stack_top, 1)}
        BY <3>3
      <4>2. prefetched[Dec(stack_top, i - 1)] \in BOOLEAN
        <5>1. Dec(stack_top, i - 1) \in Slots
          BY <1>1, <3>1, RingKeeps
        <5>2. QED
          BY <1>1, <5>1 DEF TypeOK
      <4>3. QED
        BY <1>1, <3>1, <4>1, <4>2, RingKeeps
    <3>6. topCache'[i] = topCache[i - 1] /\ Dec(stack_top', i) = Dec(stack_top, i - 1)
      BY <1>4, <2>1, <2>3, <3>3, <3>4
    <3>7. QED
      BY <3>2, <3>5, <3>6
  <2>4. QED
    BY <2>2, <2>3
<1>9. ~refill'.valid
  BY DEF PushOnly, RefillRequest, RefillReq, NoRefill
<1>10. QED
  BY <1>4, <1>5, <1>6, <1>7, <1>8, <1>9 DEF TopCacheCoherent

LEMMA PushPopCoherent ==
  ASSUME IInv, state = "WORK", PushAndPop,
         NEW ready \in BOOLEAN, NEW resp \in BOOLEAN, MemoryPath(ready, resp),
         RingWrites({stack_top}, {}, Received(resp))
  PROVE  /\ TopCacheCoherent' /\ stack_top' = stack_top
         /\ topCacheCount' = topCacheCount /\ topCacheCount > 0
         /\ Usage' = Dist(stack_top, stack_bottom')
<1> DEFINE U == Dist(stack_top, stack_bottom')
<1>1. /\ TypeOK /\ stack_top \in Slots /\ Usage \in 0 .. Entry - 1
      /\ topCacheCount \in 0 .. TopCacheDepth /\ topCacheCount <= Usage
  BY CacheFacts
<1>2. /\ stack_top' = stack_top /\ topCacheCount' = topCacheCount /\ topCacheCount > 0
      /\ topCache' = [topCache EXCEPT ![0] = NewEntry(stack_top)]
  BY <1>1, ConstAssumption DEF PushAndPop, MayPop, PopValid
<1>3. Usage' = U /\ U >= topCacheCount
  <2>1. U \in Nat /\ (U >= Usage \/ U >= TopCacheDepth + 1)
    BY BottomRoom, ConstAssumption
  <2>2. Usage' = U
    BY <1>2 DEF Usage, Dist
  <2>3. QED
    BY <1>1, <2>1, <2>2, ConstAssumption
<1>4. topCache \in [0 .. topCacheCount - 1 -> CacheEntry] /\ 0 \in 0 .. topCacheCount - 1
  BY <1>1, <1>2, ConstAssumption DEF TypeOK
<1>5. ASSUME NEW i \in 0 .. topCacheCount' - 1
      PROVE  /\ topCache'[i].idx = Dec(stack_top', i)
             /\ topCache'[i].data = stack_data'[topCache'[i].idx]
             /\ topCache'[i].prefetched = prefetched'[topCache'[i].idx]
  <2>d. i \in 0 .. Usage - 1 /\ i \in 0 .. Entry - 1 /\ Usage > 0 /\ 0 \in 0 .. Usage - 1
    BY <1>1, <1>2, ConstAssumption
  <2>1. CASE i = 0
    <3>1. Dec(stack_top', i) = stack_top
      BY <1>1, <1>2, <2>1, DecZero
    <3>2. stack_top \notin Received(resp)
      <4> SUFFICES ASSUME stack_top \in Received(resp) PROVE FALSE
        OBVIOUS
      <4>1. PICK k \in 0 .. CanReceive - 1 :
                stack_top = Dec(stack_top, Usage + k) /\ Usage + k < Entry - 1
        BY <1>1, ReceivedBelow
      <4>2. Usage + k \in 0 .. Entry - 1 /\ Usage + k # 0 /\ 0 \in 0 .. Entry - 1
        BY <1>1, <2>d, <4>1, LineNumbers, ConstAssumption
      <4>3. Dec(stack_top, 0) = Dec(stack_top, Usage + k)
        BY <1>1, <4>1, DecZero
      <4>4. QED
        BY <1>1, <4>2, <4>3, DepthsDiffer
    <3>3. stack_data'[stack_top] = NewTask /\ prefetched'[stack_top] = FALSE
      BY <1>1, <3>2 DEF RingWrites
    <3>4. topCache'[i] = [data |-> NewTask, idx |-> stack_top, prefetched |-> FALSE]
      BY <1>2, <1>4, <2>1 DEF NewEntry
    <3>5. /\ topCache'[i].idx = stack_top
          /\ topCache'[i].data = NewTask
          /\ topCache'[i].prefetched = FALSE
      BY <3>4
    <3>6. QED
      BY <3>1, <3>3, <3>5
  <2>2. CASE i # 0
    <3>1. topCache'[i] = topCache[i]
      BY <1>2, <1>4, <2>2
    <3>2. /\ topCache[i].idx = Dec(stack_top, i)
          /\ topCache[i].data = stack_data[Dec(stack_top, i)]
          /\ topCache[i].prefetched = prefetched[Dec(stack_top, i)]
      BY <1>2, CacheFacts
    <3>3. Dec(stack_top, i) # stack_top /\ Dec(stack_top, i) \in Slots
      <4>1. Dec(stack_top, 0) = stack_top /\ 0 \in 0 .. Entry - 1
        BY <1>1, <2>d, DecZero, ConstAssumption
      <4>2. QED
        BY <1>1, <2>d, <2>2, <4>1, DepthsDiffer, PointerTypes
    <3>4. /\ stack_data'[Dec(stack_top, i)] = stack_data[Dec(stack_top, i)]
          /\ prefetched'[Dec(stack_top, i)] = prefetched[Dec(stack_top, i)]
      <4>1. prefetched[Dec(stack_top, i)] \in BOOLEAN
        BY <1>1, <3>3 DEF TypeOK
      <4>2. QED
        BY <1>1, <2>d, <3>3, <4>1, RingKeeps
    <3>5. QED
      BY <1>2, <3>1, <3>2, <3>4
  <2>3. QED
    BY <2>1, <2>2
<1>6. ~refill'.valid
  BY DEF PushAndPop, RefillRequest, RefillReq, NoRefill
<1>7. QED
  BY <1>2, <1>3, <1>5, <1>6 DEF TopCacheCoherent

(* The entry requested from the ring in a cycle without a push is the one  *)
(* that follows the cached entries when the cycle ends.                    *)
LEMMA RefillFollows ==
  ASSUME IInv, state = "WORK", NEW pop \in BOOLEAN, pop => topCacheCount > 0,
         NEW resp \in BOOLEAN, NEW M, RingWrites({}, M, Received(resp)),
         RefillRequest(FALSE, pop)
  PROVE  LET off == RefillOffset(FALSE, pop)
         IN  /\ off \in Nat /\ off >= topCacheCount /\ off <= topCacheCount + 1
             /\ off <= Usage /\ off <= TopCacheDepth + (IF pop THEN 1 ELSE 0)
             /\ off > topCacheCount => /\ refill.valid
                                       /\ AppendAllowed(FALSE, pop)
                                       /\ topCacheCount < Usage
             /\ refill' \in [valid : BOOLEAN, idx : Slots, data : Tasks]
             /\ refill'.valid => /\ off < Usage
                                 /\ refill'.idx = Dec(stack_top, off)
                                 /\ refill'.data = stack_data'[Dec(stack_top, off)]
<1> DEFINE off == RefillOffset(FALSE, pop)
<1>1. /\ TypeOK /\ stack_top \in Slots /\ Usage \in 0 .. Entry - 1
      /\ topCacheCount \in 0 .. TopCacheDepth /\ topCacheCount <= Usage
      /\ refill.valid => topCacheCount < Usage
  BY CacheFacts
<1>2. /\ off \in Nat /\ off >= topCacheCount /\ off <= topCacheCount + 1
      /\ off <= Usage /\ off <= TopCacheDepth + (IF pop THEN 1 ELSE 0)
      /\ off > topCacheCount => /\ refill.valid
                                /\ AppendAllowed(FALSE, pop)
                                /\ topCacheCount < Usage
  BY <1>1, ConstAssumption DEF RefillOffset, AppendAllowed
<1>3. CASE ~RefillReq(FALSE, pop)
  <2>1. refill' = NoRefill
    BY <1>3 DEF RefillRequest
  <2>2. 0 \in Slots /\ JvmQueue[0] \in Tasks
    BY ConstAssumption DEF Slots
  <2>3. QED
    BY <1>2, <2>1, <2>2 DEF NoRefill
<1>4. CASE RefillReq(FALSE, pop)
  <2>1. off < Usage
    BY <1>1, <1>2, <1>4 DEF RefillReq
  <2>2. refill' = [valid |-> TRUE, idx |-> Dec(stack_top, off),
                   data |-> stack_data[Dec(stack_top, off)]]
    BY <1>4 DEF RefillRequest
  <2>3. off \in 0 .. Usage - 1
    <3>1. off \in Nat
      BY <1>2
    <3>u. Usage \in Nat
      BY <1>1, ConstAssumption
    <3> HIDE DEF off
    <3>2. QED
      BY <2>1, <3>1, <3>u
  <2>4. /\ Dec(stack_top, off) \in Slots
        /\ stack_data'[Dec(stack_top, off)] = stack_data[Dec(stack_top, off)]
    <3> HIDE DEF off
    <3>1. Dec(stack_top, off) \notin {}
      OBVIOUS
    <3>2. QED
      BY <1>1, <2>3, <3>1, RingKeeps
  <2>5. stack_data[Dec(stack_top, off)] \in Tasks
    BY <1>1, <2>4 DEF TypeOK
  <2>6. QED
    BY <1>2, <2>1, <2>2, <2>4, <2>5
<1>5. QED
  BY <1>3, <1>4

(* The entry a refill appends is a cached entry of the ring like the others. *)
LEMMA RefillEntryFacts ==
  ASSUME IInv, state = "WORK", refill.valid, NEW resp \in BOOLEAN, NEW M,
         RingWrites({}, M, Received(resp)), Dec(stack_top, topCacheCount) \notin M
  PROVE  /\ RefillEntry.idx = Dec(stack_top, topCacheCount)
         /\ RefillEntry.data = stack_data'[Dec(stack_top, topCacheCount)]
         /\ RefillEntry.prefetched = prefetched'[Dec(stack_top, topCacheCount)]
         /\ RefillEntry \in CacheEntry
<1>1. /\ TypeOK /\ stack_top \in Slots /\ Usage \in 0 .. Entry - 1
      /\ topCacheCount \in 0 .. TopCacheDepth /\ topCacheCount < Usage
      /\ refill.idx = Dec(stack_top, topCacheCount)
      /\ refill.data = stack_data[Dec(stack_top, topCacheCount)]
  BY CacheFacts
<1>2. topCacheCount \in 0 .. Usage - 1
  BY <1>1, ConstAssumption
<1>3. /\ Dec(stack_top, topCacheCount) \in Slots
      /\ stack_data'[Dec(stack_top, topCacheCount)] = stack_data[Dec(stack_top, topCacheCount)]
      /\ prefetched'[Dec(stack_top, topCacheCount)]
           = (Dec(stack_top, topCacheCount) \in M \/ prefetched[Dec(stack_top, topCacheCount)])
  <2>1. Dec(stack_top, topCacheCount) \notin {}
    OBVIOUS
  <2>2. QED
    BY <1>1, <1>2, <2>1, RingKeeps
<1>4. /\ prefetched[Dec(stack_top, topCacheCount)] \in BOOLEAN
      /\ stack_data[Dec(stack_top, topCacheCount)] \in Tasks
  BY <1>1, <1>3 DEF TypeOK
<1>5. prefetched'[Dec(stack_top, topCacheCount)] = prefetched[Dec(stack_top, topCacheCount)]
  BY <1>3, <1>4
<1>6. /\ RefillEntry.idx = Dec(stack_top, topCacheCount)
      /\ RefillEntry.data = stack_data[Dec(stack_top, topCacheCount)]
      /\ RefillEntry.prefetched = prefetched[Dec(stack_top, topCacheCount)]
  BY <1>1 DEF RefillEntry
<1>7. RefillEntry \in CacheEntry
  BY <1>1, <1>3, <1>4 DEF RefillEntry, CacheEntry
<1>8. QED
  BY <1>3, <1>5, <1>6, <1>7

(* A cached entry still mirrors its slot at the end of the cycle. *)
LEMMA CachedStays ==
  ASSUME IInv, state = "WORK", NEW resp \in BOOLEAN, NEW M,
         RingWrites({}, M, Received(resp)), NEW i \in 0 .. topCacheCount - 1
  PROVE  /\ topCache[i] \in CacheEntry
         /\ topCache[i].idx = Dec(stack_top, i)
         /\ topCache[i].data = stack_data'[Dec(stack_top, i)]
         /\ Dec(stack_top, i) \notin M =>
              topCache[i].prefetched = prefetched'[Dec(stack_top, i)]
         /\ Dec(stack_top, i) \in M => prefetched'[Dec(stack_top, i)] = TRUE
<1>1. /\ TypeOK /\ stack_top \in Slots /\ Usage \in 0 .. Entry - 1
      /\ topCacheCount \in 0 .. TopCacheDepth /\ topCacheCount <= Usage
  BY CacheFacts
<1>2. i \in 0 .. Usage - 1
  BY <1>1, ConstAssumption
<1>3. /\ topCache[i] \in CacheEntry
      /\ topCache[i].idx = Dec(stack_top, i)
      /\ topCache[i].data = stack_data[Dec(stack_top, i)]
      /\ topCache[i].prefetched = prefetched[Dec(stack_top, i)]
  BY CacheFacts
<1>4. /\ Dec(stack_top, i) \in Slots
      /\ stack_data'[Dec(stack_top, i)] = stack_data[Dec(stack_top, i)]
      /\ prefetched'[Dec(stack_top, i)]
           = (Dec(stack_top, i) \in M \/ prefetched[Dec(stack_top, i)])
  <2>1. Dec(stack_top, i) \notin {}
    OBVIOUS
  <2>2. QED
    BY <1>1, <1>2, <2>1, RingKeeps
<1>5. prefetched[Dec(stack_top, i)] \in BOOLEAN
  BY <1>1, <1>4 DEF TypeOK
<1>6. Dec(stack_top, i) \notin M =>
        prefetched'[Dec(stack_top, i)] = prefetched[Dec(stack_top, i)]
  BY <1>4, <1>5
<1>7. Dec(stack_top, i) \in M => prefetched'[Dec(stack_top, i)] = TRUE
  BY <1>4
<1>8. QED
  BY <1>3, <1>4, <1>6, <1>7

LEMMA PopCoherent ==
  ASSUME IInv, state = "WORK", PopOnly,
         NEW ready \in BOOLEAN, NEW resp \in BOOLEAN, MemoryPath(ready, resp),
         RingWrites({}, {}, Received(resp))
  PROVE  /\ TopCacheCoherent' /\ stack_top' \in Slots
         /\ topCacheCount' \in 0 .. TopCacheDepth
         /\ topCache' \in [0 .. topCacheCount' - 1 -> CacheEntry]
         /\ Usage' = Dist(stack_top, stack_bottom') - 1
<1> DEFINE U == Dist(stack_top, stack_bottom')
           off == RefillOffset(FALSE, TRUE)
<1>1. /\ TypeOK /\ stack_top \in Slots /\ stack_bottom \in Slots /\ Usage \in 0 .. Entry - 1
      /\ topCacheCount \in 0 .. TopCacheDepth /\ topCacheCount <= Usage
  BY CacheFacts
<1>2. /\ topCacheCount > 0 /\ (MemoryBusy => slowPops < MaxPops)
      /\ stack_top' = Dec(stack_top, 1) /\ topCacheCount' = off - 1
      /\ RefillRequest(FALSE, TRUE)
      /\ topCache' = [i \in 0 .. off - 2 |->
                        IF i = topCacheCount - 1 THEN RefillEntry ELSE topCache[i + 1]]
  <2>1. MayPop /\ topCacheCount # 0
    BY DEF PopOnly, MayPop, PopValid
  <2>2. topCacheCount > 0
    BY <1>1, <2>1, ConstAssumption
  <2>3. MemoryBusy => slowPops < MaxPops
    BY <2>1 DEF MayPop
  <2>4. QED
    BY <2>2, <2>3 DEF PopOnly
<1>3. /\ off \in Nat /\ off >= topCacheCount /\ off <= topCacheCount + 1
      /\ off <= Usage /\ off <= TopCacheDepth + 1
      /\ off > topCacheCount => refill.valid
      /\ refill'.valid => /\ off < Usage
                          /\ refill'.idx = Dec(stack_top, off)
                          /\ refill'.data = stack_data'[Dec(stack_top, off)]
  BY <1>2, RefillFollows
<1> HIDE DEF off
<1>4. /\ off \in 1 .. TopCacheDepth + 1 /\ off <= Usage /\ Usage < Entry /\ Usage > 0
      /\ off = topCacheCount \/ off = topCacheCount + 1
  BY <1>1, <1>2, <1>3, ConstAssumption
<1>5. U \in 0 .. Entry - 1 /\ (U >= Usage \/ U >= TopCacheDepth + 2)
  <2>1. \/ U >= Usage
        \/ MemoryBusy /\ (slowPops < MaxPops => U >= TopCacheDepth + 2)
    BY BottomRoom
  <2>2. U \in 0 .. Entry - 1
    BY BottomRoom
  <2>3. QED
    BY <1>2, <2>1, <2>2
<1>a. /\ TopCacheDepth \in Nat /\ Entry \in Nat /\ Usage \in Nat /\ U \in Nat /\ off \in Nat
      /\ topCacheCount \in Nat
  BY <1>1, <1>4, <1>5, ConstAssumption
<1>6. stack_top' \in Slots /\ Usage' = U - 1
  <2>1. U > 0 /\ 1 \in 0 .. Entry - 1
    <3> HIDE DEF U
    <3>1. QED
      BY <1>a, <1>4, <1>5
  <2>3. stack_bottom' \in Slots
    BY BottomMoves
  <2>2. Usage' = Dist(stack_top', stack_bottom')
    BY DEF Usage, Dist
  <2>4. QED
    BY <1>1, <1>2, <2>1, <2>2, <2>3, DistPop, PointerTypes
<1> HIDE DEF U
<1>7. topCacheCount' <= Usage' /\ topCacheCount' \in 0 .. TopCacheDepth
  BY <1>a, <1>2, <1>4, <1>5, <1>6
<1>8. ASSUME NEW i \in 0 .. topCacheCount' - 1
      PROVE  /\ topCache'[i] \in CacheEntry
             /\ topCache'[i].idx = Dec(stack_top', i)
             /\ topCache'[i].data = stack_data'[topCache'[i].idx]
             /\ topCache'[i].prefetched = prefetched'[topCache'[i].idx]
  <2>1. i \in 0 .. off - 2 /\ i \in 0 .. Entry - 2 /\ i + 1 \in Nat
    BY <1>2, <1>4, ConstAssumption
  <2>2. Dec(stack_top', i) = Dec(stack_top, i + 1)
    BY <1>1, <1>2, <2>1, PopShifts
  <2>3. topCache'[i] = IF i = topCacheCount - 1 THEN RefillEntry ELSE topCache[i + 1]
    BY <1>2, <2>1
  <2>n. Dec(stack_top, i + 1) \notin {}
    OBVIOUS
  <2>4. CASE i = topCacheCount - 1
    <3>1. refill.valid /\ i + 1 = topCacheCount
      BY <1>1, <1>3, <1>4, <2>1, <2>4
    <3>2. Dec(stack_top, topCacheCount) \notin {}
      OBVIOUS
    <3>3. /\ RefillEntry.idx = Dec(stack_top, i + 1)
          /\ RefillEntry.data = stack_data'[Dec(stack_top, i + 1)]
          /\ RefillEntry.prefetched = prefetched'[Dec(stack_top, i + 1)]
          /\ RefillEntry \in CacheEntry
      BY <3>1, <3>2, RefillEntryFacts
    <3>4. QED
      BY <2>2, <2>3, <2>4, <3>3
  <2>5. CASE i # topCacheCount - 1
    <3>1. i + 1 \in 0 .. topCacheCount - 1
      BY <1>1, <1>4, <2>1, <2>5, ConstAssumption
    <3>2. /\ topCache[i + 1] \in CacheEntry
          /\ topCache[i + 1].idx = Dec(stack_top, i + 1)
          /\ topCache[i + 1].data = stack_data'[Dec(stack_top, i + 1)]
          /\ topCache[i + 1].prefetched = prefetched'[Dec(stack_top, i + 1)]
      BY <2>n, <3>1, CachedStays
    <3>3. QED
      BY <2>2, <2>3, <2>5, <3>2
  <2>6. QED
    BY <2>4, <2>5
<1>9. topCache' \in [0 .. topCacheCount' - 1 -> CacheEntry]
  <2>1. topCacheCount' - 1 = off - 2
    BY <1>2, <1>4
  <2>2. QED
    BY <1>2, <1>8, <2>1
<1>10. refill'.valid => /\ topCacheCount' < Usage'
                        /\ refill'.idx = Dec(stack_top', topCacheCount')
                        /\ refill'.data = stack_data'[refill'.idx]
  <2> SUFFICES ASSUME refill'.valid
               PROVE  /\ topCacheCount' < Usage'
                      /\ refill'.idx = Dec(stack_top', topCacheCount')
                      /\ refill'.data = stack_data'[refill'.idx]
    OBVIOUS
  <2>1. off < Usage /\ topCacheCount' \in 0 .. Entry - 2 /\ topCacheCount' + 1 = off
    BY <1>2, <1>3, <1>4, <1>1, ConstAssumption
  <2>2. topCacheCount' < Usage'
    BY <1>a, <1>2, <1>4, <1>5, <1>6, <2>1
  <2>3. Dec(stack_top', topCacheCount') = Dec(stack_top, off)
    BY <1>1, <1>2, <2>1, PopShifts
  <2>4. QED
    BY <1>3, <2>2, <2>3
<1> USE DEF U
<1>11. QED
  BY <1>6, <1>7, <1>8, <1>9, <1>10 DEF TopCacheCoherent

(* A cycle without push and pop, apart from the mark PrePop sets. *)
LEMMA QuietFacts ==
  ASSUME IInv, state = "WORK", NoPushPop,
         NEW ready \in BOOLEAN, NEW resp \in BOOLEAN, MemoryPath(ready, resp),
         NEW M, RingWrites({}, M, Received(resp)),
         refill.valid => Dec(stack_top, topCacheCount) \notin M
  PROVE  /\ stack_top' = stack_top /\ stack_top \in Slots
         /\ topCacheCount' \in 0 .. TopCacheDepth /\ topCacheCount' >= topCacheCount
         /\ Usage' = Dist(stack_top, stack_bottom') /\ topCacheCount' <= Usage'
         /\ refill'.valid => /\ topCacheCount' < Usage'
                             /\ refill'.idx = Dec(stack_top', topCacheCount')
                             /\ refill'.data = stack_data'[refill'.idx]
         /\ DOMAIN Appended = 0 .. topCacheCount' - 1
         /\ \A i \in 0 .. topCacheCount' - 1 :
               /\ Appended[i] \in CacheEntry
               /\ Appended[i].idx = Dec(stack_top', i)
               /\ Appended[i].data = stack_data'[Dec(stack_top', i)]
               /\ Dec(stack_top, i) \notin M =>
                    Appended[i].prefetched = prefetched'[Dec(stack_top', i)]
               /\ i < topCacheCount => Appended[i] = topCache[i]
<1> DEFINE U == Dist(stack_top, stack_bottom')
           off == RefillOffset(FALSE, FALSE)
<1>1. /\ TypeOK /\ stack_top \in Slots /\ stack_bottom \in Slots /\ Usage \in 0 .. Entry - 1
      /\ topCacheCount \in 0 .. TopCacheDepth /\ topCacheCount <= Usage
  BY CacheFacts
<1>2. stack_top' = stack_top /\ topCacheCount' = off /\ RefillRequest(FALSE, FALSE)
  BY DEF NoPushPop
<1>3. /\ off \in Nat /\ off >= topCacheCount /\ off <= topCacheCount + 1
      /\ off <= Usage /\ off <= TopCacheDepth
      /\ off > topCacheCount => refill.valid
      /\ refill'.valid => /\ off < Usage
                          /\ refill'.idx = Dec(stack_top, off)
                          /\ refill'.data = stack_data'[Dec(stack_top, off)]
  <2>1. TopCacheDepth + 0 = TopCacheDepth
    BY ConstAssumption
  <2>2. QED
    BY <1>2, <2>1, RefillFollows
<1>4. DOMAIN Appended = 0 .. off - 1 /\ \A i \in 0 .. off - 1 :
        Appended[i] = IF i = topCacheCount THEN RefillEntry ELSE topCache[i]
  BY DEF Appended
<1> HIDE DEF off
<1>5. U \in 0 .. Entry - 1 /\ (U >= Usage \/ U >= TopCacheDepth + 1)
  BY BottomRoom
<1>6. Usage' = U
  BY <1>2 DEF Usage, Dist
<1>a. /\ TopCacheDepth \in Nat /\ Entry \in Nat /\ Usage \in Nat /\ U \in Nat
      /\ topCacheCount \in Nat /\ off \in Nat
      /\ off >= topCacheCount /\ off <= topCacheCount + 1 /\ off <= Usage /\ off <= TopCacheDepth
  BY <1>1, <1>3, <1>5, ConstAssumption
<1> HIDE DEF U
<1>7. /\ topCacheCount' \in 0 .. TopCacheDepth /\ topCacheCount' >= topCacheCount
      /\ topCacheCount' <= Usage'
  BY <1>a, <1>2, <1>5, <1>6
<1>8. refill'.valid => /\ topCacheCount' < Usage'
                       /\ refill'.idx = Dec(stack_top', topCacheCount')
                       /\ refill'.data = stack_data'[refill'.idx]
  <2> SUFFICES ASSUME refill'.valid
               PROVE  /\ topCacheCount' < Usage'
                      /\ refill'.idx = Dec(stack_top', topCacheCount')
                      /\ refill'.data = stack_data'[refill'.idx]
    OBVIOUS
  <2>1. off < Usage
    BY <1>3
  <2>2. topCacheCount' < Usage'
    BY <1>a, <1>2, <1>5, <1>6, <2>1
  <2>3. QED
    BY <1>2, <1>3, <2>2
<1>9. ASSUME NEW i \in 0 .. topCacheCount' - 1
      PROVE  /\ Appended[i] \in CacheEntry
             /\ Appended[i].idx = Dec(stack_top', i)
             /\ Appended[i].data = stack_data'[Dec(stack_top', i)]
             /\ Dec(stack_top, i) \notin M =>
                  Appended[i].prefetched = prefetched'[Dec(stack_top', i)]
             /\ i < topCacheCount => Appended[i] = topCache[i]
  <2>1. i \in 0 .. off - 1
    BY <1>2
  <2>2. CASE i = topCacheCount
    <3>1. refill.valid
      BY <1>a, <1>3, <2>1, <2>2
    <3>2. Appended[i] = RefillEntry /\ ~(i < topCacheCount)
      BY <1>a, <1>4, <2>1, <2>2
    <3>3. /\ RefillEntry.idx = Dec(stack_top, i)
          /\ RefillEntry.data = stack_data'[Dec(stack_top, i)]
          /\ RefillEntry.prefetched = prefetched'[Dec(stack_top, i)]
          /\ RefillEntry \in CacheEntry
      BY <2>2, <3>1, RefillEntryFacts
    <3>4. QED
      BY <1>2, <3>2, <3>3
  <2>3. CASE i # topCacheCount
    <3>1. i \in 0 .. topCacheCount - 1
      BY <1>a, <2>1, <2>3
    <3>2. Appended[i] = topCache[i]
      BY <1>4, <2>1, <2>3
    <3>3. /\ topCache[i] \in CacheEntry
          /\ topCache[i].idx = Dec(stack_top, i)
          /\ topCache[i].data = stack_data'[Dec(stack_top, i)]
          /\ Dec(stack_top, i) \notin M =>
               topCache[i].prefetched = prefetched'[Dec(stack_top, i)]
      BY <3>1, CachedStays
    <3>4. QED
      BY <1>2, <3>2, <3>3
  <2>4. QED
    BY <2>2, <2>3
<1> USE DEF U
<1>10. QED
  BY <1>1, <1>2, <1>4, <1>6, <1>7, <1>8, <1>9

LEMMA QuietCoherent ==
  ASSUME IInv, state = "WORK", NoMove,
         NEW ready \in BOOLEAN, NEW resp \in BOOLEAN, MemoryPath(ready, resp),
         RingWrites({}, {}, Received(resp))
  PROVE  /\ TopCacheCoherent'
         /\ topCache' \in [0 .. topCacheCount' - 1 -> CacheEntry]
<1>1. NoPushPop /\ topCache' = Appended
  BY DEF NoMove
<1>2. \A s : s \notin {}
  OBVIOUS
<1>3. /\ topCacheCount' <= Usage'
      /\ refill'.valid => /\ topCacheCount' < Usage'
                          /\ refill'.idx = Dec(stack_top', topCacheCount')
                          /\ refill'.data = stack_data'[refill'.idx]
  BY <1>1, <1>2, QuietFacts
<1>4. \A i \in 0 .. topCacheCount' - 1 :
         /\ Appended[i].idx = Dec(stack_top', i)
         /\ Appended[i].data = stack_data'[Dec(stack_top', i)]
         /\ Appended[i].prefetched = prefetched'[Dec(stack_top', i)]
  BY <1>1, <1>2, QuietFacts
<1>5. /\ DOMAIN Appended = 0 .. topCacheCount' - 1
      /\ \A i \in 0 .. topCacheCount' - 1 : Appended[i] \in CacheEntry
  BY <1>1, <1>2, QuietFacts
<1>6. topCache' \in [0 .. topCacheCount' - 1 -> CacheEntry]
  BY <1>1, <1>5 DEF Appended
<1>7. QED
  BY <1>1, <1>3, <1>4, <1>6 DEF TopCacheCoherent

(* Every non-empty set of numbers has a least one. *)
LEMMA LeastCandidate ==
  ASSUME NEW S, S \subseteq Nat, S # {}
  PROVE  \E x \in S : \A j \in S : x <= j
<1>1. \E x \in S : \A y \in S : <<y, x>> \notin OpToRel(<, Nat)
  BY NatLessThanWellFounded, WFMin
<1>2. PICK x \in S : \A y \in S : <<y, x>> \notin OpToRel(<, Nat)
  BY <1>1
<1>3. \A y \in S : ~(y < x)
  BY <1>2 DEF OpToRel
<1>4. QED
  BY <1>3

LEMMA PrePopCoherent ==
  ASSUME IInv, state = "WORK", PrePop,
         NEW ready \in BOOLEAN, NEW resp \in BOOLEAN, MemoryPath(ready, resp),
         RingWrites({}, {topCache[PrePopOffset].idx}, Received(resp))
  PROVE  /\ TopCacheCoherent' /\ NoPushPop
         /\ topCache' \in [0 .. topCacheCount' - 1 -> CacheEntry]
         /\ PrePopOffset \in 0 .. topCacheCount - 1
         /\ topCacheCount' \in 0 .. TopCacheDepth /\ topCacheCount' >= topCacheCount
         /\ \A i \in 0 .. topCacheCount - 1 : i # PrePopOffset => topCache'[i] = topCache[i]
<1> DEFINE o == PrePopOffset
           M == {topCache[o].idx}
<1>1. /\ TypeOK /\ stack_top \in Slots /\ Usage \in 0 .. Entry - 1
      /\ topCacheCount \in 0 .. TopCacheDepth /\ topCacheCount <= Usage
      /\ refill.valid => topCacheCount < Usage
  BY CacheFacts
<1>2. /\ NoPushPop /\ PrePopHit
      /\ topCache' = [Appended EXCEPT ![o].prefetched = TRUE]
  BY DEF PrePop, PrePopValid
<1>3. o \in 0 .. topCacheCount - 1
  <2>1. CASE PushFollowMode
    <3>1. o = PushFollowOffset /\ PushFollowOffset < topCacheCount
      BY <1>2, <2>1 DEF PrePopHit, PrePopOffset
    <3>2. PushFollowOffset \in Nat
      BY <1>1 DEF PushFollowOffset, TypeOK
    <3>3. topCacheCount \in Nat
      BY <1>1, ConstAssumption
    <3> HIDE DEF o
    <3>4. QED
      BY <3>1, <3>2, <3>3
  <2>2. CASE ~PushFollowMode
    <3>1. NormalCandidates # {}
      BY <1>2, <2>2 DEF PrePopHit
    <3>2. \A x \in NormalCandidates : x \in 1 .. topCacheCount - 1
      <4>1. \A x \in NormalCandidates : x \in 1 .. Least(ScanWindow, topCacheCount - 1)
        BY DEF NormalCandidates
      <4>2. /\ Least(ScanWindow, topCacheCount - 1) <= topCacheCount - 1
            /\ Least(ScanWindow, topCacheCount - 1) \in Int
        BY <1>1, ConstAssumption DEF Least
      <4>3. topCacheCount \in Nat
        BY <1>1, ConstAssumption
      <4>4. QED
        BY <4>1, <4>2, <4>3
    <3>3. \E x \in NormalCandidates : \A j \in NormalCandidates : x <= j
      <4>1. NormalCandidates \subseteq Nat
        BY <1>1, <3>2, ConstAssumption
      <4>2. QED
        BY <3>1, <4>1, LeastCandidate
    <3>4. o \in NormalCandidates
      BY <2>2, <3>3 DEF PrePopOffset
    <3>5. QED
      BY <1>1, <3>2, <3>4, ConstAssumption
  <2>3. QED
    BY <2>1, <2>2
<1>4. topCache[o].idx = Dec(stack_top, o)
  BY <1>3, CacheFacts
<1> HIDE DEF o
<1>5. /\ topCacheCount \in Nat /\ Entry \in Nat /\ o \in 0 .. Entry - 1
      /\ o < topCacheCount
  BY <1>1, <1>3, ConstAssumption
<1>6. refill.valid => Dec(stack_top, topCacheCount) \notin M
  <2> SUFFICES ASSUME refill.valid, Dec(stack_top, topCacheCount) = Dec(stack_top, o)
               PROVE  FALSE
    BY <1>4
  <2>1. topCacheCount \in 0 .. Entry - 1
    BY <1>1, ConstAssumption
  <2>2. QED
    BY <1>1, <1>5, <2>1, DepthsDiffer
<1>7. /\ stack_top' = stack_top /\ topCacheCount' <= Usage'
      /\ topCacheCount' \in 0 .. TopCacheDepth /\ topCacheCount' >= topCacheCount
      /\ refill'.valid => /\ topCacheCount' < Usage'
                          /\ refill'.idx = Dec(stack_top', topCacheCount')
                          /\ refill'.data = stack_data'[refill'.idx]
  BY <1>2, <1>6, QuietFacts DEF o
<1>8. \A i \in 0 .. topCacheCount' - 1 :
         /\ Appended[i] \in CacheEntry
         /\ Appended[i].idx = Dec(stack_top', i)
         /\ Appended[i].data = stack_data'[Dec(stack_top', i)]
         /\ Dec(stack_top, i) \notin M =>
              Appended[i].prefetched = prefetched'[Dec(stack_top', i)]
         /\ i < topCacheCount => Appended[i] = topCache[i]
  BY <1>2, <1>6, QuietFacts DEF o
<1>9. DOMAIN Appended = 0 .. topCacheCount' - 1
  BY <1>2, <1>6, QuietFacts DEF o
<1> DEFINE n == topCacheCount'
<1>10. n \in Nat /\ n <= Entry - 1 /\ o \in 0 .. n - 1 /\ n >= topCacheCount
  <2>1. TopCacheDepth \in Nat /\ TopCacheDepth < Entry
    BY ConstAssumption
  <2>2. n \in 0 .. TopCacheDepth /\ n >= topCacheCount
    BY <1>7
  <2> HIDE DEF n
  <2>3. QED
    BY <1>5, <2>1, <2>2
<1>11. Appended \in [0 .. topCacheCount' - 1 -> CacheEntry]
  BY <1>8, <1>9 DEF Appended
<1>12. /\ topCache' \in [0 .. topCacheCount' - 1 -> CacheEntry]
       /\ \A i \in 0 .. topCacheCount' - 1 :
             /\ i # o => topCache'[i] = Appended[i]
             /\ topCache'[i].idx = Appended[i].idx
             /\ topCache'[i].data = Appended[i].data
       /\ topCache'[o].prefetched = TRUE
  BY <1>2, <1>10, <1>11 DEF CacheEntry
<1>13. ASSUME NEW i \in 0 .. topCacheCount' - 1
       PROVE  topCache'[i].prefetched = prefetched'[topCache'[i].idx]
  <2>1. CASE i = o
    <3>1. prefetched'[Dec(stack_top, o)] = TRUE
      BY <1>3, <1>4, CachedStays DEF o
    <3>2. QED
      BY <1>7, <1>8, <1>12, <2>1, <3>1
  <2>2. CASE i # o
    <3>1. Dec(stack_top, i) # Dec(stack_top, o)
      <4>1. i \in 0 .. Entry - 1
        <5>1. i \in 0 .. n - 1
          OBVIOUS
        <5> HIDE DEF n
        <5>2. QED
          BY <1>10, <1>5, <5>1
      <4>2. QED
        BY <1>1, <1>5, <2>2, <4>1, DepthsDiffer
    <3>2. QED
      BY <1>4, <1>8, <1>12, <2>2, <3>1
  <2>3. QED
    BY <2>1, <2>2
<1>14. ASSUME NEW i \in 0 .. topCacheCount - 1, i # o
       PROVE  topCache'[i] = topCache[i]
  <2>1. i \in 0 .. n - 1 /\ i < topCacheCount
    <3> HIDE DEF n
    <3>1. QED
      BY <1>5, <1>10
  <2>2. i \in 0 .. topCacheCount' - 1 /\ i < topCacheCount
    BY <2>1
  <2>3. QED
    BY <1>8, <1>12, <1>14, <2>2
<1>15. TopCacheCoherent'
  <2>1. \A i \in 0 .. topCacheCount' - 1 :
           /\ topCache'[i].idx = Dec(stack_top', i)
           /\ topCache'[i].data = stack_data'[topCache'[i].idx]
    BY <1>8, <1>12
  <2>2. QED
    BY <1>7, <1>13, <2>1 DEF TopCacheCoherent
<1>16. QED
  BY <1>2, <1>3, <1>7, <1>12, <1>14, <1>15 DEF o

(***************************************************************************)
(* SpillOut and ReadBack stay consistent with the ring whatever the fast   *)
(* path does in the same cycle: n pops, writes to slots at depth 0 only.   *)
(***************************************************************************)
LEMMA MemoryKeeps ==
  ASSUME IInv, state = "WORK", state' = "WORK",
         NEW ready \in BOOLEAN, NEW resp \in BOOLEAN, MemoryPath(ready, resp),
         NEW P, NEW M, RingWrites(P, M, Received(resp)),
         \A d \in 1 .. Usage - 1 : Dec(stack_top, d) \notin P,
         NEW n \in 0 .. 1, CountPop(n),
         MemoryBusy => slowPops + n <= MaxPops,
         Usage' >= Dist(stack_top, stack_bottom') - n, Usage' \in Nat
  PROVE  SpillIntact' /\ SpillMargin' /\ ReadFresh' /\ slowPops' \in Nat
<1> DEFINE U == Dist(stack_top, stack_bottom')
           V == Usage'
           W == slowPops'
<1>t. /\ TypeOK /\ stack_top \in Slots /\ stack_bottom \in Slots
      /\ Usage \in 0 .. Entry - 1 /\ slowPops \in Nat /\ slowPops <= MaxPops
  BY CacheFacts
<1>l. /\ SpillNum \in 1 .. LineElems /\ CanReceive \in Nat /\ ReadNum \in 0 .. LineElems
  BY <1>t, LineNumbers
<1>m. spill.phase # "IDLE" => Usage + slowPops + 1 >= SpillNeed
  BY DEF IInv, SpillMargin
<1>f. read.valid =>
        /\ readIssued
        /\ \/ Usage + slowPops + LineElems + 1 >= SpillNeed
           \/ /\ queue_bottom # 0
              /\ read.data = [i \in 1 .. ReadNum |-> jvm_queue[queue_bottom - ReadNum + i - 1]]
  BY DEF IInv, ReadFresh
<1>p. (MemoryBusy => W = slowPops + n) /\ (~MemoryBusy => W = 0)
  BY DEF CountPop
<1>u. U \in 0 .. Entry - 1
  BY BottomRoom
<1>a. /\ Usage \in Nat /\ U \in Nat /\ V \in Nat /\ V >= U - n /\ slowPops \in Nat
      /\ SpillNum \in Nat /\ SpillNum >= 1 /\ SpillNum <= LineElems
      /\ LineElems \in Nat /\ SpillNeed \in Nat /\ MaxPops \in Nat /\ TopCacheDepth \in Nat
      /\ TopCacheDepth + 2 + LineElems + MaxPops <= SpillNeed /\ Entry \in Nat
      /\ SpillNeed < Entry
  BY <1>t, <1>l, <1>u, ConstAssumption
<1>w. W \in Nat /\ W <= MaxPops
  BY <1>a, <1>p
<1>keep. ASSUME NEW d \in 1 .. Usage - 1
         PROVE  stack_data'[Dec(stack_top, d)] = stack_data[Dec(stack_top, d)]
  <2>1. d \in 0 .. Usage - 1
    BY <1>a
  <2>2. QED
    BY <1>t, <1>keep, <2>1, RingKeeps
<1>line. ASSUME Usage >= LineElems + 1, NEW i \in 1 .. LineElems
         PROVE  /\ Inc(stack_bottom, i) \in Slots
                /\ stack_data'[Inc(stack_bottom, i)] = stack_data[Inc(stack_bottom, i)]
  <2>1. i \in 1 .. Usage /\ Usage - i \in 1 .. Usage - 1 /\ i \in 0 .. Entry - 1
    BY <1>a, <1>t, <1>line, ConstAssumption
  <2>2. Inc(stack_bottom, i) = Dec(stack_top, Usage - i)
    BY <1>t, <2>1, UsageIsDist, AboveBottom
  <2>3. QED
    BY <1>t, <1>keep, <2>1, <2>2, PointerTypes
<1>1. CASE SpillRead(resp)
  <2>1. /\ SpillRuns /\ spill.phase = "IDLE"
        /\ spill' = [phase |-> "PENDING", num |-> SpillNum, bottom |-> stack_bottom,
                     qbottom |-> queue_bottom,
                     data |-> [i \in 1 .. LineElems |-> stack_data[Inc(stack_bottom, i)]]]
        /\ read' = IF resp THEN NoRead ELSE read
        /\ stack_bottom' = stack_bottom /\ queue_bottom' = queue_bottom
        /\ queue_elems_base' = queue_elems_base /\ readIssued' = readIssued
    BY <1>1 DEF SpillRead, DropAnswer, queue
  <2>2. Usage >= SpillNeed
    BY <2>1 DEF SpillRuns
  <2>3. U = Usage
    BY <2>1, UsageIsDist
  <2> HIDE DEF U, V, W
  <2>4. V + W + 1 >= SpillNeed /\ V + W + LineElems + 1 >= SpillNeed /\ Usage >= LineElems + 1
    BY <1>a, <1>w, <2>2, <2>3
  <2>5. SpillMargin'
    BY <1>w, <2>4 DEF SpillMargin, V, W
  <2>6. ReadFresh'
    <3>1. read'.valid => read.valid
      BY <2>1 DEF NoRead
    <3>2. QED
      BY <1>f, <2>1, <2>4, <3>1 DEF ReadFresh, V, W
  <2>7. SpillIntact'
    <3>1. SpillNum' = SpillNum
      BY <2>1 DEF SpillNum, LineOffset
    <3>2. \A i \in 1 .. LineElems : stack_data[Inc(stack_bottom, i)] \in Tasks
      BY <1>t, <1>line, <2>4 DEF TypeOK
    <3>3. spill'.data \in [1 .. LineElems -> Tasks]
      BY <2>1, <3>2
    <3>4. \A i \in 1 .. SpillNum : spill'.data[i] = stack_data'[Inc(stack_bottom, i)]
      BY <1>a, <1>line, <2>1, <2>4
    <3>5. QED
      BY <2>1, <3>1, <3>3, <3>4 DEF SpillIntact, Inc
  <2>8. QED
    BY <1>w, <2>5, <2>6, <2>7 DEF W
<1>2. CASE SpillPack(resp) \/ SpillRequest(ready, resp)
  <2>1. /\ spill.phase # "IDLE" /\ spill'.num = spill.num /\ spill'.bottom = spill.bottom
        /\ spill'.qbottom = spill.qbottom /\ spill'.data = spill.data
        /\ read' = IF resp THEN NoRead ELSE read
        /\ stack_bottom' = stack_bottom /\ queue_bottom' = queue_bottom
        /\ queue_elems_base' = queue_elems_base /\ readIssued' = readIssued
    BY <1>2, <1>t DEF SpillPack, SpillRequest, DropAnswer, queue, TypeOK
  <2>2. U = Usage /\ MemoryBusy
    BY <2>1, UsageIsDist DEF MemoryBusy
  <2>p. W = slowPops + n /\ Usage + slowPops + 1 >= SpillNeed
    BY <1>p, <1>m, <2>1, <2>2
  <2> HIDE DEF U, V, W
  <2>4. V + W + 1 >= SpillNeed /\ V + W + LineElems + 1 >= SpillNeed /\ Usage >= LineElems + 1
    BY <1>a, <1>w, <1>t, <2>p, <2>2
  <2>5. SpillMargin'
    BY <1>w, <2>4 DEF SpillMargin, V, W
  <2>6. ReadFresh'
    <3>1. read'.valid => read.valid
      BY <2>1 DEF NoRead
    <3>2. QED
      BY <1>f, <2>1, <2>4, <3>1 DEF ReadFresh, V, W
  <2>7. SpillIntact'
    <3>0. /\ spill.bottom = stack_bottom /\ spill.qbottom = queue_bottom
          /\ spill.num = SpillNum /\ spill.data \in [1 .. LineElems -> Tasks]
          /\ \A i \in 1 .. spill.num : spill.data[i] = stack_data[Inc(stack_bottom, i)]
      BY <2>1 DEF IInv, SpillIntact
    <3>1. SpillNum' = SpillNum
      BY <2>1 DEF SpillNum, LineOffset
    <3>4. \A i \in 1 .. SpillNum : spill.data[i] = stack_data'[Inc(stack_bottom, i)]
      BY <1>a, <1>line, <2>4, <3>0
    <3>5. QED
      BY <2>1, <3>0, <3>1, <3>4 DEF SpillIntact, Inc
  <2>8. QED
    BY <1>w, <2>5, <2>6, <2>7 DEF W
<1>3. CASE SpillRetire(resp)
  <2>1. /\ spill.phase = "ISSUED" /\ spill' = NoSpill
        /\ read' = IF resp THEN NoRead ELSE read
        /\ readIssued' = readIssued
    BY <1>3 DEF SpillRetire, DropAnswer
  <2>2. MemoryBusy /\ U = Usage - SpillNum
    <3>1. ~ReadBackRuns
      BY <2>1 DEF ReadBackRuns, SpillRuns
    <3>2. stack_bottom' = Inc(stack_bottom, SpillNum)
      BY <1>3, <2>1 DEF SpillRetire, IInv, SpillIntact
    <3>3. SpillNum \in 0 .. Usage
      BY <1>a, <1>m, <1>t, <2>1
    <3>4. QED
      BY <1>t, <2>1, <3>2, <3>3, DistRaise, UsageIsDist DEF MemoryBusy
  <2>p. W = slowPops + n /\ Usage + slowPops + 1 >= SpillNeed
    BY <1>p, <1>m, <2>1, <2>2
  <2> HIDE DEF U, V, W
  <2>4. V + W + LineElems + 1 >= SpillNeed
    BY <1>a, <1>w, <1>t, <2>p, <2>2
  <2>5. SpillMargin' /\ SpillIntact'
    BY <1>w, <2>1 DEF SpillMargin, SpillIntact, NoSpill, W
  <2>6. ReadFresh'
    <3>1. read'.valid => read.valid
      BY <2>1 DEF NoRead
    <3>2. QED
      BY <1>f, <2>1, <2>4, <3>1 DEF ReadFresh, V, W
  <2>7. QED
    BY <1>w, <2>5, <2>6 DEF W
<1>4. CASE ReadBackReceive(resp)
  <2>1. spill' = spill /\ read' = NoRead /\ spill.phase = "IDLE"
    BY <1>4 DEF ReadBackReceive, ReadBackRuns, SpillRuns
  <2>2. QED
    BY <1>w, <2>1 DEF SpillMargin, SpillIntact, ReadFresh, NoRead, W
<1>5. CASE ReadBackRequest(ready, resp) \/ ReadBackWait(resp) \/ NeitherRuns(resp)
  <2>1. /\ spill' = spill /\ spill.phase = "IDLE"
        /\ stack_bottom' = stack_bottom /\ queue_bottom' = queue_bottom
        /\ queue_elems_base' = queue_elems_base /\ jvm_queue' = jvm_queue
    BY <1>5 DEF ReadBackRequest, ReadBackWait, NeitherRuns, queue, memory, ReadBackRuns, SpillRuns
  <2>2. SpillMargin' /\ SpillIntact'
    BY <1>w, <2>1 DEF SpillMargin, SpillIntact, W
  <2>3. ReadNum' = ReadNum
    BY <2>1 DEF ReadNum, LineOffset
  <2>4. U = Usage
    BY <2>1, UsageIsDist
  <2>5. CASE ReadBackRequest(ready, resp) /\ ready
    <3>1. /\ queue_bottom # 0 /\ readIssued' = TRUE
          /\ read'.data = [i \in 1 .. ReadNum |-> jvm_queue[queue_bottom - ReadNum + i - 1]]
      BY <2>5 DEF ReadBackRequest, ReadBackRuns
    <3>2. QED
      BY <1>w, <2>1, <2>2, <2>3, <3>1 DEF ReadFresh, W
  <2>6. CASE ~(ReadBackRequest(ready, resp) /\ ready)
    <3>1. read'.valid => read' = read /\ readIssued' = readIssued /\ read.valid
      <4>1. CASE ReadBackRequest(ready, resp)
        <5>1. read' = read /\ ~readIssued
          BY <2>6, <4>1 DEF ReadBackRequest
        <5>2. QED
          BY <1>f, <5>1
      <4>2. CASE ReadBackWait(resp)
        BY <4>2 DEF ReadBackWait, memory
      <4>3. CASE NeitherRuns(resp)
        BY <4>3 DEF NeitherRuns, DropAnswer, NoRead
      <4>4. QED
        BY <1>5, <4>1, <4>2, <4>3
    <3>2. ASSUME read'.valid
          PROVE  \/ V + W + LineElems + 1 >= SpillNeed
                 \/ /\ queue_bottom # 0
                    /\ read.data = [i \in 1 .. ReadNum |-> jvm_queue[queue_bottom - ReadNum + i - 1]]
      <4>1. read.valid /\ W = slowPops + n
        BY <1>p, <3>1, <3>2 DEF MemoryBusy
      <4>2. CASE Usage + slowPops + LineElems + 1 >= SpillNeed
        <5> HIDE DEF U, V, W
        <5>1. QED
          BY <1>a, <1>t, <2>4, <4>1, <4>2
      <4>3. QED
        BY <1>f, <4>1, <4>2
    <3>3. ReadFresh'
      BY <1>f, <2>1, <2>3, <3>1, <3>2 DEF ReadFresh
    <3>4. QED
      BY <1>w, <2>2, <3>3 DEF W
  <2>7. QED
    BY <2>5, <2>6
<1>6. QED
  BY <1>1, <1>2, <1>3, <1>4, <1>5 DEF MemoryPath

(* The memory path keeps the types of its registers. *)
LEMMA MemoryTypes ==
  ASSUME IInv, NEW ready \in BOOLEAN, NEW resp \in BOOLEAN, MemoryPath(ready, resp)
  PROVE  /\ stack_bottom' \in Slots
         /\ queue_bottom' \in 0 .. QueueSize - 1 /\ queue_elems_base' \in 0 .. LineElems - 1
         /\ jvm_queue' \in [0 .. QueueSize - 1 -> Tasks]
         /\ spill' \in [phase : {"IDLE", "PENDING", "VALID", "ISSUED"}, num : 0 .. LineElems,
                        bottom : Slots, qbottom : 0 .. QueueSize - 1, data : LineTasks]
         /\ readIssued' \in BOOLEAN /\ read' \in [valid : BOOLEAN, data : LineTasks]
<1> DEFINE SpillType == [phase : {"IDLE", "PENDING", "VALID", "ISSUED"}, num : 0 .. LineElems,
                         bottom : Slots, qbottom : 0 .. QueueSize - 1, data : LineTasks]
           ReadType == [valid : BOOLEAN, data : LineTasks]
<1>t. TypeOK
  BY DEF IInv
<1>1. /\ stack_bottom \in Slots /\ queue_bottom \in 0 .. QueueSize - 1
      /\ queue_elems_base \in 0 .. LineElems - 1
      /\ jvm_queue \in [0 .. QueueSize - 1 -> Tasks] /\ stack_data \in [Slots -> Tasks]
      /\ spill \in SpillType /\ read \in ReadType /\ readIssued \in BOOLEAN
  BY <1>t DEF TypeOK
<1>2. /\ SpillNum \in 1 .. LineElems /\ ReadNum \in 0 .. LineElems /\ ReadNum <= queue_bottom
      /\ CanReceive \in 0 .. ReadNum /\ LineElems \in Nat \ {0} /\ QueueSize \in Nat \ {0}
      /\ Entry \in Nat \ {0} /\ LineElems < Entry
  BY <1>t, LineNumbers, ConstAssumption
<1>3. stack_bottom' \in Slots
  BY BottomMoves
<1>4. NoTasks \in LineTasks /\ NoRead \in ReadType /\ NoSpill \in SpillType
  <2>1. NoTasks \in [1 .. 0 -> Tasks] /\ 0 \in 0 .. LineElems
    BY <1>2 DEF NoTasks
  <2>2. NoTasks \in LineTasks
    BY <2>1 DEF LineTasks
  <2>3. 0 \in Slots /\ 0 \in 0 .. QueueSize - 1
    BY <1>2 DEF Slots
  <2>4. QED
    BY <2>1, <2>2, <2>3 DEF NoRead, NoSpill
<1>5. CASE SpillRead(resp)
  <2>1. /\ spill' = [phase |-> "PENDING", num |-> SpillNum, bottom |-> stack_bottom,
                     qbottom |-> queue_bottom,
                     data |-> [i \in 1 .. LineElems |-> stack_data[Inc(stack_bottom, i)]]]
        /\ read' = IF resp THEN NoRead ELSE read
        /\ queue_bottom' = queue_bottom /\ queue_elems_base' = queue_elems_base
        /\ jvm_queue' = jvm_queue /\ readIssued' = readIssued
    BY <1>5 DEF SpillRead, DropAnswer, queue
  <2>2. \A i \in 1 .. LineElems : stack_data[Inc(stack_bottom, i)] \in Tasks
    <3> SUFFICES ASSUME NEW i \in 1 .. LineElems PROVE stack_data[Inc(stack_bottom, i)] \in Tasks
      OBVIOUS
    <3>1. i \in 0 .. Entry - 1
      BY <1>2
    <3>2. Inc(stack_bottom, i) \in Slots
      BY <1>1, <3>1, PointerTypes
    <3>3. QED
      BY <1>1, <3>2
  <2>3. spill'.data \in LineTasks
    <3>1. [i \in 1 .. LineElems |-> stack_data[Inc(stack_bottom, i)]] \in [1 .. LineElems -> Tasks]
      BY <2>2
    <3>2. LineElems \in 0 .. LineElems
      BY <1>2
    <3>3. QED
      BY <2>1, <3>1, <3>2 DEF LineTasks
  <2>4. SpillNum \in 0 .. LineElems
    BY <1>2
  <2>5. spill' \in SpillType
    BY <1>1, <2>1, <2>3, <2>4
  <2>6. QED
    BY <1>1, <1>3, <1>4, <2>1, <2>5
<1>6. CASE SpillPack(resp)
  BY <1>1, <1>3, <1>4, <1>6 DEF SpillPack, DropAnswer, queue
<1>7. CASE SpillRequest(ready, resp)
  <2>1. /\ spill.phase # "IDLE"
        /\ spill' = [spill EXCEPT !.phase = IF ready /\ ~resp THEN "ISSUED" ELSE "VALID"]
        /\ read' = IF resp THEN NoRead ELSE read
        /\ queue_bottom' = queue_bottom /\ queue_elems_base' = queue_elems_base
        /\ readIssued' = readIssued
    BY <1>7 DEF SpillRequest, DropAnswer
  <2>2. spill.data \in [1 .. LineElems -> Tasks] /\ spill.num \in 0 .. LineElems
        /\ spill.qbottom \in Nat
    BY <1>1, <1>2, <2>1 DEF IInv, SpillIntact
  <2>3. \A q \in 0 .. QueueSize - 1 : q \in spill.qbottom .. spill.qbottom + spill.num - 1 =>
            spill.data[q - spill.qbottom + 1] \in Tasks
    <3> SUFFICES ASSUME NEW q \in 0 .. QueueSize - 1,
                        q \in spill.qbottom .. spill.qbottom + spill.num - 1
                 PROVE  spill.data[q - spill.qbottom + 1] \in Tasks
      OBVIOUS
    <3>1. q - spill.qbottom + 1 \in 1 .. LineElems
      BY <1>2, <2>2
    <3>2. QED
      BY <2>2, <3>1
  <2>4. jvm_queue' \in [0 .. QueueSize - 1 -> Tasks]
    <3>1. CASE ready
      <4>1. jvm_queue' = [q \in 0 .. QueueSize - 1 |->
                            IF q \in spill.qbottom .. spill.qbottom + spill.num - 1
                              THEN spill.data[q - spill.qbottom + 1] ELSE jvm_queue[q]]
        BY <1>1, <1>7, <3>1 DEF SpillRequest
      <4>2. \A q \in 0 .. QueueSize - 1 : jvm_queue[q] \in Tasks
        BY <1>1
      <4>3. QED
        BY <2>3, <4>1, <4>2
    <3>2. CASE ~ready
      BY <1>1, <1>7, <3>2 DEF SpillRequest
    <3>3. QED
      BY <3>1, <3>2
  <2>5. QED
    BY <1>1, <1>3, <1>4, <2>1, <2>4
<1>8. CASE SpillRetire(resp)
  <2>1. (spill.qbottom + spill.num) % QueueSize \in 0 .. QueueSize - 1
    BY <1>1, <1>2
  <2>2. QED
    BY <1>1, <1>3, <1>4, <1>8, <2>1 DEF SpillRetire, DropAnswer
<1>9. CASE ReadBackRequest(ready, resp)
  <2>1. /\ readIssued' = ready /\ spill' = spill
        /\ queue_bottom' = queue_bottom /\ queue_elems_base' = queue_elems_base
        /\ jvm_queue' = jvm_queue
        /\ read' = IF ready
             THEN [valid |-> TRUE,
                   data |-> [i \in 1 .. ReadNum |-> jvm_queue[queue_bottom - ReadNum + i - 1]]]
             ELSE read
    BY <1>9 DEF ReadBackRequest, queue
  <2>2. \A i \in 1 .. ReadNum : jvm_queue[queue_bottom - ReadNum + i - 1] \in Tasks
    <3> SUFFICES ASSUME NEW i \in 1 .. ReadNum
                 PROVE  jvm_queue[queue_bottom - ReadNum + i - 1] \in Tasks
      OBVIOUS
    <3>1. queue_bottom - ReadNum + i - 1 \in 0 .. QueueSize - 1
      BY <1>1, <1>2
    <3>2. QED
      BY <1>1, <3>1
  <2>3. [i \in 1 .. ReadNum |-> jvm_queue[queue_bottom - ReadNum + i - 1]] \in LineTasks
    <3>1. [i \in 1 .. ReadNum |-> jvm_queue[queue_bottom - ReadNum + i - 1]]
             \in [1 .. ReadNum -> Tasks]
      BY <2>2
    <3>2. QED
      BY <1>2, <3>1 DEF LineTasks
  <2>4. QED
    BY <1>1, <1>3, <2>1, <2>3
<1>10. CASE ReadBackWait(resp)
  BY <1>1, <1>10 DEF ReadBackWait, queue, memory
<1>11. CASE ReadBackReceive(resp)
  <2>1. queue_bottom - CanReceive \in 0 .. QueueSize - 1
    BY <1>1, <1>2
  <2>2. QED
    BY <1>1, <1>3, <1>4, <1>11, <2>1 DEF ReadBackReceive
<1>12. CASE NeitherRuns(resp)
  BY <1>1, <1>4, <1>12 DEF NeitherRuns, DropAnswer, queue
<1>13. QED
  BY <1>5, <1>6, <1>7, <1>8, <1>9, <1>10, <1>11, <1>12 DEF MemoryPath

(***************************************************************************)
(* One lemma per kind of cycle: it keeps the invariant.                    *)
(***************************************************************************)
FastTypes ==
  /\ stack_top \in Slots /\ topCacheCount \in 0 .. TopCacheDepth
  /\ topCache \in [0 .. topCacheCount - 1 -> CacheEntry]
  /\ refill \in [valid : BOOLEAN, idx : Slots, data : Tasks]
  /\ push_count \in Nat /\ pushPrePopRem \in Nat /\ pushPrePopOffset \in Nat \ {0}
  /\ not_prefetch \in BOOLEAN
  /\ pushes \in 0 .. MaxPush

(* What one kind of cycle has to show; the rest is the memory path.        *)
LEMMA CycleKeeps ==
  ASSUME IInv, state = "WORK", state' = "WORK", jobs' = jobs,
         NEW ready \in BOOLEAN, NEW resp \in BOOLEAN, MemoryPath(ready, resp),
         NEW P, NEW M, RingWrites(P, M, Received(resp)), P # {} => pushes < MaxPush,
         \A d \in 1 .. Usage - 1 : Dec(stack_top, d) \notin P,
         NEW n \in 0 .. 1, CountPop(n), MemoryBusy => slowPops + n <= MaxPops,
         Usage' >= Dist(stack_top, stack_bottom') - n,
         TopCacheCoherent', PushFollowServable', FollowUnmarked', FastTypes'
  PROVE  IInv'
<1>1. stack_bottom' \in Slots /\ stack_top' \in Slots
  BY BottomMoves DEF FastTypes
<1>2. Usage' \in Nat
  <2>1. Usage' = Dist(stack_top', stack_bottom')
    BY DEF Usage, Dist
  <2>2. Usage' \in 0 .. Entry - 1
    BY <1>1, <2>1, DistType
  <2>3. QED
    BY <2>2, ConstAssumption
<1>3. SpillIntact' /\ SpillMargin' /\ ReadFresh' /\ slowPops' \in Nat
  BY <1>2, MemoryKeeps
<1>4. stack_data' \in [Slots -> Tasks] /\ prefetched' \in [Slots -> BOOLEAN]
  BY RingTypes
<1>5. jobs' \in 0 .. MaxJobs
  BY DEF IInv, TypeOK
<1>6. /\ queue_bottom' \in 0 .. QueueSize - 1 /\ queue_elems_base' \in 0 .. LineElems - 1
      /\ jvm_queue' \in [0 .. QueueSize - 1 -> Tasks]
      /\ spill' \in [phase : {"IDLE", "PENDING", "VALID", "ISSUED"}, num : 0 .. LineElems,
                     bottom : Slots, qbottom : 0 .. QueueSize - 1, data : LineTasks]
      /\ readIssued' \in BOOLEAN /\ read' \in [valid : BOOLEAN, data : LineTasks]
  BY MemoryTypes
<1>7. TypeOK'
  BY <1>1, <1>3, <1>4, <1>5, <1>6 DEF TypeOK, FastTypes
<1>8. QED
  BY <1>3, <1>7 DEF IInv

LEMMA FollowFacts ==
  ASSUME IInv, state = "WORK"
  PROVE  /\ push_count \in Nat /\ pushPrePopRem \in Nat /\ pushPrePopOffset \in Nat \ {0}
         /\ not_prefetch \in BOOLEAN /\ pushes \in 0 .. MaxPush
         /\ Least(push_count, ScanWindow) <= topCacheCount
         /\ push_count = 0 /\ pushPrePopRem # 0 =>
              pushPrePopOffset + pushPrePopRem <= topCacheCount
         /\ \A i \in 0 .. Least(push_count, ScanWindow) - 1 : ~topCache[i].prefetched
         /\ push_count = 0 =>
              \A i \in pushPrePopOffset .. pushPrePopOffset + pushPrePopRem - 1 :
                 ~topCache[i].prefetched
BY DEF IInv, TypeOK, PushFollowServable, FollowUnmarked

LEMMA PushCycleKeeps == ASSUME IInv, PushCycle PROVE IInv'
<1>1. /\ state = "WORK" /\ state' = "WORK" /\ jobs' = jobs /\ PushOnly /\ CountPush
      /\ CountPop(0) /\ RefillRequest(TRUE, FALSE)
  BY DEF PushCycle, Memory, PushOnly
<1>2. PICK ready \in BOOLEAN, resp \in BOOLEAN :
         MemoryPath(ready, resp) /\ RingWrites({Inc(stack_top, 1)}, {}, Received(resp))
  BY DEF PushCycle, Memory
<1>3. /\ TopCacheCoherent' /\ stack_top' \in Slots
      /\ topCacheCount' = Least(topCacheCount + 1, TopCacheDepth)
      /\ Usage' = Dist(stack_top, stack_bottom') + 1
  BY <1>1, <1>2, PushCoherent
<1>4. /\ TypeOK /\ stack_top \in Slots /\ Usage \in 0 .. Entry - 1
      /\ topCacheCount \in 0 .. TopCacheDepth /\ topCacheCount <= Usage
      /\ \A i \in 0 .. topCacheCount - 1 : topCache[i] \in CacheEntry
      /\ slowPops \in Nat /\ slowPops <= MaxPops
  BY <1>1, CacheFacts
<1>5. /\ pushes < MaxPush /\ pushes' = pushes + 1 /\ push_count' = push_count + 1
      /\ not_prefetch' = TRUE
      /\ pushPrePopRem' = pushPrePopRem /\ pushPrePopOffset' = pushPrePopOffset
      /\ Usage < Entry - 1
  <2>1. Free # 0 /\ Free = Entry - 1 - Usage
    BY <1>1, <1>4, LineNumbers DEF CountPush, PushReady
  <2>2. Usage < Entry - 1
    BY <1>4, <2>1, ConstAssumption
  <2>3. QED
    BY <1>1, <2>2 DEF CountPush
<1>6. /\ push_count \in Nat /\ pushPrePopRem \in Nat /\ pushPrePopOffset \in Nat \ {0}
      /\ pushes \in 0 .. MaxPush
      /\ Least(push_count, ScanWindow) <= topCacheCount
      /\ \A i \in 0 .. Least(push_count, ScanWindow) - 1 : ~topCache[i].prefetched
  BY <1>1, FollowFacts
<1> DEFINE c == Least(topCacheCount + 1, TopCacheDepth)
           pc == push_count + 1
           l == Least(pc, ScanWindow)
<1>7. /\ c \in 1 .. TopCacheDepth /\ c <= topCacheCount + 1 /\ c \in Nat
      /\ l \in 1 .. c /\ pc \in Nat \ {0}
      /\ l - 1 <= Least(push_count, ScanWindow)
  BY <1>4, <1>6, ConstAssumption DEF Least
<1>8. topCache' = [i \in 0 .. c - 1 |->
                     IF i = 0 THEN NewEntry(Inc(stack_top, 1)) ELSE topCache[i - 1]]
  BY <1>1 DEF PushOnly
<1>9. Inc(stack_top, 1) \in Slots /\ NewTask \in Tasks
  <2>1. Inc(stack_top, 1) \in Slots
    BY <1>4, <1>5, PushedSlot
  <2>2. pushes + 1 \in 1 .. MaxPush
    BY <1>5, <1>6, ConstAssumption
  <2>3. QED
    BY <2>1, <2>2, ConstAssumption DEF NewTask
<1>10. NewEntry(Inc(stack_top, 1)) \in CacheEntry /\ ~NewEntry(Inc(stack_top, 1)).prefetched
  BY <1>9 DEF NewEntry, CacheEntry
<1> HIDE DEF c, pc, l
<1>11. topCache' \in [0 .. c - 1 -> CacheEntry]
  <2>1. \A i \in 0 .. c - 1 : i # 0 => i - 1 \in 0 .. topCacheCount - 1
    BY <1>4, <1>7, ConstAssumption
  <2>2. QED
    BY <1>4, <1>8, <1>10, <2>1
<1>12. ASSUME NEW i \in 0 .. l - 1 PROVE ~topCache'[i].prefetched
  <2>1. i \in 0 .. c - 1
    BY <1>7
  <2>2. CASE i = 0
    BY <1>8, <1>10, <2>1, <2>2
  <2>3. CASE i # 0
    <3>1. i - 1 \in 0 .. Least(push_count, ScanWindow) - 1
      <4>1. Least(push_count, ScanWindow) \in Int /\ l \in Int
        BY <1>6, <1>7, ConstAssumption DEF Least
      <4>2. QED
        BY <1>7, <2>3, <4>1
    <3>2. topCache'[i] = topCache[i - 1]
      BY <1>8, <2>1, <2>3
    <3>3. QED
      BY <1>6, <3>1, <3>2
  <2>4. QED
    BY <2>2, <2>3
<1>13. push_count' = pc /\ topCacheCount' = c
  BY <1>3, <1>5 DEF c, pc
<1>14. PushFollowServable'
  <2>1. Least(push_count', ScanWindow) = l
    BY <1>13 DEF l
  <2>2. Least(push_count', ScanWindow) <= topCacheCount' /\ push_count' # 0
    BY <1>7, <1>13, <2>1
  <2>3. QED
    BY <2>2 DEF PushFollowServable, Least
<1>15. FollowUnmarked'
  <2>1. Least(push_count', ScanWindow) - 1 = l - 1
    BY <1>13 DEF l
  <2>2. push_count' # 0
    BY <1>7, <1>13
  <2>3. QED
    BY <1>12, <2>1, <2>2 DEF FollowUnmarked, Least
<1>16. FastTypes'
  <2>1. refill' \in [valid : BOOLEAN, idx : Slots, data : Tasks]
    <3>1. refill' = NoRefill /\ 0 \in Slots /\ JvmQueue[0] \in Tasks
      BY <1>1, ConstAssumption DEF RefillRequest, RefillReq, Slots
    <3>2. QED
      BY <3>1 DEF NoRefill
  <2>2. pushes' \in 0 .. MaxPush
    BY <1>5, <1>6, ConstAssumption
  <2>3. push_count' \in Nat /\ topCacheCount' \in 0 .. TopCacheDepth
    BY <1>7, <1>13, ConstAssumption
  <2>4. topCache' \in [0 .. topCacheCount' - 1 -> CacheEntry]
    BY <1>11, <1>13
  <2>5. QED
    BY <1>3, <1>5, <1>6, <2>1, <2>2, <2>3, <2>4 DEF FastTypes
<1>17. \A d \in 1 .. Usage - 1 : Dec(stack_top, d) \notin {Inc(stack_top, 1)}
  <2> SUFFICES ASSUME NEW d \in 1 .. Usage - 1 PROVE Inc(stack_top, 1) # Dec(stack_top, d)
    OBVIOUS
  <2>1. d \in 0 .. Entry - 2
    BY <1>4, ConstAssumption
  <2>2. QED
    BY <1>4, <2>1, PushShifts
<1>18. Usage' >= Dist(stack_top, stack_bottom') - 0 /\ (MemoryBusy => slowPops + 0 <= MaxPops)
  <2>1. Dist(stack_top, stack_bottom') \in 0 .. Entry - 1
    BY <1>2, BottomRoom
  <2>2. Usage' >= Dist(stack_top, stack_bottom') - 0
    BY <1>3, <2>1, ConstAssumption
  <2>3. slowPops + 0 <= MaxPops
    BY <1>4, ConstAssumption
  <2>4. QED
    BY <2>2, <2>3
<1>19. 0 \in 0 .. 1
  OBVIOUS
<1>20. QED
  BY <1>1, <1>2, <1>3, <1>5, <1>14, <1>15, <1>16, <1>17, <1>18, <1>19, CycleKeeps

LEMMA PushPopCycleKeeps == ASSUME IInv, PushPopCycle PROVE IInv'
<1>1. /\ state = "WORK" /\ state' = "WORK" /\ jobs' = jobs /\ PushAndPop /\ CountPush /\ MayPop
      /\ CountPop(1) /\ RefillRequest(TRUE, TRUE)
      /\ topCache' = [topCache EXCEPT ![0] = NewEntry(stack_top)]
  BY DEF PushPopCycle, Memory, PushAndPop
<1>2. PICK ready \in BOOLEAN, resp \in BOOLEAN :
         MemoryPath(ready, resp) /\ RingWrites({stack_top}, {}, Received(resp))
  BY DEF PushPopCycle, Memory
<1>3. /\ TopCacheCoherent' /\ stack_top' = stack_top
      /\ topCacheCount' = topCacheCount /\ topCacheCount > 0
      /\ Usage' = Dist(stack_top, stack_bottom')
  BY <1>1, <1>2, PushPopCoherent
<1>4. /\ TypeOK /\ stack_top \in Slots /\ Usage \in 0 .. Entry - 1
      /\ topCacheCount \in 0 .. TopCacheDepth /\ topCacheCount <= Usage
      /\ slowPops \in Nat /\ slowPops <= MaxPops
  BY <1>1, CacheFacts
<1>5. /\ pushes < MaxPush /\ pushes' = pushes + 1 /\ push_count' = push_count + 1
      /\ not_prefetch' = TRUE
      /\ pushPrePopRem' = pushPrePopRem /\ pushPrePopOffset' = pushPrePopOffset
      /\ push_count = 0 /\ pushPrePopRem = 0 /\ (MemoryBusy => slowPops < MaxPops)
  BY <1>1 DEF CountPush, MayPop, PopValid
<1>6. /\ pushPrePopRem \in Nat /\ pushPrePopOffset \in Nat \ {0} /\ pushes \in 0 .. MaxPush
  BY <1>1, FollowFacts
<1>7. push_count' = 1 /\ Least(1, ScanWindow) = 1
  BY <1>5, ConstAssumption DEF Least
<1>8. stack_top \in Slots /\ NewTask \in Tasks
  <2>1. pushes + 1 \in 1 .. MaxPush
    BY <1>5, <1>6, ConstAssumption
  <2>2. QED
    BY <1>4, <2>1, ConstAssumption DEF NewTask
<1>9. NewEntry(stack_top) \in CacheEntry /\ ~NewEntry(stack_top).prefetched
  BY <1>8 DEF NewEntry, CacheEntry
<1>10. topCache \in [0 .. topCacheCount - 1 -> CacheEntry] /\ 0 \in 0 .. topCacheCount - 1
  BY <1>3, <1>4, ConstAssumption DEF TypeOK
<1>11. topCache' \in [0 .. topCacheCount - 1 -> CacheEntry] /\ ~topCache'[0].prefetched
  BY <1>1, <1>9, <1>10
<1>12. PushFollowServable'
  <2>1. 1 <= topCacheCount
    BY <1>3, <1>4, ConstAssumption
  <2>2. QED
    BY <1>3, <1>7, <2>1 DEF PushFollowServable, Least
<1>13. FollowUnmarked'
  <2>1. \A i \in 0 .. 1 - 1 : ~topCache'[i].prefetched
    BY <1>11
  <2>2. QED
    BY <1>7, <2>1 DEF FollowUnmarked, Least
<1>14. FastTypes'
  <2>1. refill' \in [valid : BOOLEAN, idx : Slots, data : Tasks]
    <3>1. refill' = NoRefill /\ 0 \in Slots /\ JvmQueue[0] \in Tasks
      BY <1>1, ConstAssumption DEF RefillRequest, RefillReq, Slots
    <3>2. QED
      BY <3>1 DEF NoRefill
  <2>2. pushes' \in 0 .. MaxPush
    BY <1>5, <1>6, ConstAssumption
  <2>3. QED
    BY <1>3, <1>4, <1>5, <1>6, <1>7, <1>11, <2>1, <2>2 DEF FastTypes
<1>15. \A d \in 1 .. Usage - 1 : Dec(stack_top, d) \notin {stack_top}
  <2> SUFFICES ASSUME NEW d \in 1 .. Usage - 1 PROVE Dec(stack_top, d) # stack_top
    OBVIOUS
  <2>1. d \in 0 .. Entry - 1 /\ 0 \in 0 .. Entry - 1 /\ d # 0
    BY <1>4, ConstAssumption
  <2>2. Dec(stack_top, 0) = stack_top
    BY <1>4, DecZero
  <2>3. QED
    BY <1>4, <2>1, <2>2, DepthsDiffer
<1>16. Usage' >= Dist(stack_top, stack_bottom') - 1
  <2>1. Dist(stack_top, stack_bottom') \in 0 .. Entry - 1
    BY <1>2, BottomRoom
  <2>2. QED
    BY <1>3, <2>1, ConstAssumption
<1>17. MemoryBusy => slowPops + 1 <= MaxPops
  <2> SUFFICES ASSUME MemoryBusy PROVE slowPops + 1 <= MaxPops
    OBVIOUS
  <2>1. slowPops < MaxPops
    BY <1>5
  <2>2. QED
    BY <1>4, <2>1, ConstAssumption
<1>18. 1 \in 0 .. 1
  OBVIOUS
<1>19. QED
  BY <1>1, <1>2, <1>3, <1>5, <1>12, <1>13, <1>14, <1>15, <1>16, <1>17, <1>18, CycleKeeps

LEMMA PopCycleKeeps == ASSUME IInv, PopCycle PROVE IInv'
<1>1. /\ state = "WORK" /\ state' = "WORK" /\ jobs' = jobs /\ PopOnly /\ MayPop /\ CountPop(1)
      /\ RefillRequest(FALSE, TRUE)
      /\ push_count' = push_count /\ pushPrePopRem' = pushPrePopRem
      /\ pushPrePopOffset' = pushPrePopOffset /\ not_prefetch' = not_prefetch
      /\ pushes' = pushes
  BY DEF PopCycle, Memory, PopOnly, follow
<1>2. PICK ready \in BOOLEAN, resp \in BOOLEAN :
         MemoryPath(ready, resp) /\ RingWrites({}, {}, Received(resp))
  BY DEF PopCycle, Memory
<1>3. /\ TopCacheCoherent' /\ stack_top' \in Slots
      /\ topCacheCount' \in 0 .. TopCacheDepth
      /\ topCache' \in [0 .. topCacheCount' - 1 -> CacheEntry]
      /\ Usage' = Dist(stack_top, stack_bottom') - 1
  BY <1>1, <1>2, PopCoherent
<1>4. slowPops \in Nat /\ slowPops <= MaxPops
  BY <1>1, CacheFacts
<1>5. /\ push_count = 0 /\ pushPrePopRem = 0 /\ topCacheCount # 0
      /\ (MemoryBusy => slowPops < MaxPops)
  BY <1>1 DEF MayPop, PopValid
<1>6. /\ pushPrePopOffset \in Nat \ {0} /\ not_prefetch \in BOOLEAN /\ pushes \in 0 .. MaxPush
  BY <1>1, FollowFacts
<1>7. Least(0, ScanWindow) = 0 /\ push_count' = 0 /\ pushPrePopRem' = 0
  BY <1>1, <1>5, ConstAssumption DEF Least
<1>8. PushFollowServable'
  <2>1. 0 <= topCacheCount'
    BY <1>3
  <2>2. QED
    BY <1>7, <2>1 DEF PushFollowServable, Least
<1>9. FollowUnmarked'
  <2>1. 0 .. 0 - 1 = {} /\ pushPrePopOffset .. pushPrePopOffset + 0 - 1 = {}
    BY <1>6
  <2>2. QED
    BY <1>1, <1>7, <2>1 DEF FollowUnmarked, Least
<1>10. topCacheCount \in Nat /\ topCacheCount > 0
  BY <1>1, <1>5, CacheFacts, ConstAssumption
<1>11. FastTypes'
  <2>1. refill' \in [valid : BOOLEAN, idx : Slots, data : Tasks]
    BY <1>1, <1>2, <1>10, RefillFollows
  <2>2. not_prefetch' \in BOOLEAN
    BY <1>1, <1>6
  <2>3. pushPrePopOffset' \in Nat \ {0} /\ pushes' \in 0 .. MaxPush
    BY <1>1, <1>6
  <2>4. push_count' \in Nat /\ pushPrePopRem' \in Nat
    BY <1>7
  <2>5. QED
    BY <1>3, <2>1, <2>2, <2>3, <2>4 DEF FastTypes
<1>12. \A d \in 1 .. Usage - 1 : Dec(stack_top, d) \notin {}
  OBVIOUS
<1>13. Usage' >= Dist(stack_top, stack_bottom') - 1
  <2>1. Dist(stack_top, stack_bottom') \in 0 .. Entry - 1
    BY <1>2, BottomRoom
  <2>2. QED
    BY <1>3, <2>1, ConstAssumption
<1>14. MemoryBusy => slowPops + 1 <= MaxPops
  <2> SUFFICES ASSUME MemoryBusy PROVE slowPops + 1 <= MaxPops
    OBVIOUS
  <2>1. slowPops < MaxPops
    BY <1>5
  <2>2. QED
    BY <1>4, <2>1, ConstAssumption
<1>15. 1 \in 0 .. 1
  OBVIOUS
<1>16. QED
  BY <1>1, <1>2, <1>3, <1>8, <1>9, <1>11, <1>12, <1>13, <1>14, <1>15, CycleKeeps

(* What the two cycles without push and pop share. *)
LEMMA StillCycleKeeps ==
  ASSUME IInv, state = "WORK", state' = "WORK", jobs' = jobs, NoPushPop,
         NEW ready \in BOOLEAN, NEW resp \in BOOLEAN, MemoryPath(ready, resp),
         NEW M, RingWrites({}, M, Received(resp)),
         TopCacheCoherent', topCacheCount' \in 0 .. TopCacheDepth,
         topCache' \in [0 .. topCacheCount' - 1 -> CacheEntry],
         push_count' \in Nat, pushPrePopRem' \in Nat, pushPrePopOffset' \in Nat \ {0},
         PushFollowServable', FollowUnmarked'
  PROVE  IInv'
<1>1. /\ stack_top' = stack_top /\ CountPop(0) /\ RefillRequest(FALSE, FALSE)
      /\ pushes' = pushes
      /\ \E LastPush \in BOOLEAN : not_prefetch' = (not_prefetch /\ ~LastPush)
  BY DEF NoPushPop
<1>2. /\ stack_top \in Slots /\ slowPops \in Nat /\ slowPops <= MaxPops
  BY CacheFacts
<1>3. pushes \in 0 .. MaxPush /\ not_prefetch \in BOOLEAN
  BY FollowFacts
<1>4. FastTypes'
  <2>1. refill' \in [valid : BOOLEAN, idx : Slots, data : Tasks]
    BY <1>1, RefillFollows
  <2>2. not_prefetch' \in BOOLEAN
    BY <1>1, <1>3
  <2>3. stack_top' \in Slots /\ pushes' \in 0 .. MaxPush
    BY <1>1, <1>2, <1>3
  <2>4. QED
    BY <2>1, <2>2, <2>3 DEF FastTypes
<1>5. Usage' = Dist(stack_top, stack_bottom')
  BY <1>1 DEF Usage, Dist
<1>6. Usage' >= Dist(stack_top, stack_bottom') - 0
  <2>1. Dist(stack_top, stack_bottom') \in 0 .. Entry - 1
    BY BottomRoom
  <2>2. QED
    BY <1>5, <2>1, ConstAssumption
<1>7. slowPops + 0 <= MaxPops /\ 0 \in 0 .. 1
  BY <1>2, ConstAssumption
<1>8. \A d \in 1 .. Usage - 1 : Dec(stack_top, d) \notin {}
  OBVIOUS
<1>9. QED
  BY <1>1, <1>4, <1>6, <1>7, <1>8, CycleKeeps

LEMMA QuietCycleKeeps == ASSUME IInv, QuietCycle PROVE IInv'
<1>1. /\ state = "WORK" /\ state' = "WORK" /\ jobs' = jobs /\ NoMove /\ NoPushPop
      /\ topCache' = Appended
      /\ push_count' = push_count /\ pushPrePopRem' = pushPrePopRem
      /\ pushPrePopOffset' = pushPrePopOffset
  BY DEF QuietCycle, Memory, NoMove
<1>2. PICK ready \in BOOLEAN, resp \in BOOLEAN :
         MemoryPath(ready, resp) /\ RingWrites({}, {}, Received(resp))
  BY DEF QuietCycle, Memory
<1>3. /\ TopCacheCoherent'
      /\ topCache' \in [0 .. topCacheCount' - 1 -> CacheEntry]
  BY <1>1, <1>2, QuietCoherent
<1>4. refill.valid => Dec(stack_top, topCacheCount) \notin {}
  OBVIOUS
<1>5. topCacheCount' \in 0 .. TopCacheDepth /\ topCacheCount' >= topCacheCount
  BY <1>1, <1>2, <1>4, QuietFacts
<1>6. \A i \in 0 .. topCacheCount' - 1 : i < topCacheCount => Appended[i] = topCache[i]
  BY <1>1, <1>2, <1>4, QuietFacts
<1>7. /\ push_count \in Nat /\ pushPrePopRem \in Nat /\ pushPrePopOffset \in Nat \ {0}
      /\ Least(push_count, ScanWindow) <= topCacheCount
      /\ push_count = 0 /\ pushPrePopRem # 0 =>
           pushPrePopOffset + pushPrePopRem <= topCacheCount
  BY <1>1, FollowFacts
<1>8. /\ \A i \in 0 .. Least(push_count, ScanWindow) - 1 : ~topCache[i].prefetched
      /\ push_count = 0 =>
           \A i \in pushPrePopOffset .. pushPrePopOffset + pushPrePopRem - 1 :
              ~topCache[i].prefetched
  BY <1>1, FollowFacts
<1> DEFINE n == topCacheCount'
<1>9. n \in Nat /\ n >= topCacheCount /\ topCacheCount \in Nat
  BY <1>1, <1>5, CacheFacts, ConstAssumption
<1>10. ASSUME NEW i \in Nat, i < topCacheCount PROVE topCache'[i] = topCache[i]
  <2>1. i \in 0 .. n - 1
    <3> HIDE DEF n
    <3>1. QED
      BY <1>9, <1>10
  <2>2. QED
    BY <1>1, <1>6, <1>10, <2>1
<1>11. Least(push_count, ScanWindow) \in Nat
  BY <1>7, ConstAssumption DEF Least
<1>12. PushFollowServable'
  <2>1. Least(push_count, ScanWindow) <= n
    <3> HIDE DEF n
    <3>1. QED
      BY <1>7, <1>9, <1>11
  <2>2. push_count = 0 /\ pushPrePopRem # 0 => pushPrePopOffset + pushPrePopRem <= n
    <3> HIDE DEF n
    <3>1. QED
      BY <1>7, <1>9
  <2>3. QED
    BY <1>1, <2>1, <2>2 DEF PushFollowServable, Least
<1>13. FollowUnmarked'
  <2>1. ASSUME NEW i \in 0 .. Least(push_count, ScanWindow) - 1
        PROVE  ~topCache'[i].prefetched
    <3>1. i \in Nat /\ i < topCacheCount
      BY <1>7, <1>9, <1>11
    <3>2. QED
      BY <1>8, <1>10, <3>1
  <2>2. ASSUME push_count = 0,
               NEW i \in pushPrePopOffset .. pushPrePopOffset + pushPrePopRem - 1
        PROVE  ~topCache'[i].prefetched
    <3>1. i \in Nat /\ i < topCacheCount
      BY <1>7, <1>9, <2>2
    <3>2. QED
      BY <1>8, <1>10, <2>2, <3>1
  <2>3. QED
    BY <1>1, <2>1, <2>2 DEF FollowUnmarked, Least
<1>14. /\ push_count' \in Nat /\ pushPrePopRem' \in Nat /\ pushPrePopOffset' \in Nat \ {0}
  BY <1>1, <1>7
<1>15. QED
  BY <1>1, <1>2, <1>3, <1>5, <1>12, <1>13, <1>14, StillCycleKeeps

LEMMA PrePopCycleKeeps == ASSUME IInv, PrePopCycle PROVE IInv'
<1> DEFINE o == PrePopOffset
           M == {topCache[o].idx}
           n == topCacheCount'
<1>1. /\ state = "WORK" /\ state' = "WORK" /\ jobs' = jobs /\ PrePop
  BY DEF PrePopCycle, Memory
<1>2. PICK ready \in BOOLEAN, resp \in BOOLEAN :
         MemoryPath(ready, resp) /\ RingWrites({}, M, Received(resp))
  BY DEF PrePopCycle, Memory
<1>3. /\ TopCacheCoherent' /\ NoPushPop
      /\ topCache' \in [0 .. topCacheCount' - 1 -> CacheEntry]
      /\ o \in 0 .. topCacheCount - 1
      /\ topCacheCount' \in 0 .. TopCacheDepth /\ topCacheCount' >= topCacheCount
      /\ \A i \in 0 .. topCacheCount - 1 : i # o => topCache'[i] = topCache[i]
  BY <1>1, <1>2, PrePopCoherent
<1>4. /\ push_count \in Nat /\ pushPrePopRem \in Nat /\ pushPrePopOffset \in Nat \ {0}
      /\ Least(push_count, ScanWindow) <= topCacheCount
      /\ push_count = 0 /\ pushPrePopRem # 0 =>
           pushPrePopOffset + pushPrePopRem <= topCacheCount
  BY <1>1, FollowFacts
<1>5. /\ \A i \in 0 .. Least(push_count, ScanWindow) - 1 : ~topCache[i].prefetched
      /\ push_count = 0 =>
           \A i \in pushPrePopOffset .. pushPrePopOffset + pushPrePopRem - 1 :
              ~topCache[i].prefetched
  BY <1>1, FollowFacts
<1>6. n \in Nat /\ n >= topCacheCount /\ topCacheCount \in Nat /\ n >= 0
  BY <1>1, <1>3, CacheFacts, ConstAssumption
<1>7. Least(0, ScanWindow) = 0
  BY ConstAssumption DEF Least
<1>8. /\ push_count' \in Nat /\ pushPrePopRem' \in Nat /\ pushPrePopOffset' \in Nat \ {0}
      /\ PushFollowServable' /\ FollowUnmarked'
  <2>1. CASE push_count # 0
    <3> DEFINE l == Least(push_count, ScanWindow)
    <3>1. push_count' = 0 /\ pushPrePopRem' = l - 1 /\ pushPrePopOffset' = 1
      BY <1>1, <2>1 DEF PrePop
    <3>2. o = 0
      BY <2>1 DEF PrePopOffset, PushFollowMode, PushFollowOffset
    <3>3. l \in Nat \ {0} /\ l <= topCacheCount
      BY <1>4, <2>1, ConstAssumption DEF Least
    <3> HIDE DEF l, n, o
    <3>4. 1 + (l - 1) <= n /\ l - 1 \in Nat
      BY <1>6, <3>3
    <3>5. PushFollowServable'
      BY <1>6, <1>7, <3>1, <3>4 DEF PushFollowServable, Least, n
    <3>6. ASSUME NEW i \in 1 .. 1 + (l - 1) - 1 PROVE ~topCache'[i].prefetched
      <4>1. i \in 0 .. topCacheCount - 1 /\ i # 0 /\ i \in 0 .. l - 1
        BY <1>6, <3>3
      <4>2. QED
        BY <1>3, <1>5, <3>2, <4>1 DEF l
    <3>7. FollowUnmarked'
      <4>1. 0 .. 0 - 1 = {}
        OBVIOUS
      <4>2. QED
        BY <1>7, <3>1, <3>6, <4>1 DEF FollowUnmarked, Least
    <3>8. QED
      BY <3>1, <3>4, <3>5, <3>7
  <2>2. CASE push_count = 0 /\ pushPrePopRem # 0
    <3>1. /\ push_count' = 0 /\ pushPrePopRem' = pushPrePopRem - 1
          /\ pushPrePopOffset' = pushPrePopOffset + 1
      BY <1>1, <2>2 DEF PrePop
    <3>2. o = pushPrePopOffset
      BY <2>2 DEF PrePopOffset, PushFollowMode, PushFollowOffset
    <3>3. /\ pushPrePopOffset + pushPrePopRem <= topCacheCount
          /\ pushPrePopRem - 1 \in Nat /\ pushPrePopOffset + 1 \in Nat \ {0}
      BY <1>4, <2>2
    <3> HIDE DEF n, o
    <3>4. pushPrePopOffset + 1 + (pushPrePopRem - 1) <= n
      BY <1>4, <1>6, <3>3
    <3>5. PushFollowServable'
      BY <1>6, <1>7, <3>1, <3>4 DEF PushFollowServable, Least, n
    <3>6. ASSUME NEW i \in pushPrePopOffset + 1 .. pushPrePopOffset + 1 + (pushPrePopRem - 1) - 1
          PROVE  ~topCache'[i].prefetched
      <4>1. /\ i \in 0 .. topCacheCount - 1 /\ i # pushPrePopOffset
            /\ i \in pushPrePopOffset .. pushPrePopOffset + pushPrePopRem - 1
        BY <1>4, <1>6, <3>3
      <4>2. QED
        BY <1>3, <1>5, <2>2, <3>2, <4>1
    <3>7. FollowUnmarked'
      <4>1. 0 .. 0 - 1 = {}
        OBVIOUS
      <4>2. QED
        BY <1>7, <3>1, <3>6, <4>1 DEF FollowUnmarked, Least
    <3>8. QED
      BY <3>1, <3>3, <3>5, <3>7
  <2>3. CASE push_count = 0 /\ pushPrePopRem = 0
    <3>1. /\ push_count' = 0 /\ pushPrePopRem' = 0 /\ pushPrePopOffset' = pushPrePopOffset
      BY <1>1, <2>3 DEF PrePop
    <3>2. PushFollowServable'
      BY <1>6, <1>7, <3>1 DEF PushFollowServable, Least
    <3>3. FollowUnmarked'
      <4>1. 0 .. 0 - 1 = {} /\ pushPrePopOffset .. pushPrePopOffset + 0 - 1 = {}
        BY <1>4
      <4>2. QED
        BY <1>7, <3>1, <4>1 DEF FollowUnmarked, Least
    <3>4. QED
      BY <1>4, <3>1, <3>2, <3>3
  <2>4. QED
    BY <2>1, <2>2, <2>3
<1>9. QED
  BY <1>1, <1>2, <1>3, <1>8, StillCycleKeeps

(* Leaving WORK: nothing is in flight when the stack is exhausted. *)
LEMMA FinishKeeps == ASSUME IInv, Finish PROVE IInv'
<1>1. /\ state = "WORK" /\ state' = "IDLE" /\ Exhausted /\ refill' = NoRefill
      /\ stack_top' = stack_top /\ stack_bottom' = stack_bottom
      /\ stack_data' = stack_data /\ prefetched' = prefetched
      /\ topCache' = topCache /\ topCacheCount' = topCacheCount
      /\ push_count' = push_count /\ not_prefetch' = not_prefetch
      /\ pushPrePopRem' = pushPrePopRem /\ pushPrePopOffset' = pushPrePopOffset
      /\ queue_bottom' = queue_bottom /\ queue_elems_base' = queue_elems_base
      /\ jvm_queue' = jvm_queue /\ spill' = spill /\ readIssued' = readIssued
      /\ read' = read /\ pushes' = pushes /\ slowPops' = slowPops /\ jobs' = jobs
  BY DEF Finish, ring, follow, queue, memory, env
<1>2. TypeOK /\ SpillIntact /\ SpillMargin /\ ReadFresh
  BY DEF IInv
<1>3. TypeOK'
  <2>1. NoRefill \in [valid : BOOLEAN, idx : Slots, data : Tasks]
    BY ConstAssumption DEF NoRefill, Slots
  <2>2. QED
    BY <1>1, <1>2, <2>1 DEF TypeOK
<1>4. Usage = 0 /\ queue_bottom = 0
  BY <1>1, <1>2, ConstAssumption DEF Exhausted, Usage, TypeOK, Slots
<1>5. ~(Usage + slowPops + LineElems + 1 >= SpillNeed)
  <2>1. slowPops \in Nat /\ slowPops <= MaxPops
    BY <1>2 DEF TypeOK, SpillMargin
  <2>2. QED
    BY <1>4, <2>1, ConstAssumption
<1>6. ~read.valid
  BY <1>2, <1>4, <1>5 DEF ReadFresh
<1>7. ReadFresh'
  BY <1>1, <1>6 DEF ReadFresh
<1>8. Usage' = Usage /\ SpillNum' = SpillNum
  BY <1>1 DEF Usage, SpillNum, LineOffset
<1>9. SpillMargin' /\ SpillIntact'
  BY <1>1, <1>2, <1>8 DEF SpillMargin, SpillIntact, Inc
<1>10. TopCacheCoherent' /\ PushFollowServable' /\ FollowUnmarked'
  BY <1>1 DEF TopCacheCoherent, PushFollowServable, FollowUnmarked
<1>11. QED
  BY <1>3, <1>7, <1>9, <1>10 DEF IInv

(* A fresh job starts from an empty ring, whatever the last one left behind. *)
Fresh ==
  /\ stack_top = 0 /\ stack_bottom = 0 /\ topCache = NoEntry /\ topCacheCount = 0
  /\ refill = NoRefill /\ prefetched = [s \in Slots |-> FALSE]
  /\ push_count = 0 /\ not_prefetch = FALSE /\ pushPrePopRem = 0 /\ pushPrePopOffset = 1
  /\ queue_bottom \in 0 .. MaxJvm /\ queue_elems_base \in 0 .. LineElems - 1
  /\ jvm_queue = JvmQueue /\ spill = NoSpill /\ readIssued = FALSE
  /\ read.valid = FALSE /\ read \in [valid : BOOLEAN, data : LineTasks]
  /\ state \in {"IDLE", "WORK"} /\ stack_data \in [Slots -> Tasks]
  /\ pushes \in 0 .. MaxPush /\ slowPops \in Nat /\ slowPops <= MaxPops
  /\ jobs \in 0 .. MaxJobs

LEMMA FreshHolds == Fresh => IInv
<1> SUFFICES ASSUME Fresh PROVE IInv
  OBVIOUS
<1> USE DEF Fresh
<1>1. /\ 0 \in Slots /\ 0 \in 0 .. TopCacheDepth /\ JvmQueue[0] \in Tasks
      /\ 0 \in 0 .. LineElems /\ 0 \in 0 .. QueueSize - 1
  BY ConstAssumption DEF Slots
<1>2. NoTasks \in LineTasks
  <2>1. NoTasks \in [1 .. 0 -> Tasks]
    BY <1>1 DEF NoTasks
  <2>2. QED
    BY <1>1, <2>1 DEF LineTasks
<1>3. TypeOK
  <2>1. spill \in [phase : {"IDLE", "PENDING", "VALID", "ISSUED"}, num : 0 .. LineElems,
                   bottom : Slots, qbottom : 0 .. QueueSize - 1, data : LineTasks]
    BY <1>1, <1>2 DEF NoSpill
  <2>2. topCache \in [0 .. topCacheCount - 1 -> CacheEntry]
    <3>1. NoEntry \in [0 .. -1 -> CacheEntry] /\ 0 - 1 = -1
      BY DEF NoEntry
    <3>2. QED
      BY <3>1
  <2>3. refill \in [valid : BOOLEAN, idx : Slots, data : Tasks]
    BY <1>1 DEF NoRefill
  <2>4. queue_bottom \in 0 .. QueueSize - 1
    BY ConstAssumption
  <2>5. prefetched \in [Slots -> BOOLEAN] /\ readIssued \in BOOLEAN /\ not_prefetch \in BOOLEAN
    OBVIOUS
  <2>6. jvm_queue \in [0 .. QueueSize - 1 -> Tasks]
    BY ConstAssumption
  <2>7. push_count \in Nat /\ pushPrePopRem \in Nat /\ pushPrePopOffset \in Nat \ {0}
    OBVIOUS
  <2>8. stack_top \in Slots /\ stack_bottom \in Slots /\ topCacheCount \in 0 .. TopCacheDepth
    BY <1>1
  <2>9. QED
    BY <2>1, <2>2, <2>3, <2>4, <2>5, <2>6, <2>7, <2>8 DEF TypeOK
<1>4. Least(0, ScanWindow) = 0
  BY ConstAssumption DEF Least
<1>5. 0 .. 0 - 1 = {} /\ 1 .. 1 + 0 - 1 = {}
  OBVIOUS
<1>6. Usage = 0
  BY DEF Usage
<1>7. TopCacheCoherent
  BY <1>5, <1>6 DEF TopCacheCoherent, NoRefill
<1>8. PushFollowServable /\ FollowUnmarked
  BY <1>4, <1>5 DEF PushFollowServable, FollowUnmarked
<1>9. SpillIntact /\ SpillMargin /\ ReadFresh
  BY DEF SpillIntact, SpillMargin, ReadFresh, NoSpill
<1>10. QED
  BY <1>3, <1>7, <1>8, <1>9 DEF IInv

LEMMA FreshNext == Fresh' => IInv'
BY FreshHolds, PTL

LEMMA ConfigureKeeps == ASSUME IInv, Configure PROVE IInv'
<1>1. /\ TypeOK /\ slowPops \in Nat /\ slowPops <= MaxPops /\ state = "IDLE" /\ ~read.valid
      /\ jobs \in 0 .. MaxJobs /\ jobs < MaxJobs
  BY DEF IInv, TypeOK, SpillMargin, ReadFresh, Configure
<1>2. jobs' \in 0 .. MaxJobs
  BY <1>1, ConstAssumption DEF Configure
<1>3. /\ read' = read /\ stack_data' = stack_data /\ pushes' = pushes /\ slowPops' = slowPops
      /\ state' = "WORK"
  BY DEF Configure
<1>4. /\ read \in [valid : BOOLEAN, data : LineTasks] /\ stack_data \in [Slots -> Tasks]
      /\ pushes \in 0 .. MaxPush
  BY <1>1 DEF TypeOK
<1>5. read'.valid = FALSE
  BY <1>1, <1>3, <1>4
<1>6. Fresh'
  BY <1>1, <1>2, <1>3, <1>4, <1>5 DEF Configure, Fresh
<1>7. QED
  BY <1>6, FreshNext

LEMMA InitHolds == Init => IInv
<1> SUFFICES ASSUME Init PROVE IInv
  OBVIOUS
<1>1. 0 \in 0 .. MaxJvm /\ 0 \in 0 .. LineElems - 1 /\ 0 \in 0 .. MaxPush /\ 0 \in 0 .. MaxJobs
      /\ 0 <= MaxPops /\ JvmQueue[0] \in Tasks
  BY ConstAssumption
<1>2. stack_data \in [Slots -> Tasks]
  BY <1>1 DEF Init
<1>3. read \in [valid : BOOLEAN, data : LineTasks] /\ ~read.valid
  <2>1. NoTasks \in [1 .. 0 -> Tasks] /\ 0 \in 0 .. LineElems
    BY <1>1, ConstAssumption DEF NoTasks
  <2>2. NoTasks \in LineTasks
    BY <2>1 DEF LineTasks
  <2>3. QED
    BY <2>2 DEF Init, NoRead
<1>4. QED
  <2>1. read.valid = FALSE
    BY <1>3
  <2>2. Fresh
    BY <1>1, <1>2, <1>3, <2>1 DEF Init, Fresh
  <2>3. QED
    BY <2>2, FreshHolds

(* The inductive invariant holds of every behaviour. *)
THEOREM Invariance == Spec => []IInv
<1>1. IInv /\ [Next]_vars => IInv'
  <2> SUFFICES ASSUME IInv, [Next]_vars PROVE IInv'
    OBVIOUS
  <2>1. CASE PushCycle
    BY <2>1, PushCycleKeeps
  <2>2. CASE PushPopCycle
    BY <2>2, PushPopCycleKeeps
  <2>3. CASE PopCycle
    BY <2>3, PopCycleKeeps
  <2>4. CASE PrePopCycle
    BY <2>4, PrePopCycleKeeps
  <2>5. CASE QuietCycle
    BY <2>5, QuietCycleKeeps
  <2>6. CASE Finish
    BY <2>6, FinishKeeps
  <2>7. CASE Configure
    BY <2>7, ConfigureKeeps
  <2>8. CASE UNCHANGED vars
    BY <2>8 DEF vars, ring, cache, follow, queue, memory, env, IInv, TypeOK, TopCacheCoherent,
                PushFollowServable, FollowUnmarked, SpillIntact, SpillMargin, ReadFresh,
                Usage, SpillNum, ReadNum, LineOffset, Inc, Dec, Least
  <2>9. QED
    BY <2>1, <2>2, <2>3, <2>4, <2>5, <2>6, <2>7, <2>8 DEF Next, Work
<1>2. QED
  BY <1>1, InitHolds, PTL DEF Spec

(* The registers keep their types. *)
THEOREM TypeCorrect == Spec => []TypeOK
<1>1. IInv => TypeOK
  BY DEF IInv
<1>2. QED
  BY <1>1, Invariance, PTL

(* Pop always hands out the newest task: TopCache mirrors the ring. *)
THEOREM CacheCoherence == Spec => []TopCacheCoherent
<1>1. IInv => TopCacheCoherent
  BY DEF IInv
<1>2. QED
  BY <1>1, Invariance, PTL

(* A push-follow batch is always servable, so it cannot block Pop for good. *)
THEOREM FollowProgress == Spec => []PushFollowServable
<1>1. IInv => PushFollowServable
  BY DEF IInv
<1>2. QED
  BY <1>1, Invariance, PTL

(* SpillOut retires exactly the line it copied. *)
THEOREM SpillConsistency == Spec => []SpillIntact
<1>1. IInv => SpillIntact
  BY DEF IInv
<1>2. QED
  BY <1>1, Invariance, PTL

(* No stale answer is taken by ReadBack. *)
THEOREM ReadBackConsistency == Spec => []ReadFresh
<1>1. IInv => ReadFresh
  BY DEF IInv
<1>2. QED
  BY <1>1, Invariance, PTL

-----------------------------------------------------------------------------
(***************************************************************************)
(* The stack as a whole: the ring and the JVM queue hold one sequence of   *)
(* tasks, and the memory path moves its tasks without changing it.         *)
(***************************************************************************)

(* A line that was accepted by memory stands where the queue will end. *)
SpillWritten ==
  spill.phase = "ISSUED" =>
    \A i \in 1 .. spill.num : jvm_queue[spill.qbottom + i - 1] = spill.data[i]

(* There are never more tasks than the JVM left and GCTrace pushed. *)
QueueFits == queue_bottom + Usage <= MaxJvm + pushes

QueueInv == SpillWritten /\ QueueFits

Total == queue_bottom + Usage
TaskAt(i) == IF i <= queue_bottom THEN jvm_queue[i - 1]
             ELSE stack_data[Inc(stack_bottom, i - queue_bottom)]

LEMMA UpToTop ==
  ASSUME NEW t \in Slots, NEW b \in Slots
  PROVE  Inc(b, Dist(t, b)) = t
BY ConstAssumption DEF Slots, Dist, Inc

(* The tasks on chip, by depth. *)
LEMMA RingDepth ==
  ASSUME NEW t \in Slots, NEW b \in Slots, NEW q \in Nat, NEW i \in q + 1 .. q + Dist(t, b)
  PROVE  /\ Inc(b, i - q) = Dec(t, q + Dist(t, b) - i)
         /\ q + Dist(t, b) - i \in 0 .. Dist(t, b) - 1
         /\ Inc(b, i - q) \in Slots
<1>1. Dist(t, b) \in 0 .. Entry - 1
  BY DistType
<1>2. i - q \in 1 .. Dist(t, b) /\ i \in Int
  BY <1>1, ConstAssumption
<1>3. Inc(b, i - q) = Dec(t, Dist(t, b) - (i - q))
  BY <1>2, AboveBottom
<1>4. Dist(t, b) - (i - q) = q + Dist(t, b) - i
  BY <1>1, <1>2, ConstAssumption
<1>5. i - q \in 0 .. Entry - 1
  BY <1>1, <1>2, ConstAssumption
<1>6. Inc(b, i - q) \in Slots
  BY <1>5, PointerTypes
<1>7. q + Dist(t, b) - i \in 0 .. Dist(t, b) - 1
  BY <1>1, <1>2, ConstAssumption
<1>8. QED
  BY <1>3, <1>4, <1>6, <1>7

LEMMA TaskAtType ==
  ASSUME TypeOK, NEW i \in 1 .. Total
  PROVE  TaskAt(i) \in Tasks
<1>1. /\ queue_bottom \in 0 .. QueueSize - 1 /\ stack_top \in Slots /\ stack_bottom \in Slots
      /\ queue_bottom \in Nat /\ QueueSize \in Nat
  BY ConstAssumption DEF TypeOK
<1>2. CASE i <= queue_bottom
  <2>1. i - 1 \in 0 .. QueueSize - 1
    BY <1>1, <1>2
  <2>2. QED
    BY <1>2, <2>1 DEF TaskAt, TypeOK
<1>3. CASE ~(i <= queue_bottom)
  <2>1. Usage = Dist(stack_top, stack_bottom) /\ Usage \in 0 .. Entry - 1
    BY LineNumbers, UsageIsDist
  <2>2. i \in queue_bottom + 1 .. queue_bottom + Dist(stack_top, stack_bottom)
    BY <1>1, <1>3, <2>1, ConstAssumption DEF Total
  <2>3. Inc(stack_bottom, i - queue_bottom) \in Slots
    BY <1>1, <2>2, RingDepth
  <2>4. QED
    BY <1>3, <2>3 DEF TaskAt, TypeOK
<1>4. QED
  BY <1>2, <1>3

(* What the memory path does to the queue and to the bottom of the ring.   *)
LEMMA QueueMoves ==
  ASSUME IInv, QueueInv, NEW ready \in BOOLEAN, NEW resp \in BOOLEAN, MemoryPath(ready, resp)
  PROVE  /\ SpillWritten'
         /\ \A i \in 1 .. queue_bottom :
              i <= queue_bottom' => jvm_queue'[i - 1] = jvm_queue[i - 1]
         /\ \/ stack_bottom' = stack_bottom /\ queue_bottom' = queue_bottom
            \/ /\ spill.phase = "ISSUED" /\ stack_bottom' = Inc(stack_bottom, SpillNum)
               /\ SpillNum \in 0 .. Usage /\ ~ReadBackRuns
               /\ queue_bottom' = queue_bottom + SpillNum
               /\ \A i \in queue_bottom + 1 .. queue_bottom + SpillNum :
                    jvm_queue'[i - 1] = stack_data[Inc(stack_bottom, i - queue_bottom)]
            \/ /\ ReadBackRuns /\ readIssued /\ resp
               /\ stack_bottom' = Dec(stack_bottom, CanReceive)
               /\ queue_bottom' = queue_bottom - CanReceive
<1>t. /\ TypeOK /\ queue_bottom \in Nat /\ queue_bottom <= QueueSize - 1 /\ QueueSize \in Nat
      /\ SpillNum \in 1 .. LineElems /\ LineElems \in Nat
      /\ Usage \in Nat /\ pushes \in 0 .. MaxPush
  <2>1. TypeOK
    BY DEF IInv
  <2>2. queue_bottom \in 0 .. QueueSize - 1 /\ pushes \in 0 .. MaxPush
    BY <2>1 DEF TypeOK
  <2>3. Usage \in 0 .. Entry - 1 /\ SpillNum \in 1 .. LineElems
    BY <2>1, LineNumbers
  <2>4. QueueSize \in Nat /\ LineElems \in Nat
    BY ConstAssumption
  <2>5. QED
    BY <2>1, <2>2, <2>3, <2>4
<1>s. spill.phase # "IDLE" =>
        /\ spill.bottom = stack_bottom /\ spill.qbottom = queue_bottom
        /\ spill.num = SpillNum
        /\ \A i \in 1 .. SpillNum : spill.data[i] = stack_data[Inc(stack_bottom, i)]
  BY DEF IInv, SpillIntact
<1>r. spill.phase # "IDLE" => SpillNum \in 0 .. Usage /\ queue_bottom + SpillNum < QueueSize
  <2> SUFFICES ASSUME spill.phase # "IDLE"
               PROVE  SpillNum \in 0 .. Usage /\ queue_bottom + SpillNum < QueueSize
    OBVIOUS
  <2>1. Usage + slowPops + 1 >= SpillNeed /\ slowPops \in Nat /\ slowPops <= MaxPops
    BY DEF IInv, SpillMargin, TypeOK
  <2>2. SpillNum <= Usage
    BY <1>t, <2>1, ConstAssumption
  <2>3. queue_bottom + Usage <= MaxJvm + pushes
    BY DEF QueueInv, QueueFits
  <2>4. QED
    BY <1>t, <2>2, <2>3, ConstAssumption
<1>1. CASE SpillRetire(resp)
  <2>1. /\ spill.phase = "ISSUED" /\ stack_bottom' = Inc(stack_bottom, SpillNum)
        /\ queue_bottom' = (queue_bottom + SpillNum) % QueueSize
        /\ spill' = NoSpill /\ jvm_queue' = jvm_queue
    BY <1>1, <1>s DEF SpillRetire
  <2>2. SpillNum \in 0 .. Usage /\ queue_bottom + SpillNum < QueueSize
    BY <1>r, <2>1
  <2>3. queue_bottom' = queue_bottom + SpillNum
    BY <1>t, <2>1, <2>2
  <2>4. ASSUME NEW i \in queue_bottom + 1 .. queue_bottom + SpillNum
        PROVE  jvm_queue'[i - 1] = stack_data[Inc(stack_bottom, i - queue_bottom)]
    <3>1. i - queue_bottom \in 1 .. SpillNum /\ queue_bottom + (i - queue_bottom) - 1 = i - 1
      BY <1>t
    <3>2. jvm_queue[queue_bottom + (i - queue_bottom) - 1] = spill.data[i - queue_bottom]
      BY <1>s, <2>1, <3>1 DEF QueueInv, SpillWritten
    <3>3. spill.data[i - queue_bottom] = stack_data[Inc(stack_bottom, i - queue_bottom)]
      BY <1>s, <2>1, <3>1
    <3>4. QED
      BY <2>1, <3>1, <3>2, <3>3
  <2>5. SpillWritten'
    BY <2>1 DEF SpillWritten, NoSpill
  <2>6. ~ReadBackRuns
    BY <2>1 DEF ReadBackRuns, SpillRuns
  <2>7. QED
    BY <2>1, <2>2, <2>3, <2>4, <2>5, <2>6
<1>2. CASE ReadBackReceive(resp)
  <2>1. /\ ReadBackRuns /\ readIssued /\ resp
        /\ stack_bottom' = Dec(stack_bottom, CanReceive)
        /\ queue_bottom' = queue_bottom - CanReceive
        /\ jvm_queue' = jvm_queue /\ spill' = spill
    BY <1>2 DEF ReadBackReceive
  <2>2. SpillWritten'
    BY <2>1 DEF QueueInv, SpillWritten
  <2>3. QED
    BY <2>1, <2>2
<1>3. CASE SpillRequest(ready, resp)
  <2>1. /\ spill.phase = "VALID" /\ stack_bottom' = stack_bottom /\ queue_bottom' = queue_bottom
        /\ spill' = [spill EXCEPT !.phase = IF ready /\ ~resp THEN "ISSUED" ELSE "VALID"]
    BY <1>3 DEF SpillRequest
  <2>2. SpillNum \in 0 .. Usage /\ queue_bottom + SpillNum < QueueSize
    BY <1>r, <2>1
  <2>3. /\ DOMAIN jvm_queue = 0 .. QueueSize - 1 /\ spill.num = SpillNum
        /\ spill.qbottom = queue_bottom
    BY <1>t, <1>s, <2>1 DEF TypeOK
  <2>4. CASE ready
    <3> DEFINE new(q) == IF q \in queue_bottom .. queue_bottom + SpillNum - 1
                         THEN spill.data[q - queue_bottom + 1] ELSE jvm_queue[q]
    <3>1. jvm_queue' = [q \in 0 .. QueueSize - 1 |-> new(q)]
      BY <1>3, <2>3, <2>4 DEF SpillRequest
    <3>2. ASSUME NEW i \in 1 .. queue_bottom PROVE jvm_queue'[i - 1] = jvm_queue[i - 1]
      <4>1. i - 1 \in 0 .. QueueSize - 1 /\ i - 1 \notin queue_bottom .. queue_bottom + SpillNum - 1
        BY <1>t
      <4>2. QED
        BY <3>1, <4>1
    <3>3. ASSUME NEW i \in 1 .. SpillNum PROVE jvm_queue'[queue_bottom + i - 1] = spill.data[i]
      <4>1. /\ queue_bottom + i - 1 \in 0 .. QueueSize - 1
            /\ queue_bottom + i - 1 \in queue_bottom .. queue_bottom + SpillNum - 1
            /\ (queue_bottom + i - 1) - queue_bottom + 1 = i
        BY <1>t, <2>2
      <4>2. QED
        BY <3>1, <4>1
    <3>4. spill'.num = SpillNum /\ spill'.qbottom = queue_bottom /\ spill'.data = spill.data
      BY <1>t, <2>1, <2>3 DEF TypeOK
    <3>5. SpillWritten'
      BY <3>3, <3>4 DEF SpillWritten
    <3>6. QED
      BY <2>1, <3>2, <3>5
  <2>5. CASE ~ready
    <3>1. jvm_queue' = jvm_queue /\ spill'.phase = "VALID"
      BY <1>3, <1>t, <2>1, <2>5 DEF SpillRequest, TypeOK
    <3>2. QED
      BY <2>1, <3>1 DEF SpillWritten
  <2>6. QED
    BY <2>4, <2>5
<1>4. CASE \/ SpillRead(resp) \/ SpillPack(resp)
           \/ ReadBackRequest(ready, resp) \/ ReadBackWait(resp) \/ NeitherRuns(resp)
  <2>1. stack_bottom' = stack_bottom /\ queue_bottom' = queue_bottom /\ jvm_queue' = jvm_queue
    BY <1>4 DEF SpillRead, SpillPack, ReadBackRequest, ReadBackWait, NeitherRuns, queue
  <2>2. spill' = spill \/ spill'.phase # "ISSUED"
    <3>1. ASSUME SpillRead(resp) \/ SpillPack(resp) PROVE spill'.phase # "ISSUED"
      <4>1. CASE SpillRead(resp)
        BY <4>1 DEF SpillRead
      <4>2. CASE SpillPack(resp)
        <5>1. spill' = [spill EXCEPT !.phase = "VALID"]
          BY <4>2 DEF SpillPack
        <5>2. DOMAIN spill = {"phase", "num", "bottom", "qbottom", "data"}
          BY <1>t DEF TypeOK
        <5>3. QED
          BY <5>1, <5>2
      <4>3. QED
        BY <3>1, <4>1, <4>2
    <3>2. ASSUME ReadBackRequest(ready, resp) \/ ReadBackWait(resp) \/ NeitherRuns(resp)
          PROVE  spill' = spill
      BY <3>2 DEF ReadBackRequest, ReadBackWait, NeitherRuns, memory
    <3>3. QED
      BY <1>4, <3>1, <3>2
  <2>3. SpillWritten'
    BY <2>1, <2>2 DEF QueueInv, SpillWritten
  <2>4. QED
    BY <2>1, <2>3
<1>5. QED
  BY <1>1, <1>2, <1>3, <1>4 DEF MemoryPath

(* The memory path keeps every task in its place: what it writes into the  *)
(* ring was the newest of the queue, what it takes off was written to it.  *)
LEMMA PlacesKept ==
  ASSUME IInv, QueueInv, NEW ready \in BOOLEAN, NEW resp \in BOOLEAN, MemoryPath(ready, resp),
         NEW P, NEW M, RingWrites(P, M, Received(resp)),
         NEW U, U = Dist(stack_top, stack_bottom')
  PROVE  /\ queue_bottom' + U = Total /\ U \in 0 .. Entry - 1 /\ queue_bottom' \in Nat
         /\ \A i \in 1 .. queue_bottom' : i <= Total /\ jvm_queue'[i - 1] = TaskAt(i)
         /\ \A i \in queue_bottom' + 1 .. Total :
              /\ Inc(stack_bottom', i - queue_bottom') = Dec(stack_top, Total - i)
              /\ i <= queue_bottom \/ Dec(stack_top, Total - i) \notin P =>
                   stack_data'[Dec(stack_top, Total - i)] = TaskAt(i)
<1> DEFINE q == queue_bottom'
<1>t. /\ TypeOK /\ queue_bottom \in Nat /\ queue_bottom <= QueueSize - 1 /\ QueueSize \in Nat
      /\ stack_top \in Slots /\ stack_bottom \in Slots /\ stack_bottom' \in Slots
      /\ SpillNum \in 1 .. LineElems /\ CanReceive \in 0 .. ReadNum
      /\ ReadNum \in Nat /\ ReadNum <= queue_bottom /\ CanReceive \in Nat
      /\ Usage \in 0 .. Entry - 1 /\ Usage = Dist(stack_top, stack_bottom)
  BY LineNumbers, BottomMoves, UsageIsDist, ConstAssumption DEF IInv, TypeOK
<1>q. /\ \A i \in 1 .. queue_bottom : i <= q => jvm_queue'[i - 1] = jvm_queue[i - 1]
      /\ \/ stack_bottom' = stack_bottom /\ q = queue_bottom
         \/ /\ spill.phase = "ISSUED" /\ stack_bottom' = Inc(stack_bottom, SpillNum)
            /\ SpillNum \in 0 .. Usage /\ ~ReadBackRuns
            /\ q = queue_bottom + SpillNum
            /\ \A i \in queue_bottom + 1 .. queue_bottom + SpillNum :
                 jvm_queue'[i - 1] = stack_data[Inc(stack_bottom, i - queue_bottom)]
         \/ /\ ReadBackRuns /\ readIssued /\ resp
            /\ stack_bottom' = Dec(stack_bottom, CanReceive)
            /\ q = queue_bottom - CanReceive
  BY QueueMoves
<1>u. U \in 0 .. Entry - 1
  BY <1>t, DistType
<1> HIDE DEF q
<1>1. q + U = Total /\ q \in Nat
  <2>1. CASE stack_bottom' = stack_bottom /\ q = queue_bottom
    BY <1>t, <2>1 DEF Total
  <2>2. CASE /\ stack_bottom' = Inc(stack_bottom, SpillNum) /\ SpillNum \in 0 .. Usage
             /\ q = queue_bottom + SpillNum
    <3>1. U = Usage - SpillNum
      BY <1>t, <2>2, DistRaise
    <3>2. QED
      BY <1>t, <2>2, <3>1, ConstAssumption DEF Total
  <2>3. CASE /\ ReadBackRuns /\ stack_bottom' = Dec(stack_bottom, CanReceive)
             /\ q = queue_bottom - CanReceive
    <3>1. Usage <= ReadNeed /\ CanReceive <= LineElems
      BY <1>t, <2>3, LineNumbers, ConstAssumption DEF ReadBackRuns
    <3>2. Usage + CanReceive < Entry
      BY <1>t, <3>1, ConstAssumption
    <3>3. U = Usage + CanReceive
      BY <1>t, <2>3, <3>2, DistLower
    <3>4. QED
      BY <1>t, <2>3, <3>3, ConstAssumption DEF Total
  <2>4. QED
    BY <1>q, <2>1, <2>2, <2>3
<1>2. Total \in Nat /\ U \in Nat /\ q <= Total
  BY <1>t, <1>u, <1>1, ConstAssumption DEF Total
<1>3. ASSUME NEW i \in 1 .. q PROVE i <= Total /\ jvm_queue'[i - 1] = TaskAt(i)
  <2>1. i <= Total
    BY <1>1, <1>2
  <2>2. CASE i <= queue_bottom
    <3>1. i \in 1 .. queue_bottom /\ i <= q
      BY <1>1, <1>t, <2>2
    <3>2. jvm_queue'[i - 1] = jvm_queue[i - 1]
      BY <1>q, <3>1
    <3>3. QED
      BY <2>1, <2>2, <3>2 DEF TaskAt
  <2>3. CASE ~(i <= queue_bottom)
    <3>1. q > queue_bottom
      BY <1>1, <1>t, <2>3
    <3>2. /\ q = queue_bottom + SpillNum
          /\ \A j \in queue_bottom + 1 .. queue_bottom + SpillNum :
               jvm_queue'[j - 1] = stack_data[Inc(stack_bottom, j - queue_bottom)]
      <4>1. ~(q = queue_bottom) /\ ~(q = queue_bottom - CanReceive)
        BY <1>t, <3>1
      <4>2. QED
        BY <1>q, <4>1
    <3>3. i \in queue_bottom + 1 .. queue_bottom + SpillNum
      BY <1>1, <1>t, <2>3, <3>2
    <3>4. QED
      BY <2>1, <2>3, <3>2, <3>3 DEF TaskAt
  <2>4. QED
    BY <2>2, <2>3
<1>4. ASSUME NEW i \in q + 1 .. Total
      PROVE  /\ Inc(stack_bottom', i - q) = Dec(stack_top, Total - i)
             /\ i <= queue_bottom \/ Dec(stack_top, Total - i) \notin P =>
                  stack_data'[Dec(stack_top, Total - i)] = TaskAt(i)
  <2>1. i \in q + 1 .. q + Dist(stack_top, stack_bottom')
    BY <1>1
  <2>2. Inc(stack_bottom', i - q) = Dec(stack_top, q + Dist(stack_top, stack_bottom') - i)
    BY <1>1, <1>t, <2>1, RingDepth
  <2>3. Inc(stack_bottom', i - q) = Dec(stack_top, Total - i)
    <3>1. q + Dist(stack_top, stack_bottom') - i = Total - i
      BY <1>1, <1>2
    <3>2. QED
      BY <2>2, <3>1
  <2>4. CASE i > queue_bottom
    <3>1. i \in queue_bottom + 1 .. queue_bottom + Dist(stack_top, stack_bottom)
      BY <1>1, <1>t, <2>4 DEF Total
    <3>2. /\ Inc(stack_bottom, i - queue_bottom)
               = Dec(stack_top, queue_bottom + Dist(stack_top, stack_bottom) - i)
          /\ queue_bottom + Dist(stack_top, stack_bottom) - i
               \in 0 .. Dist(stack_top, stack_bottom) - 1
      BY <1>t, <3>1, RingDepth
    <3>3. /\ Inc(stack_bottom, i - queue_bottom) = Dec(stack_top, Total - i)
          /\ Total - i \in 0 .. Usage - 1
      BY <1>t, <3>2 DEF Total
    <3>4. Dec(stack_top, Total - i) \notin P =>
            stack_data'[Dec(stack_top, Total - i)] = stack_data[Dec(stack_top, Total - i)]
      BY <1>t, <3>3, RingKeeps
    <3>5. TaskAt(i) = stack_data[Dec(stack_top, Total - i)]
      BY <1>t, <2>4, <3>3 DEF TaskAt
    <3>6. QED
      BY <1>t, <2>3, <2>4, <3>4, <3>5
  <2>5. CASE i <= queue_bottom
    <3> DEFINE k == queue_bottom - i
    <3>1. /\ ReadBackRuns /\ readIssued /\ resp
          /\ stack_bottom' = Dec(stack_bottom, CanReceive) /\ q = queue_bottom - CanReceive
      BY <1>q, <1>t, <2>5
    <3>2. k \in 0 .. CanReceive - 1 /\ k \in Nat
      BY <1>t, <1>1, <2>5, <3>1
    <3>3. Usage <= ReadNeed /\ CanReceive <= LineElems
      BY <1>t, <3>1, LineNumbers, ConstAssumption DEF ReadBackRuns
    <3>4. Usage + k < Entry /\ Usage + k = Total - i /\ k \in 0 .. Entry - 1
      BY <1>t, <3>2, <3>3, ConstAssumption DEF Total
    <3>5. Dec(stack_bottom, k) = Dec(stack_top, Total - i)
      BY <1>t, <3>2, <3>4, BelowBottom
    <3>6. Dec(stack_bottom, k) \in Slots
      BY <1>t, <3>4, PointerTypes
    <3>7. Dec(stack_bottom, k) \in Received(resp)
      BY <3>1, <3>2 DEF Received
    <3>8. stack_data'[Dec(stack_bottom, k)] = ReceivedTask(Dec(stack_bottom, k))
      BY <3>6, <3>7 DEF RingWrites
    <3>9. Dec(stack_bottom, Dec(stack_bottom, k)) = k
      BY <1>t, <3>4, ConstAssumption DEF Dec, Slots
    <3>10. read.data = [j \in 1 .. ReadNum |-> jvm_queue[queue_bottom - ReadNum + j - 1]]
      <4>1. read.valid
        BY <3>1 DEF MemoryPath
      <4>2. slowPops \in Nat /\ slowPops <= MaxPops
        BY DEF IInv, SpillMargin, TypeOK
      <4>3. ~(Usage + slowPops + LineElems + 1 >= SpillNeed)
        <5>1. PICK x \in Nat, p \in Nat, r \in Nat, l \in Nat :
                 x = Usage /\ p = slowPops /\ r = ReadNeed /\ l = LineElems
          BY <1>t, <4>2, ConstAssumption
        <5>2. x <= r /\ p <= MaxPops /\ r + l + MaxPops + 1 < SpillNeed
          BY <3>3, <4>2, <5>1, ConstAssumption
        <5>3. MaxPops \in Nat /\ SpillNeed \in Nat
          BY ConstAssumption
        <5>4. ~(x + p + l + 1 >= SpillNeed)
          BY <5>2, <5>3
        <5>5. QED
          BY <5>1, <5>4
      <4>4. QED
        BY <4>1, <4>3 DEF IInv, ReadFresh
    <3>11. ReadNum - k \in 1 .. ReadNum /\ queue_bottom - ReadNum + (ReadNum - k) - 1 = i - 1
      BY <1>t, <3>2
    <3>12. ReceivedTask(Dec(stack_bottom, k)) = jvm_queue[i - 1]
      BY <3>9, <3>10, <3>11 DEF ReceivedTask
    <3>13. QED
      BY <2>3, <2>5, <3>5, <3>8, <3>12 DEF TaskAt
  <2>6. QED
    BY <1>t, <1>1, <2>4, <2>5
<1>5. QED
  BY <1>1, <1>3, <1>4, <1>u DEF q

(* The sequence of tasks, and how one more or one less shows in it.        *)
LEMMA Longer ==
  ASSUME NEW n \in Nat, NEW f \in [1 .. n -> Tasks], NEW g \in [1 .. n + 1 -> Tasks],
         \A i \in 1 .. n : g[i] = f[i]
  PROVE  g = Append(f, g[n + 1])
<1>1. f \in Seq(Tasks) /\ Len(f) = n
  OBVIOUS
<1>2. QED
  BY <1>1

LEMMA Shorter ==
  ASSUME NEW n \in Nat, NEW f \in [1 .. n + 1 -> Tasks], NEW g \in [1 .. n -> Tasks],
         \A i \in 1 .. n : g[i] = f[i]
  PROVE  f # << >> /\ g = SubSeq(f, 1, Len(f) - 1)
<1>1. f \in Seq(Tasks) /\ Len(f) = n + 1
  OBVIOUS
<1>2. QED
  BY <1>1

LEMMA Replaced ==
  ASSUME NEW n \in Nat \ {0}, NEW f \in [1 .. n -> Tasks], NEW g \in [1 .. n -> Tasks],
         \A i \in 1 .. n - 1 : g[i] = f[i]
  PROVE  f # << >> /\ g = [f EXCEPT ![Len(f)] = g[n]]
<1>1. f \in Seq(Tasks) /\ Len(f) = n
  OBVIOUS
<1>2. QED
  BY <1>1

SequenceOfTasks ==
  /\ Total \in Nat /\ AllTasks \in [1 .. Total -> Tasks] /\ AllTasks \in Seq(Tasks)
  /\ \A i \in 1 .. Total : AllTasks[i] = TaskAt(i)

LEMMA AllTasksIs == TypeOK => SequenceOfTasks
<1> SUFFICES ASSUME TypeOK PROVE SequenceOfTasks
  OBVIOUS
<1>1. Total \in Nat
  <2>1. queue_bottom \in Nat /\ Usage \in Nat
    BY LineNumbers, ConstAssumption DEF TypeOK
  <2>2. QED
    BY <2>1 DEF Total
<1>2. AllTasks = [i \in 1 .. Total |-> TaskAt(i)]
  BY DEF AllTasks, TaskAt, Total
<1>3. \A i \in 1 .. Total : TaskAt(i) \in Tasks
  BY TaskAtType
<1>4. AllTasks \in [1 .. Total -> Tasks]
  BY <1>2, <1>3
<1>5. QED
  BY <1>1, <1>2, <1>4 DEF SequenceOfTasks

LEMMA AllTasksNext == TypeOK' => SequenceOfTasks'
BY AllTasksIs, PTL

(* A cycle whose top moves to t leaves the tasks below in their places.    *)
LEMMA CycleHolds ==
  ASSUME IInv, QueueInv, IInv', NEW ready \in BOOLEAN, NEW resp \in BOOLEAN,
         MemoryPath(ready, resp), NEW P, NEW M, RingWrites(P, M, Received(resp)),
         NEW n \in Nat, n <= Total, n <= Total',
         \A d \in 0 .. Usage - 1 : d >= Total - n => Dec(stack_top, d) \notin P
  PROVE  \A i \in 1 .. n : AllTasks'[i] = AllTasks[i]
<1> DEFINE U == Dist(stack_top, stack_bottom')
<1>1. /\ queue_bottom' + U = Total /\ U \in 0 .. Entry - 1 /\ queue_bottom' \in Nat
      /\ \A i \in 1 .. queue_bottom' : i <= Total /\ jvm_queue'[i - 1] = TaskAt(i)
      /\ \A i \in queue_bottom' + 1 .. Total :
           /\ Inc(stack_bottom', i - queue_bottom') = Dec(stack_top, Total - i)
           /\ i <= queue_bottom \/ Dec(stack_top, Total - i) \notin P =>
                stack_data'[Dec(stack_top, Total - i)] = TaskAt(i)
  BY PlacesKept
<1>2. SequenceOfTasks /\ SequenceOfTasks'
  BY AllTasksIs, AllTasksNext DEF IInv
<1>3. Total \in Nat /\ Total' \in Nat /\ Usage \in 0 .. Entry - 1 /\ queue_bottom \in Nat
  <2>1. TypeOK
    BY DEF IInv
  <2>2. Usage \in 0 .. Entry - 1
    BY <2>1, LineNumbers
  <2>3. queue_bottom \in Nat
    BY <2>1, ConstAssumption DEF TypeOK
  <2>4. QED
    BY <1>2, <2>2, <2>3 DEF SequenceOfTasks
<1> SUFFICES ASSUME NEW i \in 1 .. n PROVE AllTasks'[i] = AllTasks[i]
  OBVIOUS
<1>4. i \in 1 .. Total /\ i \in 1 .. Total'
  BY <1>3
<1>5. AllTasks[i] = TaskAt(i) /\ AllTasks'[i] = TaskAt(i)'
  BY <1>2, <1>4 DEF SequenceOfTasks
<1>6. CASE i <= queue_bottom'
  BY <1>1, <1>4, <1>5, <1>6 DEF TaskAt
<1>7. CASE ~(i <= queue_bottom')
  <2>1. i \in queue_bottom' + 1 .. Total
    <3>1. PICK q \in Nat : q = queue_bottom'
      BY <1>1
    <3>2. PICK t \in Nat : t = Total
      BY <1>3
    <3>3. i \in 1 .. t /\ ~(i <= q)
      BY <1>4, <1>7, <3>1, <3>2
    <3>4. i \in q + 1 .. t
      <4> HIDE DEF U
      <4>1. QED
        BY ONLY t \in Nat, q \in Nat, <3>3
    <3>5. QED
      BY <3>1, <3>2, <3>4
  <2>2. TaskAt(i)' = stack_data'[Dec(stack_top, Total - i)]
    BY <1>1, <1>7, <2>1 DEF TaskAt
  <2>3. CASE i > queue_bottom
    <3>1. Total - i \in 0 .. Usage - 1 /\ Total - i >= Total - n
      BY <1>3, <1>4, <2>3, ConstAssumption DEF Total
    <3>2. QED
      BY <1>1, <1>5, <2>1, <2>2, <3>1
  <2>4. CASE ~(i > queue_bottom)
    <3>1. i <= queue_bottom
      BY <1>3, <2>4
    <3>2. stack_data'[Dec(stack_top, Total - i)] = TaskAt(i)
      BY <1>1, <2>1, <3>1
    <3>3. QED
      BY <1>5, <2>2, <3>2
  <2>5. QED
    BY <2>3, <2>4
<1>8. QED
  BY <1>6, <1>7

(* What a cycle in WORK is to the sequence of tasks.                       *)
LEMMA PushIsPush ==
  ASSUME IInv, QueueInv, IInv', PushCycle
  PROVE  QueueInv' /\ NewTask \in Tasks /\ AllTasks' = Append(AllTasks, NewTask)
<1>1. /\ state = "WORK" /\ PushOnly /\ CountPush /\ stack_top' = Inc(stack_top, 1)
  BY DEF PushCycle, Memory, PushOnly
<1>2. PICK ready \in BOOLEAN, resp \in BOOLEAN :
         MemoryPath(ready, resp) /\ RingWrites({Inc(stack_top, 1)}, {}, Received(resp))
  BY DEF PushCycle, Memory
<1> DEFINE U == Dist(stack_top, stack_bottom')
<1>3. Usage' = U + 1
  BY <1>1, <1>2, PushCoherent
<1>4. queue_bottom' + U = Total /\ U \in 0 .. Entry - 1 /\ queue_bottom' \in Nat
  BY <1>2, PlacesKept
<1>5. SequenceOfTasks /\ SequenceOfTasks'
  BY AllTasksIs, AllTasksNext DEF IInv
<1>6. Total' = Total + 1 /\ Total \in Nat /\ U \in Nat
  BY <1>3, <1>4, <1>5, ConstAssumption DEF Total, SequenceOfTasks
<1>7. /\ TypeOK /\ stack_top \in Slots /\ Usage \in 0 .. Entry - 1 /\ queue_bottom \in Nat
  <2>1. TypeOK /\ stack_top \in Slots /\ Usage \in 0 .. Entry - 1
    BY <1>1, CacheFacts
  <2>2. queue_bottom \in 0 .. QueueSize - 1
    BY <2>1 DEF TypeOK
  <2>3. QED
    BY <2>1, <2>2
<1>8. /\ pushes < MaxPush /\ pushes' = pushes + 1 /\ pushes \in 0 .. MaxPush
      /\ Usage < Entry - 1
  <2>1. Free # 0 /\ Free = Entry - 1 - Usage
    BY <1>1, <1>7, LineNumbers DEF CountPush, PushReady
  <2>2. Usage < Entry - 1
    BY <1>7, <2>1, ConstAssumption
  <2>3. QED
    BY <1>1, <1>7, <2>2 DEF CountPush, TypeOK
<1>9. QueueInv'
  <2>1. SpillWritten'
    BY <1>2, QueueMoves
  <2>2. queue_bottom + Usage <= MaxJvm + pushes
    BY DEF QueueInv, QueueFits
  <2>3. queue_bottom' + Usage' = queue_bottom + Usage + 1
    BY <1>3, <1>4, <1>6, <1>7 DEF Total
  <2>4. QueueFits'
    BY <1>7, <1>8, <2>2, <2>3, ConstAssumption DEF QueueFits
  <2>5. QED
    BY <2>1, <2>4 DEF QueueInv
<1>10. NewTask \in Tasks
  <2>1. pushes + 1 \in 1 .. MaxPush
    BY <1>8, ConstAssumption
  <2>2. QED
    BY <2>1, ConstAssumption DEF NewTask
<1>11. \A d \in 0 .. Usage - 1 : d >= Total - Total =>
          Dec(stack_top, d) \notin {Inc(stack_top, 1)}
  <2> SUFFICES ASSUME NEW d \in 0 .. Usage - 1 PROVE Inc(stack_top, 1) # Dec(stack_top, d)
    OBVIOUS
  <2>1. d \in 0 .. Entry - 2
    BY <1>7, ConstAssumption
  <2>2. QED
    BY <1>7, <2>1, PushShifts
<1>12. \A i \in 1 .. Total : AllTasks'[i] = AllTasks[i]
  <2>1. Total <= Total /\ Total <= Total'
    BY <1>6
  <2>2. QED
    BY <1>2, <1>6, <1>11, <2>1, CycleHolds
<1>13. AllTasks'[Total + 1] = NewTask
  <2>1. PICK k \in Nat : k = Total + 1
    BY <1>6
  <2>2. k \in 1 .. Total' /\ ~(k <= queue_bottom')
    BY <1>4, <1>6, <2>1
  <2>3. AllTasks'[k] = stack_data'[Inc(stack_bottom', k - queue_bottom')]
    BY <1>5, <2>2 DEF SequenceOfTasks, TaskAt
  <2>4. k - queue_bottom' = Usage'
    BY <1>3, <1>4, <1>6, <2>1
  <2>5. Inc(stack_bottom', Usage') = stack_top'
    <3>1. stack_top' \in Slots /\ stack_bottom' \in Slots
      BY DEF IInv, TypeOK
    <3>2. Usage' = Dist(stack_top', stack_bottom')
      BY DEF Usage, Dist
    <3>3. QED
      BY <3>1, <3>2, UpToTop
  <2>6. Inc(stack_top, 1) \in Slots /\ Inc(stack_top, 1) \notin Received(resp)
    BY <1>7, <1>8, PushedSlot
  <2>7. stack_data'[Inc(stack_top, 1)] = NewTask
    BY <1>2, <2>6 DEF RingWrites
  <2>8. QED
    BY <1>1, <2>1, <2>3, <2>4, <2>5, <2>7
<1>14. AllTasks' = Append(AllTasks, NewTask)
  <2>1. AllTasks \in [1 .. Total -> Tasks] /\ AllTasks' \in [1 .. Total + 1 -> Tasks]
    BY <1>5, <1>6 DEF SequenceOfTasks
  <2>2. AllTasks' = Append(AllTasks, AllTasks'[Total + 1])
    BY <1>6, <1>12, <2>1, Longer
  <2>3. QED
    BY <1>13, <2>2
<1>15. QED
  BY <1>9, <1>10, <1>14

LEMMA PushPopIsReplace ==
  ASSUME IInv, QueueInv, IInv', PushPopCycle
  PROVE  /\ QueueInv' /\ NewTask \in Tasks /\ AllTasks # << >>
         /\ AllTasks' = [AllTasks EXCEPT ![Len(AllTasks)] = NewTask]
<1>1. state = "WORK" /\ PushAndPop /\ CountPush
  BY DEF PushPopCycle, Memory, PushAndPop
<1>2. PICK ready \in BOOLEAN, resp \in BOOLEAN :
         MemoryPath(ready, resp) /\ RingWrites({stack_top}, {}, Received(resp))
  BY DEF PushPopCycle, Memory
<1> DEFINE U == Dist(stack_top, stack_bottom')
<1>3. /\ Usage' = U /\ stack_top' = stack_top /\ topCacheCount' = topCacheCount
      /\ topCacheCount > 0
  BY <1>1, <1>2, PushPopCoherent
<1>4. queue_bottom' + U = Total /\ U \in 0 .. Entry - 1 /\ queue_bottom' \in Nat
  BY <1>2, PlacesKept
<1>5. SequenceOfTasks /\ SequenceOfTasks'
  BY AllTasksIs, AllTasksNext DEF IInv
<1>6. Total' = Total /\ Total \in Nat /\ U \in Nat
  BY <1>3, <1>4, <1>5, ConstAssumption DEF Total, SequenceOfTasks
<1>7. /\ TypeOK /\ stack_top \in Slots /\ Usage \in 0 .. Entry - 1 /\ queue_bottom \in Nat
      /\ topCacheCount \in 0 .. TopCacheDepth /\ topCacheCount <= Usage
  <2>1. TypeOK
    BY DEF IInv
  <2>2. queue_bottom \in Nat
    BY <2>1, ConstAssumption DEF TypeOK
  <2>3. QED
    BY <1>1, <2>2, CacheFacts
<1>8. pushes < MaxPush /\ pushes' = pushes + 1 /\ pushes \in 0 .. MaxPush
  BY <1>1, <1>7 DEF CountPush, TypeOK
<1>9. QueueInv'
  <2>1. SpillWritten'
    BY <1>2, QueueMoves
  <2>2. queue_bottom + Usage <= MaxJvm + pushes
    BY DEF QueueInv, QueueFits
  <2>3. queue_bottom' + Usage' = queue_bottom + Usage
    BY <1>3, <1>4 DEF Total
  <2>4. QueueFits'
    BY <1>7, <1>8, <2>2, <2>3, ConstAssumption DEF QueueFits
  <2>5. QED
    BY <2>1, <2>4 DEF QueueInv
<1>10. NewTask \in Tasks
  <2>1. pushes + 1 \in 1 .. MaxPush
    BY <1>8, ConstAssumption
  <2>2. QED
    BY <2>1, ConstAssumption DEF NewTask
<1>11. Usage > 0 /\ U > 0 /\ Total \in Nat \ {0}
  <2>1. Usage > 0
    BY <1>3, <1>7, ConstAssumption
  <2>2. topCacheCount' <= Usage'
    BY <1>1 DEF IInv, TopCacheCoherent, PushPopCycle, Memory
  <2>3. U > 0
    BY <1>3, <1>6, <1>7, <2>2, ConstAssumption
  <2>4. QED
    BY <1>4, <1>6, <2>1, <2>3
<1>12. Dec(stack_top, 0) = stack_top /\ stack_top \notin Received(resp)
  <2>1. Dec(stack_top, 0) = stack_top
    BY <1>7, DecZero
  <2> SUFFICES ASSUME stack_top \in Received(resp) PROVE FALSE
    BY <2>1
  <2>2. PICK i \in 0 .. CanReceive - 1 :
            stack_top = Dec(stack_top, Usage + i) /\ Usage + i < Entry - 1
    BY <1>7, ReceivedBelow
  <2>3. Usage + i \in 0 .. Entry - 1 /\ Usage + i # 0 /\ 0 \in 0 .. Entry - 1
    BY <1>7, <1>11, <2>2, LineNumbers, ConstAssumption
  <2>4. QED
    BY <1>7, <2>1, <2>2, <2>3, DepthsDiffer
<1>13. PICK n \in Nat : n = Total - 1
  BY <1>11
<1>14. \A d \in 0 .. Usage - 1 : d >= Total - n => Dec(stack_top, d) \notin {stack_top}
  <2> SUFFICES ASSUME NEW d \in 0 .. Usage - 1, d >= Total - n PROVE Dec(stack_top, d) # stack_top
    OBVIOUS
  <2>1. d \in 0 .. Entry - 1 /\ d # 0 /\ 0 \in 0 .. Entry - 1
    BY <1>6, <1>7, <1>13, ConstAssumption
  <2>2. QED
    BY <1>7, <1>12, <2>1, DepthsDiffer
<1>15. \A i \in 1 .. Total - 1 : AllTasks'[i] = AllTasks[i]
  <2>1. n <= Total /\ n <= Total'
    BY <1>6, <1>13
  <2>2. \A i \in 1 .. n : AllTasks'[i] = AllTasks[i]
    BY <1>2, <1>14, <2>1, CycleHolds
  <2>3. QED
    BY <1>13, <2>2
<1>16. AllTasks'[Total] = NewTask
  <2>1. PICK k \in Nat : k = Total
    BY <1>6
  <2>2. k \in 1 .. Total' /\ ~(k <= queue_bottom')
    BY <1>4, <1>6, <1>11, <2>1
  <2>3. AllTasks'[k] = stack_data'[Inc(stack_bottom', k - queue_bottom')]
    BY <1>5, <2>2 DEF SequenceOfTasks, TaskAt
  <2>4. k - queue_bottom' = Usage'
    BY <1>3, <1>4, <1>6, <2>1
  <2>5. Inc(stack_bottom', Usage') = stack_top'
    <3>1. stack_top' \in Slots /\ stack_bottom' \in Slots
      BY DEF IInv, TypeOK
    <3>2. Usage' = Dist(stack_top', stack_bottom')
      BY DEF Usage, Dist
    <3>3. QED
      BY <3>1, <3>2, UpToTop
  <2>6. stack_data'[stack_top] = NewTask
    BY <1>2, <1>7, <1>12 DEF RingWrites
  <2>7. QED
    BY <1>3, <2>1, <2>3, <2>4, <2>5, <2>6
<1>17. AllTasks # << >> /\ AllTasks' = [AllTasks EXCEPT ![Len(AllTasks)] = NewTask]
  <2>1. AllTasks \in [1 .. Total -> Tasks] /\ AllTasks' \in [1 .. Total -> Tasks]
    BY <1>5, <1>6 DEF SequenceOfTasks
  <2>2. /\ AllTasks # << >>
        /\ AllTasks' = [AllTasks EXCEPT ![Len(AllTasks)] = AllTasks'[Total]]
    BY <1>11, <1>15, <2>1, Replaced
  <2>3. QED
    BY <1>16, <2>2
<1>18. QED
  BY <1>9, <1>10, <1>17

LEMMA PopIsPop ==
  ASSUME IInv, QueueInv, IInv', PopCycle
  PROVE  /\ QueueInv' /\ AllTasks # << >>
         /\ AllTasks' = SubSeq(AllTasks, 1, Len(AllTasks) - 1)
<1>1. state = "WORK" /\ PopOnly /\ pushes' = pushes /\ stack_top' = Dec(stack_top, 1)
  BY DEF PopCycle, Memory, PopOnly
<1>2. PICK ready \in BOOLEAN, resp \in BOOLEAN :
         MemoryPath(ready, resp) /\ RingWrites({}, {}, Received(resp))
  BY DEF PopCycle, Memory
<1> DEFINE U == Dist(stack_top, stack_bottom')
<1>3. Usage' = U - 1
  BY <1>1, <1>2, PopCoherent
<1>4. queue_bottom' + U = Total /\ U \in 0 .. Entry - 1 /\ queue_bottom' \in Nat
  BY <1>2, PlacesKept
<1>5. SequenceOfTasks /\ SequenceOfTasks'
  BY AllTasksIs, AllTasksNext DEF IInv
<1>6. Total = Total' + 1 /\ Total \in Nat /\ Total' \in Nat
  <2>1. PICK q \in Nat, u \in Int, e \in Nat : q = queue_bottom' /\ u = U /\ e = Entry
    BY <1>4, ConstAssumption
  <2>2. q + u = Total /\ Total \in Nat
    BY <1>4, <1>5, <2>1 DEF SequenceOfTasks
  <2>3. Total' = q + (u - 1) /\ Total' \in Nat
    BY <1>3, <1>5, <2>1 DEF Total, SequenceOfTasks
  <2>4. QED
    BY <2>1, <2>2, <2>3
<1>7. TypeOK /\ Usage \in 0 .. Entry - 1 /\ queue_bottom \in Nat /\ pushes \in Nat
  <2>1. TypeOK
    BY DEF IInv
  <2>2. queue_bottom \in Nat /\ pushes \in Nat
    BY <2>1, ConstAssumption DEF TypeOK
  <2>3. QED
    BY <1>1, <2>2, CacheFacts
<1>8. QueueInv'
  <2>1. SpillWritten'
    BY <1>2, QueueMoves
  <2>2. queue_bottom + Usage <= MaxJvm + pushes
    BY DEF QueueInv, QueueFits
  <2>3. PICK s \in Nat, t \in Nat : s = Total' /\ t = Total
    BY <1>6
  <2>4. t = s + 1
    BY <1>6, <2>3
  <2>5. QueueFits'
    <3>1. PICK m \in Nat : m = MaxJvm + pushes
      BY <1>7, ConstAssumption
    <3>2. t <= m
      BY <2>2, <2>3, <3>1 DEF Total
    <3>3. s <= m
      BY <2>4, <3>2
    <3>4. QED
      BY <1>1, <2>3, <3>1, <3>3 DEF QueueFits, Total
  <2>6. QED
    BY <2>1, <2>5 DEF QueueInv
<1>9. PICK n \in Nat : n = Total'
  BY <1>6
<1>10. \A i \in 1 .. n : AllTasks'[i] = AllTasks[i]
  <2>1. Total = n + 1 /\ Total' = n
    BY <1>6, <1>9
  <2>2. \A d \in 0 .. Usage - 1 : d >= Total - n => Dec(stack_top, d) \notin {}
    OBVIOUS
  <2>3. n <= Total /\ n <= Total'
    BY <2>1
  <2>4. QED
    BY <1>2, <2>2, <2>3, CycleHolds
<1>11. AllTasks \in [1 .. n + 1 -> Tasks] /\ AllTasks' \in [1 .. n -> Tasks]
  BY <1>5, <1>6, <1>9 DEF SequenceOfTasks
<1>12. QED
  BY <1>8, <1>10, <1>11, Shorter

LEMMA StillIsStutter ==
  ASSUME IInv, QueueInv, IInv', PrePopCycle \/ QuietCycle
  PROVE  QueueInv' /\ AllTasks' = AllTasks
<1>1. state = "WORK" /\ NoPushPop /\ stack_top' = stack_top /\ pushes' = pushes
  BY DEF PrePopCycle, QuietCycle, PrePop, NoMove, Memory, NoPushPop
<1>2. PICK ready \in BOOLEAN, resp \in BOOLEAN, M \in {{}, {topCache[PrePopOffset].idx}} :
         MemoryPath(ready, resp) /\ RingWrites({}, M, Received(resp))
  BY DEF PrePopCycle, QuietCycle, Memory
<1> DEFINE U == Dist(stack_top, stack_bottom')
<1>3. Usage' = U
  BY <1>1 DEF Usage, Dist
<1>4. queue_bottom' + U = Total /\ U \in 0 .. Entry - 1 /\ queue_bottom' \in Nat
  BY <1>2, PlacesKept
<1>5. SequenceOfTasks /\ SequenceOfTasks'
  BY AllTasksIs, AllTasksNext DEF IInv
<1>6. Total' = Total /\ Total \in Nat
  BY <1>3, <1>4, <1>5 DEF Total, SequenceOfTasks
<1>7. QueueInv'
  <2>1. SpillWritten'
    BY <1>2, QueueMoves
  <2>2. queue_bottom' + Usage' = queue_bottom + Usage
    BY <1>3, <1>4 DEF Total
  <2>3. QueueFits'
    BY <1>1, <2>2 DEF QueueInv, QueueFits
  <2>4. QED
    BY <2>1, <2>3 DEF QueueInv
<1>8. \A i \in 1 .. Total : AllTasks'[i] = AllTasks[i]
  <2>1. PICK n \in Nat : n = Total
    BY <1>6
  <2>2. n <= Total /\ n <= Total'
    BY <1>6, <2>1
  <2>3. \A d \in 0 .. Usage - 1 : d >= Total - n => Dec(stack_top, d) \notin {}
    OBVIOUS
  <2>4. QED
    BY <1>2, <2>1, <2>2, <2>3, CycleHolds
<1>9. AllTasks \in [1 .. Total -> Tasks] /\ AllTasks' \in [1 .. Total -> Tasks]
  BY <1>5, <1>6 DEF SequenceOfTasks
<1>10. /\ AllTasks = [i \in 1 .. Total |-> AllTasks[i]]
       /\ AllTasks' = [i \in 1 .. Total |-> AllTasks'[i]]
  BY <1>9
<1>11. AllTasks' = AllTasks
  BY <1>8, <1>10
<1>12. QED
  BY <1>7, <1>11

LEMMA FinishIsFinish ==
  ASSUME IInv, QueueInv, Finish
  PROVE  QueueInv' /\ AllTasks = << >> /\ AllTasks' = AllTasks
<1>1. /\ stack_top' = stack_top /\ stack_bottom' = stack_bottom /\ stack_data' = stack_data
      /\ queue_bottom' = queue_bottom /\ jvm_queue' = jvm_queue /\ spill' = spill
      /\ pushes' = pushes /\ stack_top = stack_bottom /\ queue_bottom = 0
  BY DEF Finish, Exhausted, ring, queue, memory, env
<1>2. TypeOK
  BY DEF IInv
<1>3. Usage' = Usage /\ AllTasks' = AllTasks
  BY <1>1 DEF Usage, AllTasks, Inc
<1>4. QueueInv'
  BY <1>1, <1>3 DEF QueueInv, SpillWritten, QueueFits
<1>5. Usage = 0
  BY <1>1, <1>2, ConstAssumption DEF Usage, TypeOK, Slots
<1>6. AllTasks \in [1 .. 0 -> Tasks]
  BY <1>1, <1>2, <1>5, AllTasksIs DEF SequenceOfTasks, Total
<1>7. AllTasks = << >>
  BY <1>6
<1>8. QED
  BY <1>3, <1>4, <1>7

LEMMA ConfigureIsStart ==
  ASSUME IInv, IInv', QueueInv, Configure
  PROVE  QueueInv' /\ AllTasks' \in Seq(Tasks)
<1>1. /\ queue_bottom' \in 0 .. MaxJvm /\ stack_top' = 0 /\ stack_bottom' = 0
      /\ spill' = NoSpill /\ pushes' = pushes /\ pushes \in Nat
  BY ConstAssumption DEF Configure, IInv, TypeOK
<1>2. Usage' = 0
  BY <1>1 DEF Usage
<1>3. QueueInv'
  <2>1. queue_bottom' + Usage' <= MaxJvm + pushes'
    <3>1. MaxJvm \in Nat
      BY ConstAssumption
    <3>2. PICK q \in 0 .. MaxJvm : q = queue_bottom'
      BY <1>1
    <3>3. PICK p \in Nat : p = pushes
      BY <1>1
    <3>4. q + 0 <= MaxJvm + p
      BY <3>1
    <3>5. QED
      BY <1>1, <1>2, <3>2, <3>3, <3>4
  <2>2. SpillWritten'
    BY <1>1 DEF SpillWritten, NoSpill
  <2>3. QED
    BY <2>1, <2>2 DEF QueueInv, QueueFits
<1>4. AllTasks' \in Seq(Tasks)
  BY AllTasksNext DEF IInv, SequenceOfTasks
<1>5. QED
  BY <1>3, <1>4

LEMMA InitIsInit ==
  ASSUME Init
  PROVE  QueueInv /\ AllTasks = << >> /\ state # "WORK"
<1>1. IInv
  BY InitHolds
<1>2. /\ queue_bottom = 0 /\ stack_top = 0 /\ stack_bottom = 0 /\ spill = NoSpill /\ pushes = 0
      /\ state = "IDLE"
  BY DEF Init
<1>3. Usage = 0
  BY <1>2 DEF Usage
<1>4. QueueInv
  BY <1>2, <1>3, ConstAssumption DEF QueueInv, SpillWritten, QueueFits, NoSpill
<1>5. AllTasks \in [1 .. 0 -> Tasks]
  BY <1>1, <1>2, <1>3, AllTasksIs DEF IInv, SequenceOfTasks, Total
<1>6. AllTasks = << >>
  BY <1>5
<1>7. QED
  BY <1>2, <1>4, <1>6

LEMMA StepImplements ==
  ASSUME IInv, QueueInv, IInv', [Next]_vars
  PROVE  QueueInv' /\ [Abstract!Next]_(Abstract!vars)
<1>1. CASE PushCycle
  <2>1. state = "WORK" /\ state' = "WORK"
    BY <1>1 DEF PushCycle, Memory
  <2>2. QueueInv' /\ NewTask \in Tasks /\ AllTasks' = Append(AllTasks, NewTask)
    BY <1>1, PushIsPush
  <2>3. Abstract!Push(NewTask)
    BY <2>1, <2>2 DEF Abstract!Push
  <2>4. QED
    BY <2>2, <2>3 DEF Abstract!Next
<1>2. CASE PushPopCycle
  <2>1. state = "WORK" /\ state' = "WORK"
    BY <1>2 DEF PushPopCycle, Memory
  <2>2. /\ QueueInv' /\ NewTask \in Tasks /\ AllTasks # << >>
        /\ AllTasks' = [AllTasks EXCEPT ![Len(AllTasks)] = NewTask]
    BY <1>2, PushPopIsReplace
  <2>3. Abstract!PopPush(NewTask)
    BY <2>1, <2>2 DEF Abstract!PopPush
  <2>4. QED
    BY <2>2, <2>3 DEF Abstract!Next
<1>3. CASE PopCycle
  <2>1. state = "WORK" /\ state' = "WORK"
    BY <1>3 DEF PopCycle, Memory
  <2>2. /\ QueueInv' /\ AllTasks # << >>
        /\ AllTasks' = SubSeq(AllTasks, 1, Len(AllTasks) - 1)
    BY <1>3, PopIsPop
  <2>3. Abstract!Pop
    BY <2>1, <2>2 DEF Abstract!Pop
  <2>4. QED
    BY <2>2, <2>3 DEF Abstract!Next
<1>4. CASE PrePopCycle \/ QuietCycle
  <2>1. state' = state
    BY <1>4 DEF PrePopCycle, QuietCycle, Memory
  <2>2. QueueInv' /\ AllTasks' = AllTasks
    BY <1>4, StillIsStutter
  <2>3. QED
    BY <2>1, <2>2 DEF Abstract!vars
<1>5. CASE Finish
  <2>1. state = "WORK" /\ state' = "IDLE"
    BY <1>5 DEF Finish
  <2>2. QueueInv' /\ AllTasks = << >> /\ AllTasks' = AllTasks
    BY <1>5, FinishIsFinish
  <2>3. Abstract!Finish
    BY <2>1, <2>2 DEF Abstract!Finish
  <2>4. QED
    BY <2>2, <2>3 DEF Abstract!Next
<1>6. CASE Configure
  <2>1. state = "IDLE" /\ state' = "WORK"
    BY <1>6 DEF Configure
  <2>2. QueueInv' /\ AllTasks' \in Seq(Tasks)
    BY <1>6, ConfigureIsStart
  <2>3. Abstract!Start
    BY <2>1, <2>2 DEF Abstract!Start
  <2>4. QED
    BY <2>2, <2>3 DEF Abstract!Next
<1>7. CASE UNCHANGED vars
  <2>1. /\ stack_top' = stack_top /\ stack_bottom' = stack_bottom /\ stack_data' = stack_data
        /\ queue_bottom' = queue_bottom /\ jvm_queue' = jvm_queue /\ spill' = spill
        /\ pushes' = pushes /\ state' = state
    BY <1>7 DEF vars, ring, queue, memory, env
  <2>2. Usage' = Usage /\ AllTasks' = AllTasks
    BY <2>1 DEF Usage, AllTasks, Inc
  <2>3. QueueInv'
    BY <2>1, <2>2 DEF QueueInv, SpillWritten, QueueFits
  <2>4. QED
    BY <2>1, <2>2, <2>3 DEF Abstract!vars
<1>8. QED
  BY <1>1, <1>2, <1>3, <1>4, <1>5, <1>6, <1>7 DEF Next, Work

(* The ring, TopCache, SpillOut and ReadBack together are one LIFO stack   *)
(* (GCTaskStack.scala): a push adds the newest task and a pop removes it,  *)
(* a cycle that only moves tasks between ring and JVM queue is not seen,   *)
(* and the job ends only when no task is left.                             *)
THEOREM StackImplemented == Spec => RefinesTaskStack
<1>1. Init => QueueInv /\ Abstract!Init
  <2> SUFFICES ASSUME Init PROVE QueueInv /\ Abstract!Init
    OBVIOUS
  <2>1. QueueInv /\ AllTasks = << >> /\ state # "WORK"
    BY InitIsInit
  <2>2. QED
    BY <2>1 DEF Abstract!Init
<1>2. IInv /\ QueueInv /\ IInv' /\ [Next]_vars => QueueInv' /\ [Abstract!Next]_(Abstract!vars)
  BY StepImplements
<1>3. QED
  BY <1>1, <1>2, Invariance, PTL DEF Spec, RefinesTaskStack, Abstract!Spec
=============================================================================
