---------------------------- MODULE GCTaskStack ----------------------------
(***************************************************************************)
(* The GC task stack (hwgc_acc/GCTaskStack.scala): an on-chip ring of      *)
(* tasks whose newest entries are mirrored in TopCache, and whose oldest   *)
(* entries overflow into the JVM queue in memory.                          *)
(*                                                                         *)
(* One step is one clock cycle: the fast path (push, pop, PrePop, TopCache *)
(* refill) and the memory path (SpillOut or ReadBack) act together.        *)
(* Ring indices are those of the hardware: stack_top is the newest entry,  *)
(* stack_bottom the slot just below the oldest one.                        *)
(***************************************************************************)
EXTENDS Integers, Sequences, FiniteSets

CONSTANTS
  Entry,          \* slots of the on-chip ring (GCTaskStack_Entry, 64)
  SpillNeed,      \* usage at which SpillOut starts (GCTaskStack_SpillNeed + 4, 60)
  ReadNeed,       \* usage up to which ReadBack runs (GCTaskStack_ReadNeed - 4, 4)
  LineElems,      \* tasks per memory line (4)
  TopCacheDepth,  \* entries of TopCache (32)
  ScanWindow,     \* PreFetchScanWindow = PreFetchBufferNum (16)
  QueueSize,      \* slots of the JVM queue (GCTaskQueue_Size, 2^17)
  Tasks,          \* the tasks
  JvmQueue,       \* what the JVM left in its queue: [0 .. QueueSize-1 -> Tasks]
  MaxJvm,         \* bound: the most tasks a job may start with
  MaxPush,        \* bound: pushes of GCTrace over the whole run
  PushTask,       \* the task of each push: [1 .. MaxPush -> Tasks]
  MaxPops,        \* bound: pops GCFetch completes during one memory access of the stack
  MaxJobs         \* bound: jobs of a run

ASSUME ConstAssumption ==
  /\ Entry \in Nat /\ SpillNeed \in Nat /\ ReadNeed \in Nat
  /\ TopCacheDepth \in Nat /\ ScanWindow \in Nat \ {0} /\ LineElems \in Nat \ {0}
  /\ MaxJvm \in Nat /\ MaxPush \in Nat /\ MaxPops \in Nat /\ MaxJobs \in Nat
  /\ QueueSize \in Nat /\ MaxJvm + MaxPush < QueueSize
  /\ ReadNeed + LineElems + 1 < Entry
  /\ SpillNeed < Entry
  /\ ScanWindow < TopCacheDepth
  \* a spill leaves the cached entries and the one being refilled on chip
  /\ TopCacheDepth + 2 + LineElems + MaxPops <= SpillNeed
  \* a ReadBack answer that comes after a spill finds the stack above ReadNeed
  /\ ReadNeed + LineElems + MaxPops + 1 < SpillNeed
  /\ JvmQueue \in [0 .. QueueSize - 1 -> Tasks]
  /\ PushTask \in [1 .. MaxPush -> Tasks]

VARIABLES
  state,             \* fsm: "IDLE" or "WORK"
  stack_top, stack_bottom,
  stack_data,        \* the ring's RAM
  prefetched,        \* per ring slot: already given to PrePop
  topCache,          \* the valid TopCache entries, offset 0 mirrors stack_top
  topCacheCount,
  refill,            \* one-stage refill pipeline: refillRespValid/Idx and the data read
  push_count, not_prefetch, pushPrePopRem, pushPrePopOffset,
  queue_bottom,      \* number of tasks in the JVM queue
  queue_elems_base,  \* offset of the queue's base in its memory line, in tasks
  jvm_queue,         \* memory: the queue's elements
  spill,             \* spillOutArea: phase and buffered request
  readIssued,        \* readBackArea.issued
  read,              \* memory: the accepted ReadBack read not answered yet
  pushes, slowPops, jobs   \* environment counters

ring   == <<stack_top, stack_bottom, stack_data, prefetched>>
cache  == <<topCache, topCacheCount, refill>>
follow == <<push_count, not_prefetch, pushPrePopRem, pushPrePopOffset>>
queue  == <<queue_bottom, queue_elems_base, jvm_queue>>
memory == <<spill, readIssued, read>>
env    == <<pushes, slowPops, jobs>>
vars   == <<state, ring, cache, follow, queue, memory, env>>

Slots == 0 .. Entry - 1

(* WrapInc / WrapDec: pointer arithmetic on the ring, for steps below Entry. *)
Inc(p, n) == IF p + n >= Entry THEN p + n - Entry ELSE p + n
Dec(p, n) == IF p >= n THEN p - n ELSE p + Entry - n

Usage == IF stack_top >= stack_bottom THEN stack_top - stack_bottom
                                      ELSE stack_top + Entry - stack_bottom
Free  == Entry - 1 - Usage

Least(a, b) == IF a <= b THEN a ELSE b

NoRefill == [valid |-> FALSE, idx |-> 0, data |-> JvmQueue[0]]
NoTasks  == [i \in 1 .. 0 |-> JvmQueue[0]]
NoSpill  == [phase |-> "IDLE", num |-> 0, bottom |-> 0, qbottom |-> 0, data |-> NoTasks]
NoEntry  == [i \in 0 .. -1 |-> NoRefill]
NoRead   == [valid |-> FALSE, data |-> NoTasks]

-----------------------------------------------------------------------------
(* The handshakes: what the stack offers in this cycle. *)

PushReady == state = "WORK" /\ Free # 0

(* Mutant of PopValid: pops are not held back during a push-follow batch. *)
PopDuringFollow == state = "WORK" /\ topCacheCount # 0

PopValid == /\ state = "WORK"
            /\ topCacheCount # 0
            /\ push_count = 0 /\ pushPrePopRem = 0

(* PrePop candidates: push-follow mode offers offset 0, then 1, 2, ...;    *)
(* normal mode the first entry of the scan window never offered before.    *)
PushFollowMode == push_count # 0 \/ pushPrePopRem # 0
PushFollowOffset == IF push_count # 0 THEN 0 ELSE pushPrePopOffset

NormalCandidates ==
  {i \in 1 .. Least(ScanWindow, topCacheCount - 1) :
     ~topCache[i].prefetched /\ ~prefetched[topCache[i].idx]}

PrePopHit == IF PushFollowMode THEN PushFollowOffset < topCacheCount
                               ELSE NormalCandidates # {}
PrePopOffset == IF PushFollowMode THEN PushFollowOffset
                ELSE CHOOSE i \in NormalCandidates : \A j \in NormalCandidates : i <= j

PrePopValid == state = "WORK" /\ PrePopHit /\ ~not_prefetch

Exhausted == /\ stack_top = stack_bottom /\ queue_bottom = 0
             /\ topCacheCount = 0 /\ ~refill.valid
             /\ push_count = 0 /\ pushPrePopRem = 0

-----------------------------------------------------------------------------
(* TopCache refill: a synchronous read of the ring, appended one cycle later. *)

AppendAllowed(push, pop) ==
  refill.valid /\ ~push /\ (pop \/ topCacheCount # TopCacheDepth)

RefillOffset(push, pop) == topCacheCount + (IF AppendAllowed(push, pop) THEN 1 ELSE 0)

(* Mutant: the ring is read one entry too far, below its oldest task. *)
RefillReqTooFar(push, pop) ==
  ~push /\ Usage >= RefillOffset(push, pop) /\ (pop \/ topCacheCount # TopCacheDepth)

(* Mutant: refills only while popping, so an empty TopCache stays empty. *)
RefillReqOnPop(push, pop) == ~push /\ pop /\ Usage > RefillOffset(push, pop)

RefillReq(push, pop) ==
  /\ ~push
  /\ Usage > RefillOffset(push, pop)
  /\ pop \/ topCacheCount # TopCacheDepth

RefillRequest(push, pop) ==
  refill' = IF RefillReq(push, pop)
              THEN LET idx == Dec(stack_top, RefillOffset(push, pop))
                   IN  [valid |-> TRUE, idx |-> idx, data |-> stack_data[idx]]
              ELSE NoRefill

RefillEntry == [data |-> refill.data, idx |-> refill.idx,
                prefetched |-> prefetched[refill.idx]]

-----------------------------------------------------------------------------
(* The fast path: handleFastPath.  Each alternative says what the cycle     *)
(* does to TopCache, the push-follow registers and stack_top.              *)

NewTask == PushTask[pushes + 1]
NewEntry(i) == [data |-> NewTask, idx |-> i, prefetched |-> FALSE]

MemoryBusy == spill.phase # "IDLE" \/ read.valid
MayPop == PopValid /\ (MemoryBusy => slowPops < MaxPops)
CountPop(n) == slowPops' = IF MemoryBusy THEN slowPops + n ELSE 0

CountPush == /\ PushReady /\ pushes < MaxPush
             /\ pushes' = pushes + 1
             /\ push_count' = push_count + 1
             /\ not_prefetch' = TRUE
             /\ UNCHANGED <<pushPrePopRem, pushPrePopOffset>>

PushOnly ==
  /\ CountPush
  /\ stack_top' = Inc(stack_top, 1)
  /\ topCacheCount' = Least(topCacheCount + 1, TopCacheDepth)
  /\ topCache' = [i \in 0 .. Least(topCacheCount + 1, TopCacheDepth) - 1 |->
                    IF i = 0 THEN NewEntry(Inc(stack_top, 1)) ELSE topCache[i - 1]]
  /\ RefillRequest(TRUE, FALSE)
  /\ CountPop(0)

PushAndPop ==
  /\ CountPush /\ MayPop
  /\ topCache' = [topCache EXCEPT ![0] = NewEntry(stack_top)]
  /\ RefillRequest(TRUE, TRUE)
  /\ CountPop(1)
  /\ UNCHANGED <<stack_top, topCacheCount>>

PopOnly ==
  /\ MayPop
  /\ stack_top' = Dec(stack_top, 1)
  /\ topCacheCount' = RefillOffset(FALSE, TRUE) - 1
  /\ topCache' = [i \in 0 .. RefillOffset(FALSE, TRUE) - 2 |->
                    IF i = topCacheCount - 1 THEN RefillEntry ELSE topCache[i + 1]]
  /\ RefillRequest(FALSE, TRUE)
  /\ CountPop(1)
  /\ UNCHANGED <<follow, pushes>>

(* Neither push nor pop: a returned refill is appended, and GCTrace's      *)
(* LastPush may end its burst of pushes.                                   *)
Appended == [i \in 0 .. RefillOffset(FALSE, FALSE) - 1 |->
               IF i = topCacheCount THEN RefillEntry ELSE topCache[i]]

NoPushPop ==
  /\ topCacheCount' = RefillOffset(FALSE, FALSE)
  /\ RefillRequest(FALSE, FALSE)
  /\ CountPop(0)
  /\ \E LastPush \in BOOLEAN : not_prefetch' = (not_prefetch /\ ~LastPush)
  /\ UNCHANGED <<stack_top, pushes>>

NoMove ==
  /\ NoPushPop
  /\ topCache' = Appended
  /\ UNCHANGED <<push_count, pushPrePopRem, pushPrePopOffset>>

PrePop ==
  /\ PrePopValid
  /\ NoPushPop
  /\ topCache' = [Appended EXCEPT ![PrePopOffset].prefetched = TRUE]
  /\ \/ /\ push_count # 0
        /\ push_count' = 0
        /\ pushPrePopRem' = Least(push_count, ScanWindow) - 1
        /\ pushPrePopOffset' = 1
     \/ /\ push_count = 0 /\ pushPrePopRem # 0
        /\ pushPrePopRem' = pushPrePopRem - 1
        /\ pushPrePopOffset' = pushPrePopOffset + 1
        /\ UNCHANGED push_count
     \/ /\ push_count = 0 /\ pushPrePopRem = 0
        /\ UNCHANGED <<push_count, pushPrePopRem, pushPrePopOffset>>

-----------------------------------------------------------------------------
(* The memory path.  An answer of memory (resp) is taken by the read that  *)
(* is running; the port's ready is always up, so when no ReadBack runs in  *)
(* the cycle the answer is dropped.                                        *)

LineOffset == (queue_elems_base + queue_bottom) % LineElems
SpillNum == LineElems - LineOffset

(* Mutant: SpillOut starts a line earlier. *)
SpillRunsEarly == Usage >= SpillNeed - LineElems \/ spill.phase # "IDLE"

SpillRuns == Usage >= SpillNeed \/ spill.phase # "IDLE"
ReadBackRuns == ~SpillRuns /\ Usage <= ReadNeed /\ queue_bottom # 0

DropAnswer(resp) == read' = IF resp THEN NoRead ELSE read

(* Mutant: the line starts at stack_bottom, which is below the oldest task. *)
SpillReadOffByOne(resp) ==
  /\ SpillRuns /\ spill.phase = "IDLE"
  /\ spill' = [phase |-> "PENDING", num |-> SpillNum, bottom |-> stack_bottom,
               qbottom |-> queue_bottom,
               data |-> [i \in 1 .. LineElems |-> stack_data[Inc(stack_bottom, i - 1)]]]
  /\ DropAnswer(resp)
  /\ UNCHANGED <<stack_bottom, queue, readIssued>>

SpillRead(resp) ==
  /\ SpillRuns /\ spill.phase = "IDLE"
  /\ spill' = [phase |-> "PENDING", num |-> SpillNum, bottom |-> stack_bottom,
               qbottom |-> queue_bottom,
               data |-> [i \in 1 .. LineElems |-> stack_data[Inc(stack_bottom, i)]]]
  /\ DropAnswer(resp)
  /\ UNCHANGED <<stack_bottom, queue, readIssued>>

SpillPack(resp) ==
  /\ spill.phase = "PENDING"
  /\ spill' = [spill EXCEPT !.phase = "VALID"]
  /\ DropAnswer(resp)
  /\ UNCHANGED <<stack_bottom, queue, readIssued>>

(* The write is accepted when the MMU is ready.  issueReq clears `issued`  *)
(* on any answer, so an answer in the same cycle makes the write repeat.   *)
SpillRequest(ready, resp) ==
  /\ spill.phase = "VALID"
  /\ jvm_queue' = IF ready
                    THEN [q \in DOMAIN jvm_queue |->
                            IF q \in spill.qbottom .. spill.qbottom + spill.num - 1
                              THEN spill.data[q - spill.qbottom + 1] ELSE jvm_queue[q]]
                    ELSE jvm_queue
  /\ spill' = [spill EXCEPT !.phase = IF ready /\ ~resp THEN "ISSUED" ELSE "VALID"]
  /\ DropAnswer(resp)
  /\ UNCHANGED <<stack_bottom, queue_bottom, queue_elems_base, readIssued>>

(* Mutant: a whole line leaves the ring although only its tail was written. *)
SpillRetireLine(resp) ==
  /\ spill.phase = "ISSUED"
  /\ stack_bottom' = Inc(spill.bottom, LineElems)
  /\ queue_bottom' = (spill.qbottom + spill.num) % QueueSize
  /\ spill' = NoSpill
  /\ DropAnswer(resp)
  /\ UNCHANGED <<queue_elems_base, jvm_queue, readIssued>>

SpillRetire(resp) ==
  /\ spill.phase = "ISSUED"
  /\ stack_bottom' = Inc(spill.bottom, spill.num)
  /\ queue_bottom' = (spill.qbottom + spill.num) % QueueSize
  /\ spill' = NoSpill
  /\ DropAnswer(resp)
  /\ UNCHANGED <<queue_elems_base, jvm_queue, readIssued>>

(* ReadBack asks for the newest tasks of the queue, within one line. *)
ReadNum == LET n == Least(LineElems, queue_bottom)
           IN  IF n >= LineOffset /\ LineOffset # 0 THEN LineOffset ELSE n
FreeForReadback == IF Free > 1 THEN Free - 1 ELSE 0
CanReceive == Least(ReadNum, FreeForReadback)

ReadBackRequest(ready, resp) ==
  /\ ReadBackRuns /\ ~readIssued /\ ~resp
  /\ readIssued' = ready
  /\ read' = IF ready
               THEN [valid |-> TRUE,
                     data |-> [i \in 1 .. ReadNum |-> jvm_queue[queue_bottom - ReadNum + i - 1]]]
               ELSE read
  /\ UNCHANGED <<stack_bottom, queue, spill>>

ReadBackWait(resp) ==
  /\ ReadBackRuns /\ readIssued /\ ~resp
  /\ UNCHANGED <<stack_bottom, queue, memory>>

ReadBackReceive(resp) ==
  /\ ReadBackRuns /\ readIssued /\ resp
  /\ stack_bottom' = Dec(stack_bottom, CanReceive)
  /\ queue_bottom' = queue_bottom - CanReceive
  /\ readIssued' = FALSE
  /\ read' = NoRead
  /\ UNCHANGED <<queue_elems_base, jvm_queue, spill>>

NeitherRuns(resp) ==
  /\ ~SpillRuns /\ ~ReadBackRuns
  /\ DropAnswer(resp)
  /\ UNCHANGED <<stack_bottom, queue, spill, readIssued>>

MemoryPath(ready, resp) ==
  /\ resp => read.valid
  /\ \/ SpillRead(resp) \/ SpillPack(resp) \/ SpillRequest(ready, resp) \/ SpillRetire(resp)
     \/ ReadBackRequest(ready, resp) \/ ReadBackWait(resp) \/ ReadBackReceive(resp)
     \/ NeitherRuns(resp)

(* Slots the ReadBack answer fills, newest task of the queue first. *)
Received(resp) == IF ReadBackRuns /\ readIssued /\ resp
                    THEN {Dec(stack_bottom, i) : i \in 0 .. CanReceive - 1} ELSE {}
ReceivedTask(s) == read.data[ReadNum - Dec(stack_bottom, s)]

(* What the cycle writes into the ring: the pushed slots, the slots marked *)
(* by PrePop, the slots filled by ReadBack.                                *)
RingWrites(pushed, marked, received) ==
  /\ stack_data' = [s \in Slots |-> IF s \in received THEN ReceivedTask(s)
                                    ELSE IF s \in pushed THEN NewTask ELSE stack_data[s]]
  /\ prefetched' = [s \in Slots |-> /\ s \notin received \cup pushed
                                    /\ s \in marked \/ prefetched[s]]

-----------------------------------------------------------------------------
(* One cycle in WORK: a fast-path alternative together with the memory path. *)

Memory(pushed, marked) ==
  /\ state = "WORK"
  /\ \E ready, resp \in BOOLEAN :
        MemoryPath(ready, resp) /\ RingWrites(pushed, marked, Received(resp))
  /\ UNCHANGED <<state, jobs>>

PushCycle    == PushOnly   /\ Memory({Inc(stack_top, 1)}, {})
PushPopCycle == PushAndPop /\ Memory({stack_top}, {})
PopCycle     == PopOnly    /\ Memory({}, {})
PrePopCycle  == PrePop     /\ Memory({}, {topCache[PrePopOffset].idx})
QuietCycle   == NoMove     /\ Memory({}, {})

Work == PushCycle \/ PushPopCycle \/ PopCycle \/ PrePopCycle \/ QuietCycle

(* Nothing left and GCFetch idle (it raises Pop.ready): back to IDLE.  The   *)
(* code leaves even if a task is pushed in this cycle, which would be lost.  *)
(* That is taken not to happen: GCTrace pushes only for the task main has    *)
(* handed over, main waits for that task's Done meanwhile, and it raises     *)
(* Pop.ready in its IDLE state only, with no push under way.                 *)
Finish == /\ state = "WORK" /\ Exhausted
          /\ state' = "IDLE"
          /\ refill' = NoRefill
          /\ UNCHANGED <<ring, topCache, topCacheCount, follow, queue, memory, env>>

(* IDLE clears every register; the configuration loads the JVM queue. *)
Configure ==
  /\ state = "IDLE" /\ jobs < MaxJobs
  /\ state' = "WORK"
  /\ jobs' = jobs + 1
  /\ queue_bottom' \in 0 .. MaxJvm
  /\ queue_elems_base' \in 0 .. LineElems - 1
  /\ jvm_queue' = JvmQueue
  /\ stack_top' = 0 /\ stack_bottom' = 0
  /\ prefetched' = [s \in Slots |-> FALSE]
  /\ topCache' = NoEntry /\ topCacheCount' = 0 /\ refill' = NoRefill
  /\ push_count' = 0 /\ not_prefetch' = FALSE /\ pushPrePopRem' = 0 /\ pushPrePopOffset' = 1
  /\ spill' = NoSpill /\ readIssued' = FALSE
  /\ UNCHANGED <<stack_data, read, pushes, slowPops>>

Init ==
  /\ state = "IDLE"
  /\ stack_top = 0 /\ stack_bottom = 0
  /\ stack_data = [s \in Slots |-> JvmQueue[0]]
  /\ prefetched = [s \in Slots |-> FALSE]
  /\ topCache = NoEntry /\ topCacheCount = 0 /\ refill = NoRefill
  /\ push_count = 0 /\ not_prefetch = FALSE /\ pushPrePopRem = 0 /\ pushPrePopOffset = 1
  /\ queue_bottom = 0 /\ queue_elems_base = 0 /\ jvm_queue = JvmQueue
  /\ spill = NoSpill /\ readIssued = FALSE /\ read = NoRead
  /\ pushes = 0 /\ slowPops = 0 /\ jobs = 0

Next == Work \/ Finish \/ Configure

Spec == Init /\ [][Next]_vars

(* The fairness of the surroundings: the clock runs, GCFetch takes a task  *)
(* and a PrePop offered to it, GCTrace ends a burst of pushes, the MMU     *)
(* accepts requests and memory answers.                                    *)
Fairness ==
  /\ WF_vars(Work) /\ WF_vars(PopCycle) /\ WF_vars(PrePopCycle) /\ WF_vars(Finish)
  /\ WF_vars(Work /\ not_prefetch /\ ~not_prefetch')
  /\ WF_vars(Work /\ read.valid /\ ~read'.valid)
  /\ WF_vars(Work /\ readIssued' # readIssued)
  /\ WF_vars(Work /\ spill'.phase # spill.phase)

FairSpec == Spec /\ Fairness

-----------------------------------------------------------------------------
(* Properties. *)

LineTasks == UNION {[1 .. n -> Tasks] : n \in 0 .. LineElems}
CacheEntry == [data : Tasks, idx : Slots, prefetched : BOOLEAN]

(* Types of the registers and of the environment's bookkeeping. *)
TypeOK ==
  /\ state \in {"IDLE", "WORK"}
  /\ stack_top \in Slots /\ stack_bottom \in Slots
  /\ stack_data \in [Slots -> Tasks] /\ prefetched \in [Slots -> BOOLEAN]
  /\ topCacheCount \in 0 .. TopCacheDepth
  /\ topCache \in [0 .. topCacheCount - 1 -> CacheEntry]
  /\ refill \in [valid : BOOLEAN, idx : Slots, data : Tasks]
  /\ push_count \in Nat /\ pushPrePopRem \in Nat /\ pushPrePopOffset \in Nat \ {0}
  /\ not_prefetch \in BOOLEAN
  /\ queue_bottom \in 0 .. QueueSize - 1 /\ queue_elems_base \in 0 .. LineElems - 1
  /\ jvm_queue \in [0 .. QueueSize - 1 -> Tasks]
  /\ spill \in [phase : {"IDLE", "PENDING", "VALID", "ISSUED"}, num : 0 .. LineElems,
                bottom : Slots, qbottom : 0 .. QueueSize - 1, data : LineTasks]
  /\ readIssued \in BOOLEAN /\ read \in [valid : BOOLEAN, data : LineTasks]
  /\ pushes \in 0 .. MaxPush /\ slowPops \in Nat /\ jobs \in 0 .. MaxJobs

(* TopCache mirrors the top of the ring: entry i is the task i places below *)
(* stack_top, with the same PrePop mark, so Pop (offset 0) hands out the    *)
(* newest task although it never reads the ring; and an entry being         *)
(* refilled is the one just below the cached ones.                          *)
TopCacheCoherent ==
  state = "WORK" =>
    /\ topCacheCount <= Usage
    /\ \A i \in 0 .. topCacheCount - 1 :
         /\ topCache[i].idx = Dec(stack_top, i)
         /\ topCache[i].data = stack_data[topCache[i].idx]
         /\ topCache[i].prefetched = prefetched[topCache[i].idx]
    /\ refill.valid => /\ topCacheCount < Usage
                       /\ refill.idx = Dec(stack_top, topCacheCount)
                       /\ refill.data = stack_data[refill.idx]

(* While a push-follow batch blocks Pop, every entry it still has to offer  *)
(* is in TopCache: the batch cannot wait for an entry that never comes,     *)
(* which would block Pop for good.                                          *)
PushFollowServable ==
  state = "WORK" =>
    /\ Least(push_count, ScanWindow) <= topCacheCount
    /\ push_count = 0 /\ pushPrePopRem # 0 =>
         pushPrePopOffset + pushPrePopRem <= topCacheCount

(* The tasks a SpillOut has copied are still the oldest ones of the ring    *)
(* and the queue has not moved when it retires, although pushes, pops and   *)
(* the wait for the MMU come in between.                                    *)
SpillIntact ==
  spill.phase # "IDLE" =>
    /\ spill.bottom = stack_bottom /\ spill.qbottom = queue_bottom
    /\ spill.num = SpillNum /\ spill.data \in [1 .. LineElems -> Tasks]
    /\ \A i \in 1 .. spill.num : spill.data[i] = stack_data[Inc(stack_bottom, i)]

(* The answer that ReadBack takes holds the newest tasks of the queue, as   *)
(* many as it computes when the answer comes: if a SpillOut has changed the *)
(* queue since the read was issued, the ring is still too full for ReadBack *)
(* to take the answer.                                                      *)
ReadFresh ==
  read.valid =>
    /\ state = "WORK" /\ readIssued
    /\ \/ Usage + slowPops + LineElems + 1 >= SpillNeed
       \/ /\ queue_bottom # 0
          /\ read.data = [i \in 1 .. ReadNum |-> jvm_queue[queue_bottom - ReadNum + i - 1]]

(* The entries a push-follow batch has yet to offer carry no PrePop mark.   *)
FollowUnmarked ==
  state = "WORK" =>
    /\ \A i \in 0 .. Least(push_count, ScanWindow) - 1 : ~topCache[i].prefetched
    /\ push_count = 0 =>
         \A i \in pushPrePopOffset .. pushPrePopOffset + pushPrePopRem - 1 :
            ~topCache[i].prefetched

(* While SpillOut moves tasks, the ring stays nearly as full as it was.     *)
SpillMargin == /\ slowPops <= MaxPops
               /\ spill.phase # "IDLE" => Usage + slowPops + 1 >= SpillNeed

(* The inductive invariant: what the properties above rest on. *)
IInv == /\ TypeOK /\ TopCacheCoherent /\ PushFollowServable /\ FollowUnmarked
        /\ SpillIntact /\ SpillMargin /\ ReadFresh

(* The tasks held, oldest first: the JVM queue, then the ring. *)
AllTasks == [i \in 1 .. queue_bottom + Usage |->
               IF i <= queue_bottom THEN jvm_queue[i - 1]
               ELSE stack_data[Inc(stack_bottom, i - queue_bottom)]]

Abstract == INSTANCE TaskStackSpec WITH running <- state = "WORK", tasks <- AllTasks

(* The ring, TopCache, SpillOut and ReadBack together are one LIFO stack:   *)
(* moving tasks to and from memory neither loses, duplicates nor reorders   *)
(* one, a pop removes the newest, and the job ends only when none is left.  *)
RefinesTaskStack == Abstract!Spec

(* The header of the source: when the on-chip tasks run short and the JVM   *)
(* queue has tasks, they are read back.                                     *)
ReadBackServed ==
  (state = "WORK" /\ Usage <= ReadNeed /\ queue_bottom # 0)
    ~> (state = "WORK" /\ (Usage > ReadNeed \/ queue_bottom = 0))

(* A job whose tasks push finitely many new ones runs to its end, unless a  *)
(* ReadBack answer was dropped: that is the only way it can hang.           *)
ReadBackStuck == readIssued /\ ~read.valid
JobEnds == (state = "WORK") ~> (state = "IDLE" \/ ReadBackStuck)
=============================================================================
