------------------------------- MODULE GCAop -------------------------------
(***************************************************************************)
(* GCAop (hwgc_acc/GCAop.scala): enqueues dirty cards in the JVM's queue   *)
(* of this worker (in its ParScanThreadState): a buffer filled downwards,  *)
(* a list of full buffers, the last card enqueued.  These are read when    *)
(* they are first needed and written back when the job has no card source  *)
(* left; the cards themselves gather in a register until a 32-byte line    *)
(* is complete.                                                            *)
(***************************************************************************)
EXTENDS Integers, Sequences

CONSTANTS
  Nodes,       \* buffer nodes; the slots follow the node's header
  LineOffset,  \* where in a line of memory the slots of each node begin (0 or 2)
  NoNode,      \* the null pointer
  Cards,       \* the cards (of 512 bytes) that tasks are in
  NoCard,      \* what else a slot may hold
  Capacity,    \* slots of a buffer (words)
  LineWords,        \* words of a line of memory (4)
  MaxJobs      \* bound: jobs

ASSUME AopAssumption ==
  /\ NoNode \notin Nodes /\ NoCard \notin Cards
  /\ Capacity \in Nat \ {0} /\ LineWords \in Nat \ {0} /\ MaxJobs \in Nat
  /\ LineOffset \in [Nodes -> 0 .. LineWords - 1]

VARIABLES
  aop,        \* the machine: its state, registers and caches
  aopPending, \* noAopSrcPending: a write-back is due
  cardQueue,  \* memory: index, buffer, list of full buffers (offset30, offset38), last card
  nodeWords,      \* memory: the words of every node: slot -1 is the link in its header
  freeNodes,  \* memory: head of the allocator's free list
  aopJob,     \* environment: "running", or "over" once the card sources are done; jobs so far
  start,      \* history: index and full buffers when the JVM last had the queue
  lastAsked,  \* history: the last card asked for
  kept,       \* history: the cards asked for since the JVM had the queue, without repeats
  filled      \* history: the buffers replaced since then

aopMemory == <<cardQueue, nodeWords, freeNodes>>
aopHist   == <<start, lastAsked, kept, filled>>
aopVars   == <<aop, aopPending, aopMemory, aopJob, aopHist>>

WordSlots == -1 .. Capacity - 1
EmptyNode == [s \in WordSlots |-> IF s = -1 THEN NoNode ELSE NoCard]

\* The JVM's queue: a buffer with room below the index, or none yet, a full
\* buffer or none, the last card; and another node or none on the free list.
JvmQueue(i, l) ==
  \E n \in Nodes : \E m, f \in (Nodes \ {n}) \cup {NoNode} :
    /\ m = f => m = NoNode
    /\ cardQueue' = [index |-> i, buffer |-> IF i = 0 THEN NoNode ELSE n, head |-> m, tail |-> m,
                     last |-> l]
    /\ freeNodes' = f
    /\ start' = [index |-> i, list |-> m]

AopInit ==
  /\ aop = [state |-> "IDLE", card |-> NoCard, cardIndex |-> NoCard, lastValid |-> FALSE, last |-> NoCard,
            bufferValid |-> FALSE, index |-> 0, buffer |-> NoNode,
            listValid |-> FALSE, head |-> NoNode, tail |-> NoNode,
            node |-> NoNode, newTop |-> NoNode, wr |-> <<>>, wraddr |-> 0]
  /\ aopPending = FALSE
  /\ \E n \in Nodes, i \in 0 .. Capacity, l \in Cards \cup {NoCard} :
       \E m, f \in (Nodes \ {n}) \cup {NoNode} :
         /\ m = f => m = NoNode
         /\ cardQueue = [index |-> i, buffer |-> IF i = 0 THEN NoNode ELSE n, head |-> m, tail |-> m,
                         last |-> l]
         /\ freeNodes = f
         /\ start = [index |-> i, list |-> m]
         /\ lastAsked = l
  /\ nodeWords = [n \in Nodes |-> EmptyNode]
  /\ aopJob = [phase |-> "running", count |-> 1]
  /\ kept = <<>> /\ filled = {}

-----------------------------------------------------------------------------
AopAt(s)   == aop.state = s
AopGoto(s) == aop' = [aop EXCEPT !.state = s]

\* A card command; RegionAttr 0 is answered at once and changes nothing.  Once
\* a buffer was replaced the words go below the new one: one card shows it,
\* what further ones overwrite there is not modelled.
AopCommand(c) ==
  /\ AopAt("IDLE") /\ aopJob.phase = "running" /\ Len(kept) <= start.index
  /\ aop' = [aop EXCEPT !.state = "CALC_CARD", !.card = c, !.cardIndex = c]
  /\ lastAsked' = c
  /\ kept' = IF c = lastAsked THEN kept ELSE Append(kept, c)
  /\ UNCHANGED <<aopPending, aopMemory, aopJob, start, filled>>

\* CALC_CARD, with the read of the byte map (READ_BYTE_MAP) that precedes the first.
CalcCard ==
  /\ AopAt("CALC_CARD")
  /\ aop' = [aop EXCEPT !.state = "CHECK_LAST_INDEX", !.lastValid = TRUE,
                        !.last = IF aop.lastValid THEN @ ELSE cardQueue.last]
  /\ UNCHANGED <<aopPending, aopMemory, aopJob, aopHist>>

CheckLastIndex ==
  /\ AopAt("CHECK_LAST_INDEX")
  /\ aop' = IF aop.last = aop.cardIndex THEN [aop EXCEPT !.state = "IDLE"]
            ELSE IF aop.bufferValid THEN [aop EXCEPT !.state = "CHECK_INDEX"]
            ELSE [aop EXCEPT !.state = "CHECK_INDEX", !.bufferValid = TRUE,
                             !.index = cardQueue.index, !.buffer = cardQueue.buffer]
  /\ UNCHANGED <<aopPending, aopMemory, aopJob, aopHist>>

CheckIndex ==
  /\ AopAt("CHECK_INDEX")
  /\ aop' = IF aop.index # 0 THEN [aop EXCEPT !.state = "ENQUEUE_RES"]
            ELSE IF aop.listValid THEN [aop EXCEPT !.state = "LINK_OLD_BUFFER"]
            ELSE [aop EXCEPT !.state = "LINK_OLD_BUFFER", !.listValid = TRUE,
                             !.head = cardQueue.head, !.tail = cardQueue.tail]
  /\ UNCHANGED <<aopPending, aopMemory, aopJob, aopHist>>

LinkOldBuffer ==
  /\ AopAt("LINK_OLD_BUFFER")
  /\ IF aop.buffer = NoNode
     THEN AopGoto("ALLOC_READ_FREE_LIST") /\ UNCHANGED filled
     ELSE /\ aop' = [aop EXCEPT !.state = "WRITE_OLD_NODE", !.node = aop.buffer,
                                !.tail = IF @ = NoNode THEN aop.buffer ELSE @]
          /\ filled' = filled \cup {aop.buffer}
  /\ UNCHANGED <<aopPending, aopMemory, aopJob, start, lastAsked, kept>>

WriteOldNode ==
  /\ AopAt("WRITE_OLD_NODE")
  /\ nodeWords' = [nodeWords EXCEPT ![aop.node][-1] = aop.head]
  /\ aop' = [aop EXCEPT !.state = "ALLOC_READ_FREE_LIST", !.head = aop.node]
  /\ UNCHANGED <<aopPending, cardQueue, freeNodes, aopJob, aopHist>>

\* The read of the free list's head, and of the link of the node it names.
AllocReadFreeList ==
  /\ AopAt("ALLOC_READ_FREE_LIST")
  /\ aop' = [aop EXCEPT !.state = "ALLOC_WRITE_FREE_TOP", !.node = freeNodes,
                        !.newTop = IF freeNodes = NoNode THEN NoNode ELSE nodeWords[freeNodes][-1]]
  /\ UNCHANGED <<aopPending, aopMemory, aopJob, aopHist>>

\* Without a free node the unit asks the JVM through an interrupt port that
\* GCAccTop ties off: it stays in ALLOC_SLOW_RETRY.
AllocWriteFreeTop ==
  /\ AopAt("ALLOC_WRITE_FREE_TOP")
  /\ freeNodes' = aop.newTop
  /\ aop' = IF aop.node = NoNode THEN [aop EXCEPT !.state = "ALLOC_SLOW_RETRY"]
            ELSE [aop EXCEPT !.state = "READ_NODE_CAPACITY", !.buffer = aop.node]
  /\ UNCHANGED <<aopPending, cardQueue, nodeWords, aopJob, aopHist>>

\* The capacity lands in `res', the register of the card, and the index stays 0.
ReadNodeCapacity ==
  /\ AopAt("READ_NODE_CAPACITY")
  /\ aop' = [aop EXCEPT !.state = "ENQUEUE_RES", !.card = NoCard]
  /\ UNCHANGED <<aopPending, aopMemory, aopJob, aopHist>>

\* Words s .. s + Len(w) - 1 of buffer n take what was gathered, newest lowest.
WriteWords(n, s, w) ==
  nodeWords' = [nodeWords EXCEPT ![n] =
              [t \in WordSlots |-> IF t \in s .. s + Len(w) - 1 THEN w[Len(w) - (t - s)] ELSE @[t]]]

\* ENQUEUE_RES and, at the lower end of a line, WRITE_BUFFER_CACHE.
Enqueue ==
  /\ AopAt("ENQUEUE_RES")
  /\ LET s == aop.index - 1
         w == Append(aop.wr, aop.card)
         flushed == (s + LineOffset[aop.buffer]) % LineWords = 0
     IN /\ aop' = [aop EXCEPT !.state = "IDLE", !.last = aop.cardIndex, !.index = s,
                              !.wr = IF flushed THEN <<>> ELSE w,
                              !.wraddr = IF flushed THEN 0 ELSE s]
        /\ IF flushed THEN WriteWords(aop.buffer, s, w) ELSE UNCHANGED nodeWords
  /\ UNCHANGED <<aopPending, cardQueue, freeNodes, aopJob, aopHist>>

-----------------------------------------------------------------------------
\* NoAopSrc: the slots are empty and the stack is done; the machine may be
\* busy with the last card.  In the cycle of WB_CLEAR_CACHE the rise wins.
CardSourcesDone ==
  /\ aopJob.phase = "running"
  /\ aopJob' = [aopJob EXCEPT !.phase = "over"]
  /\ aopPending' = TRUE
  /\ UNCHANGED <<aop, aopMemory, aopHist>>

WbStart ==
  /\ AopAt("IDLE") /\ aopPending
  /\ AopGoto("WB_FLUSH_BUFFER_WRITE")
  /\ UNCHANGED <<aopPending, aopMemory, aopJob, aopHist>>

\* Mutant: the words gathered in the register are not written.
WbFlushNothing ==
  /\ AopAt("WB_FLUSH_BUFFER_WRITE")
  /\ AopGoto("WB_WRITE_INDEX_BUFFER")
  /\ UNCHANGED <<aopPending, aopMemory, aopJob, aopHist>>

WbFlush ==
  /\ AopAt("WB_FLUSH_BUFFER_WRITE")
  /\ IF aop.wr = <<>> THEN UNCHANGED nodeWords ELSE WriteWords(aop.buffer, aop.wraddr, aop.wr)
  /\ AopGoto("WB_WRITE_INDEX_BUFFER")
  /\ UNCHANGED <<aopPending, cardQueue, freeNodes, aopJob, aopHist>>

WbIndexBuffer ==
  /\ AopAt("WB_WRITE_INDEX_BUFFER")
  /\ cardQueue' = IF aop.bufferValid
                  THEN [cardQueue EXCEPT !.index = aop.index, !.buffer = aop.buffer]
                  ELSE cardQueue
  /\ AopGoto("WB_WRITE_OFFSET30_38")
  /\ UNCHANGED <<aopPending, nodeWords, freeNodes, aopJob, aopHist>>

WbList ==
  /\ AopAt("WB_WRITE_OFFSET30_38")
  /\ cardQueue' = IF aop.listValid
                  THEN [cardQueue EXCEPT !.head = aop.head, !.tail = aop.tail] ELSE cardQueue
  /\ AopGoto("WB_WRITE_LAST_INDEX")
  /\ UNCHANGED <<aopPending, nodeWords, freeNodes, aopJob, aopHist>>

WbLast ==
  /\ AopAt("WB_WRITE_LAST_INDEX")
  /\ cardQueue' = IF aop.lastValid THEN [cardQueue EXCEPT !.last = aop.last] ELSE cardQueue
  /\ AopGoto("WB_CLEAR_CACHE")
  /\ UNCHANGED <<aopPending, nodeWords, freeNodes, aopJob, aopHist>>

\* Mutant: the request for the write-back is not cleared.
WbClearStillPending ==
  /\ AopAt("WB_CLEAR_CACHE")
  /\ aop' = [aop EXCEPT !.state = "IDLE", !.lastValid = FALSE, !.bufferValid = FALSE,
                        !.listValid = FALSE, !.wr = <<>>, !.wraddr = 0]
  /\ UNCHANGED <<aopPending, aopMemory, aopJob, aopHist>>

WbClear ==
  /\ AopAt("WB_CLEAR_CACHE")
  /\ aop' = [aop EXCEPT !.state = "IDLE", !.lastValid = FALSE, !.bufferValid = FALSE,
                        !.listValid = FALSE, !.wr = <<>>, !.wraddr = 0]
  /\ aopPending' = FALSE
  /\ UNCHANGED <<aopMemory, aopJob, aopHist>>

-----------------------------------------------------------------------------
\* The next job of the worker may start as soon as the host has seen Done,
\* which does not wait for the write-back.
NextJob ==
  /\ aopJob.phase = "over" /\ aopJob.count < MaxJobs
  /\ aopJob' = [phase |-> "running", count |-> aopJob.count + 1]
  /\ UNCHANGED <<aop, aopPending, aopMemory, aopHist>>

\* The JVM works off the queue and leaves a buffer with room.  Nothing tells
\* it that the write-back is done: that it comes later is assumed.
WrittenBack == aopJob.phase = "over" /\ AopAt("IDLE") /\ ~aopPending

JvmTakesCards ==
  /\ WrittenBack
  /\ JvmQueue(Capacity, cardQueue.last)
  /\ nodeWords' = [n \in Nodes |-> EmptyNode]
  /\ kept' = <<>> /\ filled' = {}
  /\ UNCHANGED <<aop, aopPending, aopJob, lastAsked>>

AopMachine ==
  \/ CalcCard \/ CheckLastIndex \/ CheckIndex \/ LinkOldBuffer \/ WriteOldNode
  \/ AllocReadFreeList \/ AllocWriteFreeTop \/ ReadNodeCapacity \/ Enqueue
  \/ WbStart \/ WbFlush \/ WbIndexBuffer \/ WbList \/ WbLast \/ WbClear

AopNext ==
  \/ \E c \in Cards : AopCommand(c)
  \/ AopMachine \/ CardSourcesDone \/ NextJob \/ JvmTakesCards

\* The machine is clocked; a job runs out of cards.
AopFair == WF_aopVars(AopMachine) /\ WF_aopVars(CardSourcesDone)
AopSpec == AopInit /\ [][AopNext]_aopVars /\ AopFair

-----------------------------------------------------------------------------
\* The queue as the machine's caches and the gathered words have it.
index == IF aop.bufferValid THEN aop.index ELSE cardQueue.index
buffer == IF aop.bufferValid THEN aop.buffer ELSE cardQueue.buffer
Word(s) == IF s \in aop.wraddr .. aop.wraddr + Len(aop.wr) - 1
           THEN aop.wr[Len(aop.wr) - (s - aop.wraddr)] ELSE nodeWords[buffer][s]

\* Every card asked for is in the JVM's buffer or in the gathered words, in the
\* order asked, once unless it is repeated, as long as the buffer has room, and
\* all of it is in memory once the job's write-back is done, though the next
\* job's cards may come before it.
CardsInQueue ==
  AopAt("IDLE") /\ Len(kept) <= start.index =>
    /\ index = start.index - Len(kept)
    /\ \A k \in 1 .. Len(kept) : Word(start.index - k) = kept[k]
    /\ (IF aop.lastValid THEN aop.last ELSE cardQueue.last) = lastAsked
    /\ WrittenBack => ~aop.bufferValid /\ ~aop.lastValid /\ ~aop.listValid /\ aop.wr = <<>>

\* A buffer that was replaced is at the head of the JVM's list of full ones,
\* which still ends where it ended, and is neither free nor in use.
FullBufferLinked ==
  WrittenBack =>
    IF filled = {} THEN cardQueue.head = start.list /\ cardQueue.tail = start.list
    ELSE /\ filled = {cardQueue.head} /\ nodeWords[cardQueue.head][-1] = start.list
         /\ cardQueue.tail = IF start.list = NoNode THEN cardQueue.head ELSE start.list
         /\ {cardQueue.buffer, freeNodes} \cap {cardQueue.head, cardQueue.tail} \subseteq {NoNode}

\* The dirty cards and the buffers that hold them, together.
CardsKept == CardsInQueue /\ FullBufferLinked

\* The machine waits for the JVM to allocate a node, and is not answered.
AopStuck == AopAt("ALLOC_SLOW_RETRY")
=============================================================================
