--------------------------- MODULE GCArrayProcess ---------------------------
(***************************************************************************)
(* A large object array is scanned in parts.  Its first part is scanned    *)
(* when it is copied and leaves one task; each task for a part makes       *)
(* GCArrayProcess take the next ChunkSize elements and say how many more   *)
(* tasks GCTrace is to make, so that several can be on their way.  The     *)
(* length in the header of the new array tells how far the scan has come.  *)
(* What GCTrace does of this is dispatch, preparation and scan here; its   *)
(* own module follows the references.  One array; the number of its tasks  *)
(* on their way is `queue'.                                                *)
(***************************************************************************)
EXTENDS Integers

CONSTANTS
  ChunkSize,
  task_limit, task_fanout,  \* the two halves of StepperOffset
  ArrayLengths

\* Every configuration recorded in the repository sets both halves of
\* StepperOffset to the same number; the minimum in CALC_STEP is right for that
\* only.
ASSUME StepperAssumption ==
  /\ ChunkSize \in Nat \ {0} /\ task_fanout \in Nat \ {0} /\ task_limit = task_fanout
  /\ ArrayLengths \subseteq Nat

VARIABLES
  ap,           \* state and registers of GCArrayProcess
  chunkTrace,   \* the command GCTrace works on
  srcLength,    \* elements of the array; -1 before it is copied
  destLength,   \* length in the header of the new array
  announced,    \* the forwarding of the array was broadcast
  queue,        \* tasks for parts of the array
  parts,        \* parts whose scan has begun
  scanned       \* elements scanned

chunkVars == <<ap, chunkTrace, srcLength, destLength, announced, queue, parts, scanned>>

NoTrace == [pc |-> "IDLE", kind |-> "none", start |-> 0, step |-> 0, length |-> 0,
            ncreate |-> 0, created |-> 0]

ChunkInit ==
  /\ ap = [pc |-> "IDLE", dest |-> 0, step |-> 0, ncreate |-> 0]
  /\ chunkTrace = NoTrace
  /\ srcLength = -1 /\ destLength = 0 /\ announced = FALSE
  /\ queue = 0 /\ parts = 0 /\ scanned = {}

-----------------------------------------------------------------------------
(* GCTrace. *)

ChAt(s) == chunkTrace.pc = s

\* The array was copied: GCOopCopy2Survivor has its remainder scanned.
TraceArray(n) ==
  /\ srcLength = -1 /\ ChAt("IDLE")
  /\ srcLength' = n /\ destLength' = n
  /\ chunkTrace' = [NoTrace EXCEPT !.pc = "DISPATCH", !.kind = "array",
                      !.step = n % ChunkSize, !.length = n]
  /\ UNCHANGED <<ap, announced, queue, parts, scanned>>

DispatchChunk ==
  /\ ChAt("DISPATCH")
  /\ chunkTrace' = [chunkTrace EXCEPT !.pc = "PREPARE_ARRAY"]
  /\ IF chunkTrace.kind = "partial"
     THEN destLength' = chunkTrace.length /\ parts' = parts + 1
     ELSE destLength' = chunkTrace.step /\ UNCHANGED parts
  /\ UNCHANGED <<ap, srcLength, announced, queue, scanned>>

\* PREPARE_ARRAY of a part makes ncreate tasks, that of an array one if there
\* is more of it.
PrepareChunk ==
  /\ ChAt("PREPARE_ARRAY")
  /\ LET partial == chunkTrace.kind = "partial"
         create  == IF partial THEN chunkTrace.created < chunkTrace.ncreate
                    ELSE chunkTrace.length > chunkTrace.step
     IN /\ queue' = IF create THEN queue + 1 ELSE queue
        /\ chunkTrace' = IF create /\ partial THEN [chunkTrace EXCEPT !.created = @ + 1]
                         ELSE [chunkTrace EXCEPT !.pc = "SCAN_FORWARD"]
  /\ UNCHANGED <<ap, srcLength, destLength, announced, parts, scanned>>

Range == chunkTrace.start .. chunkTrace.step - 1

ScanChunk ==
  /\ ChAt("SCAN_FORWARD")
  /\ scanned' = scanned \union Range
  /\ chunkTrace' = NoTrace
  /\ ap' = IF chunkTrace.kind = "partial" THEN [ap EXCEPT !.pc = "IDLE"] ELSE ap
  /\ UNCHANGED <<srcLength, destLength, announced, queue, parts>>

-----------------------------------------------------------------------------
(* GCArrayProcess. *)

ApAt(s) == ap.pc = s
ApGoto(s) == ap' = [ap EXCEPT !.pc = s]
arrayVars == <<srcLength, destLength, parts, scanned>>

\* A task may have been fetched with the mark word of before the array moved.
TakeChunkTask ==
  /\ ApAt("IDLE") /\ queue > 0 /\ queue' = queue - 1
  /\ ApGoto(IF announced THEN "READ_DEST_LEN" ELSE "WAIT_FORWARD")
  /\ UNCHANGED <<chunkTrace, arrayVars, announced>>

\* The announcement reaches a task that waits for it.
Announce ==
  /\ ~announced /\ srcLength # -1 /\ announced' = TRUE
  /\ IF ApAt("WAIT_FORWARD") THEN ApGoto("READ_DEST_LEN") ELSE UNCHANGED ap
  /\ UNCHANGED <<chunkTrace, arrayVars, queue>>

ReadDestLen ==
  /\ ApAt("READ_DEST_LEN")
  /\ ap' = [ap EXCEPT !.pc = "CALC_STEP", !.dest = destLength]
  /\ UNCHANGED <<chunkTrace, arrayVars, announced, queue>>

Least(a, b) == IF a < b THEN a ELSE b
Minus32(a, b) == IF a >= b THEN a - b ELSE a - b + 2^32
task_num == ap.dest \div ChunkSize
remaining_tasks == Minus32(srcLength, ap.dest) \div ChunkSize
max_pending == (task_fanout - 1) * task_num + 1
pending == Least(Least(max_pending, remaining_tasks), task_limit)

\* Mutant: a minimum one too small.
StepNCreateShort ==
  Least(task_fanout, Minus32(Least(remaining_tasks, task_fanout), pending))

StepNCreate ==
  Least(task_fanout, Minus32(Least(remaining_tasks, task_fanout + 1), pending))

CalcStep ==
  /\ ApAt("CALC_STEP")
  /\ ap' = [ap EXCEPT !.pc = "LOOKUP_HEAP_REG", !.ncreate = StepNCreate,
                      !.step = ap.dest + ChunkSize]
  /\ UNCHANGED <<chunkTrace, arrayVars, announced, queue>>

\* Whether the array lies in a young region is cached or read.
LookupHeapRegion ==
  /\ ApAt("LOOKUP_HEAP_REG") /\ ApGoto("SEND_TRACE")
  /\ UNCHANGED <<chunkTrace, arrayVars, announced, queue>>

SendTrace ==
  /\ ApAt("SEND_TRACE") /\ ChAt("IDLE")
  /\ ApGoto("WAIT_TRACE_DONE")
  /\ chunkTrace' = [NoTrace EXCEPT !.pc = "DISPATCH", !.kind = "partial", !.start = ap.dest,
                      !.step = ap.step, !.length = ap.dest + ChunkSize, !.ncreate = ap.ncreate]
  /\ UNCHANGED <<arrayVars, announced, queue>>

ChunkMachine ==
  \/ DispatchChunk \/ PrepareChunk \/ ScanChunk \/ TakeChunkTask \/ Announce \/ ReadDestLen
  \/ CalcStep \/ LookupHeapRegion \/ SendTrace

ChunkNext == ChunkMachine \/ \E n \in ArrayLengths : TraceArray(n)

ChunkSpec == ChunkInit /\ [][ChunkNext]_chunkVars /\ WF_chunkVars(ChunkMachine)

-----------------------------------------------------------------------------
ArrayDone == srcLength # -1 /\ ApAt("IDLE") /\ ChAt("IDLE") /\ queue = 0

\* Every element of the array is scanned once, though each part only guesses
\* from the length it finds how many tasks are on their way: none is scanned
\* again, no task is left for parts that are not there, and none is missing at
\* the end.
ChunksOnce ==
  /\ ChAt("SCAN_FORWARD") => Range \cap scanned = {} /\ Range \subseteq 0 .. srcLength - 1
  /\ srcLength # -1 => ChunkSize * (parts + queue) <= srcLength
  /\ ArrayDone => scanned = 0 .. srcLength - 1
=============================================================================
