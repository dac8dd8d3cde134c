------------------------------- MODULE GCCopy -------------------------------
(***************************************************************************)
(* GCCopy moves the bytes of an object to its new place.  Source lines     *)
(* (beats) are read ahead into a reorder buffer, cut where the destination *)
(* crosses a line, gathered in write combining entries until a destination *)
(* line is complete, and written; answers of both kinds come in any order. *)
(* Meanwhile GCFetch looks up bytes of the destination that are still on   *)
(* their way.  A step is a clock cycle.                                    *)
(*                                                                         *)
(* A byte is known by the address it was read from: a fragment, a write    *)
(* combining entry and the destination memory are functions from           *)
(* destination addresses to source addresses, whose domain is the mask.    *)
(***************************************************************************)
EXTENDS Integers, Sequences

CONSTANTS
  BeatBytes,          \* bytes of a line
  GCCopyEntry,        \* slots of the reorder buffer
  CompletionEntries,  \* GCCopyCompletionEntry
  WcbEntries,         \* GCCopyWriteCombineEntry
  EpochValues,        \* 2^GCCopyEpochWidth
  Copies,             \* commands: [src, dst, size]
  Queried,            \* addresses GCFetch reads, two bytes at a time
  MaxCopies           \* bound: commands

ASSUME CopyEntriesAssumption ==
  /\ BeatBytes \in Nat \ {0} /\ GCCopyEntry \in Nat \ {0} /\ WcbEntries \in Nat \ {0}
  /\ EpochValues \in Nat \ {0}
  /\ CompletionEntries \in Nat /\ CompletionEntries >= GCCopyEntry
  /\ Copies \subseteq [src : Nat, dst : Nat, size : Nat] /\ Queried \subseteq Nat

VARIABLES
  copy,           \* taskValid, the command, copyEpoch (counted on where the register wraps)
  readReqIdx,     \* the beat to be read next
  nextCommitIdx,  \* the first beat that is not known to be written
  committedBytes,
  rob,            \* the slots
  completion,     \* index -> completionTag, NoBeat without completionValid
  wcb,
  copyReads, copyWrites,  \* what the memory port has accepted and not answered
  copied,         \* the destination memory since the command
  predecode       \* GCCopyReadMeta of a task in GCFetch

copyVars == <<copy, readReqIdx, nextCommitIdx, committedBytes, rob, completion, wcb,
              copyReads, copyWrites, copied, predecode>>

RobSlots == 0 .. GCCopyEntry - 1
WcbSlots == 0 .. WcbEntries - 1
NoBeat == -1
FreeSlot == [busy |-> FALSE, data |-> NoBeat, reqIdx |-> 0, frag |-> << <<>>, <<>> >>, acks |-> 0]
FreeWcb == [valid |-> FALSE, issued |-> FALSE, line |-> 0, data |-> <<>>, contrib |-> <<>>]
NoQuery == [addr |-> 0, epoch |-> 0, valid |-> FALSE, beat |-> 0, offset |-> 0]

CopyInit ==
  /\ copy = [valid |-> FALSE, src |-> 0, dst |-> 0, size |-> 0, epoch |-> 0]
  /\ readReqIdx = 0 /\ nextCommitIdx = 0 /\ committedBytes = 0
  /\ rob = [i \in RobSlots |-> FreeSlot] /\ wcb = [w \in WcbSlots |-> FreeWcb]
  /\ completion = [i \in 0 .. CompletionEntries - 1 |-> NoBeat]
  /\ copyReads = {} /\ copyWrites = {} /\ copied = <<>> /\ predecode = NoQuery

-----------------------------------------------------------------------------
(* The command and its beats. *)

AlignDown(x) == x - (x % BeatBytes)
Smaller(a, b) == IF a < b THEN a ELSE b
srcOff == copy.src % BeatBytes
readBeatCount ==
  IF copy.size = 0 THEN 0 ELSE (srcOff + copy.size + BeatBytes - 1) \div BeatBytes
LogicalStart(b) == IF b = 0 THEN 0 ELSE b * BeatBytes - srcOff
ValidStart(b) == IF b = 0 THEN srcOff ELSE 0
ValidBytes(b) == Smaller(copy.size - LogicalStart(b), BeatBytes - ValidStart(b))
InCopyRange(a) == a \in copy.dst .. copy.dst + copy.size - 1
SourceOf(a) == copy.src + (a - copy.dst)

StartCopy(c) ==
  /\ ~copy.valid /\ copy.epoch < MaxCopies
  /\ copy' = [valid |-> TRUE, src |-> c.src, dst |-> c.dst, size |-> c.size,
              epoch |-> copy.epoch + 1]
  /\ readReqIdx' = 0 /\ nextCommitIdx' = 0 /\ committedBytes' = 0
  /\ rob' = [i \in RobSlots |-> FreeSlot] /\ wcb' = [w \in WcbSlots |-> FreeWcb]
  /\ completion' = [i \in DOMAIN completion |-> NoBeat]
  /\ copied' = <<>>
  /\ UNCHANGED <<copyReads, copyWrites, predecode>>

taskDoneNow ==
  /\ copy.valid /\ readReqIdx = readBeatCount /\ nextCommitIdx = readBeatCount
  /\ \A i \in RobSlots : ~rob[i].busy
  /\ \A w \in WcbSlots : ~wcb[w].valid

EndCopy ==
  /\ taskDoneNow
  /\ copy' = [copy EXCEPT !.valid = FALSE]
  /\ UNCHANGED <<readReqIdx, nextCommitIdx, committedBytes, rob, completion, wcb,
                 copyReads, copyWrites, copied, predecode>>

-----------------------------------------------------------------------------
(* Source beats. *)

readSlot == readReqIdx % GCCopyEntry
readCanAllocate ==
  /\ copy.valid /\ readReqIdx # readBeatCount
  /\ ~rob[readSlot].busy
  /\ readReqIdx - nextCommitIdx < CompletionEntries
ReadRequest == [slot |-> readSlot, addr |-> AlignDown(copy.src) + readReqIdx * BeatBytes]
Allocated == [FreeSlot EXCEPT !.busy = TRUE, !.reqIdx = readReqIdx]

ReadWelcome(r) == copy.valid /\ rob[r.slot].busy /\ rob[r.slot].data = NoBeat

\* The part of an answer that lies in one destination line.
Fragment(r, from, n) ==
  LET b == rob[r.slot].reqIdx IN
    [a \in from .. from + n - 1 |->
       r.addr + ValidStart(b) + (a - copy.dst - LogicalStart(b))]

Received(r) ==
  LET b     == rob[r.slot].reqIdx
      start == copy.dst + LogicalStart(b)
      len0  == Smaller(ValidBytes(b), BeatBytes - (start % BeatBytes))
  IN  [rob[r.slot] EXCEPT !.data = r.addr,
         !.frag = <<Fragment(r, start, len0),
                    Fragment(r, start + len0, ValidBytes(b) - len0)>>]

-----------------------------------------------------------------------------
(* Fragments go one by one into a write combining entry: first those that    *)
(* have one already.                                                         *)

Fragments == {f \in RobSlots \X {1, 2} : rob[f[1]].busy /\ rob[f[1]].frag[f[2]] # <<>>}
BytesOf(f) == rob[f[1]].frag[f[2]]
LineOf(f) == AlignDown(CHOOSE a \in DOMAIN BytesOf(f) : TRUE)
FirstFragment(S) == CHOOSE f \in S : \A g \in S : 2 * f[1] + f[2] <= 2 * g[1] + g[2]
FirstWcb(S) == CHOOSE w \in S : \A v \in S : w <= v

Expected(line) == {a \in line .. line + BeatBytes - 1 : copy.valid /\ InCopyRange(a)}
wcbReady(w) == /\ wcb[w].valid /\ ~wcb[w].issued
               /\ Expected(wcb[w].line) \subseteq DOMAIN wcb[w].data

(* Mutant of MergesWith: the line is not compared. *)
MergesWithAny(f) == {w \in WcbSlots : wcb[w].valid /\ ~wcb[w].issued /\ ~wcbReady(w)}

MergesWith(f) == {w \in WcbSlots : wcb[w].valid /\ ~wcb[w].issued /\ ~wcbReady(w)
                                   /\ wcb[w].line = LineOf(f)}
FreeWcbs == {w \in WcbSlots : ~wcb[w].valid}
Mergeable == {f \in Fragments : MergesWith(f) # {}}
\* The fragment taken in this cycle and the entry it goes to, if there is one.
NoneSelected == <<NoBeat, 0>>
Selected ==
  CASE Mergeable # {}                      -> FirstFragment(Mergeable)
    [] Mergeable = {} /\ FreeWcbs # {} /\ Fragments # {} -> FirstFragment(Fragments)
    [] OTHER                               -> NoneSelected
SelectedWcb(f) == FirstWcb(IF MergesWith(f) # {} THEN MergesWith(f) ELSE FreeWcbs)

\* Bytes laid over others.
Onto(new, old) ==
  [a \in DOMAIN new \union DOMAIN old |-> IF a \in DOMAIN new THEN new[a] ELSE old[a]]

Contribution(f) == <<f[1], rob[f[1]].reqIdx>>
Gathered(f, w) ==
  IF wcb[w].valid
  THEN [wcb[w] EXCEPT !.data = Onto(BytesOf(f), @), !.contrib = <<@[1], Contribution(f)>>]
  ELSE [valid |-> TRUE, issued |-> FALSE, line |-> LineOf(f), data |-> BytesOf(f),
        contrib |-> <<Contribution(f)>>]

FragmentsLeft(i, f) == [k \in 1 .. 2 |-> IF f = <<i, k>> THEN <<>> ELSE rob[i].frag[k]]

-----------------------------------------------------------------------------
(* Destination lines, one written at a time, and what their answers do.      *)

writeReady == {w \in WcbSlots : wcbReady(w)}
WriteRequest == [wcb |-> FirstWcb(writeReady), data |-> wcb[FirstWcb(writeReady)].data]
WriteWelcome(w) == copy.valid /\ wcb[w.wcb].valid /\ wcb[w.wcb].issued

NoAnswer == [wcb |-> NoBeat]
Contributes(i, w) ==
  /\ w # NoAnswer /\ rob[i].busy
  /\ \E k \in DOMAIN wcb[w.wcb].contrib : wcb[w.wcb].contrib[k] = <<i, rob[i].reqIdx>>
AcksAfter(i, f, w) ==
  rob[i].acks + (IF f[1] = i THEN 1 ELSE 0) - (IF Contributes(i, w) THEN 1 ELSE 0)
NoFragment == FreeSlot.frag
(* Mutant of BeatCompletes: fragments that still wait are forgotten. *)
BeatCompletesEarly(i, f, w) == Contributes(i, w) /\ AcksAfter(i, f, w) = 0

BeatCompletes(i, f, w) ==
  Contributes(i, w) /\ AcksAfter(i, f, w) = 0 /\ FragmentsLeft(i, f) = NoFragment

CompletionIndex(b) == b % CompletionEntries
CompletionHit(b) == completion[CompletionIndex(b)] = b
commitHeadDone == copy.valid /\ nextCommitIdx < readBeatCount /\ CompletionHit(nextCommitIdx)

-----------------------------------------------------------------------------
(* One cycle: the port may take the read asked for and the write, and answer *)
(* a read and a write; a fragment is gathered and a beat committed whenever  *)
(* there is one.                                                             *)

NoRead == [slot |-> NoBeat]
Reads == IF readCanAllocate THEN {ReadRequest} ELSE {}
Writes == IF writeReady = {} THEN {} ELSE {WriteRequest}

CopyCycle(f, asked, r, issued, w) ==
  LET done == {i \in RobSlots : BeatCompletes(i, f, w)} IN
  /\ r # NoRead => ReadWelcome(r)
  /\ w # NoAnswer => WriteWelcome(w)
  /\ readReqIdx' = IF asked = NoRead THEN readReqIdx ELSE readReqIdx + 1
  /\ rob' = [i \in RobSlots |->
       CASE i \in done        -> FreeSlot
         [] i = asked.slot    -> Allocated
         [] i = r.slot        -> Received(r)
         [] OTHER -> [rob[i] EXCEPT !.acks = AcksAfter(i, f, w), !.frag = FragmentsLeft(i, f)]]
  /\ LET to == IF f = NoneSelected THEN NoBeat ELSE SelectedWcb(f) IN
     wcb' = [v \in WcbSlots |->
       CASE v = w.wcb         -> FreeWcb
         [] v = to            -> Gathered(f, v)
         [] v = issued.wcb    -> [wcb[v] EXCEPT !.issued = TRUE]
         [] OTHER             -> wcb[v]]
  /\ LET beats == {rob[i].reqIdx : i \in done} IN
     completion' = [k \in DOMAIN completion |->
       IF commitHeadDone /\ k = CompletionIndex(nextCommitIdx) THEN NoBeat
       ELSE IF \E b \in beats : k = CompletionIndex(b)
            THEN CHOOSE b \in beats : k = CompletionIndex(b)
            ELSE completion[k]]
  /\ nextCommitIdx' = IF commitHeadDone THEN nextCommitIdx + 1 ELSE nextCommitIdx
  /\ committedBytes' =
       IF commitHeadDone THEN committedBytes + ValidBytes(nextCommitIdx) ELSE committedBytes
  /\ copyReads' = (copyReads \ {r}) \union ({asked} \ {NoRead})
  /\ copyWrites' = (copyWrites \ {w}) \union ({issued} \ {NoAnswer})
  /\ copied' = IF w = NoAnswer THEN copied ELSE Onto(w.data, copied)
  /\ UNCHANGED <<copy, predecode>>

CopyMachine ==
  \/ EndCopy
  \/ /\ copy.valid /\ ~taskDoneNow
     /\ LET f == Selected IN
        \E asked \in Reads \union {NoRead}, r \in copyReads \union {NoRead},
           issued \in Writes \union {NoAnswer}, w \in copyWrites \union {NoAnswer} :
          CopyCycle(f, asked, r, issued, w)

-----------------------------------------------------------------------------
(* The look-up of GCFetch: two bytes from `a'.  A task that entered GCFetch  *)
(* carries the beat worked out at that time.                                 *)

BeatOf(a) == (SourceOf(a) - AlignDown(copy.src)) \div BeatBytes
OffsetOf(a) == SourceOf(a) % BeatBytes

prepareCopyReadMeta(a) ==
  /\ predecode' =
       LET within == copy.valid /\ InCopyRange(a) /\ InCopyRange(a + 1) IN
       [addr |-> a, epoch |-> copy.epoch, valid |-> within,
        beat |-> IF within THEN BeatOf(a) ELSE 0, offset |-> IF within THEN OffsetOf(a) ELSE 0]
  /\ UNCHANGED <<copy, readReqIdx, nextCommitIdx, committedBytes, rob, completion, wcb,
                 copyReads, copyWrites, copied>>

(* Mutant of predecodeMatches: the epoch is not compared. *)
predecodeMatchesAny == predecode.valid

predecodeMatches ==
  predecode.valid /\ predecode.epoch % EpochValues = copy.epoch % EpochValues
\* Beat and offset of the byte `lane' of the look-up at `a', with the predecoded
\* position or without.
QueryBeat(a, lane, predecoded) ==
  IF predecoded THEN predecode.beat + (predecode.offset + lane) \div BeatBytes
  ELSE BeatOf(a + lane)
QueryOffset(a, lane, predecoded) ==
  IF predecoded THEN (predecode.offset + lane) % BeatBytes ELSE OffsetOf(a + lane)

MemoryVisible(a, b) == a - copy.dst < committedBytes \/ CompletionHit(b)
RobHit(b) == LET s == rob[b % GCCopyEntry] IN s.busy /\ s.data # NoBeat /\ s.reqIdx = b
ResponseBypass(b) ==
  {r \in copyReads : ReadWelcome(r) /\ r.slot = b % GCCopyEntry /\ rob[r.slot].reqIdx = b}

CopyNext ==
  \/ CopyMachine
  \/ \E c \in Copies : StartCopy(c)
  \/ \E a \in Queried : prepareCopyReadMeta(a)

CopySpec == CopyInit /\ [][CopyNext]_copyVars /\ WF_copyVars(CopyMachine)

-----------------------------------------------------------------------------
\* When GCCopy reports the copy done, the destination has every byte of the
\* source in its place and no byte around it was written, in whatever order
\* beats and lines were answered.
CopyExact ==
  taskDoneNow => copied = [a \in copy.dst .. copy.dst + copy.size - 1 |-> SourceOf(a)]

LaneSound(a, b, o) ==
  /\ MemoryVisible(a, b) => a \in DOMAIN copied /\ copied[a] = SourceOf(a)
  /\ RobHit(b) => rob[b % GCCopyEntry].data + o = SourceOf(a)
  /\ \A r \in ResponseBypass(b) : r.addr + o = SourceOf(a)

\* What GCFetch gets of an object being copied is what the object holds: a byte
\* it is sent to memory for is there, a byte passed on from the buffer or from
\* the answer of this cycle is the right one, also where the position was
\* worked out earlier, for this copy or for one that is over; GCFetch does not
\* keep a position while the epoch goes once round.
ForwardSound ==
  \A a \in Queried, lane \in 0 .. 1, predecoded \in BOOLEAN :
    copy.valid /\ InCopyRange(a + lane)
      /\ (predecoded => /\ predecodeMatches /\ predecode.addr = a
                        /\ copy.epoch - predecode.epoch < EpochValues)
    => LaneSound(a + lane, QueryBeat(a, lane, predecoded), QueryOffset(a, lane, predecoded))

\* The assertions of GCCopy: a line that takes another fragment has one
\* contributor, an answer finds an outstanding line to count down, a beat that
\* completes does not displace another from the completion window.
CopyAssertions ==
  LET f == Selected IN
  /\ Mergeable # {} => Len(wcb[SelectedWcb(f)].contrib) = 1
  /\ \A w \in {v \in copyWrites : WriteWelcome(v)}, i \in RobSlots :
       /\ Contributes(i, w) /\ f[1] # i => rob[i].acks # 0
       /\ BeatCompletes(i, f, w) =>
            completion[CompletionIndex(rob[i].reqIdx)] \in {NoBeat, rob[i].reqIdx}
=============================================================================
