----------------------------- MODULE GCAllocate -----------------------------
(***************************************************************************)
(* GCAllocate (hwgc_acc/GCAllocate.scala): gets room for an object that    *)
(* did not fit the worker's PLAB of an attribute, survivor (0) or old (1): *)
(* a new PLAB when the object is small, what was left of the old one being *)
(* covered by a filler object, or else the object alone.  GCParAllocate is *)
(* what its answers promise: words nobody has, no less than the least and  *)
(* no more than the desired number, or null.  The words it hands out for   *)
(* an attribute are numbered from 0; where they lie does not matter.       *)
(***************************************************************************)
EXTENDS Integers

CONSTANTS
  ObjectSizes,   \* bound: sizes asked for, in words
  PlabWords,     \* desired size of a PLAB, in words
  WasteFactor,   \* an object gets a new PLAB if this many of it would fit (10)
  HeadSize,      \* words of an array's header: 2, or 3 without compressed klass pointers
  SpaceWords,    \* bound: words GCParAllocate has for an attribute
  MaxAsked       \* bound: commands in a run

ASSUME AllocateAssumption ==
  /\ ObjectSizes \subseteq Nat \ {0} /\ WasteFactor \in Nat \ {0} /\ HeadSize \in {2, 3}
  /\ PlabWords \in Nat /\ SpaceWords \in Nat /\ MaxAsked \in Nat

VARIABLES
  al,        \* the machine: its state and registers
  parResult, \* par_allocate_done, _destObj and _plabSize: GCParAllocate's answer, latched
  parAsked,  \* the command GCParAllocate is working on
  plab,      \* memory: the PLAB of each attribute
  handed,    \* words GCParAllocate has handed out
  objects,   \* history: the words of objects
  fillers,   \* history: the words of filler objects
  alAsked      \* environment: commands so far

alVars == <<al, parResult, parAsked, plab, handed, objects, fillers, alAsked>>

AttrIdx == {0, 1}
NullPtr == -1
Words(first, n) == first .. first + n - 1
Plab(b, t, h) == [bottom |-> b, top |-> t, hardEnd |-> h]

\* AlignmentReserve: words kept at the end of a PLAB for a filler's header.
Reserve == 2

AlInit ==
  /\ al = [state |-> "sIdle", attr |-> 0, size |-> 0, top |-> 0, hardEnd |-> 0,
           dest |-> NullPtr, actual |-> 0, return |-> FALSE]
  /\ parResult = [done |-> FALSE, dest |-> NullPtr, size |-> 0]
  /\ parAsked = [busy |-> FALSE, min |-> 0, want |-> 0]
  /\ plab = [a \in AttrIdx |-> Plab(0, 0, 0)]
  /\ handed = [a \in AttrIdx |-> 0]
  /\ objects = [a \in AttrIdx |-> {}] /\ fillers = [a \in AttrIdx |-> {}]
  /\ alAsked = 0

-----------------------------------------------------------------------------
AlAt(s)   == al.state = s
AlGoto(s) == al' = [al EXCEPT !.state = s]

\* The command of a slot of GCOopCopy2Survivor.
AlCommand(a, n) ==
  /\ AlAt("sIdle") /\ alAsked < MaxAsked
  /\ al' = [al EXCEPT !.state = "sDecideAllocateMode", !.attr = a, !.size = n, !.return = FALSE]
  /\ parResult' = [parResult EXCEPT !.done = FALSE]
  /\ alAsked' = alAsked + 1
  /\ UNCHANGED <<parAsked, plab, handed, objects, fillers>>

required   == al.size + Reserve
useNewPlab == required <= PlabWords /\ required * WasteFactor < PlabWords

\* sendToParAllocate: taken when GCParAllocate is idle.
SendToParAllocate(min, want) ==
  /\ ~parAsked.busy
  /\ parAsked' = [busy |-> TRUE, min |-> min, want |-> want]

\* sCheckPlabStats ... sDecideAllocateMode; the reads fill caches.
DecideAllocateMode ==
  /\ AlAt("sDecideAllocateMode")
  /\ IF useNewPlab
     THEN SendToParAllocate(required, PlabWords) /\ al' = [al EXCEPT !.state = "sReadBufferMeta"]
     ELSE /\ SendToParAllocate(al.size, al.size)
          /\ al' = [al EXCEPT !.state = "sWaitParAllocate", !.return = TRUE]
  /\ UNCHANGED <<parResult, plab, handed, objects, fillers, alAsked>>

ReadBufferMeta ==
  /\ AlAt("sReadBufferMeta")
  /\ al' = [al EXCEPT !.state = IF plab[al.attr].top < plab[al.attr].hardEnd
                                THEN "sWriteOldPlabHeader" ELSE "sWaitParAllocate",
                      !.top = plab[al.attr].top, !.hardEnd = plab[al.attr].hardEnd]
  /\ UNCHANGED <<parResult, parAsked, plab, handed, objects, fillers, alAsked>>

\* The filler over the rest of the old PLAB: an int array of its length, or a
\* plain object, two words, if an array's header does not fit.
FillerWords == IF al.hardEnd - al.top >= HeadSize THEN al.hardEnd - al.top ELSE 2

WriteOldPlabHeader ==
  /\ AlAt("sWriteOldPlabHeader")
  /\ fillers' = [fillers EXCEPT ![al.attr] = @ \cup Words(al.top, FillerWords)]
  /\ AlGoto("sWaitParAllocate")
  /\ UNCHANGED <<parResult, parAsked, plab, handed, objects, alAsked>>

\* finish: the slot puts its object at the address, if there is one.
AlFinish(dest) ==
  objects' = [objects EXCEPT ![al.attr] = IF dest = NullPtr THEN @ ELSE @ \cup Words(dest, al.size)]

\* Mutant: the PLAB that was filled stays in use when there is no new one.
WaitParAllocateNoCollapse ==
  /\ AlAt("sWaitParAllocate") /\ parResult.done
  /\ parResult' = [parResult EXCEPT !.done = FALSE]
  /\ al' = [al EXCEPT !.dest = parResult.dest, !.actual = parResult.size,
                      !.return = ~al.return /\ parResult.dest = NullPtr,
                      !.state = IF al.return THEN "sIdle"
                                ELSE IF parResult.dest # NullPtr THEN "sWriteRefill"
                                ELSE "sSendDirectRetry"]
  /\ IF al.return THEN AlFinish(parResult.dest) ELSE UNCHANGED objects
  /\ UNCHANGED <<parAsked, plab, handed, fillers, alAsked>>

WaitParAllocate ==
  /\ AlAt("sWaitParAllocate") /\ parResult.done
  /\ parResult' = [parResult EXCEPT !.done = FALSE]
  /\ al' = [al EXCEPT !.dest = parResult.dest, !.actual = parResult.size,
                      !.return = ~al.return /\ parResult.dest = NullPtr /\ al.top >= al.hardEnd,
                      !.state = IF al.return THEN "sIdle"
                                ELSE IF parResult.dest # NullPtr THEN "sWriteRefill"
                                ELSE IF al.top < al.hardEnd THEN "sWriteCollapseBuffer"
                                ELSE "sSendDirectRetry"]
  /\ IF al.return THEN AlFinish(parResult.dest) ELSE UNCHANGED objects
  /\ UNCHANGED <<parAsked, plab, handed, fillers, alAsked>>

\* sWriteRefillLow32B and High16B: the object takes the first words, if they
\* are enough for it.
WriteRefill ==
  /\ AlAt("sWriteRefill")
  /\ plab' = [plab EXCEPT ![al.attr] =
       Plab(al.dest, al.dest + (IF al.actual - Reserve >= al.size THEN al.size ELSE 0),
            al.dest + al.actual)]
  /\ AlFinish(al.dest) /\ AlGoto("sIdle")
  /\ UNCHANGED <<parResult, parAsked, handed, fillers, alAsked>>

\* No new PLAB: the old one, filled to its end, is used up; then the object alone.
WriteCollapseBuffer ==
  /\ AlAt("sWriteCollapseBuffer")
  /\ plab' = [plab EXCEPT ![al.attr] = Plab(al.hardEnd, al.hardEnd, al.hardEnd)]
  /\ al' = [al EXCEPT !.state = "sSendDirectRetry", !.return = TRUE]
  /\ UNCHANGED <<parResult, parAsked, handed, objects, fillers, alAsked>>

SendDirectRetry ==
  /\ AlAt("sSendDirectRetry")
  /\ SendToParAllocate(al.size, al.size)
  /\ AlGoto("sWaitParAllocate")
  /\ UNCHANGED <<parResult, plab, handed, objects, fillers, alAsked>>

-----------------------------------------------------------------------------
\* GCParAllocate answers, perhaps before GCAllocate looks for the answer.
ParAnswers ==
  /\ parAsked.busy
  /\ parAsked' = [parAsked EXCEPT !.busy = FALSE]
  /\ \/ \E n \in parAsked.min .. parAsked.want :
          /\ handed[al.attr] + n <= SpaceWords
          /\ parResult' = [done |-> TRUE, dest |-> handed[al.attr], size |-> n]
          /\ handed' = [handed EXCEPT ![al.attr] = @ + n]
     \/ parResult' = [done |-> TRUE, dest |-> NullPtr, size |-> 0] /\ UNCHANGED handed
  /\ UNCHANGED <<al, plab, objects, fillers, alAsked>>

\* A slot puts an object in the PLAB, below the reserve; the lock of the
\* attribute keeps it out while a command of that attribute is at work.
SlotAllocates(a, n) ==
  /\ AlAt("sIdle") \/ al.attr # a
  /\ plab[a].top + n <= plab[a].hardEnd - Reserve
  /\ plab' = [plab EXCEPT ![a].top = @ + n]
  /\ objects' = [objects EXCEPT ![a] = @ \cup Words(plab[a].top, n)]
  /\ UNCHANGED <<al, parResult, parAsked, handed, fillers, alAsked>>

AlMachine ==
  \/ DecideAllocateMode \/ ReadBufferMeta \/ WriteOldPlabHeader \/ WaitParAllocate
  \/ WriteRefill \/ WriteCollapseBuffer \/ SendDirectRetry

AlNext ==
  \/ AlMachine \/ ParAnswers
  \/ \E a \in AttrIdx, n \in ObjectSizes : AlCommand(a, n) \/ SlotAllocates(a, n)

\* The machine is clocked, and GCParAllocate answers.
AlFair == WF_alVars(AlMachine) /\ WF_alVars(ParAnswers)
AlSpec == AlInit /\ [][AlNext]_alVars /\ AlFair

-----------------------------------------------------------------------------
Room(a) == plab[a].top .. plab[a].hardEnd - 1

\* The heap stays parsable and no word is used twice: every word handed out is
\* in one object, in one filler or in the room of the current PLAB, never in
\* two of them, when no command of the attribute is at work.
WordsAccounted ==
  \A a \in AttrIdx :
    AlAt("sIdle") \/ al.attr # a =>
      /\ objects[a] \cup fillers[a] \cup Room(a) = Words(0, handed[a])
      /\ objects[a] \cap fillers[a] = {}
      /\ Room(a) \cap (objects[a] \cup fillers[a]) = {}
=============================================================================
