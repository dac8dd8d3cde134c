---------------------------- MODULE GCOopProcess ----------------------------
(***************************************************************************)
(* hwgc_acc/GCOopProcess.scala: the unit that settles one task, that is    *)
(* one field of the heap holding a reference into the collected regions.   *)
(* Two slots work at the same time.  Each looks up the region attribute of *)
(* the object, has the object copied unless it is forwarded already,       *)
(* writes the new address into the field and, when the reference crosses   *)
(* regions, hands the field to the Aop unit that marks its card.           *)
(*                                                                         *)
(* GCFetch holds the next task back until the unit says Done for the last. *)
(* The unit says Done early (for type arrays, and as soon as a copy ends), *)
(* which is how a second task gets in while the first is still at work.    *)
(*                                                                         *)
(* A step is what one slot, or one neighbour, does in a clock cycle.       *)
(* Addresses: a field is named by its task, a copy of an object by the     *)
(* task it was made for, a region by a model value.                        *)
(*                                                                         *)
(* Assumed of GCFetch: the mark word handed over with a task is what the   *)
(* heap holds at that moment.  GCFetch promises it (DispatchFresh) and     *)
(* keeps it while its forwarding cache does (FreshWhileKept); where it     *)
(* does not (run FetchStale) an object may be copied twice, which nothing  *)
(* in this module shows.                                                   *)
(***************************************************************************)
EXTENDS Naturals, Sequences

CONSTANTS
  OopTasks,         \* the fields to settle, each popped once
  Objects,          \* the objects they refer to
  Regions,          \* heap regions
  SrcOop,           \* task -> the object its field refers to
  FieldRegion,      \* task -> the region that holds the field
  ObjectRegion,     \* object -> the region that holds the object
  InCset,           \* regions whose attribute type is not negative
  Humongous,        \* regions the humongous bit is set for
  TypeArrays,       \* objects that are type arrays
  SameRegion,       \* pairs <<field, copy>> that lie in one region
  AttrEntries,      \* regionAttrCacheEntries
  HeapEntries,      \* heapRegionCacheEntries
  None              \* no task, no address

ASSUME ConstantsAssumption ==
  /\ SrcOop \in [OopTasks -> Objects]
  /\ FieldRegion \in [OopTasks -> Regions]
  /\ ObjectRegion \in [Objects -> Regions]
  /\ InCset \subseteq Regions /\ Humongous \subseteq Regions
  /\ TypeArrays \subseteq Objects
  /\ SameRegion \subseteq OopTasks \X OopTasks
  /\ AttrEntries \in Nat \ {0} /\ HeapEntries \in Nat \ {0}
  /\ None \notin OopTasks

OopSlots == {0, 1}
Address == OopTasks \cup {None}

Reads == {"READ_SRC_ATTR", "READ_HEAP_PTR", "READ_HUMONGOUS", "READ_DEST_ATTR"}
States == Reads \cup {"IDLE", "DECIDE", "COPY_SURV_REQ", "WAIT_COPY_OR_MARK",
                      "WRITE_BACK", "SEND_AOP"}

VARIABLES
  slot,                 \* slot -> its state machine and its context
  copySlot,             \* slot -> slotCopy2SurvivorDone / Inflight / BypassGranted
  issued,               \* slot -> the request register its states share
  asked,                \* slot -> the reads the memory has not answered
  regionAttrCache,      \* regions in the shared cache, oldest first
  heapRegionCache,      \* regions in the shared cache, oldest first
  allowSecondInFlight,
  todo,                 \* tasks GCFetch has not handed over
  fetchWaits,           \* GCFetch waits for Done of the task it handed over
  unreleased,           \* slots whose task has not said Done
  overtaken,            \* a cache hit was used while the own read was out
  copier,               \* what GCOopCopy2Survivor does for each slot
  forward,              \* object -> the copy its mark word points to
  field,                \* task -> what was written into its field
  aopSent               \* tasks handed to GCAop

slotVars  == <<slot, copySlot, issued, asked>>
cacheVars == <<regionAttrCache, heapRegionCache>>
fetchVars == <<allowSecondInFlight, todo, fetchWaits, unreleased>>
heapVars  == <<forward, field, aopSent>>
oopVars == <<slotVars, cacheVars, fetchVars, overtaken, copier, heapVars>>

Survivor == INSTANCE SurvivorSpec WITH Owners <- OopSlots, Copies <- OopTasks, NoCopy <- None

EmptySlot == [pc |-> "IDLE", task |-> None, mark |-> None, dest |-> None,
              inCset |-> FALSE, fromMark |-> FALSE, humongous |-> FALSE]
NoCopy == [done |-> FALSE, inflight |-> FALSE, bypass |-> FALSE]

OopInit ==
  /\ slot = [i \in OopSlots |-> EmptySlot]
  /\ copySlot = [i \in OopSlots |-> NoCopy]
  /\ issued = [i \in OopSlots |-> FALSE]
  /\ asked = [i \in OopSlots |-> {}]
  /\ regionAttrCache = <<>> /\ heapRegionCache = <<>>
  /\ allowSecondInFlight = FALSE
  /\ todo = OopTasks /\ fetchWaits = FALSE /\ unreleased = {}
  /\ overtaken = FALSE
  /\ Survivor!Init
  /\ forward = [o \in Objects |-> None]
  /\ field = [t \in OopTasks |-> None]
  /\ aopSent = {}

-----------------------------------------------------------------------------
(* What the actions are made of. *)

At(i, s) == slot[i].pc = s
slotValid(i) == ~At(i, "IDLE")
hasFreeSlot == \E i \in OopSlots : ~slotValid(i)
pipeEmpty == \A i \in OopSlots : ~slotValid(i)
Oop(i) == SrcOop[slot[i].task]
srcRegion(i) == ObjectRegion[Oop(i)]
heapRegion(i) == FieldRegion[slot[i].task]

Cached(cache, r) == \E n \in DOMAIN cache : cache[n] = r
Fill(cache, r, entries) ==
  Append(IF Len(cache) < entries THEN cache ELSE Tail(cache), r)

releaseFetch(i) ==
  /\ fetchWaits' = FALSE
  /\ allowSecondInFlight' = TRUE
  /\ unreleased' = unreleased \ {i}
  /\ UNCHANGED todo

finishSlot(i) ==
  /\ slot' = [slot EXCEPT ![i] = EmptySlot]
  /\ copySlot' = [copySlot EXCEPT ![i] = NoCopy]

\* The field's region is known: on the forwarded path go on to the card, or
\* end; on the copying path wait for the copy.
HumongousKnown(i, hum) ==
  IF slot[i].fromMark
    THEN IF hum THEN finishSlot(i)
         ELSE /\ slot' = [slot EXCEPT ![i].pc = "READ_DEST_ATTR",
                            ![i].fromMark = FALSE, ![i].humongous = hum]
              /\ UNCHANGED copySlot
    ELSE /\ slot' = [slot EXCEPT ![i].pc = "WAIT_COPY_OR_MARK",
                       ![i].humongous = hum]
         /\ UNCHANGED copySlot

-----------------------------------------------------------------------------
(* GCFetch hands over a task with the mark word it read or was told of,     *)
(* which is assumed to be the one of now, see above.                        *)

AcceptTask(t) ==
  /\ t \in todo /\ ~fetchWaits
  /\ hasFreeSlot /\ (pipeEmpty \/ allowSecondInFlight)
  /\ LET i == IF slotValid(0) THEN 1 ELSE 0 IN
       /\ slot' = [slot EXCEPT ![i] = [EmptySlot EXCEPT !.pc = "READ_SRC_ATTR",
                                        !.task = t, !.mark = forward[SrcOop[t]]]]
       /\ copySlot' = [copySlot EXCEPT ![i] = NoCopy]
       /\ unreleased' = unreleased \cup {i}
  /\ todo' = todo \ {t} /\ fetchWaits' = TRUE
  /\ allowSecondInFlight' = FALSE
  /\ UNCHANGED <<issued, asked, cacheVars, copier, heapVars, overtaken>>

(* Reads: a state issues its request once and takes whatever answer comes. *)

Hit(i) == \/ At(i, "READ_SRC_ATTR") /\ Cached(regionAttrCache, srcRegion(i))
          \/ At(i, "READ_HEAP_PTR") /\ Cached(heapRegionCache, heapRegion(i))

AskRead(i) ==
  /\ slot[i].pc \in Reads /\ ~Hit(i) /\ ~issued[i]
  /\ issued' = [issued EXCEPT ![i] = TRUE]
  /\ asked' = [asked EXCEPT ![i] = @ \cup {slot[i].pc}]
  /\ UNCHANGED <<slot, copySlot, cacheVars, fetchVars, copier, heapVars, overtaken>>

SrcAttrHit(i) ==
  /\ At(i, "READ_SRC_ATTR") /\ Hit(i)
  /\ slot' = [slot EXCEPT ![i].pc = "DECIDE",
                          ![i].inCset = srcRegion(i) \in InCset]
  /\ UNCHANGED <<copySlot, issued, asked, cacheVars, fetchVars, copier, heapVars, overtaken>>

\* A hit does not look at the memory: an answer that comes in this very cycle
\* is lost, one that is still to come stays due, and the register stays set.
HeapRegionHit(i) ==
  /\ At(i, "READ_HEAP_PTR") /\ Hit(i)
  /\ HumongousKnown(i, heapRegion(i) \in Humongous)
  /\ \E lost \in SUBSET asked[i] : asked' = [asked EXCEPT ![i] = @ \ lost]
  /\ overtaken' = (overtaken \/ issued[i])
  /\ UNCHANGED <<issued, cacheVars, fetchVars, copier, heapVars>>

\* An answer asked for by state s reaches whichever state is active.  A value
\* read under another address is any value.
Value(i, s, v) == IF At(i, s) THEN {v} ELSE BOOLEAN

SrcAttrAnswer(i, s) ==
  /\ At(i, "READ_SRC_ATTR")
  /\ \E v \in Value(i, s, srcRegion(i) \in InCset) :
       slot' = [slot EXCEPT ![i].pc = "DECIDE", ![i].inCset = v]
  /\ regionAttrCache' = Fill(regionAttrCache, srcRegion(i), AttrEntries)
  /\ UNCHANGED <<copySlot, heapRegionCache>>

HeapPtrAnswer(i) ==
  /\ At(i, "READ_HEAP_PTR")
  /\ slot' = [slot EXCEPT ![i].pc = "READ_HUMONGOUS"]
  /\ UNCHANGED <<copySlot, cacheVars>>

HumongousAnswer(i, s) ==
  /\ At(i, "READ_HUMONGOUS")
  /\ \E hum \in Value(i, s, heapRegion(i) \in Humongous) : HumongousKnown(i, hum)
  /\ heapRegionCache' = Fill(heapRegionCache, heapRegion(i), HeapEntries)
  /\ UNCHANGED regionAttrCache

DestAttrAnswer(i) ==
  /\ At(i, "READ_DEST_ATTR")
  /\ slot' = [slot EXCEPT ![i].pc = "SEND_AOP"]
  /\ UNCHANGED <<copySlot, cacheVars>>

\* A state that reads at this moment takes the answer; any other state lets it
\* go by and the shared register stays set.
Answer(i, s) ==
  /\ s \in asked[i] /\ ~Hit(i)
  /\ asked' = [asked EXCEPT ![i] = @ \ {s}]
  /\ IF slot[i].pc \in Reads
       THEN /\ issued' = [issued EXCEPT ![i] = FALSE]
            /\ \/ SrcAttrAnswer(i, s)
               \/ HeapPtrAnswer(i)
               \/ HumongousAnswer(i, s)
               \/ DestAttrAnswer(i)
       ELSE UNCHANGED <<slot, copySlot, issued, cacheVars>>
  /\ UNCHANGED <<fetchVars, copier, heapVars, overtaken>>

(* Forwarded already, or to be copied. *)

IgnoreTask(i) ==
  /\ At(i, "DECIDE") /\ ~slot[i].inCset
  /\ releaseFetch(i) /\ finishSlot(i)
  /\ UNCHANGED <<issued, asked, cacheVars, copier, heapVars, overtaken>>

UseForward(i) ==
  /\ \/ At(i, "DECIDE") /\ slot[i].inCset
     \/ At(i, "COPY_SURV_REQ") /\ ~copySlot[i].inflight
  /\ slot[i].mark # None
  /\ slot' = [slot EXCEPT ![i].pc = "WRITE_BACK", ![i].dest = slot[i].mark,
                          ![i].fromMark = TRUE]
  /\ releaseFetch(i)
  /\ UNCHANGED <<copySlot, issued, asked, cacheVars, copier, heapVars, overtaken>>

DecideCopy(i) ==
  /\ At(i, "DECIDE") /\ slot[i].inCset /\ slot[i].mark = None
  /\ slot' = [slot EXCEPT ![i].pc = "COPY_SURV_REQ", ![i].fromMark = FALSE]
  /\ UNCHANGED <<copySlot, issued, asked, cacheVars, fetchVars, copier, heapVars, overtaken>>

WantsCopy(i) ==
  At(i, "COPY_SURV_REQ") /\ ~copySlot[i].inflight /\ slot[i].mark = None

SendCopy(i) ==
  /\ WantsCopy(i) /\ (i = 0 \/ ~WantsCopy(0))
  /\ Survivor!Ask(i)
  /\ slot' = [slot EXCEPT ![i].pc = "READ_HEAP_PTR"]
  /\ copySlot' = [copySlot EXCEPT ![i].inflight = TRUE, ![i].bypass = FALSE]
  /\ UNCHANGED <<issued, asked, cacheVars, fetchVars, heapVars, overtaken>>

\* Mutant: no Done when the copy ends.
CopyIsDoneSilent(i) ==
  /\ At(i, "WAIT_COPY_OR_MARK") /\ copySlot[i].done
  /\ slot' = [slot EXCEPT ![i].pc = "WRITE_BACK"]
  /\ copySlot' = [copySlot EXCEPT ![i].done = FALSE, ![i].bypass = FALSE]
  /\ UNCHANGED <<issued, asked, cacheVars, fetchVars, copier, heapVars, overtaken>>

CopyIsDone(i) ==
  /\ At(i, "WAIT_COPY_OR_MARK") /\ copySlot[i].done
  /\ IF copySlot[i].bypass THEN UNCHANGED fetchVars ELSE releaseFetch(i)
  /\ slot' = [slot EXCEPT ![i].pc = "WRITE_BACK"]
  /\ copySlot' = [copySlot EXCEPT ![i].done = FALSE, ![i].bypass = FALSE]
  /\ UNCHANGED <<issued, asked, cacheVars, copier, heapVars, overtaken>>

(* The field is written: no answer is wanted, an accepted write is done. *)

SendWrite(i) ==
  /\ At(i, "WRITE_BACK") /\ ~issued[i]
  /\ issued' = [issued EXCEPT ![i] = TRUE]
  /\ field' = [field EXCEPT ![slot[i].task] = slot[i].dest]
  /\ UNCHANGED <<slot, copySlot, asked, cacheVars, fetchVars, copier, forward, aopSent, overtaken>>

sameRegion(i) == <<slot[i].task, slot[i].dest>> \in SameRegion

\* Mutant: the humongous bit is not looked at after a copy.
LeaveWriteBackAnyRegion(i) ==
  /\ At(i, "WRITE_BACK") /\ issued[i]
  /\ issued' = [issued EXCEPT ![i] = FALSE]
  /\ IF sameRegion(i)
       THEN finishSlot(i)
       ELSE /\ slot' = [slot EXCEPT ![i].pc =
                          IF slot[i].fromMark THEN "READ_HEAP_PTR" ELSE "READ_DEST_ATTR"]
            /\ UNCHANGED copySlot
  /\ UNCHANGED <<asked, cacheVars, fetchVars, copier, heapVars, overtaken>>

LeaveWriteBack(i) ==
  /\ At(i, "WRITE_BACK") /\ issued[i]
  /\ issued' = [issued EXCEPT ![i] = FALSE]
  /\ IF sameRegion(i) \/ (~slot[i].fromMark /\ slot[i].humongous)
       THEN finishSlot(i)
       ELSE /\ slot' = [slot EXCEPT ![i].pc =
                          IF slot[i].fromMark THEN "READ_HEAP_PTR" ELSE "READ_DEST_ATTR"]
            /\ UNCHANGED copySlot
  /\ UNCHANGED <<asked, cacheVars, fetchVars, copier, heapVars, overtaken>>

SendAop(i) ==
  /\ At(i, "SEND_AOP") /\ (i = 0 \/ ~At(0, "SEND_AOP"))
  /\ aopSent' = aopSent \cup {slot[i].task}
  /\ finishSlot(i)
  /\ UNCHANGED <<issued, asked, cacheVars, fetchVars, copier, forward, field, overtaken>>

-----------------------------------------------------------------------------
(* GCOopCopy2Survivor: tells of a type array, installs and announces the   *)
(* forwarding pointer, says done with the address of the copy it made.     *)

\* Mutants: every object is let go early; one is let go twice.
TypeArrayOrNot(i) ==
  /\ copier[i].stage # "idle"
  /\ copySlot[i].inflight /\ ~copySlot[i].bypass
  /\ releaseFetch(i)
  /\ copySlot' = [copySlot EXCEPT ![i].bypass = TRUE]
  /\ UNCHANGED <<slot, issued, asked, cacheVars, copier, heapVars, overtaken>>
TypeArrayForgotten(i) ==
  /\ copier[i].stage # "idle" /\ Oop(i) \in TypeArrays
  /\ copySlot[i].inflight
  /\ releaseFetch(i)
  /\ UNCHANGED <<slot, copySlot, issued, asked, cacheVars, copier, heapVars, overtaken>>

TypeArray(i) ==
  /\ copier[i].stage # "idle" /\ Oop(i) \in TypeArrays
  /\ copySlot[i].inflight /\ ~copySlot[i].bypass
  /\ releaseFetch(i)
  /\ copySlot' = [copySlot EXCEPT ![i].bypass = TRUE]
  /\ UNCHANGED <<slot, issued, asked, cacheVars, copier, heapVars, overtaken>>

WriteForward(i) ==
  /\ Survivor!Announce(i, slot[i].task)
  /\ forward' = [forward EXCEPT ![Oop(i)] = slot[i].task]
  /\ slot' = [j \in OopSlots |-> IF slotValid(j) /\ Oop(j) = Oop(i)
                                 THEN [slot[j] EXCEPT !.mark = slot[i].task]
                                 ELSE slot[j]]
  /\ UNCHANGED <<copySlot, issued, asked, cacheVars, fetchVars, field, aopSent, overtaken>>

\* Mutant: DoneOwner is not looked at.
CopyDoneToSlot0(i) ==
  /\ Survivor!Finish(i, copier[i].copy)
  /\ slot' = [slot EXCEPT ![0].dest = copier[i].copy]
  /\ copySlot' = [copySlot EXCEPT ![i].done = TRUE, ![i].inflight = FALSE]
  /\ UNCHANGED <<issued, asked, cacheVars, fetchVars, heapVars, overtaken>>

CopyDone(i) ==
  /\ Survivor!Finish(i, copier[i].copy)
  /\ slot' = [slot EXCEPT ![i].dest = copier[i].copy]
  /\ copySlot' = [copySlot EXCEPT ![i].done = TRUE, ![i].inflight = FALSE]
  /\ UNCHANGED <<issued, asked, cacheVars, fetchVars, heapVars, overtaken>>

-----------------------------------------------------------------------------
SlotStep(i) ==
  \/ AskRead(i) \/ SrcAttrHit(i) \/ HeapRegionHit(i)
  \/ IgnoreTask(i) \/ UseForward(i) \/ DecideCopy(i) \/ SendCopy(i)
  \/ CopyIsDone(i) \/ SendWrite(i) \/ LeaveWriteBack(i) \/ SendAop(i)

OopNext ==
  \/ \E t \in OopTasks : AcceptTask(t)
  \/ \E i \in OopSlots : \/ SlotStep(i)
                         \/ \E s \in Reads : Answer(i, s)
                         \/ TypeArray(i) \/ WriteForward(i) \/ CopyDone(i)

\* All tasks are settled: GCFetch has nothing left.
Settled == todo = {} /\ pipeEmpty

OopSpec == OopInit /\ [][OopNext]_oopVars

\* Every slot acts each cycle it can; GCFetch offers its task until taken; the
\* memory answers (GCLocalMMU starves nobody) and a copy comes to its end.
OopFairness ==
  /\ WF_oopVars(\E t \in OopTasks : AcceptTask(t))
  /\ \A i \in OopSlots :
       /\ WF_oopVars(SlotStep(i))
       /\ WF_oopVars(\E s \in Reads : Answer(i, s))
       /\ WF_oopVars(WriteForward(i)) /\ WF_oopVars(CopyDone(i))

OopFairSpec == OopSpec /\ OopFairness

-----------------------------------------------------------------------------
(* The inductive invariant, in parts. *)

Lookup == {"READ_SRC_ATTR", "DECIDE", "COPY_SURV_REQ"}
Copying == {"READ_HEAP_PTR", "READ_HUMONGOUS", "WAIT_COPY_OR_MARK"}

SlotType == [pc : States, task : Address, mark : Address, dest : Address,
             inCset : BOOLEAN, fromMark : BOOLEAN, humongous : BOOLEAN]
CopyType == [done : BOOLEAN, inflight : BOOLEAN, bypass : BOOLEAN]
CopierType == [stage : {"idle", "asked", "announced"}, copy : Address]

OopTypeOK ==
  /\ slot \in [OopSlots -> SlotType]
  /\ copySlot \in [OopSlots -> CopyType]
  /\ issued \in [OopSlots -> BOOLEAN]
  /\ asked \in [OopSlots -> SUBSET Reads]
  /\ regionAttrCache \in Seq(Regions) /\ heapRegionCache \in Seq(Regions)
  /\ allowSecondInFlight \in BOOLEAN
  /\ todo \subseteq OopTasks /\ fetchWaits \in BOOLEAN /\ unreleased \subseteq OopSlots
  /\ overtaken \in BOOLEAN
  /\ copier \in [OopSlots -> CopierType]
  /\ forward \in [Objects -> Address]
  /\ field \in [OopTasks -> Address]
  /\ aopSent \subseteq OopTasks

\* A slot waits for a copy exactly while GCOopCopy2Survivor works on it or its
\* done has not been used, and only a task of its own is in a slot.
Shape(i) ==
  /\ slotValid(i) <=> slot[i].task # None
  /\ slotValid(i) => slot[i].task \notin todo
  /\ copySlot[i].inflight <=> copier[i].stage # "idle"
  /\ ~(copySlot[i].inflight /\ copySlot[i].done)
  /\ (copySlot[i].inflight \/ copySlot[i].done)
       <=> slot[i].pc \in Copying /\ ~slot[i].fromMark
  /\ copySlot[i].bypass => copySlot[i].inflight \/ copySlot[i].done
  /\ slot[i].fromMark => slot[i].pc \in {"WRITE_BACK", "READ_HEAP_PTR", "READ_HUMONGOUS"}
SlotShape == \A i \in OopSlots : Shape(i)
DifferentTasks == slotValid(0) /\ slotValid(1) => slot[0].task # slot[1].task

\* The tasks that have not said Done are those that are still being looked up
\* or wait for a copy that was not let go early.
DoneUnsaid(i) ==
  \/ slot[i].pc \in Lookup
  \/ (copySlot[i].inflight \/ copySlot[i].done) /\ ~copySlot[i].bypass
Unreleased == unreleased = {i \in OopSlots : DoneUnsaid(i)}

\* io.Fetch2Process.Done: GCFetch, which holds its next task back until Done,
\* waits for exactly the one task that has not said Done.  A Done said twice,
\* or said for the other task, would let a third task in or drop a release.
FetchHeldByOne ==
  /\ fetchWaits <=> unreleased # {}
  /\ unreleased # OopSlots
  /\ fetchWaits => ~allowSecondInFlight

FetchInv == OopTypeOK /\ SlotShape /\ DifferentTasks /\ Unreleased /\ FetchHeldByOne

\* Mark words in the slots follow the broadcasts; a copy let go early is one
\* of a type array, and any other object is copied by one slot at a time.
MarksFollow == \A i \in OopSlots : slotValid(i) => slot[i].mark = forward[Oop(i)]
CopyState == \A i \in OopSlots :
  /\ copySlot[i].bypass => Oop(i) \in TypeArrays
  /\ copier[i].stage = "asked" /\ Oop(i) \notin TypeArrays => forward[Oop(i)] = None
  /\ copier[i].stage = "announced" =>
       /\ copier[i].copy = slot[i].task /\ forward[Oop(i)] # None
       /\ Oop(i) \notin TypeArrays => forward[Oop(i)] = slot[i].task
ForwardsToCopy == \A o \in Objects : forward[o] # None => SrcOop[forward[o]] = o
CopyInv == FetchInv /\ MarksFollow /\ CopyState /\ ForwardsToCopy

\* Reads: a request is on its way exactly for the state that made it.  Nobody
\* else fills the attribute cache while one is out for it, since the next task
\* comes only after DECIDE.
OwnRead == \A i \in OopSlots :
  /\ asked[i] = IF issued[i] /\ slot[i].pc \in Reads THEN {slot[i].pc} ELSE {}
  /\ issued[i] => slot[i].pc \in Reads \cup {"WRITE_BACK"}
  /\ issued[i] /\ At(i, "READ_SRC_ATTR") => ~Hit(i)

-----------------------------------------------------------------------------
(* Properties. *)

Held(t) == \E i \in OopSlots : slot[i].task = t
Done(t) == t \notin todo /\ ~Held(t)
InCsetTask(t) == ObjectRegion[SrcOop[t]] \in InCset

\* A right address for task t: the one the object's mark word points to.  Two
\* copies of a type array may be made, so there any copy of that object.
RightAddress(t, a) ==
  /\ a # None /\ forward[SrcOop[t]] # None
  /\ IF SrcOop[t] \in TypeArrays THEN SrcOop[a] = SrcOop[t]
                                 ELSE a = forward[SrcOop[t]]
Crosses(t, a) == <<t, a>> \notin SameRegion /\ FieldRegion[t] \notin Humongous

\* What each state has learned and done so far.
Knows(i) == LET t == slot[i].task  pc == slot[i].pc IN
  /\ t \notin aopSent
  /\ pc # "READ_SRC_ATTR" => slot[i].inCset = InCsetTask(t)
  /\ pc \notin {"READ_SRC_ATTR", "DECIDE"} => InCsetTask(t)
  /\ pc = "WRITE_BACK" \/ slot[i].fromMark \/ copySlot[i].done
       \/ pc \in {"READ_DEST_ATTR", "SEND_AOP"} => RightAddress(t, slot[i].dest)
  /\ pc = "WAIT_COPY_OR_MARK" \/ (pc = "WRITE_BACK" /\ ~slot[i].fromMark)
       => slot[i].humongous = (FieldRegion[t] \in Humongous)
  /\ slot[i].fromMark /\ pc # "WRITE_BACK" => <<t, slot[i].dest>> \notin SameRegion
  /\ pc \in {"READ_DEST_ATTR", "SEND_AOP"} => Crosses(t, slot[i].dest)
  /\ IF \/ pc = "WRITE_BACK" /\ issued[i]
        \/ slot[i].fromMark /\ pc # "WRITE_BACK"
        \/ pc \in {"READ_DEST_ATTR", "SEND_AOP"}
       THEN field[t] = slot[i].dest
       ELSE pc # "WRITE_BACK" => field[t] = None
SlotsKnow == \A i \in OopSlots : slotValid(i) => Knows(i)
Untouched == \A t \in todo : field[t] = None /\ t \notin aopSent

\* A task is over when its field holds the address of the one copy of its
\* object, whichever slot or earlier task had it made: WRITE_BACK writes the
\* DestOopPtr that came back for this slot's owner number, or the mark word.
\* (Not once a slot has gone on while its read was out, see AnswerToCaller.)
FieldsAgree == ~overtaken => \A t \in OopTasks : Done(t) =>
  IF InCsetTask(t) THEN RightAddress(t, field[t]) ELSE field[t] = None

\* A task that is over was handed to GCAop exactly when its reference crosses
\* regions and its field is not in a humongous region.
CardsMarked == ~overtaken => \A t \in OopTasks : Done(t) =>
  (t \in aopSent <=> InCsetTask(t) /\ Crosses(t, field[t]))

OopIInv ==
  /\ CopyInv
  /\ ~overtaken => OwnRead /\ SlotsKnow /\ Untouched
  /\ FieldsAgree /\ CardsMarked

\* An object that is no type array is copied once: its mark word, once it
\* points to a copy, points to that copy for good, whatever the two slots do
\* with the tasks they are given.  That GCFetch gives them no stale mark word is
\* the assumption of AcceptTask, and not part of this.
CopiedOnce == [][\A o \in Objects \ TypeArrays :
                   forward[o] # None => forward'[o] = forward[o]]_oopVars

\* Every task GCFetch has is taken in and leaves its slot, unless a slot went
\* on with a cached region while its read was out (see AnswerToCaller).
EveryTaskSettled == <>(Settled \/ overtaken)

\* GCTopParameters issueReq: "callback to let caller handle response data".
\* An answer is taken by the state that made the request.
AnswerToCaller == [][\A i \in OopSlots : \A s \in asked[i] \ asked'[i] : At(i, s)]_oopVars

\* The comment above the update of waiting mark words: once a task was sent to
\* GCOopCopy2Survivor its compare-and-swap guarantees correctness, so that an
\* object gets one forwarding pointer, type array or not.
ForwardOnce == [][\A o \in Objects : forward[o] # None => forward'[o] = forward[o]]_oopVars
=============================================================================
