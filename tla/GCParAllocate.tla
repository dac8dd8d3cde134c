---------------------------- MODULE GCParAllocate ----------------------------
(***************************************************************************)
(* GCParAllocate (hwgc_acc/GCParAllocate.scala): allocates words in the    *)
(* survivor (0) or old (1) allocation region, and replaces a region that   *)
(* has no room.  Four machines: mainFsm, parAllocateIml (moves a region's  *)
(* top), parAllocate (that and the block offset table) and attemptAlloc    *)
(* (retires the region, gets and installs another).  They talk by start    *)
(* pulses, which a busy machine ignores, and by done pulses, some of them  *)
(* latched.  A region is RegionWords words, its bottom is word 0.          *)
(* mainFsm and parAllocateIml share a port; what they take from it while   *)
(* both use it is not followed (MixedAnswers).                             *)
(***************************************************************************)
EXTENDS GCNewGCAlloc, FiniteSets

CONSTANTS
  DummyRegion,   \* the region without room that stands for "no region"
  OldRegion,     \* the old region the JVM may have installed before the job
  RegionWords,   \* words of a region
  Sizes,         \* bound: the (least, desired) sizes asked for
  MaxCommands    \* bound: commands of GCAllocate in a run

ASSUME ParAssumption ==
  /\ DummyRegion \notin Region0
  /\ OldRegion \in Regions /\ \A i \in DOMAIN JvmOrder : JvmOrder[i] # OldRegion
  /\ RegionWords \in Nat /\ MaxCommands \in Nat
  /\ Sizes \subseteq (1 .. RegionWords) \X (1 .. RegionWords)

Attrs   == {0, 1}
Kind(a) == IF a = 0 THEN "young" ELSE "old"
NullChunk    == [region |-> NoRegion, word |-> 0]

VARIABLES
  mf,            \* mainFsm: its state and registers
  iml,           \* parAllocateIml
  imlSeen,       \* par_allocate_iml_done_reg: its done pulse, latched for parAllocate
  pa,            \* parAllocate
  parSeen,       \* par_allocate_done_reg: its done pulse, latched for attemptAlloc
  at,            \* attemptAlloc
  dest, actual,  \* destObjPtr and actualWordSize, written by all of them
  regionCache,   \* alloc_region_valid and alloc_region_cache, per attribute
  top,           \* memory: top of every region
  allocRegion,   \* memory: the allocator's region and its used_bytes_before
  full,          \* memory: the allocator's full flag
  locked,        \* memory: the regions whose lock word is set, and the free list's
  oldSet, survivorBytes,  \* memory: regions in the old set, words of retired survivors
  commands,      \* environment: commands so far
  retired        \* history: the regions each allocator has retired

machines  == <<mf, iml, imlSeen, pa, parSeen, at, dest, actual, regionCache>>
parMemory == <<top, allocRegion, full, locked, oldSet, survivorBytes>>
parVars   == <<machines, parMemory, commands, retired>>
lowVars   == <<ngVars, frVars>>
allocVars == <<parVars, lowVars>>

FreeLock == "free list"

ParInit ==
  /\ FrInit /\ NgInit
  /\ mf = [state |-> "IDLE", attr |-> 0, min |-> 0, want |-> 0, region |-> NoRegion,
           selectAllocate |-> FALSE]
  /\ iml = [state |-> "IDLE", region |-> NoRegion, min |-> 0, want |-> 0, top |-> 0, amount |-> 0]
  /\ pa = [state |-> "IDLE", region |-> NoRegion, min |-> 0, want |-> 0]
  /\ at = [state |-> "IDLE", attr |-> 0, region |-> NoRegion, want |-> 0, top |-> 0, new |-> NoRegion]
  /\ imlSeen = FALSE /\ parSeen = FALSE
  /\ dest = NullChunk /\ actual = 0
  /\ regionCache = [a \in Attrs |-> [valid |-> FALSE, region |-> NoRegion]]
  /\ top \in [Regions -> {0, RegionWords - 1}]
  /\ \A r \in Regions \ {OldRegion} : top[r] = 0
  /\ \E r \in {DummyRegion, OldRegion} :
       allocRegion = [a \in Attrs |-> IF a = 0 \/ r = DummyRegion
                                      THEN [region |-> DummyRegion, used |-> 0]
                                      ELSE [region |-> r, used |-> top[r]]]
  /\ full = [a \in Attrs |-> FALSE]
  /\ locked = {}
  /\ oldSet = 0 /\ survivorBytes = 0
  /\ commands = 0
  /\ retired = [a \in Attrs |-> {}]

TopOf(r) == IF r = DummyRegion THEN RegionWords ELSE top[r]

-----------------------------------------------------------------------------
(* The start pulse of parAllocateIml, and what its done pulse does: it is   *)
(* latched, and mainFsm goes on if it is waiting for it.                    *)
StartIml(r, min, want) ==
  iml' = IF iml.state = "IDLE"
         THEN [iml EXCEPT !.state = "READ_TOP_END", !.region = r, !.min = min, !.want = want]
         ELSE iml

ImlDone ==
  /\ imlSeen' = TRUE
  /\ mf' = IF mf.state = "WAIT_IML_DONE" THEN [mf EXCEPT !.state = "CHECK_ALLOC_RESULT"] ELSE mf

Available(r) == RegionWords - TopOf(r)
Amount       == IF Available(iml.region) > iml.want THEN iml.want ELSE Available(iml.region)

ImlReadTopEnd ==
  /\ iml.state = "READ_TOP_END"
  /\ IF Amount >= iml.min
     THEN /\ iml' = [iml EXCEPT !.state = "WRITE_TOP", !.top = TopOf(iml.region), !.amount = Amount]
          /\ UNCHANGED <<dest, actual, imlSeen, mf>>
     ELSE /\ iml' = [iml EXCEPT !.state = "IDLE"]
          /\ dest' = NullChunk /\ actual' = 0
          /\ ImlDone
  /\ UNCHANGED <<pa, parSeen, at, regionCache, parMemory, commands, retired, lowVars>>

(* The compare-and-swap of top, whose answer is not compared. *)
ImlWriteTop ==
  /\ iml.state = "WRITE_TOP"
  /\ top' = [top EXCEPT ![iml.region] = iml.top + iml.amount]
  /\ dest' = [region |-> iml.region, word |-> iml.top] /\ actual' = iml.amount
  /\ iml' = [iml EXCEPT !.state = "IDLE"]
  /\ ImlDone
  /\ UNCHANGED <<pa, parSeen, at, regionCache, allocRegion, full, locked, oldSet, survivorBytes,
                 commands, retired, lowVars>>

-----------------------------------------------------------------------------
(* The start pulse of parAllocate, which starts parAllocateIml at once. *)
StartPar(r, min, want) ==
  IF pa.state = "IDLE"
  THEN /\ pa' = [pa EXCEPT !.state = "START_IML_AND_READ_REGION", !.region = r,
                           !.min = min, !.want = want]
       /\ StartIml(r, min, want)
  ELSE UNCHANGED <<pa, iml>>

ParDone ==
  /\ pa' = [pa EXCEPT !.state = "IDLE"]
  /\ parSeen' = TRUE
  /\ mf' = IF mf.state = "WAIT_PAR_ALLOC" THEN [mf EXCEPT !.state = "UNLOCK_ALLOC_REGION"] ELSE mf

(* The start pulse is up in every cycle of that state: parAllocateIml, done *)
(* before the region is read, starts once more.                             *)
StartImlAgain ==
  /\ pa.state = "START_IML_AND_READ_REGION" /\ iml.state = "IDLE"
  /\ StartIml(pa.region, pa.min, pa.want)
  /\ UNCHANGED <<mf, imlSeen, pa, parSeen, at, dest, actual, regionCache, parMemory,
                 commands, retired, lowVars>>

ParRead ==
  /\ \/ pa.state = "START_IML_AND_READ_REGION" /\ pa' = [pa EXCEPT !.state = "READ_BOT"]
     \/ pa.state = "READ_BOT" /\ pa' = [pa EXCEPT !.state = "WAIT_IML_DONE"]
  /\ UNCHANGED <<mf, iml, imlSeen, parSeen, at, dest, actual, regionCache, parMemory,
                 commands, retired, lowVars>>

(* Whether the block reaches the threshold of the offset table is left open; *)
(* the cards it then fills are FILL_CARDS ... UPDATE_BOT, one step here.     *)
ParWaitIml ==
  /\ pa.state = "WAIT_IML_DONE" /\ imlSeen
  /\ imlSeen' = FALSE
  /\ \/ dest # NullChunk /\ pa' = [pa EXCEPT !.state = "UPDATE_BOT"] /\ UNCHANGED <<parSeen, mf>>
     \/ ParDone
  /\ UNCHANGED <<iml, at, dest, actual, regionCache, parMemory, commands, retired, lowVars>>

ParUpdateBot ==
  /\ pa.state = "UPDATE_BOT" /\ ParDone
  /\ UNCHANGED <<iml, imlSeen, at, dest, actual, regionCache, parMemory, commands, retired, lowVars>>

-----------------------------------------------------------------------------
(* attemptAlloc, started by mainFsm only. *)
AtState(s) == at.state = s
AtGoto(s)  == at' = [at EXCEPT !.state = s]
atSame     == <<iml, imlSeen, dest, actual>>

AtRequest ==
  /\ AtState("NEW_ALLOC_REQ")
  /\ NgCommand(Kind(at.attr))
  /\ AtGoto("READ_ALLOC_REGION")
  /\ UNCHANGED <<mf, pa, parSeen, atSame, regionCache, parMemory, commands, retired, newDone>>

AtReadAllocRegion ==
  /\ AtState("READ_ALLOC_REGION")
  /\ IF at.region = DummyRegion THEN AtGoto("WAIT_NEW_ALLOC_REGION")
     ELSE at' = [at EXCEPT !.state = "READ_REGION_INFO", !.top = TopOf(at.region)]
  /\ UNCHANGED <<mf, pa, parSeen, atSame, regionCache, parMemory, commands, retired, lowVars>>

(* READ_REGION_INFO and the read and write of the old set's count or of the *)
(* survivors' words, which nobody else changes meanwhile.                   *)
AtCountRetired ==
  /\ AtState("READ_REGION_INFO")
  /\ IF at.attr = 1
     THEN oldSet' = oldSet + 1 /\ UNCHANGED survivorBytes
     ELSE survivorBytes' = survivorBytes + (at.top - allocRegion[0].used) /\ UNCHANGED oldSet
  /\ AtGoto("WRITE_REGION_TO_DUMMY")
  /\ UNCHANGED <<mf, pa, parSeen, atSame, regionCache, top, allocRegion, full, locked,
                 commands, retired, lowVars>>

(* emitCacheUpdate: the cache at once; with one accelerator the broadcast   *)
(* that comes back in the next cycle writes the same value again.           *)
EmitCacheUpdate(a, r) ==
  regionCache' = [regionCache EXCEPT ![a].region = IF regionCache[a].valid THEN r ELSE @]

(* Mutant: only the broadcast to the others, not the own cache. *)
AtWriteDummyNoCache ==
  /\ AtState("WRITE_REGION_TO_DUMMY")
  /\ allocRegion' = [allocRegion EXCEPT ![at.attr] = [region |-> DummyRegion, used |-> 0]]
  /\ retired' = [retired EXCEPT ![at.attr] = @ \cup {at.region}]
  /\ AtGoto("WAIT_NEW_ALLOC_REGION")
  /\ UNCHANGED <<mf, pa, parSeen, atSame, regionCache, top, full, locked, oldSet, survivorBytes,
                 commands, lowVars>>

AtWriteDummy ==
  /\ AtState("WRITE_REGION_TO_DUMMY")
  /\ allocRegion' = [allocRegion EXCEPT ![at.attr] = [region |-> DummyRegion, used |-> 0]]
  /\ EmitCacheUpdate(at.attr, DummyRegion)
  /\ retired' = [retired EXCEPT ![at.attr] = @ \cup {at.region}]
  /\ AtGoto("WAIT_NEW_ALLOC_REGION")
  /\ UNCHANGED <<mf, pa, parSeen, atSame, top, full, locked, oldSet, survivorBytes,
                 commands, lowVars>>

(* GCNewGCAlloc always answers with a region, or not at all. *)
AtTakeRegion ==
  /\ AtState("WAIT_NEW_ALLOC_REGION") /\ newDone.valid
  /\ newDone' = NoAnswer
  /\ at' = [at EXCEPT !.state = "START_PAR_AND_CLEAR_NEW_REGION", !.new = newDone.region]
  /\ UNCHANGED <<mf, pa, parSeen, atSame, regionCache, parMemory, commands, retired,
                 ng, ngMemory, frVars>>

AtStartPar ==
  /\ AtState("START_PAR_AND_CLEAR_NEW_REGION")
  /\ StartPar(at.new, at.want, at.want)
  /\ AtGoto("READ_NEW_ALLOC_REGION")
  /\ UNCHANGED <<mf, imlSeen, parSeen, dest, actual, regionCache, parMemory, commands, retired,
                 lowVars>>

AtReadNew ==
  /\ AtState("READ_NEW_ALLOC_REGION")
  /\ at' = [at EXCEPT !.state = "WRITE_REGION_TO_NEW", !.top = top[at.new]]
  /\ UNCHANGED <<mf, pa, parSeen, atSame, regionCache, parMemory, commands, retired, lowVars>>

AtWriteNew ==
  /\ AtState("WRITE_REGION_TO_NEW")
  /\ allocRegion' = [allocRegion EXCEPT ![at.attr] = [region |-> at.new, used |-> at.top]]
  /\ EmitCacheUpdate(at.attr, at.new)
  /\ AtGoto("WAIT_PAR_DONE")
  /\ UNCHANGED <<mf, pa, parSeen, atSame, top, full, locked, oldSet, survivorBytes,
                 commands, retired, lowVars>>

(* The latched done pulse may be that of an earlier allocation: dest is     *)
(* then still null, and mainFsm, which is waiting, takes it for a failure.  *)
AtWaitPar ==
  /\ AtState("WAIT_PAR_DONE") /\ parSeen
  /\ parSeen' = FALSE
  /\ actual' = IF dest # NullChunk THEN at.want ELSE actual
  /\ AtGoto("IDLE")
  /\ mf' = [mf EXCEPT !.state = IF dest = NullChunk THEN "MARK_ALLOCATOR_FULL" ELSE "UNLOCK_FREELIST"]
  /\ UNCHANGED <<pa, iml, imlSeen, dest, regionCache, parMemory, commands, retired, lowVars>>

AtStep ==
  \/ AtRequest \/ AtReadAllocRegion \/ AtCountRetired \/ AtWriteDummy \/ AtTakeRegion
  \/ AtStartPar \/ AtReadNew \/ AtWriteNew \/ AtWaitPar

-----------------------------------------------------------------------------
MfState(s) == mf.state = s
MfGoto(s)  == mf' = [mf EXCEPT !.state = s]
mfSame     == <<imlSeen, parSeen, commands, retired, lowVars>>

(* A command of GCAllocate, once it has had the answer to the last one. *)
Command ==
  /\ MfState("IDLE") /\ commands < MaxCommands
  /\ \E a \in Attrs, sz \in Sizes :
       mf' = [mf EXCEPT !.state = "LOAD_ALLOC_REGION", !.attr = a, !.min = sz[1], !.want = sz[2],
                        !.region = NoRegion, !.selectAllocate = FALSE]
  /\ dest' = NullChunk /\ actual' = 0
  /\ commands' = commands + 1
  /\ UNCHANGED <<iml, imlSeen, pa, parSeen, at, regionCache, parMemory, retired, lowVars>>

(* mainFsm and parAllocateIml use one port, MreqMainIml, and nothing        *)
(* arbitrates: the request of mainFsm replaces the other's, and an answer   *)
(* runs the callbacks of both (issueReq).  They use it at the same time     *)
(* only if a pulse started parAllocateIml once more (StartImlAgain, or one  *)
(* latched too long).  While parAllocateIml is at work mainFsm either waits *)
(* for it, as with a write that goes out once the port is free, or they mix *)
(* their answers: what any machine does then is not followed.               *)
usesPort ==
  \/ MfState("LOAD_ALLOC_REGION") /\ ~regionCache[mf.attr].valid
  \/ MfState("FIRST_ALLOC") /\ mf.attr = 1
  \/ MfState("CHECK_ALLOC_RESULT") /\ dest = NullChunk /\ ~mf.selectAllocate
  \/ mf.state \in {"UNLOCK_ALLOC_REGION", "LOCK_FREELIST", "MARK_ALLOCATOR_FULL", "UNLOCK_FREELIST"}

portFree == usesPort => iml.state = "IDLE"

MixedAnswers ==
  /\ usesPort /\ iml.state # "IDLE"
  /\ MfGoto("MIXED_ANSWERS")
  /\ UNCHANGED <<iml, pa, at, dest, actual, regionCache, parMemory, mfSame>>

LoadAllocRegion ==
  /\ MfState("LOAD_ALLOC_REGION") /\ portFree
  /\ regionCache' = IF regionCache[mf.attr].valid THEN regionCache
       ELSE [regionCache EXCEPT ![mf.attr] = [valid |-> TRUE, region |-> allocRegion[mf.attr].region]]
  /\ mf' = [mf EXCEPT !.state = "FIRST_ALLOC", !.region = regionCache'[mf.attr].region]
  /\ UNCHANGED <<iml, pa, at, dest, actual, parMemory, mfSame>>

FirstAlloc ==
  /\ MfState("FIRST_ALLOC") /\ portFree
  /\ IF mf.attr = 0
     THEN /\ StartIml(mf.region, mf.min, mf.want)
          /\ MfGoto("WAIT_IML_DONE") /\ UNCHANGED locked
     ELSE /\ locked' = locked \cup {mf.region}
          /\ MfGoto("START_PAR_ALLOC") /\ UNCHANGED iml
  /\ UNCHANGED <<pa, at, dest, actual, regionCache, top, allocRegion, full, oldSet,
                 survivorBytes, mfSame>>

StartParAlloc ==
  /\ MfState("START_PAR_ALLOC")
  /\ StartPar(mf.region, mf.min, mf.want)
  /\ MfGoto("WAIT_PAR_ALLOC")
  /\ UNCHANGED <<at, dest, actual, regionCache, parMemory, mfSame>>

UnlockAllocRegion ==
  /\ MfState("UNLOCK_ALLOC_REGION") /\ portFree
  /\ locked' = locked \ {mf.region}
  /\ MfGoto("CHECK_ALLOC_RESULT")
  /\ UNCHANGED <<iml, pa, at, dest, actual, regionCache, top, allocRegion, full, oldSet,
                 survivorBytes, mfSame>>

(* resetState answers with what dest and actual hold in that cycle.  dest   *)
(* is looked at again in each cycle of the read of the full flag, but only  *)
(* parAllocateIml changes it meanwhile, which then shares the port.         *)
CheckAllocResult ==
  /\ MfState("CHECK_ALLOC_RESULT") /\ portFree
  /\ mf' = IF dest # NullChunk \/ (~mf.selectAllocate /\ full[mf.attr]) THEN [mf EXCEPT !.state = "IDLE"]
           ELSE IF mf.selectAllocate THEN [mf EXCEPT !.state = "LOCK_FREELIST", !.selectAllocate = FALSE]
           ELSE [mf EXCEPT !.state = "FIRST_ALLOC", !.selectAllocate = TRUE]
  /\ UNCHANGED <<iml, pa, at, dest, actual, regionCache, parMemory, mfSame>>

LockFreeList ==
  /\ MfState("LOCK_FREELIST") /\ portFree
  /\ locked' = locked \cup {FreeLock}
  /\ MfGoto("START_ATTEMPT")
  /\ UNCHANGED <<iml, pa, at, dest, actual, regionCache, top, allocRegion, full, oldSet,
                 survivorBytes, mfSame>>

StartAttempt ==
  /\ MfState("START_ATTEMPT")
  /\ at' = [at EXCEPT !.state = "NEW_ALLOC_REQ", !.attr = mf.attr, !.region = mf.region, !.want = mf.want]
  /\ MfGoto("WAIT_ATTEMPT")
  /\ UNCHANGED <<iml, pa, dest, actual, regionCache, parMemory, mfSame>>

MarkAllocatorFull ==
  /\ MfState("MARK_ALLOCATOR_FULL") /\ portFree
  /\ full' = [full EXCEPT ![mf.attr] = TRUE]
  /\ MfGoto("UNLOCK_FREELIST")
  /\ UNCHANGED <<iml, pa, at, dest, actual, regionCache, top, allocRegion, locked, oldSet,
                 survivorBytes, mfSame>>

UnlockFreeList ==
  /\ MfState("UNLOCK_FREELIST") /\ portFree
  /\ locked' = locked \ {FreeLock}
  /\ MfGoto("IDLE")
  /\ UNCHANGED <<iml, pa, at, dest, actual, regionCache, top, allocRegion, full, oldSet,
                 survivorBytes, mfSame>>

ImlStep == ImlReadTopEnd \/ ImlWriteTop
PaStep  == StartImlAgain \/ ParRead \/ ParWaitIml \/ ParUpdateBot
MfStep  == \/ LoadAllocRegion \/ FirstAlloc \/ StartParAlloc \/ UnlockAllocRegion \/ CheckAllocResult
           \/ LockFreeList \/ StartAttempt \/ MarkAllocatorFull \/ UnlockFreeList

NgAlone == NgStep /\ UNCHANGED parVars
FrAlone == FrStep /\ UNCHANGED <<parVars, ngVars>>

AllocNext == Command \/ MfStep \/ MixedAnswers \/ AtStep \/ PaStep \/ ImlStep \/ NgAlone \/ FrAlone

(* Every machine that can move is clocked: it moves in the end.  That the   *)
(* answers get mixed is not taken for a move.                               *)
AllocFair ==
  /\ WF_allocVars(MfStep) /\ WF_allocVars(AtStep) /\ WF_allocVars(ParRead)
  /\ WF_allocVars(ParWaitIml \/ ParUpdateBot) /\ WF_allocVars(ImlStep)
  /\ WF_allocVars(NgAlone) /\ WF_allocVars(FrAlone)

AllocSpec == ParInit /\ [][AllocNext]_allocVars /\ AllocFair

-----------------------------------------------------------------------------
(* What mainFsm takes for the allocator's region is the one installed in    *)
(* memory: it never allocates in a region retired behind its back.          *)
RegionCacheFresh ==
  \A a \in Attrs :
    /\ regionCache[a].valid => regionCache[a].region = allocRegion[a].region
    /\ (mf.attr = a /\ ~MfState("IDLE") /\ mf.region # NoRegion /\ AtState("IDLE")
        /\ mf.state \in {"FIRST_ALLOC", "WAIT_IML_DONE", "START_PAR_ALLOC", "WAIT_PAR_ALLOC",
                         "UNLOCK_ALLOC_REGION", "CHECK_ALLOC_RESULT", "LOCK_FREELIST", "START_ATTEMPT"})
       => mf.region = allocRegion[a].region

Given     == {JvmOrder[i] : i \in free.first .. Len(JvmOrder)}
OnList    == {JvmOrder[i] : i \in Index}
Current   == {allocRegion[a].region : a \in Attrs} \ {DummyRegion}
Survivors == retired[0] \cup ({allocRegion[0].region} \ {DummyRegion})

(* No region is in two hands.  Between two attempts none is lost: each that  *)
(* the JVM gave on the list is still on it, installed or retired, and has    *)
(* the type, remembered set and attribute of its allocator; the old set      *)
(* counts the retired old regions, the JVM's array has an entry for each     *)
(* survivor, and names them if its data pointer can be read together.        *)
RegionsAccounted ==
  /\ OnList \cap (Current \cup retired[0] \cup retired[1]) = {}
  /\ retired[0] \cap retired[1] = {} /\ Current \cap (retired[0] \cup retired[1]) = {}
  /\ allocRegion[0].region = allocRegion[1].region => allocRegion[0].region = DummyRegion
  /\ AtState("IDLE") =>
       /\ oldSet = Cardinality(retired[1])
       /\ Given = OnList \cup ((Current \cup retired[0] \cup retired[1]) \ {OldRegion})
       /\ survivors.len = Cardinality(Survivors)
       /\ canReadDataPtrTogether => Listed = Survivors
       /\ \A a \in Attrs : \A r \in (retired[a] \cup {allocRegion[a].region}) \ {DummyRegion, OldRegion} :
            /\ regionType[r] = Kind(a)
            /\ remset[r] = (IF a = 0 THEN "complete" ELSE "untracked")
            /\ regionAttr[r] = (IF a = 0 THEN "update" ELSE "skip")

(* GCNewGCAlloc waits for an answer of the JVM that cannot come, or for one *)
(* it has dropped, or the free list's machine is at a null region, or two   *)
(* machines have mixed their answers.                                       *)
AllocStuck ==
  \/ NgAt("SEND_GROW_IRQ")
  \/ NgAt("WAIT_ALLOC_AND_CONFIG") /\ fr.state = "IDLE" /\ ~freeDone.valid
  \/ FrAt("READ_SELECTED_LINK") /\ selectedRegion = NoRegion
  \/ MfState("MIXED_ANSWERS")
=============================================================================
