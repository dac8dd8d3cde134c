------------------------------ MODULE GCTrace ------------------------------
(***************************************************************************)
(* GCTrace goes through the references of an object that was copied: the   *)
(* fields of its oop maps from the last map to the first, each downwards,  *)
(* the static fields of a class mirror, the special fields of a Reference, *)
(* or a range of an object array.  A field that points into the collection *)
(* set becomes a task; one that leaves its region may need a card, and     *)
(* takes the region of a humongous object off the reclaim candidates.      *)
(*                                                                         *)
(* Addresses count elements; a field is known by its offset in the object. *)
(* Fields are read from the old copy through a window of a memory line.  A *)
(* read and its answer are one step: nobody else changes what is read.     *)
(***************************************************************************)
EXTENDS Integers, Sequences

CONSTANTS
  LineElems,          \* elements of a memory line
  TraceJobs,          \* commands: [kind, klass, src, young, start, step, length, ncreate]
  OopMaps,            \* klass -> sequence of [first, count]
  Statics,            \* [first, count] of the static fields of a mirror
  discoveredField, referentField,
  Heap,               \* element address of old copies -> the object pointed to
  NullOop,
  HumongousAt,        \* humongous object -> its region
  CsetOops, OwnOops,  \* objects of the collection set, of the copy's own region
  RegionAttrCacheEntries, HumRegionCacheEntries, KlassCacheEntries,
  MaxTraces           \* bound: commands

VARIABLES
  tr,                 \* state, command and registers of the traversal
  heapWindow,         \* first element of the line held, or NoWindow
  pendingPush,        \* the newest task, kept back
  klassCache, regionAttrCache, humRegionCache,  \* entries in order of entry
  candidates,         \* humongous regions that may be reclaimed
  regionMarked,       \* regions whose attribute was set to "not in the set"
  handed, carded,     \* item -> times it went out for this command
  traces              \* number of commands

traceVars == <<tr, heapWindow, pendingPush, klassCache, regionAttrCache, humRegionCache,
               candidates, regionMarked, handed, carded, traces>>

NoWindow == -1
NoPush == -1
ChunkTask == -2     \* the task that asks for a part of an array
Items == {ChunkTask} \union (0 .. 2 * LineElems)
NoJob == [kind |-> "none"]
Humongous == {HumongousAt[o] : o \in DOMAIN HumongousAt}
RegionOf(o) == IF o \in DOMAIN HumongousAt THEN HumongousAt[o] ELSE o

\* Where the references of an object are, whatever way they are gone through; a
\* Reference has its discovered field looked at twice.
Span(m) == m.first .. m.first + m.count - 1
Fields(j) ==
  IF j.kind \in {"array", "partial"}
  THEN {o \in j.start .. j.step - 1 : o < j.length}
  ELSE (UNION {Span(OopMaps[j.klass][k]) : k \in DOMAIN OopMaps[j.klass]})
       \union (IF j.kind = "mirror" THEN Span(Statics) ELSE {})
       \union (IF j.kind = "ref" THEN {discoveredField, referentField} ELSE {})
Times(j, o) == IF j.kind = "ref" /\ o = discoveredField THEN 2 ELSE 1
Target(j, o) == Heap[j.src + o]
ChunkTasks(j) ==
  CASE j.kind = "partial" -> j.ncreate
    [] j.kind = "array" /\ j.length > j.step -> 1
    [] OTHER -> 0

\* The layout of a klass names each field once.  An object is null, in the
\* collection set, humongous or neither; no copy is made into a humongous region.
ASSUME LayoutAssumption ==
  /\ LineElems \in Nat \ {0}
  /\ RegionAttrCacheEntries \in Nat \ {0} /\ HumRegionCacheEntries \in Nat \ {0}
  /\ KlassCacheEntries \in Nat \ {0}
  /\ Statics \in [first : Nat, count : Nat]
  /\ discoveredField \in Nat /\ referentField \in Nat /\ discoveredField # referentField
  /\ \A k \in DOMAIN OopMaps :
       /\ OopMaps[k] \in Seq([first : Nat, count : Nat])
       /\ \A m, n \in DOMAIN OopMaps[k] : m # n => Span(OopMaps[k][m]) \cap Span(OopMaps[k][n]) = {}
  /\ \A j \in TraceJobs :
       /\ j \in [kind : {"instance", "mirror", "ref", "array", "partial"}, klass : DOMAIN OopMaps,
                 src : Int, young : BOOLEAN, start : Nat, step : Nat, length : Nat, ncreate : Nat]
       /\ Fields(j) \subseteq Items
       /\ \A k \in DOMAIN OopMaps[j.klass] : LET m == Span(OopMaps[j.klass][k]) IN
            /\ j.kind = "mirror" => m \cap Span(Statics) = {}
            /\ j.kind = "ref" => discoveredField \notin m /\ referentField \notin m
  /\ NullOop \notin CsetOops /\ CsetOops \cap Humongous = {}
  /\ DOMAIN HumongousAt \cap (CsetOops \union OwnOops \union {NullOop}) = {}

TraceInit ==
  /\ tr = [pc |-> "IDLE", job |-> NoJob, p |-> 0, q |-> 0, remain |-> 0, off |-> 0,
           raw |-> NullOop, attr |-> "none", resume |-> "Forward", ref |-> 0, map |-> 0, created |-> 0]
  /\ heapWindow = NoWindow /\ pendingPush = NoPush
  /\ klassCache = <<>> /\ regionAttrCache = <<>> /\ humRegionCache = <<>>
  /\ candidates = Humongous /\ regionMarked = {}
  /\ handed = [i \in Items |-> 0] /\ carded = handed /\ traces = 0

-----------------------------------------------------------------------------
TrAt(s) == tr.pc = s
TrGoto(s) == tr' = [tr EXCEPT !.pc = s]
ResumeState(resume) ==
  CASE resume = "Forward"  -> "SCAN_FORWARD"
    [] resume = "Backward" -> "SCAN_BACKWARD"
    [] OTHER               -> "POST_INSTANCE_SCAN"
resumeTraversal == TrGoto(ResumeState(tr.resume))

cacheVars == <<klassCache, regionAttrCache, humRegionCache>>
regionVars == <<candidates, regionMarked>>
sentVars == <<handed, carded>>

\* A round robin cache: the entry written longest ago makes room.
Cached(cache, entry, entries) ==
  IF Len(cache) < entries THEN Append(cache, entry) ELSE Append(Tail(cache), entry)
Holds(cache, entry) == \E i \in DOMAIN cache : cache[i] = entry

\* Mutant: the task kept before is overwritten.
enqueueTaskOver(task) == pendingPush' = task /\ UNCHANGED handed

\* The new task is kept, the one kept before goes to GCTaskStack, which may not
\* be ready.
enqueueTask(task) ==
  /\ pendingPush' = task
  /\ handed' = IF pendingPush = NoPush THEN handed
               ELSE [handed EXCEPT ![pendingPush] = @ + 1]

-----------------------------------------------------------------------------
AcceptTrace(j) ==
  /\ TrAt("IDLE") /\ traces < MaxTraces /\ traces' = traces + 1
  /\ tr' = [tr EXCEPT !.pc = "DISPATCH", !.job = j, !.remain = 0, !.ref = 0, !.created = 0]
  /\ heapWindow' = NoWindow
  /\ handed' = [i \in Items |-> 0] /\ carded' = [i \in Items |-> 0]
  /\ UNCHANGED <<pendingPush, cacheVars, regionVars>>

IsArray == tr.job.kind \in {"array", "partial"}

\* An array has its progress written to its length; a klass its layout read.
TrDispatch ==
  /\ TrAt("DISPATCH")
  /\ IF IsArray THEN TrGoto("PREPARE_ARRAY")
     ELSE IF Holds(klassCache, tr.job.klass)
     THEN tr' = [tr EXCEPT !.pc = "SCAN_OOP_MAP", !.map = Len(OopMaps[tr.job.klass])]
     ELSE TrGoto("READ_KLASS_LAYOUT")
  /\ UNCHANGED <<heapWindow, pendingPush, cacheVars, regionVars, sentVars, traces>>

ReadKlassLayout ==
  /\ TrAt("READ_KLASS_LAYOUT")
  /\ tr' = [tr EXCEPT !.pc = "SCAN_OOP_MAP", !.map = Len(OopMaps[tr.job.klass])]
  /\ klassCache' = Cached(klassCache, tr.job.klass, KlassCacheEntries)
  /\ UNCHANGED <<heapWindow, pendingPush, regionAttrCache, humRegionCache, regionVars, sentVars,
                 traces>>

needCreateTask ==
  IF tr.job.kind = "partial" THEN tr.created < tr.job.ncreate ELSE tr.job.length > tr.job.step

\* The range is cut to the array; tasks for further parts are made first, one
\* for an array, ncreate for a part of it.
PrepareArray ==
  /\ TrAt("PREPARE_ARRAY")
  /\ LET low  == tr.job.start
         high == IF tr.job.length > tr.job.step THEN tr.job.step ELSE tr.job.length
         stay == needCreateTask /\ tr.job.kind = "partial"
     IN  tr' = [tr EXCEPT !.p = low, !.q = high, !.remain = high - low,
                  !.created = IF stay THEN @ + 1 ELSE @,
                  !.pc = IF stay THEN @ ELSE "SCAN_FORWARD"]
  /\ IF needCreateTask THEN enqueueTask(ChunkTask) ELSE UNCHANGED <<pendingPush, handed>>
  /\ UNCHANGED <<heapWindow, cacheVars, regionVars, carded, traces>>

ScanOopMap ==
  /\ TrAt("SCAN_OOP_MAP")
  /\ IF tr.map = 0
     THEN tr' = [tr EXCEPT !.pc = "POST_INSTANCE_SCAN", !.ref = 0]
     ELSE LET m == OopMaps[tr.job.klass][tr.map] IN
          tr' = [tr EXCEPT !.pc = "SCAN_BACKWARD", !.map = @ - 1, !.p = m.first,
                           !.q = m.first + m.count, !.remain = m.count]
  /\ UNCHANGED <<heapWindow, pendingPush, cacheVars, regionVars, sentVars, traces>>

PostInstanceScan ==
  /\ TrAt("POST_INSTANCE_SCAN")
  /\ tr' = CASE tr.job.kind = "mirror" ->
                  [tr EXCEPT !.pc = "SCAN_FORWARD", !.p = Statics.first,
                             !.q = Statics.first + Statics.count, !.remain = Statics.count]
             [] tr.job.kind = "ref" /\ tr.ref # 3 ->
                  [tr EXCEPT !.pc = "READ_OOP", !.resume = "ReferenceFields", !.ref = @ + 1,
                     !.remain = 1, !.off = IF tr.ref = 1 THEN referentField ELSE discoveredField]
             [] tr.job.kind = "ref" /\ tr.ref = 3 -> [tr EXCEPT !.pc = "FINISH", !.ref = 0]
             [] OTHER -> [tr EXCEPT !.pc = "FINISH"]
  /\ UNCHANGED <<heapWindow, pendingPush, cacheVars, regionVars, sentVars, traces>>

ScanForward ==
  /\ TrAt("SCAN_FORWARD")
  /\ IF tr.p < tr.q
     THEN /\ tr' = [tr EXCEPT !.pc = "READ_OOP", !.resume = "Forward", !.off = tr.p, !.p = @ + 1]
          /\ UNCHANGED heapWindow
     ELSE TrGoto("FINISH") /\ heapWindow' = NoWindow
  /\ UNCHANGED <<pendingPush, cacheVars, regionVars, sentVars, traces>>

ScanBackward ==
  /\ TrAt("SCAN_BACKWARD")
  /\ IF tr.p < tr.q
     THEN /\ tr' = [tr EXCEPT !.pc = "READ_OOP", !.resume = "Backward", !.off = tr.q - 1,
                              !.q = @ - 1]
          /\ UNCHANGED heapWindow
     ELSE TrGoto("SCAN_OOP_MAP") /\ heapWindow' = NoWindow
  /\ UNCHANGED <<pendingPush, cacheVars, regionVars, sentVars, traces>>

-----------------------------------------------------------------------------
(* One field. *)

src == tr.job.src + tr.off
Backward == tr.resume = "Backward"
alignedBase == src - (src % LineElems)
alignedCoverage == IF Backward THEN (src % LineElems) + 1 ELSE LineElems - (src % LineElems)
shiftedBase == IF Backward THEN src - (LineElems - 1) ELSE src
windowHit == heapWindow # NoWindow /\ src \in heapWindow .. heapWindow + LineElems - 1

ReadOop ==
  /\ TrAt("READ_OOP")
  /\ heapWindow' = IF windowHit \/ tr.remain = 1 THEN heapWindow
                   ELSE IF tr.remain <= alignedCoverage THEN alignedBase ELSE shiftedBase
  /\ tr' = [tr EXCEPT !.pc = "CHECK_OOP", !.remain = @ - 1,
              !.raw = IF windowHit \/ tr.remain # 1
                      THEN Heap[heapWindow' + ((src - heapWindow') % LineElems)] ELSE Heap[src]]
  /\ UNCHANGED <<pendingPush, cacheVars, regionVars, sentVars, traces>>

AttrInMemory(o) ==
  CASE o \in CsetOops -> "cset"
    [] RegionOf(o) \in Humongous \ regionMarked -> "humongous"
    [] OTHER -> "other"
crossesRegion == tr.raw \notin OwnOops

\* processRegion, on an attribute from the cache or from memory.
Decide(attr, then) ==
  CASE attr = "cset" ->
         /\ enqueueTask(tr.off) /\ UNCHANGED carded
         /\ tr' = [then EXCEPT !.pc = ResumeState(tr.resume)]
    [] attr # "cset" /\ crossesRegion ->
         /\ tr' = [then EXCEPT !.pc = IF attr = "humongous" THEN "CHECK_HUMONGOUS" ELSE "SEND_AOP"]
         /\ UNCHANGED <<pendingPush, sentVars>>
    [] OTHER ->
         tr' = [then EXCEPT !.pc = ResumeState(tr.resume)] /\ UNCHANGED <<pendingPush, sentVars>>

AttrHits == {i \in DOMAIN regionAttrCache : regionAttrCache[i].region = RegionOf(tr.raw)}

CheckOop ==
  /\ TrAt("CHECK_OOP")
  /\ CASE tr.raw = NullOop -> resumeTraversal /\ UNCHANGED <<pendingPush, regionAttrCache, sentVars>>
       [] tr.raw # NullOop /\ AttrHits # {} ->
            /\ LET attr == regionAttrCache[CHOOSE i \in AttrHits : TRUE].attr IN
               Decide(attr, [tr EXCEPT !.attr = attr])
            /\ UNCHANGED regionAttrCache
       [] OTHER ->
            /\ tr' = [tr EXCEPT !.pc = "DECIDE_REGION", !.attr = AttrInMemory(tr.raw)]
            /\ regionAttrCache' =
                 Cached(regionAttrCache, [region |-> RegionOf(tr.raw), attr |-> AttrInMemory(tr.raw)],
                        RegionAttrCacheEntries)
            /\ UNCHANGED <<pendingPush, sentVars>>
  /\ UNCHANGED <<heapWindow, klassCache, humRegionCache, regionVars, traces>>

DecideRegion ==
  /\ TrAt("DECIDE_REGION") /\ Decide(tr.attr, tr)
  /\ UNCHANGED <<heapWindow, cacheVars, regionVars, traces>>

CheckHumongous ==
  /\ TrAt("CHECK_HUMONGOUS")
  /\ LET r == RegionOf(tr.raw) IN
     IF Holds(humRegionCache, r) THEN TrGoto("SEND_AOP") /\ UNCHANGED humRegionCache
     ELSE /\ humRegionCache' = Cached(humRegionCache, r, HumRegionCacheEntries)
          /\ TrGoto(IF r \in candidates THEN "CLEAR_HUM_CANDIDATE" ELSE "SEND_AOP")
  /\ UNCHANGED <<heapWindow, pendingPush, klassCache, regionAttrCache, regionVars, sentVars, traces>>

ClearHumCandidate ==
  /\ TrAt("CLEAR_HUM_CANDIDATE") /\ TrGoto("MARK_HUM_REGION")
  /\ candidates' = candidates \ {RegionOf(tr.raw)}
  /\ UNCHANGED <<heapWindow, pendingPush, cacheVars, regionMarked, sentVars, traces>>

MarkHumRegion ==
  /\ TrAt("MARK_HUM_REGION") /\ TrGoto("SEND_AOP")
  /\ regionMarked' = regionMarked \union {RegionOf(tr.raw)}
  /\ UNCHANGED <<heapWindow, pendingPush, cacheVars, candidates, sentVars, traces>>

SendAop ==
  /\ TrAt("SEND_AOP") /\ resumeTraversal
  /\ carded' = IF tr.job.young THEN carded ELSE [carded EXCEPT ![tr.off] = @ + 1]
  /\ UNCHANGED <<heapWindow, pendingPush, cacheVars, regionVars, handed, traces>>

\* The last task goes straight to GCFetch.
TrFinish ==
  /\ TrAt("FINISH") /\ TrGoto("IDLE")
  /\ pendingPush' = NoPush
  /\ handed' = IF pendingPush = NoPush THEN handed ELSE [handed EXCEPT ![pendingPush] = @ + 1]
  /\ UNCHANGED <<heapWindow, cacheVars, regionVars, carded, traces>>

TrMachine ==
  \/ TrDispatch \/ ReadKlassLayout \/ PrepareArray \/ ScanOopMap \/ PostInstanceScan
  \/ ScanForward \/ ScanBackward \/ ReadOop \/ CheckOop \/ DecideRegion
  \/ CheckHumongous \/ ClearHumCandidate \/ MarkHumRegion \/ SendAop \/ TrFinish

TraceNext == TrMachine \/ \E j \in TraceJobs : AcceptTrace(j)

TraceSpec == TraceInit /\ [][TraceNext]_traceVars /\ WF_traceVars(TrMachine)

-----------------------------------------------------------------------------
\* When an object is done every reference in it was settled: each one into the
\* collection set is out as a task, none is still kept back, each one that
\* needs a card was sent to GCAop, no humongous region one points to can be
\* reclaimed, whatever the caches hold of it; and nothing else went out.
FieldsSettled ==
  TrAt("IDLE") /\ tr.job # NoJob =>
    LET j == tr.job
        Pointing(S) == {o \in Fields(j) : Target(j, o) \in S}
        leaving == {o \in Fields(j) : Target(j, o) \notin CsetOops \union OwnOops \union {NullOop}}
    IN
    /\ pendingPush = NoPush
    /\ handed = [i \in Items |-> IF i = ChunkTask THEN ChunkTasks(j)
                                 ELSE IF i \in Pointing(CsetOops) THEN Times(j, i) ELSE 0]
    /\ carded = [i \in Items |-> IF i \in leaving /\ ~j.young THEN Times(j, i) ELSE 0]
    /\ \A o \in Pointing(DOMAIN HumongousAt) : HumongousAt[Target(j, o)] \in regionMarked \ candidates
=============================================================================
