# Verification of the JVM GC accelerator

The repository holds a hardware unit (SpinalHDL, `src/hwgc_spinal/hw/spinal/hwgc_acc`)
that does the evacuation phase of a G1 young collection for the JVM: it takes the
references the JVM left in its task queue, copies the objects they refer to into
survivor or old regions, corrects the references and marks cards. Around it there are
Linux drivers for a QEMU model of the device (`src/loongnix/qemu_dev/hwgc_driver`),
generated tests and scripts.

This directory holds TLA+ models of the unit, TLC runs and TLAPS proofs.
`PROJECT.json` lists components, runs, mutants (a plausible bug per property that the
property must catch), the source lines of every definition, hazards, findings, theorems.

Run a model with `tlc -config X.cfg M` and a proof with `tlapm M_proofs.tla`.

## 1. Inventory

| component | state it keeps | operations | hard behaviour | correct when |
|---|---|---|---|---|
| **GCTaskStack** | ring of 64 tasks, TopCache, refill stage, push-follow counters, JVM queue bounds, SpillOut and ReadBack requests | push, pop, PrePop, TopCache refill, spill a line, read a line back, configure, finish | the memory path works on copied bounds while push and pop go on; a refill arrives one cycle late; Pop waits for a push-follow batch | a LIFO stack, whatever is kept where; Pop is never blocked for ever |
| **GCLocalMMU** | round-robin pointer, source-ID table | grant a port, route an answer | out-of-order answers, reused IDs, fairness | an answer reaches who asked; nobody starves |
| **GCUnalignedMMUAdapter** (one per unit) | request being split, IDs of two beats, IDs to drop, buffered answer | split, send, match, drop, reassemble, buffer | halves answered in any order, answers nobody waits for, answers while the unit is not ready | a unit gets the lines of its own access; the shared channel is never blocked |
| **GCFetch** | 16-entry prefetch ring, three state machines (main, push, pre), forwarding cache | pop, prefetch, take the last task of a burst, read mark words, remember announcements, hand over | batches overlap; main waits for an entry; announcements come while reads are out | every task handed over once, with a mark word no older than what was announced |
| **GCOopProcess** | two slots, region attribute and heap region caches, release of GCFetch | look up, copy or use the mark word, write the field, hand to GCAop | a second task while the first is at work; answers and broadcasts in any order | each field points to the object's copy, cards are marked, each object is copied once |
| **GCOopCopy2Survivor** | two slots, two cached allocation buffers with locks, events | allocate, install the forwarding pointer, copy, trace, done | two slots on one buffer, refill against replacement, lost locks | no word given out twice, no deadlock, Done only after the announcement |
| **GCArrayProcess** | one array task | split a partial array into chunks | boundary arithmetic | chunks cover the array |
| **GCTrace** | klass and attribute caches, push buffer | walk the fields of a copy, push tasks | push buffer against task stack | every field pushed once |
| **GCCopy** | read stream, realignment, write-combining buffer | copy words | misaligned bursts | destination equals source |
| **GCAllocate, GCParAllocate, GCNewGCAlloc, GCAllocFreeRegion** | region tops, free list | bump, new region, take a region from the free list | compare-and-swap, list removal, interrupts to the host | distinct regions and words |
| **GCAop** | dirty card queue | add a card, replace the node | node full, write back at the end | every crossing field's card is queued |
| **GCAccTop, GCTop** | configuration registers, Done | start, report the end | Done against write-back | Done only when all is in memory |
| **HWGC drivers** (platform and PCI) | operation owner, pinned pages, pending event | START, WAIT_EVENT, REPLY_EVENT, interrupt, remove | ioctls, interrupt thread and removal interleave | one operation at a time, each event delivered once, pages pinned while the device runs |
| **XOR driver** | operation lock, pinned pages, completion | one ioctl runs an operation, interrupt thread, remove | timeout or signal against the interrupt thread; late interrupts | success means this very operation; nothing held afterwards |
| **EDU driver** | completion, result | ioctl, interrupt | calls overlap, a late interrupt completes the next call | a call gets its own result (it does not always: finding 7) |
| probe, module load (all drivers) | what was taken so far | each step may fail | undoing exactly what was done | nothing held when unbound, nothing missing when bound |
| user programs, recorded heaps, scripts | none | | | |

How they interact:

```
 JVM queue <-> GCTaskStack --task/prefetch--> GCFetch --task+mark--> GCOopProcess --field--> GCAop
                   ^                             |                    |   ^
                   | push                        +--> GCArrayProcess  |   | typeArray, writeForward, done
                   |                                                  v   |
                GCTrace <------ copy is placed ------------- GCOopCopy2Survivor --> GCCopy
                                                                  |
                                                                  +--> GCAllocate --> ...
 every unit --> its GCUnalignedMMUAdapter --> GCLocalMMU --> cache
```

Units talk by valid/ready handshakes. Three signals are broadcast or come early:
`writeForward` (the forwarding pointer just installed, seen by GCFetch and both slots of
GCOopProcess), `typeArray` (the object has no references, let GCFetch go on) and `Done`
of GCOopProcess (GCFetch may hand over the next task).
All units read memory with the helper `issueReq` of `GCTopParameters.scala`: a state
raises its request until accepted, remembers that in `issued`, and takes the next answer.

`PROJECT.json` "hazards" lists what in this code is hard to test, at its line.

## 2. Modules

| module | models | proofs |
|---|---|---|
| `TaskStackSpec` | what the task stack promises: one LIFO stack, left only when empty | |
| `GCTaskStack` | `GCTaskStack.scala`, cycle by cycle | `GCTaskStack_proofs` |
| `GCLocalMMU` | `GCLocalMMU.scala` | `GCLocalMMU_proofs` |
| `GCUnalignedMMUAdapter` | `GCUnalignedMMUAdapter.scala` | `GCMemory_proofs` |
| `GCMemory` | a unit's memory path: the adapter wired to a port of GCLocalMMU | `GCMemory_proofs` |
| `SurvivorSpec` | what GCOopCopy2Survivor promises to GCOopProcess | |
| `GCOopProcess` | `GCOopProcess.scala`, beside `SurvivorSpec` | `GCOopProcess_proofs` |
| `GCOopCopy2Survivor` | `GCOopCopy2Survivor.scala`, implementing `SurvivorSpec` | `GCOopCopy2Survivor_proofs` |
| `GCFetch` | `GCFetch.scala`, beside the PrePop side of the stack, GCTrace and the units | `GCFetch_proofs` |
| `GCCopy` | `GCCopy.scala`, cycle by cycle | `GCOopCopy2Survivor_proofs` |
| `GCTrace` | `GCTrace.scala` | `GCMemory_proofs` |
| `GCArrayProcess` | `GCArrayProcess.scala`, and what GCTrace does of an array's parts | `GCMemory_proofs` |
| `GCAllocFreeRegion` | `GCAllocFreeRegion.scala` | `Allocation_proofs` |
| `GCNewGCAlloc` | `GCNewGCAlloc.scala`; EXTENDS GCAllocFreeRegion, which it commands | `Allocation_proofs` |
| `GCParAllocate` | `GCParAllocate.scala`; EXTENDS GCNewGCAlloc, which it commands | `Allocation_proofs` |
| `GCAllocate` | `GCAllocate.scala`, beside the promise of GCParAllocate | `Allocation_proofs` |
| `GCAop` | `GCAop.scala`, with the Done condition of `GCAccTop.scala` | `Allocation_proofs` |
| `HWGCDriver` | `hwgc_driver_platform.c`, with its callers and the device | `Drivers_proofs` |
| `HWGCDriverPci` | `hwgc_driver_pci.c`, function by function in terms of HWGCDriver | `Drivers_proofs` |
| `XorTlbDriver` | `xor_tlbdev_drv.c`; EXTENDS HWGCDriver for what they share | `Drivers_proofs` |
| `EduDriver` | `edu_driver.c` | `Drivers_proofs` |
| `DriverBinding` | probe and remove of the four drivers | `Drivers_proofs` |
| `HWGCModule` | module load and unload of the platform driver | `Drivers_proofs` |
| `MCTaskStack`, `MCFetch`, `MCFetchBursts`, `MCOopProcess`, `MCOopCopy2Survivor`, `MCRegions` | values of the constants for TLC | |
| `MCStackOop`, `MCFollowSurvivor`, `MCMemory`, `MCServices`, `MCDrivers` | one run each for several units | `Drivers_proofs` for the composition of the drivers |

**GCTaskStack.** A step is one clock cycle, because the hazards of this unit lie in
what happens in the same cycle: the fast path (`PushOnly`, `PushAndPop`, `PopOnly`,
`PrePop`, `NoMove`, each with its TopCache shift and the capture of the refill) together
with one step of the memory path (`MemoryPath`: SpillOut, ReadBack or neither).
`Work` is a cycle of the WORK state, `Finish` the exhausted stack, `Configure` the start
of a job. Variables carry the names of the registers; `refill` groups the pipeline
registers, `spill` and `read` the buffered request and the answer under way. `MayPop`,
`CountPush` and the counters in `env` bound the environment. TopCache is a function from
offset to entry, its valid entries only.

**GCLocalMMU.** One step grants a port and one routes an answer. `BoundedWait` counts the
grants others get while a port waits in the history variable `skipped`.

**GCUnalignedMMUAdapter.** One step per handshake. Lines of an access and source IDs are
the data; shifts and byte masks are represented by which line an answer holds.

**GCMemory.** The adapter is port 0 of `INSTANCE GCLocalMMU`; a beat of the adapter is a
request of port 0 and its answers are those the routing table sends there. `outstanding` of
GCLocalMMU is a state function of both, so the composition has no copy of it. What the
adapter's module assumes about its memory is here what the arbiter does.

**GCOopProcess.** A step is what one slot or one neighbour does in a cycle. Slots share only
the caches, `Done` towards GCFetch, and the channels to their neighbours, where slot 0 goes
first (`SendCopy`, `SendAop`); a cycle in which both slots move has the effect of the two
steps in a row. `asked` holds the reads the memory has yet to answer for a slot, `issued`
is the register its states share. A copy is named by the task it was made for.
GCOopCopy2Survivor is `INSTANCE SurvivorSpec`: the two modules compose by assumption and
guarantee, this one checked beside the abstract neighbour, `GCOopCopy2Survivor` shown to
implement it (`ImplementsSurvivor`).

**GCOopCopy2Survivor.** As above: a step of a slot, of an event register, or of a unit
below (GCAllocate, GCCopy, GCTrace come to an end). Addresses are words of the destination
space, so that overlap is visible. GCAllocate may answer with a fresh buffer, a place
outside a buffer, or no place.

**GCFetch.** A step is what one of the three state machines, or a neighbour, does in a cycle.
`fsm` holds their states, `main_data`, `push_data` and the ring slot `buf_work` what they
work on (`Context`), so that the reading states, written three times in the code, are one
action each (`ReadOop`, `AsksMark`). The emptying of the forwarding cache belongs to every step
(`Tidy`), the patches to `Announce`. A mark word is reduced to whether it is a forwarding pointer;
the memory answers with any value since the request (`MarkRead`). The stack is a sequence with
PrePop marks and the push-follow counters of `GCTaskStack`, which is what the TopCache
looks like from outside by `TopCacheCoherent` and `PushFollowServable`. `work` and `trace` follow the unit
that has the task and the tasks GCTrace queues for it. The counters on both sides of the PrePop port
are separate variables, since each unit keeps its own. Two branches cannot be taken beside
these neighbours and have no action: push handing a task to an idle main at once (GCTrace
runs while main waits for Done), and `targetDoneSeen` (Done comes after the cycle of the hand-over).

**GCCopy.** A step is a clock cycle (`CopyCycle`): reader, reorder buffer,
cutting at destination lines, write-combining entries and writer all move together. A byte
is known by the address it was read from, so an entry is a function from destination to source addresses,
its domain the byte mask, and `CopyExact` compares functions. GCFetch looks up bytes of the
destination in any cycle; `ForwardSound` speaks of what it is told. `CopyAssertions` are the
assertions of the source itself.

**GCTrace.** One step per state; a read and its answer are one step, since nobody else
changes what is read. A field is known by its offset, the heap by what each element refers
to, a klass by its oop maps. The three caches and the field window are kept with their sizes.

**GCArrayProcess.** The states with the arithmetic of `CALC_STEP`; the tasks of the one
array are counted in `queue`, the progress is the length in the new header, as in the code.

**The allocation path.** `GCAllocFreeRegion`, `GCNewGCAlloc` and `GCParAllocate` are one
specification, since they share memory and talk by pulses that a busy machine ignores; four of the
five state machines of the last run beside each other. Done pulses are latched
(`newDone`, `freeDone`, `parSeen`, `imlSeen`) where the source latches them, with the cycle in which they
are cleared. A region is a few words, its top the first free one. `GCAllocate` is modelled beside what it is
promised from below: words nobody has, no fewer than the least and no more than the desired number.

**GCAop.** A step per state. The JVM's queue is its buffer, index and list of full
buffers; `CardSourcesDone` is the falling source of cards (`NoAopSrc`), `NextJob` a new job.

**HWGCDriver.** Actors are the threads that have the device open, the interrupt handler
(`IrqTop`, `IrqClear` are the hard part, `IrqThread` to `IrqReturn` the thread), the removal
and the device. A section under `event_lock` or `irq_lock` is one step, since spinlocks make
it one; `op_lock` is a mutex held over several steps and is a variable, as is each position
between a section and the next write of the command register. `current_event`,
`event_pending`, `event_in_service` are the fields of that name; `active` stands for
`active_task` and `active_mm`; `refs` counts the references taken, the list of which is
`pinned`. `dev` shows the device through its registers: the request it waits with, its
pending bits, the pages it was told of. The handlers of the PCI driver were read beside those of
the platform driver and found to do the same; `HWGCDriverPci` therefore takes the same steps,
grouped by the functions of that file. That the two C files agree is the result of
that reading; no theorem shows it.

**XorTlbDriver, EduDriver, DriverBinding, HWGCModule.** The XOR driver is the ancestor of
HWGCDriver and uses its variables for locks, pages, interrupt bits and device; its ioctl
sleeps on a completion that the interrupt thread, a signal or the time ends. The EDU driver
has no lock at all; `beside` says of each call whether an interrupt of an earlier one was on its way when it
began, or another call overlapped it. Binding is a list of steps per driver (`Probe`, and the labels a failure
jumps to, which fall through), loading the module a loop over the devices, and so is its exit, which also
unregisters GSI 0 for devices that were not loaded (`gsi0`).

**MCStackOop, MCFollowSurvivor, MCMemory, MCServices, MCDrivers.** The units of each share no variable in these
models, so a variable (`unit`, `about`, `service`, `card`) chosen in the initial state says which one a
behaviour is about and the others rest: the state spaces are added, not multiplied. Where
one unit relies on another the reliance is a promise that is checked on the other side: GCCopy takes from the
memory path what `AnswersWelcome` and `AnswerAssembled` show, an allocation what GCParAllocate's properties show.

What the models take as given:

- `PROJECT.json` "map" names the lines of each definition; age, klass, region attributes
  and copied data are left out where no property depends on them.
- GCTaskStack: no task is pushed in the cycle in which the stack is exhausted and GCFetch raises
  `Pop.ready` (`Finish`; the code would lose it, line 557). GCTrace pushes only for the task main has handed
  over, main waits for its Done meanwhile, and raises `Pop.ready` in IDLE only, with no push under way.
- GCTaskStack: the JVM queue does not overflow (`MaxJvm + MaxPush < QueueSize`); between
  two cycles of the memory path GCFetch completes a bounded number of pops (`MaxPops`),
  which is what the margin between the thresholds and the ring size is for: `SpillMargin`
  and the last two assumptions of `ConstAssumption` make the needed margin explicit.
- GCOopProcess and GCOopCopy2Survivor go on with a cached value while their own read is
  out (finding `AnswerToCaller`). GCOopProcess follows such a slot, marks the behaviour
  `overtaken` and claims `FieldsAgree`, `CardsMarked`, `EveryTaskSettled` (`TasksSettled` in the run) without it;
  GCOopCopy2Survivor parks the slot in `ASTRAY`.
- GCOopProcess: the mark word that comes with a task (`AcceptTask`) is the one in the heap at that moment. This is
  `DispatchFresh` of GCFetch, which holds while its forwarding cache keeps what was announced (`StaysFresh`)
  and fails in the case of finding 6; `CopiedOnce`, `FieldsAgree` and `CardsMarked` say what GCOopProcess does with
  the tasks it is given, not that no object is ever copied twice.
- GCOopCopy2Survivor: the two buffer structures are distinct, old regions always have room
  (`NoPlace` is an answer for the young buffer only), GCOopProcess sends a second
  object only beside an announced type array, which is what `FetchHeldByOne` and `CopyState`
  establish on the other side. The states after a failed compare-and-swap are not
  modelled: the comparison reads `expected === expected` (line 437) and cannot fail.
- GCCopy: sizes below 2^32 (the width of its counters). The epoch by which a look-up's position is known to
  be of this copy wraps after 2^16 copies (`EpochValues`); `ForwardSound` is about positions worked out
  fewer copies ago than that, which is as long as GCFetch may keep a task unread.
- GCArrayProcess: `task_limit = task_fanout`, as in every recorded configuration
  (`test_44.c:17` writes 4294967297, that is 1 and 1; `0_64_1_78.c:131` writes 8589934594, 2 and 2). CALC_STEP
  uses the fan-out where the JDK uses the limit, so `ChunksOnce` is not claimed for other settings.
- GCTrace: a Reference's `discovered` field is looked at twice, by the special case and by
  the oop map, as in the JDK; `FieldsSettled` allows for it.
- GCAllocate relies on a promise that GCParAllocate does not always keep: after a stale done pulse
  (hazard at `GCParAllocate.scala:429`) an answer may be null although there was room, or
  the chunk of an earlier command. `GCParAllocate` follows these pulses and claims what survives them.
- GCParAllocate: mainFsm and parAllocateIml share a port that nobody arbitrates. They use it together only after a
  stale pulse; the model follows the case that mainFsm's request comes when the port is free, and otherwise stops at
  `MixedAnswers`. As long as parAllocateIml rests nobody writes `destObjPtr` while CHECK_ALLOC_RESULT reads, which
  is why that state is one step.
- GCNewGCAlloc: the array of survivors lies where the JVM put it, with its data pointer in the line of its length or in
  the next (`split`). The two ways on at line 248 are exchanged against the name of the condition of line 239, and
  `ReadGrowArray` follows them as they are: a pointer that was read with the length is read once more; one that was not is
  taken from the part of the answer that was not asked for, the length is raised and the item is
  written to an address near 0, which changes nothing that is modelled. The second case takes an array object at 24
  modulo 32; no text of the repository says where the JVM puts it, and an array aligned to 16 bytes never lies
  there. `RegionsAccounted` says what holds in either case.
- GCAop: the JVM looks at the queue only after the write-back.
- HWGCDriver: the device raises one request at a time and waits for CONTINUE (it has one set of
  IRQ_PAR and IRQ_RES registers, comment at `hwgc_driver_pci.c:158-161`), and RESET withdraws
  what it had raised. A thread replies to an event before it waits again; it may send the
  reply again at any later time. Threads that are in an ioctl when the removal frees the
  driver's memory, and a starter that dies (there is no release operation, so the operation
  stays active), are not followed; neither is a call of the XOR driver from that point on.
- EduDriver: the device computes one number at a time and ignores writes meanwhile.
- GCFetch: the broadcast is a step of its own, before or after that of a state machine; that a patch
  wins over the assignment of the same cycle is what the comment at line 993 says of the
  order in the source. Klass words are right; what GCCopy forwards to a read is right by `ForwardSound`.
- One collection is modelled (GCTaskStack and GCAop start a second job); what is cached
  across collections is a hazard without a property.

## 3. Runs

| run | instance | checks | shows |
|---|---|---|---|
| `StackOop`, stack | ring 8, spill at 7, TopCache 2, 7 pushes | `SpillIntact`, `ReadFresh`, `RefinesTaskStack` | spilling, reading back, wrap of the ring, still one LIFO stack |
| `StackOop`, oop | 5 tasks: two on a plain object, two on a type array, one outside the collected regions; 3 regions, one humongous; caches of 2 entries | `FetchHeldByOne`, `FieldsAgree`, `CardsMarked`, `CopiedOnce`, `TasksSettled` | every pair of paths in the two slots, including two tasks on one object and cache eviction |
| `FollowSurvivor`, stack | ring 12, spill at 10, TopCache 4, window 2, 2 queued, 3 pushes, 2 jobs | `TopCacheCoherent`, `PushFollowServable`, `JobEnds` | the cache mirrors the ring through all same-cycle combinations; batches are served; a second job starts clean; a job ends, unless ReadBack is stuck |
| `TaskStackStuck` | 1 queued, 3 pushes | `ReadBackServed` (violated) | finding 1 |
| `Memory`, path | 2 ports, 2 source IDs, 2 accesses | `AnswersWelcome`, `AnswerAssembled`, `BoundedWait`, `PathWorkEnds` | both halves, a dropped write answer and IDs that pass from port to port, all in flight together |
| `Memory`, copy | 2 copies of 5 bytes and an empty one, lines of 2, 4 beats in the reorder buffer, 2 write-combining entries | `CopyExact`, `ForwardSound`, `CopyAssertions`, `PathWorkEnds` | every alignment of source and destination, answers in any order, entries exhausted |
| `Memory`, trace | lines of 4 elements, caches of 2, 1 and 1 entries, 2 commands; instance, mirror, Reference, array, part | `FieldsSettled`, `PathWorkEnds` | window and caches missed, hit and replaced; every start in a line |
| `Memory`, chunks | arrays up to 14, chunks of 2, at most 2 tasks | `ChunksOnce`, `PathWorkEnds` | a part that is the last, parts in flight together, lengths next to a multiple |
| `OopAnswer` | the tasks of `StackOop` | `AnswerToCaller` (violated) | finding 2 |
| `OopForward` | the two type array tasks | `ForwardOnce` (violated) | finding 3 |
| `FollowSurvivor`, survivor | 2 objects of 1 or 3 words, buffers of 4 words, 11 words of heap, the young buffer half used, the old one empty | `NoOverlap`, `ImplementsSurvivor`, `EveryObjectDone` | both slots in direct bump, refill, replacement and overflow into old, in every order |
| `Services`, fetch | ring of 3, cache of 4; 3 roots, two on a type array, one on an object array processed in two parts, whose second element holds two references | `HandedOverOnce`, `WorkEnds` | batches cut short by a second burst, entries dropped, an entry waited for, announcements during reads in all three machines |
| `Services`, regions | 2 free regions and an old one, regions of 3 words, 2 commands; the hint, what the old region holds, or where the array of survivors lies, is varied | `FreeListSound`, `RegionCacheFresh`, `RegionsAccounted`, `WorkEnds` | a region that has no room replaced, the list emptied, the array of survivors full |
| `Services`, plab | objects of 1 and 5 words, PLABs of 7, 10 words for an attribute, 3 commands | `WordsAccounted`, `WorkEnds` | new PLAB, filler, direct allocation, a short answer, none |
| `Services`, cards | 3 nodes of 2 cards, lines of 2, 2 cards, 2 jobs | `CardsKept`, `WorkEnds` | line flushed or partly full at the end, node replaced, node list empty |
| `FetchWait` | the job of `Services` | `WaitServed` (violated) | finding 4 |
| `FetchStale` | ring of 3, cache of 8; 5 roots, two pairs of overlapping bursts, two tasks on one object, two on a type array | `DispatchFresh` (violated) | finding 6 |
| `RegionsExpand` | the regions of `Services` | `ExpansionAsked` (violated) | finding 5 |
| `Drivers`, hwgc | 2 threads, 2 pages, one pin allowed, 2 operations, 2 requests, 1 failing copy_to_user; misses, GROW, DONE, ERROR | `DeviceMemoryPinned`, `HwgcAnswersAwaited`, `NothingLeft`, `DeliveredInOrder`, `OperationEnds`, `RemoveEnds` | start, wait, reply, interrupt and removal interleaved anywhere; the pin list full; an operation that ends by DONE, by ERROR, by abort |
| `Drivers`, xor | the same threads and pages, 2 operations | `NothingLeft`, `OwnResult`, `DeviceMemoryPinned` | a timeout or a signal beside a late interrupt, removal at any moment |
| `Drivers`, edu | 2 callers, 4 calls | `OwnResult` | overlapping calls, and calls that no other disturbs |
| `EduLate` | 2 callers, 2 calls | `SingleFactorial` (violated) | finding 7 |
| `Drivers`, binding and module | every step failing; 2 devices | `HeldAsLongAsUsed`, `ModuleUndone` | every failed probe, every failed load, the exit after one device of two |

Bounds. The ring sizes are the smallest that satisfy `ConstAssumption` with more
pushes than a ring half, so that every pointer wraps; the proofs cover the sizes of the
code (64, 60, 4, 4, 32, 16). Two accesses suffice for the adapter, which never has more than one
being served and one answered; with two source IDs one access of two beats takes them all.
GCCopy moves five bytes over lines of two, which is three lines with cut ends at
both sides, through fewer entries than it has lines. The caches of GCTrace have fewer entries
than there are regions and klasses. Fourteen elements are seven parts, one more than the tasks in flight
can take at once. The ring of GCFetch has 3 slots so that a batch of two wraps, drops entries and
leaves a gap. GCOopProcess holds two tasks and looks at two earlier ones
only through mark words and caches; five tasks give each kind a predecessor. In
GCOopCopy2Survivor an object is sent beside at most one other. Two commands of the allocator are the one that
replaces a region and the one that finds what it left; the free list proof covers any length.
In the driver two threads
are a waiter and a replier, or two waiters; a second operation shows what the first left
behind; the other kinds of event that want a reply take the path of GROW.

Fairness. Weak fairness only. Clocked logic acts whenever it can, so each slot and
each state machine is weakly fair; the memory answers every read, and GCCopy, GCTrace
and GCAllocate end beside GCOopCopy2Survivor, which is what their own runs show. The cache side of
GCLocalMMU accepts and answers; the adapter asks for the beats it has, and a unit waits with
ready up. The four machines of the allocation path are fair one by one, since each has a
clocked process of its own. In GCTaskStack fairness is on the memory's progress,
on pops and on `Finish`; nothing forces pushes or a new job. In GCFetch some step
that can be taken is taken, and there are finitely many tasks. Nobody is made to send an
object to GCOopCopy2Survivor or a command to the other units. In the drivers the kernel runs threads that are ready and
handlers that are due, the device works, time runs out, and the threads keep waiting for events and
replying; nobody is made to start an operation, to repeat a reply or to unbind. In the combined
runs one fairness formula may name an action of each unit: a behaviour is about one of
them, so the disjunction is that unit's action. `FollowSurvivor` gets by with less fairness than its modules state
(some of what a job of the stack waits for happens, one machine of the survivor works), and so does `Services`:
some machine works unless all wait, parAllocate goes on, and the sources of cards fall silent. Deadlock checking is off where a bounded environment really stops
(all pushes done, all objects sent).

## 4. Findings

1. `TaskStackStuck`: an answer to ReadBack that arrives while pushes hold the usage above
   the threshold is consumed by nobody (`Mreq.Response.ready` is always up) and `issued`
   stays set: the tasks left in the JVM queue are never read back.
2. `OopAnswer`: READ_HEAP_PTR takes a cache hit although its own read is out; the answer
   goes to whichever state is active then, and `issued` stays set.
3. `OopForward`: a type array lets the next task go before its forwarding pointer is
   installed; a second task on the same array has it copied again, and the
   compare-and-swap that a comment relies on compares a value with itself.
4. `FetchWait`: a second burst before the batch of the first is prefetched leaves slots of the
   ring out. When the bottom reaches such a slot and the slot still names the task popped (a
   partial array task that was queued again), main waits for an entry that pre never
   fills, and the job hangs. `WorkEnds` excludes this state (`WaitStuck`) and
   nothing else of GCFetch.
5. `RegionsExpand`: when the free list is empty GCNewGCAlloc clears the done flag of the answer in the cycle
   in which it sees it (line 172), so the branch that would ask the JVM to expand the heap is left at once and
   the interrupt of the comment at line 194 is never raised; the machine waits for ever (`AllocStuck`).
6. `FetchStale`: the forwarding cache is emptied when main and push are idle and `buf_count` is 0 (line 451); a
   comment says all pipelines are idle then, but pre may be reading. A second burst that cuts the batch of the
   first short leaves `buf_count` too low, so it reaches 0 before the ring is empty. An announcement
   that came during pre's read is then lost, the old mark word is stored as done, and a second such
   pair of bursts brings the ring back to the entry: its object is handed to GCOopProcess as one that
   was never copied. With pre idle as a further condition of the clearing there
   would be no stale mark word in this job: its 7 objects fit the cache, so `StaysFresh` applies. It takes one read of pre that lasts longer than copying an object.
7. `EduLate`: `edu_ioctl` resets the completion before it writes its number, which discards an interrupt that came late
   but not one that is still to come. After a call that timed out the next one is woken by the first
   one's interrupt and copies out the first one's result (`edu_driver.c:56-68`), which `edu_test.c` prints as the
   factorial of its own number. `OwnResult` of the run `Drivers` is about calls without such a
   predecessor.

## 5. Proofs

`GCTaskStack_proofs` proves `Spec => []IInv` for every value of the constants that
satisfies `ConstAssumption`. `IInv` conjoins:

- `TypeOK`;
- `TopCacheCoherent`: offset *n* of TopCache, and the refill under way, equal the ring entry
  *n* below the top. It is inductive only with the type invariant's bounds on usage;
- `PushFollowServable` and `FollowUnmarked`: the entries a push-follow batch still has to
  offer are in TopCache and not yet marked;
- `SpillMargin`: how far pops can have lowered the usage since SpillOut started. It is what
  makes a spill stay clear of TopCache, and needs the margin assumptions;
- `SpillIntact`: what was copied out is still the oldest part of the ring when it is retired;
- `ReadFresh`: a ReadBack answer that is taken still holds the newest of the JVM queue.

One lemma per fast-path action shows what it does to usage, one per memory action
what it does to the bounds, and a cycle combines the two.

On top of `IInv` it proves the refinement `RefinesTaskStack` (`StackImplemented`). The sequence
of tasks is the JVM queue followed by the ring. `PlacesKept` says that the memory path leaves
every task at its place in it, although SpillOut and ReadBack move the border; with it a push, a
pop or both are a step of the abstract stack, and every other cycle is none. Two more facts are
needed (`QueueInv`): the line SpillOut has written is in the queue's memory when it leaves the
ring (`SpillWritten`), and there are never more tasks than the JVM left and GCTrace pushed
(`QueueFits`), so that the index of the queue does not wrap. That rests on
`MaxJvm + MaxPush < QueueSize` in `ConstAssumption`, a limit the hardware does not check.

`GCLocalMMU_proofs` proves `TypeOK` and `BoundedWait` for any number
of ports and IDs, from the inductive invariant `ArbiterInv` (`TypeOK` and
`WaitBelowOffset`). `BoundedWait` follows from `WaitBelowOffset`: a
port's waiting count plus its distance from the round-robin pointer is below the number of
ports. A request, a withdrawal and an answer leave the order alone; a grant brings every other
waiting port closer (`GrantApproaches`).

`GCMemory_proofs` proves of the adapter `IInv` (`TypeOK`, `Progress`, `InFlight`,
`AnswerAssembled`): `InFlight` says for every source ID whether an answer is due and for
which half, or is to be dropped. `AnswersWelcome` and `AnswerAssembled` follow.

Of the whole path it proves that the composition implements both parts (`PathImplementsParts`: each
step of the path is a step of the adapter or leaves it alone, and likewise of the port), so
that their invariants carry over (`PathAnswers`, `PathRoundRobin`). What ties the two is that the
cache's IDs in use are the adapter's and the other ports', and that these are disjoint.

`GCOopProcess_proofs` proves, for any tasks, objects, regions and cache sizes,

- `TypeCorrect`: `TypeOK`;
- `HeldByOne`: `FetchHeldByOne`, from the inductive `FetchInv`. A slot's position, its copy
  registers and what GCOopCopy2Survivor does for it must agree (`SlotShape`), and then
  `Unreleased` gives the tasks that have not said Done as a function of the slots. Each action
  either leaves that function alone (lemma `Quiet`) or ends it for one slot while it says
  Done (lemma `Release`); `AcceptTask` starts from none;
- `ObjectCopiedOnce`: `CopiedOnce`, from `CopyInv`, which adds that mark words in slots are
  current, that only type arrays are let go early, and what forwarding pointers exist at
  each stage of a copy. The heart is `OneCopier`: two copies of one plain object at a time
  would be two tasks that have not said Done, against `FetchHeldByOne`;
- `FieldsSettledRight` (`FieldsAgree`) and `CardsSent` (`CardsMarked`), from `IInv`. As long as
  no slot went on while its read was out (`overtaken`, finding 2) it adds: a read is out exactly
  for the state that made it, and nobody else fills the attribute entry meanwhile (`OwnRead`); a
  slot's registers hold what the states it has passed have read and decided, and these states
  have done their writes (`SlotsKnow`, state by state in `Knows`); and the field of a task still
  in the list is as it was (`Untouched`).

No assumption beyond `ConstantsAssumption` is used. The first two invariants hold also after a
slot went on while its read was out: finding 2 spoils data, not the release of GCFetch. The last
two say nothing of such runs, in which they are false.

`GCOopCopy2Survivor_proofs` proves, for any objects, ages, sizes, heap and buffers,

- `TypeCorrect`: `TypeOK`;
- `WordsApart`: `NoOverlap`, no two copies share a word. The invariant follows each slot through
  its states (`Stands`: what it has, whom it waits for, whether it holds the lock of its buffer)
  and each buffer (`Buffers`): the top on chip, where it is valid, and the top in memory
  otherwise bound what has been given away, and the top in memory may run ahead by the one
  object that is being placed (`InStep`, `Bumped`). Only the holder of the lock, which is one
  slot, bumps, refills or replaces a buffer, so that what is given next is apart from everything
  given before (`Apart`), whichever allocation path it comes from;
- `SurvivorImplemented`: `ImplementsSurvivor`. Accepting an object is a step Ask of
  `SurvivorSpec`, writing the forwarding pointer Announce, the event Done Finish, and every other
  step is not seen from outside. It needs the part of the invariant that says which states have
  written the pointer, and that a slot of GCOopProcess is served once (`Single`).

`ConstantsAssumption` says of the memory only that the two buffers left by the JVM are apart, that
their words are heap addresses, and that GCAllocate, whose own promise is `WordsKept`, hands out
words after them.

The same module proves of GCCopy `CopiesExact`, `ForwardsSound` and `CopyAssertionsHold`: `CopyExact`,
`ForwardSound` and `CopyAssertions` for any commands, line length, slots and entries. A source beat
reaches at most two lines of the destination, which cuts it into two parts, and `CopyInv` says where
each part is: to be read, a fragment of its slot (`SlotsKnown`), in the entry of its line from the
cycle it is gathered to the answer of the write (`LinesKnown`), or copied (`DoneCopied`). The rest
ties the counts and windows to that:

- a slot's outstanding answers are its parts that are in an entry, so that a beat completes when its
  parts are copied and not before;
- at most one entry has a line (`LinesApart`), and two beats fill a line (`TwoBeatsFillLine`), which is
  why an entry needs two contributors at most, and why an entry with two is complete;
- beats read and not committed lie in a window of `CompletionEntries` (`Window`), in which slots and
  completion bits are told apart by the low bits of a beat (`SlotsInWindow`, `CompletedInWindow`);
- what the port still has is what a slot or an entry waits for (`ReadsAwaited`, `WritesAwaited`);
- a predecoded position whose epoch is this copy's was computed from this copy's command
  (`PredecodeKnown`), and the beat and offset of the next byte follow from it (`PositionOf`).

Of the constants it needs that `CompletionEntries` is not less than `GCCopyEntry`, which the code
requires (`GCCopy.scala:61`), and that addresses and sizes are naturals, of any size.

`GCMemory_proofs` also proves of GCArrayProcess `PartsOfArray`: for any array length, chunk size and number of
tasks, every element is scanned once and by as many tasks as there are parts. The invariant
(`ChunkInv`) counts tasks: those queued, the one held and those GCTrace has been told to make are as many as the
parts that wait (`TasksCounted`). The arithmetic sits in one lemma, `GuessRight`: what
`CALC_STEP` computes keeps that balance.

And of GCTrace `TraceSettles`: for any heap, klass layouts, line length and cache sizes, when an
object is done `FieldsSettled` holds. `TraceInv` is an account of visits: `Left` says how often
a field is still to be visited from where the traversal stands (the rest of the range, the oop maps
below, the special fields of a Reference or a mirror), and a field has been handed on, or its
card sent, or its humongous region settled, as often as the visits it has had (`Account`). Three
parts carry it: no state of a field deals with anything but the reference read there
(`RawKnown`), which is the point of the window of the line read last; what
the two caches claim of a region is so (`CachesKnow`), stale attribute included; and between its two
writes a humongous region is the one at hand. `LayoutAssumption` says that a klass names each
field once, that the classes of objects are disjoint and that no copy is made into a
humongous region; `Fields(j) \subseteq Items` bounds only what the model counts.

`GCFetch_proofs` proves, for any ring, cache, roots and references,

- `FetchTyped`: `TypeOK`, and that the stack and GCFetch agree on what is left of a batch
  (`FollowInStep`), which each counts for itself;
- `HandedOver`: `HandedOverOnce`, from `FetchInv`. Its core is an account: what is owed of a task is how
  often it is in the stack, in main, in push and in the entry waited for (`Owed`). That each
  transfer moves exactly one needs to know that main waits for the unit exactly while the unit has a task
  (`FetchBusy`), that main and push are idle while an entry is waited for (`FetchWaits`), that
  a batch fits the ring (`FetchRoom`) and that a job ends with nothing left (`FetchRests`). It holds
  also in the stuck state of finding 4: the task waited for is late for ever, but not lost;
- `StaysFresh`: `FreshWhileKept`, which is `DispatchFresh` on condition that the forwarding cache keeps what was
  announced (`CacheKept`): it is emptied with pre idle only, and announcements do not drive each other out.
  The invariant is `MarksFresh`: a read that was accepted before an announcement and is answered
  after it has its object in the cache, and a mark word that lies in the ring or waits for the hand-over has been
  patched. The condition is not one the code enforces. Without it the proof fails at a read of
  pre that is out while the cache is emptied, and `FetchStale` shows that failure to be one of the
  code (finding 6). The second part fails when more objects are copied than the cache has entries
  (32) while one read is out, which a chain of objects that needs no prefetch can do; no
  run shows it. The theorem says that nothing else in GCFetch makes a mark word stale.

`Allocation_proofs` proves, for any heap, free list, sizes, nodes, cards and numbers of commands,

- `ListSound`: a free list of any length keeps its ends, links and hint while
  regions are taken from either side. The invariant (`FrInv`) says for each state which of the
  writes are done: `Ends`, `Hint`, `Links`, what was read (`Reads`) and what is already off the list (`Taken`);
- `ListUsedSoundly`, `CacheFresh`, `RegionsKept` (`FreeListSound`, `RegionCacheFresh`, `RegionsAccounted` of
  the whole path), from `RegionInv`. It says who waits for whom (`Calls`, which is what makes the pulses
  of five machines an order), where the one region is that has left the list and
  is not installed yet (`InHand`), that it, the list and the regions of both allocators are disjoint
  (`Apart`), that these are all the JVM gave (`Given`), how far it is prepared (`Prepared`), and that the survivors' array and the old set count what they
  should (`ArraySound`, `Counted`), each with the step by which it runs ahead of the other. The stale pulses of the
  hazard at `GCParAllocate.scala:429` are part of the model, so these results hold in spite of them;
- `WordsKept`: `WordsAccounted`, from `AlInv`. The words handed out are at any time divided into objects,
  fillers, the room of the PLAB (`OpenRoom`, which is closed while the old PLAB is retired) and those just
  received (`OnTheWay`); `PlabRoomy` is why a rest of a PLAB can always be made a filler;
- `CardsInOrder`: `CardsKept`, from `AopInv`: one card at most is asked for and not stored (`AtWork`), those stored are in
  their slots, in the buffer or in the line being collected (`Stored`), the write-back has written what its
  state says (`WrittenSoFar`), and the replaced buffer, the list and the free node are different nodes (`Linked`).

`Drivers_proofs` proves of the HWGC driver, for any number of threads, pages, operations,
requests and failures of `copy_to_user`:

- `TypeCorrect`, `MemoryPinned` (`DeviceMemoryPinned`) and `NothingHeld` (`NothingLeftBehind`), from the
  inductive `DriverInv`. Its core is that there is one event at a time, pending, in service
  or in the hands of one thread (`EventOnce`), one interrupt bit on its way from the device to
  the thread (`Handling`), and never both (`Settled`); the rest says who holds `op_lock` (`LockHeld`), that
  nothing of the device outlives `op_active` (`Operating`), which pages are pinned (`Pinning`)
  and how far the removal is (`Unbinding`);
- `Answered` (`AnswersAwaited`) and `InOrderDelivery` (`DeliveredInOrder`), from `EventInv`, which is inductive under
  `DriverInv`: what is pending or held asks for what the device waits with, and is newer than
  everything given to a thread (`Numbered` and `InOrder`);
- `PciSafe`: the same of the specification `PciSpec`, whose steps are those of `Spec` under other names.

and of the others, for any number of threads, pages, calls and devices,

- `XorCorrect`: `XorInv` ties the call that holds `op_lock` to the device: what it may rely on where it is
  (`XorCall`), and that one interrupt at most is on its way and belongs to this operation
  (`XorHandling`), timeouts and signals included;
- `DriversOwnResult` also for the EDU driver: a call that no other overlaps, and that began with nothing of an earlier one
  on its way, has its number in one place at a time, the device, the interrupt, the handler or
  the completion (`Alone` in `EduInv`). Without the second condition it is false (finding 7);
- `ModuleUndoes` (`ModuleUndone`), from `ModInv`: devices are taken in order and given back each before its interrupt. It allows
  for what the code does leave, the interrupt of a device that could not be created;
- `DriversHold`: `HeldAsLongAsUsed`, from `BindInv`, which says of each stage what may still be held, and that what is
  held has what it uses. That a step keeps it is shown for any driver whose lists are in the right order
  (`TableRight`: taken after what it needs, a failed step going to the label that leaves out exactly what was not
  taken, nothing given back before what uses it), and that the lists of the four drivers are;
- `DriversPinned`, `DriversAnswer`, `DriversLeaveNothing`, `DriversOwnResult`, `DriversDeliver`: the properties as
  the run `Drivers` checks them, of the composition (`DriversInv` is the conjunction of the five).

Checked by TLC only:

- the liveness properties and everything about ENABLED, which are out of the prover's reach;
- the fairness part of the refinements: `StackImplemented`, `SurvivorImplemented` and `PathImplementsParts`
  are about steps.

## 6. Not modelled

- User programs: they call the drivers in a fixed order, which the threads of the driver models do in any order.
- Recorded heaps and scripts. `0_64_1_78.c` and its like are thousands of generated
  `store64` lines, 17034 of the 20138 lines of C in the repository: data without behaviour,
  which no definition can stand for. Coverage counted over all C lines is therefore
  bounded by the drivers, all of which are modelled.
- The parameter registers of the drivers, which the ioctl writes in one go, file operations
  that keep no state, the debug counters and the wiring of GCAccTop beyond what the compositions use.
- States behind interrupts to the JVM that GCAccTop ties off (growing the survivor array, expanding the heap,
  allocating a card node): the machines wait there for ever.
- The klass cache, ages and attribute values of GCOopCopy2Survivor; block offset table
  contents and root regions of GCParAllocate; the values computed by the demonstration devices.
- Hazards without a property, because no text of the repository claims what the
  code does not keep: the length of the free list (`GCAllocFreeRegion.scala:171`), the cards
  after a full node (`GCAop.scala:307`), what the port that two machines of GCParAllocate share brings to either
  (`GCParAllocate.scala:142`), and the interrupts that belong to no device of the module, one left when a platform
  device could not be created (`hwgc_driver_platform.c:1109`) and GSI 0 taken from another (1151).

## 7. Plan

1. Done: the task stack and the memory path with proofs; GCOopProcess, proved, and
   GCOopCopy2Survivor around SurvivorSpec; GCFetch; GCCopy, GCTrace, GCArrayProcess; the allocation path;
   GCAop with the Done condition; all drivers, with probe, remove and module load.
2. Proved: see section 5. Every safety property of the passing runs is a theorem.
3. Left to model: caches that live from one collection to the next.
