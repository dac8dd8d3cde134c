------------------------------- MODULE GCFetch -------------------------------
(***************************************************************************)
(* hwgc_acc/GCFetch.scala: takes tasks from the task stack and hands each  *)
(* to a processing unit with the mark word of the object it refers to.     *)
(* Three state machines share the work: main takes what is popped, push    *)
(* the last task of a burst straight from GCTrace, and pre reads ahead     *)
(* into the ring preBuf what the stack offers on its PrePop port.          *)
(* A small cache remembers the forwarding pointers announced while tasks   *)
(* are under way, since their mark words may have been read before.        *)
(*                                                                         *)
(* A step is what one state machine, or one neighbour, does in a cycle.    *)
(* Cycles in which several move have the effect of their steps in a row;   *)
(* the one that has not is PopAsAnswered.                                  *)
(*                                                                         *)
(* A mark word is TRUE when it is a forwarding pointer.  The neighbours    *)
(* are the stack (the PrePop side of GCTaskStack), the memory, the units   *)
(* that process a task, and GCTrace, which queues what they find.          *)
(***************************************************************************)
EXTENDS Integers, Sequences, FiniteSets

CONSTANTS
  PreFetchBufferNum,    \* slots of the ring preBuf (16)
  ForwardCacheEntries,  \* entries of the forwarding cache (32)
  PreFetchScanWindow,   \* how deep the stack looks for a task to offer (16)
  Tasks, Objects,
  Target,               \* task -> the object its field refers to
  Partial,              \* tasks that stand for the rest of an object array
  TypeArrays,           \* objects without references
  Traced,               \* object -> the tasks its copy gives rise to, in order
  Chunks,               \* partial task -> what it gives rise to each time, nothing after that
  Roots,                \* the tasks the stack starts with, newest first
  NoTask, NoObject      \* what a register holds after reset

ASSUME ConstantsAssumption ==
  /\ PreFetchBufferNum \in Nat \ {0, 1} /\ ForwardCacheEntries \in Nat \ {0}
  /\ PreFetchScanWindow \in Nat \ {0}
  /\ Target \in [Tasks -> Objects]
  /\ Partial \subseteq Tasks /\ TypeArrays \subseteq Objects
  /\ Traced \in [Objects -> Seq(Tasks)] /\ Roots \in Seq(Tasks)
  /\ Chunks \in [Partial -> Seq(Seq(Tasks))]
  /\ NoTask \notin Tasks /\ NoObject \notin Objects

Slots == 0 .. PreFetchBufferNum - 1
Machines == {"main", "push", "pre"}

VARIABLES
  fsm,                \* machine -> its state
  main_data, push_data,
  preBuf, preBufDone,
  buf_top, buf_bottom, buf_count, buf_work,
  pushFollowRem,
  waitForPrefetch,
  fwdCache,           \* announced objects, oldest first
  rd,                 \* machine -> the mark word when its read was accepted
  stack,              \* what GCTaskStack holds, newest first, with PrePop marks
  push_count, not_prefetch, pushPrePopRem, pushPrePopOffset,
  running,            \* the stack is not exhausted yet
  mem,                \* object -> its mark word in memory
  announced,          \* objects whose forwarding pointer was broadcast
  late,               \* type arrays let go and not yet announced
  work,               \* what the unit does with the task handed over
  trace,              \* what GCTrace has yet to queue for it
  chunk,              \* partial task -> how often it was processed
  owed                \* task -> how often it was queued and not handed over

slots     == <<preBuf, preBufDone>>
window    == <<buf_top, buf_bottom, buf_count, buf_work, pushFollowRem>>
context   == <<main_data, push_data>>
stackVars == <<stack, push_count, not_prefetch, pushPrePopRem, pushPrePopOffset>>
heap      == <<mem, announced, late>>
unit      == <<work, trace, chunk>>
vars == <<fsm, context, slots, window, waitForPrefetch, fwdCache, rd, stackVars,
          running, heap, unit, owed>>

Reset == [task |-> NoTask, obj |-> NoObject, mark |-> FALSE]
receiveTask(c, t) == [c EXCEPT !.task = t]
Queued(t) == [task |-> t, seen |-> FALSE]

Init ==
  /\ fsm = [m \in Machines |-> "IDLE"]
  /\ main_data = Reset /\ push_data = Reset
  /\ preBuf = [s \in Slots |-> Reset] /\ preBufDone = [s \in Slots |-> FALSE]
  /\ buf_top = 0 /\ buf_bottom = 0 /\ buf_count = 0 /\ buf_work = 0
  /\ pushFollowRem = 0 /\ waitForPrefetch = FALSE
  /\ fwdCache = <<>> /\ rd = [m \in Machines |-> FALSE]
  /\ stack = [i \in DOMAIN Roots |-> Queued(Roots[i])]
  /\ push_count = 0 /\ not_prefetch = FALSE
  /\ pushPrePopRem = 0 /\ pushPrePopOffset = 1
  /\ running = TRUE
  /\ mem = [o \in Objects |-> FALSE] /\ announced = {} /\ late = {}
  /\ work = "none" /\ trace = <<>> /\ chunk = [p \in Partial |-> 0]
  /\ owed = [t \in Tasks |-> Cardinality({i \in DOMAIN Roots : Roots[i] = t})]

-----------------------------------------------------------------------------
(* What the actions are made of. *)

In(m, s) == fsm[m] = s
Goto(m, s) == fsm' = [fsm EXCEPT ![m] = s]
Least(a, b) == IF a < b THEN a ELSE b
Inc(s, n) == (s + n) % PreFetchBufferNum
Dec(s, n) == (s - n) % PreFetchBufferNum
buf_free == PreFetchBufferNum - buf_count

\* The cache is emptied in a cycle that starts with nothing under way.
Clears == /\ In("main", "IDLE") /\ In("push", "IDLE")
          /\ buf_count = 0 /\ ~waitForPrefetch
Tidy == fwdCache' = IF Clears THEN <<>> ELSE fwdCache

Forwarded(o) == \E i \in DOMAIN fwdCache : fwdCache[i] = o
resolveForwardMark(o, fallback) == Forwarded(o) \/ fallback

\* The register or slot a machine works on.
Context(m) == CASE m = "main" -> main_data
                [] m = "push" -> push_data
                [] m = "pre"  -> preBuf[buf_work]
SetContext(m, c) ==
  /\ main_data' = IF m = "main" THEN c ELSE main_data
  /\ push_data' = IF m = "push" THEN c ELSE push_data
  /\ preBuf' = IF m = "pre" THEN [preBuf EXCEPT ![buf_work] = c] ELSE preBuf

-----------------------------------------------------------------------------
(* Reading: the same states in the three machines. *)

\* A partial task is the array itself.
TakesPartial(m) ==
  /\ In(m, "READ_OOP_REQ") /\ Context(m).task \in Partial
  /\ Goto(m, "READ_MW_REQ")
  /\ SetContext(m, [Context(m) EXCEPT !.obj = Target[Context(m).task]])

\* A field GCTrace has queued may still be in the store buffer of GCCopy.
ForwardedByCopy(m) ==
  /\ In(m, "READ_OOP_REQ") /\ Context(m).task \notin Partial
  /\ \A i \in DOMAIN Roots : Roots[i] # Context(m).task
  /\ Goto(m, "READ_MW_REQ")
  /\ SetContext(m, [Context(m) EXCEPT !.obj = Target[Context(m).task]])

AsksOop(m) ==
  /\ In(m, "READ_OOP_REQ") /\ Context(m).task \notin Partial
  /\ Goto(m, "READ_OOP_RESP")
  /\ UNCHANGED <<context, preBuf>>

OopAnswer(m) ==
  /\ In(m, "READ_OOP_RESP")
  /\ Goto(m, "READ_MW_REQ")
  /\ SetContext(m, [Context(m) EXCEPT !.obj = Target[Context(m).task]])

ReadOop(m) ==
  /\ TakesPartial(m) \/ ForwardedByCopy(m) \/ AsksOop(m) \/ OopAnswer(m)
  /\ Tidy
  /\ UNCHANGED <<preBufDone, window, waitForPrefetch, rd, stackVars, running, heap, unit, owed>>

AsksMark(m) ==
  /\ In(m, "READ_MW_REQ")
  /\ Goto(m, "READ_MW_RESP")
  /\ rd' = [rd EXCEPT ![m] = mem[Context(m).obj]]
  /\ Tidy
  /\ UNCHANGED <<context, slots, window, waitForPrefetch, stackVars, running, heap, unit, owed>>

\* The memory answers with what the mark word was at some time since.
MarkRead(m) == IF rd[m] THEN {TRUE} ELSE {FALSE, mem[Context(m).obj]}

MarkAnswered(m) == /\ In(m, "READ_MW_RESP")
                   /\ rd' = [rd EXCEPT ![m] = FALSE]

-----------------------------------------------------------------------------
(* Main. *)

GCTraceOffers == work = "tracing" /\ Len(trace) = 1

PopReady == /\ In("main", "IDLE") /\ In("push", "IDLE") /\ ~GCTraceOffers
            /\ ~waitForPrefetch /\ pushFollowRem = 0

\* Pop.valid: the batch of a burst is offered before anything is popped.
PopValid == stack # <<>> /\ push_count = 0 /\ pushPrePopRem = 0
popBase == stack[1].task
PopFires == running /\ PopReady /\ PopValid /\ stack' = Tail(stack)
bottomHit == buf_count # 0 /\ preBuf[buf_bottom].task = popBase

ConsumeBottom ==
  /\ preBufDone' = [preBufDone EXCEPT ![buf_bottom] = FALSE]
  /\ buf_bottom' = Inc(buf_bottom, 1)
  /\ buf_count' = buf_count - 1
  /\ UNCHANGED <<preBuf, buf_top, buf_work, pushFollowRem>>

Popped == UNCHANGED <<push_data, push_count, not_prefetch, pushPrePopRem,
                      pushPrePopOffset, running, heap, unit, owed>>

PopReadyEntry ==
  /\ PopFires /\ bottomHit /\ preBufDone[buf_bottom]
  /\ main_data' = preBuf[buf_bottom] /\ ConsumeBottom
  /\ Goto("main", "SEND")
  /\ Tidy /\ Popped /\ UNCHANGED <<waitForPrefetch, rd>>

PopWaits ==
  /\ PopFires /\ bottomHit /\ ~preBufDone[buf_bottom]
  /\ waitForPrefetch' = TRUE
  /\ Tidy /\ Popped /\ UNCHANGED <<fsm, main_data, slots, window, rd>>

PopMiss ==
  /\ PopFires /\ ~bottomHit
  /\ main_data' = [receiveTask(main_data, popBase) EXCEPT !.obj = NoObject]
  /\ Goto("main", "READ_OOP_REQ")
  /\ Tidy /\ Popped /\ UNCHANGED <<slots, window, waitForPrefetch, rd>>

\* Mutant: waitForPrefetch is not reset.
WaitOverStillWaiting ==
  /\ In("main", "IDLE")
  /\ waitForPrefetch /\ buf_count # 0 /\ preBufDone[buf_bottom]
  /\ main_data' = preBuf[buf_bottom] /\ ConsumeBottom
  /\ Goto("main", "SEND")
  /\ Tidy /\ UNCHANGED <<push_data, rd, stackVars, running, heap, unit, owed, waitForPrefetch>>

WaitOver ==
  /\ In("main", "IDLE")
  /\ waitForPrefetch /\ buf_count # 0 /\ preBufDone[buf_bottom]
  /\ waitForPrefetch' = FALSE
  /\ main_data' = preBuf[buf_bottom] /\ ConsumeBottom
  /\ Goto("main", "SEND")
  /\ Tidy /\ UNCHANGED <<push_data, rd, stackVars, running, heap, unit, owed>>

MainMark ==
  /\ MarkAnswered("main")
  /\ \E v \in MarkRead("main") : main_data' = [main_data EXCEPT !.mark = v]
  /\ Goto("main", "SEND")
  /\ Tidy /\ UNCHANGED <<push_data, slots, window, waitForPrefetch, stackVars,
                         running, heap, unit, owed>>

dispatchMarkWord == resolveForwardMark(main_data.obj, main_data.mark)

\* GCArrayProcess needs the copy of the array, and waits when the mark word
\* does not point to it; GCOopProcess copies an object that is not forwarded.
Send ==
  /\ In("main", "SEND") /\ work = "none"
  /\ Goto("main", "WAIT_DONE")
  /\ owed' = [owed EXCEPT ![main_data.task] = @ - 1]
  /\ IF main_data.task \in Partial
       THEN /\ work' = IF dispatchMarkWord THEN "tracing" ELSE "waiting"
            /\ trace' = IF chunk[main_data.task] < Len(Chunks[main_data.task])
                        THEN Chunks[main_data.task][chunk[main_data.task] + 1] ELSE <<>>
            /\ chunk' = [chunk EXCEPT ![main_data.task] = @ + 1]
       ELSE /\ work' = IF dispatchMarkWord THEN "tracing" ELSE "copying"
            /\ trace' = <<>>
            /\ UNCHANGED chunk
  /\ Tidy
  /\ UNCHANGED <<context, slots, window, waitForPrefetch, rd, stackVars, running, heap>>

-----------------------------------------------------------------------------
(* Push. *)

\* GCTrace offers the last task of a burst: LastPush ends it for the stack.
\* Main waits for the unit then, so the task is never given to main at once.
TakeLast ==
  /\ GCTraceOffers /\ In("push", "IDLE") /\ In("main", "WAIT_DONE")
  /\ push_data' = [receiveTask(push_data, trace[1]) EXCEPT !.obj = NoObject]
  /\ Goto("push", "READ_OOP_REQ")
  /\ trace' = <<>> /\ not_prefetch' = FALSE
  /\ owed' = [owed EXCEPT ![trace[1]] = @ + 1]
  /\ Tidy
  /\ UNCHANGED <<main_data, slots, window, waitForPrefetch, rd, stack, push_count,
                 pushPrePopRem, pushPrePopOffset, running, heap, work, chunk>>

GivesMain(c) == /\ In("main", "IDLE")
                /\ main_data' = c
                /\ fsm' = [fsm EXCEPT !["push"] = "IDLE", !["main"] = "SEND"]

PushMark ==
  /\ MarkAnswered("push")
  /\ \E v \in MarkRead("push") :
       LET c == [push_data EXCEPT !.mark = v] IN
         \/ GivesMain(c) /\ UNCHANGED push_data
         \/ /\ ~In("main", "IDLE") /\ push_data' = c
            /\ Goto("push", "SEND") /\ UNCHANGED main_data
  /\ Tidy /\ UNCHANGED <<slots, window, waitForPrefetch, stackVars, running, heap, unit, owed>>

PushSend ==
  /\ In("push", "SEND")
  /\ GivesMain(push_data)
  /\ Tidy /\ UNCHANGED <<push_data, slots, window, waitForPrefetch, rd, stackVars,
                         running, heap, unit, owed>>

-----------------------------------------------------------------------------
(* Pre. *)

FollowMode == push_count # 0 \/ pushPrePopRem # 0
FollowOffset == IF push_count # 0 THEN 0 ELSE pushPrePopOffset

\* What the stack offers: in turn the tasks of the last burst, newest first,
\* else the newest one below the top that it has not offered.
Candidates == {i \in 1 .. Least(PreFetchScanWindow, Len(stack) - 1) : ~stack[i + 1].seen}
Offered == {o \in 0 .. Len(stack) - 1 :
              IF FollowMode THEN o = FollowOffset
              ELSE o \in Candidates /\ \A i \in Candidates : o <= i}

takeNum == Least(push_count, PreFetchBufferNum)

StackPrePop(o) ==
  /\ stack' = [stack EXCEPT ![o + 1].seen = TRUE]
  /\ \/ /\ push_count # 0
        /\ push_count' = 0 /\ pushPrePopRem' = takeNum - 1 /\ pushPrePopOffset' = 1
     \/ /\ push_count = 0 /\ pushPrePopRem # 0
        /\ pushPrePopRem' = pushPrePopRem - 1
        /\ pushPrePopOffset' = pushPrePopOffset + 1
        /\ UNCHANGED push_count
     \/ /\ ~FollowMode
        /\ UNCHANGED <<push_count, pushPrePopRem, pushPrePopOffset>>
  /\ UNCHANGED not_prefetch

\* The task of the stack at offset o goes into slot s, the machine's work.
Prefetch(o, s) ==
  /\ In("pre", "IDLE") /\ running /\ ~not_prefetch /\ ~waitForPrefetch
  /\ o \in Offered /\ StackPrePop(o)
  /\ buf_work' = s
  /\ preBuf' = [preBuf EXCEPT ![s] = receiveTask(@, stack[o + 1].task)]
  /\ preBufDone' = [preBufDone EXCEPT ![s] = FALSE]
  /\ Goto("pre", "READ_OOP_REQ")
  /\ Tidy
  /\ UNCHANGED <<context, waitForPrefetch, rd, running, heap, unit, owed>>

NormalPrefetch ==
  /\ push_count = 0 /\ pushFollowRem = 0 /\ buf_free # 0
  /\ \E o \in Offered : Prefetch(o, buf_top)
  /\ buf_top' = Inc(buf_top, 1) /\ buf_count' = buf_count + 1
  /\ UNCHANGED <<buf_bottom, pushFollowRem>>

\* The first task of a burst moves the bottom down to make room for all of
\* them; entries that no longer fit are dropped at the top.
FollowFirst ==
  /\ push_count # 0
  /\ LET idx == Dec(buf_bottom, takeNum) IN
       /\ \E o \in Offered : Prefetch(o, idx)
       /\ buf_bottom' = idx
  /\ IF buf_free >= takeNum
       THEN buf_count' = buf_count + 1 /\ UNCHANGED buf_top
       ELSE /\ buf_top' = Dec(buf_top, takeNum - buf_free)
            /\ buf_count' = buf_count + buf_free - takeNum + 1
  /\ pushFollowRem' = takeNum - 1

FollowNext ==
  /\ push_count = 0 /\ pushFollowRem # 0
  /\ \E o \in Offered : Prefetch(o, Inc(buf_work, 1))
  /\ pushFollowRem' = pushFollowRem - 1
  /\ buf_count' = buf_count + 1
  /\ UNCHANGED <<buf_top, buf_bottom>>

preMarkWord(v) == resolveForwardMark(Context("pre").obj, v)

\* Main waits for this entry: it gets it at once.
PreMarkToMain ==
  /\ MarkAnswered("pre")
  /\ waitForPrefetch /\ In("main", "IDLE") /\ buf_work = buf_bottom
  /\ \E v \in MarkRead("pre") :
       main_data' = [Context("pre") EXCEPT !.mark = preMarkWord(v)]
  /\ fsm' = [fsm EXCEPT !["pre"] = "IDLE", !["main"] = "SEND"]
  /\ waitForPrefetch' = FALSE
  /\ ConsumeBottom
  /\ Tidy /\ UNCHANGED <<push_data, stackVars, running, heap, unit, owed>>

EntryDone ==
  /\ MarkAnswered("pre")
  /\ \E v \in MarkRead("pre") :
       preBuf' = [preBuf EXCEPT ![buf_work].mark = preMarkWord(v)]
  /\ preBufDone' = [preBufDone EXCEPT ![buf_work] = TRUE]
  /\ Goto("pre", "IDLE")
  /\ Tidy /\ UNCHANGED window

PreMark ==
  /\ ~(waitForPrefetch /\ In("main", "IDLE") /\ buf_work = buf_bottom)
  /\ EntryDone
  /\ UNCHANGED <<context, waitForPrefetch, stackVars, running, heap, unit, owed>>

\* The entry is popped in the very cycle its answer comes in: main starts to
\* wait for an entry that is done.
PopAsAnswered ==
  /\ PopFires /\ bottomHit /\ ~preBufDone[buf_bottom] /\ buf_work = buf_bottom
  /\ EntryDone
  /\ waitForPrefetch' = TRUE
  /\ Popped /\ UNCHANGED main_data

-----------------------------------------------------------------------------
(* The units that process a task, GCTrace and the end. *)

\* A copy is placed: its forwarding pointer is in memory.
Install(o) ==
  /\ \/ /\ work = "copying" /\ main_data.obj = o /\ o \notin TypeArrays
        /\ work' = "installed"
     \/ o \in late /\ ~mem[o] /\ UNCHANGED work
  /\ mem' = [mem EXCEPT ![o] = TRUE]
  /\ Tidy
  /\ UNCHANGED <<fsm, context, slots, window, waitForPrefetch, rd, stackVars, running,
                 announced, late, trace, chunk, owed>>

Patched(c, o) == IF c.obj = o THEN [c EXCEPT !.mark = TRUE] ELSE c

\* writeForward: into the cache and into what has been read already.
Announce(o) ==
  /\ \/ /\ work = "installed" /\ main_data.obj = o
        /\ work' = "tracing" /\ trace' = Traced[o]
        /\ UNCHANGED late
     \/ o \in late /\ mem[o] /\ late' = late \ {o} /\ UNCHANGED <<work, trace>>
  /\ announced' = announced \cup {o}
  /\ fwdCache' = IF Forwarded(o) THEN fwdCache
                 ELSE Append(IF Len(fwdCache) < ForwardCacheEntries THEN fwdCache
                             ELSE Tail(fwdCache), o)
  /\ main_data' = Patched(main_data, o) /\ push_data' = Patched(push_data, o)
  /\ preBuf' = [s \in Slots |-> IF preBufDone[s] THEN Patched(preBuf[s], o) ELSE preBuf[s]]
  /\ UNCHANGED <<fsm, preBufDone, window, waitForPrefetch, rd, stackVars, running, mem,
                 chunk, owed>>

\* GCOopProcess says Done for a type array before it is copied.
LetGo ==
  /\ work = "copying" /\ main_data.obj \in TypeArrays
  /\ work' = "none" /\ late' = late \cup {main_data.obj}
  /\ Goto("main", "IDLE")
  /\ Tidy
  /\ UNCHANGED <<context, slots, window, waitForPrefetch, rd, stackVars, running, mem,
                 announced, trace, chunk, owed>>

Done ==
  /\ work = "tracing" /\ trace = <<>> /\ In("main", "WAIT_DONE")
  /\ work' = "none" /\ Goto("main", "IDLE")
  /\ Tidy
  /\ UNCHANGED <<context, slots, window, waitForPrefetch, rd, stackVars, running, heap,
                 trace, chunk, owed>>

\* Every task GCTrace finds but the last goes to the stack.
PushTask ==
  /\ work = "tracing" /\ Len(trace) > 1
  /\ stack' = <<Queued(trace[1])>> \o stack
  /\ push_count' = push_count + 1 /\ not_prefetch' = TRUE
  /\ trace' = Tail(trace)
  /\ owed' = [owed EXCEPT ![trace[1]] = @ + 1]
  /\ Tidy
  /\ UNCHANGED <<fsm, context, slots, window, waitForPrefetch, rd, pushPrePopRem,
                 pushPrePopOffset, running, heap, work, chunk>>

Finish ==
  /\ running /\ PopReady
  /\ stack = <<>> /\ push_count = 0 /\ pushPrePopRem = 0
  /\ running' = FALSE
  /\ Tidy
  /\ UNCHANGED <<fsm, context, slots, window, waitForPrefetch, rd, stackVars, heap, unit, owed>>

Main == PopReadyEntry \/ PopWaits \/ PopMiss \/ WaitOver \/ MainMark \/ Send
Push == TakeLast \/ PushMark \/ PushSend
Pre  == NormalPrefetch \/ FollowFirst \/ FollowNext \/ PreMarkToMain \/ PreMark
Next == \/ \E m \in Machines : ReadOop(m) \/ AsksMark(m)
        \/ Main \/ Push \/ Pre \/ PopAsAnswered
        \/ \E o \in Objects : Install(o) \/ Announce(o)
        \/ LetGo \/ Done \/ PushTask \/ Finish

Spec == Init /\ [][Next]_vars

\* Something that can move does: the clock runs, memory and units answer.
FairSpec == Spec /\ WF_vars(Next)

-----------------------------------------------------------------------------
(* Properties. *)

Contexts == [task : Tasks \cup {NoTask}, obj : Objects \cup {NoObject}, mark : BOOLEAN]

TypeOK ==
  /\ fsm \in [Machines -> {"IDLE", "READ_OOP_REQ", "READ_OOP_RESP", "READ_MW_REQ",
                           "READ_MW_RESP", "SEND", "WAIT_DONE"}]
  /\ main_data \in Contexts /\ push_data \in Contexts
  /\ preBuf \in [Slots -> Contexts] /\ preBufDone \in [Slots -> BOOLEAN]
  /\ buf_top \in Slots /\ buf_bottom \in Slots /\ buf_work \in Slots
  /\ buf_count \in 0 .. PreFetchBufferNum /\ pushFollowRem \in 0 .. PreFetchBufferNum - 1
  /\ waitForPrefetch \in BOOLEAN /\ rd \in [Machines -> BOOLEAN]
  /\ fwdCache \in Seq(Objects) /\ Len(fwdCache) <= ForwardCacheEntries
  /\ stack \in Seq([task : Tasks, seen : BOOLEAN])
  /\ push_count \in Nat /\ pushPrePopRem \in Nat /\ pushPrePopOffset \in Nat \ {0}
  /\ not_prefetch \in BOOLEAN /\ running \in BOOLEAN
  /\ mem \in [Objects -> BOOLEAN] /\ announced \subseteq Objects /\ late \subseteq Objects
  /\ work \in {"none", "copying", "installed", "tracing", "waiting"}
  /\ trace \in Seq(Tasks) /\ chunk \in [Partial -> Nat] /\ owed \in [Tasks -> Nat]

(* GCFetch and GCTaskStack count the batch they follow each for itself; they *)
(* never disagree, or Pop would stay blocked on one side for good.          *)
FollowInStep == pushFollowRem = pushPrePopRem

(* What a machine has under way, or main waits for, is not displaced: each  *)
(* task queued is handed over once, and none is owed when the job ends.     *)
Held(t) == Cardinality({i \in DOMAIN stack : stack[i].task = t})
           + (IF ~In("main", "IDLE") /\ ~In("main", "WAIT_DONE") /\ main_data.task = t THEN 1 ELSE 0)
           + (IF ~In("push", "IDLE") /\ push_data.task = t THEN 1 ELSE 0)
           + (IF waitForPrefetch /\ preBuf[buf_bottom].task = t THEN 1 ELSE 0)
HandedOverOnce == \A t \in Tasks : owed[t] = Held(t) /\ (running \/ owed[t] = 0)

(* The comment at the forwarding cache: a task is never handed over with a   *)
(* mark word from before a forwarding pointer that was announced, whichever *)
(* machine read it, however long it lay in the ring or was under way.       *)
DispatchFresh ==
  In("main", "SEND") /\ main_data.obj \in announced => dispatchMarkWord

\* The cache is emptied with every machine idle, as that comment says, and no
\* announcement drives another out.  Neither holds by itself: buf_count can
\* miss an entry pre still reads for, and the cache has a size.
CacheKept == /\ Clears => In("pre", "IDLE")
             /\ Len(fwdCache) < ForwardCacheEntries \/ \A o \in Objects : Forwarded(o)

(* What the cache owes DispatchFresh is that it keeps what was announced:   *)
(* the bursts, dropped entries and late answers do no harm otherwise.       *)
FreshWhileKept == []CacheKept => []DispatchFresh

(* The comment at waitForPrefetch: pre is finishing the entry main waits    *)
(* for.                                                                     *)
WaitServed ==
  waitForPrefetch =>
    preBufDone[buf_bottom] \/ (~In("pre", "IDLE") /\ buf_work = buf_bottom)

(* Main waits for an entry of its own task that pre does not work on.       *)
WaitStuck == /\ waitForPrefetch /\ In("main", "IDLE") /\ In("pre", "IDLE")
             /\ buf_count # 0 /\ ~preBufDone[buf_bottom]
             /\ owed[preBuf[buf_bottom].task] # 0

(* A job ends, but for that wait: no batch, push or entry blocks Pop for    *)
(* good.                                                                    *)
JobEnds == running ~> (~running \/ WaitStuck)
=============================================================================
