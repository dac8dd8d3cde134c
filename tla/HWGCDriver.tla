----------------------------- MODULE HWGCDriver -----------------------------
(***************************************************************************)
(* The driver of the QEMU device (qemu_dev/hwgc_driver): user threads      *)
(* start an operation, wait for events and reply to them; the interrupt    *)
(* handler fills TLB misses with pages of the starter's address space and  *)
(* publishes everything else as events; the driver may be unbound at any   *)
(* time.                                                                   *)
(*                                                                         *)
(* A step is a section under a spinlock, a write of the command register,  *)
(* or what lies between two of them.  op_lock is held over several steps.  *)
(* The device is modelled from its registers: it raises one request at a   *)
(* time and waits for CONTINUE, and RESET withdraws what it asked for.     *)
(* START on a busy or leaving driver and a REPLY to no event change        *)
(* nothing and are left out.                                               *)
(***************************************************************************)
EXTENDS Naturals, Sequences, FiniteSets

CONSTANTS
  Users,        \* threads that have the device open
  Pages,        \* pages the device may miss
  MaxPinned,    \* MAX_PINNED
  Raised,       \* the interrupts the device raises
  MaxOps,       \* bound: operations started
  MaxRequests,  \* bound: requests of the device that want an answer
  MaxFaults,    \* bound: failures of copy_to_user
  None          \* nobody

ReplyKinds == {"GROW", "EXPAND", "ALLOCATE", "WAKE"}
Terminal == {"DONE", "ERROR"}
Kinds == {"TLB_MISS"} \cup ReplyKinds \cup Terminal

ASSUME ConstantsAssumption ==
  /\ MaxPinned \in Nat /\ MaxOps \in Nat /\ MaxRequests \in Nat /\ MaxFaults \in Nat
  /\ Raised \subseteq Kinds /\ "DONE" \in Raised
  /\ None \notin Users \cup {"remove"} /\ "remove" \notin Users

VARIABLES
  user,        \* thread -> where it is, the event it was given, what it still has to do
  op_lock, op_active,
  active,      \* active_task and active_mm: whose address space is in use
  pinned,      \* the list of pinned pages
  refs,        \* page -> references the driver holds
  pending_irq,
  handler,     \* the interrupt handler: hard part, thread and the bits it works on
  current_event, event_pending, event_in_service, event_seq,
  removing,
  remover,     \* how far hwgc_platform_remove is
  dev,         \* the device
  ops, requests, faults,  \* counters for the bounds
  delivered    \* numbers of the events given to a thread

eventVars == <<current_event, event_pending, event_in_service, event_seq>>
pageVars  == <<active, pinned, refs>>
counters  == <<ops, requests, faults>>
vars == <<user, op_lock, op_active, pageVars, pending_irq, handler, eventVars,
          removing, remover, dev, counters, delivered>>

NoEvent == [type |-> "NONE", seq |-> 0, req |-> 0]
Device(state) == [state |-> state, irq |-> {}, kind |-> "NONE", req |-> requests,
                  page |-> None, mapped |-> {}]
Resting == [pc |-> "idle", work |-> {}, page |-> None]

Init ==
  /\ user = [u \in Users |-> [pc |-> "idle", ev |-> NoEvent, got |-> NoEvent, replied |-> TRUE]]
  /\ op_lock = None /\ op_active = FALSE
  /\ active = None /\ pinned = {} /\ refs = [p \in Pages |-> 0]
  /\ pending_irq = {} /\ handler = Resting
  /\ current_event = NoEvent /\ event_pending = FALSE /\ event_in_service = FALSE
  /\ event_seq = 0 /\ removing = FALSE /\ remover = "bound"
  /\ ops = 0 /\ requests = 0 /\ faults = 0
  /\ dev = Device("idle") /\ delivered = {}

-----------------------------------------------------------------------------
(* What the actions are made of. *)

At(u, pc) == user[u].pc = pc
Goto(u, pc) == user' = [user EXCEPT ![u].pc = pc]
Woken(threads) == [u \in Users |-> IF threads[u].pc = "W_sleep"
                                   THEN [threads[u] EXCEPT !.pc = "W_check"] ELSE threads[u]]
Wake == user' = Woken(user)

clear_event_state ==
  /\ current_event' = NoEvent
  /\ event_pending' = FALSE /\ event_in_service' = FALSE
  /\ UNCHANGED event_seq

unpin_all == /\ refs' = [p \in Pages |-> IF p \in pinned THEN refs[p] - 1 ELSE refs[p]]
             /\ pinned' = {}
release_process_context == active' = None

Reset == dev' = Device("idle")
Continue(mapped) ==
  dev' = IF dev.state = "waiting" THEN [dev EXCEPT !.state = "running", !.mapped = mapped]
                                  ELSE dev

CanPublish == ~removing /\ ~event_pending /\ ~event_in_service

\* Mutant: nobody is woken.
PublishSilently(k) ==
  /\ UNCHANGED <<event_in_service, user>>
  /\ IF CanPublish
       THEN /\ event_seq' = event_seq + 1 /\ event_pending' = TRUE
            /\ current_event' = [type |-> k, seq |-> event_seq + 1, req |-> dev.req]
       ELSE UNCHANGED <<event_seq, event_pending, current_event>>

publish_sw_event(k) ==
  IF CanPublish
    THEN /\ event_seq' = event_seq + 1
         /\ current_event' = [type |-> k, seq |-> event_seq + 1, req |-> dev.req]
         /\ event_pending' = TRUE
         /\ UNCHANGED event_in_service /\ Wake
    ELSE UNCHANGED <<eventVars, user>>

-----------------------------------------------------------------------------
(* HWGC_IOC_START *)

StartEnter(u) ==
  /\ At(u, "idle") /\ ops < MaxOps
  /\ op_lock = None /\ ~removing /\ ~op_active
  /\ op_lock' = u /\ active' = u /\ pinned' = {} /\ ops' = ops + 1
  /\ Goto(u, "S_clear")
  /\ UNCHANGED <<op_active, refs, pending_irq, handler, eventVars, removing, remover, dev,
                 requests, faults, delivered>>

StartClear(u) ==
  /\ At(u, "S_clear") /\ Goto(u, "S_active")
  /\ pending_irq' = {} /\ clear_event_state
  /\ UNCHANGED <<op_lock, op_active, pageVars, handler, removing, remover, dev, counters,
                 delivered>>

StartActive(u) ==
  /\ At(u, "S_active") /\ Goto(u, "S_device")
  /\ op_active' = TRUE
  /\ UNCHANGED <<op_lock, pageVars, pending_irq, handler, eventVars, removing, remover, dev,
                 counters, delivered>>

StartDevice(u) ==
  /\ At(u, "S_device") /\ Goto(u, "idle")
  /\ dev' = Device("running")
  /\ op_lock' = None
  /\ UNCHANGED <<op_active, pageVars, pending_irq, handler, eventVars, removing, remover,
                 counters, delivered>>

-----------------------------------------------------------------------------
(* HWGC_IOC_WAIT_EVENT; a thread replies to its event before it waits again. *)

WaitCall(u) ==
  /\ At(u, "idle") /\ user[u].replied
  /\ Goto(u, "W_check")
  /\ UNCHANGED <<op_lock, op_active, pageVars, pending_irq, handler, eventVars, removing,
                 remover, dev, counters, delivered>>

WaitCheck(u) ==
  /\ At(u, "W_check")
  /\ Goto(u, IF event_pending \/ removing \/ ~op_active THEN "W_take" ELSE "W_sleep")
  /\ UNCHANGED <<op_lock, op_active, pageVars, pending_irq, handler, eventVars, removing,
                 remover, dev, counters, delivered>>

WaitInterrupted(u) ==
  /\ At(u, "W_sleep") /\ Goto(u, "idle")
  /\ UNCHANGED <<op_lock, op_active, pageVars, pending_irq, handler, eventVars, removing,
                 remover, dev, counters, delivered>>

\* Mutant: the event stays pending.
TakeAndLeave(u) ==
  /\ At(u, "W_take")
  /\ IF removing \/ ~event_pending
       THEN Goto(u, "idle") /\ UNCHANGED event_in_service
       ELSE /\ user' = [user EXCEPT ![u].pc = "W_copy", ![u].ev = current_event]
            /\ event_in_service' = (current_event.type \in ReplyKinds)
  /\ UNCHANGED <<op_lock, op_active, pageVars, pending_irq, handler, current_event,
                 event_pending, event_seq, removing, remover, dev, counters, delivered>>

WaitTake(u) ==
  /\ At(u, "W_take")
  /\ IF removing \/ ~event_pending
       THEN Goto(u, "idle") /\ UNCHANGED eventVars
       ELSE /\ user' = [user EXCEPT ![u].pc = "W_copy", ![u].ev = current_event]
            /\ event_pending' = FALSE
            /\ event_in_service' = (current_event.type \in ReplyKinds)
            /\ UNCHANGED <<current_event, event_seq>>
  /\ UNCHANGED <<op_lock, op_active, pageVars, pending_irq, handler, removing, remover, dev,
                 counters, delivered>>

CopyToUser(u) ==
  /\ At(u, "W_copy")
  /\ IF user[u].ev.type \in Terminal
       THEN user' = [user EXCEPT ![u].pc = "F_lock", ![u].ev = NoEvent]
       ELSE user' = [user EXCEPT ![u] = [pc |-> "idle", ev |-> NoEvent, got |-> @.ev,
                                         replied |-> FALSE]]
  /\ delivered' = delivered \cup {user[u].ev.seq}
  /\ UNCHANGED <<op_lock, op_active, pageVars, pending_irq, handler, eventVars, removing,
                 remover, dev, counters>>

CopyFails(u) ==
  /\ At(u, "W_copy") /\ faults < MaxFaults /\ faults' = faults + 1
  /\ IF removing THEN UNCHANGED eventVars
     ELSE /\ current_event' = user[u].ev
          /\ event_pending' = TRUE /\ event_in_service' = FALSE /\ UNCHANGED event_seq
  /\ user' = Woken([user EXCEPT ![u].pc = "idle", ![u].ev = NoEvent])
  /\ UNCHANGED <<op_lock, op_active, pageVars, pending_irq, handler, removing, remover, dev,
                 ops, requests, delivered>>

(* hwgc_finish_operation, by the thread that was given DONE or ERROR *)

FinishLock(u) ==
  /\ At(u, "F_lock") /\ op_lock = None
  /\ IF op_active THEN op_lock' = u /\ Goto(u, "F_sync")
                  ELSE UNCHANGED op_lock /\ Goto(u, "idle")
  /\ UNCHANGED <<op_active, pageVars, pending_irq, handler, eventVars, removing, remover, dev,
                 counters, delivered>>

FinishSync(u) ==
  /\ At(u, "F_sync") /\ handler.pc = "idle"
  /\ Goto(u, "F_release")
  /\ UNCHANGED <<op_lock, op_active, pageVars, pending_irq, handler, eventVars, removing,
                 remover, dev, counters, delivered>>

FinishRelease(u) ==
  /\ At(u, "F_release") /\ Goto(u, "F_clear")
  /\ unpin_all /\ release_process_context
  /\ UNCHANGED <<op_lock, op_active, pending_irq, handler, eventVars, removing, remover, dev,
                 counters, delivered>>

FinishClear(u) ==
  /\ At(u, "F_clear") /\ Goto(u, "F_off")
  /\ clear_event_state
  /\ UNCHANGED <<op_lock, op_active, pageVars, pending_irq, handler, removing, remover, dev,
                 counters, delivered>>

\* Mutant: the lock is kept.
FinishLocked(u) ==
  /\ At(u, "F_off")
  /\ user' = Woken([user EXCEPT ![u].pc = "idle"])
  /\ op_active' = FALSE
  /\ UNCHANGED <<op_lock, pageVars, pending_irq, handler, eventVars, removing, remover, dev,
                 counters, delivered>>

FinishOff(u) ==
  /\ At(u, "F_off")
  /\ user' = Woken([user EXCEPT ![u].pc = "idle"])
  /\ op_active' = FALSE /\ op_lock' = None
  /\ UNCHANGED <<pageVars, pending_irq, handler, eventVars, removing, remover, dev, counters,
                 delivered>>

-----------------------------------------------------------------------------
(* HWGC_IOC_REPLY_EVENT: a thread replies to the event it was given, maybe   *)
(* again and long after.                                                     *)

\* Mutant: any event in service is good.
ReplyAny(u) ==
  /\ At(u, "idle") /\ user[u].got # NoEvent
  /\ IF ~removing /\ event_in_service
       THEN /\ event_in_service' = FALSE /\ current_event' = NoEvent
            /\ UNCHANGED <<event_pending, event_seq>>
            /\ user' = [user EXCEPT ![u].pc = "R_write", ![u].replied = TRUE]
       ELSE /\ user' = [user EXCEPT ![u].replied = TRUE] /\ UNCHANGED eventVars
  /\ UNCHANGED <<op_lock, op_active, pageVars, pending_irq, handler, removing, remover, dev,
                 counters, delivered>>

Reply(u) ==
  /\ At(u, "idle") /\ user[u].got # NoEvent
  /\ IF /\ ~removing /\ event_in_service
        /\ user[u].got.seq = current_event.seq /\ user[u].got.type = current_event.type
       THEN /\ event_in_service' = FALSE /\ current_event' = NoEvent
            /\ UNCHANGED <<event_pending, event_seq>>
            /\ user' = [user EXCEPT ![u].pc = "R_write", ![u].replied = TRUE]
       ELSE /\ user' = [user EXCEPT ![u].replied = TRUE] /\ UNCHANGED eventVars
  /\ UNCHANGED <<op_lock, op_active, pageVars, pending_irq, handler, removing, remover, dev,
                 counters, delivered>>

ReplyWrite(u) ==
  /\ At(u, "R_write") /\ Goto(u, "idle")
  /\ Continue(dev.mapped)
  /\ UNCHANGED <<op_lock, op_active, pageVars, pending_irq, handler, eventVars, removing,
                 remover, counters, delivered>>

-----------------------------------------------------------------------------
(* The interrupt handler: hwgc_irq_top, then hwgc_irq_thread, which the line *)
(* stays masked for (IRQF_ONESHOT).                                          *)

IrqTop ==
  /\ handler.pc = "idle" /\ dev.irq # {} /\ remover # "gone"
  /\ handler' = [handler EXCEPT !.pc = "top", !.work = dev.irq]
  /\ UNCHANGED <<user, op_lock, op_active, pageVars, pending_irq, eventVars, removing, remover,
                 dev, counters, delivered>>

IrqClear ==
  /\ handler.pc = "top" /\ handler' = [handler EXCEPT !.pc = "queued", !.work = {}]
  /\ dev' = [dev EXCEPT !.irq = @ \ handler.work]
  /\ pending_irq' = pending_irq \cup handler.work
  /\ UNCHANGED <<user, op_lock, op_active, pageVars, eventVars, removing, remover, counters,
                 delivered>>

IrqThread ==
  /\ handler.pc = "queued" /\ handler' = [handler EXCEPT !.pc = "thread", !.work = pending_irq]
  /\ pending_irq' = {}
  /\ UNCHANGED <<user, op_lock, op_active, pageVars, eventVars, removing, remover, dev,
                 counters, delivered>>

IrqReturn ==
  /\ handler.pc = "thread" /\ handler.work = {}
  /\ handler' = Resting
  /\ UNCHANGED <<user, op_lock, op_active, pageVars, pending_irq, eventVars, removing, remover,
                 dev, counters, delivered>>

\* The bits are looked at in this order.
Order == <<"TLB_MISS", "DONE", "GROW", "EXPAND", "ALLOCATE", "WAKE", "ERROR">>
Working(k) ==
  /\ handler.pc = "thread" /\ k \in handler.work
  /\ \A m, n \in DOMAIN Order : Order[n] = k /\ m < n => Order[m] \notin handler.work
Goes(pc) == handler' = [handler EXCEPT !.pc = pc]
Handled(k) == handler' = [handler EXCEPT !.pc = "thread", !.work = @ \ {k}]

\* The address missed is read once; a device just reset has none.
FillTlb ==
  /\ Working("TLB_MISS")
  /\ handler' = [handler EXCEPT !.page = dev.page,
                   !.pc = IF active = None \/ dev.page = None THEN "abort" ELSE "fill"]
  /\ UNCHANGED <<user, op_lock, op_active, pageVars, pending_irq, eventVars, removing, remover,
                 dev, counters, delivered>>

\* get_user_pages_remote and hwgc_remember_pinned; the first may fail.
PinPage ==
  /\ handler.pc = "fill"
  /\ \/ /\ handler.page \in pinned \/ Cardinality(pinned) < MaxPinned
        /\ pinned' = pinned \cup {handler.page}
        /\ refs' = IF handler.page \in pinned THEN refs
                                              ELSE [refs EXCEPT ![handler.page] = @ + 1]
        /\ Goes("answer")
     \/ UNCHANGED <<pinned, refs>> /\ Goes("abort")
  /\ UNCHANGED <<user, op_lock, op_active, active, pending_irq, eventVars, removing, remover,
                 dev, counters, delivered>>

AnswerMiss ==
  /\ handler.pc = "answer" /\ Handled("TLB_MISS")
  /\ Continue(dev.mapped \cup {handler.page})
  /\ UNCHANGED <<user, op_lock, op_active, pageVars, pending_irq, eventVars, removing, remover,
                 counters, delivered>>

PublishEvent(k) ==
  /\ k \in ReplyKinds \cup {"DONE"} /\ Working(k)
  /\ publish_sw_event(k)
  /\ IF CanPublish THEN Handled(k) ELSE Goes("abort")
  /\ UNCHANGED <<op_lock, op_active, pageVars, pending_irq, removing, remover, dev, counters,
                 delivered>>

DeviceError ==
  /\ Working("ERROR") /\ Goes("abort")
  /\ UNCHANGED <<user, op_lock, op_active, pageVars, pending_irq, eventVars, removing, remover,
                 dev, counters, delivered>>

\* Mutant: the device is left running.
AbortRunning ==
  /\ handler.pc = "abort" /\ Goes("report")
  /\ UNCHANGED <<user, op_lock, op_active, pageVars, pending_irq, eventVars, removing, remover,
                 dev, counters, delivered>>

\* hwgc_abort_operation_from_irq
Abort ==
  /\ handler.pc = "abort" /\ Goes("report")
  /\ Reset
  /\ UNCHANGED <<user, op_lock, op_active, pageVars, pending_irq, eventVars, removing, remover,
                 counters, delivered>>

ReportError ==
  /\ handler.pc = "report" /\ handler' = Resting
  /\ publish_sw_event("ERROR")
  /\ UNCHANGED <<op_lock, op_active, pageVars, pending_irq, removing, remover, dev, counters,
                 delivered>>

-----------------------------------------------------------------------------
(* hwgc_platform_remove *)

RemoveMark ==
  /\ remover = "bound" /\ remover' = "lock"
  /\ removing' = TRUE /\ clear_event_state /\ Wake
  /\ UNCHANGED <<op_lock, op_active, pageVars, pending_irq, handler, dev, counters, delivered>>

RemoveReset ==
  /\ remover = "lock" /\ op_lock = None
  /\ op_lock' = "remove" /\ remover' = "sync"
  /\ Reset
  /\ UNCHANGED <<user, op_active, pageVars, pending_irq, handler, eventVars, removing, counters,
                 delivered>>

\* Mutant: synchronize_irq is left out.
RemoveNoSync ==
  /\ remover = "sync" /\ remover' = "release"
  /\ UNCHANGED <<user, op_lock, op_active, pageVars, pending_irq, handler, eventVars, removing,
                 dev, counters, delivered>>

RemoveSync ==
  /\ remover = "sync" /\ handler.pc = "idle" /\ remover' = "release"
  /\ UNCHANGED <<user, op_lock, op_active, pageVars, pending_irq, handler, eventVars, removing,
                 dev, counters, delivered>>

RemoveRelease ==
  /\ remover = "release" /\ remover' = "free"
  /\ unpin_all /\ release_process_context
  /\ op_active' = FALSE /\ op_lock' = None
  /\ UNCHANGED <<user, pending_irq, handler, eventVars, removing, dev, counters, delivered>>

FreeIrq ==
  /\ remover = "free" /\ handler.pc = "idle" /\ remover' = "gone"
  /\ UNCHANGED <<user, op_lock, op_active, pageVars, pending_irq, handler, eventVars, removing,
                 dev, counters, delivered>>

-----------------------------------------------------------------------------
(* The device. *)

DeviceRequest(k) ==
  /\ dev.state = "running" /\ k \in Raised \ Terminal /\ requests < MaxRequests
  /\ requests' = requests + 1
  /\ \E p \in IF k = "TLB_MISS" THEN Pages ELSE {None} :
       dev' = [dev EXCEPT !.state = "waiting", !.irq = {k}, !.kind = k, !.page = p,
                          !.req = requests + 1]
  /\ UNCHANGED <<user, op_lock, op_active, pageVars, pending_irq, handler, eventVars, removing,
                 remover, ops, faults, delivered>>

DeviceEnds(k) ==
  /\ dev.state = "running" /\ k \in Raised \cap Terminal
  /\ dev' = [dev EXCEPT !.state = "ended", !.irq = {k}, !.kind = k]
  /\ UNCHANGED <<user, op_lock, op_active, pageVars, pending_irq, handler, eventVars, removing,
                 remover, counters, delivered>>

-----------------------------------------------------------------------------
StartSteps(u) == StartClear(u) \/ StartActive(u) \/ StartDevice(u)
WaitSteps(u) == WaitCall(u) \/ WaitCheck(u) \/ WaitTake(u) \/ CopyToUser(u)
FinishSteps(u) ==
  FinishLock(u) \/ FinishSync(u) \/ FinishRelease(u) \/ FinishClear(u) \/ FinishOff(u)
IrqSteps ==
  \/ IrqTop \/ IrqClear \/ IrqThread \/ IrqReturn \/ FillTlb \/ PinPage \/ AnswerMiss
  \/ \E k \in Kinds : PublishEvent(k)
  \/ DeviceError \/ Abort \/ ReportError
RemoveSteps == RemoveReset \/ RemoveSync \/ RemoveRelease \/ FreeIrq
DeviceSteps == \E k \in Raised : DeviceRequest(k) \/ DeviceEnds(k)

Next ==
  \/ \E u \in Users :
       \/ StartEnter(u) \/ StartSteps(u) \/ WaitSteps(u) \/ WaitInterrupted(u)
       \/ CopyFails(u) \/ FinishSteps(u) \/ Reply(u) \/ ReplyWrite(u)
  \/ IrqSteps \/ RemoveMark \/ RemoveSteps \/ DeviceSteps

Spec == Init /\ [][Next]_vars

\* Threads that entered the driver go on, and every thread keeps waiting for
\* events and replying to them; the kernel runs handlers; the device works.
\* Nobody has to start an operation or to unbind the driver.
ThreadSteps(u) ==
  \/ StartSteps(u) \/ WaitSteps(u) \/ CopyFails(u) \/ FinishSteps(u) \/ ReplyWrite(u)
  \/ ~user[u].replied /\ Reply(u)
Fairness ==
  /\ \A u \in Users : WF_vars(ThreadSteps(u))
  /\ WF_vars(IrqSteps) /\ WF_vars(RemoveSteps) /\ WF_vars(DeviceSteps)

FairSpec == Spec /\ Fairness

-----------------------------------------------------------------------------
(* Properties. *)

UserStates == {"idle", "S_clear", "S_active", "S_device", "W_check", "W_sleep", "W_take",
  "W_copy", "F_lock", "F_sync", "F_release", "F_clear", "F_off", "R_write"}
Events == [type : Kinds \cup {"NONE"}, seq : Nat, req : Nat]

TypeOK ==
  /\ user \in [Users -> [pc : UserStates, ev : Events, got : Events, replied : BOOLEAN]]
  /\ op_lock \in Users \cup {None, "remove"} /\ op_active \in BOOLEAN
  /\ active \in Users \cup {None}
  /\ pinned \subseteq Pages /\ refs \in [Pages -> Nat]
  /\ pending_irq \subseteq Kinds /\ handler.work \subseteq Kinds
  /\ handler.page \in Pages \cup {None}
  /\ handler.pc \in {"idle", "top", "queued", "thread", "fill", "answer", "abort", "report"}
  /\ current_event \in Events /\ event_seq \in Nat
  /\ event_pending \in BOOLEAN /\ event_in_service \in BOOLEAN
  /\ removing \in BOOLEAN /\ remover \in {"bound", "lock", "sync", "release", "free", "gone"}
  /\ dev.state \in {"idle", "running", "waiting", "ended"} /\ dev.mapped \subseteq Pages
  /\ delivered \subseteq Nat

\* Before hwgc_finish_operation releases: "Make sure no IRQ thread is still
\* using active_task, active_mm, or pinned pages".  While the device works or
\* the handler fills a miss, the starter's address space is held and every page
\* the device was given is pinned; every reference taken is in the list.
DeviceMemoryPinned ==
  /\ dev.state \in {"running", "waiting"} => active # None /\ dev.mapped \subseteq pinned
  /\ handler.pc \in {"fill", "answer"} => active # None
  /\ handler.pc = "answer" => handler.page \in pinned
  /\ \A p \in Pages : refs[p] = IF p \in pinned THEN 1 ELSE 0

\* The device has one set of result registers: whoever is about to write them
\* answers the request the device is waiting with (unless it was reset by
\* hwgc_platform_remove).  A reply sent twice, or late, is never written.
AnswersAwaited ==
  remover \in {"bound", "lock"} =>
    /\ \A u \in Users : At(u, "R_write") =>
         /\ dev.state = "waiting" /\ dev.kind \in ReplyKinds
         /\ dev.req = user[u].got.req
         /\ \A v \in Users : At(v, "R_write") => u = v
    /\ handler.pc \in {"fill", "answer"} => dev.state = "waiting" /\ dev.kind = "TLB_MISS"

\* No event is given twice, and none is given late: threads get them in the
\* order in which they were published, also when one had to be put back.
DeliveredInOrder ==
  [][\A u \in Users : CopyToUser(u) => \A s \in delivered : s < user[u].ev.seq]_vars

\* After the driver was unbound the device is still and nothing is held, even
\* if an operation was being started or finished at that moment.
NothingLeftBehind ==
  remover \in {"free", "gone"} =>
    /\ dev.state = "idle" /\ ~op_active
    /\ active = None /\ pinned = {} /\ op_lock = None

\* An operation ends, whatever fails on the way, if the threads wait for events
\* and reply (until the driver's memory is freed).
OperationEnds == op_active ~> (~op_active \/ remover = "gone")

\* Unbinding comes to its end: every path gives the lock back that it takes.
RemoveEnds == removing ~> remover = "gone"
=============================================================================
