--------------------------- MODULE Drivers_proofs ---------------------------
(***************************************************************************)
(* Proofs about the drivers, for any number of threads, pages, operations, *)
(* requests and failures.                                                  *)
(*                                                                         *)
(* Of HWGCDriver and its PCI variant: DriverInv is inductive by itself:    *)
(* one event at a time, one interrupt bit to handle, who holds op_lock,    *)
(* and what stays allocated.  EventInv, inductive under it, is about the   *)
(* numbers of the events and what the device waits for.  Of the            *)
(* demonstration drivers: XorInv and EduInv; of the module: ModInv; of the *)
(* binding: BindInv, which every driver keeps whose lists of steps are in  *)
(* the right order.  There is one lemma per handler for each of them.      *)
(* DriversInv puts them together for the specification that the run        *)
(* checks, MCSpec.                                                         *)
(***************************************************************************)
EXTENDS MCDrivers, TLAPS

\* PciNext groups the steps of Next by the functions of the other file, and
\* leaves none out.
LEMMA PciSteps == PciNext <=> Next
<1>1. ASSUME NEW u \in Users
      PROVE  pci_ioctl(u) \/ pci_finish_operation(u) <=>
               \/ StartEnter(u) \/ StartSteps(u) \/ WaitSteps(u) \/ WaitInterrupted(u)
               \/ CopyFails(u) \/ FinishSteps(u) \/ Reply(u) \/ ReplyWrite(u)
  BY DEF pci_ioctl, pci_start_ioctl, pci_wait_event_ioctl, pci_reply_event_ioctl,
         pci_finish_operation
<1>2. pci_irq_top \/ pci_irq_thread \/ pci_fill_tlb_for_miss \/ pci_remember_pinned
        \/ pci_abort_operation_from_irq <=> IrqSteps
  BY DEF pci_irq_top, pci_irq_thread, pci_fill_tlb_for_miss, pci_remember_pinned,
         pci_abort_operation_from_irq, IrqSteps
<1>3. pci_remove <=> RemoveMark \/ RemoveSteps
  BY DEF pci_remove
<1>. QED  BY <1>1, <1>2, <1>3 DEF PciNext, Next

\* So the two specifications are one, by construction.
LEMMA PciIsPlatform == PciSpec <=> Spec
BY PciSteps, PTL DEF PciSpec, Spec

-----------------------------------------------------------------------------
(* The invariant. *)

Starting  == {"S_clear", "S_active", "S_device"}
Released  == {"F_release", "F_clear", "F_off"}
Finishing == {"F_sync"} \cup Released
Holding   == {"W_copy", "R_write", "F_lock"} \cup Finishing

\* What an event is while it lasts: pending, in the hands of a thread, or with a
\* thread that still has to reply.
Held(u)  == user[u].pc \in Holding
EventOut == event_pending \/ event_in_service \/ \E u \in Users : Held(u)
EndOut ==
  \/ event_pending /\ current_event.type \in Terminal
  \/ \E u \in Users : \/ At(u, "W_copy") /\ user[u].ev.type \in Terminal
                      \/ user[u].pc \in {"F_lock"} \cup Finishing

Bits  == dev.irq \cup pending_irq \cup handler.work
Still == Bits = {} /\ handler.pc \in {"idle", "thread"}
Busy  == dev.state \in {"running", "waiting"} \/ dev.irq # {} \/ handler.pc # "idle"
Stopped == dev.state \in {"idle", "ended"}

HandlerStates == {"idle", "top", "queued", "thread", "fill", "answer", "abort", "report"}
HandlerType == [pc : HandlerStates, work : SUBSET Kinds, page : Pages \cup {None}]
DeviceType == [state : {"idle", "running", "waiting", "ended"}, irq : SUBSET Kinds,
               kind : Kinds \cup {"NONE"}, req : Nat, page : Pages \cup {None},
               mapped : SUBSET Pages]
UserType == [pc : UserStates, ev : Events, got : Events, replied : BOOLEAN]

Types ==
  /\ user \in [Users -> UserType]
  /\ op_lock \in Users \cup {None, "remove"} /\ op_active \in BOOLEAN
  /\ active \in Users \cup {None}
  /\ pinned \subseteq Pages /\ refs \in [Pages -> Nat]
  /\ pending_irq \subseteq Kinds /\ handler \in HandlerType /\ dev \in DeviceType
  /\ current_event \in Events /\ event_seq \in Nat
  /\ event_pending \in BOOLEAN /\ event_in_service \in BOOLEAN
  /\ removing \in BOOLEAN /\ remover \in {"bound", "lock", "sync", "release", "free", "gone"}
  /\ requests \in Nat /\ ops \in Nat /\ faults \in Nat /\ delivered \subseteq Nat

LockHeld ==
  /\ \A u \in Users : user[u].pc \in Starting \cup Finishing => op_lock = u
  /\ remover \in {"sync", "release"} => op_lock = "remove"

EventOnce ==
  /\ \A u, v \in Users : Held(u) /\ Held(v) => u = v
  /\ event_pending => ~event_in_service /\ \A u \in Users : ~Held(u)
  /\ event_in_service =>
       \A u \in Users : Held(u) =>
         At(u, "W_copy") /\ user[u].ev = current_event /\ current_event.type \notin Terminal

Numbered ==
  /\ \A u \in Users : user[u].got.seq <= event_seq
  /\ event_pending =>
       current_event.seq <= event_seq /\ \A u \in Users : user[u].got.seq < current_event.seq
  /\ \A u \in Users : At(u, "W_copy") =>
       user[u].ev.seq <= event_seq /\ \A v \in Users : user[v].got.seq < user[u].ev.seq

Settled ==
  /\ dev.state = "running" \/ EventOut => Still
  /\ EventOut => dev.state # "running"
  /\ EndOut => Stopped
  /\ \A u \in Users : user[u].pc \in Released => handler.pc = "idle"

Handling ==
  /\ \E k \in Kinds : Bits \subseteq {k}
  /\ "DONE" \in Bits => Stopped
  /\ pending_irq # {} => handler.pc = "queued"
  /\ handler.pc = "idle" => handler.work = {}
  /\ handler.pc \in {"top", "fill", "answer", "abort", "report"} => handler.work # {}
  /\ dev.irq # {} => pending_irq = {} /\ (handler.work = {} \/ handler.pc = "top")
  /\ handler.pc \in {"fill", "answer"} => handler.work = {"TLB_MISS"} /\ handler.page \in Pages
  /\ handler.pc = "report" => dev.state = "idle"
  /\ dev.state = "idle" => dev.irq = {}

Operating ==
  /\ Busy => op_active
  /\ EventOut => op_active \/ removing
  /\ \A u \in Users : user[u].pc \in Starting => ~Busy /\ ~EventOut /\ active # None
  /\ \A u \in Users : At(u, "S_device") => op_active
  /\ op_active => active # None \/ \E u \in Users : user[u].pc \in {"F_clear", "F_off"}
  /\ pinned # {} => op_active /\ \A u \in Users : user[u].pc \notin {"F_clear", "F_off"}

Pinning ==
  /\ dev.state \in {"running", "waiting"} => dev.mapped \subseteq pinned
  /\ handler.pc = "answer" => handler.page \in pinned
  /\ \A p \in Pages : refs[p] = IF p \in pinned THEN 1 ELSE 0

Unbinding ==
  /\ remover # "bound" => removing
  /\ remover \in {"sync", "release", "free", "gone"} => dev.state = "idle"
  /\ remover \in {"release", "free", "gone"} => handler.pc = "idle"
  /\ remover \in {"free", "gone"} =>
       op_lock = None /\ ~op_active /\ active = None /\ pinned = {}

DriverInv ==
  /\ Types /\ LockHeld /\ EventOnce /\ Numbered /\ Settled /\ Handling /\ Operating
  /\ Pinning /\ Unbinding

\* Every thread but u is where it was; u is at pc with the event it had.
Moves(u, pc) ==
  /\ \A v \in Users : user'[v].ev = user[v].ev /\ user'[v].got = user[v].got
  /\ \A v \in Users : user'[v].pc = IF v = u THEN pc ELSE user[v].pc

\* Goto moves one thread and leaves its events alone.
LEMMA GotoMoves ==
  ASSUME Types, NEW u \in Users, NEW pc \in UserStates, Goto(u, pc)
  PROVE  user' \in [Users -> UserType] /\ Moves(u, pc)
BY DEF Types, Goto, UserType, Moves

\* From w to x threads moved only where the invariant does not look.
Seen == Starting \cup Holding
Rests(w, x) ==
  \A v \in Users : /\ x[v].ev = w[v].ev /\ x[v].got = w[v].got
                   /\ x[v].pc = w[v].pc \/ (w[v].pc \notin Seen /\ x[v].pc \notin Seen)

\* Where a thread only waits, the invariant does not look.
LEMMA Unseen ==
  "idle" \notin Seen /\ "W_check" \notin Seen /\ "W_sleep" \notin Seen /\ "W_take" \notin Seen
BY DEF Seen, Starting, Holding, Finishing, Released

\* Waking the sleepers moves threads only where the invariant does not look.
LEMMA WokenRests ==
  ASSUME NEW w \in [Users -> UserType]
  PROVE  Woken(w) \in [Users -> UserType] /\ Rests(w, Woken(w))
<1>1. ASSUME NEW v \in Users
      PROVE  /\ Woken(w)[v] \in UserType
             /\ Woken(w)[v].ev = w[v].ev /\ Woken(w)[v].got = w[v].got
             /\ \/ Woken(w)[v].pc = w[v].pc
                \/ w[v].pc = "W_sleep" /\ Woken(w)[v].pc = "W_check"
  <2>1. w[v] \in UserType
    OBVIOUS
  <2>2. CASE w[v].pc = "W_sleep"
    <3>1. Woken(w)[v] = [w[v] EXCEPT !.pc = "W_check"]
      BY <2>2 DEF Woken
    <3>. QED  BY <2>1, <2>2, <3>1 DEF UserType, UserStates
  <2>3. CASE w[v].pc # "W_sleep"
    <3>1. Woken(w)[v] = w[v]
      BY <2>3 DEF Woken
    <3>. QED  BY <2>1, <3>1
  <2>. QED  BY <2>2, <2>3
<1>2. Woken(w) \in [Users -> UserType]
  BY <1>1 DEF Woken
<1>. QED  BY <1>1, <1>2, Unseen DEF Rests

\* Then the same threads hold events.
LEMMA RestsEvents ==
  ASSUME Rests(user, user')
  PROVE  /\ \A u \in Users : Held(u)' <=> Held(u)
         /\ \A u \in Users : user'[u].pc \in Seen <=> user[u].pc \in Seen
         /\ \A u \in Users : user[u].pc \in Seen => user'[u].pc = user[u].pc
BY DEF Rests, Held, Seen

\* A step that only moves threads there keeps the invariant.
LEMMA RestsKeeps ==
  ASSUME DriverInv, user' \in [Users -> UserType], Rests(user, user'),
         UNCHANGED <<op_lock, op_active, pageVars, pending_irq, handler, eventVars,
                     removing, remover, dev, counters, delivered>>
  PROVE  DriverInv'
<1>. USE DEF DriverInv
<1>1. Types'
  BY DEF Types, pageVars, eventVars, counters
<1>2. /\ \A u \in Users : user'[u].pc \in Seen \/ user[u].pc \in Seen => user'[u].pc = user[u].pc
      /\ \A u \in Users : user'[u].ev = user[u].ev /\ user'[u].got = user[u].got
  BY DEF Rests
<1>3. \A u \in Users : Held(u)' <=> Held(u)
  BY <1>2 DEF Held, Seen
<1>4. LockHeld'
  BY <1>2 DEF LockHeld, Seen, Holding
<1>5. EventOnce'
  BY <1>2, <1>3 DEF EventOnce, eventVars, At, Held, Seen, Holding
<1>6. Numbered'
  BY <1>2 DEF Numbered, eventVars, At, Seen, Holding
<1>7. EventOut' = EventOut
  BY <1>3 DEF EventOut, eventVars
<1>8. EndOut' = EndOut
  BY <1>2 DEF EndOut, eventVars, At, Seen, Holding
<1>9. Settled'
  BY <1>2, <1>7, <1>8 DEF Settled, Still, Bits, Stopped, Seen, Holding, Finishing
<1>10. Handling'
  BY DEF Handling, Bits, Stopped
<1>11. \A u \in Users : /\ user'[u].pc \in Starting <=> user[u].pc \in Starting
                        /\ At(u, "S_device")' <=> At(u, "S_device")
                        /\ user'[u].pc \in {"F_clear", "F_off"} <=>
                             user[u].pc \in {"F_clear", "F_off"}
  BY <1>2 DEF Seen, At, Starting, Holding, Finishing, Released
<1>12. Operating'
  BY <1>7, <1>11 DEF Operating, Busy, pageVars
<1>13. Pinning' /\ Unbinding'
  BY DEF Pinning, Unbinding, pageVars
<1>. QED  BY <1>1, <1>4, <1>5, <1>6, <1>9, <1>10, <1>12, <1>13

\* HWGC_IOC_START: op_lock is free, so nobody else starts or finishes.
LEMMA StartEnterKeeps ==
  ASSUME DriverInv, NEW u \in Users, StartEnter(u)
  PROVE  DriverInv'
<1>. USE DEF DriverInv
<1>1. user' \in [Users -> UserType] /\ Moves(u, "S_clear") /\ At(u, "idle")
  BY GotoMoves DEF StartEnter, UserStates
<1>2. Types'
  BY <1>1, ConstantsAssumption DEF StartEnter, Types, eventVars
<1>3. LockHeld'
  BY <1>1, ConstantsAssumption DEF StartEnter, LockHeld, Unbinding, Moves, Starting,
     Finishing, Released
<1>4. EventOnce' /\ EventOut' = EventOut /\ EndOut' = EndOut
  BY <1>1 DEF StartEnter, EventOnce, EventOut, EndOut, Moves, Held, Holding, Finishing, Released,
     At, eventVars
<1>5. Numbered'
  BY <1>1 DEF StartEnter, Numbered, Moves, At, eventVars
<1>6. Settled'
  BY <1>1, <1>4 DEF StartEnter, Settled, Moves, Still, Bits, Stopped, Released
<1>7. Handling'
  BY DEF StartEnter, Handling, Bits, Stopped
<1>8. Operating'
  <2>1. ~Busy /\ ~EventOut /\ Busy' = Busy
    BY DEF StartEnter, Operating, Busy
  <2>2. \A v \in Users : v # u => user[v].pc \notin Starting
    BY ConstantsAssumption DEF StartEnter, LockHeld
  <2>3. \A v \in Users : user'[v].pc \in Starting => ~Busy' /\ ~EventOut' /\ active' # None
    BY <1>1, <1>4, <2>1, <2>2, ConstantsAssumption DEF StartEnter, Moves
  <2>4. \A v \in Users : At(v, "S_device")' => op_active'
    BY <1>1, <2>2 DEF StartEnter, Moves, Starting, At
  <2>5. op_active' = op_active /\ ~op_active /\ pinned' = {}
    BY DEF StartEnter
  <2>. QED  BY <1>4, <2>1, <2>3, <2>4, <2>5 DEF Operating
<1>9. Pinning'
  BY DEF StartEnter, Pinning, Operating, Busy, Handling
<1>10. Unbinding'
  BY DEF StartEnter, Unbinding
<1>. QED  BY <1>2, <1>3, <1>4, <1>5, <1>6, <1>7, <1>8, <1>9, <1>10

\* The events of the operation before are cleared: none is out.
LEMMA StartClearKeeps ==
  ASSUME DriverInv, NEW u \in Users, StartClear(u)
  PROVE  DriverInv'
<1>. USE DEF DriverInv
<1>1. user' \in [Users -> UserType] /\ Moves(u, "S_active") /\ At(u, "S_clear")
  BY GotoMoves DEF StartClear, UserStates
<1>2. op_lock = u /\ ~Busy /\ ~EventOut /\ active # None /\ u # None /\ u # "remove"
  BY <1>1, ConstantsAssumption DEF LockHeld, Operating, At, Starting
<1>3. Types'
  BY <1>1 DEF StartClear, Types, clear_event_state, Events, Kinds, NoEvent, pageVars, counters
<1>4. LockHeld'
  BY <1>1, <1>2 DEF StartClear, LockHeld, Moves, At, Starting
<1>5. ~EventOut' /\ ~EndOut'
  <2>1. \A v \in Users : ~Held(v)'
    BY <1>1, <1>2 DEF Moves, EventOut, Held, Holding, Finishing, Released
  <2>2. ~event_pending' /\ ~event_in_service'
    BY <1>2 DEF StartClear, clear_event_state, EventOut
  <2>. QED  BY <2>1, <2>2 DEF EventOut, EndOut, Held, Holding, At
<1>6. EventOnce'
  BY <1>5 DEF EventOnce, EventOut
<1>7. Numbered'
  BY <1>1, <1>5 DEF StartClear, clear_event_state, Numbered, Moves, EventOut, Held, Holding, At
<1>8. Settled'
  BY <1>1, <1>2, <1>5 DEF StartClear, Settled, Moves, Busy, Released, Still, Bits
<1>9. Handling'
  BY <1>2 DEF StartClear, Handling, Bits, Stopped
<1>10. Operating'
  BY <1>1, <1>2, <1>5 DEF StartClear, Operating, Moves, Busy, At, Starting, pageVars
<1>11. Pinning' /\ Unbinding'
  BY DEF StartClear, Pinning, Unbinding, pageVars
<1>. QED  BY <1>3, <1>4, <1>6, <1>7, <1>8, <1>9, <1>10, <1>11

\* op_active is set while the device is still.
LEMMA StartActiveKeeps ==
  ASSUME DriverInv, NEW u \in Users, StartActive(u)
  PROVE  DriverInv'
<1>. USE DEF DriverInv
<1>1. user' \in [Users -> UserType] /\ Moves(u, "S_device") /\ At(u, "S_active")
  BY GotoMoves DEF StartActive, UserStates
<1>2. op_lock = u /\ ~Busy /\ ~EventOut /\ active # None /\ u # None /\ u # "remove"
  BY <1>1, ConstantsAssumption DEF LockHeld, Operating, At, Starting
<1>3. Types'
  BY <1>1 DEF StartActive, Types, pageVars, eventVars, counters
<1>4. LockHeld'
  BY <1>1, <1>2 DEF StartActive, LockHeld, Moves, At, Starting
<1>5. ~EventOut' /\ ~EndOut'
  <2>1. \A v \in Users : ~Held(v)'
    BY <1>1, <1>2 DEF Moves, EventOut, Held, Holding, Finishing, Released
  <2>2. ~event_pending' /\ ~event_in_service'
    BY <1>2 DEF StartActive, eventVars, EventOut
  <2>. QED  BY <2>1, <2>2 DEF EventOut, EndOut, Held, Holding, At
<1>6. EventOnce'
  BY <1>5 DEF EventOnce, EventOut
<1>7. Numbered'
  BY <1>1, <1>5 DEF StartActive, eventVars, Numbered, Moves, EventOut, Held, Holding, At
<1>8. Settled'
  BY <1>1, <1>2, <1>5 DEF StartActive, Settled, Moves, Busy, Released, Still, Bits
<1>9. Handling'
  BY DEF StartActive, Handling, Bits, Stopped
<1>10. Operating'
  <2>1. ~Busy' /\ active' # None /\ op_active' /\ pinned' = pinned
    BY <1>2 DEF StartActive, Busy, pageVars
  <2>2. \A v \in Users : user[v].pc \notin {"F_clear", "F_off"}
    BY <1>2 DEF EventOut, Held, Holding, Finishing, Released
  <2>3. \A v \in Users : user'[v].pc \notin {"F_clear", "F_off"}
    BY <1>1, <2>2 DEF Moves
  <2>. QED  BY <1>5, <2>1, <2>3 DEF Operating
<1>11. Pinning' /\ Unbinding'
  BY <1>2 DEF StartActive, Pinning, Unbinding, LockHeld, pageVars
<1>. QED  BY <1>3, <1>4, <1>6, <1>7, <1>8, <1>9, <1>10, <1>11

\* The device is started under op_lock, with no bit left to handle.
LEMMA StartDeviceKeeps ==
  ASSUME DriverInv, NEW u \in Users, StartDevice(u)
  PROVE  DriverInv'
<1>. USE DEF DriverInv
<1>1. user' \in [Users -> UserType] /\ Moves(u, "idle") /\ At(u, "S_device")
  BY GotoMoves DEF StartDevice, UserStates
<1>2. op_lock = u /\ ~Busy /\ ~EventOut /\ active # None /\ u # None /\ u # "remove" /\ op_active
  BY <1>1, ConstantsAssumption DEF LockHeld, Operating, At, Starting
<1>3. /\ dev'.state = "running" /\ dev'.irq = {} /\ dev'.mapped = {} /\ dev'.page = None
      /\ dev' \in DeviceType
  BY DEF StartDevice, Device, DeviceType, Types
<1>4. Types'
  BY <1>1, <1>3 DEF StartDevice, Types, pageVars, eventVars, counters
<1>5. \A v \in Users : v # u => user[v].pc \notin Starting \cup Finishing
  BY <1>2 DEF LockHeld
<1>6. remover \in {"bound", "lock"}
  BY <1>2 DEF LockHeld, Unbinding, Types
<1>7. LockHeld'
  BY <1>1, <1>5, <1>6 DEF StartDevice, LockHeld, Moves, Starting, Finishing, Released
<1>8. ~EventOut' /\ ~EndOut'
  BY <1>1, <1>2 DEF StartDevice, eventVars, EventOut, EndOut, Moves, Held, Holding, At,
     Finishing, Released
<1>9. EventOnce'
  BY <1>8 DEF EventOnce, EventOut
<1>10. Numbered'
  BY <1>1, <1>8 DEF StartDevice, eventVars, Numbered, Moves, EventOut, Held, Holding, At
<1>11. pending_irq = {} /\ handler.work = {} /\ handler.pc = "idle" /\ handler' = handler
       /\ pending_irq' = pending_irq
  BY <1>2 DEF StartDevice, Busy, Handling
<1>12. Settled'
  BY <1>1, <1>3, <1>8, <1>11 DEF Settled, Moves, Still, Bits
<1>13. Handling'
  BY <1>3, <1>11 DEF Handling, Bits
<1>14. Operating'
  <2>1. active' = active /\ op_active' = op_active /\ pinned' = pinned
    BY DEF StartDevice, pageVars
  <2>2. \A v \in Users : user'[v].pc \notin {"F_clear", "F_off"} \cup Starting
    BY <1>1, <1>2, <1>5 DEF Moves, EventOut, Held, Holding, Finishing, Released, Starting
  <2>. QED  BY <1>2, <1>8, <2>1, <2>2 DEF Operating, At, Starting
<1>15. Pinning'
  BY <1>3, <1>11 DEF StartDevice, Pinning, pageVars
<1>16. Unbinding'
  BY <1>6 DEF StartDevice, Unbinding
<1>. QED  BY <1>4, <1>7, <1>9, <1>10, <1>12, <1>13, <1>14, <1>15, <1>16

\* HWGC_IOC_WAIT_EVENT up to the event.
LEMMA WaitKeeps ==
  ASSUME DriverInv, NEW u \in Users, WaitCall(u) \/ WaitCheck(u) \/ WaitInterrupted(u)
  PROVE  DriverInv'
<1>1. PICK pc \in {"W_check", "W_take", "W_sleep", "idle"} : Goto(u, pc)
  BY DEF WaitCall, WaitCheck, WaitInterrupted
<1>2. user' \in [Users -> UserType] /\ Moves(u, pc) /\ pc \notin Seen
  BY <1>1, GotoMoves, Unseen DEF DriverInv, UserStates
<1>3. user[u].pc \notin Seen
  BY Unseen DEF WaitCall, WaitCheck, WaitInterrupted, At
<1>4. Rests(user, user')
  BY <1>2, <1>3 DEF Moves, Rests
<1>. QED  BY <1>2, <1>4, RestsKeeps DEF WaitCall, WaitCheck, WaitInterrupted

\* A pending event passes into the hands of one thread.
LEMMA WaitTakeKeeps ==
  ASSUME DriverInv, NEW u \in Users, WaitTake(u)
  PROVE  DriverInv'
<1>1. CASE removing \/ ~event_pending
  <2>1. user' \in [Users -> UserType] /\ Moves(u, "idle") /\ At(u, "W_take")
    BY <1>1, GotoMoves DEF DriverInv, WaitTake, UserStates
  <2>2. Rests(user, user')
    BY <2>1, Unseen DEF Moves, Rests, At
  <2>. QED  BY <1>1, <2>1, <2>2, RestsKeeps DEF WaitTake
<1>2. CASE ~removing /\ event_pending
  <2>. USE DEF DriverInv
  <2>1. /\ At(u, "W_take") /\ user' \in [Users -> UserType]
        /\ \A v \in Users : user'[v].got = user[v].got
        /\ \A v \in Users : v # u => user'[v] = user[v]
        /\ user'[u].pc = "W_copy" /\ user'[u].ev = current_event
    BY <1>2 DEF WaitTake, Types, UserType, UserStates
  <2>2. event_pending' = FALSE /\ event_in_service' = (current_event.type \in ReplyKinds)
        /\ current_event' = current_event /\ event_seq' = event_seq
    BY <1>2 DEF WaitTake
  <2>3. Types'
    <3>1. event_pending' \in BOOLEAN
      BY <2>2
    <3>2. event_in_service' \in BOOLEAN
      <4>1. CASE current_event.type \in ReplyKinds
        BY <2>2, <4>1
      <4>2. CASE current_event.type \notin ReplyKinds
        BY <2>2, <4>2
      <4>. QED  BY <4>1, <4>2
    <3>. QED  BY <2>1, <2>2, <3>1, <3>2 DEF WaitTake, Types, pageVars, counters
  <2>4. LockHeld'
    BY <2>1 DEF WaitTake, LockHeld, At, Starting, Finishing, Released
  <2>5. \A v \in Users : ~Held(v) /\ (Held(v)' <=> v = u)
    BY <1>2, <2>1 DEF EventOnce, Held, Holding
  <2>6. EventOnce'
    BY <2>1, <2>2, <2>5 DEF EventOnce, At, Terminal, ReplyKinds
  <2>7. Numbered'
    BY <1>2, <2>1, <2>2, <2>5 DEF Numbered, At, Held, Holding
  <2>8. EventOut /\ EventOut' /\ (EndOut' => EndOut)
    <3>1. EventOut /\ EventOut'
      BY <1>2, <2>5 DEF EventOut
    <3>2. ASSUME EndOut' PROVE current_event.type \in Terminal
      <4>1. PICK v \in Users : \/ At(v, "W_copy")' /\ user'[v].ev.type \in Terminal
                               \/ user'[v].pc \in {"F_lock"} \cup Finishing
        BY <2>2, <3>2 DEF EndOut
      <4>2. v = u
        BY <2>5, <4>1 DEF Held, Holding, At
      <4>. QED  BY <2>1, <4>1, <4>2 DEF Finishing, Released, At
    <3>. QED  BY <1>2, <3>1, <3>2 DEF EndOut
  <2>9. Settled'
    BY <2>1, <2>8 DEF WaitTake, Settled, Still, Bits, Stopped, Released
  <2>10. Handling'
    BY DEF WaitTake, Handling, Bits, Stopped
  <2>11. Operating'
    BY <2>1, <2>8 DEF WaitTake, Operating, Busy, At, pageVars, Starting
  <2>12. Pinning' /\ Unbinding'
    BY DEF WaitTake, Pinning, Unbinding, pageVars
  <2>. QED  BY <2>3, <2>4, <2>6, <2>7, <2>9, <2>10, <2>11, <2>12
<1>. QED  BY <1>1, <1>2 DEF DriverInv, Types

\* There is one event at a time: nobody else holds one, and none is pending.
LEMMA OnlyHolder ==
  ASSUME DriverInv, NEW u \in Users, Held(u)
  PROVE  /\ \A v \in Users : v # u => ~Held(v)
         /\ ~event_pending /\ EventOut
BY DEF DriverInv, EventOnce, EventOut

\* An event is given: a terminal one leaves its thread to finish.
LEMMA CopyToUserKeeps ==
  ASSUME DriverInv, NEW u \in Users, CopyToUser(u)
  PROVE  DriverInv'
<1>. USE DEF DriverInv
<1>1. At(u, "W_copy") /\ Held(u)
  BY DEF CopyToUser, At, Held, Holding
<1>2. /\ \A v \in Users : v # u => ~Held(v)
      /\ ~event_pending /\ EventOut
  BY <1>1, OnlyHolder
<1>3. /\ user' \in [Users -> UserType]
      /\ \A v \in Users : v # u => user'[v] = user[v]
      /\ user[u].ev.type \in Terminal => user'[u].pc = "F_lock" /\ user'[u].got = user[u].got
      /\ user[u].ev.type \notin Terminal => user'[u].pc = "idle" /\ user'[u].got = user[u].ev
  <2>1. user[u] \in UserType /\ NoEvent \in Events
    BY DEF Types, NoEvent, Events, Kinds
  <2>2. CASE user[u].ev.type \in Terminal
    <3>1. [user[u] EXCEPT !.pc = "F_lock", !.ev = NoEvent] \in UserType
      BY <2>1 DEF UserType, UserStates
    <3>2. user' = [user EXCEPT ![u] = [user[u] EXCEPT !.pc = "F_lock", !.ev = NoEvent]]
      BY <2>2 DEF CopyToUser, Types
    <3>. QED  BY <2>1, <2>2, <3>1, <3>2 DEF Types, UserType
  <2>3. CASE user[u].ev.type \notin Terminal
    <3>1. [pc |-> "idle", ev |-> NoEvent, got |-> user[u].ev, replied |-> FALSE] \in UserType
      BY <2>1 DEF UserType, UserStates
    <3>2. user' = [user EXCEPT ![u] = [pc |-> "idle", ev |-> NoEvent, got |-> user[u].ev,
                                       replied |-> FALSE]]
      BY <2>3 DEF CopyToUser
    <3>. QED  BY <2>1, <2>3, <3>1, <3>2 DEF Types
  <2>. QED  BY <2>2, <2>3
<1>4. UNCHANGED <<op_lock, op_active, active, pinned, refs, pending_irq, handler,
                  current_event, event_pending, event_in_service, event_seq, removing,
                  remover, dev, ops, requests, faults>>
  BY DEF CopyToUser, pageVars, eventVars, counters
<1>5. Types'
  <2>1. user[u].ev.seq \in Nat
    BY <1>1 DEF Types, UserType, Events
  <2>2. delivered' \subseteq Nat
    BY <2>1 DEF CopyToUser, Types
  <2>. QED  BY <1>3, <1>4, <2>2 DEF Types
<1>6. user[u].pc \notin Starting \cup Finishing /\ user'[u].pc \notin Starting \cup Finishing
  BY <1>1, <1>3 DEF At, Starting, Finishing, Released
<1>7. LockHeld'
  BY <1>3, <1>4, <1>6 DEF LockHeld
<1>8. \A v \in Users : v # u => ~Held(v)'
  BY <1>2, <1>3 DEF Held
<1>9. EventOnce'
  <2>1. event_in_service => user[u].ev.type \notin Terminal
    BY <1>1 DEF EventOnce
  <2>2. event_in_service => ~Held(u)'
    BY <1>3, <2>1 DEF Held, Holding, Finishing, Released
  <2>. QED  BY <1>2, <1>4, <1>8, <2>2 DEF EventOnce
<1>10. Numbered'
  <2>1. \A v \in Users : ~At(v, "W_copy")'
    BY <1>3, <1>8 DEF At, Held, Holding
  <2>2. user[u].ev.seq <= event_seq
    BY <1>1 DEF Numbered
  <2>. QED  BY <1>2, <1>3, <1>4, <2>1, <2>2 DEF Numbered
<1>11. EndOut' => EndOut
  <2>1. ASSUME EndOut' PROVE user[u].ev.type \in Terminal
    <3>1. PICK v \in Users : \/ At(v, "W_copy")' /\ user'[v].ev.type \in Terminal
                             \/ user'[v].pc \in {"F_lock"} \cup Finishing
      BY <1>2, <1>4, <2>1 DEF EndOut
    <3>2. v = u
      BY <1>8, <3>1 DEF Held, Holding, At
    <3>. QED  BY <1>3, <3>1, <3>2 DEF At, Finishing, Released
  <2>. QED  BY <1>1, <2>1 DEF EndOut
<1>12. Settled'
  BY <1>2, <1>3, <1>4, <1>6, <1>11 DEF Settled, Still, Bits, Stopped, Finishing
<1>13. Handling' /\ Pinning' /\ Unbinding'
  BY <1>4 DEF Handling, Bits, Stopped, Pinning, Unbinding
<1>14. Operating'
  <2>1. \A v \in Users : user[v].pc \notin Starting
    BY <1>2 DEF Operating
  <2>2. \A v \in Users : /\ user'[v].pc \notin Starting
                         /\ user'[v].pc \in {"F_clear", "F_off"} <=>
                             user[v].pc \in {"F_clear", "F_off"}
    BY <1>3, <1>6, <2>1 DEF Finishing, Released
  <2>3. ~At(u, "S_device")' /\ \A v \in Users : ~At(v, "S_device")'
    BY <2>2 DEF At, Starting
  <2>. QED  BY <1>2, <1>4, <2>2, <2>3 DEF Operating, Busy
<1>. QED  BY <1>5, <1>7, <1>9, <1>10, <1>12, <1>13, <1>14

\* An event is put back, unless the driver is leaving: no other was pending.
LEMMA CopyFailsKeeps ==
  ASSUME DriverInv, NEW u \in Users, CopyFails(u)
  PROVE  DriverInv'
<1>. USE DEF DriverInv
<1>1. At(u, "W_copy") /\ Held(u)
  BY DEF CopyFails, At, Held, Holding
<1>2. /\ \A v \in Users : v # u => ~Held(v)
      /\ ~event_pending /\ EventOut
  BY <1>1, OnlyHolder
<1>3. /\ user' \in [Users -> UserType]
      /\ \A v \in Users : user'[v].got = user[v].got
      /\ \A v \in Users : v # u /\ user[v].pc \in Seen => user'[v].pc = user[v].pc
      /\ \A v \in Users : v # u /\ user[v].pc \notin Seen => user'[v].pc \notin Seen
      /\ user'[u].pc \notin Seen
  <2>. DEFINE back == [user EXCEPT ![u].pc = "idle", ![u].ev = NoEvent]
  <2>1. /\ back \in [Users -> UserType] /\ \A v \in Users : v # u => back[v] = user[v]
        /\ back[u].pc = "idle" /\ back[u].got = user[u].got
    <3>1. NoEvent \in Events /\ "idle" \in UserStates
      BY DEF UserStates, NoEvent, Events, Kinds
    <3>2. user \in [Users -> UserType]
      BY DEF Types
    <3>. QED  BY <3>1, <3>2 DEF UserType
  <2>2. user' = Woken(back)
    BY DEF CopyFails
  <2>3. user' \in [Users -> UserType] /\ Rests(back, user')
    BY <2>1, <2>2, WokenRests
  <2>. QED  BY <2>1, <2>3, Unseen DEF Rests
<1>4. UNCHANGED <<op_lock, op_active, active, pinned, refs, pending_irq, handler,
                  removing, remover, dev, ops, requests, delivered>>
  BY DEF CopyFails, pageVars
<1>5. \/ removing /\ UNCHANGED <<current_event, event_pending, event_in_service, event_seq>>
      \/ /\ current_event' = user[u].ev /\ event_pending' = TRUE
         /\ event_in_service' = FALSE /\ event_seq' = event_seq
  BY DEF CopyFails, eventVars
<1>6. Types'
  <2>1. faults' \in Nat
    BY DEF CopyFails, Types
  <2>2. user[u].ev \in Events
    BY DEF Types, UserType
  <2>. QED  BY <1>3, <1>4, <1>5, <2>1, <2>2 DEF Types
<1>7. \A v \in Users : ~Held(v)'
  BY <1>2, <1>3 DEF Held, Seen
<1>8. \A v \in Users : user'[v].pc \in Starting \cup Finishing => user[v].pc = user'[v].pc
  BY <1>3 DEF Seen, Holding
<1>9. LockHeld'
  BY <1>4, <1>8 DEF LockHeld
<1>10. EventOnce'
  BY <1>2, <1>5, <1>7 DEF EventOnce
<1>11. Numbered'
  BY <1>1, <1>2, <1>3, <1>5, <1>7 DEF Numbered, At, Held, Holding
<1>12. EndOut' => EndOut
  BY <1>1, <1>2, <1>5, <1>7 DEF EndOut, At, Held, Holding
<1>13. Settled'
  BY <1>2, <1>4, <1>7, <1>12 DEF Settled, Still, Bits, Stopped, Held, Holding, Finishing
<1>14. Handling' /\ Pinning' /\ Unbinding'
  BY <1>4 DEF Handling, Bits, Stopped, Pinning, Unbinding
<1>15. Operating'
  <2>1. \A v \in Users : user[v].pc \notin Starting
    BY <1>2 DEF Operating
  <2>2. \A v \in Users : user'[v].pc \notin Starting
    BY <1>8, <2>1
  <2>3. \A v \in Users : ~At(v, "S_device")'
    BY <2>2 DEF At, Starting
  <2>4. \A v \in Users : user'[v].pc \notin {"F_clear", "F_off"}
    BY <1>7 DEF Held, Holding, Finishing, Released
  <2>5. \A v \in Users : v # u => user[v].pc \notin {"F_clear", "F_off"}
    BY <1>2 DEF Held, Holding, Finishing, Released
  <2>6. user[u].pc \notin {"F_clear", "F_off"}
    BY <1>1 DEF At
  <2>. QED  BY <1>2, <1>4, <2>2, <2>3, <2>4, <2>5, <2>6 DEF Operating, Busy
<1>. QED  BY <1>6, <1>9, <1>10, <1>11, <1>13, <1>14, <1>15

\* hwgc_finish_operation takes op_lock.
LEMMA FinishLockKeeps ==
  ASSUME DriverInv, NEW u \in Users, FinishLock(u)
  PROVE  DriverInv'
<1>. USE DEF DriverInv
<1>. DEFINE pc == IF op_active THEN "F_sync" ELSE "idle"
<1>1. user' \in [Users -> UserType] /\ Moves(u, pc) /\ At(u, "F_lock") /\ Held(u)
  BY GotoMoves DEF FinishLock, UserStates, At, Held, Holding
<1>2. /\ \A v \in Users : v # u => ~Held(v)
      /\ ~event_pending /\ EventOut
  BY <1>1, OnlyHolder
<1>3. UNCHANGED <<op_active, active, pinned, refs, pending_irq, handler, current_event,
                  event_pending, event_in_service, event_seq, removing, remover, dev, ops,
                  requests, faults, delivered>>
  BY DEF FinishLock, pageVars, eventVars, counters
<1>4. op_lock = None /\ op_lock' = (IF op_active THEN u ELSE op_lock)
  BY DEF FinishLock
<1>5. ~event_in_service /\ Stopped
  BY <1>1 DEF EventOnce, Settled, EndOut, At
<1>6. \A v \in Users : user[v].pc \notin Starting \cup Finishing
  BY <1>4, ConstantsAssumption DEF LockHeld
<1>7. Types'
  BY <1>1, <1>3, <1>4 DEF Types
<1>8. LockHeld'
  <2>1. remover \notin {"sync", "release"}
    BY <1>4, ConstantsAssumption DEF LockHeld
  <2>. QED  BY <1>1, <1>3, <1>4, <1>6, <2>1 DEF LockHeld, Moves, Starting, Finishing, Released
<1>9. \A v \in Users : v # u => ~Held(v)'
  BY <1>1, <1>2 DEF Held, Moves
<1>10. EventOnce'
  BY <1>2, <1>3, <1>5, <1>9 DEF EventOnce
<1>11. Numbered'
  <2>1. \A v \in Users : ~At(v, "W_copy")'
    BY <1>1, <1>9 DEF At, Held, Holding, Moves
  <2>. QED  BY <1>1, <1>2, <1>3, <2>1 DEF Numbered, Moves
<1>12. Settled'
  <2>1. user'[u].pc \notin Released /\ \A v \in Users : user'[v].pc \notin Released
    BY <1>1, <1>6 DEF Moves, Released, Finishing
  <2>. QED  BY <1>2, <1>3, <1>5, <2>1 DEF Settled, Still, Bits, Stopped
<1>13. Handling' /\ Pinning'
  BY <1>3 DEF Handling, Bits, Stopped, Pinning
<1>14. Unbinding'
  BY <1>3, <1>4 DEF Unbinding
<1>15. Operating'
  <2>1. \A v \in Users : user'[v].pc \notin Starting /\ user'[v].pc \notin {"F_clear", "F_off"}
    BY <1>1, <1>6 DEF Moves, Starting, Finishing, Released
  <2>2. \A v \in Users : ~At(v, "S_device")'
    BY <2>1 DEF At, Starting
  <2>3. \A v \in Users : user[v].pc \notin {"F_clear", "F_off"}
    BY <1>6 DEF Finishing, Released
  <2>. QED  BY <1>2, <1>3, <2>1, <2>2, <2>3 DEF Operating, Busy
<1>. QED  BY <1>7, <1>8, <1>10, <1>11, <1>12, <1>13, <1>14, <1>15

\* What holds while a thread finishes an operation: it has the last event and
\* the lock, and nothing of the device or the handler is left to do.
LEMMA Finisher ==
  ASSUME DriverInv, NEW u \in Users, user[u].pc \in Finishing
  PROVE  /\ op_lock = u /\ u # None /\ u # "remove" /\ Held(u) /\ EventOut
         /\ \A v \in Users : v # u => ~Held(v) /\ user[v].pc \notin Starting
         /\ ~event_pending /\ ~event_in_service /\ Stopped /\ Still
         /\ remover \in {"bound", "lock"}
<1>. USE DEF DriverInv
<1>1. Held(u) /\ op_lock = u /\ u # None /\ u # "remove"
  BY ConstantsAssumption DEF Held, Holding, LockHeld
<1>2. EndOut
  BY DEF EndOut
<1>3. ~event_in_service
  BY <1>1 DEF EventOnce, At, Finishing, Released
<1>4. remover \in {"bound", "lock"}
  BY <1>1 DEF LockHeld, Unbinding, Types
<1>. QED  BY <1>1, <1>2, <1>3, <1>4, OnlyHolder DEF Settled, Operating

\* The handler is at rest after synchronize_irq, and no bit is left for it.
LEMMA FinishSyncKeeps ==
  ASSUME DriverInv, NEW u \in Users, FinishSync(u)
  PROVE  DriverInv'
<1>. USE DEF DriverInv
<1>1. user' \in [Users -> UserType] /\ Moves(u, "F_release") /\ At(u, "F_sync")
      /\ user[u].pc \in Finishing
  BY GotoMoves DEF FinishSync, UserStates, At, Finishing
<1>2. UNCHANGED <<op_lock, op_active, active, pinned, refs, pending_irq, handler, current_event,
                  event_pending, event_in_service, event_seq, removing, remover, dev, ops,
                  requests, faults, delivered>>
  BY DEF FinishSync, pageVars, eventVars, counters
<1>3. handler.pc = "idle"
  BY DEF FinishSync
<1>4. \A v \in Users : (Held(v)' <=> Held(v)) /\ (v # u => ~Held(v))
  BY <1>1, Finisher DEF Moves, Held, Holding, Finishing, Released
<1>5. LockHeld' /\ Types'
  BY <1>1, <1>2 DEF LockHeld, Types, Moves, At, Finishing, Released, Starting
<1>6. EventOnce' /\ EventOut
  BY <1>1, <1>2, <1>4, Finisher DEF EventOnce
<1>7. Numbered'
  BY <1>1, <1>2 DEF Numbered, Moves, At
<1>8. Settled'
  BY <1>1, <1>2, <1>3, Finisher DEF Settled, Still, Bits, Stopped
<1>9. Handling' /\ Pinning' /\ Unbinding'
  BY <1>2 DEF Handling, Bits, Stopped, Pinning, Unbinding
<1>10. Operating'
  BY <1>1, <1>2, <1>6, Finisher DEF Operating, Busy, Moves, Starting, At
<1>. QED  BY <1>5, <1>6, <1>7, <1>8, <1>9, <1>10

\* The pages are let go while the device is still.
LEMMA FinishReleaseKeeps ==
  ASSUME DriverInv, NEW u \in Users, FinishRelease(u)
  PROVE  DriverInv'
<1>. USE DEF DriverInv
<1>1. user' \in [Users -> UserType] /\ Moves(u, "F_clear") /\ At(u, "F_release")
      /\ user[u].pc \in Finishing
  BY GotoMoves DEF FinishRelease, UserStates, At, Finishing, Released
<1>2. UNCHANGED <<op_lock, op_active, pending_irq, handler, current_event,
                  event_pending, event_in_service, event_seq, removing, remover, dev, ops,
                  requests, faults, delivered>>
  BY DEF FinishRelease, eventVars, counters
<1>3. pinned' = {} /\ active' = None /\ refs' = [p \in Pages |-> 0]
  BY DEF FinishRelease, unpin_all, release_process_context, Pinning
<1>4. handler.pc = "idle"
  BY <1>1 DEF Settled, At, Released
<1>5. \A v \in Users : (Held(v)' <=> Held(v)) /\ (v # u => ~Held(v))
  BY <1>1, Finisher DEF Moves, Held, Holding, Finishing, Released
<1>6. LockHeld' /\ Types'
  BY <1>1, <1>2, <1>3 DEF LockHeld, Types, Moves, At, Finishing, Released, Starting
<1>7. EventOnce' /\ EventOut
  BY <1>1, <1>2, <1>5, Finisher DEF EventOnce
<1>8. Numbered'
  BY <1>1, <1>2 DEF Numbered, Moves, At
<1>9. Settled'
  BY <1>1, <1>2, <1>4, Finisher DEF Settled, Still, Bits, Stopped
<1>10. Handling' /\ Unbinding'
  BY <1>1, <1>2, Finisher DEF Handling, Bits, Stopped, Unbinding
<1>11. Pinning'
  BY <1>1, <1>2, <1>3, <1>4, Finisher DEF Pinning, Stopped
<1>12. Operating'
  <2>1. \A v \in Users : user'[v].pc \notin Starting
    BY <1>1, Finisher DEF Moves, Starting
  <2>2. \A v \in Users : ~At(v, "S_device")'
    BY <2>1 DEF At, Starting
  <2>3. user'[u].pc \in {"F_clear", "F_off"}
    BY <1>1 DEF Moves
  <2>. QED  BY <1>2, <1>3, <1>7, <2>1, <2>2, <2>3 DEF Operating, Busy
<1>. QED  BY <1>6, <1>7, <1>8, <1>9, <1>10, <1>11, <1>12

\* The events are cleared before op_active is.
LEMMA FinishClearKeeps ==
  ASSUME DriverInv, NEW u \in Users, FinishClear(u)
  PROVE  DriverInv'
<1>. USE DEF DriverInv
<1>1. user' \in [Users -> UserType] /\ Moves(u, "F_off") /\ At(u, "F_clear")
      /\ user[u].pc \in Finishing
  BY GotoMoves DEF FinishClear, UserStates, At, Finishing, Released
<1>2. UNCHANGED <<op_lock, op_active, active, pinned, refs, pending_irq, handler,
                  event_seq, removing, remover, dev, ops, requests, faults, delivered>>
  BY DEF FinishClear, clear_event_state, pageVars, counters
<1>3. current_event' = NoEvent /\ event_pending' = FALSE /\ event_in_service' = FALSE
  BY DEF FinishClear, clear_event_state
<1>4. handler.pc = "idle" /\ NoEvent \in Events
  BY <1>1 DEF Settled, At, Released, NoEvent, Events
<1>5. \A v \in Users : (Held(v)' <=> Held(v)) /\ (v # u => ~Held(v))
  BY <1>1, Finisher DEF Moves, Held, Holding, Finishing, Released
<1>6. LockHeld' /\ Types'
  BY <1>1, <1>2, <1>3, <1>4 DEF LockHeld, Types, Moves, At, Finishing, Released, Starting
<1>7. EventOnce' /\ EventOut
  BY <1>1, <1>3, <1>5, Finisher DEF EventOnce
<1>8. Numbered'
  BY <1>1, <1>2, <1>3 DEF Numbered, Moves, At
<1>9. Settled'
  BY <1>1, <1>2, <1>4, Finisher DEF Settled, Still, Bits, Stopped
<1>10. Handling' /\ Unbinding' /\ Pinning'
  BY <1>2 DEF Handling, Bits, Stopped, Unbinding, Pinning
<1>11. Operating'
  <2>1. \A v \in Users : user'[v].pc \notin Starting
    BY <1>1, Finisher DEF Moves, Starting
  <2>2. \A v \in Users : ~At(v, "S_device")'
    BY <2>1 DEF At, Starting
  <2>3. user'[u].pc \in {"F_clear", "F_off"} /\ pinned = {}
    BY <1>1 DEF Moves, Operating, At
  <2>. QED  BY <1>2, <1>7, <2>1, <2>2, <2>3 DEF Operating, Busy
<1>. QED  BY <1>6, <1>7, <1>8, <1>9, <1>10, <1>11

\* The operation is over and op_lock is free again.
LEMMA FinishOffKeeps ==
  ASSUME DriverInv, NEW u \in Users, FinishOff(u)
  PROVE  DriverInv'
<1>. USE DEF DriverInv
<1>1. At(u, "F_off") /\ user[u].pc \in Finishing
  BY DEF FinishOff, At, Finishing, Released
<1>2. UNCHANGED <<active, pinned, refs, pending_irq, handler, current_event, event_pending,
                  event_in_service, event_seq, removing, remover, dev, ops, requests, faults,
                  delivered>>
      /\ op_active' = FALSE /\ op_lock' = None
  BY DEF FinishOff, pageVars, eventVars, counters
<1>3. /\ user' \in [Users -> UserType]
      /\ \A v \in Users : user'[v].got = user[v].got /\ user'[v].pc \notin Seen
  <2>. DEFINE back == [user EXCEPT ![u].pc = "idle"]
  <2>1. /\ back \in [Users -> UserType] /\ \A v \in Users : v # u => back[v] = user[v]
        /\ back[u].pc = "idle" /\ back[u].got = user[u].got
    BY DEF Types, UserType, UserStates
  <2>2. user' = Woken(back)
    BY DEF FinishOff
  <2>3. user' \in [Users -> UserType] /\ Rests(back, user')
    BY <2>1, <2>2, WokenRests
  <2>4. \A v \in Users : v # u => user[v].pc \notin Seen
    BY <1>1, Finisher DEF Held, Seen
  <2>. QED  BY <2>1, <2>3, <2>4, Unseen DEF Rests
<1>4. handler.pc = "idle" /\ pinned = {}
  BY <1>1 DEF Settled, Operating, At, Released
<1>5. \A v \in Users : ~Held(v)' /\ user'[v].pc \notin Starting \cup Finishing
  BY <1>3 DEF Held, Seen, Holding
<1>6. Types'
  BY <1>2, <1>3 DEF Types
<1>7. LockHeld'
  BY <1>1, <1>2, <1>5, Finisher DEF LockHeld
<1>8. EventOnce' /\ ~EventOut' /\ ~EndOut'
  BY <1>1, <1>2, <1>5, Finisher DEF EventOnce, EventOut, EndOut, At, Held, Holding
<1>9. Numbered'
  BY <1>1, <1>2, <1>3, <1>5, Finisher DEF Numbered, At, Held, Holding
<1>10. Settled'
  BY <1>1, <1>2, <1>5, <1>8, Finisher DEF Settled, Stopped, Finishing
<1>11. Handling' /\ Unbinding' /\ Pinning'
  BY <1>1, <1>2, Finisher DEF Handling, Bits, Stopped, Unbinding, Pinning
<1>12. Operating'
  <2>1. ~Busy'
    BY <1>1, <1>2, <1>4, Finisher DEF Busy, Stopped, Still, Bits
  <2>2. \A v \in Users : ~At(v, "S_device")'
    BY <1>5 DEF At, Starting
  <2>. QED  BY <1>2, <1>4, <1>5, <1>8, <2>1, <2>2 DEF Operating
<1>. QED  BY <1>6, <1>7, <1>8, <1>9, <1>10, <1>11, <1>12

\* HWGC_IOC_REPLY_EVENT: the event in service passes to the thread that replies.
LEMMA ReplyKeeps ==
  ASSUME DriverInv, NEW u \in Users, Reply(u)
  PROVE  DriverInv'
<1>. DEFINE meant == /\ ~removing /\ event_in_service
                     /\ user[u].got.seq = current_event.seq
                     /\ user[u].got.type = current_event.type
<1>1. At(u, "idle") /\ user[u].pc \notin Seen
  BY Unseen DEF Reply, At
<1>2. CASE ~meant
  <2>1. user' = [user EXCEPT ![u].replied = TRUE]
    BY <1>2 DEF Reply
  <2>2. user' \in [Users -> UserType] /\ Rests(user, user')
    BY <2>1 DEF DriverInv, Types, UserType, Rests
  <2>. QED  BY <1>2, <2>2, RestsKeeps DEF Reply
<1>3. CASE meant
  <2>. USE DEF DriverInv
  <2>1. user' = [user EXCEPT ![u].pc = "R_write", ![u].replied = TRUE]
    BY <1>3 DEF Reply
  <2>2. user' \in [Users -> UserType] /\ Moves(u, "R_write")
    BY <2>1 DEF Types, UserType, UserStates, Moves
  <2>3. UNCHANGED <<op_lock, op_active, active, pinned, refs, pending_irq, handler,
                    event_pending, event_seq, removing, remover, dev, ops, requests, faults,
                    delivered>>
        /\ event_in_service' = FALSE /\ current_event' = NoEvent
    BY <1>3 DEF Reply, pageVars, counters
  <2>4. event_in_service /\ ~event_pending /\ EventOut
    BY <1>3 DEF EventOnce, EventOut
  <2>5. ASSUME NEW v \in Users PROVE ~Held(v)
    <3>1. SUFFICES ASSUME Held(v) PROVE FALSE
      OBVIOUS
    <3>2. At(v, "W_copy") /\ user[v].ev = current_event
      BY <2>4, <3>1 DEF EventOnce
    <3>3. user[u].got.seq < current_event.seq
      BY <3>2 DEF Numbered
    <3>. QED  BY <1>3, <3>3 DEF Types, UserType, Events
  <2>6. Types'
    <3>1. NoEvent \in Events
      BY DEF NoEvent, Events
    <3>. QED  BY <2>2, <2>3, <3>1 DEF Types
  <2>7. LockHeld'
    BY <2>2, <2>3 DEF LockHeld, Moves, Starting, Finishing, Released
  <2>8. \A v \in Users : v # u => ~Held(v)'
    BY <2>2, <2>5 DEF Held, Moves
  <2>9. EventOnce' /\ Held(u)' /\ EventOut'
    BY <2>2, <2>3, <2>4, <2>8 DEF EventOnce, EventOut, Held, Moves, Holding
  <2>10. Numbered'
    BY <2>2, <2>3, <2>4 DEF Numbered, Moves, At
  <2>11. ~EndOut'
    <3>1. \A v \in Users : ~At(v, "W_copy")' /\ user'[v].pc \notin {"F_lock"} \cup Finishing
      BY <2>2, <2>5 DEF Moves, At, Held, Holding, Finishing, Released
    <3>. QED  BY <2>3, <2>4, <3>1 DEF EndOut
  <2>12. Settled'
    BY <2>2, <2>3, <2>4, <2>11 DEF Settled, Still, Bits, Stopped, Moves, Released
  <2>13. Handling' /\ Pinning' /\ Unbinding'
    BY <2>3 DEF Handling, Bits, Stopped, Pinning, Unbinding
  <2>14. Operating'
    <3>1. \A v \in Users : user[v].pc \notin Starting \cup {"F_clear", "F_off"}
      BY <2>4, <2>5 DEF Operating, Held, Holding, Finishing, Released
    <3>2. \A v \in Users : user'[v].pc \notin Starting \cup {"F_clear", "F_off"}
      BY <2>2, <3>1 DEF Moves, Starting
    <3>. QED  BY <2>3, <2>4, <3>1, <3>2 DEF Operating, Busy, At, Starting
  <2>. QED  BY <2>6, <2>7, <2>9, <2>10, <2>12, <2>13, <2>14
<1>. QED  BY <1>2, <1>3

\* The reply is written, and the device goes on with no event out.
LEMMA ReplyWriteKeeps ==
  ASSUME DriverInv, NEW u \in Users, ReplyWrite(u)
  PROVE  DriverInv'
<1>. USE DEF DriverInv
<1>1. user' \in [Users -> UserType] /\ Moves(u, "idle") /\ At(u, "R_write") /\ Held(u)
  BY GotoMoves DEF ReplyWrite, UserStates, At, Held, Holding
<1>2. /\ \A v \in Users : v # u => ~Held(v)
      /\ ~event_pending /\ EventOut
  BY <1>1, OnlyHolder
<1>3. UNCHANGED <<op_lock, op_active, active, pinned, refs, pending_irq, handler,
                  current_event, event_pending, event_in_service, event_seq, removing,
                  remover, ops, requests, faults, delivered>>
  BY DEF ReplyWrite, pageVars, eventVars, counters
<1>4. /\ dev' \in DeviceType /\ dev'.irq = dev.irq /\ dev'.mapped = dev.mapped
      /\ dev'.state = (IF dev.state = "waiting" THEN "running" ELSE dev.state)
  BY DEF ReplyWrite, Continue, Types, DeviceType
<1>5. ~event_in_service /\ Still /\ dev.state # "running"
  BY <1>1, <1>2 DEF EventOnce, Settled, At
<1>6. Types' /\ LockHeld'
  BY <1>1, <1>3, <1>4 DEF Types, LockHeld, Moves, Starting, Finishing, Released
<1>7. \A v \in Users : ~Held(v)'
  BY <1>1, <1>2 DEF Moves, Held, Holding, Finishing, Released
<1>8. EventOnce' /\ ~EventOut' /\ ~EndOut'
  BY <1>2, <1>3, <1>5, <1>7 DEF EventOnce, EventOut, EndOut, At, Held, Holding
<1>9. Numbered'
  BY <1>1, <1>2, <1>3 DEF Numbered, Moves, At
<1>10. Settled'
  <2>1. \A v \in Users : user'[v].pc \notin Released
    BY <1>7 DEF Held, Holding, Finishing
  <2>. QED  BY <1>3, <1>4, <1>5, <1>8, <2>1 DEF Settled, Still, Bits
<1>11. Handling'
  BY <1>3, <1>4, <1>5 DEF Handling, Still, Bits
<1>12. Operating'
  <2>1. Busy' => Busy
    BY <1>3, <1>4 DEF Busy
  <2>2. \A v \in Users : user[v].pc \notin Starting \cup {"F_clear", "F_off"}
    BY <1>1, <1>2 DEF Operating, Held, Holding, Finishing, Released, At
  <2>3. \A v \in Users : user'[v].pc \notin Starting \cup {"F_clear", "F_off"}
    BY <1>1, <2>2 DEF Moves, Starting
  <2>. QED  BY <1>3, <1>8, <2>1, <2>2, <2>3 DEF Operating, At, Starting
<1>13. Pinning' /\ Unbinding'
  BY <1>3, <1>4 DEF Pinning, Unbinding
<1>. QED  BY <1>6, <1>8, <1>9, <1>10, <1>11, <1>12, <1>13

-----------------------------------------------------------------------------
(* The interrupt handler.  While it has work no event is out. *)

\* A step of the handler that leaves threads and events alone.
LEMMA HandlerKeeps ==
  ASSUME DriverInv,
         UNCHANGED <<user, op_lock, op_active, active, eventVars, removing, remover,
                     counters, delivered>>,
         pending_irq' \subseteq Kinds, handler' \in HandlerType, dev' \in DeviceType,
         pinned' \subseteq Pages, refs' \in [Pages -> Nat],
         handler.pc # "idle" \/ dev.irq # {}, Handling', Pinning',
         EventOut \/ dev'.state = "running" => Still',
         dev'.state = dev.state \/ dev'.state = "idle" \/ (dev.state = "waiting" /\ ~EventOut)
  PROVE  DriverInv'
<1>. USE DEF DriverInv, eventVars, counters
<1>1. Types' /\ LockHeld' /\ EventOnce' /\ Numbered'
  BY DEF Types, LockHeld, EventOnce, Numbered, Held, At
<1>2. EventOut' = EventOut /\ EndOut' = EndOut
  BY DEF EventOut, EndOut, Held, At
<1>3. Busy /\ op_active
  BY DEF Busy, Operating
<1>4. EndOut => EventOut
  BY DEF EndOut, EventOut, Held, At, Holding
<1>5. \A u \in Users : user[u].pc \notin Released
  <2>1. SUFFICES ASSUME NEW u \in Users, user[u].pc \in Released PROVE FALSE
    OBVIOUS
  <2>2. Still /\ handler.pc = "idle"
    BY <2>1, Finisher DEF Finishing, Settled
  <2>. QED  BY <2>2 DEF Still, Bits
<1>6. Settled'
  BY <1>2, <1>4, <1>5 DEF Settled, Stopped
<1>7. Operating'
  BY <1>2, <1>3, <1>5 DEF Operating, At, Released
<1>8. Unbinding'
  BY DEF Unbinding, Handling
<1>. QED  BY <1>1, <1>6, <1>7, <1>8

\* hwgc_irq_top reads the bits,
LEMMA IrqTopKeeps ==
  ASSUME DriverInv, IrqTop
  PROVE  DriverInv'
<1>. USE DEF DriverInv
<1>1. /\ handler.pc = "idle" /\ dev.irq # {} /\ dev.irq \subseteq Kinds
      /\ handler'.pc = "top" /\ handler'.work = dev.irq /\ handler'.page = handler.page
      /\ handler' \in HandlerType
  BY DEF IrqTop, Types, HandlerType, HandlerStates, DeviceType
<1>2. UNCHANGED <<user, op_lock, op_active, active, pinned, refs, pending_irq, eventVars,
                  removing, remover, dev, counters, delivered>>
  BY DEF IrqTop, pageVars
<1>3. ~EventOut /\ dev.state # "running"
  BY <1>1 DEF Settled, Still, Bits
<1>4. Bits' = Bits
  BY <1>1, <1>2 DEF Bits, Handling
<1>5. Handling' /\ Pinning'
  BY <1>1, <1>2, <1>4 DEF Handling, Pinning, Stopped
<1>. QED  BY <1>1, <1>2, <1>3, <1>5, HandlerKeeps DEF Types

\* takes them over from the device,
LEMMA IrqClearKeeps ==
  ASSUME DriverInv, IrqClear
  PROVE  DriverInv'
<1>. USE DEF DriverInv
<1>1. /\ handler.pc = "top" /\ handler.work # {}
      /\ handler'.pc = "queued" /\ handler'.work = {} /\ handler'.page = handler.page
      /\ handler' \in HandlerType
  BY DEF IrqClear, Types, HandlerType, HandlerStates, Handling
<1>2. UNCHANGED <<user, op_lock, op_active, active, pinned, refs, eventVars,
                  removing, remover, counters, delivered>>
  BY DEF IrqClear, pageVars
<1>3. /\ dev' \in DeviceType /\ dev'.irq = dev.irq \ handler.work
      /\ dev'.state = dev.state /\ dev'.mapped = dev.mapped
      /\ pending_irq' = pending_irq \cup handler.work /\ pending_irq' \subseteq Kinds
  BY DEF IrqClear, Types, DeviceType, HandlerType
<1>4. ~EventOut /\ dev.state # "running"
  BY <1>1 DEF Settled, Still
<1>5. Bits' \subseteq Bits /\ dev'.irq = {}
  BY <1>1, <1>3 DEF Bits, Handling
<1>6. Handling' /\ Pinning'
  BY <1>1, <1>2, <1>3, <1>5 DEF Handling, Pinning, Stopped
<1>. QED  BY <1>1, <1>2, <1>3, <1>4, <1>6, HandlerKeeps DEF Types

\* and the thread takes them from there.
LEMMA IrqThreadKeeps ==
  ASSUME DriverInv, IrqThread
  PROVE  DriverInv'
<1>. USE DEF DriverInv
<1>1. /\ handler.pc = "queued" /\ pending_irq' = {}
      /\ handler'.pc = "thread" /\ handler'.work = pending_irq /\ handler'.page = handler.page
      /\ handler' \in HandlerType
  BY DEF IrqThread, Types, HandlerType, HandlerStates
<1>2. UNCHANGED <<user, op_lock, op_active, active, pinned, refs, eventVars,
                  removing, remover, dev, counters, delivered>>
  BY DEF IrqThread, pageVars
<1>3. ~EventOut /\ dev.state # "running"
  BY <1>1 DEF Settled, Still
<1>4. Bits' \subseteq Bits
  BY <1>1, <1>2 DEF Bits
<1>5. Handling' /\ Pinning'
  BY <1>1, <1>2, <1>4 DEF Handling, Pinning, Stopped
<1>. QED  BY <1>1, <1>2, <1>3, <1>5, HandlerKeeps DEF Types

\* The thread ends when no bit is left.
LEMMA IrqReturnKeeps ==
  ASSUME DriverInv, IrqReturn
  PROVE  DriverInv'
<1>. USE DEF DriverInv
<1>1. /\ handler.pc = "thread" /\ handler.work = {}
      /\ handler'.pc = "idle" /\ handler'.work = {} /\ handler'.page = None
      /\ handler' \in HandlerType
  BY DEF IrqReturn, Resting, HandlerType, HandlerStates
<1>2. UNCHANGED <<user, op_lock, op_active, active, pinned, refs, pending_irq, eventVars,
                  removing, remover, dev, counters, delivered>>
  BY DEF IrqReturn, pageVars
<1>3. Bits' = Bits
  BY <1>1, <1>2 DEF Bits
<1>4. EventOut \/ dev.state = "running" => Still'
  BY <1>1, <1>3 DEF Settled, Still
<1>5. Handling' /\ Pinning'
  BY <1>1, <1>2, <1>3 DEF Handling, Pinning, Stopped
<1>. QED  BY <1>1, <1>2, <1>4, <1>5, HandlerKeeps DEF Types

\* While the handler has a bit to work on, no event is out.
LEMMA NoEventOut ==
  ASSUME DriverInv, handler.work # {}
  PROVE  ~EventOut /\ dev.state # "running"
BY DEF DriverInv, Settled, Still, Bits

\* The address missed is read, or the operation given up.
LEMMA FillTlbKeeps ==
  ASSUME DriverInv, FillTlb
  PROVE  DriverInv'
<1>. USE DEF DriverInv
<1>1. handler.pc = "thread" /\ "TLB_MISS" \in handler.work
  BY DEF FillTlb, Working
<1>2. /\ handler'.pc = (IF active = None \/ dev.page = None THEN "abort" ELSE "fill")
      /\ handler'.work = handler.work /\ handler'.page = dev.page
      /\ handler' \in HandlerType
  BY DEF FillTlb, Types, HandlerType, HandlerStates, DeviceType
<1>3. UNCHANGED <<user, op_lock, op_active, active, pinned, refs, pending_irq, eventVars,
                  removing, remover, dev, counters, delivered>>
  BY DEF FillTlb, pageVars
<1>4. Bits' = Bits /\ handler.work = {"TLB_MISS"}
  BY <1>1, <1>2, <1>3 DEF Bits, Handling
<1>5. dev.page \in Pages \cup {None}
  BY DEF Types, DeviceType
<1>6. Handling' /\ Pinning'
  BY <1>1, <1>2, <1>3, <1>4, <1>5 DEF Handling, Pinning, Stopped
<1>. QED  BY <1>1, <1>2, <1>3, <1>6, NoEventOut, HandlerKeeps DEF Types

\* The page is pinned once, or the operation given up.
LEMMA PinPageKeeps ==
  ASSUME DriverInv, PinPage
  PROVE  DriverInv'
<1>. USE DEF DriverInv
<1>1. handler.pc = "fill" /\ handler.work = {"TLB_MISS"} /\ handler.page \in Pages
  BY DEF PinPage, Handling
<1>2. /\ handler'.pc \in {"answer", "abort"}
      /\ handler'.work = handler.work /\ handler'.page = handler.page
      /\ handler' \in HandlerType
  BY DEF PinPage, Goes, Types, HandlerType, HandlerStates
<1>3. UNCHANGED <<user, op_lock, op_active, active, pending_irq, eventVars,
                  removing, remover, dev, counters, delivered>>
  BY DEF PinPage
<1>4. /\ pinned' = pinned \/ pinned' = pinned \cup {handler.page}
      /\ handler'.pc = "answer" => handler.page \in pinned'
  BY <1>2 DEF PinPage, Goes, Types, HandlerType
<1>5. refs' \in [Pages -> Nat] /\ \A p \in Pages : refs'[p] = IF p \in pinned' THEN 1 ELSE 0
  <2>1. CASE pinned' = pinned /\ refs' = refs
    BY <2>1 DEF Types, Pinning
  <2>2. CASE /\ pinned' = pinned \cup {handler.page}
             /\ refs' = IF handler.page \in pinned THEN refs
                                                   ELSE [refs EXCEPT ![handler.page] = @ + 1]
    BY <1>1, <2>2 DEF Types, Pinning
  <2>. QED  BY <2>1, <2>2 DEF PinPage
<1>6. Bits' = Bits
  BY <1>2, <1>3 DEF Bits
<1>7. Handling'
  BY <1>1, <1>2, <1>3, <1>6 DEF Handling, Stopped
<1>8. Pinning'
  BY <1>2, <1>3, <1>4, <1>5 DEF Pinning
<1>. QED  BY <1>1, <1>2, <1>3, <1>4, <1>5, <1>7, <1>8, NoEventOut, HandlerKeeps DEF Types

\* The page given to the device is one that is pinned.
LEMMA AnswerMissKeeps ==
  ASSUME DriverInv, AnswerMiss
  PROVE  DriverInv'
<1>. USE DEF DriverInv
<1>1. handler.pc = "answer" /\ handler.work = {"TLB_MISS"} /\ handler.page \in pinned
  BY DEF AnswerMiss, Handling, Pinning
<1>2. handler'.pc = "thread" /\ handler'.work = {} /\ handler' \in HandlerType
  BY <1>1 DEF AnswerMiss, Handled, Types, HandlerType, HandlerStates
<1>3. UNCHANGED <<user, op_lock, op_active, active, pinned, refs, pending_irq, eventVars,
                  removing, remover, counters, delivered>>
  BY DEF AnswerMiss, pageVars
<1>4. /\ dev' \in DeviceType /\ dev'.irq = dev.irq
      /\ dev'.state = (IF dev.state = "waiting" THEN "running" ELSE dev.state)
      /\ dev'.mapped \subseteq dev.mapped \cup {handler.page}
  BY <1>1 DEF AnswerMiss, Continue, Types, DeviceType
<1>5. ~EventOut /\ dev.state # "running"
  BY <1>1, NoEventOut
<1>6. dev.irq = {} /\ pending_irq = {}
  BY <1>1 DEF Handling
<1>7. Bits' = {} /\ Still'
  BY <1>2, <1>3, <1>4, <1>6 DEF Bits, Still
<1>8. Handling' /\ Pinning'
  BY <1>1, <1>2, <1>3, <1>4, <1>6, <1>7 DEF Handling, Pinning
<1>. QED  BY <1>1, <1>2, <1>3, <1>4, <1>5, <1>7, <1>8, HandlerKeeps DEF Types

\* The operation is given up, and the device reset.
LEMMA GivesUpKeeps ==
  ASSUME DriverInv, DeviceError \/ Abort
  PROVE  DriverInv'
<1>. USE DEF DriverInv
<1>1. /\ handler.pc \in {"thread", "abort"} /\ handler.work # {}
      /\ handler'.pc = (IF handler.pc = "thread" THEN "abort" ELSE "report")
      /\ handler'.work = handler.work /\ handler' \in HandlerType
  BY DEF DeviceError, Abort, Working, Goes, Types, HandlerType, HandlerStates, Handling
<1>2. UNCHANGED <<user, op_lock, op_active, active, pinned, refs, pending_irq, eventVars,
                  removing, remover, counters, delivered>>
  BY DEF DeviceError, Abort, pageVars
<1>3. \/ handler.pc = "thread" /\ dev' = dev
      \/ dev' = Device("idle")
  BY DEF DeviceError, Abort, Reset, Working
<1>4. Device("idle") \in DeviceType /\ Device("idle").state = "idle" /\ Device("idle").irq = {}
  BY DEF Device, DeviceType, Types
<1>5. dev' \in DeviceType /\ Bits' \subseteq Bits
  BY <1>1, <1>2, <1>3, <1>4 DEF Bits, Types
<1>6. Handling' /\ Pinning'
  BY <1>1, <1>2, <1>3, <1>4, <1>5 DEF Handling, Pinning, Stopped
<1>. QED  BY <1>1, <1>2, <1>3, <1>4, <1>5, <1>6, NoEventOut, HandlerKeeps DEF Types

\* A step of the handler that publishes the event k and is done with its bit.
LEMMA PublishKeeps ==
  ASSUME DriverInv, NEW k \in Kinds, handler.work # {}, CanPublish,
         publish_sw_event(k),
         handler.pc \in {"thread", "report"}, k \in Terminal => Stopped,
         UNCHANGED <<op_lock, op_active, pageVars, pending_irq, removing, remover, dev, counters,
                     delivered>>,
         handler'.pc \in {"idle", "thread"}, handler' \in HandlerType, handler'.work = {},
         dev.irq = {}
  PROVE  DriverInv'
<1>. USE DEF DriverInv
<1>1. ~EventOut /\ dev.state # "running"
  BY NoEventOut
<1>2. /\ event_seq' = event_seq + 1 /\ event_pending' = TRUE
      /\ event_in_service' = event_in_service
      /\ current_event' = [type |-> k, seq |-> event_seq + 1, req |-> dev.req]
      /\ user' = Woken(user)
  BY DEF publish_sw_event, Wake
<1>3. user' \in [Users -> UserType] /\ Rests(user, user')
  BY <1>2, WokenRests DEF Types
<1>4. \A v \in Users : ~Held(v) /\ ~Held(v)'
  BY <1>1, <1>3, RestsEvents DEF EventOut
<1>5. ~event_in_service /\ Busy /\ op_active
  BY <1>1 DEF EventOut, Busy, Operating
<1>6. \A v \in Users : user'[v].pc \notin Starting
  <2>1. \A v \in Users : user[v].pc \notin Starting
    BY <1>5 DEF Operating
  <2>. QED  BY <1>3, <2>1 DEF Rests, Seen
<1>7. \A v \in Users : user[v].pc \notin Finishing /\ user'[v].pc \notin Finishing
  BY <1>4 DEF Held, Holding
<1>8. Types'
  <2>1. current_event' \in Events /\ event_seq' \in Nat
    BY <1>2 DEF Types, Events, DeviceType
  <2>2. event_in_service' \in BOOLEAN /\ event_pending' \in BOOLEAN
    BY <1>2 DEF Types
  <2>. QED  BY <1>3, <2>1, <2>2 DEF Types, pageVars, counters
<1>9. LockHeld'
  BY <1>6, <1>7 DEF LockHeld
<1>10. EventOnce'
  BY <1>2, <1>4, <1>5 DEF EventOnce
<1>11. Numbered'
  <2>1. \A v \in Users : user'[v].got = user[v].got /\ user[v].got.seq \in Nat /\ event_seq \in Nat
    BY <1>3 DEF Rests, Types, UserType, Events
  <2>2. \A v \in Users : ~At(v, "W_copy")'
    BY <1>4 DEF At, Held, Holding
  <2>3. current_event'.seq = event_seq + 1
    BY <1>2
  <2>. QED  BY <1>2, <2>1, <2>2, <2>3 DEF Numbered
<1>12. pending_irq' = {} /\ Bits' = {}
  BY DEF Handling, Bits
<1>13. EndOut' => Stopped
  BY <1>2, <1>4 DEF EndOut, At, Held, Holding
<1>14. Settled'
  BY <1>1, <1>7, <1>12, <1>13 DEF Settled, Still, Stopped, Finishing
<1>15. Handling'
  BY <1>12 DEF Handling
<1>16. Operating'
  BY <1>5, <1>6, <1>7, <1>4 DEF Operating, At, pageVars, Starting, Finishing, Released
<1>17. Pinning'
  BY DEF Pinning, pageVars
<1>18. Unbinding'
  BY DEF Unbinding, pageVars
<1>. QED  BY <1>8, <1>9, <1>10, <1>11, <1>14, <1>15, <1>16, <1>17, <1>18

\* Every other bit becomes an event, or the operation is given up.
LEMMA PublishEventKeeps ==
  ASSUME DriverInv, NEW k \in Kinds, PublishEvent(k)
  PROVE  DriverInv'
<1>. USE DEF DriverInv
<1>1. k \in ReplyKinds \cup {"DONE"} /\ handler.pc = "thread" /\ k \in handler.work
  BY DEF PublishEvent, Working
<1>2. handler.work = {k} /\ dev.irq = {} /\ (k \in Terminal => Stopped)
  <2>1. handler.work = {k}
    BY <1>1 DEF Handling, Bits
  <2>2. dev.irq = {}
    BY <1>1 DEF Handling
  <2>3. k \in Terminal => k = "DONE"
    BY <1>1 DEF Terminal, ReplyKinds
  <2>. QED  BY <1>1, <2>1, <2>2, <2>3 DEF Handling, Bits
<1>3. CASE CanPublish
  <2>1. handler'.pc = "thread" /\ handler'.work = {} /\ handler' \in HandlerType
    BY <1>2, <1>3 DEF PublishEvent, Handled, Types, HandlerType, HandlerStates
  <2>. QED  BY <1>1, <1>2, <1>3, <2>1, PublishKeeps DEF PublishEvent
<1>4. CASE ~CanPublish
  <2>1. handler'.pc = "abort" /\ handler'.work = handler.work /\ handler' \in HandlerType
    BY <1>4 DEF PublishEvent, Goes, Types, HandlerType, HandlerStates
  <2>2. UNCHANGED <<user, op_lock, op_active, active, pinned, refs, pending_irq, eventVars,
                    removing, remover, dev, counters, delivered>>
    BY <1>4 DEF PublishEvent, publish_sw_event, pageVars
  <2>3. Bits' = Bits
    BY <2>1, <2>2 DEF Bits
  <2>4. Handling' /\ Pinning'
    BY <1>1, <1>2, <2>1, <2>2, <2>3 DEF Handling, Pinning, Stopped
  <2>. QED  BY <1>1, <1>2, <2>1, <2>2, <2>4, NoEventOut, HandlerKeeps DEF Types
<1>. QED  BY <1>3, <1>4

\* The device is reset before ERROR is published.
LEMMA ReportErrorKeeps ==
  ASSUME DriverInv, ReportError
  PROVE  DriverInv'
<1>. USE DEF DriverInv
<1>1. /\ handler.pc = "report" /\ handler.work # {} /\ dev.state = "idle" /\ dev.irq = {}
      /\ pending_irq = {} /\ Stopped
  BY DEF ReportError, Handling, Stopped
<1>2. /\ handler'.pc = "idle" /\ handler'.work = {} /\ handler' \in HandlerType
  BY DEF ReportError, Resting, HandlerType, HandlerStates
<1>3. CASE CanPublish
  BY <1>1, <1>2, <1>3, PublishKeeps DEF ReportError, Kinds, Terminal
<1>4. CASE ~CanPublish
  <2>1. UNCHANGED <<user, op_lock, op_active, active, pinned, refs, pending_irq, eventVars,
                    removing, remover, dev, counters, delivered>>
    BY <1>4 DEF ReportError, publish_sw_event, pageVars
  <2>2. Bits' = {}
    BY <1>1, <1>2, <2>1 DEF Bits
  <2>3. Handling' /\ Pinning'
    BY <1>1, <1>2, <2>1, <2>2 DEF Handling, Pinning
  <2>. QED  BY <1>1, <1>2, <2>1, <2>3, NoEventOut, HandlerKeeps DEF Types
<1>. QED  BY <1>3, <1>4

-----------------------------------------------------------------------------
(* Unbinding, and the device. *)

\* hwgc_platform_remove marks the driver as leaving and drops the events.
LEMMA RemoveMarkKeeps ==
  ASSUME DriverInv, RemoveMark
  PROVE  DriverInv'
<1>. USE DEF DriverInv
<1>1. UNCHANGED <<op_lock, op_active, active, pinned, refs, pending_irq, handler, dev, ops,
                  requests, faults, delivered, event_seq>>
      /\ removing' = TRUE /\ remover = "bound" /\ remover' = "lock"
      /\ current_event' = NoEvent /\ event_pending' = FALSE /\ event_in_service' = FALSE
  BY DEF RemoveMark, clear_event_state, pageVars, counters
<1>2. user' \in [Users -> UserType] /\ Rests(user, user')
  BY WokenRests DEF RemoveMark, Wake, Types
<1>3. /\ \A v \in Users : user'[v].pc \in Seen \/ user[v].pc \in Seen => user'[v].pc = user[v].pc
      /\ \A v \in Users : user'[v].ev = user[v].ev /\ user'[v].got = user[v].got
      /\ \A v \in Users : Held(v)' <=> Held(v)
  BY <1>2, RestsEvents DEF Rests
<1>4. Types'
  <2>1. NoEvent \in Events
    BY DEF NoEvent, Events
  <2>. QED  BY <1>1, <1>2, <2>1 DEF Types
<1>5. LockHeld'
  BY <1>1, <1>3 DEF LockHeld, Seen, Holding
<1>6. EventOnce'
  BY <1>1, <1>3 DEF EventOnce
<1>7. Numbered'
  BY <1>1, <1>3 DEF Numbered, At, Seen, Holding
<1>8. (EventOut' => EventOut) /\ (EndOut' => EndOut)
  <2>1. EventOut' => EventOut
    BY <1>1, <1>3 DEF EventOut
  <2>2. EndOut' => EndOut
    BY <1>1, <1>3 DEF EndOut, At, Seen, Holding
  <2>. QED  BY <2>1, <2>2
<1>9. Settled'
  BY <1>1, <1>3, <1>8 DEF Settled, Still, Bits, Stopped, Seen, Holding, Finishing
<1>10. Handling' /\ Pinning' /\ Unbinding'
  BY <1>1 DEF Handling, Bits, Stopped, Pinning, Unbinding
<1>11. \A v \in Users : /\ user'[v].pc \in Starting <=> user[v].pc \in Starting
                        /\ At(v, "S_device")' <=> At(v, "S_device")
                        /\ user'[v].pc \in {"F_clear", "F_off"} <=>
                             user[v].pc \in {"F_clear", "F_off"}
  BY <1>3 DEF Seen, At, Starting, Holding, Finishing, Released
<1>12. Operating'
  BY <1>1, <1>8, <1>11 DEF Operating, Busy
<1>. QED  BY <1>4, <1>5, <1>6, <1>7, <1>9, <1>10, <1>12

\* A step of the removal after it has the lock: nobody starts or finishes.
LEMMA RemoverKeeps ==
  ASSUME DriverInv, removing,
         UNCHANGED <<user, pending_irq, handler, eventVars, removing, counters, delivered>>,
         dev' = dev \/ dev' = Device("idle"),
         \A u \in Users : user[u].pc \notin Starting \cup Finishing,
         remover' \in {"sync", "release", "free", "gone"},
         remover' \in {"sync", "release"} => op_lock' = "remove",
         op_lock' \in {None, "remove"}, op_active' \in BOOLEAN, active' \in Users \cup {None},
         pinned' \subseteq Pages, refs' \in [Pages -> Nat],
         \A p \in Pages : refs'[p] = IF p \in pinned' THEN 1 ELSE 0,
         dev'.state = "idle", dev'.irq = {},
         \/ UNCHANGED <<op_active, pageVars>>
         \/ ~op_active' /\ active' = None /\ pinned' = {} /\ handler.pc = "idle",
         Unbinding'
  PROVE  DriverInv'
<1>. USE DEF DriverInv, eventVars, counters, pageVars
<1>1. dev' \in DeviceType
  BY DEF Types, Device, DeviceType
<1>2. Types' /\ LockHeld' /\ EventOnce' /\ Numbered'
  BY <1>1 DEF Types, LockHeld, EventOnce, Numbered, Held, At
<1>3. EventOut' = EventOut /\ (EndOut' = EndOut)
  BY DEF EventOut, EndOut, Held, At
<1>4. Bits' \subseteq Bits
  BY DEF Bits
<1>5. Settled'
  BY <1>3, <1>4 DEF Settled, Still, Stopped, Finishing
<1>6. Handling'
  BY <1>4 DEF Handling, Stopped
<1>7. Operating'
  BY <1>3 DEF Operating, Busy, At, Starting, Finishing, Released
<1>8. Pinning'
  BY DEF Pinning, Handling
<1>. QED  BY <1>2, <1>5, <1>6, <1>7, <1>8

\* It then takes op_lock, waits for the handler and lets everything go.
LEMMA RemoveKeeps ==
  ASSUME DriverInv, RemoveReset \/ RemoveSync \/ RemoveRelease \/ FreeIrq
  PROVE  DriverInv'
<1>. USE DEF DriverInv
<1>1. removing /\ op_lock \in {None, "remove"}
  BY DEF RemoveReset, RemoveSync, RemoveRelease, FreeIrq, Unbinding, LockHeld
<1>2. \A u \in Users : user[u].pc \notin Starting \cup Finishing
  BY <1>1, ConstantsAssumption DEF LockHeld
<1>3. UNCHANGED <<user, pending_irq, handler, eventVars, removing, counters, delivered>>
  BY DEF RemoveReset, RemoveSync, RemoveRelease, FreeIrq
<1>4. CASE RemoveReset
  <2>1. Device("idle").state = "idle" /\ Device("idle").irq = {}
    BY DEF Device
  <2>2. /\ remover = "lock" /\ remover' = "sync" /\ op_lock' = "remove" /\ dev' = Device("idle")
        /\ UNCHANGED <<op_active, pageVars>>
    BY <1>4 DEF RemoveReset, Reset
  <2>3. Unbinding'
    BY <1>1, <1>3, <2>1, <2>2 DEF Unbinding
  <2>. QED  BY <1>1, <1>2, <1>3, <2>1, <2>2, <2>3, RemoverKeeps DEF Types, Pinning, pageVars
<1>5. CASE RemoveSync
  <2>1. /\ remover = "sync" /\ remover' = "release" /\ handler.pc = "idle"
        /\ UNCHANGED <<op_lock, op_active, pageVars, dev>>
    BY <1>5 DEF RemoveSync
  <2>2. dev.state = "idle" /\ dev.irq = {} /\ op_lock = "remove"
    BY <2>1 DEF Unbinding, Handling, LockHeld
  <2>3. Unbinding'
    BY <1>1, <1>3, <2>1, <2>2 DEF Unbinding
  <2>. QED  BY <1>1, <1>2, <1>3, <2>1, <2>2, <2>3, RemoverKeeps DEF Types, Pinning, pageVars
<1>7. CASE FreeIrq
  <2>1. /\ remover = "free" /\ remover' = "gone" /\ handler.pc = "idle"
        /\ UNCHANGED <<op_lock, op_active, pageVars, dev>>
    BY <1>7 DEF FreeIrq
  <2>2. dev.state = "idle" /\ dev.irq = {}
    BY <2>1 DEF Unbinding, Handling
  <2>3. Unbinding'
    BY <1>1, <1>3, <2>1, <2>2 DEF Unbinding, pageVars
  <2>. QED  BY <1>1, <1>2, <1>3, <2>1, <2>2, <2>3, RemoverKeeps DEF Types, Pinning, pageVars
<1>6. CASE RemoveRelease
  <2>1. /\ remover = "release" /\ remover' = "free" /\ dev' = dev /\ handler.pc = "idle"
        /\ op_active' = FALSE /\ op_lock' = None /\ active' = None /\ pinned' = {}
        /\ refs' = [p \in Pages |-> 0]
    BY <1>6 DEF RemoveRelease, unpin_all, release_process_context, Pinning, Unbinding
  <2>2. dev.state = "idle" /\ dev.irq = {}
    BY <2>1 DEF Unbinding, Handling
  <2>3. Unbinding'
    BY <1>1, <1>3, <2>1, <2>2 DEF Unbinding
  <2>. QED  BY <1>1, <1>2, <1>3, <2>1, <2>2, <2>3, RemoverKeeps
<1>. QED  BY <1>4, <1>5, <1>6, <1>7

\* The device raises one bit, and only while it runs.
LEMMA DeviceKeeps ==
  ASSUME DriverInv, NEW k \in Raised, DeviceRequest(k) \/ DeviceEnds(k)
  PROVE  DriverInv'
<1>. USE DEF DriverInv
<1>1. dev.state = "running" /\ k \in Kinds
  BY ConstantsAssumption DEF DeviceRequest, DeviceEnds
<1>2. UNCHANGED <<user, op_lock, op_active, active, pinned, refs, pending_irq, handler, eventVars,
                  removing, remover, ops, faults, delivered>>
  BY DEF DeviceRequest, DeviceEnds, pageVars, counters
<1>3. /\ dev'.state = (IF k \in Terminal THEN "ended" ELSE "waiting")
      /\ dev'.irq = {k} /\ dev'.mapped = dev.mapped
      /\ dev' \in DeviceType /\ requests' \in Nat
  <2>1. CASE DeviceRequest(k)
    <3>1. PICK p \in IF k = "TLB_MISS" THEN Pages ELSE {None} :
            dev' = [dev EXCEPT !.state = "waiting", !.irq = {k}, !.kind = k, !.page = p,
                               !.req = requests + 1]
      BY <2>1 DEF DeviceRequest
    <3>2. p \in Pages \cup {None} /\ k \notin Terminal /\ requests' = requests + 1
      BY <2>1 DEF DeviceRequest
    <3>3. dev \in DeviceType /\ requests + 1 \in Nat /\ {k} \in SUBSET Kinds
      BY <1>1 DEF Types
    <3>4. dev' \in DeviceType
      <4>. HIDE DEF DriverInv
      <4>. QED  BY <1>1, <3>1, <3>2, <3>3 DEF DeviceType
    <3>5. dev'.state = "waiting" /\ dev'.irq = {k} /\ dev'.mapped = dev.mapped
      BY <3>1, <3>3 DEF DeviceType
    <3>. QED  BY <3>2, <3>3, <3>4, <3>5
  <2>2. CASE DeviceEnds(k)
    <3>1. /\ dev' = [dev EXCEPT !.state = "ended", !.irq = {k}, !.kind = k]
          /\ k \in Terminal /\ requests' = requests
      BY <2>2 DEF DeviceEnds, counters
    <3>. QED  BY <1>1, <3>1 DEF Types, DeviceType
  <2>. QED  BY <2>1, <2>2
<1>4. Bits = {} /\ handler.pc \in {"idle", "thread"} /\ ~EventOut
  BY <1>1 DEF Settled, Still
<1>5. Bits' = {k} /\ pending_irq' = {} /\ handler'.work = {}
  BY <1>2, <1>3, <1>4 DEF Bits
<1>6. Types' /\ LockHeld' /\ EventOnce' /\ Numbered'
  BY <1>2, <1>3 DEF Types, LockHeld, EventOnce, Numbered, Held, At, eventVars
<1>7. ~EventOut' /\ ~EndOut'
  BY <1>2, <1>4 DEF EventOut, EndOut, Held, At, Holding, eventVars
<1>8. Settled'
  BY <1>2, <1>3, <1>7 DEF Settled
<1>9. Handling'
  BY <1>1, <1>2, <1>3, <1>4, <1>5 DEF Handling, Stopped, Terminal
<1>10. Operating'
  BY <1>1, <1>2, <1>7 DEF Operating, Busy, At
<1>11. Pinning' /\ Unbinding'
  BY <1>1, <1>2, <1>3 DEF Pinning, Unbinding
<1>. QED  BY <1>6, <1>8, <1>9, <1>10, <1>11

-----------------------------------------------------------------------------

\* DriverInv holds at the start.
LEMMA DriverInit == Init => DriverInv
<1>. SUFFICES ASSUME Init PROVE DriverInv
  OBVIOUS
<1>. USE DEF Init
<1>1. /\ user \in [Users -> UserType] /\ NoEvent \in Events
      /\ \A u \in Users : user[u].pc = "idle" /\ user[u].got = NoEvent
  BY DEF UserType, UserStates, Events, NoEvent
<1>2. /\ dev \in DeviceType /\ dev.state = "idle" /\ dev.irq = {}
      /\ handler \in HandlerType /\ handler.pc = "idle" /\ handler.work = {}
  BY DEF Device, DeviceType, Resting, HandlerType, HandlerStates
<1>3. Types
  BY <1>1, <1>2 DEF Types
<1>4. \A u \in Users : user[u].pc \notin Seen
  BY <1>1, Unseen
<1>5. LockHeld /\ EventOnce /\ ~EventOut /\ ~EndOut
  BY <1>4 DEF LockHeld, EventOnce, EventOut, EndOut, Held, At, Seen, Holding
<1>6. Numbered
  BY <1>1 DEF Numbered, At, NoEvent
<1>7. Bits = {} /\ Still /\ Stopped
  BY <1>2 DEF Bits, Still, Stopped
<1>9. Settled
  BY <1>2, <1>7 DEF Settled
<1>10. Handling
  BY <1>2, <1>7 DEF Handling, Kinds
<1>11. Pinning
  BY <1>2 DEF Pinning
<1>12. Unbinding
  BY DEF Unbinding
<1>8. Operating
  BY <1>2, <1>4, <1>5 DEF Operating, Busy, Seen, At, Starting
<1>. QED  BY <1>3, <1>5, <1>6, <1>8, <1>9, <1>10, <1>11, <1>12 DEF DriverInv

\* A step that changes nothing keeps it.
LEMMA StutterKeeps == DriverInv /\ UNCHANGED vars => DriverInv'
BY DEF vars, pageVars, eventVars, counters, DriverInv, Types, LockHeld, EventOnce, Numbered,
       Settled, Handling, Operating, Pinning, Unbinding, Still, Bits, Busy, Stopped, EventOut,
       EndOut, Held, At

\* Every step of the driver keeps it.
LEMMA DriverStep == DriverInv /\ [Next]_vars => DriverInv'
<1>1. ASSUME DriverInv, Next PROVE DriverInv'
  <2>1. ASSUME NEW u \in Users,
               \/ StartEnter(u) \/ StartSteps(u) \/ WaitSteps(u) \/ WaitInterrupted(u)
               \/ CopyFails(u) \/ FinishSteps(u) \/ Reply(u) \/ ReplyWrite(u)
        PROVE  DriverInv'
    <3>1. CASE StartEnter(u) \/ StartSteps(u)
      BY <1>1, <3>1, StartEnterKeeps, StartClearKeeps, StartActiveKeeps, StartDeviceKeeps
         DEF StartSteps
    <3>2. CASE WaitSteps(u) \/ WaitInterrupted(u) \/ CopyFails(u)
      BY <1>1, <3>2, WaitKeeps, WaitTakeKeeps, CopyToUserKeeps, CopyFailsKeeps DEF WaitSteps
    <3>3. CASE FinishSteps(u)
      BY <1>1, <3>3, FinishLockKeeps, FinishSyncKeeps, FinishReleaseKeeps, FinishClearKeeps,
         FinishOffKeeps DEF FinishSteps
    <3>4. CASE Reply(u) \/ ReplyWrite(u)
      BY <1>1, <3>4, ReplyKeeps, ReplyWriteKeeps
    <3>. QED  BY <2>1, <3>1, <3>2, <3>3, <3>4
  <2>2. CASE IrqSteps
    BY <1>1, <2>2, IrqTopKeeps, IrqClearKeeps, IrqThreadKeeps, IrqReturnKeeps, FillTlbKeeps,
       PinPageKeeps, AnswerMissKeeps, PublishEventKeeps, GivesUpKeeps, ReportErrorKeeps
       DEF IrqSteps
  <2>3. CASE RemoveMark \/ RemoveSteps
    BY <1>1, <2>3, RemoveMarkKeeps, RemoveKeeps DEF RemoveSteps
  <2>4. CASE DeviceSteps
    BY <1>1, <2>4, DeviceKeeps DEF DeviceSteps
  <2>. QED  BY <1>1, <2>1, <2>2, <2>3, <2>4 DEF Next
<1>. QED  BY <1>1, StutterKeeps

\* The inductive invariant of the driver, for any number of threads, pages,
\* operations, requests and failures.
THEOREM Invariance == Spec => []DriverInv
BY DriverInit, DriverStep, PTL DEF Spec

\* Every variable keeps its type.
THEOREM TypeCorrect == Spec => []TypeOK
<1>1. DriverInv => TypeOK
  BY DEF DriverInv, Types, TypeOK, UserType, HandlerType, HandlerStates, DeviceType
<1>. QED  BY <1>1, Invariance, PTL

\* While the device works, or the handler fills a miss, the address space of
\* who started it is held and every page the device was given is pinned; no
\* reference to a page is lost or taken twice.
LEMMA MemoryKept == DriverInv => DeviceMemoryPinned
<1>. SUFFICES ASSUME DriverInv PROVE DeviceMemoryPinned
  OBVIOUS
<1>. USE DEF DriverInv
<1>1. ASSUME Busy PROVE active # None
  <2>1. ASSUME NEW u \in Users, user[u].pc \in {"F_clear", "F_off"} PROVE FALSE
    <3>1. Still /\ Stopped /\ handler.pc = "idle"
      BY <2>1, Finisher DEF Finishing, Released, Settled
    <3>. QED  BY <1>1, <3>1 DEF Busy, Still, Bits, Stopped
  <2>. QED  BY <1>1, <2>1 DEF Operating
<1>. QED  BY <1>1 DEF DeviceMemoryPinned, Pinning, Busy

\* So it is in every behaviour.
THEOREM MemoryPinned == Spec => []DeviceMemoryPinned
BY MemoryKept, Invariance, PTL

\* After the driver was unbound the device is still and nothing is held.
LEMMA NothingLeftSafe == DriverInv => NothingLeftBehind
BY DEF DriverInv, NothingLeftBehind, Unbinding

\* So it is in every behaviour.
THEOREM NothingHeld == Spec => []NothingLeftBehind
BY NothingLeftSafe, Invariance, PTL

-----------------------------------------------------------------------------
(* What an event is worth: the order of the deliveries, and what the device  *)
(* waits for.                                                                *)

\* The request e tells of is the one the device waits with.
Asks(e) == e.type \in ReplyKinds => /\ dev.state = "waiting"
                                    /\ dev.kind = e.type /\ dev.req = e.req

InOrder ==
  /\ \A s \in delivered : s <= event_seq
  /\ event_pending => \A s \in delivered : s < current_event.seq
  /\ \A u \in Users : At(u, "W_copy") => \A s \in delivered : s < user[u].ev.seq

Served == event_in_service =>
  /\ current_event.type \in ReplyKinds
  /\ \A u \in Users : user[u].got.seq = current_event.seq => user[u].got = current_event

BitsAsk ==
  handler.pc \notin {"abort", "report"} =>
    \A k \in Bits : k \notin Terminal => dev.state = "waiting" /\ dev.kind = k

Awaited ==
  remover \in {"bound", "lock"} =>
    /\ event_pending \/ event_in_service => Asks(current_event)
    /\ \A u \in Users : At(u, "W_copy") => Asks(user[u].ev)
    /\ \A u \in Users : At(u, "R_write") => /\ dev.state = "waiting" /\ dev.kind \in ReplyKinds
                                            /\ dev.req = user[u].got.req
    /\ BitsAsk

EventInv == InOrder /\ Served /\ Awaited

\* No thread comes to hold an event.
Keeping ==
  \A v \in Users : /\ At(v, "W_copy")' => At(v, "W_copy") /\ user'[v].ev = user[v].ev
                   /\ At(v, "R_write")' => At(v, "R_write")
                   /\ user'[v].got = user[v].got

\* No event comes up, and the device stays as it was.
LEMMA EventFrame ==
  ASSUME EventInv, Keeping,
         event_pending' => event_pending, event_in_service' => event_in_service,
         event_pending' \/ event_in_service' => current_event' = current_event,
         UNCHANGED <<event_seq, delivered>>,
         remover' \in {"bound", "lock"} =>
           /\ remover \in {"bound", "lock"}
           /\ dev'.state = dev.state /\ dev'.kind = dev.kind /\ dev'.req = dev.req,
         handler.pc \in {"abort", "report"} => handler'.pc \in {"abort", "report"} \/ Bits' = {},
         Bits' \subseteq Bits
  PROVE  EventInv'
<1>. USE DEF EventInv
<1>1. InOrder'
  BY DEF InOrder, Keeping
<1>2. Served'
  BY DEF Served, Keeping
<1>3. Awaited'
  <2>. SUFFICES ASSUME remover' \in {"bound", "lock"} PROVE Awaited'
    BY DEF Awaited
  <2>1. BitsAsk'
    BY DEF Awaited, BitsAsk
  <2>. QED  BY <2>1 DEF Awaited, Keeping, Asks
<1>. QED  BY <1>1, <1>2, <1>3

\* Nothing is out: whatever the device does, it is only asked about the bits.
LEMMA NothingOut ==
  ASSUME EventInv, ~EventOut', UNCHANGED <<event_seq, delivered>>, BitsAsk'
  PROVE  EventInv'
<1>1. ~event_pending' /\ ~event_in_service'
      /\ \A u \in Users : ~At(u, "W_copy")' /\ ~At(u, "R_write")'
  BY DEF EventOut, Held, Holding, At
<1>. QED  BY <1>1 DEF EventInv, InOrder, Served, Awaited

\* Moving one thread elsewhere gives it no event.
LEMMA MovesKeeps ==
  ASSUME NEW u \in Users, NEW pc \in UserStates \ {"W_copy", "R_write"}, Types, Goto(u, pc)
  PROVE  Keeping
<1>1. Moves(u, pc)
  BY GotoMoves
<1>. QED  BY <1>1 DEF Moves, Keeping, At

\* Nor does waking the sleepers.
LEMMA RestsKeeping == ASSUME Rests(user, user') PROVE Keeping
BY DEF Rests, Keeping, At, Seen, Holding

\* HWGC_IOC_START.
LEMMA StartEvents ==
  ASSUME DriverInv, EventInv, NEW u \in Users, StartEnter(u) \/ StartSteps(u)
  PROVE  EventInv'
<1>1. Types
  BY DEF DriverInv
<1>2. CASE StartEnter(u)
  <2>1. Keeping
    BY <1>1, <1>2, MovesKeeps DEF StartEnter, UserStates
  <2>. QED  BY <1>2, <2>1, EventFrame DEF StartEnter, eventVars, Bits
<1>3. CASE StartClear(u)
  <2>1. Keeping
    BY <1>1, <1>3, MovesKeeps DEF StartClear, UserStates
  <2>. QED  BY <1>3, <2>1, EventFrame DEF StartClear, clear_event_state, Bits
<1>4. CASE StartActive(u)
  <2>1. Keeping
    BY <1>1, <1>4, MovesKeeps DEF StartActive, UserStates
  <2>. QED  BY <1>4, <2>1, EventFrame DEF StartActive, eventVars, Bits
<1>5. CASE StartDevice(u)
  <2>1. Moves(u, "idle") /\ At(u, "S_device")
    BY <1>1, <1>5, GotoMoves DEF StartDevice, UserStates
  <2>2. ~Busy /\ ~EventOut
    BY <2>1 DEF DriverInv, Operating, At, Starting
  <2>3. ~EventOut'
    BY <1>5, <2>1, <2>2 DEF StartDevice, eventVars, EventOut, Moves, Held, Holding, Finishing,
       Released
  <2>4. Bits' = {}
    BY <1>5, <2>2 DEF StartDevice, Device, Bits, Busy, DriverInv, Handling
  <2>. QED  BY <1>5, <2>3, <2>4, NothingOut DEF StartDevice, eventVars, BitsAsk
<1>. QED  BY <1>2, <1>3, <1>4, <1>5 DEF StartSteps

\* HWGC_IOC_WAIT_EVENT up to the event.
LEMMA WaitEvents ==
  ASSUME DriverInv, EventInv, NEW u \in Users, WaitCall(u) \/ WaitCheck(u) \/ WaitInterrupted(u)
  PROVE  EventInv'
<1>1. PICK pc \in {"W_check", "W_take", "W_sleep", "idle"} : Goto(u, pc)
  BY DEF WaitCall, WaitCheck, WaitInterrupted
<1>2. Keeping
  BY <1>1, MovesKeeps DEF DriverInv, UserStates
<1>. QED  BY <1>2, EventFrame DEF WaitCall, WaitCheck, WaitInterrupted, eventVars, Bits

\* The event taken is newer than any that was given.
LEMMA WaitTakeEvents ==
  ASSUME DriverInv, EventInv, NEW u \in Users, WaitTake(u)
  PROVE  EventInv'
<1>1. CASE removing \/ ~event_pending
  <2>1. Keeping
    BY <1>1, MovesKeeps DEF WaitTake, DriverInv, UserStates
  <2>. QED  BY <1>1, <2>1, EventFrame DEF WaitTake, eventVars, Bits
<1>2. CASE ~removing /\ event_pending
  <2>1. /\ \A v \in Users : user'[v].got = user[v].got
        /\ \A v \in Users : v # u => user'[v] = user[v]
        /\ user'[u].pc = "W_copy" /\ user'[u].ev = current_event
    BY <1>2 DEF WaitTake, DriverInv, Types, UserType
  <2>2. /\ ~event_pending' /\ current_event' = current_event /\ event_seq' = event_seq
        /\ UNCHANGED <<delivered, dev, remover, handler, pending_irq>>
        /\ event_in_service' => current_event.type \in ReplyKinds
    BY <1>2 DEF WaitTake
  <2>3. InOrder'
    BY <1>2, <2>1, <2>2 DEF EventInv, InOrder, At
  <2>4. Served'
    <3>1. \A v \in Users : user[v].got.seq \in Nat /\ current_event.seq \in Nat
                           /\ user[v].got.seq < current_event.seq
      BY <1>2 DEF DriverInv, Types, UserType, Events, Numbered
    <3>2. \A v \in Users : user'[v].got.seq # current_event'.seq
      BY <2>1, <2>2, <3>1
    <3>. QED  BY <2>2, <3>2 DEF Served
  <2>5. Awaited'
    <3>1. BitsAsk' = BitsAsk
      BY <2>2 DEF BitsAsk, Bits
    <3>. QED  BY <1>2, <2>1, <2>2, <3>1 DEF EventInv, Awaited, Asks, At
  <2>. QED  BY <2>3, <2>4, <2>5 DEF EventInv
<1>. QED  BY <1>1, <1>2

\* The thread replies to what it was given.
LEMMA CopyToUserEvents ==
  ASSUME DriverInv, EventInv, NEW u \in Users, CopyToUser(u)
  PROVE  EventInv'
<1>1. At(u, "W_copy") /\ Held(u)
  BY DEF CopyToUser, At, Held, Holding
<1>2. ~event_pending /\ \A v \in Users : v # u => ~Held(v)
  BY <1>1, OnlyHolder
<1>3. /\ user'[u].pc \in {"F_lock", "idle"}
      /\ user'[u].got = user[u].got \/ user'[u].got = user[u].ev
      /\ \A v \in Users : v # u => user'[v] = user[v]
  BY DEF CopyToUser, DriverInv, Types, UserType
<1>4. \A v \in Users : ~At(v, "W_copy")' /\ ~At(v, "R_write")'
  BY <1>2, <1>3 DEF At, Held, Holding
<1>5. UNCHANGED <<eventVars, dev, handler, pending_irq, remover>>
      /\ delivered' = delivered \cup {user[u].ev.seq}
  BY DEF CopyToUser
<1>6. InOrder'
  <2>1. user[u].ev.seq <= event_seq
    BY <1>1 DEF DriverInv, Numbered
  <2>. QED  BY <1>2, <1>4, <1>5, <2>1 DEF EventInv, InOrder, eventVars
<1>7. Served'
  <2>1. event_in_service => user[u].ev = current_event
    BY <1>1 DEF DriverInv, EventOnce
  <2>. QED  BY <1>3, <1>5, <2>1 DEF EventInv, Served, eventVars
<1>8. BitsAsk' = BitsAsk
  BY <1>5 DEF BitsAsk, Bits
<1>9. Awaited'
  BY <1>4, <1>5, <1>8 DEF EventInv, Awaited, Asks, eventVars
<1>. QED  BY <1>6, <1>7, <1>9 DEF EventInv

\* The event put back is the one that was taken.
LEMMA CopyFailsEvents ==
  ASSUME DriverInv, EventInv, NEW u \in Users, CopyFails(u)
  PROVE  EventInv'
<1>1. At(u, "W_copy") /\ Held(u)
  BY DEF CopyFails, At, Held, Holding
<1>2. ~event_pending /\ \A v \in Users : v # u => ~Held(v)
  BY <1>1, OnlyHolder
<1>3. /\ \A v \in Users : user'[v].got = user[v].got
      /\ \A v \in Users : ~Held(v)'
  <2>. DEFINE back == [user EXCEPT ![u].pc = "idle", ![u].ev = NoEvent]
  <2>1. /\ back \in [Users -> UserType] /\ \A v \in Users : v # u => back[v] = user[v]
        /\ back[u].pc = "idle" /\ back[u].got = user[u].got
    <3>1. NoEvent \in Events /\ "idle" \in UserStates
      BY DEF UserStates, NoEvent, Events, Kinds
    <3>2. user \in [Users -> UserType]
      BY DEF DriverInv, Types
    <3>. QED  BY <3>1, <3>2 DEF UserType
  <2>2. user' = Woken(back)
    BY DEF CopyFails
  <2>3. Rests(back, user')
    BY <2>1, <2>2, WokenRests
  <2>. QED  BY <1>2, <2>1, <2>3, Unseen DEF Rests, Held, Seen
<1>4. \A v \in Users : ~At(v, "W_copy")' /\ ~At(v, "R_write")'
  BY <1>3 DEF At, Held, Holding
<1>5. UNCHANGED <<event_seq, delivered, dev, handler, pending_irq, remover>>
  BY DEF CopyFails, eventVars
<1>6. \/ UNCHANGED <<current_event, event_pending, event_in_service>>
      \/ event_pending' /\ ~event_in_service' /\ current_event' = user[u].ev
  BY DEF CopyFails, eventVars
<1>7. InOrder'
  BY <1>1, <1>2, <1>4, <1>5, <1>6 DEF EventInv, InOrder
<1>8. Served'
  BY <1>3, <1>6 DEF EventInv, Served
<1>9. BitsAsk' = BitsAsk
  BY <1>5 DEF BitsAsk, Bits
<1>10. Awaited'
  BY <1>1, <1>4, <1>5, <1>6, <1>9 DEF EventInv, Awaited, Asks
<1>. QED  BY <1>7, <1>8, <1>10 DEF EventInv

\* hwgc_finish_operation.
LEMMA FinishEvents ==
  ASSUME DriverInv, EventInv, NEW u \in Users, FinishSteps(u)
  PROVE  EventInv'
<1>1. CASE FinishOff(u)
  <2>1. Keeping
    <3>. DEFINE back == [user EXCEPT ![u].pc = "idle"]
    <3>1. /\ back \in [Users -> UserType]
          /\ \A v \in Users : /\ back[v].got = user[v].got /\ back[v].ev = user[v].ev
                              /\ back[v].pc = IF v = u THEN "idle" ELSE user[v].pc
      BY DEF DriverInv, Types, UserType, UserStates
    <3>2. Rests(back, user')
      BY <1>1, <3>1, WokenRests DEF FinishOff
    <3>. QED  BY <3>1, <3>2, Unseen DEF Keeping, Rests, At, Seen, Holding
  <2>. QED  BY <1>1, <2>1, EventFrame DEF FinishOff, eventVars, Bits
<1>2. CASE FinishLock(u) \/ FinishSync(u) \/ FinishRelease(u) \/ FinishClear(u)
  <2>1. PICK pc \in {"F_sync", "idle", "F_release", "F_clear", "F_off"} : Goto(u, pc)
    BY <1>2 DEF FinishLock, FinishSync, FinishRelease, FinishClear
  <2>2. Keeping
    BY <2>1, MovesKeeps DEF DriverInv, UserStates
  <2>3. UNCHANGED <<event_seq, delivered, dev, handler, pending_irq, remover>>
    BY <1>2 DEF FinishLock, FinishSync, FinishRelease, FinishClear, clear_event_state, eventVars
  <2>4. CASE FinishClear(u)
    BY <2>2, <2>3, <2>4, EventFrame DEF FinishClear, clear_event_state, Bits
  <2>5. CASE FinishLock(u) \/ FinishSync(u) \/ FinishRelease(u)
    <3>1. UNCHANGED <<current_event, event_pending, event_in_service>>
      BY <2>5 DEF FinishLock, FinishSync, FinishRelease, eventVars
    <3>. QED  BY <2>2, <2>3, <3>1, EventFrame DEF Bits
  <2>. QED  BY <1>2, <2>4, <2>5
<1>. QED  BY <1>1, <1>2 DEF FinishSteps

\* A reply is good only for the event in service, which the device waits with.
LEMMA ReplyEvents ==
  ASSUME DriverInv, EventInv, NEW u \in Users, Reply(u)
  PROVE  EventInv'
<1>. DEFINE good == /\ ~removing /\ event_in_service
                    /\ user[u].got.seq = current_event.seq
                    /\ user[u].got.type = current_event.type
<1>1. UNCHANGED <<event_seq, event_pending, delivered, dev, handler, pending_irq, remover,
                  removing>>
  BY DEF Reply, eventVars
<1>2. /\ \A v \in Users : user'[v].got = user[v].got /\ user'[v].ev = user[v].ev
      /\ \A v \in Users : v # u => user'[v] = user[v]
      /\ user'[u].pc = IF good THEN "R_write" ELSE user[u].pc
  BY DEF Reply, DriverInv, Types, UserType
<1>3. CASE ~good
  <2>1. Keeping
    BY <1>2, <1>3 DEF Keeping, At
  <2>. QED  BY <1>1, <1>3, <2>1, EventFrame DEF Reply, eventVars, Bits
<1>4. CASE good
  <2>1. ~event_pending /\ ~event_in_service' /\ current_event.type \in Kinds \cup {"NONE"}
    BY <1>4 DEF Reply, DriverInv, Types, EventOnce, Events
  <2>2. user[u].got = current_event
    BY <1>4 DEF EventInv, Served
  <2>3. \A v \in Users : /\ At(v, "W_copy")' => At(v, "W_copy") /\ user'[v].ev = user[v].ev
                         /\ At(v, "R_write")' => v = u \/ At(v, "R_write")
    BY <1>2, <1>4 DEF At
  <2>4. InOrder'
    BY <1>1, <1>2, <2>1, <2>3 DEF EventInv, InOrder
  <2>5. Served'
    BY <2>1 DEF Served
  <2>6. BitsAsk' = BitsAsk
    BY <1>1 DEF BitsAsk, Bits
  <2>7. current_event.type \in ReplyKinds
    BY <1>4 DEF EventInv, Served
  <2>8. Awaited'
    BY <1>1, <1>2, <1>4, <2>1, <2>2, <2>3, <2>6, <2>7 DEF EventInv, Awaited, Asks
  <2>. QED  BY <2>4, <2>5, <2>8 DEF EventInv
<1>. QED  BY <1>3, <1>4

\* After the write no event is out.
LEMMA ReplyWriteEvents ==
  ASSUME DriverInv, EventInv, NEW u \in Users, ReplyWrite(u)
  PROVE  EventInv'
<1>1. At(u, "R_write") /\ Held(u)
  BY DEF ReplyWrite, At, Held, Holding
<1>2. ~event_pending /\ EventOut /\ \A v \in Users : v # u => ~Held(v)
  BY <1>1, OnlyHolder
<1>3. ~event_in_service /\ Bits = {}
  BY <1>1, <1>2 DEF DriverInv, EventOnce, Settled, Still, At
<1>4. UNCHANGED <<eventVars, delivered, handler, pending_irq>> /\ Moves(u, "idle")
  BY GotoMoves DEF ReplyWrite, DriverInv, UserStates
<1>5. ~EventOut'
  BY <1>2, <1>3, <1>4 DEF EventOut, eventVars, Moves, Held, Holding, Finishing, Released
<1>6. dev'.irq = dev.irq
  BY DEF ReplyWrite, Continue, DriverInv, Types, DeviceType
<1>7. Bits' = {}
  BY <1>3, <1>4, <1>6 DEF Bits
<1>. QED  BY <1>4, <1>5, <1>7, NothingOut DEF eventVars, BitsAsk

-----------------------------------------------------------------------------
(* The same for the handler, the removal and the device. *)

\* A step of the handler that publishes nothing and leaves the device alone.
LEMMA HandlerEvents ==
  ASSUME DriverInv, EventInv,
         UNCHANGED <<user, eventVars, removing, remover, delivered>>,
         dev' = dev \/ dev' = [dev EXCEPT !.irq = @ \ handler.work],
         handler.pc \in {"abort", "report"} => handler'.pc \in {"abort", "report"},
         Bits' \subseteq Bits
  PROVE  EventInv'
<1>1. Keeping
  BY DEF Keeping, At
<1>2. dev'.state = dev.state /\ dev'.kind = dev.kind /\ dev'.req = dev.req
  BY DEF DriverInv, Types, DeviceType
<1>. QED  BY <1>1, <1>2, EventFrame DEF eventVars

\* The bits on their way to the thread stay those the device waits with.
LEMMA IrqEvents ==
  ASSUME DriverInv, EventInv, IrqTop \/ IrqClear \/ IrqThread \/ IrqReturn
  PROVE  EventInv'
<1>1. handler \in HandlerType /\ dev \in DeviceType
  BY DEF DriverInv, Types
<1>2. CASE IrqTop
  BY <1>1, <1>2, HandlerEvents DEF IrqTop, Bits, HandlerType
<1>3. CASE IrqClear
  <2>1. dev'.irq \subseteq dev.irq /\ handler'.work = {}
    BY <1>1, <1>3 DEF IrqClear, HandlerType, DeviceType
  <2>. QED  BY <1>3, <2>1, HandlerEvents DEF IrqClear, Bits
<1>4. CASE IrqThread
  BY <1>1, <1>4, HandlerEvents DEF IrqThread, Bits, HandlerType
<1>5. CASE IrqReturn
  BY <1>5, HandlerEvents DEF IrqReturn, Resting, Bits
<1>. QED  BY <1>2, <1>3, <1>4, <1>5

\* A miss is looked at while the device waits.
LEMMA MissEvents ==
  ASSUME DriverInv, EventInv, FillTlb \/ PinPage \/ DeviceError
  PROVE  EventInv'
<1>1. handler'.work = handler.work /\ handler.pc \in {"thread", "fill"}
      /\ UNCHANGED <<user, eventVars, removing, remover, delivered, dev, pending_irq>>
  BY DEF FillTlb, PinPage, DeviceError, Working, Goes, DriverInv, Types, HandlerType
<1>. QED  BY <1>1, HandlerEvents DEF Bits

\* After the answer no bit is left.
LEMMA AnswerMissEvents ==
  ASSUME DriverInv, EventInv, AnswerMiss
  PROVE  EventInv'
<1>1. handler.pc = "answer" /\ handler.work = {"TLB_MISS"} /\ dev.irq = {} /\ pending_irq = {}
  BY DEF AnswerMiss, DriverInv, Handling
<1>2. ~EventOut
  BY <1>1, NoEventOut
<1>3. UNCHANGED <<user, eventVars, delivered, pending_irq>>
  BY DEF AnswerMiss
<1>4. ~EventOut'
  BY <1>2, <1>3 DEF EventOut, eventVars, Held
<1>5. handler'.work = {} /\ dev'.irq = {}
  BY <1>1 DEF AnswerMiss, Handled, Continue, DriverInv, Types, HandlerType, DeviceType
<1>6. Bits' = {}
  BY <1>1, <1>3, <1>5 DEF Bits
<1>. QED  BY <1>3, <1>4, <1>6, NothingOut DEF eventVars, BitsAsk

\* The device is reset while no event is out.
LEMMA AbortEvents ==
  ASSUME DriverInv, EventInv, Abort
  PROVE  EventInv'
<1>1. handler.work # {}
  BY DEF Abort, DriverInv, Handling
<1>2. ~EventOut
  BY <1>1, NoEventOut
<1>3. UNCHANGED <<user, eventVars, delivered>> /\ handler'.pc = "report"
  BY DEF Abort, Goes, DriverInv, Types, HandlerType
<1>4. ~EventOut'
  BY <1>2, <1>3 DEF EventOut, eventVars, Held
<1>. QED  BY <1>3, <1>4, NothingOut DEF eventVars, BitsAsk

\* A step that publishes k, while nothing is out and the device waits for k.
LEMMA PublishEvents ==
  ASSUME DriverInv, EventInv, NEW k \in Kinds, publish_sw_event(k), handler.work # {}, CanPublish,
         UNCHANGED <<removing, remover, dev, delivered>>,
         k \in ReplyKinds /\ remover \in {"bound", "lock"} =>
           dev.state = "waiting" /\ dev.kind = k,
         Bits' = {}
  PROVE  EventInv'
<1>1. ~EventOut
  BY NoEventOut
<1>2. \A v \in Users : ~Held(v)'
  <2>1. Rests(user, user')
    BY WokenRests DEF publish_sw_event, Wake, DriverInv, Types
  <2>. QED  BY <1>1, <2>1, RestsEvents DEF EventOut
<1>3. \A v \in Users : ~At(v, "W_copy")' /\ ~At(v, "R_write")'
  BY <1>2 DEF At, Held, Holding
<1>4. /\ event_seq' = event_seq + 1 /\ ~event_in_service'
      /\ current_event'.type = k /\ current_event'.seq = event_seq + 1
      /\ current_event'.req = dev.req
  BY DEF publish_sw_event, CanPublish
<1>5. InOrder'
  <2>1. event_seq \in Nat /\ delivered \subseteq Nat
    BY DEF DriverInv, Types
  <2>2. delivered' = delivered /\ \A s \in delivered : s <= event_seq
    BY DEF EventInv, InOrder
  <2>3. \A s \in delivered : s <= event_seq + 1 /\ s < event_seq + 1
    BY <2>1, <2>2
  <2>. QED  BY <1>3, <1>4, <2>2, <2>3 DEF InOrder
<1>6. Served'
  BY <1>4 DEF Served
<1>7. Awaited'
  <2>1. BitsAsk'
    BY DEF BitsAsk
  <2>. QED  BY <1>3, <1>4, <2>1 DEF Awaited, Asks
<1>. QED  BY <1>5, <1>6, <1>7 DEF EventInv

\* A bit of the device becomes the event it waits with.
LEMMA PublishEventEvents ==
  ASSUME DriverInv, EventInv, NEW k \in Kinds, PublishEvent(k)
  PROVE  EventInv'
<1>1. k \in ReplyKinds \cup {"DONE"} /\ handler.pc = "thread" /\ k \in handler.work
  BY DEF PublishEvent, Working
<1>2. handler.work = {k} /\ dev.irq = {} /\ pending_irq = {} /\ handler \in HandlerType
  BY <1>1 DEF DriverInv, Handling, Bits, Types
<1>3. UNCHANGED <<removing, remover, dev, delivered, pending_irq>>
  BY DEF PublishEvent
<1>4. CASE CanPublish
  <2>1. k \in ReplyKinds /\ remover \in {"bound", "lock"} =>
          dev.state = "waiting" /\ dev.kind = k
    <3>. SUFFICES ASSUME k \in ReplyKinds, remover \in {"bound", "lock"}
                  PROVE  dev.state = "waiting" /\ dev.kind = k
      OBVIOUS
    <3>1. k \in Bits /\ k \notin Terminal
      BY <1>1 DEF Bits, ReplyKinds, Terminal
    <3>2. BitsAsk
      BY DEF EventInv, Awaited
    <3>. QED  BY <1>1, <3>1, <3>2 DEF BitsAsk
  <2>2. Bits' = {}
    BY <1>2, <1>3, <1>4 DEF PublishEvent, Handled, Bits, HandlerType
  <2>. QED  BY <1>1, <1>3, <1>4, <2>1, <2>2, PublishEvents DEF PublishEvent
<1>5. CASE ~CanPublish
  <2>1. UNCHANGED <<user, eventVars>> /\ handler'.work = handler.work
    BY <1>2, <1>5 DEF PublishEvent, publish_sw_event, Goes, HandlerType
  <2>. QED  BY <1>1, <1>3, <2>1, HandlerEvents DEF Bits
<1>. QED  BY <1>4, <1>5

\* ERROR wants no answer.
LEMMA ReportErrorEvents ==
  ASSUME DriverInv, EventInv, ReportError
  PROVE  EventInv'
<1>1. handler.work # {} /\ dev.irq = {} /\ pending_irq = {}
  BY DEF ReportError, DriverInv, Handling
<1>2. UNCHANGED <<removing, remover, dev, delivered, pending_irq>> /\ handler' = Resting
  BY DEF ReportError
<1>3. Bits' = {}
  BY <1>1, <1>2 DEF Bits, Resting
<1>4. CASE CanPublish
  BY <1>1, <1>2, <1>3, <1>4, PublishEvents DEF ReportError, Kinds, Terminal, ReplyKinds
<1>5. CASE ~CanPublish
  <2>1. UNCHANGED <<user, eventVars>>
    BY <1>5 DEF ReportError, publish_sw_event
  <2>2. Keeping
    BY <2>1 DEF Keeping, At
  <2>. QED  BY <1>2, <1>3, <2>1, <2>2, EventFrame DEF eventVars
<1>. QED  BY <1>4, <1>5

\* hwgc_platform_remove.
LEMMA RemoveEvents ==
  ASSUME DriverInv, EventInv, RemoveMark \/ RemoveSteps
  PROVE  EventInv'
<1>1. CASE RemoveMark
  <2>1. Keeping
    BY <1>1, WokenRests, RestsKeeping DEF RemoveMark, Wake, DriverInv, Types
  <2>. QED  BY <1>1, <2>1, EventFrame DEF RemoveMark, clear_event_state, Bits
<1>2. CASE RemoveReset
  <2>1. Keeping
    BY <1>2 DEF RemoveReset, Keeping, At
  <2>2. Bits' \subseteq Bits
    BY <1>2 DEF RemoveReset, Reset, Device, Bits
  <2>. QED  BY <1>2, <2>1, <2>2, EventFrame DEF RemoveReset, eventVars
<1>3. CASE RemoveSync \/ RemoveRelease \/ FreeIrq
  <2>1. UNCHANGED <<user, eventVars, delivered, dev, handler, pending_irq>>
        /\ remover' \notin {"bound", "lock"}
    BY <1>3 DEF RemoveSync, RemoveRelease, FreeIrq
  <2>2. Keeping
    BY <2>1 DEF Keeping, At
  <2>. QED  BY <2>1, <2>2, EventFrame DEF eventVars, Bits
<1>. QED  BY <1>1, <1>2, <1>3 DEF RemoveSteps

\* The device waits with the one bit it raised.
LEMMA DeviceEvents ==
  ASSUME DriverInv, EventInv, NEW k \in Raised, DeviceRequest(k) \/ DeviceEnds(k)
  PROVE  EventInv'
<1>1. dev.state = "running" /\ dev \in DeviceType
  BY DEF DeviceRequest, DeviceEnds, DriverInv, Types
<1>2. Bits = {} /\ ~EventOut
  BY <1>1 DEF DriverInv, Settled, Still
<1>3. UNCHANGED <<user, eventVars, delivered, handler, pending_irq>>
  BY DEF DeviceRequest, DeviceEnds
<1>4. ~EventOut'
  BY <1>2, <1>3 DEF EventOut, eventVars, Held
<1>5. dev'.irq = {k} /\ (k \notin Terminal => dev'.state = "waiting" /\ dev'.kind = k)
  <2>1. CASE DeviceRequest(k)
    BY <1>1, <2>1 DEF DeviceRequest, DeviceType
  <2>2. CASE DeviceEnds(k)
    BY <1>1, <2>2 DEF DeviceEnds, DeviceType
  <2>. QED  BY <2>1, <2>2
<1>6. Bits' = {k}
  BY <1>2, <1>3, <1>5 DEF Bits
<1>. QED  BY <1>3, <1>4, <1>5, <1>6, NothingOut DEF eventVars, BitsAsk

-----------------------------------------------------------------------------

\* EventInv holds at the start.
LEMMA EventInit == Init => EventInv
<1>. SUFFICES ASSUME Init PROVE EventInv
  OBVIOUS
<1>1. \A u \in Users : ~At(u, "W_copy") /\ ~At(u, "R_write")
  BY DEF Init, At
<1>2. Bits = {}
  BY DEF Init, Bits, Device, Resting
<1>. QED  BY <1>1, <1>2 DEF Init, EventInv, InOrder, Served, Awaited, BitsAsk

\* A step that changes nothing keeps it.
LEMMA EventStutters == EventInv /\ UNCHANGED vars => EventInv'
<1>. SUFFICES ASSUME EventInv, UNCHANGED vars PROVE EventInv'
  OBVIOUS
<1>1. Keeping
  BY DEF vars, Keeping, At
<1>. QED  BY <1>1, EventFrame DEF vars, eventVars, Bits

\* Both together are inductive.
LEMMA EventStep == DriverInv /\ EventInv /\ [Next]_vars => EventInv'
<1>1. ASSUME DriverInv, EventInv, Next PROVE EventInv'
  <2>1. ASSUME NEW u \in Users,
               \/ StartEnter(u) \/ StartSteps(u) \/ WaitSteps(u) \/ WaitInterrupted(u)
               \/ CopyFails(u) \/ FinishSteps(u) \/ Reply(u) \/ ReplyWrite(u)
        PROVE  EventInv'
    BY <1>1, <2>1, StartEvents, WaitEvents, WaitTakeEvents, CopyToUserEvents, CopyFailsEvents,
       FinishEvents, ReplyEvents, ReplyWriteEvents DEF WaitSteps
  <2>2. CASE IrqSteps
    BY <1>1, <2>2, IrqEvents, MissEvents, AnswerMissEvents, AbortEvents, PublishEventEvents,
       ReportErrorEvents DEF IrqSteps
  <2>3. CASE RemoveMark \/ RemoveSteps
    BY <1>1, <2>3, RemoveEvents
  <2>4. CASE DeviceSteps
    BY <1>1, <2>4, DeviceEvents DEF DeviceSteps
  <2>. QED  BY <1>1, <2>1, <2>2, <2>3, <2>4 DEF Next
<1>. QED  BY <1>1, EventStutters

\* So EventInv holds of every behaviour.
LEMMA EventInvariance == Spec => []EventInv
BY Invariance, EventInit, EventStep, PTL DEF Spec

\* Whoever is about to write the result registers answers the request the
\* device waits with: a reply sent twice, or late, is never written.
LEMMA AnswersKept == DriverInv /\ EventInv => AnswersAwaited
<1>. SUFFICES ASSUME DriverInv, EventInv, remover \in {"bound", "lock"}
              PROVE  /\ \A u \in Users : At(u, "R_write") =>
                          /\ dev.state = "waiting" /\ dev.kind \in ReplyKinds
                          /\ dev.req = user[u].got.req
                          /\ \A v \in Users : At(v, "R_write") => u = v
                     /\ handler.pc \in {"fill", "answer"} =>
                          dev.state = "waiting" /\ dev.kind = "TLB_MISS"
  BY DEF AnswersAwaited
<1>1. \A u, v \in Users : At(u, "R_write") /\ At(v, "R_write") => u = v
  BY DEF DriverInv, EventOnce, Held, Holding, At
<1>2. \A u \in Users : At(u, "R_write") =>
        /\ dev.state = "waiting" /\ dev.kind \in ReplyKinds /\ dev.req = user[u].got.req
  BY DEF EventInv, Awaited
<1>3. ASSUME handler.pc \in {"fill", "answer"}
      PROVE  dev.state = "waiting" /\ dev.kind = "TLB_MISS"
  <2>1. "TLB_MISS" \in Bits /\ "TLB_MISS" \notin Terminal
    BY <1>3 DEF DriverInv, Handling, Bits, Terminal
  <2>2. BitsAsk
    BY DEF EventInv, Awaited
  <2>. QED  BY <1>3, <2>1, <2>2 DEF BitsAsk
<1>. QED  BY <1>1, <1>2, <1>3

\* So it is in every behaviour.
THEOREM Answered == Spec => []AnswersAwaited
BY AnswersKept, Invariance, EventInvariance, PTL

\* No event is given twice and none late: threads get them in the order in
\* which they were published, also when one had to be put back.
THEOREM InOrderDelivery == Spec => DeliveredInOrder
<1>1. EventInv => \A u \in Users : CopyToUser(u) => \A s \in delivered : s < user[u].ev.seq
  BY DEF EventInv, InOrder, CopyToUser
<1>. QED  BY <1>1, EventInvariance, PTL DEF DeliveredInOrder

\* The invariants of the platform driver are those of the PCI driver.
THEOREM PciSafe ==
  PciSpec => [](DeviceMemoryPinned /\ AnswersAwaited /\ NothingLeftBehind) /\ DeliveredInOrder
BY PciIsPlatform, MemoryPinned, Answered, NothingHeld, InOrderDelivery, PTL

-----------------------------------------------------------------------------
(* The demonstration driver: XorInv is inductive.                            *)

XorStates == {"idle", "X_enter", "X_clear", "X_reset", "X_start", "X_wait", "X_stop",
              "X_status", "X_sync", "X_release"}
XorUserType == [pc : XorStates, ev : Events, got : Events, replied : BOOLEAN]
XorHandlerType ==
  [pc : {"idle", "top", "queued", "thread", "fill", "answer", "abort", "reset", "complete"},
   work : SUBSET Kinds, page : Pages \cup {None}]
Outcomes == {Success, "EIO", "miss"}

XorTypes ==
  /\ user \in [Users -> XorUserType] /\ op_lock \in Users \cup {None, "remove"}
  /\ pinned \subseteq Pages /\ refs \in [Pages -> Nat] /\ pending_irq \subseteq Kinds
  /\ handler \in XorHandlerType /\ dev \in DeviceType /\ requests \in Nat
  /\ op_status \in Outcomes /\ ret \in [Users -> Outcomes \cup {Gave}]

InOperation == {"X_clear", "X_reset", "X_start", "X_wait", "X_stop", "X_status", "X_sync",
                "X_release"}

\* The device is still, and nothing it asked for is on its way.
Calm == Stopped /\ Bits = {} /\ handler.pc = "idle"
\* The device finished the operation.
Ended == dev.state = "ended" /\ dev.kind = "DONE"
\* The handler has seen that, or is about to.
Finishes == "DONE" \in Bits \/ (op_status = Success /\ (done \/ handler.pc = "complete"))

\* op_lock is held for the complete lifetime of an operation, by the call that
\* runs it; without one the driver is at rest.
XorHolder ==
  /\ \A u \in Users : Running(u) <=> op_lock = u
  /\ op_lock \in Users => active = op_lock /\ op_active
  /\ op_lock \notin Users => ~op_active /\ active = None /\ pinned = {} /\ Calm
  /\ remover \in {"sync", "release"} => op_lock = "remove"

\* What a call that runs an operation may rely on, where it is.
XorCall(u) ==
  /\ user[u].pc \in {"X_clear", "X_reset", "X_start"} => Calm /\ ~done
  /\ At(u, "X_wait") => (Finishes => Ended)
  /\ At(u, "X_status") => Calm /\ (op_status = Success => Ended)
  /\ At(u, "X_stop") => ret[u] # Success
  /\ At(u, "X_sync") => Stopped /\ dev.irq = {} /\ (ret[u] = Success => Calm /\ Ended)
  /\ At(u, "X_release") => Calm /\ (ret[u] = Success => Ended)
XorCalls == \A u \in Users : XorCall(u)

\* One bit at a time; a running device has asked for nothing.
XorHandling ==
  /\ \E k \in Kinds : Bits \subseteq {k}
  /\ "DONE" \in Bits \/ handler.pc = "complete" => Stopped
  /\ dev.state = "running" => Bits = {} /\ handler.pc \in {"idle", "thread"}
  /\ dev.state = "idle" \/ handler.pc = "complete" => dev.irq = {}
  /\ pending_irq # {} => handler.pc = "queued"
  /\ handler.pc = "idle" => handler.work = {}
  /\ handler.pc \in {"top", "abort", "reset"} => handler.work # {}
  /\ dev.irq # {} => pending_irq = {} /\ (handler.work = {} \/ handler.pc = "top")
  /\ handler.pc \in {"fill", "answer"} => handler.work = {"TLB_MISS"} /\ handler.page \in Pages
  /\ handler.pc \in {"abort", "reset"} => "DONE" \notin handler.work
  /\ handler.pc = "reset" => op_status # Success
  /\ done => Calm

XorInv == XorTypes /\ XorHolder /\ XorCalls /\ XorHandling /\ Pinning

\* Goto moves one thread.
LEMMA XorMoves ==
  ASSUME XorTypes, NEW u \in Users, NEW pc \in XorStates, Goto(u, pc)
  PROVE  /\ user' \in [Users -> XorUserType]
         /\ \A v \in Users : user'[v].pc = IF v = u THEN pc ELSE user[v].pc
BY DEF XorTypes, Goto, XorUserType

\* A step of the call that runs the operation, within the operation: the other
\* calls do not run one, and the invariant says nothing of them.
LEMMA XorProceeds ==
  ASSUME XorInv, NEW u \in Users, Running(u), NEW pc \in InOperation, Goto(u, pc),
         UNCHANGED <<op_lock, op_active, active, remover>>
  PROVE  /\ user' \in [Users -> XorUserType] /\ user'[u].pc = pc
         /\ op_lock \in Users /\ XorHolder' /\ (XorCall(u)' => XorCalls')
<1>1. /\ user' \in [Users -> XorUserType]
      /\ \A v \in Users : user'[v].pc = IF v = u THEN pc ELSE user[v].pc
  BY XorMoves DEF XorInv, InOperation, XorStates
<1>2. op_lock = u /\ \A v \in Users : v # u => ~Running(v)
  BY DEF XorInv, XorHolder
<1>3. Running(u)' /\ \A v \in Users : v # u => ~Running(v)'
  BY <1>1, <1>2 DEF Running, InOperation
<1>4. XorHolder'
  BY <1>2, <1>3 DEF XorInv, XorHolder
<1>5. ASSUME NEW v \in Users, v # u PROVE XorCall(v)'
  BY <1>3, <1>5 DEF XorCall, Running, At
<1>. QED  BY <1>1, <1>2, <1>4, <1>5 DEF XorCalls

\* The steps that start an operation: the device is still until the last one.
LEMMA XorStarts ==
  ASSUME XorInv, NEW u \in Users, XorClear(u) \/ XorReset(u) \/ XorStart(u)
  PROVE  XorInv'
<1>0. Running(u) /\ Calm /\ ~done /\ XorTypes /\ XorHandling /\ Pinning
  BY DEF XorInv, XorCalls, XorCall, XorClear, XorReset, XorStart, Running, At
<1>1. CASE XorClear(u)
  <2>1. user' \in [Users -> XorUserType] /\ user'[u].pc = "X_reset" /\ XorHolder'
        /\ (XorCall(u)' => XorCalls')
    BY <1>0, <1>1, XorProceeds DEF XorClear, pageVars, InOperation
  <2>2. Calm'
    BY <1>0, <1>1 DEF XorClear, Calm, Stopped, Bits
  <2>3. XorCalls'
    BY <1>0, <1>1, <2>1, <2>2 DEF XorClear, xorVars, XorCall, At
  <2>4. XorTypes'
    BY <1>0, <1>1, <2>1 DEF XorClear, xorVars, XorTypes, pageVars, counters
  <2>5. XorHandling' /\ Pinning'
    BY <1>0, <1>1, <2>2 DEF XorClear, xorVars, XorHandling, Pinning, pageVars, Calm, Bits, Stopped
  <2>. QED  BY <2>1, <2>3, <2>4, <2>5 DEF XorInv
<1>2. CASE XorReset(u)
  <2>1. user' \in [Users -> XorUserType] /\ user'[u].pc = "X_start" /\ XorHolder'
        /\ (XorCall(u)' => XorCalls')
    BY <1>0, <1>2, XorProceeds DEF XorReset, pageVars, InOperation
  <2>2. dev'.state = "idle" /\ dev'.irq = {} /\ dev' \in DeviceType
    BY <1>0, <1>2 DEF XorReset, Reset, Device, DeviceType, XorTypes, Kinds
  <2>3. Calm'
    BY <1>0, <1>2, <2>2 DEF XorReset, Calm, Stopped, Bits
  <2>4. XorCalls'
    BY <1>0, <1>2, <2>1, <2>3 DEF XorReset, xorVars, XorCall, At
  <2>5. XorTypes'
    BY <1>0, <1>2, <2>1, <2>2 DEF XorReset, xorVars, XorTypes, pageVars, counters
  <2>6. XorHandling' /\ Pinning'
    BY <1>0, <1>2, <2>2, <2>3 DEF XorReset, xorVars, XorHandling, Pinning, pageVars, Calm, Bits,
       Stopped
  <2>. QED  BY <2>1, <2>4, <2>5, <2>6 DEF XorInv
<1>3. CASE XorStart(u)
  <2>1. user' \in [Users -> XorUserType] /\ user'[u].pc = "X_wait" /\ XorHolder'
        /\ (XorCall(u)' => XorCalls')
    BY <1>0, <1>3, XorProceeds DEF XorStart, pageVars, InOperation
  <2>2. dev'.state = "running" /\ dev'.irq = {} /\ dev' \in DeviceType /\ dev'.mapped = {}
    BY <1>0, <1>3 DEF XorStart, Device, DeviceType, XorTypes, Kinds
  <2>3. Bits' = {} /\ handler'.pc = "idle" /\ ~done' /\ handler' = handler
    BY <1>0, <1>3, <2>2 DEF XorStart, Calm, Bits, xorVars
  <2>4. XorCalls'
    BY <2>1, <2>3 DEF XorCall, At, Finishes
  <2>5. XorTypes'
    BY <1>0, <1>3, <2>1, <2>2 DEF XorStart, xorVars, XorTypes, pageVars, counters
  <2>6. XorHandling'
    BY <1>0, <1>3, <2>2, <2>3 DEF XorStart, xorVars, XorHandling, Bits
  <2>7. Pinning'
    BY <1>0, <1>3, <2>2 DEF XorStart, Pinning, pageVars
  <2>. QED  BY <2>1, <2>4, <2>5, <2>6, <2>7 DEF XorInv
<1>. QED  BY <1>1, <1>2, <1>3

\* The steps that wait for the outcome and end the operation.
LEMMA XorWaits ==
  ASSUME XorInv, NEW u \in Users,
         XorWoken(u) \/ XorStatus(u) \/ XorGivesUp(u) \/ XorStop(u) \/ XorSync(u)
  PROVE  XorInv'
<1>0. Running(u) /\ XorCall(u) /\ XorTypes /\ XorHandling /\ Pinning
  BY DEF XorInv, XorCalls, XorWoken, XorStatus, XorGivesUp, XorStop, XorSync, Running, At
<1>1. CASE XorWoken(u)
  <2>1. user' \in [Users -> XorUserType] /\ user'[u].pc = "X_status" /\ XorHolder'
        /\ (XorCall(u)' => XorCalls')
    BY <1>0, <1>1, XorProceeds DEF XorWoken, pageVars, InOperation
  <2>2. Calm /\ (op_status = Success => Ended)
    BY <1>0, <1>1 DEF XorWoken, XorCall, XorHandling, Finishes
  <2>3. Calm' /\ (op_status = Success => Ended)'
    BY <1>1, <2>2 DEF XorWoken, Calm, Ended, Bits, Stopped
  <2>4. XorCalls'
    BY <2>1, <2>3 DEF XorCall, At
  <2>5. XorTypes' /\ XorHandling' /\ Pinning'
    BY <1>0, <1>1, <2>1 DEF XorWoken, XorTypes, XorHandling, Pinning, pageVars, counters, Calm,
       Bits, Stopped
  <2>. QED  BY <2>1, <2>4, <2>5 DEF XorInv
<1>2. CASE XorStatus(u)
  <2>1. user' \in [Users -> XorUserType] /\ user'[u].pc = "X_sync" /\ XorHolder'
        /\ (XorCall(u)' => XorCalls')
    BY <1>0, <1>2, XorProceeds DEF XorStatus, pageVars, InOperation
  <2>2. Calm /\ (op_status = Success => Ended)
    BY <1>0, <1>2 DEF XorStatus, XorCall
  <2>3. ret'[u] = op_status /\ ret' \in [Users -> Outcomes \cup {Gave}]
    BY <1>0, <1>2 DEF XorStatus, XorTypes
  <2>4. XorCall(u)'
    BY <1>2, <2>1, <2>2, <2>3 DEF XorStatus, XorCall, At, Calm, Ended, Bits, Stopped
  <2>5. XorTypes' /\ XorHandling' /\ Pinning'
    BY <1>0, <1>2, <2>1, <2>3 DEF XorStatus, XorTypes, XorHandling, Pinning, pageVars, counters,
       Calm, Bits, Stopped
  <2>. QED  BY <2>1, <2>4, <2>5 DEF XorInv
<1>3. CASE XorGivesUp(u)
  <2>1. user' \in [Users -> XorUserType] /\ user'[u].pc = "X_stop" /\ XorHolder'
        /\ (XorCall(u)' => XorCalls')
    BY <1>0, <1>3, XorProceeds DEF XorGivesUp, pageVars, InOperation
  <2>2. ret'[u] = Gave /\ ret' \in [Users -> Outcomes \cup {Gave}] /\ Gave # Success
    BY <1>0, <1>3 DEF XorGivesUp, XorTypes, Gave, Success
  <2>3. XorCall(u)'
    BY <2>1, <2>2 DEF XorCall, At
  <2>4. XorTypes' /\ XorHandling' /\ Pinning'
    BY <1>0, <1>3, <2>1, <2>2 DEF XorGivesUp, XorTypes, XorHandling, Pinning, pageVars, counters,
       Calm, Bits, Stopped
  <2>. QED  BY <2>1, <2>3, <2>4 DEF XorInv
<1>4. CASE XorStop(u)
  <2>1. user' \in [Users -> XorUserType] /\ user'[u].pc = "X_sync" /\ XorHolder'
        /\ (XorCall(u)' => XorCalls')
    BY <1>0, <1>4, XorProceeds DEF XorStop, pageVars, InOperation
  <2>2. dev'.state = "idle" /\ dev'.irq = {} /\ dev' \in DeviceType
    BY <1>0, <1>4 DEF XorStop, Reset, Device, DeviceType, XorTypes, Kinds
  <2>3. ret'[u] # Success
    BY <1>0, <1>4 DEF XorStop, XorCall, xorVars
  <2>4. XorCall(u)'
    BY <2>1, <2>2, <2>3 DEF XorCall, At, Stopped
  <2>5. Bits' \subseteq Bits /\ Stopped' /\ (Calm => Calm')
    BY <1>4, <2>2 DEF XorStop, Bits, Stopped, Calm
  <2>6. XorTypes' /\ Pinning'
    BY <1>0, <1>4, <2>1, <2>2 DEF XorStop, XorTypes, Pinning, pageVars, counters, xorVars
  <2>7. XorHandling'
    BY <1>0, <1>4, <2>2, <2>5 DEF XorStop, XorHandling, xorVars
  <2>. QED  BY <2>1, <2>4, <2>6, <2>7 DEF XorInv
<1>5. CASE XorSync(u)
  <2>1. user' \in [Users -> XorUserType] /\ user'[u].pc = "X_release" /\ XorHolder'
        /\ (XorCall(u)' => XorCalls')
    BY <1>0, <1>5, XorProceeds DEF XorSync, pageVars, InOperation
  <2>2. Calm /\ (ret[u] = Success => Ended)
    BY <1>0, <1>5 DEF XorSync, XorCall, XorHandling, Calm, Bits
  <2>3. XorCall(u)'
    BY <1>5, <2>1, <2>2 DEF XorSync, XorCall, At, Calm, Ended, Bits, Stopped, xorVars
  <2>4. XorTypes' /\ XorHandling' /\ Pinning'
    BY <1>0, <1>5, <2>1 DEF XorSync, XorTypes, XorHandling, Pinning, pageVars, counters, xorVars,
       Calm, Bits, Stopped
  <2>. QED  BY <2>1, <2>3, <2>4 DEF XorInv
<1>. QED  BY <1>1, <1>2, <1>3, <1>4, <1>5

\* xor_ioctl begins: the lock is free, the driver is at rest.
LEMMA XorBegins ==
  ASSUME XorInv, NEW u \in Users, XorEnter(u) \/ XorLock(u)
  PROVE  XorInv'
<1>0. XorCalls /\ XorTypes /\ XorHandling /\ XorHolder /\ Pinning
  BY DEF XorInv
<1>1. CASE XorEnter(u)
  <2>1. /\ user' \in [Users -> XorUserType]
        /\ \A v \in Users : user'[v].pc = IF v = u THEN "X_enter" ELSE user[v].pc
    BY <1>0, <1>1, XorMoves DEF XorEnter, XorStates
  <2>2. At(u, "idle")
    BY <1>1 DEF XorEnter
  <2>3. \A v \in Users : Running(v)' <=> Running(v)
    BY <2>1, <2>2 DEF Running, At
  <2>4. XorHolder'
    BY <1>0, <1>1, <2>3 DEF XorEnter, XorHolder, pageVars, Calm, Bits, Stopped
  <2>5. XorCalls'
    <3>1. ASSUME NEW v \in Users PROVE XorCall(v)'
      <4>1. CASE v = u
        BY <2>1, <4>1 DEF XorCall, At
      <4>2. CASE v # u
        BY <1>0, <1>1, <2>1, <4>2 DEF XorCalls, XorCall, At, XorEnter, Calm, Bits, Stopped, Ended,
           Finishes, xorVars
      <4>. QED  BY <4>1, <4>2
    <3>. QED  BY <3>1 DEF XorCalls
  <2>6. XorTypes' /\ XorHandling' /\ Pinning'
    BY <1>0, <1>1, <2>1 DEF XorEnter, XorTypes, XorHandling, Pinning, pageVars, xorVars,
       Calm, Bits, Stopped
  <2>. QED  BY <2>4, <2>5, <2>6 DEF XorInv
<1>2. CASE XorLock(u)
  <2>1. /\ user' \in [Users -> XorUserType]
        /\ \A v \in Users : user'[v].pc = IF v = u THEN "X_clear" ELSE user[v].pc
    BY <1>0, <1>2, XorMoves DEF XorLock, XorStates
  <2>2. op_lock \notin Users /\ op_lock' = u /\ remover \notin {"sync", "release"}
    BY <1>0, <1>2, ConstantsAssumption DEF XorLock, XorHolder
  <2>3. Calm /\ pinned = {} /\ \A v \in Users : ~Running(v)
    BY <1>0, <2>2 DEF XorHolder
  <2>4. Calm' /\ ~done'
    BY <1>2, <2>3 DEF XorLock, Calm, Bits, Stopped
  <2>5. Running(u)' /\ \A v \in Users : v # u => ~Running(v)'
    BY <2>1, <2>3 DEF Running
  <2>6. XorHolder'
    BY <1>2, <2>2, <2>5 DEF XorLock, XorHolder
  <2>7. XorCalls'
    <3>1. ASSUME NEW v \in Users PROVE XorCall(v)'
      <4>1. CASE v = u
        BY <2>1, <2>4, <4>1 DEF XorCall, At
      <4>2. CASE v # u
        BY <2>5, <4>2 DEF XorCall, At, Running
      <4>. QED  BY <4>1, <4>2
    <3>. QED  BY <3>1 DEF XorCalls
  <2>8. XorTypes'
    BY <1>0, <1>2, <2>1 DEF XorLock, XorTypes, counters, Outcomes, Success
  <2>9. XorHandling'
    BY <1>0, <1>2, <2>3, <2>4 DEF XorLock, XorHandling, Bits, Stopped, Calm
  <2>10. Pinning'
    BY <1>0, <1>2, <2>3 DEF XorLock, Pinning
  <2>. QED  BY <2>6, <2>7, <2>8, <2>9, <2>10 DEF XorInv
<1>. QED  BY <1>1, <1>2

\* It ends: the handler is at rest, so the pages and the address space can go.
LEMMA XorReleases ==
  ASSUME XorInv, NEW u \in Users, XorRelease(u)
  PROVE  XorInv'
<1>0. XorCalls /\ XorTypes /\ XorHandling /\ XorHolder /\ Pinning
  BY DEF XorInv
<1>1. /\ user' \in [Users -> XorUserType]
      /\ \A v \in Users : user'[v].pc = IF v = u THEN "idle" ELSE user[v].pc
  BY <1>0, XorMoves DEF XorRelease, XorStates
<1>2. Calm /\ op_lock = u /\ remover \notin {"sync", "release"}
  BY <1>0, ConstantsAssumption DEF XorRelease, XorCalls, XorCall, XorHolder, At, Running
<1>3. Calm'
  BY <1>2 DEF XorRelease, Calm, Bits, Stopped
<1>4. \A v \in Users : ~Running(v)'
  BY <1>0, <1>1, <1>2 DEF Running, XorHolder
<1>5. XorHolder'
  BY <1>2, <1>3, <1>4, ConstantsAssumption DEF XorRelease, XorHolder, xor_unpin_all, unpin_all,
     xor_release_process_context, release_process_context
<1>6. XorCalls'
  BY <1>4 DEF XorCalls, XorCall, Running, At
<1>7. refs' \in [Pages -> Nat] /\ \A p \in Pages : refs'[p] = 0
  BY <1>0 DEF XorRelease, xor_unpin_all, unpin_all, Pinning, XorTypes
<1>8. XorTypes'
  BY <1>0, <1>1, <1>7 DEF XorRelease, XorTypes, counters, xorVars, xor_unpin_all, unpin_all
<1>9. XorHandling'
  BY <1>0, <1>2, <1>3 DEF XorRelease, XorHandling, Bits, Stopped, Calm, xorVars
<1>10. Pinning'
  BY <1>2, <1>7 DEF XorRelease, Pinning, xor_unpin_all, unpin_all, Calm, Stopped
<1>. QED  BY <1>5, <1>6, <1>8, <1>9, <1>10 DEF XorInv

\* While the handler or the device is at work a call waits, or has given up.
LEMMA XorBusy ==
  ASSUME XorInv, ~Calm
  PROVE  /\ op_lock \in Users /\ active = op_lock /\ ~done
         /\ \A u \in Users : Running(u) =>
              \/ At(u, "X_wait") /\ (Finishes => Ended)
              \/ At(u, "X_stop") /\ ret[u] # Success
              \/ At(u, "X_sync") /\ Stopped /\ dev.irq = {} /\ ret[u] # Success
BY DEF XorInv, XorHolder, XorCalls, XorCall, XorHandling, Running, At

\* What a step of the handler or of the device has to show of the calls.
LEMMA XorUnderWay ==
  ASSUME XorInv, ~Calm,
         UNCHANGED <<user, op_lock, op_active, active, ret>>,
         remover' \in {"sync", "release"} => remover \in {"sync", "release"},
         Finishes' => Ended' \/ (Finishes /\ dev'.state = dev.state /\ dev'.kind = dev.kind),
         Stopped /\ dev.irq = {} => Stopped' /\ dev'.irq = {}
  PROVE  XorHolder' /\ XorCalls'
<1>1. XorHolder'
  BY XorBusy DEF XorInv, XorHolder, Running
<1>2. ASSUME NEW u \in Users PROVE XorCall(u)'
  <2>1. CASE ~Running(u)
    BY <2>1 DEF XorCall, Running, At
  <2>2. CASE At(u, "X_wait") /\ (Finishes => Ended)
    BY <2>2 DEF XorCall, At, Ended
  <2>3. CASE At(u, "X_stop") /\ ret[u] # Success
    BY <2>3 DEF XorCall, At
  <2>4. CASE At(u, "X_sync") /\ Stopped /\ dev.irq = {} /\ ret[u] # Success
    BY <2>4 DEF XorCall, At
  <2>. QED  BY <2>1, <2>2, <2>3, <2>4, XorBusy
<1>. QED  BY <1>1, <1>2 DEF XorCalls

\* xor_irq_top and the begin of xor_irq_thread.
LEMMA XorTop ==
  ASSUME XorInv, XorIrqTop \/ XorIrqThread \/ XorIrqReturn
  PROVE  XorInv'
<1>0. XorTypes /\ XorHandling /\ Pinning /\ XorHolder
  BY DEF XorInv
<1>. USE DEF XorIrqTop, XorIrqThread, XorIrqReturn
<1>1. ~Calm
  BY DEF IrqTop, IrqClear, IrqThread, IrqReturn, Calm, Bits
<1>2. UNCHANGED <<user, op_lock, op_active, active, ret, done, op_status, remover, pageVars>>
      /\ UNCHANGED <<dev.state, dev.kind, dev.page, dev.mapped, requests>> /\ ~done
  BY <1>0, <1>1, XorBusy DEF IrqTop, IrqClear, IrqThread, IrqReturn, xorVars, pageVars, XorTypes,
     DeviceType, counters
<1>3. Bits' \subseteq Bits /\ dev'.irq \subseteq dev.irq /\ handler' \in XorHandlerType
      /\ pending_irq' \subseteq Kinds /\ handler'.pc \in {"top", "queued", "thread", "idle"}
  <2>1. CASE IrqTop
    BY <1>0, <2>1 DEF IrqTop, Bits, XorTypes, XorHandlerType, DeviceType
  <2>2. CASE IrqClear
    BY <1>0, <2>2 DEF IrqClear, Bits, XorTypes, XorHandlerType, DeviceType
  <2>3. CASE IrqThread
    BY <1>0, <2>3 DEF IrqThread, Bits, XorTypes, XorHandlerType
  <2>4. CASE IrqReturn
    BY <1>0, <2>4 DEF IrqReturn, Resting, Bits, XorTypes, XorHandlerType
  <2>. QED  BY <2>1, <2>2, <2>3, <2>4
<1>4. dev' \in DeviceType
  BY <1>0 DEF IrqTop, IrqClear, IrqThread, IrqReturn, XorTypes, DeviceType
<1>5. XorHolder' /\ XorCalls'
  BY <1>1, <1>2, <1>3, XorUnderWay DEF Finishes, Stopped
<1>6. XorTypes'
  BY <1>0, <1>2, <1>3, <1>4 DEF XorTypes, pageVars
<1>7. Pinning'
  BY <1>0, <1>2, <1>3 DEF Pinning, pageVars
<1>8. XorHandling'
  <2>1. /\ \E k \in Kinds : Bits' \subseteq {k}
        /\ "DONE" \in Bits' => Stopped'
        /\ dev'.state = "idle" => dev'.irq = {}
        /\ handler'.pc = "reset" => op_status' # Success
        /\ done' => Calm'
    BY <1>0, <1>2, <1>3 DEF XorHandling, Stopped
  <2>2. CASE IrqTop
    BY <1>0, <1>2, <2>1, <2>2 DEF IrqTop, XorHandling, XorTypes, XorHandlerType, Bits, Stopped
  <2>3. CASE IrqClear
    <3>1. dev'.irq = {} /\ handler'.work = {} /\ handler'.pc = "queued"
      BY <1>0, <2>3 DEF IrqClear, XorHandling, XorTypes, XorHandlerType, DeviceType, Bits
    <3>. QED  BY <1>0, <1>2, <2>1, <2>3, <3>1 DEF IrqClear, XorHandling, Stopped, Bits
  <2>4. CASE IrqThread
    <3>1. handler'.work = pending_irq /\ handler'.pc = "thread" /\ pending_irq' = {} /\ dev' = dev
      BY <1>0, <2>4 DEF IrqThread, XorTypes, XorHandlerType
    <3>2. handler.pc = "queued"
      BY <2>4 DEF IrqThread
    <3>. QED  BY <1>0, <1>2, <1>3, <2>1, <3>1, <3>2 DEF XorHandling, Bits
  <2>5. CASE IrqReturn
    <3>1. handler'.work = {} /\ handler'.pc = "idle" /\ UNCHANGED <<pending_irq, dev>>
          /\ handler.pc = "thread"
      BY <2>5 DEF IrqReturn, Resting
    <3>. QED  BY <1>0, <1>2, <1>3, <2>1, <3>1 DEF XorHandling, Bits
  <2>. QED  BY <2>2, <2>3, <2>4, <2>5
<1>. QED  BY <1>5, <1>6, <1>7, <1>8 DEF XorInv

\* The thread fills a miss, or finds that it cannot.
LEMMA XorMiss ==
  ASSUME XorInv, XorFillTlb \/ XorPinPage \/ XorAnswer
  PROVE  XorInv'
<1>0. XorTypes /\ XorHandling /\ Pinning /\ XorHolder
  BY DEF XorInv
<1>. USE DEF XorFillTlb, XorPinPage, XorAnswer
<1>1. /\ ~Calm /\ "TLB_MISS" \in handler.work /\ "DONE" \notin Bits
      /\ handler.pc \in {"thread", "fill", "answer"}
  BY <1>0 DEF FillTlb, Working, PinPage, AnswerMiss, Calm, Bits, XorHandling
<1>2. ~done /\ pending_irq = {} /\ dev.irq = {}
  BY <1>0, <1>1, XorBusy DEF XorHandling
<1>3. CASE XorFillTlb
  <2>1. /\ UNCHANGED <<user, op_lock, op_active, active, ret, done, op_status, remover>>
        /\ UNCHANGED <<pending_irq, pageVars, dev, requests>>
    BY <1>3 DEF FillTlb, xorVars, pageVars, counters
  <2>2. /\ handler' \in XorHandlerType /\ handler'.work = handler.work
        /\ handler'.page = dev.page /\ handler'.pc \in {"abort", "fill"}
        /\ handler'.pc = "fill" => dev.page \in Pages
        /\ handler.pc = "thread"
    BY <1>0, <1>3 DEF FillTlb, Working, XorTypes, XorHandlerType, DeviceType
  <2>3. Bits' = Bits /\ handler.work = {"TLB_MISS"}
    BY <1>0, <1>1, <2>1, <2>2 DEF Bits, XorHandling
  <2>4. XorHolder' /\ XorCalls'
    BY <1>1, <1>2, <2>1, <2>2, <2>3, XorUnderWay DEF Finishes, Stopped
  <2>5. XorTypes' /\ Pinning'
    BY <1>0, <2>1, <2>2 DEF XorTypes, Pinning, pageVars
  <2>6. dev.state # "running"
    BY <1>0, <1>1 DEF XorHandling, Bits
  <2>7. XorHandling'
    BY <1>0, <1>1, <1>2, <2>1, <2>2, <2>3, <2>6 DEF XorHandling, Stopped
  <2>. QED  BY <2>4, <2>5, <2>7 DEF XorInv
<1>4. CASE XorPinPage
  <2>1. /\ UNCHANGED <<user, op_lock, op_active, active, ret, done, op_status, remover>>
        /\ UNCHANGED <<pending_irq, dev, requests>>
    BY <1>4 DEF PinPage, xorVars, counters
  <2>2. /\ handler' \in XorHandlerType /\ handler'.work = handler.work
        /\ handler'.page = handler.page /\ handler'.pc \in {"abort", "answer"}
        /\ handler.pc = "fill"
    BY <1>0, <1>4 DEF PinPage, Goes, XorTypes, XorHandlerType
  <2>3. Bits' = Bits /\ handler.work = {"TLB_MISS"} /\ handler.page \in Pages
    BY <1>0, <1>1, <2>1, <2>2 DEF Bits, XorHandling
  <2>4. XorHolder' /\ XorCalls'
    BY <1>1, <1>2, <2>1, <2>2, <2>3, XorUnderWay DEF Finishes, Stopped
  <2>5. /\ pinned' \subseteq Pages /\ pinned \subseteq pinned' /\ refs' \in [Pages -> Nat]
        /\ handler'.pc = "answer" => handler.page \in pinned'
        /\ \A p \in Pages : refs'[p] = IF p \in pinned' THEN 1 ELSE 0
    <3>1. CASE UNCHANGED <<pinned, refs>> /\ Goes("abort")
      BY <1>0, <2>3, <3>1 DEF XorTypes, Pinning, Goes, XorHandlerType
    <3>2. CASE /\ pinned' = pinned \cup {handler.page}
               /\ refs' = IF handler.page \in pinned THEN refs
                          ELSE [refs EXCEPT ![handler.page] = @ + 1]
      BY <1>0, <2>3, <3>2 DEF XorTypes, Pinning
    <3>. QED  BY <1>4, <3>1, <3>2 DEF PinPage
  <2>6. XorTypes' /\ Pinning'
    BY <1>0, <2>1, <2>2, <2>5 DEF XorTypes, Pinning
  <2>7. XorHandling'
    BY <1>0, <1>1, <1>2, <2>1, <2>2, <2>3 DEF XorHandling, Stopped
  <2>. QED  BY <2>4, <2>6, <2>7 DEF XorInv
<1>5. CASE XorAnswer
  <2>1. /\ UNCHANGED <<user, op_lock, op_active, active, ret, done, op_status, remover>>
        /\ UNCHANGED <<pending_irq, pageVars, requests>>
    BY <1>5 DEF AnswerMiss, xorVars, pageVars, counters
  <2>2. handler.work = {"TLB_MISS"} /\ handler.page \in Pages /\ handler.page \in pinned
    BY <1>0, <1>5 DEF AnswerMiss, XorHandling, Pinning
  <2>3. handler' \in XorHandlerType /\ handler'.work = {} /\ handler'.pc = "thread"
    BY <1>0, <1>5, <2>2 DEF AnswerMiss, Handled, XorTypes, XorHandlerType
  <2>4. /\ dev' \in DeviceType /\ dev'.irq = {} /\ dev'.kind = dev.kind
        /\ dev'.state = IF dev.state = "waiting" THEN "running" ELSE dev.state
        /\ dev'.state = "running" => dev'.mapped \subseteq pinned
        /\ dev'.state = "waiting" => FALSE
    BY <1>0, <1>1, <1>2, <1>5, <2>2 DEF AnswerMiss, Continue, XorTypes, DeviceType, Pinning,
       XorHandling
  <2>5. Bits' = {}
    BY <1>2, <2>1, <2>3, <2>4 DEF Bits
  <2>6. XorHolder' /\ XorCalls'
    BY <1>1, <1>2, <2>1, <2>3, <2>4, <2>5, XorUnderWay DEF Finishes, Stopped
  <2>7. XorTypes' /\ Pinning'
    BY <1>0, <2>1, <2>3, <2>4 DEF XorTypes, Pinning, pageVars
  <2>8. XorHandling'
    BY <1>0, <1>2, <2>1, <2>3, <2>4, <2>5 DEF XorHandling, Kinds
  <2>. QED  BY <2>6, <2>7, <2>8 DEF XorInv
<1>. QED  BY <1>3, <1>4, <1>5

\* The thread settles the outcome and completes the operation.
LEMMA XorOutcome ==
  ASSUME XorInv, XorError \/ XorMissFails \/ XorIrqReset \/ XorDone \/ XorComplete
  PROVE  XorInv'
<1>0. XorTypes /\ XorHandling /\ Pinning /\ XorHolder
  BY DEF XorInv
<1>1. ~Calm /\ ~done
  <2>1. handler.pc # "idle"
    BY DEF XorError, XorMissFails, XorIrqReset, XorDone, XorComplete
  <2>. QED  BY <1>0, <2>1 DEF Calm, XorHandling
<1>2. /\ UNCHANGED <<user, op_lock, op_active, pageVars, pending_irq, remover, ret, requests>>
      /\ op_status' \in Outcomes
  BY <1>0 DEF XorError, XorMissFails, XorIrqReset, XorDone, XorComplete, xorVars, counters,
     XorTypes, Outcomes
<1>3. CASE XorError \/ XorMissFails \/ XorDone
  <2>1. /\ UNCHANGED <<dev, done>> /\ handler'.work = handler.work
        /\ handler' \in XorHandlerType /\ handler'.pc \in {"reset", "complete"}
        /\ handler'.pc = "reset" <=> ~XorDone
    <3>1. CASE XorError
      BY <1>0, <3>1 DEF XorError, XorDone, Goes, XorTypes, XorHandlerType
    <3>2. CASE XorMissFails
      BY <1>0, <3>2 DEF XorMissFails, XorDone, Goes, XorTypes, XorHandlerType
    <3>3. CASE XorDone
      BY <1>0, <3>3 DEF XorDone, Goes, XorTypes, XorHandlerType
    <3>. QED  BY <1>3, <3>1, <3>2, <3>3
  <2>2. Bits' = Bits /\ handler.work # {} /\ handler.work \subseteq Bits
    BY <1>0, <1>2, <1>3, <2>1 DEF Bits, XorError, XorMissFails, XorDone, XorHandling
  <2>3. dev.irq = {} /\ pending_irq = {} /\ dev.state # "running"
    BY <1>0, <1>3, <2>2 DEF XorHandling, XorError, XorMissFails, XorDone
  <2>4. CASE XorDone
    <3>1. "DONE" \in Bits /\ Stopped /\ op_status' = Success
      BY <1>0, <2>2, <2>4 DEF XorDone, XorHandling
    <3>2. XorHolder' /\ XorCalls'
      BY <1>1, <1>2, <2>1, <2>3, <3>1, XorUnderWay DEF Finishes, Stopped, pageVars
    <3>3. XorHandling'
      BY <1>0, <1>1, <1>2, <2>1, <2>2, <2>3, <2>4, <3>1 DEF XorHandling, Stopped
    <3>4. XorTypes' /\ Pinning'
      BY <1>0, <1>2, <2>1, <2>4 DEF XorTypes, Pinning, pageVars
    <3>. QED  BY <3>2, <3>3, <3>4 DEF XorInv
  <2>5. CASE ~XorDone
    <3>1. "DONE" \notin Bits /\ op_status' # Success /\ handler'.pc = "reset"
      <4>1. CASE XorError
        BY <1>0, <2>1, <2>2, <2>5, <4>1 DEF XorError, XorHandling, Success
      <4>2. CASE XorMissFails
        BY <1>0, <2>1, <2>2, <2>3, <2>5, <4>2 DEF XorMissFails, XorHandling, Success, Bits
      <4>. QED  BY <1>3, <2>5, <4>1, <4>2
    <3>2. XorHolder' /\ XorCalls'
      BY <1>1, <1>2, <2>1, <2>2, <3>1, XorUnderWay DEF Finishes, Stopped, pageVars
    <3>3. XorHandling'
      BY <1>0, <1>1, <1>2, <2>1, <2>2, <2>3, <3>1 DEF XorHandling, Stopped
    <3>4. XorTypes' /\ Pinning'
      BY <1>0, <1>2, <2>1, <3>1 DEF XorTypes, Pinning, pageVars
    <3>. QED  BY <3>2, <3>3, <3>4 DEF XorInv
  <2>. QED  BY <2>4, <2>5
<1>4. CASE XorIrqReset
  <2>1. /\ handler' \in XorHandlerType /\ handler'.work = handler.work /\ handler.pc = "reset"
        /\ handler'.pc = "complete" /\ UNCHANGED <<done, op_status>>
    BY <1>0, <1>4 DEF XorIrqReset, Goes, XorTypes, XorHandlerType, xorVars
  <2>2. dev' \in DeviceType /\ dev'.irq = {} /\ dev'.state = "idle"
    BY <1>0, <1>4 DEF XorIrqReset, Reset, Device, DeviceType, XorTypes, Kinds
  <2>3. "DONE" \notin handler.work /\ pending_irq = {} /\ op_status # Success
    BY <1>0, <2>1 DEF XorHandling
  <2>4. "DONE" \notin Bits' /\ Bits' \subseteq Bits
    BY <1>2, <2>1, <2>2, <2>3 DEF Bits
  <2>5. XorHolder' /\ XorCalls'
    BY <1>1, <1>2, <2>1, <2>2, <2>3, <2>4, XorUnderWay DEF Finishes, Stopped, pageVars
  <2>6. XorHandling'
    BY <1>0, <1>1, <1>2, <2>1, <2>2, <2>3, <2>4 DEF XorHandling, Stopped
  <2>7. XorTypes' /\ Pinning'
    BY <1>0, <1>2, <2>1, <2>2 DEF XorTypes, Pinning, pageVars
  <2>. QED  BY <2>5, <2>6, <2>7 DEF XorInv
<1>5. CASE XorComplete
  <2>1. /\ handler'.pc = "idle" /\ handler'.work = {} /\ handler' \in XorHandlerType
        /\ handler.pc = "complete" /\ done' = TRUE /\ UNCHANGED <<dev, op_status>>
    BY <1>0, <1>5 DEF XorComplete, Resting, XorHandlerType
  <2>2. Stopped /\ dev.irq = {} /\ pending_irq = {}
    BY <1>0, <2>1 DEF XorHandling
  <2>3. Calm' /\ Bits' = {}
    BY <1>2, <2>1, <2>2 DEF Calm, Bits, Stopped
  <2>4. XorHolder' /\ XorCalls'
    BY <1>1, <1>2, <2>1, <2>2, <2>3, XorUnderWay DEF Finishes, Stopped, pageVars
  <2>5. XorHandling'
    BY <1>0, <1>2, <2>1, <2>2, <2>3 DEF XorHandling, Calm, Stopped
  <2>6. XorTypes' /\ Pinning'
    BY <1>0, <1>2, <2>1 DEF XorTypes, Pinning, pageVars
  <2>. QED  BY <2>4, <2>5, <2>6 DEF XorInv
<1>. QED  BY <1>3, <1>4, <1>5

\* The device asks for a page, or ends: a call waits for that.
LEMMA XorDeviceKeeps ==
  ASSUME XorInv, XorDevice
  PROVE  XorInv'
<1>0. XorTypes /\ XorHandling /\ Pinning /\ XorHolder
  BY DEF XorInv
<1>1. dev.state = "running" /\ ~Calm /\ ~done /\ Bits = {} /\ handler.pc \in {"idle", "thread"}
      /\ ~Stopped
  <2>1. dev.state = "running"
    BY DEF XorDevice, DeviceRequest, DeviceEnds
  <2>. QED  BY <1>0, <2>1 DEF XorHandling, Calm, Stopped
<1>2. /\ UNCHANGED <<user, op_lock, op_active, pageVars, pending_irq, handler, remover>>
      /\ UNCHANGED <<ret, done, op_status>>
  BY DEF XorDevice, DeviceRequest, DeviceEnds, xorVars
<1>3. /\ dev' \in DeviceType /\ requests' \in Nat /\ dev'.mapped = dev.mapped
      /\ \E k \in Kinds :
           /\ dev'.irq = {k} /\ dev'.kind = k
           /\ dev'.state \in {"waiting", "ended"} /\ (k = "DONE" => dev'.state = "ended")
  <2>1. CASE DeviceRequest("TLB_MISS")
    <3>1. PICK k \in Kinds, p \in Pages : k = "TLB_MISS" /\
            dev' = [dev EXCEPT !.state = "waiting", !.irq = {k}, !.kind = k, !.page = p,
                               !.req = requests + 1]
      BY <2>1 DEF DeviceRequest, Kinds
    <3>2. requests' = requests + 1 /\ requests + 1 \in Nat /\ {k} \in SUBSET Kinds
          /\ p \in Pages \cup {None} /\ dev \in DeviceType
      BY <1>0, <2>1 DEF DeviceRequest, XorTypes
    <3>3. dev' \in DeviceType
      BY <3>1, <3>2 DEF DeviceType
    <3>4. dev'.mapped = dev.mapped /\ dev'.irq = {k} /\ dev'.kind = k /\ dev'.state = "waiting"
      BY <3>1, <3>2 DEF DeviceType
    <3>. QED  BY <3>1, <3>2, <3>3, <3>4
  <2>2. ASSUME NEW k \in Terminal, DeviceEnds(k)
        PROVE  /\ dev' \in DeviceType /\ requests' \in Nat /\ dev'.mapped = dev.mapped
               /\ dev'.irq = {k} /\ dev'.kind = k /\ dev'.state = "ended" /\ k \in Kinds
    BY <1>0, <2>2 DEF DeviceEnds, XorTypes, DeviceType, Kinds, counters
  <2>. QED  BY <2>1, <2>2 DEF XorDevice
<1>4. PICK k \in Kinds : /\ dev'.irq = {k} /\ dev'.kind = k
                         /\ dev'.state \in {"waiting", "ended"}
                         /\ k = "DONE" => dev'.state = "ended"
  BY <1>3
<1>5. Bits' = {k} /\ handler.work = {} /\ pending_irq = {}
  BY <1>1, <1>2, <1>4 DEF Bits
<1>6. XorHolder' /\ XorCalls'
  BY <1>1, <1>2, <1>4, <1>5, XorUnderWay DEF Finishes, Ended, Stopped, pageVars
<1>7. XorHandling'
  BY <1>0, <1>1, <1>2, <1>4, <1>5 DEF XorHandling, Stopped
<1>8. XorTypes'
  BY <1>0, <1>2, <1>3 DEF XorTypes, pageVars
<1>9. Pinning'
  BY <1>0, <1>1, <1>2, <1>3 DEF Pinning, pageVars
<1>. QED  BY <1>6, <1>7, <1>8, <1>9 DEF XorInv

\* xor_remove: with op_lock in its hands nothing is under way.
LEMMA XorRemoveKeeps ==
  ASSUME XorInv, XorRemoveMark \/ XorRemove
  PROVE  XorInv'
<1>0. XorTypes /\ XorHandling /\ Pinning /\ XorHolder /\ XorCalls
  BY DEF XorInv
<1>. USE DEF XorRemove, RemoveSteps
<1>1. UNCHANGED <<user, pending_irq, handler, done, op_status, ret, requests>>
  BY DEF XorRemoveMark, RemoveReset, RemoveSync, RemoveRelease, FreeIrq, xorVars, counters
<1>2. CASE XorRemoveMark \/ RemoveSync \/ FreeIrq
  <2>1. UNCHANGED <<op_lock, op_active, pageVars, dev>>
        /\ (remover' \in {"sync", "release"} => remover \in {"sync", "release"})
    BY <1>2 DEF XorRemoveMark, RemoveSync, FreeIrq
  <2>2. Calm' = Calm /\ Finishes' = Finishes /\ Bits' = Bits
    BY <1>1, <2>1 DEF Calm, Finishes, Bits, Stopped
  <2>3. XorHolder' /\ XorCalls'
    BY <1>0, <1>1, <2>1, <2>2 DEF XorHolder, XorCalls, XorCall, Running, At, Stopped, Ended,
       pageVars
  <2>4. XorTypes' /\ XorHandling' /\ Pinning'
    BY <1>0, <1>1, <2>1, <2>2 DEF XorTypes, XorHandling, Pinning, pageVars, Stopped
  <2>. QED  BY <2>3, <2>4 DEF XorInv
<1>3. CASE RemoveReset \/ RemoveRelease
  <2>1. op_lock \notin Users /\ op_lock' \notin Users /\ op_lock' \in {None, "remove"}
        /\ (remover' \in {"sync", "release"} => op_lock' = "remove")
    BY <1>0, <1>3, ConstantsAssumption DEF RemoveReset, RemoveRelease, XorHolder
  <2>2. Calm /\ pinned = {} /\ ~op_active /\ active = None /\ \A u \in Users : ~Running(u)
    BY <1>0, <2>1 DEF XorHolder
  <2>3. /\ pinned' = {} /\ ~op_active' /\ active' = None
        /\ refs' \in [Pages -> Nat] /\ \A p \in Pages : refs'[p] = 0
    <3>1. CASE RemoveReset
      BY <1>0, <2>2, <3>1 DEF RemoveReset, pageVars, XorTypes, Pinning
    <3>2. CASE RemoveRelease
      BY <1>0, <2>2, <3>2 DEF RemoveRelease, unpin_all, release_process_context, XorTypes, Pinning
    <3>. QED  BY <1>3, <3>1, <3>2
  <2>4. /\ dev' \in DeviceType /\ dev'.irq = {} /\ dev'.state \in {"idle", "ended"}
    <3>1. CASE RemoveReset
      BY <1>0, <3>1 DEF RemoveReset, Reset, Device, DeviceType, XorTypes, Kinds
    <3>2. CASE RemoveRelease
      BY <1>0, <2>2, <3>2 DEF RemoveRelease, XorTypes, Calm, Bits, Stopped
    <3>. QED  BY <1>3, <3>1, <3>2
  <2>5. Calm' /\ Bits' = {}
    BY <1>1, <2>2, <2>4 DEF Calm, Bits, Stopped
  <2>6. \A u \in Users : ~Running(u)'
    BY <1>1, <2>2 DEF Running
  <2>7. XorHolder' /\ XorCalls'
    BY <2>1, <2>3, <2>5, <2>6 DEF XorHolder, XorCalls, XorCall, Running, At
  <2>8. XorTypes' /\ Pinning'
    BY <1>0, <1>1, <2>1, <2>2, <2>3, <2>4 DEF XorTypes, Pinning, Calm
  <2>9. XorHandling'
    BY <1>0, <1>1, <2>2, <2>4, <2>5 DEF XorHandling, Calm, Stopped
  <2>. QED  BY <2>7, <2>8, <2>9 DEF XorInv
<1>. QED  BY <1>2, <1>3

\* A step that changes nothing keeps it.
LEMMA XorStutters == XorInv /\ UNCHANGED <<vars, xorVars>> => XorInv'
<1>. SUFFICES ASSUME XorInv, UNCHANGED <<vars, xorVars>> PROVE XorInv'
  OBVIOUS
<1>1. UNCHANGED <<user, op_lock, op_active, active, pinned, refs, pending_irq, handler, remover,
                  dev, requests, done, op_status, ret>>
  BY DEF vars, xorVars, pageVars, counters
<1>2. Calm' = Calm /\ Finishes' = Finishes /\ Bits' = Bits
  BY <1>1 DEF Calm, Finishes, Bits, Stopped
<1>3. XorHolder' /\ XorCalls'
  BY <1>1, <1>2 DEF XorInv, XorHolder, XorCalls, XorCall, Running, At, Stopped, Ended
<1>. QED  BY <1>1, <1>2, <1>3 DEF XorInv, XorTypes, XorHandling, Pinning, Stopped

\* It holds before the first call.
LEMMA XorInitially == Init /\ XorInit => XorInv
<1>. SUFFICES ASSUME Init, XorInit PROVE XorInv
  OBVIOUS
<1>1. Calm /\ Bits = {} /\ dev \in DeviceType /\ dev.state = "idle" /\ dev.irq = {}
  BY DEF Init, Calm, Bits, Stopped, Device, Resting, DeviceType, Kinds
<1>2. \A u \in Users : ~Running(u)
  BY DEF Init, Running
<1>3. XorHolder /\ XorCalls
  BY <1>1, <1>2, ConstantsAssumption DEF Init, XorHolder, XorCalls, XorCall, Running, At
<1>4. user \in [Users -> XorUserType]
  BY DEF Init, XorUserType, XorStates, Events, NoEvent
<1>5. XorTypes
  BY <1>1, <1>4 DEF Init, XorInit, XorTypes, XorHandlerType, Resting, Outcomes, Success
<1>6. XorHandling /\ Pinning
  BY <1>1 DEF Init, XorInit, XorHandling, Pinning, Resting, Kinds
<1>. QED  BY <1>3, <1>5, <1>6 DEF XorInv

\* Every step keeps it.
LEMMA XorStep == XorInv /\ [XorNext]_<<vars, xorVars>> => XorInv'
<1>. SUFFICES ASSUME XorInv, [XorNext]_<<vars, xorVars>> PROVE XorInv'
  OBVIOUS
<1>1. ASSUME NEW u \in Users, XorEnter(u) \/ XorIoctlSteps(u) PROVE XorInv'
  BY <1>1, XorBegins, XorStarts, XorWaits, XorReleases DEF XorIoctlSteps
<1>2. CASE XorIrqSteps
  BY <1>2, XorTop, XorMiss, XorOutcome DEF XorIrqSteps
<1>3. CASE XorRemoveMark \/ XorRemove \/ XorDevice
  BY <1>3, XorRemoveKeeps, XorDeviceKeeps
<1>4. CASE UNCHANGED <<vars, xorVars>>
  BY <1>4, XorStutters
<1>. QED  BY <1>1, <1>2, <1>3, <1>4 DEF XorNext

\* The invariant says what the properties say.
LEMMA XorSafe == XorInv => OwnCompletion /\ XorNothingLeft /\ DeviceMemoryPinned
<1>. SUFFICES ASSUME XorInv PROVE OwnCompletion /\ XorNothingLeft /\ DeviceMemoryPinned
  OBVIOUS
<1>0. XorTypes /\ XorHandling /\ Pinning /\ XorHolder /\ XorCalls
  BY DEF XorInv
<1>1. OwnCompletion
  BY <1>0 DEF OwnCompletion, XorHolder, XorCalls, XorCall, Calm, Ended, Stopped
<1>2. XorNothingLeft
  <2>1. ASSUME remover \in {"sync", "release"} PROVE op_lock \notin Users
    BY <1>0, <2>1, ConstantsAssumption DEF XorHolder
  <2>2. ASSUME ~\E u \in Users : Running(u) PROVE op_lock \notin Users
    BY <1>0, <2>2 DEF XorHolder
  <2>3. op_lock \notin Users =>
          /\ ~\E u \in Users : Running(u)
          /\ dev.state \in {"idle", "ended"} /\ ~op_active /\ active = None /\ pinned = {}
    BY <1>0 DEF XorHolder, Calm, Stopped
  <2>. QED  BY <2>1, <2>2, <2>3 DEF XorNothingLeft
<1>3. DeviceMemoryPinned
  <2>1. dev.state \in {"running", "waiting"} \/ handler.pc \in {"fill", "answer"} =>
          active \in Users
    BY <1>0, XorBusy DEF Calm, Stopped
  <2>. QED  BY <1>0, <2>1, ConstantsAssumption DEF DeviceMemoryPinned, Pinning
<1>. QED  BY <1>1, <1>2, <1>3

\* A caller of the demonstration driver gets the outcome of its own operation,
\* and what xor_remove frees nobody uses: see OwnCompletion, XorNothingLeft and
\* DeviceMemoryPinned.
THEOREM XorCorrect ==
  XorSpec => [](OwnCompletion /\ XorNothingLeft /\ DeviceMemoryPinned)
<1>1. XorSpec => []XorInv
  BY XorInitially, XorStep, PTL DEF XorSpec
<1>. QED  BY <1>1, XorSafe, PTL

-----------------------------------------------------------------------------
(* The driver of the edu device: EduInv is inductive.                        *)

EduCallType == [pc : {"idle", "write", "wait", "copy"}, val : Nat,
                beside : {"nothing", "late", "other"}]
FactType == [busy : BOOLEAN, reg : Nat, irq : BOOLEAN]

EduTypes ==
  /\ edu_ioctl \in [Callers -> EduCallType] /\ fact \in FactType
  /\ fact_done \in Nat /\ fact_result \in Nat /\ calls \in Nat
  /\ edu_irq \in {"idle", "read", "complete"}

\* A call that no other overlaps is alone with the device: its number is in one
\* place at a time, the device, the interrupt, the handler or the completion.
Alone(c) ==
  /\ \A d \in Callers : d # c => ~Calling(d)
  /\ fact.busy => ~fact.irq
  /\ fact.busy \/ fact.irq => edu_irq = "idle"
  /\ fact.busy \/ fact.irq \/ edu_irq # "idle" => fact_done = 0 /\ edu_ioctl[c].pc = "wait"
  /\ fact.busy \/ fact.irq \/ edu_irq = "read" => fact.reg = edu_ioctl[c].val
  /\ edu_irq = "complete" \/ fact_done > 0 \/ edu_ioctl[c].pc = "copy" =>
       fact_result = edu_ioctl[c].val
  /\ fact_done > 0 => fact_done = 1 /\ edu_ioctl[c].pc = "wait"

EduInv ==
  /\ EduTypes
  /\ \A c \in Callers : Calling(c) /\ edu_ioctl[c].beside = "nothing" => Alone(c)

\* A step keeps it.  A call that begins while another is on its way is not
\* alone, and takes that from the other.
LEMMA EduStep == EduInv /\ [EduNext]_eduVars => EduInv'
<1>. SUFFICES ASSUME EduInv, [EduNext]_eduVars PROVE EduInv'
  OBVIOUS
<1>0. EduTypes /\ \A c \in Callers : Calling(c) /\ edu_ioctl[c].beside = "nothing" => Alone(c)
  BY DEF EduInv
<1>1. ASSUME NEW c \in Callers, EduCall(c) PROVE EduInv'
  <2>1. /\ edu_ioctl'[c] = [pc |-> "write", val |-> calls + 1, beside |-> Beside]
        /\ \A d \in Callers : d # c =>
             edu_ioctl'[d] = [edu_ioctl[d] EXCEPT !.beside = "other"]
        /\ edu_ioctl' = [d \in Callers |-> edu_ioctl'[d]]
    BY <1>1 DEF EduCall
  <2>2. Beside \in {"nothing", "late", "other"} /\ (Beside = "nothing" <=> Quiet)
    BY DEF Beside
  <2>3. edu_ioctl'[c] \in EduCallType
    BY <1>0, <2>1, <2>2 DEF EduTypes, EduCallType
  <2>4. \A d \in Callers : d # c => /\ edu_ioctl'[d] \in EduCallType /\ edu_ioctl'[d].beside = "other"
                                    /\ edu_ioctl'[d].pc = edu_ioctl[d].pc
    <3>. TAKE d \in Callers
    <3>. HAVE d # c
    <3>1. /\ edu_ioctl'[d] = [edu_ioctl[d] EXCEPT !.beside = "other"]
          /\ edu_ioctl[d] \in EduCallType
      BY <1>0, <2>1 DEF EduTypes
    <3>. QED  BY <3>1 DEF EduCallType
  <2>5. EduTypes'
    <3>1. edu_ioctl' \in [Callers -> EduCallType]
      BY <2>1, <2>3, <2>4
    <3>. QED  BY <1>0, <1>1, <3>1 DEF EduCall, EduTypes
  <2>6. ASSUME NEW d \in Callers, Calling(d)', edu_ioctl'[d].beside = "nothing" PROVE Alone(d)'
    <3>1. d = c /\ Quiet
      BY <2>1, <2>2, <2>4, <2>6
    <3>2. edu_ioctl'[c].pc = "write" /\ \A e \in Callers : e # c => edu_ioctl'[e].pc = "idle"
      BY <2>1, <2>4, <3>1 DEF Quiet, NobodyCalls, Calling
    <3>. QED  BY <1>1, <2>1, <3>1, <3>2 DEF EduCall, Quiet, NobodyCalls, Alone, Calling
  <2>. QED  BY <2>5, <2>6 DEF EduInv
<1>2. ASSUME NEW c \in Callers, EduSteps(c) PROVE EduInv'
  <2>1. PICK pc \in {"idle", "wait", "copy"} :
          /\ edu_ioctl' = [edu_ioctl EXCEPT ![c].pc = pc]
          /\ \/ EduWrite(c) /\ pc = "wait"
             \/ EduWoken(c) /\ pc = "copy"
             \/ (EduTimeout(c) \/ EduCopy(c)) /\ pc = "idle"
    BY <1>2 DEF EduSteps, EduWrite, EduWoken, EduTimeout, EduCopy
  <2>2. edu_ioctl' \in [Callers -> EduCallType]
    BY <1>0, <2>1 DEF EduTypes, EduCallType
  <2>3. \A d \in Callers : /\ edu_ioctl'[d].beside = edu_ioctl[d].beside
                           /\ edu_ioctl'[d].val = edu_ioctl[d].val
                           /\ edu_ioctl'[d].pc = IF d = c THEN pc ELSE edu_ioctl[d].pc
    BY <1>0, <2>1 DEF EduTypes, EduCallType
  <2>4. fact' = fact \/ /\ EduWrite(c) /\ ~fact.busy /\ fact'.irq = fact.irq /\ fact'.busy
                        /\ fact'.reg = edu_ioctl[c].val
    BY <1>0, <1>2 DEF EduSteps, EduWrite, EduWoken, EduTimeout, EduCopy, EduTypes, FactType
  <2>5. fact' \in FactType
    BY <1>0, <1>2 DEF EduSteps, EduWrite, EduWoken, EduTimeout, EduCopy, EduTypes, FactType,
       EduCallType
  <2>6. EduTypes'
    BY <1>0, <1>2, <2>2, <2>5 DEF EduSteps, EduWrite, EduWoken, EduTimeout, EduCopy, EduTypes
  <2>7. Calling(c)
    BY <1>2 DEF EduSteps, EduWrite, EduWoken, EduTimeout, EduCopy, Calling
  <2>8. ASSUME NEW d \in Callers, Calling(d)', edu_ioctl'[d].beside = "nothing" PROVE Alone(d)'
    <3>1. Calling(d) /\ Alone(d)
      BY <1>0, <2>3, <2>7, <2>8 DEF Calling
    <3>2. d = c
      BY <2>7, <3>1 DEF Alone
    <3>3. \A e \in Callers : e # c => ~Calling(e)'
      BY <2>3, <3>1, <3>2 DEF Alone, Calling
    <3>4. CASE EduWrite(c) /\ pc = "wait"
      <4>1. ~fact.busy /\ ~fact.irq /\ edu_irq = "idle" /\ fact_done = 0
        BY <1>0, <3>1, <3>2, <3>4 DEF EduWrite, Alone, EduTypes
      <4>. QED  BY <2>3, <2>4, <3>2, <3>3, <3>4, <4>1 DEF EduWrite, Alone
    <3>5. CASE EduWoken(c) /\ pc = "copy"
      <4>1. ~fact.busy /\ ~fact.irq /\ edu_irq = "idle" /\ fact_result = edu_ioctl[c].val
        BY <3>1, <3>2, <3>5 DEF EduWoken, Alone
      <4>2. fact_done' = 0 /\ UNCHANGED <<fact, edu_irq, fact_result>>
        BY <3>1, <3>2, <3>5 DEF EduWoken, Alone
      <4>. QED  BY <2>3, <3>2, <3>3, <3>5, <4>1, <4>2 DEF Alone
    <3>6. CASE pc = "idle"
      BY <2>3, <2>8, <3>2, <3>6 DEF Calling
    <3>. QED  BY <2>1, <3>4, <3>5, <3>6
  <2>. QED  BY <2>6, <2>8 DEF EduInv
<1>3. CASE EduHandler \/ EduDevice
  <2>1. UNCHANGED edu_ioctl
    BY <1>3 DEF EduHandler, EduIrq, EduIrqRead, EduIrqComplete, EduDevice
  <2>2. fact' \in FactType /\ fact'.reg = fact.reg
    BY <1>0, <1>3 DEF EduHandler, EduIrq, EduIrqRead, EduIrqComplete, EduDevice, EduTypes, FactType
  <2>3. EduTypes'
    BY <1>0, <1>3, <2>2 DEF EduHandler, EduIrq, EduIrqRead, EduIrqComplete, EduDevice, EduTypes,
       FactType
  <2>4. ASSUME NEW d \in Callers, Alone(d) PROVE Alone(d)'
    <3>1. CASE EduIrq \/ EduDevice
      BY <1>0, <2>1, <2>4, <3>1 DEF EduIrq, EduDevice, EduTypes, FactType, Alone, Calling
    <3>2. CASE EduIrqRead
      BY <1>0, <2>1, <2>4, <3>2 DEF EduIrqRead, EduTypes, Alone, Calling
    <3>3. CASE EduIrqComplete
      BY <1>0, <2>1, <2>4, <3>3 DEF EduIrqComplete, EduTypes, Alone, Calling
    <3>. QED  BY <1>3, <3>1, <3>2, <3>3 DEF EduHandler
  <2>. QED  BY <1>0, <2>1, <2>3, <2>4 DEF Calling, EduInv
<1>4. CASE UNCHANGED eduVars
  BY <1>0, <1>4 DEF eduVars, EduTypes, Alone, Calling, EduInv
<1>. QED  BY <1>1, <1>2, <1>3, <1>4 DEF EduNext

\* It holds before the first call.
LEMMA EduBegins == EduInit => EduInv
BY DEF EduInit, EduInv, EduTypes, EduCallType, FactType, Calling, Nothing

-----------------------------------------------------------------------------
(* Loading and unloading the module: ModInv is inductive.                    *)

ModInv ==
  /\ mod \in {"out", "gsi", "pdev", "undo", "in", "failed", "exit"} /\ i \in Nat \ {0}
  /\ pdevs \subseteq gsis
  /\ mod \in {"gsi", "pdev", "undo"} => gsis \subseteq 1..i /\ pdevs \subseteq 1..(i - 1)
  /\ mod = "pdev" => i \in gsis
  /\ mod \in {"failed", "out"} => pdevs = {} /\ gsis \subseteq {i}
  /\ num_devs \in 1..MaxDevs /\ gsi0 \in BOOLEAN
  /\ ~gsi0 => mod = "out" /\ num_devs < MaxDevs

\* A step keeps it: devices are taken one after the other, and each is given
\* back before its interrupt.
LEMMA ModStep == ModInv /\ [ModNext]_modVars => ModInv'
<1>. SUFFICES ASSUME ModInv, [ModNext]_modVars PROVE ModInv'
  OBVIOUS
<1>. USE DEF ModInv
<1>1. CASE Load
  BY <1>1 DEF Load, Devs
<1>2. CASE RegisterGsi
  <2>1. i' = i /\ pdevs' = pdevs /\ gsis' \subseteq 1..i /\ pdevs' \subseteq gsis'
    BY <1>2 DEF RegisterGsi
  <2>2. mod' = "undo" \/ (mod' = "pdev" /\ i \in gsis')
    BY <1>2 DEF RegisterGsi
  <2>. QED  BY <1>2, <2>1, <2>2 DEF RegisterGsi
<1>3. CASE RegisterDevice
  <2>1. CASE mod' = "undo" /\ UNCHANGED <<i, gsis, pdevs>>
    BY <1>3, <2>1 DEF RegisterDevice
  <2>2. CASE pdevs' = pdevs \cup {i} /\ i = num_devs /\ mod' = "in" /\ UNCHANGED <<i, gsis>>
    BY <1>3, <2>2 DEF RegisterDevice
  <2>3. CASE pdevs' = pdevs \cup {i} /\ mod' = "gsi" /\ i' = i + 1 /\ UNCHANGED gsis
    BY <1>3, <2>3 DEF RegisterDevice
  <2>. QED  BY <1>3, <2>1, <2>2, <2>3 DEF RegisterDevice
<1>4. ASSUME NEW d, GiveBack(d)
      PROVE  pdevs' \subseteq gsis' /\ pdevs' \subseteq pdevs /\ gsis' \subseteq gsis
  BY <1>4 DEF GiveBack
<1>5. CASE Undo
  <2>. DEFINE before == {d \in pdevs \cup gsis : d < i}
  <2>1. CASE before = {}
    <3>1. pdevs = {} /\ gsis \subseteq {i}
      BY <1>5, <2>1 DEF Undo
    <3>. QED  BY <1>5, <2>1, <3>1 DEF Undo
  <2>2. CASE before # {}
    <3>1. PICK d \in before : GiveBack(d)
      BY <1>5, <2>2 DEF Undo
    <3>. QED  BY <1>4, <1>5, <2>2, <3>1 DEF Undo
  <2>. QED  BY <2>1, <2>2
<1>6. CASE Unload
  BY <1>6 DEF Unload
<1>7. CASE ModuleExit
  <2>1. CASE pdevs \cup gsis = {}
    <3>1. mod' = "out" /\ UNCHANGED <<num_devs, i, gsis, pdevs>> /\ gsis = {} /\ pdevs = {}
      BY <1>7, <2>1 DEF ModuleExit
    <3>2. gsi0' = (num_devs = MaxDevs /\ gsi0) /\ gsi0
      BY <1>7, <2>1 DEF ModuleExit
    <3>3. gsi0' \in BOOLEAN /\ (~gsi0' => num_devs # MaxDevs)
      BY <3>2, Zenon
    <3>4. num_devs # MaxDevs => num_devs < MaxDevs
      BY MaxDevsAssumption
    <3>. QED  BY <3>1, <3>3, <3>4
  <2>2. CASE pdevs \cup gsis # {}
    <3>1. PICK d \in pdevs \cup gsis : GiveBack(d)
      BY <1>7, <2>2 DEF ModuleExit
    <3>. QED  BY <1>4, <1>7, <2>2, <3>1 DEF ModuleExit
  <2>. QED  BY <2>1, <2>2
<1>8. CASE UNCHANGED modVars
  BY <1>8 DEF modVars
<1>. QED  BY <1>1, <1>2, <1>3, <1>5, <1>6, <1>7, <1>8 DEF ModNext

\* It holds before the module is loaded for the first time.
LEMMA ModBegins == ModInit => ModInv
BY MaxDevsAssumption DEF ModInit, ModInv

-----------------------------------------------------------------------------
(* The binding of the drivers: what makes a table of steps and labels right, *)
(* that the four tables are, and that a driver with such a table is.         *)

\* What is used as long as x is held.
Needs(d, x) ==
  CASE x = "irq" -> {"memory", "mapping", "locks"} \cup
                    (IF d \in {"pci", "xor"} THEN {"vectors", "device"} ELSE {})
    [] x = "file" -> {"memory", "mapping", "locks", "irq"}
    [] x = "mapping" -> IF d \in {"pci", "xor"} THEN {"regions", "device"} ELSE {}
    [] OTHER -> {}

\* The first n - 1 entries of a list.
First(list, n) == {list[k] : k \in 1 .. n - 1}
All(list) == First(list, Len(list) + 1)
\* What the steps take, and what the labels give back.
Names(d) == [k \in 1 .. Len(Probe[d]) |-> Probe[d][k][1]]
Given(d)  == [k \in 1 .. Len(Labels[d]) |-> Labels[d][k][2]]
Taken(d, n) == First(Names(d), n)
Undone(d, n) == First(Given(d), n)
Items(d) == Taken(d, Len(Probe[d]) + 1)
Stays(d) == All(Managed[d]) \cup Passive
Undoable(d) == Undone(d, Len(Labels[d]) + 1) \cup Stays(d)
Removable(d) == All(Remove[d]) \cup Stays(d)

\* A step takes nothing before what it needs.
TakenInOrder(d) ==
  \A n \in 1 .. Len(Probe[d]) : Needs(d, Names(d)[n]) \subseteq Taken(d, n)

\* A failed step goes to the label that leaves out what was not taken.
FailsRight(d) ==
  \A n \in 1 .. Len(Probe[d]) :
    /\ Probe[d][n][2] = "return" => Taken(d, n) \subseteq Stays(d)
    /\ \A k \in 1 .. Len(Labels[d]) :
         Labels[d][k][1] = Probe[d][n][2] => Taken(d, n) \subseteq Undoable(d) \ Undone(d, k)

\* Nothing is given back before what needs it; remove gives back everything.
UndoneInOrder(d) ==
  \A n \in 1 .. Len(Labels[d]) : \A x \in Undoable(d) :
    Given(d)[n] \in Needs(d, x) => x \in Undone(d, n)
RemovedInOrder(d) ==
  \A n \in 1 .. Len(Remove[d]) : \A x \in Removable(d) :
    Remove[d][n] \in Needs(d, x) => x \in First(Remove[d], n)
ManagedInOrder(d) ==
  \A n \in 1 .. Len(Managed[d]) : \A x \in Stays(d) :
    Managed[d][n] \in Needs(d, x) => x \in First(Managed[d], n)

TableRight(d) ==
  /\ Len(Probe[d]) \in Nat \ {0} /\ Len(Labels[d]) \in Nat \ {0}
  /\ Len(Remove[d]) \in Nat \ {0} /\ Len(Managed[d]) \in Nat
  /\ DOMAIN Labels[d] = 1 .. Len(Labels[d])
  /\ Managed[d] = <<>> <=> Len(Managed[d]) = 0
  /\ TakenInOrder(d) /\ FailsRight(d) /\ Items(d) \subseteq Removable(d)
  /\ UndoneInOrder(d) /\ RemovedInOrder(d) /\ ManagedInOrder(d)

\* The inductive invariant.
Where ==
  \/ /\ stage = "probe" /\ step \in 1 .. Len(Probe[driver])
     /\ held = Taken(driver, step)
  \/ stage = "bound" /\ step = 1 /\ held = Items(driver)
  \/ /\ stage = "unwind" /\ step \in 1 .. Len(Labels[driver])
     /\ held \subseteq Undoable(driver) \ Undone(driver, step)
  \/ /\ stage = "remove" /\ step \in 1 .. Len(Remove[driver])
     /\ held \subseteq Removable(driver) \ First(Remove[driver], step)
  \/ /\ stage = "managed"
     /\ step = 1 \/ step \in 1 .. Len(Managed[driver])
     /\ held \subseteq Stays(driver) \ First(Managed[driver], step)
  \/ stage = "unbound" /\ step = 1 /\ held \subseteq Passive
BindInv ==
  /\ driver \in Drivers /\ Where
  /\ \A x \in held : Needs(driver, x) \subseteq held

\* Holding what is used, in a form that speaks of one item at a time.
LEMMA UsesByItem ==
  UsersHaveWhatTheyUse <=> \A x \in held : Needs(driver, x) \subseteq held
<1>1. /\ Needs(driver, "irq") = {"memory", "mapping", "locks"} \cup
           (IF driver \in {"pci", "xor"} THEN {"vectors", "device"} ELSE {})
      /\ Needs(driver, "file") = {"memory", "mapping", "locks", "irq"}
      /\ Needs(driver, "mapping") =
           IF driver \in {"pci", "xor"} THEN {"regions", "device"} ELSE {}
      /\ \A x : x \notin {"irq", "file", "mapping"} => Needs(driver, x) = {}
  BY DEF Needs
<1>. QED BY <1>1 DEF UsersHaveWhatTheyUse

\* One more entry of a list is one more item.
LEMMA OneMore ==
  ASSUME NEW list, NEW n \in Nat \ {0}
  PROVE  /\ First(list, n + 1) = First(list, n) \cup {list[n]}
         /\ First(list, 1) = {}
<1>1. 1 .. (n + 1) - 1 = (1 .. n - 1) \cup {n} /\ 1 .. 1 - 1 = {}
  OBVIOUS
<1>. QED BY <1>1 DEF First

\* What is given back is needed by nothing that is held.
LEMMA GiveBackSafe ==
  ASSUME \A x \in held : Needs(driver, x) \subseteq held, driver' = driver,
         NEW item, held' = held \ {item},
         \A x \in held : item \notin Needs(driver, x)
  PROVE  \A x \in held' : Needs(driver', x) \subseteq held'
OBVIOUS

\* A driver whose table is right holds what it uses while it is bound, being
\* bound, and being unbound.
LEMMA BindingKept ==
  ASSUME \A d \in Drivers : TableRight(d), BindInv, [BindNext]_bindVars PROVE BindInv'
<1>0. driver \in Drivers /\ TableRight(driver)
  BY DEF BindInv
<1>1. CASE Bind
  <2>1. stage' = "probe" /\ step' = 1 /\ held' = {} /\ driver' \in Drivers
    BY <1>1 DEF Bind, Enter
  <2>2. Taken(driver', 1) = {} /\ 1 \in 1 .. Len(Probe[driver'])
    BY <2>1, OneMore DEF TableRight, Taken
  <2>. QED BY <2>1, <2>2 DEF BindInv, Where
<1>2. CASE ProbeStep
  <2>1. /\ step \in 1 .. Len(Probe[driver]) /\ held = Taken(driver, step)
        /\ held' = Taken(driver, step + 1) /\ driver' = driver
        /\ Len(Probe[driver]) \in Nat
        /\ IF step = Len(Probe[driver]) THEN stage' = "bound" /\ step' = 1
           ELSE step' = step + 1 /\ stage' = "probe"
    <3>1. step \in 1 .. Len(Probe[driver]) /\ held = Taken(driver, step)
      BY <1>2 DEF BindInv, Where, ProbeStep
    <3>2. Taken(driver, step + 1) = Taken(driver, step) \cup {Names(driver)[step]}
      <4>1. step \in Nat \ {0}
        BY <1>0, <3>1 DEF TableRight
      <4>. QED BY <4>1, OneMore DEF Taken
    <3>3. Names(driver)[step] = Probe[driver][step][1]
      BY <3>1 DEF Names
    <3>. QED BY <1>0, <1>2, <3>1, <3>2, <3>3 DEF ProbeStep, Advance, Enter, TableRight
  <2>2. \A x \in held' : Needs(driver, x) \subseteq held'
    <3>1. Needs(driver, Names(driver)[step]) \subseteq Taken(driver, step)
      BY <1>0, <2>1 DEF TableRight, TakenInOrder
    <3>2. Taken(driver, step + 1) = Taken(driver, step) \cup {Names(driver)[step]}
      BY <2>1, OneMore DEF Taken
    <3>. QED BY <2>1, <3>1, <3>2 DEF BindInv
  <2>3. Where'
    BY <2>1 DEF Where, Items
  <2>. QED BY <1>0, <2>1, <2>2, <2>3 DEF BindInv
<1>3. CASE ProbeFails
  <2>1. /\ step \in 1 .. Len(Probe[driver]) /\ held = Taken(driver, step)
        /\ held' = held /\ driver' = driver
    BY <1>3 DEF BindInv, Where, ProbeFails
  <2>2. CASE Probe[driver][step][2] = "return" /\ stage' = "managed" /\ step' = 1
    <3>1. held \subseteq Stays(driver)
      BY <1>0, <2>1, <2>2 DEF TableRight, FailsRight
    <3>2. First(Managed[driver], 1) = {}
      BY OneMore
    <3>. QED BY <1>0, <2>1, <2>2, <3>1, <3>2 DEF BindInv, Where
  <2>3. CASE /\ stage' = "unwind" /\ step' \in DOMAIN Labels[driver]
             /\ Labels[driver][step'][1] = Probe[driver][step][2]
    <3>1. step' \in 1 .. Len(Labels[driver])
      BY <1>0, <2>3 DEF TableRight
    <3>2. held \subseteq Undoable(driver) \ Undone(driver, step')
      BY <1>0, <2>1, <2>3, <3>1 DEF TableRight, FailsRight
    <3>. QED BY <1>0, <2>1, <2>3, <3>1, <3>2 DEF BindInv, Where
  <2>. QED BY <1>3, <2>2, <2>3 DEF ProbeFails, Enter
<1>4. CASE Unwind
  <2>1. /\ step \in 1 .. Len(Labels[driver]) /\ driver' = driver
        /\ held \subseteq Undoable(driver) \ Undone(driver, step)
        /\ held' = held \ {Labels[driver][step][2]}
        /\ Len(Labels[driver]) \in Nat
        /\ IF step = Len(Labels[driver]) THEN stage' = "managed" /\ step' = 1
           ELSE step' = step + 1 /\ stage' = "unwind"
    BY <1>0, <1>4 DEF BindInv, Where, Unwind, Advance, Enter, TableRight
  <2>2. \A x \in held : Labels[driver][step][2] \notin Needs(driver, x)
    <3>1. Given(driver)[step] = Labels[driver][step][2]
      BY <2>1 DEF Given
    <3>. QED BY <1>0, <2>1, <3>1 DEF TableRight, UndoneInOrder
  <2>3. \A x \in held' : Needs(driver', x) \subseteq held'
    BY <2>1, <2>2, GiveBackSafe DEF BindInv
  <2>4. held' \subseteq Undoable(driver) \ Undone(driver, step + 1)
    <3>1. Given(driver)[step] = Labels[driver][step][2]
      BY <2>1 DEF Given
    <3>. QED BY <2>1, <3>1, OneMore DEF Undone
  <2>5. step = Len(Labels[driver]) => held' \subseteq Stays(driver) \ First(Managed[driver], 1)
    BY <2>1, <2>4, OneMore DEF Undoable
  <2>. QED BY <1>0, <2>1, <2>3, <2>4, <2>5 DEF BindInv, Where
<1>5. CASE Unbind
  <2>1. First(Remove[driver], 1) = {} /\ 1 \in 1 .. Len(Remove[driver])
    BY <1>0, OneMore DEF TableRight
  <2>2. /\ held' = Items(driver) /\ held' = held
        /\ driver' = driver /\ stage' = "remove" /\ step' = 1
    BY <1>5 DEF BindInv, Where, Unbind, Enter
  <2>. QED BY <1>0, <2>1, <2>2 DEF BindInv, Where, TableRight
<1>6. CASE RemoveStep
  <2>1. /\ step \in 1 .. Len(Remove[driver]) /\ driver' = driver
        /\ held \subseteq Removable(driver) \ First(Remove[driver], step)
        /\ held' = held \ {Remove[driver][step]}
        /\ Len(Remove[driver]) \in Nat
        /\ IF step = Len(Remove[driver]) THEN stage' = "managed" /\ step' = 1
           ELSE step' = step + 1 /\ stage' = "remove"
    BY <1>0, <1>6 DEF BindInv, Where, RemoveStep, Advance, Enter, TableRight
  <2>2. \A x \in held : Remove[driver][step] \notin Needs(driver, x)
    BY <1>0, <2>1 DEF TableRight, RemovedInOrder
  <2>3. \A x \in held' : Needs(driver', x) \subseteq held'
    BY <2>1, <2>2, GiveBackSafe DEF BindInv
  <2>4. held' \subseteq Removable(driver) \ First(Remove[driver], step + 1)
    BY <2>1, OneMore
  <2>5. step = Len(Remove[driver]) => held' \subseteq Stays(driver) \ First(Managed[driver], 1)
    BY <2>1, <2>4, OneMore DEF Removable, All
  <2>. QED BY <1>0, <2>1, <2>3, <2>4, <2>5 DEF BindInv, Where
<1>7. CASE ManagedStep
  <2>1. CASE Managed[driver] = <<>>
    <3>1. Len(Managed[driver]) = 0
      BY <1>0, <2>1 DEF TableRight
    <3>2. Stays(driver) = Passive
      BY <3>1 DEF Stays, All, First
    <3>3. /\ held \subseteq Passive /\ held' = held
          /\ driver' = driver /\ stage' = "unbound" /\ step' = 1
      BY <1>7, <2>1, <3>2 DEF BindInv, Where, ManagedStep, Enter
    <3>. QED BY <1>0, <3>3 DEF BindInv, Where
  <2>2. CASE Managed[driver] # <<>>
    <3>0. Len(Managed[driver]) \in Nat \ {0}
      BY <1>0, <2>2 DEF TableRight
    <3>1. /\ step \in 1 .. Len(Managed[driver]) /\ driver' = driver
          /\ held \subseteq Stays(driver) \ First(Managed[driver], step)
          /\ held' = held \ {Managed[driver][step]}
          /\ IF step = Len(Managed[driver]) THEN stage' = "unbound" /\ step' = 1
             ELSE step' = step + 1 /\ stage' = "managed"
      BY <3>0, <1>7, <2>2 DEF BindInv, Where, ManagedStep, Advance, Enter
    <3>2. \A x \in held : Managed[driver][step] \notin Needs(driver, x)
      BY <1>0, <3>1 DEF TableRight, ManagedInOrder
    <3>3. \A x \in held' : Needs(driver', x) \subseteq held'
      BY <3>1, <3>2, GiveBackSafe DEF BindInv
    <3>4. held' \subseteq Stays(driver) \ First(Managed[driver], step + 1)
      BY <3>1, OneMore
    <3>5. step = Len(Managed[driver]) => held' \subseteq Passive
      BY <3>1, <3>4 DEF Stays, All
    <3>. QED BY <1>0, <3>0, <3>1, <3>3, <3>4, <3>5 DEF BindInv, Where
  <2>. QED BY <2>1, <2>2
<1>8. CASE UNCHANGED bindVars
  BY <1>8 DEF bindVars, BindInv, Where
<1>. QED BY <1>1, <1>2, <1>3, <1>4, <1>5, <1>6, <1>7, <1>8 DEF BindNext

\* The first entries of a list, for the lengths there are.
LEMMA FirstFew ==
  ASSUME NEW list
  PROVE  /\ First(list, 1) = {}
         /\ First(list, 2) = {list[1]}
         /\ First(list, 3) = {list[1], list[2]}
         /\ First(list, 4) = {list[1], list[2], list[3]}
         /\ First(list, 5) = {list[1], list[2], list[3], list[4]}
         /\ First(list, 6) = {list[1], list[2], list[3], list[4], list[5]}
         /\ First(list, 7) = {list[1], list[2], list[3], list[4], list[5], list[6]}
         /\ First(list, 8) = {list[1], list[2], list[3], list[4], list[5], list[6], list[7]}
         /\ First(list, 9) = {list[1], list[2], list[3], list[4], list[5], list[6], list[7],
              list[8]}
         /\ First(list, 10) = {list[1], list[2], list[3], list[4], list[5], list[6], list[7],
              list[8], list[9]}
         /\ First(list, 11) = {list[1], list[2], list[3], list[4], list[5], list[6], list[7],
              list[8], list[9], list[10]}
         /\ First(list, 12) = {list[1], list[2], list[3], list[4], list[5], list[6], list[7],
              list[8], list[9], list[10], list[11]}
         /\ First(list, 13) = {list[1], list[2], list[3], list[4], list[5], list[6], list[7],
              list[8], list[9], list[10], list[11], list[12]}
<1>1. /\ 1 .. 1 - 1 = {} /\ 1 .. 2 - 1 = {1} /\ 1 .. 3 - 1 = {1, 2} /\ 1 .. 4 - 1 = {1, 2, 3}
      /\ 1 .. 5 - 1 = {1, 2, 3, 4} /\ 1 .. 6 - 1 = {1, 2, 3, 4, 5}
      /\ 1 .. 7 - 1 = {1, 2, 3, 4, 5, 6} /\ 1 .. 8 - 1 = {1, 2, 3, 4, 5, 6, 7}
      /\ 1 .. 9 - 1 = {1, 2, 3, 4, 5, 6, 7, 8} /\ 1 .. 10 - 1 = {1, 2, 3, 4, 5, 6, 7, 8, 9}
      /\ 1 .. 11 - 1 = {1, 2, 3, 4, 5, 6, 7, 8, 9, 10}
      /\ 1 .. 12 - 1 = {1, 2, 3, 4, 5, 6, 7, 8, 9, 10, 11}
      /\ 1 .. 13 - 1 = {1, 2, 3, 4, 5, 6, 7, 8, 9, 10, 11, 12}
  OBVIOUS
<1>. QED BY <1>1 DEF First

\* An index is one of these.
LEMMA UpTo12 ==
  \A n \in 1 .. 12 : \/ n = 1 \/ n = 2 \/ n = 3 \/ n = 4 \/ n = 5 \/ n = 6
                     \/ n = 7 \/ n = 8 \/ n = 9 \/ n = 10 \/ n = 11 \/ n = 12
OBVIOUS

\* The table of the platform driver is right.
LEMMA PlatformRight == TableRight("platform")
\* The lists.
<1>a. /\ Probe["platform"] = PlatformProbe /\ Labels["platform"] = PlatformLabels
      /\ Remove["platform"] = PlatformRemove
  BY DEF Probe, Labels, Remove
<1>b. /\ Managed["platform"] = <<"mapping">> /\ Len(Managed["platform"]) = 1
  BY DEF Managed
<1>c. Len(PlatformProbe) = 9
  BY DEF PlatformProbe
<1>d. Len(PlatformLabels) = 4 /\ DOMAIN PlatformLabels = 1 .. 4
  BY DEF PlatformLabels
<1>e. Len(PlatformRemove) = 5
  BY DEF PlatformRemove
<1>n. \A k \in 1 .. 9 : Names("platform")[k] = PlatformProbe[k][1]
  BY <1>a, <1>c DEF Names
<1>u. \A k \in 1 .. 4 : Given("platform")[k] = PlatformLabels[k][2]
  BY <1>a, <1>d DEF Given
\* What uses what, and what there is.
<1>x. /\ Needs("platform", "irq") = {"memory", "mapping", "locks"}
      /\ Needs("platform", "file") = {"memory", "mapping", "locks", "irq"}
      /\ Needs("platform", "mapping") = {}
      /\ \A x : x \notin {"irq", "file", "mapping"} => Needs("platform", x) = {}
  BY DEF Needs
<1>1. Stays("platform") = {"mapping", "mmio_resource", "irq_resource", "irq_number", "locks"}
  BY <1>b, FirstFew DEF Stays, All, Passive
<1>2. Undoable("platform") = {"id", "irq", "drvdata", "memory", "mapping", "mmio_resource",
          "irq_resource", "irq_number", "locks"}
  BY <1>1, <1>a, <1>d, <1>u, FirstFew DEF Undoable, Undone, PlatformLabels
<1>3. Removable("platform") = {"file", "id", "irq", "drvdata", "memory", "mapping",
          "mmio_resource", "irq_resource", "irq_number", "locks"}
  BY <1>1, <1>a, <1>e, FirstFew DEF Removable, All, PlatformRemove
<1>4. Items("platform") \subseteq Removable("platform")
  BY <1>3, <1>a, <1>c, <1>n, FirstFew DEF Items, Taken, PlatformProbe
\* The order is right.
<1>5. TakenInOrder("platform")
  BY UpTo12, <1>a, <1>c, <1>n, <1>x, FirstFew DEF TakenInOrder, Taken, PlatformProbe
<1>6. FailsRight("platform")
  BY UpTo12, <1>a, <1>c, <1>d, <1>n, <1>u, FirstFew, <1>1, <1>2
     DEF FailsRight, Taken, Undone, PlatformProbe, PlatformLabels
<1>7. UndoneInOrder("platform")
  BY UpTo12, <1>a, <1>d, <1>u, <1>x, FirstFew, <1>2 DEF UndoneInOrder, Undone, PlatformLabels
<1>8. RemovedInOrder("platform")
  BY UpTo12, <1>a, <1>e, <1>x, FirstFew, <1>3 DEF RemovedInOrder, PlatformRemove
<1>9. ManagedInOrder("platform")
  BY UpTo12, <1>b, <1>x, FirstFew, <1>1 DEF ManagedInOrder
<1>10. Managed["platform"] = <<>> <=> Len(Managed["platform"]) = 0
  BY DEF Managed
<1>. QED BY <1>a, <1>b, <1>c, <1>d, <1>e, <1>4, <1>5, <1>6, <1>7, <1>8, <1>9, <1>10
   DEF TableRight

\* The table of the pci driver is right.
LEMMA PciRight == TableRight("pci")
\* The lists.
<1>a. /\ Probe["pci"] = PciProbe /\ Labels["pci"] = PciLabels /\ Remove["pci"] = PciRemove
  BY DEF Probe, Labels, Remove
<1>b. /\ Managed["pci"] = <<>> /\ Len(Managed["pci"]) = 0
  BY DEF Managed
<1>c. Len(PciProbe) = 12
  BY DEF PciProbe
<1>d. Len(PciLabels) = 9 /\ DOMAIN PciLabels = 1 .. 9
  BY DEF PciLabels
<1>e. Len(PciRemove) = 10
  BY DEF PciRemove
<1>n. \A k \in 1 .. 12 : Names("pci")[k] = PciProbe[k][1]
  BY <1>a, <1>c DEF Names
<1>u. \A k \in 1 .. 9 : Given("pci")[k] = PciLabels[k][2]
  BY <1>a, <1>d DEF Given
\* What uses what, and what there is.
<1>x. /\ Needs("pci", "irq") = {"memory", "mapping", "locks", "vectors", "device"}
      /\ Needs("pci", "file") = {"memory", "mapping", "locks", "irq"}
      /\ Needs("pci", "mapping") = {"regions", "device"}
      /\ \A x : x \notin {"irq", "file", "mapping"} => Needs("pci", x) = {}
  BY DEF Needs
<1>1. Stays("pci") = {"mmio_resource", "irq_resource", "irq_number", "locks"}
  BY <1>b, FirstFew DEF Stays, All, Passive
<1>2. Undoable("pci") = {"id", "irq", "vectors", "mapping", "master", "regions", "device",
          "drvdata", "memory", "mmio_resource", "irq_resource", "irq_number", "locks"}
  BY <1>1, <1>a, <1>d, <1>u, FirstFew DEF Undoable, Undone, PciLabels
<1>3. Removable("pci") = {"file", "id", "irq", "vectors", "mapping", "master", "regions",
          "device", "drvdata", "memory", "mmio_resource", "irq_resource", "irq_number",
          "locks"}
  BY <1>1, <1>a, <1>e, FirstFew DEF Removable, All, PciRemove
<1>4. Items("pci") \subseteq Removable("pci")
  BY <1>3, <1>a, <1>c, <1>n, FirstFew DEF Items, Taken, PciProbe
\* The order is right.
<1>5. TakenInOrder("pci")
  BY UpTo12, <1>a, <1>c, <1>n, <1>x, FirstFew DEF TakenInOrder, Taken, PciProbe
<1>6. FailsRight("pci")
  <2>1. \A n \in 1 .. 12 : PciProbe[n][2] = PciLabels[1][1] =>
         Taken("pci", n) \subseteq Undoable("pci") \ Undone("pci", 1)
    BY UpTo12, <1>n, <1>u, <1>2, FirstFew DEF Taken, Undone, PciProbe, PciLabels
  <2>2. \A n \in 1 .. 12 : PciProbe[n][2] = PciLabels[2][1] =>
         Taken("pci", n) \subseteq Undoable("pci") \ Undone("pci", 2)
    BY UpTo12, <1>n, <1>u, <1>2, FirstFew DEF Taken, Undone, PciProbe, PciLabels
  <2>3. \A n \in 1 .. 12 : PciProbe[n][2] = PciLabels[3][1] =>
         Taken("pci", n) \subseteq Undoable("pci") \ Undone("pci", 3)
    BY UpTo12, <1>n, <1>u, <1>2, FirstFew DEF Taken, Undone, PciProbe, PciLabels
  <2>4. \A n \in 1 .. 12 : PciProbe[n][2] = PciLabels[4][1] =>
         Taken("pci", n) \subseteq Undoable("pci") \ Undone("pci", 4)
    BY UpTo12, <1>n, <1>u, <1>2, FirstFew DEF Taken, Undone, PciProbe, PciLabels
  <2>5. \A n \in 1 .. 12 : PciProbe[n][2] = PciLabels[5][1] =>
         Taken("pci", n) \subseteq Undoable("pci") \ Undone("pci", 5)
    BY UpTo12, <1>n, <1>u, <1>2, FirstFew DEF Taken, Undone, PciProbe, PciLabels
  <2>6. \A n \in 1 .. 12 : PciProbe[n][2] = PciLabels[6][1] =>
         Taken("pci", n) \subseteq Undoable("pci") \ Undone("pci", 6)
    BY UpTo12, <1>n, <1>u, <1>2, FirstFew DEF Taken, Undone, PciProbe, PciLabels
  <2>7. \A n \in 1 .. 12 : PciProbe[n][2] = PciLabels[7][1] =>
         Taken("pci", n) \subseteq Undoable("pci") \ Undone("pci", 7)
    BY UpTo12, <1>n, <1>u, <1>2, FirstFew DEF Taken, Undone, PciProbe, PciLabels
  <2>8. \A n \in 1 .. 12 : PciProbe[n][2] = PciLabels[8][1] =>
         Taken("pci", n) \subseteq Undoable("pci") \ Undone("pci", 8)
    BY UpTo12, <1>n, <1>u, <1>2, FirstFew DEF Taken, Undone, PciProbe, PciLabels
  <2>9. \A n \in 1 .. 12 : PciProbe[n][2] = PciLabels[9][1] =>
         Taken("pci", n) \subseteq Undoable("pci") \ Undone("pci", 9)
    BY UpTo12, <1>n, <1>u, <1>2, FirstFew DEF Taken, Undone, PciProbe, PciLabels
  <2>r. \A n \in 1 .. 12 : PciProbe[n][2] = "return" => n = 1
    BY UpTo12 DEF PciProbe
  <2>. QED BY <1>a, <1>c, <1>d, UpTo12, FirstFew, <2>r,
            <2>1, <2>2, <2>3, <2>4, <2>5, <2>6, <2>7, <2>8, <2>9
       DEF FailsRight, Taken
<1>7. UndoneInOrder("pci")
  BY UpTo12, <1>a, <1>d, <1>u, <1>x, FirstFew, <1>2 DEF UndoneInOrder, Undone, PciLabels
<1>8. RemovedInOrder("pci")
  BY UpTo12, <1>a, <1>e, <1>x, FirstFew, <1>3 DEF RemovedInOrder, PciRemove
<1>9. ManagedInOrder("pci")
  BY <1>b DEF ManagedInOrder
<1>10. Managed["pci"] = <<>> <=> Len(Managed["pci"]) = 0
  BY DEF Managed
<1>. QED BY <1>a, <1>b, <1>c, <1>d, <1>e, <1>4, <1>5, <1>6, <1>7, <1>8, <1>9, <1>10
   DEF TableRight

\* The table of the xor driver is right.
LEMMA XorRight == TableRight("xor")
\* The lists.
<1>a. /\ Probe["xor"] = XorProbe /\ Labels["xor"] = XorLabels /\ Remove["xor"] = XorRemoves
  BY DEF Probe, Labels, Remove
<1>b. /\ Managed["xor"] = <<>> /\ Len(Managed["xor"]) = 0
  BY DEF Managed
<1>c. Len(XorProbe) = 12
  BY DEF XorProbe
<1>d. Len(XorLabels) = 8 /\ DOMAIN XorLabels = 1 .. 8
  BY DEF XorLabels
<1>e. Len(XorRemoves) = 10
  BY DEF XorRemoves
<1>n. \A k \in 1 .. 12 : Names("xor")[k] = XorProbe[k][1]
  BY <1>a, <1>c DEF Names
<1>u. \A k \in 1 .. 8 : Given("xor")[k] = XorLabels[k][2]
  BY <1>a, <1>d DEF Given
\* What uses what, and what there is.
<1>x. /\ Needs("xor", "irq") = {"memory", "mapping", "locks", "vectors", "device"}
      /\ Needs("xor", "file") = {"memory", "mapping", "locks", "irq"}
      /\ Needs("xor", "mapping") = {"regions", "device"}
      /\ \A x : x \notin {"irq", "file", "mapping"} => Needs("xor", x) = {}
  BY DEF Needs
<1>1. Stays("xor") = {"mmio_resource", "irq_resource", "irq_number", "locks"}
  BY <1>b, FirstFew DEF Stays, All, Passive
<1>2. Undoable("xor") = {"irq", "vectors", "mapping", "master", "regions", "device",
          "drvdata", "memory", "mmio_resource", "irq_resource", "irq_number", "locks"}
  BY <1>1, <1>a, <1>d, <1>u, FirstFew DEF Undoable, Undone, XorLabels
<1>3. Removable("xor") = {"global_dev", "file", "irq", "vectors", "mapping", "master",
          "regions", "device", "drvdata", "memory", "mmio_resource", "irq_resource",
          "irq_number", "locks"}
  BY <1>1, <1>a, <1>e, FirstFew DEF Removable, All, XorRemoves
<1>4. Items("xor") \subseteq Removable("xor")
  BY <1>3, <1>a, <1>c, <1>n, FirstFew DEF Items, Taken, XorProbe
\* The order is right.
<1>5. TakenInOrder("xor")
  BY UpTo12, <1>a, <1>c, <1>n, <1>x, FirstFew DEF TakenInOrder, Taken, XorProbe
<1>6. FailsRight("xor")
  <2>1. \A n \in 1 .. 12 : XorProbe[n][2] = XorLabels[1][1] =>
         Taken("xor", n) \subseteq Undoable("xor") \ Undone("xor", 1)
    BY UpTo12, <1>n, <1>u, <1>2, FirstFew DEF Taken, Undone, XorProbe, XorLabels
  <2>2. \A n \in 1 .. 12 : XorProbe[n][2] = XorLabels[2][1] =>
         Taken("xor", n) \subseteq Undoable("xor") \ Undone("xor", 2)
    BY UpTo12, <1>n, <1>u, <1>2, FirstFew DEF Taken, Undone, XorProbe, XorLabels
  <2>3. \A n \in 1 .. 12 : XorProbe[n][2] = XorLabels[3][1] =>
         Taken("xor", n) \subseteq Undoable("xor") \ Undone("xor", 3)
    BY UpTo12, <1>n, <1>u, <1>2, FirstFew DEF Taken, Undone, XorProbe, XorLabels
  <2>4. \A n \in 1 .. 12 : XorProbe[n][2] = XorLabels[4][1] =>
         Taken("xor", n) \subseteq Undoable("xor") \ Undone("xor", 4)
    BY UpTo12, <1>n, <1>u, <1>2, FirstFew DEF Taken, Undone, XorProbe, XorLabels
  <2>5. \A n \in 1 .. 12 : XorProbe[n][2] = XorLabels[5][1] =>
         Taken("xor", n) \subseteq Undoable("xor") \ Undone("xor", 5)
    BY UpTo12, <1>n, <1>u, <1>2, FirstFew DEF Taken, Undone, XorProbe, XorLabels
  <2>6. \A n \in 1 .. 12 : XorProbe[n][2] = XorLabels[6][1] =>
         Taken("xor", n) \subseteq Undoable("xor") \ Undone("xor", 6)
    BY UpTo12, <1>n, <1>u, <1>2, FirstFew DEF Taken, Undone, XorProbe, XorLabels
  <2>7. \A n \in 1 .. 12 : XorProbe[n][2] = XorLabels[7][1] =>
         Taken("xor", n) \subseteq Undoable("xor") \ Undone("xor", 7)
    BY UpTo12, <1>n, <1>u, <1>2, FirstFew DEF Taken, Undone, XorProbe, XorLabels
  <2>8. \A n \in 1 .. 12 : XorProbe[n][2] = XorLabels[8][1] =>
         Taken("xor", n) \subseteq Undoable("xor") \ Undone("xor", 8)
    BY UpTo12, <1>n, <1>u, <1>2, FirstFew DEF Taken, Undone, XorProbe, XorLabels
  <2>r. \A n \in 1 .. 12 : XorProbe[n][2] = "return" => n = 1
    BY UpTo12 DEF XorProbe
  <2>. QED BY <1>a, <1>c, <1>d, UpTo12, FirstFew, <2>r,
            <2>1, <2>2, <2>3, <2>4, <2>5, <2>6, <2>7, <2>8
       DEF FailsRight, Taken
<1>7. UndoneInOrder("xor")
  BY UpTo12, <1>a, <1>d, <1>u, <1>x, FirstFew, <1>2 DEF UndoneInOrder, Undone, XorLabels
<1>8. RemovedInOrder("xor")
  BY UpTo12, <1>a, <1>e, <1>x, FirstFew, <1>3 DEF RemovedInOrder, XorRemoves
<1>9. ManagedInOrder("xor")
  BY <1>b DEF ManagedInOrder
<1>10. Managed["xor"] = <<>> <=> Len(Managed["xor"]) = 0
  BY DEF Managed
<1>. QED BY <1>a, <1>b, <1>c, <1>d, <1>e, <1>4, <1>5, <1>6, <1>7, <1>8, <1>9, <1>10
   DEF TableRight

\* The table of the edu driver is right.
LEMMA EduRight == TableRight("edu")
\* The lists.
<1>a. /\ Probe["edu"] = EduProbe /\ Labels["edu"] = EduLabels /\ Remove["edu"] = EduRemove
  BY DEF Probe, Labels, Remove
<1>b. /\ Managed["edu"] = <<"irq", "mapping", "device", "memory", "drvdata">>
      /\ Len(Managed["edu"]) = 5
  BY DEF Managed
<1>c. Len(EduProbe) = 10
  BY DEF EduProbe
<1>d. Len(EduLabels) = 3 /\ DOMAIN EduLabels = 1 .. 3
  BY DEF EduLabels
<1>e. Len(EduRemove) = 4
  BY DEF EduRemove
<1>n. \A k \in 1 .. 10 : Names("edu")[k] = EduProbe[k][1]
  BY <1>a, <1>c DEF Names
<1>u. \A k \in 1 .. 3 : Given("edu")[k] = EduLabels[k][2]
  BY <1>a, <1>d DEF Given
\* What uses what, and what there is.
<1>x. /\ Needs("edu", "irq") = {"memory", "mapping", "locks"}
      /\ Needs("edu", "file") = {"memory", "mapping", "locks", "irq"}
      /\ Needs("edu", "mapping") = {}
      /\ \A x : x \notin {"irq", "file", "mapping"} => Needs("edu", x) = {}
  BY DEF Needs
<1>1. Stays("edu") = {"irq", "mapping", "device", "memory", "drvdata", "mmio_resource",
          "irq_resource", "irq_number", "locks"}
  BY <1>b, FirstFew DEF Stays, All, Passive
<1>2. Undoable("edu") = {"class", "cdev", "number", "irq", "mapping", "device", "memory",
          "drvdata", "mmio_resource", "irq_resource", "irq_number", "locks"}
  BY <1>1, <1>a, <1>d, <1>u, FirstFew DEF Undoable, Undone, EduLabels
<1>3. Removable("edu") = {"file", "class", "cdev", "number", "irq", "mapping", "device",
          "memory", "drvdata", "mmio_resource", "irq_resource", "irq_number", "locks"}
  BY <1>1, <1>a, <1>e, FirstFew DEF Removable, All, EduRemove
<1>4. Items("edu") \subseteq Removable("edu")
  BY <1>3, <1>a, <1>c, <1>n, FirstFew DEF Items, Taken, EduProbe
\* The order is right.
<1>5. TakenInOrder("edu")
  BY UpTo12, <1>a, <1>c, <1>n, <1>x, FirstFew DEF TakenInOrder, Taken, EduProbe
<1>6. FailsRight("edu")
  BY UpTo12, <1>a, <1>c, <1>d, <1>n, <1>u, FirstFew, <1>1, <1>2
     DEF FailsRight, Taken, Undone, EduProbe, EduLabels
<1>7. UndoneInOrder("edu")
  BY UpTo12, <1>a, <1>d, <1>u, <1>x, FirstFew, <1>2 DEF UndoneInOrder, Undone, EduLabels
<1>8. RemovedInOrder("edu")
  BY UpTo12, <1>a, <1>e, <1>x, FirstFew, <1>3 DEF RemovedInOrder, EduRemove
<1>9. ManagedInOrder("edu")
  BY UpTo12, <1>b, <1>x, FirstFew, <1>1 DEF ManagedInOrder
<1>10. Managed["edu"] = <<>> <=> Len(Managed["edu"]) = 0
  BY DEF Managed
<1>. QED BY <1>a, <1>b, <1>c, <1>d, <1>e, <1>4, <1>5, <1>6, <1>7, <1>8, <1>9, <1>10
   DEF TableRight

\* The four tables are right.
LEMMA TablesRight == \A d \in Drivers : TableRight(d)
<1>1. Drivers = {"platform", "pci", "xor", "edu"}
  BY DEF Drivers, Probe
<1>. QED  BY <1>1, PlatformRight, PciRight, XorRight, EduRight

\* The invariant at the beginning, and what it says of the property.
LEMMA BindBegins == BindInit => BindInv
BY DEF BindInit, BindInv, Where
LEMMA HeldSafe == BindInv => HeldAsLongAsUsed
<1>1. BindInv => NothingHeldUnbound
  BY DEF BindInv, Where, NothingHeldUnbound
<1>2. BindInv => UsersHaveWhatTheyUse
  BY UsesByItem DEF BindInv
<1>. QED  BY <1>1, <1>2 DEF HeldAsLongAsUsed

-----------------------------------------------------------------------------
(* The drivers in one specification.                                         *)

\* Each driver and the module keep their own invariant, the others are as they
\* began; the two with common variables take turns by `card'.
DriversInv ==
  /\ card = "xor" => XorInv
  /\ card # "xor" => DriverInv /\ EventInv
  /\ EduInv /\ ModInv /\ BindInv

\* Every step keeps it.
LEMMA DriversStep == DriversInv /\ [MCNext]_cardVars => DriversInv'
<1>. SUFFICES ASSUME DriversInv, [MCNext]_cardVars PROVE DriversInv'
  OBVIOUS
<1>1. EduInv' /\ ModInv' /\ BindInv'
  <2>1. [EduNext]_eduVars /\ [ModNext]_modVars /\ [BindNext]_bindVars
    BY DEF MCNext, Hwgc, Xor, Edu, Binding, Module, cardVars
  <2>. QED  BY <2>1, EduStep, ModStep, BindingKept, TablesRight DEF DriversInv
<1>2. CASE card = "xor"
  <2>1. [XorNext]_<<vars, xorVars>> /\ card' = "xor"
    BY <1>2 DEF MCNext, Hwgc, Xor, Edu, Binding, Module, cardVars
  <2>. QED  BY <1>1, <1>2, <2>1, XorStep DEF DriversInv
<1>3. CASE card # "xor"
  <2>1. [PciNext]_vars /\ card' = card
    BY <1>3 DEF MCNext, Hwgc, Xor, Edu, Binding, Module, cardVars
  <2>2. [Next]_vars
    BY <2>1, PciSteps
  <2>. QED  BY <1>1, <1>3, <2>1, <2>2, DriverStep, EventStep DEF DriversInv
<1>. QED  BY <1>2, <1>3

\* It holds of every behaviour of the run.
LEMMA DriversInvariance == MCSpec => []DriversInv
<1>1. MCInit => DriversInv
  BY DriverInit, EventInit, XorInitially, EduBegins, ModBegins, BindBegins DEF MCInit, DriversInv
<1>. QED  BY <1>1, DriversStep, PTL DEF MCSpec

\* A thread of the demonstration driver is never in hwgc_wait_event.
LEMMA XorElsewhere ==
  /\ XorInv => \A u \in Users : ~At(u, "W_copy")
  /\ DriverInv => \A u \in Users : ~Running(u)
<1>1. XorInv => \A u \in Users : ~At(u, "W_copy")
  <2>1. XorInv => \A u \in Users : user[u].pc \in XorStates
    BY DEF XorInv, XorTypes, XorUserType
  <2>. QED  BY <2>1 DEF XorStates, At
<1>2. DriverInv => \A u \in Users : ~Running(u)
  <2>1. DriverInv => \A u \in Users : user[u].pc \in UserStates
    BY DEF DriverInv, Types, UserType
  <2>. QED  BY <2>1 DEF UserStates, Running
<1>. QED  BY <1>1, <1>2

\* Whichever driver it is: while the device works the pages it was given are
\* pinned and the address space is held.
THEOREM DriversPinned == MCSpec => []DeviceMemoryPinned
<1>1. DriversInv => DeviceMemoryPinned
  BY MemoryKept, XorSafe DEF DriversInv
<1>. QED  BY <1>1, DriversInvariance, PTL

\* No reply is written, and no miss answered, but the one the device waits for.
THEOREM DriversAnswer == MCSpec => []HwgcAnswersAwaited
<1>1. DriversInv => HwgcAnswersAwaited
  BY AnswersKept DEF DriversInv, HwgcAnswersAwaited
<1>. QED  BY <1>1, DriversInvariance, PTL

\* After its remove function a driver leaves the device still and nothing held.
THEOREM DriversLeaveNothing == MCSpec => []NothingLeft
<1>1. DriversInv => NothingLeft
  BY NothingLeftSafe, XorSafe DEF DriversInv, NothingLeft
<1>. QED  BY <1>1, DriversInvariance, PTL

\* A caller gets the outcome of its own operation, and the result of its own
\* number if no other call overlaps.
THEOREM DriversOwnResult == MCSpec => []OwnResult
<1>1. DriverInv => OwnCompletion
  BY XorElsewhere DEF OwnCompletion, Running, At
<1>2. EduInv => OwnFactorial
  BY DEF EduInv, OwnFactorial, Alone, Calling
<1>3. DriversInv => OwnResult
  BY <1>1, <1>2, XorSafe DEF DriversInv, OwnResult
<1>. QED  BY <1>3, DriversInvariance, PTL

\* Events are given in the order in which they were published.
THEOREM DriversDeliver == MCSpec => DeliveredInOrder
<1>1. DriversInv => \A u \in Users : CopyToUser(u) => \A s \in delivered : s < user[u].ev.seq
  BY XorElsewhere DEF DriversInv, EventInv, InOrder, CopyToUser
<1>. QED  BY <1>1, DriversInvariance, PTL DEF DeliveredInOrder

\* A module that is out, or failed to load, leaves no device behind, and no
\* interrupt but that of the device that failed; see ModuleUndone.
THEOREM ModuleUndoes == MCSpec => []ModuleUndone
<1>1. DriversInv => ModuleUndone
  BY DEF DriversInv, ModInv, ModuleUndone
<1>. QED  BY <1>1, DriversInvariance, PTL

\* A driver holds what its handlers and its file use while they can be entered,
\* and nothing once it is unbound: after remove and after a probe that failed at
\* whatever step.
THEOREM DriversHold == MCSpec => []HeldAsLongAsUsed
<1>1. DriversInv => HeldAsLongAsUsed
  BY HeldSafe DEF DriversInv
<1>. QED  BY <1>1, DriversInvariance, PTL
=============================================================================
