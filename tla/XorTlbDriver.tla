---------------------------- MODULE XorTlbDriver ----------------------------
(***************************************************************************)
(* The driver of the demonstration device (test_device/xor_tlbdev_drv.c):  *)
(* HWGCDriver's ancestor, without events.  One ioctl runs a whole          *)
(* operation with op_lock held and sleeps on a completion until the        *)
(* interrupt thread completes it, a signal comes or the time is up.        *)
(*                                                                         *)
(* Locks, pages, interrupt bits, device and unbinding are the variables    *)
(* and actions of HWGCDriver, which does the same with them; `removing'    *)
(* stands for global_dev = NULL and the events stay unused.  Calls that    *)
(* return before they have changed anything (bad addresses, no address     *)
(* space, EBUSY) are left out.  What happens to a call that is still in    *)
(* the driver when the driver's memory is freed is undefined: nothing of   *)
(* it is followed from there.                                              *)
(***************************************************************************)
EXTENDS HWGCDriver

VARIABLES
  done,       \* the completion
  op_status,  \* what the interrupt thread found: 0, -EIO or the failed miss
  ret         \* thread -> what its ioctl is going to return

xorVars == <<done, op_status, ret>>

Success == "0"
Gave == "ETIMEDOUT or ERESTARTSYS"

XorInit == done = FALSE /\ op_status = Success /\ ret = [u \in Users |-> Success]

\* A thread past the check of global_dev, and one that holds op_lock.
Called(u) == At(u, "X_enter")
Running(u) == user[u].pc \in {"X_clear", "X_reset", "X_start", "X_wait", "X_stop", "X_status",
                              "X_sync", "X_release"}
Memory == remover # "gone"

xor_unpin_all == unpin_all
xor_release_process_context == release_process_context

-----------------------------------------------------------------------------
(* xor_ioctl *)

XorEnter(u) ==
  /\ At(u, "idle") /\ ops < MaxOps /\ ~removing
  /\ Goto(u, "X_enter") /\ ops' = ops + 1
  /\ UNCHANGED <<op_lock, op_active, pageVars, pending_irq, handler, eventVars, removing,
                 remover, dev, requests, faults, delivered, xorVars>>

\* Mutant: the completion is not made new.
XorLockOldDone(u) ==
  /\ Memory /\ At(u, "X_enter") /\ Goto(u, "X_clear")
  /\ op_lock = None /\ ~op_active
  /\ op_lock' = u /\ op_active' = TRUE /\ active' = u /\ pinned' = {}
  /\ op_status' = Success
  /\ UNCHANGED <<refs, pending_irq, handler, eventVars, removing, remover, dev, counters,
                 delivered, ret, done>>

XorLock(u) ==
  /\ Memory /\ At(u, "X_enter") /\ Goto(u, "X_clear")
  /\ op_lock = None /\ ~op_active
  /\ op_lock' = u /\ op_active' = TRUE /\ active' = u /\ pinned' = {}
  /\ op_status' = Success /\ done' = FALSE
  /\ UNCHANGED <<refs, pending_irq, handler, eventVars, removing, remover, dev, counters,
                 delivered, ret>>

XorClear(u) ==
  /\ Memory /\ At(u, "X_clear") /\ Goto(u, "X_reset")
  /\ pending_irq' = {}
  /\ UNCHANGED <<op_lock, op_active, pageVars, handler, eventVars, removing, remover, dev,
                 counters, delivered, xorVars>>

XorReset(u) ==
  /\ Memory /\ At(u, "X_reset") /\ Goto(u, "X_start")
  /\ Reset
  /\ UNCHANGED <<op_lock, op_active, pageVars, pending_irq, handler, eventVars, removing,
                 remover, counters, delivered, xorVars>>

XorStart(u) ==
  /\ Memory /\ At(u, "X_start") /\ Goto(u, "X_wait")
  /\ dev' = Device("running")
  /\ UNCHANGED <<op_lock, op_active, pageVars, pending_irq, handler, eventVars, removing,
                 remover, counters, delivered, xorVars>>

XorWoken(u) ==
  /\ Memory /\ At(u, "X_wait") /\ done
  /\ done' = FALSE /\ Goto(u, "X_status")
  /\ UNCHANGED <<op_lock, op_active, pageVars, pending_irq, handler, eventVars, removing,
                 remover, dev, counters, delivered, op_status, ret>>

XorStatus(u) ==
  /\ Memory /\ At(u, "X_status") /\ Goto(u, "X_sync")
  /\ ret' = [ret EXCEPT ![u] = op_status]
  /\ UNCHANGED <<op_lock, op_active, pageVars, pending_irq, handler, eventVars, removing,
                 remover, dev, counters, delivered, done, op_status>>

\* The time is up, or a signal came.
XorGivesUp(u) ==
  /\ Memory /\ At(u, "X_wait") /\ ~done /\ Goto(u, "X_stop")
  /\ ret' = [ret EXCEPT ![u] = Gave]
  /\ UNCHANGED <<op_lock, op_active, pageVars, pending_irq, handler, eventVars, removing,
                 remover, dev, counters, delivered, done, op_status>>

XorStop(u) ==
  /\ Memory /\ At(u, "X_stop") /\ Goto(u, "X_sync")
  /\ Reset
  /\ UNCHANGED <<op_lock, op_active, pageVars, pending_irq, handler, eventVars, removing,
                 remover, counters, delivered, xorVars>>

XorSync(u) ==
  /\ Memory /\ At(u, "X_sync") /\ handler.pc = "idle" /\ Goto(u, "X_release")
  /\ UNCHANGED <<op_lock, op_active, pageVars, pending_irq, handler, eventVars, removing,
                 remover, dev, counters, delivered, xorVars>>

XorRelease(u) ==
  /\ Memory /\ At(u, "X_release") /\ Goto(u, "idle")
  /\ xor_unpin_all /\ xor_release_process_context
  /\ op_active' = FALSE /\ op_lock' = None
  /\ UNCHANGED <<pending_irq, handler, eventVars, removing, remover, dev, counters, delivered,
                 xorVars>>

-----------------------------------------------------------------------------
(* xor_irq_top and xor_irq_thread *)

XorIrqTop == (IrqTop \/ IrqClear) /\ UNCHANGED xorVars
XorIrqThread == IrqThread /\ UNCHANGED xorVars
XorIrqReturn == IrqReturn /\ UNCHANGED xorVars

\* An error goes before a miss.
XorError ==
  /\ handler.pc = "thread" /\ "ERROR" \in handler.work
  /\ op_status' = "EIO" /\ Goes("reset")
  /\ UNCHANGED <<user, op_lock, op_active, pageVars, pending_irq, eventVars, removing, remover,
                 dev, counters, delivered, done, ret>>

XorFillTlb == "ERROR" \notin handler.work /\ FillTlb /\ UNCHANGED xorVars
XorPinPage == PinPage /\ UNCHANGED xorVars
XorAnswer == AnswerMiss /\ UNCHANGED xorVars

XorMissFails ==
  /\ handler.pc = "abort" /\ Goes("reset")
  /\ op_status' = "miss"
  /\ UNCHANGED <<user, op_lock, op_active, pageVars, pending_irq, eventVars, removing, remover,
                 dev, counters, delivered, done, ret>>

XorIrqReset ==
  /\ handler.pc = "reset" /\ Goes("complete")
  /\ Reset
  /\ UNCHANGED <<user, op_lock, op_active, pageVars, pending_irq, eventVars, removing, remover,
                 counters, delivered, xorVars>>

XorDone ==
  /\ handler.pc = "thread" /\ handler.work = {"DONE"}
  /\ op_status' = Success /\ Goes("complete")
  /\ UNCHANGED <<user, op_lock, op_active, pageVars, pending_irq, eventVars, removing, remover,
                 dev, counters, delivered, done, ret>>

XorComplete ==
  /\ handler.pc = "complete" /\ handler' = Resting
  /\ done' = TRUE
  /\ UNCHANGED <<user, op_lock, op_active, pageVars, pending_irq, eventVars, removing, remover,
                 dev, counters, delivered, op_status, ret>>

-----------------------------------------------------------------------------
(* xor_remove *)

XorRemoveMark ==
  /\ remover = "bound" /\ remover' = "lock"
  /\ removing' = TRUE
  /\ UNCHANGED <<user, op_lock, op_active, pageVars, pending_irq, handler, eventVars, dev,
                 counters, delivered, xorVars>>

XorRemove == RemoveSteps /\ UNCHANGED xorVars

XorDevice ==
  /\ DeviceRequest("TLB_MISS") \/ \E k \in Terminal : DeviceEnds(k)
  /\ UNCHANGED xorVars

-----------------------------------------------------------------------------
XorIoctlSteps(u) ==
  \/ XorLock(u) \/ XorClear(u) \/ XorReset(u) \/ XorStart(u) \/ XorWoken(u) \/ XorStatus(u)
  \/ XorGivesUp(u) \/ XorStop(u) \/ XorSync(u) \/ XorRelease(u)
XorIrqSteps ==
  \/ XorIrqTop \/ XorIrqThread \/ XorIrqReturn \/ XorError \/ XorFillTlb \/ XorPinPage
  \/ XorAnswer \/ XorMissFails \/ XorIrqReset \/ XorDone \/ XorComplete

XorNext ==
  \/ \E u \in Users : XorEnter(u) \/ XorIoctlSteps(u)
  \/ XorIrqSteps \/ XorRemoveMark \/ XorRemove \/ XorDevice

XorSpec == Init /\ XorInit /\ [][XorNext]_<<vars, xorVars>>

-----------------------------------------------------------------------------
(* Properties. *)

\* "Ensure the threaded IRQ handler no longer uses active_task, active_mm or
\* any pinned page before releasing those references": when an operation is
\* about to be released the handler is at rest, the device is still, and the
\* ioctl returns success only if the device finished this very operation: a
\* late interrupt of the one before never completes it.
OwnCompletion == \A u \in Users :
  /\ At(u, "X_release") => handler.pc = "idle" /\ dev.state \in {"idle", "ended"}
  /\ At(u, "X_release") /\ ret[u] = Success => dev.state = "ended" /\ dev.kind = "DONE"
  /\ Running(u) => op_lock = u /\ active = u /\ op_active

\* "Wait for an in-progress ioctl operation. The ioctl holds op_lock for the
\* complete lifetime of the device operation": while xor_remove holds the lock
\* no operation is under way, the device is still and nothing is held, and so
\* it is afterwards, unless a call that had passed the check of global_dev before
\* and waited for the lock starts an operation all the same.
XorNothingLeft ==
  \/ remover \in {"sync", "release"}
  \/ remover \in {"free", "gone"} /\ ~\E u \in Users : Running(u)
  => /\ ~\E u \in Users : Running(u)
     /\ dev.state \in {"idle", "ended"} /\ ~op_active /\ active = None /\ pinned = {}
=============================================================================
