--------------------------- MODULE HWGCDriverPci ---------------------------
(***************************************************************************)
(* The PCI variant of the driver (hwgc_driver_pci.c, hwgc_ioctl.h).  Read  *)
(* side by side, its handlers do what those of the platform variant do,    *)
(* function by function, and so they are modelled by the same steps, with  *)
(* one definition for each function of this file; only how the two are     *)
(* bound differs, which is in DriverBinding.  That the two C files agree   *)
(* was found by reading: nothing here proves it.                           *)
(***************************************************************************)
EXTENDS HWGCDriver

\* Called in the middle of the functions below.
pci_clear_event_state_locked == clear_event_state
pci_unpin_all == unpin_all
pci_release_process_context == release_process_context
pci_publish_sw_event(k) == publish_sw_event(k)
pci_event_needs_reply == ReplyKinds
pci_event_is_terminal == Terminal

pci_start_ioctl(u) == StartEnter(u) \/ StartSteps(u)
pci_wait_event_ioctl(u) == WaitSteps(u) \/ WaitInterrupted(u) \/ CopyFails(u)
pci_finish_operation(u) == FinishSteps(u)
pci_reply_event_ioctl(u) == Reply(u) \/ ReplyWrite(u)
pci_ioctl(u) == pci_start_ioctl(u) \/ pci_wait_event_ioctl(u) \/ pci_reply_event_ioctl(u)

pci_irq_top == IrqTop \/ IrqClear
pci_fill_tlb_for_miss == FillTlb \/ AnswerMiss
pci_remember_pinned == PinPage
pci_abort_operation_from_irq == Abort \/ ReportError
pci_irq_thread ==
  IrqThread \/ IrqReturn \/ DeviceError \/ \E k \in Kinds : PublishEvent(k)

pci_remove == RemoveMark \/ RemoveSteps

PciNext ==
  \/ \E u \in Users : pci_ioctl(u) \/ pci_finish_operation(u)
  \/ pci_irq_top \/ pci_irq_thread \/ pci_fill_tlb_for_miss \/ pci_remember_pinned
  \/ pci_abort_operation_from_irq \/ pci_remove \/ DeviceSteps

PciSpec == Init /\ [][PciNext]_vars
=============================================================================
