----------------------------- MODULE MCDrivers -----------------------------
(***************************************************************************)
(* One run for the four drivers, their binding and the module, which share *)
(* nothing at run time: `card' says which of them a behaviour is about,    *)
(* the variables of the others stay at their initial values.  "hwgc" takes *)
(* its steps under the names of the PCI variant, which stand for the steps *)
(* of the platform variant.                                                *)
(***************************************************************************)
EXTENDS HWGCDriverPci, XorTlbDriver, EduDriver, DriverBinding, HWGCModule

VARIABLE card

cardVars == <<vars, xorVars, eduVars, bindVars, modVars, card>>

MCInit ==
  /\ card \in {"hwgc", "xor", "edu", "binding", "module"}
  /\ Init /\ XorInit /\ EduInit /\ ModInit
  /\ BindInit /\ (card # "binding" => driver = "platform")

Hwgc(A) == card = "hwgc" /\ A /\ UNCHANGED <<xorVars, eduVars, bindVars, modVars, card>>
Xor(A) == card = "xor" /\ A /\ UNCHANGED <<eduVars, bindVars, modVars, card>>
Edu(A) == card = "edu" /\ A /\ UNCHANGED <<vars, xorVars, bindVars, modVars, card>>
Binding(A) == card = "binding" /\ A /\ UNCHANGED <<vars, xorVars, eduVars, modVars, card>>
Module(A) == card = "module" /\ A /\ UNCHANGED <<vars, xorVars, eduVars, bindVars, card>>

MCNext == Hwgc(PciNext) \/ Xor(XorNext) \/ Edu(EduNext) \/ Binding(BindNext) \/ Module(ModNext)

\* Threads that entered a driver go on, and their time runs out; a thread keeps
\* waiting for events and replying to them; the kernel runs the handlers; the
\* device works.
\* Nobody has to start an operation or to unbind a driver.
MCFairness ==
  /\ \A u \in Users : WF_cardVars(Hwgc(ThreadSteps(u)) \/ Xor(XorIoctlSteps(u)))
  /\ WF_cardVars(Hwgc(IrqSteps) \/ Xor(XorIrqSteps))
  /\ WF_cardVars(Hwgc(RemoveSteps) \/ Xor(XorRemove))
  /\ WF_cardVars(Hwgc(DeviceSteps))

MCSpec == MCInit /\ [][MCNext]_cardVars /\ MCFairness

-----------------------------------------------------------------------------
(* Properties of what the drivers have in common: HWGCDriver and XorTlbDriver *)
(* use the same variables, `card' tells which of them is meant.              *)

\* No reply is written, and no miss answered, but the one the device waits for.
HwgcAnswersAwaited == card = "hwgc" => AnswersAwaited

\* After hwgc_remove the device is still and nothing is held, even if an
\* operation was being started or finished at that moment; so it is while
\* xor_remove holds the lock and afterwards, but for a call that waited for the
\* lock all the time.
NothingLeft ==
  /\ card = "hwgc" => NothingLeftBehind
  /\ card = "xor" => XorNothingLeft

\* A caller of a demonstration driver gets the outcome of its own operation.  For
\* xor_ioctl whatever came late from the one before: its success means that the
\* device finished this very operation.  For edu_ioctl only if nothing of the
\* one before was still on its way when the call began, and no other call
\* overlaps it; then it copies out the result of its own number.
OwnResult == OwnCompletion /\ OwnFactorial

\* A driver holds what its handlers and its file need while they can be entered,
\* and nothing once it is unbound, after remove and after a probe that failed at
\* whatever step.
HeldAsLongAsUsed == NothingHeldUnbound /\ UsersHaveWhatTheyUse
=============================================================================
