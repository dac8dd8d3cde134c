----------------------------- MODULE EduDriver -----------------------------
(***************************************************************************)
(* The driver of QEMU's edu device (edu_device/edu_driver.c): an ioctl     *)
(* writes a number, sleeps on a completion and copies out the result that  *)
(* the interrupt handler stored.  There is no lock: calls overlap, and one *)
(* that timed out leaves its interrupt to the calls after it.              *)
(*                                                                         *)
(* A result is the number it was computed from.  The device computes one   *)
(* number at a time and ignores what is written while it does.             *)
(***************************************************************************)
EXTENDS Naturals

CONSTANTS
  Callers,   \* threads that have the device open
  MaxCalls   \* bound: ioctls

ASSUME MaxCallsAssumption == MaxCalls \in Nat

VARIABLES
  edu_ioctl,     \* thread -> where it is, its number, and what was beside it:
                 \* "nothing", a "late" interrupt, or an "other" call
  fact_done,     \* the completion: how often it was completed
  fact_result,
  fact,          \* the device: number computed, state, and the register of the result
  edu_irq,       \* the interrupt handler
  calls          \* ioctls so far, each with a number of its own

eduVars == <<edu_ioctl, fact_done, fact_result, fact, edu_irq, calls>>

Nothing == 0

EduInit ==
  /\ edu_ioctl = [c \in Callers |-> [pc |-> "idle", val |-> Nothing, beside |-> "nothing"]]
  /\ fact_done = 0 /\ fact_result = Nothing /\ edu_irq = "idle" /\ calls = 0
  /\ fact = [busy |-> FALSE, reg |-> Nothing, irq |-> FALSE]

Calling(c) == edu_ioctl[c].pc # "idle"
NobodyCalls == \A c \in Callers : ~Calling(c)
\* Nothing of an earlier call is on its way.
Quiet == ~fact.busy /\ ~fact.irq /\ edu_irq = "idle" /\ NobodyCalls
Beside == IF Quiet THEN "nothing" ELSE IF NobodyCalls THEN "late" ELSE "other"

\* reinit_completion
EduCall(c) ==
  /\ ~Calling(c) /\ calls < MaxCalls /\ calls' = calls + 1
  /\ fact_done' = 0
  /\ edu_ioctl' = [d \in Callers |->
       IF d = c THEN [pc |-> "write", val |-> calls + 1, beside |-> Beside]
                ELSE [edu_ioctl[d] EXCEPT !.beside = "other"]]
  /\ UNCHANGED <<fact_result, fact, edu_irq>>

EduWrite(c) ==
  /\ edu_ioctl[c].pc = "write"
  /\ edu_ioctl' = [edu_ioctl EXCEPT ![c].pc = "wait"]
  /\ fact' = IF fact.busy THEN fact ELSE [fact EXCEPT !.busy = TRUE, !.reg = edu_ioctl[c].val]
  /\ UNCHANGED <<fact_done, fact_result, edu_irq, calls>>

EduWoken(c) ==
  /\ edu_ioctl[c].pc = "wait" /\ fact_done > 0 /\ fact_done' = fact_done - 1
  /\ edu_ioctl' = [edu_ioctl EXCEPT ![c].pc = "copy"]
  /\ UNCHANGED <<fact_result, fact, edu_irq, calls>>

EduTimeout(c) ==
  /\ edu_ioctl[c].pc = "wait" /\ fact_done = 0
  /\ edu_ioctl' = [edu_ioctl EXCEPT ![c].pc = "idle"]
  /\ UNCHANGED <<fact_done, fact_result, fact, edu_irq, calls>>

EduCopy(c) ==
  /\ edu_ioctl[c].pc = "copy"
  /\ edu_ioctl' = [edu_ioctl EXCEPT ![c].pc = "idle"]
  /\ UNCHANGED <<fact_done, fact_result, fact, edu_irq, calls>>

\* edu_irq_handler
EduIrq ==
  /\ edu_irq = "idle" /\ fact.irq /\ edu_irq' = "read"
  /\ fact' = [fact EXCEPT !.irq = FALSE]
  /\ UNCHANGED <<edu_ioctl, fact_done, fact_result, calls>>

EduIrqRead ==
  /\ edu_irq = "read" /\ edu_irq' = "complete"
  /\ fact_result' = fact.reg
  /\ UNCHANGED <<edu_ioctl, fact_done, fact, calls>>

EduIrqComplete ==
  /\ edu_irq = "complete" /\ edu_irq' = "idle"
  /\ fact_done' = fact_done + 1
  /\ UNCHANGED <<edu_ioctl, fact_result, fact, calls>>

\* Until it has computed the number the register holds the number itself.
EduDevice ==
  /\ fact.busy
  /\ fact' = [fact EXCEPT !.busy = FALSE, !.irq = TRUE]
  /\ UNCHANGED <<edu_ioctl, fact_done, fact_result, edu_irq, calls>>

EduSteps(c) == EduWrite(c) \/ EduWoken(c) \/ EduTimeout(c) \/ EduCopy(c)
EduHandler == EduIrq \/ EduIrqRead \/ EduIrqComplete
EduNext == (\E c \in Callers : EduCall(c) \/ EduSteps(c)) \/ EduHandler \/ EduDevice

EduSpec == EduInit /\ [][EduNext]_eduVars

-----------------------------------------------------------------------------
\* A call that began when nothing of an earlier one was on its way, and that no
\* other call overlaps, copies out the result of its own number (edu_ioctl
\* copies the shared fact_result, not one of its own).  It takes both: a call
\* whose predecessor timed out may be given the predecessor's result, see
\* SingleFactorial.
OwnFactorial == \A c \in Callers :
  edu_ioctl[c].pc = "copy" /\ edu_ioctl[c].beside = "nothing" => fact_result = edu_ioctl[c].val

\* A call that no other call overlaps copies out the result of its own number,
\* whatever the call before it left.  edu_test.c makes one call with 5 and
\* prints what comes back as 5! (line 25).
SingleFactorial == \A c \in Callers :
  edu_ioctl[c].pc = "copy" /\ edu_ioctl[c].beside # "other" => fact_result = edu_ioctl[c].val
=============================================================================
