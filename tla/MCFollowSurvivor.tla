-------------------------- MODULE MCFollowSurvivor --------------------------
(***************************************************************************)
(* One run for the push-follow batches and jobs of GCTaskStack and for     *)
(* GCOopCopy2Survivor, which share nothing here: `unit' says which of them *)
(* a behaviour is about, the variables of the other stay as they are at    *)
(* first.                                                                  *)
(***************************************************************************)
EXTENDS MCTaskStack, MCOopCopy2Survivor

VARIABLE unit

mcVars == <<vars, survVars, unit>>

MCInit == unit \in {"stack", "survivor"} /\ Init /\ SurvInit

StackUnit(act)    == unit = "stack" /\ act /\ UNCHANGED <<survVars, unit>>
SurvivorUnit(act) == unit = "survivor" /\ act /\ UNCHANGED <<vars, unit>>

MCNext == StackUnit(Next) \/ SurvivorUnit(SurvNext)

\* All the survivor and its surroundings do but taking an object.
SurvMachine == \E i \in SurvSlots :
  \/ SlotStep(i) \/ WriteDestMark(i) \/ SendTraceWork(i)
  \/ AllocEnds(i) \/ CopyEnds(i) \/ TraceEnds(i) \/ SendDone(i) \/ SendTypeArray(i)

\* What GCTaskStack's surroundings do for a job, or the memory for the stack.
StackProgress ==
  \/ PopCycle \/ PrePopCycle \/ Finish
  \/ Work /\ (\/ not_prefetch /\ ~not_prefetch'
              \/ read.valid /\ ~read'.valid
              \/ readIssued' # readIssued
              \/ spill'.phase # spill.phase)

\* Less than the two specifications have: the clock runs, some of what a job
\* waits for happens, unless all of it is at rest, and so one machine works of
\* the survivor and its surroundings.
MCFairness ==
  /\ WF_mcVars(StackUnit(Work) \/ SurvivorUnit(SurvMachine))
  /\ WF_mcVars(StackUnit(StackProgress))

MCSpec == MCInit /\ [][MCNext]_mcVars /\ MCFairness
=============================================================================
