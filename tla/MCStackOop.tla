----------------------------- MODULE MCStackOop -----------------------------
(***************************************************************************)
(* One run for the two ends of the task path, GCTaskStack and GCOopProcess,*)
(* which share nothing here: `unit' says which of them a behaviour is      *)
(* about, the variables of the other stay as they are at first.            *)
(***************************************************************************)
EXTENDS MCTaskStack, MCOopProcess

VARIABLE unit

pathVars == <<vars, oopVars, unit>>

PathInit == unit \in {"stack", "oop"} /\ Init /\ OopInit

StackUnit(act) == unit = "stack" /\ act /\ UNCHANGED <<oopVars, unit>>
OopUnit(act)   == unit = "oop" /\ act /\ UNCHANGED <<vars, unit>>

PathNext == StackUnit(Next) \/ OopUnit(OopNext)

\* The fairness of GCOopProcess; nothing is asked of the stack to happen here.
PathFairness ==
  /\ WF_pathVars(OopUnit(\E t \in OopTasks : AcceptTask(t)))
  /\ \A i \in OopSlots :
       /\ WF_pathVars(OopUnit(SlotStep(i)))
       /\ WF_pathVars(OopUnit(\E s \in Reads : Answer(i, s)))
       /\ WF_pathVars(OopUnit(WriteForward(i))) /\ WF_pathVars(OopUnit(CopyDone(i)))

PathSpec == PathInit /\ [][PathNext]_pathVars /\ PathFairness

\* Every task GCOopProcess is given is settled: EveryTaskSettled, of the
\* behaviours that are about that unit.
TasksSettled == unit = "oop" => EveryTaskSettled
=============================================================================
