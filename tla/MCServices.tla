----------------------------- MODULE MCServices -----------------------------
(***************************************************************************)
(* One run for four units that share nothing here: `service' says which of *)
(* them a behaviour is about, the variables of the others stay as they are *)
(* in one initial state.                                                   *)
(***************************************************************************)
EXTENDS MCFetch, MCRegions, GCAllocate, GCAop

VARIABLE service

mcVars == <<vars, allocVars, alVars, aopVars, service>>

MCLineOffset == [n \in Nodes |-> IF n = "n1" THEN 1 ELSE 0]

MCInit ==
  /\ service \in {"fetch", "regions", "plab", "cards"}
  /\ Init /\ ParInit /\ AlInit /\ AopInit
  /\ service # "regions" =>
       /\ allocRegion[1].region = DummyRegion /\ free.lo = 1 /\ list.last = NoRegion
       /\ top[OldRegion] = 0 /\ ~survivors.split
  /\ service # "cards" =>
       start = [index |-> 0, list |-> NoNode] /\ freeNodes = NoNode /\ lastAsked = NoCard
  \* What the hint names, where the array lies and what an old region holds are
  \* varied one at a time;
  \* an old region nobody uses may as well be empty, and one card goes for another.
  /\ IF allocRegion[1].region = DummyRegion THEN top[OldRegion] = 0
     ELSE list.last = NoRegion /\ ~survivors.split
  /\ survivors.split => list.last = NoRegion /\ free.lo = 1
  /\ lastAsked \in {NoCard, "c1"}

FetchUnit(act)  == service = "fetch" /\ act /\ UNCHANGED <<allocVars, alVars, aopVars, service>>
RegionUnit(act) == service = "regions" /\ act /\ UNCHANGED <<vars, alVars, aopVars, service>>
PlabUnit(act)   == service = "plab" /\ act /\ UNCHANGED <<vars, allocVars, aopVars, service>>
CardUnit(act)   == service = "cards" /\ act /\ UNCHANGED <<vars, allocVars, alVars, service>>

MCNext == FetchUnit(Next) \/ RegionUnit(AllocNext) \/ PlabUnit(AlNext) \/ CardUnit(AopNext)

\* Less than the four specifications have: some machine works, unless all wait,
\* and nobody keeps parAllocate waiting or sends cards for ever.
MCFairness ==
  /\ WF_mcVars(\/ FetchUnit(Next)
               \/ RegionUnit(MfStep \/ AtStep \/ ImlStep \/ NgAlone \/ FrAlone)
               \/ PlabUnit(AlMachine \/ ParAnswers)
               \/ CardUnit(AopMachine))
  /\ WF_mcVars(RegionUnit(ParRead \/ ParWaitIml \/ ParUpdateBot) \/ CardUnit(CardSourcesDone))

MCSpec == MCInit /\ [][MCNext]_mcVars /\ MCFairness

-----------------------------------------------------------------------------
\* What each unit has taken up ends, unless it is stuck where its module says:
\* a job of GCFetch, a command of GCParAllocate or of GCAllocate, a write-back
\* of GCAop, whatever pulses are ignored or latched late and however often an
\* allocation fails.
WorkEnds ==
  \/ service = "fetch" /\ running
  \/ service = "regions" /\ ~MfState("IDLE")
  \/ service = "plab" /\ ~AlAt("sIdle")
  \/ service = "cards" /\ aopPending
  ~>
  \/ service = "fetch" /\ (~running \/ WaitStuck)
  \/ service = "regions" /\ (MfState("IDLE") \/ AllocStuck)
  \/ service = "plab" /\ AlAt("sIdle")
  \/ service = "cards" /\ (~aopPending \/ AopStuck)
=============================================================================
