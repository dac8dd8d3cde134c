------------------------------ MODULE GCMemory ------------------------------
(***************************************************************************)
(* A unit's memory path as GCAccTop connects it: the unit's adapter        *)
(* (GCUnalignedMMUAdapter) on port 0 of the accelerator's memory port      *)
(* (GCLocalMMU), which other units share.  A beat of the adapter is a      *)
(* request of port 0; it goes out when the arbiter chooses port 0 and the  *)
(* cache has a source ID left, and the adapter sees the answers that the   *)
(* routing table sends to port 0.  The adapter's SourceIDs and llc are     *)
(* those of the one cache.                                                 *)
(***************************************************************************)
EXTENDS GCUnalignedMMUAdapter

CONSTANT count   \* ports

VARIABLES
  arbStart, sourceid2port, valid, skipped,          \* as in GCLocalMMU
  others                                            \* cache: source IDs of the other ports' requests

outstanding == {id \in SourceIDs : llc[id] # None} \cup others

MMU == INSTANCE GCLocalMMU

ASSUME PortsAssumption == MMU!CountAssumption

mmuVars == <<arbStart, sourceid2port, valid, skipped>>
memVars == <<vars, mmuVars, others>>

OtherPorts == 1 .. count - 1
BeatPending == sendBeat0Pending \/ sendBeat1Pending

MemInit ==
  /\ Init
  /\ arbStart = 0 /\ valid = {} /\ others = {}
  /\ sourceid2port = [id \in SourceIDs |-> 0]
  /\ skipped = [p \in MMU!Ports |-> 0]

-----------------------------------------------------------------------------
\* An access that the adapter has to split or align is latched before it asks.
UnitLatched ==
  /\ 0 \notin valid
  /\ \E r \in Accesses : Fresh(r.txn) /\ AcceptLatched(r)
  /\ UNCHANGED <<mmuVars, others>>

\* Port 0 asks for the beats that are left, or for an access that passes
\* through, which the unit may take back as long as it was not granted.
UnitAsks ==
  /\ BeatPending \/ canStartNewReq
  /\ UNCHANGED <<vars, others>>
  /\ MMU!Raise(0)

UnitTakesBack ==
  /\ canStartNewReq
  /\ UNCHANGED <<vars, others>>
  /\ MMU!Withdraw(0)

UnitGranted(id) ==
  /\ \/ SendBeat0(id) \/ SendBeat1(id)
     \/ \E r \in Accesses : Fresh(r.txn) /\ AcceptDirect(r, id)
  /\ UNCHANGED others
  /\ MMU!Grant(0, id)

UnitAnswered(id) ==
  /\ Answer(id) /\ UNCHANGED others
  /\ MMU!Respond(0, id)

UnitDelivers == DeliverBuffered /\ UNCHANGED <<mmuVars, others>>

OtherAsks(p) == UNCHANGED <<vars, others>> /\ (MMU!Raise(p) \/ MMU!Withdraw(p))

OtherGranted(p, id) ==
  /\ others' = others \cup {id} /\ UNCHANGED vars
  /\ MMU!Grant(p, id)

OtherAnswered(p, id) ==
  /\ id \in others /\ others' = others \ {id} /\ UNCHANGED vars
  /\ MMU!Respond(p, id)

MemNext ==
  \/ UnitLatched \/ UnitAsks \/ UnitTakesBack \/ UnitDelivers
  \/ \E id \in SourceIDs : UnitGranted(id) \/ UnitAnswered(id)
  \/ \E p \in OtherPorts :
       OtherAsks(p) \/ \E id \in SourceIDs : OtherGranted(p, id) \/ OtherAnswered(p, id)

\* The cache takes the request the arbiter chose and answers what it took; the
\* adapter asks for the beats it has; a unit waits for its answer with ready up.
MemFairness ==
  /\ WF_memVars(\E id \in SourceIDs : UnitGranted(id) \/ \E p \in OtherPorts : OtherGranted(p, id))
  /\ WF_memVars(BeatPending /\ UnitAsks) /\ WF_memVars(UnitDelivers)
  /\ \A id \in SourceIDs :
       WF_memVars(UnitAnswered(id) \/ \E p \in OtherPorts : OtherAnswered(p, id))

MemSpec == MemInit /\ [][MemNext]_memVars /\ MemFairness

-----------------------------------------------------------------------------
(* Properties; the adapter's AnswersWelcome and AnswerAssembled now rest on *)
(* the arbiter and the routing table.                                        *)

\* Round robin: while the adapter's beat or a request of another port waits, at
\* most count - 1 requests of others go first, though a split access asks twice
\* and the others ask again as soon as they are answered.
BoundedWait == MMU!BoundedWait
=============================================================================
