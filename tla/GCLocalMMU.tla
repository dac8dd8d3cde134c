----------------------------- MODULE GCLocalMMU -----------------------------
(***************************************************************************)
(* The accelerator's memory port (hwgc_acc/GCLocalMMU.scala): a round-robin *)
(* arbiter over the units' ports, and the table that routes an answer of   *)
(* the last-level cache back to the port that asked, by source ID.         *)
(* The cache is external: it hands out a free source ID with every request *)
(* and answers the requests it holds in any order.                         *)
(***************************************************************************)
EXTENDS Integers

CONSTANTS
  count,       \* number of ports (19 in GCAccTop)
  SourceIDs    \* the cache's source IDs (LLCSourceMaxNum, 32)

(* Assumed of count, by GCMemory and by the theorems. *)
CountAssumption == count \in Nat \ {0}

VARIABLES
  arbStart,        \* the port the next arbitration starts from
  sourceid2port,   \* the routing table
  valid,           \* ports whose Request.valid is up
  outstanding,     \* cache: source IDs of requests not answered yet
  skipped          \* per port: requests of others granted while it has been waiting

vars == <<arbStart, sourceid2port, valid, outstanding, skipped>>

Ports == 0 .. count - 1

(* The place of port p in the rotated order that starts at arbStart. *)
Offset(p) == IF p >= arbStart THEN p - arbStart ELSE p + count - arbStart

IsChosen(p) == p \in valid /\ \A q \in valid : Offset(p) <= Offset(q)

Following(p) == IF p + 1 = count THEN 0 ELSE p + 1

(* Bound: the wait counters stop at count. *)
Longer(n) == IF n < count THEN n + 1 ELSE n

Init ==
  /\ arbStart = 0
  /\ sourceid2port = [id \in SourceIDs |-> 0]
  /\ valid = {}
  /\ outstanding = {}
  /\ skipped = [p \in Ports |-> 0]

(* A unit raises a request; some withdraw it again (the task stack's       *)
(* ReadBack, when its condition goes away before the grant).               *)
Raise(p) ==
  /\ p \notin valid
  /\ valid' = valid \cup {p}
  /\ UNCHANGED <<arbStart, sourceid2port, outstanding, skipped>>

Withdraw(p) ==
  /\ p \in valid
  /\ valid' = valid \ {p}
  /\ skipped' = [skipped EXCEPT ![p] = 0]
  /\ UNCHANGED <<arbStart, sourceid2port, outstanding>>

(* Mutants of Grant: the table gets the port the search started from; the  *)
(* next search starts where this one did.                                   *)
GrantStart(p, id) ==
  /\ IsChosen(p)
  /\ id \notin outstanding
  /\ valid' = valid \ {p}
  /\ sourceid2port' = [sourceid2port EXCEPT ![id] = arbStart]
  /\ arbStart' = Following(p)
  /\ outstanding' = outstanding \cup {id}
  /\ skipped' = [q \in Ports |-> IF q \in valid \ {p} THEN Longer(skipped[q]) ELSE 0]

GrantStay(p, id) ==
  /\ IsChosen(p)
  /\ id \notin outstanding
  /\ valid' = valid \ {p}
  /\ sourceid2port' = [sourceid2port EXCEPT ![id] = p]
  /\ outstanding' = outstanding \cup {id}
  /\ skipped' = [q \in Ports |-> IF q \in valid \ {p} THEN Longer(skipped[q]) ELSE 0]
  /\ UNCHANGED arbStart

(* The cache takes the chosen request under source ID id (reqFire). *)
Grant(p, id) ==
  /\ IsChosen(p)
  /\ id \notin outstanding
  /\ valid' = valid \ {p}
  /\ sourceid2port' = [sourceid2port EXCEPT ![id] = p]
  /\ arbStart' = Following(p)
  /\ outstanding' = outstanding \cup {id}
  /\ skipped' = [q \in Ports |-> IF q \in valid \ {p} THEN Longer(skipped[q]) ELSE 0]

(* The cache's answer goes to port p, which takes it. *)
Respond(p, id) ==
  /\ id \in outstanding
  /\ p = sourceid2port[id]
  /\ outstanding' = outstanding \ {id}
  /\ UNCHANGED <<arbStart, sourceid2port, valid, skipped>>

Next == \/ \E p \in Ports : Raise(p) \/ Withdraw(p)
        \/ \E p \in Ports, id \in SourceIDs : Grant(p, id) \/ Respond(p, id)

Spec == Init /\ [][Next]_vars

(* The cache keeps taking requests and answering them. *)
GrantAny == \E p \in Ports, id \in SourceIDs : Grant(p, id)
RespondAny(id) == \E p \in Ports : Respond(p, id)
Fairness == WF_vars(GrantAny) /\ \A id \in SourceIDs : WF_vars(RespondAny(id))
FairSpec == Spec /\ Fairness

-----------------------------------------------------------------------------
(* Types of the arbiter's registers, the cache's and the wait counters. *)
TypeOK ==
  /\ arbStart \in Ports
  /\ sourceid2port \in [SourceIDs -> Ports]
  /\ valid \subseteq Ports
  /\ outstanding \subseteq SourceIDs
  /\ skipped \in [Ports -> Nat]

(* Round robin: while a port waits, at most count - 1 requests of others go *)
(* first, whichever ports ask and ask again meanwhile.  The task stack's    *)
(* SpillOut relies on it: it bounds the pops that fit into one of its       *)
(* writes.                                                                  *)
BoundedWait == \A p \in valid : skipped[p] < count

(* A request is granted (or withdrawn) although the others never stop.      *)
NoStarvation == \A p \in Ports : (p \in valid) ~> (p \notin valid)

(* The invariant behind BoundedWait: every grant to another port brings the *)
(* arbiter closer to p.                                                     *)
WaitBelowOffset ==
  \A p \in Ports : IF p \in valid THEN skipped[p] + Offset(p) < count ELSE skipped[p] = 0
=============================================================================
