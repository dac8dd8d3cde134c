-------------------------- MODULE GCLocalMMU_proofs --------------------------
(* Proofs about the memory port, for any number of ports and source IDs:    *)
(* what each thing that can happen at the port does to its registers and to *)
(* the waiting counts, then the two theorems.                               *)
EXTENDS GCLocalMMU, TLAPS

\* The inductive invariant of the port.
ArbiterInv == TypeOK /\ WaitBelowOffset

\* What WaitBelowOffset says of one port.
WaitsRightly(q) == IF q \in valid THEN skipped[q] + Offset(q) < count ELSE skipped[q] = 0

-----------------------------------------------------------------------------
(* The rotated order. *)

\* Every port has a place in the rotated order, and the order is as long as
\* there are ports.
LEMMA PlaceInOrder ==
  ASSUME CountAssumption, NEW q \in Ports, arbStart \in Ports
  PROVE  Offset(q) \in Nat /\ Offset(q) < count
BY DEF CountAssumption, Offset, Ports

\* The port after the chosen one, where the next search starts, is a port.
LEMMA NextStartIsPort ==
  ASSUME CountAssumption, NEW p \in Ports PROVE Following(p) \in Ports
BY DEF CountAssumption, Following, Ports

\* A grant to p brings the arbiter at least one place closer to every other
\* waiting port.
LEMMA GrantApproaches ==
  ASSUME CountAssumption, arbStart \in Ports, valid \subseteq Ports,
         NEW p \in Ports, IsChosen(p), NEW q \in valid, q # p, arbStart' = Following(p)
  PROVE  Offset(q)' \in Nat /\ Offset(q)' < Offset(q)
<1>. DEFINE next == Following(p)
<1>1. Offset(p) <= Offset(q) /\ q \in Ports
  BY DEF IsChosen
<1>2. Offset(q)' = IF q >= next THEN q - next ELSE q + count - next
  BY DEF Offset
<1>3. Offset(q)' \in Nat
  <2>1. next \in Ports
    BY NextStartIsPort
  <2>. HIDE DEF next
  <2>. QED BY <1>1, <1>2, <2>1 DEF CountAssumption, Ports
<1>4. Offset(q)' < Offset(q)
  BY <1>1, <1>2 DEF CountAssumption, Offset, Following, Ports
<1>. QED BY <1>3, <1>4

\* While the search starts where it did, a port that neither came nor went and
\* whose count stands waits as before.
LEMMA WaitUnmoved ==
  ASSUME NEW q, WaitsRightly(q), arbStart' = arbStart,
         q \in valid' <=> q \in valid, skipped'[q] = skipped[q]
  PROVE  WaitsRightly(q)'
BY DEF WaitsRightly, Offset

-----------------------------------------------------------------------------
(* What can happen at the port, one lemma for each. *)

\* A port that raises its request has not waited yet, and its place is below count.
LEMMA RaiseKeeps ==
  ASSUME CountAssumption, ArbiterInv, NEW p \in Ports, Raise(p) PROVE ArbiterInv'
<1>a. TypeOK'
  BY DEF ArbiterInv, TypeOK, Raise
<1>b. ASSUME NEW q \in Ports PROVE WaitsRightly(q)'
  <2>1. WaitsRightly(q) /\ arbStart' = arbStart /\ skipped' = skipped /\ arbStart \in Ports
    BY DEF ArbiterInv, TypeOK, WaitBelowOffset, WaitsRightly, Raise
  <2>2. CASE q = p
    <3>1. skipped'[q] = 0 /\ Offset(q)' = Offset(q)
      BY <2>1, <2>2 DEF WaitsRightly, Raise, Offset
    <3>2. Offset(q) \in Nat /\ Offset(q) < count
      BY <2>1, PlaceInOrder
    <3>. QED BY <3>1, <3>2 DEF WaitsRightly
  <2>3. CASE q # p
    BY <2>1, <2>3, WaitUnmoved DEF Raise
  <2>. QED BY <2>2, <2>3
<1>. QED BY <1>a, <1>b DEF ArbiterInv, WaitBelowOffset, WaitsRightly

\* A port that withdraws its request starts afresh; the others wait as before.
LEMMA WithdrawKeeps ==
  ASSUME ArbiterInv, NEW p \in Ports, Withdraw(p) PROVE ArbiterInv'
<1>a. TypeOK'
  BY DEF ArbiterInv, TypeOK, Withdraw
<1>b. ASSUME NEW q \in Ports PROVE WaitsRightly(q)'
  <2>1. WaitsRightly(q) /\ arbStart' = arbStart /\ skipped \in [Ports -> Nat]
    BY DEF ArbiterInv, TypeOK, WaitBelowOffset, WaitsRightly, Withdraw
  <2>2. q = p => q \notin valid' /\ skipped'[q] = 0
    BY <2>1 DEF Withdraw
  <2>3. q # p => (q \in valid' <=> q \in valid) /\ skipped'[q] = skipped[q]
    BY <2>1 DEF Withdraw
  <2>. QED BY <2>1, <2>2, <2>3, WaitUnmoved DEF WaitsRightly
<1>. QED BY <1>a, <1>b DEF ArbiterInv, WaitBelowOffset, WaitsRightly

\* A grant brings those that go on waiting closer.
LEMMA GrantKeeps ==
  ASSUME CountAssumption, ArbiterInv, NEW p \in Ports, NEW id \in SourceIDs, Grant(p, id)
  PROVE  ArbiterInv'
<1>0. arbStart \in Ports /\ valid \subseteq Ports /\ skipped \in [Ports -> Nat]
  BY DEF ArbiterInv, TypeOK
<1>a. TypeOK'
  <2>1. arbStart' \in Ports
    BY NextStartIsPort DEF Grant
  <2>2. skipped' \in [Ports -> Nat]
    BY <1>0 DEF CountAssumption, Grant, Longer
  <2>. QED BY <2>1, <2>2 DEF ArbiterInv, TypeOK, Grant
<1>b. ASSUME NEW q \in Ports PROVE WaitsRightly(q)'
  <2>1. CASE q \in valid /\ q # p
    <3>1. skipped'[q] = Longer(skipped[q]) /\ q \in valid'
      BY <2>1 DEF Grant
    <3>2. Offset(q)' \in Nat /\ Offset(q)' < Offset(q)
      BY <1>0, <2>1, GrantApproaches DEF Grant
    <3>3. Offset(q) \in Nat /\ skipped[q] \in Nat
      BY <1>0, PlaceInOrder
    <3>4. skipped[q] + Offset(q) < count
      BY <2>1 DEF ArbiterInv, WaitBelowOffset
    <3>. QED BY <3>1, <3>2, <3>3, <3>4 DEF CountAssumption, Longer, WaitsRightly
  <2>2. CASE ~(q \in valid /\ q # p)
    BY <2>2 DEF Grant, WaitsRightly
  <2>. QED BY <2>1, <2>2
<1>. QED BY <1>a, <1>b DEF ArbiterInv, WaitBelowOffset, WaitsRightly

\* An answer only frees its source ID.
LEMMA RespondKeeps ==
  ASSUME ArbiterInv, NEW p \in Ports, NEW id \in SourceIDs, Respond(p, id) PROVE ArbiterInv'
<1>a. TypeOK'
  BY DEF ArbiterInv, TypeOK, Respond
<1>b. ASSUME NEW q \in Ports PROVE WaitsRightly(q)'
  BY WaitUnmoved DEF ArbiterInv, WaitBelowOffset, WaitsRightly, Respond
<1>. QED BY <1>a, <1>b DEF ArbiterInv, WaitBelowOffset, WaitsRightly

-----------------------------------------------------------------------------
\* The port is in order at reset and stays so.
LEMMA ArbiterInOrder == ASSUME CountAssumption PROVE Spec => []ArbiterInv
<1>reset. Init => ArbiterInv
  BY DEF Init, ArbiterInv, TypeOK, WaitBelowOffset, CountAssumption, Ports
<1>idle. ArbiterInv /\ UNCHANGED vars => ArbiterInv'
  BY DEF vars, ArbiterInv, TypeOK, WaitBelowOffset, Offset
<1>cycle. ArbiterInv /\ Next => ArbiterInv'
  <2>. SUFFICES ASSUME ArbiterInv,
                       \/ \E p \in Ports : Raise(p) \/ Withdraw(p)
                       \/ \E p \in Ports, id \in SourceIDs : Grant(p, id) \/ Respond(p, id)
                PROVE  ArbiterInv'
    BY DEF Next
  <2>. QED BY RaiseKeeps, WithdrawKeeps, GrantKeeps, RespondKeeps
<1>. QED BY <1>reset, <1>idle, <1>cycle, PTL DEF Spec

(* The registers of the arbiter keep their types. *)
THEOREM TypeCorrect == ASSUME CountAssumption PROVE Spec => []TypeOK
<1>. ArbiterInv => TypeOK
  BY DEF ArbiterInv
<1>. QED BY ArbiterInOrder, PTL

(* No port waits for more than count - 1 grants to others. *)
THEOREM RoundRobin == ASSUME CountAssumption PROVE Spec => []BoundedWait
<1>room. ArbiterInv => BoundedWait
  <2>. SUFFICES ASSUME ArbiterInv, NEW p \in valid PROVE skipped[p] < count
    BY DEF BoundedWait
  <2>1. p \in Ports /\ arbStart \in Ports /\ skipped[p] \in Nat
    BY DEF ArbiterInv, TypeOK
  <2>2. skipped[p] + Offset(p) < count
    BY <2>1 DEF ArbiterInv, WaitBelowOffset
  <2>. QED BY <2>1, <2>2, PlaceInOrder DEF CountAssumption
<1>. QED BY <1>room, ArbiterInOrder, PTL
=============================================================================
