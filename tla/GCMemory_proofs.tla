-------------------------- MODULE GCMemory_proofs --------------------------
(* Proofs about the adapter, for any set of source IDs and access names;    *)
(* and that the memory path as a whole does nothing that its two parts,     *)
(* each with the other as its environment, do not allow: what is proved of  *)
(* the parts holds of the whole, for any number of ports.  Then about two    *)
(* units that work over it: GCArrayProcess scans an array once, and GCTrace  *)
(* settles every reference of an object as often as it looks at it.         *)
EXTENDS GCMemory, GCTrace, GCArrayProcess, TLAPS

MMUProofs == INSTANCE GCLocalMMU_proofs

-----------------------------------------------------------------------------
(* The adapter, whatever the rest of the path does. *)

\* The adapter starts with nothing to send, to collect or to answer.
LEMMA InitHolds == Init => IInv
<1> SUFFICES ASSUME Init PROVE IInv
  OBVIOUS
<1>1. TypeOK
  BY DEF Init, TypeOK
<1>2. Progress
  BY DEF Init, Progress
<1>3. InFlight
  BY DEF Init, InFlight, Awaits0, Awaits1
<1>4. AnswerAssembled
  BY DEF Init, AnswerAssembled
<1>5. QED
  BY <1>1, <1>2, <1>3, <1>4 DEF IInv

\* The lines of an access are lines.
LEMMA LineTyped == ASSUME NEW r \in Accesses, NEW beat \in {0, 1}
                   PROVE  Line(r, beat) \in Lines /\ Line(r, beat) # None
BY NoneAssumption DEF Line, Lines, Accesses

\* An access that passes through asks for its only line at once.
LEMMA AcceptDirectKeeps ==
  ASSUME IInv, NEW r \in Accesses, NEW id \in SourceIDs, AcceptDirect(r, id)
  PROVE  IInv'
<1> USE DEF AcceptDirect, SendLine, canStartNewReq
<1>1. TypeOK /\ Progress /\ InFlight /\ r.need \in BOOLEAN /\ r.shape = "direct"
  BY DEF IInv, Accesses
<1>2. Line(r, 0) \in Lines /\ Line(r, 0) # None
  BY LineTyped
<1>3. TypeOK'
  BY <1>1, <1>2 DEF TypeOK
<1>4. Progress'
  BY <1>1 DEF Progress
<1>5. InFlight'
  <2>1. ~Awaits0 /\ ~Awaits1 /\ ~Awaits1'
    BY DEF Awaits0, Awaits1
  <2>2. Awaits0' <=> r.need
    BY <1>1 DEF Awaits0
  <2>3. \A i \in SourceIDs : llc[i] # None <=> i \in ignored
    BY <1>1, <2>1 DEF InFlight
  <2>4. llc' = [llc EXCEPT ![id] = Line(r, 0)] /\ llc[id] = None /\ id \notin ignored
        /\ req' = r /\ firstSourceID' = id /\ llc \in [SourceIDs -> Lines \cup {None}]
    BY <1>1, <2>3 DEF TypeOK
  <2>5. CASE r.need
    <3>1. ignored' = ignored
      BY <2>5
    <3>2. QED
      BY <2>1, <2>2, <2>3, <2>4, <2>5, <3>1, <1>2 DEF InFlight
  <2>6. CASE ~r.need
    <3>1. ignored' = ignored \cup {id}
      BY <2>6
    <3>2. QED
      BY <2>1, <2>2, <2>3, <2>4, <2>6, <3>1, <1>2 DEF InFlight
  <2>7. QED
    BY <2>5, <2>6
<1>6. AnswerAssembled'
  BY DEF AnswerAssembled
<1>7. QED
  BY <1>3, <1>4, <1>5, <1>6 DEF IInv

\* An access that has to be split or aligned is latched.
LEMMA AcceptLatchedKeeps ==
  ASSUME IInv, NEW r \in Accesses, AcceptLatched(r)
  PROVE  IInv'
<1> USE DEF AcceptLatched, canStartNewReq
<1>1. TypeOK /\ Progress /\ InFlight /\ r.need \in BOOLEAN /\ r.shape # "direct"
  BY DEF IInv, Accesses
<1>3. TypeOK'
  BY <1>1 DEF TypeOK
<1>4. Progress'
  BY <1>1 DEF Progress
<1>5. InFlight'
  <2>1. ~Awaits0 /\ ~Awaits1 /\ ~Awaits0' /\ ~Awaits1'
    BY DEF Awaits0, Awaits1
  <2>2. QED
    BY <1>1, <2>1 DEF InFlight
<1>6. AnswerAssembled'
  BY DEF AnswerAssembled
<1>7. QED
  BY <1>3, <1>4, <1>5, <1>6 DEF IInv

\* The first beat goes out.
LEMMA SendBeat0Keeps ==
  ASSUME IInv, NEW id \in SourceIDs, SendBeat0(id)
  PROVE  IInv'
<1> USE DEF SendBeat0, SendLine, EndsHere
<1>1. TypeOK /\ Progress /\ InFlight /\ req \in Accesses /\ req.need \in BOOLEAN
      /\ sendBeat1Pending \in BOOLEAN /\ splitReq \in BOOLEAN
  BY DEF IInv, TypeOK, Accesses
<1>2. Line(req, 0) \in Lines /\ Line(req, 0) # None
  BY <1>1, LineTyped
<1>3. TypeOK'
  BY <1>1, <1>2 DEF TypeOK
<1>4. Progress'
  BY <1>1 DEF Progress
<1>5. InFlight'
  <2>1. ~Awaits0 /\ ~Awaits1
    BY <1>1 DEF Awaits0, Awaits1, Progress
  <2>2. (Awaits0' <=> req.need) /\ ~Awaits1'
    BY <1>1 DEF Awaits0, Awaits1, Progress
  <2>3. \A i \in SourceIDs : llc[i] # None <=> i \in ignored
    BY <1>1, <2>1 DEF InFlight
  <2>4. llc' = [llc EXCEPT ![id] = Line(req, 0)] /\ llc[id] = None /\ id \notin ignored
        /\ req' = req /\ firstSourceID' = id /\ llc \in [SourceIDs -> Lines \cup {None}]
    BY <1>1, <2>3 DEF TypeOK
  <2>5. CASE req.need
    <3>1. ignored' = ignored
      BY <2>5
    <3>2. QED
      BY <2>2, <2>3, <2>4, <2>5, <3>1, <1>2 DEF InFlight
  <2>6. CASE ~req.need
    <3>1. ignored' = ignored \cup {id}
      BY <2>6
    <3>2. QED
      BY <2>2, <2>3, <2>4, <2>6, <3>1, <1>2 DEF InFlight
  <2>7. QED
    BY <2>5, <2>6
<1>6. AnswerAssembled'
  BY DEF AnswerAssembled, IInv
<1>7. QED
  BY <1>3, <1>4, <1>5, <1>6 DEF IInv

\* The second beat goes out, as soon as the first did.
LEMMA SendBeat1Keeps ==
  ASSUME IInv, NEW id \in SourceIDs, SendBeat1(id)
  PROVE  IInv'
<1> USE DEF SendBeat1, SendLine, EndsHere
<1>1. TypeOK /\ Progress /\ InFlight /\ req \in Accesses /\ req.need \in BOOLEAN
      /\ splitReq \in BOOLEAN
  BY DEF IInv, TypeOK, Accesses
<1>2. Line(req, 1) \in Lines /\ Line(req, 1) # None
  BY <1>1, LineTyped
<1>3. TypeOK'
  BY <1>1, <1>2 DEF TypeOK
<1>4. Progress'
  BY <1>1 DEF Progress
<1>5. InFlight'
  <2>1. ~Awaits1
    BY DEF Awaits1
  <2>2. (Awaits0' <=> Awaits0) /\ (Awaits1' <=> req.need)
    BY <1>1 DEF Awaits0, Awaits1, Progress
  <2>3. \A i \in SourceIDs : llc[i] # None <=> i \in ignored \/ (Awaits0 /\ i = firstSourceID)
    BY <1>1, <2>1 DEF InFlight
  <2>4. llc' = [llc EXCEPT ![id] = Line(req, 1)] /\ llc[id] = None /\ id \notin ignored
        /\ req' = req /\ firstSourceID' = firstSourceID /\ secondSourceID' = id
        /\ llc \in [SourceIDs -> Lines \cup {None}] /\ firstSourceID \in SourceIDs
    BY <1>1, <2>3 DEF TypeOK
  <2>a. Awaits0 => llc[firstSourceID] = Line(req, 0) /\ firstSourceID \notin ignored
                   /\ firstSourceID # id
    <3>1. Awaits0 => llc[firstSourceID] = Line(req, 0) /\ firstSourceID \notin ignored
      BY <1>1 DEF InFlight
    <3>2. Line(req, 0) # None
      BY <1>1, LineTyped
    <3>3. QED
      BY <3>1, <3>2, <2>4
  <2>5. CASE req.need
    <3>1. ignored' = ignored
      BY <2>5
    <3>2. QED
      BY <2>2, <2>3, <2>4, <2>a, <2>5, <3>1, <1>2 DEF InFlight
  <2>6. CASE ~req.need
    <3>1. ignored' = ignored \cup {id} /\ ~Awaits0
      BY <2>6 DEF Awaits0
    <3>2. QED
      BY <2>2, <2>3, <2>4, <2>6, <3>1, <1>2 DEF InFlight
  <2>7. QED
    BY <2>5, <2>6
<1>6. AnswerAssembled'
  BY DEF AnswerAssembled, IInv
<1>7. QED
  BY <1>3, <1>4, <1>5, <1>6 DEF IInv


\* An answer to a write, or one nobody waits for, is dropped.
LEMMA DropKeeps ==
  ASSUME IInv, NEW id \in SourceIDs, DropIgnored(id)
  PROVE  IInv'
<1> USE DEF DropIgnored, Answered, registers
<1>1. TypeOK /\ Progress /\ InFlight
  BY DEF IInv
<1>3. TypeOK'
  BY <1>1 DEF TypeOK
<1>4. Progress'
  BY <1>1 DEF Progress
<1>5. InFlight'
  <2>1. (Awaits0' <=> Awaits0) /\ (Awaits1' <=> Awaits1)
    BY DEF Awaits0, Awaits1
  <2>2. (Awaits0 => firstSourceID # id) /\ (Awaits1 => secondSourceID # id)
    BY <1>1 DEF InFlight
  <2>3. llc' = [llc EXCEPT ![id] = None] /\ llc \in [SourceIDs -> Lines \cup {None}]
        /\ firstSourceID \in SourceIDs /\ secondSourceID \in SourceIDs
        /\ ignored' = ignored \ {id}
    BY <1>1 DEF TypeOK
  <2>4. QED
    BY <1>1, <2>1, <2>2, <2>3 DEF InFlight
<1>6. AnswerAssembled'
  BY DEF AnswerAssembled, IInv
<1>7. QED
  BY <1>3, <1>4, <1>5, <1>6 DEF IInv

(* Which line an answer that is taken carries. *)
LEMMA TakenLine ==
  ASSUME IInv, NEW id \in SourceIDs, llc[id] # None, CurrentRespCanTake(id)
  PROVE  \/ /\ Awaits0 /\ id = firstSourceID /\ llc[id] = Line(req, 0)
            /\ Awaits1 => secondSourceID # id
         \/ /\ Awaits1 /\ id = secondSourceID /\ llc[id] = Line(req, 1)
            /\ Awaits0 => firstSourceID # id
<1>1. TypeOK /\ Progress /\ InFlight /\ req \in Accesses /\ id \notin ignored
  BY DEF IInv, TypeOK, CurrentRespCanTake
<1>2. Line(req, 0) # Line(req, 1)
  BY DEF Line
<1>3. (Awaits0 /\ id = firstSourceID) \/ (Awaits1 /\ id = secondSourceID)
  BY <1>1 DEF InFlight
<1>4. QED
  BY <1>1, <1>2, <1>3 DEF InFlight

\* The first line of two is kept until the other is there.
LEMMA TakeFirstHalfKeeps ==
  ASSUME IInv, NEW id \in SourceIDs, TakeFirstHalf(id)
  PROVE  IInv'
<1> USE DEF TakeFirstHalf, Answered
<1>1. TypeOK /\ Progress /\ InFlight /\ llc[id] \in Lines
  BY DEF IInv, TypeOK
<1>2. \/ /\ Awaits0 /\ id = firstSourceID /\ llc[id] = Line(req, 0)
         /\ Awaits1 => secondSourceID # id
      \/ /\ Awaits1 /\ id = secondSourceID /\ llc[id] = Line(req, 1)
         /\ Awaits0 => firstSourceID # id
  BY TakenLine
<1>3. TypeOK'
  BY <1>1 DEF TypeOK
<1>a. Awaits0 /\ busy /\ req.need /\ splitReq /\ ~sendBeat0Pending
  BY DEF CurrentRespCanTake, currentRespHit, Awaits0
<1>b. id # firstSourceID => Awaits1 /\ ~sendBeat1Pending
  BY <1>2 DEF Awaits1
<1>4. Progress'
  <2>1. bufferData' = Line(req, IF bufferIsBeat0' THEN 0 ELSE 1)
    BY <1>2, <1>a, <1>b
  <2>2. sendBeat1Pending => bufferIsBeat0'
    BY <1>b
  <2>3. QED
    BY <1>1, <1>a, <2>1, <2>2 DEF Progress
<1>5. InFlight'
  <2>1. llc' = [llc EXCEPT ![id] = None] /\ llc \in [SourceIDs -> Lines \cup {None}]
        /\ firstSourceID \in SourceIDs /\ secondSourceID \in SourceIDs
        /\ ignored' = ignored /\ req' = req /\ id \notin ignored
        /\ firstSourceID' = firstSourceID /\ secondSourceID' = secondSourceID
    BY <1>1 DEF TypeOK, CurrentRespCanTake
  <2>2. (Awaits0' <=> id # firstSourceID) /\ (Awaits1' <=> Awaits1 /\ id = firstSourceID)
    BY <1>a, <1>b DEF Awaits0, Awaits1
  <2>3. CASE id = firstSourceID
    BY <1>1, <1>2, <1>a, <2>1, <2>2, <2>3 DEF InFlight
  <2>4. CASE id # firstSourceID
    BY <1>1, <1>2, <1>a, <1>b, <2>1, <2>2, <2>4 DEF InFlight
  <2>5. QED
    BY <2>3, <2>4
<1>6. AnswerAssembled'
  BY DEF AnswerAssembled, IInv
<1>7. QED
  BY <1>3, <1>4, <1>5, <1>6 DEF IInv

\* The last line of an access completes it.
LEMMA TakeFinalKeeps ==
  ASSUME IInv, NEW id \in SourceIDs, TakeFinal(id)
  PROVE  IInv'
<1> USE DEF TakeFinal, Answered
<1>1. TypeOK /\ Progress /\ InFlight /\ req \in Accesses
  BY DEF IInv, TypeOK
<1>2. \/ /\ Awaits0 /\ id = firstSourceID /\ llc[id] = Line(req, 0)
         /\ Awaits1 => secondSourceID # id
      \/ /\ Awaits1 /\ id = secondSourceID /\ llc[id] = Line(req, 1)
         /\ Awaits0 => firstSourceID # id
  BY TakenLine
<1>a. /\ busy /\ req.need /\ ~sendBeat0Pending /\ ~sendBeat1Pending /\ respBuf = None
      /\ asked = req /\ (splitReq <=> req.shape = "split")
      /\ splitReq => gotOneResp /\ bufferData = Line(req, IF bufferIsBeat0 THEN 0 ELSE 1)
      /\ bufferIsBeat0 \in BOOLEAN /\ id \notin ignored
  BY <1>1 DEF CurrentRespCanTake, currentRespHit, finalRespCanArrive,
              firstSplitRespCanArrive, Progress, TypeOK
<1>b. llc[id] = Line(req, IF splitReq /\ bufferIsBeat0 THEN 1 ELSE 0)
  BY <1>2, <1>a DEF Awaits0, Awaits1
<1>c. Assembled(llc[id]) \in Answers(req)
  BY <1>a, <1>b DEF Assembled, Answers
<1>d. Answers(req) # {} /\ Assembled(llc[id]) # None /\ req # None
  BY <1>c, <1>1, NoneAssumption
<1>3. TypeOK'
  BY <1>1 DEF TypeOK
<1>4. Progress'
  BY <1>1, <1>a, <1>c, <1>d DEF Progress
<1>5. InFlight'
  <2>1. llc' = [llc EXCEPT ![id] = None] /\ llc \in [SourceIDs -> Lines \cup {None}]
        /\ ignored' = ignored
    BY <1>1 DEF TypeOK
  <2>2. ~Awaits0' /\ ~Awaits1'
    BY DEF Awaits0, Awaits1
  <2>3. \A i \in SourceIDs \ {id} : llc[i] # None <=> i \in ignored
    BY <1>1, <1>2, <1>a DEF InFlight, Awaits0, Awaits1
  <2>4. QED
    BY <2>1, <2>2, <2>3, <1>a DEF InFlight
<1>6. AnswerAssembled'
  BY <1>a, <1>c, <1>d DEF AnswerAssembled, IInv
<1>7. QED
  BY <1>3, <1>4, <1>5, <1>6 DEF IInv

\* The unit takes an answer that was kept for it.
LEMMA DeliverBufferedKeeps == ASSUME IInv, DeliverBuffered PROVE IInv'
<1> USE DEF DeliverBuffered, registers
<1>1. TypeOK /\ Progress /\ InFlight
  BY DEF IInv
<1>2. ~busy /\ asked # None /\ respBuf \in Answers(asked)
  BY <1>1 DEF Progress, TypeOK
<1>3. TypeOK'
  BY <1>1 DEF TypeOK
<1>4. Progress'
  BY <1>1, <1>2 DEF Progress
<1>5. InFlight'
  BY <1>1 DEF InFlight, Awaits0, Awaits1
<1>6. AnswerAssembled'
  BY <1>2 DEF AnswerAssembled
<1>7. QED
  BY <1>3, <1>4, <1>5, <1>6 DEF IInv

(* The inductive invariant holds of every behaviour. *)
THEOREM Invariance == Spec => []IInv
<1>1. IInv /\ [Next]_vars => IInv'
  <2> SUFFICES ASSUME IInv, [Next]_vars PROVE IInv'
    OBVIOUS
  <2>1. CASE Accept
    BY <2>1, AcceptDirectKeeps, AcceptLatchedKeeps DEF Accept
  <2>2. CASE Send
    BY <2>2, SendBeat0Keeps, SendBeat1Keeps DEF Send
  <2>3. CASE DeliverBuffered
    BY <2>3, DeliverBufferedKeeps
  <2>4. ASSUME NEW id \in SourceIDs, Answer(id) PROVE IInv'
    BY <2>4, DropKeeps, TakeFirstHalfKeeps, TakeFinalKeeps DEF Answer
  <2>5. CASE UNCHANGED vars
    BY <2>5 DEF vars, registers, IInv, TypeOK, Progress, InFlight, Awaits0, Awaits1,
                AnswerAssembled
  <2>6. QED
    BY <2>1, <2>2, <2>3, <2>4, <2>5 DEF Next
<1>2. QED
  BY <1>1, InitHolds, PTL DEF Spec

(* The shared answer channel is never blocked: whichever answer the cache  *)
(* offers, the adapter takes it.                                           *)
THEOREM NeverRefused == Spec => []AnswersWelcome
<1>1. IInv => AnswersWelcome
  <2> SUFFICES ASSUME IInv, NEW id \in SourceIDs, llc[id] # None, id \notin ignored
               PROVE  CurrentRespCanTake(id)
    BY DEF AnswersWelcome, ResponseReady
  <2>1. TypeOK /\ Progress /\ InFlight
    BY DEF IInv
  <2>2. (Awaits0 /\ id = firstSourceID) \/ (Awaits1 /\ id = secondSourceID)
    BY <2>1 DEF InFlight
  <2>3. busy /\ req.need /\ ~sendBeat0Pending /\ respBuf = None
    BY <2>1, <2>2 DEF Progress, Awaits0, Awaits1, TypeOK
  <2>4. currentRespHit(id)
    BY <2>1, <2>2, <2>3 DEF currentRespHit, Awaited, Awaits0, Awaits1, Progress, TypeOK
  <2>5. firstSplitRespCanArrive \/ finalRespCanArrive
    BY <2>1, <2>2, <2>3 DEF firstSplitRespCanArrive, finalRespCanArrive, Awaits0, Awaits1,
                            Progress, TypeOK
  <2>6. QED
    BY <2>4, <2>5 DEF CurrentRespCanTake
<1>2. QED
  BY <1>1, Invariance, PTL

(* A unit gets the lines of its own access, in address order. *)
THEOREM RightAnswer == Spec => []AnswerAssembled
<1>1. IInv => AnswerAssembled
  BY DEF IInv
<1>2. QED
  BY <1>1, Invariance, PTL

-----------------------------------------------------------------------------
(* The path. *)

\* A step of the path is a step of the adapter, or none.
LEMMA AdapterStep == [MemNext]_memVars => [Next]_vars
<1> SUFFICES ASSUME [MemNext]_memVars PROVE [Next]_vars
  OBVIOUS
<1>1. CASE UnitLatched
  BY <1>1 DEF UnitLatched, Next, Accept
<1>2. CASE UnitAsks \/ UnitTakesBack
  BY <1>2 DEF UnitAsks, UnitTakesBack
<1>3. CASE UnitDelivers
  BY <1>3 DEF UnitDelivers, Next
<1>4. ASSUME NEW id \in SourceIDs, UnitGranted(id) PROVE Next
  BY <1>4 DEF UnitGranted, Next, Send, Accept
<1>5. ASSUME NEW id \in SourceIDs, UnitAnswered(id) PROVE Next
  BY <1>5 DEF UnitAnswered, Next
<1>6. ASSUME NEW p \in OtherPorts, OtherAsks(p) PROVE UNCHANGED vars
  BY <1>6 DEF OtherAsks
<1>7. ASSUME NEW p \in OtherPorts, NEW id \in SourceIDs,
             OtherGranted(p, id) \/ OtherAnswered(p, id)
      PROVE  UNCHANGED vars
  BY <1>7 DEF OtherGranted, OtherAnswered
<1>8. CASE UNCHANGED memVars
  BY <1>8 DEF memVars
<1>9. QED
  BY <1>1, <1>2, <1>3, <1>4, <1>5, <1>6, <1>7, <1>8 DEF MemNext

\* A step of the path is a step of the arbiter and its table, or none.
LEMMA ArbiterStep == ASSUME PortsAssumption PROVE [MemNext]_memVars => [MMU!Next]_(MMU!vars)
<1> SUFFICES ASSUME [MemNext]_memVars PROVE MMU!Next \/ UNCHANGED MMU!vars
  OBVIOUS
<1>p. 0 \in MMU!Ports /\ OtherPorts \subseteq MMU!Ports
  BY PortsAssumption DEF MMU!Ports, OtherPorts, MMU!CountAssumption
<1>1. CASE UnitLatched
  BY <1>1 DEF UnitLatched, AcceptLatched, mmuVars, MMU!vars, outstanding
<1>2. CASE UnitAsks \/ UnitTakesBack
  BY <1>2, <1>p DEF UnitAsks, UnitTakesBack, MMU!Next
<1>3. CASE UnitDelivers
  BY <1>3 DEF UnitDelivers, DeliverBuffered, mmuVars, MMU!vars, outstanding
<1>4. ASSUME NEW id \in SourceIDs, UnitGranted(id) \/ UnitAnswered(id) PROVE MMU!Next
  BY <1>4, <1>p DEF UnitGranted, UnitAnswered, MMU!Next
<1>5. ASSUME NEW p \in OtherPorts, OtherAsks(p) PROVE MMU!Next
  BY <1>5, <1>p DEF OtherAsks, MMU!Next
<1>6. ASSUME NEW p \in OtherPorts, NEW id \in SourceIDs,
             OtherGranted(p, id) \/ OtherAnswered(p, id)
      PROVE  MMU!Next
  BY <1>6, <1>p DEF OtherGranted, OtherAnswered, MMU!Next
<1>7. CASE UNCHANGED memVars
  BY <1>7 DEF memVars, vars, mmuVars, MMU!vars, outstanding
<1>8. QED
  BY <1>1, <1>2, <1>3, <1>4, <1>5, <1>6, <1>7 DEF MemNext

\* GCAccTop's memory path implements both the adapter's specification and the
\* memory port's.
THEOREM PathImplementsParts == MemSpec => Spec /\ MMU!Spec
<1>1. MemInit => Init /\ MMU!Init
  BY DEF MemInit, Init, MMU!Init, outstanding
<1>2. [MemNext]_memVars => [Next]_vars
  BY AdapterStep
<1>3. [MemNext]_memVars => [MMU!Next]_(MMU!vars)
  BY ArbiterStep, PortsAssumption
<1>4. QED
  BY <1>1, <1>2, <1>3, PTL DEF MemSpec, Spec, MMU!Spec

\* The memory port on the path is the memory port of GCLocalMMU_proofs.
LEMMA PathPort == MMU!Spec => MMUProofs!Spec
<1>1. MMU!Init => MMUProofs!Init
  BY DEF MMU!Init, MMUProofs!Init, MMU!Ports, MMUProofs!Ports
<1>2. [MMU!Next]_(MMU!vars) => [MMUProofs!Next]_(MMUProofs!vars)
  <2>1. ASSUME NEW p, MMU!Raise(p) \/ MMU!Withdraw(p)
        PROVE  MMUProofs!Raise(p) \/ MMUProofs!Withdraw(p)
    BY <2>1 DEF MMU!Raise, MMUProofs!Raise, MMU!Withdraw, MMUProofs!Withdraw
  <2>2. ASSUME NEW p, NEW id, MMU!Respond(p, id) PROVE MMUProofs!Respond(p, id)
    BY <2>2 DEF MMU!Respond, MMUProofs!Respond
  <2>3. ASSUME NEW p, NEW id, MMU!Grant(p, id) PROVE MMUProofs!Grant(p, id)
    <3>1. MMUProofs!IsChosen(p) /\ MMUProofs!Following(p) = MMU!Following(p)
      BY <2>3 DEF MMU!Grant, MMU!IsChosen, MMUProofs!IsChosen, MMU!Offset, MMUProofs!Offset,
                  MMU!Following, MMUProofs!Following
    <3>2. \A n : MMUProofs!Longer(n) = MMU!Longer(n)
      BY DEF MMU!Longer, MMUProofs!Longer
    <3>3. MMUProofs!Ports = MMU!Ports
      BY DEF MMU!Ports, MMUProofs!Ports
    <3>4. QED
      BY <2>3, <3>1, <3>2, <3>3 DEF MMU!Grant, MMUProofs!Grant
  <2>4. MMUProofs!Ports = MMU!Ports
    BY DEF MMU!Ports, MMUProofs!Ports
  <2>5. ASSUME MMU!Next PROVE MMUProofs!Next
    <3>1. CASE \E p \in MMU!Ports : MMU!Raise(p) \/ MMU!Withdraw(p)
      BY <3>1, <2>1, <2>4 DEF MMUProofs!Next
    <3>2. CASE \E p \in MMU!Ports, id \in SourceIDs : MMU!Grant(p, id) \/ MMU!Respond(p, id)
      <4> PICK p \in MMU!Ports, id \in SourceIDs : MMU!Grant(p, id) \/ MMU!Respond(p, id)
        BY <3>2
      <4>1. MMUProofs!Grant(p, id) \/ MMUProofs!Respond(p, id)
        BY <2>2, <2>3
      <4>2. QED
        BY <4>1, <2>4 DEF MMUProofs!Next
    <3>3. QED
      BY <2>5, <3>1, <3>2 DEF MMU!Next
  <2>6. QED
    BY <2>5 DEF MMU!vars, MMUProofs!vars
<1>. QED BY <1>1, <1>2, PTL DEF MMU!Spec, MMUProofs!Spec

\* Round robin on the whole path: whatever the adapter and the other units do, a
\* port that waits sees fewer than count requests of others go first.
THEOREM PathRoundRobin == MemSpec => []BoundedWait
<1>1. MMUProofs!CountAssumption
  BY PortsAssumption DEF MMU!CountAssumption, MMUProofs!CountAssumption
<1>2. MMUProofs!Spec => []MMUProofs!BoundedWait
  BY <1>1, MMUProofs!RoundRobin
<1>3. MMUProofs!BoundedWait => BoundedWait
  BY DEF BoundedWait, MMU!BoundedWait, MMUProofs!BoundedWait
<1>. QED BY <1>2, <1>3, PathPort, PathImplementsParts, PTL

\* On the whole path, too, no answer of the cache is refused and every access
\* gets its own lines in order.
THEOREM PathAnswers == MemSpec => [](AnswersWelcome /\ AnswerAssembled)
BY PathImplementsParts, NeverRefused, RightAnswer, PTL

-----------------------------------------------------------------------------
(* GCArrayProcess: an array is scanned once, whatever its length, the size   *)
(* of a part and the number of tasks allowed.  The argument: when k parts    *)
(* have begun, the tasks in the queue, in GCArrayProcess and still to be     *)
(* made by GCTrace are as many as Waiting(k), which is never more than the   *)
(* parts left; CALC_STEP guesses exactly that number from the length it      *)
(* finds.                                                                    *)

Whole == srcLength \div ChunkSize           \* parts after the remainder
First == srcLength % ChunkSize
Reached(k) == First + k * ChunkSize         \* length in the header after k parts
Waiting(k) == IF k = 0 THEN Least(1, Whole) ELSE Least(Whole - k, task_fanout)

-----------------------------------------------------------------------------
(* The invariant. *)

ApStates == {"IDLE", "WAIT_FORWARD", "READ_DEST_LEN", "CALC_STEP", "LOOKUP_HEAP_REG", "SEND_TRACE",
             "WAIT_TRACE_DONE"}
ChunkTypes ==
  /\ ap \in [pc : ApStates, dest : Nat, step : Nat, ncreate : Nat]
  /\ chunkTrace \in [pc : {"IDLE", "DISPATCH", "PREPARE_ARRAY", "SCAN_FORWARD"},
                     kind : {"none", "array", "partial"}, start : Nat, step : Nat, length : Nat,
                     ncreate : Nat, created : Nat]
  /\ srcLength \in Nat \union {-1} /\ destLength \in Nat
  /\ queue \in Nat /\ parts \in Nat /\ scanned \subseteq Nat

NotBegun == ap.pc = "IDLE" /\ chunkTrace.pc = "IDLE" /\ queue = 0 /\ parts = 0 /\ scanned = {}

OfArray == chunkTrace.kind = "array"
OfPart == chunkTrace.kind = "partial"

\* The task GCArrayProcess has, until its part begins.
Held == IF ap.pc = "IDLE" \/ (ap.pc = "WAIT_TRACE_DONE" /\ chunkTrace.pc # "DISPATCH") THEN 0 ELSE 1
\* The tasks GCTrace has yet to make.
ToMake ==
  IF chunkTrace.pc = "PREPARE_ARRAY" /\ OfPart THEN chunkTrace.ncreate - chunkTrace.created
  ELSE IF chunkTrace.pc \in {"DISPATCH", "PREPARE_ARRAY"} /\ OfArray THEN Least(1, Whole)
  ELSE 0
TasksCounted == queue + Held + ToMake = Waiting(parts)

\* CALC_STEP saw the length of the header as it is and guessed right.
Calculated ==
  /\ ap.pc \in {"CALC_STEP", "LOOKUP_HEAP_REG", "SEND_TRACE"} => ap.dest = Reached(parts)
  /\ ap.pc \in {"LOOKUP_HEAP_REG", "SEND_TRACE"} =>
       ap.step = Reached(parts + 1) /\ ap.ncreate + Waiting(parts) - 1 = Waiting(parts + 1)

\* What GCTrace works on, and what was scanned before it.
Tracing ==
  /\ chunkTrace.pc = "IDLE" <=> chunkTrace.kind = "none"
  /\ OfPart <=> ap.pc = "WAIT_TRACE_DONE"
  /\ OfArray => /\ parts = 0 /\ chunkTrace.start = 0 /\ chunkTrace.step = First
                /\ chunkTrace.length = srcLength
                /\ chunkTrace.pc # "SCAN_FORWARD" => ap.pc = "IDLE" /\ queue = 0
  /\ OfPart /\ chunkTrace.pc = "DISPATCH" =>
       /\ chunkTrace.start = Reached(parts) /\ chunkTrace.step = Reached(parts + 1)
       /\ chunkTrace.length = Reached(parts + 1) /\ chunkTrace.created = 0
       /\ chunkTrace.ncreate + Waiting(parts) - 1 = Waiting(parts + 1)
  /\ OfPart /\ chunkTrace.pc # "DISPATCH" =>
       /\ parts > 0
       /\ chunkTrace.start = Reached(parts - 1) /\ chunkTrace.step = Reached(parts)
       /\ chunkTrace.created <= chunkTrace.ncreate
  /\ ~(OfArray /\ chunkTrace.pc = "DISPATCH") => destLength = Reached(parts)
  /\ scanned = 0 .. (IF chunkTrace.pc = "IDLE" THEN Reached(parts) ELSE chunkTrace.start) - 1

Begun == parts <= Whole /\ TasksCounted /\ Calculated /\ Tracing

ChunkInv == ChunkTypes /\ IF srcLength = -1 THEN NotBegun ELSE Begun

-----------------------------------------------------------------------------
(* Arithmetic. *)

LEMMA Dividing == ASSUME NEW n \in Nat, NEW c \in Nat \ {0}
                  PROVE  /\ n \div c \in Nat /\ n % c \in 0 .. c - 1
                         /\ n = (n % c) + (n \div c) * c
OBVIOUS

LEMMA Divided == ASSUME NEW k \in Nat, NEW c \in Nat \ {0}, NEW s \in 0 .. c - 1
                 PROVE  (s + k * c) \div c = k
OBVIOUS

LEMMA DividedMultiple == ASSUME NEW k \in Nat, NEW c \in Nat \ {0}
                 PROVE  (k * c) \div c = k
OBVIOUS

LEMMA Product == ASSUME NEW k \in Nat, NEW m \in Nat, NEW c \in Nat, k <= m
                 PROVE  k * c <= m * c /\ k * c \in Nat
OBVIOUS

LEMMA Fanout == ASSUME NEW k \in Nat \ {0}, NEW f \in Nat \ {0}
                PROVE  (f - 1) * k + 1 >= f
OBVIOUS

\* Where the parts lie.
LEMMA PartsFit ==
  ASSUME StepperAssumption, srcLength \in Nat
  PROVE  /\ Whole \in Nat /\ First \in Nat /\ First < ChunkSize
         /\ srcLength = Reached(Whole)
<1>1. /\ Whole \in Nat /\ First \in 0 .. ChunkSize - 1 /\ srcLength = Reached(Whole)
  BY Dividing DEF StepperAssumption, Whole, First, Reached
<1>2. QED
  BY <1>1 DEF StepperAssumption

LEMMA PartFits ==
  ASSUME StepperAssumption, srcLength \in Nat, NEW k \in Nat
  PROVE  /\ Reached(k) \in Nat /\ Reached(k + 1) = Reached(k) + ChunkSize
         /\ Waiting(k) \in Int
         /\ k <= Whole => /\ Reached(k) <= srcLength /\ Waiting(k) >= 0 /\ Waiting(k) <= Whole - k
                          /\ Waiting(k) = 0 => k = Whole
<1>1. /\ Whole \in Nat /\ First \in Nat /\ srcLength = Reached(Whole)
  BY PartsFit
<1>2. /\ k * ChunkSize \in Nat /\ (k + 1) * ChunkSize = k * ChunkSize + ChunkSize
      /\ k <= Whole => k * ChunkSize <= Whole * ChunkSize
  BY <1>1, Product DEF StepperAssumption
<1>3. /\ Waiting(k) \in Int
      /\ k <= Whole => /\ Waiting(k) >= 0 /\ Waiting(k) <= Whole - k
                       /\ Waiting(k) = 0 => k = Whole
  BY <1>1 DEF StepperAssumption, Waiting, Least
<1>4. QED
  BY <1>1, <1>2, <1>3 DEF Reached, StepperAssumption

\* The guess of CALC_STEP: with k parts begun and the length of the header as
\* they left it, the tasks made bring the tasks waiting to what they have to be
\* for the next part.
LEMMA GuessRight ==
  ASSUME StepperAssumption, srcLength \in Nat, NEW k \in Nat, k < Whole, ap.dest = Reached(k)
  PROVE  StepNCreate \in Nat /\ StepNCreate + Waiting(k) - 1 = Waiting(k + 1)
<1>1. Whole \in Nat /\ First \in 0 .. ChunkSize - 1 /\ srcLength = First + Whole * ChunkSize
  BY PartsFit DEF StepperAssumption, Reached
<1>2. task_num = k
  BY <1>1, Divided DEF task_num, Reached, StepperAssumption
<1>3. remaining_tasks = Whole - k
  <2>1. srcLength - ap.dest = (Whole - k) * ChunkSize /\ srcLength >= ap.dest
        /\ srcLength \in Nat /\ ap.dest \in Nat
    <3>1. (Whole - k) * ChunkSize = Whole * ChunkSize - k * ChunkSize
      BY <1>1 DEF StepperAssumption
    <3>2. k * ChunkSize <= Whole * ChunkSize /\ k * ChunkSize \in Nat /\ Whole * ChunkSize \in Nat
      BY <1>1, Product DEF StepperAssumption
    <3>3. QED
      BY <1>1, <3>1, <3>2 DEF Reached
  <2>2. Minus32(srcLength, ap.dest) = (Whole - k) * ChunkSize
    BY <2>1 DEF Minus32
  <2>3. QED
    BY <1>1, <2>2, DividedMultiple DEF remaining_tasks, StepperAssumption
<1>4. max_pending = (task_fanout - 1) * k + 1
  BY <1>2 DEF max_pending
<1>5. k = 0 => max_pending = 1
  BY <1>4 DEF StepperAssumption
<1>6. k # 0 => max_pending >= task_fanout /\ max_pending \in Int
  BY <1>4, Fanout DEF StepperAssumption
<1>7. pending = Waiting(k) /\ pending \in Nat \ {0}
  BY <1>1, <1>3, <1>5, <1>6 DEF pending, Waiting, Least, StepperAssumption
<1>8. StepNCreate = Least(Whole - k, task_fanout + 1) - Waiting(k)
  BY <1>1, <1>3, <1>7 DEF StepNCreate, Waiting, Least, Minus32, StepperAssumption
<1>9. QED
  BY <1>1, <1>8 DEF Waiting, Least, StepperAssumption

-----------------------------------------------------------------------------
(* The invariant holds. *)

LEMMA ChunkInvInit == StepperAssumption /\ ChunkInit => ChunkInv
BY DEF ChunkInit, ChunkInv, ChunkTypes, NotBegun, NoTrace, ApStates

\* What every step below starts from.
LEMMA BegunStep ==
  ASSUME StepperAssumption, ChunkInv, srcLength # -1
  PROVE  /\ srcLength \in Nat /\ ChunkTypes /\ Begun
         /\ Whole \in Nat /\ First \in Nat
BY PartsFit DEF ChunkInv, ChunkTypes

LEMMA TraceArrayKeeps ==
  ASSUME StepperAssumption, ChunkInv, NEW n \in ArrayLengths, TraceArray(n)
  PROVE  ChunkInv'
<1>1. n \in Nat /\ n % ChunkSize \in Nat /\ n \div ChunkSize \in Nat
  BY Dividing DEF StepperAssumption
<1>2. ChunkTypes /\ NotBegun
  BY DEF ChunkInv, TraceArray
<1>3. ChunkTypes'
  BY <1>1, <1>2 DEF TraceArray, ChunkTypes, NoTrace
<1>4. srcLength' = n /\ Whole' = n \div ChunkSize /\ First' = n % ChunkSize
  BY DEF TraceArray, Whole, First
<1>5. /\ ap'.pc = "IDLE" /\ queue' = 0 /\ parts' = 0 /\ scanned' = {}
      /\ chunkTrace'.pc = "DISPATCH" /\ chunkTrace'.kind = "array" /\ chunkTrace'.start = 0
      /\ chunkTrace'.step = First' /\ chunkTrace'.length = srcLength'
  BY <1>2, <1>4 DEF TraceArray, NotBegun, NoTrace
<1>6. TasksCounted'
  <2>1. Held' = 0 /\ ToMake' = Least(1, Whole)'
    BY <1>5 DEF Held, ToMake, OfArray, OfPart
  <2>2. Waiting(parts)' = Least(1, Whole)'
    BY <1>5 DEF Waiting
  <2>3. Least(1, Whole)' \in Nat
    BY <1>1, <1>4 DEF Least
  <2>4. QED
    BY <1>5, <2>1, <2>2, <2>3 DEF TasksCounted
<1>7. Calculated' /\ Tracing'
  BY <1>5 DEF Calculated, Tracing, OfArray, OfPart
<1>8. QED
  BY <1>1, <1>3, <1>4, <1>5, <1>6, <1>7 DEF ChunkInv, Begun

LEMMA DispatchKeeps ==
  ASSUME StepperAssumption, ChunkInv, DispatchChunk
  PROVE  ChunkInv'
<1>1. srcLength # -1
  BY DEF ChunkInv, NotBegun, DispatchChunk, ChAt
<1>2. /\ srcLength \in Nat /\ ChunkTypes /\ Begun /\ Whole \in Nat /\ First \in Nat
  BY <1>1, BegunStep
<1>3. Whole' = Whole /\ First' = First /\ srcLength' = srcLength
      /\ \A k : Waiting(k)' = Waiting(k) /\ Reached(k)' = Reached(k)
  BY DEF DispatchChunk, Whole, First, Waiting, Reached
<1>4. CASE OfPart
  <2>1. /\ chunkTrace' = [chunkTrace EXCEPT !.pc = "PREPARE_ARRAY"]
        /\ destLength' = chunkTrace.length /\ parts' = parts + 1
        /\ ap' = ap /\ queue' = queue /\ scanned' = scanned /\ chunkTrace.pc = "DISPATCH"
    BY <1>4 DEF DispatchChunk, OfPart, ChAt
  <2>2. ap.pc = "WAIT_TRACE_DONE" /\ queue + 1 = Waiting(parts)
    BY <1>2, <1>4, <2>1 DEF Begun, Tracing, TasksCounted, Held, ToMake, OfPart, OfArray, ChunkTypes
  <2>3. parts < Whole /\ Reached(parts + 1) \in Nat /\ Reached(parts) \in Nat
    <3>1. parts \in Nat /\ parts + 1 \in Nat /\ parts <= Whole /\ queue \in Nat
      BY <1>2 DEF Begun, ChunkTypes
    <3>2. QED
      BY <1>2, <2>2, <3>1, PartFits
  <2>4. ChunkTypes'
    BY <1>2, <1>3, <2>1 DEF ChunkTypes
  <2>5. OfPart' /\ ~OfArray' /\ chunkTrace'.pc = "PREPARE_ARRAY" /\ ap'.pc = "WAIT_TRACE_DONE"
    BY <1>2, <1>4, <2>1, <2>2 DEF OfPart, OfArray, ChunkTypes
  <2>6. TasksCounted'
    <3>1. Held' = 0 /\ ToMake' = chunkTrace.ncreate
      BY <1>2, <1>4, <2>1, <2>5 DEF Held, ToMake, Begun, Tracing, ChunkTypes
    <3>2. queue' + chunkTrace.ncreate = Waiting(parts + 1)
      BY <1>2, <1>4, <2>1, <2>2, PartFits, SMTT(30) DEF Begun, Tracing, ChunkTypes
    <3>3. QED
      BY <1>2, <1>3, <2>1, <3>1, <3>2 DEF TasksCounted, ChunkTypes
  <2>7. Calculated' /\ Tracing'
    BY <1>2, <1>3, <1>4, <2>1, <2>3, <2>5 DEF Calculated, Tracing, Begun, ChunkTypes
  <2>8. QED
    BY <1>2, <1>3, <2>1, <2>3, <2>4, <2>6, <2>7 DEF ChunkInv, Begun, ChunkTypes
<1>5. CASE ~OfPart
  <2>1. /\ chunkTrace' = [chunkTrace EXCEPT !.pc = "PREPARE_ARRAY"]
        /\ destLength' = chunkTrace.step /\ parts' = parts
        /\ ap' = ap /\ queue' = queue /\ scanned' = scanned /\ chunkTrace.pc = "DISPATCH"
    BY <1>5 DEF DispatchChunk, OfPart, ChAt
  <2>2. OfArray
    BY <1>2, <1>5, <2>1 DEF Begun, Tracing, OfArray, OfPart, ChunkTypes
  <2>3. ChunkTypes'
    BY <1>2, <1>3, <2>1 DEF ChunkTypes
  <2>4. ~OfPart' /\ OfArray' /\ chunkTrace'.pc = "PREPARE_ARRAY"
    BY <1>2, <2>1, <2>2 DEF OfPart, OfArray, ChunkTypes
  <2>5. TasksCounted'
    <3>1. Held = 0 /\ Held' = 0
      BY <1>2, <2>1, <2>2, <2>4 DEF Held, Begun, Tracing
    <3>2. ToMake = Least(1, Whole) /\ ToMake' = Least(1, Whole)
      BY <1>3, <1>5, <2>1, <2>2, <2>4 DEF ToMake, Least
    <3>3. QED
      BY <1>2, <1>3, <2>1, <3>1, <3>2 DEF TasksCounted, Begun
  <2>6. destLength' = Reached(parts)
    BY <1>2, <2>1, <2>2 DEF Reached, Begun, Tracing, StepperAssumption
  <2>7. Calculated' /\ Tracing'
    BY <1>2, <1>3, <2>1, <2>2, <2>4, <2>6 DEF Calculated, Tracing, Begun, ChunkTypes
  <2>8. QED
    BY <1>2, <1>3, <2>1, <2>3, <2>5, <2>7 DEF ChunkInv, Begun, ChunkTypes
<1>6. QED
  BY <1>4, <1>5

LEMMA PrepareKeeps ==
  ASSUME StepperAssumption, ChunkInv, PrepareChunk
  PROVE  ChunkInv'
<1>1. srcLength # -1 /\ chunkTrace.pc = "PREPARE_ARRAY"
  BY DEF ChunkInv, NotBegun, PrepareChunk, ChAt
<1>2. /\ srcLength \in Nat /\ ChunkTypes /\ Begun /\ Whole \in Nat /\ First \in Nat
  BY <1>1, BegunStep
<1>3. Whole' = Whole /\ First' = First /\ srcLength' = srcLength /\ parts' = parts
      /\ ap' = ap /\ destLength' = destLength /\ scanned' = scanned
      /\ \A k : Waiting(k)' = Waiting(k) /\ Reached(k)' = Reached(k)
  BY DEF PrepareChunk, Whole, First, Waiting, Reached
<1>4. OfArray \/ OfPart
  BY <1>1, <1>2 DEF Begun, Tracing, ChunkTypes, OfArray, OfPart
<1>5. CASE OfPart /\ chunkTrace.created < chunkTrace.ncreate
  <2>1. queue' = queue + 1 /\ chunkTrace' = [chunkTrace EXCEPT !.created = @ + 1]
    BY <1>5 DEF PrepareChunk, OfPart
  <2>2. ChunkTypes'
    BY <1>2, <1>3, <2>1 DEF ChunkTypes
  <2>3. OfPart' /\ ~OfArray' /\ chunkTrace'.pc = "PREPARE_ARRAY" /\ ~OfArray
    BY <1>1, <1>2, <1>5, <2>1 DEF OfPart, OfArray, ChunkTypes
  <2>4. TasksCounted'
    BY <1>1, <1>2, <1>3, <1>5, <2>1, <2>3 DEF TasksCounted, Held, ToMake, Begun, ChunkTypes, OfPart
  <2>5. Calculated'
    BY <1>1, <1>2, <1>3, <1>5, <2>1, <2>3 DEF Calculated, Begun, ChunkTypes
  <2>7. Tracing'
    <3>1. chunkTrace.created + 1 <= chunkTrace.ncreate
      BY <1>2, <1>5 DEF ChunkTypes
    <3>2. chunkTrace'.created = chunkTrace.created + 1 /\ chunkTrace'.ncreate = chunkTrace.ncreate
          /\ chunkTrace'.start = chunkTrace.start /\ chunkTrace'.step = chunkTrace.step
          /\ chunkTrace'.pc = chunkTrace.pc /\ chunkTrace'.kind = chunkTrace.kind
      BY <1>2, <2>1 DEF ChunkTypes
    <3>3. QED
      BY <1>1, <1>2, <1>3, <2>3, <3>1, <3>2, <1>5 DEF Tracing, Begun
  <2>8. QED
    BY <1>2, <1>3, <2>2, <2>4, <2>5, <2>7 DEF ChunkInv, Begun
<1>6. CASE OfPart /\ ~(chunkTrace.created < chunkTrace.ncreate)
  <2>1. queue' = queue /\ chunkTrace' = [chunkTrace EXCEPT !.pc = "SCAN_FORWARD"]
    BY <1>6 DEF PrepareChunk, OfPart
  <2>2. ChunkTypes'
    BY <1>2, <1>3, <2>1 DEF ChunkTypes
  <2>3. OfPart' /\ ~OfArray' /\ chunkTrace'.pc = "SCAN_FORWARD" /\ ~OfArray
    BY <1>1, <1>2, <1>6, <2>1 DEF OfPart, OfArray, ChunkTypes
  <2>4. chunkTrace.ncreate - chunkTrace.created = 0
    BY <1>1, <1>2, <1>6 DEF Begun, Tracing, ChunkTypes
  <2>5. TasksCounted'
    BY <1>1, <1>2, <1>3, <1>6, <2>1, <2>3, <2>4 DEF TasksCounted, Held, ToMake, Begun, ChunkTypes
  <2>6. Calculated' /\ Tracing'
    BY <1>1, <1>2, <1>3, <1>6, <2>1, <2>3 DEF Calculated, Tracing, Begun, ChunkTypes
  <2>7. QED
    BY <1>2, <1>3, <2>2, <2>5, <2>6 DEF ChunkInv, Begun
<1>7. CASE OfArray
  <2>1. queue = 0 /\ ap.pc = "IDLE" /\ chunkTrace.length = srcLength /\ chunkTrace.step = First
    BY <1>1, <1>2, <1>7 DEF Begun, Tracing
  <2>2. chunkTrace.length > chunkTrace.step <=> Whole > 0
    BY <1>2, <2>1, PartsFit DEF Reached, StepperAssumption
  <2>3. /\ queue' = Least(1, Whole)
        /\ chunkTrace' = [chunkTrace EXCEPT !.pc = "SCAN_FORWARD"]
    BY <1>2, <1>7, <2>1, <2>2 DEF PrepareChunk, OfArray, Least
  <2>4. ChunkTypes'
    BY <1>2, <1>3, <2>3 DEF ChunkTypes, Least
  <2>5. ~OfPart' /\ OfArray' /\ chunkTrace'.pc = "SCAN_FORWARD" /\ ~OfPart
    BY <1>1, <1>2, <1>7, <2>3 DEF OfPart, OfArray, ChunkTypes
  <2>6. TasksCounted'
    BY <1>1, <1>2, <1>3, <1>7, <2>1, <2>3, <2>5
    DEF TasksCounted, Held, ToMake, Begun, Tracing, ChunkTypes, Waiting, Least
  <2>7. Calculated' /\ Tracing'
    BY <1>1, <1>2, <1>3, <1>7, <2>1, <2>3, <2>5 DEF Calculated, Tracing, Begun, ChunkTypes
  <2>8. QED
    BY <1>2, <1>3, <2>4, <2>6, <2>7 DEF ChunkInv, Begun
<1>8. QED
  BY <1>4, <1>5, <1>6, <1>7

LEMMA ScanKeeps ==
  ASSUME StepperAssumption, ChunkInv, ScanChunk
  PROVE  ChunkInv'
<1>1. srcLength # -1 /\ chunkTrace.pc = "SCAN_FORWARD"
  BY DEF ChunkInv, NotBegun, ScanChunk, ChAt
<1>2. /\ srcLength \in Nat /\ ChunkTypes /\ Begun /\ Whole \in Nat /\ First \in Nat
  BY <1>1, BegunStep
<1>3. Whole' = Whole /\ First' = First /\ srcLength' = srcLength /\ parts' = parts
      /\ queue' = queue /\ destLength' = destLength /\ parts \in Nat /\ parts <= Whole
      /\ \A k : Waiting(k)' = Waiting(k) /\ Reached(k)' = Reached(k)
  BY <1>2 DEF ScanChunk, Whole, First, Waiting, Reached, Begun, ChunkTypes
<1>4. OfArray \/ OfPart
  BY <1>1, <1>2 DEF Begun, Tracing, ChunkTypes, OfArray, OfPart
<1>5. /\ chunkTrace'.pc = "IDLE" /\ chunkTrace'.kind = "none"
      /\ scanned' = scanned \union Range
      /\ ap' = IF OfPart THEN [ap EXCEPT !.pc = "IDLE"] ELSE ap
  BY DEF ScanChunk, NoTrace, OfPart
<1>6. ~OfPart' /\ ~OfArray'
  BY <1>5 DEF OfPart, OfArray
<1>7. chunkTrace.step = Reached(parts) /\ chunkTrace.start <= Reached(parts)
  <2>1. CASE OfArray
    BY <1>2, <1>3, <2>1 DEF Begun, Tracing, Reached, StepperAssumption
  <2>2. CASE OfPart
    <3>1. parts - 1 \in Nat /\ chunkTrace.start = Reached(parts - 1) /\ chunkTrace.step = Reached(parts)
      BY <1>1, <1>2, <1>3, <2>2 DEF Begun, Tracing
    <3>2. Reached(parts - 1 + 1) = Reached(parts - 1) + ChunkSize /\ Reached(parts - 1) \in Nat
      BY <1>2, <3>1, PartFits
    <3>3. QED
      BY <1>3, <3>1, <3>2 DEF StepperAssumption
  <2>3. QED
    BY <1>4, <2>1, <2>2
<1>8. scanned' = 0 .. Reached(parts) - 1
  <2>1. scanned = 0 .. chunkTrace.start - 1 /\ chunkTrace.start \in Nat
    BY <1>1, <1>2 DEF Begun, Tracing, ChunkTypes
  <2>2. Reached(parts) \in Nat
    BY <1>2, <1>3, PartFits
  <2>3. QED
    BY <1>5, <1>7, <2>1, <2>2 DEF Range
<1>9. /\ ap'.pc = (IF OfPart THEN "IDLE" ELSE ap.pc) /\ ap'.dest = ap.dest /\ ap'.step = ap.step
      /\ ap'.ncreate = ap.ncreate
  BY <1>2, <1>5 DEF ChunkTypes
<1>10. ChunkTypes'
  <2>1. Reached(parts) \in Nat
    BY <1>2, <1>3, PartFits
  <2>2. scanned' \subseteq Nat
    BY <1>8, <2>1
  <2>3. QED
    BY <1>2, <1>3, <1>5, <2>2 DEF ChunkTypes, ScanChunk, NoTrace, ApStates
<1>11. OfPart <=> ap.pc = "WAIT_TRACE_DONE"
  BY <1>2 DEF Begun, Tracing
<1>12. TasksCounted'
  <2>1. Held' = Held /\ ToMake' = 0 /\ ToMake = 0
    BY <1>1, <1>5, <1>6, <1>9, <1>11 DEF Held, ToMake
  <2>2. QED
    BY <1>2, <1>3, <2>1 DEF TasksCounted, Begun
<1>13. Calculated'
  BY <1>2, <1>3, <1>9 DEF Calculated, Begun
<1>14. Tracing'
  BY <1>1, <1>2, <1>3, <1>5, <1>6, <1>8, <1>9, <1>11 DEF Tracing, Begun
<1>15. QED
  BY <1>2, <1>3, <1>10, <1>12, <1>13, <1>14 DEF ChunkInv, Begun

\* What a step of GCArrayProcess that only moves its registers, and takes a task
\* from the queue as it becomes busy, has to show.
LEMMA ApStepKeeps ==
  ASSUME StepperAssumption, ChunkInv, srcLength # -1,
         UNCHANGED <<chunkTrace, srcLength, destLength, parts, scanned>>,
         ap' \in [pc : ApStates, dest : Nat, step : Nat, ncreate : Nat], queue' \in Nat,
         ~OfPart, ~OfArray \/ chunkTrace.pc = "SCAN_FORWARD",
         ap'.pc \notin {"IDLE", "WAIT_TRACE_DONE"},
         queue' = IF ap.pc = "IDLE" THEN queue - 1 ELSE queue,
         ap'.pc \in {"CALC_STEP", "LOOKUP_HEAP_REG", "SEND_TRACE"} => ap'.dest = Reached(parts),
         ap'.pc \in {"LOOKUP_HEAP_REG", "SEND_TRACE"} =>
           ap'.step = Reached(parts + 1) /\ ap'.ncreate + Waiting(parts) - 1 = Waiting(parts + 1)
  PROVE  ChunkInv'
<1>1. /\ srcLength \in Nat /\ ChunkTypes /\ Begun /\ Whole \in Nat /\ First \in Nat
  BY BegunStep
<1>2. Whole' = Whole /\ First' = First
      /\ \A k : Waiting(k)' = Waiting(k) /\ Reached(k)' = Reached(k)
  BY DEF Whole, First, Waiting, Reached
<1>3. ChunkTypes'
  BY <1>1 DEF ChunkTypes
<1>4. ~OfPart' /\ OfArray' = OfArray /\ ap.pc # "WAIT_TRACE_DONE"
  BY <1>1 DEF OfPart, OfArray, Begun, Tracing
<1>5. TasksCounted'
  <2>1. ToMake = 0 /\ ToMake' = 0
    BY <1>4 DEF ToMake, OfPart, OfArray
  <2>2. Held' = 1 /\ Held = IF ap.pc = "IDLE" THEN 0 ELSE 1
    BY <1>4 DEF Held
  <2>3. QED
    BY <1>1, <1>2, <2>1, <2>2 DEF TasksCounted, Begun, ChunkTypes
<1>6. Calculated'
  BY <1>2 DEF Calculated
<1>7. Tracing'
  BY <1>1, <1>2, <1>4 DEF Tracing, Begun
<1>8. QED
  BY <1>1, <1>2, <1>3, <1>5, <1>6, <1>7 DEF ChunkInv, Begun

\* Where GCArrayProcess has a task that has not begun.
LEMMA ApBusy ==
  ASSUME StepperAssumption, ChunkInv, ap.pc \notin {"IDLE", "WAIT_TRACE_DONE"}
  PROVE  /\ srcLength \in Nat /\ ChunkTypes /\ Begun /\ ~OfPart
         /\ ~OfArray \/ chunkTrace.pc = "SCAN_FORWARD"
         /\ destLength = Reached(parts) /\ parts < Whole
<1>1. srcLength # -1
  BY DEF ChunkInv, NotBegun
<1>2. srcLength \in Nat /\ ChunkTypes /\ Begun /\ Whole \in Nat
  BY <1>1, BegunStep
<1>3. ~OfPart /\ (~OfArray \/ chunkTrace.pc = "SCAN_FORWARD") /\ destLength = Reached(parts)
  BY <1>2 DEF Begun, Tracing, ChunkTypes
<1>4. Held = 1 /\ ToMake = 0
  BY <1>3 DEF Held, ToMake
<1>5. queue + 1 = Waiting(parts) /\ parts \in Nat /\ queue \in Nat /\ parts <= Whole
  BY <1>2, <1>4 DEF Begun, TasksCounted, ChunkTypes
<1>6. QED
  BY <1>2, <1>3, <1>5, PartFits

LEMMA TakeKeeps == ASSUME StepperAssumption, ChunkInv, TakeChunkTask PROVE ChunkInv'
<1>1. srcLength # -1
  BY DEF ChunkInv, NotBegun, TakeChunkTask
<1>2. ChunkTypes /\ Begun
  BY <1>1, BegunStep
<1>3. ~OfPart /\ (~OfArray \/ chunkTrace.pc = "SCAN_FORWARD")
  BY <1>2 DEF TakeChunkTask, ApAt, Begun, Tracing, ChunkTypes
<1>4. /\ ap' \in [pc : ApStates, dest : Nat, step : Nat, ncreate : Nat]
      /\ ap'.pc \in {"READ_DEST_LEN", "WAIT_FORWARD"} /\ queue' \in Nat
  BY <1>2 DEF TakeChunkTask, ApGoto, ChunkTypes, ApStates
<1>5. QED
  BY <1>1, <1>3, <1>4, ApStepKeeps DEF TakeChunkTask, ApAt, arrayVars

LEMMA AnnounceKeeps == ASSUME StepperAssumption, ChunkInv, Announce PROVE ChunkInv'
<1>1. CASE ap.pc = "WAIT_FORWARD"
  <2>1. /\ srcLength \in Nat /\ ChunkTypes /\ ~OfPart /\ (~OfArray \/ chunkTrace.pc = "SCAN_FORWARD")
    BY <1>1, ApBusy
  <2>2. /\ ap' \in [pc : ApStates, dest : Nat, step : Nat, ncreate : Nat]
        /\ ap'.pc = "READ_DEST_LEN" /\ queue' = queue /\ queue \in Nat
    BY <1>1, <2>1 DEF Announce, ApAt, ApGoto, ChunkTypes, ApStates
  <2>3. QED
    BY <1>1, <2>1, <2>2, ApStepKeeps DEF Announce, arrayVars
<1>2. CASE ap.pc # "WAIT_FORWARD"
  <2>1. UNCHANGED <<ap, chunkTrace, srcLength, destLength, queue, parts, scanned>>
    BY <1>2 DEF Announce, ApAt, arrayVars
  <2>2. QED
    BY <2>1 DEF ChunkInv, ChunkTypes, NotBegun, Begun, TasksCounted, Calculated, Tracing, Held, ToMake,
                OfArray, OfPart, Whole, First, Reached, Waiting
<1>3. QED
  BY <1>1, <1>2

LEMMA ReadDestLenKeeps == ASSUME StepperAssumption, ChunkInv, ReadDestLen PROVE ChunkInv'
<1>1. /\ srcLength \in Nat /\ ChunkTypes /\ ~OfPart /\ (~OfArray \/ chunkTrace.pc = "SCAN_FORWARD")
      /\ destLength = Reached(parts)
  BY ApBusy DEF ReadDestLen, ApAt
<1>2. /\ ap' \in [pc : ApStates, dest : Nat, step : Nat, ncreate : Nat]
      /\ ap'.pc = "CALC_STEP" /\ ap'.dest = destLength /\ queue' = queue /\ queue \in Nat
  BY <1>1 DEF ReadDestLen, ChunkTypes, ApStates
<1>3. QED
  BY <1>1, <1>2, ApStepKeeps DEF ReadDestLen, ApAt, arrayVars

LEMMA CalcStepKeeps == ASSUME StepperAssumption, ChunkInv, CalcStep PROVE ChunkInv'
<1>1. /\ srcLength \in Nat /\ ChunkTypes /\ Begun /\ ~OfPart
      /\ ~OfArray \/ chunkTrace.pc = "SCAN_FORWARD"
      /\ parts < Whole /\ parts \in Nat
  BY ApBusy DEF CalcStep, ApAt, ChunkTypes
<1>2. ap.dest = Reached(parts)
  BY <1>1 DEF CalcStep, ApAt, Begun, Calculated
<1>3. StepNCreate \in Nat /\ StepNCreate + Waiting(parts) - 1 = Waiting(parts + 1)
  BY <1>1, <1>2, GuessRight
<1>4. Reached(parts + 1) = Reached(parts) + ChunkSize /\ Reached(parts) \in Nat
  BY <1>1, PartFits
<1>5. /\ ap' \in [pc : ApStates, dest : Nat, step : Nat, ncreate : Nat]
      /\ ap'.pc = "LOOKUP_HEAP_REG" /\ ap'.dest = Reached(parts) /\ ap'.step = Reached(parts + 1)
      /\ ap'.ncreate = StepNCreate /\ queue' = queue /\ queue \in Nat
  <2>1. /\ ap \in [pc : ApStates, dest : Nat, step : Nat, ncreate : Nat] /\ queue \in Nat
        /\ ChunkSize \in Nat
    BY <1>1 DEF ChunkTypes, StepperAssumption
  <2>2. ap' = [ap EXCEPT !.pc = "LOOKUP_HEAP_REG", !.ncreate = StepNCreate,
                         !.step = ap.dest + ChunkSize] /\ queue' = queue
    BY DEF CalcStep
  <2>3. ap.dest + ChunkSize \in Nat /\ ap.dest + ChunkSize = Reached(parts + 1)
    BY <1>2, <1>4, <2>1
  <2>4. QED
    BY <1>2, <1>3, <2>1, <2>2, <2>3 DEF ApStates
<1>6. QED
  BY <1>1, <1>3, <1>5, ApStepKeeps DEF CalcStep, ApAt, arrayVars

LEMMA LookupKeeps == ASSUME StepperAssumption, ChunkInv, LookupHeapRegion PROVE ChunkInv'
<1>1. /\ srcLength \in Nat /\ ChunkTypes /\ Begun /\ ~OfPart
      /\ ~OfArray \/ chunkTrace.pc = "SCAN_FORWARD"
  BY ApBusy DEF LookupHeapRegion, ApAt
<1>2. /\ ap' \in [pc : ApStates, dest : Nat, step : Nat, ncreate : Nat]
      /\ ap'.pc = "SEND_TRACE" /\ ap'.dest = ap.dest /\ ap'.step = ap.step /\ ap'.ncreate = ap.ncreate
      /\ queue' = queue /\ queue \in Nat
  BY <1>1 DEF LookupHeapRegion, ApGoto, ChunkTypes, ApStates
<1>3. QED
  BY <1>1, <1>2, ApStepKeeps DEF LookupHeapRegion, ApAt, arrayVars, Begun, Calculated

LEMMA SendTraceKeeps == ASSUME StepperAssumption, ChunkInv, SendTrace PROVE ChunkInv'
<1>1. /\ srcLength \in Nat /\ ChunkTypes /\ Begun /\ parts < Whole /\ parts \in Nat
      /\ ap.pc = "SEND_TRACE" /\ chunkTrace.pc = "IDLE"
  BY ApBusy DEF SendTrace, ApAt, ChAt, ChunkTypes
<1>2. Whole' = Whole /\ First' = First /\ srcLength' = srcLength /\ parts' = parts
      /\ queue' = queue /\ destLength' = destLength /\ scanned' = scanned
      /\ \A k : Waiting(k)' = Waiting(k) /\ Reached(k)' = Reached(k)
  BY DEF SendTrace, arrayVars, Whole, First, Waiting, Reached
<1>3. /\ Reached(parts + 1) = Reached(parts) + ChunkSize /\ Reached(parts) \in Nat
      /\ Reached(parts + 1) \in Nat
  BY <1>1, PartFits DEF StepperAssumption
<1>4. /\ ap.dest = Reached(parts) /\ ap.step = Reached(parts + 1)
      /\ ap.ncreate + Waiting(parts) - 1 = Waiting(parts + 1)
  BY <1>1 DEF Begun, Calculated
<1>5. /\ chunkTrace'.pc = "DISPATCH" /\ chunkTrace'.kind = "partial"
      /\ chunkTrace'.start = Reached(parts) /\ chunkTrace'.step = Reached(parts + 1)
      /\ chunkTrace'.length = Reached(parts + 1) /\ chunkTrace'.created = 0
      /\ chunkTrace'.ncreate = ap.ncreate /\ ap'.pc = "WAIT_TRACE_DONE"
  BY <1>1, <1>3, <1>4 DEF SendTrace, ApGoto, NoTrace, ChunkTypes
<1>6. ChunkTypes'
  BY <1>1, <1>2, <1>3, <1>4 DEF ChunkTypes, SendTrace, ApGoto, NoTrace, ApStates, StepperAssumption
<1>7. OfPart' /\ ~OfArray' /\ ~OfPart /\ ~OfArray
  BY <1>1, <1>5 DEF OfPart, OfArray, Begun, Tracing
<1>8. TasksCounted'
  <2>1. Held = 1 /\ Held' = 1 /\ ToMake = 0 /\ ToMake' = 0
    BY <1>1, <1>5, <1>7 DEF Held, ToMake
  <2>2. QED
    BY <1>1, <1>2, <2>1 DEF TasksCounted, Begun
<1>9. Calculated'
  BY <1>5 DEF Calculated
<1>10. Tracing'
  BY <1>1, <1>2, <1>4, <1>5, <1>7 DEF Tracing, Begun
<1>11. QED
  BY <1>1, <1>2, <1>6, <1>8, <1>9, <1>10 DEF ChunkInv, Begun

LEMMA ChunkInvStep == StepperAssumption /\ ChunkInv /\ [ChunkNext]_chunkVars => ChunkInv'
<1> SUFFICES ASSUME StepperAssumption, ChunkInv, [ChunkNext]_chunkVars PROVE ChunkInv'
  OBVIOUS
<1>1. CASE UNCHANGED chunkVars
  BY <1>1 DEF chunkVars, ChunkInv, ChunkTypes, NotBegun, Begun, TasksCounted, Calculated, Tracing, Held,
              ToMake, OfArray, OfPart, Whole, First, Reached, Waiting
<1>2. CASE ChunkMachine
  BY <1>2, DispatchKeeps, PrepareKeeps, ScanKeeps, TakeKeeps, AnnounceKeeps, ReadDestLenKeeps,
     CalcStepKeeps, LookupKeeps, SendTraceKeeps DEF ChunkMachine
<1>3. CASE \E n \in ArrayLengths : TraceArray(n)
  BY <1>3, TraceArrayKeeps
<1>4. QED
  BY <1>1, <1>2, <1>3 DEF ChunkNext

LEMMA ChunkInvShows == StepperAssumption /\ ChunkInv => ChunksOnce
<1> SUFFICES ASSUME StepperAssumption, ChunkInv PROVE ChunksOnce
  OBVIOUS
<1>1. CASE srcLength = -1
  BY <1>1 DEF ChunkInv, NotBegun, ChunksOnce, ChAt, ArrayDone
<1>2. CASE srcLength # -1
  <2>1. /\ srcLength \in Nat /\ ChunkTypes /\ Begun /\ Whole \in Nat /\ First \in Nat
        /\ parts \in Nat /\ parts <= Whole /\ queue \in Nat
    BY <1>2, BegunStep DEF Begun, ChunkTypes
  <2>2. Reached(parts) <= srcLength /\ Reached(parts) \in Nat
    BY <2>1, PartFits
  <2>3. ChAt("SCAN_FORWARD") => Range \cap scanned = {} /\ Range \subseteq 0 .. srcLength - 1
    <3> HAVE ChAt("SCAN_FORWARD")
    <3>1. chunkTrace.start \in Nat /\ scanned = 0 .. chunkTrace.start - 1
      BY <2>1 DEF ChAt, Begun, Tracing, ChunkTypes
    <3>2. OfArray \/ OfPart
      BY <2>1 DEF ChAt, Begun, Tracing, ChunkTypes, OfArray, OfPart
    <3>3. chunkTrace.step \in Nat /\ chunkTrace.step <= srcLength
      <4>1. CASE OfArray
        BY <2>1, <4>1, PartsFit, PartFits DEF Begun, Tracing, Reached, StepperAssumption
      <4>2. CASE OfPart
        BY <2>1, <2>2, <4>2 DEF ChAt, Begun, Tracing
      <4>3. QED
        BY <3>2, <4>1, <4>2
    <3>4. QED
      BY <2>1, <3>1, <3>3 DEF Range
  <2>4. Held \in Nat /\ ToMake \in Nat
    BY <2>1 DEF Held, ToMake, Least, Begun, Tracing, ChunkTypes
  <2>5. queue <= Whole - parts /\ Waiting(parts) \in Nat
    BY <2>1, <2>4, PartFits DEF Begun, TasksCounted
  <2>6. ChunkSize * (parts + queue) <= srcLength
    <3>1. (parts + queue) * ChunkSize <= Whole * ChunkSize
      BY <2>1, <2>5, Product DEF StepperAssumption
    <3>2. Whole * ChunkSize <= srcLength
      BY <2>1, PartsFit DEF Reached, StepperAssumption
    <3>3. QED
      BY <2>1, <3>1, <3>2 DEF StepperAssumption
  <2>7. ArrayDone => scanned = 0 .. srcLength - 1
    <3> HAVE ArrayDone
    <3>1. queue = 0 /\ Held = 0 /\ ToMake = 0 /\ scanned = 0 .. Reached(parts) - 1
      BY <2>1 DEF ArrayDone, ApAt, ChAt, Held, ToMake, Begun, Tracing
    <3>2. parts = Whole
      BY <2>1, <3>1, PartFits DEF Begun, TasksCounted
    <3>3. QED
      BY <2>1, <3>1, <3>2, PartsFit
  <2>8. QED
    BY <2>3, <2>6, <2>7 DEF ChunksOnce
<1>3. QED
  BY <1>1, <1>2

-----------------------------------------------------------------------------
\* Every element of an array is scanned once, by as many tasks as there are
\* parts, though how many are on their way is guessed from the length found.
THEOREM PartsOfArray == ChunkSpec => []ChunksOnce
<1>1. ChunkInit => ChunkInv
  BY ChunkInvInit, StepperAssumption
<1>2. ChunkInv /\ [ChunkNext]_chunkVars => ChunkInv'
  BY ChunkInvStep, StepperAssumption
<1>3. ChunkInv => ChunksOnce
  BY ChunkInvShows, StepperAssumption
<1>4. QED
  BY <1>1, <1>2, <1>3, PTL DEF ChunkSpec

-----------------------------------------------------------------------------
(***************************************************************************)
(* GCTrace.  Its invariant is an account: a field has been settled as      *)
(* often as it has been visited, and Left says how often it is still to be *)
(* visited from where the traversal stands.                                *)
(***************************************************************************)

\* The states of one field, and where the traversal goes on after it.
FieldStates == {"READ_OOP", "CHECK_OOP", "DECIDE_REGION", "CHECK_HUMONGOUS",
                "CLEAR_HUM_CANDIDATE", "MARK_HUM_REGION", "SEND_AOP"}
StartStates == {"DISPATCH", "READ_KLASS_LAYOUT", "PREPARE_ARRAY"}
ScanStates == {"SCAN_FORWARD", "SCAN_BACKWARD", "SCAN_OOP_MAP", "POST_INSTANCE_SCAN"}
RestStates == {"IDLE", "FINISH"}
TraceStates == FieldStates \cup StartStates \cup ScanStates \cup RestStates
Resumes == {"Forward", "Backward", "ReferenceFields"}
Mode == IF tr.pc \in FieldStates THEN ResumeState(tr.resume) ELSE tr.pc

Oops == {NullOop} \cup {Heap[a] : a \in Int}
AttrEntry == [region : {RegionOf(o) : o \in Oops}, attr : {"cset", "humongous", "other"}]
TraceRegs == [pc : TraceStates, job : TraceJobs \cup {NoJob}, p : Int, q : Int, remain : Int,
              off : Int, raw : Oops, attr : {"none", "cset", "humongous", "other"},
              resume : Resumes, ref : 0 .. 3, map : Nat, created : Nat]

TraceTyped ==
  /\ tr \in TraceRegs
  /\ heapWindow \in Int /\ pendingPush \in Items \cup {NoPush}
  /\ regionAttrCache \in Seq(AttrEntry)
  /\ humRegionCache \in Seq({RegionOf(o) : o \in Oops})
  /\ handed \in [Items -> Int] /\ carded \in [Items -> Int]
  /\ tr.job = NoJob => tr.pc = "IDLE"

\* How often a field is visited after the oop maps, from step ref on.
B(P) == IF P THEN 1 ELSE 0
After(j, ref, o) ==
  CASE j.kind = "mirror" -> B(o \in Span(Statics))
    [] j.kind = "ref" /\ o = discoveredField -> CASE ref = 0 -> 2 [] ref \in {1, 2} -> 1 [] OTHER -> 0
    [] j.kind = "ref" /\ o = referentField -> B(ref < 2)
    [] OTHER -> 0
InMaps(j, n, o) == \E k \in 1 .. n : o \in Span(OopMaps[j.klass][k])
Visits(j, o) == IF o \in Fields(j) THEN Times(j, o) ELSE 0
InRange(o) == tr.p <= o /\ o < tr.q

LeftFrom(m, o) ==
  CASE m \in StartStates -> Visits(tr.job, o)
    [] m = "SCAN_FORWARD" -> B(InRange(o))
    [] m = "SCAN_BACKWARD" -> B(InRange(o)) + B(InMaps(tr.job, tr.map, o)) + After(tr.job, 0, o)
    [] m = "SCAN_OOP_MAP" -> B(InMaps(tr.job, tr.map, o)) + After(tr.job, 0, o)
    [] m = "POST_INSTANCE_SCAN" -> After(tr.job, tr.ref, o)
    [] OTHER -> 0
Left(o) == LeftFrom(Mode, o) + B(tr.pc \in FieldStates /\ o = tr.off)

Out(i) == handed[i] + B(pendingPush = i)
Pointed(o, S) == o \in Fields(tr.job) /\ Target(tr.job, o) \in S
Leaves(o) == o \in Fields(tr.job) /\ Target(tr.job, o) \notin CsetOops \cup OwnOops \cup {NullOop}
Visited(o) == Visits(tr.job, o) - Left(o)

FieldItems == Items \ {ChunkTask}
Settled(r) == r \in regionMarked \ candidates
AccountOf(o) ==
  /\ Out(o) = IF Pointed(o, CsetOops) THEN Visited(o) ELSE 0
  /\ carded[o] = IF Leaves(o) /\ ~tr.job.young THEN Visited(o) ELSE 0
  /\ Pointed(o, DOMAIN HumongousAt) /\ Visited(o) # 0 => Settled(HumongousAt[Target(tr.job, o)])
Account == tr.job # NoJob => \A o \in FieldItems : AccountOf(o)

\* The tasks that ask for further parts of an array.
Made ==
  tr.job # NoJob =>
    /\ carded[ChunkTask] = 0
    /\ Out(ChunkTask) =
       CASE tr.pc \in {"DISPATCH", "READ_KLASS_LAYOUT"} -> 0
         [] tr.pc = "PREPARE_ARRAY" -> IF tr.job.kind = "partial" THEN tr.created ELSE 0
         [] OTHER -> ChunkTasks(tr.job)

\* Where the traversal can be, and that the range and the field are of the object.
Shape ==
  /\ Mode \in {"SCAN_FORWARD", "SCAN_BACKWARD"} =>
       \A o \in Int : InRange(o) => o \in Fields(tr.job)
  /\ tr.pc \in FieldStates => tr.off \in Fields(tr.job)
  /\ Mode = "SCAN_FORWARD" => tr.job.kind \in {"array", "partial", "mirror"}
  /\ Mode \in {"SCAN_BACKWARD", "SCAN_OOP_MAP", "POST_INSTANCE_SCAN"} =>
       ~IsArray /\ tr.map <= Len(OopMaps[tr.job.klass])
  /\ tr.pc \in {"DISPATCH", "PREPARE_ARRAY"} => tr.created = 0 \/ tr.pc = "PREPARE_ARRAY"
  /\ tr.pc = "READ_KLASS_LAYOUT" => ~IsArray
  /\ tr.pc = "PREPARE_ARRAY" =>
       IsArray /\ (tr.job.kind = "partial" => tr.created <= tr.job.ncreate)
  /\ tr.pc = "IDLE" => pendingPush = NoPush

\* What is known of the reference at hand.
RawKnown ==
  /\ tr.pc \in FieldStates \ {"READ_OOP"} => tr.raw = Target(tr.job, tr.off)
  /\ tr.pc \in FieldStates \ {"READ_OOP", "CHECK_OOP"} => tr.raw # NullOop
  /\ tr.pc = "DECIDE_REGION" =>
       /\ tr.attr # "none" /\ (tr.attr = "cset" <=> tr.raw \in CsetOops)
       /\ tr.attr = "other" /\ RegionOf(tr.raw) \in Humongous => RegionOf(tr.raw) \in regionMarked
  /\ tr.pc \in FieldStates \ {"READ_OOP", "CHECK_OOP", "DECIDE_REGION"} =>
       tr.raw \notin CsetOops \cup OwnOops
  /\ tr.pc = "SEND_AOP" /\ RegionOf(tr.raw) \in Humongous => Settled(RegionOf(tr.raw))
  /\ tr.pc = "CLEAR_HUM_CANDIDATE" => RegionOf(tr.raw) \in candidates
  /\ tr.pc = "MARK_HUM_REGION" => RegionOf(tr.raw) \notin candidates

\* What the caches say is so, and a region is marked when it is no candidate any
\* more, but for the region at hand.
AtHand(states) == IF tr.pc \in states THEN {RegionOf(tr.raw)} ELSE {}
CachesKnow ==
  /\ \A i \in DOMAIN regionAttrCache : LET e == regionAttrCache[i] IN
       /\ e.attr = "cset" <=> e.region \in CsetOops
       /\ e.attr = "other" /\ e.region \in Humongous => e.region \in regionMarked
  /\ \A i \in DOMAIN humRegionCache : humRegionCache[i] \in Humongous =>
       humRegionCache[i] \in regionMarked \cup AtHand({"CLEAR_HUM_CANDIDATE", "MARK_HUM_REGION"})
  /\ regionMarked \cap candidates = {}
  /\ Humongous \ candidates \subseteq regionMarked \cup AtHand({"MARK_HUM_REGION"})

TraceInv == TraceTyped /\ Shape /\ RawKnown /\ CachesKnow /\ Account /\ Made

(* The operators.                                                          *)

LEMMA TraceConstants ==
  /\ LineElems \in Nat \ {0}
  /\ RegionAttrCacheEntries \in Nat \ {0} /\ HumRegionCacheEntries \in Nat \ {0}
  /\ KlassCacheEntries \in Nat \ {0}
  /\ Statics \in [first : Nat, count : Nat]
  /\ discoveredField \in Nat /\ referentField \in Nat /\ discoveredField # referentField
  /\ NullOop \notin CsetOops /\ CsetOops \cap Humongous = {}
  /\ DOMAIN HumongousAt \cap (CsetOops \union OwnOops \union {NullOop}) = {}
BY LayoutAssumption

LEMMA ElementOf == ASSUME NEW S, NEW s \in Seq(S), NEW n \in DOMAIN s PROVE s[n] \in S
OBVIOUS

\* The fields of an object that is not an array.
LEMMA FieldsOfKlass ==
  ASSUME NEW j, NEW o, j.kind \notin {"array", "partial"}
  PROVE  o \in Fields(j) <=>
           \/ \E k \in DOMAIN OopMaps[j.klass] : o \in Span(OopMaps[j.klass][k])
           \/ j.kind = "mirror" /\ o \in Span(Statics)
           \/ j.kind = "ref" /\ o \in {discoveredField, referentField}
<1> DEFINE maps == UNION {Span(OopMaps[j.klass][k]) : k \in DOMAIN OopMaps[j.klass]}
           statics == IF j.kind = "mirror" THEN Span(Statics) ELSE {}
           special == IF j.kind = "ref" THEN {discoveredField, referentField} ELSE {}
<1>1. Fields(j) = maps \union statics \union special
  <2>1. Fields(j) = IF j.kind \in {"array", "partial"}
                    THEN {i \in j.start .. j.step - 1 : i < j.length}
                    ELSE maps \union statics \union special
    BY Zenon DEF Fields
  <2> HIDE DEF maps, statics, special
  <2>2. QED
    BY <2>1, Zenon
<1>2. o \in maps <=> \E k \in DOMAIN OopMaps[j.klass] : o \in Span(OopMaps[j.klass][k])
  OBVIOUS
<1>3. o \in statics <=> j.kind = "mirror" /\ o \in Span(Statics)
  OBVIOUS
<1>4. o \in special <=> j.kind = "ref" /\ o \in {discoveredField, referentField}
  OBVIOUS
<1> HIDE DEF maps, statics, special
<1>5. QED
  BY <1>1, <1>2, <1>3, <1>4

LEMMA JobType ==
  ASSUME NEW j \in TraceJobs
  PROVE  /\ j \in [kind : {"instance", "mirror", "ref", "array", "partial"},
                   klass : DOMAIN OopMaps, src : Int, young : BOOLEAN, start : Nat, step : Nat,
                   length : Nat, ncreate : Nat]
         /\ Fields(j) \subseteq Items /\ Fields(j) \subseteq Nat
         /\ j.kind \in {"instance", "mirror", "ref", "array", "partial"} /\ j.klass \in DOMAIN OopMaps
         /\ j.src \in Int /\ j.ncreate \in Nat /\ j.length \in Nat /\ j.step \in Nat /\ j.start \in Nat
         /\ j # NoJob
<1>1. j \in [kind : {"instance", "mirror", "ref", "array", "partial"},
             klass : DOMAIN OopMaps, src : Int, young : BOOLEAN, start : Nat, step : Nat,
             length : Nat, ncreate : Nat]
  BY LayoutAssumption
<1>2. Fields(j) \subseteq Items
  BY LayoutAssumption
<1>3. /\ j.kind \in {"instance", "mirror", "ref", "array", "partial"} /\ j.klass \in DOMAIN OopMaps
      /\ j.src \in Int /\ j.ncreate \in Nat /\ j.length \in Nat /\ j.step \in Nat /\ j.start \in Nat
  BY <1>1
<1>4. j # NoJob
  BY <1>3 DEF NoJob
<1>5. OopMaps[j.klass] \in Seq([first : Nat, count : Nat])
  BY <1>3, LayoutAssumption
<1>6. Fields(j) \subseteq Nat
  <2> SUFFICES ASSUME NEW o \in Fields(j) PROVE o \in Nat
    OBVIOUS
  <2>1. CASE j.kind \in {"array", "partial"}
    BY <1>3, <2>1 DEF Fields
  <2>2. CASE ~(j.kind \in {"array", "partial"})
    <3>1. \/ \E k \in DOMAIN OopMaps[j.klass] : o \in Span(OopMaps[j.klass][k])
          \/ o \in Span(Statics) \/ o \in {discoveredField, referentField}
      BY <2>2, FieldsOfKlass
    <3>2. ASSUME NEW k \in DOMAIN OopMaps[j.klass], o \in Span(OopMaps[j.klass][k]) PROVE o \in Nat
      <4>1. OopMaps[j.klass][k] \in [first : Nat, count : Nat]
        BY <1>5, ElementOf
      <4>2. QED
        BY <3>2, <4>1 DEF Span
    <3>3. QED
      BY <3>1, <3>2, TraceConstants DEF Span
  <2>3. QED
    BY <2>1, <2>2
<1>7. QED
  BY <1>1, <1>2, <1>3, <1>4, <1>6

LEMMA ResumesTo ==
  ASSUME NEW r \in Resumes
  PROVE  /\ ResumeState(r) \in {"SCAN_FORWARD", "SCAN_BACKWARD", "POST_INSTANCE_SCAN"}
         /\ ResumeState(r) \in ScanStates /\ ResumeState(r) \notin FieldStates
BY DEF Resumes, ResumeState, ScanStates, FieldStates

LEMMA CachedHolds ==
  ASSUME NEW S, NEW cache \in Seq(S), NEW entry \in S, NEW n \in Nat \ {0}
  PROVE  /\ Cached(cache, entry, n) \in Seq(S)
         /\ \A i \in DOMAIN Cached(cache, entry, n) :
              \/ Cached(cache, entry, n)[i] = entry
              \/ \E k \in DOMAIN cache : Cached(cache, entry, n)[i] = cache[k]
<1>1. CASE Len(cache) < n
  BY <1>1 DEF Cached
<1>2. CASE ~(Len(cache) < n)
  <2>1. cache # << >> /\ Len(cache) \in Nat
    BY <1>2
  <2>2. /\ Tail(cache) \in Seq(S) /\ Len(Tail(cache)) = Len(cache) - 1
        /\ \A i \in 1 .. Len(cache) - 1 : Tail(cache)[i] = cache[i + 1]
    BY <2>1
  <2>3. PICK t \in Seq(S) : t = Tail(cache)
    BY <2>2
  <2>a. \A u \in Seq(S), e \in S :
          /\ Append(u, e) \in Seq(S) /\ Len(Append(u, e)) = Len(u) + 1
          /\ \A i \in 1 .. Len(u) : Append(u, e)[i] = u[i]
          /\ Append(u, e)[Len(u) + 1] = e
    OBVIOUS
  <2>4. /\ Append(t, entry) \in Seq(S) /\ Len(Append(t, entry)) = Len(cache)
        /\ \A i \in 1 .. Len(cache) : i # Len(cache) => Append(t, entry)[i] = cache[i + 1]
        /\ Append(t, entry)[Len(cache)] = entry
    <3>1. Len(t) + 1 = Len(cache)
      BY <2>1, <2>2, <2>3
    <3>2. ASSUME NEW i \in 1 .. Len(cache), i # Len(cache)
          PROVE  Append(t, entry)[i] = cache[i + 1]
      <4>1. i \in 1 .. Len(t) /\ i \in 1 .. Len(cache) - 1
        BY <2>1, <3>1, <3>2
      <4>2. QED
        BY <2>a, <2>2, <2>3, <4>1
    <3>3. QED
      BY <2>a, <3>1, <3>2
  <2>5. ASSUME NEW i \in 1 .. Len(cache)
        PROVE  \/ Append(t, entry)[i] = entry
               \/ \E k \in DOMAIN cache : Append(t, entry)[i] = cache[k]
    <3>1. CASE i = Len(cache)
      BY <2>4, <3>1
    <3>2. CASE i # Len(cache)
      <4>1. i + 1 \in DOMAIN cache
        BY <2>1, <3>2
      <4>2. QED
        BY <2>4, <3>2, <4>1
    <3>3. QED
      BY <3>1, <3>2
  <2>6. Cached(cache, entry, n) = Append(t, entry)
    BY <1>2, <2>3 DEF Cached
  <2>7. DOMAIN Append(t, entry) = 1 .. Len(cache)
    BY <2>4
  <2>8. QED
    BY <2>4, <2>5, <2>6, <2>7
<1>3. QED
  BY <1>1, <1>2

LEMMA RegionCset ==
  ASSUME NEW o
  PROVE  /\ RegionOf(o) \in CsetOops <=> o \in CsetOops
         /\ o \in DOMAIN HumongousAt => RegionOf(o) = HumongousAt[o] /\ HumongousAt[o] \in Humongous
BY TraceConstants DEF RegionOf, Humongous

(* The visits that are left depend only on where the traversal stands.     *)
LEMMA BType == \A P \in BOOLEAN : B(P) \in {0, 1}
BY DEF B

LEMMA AfterType ==
  ASSUME NEW j, NEW ref, NEW o
  PROVE  After(j, ref, o) \in {0, 1, 2}
BY DEF After, B

LEMMA SamePlace ==
  ASSUME tr'.job = tr.job, tr'.p = tr.p, tr'.q = tr.q, tr'.map = tr.map, tr'.ref = tr.ref,
         NEW m, NEW o
  PROVE  LeftFrom(m, o)' = LeftFrom(m, o)
BY DEF LeftFrom, InRange

LEMMA LeftType ==
  ASSUME NEW o
  PROVE  /\ \A m : LeftFrom(m, o) \in Nat
         /\ Left(o) \in Nat /\ Visits(tr.job, o) \in Nat /\ Visited(o) \in Int
<1>1. Visits(tr.job, o) \in Nat
  BY DEF Visits, Times
<1>2. ASSUME NEW m PROVE LeftFrom(m, o) \in Nat
  <2> DEFINE a == B(InRange(o))
             b == B(InMaps(tr.job, tr.map, o))
             c == After(tr.job, 0, o)
             d == After(tr.job, tr.ref, o)
  <2>1. a \in Nat /\ b \in Nat /\ c \in Nat /\ d \in Nat
    BY AfterType DEF B
  <2>2. LeftFrom(m, o) \in {Visits(tr.job, o), a, a + b + c, b + c, d, 0}
    BY Zenon DEF LeftFrom
  <2>3. QED
    BY <1>1, <2>1, <2>2
<1>3. Left(o) \in Nat
  BY <1>2 DEF Left, B
<1>4. QED
  BY <1>1, <1>2, <1>3 DEF Visited

\* What stays to be visited when the maps are done, or are begun.
LEMMA NoMapsLeft ==
  ASSUME NEW j, NEW o
  PROVE  ~InMaps(j, 0, o) /\ B(InMaps(j, 0, o)) = 0
BY DEF InMaps, B

LEMMA AllMapsLeft ==
  ASSUME NEW j \in TraceJobs, NEW o, j.kind \notin {"array", "partial"}
  PROVE  B(InMaps(j, Len(OopMaps[j.klass]), o)) + After(j, 0, o) = Visits(j, o)
<1> DEFINE n == Len(OopMaps[j.klass])
           inMaps == \E k \in DOMAIN OopMaps[j.klass] : o \in Span(OopMaps[j.klass][k])
<1>1. j.klass \in DOMAIN OopMaps /\ j.kind \in {"instance", "mirror", "ref", "array", "partial"}
  BY JobType
<1>2. OopMaps[j.klass] \in Seq([first : Nat, count : Nat])
  BY <1>1, LayoutAssumption
<1>3. DOMAIN OopMaps[j.klass] = 1 .. n
  BY <1>2
<1>4. InMaps(j, n, o) <=> inMaps
  BY <1>3 DEF InMaps
<1>5. o \in Fields(j) <=> \/ inMaps
                          \/ j.kind = "mirror" /\ o \in Span(Statics)
                          \/ j.kind = "ref" /\ o \in {discoveredField, referentField}
  BY FieldsOfKlass
<1>6. /\ inMaps /\ j.kind = "mirror" => o \notin Span(Statics)
      /\ inMaps /\ j.kind = "ref" => o # discoveredField /\ o # referentField
  BY LayoutAssumption
<1>7. discoveredField # referentField
  BY TraceConstants
<1> HIDE DEF inMaps
<1>8. CASE j.kind = "mirror"
  BY <1>4, <1>5, <1>6, <1>8 DEF After, Visits, Times, B
<1>9. CASE j.kind = "ref"
  <2>1. CASE inMaps
    BY <1>4, <1>5, <1>6, <1>9, <2>1 DEF After, Visits, Times, B
  <2>2. CASE ~inMaps /\ o = discoveredField
    BY <1>4, <1>5, <1>7, <1>9, <2>2 DEF After, Visits, Times, B
  <2>3. CASE ~inMaps /\ o # discoveredField
    BY <1>4, <1>5, <1>7, <1>9, <2>3 DEF After, Visits, Times, B
  <2>4. QED
    BY <2>1, <2>2, <2>3
<1>10. CASE j.kind = "instance"
  BY <1>4, <1>5, <1>10 DEF After, Visits, Times, B
<1>11. QED
  BY <1>1, <1>8, <1>9, <1>10

\* One map less: its fields are in the range that is gone through.
LEMMA MapTaken ==
  ASSUME NEW j \in TraceJobs, NEW n \in Nat \ {0}, n <= Len(OopMaps[j.klass]), NEW o
  PROVE  /\ OopMaps[j.klass][n] \in [first : Nat, count : Nat]
         /\ B(InMaps(j, n, o)) = B(o \in Span(OopMaps[j.klass][n])) + B(InMaps(j, n - 1, o))
<1>1. j.klass \in DOMAIN OopMaps
  BY JobType
<1>2. OopMaps[j.klass] \in Seq([first : Nat, count : Nat])
  BY <1>1, LayoutAssumption
<1>3. n \in DOMAIN OopMaps[j.klass] /\ \A k \in 1 .. n : k \in DOMAIN OopMaps[j.klass]
  BY <1>2
<1>4. \A k \in 1 .. n - 1 :
        Span(OopMaps[j.klass][k]) \cap Span(OopMaps[j.klass][n]) = {}
  <2> SUFFICES ASSUME NEW k \in 1 .. n - 1
               PROVE  Span(OopMaps[j.klass][k]) \cap Span(OopMaps[j.klass][n]) = {}
    OBVIOUS
  <2>1. k \in 1 .. n /\ k # n
    OBVIOUS
  <2>2. QED
    BY <1>1, <1>3, <2>1, LayoutAssumption
<1>5. InMaps(j, n, o) <=> o \in Span(OopMaps[j.klass][n]) \/ InMaps(j, n - 1, o)
  <2>1. \A k : k \in 1 .. n <=> k = n \/ k \in 1 .. n - 1
    OBVIOUS
  <2>2. QED
    BY <2>1, Zenon DEF InMaps
<1>6. ~(o \in Span(OopMaps[j.klass][n]) /\ InMaps(j, n - 1, o))
  BY <1>4 DEF InMaps
<1>7. OopMaps[j.klass][n] \in [first : Nat, count : Nat]
  BY <1>2, <1>3, ElementOf
<1>8. QED
  BY <1>5, <1>6, <1>7 DEF B

\* One of the special fields of a Reference less.
LEMMA ReferenceTaken ==
  ASSUME NEW j, NEW ref \in 0 .. 2, NEW o, j.kind = "ref"
  PROVE  After(j, ref, o) = After(j, ref + 1, o)
                            + B(o = IF ref = 1 THEN referentField ELSE discoveredField)
<1>1. discoveredField # referentField
  BY TraceConstants
<1>2. CASE ref = 0
  <2>1. ref + 1 = 1
    BY <1>2
  <2>2. QED
    BY <1>1, <1>2, <2>1 DEF After, B
<1>3. CASE ref = 1
  <2>1. ref + 1 = 2
    BY <1>3
  <2>2. QED
    BY <1>1, <1>3, <2>1 DEF After, B
<1>4. CASE ref = 2
  <2>1. ref + 1 = 3
    BY <1>4
  <2>2. QED
    BY <1>1, <1>4, <2>1 DEF After, B
<1>5. QED
  BY <1>2, <1>3, <1>4

(* What a step does to the account.                                        *)

LEMMA ItemsAre ==
  /\ \A i \in Items : i # NoPush
  /\ ChunkTask \in Items /\ FieldItems \subseteq Items
  /\ \A j \in TraceJobs : \A o \in Fields(j) : o \in FieldItems /\ o \in Int /\ o # NoPush
<1>1. \A i \in Items : i # NoPush
  BY TraceConstants DEF Items, NoPush, ChunkTask
<1>2. ChunkTask \in Items /\ FieldItems \subseteq Items
  BY DEF Items, FieldItems
<1>3. \A j \in TraceJobs : \A o \in Fields(j) : o \in FieldItems /\ o \in Int /\ o # NoPush
  BY <1>1, JobType DEF FieldItems, ChunkTask
<1>4. QED
  BY <1>1, <1>2, <1>3

\* The task kept before and the new one are out together.
LEMMA EnqueueOut ==
  ASSUME handed \in [Items -> Int], pendingPush \in Items \cup {NoPush},
         NEW task \in Items, enqueueTask(task)
  PROVE  /\ handed' \in [Items -> Int] /\ pendingPush' \in Items
         /\ \A i \in Items : Out(i)' = Out(i) + B(i = task)
<1>1. pendingPush' = task
  BY DEF enqueueTask
<1>2. CASE pendingPush = NoPush
  <2>1. handed' = handed
    BY <1>2 DEF enqueueTask
  <2>2. \A i \in Items : i # pendingPush
    BY <1>2, ItemsAre
  <2>3. QED
    BY <1>1, <2>1, <2>2 DEF Out, B
<1>3. CASE pendingPush # NoPush
  <2>1. handed' = [handed EXCEPT ![pendingPush] = handed[pendingPush] + 1] /\ pendingPush \in Items
    BY <1>3 DEF enqueueTask
  <2>2. /\ handed' \in [Items -> Int]
        /\ \A i \in Items : handed'[i] = handed[i] + B(pendingPush = i)
    BY <2>1 DEF B
  <2>3. \A i \in Items : handed[i] \in Int
    OBVIOUS
  <2>4. QED
    BY <1>1, <2>2, <2>3 DEF Out, B
<1>4. QED
  BY <1>2, <1>3

\* Nothing is visited and nothing is undone.
LEMMA StillAccount ==
  ASSUME Account, tr.job # NoJob, tr'.job = tr.job,
         \A o \in FieldItems : Left(o)' = Left(o) /\ Out(o)' = Out(o),
         carded' = carded, \A r \in Humongous : Settled(r) => Settled(r)'
  PROVE  Account'
<1> SUFFICES ASSUME NEW o \in FieldItems PROVE AccountOf(o)'
  BY DEF Account
<1>1. AccountOf(o)
  BY DEF Account
<1>2. Visited(o)' = Visited(o)
  BY DEF Visited, Visits
<1>3. /\ Out(o)' = IF Pointed(o, CsetOops) THEN Visited(o) ELSE 0
      /\ carded'[o] = IF Leaves(o) /\ ~tr.job.young THEN Visited(o) ELSE 0
  BY <1>1 DEF AccountOf
<1>4. ASSUME Pointed(o, DOMAIN HumongousAt), Visited(o) # 0
      PROVE  Settled(HumongousAt[Target(tr.job, o)])'
  <2>1. HumongousAt[Target(tr.job, o)] \in Humongous
    BY <1>4 DEF Pointed, Humongous
  <2>2. Settled(HumongousAt[Target(tr.job, o)])
    BY <1>1, <1>4 DEF AccountOf
  <2>3. QED
    BY <2>1, <2>2
<1>5. (Pointed(o, CsetOops)' <=> Pointed(o, CsetOops)) /\ (Leaves(o)' <=> Leaves(o))
  BY DEF Pointed, Leaves
<1>6. Pointed(o, DOMAIN HumongousAt)' <=> Pointed(o, DOMAIN HumongousAt)
  BY DEF Pointed
<1>7. QED
  BY <1>2, <1>3, <1>4, <1>5, <1>6 DEF AccountOf

\* The visit of the field at hand is over.
FieldOver ==
  /\ tr'.job = tr.job /\ tr'.p = tr.p /\ tr'.q = tr.q /\ tr'.map = tr.map /\ tr'.ref = tr.ref
  /\ tr'.pc = ResumeState(tr.resume)
  /\ candidates' = candidates /\ regionMarked' = regionMarked
  /\ \A o \in FieldItems :
       /\ Out(o)' = Out(o) + B(o = tr.off /\ tr.raw \in CsetOops)
       /\ carded'[o] = carded[o] + B(/\ o = tr.off /\ ~tr.job.young
                                     /\ tr.raw \notin CsetOops \cup OwnOops \cup {NullOop})
  /\ tr.raw \in DOMAIN HumongousAt => Settled(HumongousAt[tr.raw])

LEMMA OverLeft ==
  ASSUME tr.pc \in FieldStates, tr.resume \in Resumes, FieldOver, NEW o
  PROVE  Left(o)' = Left(o) - B(o = tr.off) /\ Mode' = Mode
<1>1. Mode = ResumeState(tr.resume) /\ tr'.pc \notin FieldStates
  BY ResumesTo DEF Mode, FieldOver
<1>2. Mode' = Mode
  BY <1>1 DEF Mode, FieldOver
<1>3. LeftFrom(Mode, o)' = LeftFrom(Mode, o)
  BY <1>2, SamePlace DEF FieldOver, LeftFrom, InRange
<1>4. LeftFrom(Mode, o) \in Nat
  BY LeftType
<1>5. Left(o)' = LeftFrom(Mode, o)
  <2>1. Left(o)' = LeftFrom(Mode, o)' + B(tr'.pc \in FieldStates /\ o = tr'.off)
    BY DEF Left
  <2>2. B(tr'.pc \in FieldStates /\ o = tr'.off) = 0
    BY <1>1 DEF B
  <2>3. QED
    BY <1>3, <1>4, <2>1, <2>2
<1>6. Left(o) = LeftFrom(Mode, o) + B(o = tr.off)
  BY DEF Left
<1>7. B(o = tr.off) \in Nat
  BY DEF B
<1>8. QED
  BY <1>2, <1>4, <1>5, <1>6, <1>7

LEMMA OverAccount ==
  ASSUME TraceTyped, Account, tr.job # NoJob, tr.pc \in FieldStates, tr.off \in Fields(tr.job),
         tr.raw = Target(tr.job, tr.off), FieldOver
  PROVE  Account'
<1>1. tr.job \in TraceJobs /\ tr.resume \in Resumes
  BY DEF TraceTyped, TraceRegs
<1>2. tr.off \in FieldItems
  BY <1>1, ItemsAre
<1>3. tr'.job = tr.job
  BY DEF FieldOver
<1> SUFFICES ASSUME NEW o \in FieldItems PROVE AccountOf(o)'
  BY DEF Account
<1>4. AccountOf(o)
  BY DEF Account
<1>5. Visited(o)' = Visited(o) + B(o = tr.off)
  <2>1. Left(o)' = Left(o) - B(o = tr.off)
    BY <1>1, OverLeft
  <2>2. Visits(tr.job, o)' = Visits(tr.job, o)
    BY <1>3 DEF Visits
  <2>3. Left(o) \in Nat /\ Visits(tr.job, o) \in Nat /\ B(o = tr.off) \in Nat
    BY LeftType DEF B
  <2>4. QED
    BY <2>1, <2>2, <2>3 DEF Visited
<1>6. /\ Pointed(o, CsetOops)' <=> Pointed(o, CsetOops)
      /\ Pointed(o, DOMAIN HumongousAt)' <=> Pointed(o, DOMAIN HumongousAt)
      /\ Leaves(o)' <=> Leaves(o)
  BY <1>3 DEF Pointed, Leaves
<1>7. /\ Out(o)' = Out(o) + B(o = tr.off /\ tr.raw \in CsetOops)
      /\ carded'[o] = carded[o] + B(/\ o = tr.off /\ ~tr.job.young
                                    /\ tr.raw \notin CsetOops \cup OwnOops \cup {NullOop})
      /\ \A r : Settled(r)' <=> Settled(r)
  BY DEF FieldOver, Settled
<1>8. CASE o # tr.off
  <2>1. Visited(o)' = Visited(o)
    BY <1>5, <1>8, LeftType DEF B
  <2>2. Out(o)' = Out(o) /\ carded'[o] = carded[o]
    <3>1. Out(o) \in Int /\ carded[o] \in Int
      BY ItemsAre DEF TraceTyped, Out, B
    <3>2. QED
      BY <1>7, <1>8, <3>1 DEF B
  <2>3. HumongousAt[Target(tr'.job, o)] = HumongousAt[Target(tr.job, o)]
    BY <1>3
  <2>4. QED
    BY <1>3, <1>4, <1>6, <1>7, <2>1, <2>2 DEF AccountOf
<1>9. CASE o = tr.off
  <2>1. /\ Pointed(o, CsetOops) <=> tr.raw \in CsetOops
        /\ Pointed(o, DOMAIN HumongousAt) <=> tr.raw \in DOMAIN HumongousAt
        /\ Leaves(o) <=> tr.raw \notin CsetOops \cup OwnOops \cup {NullOop}
    BY <1>9 DEF Pointed, Leaves
  <2>2. Visited(o)' = Visited(o) + 1 /\ Visited(o) \in Int
    BY <1>5, <1>9, LeftType DEF B
  <2>3. Out(o)' = IF Pointed(o, CsetOops) THEN Visited(o)' ELSE 0
    BY <1>4, <1>7, <1>9, <2>1, <2>2 DEF AccountOf, B
  <2>4. carded'[o] = IF Leaves(o) /\ ~tr.job.young THEN Visited(o)' ELSE 0
    BY <1>4, <1>7, <1>9, <2>1, <2>2 DEF AccountOf, B
  <2>5. Pointed(o, DOMAIN HumongousAt) => Settled(HumongousAt[Target(tr.job, o)])'
    BY <1>7, <1>9, <2>1 DEF FieldOver
  <2>6. QED
    BY <1>3, <1>6, <2>3, <2>4, <2>5 DEF AccountOf
<1>10. QED
  BY <1>8, <1>9

(* What is left, state by state.                                           *)
LeftKnown ==
  \A o :
    /\ tr.pc \in StartStates => Left(o) = Visits(tr.job, o)
    /\ tr.pc = "SCAN_FORWARD" => Left(o) = B(InRange(o))
    /\ tr.pc = "SCAN_BACKWARD" =>
         Left(o) = B(InRange(o)) + B(InMaps(tr.job, tr.map, o)) + After(tr.job, 0, o)
    /\ tr.pc = "SCAN_OOP_MAP" => Left(o) = B(InMaps(tr.job, tr.map, o)) + After(tr.job, 0, o)
    /\ tr.pc = "POST_INSTANCE_SCAN" => Left(o) = After(tr.job, tr.ref, o)
    /\ tr.pc \in RestStates => Left(o) = 0
    /\ tr.pc \in FieldStates =>
         /\ tr.resume = "Forward" => Left(o) = B(InRange(o)) + B(o = tr.off)
         /\ tr.resume = "Backward" =>
              Left(o) = B(InRange(o)) + B(InMaps(tr.job, tr.map, o)) + After(tr.job, 0, o)
                        + B(o = tr.off)
         /\ tr.resume = "ReferenceFields" => Left(o) = After(tr.job, tr.ref, o) + B(o = tr.off)

LEMMA LeftIs == LeftKnown
<1> SUFFICES ASSUME NEW o PROVE LeftKnown!(o)
  BY DEF LeftKnown
<1>1. tr.pc \notin FieldStates => Left(o) = LeftFrom(tr.pc, o)
  <2>1. LeftFrom(tr.pc, o) \in Nat
    BY LeftType
  <2>2. QED
    BY <2>1 DEF Left, Mode, B
<1>2. tr.pc \in FieldStates => Left(o) = LeftFrom(ResumeState(tr.resume), o) + B(o = tr.off)
  BY DEF Left, Mode, B
<1>3. tr.pc \in StartStates \cup ScanStates \cup RestStates => tr.pc \notin FieldStates
  BY DEF StartStates, ScanStates, RestStates, FieldStates
<1>4. ASSUME NEW m \in StartStates PROVE LeftFrom(m, o) = Visits(tr.job, o)
  BY DEF LeftFrom, StartStates
<1>5. /\ LeftFrom("SCAN_FORWARD", o) = B(InRange(o))
      /\ LeftFrom("SCAN_BACKWARD", o)
           = B(InRange(o)) + B(InMaps(tr.job, tr.map, o)) + After(tr.job, 0, o)
      /\ LeftFrom("SCAN_OOP_MAP", o) = B(InMaps(tr.job, tr.map, o)) + After(tr.job, 0, o)
      /\ LeftFrom("POST_INSTANCE_SCAN", o) = After(tr.job, tr.ref, o)
      /\ \A m \in RestStates : LeftFrom(m, o) = 0
  BY DEF LeftFrom, StartStates, RestStates
<1>6. /\ ResumeState("Forward") = "SCAN_FORWARD" /\ ResumeState("Backward") = "SCAN_BACKWARD"
      /\ ResumeState("ReferenceFields") = "POST_INSTANCE_SCAN"
  BY DEF ResumeState
<1>7. QED
  BY <1>1, <1>2, <1>3, <1>4, <1>5, <1>6 DEF ScanStates

LEMMA LeftNext == LeftKnown'
BY LeftIs, PTL

(* The steps that only move the traversal.                                 *)
MoveStates == StartStates \cup ScanStates \cup {"FINISH"}
Still == UNCHANGED <<pendingPush, regionAttrCache, humRegionCache, regionVars, sentVars>>

LEMMA MoveHolds ==
  ASSUME TraceInv, tr' \in TraceRegs, heapWindow' \in Int, Still, tr'.job = tr.job,
         tr.job # NoJob, tr.pc \in MoveStates, tr'.pc \in MoveStates \cup {"READ_OOP"},
         \A o \in FieldItems : Left(o)' = Left(o), Shape', Made'
  PROVE  TraceInv'
<1>1. TraceTyped'
  BY DEF TraceInv, TraceTyped, Still, regionVars, sentVars
<1>2. tr.pc \notin FieldStates /\ tr'.pc \notin FieldStates \ {"READ_OOP"}
  BY DEF MoveStates, StartStates, ScanStates, FieldStates
<1>3. RawKnown'
  BY <1>2 DEF RawKnown, FieldStates
<1>4. CachesKnow'
  <2>1. ASSUME NEW S \in SUBSET (FieldStates \ {"READ_OOP"})
        PROVE  AtHand(S) = {} /\ AtHand(S)' = {}
    BY <1>2 DEF AtHand
  <2>2. {"CLEAR_HUM_CANDIDATE", "MARK_HUM_REGION"} \in SUBSET (FieldStates \ {"READ_OOP"})
        /\ {"MARK_HUM_REGION"} \in SUBSET (FieldStates \ {"READ_OOP"})
    BY DEF FieldStates
  <2>3. CachesKnow
    BY DEF TraceInv
  <2>4. QED
    BY <2>1, <2>2, <2>3 DEF CachesKnow, Still, regionVars
<1>5. Account'
  <2>1. \A o \in FieldItems : Out(o)' = Out(o)
    BY DEF Out, Still, sentVars
  <2>2. \A r \in Humongous : Settled(r) => Settled(r)'
    BY DEF Settled, Still, regionVars
  <2>3. Account /\ carded' = carded
    BY DEF TraceInv, Still, sentVars
  <2>4. QED
    BY <2>1, <2>2, <2>3, StillAccount
<1>6. QED
  BY <1>1, <1>3, <1>4, <1>5 DEF TraceInv

LEMMA AtWork ==
  ASSUME TraceInv, tr.pc # "IDLE"
  PROVE  /\ tr.job \in TraceJobs /\ tr.job # NoJob /\ tr \in TraceRegs /\ heapWindow \in Int
         /\ tr.p \in Int /\ tr.q \in Int /\ tr.remain \in Int /\ tr.off \in Int /\ tr.raw \in Oops
         /\ tr.resume \in Resumes /\ tr.ref \in 0 .. 3 /\ tr.map \in Nat /\ tr.created \in Nat
         /\ tr.attr \in {"none", "cset", "humongous", "other"}
BY DEF TraceInv, TraceTyped, TraceRegs

LEMMA ScanMade ==
  ASSUME TraceInv, tr.job # NoJob, tr.pc \notin StartStates, tr'.pc \notin StartStates,
         Out(ChunkTask)' = Out(ChunkTask), carded'[ChunkTask] = carded[ChunkTask], tr'.job = tr.job
  PROVE  Made'
<1>1. Out(ChunkTask) = ChunkTasks(tr.job) /\ carded[ChunkTask] = 0
  BY DEF TraceInv, Made, StartStates
<1>2. QED
  BY <1>1 DEF Made, StartStates, ChunkTasks

\* The maps of a klass are begun.
LEMMA MapsBegin ==
  ASSUME TraceInv, tr.pc \in {"DISPATCH", "READ_KLASS_LAYOUT"}, ~IsArray,
         tr' = [tr EXCEPT !.pc = "SCAN_OOP_MAP", !.map = Len(OopMaps[tr.job.klass])],
         heapWindow' = heapWindow, Still
  PROVE  TraceInv'
<1>1. /\ tr.job \in TraceJobs /\ tr.job # NoJob /\ tr \in TraceRegs /\ heapWindow \in Int
  BY AtWork
<1>2. OopMaps[tr.job.klass] \in Seq([first : Nat, count : Nat])
  BY <1>1, JobType, LayoutAssumption
<1>3. PICK n \in Nat : n = Len(OopMaps[tr.job.klass])
  BY <1>2
<1>4. /\ tr' \in TraceRegs /\ tr'.job = tr.job /\ tr'.pc = "SCAN_OOP_MAP" /\ tr'.map = n
  BY <1>1, <1>3 DEF TraceRegs, TraceStates, ScanStates
<1>5. \A o : Left(o)' = Left(o)
  <2> SUFFICES ASSUME NEW o PROVE Left(o)' = Left(o)
    OBVIOUS
  <2>1. Left(o) = Visits(tr.job, o)
    BY LeftIs DEF LeftKnown, StartStates
  <2>2. Left(o)' = B(InMaps(tr.job, n, o)) + After(tr.job, 0, o)
    BY <1>4, LeftNext DEF LeftKnown
  <2>3. QED
    BY <1>1, <1>3, <2>1, <2>2, AllMapsLeft DEF IsArray
<1>6. Shape'
  BY <1>3, <1>4 DEF Shape, Mode, FieldStates, IsArray
<1>7. Made'
  <2>1. carded'[ChunkTask] = 0 /\ Out(ChunkTask)' = 0
    BY <1>1 DEF TraceInv, Made, Still, sentVars, Out
  <2>2. ChunkTasks(tr.job) = 0
    BY DEF ChunkTasks, IsArray
  <2>3. QED
    BY <1>4, <2>1, <2>2 DEF Made
<1>8. tr.pc \in MoveStates /\ tr'.pc \in MoveStates \cup {"READ_OOP"}
  BY <1>4 DEF MoveStates, StartStates, ScanStates
<1>9. QED
  BY <1>1, <1>4, <1>5, <1>6, <1>7, <1>8, MoveHolds

LEMMA DispatchHolds == ASSUME TraceInv, TrDispatch PROVE TraceInv'
<1>1. /\ tr.pc = "DISPATCH" /\ Still /\ heapWindow' = heapWindow
  BY DEF TrDispatch, TrAt, Still, cacheVars, regionVars, sentVars
<1>2. /\ tr.job \in TraceJobs /\ tr.job # NoJob /\ tr \in TraceRegs /\ heapWindow \in Int
  BY <1>1, AtWork
<1>3. ASSUME NEW s \in {"PREPARE_ARRAY", "READ_KLASS_LAYOUT"}, tr' = [tr EXCEPT !.pc = s],
             s = "PREPARE_ARRAY" <=> IsArray
      PROVE  TraceInv'
  <2>1. /\ tr' \in TraceRegs /\ tr'.job = tr.job /\ tr'.pc = s /\ tr'.created = tr.created
    BY <1>2, <1>3 DEF TraceRegs, TraceStates, StartStates
  <2>2. s \in StartStates /\ tr.pc \in StartStates
    BY <1>1 DEF StartStates
  <2>3. \A o : Left(o)' = Left(o)
    BY <2>1, <2>2, LeftIs, LeftNext DEF LeftKnown
  <2>4. tr.created = 0 /\ tr.job.ncreate \in Nat
    BY <1>1, <1>2, JobType DEF TraceInv, Shape
  <2>5. Shape'
    BY <1>3, <2>1, <2>4 DEF Shape, Mode, FieldStates, IsArray, TraceInv
  <2>6. Made'
    BY <1>1, <1>2, <2>1, <2>4 DEF TraceInv, Made, Still, sentVars, Out
  <2>7. tr.pc \in MoveStates /\ tr'.pc \in MoveStates \cup {"READ_OOP"}
    BY <2>1, <2>2 DEF MoveStates
  <2>8. QED
    BY <1>1, <1>2, <2>1, <2>3, <2>5, <2>6, <2>7, MoveHolds
<1>4. \/ IsArray /\ TrGoto("PREPARE_ARRAY")
      \/ ~IsArray /\ tr' = [tr EXCEPT !.pc = "SCAN_OOP_MAP", !.map = Len(OopMaps[tr.job.klass])]
      \/ ~IsArray /\ TrGoto("READ_KLASS_LAYOUT")
  BY DEF TrDispatch
<1>5. QED
  BY <1>1, <1>3, <1>4, MapsBegin DEF TrGoto

LEMMA LayoutHolds == ASSUME TraceInv, ReadKlassLayout PROVE TraceInv'
<1>1. /\ tr.pc = "READ_KLASS_LAYOUT" /\ Still /\ heapWindow' = heapWindow
      /\ tr' = [tr EXCEPT !.pc = "SCAN_OOP_MAP", !.map = Len(OopMaps[tr.job.klass])]
  BY DEF ReadKlassLayout, TrAt, Still, regionVars, sentVars
<1>2. ~IsArray
  BY <1>1 DEF TraceInv, Shape
<1>3. QED
  BY <1>1, <1>2, MapsBegin

LEMMA OopMapHolds == ASSUME TraceInv, ScanOopMap PROVE TraceInv'
<1>1. /\ tr.pc = "SCAN_OOP_MAP" /\ Still /\ heapWindow' = heapWindow
  BY DEF ScanOopMap, TrAt, Still, cacheVars, regionVars, sentVars
<1>2. /\ tr.job \in TraceJobs /\ tr.job # NoJob /\ tr \in TraceRegs /\ heapWindow \in Int
      /\ tr.map \in Nat
  BY <1>1, AtWork
<1>3. ~IsArray /\ tr.map <= Len(OopMaps[tr.job.klass])
  BY <1>1 DEF TraceInv, Shape, Mode, FieldStates
<1>4. \A o : Left(o) = B(InMaps(tr.job, tr.map, o)) + After(tr.job, 0, o)
  BY <1>1, LeftIs DEF LeftKnown
<1>5. tr.pc \in MoveStates /\ tr.pc \notin StartStates
  BY <1>1 DEF MoveStates, StartStates, ScanStates
<1>m. ASSUME tr'.job = tr.job, tr'.pc \in ScanStates PROVE Made'
  <2>1. tr'.pc \notin StartStates
    BY <1>m DEF StartStates, ScanStates
  <2>2. QED
    BY <1>1, <1>2, <1>5, <1>m, <2>1, ScanMade DEF Still, sentVars, Out
<1>6. CASE tr.map = 0
  <2>1. tr' = [tr EXCEPT !.pc = "POST_INSTANCE_SCAN", !.ref = 0]
    BY <1>6 DEF ScanOopMap
  <2>2. /\ tr' \in TraceRegs /\ tr'.job = tr.job /\ tr'.pc = "POST_INSTANCE_SCAN" /\ tr'.map = tr.map
        /\ tr'.ref = 0
    <3>1. "POST_INSTANCE_SCAN" \in TraceStates /\ 0 \in 0 .. 3
      BY DEF TraceStates, ScanStates
    <3>2. tr' \in TraceRegs
      BY <1>2, <2>1, <3>1 DEF TraceRegs
    <3>3. QED
      BY <1>2, <2>1, <3>2 DEF TraceRegs
  <2>3. \A o : Left(o)' = Left(o)
    <3> SUFFICES ASSUME NEW o PROVE Left(o)' = Left(o)
      OBVIOUS
    <3>1. Left(o)' = After(tr.job, 0, o)
      BY <2>2, LeftNext DEF LeftKnown
    <3>2. QED
      BY <1>4, <1>6, <3>1, NoMapsLeft, AfterType
  <2>4. Shape'
    BY <1>3, <2>2 DEF Shape, Mode, FieldStates, IsArray
  <2>5. tr'.pc \in ScanStates /\ tr'.pc \in MoveStates
    BY <2>2 DEF MoveStates, ScanStates
  <2>6. QED
    BY <1>1, <1>2, <1>5, <1>m, <2>2, <2>3, <2>4, <2>5, MoveHolds
<1>7. CASE tr.map # 0
  <2> DEFINE m == OopMaps[tr.job.klass][tr.map]
  <2>1. tr' = [tr EXCEPT !.pc = "SCAN_BACKWARD", !.map = tr.map - 1, !.p = m.first,
                         !.q = m.first + m.count, !.remain = m.count]
    BY <1>7 DEF ScanOopMap
  <2>2. m \in [first : Nat, count : Nat] /\ tr.map \in Nat \ {0}
    BY <1>2, <1>3, <1>7, MapTaken
  <2>3. /\ m.first \in Int /\ m.first + m.count \in Int /\ m.count \in Int
        /\ tr.map - 1 \in Nat /\ tr.map - 1 <= Len(OopMaps[tr.job.klass])
    <3>1. tr.job.klass \in DOMAIN OopMaps
      BY <1>2, JobType
    <3>2. PICK n \in Nat : n = Len(OopMaps[tr.job.klass])
      BY <3>1, LayoutAssumption
    <3>3. tr.map <= n /\ tr.map \in Nat \ {0}
      BY <1>3, <2>2, <3>2
    <3>4. tr.map - 1 \in Nat /\ tr.map - 1 <= n
      BY <3>3
    <3>5. m.first \in Nat /\ m.count \in Nat
      BY <2>2
    <3> HIDE DEF m
    <3>6. QED
      BY <3>2, <3>4, <3>5
  <2>4. Span(m) \subseteq Fields(tr.job)
    <3> SUFFICES ASSUME NEW o \in Span(m) PROVE o \in Fields(tr.job)
      OBVIOUS
    <3>1. tr.job.klass \in DOMAIN OopMaps
      BY <1>2, JobType
    <3>2. tr.map \in DOMAIN OopMaps[tr.job.klass]
      BY <1>3, <2>2, <3>1, LayoutAssumption
    <3>3. QED
      BY <3>2, FieldsOfKlass, <1>3 DEF IsArray
  <2>5. \A o \in Int : m.first <= o /\ o < m.first + m.count <=> o \in Span(m)
    BY <2>2 DEF Span
  <2> HIDE DEF m
  <2>6. /\ tr' \in TraceRegs /\ tr'.job = tr.job /\ tr'.pc = "SCAN_BACKWARD"
        /\ tr'.map = tr.map - 1 /\ tr'.p = m.first /\ tr'.q = m.first + m.count
    BY <1>2, <2>1, <2>3 DEF TraceRegs, TraceStates, ScanStates
  <2>7. \A o \in FieldItems : Left(o)' = Left(o)
    <3> SUFFICES ASSUME NEW o \in FieldItems PROVE Left(o)' = Left(o)
      OBVIOUS
    <3>1. Left(o)' = B(m.first <= o /\ o < m.first + m.count)
                     + B(InMaps(tr.job, tr.map - 1, o)) + After(tr.job, 0, o)
      BY <2>6, LeftNext DEF LeftKnown, InRange
    <3>2. o \in Int
      BY TraceConstants DEF FieldItems, Items, ChunkTask
    <3>3. B(m.first <= o /\ o < m.first + m.count) = B(o \in Span(m))
      BY <2>5, <3>2 DEF B
    <3>4. B(InMaps(tr.job, tr.map, o)) = B(o \in Span(m)) + B(InMaps(tr.job, tr.map - 1, o))
      BY <1>2, <1>3, <2>2, MapTaken DEF m
    <3>5. QED
      BY <1>4, <3>1, <3>3, <3>4
  <2>8. Shape'
    BY <1>3, <2>3, <2>4, <2>5, <2>6 DEF Shape, Mode, FieldStates, IsArray, InRange
  <2>9. tr'.pc \in ScanStates /\ tr'.pc \in MoveStates
    BY <2>6 DEF MoveStates, ScanStates
  <2>10. QED
    BY <1>1, <1>2, <1>5, <1>m, <2>6, <2>7, <2>8, <2>9, MoveHolds
<1>8. QED
  BY <1>6, <1>7

LEMMA PostHolds == ASSUME TraceInv, PostInstanceScan PROVE TraceInv'
<1>1. /\ tr.pc = "POST_INSTANCE_SCAN" /\ Still /\ heapWindow' = heapWindow
  BY DEF PostInstanceScan, TrAt, Still, cacheVars, regionVars, sentVars
<1>2. /\ tr.job \in TraceJobs /\ tr.job # NoJob /\ tr \in TraceRegs /\ heapWindow \in Int
      /\ tr.ref \in 0 .. 3
  BY <1>1, AtWork
<1>3. ~IsArray /\ tr.map <= Len(OopMaps[tr.job.klass])
  BY <1>1 DEF TraceInv, Shape, Mode, FieldStates
<1>4. \A o : Left(o) = After(tr.job, tr.ref, o)
  BY <1>1, LeftIs DEF LeftKnown
<1>5. tr.pc \in MoveStates /\ tr.pc \notin StartStates
  BY <1>1 DEF MoveStates, StartStates, ScanStates
<1>6. tr.job.kind \in {"instance", "mirror", "ref"}
  BY <1>2, <1>3, JobType DEF IsArray
<1>7. ASSUME tr'.job = tr.job, tr'.pc \in {"SCAN_FORWARD", "FINISH", "READ_OOP"}, tr' \in TraceRegs,
             \A o \in FieldItems : Left(o)' = Left(o), Shape'
      PROVE  TraceInv'
  <2>1. tr'.pc \in MoveStates \cup {"READ_OOP"} /\ tr'.pc \notin StartStates
    BY <1>7 DEF MoveStates, StartStates, ScanStates
  <2>2. Made'
    BY <1>1, <1>2, <1>5, <1>7, <2>1, ScanMade DEF Still, sentVars, Out
  <2>3. QED
    BY <1>1, <1>2, <1>5, <1>7, <2>1, <2>2, MoveHolds
<1>8. CASE tr.job.kind = "mirror"
  <2>1. tr' = [tr EXCEPT !.pc = "SCAN_FORWARD", !.p = Statics.first,
                         !.q = Statics.first + Statics.count, !.remain = Statics.count]
    BY <1>8 DEF PostInstanceScan
  <2>2. Statics.first \in Nat /\ Statics.count \in Nat /\ Statics.first + Statics.count \in Int
    BY TraceConstants
  <2>3. /\ tr' \in TraceRegs /\ tr'.job = tr.job /\ tr'.pc = "SCAN_FORWARD"
        /\ tr'.p = Statics.first /\ tr'.q = Statics.first + Statics.count
    <3>1. "SCAN_FORWARD" \in TraceStates
      BY DEF TraceStates, ScanStates
    <3>2. PICK low \in Int, high \in Int, size \in Int :
             low = Statics.first /\ high = Statics.first + Statics.count /\ size = Statics.count
      BY <2>2
    <3>3. tr' \in TraceRegs
      BY <1>2, <2>1, <3>1, <3>2 DEF TraceRegs
    <3>4. QED
      BY <1>2, <2>1, <3>3 DEF TraceRegs
  <2>4. \A o \in Int : Statics.first <= o /\ o < Statics.first + Statics.count <=> o \in Span(Statics)
    BY <2>2 DEF Span
  <2>5. Span(Statics) \subseteq Fields(tr.job)
    BY <1>8, FieldsOfKlass
  <2>6. ASSUME NEW o \in FieldItems PROVE Left(o)' = Left(o)
    <3>1. Left(o)' = B(Statics.first <= o /\ o < Statics.first + Statics.count)
      BY <2>3, LeftNext DEF LeftKnown, InRange
    <3>2. o \in Int
      BY TraceConstants DEF FieldItems, Items, ChunkTask
    <3>3. Left(o) = B(o \in Span(Statics))
      BY <1>4, <1>8 DEF After
    <3>4. QED
      BY <2>4, <3>1, <3>2, <3>3 DEF B
  <2>7. Shape'
    BY <1>8, <2>3, <2>4, <2>5 DEF Shape, Mode, FieldStates, IsArray, InRange
  <2>8. QED
    BY <1>7, <2>3, <2>6, <2>7
<1>9. CASE tr.job.kind = "ref" /\ tr.ref # 3
  <2> DEFINE off == IF tr.ref = 1 THEN referentField ELSE discoveredField
  <2>1. tr' = [tr EXCEPT !.pc = "READ_OOP", !.resume = "ReferenceFields", !.ref = tr.ref + 1,
                         !.remain = 1, !.off = off]
    BY <1>9 DEF PostInstanceScan
  <2>2. tr.ref + 1 \in 0 .. 3 /\ tr.ref \in 0 .. 2
    BY <1>2, <1>9
  <2>3. off \in Int /\ off \in Fields(tr.job)
    BY <1>9, FieldsOfKlass, TraceConstants
  <2>4. "READ_OOP" \in TraceStates /\ "ReferenceFields" \in Resumes
    BY DEF TraceStates, FieldStates, Resumes
  <2>5. ASSUME NEW o \in FieldItems
        PROVE  After(tr.job, tr.ref, o) = After(tr.job, tr.ref + 1, o) + B(o = off)
    BY <1>9, <2>2, ReferenceTaken
  <2> HIDE DEF off
  <2>6. tr' \in TraceRegs
    <3>1. PICK r \in 0 .. 3, one \in Int, x \in Int : r = tr.ref + 1 /\ one = 1 /\ x = off
      BY <2>2, <2>3
    <3>2. tr' = [tr EXCEPT !.pc = "READ_OOP", !.resume = "ReferenceFields", !.ref = r,
                           !.remain = one, !.off = x]
      BY <2>1, <3>1
    <3>3. QED
      BY <1>2, <2>4, <3>1, <3>2 DEF TraceRegs
  <2>7. /\ tr'.job = tr.job /\ tr'.pc = "READ_OOP" /\ tr'.resume = "ReferenceFields"
        /\ tr'.ref = tr.ref + 1 /\ tr'.off = off /\ tr'.map = tr.map
    BY <1>2, <2>1 DEF TraceRegs
  <2>8. tr'.pc \in FieldStates
    BY <2>7 DEF FieldStates
  <2>9. ASSUME NEW o \in FieldItems PROVE Left(o)' = Left(o)
    <3>1. Left(o)' = After(tr.job, tr.ref + 1, o) + B(o = off)
      BY <2>7, <2>8, LeftNext DEF LeftKnown
    <3>2. QED
      BY <1>4, <2>5, <3>1
  <2>10. Mode' = "POST_INSTANCE_SCAN"
    BY <2>7, <2>8 DEF Mode, ResumeState
  <2>11. Shape'
    BY <1>3, <2>3, <2>7, <2>10 DEF Shape, IsArray
  <2>12. QED
    BY <1>7, <2>6, <2>7, <2>9, <2>11
<1>10. CASE \/ tr.job.kind = "ref" /\ tr.ref = 3
            \/ tr.job.kind = "instance"
  <2>1. \/ tr' = [tr EXCEPT !.pc = "FINISH", !.ref = 0]
        \/ tr' = [tr EXCEPT !.pc = "FINISH"]
    BY <1>10 DEF PostInstanceScan
  <2>2. "FINISH" \in TraceStates /\ 0 \in 0 .. 3
    BY DEF TraceStates, RestStates
  <2>3. tr' \in TraceRegs
    BY <1>2, <2>1, <2>2 DEF TraceRegs
  <2>4. tr'.job = tr.job /\ tr'.pc = "FINISH"
    BY <1>2, <2>1 DEF TraceRegs
  <2>5. ASSUME NEW o \in FieldItems PROVE Left(o)' = Left(o)
    <3>1. Left(o)' = 0
      BY <2>4, LeftNext DEF LeftKnown, RestStates
    <3>2. Left(o) = 0
      BY <1>4, <1>10, TraceConstants DEF After, B
    <3>3. QED
      BY <3>1, <3>2
  <2>6. Shape'
    BY <2>4 DEF Shape, Mode, FieldStates
  <2>7. QED
    BY <1>7, <2>3, <2>4, <2>5, <2>6
<1>11. QED
  BY <1>6, <1>8, <1>9, <1>10

LEMMA RangeType == \A o \in FieldItems : o \in Int
BY TraceConstants DEF FieldItems, Items, ChunkTask

LEMMA RangeEmpty ==
  ASSUME NEW p \in Int, NEW q \in Int, ~(p < q), NEW o \in Int
  PROVE  ~(p <= o /\ o < q)
OBVIOUS

LEMMA FromLow ==
  ASSUME NEW p \in Int, NEW q \in Int, p < q, NEW o \in Int
  PROVE  /\ B(p <= o /\ o < q) = B(p + 1 <= o /\ o < q) + B(o = p)
         /\ p + 1 <= o /\ o < q => p <= o
<1>1. CASE o = p
  BY <1>1 DEF B
<1>2. CASE o # p
  BY <1>2 DEF B
<1>3. QED
  BY <1>1, <1>2

LEMMA FromHigh ==
  ASSUME NEW p \in Int, NEW q \in Int, p < q, NEW o \in Int
  PROVE  /\ B(p <= o /\ o < q) = B(p <= o /\ o < q - 1) + B(o = q - 1)
         /\ p <= o /\ o < q - 1 => o < q
<1>1. CASE o = q - 1
  BY <1>1 DEF B
<1>2. CASE o # q - 1
  BY <1>2 DEF B
<1>3. QED
  BY <1>1, <1>2

LEMMA ForwardHolds == ASSUME TraceInv, ScanForward PROVE TraceInv'
<1>1. /\ tr.pc = "SCAN_FORWARD" /\ Still
  BY DEF ScanForward, TrAt, Still, cacheVars, regionVars, sentVars
<1>2. /\ tr.job \in TraceJobs /\ tr.job # NoJob /\ tr \in TraceRegs /\ heapWindow \in Int
      /\ tr.p \in Int /\ tr.q \in Int
  BY <1>1, AtWork
<1>3. /\ tr.job.kind \in {"array", "partial", "mirror"}
      /\ \A o \in Int : tr.p <= o /\ o < tr.q => o \in Fields(tr.job)
  BY <1>1 DEF TraceInv, Shape, Mode, FieldStates, InRange
<1>4. \A o : Left(o) = B(tr.p <= o /\ o < tr.q)
  BY <1>1, LeftIs DEF LeftKnown, InRange
<1>5. tr.pc \in MoveStates /\ tr.pc \notin StartStates
  BY <1>1 DEF MoveStates, StartStates, ScanStates
<1>7. ASSUME tr'.job = tr.job, tr'.pc \in {"FINISH", "READ_OOP"}, tr' \in TraceRegs,
             heapWindow' \in Int, \A o \in FieldItems : Left(o)' = Left(o), Shape'
      PROVE  TraceInv'
  <2>1. tr'.pc \in MoveStates \cup {"READ_OOP"} /\ tr'.pc \notin StartStates
    BY <1>7 DEF MoveStates, StartStates, ScanStates
  <2>2. Made'
    BY <1>1, <1>2, <1>5, <1>7, <2>1, ScanMade DEF Still, sentVars, Out
  <2>3. QED
    BY <1>1, <1>2, <1>5, <1>7, <2>1, <2>2, MoveHolds
<1>8. CASE tr.p < tr.q
  <2>1. /\ tr' = [tr EXCEPT !.pc = "READ_OOP", !.resume = "Forward", !.off = tr.p, !.p = tr.p + 1]
        /\ heapWindow' = heapWindow
    BY <1>8 DEF ScanForward
  <2>2. "READ_OOP" \in TraceStates /\ "Forward" \in Resumes /\ tr.p + 1 \in Int
    BY <1>2 DEF TraceStates, FieldStates, Resumes
  <2>3. tr' \in TraceRegs
    BY <1>2, <2>1, <2>2 DEF TraceRegs
  <2>4. /\ tr'.job = tr.job /\ tr'.pc = "READ_OOP" /\ tr'.resume = "Forward" /\ tr'.off = tr.p
        /\ tr'.p = tr.p + 1 /\ tr'.q = tr.q
    BY <1>2, <2>1 DEF TraceRegs
  <2>5. tr'.pc \in FieldStates
    BY <2>4 DEF FieldStates
  <2>6. ASSUME NEW o \in FieldItems PROVE Left(o)' = Left(o)
    <3>1. Left(o)' = B(tr.p + 1 <= o /\ o < tr.q) + B(o = tr.p)
      BY <2>4, <2>5, LeftNext DEF LeftKnown, InRange
    <3>2. QED
      BY <1>2, <1>4, <1>8, <3>1, FromLow, RangeType
  <2>7. Mode' = "SCAN_FORWARD"
    BY <2>4, <2>5 DEF Mode, ResumeState
  <2>8. Shape'
    <3>1. tr.p \in Fields(tr.job)
      BY <1>2, <1>3, <1>8
    <3>2. \A o \in Int : tr.p + 1 <= o /\ o < tr.q => o \in Fields(tr.job)
      BY <1>2, <1>3, <1>8, FromLow
    <3>3. QED
      BY <1>3, <2>4, <2>7, <3>1, <3>2 DEF Shape, InRange
  <2>9. QED
    BY <1>2, <1>7, <2>1, <2>3, <2>4, <2>6, <2>8
<1>9. CASE ~(tr.p < tr.q)
  <2>1. tr' = [tr EXCEPT !.pc = "FINISH"] /\ heapWindow' = NoWindow
    BY <1>9 DEF ScanForward, TrGoto
  <2>2. "FINISH" \in TraceStates /\ NoWindow \in Int
    BY DEF TraceStates, RestStates, NoWindow
  <2>3. tr' \in TraceRegs
    BY <1>2, <2>1, <2>2 DEF TraceRegs
  <2>4. tr'.job = tr.job /\ tr'.pc = "FINISH"
    BY <1>2, <2>1 DEF TraceRegs
  <2>5. ASSUME NEW o \in FieldItems PROVE Left(o)' = Left(o)
    <3>1. Left(o)' = 0
      BY <2>4, LeftNext DEF LeftKnown, RestStates
    <3>2. Left(o) = 0
      BY <1>2, <1>4, <1>9, RangeEmpty, RangeType DEF B
    <3>3. QED
      BY <3>1, <3>2
  <2>6. Shape'
    BY <2>4 DEF Shape, Mode, FieldStates
  <2>7. QED
    BY <1>7, <2>1, <2>2, <2>3, <2>4, <2>5, <2>6
<1>10. QED
  BY <1>8, <1>9

LEMMA BackwardHolds == ASSUME TraceInv, ScanBackward PROVE TraceInv'
<1>1. /\ tr.pc = "SCAN_BACKWARD" /\ Still
  BY DEF ScanBackward, TrAt, Still, cacheVars, regionVars, sentVars
<1>2. /\ tr.job \in TraceJobs /\ tr.job # NoJob /\ tr \in TraceRegs /\ heapWindow \in Int
      /\ tr.p \in Int /\ tr.q \in Int
  BY <1>1, AtWork
<1>3. /\ ~IsArray /\ tr.map <= Len(OopMaps[tr.job.klass])
      /\ \A o \in Int : tr.p <= o /\ o < tr.q => o \in Fields(tr.job)
  BY <1>1 DEF TraceInv, Shape, Mode, FieldStates, InRange
<1> DEFINE rest(o) == B(InMaps(tr.job, tr.map, o)) + After(tr.job, 0, o)
<1>r. \A o : rest(o) \in Nat
  <2> SUFFICES ASSUME NEW o PROVE rest(o) \in Nat
    OBVIOUS
  <2>1. B(InMaps(tr.job, tr.map, o)) \in Nat /\ After(tr.job, 0, o) \in Nat
    BY AfterType DEF B
  <2>2. QED
    BY <2>1
<1>4. \A o : Left(o) = B(tr.p <= o /\ o < tr.q) + rest(o)
  <2> SUFFICES ASSUME NEW o PROVE Left(o) = B(tr.p <= o /\ o < tr.q) + rest(o)
    OBVIOUS
  <2>1. Left(o) = B(InRange(o)) + B(InMaps(tr.job, tr.map, o)) + After(tr.job, 0, o)
    BY <1>1, LeftIs DEF LeftKnown
  <2>2. /\ B(InRange(o)) \in Nat /\ B(InMaps(tr.job, tr.map, o)) \in Nat
        /\ After(tr.job, 0, o) \in Nat
    BY AfterType DEF B
  <2>3. QED
    BY <2>1, <2>2 DEF InRange
<1>5. tr.pc \in MoveStates /\ tr.pc \notin StartStates
  BY <1>1 DEF MoveStates, StartStates, ScanStates
<1>7. ASSUME tr'.job = tr.job, tr'.pc \in {"SCAN_OOP_MAP", "READ_OOP"}, tr' \in TraceRegs,
             heapWindow' \in Int, \A o \in FieldItems : Left(o)' = Left(o), Shape'
      PROVE  TraceInv'
  <2>1. tr'.pc \in MoveStates \cup {"READ_OOP"} /\ tr'.pc \notin StartStates
    BY <1>7 DEF MoveStates, StartStates, ScanStates
  <2>2. Made'
    BY <1>1, <1>2, <1>5, <1>7, <2>1, ScanMade DEF Still, sentVars, Out
  <2>3. QED
    BY <1>1, <1>2, <1>5, <1>7, <2>1, <2>2, MoveHolds
<1>8. CASE tr.p < tr.q
  <2>1. /\ tr' = [tr EXCEPT !.pc = "READ_OOP", !.resume = "Backward", !.off = tr.q - 1,
                            !.q = tr.q - 1]
        /\ heapWindow' = heapWindow
    BY <1>8 DEF ScanBackward
  <2>2. "READ_OOP" \in TraceStates /\ "Backward" \in Resumes /\ tr.q - 1 \in Int
    BY <1>2 DEF TraceStates, FieldStates, Resumes
  <2>3. tr' \in TraceRegs
    BY <1>2, <2>1, <2>2 DEF TraceRegs
  <2>4. /\ tr'.job = tr.job /\ tr'.pc = "READ_OOP" /\ tr'.resume = "Backward" /\ tr'.off = tr.q - 1
        /\ tr'.p = tr.p /\ tr'.q = tr.q - 1 /\ tr'.map = tr.map
    BY <1>2, <2>1 DEF TraceRegs
  <2>5. tr'.pc \in FieldStates
    BY <2>4 DEF FieldStates
  <2>6. ASSUME NEW o \in FieldItems PROVE Left(o)' = Left(o)
    <3>1. Left(o)' = B(tr.p <= o /\ o < tr.q - 1) + B(InMaps(tr.job, tr.map, o))
                     + After(tr.job, 0, o) + B(o = tr.q - 1)
      BY <2>4, <2>5, LeftNext DEF LeftKnown, InRange
    <3>2. /\ B(tr.p <= o /\ o < tr.q - 1) \in Nat /\ B(InMaps(tr.job, tr.map, o)) \in Nat
          /\ After(tr.job, 0, o) \in Nat /\ B(o = tr.q - 1) \in Nat
      BY AfterType DEF B
    <3>3. Left(o)' = B(tr.p <= o /\ o < tr.q - 1) + B(o = tr.q - 1) + rest(o)
      BY <3>1, <3>2
    <3> HIDE DEF rest
    <3>4. QED
      BY <1>2, <1>4, <1>8, <3>3, FromHigh, RangeType
  <2>7. Mode' = "SCAN_BACKWARD"
    BY <2>4, <2>5 DEF Mode, ResumeState
  <2>8. Shape'
    <3>1. tr.q - 1 \in Fields(tr.job)
      BY <1>2, <1>3, <1>8
    <3>2. \A o \in Int : tr.p <= o /\ o < tr.q - 1 => o \in Fields(tr.job)
      BY <1>2, <1>3, <1>8, FromHigh
    <3>3. QED
      BY <1>3, <2>4, <2>7, <3>1, <3>2 DEF Shape, InRange, IsArray
  <2>9. QED
    BY <1>2, <1>7, <2>1, <2>3, <2>4, <2>6, <2>8
<1>9. CASE ~(tr.p < tr.q)
  <2>1. tr' = [tr EXCEPT !.pc = "SCAN_OOP_MAP"] /\ heapWindow' = NoWindow
    BY <1>9 DEF ScanBackward, TrGoto
  <2>2. "SCAN_OOP_MAP" \in TraceStates /\ NoWindow \in Int
    BY DEF TraceStates, ScanStates, NoWindow
  <2>3. tr' \in TraceRegs
    BY <1>2, <2>1, <2>2 DEF TraceRegs
  <2>4. tr'.job = tr.job /\ tr'.pc = "SCAN_OOP_MAP" /\ tr'.map = tr.map
    BY <1>2, <2>1 DEF TraceRegs
  <2>5. ASSUME NEW o \in FieldItems PROVE Left(o)' = Left(o)
    <3>1. Left(o)' = rest(o)
      BY <2>4, LeftNext DEF LeftKnown
    <3>2. B(tr.p <= o /\ o < tr.q) = 0
      BY <1>2, <1>9, RangeEmpty, RangeType DEF B
    <3> HIDE DEF rest
    <3>3. QED
      BY <1>r, <1>4, <3>1, <3>2
  <2>6. Shape'
    BY <1>3, <2>4 DEF Shape, Mode, FieldStates, IsArray
  <2>7. QED
    BY <1>7, <2>1, <2>2, <2>3, <2>4, <2>5, <2>6
<1>10. QED
  BY <1>8, <1>9

LEMMA ArrayHolds == ASSUME TraceInv, PrepareArray PROVE TraceInv'
<1> DEFINE low == tr.job.start
           high == IF tr.job.length > tr.job.step THEN tr.job.step ELSE tr.job.length
           stay == needCreateTask /\ tr.job.kind = "partial"
<1>1. /\ tr.pc = "PREPARE_ARRAY" /\ heapWindow' = heapWindow
      /\ UNCHANGED <<regionAttrCache, humRegionCache, candidates, regionMarked, carded>>
      /\ tr' = [tr EXCEPT !.p = low, !.q = high, !.remain = high - low,
                  !.created = IF stay THEN tr.created + 1 ELSE tr.created,
                  !.pc = IF stay THEN tr.pc ELSE "SCAN_FORWARD"]
  BY DEF PrepareArray, TrAt, cacheVars, regionVars
<1>2. /\ tr.job \in TraceJobs /\ tr.job # NoJob /\ tr \in TraceRegs /\ heapWindow \in Int
      /\ tr.created \in Nat
  BY <1>1, AtWork
<1>3. /\ IsArray /\ (tr.job.kind = "partial" => tr.created <= tr.job.ncreate)
      /\ TraceTyped /\ CachesKnow /\ Account
      /\ carded[ChunkTask] = 0
      /\ Out(ChunkTask) = IF tr.job.kind = "partial" THEN tr.created ELSE 0
  BY <1>1, <1>2 DEF TraceInv, Shape, Made
<1>4. /\ low \in Int /\ high \in Int /\ high - low \in Int /\ tr.job.ncreate \in Nat
      /\ tr.job.step \in Nat /\ tr.job.length \in Nat
  BY <1>2, JobType
<1>5. \A o \in Int : low <= o /\ o < high <=> o \in Fields(tr.job)
  BY <1>3, <1>4 DEF Fields, IsArray
<1>6. /\ handed' \in [Items -> Int] /\ pendingPush' \in Items \cup {NoPush}
      /\ \A i \in Items : Out(i)' = Out(i) + B(needCreateTask /\ i = ChunkTask)
  <2>1. handed \in [Items -> Int] /\ pendingPush \in Items \cup {NoPush}
    BY <1>3 DEF TraceTyped
  <2>2. CASE needCreateTask
    BY <2>1, <2>2, EnqueueOut, ItemsAre DEF PrepareArray, B
  <2>3. CASE ~needCreateTask
    <3>1. handed' = handed /\ pendingPush' = pendingPush
      BY <2>3 DEF PrepareArray
    <3>2. \A i \in Items : Out(i) \in Int /\ Out(i)' = Out(i)
      BY <2>1, <3>1 DEF Out, B
    <3>3. QED
      BY <2>1, <2>3, <3>1, <3>2 DEF B
  <2>4. QED
    BY <2>2, <2>3
<1>7. \A o \in FieldItems : Out(o)' = Out(o)
  <2> SUFFICES ASSUME NEW o \in FieldItems PROVE Out(o)' = Out(o)
    OBVIOUS
  <2>1. o \in Items /\ o # ChunkTask
    BY DEF FieldItems
  <2>2. Out(o) \in Int
    BY <1>3, <2>1 DEF TraceTyped, Out, B
  <2>3. QED
    BY <1>6, <2>1, <2>2 DEF B
<1>8. ASSUME tr' \in TraceRegs, tr'.job = tr.job, \A o \in FieldItems : Left(o)' = Left(o),
             tr'.pc \in {"PREPARE_ARRAY", "SCAN_FORWARD"}, Shape', Made'
      PROVE  TraceInv'
  <2>1. TraceTyped'
    BY <1>1, <1>2, <1>3, <1>6, <1>8 DEF TraceTyped
  <2>2. RawKnown'
    BY <1>8 DEF RawKnown, FieldStates
  <2>3. CachesKnow'
    BY <1>1, <1>3, <1>8 DEF CachesKnow, AtHand
  <2>4. Account'
    <3>1. \A r \in Humongous : Settled(r) => Settled(r)'
      BY <1>1 DEF Settled
    <3>2. QED
      BY <1>1, <1>2, <1>3, <1>7, <1>8, <3>1, StillAccount
  <2>5. QED
    BY <1>8, <2>1, <2>2, <2>3, <2>4 DEF TraceInv
<1>9. \A o : Left(o) = Visits(tr.job, o)
  BY <1>1, LeftIs DEF LeftKnown, StartStates
<1>10. Out(ChunkTask) \in Int /\ ChunkTask \in Items
  BY <1>2, <1>3, ItemsAre
<1>11. CASE stay
  <2>1. tr.job.kind = "partial" /\ needCreateTask /\ tr.created < tr.job.ncreate
    BY <1>11 DEF needCreateTask
  <2>2. PICK c \in Nat : c = tr.created + 1
    BY <1>2
  <2>3. tr' = [tr EXCEPT !.p = low, !.q = high, !.remain = high - low, !.created = c,
                         !.pc = "PREPARE_ARRAY"]
    BY <1>1, <1>11, <2>2
  <2>4. PICK l \in Int, h \in Int, n \in Int : l = low /\ h = high /\ n = high - low
    BY <1>4
  <2> HIDE DEF low, high, stay
  <2>5. /\ tr' \in TraceRegs /\ tr'.job = tr.job /\ tr'.pc = "PREPARE_ARRAY" /\ tr'.created = c
    <3>1. "PREPARE_ARRAY" \in TraceStates
      BY DEF TraceStates, StartStates
    <3>2. tr' = [tr EXCEPT !.p = l, !.q = h, !.remain = n, !.created = c, !.pc = "PREPARE_ARRAY"]
      BY <2>3, <2>4
    <3>3. QED
      BY <1>2, <2>2, <2>4, <3>1, <3>2 DEF TraceRegs
  <2>6. \A o \in FieldItems : Left(o)' = Left(o)
    BY <1>9, <2>5, LeftNext DEF LeftKnown, StartStates
  <2>7. Shape'
    BY <1>2, <1>3, <1>4, <2>1, <2>2, <2>5 DEF Shape, Mode, FieldStates, IsArray
  <2>8. Made'
    <3>1. Out(ChunkTask)' = c
      BY <1>2, <1>3, <1>6, <1>10, <2>1, <2>2 DEF B
    <3>2. QED
      BY <1>1, <1>3, <2>1, <2>5, <3>1 DEF Made
  <2>9. QED
    BY <1>8, <2>5, <2>6, <2>7, <2>8
<1>12. CASE ~stay
  <2>1. PICK l \in Int, h \in Int, n \in Int : l = low /\ h = high /\ n = high - low
    BY <1>4
  <2>2. tr' = [tr EXCEPT !.p = l, !.q = h, !.remain = n, !.created = tr.created,
                         !.pc = "SCAN_FORWARD"]
    BY <1>1, <1>12, <2>1
  <2>3. Out(ChunkTask)' = ChunkTasks(tr.job)
    <3>1. Out(ChunkTask)' = Out(ChunkTask) + B(needCreateTask)
      BY <1>6, <1>10 DEF B
    <3>2. CASE tr.job.kind = "partial"
      BY <1>2, <1>3, <1>4, <1>12, <3>1, <3>2 DEF needCreateTask, ChunkTasks, B
    <3>3. CASE tr.job.kind = "array"
      BY <1>3, <1>4, <3>1, <3>3 DEF needCreateTask, ChunkTasks, B
    <3>4. QED
      BY <1>3, <3>2, <3>3 DEF IsArray
  <2>4. \A o \in Int : l <= o /\ o < h <=> o \in Fields(tr.job)
    BY <1>5, <2>1
  <2>5. "SCAN_FORWARD" \in TraceStates
    BY DEF TraceStates, ScanStates
  <2>6. tr.job.kind \in {"array", "partial"}
    BY <1>3 DEF IsArray
  <2> HIDE DEF low, high, stay
  <2>7. tr' \in TraceRegs
    BY <1>2, <2>1, <2>2, <2>5 DEF TraceRegs
  <2>8. tr'.job = tr.job /\ tr'.pc = "SCAN_FORWARD" /\ tr'.p = l /\ tr'.q = h
    BY <1>2, <2>2 DEF TraceRegs
  <2>9. ASSUME NEW o \in FieldItems PROVE Left(o)' = Left(o)
    <3>1. Left(o)' = B(l <= o /\ o < h)
      BY <2>8, LeftNext DEF LeftKnown, InRange
    <3>2. Visits(tr.job, o) = B(o \in Fields(tr.job))
      BY <2>6 DEF Visits, Times, B
    <3>3. QED
      BY <1>9, <2>4, <3>1, <3>2, RangeType DEF B
  <2>10. Shape'
    BY <2>4, <2>6, <2>8 DEF Shape, Mode, FieldStates, InRange, IsArray
  <2>11. Made'
    BY <1>1, <1>3, <2>3, <2>8 DEF Made
  <2>12. QED
    BY <1>8, <2>7, <2>8, <2>9, <2>10, <2>11
<1>13. QED
  BY <1>11, <1>12

(* The steps of one field.                                                 *)
LEMMA FieldStays ==
  ASSUME TraceInv, tr.pc \in FieldStates, tr'.pc \in FieldStates,
         tr'.job = tr.job, tr'.p = tr.p, tr'.q = tr.q, tr'.map = tr.map, tr'.ref = tr.ref,
         tr'.off = tr.off, tr'.resume = tr.resume, tr'.created = tr.created,
         UNCHANGED <<pendingPush, handed, carded>>,
         \A r \in Humongous : Settled(r) => Settled(r)',
         TraceTyped', RawKnown', CachesKnow'
  PROVE  TraceInv'
<1>1. tr.job # NoJob /\ tr.pc \notin StartStates /\ tr'.pc \notin StartStates \cup {"IDLE"}
  BY AtWork DEF FieldStates, StartStates
<1>2. Mode' = Mode
  BY DEF Mode
<1>3. \A o : Left(o)' = Left(o) /\ Out(o)' = Out(o)
  <2> SUFFICES ASSUME NEW o PROVE Left(o)' = Left(o) /\ Out(o)' = Out(o)
    OBVIOUS
  <2>1. LeftFrom(Mode, o)' = LeftFrom(Mode, o)
    BY <1>2, SamePlace DEF LeftFrom, InRange
  <2>2. QED
    BY <2>1 DEF Left, Out
<1>4. Shape'
  BY <1>1, <1>2 DEF TraceInv, Shape, IsArray, InRange, StartStates
<1>5. Account'
  BY <1>1, <1>3, StillAccount DEF TraceInv
<1>6. Made'
  BY <1>1, <1>3, ScanMade
<1>7. QED
  BY <1>4, <1>5, <1>6 DEF TraceInv

LEMMA FieldEnds ==
  ASSUME TraceInv, tr.pc \in {"CHECK_OOP", "DECIDE_REGION", "SEND_AOP"}, FieldOver,
         tr' \in TraceRegs, tr'.created = tr.created, heapWindow' = heapWindow,
         regionAttrCache' = regionAttrCache, humRegionCache' = humRegionCache,
         handed' \in [Items -> Int], carded' \in [Items -> Int],
         pendingPush' \in Items \cup {NoPush},
         Out(ChunkTask)' = Out(ChunkTask), carded'[ChunkTask] = carded[ChunkTask]
  PROVE  TraceInv'
<1>1. /\ tr.job # NoJob /\ tr.resume \in Resumes /\ tr.pc \in FieldStates
      /\ tr.pc \notin StartStates /\ tr.pc # "IDLE"
  BY AtWork DEF FieldStates, StartStates
<1>2. tr'.pc \in ScanStates /\ tr'.pc \notin FieldStates \cup StartStates \cup {"IDLE"}
  BY <1>1, ResumesTo DEF FieldOver, ScanStates, StartStates, FieldStates
<1>3. TraceTyped'
  BY <1>1 DEF TraceInv, TraceTyped, FieldOver
<1>4. Shape'
  <2>1. Mode' = Mode
    BY <1>1, OverLeft
  <2>2. QED
    BY <1>2, <2>1 DEF TraceInv, Shape, FieldOver, IsArray, InRange, StartStates
<1>5. RawKnown'
  BY <1>2 DEF RawKnown, FieldStates
<1>6. CachesKnow'
  <2>1. /\ AtHand({"CLEAR_HUM_CANDIDATE", "MARK_HUM_REGION"}) = {}
        /\ AtHand({"CLEAR_HUM_CANDIDATE", "MARK_HUM_REGION"})' = {}
        /\ AtHand({"MARK_HUM_REGION"}) = {} /\ AtHand({"MARK_HUM_REGION"})' = {}
    BY <1>2 DEF AtHand, FieldStates
  <2>2. QED
    BY <2>1 DEF TraceInv, CachesKnow, FieldOver
<1>7. Account'
  <2>1. tr.off \in Fields(tr.job) /\ tr.raw = Target(tr.job, tr.off)
    BY <1>1 DEF TraceInv, Shape, RawKnown
  <2>2. QED
    BY <1>1, <2>1, OverAccount DEF TraceInv
<1>8. Made'
  BY <1>1, <1>2, ScanMade DEF FieldOver
<1>9. QED
  BY <1>3, <1>4, <1>5, <1>6, <1>7, <1>8 DEF TraceInv

\* The window holds the reference that is read from it.
LEMMA WindowRead ==
  ASSUME TraceInv, ReadOop
  PROVE  heapWindow' \in Int /\ tr'.raw = Target(tr.job, tr.off)
<1>1. /\ tr \in TraceRegs /\ heapWindow \in Int /\ tr.job \in TraceJobs /\ tr.off \in Int
  BY AtWork DEF ReadOop, TrAt
<1>2. src \in Int /\ Target(tr.job, tr.off) = Heap[src]
  BY <1>1, JobType DEF src, Target
<1>3. PICK s \in Int : s = src
  BY <1>2
<1>4. PICK n \in Nat \ {0} : n = LineElems
  BY TraceConstants
<1>5. /\ s % n \in 0 .. n - 1
      /\ \A k \in 0 .. n - 1 : k % n = k
  BY <1>4
<1>6. heapWindow' \in Int /\ (windowHit \/ tr.remain # 1 => src \in heapWindow' .. heapWindow' + LineElems - 1)
  <2>1. CASE windowHit \/ tr.remain = 1
    BY <1>1, <2>1 DEF ReadOop, windowHit
  <2>2. CASE ~(windowHit \/ tr.remain = 1)
    <3>1. heapWindow' \in {s - (s % n), s - (n - 1), s}
      BY <1>3, <1>4, <2>2 DEF ReadOop, alignedBase, shiftedBase
    <3>2. \A w \in {s - (s % n), s - (n - 1), s} : w \in Int /\ s \in w .. w + n - 1
      <4>1. PICK m \in 0 .. n - 1 : m = s % n
        BY <1>5
      <4>2. \A w \in {s - m, s - (n - 1), s} : w \in Int /\ s \in w .. w + n - 1
        BY <4>1
      <4>3. QED
        BY <4>1, <4>2
    <3>3. QED
      BY <1>3, <1>4, <3>1, <3>2
  <2>3. QED
    BY <2>1, <2>2
<1>7. tr'.raw = IF windowHit \/ tr.remain # 1
                THEN Heap[heapWindow' + ((src - heapWindow') % LineElems)] ELSE Heap[src]
  BY <1>1 DEF ReadOop, TraceRegs
<1>8. ASSUME windowHit \/ tr.remain # 1
      PROVE  heapWindow' + ((src - heapWindow') % LineElems) = src
  <2>1. PICK w \in Int : w = heapWindow'
    BY <1>6
  <2>2. s \in w .. w + n - 1
    BY <1>3, <1>4, <1>6, <1>8, <2>1
  <2>3. s - w \in 0 .. n - 1
    BY <2>2
  <2>4. (s - w) % n = s - w
    BY <1>5, <2>3
  <2>5. w + ((s - w) % n) = s
    BY <2>4
  <2>6. QED
    BY <1>3, <1>4, <2>1, <2>5
<1>9. QED
  BY <1>2, <1>6, <1>7, <1>8

LEMMA ReadHolds == ASSUME TraceInv, ReadOop PROVE TraceInv'
<1>1. /\ tr.pc = "READ_OOP" /\ Still
      /\ tr' = [tr EXCEPT !.pc = "CHECK_OOP", !.remain = tr.remain - 1, !.raw = tr'.raw]
  <2>1. tr \in TraceRegs
    BY AtWork DEF ReadOop, TrAt
  <2>2. tr' = [tr EXCEPT !.pc = "CHECK_OOP", !.remain = tr.remain - 1,
              !.raw = IF windowHit \/ tr.remain # 1
                      THEN Heap[heapWindow' + ((src - heapWindow') % LineElems)] ELSE Heap[src]]
    BY DEF ReadOop
  <2>3. tr'.raw = IF windowHit \/ tr.remain # 1
                  THEN Heap[heapWindow' + ((src - heapWindow') % LineElems)] ELSE Heap[src]
    BY <2>1, <2>2 DEF TraceRegs
  <2>4. QED
    BY <2>2, <2>3 DEF ReadOop, TrAt, Still, cacheVars, regionVars, sentVars
<1>2. /\ tr.job \in TraceJobs /\ tr.job # NoJob /\ tr \in TraceRegs /\ tr.remain \in Int
      /\ tr.off \in Int
  BY <1>1, AtWork
<1>3. heapWindow' \in Int /\ tr'.raw = Target(tr.job, tr.off)
  BY WindowRead
<1>4. tr'.raw \in Oops
  BY <1>2, <1>3, JobType DEF Target, Oops
<1>5. "CHECK_OOP" \in FieldStates /\ "CHECK_OOP" \in TraceStates /\ tr.pc \in FieldStates
  BY <1>1 DEF FieldStates, TraceStates
<1>6. PICK n \in Int, x \in Oops : n = tr.remain - 1 /\ x = tr'.raw
  BY <1>2, <1>4
<1>7. tr' = [tr EXCEPT !.pc = "CHECK_OOP", !.remain = n, !.raw = x]
  BY <1>1, <1>6
<1>8. tr' \in TraceRegs
  BY <1>2, <1>5, <1>6, <1>7 DEF TraceRegs
<1>9. /\ tr'.pc = "CHECK_OOP" /\ tr'.job = tr.job /\ tr'.p = tr.p /\ tr'.q = tr.q
      /\ tr'.map = tr.map /\ tr'.ref = tr.ref /\ tr'.off = tr.off /\ tr'.resume = tr.resume
      /\ tr'.created = tr.created
  BY <1>2, <1>7 DEF TraceRegs
<1>10. TraceTyped'
  BY <1>2, <1>3, <1>8, <1>9, <1>1 DEF TraceInv, TraceTyped, Still, regionVars, sentVars
<1>11. RawKnown'
  BY <1>3, <1>9 DEF RawKnown
<1>12. CachesKnow'
  BY <1>1, <1>9 DEF TraceInv, CachesKnow, AtHand, Still, regionVars
<1>13. QED
  BY <1>1, <1>5, <1>9, <1>10, <1>11, <1>12, FieldStays DEF Still, regionVars, sentVars, Settled

\* Nothing of the field had to be sent.
LEMMA NothingSent ==
  ASSUME TraceInv, tr.job # NoJob, pendingPush' = pendingPush, handed' = handed, carded' = carded,
         tr.raw \notin CsetOops, tr.raw \in OwnOops \cup {NullOop}
  PROVE  /\ \A o \in FieldItems :
              /\ Out(o)' = Out(o) + B(o = tr.off /\ tr.raw \in CsetOops)
              /\ carded'[o] = carded[o] + B(/\ o = tr.off /\ ~tr.job.young
                                            /\ tr.raw \notin CsetOops \cup OwnOops \cup {NullOop})
         /\ Out(ChunkTask)' = Out(ChunkTask) /\ tr.raw \notin DOMAIN HumongousAt
<1>1. \A o \in Items : Out(o) \in Int /\ carded[o] \in Int
  BY DEF TraceInv, TraceTyped, Out, B
<1>2. \A o : Out(o)' = Out(o)
  BY DEF Out
<1>3. tr.raw \notin DOMAIN HumongousAt
  BY TraceConstants
<1>4. QED
  BY <1>1, <1>2, <1>3, ItemsAre DEF B

\* The field points into the collection set: it is a task now.
LEMMA TaskSent ==
  ASSUME TraceInv, tr.job # NoJob, tr.off \in Fields(tr.job), enqueueTask(tr.off), carded' = carded,
         tr.raw \in CsetOops
  PROVE  /\ \A o \in FieldItems :
              /\ Out(o)' = Out(o) + B(o = tr.off /\ tr.raw \in CsetOops)
              /\ carded'[o] = carded[o] + B(/\ o = tr.off /\ ~tr.job.young
                                            /\ tr.raw \notin CsetOops \cup OwnOops \cup {NullOop})
         /\ Out(ChunkTask)' = Out(ChunkTask) /\ tr.raw \notin DOMAIN HumongousAt
         /\ handed' \in [Items -> Int] /\ pendingPush' \in Items \cup {NoPush}
<1>1. \A o \in Items : Out(o) \in Int /\ carded[o] \in Int
  BY DEF TraceInv, TraceTyped, Out, B
<1>2. tr.job \in TraceJobs /\ tr.off \in FieldItems /\ tr.off \in Items /\ tr.off # ChunkTask
  BY ItemsAre DEF TraceInv, TraceTyped, TraceRegs, FieldItems
<1>3. /\ handed' \in [Items -> Int] /\ pendingPush' \in Items
      /\ \A i \in Items : Out(i)' = Out(i) + B(i = tr.off)
  BY <1>2, EnqueueOut DEF TraceInv, TraceTyped
<1>4. tr.raw \notin DOMAIN HumongousAt
  BY TraceConstants
<1>5. Out(ChunkTask)' = Out(ChunkTask)
  BY <1>1, <1>2, <1>3, ItemsAre DEF B
<1>6. \A o \in FieldItems : Out(o)' = Out(o) + B(o = tr.off /\ tr.raw \in CsetOops)
  BY <1>3, ItemsAre DEF B
<1>7. \A o \in FieldItems :
        carded'[o] = carded[o] + B(/\ o = tr.off /\ ~tr.job.young
                                   /\ tr.raw \notin CsetOops \cup OwnOops \cup {NullOop})
  BY <1>1, ItemsAre DEF B
<1>8. QED
  BY <1>3, <1>4, <1>5, <1>6, <1>7

LEMMA DecideHolds ==
  ASSUME TraceInv, tr.pc \in {"CHECK_OOP", "DECIDE_REGION"},
         NEW attr \in {"cset", "humongous", "other"}, NEW then \in TraceRegs, Decide(attr, then),
         then.job = tr.job, then.p = tr.p, then.q = tr.q, then.map = tr.map, then.ref = tr.ref,
         then.off = tr.off, then.resume = tr.resume, then.created = tr.created, then.raw = tr.raw,
         tr.raw # NullOop, attr = "cset" <=> tr.raw \in CsetOops,
         attr = "other" /\ RegionOf(tr.raw) \in Humongous => RegionOf(tr.raw) \in regionMarked,
         UNCHANGED <<heapWindow, regionAttrCache, humRegionCache, candidates, regionMarked>>
  PROVE  TraceInv'
<1>1. /\ tr.job \in TraceJobs /\ tr.job # NoJob /\ tr.resume \in Resumes /\ tr.pc \in FieldStates
  BY AtWork DEF FieldStates
<1>2. /\ TraceTyped /\ CachesKnow /\ tr.off \in Fields(tr.job)
      /\ tr.raw = Target(tr.job, tr.off)
  BY <1>1 DEF TraceInv, Shape, RawKnown
<1>3. \/ /\ attr = "cset" /\ enqueueTask(tr.off) /\ carded' = carded
         /\ tr' = [then EXCEPT !.pc = ResumeState(tr.resume)]
      \/ /\ attr # "cset" /\ tr.raw \notin OwnOops
         /\ tr' = [then EXCEPT !.pc = IF attr = "humongous" THEN "CHECK_HUMONGOUS" ELSE "SEND_AOP"]
         /\ UNCHANGED <<pendingPush, handed, carded>>
      \/ /\ attr # "cset" /\ tr.raw \in OwnOops
         /\ tr' = [then EXCEPT !.pc = ResumeState(tr.resume)]
         /\ UNCHANGED <<pendingPush, handed, carded>>
  <2>1. CASE attr = "cset"
    BY <2>1 DEF Decide
  <2>2. CASE attr # "cset" /\ crossesRegion
    BY <2>2 DEF Decide, crossesRegion, sentVars
  <2>3. CASE attr # "cset" /\ ~crossesRegion
    BY <2>3 DEF Decide, crossesRegion, sentVars
  <2>4. QED
    BY <2>1, <2>2, <2>3
<1>4. ASSUME NEW s \in TraceStates, tr' = [then EXCEPT !.pc = s]
      PROVE  /\ tr' \in TraceRegs /\ tr'.pc = s
             /\ tr'.job = tr.job /\ tr'.p = tr.p /\ tr'.q = tr.q /\ tr'.map = tr.map
             /\ tr'.ref = tr.ref /\ tr'.off = tr.off /\ tr'.resume = tr.resume
             /\ tr'.created = tr.created /\ tr'.raw = tr.raw
  BY <1>4 DEF TraceRegs
<1>5. ResumeState(tr.resume) \in TraceStates
  BY <1>1, ResumesTo DEF TraceStates, ScanStates
<1>6. ASSUME tr' = [then EXCEPT !.pc = ResumeState(tr.resume)], carded' = carded,
             handed' \in [Items -> Int], pendingPush' \in Items \cup {NoPush},
             \A o \in FieldItems :
               /\ Out(o)' = Out(o) + B(o = tr.off /\ tr.raw \in CsetOops)
               /\ carded'[o] = carded[o] + B(/\ o = tr.off /\ ~tr.job.young
                                             /\ tr.raw \notin CsetOops \cup OwnOops \cup {NullOop}),
             Out(ChunkTask)' = Out(ChunkTask), tr.raw \notin DOMAIN HumongousAt
      PROVE  TraceInv'
  <2>1. FieldOver
    BY <1>4, <1>5, <1>6 DEF FieldOver
  <2>2. tr' \in TraceRegs /\ tr'.created = tr.created
    BY <1>4, <1>5, <1>6
  <2>3. carded' \in [Items -> Int]
    BY <1>2, <1>6 DEF TraceTyped
  <2>4. QED
    BY <1>6, <2>1, <2>2, <2>3, FieldEnds
<1>7. CASE /\ attr = "cset" /\ enqueueTask(tr.off) /\ carded' = carded
           /\ tr' = [then EXCEPT !.pc = ResumeState(tr.resume)]
  BY <1>1, <1>2, <1>6, <1>7, TaskSent
<1>8. CASE /\ attr # "cset" /\ tr.raw \in OwnOops
           /\ tr' = [then EXCEPT !.pc = ResumeState(tr.resume)]
           /\ UNCHANGED <<pendingPush, handed, carded>>
  <2>1. handed' \in [Items -> Int] /\ pendingPush' \in Items \cup {NoPush}
    BY <1>2, <1>8 DEF TraceTyped
  <2>2. QED
    BY <1>1, <1>6, <1>8, <2>1, NothingSent
<1>9. CASE /\ attr # "cset" /\ tr.raw \notin OwnOops
           /\ tr' = [then EXCEPT !.pc = IF attr = "humongous" THEN "CHECK_HUMONGOUS" ELSE "SEND_AOP"]
           /\ UNCHANGED <<pendingPush, handed, carded>>
  <2> DEFINE s == IF attr = "humongous" THEN "CHECK_HUMONGOUS" ELSE "SEND_AOP"
  <2>1. s \in TraceStates /\ s \in FieldStates /\ s \in {"CHECK_HUMONGOUS", "SEND_AOP"}
    BY DEF TraceStates, FieldStates
  <2>2. tr' = [then EXCEPT !.pc = s]
    BY <1>9
  <2>3. s = "SEND_AOP" => attr = "other"
    BY <1>9
  <2> HIDE DEF s
  <2>4. /\ tr' \in TraceRegs /\ tr'.pc = s
        /\ tr'.job = tr.job /\ tr'.p = tr.p /\ tr'.q = tr.q /\ tr'.map = tr.map
        /\ tr'.ref = tr.ref /\ tr'.off = tr.off /\ tr'.resume = tr.resume
        /\ tr'.created = tr.created /\ tr'.raw = tr.raw
    BY <1>4, <2>1, <2>2
  <2>5. TraceTyped'
    BY <1>1, <1>2, <1>9, <2>4 DEF TraceTyped
  <2>6. RawKnown'
    <3>1. s = "SEND_AOP" /\ RegionOf(tr.raw) \in Humongous => Settled(RegionOf(tr.raw))
      BY <1>2, <2>3 DEF CachesKnow, Settled
    <3>2. tr.raw \notin CsetOops
      BY <1>9
    <3>3. QED
      BY <1>2, <1>9, <2>1, <2>4, <3>1, <3>2 DEF RawKnown, Settled
  <2>7. CachesKnow'
    BY <1>2, <2>1, <2>4 DEF CachesKnow, AtHand
  <2>8. \A r \in Humongous : Settled(r) => Settled(r)'
    BY DEF Settled
  <2>9. QED
    BY <1>1, <1>9, <2>1, <2>4, <2>5, <2>6, <2>7, <2>8, FieldStays
<1>10. QED
  BY <1>3, <1>7, <1>8, <1>9

LEMMA CheckHolds == ASSUME TraceInv, CheckOop PROVE TraceInv'
<1>1. /\ tr.pc = "CHECK_OOP" /\ UNCHANGED <<heapWindow, humRegionCache, candidates, regionMarked>>
  BY DEF CheckOop, TrAt, regionVars
<1>2. /\ tr.job \in TraceJobs /\ tr.job # NoJob /\ tr \in TraceRegs /\ tr.raw \in Oops
      /\ tr.resume \in Resumes /\ tr.pc \in FieldStates
  BY <1>1, AtWork DEF FieldStates
<1>3. /\ TraceTyped /\ CachesKnow /\ tr.off \in Fields(tr.job)
      /\ tr.raw = Target(tr.job, tr.off)
  BY <1>1, <1>2 DEF TraceInv, Shape, RawKnown
<1>4. CASE tr.raw = NullOop
  <2>1. /\ tr' = [tr EXCEPT !.pc = ResumeState(tr.resume)]
        /\ pendingPush' = pendingPush /\ regionAttrCache' = regionAttrCache
        /\ handed' = handed /\ carded' = carded
    BY <1>4 DEF CheckOop, resumeTraversal, TrGoto, sentVars
  <2>2. ResumeState(tr.resume) \in TraceStates
    BY <1>2, ResumesTo DEF TraceStates, ScanStates
  <2>3. /\ tr' \in TraceRegs /\ tr'.pc = ResumeState(tr.resume) /\ tr'.created = tr.created
        /\ tr'.job = tr.job /\ tr'.p = tr.p /\ tr'.q = tr.q /\ tr'.map = tr.map /\ tr'.ref = tr.ref
    BY <1>2, <2>1, <2>2 DEF TraceRegs
  <2>4. tr.raw \notin CsetOops
    BY <1>4, TraceConstants
  <2>5. /\ \A o \in FieldItems :
             /\ Out(o)' = Out(o) + B(o = tr.off /\ tr.raw \in CsetOops)
             /\ carded'[o] = carded[o] + B(/\ o = tr.off /\ ~tr.job.young
                                           /\ tr.raw \notin CsetOops \cup OwnOops \cup {NullOop})
        /\ Out(ChunkTask)' = Out(ChunkTask) /\ tr.raw \notin DOMAIN HumongousAt
    BY <1>2, <1>4, <2>1, <2>4, NothingSent
  <2>6. FieldOver
    BY <1>1, <2>3, <2>5 DEF FieldOver
  <2>7. /\ handed' \in [Items -> Int] /\ carded' \in [Items -> Int]
        /\ pendingPush' \in Items \cup {NoPush}
    BY <1>3, <2>1 DEF TraceTyped
  <2>8. QED
    BY <1>1, <2>1, <2>3, <2>5, <2>6, <2>7, FieldEnds
<1>5. CASE tr.raw # NullOop /\ AttrHits # {}
  <2>1. PICK i \in AttrHits : i = CHOOSE k \in AttrHits : TRUE
    BY <1>5
  <2>2. /\ i \in DOMAIN regionAttrCache /\ regionAttrCache[i].region = RegionOf(tr.raw)
        /\ regionAttrCache[i] \in AttrEntry
    BY <1>3, <2>1, ElementOf DEF AttrHits, TraceTyped
  <2>3. PICK attr \in {"cset", "humongous", "other"} : attr = regionAttrCache[i].attr
    BY <2>2 DEF AttrEntry
  <2>4. Decide(attr, [tr EXCEPT !.attr = attr]) /\ regionAttrCache' = regionAttrCache
    BY <1>5, <2>1, <2>3 DEF CheckOop
  <2>5. /\ attr = "cset" <=> tr.raw \in CsetOops
        /\ attr = "other" /\ RegionOf(tr.raw) \in Humongous => RegionOf(tr.raw) \in regionMarked
    BY <1>3, <2>2, <2>3, RegionCset DEF CachesKnow
  <2>6. PICK then : then = [tr EXCEPT !.attr = attr]
    OBVIOUS
  <2>7. /\ then \in TraceRegs
        /\ then.job = tr.job /\ then.p = tr.p /\ then.q = tr.q /\ then.map = tr.map
        /\ then.ref = tr.ref /\ then.off = tr.off /\ then.resume = tr.resume
        /\ then.created = tr.created /\ then.raw = tr.raw
    BY <1>2, <2>6 DEF TraceRegs
  <2>8. QED
    BY <1>1, <1>5, <2>4, <2>5, <2>6, <2>7, DecideHolds
<1>6. CASE tr.raw # NullOop /\ AttrHits = {}
  <2> DEFINE attr == AttrInMemory(tr.raw)
             entry == [region |-> RegionOf(tr.raw), attr |-> attr]
  <2>1. /\ tr' = [tr EXCEPT !.pc = "DECIDE_REGION", !.attr = attr]
        /\ regionAttrCache' = Cached(regionAttrCache, entry, RegionAttrCacheEntries)
        /\ pendingPush' = pendingPush /\ handed' = handed /\ carded' = carded
    BY <1>6 DEF CheckOop, sentVars
  <2>2. /\ attr \in {"cset", "humongous", "other"} /\ (attr = "cset" <=> tr.raw \in CsetOops)
        /\ attr = "other" /\ RegionOf(tr.raw) \in Humongous => RegionOf(tr.raw) \in regionMarked
    <3>1. CASE tr.raw \in CsetOops
      <4>1. RegionOf(tr.raw) \notin Humongous
        BY <3>1, RegionCset, TraceConstants
      <4>2. QED
        BY <3>1, <4>1 DEF AttrInMemory
    <3>2. CASE tr.raw \notin CsetOops /\ RegionOf(tr.raw) \in Humongous \ regionMarked
      BY <3>2 DEF AttrInMemory
    <3>3. CASE tr.raw \notin CsetOops /\ RegionOf(tr.raw) \notin Humongous \ regionMarked
      BY <3>3 DEF AttrInMemory
    <3>4. QED
      BY <3>1, <3>2, <3>3
  <2>3. entry \in AttrEntry
    BY <1>2, <2>2 DEF AttrEntry
  <2> HIDE DEF attr
  <2>4. /\ tr' \in TraceRegs /\ tr'.pc = "DECIDE_REGION" /\ tr'.attr = attr
        /\ tr'.job = tr.job /\ tr'.p = tr.p /\ tr'.q = tr.q /\ tr'.map = tr.map
        /\ tr'.ref = tr.ref /\ tr'.off = tr.off /\ tr'.resume = tr.resume
        /\ tr'.created = tr.created /\ tr'.raw = tr.raw
    <3>1. "DECIDE_REGION" \in TraceStates
      BY DEF TraceStates, FieldStates
    <3>2. QED
      BY <1>2, <2>1, <2>2, <3>1 DEF TraceRegs
  <2>5. /\ regionAttrCache' \in Seq(AttrEntry)
        /\ \A i \in DOMAIN regionAttrCache' :
             \/ regionAttrCache'[i] = entry
             \/ \E k \in DOMAIN regionAttrCache : regionAttrCache'[i] = regionAttrCache[k]
    BY <1>3, <2>1, <2>3, CachedHolds, TraceConstants DEF TraceTyped
  <2>6. TraceTyped'
    BY <1>1, <1>3, <2>1, <2>4, <2>5 DEF TraceTyped
  <2>7. RawKnown'
    BY <1>1, <1>3, <1>6, <2>2, <2>4 DEF RawKnown
  <2>8. CachesKnow'
    <3>1. ASSUME NEW i \in DOMAIN regionAttrCache'
          PROVE  LET e == regionAttrCache'[i] IN
                 /\ e.attr = "cset" <=> e.region \in CsetOops
                 /\ e.attr = "other" /\ e.region \in Humongous => e.region \in regionMarked'
      <4>1. CASE regionAttrCache'[i] = entry
        BY <1>1, <2>2, <4>1, RegionCset
      <4>2. CASE \E k \in DOMAIN regionAttrCache : regionAttrCache'[i] = regionAttrCache[k]
        BY <1>1, <1>3, <4>2 DEF CachesKnow
      <4>3. QED
        BY <2>5, <4>1, <4>2
    <3>2. /\ AtHand({"CLEAR_HUM_CANDIDATE", "MARK_HUM_REGION"}) = {}
          /\ AtHand({"CLEAR_HUM_CANDIDATE", "MARK_HUM_REGION"})' = {}
          /\ AtHand({"MARK_HUM_REGION"}) = {} /\ AtHand({"MARK_HUM_REGION"})' = {}
      BY <1>1, <2>4 DEF AtHand
    <3>3. QED
      BY <1>1, <1>3, <3>1, <3>2 DEF CachesKnow
  <2>9. tr'.pc \in FieldStates /\ \A r \in Humongous : Settled(r) => Settled(r)'
    BY <1>1, <2>4 DEF FieldStates, Settled
  <2>10. QED
    BY <1>2, <2>1, <2>4, <2>6, <2>7, <2>8, <2>9, FieldStays
<1>7. QED
  BY <1>4, <1>5, <1>6

LEMMA RegionHolds == ASSUME TraceInv, DecideRegion PROVE TraceInv'
<1>1. /\ tr.pc = "DECIDE_REGION" /\ Decide(tr.attr, tr)
      /\ UNCHANGED <<heapWindow, regionAttrCache, humRegionCache, candidates, regionMarked>>
  BY DEF DecideRegion, TrAt, cacheVars, regionVars
<1>2. tr \in TraceRegs /\ tr.attr \in {"none", "cset", "humongous", "other"}
  BY <1>1, AtWork
<1>3. /\ tr.attr # "none" /\ (tr.attr = "cset" <=> tr.raw \in CsetOops) /\ tr.raw # NullOop
      /\ tr.attr = "other" /\ RegionOf(tr.raw) \in Humongous => RegionOf(tr.raw) \in regionMarked
  BY <1>1 DEF TraceInv, RawKnown, FieldStates
<1>4. tr.attr \in {"cset", "humongous", "other"}
  BY <1>2, <1>3
<1>5. QED
  BY <1>1, <1>2, <1>3, <1>4, DecideHolds

\* What the steps on a humongous region have in common.
LEMMA HumFacts ==
  ASSUME TraceInv, tr.pc \in {"CHECK_HUMONGOUS", "CLEAR_HUM_CANDIDATE", "MARK_HUM_REGION", "SEND_AOP"}
  PROVE  /\ tr.job \in TraceJobs /\ tr.job # NoJob /\ tr \in TraceRegs /\ tr.resume \in Resumes
         /\ tr.pc \in FieldStates /\ tr.off \in Fields(tr.job) /\ tr.raw = Target(tr.job, tr.off)
         /\ tr.raw # NullOop /\ tr.raw \notin CsetOops \cup OwnOops /\ tr.raw \in Oops
         /\ TraceTyped /\ CachesKnow
BY AtWork DEF TraceInv, Shape, RawKnown, FieldStates

LEMMA HumStays ==
  ASSUME TraceInv, tr.pc \in {"CHECK_HUMONGOUS", "CLEAR_HUM_CANDIDATE", "MARK_HUM_REGION"},
         NEW r, r = RegionOf(tr.raw),
         NEW s \in {"CLEAR_HUM_CANDIDATE", "MARK_HUM_REGION", "SEND_AOP"},
         TrGoto(s), UNCHANGED <<heapWindow, pendingPush, regionAttrCache, handed, carded>>,
         humRegionCache' \in Seq({RegionOf(o) : o \in Oops}),
         \A q \in Humongous : Settled(q) => Settled(q)', CachesKnow',
         s = "SEND_AOP" /\ r \in Humongous => Settled(r)',
         s = "CLEAR_HUM_CANDIDATE" => r \in candidates',
         s = "MARK_HUM_REGION" => r \notin candidates'
  PROVE  TraceInv'
<1>1. /\ tr.job \in TraceJobs /\ tr.job # NoJob /\ tr \in TraceRegs /\ tr.resume \in Resumes
      /\ tr.pc \in FieldStates /\ tr.raw = Target(tr.job, tr.off)
      /\ tr.raw # NullOop /\ tr.raw \notin CsetOops \cup OwnOops /\ TraceTyped
  BY HumFacts
<1>2. s \in TraceStates /\ s \in FieldStates
  BY DEF TraceStates, FieldStates
<1>3. /\ tr' \in TraceRegs /\ tr'.pc = s
      /\ tr'.job = tr.job /\ tr'.p = tr.p /\ tr'.q = tr.q /\ tr'.map = tr.map
      /\ tr'.ref = tr.ref /\ tr'.off = tr.off /\ tr'.resume = tr.resume
      /\ tr'.created = tr.created /\ tr'.raw = tr.raw
  BY <1>1, <1>2 DEF TrGoto, TraceRegs
<1>4. TraceTyped'
  BY <1>1, <1>3 DEF TraceTyped
<1>5. RawKnown'
  BY <1>1, <1>2, <1>3 DEF RawKnown, Settled
<1>6. QED
  BY <1>1, <1>2, <1>3, <1>4, <1>5, FieldStays

LEMMA CheckHumHolds == ASSUME TraceInv, CheckHumongous PROVE TraceInv'
<1>r. PICK r : r = RegionOf(tr.raw)
  OBVIOUS
<1>1. /\ tr.pc = "CHECK_HUMONGOUS"
      /\ UNCHANGED <<heapWindow, pendingPush, regionAttrCache, candidates, regionMarked, handed, carded>>
  BY DEF CheckHumongous, TrAt, regionVars, sentVars
<1>2. /\ tr.raw \in Oops /\ TraceTyped /\ CachesKnow /\ tr \in TraceRegs
  BY <1>r, <1>1, HumFacts
<1>3. /\ \A i \in DOMAIN humRegionCache : humRegionCache[i] \in Humongous =>
           humRegionCache[i] \in regionMarked
      /\ regionMarked \cap candidates = {} /\ Humongous \ candidates \subseteq regionMarked
  BY <1>r, <1>1, <1>2 DEF CachesKnow, AtHand
<1>4. \A q \in Humongous : Settled(q) => Settled(q)'
  BY <1>r, <1>1 DEF Settled
<1>5. r \in {RegionOf(o) : o \in Oops}
  BY <1>r, <1>2
<1>6. CASE Holds(humRegionCache, r)
  <2>1. TrGoto("SEND_AOP") /\ humRegionCache' = humRegionCache
    BY <1>r, <1>6 DEF CheckHumongous
  <2>2. r \in Humongous => Settled(r)'
    BY <1>r, <1>1, <1>3, <1>6 DEF Holds, Settled
  <2>3. tr'.pc = "SEND_AOP"
    BY <1>r, <1>2, <2>1 DEF TrGoto, TraceRegs
  <2>4. CachesKnow'
    BY <1>r, <1>1, <1>2, <1>3, <2>1, <2>3 DEF CachesKnow, AtHand
  <2>5. humRegionCache' \in Seq({RegionOf(o) : o \in Oops})
    BY <1>r, <1>2, <2>1 DEF TraceTyped
  <2>6. QED
    BY <1>r, <1>1, <1>4, <2>1, <2>2, <2>4, <2>5, HumStays
<1>7. CASE ~Holds(humRegionCache, r)
  <2> DEFINE s == IF r \in candidates THEN "CLEAR_HUM_CANDIDATE" ELSE "SEND_AOP"
  <2>1. TrGoto(s) /\ humRegionCache' = Cached(humRegionCache, r, HumRegionCacheEntries)
    BY <1>r, <1>7 DEF CheckHumongous
  <2>2. /\ humRegionCache' \in Seq({RegionOf(o) : o \in Oops})
        /\ \A i \in DOMAIN humRegionCache' :
             \/ humRegionCache'[i] = r
             \/ \E k \in DOMAIN humRegionCache : humRegionCache'[i] = humRegionCache[k]
    <3>1. PICK R : R = {RegionOf(o) : o \in Oops}
      OBVIOUS
    <3>2. humRegionCache \in Seq(R) /\ r \in R /\ HumRegionCacheEntries \in Nat \ {0}
      BY <1>2, <1>5, <3>1, TraceConstants DEF TraceTyped
    <3>3. /\ Cached(humRegionCache, r, HumRegionCacheEntries) \in Seq(R)
          /\ \A i \in DOMAIN Cached(humRegionCache, r, HumRegionCacheEntries) :
               \/ Cached(humRegionCache, r, HumRegionCacheEntries)[i] = r
               \/ \E k \in DOMAIN humRegionCache :
                    Cached(humRegionCache, r, HumRegionCacheEntries)[i] = humRegionCache[k]
      BY <3>2, CachedHolds
    <3>4. QED
      BY <2>1, <3>1, <3>3
  <2>3. /\ s \in {"CLEAR_HUM_CANDIDATE", "SEND_AOP"} /\ (s = "CLEAR_HUM_CANDIDATE" <=> r \in candidates)
    OBVIOUS
  <2> HIDE DEF s
  <2>4. tr'.pc = s /\ RegionOf(tr'.raw) = r
    BY <1>r, <1>2, <2>1 DEF TrGoto, TraceRegs
  <2>5. s = "SEND_AOP" /\ r \in Humongous => r \in regionMarked /\ Settled(r)'
    BY <1>r, <1>1, <1>3, <2>3 DEF Settled
  <2>6. CachesKnow'
    <3>1. /\ AtHand({"MARK_HUM_REGION"})' = {}
          /\ AtHand({"CLEAR_HUM_CANDIDATE", "MARK_HUM_REGION"})' =
               IF s = "CLEAR_HUM_CANDIDATE" THEN {r} ELSE {}
      BY <2>3, <2>4 DEF AtHand
    <3>2. \A i \in DOMAIN humRegionCache' : humRegionCache'[i] \in Humongous =>
            humRegionCache'[i] \in regionMarked \cup IF s = "CLEAR_HUM_CANDIDATE" THEN {r} ELSE {}
      BY <1>r, <1>3, <2>2, <2>3, <2>5
    <3>3. QED
      BY <1>r, <1>1, <1>2, <1>3, <3>1, <3>2 DEF CachesKnow
  <2>7. QED
    BY <1>r, <1>1, <1>4, <2>1, <2>2, <2>3, <2>5, <2>6, HumStays
<1>8. QED
  BY <1>6, <1>7

LEMMA ClearHolds == ASSUME TraceInv, ClearHumCandidate PROVE TraceInv'
<1>r. PICK r : r = RegionOf(tr.raw)
  OBVIOUS
<1>1. /\ tr.pc = "CLEAR_HUM_CANDIDATE" /\ TrGoto("MARK_HUM_REGION") /\ candidates' = candidates \ {r}
      /\ UNCHANGED <<heapWindow, pendingPush, regionAttrCache, humRegionCache, regionMarked,
                     handed, carded>>
  BY <1>r DEF ClearHumCandidate, TrAt, cacheVars, sentVars
<1>2. TraceTyped /\ CachesKnow /\ tr \in TraceRegs
  BY <1>r, <1>1, HumFacts
<1>3. tr'.pc = "MARK_HUM_REGION" /\ RegionOf(tr'.raw) = r
  BY <1>r, <1>1, <1>2 DEF TrGoto, TraceRegs
<1>4. /\ \A q \in Humongous : Settled(q) => Settled(q)'
      /\ r \notin candidates'
  BY <1>r, <1>1 DEF Settled
<1>5. CachesKnow'
  <2>1. /\ AtHand({"CLEAR_HUM_CANDIDATE", "MARK_HUM_REGION"}) = {r} /\ AtHand({"MARK_HUM_REGION"}) = {}
        /\ AtHand({"CLEAR_HUM_CANDIDATE", "MARK_HUM_REGION"})' = {r}
        /\ AtHand({"MARK_HUM_REGION"})' = {r}
    BY <1>r, <1>1, <1>3 DEF AtHand
  <2>2. QED
    BY <1>r, <1>1, <1>2, <2>1 DEF CachesKnow
<1>6. humRegionCache' \in Seq({RegionOf(o) : o \in Oops})
  BY <1>r, <1>1, <1>2 DEF TraceTyped
<1>7. QED
  BY <1>r, <1>1, <1>4, <1>5, <1>6, HumStays

LEMMA MarkHolds == ASSUME TraceInv, MarkHumRegion PROVE TraceInv'
<1>r. PICK r : r = RegionOf(tr.raw)
  OBVIOUS
<1>1. /\ tr.pc = "MARK_HUM_REGION" /\ TrGoto("SEND_AOP") /\ regionMarked' = regionMarked \cup {r}
      /\ UNCHANGED <<heapWindow, pendingPush, regionAttrCache, humRegionCache, candidates,
                     handed, carded>>
  BY <1>r DEF MarkHumRegion, TrAt, cacheVars, sentVars
<1>2. TraceTyped /\ CachesKnow /\ tr \in TraceRegs
  BY <1>r, <1>1, HumFacts
<1>3. tr'.pc = "SEND_AOP" /\ r \notin candidates
  BY <1>r, <1>1, <1>2 DEF TrGoto, TraceRegs, TraceInv, RawKnown, FieldStates
<1>4. /\ \A q \in Humongous : Settled(q) => Settled(q)'
      /\ Settled(r)'
  BY <1>r, <1>1, <1>3 DEF Settled
<1>5. CachesKnow'
  <2>1. /\ AtHand({"CLEAR_HUM_CANDIDATE", "MARK_HUM_REGION"}) = {r} /\ AtHand({"MARK_HUM_REGION"}) = {r}
        /\ AtHand({"CLEAR_HUM_CANDIDATE", "MARK_HUM_REGION"})' = {}
        /\ AtHand({"MARK_HUM_REGION"})' = {}
    BY <1>r, <1>1, <1>3 DEF AtHand
  <2>2. QED
    BY <1>r, <1>1, <1>2, <1>3, <2>1 DEF CachesKnow
<1>6. humRegionCache' \in Seq({RegionOf(o) : o \in Oops})
  BY <1>r, <1>1, <1>2 DEF TraceTyped
<1>7. QED
  BY <1>r, <1>1, <1>4, <1>5, <1>6, HumStays

LEMMA SendHolds == ASSUME TraceInv, SendAop PROVE TraceInv'
<1>1. /\ tr.pc = "SEND_AOP" /\ tr' = [tr EXCEPT !.pc = ResumeState(tr.resume)]
      /\ carded' = IF tr.job.young THEN carded ELSE [carded EXCEPT ![tr.off] = @ + 1]
      /\ UNCHANGED <<heapWindow, pendingPush, regionAttrCache, humRegionCache, candidates,
                     regionMarked, handed>>
  BY DEF SendAop, TrAt, resumeTraversal, TrGoto, cacheVars, regionVars
<1>2. /\ tr.job \in TraceJobs /\ tr.job # NoJob /\ tr \in TraceRegs /\ tr.resume \in Resumes
      /\ tr.off \in Fields(tr.job)
      /\ tr.raw # NullOop /\ tr.raw \notin CsetOops \cup OwnOops /\ TraceTyped
  BY <1>1, HumFacts
<1>3. RegionOf(tr.raw) \in Humongous => Settled(RegionOf(tr.raw))
  BY <1>1 DEF TraceInv, RawKnown
<1>4. ResumeState(tr.resume) \in TraceStates
  BY <1>2, ResumesTo DEF TraceStates, ScanStates
<1>5. /\ tr' \in TraceRegs /\ tr'.pc = ResumeState(tr.resume) /\ tr'.created = tr.created
      /\ tr'.job = tr.job /\ tr'.p = tr.p /\ tr'.q = tr.q /\ tr'.map = tr.map /\ tr'.ref = tr.ref
  BY <1>1, <1>2, <1>4 DEF TraceRegs
<1>6. /\ handed' \in [Items -> Int] /\ pendingPush' \in Items \cup {NoPush}
      /\ carded \in [Items -> Int] /\ \A i \in Items : Out(i) \in Int
  BY <1>1, <1>2 DEF TraceTyped, Out, B
<1>7. tr.off \in FieldItems /\ tr.off \in Items /\ tr.off # ChunkTask
  BY <1>2, ItemsAre DEF FieldItems
<1>8. /\ carded' \in [Items -> Int]
      /\ \A i \in Items : carded'[i] = carded[i] + B(i = tr.off /\ ~tr.job.young)
  <2>1. CASE tr.job.young
    BY <1>1, <1>6, <2>1 DEF B
  <2>2. CASE ~tr.job.young
    <3>1. carded' = [carded EXCEPT ![tr.off] = carded[tr.off] + 1]
      BY <1>1, <2>2
    <3>2. carded[tr.off] + 1 \in Int
      BY <1>6, <1>7
    <3>3. QED
      BY <1>6, <1>7, <2>2, <3>1, <3>2 DEF B
  <2>3. QED
    BY <2>1, <2>2
<1>9. \A i : Out(i)' = Out(i)
  BY <1>1 DEF Out
<1>10. tr.raw \in DOMAIN HumongousAt => Settled(HumongousAt[tr.raw])
  BY <1>3, RegionCset
<1>11. FieldOver
  <2>1. ASSUME NEW o \in FieldItems
        PROVE  /\ Out(o)' = Out(o) + B(o = tr.off /\ tr.raw \in CsetOops)
               /\ carded'[o] = carded[o] + B(/\ o = tr.off /\ ~tr.job.young
                                             /\ tr.raw \notin CsetOops \cup OwnOops \cup {NullOop})
    BY <1>2, <1>6, <1>8, <1>9, ItemsAre DEF B
  <2>2. QED
    BY <1>1, <1>5, <1>10, <2>1 DEF FieldOver
<1>12. Out(ChunkTask)' = Out(ChunkTask) /\ carded'[ChunkTask] = carded[ChunkTask]
  BY <1>6, <1>7, <1>8, <1>9, ItemsAre DEF B
<1>13. QED
  BY <1>1, <1>5, <1>6, <1>8, <1>11, <1>12, FieldEnds

LEMMA FinishHolds == ASSUME TraceInv, TrFinish PROVE TraceInv'
<1>1. /\ tr.pc = "FINISH" /\ tr' = [tr EXCEPT !.pc = "IDLE"] /\ pendingPush' = NoPush
      /\ handed' = IF pendingPush = NoPush THEN handed
                   ELSE [handed EXCEPT ![pendingPush] = @ + 1]
      /\ UNCHANGED <<heapWindow, regionAttrCache, humRegionCache, candidates, regionMarked, carded>>
  BY DEF TrFinish, TrAt, TrGoto, cacheVars, regionVars
<1>2. /\ tr.job \in TraceJobs /\ tr.job # NoJob /\ tr \in TraceRegs
  BY <1>1, AtWork
<1>3. /\ TraceTyped /\ CachesKnow /\ Account
      /\ handed \in [Items -> Int] /\ pendingPush \in Items \cup {NoPush}
  BY DEF TraceInv, TraceTyped
<1>4. /\ tr' \in TraceRegs /\ tr'.job = tr.job /\ tr'.pc = "IDLE"
  <2>1. "IDLE" \in TraceStates
    BY DEF TraceStates, RestStates
  <2>2. QED
    BY <1>1, <1>2, <2>1 DEF TraceRegs
<1>5. /\ handed' \in [Items -> Int]
      /\ \A i \in Items : Out(i)' = Out(i)
  <2>1. CASE pendingPush = NoPush
    BY <1>1, <1>3, <2>1 DEF Out
  <2>2. CASE pendingPush # NoPush
    <3>1. handed' = [handed EXCEPT ![pendingPush] = handed[pendingPush] + 1] /\ pendingPush \in Items
      BY <1>1, <1>3, <2>2
    <3>2. \A i \in Items : i # NoPush /\ handed[i] \in Int
      BY <1>3, ItemsAre
    <3>3. handed' \in [Items -> Int] /\ \A i \in Items : handed'[i] = handed[i] + B(pendingPush = i)
      BY <1>3, <3>1, <3>2 DEF B
    <3>4. \A i \in Items : Out(i)' = handed'[i]
      BY <1>1, <3>2, <3>3 DEF Out, B
    <3>5. QED
      BY <3>3, <3>4 DEF Out
  <2>3. QED
    BY <2>1, <2>2
<1>6. TraceTyped'
  BY <1>1, <1>2, <1>3, <1>4, <1>5 DEF TraceTyped
<1>7. Shape'
  BY <1>1, <1>4 DEF Shape, Mode, FieldStates
<1>8. RawKnown'
  BY <1>4 DEF RawKnown, FieldStates
<1>9. CachesKnow'
  BY <1>1, <1>3, <1>4 DEF CachesKnow, AtHand
<1>10. Account'
  <2>1. ASSUME NEW o \in FieldItems PROVE Left(o)' = Left(o) /\ Out(o)' = Out(o)
    <3>1. Left(o) = 0 /\ Left(o)' = 0
      BY <1>1, <1>4, LeftIs, LeftNext DEF LeftKnown, RestStates
    <3>2. QED
      BY <1>5, <3>1, ItemsAre
  <2>2. \A r \in Humongous : Settled(r) => Settled(r)'
    BY <1>1 DEF Settled
  <2>3. QED
    BY <1>1, <1>2, <1>3, <1>4, <2>1, <2>2, StillAccount
<1>11. Made'
  <2>1. tr.pc \notin StartStates /\ tr'.pc \notin StartStates
    BY <1>1, <1>4 DEF StartStates
  <2>2. QED
    BY <1>1, <1>2, <1>4, <1>5, <2>1, ScanMade, ItemsAre
<1>12. QED
  BY <1>6, <1>7, <1>8, <1>9, <1>10, <1>11 DEF TraceInv

LEMMA AcceptHolds == ASSUME TraceInv, NEW j \in TraceJobs, AcceptTrace(j) PROVE TraceInv'
<1>1. /\ tr.pc = "IDLE" /\ heapWindow' = NoWindow
      /\ tr' = [tr EXCEPT !.pc = "DISPATCH", !.job = j, !.remain = 0, !.ref = 0, !.created = 0]
      /\ handed' = [i \in Items |-> 0] /\ carded' = [i \in Items |-> 0]
      /\ UNCHANGED <<pendingPush, regionAttrCache, humRegionCache, candidates, regionMarked>>
  BY DEF AcceptTrace, TrAt, cacheVars, regionVars
<1>2. /\ TraceTyped /\ CachesKnow /\ tr \in TraceRegs /\ pendingPush = NoPush
  BY <1>1 DEF TraceInv, TraceTyped, Shape
<1>3. j # NoJob
  BY JobType
<1>4. /\ tr' \in TraceRegs /\ tr'.job = j /\ tr'.pc = "DISPATCH" /\ tr'.created = 0
  <2>1. "DISPATCH" \in TraceStates
    BY DEF TraceStates, StartStates
  <2>2. PICK z \in Int, r \in 0 .. 3, n \in Nat : z = 0 /\ r = 0 /\ n = 0
    OBVIOUS
  <2>3. tr' = [tr EXCEPT !.pc = "DISPATCH", !.job = j, !.remain = z, !.ref = r, !.created = n]
    BY <1>1, <2>2
  <2>4. QED
    BY <1>2, <2>1, <2>2, <2>3 DEF TraceRegs
<1>5. \A i \in Items : Out(i)' = 0 /\ carded'[i] = 0
  BY <1>1, <1>2, ItemsAre DEF Out, B
<1>6. TraceTyped'
  BY <1>1, <1>2, <1>3, <1>4 DEF TraceTyped, NoWindow
<1>7. Shape'
  BY <1>4 DEF Shape, Mode, FieldStates
<1>8. RawKnown'
  BY <1>4 DEF RawKnown, FieldStates
<1>9. CachesKnow'
  BY <1>1, <1>2, <1>4 DEF CachesKnow, AtHand
<1>10. Account'
  <2> SUFFICES ASSUME NEW o \in FieldItems PROVE AccountOf(o)'
    BY DEF Account
  <2>1. Left(o)' = Visits(tr'.job, o)
    BY <1>4, LeftNext DEF LeftKnown, StartStates
  <2>2. Visits(tr'.job, o) \in Nat
    BY DEF Visits, Times
  <2>3. Visited(o)' = 0
    BY <2>1, <2>2 DEF Visited
  <2>4. QED
    BY <1>5, <2>3, ItemsAre DEF AccountOf
<1>11. Made'
  BY <1>4, <1>5, ItemsAre DEF Made
<1>12. QED
  BY <1>6, <1>7, <1>8, <1>9, <1>10, <1>11 DEF TraceInv

LEMMA TraceStarts == TraceInit => TraceInv
<1> SUFFICES ASSUME TraceInit PROVE TraceInv
  OBVIOUS
<1>1. /\ tr = [pc |-> "IDLE", job |-> NoJob, p |-> 0, q |-> 0, remain |-> 0, off |-> 0,
               raw |-> NullOop, attr |-> "none", resume |-> "Forward", ref |-> 0, map |-> 0,
               created |-> 0]
      /\ heapWindow = NoWindow /\ pendingPush = NoPush
      /\ regionAttrCache = << >> /\ humRegionCache = << >>
      /\ candidates = Humongous /\ regionMarked = {}
      /\ handed = [i \in Items |-> 0] /\ carded = [i \in Items |-> 0]
  BY DEF TraceInit
<1>2. tr.pc = "IDLE" /\ tr.job = NoJob
  BY <1>1
<1>3. TraceTyped
  <2>1. tr \in TraceRegs
    <3>1. "IDLE" \in TraceStates /\ "Forward" \in Resumes /\ NullOop \in Oops
      BY DEF TraceStates, RestStates, Resumes, Oops
    <3>2. PICK z \in Int, r \in 0 .. 3, n \in Nat : z = 0 /\ r = 0 /\ n = 0
      OBVIOUS
    <3>3. tr = [pc |-> "IDLE", job |-> NoJob, p |-> z, q |-> z, remain |-> z, off |-> z,
               raw |-> NullOop, attr |-> "none", resume |-> "Forward", ref |-> r, map |-> n,
               created |-> n]
      BY <1>1, <3>2
    <3>4. QED
      BY <3>1, <3>2, <3>3 DEF TraceRegs
  <2>2. QED
    BY <1>1, <1>2, <2>1 DEF TraceTyped, NoWindow
<1>4. Shape
  BY <1>1, <1>2 DEF Shape, Mode, FieldStates
<1>5. RawKnown
  BY <1>2 DEF RawKnown, FieldStates
<1>6. CachesKnow
  BY <1>1, <1>2 DEF CachesKnow, AtHand
<1>7. Account /\ Made
  BY <1>2 DEF Account, Made
<1>8. QED
  BY <1>3, <1>4, <1>5, <1>6, <1>7 DEF TraceInv

LEMMA TraceStutters == ASSUME TraceInv, UNCHANGED traceVars PROVE TraceInv'
<1>1. /\ tr' = tr /\ heapWindow' = heapWindow /\ pendingPush' = pendingPush
      /\ regionAttrCache' = regionAttrCache /\ humRegionCache' = humRegionCache
      /\ candidates' = candidates /\ regionMarked' = regionMarked /\ handed' = handed
      /\ carded' = carded
  BY DEF traceVars
<1>2. TraceTyped' /\ RawKnown' /\ CachesKnow'
  BY <1>1 DEF TraceInv, TraceTyped, RawKnown, CachesKnow, AtHand, Settled
<1>3. Shape'
  BY <1>1 DEF TraceInv, Shape, Mode, IsArray, InRange
<1>4. Made'
  BY <1>1 DEF TraceInv, Made, Out
<1>5. Account'
  <2>1. tr.job # NoJob => Account'
    <3> SUFFICES ASSUME tr.job # NoJob PROVE Account'
      OBVIOUS
    <3>1. \A o \in FieldItems : Left(o)' = Left(o) /\ Out(o)' = Out(o)
      BY <1>1 DEF Left, LeftFrom, Mode, InRange, Out
    <3>2. \A r \in Humongous : Settled(r) => Settled(r)'
      BY <1>1 DEF Settled
    <3>3. QED
      BY <1>1, <3>1, <3>2, StillAccount DEF TraceInv
  <2>2. tr.job = NoJob => Account'
    BY <1>1 DEF Account
  <2>3. QED
    BY <2>1, <2>2
<1>6. QED
  BY <1>2, <1>3, <1>4, <1>5 DEF TraceInv

\* Between two objects the account is closed.
LEMMA AccountClosed == TraceInv => FieldsSettled
<1> SUFFICES ASSUME TraceInv, tr.pc = "IDLE", tr.job # NoJob PROVE FieldsSettled
  BY DEF FieldsSettled, TrAt
<1>1. /\ tr.job \in TraceJobs /\ handed \in [Items -> Int] /\ carded \in [Items -> Int]
      /\ pendingPush = NoPush /\ Account
  BY DEF TraceInv, TraceTyped, TraceRegs, Shape
<1>2. ASSUME NEW o \in FieldItems
      PROVE  /\ handed[o] = IF o \in Fields(tr.job) /\ Target(tr.job, o) \in CsetOops
                            THEN Times(tr.job, o) ELSE 0
             /\ carded[o] = IF /\ o \in Fields(tr.job)
                               /\ Target(tr.job, o) \notin CsetOops \cup OwnOops \cup {NullOop}
                               /\ ~tr.job.young
                            THEN Times(tr.job, o) ELSE 0
             /\ o \in Fields(tr.job) /\ Target(tr.job, o) \in DOMAIN HumongousAt =>
                  Settled(HumongousAt[Target(tr.job, o)])
  <2>1. Left(o) = 0
    BY LeftIs DEF LeftKnown, RestStates
  <2>2. Visited(o) = Visits(tr.job, o)
    BY <2>1, LeftType DEF Visited
  <2>3. o \in Items /\ o # NoPush /\ handed[o] \in Int
    BY <1>1, ItemsAre
  <2>4. Out(o) = handed[o]
    BY <1>1, <2>3 DEF Out, B
  <2>5. AccountOf(o)
    BY <1>1 DEF Account
  <2>6. o \in Fields(tr.job) => Visits(tr.job, o) = Times(tr.job, o) /\ Times(tr.job, o) # 0
    BY DEF Visits, Times
  <2>7. QED
    BY <2>2, <2>4, <2>5, <2>6 DEF AccountOf, Pointed, Leaves
<1>3. handed[ChunkTask] = ChunkTasks(tr.job) /\ carded[ChunkTask] = 0
  <2>1. Out(ChunkTask) = ChunkTasks(tr.job) /\ carded[ChunkTask] = 0
    BY DEF TraceInv, Made
  <2>2. Out(ChunkTask) = handed[ChunkTask]
    BY <1>1, ItemsAre DEF Out, B
  <2>3. QED
    BY <2>1, <2>2
<1>4. /\ \A i \in Items : i = ChunkTask \/ i \in FieldItems
      /\ ChunkTask \notin Fields(tr.job) /\ \A o \in Fields(tr.job) : o \in FieldItems
  BY <1>1, ItemsAre DEF FieldItems
<1> DEFINE j == tr.job
           Pointing(S) == {o \in Fields(j) : Target(j, o) \in S}
           leaving == {o \in Fields(j) : Target(j, o) \notin CsetOops \cup OwnOops \cup {NullOop}}
<1>5. handed = [i \in Items |-> IF i = ChunkTask THEN ChunkTasks(j)
                                ELSE IF i \in Pointing(CsetOops) THEN Times(j, i) ELSE 0]
  <2>1. \A i \in Items : handed[i] = IF i = ChunkTask THEN ChunkTasks(j)
                                     ELSE IF i \in Pointing(CsetOops) THEN Times(j, i) ELSE 0
    BY <1>2, <1>3, <1>4
  <2>2. QED
    BY <1>1, <2>1
<1>6. carded = [i \in Items |-> IF i \in leaving /\ ~j.young THEN Times(j, i) ELSE 0]
  <2>1. \A i \in Items : carded[i] = IF i \in leaving /\ ~j.young THEN Times(j, i) ELSE 0
    BY <1>2, <1>3, <1>4
  <2>2. QED
    BY <1>1, <2>1
<1>7. \A o \in Pointing(DOMAIN HumongousAt) : HumongousAt[Target(j, o)] \in regionMarked \ candidates
  BY <1>2, <1>4 DEF Settled
<1>8. QED
  BY <1>1, <1>5, <1>6, <1>7 DEF FieldsSettled

(* When an object is done, every reference in it was settled exactly as    *)
(* often as the traversal looks at it, whatever the caches of region       *)
(* attributes, humongous regions and klasses held, and nothing else went   *)
(* out.                                                                    *)
THEOREM TraceSettles == TraceSpec => []FieldsSettled
<1>1. TraceInv /\ [TraceNext]_traceVars => TraceInv'
  <2> SUFFICES ASSUME TraceInv, [TraceNext]_traceVars PROVE TraceInv'
    OBVIOUS
  <2>1. CASE TrMachine
    BY <2>1, DispatchHolds, LayoutHolds, ArrayHolds, OopMapHolds, PostHolds, ForwardHolds,
       BackwardHolds, ReadHolds, CheckHolds, RegionHolds, CheckHumHolds, ClearHolds, MarkHolds,
       SendHolds, FinishHolds
    DEF TrMachine
  <2>2. CASE \E j \in TraceJobs : AcceptTrace(j)
    BY <2>2, AcceptHolds
  <2>3. CASE UNCHANGED traceVars
    BY <2>3, TraceStutters
  <2>4. QED
    BY <2>1, <2>2, <2>3 DEF TraceNext
<1>2. QED
  BY <1>1, TraceStarts, AccountClosed, PTL DEF TraceSpec
=============================================================================
