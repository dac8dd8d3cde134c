------------------------- MODULE GCUnalignedMMUAdapter -------------------------
(***************************************************************************)
(* The adapter between a unit and its memory port                          *)
(* (hwgc_acc/GCUnalignedMMUAdapter.scala): an access that starts inside a  *)
(* memory line is aligned, one that crosses into the next line is split    *)
(* into two requests, and their answers, which come in any order, are put  *)
(* together again.  The last-level cache answers writes nobody waits for   *)
(* as well; those answers are dropped, perhaps long after the next access  *)
(* has started.                                                            *)
(*                                                                         *)
(* In one clock cycle the request side and the answer side may both act;   *)
(* they read registers only, and every such pair is one of the orders of   *)
(* the two steps, so one step is the action of one side.                   *)
(***************************************************************************)
EXTENDS Integers, Sequences

CONSTANTS
  SourceIDs,   \* the cache's source IDs
  Txns,        \* names for accesses, to tell their answers apart
  None         \* no access, no answer

(* How an access lies in memory lines: it starts at a line and stays in it *)
(* (passed through), it stays in its line, it crosses into the next one.   *)
Shapes == {"direct", "whole", "split"}

(* An access: reads always want their answer. *)
Accesses == {r \in [txn : Txns, shape : Shapes, write : BOOLEAN, need : BOOLEAN] :
               r.write \/ r.need}

Lines == [txn : Txns, beat : {0, 1}]

Line(r, beat) == [txn |-> r.txn, beat |-> beat]

(* What upstream must be given: the halves of a split read in order; a     *)
(* split write passes on whichever answer comes last.                      *)
Answers(r) == IF r.shape # "split" THEN {<<Line(r, 0)>>}
              ELSE IF r.write THEN {<<Line(r, 0)>>, <<Line(r, 1)>>}
              ELSE {<<Line(r, 0), Line(r, 1)>>}

ASSUME NoneAssumption ==
  None \notin Lines /\ None \notin Accesses /\ \A r \in Accesses : None \notin Answers(r)

VARIABLES
  busy, splitReq, sendBeat0Pending, sendBeat1Pending, gotOneResp,
  req,               \* the latched request: size, addr, isWrite, needResponse, ...
  firstSourceID, secondSourceID,
  bufferData, bufferIsBeat0,   \* the half of a split access that came first
  respBuf,           \* the answer upstream was not ready for, or None
  ignored,           \* ignoredNoRespCounts: source IDs whose answer is to be dropped
  llc,               \* cache: per source ID the line it will answer with, or None
  asked,             \* upstream: the access it waits for, or None
  got                \* upstream: what the last access was answered with, until the next

registers == <<busy, splitReq, sendBeat0Pending, sendBeat1Pending, gotOneResp>>
vars == <<registers, req, firstSourceID, secondSourceID, bufferData, bufferIsBeat0,
          respBuf, ignored, llc, asked, got>>

canStartNewReq == ~busy /\ respBuf = None

(* Names are taken again once no answer of the cache carries them. *)
Fresh(t) == \A id \in SourceIDs : llc[id] # None => llc[id].txn # t

Init ==
  /\ busy = FALSE /\ splitReq = FALSE /\ gotOneResp = FALSE
  /\ sendBeat0Pending = FALSE /\ sendBeat1Pending = FALSE
  /\ req \in {r \in Accesses : r.need}
  /\ firstSourceID \in SourceIDs /\ secondSourceID = firstSourceID
  /\ bufferData = None /\ bufferIsBeat0 = FALSE
  /\ respBuf = None
  /\ ignored = {}
  /\ llc = [id \in SourceIDs |-> None]
  /\ asked = None /\ got = None

-----------------------------------------------------------------------------
(* Request side. *)

(* Mutant of SendLine: dropped answers are not booked. *)
SendLineUnbooked(r, beat, id) ==
  /\ llc[id] = None
  /\ llc' = [llc EXCEPT ![id] = Line(r, beat)]
  /\ ignored' = ignored

(* A beat goes out under a free source ID of the cache (out.Request.fire); *)
(* the answer to a write nobody waits for is booked to be dropped.         *)
SendLine(r, beat, id) ==
  /\ llc[id] = None
  /\ llc' = [llc EXCEPT ![id] = Line(r, beat)]
  /\ ignored' = IF r.need THEN ignored ELSE ignored \cup {id}

(* A request that needs no adaptation passes through in its cycle. *)
AcceptDirect(r, id) ==
  /\ canStartNewReq /\ r.shape = "direct"
  /\ SendLine(r, 0, id)
  /\ req' = r /\ firstSourceID' = id
  /\ busy' = r.need
  /\ splitReq' = FALSE /\ gotOneResp' = FALSE
  /\ sendBeat0Pending' = FALSE /\ sendBeat1Pending' = FALSE
  /\ asked' = (IF r.need THEN r ELSE None) /\ got' = None
  /\ UNCHANGED <<secondSourceID, bufferData, bufferIsBeat0, respBuf>>

(* Any other request is latched first. *)
AcceptLatched(r) ==
  /\ canStartNewReq /\ r.shape # "direct"
  /\ req' = r
  /\ busy' = TRUE
  /\ splitReq' = (r.shape = "split") /\ gotOneResp' = FALSE
  /\ sendBeat0Pending' = TRUE /\ sendBeat1Pending' = (r.shape = "split")
  /\ asked' = (IF r.need THEN r ELSE None) /\ got' = None
  /\ UNCHANGED <<firstSourceID, secondSourceID, bufferData, bufferIsBeat0, respBuf,
                 ignored, llc>>

(* noRespTxnDone: a write nobody waits for ends with its last beat. *)
EndsHere(last) == ~req.need /\ last

SendBeat0(id) ==
  /\ busy /\ sendBeat0Pending
  /\ SendLine(req, 0, id)
  /\ firstSourceID' = id
  /\ sendBeat0Pending' = FALSE
  /\ busy' = ~EndsHere(~sendBeat1Pending)
  /\ splitReq' = (splitReq /\ ~EndsHere(~sendBeat1Pending))
  /\ UNCHANGED <<sendBeat1Pending, gotOneResp, req, secondSourceID, bufferData,
                 bufferIsBeat0, respBuf, asked, got>>

SendBeat1(id) ==
  /\ busy /\ ~sendBeat0Pending /\ sendBeat1Pending
  /\ SendLine(req, 1, id)
  /\ secondSourceID' = id
  /\ sendBeat1Pending' = FALSE
  /\ busy' = ~EndsHere(TRUE)
  /\ splitReq' = (splitReq /\ ~EndsHere(TRUE))
  /\ UNCHANGED <<sendBeat0Pending, gotOneResp, req, firstSourceID, bufferData,
                 bufferIsBeat0, respBuf, asked, got>>

-----------------------------------------------------------------------------
(* Answer side: id is the source ID of the answer the cache offers. *)

(* The half a split access still waits for. *)
Awaited == IF bufferIsBeat0 THEN secondSourceID ELSE firstSourceID

currentRespHit(id) ==
  /\ busy /\ req.need /\ ~sendBeat0Pending
  /\ \/ ~splitReq /\ id = firstSourceID
     \/ splitReq /\ ~gotOneResp
        /\ (id = firstSourceID \/ (~sendBeat1Pending /\ id = secondSourceID))
     \/ splitReq /\ gotOneResp /\ ~sendBeat1Pending /\ id = Awaited

firstSplitRespCanArrive == splitReq /\ ~gotOneResp /\ ~sendBeat0Pending /\ respBuf = None
finalRespCanArrive == /\ ~splitReq \/ gotOneResp
                      /\ ~sendBeat0Pending /\ ~sendBeat1Pending /\ respBuf = None

CurrentRespCanTake(id) ==
  /\ currentRespHit(id)
  /\ firstSplitRespCanArrive \/ finalRespCanArrive
  /\ id \notin ignored

(* out.Response.ready *)
ResponseReady(id) == CurrentRespCanTake(id) \/ id \in ignored

Answered(id) == llc' = [llc EXCEPT ![id] = None]

DropIgnored(id) ==
  /\ llc[id] # None /\ id \in ignored
  /\ Answered(id)
  /\ ignored' = ignored \ {id}
  /\ UNCHANGED <<registers, req, firstSourceID, secondSourceID, bufferData, bufferIsBeat0,
                 respBuf, asked, got>>

TakeFirstHalf(id) ==
  /\ llc[id] # None /\ CurrentRespCanTake(id)
  /\ splitReq /\ ~gotOneResp
  /\ Answered(id)
  /\ bufferData' = llc[id] /\ bufferIsBeat0' = (id = firstSourceID)
  /\ gotOneResp' = TRUE
  /\ UNCHANGED <<busy, splitReq, sendBeat0Pending, sendBeat1Pending, req, firstSourceID,
                 secondSourceID, respBuf, ignored, asked, got>>

(* Mutant of Assembled: the halves are joined in the order they came. *)
AssembledAsCome(data) == IF splitReq /\ ~req.write THEN <<bufferData, data>> ELSE <<data>>

(* bypassRespPayload *)
Assembled(data) ==
  IF splitReq /\ ~req.write
    THEN IF bufferIsBeat0 THEN <<bufferData, data>> ELSE <<data, bufferData>>
    ELSE <<data>>

(* The last answer: passed on at once when upstream is ready, else buffered. *)
TakeFinal(id) ==
  /\ llc[id] # None /\ CurrentRespCanTake(id)
  /\ ~splitReq \/ gotOneResp
  /\ Answered(id)
  /\ \/ /\ got' = [access |-> asked, data |-> Assembled(llc[id])]
        /\ asked' = None
        /\ UNCHANGED respBuf
     \/ /\ respBuf' = Assembled(llc[id])
        /\ UNCHANGED <<asked, got>>
  /\ busy' = FALSE /\ splitReq' = FALSE /\ gotOneResp' = FALSE
  /\ UNCHANGED <<sendBeat0Pending, sendBeat1Pending, req, firstSourceID, secondSourceID,
                 bufferData, bufferIsBeat0, ignored>>

DeliverBuffered ==
  /\ respBuf # None
  /\ got' = [access |-> asked, data |-> respBuf]
  /\ asked' = None /\ respBuf' = None
  /\ UNCHANGED <<registers, req, firstSourceID, secondSourceID, bufferData, bufferIsBeat0,
                 ignored, llc>>

Send == \E id \in SourceIDs : SendBeat0(id) \/ SendBeat1(id)
Answer(id) == DropIgnored(id) \/ TakeFirstHalf(id) \/ TakeFinal(id)

Accept == \E r \in Accesses :
            /\ Fresh(r.txn)
            /\ AcceptLatched(r) \/ \E id \in SourceIDs : AcceptDirect(r, id)

Next == Accept \/ Send \/ DeliverBuffered \/ \E id \in SourceIDs : Answer(id)

Spec == Init /\ [][Next]_vars

(* The port grants every request (GCLocalMMU), the cache answers every     *)
(* request in the end, and a unit waits for its answer with ready up.      *)
Fairness == WF_vars(Send) /\ WF_vars(DeliverBuffered)
            /\ \A id \in SourceIDs : WF_vars(Answer(id))

FairSpec == Spec /\ Fairness

-----------------------------------------------------------------------------
(* Types of the registers, of the cache and of the upstream bookkeeping. *)
TypeOK ==
  /\ busy \in BOOLEAN /\ splitReq \in BOOLEAN /\ gotOneResp \in BOOLEAN
  /\ sendBeat0Pending \in BOOLEAN /\ sendBeat1Pending \in BOOLEAN
  /\ req \in Accesses
  /\ firstSourceID \in SourceIDs /\ secondSourceID \in SourceIDs
  /\ bufferData \in Lines \cup {None} /\ bufferIsBeat0 \in BOOLEAN
  /\ ignored \subseteq SourceIDs
  /\ llc \in [SourceIDs -> Lines \cup {None}]
  /\ asked \in Accesses \cup {None}

(* Whatever answer the cache offers next, the adapter takes it: all ports  *)
(* share one answer channel, and an answer that is refused for good would  *)
(* stop the whole accelerator.                                             *)
AnswersWelcome == \A id \in SourceIDs : llc[id] # None => ResponseReady(id)

(* Upstream is given the lines of the very access it waits for, halves in  *)
(* address order, although the halves come in any order, dropped answers   *)
(* of older writes come in between and source IDs are reused.              *)
AnswerAssembled == got # None => got.access # None /\ got.data \in Answers(got.access)

(* The lines the access in progress still waits for, and their source IDs. *)
Awaits0 == busy /\ req.need /\ ~sendBeat0Pending /\ ~(gotOneResp /\ bufferIsBeat0)
Awaits1 == /\ busy /\ req.need /\ splitReq /\ ~sendBeat1Pending
           /\ ~(gotOneResp /\ ~bufferIsBeat0)

(* Which answers are on their way: those of the access in progress, each   *)
(* under the source ID it was sent with, and those booked to be dropped.   *)
InFlight ==
  /\ Awaits0 => llc[firstSourceID] = Line(req, 0) /\ firstSourceID \notin ignored
  /\ Awaits1 => llc[secondSourceID] = Line(req, 1) /\ secondSourceID \notin ignored
  /\ \A id \in SourceIDs :
       llc[id] # None <=> \/ id \in ignored
                         \/ (Awaits0 /\ id = firstSourceID)
                         \/ (Awaits1 /\ id = secondSourceID)

(* How the registers of the access in progress go together. *)
Progress ==
  /\ splitReq => busy /\ req.shape = "split"
  /\ busy /\ req.shape = "split" => splitReq
  /\ sendBeat0Pending => busy /\ ~gotOneResp /\ (splitReq => sendBeat1Pending)
  /\ sendBeat1Pending => busy /\ splitReq
  /\ gotOneResp => /\ busy /\ req.need /\ splitReq
                   /\ bufferData = Line(req, IF bufferIsBeat0 THEN 0 ELSE 1)
                   /\ sendBeat1Pending => bufferIsBeat0
  /\ busy => respBuf = None /\ asked = (IF req.need THEN req ELSE None)
  /\ busy /\ ~req.need => sendBeat0Pending \/ sendBeat1Pending
  /\ ~busy => IF respBuf = None THEN asked = None
                                ELSE asked # None /\ respBuf \in Answers(asked)

(* The inductive invariant. *)
IInv == TypeOK /\ Progress /\ InFlight /\ AnswerAssembled
=============================================================================
