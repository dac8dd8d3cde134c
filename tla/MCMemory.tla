------------------------------ MODULE MCMemory ------------------------------
(***************************************************************************)
(* One run for the memory path of a unit and for the units that work over  *)
(* it when an object is copied: GCCopy moves its bytes, GCTrace goes       *)
(* through its references, GCArrayProcess through an array in parts.  They *)
(* take from the path only that what is accepted is answered once, in any  *)
(* order, which is what the first part of the run shows; so the parts are  *)
(* not multiplied: `about' says which one a behaviour is of.               *)
(***************************************************************************)
EXTENDS GCMemory, GCCopy, GCTrace, GCArrayProcess

VARIABLE about

mcVars == <<memVars, copyVars, traceVars, chunkVars, about>>

\* Source and destination begin inside their lines, one or the other or both; an
\* empty object.
MCCopies == {[src |-> 0, dst |-> 21, size |-> 5], [src |-> 1, dst |-> 20, size |-> 5],
             [src |-> 1, dst |-> 21, size |-> 5], [src |-> 0, dst |-> 20, size |-> 0]}

\* References into the collection set, to two humongous objects of one region
\* and one of another, to an old object, into the own region, and none.
MCHeap == [a \in -4 .. 15 |->
             <<"c1", "null", "h1", "o1", "c2", "g1", "own", "h2">>[(a % 8) + 1]]
MCHumongousAt == [h1 |-> "H", h2 |-> "H", g1 |-> "G"]
MCOopMaps == [k1 |-> <<[first |-> 0, count |-> 2], [first |-> 3, count |-> 5]>>,
              k2 |-> <<>>, k3 |-> <<[first |-> 1, count |-> 3]>>]
MCStatics == [first |-> 4, count |-> 4]
MCTraceJobs ==
  {[kind |-> kk[1], klass |-> kk[2], src |-> s, young |-> y, start |-> 0, step |-> 0,
    length |-> 0, ncreate |-> 0] :
      kk \in {<<"instance", "k1">>, <<"mirror", "k3">>, <<"ref", "k2">>}, s \in 0 .. 3,
      y \in BOOLEAN}
  \union
  {[kind |-> "array", klass |-> "k1", src |-> s, young |-> FALSE, start |-> 0, step |-> st,
    length |-> n, ncreate |-> 0] : s \in 0 .. 1, st \in 0 .. 1, n \in {1, 7}}
  \union
  {[kind |-> "partial", klass |-> "k1", src |-> s, young |-> FALSE, start |-> 2, step |-> 7,
    length |-> 7, ncreate |-> n] : s \in 0 .. 3, n \in 0 .. 2}

MCInit ==
  /\ about \in {"path", "copy", "trace", "chunks"}
  /\ MemInit /\ CopyInit /\ TraceInit /\ ChunkInit
  /\ about # "path" => /\ req = CHOOSE r \in Accesses : r.need
                       /\ firstSourceID = CHOOSE id \in SourceIDs : TRUE

PathUnit(act) == about = "path" /\ act /\ UNCHANGED <<copyVars, traceVars, chunkVars, about>>
CopyUnit(act) == about = "copy" /\ act /\ UNCHANGED <<memVars, traceVars, chunkVars, about>>
TraceUnit(act) == about = "trace" /\ act /\ UNCHANGED <<memVars, copyVars, chunkVars, about>>
ChunkUnit(act) == about = "chunks" /\ act /\ UNCHANGED <<memVars, copyVars, traceVars, about>>

MCNext == PathUnit(MemNext) \/ CopyUnit(CopyNext) \/ TraceUnit(TraceNext) \/ ChunkUnit(ChunkNext)

\* The fairness of the specifications; a behaviour is about one of them, so one
\* formula can serve an action of each.
MCFairness ==
  /\ WF_mcVars(PathUnit(\E id \in SourceIDs : UnitGranted(id)
                                              \/ \E p \in OtherPorts : OtherGranted(p, id))
               \/ CopyUnit(CopyMachine) \/ TraceUnit(TrMachine) \/ ChunkUnit(ChunkMachine))
  /\ WF_mcVars(PathUnit(BeatPending /\ UnitAsks)) /\ WF_mcVars(PathUnit(UnitDelivers))
  /\ \A id \in SourceIDs :
       WF_mcVars(PathUnit(UnitAnswered(id) \/ \E p \in OtherPorts : OtherAnswered(p, id)))

MCSpec == MCInit /\ [][MCNext]_mcVars /\ MCFairness

-----------------------------------------------------------------------------
\* Every access that wants an answer gets one.  Every copy ends, however late
\* the answers come and though few line entries serve many beats: none of them
\* is held by a line that waits for a beat which waits for an entry.  Every
\* traversal ends, and so does an array of any number of parts.
PathWorkEnds ==
  \/ about = "path" /\ asked # None
  \/ about = "copy" /\ copy.valid
  \/ about = "trace" /\ ~TrAt("IDLE")
  \/ about = "chunks" /\ srcLength # -1
  ~>
  \/ about = "path" /\ asked = None
  \/ about = "copy" /\ ~copy.valid
  \/ about = "trace" /\ TrAt("IDLE")
  \/ about = "chunks" /\ ArrayDone
=============================================================================
