--------------------------- MODULE SurvivorSpec ---------------------------
(***************************************************************************)
(* What GCOopCopy2Survivor promises to the two slots of GCOopProcess: it   *)
(* takes at most one object of each, tells all units where the copy will   *)
(* be (writeForward), and only then says Done to the slot that asked, with *)
(* that same address.                                                      *)
(***************************************************************************)
CONSTANTS Owners,    \* the slots of GCOopProcess
          Copies,    \* addresses of copies
          NoCopy     \* no address

VARIABLE copier      \* owner -> [stage, copy]

Idle == [stage |-> "idle", copy |-> NoCopy]

Init == copier = [o \in Owners |-> Idle]

Ask(o) == /\ copier[o].stage = "idle"
          /\ copier' = [copier EXCEPT ![o].stage = "asked"]

Announce(o, a) == /\ copier[o].stage = "asked"
                  /\ copier' = [copier EXCEPT ![o] = [stage |-> "announced", copy |-> a]]

Finish(o, a) == /\ copier[o].stage = "announced" /\ copier[o].copy = a
                /\ copier' = [copier EXCEPT ![o] = Idle]

Next == \E o \in Owners : \/ Ask(o)
                          \/ \E a \in Copies : Announce(o, a) \/ Finish(o, a)

Spec == Init /\ [][Next]_copier
=============================================================================
