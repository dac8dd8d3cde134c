---------------------------- MODULE MCTaskStack ----------------------------
(* Small instance of GCTaskStack: every push and every queued task distinct. *)
EXTENDS GCTaskStack

MCJvmQueue == [q \in 0 .. QueueSize - 1 |-> 100 + q]
MCPushTask == [p \in 1 .. MaxPush |-> p]
MCTasks    == (1 .. MaxPush) \cup (100 .. 99 + QueueSize)
=============================================================================
