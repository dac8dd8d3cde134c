--------------------------- MODULE TaskStackSpec ---------------------------
(***************************************************************************)
(* What the task stack promises to the units around it: one LIFO stack of  *)
(* tasks, loaded from the JVM queue when a job starts, that the job leaves *)
(* only when no task is left.  Where a task is kept (on chip, in the JVM   *)
(* queue, in a cache) is invisible at this level.                          *)
(***************************************************************************)
EXTENDS Naturals, Sequences

CONSTANT Tasks   \* the tasks (addresses of references to process)

VARIABLES running,   \* a job is in progress
          tasks      \* the tasks not yet popped, oldest first

vars == <<running, tasks>>

Init == running = FALSE /\ tasks = << >>

(* A job starts with the tasks the JVM left in its queue. *)
Start == /\ ~running
         /\ running' = TRUE
         /\ tasks' \in Seq(Tasks)

Push(t) == /\ running
           /\ tasks' = Append(tasks, t)
           /\ UNCHANGED running

Pop == /\ running
       /\ tasks # << >>
       /\ tasks' = SubSeq(tasks, 1, Len(tasks) - 1)
       /\ UNCHANGED running

(* A pop and a push in the same clock cycle: the newest task is replaced. *)
PopPush(t) == /\ running
              /\ tasks # << >>
              /\ tasks' = [tasks EXCEPT ![Len(tasks)] = t]
              /\ UNCHANGED running

(* The job is over only when nothing is left to pop. *)
Finish == /\ running
          /\ tasks = << >>
          /\ running' = FALSE
          /\ UNCHANGED tasks

Next == \/ Start
        \/ \E t \in Tasks : Push(t) \/ PopPush(t)
        \/ Pop
        \/ Finish

Spec == Init /\ [][Next]_vars
=============================================================================
