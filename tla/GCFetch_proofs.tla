---------------------------- MODULE GCFetch_proofs ----------------------------
(* Every task queued is handed over once, for any ring, cache, tasks and    *)
(* objects.  The argument is an account: a task that is owed is in the      *)
(* stack, with main, with push, or is the one main waits for, and a step    *)
(* moves it from one of these to another.  That the machines take turns     *)
(* (FetchBusy, FetchWaits, FetchRests), that a batch fits into the ring     *)
(* (FetchRoom) and that whoever has a task under way has one indeed         *)
(* (FetchContexts) is what it needs.                                        *)
(* The second part follows the mark words, as long as the cache is kept.    *)
EXTENDS GCFetch, FiniteSetTheorems, TLAPS

-----------------------------------------------------------------------------
(* GCFetch.  What a machine has under way, main waits for or the stack has  *)
(* is what is owed, as long as the three machines and the unit they serve   *)
(* take turns the way FetchBusy and FetchWaits say.                         *)
FetchStates == {"IDLE", "READ_OOP_REQ", "READ_OOP_RESP", "READ_MW_REQ", "READ_MW_RESP", "SEND",
                "WAIT_DONE"}
MarkStates  == {"READ_MW_REQ", "READ_MW_RESP", "SEND", "WAIT_DONE"}
StackTasks  == [task : Tasks, seen : BOOLEAN]

\* Main waits for the unit exactly while the unit has a task.
FetchBusy == work # "none" <=> In("main", "WAIT_DONE")

\* Main and push are idle while main waits for an entry of the ring.
FetchWaits == waitForPrefetch => In("main", "IDLE") /\ In("push", "IDLE") /\ buf_count # 0

\* The job ends with nothing left to do for either of them.
FetchRests == ~running => /\ stack = <<>> /\ In("main", "IDLE") /\ In("push", "IDLE")
                          /\ ~waitForPrefetch

\* The entries and the rest of a batch fit; the entry at work is not done.
FetchRoom ==
  /\ buf_count + pushFollowRem <= PreFetchBufferNum /\ FollowInStep
  /\ ~In("pre", "IDLE") => ~preBufDone[buf_work]

\* A machine at work has a task, and the object it refers to once it is known.
HasTask(state, c) == /\ state # "IDLE" => c.task \in Tasks
                     /\ state \in MarkStates => c.obj \in Objects
FetchContexts ==
  /\ HasTask(fsm["main"], main_data) /\ HasTask(fsm["push"], push_data)
  /\ HasTask(fsm["pre"], preBuf[buf_work])
  /\ \A s \in Slots : preBufDone[s] => preBuf[s].task \in Tasks /\ preBuf[s].obj \in Objects

\* Where a task is that is owed.
TaskCount(s, t) == Cardinality({i \in DOMAIN s : s[i].task = t})
InMain(t) == IF ~In("main", "IDLE") /\ ~In("main", "WAIT_DONE") /\ main_data.task = t THEN 1 ELSE 0
InPush(t) == IF ~In("push", "IDLE") /\ push_data.task = t THEN 1 ELSE 0
InWait(t) == IF waitForPrefetch /\ preBuf[buf_bottom].task = t THEN 1 ELSE 0
Owed == \A t \in Tasks : owed[t] = TaskCount(stack, t) + InMain(t) + InPush(t) + InWait(t)

FetchInv == /\ TypeOK /\ FetchBusy /\ FetchWaits /\ FetchRests /\ FetchRoom /\ FetchContexts
            /\ Owed

\* TaskCountType: how often a task is in a sequence of tasks is a number.
LEMMA TaskCountType ==
  ASSUME NEW s \in Seq(StackTasks), NEW t
  PROVE  IsFiniteSet({i \in DOMAIN s : s[i].task = t}) /\ TaskCount(s, t) \in Nat
<1>1. Len(s) \in Nat /\ DOMAIN s = 1 .. Len(s)
  OBVIOUS
<1>2. IsFiniteSet(1 .. Len(s))
  BY <1>1, FS_Interval
<1>3. IsFiniteSet({i \in DOMAIN s : s[i].task = t})
  BY <1>1, <1>2, FS_Subset
<1>. QED BY <1>3, FS_CardinalityType DEF TaskCount

\* TaskCountShift: one task more at the front counts for itself.
LEMMA TaskCountShift ==
  ASSUME NEW a \in Seq(StackTasks), NEW b \in Seq(StackTasks), Len(a) = Len(b) + 1,
         \A i \in 1 .. Len(b) : a[i + 1].task = b[i].task, NEW t
  PROVE  TaskCount(a, t) = TaskCount(b, t) + (IF a[1].task = t THEN 1 ELSE 0)
<1>. DEFINE S == {i \in DOMAIN b : b[i].task = t}
            R == {i \in DOMAIN a : i > 1 /\ a[i].task = t}
            f == [i \in S |-> i + 1]
<1>1. /\ Len(b) \in Nat /\ DOMAIN b = 1 .. Len(b) /\ DOMAIN a = 1 .. Len(b) + 1
      /\ IsFiniteSet(S) /\ TaskCount(b, t) = Cardinality(S)
  <2>1. IsFiniteSet(S)
    BY TaskCountType
  <2>2. TaskCount(b, t) = Cardinality(S)
    BY DEF TaskCount
  <2>. QED BY <2>1, <2>2
<1>2. \A i \in S : i + 1 \in R
  BY <1>1
<1>3. \A j \in R : j - 1 \in S /\ (j - 1) + 1 = j
  <2>1. SUFFICES ASSUME NEW j \in R PROVE j - 1 \in S /\ (j - 1) + 1 = j
    OBVIOUS
  <2>2. j \in Int /\ j - 1 \in 1 .. Len(b) /\ (j - 1) + 1 = j
    BY <1>1
  <2>3. a[(j - 1) + 1].task = b[j - 1].task
    BY <2>2
  <2>. QED BY <1>1, <2>2, <2>3
<1>4. f \in Bijection(S, R)
  <2>1. f \in [S -> R]
    BY <1>2
  <2>2. \A i, j \in S : f[i] = f[j] => i = j
    BY <1>1
  <2>3. \A j \in R : \E i \in S : f[i] = j
    BY <1>3
  <2>. QED BY <2>1, <2>2, <2>3 DEF Bijection, Injection, Surjection, IsInjective
<1>5. IsFiniteSet(R) /\ Cardinality(R) = Cardinality(S)
  BY <1>1, <1>4, FS_Bijection DEF ExistsBijection
<1>6. CASE a[1].task = t
  <2>1. {i \in DOMAIN a : a[i].task = t} = R \cup {1} /\ 1 \notin R
    BY <1>1, <1>6
  <2>. QED BY <1>1, <1>5, <1>6, <2>1, FS_AddElement DEF TaskCount
<1>7. CASE a[1].task # t
  <2>1. {i \in DOMAIN a : a[i].task = t} = R
    BY <1>1, <1>7
  <2>2. Cardinality(S) \in Nat
    BY <1>1, FS_CardinalityType
  <2>3. TaskCount(a, t) = Cardinality(R)
    BY <2>1 DEF TaskCount
  <2>. HIDE DEF S, R
  <2>. QED BY <1>1, <1>5, <1>7, <2>2, <2>3
<1>. QED BY <1>6, <1>7

\* TaskCountMarked: a PrePop mark moves no task.
LEMMA TaskCountMarked ==
  ASSUME NEW s \in Seq(StackTasks), NEW k \in 1 .. Len(s), NEW v \in BOOLEAN
  PROVE  /\ [s EXCEPT ![k].seen = v] \in Seq(StackTasks)
         /\ \A t : TaskCount([s EXCEPT ![k].seen = v], t) = TaskCount(s, t)
<1>1. [s EXCEPT ![k].seen = v] = [s EXCEPT ![k] = [s[k] EXCEPT !.seen = v]]
  OBVIOUS
<1>2. s[k] \in StackTasks
  OBVIOUS
<1>3. /\ [s[k] EXCEPT !.seen = v] \in StackTasks
      /\ [s[k] EXCEPT !.seen = v].task = s[k].task
  BY <1>2 DEF StackTasks
<1>. DEFINE r == [s[k] EXCEPT !.seen = v]
            q == [s EXCEPT ![k] = r]
<1>4. r \in StackTasks /\ r.task = s[k].task
  BY <1>3
<1>. HIDE DEF r
<1>5. q \in Seq(StackTasks) /\ DOMAIN q = DOMAIN s /\ \A i \in DOMAIN s : q[i].task = s[i].task
  BY <1>4
<1>. HIDE DEF q
<1>6. \A t : {i \in DOMAIN q : q[i].task = t} = {i \in DOMAIN s : s[i].task = t}
  BY <1>5
<1>7. \A t : TaskCount(q, t) = TaskCount(s, t)
  BY <1>6 DEF TaskCount
<1>. QED BY <1>1, <1>5, <1>7 DEF q, r

\* TaskCountTail: a pop takes the first task and no other.
LEMMA TaskCountTail ==
  ASSUME NEW s \in Seq(StackTasks), s # <<>>, NEW t
  PROVE  /\ Tail(s) \in Seq(StackTasks) /\ s[1] \in StackTasks
         /\ TaskCount(s, t) = TaskCount(Tail(s), t) + (IF s[1].task = t THEN 1 ELSE 0)
<1>1. /\ Tail(s) \in Seq(StackTasks) /\ Len(s) = Len(Tail(s)) + 1 /\ s[1] \in StackTasks
      /\ \A i \in 1 .. Len(Tail(s)) : s[i + 1] = Tail(s)[i]
  OBVIOUS
<1>. QED BY <1>1, TaskCountShift

\* TaskCountFront: a push adds one.
LEMMA TaskCountFront ==
  ASSUME NEW s \in Seq(StackTasks), NEW e \in StackTasks, NEW t
  PROVE  /\ <<e>> \o s \in Seq(StackTasks)
         /\ TaskCount(<<e>> \o s, t) = TaskCount(s, t) + (IF e.task = t THEN 1 ELSE 0)
<1>. DEFINE a == <<e>> \o s
<1>1. /\ a \in Seq(StackTasks) /\ Len(a) = Len(s) + 1 /\ a[1] = e
      /\ \A i \in 1 .. Len(s) : a[i + 1] = s[i]
  OBVIOUS
<1>. HIDE DEF a
<1>2. TaskCount(a, t) = TaskCount(s, t) + (IF a[1].task = t THEN 1 ELSE 0)
  BY <1>1, TaskCountShift
<1>. QED BY <1>1, <1>2 DEF a

\* FsmMoves: one machine goes to another state, the others stay.
LEMMA FsmMoves ==
  ASSUME fsm \in [Machines -> FetchStates], NEW m \in Machines, NEW q \in FetchStates, Goto(m, q)
  PROVE  /\ fsm' \in [Machines -> FetchStates] /\ fsm'[m] = q
         /\ \A k \in Machines : k # m => fsm'[k] = fsm[k]
  BY DEF Goto

\* TidyKeeps: nothing but an announcement puts something into the cache.
LEMMA TidyKeeps ==
  ASSUME fwdCache \in Seq(Objects), Len(fwdCache) <= ForwardCacheEntries, Tidy
  PROVE  fwdCache' \in Seq(Objects) /\ Len(fwdCache') <= ForwardCacheEntries
<1>1. <<>> \in Seq(Objects) /\ Len(<<>>) <= ForwardCacheEntries
  BY ConstantsAssumption
<1>. QED BY <1>1 DEF Tidy

\* SlotSteps: ring arithmetic stays in the ring.
LEMMA SlotSteps ==
  ASSUME NEW s \in Slots, NEW n \in Int
  PROVE  Inc(s, n) \in Slots /\ Dec(s, n) \in Slots
  BY ConstantsAssumption DEF Inc, Dec, Slots

\* SetContextSets: only the register or slot of the machine changes.
LEMMA SetContextSets ==
  ASSUME main_data \in Contexts, push_data \in Contexts, preBuf \in [Slots -> Contexts],
         buf_work \in Slots, NEW m \in Machines, NEW c \in Contexts, SetContext(m, c)
  PROVE  /\ Context(m) \in Contexts
         /\ main_data' \in Contexts /\ push_data' \in Contexts /\ preBuf' \in [Slots -> Contexts]
         /\ main_data' = (IF m = "main" THEN c ELSE main_data)
         /\ push_data' = (IF m = "push" THEN c ELSE push_data)
         /\ preBuf'[buf_work] = IF m = "pre" THEN c ELSE preBuf[buf_work]
         /\ \A s \in Slots : s # buf_work => preBuf'[s] = preBuf[s]
<1>1. CASE m = "main"
  BY <1>1 DEF SetContext, Context
<1>2. CASE m = "push"
  BY <1>2 DEF SetContext, Context
<1>3. CASE m = "pre"
  BY <1>3 DEF SetContext, Context
<1>. QED BY <1>1, <1>2, <1>3 DEF Machines

\* ReadOopStep: what the four ways through the read of a field have in common.
LEMMA ReadOopStep ==
  ASSUME FetchInv, NEW m \in Machines, ReadOop(m)
  PROVE  /\ fsm' \in [Machines -> FetchStates]
         /\ fsm[m] \in {"READ_OOP_REQ", "READ_OOP_RESP"}
         /\ fsm'[m] \in {"READ_OOP_RESP", "READ_MW_REQ"}
         /\ \A k \in Machines : k # m => fsm'[k] = fsm[k]
         /\ main_data' \in Contexts /\ push_data' \in Contexts /\ preBuf' \in [Slots -> Contexts]
         /\ main_data'.task = main_data.task /\ push_data'.task = push_data.task
         /\ \A s \in Slots : preBuf'[s].task = preBuf[s].task
         /\ m # "main" => main_data' = main_data
         /\ m # "push" => push_data' = push_data
         /\ \A s \in Slots : m # "pre" \/ s # buf_work => preBuf'[s] = preBuf[s]
         /\ fsm'[m] = "READ_MW_REQ" =>
              CASE m = "main" -> main_data'.obj \in Objects
                [] m = "push" -> push_data'.obj \in Objects
                [] m = "pre"  -> preBuf'[buf_work].obj \in Objects
<1>1. /\ main_data \in Contexts /\ push_data \in Contexts /\ preBuf \in [Slots -> Contexts]
      /\ buf_work \in Slots /\ fsm \in [Machines -> FetchStates]
  BY DEF FetchInv, TypeOK, FetchStates
<1>2. CASE AsksOop(m)
  <2>1. fsm[m] = "READ_OOP_REQ" /\ Goto(m, "READ_OOP_RESP") /\ UNCHANGED <<context, preBuf>>
    BY <1>2 DEF AsksOop, In
  <2>2. fsm' \in [Machines -> FetchStates] /\ fsm'[m] = "READ_OOP_RESP"
        /\ \A k \in Machines : k # m => fsm'[k] = fsm[k]
    BY <1>1, <2>1, FsmMoves DEF FetchStates
  <2>. QED BY <1>1, <2>1, <2>2 DEF context
<1>3. ASSUME fsm[m] \in {"READ_OOP_REQ", "READ_OOP_RESP"}, Goto(m, "READ_MW_REQ"),
             SetContext(m, [Context(m) EXCEPT !.obj = Target[Context(m).task]])
      PROVE  /\ fsm' \in [Machines -> FetchStates] /\ fsm'[m] = "READ_MW_REQ"
             /\ \A k \in Machines : k # m => fsm'[k] = fsm[k]
             /\ main_data' \in Contexts /\ push_data' \in Contexts
             /\ preBuf' \in [Slots -> Contexts]
             /\ main_data'.task = main_data.task /\ push_data'.task = push_data.task
             /\ \A s \in Slots : preBuf'[s].task = preBuf[s].task
             /\ m # "main" => main_data' = main_data
             /\ m # "push" => push_data' = push_data
             /\ \A s \in Slots : m # "pre" \/ s # buf_work => preBuf'[s] = preBuf[s]
             /\ CASE m = "main" -> main_data'.obj \in Objects
                  [] m = "push" -> push_data'.obj \in Objects
                  [] m = "pre"  -> preBuf'[buf_work].obj \in Objects
  <2>1. Context(m) \in Contexts /\ Context(m).task \in Tasks
    BY <1>1, <1>3 DEF FetchInv, FetchContexts, HasTask, Context, Machines
  <2>. DEFINE c == [Context(m) EXCEPT !.obj = Target[Context(m).task]]
  <2>2. c \in Contexts /\ c.task = Context(m).task /\ c.obj \in Objects
    BY <2>1, ConstantsAssumption DEF Contexts
  <2>. HIDE DEF c
  <2>3. SetContext(m, c)
    BY <1>3 DEF c
  <2>4. /\ main_data' \in Contexts /\ push_data' \in Contexts /\ preBuf' \in [Slots -> Contexts]
        /\ main_data' = (IF m = "main" THEN c ELSE main_data)
        /\ push_data' = (IF m = "push" THEN c ELSE push_data)
        /\ preBuf'[buf_work] = (IF m = "pre" THEN c ELSE preBuf[buf_work])
        /\ \A s \in Slots : s # buf_work => preBuf'[s] = preBuf[s]
    BY <1>1, <2>2, <2>3, SetContextSets
  <2>5. fsm' \in [Machines -> FetchStates] /\ fsm'[m] = "READ_MW_REQ"
        /\ \A k \in Machines : k # m => fsm'[k] = fsm[k]
    BY <1>1, <1>3, FsmMoves DEF FetchStates
  <2>6. CASE m = "main"
    BY <2>2, <2>4, <2>5, <2>6 DEF Context
  <2>7. CASE m = "push"
    BY <2>2, <2>4, <2>5, <2>7 DEF Context
  <2>8. CASE m = "pre"
    BY <2>2, <2>4, <2>5, <2>8 DEF Context
  <2>. QED BY <2>6, <2>7, <2>8 DEF Machines
<1>4. CASE TakesPartial(m)
  BY <1>3, <1>4 DEF TakesPartial, In
<1>5. CASE ForwardedByCopy(m)
  BY <1>3, <1>5 DEF ForwardedByCopy, In
<1>6. CASE OopAnswer(m)
  BY <1>3, <1>6 DEF OopAnswer, In
<1>. QED BY <1>2, <1>4, <1>5, <1>6 DEF ReadOop

\* ReadOop moves no task.
LEMMA ReadOopKeeps ==
  ASSUME FetchInv, NEW m \in Machines, ReadOop(m)
  PROVE  FetchInv'
<1>1. /\ fsm' \in [Machines -> FetchStates]
      /\ fsm[m] \in {"READ_OOP_REQ", "READ_OOP_RESP"}
      /\ fsm'[m] \in {"READ_OOP_RESP", "READ_MW_REQ"}
      /\ \A k \in Machines : k # m => fsm'[k] = fsm[k]
      /\ main_data' \in Contexts /\ push_data' \in Contexts /\ preBuf' \in [Slots -> Contexts]
      /\ main_data'.task = main_data.task /\ push_data'.task = push_data.task
      /\ \A s \in Slots : preBuf'[s].task = preBuf[s].task
      /\ m # "main" => main_data' = main_data
      /\ m # "push" => push_data' = push_data
      /\ \A s \in Slots : m # "pre" \/ s # buf_work => preBuf'[s] = preBuf[s]
      /\ fsm'[m] = "READ_MW_REQ" =>
           CASE m = "main" -> main_data'.obj \in Objects
             [] m = "push" -> push_data'.obj \in Objects
             [] m = "pre"  -> preBuf'[buf_work].obj \in Objects
  BY ReadOopStep
<1>2. UNCHANGED <<preBufDone, window, waitForPrefetch, rd, stackVars, running, heap, unit, owed>>
  BY DEF ReadOop
<1>3. fwdCache' \in Seq(Objects) /\ Len(fwdCache') <= ForwardCacheEntries
  BY TidyKeeps DEF ReadOop, FetchInv, TypeOK
<1>4. buf_work \in Slots /\ buf_bottom \in Slots
  BY DEF FetchInv, TypeOK
<1>5. "main" \in Machines /\ "push" \in Machines /\ "pre" \in Machines
  BY DEF Machines
<1>6. /\ fsm'["main"] = "IDLE" <=> fsm["main"] = "IDLE"
      /\ fsm'["main"] = "WAIT_DONE" <=> fsm["main"] = "WAIT_DONE"
      /\ fsm'["push"] = "IDLE" <=> fsm["push"] = "IDLE"
      /\ fsm'["pre"] = "IDLE" <=> fsm["pre"] = "IDLE"
  BY <1>1, <1>5
<1>7. TypeOK'
  BY <1>1, <1>2, <1>3 DEF FetchInv, TypeOK, FetchStates, window, stackVars, heap, unit
<1>8. FetchBusy' /\ FetchWaits' /\ FetchRests' /\ FetchRoom'
  BY <1>2, <1>6 DEF FetchInv, FetchBusy, FetchWaits, FetchRests, FetchRoom, FollowInStep, In,
     window, stackVars, unit
<1>9. FetchContexts'
  <2>1. HasTask(fsm'["main"], main_data')
    BY <1>1, <1>5 DEF FetchInv, FetchContexts, HasTask, MarkStates
  <2>2. HasTask(fsm'["push"], push_data')
    BY <1>1, <1>5 DEF FetchInv, FetchContexts, HasTask, MarkStates
  <2>3. HasTask(fsm'["pre"], preBuf'[buf_work])
    BY <1>1, <1>4, <1>5 DEF FetchInv, FetchContexts, HasTask, MarkStates
  <2>4. \A s \in Slots : preBufDone[s] => preBuf'[s].task \in Tasks /\ preBuf'[s].obj \in Objects
    BY <1>1, <1>4 DEF FetchInv, FetchContexts, FetchRoom, In
  <2>5. preBufDone' = preBufDone /\ buf_work' = buf_work
    BY <1>2 DEF window
  <2>. QED BY <2>1, <2>2, <2>3, <2>4, <2>5 DEF FetchContexts
<1>10. Owed'
  <2>1. \A t : InMain(t)' = InMain(t)
    BY <1>1, <1>6 DEF InMain, In
  <2>2. \A t : InPush(t)' = InPush(t)
    BY <1>1, <1>6 DEF InPush, In
  <2>3. \A t : InWait(t)' = InWait(t)
    BY <1>1, <1>2, <1>4 DEF InWait, window
  <2>. QED BY <1>2, <2>1, <2>2, <2>3 DEF FetchInv, Owed, stackVars
<1>. QED BY <1>7, <1>8, <1>9, <1>10 DEF FetchInv

\* TasksStay: a step that moves no task, in no queue and in no machine.
LEMMA TasksStay ==
  ASSUME FetchInv, fsm' \in [Machines -> FetchStates],
         fsm'["main"] = "IDLE" <=> fsm["main"] = "IDLE",
         fsm'["main"] = "WAIT_DONE" <=> fsm["main"] = "WAIT_DONE",
         fsm'["push"] = "IDLE" <=> fsm["push"] = "IDLE",
         main_data' \in Contexts, push_data' \in Contexts, preBuf' \in [Slots -> Contexts],
         main_data'.task = main_data.task, push_data'.task = push_data.task,
         \A s \in Slots : preBuf'[s].task = preBuf[s].task,
         HasTask(fsm'["main"], main_data'), HasTask(fsm'["push"], push_data'),
         HasTask(fsm'["pre"], preBuf'[buf_work]),
         preBufDone' \in [Slots -> BOOLEAN],
         \A s \in Slots : preBufDone'[s] =>
           preBuf'[s].task \in Tasks /\ preBuf'[s].obj \in Objects,
         fsm'["pre"] # "IDLE" => ~preBufDone'[buf_work],
         UNCHANGED <<window, waitForPrefetch, stackVars, running, chunk, owed>>,
         rd' \in [Machines -> BOOLEAN], fwdCache' \in Seq(Objects),
         Len(fwdCache') <= ForwardCacheEntries, mem' \in [Objects -> BOOLEAN],
         announced' \subseteq Objects, late' \subseteq Objects, trace' \in Seq(Tasks),
         work' \in {"none", "copying", "installed", "tracing", "waiting"},
         work' = "none" <=> work = "none"
  PROVE  FetchInv'
<1>1. buf_work \in Slots /\ buf_bottom \in Slots
  BY DEF FetchInv, TypeOK
<1>2. TypeOK'
  BY DEF FetchInv, TypeOK, FetchStates, window, stackVars
<1>3. FetchBusy' /\ FetchWaits' /\ FetchRests' /\ FetchRoom'
  BY DEF FetchInv, FetchBusy, FetchWaits, FetchRests, FetchRoom, FollowInStep, In,
     window, stackVars
<1>4. FetchContexts'
  BY DEF FetchContexts, window
<1>5. Owed'
  <2>1. \A t : InMain(t)' = InMain(t)
    BY DEF InMain, In
  <2>2. \A t : InPush(t)' = InPush(t)
    BY DEF InPush, In
  <2>3. \A t : InWait(t)' = InWait(t)
    BY <1>1 DEF InWait, window
  <2>. QED BY <2>1, <2>2, <2>3 DEF FetchInv, Owed, stackVars
<1>. QED BY <1>2, <1>3, <1>4, <1>5 DEF FetchInv

\* AsksMark asks for the mark word of the object a machine has read of.
LEMMA AsksMarkKeeps ==
  ASSUME FetchInv, NEW m \in Machines, AsksMark(m)
  PROVE  FetchInv'
<1>1. TypeOK
  BY DEF FetchInv
<1>2. /\ fsm[m] = "READ_MW_REQ" /\ Goto(m, "READ_MW_RESP") /\ Tidy
      /\ rd' = [rd EXCEPT ![m] = mem[Context(m).obj]]
      /\ UNCHANGED <<context, slots, window, waitForPrefetch, stackVars, running, heap, unit, owed>>
  BY DEF AsksMark, In
<1>3. /\ fsm' \in [Machines -> FetchStates] /\ fsm'[m] = "READ_MW_RESP"
      /\ \A k \in Machines : k # m => fsm'[k] = fsm[k]
  BY <1>1, <1>2, FsmMoves DEF TypeOK, FetchStates
<1>4. "main" \in Machines /\ "push" \in Machines /\ "pre" \in Machines
  BY DEF Machines
<1>5. /\ fsm'["main"] = "IDLE" <=> fsm["main"] = "IDLE"
      /\ fsm'["main"] = "WAIT_DONE" <=> fsm["main"] = "WAIT_DONE"
      /\ fsm'["push"] = "IDLE" <=> fsm["push"] = "IDLE"
      /\ fsm'["pre"] = "IDLE" <=> fsm["pre"] = "IDLE"
  BY <1>2, <1>3, <1>4
<1>6. Context(m).obj \in Objects
  BY <1>2 DEF FetchInv, FetchContexts, HasTask, MarkStates, Context, Machines
<1>7. rd' \in [Machines -> BOOLEAN]
  BY <1>1, <1>2, <1>6 DEF TypeOK
<1>8. fwdCache' \in Seq(Objects) /\ Len(fwdCache') <= ForwardCacheEntries
  BY <1>1, <1>2, TidyKeeps DEF TypeOK
<1>9. /\ HasTask(fsm'["main"], main_data) /\ HasTask(fsm'["push"], push_data)
      /\ HasTask(fsm'["pre"], preBuf[buf_work])
  BY <1>2, <1>3, <1>4 DEF FetchInv, FetchContexts, HasTask, MarkStates
<1>10. /\ fsm'["pre"] # "IDLE" => ~preBufDone[buf_work]
       /\ \A s \in Slots : preBufDone[s] => preBuf[s].task \in Tasks /\ preBuf[s].obj \in Objects
  BY <1>5 DEF FetchInv, FetchRoom, FetchContexts, In
<1>. QED BY <1>1, <1>2, <1>3, <1>5, <1>7, <1>8, <1>9, <1>10, TasksStay
         DEF TypeOK, context, slots, heap, unit

\* MainMark: main has the mark word.
LEMMA MainMarkKeeps ==
  ASSUME FetchInv, MainMark
  PROVE  FetchInv'
<1>1. TypeOK
  BY DEF FetchInv
<1>2. /\ fsm["main"] = "READ_MW_RESP" /\ rd' = [rd EXCEPT !["main"] = FALSE]
      /\ Goto("main", "SEND") /\ Tidy
      /\ UNCHANGED <<push_data, slots, window, waitForPrefetch, stackVars, running, heap, unit,
                     owed>>
  BY DEF MainMark, MarkAnswered, In
<1>3. PICK v \in MarkRead("main") : main_data' = [main_data EXCEPT !.mark = v]
  BY DEF MainMark
<1>4. "main" \in Machines /\ "push" \in Machines /\ "pre" \in Machines
  BY DEF Machines
<1>5. /\ fsm' \in [Machines -> FetchStates] /\ fsm'["main"] = "SEND"
      /\ \A k \in Machines : k # "main" => fsm'[k] = fsm[k]
  BY <1>1, <1>2, <1>4, FsmMoves DEF TypeOK, FetchStates
<1>6. main_data.task \in Tasks /\ main_data.obj \in Objects
  BY <1>2 DEF FetchInv, FetchContexts, HasTask, MarkStates
<1>7. v \in BOOLEAN
  BY <1>1, <1>6 DEF MarkRead, TypeOK, Context
<1>8. /\ main_data' \in Contexts /\ main_data'.task = main_data.task
      /\ main_data'.obj = main_data.obj
  BY <1>1, <1>3, <1>7 DEF TypeOK, Contexts
<1>9. rd' \in [Machines -> BOOLEAN]
  BY <1>1, <1>2 DEF TypeOK
<1>10. fwdCache' \in Seq(Objects) /\ Len(fwdCache') <= ForwardCacheEntries
  BY <1>1, <1>2, TidyKeeps DEF TypeOK
<1>11. /\ HasTask(fsm'["main"], main_data') /\ HasTask(fsm'["push"], push_data)
       /\ HasTask(fsm'["pre"], preBuf[buf_work])
  BY <1>4, <1>5, <1>6, <1>8 DEF FetchInv, FetchContexts, HasTask
<1>12. /\ fsm'["pre"] # "IDLE" => ~preBufDone[buf_work]
       /\ \A s \in Slots : preBufDone[s] => preBuf[s].task \in Tasks /\ preBuf[s].obj \in Objects
  BY <1>4, <1>5 DEF FetchInv, FetchRoom, FetchContexts, In
<1>. QED BY <1>1, <1>2, <1>4, <1>5, <1>8, <1>9, <1>10, <1>11, <1>12, TasksStay
         DEF TypeOK, slots, heap, unit

\* EntryDoneStep: the slot pre worked on is complete.
LEMMA EntryDoneStep ==
  ASSUME FetchInv, EntryDone
  PROVE  /\ fsm["pre"] = "READ_MW_RESP" /\ fsm' \in [Machines -> FetchStates]
         /\ fsm'["pre"] = "IDLE" /\ fsm'["main"] = fsm["main"] /\ fsm'["push"] = fsm["push"]
         /\ preBuf' \in [Slots -> Contexts] /\ preBufDone' \in [Slots -> BOOLEAN]
         /\ \A s \in Slots : preBuf'[s].task = preBuf[s].task /\ preBuf'[s].obj = preBuf[s].obj
         /\ \A s \in Slots : preBufDone'[s] =>
              preBuf'[s].task \in Tasks /\ preBuf'[s].obj \in Objects
         /\ rd' \in [Machines -> BOOLEAN]
         /\ fwdCache' \in Seq(Objects) /\ Len(fwdCache') <= ForwardCacheEntries
         /\ UNCHANGED window
<1>1. TypeOK
  BY DEF FetchInv
<1>2. /\ fsm["pre"] = "READ_MW_RESP" /\ rd' = [rd EXCEPT !["pre"] = FALSE]
      /\ Goto("pre", "IDLE") /\ Tidy /\ UNCHANGED window
      /\ preBufDone' = [preBufDone EXCEPT ![buf_work] = TRUE]
  BY DEF EntryDone, MarkAnswered, In
<1>3. PICK v \in MarkRead("pre") : preBuf' = [preBuf EXCEPT ![buf_work].mark = preMarkWord(v)]
  BY DEF EntryDone
<1>4. "main" \in Machines /\ "push" \in Machines /\ "pre" \in Machines
  BY DEF Machines
<1>5. /\ fsm' \in [Machines -> FetchStates] /\ fsm'["pre"] = "IDLE"
      /\ \A k \in Machines : k # "pre" => fsm'[k] = fsm[k]
  BY <1>1, <1>2, <1>4, FsmMoves DEF TypeOK, FetchStates
<1>6. /\ buf_work \in Slots /\ preBuf[buf_work] \in Contexts
      /\ preBuf[buf_work].task \in Tasks /\ preBuf[buf_work].obj \in Objects
  BY <1>1, <1>2 DEF TypeOK, FetchInv, FetchContexts, HasTask, MarkStates
<1>7. v \in BOOLEAN
  BY <1>1, <1>6 DEF MarkRead, TypeOK, Context
<1>8. preMarkWord(v) \in BOOLEAN
  BY <1>7 DEF preMarkWord, resolveForwardMark, Forwarded
<1>. DEFINE c == [preBuf[buf_work] EXCEPT !.mark = preMarkWord(v)]
<1>9. c \in Contexts /\ c.task = preBuf[buf_work].task /\ c.obj = preBuf[buf_work].obj
  BY <1>6, <1>8 DEF Contexts
<1>10. preBuf' = [preBuf EXCEPT ![buf_work] = c]
  BY <1>1, <1>3, <1>6 DEF TypeOK
<1>. HIDE DEF c
<1>11. /\ preBuf' \in [Slots -> Contexts]
       /\ \A s \in Slots : preBuf'[s].task = preBuf[s].task /\ preBuf'[s].obj = preBuf[s].obj
  BY <1>1, <1>6, <1>9, <1>10 DEF TypeOK
<1>12. preBufDone' \in [Slots -> BOOLEAN]
       /\ \A s \in Slots : s # buf_work => preBufDone'[s] = preBufDone[s]
  BY <1>1, <1>2, <1>6 DEF TypeOK
<1>13. \A s \in Slots : preBufDone'[s] =>
         preBuf'[s].task \in Tasks /\ preBuf'[s].obj \in Objects
  BY <1>6, <1>11, <1>12 DEF FetchInv, FetchContexts
<1>14. rd' \in [Machines -> BOOLEAN]
  BY <1>1, <1>2 DEF TypeOK
<1>15. fwdCache' \in Seq(Objects) /\ Len(fwdCache') <= ForwardCacheEntries
  BY <1>1, <1>2, TidyKeeps DEF TypeOK
<1>. QED BY <1>2, <1>4, <1>5, <1>11, <1>12, <1>13, <1>14, <1>15

\* PreMark completes an entry that main does not wait for.
LEMMA PreMarkKeeps ==
  ASSUME FetchInv, PreMark
  PROVE  FetchInv'
<1>1. TypeOK /\ EntryDone
      /\ UNCHANGED <<context, waitForPrefetch, stackVars, running, heap, unit, owed>>
  BY DEF FetchInv, PreMark
<1>2. /\ fsm["pre"] = "READ_MW_RESP" /\ fsm' \in [Machines -> FetchStates]
      /\ fsm'["pre"] = "IDLE" /\ fsm'["main"] = fsm["main"] /\ fsm'["push"] = fsm["push"]
      /\ preBuf' \in [Slots -> Contexts] /\ preBufDone' \in [Slots -> BOOLEAN]
      /\ \A s \in Slots : preBuf'[s].task = preBuf[s].task /\ preBuf'[s].obj = preBuf[s].obj
      /\ \A s \in Slots : preBufDone'[s] =>
           preBuf'[s].task \in Tasks /\ preBuf'[s].obj \in Objects
      /\ rd' \in [Machines -> BOOLEAN]
      /\ fwdCache' \in Seq(Objects) /\ Len(fwdCache') <= ForwardCacheEntries
      /\ UNCHANGED window
  BY <1>1, EntryDoneStep
<1>3. /\ HasTask(fsm'["main"], main_data) /\ HasTask(fsm'["push"], push_data)
      /\ HasTask(fsm'["pre"], preBuf'[buf_work])
  BY <1>2 DEF FetchInv, FetchContexts, HasTask, MarkStates
<1>. QED BY <1>1, <1>2, <1>3, TasksStay DEF TypeOK, context, heap, unit

\* PopStep: what a pop takes from the stack is what main goes on with.
LEMMA PopStep ==
  ASSUME FetchInv, PopFires
  PROVE  /\ running /\ fsm["main"] = "IDLE" /\ fsm["push"] = "IDLE" /\ ~waitForPrefetch
         /\ stack # <<>> /\ stack' \in Seq(StackTasks) /\ popBase \in Tasks
         /\ \A t \in Tasks : TaskCount(stack, t) =
              TaskCount(stack', t) + (IF t = popBase THEN 1 ELSE 0)
         /\ \A t \in Tasks : InMain(t) = 0 /\ InPush(t) = 0 /\ InWait(t) = 0
<1>1. stack \in Seq(StackTasks)
  BY DEF FetchInv, TypeOK, StackTasks
<1>2. /\ running /\ fsm["main"] = "IDLE" /\ fsm["push"] = "IDLE" /\ ~waitForPrefetch
      /\ stack # <<>> /\ stack' = Tail(stack)
  BY DEF PopFires, PopReady, PopValid, In
<1>3. /\ stack' \in Seq(StackTasks) /\ stack[1] \in StackTasks
      /\ \A t \in Tasks : TaskCount(stack, t) =
           TaskCount(stack', t) + (IF stack[1].task = t THEN 1 ELSE 0)
  BY <1>1, <1>2, TaskCountTail
<1>4. popBase \in Tasks
  BY <1>3 DEF popBase, StackTasks
<1>5. \A t \in Tasks : InMain(t) = 0 /\ InPush(t) = 0 /\ InWait(t) = 0
  BY <1>2 DEF InMain, InPush, InWait, In
<1>6. \A t \in Tasks : TaskCount(stack, t) =
        TaskCount(stack', t) + (IF t = popBase THEN 1 ELSE 0)
  BY <1>3 DEF popBase
<1>. QED BY <1>2, <1>3, <1>4, <1>5, <1>6

\* PopAsAnswered: main starts to wait for an entry that is done.
LEMMA PopAsAnsweredKeeps ==
  ASSUME FetchInv, PopAsAnswered
  PROVE  FetchInv'
<1>1. /\ TypeOK /\ EntryDone /\ PopFires /\ bottomHit /\ waitForPrefetch' = TRUE
      /\ main_data' = main_data /\ push_data' = push_data
      /\ UNCHANGED <<push_count, not_prefetch, pushPrePopRem, pushPrePopOffset, running, heap,
                     unit, owed>>
  BY DEF FetchInv, PopAsAnswered, Popped
<1>2. /\ fsm["pre"] = "READ_MW_RESP" /\ fsm' \in [Machines -> FetchStates]
      /\ fsm'["pre"] = "IDLE" /\ fsm'["main"] = fsm["main"] /\ fsm'["push"] = fsm["push"]
      /\ preBuf' \in [Slots -> Contexts] /\ preBufDone' \in [Slots -> BOOLEAN]
      /\ \A s \in Slots : preBuf'[s].task = preBuf[s].task /\ preBuf'[s].obj = preBuf[s].obj
      /\ \A s \in Slots : preBufDone'[s] =>
           preBuf'[s].task \in Tasks /\ preBuf'[s].obj \in Objects
      /\ rd' \in [Machines -> BOOLEAN]
      /\ fwdCache' \in Seq(Objects) /\ Len(fwdCache') <= ForwardCacheEntries
      /\ UNCHANGED window
  BY <1>1, EntryDoneStep
<1>3. /\ running /\ fsm["main"] = "IDLE" /\ fsm["push"] = "IDLE" /\ ~waitForPrefetch
      /\ stack # <<>> /\ stack' \in Seq(StackTasks) /\ popBase \in Tasks
      /\ \A t \in Tasks : TaskCount(stack, t) =
           TaskCount(stack', t) + (IF t = popBase THEN 1 ELSE 0)
      /\ \A t \in Tasks : InMain(t) = 0 /\ InPush(t) = 0 /\ InWait(t) = 0
  BY <1>1, PopStep
<1>4. /\ buf_bottom \in Slots /\ buf_work \in Slots /\ buf_count # 0
      /\ preBuf'[buf_bottom].task = popBase
  BY <1>1, <1>2 DEF bottomHit, TypeOK
<1>5. TypeOK'
  BY <1>1, <1>2, <1>3 DEF TypeOK, FetchStates, StackTasks, window, heap, unit
<1>6. FetchBusy' /\ FetchWaits' /\ FetchRests' /\ FetchRoom'
  BY <1>1, <1>2, <1>3, <1>4 DEF FetchInv, FetchBusy, FetchWaits, FetchRests, FetchRoom,
     FollowInStep, In, window, unit
<1>7. FetchContexts'
  <2>1. /\ HasTask(fsm'["main"], main_data) /\ HasTask(fsm'["push"], push_data)
        /\ HasTask(fsm'["pre"], preBuf'[buf_work])
    BY <1>2 DEF FetchInv, FetchContexts, HasTask, MarkStates
  <2>. QED BY <1>1, <1>2, <2>1 DEF FetchContexts, window
<1>8. Owed'
  <2>1. \A t \in Tasks : InMain(t)' = 0 /\ InPush(t)' = 0
    BY <1>2, <1>3 DEF InMain, InPush, In
  <2>2. \A t \in Tasks : InWait(t)' = IF t = popBase THEN 1 ELSE 0
    BY <1>1, <1>2, <1>4 DEF InWait, window
  <2>3. \A t \in Tasks : owed[t] = TaskCount(stack, t) /\ TaskCount(stack', t) \in Nat
    <3>1. stack \in Seq(StackTasks)
      BY <1>1 DEF TypeOK, StackTasks
    <3>2. \A t \in Tasks : TaskCount(stack, t) \in Nat /\ TaskCount(stack', t) \in Nat
      BY <1>3, <3>1, TaskCountType
    <3>. QED BY <1>3, <3>2 DEF FetchInv, Owed
  <2>. QED BY <1>1, <1>3, <2>1, <2>2, <2>3 DEF Owed
<1>. QED BY <1>5, <1>6, <1>7, <1>8 DEF FetchInv

\* MainTakes: main goes on with the entry at the bottom, which the stack gave
\* up now or when the wait for it began.
LEMMA MainTakes ==
  ASSUME FetchInv, running, buf_count # 0, ConsumeBottom,
         fsm["main"] = "IDLE", fsm["push"] = "IDLE",
         fsm' \in [Machines -> FetchStates], fsm'["main"] = "SEND", fsm'["push"] = "IDLE",
         fsm'["pre"] \in {fsm["pre"], "IDLE"}, waitForPrefetch' = FALSE,
         main_data' \in Contexts, main_data'.task \in Tasks, main_data'.obj \in Objects,
         rd' \in [Machines -> BOOLEAN], fwdCache' \in Seq(Objects),
         Len(fwdCache') <= ForwardCacheEntries, stack' \in Seq(StackTasks),
         \A t \in Tasks : TaskCount(stack, t) + InWait(t) =
           TaskCount(stack', t) + (IF t = main_data'.task THEN 1 ELSE 0),
         UNCHANGED <<push_data, push_count, not_prefetch, pushPrePopRem, pushPrePopOffset,
                     running, heap, unit, owed>>
  PROVE  FetchInv'
<1>1. TypeOK /\ buf_bottom \in Slots /\ buf_work \in Slots
  BY DEF FetchInv, TypeOK
<1>2. /\ buf_bottom' \in Slots /\ buf_count' = buf_count - 1
      /\ buf_count' \in 0 .. PreFetchBufferNum
      /\ preBufDone' \in [Slots -> BOOLEAN] /\ \A s \in Slots : preBufDone'[s] => preBufDone[s]
      /\ UNCHANGED <<preBuf, buf_top, buf_work, pushFollowRem>>
  <2>1. buf_bottom' \in Slots
    BY <1>1, SlotSteps DEF ConsumeBottom
  <2>2. buf_count' = buf_count - 1 /\ buf_count' \in 0 .. PreFetchBufferNum
    BY <1>1, ConstantsAssumption DEF ConsumeBottom, TypeOK
  <2>. QED BY <1>1, <2>1, <2>2 DEF ConsumeBottom, TypeOK
<1>3. TypeOK'
  BY <1>1, <1>2 DEF TypeOK, FetchStates, StackTasks, heap, unit
<1>4. FetchBusy' /\ FetchWaits' /\ FetchRests'
  BY DEF FetchInv, FetchBusy, FetchWaits, FetchRests, In, unit
<1>5. FetchRoom'
  <2>1. buf_count' + pushFollowRem' <= PreFetchBufferNum
    BY <1>1, <1>2, ConstantsAssumption DEF FetchInv, FetchRoom, TypeOK
  <2>2. FollowInStep' /\ (~In("pre", "IDLE") => ~preBufDone[buf_work])'
    BY <1>1, <1>2 DEF FetchInv, FetchRoom, FollowInStep, In
  <2>. QED BY <2>1, <2>2 DEF FetchRoom
<1>6. FetchContexts'
  <2>1. HasTask(fsm'["main"], main_data') /\ HasTask(fsm'["push"], push_data)
    BY DEF HasTask, MarkStates
  <2>2. HasTask(fsm'["pre"], preBuf[buf_work])
    BY DEF FetchInv, FetchContexts, HasTask, MarkStates
  <2>3. \A s \in Slots : preBufDone'[s] => preBuf[s].task \in Tasks /\ preBuf[s].obj \in Objects
    BY <1>2 DEF FetchInv, FetchContexts
  <2>. QED BY <1>2, <2>1, <2>2, <2>3 DEF FetchContexts
<1>7. Owed'
  <2>1. \A t \in Tasks : InMain(t) = 0 /\ InPush(t) = 0
    BY DEF InMain, InPush, In
  <2>2. \A t \in Tasks : InMain(t)' = IF t = main_data'.task THEN 1 ELSE 0
    BY DEF InMain, In
  <2>3. \A t \in Tasks : InPush(t)' = 0 /\ InWait(t)' = 0
    BY DEF InPush, InWait, In
  <2>4. stack \in Seq(StackTasks)
    BY <1>1 DEF TypeOK, StackTasks
  <2>5. \A t \in Tasks : TaskCount(stack, t) \in Nat /\ TaskCount(stack', t) \in Nat
    BY <2>4, TaskCountType
  <2>6. \A t \in Tasks : owed[t] = TaskCount(stack, t) + InWait(t)
    <3>1. \A t \in Tasks : InWait(t) \in {0, 1}
      BY DEF InWait
    <3>. QED BY <2>1, <2>5, <3>1 DEF FetchInv, Owed
  <2>. QED BY <2>2, <2>3, <2>5, <2>6 DEF Owed
<1>. QED BY <1>3, <1>4, <1>5, <1>6, <1>7 DEF FetchInv

\* PopReadyEntry takes an entry that is done.
LEMMA PopReadyEntryKeeps ==
  ASSUME FetchInv, PopReadyEntry
  PROVE  FetchInv'
<1>1. /\ TypeOK /\ PopFires /\ bottomHit /\ preBufDone[buf_bottom] /\ buf_bottom \in Slots
      /\ main_data' = preBuf[buf_bottom] /\ ConsumeBottom /\ Goto("main", "SEND") /\ Tidy
      /\ waitForPrefetch' = waitForPrefetch /\ rd' = rd
      /\ UNCHANGED <<push_data, push_count, not_prefetch, pushPrePopRem, pushPrePopOffset,
                     running, heap, unit, owed>>
  BY DEF FetchInv, TypeOK, PopReadyEntry, Popped
<1>2. /\ running /\ fsm["main"] = "IDLE" /\ fsm["push"] = "IDLE" /\ ~waitForPrefetch
      /\ stack' \in Seq(StackTasks)
      /\ \A t \in Tasks : TaskCount(stack, t) =
           TaskCount(stack', t) + (IF t = popBase THEN 1 ELSE 0)
      /\ \A t \in Tasks : InWait(t) = 0
  BY <1>1, PopStep
<1>3. /\ fsm' \in [Machines -> FetchStates] /\ fsm'["main"] = "SEND"
      /\ fsm'["push"] = "IDLE" /\ fsm'["pre"] = fsm["pre"]
  BY <1>1, <1>2, FsmMoves DEF TypeOK, FetchStates, Machines
<1>4. /\ main_data' \in Contexts /\ main_data'.task \in Tasks /\ main_data'.obj \in Objects
      /\ main_data'.task = popBase /\ buf_count # 0
  BY <1>1 DEF TypeOK, FetchInv, FetchContexts, bottomHit
<1>5. fwdCache' \in Seq(Objects) /\ Len(fwdCache') <= ForwardCacheEntries
  BY <1>1, TidyKeeps DEF TypeOK
<1>6. rd' \in [Machines -> BOOLEAN] /\ waitForPrefetch' = FALSE
  BY <1>1, <1>2 DEF TypeOK
<1>7. \A t \in Tasks : TaskCount(stack, t) + InWait(t) =
        TaskCount(stack', t) + (IF t = main_data'.task THEN 1 ELSE 0)
  <2>1. stack \in Seq(StackTasks)
    BY <1>1 DEF TypeOK, StackTasks
  <2>2. \A t \in Tasks : TaskCount(stack, t) \in Nat
    BY <2>1, TaskCountType
  <2>. QED BY <1>2, <1>4, <2>2
<1>. QED BY <1>1, <1>2, <1>3, <1>4, <1>5, <1>6, <1>7, MainTakes

\* WaitOver takes the entry main waited for, once it is done.
LEMMA WaitOverKeeps ==
  ASSUME FetchInv, WaitOver
  PROVE  FetchInv'
<1>1. /\ TypeOK /\ fsm["main"] = "IDLE" /\ waitForPrefetch /\ buf_count # 0
      /\ preBufDone[buf_bottom] /\ buf_bottom \in Slots
      /\ waitForPrefetch' = FALSE /\ main_data' = preBuf[buf_bottom] /\ ConsumeBottom
      /\ Goto("main", "SEND") /\ Tidy /\ rd' = rd
      /\ UNCHANGED <<push_data, stackVars, running, heap, unit, owed>>
  BY DEF FetchInv, TypeOK, WaitOver, In
<1>2. fsm["push"] = "IDLE" /\ running
  BY <1>1 DEF FetchInv, FetchWaits, FetchRests, In, TypeOK
<1>3. /\ fsm' \in [Machines -> FetchStates] /\ fsm'["main"] = "SEND"
      /\ fsm'["push"] = "IDLE" /\ fsm'["pre"] = fsm["pre"]
  BY <1>1, <1>2, FsmMoves DEF TypeOK, FetchStates, Machines
<1>4. /\ main_data' \in Contexts /\ main_data'.task \in Tasks /\ main_data'.obj \in Objects
      /\ main_data'.task = preBuf[buf_bottom].task
  BY <1>1 DEF TypeOK, FetchInv, FetchContexts
<1>5. fwdCache' \in Seq(Objects) /\ Len(fwdCache') <= ForwardCacheEntries
  BY <1>1, TidyKeeps DEF TypeOK
<1>6. /\ rd' \in [Machines -> BOOLEAN] /\ stack' = stack /\ stack' \in Seq(StackTasks)
      /\ UNCHANGED <<push_count, not_prefetch, pushPrePopRem, pushPrePopOffset>>
  BY <1>1 DEF TypeOK, StackTasks, stackVars
<1>7. \A t \in Tasks : TaskCount(stack, t) + InWait(t) =
        TaskCount(stack', t) + (IF t = main_data'.task THEN 1 ELSE 0)
  BY <1>1, <1>4, <1>6 DEF InWait
<1>. QED BY <1>1, <1>2, <1>3, <1>4, <1>5, <1>6, <1>7, MainTakes

\* PreMarkToMain hands main the entry it waits for.
LEMMA PreMarkToMainKeeps ==
  ASSUME FetchInv, PreMarkToMain
  PROVE  FetchInv'
<1>1. /\ TypeOK /\ fsm["pre"] = "READ_MW_RESP" /\ rd' = [rd EXCEPT !["pre"] = FALSE]
      /\ waitForPrefetch /\ fsm["main"] = "IDLE" /\ buf_work = buf_bottom
      /\ fsm' = [fsm EXCEPT !["pre"] = "IDLE", !["main"] = "SEND"]
      /\ waitForPrefetch' = FALSE /\ ConsumeBottom /\ Tidy /\ buf_bottom \in Slots
      /\ UNCHANGED <<push_data, stackVars, running, heap, unit, owed>>
  BY DEF FetchInv, TypeOK, PreMarkToMain, MarkAnswered, In
<1>2. fsm["push"] = "IDLE" /\ running /\ buf_count # 0
  BY <1>1 DEF FetchInv, FetchWaits, FetchRests, In, TypeOK
<1>3. /\ fsm' \in [Machines -> FetchStates] /\ fsm'["main"] = "SEND"
      /\ fsm'["push"] = "IDLE" /\ fsm'["pre"] = "IDLE"
  BY <1>1, <1>2 DEF TypeOK, FetchStates, Machines
<1>4. PICK v \in MarkRead("pre") : main_data' = [preBuf[buf_work] EXCEPT !.mark = preMarkWord(v)]
  BY DEF PreMarkToMain, Context
<1>5. /\ preBuf[buf_work] \in Contexts
      /\ preBuf[buf_work].task \in Tasks /\ preBuf[buf_work].obj \in Objects
  BY <1>1 DEF TypeOK, FetchInv, FetchContexts, HasTask, MarkStates
<1>6. preMarkWord(v) \in BOOLEAN
  <2>1. v \in BOOLEAN
    BY <1>1, <1>4, <1>5 DEF MarkRead, TypeOK, Context
  <2>. QED BY <2>1 DEF preMarkWord, resolveForwardMark, Forwarded
<1>7. /\ main_data' \in Contexts /\ main_data'.task \in Tasks /\ main_data'.obj \in Objects
      /\ main_data'.task = preBuf[buf_bottom].task
  BY <1>1, <1>4, <1>5, <1>6 DEF Contexts
<1>8. fwdCache' \in Seq(Objects) /\ Len(fwdCache') <= ForwardCacheEntries
  BY <1>1, TidyKeeps DEF TypeOK
<1>9. /\ rd' \in [Machines -> BOOLEAN] /\ stack' = stack /\ stack' \in Seq(StackTasks)
      /\ UNCHANGED <<push_count, not_prefetch, pushPrePopRem, pushPrePopOffset>>
  BY <1>1 DEF TypeOK, StackTasks, stackVars
<1>10. \A t \in Tasks : TaskCount(stack, t) + InWait(t) =
         TaskCount(stack', t) + (IF t = main_data'.task THEN 1 ELSE 0)
  BY <1>1, <1>7, <1>9 DEF InWait
<1>. QED BY <1>1, <1>2, <1>3, <1>7, <1>8, <1>9, <1>10, MainTakes

\* RingStays: a step of main or of its neighbours that leaves the ring alone.
LEMMA RingStays ==
  ASSUME FetchInv, fsm' \in [Machines -> FetchStates],
         fsm'["push"] = fsm["push"], fsm'["pre"] = fsm["pre"],
         main_data' \in Contexts, HasTask(fsm'["main"], main_data'),
         UNCHANGED <<push_data, slots, window, rd, pushPrePopRem, pushPrePopOffset, mem,
                     announced>>,
         not_prefetch' \in BOOLEAN, trace' \in Seq(Tasks), chunk' \in [Partial -> Nat],
         waitForPrefetch' \in BOOLEAN, fwdCache' \in Seq(Objects),
         Len(fwdCache') <= ForwardCacheEntries, stack' \in Seq(StackTasks),
         push_count' \in Nat, running' \in BOOLEAN, late' \subseteq Objects,
         work' \in {"none", "copying", "installed", "tracing", "waiting"},
         owed' \in [Tasks -> Nat],
         FetchBusy', FetchWaits', FetchRests', Owed'
  PROVE  FetchInv'
<1>1. TypeOK'
  BY DEF FetchInv, TypeOK, FetchStates, StackTasks, slots, window
<1>2. FetchRoom'
  BY DEF FetchInv, FetchRoom, FollowInStep, In, slots, window
<1>3. FetchContexts'
  BY DEF FetchInv, FetchContexts, slots, window
<1>. QED BY <1>1, <1>2, <1>3 DEF FetchInv

\* PopWaits gives the popped task to the wait for its entry.
LEMMA PopWaitsKeeps ==
  ASSUME FetchInv, PopWaits
  PROVE  FetchInv'
<1>1. /\ TypeOK /\ PopFires /\ bottomHit /\ waitForPrefetch' = TRUE /\ Tidy
      /\ UNCHANGED <<fsm, main_data, slots, window, rd>>
      /\ UNCHANGED <<push_data, push_count, not_prefetch, pushPrePopRem, pushPrePopOffset,
                     running, heap, unit, owed>>
  BY DEF FetchInv, PopWaits, Popped
<1>2. /\ running /\ fsm["main"] = "IDLE" /\ fsm["push"] = "IDLE" /\ ~waitForPrefetch
      /\ stack' \in Seq(StackTasks) /\ popBase \in Tasks
      /\ \A t \in Tasks : TaskCount(stack, t) =
           TaskCount(stack', t) + (IF t = popBase THEN 1 ELSE 0)
      /\ \A t \in Tasks : InMain(t) = 0 /\ InPush(t) = 0 /\ InWait(t) = 0
  BY <1>1, PopStep
<1>3. fwdCache' \in Seq(Objects) /\ Len(fwdCache') <= ForwardCacheEntries
  BY <1>1, TidyKeeps DEF TypeOK
<1>4. buf_count # 0 /\ preBuf[buf_bottom].task = popBase
  BY <1>1 DEF bottomHit
<1>5. FetchBusy' /\ FetchWaits' /\ FetchRests'
  BY <1>1, <1>2, <1>4 DEF FetchInv, FetchBusy, FetchWaits, FetchRests, In, window, unit
<1>6. Owed'
  <2>1. \A t \in Tasks : InMain(t)' = 0 /\ InPush(t)' = 0
    BY <1>1, <1>2 DEF InMain, InPush, In
  <2>2. \A t \in Tasks : InWait(t)' = IF t = popBase THEN 1 ELSE 0
    BY <1>1, <1>4 DEF InWait, window, slots
  <2>3. stack \in Seq(StackTasks)
    BY <1>1 DEF TypeOK, StackTasks
  <2>4. \A t \in Tasks : TaskCount(stack, t) \in Nat /\ TaskCount(stack', t) \in Nat
    BY <1>2, <2>3, TaskCountType
  <2>5. \A t \in Tasks : owed[t] = TaskCount(stack, t)
    BY <1>2, <2>4 DEF FetchInv, Owed
  <2>. QED BY <1>1, <1>2, <2>1, <2>2, <2>4, <2>5 DEF Owed
<1>7. HasTask(fsm'["main"], main_data') /\ fsm' \in [Machines -> FetchStates]
  BY <1>1 DEF FetchInv, FetchContexts, TypeOK, FetchStates
<1>. QED BY <1>1, <1>2, <1>3, <1>5, <1>6, <1>7, RingStays DEF TypeOK, heap, unit

\* PopMiss gives it to main.
LEMMA PopMissKeeps ==
  ASSUME FetchInv, PopMiss
  PROVE  FetchInv'
<1>1. /\ TypeOK /\ PopFires /\ Tidy /\ Goto("main", "READ_OOP_REQ")
      /\ main_data' = [receiveTask(main_data, popBase) EXCEPT !.obj = NoObject]
      /\ UNCHANGED <<slots, window, waitForPrefetch, rd>>
      /\ UNCHANGED <<push_data, push_count, not_prefetch, pushPrePopRem, pushPrePopOffset,
                     running, heap, unit, owed>>
  BY DEF FetchInv, PopMiss, Popped
<1>2. /\ running /\ fsm["main"] = "IDLE" /\ fsm["push"] = "IDLE" /\ ~waitForPrefetch
      /\ stack' \in Seq(StackTasks) /\ popBase \in Tasks
      /\ \A t \in Tasks : TaskCount(stack, t) =
           TaskCount(stack', t) + (IF t = popBase THEN 1 ELSE 0)
      /\ \A t \in Tasks : InMain(t) = 0 /\ InPush(t) = 0 /\ InWait(t) = 0
  BY <1>1, PopStep
<1>3. fwdCache' \in Seq(Objects) /\ Len(fwdCache') <= ForwardCacheEntries
  BY <1>1, TidyKeeps DEF TypeOK
<1>4. /\ fsm' \in [Machines -> FetchStates] /\ fsm'["main"] = "READ_OOP_REQ"
      /\ fsm'["push"] = fsm["push"] /\ fsm'["pre"] = fsm["pre"]
  BY <1>1, FsmMoves DEF TypeOK, FetchStates, Machines
<1>5. main_data' \in Contexts /\ main_data'.task = popBase
  BY <1>1, <1>2 DEF TypeOK, Contexts, receiveTask
<1>6. FetchBusy' /\ FetchWaits' /\ FetchRests'
  BY <1>1, <1>2, <1>4 DEF FetchInv, FetchBusy, FetchWaits, FetchRests, In, window, unit
<1>7. Owed'
  <2>1. \A t \in Tasks : InMain(t)' = IF t = popBase THEN 1 ELSE 0
    BY <1>4, <1>5 DEF InMain, In
  <2>2. \A t \in Tasks : InPush(t)' = 0 /\ InWait(t)' = 0
    BY <1>1, <1>2, <1>4 DEF InPush, InWait, In
  <2>3. stack \in Seq(StackTasks)
    BY <1>1 DEF TypeOK, StackTasks
  <2>4. \A t \in Tasks : TaskCount(stack, t) \in Nat /\ TaskCount(stack', t) \in Nat
    BY <1>2, <2>3, TaskCountType
  <2>5. \A t \in Tasks : owed[t] = TaskCount(stack, t)
    BY <1>2, <2>4 DEF FetchInv, Owed
  <2>. QED BY <1>1, <1>2, <2>1, <2>2, <2>4, <2>5 DEF Owed
<1>8. HasTask(fsm'["main"], main_data')
  BY <1>2, <1>4, <1>5 DEF HasTask, MarkStates
<1>. QED BY <1>1, <1>2, <1>3, <1>4, <1>5, <1>6, <1>7, <1>8, RingStays DEF TypeOK, heap, unit

\* UnitDoneKeeps: main is idle and has handed over what it had.
LEMMA UnitDoneKeeps ==
  ASSUME FetchInv, LetGo \/ Done
  PROVE  FetchInv'
<1>1. /\ TypeOK /\ work # "none" /\ work' = "none" /\ Goto("main", "IDLE") /\ Tidy
      /\ UNCHANGED <<context, slots, window, waitForPrefetch, rd, stackVars, running, mem,
                     announced, trace, chunk, owed>>
  BY DEF FetchInv, LetGo, Done, heap
<1>2. late' \subseteq Objects
  <2>1. CASE LetGo
    BY <1>1, <2>1, ConstantsAssumption DEF LetGo, TypeOK
  <2>2. CASE Done
    BY <1>1, <2>2 DEF Done, heap, TypeOK
  <2>. QED BY <2>1, <2>2
<1>3. /\ fsm["main"] = "WAIT_DONE" /\ running
  BY <1>1 DEF FetchInv, FetchBusy, FetchRests, In, TypeOK
<1>4. /\ fsm' \in [Machines -> FetchStates] /\ fsm'["main"] = "IDLE"
      /\ fsm'["push"] = fsm["push"] /\ fsm'["pre"] = fsm["pre"]
  BY <1>1, FsmMoves DEF TypeOK, FetchStates, Machines
<1>5. fwdCache' \in Seq(Objects) /\ Len(fwdCache') <= ForwardCacheEntries
  BY <1>1, TidyKeeps DEF TypeOK
<1>6. FetchBusy' /\ FetchWaits' /\ FetchRests'
  BY <1>1, <1>3, <1>4 DEF FetchInv, FetchBusy, FetchWaits, FetchRests, In, window
<1>7. Owed'
  <2>1. \A t : InMain(t)' = InMain(t) /\ InPush(t)' = InPush(t) /\ InWait(t)' = InWait(t)
    BY <1>1, <1>3, <1>4 DEF InMain, InPush, InWait, In, context, slots, window
  <2>. QED BY <1>1, <2>1 DEF FetchInv, Owed, stackVars
<1>8. HasTask(fsm'["main"], main_data')
  BY <1>4 DEF HasTask, MarkStates
<1>9. stack' \in Seq(StackTasks) /\ main_data' \in Contexts
  BY <1>1 DEF TypeOK, StackTasks, stackVars, context
<1>. QED BY <1>1, <1>2, <1>4, <1>5, <1>6, <1>7, <1>8, <1>9, RingStays
         DEF TypeOK, context, stackVars

\* Finish ends a job in which nothing is left.
LEMMA FinishKeeps ==
  ASSUME FetchInv, Finish
  PROVE  FetchInv'
<1>1. /\ TypeOK /\ PopReady /\ stack = <<>> /\ running' = FALSE /\ Tidy
      /\ UNCHANGED <<fsm, context, slots, window, waitForPrefetch, rd, stackVars, heap, unit, owed>>
  BY DEF FetchInv, Finish
<1>2. fwdCache' \in Seq(Objects) /\ Len(fwdCache') <= ForwardCacheEntries
  BY <1>1, TidyKeeps DEF TypeOK
<1>3. FetchBusy' /\ FetchWaits' /\ FetchRests'
  BY <1>1 DEF FetchInv, FetchBusy, FetchWaits, FetchRests, PopReady, In, window, unit, stackVars
<1>4. Owed'
  <2>1. \A t : InMain(t)' = InMain(t) /\ InPush(t)' = InPush(t) /\ InWait(t)' = InWait(t)
    BY <1>1 DEF InMain, InPush, InWait, In, context, slots, window
  <2>. QED BY <1>1, <2>1 DEF FetchInv, Owed, stackVars
<1>5. HasTask(fsm'["main"], main_data')
  BY <1>1 DEF FetchInv, FetchContexts, context
<1>6. stack' \in Seq(StackTasks) /\ main_data' \in Contexts /\ fsm' \in [Machines -> FetchStates]
  BY <1>1 DEF TypeOK, StackTasks, stackVars, context, FetchStates
<1>. QED BY <1>1, <1>2, <1>3, <1>4, <1>5, <1>6, RingStays
         DEF TypeOK, context, stackVars, heap, unit

\* Install places a copy.
LEMMA InstallKeeps ==
  ASSUME FetchInv, NEW o \in Objects, Install(o)
  PROVE  FetchInv'
<1>1. /\ TypeOK /\ Tidy /\ mem' = [mem EXCEPT ![o] = TRUE]
      /\ UNCHANGED <<fsm, context, slots, window, waitForPrefetch, rd, stackVars, running,
                     announced, late, trace, chunk, owed>>
  BY DEF FetchInv, Install
<1>2. /\ work' \in {"none", "copying", "installed", "tracing", "waiting"}
      /\ work' = "none" <=> work = "none"
  BY <1>1 DEF Install, TypeOK
<1>3. fwdCache' \in Seq(Objects) /\ Len(fwdCache') <= ForwardCacheEntries
  BY <1>1, TidyKeeps DEF TypeOK
<1>4. mem' \in [Objects -> BOOLEAN]
  BY <1>1 DEF TypeOK
<1>5. /\ HasTask(fsm["main"], main_data) /\ HasTask(fsm["push"], push_data)
      /\ HasTask(fsm["pre"], preBuf[buf_work])
      /\ \A s \in Slots : preBufDone[s] => preBuf[s].task \in Tasks /\ preBuf[s].obj \in Objects
      /\ fsm["pre"] # "IDLE" => ~preBufDone[buf_work]
  BY DEF FetchInv, FetchContexts, FetchRoom, In
<1>. QED BY <1>1, <1>2, <1>3, <1>4, <1>5, TasksStay
         DEF TypeOK, FetchStates, context, slots

\* PatchedKeeps: an announcement changes no more than a mark.
LEMMA PatchedKeeps ==
  ASSUME NEW c \in Contexts, NEW o
  PROVE  /\ Patched(c, o) \in Contexts /\ Patched(c, o).task = c.task /\ Patched(c, o).obj = c.obj
         /\ c.obj = o => Patched(c, o).mark
         /\ c.mark => Patched(c, o).mark
  BY DEF Patched, Contexts

\* CacheAppended: the cache holds no more than it has entries.
LEMMA CacheAppended ==
  ASSUME fwdCache \in Seq(Objects), Len(fwdCache) <= ForwardCacheEntries, NEW o \in Objects,
         fwdCache' = IF Forwarded(o) THEN fwdCache
                     ELSE Append(IF Len(fwdCache) < ForwardCacheEntries THEN fwdCache
                                 ELSE Tail(fwdCache), o)
  PROVE  fwdCache' \in Seq(Objects) /\ Len(fwdCache') <= ForwardCacheEntries
<1>1. CASE Forwarded(o)
  BY <1>1
<1>2. CASE ~Forwarded(o) /\ Len(fwdCache) < ForwardCacheEntries
  BY <1>2, ConstantsAssumption
<1>3. CASE ~Forwarded(o) /\ ~(Len(fwdCache) < ForwardCacheEntries)
  <2>1. Len(fwdCache) = ForwardCacheEntries /\ ForwardCacheEntries \in Nat \ {0}
    BY <1>3, ConstantsAssumption
  <2>2. fwdCache # <<>>
    BY <2>1
  <2>3. Tail(fwdCache) \in Seq(Objects) /\ Len(Tail(fwdCache)) = Len(fwdCache) - 1
    BY <2>2
  <2>. QED BY <1>3, <2>1, <2>3
<1>. QED BY <1>1, <1>2, <1>3

\* Announce patches what has been read; it moves no task.
LEMMA AnnounceKeeps ==
  ASSUME FetchInv, NEW o \in Objects, Announce(o)
  PROVE  FetchInv'
<1>1. /\ TypeOK /\ announced' = announced \cup {o}
      /\ fwdCache' = IF Forwarded(o) THEN fwdCache
                     ELSE Append(IF Len(fwdCache) < ForwardCacheEntries THEN fwdCache
                                 ELSE Tail(fwdCache), o)
      /\ main_data' = Patched(main_data, o) /\ push_data' = Patched(push_data, o)
      /\ preBuf' = [s \in Slots |-> IF preBufDone[s] THEN Patched(preBuf[s], o) ELSE preBuf[s]]
      /\ UNCHANGED <<fsm, preBufDone, window, waitForPrefetch, rd, stackVars, running, mem,
                     chunk, owed>>
  BY DEF FetchInv, Announce
<1>2. /\ work' \in {"none", "copying", "installed", "tracing", "waiting"}
      /\ work' = "none" <=> work = "none"
      /\ trace' \in Seq(Tasks) /\ late' \subseteq Objects
  BY <1>1, ConstantsAssumption DEF Announce, TypeOK
<1>3. fwdCache' \in Seq(Objects) /\ Len(fwdCache') <= ForwardCacheEntries
  BY <1>1, CacheAppended DEF TypeOK
<1>4. /\ main_data' \in Contexts /\ main_data'.task = main_data.task
      /\ main_data'.obj = main_data.obj
      /\ push_data' \in Contexts /\ push_data'.task = push_data.task
      /\ push_data'.obj = push_data.obj
  BY <1>1, PatchedKeeps DEF TypeOK
<1>5. /\ preBuf' \in [Slots -> Contexts]
      /\ \A s \in Slots : preBuf'[s].task = preBuf[s].task /\ preBuf'[s].obj = preBuf[s].obj
  <2>1. \A s \in Slots : /\ preBuf[s] \in Contexts /\ Patched(preBuf[s], o) \in Contexts
                         /\ Patched(preBuf[s], o).task = preBuf[s].task
                         /\ Patched(preBuf[s], o).obj = preBuf[s].obj
    BY <1>1, PatchedKeeps DEF TypeOK
  <2>. QED BY <1>1, <2>1
<1>6. buf_work \in Slots
  BY <1>1 DEF TypeOK
<1>7. /\ HasTask(fsm["main"], main_data') /\ HasTask(fsm["push"], push_data')
      /\ HasTask(fsm["pre"], preBuf'[buf_work])
      /\ \A s \in Slots : preBufDone[s] => preBuf'[s].task \in Tasks /\ preBuf'[s].obj \in Objects
      /\ fsm["pre"] # "IDLE" => ~preBufDone[buf_work]
  BY <1>4, <1>5, <1>6 DEF FetchInv, FetchContexts, FetchRoom, HasTask, In
<1>8. announced' \subseteq Objects
  BY <1>1 DEF TypeOK
<1>. QED BY <1>1, <1>2, <1>3, <1>4, <1>5, <1>7, <1>8, TasksStay DEF TypeOK, FetchStates

\* Send hands main's task over.
LEMMA SendKeeps ==
  ASSUME FetchInv, Send
  PROVE  FetchInv'
<1>1. /\ TypeOK /\ fsm["main"] = "SEND" /\ work = "none" /\ Goto("main", "WAIT_DONE") /\ Tidy
      /\ owed' = [owed EXCEPT ![main_data.task] = @ - 1]
      /\ UNCHANGED <<context, slots, window, waitForPrefetch, rd, stackVars, running, heap>>
  BY DEF FetchInv, Send, In
<1>2. main_data.task \in Tasks
  BY <1>1 DEF FetchInv, FetchContexts, HasTask
<1>3. /\ work' \in {"copying", "tracing", "waiting"} /\ trace' \in Seq(Tasks)
      /\ chunk' \in [Partial -> Nat]
  <2>1. CASE main_data.task \in Partial
    <3>1. /\ chunk[main_data.task] \in Nat /\ Chunks[main_data.task] \in Seq(Seq(Tasks))
      BY <1>1, <2>1, ConstantsAssumption DEF TypeOK
    <3>2. trace' = IF chunk[main_data.task] < Len(Chunks[main_data.task])
                   THEN Chunks[main_data.task][chunk[main_data.task] + 1] ELSE <<>>
      BY <2>1 DEF Send
    <3>3. trace' \in Seq(Tasks)
      <4>. DEFINE k == chunk[main_data.task]
                  s == Chunks[main_data.task]
      <4>1. k \in Nat /\ s \in Seq(Seq(Tasks)) /\ trace' = IF k < Len(s) THEN s[k + 1] ELSE <<>>
        BY <3>1, <3>2
      <4>. HIDE DEF k, s
      <4>2. k < Len(s) => s[k + 1] \in Seq(Tasks)
        BY <4>1
      <4>. QED BY <4>1, <4>2
    <3>4. chunk' \in [Partial -> Nat]
      <4>1. chunk' = [chunk EXCEPT ![main_data.task] = chunk[main_data.task] + 1]
        BY <2>1 DEF Send
      <4>2. chunk \in [Partial -> Nat] /\ chunk[main_data.task] + 1 \in Nat
        BY <1>1, <3>1 DEF TypeOK
      <4>. QED BY <4>1, <4>2
    <3>5. work' \in {"copying", "tracing", "waiting"}
      BY <2>1 DEF Send
    <3>. QED BY <3>3, <3>4, <3>5
  <2>2. CASE main_data.task \notin Partial
    BY <1>1, <2>2 DEF Send, TypeOK
  <2>. QED BY <2>1, <2>2
<1>4. /\ fsm' \in [Machines -> FetchStates] /\ fsm'["main"] = "WAIT_DONE"
      /\ fsm'["push"] = fsm["push"] /\ fsm'["pre"] = fsm["pre"]
  BY <1>1, FsmMoves DEF TypeOK, FetchStates, Machines
<1>5. fwdCache' \in Seq(Objects) /\ Len(fwdCache') <= ForwardCacheEntries
  BY <1>1, TidyKeeps DEF TypeOK
<1>6. FetchBusy' /\ FetchWaits' /\ FetchRests'
  BY <1>1, <1>3, <1>4 DEF FetchInv, FetchBusy, FetchWaits, FetchRests, In
<1>7. Owed' /\ owed' \in [Tasks -> Nat]
  <2>1. \A t \in Tasks : InMain(t) = (IF main_data.task = t THEN 1 ELSE 0) /\ InMain(t)' = 0
    BY <1>1, <1>4 DEF InMain, In
  <2>2. \A t : InPush(t)' = InPush(t) /\ InWait(t)' = InWait(t)
    BY <1>1, <1>4 DEF InPush, InWait, In, context, slots, window
  <2>3. stack' = stack /\ \A t \in Tasks : TaskCount(stack, t) \in Nat
    BY <1>1, TaskCountType DEF TypeOK, StackTasks, stackVars
  <2>4. \A t : InPush(t) \in Nat /\ InWait(t) \in Nat
    BY DEF InPush, InWait
  <2>5. \A t \in Tasks : owed[t] =
          TaskCount(stack, t) + (IF main_data.task = t THEN 1 ELSE 0) + InPush(t) + InWait(t)
    BY <2>1 DEF FetchInv, Owed
  <2>6. \A t \in Tasks : owed'[t] = TaskCount(stack, t) + InPush(t) + InWait(t)
    <3>1. \A t \in Tasks : owed'[t] = owed[t] - (IF main_data.task = t THEN 1 ELSE 0)
      BY <1>1, <1>2 DEF TypeOK
    <3>. QED BY <2>3, <2>4, <2>5, <3>1
  <2>7. \A t \in Tasks : owed'[t] = TaskCount(stack', t) + InMain(t)' + InPush(t)' + InWait(t)'
    BY <2>1, <2>2, <2>3, <2>4, <2>6
  <2>8. owed' \in [Tasks -> Nat]
    <3>1. \A t \in Tasks : owed'[t] \in Nat
      BY <2>3, <2>4, <2>6
    <3>. QED BY <1>1, <3>1 DEF TypeOK
  <2>. QED BY <2>7, <2>8 DEF Owed
<1>8. HasTask(fsm'["main"], main_data')
  BY <1>1, <1>4 DEF FetchInv, FetchContexts, HasTask, MarkStates, context
<1>9. stack' \in Seq(StackTasks) /\ main_data' \in Contexts
  BY <1>1 DEF TypeOK, StackTasks, stackVars, context
<1>. QED BY <1>1, <1>3, <1>4, <1>5, <1>6, <1>7, <1>8, <1>9, RingStays
         DEF TypeOK, context, stackVars, heap

\* PushTask queues what was found in front of what is there.
LEMMA PushTaskKeeps ==
  ASSUME FetchInv, PushTask
  PROVE  FetchInv'
<1>1. /\ TypeOK /\ work = "tracing" /\ trace \in Seq(Tasks) /\ Len(trace) > 1
      /\ stack' = <<Queued(trace[1])>> \o stack
      /\ push_count' = push_count + 1 /\ not_prefetch' = TRUE /\ trace' = Tail(trace) /\ Tidy
      /\ owed' = [owed EXCEPT ![trace[1]] = @ + 1]
      /\ UNCHANGED <<fsm, context, slots, window, waitForPrefetch, rd, pushPrePopRem,
                     pushPrePopOffset, running, heap, work, chunk>>
  BY DEF FetchInv, PushTask, TypeOK
<1>2. trace[1] \in Tasks /\ Tail(trace) \in Seq(Tasks)
  BY <1>1
<1>3. Queued(trace[1]) \in StackTasks /\ Queued(trace[1]).task = trace[1]
  BY <1>2 DEF Queued, StackTasks
<1>4. /\ stack \in Seq(StackTasks) /\ stack' \in Seq(StackTasks)
      /\ \A t \in Tasks : TaskCount(stack', t) =
           TaskCount(stack, t) + (IF trace[1] = t THEN 1 ELSE 0)
      /\ \A t \in Tasks : TaskCount(stack, t) \in Nat
  <2>1. stack \in Seq(StackTasks)
    BY <1>1 DEF TypeOK, StackTasks
  <2>2. /\ <<Queued(trace[1])>> \o stack \in Seq(StackTasks)
        /\ \A t : TaskCount(<<Queued(trace[1])>> \o stack, t) =
             TaskCount(stack, t) + (IF Queued(trace[1]).task = t THEN 1 ELSE 0)
    BY <1>3, <2>1, TaskCountFront
  <2>3. \A t \in Tasks : TaskCount(stack, t) \in Nat
    BY <2>1, TaskCountType
  <2>. QED BY <1>1, <1>3, <2>1, <2>2, <2>3
<1>5. fwdCache' \in Seq(Objects) /\ Len(fwdCache') <= ForwardCacheEntries
  BY <1>1, TidyKeeps DEF TypeOK
<1>6. fsm["main"] = "WAIT_DONE" /\ running
  BY <1>1 DEF FetchInv, FetchBusy, FetchRests, In, TypeOK
<1>7. FetchBusy' /\ FetchWaits' /\ FetchRests'
  BY <1>1, <1>6 DEF FetchInv, FetchBusy, FetchWaits, FetchRests, In, window
<1>8. owed' \in [Tasks -> Nat]
  BY <1>1, <1>2 DEF TypeOK
<1>9. Owed'
  <2>1. \A t : InMain(t)' = InMain(t) /\ InPush(t)' = InPush(t) /\ InWait(t)' = InWait(t)
    BY <1>1 DEF InMain, InPush, InWait, In, context, slots, window
  <2>2. \A t : InMain(t) \in Nat /\ InPush(t) \in Nat /\ InWait(t) \in Nat
    BY DEF InMain, InPush, InWait
  <2>3. \A t \in Tasks : owed'[t] = owed[t] + (IF trace[1] = t THEN 1 ELSE 0)
    BY <1>1, <1>2 DEF TypeOK
  <2>. QED BY <1>4, <2>1, <2>2, <2>3 DEF FetchInv, Owed
<1>10. HasTask(fsm'["main"], main_data') /\ main_data' \in Contexts
       /\ fsm' \in [Machines -> FetchStates] /\ fsm' = fsm
  BY <1>1 DEF FetchInv, FetchContexts, TypeOK, FetchStates, context
<1>11. /\ push_count' \in Nat /\ not_prefetch' \in BOOLEAN /\ trace' \in Seq(Tasks)
       /\ chunk' \in [Partial -> Nat] /\ waitForPrefetch' \in BOOLEAN /\ running' \in BOOLEAN
       /\ late' \subseteq Objects /\ work' = work
       /\ UNCHANGED <<push_data, slots, window, rd, pushPrePopRem, pushPrePopOffset, mem,
                      announced>>
  <2>1. trace' \in Seq(Tasks)
    BY <1>1, <1>2
  <2>2. push_count' \in Nat
    BY <1>1 DEF TypeOK
  <2>. QED BY <1>1, <2>1, <2>2 DEF TypeOK, context, heap
<1>12. work \in {"none", "copying", "installed", "tracing", "waiting"}
  BY <1>1
<1>. QED BY <1>4, <1>5, <1>7, <1>8, <1>9, <1>10, <1>11, <1>12, RingStays

\* PushStays: a step of push, or of push and main, leaves the ring alone.
LEMMA PushStays ==
  ASSUME FetchInv, fsm' \in [Machines -> FetchStates], fsm'["pre"] = fsm["pre"],
         main_data' \in Contexts, HasTask(fsm'["main"], main_data'),
         push_data' \in Contexts, HasTask(fsm'["push"], push_data'),
         UNCHANGED <<slots, window, waitForPrefetch, stack, push_count, pushPrePopRem,
                     pushPrePopOffset, running, heap, work, chunk>>,
         not_prefetch' \in BOOLEAN, trace' \in Seq(Tasks), rd' \in [Machines -> BOOLEAN],
         fwdCache' \in Seq(Objects), Len(fwdCache') <= ForwardCacheEntries,
         owed' \in [Tasks -> Nat],
         FetchBusy', FetchWaits', FetchRests', Owed'
  PROVE  FetchInv'
<1>1. TypeOK'
  BY DEF FetchInv, TypeOK, FetchStates, slots, window, heap
<1>2. FetchRoom'
  BY DEF FetchInv, FetchRoom, FollowInStep, In, slots, window
<1>3. FetchContexts'
  BY DEF FetchInv, FetchContexts, slots, window
<1>. QED BY <1>1, <1>2, <1>3 DEF FetchInv

\* TakeLast takes the last task of a burst past the stack.
LEMMA TakeLastKeeps ==
  ASSUME FetchInv, TakeLast
  PROVE  FetchInv'
<1>1. /\ TypeOK /\ work = "tracing" /\ trace \in Seq(Tasks) /\ Len(trace) = 1
      /\ fsm["push"] = "IDLE" /\ fsm["main"] = "WAIT_DONE"
      /\ push_data' = [receiveTask(push_data, trace[1]) EXCEPT !.obj = NoObject]
      /\ Goto("push", "READ_OOP_REQ") /\ trace' = <<>> /\ not_prefetch' = FALSE /\ Tidy
      /\ owed' = [owed EXCEPT ![trace[1]] = @ + 1]
      /\ UNCHANGED <<main_data, slots, window, waitForPrefetch, rd, stack, push_count,
                     pushPrePopRem, pushPrePopOffset, running, heap, work, chunk>>
  BY DEF FetchInv, TakeLast, GCTraceOffers, In, TypeOK
<1>2. trace[1] \in Tasks /\ trace' \in Seq(Tasks)
  BY <1>1
<1>3. /\ fsm' \in [Machines -> FetchStates] /\ fsm'["push"] = "READ_OOP_REQ"
      /\ fsm'["main"] = "WAIT_DONE" /\ fsm'["pre"] = fsm["pre"]
  BY <1>1, FsmMoves DEF TypeOK, FetchStates, Machines
<1>4. push_data' \in Contexts /\ push_data'.task = trace[1]
  BY <1>1, <1>2 DEF TypeOK, Contexts, receiveTask
<1>5. fwdCache' \in Seq(Objects) /\ Len(fwdCache') <= ForwardCacheEntries
  BY <1>1, TidyKeeps DEF TypeOK
<1>6. FetchBusy' /\ FetchWaits' /\ FetchRests'
  BY <1>1, <1>3 DEF FetchInv, FetchBusy, FetchWaits, FetchRests, In
<1>7. owed' \in [Tasks -> Nat]
  BY <1>1, <1>2 DEF TypeOK
<1>8. Owed'
  <2>1. \A t : InMain(t)' = InMain(t) /\ InWait(t)' = InWait(t)
    BY <1>1, <1>3 DEF InMain, InWait, In, slots, window
  <2>2. \A t : InPush(t) = 0 /\ InPush(t)' = IF trace[1] = t THEN 1 ELSE 0
    BY <1>1, <1>3, <1>4 DEF InPush, In
  <2>3. \A t : InMain(t) \in Nat /\ InWait(t) \in Nat
    BY DEF InMain, InWait
  <2>4. \A t \in Tasks : owed'[t] = owed[t] + (IF trace[1] = t THEN 1 ELSE 0)
    BY <1>1, <1>2 DEF TypeOK
  <2>5. stack' = stack /\ \A t \in Tasks : TaskCount(stack, t) \in Nat
    BY <1>1, TaskCountType DEF TypeOK, StackTasks
  <2>6. \A t \in Tasks : owed[t] = TaskCount(stack, t) + InMain(t) + InPush(t) + InWait(t)
    BY DEF FetchInv, Owed
  <2>7. \A t \in Tasks : owed'[t] = TaskCount(stack', t) + InMain(t)' + InPush(t)' + InWait(t)'
    BY <2>1, <2>2, <2>3, <2>4, <2>5, <2>6
  <2>. QED BY <2>7 DEF Owed
<1>9. /\ HasTask(fsm'["main"], main_data') /\ HasTask(fsm'["push"], push_data')
      /\ main_data' \in Contexts
  BY <1>1, <1>2, <1>3, <1>4 DEF FetchInv, FetchContexts, HasTask, MarkStates, TypeOK
<1>10. rd' \in [Machines -> BOOLEAN] /\ not_prefetch' \in BOOLEAN
  BY <1>1 DEF TypeOK
<1>. QED BY <1>1, <1>2, <1>3, <1>4, <1>5, <1>6, <1>7, <1>8, <1>9, <1>10, PushStays

\* GivesMainKeeps: the task goes from push to main, which is idle.
LEMMA GivesMainKeeps ==
  ASSUME FetchInv, NEW c \in Contexts, c.task = push_data.task, c.obj \in Objects,
         fsm["push"] \notin {"IDLE"}, GivesMain(c), Tidy, rd' \in [Machines -> BOOLEAN],
         UNCHANGED <<push_data, slots, window, waitForPrefetch, stackVars, running, heap, unit,
                     owed>>
  PROVE  FetchInv'
<1>1. /\ TypeOK /\ fsm["main"] = "IDLE" /\ main_data' = c
      /\ fsm' = [fsm EXCEPT !["push"] = "IDLE", !["main"] = "SEND"]
  BY DEF FetchInv, GivesMain, In
<1>2. /\ fsm' \in [Machines -> FetchStates] /\ fsm'["push"] = "IDLE"
      /\ fsm'["main"] = "SEND" /\ fsm'["pre"] = fsm["pre"]
  BY <1>1 DEF TypeOK, FetchStates, Machines
<1>3. fwdCache' \in Seq(Objects) /\ Len(fwdCache') <= ForwardCacheEntries
  BY <1>1, TidyKeeps DEF TypeOK
<1>4. running /\ ~waitForPrefetch
  BY DEF FetchInv, FetchRests, FetchWaits, In, TypeOK
<1>5. FetchBusy' /\ FetchWaits' /\ FetchRests'
  BY <1>1, <1>2, <1>4 DEF FetchInv, FetchBusy, FetchWaits, FetchRests, In, unit
<1>6. Owed'
  <2>1. \A t : InMain(t) = 0 /\ InMain(t)' = IF push_data.task = t THEN 1 ELSE 0
    BY <1>1, <1>2 DEF InMain, In
  <2>2. \A t : InPush(t)' = 0 /\ InPush(t) = IF push_data.task = t THEN 1 ELSE 0
    BY <1>2 DEF InPush, In
  <2>3. \A t : InWait(t) = 0 /\ InWait(t)' = 0
    BY <1>4 DEF InWait
  <2>4. stack' = stack /\ \A t \in Tasks : TaskCount(stack, t) \in Nat
    BY <1>1, TaskCountType DEF TypeOK, StackTasks, stackVars
  <2>5. \A t \in Tasks : owed[t] = TaskCount(stack, t) + InMain(t) + InPush(t) + InWait(t)
    BY DEF FetchInv, Owed
  <2>6. \A t \in Tasks : owed[t] = TaskCount(stack', t) + InMain(t)' + InPush(t)' + InWait(t)'
    BY <2>1, <2>2, <2>3, <2>4, <2>5
  <2>. QED BY <2>6 DEF Owed
<1>7. push_data.task \in Tasks
  BY DEF FetchInv, FetchContexts, HasTask
<1>8. HasTask(fsm'["main"], main_data') /\ HasTask(fsm'["push"], push_data')
  BY <1>1, <1>2, <1>7 DEF HasTask, MarkStates
<1>9. push_data' \in Contexts /\ not_prefetch' \in BOOLEAN /\ trace' \in Seq(Tasks)
      /\ owed' \in [Tasks -> Nat]
  BY <1>1 DEF TypeOK, stackVars, unit
<1>. QED BY <1>1, <1>2, <1>3, <1>5, <1>6, <1>8, <1>9, PushStays DEF stackVars, unit

\* PushSend gives the task to main as soon as main is idle.
LEMMA PushSendKeeps ==
  ASSUME FetchInv, PushSend
  PROVE  FetchInv'
<1>1. /\ fsm["push"] = "SEND" /\ GivesMain(push_data) /\ Tidy /\ rd' = rd
      /\ UNCHANGED <<push_data, slots, window, waitForPrefetch, stackVars, running, heap, unit,
                     owed>>
  BY DEF PushSend, In
<1>2. push_data \in Contexts /\ push_data.obj \in Objects /\ rd' \in [Machines -> BOOLEAN]
  BY <1>1 DEF FetchInv, TypeOK, FetchContexts, HasTask, MarkStates
<1>. QED BY <1>1, <1>2, GivesMainKeeps

\* PushMark has the mark word and waits for main, or gives main the task.
LEMMA PushMarkKeeps ==
  ASSUME FetchInv, PushMark
  PROVE  FetchInv'
<1>1. /\ TypeOK /\ fsm["push"] = "READ_MW_RESP" /\ rd' = [rd EXCEPT !["push"] = FALSE] /\ Tidy
      /\ UNCHANGED <<slots, window, waitForPrefetch, stackVars, running, heap, unit, owed>>
  BY DEF FetchInv, PushMark, MarkAnswered, In
<1>. DEFINE c(v) == [push_data EXCEPT !.mark = v]
<1>2. PICK v \in MarkRead("push") :
        \/ GivesMain(c(v)) /\ UNCHANGED push_data
        \/ /\ ~In("main", "IDLE") /\ push_data' = c(v)
           /\ Goto("push", "SEND") /\ UNCHANGED main_data
  BY DEF PushMark
<1>3. push_data \in Contexts /\ push_data.task \in Tasks /\ push_data.obj \in Objects
  BY <1>1 DEF TypeOK, FetchInv, FetchContexts, HasTask, MarkStates
<1>4. v \in BOOLEAN
  BY <1>1, <1>2, <1>3 DEF MarkRead, TypeOK, Context
<1>5. c(v) \in Contexts /\ c(v).task = push_data.task /\ c(v).obj = push_data.obj
  BY <1>3, <1>4 DEF Contexts
<1>6. rd' \in [Machines -> BOOLEAN]
  BY <1>1 DEF TypeOK
<1>. HIDE DEF c
<1>7. CASE GivesMain(c(v)) /\ UNCHANGED push_data
  BY <1>1, <1>3, <1>5, <1>6, <1>7, GivesMainKeeps
<1>8. CASE /\ ~In("main", "IDLE") /\ push_data' = c(v)
           /\ Goto("push", "SEND") /\ UNCHANGED main_data
  <2>1. /\ fsm' \in [Machines -> FetchStates] /\ fsm'["push"] = "SEND"
        /\ fsm'["main"] = fsm["main"] /\ fsm'["pre"] = fsm["pre"]
    BY <1>1, <1>8, FsmMoves DEF TypeOK, FetchStates, Machines
  <2>2. fwdCache' \in Seq(Objects) /\ Len(fwdCache') <= ForwardCacheEntries
    BY <1>1, TidyKeeps DEF TypeOK
  <2>3. /\ HasTask(fsm'["main"], main_data) /\ HasTask(fsm'["push"], push_data')
        /\ HasTask(fsm'["pre"], preBuf[buf_work])
    BY <1>3, <1>5, <1>8, <2>1 DEF FetchInv, FetchContexts, HasTask, MarkStates
  <2>4. /\ \A s \in Slots : preBufDone[s] => preBuf[s].task \in Tasks /\ preBuf[s].obj \in Objects
        /\ fsm["pre"] # "IDLE" => ~preBufDone[buf_work]
    BY DEF FetchInv, FetchContexts, FetchRoom, In
  <2>. QED BY <1>1, <1>3, <1>5, <1>6, <1>8, <2>1, <2>2, <2>3, <2>4, TasksStay
           DEF TypeOK, slots, heap, unit
<1>. QED BY <1>2, <1>7, <1>8

\* PrefetchStack: the stack marks what it offers and counts the batch down.
LEMMA PrefetchStack ==
  ASSUME FetchInv, NEW s \in Slots, NEW o, Prefetch(o, s)
  PROVE  /\ stack' \in Seq(StackTasks) /\ stack[o + 1].task \in Tasks /\ stack # <<>>
         /\ \A t : TaskCount(stack', t) = TaskCount(stack, t)
         /\ push_count' \in Nat /\ pushPrePopRem' \in Nat /\ pushPrePopOffset' \in Nat \ {0}
         /\ push_count # 0 => pushPrePopRem' = takeNum - 1 /\ takeNum \in 1 .. PreFetchBufferNum
         /\ push_count = 0 /\ pushPrePopRem # 0 => pushPrePopRem' = pushPrePopRem - 1
         /\ push_count = 0 /\ pushPrePopRem = 0 => pushPrePopRem' = pushPrePopRem
<1>1. /\ TypeOK /\ o \in Offered /\ StackPrePop(o) /\ stack \in Seq(StackTasks)
      /\ push_count \in Nat /\ pushPrePopRem \in Nat /\ pushPrePopOffset \in Nat \ {0}
  BY DEF FetchInv, Prefetch, TypeOK, StackTasks
<1>2. o + 1 \in 1 .. Len(stack)
  BY <1>1 DEF Offered
<1>3. stack' = [stack EXCEPT ![o + 1].seen = TRUE]
  BY <1>1 DEF StackPrePop
<1>4. stack' \in Seq(StackTasks) /\ \A t : TaskCount(stack', t) = TaskCount(stack, t)
  BY <1>1, <1>2, <1>3, TaskCountMarked
<1>5. stack[o + 1].task \in Tasks /\ stack # <<>>
  <2>1. stack[o + 1] \in StackTasks
    BY <1>1, <1>2
  <2>2. stack # <<>>
    BY <1>1, <1>2
  <2>. QED BY <2>1, <2>2 DEF StackTasks
<1>6. CASE push_count # 0
  <2>1. takeNum \in 1 .. PreFetchBufferNum
    BY <1>1, <1>6, ConstantsAssumption DEF takeNum, Least
  <2>2. push_count' = 0 /\ pushPrePopRem' = takeNum - 1 /\ pushPrePopOffset' = 1
    BY <1>1, <1>6 DEF StackPrePop, FollowMode
  <2>. QED BY <1>4, <1>5, <1>6, <2>1, <2>2
<1>7. CASE push_count = 0 /\ pushPrePopRem # 0
  <2>1. /\ push_count' = push_count /\ pushPrePopRem' = pushPrePopRem - 1
        /\ pushPrePopOffset' = pushPrePopOffset + 1
    BY <1>1, <1>7 DEF StackPrePop, FollowMode
  <2>. QED BY <1>1, <1>4, <1>5, <1>7, <2>1
<1>8. CASE push_count = 0 /\ pushPrePopRem = 0
  <2>1. UNCHANGED <<push_count, pushPrePopRem, pushPrePopOffset>>
    BY <1>1, <1>8 DEF StackPrePop, FollowMode
  <2>. QED BY <1>1, <1>4, <1>5, <1>8, <2>1
<1>. QED BY <1>6, <1>7, <1>8 DEF TypeOK

\* PrefetchKeeps: a task of the stack goes into the ring and stays queued.
LEMMA PrefetchKeeps ==
  ASSUME FetchInv, NEW s \in Slots, NEW o, Prefetch(o, s),
         buf_top' \in Slots, buf_bottom' \in Slots, buf_count' \in 0 .. PreFetchBufferNum,
         pushFollowRem' \in 0 .. PreFetchBufferNum - 1, pushFollowRem' = pushPrePopRem',
         buf_count' + pushFollowRem' <= PreFetchBufferNum
  PROVE  FetchInv'
<1>1. /\ TypeOK /\ fsm["pre"] = "IDLE" /\ running /\ ~waitForPrefetch
      /\ StackPrePop(o) /\ buf_work' = s
      /\ preBuf' = [preBuf EXCEPT ![s] = receiveTask(@, stack[o + 1].task)]
      /\ preBufDone' = [preBufDone EXCEPT ![s] = FALSE]
      /\ Goto("pre", "READ_OOP_REQ") /\ Tidy
      /\ UNCHANGED <<context, waitForPrefetch, rd, running, heap, unit, owed>>
      /\ not_prefetch' = not_prefetch
  BY DEF FetchInv, Prefetch, In, StackPrePop
<1>2. /\ stack' \in Seq(StackTasks) /\ stack[o + 1].task \in Tasks /\ stack # <<>>
      /\ \A t : TaskCount(stack', t) = TaskCount(stack, t)
      /\ push_count' \in Nat /\ pushPrePopRem' \in Nat /\ pushPrePopOffset' \in Nat \ {0}
  BY PrefetchStack
<1>3. /\ fsm' \in [Machines -> FetchStates] /\ fsm'["pre"] = "READ_OOP_REQ"
      /\ fsm'["main"] = fsm["main"] /\ fsm'["push"] = fsm["push"]
  BY <1>1, FsmMoves DEF TypeOK, FetchStates, Machines
<1>4. fwdCache' \in Seq(Objects) /\ Len(fwdCache') <= ForwardCacheEntries
  BY <1>1, TidyKeeps DEF TypeOK
<1>5. /\ preBuf' \in [Slots -> Contexts] /\ preBuf'[s].task \in Tasks
      /\ \A i \in Slots : i # s => preBuf'[i] = preBuf[i]
  <2>. DEFINE c == receiveTask(preBuf[s], stack[o + 1].task)
  <2>1. c \in Contexts /\ c.task \in Tasks
    BY <1>1, <1>2 DEF TypeOK, Contexts, receiveTask
  <2>2. preBuf' = [preBuf EXCEPT ![s] = c]
    BY <1>1
  <2>. HIDE DEF c
  <2>. QED BY <1>1, <2>1, <2>2 DEF TypeOK
<1>6. /\ preBufDone' \in [Slots -> BOOLEAN] /\ ~preBufDone'[s]
      /\ \A i \in Slots : i # s => preBufDone'[i] = preBufDone[i]
  BY <1>1 DEF TypeOK
<1>7. TypeOK'
  BY <1>1, <1>2, <1>3, <1>4, <1>5, <1>6
     DEF TypeOK, FetchStates, StackTasks, context, heap, unit
<1>8. FetchBusy' /\ FetchWaits' /\ FetchRests'
  BY <1>1, <1>3 DEF FetchInv, FetchBusy, FetchWaits, FetchRests, In, unit
<1>9. FetchRoom'
  BY <1>1, <1>6 DEF FetchRoom, FollowInStep
<1>10. FetchContexts'
  <2>1. /\ HasTask(fsm'["main"], main_data) /\ HasTask(fsm'["push"], push_data)
    BY <1>3 DEF FetchInv, FetchContexts
  <2>2. HasTask(fsm'["pre"], preBuf'[s])
    BY <1>3, <1>5 DEF HasTask, MarkStates
  <2>3. \A i \in Slots : preBufDone'[i] => preBuf'[i].task \in Tasks /\ preBuf'[i].obj \in Objects
    BY <1>5, <1>6 DEF FetchInv, FetchContexts
  <2>. QED BY <1>1, <2>1, <2>2, <2>3 DEF FetchContexts, context
<1>11. Owed'
  <2>1. \A t : InMain(t)' = InMain(t) /\ InPush(t)' = InPush(t)
    BY <1>1, <1>3 DEF InMain, InPush, In, context
  <2>2. \A t : InWait(t)' = 0 /\ InWait(t) = 0
    BY <1>1 DEF InWait
  <2>. QED BY <1>1, <1>2, <2>1, <2>2 DEF FetchInv, Owed
<1>. QED BY <1>7, <1>8, <1>9, <1>10, <1>11 DEF FetchInv

\* NormalPrefetch reads one task more into the ring.
LEMMA NormalPrefetchKeeps ==
  ASSUME FetchInv, NormalPrefetch
  PROVE  FetchInv'
<1>1. PICK o \in Offered : Prefetch(o, buf_top)
  BY DEF NormalPrefetch
<1>2. /\ push_count = 0 /\ pushFollowRem = 0 /\ PreFetchBufferNum - buf_count # 0
      /\ buf_top' = Inc(buf_top, 1) /\ buf_count' = buf_count + 1
      /\ buf_bottom' = buf_bottom /\ pushFollowRem' = pushFollowRem
  BY DEF NormalPrefetch, buf_free
<1>3. TypeOK /\ pushFollowRem = pushPrePopRem /\ buf_top \in Slots
  BY DEF FetchInv, FetchRoom, FollowInStep, TypeOK
<1>4. buf_top' \in Slots
  BY <1>2, <1>3, SlotSteps
<1>5. pushPrePopRem' = pushPrePopRem
  BY <1>1, <1>2, <1>3, PrefetchStack
<1>6. /\ buf_bottom' \in Slots /\ buf_count' \in 0 .. PreFetchBufferNum
      /\ pushFollowRem' \in 0 .. PreFetchBufferNum - 1 /\ pushFollowRem' = pushPrePopRem'
      /\ buf_count' + pushFollowRem' <= PreFetchBufferNum
  BY <1>2, <1>3, <1>5, ConstantsAssumption DEF TypeOK
<1>. QED BY <1>1, <1>3, <1>4, <1>6, PrefetchKeeps

\* FollowFirst makes room for a batch and reads its first task.
LEMMA FollowFirstKeeps ==
  ASSUME FetchInv, FollowFirst
  PROVE  FetchInv'
<1>. DEFINE idx == Dec(buf_bottom, takeNum)
<1>1. PICK o \in Offered : Prefetch(o, idx)
  BY DEF FollowFirst
<1>2. /\ push_count # 0 /\ buf_bottom' = idx /\ pushFollowRem' = takeNum - 1
      /\ \/ /\ PreFetchBufferNum - buf_count >= takeNum
            /\ buf_count' = buf_count + 1 /\ buf_top' = buf_top
         \/ /\ ~(PreFetchBufferNum - buf_count >= takeNum)
            /\ buf_top' = Dec(buf_top, takeNum - buf_free)
            /\ buf_count' = buf_count + (PreFetchBufferNum - buf_count) - takeNum + 1
  BY DEF FollowFirst, buf_free
<1>3. TypeOK /\ buf_top \in Slots /\ buf_bottom \in Slots /\ buf_count \in 0 .. PreFetchBufferNum
  BY DEF FetchInv, TypeOK
<1>4. takeNum \in 1 .. PreFetchBufferNum
  BY <1>2, <1>3, ConstantsAssumption DEF takeNum, Least, TypeOK
<1>5. idx \in Slots
  BY <1>3, <1>4, SlotSteps
<1>6. pushPrePopRem' = takeNum - 1
  BY <1>1, <1>2, <1>5, PrefetchStack
<1>7. buf_top' \in Slots
  <2>1. takeNum - buf_free \in Int
    BY <1>3, <1>4, ConstantsAssumption DEF buf_free
  <2>2. Dec(buf_top, takeNum - buf_free) \in Slots
    BY <1>3, <2>1, SlotSteps
  <2>. QED BY <1>2, <1>3, <2>2
<1>. DEFINE k == takeNum
<1>8. k \in 1 .. PreFetchBufferNum
  BY <1>4
<1>9. /\ pushFollowRem' = k - 1 /\ pushPrePopRem' = k - 1
      /\ \/ PreFetchBufferNum - buf_count >= k /\ buf_count' = buf_count + 1
         \/ /\ ~(PreFetchBufferNum - buf_count >= k)
            /\ buf_count' = buf_count + (PreFetchBufferNum - buf_count) - k + 1
  BY <1>2, <1>6
<1>. HIDE DEF idx, k
<1>10. /\ buf_count' \in 0 .. PreFetchBufferNum
       /\ pushFollowRem' \in 0 .. PreFetchBufferNum - 1 /\ pushFollowRem' = pushPrePopRem'
       /\ buf_count' + pushFollowRem' <= PreFetchBufferNum
  BY <1>3, <1>8, <1>9, ConstantsAssumption
<1>11. buf_bottom' \in Slots
  BY <1>2, <1>5
<1>. QED BY <1>1, <1>5, <1>7, <1>10, <1>11, PrefetchKeeps

\* FollowNext reads the next task of the batch.
LEMMA FollowNextKeeps ==
  ASSUME FetchInv, FollowNext
  PROVE  FetchInv'
<1>1. PICK o \in Offered : Prefetch(o, Inc(buf_work, 1))
  BY DEF FollowNext
<1>2. /\ push_count = 0 /\ pushFollowRem # 0 /\ pushFollowRem' = pushFollowRem - 1
      /\ buf_count' = buf_count + 1 /\ buf_top' = buf_top /\ buf_bottom' = buf_bottom
  BY DEF FollowNext
<1>3. /\ TypeOK /\ pushFollowRem = pushPrePopRem /\ buf_work \in Slots
      /\ buf_count + pushFollowRem <= PreFetchBufferNum
  BY DEF FetchInv, FetchRoom, FollowInStep, TypeOK
<1>4. Inc(buf_work, 1) \in Slots
  BY <1>3, SlotSteps
<1>5. pushPrePopRem' = pushPrePopRem - 1
  BY <1>1, <1>2, <1>3, <1>4, PrefetchStack
<1>6. /\ buf_top' \in Slots /\ buf_bottom' \in Slots /\ buf_count' \in 0 .. PreFetchBufferNum
      /\ pushFollowRem' \in 0 .. PreFetchBufferNum - 1 /\ pushFollowRem' = pushPrePopRem'
      /\ buf_count' + pushFollowRem' <= PreFetchBufferNum
  BY <1>2, <1>3, <1>5, ConstantsAssumption DEF TypeOK
<1>. QED BY <1>1, <1>4, <1>6, PrefetchKeeps

\* FetchBegins: the roots are queued and owed.
LEMMA FetchBegins == Init => FetchInv
<1>. SUFFICES ASSUME Init PROVE FetchInv
  OBVIOUS
<1>1. /\ Roots \in Seq(Tasks) /\ 0 \in Slots /\ 0 \in 0 .. PreFetchBufferNum
      /\ 0 \in 0 .. PreFetchBufferNum - 1
  BY ConstantsAssumption DEF Slots
<1>2. /\ DOMAIN stack = DOMAIN Roots /\ stack \in Seq(StackTasks)
      /\ \A i \in DOMAIN Roots : stack[i].task = Roots[i]
  <2>1. stack = [i \in 1 .. Len(Roots) |-> Queued(Roots[i])] /\ Len(Roots) \in Nat
    BY <1>1 DEF Init
  <2>2. \A i \in 1 .. Len(Roots) :
          Queued(Roots[i]) \in StackTasks /\ Queued(Roots[i]).task = Roots[i]
    BY <1>1 DEF Queued, StackTasks
  <2>. QED BY <1>1, <2>1, <2>2
<1>3. \A t \in Tasks : owed[t] = TaskCount(stack, t) /\ TaskCount(stack, t) \in Nat
  <2>1. \A t \in Tasks :
          {i \in DOMAIN stack : stack[i].task = t} = {i \in DOMAIN Roots : Roots[i] = t}
    BY <1>2
  <2>2. \A t \in Tasks : owed[t] = TaskCount(stack, t)
    BY <2>1 DEF Init, TaskCount
  <2>. QED BY <1>2, <2>2, TaskCountType
<1>4. owed \in [Tasks -> Nat]
  BY <1>3 DEF Init
<1>5. Reset \in Contexts
  BY DEF Reset, Contexts
<1>6. /\ fsm \in [Machines -> FetchStates]
      /\ fsm["main"] = "IDLE" /\ fsm["push"] = "IDLE" /\ fsm["pre"] = "IDLE"
  BY DEF Init, Machines, FetchStates
<1>7. TypeOK
  <2>1. fwdCache = <<>> /\ trace = <<>>
    BY DEF Init
  <2>2. fwdCache \in Seq(Objects) /\ Len(fwdCache) <= ForwardCacheEntries /\ trace \in Seq(Tasks)
    BY <2>1, ConstantsAssumption
  <2>3. /\ main_data \in Contexts /\ push_data \in Contexts
        /\ preBuf \in [Slots -> Contexts] /\ preBufDone \in [Slots -> BOOLEAN]
    BY <1>5 DEF Init
  <2>4. /\ buf_top \in Slots /\ buf_bottom \in Slots /\ buf_work \in Slots
        /\ buf_count \in 0 .. PreFetchBufferNum /\ pushFollowRem \in 0 .. PreFetchBufferNum - 1
    BY <1>1 DEF Init
  <2>5. /\ waitForPrefetch \in BOOLEAN /\ rd \in [Machines -> BOOLEAN]
        /\ not_prefetch \in BOOLEAN /\ running \in BOOLEAN
    BY DEF Init
  <2>7. push_count \in Nat /\ pushPrePopRem \in Nat /\ pushPrePopOffset \in Nat \ {0}
    BY DEF Init
  <2>6. /\ mem \in [Objects -> BOOLEAN] /\ announced \subseteq Objects /\ late \subseteq Objects
        /\ work \in {"none", "copying", "installed", "tracing", "waiting"}
        /\ chunk \in [Partial -> Nat]
    BY DEF Init
  <2>. QED BY <1>2, <1>4, <1>6, <2>2, <2>3, <2>4, <2>5, <2>6, <2>7
           DEF TypeOK, FetchStates, StackTasks
<1>8. FetchBusy /\ FetchWaits /\ FetchRests
  BY <1>6 DEF Init, FetchBusy, FetchWaits, FetchRests, In
<1>9. FetchRoom
  BY <1>6, ConstantsAssumption DEF Init, FetchRoom, FollowInStep, In
<1>10. FetchContexts
  BY <1>6 DEF Init, FetchContexts, HasTask, MarkStates
<1>11. Owed
  <2>1. \A t \in Tasks : InMain(t) = 0 /\ InPush(t) = 0 /\ InWait(t) = 0
    BY <1>6 DEF Init, InMain, InPush, InWait, In
  <2>. QED BY <1>3, <2>1 DEF Owed
<1>. QED BY <1>7, <1>8, <1>9, <1>10, <1>11 DEF FetchInv

\* FetchKept: every step of a machine or a neighbour keeps what is owed.
LEMMA FetchKept == FetchInv /\ [Next]_vars => FetchInv'
<1>. SUFFICES ASSUME FetchInv, [Next]_vars PROVE FetchInv'
  OBVIOUS
<1>1. CASE \E m \in Machines : ReadOop(m) \/ AsksMark(m)
  BY <1>1, ReadOopKeeps, AsksMarkKeeps
<1>2. CASE Main
  BY <1>2, PopReadyEntryKeeps, PopWaitsKeeps, PopMissKeeps, WaitOverKeeps, MainMarkKeeps, SendKeeps
     DEF Main
<1>3. CASE Push
  BY <1>3, TakeLastKeeps, PushMarkKeeps, PushSendKeeps DEF Push
<1>4. CASE Pre
  BY <1>4, NormalPrefetchKeeps, FollowFirstKeeps, FollowNextKeeps, PreMarkToMainKeeps, PreMarkKeeps
     DEF Pre
<1>5. CASE PopAsAnswered
  BY <1>5, PopAsAnsweredKeeps
<1>6. CASE \E o \in Objects : Install(o) \/ Announce(o)
  BY <1>6, InstallKeeps, AnnounceKeeps
<1>7. CASE LetGo \/ Done
  BY <1>7, UnitDoneKeeps
<1>8. CASE PushTask \/ Finish
  BY <1>8, PushTaskKeeps, FinishKeeps
<1>9. CASE UNCHANGED vars
  <2>1. UNCHANGED <<fsm, main_data, push_data, preBuf, preBufDone, buf_top, buf_bottom, buf_count,
                    buf_work, pushFollowRem, waitForPrefetch, fwdCache, rd, stack, push_count,
                    not_prefetch, pushPrePopRem, pushPrePopOffset, running, mem, announced, late,
                    work, trace, chunk, owed>>
    BY <1>9 DEF vars, context, slots, window, stackVars, heap, unit
  <2>2. TypeOK' /\ FetchBusy' /\ FetchWaits' /\ FetchRests' /\ FetchRoom' /\ FetchContexts'
    BY <2>1 DEF FetchInv, TypeOK, FetchBusy, FetchWaits, FetchRests, FetchRoom, FollowInStep,
       FetchContexts, In
  <2>3. Owed'
    BY <2>1 DEF FetchInv, Owed, InMain, InPush, InWait, In
  <2>. QED BY <2>2, <2>3 DEF FetchInv
<1>. QED BY <1>1, <1>2, <1>3, <1>4, <1>5, <1>6, <1>7, <1>8, <1>9 DEF Next

\* GCFetch's registers keep their types, and GCFetch and the stack count the
\* batch they follow alike.
THEOREM FetchTyped == Spec => [](TypeOK /\ FollowInStep)
<1>1. FetchInv => TypeOK /\ FollowInStep
  BY DEF FetchInv, FetchRoom
<1>. QED BY <1>1, FetchBegins, FetchKept, PTL DEF Spec

\* HandedOverOnce: each task queued is handed over once, whichever of the
\* three machines gets hold of it and whatever batches overtake each other in
\* the ring, and none is owed when the job ends.
THEOREM HandedOver == Spec => []HandedOverOnce
<1>1. FetchInv => HandedOverOnce
  <2>. SUFFICES ASSUME FetchInv PROVE HandedOverOnce
    OBVIOUS
  <2>1. TypeOK
    BY DEF FetchInv
  <2>2. \A t \in Tasks : owed[t] = Held(t)
    BY DEF FetchInv, Owed, Held, TaskCount, InMain, InPush, InWait
  <2>3. ASSUME ~running, NEW t \in Tasks PROVE owed[t] = 0
    <3>1. InMain(t) = 0 /\ InPush(t) = 0 /\ InWait(t) = 0 /\ stack = <<>>
      BY <2>1, <2>3 DEF FetchInv, FetchRests, InMain, InPush, InWait, TypeOK
    <3>2. {i \in DOMAIN stack : stack[i].task = t} = {}
      BY <3>1
    <3>3. TaskCount(stack, t) = 0
      BY <3>2, FS_EmptySet DEF TaskCount
    <3>. QED BY <3>1, <3>3 DEF FetchInv, Owed
  <2>. QED BY <2>2, <2>3 DEF HandedOverOnce
<1>. QED BY <1>1, FetchBegins, FetchKept, PTL DEF Spec

(* GCFetch, continued: what a mark word is worth.  A read accepted before a *)
(* copy was placed may bring its mark word after the announcement; until it *)
(* does, the object has to stay in the forwarding cache.                    *)

AskedFresh(m) == In(m, "READ_MW_RESP") /\ ~rd[m] /\ Context(m).obj \in announced =>
                   Forwarded(Context(m).obj)
SentFresh(m)  == In(m, "SEND") /\ Context(m).obj \in announced =>
                   resolveForwardMark(Context(m).obj, Context(m).mark)
DoneFresh     == \A s \in Slots : preBufDone[s] /\ preBuf[s].obj \in announced => preBuf[s].mark
Installed     == /\ \A o \in announced : mem[o]
                 /\ work = "installed" => mem[main_data.obj]

MarksFresh == Installed /\ DoneFresh /\ \A m \in Machines : AskedFresh(m) /\ SentFresh(m)

\* How a step leaves machine m: it neither has nor awaits a mark word, it is
\* as it was, or its mark word is as good as the cache.
Settled(m) == \/ fsm'[m] \notin {"READ_MW_RESP", "SEND"}
              \/ fsm'[m] = fsm[m] /\ rd'[m] = rd[m] /\ Context(m)' = Context(m)
              \/ AskedFresh(m)' /\ SentFresh(m)'

\* MarksStay: a step that announces nothing.
LEMMA MarksStay ==
  ASSUME MarksFresh, CacheKept, Tidy, announced' = announced, Installed', DoneFresh',
         Settled("main"), Settled("push"), Settled("pre")
  PROVE  MarksFresh'
<1>1. fwdCache' = fwdCache \/ \A m \in Machines : fsm[m] = "IDLE"
  BY DEF Tidy, CacheKept, Clears, In, Machines
<1>2. ASSUME NEW m \in Machines PROVE AskedFresh(m)' /\ SentFresh(m)'
  <2>1. Settled(m)
    BY DEF Machines
  <2>2. CASE fsm'[m] \notin {"READ_MW_RESP", "SEND"}
    BY <2>2 DEF AskedFresh, SentFresh, In
  <2>3. CASE fsm'[m] = fsm[m] /\ rd'[m] = rd[m] /\ Context(m)' = Context(m)
    <3>1. CASE fwdCache' = fwdCache
      BY <2>3, <3>1 DEF MarksFresh, AskedFresh, SentFresh, In, Forwarded, resolveForwardMark
    <3>2. CASE fsm[m] = "IDLE"
      BY <2>3, <3>2 DEF AskedFresh, SentFresh, In
    <3>. QED BY <1>1, <3>1, <3>2
  <2>. QED BY <2>1, <2>2, <2>3 DEF Settled
<1>. QED BY <1>2 DEF MarksFresh

\* OthersSettled: the registers of the other machines.
LEMMA OthersSettled ==
  ASSUME NEW m \in Machines, fsm'[m] = fsm[m], rd'[m] = rd[m],
         m = "main" => main_data' = main_data,
         m = "push" => push_data' = push_data,
         m = "pre" => preBuf'[buf_work'] = preBuf[buf_work]
  PROVE  Settled(m)
<1>1. Context(m)' = Context(m)
  BY DEF Context, Machines
<1>. QED BY <1>1 DEF Settled

\* ReadOopFresh: a machine that reads a field has no mark word yet.
LEMMA ReadOopFresh ==
  ASSUME FetchInv, MarksFresh, CacheKept, NEW m \in Machines, ReadOop(m)
  PROVE  MarksFresh'
<1>1. /\ fsm[m] \in {"READ_OOP_REQ", "READ_OOP_RESP"}
      /\ fsm'[m] \in {"READ_OOP_RESP", "READ_MW_REQ"}
      /\ \A k \in Machines : k # m => fsm'[k] = fsm[k]
      /\ m # "main" => main_data' = main_data
      /\ m # "push" => push_data' = push_data
      /\ \A s \in Slots : m # "pre" \/ s # buf_work => preBuf'[s] = preBuf[s]
  BY ReadOopStep
<1>2. /\ Tidy /\ UNCHANGED <<preBufDone, window, rd, heap, unit>>
  BY DEF ReadOop
<1>3. buf_work \in Slots /\ buf_work' = buf_work
  BY <1>2 DEF FetchInv, TypeOK, window
<1>4. \A k \in Machines : Settled(k)
  <2>1. Settled(m)
    BY <1>1 DEF Settled
  <2>2. ASSUME NEW k \in Machines, k # m PROVE Settled(k)
    <3>1. preBuf'[buf_work'] = preBuf[buf_work] \/ k # "pre"
      BY <1>1, <1>3, <2>2
    <3>. QED BY <1>1, <1>2, <2>2, <3>1, OthersSettled
  <2>. QED BY <2>1, <2>2
<1>5. Installed'
  <2>1. work' = "installed" => main_data' = main_data
    <3>1. work = "installed" => fsm["main"] = "WAIT_DONE"
      BY DEF FetchInv, FetchBusy, In
    <3>. QED BY <1>1, <1>2, <3>1 DEF unit
  <2>. QED BY <1>2, <2>1 DEF MarksFresh, Installed, heap, unit
<1>6. DoneFresh'
  <2>1. m = "pre" => ~preBufDone[buf_work]
    BY <1>1 DEF FetchInv, FetchRoom, In
  <2>. QED BY <1>1, <1>2, <2>1 DEF MarksFresh, DoneFresh, heap
<1>. QED BY <1>2, <1>4, <1>5, <1>6, MarksStay DEF heap, Machines

\* AsksMarkFresh: what was announced before the read is in the answer.
LEMMA AsksMarkFresh ==
  ASSUME FetchInv, MarksFresh, CacheKept, NEW m \in Machines, AsksMark(m)
  PROVE  MarksFresh'
<1>1. /\ fsm[m] = "READ_MW_REQ" /\ Goto(m, "READ_MW_RESP") /\ Tidy
      /\ rd' = [rd EXCEPT ![m] = mem[Context(m).obj]]
      /\ UNCHANGED <<context, slots, window, heap, unit>>
  BY DEF AsksMark, In
<1>2. /\ fsm'[m] = "READ_MW_RESP" /\ \A k \in Machines : k # m => fsm'[k] = fsm[k]
  BY <1>1, FsmMoves DEF FetchInv, TypeOK, FetchStates
<1>3. rd'[m] = mem[Context(m).obj] /\ \A k \in Machines : k # m => rd'[k] = rd[k]
  BY <1>1 DEF FetchInv, TypeOK
<1>4. Settled(m)
  <2>1. Context(m)' = Context(m)
    BY <1>1 DEF Context, context, slots, window
  <2>2. AskedFresh(m)' /\ SentFresh(m)'
    BY <1>1, <1>2, <1>3, <2>1 DEF AskedFresh, SentFresh, In, MarksFresh, Installed, heap
  <2>. QED BY <2>2 DEF Settled
<1>5. ASSUME NEW k \in Machines, k # m PROVE Settled(k)
  BY <1>1, <1>2, <1>3, <1>5, OthersSettled DEF context, slots, window
<1>6. Installed' /\ DoneFresh'
  BY <1>1 DEF MarksFresh, Installed, DoneFresh, context, slots, heap, unit
<1>. QED BY <1>1, <1>4, <1>5, <1>6, MarksStay DEF heap, Machines

\* AnswerFresh: a mark word that comes in is as good as the cache.
LEMMA AnswerFresh ==
  ASSUME MarksFresh, NEW m \in Machines, fsm[m] = "READ_MW_RESP", NEW v \in MarkRead(m)
  PROVE  Context(m).obj \in announced => v \/ Forwarded(Context(m).obj)
<1>1. v = TRUE \/ ~rd[m]
  BY DEF MarkRead
<1>. QED BY <1>1 DEF MarksFresh, AskedFresh, In

\* MainMarkFresh: main has its mark word.
LEMMA MainMarkFresh ==
  ASSUME FetchInv, MarksFresh, CacheKept, MainMark
  PROVE  MarksFresh'
<1>1. /\ fsm["main"] = "READ_MW_RESP" /\ rd' = [rd EXCEPT !["main"] = FALSE]
      /\ Goto("main", "SEND") /\ Tidy /\ "main" \in Machines
      /\ UNCHANGED <<push_data, slots, window, heap, unit>>
  BY DEF MainMark, MarkAnswered, In, Machines
<1>2. PICK v \in MarkRead("main") : main_data' = [main_data EXCEPT !.mark = v]
  BY DEF MainMark
<1>3. /\ fsm'["main"] = "SEND" /\ fsm'["push"] = fsm["push"] /\ fsm'["pre"] = fsm["pre"]
      /\ rd'["push"] = rd["push"] /\ rd'["pre"] = rd["pre"]
  BY <1>1, FsmMoves DEF FetchInv, TypeOK, FetchStates, Machines
<1>4. main_data.obj \in announced => v \/ Forwarded(main_data.obj)
  BY <1>1, <1>2, AnswerFresh DEF Context
<1>5. main_data'.obj = main_data.obj /\ main_data'.mark = v
  BY <1>2 DEF FetchInv, TypeOK, Contexts
<1>6. fwdCache' = fwdCache
  BY <1>1 DEF Tidy, Clears, In
<1>7. Settled("main")
  <2>1. AskedFresh("main")' /\ SentFresh("main")'
    BY <1>1, <1>3, <1>4, <1>5, <1>6
       DEF AskedFresh, SentFresh, In, Context, resolveForwardMark, Forwarded, heap
  <2>. QED BY <2>1 DEF Settled
<1>8. Settled("push") /\ Settled("pre")
  BY <1>1, <1>3, OthersSettled DEF Machines, slots, window
<1>9. Installed' /\ DoneFresh'
  <2>1. work # "installed"
    BY <1>1 DEF FetchInv, FetchBusy, In
  <2>. QED BY <1>1, <2>1 DEF MarksFresh, Installed, DoneFresh, slots, heap, unit
<1>. QED BY <1>1, <1>7, <1>8, <1>9, MarksStay DEF heap

\* GivesMainFresh: main gets a mark word as good as the cache from push.
LEMMA GivesMainFresh ==
  ASSUME FetchInv, MarksFresh, CacheKept, NEW c, GivesMain(c), Tidy, fsm["push"] # "IDLE",
         c.obj \in announced => c.mark \/ Forwarded(c.obj),
         rd'["pre"] = rd["pre"], UNCHANGED <<push_data, slots, window, heap, unit>>
  PROVE  MarksFresh'
<1>1. /\ fsm["main"] = "IDLE" /\ main_data' = c
      /\ fsm' = [fsm EXCEPT !["push"] = "IDLE", !["main"] = "SEND"]
  BY DEF GivesMain, In
<1>2. /\ fsm'["main"] = "SEND" /\ fsm'["push"] = "IDLE" /\ fsm'["pre"] = fsm["pre"]
  BY <1>1 DEF FetchInv, TypeOK, Machines
<1>3. fwdCache' = fwdCache
  BY DEF Tidy, Clears, In
<1>4. Settled("main")
  <2>1. AskedFresh("main")' /\ SentFresh("main")'
    BY <1>1, <1>2, <1>3
       DEF AskedFresh, SentFresh, In, Context, resolveForwardMark, Forwarded, heap
  <2>. QED BY <2>1 DEF Settled
<1>5. Settled("push")
  BY <1>2 DEF Settled
<1>6. Settled("pre")
  BY <1>2, OthersSettled DEF Machines, slots, window
<1>7. Installed' /\ DoneFresh'
  <2>1. work # "installed"
    BY <1>1 DEF FetchInv, FetchBusy, In
  <2>. QED BY <1>1, <2>1 DEF MarksFresh, Installed, DoneFresh, slots, heap, unit
<1>. QED BY <1>1, <1>4, <1>5, <1>6, <1>7, MarksStay DEF heap

\* PushFresh: push has its mark word, and passes it on.
LEMMA PushFresh ==
  ASSUME FetchInv, MarksFresh, CacheKept, PushMark \/ PushSend
  PROVE  MarksFresh'
<1>1. CASE PushSend
  <2>1. /\ fsm["push"] = "SEND" /\ GivesMain(push_data) /\ Tidy /\ rd' = rd
        /\ UNCHANGED <<push_data, slots, window, heap, unit>>
    BY <1>1 DEF PushSend, In
  <2>2. push_data.obj \in announced => push_data.mark \/ Forwarded(push_data.obj)
    <3>1. SentFresh("push")
      BY DEF MarksFresh, Machines
    <3>. QED BY <2>1, <3>1 DEF SentFresh, In, Context, resolveForwardMark
  <2>. QED BY <2>1, <2>2, GivesMainFresh
<1>2. CASE PushMark
  <2>1. /\ fsm["push"] = "READ_MW_RESP" /\ rd' = [rd EXCEPT !["push"] = FALSE] /\ Tidy
        /\ "push" \in Machines
        /\ UNCHANGED <<slots, window, waitForPrefetch, stackVars, running, heap, unit, owed>>
    BY <1>2 DEF PushMark, MarkAnswered, In, Machines
  <2>. DEFINE c(v) == [push_data EXCEPT !.mark = v]
  <2>2. PICK v \in MarkRead("push") :
          \/ GivesMain(c(v)) /\ UNCHANGED push_data
          \/ /\ ~In("main", "IDLE") /\ push_data' = c(v)
             /\ Goto("push", "SEND") /\ UNCHANGED main_data
    BY <1>2 DEF PushMark
  <2>3. push_data.obj \in announced => v \/ Forwarded(push_data.obj)
    BY <2>1, <2>2, AnswerFresh DEF Context
  <2>4. c(v).obj = push_data.obj /\ c(v).mark = v
    BY DEF FetchInv, TypeOK, Contexts
  <2>5. rd'["pre"] = rd["pre"] /\ rd'["main"] = rd["main"]
    BY <2>1 DEF FetchInv, TypeOK, Machines
  <2>. HIDE DEF c
  <2>6. CASE GivesMain(c(v)) /\ UNCHANGED push_data
    BY <2>1, <2>3, <2>4, <2>5, <2>6, GivesMainFresh
  <2>7. CASE /\ ~In("main", "IDLE") /\ push_data' = c(v)
             /\ Goto("push", "SEND") /\ UNCHANGED main_data
    <3>1. /\ fsm'["push"] = "SEND" /\ fsm'["main"] = fsm["main"] /\ fsm'["pre"] = fsm["pre"]
      BY <2>7, FsmMoves DEF FetchInv, TypeOK, FetchStates, Machines
    <3>2. fwdCache' = fwdCache
      BY <2>1 DEF Tidy, Clears, In
    <3>3. Settled("push")
      <4>1. AskedFresh("push")' /\ SentFresh("push")'
        BY <2>1, <2>3, <2>4, <2>7, <3>1, <3>2
           DEF AskedFresh, SentFresh, In, Context, resolveForwardMark, Forwarded, heap
      <4>. QED BY <4>1 DEF Settled
    <3>4. Settled("main") /\ Settled("pre")
      BY <2>1, <2>5, <2>7, <3>1, OthersSettled DEF Machines, slots, window
    <3>5. Installed' /\ DoneFresh'
      BY <2>1, <2>7 DEF MarksFresh, Installed, DoneFresh, slots, heap, unit
    <3>. QED BY <2>1, <3>3, <3>4, <3>5, MarksStay DEF heap
  <2>. QED BY <2>2, <2>6, <2>7
<1>. QED BY <1>1, <1>2

\* EntryFresh: what pre answers with is as good as the cache, and it looks
\* there in the same cycle.
LEMMA EntryFresh ==
  ASSUME FetchInv, MarksFresh, fsm["pre"] = "READ_MW_RESP", NEW v \in MarkRead("pre")
  PROVE  preBuf[buf_work].obj \in announced => preMarkWord(v)
<1>1. "pre" \in Machines /\ Context("pre") = preBuf[buf_work]
  BY DEF Machines, Context
<1>2. Context("pre").obj \in announced => v \/ Forwarded(Context("pre").obj)
  BY <1>1, AnswerFresh
<1>. QED BY <1>1, <1>2 DEF preMarkWord, resolveForwardMark

\* EntryDoneFresh: an entry is complete.
LEMMA EntryDoneFresh ==
  ASSUME FetchInv, MarksFresh, CacheKept, EntryDone, UNCHANGED <<context, heap, unit>>
  PROVE  MarksFresh'
<1>1. /\ fsm["pre"] = "READ_MW_RESP" /\ rd' = [rd EXCEPT !["pre"] = FALSE] /\ Tidy
      /\ preBufDone' = [preBufDone EXCEPT ![buf_work] = TRUE]
  BY DEF EntryDone, MarkAnswered, In
<1>2. PICK v \in MarkRead("pre") : preBuf' = [preBuf EXCEPT ![buf_work].mark = preMarkWord(v)]
  BY DEF EntryDone
<1>3. preBuf[buf_work].obj \in announced => preMarkWord(v)
  BY <1>1, <1>2, EntryFresh
<1>4. buf_work \in Slots /\ preBuf \in [Slots -> Contexts] /\ preBufDone \in [Slots -> BOOLEAN]
  BY DEF FetchInv, TypeOK
<1>5. /\ preBuf'[buf_work].obj = preBuf[buf_work].obj
      /\ preBuf'[buf_work].mark = preMarkWord(v)
      /\ \A s \in Slots : s # buf_work => preBuf'[s] = preBuf[s] /\ preBufDone'[s] = preBufDone[s]
  BY <1>1, <1>2, <1>4 DEF Contexts
<1>6. DoneFresh'
  BY <1>3, <1>5 DEF MarksFresh, DoneFresh, heap
<1>7. fsm'["pre"] = "IDLE" /\ fsm'["main"] = fsm["main"] /\ fsm'["push"] = fsm["push"]
  BY EntryDoneStep
<1>8. rd'["main"] = rd["main"] /\ rd'["push"] = rd["push"]
  BY <1>1 DEF FetchInv, TypeOK, Machines
<1>9. Settled("main") /\ Settled("push") /\ Settled("pre")
  <2>1. Settled("main") /\ Settled("push")
    BY <1>7, <1>8, OthersSettled DEF Machines, context
  <2>2. Settled("pre")
    BY <1>7 DEF Settled
  <2>. QED BY <2>1, <2>2
<1>10. Installed'
  BY DEF MarksFresh, Installed, context, heap, unit
<1>. QED BY <1>1, <1>6, <1>9, <1>10, MarksStay DEF heap

\* BottomFresh: main takes the entry at the bottom.
LEMMA BottomFresh ==
  ASSUME FetchInv, MarksFresh, CacheKept, ConsumeBottom, Tidy, buf_count # 0,
         fsm["main"] = "IDLE", fsm'["main"] = "SEND", fsm'["push"] = fsm["push"],
         rd'["push"] = rd["push"], push_data' = push_data,
         \/ fsm'["pre"] = "IDLE"
         \/ fsm'["pre"] = fsm["pre"] /\ rd'["pre"] = rd["pre"],
         main_data'.obj \in announced => main_data'.mark \/ Forwarded(main_data'.obj),
         UNCHANGED <<heap, unit>>
  PROVE  MarksFresh'
<1>1. fwdCache' = fwdCache
  BY DEF Tidy, Clears, In
<1>2. Settled("main")
  <2>1. AskedFresh("main")' /\ SentFresh("main")'
    BY <1>1 DEF AskedFresh, SentFresh, In, Context, resolveForwardMark, Forwarded, heap
  <2>. QED BY <2>1 DEF Settled
<1>3. Settled("push")
  BY OthersSettled DEF Machines
<1>4. preBuf' = preBuf /\ buf_work' = buf_work
  BY DEF ConsumeBottom
<1>5. Settled("pre")
  <2>1. CASE fsm'["pre"] = "IDLE"
    BY <2>1 DEF Settled
  <2>2. CASE fsm'["pre"] = fsm["pre"] /\ rd'["pre"] = rd["pre"]
    BY <1>4, <2>2, OthersSettled DEF Machines
  <2>. QED BY <2>1, <2>2
<1>6. Installed' /\ DoneFresh'
  <2>1. work # "installed"
    BY DEF FetchInv, FetchBusy, In
  <2>2. \A s \in Slots : preBufDone'[s] => preBufDone[s]
    BY DEF ConsumeBottom, FetchInv, TypeOK
  <2>. QED BY <1>4, <2>1, <2>2 DEF MarksFresh, Installed, DoneFresh, heap, unit
<1>. QED BY <1>2, <1>3, <1>5, <1>6, MarksStay DEF heap

\* TakesEntryFresh: the entry is done, or pre completes it now.
LEMMA TakesEntryFresh ==
  ASSUME FetchInv, MarksFresh, CacheKept, PopReadyEntry \/ WaitOver \/ PreMarkToMain
  PROVE  MarksFresh'
<1>1. CASE PopReadyEntry \/ WaitOver
  <2>1. /\ fsm["main"] = "IDLE" /\ preBufDone[buf_bottom] /\ buf_count # 0
        /\ main_data' = preBuf[buf_bottom] /\ ConsumeBottom /\ Goto("main", "SEND") /\ Tidy
        /\ push_data' = push_data /\ rd' = rd /\ UNCHANGED <<heap, unit>>
    BY <1>1 DEF PopReadyEntry, WaitOver, PopFires, PopReady, bottomHit, Popped, In
  <2>2. fsm'["main"] = "SEND" /\ fsm'["push"] = fsm["push"] /\ fsm'["pre"] = fsm["pre"]
    BY <2>1, FsmMoves DEF FetchInv, TypeOK, FetchStates, Machines
  <2>3. main_data'.obj \in announced => main_data'.mark
    BY <2>1 DEF MarksFresh, DoneFresh, FetchInv, TypeOK
  <2>. QED BY <2>1, <2>2, <2>3, BottomFresh
<1>2. CASE PreMarkToMain
  <2>1. /\ fsm["pre"] = "READ_MW_RESP" /\ rd' = [rd EXCEPT !["pre"] = FALSE]
        /\ waitForPrefetch /\ fsm["main"] = "IDLE"
        /\ fsm' = [fsm EXCEPT !["pre"] = "IDLE", !["main"] = "SEND"]
        /\ ConsumeBottom /\ Tidy /\ push_data' = push_data
        /\ UNCHANGED <<heap, unit>>
    BY <1>2 DEF PreMarkToMain, MarkAnswered, In
  <2>2. PICK v \in MarkRead("pre") : main_data' = [preBuf[buf_work] EXCEPT !.mark = preMarkWord(v)]
    BY <1>2 DEF PreMarkToMain, Context
  <2>3. preBuf[buf_work].obj \in announced => preMarkWord(v)
    BY <2>1, <2>2, EntryFresh
  <2>4. main_data'.obj = preBuf[buf_work].obj /\ main_data'.mark = preMarkWord(v)
    BY <2>2 DEF FetchInv, TypeOK, Contexts
  <2>5. /\ fsm'["main"] = "SEND" /\ fsm'["push"] = fsm["push"] /\ fsm'["pre"] = "IDLE"
        /\ rd'["push"] = rd["push"]
    BY <2>1 DEF FetchInv, TypeOK, Machines
  <2>6. buf_count # 0
    BY <2>1 DEF FetchInv, FetchWaits
  <2>. QED BY <2>1, <2>3, <2>4, <2>5, <2>6, BottomFresh
<1>. QED BY <1>1, <1>2

\* QuietFresh: a step that moves no mark word.
LEMMA QuietFresh ==
  ASSUME FetchInv, MarksFresh, CacheKept, Tidy, announced' = announced,
         Installed', rd' = rd, slots' = slots, buf_work' = buf_work, fsm'["pre"] = fsm["pre"],
         \/ fsm'["main"] \in {"IDLE", "READ_OOP_REQ", "WAIT_DONE"}
         \/ fsm'["main"] = fsm["main"] /\ main_data' = main_data,
         \/ fsm'["push"] \in {"IDLE", "READ_OOP_REQ"}
         \/ fsm'["push"] = fsm["push"] /\ push_data' = push_data
  PROVE  MarksFresh'
<1>1. Settled("main")
  <2>1. CASE fsm'["main"] \in {"IDLE", "READ_OOP_REQ", "WAIT_DONE"}
    BY <2>1 DEF Settled
  <2>2. CASE fsm'["main"] = fsm["main"] /\ main_data' = main_data
    BY <2>2, OthersSettled DEF Machines
  <2>. QED BY <2>1, <2>2
<1>2. Settled("push")
  <2>1. CASE fsm'["push"] \in {"IDLE", "READ_OOP_REQ"}
    BY <2>1 DEF Settled
  <2>2. CASE fsm'["push"] = fsm["push"] /\ push_data' = push_data
    BY <2>2, OthersSettled DEF Machines
  <2>. QED BY <2>1, <2>2
<1>3. Settled("pre")
  BY OthersSettled DEF Machines, slots
<1>4. DoneFresh'
  BY DEF MarksFresh, DoneFresh, slots
<1>. QED BY <1>1, <1>2, <1>3, <1>4, MarksStay

\* MainQuiet: main waits for, or begins with, what it popped; it hands a task
\* over; the unit lets it go.
LEMMA MainQuiet ==
  ASSUME FetchInv, MarksFresh, CacheKept, PopWaits \/ PopMiss \/ Send \/ LetGo \/ Done
  PROVE  MarksFresh'
<1>1. /\ Tidy /\ UNCHANGED <<push_data, slots, window, rd, mem, announced>>
      /\ work' # "installed" \/ (work' = work /\ main_data' = main_data)
  <2>1. CASE PopWaits
    BY <2>1 DEF PopWaits, Popped, heap, unit
  <2>2. CASE PopMiss
    <3>1. work # "installed"
      BY <2>2 DEF PopMiss, PopFires, PopReady, FetchInv, FetchBusy, In
    <3>. QED BY <2>2, <3>1 DEF PopMiss, Popped, heap, unit
  <2>3. CASE Send
    BY <2>3 DEF Send, context, heap
  <2>4. CASE LetGo
    BY <2>4 DEF LetGo, context
  <2>5. CASE Done
    BY <2>5 DEF Done, context, heap
  <2>. QED BY <2>1, <2>2, <2>3, <2>4, <2>5
<1>2. Installed'
  BY <1>1 DEF MarksFresh, Installed
<1>3. \/ UNCHANGED <<fsm, main_data>>
      \/ \E q \in {"IDLE", "READ_OOP_REQ", "WAIT_DONE"} : Goto("main", q)
  BY DEF PopWaits, PopMiss, Send, LetGo, Done
<1>4. /\ fsm'["pre"] = fsm["pre"] /\ fsm'["push"] = fsm["push"]
      /\ \/ fsm'["main"] \in {"IDLE", "READ_OOP_REQ", "WAIT_DONE"}
         \/ fsm'["main"] = fsm["main"] /\ main_data' = main_data
  BY <1>3, FsmMoves DEF FetchInv, TypeOK, FetchStates, Machines
<1>. QED BY <1>1, <1>2, <1>4, QuietFresh DEF window

\* PushQuiet: GCTrace queues a task, push takes the last, the job ends.
LEMMA PushQuiet ==
  ASSUME FetchInv, MarksFresh, CacheKept, TakeLast \/ PushTask \/ Finish
  PROVE  MarksFresh'
<1>1. /\ Tidy /\ UNCHANGED <<main_data, slots, window, rd, heap, work>>
      /\ \/ UNCHANGED <<fsm, push_data>>
         \/ Goto("push", "READ_OOP_REQ")
  BY DEF TakeLast, PushTask, Finish, context, unit
<1>2. Installed'
  BY <1>1 DEF MarksFresh, Installed, heap
<1>3. /\ fsm'["pre"] = fsm["pre"] /\ fsm'["main"] = fsm["main"]
      /\ \/ fsm'["push"] \in {"IDLE", "READ_OOP_REQ"}
         \/ fsm'["push"] = fsm["push"] /\ push_data' = push_data
  BY <1>1, FsmMoves DEF FetchInv, TypeOK, FetchStates, Machines
<1>. QED BY <1>1, <1>2, <1>3, QuietFresh DEF heap, window

\* PrefetchFresh: a slot that is read anew is not done.
LEMMA PrefetchFresh ==
  ASSUME FetchInv, MarksFresh, CacheKept, NEW s \in Slots, NEW o, Prefetch(o, s)
  PROVE  MarksFresh'
<1>1. /\ preBuf' = [preBuf EXCEPT ![s] = receiveTask(@, stack[o + 1].task)]
      /\ preBufDone' = [preBufDone EXCEPT ![s] = FALSE]
      /\ Goto("pre", "READ_OOP_REQ") /\ Tidy /\ UNCHANGED <<context, rd, heap, unit>>
  BY DEF Prefetch
<1>2. fsm'["pre"] = "READ_OOP_REQ" /\ fsm'["main"] = fsm["main"] /\ fsm'["push"] = fsm["push"]
  BY <1>1, FsmMoves DEF FetchInv, TypeOK, FetchStates, Machines
<1>3. Settled("main") /\ Settled("push") /\ Settled("pre")
  <2>1. Settled("main") /\ Settled("push")
    BY <1>1, <1>2, OthersSettled DEF Machines, context
  <2>2. Settled("pre")
    BY <1>2 DEF Settled
  <2>. QED BY <2>1, <2>2
<1>4. DoneFresh'
  <2>1. /\ ~preBufDone'[s]
        /\ \A i \in Slots : i # s => preBuf'[i] = preBuf[i] /\ preBufDone'[i] = preBufDone[i]
    BY <1>1 DEF FetchInv, TypeOK
  <2>. QED BY <1>1, <2>1 DEF MarksFresh, DoneFresh, heap
<1>5. Installed'
  BY <1>1 DEF MarksFresh, Installed, context, heap, unit
<1>. QED BY <1>1, <1>3, <1>4, <1>5, MarksStay DEF heap

\* InstallFresh: an object has its forwarding pointer before it is announced.
LEMMA InstallFresh ==
  ASSUME FetchInv, MarksFresh, CacheKept, NEW o \in Objects, Install(o)
  PROVE  MarksFresh'
<1>1. /\ Tidy /\ mem' = [mem EXCEPT ![o] = TRUE]
      /\ UNCHANGED <<fsm, context, slots, window, rd, announced>>
      /\ work' # "installed" \/ main_data.obj = o \/ work' = work
  BY DEF Install
<1>2. mem \in [Objects -> BOOLEAN] /\ announced \subseteq Objects
  BY DEF FetchInv, TypeOK
<1>3. mem'[o] /\ \A x \in Objects : mem[x] => mem'[x]
  BY <1>1, <1>2
<1>4. work = "installed" => main_data.obj \in Objects
  <2>1. work = "installed" => fsm["main"] = "WAIT_DONE"
    BY DEF FetchInv, FetchBusy, In
  <2>. QED BY <2>1 DEF FetchInv, FetchContexts, HasTask, MarkStates
<1>5. Installed'
  BY <1>1, <1>2, <1>3, <1>4 DEF MarksFresh, Installed, context
<1>. QED BY <1>1, <1>5, QuietFresh DEF context, window

\* AnnounceFresh: whatever has been read already is patched, and what is still
\* to come will find the object in the cache.
LEMMA AnnounceFresh ==
  ASSUME FetchInv, MarksFresh, CacheKept, NEW o \in Objects, Announce(o)
  PROVE  MarksFresh'
<1>1. /\ announced' = announced \cup {o}
      /\ fwdCache' = IF Forwarded(o) THEN fwdCache
                     ELSE Append(IF Len(fwdCache) < ForwardCacheEntries THEN fwdCache
                                 ELSE Tail(fwdCache), o)
      /\ main_data' = Patched(main_data, o) /\ push_data' = Patched(push_data, o)
      /\ preBuf' = [s \in Slots |-> IF preBufDone[s] THEN Patched(preBuf[s], o) ELSE preBuf[s]]
      /\ UNCHANGED <<fsm, preBufDone, window, rd, mem>>
  BY DEF Announce
<1>2. TypeOK
  BY DEF FetchInv
<1>3. Forwarded(o)' /\ \A x : Forwarded(x) => Forwarded(x)'
  <2>1. CASE Forwarded(o)
    BY <1>1, <2>1 DEF Forwarded
  <2>2. CASE ~Forwarded(o)
    <3>1. fwdCache' = Append(fwdCache, o) /\ fwdCache \in Seq(Objects)
      BY <1>1, <1>2, <2>2 DEF CacheKept, TypeOK
    <3>2. /\ DOMAIN fwdCache = 1 .. Len(fwdCache) /\ Len(fwdCache) \in Nat
          /\ DOMAIN fwdCache' = 1 .. Len(fwdCache) + 1
          /\ fwdCache'[Len(fwdCache) + 1] = o
          /\ \A i \in 1 .. Len(fwdCache) : fwdCache'[i] = fwdCache[i]
      BY <3>1
    <3>. QED BY <3>2 DEF Forwarded
  <2>. QED BY <2>1, <2>2
<1>4. \A s \in Slots : /\ preBuf'[s].obj = preBuf[s].obj
                       /\ preBuf[s].mark => preBuf'[s].mark
                       /\ preBufDone[s] /\ preBuf[s].obj = o => preBuf'[s].mark
  <2>1. \A s \in Slots : /\ Patched(preBuf[s], o).obj = preBuf[s].obj
                         /\ preBuf[s].obj = o => Patched(preBuf[s], o).mark
                         /\ preBuf[s].mark => Patched(preBuf[s], o).mark
    BY <1>2, PatchedKeeps DEF TypeOK
  <2>. QED BY <1>1, <2>1
<1>5. /\ main_data'.obj = main_data.obj
      /\ main_data.mark => main_data'.mark
      /\ push_data'.obj = push_data.obj
      /\ push_data.mark => push_data'.mark
  BY <1>1, <1>2, PatchedKeeps DEF TypeOK
<1>6. \A m \in Machines : Context(m)'.obj = Context(m).obj /\ (Context(m).mark => Context(m)'.mark)
  <2>1. buf_work \in Slots /\ buf_work' = buf_work
    BY <1>1, <1>2 DEF TypeOK, window
  <2>2. /\ Context("main")'.obj = Context("main").obj
        /\ Context("main").mark => Context("main")'.mark
    BY <1>5 DEF Context
  <2>3. /\ Context("push")'.obj = Context("push").obj
        /\ Context("push").mark => Context("push")'.mark
    BY <1>5 DEF Context
  <2>4. /\ Context("pre")'.obj = Context("pre").obj
        /\ Context("pre").mark => Context("pre")'.mark
    BY <1>4, <2>1 DEF Context
  <2>. QED BY <2>2, <2>3, <2>4 DEF Machines
<1>7. ASSUME NEW m \in Machines PROVE AskedFresh(m)' /\ SentFresh(m)'
  <2>1. Context(m)'.obj = Context(m).obj /\ (Context(m).mark => Context(m)'.mark)
    BY <1>6
  <2>2. AskedFresh(m)'
    BY <1>1, <1>3, <2>1 DEF MarksFresh, AskedFresh, In
  <2>3. SentFresh(m)'
    <3>1. \A x : Forwarded(x) => \E i \in DOMAIN fwdCache' : fwdCache'[i] = x
      BY <1>3 DEF Forwarded
    <3>2. \E i \in DOMAIN fwdCache' : fwdCache'[i] = o
      BY <1>3 DEF Forwarded
    <3>3. fsm[m] = "SEND" /\ Context(m).obj \in announced =>
            Context(m)'.mark \/ Forwarded(Context(m).obj)
      BY <2>1 DEF MarksFresh, SentFresh, In, resolveForwardMark
    <3>4. fsm[m] = "SEND" /\ Context(m)'.obj \in announced' =>
            Context(m)'.mark \/ \E i \in DOMAIN fwdCache' : fwdCache'[i] = Context(m)'.obj
      BY <1>1, <2>1, <3>1, <3>2, <3>3
    <3>. QED BY <1>1, <3>4 DEF SentFresh, In, resolveForwardMark, Forwarded
  <2>. QED BY <2>2, <2>3
<1>8. DoneFresh'
  BY <1>1, <1>4 DEF MarksFresh, DoneFresh
<1>9. Installed'
  <2>1. mem[o]
    BY DEF Announce, MarksFresh, Installed
  <2>2. work' = "installed" => work = "installed"
    BY DEF Announce
  <2>3. \A x \in announced' : mem'[x]
    BY <1>1, <2>1 DEF MarksFresh, Installed
  <2>4. work' = "installed" => mem'[main_data'.obj]
    BY <1>1, <1>5, <2>2 DEF MarksFresh, Installed
  <2>. QED BY <2>3, <2>4 DEF Installed
<1>. QED BY <1>7, <1>8, <1>9 DEF MarksFresh

\* RingFresh: the three ways into the ring and the end of a wait.
LEMMA RingFresh ==
  ASSUME FetchInv, MarksFresh, CacheKept, NormalPrefetch \/ FollowFirst \/ FollowNext
  PROVE  MarksFresh'
<1>1. buf_top \in Slots /\ Inc(buf_work, 1) \in Slots
  BY SlotSteps DEF FetchInv, TypeOK
<1>2. push_count # 0 => Dec(buf_bottom, takeNum) \in Slots
  <2>1. push_count # 0 => takeNum \in Int
    BY ConstantsAssumption DEF FetchInv, TypeOK, takeNum, Least
  <2>. QED BY <2>1, SlotSteps DEF FetchInv, TypeOK
<1>3. \E s \in Slots, o \in Offered : Prefetch(o, s)
  <2>1. CASE NormalPrefetch
    BY <1>1, <2>1 DEF NormalPrefetch
  <2>2. CASE FollowFirst
    BY <1>2, <2>2 DEF FollowFirst
  <2>3. CASE FollowNext
    BY <1>1, <2>3 DEF FollowNext
  <2>. QED BY <2>1, <2>2, <2>3
<1>. QED BY <1>3, PrefetchFresh

\* MarksKept: the step relation, as long as the cache is kept.
LEMMA MarksKept == FetchInv /\ CacheKept /\ MarksFresh /\ [Next]_vars => MarksFresh'
<1>. SUFFICES ASSUME FetchInv, CacheKept, MarksFresh, [Next]_vars PROVE MarksFresh'
  OBVIOUS
<1>1. CASE \E m \in Machines : ReadOop(m) \/ AsksMark(m)
  BY <1>1, ReadOopFresh, AsksMarkFresh
<1>2. CASE Main
  BY <1>2, TakesEntryFresh, MainQuiet, MainMarkFresh DEF Main
<1>3. CASE Push
  BY <1>3, PushFresh, PushQuiet DEF Push
<1>4. CASE Pre
  <2>1. CASE NormalPrefetch \/ FollowFirst \/ FollowNext
    BY <2>1, RingFresh
  <2>2. CASE PreMarkToMain
    BY <2>2, TakesEntryFresh
  <2>3. CASE PreMark
    BY <2>3, EntryDoneFresh DEF PreMark
  <2>. QED BY <1>4, <2>1, <2>2, <2>3 DEF Pre
<1>5. CASE PopAsAnswered
  <2>1. EntryDone /\ UNCHANGED <<context, heap, unit>>
    BY <1>5 DEF PopAsAnswered, Popped, context
  <2>. QED BY <2>1, EntryDoneFresh
<1>6. CASE \E o \in Objects : Install(o) \/ Announce(o)
  BY <1>6, InstallFresh, AnnounceFresh
<1>7. CASE LetGo \/ Done
  BY <1>7, MainQuiet
<1>8. CASE PushTask \/ Finish
  BY <1>8, PushQuiet
<1>9. CASE UNCHANGED vars
  <2>1. UNCHANGED <<fsm, rd, fwdCache, main_data, push_data, preBuf, preBufDone, buf_work,
                    announced, mem, work>>
    BY <1>9 DEF vars, context, slots, window, heap, unit
  <2>2. Installed' /\ DoneFresh'
    BY <2>1 DEF MarksFresh, Installed, DoneFresh
  <2>3. ASSUME NEW m \in Machines PROVE AskedFresh(m)' /\ SentFresh(m)'
    <3>1. Context(m)' = Context(m)
      BY <2>1 DEF Context
    <3>. QED BY <2>1, <3>1
         DEF MarksFresh, AskedFresh, SentFresh, In, Forwarded, resolveForwardMark
  <2>. QED BY <2>2, <2>3 DEF MarksFresh
<1>. QED BY <1>1, <1>2, <1>3, <1>4, <1>5, <1>6, <1>7, <1>8, <1>9 DEF Next

\* FreshWhileKept: no task is handed over with a mark word from before an
\* announcement, as long as the cache is emptied with every machine idle only
\* and announcements do not drive each other out.
THEOREM StaysFresh == Spec => FreshWhileKept
<1>1. Init => MarksFresh
  <2>. SUFFICES ASSUME Init PROVE MarksFresh
    OBVIOUS
  <2>1. \A m \in Machines : fsm[m] = "IDLE"
    BY DEF Init
  <2>2. Installed /\ DoneFresh
    BY DEF Init, Installed, DoneFresh
  <2>. QED BY <2>1, <2>2 DEF MarksFresh, AskedFresh, SentFresh, In
<1>2. MarksFresh => DispatchFresh
  BY DEF MarksFresh, SentFresh, DispatchFresh, dispatchMarkWord, Machines, In, Context
<1>. QED BY <1>1, <1>2, FetchBegins, FetchKept, MarksKept, PTL DEF Spec, FreshWhileKept
===============================================================================
