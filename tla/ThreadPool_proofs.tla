-------------------------- MODULE ThreadPool_proofs --------------------------
(* Proofs about ThreadPool, for every number of workers, callers and tasks. *)
EXTENDS ThreadPool, FiniteSetTheorems, TLAPS

(* A worker that runs a task holds a slot of its own, marked as being      *)
(* processed and not empty; nobody else holds slots.                       *)
SlotsHeld ==
    /\ \A w \in Workers : job[w] # NoSlot => tasks[job[w]].is_being_processed
    /\ \A v, w \in Workers : job[v] # NoSlot /\ job[v] = job[w] => v = w
    /\ \A c \in Callers : job[c] = NoSlot
    /\ \A s \in Slots : tasks[s].is_being_processed => ~is_empty(s)

(* A worker without a slot is in its loop, or has left it for good.        *)
LoopStates ==
    /\ \A w \in Workers : job[w] = NoSlot <=> state[w] \in {"idle", "gone"}
    /\ \A w \in Workers : state[w] = "gone" => we_are_destructing

(* Once the pool is being destroyed it is empty and nobody can fill it.    *)
NobodyLeft ==
    we_are_destructing =>
        /\ \A s \in Slots : is_empty(s)
        /\ \A c \in Callers \ {Owner} : state[c] = "done"
        /\ state[Owner] \in {"join", "done", "aborted"}

(* The others are done from the moment the destructor is called.           *)
OthersDone ==
    state[Owner] \in {"shutdown", "join", "done", "aborted"} =>
        \A c \in Callers \ {Owner} : state[c] = "done"

PoolInv == TypeOK /\ SlotsHeld /\ LoopStates /\ NobodyLeft /\ OthersDone

-----------------------------------------------------------------------------

(* The task whose body a thread runs is a task number, or 0 outside bodies. *)
LEMMA CurrentTaskType ==
    ASSUME PoolInv, NEW t \in Threads
    PROVE  CurrentTask(t) \in 0 .. MaxTasks
<1>1. CASE inline[t] # << >>
  <2>1. inline[t] \in Seq(Tasks)
    BY DEF PoolInv, TypeOK
  <2>2. inline[t][Len(inline[t])] \in Tasks
    BY <1>1, <2>1
  <2>3. QED
    BY <1>1, <2>2, BoundsAssumption DEF CurrentTask, Tasks
<1>2. CASE inline[t] = << >> /\ job[t] # NoSlot
  <2>1. job[t] \in Slots
    BY <1>2 DEF PoolInv, TypeOK
  <2>2. tasks[job[t]].task_id \in 0 .. MaxTasks
    BY <2>1 DEF PoolInv, TypeOK, TaskStates
  <2>3. QED
    BY <1>2, <2>2 DEF CurrentTask
<1>3. CASE inline[t] = << >> /\ job[t] = NoSlot
  BY <1>3, BoundsAssumption DEF CurrentTask
<1>4. QED
  BY <1>1, <1>2, <1>3

(* A body that is about to end belongs to a task. *)
LEMMA RunningBodyIsATask ==
    ASSUME PoolInv, NEW t \in Threads, job[t] # NoSlot \/ inline[t] # << >>
    PROVE  CurrentTask(t) \in Tasks
<1>1. CASE inline[t] # << >>
  <2>1. inline[t] \in Seq(Tasks)
    BY DEF PoolInv, TypeOK
  <2>2. inline[t][Len(inline[t])] \in Tasks
    BY <1>1, <2>1
  <2>3. QED
    BY <1>1, <2>2 DEF CurrentTask
<1>2. CASE inline[t] = << >>
  <2>1. t \in Workers /\ job[t] \in Slots
    BY <1>2 DEF PoolInv, TypeOK, SlotsHeld, Threads
  <2>2. tasks[job[t]].task_id # 0
    BY <1>2, <2>1 DEF PoolInv, SlotsHeld, is_empty
  <2>3. tasks[job[t]].task_id \in 0 .. MaxTasks
    BY <2>1 DEF PoolInv, TypeOK, TaskStates
  <2>4. QED
    BY <1>2, <2>2, <2>3, BoundsAssumption DEF CurrentTask, Tasks
<1>3. QED
  BY <1>1, <1>2

(* The pool starts with every slot empty and every worker in its loop. *)
LEMMA InitPoolInv == Init => PoolInv
<1> SUFFICES ASSUME Init PROVE PoolInv
  OBVIOUS
<1>1. /\ tasks \in [Slots -> TaskStates]
      /\ job \in [Threads -> Slots \cup {NoSlot}]
      /\ inline \in [Threads -> Seq(Tasks)]
      /\ state \in [Threads -> States]
  BY BoundsAssumption DEF Init, TaskStates, States
<1>2. /\ awaited \in [Threads -> 0 .. MaxTasks]
      /\ blocked \subseteq Threads
      /\ next_task \in 1 .. MaxTasks + 1
      /\ owner \in [Tasks -> Threads \cup {NoThread}]
      /\ parent \in [Tasks -> 0 .. MaxTasks]
      /\ finished \subseteq Tasks
  BY BoundsAssumption DEF Init
<1>3. we_are_destructing = FALSE
  BY DEF Init
<1>4. TypeOK
  BY <1>1, <1>2, <1>3 DEF TypeOK
<1>5. SlotsHeld /\ LoopStates
  BY <1>3, ThreadsAssumption
     DEF Init, SlotsHeld, LoopStates, Threads, is_empty
<1>6. NobodyLeft /\ OthersDone
  BY <1>3, ThreadsAssumption DEF Init, NobodyLeft, OthersDone, Threads
<1>7. QED
  BY <1>4, <1>5, <1>6 DEF PoolInv

(* What a submission records about the new task keeps its type. *)
LEMMA SubmittedType ==
    ASSUME PoolInv, NEW t \in Threads, Submitted(t)
    PROVE  /\ next_task \in Tasks
           /\ next_task' \in 1 .. MaxTasks + 1
           /\ owner' \in [Tasks -> Threads \cup {NoThread}]
           /\ parent' \in [Tasks -> 0 .. MaxTasks]
<1>1. CurrentTask(t) \in 0 .. MaxTasks
  BY CurrentTaskType
<1>2. QED
  BY <1>1, BoundsAssumption DEF Submitted, PoolInv, TypeOK, Tasks

(* While a thread is in its own code, or in add_task or a wait, nobody has *)
(* begun to stop the workers.                                              *)
Using == {"run", "add", "wait", "wait_task"}

LEMMA UsedPoolIsAlive ==
    ASSUME PoolInv, NEW t \in Threads, state[t] \in Using
    PROVE  ~we_are_destructing
<1>1. CASE t \in Workers
  BY <1>1, Zenon DEF PoolInv, NobodyLeft, LoopStates, SlotsHeld, Using, TypeOK
<1>2. CASE t \in Callers
  BY <1>2, ThreadsAssumption DEF PoolInv, NobodyLeft, Using
<1>3. QED
  BY <1>1, <1>2 DEF Threads

(* A thread that moves between its own code, add_task and the waits, and   *)
(* changes no slot and no task, keeps the invariant.                       *)
LEMMA UserStateInv ==
    ASSUME PoolInv, NEW t \in Threads, NEW st \in Using,
           state[t] \in Using, Become(t, st),
           blocked' \subseteq Threads,
           awaited' \in [Threads -> 0 .. MaxTasks],
           UNCHANGED <<tasks, job, inline, we_are_destructing, next_task,
                       owner, parent, finished>>
    PROVE  PoolInv'
<1>1. ~we_are_destructing
  BY UsedPoolIsAlive
<1>2. /\ state' \in [Threads -> States]
      /\ \A u \in Threads : u # t => state'[u] = state[u]
      /\ state'[t] = st
  BY DEF PoolInv, TypeOK, Become, States, Using
<1>3. TypeOK'
  BY <1>2 DEF PoolInv, TypeOK
<1>4. SlotsHeld'
  BY DEF PoolInv, SlotsHeld, is_empty
<1>5. LoopStates' /\ NobodyLeft'
  BY <1>1, <1>2 DEF PoolInv, LoopStates, NobodyLeft, Threads, Using
<1>6. OthersDone'
  BY <1>2, ThreadsAssumption DEF PoolInv, OthersDone, Threads, Using
<1>7. QED
  BY <1>3, <1>4, <1>5, <1>6 DEF PoolInv

(* Filling an empty slot: only callers, or workers with a slot, fill one,  *)
(* and never after the destructor began to join.                           *)
LEMMA FillSlotInv ==
    ASSUME PoolInv, NEW t \in Threads, NEW s \in Slots, FillSlot(t, s),
           state[t] \in {"run", "add"},
           UNCHANGED <<awaited, we_are_destructing, finished>>
    PROVE  PoolInv'
<1>1. ~we_are_destructing
  BY UsedPoolIsAlive DEF Using
<1>2. blocked' \subseteq Threads
  BY DEF PoolInv, TypeOK, FillSlot, SignalReady, task_ready_waiters
<1>3. /\ next_task \in Tasks /\ next_task \in 1 .. MaxTasks
      /\ next_task' \in 1 .. MaxTasks + 1
      /\ owner' \in [Tasks -> Threads \cup {NoThread}]
      /\ parent' \in [Tasks -> 0 .. MaxTasks]
  BY SubmittedType DEF FillSlot, Tasks
<1>4. /\ tasks' \in [Slots -> TaskStates]
      /\ \A u \in Slots : tasks'[u].is_being_processed
                            = tasks[u].is_being_processed
      /\ \A u \in Slots : tasks'[u].task_id = 0 => is_empty(u)
  <2>1. tasks' = [tasks EXCEPT ![s] = [@ EXCEPT !.task_id = next_task,
                                                !.thread_id = t]]
    BY DEF FillSlot, PoolInv, TypeOK, TaskStates
  <2>2. /\ tasks \in [Slots -> TaskStates] /\ tasks[s] \in TaskStates
        /\ next_task \in 0 .. MaxTasks /\ next_task # 0
    BY <1>3 DEF PoolInv, TypeOK
  <2>3. /\ [tasks[s] EXCEPT !.task_id = next_task, !.thread_id = t] \in TaskStates
        /\ [tasks[s] EXCEPT !.task_id = next_task, !.thread_id = t]
                .is_being_processed = tasks[s].is_being_processed
        /\ [tasks[s] EXCEPT !.task_id = next_task, !.thread_id = t].task_id
                = next_task
    BY <2>2 DEF TaskStates
  <2>4. QED
    BY <2>1, <2>2, <2>3 DEF is_empty
<1>5. /\ state' \in [Threads -> States]
      /\ \A u \in Threads : u # t => state'[u] = state[u]
      /\ state'[t] = "run"
  BY DEF PoolInv, TypeOK, FillSlot, Become, States
<1>6. UNCHANGED <<job, inline, awaited, we_are_destructing, finished>>
  BY DEF FillSlot
<1>7. TypeOK'
  BY <1>2, <1>3, <1>4, <1>5, <1>6 DEF PoolInv, TypeOK
<1>8. SlotsHeld'
  BY <1>4, <1>6 DEF PoolInv, TypeOK, SlotsHeld, is_empty, Threads
<1>9. LoopStates' /\ NobodyLeft'
  BY <1>1, <1>5, <1>6 DEF PoolInv, LoopStates, NobodyLeft, Threads
<1>10. OthersDone'
  BY <1>1, <1>5, ThreadsAssumption DEF PoolInv, OthersDone, Threads
<1>11. QED
  BY <1>7, <1>8, <1>9, <1>10 DEF PoolInv

(* A task run inside add_task only lengthens the caller's own stack. *)
LEMMA RunInlineInv ==
    ASSUME PoolInv, NEW t \in Threads, RunInline(t),
           UNCHANGED <<awaited, we_are_destructing, finished>>
    PROVE  PoolInv'
<1>1. /\ next_task \in Tasks
      /\ next_task' \in 1 .. MaxTasks + 1
      /\ owner' \in [Tasks -> Threads \cup {NoThread}]
      /\ parent' \in [Tasks -> 0 .. MaxTasks]
  BY SubmittedType DEF RunInline
<1>2. inline' \in [Threads -> Seq(Tasks)]
  BY <1>1 DEF RunInline, PoolInv, TypeOK
<1>3. UNCHANGED <<tasks, job, state, blocked>>
  BY DEF RunInline
<1>4. TypeOK'
  BY <1>1, <1>2, <1>3 DEF PoolInv, TypeOK
<1>5. SlotsHeld' /\ LoopStates' /\ NobodyLeft' /\ OthersDone'
  BY <1>3 DEF PoolInv, SlotsHeld, LoopStates, NobodyLeft, OthersDone, is_empty
<1>6. QED
  BY <1>4, <1>5 DEF PoolInv

LEMMA AwaitSlotInv ==
    ASSUME PoolInv, NEW t \in Threads, AwaitSlot(t), state[t] \in Using,
           UNCHANGED <<awaited, we_are_destructing, finished>>
    PROVE  PoolInv'
<1>1. blocked' \subseteq Threads
  BY DEF AwaitSlot, PoolInv, TypeOK
<1>2. QED
  BY <1>1, UserStateInv DEF AwaitSlot, Using, PoolInv, TypeOK

(* add_task, at the call and after each wake-up. *)
LEMMA AddTaskInv ==
    ASSUME PoolInv, NEW t \in Threads, add_task(t) \/ add_task_woken(t)
    PROVE  PoolInv'
<1>1. /\ state[t] \in {"run", "add"}
      /\ UNCHANGED <<awaited, we_are_destructing, finished>>
  BY DEF add_task, add_task_woken
<1>2. \/ \E s \in Slots : FillSlot(t, s)
      \/ RunInline(t) \/ AwaitSlot(t)
  BY DEF add_task, add_task_woken
<1>3. QED
  BY <1>1, <1>2, FillSlotInv, RunInlineInv, AwaitSlotInv DEF Using

(* A wait that is over may take one trapped exception out of the pool. *)
LEMMA WaitWhileInv ==
    ASSUME PoolInv, NEW t \in Threads, NEW pending \in BOOLEAN,
           state[t] \in Using, WaitWhile(t, pending)
    PROVE  PoolInv'
<1>1. UNCHANGED <<job, inline, we_are_destructing, next_task, owner, parent,
                  finished>>
  BY DEF WaitWhile
<1>2. CASE /\ blocked' = blocked \cup {t}
           /\ UNCHANGED <<tasks, state, awaited>>
  BY <1>1, <1>2 DEF PoolInv, TypeOK, SlotsHeld, LoopStates, NobodyLeft,
     OthersDone, is_empty
<1>3. CASE /\ PropagateException
           /\ Become(t, "run")
           /\ awaited' = [awaited EXCEPT ![t] = 0]
           /\ UNCHANGED blocked
  <2>1. /\ tasks' \in [Slots -> TaskStates]
        /\ \A u \in Slots :
              /\ tasks'[u].is_being_processed = tasks[u].is_being_processed
              /\ tasks'[u].task_id = tasks[u].task_id
    <3>1. CASE UNCHANGED tasks
      BY <3>1 DEF PoolInv, TypeOK
    <3>2. CASE \E s \in Slots : tasks' = [tasks EXCEPT ![s].eptr = FALSE]
      <4>1. PICK s \in Slots : tasks' = [tasks EXCEPT ![s].eptr = FALSE]
        BY <3>2
      <4>2. tasks' = [tasks EXCEPT ![s] = [@ EXCEPT !.eptr = FALSE]]
        BY <4>1 DEF PoolInv, TypeOK
      <4>3. tasks \in [Slots -> TaskStates] /\ tasks[s] \in TaskStates
        BY DEF PoolInv, TypeOK
      <4>4. LET new == [tasks[s] EXCEPT !.eptr = FALSE]
            IN  /\ new \in TaskStates
                /\ new.is_being_processed = tasks[s].is_being_processed
                /\ new.task_id = tasks[s].task_id
        BY <4>3 DEF TaskStates
      <4>5. QED
        BY <4>2, <4>3, <4>4
    <3>3. QED
      BY <1>3, <3>1, <3>2 DEF PropagateException
  <2>2. ~we_are_destructing
    BY UsedPoolIsAlive
  <2>3. /\ state' \in [Threads -> States]
        /\ \A u \in Threads : u # t => state'[u] = state[u]
        /\ state'[t] = "run"
    BY <1>3 DEF PoolInv, TypeOK, Become, States
  <2>4. TypeOK'
    <3>1. awaited' \in [Threads -> 0 .. MaxTasks] /\ blocked' = blocked
      BY <1>3, BoundsAssumption DEF PoolInv, TypeOK
    <3>2. QED
      BY <1>1, <2>1, <2>3, <3>1 DEF PoolInv, TypeOK
  <2>5. SlotsHeld'
    BY <1>1, <2>1 DEF PoolInv, TypeOK, SlotsHeld, is_empty, Threads
  <2>6. LoopStates' /\ NobodyLeft'
    BY <1>1, <2>2, <2>3 DEF PoolInv, LoopStates, NobodyLeft, Threads, Using
  <2>7. OthersDone'
    BY <2>3, ThreadsAssumption DEF PoolInv, OthersDone, Threads, Using
  <2>8. QED
    BY <2>4, <2>5, <2>6, <2>7 DEF PoolInv
<1>4. QED
  BY <1>2, <1>3 DEF WaitWhile

(* The calls that start a wait. *)
LEMMA CallWaitInv ==
    ASSUME PoolInv, NEW t \in Threads,
           CallWaitForAll(t) \/ \E k \in Tasks : CallWaitForTask(t, k)
    PROVE  PoolInv'
<1>1. CASE CallWaitForAll(t)
  BY <1>1, UserStateInv DEF CallWaitForAll, Using, PoolInv, TypeOK
<1>2. ASSUME NEW k \in Tasks, CallWaitForTask(t, k) PROVE PoolInv'
  <2>1. awaited' \in [Threads -> 0 .. MaxTasks]
    BY <1>2, BoundsAssumption DEF CallWaitForTask, PoolInv, TypeOK, Tasks
  <2>2. QED
    BY <1>2, <2>1, UserStateInv DEF CallWaitForTask, Using, PoolInv, TypeOK
<1>3. QED
  BY <1>1, <1>2

(* The waits, at each wake-up. *)
LEMMA WaitInv ==
    ASSUME PoolInv, NEW t \in Threads,
           wait_for_all_tasks(t) \/ wait_for_task(t)
    PROVE  PoolInv'
<1>1. CASE wait_for_all_tasks(t)
  <2>1. OwnTaskPending(t) \in BOOLEAN
    BY DEF OwnTaskPending
  <2>2. QED
    BY <1>1, <2>1, WaitWhileInv DEF wait_for_all_tasks, Using
<1>2. CASE wait_for_task(t)
  <2>1. (\E s \in Slots : tasks[s].task_id = awaited[t]) \in BOOLEAN
    OBVIOUS
  <2>2. QED
    BY <1>2, <2>1, WaitWhileInv DEF wait_for_task, Using
<1>3. QED
  BY <1>1, <1>2

(* A worker takes a slot nobody processes, so slots stay one per worker. *)
LEMMA ClaimTaskInv ==
    ASSUME PoolInv, NEW w \in Workers, ClaimTask(w)
    PROVE  PoolInv'
<1>1. /\ state[w] = "idle" /\ job[w] = NoSlot /\ w \in Threads
      /\ w \notin Callers
  BY ThreadsAssumption DEF ClaimTask, PoolInv, LoopStates, Threads
<1>2. UNCHANGED <<inline, awaited, we_are_destructing, next_task, owner,
                  parent, finished>>
  BY DEF ClaimTask
<1>3. CASE /\ we_are_destructing
           /\ Become(w, "gone")
           /\ UNCHANGED <<tasks, job, blocked>>
  <2>1. /\ state' \in [Threads -> States]
        /\ \A u \in Threads : u # w => state'[u] = state[u]
        /\ state'[w] = "gone"
    BY <1>1, <1>3 DEF PoolInv, TypeOK, Become, States
  <2>2. TypeOK'
    BY <1>2, <1>3, <2>1 DEF PoolInv, TypeOK
  <2>3. SlotsHeld' /\ LoopStates'
    BY <1>1, <1>2, <1>3, <2>1 DEF PoolInv, SlotsHeld, LoopStates, is_empty,
       Threads
  <2>4. NobodyLeft' /\ OthersDone'
    BY <1>1, <1>2, <1>3, <2>1, ThreadsAssumption
       DEF PoolInv, NobodyLeft, OthersDone, is_empty, Threads
  <2>5. QED
    BY <2>2, <2>3, <2>4 DEF PoolInv
<1>4. ASSUME ~we_are_destructing, NEW s \in Slots, is_ready(s),
             tasks' = [tasks EXCEPT ![s].is_being_processed = TRUE],
             job' = [job EXCEPT ![w] = s],
             Become(w, "run"), UNCHANGED blocked
      PROVE  PoolInv'
  <2>1. /\ state' \in [Threads -> States]
        /\ \A u \in Threads : u # w => state'[u] = state[u]
        /\ state'[w] = "run"
    BY <1>1, <1>4 DEF PoolInv, TypeOK, Become, States
  <2>2. /\ tasks' = [tasks EXCEPT ![s] =
                        [@ EXCEPT !.is_being_processed = TRUE]]
        /\ tasks \in [Slots -> TaskStates] /\ tasks[s] \in TaskStates
    BY <1>4 DEF PoolInv, TypeOK
  <2>3. /\ [tasks[s] EXCEPT !.is_being_processed = TRUE] \in TaskStates
        /\ [tasks[s] EXCEPT !.is_being_processed = TRUE].is_being_processed
        /\ [tasks[s] EXCEPT !.is_being_processed = TRUE].task_id
              = tasks[s].task_id
    BY <2>2 DEF TaskStates
  <2>4. /\ tasks' \in [Slots -> TaskStates]
        /\ \A u \in Slots : tasks'[u].task_id = tasks[u].task_id
        /\ \A u \in Slots : u # s => tasks'[u] = tasks[u]
        /\ tasks'[s].is_being_processed
    BY <2>2, <2>3
  <2>5. /\ job' \in [Threads -> Slots \cup {NoSlot}]
        /\ \A u \in Threads : u # w => job'[u] = job[u]
        /\ job'[w] = s /\ s # NoSlot
    BY <1>1, <1>4, PoolAssumption DEF PoolInv, TypeOK
  <2>6. TypeOK'
    BY <1>2, <1>4, <2>1, <2>4, <2>5 DEF PoolInv, TypeOK
  <2>7. \A v \in Workers : v # w => job[v] # s
    BY <1>4, PoolAssumption DEF PoolInv, SlotsHeld, is_ready
  <2>8. SlotsHeld'
    BY <1>1, <1>4, <2>4, <2>5, <2>7
       DEF PoolInv, SlotsHeld, is_ready, is_empty, Threads
  <2>9. LoopStates' /\ NobodyLeft'
    BY <1>1, <1>2, <1>4, <2>1, <2>5
       DEF PoolInv, LoopStates, NobodyLeft, Threads
  <2>10. OthersDone'
    BY <1>1, <2>1, ThreadsAssumption DEF PoolInv, OthersDone, Threads
  <2>11. QED
    BY <2>6, <2>8, <2>9, <2>10 DEF PoolInv
<1>5. CASE /\ blocked' = blocked \cup {w}
           /\ UNCHANGED <<tasks, job, state>>
  BY <1>1, <1>2, <1>5 DEF PoolInv, TypeOK, SlotsHeld, LoopStates, NobodyLeft,
     OthersDone, is_empty
<1>6. QED
  BY <1>3, <1>4, <1>5 DEF ClaimTask

(* A worker that ends a body gives its slot back. *)
LEMMA FinishTaskInv ==
    ASSUME PoolInv, NEW w \in Workers, FinishTask(w)
    PROVE  PoolInv'
<1> DEFINE s == job[w]
<1>1. /\ state[w] = "run" /\ s \in Slots /\ s # NoSlot /\ w \in Threads
      /\ w \notin Callers /\ ~we_are_destructing
  BY ThreadsAssumption, PoolAssumption, UsedPoolIsAlive
     DEF FinishTask, PoolInv, TypeOK, Threads, Using
<1>2. /\ job' = [job EXCEPT ![w] = NoSlot]
      /\ blocked' \subseteq Threads
      /\ UNCHANGED <<inline, awaited, we_are_destructing, next_task, owner,
                     parent>>
  BY DEF FinishTask, task_ready_waiters, PoolInv, TypeOK
<1>3. finished' \subseteq Tasks
  BY <1>1, RunningBodyIsATask DEF FinishTask, PoolInv, TypeOK
<1>4. /\ state' \in [Threads -> States]
      /\ \A u \in Threads : u # w => state'[u] = state[u]
      /\ state'[w] = "idle"
  BY <1>1 DEF FinishTask, PoolInv, TypeOK, Become, States
<1>5. /\ tasks' \in [Slots -> TaskStates]
      /\ \A u \in Slots : u # s => tasks'[u] = tasks[u]
      /\ ~tasks'[s].is_being_processed
  <2>1. PICK threw \in BOOLEAN :
            tasks' = [tasks EXCEPT ![s].task_id = 0,
                                   ![s].is_being_processed = FALSE,
                                   ![s].eptr = threw]
    BY DEF FinishTask
  <2> DEFINE emptied == [tasks[s] EXCEPT !.task_id = 0]
             released == [emptied EXCEPT !.is_being_processed = FALSE]
             new == [released EXCEPT !.eptr = threw]
  <2>2. tasks \in [Slots -> TaskStates] /\ tasks[s] \in TaskStates
    BY <1>1 DEF PoolInv, TypeOK
  <2>3. emptied \in TaskStates
    BY <2>2, BoundsAssumption DEF TaskStates
  <2>4. released \in TaskStates /\ ~released.is_being_processed
    BY <2>3 DEF TaskStates
  <2>5. new \in TaskStates /\ ~new.is_being_processed
    BY <2>4 DEF TaskStates
  <2>6. tasks' = [tasks EXCEPT ![s] = new]
    BY <2>1, <2>2
  <2>7. QED
    BY <1>1, <2>2, <2>5, <2>6
<1>6. TypeOK'
  BY <1>2, <1>3, <1>4, <1>5 DEF PoolInv, TypeOK
<1>7. /\ \A u \in Threads : u # w => job'[u] = job[u]
      /\ job'[w] = NoSlot
  BY <1>1, <1>2 DEF PoolInv, TypeOK
<1>8. SlotsHeld'
  <2>1. \A v \in Workers : v # w => job[v] # s
    BY <1>1 DEF PoolInv, SlotsHeld
  <2>2. \A u \in Slots : tasks'[u].is_being_processed
                           => u # s /\ tasks'[u] = tasks[u]
    BY <1>5
  <2>3. \A v \in Workers : job'[v] # NoSlot
            => job'[v] = job[v] /\ job[v] # s /\ job[v] \in Slots
    BY <1>7, <2>1 DEF PoolInv, TypeOK, Threads
  <2>4. \A c \in Callers : job'[c] = NoSlot
    BY <1>1, <1>7 DEF PoolInv, SlotsHeld, Threads
  <2>5. QED
    BY <1>5, <2>2, <2>3, <2>4 DEF PoolInv, SlotsHeld, is_empty
<1>9. LoopStates' /\ NobodyLeft'
  BY <1>1, <1>2, <1>4, <1>7 DEF PoolInv, LoopStates, NobodyLeft, Threads
<1>10. OthersDone'
  BY <1>1, <1>4, ThreadsAssumption DEF PoolInv, OthersDone, Threads
<1>11. QED
  BY <1>6, <1>8, <1>9, <1>10 DEF PoolInv

(* A body run inside add_task leaves the stack it was put on. *)
LEMMA ReturnInlineInv ==
    ASSUME PoolInv, NEW t \in Threads, ReturnInline(t)
    PROVE  PoolInv'
<1>1. /\ inline[t] \in Seq(Tasks) /\ inline[t] # << >>
      /\ inline' = [inline EXCEPT ![t] = SubSeq(@, 1, Len(@) - 1)]
  BY DEF ReturnInline, PoolInv, TypeOK
<1>2. SubSeq(inline[t], 1, Len(inline[t]) - 1) \in Seq(Tasks)
  BY <1>1
<1>3. inline' \in [Threads -> Seq(Tasks)]
  BY <1>1, <1>2 DEF PoolInv, TypeOK
<1>4. finished' \subseteq Tasks
  BY <1>1, RunningBodyIsATask DEF ReturnInline, PoolInv, TypeOK
<1>5. UNCHANGED <<tasks, job, state, awaited, blocked, we_are_destructing,
                  next_task, owner, parent>>
  BY DEF ReturnInline
<1>6. TypeOK'
  BY <1>3, <1>4, <1>5 DEF PoolInv, TypeOK
<1>7. SlotsHeld' /\ LoopStates' /\ NobodyLeft' /\ OthersDone'
  BY <1>5 DEF PoolInv, SlotsHeld, LoopStates, NobodyLeft, OthersDone, is_empty
<1>8. QED
  BY <1>6, <1>7 DEF PoolInv

(* A step that changes only where a caller is, towards the end of its use  *)
(* of the pool, keeps everything said about slots and workers.             *)
LEMMA CallerStateType ==
    ASSUME PoolInv, NEW c \in Callers, NEW st \in States, Become(c, st),
           blocked' \subseteq Threads, we_are_destructing' \in BOOLEAN,
           we_are_destructing => we_are_destructing',
           UNCHANGED <<tasks, job, inline, awaited, next_task, owner, parent,
                       finished>>
    PROVE  /\ TypeOK' /\ SlotsHeld' /\ LoopStates'
           /\ \A u \in Threads : u # c => state'[u] = state[u]
           /\ state'[c] = st
<1>1. /\ state' \in [Threads -> States]
      /\ \A u \in Threads : u # c => state'[u] = state[u]
      /\ state'[c] = st
  BY DEF PoolInv, TypeOK, Become, Threads
<1>2. TypeOK'
  BY <1>1 DEF PoolInv, TypeOK
<1>3. SlotsHeld'
  BY DEF PoolInv, SlotsHeld, is_empty
<1>4. LoopStates'
  BY <1>1, ThreadsAssumption DEF PoolInv, LoopStates, Threads
<1>5. QED
  BY <1>1, <1>2, <1>3, <1>4

(* The end of the pool: callers leave, the owner waits until every slot is *)
(* empty, stops the workers and joins them.                                *)
LEMMA ShutdownInv ==
    ASSUME PoolInv,
           \/ \E c \in Callers : Leave(c)
           \/ CallShutdown \/ shutdown_pool \/ JoinWorkers
    PROVE  PoolInv'
<1> USE ThreadsAssumption
<1>1. ASSUME NEW c \in Callers, Leave(c) PROVE PoolInv'
  <2>1. /\ c # Owner /\ Become(c, "done") /\ "done" \in States
        /\ blocked' \subseteq Threads /\ we_are_destructing' \in BOOLEAN
        /\ UNCHANGED <<tasks, job, inline, awaited, we_are_destructing,
                       next_task, owner, parent, finished>>
    BY <1>1 DEF Leave, States, PoolInv, TypeOK
  <2>2. /\ TypeOK' /\ SlotsHeld' /\ LoopStates'
        /\ \A u \in Threads : u # c => state'[u] = state[u]
        /\ state'[c] = "done"
    BY <2>1, CallerStateType
  <2>3. NobodyLeft' /\ OthersDone'
    BY <2>1, <2>2 DEF PoolInv, NobodyLeft, OthersDone, is_empty, Threads
  <2>4. QED
    BY <2>2, <2>3 DEF PoolInv
<1>2. CASE CallShutdown
  <2>1. /\ Become(Owner, "shutdown") /\ "shutdown" \in States
        /\ \A c \in Callers \ {Owner} : state[c] = "done"
        /\ blocked' \subseteq Threads /\ we_are_destructing' \in BOOLEAN
        /\ UNCHANGED <<tasks, job, inline, awaited, we_are_destructing,
                       next_task, owner, parent, finished>>
    BY <1>2 DEF CallShutdown, States, PoolInv, TypeOK
  <2>2. ~we_are_destructing
    BY <1>2 DEF CallShutdown, PoolInv, NobodyLeft
  <2>3. /\ TypeOK' /\ SlotsHeld' /\ LoopStates'
        /\ \A u \in Threads : u # Owner => state'[u] = state[u]
    BY <2>1, CallerStateType
  <2>4. NobodyLeft' /\ OthersDone'
    BY <2>1, <2>2, <2>3 DEF NobodyLeft, OthersDone, Threads
  <2>5. QED
    BY <2>3, <2>4 DEF PoolInv
<1>3. CASE shutdown_pool
  <2>1. CASE /\ blocked' = blocked \cup {Owner}
             /\ UNCHANGED <<state, we_are_destructing>>
    BY <1>3, <2>1 DEF shutdown_pool, PoolInv, TypeOK, SlotsHeld, LoopStates,
       NobodyLeft, OthersDone, is_empty, Threads
  <2>2. CASE /\ \A s \in Slots : is_empty(s)
             /\ we_are_destructing' = TRUE
             /\ blocked' = task_done_waiters
             /\ Become(Owner, "join")
    <3>1. /\ "join" \in States
          /\ blocked' \subseteq Threads /\ we_are_destructing' \in BOOLEAN
      BY <2>2 DEF States, PoolInv, TypeOK, task_done_waiters
    <3>2. UNCHANGED <<tasks, job, inline, awaited, next_task, owner, parent,
                      finished>>
      BY <1>3 DEF shutdown_pool
    <3>3. /\ TypeOK' /\ SlotsHeld' /\ LoopStates'
          /\ \A u \in Threads : u # Owner => state'[u] = state[u]
          /\ state'[Owner] = "join"
      BY <2>2, <3>1, <3>2, CallerStateType
    <3>4. \A c \in Callers \ {Owner} : state[c] = "done"
      BY <1>3 DEF shutdown_pool, PoolInv, OthersDone
    <3>5. NobodyLeft' /\ OthersDone'
      BY <2>2, <3>2, <3>3, <3>4 DEF NobodyLeft, OthersDone, is_empty, Threads
    <3>6. QED
      BY <3>3, <3>5 DEF PoolInv
  <2>3. QED
    BY <1>3, <2>1, <2>2 DEF shutdown_pool
<1>4. CASE JoinWorkers
  <2>1. PICK st \in {"aborted", "done"} : Become(Owner, st)
    BY <1>4 DEF JoinWorkers
  <2>2. /\ st \in States /\ state[Owner] = "join"
        /\ blocked' \subseteq Threads /\ we_are_destructing' \in BOOLEAN
        /\ UNCHANGED <<tasks, job, inline, awaited, we_are_destructing,
                       next_task, owner, parent, finished>>
    BY <1>4 DEF JoinWorkers, States, PoolInv, TypeOK
  <2>3. /\ TypeOK' /\ SlotsHeld' /\ LoopStates'
        /\ \A u \in Threads : u # Owner => state'[u] = state[u]
        /\ state'[Owner] = st
    BY <2>1, <2>2, CallerStateType
  <2>4. NobodyLeft' /\ OthersDone'
    BY <2>2, <2>3 DEF PoolInv, NobodyLeft, OthersDone, is_empty, Threads
  <2>5. QED
    BY <2>3, <2>4 DEF PoolInv
<1>5. QED
  BY <1>1, <1>2, <1>3, <1>4

(* A spurious wake-up changes nothing but who sleeps. *)
LEMMA SpuriousWakeupInv ==
    ASSUME PoolInv, NEW t \in Threads, SpuriousWakeup(t)
    PROVE  PoolInv'
BY DEF SpuriousWakeup, PoolInv, TypeOK, SlotsHeld, LoopStates, NobodyLeft,
   OthersDone, is_empty

(* PoolInv is inductive. *)
LEMMA NextPoolInv == PoolInv /\ [Next]_vars => PoolInv'
<1> SUFFICES ASSUME PoolInv, [Next]_vars PROVE PoolInv'
  OBVIOUS
<1>1. ASSUME NEW t \in Threads, UserStep(t) PROVE PoolInv'
  BY <1>1, AddTaskInv, CallWaitInv DEF UserStep
<1>2. ASSUME NEW t \in Threads, PoolStep(t) PROVE PoolInv'
  BY <1>2, AddTaskInv, WaitInv DEF PoolStep
<1>3. ASSUME NEW t \in Threads, ReturnInline(t) \/ SpuriousWakeup(t)
      PROVE  PoolInv'
  BY <1>3, ReturnInlineInv, SpuriousWakeupInv
<1>4. ASSUME NEW w \in Workers, ClaimTask(w) \/ FinishTask(w) PROVE PoolInv'
  BY <1>4, ClaimTaskInv, FinishTaskInv
<1>5. CASE \/ \E c \in Callers : Leave(c)
           \/ CallShutdown \/ shutdown_pool \/ JoinWorkers
  BY <1>5, ShutdownInv
<1>6. CASE UNCHANGED vars
  BY <1>6 DEF vars, PoolInv, TypeOK, SlotsHeld, LoopStates, NobodyLeft,
     OthersDone, is_empty
<1>7. CASE Terminated
  BY <1>6, <1>7 DEF Terminated
<1>8. QED
  BY <1>1, <1>2, <1>3, <1>4, <1>5, <1>6, <1>7 DEF Next

(* Every variable of the pool keeps its type. *)
THEOREM TypeCorrect == Spec => []TypeOK
<1>1. PoolInv => TypeOK
  BY DEF PoolInv
<1>2. QED
  BY <1>1, InitPoolInv, NextPoolInv, PTL DEF Spec

-----------------------------------------------------------------------------

(* The pigeonhole behind the pool: as many slots as workers, one slot per  *)
(* busy worker, so a slot that is ready leaves some worker without one.    *)
LEMMA FreeWorker ==
    ASSUME PoolInv, NEW s \in Slots, is_ready(s)
    PROVE  \E w \in Workers : job[w] = NoSlot
<1> SUFFICES ASSUME \A w \in Workers : job[w] # NoSlot PROVE FALSE
  OBVIOUS
<1> DEFINE held == [w \in Workers |-> job[w]]
<1>1. \A w \in Workers : job[w] \in Slots \ {s}
  BY DEF PoolInv, TypeOK, SlotsHeld, is_ready, Threads
<1>2. held \in [Workers -> Slots \ {s}]
  BY <1>1
<1>3. /\ IsFiniteSet(Slots \ {s})
      /\ Cardinality(Slots \ {s}) = Cardinality(Slots) - 1
  BY PoolAssumption, FS_RemoveElement
<1>4. /\ Cardinality(Workers) \in Nat
      /\ Cardinality(Slots \ {s}) < Cardinality(Workers)
  BY <1>3, PoolAssumption, FS_CardinalityType
<1>5. PICK v \in Workers, w \in Workers : v # w /\ held[v] = held[w]
  <2> HIDE DEF held
  <2>1. \E v, w \in Workers : v # w /\ held[v] = held[w]
    BY <1>2, <1>3, <1>4, PoolAssumption, FS_PigeonHole, Zenon
  <2>2. QED
    BY <2>1
<1>6. QED
  BY <1>5 DEF PoolInv, SlotsHeld

(* No queued task can be stuck behind workers that are all inside bodies:  *)
(* while a slot is ready, a worker is in its loop.  This is what makes     *)
(* nested submission safe, and it is why add_task may run a task inline    *)
(* only when no slot is empty.                                             *)
THEOREM ReadyTaskNeverStarves == Spec => []ReadyTaskHasIdleWorker
<1>1. ASSUME PoolInv PROVE ReadyTaskHasIdleWorker
  <2> SUFFICES ASSUME NEW s \in Slots, is_ready(s)
               PROVE  \E w \in Workers : state[w] = "idle"
    BY DEF ReadyTaskHasIdleWorker
  <2>1. PICK w \in Workers : job[w] = NoSlot
    BY <1>1, FreeWorker
  <2>2. ~we_are_destructing
    BY <1>1 DEF PoolInv, NobodyLeft, is_ready
  <2>3. QED
    BY <1>1, <2>1, <2>2 DEF PoolInv, LoopStates
<1>2. PoolInv => ReadyTaskHasIdleWorker
  BY <1>1
<1>3. QED
  BY <1>2, InitPoolInv, NextPoolInv, PTL DEF Spec

-----------------------------------------------------------------------------
(* No wake-up is lost: a count of tasks to take against workers awake.     *)

Ready == {s \in Slots : is_ready(s)}
Awake == {w \in Workers \ blocked : state[w] = "idle"}

CallersOutsideLoop == \A c \in Callers : state[c] # "idle"

WakeInv == NoLostWakeup /\ CallersOutsideLoop

LEMMA ReadyAwakeFinite ==
    /\ IsFiniteSet(Ready) /\ Cardinality(Ready) \in Nat
    /\ IsFiniteSet(Awake) /\ Cardinality(Awake) \in Nat
<1>1. Ready \subseteq Slots /\ Awake \subseteq Workers
  BY DEF Ready, Awake
<1> QED BY <1>1, PoolAssumption, FS_Subset, FS_CardinalityType

LEMMA ReadyAwakeFiniteNext ==
    /\ IsFiniteSet(Ready') /\ Cardinality(Ready') \in Nat
    /\ IsFiniteSet(Awake') /\ Cardinality(Awake') \in Nat
<1>1. Ready' \subseteq Slots /\ Awake' \subseteq Workers
  BY DEF Ready, Awake
<1> QED BY <1>1, PoolAssumption, FS_Subset, FS_CardinalityType

(* Steps that take no worker's wakefulness away and make no task ready.    *)
LEMMA MoreAwake ==
    ASSUME NoLostWakeup, Ready' \subseteq Ready, Awake \subseteq Awake'
    PROVE  NoLostWakeup'
<1>1. Cardinality(Ready') <= Cardinality(Ready)
  BY ReadyAwakeFinite, FS_Subset
<1>2. Cardinality(Awake) <= Cardinality(Awake')
  BY ReadyAwakeFiniteNext, FS_Subset
<1>3. Cardinality(Ready) <= Cardinality(Awake)
  BY DEF NoLostWakeup, Ready, Awake
<1>4. Cardinality(Ready') <= Cardinality(Awake')
  BY <1>1, <1>2, <1>3, ReadyAwakeFinite, ReadyAwakeFiniteNext
<1> QED BY <1>4 DEF NoLostWakeup, Ready, Awake

(* Busy workers hold different slots, and there are as many slots as       *)
(* workers: no more slots are left than workers.                           *)
LEMMA SlotsSuffice ==
    ASSUME NEW J, NEW R \in SUBSET Slots,
           \A w \in Workers : J[w] \in Slots \cup {NoSlot},
           \A v, w \in Workers : J[v] # NoSlot /\ J[v] = J[w] => v = w,
           \A w \in Workers : J[w] \notin R
    PROVE  Cardinality(R) <= Cardinality({w \in Workers : J[w] = NoSlot})
<1> DEFINE busy == {w \in Workers : J[w] # NoSlot}
           idle == {w \in Workers : J[w] = NoSlot}
           held == {J[w] : w \in busy}
           f == [w \in busy |-> J[w]]
<1>1. idle = Workers \ busy /\ busy \subseteq Workers /\ held \subseteq Slots
  OBVIOUS
<1>2. IsFiniteSet(busy)
  BY <1>1, PoolAssumption, FS_Subset
<1>3. f \in Bijection(busy, held)
  <2>1. f \in [busy -> held] /\ \A h \in held : \E w \in busy : f[w] = h
    OBVIOUS
  <2>2. \A v, w \in busy : f[v] = f[w] => v = w
    OBVIOUS
  <2> HIDE DEF f, held, busy
  <2> QED BY <2>1, <2>2 DEF Bijection, Injection, Surjection, IsInjective
<1>4. Cardinality(held) = Cardinality(busy) /\ IsFiniteSet(held)
  <2> HIDE DEF f, held, busy
  <2> QED BY <1>2, <1>3, FS_Bijection DEF ExistsBijection
<1>5. R \subseteq Slots \ held
  OBVIOUS
<1> HIDE DEF f, held, busy, idle
<1>6. Cardinality(idle) = Cardinality(Workers) - Cardinality(busy)
  <2>1. Workers \cap busy = busy
    BY <1>1
  <2> QED BY <1>1, <2>1, PoolAssumption, FS_Difference
<1>7. Cardinality(Slots \ held) = Cardinality(Slots) - Cardinality(held)
  <2>1. Slots \cap held = held
    BY <1>1
  <2> QED BY <2>1, PoolAssumption, FS_Difference
<1>8. Cardinality(R) <= Cardinality(Slots \ held)
  BY <1>5, PoolAssumption, FS_Subset
<1>9. Cardinality(R) <= Cardinality(idle)
  BY <1>4, <1>6, <1>7, <1>8, PoolAssumption
<1> QED BY <1>9 DEF idle

(* So no more slots are ready than workers are in their loop.              *)
LEMMA ReadyFitIdleNext ==
    ASSUME PoolInv', ~we_are_destructing'
    PROVE  Cardinality(Ready') <= Cardinality({w \in Workers : state'[w] = "idle"})
<1>1. {w \in Workers : state'[w] = "idle"} = {w \in Workers : job'[w] = NoSlot}
  BY DEF PoolInv, LoopStates
<1>2. Ready' \in SUBSET Slots /\ \A w \in Workers : job'[w] \notin Ready'
  BY PoolAssumption DEF Ready, is_ready, PoolInv, SlotsHeld
<1>3. /\ \A w \in Workers : job'[w] \in Slots \cup {NoSlot}
      /\ \A v, w \in Workers : job'[v] # NoSlot /\ job'[v] = job'[w] => v = w
  BY DEF PoolInv, TypeOK, SlotsHeld, Threads
<1> QED BY <1>1, <1>2, <1>3, SlotsSuffice

(* add_task makes one task ready and wakes one sleeper.  When none sleeps, *)
(* every worker in its loop is awake, and there are enough of them.        *)
LEMMA FillSlotWake ==
    ASSUME PoolInv, WakeInv, NEW t \in Threads, NEW s \in Slots, FillSlot(t, s),
           state[t] \in {"run", "add"},
           UNCHANGED <<awaited, we_are_destructing, finished>>
    PROVE  WakeInv'
<1>1. PoolInv' /\ ~we_are_destructing
  BY FillSlotInv, UsedPoolIsAlive DEF Using
<1>2. /\ \A u \in Threads : u # t => state'[u] = state[u]
      /\ state'[t] = "run"
  BY DEF FillSlot, Become, PoolInv, TypeOK
<1>3. CallersOutsideLoop'
  BY <1>2 DEF WakeInv, CallersOutsideLoop, Threads
<1>4. {w \in Workers : state'[w] = "idle"} = {w \in Workers : state[w] = "idle"}
  BY <1>2 DEF Threads
<1>5. CASE task_ready_waiters = {} /\ UNCHANGED blocked
  <2>1. Awake' = {w \in Workers : state'[w] = "idle"}
    BY <1>4, <1>5 DEF Awake, task_ready_waiters
  <2>2. Cardinality(Ready') <= Cardinality({w \in Workers : state'[w] = "idle"})
    BY <1>1, ReadyFitIdleNext
  <2>3. NoLostWakeup'
    BY <2>1, <2>2 DEF NoLostWakeup, Ready, Awake
  <2> QED BY <1>3, <2>3 DEF WakeInv
<1>6. ASSUME NEW w \in task_ready_waiters, blocked' = blocked \ {w}
      PROVE  WakeInv'
  <2>1. /\ w \in Workers /\ w \in blocked /\ state[w] = "idle" /\ w # t
    BY DEF task_ready_waiters, WakeInv, CallersOutsideLoop, PoolInv, TypeOK, Threads
  <2>2. Awake' = Awake \cup {w} /\ w \notin Awake
    BY <1>2, <1>6, <2>1 DEF Awake, Threads
  <2>3. Ready' \subseteq Ready \cup {s}
    <3>1. \A u \in Slots : u # s => tasks'[u] = tasks[u]
      BY DEF FillSlot, PoolInv, TypeOK
    <3> QED BY <3>1 DEF Ready, is_ready, is_empty
  <2>4. Cardinality(Awake') = Cardinality(Awake) + 1
    BY <2>2, ReadyAwakeFinite, FS_AddElement
  <2>5. Cardinality(Ready') <= Cardinality(Ready) + 1
    <3>1. IsFiniteSet(Ready \cup {s}) /\ Cardinality(Ready \cup {s}) <= Cardinality(Ready) + 1
      <4>1. /\ IsFiniteSet(Ready \cup {s})
            /\ Cardinality(Ready \cup {s})
                 = IF s \in Ready THEN Cardinality(Ready) ELSE Cardinality(Ready) + 1
        BY ReadyAwakeFinite, FS_AddElement, Zenon
      <4> QED BY <4>1, ReadyAwakeFinite
    <3>2. Cardinality(Ready') <= Cardinality(Ready \cup {s})
      BY <2>3, <3>1, FS_Subset
    <3>3. Cardinality(Ready \cup {s}) \in Nat
      BY <3>1, FS_CardinalityType
    <3> QED BY <3>1, <3>2, <3>3, ReadyAwakeFinite, ReadyAwakeFiniteNext
  <2>6. Cardinality(Ready) <= Cardinality(Awake)
    BY DEF WakeInv, NoLostWakeup, Ready, Awake
  <2>7. Cardinality(Ready') <= Cardinality(Awake')
    BY <2>4, <2>5, <2>6, ReadyAwakeFinite, ReadyAwakeFiniteNext
  <2> QED BY <1>3, <2>7 DEF WakeInv, NoLostWakeup, Ready, Awake
<1> QED BY <1>5, <1>6 DEF FillSlot, SignalReady

(* A step that puts no worker of the loop to sleep keeps the count.        *)
LEMMA MoveWake ==
    ASSUME PoolInv, WakeInv, NEW t \in Threads, NEW st, st # "idle", state[t] # "idle",
           Become(t, st), blocked' \subseteq blocked \cup {t}, Ready' \subseteq Ready
    PROVE  WakeInv'
<1>1. /\ \A u \in Threads : u # t => state'[u] = state[u]
      /\ state'[t] = st
  BY DEF Become, PoolInv, TypeOK
<1>2. Awake \subseteq Awake'
  BY <1>1 DEF Awake, Threads
<1>3. CallersOutsideLoop'
  BY <1>1 DEF WakeInv, CallersOutsideLoop, Threads
<1> QED BY <1>2, <1>3, MoreAwake DEF WakeInv

LEMMA StayWake ==
    ASSUME WakeInv, UNCHANGED state, Ready' \subseteq Ready,
           \A w \in blocked' : state[w] = "idle" => w \in blocked
    PROVE  WakeInv'
<1>1. Awake \subseteq Awake'
  BY DEF Awake
<1> QED BY <1>1, MoreAwake DEF WakeInv, CallersOutsideLoop

LEMMA SameReady ==
    ASSUME UNCHANGED tasks
    PROVE  Ready' \subseteq Ready
BY DEF Ready, is_ready, is_empty

LEMMA AddTaskWake ==
    ASSUME PoolInv, WakeInv, NEW t \in Threads, add_task(t) \/ add_task_woken(t)
    PROVE  WakeInv'
<1>1. /\ state[t] \in {"run", "add"}
      /\ UNCHANGED <<awaited, we_are_destructing, finished>>
      /\ \/ \E s \in Slots : FillSlot(t, s)
         \/ RunInline(t)
         \/ AwaitSlot(t)
  BY DEF add_task, add_task_woken
<1>2. CASE \E s \in Slots : FillSlot(t, s)
  BY <1>1, <1>2, FillSlotWake
<1>3. CASE RunInline(t)
  BY <1>3, StayWake, SameReady DEF RunInline
<1>4. CASE AwaitSlot(t)
  BY <1>1, <1>4, MoveWake, SameReady DEF AwaitSlot
<1> QED BY <1>1, <1>2, <1>3, <1>4

LEMMA WaitWake ==
    ASSUME PoolInv, WakeInv, NEW t \in Threads,
           wait_for_all_tasks(t) \/ wait_for_task(t)
    PROVE  WakeInv'
<1>1. state[t] # "idle"
  BY DEF wait_for_all_tasks, wait_for_task
<1>2. CASE UNCHANGED <<tasks, state>> /\ blocked' = blocked \cup {t}
  BY <1>1, <1>2, StayWake, SameReady
<1>3. CASE PropagateException /\ Become(t, "run") /\ UNCHANGED blocked
  <2>1. Ready' \subseteq Ready
    <3>1. CASE UNCHANGED tasks
      BY <3>1, SameReady
    <3>2. ASSUME NEW s \in Slots, tasks' = [tasks EXCEPT ![s].eptr = FALSE]
          PROVE  Ready' \subseteq Ready
      <4>1. tasks \in [Slots -> TaskStates]
        BY DEF PoolInv, TypeOK
      <4> QED BY <3>2, <4>1 DEF Ready, is_ready, is_empty, TaskStates
    <3> QED BY <1>3, <3>1, <3>2 DEF PropagateException
  <2> QED BY <1>1, <1>3, <2>1, MoveWake
<1> QED BY <1>2, <1>3 DEF wait_for_all_tasks, wait_for_task, WaitWhile

(* A worker sleeps only when nothing is ready; one that takes a task takes *)
(* it and itself out of the count.                                         *)
LEMMA ClaimTaskWake ==
    ASSUME PoolInv, WakeInv, NEW w \in Workers, ClaimTask(w)
    PROVE  WakeInv'
<1>1. w \in Threads /\ state[w] = "idle" /\ w \in Awake
  BY DEF ClaimTask, Threads, Awake
<1>2. \A st \in States : Become(w, st) =>
         /\ \A u \in Threads : u # w => state'[u] = state[u]
         /\ state'[w] = st
  BY <1>1 DEF Become, PoolInv, TypeOK
<1>3. CallersOutsideLoop'
  <2>1. CASE UNCHANGED state
    BY <2>1 DEF WakeInv, CallersOutsideLoop
  <2>2. CASE Become(w, "gone") \/ Become(w, "run")
    <3>1. \A c \in Callers : c \in Threads /\ c # w
      BY ThreadsAssumption DEF Threads
    <3> QED BY <1>2, <2>2, <3>1 DEF WakeInv, CallersOutsideLoop, States
  <2> QED BY <2>1, <2>2 DEF ClaimTask
<1>4. Ready' = {} => WakeInv'
  <2> SUFFICES ASSUME Ready' = {} PROVE WakeInv'
    OBVIOUS
  <2>1. Cardinality(Ready') = 0
    BY FS_EmptySet
  <2>2. Cardinality(Ready') <= Cardinality(Awake')
    BY <2>1, ReadyAwakeFiniteNext
  <2> QED BY <1>3, <2>2 DEF WakeInv, NoLostWakeup, Ready, Awake
<1>5. CASE we_are_destructing /\ UNCHANGED tasks
  <2>1. Ready' = {}
    BY <1>5 DEF Ready, is_ready, is_empty, PoolInv, NobodyLeft
  <2> QED BY <1>4, <2>1
<1>6. CASE (\A s \in Slots : ~is_ready(s)) /\ UNCHANGED tasks
  <2>1. Ready' = {}
    BY <1>6 DEF Ready, is_ready, is_empty
  <2> QED BY <1>4, <2>1
<1>7. ASSUME NEW s \in Slots, is_ready(s),
             tasks' = [tasks EXCEPT ![s].is_being_processed = TRUE],
             Become(w, "run"), UNCHANGED blocked
      PROVE  WakeInv'
  <2>1. Ready' = Ready \ {s} /\ s \in Ready
    <3>1. tasks \in [Slots -> TaskStates]
      BY DEF PoolInv, TypeOK
    <3> QED BY <1>7, <3>1 DEF Ready, is_ready, is_empty, TaskStates
  <2>2. Awake' = Awake \ {w}
    BY <1>2, <1>7 DEF Awake, Threads, States
  <2>3. Cardinality(Ready') = Cardinality(Ready) - 1
    BY <2>1, ReadyAwakeFinite, FS_RemoveElement
  <2>4. Cardinality(Awake') = Cardinality(Awake) - 1
    BY <1>1, <2>2, ReadyAwakeFinite, FS_RemoveElement
  <2>5. Cardinality(Ready) <= Cardinality(Awake)
    BY DEF WakeInv, NoLostWakeup, Ready, Awake
  <2>6. Cardinality(Ready') <= Cardinality(Awake')
    BY <2>3, <2>4, <2>5, ReadyAwakeFinite
  <2> QED BY <1>3, <2>6 DEF WakeInv, NoLostWakeup, Ready, Awake
<1> QED BY <1>5, <1>6, <1>7 DEF ClaimTask

(* A worker that ends a body is back in its loop, awake.                   *)
LEMMA FinishTaskWake ==
    ASSUME PoolInv, WakeInv, NEW w \in Workers, FinishTask(w)
    PROVE  WakeInv'
<1>1. w \in Threads /\ job[w] \in Slots /\ state[w] = "run" /\ w \notin Callers
  BY ThreadsAssumption DEF FinishTask, Threads, PoolInv, TypeOK
<1>2. /\ \A u \in Threads : u # w => state'[u] = state[u]
      /\ blocked' \subseteq blocked
  BY DEF FinishTask, Become, PoolInv, TypeOK, task_ready_waiters
<1>3. Awake \subseteq Awake'
  BY <1>1, <1>2 DEF Awake, Threads
<1>4. CallersOutsideLoop'
  BY <1>1, <1>2 DEF WakeInv, CallersOutsideLoop, Threads
<1>5. Ready' \subseteq Ready
  <2>1. PICK threw \in BOOLEAN :
            tasks' = [tasks EXCEPT ![job[w]].task_id = 0,
                                   ![job[w]].is_being_processed = FALSE,
                                   ![job[w]].eptr = threw]
    BY DEF FinishTask
  <2>2. tasks \in [Slots -> TaskStates]
    BY DEF PoolInv, TypeOK
  <2>3. /\ tasks'[job[w]].task_id = 0
        /\ \A s \in Slots : s # job[w] => tasks'[s] = tasks[s]
    BY <1>1, <2>1, <2>2 DEF TaskStates
  <2> QED BY <2>3 DEF Ready, is_ready, is_empty
<1> QED BY <1>3, <1>4, <1>5, MoreAwake DEF WakeInv

LEMMA EndWake ==
    ASSUME PoolInv, WakeInv,
           \/ \E c \in Callers : Leave(c)
           \/ CallShutdown \/ shutdown_pool \/ JoinWorkers
    PROVE  WakeInv'
<1>1. Ready' \subseteq Ready
  BY SameReady DEF Leave, CallShutdown, shutdown_pool, JoinWorkers
<1>2. Owner \in Threads /\ \A c \in Callers : c \in Threads
  BY ThreadsAssumption DEF Threads
<1>3. ASSUME NEW c \in Callers, Leave(c) PROVE WakeInv'
  BY <1>1, <1>2, <1>3, MoveWake DEF Leave
<1>4. CASE CallShutdown
  BY <1>1, <1>2, <1>4, MoveWake DEF CallShutdown
<1>5. CASE JoinWorkers
  BY <1>1, <1>2, <1>5, MoveWake DEF JoinWorkers
<1>6. CASE shutdown_pool
  <2>1. CASE UNCHANGED state
    BY <1>1, <1>6, <2>1, StayWake DEF shutdown_pool, task_done_waiters
  <2>2. CASE Become(Owner, "join")
    BY <1>1, <1>2, <1>6, <2>2, MoveWake DEF shutdown_pool, task_done_waiters
  <2> QED BY <1>6, <2>1, <2>2 DEF shutdown_pool
<1> QED BY <1>3, <1>4, <1>5, <1>6

LEMMA InitWake == Init => WakeInv
<1> SUFFICES ASSUME Init PROVE WakeInv
  OBVIOUS
<1>1. Ready = {}
  BY DEF Init, Ready, is_ready, is_empty
<1>2. Cardinality(Ready) <= Cardinality(Awake)
  BY <1>1, FS_EmptySet, ReadyAwakeFinite
<1>3. CallersOutsideLoop
  BY ThreadsAssumption DEF Init, CallersOutsideLoop, Threads
<1> QED BY <1>2, <1>3 DEF WakeInv, NoLostWakeup, Ready, Awake

LEMMA NextWake == PoolInv /\ WakeInv /\ [Next]_vars => WakeInv'
<1> SUFFICES ASSUME PoolInv, WakeInv, [Next]_vars PROVE WakeInv'
  OBVIOUS
<1>1. ASSUME NEW t \in Threads, UserStep(t) PROVE WakeInv'
  <2>1. CASE add_task(t)
    BY <2>1, AddTaskWake
  <2>2. CASE CallWaitForAll(t) \/ \E k \in Tasks : CallWaitForTask(t, k)
    BY <2>2, MoveWake, SameReady DEF CallWaitForAll, CallWaitForTask
  <2> QED BY <1>1, <2>1, <2>2 DEF UserStep
<1>2. ASSUME NEW t \in Threads, PoolStep(t) PROVE WakeInv'
  BY <1>2, AddTaskWake, WaitWake DEF PoolStep
<1>3. ASSUME NEW t \in Threads, ReturnInline(t) \/ SpuriousWakeup(t)
      PROVE  WakeInv'
  BY <1>3, StayWake, SameReady DEF ReturnInline, SpuriousWakeup
<1>4. ASSUME NEW w \in Workers, ClaimTask(w) \/ FinishTask(w) PROVE WakeInv'
  BY <1>4, ClaimTaskWake, FinishTaskWake
<1>5. CASE \/ \E c \in Callers : Leave(c)
           \/ CallShutdown \/ shutdown_pool \/ JoinWorkers
  BY <1>5, EndWake
<1>6. CASE UNCHANGED vars
  BY <1>6, StayWake, SameReady DEF vars
<1>7. CASE Terminated
  BY <1>6, <1>7 DEF Terminated
<1> QED BY <1>1, <1>2, <1>3, <1>4, <1>5, <1>6, <1>7 DEF Next

(* There are never more tasks to take than workers awake to take them, so  *)
(* the single signal of add_task loses no wake-up, whichever sleeper it    *)
(* wakes and whoever takes the task before that one runs.                  *)
THEOREM WakeupsSuffice == Spec => []NoLostWakeup
<1>1. Init => PoolInv /\ WakeInv
  BY InitPoolInv, InitWake
<1>2. PoolInv /\ WakeInv /\ [Next]_vars => (PoolInv /\ WakeInv)'
  BY NextPoolInv, NextWake
<1>3. PoolInv /\ WakeInv => NoLostWakeup
  BY DEF WakeInv
<1> QED BY <1>1, <1>2, <1>3, PTL DEF Spec
====
