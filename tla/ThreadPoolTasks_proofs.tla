----------------------- MODULE ThreadPoolTasks_proofs -----------------------
(***************************************************************************)
(* Where a task is, for every number of workers, callers and tasks: in one *)
(* slot, on one thread's stack inside add_task, or finished.  From it: the *)
(* pool runs every task before it stops its workers, and implements        *)
(* TaskExec.                                                               *)
(***************************************************************************)
EXTENDS ThreadPool_proofs

(* A slot that is not empty holds a submitted task of its own, and the     *)
(* thread that submitted it.                                               *)
SlotTasks ==
    /\ \A s \in Slots : ~is_empty(s) =>
          /\ tasks[s].task_id < next_task
          /\ tasks[s].task_id \notin finished
          /\ owner[tasks[s].task_id] = tasks[s].thread_id
    /\ \A r, s \in Slots :
          ~is_empty(s) /\ tasks[r].task_id = tasks[s].task_id => r = s

(* The tasks a thread runs inside add_task are its own, each there once    *)
(* and in no slot; only a thread inside user code or a call of it has any. *)
StackTasks ==
    \A t \in Threads :
        /\ \A i \in 1 .. Len(inline[t]) :
              /\ inline[t][i] < next_task
              /\ inline[t][i] \notin finished
              /\ owner[inline[t][i]] = t
              /\ \A s \in Slots : tasks[s].task_id # inline[t][i]
        /\ \A i, j \in 1 .. Len(inline[t]) : inline[t][i] = inline[t][j] => i = j
        /\ inline[t] # << >> => state[t] \in Using

Numbered ==
    /\ \A k \in Tasks : owner[k] = NoThread <=> k >= next_task
    /\ \A k \in finished : k < next_task

(* No submitted task is lost.                                              *)
Placed ==
    \A k \in Tasks : k < next_task =>
        \/ k \in finished
        \/ \E s \in Slots : tasks[s].task_id = k
        \/ \E t \in Threads : \E i \in 1 .. Len(inline[t]) : inline[t][i] = k

(* wait_for_task waits for a task the thread submitted and is not inside.  *)
AwaitsOthers ==
    \A t \in Threads : state[t] = "wait_task" =>
        /\ awaited[t] \in Tasks /\ owner[awaited[t]] = t
        /\ awaited[t] \notin Executing(t)

TaskInv == SlotTasks /\ StackTasks /\ Numbered /\ Placed /\ AwaitsOthers

-----------------------------------------------------------------------------
(* What the steps do to the slots.                                         *)

SameIds ==
    \A s \in Slots : /\ tasks'[s].task_id = tasks[s].task_id
                     /\ tasks'[s].thread_id = tasks[s].thread_id

LEMMA FillSlotTasks ==
    ASSUME PoolInv, NEW t \in Threads, NEW s \in Slots, FillSlot(t, s)
    PROVE  /\ tasks'[s].task_id = next_task /\ tasks'[s].thread_id = t
           /\ tasks'[s].is_being_processed = tasks[s].is_being_processed
           /\ \A u \in Slots : u # s => tasks'[u] = tasks[u]
           /\ tasks[s].task_id = 0
<1>1. tasks' = [tasks EXCEPT ![s] = [@ EXCEPT !.task_id = next_task, !.thread_id = t]]
  BY DEF FillSlot, PoolInv, TypeOK, TaskStates
<1>2. tasks \in [Slots -> TaskStates] /\ tasks[s] \in TaskStates
  BY DEF PoolInv, TypeOK
<1> QED BY <1>1, <1>2 DEF FillSlot, is_empty, TaskStates

LEMMA PropagateTasks ==
    ASSUME PoolInv, PropagateException
    PROVE  /\ SameIds
           /\ \A s \in Slots : tasks'[s].is_being_processed = tasks[s].is_being_processed
<1>1. CASE UNCHANGED tasks
  BY <1>1 DEF SameIds
<1>2. ASSUME NEW r \in Slots, tasks' = [tasks EXCEPT ![r].eptr = FALSE]
      PROVE  \A s \in Slots : /\ tasks'[s].task_id = tasks[s].task_id
                              /\ tasks'[s].thread_id = tasks[s].thread_id
                              /\ tasks'[s].is_being_processed = tasks[s].is_being_processed
  <2>1. tasks \in [Slots -> TaskStates]
    BY DEF PoolInv, TypeOK
  <2> QED BY <1>2, <2>1 DEF TaskStates
<1> QED BY <1>1, <1>2 DEF PropagateException, SameIds

LEMMA ClaimedTasks ==
    ASSUME PoolInv, NEW s \in Slots,
           tasks' = [tasks EXCEPT ![s].is_being_processed = TRUE]
    PROVE  /\ SameIds /\ tasks'[s].is_being_processed
           /\ \A u \in Slots : u # s => tasks'[u] = tasks[u]
<1>1. tasks \in [Slots -> TaskStates]
  BY DEF PoolInv, TypeOK
<1> QED BY <1>1 DEF SameIds, TaskStates

LEMMA FinishedTasks ==
    ASSUME PoolInv, NEW w \in Workers, FinishTask(w)
    PROVE  /\ job[w] \in Slots
           /\ tasks'[job[w]].task_id = 0 /\ ~tasks'[job[w]].is_being_processed
           /\ \A u \in Slots : u # job[w] => tasks'[u] = tasks[u]
           /\ \A u \in Threads : u # w => job'[u] = job[u]
           /\ job'[w] = NoSlot
<1>1. tasks \in [Slots -> TaskStates] /\ job \in [Threads -> Slots \cup {NoSlot}]
      /\ w \in Threads
  BY DEF PoolInv, TypeOK, Threads
<1>2. job[w] \in Slots
  BY <1>1 DEF FinishTask
<1>3. PICK threw \in BOOLEAN :
          tasks' = [tasks EXCEPT ![job[w]].task_id = 0,
                                 ![job[w]].is_being_processed = FALSE,
                                 ![job[w]].eptr = threw]
  BY DEF FinishTask
<1>4. /\ tasks'[job[w]].task_id = 0 /\ ~tasks'[job[w]].is_being_processed
      /\ \A u \in Slots : u # job[w] => tasks'[u] = tasks[u]
  BY <1>1, <1>2, <1>3 DEF TaskStates
<1> QED BY <1>1, <1>2, <1>4 DEF FinishTask

-----------------------------------------------------------------------------
(* The steps keep TaskInv.                                                 *)

LEMMA InitTaskInv == Init => TaskInv
<1> SUFFICES ASSUME Init PROVE TaskInv
  OBVIOUS
<1>1. SlotTasks /\ StackTasks /\ AwaitsOthers
  BY DEF Init, SlotTasks, StackTasks, AwaitsOthers, is_empty
<1>2. Numbered /\ Placed
  BY BoundsAssumption DEF Init, Numbered, Placed, Tasks
<1> QED BY <1>1, <1>2 DEF TaskInv

(* Steps that move no task.                                                *)
LEMMA QuietTaskInv ==
    ASSUME PoolInv, TaskInv, SameIds,
           UNCHANGED <<job, inline, next_task, owner, finished>>,
           \A t \in Threads : inline[t] # << >> => state'[t] \in Using,
           \A t \in Threads :
              state'[t] = "wait_task" =>
                 \/ state[t] = "wait_task" /\ awaited'[t] = awaited[t]
                 \/ /\ awaited'[t] \in Tasks /\ owner[awaited'[t]] = t
                    /\ awaited'[t] \notin Executing(t)
    PROVE  TaskInv'
<1>1. \A t \in Threads : Executing(t)' = Executing(t)
  BY DEF Executing, SameIds, PoolInv, TypeOK
<1>2. SlotTasks'
  BY DEF TaskInv, SlotTasks, SameIds, is_empty
<1>3. StackTasks'
  BY DEF TaskInv, StackTasks, SameIds
<1>4. Numbered' /\ Placed'
  BY DEF TaskInv, Numbered, Placed, SameIds
<1>5. AwaitsOthers'
  BY <1>1 DEF TaskInv, AwaitsOthers
<1> QED BY <1>2, <1>3, <1>4, <1>5 DEF TaskInv

(* A step that only moves one thread between user code and calls is quiet. *)
LEMMA BecomeTaskInv ==
    ASSUME PoolInv, TaskInv, SameIds, NEW t \in Threads, NEW st \in States,
           Become(t, st), st # "wait_task",
           inline[t] # << >> => st \in Using,
           \A u \in Threads : u # t => awaited'[u] = awaited[u],
           UNCHANGED <<job, inline, next_task, owner, finished>>
    PROVE  TaskInv'
<1>1. /\ \A u \in Threads : u # t => state'[u] = state[u]
      /\ state'[t] = st
  BY DEF PoolInv, TypeOK, Become
<1>2. \A u \in Threads : inline[u] # << >> => state'[u] \in Using
  BY <1>1 DEF TaskInv, StackTasks
<1> QED BY <1>1, <1>2, QuietTaskInv

(* So is one that changes neither where threads are nor what they await.   *)
LEMMA StayTaskInv ==
    ASSUME PoolInv, TaskInv,
           UNCHANGED <<tasks, job, inline, state, awaited, next_task, owner, finished>>
    PROVE  TaskInv'
BY QuietTaskInv DEF SameIds, TaskInv, StackTasks

(* A new task has a number nothing has yet, so it is in one place.         *)
LEMMA SubmittedNumbered ==
    ASSUME PoolInv, TaskInv, NEW t \in Threads, Submitted(t), UNCHANGED finished
    PROVE  /\ next_task \in Nat \ {0} /\ next_task' = next_task + 1
           /\ owner[next_task] = NoThread /\ owner'[next_task] = t
           /\ \A k \in Tasks : k # next_task => owner'[k] = owner[k]
           /\ Numbered'
<1>1. /\ next_task \in Tasks /\ next_task \in Nat \ {0} /\ next_task' = next_task + 1
      /\ owner' = [owner EXCEPT ![next_task] = t]
      /\ owner \in [Tasks -> Threads \cup {NoThread}]
  BY DEF Submitted, PoolInv, TypeOK, Tasks
<1>2. owner[next_task] = NoThread
  BY <1>1 DEF TaskInv, Numbered
<1>3. /\ \A k \in Tasks : owner'[k] = IF k = next_task THEN t ELSE owner[k]
      /\ t # NoThread
  BY <1>1, ThreadsAssumption
<1>4. \A k \in Tasks : owner'[k] = NoThread <=> k >= next_task'
  <2> SUFFICES ASSUME NEW k \in Tasks PROVE owner'[k] = NoThread <=> k >= next_task'
    OBVIOUS
  <2>1. k \in Nat
    BY DEF Tasks
  <2>2. owner[k] = NoThread <=> k >= next_task
    BY DEF TaskInv, Numbered
  <2>3. CASE k = next_task
    <3>1. ~ k >= next_task' /\ owner'[k] # NoThread
      BY <1>1, <1>3, <2>3
    <3> QED BY <3>1
  <2>4. CASE k # next_task
    <3>1. owner'[k] = owner[k] /\ (k >= next_task <=> k >= next_task')
      BY <1>1, <1>3, <2>1, <2>4
    <3> QED BY <2>2, <3>1, Zenon
  <2> QED BY <2>3, <2>4
<1>5. \A k \in finished : k < next_task'
  BY <1>1 DEF TaskInv, Numbered, PoolInv, TypeOK, Tasks
<1> QED BY <1>1, <1>2, <1>3, <1>4, <1>5 DEF Numbered

LEMMA IdsAreNumbers ==
    ASSUME PoolInv, TaskInv
    PROVE  /\ next_task \in Nat
           /\ \A s \in Slots : /\ tasks[s].task_id \in Nat
                               /\ ~is_empty(s) => /\ tasks[s].task_id \in Tasks
                                                  /\ tasks[s].task_id < next_task
           /\ \A t \in Threads : \A i \in 1 .. Len(inline[t]) :
                 inline[t][i] \in Tasks /\ inline[t][i] < next_task
           /\ \A k \in Tasks : k \in Nat
           /\ \A k \in finished : k \in Tasks /\ k < next_task
<1>1. \A s \in Slots : tasks[s].task_id \in 0 .. MaxTasks
  BY DEF PoolInv, TypeOK, TaskStates
<1>2. \A t \in Threads : inline[t] \in Seq(Tasks)
  BY DEF PoolInv, TypeOK
<1>3. \A t \in Threads : \A i \in 1 .. Len(inline[t]) :
         inline[t][i] \in Tasks /\ inline[t][i] < next_task
  BY <1>2 DEF TaskInv, StackTasks
<1>4. next_task \in Nat /\ finished \subseteq Tasks
  BY DEF PoolInv, TypeOK
<1> QED BY <1>1, <1>3, <1>4, BoundsAssumption
        DEF TaskInv, SlotTasks, Numbered, is_empty, Tasks

LEMMA FillSlotTaskInv ==
    ASSUME PoolInv, TaskInv, NEW t \in Threads, NEW s \in Slots, FillSlot(t, s),
           state[t] \in {"run", "add"}, UNCHANGED <<awaited, finished>>
    PROVE  TaskInv'
<1>1. /\ tasks'[s].task_id = next_task /\ tasks'[s].thread_id = t
      /\ \A u \in Slots : u # s => tasks'[u] = tasks[u]
      /\ tasks[s].task_id = 0
  BY FillSlotTasks
<1>2. /\ next_task \in Nat \ {0} /\ next_task' = next_task + 1
      /\ owner[next_task] = NoThread /\ owner'[next_task] = t
      /\ \A k \in Tasks : k # next_task => owner'[k] = owner[k]
      /\ Numbered'
  BY SubmittedNumbered DEF FillSlot
<1>3. /\ \A u \in Threads : u # t => state'[u] = state[u]
      /\ state'[t] = "run"
      /\ UNCHANGED <<job, inline, awaited, finished>>
  BY DEF FillSlot, PoolInv, TypeOK, Become
<1>4. SlotTasks'
  <2>1. ASSUME NEW u \in Slots, tasks'[u].task_id # 0
        PROVE  /\ tasks'[u].task_id < next_task'
               /\ tasks'[u].task_id \notin finished
               /\ owner'[tasks'[u].task_id] = tasks'[u].thread_id
    <3>1. CASE u = s
      BY <1>1, <1>2, <3>1, IdsAreNumbers
    <3>2. CASE u # s
      <4>1. tasks[u].task_id # next_task
        BY <1>1, <2>1, <3>2, IdsAreNumbers DEF is_empty
      <4> QED BY <1>1, <1>2, <2>1, <3>2, <4>1, IdsAreNumbers
              DEF TaskInv, SlotTasks, is_empty
    <3> QED BY <3>1, <3>2
  <2>2. ASSUME NEW r \in Slots, NEW u \in Slots, tasks'[u].task_id # 0,
               tasks'[r].task_id = tasks'[u].task_id
        PROVE  r = u
    <3>1. \A x \in Slots : x # s /\ tasks[x].task_id # 0 => tasks'[x].task_id # next_task
      BY <1>1, IdsAreNumbers DEF is_empty
    <3> QED BY <1>1, <1>2, <2>2, <3>1 DEF TaskInv, SlotTasks, is_empty
  <2> QED BY <1>3, <2>1, <2>2 DEF SlotTasks, is_empty
<1>5. StackTasks'
  <2> SUFFICES ASSUME NEW u \in Threads
               PROVE  /\ \A i \in 1 .. Len(inline[u]) :
                            /\ inline[u][i] < next_task'
                            /\ inline[u][i] \notin finished
                            /\ owner'[inline[u][i]] = u
                            /\ \A r \in Slots : tasks'[r].task_id # inline[u][i]
                      /\ inline[u] # << >> => state'[u] \in Using
    BY <1>3 DEF StackTasks, TaskInv
  <2>1. inline[u] # << >> => state'[u] \in Using
    BY <1>3 DEF TaskInv, StackTasks, Using
  <2>2. ASSUME NEW i \in 1 .. Len(inline[u])
        PROVE  /\ inline[u][i] < next_task'
               /\ inline[u][i] \notin finished
               /\ owner'[inline[u][i]] = u
               /\ \A r \in Slots : tasks'[r].task_id # inline[u][i]
    <3>1. inline[u][i] \in Tasks /\ inline[u][i] < next_task /\ inline[u][i] \in Nat
      BY IdsAreNumbers
    <3> QED BY <1>1, <1>2, <3>1 DEF TaskInv, StackTasks
  <2> QED BY <2>1, <2>2
<1>6. Placed'
  <2> SUFFICES ASSUME NEW k \in Tasks, k < next_task'
               PROVE  \/ k \in finished
                      \/ \E r \in Slots : tasks'[r].task_id = k
                      \/ \E u \in Threads : \E i \in 1 .. Len(inline[u]) : inline[u][i] = k
    BY <1>3 DEF Placed
  <2>1. CASE k = next_task
    BY <1>1, <2>1
  <2>2. CASE k # next_task
    <3>1. k < next_task /\ k # 0
      BY <1>2, <2>2, IdsAreNumbers DEF Tasks
    <3> QED BY <1>1, <3>1 DEF TaskInv, Placed
  <2> QED BY <2>1, <2>2
<1>7. AwaitsOthers'
  <2> SUFFICES ASSUME NEW u \in Threads, state'[u] = "wait_task"
               PROVE  /\ awaited[u] \in Tasks /\ owner'[awaited[u]] = u
                      /\ awaited[u] \notin Executing(u)'
    BY <1>3 DEF AwaitsOthers
  <2>1. /\ state[u] = "wait_task" /\ awaited[u] \in Tasks /\ owner[awaited[u]] = u
        /\ awaited[u] \notin Executing(u)
    BY <1>3 DEF TaskInv, AwaitsOthers
  <2>2. owner'[awaited[u]] = u /\ awaited[u] # next_task
    BY <1>2, <2>1, ThreadsAssumption
  <2>3. Executing(u)' \subseteq Executing(u) \cup {next_task}
    BY <1>1, <1>3 DEF Executing, PoolInv, TypeOK
  <2> QED BY <2>1, <2>2, <2>3
<1> QED BY <1>2, <1>4, <1>5, <1>6, <1>7 DEF TaskInv

LEMMA RunInlineTaskInv ==
    ASSUME PoolInv, TaskInv, NEW t \in Threads, RunInline(t),
           state[t] = "run", UNCHANGED <<awaited, finished>>
    PROVE  TaskInv'
<1>1. /\ next_task \in Nat \ {0} /\ next_task' = next_task + 1
      /\ owner[next_task] = NoThread /\ owner'[next_task] = t
      /\ \A k \in Tasks : k # next_task => owner'[k] = owner[k]
      /\ Numbered'
  BY SubmittedNumbered DEF RunInline
<1>2. /\ inline[t] \in Seq(Tasks) /\ next_task \in Tasks
      /\ inline'[t] = Append(inline[t], next_task)
      /\ \A u \in Threads : u # t => inline'[u] = inline[u]
      /\ UNCHANGED <<tasks, job, state, awaited, finished>>
  BY DEF RunInline, Submitted, PoolInv, TypeOK
<1>3. /\ Len(inline'[t]) = Len(inline[t]) + 1
      /\ \A i \in 1 .. Len(inline[t]) : inline'[t][i] = inline[t][i]
      /\ inline'[t][Len(inline[t]) + 1] = next_task
      /\ Len(inline[t]) \in Nat
  BY <1>2
<1>4. SlotTasks'
  <2>1. \A s \in Slots : ~is_empty(s) =>
           /\ tasks[s].task_id < next_task'
           /\ owner'[tasks[s].task_id] = owner[tasks[s].task_id]
    BY <1>1, IdsAreNumbers
  <2> QED BY <1>2, <2>1 DEF TaskInv, SlotTasks, is_empty
<1>5. StackTasks'
  <2>1. ASSUME NEW u \in Threads, NEW i \in 1 .. Len(inline[u])
        PROVE  /\ inline[u][i] < next_task'
               /\ inline[u][i] # next_task
               /\ inline[u][i] \notin finished
               /\ owner'[inline[u][i]] = u
               /\ \A r \in Slots : tasks[r].task_id # inline[u][i]
    <3>1. inline[u][i] \in Tasks /\ inline[u][i] < next_task /\ inline[u][i] \in Nat
      BY IdsAreNumbers
    <3> QED BY <1>1, <3>1 DEF TaskInv, StackTasks
  <2>2. /\ next_task < next_task' /\ next_task \notin finished
        /\ \A r \in Slots : tasks[r].task_id # next_task
    BY <1>1, IdsAreNumbers DEF is_empty
  <2>3. \A u \in Threads : u # t =>
          /\ \A i, j \in 1 .. Len(inline[u]) : inline[u][i] = inline[u][j] => i = j
          /\ inline[u] # << >> => state[u] \in Using
    BY DEF TaskInv, StackTasks
  <2>4. ASSUME NEW i \in 1 .. Len(inline'[t]), NEW j \in 1 .. Len(inline'[t]),
               inline'[t][i] = inline'[t][j]
        PROVE  i = j
    <3> DEFINE n == Len(inline[t])
    <3>1. \A m \in 1 .. n : inline'[t][m] # next_task
      BY <1>3, <2>1
    <3>2. i \in 1 .. n \/ i = n + 1
      BY <1>3
    <3>3. j \in 1 .. n \/ j = n + 1
      BY <1>3
    <3>4. CASE i \in 1 .. n /\ j \in 1 .. n
      <4>1. inline[t][i] = inline[t][j]
        BY <1>3, <2>4, <3>4
      <4> QED BY <3>4, <4>1 DEF TaskInv, StackTasks
    <3> QED BY <1>3, <2>4, <3>1, <3>2, <3>3, <3>4
  <2>5. ASSUME NEW i \in 1 .. Len(inline'[t])
        PROVE  /\ inline'[t][i] < next_task'
               /\ inline'[t][i] \notin finished
               /\ owner'[inline'[t][i]] = t
               /\ \A r \in Slots : tasks[r].task_id # inline'[t][i]
    <3>1. CASE i = Len(inline[t]) + 1
      BY <1>1, <1>3, <2>2, <3>1
    <3>2. CASE i # Len(inline[t]) + 1
      BY <1>3, <2>1, <3>2
    <3> QED BY <3>1, <3>2
  <2>6. ASSUME NEW u \in Threads, u # t
        PROVE  /\ \A i \in 1 .. Len(inline[u]) :
                     /\ inline[u][i] < next_task'
                     /\ inline[u][i] \notin finished
                     /\ owner'[inline[u][i]] = u
                     /\ \A r \in Slots : tasks[r].task_id # inline[u][i]
               /\ inline'[u] = inline[u]
    BY <1>2, <2>1, <2>6
  <2>7. state'[t] \in Using
    BY <1>2 DEF Using
  <2>8. tasks' = tasks /\ finished' = finished /\ state' = state
    BY <1>2
  <2> QED BY <2>3, <2>4, <2>5, <2>6, <2>7, <2>8 DEF StackTasks
<1>6. Placed'
  <2> SUFFICES ASSUME NEW k \in Tasks, k < next_task'
               PROVE  \/ k \in finished
                      \/ \E r \in Slots : tasks[r].task_id = k
                      \/ \E u \in Threads : \E i \in 1 .. Len(inline'[u]) : inline'[u][i] = k
    BY <1>2 DEF Placed
  <2>1. CASE k = next_task
    BY <1>3, <2>1
  <2>2. CASE k < next_task
    <3>1. ASSUME NEW u \in Threads, NEW i \in 1 .. Len(inline[u]), inline[u][i] = k
          PROVE  \E j \in 1 .. Len(inline'[u]) : inline'[u][j] = k
      BY <1>2, <1>3, <3>1
    <3> QED BY <2>2, <3>1 DEF TaskInv, Placed
  <2> QED BY <1>1, <2>1, <2>2, IdsAreNumbers
<1>7. AwaitsOthers'
  <2> SUFFICES ASSUME NEW u \in Threads, state[u] = "wait_task"
               PROVE  /\ awaited[u] \in Tasks /\ owner'[awaited[u]] = u
                      /\ awaited[u] \notin Executing(u)'
    BY <1>2 DEF AwaitsOthers
  <2>1. /\ awaited[u] \in Tasks /\ owner[awaited[u]] = u /\ u # t
        /\ awaited[u] \notin Executing(u)
    BY DEF TaskInv, AwaitsOthers
  <2>2. Executing(u)' = Executing(u)
    BY <1>2, <2>1 DEF Executing
  <2> QED BY <1>1, <2>1, <2>2, ThreadsAssumption
<1> QED BY <1>1, <1>4, <1>5, <1>6, <1>7 DEF TaskInv

(* The calls that start a wait, a sleep inside add_task, and a caller that *)
(* leaves or ends the pool move no task.                                   *)
LEMMA CallTaskInv ==
    ASSUME PoolInv, TaskInv, NEW t \in Threads,
           \/ CallWaitForAll(t)
           \/ /\ AwaitSlot(t) /\ state[t] \in {"run", "add"}
              /\ UNCHANGED <<awaited, finished>>
    PROVE  TaskInv'
<1>1. PICK st \in {"wait", "add"} : Become(t, st)
  BY DEF CallWaitForAll, AwaitSlot
<1>2. UNCHANGED <<tasks, job, inline, awaited, next_task, owner, finished>>
  BY DEF CallWaitForAll, AwaitSlot
<1>3. st \in States /\ st # "wait_task" /\ st \in Using /\ SameIds
  BY <1>1, <1>2 DEF States, Using, SameIds
<1> QED BY <1>1, <1>2, <1>3, BecomeTaskInv

LEMMA CallWaitForTaskInv ==
    ASSUME PoolInv, TaskInv, NEW t \in Threads, NEW k \in Tasks, CallWaitForTask(t, k)
    PROVE  TaskInv'
<1>1. /\ \A u \in Threads : u # t => state'[u] = state[u] /\ awaited'[u] = awaited[u]
      /\ state'[t] = "wait_task" /\ awaited'[t] = k
      /\ UNCHANGED <<tasks, job, inline, next_task, owner, finished>>
      /\ owner[k] = t /\ k \notin Executing(t)
  BY DEF CallWaitForTask, Become, PoolInv, TypeOK
<1>2. \A u \in Threads : inline[u] # << >> => state'[u] \in Using
  BY <1>1 DEF TaskInv, StackTasks, Using
<1> QED BY <1>1, <1>2, QuietTaskInv DEF SameIds

(* Each wake-up of a wait; the wait that ends may take one exception out.  *)
LEMMA WaitWhileTaskInv ==
    ASSUME PoolInv, TaskInv, NEW t \in Threads, NEW pending \in BOOLEAN,
           state[t] \in Using, WaitWhile(t, pending)
    PROVE  TaskInv'
<1>1. UNCHANGED <<job, inline, next_task, owner, finished>>
  BY DEF WaitWhile
<1>2. CASE UNCHANGED <<tasks, state, awaited>>
  BY <1>1, <1>2, StayTaskInv
<1>3. CASE /\ PropagateException /\ Become(t, "run")
           /\ awaited' = [awaited EXCEPT ![t] = 0]
  <2>1. SameIds /\ "run" \in States /\ "run" \in Using
    BY <1>3, PropagateTasks DEF States, Using
  <2>2. \A u \in Threads : u # t => awaited'[u] = awaited[u]
    BY <1>3 DEF PoolInv, TypeOK
  <2> QED BY <1>1, <1>3, <2>1, <2>2, BecomeTaskInv
<1> QED BY <1>2, <1>3 DEF WaitWhile

LEMMA WaitTaskInv ==
    ASSUME PoolInv, TaskInv, NEW t \in Threads, wait_for_all_tasks(t) \/ wait_for_task(t)
    PROVE  TaskInv'
<1>1. /\ OwnTaskPending(t) \in BOOLEAN
      /\ (\E s \in Slots : tasks[s].task_id = awaited[t]) \in BOOLEAN
  BY DEF OwnTaskPending
<1> QED BY <1>1, WaitWhileTaskInv DEF wait_for_all_tasks, wait_for_task, Using

(* A worker takes a task: it keeps its slot, and nobody waits inside it.   *)
LEMMA ClaimTaskTaskInv ==
    ASSUME PoolInv, TaskInv, NEW w \in Workers, ClaimTask(w)
    PROVE  TaskInv'
<1>1. /\ w \in Threads /\ state[w] = "idle" /\ inline[w] = << >>
      /\ UNCHANGED <<inline, awaited, next_task, owner, finished>>
  BY DEF ClaimTask, Threads, TaskInv, StackTasks, Using
<1>2. CASE Become(w, "gone") /\ UNCHANGED <<tasks, job, blocked>>
  BY <1>1, <1>2, BecomeTaskInv DEF States, SameIds
<1>3. CASE UNCHANGED <<tasks, job, state>>
  BY <1>1, <1>3, StayTaskInv
<1>4. ASSUME NEW s \in Slots, is_ready(s),
             tasks' = [tasks EXCEPT ![s].is_being_processed = TRUE],
             job' = [job EXCEPT ![w] = s], Become(w, "run")
      PROVE  TaskInv'
  <2>1. SameIds
    BY <1>4, ClaimedTasks
  <2>2. /\ \A u \in Threads : u # w => state'[u] = state[u] /\ job'[u] = job[u]
        /\ state'[w] = "run"
    BY <1>1, <1>4 DEF Become, PoolInv, TypeOK
  <2>3. SlotTasks' /\ Numbered' /\ Placed'
    BY <1>1, <2>1 DEF TaskInv, SlotTasks, Numbered, Placed, SameIds, is_empty
  <2>4. StackTasks'
    BY <1>1, <2>1, <2>2 DEF TaskInv, StackTasks, SameIds, Using
  <2>5. AwaitsOthers'
    <3> SUFFICES ASSUME NEW u \in Threads, state'[u] = "wait_task"
                 PROVE  /\ awaited[u] \in Tasks /\ owner[awaited[u]] = u
                        /\ awaited[u] \notin Executing(u)'
      BY <1>1 DEF AwaitsOthers
    <3>1. u # w /\ Executing(u)' = Executing(u)
      BY <1>1, <2>1, <2>2 DEF Executing, SameIds, PoolInv, TypeOK
    <3> QED BY <2>2, <3>1 DEF TaskInv, AwaitsOthers
  <2> QED BY <2>3, <2>4, <2>5 DEF TaskInv
<1> QED BY <1>2, <1>3, <1>4 DEF ClaimTask

(* A worker ends the body of its slot: the task moves from there to        *)
(* finished, and was in no other place.                                    *)
LEMMA FinishTaskTaskInv ==
    ASSUME PoolInv, TaskInv, NEW w \in Workers, FinishTask(w)
    PROVE  TaskInv'
<1> DEFINE k == tasks[job[w]].task_id
<1>1. /\ w \in Threads /\ inline[w] = << >> /\ job[w] \in Slots /\ ~is_empty(job[w])
      /\ finished' = finished \cup {k}
      /\ UNCHANGED <<inline, awaited, next_task, owner>>
  BY FinishedTasks DEF FinishTask, Threads, CurrentTask, PoolInv, SlotsHeld, TypeOK
<1>2. /\ \A u \in Threads : u # w => state'[u] = state[u] /\ job'[u] = job[u]
      /\ state'[w] = "idle" /\ job'[w] = NoSlot
  BY <1>1, FinishedTasks DEF FinishTask, Become, PoolInv, TypeOK
<1>3. /\ tasks'[job[w]].task_id = 0
      /\ \A u \in Slots : u # job[w] => tasks'[u] = tasks[u]
  BY FinishedTasks
<1>4. k \in Tasks /\ k < next_task
  BY <1>1, IdsAreNumbers
<1>5. \A s \in Slots : s # job[w] => tasks[s].task_id # k
  BY <1>1 DEF TaskInv, SlotTasks
<1> HIDE DEF k
<1>6. SlotTasks'
  BY <1>1, <1>3, <1>5 DEF TaskInv, SlotTasks, is_empty
<1>7. StackTasks'
  <2>1. \A u \in Threads : \A i \in 1 .. Len(inline[u]) :
           /\ inline[u][i] # k
           /\ inline[u][i] \in Tasks /\ inline[u][i] # 0
    BY <1>1, IdsAreNumbers DEF TaskInv, StackTasks, k, Tasks
  <2>2. \A u \in Threads : inline[u] # << >> => state'[u] \in Using
    BY <1>1, <1>2 DEF TaskInv, StackTasks
  <2>3. ASSUME NEW u \in Threads, NEW i \in 1 .. Len(inline[u])
        PROVE  /\ inline[u][i] < next_task
               /\ inline[u][i] \notin finished'
               /\ owner[inline[u][i]] = u
               /\ \A s \in Slots : tasks'[s].task_id # inline[u][i]
    <3>1. /\ inline[u][i] < next_task /\ inline[u][i] \notin finished
          /\ owner[inline[u][i]] = u
          /\ \A s \in Slots : tasks[s].task_id # inline[u][i]
      BY DEF TaskInv, StackTasks
    <3> QED BY <1>1, <1>3, <2>1, <3>1
  <2>4. \A u \in Threads :
           \A i, j \in 1 .. Len(inline[u]) : inline[u][i] = inline[u][j] => i = j
    BY DEF TaskInv, StackTasks
  <2> QED BY <1>1, <2>2, <2>3, <2>4 DEF StackTasks
<1>8. Numbered'
  BY <1>1, <1>4 DEF TaskInv, Numbered
<1>9. Placed'
  <2> SUFFICES ASSUME NEW j \in Tasks, j < next_task
               PROVE  \/ j \in finished'
                      \/ \E s \in Slots : tasks'[s].task_id = j
                      \/ \E t \in Threads : \E i \in 1 .. Len(inline[t]) : inline[t][i] = j
    BY <1>1 DEF Placed
  <2>1. \A s \in Slots : tasks[s].task_id = j => tasks'[s].task_id = j \/ j = k
    BY <1>3 DEF k
  <2> QED BY <1>1, <2>1 DEF TaskInv, Placed
<1>10. AwaitsOthers'
  <2> SUFFICES ASSUME NEW u \in Threads, state'[u] = "wait_task"
               PROVE  /\ awaited[u] \in Tasks /\ owner[awaited[u]] = u
                      /\ awaited[u] \notin Executing(u)'
    BY <1>1 DEF AwaitsOthers
  <2>1. u # w
    BY <1>2
  <2>2. job[u] # NoSlot => job[u] # job[w] /\ job[u] \in Slots
    BY <1>1, <2>1 DEF PoolInv, SlotsHeld, TypeOK, Threads
  <2>3. Executing(u)' = Executing(u)
    BY <1>1, <1>2, <1>3, <2>1, <2>2 DEF Executing
  <2> QED BY <1>2, <2>1, <2>3 DEF TaskInv, AwaitsOthers
<1> QED BY <1>6, <1>7, <1>8, <1>9, <1>10 DEF TaskInv

(* The stack without its last task.                                        *)
LEMMA PoppedStack ==
    ASSUME PoolInv, NEW t \in Threads, ReturnInline(t)
    PROVE  /\ Len(inline[t]) \in Nat \ {0} /\ Len(inline'[t]) = Len(inline[t]) - 1
           /\ \A i \in 1 .. Len(inline'[t]) : inline'[t][i] = inline[t][i]
           /\ \A u \in Threads : u # t => inline'[u] = inline[u]
           /\ finished' = finished \cup {inline[t][Len(inline[t])]}
           /\ UNCHANGED <<tasks, job, state, awaited, next_task, owner>>
<1>1. inline[t] \in Seq(Tasks) /\ inline[t] # << >>
  BY DEF PoolInv, TypeOK, ReturnInline
<1>2. inline'[t] = SubSeq(inline[t], 1, Len(inline[t]) - 1)
  BY DEF PoolInv, TypeOK, ReturnInline
<1>3. /\ \A u \in Threads : u # t => inline'[u] = inline[u]
      /\ finished' = finished \cup {inline[t][Len(inline[t])]}
      /\ UNCHANGED <<tasks, job, state, awaited, next_task, owner>>
  BY <1>1 DEF PoolInv, TypeOK, ReturnInline, CurrentTask
<1> QED BY <1>1, <1>2, <1>3

(* A body run inside add_task ends: its task goes from the top of the      *)
(* stack to finished.                                                      *)
LEMMA ReturnInlineTaskInv ==
    ASSUME PoolInv, TaskInv, NEW t \in Threads, ReturnInline(t)
    PROVE  TaskInv'
<1> DEFINE n == Len(inline[t])
           k == inline[t][n]
<1>1. /\ n \in Nat \ {0} /\ Len(inline'[t]) = n - 1
      /\ \A i \in 1 .. n - 1 : inline'[t][i] = inline[t][i]
      /\ \A u \in Threads : u # t => inline'[u] = inline[u]
      /\ finished' = finished \cup {k}
      /\ UNCHANGED <<tasks, job, state, awaited, next_task, owner>>
  BY PoppedStack
<1>2. /\ k \in Tasks /\ k < next_task /\ owner[k] = t
      /\ \A s \in Slots : tasks[s].task_id # k
  BY <1>1, IdsAreNumbers DEF TaskInv, StackTasks
<1>3. \A i \in 1 .. n - 1 : inline[t][i] # k
  BY <1>1 DEF TaskInv, StackTasks
<1>4. \A u \in Threads : u # t => \A i \in 1 .. Len(inline[u]) : inline[u][i] # k
  BY <1>2 DEF TaskInv, StackTasks
<1> HIDE DEF k
<1>5. SlotTasks'
  BY <1>1, <1>2 DEF TaskInv, SlotTasks, is_empty
<1>6. StackTasks'
  <2> SUFFICES ASSUME NEW u \in Threads
               PROVE  /\ \A i \in 1 .. Len(inline'[u]) :
                            /\ inline'[u][i] < next_task
                            /\ inline'[u][i] \notin finished'
                            /\ owner[inline'[u][i]] = u
                            /\ \A s \in Slots : tasks[s].task_id # inline'[u][i]
                      /\ \A i, j \in 1 .. Len(inline'[u]) :
                            inline'[u][i] = inline'[u][j] => i = j
                      /\ inline'[u] # << >> => state[u] \in Using
    BY <1>1 DEF StackTasks
  <2>1. CASE u # t
    BY <1>1, <1>4, <2>1 DEF TaskInv, StackTasks
  <2>2. CASE u = t
    <3>1. \A i \in 1 .. n - 1 : i \in 1 .. n
      BY <1>1
    <3>2. /\ \A i \in 1 .. n : /\ inline[t][i] < next_task
                               /\ inline[t][i] \notin finished
                               /\ owner[inline[t][i]] = t
                               /\ \A s \in Slots : tasks[s].task_id # inline[t][i]
          /\ \A i, j \in 1 .. n : inline[t][i] = inline[t][j] => i = j
      BY DEF TaskInv, StackTasks
    <3>3. state[t] \in Using
      BY DEF ReturnInline, Using
    <3>4. ASSUME NEW i \in 1 .. n - 1
          PROVE  /\ inline'[t][i] < next_task /\ inline'[t][i] \notin finished'
                 /\ owner[inline'[t][i]] = t
                 /\ \A s \in Slots : tasks[s].task_id # inline'[t][i]
      BY <1>1, <1>3, <3>1, <3>2
    <3>5. ASSUME NEW i \in 1 .. n - 1, NEW j \in 1 .. n - 1,
                 inline'[t][i] = inline'[t][j]
          PROVE  i = j
      <4>1. inline[t][i] = inline[t][j]
        BY <1>1, <3>5
      <4> QED BY <3>1, <3>2, <4>1
    <3> HIDE DEF n
    <3> QED BY <1>1, <2>2, <3>3, <3>4, <3>5
  <2> QED BY <2>1, <2>2
<1>7. Numbered'
  BY <1>1, <1>2 DEF TaskInv, Numbered
<1>8. Placed'
  <2> SUFFICES ASSUME NEW j \in Tasks, j < next_task
               PROVE  \/ j \in finished'
                      \/ \E s \in Slots : tasks[s].task_id = j
                      \/ \E u \in Threads : \E i \in 1 .. Len(inline'[u]) : inline'[u][i] = j
    BY <1>1 DEF Placed
  <2>1. ASSUME NEW u \in Threads, NEW i \in 1 .. Len(inline[u]), inline[u][i] = j, j # k
        PROVE  \E m \in 1 .. Len(inline'[u]) : inline'[u][m] = j
    <3>1. CASE u # t
      BY <1>1, <2>1, <3>1
    <3>2. CASE u = t
      <4>1. i # n
        BY <2>1, <3>2 DEF k
      <4>2. i \in 1 .. n - 1
        BY <1>1, <3>2, <4>1
      <4> QED BY <1>1, <2>1, <3>2, <4>2
    <3> QED BY <3>1, <3>2
  <2> QED BY <1>1, <2>1 DEF TaskInv, Placed
<1>9. AwaitsOthers'
  <2> SUFFICES ASSUME NEW u \in Threads, state[u] = "wait_task"
               PROVE  /\ awaited[u] \in Tasks /\ owner[awaited[u]] = u
                      /\ awaited[u] \notin Executing(u)'
    BY <1>1 DEF AwaitsOthers
  <2>1. u # t
    BY DEF ReturnInline
  <2>2. Executing(u)' = Executing(u)
    BY <1>1, <2>1 DEF Executing
  <2> QED BY <2>2 DEF TaskInv, AwaitsOthers
<1> QED BY <1>5, <1>6, <1>7, <1>8, <1>9 DEF TaskInv

LEMMA EndTaskInv ==
    ASSUME PoolInv, TaskInv,
           \/ \E c \in Callers : Leave(c)
           \/ CallShutdown \/ shutdown_pool \/ JoinWorkers
    PROVE  TaskInv'
<1>1. UNCHANGED <<tasks, job, inline, awaited, next_task, owner, finished>>
  BY DEF Leave, CallShutdown, shutdown_pool, JoinWorkers
<1>2. CASE UNCHANGED state
  BY <1>1, <1>2, StayTaskInv
<1>3. ASSUME NEW c \in Threads, inline[c] = << >>,
             NEW st \in {"done", "shutdown", "join", "aborted"}, Become(c, st)
      PROVE  TaskInv'
  BY <1>1, <1>3, BecomeTaskInv DEF States, SameIds
<1>4. Owner \in Threads /\ \A c \in Callers : c \in Threads
  BY ThreadsAssumption DEF Threads
<1>5. \A c \in Threads : state[c] \in {"shutdown", "join"} => inline[c] = << >>
  BY DEF TaskInv, StackTasks, Using
<1>6. ASSUME NEW c \in Callers, Leave(c) PROVE TaskInv'
  BY <1>3, <1>4, <1>6 DEF Leave
<1>7. CASE CallShutdown
  BY <1>3, <1>4, <1>7 DEF CallShutdown
<1>8. CASE shutdown_pool
  BY <1>2, <1>3, <1>4, <1>5, <1>8 DEF shutdown_pool
<1>9. CASE JoinWorkers
  BY <1>3, <1>4, <1>5, <1>9 DEF JoinWorkers
<1> QED BY <1>6, <1>7, <1>8, <1>9

LEMMA NextTaskInv == PoolInv /\ TaskInv /\ [Next]_vars => TaskInv'
<1> SUFFICES ASSUME PoolInv, TaskInv, [Next]_vars PROVE TaskInv'
  OBVIOUS
<1>1. ASSUME NEW t \in Threads, add_task(t) \/ add_task_woken(t) PROVE TaskInv'
  <2>1. state[t] \in {"run", "add"} /\ UNCHANGED <<awaited, finished>>
    BY <1>1 DEF add_task, add_task_woken
  <2>2. \/ \E s \in Slots : FillSlot(t, s)
        \/ RunInline(t) /\ state[t] = "run"
        \/ AwaitSlot(t)
    BY <1>1 DEF add_task, add_task_woken
  <2> QED BY <2>1, <2>2, FillSlotTaskInv, RunInlineTaskInv, CallTaskInv
<1>2. ASSUME NEW t \in Threads, UserStep(t) PROVE TaskInv'
  BY <1>1, <1>2, CallTaskInv, CallWaitForTaskInv DEF UserStep
<1>3. ASSUME NEW t \in Threads, PoolStep(t) PROVE TaskInv'
  BY <1>1, <1>3, WaitTaskInv DEF PoolStep
<1>4. ASSUME NEW t \in Threads, ReturnInline(t) PROVE TaskInv'
  BY <1>4, ReturnInlineTaskInv
<1>5. ASSUME NEW t \in Threads, SpuriousWakeup(t) PROVE TaskInv'
  BY <1>5, StayTaskInv DEF SpuriousWakeup
<1>6. ASSUME NEW w \in Workers, ClaimTask(w) \/ FinishTask(w) PROVE TaskInv'
  BY <1>6, ClaimTaskTaskInv, FinishTaskTaskInv
<1>7. CASE \/ \E c \in Callers : Leave(c)
           \/ CallShutdown \/ shutdown_pool \/ JoinWorkers
  BY <1>7, EndTaskInv
<1>8. CASE UNCHANGED vars
  BY <1>8, StayTaskInv DEF vars
<1>9. CASE Terminated
  BY <1>8, <1>9 DEF Terminated
<1> QED BY <1>2, <1>3, <1>4, <1>5, <1>6, <1>7, <1>8, <1>9 DEF Next

(* Spec keeps both parts of the invariant.                                 *)
LEMMA TasksInvariant == Spec => [](PoolInv /\ TaskInv)
<1>1. Init => PoolInv /\ TaskInv
  BY InitPoolInv, InitTaskInv
<1>2. PoolInv /\ TaskInv /\ [Next]_vars => (PoolInv /\ TaskInv)'
  BY NextPoolInv, NextTaskInv
<1> QED BY <1>1, <1>2, PTL DEF Spec

(* The destructor lets the workers go only when every task ever submitted  *)
(* has been run to its end: the slots it looked at are the only places a   *)
(* task can be in, since no thread is inside a body any more.              *)
THEOREM NoTaskLeftBehind == Spec => []ShutdownAfterAllTasks
<1>1. ASSUME PoolInv, TaskInv PROVE ShutdownAfterAllTasks
  <2> SUFFICES ASSUME we_are_destructing, NEW k \in 1 .. next_task - 1
               PROVE  k \in finished
    BY DEF ShutdownAfterAllTasks
  <2>1. k \in Tasks /\ k < next_task /\ k # 0
    BY <1>1, BoundsAssumption DEF PoolInv, TypeOK, Tasks
  <2>2. \A s \in Slots : tasks[s].task_id = 0
    BY <1>1 DEF PoolInv, NobodyLeft, is_empty
  <2>3. \A t \in Threads : inline[t] = << >>
    BY <1>1, UsedPoolIsAlive DEF TaskInv, StackTasks
  <2>4. \A t \in Threads : ~ \E i \in 1 .. Len(inline[t]) : inline[t][i] = k
    BY <2>3
  <2> QED BY <1>1, <2>1, <2>2, <2>4 DEF TaskInv, Placed
<1>2. PoolInv /\ TaskInv => ShutdownAfterAllTasks
  BY <1>1
<1> QED BY <1>2, TasksInvariant, PTL

-----------------------------------------------------------------------------
(* ThreadPool implements TaskExec.                                         *)

LEMMA WaitsForIs ==
    \A t \in Threads :
        /\ state[t] = "wait" => WaitsFor(t) = {k \in Tasks : owner[k] = t} \ Executing(t)
        /\ state[t] = "wait_task" => WaitsFor(t) = {awaited[t]}
        /\ state[t] \notin {"wait", "wait_task"} => WaitsFor(t) = {}
BY DEF WaitsFor

LEMMA WaitsForIsNext ==
    \A t \in Threads :
        /\ state'[t] = "wait" => WaitsFor(t)' = {k \in Tasks : owner'[k] = t} \ Executing(t)'
        /\ state'[t] = "wait_task" => WaitsFor(t)' = {awaited'[t]}
        /\ state'[t] \notin {"wait", "wait_task"} => WaitsFor(t)' = {}
BY DEF WaitsFor

(* What a step of thread t leaves alone for the other threads.             *)
OthersKept(t) ==
    /\ \A u \in Threads : u # t =>
          /\ state'[u] = state[u] /\ awaited'[u] = awaited[u]
          /\ job'[u] = job[u] /\ inline'[u] = inline[u]
          /\ job[u] # NoSlot => tasks'[job[u]].task_id = tasks[job[u]].task_id
    /\ \A k \in Tasks : owner'[k] = owner[k] \/ (owner[k] = NoThread /\ owner'[k] = t)

LEMMA OthersMapped ==
    ASSUME NEW t \in Threads, OthersKept(t), NEW u \in Threads, u # t
    PROVE  Executing(u)' = Executing(u) /\ WaitsFor(u)' = WaitsFor(u)
<1>1. Executing(u)' = Executing(u)
  BY DEF OthersKept, Executing
<1>2. {k \in Tasks : owner'[k] = u} = {k \in Tasks : owner[k] = u}
  BY ThreadsAssumption DEF OthersKept
<1>3. state'[u] = state[u] /\ awaited'[u] = awaited[u]
  BY DEF OthersKept
<1>4. WaitsFor(u)' = WaitsFor(u)
  BY <1>1, <1>2, <1>3, WaitsForIs, WaitsForIsNext
<1> QED BY <1>1, <1>4

(* A step of t that keeps what t executes and waits for, and no other      *)
(* thread's, is a stutter of TaskExec.                                     *)
LEMMA Stutters ==
    ASSUME NEW t \in Threads, OthersKept(t), UNCHANGED <<owner, finished>>,
           Executing(t)' = Executing(t), WaitsFor(t)' = WaitsFor(t)
    PROVE  UNCHANGED Abstract!vars
<1>1. \A u \in Threads : Executing(u)' = Executing(u) /\ WaitsFor(u)' = WaitsFor(u)
  BY OthersMapped
<1> QED BY <1>1 DEF Abstract!vars

(* Otherwise its effect on the two functions is at t.                      *)
LEMMA MappedAt ==
    ASSUME NEW t \in Threads, OthersKept(t), NEW E, NEW W,
           Executing(t)' = E, WaitsFor(t)' = W
    PROVE  /\ [u \in Threads |-> Executing(u)]'
                = [[u \in Threads |-> Executing(u)] EXCEPT ![t] = E]
           /\ [u \in Threads |-> WaitsFor(u)]'
                = [[u \in Threads |-> WaitsFor(u)] EXCEPT ![t] = W]
<1>1. \A u \in Threads : u # t =>
         Executing(u)' = Executing(u) /\ WaitsFor(u)' = WaitsFor(u)
  BY OthersMapped
<1> QED BY <1>1

LEMMA InitMapped == Init => Abstract!Init
<1> SUFFICES ASSUME Init PROVE Abstract!Init
  OBVIOUS
<1>1. \A t \in Threads : Executing(t) = {}
  BY DEF Init, Executing
<1>2. \A t \in Threads : WaitsFor(t) = {}
  BY WaitsForIs DEF Init
<1> QED BY <1>1, <1>2 DEF Init, Abstract!Init

LEMMA FillSlotMapped ==
    ASSUME PoolInv, TaskInv, NEW t \in Threads, NEW s \in Slots, FillSlot(t, s),
           state[t] \in {"run", "add"}, UNCHANGED <<awaited, finished>>
    PROVE  Abstract!Submit(t, next_task) /\ next_task \in Tasks
<1>1. /\ tasks[s].task_id = 0
      /\ \A u \in Slots : u # s => tasks'[u] = tasks[u]
  BY FillSlotTasks
<1>2. /\ next_task \in Tasks /\ owner[next_task] = NoThread
      /\ owner' = [owner EXCEPT ![next_task] = t]
      /\ owner'[next_task] = t
      /\ \A k \in Tasks : k # next_task => owner'[k] = owner[k]
  BY SubmittedNumbered DEF FillSlot, Submitted
<1>3. /\ \A u \in Threads : u # t => state'[u] = state[u]
      /\ state'[t] = "run"
      /\ UNCHANGED <<job, inline, awaited, finished>>
  BY DEF FillSlot, PoolInv, TypeOK, Become
<1>4. \A u \in Threads : job[u] # NoSlot =>
         job[u] # s /\ tasks'[job[u]].task_id = tasks[job[u]].task_id
  BY <1>1 DEF PoolInv, TypeOK, SlotsHeld, Threads, is_empty
<1>5. OthersKept(t)
  BY <1>2, <1>3, <1>4 DEF OthersKept
<1>6. Executing(t)' = Executing(t)
  BY <1>3, <1>4 DEF Executing
<1>7. WaitsFor(t) = {} /\ WaitsFor(t)' = {}
  BY <1>3, WaitsForIs, WaitsForIsNext
<1>8. \A u \in Threads : Executing(u)' = Executing(u) /\ WaitsFor(u)' = WaitsFor(u)
  BY <1>5, <1>6, <1>7, OthersMapped
<1> QED BY <1>2, <1>3, <1>7, <1>8 DEF Abstract!Submit, Abstract!Submitted

LEMMA RunInlineMapped ==
    ASSUME PoolInv, TaskInv, NEW t \in Threads, RunInline(t),
           state[t] = "run", UNCHANGED <<awaited, finished>>
    PROVE  Abstract!Submit(t, next_task) /\ next_task \in Tasks
<1>1. /\ next_task \in Tasks /\ owner[next_task] = NoThread
      /\ owner' = [owner EXCEPT ![next_task] = t]
      /\ owner'[next_task] = t
      /\ \A k \in Tasks : k # next_task => owner'[k] = owner[k]
  BY SubmittedNumbered DEF RunInline, Submitted
<1>2. /\ inline[t] \in Seq(Tasks)
      /\ inline'[t] = Append(inline[t], next_task)
      /\ \A u \in Threads : u # t => inline'[u] = inline[u]
      /\ UNCHANGED <<tasks, job, state, awaited, finished>>
  BY <1>1 DEF RunInline, PoolInv, TypeOK
<1>3. OthersKept(t)
  BY <1>1, <1>2 DEF OthersKept
<1>4. Executing(t)' = Executing(t) \cup {next_task}
  <2>1. {inline'[t][i] : i \in 1 .. Len(inline'[t])}
          = {inline[t][i] : i \in 1 .. Len(inline[t])} \cup {next_task}
    BY <1>2
  <2> QED BY <1>2, <2>1 DEF Executing
<1>5. WaitsFor(t) = {} /\ WaitsFor(t)' = {}
  BY <1>2, WaitsForIs, WaitsForIsNext
<1> DEFINE E == [u \in Threads |-> Executing(u)]
           W == [u \in Threads |-> WaitsFor(u)]
<1>6. E' = [E EXCEPT ![t] = Executing(t) \cup {next_task}]
  BY <1>3, <1>4, <1>5, MappedAt
<1>7. UNCHANGED W /\ W[t] = {} /\ E[t] = Executing(t)
  BY <1>3, <1>5, OthersMapped
<1>8. E' \in {E, [E EXCEPT ![t] = @ \cup {next_task}]}
  BY <1>6, <1>7
<1> HIDE DEF E, W
<1> QED BY <1>1, <1>2, <1>7, <1>8 DEF Abstract!Submit, Abstract!Submitted, E, W

(* A step of t that moves it between places where it waits for nothing.    *)
LEMMA MovesMapped ==
    ASSUME PoolInv, NEW t \in Threads, NEW st \in States, Become(t, st),
           state[t] \notin {"wait", "wait_task"}, st \notin {"wait", "wait_task"},
           UNCHANGED <<tasks, job, inline, awaited, owner, finished>>
    PROVE  UNCHANGED Abstract!vars
<1>1. /\ \A u \in Threads : u # t => state'[u] = state[u]
      /\ state'[t] = st
  BY DEF PoolInv, TypeOK, Become
<1>2. OthersKept(t) /\ Executing(t)' = Executing(t)
  BY <1>1 DEF OthersKept, Executing
<1>3. WaitsFor(t) = {} /\ WaitsFor(t)' = {}
  BY <1>1, WaitsForIs, WaitsForIsNext
<1> QED BY <1>2, <1>3, Stutters

LEMMA SleepMapped ==
    ASSUME UNCHANGED <<tasks, job, inline, state, awaited, owner, finished>>
    PROVE  UNCHANGED Abstract!vars
<1>1. \A u \in Threads : Executing(u)' = Executing(u)
  BY DEF Executing
<1>2. \A u \in Threads : WaitsFor(u)' = WaitsFor(u)
  BY <1>1 DEF WaitsFor
<1> QED BY <1>1, <1>2 DEF Abstract!vars

(* The tasks a wait is for, when the wait begins.                          *)
LEMMA BeginWaitMapped ==
    ASSUME PoolInv, TaskInv, NEW t \in Threads, NEW S \in SUBSET Tasks,
           state[t] = "run", NEW st \in {"wait", "wait_task"}, Become(t, st),
           \A u \in Threads : u # t => awaited'[u] = awaited[u],
           UNCHANGED <<tasks, job, inline, owner, finished>>,
           WaitsFor(t)' = S,
           S \subseteq {k \in Tasks : owner[k] = t} \ Executing(t)
    PROVE  Abstract!BeginWait(t, S)
<1>1. /\ \A u \in Threads : u # t => state'[u] = state[u]
      /\ state'[t] = st
  BY DEF PoolInv, TypeOK, Become
<1>2. OthersKept(t) /\ Executing(t)' = Executing(t)
  BY <1>1 DEF OthersKept, Executing
<1>3. WaitsFor(t) = {}
  BY WaitsForIs
<1> DEFINE E == [u \in Threads |-> Executing(u)]
           W == [u \in Threads |-> WaitsFor(u)]
<1>4. UNCHANGED E
  BY <1>2, OthersMapped
<1>5. W' = [W EXCEPT ![t] = S] /\ W[t] = {} /\ E[t] = Executing(t)
  BY <1>2, <1>3, MappedAt
<1>6. S \subseteq {k \in Tasks : owner[k] # NoThread /\ owner[k] = t} \ E[t]
  BY <1>5, ThreadsAssumption
<1> HIDE DEF E, W
<1>7. S \subseteq {k \in {j \in Tasks : owner[j] # NoThread} : owner[k] = t} \ E[t]
  BY <1>6
<1> QED BY <1>4, <1>5, <1>7 DEF Abstract!BeginWait, Abstract!Submitted, E, W

LEMMA CallWaitMapped ==
    ASSUME PoolInv, TaskInv, NEW t \in Threads,
           CallWaitForAll(t) \/ \E k \in Tasks : CallWaitForTask(t, k)
    PROVE  \E S \in SUBSET Tasks : Abstract!BeginWait(t, S)
<1>1. CASE CallWaitForAll(t)
  <2> DEFINE S == {k \in Tasks : owner[k] = t} \ Executing(t)
  <2>1. Become(t, "wait") /\ state'[t] = "wait" /\ state[t] = "run"
        /\ UNCHANGED <<tasks, job, inline, awaited, owner, finished>>
    BY <1>1 DEF CallWaitForAll, Become, PoolInv, TypeOK
  <2>2. Executing(t)' = Executing(t)
    BY <2>1 DEF Executing
  <2>3. WaitsFor(t)' = S /\ S \in SUBSET Tasks
    BY <2>1, <2>2, WaitsForIsNext
  <2>4. Abstract!BeginWait(t, S)
    BY <2>1, <2>3, BeginWaitMapped
  <2> QED BY <2>3, <2>4
<1>2. ASSUME NEW k \in Tasks, CallWaitForTask(t, k)
      PROVE  \E S \in SUBSET Tasks : Abstract!BeginWait(t, S)
  <2>1. Become(t, "wait_task") /\ state'[t] = "wait_task" /\ state[t] = "run"
        /\ UNCHANGED <<tasks, job, inline, owner, finished>>
        /\ awaited'[t] = k
        /\ (\A u \in Threads : u # t => awaited'[u] = awaited[u])
        /\ owner[k] = t /\ k \notin Executing(t)
    BY <1>2 DEF CallWaitForTask, Become, PoolInv, TypeOK
  <2>2. WaitsFor(t)' = {k} /\ {k} \in SUBSET Tasks
    BY <2>1, WaitsForIsNext
  <2>3. {k} \subseteq {j \in Tasks : owner[j] = t} \ Executing(t)
    BY <2>1
  <2>4. Abstract!BeginWait(t, {k})
    BY <2>1, <2>2, <2>3, BeginWaitMapped
  <2> QED BY <2>2, <2>4
<1> QED BY <1>1, <1>2

(* A task of t that is in no slot and not on t's own stack has finished.   *)
LEMMA GoneTaskFinished ==
    ASSUME PoolInv, TaskInv, NEW t \in Threads, NEW k \in Tasks, owner[k] = t,
           \A s \in Slots : tasks[s].task_id # k, k \notin Executing(t)
    PROVE  k \in finished
<1>1. k < next_task
  <2>1. owner[k] # NoThread
    BY ThreadsAssumption
  <2>2. ~ k >= next_task
    BY <2>1, Zenon DEF TaskInv, Numbered
  <2> QED BY <2>2, IdsAreNumbers
<1>2. \A u \in Threads : \A i \in 1 .. Len(inline[u]) : inline[u][i] # k
  <2> SUFFICES ASSUME NEW u \in Threads, NEW i \in 1 .. Len(inline[u]), inline[u][i] = k
               PROVE  FALSE
    OBVIOUS
  <2>1. u = t
    BY DEF TaskInv, StackTasks
  <2> QED BY <2>1 DEF Executing
<1> QED BY <1>1, <1>2 DEF TaskInv, Placed

(* A wait ends only when the tasks it is for have finished.                *)
LEMMA WaitOverFinished ==
    ASSUME PoolInv, TaskInv, NEW t \in Threads,
           \/ state[t] = "wait" /\ ~OwnTaskPending(t)
           \/ state[t] = "wait_task" /\ ~ \E s \in Slots : tasks[s].task_id = awaited[t]
    PROVE  WaitsFor(t) \subseteq finished
<1>1. CASE state[t] = "wait" /\ ~OwnTaskPending(t)
  <2> SUFFICES ASSUME NEW k \in Tasks, owner[k] = t, k \notin Executing(t)
               PROVE  k \in finished
    BY <1>1, WaitsForIs
  <2>1. \A s \in Slots : tasks[s].task_id # k
    <3> SUFFICES ASSUME NEW s \in Slots, tasks[s].task_id = k PROVE FALSE
      OBVIOUS
    <3>1. ~is_empty(s)
      BY DEF is_empty, Tasks
    <3>2. tasks[s].thread_id = t
      BY <3>1 DEF TaskInv, SlotTasks
    <3> QED BY <1>1, <3>1, <3>2 DEF OwnTaskPending
  <2> QED BY <2>1, GoneTaskFinished
<1>2. CASE state[t] = "wait_task" /\ ~ \E s \in Slots : tasks[s].task_id = awaited[t]
  <2>1. /\ awaited[t] \in Tasks /\ owner[awaited[t]] = t /\ awaited[t] \notin Executing(t)
        /\ WaitsFor(t) = {awaited[t]}
    BY <1>2, WaitsForIs DEF TaskInv, AwaitsOthers
  <2>2. awaited[t] \in finished
    BY <1>2, <2>1, GoneTaskFinished
  <2> QED BY <2>1, <2>2
<1> QED BY <1>1, <1>2

LEMMA WaitMapped ==
    ASSUME PoolInv, TaskInv, NEW t \in Threads,
           wait_for_all_tasks(t) \/ wait_for_task(t)
    PROVE  Abstract!EndWait(t) \/ UNCHANGED Abstract!vars
<1>1. CASE UNCHANGED <<tasks, state, awaited>>
  BY <1>1, SleepMapped DEF wait_for_all_tasks, wait_for_task, WaitWhile
<1>2. CASE ~UNCHANGED <<tasks, state, awaited>>
  <2>1. /\ PropagateException /\ Become(t, "run")
        /\ awaited' = [awaited EXCEPT ![t] = 0]
        /\ UNCHANGED <<job, inline, owner, finished>>
        /\ \/ state[t] = "wait" /\ ~OwnTaskPending(t)
           \/ state[t] = "wait_task" /\ ~ \E s \in Slots : tasks[s].task_id = awaited[t]
    BY <1>2 DEF wait_for_all_tasks, wait_for_task, WaitWhile
  <2>2. WaitsFor(t) \subseteq finished
    BY <2>1, WaitOverFinished
  <2>3. SameIds
    BY <2>1, PropagateTasks
  <2>4. /\ \A u \in Threads : u # t => state'[u] = state[u] /\ awaited'[u] = awaited[u]
        /\ state'[t] = "run"
    BY <2>1 DEF Become, PoolInv, TypeOK
  <2>5. \A u \in Threads : job[u] # NoSlot =>
           tasks'[job[u]].task_id = tasks[job[u]].task_id
    BY <2>3 DEF SameIds, PoolInv, TypeOK
  <2>6. OthersKept(t) /\ Executing(t)' = Executing(t)
    BY <2>1, <2>4, <2>5 DEF OthersKept, Executing
  <2>7. WaitsFor(t)' = {}
    BY <2>4, WaitsForIsNext
  <2> DEFINE E == [u \in Threads |-> Executing(u)]
             W == [u \in Threads |-> WaitsFor(u)]
  <2>8. UNCHANGED E
    BY <2>6, OthersMapped
  <2>9. W' = [W EXCEPT ![t] = {}] /\ W[t] = WaitsFor(t)
    BY <2>6, <2>7, MappedAt
  <2> HIDE DEF E, W
  <2> QED BY <2>1, <2>2, <2>8, <2>9 DEF Abstract!EndWait, E, W
<1> QED BY <1>1, <1>2

(* What a thread executes, when it holds a slot.                           *)
LEMMA ClaimTaskMapped ==
    ASSUME PoolInv, TaskInv, NEW w \in Workers, ClaimTask(w)
    PROVE  (\E k \in Tasks : Abstract!Start(w, k)) \/ UNCHANGED Abstract!vars
<1>1. /\ w \in Threads /\ state[w] = "idle" /\ inline[w] = << >> /\ job[w] = NoSlot
      /\ UNCHANGED <<inline, awaited, owner, finished>>
  BY DEF ClaimTask, Threads, TaskInv, StackTasks, Using, PoolInv, LoopStates
<1>2. CASE Become(w, "gone") /\ UNCHANGED <<tasks, job, blocked>>
  BY <1>1, <1>2, MovesMapped DEF States
<1>3. CASE UNCHANGED <<tasks, job, state>>
  BY <1>1, <1>3, SleepMapped
<1>4. ASSUME NEW s \in Slots, is_ready(s),
             tasks' = [tasks EXCEPT ![s].is_being_processed = TRUE],
             job' = [job EXCEPT ![w] = s], Become(w, "run")
      PROVE  \E k \in Tasks : Abstract!Start(w, k)
  <2> DEFINE k == tasks[s].task_id
             E == [u \in Threads |-> Executing(u)]
             W == [u \in Threads |-> WaitsFor(u)]
  <2>1. k \in Tasks /\ k < next_task /\ k \notin finished
    BY <1>4, IdsAreNumbers DEF is_ready, TaskInv, SlotTasks
  <2>2. owner[k] # NoThread
    <3>1. ~ k >= next_task
      BY <2>1, IdsAreNumbers
    <3> QED BY <2>1, <3>1, Zenon DEF TaskInv, Numbered
  <2>3. SameIds
    BY <1>4, ClaimedTasks
  <2>4. /\ \A u \in Threads : u # w => state'[u] = state[u] /\ job'[u] = job[u]
        /\ state'[w] = "run" /\ job'[w] = s /\ s # NoSlot
    BY <1>1, <1>4, PoolAssumption DEF Become, PoolInv, TypeOK
  <2>5. \A u \in Threads : job[u] # NoSlot =>
           /\ tasks'[job[u]].task_id = tasks[job[u]].task_id
           /\ tasks[job[u]].task_id # k
    <3> SUFFICES ASSUME NEW u \in Threads, job[u] # NoSlot
                 PROVE  /\ tasks'[job[u]].task_id = tasks[job[u]].task_id
                        /\ tasks[job[u]].task_id # k
      OBVIOUS
    <3>1. job[u] \in Slots /\ tasks[job[u]].is_being_processed
      BY DEF PoolInv, TypeOK, SlotsHeld, Threads
    <3>2. job[u] # s
      BY <1>4, <3>1 DEF is_ready
    <3> QED BY <1>4, <2>3, <3>1, <3>2 DEF SameIds, TaskInv, SlotTasks, is_ready
  <2>6. \A u \in Threads : k \notin Executing(u)
    BY <2>5 DEF Executing, TaskInv, StackTasks
  <2>7. OthersKept(w)
    BY <1>1, <2>4, <2>5 DEF OthersKept
  <2>8. Executing(w) = {} /\ Executing(w)' = {k}
    BY <1>1, <2>3, <2>4 DEF Executing, SameIds
  <2>9. WaitsFor(w) = {} /\ WaitsFor(w)' = {}
    BY <1>1, <2>4, WaitsForIs, WaitsForIsNext
  <2>10. UNCHANGED W
    BY <1>1, <2>7, <2>9, OthersMapped
  <2>11. E' = [E EXCEPT ![w] = @ \cup {k}] /\ \A u \in Threads : k \notin E[u]
    <3>1. E' = [E EXCEPT ![w] = {k}]
      BY <1>1, <2>7, <2>8, <2>9, MappedAt
    <3>2. E[w] = {}
      BY <1>1, <2>8
    <3> QED BY <2>6, <3>1, <3>2
  <2> HIDE DEF E, W, k
  <2>12. k \in {j \in {i \in Tasks : owner[i] # NoThread} \ finished :
                   \A u \in Threads : j \notin E[u]}
    BY <2>1, <2>2, <2>11
  <2>13. Abstract!Start(w, k)
    BY <1>1, <2>10, <2>11, <2>12 DEF Abstract!Start, Abstract!Queued, Abstract!Submitted, E, W
  <2> QED BY <2>1, <2>13
<1> QED BY <1>2, <1>3, <1>4 DEF ClaimTask

LEMMA FinishTaskMapped ==
    ASSUME PoolInv, TaskInv, NEW w \in Workers, FinishTask(w)
    PROVE  \E k \in Tasks : Abstract!Finish(w, k)
<1> DEFINE k == tasks[job[w]].task_id
           E == [u \in Threads |-> Executing(u)]
           W == [u \in Threads |-> WaitsFor(u)]
<1>1. /\ w \in Threads /\ inline[w] = << >> /\ job[w] \in Slots /\ job[w] # NoSlot
      /\ ~is_empty(job[w]) /\ finished' = finished \cup {k} /\ state[w] = "run"
      /\ UNCHANGED <<inline, awaited, owner>>
  BY FinishedTasks DEF FinishTask, Threads, CurrentTask, PoolInv, SlotsHeld, TypeOK
<1>2. /\ \A u \in Threads : u # w => state'[u] = state[u] /\ job'[u] = job[u]
      /\ state'[w] = "idle" /\ job'[w] = NoSlot
  BY <1>1, FinishedTasks DEF FinishTask, Become, PoolInv, TypeOK
<1>3. \A u \in Threads : u # w /\ job[u] # NoSlot =>
         tasks'[job[u]].task_id = tasks[job[u]].task_id
  <2> SUFFICES ASSUME NEW u \in Threads, u # w, job[u] # NoSlot
               PROVE  tasks'[job[u]] = tasks[job[u]]
    OBVIOUS
  <2>1. job[u] \in Slots /\ job[u] # job[w]
    BY <1>1 DEF PoolInv, SlotsHeld, TypeOK, Threads
  <2> QED BY <2>1, FinishedTasks
<1>4. k \in Tasks
  BY <1>1, IdsAreNumbers
<1>5. OthersKept(w)
  BY <1>1, <1>2, <1>3 DEF OthersKept
<1>6. Executing(w) = {k} /\ Executing(w)' = {}
  BY <1>1, <1>2 DEF Executing
<1>7. WaitsFor(w) = {} /\ WaitsFor(w)' = {}
  BY <1>1, <1>2, WaitsForIs, WaitsForIsNext
<1>8. UNCHANGED W /\ W[w] = {}
  BY <1>1, <1>5, <1>7, OthersMapped
<1>9. E' = [E EXCEPT ![w] = @ \ {k}] /\ k \in E[w]
  <2>1. E' = [E EXCEPT ![w] = {}]
    BY <1>1, <1>5, <1>6, <1>7, MappedAt
  <2>2. E[w] = {k}
    BY <1>1, <1>6
  <2>3. {k} \ {k} = {}
    OBVIOUS
  <2> HIDE DEF E, k
  <2> QED BY <2>1, <2>2, <2>3
<1> HIDE DEF E, W, k
<1>10. Abstract!Finish(w, k)
  BY <1>1, <1>8, <1>9 DEF Abstract!Finish, E, W
<1> QED BY <1>4, <1>10

LEMMA ReturnInlineMapped ==
    ASSUME PoolInv, TaskInv, NEW t \in Threads, ReturnInline(t)
    PROVE  \E k \in Tasks : Abstract!Finish(t, k)
<1> DEFINE n == Len(inline[t])
           k == inline[t][n]
           E == [u \in Threads |-> Executing(u)]
           W == [u \in Threads |-> WaitsFor(u)]
<1>1. /\ n \in Nat \ {0} /\ Len(inline'[t]) = n - 1
      /\ \A i \in 1 .. n - 1 : inline'[t][i] = inline[t][i]
      /\ \A u \in Threads : u # t => inline'[u] = inline[u]
      /\ finished' = finished \cup {k}
      /\ UNCHANGED <<tasks, job, state, awaited, owner>>
  BY PoppedStack
<1>2. /\ k \in Tasks
      /\ \A s \in Slots : tasks[s].task_id # k
      /\ \A i \in 1 .. n - 1 : inline[t][i] # k
  BY <1>1, IdsAreNumbers DEF TaskInv, StackTasks
<1>3. OthersKept(t)
  BY <1>1 DEF OthersKept
<1>4. {inline'[t][i] : i \in 1 .. Len(inline'[t])}
        = {inline[t][i] : i \in 1 .. n} \ {k}
  BY <1>1, <1>2
<1>5. job[t] # NoSlot => tasks[job[t]].task_id # k
  BY <1>2 DEF PoolInv, TypeOK
<1> HIDE DEF k, n
<1>6. Executing(t)' = Executing(t) \ {k}
  BY <1>1, <1>4, <1>5 DEF Executing, n
<1>7. k \in Executing(t)
  BY <1>1 DEF Executing, k, n
<1>8. WaitsFor(t) = {} /\ WaitsFor(t)' = {}
  BY <1>1, WaitsForIs, WaitsForIsNext DEF ReturnInline
<1>9. UNCHANGED W /\ W[t] = {}
  BY <1>3, <1>8, OthersMapped
<1>10. E' = [E EXCEPT ![t] = @ \ {k}] /\ k \in E[t]
  BY <1>3, <1>6, <1>7, <1>8, MappedAt
<1> HIDE DEF E, W
<1>11. Abstract!Finish(t, k)
  BY <1>1, <1>9, <1>10 DEF Abstract!Finish, E, W
<1> QED BY <1>2, <1>11

LEMMA EndMapped ==
    ASSUME PoolInv, TaskInv,
           \/ \E c \in Callers : Leave(c)
           \/ CallShutdown \/ shutdown_pool \/ JoinWorkers
    PROVE  UNCHANGED Abstract!vars
<1>1. UNCHANGED <<tasks, job, inline, awaited, owner, finished>>
  BY DEF Leave, CallShutdown, shutdown_pool, JoinWorkers
<1>2. CASE UNCHANGED state
  BY <1>1, <1>2, SleepMapped
<1>3. ASSUME NEW c \in Threads, state[c] \in {"run", "shutdown", "join"},
             NEW st \in {"done", "shutdown", "join", "aborted"}, Become(c, st)
      PROVE  UNCHANGED Abstract!vars
  BY <1>1, <1>3, MovesMapped DEF States
<1>4. Owner \in Threads /\ \A c \in Callers : c \in Threads
  BY ThreadsAssumption DEF Threads
<1>5. ASSUME NEW c \in Callers, Leave(c) PROVE UNCHANGED Abstract!vars
  BY <1>3, <1>4, <1>5 DEF Leave
<1>6. CASE CallShutdown
  BY <1>3, <1>4, <1>6 DEF CallShutdown
<1>7. CASE shutdown_pool
  BY <1>2, <1>3, <1>4, <1>7 DEF shutdown_pool
<1>8. CASE JoinWorkers
  BY <1>3, <1>4, <1>8 DEF JoinWorkers
<1> QED BY <1>5, <1>6, <1>7, <1>8

LEMMA NextMapped == PoolInv /\ TaskInv /\ [Next]_vars => [Abstract!Next]_(Abstract!vars)
<1> SUFFICES ASSUME PoolInv, TaskInv, [Next]_vars
             PROVE  Abstract!Next \/ UNCHANGED Abstract!vars
  OBVIOUS
<1>1. ASSUME NEW t \in Threads, add_task(t) \/ add_task_woken(t)
      PROVE  Abstract!Next \/ UNCHANGED Abstract!vars
  <2>1. state[t] \in {"run", "add"} /\ UNCHANGED <<awaited, finished>>
    BY <1>1 DEF add_task, add_task_woken
  <2>2. \/ \E s \in Slots : FillSlot(t, s)
        \/ RunInline(t) /\ state[t] = "run"
        \/ AwaitSlot(t)
    BY <1>1 DEF add_task, add_task_woken
  <2>3. CASE AwaitSlot(t)
    BY <2>1, <2>3, MovesMapped DEF AwaitSlot, States
  <2>4. CASE (\E s \in Slots : FillSlot(t, s)) \/ (RunInline(t) /\ state[t] = "run")
    <3>1. Abstract!Submit(t, next_task) /\ next_task \in Tasks
      BY <2>1, <2>4, FillSlotMapped, RunInlineMapped
    <3> QED BY <3>1 DEF Abstract!Next
  <2> QED BY <2>2, <2>3, <2>4
<1>2. ASSUME NEW t \in Threads, UserStep(t)
      PROVE  Abstract!Next \/ UNCHANGED Abstract!vars
  BY <1>1, <1>2, CallWaitMapped DEF UserStep, Abstract!Next
<1>3. ASSUME NEW t \in Threads, PoolStep(t)
      PROVE  Abstract!Next \/ UNCHANGED Abstract!vars
  BY <1>1, <1>3, WaitMapped DEF PoolStep, Abstract!Next
<1>4. ASSUME NEW t \in Threads, ReturnInline(t) PROVE Abstract!Next
  BY <1>4, ReturnInlineMapped DEF Abstract!Next
<1>5. ASSUME NEW t \in Threads, SpuriousWakeup(t) PROVE UNCHANGED Abstract!vars
  BY <1>5, SleepMapped DEF SpuriousWakeup
<1>6. ASSUME NEW w \in Workers, ClaimTask(w) \/ FinishTask(w)
      PROVE  Abstract!Next \/ UNCHANGED Abstract!vars
  <2>1. w \in Threads
    BY DEF Threads
  <2> QED BY <1>6, <2>1, ClaimTaskMapped, FinishTaskMapped DEF Abstract!Next
<1>7. CASE \/ \E c \in Callers : Leave(c)
           \/ CallShutdown \/ shutdown_pool \/ JoinWorkers
  BY <1>7, EndMapped
<1>8. CASE UNCHANGED vars
  BY <1>8, SleepMapped DEF vars
<1>9. CASE Terminated
  BY <1>8, <1>9 DEF Terminated
<1> QED BY <1>2, <1>3, <1>4, <1>5, <1>6, <1>7, <1>8, <1>9 DEF Next

(* The pool keeps the promise of TaskExec: each task handed over is        *)
(* executed exactly once and by one thread, wherever add_task put it, and  *)
(* a wait returns only when the tasks it is for have finished.             *)
THEOREM PoolExecutesTasks == Spec => ImplementsTaskExec
<1>1. Init => Abstract!Init
  BY InitMapped
<1>2. PoolInv /\ TaskInv /\ [Next]_vars => [Abstract!Next]_(Abstract!vars)
  BY NextMapped
<1> QED BY <1>1, <1>2, TasksInvariant, PTL DEF Spec, ImplementsTaskExec, Abstract!Spec
====
