----------------------------- MODULE ThreadPool -----------------------------
(***************************************************************************)
(* dlib::thread_pool, the engine under HOGtrainer::setup's training        *)
(* (threads/thread_pool_extension.h).  The pool holds one task slot per    *)
(* worker.  add_task fills an empty slot; called by a worker when none is  *)
(* empty it runs the task itself; called by any other thread it waits for  *)
(* a slot.  Workers take ready slots; wait_for_all_tasks blocks on the     *)
(* slots its own thread filled.                                            *)
(*                                                                         *)
(* Every critical section of the mutex m is one action, from a lock or a   *)
(* wake-up to the unlock or the next wait.  The bodies the header only     *)
(* declares (the worker loop, the waits, shutdown_pool) are compiled into  *)
(* the bundled libdlib.a; they are modelled from the contracts the header  *)
(* states and the state it declares for them.                              *)
(*                                                                         *)
(* Tasks are numbered in the order they are submitted.  A task's body may  *)
(* submit tasks and wait for tasks, and then returns or throws.            *)
(***************************************************************************)
EXTENDS Integers, Sequences, FiniteSets

CONSTANTS
    Workers,        \* the threads of the pool
    Callers,        \* threads outside the pool that use it
    Owner,          \* the caller that destroys the pool
    Slots,          \* indices of the array tasks
    NoThread,       \* not a thread
    NoSlot,         \* not a slot
    MaxTasks,       \* bound: tasks submitted in a behaviour
    Structured      \* TRUE: a body ends only after the tasks it submitted

Threads == Workers \cup Callers
Tasks == 1 .. MaxTasks

(* num_threads_in_pool() == tasks.size() *)
ASSUME PoolAssumption ==
    /\ IsFiniteSet(Workers) /\ IsFiniteSet(Slots)
    /\ Cardinality(Workers) = Cardinality(Slots)
    /\ NoSlot \notin Slots

ASSUME ThreadsAssumption ==
    /\ Workers \cap Callers = {}
    /\ Owner \in Callers
    /\ NoThread \notin Threads

ASSUME BoundsAssumption == MaxTasks \in Nat /\ Structured \in BOOLEAN

VARIABLES
    tasks,                  \* the slots: array<task_state_type>
    job,                    \* worker's local idx: the slot it processes
    inline,                 \* bodies a thread runs inside add_task
    state,                  \* where a thread is
    awaited,                \* the task a wait_for_task waits for
    blocked,                \* threads asleep in a signaler
    we_are_destructing,
    next_task,              \* the number of the next task submitted
    owner,                  \* history: the thread that submitted a task
    parent,                 \* history: the task that submitted a task, or 0
    finished                \* history: tasks whose body has ended

vars == <<tasks, job, inline, state, awaited, blocked, we_are_destructing,
          next_task, owner, parent, finished>>

(* run: user code of a caller or a body; add, wait, wait_task,         *)
(* shutdown, join: inside that member function; idle: in the worker loop   *)
States == {"run", "add", "wait", "wait_task", "idle", "gone",
           "shutdown", "join", "done", "aborted"}

TaskStates == [task_id : 0 .. MaxTasks, thread_id : Threads \cup {NoThread},
               is_being_processed : BOOLEAN, eptr : BOOLEAN]

(* slip: a task being processed counts as gone *)
is_empty_early(s) == tasks[s].task_id = 0 \/ tasks[s].is_being_processed

is_empty(s) == tasks[s].task_id = 0

(* slip: is_being_processed is not looked at *)
is_ready_taken(s) == ~is_empty(s)

(* slip: the ! before is_being_processed is missing *)
is_ready_inverted(s) == tasks[s].is_being_processed /\ ~is_empty(s)

is_ready(s) == ~tasks[s].is_being_processed /\ ~is_empty(s)

(* slip: the worker ids are not looked up *)
is_worker_thread_lost(t) == Slots = {}

is_worker_thread(t) == t \in Workers \/ Slots = {}

(* the two signalers: workers sleep on the first, everyone else on the other *)
task_ready_waiters == {t \in blocked : state[t] = "idle"}
task_done_waiters == blocked \ task_ready_waiters

(* the task a thread's user code belongs to; 0 for a caller's own code *)
CurrentTask(t) ==
    IF inline[t] # << >> THEN inline[t][Len(inline[t])]
    ELSE IF job[t] # NoSlot THEN tasks[job[t]].task_id
    ELSE 0

Executing(t) ==
    {inline[t][i] : i \in 1 .. Len(inline[t])}
        \cup (IF job[t] # NoSlot THEN {tasks[job[t]].task_id} ELSE {})

OwnTaskPending(t) == \E s \in Slots : ~is_empty(s) /\ tasks[s].thread_id = t

-----------------------------------------------------------------------------

Init ==
    /\ tasks = [s \in Slots |-> [task_id |-> 0, thread_id |-> NoThread,
                                 is_being_processed |-> FALSE, eptr |-> FALSE]]
    /\ job = [t \in Threads |-> NoSlot]
    /\ inline = [t \in Threads |-> << >>]
    /\ state = [t \in Threads |-> IF t \in Workers THEN "idle" ELSE "run"]
    /\ awaited = [t \in Threads |-> 0]
    /\ blocked = {}
    /\ we_are_destructing = FALSE
    /\ next_task = 1
    /\ owner = [k \in Tasks |-> NoThread]
    /\ parent = [k \in Tasks |-> 0]
    /\ finished = {}

Become(t, st) == state' = [state EXCEPT ![t] = st]

(* slip: no signal *)
SignalNobody == UNCHANGED blocked

(* signaler::signal wakes one thread, if any sleeps *)
SignalReady ==
    IF task_ready_waiters = {} THEN UNCHANGED blocked
    ELSE \E w \in task_ready_waiters : blocked' = blocked \ {w}

(* the submission every branch of add_task makes *)
Submitted(t) ==
    /\ next_task \in Tasks
    /\ next_task' = next_task + 1
    /\ owner' = [owner EXCEPT ![next_task] = t]
    /\ parent' = [parent EXCEPT ![next_task] = CurrentTask(t)]

(* slip: the id is made after next_task_id moved on *)
FillSlotLateId(t, s) ==
    /\ is_empty(s)
    /\ Submitted(t)
    /\ tasks' = [tasks EXCEPT ![s].task_id = next_task', ![s].thread_id = t]
    /\ SignalReady
    /\ Become(t, "run")
    /\ UNCHANGED <<job, inline>>

(* add_task found slot s empty: fill it and wake a worker *)
FillSlot(t, s) ==
    /\ is_empty(s)
    /\ Submitted(t)
    /\ tasks' = [tasks EXCEPT ![s].task_id = next_task, ![s].thread_id = t]
    /\ SignalReady
    /\ Become(t, "run")
    /\ UNCHANGED <<job, inline>>

(* no slot is empty and the caller is a worker: it runs the task itself *)
RunInline(t) ==
    /\ \A s \in Slots : ~is_empty(s)
    /\ is_worker_thread(t)
    /\ Submitted(t)
    /\ inline' = [inline EXCEPT ![t] = Append(@, next_task)]
    /\ UNCHANGED <<tasks, job, state, blocked>>

(* no slot is empty: sleep until a task is done *)
AwaitSlot(t) ==
    /\ \A s \in Slots : ~is_empty(s)
    /\ ~is_worker_thread(t)
    /\ Become(t, "add")
    /\ blocked' = blocked \cup {t}
    /\ UNCHANGED <<tasks, job, inline, next_task, owner, parent>>

(* bound: every add_task under way has a task number left *)
MaySubmit == next_task + Cardinality({u \in Threads : state[u] = "add"}) \in Tasks

add_task(t) ==
    /\ state[t] = "run" /\ MaySubmit
    /\ (\E s \in Slots : FillSlot(t, s)) \/ RunInline(t) \/ AwaitSlot(t)
    /\ UNCHANGED <<awaited, we_are_destructing, finished>>

(* task_done_signaler.wait() returned inside add_task *)
add_task_woken(t) ==
    /\ state[t] = "add" /\ t \notin blocked
    /\ (\E s \in Slots : FillSlot(t, s)) \/ AwaitSlot(t)
    /\ UNCHANGED <<awaited, we_are_destructing, finished>>

(* propagate_exception on the slots: at most one trapped exception leaves *)
PropagateException ==
    \/ /\ \A s \in Slots : ~tasks[s].eptr
       /\ UNCHANGED tasks
    \/ \E s \in Slots : /\ tasks[s].eptr
                        /\ tasks' = [tasks EXCEPT ![s].eptr = FALSE]

(* A wait: sleep while pending, else rethrow and go back to the caller.    *)
WaitWhile(t, pending) ==
    /\ t \notin blocked
    /\ \/ /\ pending
          /\ blocked' = blocked \cup {t}
          /\ UNCHANGED <<tasks, state, awaited>>
       \/ /\ ~pending
          /\ PropagateException
          /\ Become(t, "run")
          /\ awaited' = [awaited EXCEPT ![t] = 0]
          /\ UNCHANGED blocked
    /\ UNCHANGED <<job, inline, we_are_destructing, next_task, owner, parent,
                   finished>>

CallWaitForAll(t) ==
    /\ state[t] = "run"
    /\ Become(t, "wait")
    /\ UNCHANGED <<tasks, job, inline, awaited, blocked, we_are_destructing,
                   next_task, owner, parent, finished>>

wait_for_all_tasks(t) ==
    state[t] = "wait" /\ WaitWhile(t, OwnTaskPending(t))

(* wait_for_task, or a future's get or destructor, on a task of one's own *)
CallWaitForTask(t, k) ==
    /\ state[t] = "run"
    /\ k < next_task /\ owner[k] = t /\ k \notin Executing(t)
    /\ Become(t, "wait_task")
    /\ awaited' = [awaited EXCEPT ![t] = k]
    /\ UNCHANGED <<tasks, job, inline, blocked, we_are_destructing, next_task,
                   owner, parent, finished>>

wait_for_task(t) ==
    /\ state[t] = "wait_task"
    /\ WaitWhile(t, \E s \in Slots : tasks[s].task_id = awaited[t])

-----------------------------------------------------------------------------
(* The worker loop                                                         *)

(* slip: the worker empties the slot when it takes the task *)
ClaimTaskFreesSlot(w) ==
    /\ state[w] = "idle" /\ w \notin blocked
    /\ ~we_are_destructing
    /\ \E s \in Slots :
          /\ is_ready(s)
          /\ tasks' = [tasks EXCEPT ![s].task_id = 0]
          /\ job' = [job EXCEPT ![w] = s]
    /\ Become(w, "run")
    /\ UNCHANGED <<inline, awaited, blocked, we_are_destructing, next_task,
                   owner, parent, finished>>

ClaimTask(w) ==
    /\ state[w] = "idle" /\ w \notin blocked
    /\ \/ /\ we_are_destructing
          /\ Become(w, "gone")
          /\ UNCHANGED <<tasks, job, blocked>>
       \/ /\ ~we_are_destructing
          /\ \E s \in Slots :
                /\ is_ready(s)
                /\ tasks' = [tasks EXCEPT ![s].is_being_processed = TRUE]
                /\ job' = [job EXCEPT ![w] = s]
          /\ Become(w, "run")
          /\ UNCHANGED blocked
       \/ /\ ~we_are_destructing
          /\ \A s \in Slots : ~is_ready(s)
          /\ blocked' = blocked \cup {w}
          /\ UNCHANGED <<tasks, job, state>>
    /\ UNCHANGED <<inline, awaited, we_are_destructing, next_task, owner,
                   parent, finished>>

(* A structured body, like parallel_for_blocked, waits for what it submits *)
MayEnd(k) == Structured => \A c \in Tasks : parent[c] = k => c \in finished

(* The body in w's slot returned or threw: empty the slot, tell everyone.  *)
FinishTask(w) ==
    /\ state[w] = "run" /\ job[w] # NoSlot /\ inline[w] = << >>
    /\ MayEnd(CurrentTask(w))
    /\ finished' = finished \cup {CurrentTask(w)}
    /\ \E threw \in BOOLEAN :
          tasks' = [tasks EXCEPT ![job[w]].task_id = 0,
                                 ![job[w]].is_being_processed = FALSE,
                                 ![job[w]].eptr = threw]
    /\ job' = [job EXCEPT ![w] = NoSlot]
    /\ Become(w, "idle")
    /\ blocked' = task_ready_waiters
    /\ UNCHANGED <<inline, awaited, we_are_destructing, next_task, owner,
                   parent>>

(* A body run inside add_task ended; an exception of it goes to the body   *)
(* that called add_task, which may end in turn.                            *)
ReturnInline(t) ==
    /\ state[t] = "run" /\ inline[t] # << >>
    /\ MayEnd(CurrentTask(t))
    /\ finished' = finished \cup {CurrentTask(t)}
    /\ inline' = [inline EXCEPT ![t] = SubSeq(@, 1, Len(@) - 1)]
    /\ UNCHANGED <<tasks, job, state, awaited, blocked, we_are_destructing,
                   next_task, owner, parent>>

-----------------------------------------------------------------------------
(* The end of the pool                                                     *)

(* a caller other than the owner stops using the pool *)
Leave(c) ==
    /\ c # Owner /\ state[c] = "run" /\ inline[c] = << >>
    /\ Become(c, "done")
    /\ UNCHANGED <<tasks, job, inline, awaited, blocked, we_are_destructing,
                   next_task, owner, parent, finished>>

(* ~thread_pool, once nobody else can call it *)
CallShutdown ==
    /\ state[Owner] = "run" /\ inline[Owner] = << >>
    /\ \A c \in Callers \ {Owner} : state[c] = "done"
    /\ Become(Owner, "shutdown")
    /\ UNCHANGED <<tasks, job, inline, awaited, blocked, we_are_destructing,
                   next_task, owner, parent, finished>>

shutdown_pool ==
    /\ state[Owner] = "shutdown" /\ Owner \notin blocked
    /\ \/ /\ \E s \in Slots : ~is_empty(s)
          /\ blocked' = blocked \cup {Owner}
          /\ UNCHANGED <<state, we_are_destructing>>
       \/ /\ \A s \in Slots : is_empty(s)
          /\ we_are_destructing' = TRUE
          /\ blocked' = task_done_waiters
          /\ Become(Owner, "join")
    /\ UNCHANGED <<tasks, job, inline, awaited, next_task, owner, parent,
                   finished>>

(* the workers are joined; an exception nobody took ends the program *)
JoinWorkers ==
    /\ state[Owner] = "join"
    /\ \A w \in Workers : state[w] = "gone"
    /\ Become(Owner, IF \E s \in Slots : tasks[s].eptr THEN "aborted"
                                                       ELSE "done")
    /\ UNCHANGED <<tasks, job, inline, awaited, blocked, we_are_destructing,
                   next_task, owner, parent, finished>>

(* signaler::wait may return without a signal *)
SpuriousWakeup(t) ==
    /\ t \in blocked
    /\ blocked' = blocked \ {t}
    /\ UNCHANGED <<tasks, job, inline, state, awaited, we_are_destructing,
                   next_task, owner, parent, finished>>

Terminated == state[Owner] \in {"done", "aborted"} /\ UNCHANGED vars

-----------------------------------------------------------------------------

UserStep(t) ==
    \/ add_task(t) \/ CallWaitForAll(t)
    \/ \E k \in Tasks : CallWaitForTask(t, k)

PoolStep(t) ==
    add_task_woken(t) \/ wait_for_all_tasks(t) \/ wait_for_task(t)

Next ==
    \/ \E t \in Threads : UserStep(t) \/ PoolStep(t) \/ ReturnInline(t)
                         \/ SpuriousWakeup(t)
    \/ \E w \in Workers : ClaimTask(w) \/ FinishTask(w)
    \/ \E c \in Callers : Leave(c)
    \/ CallShutdown \/ shutdown_pool \/ JoinWorkers
    \/ Terminated

Spec == Init /\ [][Next]_vars

(* The scheduler runs every thread that can run.  A body uses the pool     *)
(* only finitely often, so it ends if it may end again and again, that is, *)
(* once the tasks it must wait for have: nothing else is assumed of it.    *)
Fairness ==
    /\ \A t \in Threads : WF_vars(PoolStep(t)) /\ SF_vars(ReturnInline(t))
    /\ \A w \in Workers : WF_vars(ClaimTask(w)) /\ SF_vars(FinishTask(w))
    /\ WF_vars(shutdown_pool) /\ WF_vars(JoinWorkers)

FairSpec == Spec /\ Fairness

-----------------------------------------------------------------------------
(* Properties                                                              *)

(* Every variable keeps its type. *)
TypeOK ==
    /\ tasks \in [Slots -> TaskStates]
    /\ job \in [Threads -> Slots \cup {NoSlot}]
    /\ inline \in [Threads -> Seq(Tasks)]
    /\ state \in [Threads -> States]
    /\ awaited \in [Threads -> 0 .. MaxTasks]
    /\ blocked \subseteq Threads
    /\ we_are_destructing \in BOOLEAN
    /\ next_task \in 1 .. MaxTasks + 1
    /\ owner \in [Tasks -> Threads \cup {NoThread}]
    /\ parent \in [Tasks -> 0 .. MaxTasks]
    /\ finished \subseteq Tasks

(* A task put into a slot never depends on a body ending: while a task is  *)
(* ready some worker is in its loop, so nested submissions cannot leave a  *)
(* queued task behind workers that all wait for it.                        *)
ReadyTaskHasIdleWorker ==
    (\E s \in Slots : is_ready(s)) => \E w \in Workers : state[w] = "idle"

(* No wake-up is lost: at least as many workers are awake in their loop as *)
(* there are tasks to take, although add_task signals only one sleeper and *)
(* other workers may take the task before that one runs.                   *)
NoLostWakeup ==
    Cardinality({s \in Slots : is_ready(s)})
        <= Cardinality({w \in Workers \ blocked : state[w] = "idle"})

(* The destructor stops the workers only after every task has been run.    *)
ShutdownAfterAllTasks ==
    we_are_destructing => \A k \in 1 .. next_task - 1 : k \in finished

(* The slots, signalers and inline calls implement the promise of          *)
(* TaskExec: exactly one execution per task, and no wait that returns      *)
(* before the tasks it is for.                                             *)
WaitsFor(t) ==
    CASE state[t] = "wait" -> {k \in Tasks : owner[k] = t} \ Executing(t)
      [] state[t] = "wait_task" -> {awaited[t]}
      [] OTHER -> {}

Abstract == INSTANCE TaskExec
                WITH executing <- [t \in Threads |-> Executing(t)],
                     waiting <- [t \in Threads |-> WaitsFor(t)]

ImplementsTaskExec == Abstract!Spec

(* Every submitted task is executed to its end.                            *)
EveryTaskFinishes == \A k \in Tasks : k < next_task ~> k \in finished

(* Every thread waiting for a slot or for tasks goes on: nested waits and  *)
(* submissions at a full pool do not deadlock.                             *)
WaitersReturn ==
    \A t \in Threads :
        state[t] \in {"add", "wait", "wait_task"} ~> state[t] = "run"

(* Destroying the pool comes to an end.                                    *)
ShutdownCompletes ==
    state[Owner] = "shutdown" ~> state[Owner] \in {"done", "aborted"}

(* A trapped exception leaves the pool when someone calls a member that    *)
(* adds a task: no task is taken in while an exception is still trapped.   *)
AddTaskRethrows ==
    [][next_task' # next_task => \A s \in Slots : ~tasks[s].eptr]_vars
=============================================================================
