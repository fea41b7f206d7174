------------------------------ MODULE TaskExec ------------------------------
(***************************************************************************)
(* What dlib::thread_pool promises to the code that uses it: a task handed *)
(* over by add_task is executed exactly once, by one thread, and a thread  *)
(* that waits goes on only when the tasks it waits for have finished.      *)
(* Slots, signalers and the mutex are ThreadPool's business.               *)
(***************************************************************************)
EXTENDS Naturals

CONSTANTS
    Threads,        \* every thread that may run code of a task or submit one
    Tasks,          \* the tasks of a behaviour
    NoThread        \* not in Threads: the owner of a task not submitted yet

VARIABLES
    owner,          \* the thread that submitted a task
    executing,      \* the tasks on a thread's call stack
    finished,       \* the tasks whose body has ended
    waiting         \* the tasks a thread has asked to wait for

vars == <<owner, executing, finished, waiting>>

Submitted == {k \in Tasks : owner[k] # NoThread}

Queued == {k \in Submitted \ finished : \A t \in Threads : k \notin executing[t]}

Init ==
    /\ owner = [k \in Tasks |-> NoThread]
    /\ executing = [t \in Threads |-> {}]
    /\ finished = {}
    /\ waiting = [t \in Threads |-> {}]

(* t submits k, and executes it on the spot when no other thread can *)
Submit(t, k) ==
    /\ waiting[t] = {}
    /\ k \notin Submitted
    /\ owner' = [owner EXCEPT ![k] = t]
    /\ executing' \in {executing, [executing EXCEPT ![t] = @ \cup {k}]}
    /\ UNCHANGED <<finished, waiting>>

Start(t, k) ==
    /\ k \in Queued
    /\ executing' = [executing EXCEPT ![t] = @ \cup {k}]
    /\ UNCHANGED <<owner, finished, waiting>>

Finish(t, k) ==
    /\ k \in executing[t] /\ waiting[t] = {}
    /\ executing' = [executing EXCEPT ![t] = @ \ {k}]
    /\ finished' = finished \cup {k}
    /\ UNCHANGED <<owner, waiting>>

(* a thread waits for tasks it submitted, never for what it is executing *)
BeginWait(t, S) ==
    /\ waiting[t] = {}
    /\ S \subseteq {k \in Submitted : owner[k] = t} \ executing[t]
    /\ waiting' = [waiting EXCEPT ![t] = S]
    /\ UNCHANGED <<owner, executing, finished>>

EndWait(t) ==
    /\ waiting[t] \subseteq finished
    /\ waiting' = [waiting EXCEPT ![t] = {}]
    /\ UNCHANGED <<owner, executing, finished>>

Next ==
    \E t \in Threads :
        \/ \E k \in Tasks : Submit(t, k) \/ Start(t, k) \/ Finish(t, k)
        \/ \E S \in SUBSET Tasks : BeginWait(t, S)
        \/ EndWait(t)

Spec == Init /\ [][Next]_vars
=============================================================================
