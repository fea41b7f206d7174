---------------------------- MODULE ParallelFor ----------------------------
(***************************************************************************)
(* dlib::parallel_for_blocked and parallel_for                             *)
(* (threads/parallel_for_extension.h): an index range is cut into blocks,  *)
(* each block becomes a task of a thread pool, and the calling thread, one *)
(* outside the pool, waits for all of them.  A pool without threads leaves *)
(* the whole range to the caller.  Of the pool only what TaskExec promises *)
(* is used, and that add_task blocks while every task slot is in use.      *)
(***************************************************************************)
EXTENDS Integers, FiniteSets

CONSTANTS
    Workers,            \* threads that may belong to the pool
    Caller,             \* the thread that calls parallel_for
    Pools,              \* the pools to consider
    Begin, End,         \* the range of a call
    ChunksPerThread     \* chunks_per_thread of a call with a pool

ASSUME ParallelForAssumption ==
    /\ IsFiniteSet(Workers) /\ Pools \subseteq SUBSET Workers /\ Caller \notin Workers
    /\ Begin \in Int /\ End \in Int /\ Begin <= End
    /\ ChunksPerThread \in [Pools -> Nat \ {0}]

VARIABLES
    pool,               \* the threads of the pool
    phase,              \* where the caller is
    i,                  \* its loop variable
    queue,              \* blocks added and not taken yet
    work,               \* what is left of the block a thread is processing
    seen                \* history: how often an index was processed in this call

forVars == <<pool, phase, i, queue, work, seen>>

Threads == Workers \cup {Caller}
Indices == Begin .. End - 1
num == End - Begin
num_workers == Cardinality(pool)

NoWork == [next |-> End, end |-> End, busy |-> FALSE]

ForInit ==
    /\ pool \in Pools
    /\ phase = "idle" /\ i = 0 /\ queue = {}
    /\ work = [t \in Threads |-> NoWork]
    /\ seen = [k \in Indices |-> 0]

(* slip: rounds down to blocks of no index *)
block_size_zero == num \div (num_workers * ChunksPerThread[pool])

block_size ==
    LET share == num \div (num_workers * ChunksPerThread[pool])
    IN IF share > 1 THEN share ELSE 1

min(x, y) == IF x < y THEN x ELSE y

(* slip: blocks share their first and last index *)
Block_overlapping(b) == [next |-> Begin + b, end |-> Begin + min(b + block_size + 1, num), busy |-> TRUE]

Block(b) == [next |-> Begin + b, end |-> Begin + min(b + block_size, num), busy |-> TRUE]

Call ==
    /\ phase \in {"idle", "returned"}
    /\ i' = 0 /\ queue' = {}
    /\ seen' = [k \in Indices |-> 0]
    /\ IF pool # {}
       THEN phase' = "adding" /\ UNCHANGED work
       ELSE /\ phase' = "waiting"
            /\ work' = [work EXCEPT ![Caller] = [next |-> Begin, end |-> End, busy |-> TRUE]]
    /\ UNCHANGED pool

busy == {t \in Threads : work[t].busy}

(* one turn of the loop; there are as many task slots as workers *)
AddBlock ==
    /\ phase = "adding" /\ i < num
    /\ Cardinality(queue) + Cardinality(busy) < num_workers
    /\ queue' = queue \cup {Block(i)}
    /\ i' = i + block_size
    /\ UNCHANGED <<pool, phase, work, seen>>

AllAdded ==
    /\ phase = "adding" /\ i >= num
    /\ phase' = "waiting"
    /\ UNCHANGED <<pool, i, queue, work, seen>>

TakeBlock(t) ==
    /\ t \in pool /\ ~ work[t].busy
    /\ \E b \in queue :
          /\ queue' = queue \ {b}
          /\ work' = [work EXCEPT ![t] = b]
    /\ UNCHANGED <<pool, phase, i, seen>>

(* the function is called with the thread's next index *)
Process(t) ==
    /\ work[t].busy /\ work[t].next < work[t].end
    /\ seen' = [seen EXCEPT ![work[t].next] = @ + 1]
    /\ work' = [work EXCEPT ![t].next = @ + 1]
    /\ UNCHANGED <<pool, phase, i, queue>>

FinishBlock(t) ==
    /\ work[t].busy /\ work[t].next = work[t].end
    /\ work' = [work EXCEPT ![t] = NoWork]
    /\ UNCHANGED <<pool, phase, i, queue, seen>>

(* wait_for_all_tasks *)
Return ==
    /\ phase = "waiting" /\ queue = {} /\ busy = {}
    /\ phase' = "returned"
    /\ UNCHANGED <<pool, i, queue, work, seen>>

ForNext ==
    \/ Call \/ AddBlock \/ AllAdded \/ Return
    \/ \E t \in Threads : TakeBlock(t) \/ Process(t) \/ FinishBlock(t)

ForSpec == ForInit /\ [][ForNext]_forVars

(* Whatever the range and the pool, an index is never processed twice in a *)
(* call, and every index has been when the call returns.                   *)
EachIndexOnce ==
    /\ \A k \in Indices : seen[k] <= 1
    /\ phase = "returned" => \A k \in Indices : seen[k] = 1

(* Two blocks in the pool never share an index, so the function needs no   *)
(* lock for what belongs to one index.                                     *)
NoIndexShared ==
    LET left(b) == b.next .. b.end - 1
    IN /\ \A b, d \in queue : b = d \/ left(b) \cap left(d) = {}
       /\ \A t, u \in Threads : t = u \/ left(work[t]) \cap left(work[u]) = {}
       /\ \A t \in Threads, b \in queue : left(work[t]) \cap left(b) = {}
=============================================================================
