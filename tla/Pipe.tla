------------------------------- MODULE Pipe -------------------------------
(***************************************************************************)
(* dlib::pipe (pipe/pipe_kernel_1.h): a bounded queue between threads, in  *)
(* a ring of pipe_max_size items; of size 0 it passes items from hand to   *)
(* hand.  Threads block in it on three signalers of one mutex, with or     *)
(* without a timeout, and it can be disabled, emptied and destroyed under  *)
(* them.                                                                   *)
(*                                                                         *)
(* Every critical section of the mutex m is one action: from the lock at   *)
(* the start of a call, or from a wake-up, to the unlock at its return or  *)
(* the next wait.  Items are numbered in the order they are offered;       *)
(* patience says which overload a call is: forever (enqueue, dequeue),     *)
(* timeout (the _or_timeout ones), now (the same with a timeout of 0).     *)
(***************************************************************************)
EXTENDS Naturals, Sequences, FiniteSets

CONSTANTS
    Threads,        \* the threads that use the pipe
    Calls,          \* the blocking calls a thread makes
    Owner,          \* the thread that destroys the pipe
    MaxSizes,       \* what the constructor's argument may be
    Nums,           \* what wait_for_num_blocked_dequeues may be asked for
    MaxItems        \* bound: items offered in a behaviour

ASSUME PipeAssumption ==
    /\ IsFiniteSet(Threads) /\ Owner \in Threads
    /\ MaxSizes \subseteq Nat /\ Nums \subseteq Nat /\ MaxItems \in Nat

VARIABLES
    pipe_size, pipe_max_size, data, first, last,
    enabled, enqueue_enabled, dequeue_enabled,
    dequeue_waiters, enqueue_waiters, unblock_sig_waiters,
    call,           \* the call a thread is in
    sleep,          \* whether it is asleep in a signaler, or its timer has ended
    fate            \* history: what became of the items offered so far

ring == <<pipe_size, data, first, last>>
switches == <<enabled, enqueue_enabled, dequeue_enabled>>
counters == <<dequeue_waiters, enqueue_waiters, unblock_sig_waiters>>
vars == <<pipe_max_size, ring, switches, counters, call, sleep, fate>>

NoItem == 0
Items == 1 .. MaxItems
Idle == [op |-> "idle", arg |-> 0, patience |-> "forever"]

EnqueueOps == {"enqueue", "handover", "wait_until_empty"}
UnblockOps == {"wait_for_num_blocked_dequeues", "destroy"}

(* the threads inside calls of a kind, and those of them that are asleep *)
In(ops) == {t \in Threads : call[t].op \in ops}
Asleep(ops) == {t \in In(ops) : sleep[t] = "asleep"}

on_enqueue_sig == Asleep(EnqueueOps)
on_dequeue_sig == Asleep({"dequeue"})
on_unblock_sig == Asleep(UnblockOps)

destroying == In({"destroy", "destroyed"}) # {}

Init ==
    /\ pipe_max_size \in MaxSizes
    /\ pipe_size = 0
    /\ data = [i \in 0 .. (IF pipe_max_size > 0 THEN pipe_max_size - 1 ELSE 0) |-> NoItem]
    /\ first = 1 /\ last = 1
    /\ enabled = TRUE /\ enqueue_enabled = TRUE /\ dequeue_enabled = TRUE
    /\ dequeue_waiters = 0 /\ enqueue_waiters = 0 /\ unblock_sig_waiters = 0
    /\ call = [t \in Threads |-> Idle]
    /\ sleep = [t \in Threads |-> "awake"]
    /\ fate = <<>>

(***************************************************************************)
(* How a critical section ends for t: it waits in its call c, or leaves    *)
(* the pipe.  Both wake the threads in W.                                  *)
(***************************************************************************)
Wake(W) == [u \in Threads |-> IF u \in W THEN "awake" ELSE sleep[u]]

Wait(t, c, W) ==
    /\ call' = [call EXCEPT ![t] = c]
    /\ sleep' = [Wake(W) EXCEPT ![t] = "asleep"]

Leave(t, W) ==
    /\ call' = [call EXCEPT ![t] = Idle]
    /\ sleep' = [Wake(W) EXCEPT ![t] = "awake"]

When(condition, W) == IF condition THEN W ELSE {}

(* slip: takes the destructor, alone on unblock_sig, for nobody *)
unblock_sleepers_many == When(unblock_sig_waiters > 1, on_unblock_sig)

unblock_sleepers == When(unblock_sig_waiters > 0, on_unblock_sig)

(* slip: runs past the end of the ring *)
next_index_overruns(i) == i + 1

next_index(i) == (i + 1) % pipe_max_size

(* slip: only the first item of a pipe wakes a dequeue *)
taker_woken_once ==
    IF dequeue_waiters > 0 /\ pipe_size = 0 /\ on_dequeue_sig # {}
    THEN {{u} : u \in on_dequeue_sig} ELSE {{}}

(* dequeue_sig.signal() wakes any one sleeper *)
taker_woken ==
    IF dequeue_waiters > 0 /\ on_dequeue_sig # {}
    THEN {{u} : u \in on_dequeue_sig} ELSE {{}}

Settled(i, f) == IF i \in DOMAIN fate THEN [fate EXCEPT ![i] = f] ELSE Append(fate, f)

(***************************************************************************)
(* enqueue and enqueue_or_timeout, with ew the value of enqueue_waiters    *)
(* while t is counted.                                                     *)
(***************************************************************************)
no_room(c) ==
    /\ pipe_size = pipe_max_size /\ enabled /\ enqueue_enabled
    /\ ~ (/\ pipe_max_size = 0 /\ first = 1
          /\ c.patience # "forever" => dequeue_waiters > 0)

(* slip: counts the thread again on every turn of the loop *)
EnqueueWaitsRecounts(t, c, ew) ==
    /\ no_room(c) /\ sleep[t] # "expired" /\ c.patience # "now"
    /\ Wait(t, c, {})
    /\ fate' = Settled(c.arg, "offered")
    /\ enqueue_waiters' = enqueue_waiters + 1
    /\ UNCHANGED <<ring, dequeue_waiters, unblock_sig_waiters>>

EnqueueWaits(t, c, ew) ==
    /\ no_room(c) /\ sleep[t] # "expired" /\ c.patience # "now"
    /\ Wait(t, c, {})
    /\ fate' = Settled(c.arg, "offered")
    /\ enqueue_waiters' = ew
    /\ UNCHANGED <<ring, dequeue_waiters, unblock_sig_waiters>>

EnqueueFails(t, c, ew) ==
    /\ \/ ~ enabled \/ ~ enqueue_enabled
       \/ sleep[t] = "expired"
       \/ (no_room(c) /\ c.patience = "now")
    /\ Leave(t, on_unblock_sig)
    /\ fate' = Settled(c.arg, "refused")
    /\ enqueue_waiters' = ew - 1
    /\ UNCHANGED <<ring, dequeue_waiters, unblock_sig_waiters>>

EnqueueInserts(t, c, ew) ==
    /\ enabled /\ enqueue_enabled /\ ~ no_room(c) /\ sleep[t] # "expired"
    /\ first' = IF pipe_size = 0 THEN 0 ELSE first
    /\ last' = IF pipe_size = 0 THEN 0 ELSE next_index(last)
    /\ data' = [data EXCEPT ![last'] = c.arg]
    /\ \E W \in taker_woken :
          IF pipe_max_size > 0
          THEN /\ pipe_size' = pipe_size + 1
               /\ Leave(t, W)
               /\ fate' = Settled(c.arg, "held")
               /\ enqueue_waiters' = ew - 1
          ELSE /\ Wait(t, [c EXCEPT !.op = "handover"], W)
               /\ fate' = Settled(c.arg, "offered")
               /\ enqueue_waiters' = ew
               /\ UNCHANGED pipe_size
    /\ UNCHANGED <<dequeue_waiters, unblock_sig_waiters>>

EnqueueSection(t, c, ew) ==
    /\ EnqueueWaits(t, c, ew) \/ EnqueueFails(t, c, ew) \/ EnqueueInserts(t, c, ew)
    /\ UNCHANGED <<pipe_max_size, switches>>

Enqueue(t) ==
    /\ call[t] = Idle /\ "enqueue" \in Calls[t] /\ ~ destroying
    /\ Len(fate) < MaxItems
    /\ \E p \in {"forever", "timeout", "now"} :
          EnqueueSection(t, [op |-> "enqueue", arg |-> Len(fate) + 1, patience |-> p],
                         enqueue_waiters + 1)

EnqueueResumes(t) ==
    /\ call[t].op = "enqueue" /\ sleep[t] # "asleep"
    /\ EnqueueSection(t, call[t], enqueue_waiters)

(* a pipe of size 0: the item lies in data[0] until a dequeue sets last to 1 *)
HandoverWaits(t) ==
    /\ last = 0 /\ enabled /\ enqueue_enabled
    /\ Wait(t, call[t], {})
    /\ UNCHANGED <<ring, counters, fate>>

HandoverRetracts(t) ==
    /\ last = 0 /\ ~ (enabled /\ enqueue_enabled)
    /\ first' = 1 /\ last' = 1
    /\ data' = [data EXCEPT ![0] = NoItem]
    /\ Leave(t, unblock_sleepers)
    /\ fate' = Settled(call[t].arg, "refused")
    /\ enqueue_waiters' = enqueue_waiters - 1
    /\ UNCHANGED <<pipe_size, dequeue_waiters, unblock_sig_waiters>>

HandoverEnds(t) ==
    /\ last # 0
    /\ first' = 1 /\ last' = 1
    /\ Leave(t, When(enqueue_waiters > 1, on_enqueue_sig)
                \cup When(~ enabled, unblock_sleepers))
    /\ fate' = Settled(call[t].arg, "taken")
    /\ enqueue_waiters' = enqueue_waiters - 1
    /\ UNCHANGED <<pipe_size, data, dequeue_waiters, unblock_sig_waiters>>

HandoverResumes(t) ==
    /\ call[t].op = "handover" /\ sleep[t] # "asleep"
    /\ HandoverWaits(t) \/ HandoverRetracts(t) \/ HandoverEnds(t)
    /\ UNCHANGED <<pipe_max_size, switches>>

(***************************************************************************)
(* dequeue and dequeue_or_timeout, with dw the value of dequeue_waiters    *)
(* while t is counted and W the threads woken at the start of a call.      *)
(***************************************************************************)
(* slip: does not see that the item was taken already *)
nothing_there_stale ==
    /\ pipe_size = 0 /\ enabled /\ dequeue_enabled
    /\ ~ (pipe_max_size = 0 /\ first = 0)

nothing_there ==
    /\ pipe_size = 0 /\ enabled /\ dequeue_enabled
    /\ ~ (pipe_max_size = 0 /\ first = 0 /\ last = 0)

DequeueWaits(t, c, dw, W) ==
    /\ nothing_there /\ sleep[t] # "expired" /\ c.patience # "now"
    /\ Wait(t, c, W)
    /\ dequeue_waiters' = dw
    /\ UNCHANGED <<ring, fate>>

DequeueFails(t, c, dw, W) ==
    /\ \/ ~ enabled \/ ~ dequeue_enabled
       \/ sleep[t] = "expired"
       \/ (nothing_there /\ c.patience = "now")
    /\ Leave(t, W \cup on_unblock_sig)
    /\ dequeue_waiters' = dw - 1
    /\ UNCHANGED <<ring, fate>>

DequeueTakes(t, dw, W) ==
    /\ enabled /\ dequeue_enabled /\ ~ nothing_there /\ sleep[t] # "expired"
    /\ data' = [data EXCEPT ![first] = NoItem]
    /\ fate' = Settled(data[first], IF pipe_max_size > 0 THEN "taken" ELSE "passed")
    /\ IF pipe_max_size > 0
       THEN /\ first' = next_index(first)
            /\ pipe_size' = pipe_size - 1
            /\ UNCHANGED last
       ELSE last' = 1 /\ UNCHANGED <<pipe_size, first>>
    /\ Leave(t, W \cup When(enqueue_waiters > 0, on_enqueue_sig))
    /\ dequeue_waiters' = dw - 1

DequeueSection(t, c, dw, W) ==
    /\ DequeueWaits(t, c, dw, W) \/ DequeueFails(t, c, dw, W) \/ DequeueTakes(t, dw, W)
    /\ UNCHANGED <<pipe_max_size, switches, enqueue_waiters, unblock_sig_waiters>>

Dequeue(t) ==
    /\ call[t] = Idle /\ "dequeue" \in Calls[t] /\ ~ destroying
    /\ \E p \in {"forever", "timeout", "now"} :
          DequeueSection(t, [op |-> "dequeue", arg |-> 0, patience |-> p],
             dequeue_waiters + 1,
             When(pipe_size = 0, unblock_sleepers \cup
                                 When(enqueue_waiters > 0, on_enqueue_sig)))

DequeueResumes(t) ==
    /\ call[t].op = "dequeue" /\ sleep[t] # "asleep"
    /\ DequeueSection(t, call[t], dequeue_waiters, {})

(***************************************************************************)
(* The calls that wait for the pipe to drain, and the destructor.          *)
(***************************************************************************)
UntilEmptySection(t, ew) ==
    /\ IF pipe_size > 0 /\ enabled /\ dequeue_enabled
       THEN /\ Wait(t, [Idle EXCEPT !.op = "wait_until_empty"], {})
            /\ enqueue_waiters' = ew
       ELSE /\ Leave(t, When(~ enabled, on_unblock_sig))
            /\ enqueue_waiters' = ew - 1
    /\ UNCHANGED <<pipe_max_size, ring, switches, dequeue_waiters,
                   unblock_sig_waiters, fate>>

wait_until_empty(t) ==
    \/ /\ call[t] = Idle /\ "wait_until_empty" \in Calls[t] /\ ~ destroying
       /\ UntilEmptySection(t, enqueue_waiters + 1)
    \/ /\ call[t].op = "wait_until_empty" /\ sleep[t] # "asleep"
       /\ UntilEmptySection(t, enqueue_waiters)

NumBlockedSection(t, c, uw) ==
    /\ IF (dequeue_waiters < c.arg \/ pipe_size # 0) /\ enabled /\ dequeue_enabled
       THEN /\ Wait(t, c, {})
            /\ unblock_sig_waiters' = uw
       ELSE /\ Leave(t, When(~ enabled, on_unblock_sig))
            /\ unblock_sig_waiters' = uw - 1
    /\ UNCHANGED <<pipe_max_size, ring, switches, dequeue_waiters,
                   enqueue_waiters, fate>>

wait_for_num_blocked_dequeues(t) ==
    \/ /\ call[t] = Idle /\ "wait_for_num_blocked_dequeues" \in Calls[t] /\ ~ destroying
       /\ \E num \in Nums :
             NumBlockedSection(t, [Idle EXCEPT !.op = "wait_for_num_blocked_dequeues",
                                               !.arg = num], unblock_sig_waiters + 1)
    \/ /\ call[t].op = "wait_for_num_blocked_dequeues" /\ sleep[t] # "asleep"
       /\ NumBlockedSection(t, call[t], unblock_sig_waiters)

(* slip: does not wait for the threads in wait_for_num_blocked_dequeues *)
someone_inside_early(uw) == dequeue_waiters > 0 \/ enqueue_waiters > 0

someone_inside(uw) == dequeue_waiters > 0 \/ enqueue_waiters > 0 \/ uw > 1

DestroySection(t, uw, W) ==
    /\ IF someone_inside(uw)
       THEN /\ Wait(t, [Idle EXCEPT !.op = "destroy"], W)
            /\ unblock_sig_waiters' = uw
       ELSE /\ call' = [call EXCEPT ![t] = [Idle EXCEPT !.op = "destroyed"]]
            /\ sleep' = [Wake(W) EXCEPT ![t] = "awake"]
            /\ unblock_sig_waiters' = uw - 1
    /\ UNCHANGED <<pipe_max_size, ring, enqueue_enabled, dequeue_enabled,
                   dequeue_waiters, enqueue_waiters, fate>>

everyone_asleep == {t \in Threads : sleep[t] = "asleep"}

destroy(t) ==
    \/ /\ call[t] = Idle /\ t = Owner
       /\ enabled' = FALSE
       /\ DestroySection(t, unblock_sig_waiters + 1, everyone_asleep)
    \/ /\ call[t].op = "destroy" /\ sleep[t] # "asleep"
       /\ DestroySection(t, unblock_sig_waiters, {})
       /\ UNCHANGED enabled

(***************************************************************************)
(* The calls that never block.  Any thread may make them until the pipe is *)
(* being destroyed.                                                        *)
(***************************************************************************)
empty ==
    /\ pipe_size' = 0
    /\ sleep' = Wake(When(enqueue_waiters > 0, on_enqueue_sig))
    /\ fate' = [i \in DOMAIN fate |-> IF fate[i] = "held" THEN "dropped" ELSE fate[i]]
    /\ UNCHANGED <<data, first, last, switches>>

Switch(e, ee, de, W) ==
    /\ enabled' = e /\ enqueue_enabled' = ee /\ dequeue_enabled' = de
    /\ sleep' = Wake(W)
    /\ UNCHANGED <<ring, fate>>

enable == Switch(TRUE, enqueue_enabled, dequeue_enabled, {})
(* slip: forgets the third signaler *)
disable_forgets ==
    Switch(FALSE, enqueue_enabled, dequeue_enabled, on_enqueue_sig \cup on_dequeue_sig)

disable == Switch(FALSE, enqueue_enabled, dequeue_enabled, everyone_asleep)
enable_enqueue == Switch(enabled, TRUE, dequeue_enabled, {})
(* slip: wakes nobody *)
disable_enqueue_silent == Switch(enabled, FALSE, dequeue_enabled, {})

disable_enqueue == Switch(enabled, FALSE, dequeue_enabled, on_enqueue_sig)
enable_dequeue == Switch(enabled, enqueue_enabled, TRUE, {})
disable_dequeue == Switch(enabled, enqueue_enabled, FALSE, on_dequeue_sig)

Control ==
    /\ ~ destroying
    /\ \/ empty \/ enable \/ disable \/ enable_enqueue \/ disable_enqueue
       \/ enable_dequeue \/ disable_dequeue
    /\ UNCHANGED <<pipe_max_size, counters, call>>

(***************************************************************************)
(* The signalers: wait_or_timeout runs out of time, and a wait may end for *)
(* no reason.                                                              *)
(***************************************************************************)
SetSleep(t, s) ==
    /\ sleep' = [sleep EXCEPT ![t] = s]
    /\ UNCHANGED <<pipe_max_size, ring, switches, counters, call, fate>>

Expire(t) ==
    /\ sleep[t] = "asleep" /\ call[t].patience = "timeout" /\ call[t].op # "handover"
    /\ SetSleep(t, "expired")

SpuriousWakeup(t) == sleep[t] = "asleep" /\ SetSleep(t, "awake")

Resume(t) ==
    \/ EnqueueResumes(t) \/ HandoverResumes(t) \/ DequeueResumes(t)
    \/ /\ call[t] # Idle
       /\ wait_until_empty(t) \/ wait_for_num_blocked_dequeues(t) \/ destroy(t)

(* everything is over *)
Terminated == In({"destroyed"}) # {} /\ In({"idle", "destroyed"}) = Threads /\ UNCHANGED vars

Next ==
    \/ \E t \in Threads :
          \/ Enqueue(t) \/ EnqueueResumes(t) \/ HandoverResumes(t)
          \/ Dequeue(t) \/ DequeueResumes(t)
          \/ wait_until_empty(t) \/ wait_for_num_blocked_dequeues(t) \/ destroy(t)
          \/ Expire(t) \/ SpuriousWakeup(t)
    \/ Control
    \/ Terminated

Spec == Init /\ [][Next]_vars

(* a thread that is awake inside a call gets the mutex in the end *)
FairSpec == Spec /\ \A t \in Threads : WF_vars(Resume(t))

(***************************************************************************)
(* Properties                                                              *)
(***************************************************************************)
Callings == [op : {"idle", "destroyed", "dequeue"} \cup EnqueueOps \cup UnblockOps,
             arg : {0} \cup Items \cup Nums, patience : {"forever", "timeout", "now"}]

(* The types; the ring indices stay inside the ring, or are 1 while a pipe *)
(* of size 0 has no item to hand over.                                     *)
TypeOK ==
    /\ pipe_max_size \in MaxSizes /\ pipe_size \in 0 .. pipe_max_size
    /\ data \in [DOMAIN data -> Items \cup {NoItem}]
    /\ first \in DOMAIN data \cup {1} /\ last \in DOMAIN data \cup {1}
    /\ switches \in BOOLEAN \X BOOLEAN \X BOOLEAN
    /\ \A n \in {dequeue_waiters, enqueue_waiters, unblock_sig_waiters} : n \in Nat
    /\ call \in [Threads -> Callings]
    /\ sleep \in [Threads -> {"awake", "asleep", "expired"}]
    /\ fate \in Seq({"offered", "held", "passed", "taken", "dropped", "refused"})

(* The convention the class states: each counter is the number of threads  *)
(* inside the calls it stands for, on every way out of them, timeouts and  *)
(* retracted handovers included.                                           *)
WaitersCounted ==
    /\ dequeue_waiters = Cardinality(In({"dequeue"}))
    /\ enqueue_waiters = Cardinality(In(EnqueueOps))
    /\ unblock_sig_waiters = Cardinality(In(UnblockOps))

(* A thread asleep in enqueue could not go on if it were woken now; nobody *)
(* sleeps in a disabled pipe, in dequeue when dequeueing is disabled, in   *)
(* wait_until_empty of an empty pipe, or in the destructor of a pipe that  *)
(* everybody has left.  Exempt, because the code does not wake them: both  *)
(* waits while dequeueing is disabled, and wait_for_num_blocked_dequeues   *)
(* when the count and the size it waits for are reached.                   *)
SleepersHaveReason ==
    \A t \in Threads : sleep[t] = "asleep" =>
        CASE call[t].op = "enqueue" -> no_room(call[t])
          [] call[t].op = "handover" -> last = 0 /\ enabled /\ enqueue_enabled
          [] call[t].op = "dequeue" -> enabled /\ dequeue_enabled
          [] call[t].op = "wait_until_empty" -> pipe_size > 0 /\ enabled
          [] call[t].op = "wait_for_num_blocked_dequeues" -> enabled
          [] OTHER -> someone_inside(unblock_sig_waiters)

(* enqueue wakes one sleeper per item: while a thread is still asleep in   *)
(* dequeue, each item that lies there has a thread on its way to it, even  *)
(* when others come first and timers run out.                              *)
ItemsHaveTakers ==
    on_dequeue_sig # {} =>
        LET available == IF pipe_max_size > 0 THEN pipe_size
                         ELSE IF first = 0 /\ last = 0 THEN 1 ELSE 0
        IN Cardinality({t \in In({"dequeue"}) : sleep[t] = "awake"}) >= available

(* The destructor frees the ring only when no thread is inside a call.     *)
FreedOnlyWhenLeft ==
    In({"destroyed"}) # {} => In({"idle", "destroyed"}) = Threads

(* The oldest item is at first, the others follow round the ring *)
content == [i \in 1 .. pipe_size |-> data[(first + i - 1) % pipe_max_size]]

Queue == INSTANCE Channel WITH capacity <- pipe_max_size

(* The ring, the handover and the timeouts implement the abstract channel: *)
(* every item is taken once, in order, by one thread, or refused, or       *)
(* dropped by empty(); and enqueue returns true just when the item went in.*)
ImplementsChannel == Queue!Spec

(* disable() lets every call return, unless the pipe is enabled again.     *)
DisableReleases == ~ enabled ~> (enabled \/ In({"idle", "destroyed"}) = Threads)

(* The destructor's wait for the threads inside ends.                      *)
DestructionEnds == destroying ~> (In({"destroyed"}) # {})

(* What the documentation says of wait_for_num_blocked_dequeues: it blocks *)
(* until size() is 0 and num threads are blocked in dequeue.  When all of  *)
(* that is so, and nobody is awake to change it, nobody should sleep in it.*)
BlockedDequeuesSeen ==
    \A t \in Asleep({"wait_for_num_blocked_dequeues"}) :
        ~ /\ pipe_size = 0
          /\ Cardinality(on_dequeue_sig) >= call[t].arg
          /\ \A u \in Threads : call[u] = Idle \/ sleep[u] = "asleep"
=============================================================================
