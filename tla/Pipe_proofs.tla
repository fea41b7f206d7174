---------------------------- MODULE Pipe_proofs ----------------------------
(***************************************************************************)
(* Proofs about Pipe, for every number of threads, sizes and items: its    *)
(* counters count the threads inside, so the destructor frees the ring     *)
(* only when nobody is; nobody sleeps in a disabled pipe or, in enqueue,   *)
(* beside room, and each item has a taker on its way to it; and it         *)
(* implements Channel.                                                     *)
(***************************************************************************)
EXTENDS Pipe, FiniteSetTheorems, SequenceTheorems, TLAPS

(* only the owner is ever in the destructor                                *)
OwnerDestroys ==
    \A t \in Threads : call[t].op \in {"destroy", "destroyed"} => t = Owner

(* what an enqueue waits with is an item                                   *)
ItemsOffered == \A t \in Threads : call[t].op = "enqueue" => call[t].arg \in Items

RingDomain == DOMAIN data = 0 .. (IF pipe_max_size > 0 THEN pipe_max_size - 1 ELSE 0)

Fates == {"offered", "held", "passed", "taken", "dropped", "refused"}
Sleeps == {"awake", "asleep", "expired"}

(* the types, but for the calls and the counters of threads inside         *)
RestTypes ==
    /\ pipe_max_size \in MaxSizes /\ pipe_size \in 0 .. pipe_max_size
    /\ data \in [DOMAIN data -> Items \cup {NoItem}]
    /\ first \in DOMAIN data \cup {1} /\ last \in DOMAIN data \cup {1}
    /\ switches \in BOOLEAN \X BOOLEAN \X BOOLEAN
    /\ sleep \in [Threads -> Sleeps]
    /\ fate \in Seq(Fates)
    /\ RingDomain

PipeInv ==
    /\ TypeOK /\ RingDomain /\ WaitersCounted
    /\ OwnerDestroys /\ ItemsOffered /\ FreedOnlyWhenLeft

Counted(c, ops) == IF c.op \in ops THEN 1 ELSE 0

(* t goes from where it is to c, and the counters follow                   *)
Moves(t, c) ==
    /\ c \in Callings
    /\ call' = [call EXCEPT ![t] = c]
    /\ dequeue_waiters' = dequeue_waiters - Counted(call[t], {"dequeue"})
                                          + Counted(c, {"dequeue"})
    /\ enqueue_waiters' = enqueue_waiters - Counted(call[t], EnqueueOps)
                                          + Counted(c, EnqueueOps)
    /\ unblock_sig_waiters' = unblock_sig_waiters - Counted(call[t], UnblockOps)
                                                  + Counted(c, UnblockOps)

(* when t may do so, as far as the destructor is concerned                 *)
Orderly(t, c) ==
    /\ c.op \in {"destroy", "destroyed"} => t = Owner
    /\ c.op = "destroyed" => \A u \in Threads \ {t} : call[u].op \in {"idle", "destroyed"}
    /\ call[t].op # "destroyed"
    /\ call[t].op = "idle" => ~ destroying \/ t = Owner
    /\ c.op = "enqueue" => c.arg \in Items

(* the number of threads inside some calls when one thread moves           *)
LEMMA CountIn ==
    ASSUME call \in [Threads -> Callings], NEW ops, NEW t \in Threads, NEW c,
           call' = [call EXCEPT ![t] = c]
    PROVE  /\ Cardinality(In(ops)) \in Nat /\ Cardinality(In(ops)') \in Nat
           /\ Cardinality(In(ops)') = Cardinality(In(ops)) - Counted(call[t], ops)
                                                          + Counted(c, ops)
           /\ Cardinality(In(ops)) = 0 => In(ops) = {}
           /\ Cardinality(In(ops)) = 1 /\ t \in In(ops) => In(ops) = {t}
<1> DEFINE before == {u \in Threads : call[u].op \in ops}
           after == {u \in Threads : call'[u].op \in ops}
           rest == before \ {t}
<1>1. IsFiniteSet(before)
  BY PipeAssumption, FS_Subset
<1>2. /\ IsFiniteSet(rest)
      /\ Cardinality(rest) = IF t \in before THEN Cardinality(before) - 1
                                             ELSE Cardinality(before)
  <2> HIDE DEF before
  <2> QED BY <1>1, FS_RemoveElement
<1>3. Cardinality(before) \in Nat /\ Cardinality(rest) \in Nat
  <2> HIDE DEF before, rest
  <2> QED BY <1>1, <1>2, FS_CardinalityType
<1>4. t \in before <=> call[t].op \in ops
  OBVIOUS
<1>5. after = IF c.op \in ops THEN rest \cup {t} ELSE rest
  OBVIOUS
<1>6. Cardinality(rest \cup {t}) = Cardinality(rest) + 1
  <2>1. t \notin rest
    OBVIOUS
  <2> HIDE DEF rest
  <2> QED BY <1>2, <2>1, FS_AddElement
<1>7. Cardinality(before) = 0 <=> before = {}
  <2> HIDE DEF before
  <2> QED BY <1>1, FS_EmptySet
<1>8. Cardinality(before) = 1 /\ t \in before => before = {t}
  <2> SUFFICES ASSUME Cardinality(before) = 1, t \in before PROVE before = {t}
    OBVIOUS
  <2>1. Cardinality(rest) = 0
    BY <1>2, <1>3
  <2>2. rest = {}
    <3> HIDE DEF rest
    <3> QED BY <1>2, <2>1, FS_EmptySet
  <2> QED BY <2>2
<1>9. Cardinality(after) = Cardinality(before) - Counted(call[t], ops) + Counted(c, ops)
  <2> HIDE DEF before, after, rest
  <2> QED BY <1>2, <1>3, <1>4, <1>5, <1>6 DEF Counted
<1>10. Cardinality(after) \in Nat
  <2> HIDE DEF before, after, rest
  <2> QED BY <1>3, <1>5, <1>6
<1>11. before = In(ops) /\ after = In(ops)'
  BY DEF In
<1> HIDE DEF before, after
<1> QED BY <1>3, <1>7, <1>8, <1>9, <1>10, <1>11

LEMMA MovesKeepCounts ==
    ASSUME TypeOK, WaitersCounted, NEW t \in Threads, NEW c, Moves(t, c)
    PROVE  /\ WaitersCounted'
           /\ dequeue_waiters' \in Nat /\ enqueue_waiters' \in Nat
           /\ unblock_sig_waiters' \in Nat
<1>1. call \in [Threads -> Callings] /\ call' = [call EXCEPT ![t] = c]
  BY DEF Moves, TypeOK
<1>2. dequeue_waiters' = Cardinality(In({"dequeue"})') /\ dequeue_waiters' \in Nat
  <2> DEFINE D == {"dequeue"}
  <2>1. /\ dequeue_waiters = Cardinality(In(D))
        /\ dequeue_waiters' = dequeue_waiters - Counted(call[t], D) + Counted(c, D)
    BY DEF WaitersCounted, Moves
  <2> HIDE DEF D
  <2>2. dequeue_waiters' = Cardinality(In(D)') /\ dequeue_waiters' \in Nat
    BY <1>1, <2>1, CountIn
  <2> QED BY <2>2 DEF D
<1>3. enqueue_waiters' = Cardinality(In(EnqueueOps)') /\ enqueue_waiters' \in Nat
  BY <1>1, CountIn DEF WaitersCounted, Moves
<1>4. unblock_sig_waiters' = Cardinality(In(UnblockOps)') /\ unblock_sig_waiters' \in Nat
  BY <1>1, CountIn DEF WaitersCounted, Moves
<1> QED BY <1>2, <1>3, <1>4 DEF WaitersCounted

LEMMA MovesKeepOrder ==
    ASSUME TypeOK, OwnerDestroys, ItemsOffered, FreedOnlyWhenLeft,
           NEW t \in Threads, NEW c, Moves(t, c), Orderly(t, c)
    PROVE  OwnerDestroys' /\ ItemsOffered' /\ FreedOnlyWhenLeft'
<1>1. \A u \in Threads : call'[u] = IF u = t THEN c ELSE call[u]
  BY DEF Moves, TypeOK
<1>2. OwnerDestroys' /\ ItemsOffered'
  BY <1>1 DEF OwnerDestroys, ItemsOffered, Orderly
<1>3. ASSUME NEW u \in Threads, call'[u].op = "destroyed", NEW v \in Threads
      PROVE  call'[v].op \in {"idle", "destroyed"}
  <2>1. CASE c.op = "destroyed"
    BY <1>1, <2>1 DEF Orderly
  <2>2. CASE c.op # "destroyed"
    <3>1. u # t /\ call[u].op = "destroyed"
      BY <1>1, <1>3, <2>2
    <3>2. u = Owner /\ destroying
      BY <3>1 DEF OwnerDestroys, destroying, In
    <3>3. \A x \in Threads : call[x].op \in {"idle", "destroyed"}
      BY <3>1 DEF FreedOnlyWhenLeft, In
    <3>4. FALSE
      BY <3>1, <3>2, <3>3 DEF Orderly
    <3> QED BY <3>4
  <2> QED BY <2>1, <2>2
<1> QED BY <1>2, <1>3 DEF FreedOnlyWhenLeft, In

(* one thread's step that keeps the other types keeps the invariant        *)
LEMMA StepKeepsInv ==
    ASSUME PipeInv, NEW t \in Threads, NEW c, Moves(t, c), Orderly(t, c), RestTypes'
    PROVE  PipeInv'
<1>1. call' \in [Threads -> Callings]
  BY DEF PipeInv, TypeOK, Moves
<1>2. TypeOK'
  BY <1>1, MovesKeepCounts DEF PipeInv, RestTypes, TypeOK, Fates, Sleeps
<1> QED BY <1>2, MovesKeepCounts, MovesKeepOrder DEF PipeInv, RestTypes

(* what signalers, mutex and history do to the types                       *)
LEMMA SectionTypes ==
    ASSUME TypeOK
    PROVE  /\ \A W : Wake(W) \in [Threads -> Sleeps]
           /\ \A t \in Threads : \A c, W :
                 Wait(t, c, W) => /\ call' = [call EXCEPT ![t] = c]
                                  /\ sleep' \in [Threads -> Sleeps]
           /\ \A t \in Threads : \A W :
                 Leave(t, W) => /\ call' = [call EXCEPT ![t] = Idle]
                                /\ sleep' \in [Threads -> Sleeps]
           /\ \A i, f : f \in Fates => Settled(i, f) \in Seq(Fates)
<1>1. sleep \in [Threads -> Sleeps] /\ fate \in Seq(Fates)
  BY DEF TypeOK, Sleeps, Fates
<1>2. \A W : Wake(W) \in [Threads -> Sleeps]
  BY <1>1 DEF Wake, Sleeps
<1>3. ASSUME NEW i, NEW f \in Fates PROVE Settled(i, f) \in Seq(Fates)
  <2>1. CASE i \in DOMAIN fate
    BY <1>1, <2>1 DEF Settled
  <2>2. CASE i \notin DOMAIN fate
    BY <1>1, <2>2 DEF Settled
  <2> QED BY <2>1, <2>2
<1> QED BY <1>2, <1>3 DEF Wait, Leave, Sleeps

LEMMA NextIndex ==
    ASSUME NEW n \in Nat \ {0}, pipe_max_size = n, NEW i \in Nat
    PROVE  next_index(i) \in 0 .. n - 1
<1> QED BY DEF next_index

LEMMA IdleCalling == Idle \in Callings /\ Idle.op = "idle"
<1> QED BY DEF Idle, Callings

Steps(t) == RestTypes' /\ \E c : Moves(t, c) /\ Orderly(t, c)

LEMMA Unmoved == ASSUME PipeInv PROVE RestTypes
<1> QED BY DEF PipeInv, TypeOK, RestTypes, Fates, Sleeps

LEMMA EnqueueSteps ==
    ASSUME PipeInv, NEW t \in Threads, NEW c \in Callings, NEW ew,
           EnqueueSection(t, c, ew), c.op = "enqueue", c.arg \in Items,
           ew = enqueue_waiters - Counted(call[t], EnqueueOps) + 1,
           call[t].op \in {"idle", "enqueue"},
           call[t].op = "idle" => ~ destroying
    PROVE  Steps(t)
<1>1. TypeOK /\ RestTypes
  BY Unmoved DEF PipeInv
<1>2. enqueue_waiters \in Nat /\ dequeue_waiters \in Nat /\ unblock_sig_waiters \in Nat
  BY <1>1 DEF TypeOK
<1>3. UNCHANGED <<pipe_max_size, switches, dequeue_waiters, unblock_sig_waiters>>
  BY DEF EnqueueSection, EnqueueWaits, EnqueueFails, EnqueueInserts
<1>4. CASE EnqueueWaits(t, c, ew)
  <2>1. /\ call' = [call EXCEPT ![t] = c] /\ sleep' \in [Threads -> Sleeps]
        /\ fate' \in Seq(Fates) /\ UNCHANGED ring /\ enqueue_waiters' = ew
    BY <1>1, <1>4, SectionTypes DEF EnqueueWaits, Fates
  <2>2. RestTypes'
    BY <1>1, <1>3, <2>1 DEF RestTypes, RingDomain, ring
  <2>3. Moves(t, c) /\ Orderly(t, c)
    BY <1>2, <1>3, <2>1 DEF Moves, Orderly, Counted, EnqueueOps, UnblockOps
  <2> QED BY <2>2, <2>3 DEF Steps
<1>5. CASE EnqueueFails(t, c, ew)
  <2>1. /\ call' = [call EXCEPT ![t] = Idle] /\ sleep' \in [Threads -> Sleeps]
        /\ fate' \in Seq(Fates) /\ UNCHANGED ring /\ enqueue_waiters' = ew - 1
    BY <1>1, <1>5, SectionTypes DEF EnqueueFails, Fates
  <2>2. RestTypes'
    BY <1>1, <1>3, <2>1 DEF RestTypes, RingDomain, ring
  <2>3. Moves(t, Idle) /\ Orderly(t, Idle)
    BY <1>2, <1>3, <2>1, IdleCalling DEF Moves, Orderly, Counted, EnqueueOps, UnblockOps
  <2> QED BY <2>2, <2>3 DEF Steps
<1>6. CASE EnqueueInserts(t, c, ew)
  <2> DEFINE h == [c EXCEPT !.op = "handover"]
  <2>1. h \in Callings /\ h.op = "handover"
    BY DEF Callings, EnqueueOps
  <2>2. /\ sleep' \in [Threads -> Sleeps] /\ fate' \in Seq(Fates)
        /\ \/ /\ pipe_max_size > 0 /\ pipe_size' = pipe_size + 1
              /\ call' = [call EXCEPT ![t] = Idle] /\ enqueue_waiters' = ew - 1
           \/ /\ ~ pipe_max_size > 0 /\ pipe_size' = pipe_size
              /\ call' = [call EXCEPT ![t] = h] /\ enqueue_waiters' = ew
    BY <1>1, <1>6, SectionTypes DEF EnqueueInserts, Fates
  <2>3. pipe_max_size \in Nat /\ pipe_size \in 0 .. pipe_max_size
    BY <1>1, PipeAssumption DEF RestTypes
  <2>4. pipe_max_size > 0 => pipe_size < pipe_max_size
    BY <1>6, <2>3 DEF EnqueueInserts, no_room
  <2>5. DOMAIN data = 0 .. (IF pipe_max_size > 0 THEN pipe_max_size - 1 ELSE 0)
    BY <1>1 DEF RestTypes, RingDomain
  <2>6. first \in Nat /\ last \in Nat
    BY <1>1, <2>3, <2>5 DEF RestTypes
  <2>7. first' \in DOMAIN data \cup {1} /\ last' \in DOMAIN data
    <3>1. CASE pipe_size = 0
      BY <1>1, <1>6, <2>3, <2>5, <3>1 DEF EnqueueInserts, RestTypes
    <3>2. CASE pipe_size # 0
      <4>1. pipe_max_size \in Nat \ {0}
        BY <2>3, <3>2
      <4>2. next_index(last) \in 0 .. pipe_max_size - 1
        BY <2>6, <4>1, NextIndex
      <4> QED BY <1>1, <1>6, <2>5, <3>2, <4>1, <4>2 DEF EnqueueInserts, RestTypes
    <3> QED BY <3>1, <3>2
  <2>8. data' \in [DOMAIN data -> Items \cup {NoItem}]
    BY <1>1, <1>6, <2>7 DEF EnqueueInserts, RestTypes
  <2>9. pipe_size' \in 0 .. pipe_max_size
    BY <2>2, <2>3, <2>4
  <2>10. RestTypes'
    BY <1>1, <1>3, <2>2, <2>7, <2>8, <2>9 DEF RestTypes, RingDomain
  <2>11. \E d : Moves(t, d) /\ Orderly(t, d)
    <3>1. CASE call' = [call EXCEPT ![t] = Idle] /\ enqueue_waiters' = ew - 1
      <4>1. Moves(t, Idle) /\ Orderly(t, Idle)
        BY <1>2, <1>3, <3>1, IdleCalling DEF Moves, Orderly, Counted, EnqueueOps, UnblockOps
      <4> QED BY <4>1
    <3>2. CASE call' = [call EXCEPT ![t] = h] /\ enqueue_waiters' = ew
      <4>1. Moves(t, h) /\ Orderly(t, h)
        BY <1>2, <1>3, <2>1, <3>2 DEF Moves, Orderly, Counted, EnqueueOps, UnblockOps
      <4> QED BY <4>1
    <3> QED BY <2>2, <3>1, <3>2
  <2> QED BY <2>10, <2>11 DEF Steps
<1> QED BY <1>4, <1>5, <1>6 DEF EnqueueSection

LEMMA EnqueueCalls ==
    ASSUME PipeInv, NEW t \in Threads, Enqueue(t) \/ EnqueueResumes(t)
    PROVE  Steps(t)
<1>1. CASE Enqueue(t)
  <2>1. Len(fate) \in Nat
    BY DEF PipeInv, TypeOK
  <2>2. PICK p \in {"forever", "timeout", "now"} :
           EnqueueSection(t, [op |-> "enqueue", arg |-> Len(fate) + 1, patience |-> p],
                          enqueue_waiters + 1)
    BY <1>1 DEF Enqueue
  <2> DEFINE c == [op |-> "enqueue", arg |-> Len(fate) + 1, patience |-> p]
  <2>3. c \in Callings /\ c.op = "enqueue" /\ c.arg \in Items
    BY <1>1, <2>1, PipeAssumption DEF Enqueue, Callings, Items, EnqueueOps
  <2>4. /\ call[t].op = "idle" /\ ~ destroying
        /\ enqueue_waiters + 1 = enqueue_waiters - Counted(call[t], EnqueueOps) + 1
    BY <1>1 DEF Enqueue, Idle, Counted, EnqueueOps, PipeInv, TypeOK
  <2>5. EnqueueSection(t, c, enqueue_waiters + 1)
    BY <2>2
  <2> HIDE DEF c
  <2> QED BY <2>3, <2>4, <2>5, EnqueueSteps
<1>2. CASE EnqueueResumes(t)
  <2>1. /\ call[t] \in Callings /\ call[t].op = "enqueue" /\ call[t].arg \in Items
        /\ enqueue_waiters = enqueue_waiters - Counted(call[t], EnqueueOps) + 1
    BY <1>2 DEF EnqueueResumes, Counted, EnqueueOps, PipeInv, TypeOK, ItemsOffered
  <2> QED BY <1>2, <2>1, EnqueueSteps DEF EnqueueResumes
<1> QED BY <1>1, <1>2

LEMMA HandoverSteps ==
    ASSUME PipeInv, NEW t \in Threads, HandoverResumes(t)
    PROVE  Steps(t)
<1>1. TypeOK /\ RestTypes
  BY Unmoved DEF PipeInv
<1>2. enqueue_waiters \in Nat /\ dequeue_waiters \in Nat /\ unblock_sig_waiters \in Nat
  BY <1>1 DEF TypeOK
<1>3. /\ call[t] \in Callings /\ call[t].op = "handover"
      /\ UNCHANGED <<pipe_max_size, switches>>
  BY <1>1 DEF HandoverResumes, TypeOK
<1>4. CASE HandoverWaits(t)
  <2>1. /\ call' = [call EXCEPT ![t] = call[t]] /\ sleep' \in [Threads -> Sleeps]
        /\ UNCHANGED <<ring, counters, fate>>
    BY <1>1, <1>4, SectionTypes DEF HandoverWaits
  <2>2. RestTypes'
    BY <1>1, <1>3, <2>1 DEF RestTypes, RingDomain, ring
  <2>3. Moves(t, call[t]) /\ Orderly(t, call[t])
    BY <1>2, <1>3, <2>1 DEF Moves, Orderly, Counted, EnqueueOps, UnblockOps, counters
  <2> QED BY <2>2, <2>3 DEF Steps
<1>5. CASE HandoverRetracts(t) \/ HandoverEnds(t)
  <2>1. /\ call' = [call EXCEPT ![t] = Idle] /\ sleep' \in [Threads -> Sleeps]
        /\ fate' \in Seq(Fates) /\ first' = 1 /\ last' = 1
        /\ data' \in {data, [data EXCEPT ![0] = NoItem]}
        /\ enqueue_waiters' = enqueue_waiters - 1
        /\ UNCHANGED <<pipe_size, dequeue_waiters, unblock_sig_waiters>>
    BY <1>1, <1>5, SectionTypes DEF HandoverRetracts, HandoverEnds, Fates
  <2>2. data' \in [DOMAIN data -> Items \cup {NoItem}]
    BY <1>1, <2>1 DEF RestTypes
  <2>3. RestTypes'
    BY <1>1, <1>3, <2>1, <2>2 DEF RestTypes, RingDomain
  <2>4. Moves(t, Idle) /\ Orderly(t, Idle)
    BY <1>2, <1>3, <2>1, IdleCalling DEF Moves, Orderly, Counted, EnqueueOps, UnblockOps
  <2> QED BY <2>3, <2>4 DEF Steps
<1> QED BY <1>4, <1>5 DEF HandoverResumes

LEMMA DequeueSteps ==
    ASSUME PipeInv, NEW t \in Threads, NEW c \in Callings, NEW dw, NEW W,
           DequeueSection(t, c, dw, W), c.op = "dequeue",
           dw = dequeue_waiters - Counted(call[t], {"dequeue"}) + 1,
           call[t].op \in {"idle", "dequeue"},
           call[t].op = "idle" => ~ destroying
    PROVE  Steps(t)
<1>1. TypeOK /\ RestTypes
  BY Unmoved DEF PipeInv
<1>2. enqueue_waiters \in Nat /\ dequeue_waiters \in Nat /\ unblock_sig_waiters \in Nat
  BY <1>1 DEF TypeOK
<1>3. UNCHANGED <<pipe_max_size, switches, enqueue_waiters, unblock_sig_waiters>>
  BY DEF DequeueSection
<1>4. CASE DequeueWaits(t, c, dw, W)
  <2>1. /\ call' = [call EXCEPT ![t] = c] /\ sleep' \in [Threads -> Sleeps]
        /\ UNCHANGED <<ring, fate>> /\ dequeue_waiters' = dw
    BY <1>1, <1>4, SectionTypes DEF DequeueWaits
  <2>2. RestTypes'
    BY <1>1, <1>3, <2>1 DEF RestTypes, RingDomain, ring
  <2>3. Moves(t, c) /\ Orderly(t, c)
    BY <1>2, <1>3, <2>1 DEF Moves, Orderly, Counted, EnqueueOps, UnblockOps
  <2> QED BY <2>2, <2>3 DEF Steps
<1>5. CASE DequeueFails(t, c, dw, W) \/ DequeueTakes(t, dw, W)
  <2>1. /\ call' = [call EXCEPT ![t] = Idle] /\ sleep' \in [Threads -> Sleeps]
        /\ dequeue_waiters' = dw - 1
    BY <1>1, <1>5, SectionTypes DEF DequeueFails, DequeueTakes
  <2>2. Moves(t, Idle) /\ Orderly(t, Idle)
    BY <1>2, <1>3, <2>1, IdleCalling DEF Moves, Orderly, Counted, EnqueueOps, UnblockOps
  <2>3. RestTypes'
    <3>1. CASE DequeueFails(t, c, dw, W)
      BY <1>1, <1>3, <2>1, <3>1 DEF RestTypes, RingDomain, ring, DequeueFails
    <3>2. CASE DequeueTakes(t, dw, W)
      <4>1. fate' \in Seq(Fates)
        BY <1>1, <3>2, SectionTypes DEF DequeueTakes, Fates
      <4>2. data' \in [DOMAIN data -> Items \cup {NoItem}]
        BY <1>1, <3>2 DEF DequeueTakes, RestTypes
      <4>3. pipe_max_size \in Nat /\ pipe_size \in 0 .. pipe_max_size
        BY <1>1, PipeAssumption DEF RestTypes
      <4>4. DOMAIN data = 0 .. (IF pipe_max_size > 0 THEN pipe_max_size - 1 ELSE 0)
        BY <1>1 DEF RestTypes, RingDomain
      <4>5. first \in Nat
        BY <1>1, <4>3, <4>4 DEF RestTypes
      <4>6. CASE pipe_max_size > 0
        <5>1. pipe_size' = pipe_size - 1 /\ first' = next_index(first) /\ last' = last
          BY <3>2, <4>6 DEF DequeueTakes
        <5>2. pipe_size # 0
          BY <3>2, <4>6 DEF DequeueTakes, nothing_there
        <5>3. next_index(first) \in 0 .. pipe_max_size - 1
          BY <4>3, <4>5, <4>6, NextIndex
        <5>4. pipe_size' \in 0 .. pipe_max_size /\ first' \in DOMAIN data
          BY <4>3, <4>4, <4>6, <5>1, <5>2, <5>3
        <5> QED BY <1>1, <1>3, <2>1, <4>1, <4>2, <5>1, <5>4 DEF RestTypes, RingDomain
      <4>7. CASE ~ pipe_max_size > 0
        <5>1. last' = 1 /\ UNCHANGED <<pipe_size, first>>
          BY <3>2, <4>7 DEF DequeueTakes
        <5> QED BY <1>1, <1>3, <2>1, <4>1, <4>2, <5>1 DEF RestTypes, RingDomain
      <4> QED BY <4>6, <4>7
    <3> QED BY <1>5, <3>1, <3>2
  <2> QED BY <2>2, <2>3 DEF Steps
<1> QED BY <1>4, <1>5 DEF DequeueSection

LEMMA DequeueCalls ==
    ASSUME PipeInv, NEW t \in Threads, Dequeue(t) \/ DequeueResumes(t)
    PROVE  Steps(t)
<1>1. CASE Dequeue(t)
  <2>1. PICK p \in {"forever", "timeout", "now"}, W \in {When(pipe_size = 0,
              unblock_sleepers \cup When(enqueue_waiters > 0, on_enqueue_sig))} :
           DequeueSection(t, [op |-> "dequeue", arg |-> 0, patience |-> p],
                          dequeue_waiters + 1, W)
    BY <1>1 DEF Dequeue
  <2> DEFINE c == [op |-> "dequeue", arg |-> 0, patience |-> p]
  <2>2. c \in Callings /\ c.op = "dequeue"
    BY DEF Callings
  <2>3. /\ call[t].op = "idle" /\ ~ destroying
        /\ dequeue_waiters + 1 = dequeue_waiters - Counted(call[t], {"dequeue"}) + 1
    BY <1>1 DEF Dequeue, Idle, Counted, PipeInv, TypeOK
  <2>4. DequeueSection(t, c, dequeue_waiters + 1, W)
    BY <2>1
  <2> HIDE DEF c
  <2> QED BY <2>2, <2>3, <2>4, DequeueSteps
<1>2. CASE DequeueResumes(t)
  <2>1. /\ call[t] \in Callings /\ call[t].op = "dequeue"
        /\ dequeue_waiters = dequeue_waiters - Counted(call[t], {"dequeue"}) + 1
    BY <1>2 DEF DequeueResumes, Counted, PipeInv, TypeOK
  <2> QED BY <1>2, <2>1, DequeueSteps DEF DequeueResumes
<1> QED BY <1>1, <1>2

(* a thread waits, or goes on waiting, for the pipe to drain, or returns   *)
LEMMA DrainSteps ==
    ASSUME PipeInv, NEW t \in Threads,
           wait_until_empty(t) \/ wait_for_num_blocked_dequeues(t)
    PROVE  Steps(t)
<1>1. TypeOK /\ RestTypes
  BY Unmoved DEF PipeInv
<1>2. enqueue_waiters \in Nat /\ dequeue_waiters \in Nat /\ unblock_sig_waiters \in Nat
  BY <1>1 DEF TypeOK
<1>3. CASE wait_until_empty(t)
  <2> DEFINE c == [Idle EXCEPT !.op = "wait_until_empty"]
  <2>1. c \in Callings /\ c.op = "wait_until_empty"
    BY DEF Callings, Idle, EnqueueOps
  <2>2. PICK ew \in {enqueue_waiters, enqueue_waiters + 1} : UntilEmptySection(t, ew)
    BY <1>3 DEF wait_until_empty
  <2>3. /\ call[t].op \in {"idle", "wait_until_empty"}
        /\ call[t].op = "idle" => ~ destroying
    BY <1>3 DEF wait_until_empty, Idle
  <2>4. PICK n \in Nat : /\ n = enqueue_waiters - Counted(call[t], EnqueueOps) + 1
                         /\ UntilEmptySection(t, n)
    BY <1>2, <1>3 DEF wait_until_empty, Counted, EnqueueOps, Idle
  <2>5. /\ sleep' \in [Threads -> Sleeps]
        /\ \/ call' = [call EXCEPT ![t] = c] /\ enqueue_waiters' = n
           \/ call' = [call EXCEPT ![t] = Idle] /\ enqueue_waiters' = n - 1
    BY <1>1, <2>4, SectionTypes DEF UntilEmptySection
  <2>6. UNCHANGED <<pipe_max_size, ring, switches, dequeue_waiters,
                    unblock_sig_waiters, fate>>
    BY <2>4 DEF UntilEmptySection
  <2>7. RestTypes'
    BY <1>1, <2>5, <2>6 DEF RestTypes, RingDomain, ring
  <2> HIDE DEF c
  <2>8. \E d \in {c, Idle} : Moves(t, d) /\ Orderly(t, d)
    BY <1>2, <2>1, <2>3, <2>4, <2>5, <2>6, IdleCalling
       DEF Moves, Orderly, Counted, EnqueueOps, UnblockOps
  <2> QED BY <2>7, <2>8 DEF Steps
<1>4. CASE wait_for_num_blocked_dequeues(t)
  <2>1. PICK c \in Callings, n \in Nat :
           /\ c.op = "wait_for_num_blocked_dequeues"
           /\ n = unblock_sig_waiters - Counted(call[t], UnblockOps) + 1
           /\ NumBlockedSection(t, c, n)
           /\ call[t].op \in {"idle", "wait_for_num_blocked_dequeues"}
           /\ call[t].op = "idle" => ~ destroying
    <3> DEFINE name == "wait_for_num_blocked_dequeues"
    <3>1. CASE call[t] = Idle
      <4>1. ~ destroying /\ \E num \in Nums :
               NumBlockedSection(t, [Idle EXCEPT !.op = name, !.arg = num],
                                 unblock_sig_waiters + 1)
        <5>1. call[t].op # name
          BY <3>1 DEF Idle
        <5> QED BY <1>4, <5>1, Zenon DEF wait_for_num_blocked_dequeues
      <4>2. PICK num \in Nums :
               NumBlockedSection(t, [Idle EXCEPT !.op = name, !.arg = num],
                                 unblock_sig_waiters + 1)
        BY <4>1
      <4> DEFINE d == [Idle EXCEPT !.op = name, !.arg = num]
      <4>3. d \in Callings /\ d.op = name
        BY DEF Idle, Callings, UnblockOps
      <4>4. Counted(call[t], UnblockOps) = 0 /\ call[t].op = "idle"
        BY <3>1 DEF Idle, Counted, UnblockOps
      <4>5. NumBlockedSection(t, d, unblock_sig_waiters + 1)
        BY <4>2
      <4> HIDE DEF d
      <4> QED BY <1>2, <4>1, <4>3, <4>4, <4>5
    <3>2. CASE call[t] # Idle
      <4>1. call[t].op = name /\ NumBlockedSection(t, call[t], unblock_sig_waiters)
        BY <1>4, <3>2 DEF wait_for_num_blocked_dequeues
      <4>2. call[t] \in Callings /\ Counted(call[t], UnblockOps) = 1
        BY <1>1, <4>1 DEF TypeOK, Counted, UnblockOps
      <4> QED BY <1>2, <4>1, <4>2
    <3> QED BY <3>1, <3>2
  <2>2. /\ sleep' \in [Threads -> Sleeps]
        /\ \/ call' = [call EXCEPT ![t] = c] /\ unblock_sig_waiters' = n
           \/ call' = [call EXCEPT ![t] = Idle] /\ unblock_sig_waiters' = n - 1
    BY <1>1, <2>1, SectionTypes DEF NumBlockedSection
  <2>3. UNCHANGED <<pipe_max_size, ring, switches, dequeue_waiters,
                    enqueue_waiters, fate>>
    BY <2>1 DEF NumBlockedSection
  <2>4. RestTypes'
    BY <1>1, <2>2, <2>3 DEF RestTypes, RingDomain, ring
  <2>5. \E d \in {c, Idle} : Moves(t, d) /\ Orderly(t, d)
    BY <1>2, <2>1, <2>2, <2>3, IdleCalling
       DEF Moves, Orderly, Counted, EnqueueOps, UnblockOps
  <2> QED BY <2>4, <2>5 DEF Steps
<1> QED BY <1>3, <1>4

(* the destructor goes on only when the counters leave nobody else inside  *)
LEMMA DestroySteps ==
    ASSUME PipeInv, NEW t \in Threads, destroy(t)
    PROVE  Steps(t)
<1>1. TypeOK /\ RestTypes
  BY Unmoved DEF PipeInv
<1>2. enqueue_waiters \in Nat /\ dequeue_waiters \in Nat /\ unblock_sig_waiters \in Nat
  BY <1>1 DEF TypeOK
<1>3. PICK n \in Nat, W \in {everyone_asleep, {}} :
         /\ n = unblock_sig_waiters - Counted(call[t], UnblockOps) + 1
         /\ DestroySection(t, n, W)
         /\ call[t].op \in {"idle", "destroy"} /\ t = Owner
         /\ enabled' \in BOOLEAN
  <2>1. call[t].op = "destroy" => t = Owner
    BY DEF PipeInv, OwnerDestroys
  <2>2. enabled \in BOOLEAN
    BY <1>1 DEF RestTypes, switches
  <2>3. CASE call[t] = Idle /\ t = Owner /\ enabled' = FALSE
             /\ DestroySection(t, unblock_sig_waiters + 1, everyone_asleep)
    <3>1. call[t].op = "idle" /\ Counted(call[t], UnblockOps) = 0
      BY <2>3 DEF Idle, Counted, UnblockOps
    <3>2. /\ unblock_sig_waiters + 1 \in Nat
          /\ unblock_sig_waiters + 1 = unblock_sig_waiters - Counted(call[t], UnblockOps) + 1
      BY <1>2, <3>1
    <3>3. /\ \E W \in {everyone_asleep, {}} : DestroySection(t, unblock_sig_waiters + 1, W)
          /\ t = Owner /\ enabled' \in BOOLEAN
      BY <2>3, Zenon
    <3> QED BY <3>1, <3>2, <3>3
  <2>4. CASE call[t].op = "destroy" /\ UNCHANGED enabled
             /\ DestroySection(t, unblock_sig_waiters, {})
    <3>1. Counted(call[t], UnblockOps) = 1
      BY <2>4 DEF Counted, UnblockOps
    <3>2. /\ unblock_sig_waiters = unblock_sig_waiters - Counted(call[t], UnblockOps) + 1
          /\ t = Owner /\ enabled' \in BOOLEAN
      BY <1>2, <2>1, <2>2, <2>4, <3>1
    <3> QED BY <1>2, <2>4, <3>2
  <2> QED BY <2>3, <2>4 DEF destroy
<1>4. UNCHANGED <<pipe_max_size, ring, enqueue_enabled, dequeue_enabled,
                  dequeue_waiters, enqueue_waiters, fate>>
  BY <1>3 DEF DestroySection
<1>5. switches' \in BOOLEAN \X BOOLEAN \X BOOLEAN
  BY <1>1, <1>3, <1>4 DEF RestTypes, switches
<1>6. sleep' \in [Threads -> Sleeps]
  <2>1. Wake(W) \in [Threads -> Sleeps]
    BY <1>1, SectionTypes
  <2> QED BY <1>3, <2>1 DEF DestroySection, Wait, Sleeps
<1>7. RestTypes'
  BY <1>1, <1>4, <1>5, <1>6 DEF RestTypes, RingDomain, ring
<1>8. CASE someone_inside(n)
  <2> DEFINE c == [Idle EXCEPT !.op = "destroy"]
  <2>1. c \in Callings /\ c.op = "destroy"
    BY DEF Idle, Callings, UnblockOps
  <2>2. call' = [call EXCEPT ![t] = c] /\ unblock_sig_waiters' = n
    BY <1>1, <1>3, <1>8, SectionTypes DEF DestroySection
  <2> HIDE DEF c
  <2>3. Moves(t, c) /\ Orderly(t, c)
    BY <1>2, <1>3, <1>4, <2>1, <2>2 DEF Moves, Orderly, Counted, EnqueueOps, UnblockOps
  <2> QED BY <1>7, <2>3 DEF Steps
<1>9. CASE ~ someone_inside(n)
  <2> DEFINE c == [Idle EXCEPT !.op = "destroyed"]
  <2>1. c \in Callings /\ c.op = "destroyed"
    BY DEF Idle, Callings
  <2>2. call' = [call EXCEPT ![t] = c] /\ unblock_sig_waiters' = n - 1
    BY <1>3, <1>9 DEF DestroySection
  <2> HIDE DEF c
  <2>3. dequeue_waiters = 0 /\ enqueue_waiters = 0 /\ n <= 1
    BY <1>2, <1>9 DEF someone_inside
  <2>4. Moves(t, c)
    BY <1>2, <1>3, <1>4, <2>1, <2>2 DEF Moves, Counted, EnqueueOps, UnblockOps
  <2>5. call \in [Threads -> Callings] /\ call' = [call EXCEPT ![t] = c]
    BY <1>1, <2>2 DEF TypeOK
  <2>6. In(EnqueueOps) = {}
    BY <2>3, <2>5, CountIn DEF PipeInv, WaitersCounted
  <2>7. In({"dequeue"}) = {}
    <3> DEFINE D == {"dequeue"}
    <3>1. Cardinality(In(D)) = 0
      BY <2>3 DEF PipeInv, WaitersCounted
    <3> HIDE DEF D
    <3>2. In(D) = {}
      BY <2>5, <3>1, CountIn
    <3> QED BY <3>2 DEF D
  <2>8. In(UnblockOps) \subseteq {t}
    <3>1. Cardinality(In(UnblockOps)) = unblock_sig_waiters
      BY DEF PipeInv, WaitersCounted
    <3>2. t \in In(UnblockOps) <=> call[t].op \in UnblockOps
      BY DEF In
    <3>3. CASE call[t].op \in UnblockOps
      <4>1. Cardinality(In(UnblockOps)) = 0 \/ Cardinality(In(UnblockOps)) = 1
        BY <1>2, <1>3, <2>3, <3>1, <3>3 DEF Counted
      <4> QED BY <2>5, <3>2, <3>3, <4>1, CountIn
    <3>4. CASE call[t].op \notin UnblockOps
      <4>1. Cardinality(In(UnblockOps)) = 0
        BY <1>2, <1>3, <2>3, <3>1, <3>4 DEF Counted
      <4> QED BY <2>5, <4>1, CountIn
    <3> QED BY <3>3, <3>4
  <2>9. \A u \in Threads \ {t} : call[u].op \in {"idle", "destroyed"}
    BY <2>5, <2>6, <2>7, <2>8 DEF In, Callings
  <2>10. Orderly(t, c)
    BY <1>3, <2>1, <2>9 DEF Orderly
  <2> QED BY <1>7, <2>4, <2>10 DEF Steps
<1> QED BY <1>8, <1>9

LEMMA InitPipeInv == Init => PipeInv
<1> SUFFICES ASSUME Init PROVE PipeInv
  OBVIOUS
<1>1. Idle \in Callings /\ Idle.op = "idle" /\ \A t \in Threads : call[t] = Idle
  BY IdleCalling DEF Init
<1>2. TypeOK /\ RingDomain
  <2>1. pipe_max_size \in Nat
    BY PipeAssumption DEF Init
  <2>2. data \in [DOMAIN data -> Items \cup {NoItem}] /\ RingDomain
    BY DEF Init, RingDomain
  <2>3. switches \in BOOLEAN \X BOOLEAN \X BOOLEAN
    BY DEF Init, switches
  <2>4. call \in [Threads -> Callings]
    BY <1>1 DEF Init
  <2> QED BY <2>1, <2>2, <2>3, <2>4 DEF Init, TypeOK
<1>3. \A ops : "idle" \notin ops => In(ops) = {}
  BY <1>1 DEF In
<1>4. WaitersCounted
  <2>1. In({"dequeue"}) = {} /\ In(EnqueueOps) = {} /\ In(UnblockOps) = {}
    BY <1>3 DEF EnqueueOps, UnblockOps
  <2> QED BY <2>1, FS_EmptySet DEF Init, WaitersCounted
<1>5. OwnerDestroys /\ ItemsOffered /\ FreedOnlyWhenLeft
  BY <1>1, <1>3 DEF OwnerDestroys, ItemsOffered, FreedOnlyWhenLeft
<1> QED BY <1>2, <1>4, <1>5 DEF PipeInv

(* what leaves the calls and the counters alone                            *)
LEMMA StayingKeepsInv ==
    ASSUME PipeInv, UNCHANGED <<counters, call>>, RestTypes'
    PROVE  PipeInv'
<1>1. /\ dequeue_waiters' = dequeue_waiters /\ enqueue_waiters' = enqueue_waiters
      /\ unblock_sig_waiters' = unblock_sig_waiters /\ call' = call
  BY DEF counters
<1>2. TypeOK'
  BY <1>1 DEF PipeInv, TypeOK, RestTypes, Fates, Sleeps
<1>3. WaitersCounted' /\ OwnerDestroys' /\ ItemsOffered' /\ FreedOnlyWhenLeft'
  BY <1>1 DEF PipeInv, WaitersCounted, OwnerDestroys, ItemsOffered,
              FreedOnlyWhenLeft, In
<1> QED BY <1>2, <1>3 DEF PipeInv, RestTypes

LEMMA ControlKeepsInv == ASSUME PipeInv, Control PROVE PipeInv'
<1>1. TypeOK /\ RestTypes
  BY Unmoved DEF PipeInv
<1>2. UNCHANGED <<pipe_max_size, counters, call>>
  BY DEF Control
<1>3. CASE empty
  <2>1. /\ pipe_size' = 0 /\ sleep' \in [Threads -> Sleeps]
        /\ UNCHANGED <<data, first, last, switches>>
    BY <1>1, <1>3, SectionTypes DEF empty
  <2>2. fate' \in Seq(Fates)
    <3>1. /\ DOMAIN fate = 1 .. Len(fate) /\ Len(fate) \in Nat
          /\ \A i \in 1 .. Len(fate) : fate[i] \in Fates
      BY <1>1 DEF RestTypes
    <3>2. fate' = [i \in 1 .. Len(fate) |->
                      IF fate[i] = "held" THEN "dropped" ELSE fate[i]]
      BY <1>3, <3>1 DEF empty
    <3>3. fate' \in [1 .. Len(fate) -> Fates]
      BY <3>1, <3>2 DEF Fates
    <3> QED BY <3>1, <3>3
  <2>3. pipe_size' \in 0 .. pipe_max_size
    BY <1>1, <2>1, PipeAssumption DEF RestTypes
  <2>4. RestTypes'
    BY <1>1, <1>2, <2>1, <2>2, <2>3 DEF RestTypes, RingDomain
  <2> QED BY <1>2, <2>4, StayingKeepsInv
<1>4. ASSUME NEW e \in BOOLEAN, NEW ee \in BOOLEAN, NEW de \in BOOLEAN, NEW W,
             Switch(e, ee, de, W)
      PROVE  PipeInv'
  <2>1. sleep' \in [Threads -> Sleeps] /\ UNCHANGED <<ring, fate>>
    BY <1>1, <1>4, SectionTypes DEF Switch
  <2>2. switches' \in BOOLEAN \X BOOLEAN \X BOOLEAN
    BY <1>4 DEF Switch, switches
  <2>3. RestTypes'
    BY <1>1, <1>2, <2>1, <2>2 DEF RestTypes, RingDomain, ring
  <2> QED BY <1>2, <2>3, StayingKeepsInv
<1>5. enabled \in BOOLEAN /\ enqueue_enabled \in BOOLEAN /\ dequeue_enabled \in BOOLEAN
  BY <1>1 DEF RestTypes, switches
<1> QED BY <1>3, <1>4, <1>5
        DEF Control, enable, disable, enable_enqueue, disable_enqueue,
            enable_dequeue, disable_dequeue

LEMMA TimersKeepInv ==
    ASSUME PipeInv, NEW t \in Threads, Expire(t) \/ SpuriousWakeup(t)
    PROVE  PipeInv'
<1>1. PICK x \in Sleeps : SetSleep(t, x)
  BY DEF Expire, SpuriousWakeup, Sleeps
<1>2. RestTypes'
  BY <1>1, Unmoved DEF SetSleep, RestTypes, RingDomain, ring
<1> QED BY <1>1, <1>2, StayingKeepsInv DEF SetSleep

LEMMA NextPipeInv == ASSUME PipeInv, [Next]_vars PROVE PipeInv'
<1>1. ASSUME NEW t \in Threads, Steps(t) PROVE PipeInv'
  BY <1>1, StepKeepsInv DEF Steps
<1>2. ASSUME NEW t \in Threads,
             \/ Enqueue(t) \/ EnqueueResumes(t) \/ HandoverResumes(t)
             \/ Dequeue(t) \/ DequeueResumes(t)
             \/ wait_until_empty(t) \/ wait_for_num_blocked_dequeues(t) \/ destroy(t)
      PROVE  PipeInv'
  BY <1>1, <1>2, EnqueueCalls, HandoverSteps, DequeueCalls, DrainSteps, DestroySteps
<1>3. CASE UNCHANGED vars
  <2>1. RestTypes' /\ UNCHANGED <<counters, call>>
    BY <1>3, Unmoved DEF vars, RestTypes, RingDomain, ring
  <2> QED BY <2>1, StayingKeepsInv
<1>4. CASE Terminated
  BY <1>3, <1>4 DEF Terminated
<1> QED BY <1>2, <1>3, <1>4, ControlKeepsInv, TimersKeepInv DEF Next

LEMMA AlwaysPipeInv == Spec => []PipeInv
<1>1. Init => PipeInv
  BY InitPipeInv
<1>2. PipeInv /\ [Next]_vars => PipeInv'
  BY NextPipeInv
<1> QED BY <1>1, <1>2, PTL DEF Spec

(* Whatever the threads do, the pipe's variables keep their types, and the *)
(* ring is never overrun (pipe_kernel_1.h: enqueue, dequeue).              *)
THEOREM TypeCorrect == Spec => []TypeOK
<1>1. PipeInv => TypeOK
  BY DEF PipeInv
<1> QED BY <1>1, AlwaysPipeInv, PTL

(* On every way into and out of a call, timeouts and handovers included,   *)
(* the three counters are the numbers of threads inside (pipe_kernel_1.h:  *)
(* dequeue_waiters, enqueue_waiters, unblock_sig_waiters).                 *)
THEOREM CountersAreRight == Spec => []WaitersCounted
<1>1. PipeInv => WaitersCounted
  BY DEF PipeInv
<1> QED BY <1>1, AlwaysPipeInv, PTL

(* The destructor frees the ring when nobody but its own thread is inside  *)
(* the pipe, however many threads use it (pipe_kernel_1.h: ~pipe).         *)
THEOREM RingFreedLast == Spec => []FreedOnlyWhenLeft
<1>1. PipeInv => FreedOnlyWhenLeft
  BY DEF PipeInv
<1> QED BY <1>1, AlwaysPipeInv, PTL

(***************************************************************************)
(* Sleepers and their reasons.                                             *)
(***************************************************************************)
(* why a thread sleeps, read off the call it is in                         *)
Reason(u) ==
    /\ call[u].op \in EnqueueOps \cup UnblockOps \cup {"dequeue"}
    /\ call[u].op = "enqueue" => no_room(call[u])
    /\ call[u].op = "handover" => last = 0 /\ enabled /\ enqueue_enabled
    /\ call[u].op = "dequeue" => enabled /\ dequeue_enabled
    /\ call[u].op = "wait_until_empty" => pipe_size > 0 /\ enabled
    /\ call[u].op = "wait_for_num_blocked_dequeues" => enabled
    /\ call[u].op = "destroy" => someone_inside(unblock_sig_waiters)

SleepInv ==
    /\ \A u \in Threads : sleep[u] = "asleep" => Reason(u)
    /\ destroying => ~ enabled
    /\ \A u \in Threads : call[u].op = "handover" => pipe_max_size = 0

(* a sleeper is counted, so those who look at the counters wake it         *)
LEMMA SleepersCount ==
    ASSUME PipeInv, NEW u \in Threads
    PROVE  /\ call[u].op \in EnqueueOps => enqueue_waiters > 0
           /\ call[u].op \in UnblockOps => unblock_sig_waiters > 0
           /\ call[u].op = "dequeue" => dequeue_waiters > 0
           /\ \A v \in Threads \ {u} :
                 call[u].op \in EnqueueOps /\ call[v].op \in EnqueueOps => enqueue_waiters > 1
<1>1. ASSUME NEW ops, call[u].op \in ops
      PROVE  /\ Cardinality(In(ops)) \in Nat /\ Cardinality(In(ops)) > 0
             /\ \A v \in Threads \ {u} : call[v].op \in ops => Cardinality(In(ops)) > 1
  <2>1. IsFiniteSet(In(ops)) /\ IsFiniteSet(In(ops) \ {u})
    BY PipeAssumption, FS_Subset DEF In
  <2>2. u \in In(ops)
    BY <1>1 DEF In
  <2>3. /\ Cardinality(In(ops) \ {u}) = Cardinality(In(ops)) - 1
        /\ Cardinality(In(ops)) \in Nat /\ Cardinality(In(ops) \ {u}) \in Nat
    BY <2>1, <2>2, FS_RemoveElement, FS_CardinalityType
  <2>4. ASSUME NEW v \in Threads \ {u}, call[v].op \in ops
        PROVE  Cardinality(In(ops)) > 1
    <3>1. v \in In(ops) \ {u}
      BY <2>4 DEF In
    <3>2. Cardinality(In(ops) \ {u}) # 0
      BY <2>1, <3>1, FS_EmptySet
    <3> QED BY <2>3, <3>2
  <2>5. Cardinality(In(ops)) > 0
    BY <2>3
  <2> QED BY <2>3, <2>4, <2>5
<1>2. call[u].op \in EnqueueOps => enqueue_waiters > 0
  BY <1>1 DEF PipeInv, WaitersCounted
<1>3. call[u].op \in UnblockOps => unblock_sig_waiters > 0
  BY <1>1 DEF PipeInv, WaitersCounted
<1>4. call[u].op = "dequeue" => dequeue_waiters > 0
  <2> DEFINE D == {"dequeue"}
  <2>1. dequeue_waiters = Cardinality(In(D)) /\ (call[u].op = "dequeue" <=> call[u].op \in D)
    BY DEF PipeInv, WaitersCounted
  <2> HIDE DEF D
  <2> QED BY <1>1, <2>1
<1>5. \A v \in Threads \ {u} :
         call[u].op \in EnqueueOps /\ call[v].op \in EnqueueOps => enqueue_waiters > 1
  BY <1>1 DEF PipeInv, WaitersCounted
<1> QED BY <1>2, <1>3, <1>4, <1>5

(* who sleeps after a section of t that waits or leaves                    *)
LEMMA WhoSleeps ==
    ASSUME PipeInv, NEW t \in Threads, NEW c, NEW W
    PROVE  /\ Wait(t, c, W) \/ Leave(t, W) =>
                 \A u \in Threads \ {t} :
                    /\ call'[u] = call[u]
                    /\ sleep'[u] = "asleep" => sleep[u] = "asleep" /\ u \notin W
           /\ Wait(t, c, W) => call'[t] = c /\ sleep'[t] = "asleep"
           /\ Leave(t, W) => call'[t] = Idle /\ sleep'[t] = "awake"
<1>1. call \in [Threads -> Callings] /\ sleep \in [Threads -> Sleeps]
  BY DEF PipeInv, TypeOK, Sleeps
<1>2. \A u \in Threads : Wake(W)[u] = IF u \in W THEN "awake" ELSE sleep[u]
  BY DEF Wake
<1>3. Wake(W) \in [Threads -> Sleeps]
  BY SectionTypes DEF PipeInv
<1> HIDE DEF Wake
<1> QED BY <1>1, <1>2, <1>3 DEF Wait, Leave

(* a section of t keeps the reasons of those it leaves asleep              *)
LEMMA SectionKeepsSleep ==
    ASSUME PipeInv, SleepInv, NEW t \in Threads, NEW c, NEW W,
           Wait(t, c, W) \/ (c = Idle /\ Leave(t, W)),
           Wait(t, c, W) => Reason(t)',
           \A u \in Threads \ {t} :
              sleep[u] = "asleep" /\ u \notin W /\ call'[u] = call[u] /\ Reason(u)
              => Reason(u)',
           c.op = "destroy" => ~ enabled', c.op # "destroyed",
           enabled' => enabled,
           c.op = "handover" => pipe_max_size = 0,
           UNCHANGED pipe_max_size
    PROVE  SleepInv'
<1>1. \A u \in Threads \ {t} : /\ call'[u] = call[u]
                               /\ sleep'[u] = "asleep" => sleep[u] = "asleep" /\ u \notin W
  BY WhoSleeps
<1>2. call'[t] = c
  BY WhoSleeps
<1>3. sleep'[t] = "asleep" => Reason(t)'
  <2>1. Leave(t, W) => sleep'[t] = "awake"
    BY WhoSleeps
  <2> QED BY <2>1
<1>4. ASSUME NEW u \in Threads, sleep'[u] = "asleep" PROVE Reason(u)'
  <2>1. CASE u = t
    BY <1>3, <1>4, <2>1
  <2>2. CASE u # t
    <3>1. sleep[u] = "asleep" /\ u \notin W /\ call'[u] = call[u]
      BY <1>1, <1>4, <2>2
    <3>2. Reason(u)
      BY <3>1 DEF SleepInv
    <3> QED BY <2>2, <3>1, <3>2
  <2> QED BY <2>1, <2>2
<1>5. destroying' => ~ enabled'
  <2>1. SUFFICES ASSUME NEW u \in Threads, call'[u].op \in {"destroy", "destroyed"}
                 PROVE  ~ enabled'
    BY DEF destroying, In
  <2>2. CASE u = t
    BY <1>2, <2>1, <2>2
  <2>3. CASE u # t
    <3>1. destroying
      BY <1>1, <2>1, <2>3 DEF destroying, In
    <3> QED BY <3>1 DEF SleepInv
  <2> QED BY <2>2, <2>3
<1>6. \A u \in Threads : call'[u].op = "handover" => pipe_max_size' = 0
  BY <1>1, <1>2 DEF SleepInv
<1> QED BY <1>4, <1>5, <1>6 DEF SleepInv

(* sleepers of a signaler that a section wakes do not sleep on             *)
LEMMA Signaled ==
    ASSUME NEW u \in Threads, sleep[u] = "asleep"
    PROVE  /\ call[u].op \in EnqueueOps => u \in on_enqueue_sig
           /\ call[u].op = "dequeue" => u \in on_dequeue_sig
           /\ call[u].op \in UnblockOps => u \in on_unblock_sig
           /\ u \in everyone_asleep
<1> QED BY DEF on_enqueue_sig, on_dequeue_sig, on_unblock_sig, everyone_asleep, Asleep, In

LEMMA EnqueueKeepsSleep ==
    ASSUME PipeInv, SleepInv, NEW t \in Threads, NEW c \in Callings, NEW ew \in Nat,
           EnqueueSection(t, c, ew), c.op = "enqueue", ew >= enqueue_waiters
    PROVE  SleepInv'
<1>1. UNCHANGED <<pipe_max_size, enabled, enqueue_enabled, dequeue_enabled,
                  dequeue_waiters, unblock_sig_waiters>>
  BY DEF EnqueueSection, EnqueueWaits, EnqueueFails, EnqueueInserts, switches
<1>2. /\ pipe_max_size \in Nat /\ pipe_size \in 0 .. pipe_max_size
      /\ enqueue_waiters \in Nat /\ dequeue_waiters \in Nat /\ unblock_sig_waiters \in Nat
  BY PipeAssumption DEF PipeInv, TypeOK
<1>3. Idle.op = "idle"
  BY DEF Idle
<1>4. CASE EnqueueWaits(t, c, ew)
  <2>1. /\ Wait(t, c, {}) /\ no_room(c)
        /\ UNCHANGED <<pipe_size, first, last>> /\ enqueue_waiters' = ew
    BY <1>4 DEF EnqueueWaits, ring
  <2>2. call'[t] = c
    BY <2>1, WhoSleeps
  <2>3. Reason(t)'
    BY <1>1, <2>1, <2>2 DEF Reason, no_room, EnqueueOps
  <2>4. \A u \in Threads \ {t} : call'[u] = call[u] /\ Reason(u) => Reason(u)'
    BY <1>1, <1>2, <2>1 DEF Reason, no_room, someone_inside
  <2> QED BY <1>1, <2>1, <2>3, <2>4, SectionKeepsSleep
<1>5. CASE EnqueueFails(t, c, ew)
  <2>1. /\ Leave(t, on_unblock_sig)
        /\ UNCHANGED <<pipe_size, first, last>> /\ enqueue_waiters' = ew - 1
    BY <1>5 DEF EnqueueFails, ring
  <2>2. ~ Wait(t, Idle, on_unblock_sig)
    BY <2>1, WhoSleeps
  <2>3. ASSUME NEW u \in Threads \ {t}, sleep[u] = "asleep", u \notin on_unblock_sig,
               call'[u] = call[u], Reason(u)
        PROVE  Reason(u)'
    <3>1. call[u].op # "destroy"
      BY <2>3, Signaled DEF UnblockOps
    <3> QED BY <1>1, <2>1, <2>3, <3>1 DEF Reason, no_room
  <2> QED BY <1>1, <1>3, <2>1, <2>2, <2>3, SectionKeepsSleep
<1>6. CASE EnqueueInserts(t, c, ew)
  <2> DEFINE h == [c EXCEPT !.op = "handover"]
  <2>1. /\ enabled /\ enqueue_enabled /\ ~ no_room(c)
        /\ first' = IF pipe_size = 0 THEN 0 ELSE first
        /\ pipe_size = 0 => last' = 0
    BY <1>6 DEF EnqueueInserts
  <2>2. PICK W : IF pipe_max_size > 0
                 THEN /\ pipe_size' = pipe_size + 1
                      /\ Leave(t, W)
                 ELSE Wait(t, h, W) /\ UNCHANGED pipe_size
    BY <1>6 DEF EnqueueInserts
  <2>3. ~ destroying
    BY <2>1 DEF SleepInv
  <2>4. ASSUME NEW u \in Threads \ {t}, call'[u] = call[u], Reason(u)
        PROVE  Reason(u)'
    <3>1. call[u].op # "destroy"
      BY <2>3 DEF destroying, In
    <3>2. CASE pipe_max_size > 0
      <4>1. pipe_size < pipe_max_size /\ pipe_size' = pipe_size + 1
        BY <1>2, <2>1, <2>2, <3>2 DEF no_room
      <4>2. call[u].op # "enqueue"
        BY <1>2, <2>4, <4>1 DEF Reason, no_room
      <4>3. call[u].op # "handover"
        BY <3>2 DEF SleepInv
      <4>4. call[u].op = "wait_until_empty" => pipe_size' > 0
        BY <1>2, <4>1
      <4> QED BY <1>1, <2>4, <3>1, <4>2, <4>3, <4>4 DEF Reason
    <3>3. CASE ~ pipe_max_size > 0
      <4>1. /\ pipe_max_size = 0 /\ pipe_size = 0 /\ pipe_size' = 0
            /\ first' = 0 /\ last' = 0
        BY <1>2, <2>1, <2>2, <3>3
      <4> QED BY <1>1, <2>1, <2>4, <3>1, <4>1 DEF Reason, no_room
    <3> QED BY <3>2, <3>3
  <2>5. CASE pipe_max_size > 0
    <3>1. Leave(t, W)
      BY <2>2, <2>5
    <3>2. ~ Wait(t, Idle, W)
      BY <3>1, WhoSleeps
    <3> QED BY <1>1, <1>3, <2>4, <3>1, <3>2, SectionKeepsSleep
  <2>6. CASE ~ pipe_max_size > 0
    <3>1. Wait(t, h, W) /\ h.op = "handover" /\ pipe_max_size = 0 /\ last' = 0
      <4>1. h.op = "handover"
        BY DEF Callings
      <4> QED BY <1>2, <2>1, <2>2, <2>6, <4>1
    <3>2. call'[t] = h
      BY <3>1, WhoSleeps
    <3>3. Reason(t)'
      BY <1>1, <2>1, <3>1, <3>2 DEF Reason, EnqueueOps
    <3> HIDE DEF h
    <3> QED BY <1>1, <2>4, <3>1, <3>3, SectionKeepsSleep
  <2> QED BY <2>5, <2>6
<1> QED BY <1>4, <1>5, <1>6 DEF EnqueueSection

LEMMA EnqueueCallsKeepSleep ==
    ASSUME PipeInv, SleepInv, NEW t \in Threads, Enqueue(t) \/ EnqueueResumes(t)
    PROVE  SleepInv'
<1>1. enqueue_waiters \in Nat /\ call[t] \in Callings
  BY DEF PipeInv, TypeOK
<1>2. CASE Enqueue(t)
  <2>1. PICK p \in {"forever", "timeout", "now"} :
           /\ Len(fate) < MaxItems
           /\ EnqueueSection(t, [op |-> "enqueue", arg |-> Len(fate) + 1, patience |-> p],
                             enqueue_waiters + 1)
    BY <1>2 DEF Enqueue
  <2> DEFINE c == [op |-> "enqueue", arg |-> Len(fate) + 1, patience |-> p]
  <2>2. c.op = "enqueue" /\ EnqueueSection(t, c, enqueue_waiters + 1)
    BY <2>1
  <2>3. c \in Callings
    <3>1. Len(fate) \in Nat
      BY DEF PipeInv, TypeOK
    <3> QED BY <2>1, <3>1, PipeAssumption DEF Callings, Items, EnqueueOps
  <2> HIDE DEF c
  <2> QED BY <1>1, <2>2, <2>3, EnqueueKeepsSleep
<1>3. CASE EnqueueResumes(t)
  BY <1>1, <1>3, EnqueueKeepsSleep DEF EnqueueResumes
<1> QED BY <1>2, <1>3

LEMMA HandoverKeepsSleep ==
    ASSUME PipeInv, SleepInv, NEW t \in Threads, HandoverResumes(t)
    PROVE  SleepInv'
<1>1. /\ UNCHANGED <<pipe_max_size, enabled, enqueue_enabled, dequeue_enabled>>
      /\ call[t].op = "handover"
  BY DEF HandoverResumes, switches
<1>2. Idle.op = "idle"
  BY DEF Idle
<1>3. CASE HandoverWaits(t)
  <2>1. /\ last = 0 /\ enabled /\ enqueue_enabled /\ Wait(t, call[t], {})
        /\ UNCHANGED <<pipe_size, first, last, dequeue_waiters, enqueue_waiters,
                       unblock_sig_waiters>>
    BY <1>3 DEF HandoverWaits, ring, counters
  <2>2. call'[t] = call[t]
    BY <2>1, WhoSleeps
  <2>3. Reason(t)'
    BY <1>1, <2>1, <2>2 DEF Reason, EnqueueOps
  <2>4. \A u \in Threads \ {t} : call'[u] = call[u] /\ Reason(u) => Reason(u)'
    BY <1>1, <2>1 DEF Reason, no_room, someone_inside
  <2>5. pipe_max_size = 0
    BY <1>1 DEF SleepInv
  <2> QED BY <1>1, <2>1, <2>3, <2>4, <2>5, SectionKeepsSleep
<1>4. CASE HandoverRetracts(t)
  <2>1. /\ ~ (enabled /\ enqueue_enabled) /\ Leave(t, unblock_sleepers)
        /\ UNCHANGED <<pipe_size, dequeue_waiters, unblock_sig_waiters>>
    BY <1>4 DEF HandoverRetracts
  <2>2. ~ Wait(t, Idle, unblock_sleepers)
    BY <2>1, WhoSleeps
  <2>3. ASSUME NEW u \in Threads \ {t}, sleep[u] = "asleep", u \notin unblock_sleepers,
               call'[u] = call[u], Reason(u)
        PROVE  Reason(u)'
    <3>1. call[u].op # "destroy"
      BY <2>3, Signaled, SleepersCount DEF UnblockOps, unblock_sleepers, When
    <3>2. call[u].op # "enqueue" /\ call[u].op # "handover"
      BY <2>1, <2>3 DEF Reason, no_room
    <3> QED BY <1>1, <2>1, <2>3, <3>1, <3>2 DEF Reason
  <2> QED BY <1>1, <1>2, <2>1, <2>2, <2>3, SectionKeepsSleep
<1>5. CASE HandoverEnds(t)
  <2> DEFINE W == When(enqueue_waiters > 1, on_enqueue_sig)
                  \cup When(~ enabled, unblock_sleepers)
  <2>1. /\ last # 0 /\ Leave(t, W)
        /\ UNCHANGED <<pipe_size, dequeue_waiters, unblock_sig_waiters>>
    BY <1>5 DEF HandoverEnds
  <2>2. ~ Wait(t, Idle, W)
    BY <2>1, WhoSleeps
  <2>3. ASSUME NEW u \in Threads \ {t}, sleep[u] = "asleep", u \notin W,
               call'[u] = call[u], Reason(u)
        PROVE  Reason(u)'
    <3>1. call[u].op # "destroy"
      <4>1. call[u].op = "destroy" => ~ enabled
        BY DEF SleepInv, destroying, In
      <4> QED BY <2>3, <4>1, Signaled, SleepersCount DEF UnblockOps, unblock_sleepers, When
    <3>2. call[u].op \notin EnqueueOps
      <4>1. call[t].op \in EnqueueOps
        BY <1>1 DEF EnqueueOps
      <4> QED BY <2>3, <4>1, Signaled, SleepersCount DEF When
    <3> QED BY <1>1, <2>1, <2>3, <3>1, <3>2 DEF Reason, EnqueueOps
  <2> HIDE DEF W
  <2> QED BY <1>1, <1>2, <2>1, <2>2, <2>3, SectionKeepsSleep
<1> QED BY <1>3, <1>4, <1>5 DEF HandoverResumes

LEMMA DequeueKeepsSleep ==
    ASSUME PipeInv, SleepInv, NEW t \in Threads, NEW c, NEW dw \in Nat, NEW W,
           DequeueSection(t, c, dw, W), c.op = "dequeue",
           dw \in {dequeue_waiters, dequeue_waiters + 1},
           \/ dw = dequeue_waiters
           \/ pipe_size = 0 /\ enqueue_waiters > 0 => on_enqueue_sig \subseteq W
    PROVE  SleepInv'
<1>1. UNCHANGED <<pipe_max_size, enabled, enqueue_enabled, dequeue_enabled,
                  enqueue_waiters, unblock_sig_waiters>>
  BY DEF DequeueSection, switches
<1>2. /\ pipe_max_size \in Nat /\ pipe_size \in 0 .. pipe_max_size
      /\ enqueue_waiters \in Nat /\ dequeue_waiters \in Nat /\ unblock_sig_waiters \in Nat
  BY PipeAssumption DEF PipeInv, TypeOK
<1>3. Idle.op = "idle"
  BY DEF Idle
<1>4. CASE DequeueWaits(t, c, dw, W)
  <2>1. /\ Wait(t, c, W) /\ nothing_there
        /\ UNCHANGED <<pipe_size, first, last>> /\ dequeue_waiters' = dw
    BY <1>4 DEF DequeueWaits, ring
  <2>2. call'[t] = c
    BY <2>1, WhoSleeps
  <2>3. Reason(t)'
    BY <1>1, <2>1, <2>2 DEF Reason, nothing_there
  <2>4. ASSUME NEW u \in Threads \ {t}, sleep[u] = "asleep", u \notin W,
               call'[u] = call[u], Reason(u)
        PROVE  Reason(u)'
    <3>1. CASE dw = dequeue_waiters
      BY <1>1, <2>1, <2>4, <3>1 DEF Reason, no_room, someone_inside
    <3>2. CASE dw # dequeue_waiters
      <4>1. call[u].op # "enqueue"
        BY <2>1, <2>4, <3>2, Signaled, SleepersCount DEF EnqueueOps, nothing_there
      <4> QED BY <1>1, <1>2, <2>1, <2>4, <4>1 DEF Reason, someone_inside
    <3> QED BY <3>1, <3>2
  <2> QED BY <1>1, <2>1, <2>3, <2>4, SectionKeepsSleep
<1>5. CASE DequeueFails(t, c, dw, W)
  <2> DEFINE V == W \cup on_unblock_sig
  <2>1. /\ Leave(t, V)
        /\ UNCHANGED <<pipe_size, first, last>> /\ dequeue_waiters' = dw - 1
    BY <1>5 DEF DequeueFails, ring
  <2>2. ~ Wait(t, Idle, V)
    BY <2>1, WhoSleeps
  <2>3. ASSUME NEW u \in Threads \ {t}, sleep[u] = "asleep", u \notin V,
               call'[u] = call[u], Reason(u)
        PROVE  Reason(u)'
    <3>1. call[u].op # "destroy"
      BY <2>3, Signaled DEF UnblockOps
    <3>2. dequeue_waiters' > 0 => dequeue_waiters > 0
      BY <1>2, <2>1
    <3> QED BY <1>1, <2>1, <2>3, <3>1, <3>2 DEF Reason, no_room
  <2> HIDE DEF V
  <2> QED BY <1>1, <1>3, <2>1, <2>2, <2>3, SectionKeepsSleep
<1>6. CASE DequeueTakes(t, dw, W)
  <2> DEFINE V == W \cup When(enqueue_waiters > 0, on_enqueue_sig)
  <2>1. enabled /\ Leave(t, V)
    BY <1>6 DEF DequeueTakes
  <2>2. ~ Wait(t, Idle, V)
    BY <2>1, WhoSleeps
  <2>3. ASSUME NEW u \in Threads \ {t}, sleep[u] = "asleep", u \notin V,
               call'[u] = call[u], Reason(u)
        PROVE  Reason(u)'
    <3>1. call[u].op # "destroy"
      BY <2>1 DEF SleepInv, destroying, In
    <3>2. call[u].op \notin EnqueueOps
      BY <2>3, Signaled, SleepersCount DEF When
    <3> QED BY <1>1, <2>3, <3>1, <3>2 DEF Reason, EnqueueOps
  <2> HIDE DEF V
  <2> QED BY <1>1, <1>3, <2>1, <2>2, <2>3, SectionKeepsSleep
<1> QED BY <1>4, <1>5, <1>6 DEF DequeueSection

LEMMA DequeueCallsKeepSleep ==
    ASSUME PipeInv, SleepInv, NEW t \in Threads, Dequeue(t) \/ DequeueResumes(t)
    PROVE  SleepInv'
<1>1. dequeue_waiters \in Nat
  BY DEF PipeInv, TypeOK
<1>2. CASE Dequeue(t)
  <2> DEFINE W == When(pipe_size = 0,
                       unblock_sleepers \cup When(enqueue_waiters > 0, on_enqueue_sig))
  <2>1. PICK p \in {"forever", "timeout", "now"} :
           DequeueSection(t, [op |-> "dequeue", arg |-> 0, patience |-> p],
                          dequeue_waiters + 1, W)
    BY <1>2 DEF Dequeue
  <2> DEFINE c == [op |-> "dequeue", arg |-> 0, patience |-> p]
  <2>2. c.op = "dequeue" /\ DequeueSection(t, c, dequeue_waiters + 1, W)
    BY <2>1
  <2>3. pipe_size = 0 /\ enqueue_waiters > 0 => on_enqueue_sig \subseteq W
    BY DEF When
  <2> HIDE DEF c, W
  <2> QED BY <1>1, <2>2, <2>3, DequeueKeepsSleep
<1>3. CASE DequeueResumes(t)
  BY <1>1, <1>3, DequeueKeepsSleep DEF DequeueResumes
<1> QED BY <1>2, <1>3

LEMMA DrainKeepsSleep ==
    ASSUME PipeInv, SleepInv, NEW t \in Threads,
           wait_until_empty(t) \/ wait_for_num_blocked_dequeues(t)
    PROVE  SleepInv'
<1>1. enqueue_waiters \in Nat /\ dequeue_waiters \in Nat /\ unblock_sig_waiters \in Nat
  BY DEF PipeInv, TypeOK
<1>2. Idle.op = "idle"
  BY DEF Idle
<1>3. ASSUME NEW c, c.op \in {"wait_until_empty", "wait_for_num_blocked_dequeues"},
             NEW W, W = When(~ enabled, on_unblock_sig),
             \/ /\ Wait(t, c, {}) /\ enabled
                /\ c.op = "wait_until_empty" => pipe_size > 0
                /\ enqueue_waiters' >= enqueue_waiters
                /\ unblock_sig_waiters' >= unblock_sig_waiters
                /\ enqueue_waiters' \in Nat /\ unblock_sig_waiters' \in Nat
             \/ Leave(t, W),
             UNCHANGED <<pipe_max_size, pipe_size, first, last, enabled, enqueue_enabled,
                         dequeue_enabled, dequeue_waiters>>
      PROVE  SleepInv'
  <2>1. CASE Wait(t, c, {}) /\ ~ Leave(t, W)
    <3>1. call'[t] = c
      BY <2>1, WhoSleeps
    <3>2. Reason(t)'
      BY <1>3, <2>1, <3>1 DEF Reason, EnqueueOps, UnblockOps
    <3>3. \A u \in Threads \ {t} : call'[u] = call[u] /\ Reason(u) => Reason(u)'
      BY <1>1, <1>3, <2>1 DEF Reason, no_room, someone_inside
    <3> QED BY <1>3, <2>1, <3>2, <3>3, SectionKeepsSleep
  <2>2. CASE Leave(t, W)
    <3>1. ~ Wait(t, Idle, W)
      BY <2>2, WhoSleeps
    <3>2. ASSUME NEW u \in Threads \ {t}, sleep[u] = "asleep", u \notin W,
                 call'[u] = call[u], Reason(u)
          PROVE  Reason(u)'
      <4>1. call[u].op = "destroy" => ~ enabled
        BY DEF SleepInv, destroying, In
      <4>2. call[u].op # "destroy"
        BY <1>3, <3>2, <4>1, Signaled DEF UnblockOps, When
      <4> QED BY <1>3, <3>2, <4>2 DEF Reason, no_room
    <3> QED BY <1>2, <1>3, <2>2, <3>1, <3>2, SectionKeepsSleep
  <2> QED BY <1>3, <2>1, <2>2
<1>4. CASE wait_until_empty(t)
  <2> DEFINE c == [Idle EXCEPT !.op = "wait_until_empty"]
  <2>1. PICK ew \in {enqueue_waiters, enqueue_waiters + 1} : UntilEmptySection(t, ew)
    BY <1>4 DEF wait_until_empty
  <2>2. c.op = "wait_until_empty"
    BY DEF Idle
  <2>3. UNCHANGED <<pipe_max_size, pipe_size, first, last, enabled, enqueue_enabled,
                    dequeue_enabled, dequeue_waiters, unblock_sig_waiters>>
    BY <2>1 DEF UntilEmptySection, ring, switches
  <2>4. \/ /\ Wait(t, c, {}) /\ pipe_size > 0 /\ enabled /\ enqueue_waiters' = ew
        \/ Leave(t, When(~ enabled, on_unblock_sig))
    BY <2>1 DEF UntilEmptySection
  <2>5. /\ ew \in Nat /\ ew >= enqueue_waiters
        /\ unblock_sig_waiters' >= unblock_sig_waiters /\ unblock_sig_waiters' \in Nat
    BY <1>1, <2>3
  <2> HIDE DEF c
  <2> QED BY <1>3, <2>2, <2>3, <2>4, <2>5
<1>5. CASE wait_for_num_blocked_dequeues(t)
  <2>1. \E c : \E uw \in {unblock_sig_waiters, unblock_sig_waiters + 1} :
           c.op = "wait_for_num_blocked_dequeues" /\ NumBlockedSection(t, c, uw)
    <3> DEFINE name == "wait_for_num_blocked_dequeues"
    <3>1. CASE \E num \in Nums :
                  NumBlockedSection(t, [Idle EXCEPT !.op = name, !.arg = num],
                                    unblock_sig_waiters + 1)
      <4>1. PICK num \in Nums :
               NumBlockedSection(t, [Idle EXCEPT !.op = name, !.arg = num],
                                 unblock_sig_waiters + 1)
        BY <3>1
      <4> DEFINE d == [Idle EXCEPT !.op = name, !.arg = num]
      <4>2. d.op = name /\ NumBlockedSection(t, d, unblock_sig_waiters + 1)
        BY <4>1 DEF Idle
      <4> HIDE DEF d
      <4> QED BY <4>2
    <3>2. CASE call[t].op = name /\ NumBlockedSection(t, call[t], unblock_sig_waiters)
      BY <3>2
    <3> QED BY <1>5, <3>1, <3>2 DEF wait_for_num_blocked_dequeues
  <2>2. PICK c, W : \E uw \in {unblock_sig_waiters, unblock_sig_waiters + 1} :
           /\ c.op = "wait_for_num_blocked_dequeues" /\ NumBlockedSection(t, c, uw)
           /\ W = When(~ enabled, on_unblock_sig)
    BY <2>1
  <2>3. PICK uw \in {unblock_sig_waiters, unblock_sig_waiters + 1} :
           NumBlockedSection(t, c, uw)
    BY <2>2
  <2>4. UNCHANGED <<pipe_max_size, pipe_size, first, last, enabled, enqueue_enabled,
                    dequeue_enabled, dequeue_waiters, enqueue_waiters>>
    BY <2>3 DEF NumBlockedSection, ring, switches
  <2>5. \/ Wait(t, c, {}) /\ enabled /\ unblock_sig_waiters' = uw
        \/ Leave(t, W)
    BY <2>2, <2>3 DEF NumBlockedSection
  <2>6. /\ uw \in Nat /\ uw >= unblock_sig_waiters
        /\ enqueue_waiters' >= enqueue_waiters /\ enqueue_waiters' \in Nat
    BY <1>1, <2>4
  <2> QED BY <1>3, <2>2, <2>4, <2>5, <2>6
<1> QED BY <1>4, <1>5

LEMMA DestroyKeepsSleep ==
    ASSUME PipeInv, SleepInv, NEW t \in Threads, destroy(t)
    PROVE  SleepInv'
<1>1. /\ call \in [Threads -> Callings] /\ sleep \in [Threads -> Sleeps]
      /\ enabled \in BOOLEAN
  BY DEF PipeInv, TypeOK, Sleeps, switches
<1>2. t = Owner
  BY DEF destroy, PipeInv, OwnerDestroys
<1>3. PICK uw, W :
         /\ DestroySection(t, uw, W) /\ enabled' = FALSE
         /\ \/ W = everyone_asleep
            \/ ~ enabled
  <2>1. CASE enabled' = FALSE /\ DestroySection(t, unblock_sig_waiters + 1, everyone_asleep)
    BY <2>1, Zenon
  <2>2. CASE /\ call[t].op = "destroy" /\ UNCHANGED enabled
             /\ DestroySection(t, unblock_sig_waiters, {})
    <3>1. ~ enabled
      BY <2>2 DEF SleepInv, destroying, In
    <3>2. enabled' = FALSE
      BY <1>1, <2>2, <3>1
    <3> QED BY <2>2, <3>1, <3>2, Zenon
  <2> QED BY <2>1, <2>2 DEF destroy
<1>4. PICK c \in Callings :
         /\ c.op \in {"destroy", "destroyed"} /\ call' = [call EXCEPT ![t] = c]
         /\ sleep' = [Wake(W) EXCEPT ![t] = IF c.op = "destroy" THEN "asleep" ELSE "awake"]
         /\ c.op = "destroy" => someone_inside(uw) /\ unblock_sig_waiters' = uw
  <2>1. CASE someone_inside(uw)
    <3> DEFINE c == [Idle EXCEPT !.op = "destroy"]
    <3>1. c \in Callings /\ c.op = "destroy"
      BY DEF Idle, Callings, UnblockOps
    <3>2. Wait(t, c, W) /\ unblock_sig_waiters' = uw
      BY <1>3, <2>1 DEF DestroySection
    <3> HIDE DEF c
    <3> QED BY <2>1, <3>1, <3>2 DEF Wait
  <2>2. CASE ~ someone_inside(uw)
    <3> DEFINE c == [Idle EXCEPT !.op = "destroyed"]
    <3>1. c \in Callings /\ c.op = "destroyed"
      BY DEF Idle, Callings
    <3>2. call' = [call EXCEPT ![t] = c] /\ sleep' = [Wake(W) EXCEPT ![t] = "awake"]
      BY <1>3, <2>2 DEF DestroySection
    <3> HIDE DEF c
    <3> QED BY <3>1, <3>2
  <2> QED BY <2>1, <2>2
<1>5. UNCHANGED <<pipe_max_size, dequeue_waiters, enqueue_waiters>>
  BY <1>3 DEF DestroySection
<1>6. ASSUME NEW u \in Threads \ {t}, sleep'[u] = "asleep" PROVE Reason(u)'
  <2>1. sleep[u] = "asleep" /\ u \notin W /\ call'[u] = call[u]
    <3>1. Wake(W)[u] = IF u \in W THEN "awake" ELSE sleep[u]
      BY DEF Wake
    <3>2. Wake(W) \in [Threads -> Sleeps]
      BY SectionTypes DEF PipeInv
    <3> HIDE DEF Wake
    <3> QED BY <1>1, <1>4, <1>6, <3>1, <3>2
  <2>2. ~ enabled /\ Reason(u)
    BY <1>3, <2>1, Signaled DEF SleepInv
  <2>3. call[u].op # "destroy"
    BY <1>2 DEF PipeInv, OwnerDestroys
  <2>4. FALSE
    BY <2>2, <2>3 DEF Reason, no_room, EnqueueOps, UnblockOps
  <2> QED BY <2>4
<1>7. sleep'[t] = "asleep" => Reason(t)'
  <2>1. SUFFICES ASSUME sleep'[t] = "asleep" PROVE Reason(t)'
    OBVIOUS
  <2>2. Wake(W) \in [Threads -> Sleeps]
    BY SectionTypes DEF PipeInv
  <2>3. call'[t] = c /\ c.op = "destroy"
    BY <1>1, <1>4, <2>1, <2>2
  <2>4. someone_inside(unblock_sig_waiters)'
    BY <1>4, <1>5, <2>3 DEF someone_inside
  <2> QED BY <2>3, <2>4 DEF Reason, UnblockOps
<1>8. \A u \in Threads : call'[u].op = "handover" => pipe_max_size' = 0
  BY <1>1, <1>4, <1>5 DEF SleepInv
<1> QED BY <1>3, <1>6, <1>7, <1>8 DEF SleepInv

LEMMA ControlKeepsSleep == ASSUME PipeInv, SleepInv, Control PROVE SleepInv'
<1>1. /\ UNCHANGED <<pipe_max_size, dequeue_waiters, enqueue_waiters,
                     unblock_sig_waiters, call>>
      /\ ~ destroying
  BY DEF Control, counters
<1>2. \A u \in Threads : \A W : Wake(W)[u] = IF u \in W THEN "awake" ELSE sleep[u]
  BY DEF Wake
<1>3. ~ destroying' /\ \A u \in Threads : call'[u].op = "handover" => pipe_max_size' = 0
  BY <1>1 DEF destroying, In, SleepInv
<1>4. \A u \in Threads : call[u].op # "destroy"
  BY <1>1 DEF destroying, In
<1>5. CASE empty
  <2>1. /\ sleep' = Wake(When(enqueue_waiters > 0, on_enqueue_sig))
        /\ UNCHANGED <<first, last, enabled, enqueue_enabled, dequeue_enabled>>
    BY <1>5 DEF empty, switches
  <2>2. ASSUME NEW u \in Threads, sleep'[u] = "asleep" PROVE Reason(u)'
    <3>1. sleep[u] = "asleep" /\ u \notin When(enqueue_waiters > 0, on_enqueue_sig)
      BY <1>2, <2>1, <2>2
    <3>2. call[u].op \notin EnqueueOps
      BY <3>1, Signaled, SleepersCount DEF When
    <3>3. Reason(u)
      BY <3>1 DEF SleepInv
    <3> QED BY <1>1, <1>4, <2>1, <3>2, <3>3 DEF Reason, EnqueueOps
  <2> QED BY <1>3, <2>2 DEF SleepInv
<1>6. ASSUME NEW e, NEW ee, NEW de, NEW W, Switch(e, ee, de, W),
             enabled => e \/ W = everyone_asleep,
             enqueue_enabled => ee \/ on_enqueue_sig \subseteq W,
             dequeue_enabled => de \/ on_dequeue_sig \subseteq W
      PROVE  SleepInv'
  <2>1. /\ enabled' = e /\ enqueue_enabled' = ee /\ dequeue_enabled' = de
        /\ sleep' = Wake(W) /\ UNCHANGED <<pipe_size, first, last>>
    BY <1>6 DEF Switch, ring
  <2>2. ASSUME NEW u \in Threads, sleep'[u] = "asleep" PROVE Reason(u)'
    <3>1. sleep[u] = "asleep" /\ u \notin W
      BY <1>2, <2>1, <2>2
    <3>2. Reason(u)
      BY <3>1 DEF SleepInv
    <3>3. /\ enabled => e
          /\ call[u].op \in EnqueueOps => (enqueue_enabled => ee)
          /\ call[u].op = "dequeue" => (dequeue_enabled => de)
      BY <1>6, <3>1, Signaled
    <3> QED BY <1>1, <1>4, <2>1, <3>2, <3>3 DEF Reason, no_room, EnqueueOps
  <2> QED BY <1>3, <2>2 DEF SleepInv
<1>7. CASE enable \/ disable \/ enable_enqueue \/ disable_enqueue
           \/ enable_dequeue \/ disable_dequeue
  BY <1>6, <1>7 DEF enable, disable, enable_enqueue, disable_enqueue,
            enable_dequeue, disable_dequeue
<1> QED BY <1>5, <1>7 DEF Control

LEMMA TimersKeepSleep ==
    ASSUME PipeInv, SleepInv, NEW t \in Threads, Expire(t) \/ SpuriousWakeup(t)
    PROVE  SleepInv'
<1>1. PICK x \in {"awake", "expired"} : SetSleep(t, x)
  BY DEF Expire, SpuriousWakeup
<1>2. /\ UNCHANGED <<pipe_max_size, pipe_size, first, last, enabled, enqueue_enabled,
                     dequeue_enabled, dequeue_waiters, enqueue_waiters,
                     unblock_sig_waiters, call>>
      /\ sleep' = [sleep EXCEPT ![t] = x]
  BY <1>1 DEF SetSleep, ring, switches, counters
<1>3. \A u \in Threads : sleep'[u] = "asleep" => sleep[u] = "asleep"
  BY <1>2 DEF PipeInv, TypeOK
<1> QED BY <1>2, <1>3
        DEF SleepInv, Reason, no_room, someone_inside, destroying, In

LEMMA NextSleepInv == ASSUME PipeInv, SleepInv, [Next]_vars PROVE SleepInv'
<1>1. ASSUME NEW t \in Threads,
             \/ Enqueue(t) \/ EnqueueResumes(t) \/ HandoverResumes(t)
             \/ Dequeue(t) \/ DequeueResumes(t)
             \/ wait_until_empty(t) \/ wait_for_num_blocked_dequeues(t) \/ destroy(t)
             \/ Expire(t) \/ SpuriousWakeup(t)
      PROVE  SleepInv'
  BY <1>1, EnqueueCallsKeepSleep, HandoverKeepsSleep, DequeueCallsKeepSleep,
     DrainKeepsSleep, DestroyKeepsSleep, TimersKeepSleep
<1>2. CASE UNCHANGED vars
  BY <1>2 DEF vars, ring, switches, counters, SleepInv, Reason, no_room,
              someone_inside, destroying, In
<1>3. CASE Terminated
  BY <1>2, <1>3 DEF Terminated
<1> QED BY <1>1, <1>2, <1>3, ControlKeepsSleep DEF Next

LEMMA AlwaysSleepInv == Spec => []SleepInv
<1>1. Init => SleepInv
  BY DEF Init, SleepInv, destroying, In, Idle
<1>2. PipeInv /\ SleepInv /\ [Next]_vars => SleepInv'
  BY NextSleepInv
<1> QED BY <1>1, <1>2, AlwaysPipeInv, PTL DEF Spec

(* Whatever lets a thread in enqueue go on (an item taken, a handover that *)
(* ends, enqueueing disabled), a thread in dequeue (dequeueing disabled),  *)
(* one in wait_until_empty (the last item taken), the destructor (a caller *)
(* gone) or any of them (disable) wakes it in the same critical section    *)
(* (pipe_kernel_1.h).  The wake-ups that the code does not make are not    *)
(* asked for: of the two waits when dequeueing is disabled, and of         *)
(* wait_for_num_blocked_dequeues for its count.  A dequeue may sleep       *)
(* beside an item that another is on its way to: see EveryItemHasATaker.   *)
THEOREM NobodySleepsForNothing == Spec => []SleepersHaveReason
<1>1. SleepInv => SleepersHaveReason
  <2>1. SUFFICES ASSUME SleepInv, NEW t \in Threads, sleep[t] = "asleep"
                 PROVE  CASE call[t].op = "enqueue" -> no_room(call[t])
                          [] call[t].op = "handover" -> last = 0 /\ enabled /\ enqueue_enabled
                          [] call[t].op = "dequeue" -> enabled /\ dequeue_enabled
                          [] call[t].op = "wait_until_empty" -> pipe_size > 0 /\ enabled
                          [] call[t].op = "wait_for_num_blocked_dequeues" -> enabled
                          [] OTHER -> someone_inside(unblock_sig_waiters)
    BY DEF SleepersHaveReason
  <2>2. Reason(t)
    BY <2>1 DEF SleepInv
  <2> QED BY <2>2 DEF Reason, EnqueueOps, UnblockOps
<1> QED BY <1>1, AlwaysSleepInv, PTL

(***************************************************************************)
(* Items and the threads on their way to them.                             *)
(***************************************************************************)
Takers == {u \in In({"dequeue"}) : sleep[u] = "awake"}

Available ==
    IF pipe_max_size > 0 THEN pipe_size
    ELSE IF first = 0 /\ last = 0 THEN 1 ELSE 0

LEMMA TakersFinite ==
    /\ IsFiniteSet(Takers) /\ Cardinality(Takers) \in Nat
    /\ IsFiniteSet(Takers') /\ Cardinality(Takers') \in Nat
<1>1. Takers \subseteq Threads /\ Takers' \subseteq Threads
  BY DEF Takers, In
<1> QED BY <1>1, PipeAssumption, FS_Subset, FS_CardinalityType

LEMMA AvailableCounts ==
    /\ PipeInv => Available \in Nat
    /\ PipeInv' => Available' \in Nat
<1>1. PipeInv => Available \in Nat
  BY PipeAssumption DEF PipeInv, TypeOK, Available
<1>2. PipeInv' => Available' \in Nat
  BY PipeAssumption DEF PipeInv, TypeOK, Available
<1> QED BY <1>1, <1>2

(* nobody falls asleep, nobody on the way is lost, and no item comes       *)
LEMMA TakersStay ==
    ASSUME PipeInv, PipeInv', ItemsHaveTakers,
           on_dequeue_sig' # {} => on_dequeue_sig # {},
           Takers \subseteq Takers', Available' <= Available
    PROVE  ItemsHaveTakers'
<1>1. Cardinality(Takers) <= Cardinality(Takers')
  BY TakersFinite, FS_Subset
<1>2. on_dequeue_sig # {} => Cardinality(Takers) >= Available
  BY DEF ItemsHaveTakers, Takers, Available
<1>3. on_dequeue_sig' # {} => Cardinality(Takers') >= Available'
  BY <1>1, <1>2, TakersFinite, AvailableCounts
<1> QED BY <1>3 DEF ItemsHaveTakers, Takers, Available

(* what a section of t that waits in c or leaves does to each thread       *)
LEMMA SectionEffect ==
    ASSUME PipeInv, NEW t \in Threads, NEW c, NEW W,
           Wait(t, c, W) \/ (c = Idle /\ Leave(t, W))
    PROVE  /\ \A u \in Threads \ {t} :
                 /\ call'[u] = call[u]
                 /\ sleep'[u] = IF u \in W THEN "awake" ELSE sleep[u]
           /\ call'[t] = c
<1>1. call \in [Threads -> Callings] /\ sleep \in [Threads -> Sleeps]
  BY DEF PipeInv, TypeOK, Sleeps
<1>2. \A u \in Threads : Wake(W)[u] = IF u \in W THEN "awake" ELSE sleep[u]
  BY DEF Wake
<1>3. Wake(W) \in [Threads -> Sleeps]
  BY SectionTypes DEF PipeInv
<1> HIDE DEF Wake
<1> QED BY <1>1, <1>2, <1>3 DEF Wait, Leave

(* a section of a thread that has nothing to do with dequeue               *)
LEMMA OthersKeepTakers ==
    ASSUME PipeInv, PipeInv', ItemsHaveTakers, NEW t \in Threads, NEW c, NEW W,
           Wait(t, c, W) \/ (c = Idle /\ Leave(t, W)),
           call[t].op # "dequeue", c.op # "dequeue", Available' <= Available
    PROVE  ItemsHaveTakers'
<1>1. /\ \A u \in Threads \ {t} :
            /\ call'[u] = call[u]
            /\ sleep'[u] = IF u \in W THEN "awake" ELSE sleep[u]
      /\ call'[t] = c
  BY SectionEffect
<1>2. on_dequeue_sig' \subseteq on_dequeue_sig
  BY <1>1 DEF on_dequeue_sig, Asleep, In
<1>3. Takers \subseteq Takers'
  BY <1>1 DEF Takers, In
<1> QED BY <1>2, <1>3, TakersStay

(* one more item comes, and one sleeper, if there is any, is woken for it  *)
LEMMA InsertKeepsTakers ==
    ASSUME PipeInv, PipeInv', ItemsHaveTakers, NEW t \in Threads, NEW c \in Callings, NEW ew,
           EnqueueInserts(t, c, ew), UNCHANGED <<pipe_max_size, switches>>,
           c.op = "enqueue", call[t].op # "dequeue"
    PROVE  ItemsHaveTakers'
<1> DEFINE h == [c EXCEPT !.op = "handover"]
<1>1. h.op = "handover" /\ Idle.op = "idle"
  BY DEF Callings, Idle
<1>2. PICK W \in taker_woken :
         IF pipe_max_size > 0 THEN pipe_size' = pipe_size + 1 /\ Leave(t, W)
         ELSE Wait(t, h, W) /\ UNCHANGED pipe_size
  BY DEF EnqueueInserts
<1>3. PICK d : d.op # "dequeue" /\ (Wait(t, d, W) \/ (d = Idle /\ Leave(t, W)))
  BY <1>1, <1>2
<1> HIDE DEF h
<1>4. /\ \A u \in Threads \ {t} :
            /\ call'[u] = call[u]
            /\ sleep'[u] = IF u \in W THEN "awake" ELSE sleep[u]
      /\ call'[t] = d
  BY <1>3, SectionEffect
<1>5. on_dequeue_sig' \subseteq on_dequeue_sig
  BY <1>3, <1>4 DEF on_dequeue_sig, Asleep, In
<1>6. CASE on_dequeue_sig = {}
  BY <1>5, <1>6 DEF ItemsHaveTakers
<1>7. CASE on_dequeue_sig # {}
  <2>1. dequeue_waiters > 0
    BY <1>7, SleepersCount DEF on_dequeue_sig, Asleep, In
  <2>2. PICK u \in on_dequeue_sig : W = {u}
    BY <1>7, <2>1 DEF taker_woken
  <2>3. /\ u \in Threads \ {t} /\ u \notin Takers
        /\ u \in Takers' /\ Takers \subseteq Takers'
    BY <1>4, <2>2 DEF on_dequeue_sig, Asleep, In, Takers
  <2>4. Cardinality(Takers \cup {u}) = Cardinality(Takers) + 1
    BY <2>3, TakersFinite, FS_AddElement
  <2>5. Cardinality(Takers \cup {u}) <= Cardinality(Takers')
    BY <2>3, TakersFinite, FS_Subset
  <2>6. Available' <= Available + 1
    <3>1. pipe_max_size' = pipe_max_size /\ pipe_max_size \in Nat /\ pipe_size \in Nat
      BY PipeAssumption DEF PipeInv, TypeOK
    <3>2. pipe_max_size > 0 => pipe_size' = pipe_size + 1
      BY <1>2
    <3> QED BY <3>1, <3>2 DEF Available
  <2>7. Cardinality(Takers) >= Available
    BY <1>7 DEF ItemsHaveTakers, Takers, Available
  <2>8. Cardinality(Takers') >= Available'
    BY <2>4, <2>5, <2>6, <2>7, TakersFinite, AvailableCounts
  <2> QED BY <2>8 DEF ItemsHaveTakers, Takers, Available
<1> QED BY <1>6, <1>7

LEMMA EnqueueKeepsTakers ==
    ASSUME PipeInv, PipeInv', ItemsHaveTakers, NEW t \in Threads,
           Enqueue(t) \/ EnqueueResumes(t)
    PROVE  ItemsHaveTakers'
<1>1. PICK c, ew : /\ c \in Callings /\ EnqueueSection(t, c, ew)
                   /\ c.op = "enqueue" /\ call[t].op # "dequeue"
  <2>1. CASE Enqueue(t)
    <3>1. Len(fate) \in Nat
      BY DEF PipeInv, TypeOK
    <3>2. PICK p \in {"forever", "timeout", "now"} :
             EnqueueSection(t, [op |-> "enqueue", arg |-> Len(fate) + 1, patience |-> p],
                            enqueue_waiters + 1)
      BY <2>1 DEF Enqueue
    <3> DEFINE d == [op |-> "enqueue", arg |-> Len(fate) + 1, patience |-> p]
    <3>3. d \in Callings /\ d.op = "enqueue" /\ call[t].op # "dequeue"
      BY <2>1, <3>1, PipeAssumption DEF Enqueue, Callings, Items, EnqueueOps, Idle
    <3>4. EnqueueSection(t, d, enqueue_waiters + 1)
      BY <3>2
    <3> HIDE DEF d
    <3> QED BY <3>3, <3>4
  <2>2. CASE EnqueueResumes(t)
    BY <2>2 DEF EnqueueResumes, PipeInv, TypeOK
  <2> QED BY <2>1, <2>2
<1>2. UNCHANGED <<pipe_max_size, switches>>
  BY <1>1 DEF EnqueueSection
<1>3. CASE EnqueueWaits(t, c, ew) \/ EnqueueFails(t, c, ew)
  <2>1. UNCHANGED ring
    BY <1>3 DEF EnqueueWaits, EnqueueFails
  <2>2. Available' = Available
    BY <1>2, <2>1 DEF Available, ring
  <2>3. Available' <= Available
    BY <2>2, AvailableCounts
  <2>4. Wait(t, c, {}) \/ Leave(t, on_unblock_sig)
    BY <1>3 DEF EnqueueWaits, EnqueueFails
  <2>5. Idle.op # "dequeue"
    BY DEF Idle
  <2> QED BY <1>1, <2>3, <2>4, <2>5, OthersKeepTakers
<1>4. CASE EnqueueInserts(t, c, ew)
  BY <1>1, <1>2, <1>4, InsertKeepsTakers
<1> QED BY <1>1, <1>3, <1>4 DEF EnqueueSection

LEMMA HandoverKeepsTakers ==
    ASSUME PipeInv, PipeInv', SleepInv, ItemsHaveTakers, NEW t \in Threads,
           HandoverResumes(t)
    PROVE  ItemsHaveTakers'
<1>1. call[t].op = "handover" /\ pipe_max_size = 0 /\ pipe_max_size' = 0 /\ Idle.op # "dequeue"
  BY DEF HandoverResumes, SleepInv, Idle
<1>2. CASE HandoverWaits(t)
  <2>1. Available' = Available
    BY <1>1, <1>2 DEF HandoverWaits, ring, Available
  <2> QED BY <1>1, <1>2, <2>1, OthersKeepTakers, AvailableCounts DEF HandoverWaits
<1>3. CASE HandoverRetracts(t) \/ HandoverEnds(t)
  <2>1. Available' = 0
    BY <1>1, <1>3 DEF HandoverRetracts, HandoverEnds, Available
  <2>2. \E W : Leave(t, W)
    BY <1>3 DEF HandoverRetracts, HandoverEnds
  <2> QED BY <1>1, <2>1, <2>2, OthersKeepTakers, AvailableCounts
<1> QED BY <1>2, <1>3 DEF HandoverResumes

(* a dequeue that takes an item was on its way, or is one more             *)
LEMMA DequeueKeepsTakers ==
    ASSUME PipeInv, PipeInv', SleepInv, ItemsHaveTakers, NEW t \in Threads,
           Dequeue(t) \/ DequeueResumes(t)
    PROVE  ItemsHaveTakers'
<1>1. PICK c, dw, W : DequeueSection(t, c, dw, W)
  <2>1. CASE Dequeue(t)
    BY <2>1, Zenon DEF Dequeue
  <2>2. CASE DequeueResumes(t)
    BY <2>2 DEF DequeueResumes
  <2> QED BY <2>1, <2>2
<1>2. /\ pipe_max_size' = pipe_max_size /\ pipe_max_size \in Nat
      /\ pipe_size \in 0 .. pipe_max_size /\ Available \in Nat
      /\ enabled' = enabled /\ dequeue_enabled' = dequeue_enabled
  BY <1>1, AvailableCounts, PipeAssumption DEF DequeueSection, PipeInv, TypeOK, switches
<1>3. nothing_there => Available = 0
  BY <1>2 DEF nothing_there, Available
<1>4. CASE UNCHANGED ring /\ nothing_there
  <2>1. Available' = 0
    BY <1>2, <1>3, <1>4 DEF Available, ring
  <2>2. Cardinality(Takers') >= Available'
    BY <2>1, TakersFinite
  <2> QED BY <2>2 DEF ItemsHaveTakers, Takers, Available
<1>5. ASSUME NEW V, Leave(t, V)
      PROVE  /\ on_dequeue_sig' \subseteq on_dequeue_sig
             /\ Takers \ {t} \subseteq Takers'
  <2>1. /\ \A u \in Threads \ {t} :
              /\ call'[u] = call[u]
              /\ sleep'[u] = IF u \in V THEN "awake" ELSE sleep[u]
        /\ call'[t] = Idle
    BY <1>5, SectionEffect
  <2>2. Idle.op # "dequeue"
    BY DEF Idle
  <2>3. on_dequeue_sig' \subseteq on_dequeue_sig
    BY <2>1, <2>2 DEF on_dequeue_sig, Asleep, In
  <2>4. Takers \ {t} \subseteq Takers'
    BY <2>1 DEF Takers, In
  <2> QED BY <2>3, <2>4
<1>6. CASE DequeueFails(t, c, dw, W)
  <2>1. Leave(t, W \cup on_unblock_sig) /\ UNCHANGED ring
    BY <1>6 DEF DequeueFails
  <2>2. Available' = Available
    BY <1>2, <2>1 DEF Available, ring
  <2>3. CASE ~ enabled \/ ~ dequeue_enabled
    <3>1. on_dequeue_sig = {}
      BY <2>3 DEF on_dequeue_sig, Asleep, In, SleepInv, Reason
    <3>2. on_dequeue_sig' = {}
      BY <1>5, <2>1, <3>1
    <3> QED BY <3>2 DEF ItemsHaveTakers
  <2>4. CASE sleep[t] = "expired"
    <3>1. t \notin Takers
      BY <2>4 DEF Takers
    <3>2. Takers \subseteq Takers' /\ (on_dequeue_sig' # {} => on_dequeue_sig # {})
      BY <1>5, <2>1, <3>1
    <3> QED BY <1>2, <2>2, <3>2, TakersStay
  <2>5. CASE nothing_there
    BY <1>4, <2>1, <2>5
  <2> QED BY <1>6, <2>3, <2>4, <2>5 DEF DequeueFails
<1>7. CASE DequeueTakes(t, dw, W)
  <2>1. /\ ~ nothing_there /\ enabled /\ dequeue_enabled
        /\ \E V : Leave(t, V)
    BY <1>7 DEF DequeueTakes
  <2>2. Available' = Available - 1
    <3>1. CASE pipe_max_size > 0
      BY <1>2, <1>7, <3>1 DEF DequeueTakes, Available
    <3>2. CASE ~ (pipe_max_size > 0)
      <4>1. pipe_max_size = 0 /\ pipe_size = 0 /\ last' = 1
        BY <1>2, <1>7, <3>2 DEF DequeueTakes
      <4> QED BY <1>2, <2>1, <3>2, <4>1 DEF nothing_there, Available
    <3> QED BY <3>1, <3>2
  <2>3. on_dequeue_sig' \subseteq on_dequeue_sig /\ Takers \ {t} \subseteq Takers'
    BY <1>5, <2>1
  <2>4. /\ Cardinality(Takers \ {t}) >= Cardinality(Takers) - 1
        /\ Cardinality(Takers \ {t}) \in Nat
    <3>1. CASE t \in Takers
      <4>1. IsFiniteSet(Takers) /\ IsFiniteSet(Takers \ {t})
        BY TakersFinite, FS_Subset
      <4>2. Cardinality(Takers \ {t}) = Cardinality(Takers) - 1
        BY <3>1, <4>1, FS_RemoveElement
      <4>3. Cardinality(Takers \ {t}) \in Nat /\ Cardinality(Takers) \in Nat
        BY <4>1, FS_CardinalityType
      <4> QED BY <4>2, <4>3
    <3>2. CASE t \notin Takers
      <4>1. Takers \ {t} = Takers
        BY <3>2
      <4> QED BY <4>1, TakersFinite
    <3> QED BY <3>1, <3>2
  <2>5. Cardinality(Takers \ {t}) <= Cardinality(Takers')
    BY <2>3, TakersFinite, FS_Subset
  <2>6. on_dequeue_sig # {} => Cardinality(Takers) >= Available
    BY DEF ItemsHaveTakers, Takers, Available
  <2>7. on_dequeue_sig' # {} => Cardinality(Takers') >= Available'
    BY <1>2, <2>2, <2>3, <2>4, <2>5, <2>6, TakersFinite
  <2> QED BY <2>7 DEF ItemsHaveTakers, Takers, Available
<1>8. CASE DequeueWaits(t, c, dw, W)
  BY <1>4, <1>8 DEF DequeueWaits
<1> QED BY <1>1, <1>6, <1>7, <1>8 DEF DequeueSection

(* the calls that wait for the pipe to drain move no item                  *)
Moving == {"enqueue", "handover", "dequeue"}

LEMMA DrainEffect ==
    ASSUME NEW t \in Threads, wait_until_empty(t) \/ wait_for_num_blocked_dequeues(t)
    PROVE  /\ UNCHANGED <<pipe_max_size, ring, fate>> /\ call[t].op \notin Moving
           /\ \E c, W : /\ c.op \notin Moving
                        /\ Wait(t, c, W) \/ (c = Idle /\ Leave(t, W))
<1>1. /\ [Idle EXCEPT !.op = "wait_until_empty"].op = "wait_until_empty"
      /\ \A n : [Idle EXCEPT !.op = "wait_for_num_blocked_dequeues", !.arg = n].op
                   = "wait_for_num_blocked_dequeues"
      /\ Idle.op = "idle" /\ Idle.op \notin Moving
  BY DEF Idle, Moving
<1>2. CASE wait_until_empty(t)
  <2>1. PICK ew : UntilEmptySection(t, ew)
    BY <1>2 DEF wait_until_empty
  <2>2. call[t].op \notin Moving
    BY <1>1, <1>2 DEF wait_until_empty, Moving
  <2>3. \/ Wait(t, [Idle EXCEPT !.op = "wait_until_empty"], {})
        \/ Leave(t, When(~ enabled, on_unblock_sig))
    BY <2>1 DEF UntilEmptySection
  <2>4. UNCHANGED <<pipe_max_size, ring, fate>>
    BY <2>1 DEF UntilEmptySection
  <2> DEFINE d == [Idle EXCEPT !.op = "wait_until_empty"]
  <2>5. d.op \notin Moving /\ (Wait(t, d, {}) \/ Leave(t, When(~ enabled, on_unblock_sig)))
    BY <1>1, <2>3 DEF Moving
  <2> HIDE DEF d
  <2> QED BY <1>1, <2>2, <2>4, <2>5
<1>3. CASE wait_for_num_blocked_dequeues(t)
  <2>1. PICK c, uw : c.op \notin Moving /\ NumBlockedSection(t, c, uw)
    <3>1. CASE call[t].op = "wait_for_num_blocked_dequeues"
               /\ NumBlockedSection(t, call[t], unblock_sig_waiters)
      BY <3>1 DEF Moving
    <3>2. CASE \E n \in Nums : NumBlockedSection(t,
                    [Idle EXCEPT !.op = "wait_for_num_blocked_dequeues", !.arg = n],
                    unblock_sig_waiters + 1)
      <4>1. PICK n \in Nums : NumBlockedSection(t,
                    [Idle EXCEPT !.op = "wait_for_num_blocked_dequeues", !.arg = n],
                    unblock_sig_waiters + 1)
        BY <3>2
      <4> DEFINE d == [Idle EXCEPT !.op = "wait_for_num_blocked_dequeues", !.arg = n]
      <4>2. d.op \notin Moving /\ NumBlockedSection(t, d, unblock_sig_waiters + 1)
        BY <1>1, <4>1 DEF Moving
      <4> HIDE DEF d
      <4> QED BY <4>2
    <3> QED BY <1>3, <3>1, <3>2 DEF wait_for_num_blocked_dequeues
  <2>2. call[t].op \notin Moving
    BY <1>1, <1>3 DEF wait_for_num_blocked_dequeues, Moving
  <2>3. /\ Wait(t, c, {}) \/ Leave(t, When(~ enabled, on_unblock_sig))
        /\ UNCHANGED <<pipe_max_size, ring, fate>>
    BY <2>1 DEF NumBlockedSection
  <2> QED BY <1>1, <2>1, <2>2, <2>3
<1> QED BY <1>2, <1>3

LEMMA DrainKeepsTakers ==
    ASSUME PipeInv, PipeInv', ItemsHaveTakers, NEW t \in Threads,
           wait_until_empty(t) \/ wait_for_num_blocked_dequeues(t)
    PROVE  ItemsHaveTakers'
<1>1. /\ UNCHANGED <<pipe_max_size, ring>> /\ call[t].op # "dequeue"
      /\ \E c, W : c.op # "dequeue" /\ (Wait(t, c, W) \/ (c = Idle /\ Leave(t, W)))
  BY DrainEffect DEF Moving
<1>2. Available' <= Available
  BY <1>1, AvailableCounts DEF Available, ring
<1> QED BY <1>1, <1>2, OthersKeepTakers

(* nobody sleeps in dequeue of a disabled pipe                             *)
LEMMA DestroyKeepsTakers ==
    ASSUME SleepInv, SleepInv', NEW t \in Threads, destroy(t), PipeInv
    PROVE  ItemsHaveTakers'
<1>1. enabled' = FALSE
  <2>1. CASE enabled' = FALSE
    BY <2>1
  <2>2. CASE call[t].op = "destroy" /\ UNCHANGED enabled
    <3>1. ~ enabled /\ enabled \in BOOLEAN
      BY <2>2 DEF SleepInv, destroying, In, PipeInv, TypeOK, switches
    <3> QED BY <2>2, <3>1
  <2> QED BY <2>1, <2>2 DEF destroy
<1>2. \A u \in Threads : sleep'[u] = "asleep" => call'[u].op # "dequeue"
  BY <1>1 DEF SleepInv, Reason
<1>3. on_dequeue_sig' = {}
  BY <1>2 DEF on_dequeue_sig, Asleep, In
<1> QED BY <1>3 DEF ItemsHaveTakers

LEMMA ControlKeepsTakers ==
    ASSUME PipeInv, PipeInv', ItemsHaveTakers, Control PROVE ItemsHaveTakers'
<1>1. call' = call /\ pipe_max_size' = pipe_max_size
  BY DEF Control
<1>2. PICK W : sleep' = Wake(W)
  BY DEF Control, Switch, empty, enable, disable, enable_enqueue, disable_enqueue,
         enable_dequeue, disable_dequeue
<1>3. \A u \in Threads : sleep'[u] = IF u \in W THEN "awake" ELSE sleep[u]
  BY <1>2 DEF Wake
<1>4. on_dequeue_sig' \subseteq on_dequeue_sig /\ Takers \subseteq Takers'
  BY <1>1, <1>3 DEF on_dequeue_sig, Asleep, In, Takers
<1>5. /\ first' = first /\ last' = last
      /\ pipe_size' \in {pipe_size, 0}
  BY DEF Control, Switch, ring, empty, enable, disable, enable_enqueue, disable_enqueue,
         enable_dequeue, disable_dequeue
<1>6. pipe_size \in Nat /\ Available \in Nat
  BY AvailableCounts, PipeAssumption DEF PipeInv, TypeOK
<1>7. Available' <= Available
  BY <1>1, <1>5, <1>6 DEF Available
<1> QED BY <1>4, <1>7, TakersStay

LEMMA TimersKeepTakers ==
    ASSUME PipeInv, PipeInv', ItemsHaveTakers, NEW t \in Threads,
           Expire(t) \/ SpuriousWakeup(t)
    PROVE  ItemsHaveTakers'
<1>1. PICK x \in {"awake", "expired"} : SetSleep(t, x) /\ sleep[t] = "asleep"
  BY DEF Expire, SpuriousWakeup
<1>2. /\ UNCHANGED <<pipe_max_size, pipe_size, first, last, call>>
      /\ sleep' = [sleep EXCEPT ![t] = x] /\ sleep \in [Threads -> Sleeps]
  BY <1>1 DEF SetSleep, ring, PipeInv, TypeOK, Sleeps
<1>3. on_dequeue_sig' \subseteq on_dequeue_sig /\ Takers \subseteq Takers'
  BY <1>1, <1>2 DEF on_dequeue_sig, Asleep, In, Takers
<1>4. Available' <= Available
  BY <1>2, AvailableCounts DEF Available
<1> QED BY <1>3, <1>4, TakersStay

LEMMA NextTakers ==
    ASSUME PipeInv, PipeInv', SleepInv, SleepInv', ItemsHaveTakers, [Next]_vars
    PROVE  ItemsHaveTakers'
<1>1. ASSUME NEW t \in Threads,
             \/ Enqueue(t) \/ EnqueueResumes(t) \/ HandoverResumes(t)
             \/ Dequeue(t) \/ DequeueResumes(t)
             \/ wait_until_empty(t) \/ wait_for_num_blocked_dequeues(t) \/ destroy(t)
             \/ Expire(t) \/ SpuriousWakeup(t)
      PROVE  ItemsHaveTakers'
  BY <1>1, EnqueueKeepsTakers, HandoverKeepsTakers, DequeueKeepsTakers,
     DrainKeepsTakers, DestroyKeepsTakers, TimersKeepTakers
<1>2. CASE UNCHANGED vars
  BY <1>2 DEF vars, ring, ItemsHaveTakers, on_dequeue_sig, Asleep, In
<1>3. CASE Terminated
  BY <1>2, <1>3 DEF Terminated
<1> QED BY <1>1, <1>2, <1>3, ControlKeepsTakers DEF Next

(* While a thread sleeps in dequeue, each item that lies in the pipe has   *)
(* another on its way to it, though enqueue signals only one sleeper an    *)
(* item, timers run out and other threads come first (pipe_kernel_1.h:     *)
(* dequeue_sig.signal() in enqueue).                                       *)
THEOREM EveryItemHasATaker == Spec => []ItemsHaveTakers
<1>1. Init => ItemsHaveTakers
  BY DEF Init, ItemsHaveTakers, on_dequeue_sig, Asleep, In
<1>2. PipeInv /\ PipeInv' /\ SleepInv /\ SleepInv' /\ ItemsHaveTakers /\ [Next]_vars
         => ItemsHaveTakers'
  BY NextTakers
<1> QED BY <1>1, <1>2, AlwaysPipeInv, AlwaysSleepInv, PTL DEF Spec

(***************************************************************************)
(* What becomes of the items: Pipe implements Channel.                     *)
(***************************************************************************)
Offers(t) == call[t].op \in {"enqueue", "handover"}

(* the items are numbered as they are offered, each by one thread          *)
Numbered ==
    /\ Len(fate) <= MaxItems
    /\ \A t \in Threads : Offers(t) => call[t].arg \in 1 .. Len(fate)
    /\ \A t \in Threads : call[t].op = "enqueue" => fate[call[t].arg] = "offered"
    /\ \A t, u \in Threads : Offers(t) /\ Offers(u) /\ t # u => call[t].arg # call[u].arg

(* what lies in the ring, nobody offers any more                           *)
Contained ==
    \A i \in 1 .. pipe_size :
        /\ content[i] \in 1 .. Len(fate)
        /\ \A t \in Threads : Offers(t) => call[t].arg # content[i]

(* the one handover of a pipe of size 0, and how far it is                 *)
HandingOver ==
    /\ \A t \in Threads : call[t].op = "handover" =>
          /\ first = 0
          /\ last = 0 => data[0] = call[t].arg /\ fate[call[t].arg] = "offered"
          /\ last # 0 => fate[call[t].arg] = "passed"
    /\ \A t, u \in Threads : call[t].op = "handover" /\ call[u].op = "handover" => t = u
    /\ pipe_max_size = 0 /\ first = 0 => \E t \in Threads : call[t].op = "handover"

(* last is where the item that came last lies                              *)
RingEnds ==
    pipe_size > 0 =>
        /\ first \in 0 .. pipe_max_size - 1
        /\ last = (first + pipe_size - 1) % pipe_max_size

ItemInv == Numbered /\ Contained /\ HandingOver /\ RingEnds

(* the i-th place from f in a ring of m, as the code has it and without %  *)
RingAt(f, i, m) == (f + i - 1) % m
Place(f, i, m) == IF f + i - 1 < m THEN f + i - 1 ELSE f + i - 1 - m

LEMMA PlaceInRing ==
    ASSUME NEW m \in Nat \ {0}, NEW f \in 0 .. m - 1, NEW i \in 1 .. m
    PROVE  RingAt(f, i, m) = Place(f, i, m) /\ Place(f, i, m) \in 0 .. m - 1
<1>1. CASE f + i - 1 < m
  BY <1>1 DEF Place, RingAt
<1>2. CASE f + i - 1 >= m
  BY <1>2 DEF Place, RingAt
<1> QED BY <1>1, <1>2

LEMMA RingTypes ==
    ASSUME PipeInv
    PROVE  /\ pipe_max_size \in Nat /\ pipe_size \in 0 .. pipe_max_size
           /\ DOMAIN data = 0 .. (IF pipe_max_size > 0 THEN pipe_max_size - 1 ELSE 0)
           /\ fate \in Seq(Fates) /\ Len(fate) \in Nat /\ MaxItems \in Nat
           /\ call \in [Threads -> Callings]
           /\ \A i \in 1 .. pipe_size : content[i] = data[RingAt(first, i, pipe_max_size)]
           /\ pipe_size = 0 => content = << >>
           /\ content \in Seq(Items \cup {NoItem}) /\ Len(content) = pipe_size
<1>1. /\ pipe_max_size \in Nat /\ pipe_size \in 0 .. pipe_max_size
      /\ DOMAIN data = 0 .. (IF pipe_max_size > 0 THEN pipe_max_size - 1 ELSE 0)
      /\ fate \in Seq(Fates) /\ Len(fate) \in Nat /\ MaxItems \in Nat
      /\ call \in [Threads -> Callings]
      /\ data \in [DOMAIN data -> Items \cup {NoItem}]
      /\ first \in Nat
  BY PipeAssumption DEF PipeInv, TypeOK, RingDomain, Fates
<1>2. \A i \in 1 .. pipe_size : content[i] = data[RingAt(first, i, pipe_max_size)]
  BY DEF content, RingAt
<1>3. ASSUME NEW i \in 1 .. pipe_size PROVE content[i] \in Items \cup {NoItem}
  <2>1. pipe_max_size \in Nat \ {0}
    BY <1>1
  <2>2. RingAt(first, i, pipe_max_size) \in DOMAIN data
    BY <1>1, <2>1 DEF RingAt
  <2> QED BY <1>1, <1>2, <2>2
<1>4. content \in [1 .. pipe_size -> Items \cup {NoItem}]
  BY <1>3 DEF content
<1>5. content \in Seq(Items \cup {NoItem}) /\ Len(content) = pipe_size
  BY <1>1, <1>4
<1>6. pipe_size = 0 => content = << >>
  BY <1>5
<1> QED BY <1>1, <1>2, <1>5, <1>6

(* what Settled does to the history                                        *)
LEMMA SettledEffect ==
    ASSUME PipeInv, NEW i \in 1 .. Len(fate) + 1, NEW f \in Fates
    PROVE  /\ Settled(i, f) \in Seq(Fates)
           /\ Len(Settled(i, f)) = IF i = Len(fate) + 1 THEN i ELSE Len(fate)
           /\ Settled(i, f)[i] = f
           /\ \A j \in 1 .. Len(fate) : j # i => Settled(i, f)[j] = fate[j]
<1>1. fate \in Seq(Fates) /\ Len(fate) \in Nat
  BY RingTypes
<1>2. CASE i \in DOMAIN fate
  BY <1>1, <1>2 DEF Settled
<1>3. CASE i \notin DOMAIN fate
  <2>1. i = Len(fate) + 1 /\ Settled(i, f) = Append(fate, f)
    BY <1>1, <1>3 DEF Settled
  <2> QED BY <1>1, <2>1
<1> QED BY <1>2, <1>3

(* t settles an item nobody else offers, and goes on with c                *)
Settles(t, c, i, f) ==
    /\ c \in Callings /\ call' = [call EXCEPT ![t] = c]
    /\ i \in 1 .. Len(fate) + 1 /\ i <= MaxItems
    /\ f \in Fates /\ fate' = Settled(i, f)
    /\ c.op \in {"enqueue", "handover"} =>
           /\ c.arg = i
           /\ \A u \in Threads \ {t} : Offers(u) => call[u].arg # i
    /\ c.op = "enqueue" => f = "offered"
    /\ \A u \in Threads \ {t} : call[u].op = "enqueue" => call[u].arg # i

LEMMA NumberedStays ==
    ASSUME PipeInv, Numbered, NEW t \in Threads, NEW c, NEW i, NEW f, Settles(t, c, i, f)
    PROVE  Numbered'
<1> USE DEF Settles
<1>1. /\ \A u \in Threads : call'[u] = IF u = t THEN c ELSE call[u]
      /\ Len(fate) \in Nat /\ MaxItems \in Nat /\ Len(fate) <= MaxItems
  BY RingTypes DEF Numbered
<1>2. /\ Len(fate') = IF i = Len(fate) + 1 THEN i ELSE Len(fate)
      /\ fate'[i] = f
      /\ \A j \in 1 .. Len(fate) : j # i => fate'[j] = fate[j]
  BY SettledEffect
<1>3. Len(fate') <= MaxItems /\ i \in 1 .. Len(fate')
      /\ \A j \in 1 .. Len(fate) : j \in 1 .. Len(fate')
  BY <1>1, <1>2
<1>4. ASSUME NEW u \in Threads, Offers(u)'
      PROVE  /\ call'[u].arg \in 1 .. Len(fate')
             /\ call'[u].op = "enqueue" => fate'[call'[u].arg] = "offered"
  BY <1>1, <1>2, <1>3, <1>4 DEF Offers, Numbered
<1>5. ASSUME NEW u \in Threads, NEW v \in Threads, Offers(u)', Offers(v)', u # v
      PROVE  call'[u].arg # call'[v].arg
  BY <1>1, <1>5 DEF Offers, Numbered
<1> QED BY <1>3, <1>4, <1>5 DEF Numbered, Offers

(* t may settle item i: a new one, or the one it offers                    *)
Offering(t, i) ==
    \/ call[t].op = "idle" /\ i = Len(fate) + 1 /\ i <= MaxItems
    \/ Offers(t) /\ i = call[t].arg

LEMMA OfferedByOne ==
    ASSUME PipeInv, ItemInv, NEW t \in Threads, NEW i, Offering(t, i)
    PROVE  /\ i \in 1 .. Len(fate) + 1 /\ i \in 1 .. MaxItems
           /\ \A u \in Threads \ {t} : Offers(u) => call[u].arg # i
           /\ \A k \in 1 .. pipe_size : content[k] # i
<1>1. Len(fate) \in Nat /\ MaxItems \in Nat /\ Len(fate) <= MaxItems
  BY RingTypes DEF ItemInv, Numbered
<1>2. CASE call[t].op = "idle" /\ i = Len(fate) + 1 /\ i <= MaxItems
  BY <1>1, <1>2 DEF ItemInv, Numbered, Contained
<1>3. CASE Offers(t) /\ i = call[t].arg
  BY <1>1, <1>3 DEF ItemInv, Numbered, Contained
<1> QED BY <1>2, <1>3 DEF Offering

LEMMA SettleMapped ==
    ASSUME PipeInv, ItemInv, NEW t \in Threads, NEW i, Offering(t, i),
           call[t].op = "handover" => last = 0,
           NEW f, fate' = Settled(i, f)
    PROVE  Queue!Settle(i, f)
<1>1. /\ i \in 1 .. Len(fate) + 1 /\ i <= MaxItems
      /\ DOMAIN fate = 1 .. Len(fate) /\ Len(fate) \in Nat
  BY OfferedByOne, RingTypes
<1>2. CASE i = Len(fate) + 1
  <2>1. i \notin DOMAIN fate
    BY <1>1, <1>2
  <2>2. fate' = Append(fate, f)
    BY <2>1 DEF Settled
  <2> QED BY <1>1, <1>2, <2>2, Zenon DEF Queue!Settle
<1>3. CASE i # Len(fate) + 1
  <2>1. i \in DOMAIN fate /\ fate[i] = "offered"
    BY <1>1, <1>3 DEF Offering, Offers, ItemInv, Numbered, HandingOver
  <2> QED BY <2>1 DEF Settled, Queue!Settle
<1> QED BY <1>2, <1>3

(* a step that moves no item, of a thread that offers none                 *)
LEMMA QuietMapped ==
    ASSUME ItemInv, UNCHANGED <<pipe_max_size, ring, fate>>,
           \A u \in Threads : \/ call'[u] = call[u]
                              \/ ~ Offers(u) /\ ~ Offers(u)'
    PROVE  ItemInv' /\ UNCHANGED Queue!vars
<1>1. UNCHANGED <<pipe_max_size, pipe_size, data, first, last, fate>>
  BY DEF ring
<1>2. content' = content
  BY <1>1 DEF content
<1>3. \A u \in Threads : (Offers(u)' \/ Offers(u)) => call'[u] = call[u]
  BY DEF Offers
<1>4. Numbered' /\ Contained'
  BY <1>1, <1>2, <1>3 DEF ItemInv, Numbered, Contained, Offers
<1>5. \A u \in Threads : /\ call'[u].op = "handover" <=> call[u].op = "handover"
                         /\ call'[u].op = "handover" => call'[u] = call[u]
  BY <1>3 DEF Offers
<1>6. HandingOver'
  BY <1>1, <1>5 DEF ItemInv, HandingOver
<1>7. RingEnds'
  BY <1>1 DEF ItemInv, RingEnds
<1> QED BY <1>1, <1>2, <1>4, <1>6, <1>7 DEF ItemInv, Queue!vars

(* an enqueue that waits or gives up, and one that settles its item        *)
LEMMA OfferMapped ==
    ASSUME PipeInv, ItemInv, NEW t \in Threads, call[t].op \in {"idle", "enqueue"},
           NEW i, Offering(t, i), NEW c \in Callings,
           c = Idle \/ (c.op = "enqueue" /\ c.arg = i),
           call' = [call EXCEPT ![t] = c],
           NEW f \in {"offered", "refused"}, c.op = "enqueue" => f = "offered",
           fate' = Settled(i, f), UNCHANGED <<pipe_max_size, ring>>
    PROVE  ItemInv' /\ Queue!Settle(i, f) /\ UNCHANGED <<pipe_max_size, content>>
<1>1. /\ i \in 1 .. Len(fate) + 1 /\ i \in 1 .. MaxItems
      /\ \A u \in Threads \ {t} : Offers(u) => call[u].arg # i
      /\ \A k \in 1 .. pipe_size : content[k] # i
  BY OfferedByOne
<1>2. UNCHANGED <<pipe_max_size, pipe_size, data, first, last, content>>
  BY DEF ring, content
<1>3. Idle.op = "idle" /\ f \in Fates
  BY DEF Idle, Fates
<1>4. Numbered'
  <2>1. \A u \in Threads \ {t} : call[u].op = "enqueue" => call[u].arg # i
    BY <1>1 DEF Offers
  <2>2. Settles(t, c, i, f)
    BY <1>1, <1>3, <2>1, RingTypes DEF Settles
  <2> QED BY <2>2, NumberedStays DEF ItemInv
<1>5. /\ \A u \in Threads : call'[u] = IF u = t THEN c ELSE call[u]
      /\ Len(fate) \in Nat
  BY RingTypes
<1>6. /\ Len(fate') = IF i = Len(fate) + 1 THEN i ELSE Len(fate)
      /\ \A j \in 1 .. Len(fate) : j # i => fate'[j] = fate[j]
  BY <1>1, <1>3, SettledEffect
<1>7. \A j \in 1 .. Len(fate) : j \in 1 .. Len(fate')
  BY <1>1, <1>5, <1>6
<1>8. Contained'
  BY <1>1, <1>2, <1>3, <1>5, <1>7 DEF ItemInv, Contained, Offers
<1>9. \A u \in Threads : /\ call'[u].op = "handover" <=> call[u].op = "handover"
                         /\ call[u].op = "handover" => /\ call'[u] = call[u]
                                                       /\ call[u].arg \in 1 .. Len(fate)
                                                       /\ call[u].arg # i
  BY <1>1, <1>3, <1>5 DEF Offers, ItemInv, Numbered
<1>10. HandingOver'
  BY <1>2, <1>6, <1>9 DEF ItemInv, HandingOver
<1>11. RingEnds'
  BY <1>2 DEF ItemInv, RingEnds
<1>12. Queue!Settle(i, f)
  BY SettleMapped
<1> QED BY <1>2, <1>4, <1>8, <1>10, <1>11, <1>12 DEF ItemInv

(* a function on 1 .. n is the sequence it looks like                      *)
LEMMA LooksAppended ==
    ASSUME NEW S, NEW s \in Seq(S), NEW e \in S, NEW w \in [1 .. Len(s) + 1 -> S],
           \A k \in 1 .. Len(s) : w[k] = s[k], w[Len(s) + 1] = e
    PROVE  w = Append(s, e)
<1>1. /\ Append(s, e) \in Seq(S) /\ Len(Append(s, e)) = Len(s) + 1
      /\ \A k \in 1 .. Len(s) : Append(s, e)[k] = s[k]
      /\ Append(s, e)[Len(s) + 1] = e
  BY AppendProperties
<1>2. Len(s) \in Nat /\ w \in Seq(S) /\ Len(w) = Len(s) + 1
  OBVIOUS
<1>3. ASSUME NEW k \in 1 .. Len(w) PROVE w[k] = Append(s, e)[k]
  <2>1. k \in 1 .. Len(s) \/ k = Len(s) + 1
    BY <1>2
  <2> QED BY <1>1, <2>1
<1> QED BY <1>1, <1>2, <1>3, SeqEqual

LEMMA LooksCut ==
    ASSUME NEW S, NEW s \in Seq(S), s # << >>, NEW w \in [1 .. Len(s) - 1 -> S],
           \A k \in 1 .. Len(s) - 1 : w[k] = s[k + 1]
    PROVE  w = Tail(s)
<1>1. /\ Tail(s) \in Seq(S) /\ Len(Tail(s)) = Len(s) - 1
      /\ \A k \in 1 .. Len(s) - 1 : Tail(s)[k] = s[k + 1]
  BY HeadTailProperties
<1>2. Len(s) \in Nat \ {0}
  OBVIOUS
<1>3. w \in Seq(S) /\ Len(w) = Len(s) - 1
  BY <1>2
<1> QED BY <1>1, <1>3, SeqEqual

(* an item put behind the last in the ring; below, the first one taken     *)
LEMMA RingAppend ==
    ASSUME PipeInv, RingEnds, UNCHANGED pipe_max_size, pipe_size < pipe_max_size,
           NEW i \in Items,
           first' = IF pipe_size = 0 THEN 0 ELSE first,
           last' = IF pipe_size = 0 THEN 0 ELSE next_index(last),
           data' = [data EXCEPT ![last'] = i], pipe_size' = pipe_size + 1
    PROVE  RingEnds' /\ content' = Append(content, i)
<1> DEFINE m == pipe_max_size
           n == pipe_size
<1>1. /\ m \in Nat \ {0} /\ n \in 0 .. m - 1 /\ DOMAIN data = 0 .. m - 1
      /\ \A k \in 1 .. n : content[k] = data[RingAt(first, k, m)]
      /\ content \in Seq(Items \cup {NoItem}) /\ Len(content) = n
  BY RingTypes
<1>2. first' \in 0 .. m - 1 /\ (n > 0 => first' = first)
  <2>1. CASE n = 0
    BY <1>1, <2>1
  <2>2. CASE n # 0
    BY <1>1, <2>2 DEF RingEnds
  <2> QED BY <2>1, <2>2
<1>3. last' = Place(first', n + 1, m)
  <2>1. CASE n = 0
    BY <1>1, <2>1 DEF Place
  <2>2. CASE n # 0
    <3>1. last = Place(first, n, m) /\ first \in 0 .. m - 1
      BY <1>1, <2>2, PlaceInRing DEF RingEnds, RingAt
    <3>2. last \in 0 .. m - 1 /\ last' = RingAt(last, 2, m)
      BY <1>1, <2>2, <3>1, PlaceInRing DEF next_index, RingAt
    <3>3. last' = Place(last, 2, m)
      BY <1>1, <2>2, <3>2, PlaceInRing
    <3> QED BY <1>1, <1>2, <2>2, <3>1, <3>3 DEF Place
  <2> QED BY <2>1, <2>2
<1>4. last' = RingAt(first', n + 1, m) /\ last' \in DOMAIN data
  <2>1. n + 1 \in 1 .. m
    BY <1>1
  <2> QED BY <1>1, <1>2, <1>3, <2>1, PlaceInRing
<1>5. RingEnds'
  BY <1>1, <1>2, <1>4 DEF RingEnds, RingAt
<1>6. content' = [k \in 1 .. n + 1 |-> data'[RingAt(first', k, m)]]
  BY DEF content, RingAt
<1>7. content'[n + 1] = i
  <2>1. content'[n + 1] = data'[RingAt(first', n + 1, m)]
    BY <1>1, <1>6
  <2> QED BY <1>4, <2>1
<1>8. ASSUME NEW k \in 1 .. n PROVE content'[k] = content[k]
  <2>1. first' = first /\ first \in 0 .. m - 1 /\ k \in 1 .. m /\ k \in 1 .. n + 1
    <3>1. n > 0 /\ k \in 1 .. m /\ k \in 1 .. n + 1
      BY <1>1
    <3> QED BY <1>2, <3>1
  <2>2. content'[k] = data'[Place(first, k, m)] /\ Place(first, k, m) \in DOMAIN data
    BY <1>1, <1>6, <2>1, PlaceInRing
  <2>3. Place(first, k, m) # last'
    BY <1>1, <1>3, <2>1 DEF Place
  <2>4. content[k] = data[Place(first, k, m)]
    BY <1>1, <2>1, PlaceInRing
  <2> QED BY <2>2, <2>3, <2>4
<1>9. content' \in [1 .. Len(content) + 1 -> Items \cup {NoItem}]
  <2>1. ASSUME NEW k \in 1 .. n + 1 PROVE content'[k] \in Items \cup {NoItem}
    <3>1. k \in 1 .. n \/ k = n + 1
      BY <1>1
    <3>2. \A j \in 1 .. n : content[j] \in Items \cup {NoItem}
      BY <1>1
    <3> QED BY <1>7, <1>8, <3>1, <3>2
  <2> QED BY <1>1, <1>6, <2>1
<1>10. content' = Append(content, i)
  <2>1. i \in Items \cup {NoItem}
    OBVIOUS
  <2> HIDE DEF n, m
  <2> QED BY <1>1, <1>7, <1>8, <1>9, <2>1, LooksAppended
<1> QED BY <1>5, <1>10

LEMMA RingTail ==
    ASSUME PipeInv, RingEnds, UNCHANGED <<pipe_max_size, last>>, pipe_size > 0,
           first' = next_index(first), data' = [data EXCEPT ![first] = NoItem],
           pipe_size' = pipe_size - 1
    PROVE  /\ RingEnds' /\ content # << >> /\ Len(content) = pipe_size
           /\ content' = Tail(content) /\ Head(content) = data[first]
           /\ content[1] = data[first]
           /\ \A k \in 1 .. pipe_size' : content'[k] = content[k + 1]
<1> DEFINE m == pipe_max_size
           n == pipe_size
<1>1. /\ m \in Nat \ {0} /\ n \in 1 .. m /\ DOMAIN data = 0 .. m - 1
      /\ \A k \in 1 .. n : content[k] = data[RingAt(first, k, m)]
      /\ content \in Seq(Items \cup {NoItem}) /\ Len(content) = n
      /\ first \in 0 .. m - 1
  BY RingTypes DEF RingEnds, RingAt
<1>2. content[1] = data[first] /\ content # << >> /\ Head(content) = content[1]
  <2>1. RingAt(first, 1, m) = Place(first, 1, m) /\ Place(first, 1, m) = first
    BY <1>1, PlaceInRing DEF Place
  <2>2. content[1] = data[first]
    BY <1>1, <2>1
  <2>3. content # << >> /\ Head(content) = content[1]
    BY <1>1
  <2> QED BY <2>2, <2>3
<1>3. n > 1 => first' = Place(first, 2, m) /\ first' \in 0 .. m - 1
  <2>1. first' = RingAt(first, 2, m)
    BY <1>1 DEF next_index, RingAt
  <2> QED BY <1>1, <2>1, PlaceInRing
<1>4. RingEnds'
  <2>1. SUFFICES ASSUME n > 1
                 PROVE  first' \in 0 .. m - 1 /\ last = RingAt(first', n - 1, m)
    BY <1>1 DEF RingEnds, RingAt
  <2>2. last = Place(first, n, m)
    BY <1>1, PlaceInRing DEF RingEnds, RingAt
  <2>3. RingAt(first', n - 1, m) = Place(first', n - 1, m)
    <3>1. n - 1 \in 1 .. m
      BY <1>1, <2>1
    <3> QED BY <1>1, <1>3, <2>1, <3>1, PlaceInRing
  <2>4. Place(first', n - 1, m) = Place(first, n, m)
    BY <1>1, <1>3, <2>1 DEF Place
  <2> QED BY <1>3, <2>1, <2>2, <2>3, <2>4
<1>5. content' = [k \in 1 .. n - 1 |-> data'[RingAt(first', k, m)]]
  BY DEF content, RingAt
<1>6. ASSUME NEW k \in 1 .. n - 1 PROVE content'[k] = content[k + 1]
  <2>1. /\ first' = Place(first, 2, m) /\ first' \in 0 .. m - 1
        /\ k \in 1 .. m /\ k + 1 \in 1 .. m /\ k + 1 \in 1 .. n
    <3>1. n > 1
      BY <1>1
    <3> QED BY <1>1, <1>3, <3>1
  <2>2. content'[k] = data'[Place(first', k, m)]
    BY <1>1, <1>5, <2>1, PlaceInRing
  <2>3. Place(first', k, m) = Place(first, k + 1, m) /\ Place(first, k + 1, m) # first
    BY <1>1, <2>1 DEF Place
  <2>4. Place(first, k + 1, m) = RingAt(first, k + 1, m) /\ Place(first, k + 1, m) \in DOMAIN data
    BY <1>1, <2>1, PlaceInRing
  <2>5. content[k + 1] = data[Place(first, k + 1, m)]
    BY <1>1, <2>1, <2>4
  <2> QED BY <2>2, <2>3, <2>4, <2>5
<1>7. content' \in [1 .. Len(content) - 1 -> Items \cup {NoItem}]
  <2>1. \A k \in 1 .. n - 1 : content'[k] \in Items \cup {NoItem}
    BY <1>1, <1>6
  <2> QED BY <1>1, <1>5, <2>1
<1>8. content' = Tail(content)
  <2> HIDE DEF n, m
  <2> QED BY <1>1, <1>2, <1>6, <1>7, LooksCut
<1> QED BY <1>1, <1>2, <1>4, <1>6, <1>8

(* an enqueue that finds room, and the same in a pipe of size 0            *)
LEMMA PutMapped ==
    ASSUME PipeInv, SleepInv, ItemInv, NEW t \in Threads, call[t].op \in {"idle", "enqueue"},
           NEW i, Offering(t, i), pipe_max_size > 0, UNCHANGED pipe_max_size,
           pipe_size # pipe_max_size,
           first' = IF pipe_size = 0 THEN 0 ELSE first,
           last' = IF pipe_size = 0 THEN 0 ELSE next_index(last),
           data' = [data EXCEPT ![last'] = i], pipe_size' = pipe_size + 1,
           call' = [call EXCEPT ![t] = Idle], fate' = Settled(i, "held")
    PROVE  ItemInv' /\ Queue!Put(i)
<1>1. /\ i \in 1 .. Len(fate) + 1 /\ i \in 1 .. MaxItems
      /\ \A u \in Threads \ {t} : Offers(u) => call[u].arg # i
      /\ \A k \in 1 .. pipe_size : content[k] # i
  BY OfferedByOne
<1>2. /\ pipe_max_size \in Nat /\ pipe_size \in 0 .. pipe_max_size
      /\ Len(content) = pipe_size /\ content \in Seq(Items \cup {NoItem})
      /\ Len(fate) \in Nat /\ MaxItems \in Nat
  BY RingTypes
<1>3. i \in Items /\ pipe_size < pipe_max_size /\ Idle.op = "idle" /\ "held" \in Fates
  BY <1>1, <1>2 DEF Items, Idle, Fates
<1>4. RingEnds' /\ content' = Append(content, i)
  BY <1>3, RingAppend DEF ItemInv
<1>5. /\ \A u \in Threads : call'[u] = IF u = t THEN Idle ELSE call[u]
      /\ \A u \in Threads : ~ (call[u].op = "handover")
  BY <1>2, RingTypes DEF SleepInv
<1>6. Numbered'
  <2>1. \A u \in Threads \ {t} : call[u].op = "enqueue" => call[u].arg # i
    BY <1>1 DEF Offers
  <2>2. Settles(t, Idle, i, "held")
    BY <1>1, <1>2, <1>3, <2>1, IdleCalling DEF Settles
  <2> QED BY <2>2, NumberedStays DEF ItemInv
<1>7. /\ Len(fate') = IF i = Len(fate) + 1 THEN i ELSE Len(fate)
      /\ \A j \in 1 .. Len(fate) : j \in 1 .. Len(fate')
      /\ i \in 1 .. Len(fate')
  <2>1. Len(fate') = IF i = Len(fate) + 1 THEN i ELSE Len(fate)
    BY <1>1, <1>3, SettledEffect
  <2> QED BY <1>1, <1>2, <2>1
<1>8. ASSUME NEW k \in 1 .. pipe_size'
      PROVE  /\ content'[k] \in 1 .. Len(fate')
             /\ \A u \in Threads : Offers(u)' => call'[u].arg # content'[k]
  <2>1. CASE k = pipe_size + 1
    <3>1. content'[k] = i
      BY <1>2, <1>3, <1>4, <2>1, AppendProperties
    <3> QED BY <1>1, <1>3, <1>5, <1>7, <3>1 DEF Offers
  <2>2. CASE k # pipe_size + 1
    <3>1. k \in 1 .. pipe_size
      BY <1>2, <2>2
    <3>2. content'[k] = content[k]
      BY <1>2, <1>3, <1>4, <3>1, AppendProperties
    <3> QED BY <1>3, <1>5, <1>7, <3>1, <3>2 DEF Offers, ItemInv, Contained
  <2> QED BY <2>1, <2>2
<1>9. Contained'
  BY <1>8 DEF Contained
<1>10. HandingOver'
  BY <1>2, <1>3, <1>5 DEF HandingOver
<1>11. Queue!Settle(i, "held")
  BY <1>3, SettleMapped
<1>12. Queue!Put(i)
  BY <1>2, <1>3, <1>4, <1>11 DEF Queue!Put
<1> QED BY <1>4, <1>6, <1>9, <1>10, <1>12 DEF ItemInv

LEMMA HandMapped ==
    ASSUME PipeInv, ItemInv, NEW t \in Threads, call[t].op \in {"idle", "enqueue"},
           NEW i, Offering(t, i), pipe_max_size = 0, first = 1, UNCHANGED pipe_max_size,
           first' = 0, last' = 0, data' = [data EXCEPT ![0] = i], UNCHANGED pipe_size,
           NEW c \in Callings, c.op = "handover", c.arg = i,
           call' = [call EXCEPT ![t] = c], fate' = Settled(i, "offered")
    PROVE  ItemInv' /\ Queue!Offer(i)
<1>1. /\ i \in 1 .. Len(fate) + 1 /\ i \in 1 .. MaxItems
      /\ \A u \in Threads \ {t} : Offers(u) => call[u].arg # i
  BY OfferedByOne
<1>2. /\ pipe_size = 0 /\ content = << >> /\ DOMAIN data = 0 .. 0
      /\ Len(fate) \in Nat /\ MaxItems \in Nat
  BY RingTypes
<1>3. \A u \in Threads : call'[u] = IF u = t THEN c ELSE call[u]
  BY RingTypes
<1>4. Numbered'
  <2>1. /\ \A u \in Threads \ {t} : call[u].op = "enqueue" => call[u].arg # i
        /\ "offered" \in Fates
    BY <1>1 DEF Offers, Fates
  <2>2. Settles(t, c, i, "offered")
    BY <1>1, <1>2, <2>1 DEF Settles
  <2> QED BY <2>2, NumberedStays DEF ItemInv
<1>5. pipe_size' = 0 /\ content' = content
  <2>1. content' = [k \in 1 .. 0 |-> data'[(first' + k - 1) % pipe_max_size']]
    BY <1>2 DEF content
  <2>2. content' = << >>
    BY <2>1
  <2> QED BY <1>2, <2>2
<1>6. Contained' /\ RingEnds'
  BY <1>5 DEF Contained, RingEnds
<1>7. \A u \in Threads : call[u].op # "handover"
  BY DEF ItemInv, HandingOver
<1>8. fate'[i] = "offered"
  BY <1>1, SettledEffect DEF Fates
<1>9. data'[0] = i
  BY <1>2
<1>10. HandingOver'
  BY <1>3, <1>7, <1>8, <1>9 DEF HandingOver
<1>11. Queue!Offer(i)
  BY <1>5, SettleMapped DEF Queue!Offer
<1> QED BY <1>4, <1>6, <1>10, <1>11 DEF ItemInv

LEMMA EnqueueMapped ==
    ASSUME PipeInv, SleepInv, ItemInv, NEW t \in Threads,
           Enqueue(t) \/ EnqueueResumes(t)
    PROVE  ItemInv' /\ \E i \in 1 .. MaxItems :
                          Queue!Offer(i) \/ Queue!Refuse(i) \/ Queue!Put(i)
<1>1. PICK c, ew : /\ c \in Callings /\ EnqueueSection(t, c, ew) /\ c.op = "enqueue"
                   /\ call[t].op \in {"idle", "enqueue"} /\ Offering(t, c.arg)
  <2>1. CASE Enqueue(t)
    <3>1. Len(fate) \in Nat
      BY RingTypes
    <3>2. PICK p \in {"forever", "timeout", "now"} :
             EnqueueSection(t, [op |-> "enqueue", arg |-> Len(fate) + 1, patience |-> p],
                            enqueue_waiters + 1)
      BY <2>1 DEF Enqueue
    <3> DEFINE d == [op |-> "enqueue", arg |-> Len(fate) + 1, patience |-> p]
    <3>3. d \in Callings /\ d.op = "enqueue" /\ call[t].op = "idle" /\ d.arg = Len(fate) + 1
      BY <2>1, <3>1, PipeAssumption DEF Enqueue, Callings, Items, EnqueueOps, Idle
    <3>4. EnqueueSection(t, d, enqueue_waiters + 1)
      BY <3>2
    <3>5. d.arg <= MaxItems
      BY <2>1, <3>1, <3>3, PipeAssumption DEF Enqueue
    <3> HIDE DEF d
    <3> QED BY <3>3, <3>4, <3>5 DEF Offering
  <2>2. CASE EnqueueResumes(t)
    BY <2>2, RingTypes DEF EnqueueResumes, Offering, Offers
  <2> QED BY <2>1, <2>2
<1>2. PICK i \in 1 .. MaxItems : i = c.arg
  BY <1>1, OfferedByOne
<1>3. UNCHANGED pipe_max_size
  BY <1>1 DEF EnqueueSection
<1>4. ASSUME NEW d, NEW W, Wait(t, d, W) \/ (d = Idle /\ Leave(t, W))
      PROVE  call' = [call EXCEPT ![t] = d]
  BY <1>4 DEF Wait, Leave
<1>5. CASE EnqueueWaits(t, c, ew)
  <2>1. /\ call' = [call EXCEPT ![t] = c] /\ fate' = Settled(i, "offered") /\ UNCHANGED ring
    BY <1>2, <1>4, <1>5 DEF EnqueueWaits
  <2>2. ItemInv' /\ Queue!Settle(i, "offered") /\ UNCHANGED <<pipe_max_size, content>>
    BY <1>1, <1>2, <1>3, <2>1, OfferMapped
  <2> QED BY <2>2 DEF Queue!Offer
<1>6. CASE EnqueueFails(t, c, ew)
  <2>1. /\ call' = [call EXCEPT ![t] = Idle] /\ fate' = Settled(i, "refused") /\ UNCHANGED ring
    BY <1>2, <1>4, <1>6 DEF EnqueueFails
  <2>2. Idle \in Callings /\ Idle.op # "enqueue"
    BY IdleCalling
  <2>3. ItemInv' /\ Queue!Settle(i, "refused") /\ UNCHANGED <<pipe_max_size, content>>
    BY <1>1, <1>2, <1>3, <2>1, <2>2, OfferMapped
  <2> QED BY <2>3 DEF Queue!Refuse
<1>7. CASE EnqueueInserts(t, c, ew)
  <2> DEFINE h == [c EXCEPT !.op = "handover"]
  <2>1. h \in Callings /\ h.op = "handover" /\ h.arg = i
    BY <1>1, <1>2 DEF Callings, EnqueueOps
  <2>2. /\ ~ no_room(c) /\ enabled /\ enqueue_enabled
        /\ first' = IF pipe_size = 0 THEN 0 ELSE first
        /\ last' = IF pipe_size = 0 THEN 0 ELSE next_index(last)
        /\ data' = [data EXCEPT ![last'] = i]
    BY <1>2, <1>7 DEF EnqueueInserts
  <2>3. /\ pipe_max_size > 0 =>
              /\ pipe_size' = pipe_size + 1 /\ fate' = Settled(i, "held")
              /\ call' = [call EXCEPT ![t] = Idle]
        /\ ~ (pipe_max_size > 0) =>
              /\ UNCHANGED pipe_size /\ fate' = Settled(i, "offered")
              /\ call' = [call EXCEPT ![t] = h]
    BY <1>2, <1>4, <1>7 DEF EnqueueInserts
  <2>4. pipe_max_size \in Nat /\ pipe_size \in 0 .. pipe_max_size
    BY RingTypes
  <2> HIDE DEF h
  <2>5. CASE pipe_max_size > 0
    <3>1. pipe_size # pipe_max_size
      BY <2>2, <2>4, <2>5 DEF no_room
    <3>2. ItemInv' /\ Queue!Put(i)
      BY <1>1, <1>2, <1>3, <2>2, <2>3, <2>5, <3>1, PutMapped
    <3> QED BY <3>2
  <2>6. CASE ~ (pipe_max_size > 0)
    <3>1. pipe_max_size = 0 /\ pipe_size = 0 /\ first = 1
      BY <2>2, <2>4, <2>6 DEF no_room
    <3>2. first' = 0 /\ last' = 0 /\ data' = [data EXCEPT ![0] = i]
      BY <2>2, <3>1
    <3>3. ItemInv' /\ Queue!Offer(i)
      BY <1>1, <1>2, <1>3, <2>1, <2>3, <2>6, <3>1, <3>2, HandMapped
    <3> QED BY <3>3
  <2> QED BY <2>5, <2>6
<1> QED BY <1>1, <1>5, <1>6, <1>7 DEF EnqueueSection

(* a handover that ends, one way or the other                              *)
LEMMA HandoverMapped ==
    ASSUME PipeInv, SleepInv, ItemInv, NEW t \in Threads, HandoverResumes(t)
    PROVE  /\ ItemInv'
           /\ \/ \E i \in 1 .. MaxItems : Queue!Refuse(i) \/ Queue!Passed(i)
              \/ UNCHANGED Queue!vars
<1>1. /\ call[t].op = "handover" /\ UNCHANGED pipe_max_size
      /\ pipe_max_size = 0 /\ pipe_size = 0 /\ content = << >>
      /\ \A u \in Threads \ {t} : call[u].op # "handover"
  BY RingTypes DEF HandoverResumes, SleepInv, ItemInv, HandingOver
<1> DEFINE i == call[t].arg
<1>2. /\ Offering(t, i) /\ i \in 1 .. Len(fate) + 1 /\ i \in 1 .. MaxItems
      /\ i \in 1 .. Len(fate) /\ Len(fate) \in Nat /\ MaxItems \in Nat
      /\ \A u \in Threads \ {t} : Offers(u) => call[u].arg # i
  BY <1>1, OfferedByOne, RingTypes DEF Offering, Offers, ItemInv, Numbered
<1>3. ASSUME first' = 1, last' = 1, UNCHANGED pipe_size, NEW f \in Fates,
             call' = [call EXCEPT ![t] = Idle], fate' = Settled(i, f)
      PROVE  ItemInv' /\ content' = content
  <2>1. Settles(t, Idle, i, f)
    BY <1>2, <1>3, IdleCalling DEF Settles, Offers
  <2>2. Numbered'
    BY <2>1, NumberedStays DEF ItemInv
  <2>3. pipe_size' = 0 /\ content' = content
    <3>1. content' = [k \in 1 .. 0 |-> data'[(first' + k - 1) % pipe_max_size']]
      BY <1>1, <1>3 DEF content
    <3>2. content' = << >>
      BY <3>1
    <3> QED BY <1>1, <1>3, <3>2
  <2>4. Contained' /\ RingEnds'
    BY <2>3 DEF Contained, RingEnds
  <2>5. \A u \in Threads : call'[u].op # "handover"
    BY <1>1, <1>3, IdleCalling, RingTypes
  <2>6. HandingOver'
    BY <1>3, <2>5 DEF HandingOver
  <2> QED BY <2>2, <2>3, <2>4, <2>6 DEF ItemInv
<1>4. CASE HandoverWaits(t)
  <2>1. UNCHANGED <<pipe_max_size, ring, fate>> /\ call' = call
    BY <1>1, <1>4, RingTypes DEF HandoverWaits, Wait
  <2> QED BY <2>1, QuietMapped
<1>5. CASE HandoverRetracts(t)
  <2>1. /\ first' = 1 /\ last' = 1 /\ UNCHANGED pipe_size /\ last = 0
        /\ call' = [call EXCEPT ![t] = Idle] /\ fate' = Settled(i, "refused")
    BY <1>5 DEF HandoverRetracts, Leave
  <2>2. ItemInv' /\ content' = content
    BY <1>3, <2>1 DEF Fates
  <2>3. Queue!Settle(i, "refused")
    BY <1>2, <2>1, SettleMapped
  <2>4. Queue!Refuse(i)
    BY <1>1, <2>2, <2>3 DEF Queue!Refuse
  <2> QED BY <1>2, <2>2, <2>4
<1>6. CASE HandoverEnds(t)
  <2>1. /\ first' = 1 /\ last' = 1 /\ UNCHANGED pipe_size /\ last # 0
        /\ call' = [call EXCEPT ![t] = Idle] /\ fate' = Settled(i, "taken")
    BY <1>6 DEF HandoverEnds, Leave
  <2>2. ItemInv' /\ content' = content
    BY <1>3, <2>1 DEF Fates
  <2>3. i \in DOMAIN fate /\ fate[i] = "passed"
    BY <1>1, <1>2, <2>1, RingTypes DEF ItemInv, HandingOver
  <2>4. Queue!Passed(i)
    BY <1>1, <2>1, <2>2, <2>3 DEF Queue!Passed, Settled
  <2> QED BY <1>2, <2>2, <2>4
<1> QED BY <1>4, <1>5, <1>6 DEF HandoverResumes

(* a dequeue that finds an item in the ring                                *)
LEMMA GetMapped ==
    ASSUME PipeInv, SleepInv, ItemInv, NEW t \in Threads, ~ Offers(t),
           pipe_max_size > 0, pipe_size > 0, UNCHANGED <<pipe_max_size, last>>,
           first' = next_index(first), data' = [data EXCEPT ![first] = NoItem],
           pipe_size' = pipe_size - 1,
           call' = [call EXCEPT ![t] = Idle], fate' = Settled(data[first], "taken")
    PROVE  ItemInv' /\ Queue!Get
<1> DEFINE i == data[first]
<1>1. /\ RingEnds' /\ content # << >> /\ Len(content) = pipe_size
      /\ content' = Tail(content) /\ Head(content) = i /\ content[1] = i
      /\ \A k \in 1 .. pipe_size' : content'[k] = content[k + 1]
  BY RingTail DEF ItemInv
<1>2. /\ pipe_size \in Nat /\ Len(fate) \in Nat /\ MaxItems \in Nat /\ Len(fate) <= MaxItems
      /\ fate \in Seq(Fates) /\ pipe_max_size # 0
  BY RingTypes DEF ItemInv, Numbered
<1>3. i \in 1 .. Len(fate) /\ \A u \in Threads : Offers(u) => call[u].arg # i
  <2>1. 1 \in 1 .. pipe_size
    BY <1>2
  <2> QED BY <1>1, <2>1 DEF ItemInv, Contained
<1>4. fate' = [fate EXCEPT ![i] = "taken"] /\ Len(fate') = Len(fate)
  BY <1>2, <1>3 DEF Settled
<1>5. /\ \A u \in Threads : call'[u] = IF u = t THEN Idle ELSE call[u]
      /\ \A u \in Threads : ~ (call[u].op = "handover")
      /\ Idle.op = "idle"
  BY <1>2, RingTypes, IdleCalling DEF SleepInv
<1>6. Numbered'
  <2>1. Settles(t, Idle, i, "taken")
    BY <1>2, <1>3, IdleCalling DEF Settles, Offers, Fates
  <2> QED BY <2>1, NumberedStays DEF ItemInv
<1>7. ASSUME NEW k \in 1 .. pipe_size'
      PROVE  /\ content'[k] \in 1 .. Len(fate')
             /\ \A u \in Threads : Offers(u)' => call'[u].arg # content'[k]
  <2>1. k + 1 \in 1 .. pipe_size
    BY <1>2
  <2>2. content'[k] = content[k + 1]
    BY <1>1
  <2> QED BY <1>4, <1>5, <2>1, <2>2 DEF Offers, ItemInv, Contained
<1>8. Contained'
  BY <1>7 DEF Contained
<1>9. HandingOver'
  BY <1>2, <1>5 DEF HandingOver
<1>10. Queue!Get
  BY <1>1, <1>4 DEF Queue!Get
<1> QED BY <1>1, <1>6, <1>8, <1>9, <1>10 DEF ItemInv

(* a dequeue that takes the item another thread hands over                 *)
LEMMA PassMapped ==
    ASSUME PipeInv, ItemInv, NEW t \in Threads, ~ Offers(t),
           pipe_max_size = 0, first = 0, last = 0,
           UNCHANGED <<pipe_max_size, pipe_size, first>>, last' = 1,
           call' = [call EXCEPT ![t] = Idle], fate' = Settled(data[first], "passed")
    PROVE  ItemInv' /\ \E i \in 1 .. MaxItems : Queue!Pass(i)
<1> DEFINE i == data[0]
<1>1. PICK u \in Threads : call[u].op = "handover" /\ i = call[u].arg /\ fate[i] = "offered"
  BY DEF ItemInv, HandingOver
<1>2. /\ Offering(u, i) /\ i \in 1 .. Len(fate) + 1 /\ i \in 1 .. MaxItems
      /\ i \in 1 .. Len(fate) /\ Len(fate) \in Nat /\ MaxItems \in Nat
      /\ fate \in Seq(Fates)
      /\ \A v \in Threads \ {u} : Offers(v) => call[v].arg # i
  BY <1>1, OfferedByOne, RingTypes DEF Offering, Offers, ItemInv, Numbered
<1>3. i \in DOMAIN fate /\ fate' = [fate EXCEPT ![i] = "passed"]
  BY <1>2 DEF Settled
<1>4. Numbered'
  <2>1. Settles(t, Idle, i, "passed")
    BY <1>1, <1>2, IdleCalling DEF Settles, Offers, Fates
  <2> QED BY <2>1, NumberedStays DEF ItemInv
<1>5. pipe_size' = 0 /\ content' = content
  <2>1. pipe_size' = 0 /\ content = << >>
    BY RingTypes
  <2>2. content' = [k \in 1 .. 0 |-> data'[(first' + k - 1) % pipe_max_size']]
    BY <2>1 DEF content
  <2>3. content' = << >>
    BY <2>2
  <2> QED BY <2>1, <2>3
<1>6. Contained' /\ RingEnds'
  BY <1>5 DEF Contained, RingEnds
<1>7. \A v \in Threads : call'[v].op = "handover" <=> v = u
  <2>1. \A v \in Threads : call'[v] = IF v = t THEN Idle ELSE call[v]
    BY RingTypes
  <2>2. \A v \in Threads : call[v].op = "handover" <=> v = u
    BY <1>1 DEF ItemInv, HandingOver
  <2> QED BY <1>1, <2>1, <2>2, IdleCalling DEF Offers
<1>8. call'[u] = call[u] /\ fate'[i] = "passed" /\ first' = 0 /\ last' # 0
  <2>1. u # t
    BY <1>1 DEF Offers
  <2> QED BY <1>2, <1>3, <2>1, RingTypes
<1>9. HandingOver'
  BY <1>1, <1>7, <1>8 DEF HandingOver
<1>10. Queue!Pass(i)
  BY <1>1, <1>3, <1>5 DEF Queue!Pass
<1> QED BY <1>2, <1>4, <1>6, <1>9, <1>10 DEF ItemInv

LEMMA DequeueMapped ==
    ASSUME PipeInv, SleepInv, ItemInv, NEW t \in Threads, Dequeue(t) \/ DequeueResumes(t)
    PROVE  /\ ItemInv'
           /\ \/ Queue!Get \/ UNCHANGED Queue!vars
              \/ \E i \in 1 .. MaxItems : Queue!Pass(i)
<1>1. PICK c, dw, W : /\ DequeueSection(t, c, dw, W) /\ c.op = "dequeue"
                      /\ call[t].op \in {"idle", "dequeue"}
  <2>1. CASE Dequeue(t)
    <3>1. PICK p, W : DequeueSection(t, [op |-> "dequeue", arg |-> 0, patience |-> p],
                                     dequeue_waiters + 1, W)
      BY <2>1, Zenon DEF Dequeue
    <3> DEFINE d == [op |-> "dequeue", arg |-> 0, patience |-> p]
    <3>2. d.op = "dequeue" /\ call[t].op = "idle"
      BY <2>1 DEF Dequeue, Idle
    <3>3. DequeueSection(t, d, dequeue_waiters + 1, W)
      BY <3>1
    <3> HIDE DEF d
    <3> QED BY <3>2, <3>3
  <2>2. CASE DequeueResumes(t)
    BY <2>2 DEF DequeueResumes
  <2> QED BY <2>1, <2>2
<1>2. UNCHANGED pipe_max_size /\ ~ Offers(t) /\ Idle.op = "idle"
  BY <1>1 DEF DequeueSection, Offers, Idle
<1>3. CASE DequeueWaits(t, c, dw, W) \/ DequeueFails(t, c, dw, W)
  <2>1. /\ UNCHANGED <<ring, fate>>
        /\ call' = [call EXCEPT ![t] = c] \/ call' = [call EXCEPT ![t] = Idle]
    BY <1>3 DEF DequeueWaits, DequeueFails, Wait, Leave
  <2>2. \A u \in Threads : call'[u] = call[u] \/ (~ Offers(u) /\ ~ Offers(u)')
    BY <1>1, <1>2, <2>1, RingTypes DEF Offers
  <2> QED BY <1>2, <2>1, <2>2, QuietMapped
<1>4. CASE DequeueTakes(t, dw, W)
  <2>1. /\ ~ nothing_there /\ enabled /\ dequeue_enabled
        /\ data' = [data EXCEPT ![first] = NoItem]
        /\ fate' = Settled(data[first], IF pipe_max_size > 0 THEN "taken" ELSE "passed")
        /\ call' = [call EXCEPT ![t] = Idle]
    BY <1>4 DEF DequeueTakes, Leave
  <2>2. pipe_max_size \in Nat /\ pipe_size \in 0 .. pipe_max_size
    BY RingTypes
  <2>3. CASE pipe_max_size > 0
    <3>1. pipe_size > 0
      BY <2>1, <2>2, <2>3 DEF nothing_there
    <3>2. first' = next_index(first) /\ pipe_size' = pipe_size - 1 /\ UNCHANGED last
      BY <1>4, <2>3 DEF DequeueTakes
    <3>3. fate' = Settled(data[first], "taken")
      BY <2>1, <2>3
    <3> QED BY <1>2, <2>1, <2>3, <3>1, <3>2, <3>3, GetMapped
  <2>4. CASE ~ (pipe_max_size > 0)
    <3>1. pipe_max_size = 0 /\ first = 0 /\ last = 0
      BY <2>1, <2>2, <2>4 DEF nothing_there
    <3>2. last' = 1 /\ UNCHANGED <<pipe_size, first>>
      BY <1>4, <2>4 DEF DequeueTakes
    <3>3. fate' = Settled(data[first], "passed")
      BY <2>1, <2>4
    <3> QED BY <1>2, <2>1, <3>1, <3>2, <3>3, PassMapped
  <2> QED BY <2>3, <2>4
<1> QED BY <1>1, <1>3, <1>4 DEF DequeueSection

LEMMA DestroyMapped ==
    ASSUME PipeInv, ItemInv, NEW t \in Threads, destroy(t)
    PROVE  ItemInv' /\ UNCHANGED Queue!vars
<1> DEFINE d == [Idle EXCEPT !.op = "destroy"]
           e == [Idle EXCEPT !.op = "destroyed"]
<1>1. d.op = "destroy" /\ e.op = "destroyed" /\ Idle.op = "idle"
  BY DEF Idle
<1>2. call[t].op \in {"idle", "destroy"}
  BY <1>1 DEF destroy
<1>3. /\ UNCHANGED <<pipe_max_size, ring, fate>>
      /\ call' = [call EXCEPT ![t] = d] \/ call' = [call EXCEPT ![t] = e]
  BY DEF destroy, DestroySection, Wait
<1> HIDE DEF d, e
<1>4. \A u \in Threads : call'[u] = call[u] \/ (~ Offers(u) /\ ~ Offers(u)')
  BY <1>1, <1>2, <1>3, RingTypes DEF Offers
<1> QED BY <1>3, <1>4, QuietMapped

LEMMA DrainMapped ==
    ASSUME PipeInv, ItemInv, NEW t \in Threads,
           wait_until_empty(t) \/ wait_for_num_blocked_dequeues(t)
    PROVE  ItemInv' /\ UNCHANGED Queue!vars
<1>1. /\ UNCHANGED <<pipe_max_size, ring, fate>> /\ call[t].op \notin Moving
      /\ \E c, W : /\ c.op \notin Moving
                   /\ Wait(t, c, W) \/ (c = Idle /\ Leave(t, W))
  BY DrainEffect
<1>2. PICK c : c.op \notin Moving /\ call' = [call EXCEPT ![t] = c]
  BY <1>1 DEF Wait, Leave
<1>3. \A u \in Threads : call'[u] = call[u] \/ (~ Offers(u) /\ ~ Offers(u)')
  BY <1>1, <1>2, RingTypes DEF Offers, Moving
<1> QED BY <1>1, <1>3, QuietMapped

(* what empty() drops was held, not offered                                *)
LEMMA EmptyMapped ==
    ASSUME PipeInv, ItemInv, empty, UNCHANGED <<pipe_max_size, call>>
    PROVE  ItemInv' /\ Queue!Clear
<1>1. /\ pipe_size' = 0 /\ UNCHANGED <<data, first, last, pipe_max_size, call>>
      /\ fate' = [i \in DOMAIN fate |-> IF fate[i] = "held" THEN "dropped" ELSE fate[i]]
  BY DEF empty
<1>2. /\ fate \in Seq(Fates) /\ Len(fate) \in Nat /\ DOMAIN fate = 1 .. Len(fate)
  BY RingTypes
<1>3. /\ Len(fate') = Len(fate)
      /\ \A i \in 1 .. Len(fate) : fate[i] \in {"offered", "passed"} => fate'[i] = fate[i]
  BY <1>1, <1>2 DEF Fates
<1>4. content' = << >>
  <2>1. content' = [k \in 1 .. 0 |-> data'[(first' + k - 1) % pipe_max_size']]
    BY <1>1 DEF content
  <2> QED BY <2>1
<1>5. Contained' /\ RingEnds'
  BY <1>1 DEF Contained, RingEnds
<1>6. Numbered'
  BY <1>1, <1>3 DEF ItemInv, Numbered, Offers
<1>7. \A u \in Threads : call[u].op = "handover" => call[u].arg \in 1 .. Len(fate)
  BY DEF ItemInv, Numbered, Offers
<1>8. HandingOver'
  BY <1>1, <1>3, <1>7 DEF ItemInv, HandingOver
<1>9. Queue!Clear
  BY <1>1, <1>4 DEF Queue!Clear
<1> QED BY <1>5, <1>6, <1>8, <1>9 DEF ItemInv

LEMMA ControlMapped ==
    ASSUME PipeInv, ItemInv, Control
    PROVE  ItemInv' /\ (Queue!Clear \/ UNCHANGED Queue!vars)
<1>1. UNCHANGED <<pipe_max_size, call>>
  BY DEF Control
<1>2. CASE empty
  BY <1>1, <1>2, EmptyMapped
<1>3. CASE ~ empty
  <2>1. UNCHANGED <<ring, fate>>
    BY <1>3 DEF Control, Switch, enable, disable, enable_enqueue, disable_enqueue,
                enable_dequeue, disable_dequeue
  <2> QED BY <1>1, <2>1, QuietMapped
<1> QED BY <1>2, <1>3

LEMMA NextMapped ==
    ASSUME PipeInv, SleepInv, ItemInv, [Next]_vars
    PROVE  ItemInv' /\ [Queue!Next]_(Queue!vars)
<1>1. ASSUME NEW t \in Threads, Enqueue(t) \/ EnqueueResumes(t)
      PROVE  ItemInv' /\ Queue!Next
  BY <1>1, EnqueueMapped DEF Queue!Next
<1>2. ASSUME NEW t \in Threads, HandoverResumes(t)
      PROVE  ItemInv' /\ [Queue!Next]_(Queue!vars)
  BY <1>2, HandoverMapped DEF Queue!Next
<1>3. ASSUME NEW t \in Threads, Dequeue(t) \/ DequeueResumes(t)
      PROVE  ItemInv' /\ [Queue!Next]_(Queue!vars)
  BY <1>3, DequeueMapped DEF Queue!Next
<1>4. ASSUME NEW t \in Threads,
             wait_until_empty(t) \/ wait_for_num_blocked_dequeues(t) \/ destroy(t)
      PROVE  ItemInv' /\ UNCHANGED Queue!vars
  BY <1>4, DrainMapped, DestroyMapped
<1>5. ASSUME NEW t \in Threads, Expire(t) \/ SpuriousWakeup(t)
      PROVE  ItemInv' /\ UNCHANGED Queue!vars
  <2>1. UNCHANGED <<pipe_max_size, ring, fate, call>>
    BY <1>5 DEF Expire, SpuriousWakeup, SetSleep
  <2> QED BY <2>1, QuietMapped
<1>6. CASE UNCHANGED vars
  <2>1. UNCHANGED <<pipe_max_size, ring, fate, call>>
    BY <1>6 DEF vars
  <2> QED BY <2>1, QuietMapped
<1>7. CASE Terminated
  BY <1>6, <1>7 DEF Terminated
<1>8. CASE Control
  BY <1>8, ControlMapped DEF Queue!Next
<1> QED BY <1>1, <1>2, <1>3, <1>4, <1>5, <1>6, <1>7, <1>8 DEF Next

LEMMA InitMapped == Init => ItemInv /\ Queue!Init
<1> SUFFICES ASSUME Init PROVE ItemInv /\ Queue!Init
  OBVIOUS
<1>1. /\ pipe_size = 0 /\ first = 1 /\ fate = << >> /\ Len(fate) = 0
      /\ pipe_max_size \in Nat /\ MaxItems \in Nat
  BY PipeAssumption DEF Init
<1>2. \A t \in Threads : call[t].op = "idle"
  BY DEF Init, Idle
<1>3. content = << >>
  <2>1. content = [k \in 1 .. 0 |-> data[(first + k - 1) % pipe_max_size]]
    BY <1>1 DEF content
  <2> QED BY <2>1
<1>4. Numbered /\ Contained /\ HandingOver /\ RingEnds
  BY <1>1, <1>2 DEF Numbered, Contained, HandingOver, RingEnds, Offers
<1> QED BY <1>1, <1>3, <1>4 DEF ItemInv, Queue!Init

(* The pipe keeps the promise of Channel, whatever its size and however    *)
(* many threads use it: each item is taken once, by one thread and in      *)
(* order, or dropped by empty(), or stays with the thread that offered it; *)
(* and enqueue returns true exactly when the item went in, retracted       *)
(* handovers and late timers included (pipe_kernel_1.h: enqueue, dequeue,  *)
(* enqueue_or_timeout, dequeue_or_timeout, empty).                         *)
THEOREM PipeIsAChannel == Spec => ImplementsChannel
<1>1. Init => ItemInv /\ Queue!Init
  BY InitMapped
<1>2. PipeInv /\ SleepInv /\ ItemInv /\ [Next]_vars
         => ItemInv' /\ [Queue!Next]_(Queue!vars)
  BY NextMapped
<1> QED BY <1>1, <1>2, AlwaysPipeInv, AlwaysSleepInv, PTL
        DEF Spec, ImplementsChannel, Queue!Spec
=============================================================================
