------------------------- MODULE ParallelFor_proofs -------------------------
(***************************************************************************)
(* Proofs about ParallelFor, for every range, pool and chunk size: every   *)
(* index is in exactly one of three places, not yet given to a block, left *)
(* in one block, or processed once.                                        *)
(***************************************************************************)
EXTENDS ParallelFor, FiniteSetTheorems, TLAPS

(* what is left of a block                                                 *)
left(b) == b.next .. b.end - 1

Blocks == [next : Int, end : Int, busy : BOOLEAN]

(* the loop has put index k into a block                                   *)
given(k) == phase # "idle" /\ (pool = {} \/ k < Begin + i)

Types ==
    /\ pool \in Pools
    /\ phase \in {"idle", "adding", "waiting", "returned"}
    /\ i \in Nat
    /\ queue \subseteq Blocks
    /\ work \in [Threads -> Blocks]
    /\ seen \in [Indices -> Nat]

Phases ==
    /\ phase = "adding" => pool # {}
    /\ phase \in {"idle", "returned"} => /\ queue = {}
                                         /\ \A t \in Threads : ~ work[t].busy
    /\ phase \in {"waiting", "returned"} => pool = {} \/ i >= num
    /\ \A b \in queue : b.busy
    /\ \A t \in Threads : ~ work[t].busy => work[t].next = work[t].end

(* blocks hold indices that were given and not processed, each in one block *)
Held ==
    /\ \A b \in queue : \A k \in left(b) : k \in Indices /\ given(k) /\ seen[k] = 0
    /\ \A t \in Threads : \A k \in left(work[t]) : k \in Indices /\ given(k) /\ seen[k] = 0
    /\ \A b, d \in queue : b = d \/ left(b) \cap left(d) = {}
    /\ \A t, u \in Threads : t = u \/ left(work[t]) \cap left(work[u]) = {}
    /\ \A t \in Threads, b \in queue : left(work[t]) \cap left(b) = {}

(* an index that was given is held or processed, others are not processed   *)
Accounted ==
    \A k \in Indices :
        /\ seen[k] <= 1
        /\ ~ given(k) => seen[k] = 0
        /\ given(k) /\ seen[k] = 0 => \/ \E b \in queue : k \in left(b)
                                      \/ \E t \in Threads : k \in left(work[t])

ForInv == Types /\ Phases /\ Held /\ Accounted

(* A pool with threads gives blocks of at least one index, so the loop ends *)
(* (parallel_for_extension.h: max(1, num/(num_workers*chunks_per_thread))). *)
LEMMA BlockSize ==
    ASSUME pool \in Pools, pool # {}
    PROVE  block_size \in Nat /\ block_size >= 1
<1>1. IsFiniteSet(pool)
  BY ParallelForAssumption, FS_Subset
<1>2. Cardinality(pool) \in Nat /\ Cardinality(pool) # 0
  BY <1>1, FS_CardinalityType, FS_EmptySet
<1>3. Cardinality(pool) * ChunksPerThread[pool] \in Nat \ {0}
  <2>1. ChunksPerThread[pool] \in Nat \ {0}
    BY ParallelForAssumption
  <2>2. \A x, y \in Nat \ {0} : x * y \in Nat \ {0}
    OBVIOUS
  <2> QED BY <2>1, <2>2, <1>2
<1>4. num \in Int
  BY ParallelForAssumption DEF num
<1>5. num \div (num_workers * ChunksPerThread[pool]) \in Int
  BY <1>3, <1>4 DEF num_workers
<1> QED BY <1>5 DEF block_size

LEMMA ForInitInv == ForInit => ForInv
<1> SUFFICES ASSUME ForInit PROVE ForInv
  OBVIOUS
<1> USE DEF ForInit, NoWork
<1>1. Types
  BY ParallelForAssumption DEF Types, Blocks
<1>2. Phases
  BY DEF Phases
<1>3. \A t \in Threads : left(work[t]) = {}
  BY ParallelForAssumption DEF left
<1>4. Held
  BY <1>3 DEF Held
<1>5. Accounted
  BY DEF Accounted, given
<1> QED BY <1>1, <1>2, <1>4, <1>5 DEF ForInv

LEMMA CallInv == ASSUME ForInv, Call PROVE ForInv'
<1> USE DEF ForInv, Call
<1> DEFINE all == [next |-> Begin, end |-> End, busy |-> TRUE]
<1>0. /\ Begin \in Int /\ End \in Int
      /\ Caller \in Threads
  BY ParallelForAssumption DEF Threads
<1>1. /\ queue' = {} /\ i' = 0 /\ pool' = pool
      /\ seen' = [k \in Indices |-> 0]
  OBVIOUS
<1>2. \A t \in Threads : ~ work[t].busy /\ left(work[t]) = {}
  BY DEF Types, Phases, left, Blocks
<1>3. CASE pool # {}
  <2>1. phase' = "adding" /\ work' = work
    BY <1>3
  <2>2. Types'
    BY <1>1, <2>1 DEF Types
  <2>3. Phases'
    BY <1>1, <2>1, <1>3 DEF Phases
  <2>4. Held'
    BY <1>1, <2>1, <1>2 DEF Held, left
  <2>5. Accounted'
    <3> SUFFICES ASSUME NEW k \in Indices PROVE seen'[k] = 0 /\ ~ given(k)'
      BY <1>1 DEF Accounted
    <3> QED BY <1>0, <1>1, <2>1, <1>3 DEF given, Indices
  <2> QED BY <2>2, <2>3, <2>4, <2>5
<1>4. CASE pool = {}
  <2>1. phase' = "waiting" /\ work' = [work EXCEPT ![Caller] = all]
    BY <1>4
  <2>2. Types'
    BY <1>0, <1>1, <2>1 DEF Types, Blocks
  <2>3. /\ work'[Caller] = all
        /\ \A t \in Threads : t # Caller => work'[t] = work[t]
    BY <1>0, <2>1 DEF Types
  <2>4. Phases'
    BY <1>1, <2>1, <2>3, <1>4 DEF Phases
  <2>5. /\ left(work[Caller])' = Indices
        /\ \A t \in Threads : t # Caller => left(work[t])' = {}
    BY <2>3, <1>2 DEF left, Indices
  <2>6. \A k \in Indices : given(k)' /\ seen'[k] = 0
    BY <1>1, <2>1, <1>4 DEF given
  <2>7. Held'
    BY <1>0, <1>1, <2>5, <2>6 DEF Held
  <2>8. Accounted'
    BY <1>0, <1>1, <2>5, <2>6 DEF Accounted
  <2> QED BY <2>2, <2>4, <2>7, <2>8
<1> QED BY <1>3, <1>4

LEMMA AddBlockInv == ASSUME ForInv, AddBlock PROVE ForInv'
<1> USE DEF ForInv, AddBlock
<1> DEFINE new == Block(i)
<1>0. Begin \in Int /\ End \in Int
  BY ParallelForAssumption
<1>1. /\ pool \in Pools /\ pool # {} /\ i \in Nat
      /\ phase = "adding" /\ i < num
      /\ phase' = phase /\ pool' = pool /\ work' = work /\ seen' = seen
      /\ queue' = queue \cup {new} /\ i' = i + block_size
  BY DEF Types, Phases
<1>2. block_size \in Nat /\ block_size >= 1
  BY <1>1, BlockSize
<1> HIDE DEF AddBlock
<1>3. /\ new \in Blocks /\ new.busy
      /\ left(new) = {k \in Indices : Begin + i <= k /\ k < Begin + i + block_size}
  BY <1>0, <1>1, <1>2 DEF Block, Blocks, left, min, num, Indices
<1>4. i' \in Nat /\ i' > i
  BY <1>1, <1>2
<1> HIDE DEF new
<1>5. Types'
  BY <1>1, <1>3, <1>4 DEF Types
<1>6. Phases'
  BY <1>1, <1>3 DEF Phases
<1>7. \A k \in Indices : given(k)' <=> (given(k) \/ k \in left(new))
  BY <1>0, <1>1, <1>2, <1>3 DEF given, Indices
<1>8. \A k \in left(new) : k \in Indices /\ ~ given(k)
  BY <1>0, <1>1, <1>3 DEF given, Indices
<1>9. Held'
  <2>1. \A k \in left(new) : seen[k] = 0
    BY <1>8 DEF Accounted
  <2>2. \A b \in queue : left(b) \cap left(new) = {}
    BY <1>8 DEF Held
  <2>3. \A t \in Threads : left(work[t]) \cap left(new) = {}
    BY <1>8 DEF Held
  <2>4. (\A b \in queue : \A k \in left(b) : k \in Indices /\ given(k) /\ seen[k] = 0)'
    BY <1>1, <1>7, <1>8, <2>1 DEF Held, left
  <2>5. (\A t \in Threads : \A k \in left(work[t]) : k \in Indices /\ given(k) /\ seen[k] = 0)'
    BY <1>1, <1>7 DEF Held, left
  <2>6. (\A b, d \in queue : b = d \/ left(b) \cap left(d) = {})'
    BY <1>1, <2>2 DEF Held, left
  <2>7. (\A t, u \in Threads : t = u \/ left(work[t]) \cap left(work[u]) = {})'
    BY <1>1 DEF Held, left
  <2>8. (\A t \in Threads, b \in queue : left(work[t]) \cap left(b) = {})'
    BY <1>1, <2>3 DEF Held, left
  <2> QED BY <2>4, <2>5, <2>6, <2>7, <2>8 DEF Held
<1>10. Accounted'
  <2> SUFFICES ASSUME NEW k \in Indices
               PROVE  /\ seen[k] <= 1
                      /\ ~ given(k)' => seen[k] = 0
                      /\ given(k)' /\ seen[k] = 0 => \/ \E b \in queue' : k \in left(b)
                                                     \/ \E t \in Threads : k \in left(work[t])
    BY <1>1 DEF Accounted, left
  <2>1. seen[k] <= 1 /\ (~ given(k)' => seen[k] = 0)
    BY <1>7 DEF Accounted
  <2>2. ASSUME given(k)', seen[k] = 0
        PROVE  (\E b \in queue' : k \in left(b)) \/ (\E t \in Threads : k \in left(work[t]))
    <3>1. CASE given(k)
      BY <3>1, <2>2, <1>1 DEF Accounted
    <3>2. CASE k \in left(new)
      BY <3>2, <1>1
    <3> QED BY <3>1, <3>2, <2>2, <1>7
  <2> QED BY <2>1, <2>2
<1> QED BY <1>5, <1>6, <1>9, <1>10

LEMMA AllAddedInv == ASSUME ForInv, AllAdded PROVE ForInv'
<1> USE DEF ForInv, AllAdded
<1>1. Types'
  BY DEF Types
<1>2. Phases'
  BY DEF Phases, num
<1>3. \A k \in Indices : given(k)' <=> given(k)
  BY DEF given
<1>4. Held'
  BY <1>3 DEF Held, left
<1>5. Accounted'
  BY <1>3 DEF Accounted, left
<1> QED BY <1>1, <1>2, <1>4, <1>5

LEMMA ReturnInv == ASSUME ForInv, Return PROVE ForInv'
<1> USE DEF ForInv, Return
<1>1. Types'
  BY DEF Types
<1>2. Phases'
  BY DEF Phases, num, busy
<1>3. \A k \in Indices : given(k)' <=> given(k)
  BY DEF given
<1>4. Held'
  BY <1>3 DEF Held, left
<1>5. Accounted'
  BY <1>3 DEF Accounted, left
<1> QED BY <1>1, <1>2, <1>4, <1>5

LEMMA TakeBlockInv ==
    ASSUME ForInv, NEW t \in Threads, TakeBlock(t)
    PROVE  ForInv'
<1> USE DEF ForInv
<1>1. PICK b \in queue : queue' = queue \ {b} /\ work' = [work EXCEPT ![t] = b]
  BY DEF TakeBlock
<1>2. /\ ~ work[t].busy
      /\ pool' = pool /\ phase' = phase /\ i' = i /\ seen' = seen
  BY DEF TakeBlock
<1>3. /\ work'[t] = b
      /\ \A u \in Threads : u # t => work'[u] = work[u]
  BY <1>1 DEF Types
<1>4. left(work[t]) = {}
  BY <1>2 DEF Types, Phases, left, Blocks
<1>5. \A k \in Indices : given(k)' <=> given(k)
  BY <1>2 DEF given
<1>6. Types'
  BY <1>1, <1>2 DEF Types
<1>7. Phases'
  BY <1>1, <1>2, <1>3 DEF Phases
<1>8. Held'
  <2>1. (\A c \in queue : \A k \in left(c) : k \in Indices /\ given(k) /\ seen[k] = 0)'
    BY <1>1, <1>2, <1>5 DEF Held, left
  <2>2. (\A u \in Threads : \A k \in left(work[u]) : k \in Indices /\ given(k) /\ seen[k] = 0)'
    <3> SUFFICES ASSUME NEW u \in Threads, NEW k \in left(work'[u])
                 PROVE  k \in Indices /\ given(k)' /\ seen[k] = 0
      BY <1>2 DEF left
    <3>1. CASE u = t
      BY <3>1, <1>1, <1>3, <1>5 DEF Held
    <3>2. CASE u # t
      BY <3>2, <1>3, <1>5 DEF Held
    <3> QED BY <3>1, <3>2
  <2>3. (\A c, d \in queue : c = d \/ left(c) \cap left(d) = {})'
    BY <1>1 DEF Held, left
  <2>4. (\A u, v \in Threads : u = v \/ left(work[u]) \cap left(work[v]) = {})'
    <3> SUFFICES ASSUME NEW u \in Threads, NEW v \in Threads, u # v
                 PROVE  left(work'[u]) \cap left(work'[v]) = {}
      BY DEF left
    <3>1. CASE u = t
      BY <3>1, <1>1, <1>3 DEF Held
    <3>2. CASE v = t
      BY <3>2, <1>1, <1>3 DEF Held
    <3>3. CASE u # t /\ v # t
      BY <3>3, <1>3 DEF Held
    <3> QED BY <3>1, <3>2, <3>3
  <2>5. (\A u \in Threads, c \in queue : left(work[u]) \cap left(c) = {})'
    <3> SUFFICES ASSUME NEW u \in Threads, NEW c \in queue, c # b
                 PROVE  left(work'[u]) \cap left(c) = {}
      BY <1>1 DEF left
    <3>1. CASE u = t
      BY <3>1, <1>1, <1>3 DEF Held
    <3>2. CASE u # t
      BY <3>2, <1>3 DEF Held
    <3> QED BY <3>1, <3>2
  <2> QED BY <2>1, <2>2, <2>3, <2>4, <2>5 DEF Held
<1>9. Accounted'
  <2> SUFFICES ASSUME NEW k \in Indices
               PROVE  /\ seen[k] <= 1
                      /\ ~ given(k)' => seen[k] = 0
                      /\ given(k)' /\ seen[k] = 0 => \/ \E c \in queue' : k \in left(c)
                                                     \/ \E u \in Threads : k \in left(work'[u])
    BY <1>2 DEF Accounted, left
  <2>1. seen[k] <= 1 /\ (~ given(k)' => seen[k] = 0)
    BY <1>5 DEF Accounted
  <2>2. ASSUME given(k)', seen[k] = 0
        PROVE  (\E c \in queue' : k \in left(c)) \/ (\E u \in Threads : k \in left(work'[u]))
    <3>1. CASE \E c \in queue : k \in left(c)
      <4>1. PICK c \in queue : k \in left(c)
        BY <3>1
      <4>2. CASE c = b
        BY <4>1, <4>2, <1>3
      <4>3. CASE c # b
        BY <4>1, <4>3, <1>1
      <4> QED BY <4>2, <4>3
    <3>2. CASE \E u \in Threads : k \in left(work[u])
      BY <3>2, <1>3, <1>4
    <3> QED BY <3>1, <3>2, <2>2, <1>5 DEF Accounted
  <2> QED BY <2>1, <2>2
<1> QED BY <1>6, <1>7, <1>8, <1>9

LEMMA ProcessInv ==
    ASSUME ForInv, NEW t \in Threads, Process(t)
    PROVE  ForInv'
<1> USE DEF ForInv
<1> DEFINE n == work[t].next
<1>1. /\ work[t].busy /\ n < work[t].end
      /\ seen' = [seen EXCEPT ![n] = @ + 1]
      /\ work' = [work EXCEPT ![t].next = @ + 1]
      /\ pool' = pool /\ phase' = phase /\ i' = i /\ queue' = queue
  BY DEF Process
<1>2. work[t] \in Blocks /\ n \in Int /\ work[t].end \in Int
  BY DEF Types, Blocks
<1>3. n \in left(work[t])
  BY <1>1, <1>2 DEF left
<1>4. n \in Indices /\ given(n) /\ seen[n] = 0
  BY <1>3 DEF Held
<1>5. /\ work'[t] = [work[t] EXCEPT !.next = n + 1]
      /\ \A u \in Threads : u # t => work'[u] = work[u]
  BY <1>1 DEF Types
<1>6. seen'[n] = 1 /\ \A k \in Indices : k # n => seen'[k] = seen[k]
  BY <1>1, <1>4 DEF Types
<1> HIDE DEF n
<1>7. left(work'[t]) = left(work[t]) \ {n}
  BY <1>1, <1>2, <1>5 DEF left, n, Blocks
<1>8. \A k \in Indices : given(k)' <=> given(k)
  BY <1>1 DEF given
<1>9. Types'
  <2>1. seen' \in [Indices -> Nat]
    BY <1>1, <1>4 DEF Types
  <2>2. work' \in [Threads -> Blocks]
    BY <1>1, <1>2 DEF Types, Blocks, n
  <2> QED BY <1>1, <2>1, <2>2 DEF Types
<1>10. Phases'
  BY <1>1, <1>2, <1>5 DEF Phases, Blocks
<1>11. Held'
  <2>1. (\A b \in queue : \A k \in left(b) : k \in Indices /\ given(k) /\ seen[k] = 0)'
    BY <1>1, <1>3, <1>6, <1>8 DEF Held, left
  <2>2. (\A u \in Threads : \A k \in left(work[u]) : k \in Indices /\ given(k) /\ seen[k] = 0)'
    <3> SUFFICES ASSUME NEW u \in Threads, NEW k \in left(work'[u])
                 PROVE  k \in Indices /\ given(k)' /\ seen'[k] = 0
      BY DEF left
    <3>1. CASE u = t
      BY <3>1, <1>6, <1>7, <1>8 DEF Held
    <3>2. CASE u # t
      <4>1. k \in left(work[u]) /\ k # n
        BY <3>2, <1>3, <1>5 DEF Held
      <4> QED BY <4>1, <1>6, <1>8 DEF Held
    <3> QED BY <3>1, <3>2
  <2>3. (\A b, d \in queue : b = d \/ left(b) \cap left(d) = {})'
    BY <1>1 DEF Held, left
  <2>4. (\A u, v \in Threads : u = v \/ left(work[u]) \cap left(work[v]) = {})'
    <3> SUFFICES ASSUME NEW u \in Threads, NEW v \in Threads, u # v
                 PROVE  left(work'[u]) \cap left(work'[v]) = {}
      BY DEF left
    <3>1. \A x \in Threads : left(work'[x]) \subseteq left(work[x])
      BY <1>5, <1>7
    <3> QED BY <3>1 DEF Held
  <2>5. (\A u \in Threads, b \in queue : left(work[u]) \cap left(b) = {})'
    <3>1. \A x \in Threads : left(work'[x]) \subseteq left(work[x])
      BY <1>5, <1>7
    <3> QED BY <3>1, <1>1 DEF Held, left
  <2> QED BY <2>1, <2>2, <2>3, <2>4, <2>5 DEF Held
<1>12. Accounted'
  <2> SUFFICES ASSUME NEW k \in Indices
               PROVE  /\ seen'[k] <= 1
                      /\ ~ given(k)' => seen'[k] = 0
                      /\ given(k)' /\ seen'[k] = 0 => \/ \E c \in queue' : k \in left(c)
                                                      \/ \E u \in Threads : k \in left(work'[u])
    BY DEF Accounted, left
  <2>1. CASE k = n
    BY <2>1, <1>4, <1>6, <1>8
  <2>2. CASE k # n
    <3>1. seen'[k] = seen[k]
      BY <2>2, <1>6
    <3>2. ASSUME NEW u \in Threads, k \in left(work[u]) PROVE k \in left(work'[u])
      BY <3>2, <2>2, <1>5, <1>7
    <3> QED BY <3>1, <3>2, <1>1, <1>8 DEF Accounted
  <2> QED BY <2>1, <2>2
<1> QED BY <1>9, <1>10, <1>11, <1>12

LEMMA FinishBlockInv ==
    ASSUME ForInv, NEW t \in Threads, FinishBlock(t)
    PROVE  ForInv'
<1> USE DEF ForInv
<1>1. /\ work[t].next = work[t].end
      /\ work' = [work EXCEPT ![t] = NoWork]
      /\ pool' = pool /\ phase' = phase /\ i' = i /\ queue' = queue /\ seen' = seen
  BY DEF FinishBlock
<1>2. /\ work'[t] = NoWork
      /\ \A u \in Threads : u # t => work'[u] = work[u]
  BY <1>1 DEF Types
<1>3. left(work[t]) = {} /\ left(NoWork) = {}
  BY <1>1, ParallelForAssumption DEF Types, Blocks, left, NoWork
<1>4. \A u \in Threads : left(work'[u]) = left(work[u])
  BY <1>2, <1>3
<1>5. \A k \in Indices : given(k)' <=> given(k)
  BY <1>1 DEF given
<1>6. Types'
  BY <1>1, ParallelForAssumption DEF Types, Blocks, NoWork
<1>7. Phases'
  BY <1>1, <1>2 DEF Phases, NoWork
<1>8. Held'
  BY <1>1, <1>4, <1>5 DEF Held, left
<1>9. Accounted'
  BY <1>1, <1>4, <1>5 DEF Accounted, left
<1> QED BY <1>6, <1>7, <1>8, <1>9

LEMMA ForNextInv == ForInv /\ [ForNext]_forVars => ForInv'
<1> SUFFICES ASSUME ForInv, [ForNext]_forVars PROVE ForInv'
  OBVIOUS
<1>1. CASE Call
  BY <1>1, CallInv
<1>2. CASE AddBlock
  BY <1>2, AddBlockInv
<1>3. CASE AllAdded
  BY <1>3, AllAddedInv
<1>4. CASE Return
  BY <1>4, ReturnInv
<1>5. ASSUME NEW t \in Threads, TakeBlock(t) PROVE ForInv'
  BY <1>5, TakeBlockInv
<1>6. ASSUME NEW t \in Threads, Process(t) PROVE ForInv'
  BY <1>6, ProcessInv
<1>7. ASSUME NEW t \in Threads, FinishBlock(t) PROVE ForInv'
  BY <1>7, FinishBlockInv
<1>8. CASE UNCHANGED forVars
  BY <1>8 DEF forVars, ForInv, Types, Phases, Held, Accounted, given, left, num
<1> QED BY <1>1, <1>2, <1>3, <1>4, <1>5, <1>6, <1>7, <1>8 DEF ForNext

LEMMA ForInvHolds == ForSpec => []ForInv
<1> QED BY ForInitInv, ForNextInv, PTL DEF ForSpec

LEMMA OnceFromInv == ForInv => EachIndexOnce
<1> SUFFICES ASSUME ForInv PROVE EachIndexOnce
  OBVIOUS
<1>1. \A k \in Indices : seen[k] <= 1
  BY DEF ForInv, Accounted
<1>2. ASSUME phase = "returned", NEW k \in Indices PROVE seen[k] = 1
  <2>1. queue = {} /\ \A t \in Threads : left(work[t]) = {}
    BY <1>2 DEF ForInv, Types, Phases, Blocks, left
  <2>2. given(k)
    BY <1>2, ParallelForAssumption DEF ForInv, Types, Phases, given, num, Indices
  <2>3. seen[k] # 0
    BY <2>1, <2>2 DEF ForInv, Accounted
  <2> QED BY <2>3, <1>1 DEF ForInv, Types
<1> QED BY <1>1, <1>2 DEF EachIndexOnce

(* A parallel loop processes every index of its range exactly once before  *)
(* parallel_for_blocked returns, for every range, number of pool threads   *)
(* and chunks_per_thread (parallel_for_extension.h).                       *)
THEOREM IndicesProcessedOnce == ForSpec => []EachIndexOnce
<1> QED BY ForInvHolds, OnceFromInv, PTL

(* No two blocks, queued or being processed, ever have an index in common. *)
THEOREM IndicesNotShared == ForSpec => []NoIndexShared
<1>1. ForInv => NoIndexShared
  BY DEF ForInv, Held, NoIndexShared, left
<1> QED BY <1>1, ForInvHolds, PTL
=============================================================================
