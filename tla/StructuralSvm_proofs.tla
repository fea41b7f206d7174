------------------------ MODULE StructuralSvm_proofs ------------------------
(***************************************************************************)
(* Proofs about StructuralSvm.  A step of the training is a step of the    *)
(* parallel loop or leaves it alone, so what ParallelFor_proofs shows of   *)
(* the loop holds of the training; on top of that come the sums, the       *)
(* freshness of the answers and the contents of the caches.                *)
(***************************************************************************)
EXTENDS StructuralSvm, ParallelFor_proofs, SequenceTheorems

LEMMA StepIsForStep == [Next]_vars => [ForNext]_forVars
<1> SUFFICES ASSUME [Next]_vars PROVE [ForNext]_forVars
  OBVIOUS
<1>1. CASE get_risk
  BY <1>1 DEF get_risk, ForNext
<1>2. CASE ParallelStep
  BY <1>2 DEF ParallelStep, ForNext
<1>3. CASE optimization_status
  BY <1>3 DEF optimization_status
<1>4. ASSUME NEW t \in Threads, call_oracle(t) PROVE ForNext
  BY <1>4 DEF call_oracle, ForNext
<1>5. ASSUME NEW t \in Threads, add_to(t) PROVE UNCHANGED forVars
  BY <1>5 DEF add_to
<1>6. CASE UNCHANGED vars
  BY <1>6 DEF vars
<1> QED BY <1>1, <1>2, <1>3, <1>4, <1>5, <1>6 DEF Next

(* The threads that train do to the range of samples only what             *)
(* parallel_for_blocked allows (structural_svm_problem_threaded.h:         *)
(* call_separation_oracle_on_all_samples).                                 *)
THEOREM TrainingIsParallelFor == Spec => ForSpec
<1>1. Init => ForInit
  BY DEF Init
<1> QED BY <1>1, StepIsForStep, PTL DEF Spec, ForSpec

(* Every sample is asked about exactly once in an iteration of the         *)
(* cutting-plane loop.                                                     *)
THEOREM SamplesAskedOnce == Spec => []EachIndexOnce
<1> QED BY TrainingIsParallelFor, IndicesProcessedOnce, PTL

(* No two threads, and no thread and a block still waiting, have a sample  *)
(* in common: the cache of a sample is its block's alone                   *)
(* (structural_svm_problem_threaded.h: call_oracle takes no lock for it).  *)
THEOREM SamplesNotShared == Spec => []NoIndexShared
<1> QED BY TrainingIsParallelFor, IndicesNotShared, PTL

LEMMA ForInvOfSpec == Spec => []ForInv
<1> QED BY TrainingIsParallelFor, ForInvHolds, PTL

(***************************************************************************)
(* The sums                                                                *)
(***************************************************************************)
(* a sample that was processed is in the shared sums or in what one thread *)
(* has still to add                                                        *)
SumInv ==
    /\ DOMAIN local = Threads
    /\ \A t \in Threads : ~ work[t].busy => local[t] = Nothing
    /\ \A t \in Threads : \A s \in local[t].of :
          s \in Indices /\ seen[s] = 1 /\ added[s] = 0
    /\ \A t, u \in Threads : t = u \/ local[t].of \cap local[u].of = {}
    /\ \A s \in Indices :
          /\ added[s] \in {0, 1}
          /\ seen[s] = 0 => added[s] = 0
          /\ failure = NoSample /\ seen[s] = 1 /\ added[s] = 0 =>
                \E t \in Threads : s \in local[t].of
    /\ failure # NoSample => phase # "returned"

LEMMA SumInvInit == Init => SumInv
<1> SUFFICES ASSUME Init PROVE SumInv
  OBVIOUS
<1>1. \A t \in Threads : local[t] = Nothing /\ local[t].of = {}
  BY DEF Init, Nothing
<1>2. \A s \in Indices : seen[s] = 0 /\ added[s] = 0
  BY DEF Init, ForInit
<1>3. DOMAIN local = Threads /\ failure = NoSample
  BY DEF Init
<1> QED BY <1>1, <1>2, <1>3 DEF SumInv

LEMMA SumInvRisk == ASSUME ForInv, SumInv, get_risk PROVE SumInv'
<1>1. \A t \in Threads : ~ work[t].busy /\ local[t] = Nothing /\ local[t].of = {}
  BY DEF get_risk, ForInv, Phases, SumInv, Nothing
<1>2. \A s \in Indices : seen'[s] = 0 /\ added'[s] = 0
  BY DEF get_risk, Call
<1>3. local' = local /\ failure' = failure /\ phase' # "returned"
  BY DEF get_risk, Call
<1>4. DOMAIN local' = Threads
  BY <1>3 DEF SumInv
<1> QED BY <1>1, <1>2, <1>3, <1>4 DEF SumInv

LEMMA SumInvParallel == ASSUME ForInv, SumInv, failure = NoSample, ParallelStep PROVE SumInv'
<1>1. local' = local /\ added' = added /\ failure' = failure /\ seen' = seen
  BY DEF ParallelStep, sumVars, AddBlock, AllAdded, Return, TakeBlock, FinishBlock
<1>2. \A t \in Threads : ~ work'[t].busy => local[t] = Nothing
  <2>1. CASE AddBlock \/ AllAdded \/ Return
    BY <2>1 DEF AddBlock, AllAdded, Return, SumInv
  <2>2. ASSUME NEW t \in Threads, TakeBlock(t), NEW u \in Threads, ~ work'[u].busy
        PROVE  local[u] = Nothing
    <3>1. CASE u = t
      BY <2>2, <3>1 DEF TakeBlock, SumInv
    <3>2. CASE u # t
      BY <2>2, <3>2 DEF TakeBlock, SumInv, ForInv, Types
    <3> QED BY <3>1, <3>2
  <2>3. ASSUME NEW t \in Threads, local[t] = Nothing, FinishBlock(t),
               NEW u \in Threads, ~ work'[u].busy
        PROVE  local[u] = Nothing
    <3>1. CASE u = t
      BY <2>3, <3>1
    <3>2. CASE u # t
      BY <2>3, <3>2 DEF FinishBlock, SumInv, ForInv, Types
    <3> QED BY <3>1, <3>2
  <2> QED BY <2>1, <2>2, <2>3 DEF ParallelStep
<1> QED BY <1>1, <1>2 DEF SumInv

LEMMA SumInvStatus == ASSUME SumInv, optimization_status PROVE SumInv'
<1>1. /\ local' = local /\ added' = added /\ failure' = failure
      /\ seen' = seen /\ work' = work /\ phase' = phase
  BY DEF optimization_status, sumVars, forVars
<1> QED BY <1>1 DEF SumInv

(* what the four ways to answer do to what a thread has to add             *)
LEMMA AnswerGiven ==
    ASSUME NEW t \in Threads, failure = NoSample, call_oracle(t), DOMAIN local = Threads
    PROVE  /\ \/ /\ failure' = NoSample
                 /\ local'[t].of = local[t].of \cup {work[t].next}
                 /\ \A u \in Threads : u # t => local'[u] = local[u]
                 /\ DOMAIN local' = Threads
              \/ failure' = work[t].next /\ local' = local
           /\ added' = added
<1> DEFINE s == work[t].next
<1>1. added' = added
  BY DEF call_oracle, sumVars
<1>2. ASSUME NEW l, Answer(t, s, l)
      PROVE  /\ local'[t].of = local[t].of \cup {s}
             /\ \A u \in Threads : u # t => local'[u] = local[u]
             /\ DOMAIN local' = Threads
  BY <1>2 DEF Answer
<1>3. CASE FromCache(t, s)
  BY <1>1, <1>2, <1>3 DEF FromCache
<1>4. CASE FromOracle(t, s)
  BY <1>1, <1>2, <1>4 DEF FromOracle
<1>5. CASE Uncached(t, s)
  BY <1>1, <1>2, <1>5 DEF Uncached
<1>6. CASE ReadEmptyCache(s)
  BY <1>1, <1>6 DEF ReadEmptyCache
<1> QED BY <1>3, <1>4, <1>5, <1>6 DEF call_oracle

LEMMA ProcessSeen ==
    ASSUME ForInv, NEW t \in Threads, Process(t)
    PROVE  /\ work[t].next \in Indices
           /\ seen[work[t].next] = 0 /\ seen'[work[t].next] = 1
           /\ \A k \in Indices : k # work[t].next => seen'[k] = seen[k]
           /\ phase' = phase /\ phase # "returned"
           /\ \A u \in Threads : work'[u].busy <=> work[u].busy
<1>1. work[t].next \in left(work[t])
  BY DEF Process, ForInv, Types, Blocks, left
<1>2. work[t].next \in Indices /\ seen[work[t].next] = 0
  BY <1>1 DEF ForInv, Held
<1>3. seen' = [seen EXCEPT ![work[t].next] = @ + 1] /\ seen \in [Indices -> Nat]
  BY DEF Process, ForInv, Types
<1>4. phase' = phase /\ phase # "returned"
  BY DEF Process, ForInv, Phases
<1>5. \A u \in Threads : work'[u].busy <=> work[u].busy
  BY DEF Process, ForInv, Types, Blocks
<1> QED BY <1>2, <1>3, <1>4, <1>5

LEMMA SumInvOracle ==
    ASSUME ForInv, SumInv, failure = NoSample, NEW t \in Threads, call_oracle(t)
    PROVE  SumInv'
<1> DEFINE n == work[t].next
<1>1. Process(t)
  BY DEF call_oracle
<1>2. /\ n \in Indices /\ seen[n] = 0 /\ seen'[n] = 1
      /\ \A k \in Indices : k # n => seen'[k] = seen[k]
      /\ phase' = phase /\ phase # "returned"
      /\ \A u \in Threads : work'[u].busy <=> work[u].busy
  BY <1>1, ProcessSeen
<1>3. work[t].busy
  BY <1>1 DEF Process
<1>4. added' = added
  BY AnswerGiven DEF SumInv
<1>5. added[n] = 0 /\ \A u \in Threads : n \notin local[u].of
  BY <1>2 DEF SumInv
<1>6. CASE failure' = NoSample /\ local'[t].of = local[t].of \cup {n}
           /\ (\A u \in Threads : u # t => local'[u] = local[u])
           /\ DOMAIN local' = Threads
  <2>0. \A u \in Threads : local[u].of \subseteq local'[u].of
    BY <1>6
  <2>1. (\A u \in Threads : ~ work[u].busy => local[u] = Nothing)'
    BY <1>2, <1>3, <1>6 DEF SumInv
  <2>2. (\A u \in Threads : \A s \in local[u].of :
            s \in Indices /\ seen[s] = 1 /\ added[s] = 0)'
    <3> SUFFICES ASSUME NEW u \in Threads, NEW s \in local'[u].of
                 PROVE  s \in Indices /\ seen'[s] = 1 /\ added[s] = 0
      BY <1>4
    <3>1. CASE s = n
      BY <3>1, <1>2, <1>5
    <3>2. CASE s # n
      <4>1. s \in local[u].of
        BY <3>2, <1>6
      <4> QED BY <4>1, <3>2, <1>2 DEF SumInv
    <3> QED BY <3>1, <3>2
  <2>3. (\A u, v \in Threads : u = v \/ local[u].of \cap local[v].of = {})'
    <3> SUFFICES ASSUME NEW u \in Threads, NEW v \in Threads, u # v
                 PROVE  local'[u].of \cap local'[v].of = {}
      OBVIOUS
    <3>1. local[u].of \cap local[v].of = {}
      BY DEF SumInv
    <3>2. CASE u = t
      BY <3>1, <3>2, <1>5, <1>6
    <3>3. CASE v = t
      BY <3>1, <3>3, <1>5, <1>6
    <3>4. CASE u # t /\ v # t
      BY <3>1, <3>4, <1>6
    <3> QED BY <3>2, <3>3, <3>4
  <2>4. ASSUME NEW s \in Indices
        PROVE  (/\ added[s] \in {0, 1}
                /\ seen[s] = 0 => added[s] = 0
                /\ failure = NoSample /\ seen[s] = 1 /\ added[s] = 0 =>
                      \E u \in Threads : s \in local[u].of)'
    <3>1. CASE s = n
      BY <3>1, <1>2, <1>4, <1>5, <1>6
    <3>2. CASE s # n
      BY <3>2, <2>0, <1>2, <1>4 DEF SumInv
    <3> QED BY <3>1, <3>2
  <2> QED BY <1>2, <1>6, <2>1, <2>2, <2>3, <2>4 DEF SumInv
<1>7. CASE failure' = n /\ local' = local
  <2>1. failure' # NoSample
    BY <1>7, <1>2, SvmAssumption
  <2>2. (\A u \in Threads : \A s \in local[u].of :
            s \in Indices /\ seen[s] = 1 /\ added[s] = 0)'
    BY <1>2, <1>4, <1>5, <1>7 DEF SumInv
  <2>3. ASSUME NEW s \in Indices
        PROVE  added'[s] \in {0, 1} /\ (seen'[s] = 0 => added'[s] = 0)
    BY <1>2, <1>4, <1>5 DEF SumInv
  <2>4. DOMAIN local' = Threads
    BY <1>7 DEF SumInv
  <2>5. (\A u \in Threads : ~ work[u].busy => local[u] = Nothing)'
    BY <1>2, <1>7 DEF SumInv
  <2>6. (\A u, v \in Threads : u = v \/ local[u].of \cap local[v].of = {})'
    BY <1>7 DEF SumInv
  <2> QED BY <1>2, <2>1, <2>2, <2>3, <2>4, <2>5, <2>6 DEF SumInv
<1> QED BY <1>6, <1>7, AnswerGiven DEF SumInv

LEMMA SumInvAdd ==
    ASSUME SumInv, failure = NoSample, NEW t \in Threads, add_to(t)
    PROVE  SumInv'
<1> DEFINE S == local[t].of
<1>1. /\ local' = [local EXCEPT ![t] = Nothing]
      /\ added' = Added(S)
      /\ failure' = failure /\ seen' = seen /\ work' = work /\ phase' = phase
  BY DEF add_to, forVars
<1>2. /\ local'[t] = Nothing /\ local'[t].of = {}
      /\ \A u \in Threads : u # t => local'[u] = local[u]
      /\ DOMAIN local' = Threads
  BY <1>1 DEF SumInv, Nothing
<1>3. \A s \in Indices : added'[s] = IF s \in S THEN added[s] + 1 ELSE added[s]
  BY <1>1 DEF Added
<1>4. \A u \in Threads : u # t => local[u].of \cap S = {}
  BY DEF SumInv
<1>5. (\A u \in Threads : \A s \in local[u].of :
          s \in Indices /\ seen[s] = 1 /\ added[s] = 0)'
  <2> SUFFICES ASSUME NEW u \in Threads, NEW s \in local'[u].of
               PROVE  s \in Indices /\ seen[s] = 1 /\ added'[s] = 0
    BY <1>1
  <2>1. u # t /\ s \in local[u].of
    BY <1>2
  <2>2. s \in Indices /\ seen[s] = 1 /\ added[s] = 0 /\ s \notin S
    BY <2>1, <1>4 DEF SumInv
  <2> QED BY <2>2, <1>3
<1>6. ASSUME NEW s \in Indices
      PROVE  (/\ added[s] \in {0, 1}
              /\ seen[s] = 0 => added[s] = 0
              /\ failure = NoSample /\ seen[s] = 1 /\ added[s] = 0 =>
                    \E u \in Threads : s \in local[u].of)'
  <2>1. CASE s \in S
    BY <2>1, <1>1, <1>3 DEF SumInv
  <2>2. CASE s \notin S
    BY <2>2, <1>1, <1>2, <1>3 DEF SumInv
  <2> QED BY <2>1, <2>2
<1>7. (\A u \in Threads : ~ work[u].busy => local[u] = Nothing)'
  BY <1>1, <1>2 DEF SumInv
<1>8. (\A u, v \in Threads : u = v \/ local[u].of \cap local[v].of = {})'
  BY <1>2 DEF SumInv
<1>9. failure' # NoSample => phase' # "returned"
  BY <1>1
<1> QED BY <1>2, <1>5, <1>6, <1>7, <1>8, <1>9 DEF SumInv

LEMMA SumInvNext == ForInv /\ SumInv /\ [Next]_vars => SumInv'
<1> SUFFICES ASSUME ForInv, SumInv, [Next]_vars PROVE SumInv'
  OBVIOUS
<1>1. CASE get_risk
  BY <1>1, SumInvRisk
<1>2. CASE failure = NoSample /\ ParallelStep
  BY <1>2, SumInvParallel
<1>3. CASE optimization_status
  BY <1>3, SumInvStatus
<1>4. ASSUME NEW t \in Threads, failure = NoSample, call_oracle(t) PROVE SumInv'
  BY <1>4, SumInvOracle
<1>5. ASSUME NEW t \in Threads, failure = NoSample, add_to(t) PROVE SumInv'
  BY <1>5, SumInvAdd
<1>6. CASE UNCHANGED vars
  BY <1>6 DEF vars, forVars, sumVars, SumInv
<1> QED BY <1>1, <1>2, <1>3, <1>4, <1>5, <1>6 DEF Next

(* When the parallel loop returns, the risk and the subgradient contain    *)
(* every sample's answer exactly once, whatever the number of threads and  *)
(* samples and however the answers were buffered.                          *)
THEOREM SumsAreComplete == Spec => []SumsComplete
<1>1. ForInv /\ SumInv => SumsComplete
  <2> SUFFICES ASSUME ForInv, SumInv, phase = "returned"
               PROVE  /\ \A s \in Indices : added[s] = 1
                      /\ \A t \in Threads : local[t] = Nothing
    BY DEF SumsComplete
  <2>1. \A t \in Threads : local[t] = Nothing /\ local[t].of = {}
    BY DEF ForInv, Phases, SumInv, Nothing
  <2>2. \A s \in Indices : seen[s] = 1
    BY OnceFromInv DEF EachIndexOnce
  <2> QED BY <2>1, <2>2 DEF SumInv
<1> QED BY <1>1, ForInvOfSpec, SumInvInit, SumInvNext, PTL DEF Spec

(***************************************************************************)
(* Fresh answers                                                           *)
(***************************************************************************)
(* while the cache is not used, a sample that was processed was answered   *)
(* by the oracle                                                           *)
FreshInv ==
    /\ fresh \subseteq Indices
    /\ solver = "status" /\ failure = NoSample /\ (skip_cache \/ max_cache_size = 0) =>
          \A s \in Indices : seen[s] # 0 => s \in fresh

LEMMA FreshInvInit == Init => FreshInv
<1> QED BY DEF Init, FreshInv

LEMMA FreshInvRisk == ASSUME FreshInv, get_risk PROVE FreshInv'
<1>1. fresh' = {}
  BY DEF get_risk
<1>2. \A s \in Indices : seen'[s] = 0
  BY DEF get_risk, Call
<1> QED BY <1>1, <1>2 DEF FreshInv

(* with the cache out of use an answer is the oracle's                     *)
LEMMA OracleIsFresh ==
    ASSUME NEW t \in Threads, failure = NoSample, call_oracle(t)
    PROVE  /\ fresh \subseteq fresh' /\ fresh' \subseteq fresh \cup {work[t].next}
           /\ failure' = NoSample /\ (skip_cache \/ max_cache_size = 0)
                 => work[t].next \in fresh'
<1> DEFINE s == work[t].next
<1>1. CASE FromCache(t, s)
  <2>1. fresh' = fresh
    BY <1>1 DEF FromCache
  <2>2. max_cache_size > 0 /\ ~ skip_cache
    BY <1>1 DEF FromCache, good_enough
  <2> QED BY <2>1, <2>2
<1>2. CASE FromOracle(t, s)
  BY <1>2 DEF FromOracle
<1>3. CASE Uncached(t, s)
  BY <1>3 DEF Uncached
<1>4. CASE ReadEmptyCache(s)
  <2>1. fresh' = fresh
    BY <1>4 DEF ReadEmptyCache
  <2>2. max_cache_size > 0 /\ ~ skip_cache
    BY <1>4 DEF ReadEmptyCache
  <2> QED BY <2>1, <2>2
<1> QED BY <1>1, <1>2, <1>3, <1>4 DEF call_oracle

LEMMA FreshInvOracle ==
    ASSUME ForInv, FreshInv, failure = NoSample, NEW t \in Threads, call_oracle(t)
    PROVE  FreshInv'
<1>1. /\ solver' = solver /\ max_cache_size' = max_cache_size
      /\ skip_cache' = skip_cache
  BY DEF call_oracle, solverVars, statusVars
<1>2. /\ work[t].next \in Indices
      /\ \A k \in Indices : k # work[t].next => seen'[k] = seen[k]
  BY ProcessSeen DEF call_oracle
<1>3. /\ fresh \subseteq fresh' /\ fresh' \subseteq fresh \cup {work[t].next}
      /\ failure' = NoSample /\ (skip_cache \/ max_cache_size = 0)
            => work[t].next \in fresh'
  BY OracleIsFresh
<1> QED BY <1>1, <1>2, <1>3 DEF FreshInv

LEMMA FreshInvNext == ForInv /\ FreshInv /\ [Next]_vars => FreshInv'
<1> SUFFICES ASSUME ForInv, FreshInv, [Next]_vars PROVE FreshInv'
  OBVIOUS
<1>1. CASE get_risk
  BY <1>1, FreshInvRisk
<1>2. CASE ParallelStep
  <2>1. /\ UNCHANGED <<solver, max_cache_size, skip_cache, fresh, failure>>
        /\ seen' = seen
    BY <1>2 DEF ParallelStep, solverVars, statusVars, AddBlock, AllAdded, Return,
                TakeBlock, FinishBlock
  <2> QED BY <2>1 DEF FreshInv
<1>3. CASE optimization_status
  <2>1. solver' # "status" /\ fresh' = fresh
    BY <1>3 DEF optimization_status
  <2> QED BY <2>1 DEF FreshInv
<1>4. ASSUME NEW t \in Threads, failure = NoSample, call_oracle(t) PROVE FreshInv'
  BY <1>4, FreshInvOracle
<1>5. ASSUME NEW t \in Threads, add_to(t) PROVE FreshInv'
  <2>1. UNCHANGED <<solver, max_cache_size, skip_cache, fresh, failure, seen>>
    BY <1>5 DEF add_to, solverVars, statusVars, forVars
  <2> QED BY <2>1 DEF FreshInv
<1>6. CASE UNCHANGED vars
  BY <1>6 DEF vars, forVars, solverVars, statusVars, FreshInv
<1> QED BY <1>1, <1>2, <1>3, <1>4, <1>5, <1>6 DEF Next

(* only optimization_status raises converged                               *)
LEMMA RaisesConverged ==
    ASSUME [Next]_vars, ~ converged, converged'
    PROVE  /\ solver = "status" /\ phase = "returned" /\ failure = NoSample
           /\ skip_cache \/ max_cache_size = 0
<1>1. ASSUME UNCHANGED converged PROVE FALSE
  BY <1>1
<1>2. ~ get_risk
  BY <1>1 DEF get_risk, statusVars
<1>3. ~ ParallelStep
  BY <1>1 DEF ParallelStep, statusVars
<1>4. \A t \in Threads : ~ call_oracle(t) /\ ~ add_to(t)
  BY <1>1 DEF call_oracle, add_to, statusVars
<1>5. ~ UNCHANGED vars
  BY <1>1 DEF vars, statusVars
<1>6. optimization_status
  BY <1>2, <1>3, <1>4, <1>5 DEF Next
<1>7. Converging
  BY <1>1, <1>6 DEF optimization_status, OutOfIterations, Refining, NotYet, statusVars
<1>8. skip_cache \/ max_cache_size = 0
  BY <1>7 DEF Converging
<1> QED BY <1>6, <1>8 DEF optimization_status

(* The solver takes itself for converged only when the oracle itself       *)
(* answered for every sample at the present solution                       *)
(* (structural_svm_problem.h: skip_cache in optimization_status and        *)
(* separation_oracle_cached).                                              *)
THEOREM ConvergenceIsFresh == Spec => ConvergesOnFresh
<1>1. ForInv /\ FreshInv /\ [Next]_vars
         => [~ converged /\ converged' => fresh = Indices]_vars
  <2> SUFFICES ASSUME ForInv, FreshInv, [Next]_vars, ~ converged, converged'
               PROVE  fresh = Indices
    OBVIOUS
  <2>1. /\ solver = "status" /\ phase = "returned" /\ failure = NoSample
        /\ skip_cache \/ max_cache_size = 0
    BY RaisesConverged
  <2>2. \A s \in Indices : seen[s] # 0
    BY <2>1, OnceFromInv DEF EachIndexOnce
  <2> QED BY <2>1, <2>2 DEF FreshInv
<1> QED BY <1>1, ForInvOfSpec, FreshInvInit, FreshInvNext, PTL DEF Spec, ConvergesOnFresh

(***************************************************************************)
(* Types and caches                                                        *)
(***************************************************************************)
CacheInv ==
    /\ w \in Weights
    /\ max_cache_size \in Nat
    /\ cache \in [Indices -> Seq(Labels)]
    /\ \A s \in Indices : Len(cache[s]) <= max_cache_size

LEMMA RiskIsInt ==
    ASSUME CacheInv, NEW s \in Indices, NEW l \in Labels
    PROVE  RiskOf(s, l) \in Int /\ RiskOf(s, Truth) = 0
<1> QED BY SvmAssumption DEF CacheInv, RiskOf

LEMMA CachedLabels ==
    ASSUME CacheInv, NEW s \in Indices
    PROVE  /\ cached(s) \subseteq Labels
           /\ cached(s) = {} <=> cache[s] = <<>>
<1> DEFINE c == cache[s]
<1>1. c \in Seq(Labels)
  BY DEF CacheInv
<1>2. /\ DOMAIN c = 1 .. Len(c) /\ Len(c) \in Nat
      /\ \A n \in 1 .. Len(c) : c[n] \in Labels
  BY <1>1
<1>3. c = <<>> <=> Len(c) = 0
  BY <1>1, EmptySeq
<1> HIDE DEF c
<1>4. c = <<>> <=> DOMAIN c = {}
  BY <1>2, <1>3
<1> QED BY <1>2, <1>4 DEF cached, c

(* a cached labelling moves to the end of the sequence, nothing is lost    *)
LEMMA TouchKeeps ==
    ASSUME CacheInv, NEW s \in Indices, NEW l \in cached(s)
    PROVE  /\ Touch(s, l) \in Seq(Labels)
           /\ Len(Touch(s, l)) = Len(cache[s])
           /\ Touch(s, l) # <<>>
<1> DEFINE k == CHOOSE n \in DOMAIN cache[s] : cache[s][n] = l
<1>1. cache[s] \in Seq(Labels) /\ l \in Labels
  BY CachedLabels DEF CacheInv
<1>2. k \in DOMAIN cache[s]
  BY DEF cached
<1>3. k \in 1 .. Len(cache[s])
  BY <1>1, <1>2
<1> DEFINE front == SubSeq(cache[s], 1, k - 1)
           back == SubSeq(cache[s], k + 1, Len(cache[s]))
<1>4. Touch(s, l) = Append(front \o back, l)
  BY DEF Touch
<1> HIDE DEF k
<1>5. front \in Seq(Labels) /\ Len(front) = k - 1
  BY <1>1, <1>3
<1>6. back \in Seq(Labels) /\ Len(back) = Len(cache[s]) - k
  BY <1>1, <1>3
<1> HIDE DEF front, back
<1>7. front \o back \in Seq(Labels) /\ Len(front \o back) = Len(cache[s]) - 1
  BY <1>1, <1>3, <1>5, <1>6
<1> DEFINE rest == front \o back
<1> HIDE DEF rest
<1>8. rest \in Seq(Labels) /\ Len(rest) = Len(cache[s]) - 1
  BY <1>7 DEF rest
<1>9. /\ Append(rest, l) \in Seq(Labels)
      /\ Len(Append(rest, l)) = Len(rest) + 1
      /\ Append(rest, l) # <<>>
  BY <1>1, <1>8, AppendProperties
<1>10. Len(cache[s]) \in Nat
  BY <1>1
<1>11. Touch(s, l) = Append(rest, l)
  BY <1>4 DEF rest
<1> QED BY <1>8, <1>9, <1>10, <1>11

LEMMA StoreBounds ==
    ASSUME CacheInv, NEW s \in Indices, NEW l \in Labels, max_cache_size > 0
    PROVE  /\ Store(s, l) \in Seq(Labels)
           /\ Len(Store(s, l)) <= max_cache_size
           /\ Store(s, l) # <<>>
<1>1. cache[s] \in Seq(Labels) /\ Len(cache[s]) <= max_cache_size /\ max_cache_size \in Nat
  BY DEF CacheInv
<1>2. CASE Len(cache[s]) >= max_cache_size
  <2>1. /\ Tail(cache[s]) \in Seq(Labels)
        /\ Len(Tail(cache[s])) = Len(cache[s]) - 1
    BY <1>1, <1>2
  <2>2. Store(s, l) = Append(Tail(cache[s]), l)
    BY <1>2 DEF Store
  <2> QED BY <1>1, <2>1, <2>2
<1>3. CASE ~ (Len(cache[s]) >= max_cache_size)
  <2>1. Store(s, l) = Append(cache[s], l)
    BY <1>3 DEF Store
  <2> QED BY <1>1, <1>3, <2>1
<1> QED BY <1>2, <1>3

(* the cache of one sample changes in one of two ways, or not at all       *)
LEMMA CacheChange ==
    ASSUME CacheInv, NEW s \in Indices, NEW t \in Threads,
           FromCache(t, s) \/ FromOracle(t, s) \/ Uncached(t, s) \/ ReadEmptyCache(s)
    PROVE  \/ cache' = cache
           \/ \E c \in Seq(Labels) : /\ cache' = [cache EXCEPT ![s] = c]
                                     /\ Len(c) <= max_cache_size /\ c # <<>>
<1>1. cached(s) \subseteq Labels
  BY CachedLabels
<1>2. \A S : Best(s, S) \subseteq S
  BY DEF Best
<1>3. ASSUME NEW l \in cached(s), cache' = [cache EXCEPT ![s] = Touch(s, l)]
      PROVE  \E c \in Seq(Labels) : /\ cache' = [cache EXCEPT ![s] = c]
                                    /\ Len(c) <= max_cache_size /\ c # <<>>
  <2>1. /\ Touch(s, l) \in Seq(Labels) /\ Touch(s, l) # <<>>
        /\ Len(Touch(s, l)) <= max_cache_size
    BY TouchKeeps DEF CacheInv
  <2> QED BY <1>3, <2>1
<1>4. ASSUME NEW l \in Labels, max_cache_size > 0, cache' = [cache EXCEPT ![s] = Store(s, l)]
      PROVE  \E c \in Seq(Labels) : /\ cache' = [cache EXCEPT ![s] = c]
                                    /\ Len(c) <= max_cache_size /\ c # <<>>
  <2>1. /\ Store(s, l) \in Seq(Labels) /\ Store(s, l) # <<>>
        /\ Len(Store(s, l)) <= max_cache_size
    BY <1>4, StoreBounds
  <2> QED BY <1>4, <2>1
<1>5. CASE FromCache(t, s)
  BY <1>2, <1>3, <1>5 DEF FromCache
<1>6. CASE FromOracle(t, s)
  <2>1. separation_oracle(s) \subseteq Labels
    BY <1>2 DEF separation_oracle
  <2>2. PICK l \in separation_oracle(s) :
             \/ cache' = cache
             \/ \E m \in Best(s, cached(s)) : cache' = [cache EXCEPT ![s] = Touch(s, m)]
             \/ cache' = [cache EXCEPT ![s] = Store(s, l)]
    BY <1>6 DEF FromOracle
  <2>3. max_cache_size > 0
    BY <1>6 DEF FromOracle
  <2> QED BY <1>2, <1>3, <1>4, <2>1, <2>2, <2>3
<1>7. CASE Uncached(t, s)
  BY <1>7 DEF Uncached, cacheVars
<1>8. CASE ReadEmptyCache(s)
  BY <1>8 DEF ReadEmptyCache, cacheVars
<1> QED BY <1>5, <1>6, <1>7, <1>8

LEMMA CacheInvInit == Init => CacheInv
<1> SUFFICES ASSUME Init PROVE CacheInv
  OBVIOUS
<1>1. w \in Weights /\ max_cache_size \in Nat
  BY SvmAssumption DEF Init
<1>2. cache = [s \in Indices |-> <<>>]
  BY DEF Init
<1>3. \A s \in Indices : Len(cache[s]) = 0
  BY <1>2
<1> QED BY <1>1, <1>2, <1>3 DEF CacheInv

LEMMA CacheInvNext == ForInv /\ CacheInv /\ [Next]_vars => CacheInv'
<1> SUFFICES ASSUME ForInv, CacheInv, [Next]_vars PROVE CacheInv'
  OBVIOUS
<1>1. CASE get_risk
  BY <1>1 DEF get_risk, cacheVars, CacheInv
<1>2. CASE ParallelStep
  BY <1>2 DEF ParallelStep, solverVars, cacheVars, CacheInv
<1>3. CASE optimization_status
  BY <1>3 DEF optimization_status, cacheVars, CacheInv
<1>4. ASSUME NEW t \in Threads, failure = NoSample, call_oracle(t) PROVE CacheInv'
  <2> DEFINE s == work[t].next
  <2>1. s \in Indices
    BY <1>4, ProcessSeen DEF call_oracle
  <2>2. w' = w /\ max_cache_size' = max_cache_size
    BY <1>4 DEF call_oracle, solverVars
  <2>3. FromCache(t, s) \/ FromOracle(t, s) \/ Uncached(t, s) \/ ReadEmptyCache(s)
    BY <1>4 DEF call_oracle
  <2> HIDE DEF s
  <2>4. CASE cache' = cache
    BY <2>2, <2>4 DEF CacheInv
  <2>5. ASSUME NEW c \in Seq(Labels), cache' = [cache EXCEPT ![s] = c],
               Len(c) <= max_cache_size
        PROVE  CacheInv'
    <3>1. cache' \in [Indices -> Seq(Labels)]
      BY <2>5 DEF CacheInv
    <3>2. \A x \in Indices : Len(cache'[x]) <= max_cache_size
      BY <2>5 DEF CacheInv
    <3> QED BY <2>2, <3>1, <3>2 DEF CacheInv
  <2> QED BY <2>1, <2>3, <2>4, <2>5, CacheChange
<1>5. ASSUME NEW t \in Threads, add_to(t) PROVE CacheInv'
  BY <1>5 DEF add_to, solverVars, cacheVars, CacheInv
<1>6. CASE UNCHANGED vars
  BY <1>6 DEF vars, solverVars, cacheVars, CacheInv
<1> QED BY <1>1, <1>2, <1>3, <1>4, <1>5, <1>6 DEF Next

LEMMA CacheInvOfSpec == Spec => []CacheInv
<1> QED BY ForInvOfSpec, CacheInvInit, CacheInvNext, PTL DEF Spec

(* a sample whose exact oracle has answered has something in its cache     *)
ExactHasAnswers ==
    max_cache_size > 0 =>
        /\ \A s \in fresh : s \notin Approximate => cache[s] # <<>>
        /\ converged => \A s \in Indices : s \notin Approximate => cache[s] # <<>>

LEMMA ExactOracleStores ==
    ASSUME CacheInv, NEW s \in Indices, s \notin Approximate, NEW t \in Threads,
           FromOracle(t, s)
    PROVE  cache' # cache \/ cache[s] # <<>>
<1>1. PICK l \in separation_oracle(s) :
           \/ RiskOf(s, l) < 0
           \/ \E m \in Best(s, cached(s)) : TRUE
           \/ cache' = [cache EXCEPT ![s] = Store(s, l)]
  BY DEF FromOracle
<1>2. l \in Labels /\ \A m \in Labels : RiskOf(s, m) <= RiskOf(s, l)
  BY DEF separation_oracle, Best
<1>3. RiskOf(s, Truth) = 0 /\ RiskOf(s, l) \in Int /\ Truth \in Labels
  BY <1>2, RiskIsInt, SvmAssumption
<1>4. RiskOf(s, l) >= 0
  BY <1>2, <1>3
<1>5. CASE \E m \in Best(s, cached(s)) : TRUE
  BY <1>5, CachedLabels DEF Best
<1>6. CASE cache' = [cache EXCEPT ![s] = Store(s, l)]
  <2>1. Store(s, l) # <<>>
    BY <1>2, StoreBounds DEF FromOracle
  <2>2. cache'[s] = Store(s, l)
    BY <1>6 DEF CacheInv
  <2> QED BY <2>1, <2>2
<1> QED BY <1>1, <1>3, <1>4, <1>5, <1>6

LEMMA ExactInit == Init => ExactHasAnswers
<1> QED BY DEF Init, ExactHasAnswers

LEMMA ExactOracle ==
    ASSUME ForInv, FreshInv, CacheInv, ExactHasAnswers, failure = NoSample,
           NEW t \in Threads, call_oracle(t)
    PROVE  ExactHasAnswers'
<1> DEFINE s == work[t].next
<1>1. s \in Indices
  BY ProcessSeen DEF call_oracle
<1>2. FromCache(t, s) \/ FromOracle(t, s) \/ Uncached(t, s) \/ ReadEmptyCache(s)
  BY DEF call_oracle
<1>3. max_cache_size' = max_cache_size /\ converged' = converged
  BY DEF call_oracle, solverVars, statusVars
<1>4. \A x \in Indices : cache[x] # <<>> => cache'[x] # <<>>
  <2>1. CASE cache' = cache
    BY <2>1
  <2>2. ASSUME NEW c \in Seq(Labels), cache' = [cache EXCEPT ![s] = c], c # <<>>
        PROVE  \A x \in Indices : cache[x] # <<>> => cache'[x] # <<>>
    BY <2>2 DEF CacheInv
  <2> QED BY <1>1, <1>2, <2>1, <2>2, CacheChange
<1>5. fresh' = fresh \/ (fresh' = fresh \cup {s} /\ (FromOracle(t, s) \/ max_cache_size = 0))
  BY <1>2 DEF FromCache, FromOracle, Uncached, ReadEmptyCache
<1>6. ASSUME FromOracle(t, s), s \notin Approximate PROVE cache'[s] # <<>>
  <2>1. CASE cache' = cache
    BY <1>1, <1>6, <2>1, ExactOracleStores
  <2>2. ASSUME NEW c \in Seq(Labels), cache' = [cache EXCEPT ![s] = c], c # <<>>
        PROVE  cache'[s] # <<>>
    BY <1>1, <2>2 DEF CacheInv
  <2> QED BY <1>1, <1>2, <2>1, <2>2, CacheChange
<1> HIDE DEF s
<1>7. ASSUME max_cache_size > 0, NEW x \in fresh', x \notin Approximate
      PROVE  cache'[x] # <<>>
  BY <1>1, <1>4, <1>5, <1>6, <1>7 DEF ExactHasAnswers, FreshInv
<1>8. ASSUME max_cache_size > 0, converged, NEW x \in Indices, x \notin Approximate
      PROVE  cache'[x] # <<>>
  BY <1>4, <1>8 DEF ExactHasAnswers
<1> QED BY <1>3, <1>7, <1>8 DEF ExactHasAnswers

LEMMA ExactStatus ==
    ASSUME ForInv, FreshInv, ExactHasAnswers, optimization_status
    PROVE  ExactHasAnswers'
<1>1. UNCHANGED <<cache, max_cache_size, fresh>>
  BY DEF optimization_status, cacheVars
<1>2. CASE ~ converged /\ converged'
  <2>1. [Next]_vars
    BY DEF Next, optimization_status
  <2>2. /\ solver = "status" /\ phase = "returned" /\ failure = NoSample
        /\ skip_cache \/ max_cache_size = 0
    BY <1>2, <2>1, RaisesConverged
  <2>3. \A s \in Indices : seen[s] # 0
    BY <2>2, OnceFromInv DEF EachIndexOnce
  <2>4. fresh = Indices
    BY <2>2, <2>3 DEF FreshInv
  <2> QED BY <1>1, <2>4 DEF ExactHasAnswers
<1>3. CASE converged \/ ~ converged'
  BY <1>1, <1>3 DEF ExactHasAnswers
<1> QED BY <1>2, <1>3

LEMMA ExactNext ==
    ForInv /\ FreshInv /\ CacheInv /\ ExactHasAnswers /\ [Next]_vars => ExactHasAnswers'
<1> SUFFICES ASSUME ForInv, FreshInv, CacheInv, ExactHasAnswers, [Next]_vars
             PROVE  ExactHasAnswers'
  OBVIOUS
<1>1. CASE get_risk
  BY <1>1 DEF get_risk, statusVars, cacheVars, ExactHasAnswers
<1>2. CASE ParallelStep
  BY <1>2 DEF ParallelStep, solverVars, statusVars, cacheVars, ExactHasAnswers
<1>3. CASE optimization_status
  BY <1>3, ExactStatus
<1>4. ASSUME NEW t \in Threads, failure = NoSample, call_oracle(t) PROVE ExactHasAnswers'
  BY <1>4, ExactOracle
<1>5. ASSUME NEW t \in Threads, add_to(t) PROVE ExactHasAnswers'
  BY <1>5 DEF add_to, solverVars, statusVars, cacheVars, ExactHasAnswers
<1>6. CASE UNCHANGED vars
  BY <1>6 DEF vars, solverVars, statusVars, cacheVars, ExactHasAnswers
<1> QED BY <1>1, <1>2, <1>3, <1>4, <1>5, <1>6 DEF Next

LEMMA AnswersNext ==
    ForInv /\ CacheInv /\ ExactHasAnswers /\ RefinementHasAnswers /\ [Next]_vars
        => RefinementHasAnswers'
<1> SUFFICES ASSUME ForInv, CacheInv, ExactHasAnswers, RefinementHasAnswers, [Next]_vars
             PROVE  RefinementHasAnswers'
  OBVIOUS
<1>1. CASE failure' = failure
  BY <1>1 DEF RefinementHasAnswers
<1>2. ASSUME NEW t \in Threads, call_oracle(t) PROVE RefinementHasAnswers'
  <2> DEFINE s == work[t].next
  <2>1. s \in Indices
    BY <1>2, ProcessSeen DEF call_oracle
  <2>2. failure' = failure \/ ReadEmptyCache(s)
    BY <1>2 DEF call_oracle, FromCache, FromOracle, Uncached
  <2>3. ASSUME ReadEmptyCache(s) PROVE failure' = s /\ s \in Approximate
    <3>1. failure' = s /\ max_cache_size > 0 /\ converged /\ cache[s] = <<>>
      BY <2>1, <2>3, CachedLabels DEF ReadEmptyCache
    <3> QED BY <2>1, <3>1 DEF ExactHasAnswers
  <2> QED BY <1>1, <2>2, <2>3 DEF RefinementHasAnswers
<1>3. CASE get_risk \/ ParallelStep \/ optimization_status \/ UNCHANGED vars
  BY <1>1, <1>3 DEF get_risk, ParallelStep, optimization_status, vars
<1>4. ASSUME NEW t \in Threads, add_to(t) PROVE failure' = failure
  BY <1>4 DEF add_to
<1> QED BY <1>1, <1>2, <1>3, <1>4 DEF Next

(* Once converged, no sample with an exact oracle is looked for in an      *)
(* empty cache (structural_svm_problem.h: psi[best_idx] under              *)
(* use_only_cache), whatever the samples, labellings and cache size.       *)
THEOREM RefinementFindsAnswers == Spec => []RefinementHasAnswers
<1>1. Init => RefinementHasAnswers
  BY DEF Init, RefinementHasAnswers
<1> QED BY <1>1, ForInvOfSpec, CacheInvOfSpec, FreshInvInit, FreshInvNext,
           ExactInit, ExactNext, AnswersNext, PTL DEF Spec

(***************************************************************************)
(* Type correctness                                                        *)
(***************************************************************************)
SvmTypes ==
    /\ solver \in {"risk", "status", "stopped"}
    /\ cp_obj \in Bounds
    /\ counter \in Nat /\ (counter > 1 => counter <= MaxIterations)
    /\ risk \in Int /\ saved_current_risk_gap \in Int
    /\ skip_cache \in BOOLEAN /\ converged \in BOOLEAN
    /\ buffer_subgradients_locally \in BOOLEAN
    /\ count_below_eps \in 0 .. 1
    /\ added \in [Indices -> Nat]
    /\ failure \in Indices \cup {NoSample}
    /\ \A t \in Threads : local[t].risk \in Int

LEMMA SvmTypesInit == Init => SvmTypes
<1> SUFFICES ASSUME Init PROVE SvmTypes
  OBVIOUS
<1>1. cp_obj \in Bounds
  BY SvmAssumption DEF Init
<1>2. \A t \in Threads : local[t].risk = 0
  BY DEF Init, Nothing
<1>3. added \in [Indices -> Nat]
  BY DEF Init
<1>4. counter = 0 /\ count_below_eps \in 0 .. 1 /\ risk \in Int /\ saved_current_risk_gap \in Int
  BY DEF Init
<1>5. counter \in Nat /\ (counter > 1 => counter <= MaxIterations)
  BY <1>4
<1>6. skip_cache = TRUE /\ converged = FALSE /\ buffer_subgradients_locally = FALSE
  BY Zenon DEF Init
<1>7. solver \in {"risk", "status", "stopped"} /\ failure \in Indices \cup {NoSample}
  BY DEF Init
<1>8. \A t \in Threads : local[t].risk \in Int
  BY <1>2
<1> QED BY <1>1, <1>3, <1>4, <1>5, <1>6, <1>7, <1>8, Zenon DEF SvmTypes

LEMMA SvmTypesRisk == ASSUME SvmTypes, get_risk PROVE SvmTypes'
<1>1. /\ UNCHANGED <<cp_obj, counter, local, failure, statusVars>>
      /\ solver' = "status" /\ risk' = 0 /\ buffer_subgradients_locally' \in BOOLEAN
      /\ added' \in [Indices -> Nat]
  BY DEF get_risk
<1> QED BY <1>1 DEF SvmTypes, statusVars

(* an answer adds the risk of one labelling                                *)
LEMMA SvmTypesOracle ==
    ASSUME ForInv, SumInv, CacheInv, SvmTypes, NEW t \in Threads, call_oracle(t)
    PROVE  SvmTypes'
<1> DEFINE s == work[t].next
<1>1. s \in Indices
  BY ProcessSeen DEF call_oracle
<1>2. /\ UNCHANGED <<solver, cp_obj, counter, risk, added, buffer_subgradients_locally>>
      /\ UNCHANGED <<saved_current_risk_gap, skip_cache, count_below_eps, converged>>
  BY DEF call_oracle, solverVars, statusVars, sumVars
<1> HIDE DEF s
<1>3. FromCache(t, s) \/ FromOracle(t, s) \/ Uncached(t, s) \/ ReadEmptyCache(s)
  BY DEF call_oracle, s
<1>4. failure' \in Indices \cup {NoSample}
  BY <1>1, <1>3 DEF FromCache, FromOracle, Uncached, ReadEmptyCache, SvmTypes
<1>5. local' = local \/ \E l \in Labels : Answer(t, s, l)
  <2>1. /\ \A S : Best(s, S) \subseteq S
        /\ cached(s) \subseteq Labels
        /\ Best(s, Labels) \subseteq Labels
        /\ Truth \in Labels
    BY <1>1, CachedLabels, SvmAssumption DEF Best
  <2>2. separation_oracle(s) \subseteq Labels
    BY <2>1 DEF separation_oracle
  <2>3. CASE FromCache(t, s)
    BY <2>1, <2>3 DEF FromCache
  <2>4. CASE FromOracle(t, s)
    BY <2>1, <2>2, <2>4 DEF FromOracle
  <2>5. CASE Uncached(t, s)
    BY <2>2, <2>5 DEF Uncached
  <2>6. CASE ReadEmptyCache(s)
    BY <2>6 DEF ReadEmptyCache
  <2> QED BY <1>3, <2>3, <2>4, <2>5, <2>6
<1>6. ASSUME NEW l \in Labels, Answer(t, s, l), NEW u \in Threads
      PROVE  local'[u].risk \in Int
  <2>1. RiskOf(s, l) \in Int
    BY <1>1, RiskIsInt
  <2>2. CASE u = t
    <3>1. local'[t].risk = local[t].risk + RiskOf(s, l)
      BY <1>6 DEF Answer, SumInv
    <3> QED BY <2>1, <2>2, <3>1 DEF SvmTypes
  <2>3. CASE u # t
    BY <1>6, <2>3 DEF Answer, SumInv, SvmTypes
  <2> QED BY <2>2, <2>3
<1>7. \A u \in Threads : local'[u].risk \in Int
  BY <1>5, <1>6 DEF SvmTypes
<1> QED BY <1>2, <1>4, <1>7 DEF SvmTypes

LEMMA SvmTypesAdd == ASSUME SumInv, SvmTypes, NEW t \in Threads, add_to(t) PROVE SvmTypes'
<1>1. /\ UNCHANGED <<solver, cp_obj, counter, failure, buffer_subgradients_locally>>
      /\ UNCHANGED <<saved_current_risk_gap, skip_cache, count_below_eps, converged>>
  BY DEF add_to, solverVars, statusVars
<1>2. risk' \in Int
  BY DEF add_to, SvmTypes
<1>3. added' \in [Indices -> Nat]
  BY DEF add_to, Added, SvmTypes
<1>4. \A u \in Threads : local'[u].risk \in Int
  BY DEF add_to, SumInv, SvmTypes, Nothing
<1> QED BY <1>1, <1>2, <1>3, <1>4 DEF SvmTypes

(* the gap is saved and the flags change together; the turn is counted only *)
(* when the loop goes on, that is below the limit                          *)
LEMMA SvmTypesStatus == ASSUME SvmTypes, optimization_status PROVE SvmTypes'
<1>1. UNCHANGED <<risk, added, local, failure, buffer_subgradients_locally>>
  BY DEF optimization_status, sumVars
<1>2. /\ saved_current_risk_gap' \in Int /\ count_below_eps' \in 0 .. 1
      /\ skip_cache' \in BOOLEAN /\ converged' \in BOOLEAN
  <2>1. gap \in Int
    BY SvmAssumption DEF gap, SvmTypes
  <2>2. CASE UNCHANGED statusVars
    BY <2>2 DEF statusVars, SvmTypes
  <2>3. CASE Refining
    BY <2>1, <2>3 DEF Refining, SvmTypes
  <2>4. CASE Converging
    <3>1. CASE skip_cache \/ max_cache_size = 0
      BY <2>1, <2>4, <3>1 DEF Converging, SvmTypes
    <3>2. CASE ~ (skip_cache \/ max_cache_size = 0)
      <4>1. /\ saved_current_risk_gap' = gap /\ converged' = converged
            /\ skip_cache' = (count_below_eps + 1 > 1)
            /\ count_below_eps' = IF skip_cache' THEN 0 ELSE count_below_eps + 1
        BY <2>4, <3>2 DEF Converging
      <4>2. CASE count_below_eps = 0
        <5>1. (count_below_eps + 1 > 1) = FALSE /\ count_below_eps + 1 \in 0 .. 1
          BY <4>2
        <5>2. skip_cache' = FALSE
          BY <4>1, <5>1, Zenon
        <5>3. count_below_eps' = count_below_eps + 1
          BY <4>1, <5>2, Zenon
        <5> QED BY <2>1, <4>1, <5>1, <5>2, <5>3, Zenon DEF SvmTypes
      <4>3. CASE count_below_eps = 1
        <5>1. (count_below_eps + 1 > 1) = TRUE /\ 0 \in 0 .. 1
          BY <4>3
        <5>2. skip_cache' = TRUE
          BY <4>1, <5>1, Zenon
        <5>3. count_below_eps' = 0
          BY <4>1, <5>2, Zenon
        <5> QED BY <2>1, <4>1, <5>1, <5>2, <5>3, Zenon DEF SvmTypes
      <4> QED BY <4>2, <4>3 DEF SvmTypes
    <3> QED BY <3>1, <3>2
  <2>5. CASE NotYet
    <3>1. 0 \in 0 .. 1
      OBVIOUS
    <3> QED BY <2>1, <2>5, <3>1, Zenon DEF NotYet, SvmTypes
  <2> QED BY <2>2, <2>3, <2>4, <2>5 DEF optimization_status, OutOfIterations
<1>3. /\ solver' \in {"risk", "status", "stopped"} /\ cp_obj' \in Bounds
      /\ counter' \in Nat /\ (counter' > 1 => counter' <= MaxIterations)
  <2>1. CASE stop
    BY <2>1 DEF optimization_status, SvmTypes
  <2>2. CASE ~ stop
    <3>1. solver' = "risk" /\ counter' = counter + 1 /\ cp_obj' \in Bounds
      BY <2>2 DEF optimization_status
    <3>2. counter = 0 \/ counter < MaxIterations
      BY <2>2, SvmAssumption DEF stop, SvmTypes
    <3> QED BY <3>1, <3>2, SvmAssumption DEF SvmTypes
  <2> QED BY <2>1, <2>2
<1> QED BY <1>1, <1>2, <1>3 DEF SvmTypes

LEMMA SvmTypesNext ==
    ForInv /\ SumInv /\ CacheInv /\ SvmTypes /\ [Next]_vars => SvmTypes'
<1> SUFFICES ASSUME ForInv, SumInv, CacheInv, SvmTypes, [Next]_vars PROVE SvmTypes'
  OBVIOUS
<1>1. CASE get_risk
  BY <1>1, SvmTypesRisk
<1>2. CASE ParallelStep
  BY <1>2 DEF ParallelStep, solverVars, statusVars, sumVars, SvmTypes
<1>3. CASE optimization_status
  BY <1>3, SvmTypesStatus
<1>4. ASSUME NEW t \in Threads, call_oracle(t) PROVE SvmTypes'
  BY <1>4, SvmTypesOracle
<1>5. ASSUME NEW t \in Threads, add_to(t) PROVE SvmTypes'
  BY <1>5, SvmTypesAdd
<1>6. CASE UNCHANGED vars
  BY <1>6 DEF vars, solverVars, statusVars, sumVars, SvmTypes
<1> QED BY <1>1, <1>2, <1>3, <1>4, <1>5, <1>6 DEF Next

(* Type correctness, in particular the limits: no sample's cache grows     *)
(* beyond max_cache_size (structural_svm_problem.h:                        *)
(* separation_oracle_cached), and the loop runs for no more than           *)
(* max_iterations turns, or one if that is 0 (optimization_oca.h).         *)
THEOREM TypeCorrect == Spec => []TypeOK
<1>1. ForInv /\ FreshInv /\ CacheInv /\ SvmTypes => TypeOK
  <2> SUFFICES ASSUME ForInv, FreshInv, CacheInv, SvmTypes PROVE TypeOK
    OBVIOUS
  <2>1. \A s \in Indices : Len(cache[s]) <= max_cache_size /\ cached(s) \subseteq Labels
    BY CachedLabels DEF CacheInv
  <2>2. phase \in {"idle", "adding", "waiting", "returned"} /\ w \in Weights
    BY DEF ForInv, Types, CacheInv
  <2>3. fresh \subseteq Indices
    BY DEF FreshInv
  <2> QED BY <2>1, <2>2, <2>3 DEF SvmTypes, TypeOK
<1> QED BY <1>1, ForInvOfSpec, CacheInvOfSpec, SumInvInit, SumInvNext, FreshInvInit,
           FreshInvNext, SvmTypesInit, SvmTypesNext, PTL DEF Spec
=============================================================================
