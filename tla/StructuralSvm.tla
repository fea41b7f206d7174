--------------------------- MODULE StructuralSvm ---------------------------
(***************************************************************************)
(* The training of a structural SVM, which is what HOGtrainer::setup does: *)
(* the cutting-plane loop (optimization/optimization_oca.h), its problem   *)
(* with the oracle cache (svm/structural_svm_problem.h), and the threads   *)
(* that ask the separation oracle about every sample                       *)
(* (svm/structural_svm_problem_threaded.h), through ParallelFor.           *)
(*                                                                         *)
(* The numbers that matter are integers: Risk[s][l][w] is what labelling l *)
(* adds to the risk of sample s at the solution w, that is loss + dot(psi, *)
(* w) - dot(true_psi, w), which is 0 for the true labelling.  The QP that  *)
(* finds the next w and the lower bound cp_obj is any choice of them.      *)
(* Averages over the samples are kept as sums.                             *)
(***************************************************************************)
EXTENDS ParallelFor, Sequences

CONSTANTS
    Labels,             \* labellings
    Truth,              \* the true one
    Weights,            \* solutions
    Zero,               \* the solution the loop starts from
    Risk,               \* Risk[s][l][w], see above
    Approximate,        \* samples for which the oracle may miss the worst labelling
    Bounds,             \* values of cp_obj
    Eps,                \* get_epsilon()
    Unit,               \* what stands for 1.0 in CacheEpsilons
    CacheEpsilons,      \* what set_cache_based_epsilon may have been called with
    CacheSizes,         \* what set_max_cache_size may have been called with
    MaxIterations,      \* get_max_iterations()
    Infinity,           \* above every risk and gap
    NoSample            \* not a sample

ASSUME SvmAssumption ==
    /\ Truth \in Labels /\ Zero \in Weights
    /\ Risk \in [Indices -> [Labels -> [Weights -> Int]]]
    /\ \A s \in Indices, v \in Weights : Risk[s][Truth][v] = 0
    /\ Bounds \subseteq Nat /\ 0 \in Bounds /\ CacheSizes \subseteq Nat
    /\ MaxIterations \in Nat /\ Unit \in Nat \ {0} /\ NoSample \notin Indices

VARIABLES
    solver,             \* what the loop does next: risk, status, stopped
    w, cp_obj, counter,
    max_cache_size, cache_based_eps,
    saved_current_risk_gap, skip_cache, count_below_eps, converged,
    cache,              \* the labellings kept for a sample, least recently used first
    last_true_risk_computed,
    buffer_subgradients_locally,
    local,              \* what a thread has computed and not added yet
    risk, added,        \* the shared sums, and how often a sample is in them
    fresh,              \* history: the samples whose answer the oracle gave for w
    failure             \* the sample whose empty cache was read

solverVars == <<solver, w, cp_obj, counter, max_cache_size, cache_based_eps>>
statusVars == <<saved_current_risk_gap, skip_cache, count_below_eps, converged>>
cacheVars == <<cache, last_true_risk_computed>>
sumVars == <<risk, added>>
vars == <<forVars, solverVars, statusVars, cacheVars, sumVars,
          buffer_subgradients_locally, local, fresh, failure>>

Nothing == [risk |-> 0, of |-> {}]

Init ==
    /\ ForInit
    /\ solver = "risk" /\ w = Zero /\ cp_obj = 0 /\ counter = 0
    /\ max_cache_size \in CacheSizes /\ cache_based_eps \in CacheEpsilons
    /\ saved_current_risk_gap = 0
    /\ skip_cache = TRUE /\ count_below_eps = 0 /\ converged = FALSE
    /\ cache = [s \in Indices |-> <<>>]
    /\ last_true_risk_computed = [s \in Indices |-> Infinity]
    /\ buffer_subgradients_locally = FALSE
    /\ local = [t \in Threads |-> Nothing]
    /\ risk = 0 /\ added = [s \in Indices |-> 0]
    /\ fresh = {} /\ failure = NoSample

(* which scheme is faster is measured, and tried anew every 50 iterations *)
get_risk ==
    /\ solver = "risk" /\ phase \in {"idle", "returned"}
    /\ Call
    /\ buffer_subgradients_locally' \in BOOLEAN
    /\ risk' = 0 /\ added' = [s \in Indices |-> 0]
    /\ fresh' = {}
    /\ solver' = "status"
    /\ UNCHANGED <<w, cp_obj, counter, max_cache_size, cache_based_eps,
                   statusVars, cacheVars, local, failure>>

(***************************************************************************)
(* separation_oracle_cached, for a sample s and the current solution.      *)
(***************************************************************************)
RiskOf(s, l) == Risk[s][l][w]

cached(s) == {cache[s][k] : k \in DOMAIN cache[s]}

Best(s, S) == {l \in S : \A m \in S : RiskOf(s, m) <= RiskOf(s, l)}

(* the oracle; where it is not exact its answer may be any labelling *)
separation_oracle(s) == IF s \in Approximate THEN Labels ELSE Best(s, Labels)

(* slip: does not look at the flag that the solver raises before it stops *)
good_enough_always(s, l) ==
    \/ /\ Infinity > last_true_risk_computed[s]
       /\ RiskOf(s, l) * num + saved_current_risk_gap > last_true_risk_computed[s] * num
       /\ RiskOf(s, l) >= 0
    \/ converged

(* the cached labelling l may stand for the oracle's answer *)
good_enough(s, l) ==
    /\ ~ skip_cache
    /\ \/ /\ Infinity > last_true_risk_computed[s]
          /\ RiskOf(s, l) * num + saved_current_risk_gap > last_true_risk_computed[s] * num
          /\ RiskOf(s, l) >= 0
       \/ converged

(* slip: takes the entry out and forgets to put it back *)
Touch_drops(s, l) ==
    LET k == CHOOSE n \in DOMAIN cache[s] : cache[s][n] = l
    IN SubSeq(cache[s], 1, k - 1) \o SubSeq(cache[s], k + 1, Len(cache[s]))

(* l becomes the most recently used entry *)
Touch(s, l) ==
    LET k == CHOOSE n \in DOMAIN cache[s] : cache[s][n] = l
    IN Append(SubSeq(cache[s], 1, k - 1) \o SubSeq(cache[s], k + 1, Len(cache[s])), l)

(* slip: never forgets anything *)
Store_unbounded(s, l) == Append(cache[s], l)

(* a new entry takes the place of the least recently used one of a full cache *)
Store(s, l) ==
    Append(IF Len(cache[s]) >= max_cache_size THEN Tail(cache[s]) ELSE cache[s], l)

Answer(t, s, l) ==
    local' = [local EXCEPT ![t] = [risk |-> @.risk + RiskOf(s, l), of |-> @.of \cup {s}]]

FromCache(t, s) ==
    \E l \in Best(s, cached(s)) :
        /\ max_cache_size > 0 /\ good_enough(s, l)
        /\ cache' = [cache EXCEPT ![s] = Touch(s, l)]
        /\ Answer(t, s, l)
        /\ UNCHANGED <<last_true_risk_computed, fresh, failure>>

FromOracle(t, s) ==
    /\ max_cache_size > 0
    /\ cached(s) # {} => \E l \in Best(s, cached(s)) : ~ good_enough(s, l)
    /\ cached(s) = {} => ~ (converged /\ ~ skip_cache)
    /\ \E l \in separation_oracle(s) :
          /\ last_true_risk_computed' = [last_true_risk_computed EXCEPT ![s] = RiskOf(s, l)]
          /\ \/ /\ RiskOf(s, l) < 0 /\ \A m \in cached(s) : RiskOf(s, m) < 0
                /\ Answer(t, s, Truth)
                /\ UNCHANGED cache
             \/ \E m \in Best(s, cached(s)) :
                   /\ RiskOf(s, m) > RiskOf(s, l) /\ RiskOf(s, m) >= 0
                   /\ cache' = [cache EXCEPT ![s] = Touch(s, m)]
                   /\ Answer(t, s, m)
             \/ /\ RiskOf(s, l) >= 0 /\ \A m \in cached(s) : RiskOf(s, m) <= RiskOf(s, l)
                /\ cache' = [cache EXCEPT ![s] = Store(s, l)]
                /\ Answer(t, s, l)
    /\ fresh' = fresh \cup {s}
    /\ UNCHANGED failure

Uncached(t, s) ==
    /\ max_cache_size = 0
    /\ \E l \in separation_oracle(s) : Answer(t, s, l)
    /\ fresh' = fresh \cup {s}
    /\ UNCHANGED <<cacheVars, failure>>

(* psi[best_idx] of an empty psi: undefined, taken to end the program *)
ReadEmptyCache(s) ==
    /\ max_cache_size > 0 /\ cached(s) = {} /\ converged /\ ~ skip_cache
    /\ failure' = s
    /\ UNCHANGED <<cacheVars, local, fresh>>

(* call_oracle's loop body for the next index of t's block; without local  *)
(* buffering the previous answer must have been added first                *)
call_oracle(t) ==
    /\ local[t] # Nothing => buffer_subgradients_locally
    /\ Process(t)
    /\ LET s == work[t].next
       IN FromCache(t, s) \/ FromOracle(t, s) \/ Uncached(t, s) \/ ReadEmptyCache(s)
    /\ UNCHANGED <<solverVars, statusVars, sumVars, buffer_subgradients_locally>>

(* slip: adds what one sample contributed, not what the block did *)
Added_one(S) == LET s == CHOOSE x \in S : TRUE IN [added EXCEPT ![s] = @ + 1]

Added(S) == [s \in Indices |-> IF s \in S THEN added[s] + 1 ELSE added[s]]

(* under accum_mutex: each answer at once, or a block's answers together *)
add_to(t) ==
    /\ local[t] # Nothing
    /\ buffer_subgradients_locally => work[t].next = work[t].end
    /\ risk' = risk + local[t].risk
    /\ added' = Added(local[t].of)
    /\ local' = [local EXCEPT ![t] = Nothing]
    /\ UNCHANGED <<forVars, solverVars, statusVars, cacheVars,
                   buffer_subgradients_locally, fresh, failure>>

ParallelStep ==
    /\ \/ AddBlock \/ AllAdded \/ Return
       \/ \E t \in Threads : TakeBlock(t) \/ (local[t] = Nothing /\ FinishBlock(t))
    /\ UNCHANGED <<solverVars, statusVars, cacheVars, sumVars,
                   buffer_subgradients_locally, local, fresh, failure>>

(***************************************************************************)
(* optimization_status, and the rest of a turn of the cutting-plane loop.  *)
(***************************************************************************)
gap == risk - cp_obj

(* current_risk_gap against max(eps, eps*risk), in sums over the samples *)
refined ==
    \/ cache_based_eps = Infinity \/ gap = 0
    \/ gap * Unit < cache_based_eps * num \/ gap * Unit < cache_based_eps * risk

stop == counter > 0 /\ (counter >= MaxIterations \/ (converged' /\ refined))

OutOfIterations ==
    /\ counter >= MaxIterations
    /\ UNCHANGED statusVars

Refining ==
    /\ counter < MaxIterations /\ converged
    /\ saved_current_risk_gap' = gap
    /\ UNCHANGED <<skip_cache, count_below_eps, converged>>

Converging ==
    /\ counter < MaxIterations /\ ~ converged /\ gap < Eps * num
    /\ saved_current_risk_gap' = gap
    /\ IF skip_cache \/ max_cache_size = 0
       THEN converged' = TRUE /\ skip_cache' = FALSE /\ UNCHANGED count_below_eps
       ELSE /\ skip_cache' = (count_below_eps + 1 > 1)
            /\ count_below_eps' = IF skip_cache' THEN 0 ELSE count_below_eps + 1
            /\ UNCHANGED converged

NotYet ==
    /\ counter < MaxIterations /\ ~ converged /\ gap >= Eps * num
    /\ saved_current_risk_gap' = gap
    /\ count_below_eps' = 0 /\ skip_cache' = FALSE
    /\ UNCHANGED converged

(* the first turn has no lower bound yet and asks for no status *)
optimization_status ==
    /\ solver = "status" /\ phase = "returned" /\ failure = NoSample
    /\ IF counter = 0 THEN UNCHANGED statusVars
       ELSE OutOfIterations \/ Refining \/ Converging \/ NotYet
    /\ IF stop
       THEN solver' = "stopped" /\ UNCHANGED <<w, cp_obj, counter>>
       ELSE /\ solver' = "risk" /\ counter' = counter + 1
            /\ w' \in Weights /\ cp_obj' \in Bounds
    /\ UNCHANGED <<forVars, max_cache_size, cache_based_eps, cacheVars, sumVars,
                   buffer_subgradients_locally, local, fresh, failure>>

Over == solver = "stopped" \/ failure # NoSample

Next ==
    \/ /\ failure = NoSample
       /\ \/ get_risk \/ ParallelStep \/ optimization_status
          \/ \E t \in Threads : call_oracle(t) \/ add_to(t)
    \/ Over /\ UNCHANGED vars

Spec == Init /\ [][Next]_vars

(* the scheduler runs every thread that can go on *)
FairSpec == Spec /\ WF_vars(failure = NoSample /\ Next)

(***************************************************************************)
(* Properties                                                              *)
(***************************************************************************)
(* The types; a cache never holds more than max_cache_size labellings, and *)
(* only the turn without a lower bound is not counted against the limit.   *)
TypeOK ==
    /\ phase \in {"idle", "adding", "waiting", "returned"}
    /\ solver \in {"risk", "status", "stopped"}
    /\ w \in Weights /\ cp_obj \in Bounds
    /\ counter \in Nat /\ (counter > 1 => counter <= MaxIterations)
    /\ risk \in Int /\ saved_current_risk_gap \in Int
    /\ <<skip_cache, converged, buffer_subgradients_locally>> \in BOOLEAN \X BOOLEAN \X BOOLEAN
    /\ count_below_eps \in 0 .. 1
    /\ \A s \in Indices : /\ Len(cache[s]) <= max_cache_size
                          /\ cached(s) \subseteq Labels
    /\ added \in [Indices -> Nat] /\ fresh \subseteq Indices
    /\ failure \in Indices \cup {NoSample}

(* When parallel_for returns, the shared loss and subgradient contain the  *)
(* answer for every sample exactly once, buffered or not.                  *)
SumsComplete ==
    phase = "returned" => /\ \A s \in Indices : added[s] = 1
                          /\ \A t \in Threads : local[t] = Nothing

(* The solver takes itself for converged only on a risk in which every     *)
(* sample's answer came from the oracle at this very solution, never on a  *)
(* gap that old, cached labellings made look small.                        *)
ConvergesOnFresh == [][~ converged /\ converged' => fresh = Indices]_vars

(* Once converged, the solver asks the cache only.  For a sample with an   *)
(* exact oracle there is always something in it.                           *)
RefinementHasAnswers == failure \in Approximate \cup {NoSample}

(* The training ends: no block is forgotten or cut to nothing, no thread   *)
(* waits for another for ever, and the iterations are limited.             *)
SolverStops == <>Over
=============================================================================
