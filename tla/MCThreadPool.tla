---------------------------- MODULE MCThreadPool ----------------------------
(* Instances of ThreadPool for TLC: two workers and two slots, and one or  *)
(* two threads outside the pool.                                           *)
EXTENDS ThreadPool, TLC

CONSTANTS w1, w2, c1, c2, s1, s2

TwoWorkers == {w1, w2}
OneCaller == {c1}
TwoCallers == {c1, c2}
TwoSlots == {s1, s2}

(* nothing in ThreadPool orders its workers or its slots *)
Symmetry == Permutations(TwoWorkers) \cup Permutations(TwoSlots)
=============================================================================
