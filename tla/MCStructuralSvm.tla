-------------------------- MODULE MCStructuralSvm --------------------------
(* An instance of StructuralSvm for TLC: five samples, of which the second *)
(* has an oracle that may miss its worst labelling, one labelling besides  *)
(* the true one and two solutions.  A pool without a thread does the whole *)
(* range; one of a thread gets more blocks than it could have samples,     *)
(* hence blocks of one; one of two gets blocks of 2, 2 and 1.              *)
EXTENDS StructuralSvm, TLC

CONSTANTS t1, t2, truth, A, v0, v1

SomePools == {{}, {t1}, {t1, t2}}
AllWorkers == {t1, t2}
Chunks == ({} :> 1) @@ ({t1} :> 6) @@ ({t1, t2} :> 1)

(* what the wrong labelling adds to the risk of a sample *)
RiskOfA(s) ==
    CASE s = 0 -> (v0 :> 5) @@ (v1 :> -1)
      [] s = 1 -> (v0 :> -1) @@ (v1 :> 1)
      [] s = 4 -> (v0 :> -1) @@ (v1 :> 2)
      [] OTHER -> (v0 :> -1) @@ (v1 :> -1)

Risks == [s \in 0 .. 4 |->
            [l \in {truth, A} |-> [v \in {v0, v1} |-> IF l = A THEN RiskOfA(s)[v] ELSE 0]]]
=============================================================================
