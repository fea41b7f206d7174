-------------------------- MODULE HOGLabeler_proofs --------------------------
(***************************************************************************)
(* Proofs about HOGLabeler, for every number of images, boxes and saves    *)
(* and every file an earlier session left.  The filter of saveRects() is   *)
(* followed by the places of the lines it copies: those of a whole file    *)
(* are its label lines (CopiedAreLabels), those of the new text are the    *)
(* ones between its frame (TextCopied), and a cut text keeps what is said  *)
(* of its beginning (BeginningKeeps).                                      *)
(***************************************************************************)
EXTENDS HOGLabeler, FiniteSetTheorems, SequenceTheorems, TLAPS

(***************************************************************************)
(* Picking lines                                                           *)
(***************************************************************************)
Rank(I, i) == Cardinality({j \in I : j <= i})

LEMMA RankRises ==
    ASSUME NEW n \in Nat, NEW I \in SUBSET (1 .. n)
    PROVE  /\ IsFiniteSet(I) /\ Cardinality(I) \in Nat
           /\ \A i \in I : Rank(I, i) \in 1 .. Cardinality(I)
           /\ \A i, j \in I : i < j => Rank(I, i) < Rank(I, j)
<1>1. IsFiniteSet(I) /\ Cardinality(I) \in Nat
  <2>1. IsFiniteSet(1 .. n)
    BY 1 \in Int, n \in Int, FS_Interval
  <2>2. IsFiniteSet(I)
    BY <2>1, FS_Subset
  <2> QED BY <2>2, FS_CardinalityType
<1>2. ASSUME NEW i \in I
      PROVE  Rank(I, i) \in 1 .. Cardinality(I) /\ IsFiniteSet({j \in I : j <= i})
  <2> DEFINE L == {j \in I : j <= i}
  <2>1. L \subseteq I /\ i \in L
    OBVIOUS
  <2> HIDE DEF L
  <2>2. /\ IsFiniteSet(L) /\ Cardinality(L) \in Nat /\ Cardinality(L) <= Cardinality(I)
        /\ Cardinality(L) # 0
    BY <1>1, <2>1, FS_Subset, FS_CardinalityType, FS_EmptySet
  <2> QED BY <1>1, <2>2 DEF L, Rank
<1>3. ASSUME NEW i \in I, NEW j \in I, i < j PROVE Rank(I, i) < Rank(I, j)
  <2> DEFINE L == {k \in I : k <= i}
             M == {k \in I : k <= j}
  <2>1. L \subseteq M /\ L # M
    <3>1. j \in M /\ j \notin L
      BY <1>3
    <3>2. \A k \in L : k <= j
      BY <1>3
    <3> QED BY <3>1, <3>2
  <2>2. IsFiniteSet(L) /\ IsFiniteSet(M)
    BY <1>2
  <2>3. Cardinality(L) = Rank(I, i) /\ Cardinality(M) = Rank(I, j)
    BY DEF Rank
  <2> HIDE DEF L, M
  <2>4. Cardinality(L) <= Cardinality(M) /\ Cardinality(L) # Cardinality(M)
    BY <2>1, <2>2, FS_Subset
  <2>5. Rank(I, i) \in Nat /\ Rank(I, j) \in Nat
    <3>1. Rank(I, i) \in 1 .. Cardinality(I) /\ Rank(I, j) \in 1 .. Cardinality(I)
      BY <1>2
    <3> QED BY <1>1, <3>1
  <2> QED BY <2>3, <2>4, <2>5
<1> QED BY <1>1, <1>2, <1>3

(* the places in I are numbered 1, 2, ... in their order                   *)
LEMMA Places ==
    ASSUME NEW n \in Nat, NEW I \in SUBSET (1 .. n)
    PROVE  /\ Cardinality(I) \in Nat
           /\ \A k \in 1 .. Cardinality(I) : At(I, k) \in I /\ Rank(I, At(I, k)) = k
           /\ \A k, l \in 1 .. Cardinality(I) : k < l => At(I, k) < At(I, l)
           /\ \A i \in I : Rank(I, i) \in 1 .. Cardinality(I) /\ At(I, Rank(I, i)) = i
<1> DEFINE m == Cardinality(I)
           r == [i \in I |-> Rank(I, i)]
<1>1. /\ IsFiniteSet(I) /\ m \in Nat
      /\ \A i \in I : Rank(I, i) \in 1 .. m
      /\ \A i, j \in I : i < j => Rank(I, i) < Rank(I, j)
      /\ \A i \in I : i \in Nat
  <2>1. \A i \in I : i \in Nat
    OBVIOUS
  <2> QED BY <2>1, RankRises
<1>2. \A i, j \in I : Rank(I, i) = Rank(I, j) => i = j
  <2>1. SUFFICES ASSUME NEW i \in I, NEW j \in I, i < j PROVE Rank(I, i) # Rank(I, j)
    BY <1>1
  <2>2. Rank(I, i) < Rank(I, j) /\ Rank(I, i) \in Nat /\ Rank(I, j) \in Nat
    BY <1>1, <2>1
  <2> QED BY <2>2
<1>3. r \in Injection(I, 1 .. m)
  BY <1>1, <1>2 DEF Injection, IsInjective
<1>4. \A k \in 1 .. m : \E i \in I : Rank(I, i) = k
  <2>1. IsFiniteSet(1 .. m) /\ Cardinality(1 .. m) = m
    BY <1>1, FS_Interval
  <2>2. r \in Surjection(I, 1 .. m)
    <3>1. Cardinality(I) = Cardinality(1 .. m)
      BY <2>1
    <3> HIDE DEF r, m
    <3> QED BY <1>3, <2>1, <3>1, FS_Injection
  <2> QED BY <2>2 DEF Surjection
<1>5. \A k \in 1 .. m : At(I, k) \in I /\ Rank(I, At(I, k)) = k
  BY <1>4 DEF At, Rank
<1>6. \A i \in I : At(I, Rank(I, i)) = i
  BY <1>1, <1>2, <1>5
<1>7. ASSUME NEW k \in 1 .. m, NEW l \in 1 .. m, k < l PROVE At(I, k) < At(I, l)
  <2>1. /\ At(I, k) \in I /\ At(I, l) \in I
        /\ Rank(I, At(I, k)) = k /\ Rank(I, At(I, l)) = l
    BY <1>5
  <2>2. At(I, k) \in Nat /\ At(I, l) \in Nat /\ k \in Nat /\ l \in Nat
    <3>1. At(I, k) \in Nat /\ At(I, l) \in Nat
      BY <1>1, <2>1
    <3>2. k \in Nat /\ l \in Nat
      OBVIOUS
    <3> QED BY <3>1, <3>2
  <2>3. ~ (At(I, l) < At(I, k))
    <3>1. At(I, l) < At(I, k) => l < k
      BY <1>1, <2>1
    <3> QED BY <1>7, <2>2, <3>1
  <2>4. At(I, k) # At(I, l)
    BY <1>7, <2>1, <2>2
  <2> QED BY <2>2, <2>3, <2>4
<1> QED BY <1>1, <1>5, <1>6, <1>7

LEMMA PickType ==
    ASSUME NEW S, NEW f \in Seq(S), NEW I \in SUBSET (1 .. Len(f))
    PROVE  /\ Pick(f, I) \in Seq(S) /\ Len(Pick(f, I)) = Cardinality(I)
           /\ Cardinality(I) \in Nat
           /\ \A k \in 1 .. Cardinality(I) : Pick(f, I)[k] = f[At(I, k)]
<1>1. Len(f) \in Nat /\ \A i \in 1 .. Len(f) : f[i] \in S
  OBVIOUS
<1>2. /\ Cardinality(I) \in Nat
      /\ \A k \in 1 .. Cardinality(I) : At(I, k) \in I
  BY <1>1, Places
<1>3. Pick(f, I) \in [1 .. Cardinality(I) -> S]
  BY <1>1, <1>2 DEF Pick
<1>4. \A k \in 1 .. Cardinality(I) : Pick(f, I)[k] = f[At(I, k)]
  BY DEF Pick
<1> QED BY <1>2, <1>3, <1>4

(* two places of I with none of I between them are numbered one after the  *)
(* other                                                                   *)
LEMMA NextPlace ==
    ASSUME NEW n \in Nat, NEW I \in SUBSET (1 .. n)
    PROVE  /\ \A k \in 1 .. Cardinality(I) - 1 :
                  /\ At(I, k) \in I /\ At(I, k + 1) \in I /\ At(I, k) < At(I, k + 1)
                  /\ \A x \in I : ~ (At(I, k) < x /\ x < At(I, k + 1))
           /\ \A i, j \in I : i < j /\ (\A x \in I : ~ (i < x /\ x < j))
                  => Rank(I, j) = Rank(I, i) + 1
<1> DEFINE m == Cardinality(I)
<1>1. /\ m \in Nat
      /\ \A k \in 1 .. m : At(I, k) \in I /\ Rank(I, At(I, k)) = k
      /\ \A k, l \in 1 .. m : k < l => At(I, k) < At(I, l)
      /\ \A i \in I : Rank(I, i) \in 1 .. m /\ At(I, Rank(I, i)) = i
  BY Places
<1>2. /\ \A i \in I : i \in Nat
      /\ \A i, j \in I : i < j => Rank(I, i) < Rank(I, j)
  <2>1. \A i \in I : i \in Nat
    OBVIOUS
  <2> QED BY <2>1, RankRises
<1> HIDE DEF m
<1>3. ASSUME NEW k \in 1 .. m - 1
      PROVE  /\ At(I, k) \in I /\ At(I, k + 1) \in I /\ At(I, k) < At(I, k + 1)
             /\ \A x \in I : ~ (At(I, k) < x /\ x < At(I, k + 1))
  <2>1. k \in 1 .. m /\ k + 1 \in 1 .. m /\ k < k + 1
    BY <1>1
  <2>2. /\ At(I, k) \in I /\ Rank(I, At(I, k)) = k
        /\ At(I, k + 1) \in I /\ Rank(I, At(I, k + 1)) = k + 1
        /\ At(I, k) < At(I, k + 1)
    BY <1>1, <2>1
  <2>3. ASSUME NEW x \in I, At(I, k) < x, x < At(I, k + 1) PROVE FALSE
    <3>1. k < Rank(I, x) /\ Rank(I, x) < k + 1
      BY <1>2, <2>2, <2>3
    <3>2. Rank(I, x) \in 1 .. m
      BY <1>1
    <3> QED BY <1>1, <2>1, <3>1, <3>2
  <2> QED BY <2>2, <2>3
<1>4. ASSUME NEW i \in I, NEW j \in I, i < j, \A x \in I : ~ (i < x /\ x < j)
      PROVE  Rank(I, j) = Rank(I, i) + 1
  <2> DEFINE p == Rank(I, i)
             q == Rank(I, j)
  <2>1. /\ p \in 1 .. m /\ At(I, p) = i /\ q \in 1 .. m /\ At(I, q) = j
        /\ p < q
    BY <1>1, <1>2, <1>4
  <2> HIDE DEF p, q
  <2>2. ASSUME p + 1 < q PROVE FALSE
    <3>1. p + 1 \in 1 .. m /\ p < p + 1
      BY <1>1, <2>1, <2>2
    <3>2. At(I, p + 1) \in I /\ i < At(I, p + 1) /\ At(I, p + 1) < j
      BY <1>1, <2>1, <2>2, <3>1
    <3> QED BY <1>4, <3>2
  <2>3. q = p + 1
    BY <1>1, <2>1, <2>2
  <2> QED BY <2>3 DEF p, q
<1> QED BY <1>3, <1>4 DEF m

(* an interval is its own numbering                                        *)
LEMMA PickWindow ==
    ASSUME NEW S, NEW f \in Seq(S), NEW a \in Nat \ {0}, NEW b \in Nat,
           a <= b + 1, b <= Len(f)
    PROVE  Pick(f, a .. b) = SubSeq(f, a, b)
<1>1. Len(f) \in Nat /\ a .. b \in SUBSET (1 .. Len(f))
  OBVIOUS
<1>2. Cardinality(a .. b) = b - a + 1
  <2>1. a \in Int /\ b \in Int
    OBVIOUS
  <2>2. Cardinality(a .. b) = IF a > b THEN 0 ELSE b - a + 1
    BY <2>1, FS_Interval
  <2> QED BY <2>2
<1>3. ASSUME NEW i \in a .. b PROVE Rank(a .. b, i) = i - a + 1
  <2>1. {j \in a .. b : j <= i} = a .. i
    OBVIOUS
  <2>2. a \in Int /\ i \in Int /\ a <= i
    OBVIOUS
  <2>3. Cardinality(a .. i) = i - a + 1
    BY <2>2, FS_Interval
  <2> QED BY <2>1, <2>3 DEF Rank
<1>4. ASSUME NEW k \in 1 .. b - a + 1 PROVE At(a .. b, k) = a + k - 1
  <2>1. a + k - 1 \in a .. b
    OBVIOUS
  <2>2. Rank(a .. b, a + k - 1) = k
    <3>1. Rank(a .. b, a + k - 1) = (a + k - 1) - a + 1
      BY <1>3, <2>1
    <3> QED BY <3>1
  <2>3. At(a .. b, Rank(a .. b, a + k - 1)) = a + k - 1
    BY <1>1, <2>1, Places
  <2> QED BY <2>2, <2>3
<1>5. Pick(f, a .. b) = [k \in 1 .. b - a + 1 |-> f[a + k - 1]]
  BY <1>2, <1>4 DEF Pick
<1> QED BY <1>5

(***************************************************************************)
(* What the tags of a file say, whatever they are: the lines that are not  *)
(* blank, one after the other                                              *)
(***************************************************************************)
NonBlank(f) == {i \in 1 .. Len(f) : f[i].tag # "blank"}

(* the line at i and the next one that is not blank, at j                  *)
NextTo(f, i, j) ==
    /\ i \in NonBlank(f) /\ j \in NonBlank(f) /\ i < j
    /\ \A x \in NonBlank(f) : ~ (i < x /\ x < j)

LEMMA Neighbours ==
    ASSUME NEW f \in Seq(Lines), NEW i \in NonBlank(f), NEW j \in NonBlank(f), i < j
    PROVE  /\ \E s \in NonBlank(f) : NextTo(f, i, s) /\ s <= j
           /\ \E p \in NonBlank(f) : NextTo(f, p, j) /\ i <= p
<1> DEFINE I == NonBlank(f)
           m == Cardinality(I)
           r(x) == Rank(I, x)
<1>1. Len(f) \in Nat /\ I \in SUBSET (1 .. Len(f)) /\ i \in I /\ j \in I
  BY DEF NonBlank
<1>2. /\ m \in Nat
      /\ \A x \in I : r(x) \in 1 .. m /\ At(I, r(x)) = x
      /\ \A k, l \in 1 .. m : k < l => At(I, k) < At(I, l)
  BY <1>1, Places
<1>3. \A k \in 1 .. m - 1 :
        /\ At(I, k) \in I /\ At(I, k + 1) \in I /\ At(I, k) < At(I, k + 1)
        /\ \A x \in I : ~ (At(I, k) < x /\ x < At(I, k + 1))
  BY <1>1, NextPlace
<1>4. i \in Nat /\ j \in Nat /\ r(i) < r(j)
  <2>1. i \in Nat /\ j \in Nat
    BY <1>1
  <2>2. r(i) < r(j)
    <3>1. \A x, y \in I : x < y => r(x) < r(y)
      BY <1>1, RankRises
    <3> QED BY <1>1, <3>1
  <2> QED BY <2>1, <2>2
<1>5. r(i) \in 1 .. m /\ r(j) \in 1 .. m /\ At(I, r(i)) = i /\ At(I, r(j)) = j
  BY <1>1, <1>2
<1>6. \A k \in 1 .. m - 1 : NextTo(f, At(I, k), At(I, k + 1))
  BY <1>3 DEF NextTo
<1> HIDE DEF I, m, r
<1>7. r(i) \in 1 .. m - 1 /\ r(j) - 1 \in 1 .. m - 1
  BY <1>2, <1>4, <1>5
<1>8. r(i) + 1 \in 1 .. m /\ r(j) - 1 \in 1 .. m /\ (r(j) - 1) + 1 = r(j)
  BY <1>2, <1>5, <1>7
<1>9. \A x \in I : x \in Nat
  BY <1>1
<1>10. NextTo(f, i, At(I, r(i) + 1)) /\ At(I, r(i) + 1) <= j
  <2>1. NextTo(f, At(I, r(i)), At(I, r(i) + 1))
    BY <1>6, <1>7
  <2>2. r(i) + 1 < r(j) \/ r(i) + 1 = r(j)
    BY <1>4, <1>5, <1>2
  <2>3. At(I, r(i) + 1) < j \/ At(I, r(i) + 1) = j
    BY <1>2, <1>5, <1>8, <2>2
  <2>4. At(I, r(i) + 1) \in Nat
    BY <1>3, <1>7, <1>9
  <2> QED BY <1>4, <1>5, <2>1, <2>3, <2>4
<1>11. NextTo(f, At(I, r(j) - 1), j) /\ i <= At(I, r(j) - 1)
  <2>1. NextTo(f, At(I, r(j) - 1), At(I, r(j)))
    <3>1. NextTo(f, At(I, r(j) - 1), At(I, (r(j) - 1) + 1))
      BY <1>6, <1>7
    <3> QED BY <1>8, <3>1
  <2>2. r(i) < r(j) - 1 \/ r(i) = r(j) - 1
    BY <1>4, <1>5, <1>2
  <2>3. i < At(I, r(j) - 1) \/ At(I, r(j) - 1) = i
    BY <1>2, <1>5, <1>8, <2>2
  <2>4. At(I, r(j) - 1) \in Nat
    BY <1>3, <1>7, <1>9
  <2> QED BY <1>4, <1>5, <2>1, <2>3, <2>4
<1> QED BY <1>10, <1>11 DEF NextTo

(* WellFormed, as a statement about the lines where they stand             *)
LEMMA Shape ==
    ASSUME NEW f \in Seq(Lines), WellFormed(f)
    PROVE  /\ \A i, j \in NonBlank(f) :
                  NextTo(f, i, j) => <<f[i].tag, f[j].tag>> \in Follows
           /\ \E h \in NonBlank(f) : f[h].tag = "head" /\ \A i \in NonBlank(f) : h <= i
           /\ \E e \in NonBlank(f) : f[e].tag = "foot" /\ \A i \in NonBlank(f) : i <= e
<1> DEFINE I == NonBlank(f)
           m == Cardinality(I)
           text == Pick(f, I)
<1>1. Len(f) \in Nat /\ I \in SUBSET (1 .. Len(f))
  BY DEF NonBlank
<1>2. /\ text \in Seq(Lines) /\ Len(text) = m /\ m \in Nat
      /\ \A k \in 1 .. m : text[k] = f[At(I, k)]
  BY <1>1, PickType
<1>3. /\ text # << >> /\ text[1].tag = "head" /\ text[Len(text)].tag = "foot"
      /\ \A k \in 1 .. Len(text) - 1 : <<text[k].tag, text[k + 1].tag>> \in Follows
  BY DEF WellFormed, NonBlank
<1>4. /\ \A k \in 1 .. m : At(I, k) \in I
      /\ \A k, l \in 1 .. m : k < l => At(I, k) < At(I, l)
      /\ \A i \in I : Rank(I, i) \in 1 .. m /\ At(I, Rank(I, i)) = i
  BY <1>1, Places
<1>5. \A i, j \in I : i < j /\ (\A x \in I : ~ (i < x /\ x < j))
          => Rank(I, j) = Rank(I, i) + 1
  BY <1>1, NextPlace
<1>6. m >= 1
  <2> HIDE DEF text, m
  <2> QED BY <1>2, <1>3
<1>7. ASSUME NEW i \in I, NEW j \in I, NextTo(f, i, j)
      PROVE  <<f[i].tag, f[j].tag>> \in Follows
  <2>1. Rank(I, j) = Rank(I, i) + 1
    BY <1>5, <1>7 DEF NextTo
  <2> DEFINE k == Rank(I, i)
  <2>2. k \in 1 .. m /\ k + 1 \in 1 .. m /\ At(I, k) = i /\ At(I, k + 1) = j
    BY <1>4, <2>1
  <2> HIDE DEF k, m, text, I
  <2>3. k \in 1 .. m - 1
    BY <1>2, <2>2
  <2>4. <<text[k].tag, text[k + 1].tag>> \in Follows
    BY <1>2, <1>3, <2>3
  <2> QED BY <1>2, <2>2, <2>4
<1>8. \A i \in I : i \in Nat
  BY <1>1
<1> HIDE DEF text, m, I
<1>9. ASSUME NEW i \in I, NEW k \in 1 .. m
      PROVE  /\ Rank(I, i) < k => i < At(I, k)
             /\ k < Rank(I, i) => At(I, k) < i
             /\ k = Rank(I, i) => At(I, k) = i
  BY <1>4
<1>10. ASSUME NEW i \in I PROVE At(I, 1) <= i /\ i <= At(I, m)
  <2>1. 1 \in 1 .. m /\ m \in 1 .. m
    BY <1>2, <1>6
  <2>2. Rank(I, i) \in 1 .. m
    BY <1>4
  <2>3. At(I, 1) \in Nat /\ At(I, m) \in Nat /\ i \in Nat
    BY <1>4, <1>8, <2>1
  <2>4. 1 < Rank(I, i) \/ 1 = Rank(I, i)
    BY <1>2, <2>2
  <2>5. Rank(I, i) < m \/ m = Rank(I, i)
    BY <1>2, <2>2
  <2>6. At(I, 1) < i \/ At(I, 1) = i
    BY <1>9, <2>1, <2>4
  <2>7. i < At(I, m) \/ At(I, m) = i
    BY <1>9, <2>1, <2>5
  <2> QED BY <2>3, <2>6, <2>7
<1>11. /\ At(I, 1) \in I /\ f[At(I, 1)].tag = "head"
       /\ At(I, m) \in I /\ f[At(I, m)].tag = "foot"
  <2>1. 1 \in 1 .. m /\ m \in 1 .. m
    BY <1>2, <1>6
  <2> QED BY <1>2, <1>3, <1>4, <2>1
<1>12. \E h \in I : f[h].tag = "head" /\ \A i \in I : h <= i
  BY <1>10, <1>11
<1>13. \E e \in I : f[e].tag = "foot" /\ \A i \in I : i <= e
  BY <1>10, <1>11
<1> QED BY <1>7, <1>12, <1>13 DEF I

(* a text without blank lines is its own picking                           *)
LEMMA ShapeSuffices ==
    ASSUME NEW t \in Seq(Lines), Len(t) >= 1,
           \A i \in 1 .. Len(t) : t[i].tag # "blank",
           t[1].tag = "head", t[Len(t)].tag = "foot",
           \A i \in 1 .. Len(t) - 1 : <<t[i].tag, t[i + 1].tag>> \in Follows
    PROVE  WellFormed(t)
<1>1. {i \in 1 .. Len(t) : t[i].tag # "blank"} = 1 .. Len(t)
  OBVIOUS
<1>2. Pick(t, 1 .. Len(t)) = SubSeq(t, 1, Len(t))
  <2>1. Len(t) \in Nat /\ 1 \in Nat \ {0} /\ 1 <= Len(t) + 1 /\ Len(t) <= Len(t)
    OBVIOUS
  <2> QED BY <2>1, PickWindow
<1>3. SubSeq(t, 1, Len(t)) = t
  OBVIOUS
<1>4. t # << >>
  OBVIOUS
<1> QED BY <1>1, <1>2, <1>3, <1>4 DEF WellFormed

OneOpen(f) ==
    \A i, j \in 1 .. Len(f) : f[i].tag = "open" /\ f[j].tag = "open" => i = j

(* the parts of a whole file: the head first, one <images>, and nothing    *)
(* but the foot below </images>                                            *)
LEMMA WholeFile ==
    ASSUME NEW f \in Seq(Lines), WellFormed(f)
    PROVE  /\ OneOpen(f)
           /\ \A i, j \in NonBlank(f) : f[j].tag = "head" => ~ (i < j)
           /\ \A i, j \in NonBlank(f) : f[i].tag = "close" /\ i < j => f[j].tag = "foot"
           /\ \A i \in NonBlank(f) : f[i].tag = "head" \/ f[i].tag = "open"
                  \/ \E o \in 1 .. i - 1 : f[o].tag = "open"
<1> DEFINE N == NonBlank(f)
<1>1. /\ \A i, j \in N : NextTo(f, i, j) => <<f[i].tag, f[j].tag>> \in Follows
      /\ \E h \in N : f[h].tag = "head" /\ \A i \in N : h <= i
      /\ \E e \in N : f[e].tag = "foot" /\ \A i \in N : i <= e
  BY Shape
<1>2. \A i, j \in N : i < j =>
          /\ \E s \in N : NextTo(f, i, s) /\ s <= j
          /\ \E p \in N : NextTo(f, p, j) /\ i <= p
  BY Neighbours
<1>3. /\ \A i \in N : i \in 1 .. Len(f) /\ i \in Nat
      /\ \A i \in 1 .. Len(f) : f[i].tag # "blank" => i \in N
  <2>1. Len(f) \in Nat
    OBVIOUS
  <2> QED BY <2>1 DEF NonBlank
<1>4. \A i, j \in N : NextTo(f, i, j) => i < j
  BY DEF NextTo
<1> HIDE DEF N
<1>5. \A i, j \in N : f[j].tag = "head" => ~ (i < j)
  <2>1. SUFFICES ASSUME NEW i \in N, NEW j \in N, f[j].tag = "head", i < j PROVE FALSE
    OBVIOUS
  <2>2. PICK p \in N : NextTo(f, p, j)
    BY <1>2, <2>1
  <2>3. <<f[p].tag, "head">> \in Follows
    BY <1>1, <2>1, <2>2
  <2> QED BY <2>3 DEF Follows
<1>6. \A i, j \in N : f[i].tag = "foot" => ~ (i < j)
  <2>1. SUFFICES ASSUME NEW i \in N, NEW j \in N, f[i].tag = "foot", i < j PROVE FALSE
    OBVIOUS
  <2>2. PICK s \in N : NextTo(f, i, s)
    BY <1>2, <2>1
  <2>3. <<"foot", f[s].tag>> \in Follows
    BY <1>1, <2>1, <2>2
  <2> QED BY <2>3 DEF Follows
<1>7. ASSUME NEW i \in N, NEW j \in N, f[i].tag = "close", i < j
      PROVE  f[j].tag = "foot"
  <2>1. PICK s \in N : NextTo(f, i, s) /\ s <= j
    BY <1>2, <1>7
  <2>2. <<"close", f[s].tag>> \in Follows
    BY <1>1, <1>7, <2>1
  <2>3. f[s].tag = "foot"
    BY <2>2 DEF Follows
  <2>4. ~ (s < j)
    BY <1>6, <2>3
  <2>5. s = j
    BY <1>3, <2>1, <2>4
  <2> QED BY <2>3, <2>5
<1>8. \A i, j \in N : f[i].tag = "open" /\ f[j].tag = "open" => ~ (i < j)
  <2>1. SUFFICES ASSUME NEW i \in N, NEW j \in N, f[i].tag = "open", f[j].tag = "open",
                        i < j
                 PROVE  FALSE
    OBVIOUS
  <2>2. PICK p \in N : NextTo(f, p, j) /\ i <= p
    BY <1>2, <2>1
  <2>3. <<f[p].tag, "open">> \in Follows
    BY <1>1, <2>1, <2>2
  <2>4. f[p].tag = "head"
    BY <2>3 DEF Follows
  <2>5. ~ (i < p)
    BY <1>5, <2>4
  <2>6. i = p
    BY <1>3, <2>2, <2>5
  <2> QED BY <2>1, <2>4, <2>6
<1>9. OneOpen(f)
  <2>1. SUFFICES ASSUME NEW i \in 1 .. Len(f), NEW j \in 1 .. Len(f),
                        f[i].tag = "open", f[j].tag = "open"
                 PROVE  i = j
    BY DEF OneOpen
  <2>2. i \in N /\ j \in N /\ i \in Nat /\ j \in Nat
    BY <1>3, <2>1
  <2>3. ~ (i < j) /\ ~ (j < i)
    BY <1>8, <2>1, <2>2
  <2> QED BY <2>2, <2>3
<1>10. ASSUME NEW i \in N, f[i].tag # "head", f[i].tag # "open"
       PROVE  \E o \in 1 .. i - 1 : f[o].tag = "open"
  <2>1. PICK h \in N : f[h].tag = "head" /\ h <= i
    BY <1>1
  <2>2. h < i
    BY <1>3, <1>10, <2>1
  <2>3. PICK s \in N : NextTo(f, h, s) /\ s <= i
    BY <1>2, <2>2
  <2>4. <<"head", f[s].tag>> \in Follows
    BY <1>1, <2>1, <2>3
  <2>5. f[s].tag = "open"
    BY <2>4 DEF Follows
  <2>6. s \in 1 .. Len(f) /\ s \in Nat /\ i \in Nat /\ s # i
    BY <1>3, <1>10, <2>5
  <2>7. s \in 1 .. i - 1
    BY <2>3, <2>6
  <2> QED BY <2>5, <2>7
<1> QED BY <1>5, <1>7, <1>9, <1>10 DEF N

(* the lines the filter copies stand together, whatever became of the file *)
LEMMA CopiedLines ==
    ASSUME NEW f \in Seq(Lines), OneOpen(f)
    PROVE  /\ Copied(f) \subseteq NonBlank(f) /\ Copied(f) \in SUBSET (1 .. Len(f))
           /\ \A i \in Copied(f) : f[i].tag \notin {"blank", "open", "close"}
           /\ \A i, j \in Copied(f), x \in NonBlank(f) : i < x /\ x < j => x \in Copied(f)
<1>1. Len(f) \in Nat
  OBVIOUS
<1>2. Copied(f) \subseteq NonBlank(f) /\ Copied(f) \in SUBSET (1 .. Len(f))
  BY DEF Copied, NonBlank
<1>3. ASSUME NEW i \in Copied(f) PROVE f[i].tag \notin {"blank", "open", "close"}
  <2>1. i \in 1 .. Len(f) /\ f[i].tag # "blank" /\ i \in Nat
    BY <1>1 DEF Copied
  <2>2. PICK o \in 1 .. i - 1 :
            f[o].tag = "open" /\ \A k \in o + 1 .. i : f[k].tag # "close"
    BY DEF Copied, Adding
  <2>3. o \in 1 .. Len(f) /\ o # i /\ i \in o + 1 .. i
    BY <1>1, <2>1
  <2> QED BY <2>1, <2>2, <2>3 DEF OneOpen
<1>4. ASSUME NEW i \in Copied(f), NEW j \in Copied(f), NEW x \in NonBlank(f), i < x, x < j
      PROVE  x \in Copied(f)
  <2>1. /\ i \in 1 .. Len(f) /\ j \in 1 .. Len(f) /\ x \in 1 .. Len(f)
        /\ f[x].tag # "blank"
    BY DEF Copied, NonBlank
  <2>2. PICK o \in 1 .. i - 1 : f[o].tag = "open"
    BY DEF Copied, Adding
  <2>3. PICK p \in 1 .. j - 1 :
            f[p].tag = "open" /\ \A k \in p + 1 .. j : f[k].tag # "close"
    BY DEF Copied, Adding
  <2>4. o \in 1 .. Len(f) /\ p \in 1 .. Len(f)
    BY <1>1, <2>1
  <2>5. o = p
    BY <2>2, <2>3, <2>4 DEF OneOpen
  <2>6. o \in 1 .. x - 1 /\ o + 1 .. x \subseteq p + 1 .. j
    BY <1>1, <1>4, <2>1, <2>5
  <2>7. Adding(f, x)
    BY <2>2, <2>3, <2>5, <2>6 DEF Adding
  <2> QED BY <2>1, <2>7 DEF Copied
<1> QED BY <1>2, <1>3, <1>4

LabelPlaces(f) == {i \in 1 .. Len(f) : f[i].tag \in LabelTags}

(* of a whole file the filter copies the label lines, and no other         *)
LEMMA CopiedAreLabels ==
    ASSUME NEW f \in Seq(Lines), WellFormed(f)
    PROVE  Copied(f) = LabelPlaces(f)
<1> DEFINE N == NonBlank(f)
<1>1. /\ Len(f) \in Nat
      /\ \A i \in N : i \in 1 .. Len(f) /\ i \in Nat /\ f[i].tag # "blank"
      /\ \A i \in 1 .. Len(f) : f[i].tag # "blank" => i \in N
  <2>1. Len(f) \in Nat
    OBVIOUS
  <2> QED BY <2>1 DEF NonBlank
<1>2. /\ OneOpen(f)
      /\ \A i, j \in N : f[j].tag = "head" => ~ (i < j)
      /\ \A i, j \in N : f[i].tag = "close" /\ i < j => f[j].tag = "foot"
      /\ \A i \in N : f[i].tag = "head" \/ f[i].tag = "open"
                  \/ \E o \in 1 .. i - 1 : f[o].tag = "open"
  BY WholeFile
<1>3. /\ Copied(f) \subseteq N /\ Copied(f) \in SUBSET (1 .. Len(f))
      /\ \A i \in Copied(f) : f[i].tag \notin {"blank", "open", "close"}
  BY <1>2, CopiedLines
<1>4. \A i, j \in N : NextTo(f, i, j) => <<f[i].tag, f[j].tag>> \in Follows
  BY Shape
<1>5. \A i, j \in N : i < j => \E p \in N : NextTo(f, p, j) /\ i <= p /\ p < j
  BY Neighbours DEF NextTo
<1> HIDE DEF N
<1>6. ASSUME NEW i \in Copied(f) PROVE i \in LabelPlaces(f)
  <2>1. PICK o \in 1 .. i - 1 :
            f[o].tag = "open" /\ \A k \in o + 1 .. i : f[k].tag # "close"
    BY DEF Copied, Adding
  <2>2. i \in N /\ i \in 1 .. Len(f) /\ i \in Nat
    BY <1>1, <1>3
  <2>3. o \in N /\ o < i /\ o \in Nat
    BY <1>1, <2>1, <2>2
  <2>4. f[i].tag # "head"
    BY <1>2, <2>2, <2>3
  <2>5. f[i].tag # "foot"
    <3>1. SUFFICES ASSUME f[i].tag = "foot" PROVE FALSE
      OBVIOUS
    <3>2. PICK p \in N : NextTo(f, p, i) /\ o <= p /\ p < i
      BY <1>5, <2>2, <2>3
    <3>3. <<f[p].tag, "foot">> \in Follows
      BY <1>4, <2>2, <3>1, <3>2
    <3>4. f[p].tag = "close"
      BY <3>3 DEF Follows
    <3>5. p \in Nat /\ p # o
      BY <1>1, <2>1, <3>4
    <3>6. p \in o + 1 .. i
      BY <2>2, <2>3, <3>2, <3>5
    <3> QED BY <2>1, <3>4, <3>6
  <2>6. f[i].tag \in Tags
    <3>1. f[i] \in Lines
      BY <2>2
    <3> QED BY <3>1 DEF Lines
  <2>7. f[i].tag \notin {"blank", "open", "close"}
    BY <1>3
  <2>8. f[i].tag \in LabelTags
    BY <2>4, <2>5, <2>6, <2>7 DEF Tags, LabelTags
  <2> QED BY <2>2, <2>8 DEF LabelPlaces
<1>7. ASSUME NEW i \in LabelPlaces(f) PROVE i \in Copied(f)
  <2>1. i \in 1 .. Len(f) /\ f[i].tag \in {"image", "box", "endimage"}
    BY DEF LabelPlaces, LabelTags
  <2>2. i \in N /\ i \in Nat
    BY <1>1, <2>1
  <2>3. PICK o \in 1 .. i - 1 : f[o].tag = "open"
    BY <1>2, <2>1, <2>2
  <2>4. ASSUME NEW k \in o + 1 .. i, f[k].tag = "close" PROVE FALSE
    <3>1. k \in 1 .. Len(f) /\ k <= i
      BY <1>1, <2>1
    <3>2. k \in N /\ k \in Nat /\ k # i
      BY <1>1, <2>1, <2>4, <3>1
    <3>3. k < i
      BY <2>2, <3>1, <3>2
    <3>4. f[i].tag = "foot"
      BY <1>2, <2>2, <2>4, <3>2, <3>3
    <3> QED BY <2>1, <3>4
  <2>5. Adding(f, i)
    BY <2>3, <2>4 DEF Adding
  <2> QED BY <2>1, <2>5 DEF Copied
<1> QED BY <1>6, <1>7

(* what the filter keeps of a whole file is a list of entries              *)
LEMMA KeptEntries ==
    ASSUME NEW f \in Seq(Lines), WellFormed(f), NEW k, k = Kept(f)
    PROVE  /\ \A a \in 1 .. Len(k) - 1 : <<k[a].tag, k[a + 1].tag>> \in Follows
           /\ Len(k) > 0 => k[1].tag = "image" /\ k[Len(k)].tag = "endimage"
<1> DEFINE N == NonBlank(f)
           C == Copied(f)
           m == Cardinality(C)
<1>1. /\ Len(f) \in Nat
      /\ \A i \in N : i \in 1 .. Len(f) /\ i \in Nat /\ f[i].tag # "blank"
      /\ \A i \in 1 .. Len(f) : f[i].tag # "blank" => i \in N
  <2>1. Len(f) \in Nat
    OBVIOUS
  <2> QED BY <2>1 DEF NonBlank
<1>2. OneOpen(f)
  BY WholeFile
<1>3. /\ C \subseteq N /\ C \in SUBSET (1 .. Len(f))
      /\ \A i, j \in C, x \in N : i < x /\ x < j => x \in C
  BY <1>2, CopiedLines
<1>4. C = LabelPlaces(f)
  BY CopiedAreLabels
<1>5. \A i, j \in N : NextTo(f, i, j) => <<f[i].tag, f[j].tag>> \in Follows
  BY Shape
<1>6. \A i, j \in N : i < j =>
          /\ \E s \in N : NextTo(f, i, s) /\ s <= j
          /\ \E p \in N : NextTo(f, p, j) /\ i <= p
  BY Neighbours
<1>7. /\ Len(k) = m /\ m \in Nat
      /\ \A a \in 1 .. m : k[a] = f[At(C, a)] /\ At(C, a) \in C
      /\ \A a, b \in 1 .. m : a < b => At(C, a) < At(C, b)
      /\ \A i \in C : Rank(C, i) \in 1 .. m /\ At(C, Rank(C, i)) = i
  <2>1. /\ Len(Pick(f, C)) = m
        /\ \A a \in 1 .. m : Pick(f, C)[a] = f[At(C, a)]
    BY <1>3, PickType
  <2>2. /\ m \in Nat
        /\ \A a \in 1 .. m : At(C, a) \in C
        /\ \A a, b \in 1 .. m : a < b => At(C, a) < At(C, b)
        /\ \A i \in C : Rank(C, i) \in 1 .. m /\ At(C, Rank(C, i)) = i
    BY <1>1, <1>3, Places
  <2>3. k = Pick(f, C)
    BY DEF Kept
  <2> HIDE DEF C, m
  <2> QED BY <2>1, <2>2, <2>3
<1>8. \A a \in 1 .. m - 1 :
        /\ At(C, a) \in C /\ At(C, a + 1) \in C /\ At(C, a) < At(C, a + 1)
        /\ \A x \in C : ~ (At(C, a) < x /\ x < At(C, a + 1))
  BY <1>1, <1>3, NextPlace
<1>9. /\ \E h \in N : f[h].tag = "head" /\ \A i \in N : h <= i
      /\ \E e \in N : f[e].tag = "foot" /\ \A i \in N : i <= e
  BY Shape
<1>10. \A i \in C : f[i].tag \in {"image", "box", "endimage"}
  BY <1>4 DEF LabelPlaces, LabelTags
<1>11. \A i \in C : \E o \in 1 .. i - 1 :
            f[o].tag = "open" /\ \A x \in o + 1 .. i : f[x].tag # "close"
  BY DEF Copied, Adding
<1>12. \A i, j : NextTo(f, i, j) => i \in N /\ j \in N /\ i < j
                     /\ \A x \in N : ~ (i < x /\ x < j)
  BY DEF NextTo
<1>13. \A i \in 1 .. Len(f) : f[i].tag \in {"image", "box", "endimage"} => i \in C
  BY <1>4 DEF LabelPlaces, LabelTags
<1> HIDE DEF N, C, m
<1>14. ASSUME NEW a \in 1 .. m - 1 PROVE <<k[a].tag, k[a + 1].tag>> \in Follows
  <2>1. a \in 1 .. m /\ a + 1 \in 1 .. m
    BY <1>7
  <2>2. /\ At(C, a) \in C /\ At(C, a + 1) \in C /\ At(C, a) < At(C, a + 1)
        /\ \A x \in C : ~ (At(C, a) < x /\ x < At(C, a + 1))
    BY <1>8
  <2>3. \A x \in N : ~ (At(C, a) < x /\ x < At(C, a + 1))
    BY <1>3, <2>2
  <2>4. At(C, a) \in N /\ At(C, a + 1) \in N
    BY <1>3, <2>2
  <2>5. NextTo(f, At(C, a), At(C, a + 1))
    BY <2>2, <2>3, <2>4 DEF NextTo, N
  <2>6. <<f[At(C, a)].tag, f[At(C, a + 1)].tag>> \in Follows
    BY <1>5, <2>4, <2>5
  <2> QED BY <1>7, <2>1, <2>6
<1>15. ASSUME m > 0 PROVE k[1].tag = "image"
  <2> DEFINE i == At(C, 1)
  <2>1. 1 \in 1 .. m
    BY <1>7, <1>15
  <2>2. i \in C /\ k[1] = f[i] /\ \A x \in C : ~ (x < i)
    <3>1. i \in C /\ k[1] = f[i]
      BY <1>7, <2>1
    <3>2. ASSUME NEW x \in C PROVE ~ (x < i)
      <4>1. Rank(C, x) \in 1 .. m /\ At(C, Rank(C, x)) = x
        BY <1>7
      <4>2. Rank(C, x) = 1 \/ 1 < Rank(C, x)
        BY <1>7, <4>1
      <4>3. x = i \/ i < x
        BY <1>7, <2>1, <4>1, <4>2
      <4>4. x \in Nat /\ i \in Nat
        BY <1>1, <1>3, <3>1
      <4> QED BY <4>3, <4>4
    <3> QED BY <3>1, <3>2
  <2> HIDE DEF i
  <2>3. PICK o \in 1 .. i - 1 :
            f[o].tag = "open" /\ \A x \in o + 1 .. i : f[x].tag # "close"
    BY <1>11, <2>2
  <2>4. i \in N /\ i \in Nat /\ i \in 1 .. Len(f)
    BY <1>1, <1>3, <2>2
  <2>5. o \in N /\ o < i /\ o \in Nat
    BY <1>1, <2>3, <2>4
  <2>6. PICK p \in N : NextTo(f, p, i) /\ o <= p
    BY <1>6, <2>4, <2>5
  <2>7. p \in Nat /\ p < i /\ p \in 1 .. Len(f) /\ f[p].tag # "blank"
    BY <1>1, <1>12, <2>6
  <2>8. p = o
    <3>1. SUFFICES ASSUME o < p PROVE FALSE
      BY <2>5, <2>6, <2>7
    <3>2. Adding(f, p)
      <4>1. o \in 1 .. p - 1 /\ o + 1 .. p \subseteq o + 1 .. i
        BY <2>4, <2>5, <2>7, <3>1
      <4> QED BY <2>3, <4>1 DEF Adding
    <3>3. p \in C
      BY <2>7, <3>2 DEF Copied, C
    <3> QED BY <2>2, <2>7, <3>3
  <2>9. <<"open", f[i].tag>> \in Follows
    BY <1>5, <2>3, <2>4, <2>6, <2>8
  <2>10. f[i].tag \in {"image", "box", "endimage"}
    BY <1>10, <2>2
  <2> QED BY <2>2, <2>9, <2>10 DEF Follows
<1>16. ASSUME m > 0 PROVE k[m].tag = "endimage"
  <2> DEFINE i == At(C, m)
  <2>1. m \in 1 .. m
    BY <1>7, <1>16
  <2>2. i \in C /\ k[m] = f[i] /\ \A x \in C : ~ (i < x)
    <3>1. i \in C /\ k[m] = f[i]
      BY <1>7, <2>1
    <3>2. ASSUME NEW x \in C PROVE ~ (i < x)
      <4>1. Rank(C, x) \in 1 .. m /\ At(C, Rank(C, x)) = x
        BY <1>7
      <4>2. Rank(C, x) = m \/ Rank(C, x) < m
        BY <1>7, <4>1
      <4>3. x = i \/ x < i
        BY <1>7, <2>1, <4>1, <4>2
      <4>4. x \in Nat /\ i \in Nat
        BY <1>1, <1>3, <3>1
      <4> QED BY <4>3, <4>4
    <3> QED BY <3>1, <3>2
  <2> HIDE DEF i
  <2>3. i \in N /\ i \in Nat /\ i \in 1 .. Len(f)
    BY <1>1, <1>3, <2>2
  <2>4. f[i].tag \in {"image", "box", "endimage"}
    BY <1>10, <2>2
  <2>5. PICK e \in N : f[e].tag = "foot" /\ \A x \in N : x <= e
    BY <1>9
  <2>6. i < e
    <3>1. i <= e /\ i # e /\ e \in Nat
      BY <1>1, <2>3, <2>4, <2>5
    <3> QED BY <2>3, <3>1
  <2>7. PICK s \in N : NextTo(f, i, s)
    BY <1>6, <2>3, <2>6
  <2>8. i < s /\ s \in 1 .. Len(f)
    BY <1>1, <1>12, <2>7
  <2>9. s \notin C
    BY <2>2, <2>8
  <2>10. f[s].tag \notin {"image", "box", "endimage"}
    BY <1>13, <2>8, <2>9
  <2>11. <<f[i].tag, f[s].tag>> \in Follows
    BY <1>5, <2>3, <2>7
  <2> QED BY <2>2, <2>4, <2>10, <2>11 DEF Follows
<1> QED BY <1>7, <1>14, <1>15, <1>16

(***************************************************************************)
(* The text of a save                                                      *)
(***************************************************************************)
ImageLine(i) == [Line("image") EXCEPT !.img = i]
BoxLine(b) == [Line("box") EXCEPT !.box = b]

LEMMA LineType ==
    /\ \A tag \in Tags : Line(tag) \in Lines /\ Line(tag).tag = tag
    /\ \A i \in Images : ImageLine(i) \in Lines /\ ImageLine(i).tag = "image"
                             /\ ImageLine(i).img = i
    /\ \A b \in Boxes : BoxLine(b) \in Lines /\ BoxLine(b).tag = "box"
                             /\ BoxLine(b).box = b
<1>1. 0 \in Images /\ NoBox \in Boxes
  BY ConstantsAssumption DEF Images, NoBox, Boxes
<1>2. "image" \in Tags /\ "box" \in Tags
  BY DEF Tags
<1> QED BY <1>1, <1>2 DEF Line, Lines, ImageLine, BoxLine

Joins(c, a, b) ==
    /\ c \in Seq(Lines) /\ Len(c) = Len(a) + Len(b)
    /\ \A x \in 1 .. Len(a) : c[x] = a[x]
    /\ \A x \in 1 .. Len(b) : c[Len(a) + x] = b[x]

LEMMA Joined ==
    ASSUME NEW a \in Seq(Lines), NEW b \in Seq(Lines)
    PROVE  Joins(a \o b, a, b)
<1> DEFINE c == a \o b
<1>1. Len(a) \in Nat /\ Len(b) \in Nat
  OBVIOUS
<1>2. /\ c \in Seq(Lines) /\ Len(c) = Len(a) + Len(b)
      /\ \A x \in 1 .. Len(a) + Len(b) :
            c[x] = IF x <= Len(a) THEN a[x] ELSE b[x - Len(a)]
  BY ConcatProperties
<1> HIDE DEF c
<1>3. ASSUME NEW x \in 1 .. Len(a) PROVE c[x] = a[x]
  <2>1. x \in 1 .. Len(a) + Len(b) /\ x <= Len(a)
    BY <1>1
  <2> QED BY <1>2, <2>1
<1>4. ASSUME NEW x \in 1 .. Len(b) PROVE c[Len(a) + x] = b[x]
  <2>1. /\ Len(a) + x \in 1 .. Len(a) + Len(b) /\ ~ (Len(a) + x <= Len(a))
        /\ (Len(a) + x) - Len(a) = x
    BY <1>1
  <2> QED BY <1>2, <2>1
<1>5. Joins(c, a, b)
  BY <1>2, <1>3, <1>4 DEF Joins
<1> QED BY <1>5 DEF c

(* an entry: the image, its boxes, and the end of it                       *)
LEMMA EntryLines ==
    ASSUME NEW i \in Images, NEW rects \in Seq(Boxes), NEW e, e = Entry(i, rects)
    PROVE  /\ e \in Seq(Lines) /\ Len(e) = Len(rects) + 2
           /\ e[1] = ImageLine(i)
           /\ \A b \in 1 .. Len(rects) : e[1 + b] = BoxLine(rects[b])
           /\ e[Len(rects) + 2] = Line("endimage")
<1> DEFINE boxes == [k \in 1 .. Len(rects) |-> BoxLine(rects[k])]
           first == <<ImageLine(i)>>
           last == <<Line("endimage")>>
           front == first \o boxes
<1>1. Len(rects) \in Nat
  OBVIOUS
<1>2. boxes \in Seq(Lines) /\ Len(boxes) = Len(rects)
  <2>1. \A k \in 1 .. Len(rects) : BoxLine(rects[k]) \in Lines
    BY LineType
  <2> QED BY <1>1, <2>1
<1>3. first \in Seq(Lines) /\ last \in Seq(Lines) /\ Len(first) = 1 /\ Len(last) = 1
  <2>1. ImageLine(i) \in Lines /\ "endimage" \in Tags
    BY LineType DEF Tags
  <2>2. Line("endimage") \in Lines
    BY <2>1, LineType
  <2> QED BY <2>1, <2>2
<1>4. \A b \in 1 .. Len(rects) : boxes[b] = BoxLine(rects[b])
  OBVIOUS
<1>5. first[1] = ImageLine(i) /\ last[1] = Line("endimage")
  OBVIOUS
<1>6. e = front \o last
  BY DEF Entry, ImageLine, BoxLine
<1> HIDE DEF boxes, first, last
<1>7. /\ front \in Seq(Lines) /\ Len(front) = Len(rects) + 1
      /\ front[1] = ImageLine(i)
      /\ \A b \in 1 .. Len(rects) : front[1 + b] = BoxLine(rects[b])
  <2>1. /\ front \in Seq(Lines) /\ Len(front) = 1 + Len(rects)
        /\ \A x \in 1 .. 1 : front[x] = first[x]
        /\ \A x \in 1 .. Len(rects) : front[1 + x] = boxes[x]
    <3>1. Joins(front, first, boxes)
      BY <1>2, <1>3, Joined
    <3> HIDE DEF front
    <3> QED BY <1>2, <1>3, <3>1 DEF Joins
  <2> QED BY <1>1, <1>4, <1>5, <2>1
<1> HIDE DEF front
<1>8. /\ e \in Seq(Lines) /\ Len(e) = (Len(rects) + 1) + 1
      /\ \A x \in 1 .. Len(rects) + 1 : e[x] = front[x]
      /\ \A x \in 1 .. 1 : e[(Len(rects) + 1) + x] = last[x]
  <2>1. Joins(e, front, last)
    BY <1>3, <1>6, <1>7, Joined
  <2> QED BY <1>3, <1>7, <2>1 DEF Joins
<1>9. /\ 1 \in 1 .. Len(rects) + 1 /\ \A b \in 1 .. Len(rects) : 1 + b \in 1 .. Len(rects) + 1
      /\ (Len(rects) + 1) + 1 = Len(rects) + 2 /\ 1 \in 1 .. 1
  BY <1>1
<1> QED BY <1>5, <1>7, <1>8, <1>9

IsText(t, kept, i, rects) ==
    /\ t \in Seq(Lines) /\ Len(t) = Len(kept) + Len(rects) + 6
    /\ t[1] = Line("head") /\ t[2] = Line("open")
    /\ \A k \in 1 .. Len(kept) : t[2 + k] = kept[k]
    /\ t[Len(kept) + 3] = ImageLine(i)
    /\ \A b \in 1 .. Len(rects) : t[Len(kept) + 3 + b] = BoxLine(rects[b])
    /\ t[Len(t) - 2] = Line("endimage")
    /\ t[Len(t) - 1] = Line("close") /\ t[Len(t)] = Line("foot")

LEMMA TextLines ==
    ASSUME NEW kept \in Seq(Lines), NEW i \in Images, NEW rects \in Seq(Boxes), NEW t,
           t = <<Line("head"), Line("open")>> \o kept \o Entry(i, rects)
                   \o <<Line("close"), Line("foot")>>
    PROVE  IsText(t, kept, i, rects)
<1> DEFINE e == Entry(i, rects)
           first == <<Line("head"), Line("open")>>
           last == <<Line("close"), Line("foot")>>
           a == first \o kept
           b == a \o e
           K == Len(kept)
           B == Len(rects)
<1>1. K \in Nat /\ B \in Nat
  OBVIOUS
<1>2. /\ e \in Seq(Lines) /\ Len(e) = B + 2
      /\ e[1] = ImageLine(i)
      /\ \A k \in 1 .. B : e[1 + k] = BoxLine(rects[k])
      /\ e[B + 2] = Line("endimage")
  BY EntryLines
<1>3. /\ first \in Seq(Lines) /\ Len(first) = 2
      /\ last \in Seq(Lines) /\ Len(last) = 2
      /\ first[1] = Line("head") /\ first[2] = Line("open")
      /\ last[1] = Line("close") /\ last[2] = Line("foot")
  <2>1. {"head", "open", "close", "foot"} \subseteq Tags
    BY DEF Tags
  <2>2. /\ Line("head") \in Lines /\ Line("open") \in Lines
        /\ Line("close") \in Lines /\ Line("foot") \in Lines
    BY <2>1, LineType
  <2> QED BY <2>2
<1>4. t = b \o last
  OBVIOUS
<1> HIDE DEF e, first, last
<1>5. /\ a \in Seq(Lines) /\ Len(a) = K + 2
      /\ a[1] = Line("head") /\ a[2] = Line("open")
      /\ \A k \in 1 .. K : a[2 + k] = kept[k]
  <2>1. /\ a \in Seq(Lines) /\ Len(a) = 2 + K
        /\ \A x \in 1 .. 2 : a[x] = first[x]
        /\ \A x \in 1 .. K : a[2 + x] = kept[x]
    <3>1. Joins(a, first, kept)
      BY <1>3, Joined
    <3> HIDE DEF a
    <3> QED BY <1>3, <3>1 DEF Joins
  <2>2. 1 \in 1 .. 2 /\ 2 \in 1 .. 2
    OBVIOUS
  <2> HIDE DEF a, K
  <2> QED BY <1>1, <1>3, <2>1, <2>2
<1> HIDE DEF a
<1>6. /\ b \in Seq(Lines) /\ Len(b) = K + B + 4
      /\ \A x \in 1 .. K + 2 : b[x] = a[x]
      /\ \A x \in 1 .. B + 2 : b[K + 2 + x] = e[x]
  <2>1. /\ b \in Seq(Lines) /\ Len(b) = Len(a) + Len(e)
        /\ \A x \in 1 .. Len(a) : b[x] = a[x]
        /\ \A x \in 1 .. Len(e) : b[Len(a) + x] = e[x]
    <3>1. Joins(b, a, e)
      BY <1>2, <1>5, Joined
    <3> HIDE DEF b
    <3> QED BY <3>1 DEF Joins
  <2> HIDE DEF b, K, B
  <2> QED BY <1>1, <1>2, <1>5, <2>1
<1>7. /\ b[1] = Line("head") /\ b[2] = Line("open")
      /\ \A k \in 1 .. K : b[2 + k] = kept[k]
  <2>1. 1 \in 1 .. K + 2 /\ 2 \in 1 .. K + 2 /\ \A k \in 1 .. K : 2 + k \in 1 .. K + 2
    BY <1>1
  <2> QED BY <1>5, <1>6, <2>1
<1>8. /\ b[K + 3] = ImageLine(i) /\ b[K + B + 4] = Line("endimage")
      /\ \A k \in 1 .. B : b[K + 3 + k] = BoxLine(rects[k])
  <2>1. /\ 1 \in 1 .. B + 2 /\ K + 2 + 1 = K + 3
        /\ B + 2 \in 1 .. B + 2 /\ K + 2 + (B + 2) = K + B + 4
        /\ \A k \in 1 .. B : 1 + k \in 1 .. B + 2 /\ K + 2 + (1 + k) = K + 3 + k
    BY <1>1
  <2>2. b[K + 2 + 1] = e[1] /\ b[K + 2 + (B + 2)] = e[B + 2]
    BY <1>6, <2>1
  <2>3. \A k \in 1 .. B : b[K + 2 + (1 + k)] = e[1 + k]
    BY <1>6, <2>1
  <2> QED BY <1>2, <2>1, <2>2, <2>3
<1> HIDE DEF b
<1>9. /\ t \in Seq(Lines) /\ Len(t) = K + B + 6
      /\ \A x \in 1 .. K + B + 4 : t[x] = b[x]
      /\ t[K + B + 5] = Line("close") /\ t[K + B + 6] = Line("foot")
  <2>1. /\ t \in Seq(Lines) /\ Len(t) = Len(b) + Len(last)
        /\ \A x \in 1 .. Len(b) : t[x] = b[x]
        /\ \A x \in 1 .. Len(last) : t[Len(b) + x] = last[x]
    <3>1. Joins(t, b, last)
      BY <1>3, <1>4, <1>6, Joined
    <3> QED BY <3>1 DEF Joins
  <2>2. /\ Len(b) = K + B + 4 /\ Len(last) = 2 /\ 1 \in 1 .. 2 /\ 2 \in 1 .. 2
        /\ (K + B + 4) + 1 = K + B + 5 /\ (K + B + 4) + 2 = K + B + 6
    BY <1>1, <1>3, <1>6
  <2> HIDE DEF K, B
  <2>3. t[Len(b) + 1] = last[1] /\ t[Len(b) + 2] = last[2]
    BY <2>1, <2>2
  <2> QED BY <1>3, <2>1, <2>2, <2>3
<1>10. /\ t[1] = Line("head") /\ t[2] = Line("open")
       /\ \A k \in 1 .. K : t[2 + k] = kept[k]
       /\ t[K + 3] = ImageLine(i)
       /\ \A k \in 1 .. B : t[K + 3 + k] = BoxLine(rects[k])
       /\ t[K + B + 4] = Line("endimage")
  <2>1. /\ 1 \in 1 .. K + B + 4 /\ 2 \in 1 .. K + B + 4
        /\ \A k \in 1 .. K : 2 + k \in 1 .. K + B + 4
        /\ K + 3 \in 1 .. K + B + 4 /\ K + B + 4 \in 1 .. K + B + 4
        /\ \A k \in 1 .. B : K + 3 + k \in 1 .. K + B + 4
    BY <1>1
  <2> QED BY <1>7, <1>8, <1>9, <2>1
<1>11. Len(t) - 2 = K + B + 4 /\ Len(t) - 1 = K + B + 5
  BY <1>1, <1>9
<1> QED BY <1>9, <1>10, <1>11 DEF IsText

(* each line of a text: one of its frame, one kept, or one of the entry    *)
LineOf(t, kept, i, rects, x) ==
    \/ x = 1 /\ t[x].tag = "head"
    \/ x = 2 /\ t[x].tag = "open"
    \/ \E k \in 1 .. Len(kept) : x = 2 + k /\ t[x] = kept[k]
    \/ x = Len(kept) + 3 /\ t[x].tag = "image" /\ t[x].img = i
    \/ \E b \in 1 .. Len(rects) :
          x = Len(kept) + 3 + b /\ t[x].tag = "box" /\ t[x].box = rects[b]
    \/ x = Len(t) - 2 /\ t[x].tag = "endimage"
    \/ x = Len(t) - 1 /\ t[x].tag = "close"
    \/ x = Len(t) /\ t[x].tag = "foot"

LEMMA TextPlaces ==
    ASSUME NEW kept \in Seq(Lines), NEW i \in Images, NEW rects \in Seq(Boxes), NEW t,
           IsText(t, kept, i, rects), NEW x \in 1 .. Len(t)
    PROVE  LineOf(t, kept, i, rects, x)
<1> DEFINE K == Len(kept)
           B == Len(rects)
<1>1. K \in Nat /\ B \in Nat /\ \A b \in 1 .. B : rects[b] \in Boxes
  OBVIOUS
<1>2. /\ Len(t) = K + B + 6
      /\ t[1] = Line("head") /\ t[2] = Line("open")
      /\ \A k \in 1 .. K : t[2 + k] = kept[k]
      /\ t[K + 3] = ImageLine(i)
      /\ \A b \in 1 .. B : t[K + 3 + b] = BoxLine(rects[b])
      /\ t[Len(t) - 2] = Line("endimage")
      /\ t[Len(t) - 1] = Line("close") /\ t[Len(t)] = Line("foot")
  BY DEF IsText
<1>3. {"head", "open", "endimage", "close", "foot"} \subseteq Tags
  BY DEF Tags
<1>4. /\ Line("head").tag = "head" /\ Line("open").tag = "open"
      /\ Line("endimage").tag = "endimage" /\ Line("close").tag = "close"
      /\ Line("foot").tag = "foot"
      /\ ImageLine(i).tag = "image" /\ ImageLine(i).img = i
      /\ \A b \in 1 .. B : BoxLine(rects[b]).tag = "box" /\ BoxLine(rects[b]).box = rects[b]
  BY <1>1, <1>3, LineType
<1>5. CASE x = 1 \/ x = 2 \/ x = K + 3 \/ x = Len(t) - 2 \/ x = Len(t) - 1 \/ x = Len(t)
  BY <1>2, <1>4, <1>5 DEF LineOf
<1>6. CASE x \in 3 .. K + 2
  <2>1. x - 2 \in 1 .. K /\ x = 2 + (x - 2)
    BY <1>1, <1>6
  <2> QED BY <1>2, <2>1 DEF LineOf
<1>7. CASE x \in K + 4 .. K + B + 3
  <2>1. x - (K + 3) \in 1 .. B /\ x = K + 3 + (x - (K + 3))
    BY <1>1, <1>7
  <2>2. t[x] = BoxLine(rects[x - (K + 3)])
    BY <1>2, <2>1
  <2> QED BY <1>4, <2>1, <2>2 DEF LineOf
<1>8. \/ x = 1 \/ x = 2 \/ x = K + 3 \/ x = Len(t) - 2 \/ x = Len(t) - 1 \/ x = Len(t)
      \/ x \in 3 .. K + 2 \/ x \in K + 4 .. K + B + 3
  <2>1. x \in 1 .. K + B + 6 /\ Len(t) = K + B + 6
    BY <1>2
  <2> HIDE DEF K, B
  <2> QED BY <1>1, <2>1
<1> QED BY <1>5, <1>6, <1>7, <1>8

(* the lines the filter keeps, and where the old file has them             *)
LEMMA KeptLines ==
    ASSUME NEW f \in Seq(Lines), OneOpen(f)
    PROVE  /\ Kept(f) \in Seq(Lines) /\ Len(Kept(f)) = Cardinality(Copied(f))
           /\ Len(Kept(f)) \in Nat
           /\ \A a \in 1 .. Len(Kept(f)) :
                 /\ At(Copied(f), a) \in Copied(f) /\ At(Copied(f), a) \in 1 .. Len(f)
                 /\ Kept(f)[a] = f[At(Copied(f), a)]
                 /\ Kept(f)[a].tag \notin {"blank", "open", "close"}
           /\ \A a, b \in 1 .. Len(Kept(f)) :
                 a < b => At(Copied(f), a) < At(Copied(f), b)
           /\ \A x \in Copied(f) : /\ Rank(Copied(f), x) \in 1 .. Len(Kept(f))
                                   /\ At(Copied(f), Rank(Copied(f), x)) = x
<1> DEFINE C == Copied(f)
           m == Cardinality(C)
<1>1. /\ Len(f) \in Nat /\ C \in SUBSET (1 .. Len(f))
      /\ \A x \in C : f[x].tag \notin {"blank", "open", "close"}
  BY CopiedLines
<1>2. /\ Pick(f, C) \in Seq(Lines) /\ Len(Pick(f, C)) = m
      /\ \A a \in 1 .. m : Pick(f, C)[a] = f[At(C, a)]
  BY <1>1, PickType
<1>3. /\ m \in Nat
      /\ \A a \in 1 .. m : At(C, a) \in C
      /\ \A a, b \in 1 .. m : a < b => At(C, a) < At(C, b)
      /\ \A x \in C : Rank(C, x) \in 1 .. m /\ At(C, Rank(C, x)) = x
  BY <1>1, Places
<1>4. Kept(f) = Pick(f, C)
  BY DEF Kept
<1> HIDE DEF C, m
<1>5. \A a \in 1 .. m : At(C, a) \in 1 .. Len(f) /\ f[At(C, a)].tag \notin {"blank", "open", "close"}
  BY <1>1, <1>3
<1> QED BY <1>2, <1>3, <1>4, <1>5 DEF C, m

(* a text has one <images>                                                 *)
LEMMA TextOneOpen ==
    ASSUME NEW f \in Seq(Lines), OneOpen(f), NEW i \in Images, NEW rects \in Seq(Boxes),
           NEW t, IsText(t, Kept(f), i, rects)
    PROVE  OneOpen(t)
<1>1. /\ Kept(f) \in Seq(Lines)
      /\ \A a \in 1 .. Len(Kept(f)) : Kept(f)[a].tag # "open"
  BY KeptLines
<1>2. ASSUME NEW x \in 1 .. Len(t), t[x].tag = "open" PROVE x = 2
  <2>1. LineOf(t, Kept(f), i, rects, x)
    BY <1>1, TextPlaces
  <2> QED BY <1>1, <1>2, <2>1 DEF LineOf
<1> QED BY <1>2 DEF OneOpen

(***************************************************************************)
(* Boxes                                                                   *)
(***************************************************************************)
BoxesBelow(f, d) == \A x \in 1 .. Len(f) : f[x].tag = "box" => f[x].box.id <= d
RectsBelow(rects, d) == \A k \in 1 .. Len(rects) : rects[k].id <= d
RectsDiffer(rects) == \A k, l \in 1 .. Len(rects) : rects[k].id = rects[l].id => k = l
Apart(f, rects) ==
    \A x \in 1 .. Len(f), k \in 1 .. Len(rects) :
        f[x].tag = "box" => f[x].box.id # rects[k].id

(* a box of a text is a box of the old file or one of the screen           *)
FromFile(f, t, x) ==
    \E k \in 1 .. Len(Kept(f)) :
        /\ x = 2 + k /\ At(Copied(f), k) \in 1 .. Len(f)
        /\ t[x] = f[At(Copied(f), k)]
FromScreen(f, rects, t, x) ==
    \E b \in 1 .. Len(rects) :
        x = Len(Kept(f)) + 3 + b /\ t[x].box = rects[b]

LEMMA TextBoxes ==
    ASSUME NEW f \in Seq(Lines), OneOpen(f), NEW i \in Images, NEW rects \in Seq(Boxes),
           NEW t, IsText(t, Kept(f), i, rects),
           NEW x \in 1 .. Len(t), t[x].tag = "box"
    PROVE  FromFile(f, t, x) \/ FromScreen(f, rects, t, x)
<1>1. /\ Kept(f) \in Seq(Lines)
      /\ \A a \in 1 .. Len(Kept(f)) : /\ At(Copied(f), a) \in 1 .. Len(f)
                                      /\ Kept(f)[a] = f[At(Copied(f), a)]
  BY KeptLines
<1>2. LineOf(t, Kept(f), i, rects, x)
  BY <1>1, TextPlaces
<1> QED BY <1>1, <1>2 DEF LineOf, FromFile, FromScreen

LEMMA TextBoxesDiffer ==
    ASSUME NEW f \in Seq(Lines), OneOpen(f), NEW i \in Images, NEW rects \in Seq(Boxes),
           NEW t, IsText(t, Kept(f), i, rects),
           BoxesDiffer(f), RectsDiffer(rects), Apart(f, rects)
    PROVE  BoxesDiffer(t)
<1>1. SUFFICES ASSUME NEW x \in 1 .. Len(t), NEW y \in 1 .. Len(t), x # y,
                      t[x].tag = "box", t[y].tag = "box"
               PROVE  t[x].box.id # t[y].box.id
  BY DEF BoxesDiffer
<1> DEFINE c(k) == At(Copied(f), k)
           K == Len(Kept(f))
           Old(z) == FromFile(f, t, z)
           New(z) == FromScreen(f, rects, t, z)
<1>2. (Old(x) \/ New(x)) /\ (Old(y) \/ New(y))
  BY <1>1, TextBoxes
<1>3. \A k, l \in 1 .. K : k < l => c(k) < c(l)
  BY KeptLines
<1>4. CASE Old(x) /\ Old(y)
  <2>1. PICK k \in 1 .. K : x = 2 + k /\ c(k) \in 1 .. Len(f) /\ t[x] = f[c(k)]
    BY <1>4 DEF FromFile
  <2>2. PICK l \in 1 .. K : y = 2 + l /\ c(l) \in 1 .. Len(f) /\ t[y] = f[c(l)]
    BY <1>4 DEF FromFile
  <2>3. k \in Int /\ l \in Int /\ k # l
    BY <1>1, <2>1, <2>2
  <2>4. c(k) # c(l)
    <3>1. c(k) < c(l) \/ c(l) < c(k)
      BY <1>3, <2>3
    <3>2. c(k) \in Int /\ c(l) \in Int
      BY <2>1, <2>2
    <3> QED BY <3>1, <3>2
  <2> QED BY <1>1, <2>1, <2>2, <2>4 DEF BoxesDiffer
<1>5. CASE Old(x) /\ New(y)
  BY <1>1, <1>5 DEF Apart, FromFile, FromScreen
<1>6. CASE New(x) /\ Old(y)
  BY <1>1, <1>6 DEF Apart, FromFile, FromScreen
<1>7. CASE New(x) /\ New(y)
  BY <1>1, <1>7 DEF RectsDiffer, FromScreen
<1> QED BY <1>2, <1>4, <1>5, <1>6, <1>7

LEMMA TextBoxesBelow ==
    ASSUME NEW f \in Seq(Lines), OneOpen(f), NEW i \in Images, NEW rects \in Seq(Boxes),
           NEW t, IsText(t, Kept(f), i, rects), NEW d,
           BoxesBelow(f, d), RectsBelow(rects, d)
    PROVE  BoxesBelow(t, d)
<1>1. SUFFICES ASSUME NEW x \in 1 .. Len(t), t[x].tag = "box"
               PROVE  t[x].box.id <= d
  BY DEF BoxesBelow
<1>2. FromFile(f, t, x) \/ FromScreen(f, rects, t, x)
  BY <1>1, TextBoxes
<1> QED BY <1>1, <1>2 DEF BoxesBelow, RectsBelow, FromFile, FromScreen

LEMMA TextUnderItsImage ==
    ASSUME NEW f \in Seq(Lines), OneOpen(f), NEW i \in Images, NEW rects \in Seq(Boxes),
           NEW t, IsText(t, Kept(f), i, rects),
           UnderItsImage(f), \A b \in 1 .. Len(rects) : rects[b].to = i
    PROVE  UnderItsImage(t)
<1> DEFINE c(k) == At(Copied(f), k)
           K == Len(Kept(f))
<1>1. SUFFICES ASSUME NEW x \in 1 .. Len(t), NEW y \in 1 .. Len(t),
                      x < y, t[x].tag = "image", t[y].tag = "box",
                      \A z \in x + 1 .. y - 1 : t[z].tag # "image"
               PROVE  t[x].img = t[y].box.to
  BY DEF UnderItsImage
<1>2. /\ Kept(f) \in Seq(Lines) /\ K \in Nat
      /\ \A a \in 1 .. K : c(a) \in Copied(f) /\ c(a) \in 1 .. Len(f) /\ Kept(f)[a] = f[c(a)]
      /\ \A a, b \in 1 .. K : a < b => c(a) < c(b)
      /\ \A z \in Copied(f) : /\ Rank(Copied(f), z) \in 1 .. K
                              /\ c(Rank(Copied(f), z)) = z
  BY KeptLines
<1>3. Len(rects) \in Nat /\ Len(t) \in Nat
  BY DEF IsText
<1>4. LineOf(t, Kept(f), i, rects, x)
  BY <1>2, TextPlaces
<1>5. /\ x = K + 3 /\ t[x].img = i
      \/ \E k \in 1 .. K : x = 2 + k /\ t[x] = Kept(f)[k]
  BY <1>1, <1>4 DEF LineOf
<1>6. FromFile(f, t, y) \/ FromScreen(f, rects, t, y)
  BY <1>1, TextBoxes
<1>7. CASE FromScreen(f, rects, t, y)
  <2>1. PICK b \in 1 .. Len(rects) : y = K + 3 + b /\ t[y].box = rects[b]
    BY <1>7 DEF FromScreen
  <2>2. ASSUME NEW k \in 1 .. K, x = 2 + k PROVE FALSE
    <3>1. K + 3 \in x + 1 .. y - 1
      <4> HIDE DEF K
      <4> QED BY <1>2, <1>3, <2>1, <2>2
    <3>2. t[K + 3].tag = "image"
      BY LineType DEF IsText
    <3> QED BY <1>1, <3>1, <3>2
  <2> QED BY <1>5, <2>1, <2>2
<1>8. CASE FromFile(f, t, y)
  <2>1. PICK b \in 1 .. K : y = 2 + b /\ t[y] = f[c(b)]
    BY <1>8 DEF FromFile
  <2>2. x # K + 3
    <3> HIDE DEF K
    <3> QED BY <1>1, <1>2, <2>1
  <2>3. PICK a \in 1 .. K : x = 2 + a /\ t[x] = f[c(a)]
    BY <1>2, <1>5, <2>2
  <2>4. a \in Int /\ b \in Int /\ a < b
    BY <1>1, <2>1, <2>3
  <2>5. c(a) < c(b) /\ f[c(a)].tag = "image" /\ f[c(b)].tag = "box"
    BY <1>1, <1>2, <2>1, <2>3, <2>4
  <2>6. /\ c(a) \in 1 .. Len(f) /\ c(b) \in 1 .. Len(f) /\ Len(f) \in Nat
        /\ c(a) \in Copied(f) /\ c(b) \in Copied(f)
    BY <1>2
  <2>7. ASSUME NEW z \in c(a) + 1 .. c(b) - 1, f[z].tag = "image" PROVE FALSE
    <3>1. c(a) < z /\ z < c(b) /\ z \in Int
      BY <2>6
    <3>2. z \in NonBlank(f)
      BY <2>6, <2>7 DEF NonBlank
    <3>3. z \in Copied(f)
      BY <2>6, <3>1, <3>2, CopiedLines
    <3> DEFINE r == Rank(Copied(f), z)
    <3>4. r \in 1 .. K /\ c(r) = z
      BY <1>2, <3>3
    <3> HIDE DEF r, c
    <3>5. r \in Int /\ ~ (r < a) /\ r # a /\ ~ (b < r) /\ r # b
      <4>1. r \in Int
        BY <3>4
      <4>2. (r < a => z < c(a)) /\ (b < r => c(b) < z)
        BY <1>2, <3>4
      <4>3. c(a) \in Int /\ c(b) \in Int
        BY <2>6
      <4> QED BY <3>1, <3>4, <4>1, <4>2, <4>3
    <3>6. 2 + r \in x + 1 .. y - 1
      BY <2>1, <2>3, <2>4, <3>5
    <3>7. t[2 + r] = Kept(f)[r]
      BY <3>4 DEF IsText
    <3>8. t[2 + r].tag = "image"
      BY <1>2, <2>7, <3>4, <3>7
    <3> QED BY <1>1, <3>6, <3>8
  <2>8. f[c(a)].img = f[c(b)].box.to
    BY <2>5, <2>6, <2>7 DEF UnderItsImage
  <2> QED BY <2>1, <2>3, <2>8
<1> QED BY <1>6, <1>7, <1>8

(***************************************************************************)
(* A save of a whole file                                                  *)
(***************************************************************************)
Whole(f) == f = << >> \/ WellFormed(f)

LEMMA WholeIsOpen ==
    ASSUME NEW f \in Seq(Lines), Whole(f)
    PROVE  OneOpen(f) /\ Copied(f) = LabelPlaces(f)
<1>1. CASE f = << >>
  <2>1. 1 .. Len(f) = {}
    BY <1>1
  <2> QED BY <2>1 DEF OneOpen, Copied, LabelPlaces
<1>2. CASE WellFormed(f)
  BY <1>2, WholeFile, CopiedAreLabels
<1> QED BY <1>1, <1>2 DEF Whole

LEMMA WholeKept ==
    ASSUME NEW f \in Seq(Lines), Whole(f), NEW k, k = Kept(f)
    PROVE  /\ \A a \in 1 .. Len(k) - 1 : <<k[a].tag, k[a + 1].tag>> \in Follows
           /\ Len(k) > 0 => k[1].tag = "image" /\ k[Len(k)].tag = "endimage"
<1>1. CASE f = << >>
  <2>1. Copied(f) = {}
    BY <1>1 DEF Copied
  <2>2. Len(k) = 0
    BY <2>1, WholeIsOpen, KeptLines, FS_EmptySet
  <2> QED BY <2>2
<1>2. CASE WellFormed(f)
  BY <1>2, KeptEntries
<1> QED BY <1>1, <1>2 DEF Whole

LEMMA TextWellFormed ==
    ASSUME NEW f \in Seq(Lines), Whole(f), NEW i \in Images, NEW rects \in Seq(Boxes),
           NEW t, IsText(t, Kept(f), i, rects)
    PROVE  WellFormed(t)
<1> DEFINE k == Kept(f)
           K == Len(k)
           B == Len(rects)
<1>1. /\ k \in Seq(Lines) /\ K \in Nat /\ B \in Nat
      /\ \A a \in 1 .. K : k[a].tag # "blank"
  BY WholeIsOpen, KeptLines
<1>2. /\ \A a \in 1 .. K - 1 : <<k[a].tag, k[a + 1].tag>> \in Follows
      /\ K > 0 => k[1].tag = "image" /\ k[K].tag = "endimage"
  BY WholeKept
<1>3. \A x \in 1 .. Len(t) : LineOf(t, k, i, rects, x)
  BY <1>1, TextPlaces
<1> HIDE DEF k
<1>4. t \in Seq(Lines) /\ Len(t) = K + B + 6
  BY DEF IsText, k
<1>5. /\ t[1].tag = "head" /\ t[2].tag = "open" /\ t[K + 3].tag = "image"
      /\ \A a \in 1 .. K : t[2 + a] = k[a]
      /\ \A b \in 1 .. B : t[K + 3 + b].tag = "box"
      /\ t[K + B + 4].tag = "endimage" /\ t[K + B + 5].tag = "close"
      /\ t[K + B + 6].tag = "foot"
  <2>1. {"head", "open", "endimage", "close", "foot"} \subseteq Tags
    BY DEF Tags
  <2>2. /\ Line("head").tag = "head" /\ Line("open").tag = "open"
        /\ Line("endimage").tag = "endimage" /\ Line("close").tag = "close"
        /\ Line("foot").tag = "foot"
        /\ ImageLine(i).tag = "image"
        /\ \A b \in 1 .. B : BoxLine(rects[b]).tag = "box"
    BY <2>1, LineType
  <2>3. Len(t) - 2 = K + B + 4 /\ Len(t) - 1 = K + B + 5
    BY <1>1, <1>4
  <2> QED BY <1>4, <2>2, <2>3 DEF IsText, k
<1> HIDE DEF K, B
<1>6. \A x \in 1 .. Len(t) : t[x].tag # "blank"
  BY <1>1, <1>3 DEF LineOf, K
<1>7. ASSUME NEW x \in 1 .. Len(t) - 1 PROVE <<t[x].tag, t[x + 1].tag>> \in Follows
  <2>1. CASE x = 1
    BY <1>5, <2>1 DEF Follows
  <2>2. CASE x = 2
    <3>1. t[3].tag = "image"
      <4>1. CASE K = 0
        BY <1>5, <4>1
      <4>2. CASE K > 0
        <5>1. 1 \in 1 .. K /\ 2 + 1 = 3
          BY <1>1, <4>2
        <5> QED BY <1>2, <1>5, <4>2, <5>1
      <4> QED BY <1>1, <4>1, <4>2
    <3> QED BY <1>5, <2>2, <3>1 DEF Follows
  <2>3. CASE x \in 3 .. K + 1
    <3>1. x - 2 \in 1 .. K - 1 /\ x - 2 \in 1 .. K /\ (x - 2) + 1 \in 1 .. K
          /\ 2 + (x - 2) = x /\ 2 + ((x - 2) + 1) = x + 1
      BY <1>1, <2>3
    <3>2. t[x] = k[x - 2] /\ t[x + 1] = k[(x - 2) + 1]
      <4>1. t[2 + (x - 2)] = k[x - 2] /\ t[2 + ((x - 2) + 1)] = k[(x - 2) + 1]
        BY <1>5, <3>1
      <4> QED BY <3>1, <4>1
    <3> QED BY <1>2, <3>1, <3>2
  <2>4. CASE x = K + 2 /\ K > 0
    <3>1. K \in 1 .. K /\ 2 + K = x /\ x + 1 = K + 3
      BY <1>1, <2>4
    <3>2. t[x] = k[K]
      BY <1>5, <3>1
    <3> QED BY <1>2, <1>5, <2>4, <3>1, <3>2 DEF Follows
  <2>5. CASE x = K + 3
    <3>1. t[K + 4].tag = IF B = 0 THEN "endimage" ELSE "box"
      <4>1. CASE B = 0
        BY <1>1, <1>5, <4>1
      <4>2. CASE B > 0
        <5>1. 1 \in 1 .. B /\ K + 3 + 1 = K + 4
          BY <1>1, <4>2
        <5> QED BY <1>5, <4>2, <5>1
      <4> QED BY <1>1, <4>1, <4>2
    <3>2. x + 1 = K + 4
      BY <1>1, <2>5
    <3> QED BY <1>5, <2>5, <3>1, <3>2 DEF Follows
  <2>6. CASE x \in K + 4 .. K + B + 2
    <3>1. /\ x - (K + 3) \in 1 .. B /\ x - (K + 2) \in 1 .. B
          /\ K + 3 + (x - (K + 3)) = x /\ K + 3 + (x - (K + 2)) = x + 1
      BY <1>1, <2>6
    <3>2. t[K + 3 + (x - (K + 3))].tag = "box" /\ t[K + 3 + (x - (K + 2))].tag = "box"
      BY <1>5, <3>1
    <3> QED BY <3>1, <3>2 DEF Follows
  <2>7. CASE x = K + B + 3 /\ B > 0
    <3>1. B \in 1 .. B /\ K + 3 + B = x /\ x + 1 = K + B + 4
      BY <1>1, <2>7
    <3>2. t[K + 3 + B].tag = "box"
      BY <1>5, <3>1
    <3> QED BY <1>5, <3>1, <3>2 DEF Follows
  <2>8. CASE x = K + B + 4
    <3>1. x + 1 = K + B + 5
      BY <1>1, <2>8
    <3> QED BY <1>5, <2>8, <3>1 DEF Follows
  <2>9. CASE x = K + B + 5
    <3>1. x + 1 = K + B + 6
      BY <1>1, <2>9
    <3> QED BY <1>5, <2>9, <3>1 DEF Follows
  <2>10. x \in 1 .. K + B + 5
    BY <1>1, <1>4
  <2>11. \/ x = 1 \/ x = 2 \/ x \in 3 .. K + 1 \/ (x = K + 2 /\ K > 0) \/ x = K + 3
         \/ x \in K + 4 .. K + B + 2 \/ (x = K + B + 3 /\ B > 0)
         \/ x = K + B + 4 \/ x = K + B + 5
    BY <1>1, <2>10
  <2> QED BY <2>1, <2>2, <2>3, <2>4, <2>5, <2>6, <2>7, <2>8, <2>9, <2>11
<1>8. Len(t) >= 1 /\ t[Len(t)].tag = "foot"
  BY <1>1, <1>4, <1>5
<1> QED BY <1>4, <1>5, <1>6, <1>7, <1>8, ShapeSuffices

(***************************************************************************)
(* The label lines of a text                                               *)
(***************************************************************************)
(* if the filter would keep just the label lines of the old file, it will  *)
(* keep just those of the text                                             *)
LEMMA TextCopied ==
    ASSUME NEW f \in Seq(Lines), OneOpen(f), Copied(f) = LabelPlaces(f),
           NEW i \in Images, NEW rects \in Seq(Boxes),
           NEW t, IsText(t, Kept(f), i, rects)
    PROVE  Copied(t) = 3 .. Len(t) - 2 /\ LabelPlaces(t) = 3 .. Len(t) - 2
<1> DEFINE k == Kept(f)
           K == Len(k)
           B == Len(rects)
<1>1. /\ k \in Seq(Lines) /\ K \in Nat /\ B \in Nat
      /\ \A a \in 1 .. K : At(Copied(f), a) \in Copied(f) /\ k[a] = f[At(Copied(f), a)]
  BY KeptLines
<1>2. \A a \in 1 .. K : k[a].tag \in LabelTags
  BY <1>1 DEF LabelPlaces
<1>3. \A x \in 1 .. Len(t) : LineOf(t, k, i, rects, x)
  BY <1>1, TextPlaces
<1>4. t \in Seq(Lines) /\ Len(t) = K + B + 6
  BY DEF IsText
<1> HIDE DEF k, K, B
<1>5. \A x \in 3 .. Len(t) - 2 : t[x].tag \in LabelTags
  <2>1. SUFFICES ASSUME NEW x \in 3 .. Len(t) - 2 PROVE t[x].tag \in LabelTags
    OBVIOUS
  <2>2. LineOf(t, k, i, rects, x)
    BY <1>1, <1>3, <1>4
  <2>3. x # 1 /\ x # 2 /\ x # Len(t) - 1 /\ x # Len(t)
    BY <1>1, <1>4
  <2> QED BY <1>2, <2>2, <2>3 DEF LineOf, LabelTags, K
<1>6. /\ t[1].tag = "head" /\ t[2].tag = "open"
      /\ t[Len(t) - 1].tag = "close" /\ t[Len(t)].tag = "foot"
  <2>1. {"head", "open", "close", "foot"} \subseteq Tags
    BY DEF Tags
  <2>2. /\ Line("head").tag = "head" /\ Line("open").tag = "open"
        /\ Line("close").tag = "close" /\ Line("foot").tag = "foot"
    BY <2>1, LineType
  <2> QED BY <2>2 DEF IsText
<1>7. \A x \in 1 .. Len(t) : x \in 3 .. Len(t) - 2 \/ x = 1 \/ x = 2
                                 \/ x = Len(t) - 1 \/ x = Len(t)
  BY <1>1, <1>4
<1>8. 3 .. Len(t) - 2 \subseteq 1 .. Len(t)
  BY <1>1, <1>4
<1>9. LabelPlaces(t) = 3 .. Len(t) - 2
  BY <1>5, <1>6, <1>7, <1>8 DEF LabelPlaces, LabelTags
<1>10. OneOpen(t)
  BY TextOneOpen DEF k
<1>11. ASSUME NEW x \in 3 .. Len(t) - 2 PROVE x \in Copied(t)
  <2>1. 2 \in 1 .. x - 1 /\ 2 + 1 .. x \subseteq 3 .. Len(t) - 2
    BY <1>1, <1>4
  <2>2. \A z \in 2 + 1 .. x : t[z].tag # "close"
    BY <1>5, <2>1 DEF LabelTags
  <2>3. Adding(t, x)
    BY <1>6, <2>1, <2>2 DEF Adding
  <2>4. t[x].tag # "blank"
    BY <1>5 DEF LabelTags
  <2> QED BY <1>8, <2>3, <2>4 DEF Copied
<1>12. ASSUME NEW x \in Copied(t) PROVE x \in 3 .. Len(t) - 2
  <2>1. x \in 1 .. Len(t) /\ t[x].tag \notin {"open", "close"}
    BY <1>4, <1>10, CopiedLines
  <2>2. PICK o \in 1 .. x - 1 :
            t[o].tag = "open" /\ \A z \in o + 1 .. x : t[z].tag # "close"
    BY DEF Copied, Adding
  <2>3. x # 1
    BY <2>2
  <2>4. o \in 1 .. Len(t) /\ 2 \in 1 .. Len(t)
    BY <1>1, <1>4, <2>1
  <2>5. o = 2
    BY <1>6, <1>10, <2>2, <2>4 DEF OneOpen
  <2>6. x # Len(t)
    <3>1. Len(t) - 1 \in 2 + 1 .. Len(t)
      BY <1>1, <1>4
    <3> QED BY <1>6, <2>2, <2>5, <3>1
  <2> QED BY <1>6, <1>7, <2>1, <2>3, <2>6
<1> QED BY <1>9, <1>11, <1>12

LEMMA TextLabels ==
    ASSUME NEW f \in Seq(Lines), OneOpen(f), Copied(f) = LabelPlaces(f),
           NEW i \in Images, NEW rects \in Seq(Boxes),
           NEW t, IsText(t, Kept(f), i, rects)
    PROVE  LabelLines(t) = LabelLines(f) \o Entry(i, rects)
<1> DEFINE k == Kept(f)
           e == Entry(i, rects)
           K == Len(k)
           B == Len(rects)
<1>1. k \in Seq(Lines) /\ K \in Nat /\ B \in Nat
  BY KeptLines
<1>2. t \in Seq(Lines) /\ Len(t) = K + B + 6
  BY DEF IsText
<1>3. /\ e \in Seq(Lines) /\ Len(e) = B + 2
      /\ e[1] = ImageLine(i)
      /\ \A b \in 1 .. B : e[1 + b] = BoxLine(rects[b])
      /\ e[B + 2] = Line("endimage")
  BY EntryLines
<1>4. LabelLines(f) = k
  BY DEF LabelLines, Kept, LabelPlaces
<1>5. LabelLines(t) = Pick(t, 3 .. Len(t) - 2)
  <2>1. LabelPlaces(t) = 3 .. Len(t) - 2
    BY TextCopied
  <2> QED BY <2>1 DEF LabelLines, LabelPlaces
<1>6. /\ \A a \in 1 .. K : t[2 + a] = k[a]
      /\ t[K + 3] = ImageLine(i)
      /\ \A b \in 1 .. B : t[K + 3 + b] = BoxLine(rects[b])
      /\ t[Len(t) - 2] = Line("endimage")
  BY DEF IsText
<1>7. Joins(k \o e, k, e)
  BY <1>1, <1>3, Joined
<1> DEFINE u == k \o e
           w == SubSeq(t, 3, Len(t) - 2)
<1>8. Pick(t, 3 .. Len(t) - 2) = w
  <2>1. /\ 3 \in Nat \ {0} /\ Len(t) - 2 \in Nat
        /\ 3 <= (Len(t) - 2) + 1 /\ Len(t) - 2 <= Len(t)
    BY <1>1, <1>2
  <2> QED BY <1>2, <2>1, PickWindow
<1> HIDE DEF k, e, u, K, B
<1>9. /\ w \in Seq(Lines) /\ Len(w) = K + B + 2
      /\ \A x \in 1 .. K + B + 2 : w[x] = t[x + 2]
  <2>1. /\ 3 \in Int /\ Len(t) - 2 \in Int /\ \A x \in 3 .. Len(t) - 2 : t[x] \in Lines
        /\ 3 <= Len(t) - 2 /\ (Len(t) - 2) - 3 + 1 = K + B + 2
    BY <1>1, <1>2
  <2>2. /\ w \in Seq(Lines) /\ Len(w) = (Len(t) - 2) - 3 + 1
        /\ \A x \in 1 .. (Len(t) - 2) - 3 + 1 : w[x] = t[3 + x - 1]
    <3> HIDE DEF w
    <3>1. /\ SubSeq(t, 3, Len(t) - 2) \in Seq(Lines)
          /\ Len(SubSeq(t, 3, Len(t) - 2)) = (Len(t) - 2) - 3 + 1
          /\ \A x \in 1 .. (Len(t) - 2) - 3 + 1 : SubSeq(t, 3, Len(t) - 2)[x] = t[3 + x - 1]
      BY <2>1, SubSeqProperties
    <3> QED BY <3>1 DEF w
  <2>3. \A x \in 1 .. K + B + 2 : 3 + x - 1 = x + 2
    OBVIOUS
  <2> HIDE DEF w
  <2> QED BY <2>1, <2>2, <2>3
<1>10. /\ u \in Seq(Lines) /\ Len(u) = K + (B + 2)
       /\ \A x \in 1 .. K : u[x] = k[x]
       /\ \A x \in 1 .. B + 2 : u[K + x] = e[x]
  BY <1>3, <1>7 DEF Joins, u, K
<1> HIDE DEF w
<1>11. ASSUME NEW x \in 1 .. K + B + 2 PROVE w[x] = u[x]
  <2>1. CASE x \in 1 .. K
    <3>1. x + 2 = 2 + x
      OBVIOUS
    <3> QED BY <1>6, <1>9, <1>10, <2>1, <3>1
  <2>2. CASE x = K + 1
    <3>1. x + 2 = K + 3 /\ 1 \in 1 .. B + 2
      BY <1>1, <2>2
    <3> QED BY <1>3, <1>6, <1>9, <1>10, <2>2, <3>1
  <2>3. CASE x \in K + 2 .. K + B + 1
    <3> DEFINE b == x - (K + 1)
    <3>1. /\ b \in 1 .. B /\ x + 2 = K + 3 + b
          /\ 1 + b \in 1 .. B + 2 /\ x = K + (1 + b)
      BY <1>1, <2>3
    <3> HIDE DEF b
    <3>2. u[K + (1 + b)] = e[1 + b]
      BY <1>10, <3>1
    <3> QED BY <1>3, <1>6, <1>9, <3>1, <3>2
  <2>4. CASE x = K + B + 2
    <3>1. /\ x + 2 = Len(t) - 2 /\ B + 2 \in 1 .. B + 2 /\ x = K + (B + 2)
      BY <1>1, <1>2, <2>4
    <3>2. u[K + (B + 2)] = e[B + 2]
      BY <1>10, <3>1
    <3> QED BY <1>3, <1>6, <1>9, <3>1, <3>2
  <2>5. x \in 1 .. K \/ x = K + 1 \/ x \in K + 2 .. K + B + 1 \/ x = K + B + 2
    BY <1>1
  <2> QED BY <2>1, <2>2, <2>3, <2>4, <2>5
<1>12. Len(w) = Len(u)
  BY <1>1, <1>9, <1>10
<1>13. w = u
  BY <1>9, <1>10, <1>11, <1>12, SeqEqual
<1> QED BY <1>4, <1>5, <1>8, <1>13 DEF u, e

(***************************************************************************)
(* A cut write leaves a beginning of the text                              *)
(***************************************************************************)
Beginning(g, t) ==
    /\ g \in Seq(Lines) /\ Len(g) <= Len(t)
    /\ \A x \in 1 .. Len(g) : g[x] = t[x]

LEMMA Cut ==
    ASSUME NEW t \in Seq(Lines), NEW n \in 0 .. Len(t)
    PROVE  Beginning(SubSeq(t, 1, n), t)
<1>1. /\ Len(t) \in Nat /\ n \in Nat /\ 1 \in Int /\ n \in Int
      /\ \A x \in 1 .. n : t[x] \in Lines
  OBVIOUS
<1>2. /\ SubSeq(t, 1, n) \in Seq(Lines)
      /\ Len(SubSeq(t, 1, n)) = (IF 1 <= n THEN n - 1 + 1 ELSE 0)
      /\ \A x \in 1 .. n - 1 + 1 : SubSeq(t, 1, n)[x] = t[1 + x - 1]
  BY <1>1, SubSeqProperties
<1>3. Len(SubSeq(t, 1, n)) = n /\ n - 1 + 1 = n /\ \A x \in 1 .. n : 1 + x - 1 = x
  BY <1>1, <1>2
<1> QED BY <1>1, <1>2, <1>3 DEF Beginning

LEMMA BeginningKeeps ==
    ASSUME NEW t \in Seq(Lines), NEW g, Beginning(g, t)
    PROVE  /\ OneOpen(t) => OneOpen(g)
           /\ BoxesDiffer(t) => BoxesDiffer(g)
           /\ UnderItsImage(t) => UnderItsImage(g)
           /\ \A d : BoxesBelow(t, d) => BoxesBelow(g, d)
           /\ Copied(t) = LabelPlaces(t) => Copied(g) = LabelPlaces(g)
<1>1. /\ Len(t) \in Nat /\ Len(g) \in Nat /\ 1 .. Len(g) \subseteq 1 .. Len(t)
      /\ \A x \in 1 .. Len(g) : g[x] = t[x]
  BY DEF Beginning
<1>2. OneOpen(t) => OneOpen(g)
  BY <1>1 DEF OneOpen
<1>3. BoxesDiffer(t) => BoxesDiffer(g)
  BY <1>1 DEF BoxesDiffer
<1>4. ASSUME UnderItsImage(t), NEW x \in 1 .. Len(g), NEW y \in 1 .. Len(g),
             x < y, g[x].tag = "image", g[y].tag = "box",
             \A z \in x + 1 .. y - 1 : g[z].tag # "image"
      PROVE  g[x].img = g[y].box.to
  <2>1. x + 1 .. y - 1 \subseteq 1 .. Len(g)
    BY <1>1
  <2>2. \A z \in x + 1 .. y - 1 : t[z].tag # "image"
    BY <1>1, <1>4, <2>1
  <2>3. /\ x \in 1 .. Len(t) /\ y \in 1 .. Len(t)
        /\ t[x].tag = "image" /\ t[y].tag = "box"
    BY <1>1, <1>4
  <2>4. t[x].img = t[y].box.to
    BY <1>4, <2>2, <2>3 DEF UnderItsImage
  <2> QED BY <1>1, <2>4
<1>5. \A d : BoxesBelow(t, d) => BoxesBelow(g, d)
  BY <1>1 DEF BoxesBelow
<1>6. ASSUME Copied(t) = LabelPlaces(t) PROVE Copied(g) = LabelPlaces(g)
  <2>1. ASSUME NEW x \in 1 .. Len(g)
        PROVE  Adding(g, x) <=> Adding(t, x)
    <3>1. 1 .. x \subseteq 1 .. Len(g)
      BY <1>1
    <3>2. \A o \in 1 .. x - 1 : o \in 1 .. x /\ o + 1 .. x \subseteq 1 .. x
      BY <1>1
    <3>3. \A z \in 1 .. x : g[z] = t[z]
      BY <1>1, <3>1
    <3>4. ASSUME NEW o \in 1 .. x - 1
          PROVE  /\ g[o] = t[o]
                 /\ (\A z \in o + 1 .. x : g[z].tag # "close")
                        <=> (\A z \in o + 1 .. x : t[z].tag # "close")
      BY <3>2, <3>3
    <3> QED BY <3>4 DEF Adding
  <2>2. ASSUME NEW x \in 1 .. Len(g) PROVE x \in Copied(g) <=> x \in LabelPlaces(g)
    <3>1. x \in Copied(g) <=> x \in Copied(t)
      BY <1>1, <2>1 DEF Copied
    <3>2. x \in LabelPlaces(g) <=> x \in LabelPlaces(t)
      BY <1>1 DEF LabelPlaces
    <3> QED BY <1>6, <3>1, <3>2
  <2>3. Copied(g) \subseteq 1 .. Len(g) /\ LabelPlaces(g) \subseteq 1 .. Len(g)
    BY DEF Copied, LabelPlaces
  <2> QED BY <2>2, <2>3
<1>7. UnderItsImage(t) => UnderItsImage(g)
  BY <1>4 DEF UnderItsImage
<1> QED BY <1>2, <1>3, <1>5, <1>6, <1>7

(***************************************************************************)
(* The invariant                                                           *)
(***************************************************************************)
(* box numbers: none in the file or on the screen was not drawn yet, and   *)
(* no two on the screen are equal                                          *)
Numbered ==
    /\ BoxesBelow(file, drawn) /\ RectsBelow(allRects, drawn)
    /\ RectsDiffer(allRects)

(* the boxes on the screen belong to the image on display                  *)
DrawnHere == \A k \in 1 .. Len(allRects) : allRects[k].to = currentIndex

(* even of a torn file the filter keeps the label lines, and no other      *)
LabelsTogether == OneOpen(file) /\ Copied(file) = LabelPlaces(file)

TornIsFailed == torn => failed

LabelInv ==
    /\ TypeOK /\ Numbered /\ DrawnHere /\ LabelsTogether /\ TornIsFailed
    /\ BoxesSavedOnce /\ BoxesUnderTheirImage
    /\ FileStaysWellFormed /\ SavedUnlessWriteFails

LEMMA InitLabels == Init => LabelInv
<1> SUFFICES ASSUME Init PROVE LabelInv
  OBVIOUS
<1>1. /\ file \in Seq(Lines) /\ Whole(file) /\ UnderItsImage(file) /\ BoxesDiffer(file)
      /\ \A x \in 1 .. Len(file) : file[x].box.id <= 0
  BY InitialFilesAssumption DEF Init, Whole
<1>2. OneOpen(file) /\ Copied(file) = LabelPlaces(file)
  BY <1>1, WholeIsOpen
<1>3. /\ running = TRUE /\ currentIndex = 0 /\ startPoint = 0 /\ allRects = << >>
      /\ drawn = 0 /\ saves = 0 /\ asked = LabelLines(file) /\ lastWrite = "written"
      /\ torn = FALSE /\ failed = FALSE
  BY DEF Init
<1>4. TypeOK
  <2>1. 0 \in Images /\ 0 \in 0 .. MaxBoxes /\ 0 \in 0 .. MaxSaves
    BY ConstantsAssumption DEF Images
  <2>2. asked \in Seq(Lines)
    <3>1. LabelPlaces(file) \in SUBSET (1 .. Len(file))
      BY DEF LabelPlaces
    <3>2. Pick(file, LabelPlaces(file)) \in Seq(Lines)
      BY <1>1, <3>1, PickType
    <3> QED BY <1>3, <3>2 DEF LabelLines, LabelPlaces
  <2>3. allRects \in Seq(Boxes)
    BY <1>3
  <2> QED BY <1>1, <1>3, <2>1, <2>2, <2>3 DEF TypeOK
<1>5. Len(allRects) = 0
  BY <1>3
<1>6. Numbered /\ DrawnHere /\ BoxesSavedOnce
  BY <1>1, <1>3, <1>5
     DEF Numbered, DrawnHere, BoxesSavedOnce, BoxesBelow, RectsBelow, RectsDiffer
<1>7. LabelsTogether /\ TornIsFailed /\ BoxesUnderTheirImage
      /\ FileStaysWellFormed /\ SavedUnlessWriteFails
  BY <1>1, <1>2, <1>3
     DEF LabelsTogether, TornIsFailed, BoxesUnderTheirImage, FileStaysWellFormed,
         SavedUnlessWriteFails, Whole
<1> QED BY <1>4, <1>6, <1>7 DEF LabelInv

LEMMA TextIsText ==
    ASSUME TypeOK, OneOpen(file)
    PROVE  IsText(Text, Kept(file), currentIndex, allRects)
<1>1. Kept(file) \in Seq(Lines) /\ currentIndex \in Images /\ allRects \in Seq(Boxes)
  BY KeptLines DEF TypeOK
<1>2. Text = <<Line("head"), Line("open")>> \o Kept(file)
                \o Entry(currentIndex, allRects) \o <<Line("close"), Line("foot")>>
  BY DEF Text
<1> QED BY <1>1, <1>2, TextLines

(* what a write leaves in the file, whatever becomes of it                 *)
LEMMA AfterWrite ==
    ASSUME LabelInv, NEW outcome, Write(outcome)
    PROVE  /\ file' \in Seq(Lines)
           /\ BoxesBelow(file', drawn) /\ BoxesDiffer(file') /\ UnderItsImage(file')
           /\ OneOpen(file') /\ Copied(file') = LabelPlaces(file')
           /\ outcome = "written" \/ outcome = "refused" \/ outcome = "cut" \/ outcome = "died"
           /\ outcome = "refused" => file' = file
           /\ outcome = "written" =>
                 LabelLines(file') = LabelLines(file) \o Entry(currentIndex, allRects)
           /\ outcome = "written" /\ Whole(file) => WellFormed(file')
<1> DEFINE t == Text
<1>1. /\ file \in Seq(Lines) /\ currentIndex \in Images /\ allRects \in Seq(Boxes)
      /\ BoxesBelow(file, drawn) /\ RectsBelow(allRects, drawn) /\ RectsDiffer(allRects)
      /\ BoxesDiffer(file) /\ UnderItsImage(file) /\ Apart(file, allRects)
      /\ OneOpen(file) /\ Copied(file) = LabelPlaces(file)
      /\ \A k \in 1 .. Len(allRects) : allRects[k].to = currentIndex
  BY DEF LabelInv, TypeOK, Numbered, DrawnHere, LabelsTogether, BoxesSavedOnce,
         BoxesUnderTheirImage, Apart
<1>2. IsText(t, Kept(file), currentIndex, allRects)
  BY <1>1, TextIsText DEF LabelInv
<1>3. t \in Seq(Lines)
  BY <1>2 DEF IsText
<1> HIDE DEF t
<1>4. OneOpen(t) /\ BoxesDiffer(t) /\ UnderItsImage(t) /\ BoxesBelow(t, drawn)
  <2>1. OneOpen(t)
    BY <1>1, <1>2, TextOneOpen
  <2>2. BoxesDiffer(t)
    BY <1>1, <1>2, TextBoxesDiffer
  <2>3. UnderItsImage(t)
    BY <1>1, <1>2, TextUnderItsImage
  <2>4. BoxesBelow(t, drawn)
    BY <1>1, <1>2, TextBoxesBelow
  <2> QED BY <2>1, <2>2, <2>3, <2>4
<1>5. Copied(t) = LabelPlaces(t)
  <2>1. Copied(t) = 3 .. Len(t) - 2 /\ LabelPlaces(t) = 3 .. Len(t) - 2
    BY <1>1, <1>2, TextCopied
  <2> QED BY <2>1
<1>6. LabelLines(t) = LabelLines(file) \o Entry(currentIndex, allRects)
  BY <1>1, <1>2, TextLabels
<1>7. Whole(file) => WellFormed(t)
  BY <1>1, <1>2, TextWellFormed
<1>8. CASE outcome = "written" /\ file' = Text
  <2>1. file' = t
    BY <1>8 DEF t
  <2> QED BY <1>3, <1>4, <1>5, <1>6, <1>7, <1>8, <2>1
<1>9. CASE outcome = "refused" /\ UNCHANGED file
  <2>1. file' = file /\ outcome = "refused"
    BY <1>9
  <2> QED BY <1>1, <2>1
<1>10. CASE /\ outcome \in {"cut", "died"}
            /\ \E n \in 0 .. Len(Text) - 1 : file' = SubSeq(Text, 1, n)
  <2>1. PICK n \in 0 .. Len(t) - 1 : file' = SubSeq(t, 1, n)
    BY <1>10 DEF t
  <2>2. n \in 0 .. Len(t)
    BY <1>3
  <2>3. Beginning(file', t)
    BY <1>3, <2>1, <2>2, Cut
  <2>4. file' \in Seq(Lines)
    BY <2>3 DEF Beginning
  <2>5. /\ OneOpen(t) => OneOpen(file')
        /\ BoxesDiffer(t) => BoxesDiffer(file')
        /\ UnderItsImage(t) => UnderItsImage(file')
        /\ BoxesBelow(t, drawn) => BoxesBelow(file', drawn)
        /\ Copied(t) = LabelPlaces(t) => Copied(file') = LabelPlaces(file')
    BY <1>3, <2>3, BeginningKeeps
  <2> QED BY <1>4, <1>5, <1>10, <2>4, <2>5
<1> QED BY <1>8, <1>9, <1>10 DEF Write

LEMMA KeyNKeeps ==
    ASSUME LabelInv, NEW outcome \in Outcomes, keyN(outcome)
    PROVE  LabelInv'
<1>1. /\ running \in BOOLEAN /\ torn \in BOOLEAN /\ failed \in BOOLEAN
      /\ currentIndex \in Images /\ startPoint \in Images
      /\ allRects \in Seq(Boxes) /\ asked \in Seq(Lines)
      /\ drawn \in 0 .. MaxBoxes /\ saves \in 0 .. MaxSaves
      /\ (~ torn => Whole(file)) /\ (~ failed => LabelLines(file) = asked)
      /\ (torn => failed)
  BY DEF LabelInv, TypeOK, FileStaysWellFormed, SavedUnlessWriteFails, TornIsFailed, Whole
<1>2. /\ running' = (outcome # "died") /\ allRects' = << >> /\ saves < MaxSaves
      /\ saves' = saves + 1
      /\ currentIndex' = Clamp(currentIndex + 1)
      /\ asked' = asked \o Entry(currentIndex, allRects)
      /\ lastWrite' = outcome
      /\ torn' = (torn \/ outcome \in {"cut", "died"})
      /\ failed' = (failed \/ outcome # "written")
      /\ startPoint' = startPoint /\ drawn' = drawn
      /\ Write(outcome)
  BY DEF keyN, saveRects, Write
<1>3. /\ file' \in Seq(Lines)
      /\ BoxesBelow(file', drawn) /\ BoxesDiffer(file') /\ UnderItsImage(file')
      /\ OneOpen(file') /\ Copied(file') = LabelPlaces(file')
      /\ outcome = "written" \/ outcome = "refused" \/ outcome = "cut" \/ outcome = "died"
      /\ outcome = "refused" => file' = file
      /\ outcome = "written" =>
            LabelLines(file') = LabelLines(file) \o Entry(currentIndex, allRects)
      /\ outcome = "written" /\ Whole(file) => WellFormed(file')
  BY <1>2, AfterWrite
<1>4. TypeOK'
  <2>1. currentIndex' \in Images
    BY <1>1, <1>2, ConstantsAssumption DEF Clamp, Images
  <2>2. asked' \in Seq(Lines)
    <3>1. Entry(currentIndex, allRects) \in Seq(Lines)
      BY <1>1, EntryLines
    <3> QED BY <1>1, <1>2, <3>1
  <2>3. saves' \in 0 .. MaxSaves
    BY <1>1, <1>2, ConstantsAssumption
  <2>4. running' \in BOOLEAN /\ torn' \in BOOLEAN /\ failed' \in BOOLEAN
    BY <1>2
  <2>5. startPoint' \in Images /\ drawn' \in 0 .. MaxBoxes /\ allRects' \in Seq(Boxes)
    BY <1>1, <1>2
  <2> QED BY <1>2, <1>3, <2>1, <2>2, <2>3, <2>4, <2>5 DEF TypeOK
<1>5. Len(allRects') = 0
  BY <1>2
<1>6. (Numbered /\ DrawnHere /\ BoxesSavedOnce)'
  BY <1>2, <1>3, <1>5 DEF Numbered, DrawnHere, BoxesSavedOnce, RectsBelow, RectsDiffer
<1>7. (LabelsTogether /\ BoxesUnderTheirImage)'
  BY <1>3 DEF LabelsTogether, BoxesUnderTheirImage
<1>8. TornIsFailed'
  BY <1>1, <1>2 DEF TornIsFailed
<1>9. FileStaysWellFormed'
  BY <1>1, <1>2, <1>3 DEF FileStaysWellFormed, Whole
<1>10. SavedUnlessWriteFails'
  BY <1>1, <1>2, <1>3 DEF SavedUnlessWriteFails
<1> QED BY <1>4, <1>6, <1>7, <1>8, <1>9, <1>10 DEF LabelInv

(* a drag, x, an arrow key or a restart: the file is not touched           *)
LEMMA ScreenKeeps ==
    ASSUME LabelInv, TypeOK',
           UNCHANGED <<file, saves, asked, lastWrite, torn, failed>>,
           drawn <= drawn',
           RectsBelow(allRects', drawn'), RectsDiffer(allRects'), Apart(file, allRects'),
           \A k \in 1 .. Len(allRects') : allRects'[k].to = currentIndex'
    PROVE  LabelInv'
<1>1. BoxesBelow(file, drawn')
  <2>1. /\ BoxesBelow(file, drawn) /\ drawn \in Nat /\ drawn' \in Nat
        /\ file \in Seq(Lines)
    BY DEF LabelInv, Numbered, TypeOK
  <2>2. ASSUME NEW x \in 1 .. Len(file), file[x].tag = "box"
        PROVE  file[x].box.id <= drawn'
    <3>1. file[x] \in Lines
      BY <2>1
    <3>2. file[x].box.id \in Int
      BY <3>1 DEF Lines, Boxes
    <3>3. file[x].box.id <= drawn
      BY <2>1, <2>2 DEF BoxesBelow
    <3> QED BY <2>1, <3>2, <3>3
  <2> QED BY <2>2 DEF BoxesBelow
<1> QED BY <1>1
        DEF LabelInv, Numbered, DrawnHere, LabelsTogether, TornIsFailed, BoxesSavedOnce,
            BoxesUnderTheirImage, FileStaysWellFormed, SavedUnlessWriteFails, Apart

LEMMA NextKeeps == LabelInv /\ [Next]_vars => LabelInv'
<1> SUFFICES ASSUME LabelInv, [Next]_vars PROVE LabelInv'
  OBVIOUS
<1>1. /\ TypeOK /\ DrawnHere
      /\ RectsBelow(allRects, drawn) /\ RectsDiffer(allRects) /\ Apart(file, allRects)
      /\ BoxesBelow(file, drawn)
  BY DEF LabelInv, Numbered, BoxesSavedOnce, Apart
<1>2. /\ currentIndex \in Images /\ startPoint \in Images /\ drawn \in 0 .. MaxBoxes
      /\ file \in Seq(Lines)
      /\ allRects \in Seq(Boxes) /\ Len(allRects) \in Nat /\ drawn \in Nat
      /\ drawn <= drawn
      /\ \A k \in 1 .. Len(allRects) : allRects[k] \in Boxes /\ allRects[k].id \in Int
  <2>1. allRects \in Seq(Boxes)
    BY <1>1 DEF TypeOK
  <2>2. \A k \in 1 .. Len(allRects) : allRects[k] \in Boxes
    BY <2>1
  <2>3. \A k \in 1 .. Len(allRects) : allRects[k].id \in Int
    BY <2>2 DEF Boxes
  <2> QED BY <1>1, <2>1, <2>2, <2>3, ConstantsAssumption DEF TypeOK
<1>3. ASSUME NEW outcome \in Outcomes, keyN(outcome) PROVE LabelInv'
  BY <1>3, KeyNKeeps
<1>4. CASE mousePressed
  <2>1. TypeOK'
    BY <1>1, <1>4 DEF mousePressed, history, TypeOK
  <2>2. /\ UNCHANGED <<file, saves, asked, lastWrite, torn, failed, drawn, allRects, currentIndex>>
    BY <1>4 DEF mousePressed, history
  <2> QED BY <1>1, <1>2, <2>1, <2>2, ScreenKeeps DEF DrawnHere
<1>5. CASE mouseReleased
  <2> DEFINE b == [id |-> drawn + 1, from |-> startPoint, to |-> currentIndex, nudge |-> 0]
             n == Len(allRects)
  <2>1. /\ drawn' = drawn + 1 /\ drawn < MaxBoxes /\ allRects' = Append(allRects, b)
        /\ UNCHANGED <<running, currentIndex, startPoint, file, saves, asked,
                       lastWrite, torn, failed>>
    BY <1>5 DEF mouseReleased
  <2>2. b \in Boxes /\ b.id = drawn + 1 /\ b.to = currentIndex
    BY <1>2, ConstantsAssumption DEF Boxes
  <2> HIDE DEF b
  <2>3. /\ allRects' \in Seq(Boxes) /\ Len(allRects') = n + 1
        /\ \A k \in 1 .. n : allRects'[k] = allRects[k]
        /\ allRects'[n + 1] = b
        /\ \A k \in 1 .. n + 1 : k \in 1 .. n \/ k = n + 1
    BY <1>2, <2>1, <2>2
  <2>4. TypeOK'
    BY <1>1, <1>2, <2>1, <2>3, ConstantsAssumption DEF TypeOK
  <2>5. RectsBelow(allRects', drawn')
    <3>1. \A k \in 1 .. n : allRects[k].id <= drawn /\ allRects[k].id \in Int
      BY <1>1, <1>2 DEF RectsBelow
    <3> QED BY <1>2, <2>1, <2>2, <2>3, <3>1 DEF RectsBelow
  <2>6. RectsDiffer(allRects')
    <3>1. \A k \in 1 .. n : allRects[k].id # drawn + 1
      BY <1>1, <1>2 DEF RectsBelow
    <3> QED BY <1>1, <2>2, <2>3, <3>1 DEF RectsDiffer
  <2>7. Apart(file, allRects')
    <3>1. ASSUME NEW x \in 1 .. Len(file), file[x].tag = "box"
          PROVE  file[x].box.id # drawn + 1
      <4>1. file[x].box.id <= drawn
        BY <1>1, <3>1 DEF BoxesBelow
      <4> QED BY <1>2, <4>1
    <3> QED BY <1>1, <2>2, <2>3, <3>1 DEF Apart
  <2>8. \A k \in 1 .. Len(allRects') : allRects'[k].to = currentIndex'
    BY <1>1, <2>1, <2>2, <2>3 DEF DrawnHere
  <2>9. drawn <= drawn'
    BY <1>2, <2>1
  <2> QED BY <2>1, <2>4, <2>5, <2>6, <2>7, <2>8, <2>9, ScreenKeeps
<1>6. CASE removeLast
  <2> DEFINE n == Len(allRects)
  <2>1. /\ allRects' = SubSeq(allRects, 1, n - 1) /\ n > 0
        /\ UNCHANGED <<running, currentIndex, startPoint, file, drawn, saves, asked,
                       lastWrite, torn, failed>>
    BY <1>2, <1>6 DEF removeLast, history
  <2>2. /\ allRects' \in Seq(Boxes) /\ Len(allRects') = n - 1
        /\ \A k \in 1 .. n - 1 : k \in 1 .. n /\ allRects'[k] = allRects[k]
    <3>1. /\ 1 \in Int /\ n - 1 \in Int /\ \A k \in 1 .. n - 1 : allRects[k] \in Boxes
      BY <1>2
    <3>2. /\ SubSeq(allRects, 1, n - 1) \in Seq(Boxes)
          /\ Len(SubSeq(allRects, 1, n - 1)) = IF 1 <= n - 1 THEN n - 1 - 1 + 1 ELSE 0
          /\ \A k \in 1 .. n - 1 - 1 + 1 :
                 SubSeq(allRects, 1, n - 1)[k] = allRects[1 + k - 1]
      BY <3>1, SubSeqProperties
    <3>3. /\ n - 1 - 1 + 1 = n - 1 /\ (~ (1 <= n - 1) => n - 1 = 0)
          /\ \A k \in 1 .. n - 1 : k \in 1 .. n /\ 1 + k - 1 = k
      <4>1. n \in Nat /\ n > 0
        BY <1>2, <2>1
      <4> HIDE DEF n
      <4> QED BY <4>1
    <3> HIDE DEF n
    <3> QED BY <2>1, <3>2, <3>3
  <2>3. TypeOK'
    BY <1>1, <2>1, <2>2 DEF TypeOK
  <2>4. RectsBelow(allRects', drawn') /\ RectsDiffer(allRects') /\ Apart(file, allRects')
    BY <1>1, <2>1, <2>2 DEF RectsBelow, RectsDiffer, Apart
  <2>5. \A k \in 1 .. Len(allRects') : allRects'[k].to = currentIndex'
    BY <1>1, <2>1, <2>2 DEF DrawnHere
  <2> QED BY <1>2, <2>1, <2>3, <2>4, <2>5, ScreenKeeps
<1>7. CASE nudgeLast
  <2> DEFINE n == Len(allRects)
             b == [allRects[n] EXCEPT !.nudge = @ + 1]
  <2>1. /\ allRects' = [allRects EXCEPT ![n] = b] /\ n > 0
        /\ allRects[n].nudge < MaxNudges
        /\ UNCHANGED <<running, currentIndex, startPoint, file, drawn, saves, asked,
                       lastWrite, torn, failed>>
    BY <1>2, <1>7 DEF nudgeLast, history
  <2>2. n \in 1 .. n /\ allRects[n] \in Boxes
    BY <1>2, <2>1
  <2>3. b \in Boxes /\ b.id = allRects[n].id /\ b.to = allRects[n].to
    BY <2>1, <2>2, ConstantsAssumption DEF Boxes
  <2> HIDE DEF b
  <2>4. /\ allRects' \in Seq(Boxes) /\ Len(allRects') = n
        /\ \A k \in 1 .. n : allRects'[k] = IF k = n THEN b ELSE allRects[k]
    BY <1>2, <2>1, <2>2, <2>3
  <2>5. \A k \in 1 .. n : /\ allRects'[k].id = allRects[k].id
                          /\ allRects'[k].to = allRects[k].to
    BY <2>3, <2>4
  <2>6. TypeOK'
    BY <1>1, <2>1, <2>4 DEF TypeOK
  <2>7. RectsBelow(allRects', drawn') /\ RectsDiffer(allRects') /\ Apart(file, allRects')
    <3>1. RectsBelow(allRects', drawn')
      BY <1>1, <2>1, <2>4, <2>5 DEF RectsBelow
    <3>2. RectsDiffer(allRects')
      <4> SUFFICES ASSUME NEW k \in 1 .. n, NEW l \in 1 .. n,
                          allRects'[k].id = allRects'[l].id
                   PROVE  k = l
        BY <2>4 DEF RectsDiffer
      <4> QED BY <1>1, <2>5 DEF RectsDiffer
    <3>3. Apart(file, allRects')
      <4> SUFFICES ASSUME NEW x \in 1 .. Len(file), NEW k \in 1 .. n, file[x].tag = "box"
                   PROVE  file[x].box.id # allRects'[k].id
        BY <2>4 DEF Apart
      <4> QED BY <1>1, <2>5 DEF Apart
    <3> QED BY <3>1, <3>2, <3>3
  <2>8. \A k \in 1 .. Len(allRects') : allRects'[k].to = currentIndex'
    BY <1>1, <2>1, <2>4, <2>5 DEF DrawnHere
  <2> QED BY <1>2, <2>1, <2>6, <2>7, <2>8, ScreenKeeps
<1>8. CASE keyWithoutBox \/ Quit
  <2>1. /\ running' \in BOOLEAN
        /\ UNCHANGED <<currentIndex, startPoint, allRects, file, drawn, saves, asked,
                       lastWrite, torn, failed>>
    BY <1>8 DEF keyWithoutBox, Quit, history
  <2>2. TypeOK'
    BY <1>1, <2>1 DEF TypeOK
  <2> QED BY <1>1, <1>2, <2>1, <2>2, ScreenKeeps DEF DrawnHere
<1>9. CASE setup
  <2>1. /\ running' = TRUE /\ currentIndex' = 0 /\ startPoint' = 0 /\ allRects' = << >>
        /\ UNCHANGED <<file, drawn, saves, asked, lastWrite, torn, failed>>
    BY <1>9 DEF setup, history
  <2>2. 0 \in Images /\ allRects' \in Seq(Boxes) /\ Len(allRects') = 0
    BY <2>1, ConstantsAssumption DEF Images
  <2>3. TypeOK'
    BY <1>1, <2>1, <2>2 DEF TypeOK
  <2>4. RectsBelow(allRects', drawn') /\ RectsDiffer(allRects') /\ Apart(file, allRects')
        /\ \A k \in 1 .. Len(allRects') : allRects'[k].to = currentIndex'
    BY <2>2 DEF RectsBelow, RectsDiffer, Apart
  <2> QED BY <1>2, <2>1, <2>3, <2>4, ScreenKeeps
<1>10. CASE UNCHANGED vars
  <2>1. UNCHANGED <<running, currentIndex, startPoint, allRects, file, drawn, saves, asked,
                    lastWrite, torn, failed>>
    BY <1>10 DEF vars
  <2>2. TypeOK'
    BY <1>1, <2>1 DEF TypeOK
  <2> QED BY <1>1, <1>2, <2>1, <2>2, ScreenKeeps DEF DrawnHere
<1> QED BY <1>3, <1>4, <1>5, <1>6, <1>7, <1>8, <1>9, <1>10 DEF Next

LEMMA LabelInvHolds == Spec => []LabelInv
<1>1. Init => LabelInv
  BY InitLabels
<1>2. LabelInv /\ [Next]_vars => LabelInv'
  BY NextKeeps
<1> QED BY <1>1, <1>2, PTL DEF Spec

(* Every variable of the labeller keeps its type: boxes, labels and the    *)
(* file stay what saveRects() writes and reads, through every cut write.   *)
THEOREM TypeCorrect == Spec => []TypeOK
<1>1. LabelInv => TypeOK
  BY DEF LabelInv
<1> QED BY <1>1, LabelInvHolds, PTL

(* However often the file is rewritten from itself, and whatever becomes   *)
(* of the writes, a box is in it at most once and never again on the       *)
(* screen: saveRects() clears allRects even when its write fails.          *)
THEOREM SavedOnce == Spec => []BoxesSavedOnce
<1>1. LabelInv => BoxesSavedOnce
  BY DEF LabelInv
<1> QED BY <1>1, LabelInvHolds, PTL

(* The nearest <image> above a box of the file names the image that was on *)
(* display when the box was drawn, also where an entry was cut.            *)
THEOREM UnderTheirImage == Spec => []BoxesUnderTheirImage
<1>1. LabelInv => BoxesUnderTheirImage
  BY DEF LabelInv
<1> QED BY <1>1, LabelInvHolds, PTL

(* What keyPressed('n') writes over a whole file, or over none, is a whole *)
(* file again: the filter of saveRects() cuts it at the right lines.       *)
THEOREM StaysWellFormed == Spec => []FileStaysWellFormed
<1>1. LabelInv => FileStaysWellFormed
  BY DEF LabelInv
<1> QED BY <1>1, LabelInvHolds, PTL

(* As long as every write succeeds, the file holds the labels of every n   *)
(* pressed in any session, in order and once each.                         *)
THEOREM NoLabelLost == Spec => []SavedUnlessWriteFails
<1>1. LabelInv => SavedUnlessWriteFails
  BY DEF LabelInv
<1> QED BY <1>1, LabelInvHolds, PTL

(***************************************************************************)
(* Entries                                                                 *)
(***************************************************************************)
(* places that stand together in I are numbered together                   *)
LEMMA RankRun ==
    ASSUME NEW n \in Nat, NEW I \in SUBSET (1 .. n), NEW p \in I, NEW q \in I,
           p <= q, \A x \in p .. q : x \in I
    PROVE  Rank(I, q) = Rank(I, p) + (q - p)
<1> DEFINE A == {j \in I : j <= p}
           D == p + 1 .. q
<1>1. p \in Int /\ q \in Int /\ \A x \in I : x \in Int
  OBVIOUS
<1>2. {j \in I : j <= q} = A \cup D
  <2>1. ASSUME NEW x \in I, x <= q PROVE x \in A \cup D
    BY <1>1, <2>1
  <2>2. ASSUME NEW x \in A \cup D PROVE x \in I /\ x <= q
    <3>1. CASE x \in A
      BY <1>1, <3>1
    <3>2. CASE x \in D
      <4>1. x \in p .. q
        BY <1>1, <3>2
      <4> QED BY <1>1, <4>1
    <3> QED BY <2>2, <3>1, <3>2
  <2> HIDE DEF A, D
  <2> QED BY <2>1, <2>2
<1>3. A \cap D = {}
  BY <1>1
<1>4. IsFiniteSet(A) /\ Cardinality(A) \in Nat
  <2>1. IsFiniteSet(I) /\ A \subseteq I
    BY RankRises
  <2> HIDE DEF A
  <2> QED BY <2>1, FS_Subset, FS_CardinalityType
<1>5. IsFiniteSet(D) /\ Cardinality(D) = q - p
  <2>1. p + 1 \in Int /\ q \in Int
    BY <1>1
  <2>2. IsFiniteSet(D) /\ Cardinality(D) = IF p + 1 > q THEN 0 ELSE q - (p + 1) + 1
    BY <2>1, FS_Interval
  <2> HIDE DEF D
  <2> QED BY <1>1, <2>2
<1> HIDE DEF A, D
<1>6. Cardinality(A \cup D) = Cardinality(A) + Cardinality(D) - Cardinality(A \cap D)
  BY <1>4, <1>5, FS_Union
<1>7. Cardinality(A \cup D) = Cardinality(A) + (q - p)
  <2>1. Cardinality({}) = 0
    BY FS_EmptySet
  <2>2. Cardinality(A \cap D) = 0
    BY <1>3, <2>1
  <2> QED BY <1>1, <1>4, <1>5, <1>6, <2>2
<1>8. Rank(I, q) = Cardinality(A \cup D)
  BY <1>2 DEF Rank
<1>9. Rank(I, p) = Cardinality(A)
  BY DEF Rank, A
<1> QED BY <1>7, <1>8, <1>9

(* a save copies each complete entry as it stands                          *)
LEMMA EntriesKept ==
    ASSUME NEW f \in Seq(Lines), OneOpen(f), Copied(f) = LabelPlaces(f),
           NEW i \in Images, NEW rects \in Seq(Boxes),
           NEW t, IsText(t, Kept(f), i, rects)
    PROVE  CompleteEntries(f) \subseteq CompleteEntries(t)
<1> DEFINE C == Copied(f)
           K == Len(Kept(f))
           r(x) == Rank(C, x)
<1>1. SUFFICES ASSUME NEW e \in CompleteEntries(f) PROVE e \in CompleteEntries(t)
  OBVIOUS
<1>2. PICK p \in 1 .. Len(f), q \in 1 .. Len(f) : e = SubSeq(f, p, q)
  BY DEF CompleteEntries
<1>3. /\ Len(e) > 1
      /\ e[1].tag = "image" /\ e[Len(e)].tag = "endimage"
      /\ \A k \in 2 .. Len(e) - 1 : e[k].tag = "box"
  BY DEF CompleteEntries
<1>4. p \in Int /\ q \in Int /\ Len(f) \in Nat /\ \A x \in p .. q : f[x] \in Lines
  OBVIOUS
<1>5. /\ e \in Seq(Lines) /\ Len(e) = (IF p <= q THEN q - p + 1 ELSE 0)
      /\ \A k \in 1 .. q - p + 1 : e[k] = f[p + k - 1]
  BY <1>2, <1>4, SubSeqProperties
<1>6. p < q /\ Len(e) = q - p + 1
  BY <1>3, <1>4, <1>5
<1>7. /\ Kept(f) \in Seq(Lines) /\ K \in Nat /\ C \in SUBSET (1 .. Len(f))
      /\ \A a \in 1 .. K : Kept(f)[a] = f[At(C, a)]
      /\ \A x \in C : r(x) \in 1 .. K /\ At(C, r(x)) = x
  BY KeptLines, CopiedLines
<1>8. ASSUME NEW x \in p .. q PROVE x \in C
  <2> DEFINE k == x - p + 1
  <2>1. k \in 1 .. q - p + 1 /\ p + k - 1 = x /\ x \in 1 .. Len(f)
        /\ (k = 1 \/ k = q - p + 1 \/ k \in 2 .. (q - p + 1) - 1)
    BY <1>4, <1>6
  <2> HIDE DEF k
  <2>2. e[k].tag \in LabelTags
    BY <1>3, <1>6, <2>1 DEF LabelTags
  <2>3. e[k] = f[x]
    BY <1>5, <2>1
  <2> QED BY <2>1, <2>2, <2>3 DEF LabelPlaces
<1>9. p \in C /\ q \in C
  BY <1>4, <1>6, <1>8
<1>10. ASSUME NEW x \in p .. q PROVE r(x) = r(p) + (x - p)
  <2>1. x \in C /\ p <= x /\ \A z \in p .. x : z \in C
    BY <1>4, <1>8
  <2> HIDE DEF C
  <2> QED BY <1>4, <1>7, <1>9, <2>1, RankRun
<1> DEFINE P == 2 + r(p)
           Q == 2 + r(q)
           w == SubSeq(t, P, Q)
<1>11. r(p) \in 1 .. K /\ r(q) \in 1 .. K /\ r(q) = r(p) + (q - p)
  <2>1. q \in p .. q
    BY <1>4, <1>6
  <2> HIDE DEF C
  <2> QED BY <1>7, <1>9, <1>10, <2>1
<1>12. /\ t \in Seq(Lines) /\ Len(t) \in Nat /\ Len(t) >= K + 6
       /\ \A a \in 1 .. K : t[2 + a] = Kept(f)[a]
  <2>1. Len(rects) \in Nat
    OBVIOUS
  <2> QED BY <1>7, <2>1 DEF IsText
<1> HIDE DEF r, K, C
<1>13. /\ P \in 1 .. Len(t) /\ Q \in 1 .. Len(t) /\ Q - P = q - p /\ P \in Int /\ Q \in Int
       /\ P <= Q
  <2>1. r(p) \in Int /\ r(q) \in Int /\ 1 <= r(p) /\ r(p) <= K /\ 1 <= r(q) /\ r(q) <= K
    BY <1>7, <1>11
  <2>2. P \in Int /\ Q \in Int /\ Q - P = q - p /\ P <= Q
    BY <1>4, <1>6, <1>11, <2>1
  <2>3. 1 <= P /\ P <= Len(t) /\ 1 <= Q /\ Q <= Len(t)
    BY <1>7, <1>12, <2>1
  <2> HIDE DEF P, Q
  <2> QED BY <1>12, <2>2, <2>3
<1>14. \A k \in 1 .. q - p + 1 : t[P + k - 1] = e[k]
  <2> SUFFICES ASSUME NEW k \in 1 .. q - p + 1 PROVE t[P + k - 1] = e[k]
    OBVIOUS
  <2> DEFINE x == p + k - 1
  <2>1. x \in p .. q /\ x - p = k - 1
    BY <1>4
  <2> HIDE DEF x
  <2>2. x \in C /\ r(x) = r(p) + (k - 1)
    BY <1>8, <1>10, <2>1
  <2>3. r(x) \in 1 .. K /\ At(C, r(x)) = x
    BY <1>7, <2>2
  <2>4. P + k - 1 = 2 + r(x)
    BY <1>7, <1>11, <2>2
  <2>5. t[2 + r(x)] = f[x]
    BY <1>7, <1>12, <2>3
  <2>6. e[k] = f[x]
    BY <1>5 DEF x
  <2> QED BY <2>4, <2>5, <2>6
<1> HIDE DEF P, Q
<1>15. /\ w \in Seq(Lines) /\ Len(w) = q - p + 1
       /\ \A k \in 1 .. q - p + 1 : w[k] = t[P + k - 1]
  <2>1. \A x \in P .. Q : t[x] \in Lines
    BY <1>12, <1>13
  <2>2. /\ w \in Seq(Lines) /\ Len(w) = (IF P <= Q THEN Q - P + 1 ELSE 0)
        /\ \A k \in 1 .. Q - P + 1 : w[k] = t[P + k - 1]
    BY <1>13, <2>1, SubSeqProperties
  <2> HIDE DEF w
  <2> QED BY <1>13, <2>2
<1> HIDE DEF w
<1>16. w = e
  <2>1. \A k \in 1 .. Len(w) : w[k] = e[k]
    BY <1>14, <1>15
  <2> QED BY <1>5, <1>6, <1>15, <2>1, SeqEqual
<1>17. e = SubSeq(t, P, Q)
  BY <1>16 DEF w
<1>18. <<P, Q>> \in (1 .. Len(t)) \X (1 .. Len(t))
  BY <1>13
<1>19. e \in {SubSeq(t, s[1], s[2]) : s \in (1 .. Len(t)) \X (1 .. Len(t))}
  <2>1. <<P, Q>>[1] = P /\ <<P, Q>>[2] = Q
    OBVIOUS
  <2>2. \E s \in (1 .. Len(t)) \X (1 .. Len(t)) : e = SubSeq(t, s[1], s[2])
    <3> WITNESS <<P, Q>> \in (1 .. Len(t)) \X (1 .. Len(t))
    <3> QED BY <1>17, <2>1
  <2> QED BY <2>2
<1> QED BY <1>3, <1>19 DEF CompleteEntries

(* A save that succeeds loses no complete entry, even if an earlier one    *)
(* was cut and left the file without its end.                              *)
THEOREM EntriesSurvive == Spec => CompleteEntriesSurvive
<1> DEFINE Loses == saves' # saves /\ lastWrite' = "written"
                       /\ ~ (CompleteEntries(file) \subseteq CompleteEntries(file'))
<1>1. LabelInv /\ [Next]_vars => [~ Loses]_vars
  <2> SUFFICES ASSUME LabelInv, Next, saves' # saves, lastWrite' = "written"
               PROVE  CompleteEntries(file) \subseteq CompleteEntries(file')
    OBVIOUS
  <2>1. PICK outcome \in Outcomes : keyN(outcome)
    BY DEF Next, mousePressed, mouseReleased, removeLast, nudgeLast, keyWithoutBox, Quit,
           setup, history
  <2>2. file' = Text
    BY <2>1 DEF keyN, saveRects, Write
  <2>3. /\ file \in Seq(Lines) /\ currentIndex \in Images /\ allRects \in Seq(Boxes)
        /\ OneOpen(file) /\ Copied(file) = LabelPlaces(file)
    BY DEF LabelInv, TypeOK, LabelsTogether
  <2>4. IsText(Text, Kept(file), currentIndex, allRects)
    BY <2>3, TextIsText DEF LabelInv
  <2> QED BY <2>2, <2>3, <2>4, EntriesKept
<1>2. [~ Loses]_vars => [saves' # saves /\ lastWrite' = "written"
                            => CompleteEntries(file) \subseteq CompleteEntries(file')]_vars
  OBVIOUS
<1> QED BY <1>1, <1>2, LabelInvHolds, PTL DEF Spec, CompleteEntriesSurvive
=============================================================================
