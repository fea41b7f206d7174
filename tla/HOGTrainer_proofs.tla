------------------------- MODULE HOGTrainer_proofs --------------------------
(* Proofs about HOGTrainer, for every size of the two sets, any content of *)
(* the training cursor before its first use, and any number of setups.     *)
EXTENDS HOGTrainer, TLAPS

(* A walk through a set: two shows less than a round apart are as many     *)
(* images apart, counted round the end of the set, and the cursor is one   *)
(* image further than the last show.                                       *)
Walk(shown, cur, size) ==
    /\ shown \in Seq(Nat) /\ Len(shown) > 0
    /\ size \in Nat \ {0}
    /\ \A i \in 1 .. Len(shown) : shown[i] < size
    /\ \A i, j \in 1 .. Len(shown) :
          i <= j /\ j < i + size =>
             \/ shown[j] = shown[i] + (j - i)
             \/ shown[j] = shown[i] + (j - i) - size
    /\ cur = Advance(shown[Len(shown)], size)

(* A setup that ended left the detector of its own set, both halves of the *)
(* window show what that detector found, and both walks have begun.        *)
Showing ==
    Ready =>
        /\ testRects = [set |-> testPix.set, img |-> testPix.img, detector |-> detector]
        /\ trainRects = [set |-> trainPix.set, img |-> trainPix.img, detector |-> detector]
        /\ Walk(shownTest, curTestImage, images_test.size)
        /\ Walk(shownTrain, curTrainImage, images_train.size)

TrainerInv ==
    /\ TypeOK
    /\ TestCursorInRange
    /\ detector.set <= setups
    /\ Showing

-----------------------------------------------------------------------------
(* Walks.                                                                  *)

LEMMA AdvanceInRange ==
    ASSUME NEW size \in Nat \ {0}, NEW cur \in Nat
    PROVE  Advance(cur, size) \in Nat /\ Advance(cur, size) < size
BY DEF Advance

LEMMA WalkBegins ==
    ASSUME NEW size \in Nat \ {0}, NEW cur \in Nat, cur < size
    PROVE  Walk(<<cur>>, Advance(cur, size), size)
<1> DEFINE s == <<cur>>
<1>1. s \in Seq(Nat) /\ Len(s) = 1 /\ s[1] = cur
  OBVIOUS
<1> HIDE DEF s
<1>2. Walk(s, Advance(cur, size), size)
  BY <1>1 DEF Walk
<1> QED BY <1>2 DEF s

LEMMA OneFurther ==
    ASSUME NEW size \in Nat \ {0}, NEW a \in Nat, NEW b \in Nat, NEW c,
           NEW i \in Nat, NEW n \in Nat, a < size, b < size, n + 1 < i + size,
           b = a + (n - i) \/ b = a + (n - i) - size,
           c = b + 1 \/ (c = 0 /\ b + 1 = size)
    PROVE  c = a + (n + 1 - i) \/ c = a + (n + 1 - i) - size
OBVIOUS

LEMMA WalkGoesOn ==
    ASSUME NEW shown, NEW cur, NEW size, Walk(shown, cur, size)
    PROVE  Walk(Append(shown, cur), Advance(cur, size), size)
<1> DEFINE n == Len(shown)
           s == Append(shown, cur)
<1>1. /\ shown \in Seq(Nat) /\ n \in Nat \ {0} /\ size \in Nat \ {0}
      /\ \A i \in 1 .. n : shown[i] \in Nat /\ shown[i] < size
      /\ cur = Advance(shown[n], size)
  BY DEF Walk
<1>2. cur \in Nat /\ cur < size
  <2>1. shown[n] \in Nat
    BY <1>1
  <2> QED BY <1>1, <2>1, AdvanceInRange
<1>3. /\ s \in Seq(Nat) /\ Len(s) = n + 1 /\ s[n + 1] = cur
      /\ \A i \in 1 .. n : s[i] = shown[i]
  BY <1>1, <1>2
<1> HIDE DEF s, n
<1>4. \A i \in 1 .. n + 1 : s[i] < size /\ s[i] \in Nat
  <2> SUFFICES ASSUME NEW i \in 1 .. n + 1 PROVE s[i] < size /\ s[i] \in Nat
    OBVIOUS
  <2>1. i \in 1 .. n \/ i = n + 1
    BY <1>1
  <2> QED BY <1>1, <1>2, <1>3, <2>1
<1>5. ASSUME NEW i \in 1 .. n + 1, NEW j \in 1 .. n + 1, i <= j, j < i + size
      PROVE  s[j] = s[i] + (j - i) \/ s[j] = s[i] + (j - i) - size
  <2>1. CASE i = j
    BY <1>4, <2>1
  <2>2. CASE j \in 1 .. n
    <3>1. i \in 1 .. n
      BY <1>1, <1>5, <2>2
    <3>2. shown[j] = shown[i] + (j - i) \/ shown[j] = shown[i] + (j - i) - size
      BY <1>5, <2>2, <3>1 DEF Walk, n
    <3> QED BY <1>3, <2>2, <3>1, <3>2
  <2>3. CASE i # j /\ j = n + 1
    <3>1. i \in 1 .. n /\ n \in 1 .. n /\ i <= n /\ n < i + size
      BY <1>1, <1>5, <2>3
    <3>2. shown[n] = shown[i] + (n - i) \/ shown[n] = shown[i] + (n - i) - size
      BY <3>1 DEF Walk, n
    <3>3. shown[i] \in Nat /\ shown[i] < size /\ shown[n] \in Nat /\ shown[n] < size
      BY <1>1, <3>1
    <3>4. cur = shown[i] + (n + 1 - i) \/ cur = shown[i] + (n + 1 - i) - size
      <4>1. cur = shown[n] + 1 \/ (cur = 0 /\ shown[n] + 1 = size)
        BY <1>1, <3>3 DEF Advance
      <4>2. i \in Nat /\ n + 1 < i + size
        BY <1>5, <2>3, <3>1
      <4> DEFINE a == shown[i]
                 b == shown[n]
      <4>3. a \in Nat /\ b \in Nat /\ a < size /\ b < size
        BY <3>3
      <4>4. b = a + (n - i) \/ b = a + (n - i) - size
        BY <3>2
      <4>5. cur = b + 1 \/ (cur = 0 /\ b + 1 = size)
        BY <4>1
      <4> HIDE DEF a, b
      <4>6. cur = a + (n + 1 - i) \/ cur = a + (n + 1 - i) - size
        BY <1>1, <4>2, <4>3, <4>4, <4>5, OneFurther
      <4> QED BY <4>6 DEF a
    <3> QED BY <1>3, <2>3, <3>1, <3>4
  <2> QED BY <1>1, <2>1, <2>2, <2>3
<1>6. Walk(s, Advance(cur, size), size)
  BY <1>1, <1>3, <1>4, <1>5 DEF Walk
<1> QED BY <1>6 DEF s

(* A walk shows no image twice in a round, and all of them in a round.     *)
LEMMA WalkShowsAll ==
    ASSUME NEW shown, NEW cur, NEW size, Walk(shown, cur, size)
    PROVE  Cycles(shown, size) /\ ShowsAll(shown, size)
<1>1. /\ shown \in Seq(Nat) /\ Len(shown) \in Nat \ {0} /\ size \in Nat \ {0}
      /\ \A i \in 1 .. Len(shown) : shown[i] \in Nat /\ shown[i] < size
  BY DEF Walk
<1>2. Cycles(shown, size)
  <2> SUFFICES ASSUME NEW i \in 1 .. Len(shown), NEW j \in 1 .. Len(shown),
                      i < j, j < i + size
               PROVE  shown[i] # shown[j]
    BY DEF Cycles
  <2>1. shown[j] = shown[i] + (j - i) \/ shown[j] = shown[i] + (j - i) - size
    BY DEF Walk
  <2> QED BY <1>1, <2>1
<1>3. ShowsAll(shown, size)
  <2> SUFFICES ASSUME Len(shown) >= size, NEW v \in 0 .. size - 1
               PROVE  \E k \in 1 .. Len(shown) : shown[k] = v
    BY DEF ShowsAll
  <2> DEFINE a == shown[1]
             k == IF v >= a THEN v - a + 1 ELSE v - a + 1 + size
  <2>1. a \in Nat /\ a < size /\ 1 \in 1 .. Len(shown)
    BY <1>1
  <2>2. k \in 1 .. Len(shown) /\ 1 <= k /\ k < 1 + size
    <3> HIDE DEF a
    <3>1. CASE v >= a
      BY <1>1, <2>1, <3>1
    <3>2. CASE ~ v >= a
      BY <1>1, <2>1, <3>2
    <3> QED BY <3>1, <3>2
  <2>3. shown[k] = a + (k - 1) \/ shown[k] = a + (k - 1) - size
    BY <2>1, <2>2 DEF Walk
  <2>4. shown[k] \in Nat /\ shown[k] < size
    BY <1>1, <2>2
  <2>5. k - 1 = v - a \/ k - 1 = v - a + size
    BY <1>1, <2>1
  <2> HIDE DEF k, a
  <2>6. shown[k] = v
    BY <1>1, <2>1, <2>2, <2>3, <2>4, <2>5
  <2> QED BY <2>2, <2>6
<1> QED BY <1>2, <1>3

-----------------------------------------------------------------------------

LEMMA RecordTypes ==
    ASSUME NEW set \in 0 .. MaxSetups
    PROVE  /\ \A k \in Nat : [set |-> set, size |-> k] \in [set : 0 .. MaxSetups, size : Nat]
           /\ \A k \in Nat : [set |-> set, img |-> k] \in [set : 0 .. MaxSetups, img : Nat]
           /\ [set |-> set, thresholded |-> TRUE]
                \in [set : 0 .. MaxSetups, thresholded : BOOLEAN]
           /\ [set |-> set, thresholded |-> FALSE]
                \in [set : 0 .. MaxSetups, thresholded : BOOLEAN]
           /\ [set |-> set, thresholded |-> FALSE]
                \in [set : 0 .. MaxSetups, thresholded : {FALSE}]
OBVIOUS

LEMMA InitTrainerInv == Init => TrainerInv
<1> SUFFICES ASSUME Init PROVE TrainerInv
  OBVIOUS
<1>1. TypeOK
  <2>1. 0 \in 0 .. MaxSetups /\ 0 \in Nat
    BY ConstantsAssumption
  <2>2. /\ NoArray \in [set : 0 .. MaxSetups, size : Nat]
        /\ NoDetector \in [set : 0 .. MaxSetups, thresholded : BOOLEAN]
        /\ NoDetector \in [set : 0 .. MaxSetups, thresholded : {FALSE}]
        /\ NoImage \in [set : 0 .. MaxSetups, img : Nat]
    BY <2>1, RecordTypes DEF NoArray, NoDetector, NoImage
  <2>3. curTrainImage \in Nat /\ curTestImage \in Nat
    BY ConstantsAssumption DEF Init
  <2>4. shownTrain \in Seq(Nat) /\ shownTest \in Seq(Nat)
    BY DEF Init
  <2>5. running \in BOOLEAN /\ outOfRange \in BOOLEAN /\ setups \in 0 .. MaxSetups
    BY <2>1 DEF Init
  <2> QED BY <2>2, <2>3, <2>4, <2>5, Zenon DEF Init, TypeOK
<1>2. TestCursorInRange /\ detector.set <= setups /\ Showing
  BY DEF Init, TestCursorInRange, Showing, Ready, NoArray, NoDetector
<1> QED BY <1>1, <1>2 DEF TrainerInv

(* A setup that throws leaves no detector that counts as ready.            *)
LEMMA ThrownInv ==
    ASSUME TrainerInv, NEW n \in Nat, NEW m \in Nat,
           setups < MaxSetups, setups' = setups + 1,
           \/ LoadTrainFails(n) \/ LoadTestFails(n, m)
           \/ TrainFails(n, m) \/ SaveFails(n, m)
    PROVE  TrainerInv'
<1>1. /\ setups \in Nat /\ setups' \in 0 .. MaxSetups /\ Catches \in BOOLEAN
      /\ setups' = setups + 1
  BY ConstantsAssumption DEF TrainerInv, TypeOK
<1>2. /\ curTestImage' = 0 /\ running' = Catches
      /\ UNCHANGED <<curTrainImage, trainPix, trainRects, testRects, outOfRange,
                     shownTrain, shownTest>>
      /\ saved' \in {saved, NoDetector, Serialized}
  BY DEF LoadTrainFails, LoadTestFails, TrainFails, SaveFails, Thrown
<1>3. \A k \in Nat : [set |-> setups', size |-> k] \in [set : 0 .. MaxSetups, size : Nat]
  BY <1>1
<1>4. /\ images_train' \in [set : 0 .. MaxSetups, size : Nat]
      /\ images_test' \in [set : 0 .. MaxSetups, size : Nat]
  <2>1. CASE LoadTrainFails(n)
    <3>1. PICK k \in {0} \cup Parts(n) : images_train' = [set |-> setups', size |-> k]
      BY <2>1 DEF LoadTrainFails
    <3>2. k \in Nat
      BY DEF Parts
    <3> QED BY <1>3, <2>1, <3>1, <3>2 DEF LoadTrainFails, TrainerInv, TypeOK
  <2>2. CASE LoadTestFails(n, m)
    <3>1. PICK k \in {0} \cup Parts(m) : images_test' = [set |-> setups', size |-> k]
      BY <2>2 DEF LoadTestFails
    <3>2. k \in Nat
      BY DEF Parts
    <3> QED BY <1>3, <2>2, <3>1, <3>2 DEF LoadTestFails
  <2>3. CASE TrainFails(n, m) \/ SaveFails(n, m)
    <3>1. 2 * n \in Nat
      OBVIOUS
    <3> QED BY <1>3, <2>3, <3>1 DEF TrainFails, SaveFails, FirstTestImage, Loaded
  <2> QED BY <2>1, <2>2, <2>3
<1>5. /\ detector' = detector \/ detector' = [set |-> setups', thresholded |-> FALSE]
      /\ testPix' = testPix \/ testPix' = [set |-> setups', img |-> 0]
  BY DEF LoadTrainFails, LoadTestFails, TrainFails, SaveFails, FirstTestImage, Trained
<1>6. /\ detector' \in [set : 0 .. MaxSetups, thresholded : BOOLEAN]
      /\ testPix' \in [set : 0 .. MaxSetups, img : Nat]
  BY <1>1, <1>5, RecordTypes DEF TrainerInv, TypeOK
<1>7. TypeOK'
  <2>1. saved \in [set : 0 .. MaxSetups, thresholded : {FALSE}]
    BY DEF TrainerInv, TypeOK
  <2>2. NoDetector \in [set : 0 .. MaxSetups, thresholded : {FALSE}]
    BY ConstantsAssumption DEF NoDetector
  <2>3. Serialized \in [set : 0 .. MaxSetups, thresholded : {FALSE}]
    BY <1>1 DEF Serialized, Trained
  <2>4. saved' \in [set : 0 .. MaxSetups, thresholded : {FALSE}]
    BY <1>2, <2>1, <2>2, <2>3
  <2> QED BY <1>1, <1>2, <1>4, <1>6, <2>4 DEF TrainerInv, TypeOK
<1>8. TestCursorInRange'
  BY <1>2, <1>4 DEF TestCursorInRange
<1>9. detector'.set <= setups' /\ detector' # [set |-> setups', thresholded |-> TRUE]
  <2>1. CASE detector' = detector
    <3>1. detector'.set <= setups /\ detector'.set \in 0 .. MaxSetups
      BY <2>1, <1>6 DEF TrainerInv, TypeOK
    <3> QED BY <1>1, <3>1
  <2>2. CASE detector' = [set |-> setups', thresholded |-> FALSE]
    BY <1>1, <2>2
  <2> QED BY <1>5, <2>1, <2>2
<1> QED BY <1>7, <1>8, <1>9 DEF TrainerInv, Showing, Ready

(* A read past an array's end stops the program.                           *)
LEMMA StoppedInv ==
    ASSUME TypeOK', ~running', detector'.set <= setups'
    PROVE  TrainerInv'
BY DEF TrainerInv, TestCursorInRange, Showing, Ready

LEMMA EmptySetInv ==
    ASSUME TrainerInv, NEW n \in Nat, NEW m \in Nat,
           setups < MaxSetups, setups' = setups + 1,
           NoTestImage(n) \/ NoTrainImage(m)
    PROVE  TrainerInv'
<1>1. setups \in Nat /\ setups' \in 0 .. MaxSetups
  BY ConstantsAssumption DEF TrainerInv, TypeOK
<1>2. /\ ~running' /\ running' \in BOOLEAN /\ outOfRange' \in BOOLEAN
      /\ curTestImage' = 0 /\ curTrainImage' = curTrainImage
      /\ UNCHANGED <<trainPix, shownTrain, shownTest>>
  BY DEF NoTestImage, NoTrainImage
<1>3. \A k \in Nat : [set |-> setups', size |-> k] \in [set : 0 .. MaxSetups, size : Nat]
  BY <1>1
<1>4. /\ images_train' \in [set : 0 .. MaxSetups, size : Nat]
      /\ images_test' \in [set : 0 .. MaxSetups, size : Nat]
  <2>1. 2 * n \in Nat /\ 2 * 0 \in Nat
    OBVIOUS
  <2> QED BY <1>3, <2>1 DEF NoTestImage, NoTrainImage, FirstTestImage, Loaded
<1>5. /\ detector' \in {detector, [set |-> setups', thresholded |-> FALSE]}
      /\ saved' \in {saved, [set |-> setups', thresholded |-> FALSE]}
      /\ testPix' \in {testPix, [set |-> setups', img |-> 0]}
  BY DEF NoTestImage, NoTrainImage, FirstTestImage, Trained, Serialized
<1>6. TypeOK'
  <2>1. /\ detector' \in [set : 0 .. MaxSetups, thresholded : BOOLEAN]
        /\ saved' \in [set : 0 .. MaxSetups, thresholded : {FALSE}]
        /\ testPix' \in [set : 0 .. MaxSetups, img : Nat]
    BY <1>1, <1>5, RecordTypes DEF TrainerInv, TypeOK
  <2> QED BY <1>1, <1>2, <1>4, <2>1 DEF TrainerInv, TypeOK
<1>7. detector'.set <= setups'
  <2>1. detector.set \in 0 .. MaxSetups /\ detector.set <= setups
    BY DEF TrainerInv, TypeOK
  <2> QED BY <1>1, <1>5, <2>1
<1> QED BY <1>2, <1>6, <1>7, StoppedInv

(* setup's end: both halves of the window show its own detector's work.    *)
LEMMA SucceedsInv ==
    ASSUME TrainerInv, NEW n \in Nat, NEW m \in Nat, running,
           setups < MaxSetups, setups' = setups + 1, Succeeds(n, m)
    PROVE  TrainerInv'
<1>1. setups \in Nat /\ setups' \in 0 .. MaxSetups /\ setups' > 0
  BY ConstantsAssumption DEF TrainerInv, TypeOK
<1>2. /\ m \in Nat \ {0} /\ 2 * n \in Nat \ {0}
      /\ images_train' = [set |-> setups', size |-> 2 * n]
      /\ images_test' = [set |-> setups', size |-> m]
      /\ testPix' = [set |-> setups', img |-> 0]
      /\ testRects' = [set |-> setups', img |-> 0, detector |-> detector']
      /\ saved' = [set |-> setups', thresholded |-> FALSE]
      /\ detector' = [set |-> setups', thresholded |-> TRUE]
      /\ curTestImage' = Advance(0, m) /\ shownTest' = <<0>>
  BY DEF Succeeds, FirstTestImage, Loaded, Serialized, Trained, Final, Rects, UsedToShow
<1>3. curTestImage' \in Nat /\ curTestImage' < m
  BY <1>2, AdvanceInRange
<1>4. shownTest' \in Seq(Nat) /\ Walk(shownTest', curTestImage', m)
  BY <1>2, WalkBegins
<1>5. /\ images_train' \in [set : 0 .. MaxSetups, size : Nat]
      /\ images_test' \in [set : 0 .. MaxSetups, size : Nat]
      /\ testPix' \in [set : 0 .. MaxSetups, img : Nat]
      /\ saved' \in [set : 0 .. MaxSetups, thresholded : {FALSE}]
      /\ detector' \in [set : 0 .. MaxSetups, thresholded : BOOLEAN]
  BY <1>1, <1>2, RecordTypes
<1>6. CASE /\ curTrainImage < 2 * n
           /\ trainPix' = Shown(images_train', curTrainImage)
           /\ trainRects' = Rects(images_train', curTrainImage, UsedToShow)
           /\ curTrainImage' = Advance(curTrainImage, 2 * n)
           /\ shownTrain' = <<curTrainImage>>
           /\ UNCHANGED <<running, outOfRange>>
  <2>1. curTrainImage \in Nat /\ curTrainImage' \in Nat
    BY <1>2, <1>6, AdvanceInRange DEF TrainerInv, TypeOK
  <2>2. Walk(shownTrain', curTrainImage', 2 * n) /\ shownTrain' \in Seq(Nat)
    BY <1>2, <1>6, <2>1, WalkBegins
  <2>3. /\ trainPix' = [set |-> setups', img |-> curTrainImage]
        /\ trainRects' = [set |-> setups', img |-> curTrainImage, detector |-> detector']
    BY <1>2, <1>6 DEF Shown, Rects, UsedToShow, Final
  <2>4. TypeOK'
    <3>1. trainPix' \in [set : 0 .. MaxSetups, img : Nat]
      BY <1>1, <2>1, <2>3, RecordTypes
    <3> QED BY <1>1, <1>3, <1>4, <1>6, <1>5, <2>1, <2>2, <3>1 DEF TrainerInv, TypeOK
  <2>5. TestCursorInRange'
    BY <1>2, <1>3 DEF TestCursorInRange
  <2>6. detector'.set <= setups'
    BY <1>1, <1>2
  <2>7. Showing'
    BY <1>2, <1>4, <2>2, <2>3 DEF Showing
  <2> QED BY <2>4, <2>5, <2>6, <2>7 DEF TrainerInv
<1>7. CASE /\ outOfRange' = TRUE /\ running' = FALSE
           /\ UNCHANGED <<trainPix, trainRects, curTrainImage, shownTrain>>
  <2>1. TypeOK'
    BY <1>1, <1>3, <1>4, <1>7, <1>5 DEF TrainerInv, TypeOK
  <2>2. detector'.set <= setups'
    BY <1>1, <1>2
  <2> QED BY <1>7, <2>1, <2>2, StoppedInv
<1> QED BY <1>6, <1>7 DEF Succeeds

LEMMA SetupInv ==
    ASSUME TrainerInv, NEW n \in Sizes, NEW m \in Sizes, setup(n, m)
    PROVE  TrainerInv'
<1>1. n \in Nat /\ m \in Nat
  BY ConstantsAssumption
<1> QED BY <1>1, ThrownInv, EmptySetInv, SucceedsInv DEF setup

LEMMA ReadOutOfRangeInv ==
    ASSUME TrainerInv, ReadOutOfRange
    PROVE  TrainerInv'
<1>1. TypeOK' /\ ~running' /\ detector'.set <= setups'
  BY DEF ReadOutOfRange, TrainerInv, TypeOK
<1> QED BY <1>1, StoppedInv

LEMMA NextTestImageInv ==
    ASSUME TrainerInv, nextTestImage
    PROVE  TrainerInv'
<1>1. CASE ReadOutOfRange
  BY <1>1, ReadOutOfRangeInv
<1>2. CASE ~ReadOutOfRange
  <2>1. /\ curTestImage < images_test.size
        /\ testRects' = [set |-> images_test.set, img |-> curTestImage,
                         detector |-> detector]
        /\ testPix' = [set |-> images_test.set, img |-> curTestImage]
        /\ curTestImage' = Advance(curTestImage, images_test.size)
        /\ shownTest' = Append(shownTest, curTestImage)
        /\ UNCHANGED <<images_train, images_test, curTrainImage, detector,
                       saved, trainPix, trainRects, running, outOfRange,
                       setups, shownTrain>>
    BY <1>2 DEF nextTestImage, Shown, Rects
  <2>2. /\ images_test.size \in Nat \ {0} /\ images_test.set \in 0 .. MaxSetups
        /\ curTestImage \in Nat /\ shownTest \in Seq(Nat)
    BY <2>1 DEF TrainerInv, TypeOK
  <2>3. curTestImage' \in Nat /\ curTestImage' < images_test.size
    BY <2>1, <2>2, AdvanceInRange
  <2>4. shownTest' \in Seq(Nat)
    BY <2>1, <2>2
  <2>5. TypeOK'
    BY <2>1, <2>2, <2>3, <2>4 DEF TrainerInv, TypeOK
  <2>6. TestCursorInRange' /\ detector'.set <= setups'
    BY <2>1, <2>3 DEF TestCursorInRange, TrainerInv
  <2>7. Showing'
    <3> SUFFICES ASSUME Ready'
                 PROVE  /\ testRects' = [set |-> testPix'.set, img |-> testPix'.img,
                                         detector |-> detector']
                        /\ trainRects' = [set |-> trainPix'.set, img |-> trainPix'.img,
                                          detector |-> detector']
                        /\ Walk(shownTest', curTestImage', images_test'.size)
                        /\ Walk(shownTrain', curTrainImage', images_train'.size)
      BY DEF Showing
    <3>1. Ready
      BY <2>1 DEF Ready
    <3>2. Walk(shownTest, curTestImage, images_test.size)
      BY <3>1 DEF TrainerInv, Showing
    <3>3. Walk(shownTest', curTestImage', images_test'.size)
      BY <2>1, <3>2, WalkGoesOn
    <3> QED BY <2>1, <3>1, <3>3 DEF TrainerInv, Showing
  <2> QED BY <2>5, <2>6, <2>7 DEF TrainerInv
<1> QED BY <1>1, <1>2

LEMMA NextTrainImageInv ==
    ASSUME TrainerInv, nextTrainImage
    PROVE  TrainerInv'
<1>1. CASE ReadOutOfRange
  BY <1>1, ReadOutOfRangeInv
<1>2. CASE ~ReadOutOfRange
  <2>1. /\ curTrainImage < images_train.size
        /\ trainRects' = [set |-> images_train.set, img |-> curTrainImage,
                          detector |-> detector]
        /\ trainPix' = [set |-> images_train.set, img |-> curTrainImage]
        /\ curTrainImage' = Advance(curTrainImage, images_train.size)
        /\ shownTrain' = Append(shownTrain, curTrainImage)
        /\ UNCHANGED <<images_train, images_test, curTestImage, detector,
                       saved, testPix, testRects, running, outOfRange,
                       setups, shownTest>>
    BY <1>2 DEF nextTrainImage, Shown, Rects
  <2>2. /\ images_train.size \in Nat \ {0} /\ images_train.set \in 0 .. MaxSetups
        /\ curTrainImage \in Nat /\ shownTrain \in Seq(Nat)
    BY <2>1 DEF TrainerInv, TypeOK
  <2>3. curTrainImage' \in Nat
    BY <2>1, <2>2, AdvanceInRange
  <2>4. shownTrain' \in Seq(Nat)
    BY <2>1, <2>2
  <2>5. TypeOK'
    BY <2>1, <2>2, <2>3, <2>4 DEF TrainerInv, TypeOK
  <2>6. TestCursorInRange' /\ detector'.set <= setups'
    BY <2>1 DEF TestCursorInRange, TrainerInv
  <2>7. Showing'
    <3> SUFFICES ASSUME Ready'
                 PROVE  /\ testRects' = [set |-> testPix'.set, img |-> testPix'.img,
                                         detector |-> detector']
                        /\ trainRects' = [set |-> trainPix'.set, img |-> trainPix'.img,
                                          detector |-> detector']
                        /\ Walk(shownTest', curTestImage', images_test'.size)
                        /\ Walk(shownTrain', curTrainImage', images_train'.size)
      BY DEF Showing
    <3>1. Ready
      BY <2>1 DEF Ready
    <3>2. Walk(shownTrain, curTrainImage, images_train.size)
      BY <3>1 DEF TrainerInv, Showing
    <3>3. Walk(shownTrain', curTrainImage', images_train'.size)
      BY <2>1, <3>2, WalkGoesOn
    <3> QED BY <2>1, <3>1, <3>3 DEF TrainerInv, Showing
  <2> QED BY <2>5, <2>6, <2>7 DEF TrainerInv
<1> QED BY <1>1, <1>2

LEMMA TrainerInvariant == Spec => []TrainerInv
<1>1. TrainerInv /\ [Next]_vars => TrainerInv'
  <2> SUFFICES ASSUME TrainerInv, [Next]_vars PROVE TrainerInv'
    OBVIOUS
  <2>1. CASE \E n, m \in Sizes : setup(n, m)
    BY <2>1, SetupInv
  <2>2. CASE nextTestImage \/ nextTrainImage
    BY <2>2, NextTestImageInv, NextTrainImageInv
  <2>3. CASE UNCHANGED vars
    BY <2>3 DEF vars, TrainerInv, TypeOK, TestCursorInRange, Showing, Ready
  <2> QED BY <2>1, <2>2, <2>3 DEF Next
<1> QED BY <1>1, InitTrainerInv, PTL DEF Spec

(* Every variable keeps its type.                                          *)
THEOREM TypeCorrect == Spec => []TypeOK
<1>1. TrainerInv => TypeOK
  BY DEF TrainerInv
<1> QED BY <1>1, TrainerInvariant, PTL

(* The testing set's cursor never leaves its set, whatever failed before:  *)
(* every setup zeroes it before anything can throw.                        *)
THEOREM TestCursorStaysInside == Spec => []TestCursorInRange
<1>1. TrainerInv => TestCursorInRange
  BY DEF TrainerInv
<1> QED BY <1>1, TrainerInvariant, PTL

(* After a setup that ended, pictures and rectangles in both halves of the *)
(* window belong together, however many setups failed before.              *)
THEOREM RectsBelongToPictures == Spec => []RectsMatchPictures
<1>1. TrainerInv => RectsMatchPictures
  BY DEF TrainerInv, Showing, RectsMatchPictures
<1> QED BY <1>1, TrainerInvariant, PTL

(* Either key shows every image of its set once in every round, for every  *)
(* size and wherever the training cursor began.                            *)
THEOREM KeysShowEveryImage == Spec => []EveryImageIsShown
<1>1. TrainerInv => EveryImageIsShown
  BY WalkShowsAll DEF TrainerInv, Showing, EveryImageIsShown
<1> QED BY <1>1, TrainerInvariant, PTL
====
