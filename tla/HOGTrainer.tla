----------------------------- MODULE HOGTrainer -----------------------------
(***************************************************************************)
(* ofxDLib::HOGtrainer and example-HOGTrainer: setup() loads a training    *)
(* and a testing set, trains a detector, saves it and shows one image of   *)
(* each set with the detector's rectangles; the keys 1 and 2 show the next *)
(* one of either set, round and round.                                     *)
(*                                                                         *)
(* An image is the number of the setup() call that loaded it and its index *)
(* in its array; a detector is the setup() call that trained it and        *)
(* whether its filters were thresholded.  setup() throws where loading,    *)
(* training or saving fails.  The example catches nothing; other users of  *)
(* the class may (Catches), and may call setup() again (MaxSetups).        *)
(***************************************************************************)
EXTENDS Integers, Sequences

CONSTANTS
    Sizes,              \* images a training.xml or testing.xml may list
    Memory,             \* what curTrainImage may hold before anything sets it
    Catches,            \* does the caller of setup() catch what it throws?
    MaxSetups,          \* bound: setup() calls of a behaviour
    MaxKeys             \* bound: next-image calls per array and behaviour

ASSUME ConstantsAssumption ==
    /\ Sizes \subseteq Nat
    /\ Memory \subseteq Nat
    /\ Catches \in BOOLEAN
    /\ MaxSetups \in Nat /\ MaxKeys \in Nat

VARIABLES
    images_train, images_test,      \* [set, size] of the two arrays
    curTrainImage, curTestImage,    \* cursors into them
    detector,                       \* [set, thresholded]
    saved,                          \* face_detector.svm on disk, NoDetector
                                    \* also for a part of one
    trainPix, testPix,              \* the images shown: [set, img]
    trainRects, testRects,          \* [set, img, detector]: where they come from
    running,                        \* FALSE after an exception nobody caught
    outOfRange,                     \* an array was read past its end
    setups,                         \* history: setup() calls so far
    shownTrain, shownTest           \* history: images shown since setup()

vars == <<images_train, images_test, curTrainImage, curTestImage, detector,
          saved, trainPix, testPix, trainRects, testRects, running,
          outOfRange, setups, shownTrain, shownTest>>

NoArray == [set |-> 0, size |-> 0]
NoDetector == [set |-> 0, thresholded |-> FALSE]
NoImage == [set |-> 0, img |-> 0]
NoRects == [set |-> 0, img |-> 0, detector |-> NoDetector]

Init ==
    /\ images_train = NoArray /\ images_test = NoArray
    /\ curTrainImage \in Memory /\ curTestImage \in Memory
    /\ detector = NoDetector /\ saved = NoDetector
    /\ trainPix = NoImage /\ testPix = NoImage
    /\ trainRects = NoRects /\ testRects = NoRects
    /\ running = TRUE /\ outOfRange = FALSE
    /\ setups = 0
    /\ shownTrain = << >> /\ shownTest = << >>

(* slip: the last image is never shown *)
AdvanceShort(cur, size) == IF cur + 1 >= size - 1 THEN 0 ELSE cur + 1

(* slip: > for >= *)
AdvanceLate(cur, size) == IF cur + 1 > size THEN 0 ELSE cur + 1

(* cur++; if (cur >= size) cur = 0; *)
Advance(cur, size) == IF cur + 1 >= size THEN 0 ELSE cur + 1

(* what nextTestImage and nextTrainImage leave on the screen *)
Shown(images, cur) == [set |-> images.set, img |-> cur]
Rects(images, cur, d) == [set |-> images.set, img |-> cur, detector |-> d]

(* a part of a set, left in the array when loading stops half-way *)
Parts(n) == 0 .. n - 1

-----------------------------------------------------------------------------
(* setup(), by how far it gets.  Every branch starts with curTestImage = 0 *)
(* and leaves curTrainImage alone until nextTrainImage uses it.            *)

Trained == [set |-> setups', thresholded |-> FALSE]
Final == [set |-> setups', thresholded |-> TRUE]

(* slip: the detector is thresholded before it is saved *)
SerializedLate == Final

(* the detector face_detector.svm receives *)
Serialized == Trained

(* slip: the screen is filled before the filters are thresholded *)
UsedToShowEarly == Trained

(* the detector of the rectangles setup leaves on the screen *)
UsedToShow == Final

Thrown ==
    /\ curTestImage' = 0
    /\ running' = Catches
    /\ UNCHANGED <<curTrainImage, trainPix, trainRects, testRects, outOfRange,
                   shownTrain, shownTest>>

(* training.xml, or an image it lists, cannot be read *)
LoadTrainFails(n) ==
    /\ \E k \in {0} \cup Parts(n) : images_train' = [set |-> setups', size |-> k]
    /\ Thrown
    /\ UNCHANGED <<images_test, detector, saved, testPix>>

(* testing.xml cannot be read: the training set is new, not flipped yet *)
LoadTestFails(n, m) ==
    /\ images_train' = [set |-> setups', size |-> n]
    /\ \E k \in {0} \cup Parts(m) : images_test' = [set |-> setups', size |-> k]
    /\ Thrown
    /\ UNCHANGED <<detector, saved, testPix>>

(* both sets are loaded; the flips double the training set *)
Loaded(n, m) ==
    /\ images_train' = [set |-> setups', size |-> 2 * n]
    /\ images_test' = [set |-> setups', size |-> m]

(* images_test[0] of an empty testing set *)
NoTestImage(n) ==
    /\ Loaded(n, 0)
    /\ outOfRange' = TRUE /\ running' = FALSE
    /\ curTestImage' = 0
    /\ UNCHANGED <<curTrainImage, detector, saved, trainPix, testPix,
                   trainRects, testRects, shownTrain, shownTest>>

(* setup got past images_test[0]: the first test image is on the screen *)
FirstTestImage(n, m) ==
    /\ m > 0
    /\ Loaded(n, m)
    /\ testPix' = [set |-> setups', img |-> 0]

(* the labels allow no detector: train() throws *)
TrainFails(n, m) ==
    FirstTestImage(n, m) /\ Thrown /\ UNCHANGED <<detector, saved>>

(* face_detector.svm cannot be opened; or it was emptied and cannot be     *)
(* written; or it was written and cannot be read back                      *)
SaveFails(n, m) ==
    /\ FirstTestImage(n, m) /\ Thrown
    /\ detector' = Trained
    /\ saved' \in {saved, NoDetector, Serialized}

(* images_train[0] of an empty training set, if training got that far *)
NoTrainImage(m) ==
    /\ FirstTestImage(0, m)
    /\ detector' = Trained /\ saved' = Serialized
    /\ outOfRange' = TRUE /\ running' = FALSE
    /\ curTestImage' = 0
    /\ UNCHANGED <<curTrainImage, trainPix, trainRects, testRects, shownTrain,
                   shownTest>>

(* setup() ends by showing test image 0 and the training image under       *)
(* curTrainImage, which it never set                                       *)
Succeeds(n, m) ==
    /\ n > 0
    /\ FirstTestImage(n, m)
    /\ saved' = Serialized
    /\ detector' = Final
    /\ testRects' = Rects(images_test', 0, UsedToShow)
    /\ curTestImage' = Advance(0, m)
    /\ shownTest' = <<0>>
    /\ \/ /\ curTrainImage < 2 * n
          /\ trainPix' = Shown(images_train', curTrainImage)
          /\ trainRects' = Rects(images_train', curTrainImage, UsedToShow)
          /\ curTrainImage' = Advance(curTrainImage, 2 * n)
          /\ shownTrain' = <<curTrainImage>>
          /\ UNCHANGED <<running, outOfRange>>
       \/ /\ curTrainImage >= 2 * n
          /\ outOfRange' = TRUE
          /\ running' = FALSE
          /\ UNCHANGED <<trainPix, trainRects, curTrainImage, shownTrain>>

setup(n, m) ==
    /\ running /\ setups < MaxSetups
    /\ setups' = setups + 1
    /\ \/ LoadTrainFails(n) \/ LoadTestFails(n, m)
       \/ m = 0 /\ NoTestImage(n)
       \/ n = 0 /\ NoTrainImage(m)
       \/ TrainFails(n, m) \/ SaveFails(n, m) \/ Succeeds(n, m)

-----------------------------------------------------------------------------

(* reading past the end of an array: nothing after it can be relied on *)
ReadOutOfRange ==
    /\ outOfRange' = TRUE
    /\ running' = FALSE
    /\ UNCHANGED <<images_train, images_test, curTrainImage, curTestImage,
                   detector, saved, trainPix, testPix, trainRects, testRects,
                   setups, shownTrain, shownTest>>

(* the key 1 *)
nextTestImage ==
    /\ running /\ setups > 0 /\ Len(shownTest) < MaxKeys
    /\ \/ /\ curTestImage < images_test.size
          /\ testRects' = Rects(images_test, curTestImage, detector)
          /\ testPix' = Shown(images_test, curTestImage)
          /\ curTestImage' = Advance(curTestImage, images_test.size)
          /\ shownTest' = Append(shownTest, curTestImage)
          /\ UNCHANGED <<images_train, images_test, curTrainImage, detector,
                         saved, trainPix, trainRects, running, outOfRange,
                         setups, shownTrain>>
       \/ curTestImage >= images_test.size /\ ReadOutOfRange

(* the key 2 *)
nextTrainImage ==
    /\ running /\ setups > 0 /\ Len(shownTrain) < MaxKeys
    /\ \/ /\ curTrainImage < images_train.size
          /\ trainRects' = Rects(images_train, curTrainImage, detector)
          /\ trainPix' = Shown(images_train, curTrainImage)
          /\ curTrainImage' = Advance(curTrainImage, images_train.size)
          /\ shownTrain' = Append(shownTrain, curTrainImage)
          /\ UNCHANGED <<images_train, images_test, curTestImage, detector,
                         saved, testPix, testRects, running, outOfRange,
                         setups, shownTest>>
       \/ curTrainImage >= images_train.size /\ ReadOutOfRange

Next ==
    \/ \E n, m \in Sizes : setup(n, m)
    \/ nextTestImage \/ nextTrainImage

Spec == Init /\ [][Next]_vars

-----------------------------------------------------------------------------
(* Properties                                                              *)

(* Every variable keeps its type. *)
TypeOK ==
    /\ images_train \in [set : 0 .. MaxSetups, size : Nat]
    /\ images_test \in [set : 0 .. MaxSetups, size : Nat]
    /\ curTrainImage \in Nat /\ curTestImage \in Nat
    /\ detector \in [set : 0 .. MaxSetups, thresholded : BOOLEAN]
    /\ saved \in [set : 0 .. MaxSetups, thresholded : {FALSE}]
    /\ trainPix \in [set : 0 .. MaxSetups, img : Nat]
    /\ testPix \in [set : 0 .. MaxSetups, img : Nat]
    /\ running \in BOOLEAN /\ outOfRange \in BOOLEAN
    /\ setups \in 0 .. MaxSetups
    /\ shownTrain \in Seq(Nat) /\ shownTest \in Seq(Nat)

(* The cursors never index past the end of the arrays they walk. *)
AccessInRange == ~outOfRange

(* The testing set's cursor stays in range through every failed and        *)
(* repeated setup, unlike the training set's (AccessInRange).              *)
TestCursorInRange ==
    running /\ images_test.size > 0 => curTestImage < images_test.size

(* the last setup() ran to its end *)
Ready == running /\ setups > 0 /\ detector = [set |-> setups, thresholded |-> TRUE]

(* Once setup has ended, however many failed before it, the rectangles on  *)
(* screen were found on the image on screen by the detector in use, in     *)
(* both halves of the window.                                              *)
RectsMatchPictures ==
    Ready =>
        /\ testRects = [set |-> testPix.set, img |-> testPix.img,
                        detector |-> detector]
        /\ trainRects = [set |-> trainPix.set, img |-> trainPix.img,
                         detector |-> detector]

(* any size consecutive shows are of size different images *)
Cycles(shown, size) ==
    \A i, j \in 1 .. Len(shown) : i < j /\ j < i + size => shown[i] # shown[j]

ShowsAll(shown, size) ==
    Len(shown) >= size =>
        \A i \in 0 .. size - 1 : \E k \in 1 .. Len(shown) : shown[k] = i

(* Pressing a key as often as a set has images shows every image of it,    *)
(* mirrored training images included, and none twice before that.          *)
EveryImageIsShown ==
    Ready => /\ Cycles(shownTest, images_test.size)
             /\ Cycles(shownTrain, images_train.size)
             /\ ShowsAll(shownTest, images_test.size)
             /\ ShowsAll(shownTrain, images_train.size)
=============================================================================
