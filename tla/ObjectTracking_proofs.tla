----------------------- MODULE ObjectTracking_proofs -----------------------
(* Proofs about ObjectTracking, for every set of points and every bound.   *)
EXTENDS ObjectTracking, TLAPS

(* Only before the first frame can the tracker be empty in a running       *)
(* program, and what the new object's memory held count: from then on a    *)
(* flag that is not set asks for a selection that was handed over.         *)
UnstartedFlag ==
    /\ dets = << >> => /\ tracker = EmptyPosition
                       /\ selectionTrackerInit => accepted = << >>
                       /\ running => frames = 0
    /\ dets # << >> /\ accepted = << >> => selectionTrackerInit

(* What keeps the rectangles, the tracker and the pending flag together:   *)
(* the newest rectangle is the live tracker's, and the latest selection is *)
(* either pending or tracked.                                              *)
TrackInv ==
    /\ TypeOK
    /\ StopsOnlyUnselected
    /\ UnstartedFlag
    /\ DetsFollowTheirTracks
    /\ NewestDetIsCurrent
    /\ LatestSelectionWins

(* A drag has a from and a to among the points, in order. *)
LEMMA RectType == ASSUME NEW p \in Points, NEW q \in Points
                  PROVE  Rect(p, q) \in Rects
BY PointsAssumption DEF Rect, Rects

(* A selection keeps the rectangle it was made from. *)
LEMMA RectOfSelection ==
    ASSUME NEW r \in Rects
    PROVE  LET s == [x |-> r.from, w |-> r.to - r.from]
           IN  s \in Sels /\ RectOf(s) = r
<1>1. r.from \in Points /\ r.to \in Points /\ r.from <= r.to
      /\ r = [from |-> r.from, to |-> r.to]
  BY DEF Rects
<1>2. r.from \in Int /\ r.to \in Int
  BY <1>1, PointsAssumption
<1>3. r.to - r.from \in Nat /\ r.from + (r.to - r.from) = r.to
  BY <1>1, <1>2
<1>4. QED
  BY <1>1, <1>3 DEF Sels, RectOf

(* TrackInv holds at first, whatever the memory of the new object held. *)
LEMMA InitTrackInv == ASSUME Init PROVE TrackInv
<1>1. /\ startPoint \in Points /\ endPoint \in Points
      /\ sel \in InitialSels
      /\ tracker \in Positions
      /\ dets \in Seq(Positions)
      /\ frames \in 0 .. MaxFrames
      /\ accepted \in Seq(Rects)
      /\ started \in Seq([from : Int, to : Int])
  BY PointsAssumption, BoundsAssumption DEF Init, EmptyPosition, Positions
<1>2. bSelecting \in BOOLEAN /\ selectionTrackerInit \in BOOLEAN
  BY MemoryAssumption, Zenon DEF Init
<1>3. /\ accepted = << >> /\ dets = << >> /\ started = << >>
      /\ tracker = EmptyPosition /\ frames = 0 /\ failure = "none"
  BY DEF Init
<1>4. TypeOK
  BY <1>1, <1>2, <1>3 DEF TypeOK
<1>5. QED
  BY <1>3, <1>4
     DEF TrackInv, StopsOnlyUnselected, UnstartedFlag, DetsFollowTheirTracks,
         NewestDetIsCurrent, LatestSelectionWins, running

(* The mouse handlers keep TrackInv. *)
LEMMA MouseTrackInv ==
    ASSUME TrackInv, NEW p \in Points,
           mousePressed(p) \/ mouseDragged(p) \/ mouseReleased(p)
    PROVE  TrackInv'
<1>1. CASE mousePressed(p)
  BY <1>1 DEF mousePressed, TrackInv, TypeOK, DetsFollowTheirTracks,
     StopsOnlyUnselected, UnstartedFlag, NewestDetIsCurrent,
     LatestSelectionWins, running, history
<1>2. CASE mouseDragged(p)
  BY <1>2 DEF mouseDragged, TrackInv, TypeOK, DetsFollowTheirTracks,
     StopsOnlyUnselected, UnstartedFlag, NewestDetIsCurrent,
     LatestSelectionWins, running, history
<1>3. CASE mouseReleased(p)
  <2>1. UNCHANGED <<startPoint, tracker, dets, failure, frames, started>>
    BY <1>3 DEF mouseReleased
  <2>2. DetsFollowTheirTracks' /\ NewestDetIsCurrent'
    BY <2>1 DEF TrackInv, DetsFollowTheirTracks, NewestDetIsCurrent
  <2>3. running /\ running' /\ StopsOnlyUnselected'
    BY <1>3, <2>1 DEF mouseReleased, StopsOnlyUnselected, running
  <2>4. CASE /\ setNewSelection(Rect(startPoint, p))
             /\ accepted' = Append(accepted, Rect(startPoint, p))
    <3>1. Rect(startPoint, p) \in Rects
      BY RectType DEF TrackInv, TypeOK
    <3>2. /\ ~selectionTrackerInit' /\ selectionTrackerInit' \in BOOLEAN
          /\ sel' \in Sels /\ RectOf(sel') = Rect(startPoint, p)
      <4>1. sel' \in Sels /\ RectOf(sel') = Rect(startPoint, p)
        BY <2>4, <3>1, RectOfSelection DEF setNewSelection
      <4>2. ~selectionTrackerInit' /\ selectionTrackerInit' \in BOOLEAN
        BY <2>4, Zenon DEF setNewSelection
      <4>3. QED
        BY <4>1, <4>2
    <3>3. /\ accepted' \in Seq(Rects) /\ accepted' # << >>
          /\ accepted'[Len(accepted')] = Rect(startPoint, p)
      <4>1. accepted \in Seq(Rects)
        BY DEF TrackInv, TypeOK
      <4>2. QED
        BY <2>4, <3>1, <4>1
    <3>4. TypeOK'
      <4>1. bSelecting' \in BOOLEAN
        BY <1>3, Zenon DEF mouseReleased
      <4>2. endPoint' \in Points
        BY <1>3 DEF mouseReleased
      <4>3. QED
        BY <2>1, <3>2, <3>3, <4>1, <4>2 DEF TrackInv, TypeOK
    <3>5. LatestSelectionWins' /\ UnstartedFlag'
      BY <2>1, <3>2, <3>3
         DEF TrackInv, LatestSelectionWins, UnstartedFlag, running
    <3>6. QED
      BY <2>2, <2>3, <3>4, <3>5 DEF TrackInv
  <2>5. CASE UNCHANGED <<selectionTrackerInit, sel, accepted>>
    <3>1. TypeOK' /\ LatestSelectionWins'
      BY <1>3, <2>1, <2>5
         DEF mouseReleased, TrackInv, TypeOK, LatestSelectionWins
    <3>2. UnstartedFlag'
      BY <2>1, <2>5 DEF TrackInv, UnstartedFlag, running
    <3>3. QED
      BY <2>2, <2>3, <3>1, <3>2 DEF TrackInv
  <2>6. QED
    BY <1>3, <2>4, <2>5 DEF mouseReleased
<1>4. QED
  BY <1>1, <1>2, <1>3

(* A frame keeps TrackInv: it starts a track and its placeholder together, *)
(* or moves the newest rectangle with the tracker.                         *)
LEMMA FrameTrackInv == ASSUME TrackInv, update PROVE TrackInv'
<1>1. /\ frames \in Nat /\ frames' = frames + 1 /\ frames' \in 0 .. MaxFrames
      /\ UNCHANGED <<startPoint, endPoint, bSelecting, sel, accepted>>
  BY BoundsAssumption DEF update, TrackInv, TypeOK, appVars
<1>2. Len(dets) \in Nat /\ Len(dets) = Len(started)
  BY DEF TrackInv, TypeOK, DetsFollowTheirTracks
<1>3. running
  BY DEF update
<1>4. CASE StartTrack /\ ~IsEmptyRect(RectOf(sel))
  <2>1. /\ started' = Append(started, RectOf(sel))
        /\ tracker' = [track |-> Len(started) + 1, frame |-> frames + 1]
        /\ dets' = Append(dets, Placeholder)
        /\ UNCHANGED failure
    BY <1>4 DEF StartTrack
  <2>2. ~selectionTrackerInit /\ selectionTrackerInit'
        /\ selectionTrackerInit' \in BOOLEAN
    BY <1>4, Zenon DEF StartTrack
  <2>3. tracker' \in Positions /\ Placeholder \in Positions
    BY <1>1, <1>2, <2>1 DEF Positions, Placeholder
  <2>4. /\ started' # << >> /\ started'[Len(started')] = RectOf(sel)
        /\ started' \in Seq([from : Int, to : Int])
    <3>1. RectOf(sel) \in [from : Int, to : Int]
      <4>1. sel.x \in Int /\ sel.w \in Int
        <5>1. sel \in InitialSels \/ sel \in Sels
          BY DEF TrackInv, TypeOK
        <5>2. CASE sel \in InitialSels
          BY <5>2, MemoryAssumption
        <5>3. CASE sel \in Sels
          <6>1. sel.x \in Points /\ sel.w \in Nat
            BY <5>3 DEF Sels
          <6>2. sel.x \in Int
            BY <6>1, PointsAssumption
          <6>3. sel.w \in Int
            BY <6>1
          <6>4. QED
            BY <6>2, <6>3
        <5>4. QED
          BY <5>1, <5>2, <5>3
      <4>2. sel.x + sel.w \in Int
        BY <4>1
      <4>3. QED
        BY <4>1, <4>2 DEF RectOf
    <3>2. started \in Seq([from : Int, to : Int])
      BY DEF TrackInv, TypeOK
    <3>3. QED
      BY <2>1, <3>1, <3>2
  <2>5. TypeOK'
    BY <1>1, <2>1, <2>2, <2>3, <2>4 DEF TrackInv, TypeOK
  <2>6. DetsFollowTheirTracks' /\ NewestDetIsCurrent' /\ dets' # << >>
    BY <1>1, <1>2, <2>1, <2>3
       DEF TrackInv, TypeOK, DetsFollowTheirTracks, NewestDetIsCurrent
  <2>7. LatestSelectionWins'
    <3>1. accepted # << >> => RectOf(sel) = accepted[Len(accepted)]
      BY <2>2 DEF TrackInv, LatestSelectionWins
    <3>2. QED
      BY <1>1, <2>2, <2>4, <3>1 DEF LatestSelectionWins
  <2>8. StopsOnlyUnselected' /\ UnstartedFlag'
    BY <1>3, <2>1, <2>2, <2>6
       DEF StopsOnlyUnselected, UnstartedFlag, running
  <2>9. QED
    BY <2>5, <2>6, <2>7, <2>8 DEF TrackInv
<1>5. CASE UpdateTrack /\ dets # << >>
  <2>1. tracker # EmptyPosition
    BY <1>2, <1>5 DEF TrackInv, TypeOK, NewestDetIsCurrent, EmptyPosition
  <2>2. /\ tracker' = [tracker EXCEPT !.frame = frames + 1]
        /\ dets' = [dets EXCEPT ![Len(dets)] = tracker']
        /\ UNCHANGED <<failure, selectionTrackerInit, started>>
    BY <1>5, <2>1 DEF UpdateTrack
  <2>3. tracker' \in Positions
    <3>1. tracker \in Positions /\ frames + 1 \in Nat
      BY <1>1 DEF TrackInv, TypeOK
    <3>2. QED
      BY <2>2, <3>1 DEF Positions
  <2>4. dets' \in Seq(Positions) /\ Len(dets') = Len(dets)
    BY <1>2, <1>5, <2>2, <2>3 DEF TrackInv, TypeOK
  <2>5. TypeOK'
    BY <1>1, <2>2, <2>3, <2>4 DEF TrackInv, TypeOK
  <2>6. DetsFollowTheirTracks' /\ NewestDetIsCurrent' /\ dets' # << >>
    <3>1. /\ Len(dets) \in Nat \ {0} /\ Len(dets') = Len(dets)
          /\ \A i \in 1 .. Len(dets) :
                dets'[i] = IF i = Len(dets) THEN tracker' ELSE dets[i]
      BY <1>2, <1>5, <2>2, <2>4 DEF TrackInv, TypeOK
    <3>2. tracker'.track = Len(dets) /\ tracker'.frame = frames'
      BY <1>1, <1>2, <1>5, <2>2 DEF TrackInv, TypeOK, NewestDetIsCurrent, Positions
    <3>3. DetsFollowTheirTracks'
      BY <2>2, <3>1, <3>2 DEF TrackInv, DetsFollowTheirTracks, Placeholder
    <3>4. NewestDetIsCurrent' /\ dets' # << >>
      BY <3>1, <3>2 DEF NewestDetIsCurrent
    <3>5. QED
      BY <3>3, <3>4
  <2>7. LatestSelectionWins'
    BY <1>1, <2>2 DEF TrackInv, LatestSelectionWins
  <2>8. StopsOnlyUnselected' /\ UnstartedFlag'
    BY <1>3, <1>5, <1>1, <2>2, <2>6
       DEF StopsOnlyUnselected, UnstartedFlag, running, TrackInv
  <2>9. QED
    BY <2>5, <2>6, <2>7, <2>8 DEF TrackInv
<1>6. CASE /\ UNCHANGED <<tracker, dets, started>>
           /\ accepted = << >> /\ dets = << >>
           /\ failure' \in {"start_track", "update"}
           /\ selectionTrackerInit' /\ selectionTrackerInit' \in BOOLEAN
  <2>1. tracker = EmptyPosition /\ frames = 0 /\ started = << >>
    BY <1>2, <1>3, <1>6 DEF TrackInv, TypeOK, UnstartedFlag
  <2>2. TypeOK'
    BY <1>1, <1>6 DEF TrackInv, TypeOK
  <2>3. DetsFollowTheirTracks' /\ NewestDetIsCurrent' /\ LatestSelectionWins'
    BY <1>1, <1>2, <1>6, <2>1
       DEF DetsFollowTheirTracks, NewestDetIsCurrent, LatestSelectionWins
  <2>4. StopsOnlyUnselected' /\ UnstartedFlag'
    BY <1>1, <1>6, <2>1 DEF StopsOnlyUnselected, UnstartedFlag, running
  <2>5. QED
    BY <2>2, <2>3, <2>4 DEF TrackInv
<1>7. ASSUME StartTrack, IsEmptyRect(RectOf(sel)) PROVE accepted = << >> /\ dets = << >>
  <2>1. ~selectionTrackerInit
    BY <1>7, Zenon DEF StartTrack
  <2>2. ASSUME accepted # << >> PROVE FALSE
    <3>1. RectOf(sel) = accepted[Len(accepted)]
      BY <2>1, <2>2 DEF TrackInv, LatestSelectionWins
    <3>2. accepted[Len(accepted)] \in Rects
      <4>1. accepted \in Seq(Rects)
        BY DEF TrackInv, TypeOK
      <4>2. QED
        BY <2>2, <4>1
    <3>3. QED
      <4>1. /\ RectOf(sel).from \in Int /\ RectOf(sel).to \in Int
            /\ RectOf(sel).from <= RectOf(sel).to
        BY <3>1, <3>2, PointsAssumption DEF Rects
      <4>2. RectOf(sel).from > RectOf(sel).to
        BY <1>7 DEF IsEmptyRect
      <4>3. QED
        BY <4>1, <4>2
  <2>3. QED
    BY <2>1, <2>2 DEF TrackInv, UnstartedFlag
<1>8. CASE StartTrack /\ IsEmptyRect(RectOf(sel))
  <2>1. UNCHANGED <<tracker, dets, started>> /\ failure' = "start_track"
    BY <1>8 DEF StartTrack
  <2>2. selectionTrackerInit' /\ selectionTrackerInit' \in BOOLEAN
    BY <1>8, Zenon DEF StartTrack
  <2>3. QED
    BY <1>6, <1>7, <1>8, <2>1, <2>2
<1>9. CASE UpdateTrack /\ dets = << >>
  <2>1. selectionTrackerInit /\ selectionTrackerInit' = selectionTrackerInit
    BY <1>9, Zenon DEF UpdateTrack
  <2>2. tracker = EmptyPosition /\ accepted = << >>
    BY <1>9, <2>1 DEF TrackInv, UnstartedFlag
  <2>3. UNCHANGED <<tracker, dets, started>> /\ failure' = "update"
    BY <1>9, <2>2 DEF UpdateTrack
  <2>4. selectionTrackerInit' /\ selectionTrackerInit' \in BOOLEAN
    BY <2>1 DEF TrackInv, TypeOK
  <2>5. QED
    BY <1>6, <1>9, <2>2, <2>3, <2>4
<1>10. QED
  BY <1>4, <1>5, <1>8, <1>9 DEF update

(* TrackInv is inductive. *)
LEMMA NextTrackInv == ASSUME TrackInv, [Next]_vars PROVE TrackInv'
<1>1. CASE UNCHANGED vars
  BY <1>1 DEF vars, TrackInv, TypeOK, StopsOnlyUnselected, UnstartedFlag,
     DetsFollowTheirTracks, NewestDetIsCurrent, LatestSelectionWins, running
<1>2. CASE Next
  BY <1>2, MouseTrackInv, FrameTrackInv DEF Next
<1>3. QED
  BY <1>1, <1>2

(* TrackInv holds throughout, whatever the new object's memory held. *)
LEMMA AlwaysTrackInv == Spec => []TrackInv
<1>1. Init => TrackInv
  BY InitTrackInv
<1>2. TrackInv /\ [Next]_vars => TrackInv'
  BY NextTrackInv
<1>3. QED
  BY <1>1, <1>2, PTL DEF Spec

(* The variables of ObjectTracker and of the application keep their types. *)
THEOREM TypeCorrect == Spec => []TypeOK
<1>1. TrackInv => TypeOK
  BY DEF TrackInv
<1>2. QED
  BY <1>1, AlwaysTrackInv, PTL

(* The assertions of the correlation tracker can end the program only on   *)
(* the first frame, and only when no selection preceded it.                *)
THEOREM SelectionPreventsStop == Spec => []StopsOnlyUnselected
<1>1. TrackInv => StopsOnlyUnselected
  BY DEF TrackInv
<1>2. QED
  BY <1>1, AlwaysTrackInv, PTL

(* The rectangles on screen are one per track, and each shows a position   *)
(* of its own track.                                                       *)
THEOREM DetsAreTracks == Spec => []DetsFollowTheirTracks
<1>1. TrackInv => DetsFollowTheirTracks
  BY DEF TrackInv
<1>2. QED
  BY <1>1, AlwaysTrackInv, PTL

(* The newest rectangle on screen shows what the tracker found on the last *)
(* frame.                                                                  *)
THEOREM DetIsCurrent == Spec => []NewestDetIsCurrent
<1>1. TrackInv => NewestDetIsCurrent
  BY DEF TrackInv
<1>2. QED
  BY <1>1, AlwaysTrackInv, PTL

(* The user's latest selection is the one pending or the one tracked.      *)
THEOREM LatestSelectionTracked == Spec => []LatestSelectionWins
<1>1. TrackInv => LatestSelectionWins
  BY DEF TrackInv
<1>2. QED
  BY <1>1, AlwaysTrackInv, PTL

(* With the flag zeroed at first, a set flag means that a track exists. *)
FlagMeansTrack ==
    /\ failure # "update"
    /\ running /\ selectionTrackerInit => dets # << >>

(* No handler breaks FlagMeansTrack. *)
LEMMA NextFlagMeansTrack ==
    ASSUME TrackInv, FlagMeansTrack, [Next]_vars PROVE FlagMeansTrack'
<1>1. CASE UNCHANGED vars
  BY <1>1 DEF vars, FlagMeansTrack, running
<1>2. CASE \E p \in Points : mousePressed(p) \/ mouseDragged(p) \/ mouseReleased(p)
  <2>1. UNCHANGED <<dets, failure>>
    BY <1>2 DEF mousePressed, mouseDragged, mouseReleased
  <2>2. selectionTrackerInit' => selectionTrackerInit
    BY <1>2, Zenon
       DEF mousePressed, mouseDragged, mouseReleased, setNewSelection, history
  <2>3. QED
    BY <2>1, <2>2 DEF FlagMeansTrack, running
<1>3. CASE update /\ StartTrack
  <2>1. \/ UNCHANGED failure /\ dets' = Append(dets, Placeholder)
        \/ failure' = "start_track"
    BY <1>3 DEF StartTrack
  <2>2. Append(dets, Placeholder) # << >>
    <3>1. dets \in Seq(Positions)
      BY DEF TrackInv, TypeOK
    <3>2. Placeholder \in Positions
      BY DEF Placeholder, Positions
    <3>3. Len(Append(dets, Placeholder)) = Len(dets) + 1 /\ Len(dets) \in Nat
      BY <3>1, <3>2
    <3>4. QED
      BY <3>3
  <2>3. QED
    BY <2>1, <2>2 DEF FlagMeansTrack, running
<1>4. CASE update /\ UpdateTrack
  <2>1. dets # << >> /\ Len(dets) \in Nat
    BY <1>4 DEF update, UpdateTrack, FlagMeansTrack, TrackInv, TypeOK
  <2>2. tracker # EmptyPosition
    BY <2>1 DEF TrackInv, TypeOK, NewestDetIsCurrent, EmptyPosition
  <2>3. UNCHANGED failure /\ dets' = [dets EXCEPT ![Len(dets)] = tracker']
    BY <1>4, <2>2 DEF UpdateTrack
  <2>4. dets' # << >>
    BY <2>1, <2>3 DEF TrackInv, TypeOK
  <2>5. QED
    BY <2>3, <2>4 DEF FlagMeansTrack
<1>5. QED
  BY <1>1, <1>2, <1>3, <1>4 DEF Next, update

(* In the example application, whose tracker object new ofApp() zeroes,    *)
(* update() of the correlation tracker never runs before start_track, so   *)
(* its assertion never ends the program.                                   *)
THEOREM NoUpdateBeforeStart ==
    ASSUME InitialFlags = {FALSE} PROVE Spec => []NeverUpdatesBeforeStart
<1>1. Init => FlagMeansTrack
  <2>1. Init => ~selectionTrackerInit
    BY Zenon DEF Init
  <2>2. QED
    BY <2>1 DEF Init, FlagMeansTrack
<1>2. TrackInv /\ FlagMeansTrack /\ [Next]_vars => FlagMeansTrack'
  BY NextFlagMeansTrack
<1>3. FlagMeansTrack => NeverUpdatesBeforeStart
  BY DEF FlagMeansTrack, NeverUpdatesBeforeStart
<1>4. QED
  BY <1>1, <1>2, <1>3, AlwaysTrackInv, PTL DEF Spec

(* Every track but the first used a selection up, and the flag asks for    *)
(* another track only when one more selection came than was used.          *)
SelectionsSuffice ==
    /\ Len(started) <= Len(accepted) + 1
    /\ started # << >> /\ ~selectionTrackerInit => Len(started) <= Len(accepted)

OrderInv == TracksBeginOnSelections /\ SelectionsSuffice

(* A release that hands over a selection leaves one more than was used.    *)
LEMMA MouseOrderInv ==
    ASSUME TrackInv, OrderInv, NEW p \in Points,
           mousePressed(p) \/ mouseDragged(p) \/ mouseReleased(p)
    PROVE  OrderInv'
<1>1. started' = started /\ Len(started) \in Nat
  BY DEF mousePressed, mouseDragged, mouseReleased, history, TrackInv, TypeOK
<1>2. CASE UNCHANGED <<selectionTrackerInit, accepted>>
  BY <1>1, <1>2 DEF OrderInv, TracksBeginOnSelections, SelectionsSuffice
<1>3. CASE accepted' = Append(accepted, Rect(startPoint, p))
  <2>1. Rect(startPoint, p) \in Rects /\ accepted \in Seq(Rects)
    BY RectType DEF TrackInv, TypeOK
  <2>2. /\ Len(accepted) \in Nat /\ Len(accepted') = Len(accepted) + 1
        /\ \A n \in 1 .. Len(accepted) : accepted'[n] = accepted[n]
    BY <1>3, <2>1
  <2>3. Len(started) <= Len(accepted')
    BY <1>1, <2>2 DEF OrderInv, SelectionsSuffice
  <2>4. SelectionsSuffice'
    BY <1>1, <2>2, <2>3 DEF SelectionsSuffice
  <2>5. TracksBeginOnSelections'
    <3> SUFFICES ASSUME NEW i \in 1 .. Len(started), NEW j \in 1 .. Len(started), i < j
                 PROVE  \E n \in 1 .. Len(accepted') : started[j] = accepted'[n] /\ n >= j - 1
      BY <1>1 DEF TracksBeginOnSelections
    <3>1. PICK n \in 1 .. Len(accepted) : started[j] = accepted[n] /\ n >= j - 1
      BY DEF OrderInv, TracksBeginOnSelections
    <3>2. n \in 1 .. Len(accepted') /\ accepted'[n] = accepted[n]
      BY <2>2
    <3> QED BY <3>1, <3>2
  <2> QED BY <2>4, <2>5 DEF OrderInv
<1> QED BY <1>2, <1>3 DEF mousePressed, mouseDragged, mouseReleased, history

(* A frame starts a track only on the latest selection, and uses it up.    *)
LEMMA FrameOrderInv == ASSUME TrackInv, OrderInv, update PROVE OrderInv'
<1>1. /\ accepted' = accepted /\ Len(started) \in Nat /\ Len(accepted) \in Nat
      /\ started \in Seq([from : Int, to : Int])
  BY DEF update, TrackInv, TypeOK
<1>2. Len(started) <= Len(accepted) + 1 /\ TracksBeginOnSelections
  BY DEF OrderInv, SelectionsSuffice
<1>3. CASE UNCHANGED started /\ selectionTrackerInit'
  <2>1. SelectionsSuffice'
    BY <1>1, <1>2, <1>3 DEF SelectionsSuffice
  <2>2. TracksBeginOnSelections'
    BY <1>1, <1>2, <1>3 DEF TracksBeginOnSelections
  <2> QED BY <2>1, <2>2 DEF OrderInv
<1>4. CASE StartTrack /\ started' = Append(started, RectOf(sel))
  <2>1. ~selectionTrackerInit /\ selectionTrackerInit'
    BY <1>4, Zenon DEF StartTrack
  <2>2. ASSUME started # << >>
        PROVE  Len(started) <= Len(accepted) /\ Len(accepted) > 0 /\ accepted # << >>
    <3>1. Len(started) <= Len(accepted)
      BY <2>1, <2>2, Zenon DEF OrderInv, SelectionsSuffice
    <3>2. Len(started) > 0
      BY <1>1, <2>2
    <3>3. Len(accepted) > 0
      BY <1>1, <3>1, <3>2
    <3> QED BY <3>1, <3>3
  <2>3. accepted # << >> => RectOf(sel) = accepted[Len(accepted)]
    BY <2>1, Zenon DEF TrackInv, LatestSelectionWins
  <2>4. /\ Len(started') = Len(started) + 1
        /\ \A i \in 1 .. Len(started) : started'[i] = started[i]
        /\ started'[Len(started) + 1] = RectOf(sel)
    BY <1>1, <1>4
  <2>5. SelectionsSuffice'
    <3>1. Len(started') <= Len(accepted) + 1
      BY <1>1, <2>2, <2>4
    <3> QED BY <1>1, <2>1, <3>1, Zenon DEF SelectionsSuffice
  <2>6. TracksBeginOnSelections'
    <3> SUFFICES ASSUME NEW i \in 1 .. Len(started'), NEW j \in 1 .. Len(started'), i < j
                 PROVE  \E n \in 1 .. Len(accepted) : started'[j] = accepted[n] /\ n >= j - 1
      BY <1>1 DEF TracksBeginOnSelections
    <3>1. CASE j <= Len(started)
      <4>1. i \in 1 .. Len(started) /\ j \in 1 .. Len(started)
        BY <1>1, <2>4, <3>1
      <4>2. \E n \in 1 .. Len(accepted) : started[j] = accepted[n] /\ n >= j - 1
        BY <1>2, <4>1 DEF TracksBeginOnSelections
      <4> QED BY <2>4, <4>1, <4>2
    <3>2. CASE j > Len(started)
      <4>1. j = Len(started) + 1 /\ Len(started) > 0
        <5>1. i \in 1 .. Len(started) + 1 /\ j \in 1 .. Len(started) + 1
          BY <2>4
        <5> QED BY <1>1, <3>2, <5>1
      <4>2. started # << >>
        BY <1>1, <4>1
      <4>3. Len(accepted) \in 1 .. Len(accepted) /\ Len(accepted) >= j - 1
        BY <1>1, <2>2, <4>1, <4>2
      <4>4. started'[j] = accepted[Len(accepted)]
        BY <2>2, <2>3, <2>4, <4>1, <4>2
      <4> QED BY <4>3, <4>4
    <3> QED BY <1>1, <2>4, <3>1, <3>2
  <2> QED BY <2>5, <2>6 DEF OrderInv
<1>5. StartTrack => selectionTrackerInit'
  BY Zenon DEF StartTrack
<1>6. UpdateTrack => selectionTrackerInit' /\ UNCHANGED started
  <2>1. UpdateTrack => selectionTrackerInit /\ selectionTrackerInit' = selectionTrackerInit
    BY Zenon DEF UpdateTrack
  <2> QED BY <2>1 DEF UpdateTrack
<1> QED BY <1>3, <1>4, <1>5, <1>6 DEF update, StartTrack

(* Every track but the first begins on a rectangle that was selected, the  *)
(* j-th on the (j-1)-th selection or a later one.                          *)
THEOREM TracksFollowSelections == Spec => []TracksBeginOnSelections
<1>1. Init => OrderInv
  BY DEF Init, OrderInv, TracksBeginOnSelections, SelectionsSuffice
<1>2. TrackInv /\ OrderInv /\ [Next]_vars => OrderInv'
  <2> SUFFICES ASSUME TrackInv, OrderInv, [Next]_vars PROVE OrderInv'
    OBVIOUS
  <2>1. CASE UNCHANGED vars
    BY <2>1 DEF vars, OrderInv, TracksBeginOnSelections, SelectionsSuffice
  <2>2. CASE Next
    BY <2>2, MouseOrderInv, FrameOrderInv DEF Next
  <2> QED BY <2>1, <2>2
<1>3. OrderInv => TracksBeginOnSelections
  BY DEF OrderInv
<1> QED BY <1>1, <1>2, <1>3, AlwaysTrackInv, PTL DEF Spec

(* A rectangle left behind by an older track never changes again.          *)
THEOREM OldDetsNeverMove == Spec => OldDetsStayPut
<1>1. TrackInv /\ [Next]_vars =>
         [\A i \in 1 .. Len(dets) : i < Len(started') => dets'[i] = dets[i]]_vars
  <2> SUFFICES ASSUME TrackInv, Next, NEW i \in 1 .. Len(dets), i < Len(started')
               PROVE  dets'[i] = dets[i]
    OBVIOUS
  <2>1. dets \in Seq(Positions) /\ Len(started) = Len(dets) /\ Len(dets) \in Nat
    BY DEF TrackInv, TypeOK, DetsFollowTheirTracks
  <2>2. CASE \E p \in Points : mousePressed(p) \/ mouseDragged(p) \/ mouseReleased(p)
    BY <2>2 DEF mousePressed, mouseDragged, mouseReleased
  <2>3. CASE StartTrack
    BY <2>1, <2>3 DEF StartTrack, Placeholder, Positions
  <2>4. CASE UpdateTrack
    <3>1. i # Len(dets)
      BY <2>1, <2>4 DEF UpdateTrack
    <3> QED BY <2>1, <2>4, <3>1 DEF UpdateTrack
  <2> QED BY <2>2, <2>3, <2>4 DEF Next, update
<1> QED BY <1>1, AlwaysTrackInv, PTL DEF Spec, OldDetsStayPut
====
