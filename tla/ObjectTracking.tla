--------------------------- MODULE ObjectTracking ---------------------------
(***************************************************************************)
(* ofxDLib::ObjectTracker and the application that drives it               *)
(* (example-ObjectTracker): the user drags a selection over the video, the *)
(* next frame starts a correlation track on it, every later frame moves    *)
(* the newest rectangle of dets to the tracker's position.                 *)
(*                                                                         *)
(* openFrameworks calls the handlers below one at a time from its main     *)
(* loop, so each handler is one action; what interleaves is the order of   *)
(* mouse events and video frames.                                          *)
(*                                                                         *)
(* Points of the screen are integers: InVideo says which of them           *)
(* videoRect.inside accepts.  A position of the tracker is identified by   *)
(* the track it belongs to and the frame it was computed on, since no      *)
(* property depends on its pixels.  A rectangle keeps its extent in one    *)
(* direction only: from is its first point, to its last.                   *)
(***************************************************************************)
EXTENDS Integers, Sequences

CONSTANTS
    Points,             \* mouse coordinates, outside the video included
    InVideo,            \* the points videoRect.inside accepts
    InitialFlags,       \* what selectionTrackerInit may hold at first, and
    InitialSels,        \* sel_x .. sel_h: the class initialises neither
    MaxFrames,          \* bound: video frames of a behaviour
    MaxSelections       \* bound: accepted selections of a behaviour

ASSUME PointsAssumption ==
    /\ Points \subseteq Int
    /\ 0 \in Points
    /\ InVideo \subseteq Points

ASSUME MemoryAssumption ==
    /\ InitialFlags \subseteq BOOLEAN
    /\ InitialSels \subseteq [x : Int, w : Int]

ASSUME BoundsAssumption == MaxFrames \in Nat /\ MaxSelections \in Nat

VARIABLES
    startPoint, endPoint, bSelecting,   \* the application's drag
    selectionTrackerInit, sel,          \* ObjectTracker: pending selection
    tracker,                            \* dlib::correlation_tracker
    dets,                               \* rectangles draw() shows
    failure,                            \* the call that ended the program
    frames,                             \* history: frames handled so far
    accepted,                           \* history: selections handed over
    started                             \* history: rectangles tracks began on

appVars == <<startPoint, endPoint, bSelecting>>
history == <<frames, accepted, started>>
vars == <<startPoint, endPoint, bSelecting, selectionTrackerInit, sel,
          tracker, dets, failure, frames, accepted, started>>

(* an assertion of the correlation tracker throws, and nobody catches it *)
running == failure = "none"

(* ofRectangle(p0, p1) orders its corners, so a selection is never negative *)
Rect(p, q) == IF p <= q THEN [from |-> p, to |-> q] ELSE [from |-> q, to |-> p]

Rects == {r \in [from : Points, to : Points] : r.from <= r.to}

(* sel_x and sel_w of a selection *)
Sels == [x : Points, w : Nat]

(* slip: the size is passed where the last point is expected *)
RectFromSize(s) == [from |-> s.x, to |-> s.w]

(* dlib::rectangle(sel_x, sel_y, sel_x + sel_w, sel_y + sel_h) *)
RectOf(s) == [from |-> s.x, to |-> s.x + s.w]

IsEmptyRect(r) == r.from > r.to

(* correlation_tracker::position before start_track is an empty rectangle *)
EmptyPosition == [track |-> 0, frame |-> 0]

(* dlib::rectangle(0,0,1,1), pushed for the frame that starts a track *)
Placeholder == [track |-> 0, frame |-> 1]

Positions == [track : Nat, frame : Nat]

-----------------------------------------------------------------------------

Init ==
    /\ startPoint = 0
    /\ endPoint = 0
    /\ bSelecting = FALSE
    /\ selectionTrackerInit \in InitialFlags
    /\ sel \in InitialSels
    /\ tracker = EmptyPosition
    /\ dets = << >>
    /\ failure = "none"
    /\ frames = 0
    /\ accepted = << >>
    /\ started = << >>

mousePressed(p) ==
    /\ running
    /\ startPoint' = p
    /\ bSelecting' = TRUE
    /\ UNCHANGED <<endPoint, selectionTrackerInit, sel, tracker, dets, failure,
                   history>>

mouseDragged(p) ==
    /\ running
    /\ endPoint' = p
    /\ UNCHANGED <<startPoint, bSelecting, selectionTrackerInit, sel, tracker,
                   dets, failure, history>>

(* slip: the new selection does not ask for a new track *)
setNewSelectionKeepsFlag(r) ==
    /\ sel' = [x |-> r.from, w |-> r.to - r.from]
    /\ UNCHANGED selectionTrackerInit

(* slip: the ends are subtracted the wrong way round *)
setNewSelectionSwapsEnds(r) ==
    /\ selectionTrackerInit' = FALSE
    /\ sel' = [x |-> r.from, w |-> r.from - r.to]

setNewSelection(r) ==
    /\ selectionTrackerInit' = FALSE
    /\ sel' = [x |-> r.from, w |-> r.to - r.from]

(* A release hands the drag over only when both its ends lie in the video. *)
mouseReleased(p) ==
    /\ running
    /\ endPoint' = p
    /\ bSelecting' = FALSE
    /\ \/ /\ startPoint \in InVideo /\ p \in InVideo
          /\ Len(accepted) < MaxSelections
          /\ setNewSelection(Rect(startPoint, p))
          /\ accepted' = Append(accepted, Rect(startPoint, p))
       \/ /\ ~(startPoint \in InVideo /\ p \in InVideo)
          /\ UNCHANGED <<selectionTrackerInit, sel, accepted>>
    /\ UNCHANGED <<startPoint, tracker, dets, failure, frames, started>>

(* slip: selectionTrackerInit = true is forgotten *)
StartTrackForgetsFlag ==
    /\ selectionTrackerInit = FALSE
    /\ started' = Append(started, RectOf(sel))
    /\ tracker' = [track |-> Len(started) + 1, frame |-> frames + 1]
    /\ dets' = Append(dets, Placeholder)
    /\ UNCHANGED <<selectionTrackerInit, failure>>

(* slip: the placeholder replaces the newest rectangle *)
StartTrackReusesDet ==
    /\ selectionTrackerInit = FALSE
    /\ selectionTrackerInit' = TRUE
    /\ started' = Append(started, RectOf(sel))
    /\ tracker' = [track |-> Len(started) + 1, frame |-> frames + 1]
    /\ dets' = IF dets = << >> THEN <<Placeholder>>
               ELSE [dets EXCEPT ![Len(dets)] = Placeholder]
    /\ UNCHANGED failure

(* findObjects on the frame after a selection, and on the very first one;  *)
(* start_track refuses an empty rectangle                                  *)
StartTrack ==
    /\ selectionTrackerInit = FALSE
    /\ selectionTrackerInit' = TRUE
    /\ \/ /\ ~IsEmptyRect(RectOf(sel))
          /\ started' = Append(started, RectOf(sel))
          /\ tracker' = [track |-> Len(started) + 1, frame |-> frames + 1]
          /\ dets' = Append(dets, Placeholder)
          /\ UNCHANGED failure
       \/ /\ IsEmptyRect(RectOf(sel))
          /\ failure' = "start_track"
          /\ UNCHANGED <<started, tracker, dets>>

(* slip: dets.front() in place of dets.back() *)
UpdateTrackMovesFirst ==
    /\ selectionTrackerInit = TRUE
    /\ tracker' = [tracker EXCEPT !.frame = frames + 1]
    /\ dets' = [dets EXCEPT ![1] = tracker']
    /\ UNCHANGED <<selectionTrackerInit, started, failure>>

(* slip: the position is read before the tracker is updated *)
UpdateTrackReadsEarly ==
    /\ selectionTrackerInit = TRUE
    /\ dets' = [dets EXCEPT ![Len(dets)] = tracker]
    /\ tracker' = [tracker EXCEPT !.frame = frames + 1]
    /\ UNCHANGED <<selectionTrackerInit, started, failure>>

(* findObjects on any other frame; update() refuses to run on an empty     *)
(* position                                                                *)
UpdateTrack ==
    /\ selectionTrackerInit = TRUE
    /\ \/ /\ tracker # EmptyPosition
          /\ tracker' = [tracker EXCEPT !.frame = frames + 1]
          /\ dets' = [dets EXCEPT ![Len(dets)] = tracker']
          /\ UNCHANGED failure
       \/ /\ tracker = EmptyPosition
          /\ failure' = "update"
          /\ UNCHANGED <<tracker, dets>>
    /\ UNCHANGED <<selectionTrackerInit, started>>

(* ofApp::update with a new frame: ObjectTracker::findObjects *)
update ==
    /\ running
    /\ frames < MaxFrames
    /\ frames' = frames + 1
    /\ StartTrack \/ UpdateTrack
    /\ UNCHANGED <<appVars, sel, accepted>>

Next ==
    \/ \E p \in Points : mousePressed(p) \/ mouseDragged(p) \/ mouseReleased(p)
    \/ update

Spec == Init /\ [][Next]_vars

-----------------------------------------------------------------------------
(* Properties                                                              *)

(* Every variable keeps its type; a selection once handed over has a size. *)
TypeOK ==
    /\ startPoint \in Points /\ endPoint \in Points
    /\ bSelecting \in BOOLEAN /\ selectionTrackerInit \in BOOLEAN
    /\ failure \in {"none", "start_track", "update"}
    /\ sel \in InitialSels \cup Sels
    /\ tracker \in Positions
    /\ dets \in Seq(Positions)
    /\ frames \in 0 .. MaxFrames
    /\ accepted \in Seq(Rects)
    /\ started \in Seq([from : Int, to : Int])

(* correlation_tracker::update is never reached before start_track, which  *)
(* its assertion in update_noscale would answer by ending the program.     *)
NeverUpdatesBeforeStart == failure # "update"

(* Whatever the uninitialised members of the tracker object held at first, *)
(* an assertion can end the program only on the very first frame and only  *)
(* if no selection came before it: a selection repairs the object for good. *)
StopsOnlyUnselected ==
    ~running => accepted = << >> /\ started = << >> /\ frames = 1

(* The rectangles on screen are one per track started, in order: an older  *)
(* one is either the placeholder or a position of its own track, never of  *)
(* a later one, and only the newest is the position of the live tracker.   *)
DetsFollowTheirTracks ==
    /\ Len(dets) = Len(started)
    /\ \A i \in 1 .. Len(dets) : dets[i] = Placeholder \/ dets[i].track = i

(* The newest rectangle is never stale: it was computed on the last frame  *)
(* handled, except the placeholder shown for the frame that started it.    *)
NewestDetIsCurrent ==
    dets # << >> => /\ tracker.frame = frames
                    /\ tracker.track = Len(dets)
                    /\ dets[Len(dets)] \in {tracker, Placeholder}

(* A selection the user released is not lost to an earlier one: it is the  *)
(* one waiting for the next frame, or the one the live track began on.     *)
LatestSelectionWins ==
    accepted # << >> =>
        LET latest == accepted[Len(accepted)]
        IN  /\ ~selectionTrackerInit => RectOf(sel) = latest
            /\ selectionTrackerInit => /\ started # << >>
                                       /\ started[Len(started)] = latest

(* No frame starts a track on a rectangle nobody selected, save the first  *)
(* frame, which may track whatever sel_* of the new object holds; tracks   *)
(* begin in the order their selections were made.                          *)
TracksBeginOnSelections ==
    \A i, j \in 1 .. Len(started) :
        i < j => \E n \in 1 .. Len(accepted) :
                    started[j] = accepted[n] /\ n >= j - 1

(* A rectangle left behind by an older track never changes again, whatever *)
(* later selections and frames do.                                         *)
OldDetsStayPut ==
    [][\A i \in 1 .. Len(dets) : i < Len(started') => dets'[i] = dets[i]]_vars
=============================================================================
