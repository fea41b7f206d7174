---------------------------- MODULE MCHOGLabeler ----------------------------
(* Instances of HOGLabeler for TLC: no file, or one from an earlier        *)
(* session with a box under image 0 and a blank line put in by hand.       *)
EXTENDS HOGLabeler

OldBox == [Line("box") EXCEPT !.box.id = -1]

OldFile ==
    <<Line("head"), Line("open"), Line("image"), OldBox, Line("blank"),
      Line("endimage"), Line("close"), Line("foot")>>

MCFiles == {<< >>, OldFile}

AllOutcomes == {"written", "refused", "cut", "died"}
=============================================================================
