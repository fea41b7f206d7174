----------------------------- MODULE HOGLabeler -----------------------------
(***************************************************************************)
(* The labelling tool example-HOGLabeler: the user drags boxes over the    *)
(* image on display and presses n, which appends an <image> entry with the *)
(* boxes to boxFile.xml and shows the next image.  The file is rewritten   *)
(* in place from the lines a hand-written filter keeps of the old one, and *)
(* the result of the write is ignored.                                     *)
(*                                                                         *)
(* The handlers run one at a time, so each is one action; the process can  *)
(* end between any two of them, and in the middle of the write.  A file is *)
(* a sequence of lines, a line its kind and what it names; a missing file, *)
(* an empty one and one that cannot be read lead to the same text and are  *)
(* all << >>.  A cut write ends between two lines.  isPressed and          *)
(* mouseDragged only steer drawing and are left out.                       *)
(***************************************************************************)
EXTENDS Integers, Sequences, FiniteSets

CONSTANTS
    NumImages,          \* imageFilePaths.size()
    Outcomes,           \* what may become of a write, see Write
    InitialFiles,       \* the boxFile.xml an earlier session may have left
    MaxBoxes,           \* bound: boxes drawn in a behaviour
    MaxSaves,           \* bound: n keys of a behaviour
    MaxNudges           \* bound: arrow keys per box

ASSUME ConstantsAssumption ==
    /\ NumImages \in Nat \ {0}
    /\ Outcomes \subseteq {"written", "refused", "cut", "died"}
    /\ MaxBoxes \in Nat /\ MaxSaves \in Nat /\ MaxNudges \in Nat

Images == 0 .. NumImages - 1

(* a box: its number (not above 0 in an old file), the image on display    *)
(* when its drag began and when it ended, how far the arrow keys moved it  *)
Boxes == [id : Int, from : Images, to : Images, nudge : 0 .. MaxNudges]

NoBox == [id |-> 0, from |-> 0, to |-> 0, nudge |-> 0]

Tags == {"head", "open", "image", "box", "endimage", "close", "foot", "blank"}
Lines == [tag : Tags, img : Images, box : Boxes]

Line(tag) == [tag |-> tag, img |-> 0, box |-> NoBox]

VARIABLES
    running,            \* FALSE while the application is not running
    currentIndex,
    startPoint,         \* the image under the last mouse press
    allRects,
    file,               \* boxFile.xml on disk
    drawn,              \* history: boxes drawn so far
    saves,              \* history: n keys so far
    asked,              \* history: label lines the file ought to hold
    lastWrite,          \* history: what became of the last write
    torn, failed        \* history: some write was cut; some did not succeed

session == <<running, currentIndex, startPoint, allRects>>
history == <<drawn, saves, asked, lastWrite, torn, failed>>
vars == <<running, currentIndex, startPoint, allRects, file, drawn, saves,
          asked, lastWrite, torn, failed>>

-----------------------------------------------------------------------------
(* The text saveRects writes                                               *)

(* the lines of f at the places in I, in their order *)
At(I, k) == CHOOSE i \in I : Cardinality({j \in I : j <= i}) = k
Pick(f, I) == [k \in 1 .. Cardinality(I) |-> f[At(I, k)]]

(* slip: nothing is copied before </images> has been seen *)
AddingNeedsClose(f, i) ==
    /\ \E j \in 1 .. i - 1 : f[j].tag = "open"
    /\ \E k \in i + 1 .. Len(f) : f[k].tag = "close"

(* slip: startAdding is set before the line is copied *)
AddingTooEarly(f, i) ==
    \E j \in 1 .. i :
        /\ f[j].tag = "open"
        /\ \A k \in j + 1 .. i : f[k].tag # "close"

(* startAdding when the loop tests line i: an <images> came before it and  *)
(* no </images> since                                                      *)
Adding(f, i) ==
    \E j \in 1 .. i - 1 :
        /\ f[j].tag = "open"
        /\ \A k \in j + 1 .. i : f[k].tag # "close"

(* the lines of the old file that are copied *)
Copied(f) == {i \in 1 .. Len(f) : f[i].tag # "blank" /\ Adding(f, i)}
Kept(f) == Pick(f, Copied(f))

Entry(i, rects) ==
    <<[Line("image") EXCEPT !.img = i]>>
        \o [k \in 1 .. Len(rects) |-> [Line("box") EXCEPT !.box = rects[k]]]
        \o <<Line("endimage")>>

(* slip: the old file is not read *)
TextFromScratch ==
    <<Line("head"), Line("open")>> \o Entry(currentIndex, allRects)
        \o <<Line("close"), Line("foot")>>

Text ==
    <<Line("head"), Line("open")>> \o Kept(file)
        \o Entry(currentIndex, allRects)
        \o <<Line("close"), Line("foot")>>

(* ofBufferToFile truncates the file and writes the text: all of it, none  *)
(* (the file would not open), or a part of it (the disk is full, or the    *)
(* process ends first)                                                     *)
Write(outcome) ==
    /\ \/ /\ outcome = "written"
          /\ file' = Text
       \/ /\ outcome = "refused"
          /\ UNCHANGED file
       \/ /\ outcome \in {"cut", "died"}
          /\ \E n \in 0 .. Len(Text) - 1 : file' = SubSeq(Text, 1, n)
    /\ running' = (outcome # "died")

-----------------------------------------------------------------------------

(* slip: the boxes are not cleared after the write *)
saveRectsKeeps(outcome) == Write(outcome) /\ UNCHANGED allRects

saveRects(outcome) ==
    /\ Write(outcome)
    /\ allRects' = << >>

(* slip: clamped to the number of images *)
ClampToSize(i) == IF i > NumImages THEN NumImages ELSE i

Clamp(i) == IF i > NumImages - 1 THEN NumImages - 1 ELSE i

(* slip: the index is advanced before the boxes are saved *)
keyNAdvancesFirst(outcome) ==
    /\ running /\ saves < MaxSaves
    /\ file' = <<Line("head"), Line("open")>> \o Kept(file)
                   \o Entry(Clamp(currentIndex + 1), allRects)
                   \o <<Line("close"), Line("foot")>>
    /\ allRects' = << >>
    /\ currentIndex' = Clamp(currentIndex + 1)
    /\ saves' = saves + 1
    /\ UNCHANGED <<running, startPoint, drawn, asked, lastWrite, torn, failed>>

(* n: save, then show the next image, or the last one again *)
keyN(outcome) ==
    /\ running /\ saves < MaxSaves
    /\ saveRects(outcome)
    /\ currentIndex' = Clamp(currentIndex + 1)
    /\ saves' = saves + 1
    /\ asked' = asked \o Entry(currentIndex, allRects)
    /\ lastWrite' = outcome
    /\ torn' = (torn \/ outcome \in {"cut", "died"})
    /\ failed' = (failed \/ outcome # "written")
    /\ UNCHANGED <<startPoint, drawn>>

mousePressed ==
    /\ running
    /\ startPoint' = currentIndex
    /\ UNCHANGED <<running, currentIndex, allRects, file, history>>

(* a release adds a box whether or not the press was on this image *)
mouseReleased ==
    /\ running /\ drawn < MaxBoxes
    /\ drawn' = drawn + 1
    /\ allRects' = Append(allRects, [id |-> drawn + 1, from |-> startPoint,
                                     to |-> currentIndex, nudge |-> 0])
    /\ UNCHANGED <<running, currentIndex, startPoint, file, saves, asked,
                   lastWrite, torn, failed>>

(* x *)
removeLast ==
    /\ running /\ allRects # << >>
    /\ allRects' = SubSeq(allRects, 1, Len(allRects) - 1)
    /\ UNCHANGED <<running, currentIndex, startPoint, file, history>>

(* the arrow keys *)
nudgeLast ==
    /\ running /\ allRects # << >>
    /\ allRects[Len(allRects)].nudge < MaxNudges
    /\ allRects' = [allRects EXCEPT ![Len(allRects)].nudge = @ + 1]
    /\ UNCHANGED <<running, currentIndex, startPoint, file, history>>

(* x or an arrow with no box: pop_back() and back() of an empty vector     *)
(* write outside it, which ends the process or passes unnoticed            *)
keyWithoutBox ==
    /\ running /\ allRects = << >>
    /\ running' \in BOOLEAN
    /\ UNCHANGED <<currentIndex, startPoint, allRects, file, history>>

(* the window is closed, or the machine stops *)
Quit ==
    /\ running
    /\ running' = FALSE
    /\ UNCHANGED <<currentIndex, startPoint, allRects, file, history>>

(* a new process: setup() lists the same images and shows the first *)
setup ==
    /\ ~running
    /\ running' = TRUE
    /\ currentIndex' = 0
    /\ startPoint' = 0
    /\ allRects' = << >>
    /\ UNCHANGED <<file, history>>

(* which line may stand under which in a file load_image_dataset can parse *)
Follows ==
    {<<"head", "open">>, <<"open", "image">>, <<"open", "close">>,
     <<"image", "box">>, <<"image", "endimage">>, <<"box", "box">>,
     <<"box", "endimage">>, <<"endimage", "image">>, <<"endimage", "close">>,
     <<"close", "foot">>}

WellFormed(f) ==
    LET text == Pick(f, {i \in 1 .. Len(f) : f[i].tag # "blank"})
    IN  /\ text # << >>
        /\ text[1].tag = "head" /\ text[Len(text)].tag = "foot"
        /\ \A i \in 1 .. Len(text) - 1 :
              <<text[i].tag, text[i + 1].tag>> \in Follows

(* every box in f stands under the image that was on display when it was   *)
(* drawn: the nearest <image> line above it names that image               *)
UnderItsImage(f) ==
    \A i, j \in 1 .. Len(f) :
        /\ i < j /\ f[i].tag = "image" /\ f[j].tag = "box"
        /\ \A k \in i + 1 .. j - 1 : f[k].tag # "image"
        => f[i].img = f[j].box.to

BoxesDiffer(f) ==
    \A i, j \in 1 .. Len(f) :
        i # j /\ f[i].tag = "box" /\ f[j].tag = "box" => f[i].box.id # f[j].box.id

(* an earlier session left its file whole; its boxes are not counted here *)
ASSUME InitialFilesAssumption ==
    \A f \in InitialFiles :
        /\ f \in Seq(Lines)
        /\ f # << >> => WellFormed(f)
        /\ UnderItsImage(f) /\ BoxesDiffer(f)
        /\ \A i \in 1 .. Len(f) : f[i].box.id <= 0

LabelTags == {"image", "box", "endimage"}
LabelLines(f) == Pick(f, {i \in 1 .. Len(f) : f[i].tag \in LabelTags})

Init ==
    /\ running = TRUE
    /\ currentIndex = 0
    /\ startPoint = 0
    /\ allRects = << >>
    /\ file \in InitialFiles
    /\ drawn = 0
    /\ saves = 0
    /\ asked = LabelLines(file)
    /\ lastWrite = "written"
    /\ torn = FALSE
    /\ failed = FALSE

Next ==
    \/ \E outcome \in Outcomes : keyN(outcome)
    \/ mousePressed \/ mouseReleased \/ removeLast \/ nudgeLast
    \/ keyWithoutBox \/ Quit \/ setup

Spec == Init /\ [][Next]_vars

-----------------------------------------------------------------------------
(* Properties                                                              *)

(* Every variable keeps its type; a file and the labels are lines. *)
TypeOK ==
    /\ running \in BOOLEAN /\ torn \in BOOLEAN /\ failed \in BOOLEAN
    /\ currentIndex \in Images /\ startPoint \in Images
    /\ allRects \in Seq(Boxes)
    /\ file \in Seq(Lines) /\ asked \in Seq(Lines)
    /\ drawn \in 0 .. MaxBoxes /\ saves \in 0 .. MaxSaves
    /\ lastWrite \in {"written", "refused", "cut", "died"}

(* Rewriting the file from the lines the filter keeps leaves it well       *)
(* formed, over any number of saves and restarts, as long as no write of   *)
(* it was cut.                                                             *)
FileStaysWellFormed == file # << >> /\ ~torn => WellFormed(file)

(* A box goes into the file at most once, and is then no longer on the     *)
(* screen to be saved again under the next image.                          *)
BoxesSavedOnce ==
    /\ BoxesDiffer(file)
    /\ \A i \in 1 .. Len(file), k \in 1 .. Len(allRects) :
          file[i].tag = "box" => file[i].box.id # allRects[k].id

(* A box is saved under the image that was on display when it was drawn,   *)
(* even in a file with a cut entry.                                        *)
BoxesUnderTheirImage == UnderItsImage(file)

(* While every write succeeds, restarts lose and duplicate nothing: the    *)
(* label lines of the file are those of the first file and of every n, in  *)
(* order.                                                                  *)
SavedUnlessWriteFails == ~failed => LabelLines(file) = asked

CompleteEntries(f) ==
    {e \in {SubSeq(f, p[1], p[2]) : p \in (1 .. Len(f)) \X (1 .. Len(f))} :
        /\ Len(e) > 1
        /\ e[1].tag = "image" /\ e[Len(e)].tag = "endimage"
        /\ \A k \in 2 .. Len(e) - 1 : e[k].tag = "box"}

(* A write that succeeds keeps every complete entry of the old file, even  *)
(* when a cut write before it left the file without its end.               *)
CompleteEntriesSurvive ==
    [][saves' # saves /\ lastWrite' = "written"
        => CompleteEntries(file) \subseteq CompleteEntries(file')]_vars

(* Every time n is pressed the image name and its boxes get saved. *)
EveryNSaves == LabelLines(file) = asked
=============================================================================
