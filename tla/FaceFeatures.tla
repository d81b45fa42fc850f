---------------------------- MODULE FaceFeatures ----------------------------
(***************************************************************************)
(* From the landmarks of a face to the five numbers the emotion model      *)
(* gets: convertPointsForFace places the normalised points in a box, shape *)
(* and eyebrowShape take quotients of distances between the placed points. *)
(*                                                                         *)
(* The box is not the face's own.  It is the first box of the newest       *)
(* detection when the block runs, so it may belong to another face or to a *)
(* later image.  What the model decides on must not depend on it.          *)
(*                                                                         *)
(* Arithmetic is exact: normalised coordinates are multiples of 1/Unit,    *)
(* placed ones of 1/Unit^2, and a feature is a fraction that may have the  *)
(* denominator 0.  The detour over text keeps a number as it is, because   *)
(* Swift prints a Double so that reading it back gives the same value.     *)
(***************************************************************************)
EXTENDS Integers

CONSTANTS
    Unit,      \* the grid normalised coordinates lie on
    ViewSize,  \* faceView.bounds.size
    Observed   \* faces Vision may report, with enough points in each region used

Point == [x : 0 .. Unit, y : 0 .. Unit]
Box   == [x : 0 .. Unit, y : 0 .. Unit, width : 1 .. Unit, height : 1 .. Unit]
Marks == [leftEye : [1 .. 5 -> Point], rightEye : [1 .. 5 -> Point],
          outerLips : [1 .. 11 -> Point],
          leftEyebrow : [1 .. 6 -> Point], rightEyebrow : [1 .. 6 -> Point]]

ASSUME UnitAssumption     == Unit \in Nat \ {0}
ASSUME ViewAssumption     == ViewSize \in [width : Nat \ {0}, height : Nat \ {0}]
ASSUME ObservedAssumption == Observed \subseteq [box : Box, marks : Marks]

NoBox  == <<>>   \* inputFaceObservations is nil
NoFace == <<>>   \* nothing has been classified

VARIABLES
    boundingBox,  \* inputFaceObservations?.first?.boundingBox
    face,         \* the observation last classified
    features      \* tempArray of that classification

vars == <<boundingBox, face, features>>

-----------------------------------------------------------------------------
\* CGRect.scaled(to:)
Scaled(box, size) ==
    [x |-> box.x * size.width, y |-> box.y * size.height,
     width |-> box.width * size.width, height |-> box.height * size.height]

\* Bug variant: heights are scaled by the width of the box.
PlacedByWidth(point, box) ==
    [x |-> point.x * box.width + Unit * box.x,
     y |-> Unit * (box.y + box.height) - point.y * box.width]

\* The closure of convertPointsForFace: y runs down in the view.
Placed(point, box) ==
    [x |-> point.x * box.width + Unit * box.x,
     y |-> Unit * (box.y + box.height) - point.y * box.height]

\* abs(a - b)
Dist(a, b) == IF a < b THEN b - a ELSE a - b

\* Bug variant: the sum of the ends is not halved.
ShapeOfSum(start, end, middleTop, middleBottom) ==
    [num |-> Dist(start.y + end.y, middleBottom.y), den |-> Dist(middleTop.y, middleBottom.y)]

\* shape, as a fraction with numerator and denominator doubled.
Shape(start, end, middleTop, middleBottom) ==
    [num |-> Dist(start.y + end.y, 2 * middleBottom.y),
     den |-> 2 * Dist(middleTop.y, middleBottom.y)]

\* Bug variant: absolute coordinates in the denominator may cancel out.
EyebrowShapeAcross(middle, end) == [num |-> Dist(middle.y, end.y), den |-> Dist(middle.x, end.y)]

\* eyebrowShape
EyebrowShape(middle, end) ==
    [num |-> Dist(middle.y, end.y), den |-> Dist(middle.x, end.x)]

\* The points calculateEmotion picks out of each line.
Features(marks, box) ==
    LET P(region, k) == Placed(region[k], box)
        Eye(r)  == Shape(P(r, 1), P(r, 4), P(r, 3), P(r, 5))
        Lips(r) == Shape(P(r, 1), P(r, 8), P(r, 4), P(r, 11))
        Brow(r) == EyebrowShape(P(r, 3), P(r, 6))
    IN  <<Eye(marks.leftEye), Eye(marks.rightEye), Lips(marks.outerLips),
          Brow(marks.leftEyebrow), Brow(marks.rightEyebrow)>>

-----------------------------------------------------------------------------
Init ==
    /\ boundingBox = NoBox
    /\ face = NoFace
    /\ features = <<>>

\* A detection whose first face is o.
AssignInputFaces(o) ==
    /\ boundingBox' = o.box
    /\ UNCHANGED <<face, features>>

\* The block of observation o, with the box of whatever detection is newest.
ObservationBlock(o) ==
    /\ boundingBox # NoBox
    /\ face' = o
    /\ features' = Features(o.marks, Scaled(boundingBox, ViewSize))
    /\ UNCHANGED boundingBox

Next == \E o \in Observed : AssignInputFaces(o) \/ ObservationBlock(o)

Spec == Init /\ [][Next]_vars

TypeOK ==
    /\ boundingBox \in Box \cup {NoBox}
    /\ face \in Observed \cup {NoFace}
    /\ features = <<>> \/ features \in [1 .. 5 -> [num : Nat, den : Nat]]

-----------------------------------------------------------------------------
(***************************************************************************)
(* Properties.                                                             *)
(***************************************************************************)

\* Two fractions are the same Double: the same quotient, both infinite, or both
\* NaN.
SameValue(f, g) ==
    /\ f.num * g.den = g.num * f.den
    /\ f.num = 0 <=> g.num = 0
    /\ f.den = 0 <=> g.den = 0

\* The features the face has in its own box.
OwnFeatures == Features(face.marks, Scaled(face.box, ViewSize))

\* The openness of eyes and mouth is that of the face itself, whichever other
\* face or image the box of line 361 comes from.
ShapeIgnoresBox ==
    face # NoFace => \A i \in 1 .. 3 : SameValue(features[i], OwnFeatures[i])

\* The slope of an eyebrow is not: for a brow neither level nor upright it is
\* that of the face exactly if the box used has the proportions of the face's own.
EyebrowNeedsOwnProportions ==
    [][<<face, features>>' # <<face, features>> =>
        \A i \in 4 .. 5 :
            LET own == OwnFeatures'[i]
                b   == face'.box
            IN  own.num # 0 /\ own.den # 0 =>
                    (SameValue(features'[i], own)
                        <=> boundingBox.width * b.height = boundingBox.height * b.width)]_vars

\* A division by zero (lines 480 and 488) comes from the face alone, never from
\* the box it is placed in: the top and the bottom of an eye or of the lips lie
\* on one height, or the middle of a brow above its end.
ZeroDistanceIsInFace ==
    face # NoFace =>
        \A i \in 1 .. 5 :
            features[i].den = 0 <=>
                LET m == face.marks
                IN  CASE i = 1 -> m.leftEye[3].y = m.leftEye[5].y
                      [] i = 2 -> m.rightEye[3].y = m.rightEye[5].y
                      [] i = 3 -> m.outerLips[4].y = m.outerLips[11].y
                      [] i = 4 -> m.leftEyebrow[3].x = m.leftEyebrow[6].x
                      [] i = 5 -> m.rightEyebrow[3].x = m.rightEyebrow[6].x
=============================================================================
