------------------------- MODULE FaceFeaturesProofs --------------------------
(***************************************************************************)
(* For every view, every grid and every set of faces: the openness of eyes *)
(* and mouth does not depend on the box the points are placed in, the      *)
(* slope of a brow depends on the proportions of that box only, and no box *)
(* makes a denominator zero that is not zero in the face.                  *)
(***************************************************************************)
EXTENDS FaceFeatures, TLAPS

\* A box of the view with some extent.
IsPlace(b) ==
    /\ b.x \in Nat /\ b.y \in Nat
    /\ b.width \in Nat \ {0} /\ b.height \in Nat \ {0}

\* Placing two heights in a box scales their distance by the box's height,
\* wherever the box lies.
LEMMA DistScales ==
    ASSUME NEW c \in Int, NEW h \in Nat, NEW a \in Nat, NEW b \in Nat
    PROVE  /\ Dist(c - a * h, c - b * h) = Dist(a, b) * h
           /\ Dist(a * h + c, b * h + c) = Dist(a, b) * h
<1>1. CASE a < b
  <2>1. PICK d \in Nat : d > 0 /\ b = a + d
    BY <1>1
  <2>2. b * h = a * h + d * h /\ d * h \in Nat /\ a * h \in Nat
    BY <2>1
  <2>3. Dist(a, b) = d
    BY <2>1 DEF Dist
  <2> QED BY <2>1, <2>2, <2>3 DEF Dist
<1>2. CASE ~ (a < b)
  <2>1. PICK d \in Nat : a = b + d
    BY <1>2
  <2>2. a * h = b * h + d * h /\ d * h \in Nat /\ b * h \in Nat
    BY <2>1
  <2>3. Dist(a, b) = d
    BY <2>1 DEF Dist
  <2> QED BY <2>1, <2>2, <2>3 DEF Dist
<1> QED BY <1>1, <1>2

\* Fractions extended by positive factors are the same Double.
LEMMA ExtendedFractions ==
    ASSUME NEW n \in Nat, NEW m \in Nat, NEW h \in Nat \ {0}, NEW k \in Nat \ {0}
    PROVE  SameValue([num |-> n * h, den |-> m * h], [num |-> n * k, den |-> m * k])
<1>1. (n * h) * (m * k) = (n * k) * (m * h)
  OBVIOUS
<1>2. n * h = 0 <=> n * k = 0
  OBVIOUS
<1>3. m * h = 0 <=> m * k = 0
  OBVIOUS
<1> QED BY <1>1, <1>2, <1>3 DEF SameValue

\* What shape computes from points placed in a box: the fraction the normalised
\* points have, extended by the height of the box.
LEMMA ShapePlaced ==
    ASSUME NEW s \in Point, NEW e \in Point, NEW t \in Point, NEW m \in Point,
           NEW b, IsPlace(b)
    PROVE  Shape(Placed(s, b), Placed(e, b), Placed(t, b), Placed(m, b))
             = [num |-> Dist(s.y + e.y, 2 * m.y) * b.height,
                den |-> (2 * Dist(t.y, m.y)) * b.height]
<1> DEFINE c == Unit * (b.y + b.height)
<1>1. /\ s.y \in Nat /\ e.y \in Nat /\ t.y \in Nat /\ m.y \in Nat
      /\ b.height \in Nat /\ c \in Int
  BY UnitAssumption DEF Point, IsPlace
<1>2. Dist(2 * c - (s.y + e.y) * b.height, 2 * c - (2 * m.y) * b.height)
        = Dist(s.y + e.y, 2 * m.y) * b.height
  <2>1. s.y + e.y \in Nat /\ 2 * m.y \in Nat /\ 2 * c \in Int
    BY <1>1
  <2> HIDE DEF c
  <2> QED BY <1>1, <2>1, DistScales
<1>3. (c - s.y * b.height) + (c - e.y * b.height) = 2 * c - (s.y + e.y) * b.height
  BY <1>1
<1>4. 2 * (c - m.y * b.height) = 2 * c - (2 * m.y) * b.height
  BY <1>1
<1>5. Dist((c - s.y * b.height) + (c - e.y * b.height), 2 * (c - m.y * b.height))
        = Dist(s.y + e.y, 2 * m.y) * b.height
  BY <1>2, <1>3, <1>4
<1>6. Dist(c - t.y * b.height, c - m.y * b.height) = Dist(t.y, m.y) * b.height
  BY <1>1, DistScales
<1>7. Dist(t.y, m.y) \in Nat
  BY <1>1 DEF Dist
<1>8. 2 * (Dist(t.y, m.y) * b.height) = (2 * Dist(t.y, m.y)) * b.height
  BY <1>1, <1>7
<1> QED BY <1>5, <1>6, <1>8 DEF Shape, Placed

\* What eyebrowShape computes from points placed in a box.
LEMMA EyebrowShapePlaced ==
    ASSUME NEW p \in Point, NEW e \in Point, NEW b, IsPlace(b)
    PROVE  EyebrowShape(Placed(p, b), Placed(e, b))
             = [num |-> Dist(p.y, e.y) * b.height, den |-> Dist(p.x, e.x) * b.width]
<1> DEFINE c == Unit * (b.y + b.height)
           d == Unit * b.x
<1>1. /\ p.x \in Nat /\ e.x \in Nat /\ p.y \in Nat /\ e.y \in Nat
      /\ b.height \in Nat /\ b.width \in Nat /\ c \in Int /\ d \in Int
  BY UnitAssumption DEF Point, IsPlace
<1> HIDE DEF c, d
<1>2. \A u, v \in Nat : Dist(c - u * b.height, c - v * b.height) = Dist(u, v) * b.height
  BY <1>1, DistScales
<1>3. \A u, v \in Nat : Dist(u * b.width + d, v * b.width + d) = Dist(u, v) * b.width
  <2> SUFFICES ASSUME NEW u \in Nat, NEW v \in Nat
               PROVE  Dist(u * b.width + d, v * b.width + d) = Dist(u, v) * b.width
    OBVIOUS
  <2> QED BY <1>1, DistScales
<1> USE DEF c, d
<1>4. Dist(c - p.y * b.height, c - e.y * b.height) = Dist(p.y, e.y) * b.height
  BY <1>1, <1>2
<1>5. Dist(p.x * b.width + d, e.x * b.width + d) = Dist(p.x, e.x) * b.width
  BY <1>1, <1>3
<1> QED BY <1>4, <1>5 DEF EyebrowShape, Placed

\* A distance extended by a positive factor is zero when the points coincide.
LEMMA ZeroDistance ==
    ASSUME NEW a \in Nat, NEW b \in Nat, NEW h \in Nat \ {0}
    PROVE  /\ Dist(a, b) \in Nat
           /\ Dist(a, b) * h \in Nat /\ (2 * Dist(a, b)) * h \in Nat
           /\ Dist(a, b) * h = 0 <=> a = b
           /\ (2 * Dist(a, b)) * h = 0 <=> a = b
<1>1. Dist(a, b) \in Nat /\ (Dist(a, b) = 0 <=> a = b)
  BY DEF Dist
<1>2. \A d \in Nat : d * h \in Nat /\ (d * h = 0 <=> d = 0)
  OBVIOUS
<1> QED BY <1>1, <1>2

-----------------------------------------------------------------------------
\* The five features before they are scaled: what each of them is a fraction of.
Plain(m) ==
    LET Eye(r)  == [num |-> Dist(r[1].y + r[4].y, 2 * r[5].y), den |-> 2 * Dist(r[3].y, r[5].y)]
        Lips(r) == [num |-> Dist(r[1].y + r[8].y, 2 * r[11].y), den |-> 2 * Dist(r[4].y, r[11].y)]
        Brow(r) == [num |-> Dist(r[3].y, r[6].y), den |-> Dist(r[3].x, r[6].x)]
    IN  <<Eye(m.leftEye), Eye(m.rightEye), Lips(m.outerLips),
          Brow(m.leftEyebrow), Brow(m.rightEyebrow)>>

LEMMA FeaturesPlaced ==
    ASSUME NEW m \in Marks, NEW b, IsPlace(b)
    PROVE  /\ \A i \in 1 .. 3 : Features(m, b)[i] = [num |-> Plain(m)[i].num * b.height,
                                                    den |-> Plain(m)[i].den * b.height]
           /\ \A i \in 4 .. 5 : Features(m, b)[i] = [num |-> Plain(m)[i].num * b.height,
                                                    den |-> Plain(m)[i].den * b.width]
           /\ \A i \in 1 .. 5 : Plain(m)[i].num \in Nat /\ Plain(m)[i].den \in Nat
<1>2. ASSUME NEW p \in Point, NEW q \in Point, NEW v \in Point
      PROVE  /\ Dist(p.y, q.y) \in Nat /\ Dist(p.x, q.x) \in Nat
             /\ Dist(p.y + v.y, 2 * q.y) \in Nat
  BY <1>2, UnitAssumption DEF Point, Dist
<1>3. /\ m.leftEye \in [1 .. 5 -> Point] /\ m.rightEye \in [1 .. 5 -> Point]
      /\ m.outerLips \in [1 .. 11 -> Point]
      /\ m.leftEyebrow \in [1 .. 6 -> Point] /\ m.rightEyebrow \in [1 .. 6 -> Point]
  BY DEF Marks
<1>4. /\ m.leftEye[1] \in Point /\ m.leftEye[3] \in Point /\ m.leftEye[4] \in Point
      /\ m.leftEye[5] \in Point
      /\ m.rightEye[1] \in Point /\ m.rightEye[3] \in Point /\ m.rightEye[4] \in Point
      /\ m.rightEye[5] \in Point
      /\ m.outerLips[1] \in Point /\ m.outerLips[4] \in Point /\ m.outerLips[8] \in Point
      /\ m.outerLips[11] \in Point
      /\ m.leftEyebrow[3] \in Point /\ m.leftEyebrow[6] \in Point
      /\ m.rightEyebrow[3] \in Point /\ m.rightEyebrow[6] \in Point
  BY <1>3
<1>e. \A p, e \in Point :
         EyebrowShape(Placed(p, b), Placed(e, b))
           = [num |-> Dist(p.y, e.y) * b.height, den |-> Dist(p.x, e.x) * b.width]
  BY EyebrowShapePlaced
<1> DEFINE F == Features(m, b)
           P == Plain(m)
<1>5. F[1] = [num |-> P[1].num * b.height, den |-> P[1].den * b.height]
  <2>1. F[1] = Shape(Placed(m.leftEye[1], b), Placed(m.leftEye[4], b),
                     Placed(m.leftEye[3], b), Placed(m.leftEye[5], b))
    BY DEF Features
  <2>2. /\ P[1].num = Dist(m.leftEye[1].y + m.leftEye[4].y, 2 * m.leftEye[5].y)
        /\ P[1].den = 2 * Dist(m.leftEye[3].y, m.leftEye[5].y)
    BY DEF Plain
  <2>3. Shape(Placed(m.leftEye[1], b), Placed(m.leftEye[4], b),
                     Placed(m.leftEye[3], b), Placed(m.leftEye[5], b))
          = [num |-> Dist(m.leftEye[1].y + m.leftEye[4].y, 2 * m.leftEye[5].y) * b.height,
             den |-> (2 * Dist(m.leftEye[3].y, m.leftEye[5].y)) * b.height]
    <3> DEFINE p1 == m.leftEye[1]
               p2 == m.leftEye[4]
               p3 == m.leftEye[3]
               p4 == m.leftEye[5]
    <3>1. p1 \in Point /\ p2 \in Point /\ p3 \in Point /\ p4 \in Point
      BY <1>4
    <3> HIDE DEF p1, p2, p3, p4
    <3>2. Shape(Placed(p1, b), Placed(p2, b), Placed(p3, b), Placed(p4, b))
            = [num |-> Dist(p1.y + p2.y, 2 * p4.y) * b.height,
               den |-> (2 * Dist(p3.y, p4.y)) * b.height]
      BY <3>1, ShapePlaced
    <3> QED BY <3>2 DEF p1, p2, p3, p4
  <2> HIDE DEF F, P
  <2> QED BY <2>1, <2>2, <2>3
<1>6. F[2] = [num |-> P[2].num * b.height, den |-> P[2].den * b.height]
  <2>1. F[2] = Shape(Placed(m.rightEye[1], b), Placed(m.rightEye[4], b),
                     Placed(m.rightEye[3], b), Placed(m.rightEye[5], b))
    BY DEF Features
  <2>2. /\ P[2].num = Dist(m.rightEye[1].y + m.rightEye[4].y, 2 * m.rightEye[5].y)
        /\ P[2].den = 2 * Dist(m.rightEye[3].y, m.rightEye[5].y)
    BY DEF Plain
  <2>3. Shape(Placed(m.rightEye[1], b), Placed(m.rightEye[4], b),
                     Placed(m.rightEye[3], b), Placed(m.rightEye[5], b))
          = [num |-> Dist(m.rightEye[1].y + m.rightEye[4].y, 2 * m.rightEye[5].y) * b.height,
             den |-> (2 * Dist(m.rightEye[3].y, m.rightEye[5].y)) * b.height]
    <3> DEFINE p1 == m.rightEye[1]
               p2 == m.rightEye[4]
               p3 == m.rightEye[3]
               p4 == m.rightEye[5]
    <3>1. p1 \in Point /\ p2 \in Point /\ p3 \in Point /\ p4 \in Point
      BY <1>4
    <3> HIDE DEF p1, p2, p3, p4
    <3>2. Shape(Placed(p1, b), Placed(p2, b), Placed(p3, b), Placed(p4, b))
            = [num |-> Dist(p1.y + p2.y, 2 * p4.y) * b.height,
               den |-> (2 * Dist(p3.y, p4.y)) * b.height]
      BY <3>1, ShapePlaced
    <3> QED BY <3>2 DEF p1, p2, p3, p4
  <2> HIDE DEF F, P
  <2> QED BY <2>1, <2>2, <2>3
<1>7. F[3] = [num |-> P[3].num * b.height, den |-> P[3].den * b.height]
  <2>1. F[3] = Shape(Placed(m.outerLips[1], b), Placed(m.outerLips[8], b),
                     Placed(m.outerLips[4], b), Placed(m.outerLips[11], b))
    BY DEF Features
  <2>2. /\ P[3].num = Dist(m.outerLips[1].y + m.outerLips[8].y, 2 * m.outerLips[11].y)
        /\ P[3].den = 2 * Dist(m.outerLips[4].y, m.outerLips[11].y)
    BY DEF Plain
  <2>3. Shape(Placed(m.outerLips[1], b), Placed(m.outerLips[8], b),
                     Placed(m.outerLips[4], b), Placed(m.outerLips[11], b))
          = [num |-> Dist(m.outerLips[1].y + m.outerLips[8].y, 2 * m.outerLips[11].y) * b.height,
             den |-> (2 * Dist(m.outerLips[4].y, m.outerLips[11].y)) * b.height]
    <3> DEFINE p1 == m.outerLips[1]
               p2 == m.outerLips[8]
               p3 == m.outerLips[4]
               p4 == m.outerLips[11]
    <3>1. p1 \in Point /\ p2 \in Point /\ p3 \in Point /\ p4 \in Point
      BY <1>4
    <3> HIDE DEF p1, p2, p3, p4
    <3>2. Shape(Placed(p1, b), Placed(p2, b), Placed(p3, b), Placed(p4, b))
            = [num |-> Dist(p1.y + p2.y, 2 * p4.y) * b.height,
               den |-> (2 * Dist(p3.y, p4.y)) * b.height]
      BY <3>1, ShapePlaced
    <3> QED BY <3>2 DEF p1, p2, p3, p4
  <2> HIDE DEF F, P
  <2> QED BY <2>1, <2>2, <2>3
<1>8. F[4] = [num |-> P[4].num * b.height, den |-> P[4].den * b.width]
  <2>1. F[4] = EyebrowShape(Placed(m.leftEyebrow[3], b), Placed(m.leftEyebrow[6], b))
    BY DEF Features
  <2>2. /\ P[4].num = Dist(m.leftEyebrow[3].y, m.leftEyebrow[6].y)
        /\ P[4].den = Dist(m.leftEyebrow[3].x, m.leftEyebrow[6].x)
    BY DEF Plain
  <2>3. EyebrowShape(Placed(m.leftEyebrow[3], b), Placed(m.leftEyebrow[6], b))
          = [num |-> Dist(m.leftEyebrow[3].y, m.leftEyebrow[6].y) * b.height, den |-> Dist(m.leftEyebrow[3].x, m.leftEyebrow[6].x) * b.width]
    BY ONLY <1>4, <1>e
  <2> HIDE DEF F, P
  <2> QED BY <2>1, <2>2, <2>3
<1>9. F[5] = [num |-> P[5].num * b.height, den |-> P[5].den * b.width]
  <2>1. F[5] = EyebrowShape(Placed(m.rightEyebrow[3], b), Placed(m.rightEyebrow[6], b))
    BY DEF Features
  <2>2. /\ P[5].num = Dist(m.rightEyebrow[3].y, m.rightEyebrow[6].y)
        /\ P[5].den = Dist(m.rightEyebrow[3].x, m.rightEyebrow[6].x)
    BY DEF Plain
  <2>3. EyebrowShape(Placed(m.rightEyebrow[3], b), Placed(m.rightEyebrow[6], b))
          = [num |-> Dist(m.rightEyebrow[3].y, m.rightEyebrow[6].y) * b.height, den |-> Dist(m.rightEyebrow[3].x, m.rightEyebrow[6].x) * b.width]
    BY ONLY <1>4, <1>e
  <2> HIDE DEF F, P
  <2> QED BY <2>1, <2>2, <2>3
<1>10. \A i \in 1 .. 5 : Plain(m)[i].num \in Nat /\ Plain(m)[i].den \in Nat
  <2>1. \A n \in Nat : 2 * n \in Nat
    OBVIOUS
  <2>2. Plain(m)[1].num \in Nat /\ Plain(m)[1].den \in Nat
    BY <1>2, <1>4, <2>1 DEF Plain
  <2>3. Plain(m)[2].num \in Nat /\ Plain(m)[2].den \in Nat
    BY <1>2, <1>4, <2>1 DEF Plain
  <2>4. Plain(m)[3].num \in Nat /\ Plain(m)[3].den \in Nat
    BY <1>2, <1>4, <2>1 DEF Plain
  <2>5. Plain(m)[4].num \in Nat /\ Plain(m)[4].den \in Nat
    BY <1>2, <1>4 DEF Plain
  <2>6. Plain(m)[5].num \in Nat /\ Plain(m)[5].den \in Nat
    BY <1>2, <1>4 DEF Plain
  <2> QED BY <2>2, <2>3, <2>4, <2>5, <2>6
<1>11. \A i \in 1 .. 3 : i = 1 \/ i = 2 \/ i = 3
  OBVIOUS
<1>12. \A i \in 4 .. 5 : i = 4 \/ i = 5
  OBVIOUS
<1> HIDE DEF F, P
<1>13. \A i \in 1 .. 3 : F[i] = [num |-> P[i].num * b.height, den |-> P[i].den * b.height]
  BY <1>5, <1>6, <1>7, <1>11
<1>14. \A i \in 4 .. 5 : F[i] = [num |-> P[i].num * b.height, den |-> P[i].den * b.width]
  BY <1>8, <1>9, <1>12
<1> QED BY <1>10, <1>13, <1>14 DEF F, P

-----------------------------------------------------------------------------
\* Whatever has been classified was classified in some box of the view.
SomeBox ==
    face # NoFace =>
        /\ face \in Observed
        /\ \E b \in Box : features = Features(face.marks, Scaled(b, ViewSize))

BoxOK == boundingBox \in Box \cup {NoBox}

\* A box of Vision keeps some extent in a view that has some.
LEMMA ScaledIsPlace ==
    ASSUME NEW b \in Box
    PROVE  IsPlace(Scaled(b, ViewSize))
<1>1. /\ b.x \in Nat /\ b.y \in Nat /\ b.width \in Nat \ {0} /\ b.height \in Nat \ {0}
      /\ ViewSize.width \in Nat \ {0} /\ ViewSize.height \in Nat \ {0}
  BY UnitAssumption, ViewAssumption DEF Box
<1>2. \A p \in Nat, q \in Nat \ {0} : p * q \in Nat /\ (p # 0 => p * q # 0)
  OBVIOUS
<1> QED BY <1>1, <1>2 DEF IsPlace, Scaled

\* The state theorem both properties follow from.
THEOREM SomeBoxAlways == Spec => [](BoxOK /\ SomeBox)
<1>1. Init => BoxOK /\ SomeBox
  BY DEF Init, BoxOK, SomeBox
<1>2. BoxOK /\ SomeBox /\ [Next]_vars => (BoxOK /\ SomeBox)'
  <2> SUFFICES ASSUME BoxOK, SomeBox, [Next]_vars PROVE (BoxOK /\ SomeBox)'
    OBVIOUS
  <2>1. ASSUME NEW o \in Observed, AssignInputFaces(o) PROVE (BoxOK /\ SomeBox)'
    BY <2>1, ObservedAssumption DEF AssignInputFaces, BoxOK, SomeBox
  <2>2. ASSUME NEW o \in Observed, ObservationBlock(o) PROVE (BoxOK /\ SomeBox)'
    BY <2>2 DEF ObservationBlock, BoxOK, SomeBox
  <2>3. CASE UNCHANGED vars
    BY <2>3 DEF vars, BoxOK, SomeBox
  <2> QED BY <2>1, <2>2, <2>3 DEF Next
<1> QED BY <1>1, <1>2, PTL DEF Spec

\* Whichever face or image the box of line 361 comes from, shape gives what it
\* would give in the face's own box.
THEOREM ShapeIgnoresBoxAlways == Spec => []ShapeIgnoresBox
<1>1. SomeBox => ShapeIgnoresBox
  <2> SUFFICES ASSUME SomeBox, face # NoFace, NEW i \in 1 .. 3
               PROVE  SameValue(features[i], OwnFeatures[i])
    BY DEF ShapeIgnoresBox
  <2>1. PICK b \in Box : features = Features(face.marks, Scaled(b, ViewSize))
    BY DEF SomeBox
  <2>2. face.box \in Box /\ face.marks \in Marks
    BY ObservedAssumption DEF SomeBox
  <2> DEFINE n == Plain(face.marks)[i].num
             d == Plain(face.marks)[i].den
             h == Scaled(b, ViewSize).height
             k == Scaled(face.box, ViewSize).height
  <2>p. IsPlace(Scaled(b, ViewSize)) /\ IsPlace(Scaled(face.box, ViewSize))
    BY <2>2, ScaledIsPlace
  <2>3. features[i] = [num |-> n * h, den |-> d * h]
    BY <2>1, <2>2, <2>p, FeaturesPlaced
  <2>4. OwnFeatures[i] = [num |-> n * k, den |-> d * k]
    BY <2>2, <2>p, FeaturesPlaced DEF OwnFeatures
  <2>5. n \in Nat /\ d \in Nat
    <3>1. \A j \in 1 .. 5 : Plain(face.marks)[j].num \in Nat /\ Plain(face.marks)[j].den \in Nat
      BY <2>2, <2>p, FeaturesPlaced
    <3>2. i \in 1 .. 5
      OBVIOUS
    <3> QED BY <3>1, <3>2
  <2>6. h \in Nat \ {0} /\ k \in Nat \ {0}
    BY <2>2, ScaledIsPlace DEF IsPlace
  <2> HIDE DEF n, d, h, k
  <2> QED BY <2>3, <2>4, <2>5, <2>6, ExtendedFractions
<1> QED BY <1>1, SomeBoxAlways, PTL

\* Only points on one height, or above each other, make a denominator zero.
THEOREM ZeroDistanceIsInFaceAlways == Spec => []ZeroDistanceIsInFace
<1>1. SomeBox => ZeroDistanceIsInFace
  <2> SUFFICES ASSUME SomeBox, face # NoFace PROVE ZeroDistanceIsInFace
    BY DEF ZeroDistanceIsInFace
  <2>1. PICK b \in Box : features = Features(face.marks, Scaled(b, ViewSize))
    BY DEF SomeBox
  <2> DEFINE m == face.marks
             h == Scaled(b, ViewSize).height
             w == Scaled(b, ViewSize).width
  <2>2. m \in Marks
    BY ObservedAssumption DEF SomeBox
  <2>3. h \in Nat \ {0} /\ w \in Nat \ {0}
    BY ScaledIsPlace DEF IsPlace
  <2> DEFINE P == Plain(m)
  <2>4. /\ features[1].den = P[1].den * h /\ features[2].den = P[2].den * h
        /\ features[3].den = P[3].den * h
        /\ features[4].den = P[4].den * w /\ features[5].den = P[5].den * w
    <3>1. IsPlace(Scaled(b, ViewSize))
      BY ScaledIsPlace
    <3>2. /\ \A i \in 1 .. 3 : features[i] = [num |-> P[i].num * h, den |-> P[i].den * h]
          /\ \A i \in 4 .. 5 : features[i] = [num |-> P[i].num * h, den |-> P[i].den * w]
      BY <2>1, <2>2, <3>1, FeaturesPlaced
    <3> HIDE DEF P, h, w
    <3> QED BY <3>2
  <2>p. /\ P[1].den = 2 * Dist(m.leftEye[3].y, m.leftEye[5].y)
        /\ P[2].den = 2 * Dist(m.rightEye[3].y, m.rightEye[5].y)
        /\ P[3].den = 2 * Dist(m.outerLips[4].y, m.outerLips[11].y)
        /\ P[4].den = Dist(m.leftEyebrow[3].x, m.leftEyebrow[6].x)
        /\ P[5].den = Dist(m.rightEyebrow[3].x, m.rightEyebrow[6].x)
    BY DEF Plain
  <2>5. /\ m.leftEye \in [1 .. 5 -> Point] /\ m.rightEye \in [1 .. 5 -> Point]
        /\ m.outerLips \in [1 .. 11 -> Point]
        /\ m.leftEyebrow \in [1 .. 6 -> Point] /\ m.rightEyebrow \in [1 .. 6 -> Point]
    BY <2>2 DEF Marks
  <2>6. \A p \in Point : p.x \in Nat /\ p.y \in Nat
    BY UnitAssumption DEF Point
  <2>7. /\ m.leftEye[3].y \in Nat /\ m.leftEye[5].y \in Nat
        /\ m.rightEye[3].y \in Nat /\ m.rightEye[5].y \in Nat
        /\ m.outerLips[4].y \in Nat /\ m.outerLips[11].y \in Nat
        /\ m.leftEyebrow[3].x \in Nat /\ m.leftEyebrow[6].x \in Nat
        /\ m.rightEyebrow[3].x \in Nat /\ m.rightEyebrow[6].x \in Nat
    BY <2>5, <2>6
  <2> HIDE DEF h, w, P
  <2>z. \A u, v \in Nat, k \in Nat \ {0} :
            /\ Dist(u, v) * k = 0 <=> u = v
            /\ (2 * Dist(u, v)) * k = 0 <=> u = v
    BY ZeroDistance
  <2> HIDE DEF m
  <2>8. features[1].den = 0 <=> m.leftEye[3].y = m.leftEye[5].y
    <3>1. (2 * Dist(m.leftEye[3].y, m.leftEye[5].y)) * h = 0 <=> m.leftEye[3].y = m.leftEye[5].y
      BY <2>3, <2>7, <2>z
    <3> QED BY <3>1, <2>4, <2>p
  <2>9. features[2].den = 0 <=> m.rightEye[3].y = m.rightEye[5].y
    <3>1. (2 * Dist(m.rightEye[3].y, m.rightEye[5].y)) * h = 0 <=> m.rightEye[3].y = m.rightEye[5].y
      BY <2>3, <2>7, <2>z
    <3> QED BY <3>1, <2>4, <2>p
  <2>10. features[3].den = 0 <=> m.outerLips[4].y = m.outerLips[11].y
    <3>1. (2 * Dist(m.outerLips[4].y, m.outerLips[11].y)) * h = 0 <=> m.outerLips[4].y = m.outerLips[11].y
      BY <2>3, <2>7, <2>z
    <3> QED BY <3>1, <2>4, <2>p
  <2>11. features[4].den = 0 <=> m.leftEyebrow[3].x = m.leftEyebrow[6].x
    <3>1. Dist(m.leftEyebrow[3].x, m.leftEyebrow[6].x) * w = 0 <=> m.leftEyebrow[3].x = m.leftEyebrow[6].x
      BY <2>3, <2>7, <2>z
    <3> QED BY <3>1, <2>4, <2>p
  <2>12. features[5].den = 0 <=> m.rightEyebrow[3].x = m.rightEyebrow[6].x
    <3>1. Dist(m.rightEyebrow[3].x, m.rightEyebrow[6].x) * w = 0 <=> m.rightEyebrow[3].x = m.rightEyebrow[6].x
      BY <2>3, <2>7, <2>z
    <3> QED BY <3>1, <2>4, <2>p
  <2> USE DEF m
  <2>13. \A i \in 1 .. 5 : i = 1 \/ i = 2 \/ i = 3 \/ i = 4 \/ i = 5
    OBVIOUS
  <2> QED BY <2>8, <2>9, <2>10, <2>11, <2>12, <2>13 DEF ZeroDistanceIsInFace
<1> QED BY <1>1, SomeBoxAlways, PTL

-----------------------------------------------------------------------------
\* A positive factor may be cancelled.
LEMMA Cancel ==
    ASSUME NEW c \in Nat \ {0}, NEW a \in Int, NEW b \in Int
    PROVE  a * c = b * c <=> a = b
<1>1. a < b => a * c < b * c
  OBVIOUS
<1>2. b < a => b * c < a * c
  OBVIOUS
<1>3. a * c \in Int /\ b * c \in Int
  OBVIOUS
<1> QED BY <1>1, <1>2, <1>3

\* A fraction whose parts are extended by two factors.
Slope(n, d, h, w) == [num |-> n * h, den |-> d * w]

\* The slope of a brow that is neither level nor upright, placed in two boxes, is the
\* same Double exactly if the boxes have the same proportions.
LEMMA SlopePlaced ==
    ASSUME NEW n \in Nat \ {0}, NEW d \in Nat \ {0},
           NEW h \in Nat \ {0}, NEW w \in Nat \ {0}, NEW k \in Nat \ {0}, NEW v \in Nat \ {0}
    PROVE  SameValue(Slope(n, d, h, w), Slope(n, d, k, v)) <=> h * v = k * w
<1>1. n * h # 0 /\ d * w # 0 /\ n * k # 0 /\ d * v # 0
  OBVIOUS
<1> DEFINE c == n * d
           x == h * v
           y == k * w
<1>2. c \in Nat \ {0} /\ x \in Int /\ y \in Int
  OBVIOUS
<1>3. (n * h) * (d * v) = x * c /\ (n * k) * (d * w) = y * c
  OBVIOUS
<1>4. x * c = y * c <=> x = y
  <2> HIDE DEF c, x, y
  <2> QED BY <1>2, Cancel
<1> QED BY <1>1, <1>3, <1>4 DEF SameValue, Slope

\* In a view the boxes of Vision keep the proportions they have to each other.
LEMMA SameProportions ==
    ASSUME NEW b \in Box, NEW a \in Box
    PROVE  LET B == Scaled(b, ViewSize)
               A == Scaled(a, ViewSize)
           IN  B.height * A.width = A.height * B.width <=> b.width * a.height = b.height * a.width
<1> DEFINE p == b.width
           q == b.height
           r == a.width
           s == a.height
           w == ViewSize.width
           h == ViewSize.height
<1>1. /\ p \in Nat /\ q \in Nat /\ r \in Nat /\ s \in Nat
      /\ w \in Nat \ {0} /\ h \in Nat \ {0}
  BY UnitAssumption, ViewAssumption DEF Box
<1>2. /\ Scaled(b, ViewSize).height = q * h /\ Scaled(b, ViewSize).width = p * w
      /\ Scaled(a, ViewSize).height = s * h /\ Scaled(a, ViewSize).width = r * w
  BY DEF Scaled
<1> HIDE DEF p, q, r, s, w, h
<1> DEFINE c == h * w
           x == q * r
           y == s * p
<1>3. c \in Nat \ {0} /\ x \in Int /\ y \in Int
  BY <1>1
<1>4. (q * h) * (r * w) = x * c /\ (s * h) * (p * w) = y * c
  BY <1>1
<1>5. x * c = y * c <=> x = y
  <2> HIDE DEF c, x, y
  <2> QED BY <1>3, Cancel
<1>6. y = p * s
  BY <1>1
<1>7. (q * h) * (r * w) = (s * h) * (p * w) <=> p * s = q * r
  BY <1>4, <1>5, <1>6
<1> QED BY <1>2, <1>7 DEF p, q, r, s

\* The state is well formed: the features are five fractions.
THEOREM TypeCorrect == Spec => []TypeOK
<1>1. Init => TypeOK
  BY DEF Init, TypeOK
<1>2. BoxOK /\ TypeOK /\ [Next]_vars => TypeOK'
  <2> SUFFICES ASSUME BoxOK, TypeOK, [Next]_vars PROVE TypeOK'
    OBVIOUS
  <2>1. ASSUME NEW o \in Observed, AssignInputFaces(o) PROVE TypeOK'
    BY <2>1, ObservedAssumption DEF AssignInputFaces, TypeOK
  <2>2. ASSUME NEW o \in Observed, ObservationBlock(o) PROVE TypeOK'
    <3> DEFINE B == Scaled(boundingBox, ViewSize)
               P == Plain(o.marks)
               F == Features(o.marks, B)
    <3>1. boundingBox \in Box /\ o.marks \in Marks
      BY <2>2, ObservedAssumption DEF ObservationBlock, BoxOK
    <3>2. IsPlace(B)
      BY <3>1, ScaledIsPlace
    <3> HIDE DEF B
    <3>3. /\ \A i \in 1 .. 3 : F[i] = [num |-> P[i].num * B.height, den |-> P[i].den * B.height]
          /\ \A i \in 4 .. 5 : F[i] = [num |-> P[i].num * B.height, den |-> P[i].den * B.width]
          /\ \A i \in 1 .. 5 : P[i].num \in Nat /\ P[i].den \in Nat
      BY <3>1, <3>2, FeaturesPlaced
    <3>4. DOMAIN F = 1 .. 5 /\ F = [i \in 1 .. 5 |-> F[i]]
      BY DEF Features
    <3> HIDE DEF F, P
    <3>5. B.height \in Nat /\ B.width \in Nat
      BY <3>2 DEF IsPlace
    <3>6. ASSUME NEW i \in 1 .. 5 PROVE F[i] \in [num : Nat, den : Nat]
      <4>1. i \in 1 .. 3 \/ i \in 4 .. 5
        OBVIOUS
      <4>2. \A u, v \in Nat : u * v \in Nat
        OBVIOUS
      <4> QED BY <3>3, <3>5, <4>1, <4>2
    <3>7. F \in [1 .. 5 -> [num : Nat, den : Nat]]
      BY <3>4, <3>6
    <3> QED BY <2>2, <3>7 DEF ObservationBlock, TypeOK, F, B
  <2>3. CASE UNCHANGED vars
    BY <2>3 DEF vars, TypeOK
  <2> QED BY <2>1, <2>2, <2>3 DEF Next
<1> QED BY <1>1, <1>2, SomeBoxAlways, PTL DEF Spec

\* The slope of a brow that is neither level nor upright is that of the face exactly if
\* the box it was placed in has the proportions of the face's own.
THEOREM SlopeNeedsProportions == Spec => EyebrowNeedsOwnProportions
<1> DEFINE Right ==
             \A i \in 4 .. 5 :
                LET own == OwnFeatures[i]'
                    b   == face'.box
                IN  own.num # 0 /\ own.den # 0 =>
                       (SameValue(features'[i], own)
                          <=> boundingBox.width * b.height = boundingBox.height * b.width)
<1>1. ASSUME BoxOK, NEW o \in Observed, ObservationBlock(o)
      PROVE  Right
  <2> SUFFICES ASSUME NEW i \in 4 .. 5, (OwnFeatures[i].num # 0)', (OwnFeatures[i].den # 0)'
               PROVE  SameValue(features'[i], OwnFeatures[i]')
                        <=> boundingBox.width * face'.box.height = boundingBox.height * face'.box.width
    OBVIOUS
  <2> DEFINE n == Plain(o.marks)[i].num
             d == Plain(o.marks)[i].den
             B == Scaled(boundingBox, ViewSize)
             A == Scaled(o.box, ViewSize)
  <2>1. /\ face' = o /\ features' = Features(o.marks, B)
        /\ boundingBox \in Box /\ o.box \in Box /\ o.marks \in Marks
    BY <1>1, ObservedAssumption DEF ObservationBlock, BoxOK
  <2>2. IsPlace(B) /\ IsPlace(A)
    BY <2>1, ScaledIsPlace
  <2>3. features'[i] = [num |-> n * B.height, den |-> d * B.width]
    BY <2>1, <2>2, FeaturesPlaced
  <2>4. OwnFeatures[i]' = [num |-> n * A.height, den |-> d * A.width]
    <3>1. OwnFeatures[i]' = Features(o.marks, A)[i]
      BY <2>1 DEF OwnFeatures
    <3> QED BY <2>1, <2>2, <3>1, FeaturesPlaced
  <2>5. n \in Nat /\ d \in Nat
    <3>1. \A j \in 1 .. 5 : Plain(o.marks)[j].num \in Nat /\ Plain(o.marks)[j].den \in Nat
      BY <2>1, <2>2, FeaturesPlaced
    <3>2. i \in 1 .. 5
      OBVIOUS
    <3> QED BY <3>1, <3>2
  <2>6. /\ B.height \in Nat \ {0} /\ B.width \in Nat \ {0}
        /\ A.height \in Nat \ {0} /\ A.width \in Nat \ {0}
    BY <2>2 DEF IsPlace
  <2>7. B.height * A.width = A.height * B.width
          <=> boundingBox.width * o.box.height = boundingBox.height * o.box.width
    BY <2>1, SameProportions
  <2> HIDE DEF n, d, A, B
  <2>8. n # 0 /\ d # 0
    <3>1. n * A.height # 0 /\ d * A.width # 0
      BY <2>4
    <3>2. \A u \in Nat : 0 * u = 0
      OBVIOUS
    <3> QED BY <2>6, <3>1, <3>2
  <2>9. SameValue(features'[i], OwnFeatures[i]') <=> B.height * A.width = A.height * B.width
    <3>1. n \in Nat \ {0} /\ d \in Nat \ {0}
      BY <2>5, <2>8
    <3>2. SameValue([num |-> n * B.height, den |-> d * B.width],
                    [num |-> n * A.height, den |-> d * A.width])
            <=> B.height * A.width = A.height * B.width
      <4> DEFINE h == B.height
                 w == B.width
                 k == A.height
                 v == A.width
      <4>1. h \in Nat \ {0} /\ w \in Nat \ {0} /\ k \in Nat \ {0} /\ v \in Nat \ {0}
        BY <2>6
      <4> HIDE DEF h, w, k, v
      <4>2. SameValue(Slope(n, d, h, w), Slope(n, d, k, v)) <=> h * v = k * w
        BY ONLY <3>1, <4>1, SlopePlaced
      <4> QED BY <4>2 DEF h, w, k, v, Slope
    <3> QED BY <2>3, <2>4, <3>2
  <2> QED BY <2>1, <2>7, <2>9
<1>2. BoxOK /\ [Next]_vars =>
        [<<face, features>>' # <<face, features>> =>
          \A i \in 4 .. 5 :
              LET own == OwnFeatures'[i]
                  b   == face'.box
              IN  own.num # 0 /\ own.den # 0 =>
                      (SameValue(features'[i], own)
                          <=> boundingBox.width * b.height = boundingBox.height * b.width)]_vars
  <2> SUFFICES ASSUME BoxOK, [Next]_vars, <<face, features>>' # <<face, features>> PROVE Right
    OBVIOUS
  <2>1. PICK o \in Observed : ObservationBlock(o)
    BY DEF Next, AssignInputFaces, vars
  <2> QED BY <1>1, <2>1
<1> HIDE DEF Right
<1> QED BY <1>2, SomeBoxAlways, PTL DEF Spec, EyebrowNeedsOwnProportions

=============================================================================
