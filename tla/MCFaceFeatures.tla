--------------------------- MODULE MCFaceFeatures ---------------------------
(***************************************************************************)
(* FaceFeatures for TLC.  A face is given by three heights of the points   *)
(* shape uses and by the end of a brow; its box is flat, square or tall.   *)
(* The heights include equal ones, so that every kind of quotient occurs.  *)
(***************************************************************************)
EXTENDS FaceFeatures

At(x, y) == [x |-> x, y |-> y]

\* An open or shut eye: its ends lie at a and 1, its top at t, its bottom at 1.
MCEye(a, t) == <<At(0, a), At(0, 0), At(1, t), At(2, 1), At(1, 1)>>

MCLips(a, t) ==
    [k \in 1 .. 11 |-> CASE k = 1  -> At(0, a)
                         [] k = 4  -> At(1, t)
                         [] k = 8  -> At(2, 2)
                         [] k = 11 -> At(1, 1)
                         [] OTHER  -> At(0, 0)]

MCBrow(x, y) ==
    [k \in 1 .. 6 |-> CASE k = 3 -> At(1, 1) [] k = 6 -> At(x, y) [] OTHER -> At(0, 0)]

MCBoxes ==
    {[x |-> 0, y |-> 1, width |-> 2, height |-> 1],
     [x |-> 1, y |-> 0, width |-> 1, height |-> 2],
     [x |-> 0, y |-> 0, width |-> 2, height |-> 2]}

MCObserved ==
    {[box |-> b,
      marks |-> [leftEye |-> MCEye(a, t), rightEye |-> MCEye(t, a), outerLips |-> MCLips(a, t),
                 leftEyebrow |-> MCBrow(x, t), rightEyebrow |-> MCBrow(t, x)]] :
     b \in MCBoxes, a \in {0, 2}, t \in 0 .. 2, x \in 0 .. 2}

MCViewSize == [width |-> 3, height |-> 2]
=============================================================================
