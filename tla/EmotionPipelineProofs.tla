----------------------- MODULE EmotionPipelineProofs ------------------------
(***************************************************************************)
(* What holds of EmotionPipeline for every number of threads, captures,    *)
(* faces and appearances of the view, and every set of landmark results.   *)
(***************************************************************************)
EXTENDS EmotionPipeline, SequenceTheorems, TLAPS

\* A thread that detects has an image, and a block that starts a session finds one.
ImageAtHand ==
    /\ starts > 0 => captureSession # None
    /\ \A t \in Threads :
          /\ pc[t] # "idle" => capture[t] \in Images
          /\ pc[t] = "image" => currentImage \in Images
          /\ pc[t] \in {"detect", "read", "assigning", "landmarks", "post"}
                 => ciImage[t] \in Images

\* Every block finds csvText as the last prediction left it.
TextEmpty == csvText = <<>>

\* The strengthening TypeOK needs.
TypeInv == TypeOK /\ ImageAtHand /\ TextEmpty

USE DEF None

LEMMA FacesOfType ==
    ASSUME NEW image \in Images, NEW n \in 0 .. MaxFaces
    PROVE  FacesOf(image, n) \in Seq(Faces)
<1>1. \A k \in 1 .. n : [image |-> image, nth |-> k] \in Faces
    BY BoundsAssumption DEF Faces
<1> QED BY <1>1 DEF FacesOf

LEMMA LineOfType ==
    ASSUME NEW o \in Observations, NEW r \in Regions
    PROVE  /\ LineOf(o, r) \in Seq(Line)
           /\ Len(LineOf(o, r)) \in 0 .. 1
           /\ Len(LineOf(o, r)) = 1 => LineOf(o, r) = <<[of |-> o, region |-> r]>>
<1>1. [of |-> o, region |-> r] \in Line BY DEF Line
<1>2. CASE o.marks[r] = "absent" BY <1>2 DEF LineOf
<1>3. CASE o.marks[r] # "absent" BY <1>1, <1>3 DEF LineOf
<1> QED BY <1>2, <1>3

\* w is u with the line of v, if it is one: at most m lines, one more than u.
Extends(w, u, v, n, m) ==
    /\ w \in Seq(Line)
    /\ Len(w) <= m
    /\ Len(w) = m => /\ Len(u) = n
                     /\ Len(v) = 1
                     /\ w[m] = v[1]
                     /\ \A k \in 1 .. n : w[k] = u[k]

LEMMA NextLine ==
    ASSUME NEW u \in Seq(Line), NEW v \in Seq(Line), NEW n \in Nat,
           Len(u) <= n, Len(v) \in 0 .. 1
    PROVE  Extends(u \o v, u, v, n, n + 1)
<1>1. u \o v \in Seq(Line) /\ Len(u \o v) = Len(u) + Len(v) OBVIOUS
<1>2. Len(u) \in Nat /\ Len(v) \in Nat OBVIOUS
<1>3. Len(u \o v) <= n + 1 /\ (Len(u \o v) = n + 1 => Len(u) = n /\ Len(v) = 1)
    <2> DEFINE p == Len(u)
               q == Len(v)
               r == Len(u \o v)
    <2>1. p \in Nat /\ q \in 0 .. 1 /\ r = p + q /\ p <= n
        BY <1>1, <1>2
    <2> HIDE DEF p, q, r
    <2>2. r <= n + 1 /\ (r = n + 1 => p = n /\ q = 1)
        BY <2>1
    <2> QED BY <2>2 DEF p, q, r
<1>4. ASSUME Len(u) = n, Len(v) = 1 PROVE (u \o v)[n + 1] = v[1]
    <2> DEFINE p == Len(u)
               q == Len(v)
               j == n + 1
    <2>1. \A k \in 1 .. p + q : (u \o v)[k] = IF k <= p THEN u[k] ELSE v[k - p]
        BY ConcatProperties
    <2>2. p = n /\ q = 1 BY <1>4
    <2> HIDE DEF p, q
    <2>3. j \in 1 .. p + q /\ ~(j <= p) /\ j - p = 1 BY <2>2
    <2> HIDE DEF j
    <2>4. (u \o v)[j] = v[j - p] BY <2>1, <2>3
    <2> QED BY <2>3, <2>4 DEF j
<1>5. ASSUME Len(u) = n PROVE \A k \in 1 .. n : (u \o v)[k] = u[k]
    BY <1>5, <1>2
<1> QED BY <1>1, <1>3, <1>4, <1>5 DEF Extends

\* Nine calls leave at most nine lines, and nine only if no region is absent.
LEMMA LinesOfShape ==
    ASSUME NEW o \in Observations
    PROVE  /\ LinesOf(o) \in Seq(Line)
           /\ Len(LinesOf(o)) >= 9 =>
                 /\ LinesOf(o)[2] = [of |-> o, region |-> "leftEye"]
                 /\ LinesOf(o)[3] = [of |-> o, region |-> "rightEye"]
                 /\ LinesOf(o)[9] = [of |-> o, region |-> "outerLips"]
                 /\ LinesOf(o)[6] = [of |-> o, region |-> "leftEyebrow"]
                 /\ LinesOf(o)[7] = [of |-> o, region |-> "rightEyebrow"]
<1> DEFINE a == LineOf(o, "faceContour")
           b == LineOf(o, "leftEye")
           c == LineOf(o, "rightEye")
           d == LineOf(o, "nose")
           e == LineOf(o, "lips")
           f == LineOf(o, "leftEyebrow")
           g == LineOf(o, "rightEyebrow")
           h == LineOf(o, "noseCrest")
           i == LineOf(o, "outerLips")
           L(r) == [of |-> o, region |-> r]
<1>1. /\ a \in Seq(Line) /\ b \in Seq(Line) /\ c \in Seq(Line)
      /\ d \in Seq(Line) /\ e \in Seq(Line) /\ f \in Seq(Line)
      /\ g \in Seq(Line) /\ h \in Seq(Line) /\ i \in Seq(Line)
    BY LineOfType DEF Regions
<1>2. /\ Len(a) \in 0 .. 1 /\ Len(b) \in 0 .. 1 /\ Len(c) \in 0 .. 1
      /\ Len(d) \in 0 .. 1 /\ Len(e) \in 0 .. 1 /\ Len(f) \in 0 .. 1
      /\ Len(g) \in 0 .. 1 /\ Len(h) \in 0 .. 1 /\ Len(i) \in 0 .. 1
    BY LineOfType DEF Regions
<1>3. /\ Len(b) = 1 => b[1] = L("leftEye")
      /\ Len(c) = 1 => c[1] = L("rightEye")
      /\ Len(f) = 1 => f[1] = L("leftEyebrow")
      /\ Len(g) = 1 => g[1] = L("rightEyebrow")
      /\ Len(i) = 1 => i[1] = L("outerLips")
    BY LineOfType DEF Regions
<1>4. LinesOf(o) = a \o b \o c \o d \o e \o f \o g \o h \o i
    BY DEF LinesOf
<1> HIDE DEF a, b, c, d, e, f, g, h, i, L
<1> DEFINE ab == a \o b
           ac == ab \o c
           ad == ac \o d
           ae == ad \o e
           af == ae \o f
           ag == af \o g
           ah == ag \o h
           ai == ah \o i
<1> HIDE DEF ab, ac, ad, ae, af, ag, ah, ai
<1>5. /\ ab \in Seq(Line) /\ Len(ab) <= 2
      /\ Len(ab) = 2 =>
            /\ ab[2] = L("leftEye")
    <2>0. Len(a) \in 0 .. 1 BY <1>2
    <2>1. a \in Seq(Line) /\ Len(a) <= 1 /\ b \in Seq(Line) /\ Len(b) \in 0 .. 1
        BY <1>1, <1>2, <2>0
    <2>2. Extends(ab, a, b, 1, 1 + 1)
        BY <2>1, NextLine DEF ab
    <2> QED BY <2>2, <1>3 DEF Extends
<1>6. /\ ac \in Seq(Line) /\ Len(ac) <= 3
      /\ Len(ac) = 3 =>
            /\ ac[2] = L("leftEye")
            /\ ac[3] = L("rightEye")
    <2>1. ab \in Seq(Line) /\ Len(ab) <= 2 /\ c \in Seq(Line) /\ Len(c) \in 0 .. 1
        BY <1>1, <1>2, <1>5
    <2>2. Extends(ac, ab, c, 2, 2 + 1)
        BY <2>1, NextLine DEF ac
    <2> QED BY <2>2, <1>3, <1>5 DEF Extends
<1>7. /\ ad \in Seq(Line) /\ Len(ad) <= 4
      /\ Len(ad) = 4 =>
            /\ ad[2] = L("leftEye")
            /\ ad[3] = L("rightEye")
    <2>1. ac \in Seq(Line) /\ Len(ac) <= 3 /\ d \in Seq(Line) /\ Len(d) \in 0 .. 1
        BY <1>1, <1>2, <1>6
    <2>2. Extends(ad, ac, d, 3, 3 + 1)
        BY <2>1, NextLine DEF ad
    <2> QED BY <2>2, <1>3, <1>6 DEF Extends
<1>8. /\ ae \in Seq(Line) /\ Len(ae) <= 5
      /\ Len(ae) = 5 =>
            /\ ae[2] = L("leftEye")
            /\ ae[3] = L("rightEye")
    <2>1. ad \in Seq(Line) /\ Len(ad) <= 4 /\ e \in Seq(Line) /\ Len(e) \in 0 .. 1
        BY <1>1, <1>2, <1>7
    <2>2. Extends(ae, ad, e, 4, 4 + 1)
        BY <2>1, NextLine DEF ae
    <2> QED BY <2>2, <1>3, <1>7 DEF Extends
<1>9. /\ af \in Seq(Line) /\ Len(af) <= 6
      /\ Len(af) = 6 =>
            /\ af[2] = L("leftEye")
            /\ af[3] = L("rightEye")
            /\ af[6] = L("leftEyebrow")
    <2>1. ae \in Seq(Line) /\ Len(ae) <= 5 /\ f \in Seq(Line) /\ Len(f) \in 0 .. 1
        BY <1>1, <1>2, <1>8
    <2>2. Extends(af, ae, f, 5, 5 + 1)
        BY <2>1, NextLine DEF af
    <2> QED BY <2>2, <1>3, <1>8 DEF Extends
<1>10. /\ ag \in Seq(Line) /\ Len(ag) <= 7
       /\ Len(ag) = 7 =>
             /\ ag[2] = L("leftEye")
             /\ ag[3] = L("rightEye")
             /\ ag[6] = L("leftEyebrow")
             /\ ag[7] = L("rightEyebrow")
    <2>1. af \in Seq(Line) /\ Len(af) <= 6 /\ g \in Seq(Line) /\ Len(g) \in 0 .. 1
        BY <1>1, <1>2, <1>9
    <2>2. Extends(ag, af, g, 6, 6 + 1)
        BY <2>1, NextLine DEF ag
    <2> QED BY <2>2, <1>3, <1>9 DEF Extends
<1>11. /\ ah \in Seq(Line) /\ Len(ah) <= 8
       /\ Len(ah) = 8 =>
             /\ ah[2] = L("leftEye")
             /\ ah[3] = L("rightEye")
             /\ ah[6] = L("leftEyebrow")
             /\ ah[7] = L("rightEyebrow")
    <2>1. ag \in Seq(Line) /\ Len(ag) <= 7 /\ h \in Seq(Line) /\ Len(h) \in 0 .. 1
        BY <1>1, <1>2, <1>10
    <2>2. Extends(ah, ag, h, 7, 7 + 1)
        BY <2>1, NextLine DEF ah
    <2> QED BY <2>2, <1>3, <1>10 DEF Extends
<1>12. /\ ai \in Seq(Line) /\ Len(ai) <= 9
       /\ Len(ai) = 9 =>
             /\ ai[2] = L("leftEye")
             /\ ai[3] = L("rightEye")
             /\ ai[6] = L("leftEyebrow")
             /\ ai[7] = L("rightEyebrow")
             /\ ai[9] = L("outerLips")
    <2>1. ah \in Seq(Line) /\ Len(ah) <= 8 /\ i \in Seq(Line) /\ Len(i) \in 0 .. 1
        BY <1>1, <1>2, <1>11
    <2>2. Extends(ai, ah, i, 8, 8 + 1)
        BY <2>1, NextLine DEF ai
    <2> QED BY <2>2, <1>3, <1>11 DEF Extends
<1>13. LinesOf(o) = ai
    BY <1>4 DEF ab, ac, ad, ae, af, ag, ah, ai
<1>14. ai \in Seq(Line) /\ (Len(ai) >= 9 => Len(ai) = 9)
    <2> DEFINE p == Len(ai)
    <2>1. p \in Nat /\ p <= 9 BY <1>12
    <2> HIDE DEF p
    <2>2. p >= 9 => p = 9 BY <2>1
    <2> QED BY <1>12, <2>2 DEF p
<1> QED BY <1>12, <1>13, <1>14 DEF L

-----------------------------------------------------------------------------
(***************************************************************************)
(* Types.                                                                  *)
(***************************************************************************)

LEMMA InitTypes == Init => TypeInv
BY ThreadsAssumption, BoundsAssumption
   DEF Init, TypeInv, TypeOK, ImageAtHand, TextEmpty

\* A block of the main queue keeps types, whatever the face it is about.
LEMMA ClassifyTypes ==
    ASSUME TypeInv, mainQueue # <<>>,
           CalculateEmotion(Head(mainQueue), csvText \o LinesOf(Head(mainQueue)))
    PROVE  TypeInv'
<1> DEFINE o == Head(mainQueue)
           text == csvText \o LinesOf(o)
<1>1. o \in Observations /\ Tail(mainQueue) \in Seq(Observations)
    <2>1. mainQueue \in Seq(Observations) BY DEF TypeInv, TypeOK
    <2> QED BY <2>1, HeadTailProperties
<1> HIDE DEF o
<1>2. text \in Seq(Line)
    <2>1. LinesOf(o) \in Seq(Line) BY <1>1, LinesOfShape
    <2>2. csvText \in Seq(Line) BY DEF TypeInv, TypeOK
    <2> QED BY <2>1, <2>2, ConcatProperties
<1> HIDE DEF text
<1>3. Indexable(text) /\ Classify(o, text) /\ csvText' = <<>>
    BY DEF CalculateEmotion, Classify, o, text
<1>4. [k \in 1 .. 5 |-> text[UsedLines[k]]] \in Seq(Line)
    <2>1. \A k \in 1 .. 5 : UsedLines[k] \in 1 .. Len(text)
        <3>1. \A k \in 1 .. 5 : UsedLines[k] <= Len(text)
            BY <1>3 DEF Indexable
        <3>2. \A k \in 1 .. 5 : k = 1 \/ k = 2 \/ k = 3 \/ k = 4 \/ k = 5 OBVIOUS
        <3>3. \A k \in 1 .. 5 : UsedLines[k] \in 1 .. 9 BY <3>2 DEF UsedLines
        <3>4. Len(text) \in Nat BY <1>2
        <3> QED BY <3>1, <3>3, <3>4
    <2>2. \A k \in 1 .. 5 : text[UsedLines[k]] \in Line BY <2>1, <1>2
    <2> QED BY <2>2
<1>5. /\ prediction'.of \in Observations
      /\ prediction'.lines \in Seq(Line)
    BY <1>1, <1>3, <1>4 DEF Classify
<1>6. TypeOK'
    BY <1>1, <1>3, <1>5 DEF TypeInv, TypeOK, Classify, cameraVars, sessionVars, threadVars,
       sharedVars, o
<1>7. ImageAtHand' /\ TextEmpty'
    BY <1>3 DEF TypeInv, ImageAtHand, TextEmpty, Classify, cameraVars, sessionVars, threadVars,
       sharedVars
<1> QED BY <1>6, <1>7 DEF TypeInv

LEMMA TypesKept == TypeInv /\ [Next]_vars => TypeInv'
<1> SUFFICES ASSUME TypeInv, [Next]_vars PROVE TypeInv'
    OBVIOUS
<1> USE DEF TypeInv, TypeOK, ImageAtHand, TextEmpty
<1>1. CASE ViewDidAppear
    BY <1>1, BoundsAssumption DEF ViewDidAppear, Appear, Sessions, threadVars, sharedVars, mainVars
<1>2. CASE StartRunning
    BY <1>2, BoundsAssumption DEF StartRunning, Sessions, threadVars, sharedVars, mainVars
<1>3. CASE CaptureStillImage
    <2>1. requested + 1 \in Images /\ requested + 1 \in 0 .. MaxCaptures
        BY <1>3, BoundsAssumption DEF CaptureStillImage, Images
    <2>2. stillImageOutput \in Sessions
        BY <1>3 DEF CaptureStillImage
    <2> QED BY <1>3, <2>1, <2>2
            DEF CaptureStillImage, sessionVars, threadVars, sharedVars, mainVars
<1>4. ASSUME Trap PROVE TypeInv'
    BY <1>4 DEF Trap, cameraVars, sessionVars, threadVars, sharedVars, mainVars
<1>5. ASSUME NEW t \in Threads, NEW c \in Images, NEW s \in Sessions, HandlerBegins(t, c, s)
      PROVE  TypeInv'
    <2>1. CASE Trap BY <1>4, <2>1
    <2>2. CASE /\ inFlight' = inFlight \ {<<c, s>>}
               /\ UNCHANGED <<alive, sessionVars, requested, threadVars, sharedVars, mainQueue,
                              mainVars>>
        BY <2>2 DEF sessionVars, threadVars, sharedVars, mainVars
    <2>3. CASE inFlight' = inFlight \ {<<c, s>>} /\ HandlerStoresImage(t, c)
        <3>1. BurstOf(c) \in Images \cup {None}
            BY DEF BurstOf, Active
        <3>2. burst' \in [Images -> Images \cup {None}]
            BY <2>3, <3>1 DEF HandlerStoresImage, ImageArrives
        <3> QED BY <2>3, <3>2 DEF HandlerStoresImage, ImageArrives, sessionVars, mainVars
    <2> QED BY <1>5, <2>1, <2>2, <2>3 DEF HandlerBegins
<1>6. ASSUME NEW t \in Threads, ReadImage(t) PROVE TypeInv'
    BY <1>6 DEF ReadImage, Step, sessionVars, sharedVars, mainVars
<1>7. ASSUME NEW t \in Threads, Detect(t) PROVE TypeInv'
    <2>1. PICK n \in 0 .. MaxFaces : DetectInto(t, FacesOf(ciImage[t], n))
        BY <1>7 DEF Detect
    <2>2. FacesOf(ciImage[t], n) \in Seq(Faces)
        <3>1. ciImage[t] \in Images BY <2>1 DEF DetectInto, Step
        <3> QED BY <3>1, FacesOfType
    <2> QED BY <2>1, <2>2 DEF DetectInto, Step, sessionVars, mainVars
<1>8. ASSUME NEW t \in Threads, ReadResults(t) PROVE TypeInv'
    BY <1>8 DEF ReadResults, ReadAndGo, Step, sessionVars, sharedVars, mainVars
<1>9. ASSUME NEW t \in Threads, AssignInputFaces(t) PROVE TypeInv'
    BY <1>9 DEF AssignInputFaces, Step, sessionVars, mainVars
<1>10. ASSUME NEW t \in Threads, DetectLandmarks(t) PROVE TypeInv'
    <2>1. landmarks' \in Seq(Observations)
        <3>1. ciImage[t] \in Images BY <1>10 DEF DetectLandmarks, Step
        <3>2. ASSUME NEW m \in [DOMAIN inputFaces -> Marks],
                     landmarks' = [k \in DOMAIN inputFaces |->
                         [image |-> ciImage[t], face |-> inputFaces[k], marks |-> m[k]]]
              PROVE  landmarks' \in Seq(Observations)
            <4>1. \A k \in DOMAIN inputFaces :
                      [image |-> ciImage[t], face |-> inputFaces[k], marks |-> m[k]] \in Observations
                BY <3>1 DEF Observations
            <4>2. /\ Len(inputFaces) \in Nat
                  /\ DOMAIN inputFaces = 1 .. Len(inputFaces)
                BY DEF TypeInv, TypeOK
            <4> HIDE DEF TypeInv, TypeOK, ImageAtHand, TextEmpty
            <4> QED BY <3>2, <4>1, <4>2
        <3>3. CASE landmarks' = <<>> BY <3>3
        <3> QED BY <1>10, <3>2, <3>3 DEF DetectLandmarks
    <2> QED BY <1>10, <2>1 DEF DetectLandmarks, Step, sessionVars, mainVars
<1>11. ASSUME NEW t \in Threads, PostObservations(t) PROVE TypeInv'
    BY <1>11 DEF PostObservations, Step, sessionVars, sharedVars, mainVars
<1>12. CASE ObservationBlock
    <2>1. CASE inputFaces = <<>>
        <3>1. Tail(mainQueue) \in Seq(Observations)
            <4>1. mainQueue \in Seq(Observations) /\ mainQueue # <<>>
                BY <1>12 DEF ObservationBlock
            <4> QED BY <4>1, HeadTailProperties
        <3> QED BY <1>12, <2>1, <3>1 DEF ObservationBlock, cameraVars, sessionVars, threadVars, sharedVars,
           mainVars
    <2>2. CASE inputFaces # <<>>
        BY <1>4, <1>12, <2>2, ClassifyTypes DEF ObservationBlock
    <2> QED BY <2>1, <2>2
<1>13. CASE DataRace
    BY <1>4, <1>13 DEF DataRace
<1>14. CASE UNCHANGED vars
    BY <1>14 DEF vars, cameraVars, sessionVars, threadVars, sharedVars, mainVars
<1> QED BY <1>1, <1>2, <1>3, <1>5, <1>6, <1>7, <1>8, <1>9, <1>10, <1>11, <1>12, <1>13, <1>14
        DEF Next, HandlerStep

\* Every variable keeps its type.
THEOREM TypeCorrect == Spec => []TypeOK
<1>1. Spec => []TypeInv
    BY InitTypes, TypesKept, PTL DEF Spec
<1> QED BY <1>1, PTL DEF TypeInv

-----------------------------------------------------------------------------
(***************************************************************************)
(* The lines of a prediction.                                              *)
(***************************************************************************)

LEMMA OwnLinesStep ==
    ASSUME TypeInv, mainQueue # <<>>,
           CalculateEmotion(Head(mainQueue), csvText \o LinesOf(Head(mainQueue)))
    PROVE  ClassifiesOwnLines'
<1> DEFINE o == Head(mainQueue)
           text == csvText \o LinesOf(o)
           Wanted == <<"leftEye", "rightEye", "outerLips", "leftEyebrow", "rightEyebrow">>
<1>1. o \in Observations
    <2>1. mainQueue \in Seq(Observations) BY DEF TypeInv, TypeOK
    <2> QED BY <2>1, HeadTailProperties
<1> HIDE DEF o
<1>2. text = LinesOf(o)
    <2>1. LinesOf(o) \in Seq(Line) /\ csvText = <<>>
        BY <1>1, LinesOfShape DEF TypeInv, TextEmpty
    <2> QED BY <2>1, ConcatEmptySeq
<1> HIDE DEF text
<1>3. Indexable(text) /\ prediction' = [of |-> o, lines |-> [k \in 1 .. 5 |-> text[UsedLines[k]]]]
    BY DEF CalculateEmotion, Classify, o, text
<1>4. Len(LinesOf(o)) >= 9
    <2>1. Len(text) \in Nat BY <1>1, <1>2, LinesOfShape
    <2>2. UsedLines[3] <= Len(text) BY <1>3 DEF Indexable
    <2> QED BY <1>2, <2>1, <2>2 DEF UsedLines
<1>5. /\ text[UsedLines[1]] = [of |-> o, region |-> Wanted[1]]
      /\ text[UsedLines[2]] = [of |-> o, region |-> Wanted[2]]
      /\ text[UsedLines[3]] = [of |-> o, region |-> Wanted[3]]
      /\ text[UsedLines[4]] = [of |-> o, region |-> Wanted[4]]
      /\ text[UsedLines[5]] = [of |-> o, region |-> Wanted[5]]
    BY <1>1, <1>2, <1>4, LinesOfShape DEF UsedLines
<1>6. \A k \in 1 .. 5 : text[UsedLines[k]] = [of |-> o, region |-> Wanted[k]]
    <2>1. \A k \in 1 .. 5 : k = 1 \/ k = 2 \/ k = 3 \/ k = 4 \/ k = 5 OBVIOUS
    <2> HIDE DEF Wanted
    <2> QED BY <1>5, <2>1
<1>7. prediction'.of = o /\ prediction'.lines = [k \in 1 .. 5 |-> [of |-> o, region |-> Wanted[k]]]
    <2> HIDE DEF Wanted
    <2> QED BY <1>3, <1>6
<1> QED BY <1>7 DEF ClassifiesOwnLines

\* For every set of landmark results: a prediction uses the five lines it means,
\* all of the face the block was posted for.
THEOREM OwnLines == Spec => []ClassifiesOwnLines
<1>1. Init => ClassifiesOwnLines
    BY DEF Init, ClassifiesOwnLines
<1>2. TypeInv /\ ClassifiesOwnLines /\ [Next]_vars => ClassifiesOwnLines'
    <2> SUFFICES ASSUME TypeInv, ClassifiesOwnLines, [Next]_vars PROVE ClassifiesOwnLines'
        OBVIOUS
    <2>1. CASE UNCHANGED prediction
        BY <2>1 DEF ClassifiesOwnLines
    <2>2. CASE ObservationBlock /\ inputFaces # <<>>
        <3>1. CASE Trap BY <2>1, <3>1 DEF Trap, mainVars
        <3> QED BY <2>2, <3>1, OwnLinesStep DEF ObservationBlock
    <2>3. Next => UNCHANGED prediction \/ (ObservationBlock /\ inputFaces # <<>>)
        BY DEF Next, ViewDidAppear, Appear, StartRunning, CaptureStillImage, HandlerBegins,
           HandlerStoresImage, ImageArrives, HandlerStep, ReadImage, Detect, DetectInto, ReadResults, ReadAndGo, AssignInputFaces,
           DetectLandmarks, PostObservations, ObservationBlock, DataRace, Trap, Step, mainVars
    <2> QED BY <2>1, <2>2, <2>3 DEF vars, mainVars
<1> QED BY <1>1, <1>2, InitTypes, TypesKept, PTL DEF Spec

-----------------------------------------------------------------------------
(***************************************************************************)
(* The bounding box of a posted face.                                      *)
(***************************************************************************)

\* Once a handler hands faces over, inputFaceObservations is never empty again.
BoxAtHand ==
    /\ mainQueue # <<>> => inputFaces # <<>>
    /\ landmarks # <<>> => inputFaces # <<>>
    /\ \A t \in Threads : pc[t] = "assigning" => results[t] # <<>>

\* For every number of threads and captures: the block of a posted face finds a box.
THEOREM NoFaceIsDropped == Spec => []NoFaceDropped
<1>1. Init => BoxAtHand
    BY DEF Init, BoxAtHand
<1>2. TypeInv /\ BoxAtHand /\ [Next]_vars => BoxAtHand'
    <2> SUFFICES ASSUME TypeInv, BoxAtHand, [Next]_vars PROVE BoxAtHand'
        OBVIOUS
    <2> USE DEF BoxAtHand
    <2>0. pc \in [Threads -> {"idle", "image", "detect", "read", "assigning", "landmarks", "post"}]
        BY DEF TypeInv, TypeOK
    <2>1. CASE UNCHANGED <<threadVars, inputFaces, landmarks, mainQueue>>
        BY <2>1 DEF threadVars
    <2>2. ASSUME NEW t \in Threads, NEW c \in Images, NEW s \in Sessions, HandlerBegins(t, c, s)
          PROVE  BoxAtHand'
        BY <2>0, <2>2 DEF HandlerBegins, HandlerStoresImage, ImageArrives, Trap, threadVars, sharedVars
    <2>3. ASSUME NEW t \in Threads, ReadImage(t) PROVE BoxAtHand'
        BY <2>0, <2>3 DEF ReadImage, Step, sharedVars
    <2>4. ASSUME NEW t \in Threads, Detect(t) PROVE BoxAtHand'
        BY <2>0, <2>4 DEF Detect, DetectInto, Step
    <2>5. ASSUME NEW t \in Threads, ReadResults(t) PROVE BoxAtHand'
        <3>1. \A u \in Threads \ {t} : pc'[u] = pc[u]
            BY <2>0, <2>5 DEF ReadResults, ReadAndGo, Step
        <3>2. pc'[t] = "assigning" => detected # <<>>
            BY <2>0, <2>5 DEF ReadResults, ReadAndGo, Step
        <3>3. results' = [results EXCEPT ![t] = detected]
            BY <2>5 DEF ReadResults, ReadAndGo
        <3>4. UNCHANGED <<inputFaces, landmarks, mainQueue>>
            BY <2>5 DEF ReadResults, ReadAndGo, sharedVars
        <3>5. ASSUME NEW u \in Threads, pc'[u] = "assigning" PROVE results'[u] # <<>>
            <4>1. results \in [Threads -> Seq(Faces)] BY DEF TypeInv, TypeOK
            <4>2. CASE u = t BY <3>2, <3>3, <3>5, <4>1, <4>2
            <4>3. CASE u # t BY <3>1, <3>3, <3>5, <4>1, <4>3
            <4> QED BY <4>2, <4>3
        <3> QED BY <3>4, <3>5
    <2>6. ASSUME NEW t \in Threads, AssignInputFaces(t) PROVE BoxAtHand'
        BY <2>0, <2>6 DEF AssignInputFaces, Step
    <2>7. ASSUME NEW t \in Threads, DetectLandmarks(t) PROVE BoxAtHand'
        <3>1. landmarks' # <<>> => inputFaces # <<>>
            <4>1. CASE inputFaces = <<>>
                BY <2>7, <4>1 DEF DetectLandmarks
            <4> QED BY <4>1
        <3> QED BY <2>0, <2>7, <3>1 DEF DetectLandmarks, Step
    <2>8. ASSUME NEW t \in Threads, PostObservations(t) PROVE BoxAtHand'
        <3>1. mainQueue' # <<>> => inputFaces # <<>>
            <4>1. CASE mainQueue = <<>> /\ landmarks = <<>>
                BY <2>8, <4>1 DEF PostObservations
            <4> QED BY <4>1
        <3> QED BY <2>0, <2>8, <3>1 DEF PostObservations, Step, sharedVars
    <2>9. CASE ObservationBlock
        <3>1. mainQueue # <<>> /\ UNCHANGED <<threadVars, inputFaces, landmarks>>
            BY <2>9 DEF ObservationBlock, CalculateEmotion, Classify, Trap, sharedVars
        <3> QED BY <3>1 DEF threadVars
    <2>10. Next => \/ UNCHANGED <<threadVars, inputFaces, landmarks, mainQueue>>
                   \/ \E t \in Threads, c \in Images, s \in Sessions : HandlerBegins(t, c, s)
                   \/ \E t \in Threads : HandlerStep(t)
                   \/ ObservationBlock
        BY DEF Next, ViewDidAppear, Appear, StartRunning, CaptureStillImage, DataRace, Trap,
           sharedVars
    <2>11. UNCHANGED vars => UNCHANGED <<threadVars, inputFaces, landmarks, mainQueue>>
        BY DEF vars, sharedVars
    <2> QED BY <2>1, <2>2, <2>3, <2>4, <2>5, <2>6, <2>7, <2>8, <2>9, <2>10, <2>11 DEF HandlerStep
<1> QED BY <1>1, <1>2, InitTypes, TypesKept, PTL DEF Spec, BoxAtHand, NoFaceDropped

-----------------------------------------------------------------------------
(***************************************************************************)
(* Bursts of handlers.                                                     *)
(***************************************************************************)

Same(a, b) == a \in Images /\ b \in Images /\ SameBurst(a, b)

FoundNear(image, faces) == \A k \in DOMAIN faces : Same(faces[k].image, image)
Paired(observations) ==
    \A k \in DOMAIN observations : Same(observations[k].face.image, observations[k].image)

LEMMA SameIsTransitive ==
    ASSUME NEW a, NEW b, NEW c, Same(a, b), Same(b, c)
    PROVE  Same(a, c)
BY DEF Same, SameBurst

LEMMA PairedQueue ==
    ASSUME NEW u \in Seq(Observations), NEW v \in Seq(Observations), Paired(u)
    PROVE  /\ Paired(v) => Paired(u \o v)
           /\ u # <<>> => Paired(Tail(u))
<1>1. ASSUME Paired(v), NEW k \in DOMAIN (u \o v)
      PROVE  Same((u \o v)[k].face.image, (u \o v)[k].image)
    <2> DEFINE p == Len(u)
               q == Len(v)
    <2>1. p \in Nat /\ q \in Nat /\ DOMAIN u = 1 .. p /\ DOMAIN v = 1 .. q
        OBVIOUS
    <2>2. /\ k \in 1 .. p + q
          /\ (u \o v)[k] = IF k <= p THEN u[k] ELSE v[k - p]
        <3>1. u \o v \in Seq(Observations) /\ Len(u \o v) = p + q
            BY ConcatProperties
        <3>2. k \in 1 .. p + q BY <3>1
        <3> QED BY <3>2, ConcatProperties
    <2> HIDE DEF p, q
    <2>3. CASE k <= p
        <3>1. k \in DOMAIN u BY <2>1, <2>2, <2>3
        <3> QED BY <2>2, <2>3, <3>1 DEF Paired
    <2>4. CASE ~(k <= p)
        <3>1. k - p \in DOMAIN v BY <2>1, <2>2, <2>4
        <3> QED BY <1>1, <2>2, <2>4, <3>1 DEF Paired
    <2> QED BY <2>3, <2>4
<1>2. ASSUME u # <<>>, NEW k \in DOMAIN Tail(u)
      PROVE  Same(Tail(u)[k].face.image, Tail(u)[k].image)
    <2> DEFINE p == Len(u)
    <2>1. p \in Nat /\ DOMAIN u = 1 .. p OBVIOUS
    <2>2. k \in 1 .. p - 1 /\ Tail(u)[k] = u[k + 1]
        BY <1>2, HeadTailProperties
    <2> HIDE DEF p
    <2>3. k + 1 \in DOMAIN u BY <2>1, <2>2
    <2> QED BY <2>2, <2>3 DEF Paired
<1> QED BY <1>1, <1>2 DEF Paired

\* A capture that has not been answered has no burst yet, and is asked for once.
Unanswered ==
    /\ \A c \in Images, o \in Sessions : <<c, o>> \in inFlight =>
          /\ burst[c] = None
          /\ c <= requested
          /\ \A p \in Sessions : <<c, p>> \in inFlight => p = o
    /\ \A c \in Images : c > requested => burst[c] = None

\* What thread t has in its hands, and what it finds in the shared state, is of
\* the burst its handler belongs to.
InItsBurst(t) ==
    /\ Same(currentImage, capture[t])
    /\ \A u \in Threads : Active(u) => Same(capture[u], capture[t])
    /\ pc[t] \in {"detect", "read", "assigning", "landmarks", "post"}
           => Same(ciImage[t], capture[t])
    /\ pc[t] = "read" => FoundNear(capture[t], detected)
    /\ pc[t] = "assigning" => FoundNear(capture[t], results[t])
    /\ pc[t] = "landmarks" => FoundNear(capture[t], inputFaces)

OneBurst ==
    /\ \A t \in Threads : Active(t) => InItsBurst(t)
    /\ Paired(landmarks)
    /\ Paired(mainQueue)

BurstInv == Unanswered /\ OneBurst

LEMMA UnansweredKept ==
    ASSUME TypeInv, Unanswered, [Next]_vars
    PROVE  Unanswered'
<1> USE DEF Unanswered
<1>0. /\ requested \in 0 .. MaxCaptures
      /\ burst \in [Images -> Images \cup {None}]
      /\ inFlight \subseteq Images \X Sessions
      /\ MaxCaptures \in Nat
    BY BoundsAssumption DEF TypeInv, TypeOK
<1>1. CASE UNCHANGED <<requested, inFlight, burst>>
    BY <1>1
<1>2. CASE CaptureStillImage
    <2>1. /\ requested' = requested + 1
          /\ inFlight' = inFlight \cup {<<requested + 1, stillImageOutput>>}
          /\ burst' = burst
        BY <1>2 DEF CaptureStillImage, threadVars
    <2>2. ASSUME NEW c \in Images, NEW o \in Sessions, <<c, o>> \in inFlight'
          PROVE  /\ burst'[c] = None
                 /\ c <= requested'
                 /\ \A p \in Sessions : <<c, p>> \in inFlight' => p = o
        BY <1>0, <2>1, <2>2 DEF Images
    <2>3. \A c \in Images : c > requested' => burst'[c] = None
        BY <1>0, <2>1 DEF Images
    <2> QED BY <2>2, <2>3
<1>3. ASSUME NEW t \in Threads, NEW c \in Images, NEW s \in Sessions, HandlerBegins(t, c, s)
      PROVE  Unanswered'
    <2>1. <<c, s>> \in inFlight BY <1>3 DEF HandlerBegins
    <2>2. CASE HandlerStoresImage(t, c) /\ inFlight' = inFlight \ {<<c, s>>}
        <3>1. requested' = requested /\ \A d \in Images \ {c} : burst'[d] = burst[d]
            BY <1>0, <2>2 DEF HandlerStoresImage, ImageArrives
        <3>2. \A o \in Sessions : <<c, o>> \notin inFlight'
            BY <2>1, <2>2
        <3>3. ~(c > requested) BY <1>0, <2>1 DEF Images
        <3> QED BY <2>2, <3>1, <3>2, <3>3
    <2>3. CASE inFlight' = inFlight \ {<<c, s>>} /\ UNCHANGED <<requested, burst>>
        BY <2>3
    <2> QED BY <1>1, <1>3, <2>2, <2>3 DEF HandlerBegins, Trap, cameraVars, threadVars
<1>4. Next => \/ UNCHANGED <<requested, inFlight, burst>>
              \/ CaptureStillImage
              \/ \E t \in Threads, c \in Images, s \in Sessions : HandlerBegins(t, c, s)
    BY DEF Next, ViewDidAppear, Appear, StartRunning, HandlerStep, ReadImage, Detect, DetectInto,
       ReadResults, ReadAndGo, AssignInputFaces, DetectLandmarks, PostObservations,
       ObservationBlock, CalculateEmotion, Classify, DataRace, Trap, Step, cameraVars, threadVars
<1>5. UNCHANGED vars => UNCHANGED <<requested, inFlight, burst>>
    BY DEF vars, cameraVars, threadVars
<1> QED BY <1>1, <1>2, <1>3, <1>4, <1>5

\* A handler that begins joins the burst of those that run, or opens one; what was
\* of one burst before still is.
LEMMA BeginKeepsBursts ==
    ASSUME TypeInv, BurstInv,
           NEW t \in Threads, NEW c \in Images, NEW s \in Sessions,
           <<c, s>> \in inFlight, ~Active(t), HandlerStoresImage(t, c)
    PROVE  OneBurst'
<1> DEFINE Was(a, b) == a \in Images /\ b \in Images /\ burst[a] = burst[b] /\ burst[a] # None
           Is(a, b) == a \in Images /\ b \in Images /\ burst'[a] = burst'[b] /\ burst'[a] # None
<1>0. /\ pc \in [Threads -> {"idle", "image", "detect", "read", "assigning", "landmarks", "post"}]
      /\ capture \in [Threads -> Images \cup {None}]
      /\ burst \in [Images -> Images \cup {None}]
    BY DEF TypeInv, TypeOK
<1>1. /\ pc' = [pc EXCEPT ![t] = "image"]
      /\ capture' = [capture EXCEPT ![t] = c]
      /\ burst' = [burst EXCEPT ![c] = BurstOf(c)]
      /\ currentImage' = c
      /\ UNCHANGED <<ciImage, results, detected, inputFaces, landmarks, mainQueue>>
    BY DEF HandlerStoresImage, ImageArrives
<1>2. burst[c] = None
    BY DEF BurstInv, Unanswered
<1>3. \A a, b : Was(a, b) => Is(a, b)
    BY <1>0, <1>1, <1>2
<1>4. BurstOf(c) # None /\ Is(c, c)
    <2>1. CASE \E u \in Threads : Active(u)
        <3> DEFINE v == CHOOSE u \in Threads : Active(u)
        <3>1. v \in Threads /\ Active(v) BY <2>1
        <3> HIDE DEF v
        <3>2. Same(capture[v], capture[v]) BY <3>1 DEF BurstInv, OneBurst, InItsBurst
        <3>3. burst[capture[v]] # None BY <3>2 DEF Same, SameBurst
        <3>4. BurstOf(c) # None BY <2>1, <3>3 DEF BurstOf, v
        <3> QED BY <1>0, <1>1, <3>4
    <2>2. CASE ~\E u \in Threads : Active(u)
        <3>1. BurstOf(c) = c /\ c # None BY <2>2 DEF BurstOf, Images
        <3> QED BY <1>0, <1>1, <3>1
    <2> QED BY <2>1, <2>2
<1>5. ASSUME NEW u \in Threads, Active(u) PROVE Is(c, capture[u]) /\ Is(capture[u], c)
    <2> DEFINE v == CHOOSE w \in Threads : Active(w)
    <2>1. v \in Threads /\ Active(v) BY <1>5
    <2>2. BurstOf(c) = burst[capture[v]] BY <1>5 DEF BurstOf
    <2> HIDE DEF v
    <2>3. Same(capture[v], capture[u]) BY <1>5, <2>1 DEF BurstInv, OneBurst, InItsBurst
    <2>4. capture[u] \in Images /\ burst[capture[u]] = BurstOf(c) /\ burst[capture[u]] # None
        BY <2>2, <2>3 DEF Same, SameBurst
    <2> QED BY <1>0, <1>1, <1>2, <2>4
<1>6. \A u \in Threads \ {t} : /\ pc'[u] = pc[u] /\ capture'[u] = capture[u]
                               /\ Active(u)' <=> Active(u)
    BY <1>0, <1>1 DEF Active
<1>7. pc'[t] = "image" /\ capture'[t] = c
    BY <1>0, <1>1
<1>8. ASSUME NEW u \in Threads, Active(u)'
      PROVE  InItsBurst(u)'
    <2> DEFINE Near(faces) == \A k \in DOMAIN faces : Is(faces[k].image, capture'[u])
    <2>1. Is(c, capture'[u])
        BY <1>4, <1>5, <1>6, <1>7, <1>8
    <2>2. ASSUME NEW w \in Threads, Active(w)' PROVE Is(capture'[w], capture'[u])
        <3>1. Is(capture'[w], c) BY <1>4, <1>5, <1>6, <1>7, <2>2
        <3> QED BY <2>1, <3>1
    <2>3. ASSUME u # t
          PROVE  /\ pc[u] \in {"detect", "read", "assigning", "landmarks", "post"}
                        => Is(ciImage[u], capture[u])
                 /\ pc[u] = "read" => \A k \in DOMAIN detected : Is(detected[k].image, capture[u])
                 /\ pc[u] = "assigning"
                        => \A k \in DOMAIN results[u] : Is(results[u][k].image, capture[u])
                 /\ pc[u] = "landmarks"
                        => \A k \in DOMAIN inputFaces : Is(inputFaces[k].image, capture[u])
        <3>1. InItsBurst(u) BY <1>6, <1>8, <2>3 DEF BurstInv, OneBurst
        <3>2. \A a, b : Same(a, b) => Is(a, b) BY <1>3 DEF Same, SameBurst
        <3> HIDE DEF Is
        <3> QED BY <3>1, <3>2 DEF InItsBurst, FoundNear
    <2>4. CASE u = t
        BY <1>1, <1>7, <2>1, <2>2, <2>4 DEF InItsBurst, Same, SameBurst
    <2>5. CASE u # t
        BY <1>1, <1>6, <2>1, <2>2, <2>3, <2>5 DEF InItsBurst, FoundNear, Same, SameBurst
    <2> QED BY <2>4, <2>5
<1>9. Paired(landmarks)' /\ Paired(mainQueue)'
    <2>1. \A a, b : Same(a, b) => Is(a, b) BY <1>3 DEF Same, SameBurst
    <2>2. Paired(landmarks) /\ Paired(mainQueue) BY DEF BurstInv, OneBurst
    <2>3. /\ \A k \in DOMAIN landmarks : Is(landmarks[k].face.image, landmarks[k].image)
          /\ \A k \in DOMAIN mainQueue : Is(mainQueue[k].face.image, mainQueue[k].image)
        <3> HIDE DEF Is
        <3> QED BY <2>1, <2>2 DEF Paired
    <2> QED BY <1>1, <2>3 DEF Paired, Same, SameBurst
<1> QED BY <1>8, <1>9 DEF OneBurst

\* Every other step leaves the bursts alone and hands on what is of one burst.
LEMMA OneBurstKept ==
    ASSUME TypeInv, BurstInv, [Next]_vars
    PROVE  OneBurst'
<1> USE DEF OneBurst
<1>0. /\ pc \in [Threads -> {"idle", "image", "detect", "read", "assigning", "landmarks", "post"}]
      /\ capture \in [Threads -> Images \cup {None}]
      /\ ciImage \in [Threads -> Images \cup {None}]
      /\ results \in [Threads -> Seq(Faces)]
      /\ mainQueue \in Seq(Observations)
      /\ landmarks \in Seq(Observations)
      /\ OneBurst
    BY DEF TypeInv, TypeOK, BurstInv
<1>1. CASE UNCHANGED <<threadVars, sharedVars, mainQueue>>
    BY <1>0, <1>1 DEF threadVars, sharedVars, InItsBurst, Active, Paired, FoundNear, Same, SameBurst
<1>2. ASSUME NEW t \in Threads, NEW c \in Images, NEW s \in Sessions, HandlerBegins(t, c, s)
      PROVE  OneBurst'
    <2>1. CASE HandlerStoresImage(t, c)
        BY <1>2, <2>1, BeginKeepsBursts DEF HandlerBegins
    <2> QED BY <1>1, <1>2, <2>1 DEF HandlerBegins, Trap
<1>3. ASSUME NEW t \in Threads, ReadImage(t) PROVE OneBurst'
    BY <1>0, <1>3 DEF ReadImage, Step, sharedVars, InItsBurst, Active, Paired, FoundNear, Same, SameBurst
<1>4. ASSUME NEW t \in Threads, Detect(t) PROVE OneBurst'
    <2>1. \A k \in DOMAIN detected' : detected'[k].image = ciImage[t]
        BY <1>4 DEF Detect, DetectInto, FacesOf
    <2>2. \A u \in Threads : Active(u) => Same(ciImage[t], capture[u])
        <3>1. Active(t) /\ Same(ciImage[t], capture[t])
            BY <1>0, <1>4 DEF Detect, DetectInto, Step, Active, InItsBurst
        <3>2. \A u \in Threads : Active(u) => Same(capture[t], capture[u])
            BY <1>0, <3>1 DEF InItsBurst
        <3> QED BY <3>1, <3>2, SameIsTransitive
    <2>3. \A u \in Threads : Active(u) => \A k \in DOMAIN detected' : Same(detected'[k].image, capture[u])
        BY <2>1, <2>2
    <2>4. Step(t, "detect", "read")
          /\ UNCHANGED <<capture, ciImage, results, currentImage, inputFaces, landmarks, mainQueue>>
        BY <1>4 DEF Detect, DetectInto
    <2> QED BY <1>0, <2>3, <2>4 DEF Step, InItsBurst, Active, Paired, FoundNear, Same, SameBurst
<1>5. ASSUME NEW t \in Threads, ReadResults(t) PROVE OneBurst'
    BY <1>0, <1>5 DEF ReadResults, ReadAndGo, Step, sharedVars, InItsBurst, Active, Paired,
       FoundNear, Same, SameBurst
<1>6. ASSUME NEW t \in Threads, AssignInputFaces(t) PROVE OneBurst'
    <2>1. \A u \in Threads : Active(u) => FoundNear(capture[u], results[t])
        <3>1. Active(t) /\ FoundNear(capture[t], results[t])
            BY <1>0, <1>6 DEF AssignInputFaces, Step, Active, InItsBurst
        <3>2. \A u \in Threads : Active(u) => Same(capture[t], capture[u])
            BY <1>0, <3>1 DEF InItsBurst
        <3> QED BY <3>1, <3>2, SameIsTransitive DEF FoundNear
    <2>2. /\ Step(t, "assigning", "landmarks")
          /\ inputFaces' = results[t]
          /\ UNCHANGED <<capture, ciImage, results, currentImage, detected, landmarks, mainQueue>>
        BY <1>6 DEF AssignInputFaces
    <2> QED BY <1>0, <2>1, <2>2 DEF Step, InItsBurst, Active, Paired, FoundNear, Same, SameBurst
<1>7. ASSUME NEW t \in Threads, DetectLandmarks(t) PROVE OneBurst'
    <2>1. Paired(landmarks')
        <3>1. CASE landmarks' = <<>> BY <3>1 DEF Paired
        <3>2. ASSUME NEW m \in [DOMAIN inputFaces -> Marks],
                     landmarks' = [k \in DOMAIN inputFaces |->
                         [image |-> ciImage[t], face |-> inputFaces[k], marks |-> m[k]]]
              PROVE  Paired(landmarks')
            <4>1. FoundNear(capture[t], inputFaces) /\ Same(ciImage[t], capture[t])
                BY <1>0, <1>7 DEF DetectLandmarks, Step, Active, InItsBurst
            <4>2. \A k \in DOMAIN inputFaces : Same(inputFaces[k].image, ciImage[t])
                BY <4>1 DEF FoundNear, Same, SameBurst
            <4> QED BY <3>2, <4>2 DEF Paired
        <3> QED BY <1>7, <3>1, <3>2 DEF DetectLandmarks
    <2>2. Step(t, "landmarks", "post")
          /\ UNCHANGED <<capture, ciImage, results, currentImage, detected, inputFaces, mainQueue>>
        BY <1>7 DEF DetectLandmarks
    <2> QED BY <1>0, <2>1, <2>2 DEF Step, InItsBurst, Active, Paired, FoundNear, Same, SameBurst
<1>8. ASSUME NEW t \in Threads, PostObservations(t) PROVE OneBurst'
    <2>1. Paired(mainQueue \o landmarks)
        BY <1>0, PairedQueue
    <2>2. Step(t, "post", "idle") /\ mainQueue' = mainQueue \o landmarks
          /\ UNCHANGED <<capture, ciImage, results, sharedVars>>
        BY <1>8 DEF PostObservations
    <2>3. Paired(mainQueue')
        BY <2>1, <2>2
    <2> QED BY <1>0, <2>2, <2>3 DEF Step, sharedVars, InItsBurst, Active, Paired, FoundNear, Same, SameBurst
<1>9. CASE ObservationBlock
    <2>1. /\ mainQueue # <<>>
          /\ mainQueue' = Tail(mainQueue) \/ mainQueue' = mainQueue
          /\ UNCHANGED <<threadVars, sharedVars>>
        BY <1>9 DEF ObservationBlock, CalculateEmotion, Classify, Trap
    <2>2. Paired(mainQueue')
        BY <1>0, <2>1, PairedQueue
    <2> QED BY <1>0, <2>1, <2>2
            DEF threadVars, sharedVars, InItsBurst, Active, Paired, FoundNear, Same, SameBurst
<1>10. Next => \/ UNCHANGED <<threadVars, sharedVars, mainQueue>>
               \/ \E t \in Threads, c \in Images, s \in Sessions : HandlerBegins(t, c, s)
               \/ \E t \in Threads : HandlerStep(t)
               \/ ObservationBlock
    BY DEF Next, ViewDidAppear, Appear, StartRunning, CaptureStillImage, DataRace, Trap
<1>11. UNCHANGED vars => UNCHANGED <<threadVars, sharedVars, mainQueue>>
    BY DEF vars
<1> QED BY <1>1, <1>2, <1>3, <1>4, <1>5, <1>6, <1>7, <1>8, <1>9, <1>10, <1>11 DEF HandlerStep

\* For every number of threads, captures and faces: handlers that overlap mix up
\* what they share, but nothing is mixed with a capture of another burst.
THEOREM CapturesApart == Spec => []FacesMatchImage
<1>1. Init => BurstInv
    BY DEF Init, BurstInv, Unanswered, OneBurst, Active, Paired
<1>2. TypeInv /\ BurstInv /\ [Next]_vars => BurstInv'
    BY UnansweredKept, OneBurstKept DEF BurstInv
<1>3. BurstInv => FacesMatchImage
    <2> SUFFICES ASSUME BurstInv PROVE FacesMatchImage
        OBVIOUS
    <2>1. ASSUME NEW t \in Threads, pc[t] \in {"detect", "read", "assigning", "landmarks", "post"}
          PROVE  SameBurst(ciImage[t], capture[t])
        BY <2>1 DEF BurstInv, OneBurst, InItsBurst, Active, Same
    <2>2. \A k \in DOMAIN mainQueue : SameBurst(mainQueue[k].face.image, mainQueue[k].image)
        BY DEF BurstInv, OneBurst, Paired, Same
    <2> QED BY <2>1, <2>2 DEF FacesMatchImage
<1> QED BY <1>1, <1>2, <1>3, InitTypes, TypesKept, PTL DEF Spec

-----------------------------------------------------------------------------
(***************************************************************************)
(* The session a capture is asked of.                                      *)
(***************************************************************************)

\* The newest session, if its camera was accepted, runs or a block waits for it.
NewestStarts ==
    /\ stillImageOutput <= captureSession
    /\ stillImageOutput = captureSession =>
           captureSession = None \/ starts > 0 \/ captureSession \in running

\* However often the view appears and the camera fails: an output of the newest
\* session runs, or a block waits that will start it.
THEOREM OutputIsRunning == Spec => []OutputRuns
<1>1. Init => NewestStarts
    BY DEF Init, NewestStarts
<1>2. TypeInv /\ NewestStarts /\ [Next]_vars => NewestStarts'
    <2> SUFFICES ASSUME TypeInv, NewestStarts, [Next]_vars PROVE NewestStarts'
        OBVIOUS
    <2>0. starts \in Nat BY DEF TypeInv, TypeOK
    <2>1. CASE UNCHANGED sessionVars
        BY <2>1 DEF NewestStarts, sessionVars
    <2>2. CASE ViewDidAppear
        <3>1. captureSession \in Nat /\ stillImageOutput \in Nat
            BY BoundsAssumption DEF TypeInv, TypeOK, Sessions
        <3> QED BY <2>0, <2>2, <3>1 DEF ViewDidAppear, Appear, NewestStarts
    <2>3. CASE StartRunning
        BY <2>3 DEF StartRunning, NewestStarts
    <2>4. Next => UNCHANGED sessionVars \/ ViewDidAppear \/ StartRunning
        BY DEF Next, CaptureStillImage, HandlerBegins, HandlerStoresImage, ImageArrives, HandlerStep, ReadImage, Detect,
           DetectInto, ReadResults, ReadAndGo, AssignInputFaces, DetectLandmarks,
           PostObservations, ObservationBlock, CalculateEmotion, Classify, DataRace, Trap, Step,
           cameraVars
    <2> QED BY <2>1, <2>2, <2>3, <2>4 DEF vars, cameraVars
<1>3. TypeInv /\ NewestStarts => OutputRuns
    BY DEF NewestStarts, OutputRuns, TypeInv, TypeOK
<1> QED BY <1>1, <1>2, <1>3, InitTypes, TypesKept, PTL DEF Spec

=============================================================================
