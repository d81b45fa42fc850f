-------------------------- MODULE EmotionPipeline ---------------------------
(***************************************************************************)
(* From a skip to an emotion: the still image skipBtnTouched asks for, its *)
(* completion handler on a thread of AVFoundation, the two Vision requests *)
(* shared by all handlers, the blocks they post to the main queue, and the *)
(* text csvText through which a face's landmarks reach the classifier.     *)
(*                                                                         *)
(* Handlers run concurrently with the main thread, and with each other if  *)
(* AVFoundation uses more than one thread; nothing in the controller is    *)
(* locked.  Blocks of the main queue run one at a time, in order.          *)
(*                                                                         *)
(* An image is the number of its capture.  A face is where Vision found    *)
(* it: [image, nth].  A landmark result is [image, face, marks]: the image *)
(* the landmarks were looked for in, the face they were looked for at, and *)
(* for each region whether it is absent, full, or short of the points      *)
(* calculateEmotion indexes.                                               *)
(*                                                                         *)
(* The variable burst is no state of the program.  It records for each     *)
(* capture in which burst of handlers its own ran: a burst begins when a   *)
(* handler does while no other runs, and lasts as long as one runs.        *)
(***************************************************************************)
EXTENDS Integers, Sequences

CONSTANTS
    Threads,      \* threads on which AVFoundation runs completion handlers
    CameraMayFail,   \* whether the camera may be missing or refused
    MaxAppearances,  \* bound on how often the player's view appears
    MaxCaptures,  \* bound on the skips that ask for an image
    MaxFaces,     \* bound on the faces Vision finds in an image
    Marks         \* the landmark results considered, [Regions -> quality]

\* The landmark regions detectLandmarks converts.
Regions == {"faceContour", "leftEye", "rightEye", "nose", "lips",
            "leftEyebrow", "rightEyebrow", "noseCrest", "outerLips"}

ASSUME ThreadsAssumption == Threads # {}
ASSUME BoundsAssumption  ==
    MaxAppearances \in Nat /\ MaxCaptures \in Nat /\ MaxFaces \in Nat
ASSUME CameraAssumption  == CameraMayFail \in BOOLEAN
ASSUME MarksAssumption   == Marks \subseteq [Regions -> {"absent", "short", "full"}]

Images       == 1 .. MaxCaptures
Sessions     == 1 .. MaxAppearances   \* a session, or its still image output
None         == 0      \* no image yet, no session, an output without connection
Faces        == [image : Images, nth : 1 .. MaxFaces]
Observations == [image : Images, face : Faces, marks : Marks]

VARIABLES
    alive,         \* the process runs
    captureSession,    \* self.captureSession
    stillImageOutput,  \* the session whose output self.stillImageOutput is
    starts,        \* blocks on the global queue that will start a session
    running,       \* the sessions that run
    requested,     \* captures asked for so far
    inFlight,      \* captures whose completion handler has not begun, with output
    pc,            \* what each thread does next in its handler
    capture,       \* the capture whose handler the thread runs
    ciImage,       \* the image the thread's detectFace got
    results,       \* the thread's local copy of the detection results
    burst,         \* of each capture, the one whose handler opened its burst
    currentImage,  \* self.currentImage
    detected,      \* faceDetectionRequest.results, <<>> for none or nil
    inputFaces,    \* faceLandmarks.inputFaceObservations, <<>> for nil
    landmarks,     \* faceLandmarks.results
    mainQueue,     \* observations whose block waits in the main queue
    csvText,       \* lines [of, region] of self.csvText
    prediction     \* the observation last classified and the lines used

sessionVars == <<captureSession, stillImageOutput, starts, running>>
cameraVars == <<sessionVars, requested, inFlight>>
threadVars == <<pc, capture, ciImage, results, burst>>
sharedVars == <<currentImage, detected, inputFaces, landmarks>>
mainVars   == <<csvText, prediction>>
vars == <<alive, cameraVars, threadVars, sharedVars, mainQueue, mainVars>>

Line == [of : Observations, region : Regions]

TypeOK ==
    /\ alive \in BOOLEAN
    /\ captureSession \in Sessions \cup {None}
    /\ stillImageOutput \in Sessions \cup {None}
    /\ starts \in Nat
    /\ running \subseteq Sessions
    /\ requested \in 0 .. MaxCaptures
    /\ inFlight \subseteq Images \X Sessions
    /\ pc \in [Threads -> {"idle", "image", "detect", "read", "assigning", "landmarks", "post"}]
    /\ capture \in [Threads -> Images \cup {None}]
    /\ ciImage \in [Threads -> Images \cup {None}]
    /\ results \in [Threads -> Seq(Faces)]
    /\ burst \in [Images -> Images \cup {None}]
    /\ currentImage \in Images \cup {None}
    /\ detected \in Seq(Faces)
    /\ inputFaces \in Seq(Faces)
    /\ landmarks \in Seq(Observations)
    /\ mainQueue \in Seq(Observations)
    /\ csvText \in Seq(Line)
    /\ prediction = <<>> \/ (prediction.of \in Observations /\ prediction.lines \in Seq(Line))

Init ==
    /\ alive = TRUE
    /\ captureSession = None
    /\ stillImageOutput = None
    /\ starts = 0
    /\ running = {}
    /\ requested = 0
    /\ inFlight = {}
    /\ pc = [t \in Threads |-> "idle"]
    /\ capture = [t \in Threads |-> None]
    /\ ciImage = [t \in Threads |-> None]
    /\ results = [t \in Threads |-> <<>>]
    /\ burst = [c \in Images |-> None]
    /\ currentImage = None
    /\ detected = <<>>
    /\ inputFaces = <<>>
    /\ landmarks = <<>>
    /\ mainQueue = <<>>
    /\ csvText = <<>>
    /\ prediction = <<>>

\* A trap on any thread ends the process.
Trap ==
    /\ alive' = FALSE
    /\ UNCHANGED <<cameraVars, threadVars, sharedVars, mainQueue, mainVars>>

-----------------------------------------------------------------------------
(***************************************************************************)
(* The camera and the skip button.                                         *)
(***************************************************************************)

\* The view appears, for the first time or again; n blocks are waiting then to
\* start the session.  The camera is accepted by the new session; or it is there
\* and is not accepted; or it is missing, and the old output stays.
Appear(n) ==
    /\ alive
    /\ captureSession < MaxAppearances
    /\ captureSession' = captureSession + 1
    /\ \/ stillImageOutput' = captureSession' /\ starts' = n
       \/ CameraMayFail /\ stillImageOutput' = None /\ UNCHANGED starts
       \/ CameraMayFail /\ UNCHANGED <<stillImageOutput, starts>>
    /\ UNCHANGED <<alive, running, requested, inFlight, threadVars, sharedVars, mainQueue,
                   mainVars>>

\* Bug variant: the session is only started when the view first appears.
ViewDidAppearStartingOnce == Appear(IF captureSession = None THEN 1 ELSE starts)

\* viewDidAppear.  A session is never stopped: its preview layer keeps it.
ViewDidAppear == Appear(starts + 1)

\* A block on the global queue: self.captureSession is read when it runs, which
\* may be after the view appeared again.
StartRunning ==
    /\ alive
    /\ starts > 0
    /\ starts' = starts - 1
    /\ running' = running \cup {captureSession}
    /\ UNCHANGED <<alive, captureSession, stillImageOutput, requested, inFlight, threadVars,
                   sharedVars, mainQueue, mainVars>>

\* skipBtnTouched with a video connection: an image is asked for, whether or not
\* the session runs yet or an earlier image is still on its way.
CaptureStillImage ==
    /\ alive
    /\ stillImageOutput # None
    /\ requested < MaxCaptures
    /\ requested' = requested + 1
    /\ inFlight' = inFlight \cup {<<requested + 1, stillImageOutput>>}
    /\ UNCHANGED <<alive, sessionVars, threadVars, sharedVars, mainQueue, mainVars>>

-----------------------------------------------------------------------------
(***************************************************************************)
(* The completion handler on thread t, one step between any two accesses   *)
(* to state it shares with other threads.                                  *)
(***************************************************************************)

\* Thread t goes from one point of the handler to another.
Step(t, from, to) ==
    /\ alive
    /\ pc[t] = from
    /\ pc' = [pc EXCEPT ![t] = to]
    /\ UNCHANGED <<alive, sessionVars, requested, burst, mainVars>>

Active(t) == pc[t] # "idle"

\* The burst a handler that begins now for capture c belongs to.
BurstOf(c) ==
    IF \E t \in Threads : Active(t)
    THEN burst[capture[CHOOSE t \in Threads : Active(t)]]
    ELSE c

\* The handler has made a readable image out of the answer to request c, and
\* self.currentImage is image.
ImageArrives(t, c, image) ==
    /\ pc' = [pc EXCEPT ![t] = "image"]
    /\ capture' = [capture EXCEPT ![t] = c]
    /\ burst' = [burst EXCEPT ![c] = BurstOf(c)]
    /\ currentImage' = image
    /\ UNCHANGED <<alive, sessionVars, requested, ciImage, results, detected, inputFaces,
                   landmarks, mainQueue, mainVars>>

\* Bug variant: the image is kept in a local variable of the handler.
HandlerKeepsImage(t, c) == ImageArrives(t, c, currentImage)

HandlerStoresImage(t, c) == ImageArrives(t, c, c)

\* AVFoundation answers request c, made of output o.  An error without image
\* traps at a forced unwrap of line 224 or 225; a session that does not run
\* delivers no image; data NSImage cannot read ends the handler.
HandlerBegins(t, c, o) ==
    /\ alive
    /\ ~Active(t)
    /\ <<c, o>> \in inFlight
    /\ \/ Trap
       \/ /\ o \in running
          /\ inFlight' = inFlight \ {<<c, o>>}
          /\ UNCHANGED <<alive, sessionVars, requested, threadVars, sharedVars, mainQueue, mainVars>>
       \/ /\ o \in running
          /\ inFlight' = inFlight \ {<<c, o>>}
          /\ HandlerStoresImage(t, c)

\* detectFace(on:) gets what self.currentImage holds now.
ReadImage(t) ==
    /\ Step(t, "image", "detect")
    /\ ciImage' = [ciImage EXCEPT ![t] = currentImage]
    /\ UNCHANGED <<inFlight, capture, results, sharedVars, mainQueue>>

\* The detection results become faces.
DetectInto(t, faces) ==
    /\ Step(t, "detect", "read")
    /\ detected' = faces
    /\ UNCHANGED <<inFlight, capture, ciImage, results, currentImage, inputFaces, landmarks,
                   mainQueue>>

FacesOf(image, n) == [k \in 1 .. n |-> [image |-> image, nth |-> k]]

\* Bug variant: Vision keeps the old results when the request fails.
DetectOrKeep(t) ==
    \E n \in 0 .. MaxFaces : DetectInto(t, IF n = 0 THEN detected ELSE FacesOf(ciImage[t], n))

\* faceDetectionRequestHandler.perform; a failed request has no results.
Detect(t) == \E n \in 0 .. MaxFaces : DetectInto(t, FacesOf(ciImage[t], n))

\* Reading faceDetectionRequest.results leads to the point next.
ReadAndGo(t, next) ==
    /\ Step(t, "read", next)
    /\ results' = [results EXCEPT ![t] = detected]
    /\ UNCHANGED <<inFlight, capture, ciImage, sharedVars, mainQueue>>

\* Bug variant: the faces are handed over even when there are none.
ReadResultsUnchecked(t) == ReadAndGo(t, "assigning")

\* Bug variant: the handler waits for a face.
ReadResultsWaiting(t) == detected # <<>> /\ ReadAndGo(t, "assigning")

\* Without a face the handler is done.
ReadResults(t) == ReadAndGo(t, IF detected = <<>> THEN "idle" ELSE "assigning")

\* The unsynchronised assignment of line 346 takes effect.
AssignInputFaces(t) ==
    /\ Step(t, "assigning", "landmarks")
    /\ inputFaces' = results[t]
    /\ UNCHANGED <<inFlight, capture, ciImage, results, currentImage, detected, landmarks,
                   mainQueue>>

\* faceLandmarksDetectionRequest.perform: one result for each input face, or
\* none at all when the request fails.
DetectLandmarks(t) ==
    /\ Step(t, "landmarks", "post")
    /\ \/ landmarks' = <<>>
       \/ \E m \in [DOMAIN inputFaces -> Marks] :
             landmarks' = [k \in DOMAIN inputFaces |->
                 [image |-> ciImage[t], face |-> inputFaces[k], marks |-> m[k]]]
    /\ UNCHANGED <<inFlight, capture, ciImage, results, currentImage, detected, inputFaces,
                   mainQueue>>

\* One block for each observation; the handler returns.
PostObservations(t) ==
    /\ Step(t, "post", "idle")
    /\ mainQueue' = mainQueue \o landmarks
    /\ UNCHANGED <<inFlight, capture, ciImage, results, sharedVars>>

-----------------------------------------------------------------------------
(***************************************************************************)
(* The block of one observation on the main thread.                        *)
(***************************************************************************)

\* convertPointsForFace appends a line for a region that is not nil.
LineOf(o, r) == IF o.marks[r] = "absent" THEN <<>> ELSE <<[of |-> o, region |-> r]>>

\* The nine calls of detectLandmarks.
LinesOf(o) ==
    LineOf(o, "faceContour") \o LineOf(o, "leftEye") \o LineOf(o, "rightEye") \o
    LineOf(o, "nose") \o LineOf(o, "lips") \o LineOf(o, "leftEyebrow") \o
    LineOf(o, "rightEyebrow") \o LineOf(o, "noseCrest") \o LineOf(o, "outerLips")

\* The elements of emotionText.components(separatedBy: "\n") that
\* calculateEmotion reads, as positions in csvText: df[1], df[2], df[8], df[5],
\* df[6].
UsedLines == <<2, 3, 9, 6, 7>>

\* No index is out of range: the lines are there and hold enough points.
Indexable(text) ==
    \A k \in 1 .. 5 :
        LET i == UsedLines[k]
        IN  i <= Len(text) /\ text[i].of.marks[text[i].region] = "full"

\* The five features of the lines used go through the model.
Classify(o, text) ==
    /\ Indexable(text)
    /\ prediction' = [of |-> o, lines |-> [k \in 1 .. 5 |-> text[UsedLines[k]]]]
    /\ mainQueue' = Tail(mainQueue)
    /\ UNCHANGED <<alive, cameraVars, threadVars, sharedVars>>

\* Bug variant: csvText is not emptied after the model ran.
CalculateEmotionKeepingText(o, text) == Classify(o, text) /\ csvText' = text

\* calculateEmotion(csvText) leaves an empty csvText for the next face.
CalculateEmotion(o, text) == Classify(o, text) /\ csvText' = <<>>

\* The block does nothing without a bounding box.  With one it classifies the
\* face, or traps: an index is out of range or the model fails.
ObservationBlock ==
    /\ alive
    /\ mainQueue # <<>>
    /\ IF inputFaces = <<>>
       THEN /\ mainQueue' = Tail(mainQueue)
            /\ UNCHANGED <<alive, cameraVars, threadVars, sharedVars, mainVars>>
       ELSE \/ CalculateEmotion(Head(mainQueue), csvText \o LinesOf(Head(mainQueue)))
            \/ Trap

-----------------------------------------------------------------------------
\* Two handlers at once, or a block of the main queue while a handler assigns
\* inputFaceObservations, access nonatomic properties without a lock.  Besides
\* the interleavings above such a race may trap.
DataRace ==
    /\ alive
    /\ \/ \E t, u \in Threads : t # u /\ Active(t) /\ Active(u)
       \/ mainQueue # <<>> /\ \E t \in Threads : pc[t] = "assigning"
    /\ Trap

\* Thread t goes on in the handler it runs.
HandlerStep(t) ==
    \/ ReadImage(t)
    \/ Detect(t)
    \/ ReadResults(t)
    \/ AssignInputFaces(t)
    \/ DetectLandmarks(t)
    \/ PostObservations(t)

Next ==
    \/ ViewDidAppear
    \/ StartRunning
    \/ CaptureStillImage
    \/ \E t \in Threads, c \in Images, o \in Sessions : HandlerBegins(t, c, o)
    \/ \E t \in Threads : HandlerStep(t)
    \/ ObservationBlock
    \/ DataRace

Spec == Init /\ [][Next]_vars

\* AVFoundation answers every request however many are waiting, the handlers it
\* calls run on, and the main run loop drains its queue.  The user owes nothing.
FairSpec ==
    /\ Spec
    /\ \A c \in Images : SF_vars(\E t \in Threads, o \in Sessions : HandlerBegins(t, c, o))
    /\ \A t \in Threads : WF_vars(HandlerStep(t))
    /\ WF_vars(ObservationBlock)

-----------------------------------------------------------------------------
(***************************************************************************)
(* Properties.                                                             *)
(***************************************************************************)

\* Landmarks arrive at the classifier as text, found again by line number, in a
\* string all faces share and absent regions leave gaps in.  Still, whenever a
\* prediction is made, its five lines are the eyes, the outer lips and the
\* eyebrows, in this order, of the very face the block was posted for.
ClassifiesOwnLines ==
    prediction # <<>> =>
        prediction.lines =
            [k \in 1 .. 5 |->
                [of     |-> prediction.of,
                 region |-> <<"leftEye", "rightEye", "outerLips",
                              "leftEyebrow", "rightEyebrow">>[k]]]

\* The block asks inputFaceObservations for a box when it runs, which may be
\* after any number of later captures, one without faces among them: the `if
\* let` of line 361 never drops a face that has been posted.
NoFaceDropped == mainQueue # <<>> => inputFaces # <<>>

SameBurst(a, b) == burst[a] = burst[b] /\ burst[a] # None

\* The handlers share currentImage, two requests and their results without a
\* lock, and those that overlap do mix them up.  A mixture never reaches out of a
\* burst of overlapping handlers: the image looked at and the faces the landmarks
\* are looked for at are of captures handled in the same burst, whichever request
\* failed before.  So a handler that runs alone sees only its own capture.
FacesMatchImage ==
    /\ \A t \in Threads : pc[t] \in {"detect", "read", "assigning", "landmarks", "post"}
                              => SameBurst(ciImage[t], capture[t])
    /\ \A k \in DOMAIN mainQueue : SameBurst(mainQueue[k].face.image, mainQueue[k].image)

\* The block that starts a session finds it through self (line 286) and may start
\* a later one than it was queued for, so that the earlier one never runs.  The
\* newest session is not lost: if the output a skip asks is of that session, it
\* runs, or a block is waiting that will start it, whether or not the camera
\* failed before.
OutputRuns ==
    stillImageOutput # None /\ stillImageOutput = captureSession
        => stillImageOutput \in running \/ starts > 0

\* Nothing of capture c is on its way any more.
Settled(c) ==
    /\ \A o \in Sessions : <<c, o>> \notin inFlight
    /\ \A t \in Threads : capture[t] = c => pc[t] = "idle"
    /\ \A k \in DOMAIN mainQueue : mainQueue[k].image # c

\* A skip that asked for an image gets through camera, detection, landmarks and
\* the main queue: no handler waits for another one or for the main thread.
CapturesSettle == \A c \in Images : c <= requested ~> Settled(c) \/ ~alive

=============================================================================
