# Mac3am in TLA+

Mac3am is a macOS music player written in Swift. It plays the files of one
folder, remembers which songs were skipped, and takes a picture of the user with
every skip in order to classify the emotion on the face. The repository also
vendors dLib, a C++ library, of which the concurrency primitives are modelled.
This directory holds TLA+ models, TLC configurations that check them, and TLAPS
proofs. `PVC` is `src/Mac3am/Controller/PlayViewController.swift`, `AD` is
`src/Mac3am/AppDelegate.swift`, and dLib's files are under `src/lib/dLib/`.

## Inventory

| part | state | operations | modules |
|---|---|---|---|
| player (PVC) | `musicList`, `currentMusicIndex`, the table's selection, the global `player`, `currentMusicPlayer`, `playBtn`, the progress indicator, the queue `progress` | select a row, play/pause, previous, skip, end of a song, indicator samples | `Playback` |
| skip records (PVC 182-218, AD) | rows of `viewContext`, rows of the persistent store | fetch/insert/raise/save in a skip; `applicationShouldTerminate` with its dialogs; crash, launch | `SkipStore`, `SkipLedger` |
| emotion pipeline (PVC 129-155, 220-472) | capture sessions, captures on their way, two shared Vision requests, main queue, `csvText` | appearance of the view, capture, completion handler, detection, landmarks, classification block | `EmotionPipeline` |
| face features (PVC 413-489, `CGRect+Scaled.swift`) | the newest box | scale a box, place points, five features | `FaceFeatures` |
| the application (login, key monitor, all of the above but the camera) | the window's screen, where a skip is | login, mouse, keys, a skip in three parts, quit, kill, launch | `Mac3am` |
| `threads/read_write_mutex_extension.h` | free locks, the writer's flags | lock, unlock, lock_readonly, unlock_readonly | `ReadWriteMutex`, `RWLock` |
| `pipe/pipe_kernel_1.h` | a ring of items, three switches, three counters of waiters | enqueue, dequeue, both with timeout, the waiting members, the switches, empty, the destructor | `Pipe`, `Fifo` |
| `threads/thread_pool_extension.*` | task buckets, worker ids | add_task, wait_for_task, wait_for_all_tasks, the workers, the destructor | `ThreadPool` |
| `threads/parallel_for_extension.h` | a loop's block and helper | parallel_for over a pool, nested | `ParallelFor` |
| `MainWindowController`, `Entity+*`, `CoreML/*`, `dediuh.mlmodel`, `draw`/`convert`, the rest of dLib | | | not modelled |

How they interact. Everything a user does arrives on the main thread.
`skipBtnTouched` is where the parts of the application meet: it stops the player,
records the skip in Core Data, asks for a still image, and moves to another song,
in this order. A local event monitor (PVC 116-120) calls it for every key pressed
in any window of the application, dialogs included. A completion handler on a
thread of AVFoundation runs the Vision requests and posts one block per face to
the main queue. The loop on the queue `progress` posts a sample of the playing
time to the main queue every second. When the user quits,
`applicationShouldTerminate` saves what is pending in the same context.

dLib's `parallel_for` adds its blocks to a `thread_pool` and waits for all tasks
of its thread; the other primitives stand alone, each over one mutex and one or
several signalers (condition variables).

What is hard here:

- **Re-entrance.** `load_Play_Music` selects the row of the song, and
  NSTableView delivers `tableViewSelectionDidChange` from inside that call. It
  stops the new player and loads the song again before the first load goes on.
- **Partial failure.** Opening a file, fetching and saving may each throw after
  other state was changed; the errors are printed and the handler goes on.
- **Crash and restart.** Forced unwraps and array indexes trap in ordinary use
  (an empty list, a deselection, a skip from the last row, no image), also in
  the middle of a skip. What survives is the store.
- **Shared objects without locks.** Handlers share `currentImage`, the two
  requests and their results; the main thread reads `inputFaceObservations`.
- **A string as a channel.** A face's landmarks reach the classifier as lines of
  `csvText`, which all faces share, found again by line number; the box that
  places them may belong to another face.
- **Wakeups.** dLib's members signal one thread, or all, or nobody, depending on
  counters, and several conditions share a signaler. A wakeup too few leaves
  somebody asleep for ever.
- **Exceptions across threads.** A task's exception waits in its bucket for
  whichever caller comes next, also one that has nothing to do with the task.

PROJECT.json lists each hazard at its line with the properties aimed at it.

## Modules

### Playback

A song is the row of its file and a player is named by the row it was opened on.
One action is one handler, run to completion on the main thread; `alive` turns
FALSE when a handler traps and `Relaunch` starts the program again.

| TLA+ | code |
|---|---|
| `TableViewSelectionDidChange(r)` | PVC 547-555, for a selection by the user; `NoRow` is a deselection |
| `PlayBtnTouched`, `PreviousBtnTouched`, `SkipBtnTouched` | PVC 157-168, 170-178, 180-270 |
| `LoadPlayMusic(i, sel, enabled)` | PVC 295-339: `OpenFails`, `OpenSucceeds`, or a trap |
| `ProgressPost`, `ProgressTick` | the loop of PVC 313-321 and the block it posts |
| `SongEnds`, `Terminate` | the end of a file in AVAudioPlayer, the end of the process (external) |

The nested notification is `SelectRow`, a part of `OpenSucceeds`: if the row was
not selected before (`sel # i`), the song is opened a second time. The second
attempt either succeeds, and everything refers to the second player, or fails,
and the first player stays, stopped. The two players are opened on the same file
and have the same duration, so the model does not tell them apart: it says nothing
of the first one, which the outer call keeps in its shadowed local constant. Album
art is modelled only where its forced cast traps.

### SkipStore and SkipLedger

`context` is `viewContext` with its pending changes, `store` what the last
successful save wrote, `phase` where the process is: running, showing an error
in `applicationShouldTerminate`, asking whether to quit anyway, or gone. A fetch
has no sort order and the loop of PVC 191-198 keeps the last match, so
`RaiseRow` raises any row of the song. `RecordSkip` is the whole of PVC 182-218
and is possible in the dialogs too, because the key monitor is.

`SkipLedger` is the promise without rows: a count per song that a skip raises by
one, and a durable copy replaced only as a whole. `ImplementsLedger` is the
refinement, with the sum of a song's rows as its count.

### EmotionPipeline

`pc[t]` says what thread `t` does next in its handler. There is one action
between any two accesses to state the threads share. An observation carries the
image and the face it was made from and the quality of each region: absent,
short (fewer points than `calculateEmotion` indexes) or full. `ObservationBlock`
is one block of the main queue with all calls it makes. A nonatomic access that
races with another may also trap (`DataRace`); its other outcomes are the
interleavings of the steps. `HandlerBegins` stores the image in
`self.currentImage` (`HandlerStoresImage`). `burst` is an auxiliary variable: it
records for each capture the one whose handler began when none was running, and
after which there was always one running. Handlers that overlap, directly or in a
chain, are in the same burst; one that runs alone is a burst of its own.

Every appearance of the view makes a new session and a new image output
(`ViewDidAppear`) and posts a block that starts `self.captureSession`, whichever
session that is when the block runs (`StartRunning`). Captures of an earlier
output may still be on their way.

### FaceFeatures

The arithmetic the pipeline leaves out: normalised points on a grid are placed
in a box scaled to the view, and the five features are fractions, whose
denominator may be 0 as the Double's would be. `AssignInputFaces` is a new
detection, `ObservationBlock` the classification of any face with whatever box is
newest then (PVC 361).

### Mac3am

`Playback` and `SkipStore` as instances over shared variables, driven by the
login window, the mouse and the keys. `skipBtnTouched` has two actions:
`SkipBegins` stops the player and records the skip, `SkipMoves` moves on. Between
them the process may be killed, or a completion handler of the camera may trap;
samples and the end of a song come in as well. The mouse reaches the player only
while no dialog is open, keys always. `atLaunch` and `pressed` are auxiliary:
what was stored when the process started, and what was pressed since.

### ReadWriteMutex and RWLock

Member functions hold `m` except in a wait, so each action is the code from one
wait to the next. `asleep` are the threads in a wait nobody has woken yet;
`SpuriousWakeup` is what the contract of `signaler` allows. `RWLock` is the
readers and writer lock as its users see it: no collecting, no sleeping.
`StraySpec` adds releases without a lock.

### Pipe and Fifo

A thread in `Called` has called a member and waits for `m`; one in `Waits` is
inside. `use` is chosen once: the size, the timeouts of the timed members, and the
other members that are called, so that one run checks several kinds of pipe. The
four members that move items share their actions; `timeout` is `"none"` for those
that have none. `EnqueueFails`, `EnqueueWaits` and `EnqueueStores` are the ends of
enqueue's first loop, `TakerAwake` its second loop, in which a pipe of size 0
waits for the item to be taken. `Destroy` needs that no caller still waits for
`m`, which the destructor could not know of; calls that are inside are fine.

`Fifo` is a bounded queue, or for size 0 a place where an item passes from one
call to another or back. `ImplementsFifo` maps the ring to the queue and the
points inside members to calls that have or have not happened yet.

### ThreadPool and ParallelFor

A task is a piece of user code like a client's: it may add tasks, wait, and end
with an exception. `stack` are the tasks a thread runs; a worker that finds no
empty bucket runs the new task itself (`RunsItself`). `Propagates` is the first
exception found in the buckets, thrown to whoever calls. `ParallelFor` extends
the pool by a loop in each client and task: `Add` its blocks, `Collect` them,
`Return` or `Escape`.

## Runs

| run | question | bounds |
|---|---|---|
| `playback` | do player, table, buttons and indicator agree? does the indicator catch up? | 4 files, two of which may refuse to open, one with bad artwork; 2 samples waiting |
| `playback_selected` | does the selected song play? (no) | as above, artwork fine |
| `playback_skip` | does a skip from the last song wrap around? (no) | 4 files that all open, a user who presses the three buttons |
| `skip_store` | is each skip counted once, across failing fetches and saves, dialogs and crashes? | 2 songs, 3 rows, counts to 3 |
| `emotion_serial` | right lines, newest session not lost, every capture settled, with one handler at a time? | 2 captures of up to 2 faces, 2 appearances, 4 landmark results, cameras that fail |
| `emotion_concurrent` | no face dropped, no capture mixed with one of another burst, with handlers side by side? | 2 threads, 3 captures, 1 face, 2 appearances, 2 landmark results |
| `face_features` | which features depend on the box? where does a zero divisor come from? | a grid of 3 by 3, three boxes, 18 faces in each |
| `mac3am` | is each skip on the right song's account, whatever interrupts it? does the whole implement its parts? | 3 files, one of which may refuse to open; 3 rows, counts to 2 |
| `read_write_mutex` | mutual exclusion, no lost wakeup, writers get through? | 4 threads, 2 read locks |
| `pipe` | queue order, no lost wakeup, nobody inside at the delete? | 2 producers, 2 consumers, 2 watchers, 2 items, sizes 0, 1 and 2 |
| `thread_pool` | each task once, each exception to one caller, no lost wakeup, no early return? | 2 workers, 2 clients, 3 tasks |
| `parallel_for` | each index once, a helper left behind only for an exception, and does every loop end? | 2 workers, 1 client, 4 tasks, ranges of 1, 2 and 5 |

Why the bounds are enough. With four files a skip can land on a row, wrap around
(from 2) and run past the end (from 3), and previous can wrap around; the three files of
`mac3am` keep all of that. Two waiting samples let a sample be taken
for a song that is no longer the player's. Three rows let a failed fetch give a
song a second row while another song has one, and a count of 3 is raised twice.
Two captures are enough for one to overtake the other, the third one for a thread
to come back; two faces in one capture are what shares `csvText`. The landmark
results are the cases the code tells apart. The faces of `face_features` include
equal heights, so that quotients are zero, infinite, not a number and ordinary;
the boxes are flat, square and tall.

Four threads over two read locks let two readers, a collecting writer and a queued
one meet. In the pipe, size 2 is the first ring that is neither full nor empty,
size 1 is full and empty by turns, and size 0 is the code's special case; two
threads on each side let one overtake the other that was woken, and two watchers
let one wait while the other destroys. Three tasks over two buckets let a bucket
be used again and a worker run a task itself. A range of 5 over two workers is
where the division of a range leaves a remainder, 1 is less than a block for each
worker.

Deadlock is checked where there is always something to do: the player, the
store, the application, the features and the mutex. The pipeline may stop after a
trap and when all captures are used up, the pipe when it is destroyed, and the
pool when it is destroyed or all tasks are used up.

## What the runs show

`CurrentSongAgrees` excludes current songs whose file may refuse to open,
because there the code leaves index and player apart. That exception is a
defect the run `playback_selected` shows: select a song, select a file that
cannot be opened, press play, and the old song sounds under the new selection,
against the comment at PVC 548. `playback_skip` is about the wrap-around of "next
Music" (PVC 262-266). From the first of four songs, previous goes to the last, and
a skip from there adds 2: the index is 5, not the 4 that line 264 tests for, and line
267 traps. That a skip within the list goes to the song after the next is
shown by `MCPlaybackNext` (below).

`OneRowPerSong` needs fetches that do not throw. When one throws, the song gets
another row; `ImplementsLedger` shows that this loses no skip, because the sum
over the rows is still exact. `mac3am` shows that a trap after the record, from
the last row, costs no more than what was not yet saved, and that a quit which
was not asked about has stored everything pressed.

The code does nothing to keep handlers apart, and handlers that overlap do mix
their captures: one may look for faces in another's image, or for landmarks in
its own image at another's faces. `FacesMatchImage` says how far that goes, with
two threads: never out of the burst of overlapping handlers, not even when a
request failed and left its earlier results. So captures handled one
after another are never mixed. `OutputRuns` says that the newest session is never
lost: its output runs, or a block waits that will start it, also when the camera failed
at an appearance. An older session can be lost, since the block queued for it
starts the newer one; a skip that asks the output of a session whose successor
found no camera gets no image. The box of PVC 361 may be another face's: `ShapeIgnoresBox`
shows that the openness of eyes and mouth is not affected, and
`EyebrowNeedsOwnProportions` that the slopes of the brows are, unless the two
boxes have the same proportions.

`NobodySleepsInVain` of mutex, pipe and pool is the absence of lost wakeups, each
for what it names:

- In the mutex, readers and a collecting writer sleep only while no lock is
  available, a queued writer only while another one collects or writes, and while
  anybody sleeps there is somebody to wake him. A queued writer is not woken at the
  end of the collecting (line 96), only by the unlock after it.
- In the pipe, the property covers enqueue, the hand-over, the destructor, and
  wait_until_empty as far as it waits for an empty or disabled pipe. It leaves out
  the wait for a disabled dequeue and wait_for_num_blocked_dequeues, whose wakeups
  are lost (`MCPipeDrain`, `MCPipeDequeues`).
- In the pool, it covers all five waits, with ids that tasks have.

`EveryItemHasATaker` is the harder half for the pipe: enqueue signals one taker
only, so there must always be as many takers awake as items.

## Configurations beside the runs

The first of these configurations is about a comment in PVC, the others are about
the contracts dLib states in its `*_abstract.h` files. Each is violated by what the
code does:

| configuration | property | divergence |
|---|---|---|
| `MCPlaybackNext` | `SkipMovesToNextMusic` | PVC 262, "//next Music": line 263 adds 2, so the first skip goes from the first song to the third. |
| `MCReadWriteMutexStray` | `StrayUnlockHasNoEffect` | `read_write_mutex_extension_abstract.h:131`: unlock_readonly without a readonly lock "has no effect". `read_write_mutex_extension.h:138` tests whether any lock is taken, so the call gives back somebody else's. |
| `MCPipeDrain` | `DrainEndsWithDequeue` | `pipe_kernel_abstract.h:102`: wait_until_empty ends when dequeue is disabled. It waits on `enqueue_sig`, which disable_dequeue (`pipe_kernel_1.h:734`) does not broadcast. |
| `MCPipeDequeues` | `EnoughDequeuesAreNoticed` | `pipe_kernel_abstract.h:111-113`: wait_for_num_blocked_dequeues ends when so many dequeues wait on an empty pipe. Only a dequeue that begins on an empty pipe tells it (`pipe_kernel_1.h:438`). |
| `MCPipeTimed` | `TimedEnqueueReturns` | `pipe_kernel_abstract.h:234-240`: enqueue_or_timeout ends when its time has passed. With size 0 the wait for the taker has no timeout (`pipe_kernel_1.h:544`). |
| `MCThreadPoolStray` | `UnknownIdsReturn` | `thread_pool_extension_abstract.h:394-398`: wait_for_task with an unknown id returns at once. An empty bucket has the id 0, so wait_for_task(0) sleeps (`thread_pool_extension.cpp:102`). |
| `MCParallelForHelper` | `HelperOutlivesTasks` | `thread_pool_extension_abstract.h:374`: the object of a task stays until the task has completed. An exception leaves parallel_for between two blocks, and its helper (`parallel_for_extension.h:223`) while tasks still use it. |
| `MCParallelForNested` | `LoopsAlwaysEnd` | `thread_pool_extension_abstract.h:231-232`: exceptions reach calling code "where they can be handled". A task that an escaped loop left behind is run by the worker that added it, and its own loop then waits for itself (`thread_pool_extension.cpp:127`). |

For this reason `LoopsEnd` of the run excepts pending exceptions. A loop may also
return normally although one of its blocks threw, when another caller got the
exception; `EveryIndexOnce` counts such a block as run. `OneHelperPerException`
bounds the damage of `MCParallelForHelper`: an exception is caught once, and the
loops left behind with tasks that use their helper are never more than the
exceptions that were caught. A loop that went on without waiting would be one more.

## Fairness

`Playback!FairSpec`: weak fairness of `ProgressPost` (libdispatch runs the loop,
which sleeps a second and goes on) and `ProgressTick` (the main run loop drains
its queue). `EmotionPipeline!FairSpec`: AVFoundation answers each request, with
an image or an error, even if others keep arriving (strong fairness for each
capture, since the thread may be busy again and again); handlers that began run
on; the main queue is drained. No fairness is assumed of the user, the end of a
song, the camera, or the start of the session.

`ReadWriteMutex!FairSpec`: a woken thread gets the mutex, and a thread gives its
lock back; nobody has to ask for one. `WriterGetsThrough` adds as a premise that
readers stop coming at some time: dLib promises no more, and readers that take
turns do starve a writer that collects. `ParallelFor!LoopFairness`: the mutex
lets every thread in, code goes on, and a task that runs no loop ends. `Pipe!FairSpec`
(for `MCPipeTimed`) adds that time passes.

## Proofs

Theorems hold for every value of the constants under the named assumptions, which
TLC evaluates in every run.

`PlaybackProofs`: each invariant of the run `playback` and its action property,
for every number of files, every set of files that may fail and every bound on
the samples. The inductive invariant is their conjunction with
`SelectionEnablesPlayBtn`: when a skip or previous finds its row selected already,
no nested notification enables the button, and the step is safe only because a
selected row means an enabled button.

`SkipStoreProofs`: the type, `OneRowPerSong` (without failing fetches),
`ContextContinuesStore`, `SavedSkipsSurvive` and `QuitSavesOrAsks`. Uniqueness of
rows alone is not inductive: a crash replaces the context by the store, and the
store's rows are distinct because the context continues them (`UniqueBackwards`).
The second half proves `ImplementsLedger`, with fetches that fail as well: the
total of a song (`Total`, a recursive function over the rows) is one more after
the song's row was raised or a row was inserted for it (`CountSkipTotal`), the
other songs' totals stay, and save and crash copy rows and with them all totals.

`EmotionPipelineProofs`: the type, `ClassifiesOwnLines`, `NoFaceDropped`,
`OutputRuns` and `FacesMatchImage`, for any number of handler threads, captures,
faces and appearances. That mixtures stay in a burst rests on `BurstInv`: all
handlers that run are in one burst, the image a handler reads was stored by one of
them, and so were the results of the two requests it reads, as each handler
overwrites the image before it detects and the results before it reads them.
`OutputRuns` counts the blocks in the queue: the newest session has one, or was
started.

`FaceFeaturesProofs`: the type, `ShapeIgnoresBox`, `ZeroDistanceIsInFace` and
`EyebrowNeedsOwnProportions`, for every grid, view and set of faces. The argument
is that placing is affine in each coordinate, so that the box cancels out of a
quotient of two heights. A quotient of a height and a width is extended by two
factors instead (`Slope`), which cancel only if they have the same ratio in both
boxes (`SlopePlaced`); and boxes keep their proportions to each other when they
are scaled to the view, whatever the view's own (`SameProportions`).

`Mac3amProofs`: every step of the application is a step of the player and of the
skip records, or leaves them alone (`ImplementsPlayback`, `ImplementsSkipStore`).
The invariant that is needed says that the parts agree on whether there is a
process, that nothing happens before the login, and that no song sounds within a
skip: otherwise `SkipMoves` would not be the player's skip. `OneRowPerSong` of the
application then follows from the theorem about `SkipStore`, by the refinement.
`SkipsGoToTheSkippedSong` needs in addition that the rows are rows (`RowsAlways`,
by the refinement too) and the facts about totals: the record is the only action
that changes a total and `pressed`, both for the row that was current, and a launch
begins with what is stored. `QuitStoresAllPressed` adds that a quit which
did not ask has stored the context.

`ReadWriteMutexProofs`: the type, `LocksConserved` (the inductive part: no lock is
lost or made up while a writer collects), `NobodySleepsInVain`, and that the mutex
implements `RWLock`, for every number of threads and locks.

`PipeProofs`: the type, that the counters count the calls inside, and from it
`NobodyInsideAtDelete`, `NobodySleepsInVain` and `EveryItemHasATaker`, for every
number of threads, items and every size. The destructor looks at the counters
only, so they must be right; and it needs that no call begins once the destructor
was called (`CallsOK`), or a counter at 0 would say nothing. The members broadcast
only if a counter is not 0; as the counters count (`Wakes`), that is as good as
always. The invariant of the wakeups (`WakeInv`) adds to the two properties that
who sleeps in dequeue sleeps in an enabled pipe, without which a caller that gives
up could leave an item to the sleepers alone, and that the destructor has woken
everybody else and sleeps only beside a call that will wake it (`ClosingOK`).
`ImplementsFifo` is proved step by step upon this invariant: a step that stores or
takes moves one index of the ring, and the contents, read from `first`, gain their
last or lose their first item, around the end of the ring included; with size 0
the item in `data[0]` is handed over or taken back.

`ThreadPoolProofs`: the type, `TasksRunOnce`, `ExceptionsReachOneCaller`,
`WaitsEndInTime` and `NobodySleepsInVain`, for every number of workers, clients and
tasks. The inductive invariant (`IInv`) says where things are: a task that is not
done is in one bucket nobody has begun, or on one stack (`PlacesOK`, `StacksOK`); a
busy worker has a begun bucket of its own, whose task is the lowest on its stack
(`WorkersOK`), without which it could clear another worker's; a bucket with an
exception is empty (`EptrsOK`). Two invariants rest on it. `TimeInv`: the id of an
undone task leads, by the remainder, to its bucket (lemma `Ids`), and clients are
idle while their pool is being closed. `WakeInv`: as long as a worker sleeps, as
many are awake as there are tasks to begin; that there are enough workers at all is
a count over the buckets, since begun ones and busy workers correspond
(`EnoughSeekers`). The theorem about wakeups assumes `0 \notin StrayIds`: an empty
bucket has the id 0, so a call that waits for 0 sleeps (`MCThreadPoolStray`), and when
the bucket is filled, nobody but a worker is woken.

The last part of `ThreadPoolProofs` is about `ParallelFor`, whose steps keep
the pool's invariant (`PoolKept`): `EveryIndexOnce` for every number of workers, clients and
tasks, every range and every nesting of loops, whatever is thrown. `LoopInv` joins
to the pool's invariant that a code's tasks are those of one thread (`OwnersOK`),
which is why waiting for the tasks of a thread is enough; that a stack is nested,
each task added by the code below it (`NestOK`) whose loop is still adding
(`BelowOK`); and that a loop adds as many tasks as there are blocks, done when the
wait is over (`TasksOK`, `MembersOK`). That the blocks split the range
(`BlocksSplit`) is arithmetic of the division, and the k-th task in the order of
their numbers has the k-th block (`Ranks`). `OneHelperPerException` counts: the loops that an
exception left, or is about to leave (`Spent`), are no more than the exceptions
caught, because each is given to one thread, in the code of one loop, and a call
of the pool begins without one (`ClearOK`). `HelperSafeUntilThrow` follows: until
some task throws, no loop is left while its tasks use the helper. `CodesAssumption` only keeps the names of codes apart.

Only model-checked: the liveness properties (`IndicatorCatchesUp`,
`CapturesSettle`, `WriterGetsThrough`, `LoopsEnd`), which need fairness, and the
two properties of violation runs. Every invariant, action property and refinement
of a passing run has a theorem, two of them with an assumption: `OneRowPerSong` is
about fetches that work, `NobodySleepsInVain` of the pool about calls that do not
wait for the id 0.

## Not modelled

- `saveAction` and `windowWillReturnUndoManager` (AD 53-74): no control of the
  storyboard sends the first, and AppDelegate is not the window's delegate.
- The authorization code of `LoginViewController`: its only entry is commented out.
- `draw` and `convert` (PVC 491-518): called from commented-out code only.
- The trained models and the generated `ExpressionRecognitionModel.swift`, which
  nothing uses; the generated accessors of `Entity`; the empty
  `MainWindowController`.
- Rounding of Double, layout, colours, cells of the table, the preview layer and
  the images shown.
- The rest of dLib: some 350,000 vendored lines of numerics, image processing,
  widgets and networking that the Xcode project does not link. The parts that are
  modelled were chosen because interleavings are what their tests hardly reach;
  the rest is sequential numerics, or input and output. The share of the
  repository's lines the models cover stays small for that reason; of the
  application's own Swift code little is left.
- Of the modelled parts of dLib: a pool without threads (`num_threads` 0), in which
  everything runs in the caller; `future`, which only calls `wait_for_task`; the
  overloads of `parallel_for` that make a pool of their own; overflow of indexes
  near the limits of `long`. Owners are assumed to destroy a pipe or a pool when no
  other thread is about to call it, as their contracts require.

## Plan

Next, in this order:

1. The safety part of `LoopsEnd`: in a state without exceptions some thread can go
   on, by an order of the tasks that wait for each other.
2. `ImplementsRWLock` and `ImplementsFifo` carried further: theorems of the abstract
   specifications (mutual exclusion, the order of items), inherited by refinement.
3. `futures` and the pool without threads, if anything in them is hard.
