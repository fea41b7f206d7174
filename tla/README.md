# ofxDLib: TLA+ models, checks and proofs

ofxDLib is an openFrameworks addon around dlib. Its own code is three classes
(`src/src/`) and four example applications; the training of its HOG detector
runs on dlib's thread pool, whose headers are bundled (`src/libs/dlib/include`)
and whose non-template code is compiled into a bundled `libdlib.a`.

## 1. Inventory

| component | state | operations | modelled by |
|---|---|---|---|
| `ObjectTracker` + `example-ObjectTracker` | drag (`startPoint`, `endPoint`, `bSelecting`), pending selection (`selectionTrackerInit`, `sel_*`), `tracker`, `dets` | mouse handlers, `setNewSelection`, `findObjects` once per video frame | `ObjectTracking` |
| `HOGtrainer` + `example-HOGTrainer` | two image arrays, two cursors, `detector`, pictures and rectangles on screen, `face_detector.svm` | `setup`, `nextTestImage`, `nextTrainImage` | `HOGTrainer` |
| `example-HOGLabeler` | `currentIndex`, `allRects`, drag, `boxFile.xml` | mouse handlers, keys n, x, arrows, restart | `HOGLabeler` |
| dlib `thread_pool`, `future` | task slots, two signalers, mutex, `we_are_destructing` | `add_task`, `wait_for_task`, `wait_for_all_tasks`, worker loop, destructor | `ThreadPool`, abstract `TaskExec` |
| dlib `parallel_for` | the loop variable and the blocks in the pool | cuts a range into blocks, submits and waits | `ParallelFor`; its discipline is `Structured` in `ThreadPool` |
| structural SVM training | cutting planes, oracle cache, `skip_cache`, accumulators under `accum_mutex` | oracle calls on the pool, stopping rule | `StructuralSvm` |
| `FaceTracker` + example | `detector`, `sp`, per-frame `dets` and `shapes` | `setup`, `findFaces` | no: recomputed on every frame |
| `ofxDLib.h` | none | pixel and geometry conversions | no: pure data |
| dlib `pipe` | ring or hand-over, three switches, three counters of callers, three signalers | `enqueue`, `dequeue` (with and without timeout), the two waits, `empty`, `enable*`, `disable*`, destructor | `Pipe`, abstract `Channel` |
| the rest of dlib | | | not reached by the addon |

How they interact. openFrameworks calls an application's handlers one at a time
from its main loop, so inside the addon there is no concurrency: what varies is
the order of mouse events, keys, video frames, exceptions and restarts.
`HOGtrainer::setup` is the exception: `set_num_threads(4)` makes the trainer
start a thread pool, run `parallel_for_blocked` on it again and again, and
destroy it. The labeller and the trainer meet in files: `boxFile.xml` is copied
by hand into `training.xml` and `testing.xml`.

What is hard, and the properties that make each part correct:

* **ObjectTracker**: a selection and the frame that acts on it are two events,
  with any others between them. Selections must not be lost or confused
  (`LatestSelectionWins`, `TracksBeginOnSelections`), rectangles must stay with
  their tracks (`DetsFollowTheirTracks`, `NewestDetIsCurrent`,
  `OldDetsStayPut`), and the assertion of the correlation tracker must not be
  reached (`StopsOnlyUnselected`, `NeverUpdatesBeforeStart`).
* **thread_pool**: nested submissions at a full pool, lost wake-ups, waits that
  return early or never, shutdown against queued tasks, trapped exceptions.
* **parallel_for**: quotients and cut-off blocks (`EachIndexOnce`,
  `NoIndexShared`), with threads taking blocks in any order.
* **structural SVM**: threads that add into shared sums, in batches or one by
  one (`SumsComplete`); a cache of old answers that must not make the solver
  believe it has converged (`ConvergesOnFresh`), and that is all the solver
  asks afterwards (`RefinementHasAnswers`); a loop that ends (`SolverStops`).
* **pipe**: wake-ups, timers and hand-overs that cross (`SleepersHaveReason`,
  `ItemsHaveTakers`, `WaitersCounted`, `ImplementsChannel`), switching off and
  destruction under threads asleep inside (`DisableReleases`,
  `FreedOnlyWhenLeft`, `DestructionEnds`).
* **HOGLabeler**: a file that is filtered by its own program and rewritten in
  place, with writes that fail or are cut, and restarts.
* **HOGtrainer**: cursors that survive a repeated or failed `setup`, pictures
  and rectangles that have to belong together.

The complete list of hazards, each at its line, is in `PROJECT.json`; a hazard
without a property says why.

## 2. Modules

### ObjectTracking
One action per handler. `update` is `ofApp::update` with a new frame, that is
`ObjectTracker::findObjects`: `StartTrack` is its first branch, `UpdateTrack`
its second. Points are integers, `InVideo` is what `videoRect.inside` accepts;
a position of the tracker is the pair (track, frame it was computed on).
A rectangle is its extent in one direction. `InitialFlags` and `InitialSels`
are what the uninitialised `selectionTrackerInit` and `sel_*` may hold;
`failure` names the dlib call whose assertion ended the program. `frames`, `accepted`
and `started` are history variables: they are read only by properties, by the
bounds and to number tracks.

### ThreadPool and TaskExec
Each critical section of the pool's mutex is one action: from a lock, or a
wake-up, to the unlock or the next wait. `blocked` holds the threads asleep in
a signaler; `SpuriousWakeup` lets them wake without a signal. `add_task` has
the three branches of the code: `FillSlot`, `RunInline` (a worker at a full
pool) and `AwaitSlot`. A thread's user code may submit and wait at any time,
nested to any depth the task bound allows. `Structured` restricts a body to
end only after the tasks it submitted, as `parallel_for_blocked` makes it.
When an exception leaves `add_task`, the code skips that wait
(`parallel_for_extension.h:102`); `Structured` lets no body end so, and liveness
is checked for bodies that wait however they end.
The worker loop, the waits and `shutdown_pool` are declared in
`thread_pool_extension.h` and compiled into the library; they are modelled
from the header's contracts and the state it declares, and marked external in
the map. Task ids are one counter here, where the code numbers each slot
apart; neither is ever reused while a slot holds a task.

`TaskExec` is the abstract promise: a task is submitted, executed exactly once
by one thread, and a thread that waits goes on only when what it waits for has
finished. `ImplementsTaskExec` is `TaskExec`'s specification under a
refinement mapping (executing: the slot a worker processes and the bodies it
runs inline; waiting: the unfinished tasks a wait covers).

### HOGLabeler
A file is a sequence of lines, a line its kind and what it names. `Copied` are
the places of the lines the read-back filter copies, by its `startAdding` flag,
`Kept` those lines in their order (`Pick`), `Text` what `saveRects`
writes, `Write` what `ofBufferToFile` leaves on disk: everything, nothing, or
a proper prefix, the process going on or not. Two details are left out: a cut
falls between lines, where the code's could fall inside one, and an existing
file that may be written but not read is taken for a missing one
(`ofApp.cpp:93`), so the loss of its entries is not modelled. `Quit` and `setup` are the end of
a process and the next start. `asked` records the labels every n was meant to
save.

### HOGTrainer
`setup(n, m)` is one action, since nothing else runs meanwhile, with one branch
per way it can end: loading, training or saving throws, an empty set is
indexed, or it succeeds. A save that throws may leave the old file, an empty or
partial one, or the new one, which is read back at once (`SaveFails`). An image is named by the `setup` call that loaded it
and its index; a detector by the call that trained it and whether its filters
have been thresholded. `Catches` says whether the caller goes on after an
exception: the example does not.

### ParallelFor
`Call` begins `parallel_for_blocked`; `AddBlock` is a turn of its loop, blocked
while there are as many blocks queued or processed as the pool has slots;
`Return` is `wait_for_all_tasks`. A pool without threads leaves the whole range
to the caller. `Process` is one call of the user's function, so blocks
interleave at every index. The pool is what `TaskExec` promises, not its slots.
The overloads only wrap a function or make a pool and call this one. What the
function throws, or asserts (`structural_svm_problem.h:139`), is left out: the
pool traps it and the wait rethrows it, so the properties speak of calls in
which every block runs to its end. `seen`
counts how often an index was processed and is read by properties only.

### StructuralSvm
Extends `ParallelFor`: an iteration is one call of it over the samples, and
`Process` becomes `call_oracle`'s loop body. `FromCache`, `FromOracle`,
`Uncached` and `ReadEmptyCache` are the ways `separation_oracle_cached` can end;
a sample's cache is a sequence with the least recently used labelling first,
which replaces `lru_count`. `add_to` is the section under `accum_mutex`.
`optimization_status` is the rest of a turn of the cutting-plane loop, with the
branches of the function of that name as `OutOfIterations`, `Refining`,
`Converging` and `NotYet`. `Risk[s][l][w]` stands for
`loss + dot(psi, w) - dot(true_psi, w)`; the QP is any choice of the next
solution and the lower bound `cp_obj`, so runs include choices no QP would
make, and what holds for them all holds for it. Averages over the samples are
kept as sums, so that everything is an integer. The nuclear norm, a function of
`w` that may be added to the risk, is left out.

### Pipe and Channel
Each critical section of the pipe's mutex is one action: from the start of a
call, or from a wake-up, to the return or the next wait. `call[t]` is where a
thread is (`handover` is the second wait of `enqueue` in a pipe of size 0) and
which overload it called; `sleep[t]` whether it is asleep in a signaler, or its
timer has run out (`Expire`). `signal()` wakes any one sleeper, `broadcast()`
all, `SpuriousWakeup` one for no reason. `enqueue` and `enqueue_or_timeout`
differ in their patience and in one conjunct of `no_room`; the sections are
shared. Once the owner is in the destructor no call begins.

`Channel` is the promise: an item is refused, taken once, or dropped by
`empty()`, in first-in-first-out order. `fate` records it; `ImplementsChannel`
is `Channel`'s specification with the ring read from `first`.

The `MC*` modules only give TLC its constants. Definitions with a comment that
begins with "slip:" are the code with a plausible mistake in it; no
specification uses them, and `PROJECT.json` says which property each one
breaks when it takes the place of the definition it is modelled on.

## 3. Runs

| run | bounds | shows |
|---|---|---|
| `ObjectTracking` | 4 points (2 in the video), 4 frames, 3 selections; flag FALSE or TRUE, `sel_*` zeroed or an empty rectangle | the six invariants and `OldDetsStayPut` |
| `ObjectTrackingUninit` | same, `sel_*` zeroed | **violation** of `NeverUpdatesBeforeStart` |
| `ThreadPool` | 2 workers, 2 slots, 2 outside threads, 3 tasks, any body | the pool's invariants and the refinement of `TaskExec` |
| `ThreadPoolLiveness` | 2 workers, 1 outside thread, 3 tasks, structured bodies | every task finishes, every wait returns, destruction ends |
| `ThreadPoolRethrow` | same, no fairness | **violation** of `AddTaskRethrows` |
| `HOGLabeler` | 2 images, 2 boxes, 3 saves, 1 nudge per box, no file or an old one | what the file keeps |
| `HOGLabelerWrites` | same | **violation** of `EveryNSaves` |
| `HOGTrainer` | sets of 0 to 2 images, 2 setups, 6 shows | cursors, pictures, rectangles |
| `HOGTrainerSetupAgain` | sets of 1 to 3 images, 2 setups | **violation** of `AccessInRange` |
| `StructuralSvm` | 5 samples (one with an approximate oracle), 2 labellings, 2 solutions; pools of 0, 1, 2 threads with blocks of 5, of 1, and of 2, 2 and 1 samples; cache sizes 0 and 1; 5 iterations | the sums, the cache rules, convergence, termination |
| `Pipe` | 3 threads that share out the four blocking calls, sizes 0 and 2, 3 items, any switching | counters, wake-ups, items, release and destruction |
| `PipeDrained` | same threads, size 1, 2 items | **violation** of `BlockedDequeuesSeen` |

Why the bounds are enough. Three selections and four frames give a pending, a
live and an old track, and frames between any two of them; points on both sides
of the video give drags in both directions and drags that leave it. Two
workers, two slots and three tasks give a full pool, an inline task, a nested
task, an outside thread that has to wait, and a task left in a slot beside an
idle worker; the theorem about ready tasks lifts the pool's size. The liveness
run has one outside thread, so that thread waits for slots without a rival:
outside threads that overtake each other are in the safety run, and being
overtaken for ever is beyond any bound on the tasks. Three saves
let a cut file be rewritten and the result be read back again. Two setups give
every failure followed by a success, and six shows go round a set of four
(two images and their mirrors) with two to spare. In the training, five
iterations let a cache fill, answer, be skipped, converge and be refined; one
entry per sample makes the replacement happen, and the proofs lift the sizes.
Five samples on two threads are the fewest that give blocks of several samples
and a last one that is cut off, taken and added side by side; a thread that is
to get six blocks of five samples makes the quotient 0. Two of the samples
only fill blocks: their wrong labelling is never the worst. The chunks wanted
depend on the pool here (`Chunks`), so that one run has each of these cuts. In
the pipe, three threads are two of a kind and
one of the other, for each kind; three items go round a ring of two; of the
sizes, 0 has the hand-over, 1 a ring that is full and empty by turns.

Deadlock is checked for the pool and the pipe, whose only resting state is the
end of their owner (`Terminated`), for the training (a finished one stutters),
and for the labeller, which can always be restarted. `ObjectTracking`, where an uncaught exception stops the
application, and `HOGTrainer`, where in addition every behaviour runs into its
bounds, switch the check off.

Symmetry is used in the thread pool's safety run only: workers and slots are never
compared or ordered, and the two outside threads differ because one of them
destroys the pool.

Fairness (`ThreadPoolLiveness`). Threads that can run are scheduled: weak
fairness on every step a woken thread, a worker in its loop and the destroying
thread take. That a body ends is strong fairness on `FinishTask` and
`ReturnInline`: a body uses the pool a finite number of times, so if it may
end again and again (it is not waiting, and what it must wait for has
finished) it does end. Nothing is assumed about submitting or waiting: user
code may stop using the pool. Liveness needs `Structured`: a body that
returns before a task it submitted may leave that task to its own worker, and
if that task calls `wait_for_all_tasks` it waits for itself.

Fairness (`Pipe`, `StructuralSvm`). In the pipe, weak fairness on `Resume(t)`: a
thread that is awake inside a call gets the mutex. Nothing is assumed of the
user's threads: no call need ever be made, no timer need run out. In the
training, weak fairness on a step of some thread: what runs is the program's
own code, and the oracle is taken to return.

### Findings

1. `ObjectTracker.h:30`: `selectionTrackerInit` has no initial value. If memory
   held true, the first frame updates a tracker that was never started, which
   dlib forbids. In the example the object is zeroed by `new ofApp()`.
   `StopsOnlyUnselected` shows that the first frame is the only dangerous one.
2. `thread_pool_extension.h:170`: `add_task` does not rethrow a trapped
   exception, though the documentation of the pool says the add members do.
3. `example-HOGLabeler/src/ofApp.cpp:151`: the result of the write is ignored
   and the boxes are cleared, so a failed write loses them.
4. `HOGtrainer.cpp:25`: `setup` resets only one of its two cursors; a second
 setup with a smaller training set reads past the end of `images_train`.
5. `pipe_kernel_1.h:659`: `wait_for_num_blocked_dequeues` can sleep on with its
   condition true. A `dequeue` signals it only when it is called on an empty
   pipe; one that was woken for an item and finds the pipe emptied by somebody
   else goes back to sleep without a signal.

Noticed while modelling, without a run of their own:

* `pipe_kernel_1.h:734`: `disable_dequeue` wakes `dequeue_sig` only, so threads
  asleep in `wait_until_empty` and `wait_for_num_blocked_dequeues` sleep on,
  though both are documented to return. `SleepersHaveReason` exempts both from
  it. Of `wait_until_empty` it asks that the pipe is enabled and not empty; of
  `wait_for_num_blocked_dequeues` only that it is enabled, since finding 5
  shows that what it waits for may come true without a signal.
* `pipe_kernel_1.h:543`: in a pipe of size 0 `enqueue_or_timeout` may hand over
  to a `dequeue_or_timeout` whose timer has just run out; it then waits for
  another dequeue without a timeout.
* `structural_svm_problem.h:482`: with `max_cache_size` 0 a finite
  `cache_based_eps` still delays the stop, though
  `structural_svm_problem_abstract.h:152` says that it has no effect.
* `structural_svm_problem.h:128`: after convergence a sample with an
  approximate oracle may have an empty cache, whose first entry is then read.
  This needs a finite `cache_based_eps`, which the trainer sets only with a
  nuclear norm (`scan_fhog_pyramid.h:1185`); `HOGtrainer` does not.
  `RefinementHasAnswers` shows that no other sample is exposed.

## 4. Proofs

Theorems are in `ObjectTracking_proofs`, `ThreadPool_proofs`,
`ThreadPoolTasks_proofs` (which continues it with what the pool does to its
tasks), `ParallelFor_proofs`, `StructuralSvm_proofs`, `Pipe_proofs`,
`HOGLabeler_proofs` and `HOGTrainer_proofs`, for every value of the constants that satisfies the
modules' named assumptions.

* **ObjectTracking.** The inductive invariant is `TrackInv`: the types, four
  of the safety properties, and what makes them inductive, `UnstartedFlag`:
  while there is no rectangle the tracker is empty, a flag that is already set
  means no selection has come, and a running application has seen no frame; and
  once there is a rectangle, an unset flag means a selection has come. The mouse
  handlers touch only the pending selection, whose width gives back the
  rectangle it was made from (`RectOfSelection`) and so is never empty; a frame
  adds a rectangle and its track together, or moves the newest one with the
  tracker. From it follow `TypeCorrect`, `SelectionPreventsStop`,
  `DetsAreTracks`, `DetIsCurrent` and `LatestSelectionTracked` for any initial memory.
  `NoUpdateBeforeStart` needs the flag zeroed at first and adds
  `FlagMeansTrack`: in a running program a set flag means that a track exists.
  `OrderInv` adds a count to the order of the tracks: there is at most one
  track more than selections, and one less while a selection is pending; hence
  `TracksFollowSelections`, every track but the first has a selection of its
  own. `OldDetsNeverMove` is an action property: only the newest rectangle
  moves.
* **ThreadPool.** The inductive invariant is `PoolInv`: the types, `SlotsHeld`
  (a worker with a job holds a slot of its own, marked as being processed and
  not empty; nobody else holds slots), `LoopStates` (a worker without a job is
  in its loop, or has left it because the pool is being destroyed),
  `NobodyLeft` and `OthersDone` (once the pool is being destroyed it is empty
  and nobody is left who could fill it). `ReadyTaskNeverStarves` then is a
  count: there are as many workers as slots, every worker outside its loop
  holds a slot of its own, and a ready slot is held by none, so some worker is
  in its loop. Destruction is why the last two parts are needed: without them
  the workers could have left while a slot is ready. `WakeInv` adds that
  callers are never in the loop and that there are at least as many workers
  awake in it as slots ready, which is `NoLostWakeup`. A filled slot wakes one
  sleeper if there is one, so both sides grow by one; if nobody sleeps, every
  worker without a slot is awake, and the slots left over can be no more than
  the workers left over (`SlotsSuffice`, by a bijection). A worker goes to sleep
  only when no slot is ready. `WakeupsSuffice` follows for every pool size.
* **ThreadPool's tasks.** `TaskInv` says where a task is: a slot that is not
  empty holds a submitted task of the thread it names, and no other slot does;
  a body run inline is once on its thread's stack and in no slot; ids grow; a submitted, unfinished
  task is in a slot or on a stack (`Placed`), and a thread waits for tasks of
  its own that it is not executing itself (`AwaitsOthers`). With `PoolInv` it
  gives `NoTaskLeftBehind`, and under the refinement mapping every step of the
  pool is one of `TaskExec` or changes nothing it sees: one lemma a step
  (`FillSlotMapped`, `RunInlineMapped`, `ClaimTaskMapped`, ...), put together in
  `PoolExecutesTasks`.
* **ParallelFor.** The inductive invariant is `ForInv`: the types; `Phases`
  (when the caller waits, the whole range has been given out; when it has
  returned, nothing is queued or processed); `Held` (what is left of a block
  was given, is unprocessed and is in that block only); `Accounted` (an index
  that was given is left in some block or has been processed once). A new block
  begins where the given indices end, which needs the lemma `BlockSize`: blocks
  hold at least one index. `IndicesProcessedOnce` and `IndicesNotShared`
  follow, for every range, pool and chunk count.
* **StructuralSvm.** Every step of the training is a step of `ParallelFor` or
  leaves its variables alone (`TrainingIsParallelFor`), so `ForInv` holds in it
  and `SamplesAskedOnce` and `SamplesNotShared` follow; the latter is why a
  sample's cache needs no lock. `SumInv` says where a processed sample's
  answer is: added once, or in what one thread still has to add, a thread that
  is then still in its block; hence `SumsAreComplete`. `FreshInv` says that
  while the cache is out of use a processed sample was answered by the oracle
  at the present solution; `converged` is raised only then, when all samples
  have been processed, hence `ConvergenceIsFresh`. `CacheInv` types the caches
  and bounds them by `max_cache_size`; `ExactHasAnswers` says that at
  convergence a sample with an exact oracle has something in its cache: the
  last oracle call found a labelling no worse than the truth, whose risk is 0,
  so it was kept, and nothing empties a cache. Hence `RefinementFindsAnswers`.
  `TypeCorrect` puts the caches' bound together with the loop's: `counter`
  exceeds `max_iterations` only when that is 0, by the one turn the loop makes
  before it looks.
* **Pipe.** Two inductive invariants. `PipeInv`: the types, the ring's domain,
  each counter equal to the number of threads inside its calls, only the owner
  in the destructor, nobody but idle threads once the ring is freed. Every
  section is one thread's move from the call it is in to another (`Moves`), by
  which a count and its counter change alike (`CountIn`); the destructor ends
  only when the counters leave no other thread inside, hence `RingFreedLast`.
  `SleepInv`: every sleeper has a reason (`Reason`, read off its call; for the
  two waits it leaves out what `SleepersHaveReason` exempts), a pipe
  being destroyed is disabled, and only a pipe of size 0 hands over. Its lemmas
  go through the sections: one that takes a reason away (an item taken, a
  handover ended, a caller gone from a disabled pipe, a new dequeue an enqueue
  with a timeout could serve) finds the sleeper counted (`SleepersCount`, which
  needs `PipeInv`) and so signals it; `NobodySleepsForNothing` follows for any
  number of threads, where the run has three. On top of both, `ItemsHaveTakers`
  is inductive: `Takers` are the threads awake in `dequeue`, `Available` what
  they could take; an insertion adds one to both, or nobody sleeps, and a
  thread that leaves or sleeps again either takes an item or finds none. Hence
  `EveryItemHasATaker`. `PipeIsAChannel` is the refinement. Its invariant
  `ItemInv` says that threads offer different items, numbered in order
  (`Numbered`), that nobody still offers what lies in the ring (`Contained`),
  how far the one handover of a pipe of size 0 is (`HandingOver`), and that
  `last` is where the item that came last lies (`RingEnds`). `PlaceInRing` rids
  the ring of `%`; `RingAppend` and `RingTail` then say that an insertion and a
  removal append to `content` and cut its head, and one lemma for each kind of
  section (`PutMapped`, `HandMapped`, `GetMapped`, `PassMapped`, ...) maps it to
  a step of `Channel`.
* **HOGLabeler.** The inductive invariant is `LabelInv`: all five invariants of
  the run, `Numbered` (box numbers in the file and on the screen have been
  drawn, those on the screen differ), `DrawnHere` (the boxes on the screen were
  ended on the image on display, since only n changes it and n clears them) and
  `LabelsTogether`: the file has at most one `<images>`, and what the filter
  copies of it are its label lines and no other. The last part holds of torn
  files too, because whether a line is copied depends on the lines above it
  only (`BeginningKeeps`); of a whole file it is read off `Follows`, which
  relates each line to its neighbours (`Neighbours`, `Shape`,
  `CopiedAreLabels`); and it holds of the new text wherever it held of the old
  file (`TextCopied`). With it `TextLabels` says that a save appends one entry
  to the labels, `TextUnderItsImage` and `TextBoxesDiffer` that copying neither
  parts a box from its image nor doubles it, `TextWellFormed` that the result
  is well formed. `EntriesSurvive` is an action property: the lines of a
  complete entry stand together, are all copied, and so stand together again
  (`RankRun`). What `Pick` returns is said by counting (`Places`,
  `NextPlace`: the k-th place of a set is the one with k places up to it),
  without induction. It is assumed that the first file is none or a whole one
  (`InitialFilesAssumption`); torn files come from the behaviours' own writes.
* **HOGTrainer.** The inductive invariant is `TrainerInv`: the types, the test
  cursor inside its set, a detector no younger than the last `setup`, and
  `Showing`: after a successful `setup` the rectangles on screen are what the
  present detector found on the picture on screen, and the images shown since,
  in order, are a `Walk`, in which each follows the one before round its set. An image of a set of n comes up in
  any n consecutive steps of a walk, hence `KeysShowEveryImage`, for every size
  of set; `TestCursorStaysInside` and `RectsBelongToPictures` are parts of the
  invariant.

Only model-checked: all liveness properties (outside the prover's reach under
fairness), and the properties whose runs end in a violation.

## 5. Plan

Every safety invariant, action property and refinement that a passing run
checks has a theorem. What is left: what can be said of the liveness
properties without time, such as a measure that every step of the training
lowers (for `SolverStops`) and that in a disabled pipe every sleeper has been
signalled or waits for one of the two conditions `disable` leaves alone (for
`DisableReleases`); and the labeller's file as a log to which n appends one
entry, an abstract specification that `HOGLabeler` implements while writes
succeed.

## 6. Not modelled

Drawing, image and XML decoding, the numerics of training, tracking and
detection; the window system's own event queue; `future`'s order of destruction
against its pool's; the overloads of `add_task` and `parallel_for` that differ
only in the arguments they carry. `FaceTracker` recomputes its rectangles and
landmarks from each picture and keeps nothing else, and the conversions of
`ofxDLib.h` are pure functions on pixels: neither has behaviour over time.

The repository bundles all of dlib, over 300 000 lines in more than 900 files
(matrices, GUI, neural networks, sockets, parsers), of which the addon's
classes, about a thousand lines, reach a small part. The models cover the
addon and the parts of dlib with a protocol worth checking that it runs on,
and `pipe`, which is neighbour to them. A map that covered a large share of
the bundled headers could only be made by naming lines no definition
translates.
