# Verification of Vibescape

TLA+ specifications of the concurrent and history-keeping core of Vibescape (a
fork of Inkscape), the TLC configurations that check them on small instances, and
machine-checked TLAPS proofs. Source paths below are relative to the source
directory of the repository, `src/`.

Vibescape is an editor of SVG documents. Most of its code transforms data:
geometry, parsing, import and export, widgets. What this project is about is the
code in which *order* matters: the canvas that is redrawn by threads while the
user edits; the channels over which other threads talk to the main loop; the
background tasks built on them; the thread pool that filters use; the XML tree
with the logs that undo and redo replay; the undo history that has to fit the
document at every moment; the lists of observers that change while they are being
notified; and the flags by which objects ask to be updated while others are.

- [Inventory](#inventory)
- [Modules](#modules)
- [Runs](#runs)
- [Fairness](#fairness)
- [Proofs](#proofs)
- [Disagreements found](#disagreements-found)
- [What is not modelled](#what-is-not-modelled)
- [Plan](#plan)

## Inventory

### Canvas synchroniser: `ui/widget/canvas/synchronizer.{h,cpp}`

*State.* One mutex; `exitposted`; `main_blocked`; `slots`, a list of pointers to
`Slot`s on the stacks of blocked render threads; `pending`, for a
`Glib::Dispatcher`; two condition variables.
*Operations.* `signalExit()` and `runInMain()` from render threads,
`waitForExit()` from the main thread, `on_dispatcher()` from the GTK main loop,
`process_slots()` from both of the latter.
*Interaction.* `canvas.cpp` calls `signalExit()` from the last of
`RedrawData::numthreads` render threads (`numactive` counts them down), connects
`after_redraw()` to `signal_exit`, and calls `waitForExit()` when the canvas is
deactivated.
*Hard.* Slots are pointers into stacks of other threads; functions run with the
lock released; condition variables may wake spuriously; a dispatcher emission may
be delivered after `waitForExit()` has consumed what it announced.
*Correct when* the assertions hold, no pointer outlives its slot, no wake-up or
reply is lost, each end of a process is handled once, and every caller returns.

### Canvas redraw chain: `ui/widget/canvas.cpp`, `display/control/canvas-item-context.cpp`

*State.* `redraw_active`, `redraw_requested`, `schedule_redraw_conn`,
`invalidated_region`, `_need_update`, the view (`_pos`, `_affine`, size), the
snapshot of the items and the log of deferred edits, `RedrawData` shared by the
render threads, `abort_flags`, the tiles to commit.
*Operations.* `schedule_redraw`, `launch_redraw`, `after_redraw`, `commit_tiles`,
`init_tiler`, `init_redraw`, `end_redraw`, `process_redraw`, `render_tile`,
`paint_widget`, `set_pos`, `set_affine`, `size_allocate`, `redraw_area`,
`redraw_all`, `request_update`, `activate`, `deactivate`.
*Interaction.* Reads and drives the backing store and the updater, uses the
synchroniser, defers edits of the items by snapshot and unsnapshot.
*Hard.* The user edits, scrolls, zooms, resizes and hides the canvas between any
two steps of the chain; the threads may run out of time; what they read without a
lock must not change.
*Correct when* what is taken for clean is up to date, no request is forgotten, one
process runs at a time, the picture is current when redrawing stops, it does stop,
and what is visible is drawn before the margin.

### Backing store: `ui/widget/canvas/stores.{h,cpp}`

*State.* The mode (none, normal, decoupled), store and snapshot with their
affines, rectangles and drawn regions. *Operations.* `update`, `finished_draw`,
`reset`, `mark_drawn`. *Correct when* it covers the view and its margin, and is
never at another affine than the view while idle.

### Update strategies: `ui/widget/canvas/updaters.{h,cpp}`

*State.* The clean region; for full redraw the old clean region; for multiscale a
counter, a scale and the blocked regions. *Operations.* `reset`, `intersect`,
`mark_dirty`, `mark_clean`, `get_next_clean_region`, `report_finished`,
`next_frame`. *Correct when* they postpone work but never drop any.

### Channel: `async/channel.h`, `util/funclog.{h,cpp}`, `async/async.{h,cpp}`

*State.* Shared by a source and a destination: a mutex, `is_open`, a dispatcher
that exists while open, a log of functions. *Operations.* `Source::run`,
`Dest::close`, the dispatcher's handler, `FuncLog::exec_while`, moves.
*Hard.* Posting races with closing; a function that is being run may close the
channel it came from; functions must be destroyed in the main thread.
*Correct when* functions run at most once, in order, only while open, and whatever
was accepted is run or destroyed.

### Background tasks: `async/background-task.h`, `async/operation-stream.h`, `util/font-discovery.cpp`

*State.* The task and its channel, the future of its worker, the stream's current
task, the client's result. *Operations.* `start`, `cancel`, the worker with its
progress reports, delivery of its messages, destruction, which joins the worker.
*Hard.* A task is replaced or cancelled while its messages are under way; the main
loop blocks in the destructor; the work may throw.
*Correct when* a client sees the messages of the current task only, in order, one
end each, and the join returns.

### Dispatch pool: `display/dispatch-pool.{h,cpp}`, `display/threading.cpp`

*State.* `_available_work`, `_completed_work`, `_target_work`, the function, the
threads, two condition variables, two mutexes. *Operations.* Construction,
`dispatch`, `thread_func`, `execute_batch`, destruction. *Hard.* One `notify_one`
per batch has to keep all workers fed; workers may read the size of the vector of
threads while it grows; a worker may still be on its way out of a dispatch when the
next begins. *Correct when* each job is run once, `dispatch()` returns after the
last and not before, and the destructor joins.

### Undo and the event log: `document-undo.{h,cpp}`, `event-log.{h,cpp}`, `event.h`

*State.* Undo and redo stacks, the partial log of an interrupted transaction, the
action key, sensitivity, the modified flag; the tree of rows of the history with
the iterators `_curr_event`, `_last_event`, `_curr_event_parent`, `_last_saved`.
*Operations.* `done`, `maybeDone`, `cancel`, `undo`, `redo`, `resetKey`,
`setUndoSensitive`, `finish_incomplete_transaction`, expiry; the observers'
`notifyUndoEvent`, `notifyRedoEvent`, `notifyUndoCommitEvent`, `notifyUndoExpired`,
`notifyClearRedoEvent`; `rememberFileSave`, `seekTo`; saving in `file.cpp`.
*Hard.* A long sequence of legal calls: interruptions by undo within a drag, merges
by key, expiry at the limit, seeking step by step through parents and children,
saves in between. *Correct when* every log is undone and redone on the tree it
fits, the history shows what the stacks hold, and the mark of modification is
right.

### XML tree and its log: `xml/simple-node.{h,cpp}`, `xml/event.{h,cpp}`, `xml/log-builder.cpp`, `xml/simple-document.cpp`

*State.* Per node: parent, previous and next sibling, first and last child, the
number of children, the cached position among its siblings and whether the cached
positions of its children hold; attributes and content. Per document: the log of the
transaction, a list of events, the newest first.
*Operations.* `addChild`, `removeChild`, `changeOrder`, `setAttribute`,
`setContent`, `position`; `LogBuilder`'s notifications, `optimizeOne` of each type
of event, `sp_repr_coalesce_log`, `sp_repr_undo_log`, `sp_repr_replay_log`,
`rollback`.
*Interaction.* Nodes tell the document's logger; `DocumentUndo` takes the logs, keeps
them, joins them and has them undone and replayed, which edits the tree through the
same operations.
*Hard.* Events name siblings, so that a log fits one tree only; optimising looks at
two events at a time while the log grows, is set aside and is joined; five pointers, a
count and a cache have to change together.
*Correct when* the links are one tree, cached positions are exact, no assertion fails,
and an undo, a redo or a rollback yields the very content there was.

### Observer lists: `xml/composite-node-observer.{h,cpp}`, `composite-undo-stack-observer.{h,cpp}`

*State.* The active and the pending list of records, each marked or not, the depth of
notifications, and in a node's list the number of marked records of each list.
*Operations.* `add`, `remove`, the notifications, `_finishIteration`.
*Interaction.* Every node, document and undo stack has such a list; the observers are
objects, dialogs and the event log, which edit and subscribe while they are notified.
*Hard.* Changes of the list from inside loops over it, at any depth.
*Correct when* a notification tells everyone who was there when the outermost one began,
once for each registration, and nobody after being taken off.

### Objects and document update: `object/sp-object.{h,cpp}`, containers in `object/`, `document.cpp`

*State.* Per object the flags `uflags` (update wanted) and `mflags` (modification to be
reported); in the document whether the idle handler is connected.
*Operations.* `requestDisplayUpdate`, `requestModified`, `updateDisplay`,
`emitModified`, the walks `update()` and `modified()` of containers, `_updateDocument`,
`ensureUpToDate`, `idle_handler`.
*Interaction.* Observers of the XML tree request updates; updates change objects and XML,
and so request more; whoever is told of a modification may call `ensureUpToDate`.
*Hard.* A request goes up only as far as to the first object with flags; walks clear flags
on their way down; requests arrive in the middle of walks, of objects already passed.
*Correct when* no request is left behind, nothing is out of date after
`ensureUpToDate`, and every request is served.

### Other components

The drawing tree is planned; see [Plan](#plan). Auto-save, graphics back
ends, canvas items, tools and dialogs, extensions, the application, preferences,
geometry and the vendored libraries are not modelled, for the reasons that
`PROJECT.json` and [the last sections](#what-is-not-modelled) give.

## Modules

| Module | Models | Uses |
| --- | --- | --- |
| `RedrawProcess` | what `synchronizer.h` promises: begin, draw, ask, answer, end, handle the end | |
| `Synchronizer` | `synchronizer.cpp` with its two clients | implements `RedrawProcess` |
| `SynchronizerProofs` | proofs | extends `Synchronizer` |
| `Stores` | `stores.cpp` as operators on a record | |
| `Updaters` | `updaters.cpp` as operators on a record | |
| `CanvasRedraw` | the redraw chain of `canvas.cpp` | composes `Stores`, `Updaters`; implements `RedrawProcess` |
| `CanvasRedrawProofs` | proofs: links, assertions, inputs of the threads, order, refinement; damage, the picture when idle, types | extends `CanvasRedraw` |
| `Mailbox` | what `channel.h` promises | |
| `Channel` | `channel.h` with `FuncLog` | implements `Mailbox` |
| `BackgroundTask` | tasks, stream and client | takes each channel as a mailbox |
| `AsyncProofs` | proofs: tasks, and the channel | extends `BackgroundTask`, `Channel` |
| `ParallelFor` | what `dispatch-pool.h` promises | |
| `DispatchPool` | `dispatch-pool.cpp` | implements `ParallelFor` |
| `DispatchPoolProofs` | proofs | extends `DispatchPool` |
| `EventLog` | `event-log.cpp` as operators on a record | |
| `DocumentUndo` | `document-undo.cpp` with saves and seeking | composes `EventLog` |
| `DocumentUndoProofs` | proofs: history, logs, saves | extends `DocumentUndo` |
| `Versions` | what the logs promise: a line of versions | |
| `XmlTree` | `simple-node.cpp`, `event.cpp`, `log-builder.cpp`, the use `DocumentUndo` makes of them | implements `Versions` |
| `XmlTreeProofs` | proofs: links, positions, logs | extends `XmlTree` |
| `Registry` | what a list of observers promises | |
| `ObserverList` | `composite-node-observer.cpp`, `composite-undo-stack-observer.cpp` | implements `Registry` |
| `ObserverListProofs` | proofs | extends `ObserverList` |
| `ObjectUpdate` | flags of `sp-object.cpp`, walks of containers, `document.cpp` | |
| `ObjectUpdateProofs` | proofs | extends `ObjectUpdate` |
| `MC*` | small instances for TLC | |

`PROJECT.json` maps each definition to the lines that it models.

**Steps.** An action is what a thread does between taking and releasing a lock, or
one handler of the main loop. Where the code releases a lock, calls a function or
waits, the action ends: `process_slots()` is `Grab` and then one action for each
function; `execute_batch()` is `Take`, `Notify`, one `RunJob` for each job, and the
count. Handlers of the main thread that cannot be interrupted are one action, even
when they are long (`AfterRedraw`, `MaybeDone`).

**`Synchronizer`.** `tpc` is where each render thread is (`off`, `tiler`,
`running`, `waiting`, `notified`, `last`), `mpc` where the main thread is (`loop`,
`run` with the lock released, `wait`, `woken`, `emit`). The clients are a skeleton:
a process starts when none is active, its threads draw, call `runInMain()` and
leave, and the last one signals. `redraw_active` is `CanvasPrivate`'s from launch
on.

**`CanvasRedraw`.** One-dimensional: rectangles and regions are sets of integer
cells, an affine is a zoom factor, content is a row of units whose places depend on
the zoom. `shown` is a ghost variable, the cells of the store whose content is what
the drawing with all edits is; `Stale` are the cells whose edit is still deferred,
unreported or not yet marked dirty. `rd` is `RedrawData`, `rd.stage` the stage of
the process, `lock` its mutex. That the threads can read the geometry without a
lock is a property (`RenderInputsAreFrozen`), not an assumption.

**`Channel`.** Functions are pairs of a source and a number. `close()` is three
steps (under the mutex; reset the dispatcher; clear the log), taken from the main
loop or from inside a function that the handler runs.

**`BackgroundTask`.** By `ImplementsMailbox` a channel is a queue that is open or
not, and that is what a task holds here; `said` is the history of what the client
was told.

**`DispatchPool`.** `pc` is where a thread is: `notify` between the two halves of
`execute_batch()`, `running`, `waiting` or `blocked` on the two condition
variables, `woken` until it has the lock again. `threadCount[w]` is any number from
`w` to the size of the pool: `thread_func()` calls `size()` while the constructor
may still be adding threads to the vector, which is a data race.

**`DocumentUndo`.** An edit is a number; a log is the sequence of the edits it
holds; the content of the document is the sequence of the edits applied to it. So
whether a log fits the tree is whether its edits are at the end of the content.
`doc` is the state of the document and of its history; `filed` is what the file
holds; `blurred` and `mended` are history variables that say that one of the known
exceptions of a property has occurred.

**`XmlTree`.** `tree` is a record of functions on nodes, one for each member of
`SimpleNode`; the operations are operators that map a tree to a tree, so that an undo is
a fold of them over a log. Here the events are those of `event.cpp`, with the siblings
they name, and here is checked what `DocumentUndo` takes for granted: that a log undone
on the tree it fits gives back the content from before. `ContentOf` is what a tree holds
in contrast to how it is linked; `base`, `past` and `future` are copies of it, kept as
history for the refinement. The commits, undos and redos are those of
`document-undo.cpp` without keys and limits, which `DocumentUndo` has. `Undo` does not
join changes made since an undo to an event while there are events to redo, the
exception that `LogsFitContent` makes too. What is set aside and what is logged may amount
to nothing together without being empty (an addition before an interruption, the removal
after it): `Undo` and `Redo` drop both, as `finish_incomplete_transaction()` does.

**`ObserverList`.** One module for both classes, which differ in what `kind` tests: a
node's list counts its marks, passes over records already marked and moves the last record
into the place of a removed one; the undo stack's does none of that. `loops` are the
iterations in progress. The id of a record tells two registrations of an observer
apart and is history.

**`ObjectUpdate`.** `stack` holds the calls in progress: of the document, of
`updateDisplay()` and `emitModified()` of objects with the children still to be looked at.
Requests may be made between any two steps, which is what updates and listeners do.
`Kind` selects how a container tests its children: `group` (`SPGroup`, and all others that
look at both flags), `tspan` (`SPTSpan`, which looks at one), `hatch` (`SPHatch`).

## Runs

Each run's configuration names its bounds. All runs are exhaustive.

| Run | Bounds | Shows |
| --- | --- | --- |
| `synchronizer` | two render threads, two calls of `runInMain()` each, two stale emissions | assertions, lifetimes of slots, wake-ups, replies, `redraw_active`; `Synchronizer` implements `RedrawProcess`; every call and `waitForExit()` return |
| `canvas_edits` | two threads, two units of content, widths 1 and 2, three requests of the user | what is clean is accounted for, no invalidation is forgotten, render inputs are frozen; the chain is a legal client of the synchroniser |
| `canvas_view` | one thread, two positions, two zooms, all three strategies and changes between them, three requests | the assertions of four files, exactly one link of the chain, a current picture when idle, visible parts first, and that redrawing comes to rest |
| `channel` | two sources, two functions each | a channel implements a mailbox, announces what it holds, keeps nothing once closed, disposes of all functions |
| `background_task` | three tasks of one report, started, replaced and cancelled at will | order of messages, silence of old tasks, no loose threads, the join returns, the client is told |
| `undo` | four edits, four commits, one key, two icons, one save, a stack of two | logs fit the content, the history mirrors the stacks, unmodified means saved |
| `dispatch_pool` | two workers, two callers, two dispatches of up to five jobs | the pool implements a loop, the wake-up is handed on, calls return |
| `xml_tree` | four nodes, of which the root has an attribute and a content, three edits | links, counts, cached positions and assertions; the logs implement versions |
| `observers` | both kinds of list, three observers, five additions, notifications three deep | the counts of marks; both lists implement a registry |
| `object_update` | five objects in three generations, a text span among them, three requests, one call of `ensureUpToDate()`, two iterations instead of 32 | requests are known to the parents and the main loop, `ensureUpToDate()` means it, requests are served |

Two runs expect a violation; see [Disagreements found](#disagreements-found).

**Why the bounds are enough for the interesting cases.** Two render threads are
the fewest with a last and a not-last one, and with a slot pushed while a batch is
out; two stale emissions let one be delivered in each of two later processes. In
`canvas_edits` a third request arrives while the process launched by the first is
aborted for the second. In `canvas_view` positions two apart shift the store partly
and, with the larger zoom, entirely; a change of zoom enters decoupled mode and the
next one restarts or leaves it; time-outs are possible at any moment. Three tasks
let one be replaced while the one before it is being joined. Five jobs among three
threads give batches of two, two and one, and larger ones to a worker that saw
fewer threads. A stack of two with four commits merges, expires a parent with a
child, expires a child's parent, and undoes past an expired row. Three edits of a tree are
two that an optimisation joins and a third that it then meets, or one for each of two
events and one interrupted; three children are the fewest with one in the middle. Five
additions of three observers put one into the list twice, fill the list beyond the three
records after which it moves its last one, and leave additions for each depth. Three
generations are the fewest in which a request finds flags half way up; with three requests
one is made before, one during and one after the walk that passed it. Two iterations make
both ends of `ensureUpToDate()` occur, the good one and giving up.

The models are finite because of `MaxCalls`, `MaxStale`, `MaxRequests`,
`MaxPosts`, `MaxTasks`, `MaxReports`, `MaxCount`, `MaxDispatches`, `MaxEdits`,
`MaxCommits`, `MaxSaves`, `MaxAdds`, `MaxDepth` and the set `Writable` only; they appear in guards of the environment (the user,
the clients), except `MaxStale`, which bounds how late an emission is delivered.
`MaxIterations` is a constant of the code.
Deadlock is not checked where the system may really stop, as every configuration
that says so explains.

**Mutants.** For each property of a passing run, one definition has a variant with
a plausible bug, above it and commented as its mutant, with which TLC finds the
property violated.

## Fairness

*`Synchronizer`*: weak fairness of each render thread and of the main thread: both
are scheduled, and the main loop delivers its dispatcher. Spurious wake-ups and
the start of a process are never assumed to happen.

*`CanvasRedraw`*: weak fairness of the main loop and of the threads; strong
fairness of `AfterRedraw`, because the dispatcher has a higher priority in the main
loop than painting, which could otherwise be done again and again before it. The
user does not have to do anything, and in fact has to stop for `Settles`, which
`MaxRequests` sees to.

*`Channel`*: weak fairness of the main loop: functions return.

*`BackgroundTask`*: weak fairness of delivery, of the join, and of a worker's steps
other than progress reports. That the work ends by itself is not assumed, only that
it looks at the channel again and again, as it has to for being cancelled.

*`ObjectUpdate`*: weak fairness of the calls in progress and of the idle handler
together: calls return, and the main loop runs its idle handlers.

*`DispatchPool`*: weak fairness of each worker and each caller, which is what a
fair lock and a function that returns give, and of the destructor once it has
begun.

## Proofs

`tlapm` checks the modules named `*Proofs` from nothing, with no proof left out.

**`SynchronizerProofs`**, for every set of render threads and all values of the
bounds: `TypeCorrect`, `AssertionsNeverFail`, `SlotsStayAlive`,
`NobodyEverOversleeps` (from `WakeupsAreNotLost` and `RepliesAreNotLost`),
`RedrawActiveStaysExact`. Assumed:
`Threads` is finite and not empty, the bounds are natural numbers. None of these
properties is inductive. That `signalExit()` finds no slot left needs that
`numactive` is the number of the threads still drawing, so that nobody is blocked
when the last leaves; that `waitForExit()` may sleep after `process_slots()` needs
that no exit can be posted while a batch is out, since its callers still draw. `Inv`
joins types, `CountInv` (`numactive` is a cardinality), `SlotsInv` (slots, the batch
and blocked callers agree), `StageInv` (the order of the stages) and `MainInv` (where
the main thread is, what it holds and what wakes it). Each part has a lemma with one
step per action.

Under the same assumptions: `SynchronizerImplementsProcess`,
the refinement of `RedrawProcess`. That a function is not run twice needs one more
invariant, `BatchInv`: no caller is twice in `slots` or in a batch, which holds because
a caller that has a slot is blocked (`SlotsInv`). `NextRefines` maps each operation of
the render threads to one of the process, `RunFunc` to `Answer`, the return of
`waitForExit()` and `EmitExit` to the handling of the end, a relaunch by the latter to
the beginning of the next process, and all else, deliveries of
stale emissions and the release of a batch among it, to stuttering. That `Process` is
well defined, as no two of its cases apply together, comes from `StageInv`.

**`CanvasRedrawProofs`**, for any render threads, units of content, positions, zooms,
widths, margins and number of requests: `OneLinkDrives`, `AssertionsNeverFail`,
`RenderInputsStayFrozen`, `VisiblePartIsFirst`, `CanvasIsAClient`. Assumed: `Threads` is
finite and not empty; positions and units are integers, zooms and widths positive ones.
One invariant carries all five (`Invariance`). `LinkInv` says what drives the chain and
what each position of the main thread excludes; `CountInv` that `numactive` is the number
of threads still in the loop, so that the last is the only one to see one; `StoreInv` that
what is being painted or waits to be committed lies in the store for which the process was
launched, which is still the store as long as there is a process; `CycleInv` that in phase 1
what is visible is clean or still to be painted, or that the clean region of the cycle is
one the updater kept back, for which it will ask for another cycle. The last is why
`end_redraw()` may take phase 1 for finished: no rectangle is left, no cycle is wanted, so
that the visible part is clean. That there is always a rectangle around a region needs its
finiteness, hence that stores and views stay finite (`ShapeInv`).

Its second half, under the same assumptions: `NoDamageIsForgotten`,
`IdleIsCurrent`, `TypesAreKept`. To `DamageIsNotForgotten` is added where the items are
(`DamageInv`): between processes they are at the zoom of the store, or a launch is under way
and nothing is taken for clean, so that the cells an item reports are those of the store in
which its old picture is. Without that, an edit made between a change of zoom and the next
update would invalidate the wrong cells. `CoverInv` follows a process to its end: one that
ran out of neither time nor visible cells has the margin clean, and it was launched for the
view as it is now unless another iteration was asked for; `after_redraw()` stops only then,
and what is clean is shown once the tiles are committed. Regions being finite (`RegionInv`)
is the part of the types that is not obvious.

**`DispatchPoolProofs`**, for every number of workers, every set of callers and all
values of the bounds: `TypeCorrect`, `WorkStaysKnown`, and `PoolImplementsLoop`, the
refinement of `ParallelFor`. Assumed: the number of workers and the bounds are
natural numbers, callers are not workers. `dispatch()` returns when a *counter*
reaches the target, so that the proof is about cardinalities: `CountInv` says that
`completed` is the number of jobs below `available` that are in no batch still out,
and `BatchInv` that batches are disjoint, lie below `available`, and are not empty
in a worker. If the counter equals the target, the counted jobs are all jobs (a subset
of an interval with as many elements), hence none are left and no worker has a batch
(`AllDone`): this is why `dispatch()` may return, why the next may reset the counters
while workers are still on their way to the condition variable, and why the
destructor finds no work left. `TakeEffect` holds for whatever number of threads a
worker believes in, as long as it is positive: the data race costs speed only.
`NextRefines` maps `RunJob` to one turn of the loop, `Dispatch` to its beginning, the
caller's last look to its end, and all else to stuttering.

**`AsyncProofs`: the channel**, for any set of sources, infinite ones included, and any number of
posts: `SharedStaysConsistent` and `ChannelIsMailbox`, the refinement of `Mailbox`, on
which `BackgroundTask` rests. The properties lack one thing to be inductive: where the
main thread is says what it has done (`MainInv`). A delivery that has begun finds the
channel open and its log not empty, so that no source emits again before the log is
grabbed; outside of the handler nothing is left of a grabbed log, so that `grab()` does
not drop any; `close()` clears the log only once the dispatcher, with what it had
emitted, is gone. The queue of the mailbox is the grabbed log followed by the shared one:
grabbing changes nothing, and the ends of the handler and of `close()` discard one of the
two halves (`Halves`), which by then nobody may run.

**`AsyncProofs`: tasks**, for any number of tasks and of progress reports:
`TasksStayConsistent` and the action property `OnlyTheCurrentSpeaks`. The order of what
the client was told is not inductive: it says nothing of the messages that wait.
`SpeechInv` follows the one channel that is open: what was said of its task and what is
queued are two parts of one report that the place of the worker continues (`Speaking`), so
that "started" is first in it, a status is last, and the worker cannot have been cancelled.
`OwnerInv` says that the open channel is that of the current task and that a closed one is
empty, from which follows that nobody else speaks; `EndInv` that the client of a current
task whose channel is closed was told of the end.

**`ObjectUpdateProofs`**, for every tree of objects and all values of the bounds:
`FlagsAreOfThemselves`, `RequestsStayKnown`, `EnsuredIsUpToDate`. Assumed of the tree:
each object but the root has a parent, and all lead up to the root (TLC evaluates that on
its instances); and, as a premise of the theorems, `Accountable`: each container is
treated as a group, or as a span whose children have no children. Without it they are
false: a hatch is the second disagreement below. "The ancestors of an object" is the
least set that holds the object and the parent of each of its members but the root
(`Above`), so that no induction on the height of the tree is needed.
`FlagsAreAccounted` is not inductive. Between the moment an object's flags are cleared
and the visit of its children, a child is accounted for by being still to be visited;
when the update comes to it, its flags move to those for a report, and these count on its
parent having some as well. Hence `UpdateInv`: a child still to be
updated has a parent that has been given flags to report by `updateDisplay()`, or that is
itself being reported. `WalkInv` says that an update is never interrupted by anything but
updates, so that no report clears these flags meanwhile; `LeafInv` that objects without
children have no flags on behalf of children, which a span does not look at;
`ScheduleInv` follows the idle handler. That `ensureUpToDate()` leaves nothing behind
follows from the invariant by walking up: with no walk in progress, the objects with flags
are closed under parents, hence hold the root, which has none.

**`DocumentUndoProofs`**, for any number of edits, events and saves, any keys and icons:
`TypesAreKept`, `HistoryShowsStacks`, `LogsAlwaysFit`, `UnmodifiedIsSaved`. Assumed: the
bounds are natural numbers, the iterators that point at no row are not numbers
(`IteratorsAssumption`), and no event has the icon of the first row (`IconsAssumption`).
`TypesAreKept`, `HistoryShowsStacks` and `UnmodifiedIsSaved` have the premise `UndoSize > 1`:
with a limit of one they are false, since the row that the history is at expires
(`event-log.cpp:181`).

- *History* (`HistoryInv`). The rows are a tree of two levels, their nodes are distinct and
  none is younger than the last event (`TreeOK`, `Above`), the parent of the current row's
  branch is known (`CursorOK`), and the rows on either side of the current one are the two
  stacks (`Mirrors`). That no iterator dangles follows: expiry takes rows from the front, and
  with a limit above one the current row is not among them; `clearRedo()` takes rows from the
  end, behind it.
- *Logs* (`LogsInv`). The content is what was settled, then what is pending; what was settled
  ends with the undo stack; no edit is there twice, the redo stack included; unless a
  transaction was not complete, all are in the order in which they were made. That edits are
  distinct is why undoing the last event takes out just the end of the content (`Without` is
  a loop over all of it). No premise: the logs fit whatever the history makes of them.
- *Saves* (`SaveInv`). `_checkForVirginity()` compares rows, not contents, so that the saved row,
  if it still exists, must stand for what the file holds: going to it by undo or redo would
  give that content (`Filed`). Rows keep their place when events are pushed or moved between
  the stacks. When old events expire, all rows move up and what the old events did becomes a
  fixed part of the content (`Cut`); a parent takes over the event of its first child, so that
  the saved row stands for what it did only if it still shows the event it did, of which no
  other row has the same (`Named`). `cancel()` commits and undoes in one step; it is followed
  through both.

`EditsOf`, `Without` and `Expire` are recursive functions: `Recursion` turns their definition
into an equation and `Induct` is induction over an interval, both from the least
counterexample.

**`ObserverListProofs`**, for any observers, any number of additions and any depth of
notifications: `TypesAreKept` and `ListsAreRegistries`, the refinement of `Registry`.
Assumed: the bounds are natural numbers, "nobody" is not an observer, and there are no
kinds of list but the two. What a list promises is about registrations, what it stores are
records at positions at which loops point; the two agree because no registration has two
records, in one list or in both (`ListInv`), so that a record that is marked or taken out is
gone from what is registered and from what is due, and a loop that moves on skips nobody
else. `LoopInv` keeps the loops inside the list, `MarkInv` says that a node counts its
marks, without which the sweep would be left out. `SweptIs` is the induction: what a sweep
leaves are the records that are not marked, each once. For the list of the undo stack the
guard of `RemoveObserver` is needed (see the disagreements): the record that is found must
not be marked already.

**`XmlTreeProofs`**, for any finite set of nodes, any fields and values and any number of
edits, events and interruptions: `TreeTypes`, `TreeStaysSound`, `PositionsStayExact`, and
`LogsAreVersions`, the refinement of `Versions`. Assumed: the nodes are finitely many, the root is
one of them, and "none" is neither a node nor a value (`NodesAssumption`). None of the
properties is inductive, since undoing a log never breaks the tree only on the very tree
that the log fits. So the argument is about contents:

- *What a tree holds* (`Holds`). A content is the sequence of the children of each node, in
  which nobody is twice (`Sound`), and the values. The links of a tree hold it if each node's
  list, forwards and backwards, its count, and its positions where they count as valid, say
  the same (`Lists`), and if whoever has a parent is in the list of it. `Inserted` relates two
  contents of which one has one child more; adding it leads from a tree that holds the one to
  a tree that holds the other, and removing it back (`HoldsAdded`, `HoldsRemoved`,
  `HoldsMoved`). These are the proofs about pointers: what is next to the child before and
  after, at the ends and in the middle.
- *What an event does* (`Effect`), as a relation of two contents. Undoing and replaying are
  its two directions (`HoldsUndone`, `HoldsReplayed`). Two events that cancel have no effect
  (`CancelsToNothing`), two that combine have one that leads from the older's start to the
  newer's end (`CombinesToOne`).
- *Where a log leads* (`Leads`): from a content to a content, through one for each event.
  Logging with optimisation, setting aside and joining do not change that
  (`LeadsLogged`, `LeadsCoalesced`), and undoing or replaying a whole log gets there
  (`HoldsBefore`, `HoldsAfter`, by induction on its length).
- *The invariant.* The tree holds a content; what is set aside and what is logged lead, one
  after the other, from the content at the latest commit to it; each log to undo and to redo
  leads from one version to the next (`Chain`). That `Children`, which follows the links, finds the
  sequence that the tree holds is an induction as well (`ChildrenAre`); it gives the content
  that the refinement needs (`ContentIs`).

**Model-checked only.** All liveness (`BlockedAreReleased`, `CallsReturn`,
`Settles`, `AllAreDisposedOf`, `TasksComeToAnEnd`, `RequestsAreServed`), which is beyond
what TLAPS proves here. Every invariant, every action property and every refinement that a
passing run checks has a proof, from the assumptions and premises named above. The
provers cannot instantiate the induction theorems of the library. Where an induction is
needed, its set of counterexamples is given a least member (`NatLessThanWellFounded`, or
`FS_StrictSubsetOrderingWellFounded` for finite sets, with `WFMin`).

## Disagreements found

Each is a run that expects a violation, of a property that quotes the repository.

1. `undo_expiry` (`event-log.cpp:332`): events that expire leave `_last_saved` on a
   row that no longer stands for the saved document; undoing as far as possible then
   marks a changed document as unmodified, contrary to `event-log.cpp:328`.
2. `hatch_update` (`object/sp-hatch.cpp:282`): `SPHatch::update()` looks at `mflags` of
   its paths, where `uflags` is meant. A path that asks for an update keeps its flags
   under ancestors without any, so that its next request stops at itself, contrary to
   `sp-object.cpp:1463`.

Met while modelling, and excluded from properties or from the model's inputs:

- *Canvas*: a soft abort is to end prerendering (`canvas.cpp:135`), but is only honoured
  in phase 3 (`canvas.cpp:2296`), and the phases are 0 to 2. `finished_draw()` leaves
  decoupled mode without looking where the view is (`stores.cpp:349`), so that after a
  time-out redrawing may stop with a part of the view outside the store. `init_tiler()`
  clears the time-out flag only when there is something to draw (`canvas.cpp:2174`).
- *Background tasks*: `cancel()` of a task that is complete tells the client of a
  cancellation and a second end (`background-task.h:102`), which `FontDiscovery` does at
  every shutdown; `on_exception` is never called.
- *Undo*: with an undo size of one, the expiry of a parent erases the row that the
  history is at (`event-log.cpp:181`). A commit merged by its key into the saved event
  keeps the document "unmodified" after it is undone and redone; saving a copy or an open
  transaction moves the saved row (`file.cpp:237`); an incomplete transaction is added to
  the newest event of the undo stack, not to the next one as the warning says, and is
  dropped when there is none; `redo()` with an incomplete transaction keeps the redo
  stack; `_last_saved` may dangle, and a new row may be given its address; keyed commits
  never trim the stack. (`blurred` and `mended` in `DocumentUndo`.)
- *Observers*: `CompositeUndoStackObserver::_mark_one` does not skip records that are
  already marked (`composite-undo-stack-observer.cpp:134`): an observer taken off, added
  and taken off again in one notification stays. No client does so.
- *Objects*: `SPTSpan::modified()` and `SPTextPath::modified()` look at
  `SP_OBJECT_MODIFIED_FLAG` of their children only (`sp-tspan.cpp:144`, `391`), so that
  modifications inside a nested span are not reported and its flags stay; in the model the
  children of a span are strings. An exception in `update()` (`sp-object.cpp:1520`) leaves
  flags below ancestors without any. `ensureUpToDate()` that gives up takes the handlers off
  with flags at the root (`document.cpp:1701`), after which no request connects them again
  (`gaveUp` excludes it).

## What is not modelled

*Canvas*: a second dimension and rotation, debug preferences, `set_drawing()` for
another drawing, a widget that shrinks to nothing again, events and picking, what is
painted on the screen, memory for tiles.
*Channel*: functions that throw (`FuncLog` then drops what is queued,
`funclog.h:71`), main loops nested in a function (the source of a dispatcher is not
recursive), `fire_and_forget()`.
*Background tasks*: listeners that start or cancel a task from inside a message,
throttling and nesting of progress, the search for fonts.
*Dispatch pool*: `dispatch_threshold()` below the threshold, a plain loop; changes of
the number of threads in `threading.cpp`; overflow of the arithmetic, whose operands
are heights of images.
*Undo*: edits while the document is insensitive to undo, edits made by objects when
they update after an undo, a save that fails, `clearUndo()`, a first event with the
icon `document-new`.
*XML tree*: names of elements and the order of attributes, `setPosition()` and
`mergeFrom()`, which are made of the operations that are modelled, edits made while
nothing is logged, what observers do when they are told.
*Observers*: `Subtree` and the parent's list, which are observers in turn; observers
deleted without being taken off.
*Objects*: the tree itself, building, releasing and referring to objects, orphans, what an
update computes, exceptions, the rerouting of connectors beyond the second pass it causes.
*Everywhere*: allocation failure, exceptions where the code has none in mind, and
the memory model below mutexes and atomics.

## Plan

Done: the modules above. Next, in this order:

1. The drawing tree's snapshot with its `FuncLog` (`display/drawing.cpp`,
   `display/drawing-item.h`) and the lazily computed data of `display/initlock.h`;
   then `get_global_dispatch_pool()`.
