# Verification of iQs Jobs and its drawing viewer

TLA+ models, TLC runs and TLAPS proofs kept beside the repository. The
repository holds two programs:

* **iQs Jobs**, a Rails application (`app/`, `config/`, `db/`) in which a
  quantity surveyor's office keeps projects, their documents, what clients
  submit and what is issued to them; with a PDF viewer and a PDF splitter in
  plain JavaScript (`public/pdf_viewer/`).
* **The native drawing viewer**, a Rust application
  (`research/pdf_workspace/src/`) that shows large PDF drawings by tiles, reads
  fields from marked regions of a whole drawing set, and stages the result for
  review and export.

The concurrency, the timeouts, the processes and the crash safety are in the
Rust application, so the models start there. All paths below are relative to
the repository; `src/…` without more is `research/pdf_workspace/src/…`.

## 1. Inventory

### 1.1 The native drawing viewer

| Part | State | Operations | Talks to |
|---|---|---|---|
| Rendering controller, `pipeline.rs` | plan, active request, stop flag (one lock); child slot (another); reply channel of 2; supervisor's done set, CPU cache, worker pipes | `submit`, `try_event`, drop; supervisor loop; monitor loop every 5 ms | UI thread by lock and channel; worker by pipes; monitor kills what the slot holds |
| Worker process, `pdf_worker.rs` | one open document, fonts and pages of PDFium | reads one request, writes one header and one body, ends with its stdin | controller only |
| Document session, `main.rs` | session number, open file, page, metadata, shown error, GPU textures, last plan | open, retry, page, pan and zoom, `schedule`, `receive` | controller; capture panel; tree |
| Pixel cache and tiles, `model.rs` | entries with clock, bytes, peak | `get`, `insert`, `retain`; `visible_tiles` | session |
| Autosave, `workspace.rs` | snapshot channel of 1, writer thread, digest of the last write, error | `submit`, `finish`, `load`, `atomic_export` | capture panel; the file system |
| File tree, `file_tree.rs` | root, generation, entries, pending, selection | refresh, up, open folders, `request`, drain replies | reading thread by two channels and the shared generation |
| Capture job, `capture.rs:157-257` | event channel of 16, cancel flag, line channel of 2 | start, poll, cancel, 90 s deadline | extraction process; the capture panel and the text tool, one job each |
| Capture regions, `capture.rs` | templates of each drawing set, local fields of each document, page overrides, exclusions, history of 50 | draw, move, paste, clear, group, undo, redo, import | session, autosave, job |
| Text of a page, `text_selection.rs`, `capture_text.rs`, `native/ocr.swift` | selection anchors | select, copy, normalise dates | session, job |
| Staging review, `staging.rs` | rows, order, inclusion, names, filters | reorder, edit, regenerate, export | capture |
| Shell, `viewer.rs` | geometry, dialogs, atomic export of a file | open, save | all |
| Drivers, `validation.rs`, `baseline.rs`, `memory_workflow.rs` | none of their own | scripted runs and measurements | all |

### 1.2 The Rails application

| Part | State | Operations |
|---|---|---|
| Project documents | attachments of a project, their metadata, extractions, viewer states | upload, edit, delete, save extraction, save and read viewer state, upload an export |
| Client submissions | draft, submitted, converted; archived or not; documents and groups | create, edit, submit, convert to a project, attach to one, archive |
| Project issues | issued packages with documents and a recipient | issue, edit and replace, resend, delete a document |
| Document groups | names by owner and category | create, merge, delete |
| Projects, statuses, board | schedule dates, status order | create, edit, move |
| Contributors and portal access | people, their types, a login | create, grant, revoke |
| Labour rates | categories, sections and amounts of a user | edit, archive |
| Measured dimensions | none: rows computed from viewer states | build |
| Web PDF viewer, `pdf_viewer.js` | active document, regions, measurements, undo of 50, session cache, save timer | open, switch, restore, draw, extract, autosave |
| Web PDF splitter, `pdf_splitter.js` | staging rows, their history | stage, reorder, export, finalise |

### 1.3 What is hard, and what makes each part correct

* **Rendering controller.** Two threads and a process interleave over two
  locks, and the request is announced under one before the process is stored
  under the other. Processes hang, die and answer late. Correct when: one
  worker runs at a time, none is forgotten, an answer always belongs to the
  request and the document it is taken for, a kill always hits the request it
  was decided for, whatever is still desired is delivered, and closing ends.
* **Document session.** Answers and errors of the previous page, view or
  document are in the channel when the user moves on. Correct when nothing
  stale reaches the screen or stops it, and every opening ends.
* **Pixel cache.** The budget is exactly what a frame may need. Correct when the
  account is the sum of the entries, eviction is by last use, and a tile that
  arrives never evicts one in sight.
* **Autosave.** Snapshots are dropped, writes fail, the machine crashes. Correct
  when the file is always whole, never goes back, and gets the latest state.
* **File tree.** Answers cross refreshes. Correct when what is shown was read
  since the last refresh and every open folder is read.
* **Pages to tiles.** Level, list and cut are computed apart from each other.
  Correct when the tiles asked for cover what is visible and the worker accepts
  each of them.
* **Capture job.** The extraction process fails, dies, tears a line or hangs;
  the window may not poll for long; cancelling has to get through full channels.
  Correct when no cell is lost between the two, every process is killed and
  waited for, and the tool becomes free again. The user also edits, undoes and
  switches while cells arrive: each cell shown must have been read from the
  region it stands beside.
* **Capture regions.** Masters, overrides, exclusions and locals of many
  documents must agree after any sequence of edits, undo and navigation.
* **Staging.** Names depend on values, places and choices; rows are dragged, made
  anew and matched with their former selves; corrections are written back in
  every frame. Correct when decisions survive a new review, generated names
  follow and typed ones stay, no sheet is lost or doubled, the captures hold
  what was corrected, and the export holds what is shown.
* **Web viewer.** Every `await` lets the user switch the document under the
  code that resumes. Correct when a save stores a document's own state and no
  edit is forgotten.
* **Portal.** Requests of several browsers interleave between the statements of
  a controller. Correct when a submission makes one project, every document
  keeps its own metadata, and an issue keeps a document.

`PROJECT.json` lists the hazards behind these at their lines, with the
properties that cover them.

## 2. Plan

Modules in order of importance; each is written to be proved about: constants
with assumptions, one action per operation, invariants in named parts, no
recursive operators.

| # | Module | Composes with | State |
|---|---|---|---|
| 1 | `DesiredWork`, what the controller promises | | done |
| 2 | `RenderPipeline`, `RenderPipelineProofs` | implements 1 | done |
| 3 | `ViewerSession`, `ViewerSessionProofs`: the document session | extends 1 | done |
| 4 | `VisibleTiles`; `LruCache`; `RenderCache`, the pixel cache in use; `RenderCacheProofs` | implements `LruCache`, extends `VisibleTiles` | done |
| 5 | `WorkspaceSaver`, `WorkspaceSaverProofs` | | done |
| 6 | `FileTree`, `FileTreeProofs` | | done |
| 7 | `CaptureRegions`, `CaptureRegionsProofs`: masters, overrides, exclusions, history, and what an extraction reports meanwhile | | done for fields of every sheet |
| 8 | `CaptureJob`, `CaptureJobProofs`: threads, channels, process, deadline and cancellation of an extraction | | done |
| 9 | `StagingReview`, `StagingReviewProofs`: names, order, inclusion and corrections across reviews | | done |
| 10 | fields read once per set: the extraction process's own loop over files and fields | 7 | |
| 11 | `WebViewerState`: switching, autosave and restore in `pdf_viewer.js` | | |
| 12 | `PortalDocuments`: submissions, uploads and issues under concurrent requests | | |

Abstract specifications worth stating: the controller's promise (done), least
recently used order (done), a register with last-write-wins for viewer states,
a template as a function from page to region for capture.

Every safety property a run checks is also a theorem (section 6). Theorems
worth proving next: that the session's drop of stale answers needs no more of the
controller than `DesiredWork`, as a refinement of its own, and that `CaptureRegions`
implements a template seen as a function from page to region.

## 3. The modules and the code

Rust's `Option` is a set with at most one element: `is_some_and` is `\E`,
`is_none_or` is `\A`. An action is one critical section of a thread, or one
channel operation, with the thread-local code up to the next one. Operators
named `Action_Something` are mutants: the same code with a plausible bug. They
are not part of any specification; they show that a property notices the bug.

### RenderPipeline (`pipeline.rs`)

Variables are the fields of `Shared` (`plan`, `active`, `stop`), the child slot
(`child`), the reply channel (`channel`), the locals of the monitor (`mon`,
`doomed`) and of the supervisor (`pc`, `job`, `result`, `seen`, `done`, `cache`,
`process`), and the operating system's view of the workers (`worker`).

* *User interface*: `Submit` (`Controller::submit`, with its revision number),
  `Receive` (`try_event`), `Drop`.
* *Supervisor*: `Poll…` reconciles the done set with a new plan and picks the
  first job that is not done; `Start` announces it; `Spawn` and `SpawnFails`
  launch a worker unless the one at hand has the same session; `Store` puts it
  in the child slot; `Ask` writes the request; `Read` blocks for the answer;
  `Settle` interprets it; `StopAfterRequest` replaces the worker after an error
  or a cancellation; `Check` decides whether the job is still desired; `Offer`
  and `Send` push the event through the bounded channel, watching for stop.
* *Monitor*: `MonitorScan` decides under the first lock and marks the request;
  `MonitorKill` kills under the second, after checking the mark again;
  `MonitorStop` kills the slot and ends.
* *Worker and time*: `WorkerReply`, `WorkerHang`, `WorkerDie`; `Tick` ages the
  request in flight past 80 ms and past 15 s. `Instant`s are stamps that may be
  reused once nobody holds them.

`DesiredWork` says the same without threads, processes, kills or revisions; the
substitution is at the end of `RenderPipeline` (`Promise`).

### ViewerSession (`main.rs`)

Extends `DesiredWork`: the session uses the controller's promise, and the run
`pipeline_safety` checks, and `RenderPipelineProofs` proves, that the real
controller keeps it. `Reopen` and
`ChangePage` forget metadata and error; `Look` is a frame after which missing
places are scheduled; `TakeEvent` is one event of `receive`, with the tests for
session, page, key and error in the order of the code. The GPU cache is a set
which may lose tiles that are out of sight (what `RenderCache` shows).

### CaptureRegions (`capture.rs`, `main.rs`)

One field read from every sheet. `documents` holds for each drawing its copy of
the master, the boxes of sheets that have their own (`page_regions` and
`overrides` in one: the code looks at the first before the second and always
removes both), the empty set for an excluded sheet, and the cells, each as the
set of boxes it was read from. `templates` holds the master of the set and of
each file; an absent template differs from an empty one, since only the latter
is merged (`poll`, `sync_group`). Every action ends with `Settle`, because the
frame does (`main.rs:1095`): `Remember` seeds and synchronises.

Edits go through `Edit`, with the guard of a page shown and no job, and a
checkpoint. `SetMaster` and `SetSheet` are the branches of
`commit_region_inner`; `Move` is `commit_moves`, `DrawAnother` also a paste of
one box or more. `Retry` asks for the page again and leaves the fields alone.
`Undo` and `Redo` have the guards of their buttons, which is none. `Extract`
takes the fields as they are and fixes what will be reported: a set of cells,
of which the extraction process reports first the open drawing's, then the others'
in the order of their paths, page by page (`Sooner`, `Due`; `set_paths` is a sorted
set, so drawings are numbered by their paths). `Poll` merges one reply.
`disturbed` is a history variable, read by `EditsInvalidate` only.

### VisibleTiles (`model.rs`, `pdf_worker.rs`)

Operators only: from a view (page, place and scale on the screen) to the list
of tiles, with the desired level, its lowering, the range of columns and rows,
the sort by distance and the cut; and from a tile to the rectangle the worker
renders, with the checks of `read_pixels`. Lengths are whole numbers. A fraction
of the page is kept as a position on the screen over the page's extent there, so
floors, ceilings and comparisons are exact; what the code's 53-bit rounding adds
to them is not modelled. `Covers` and `CentreFirst` are what the list owes to
the view.

### RenderCache and LruCache (`model.rs`, `main.rs`)

`Frame` is the list of keys of a frame, the preview before the tiles. `Get` and `Insert` are `Cache::get` and `Cache::insert` with the clock, the
account and the eviction loop, whose victims are given in closed form: an entry
goes when all older ones together did not make room. `Draw`, `Deliver`, `Fail`
and `Leave` are the viewer's use of it. The account is what the pixels take up, so
`Bytes` counts them. A clock that grows with each use gives every entry an age of
its own; `Ages` are the pairs of entries of which one is the older. `LruCache` has
neither clock nor account: it holds keys, knows which was used before which
(`older`), and makes room by keeping the most recent keys that fit.

### CaptureJob (`capture.rs`, `main.rs`)

`Job::start` and its two users. For each job: the position of the supervising
thread (`pc`), what it has in hand (`pending`), the cancel flag (`stop`), the
process (`worker`), and the way of a reply from the process through pipe, reading
thread and line channel to the event channel. A reply is a cell by its number,
the last word (done or error), or a torn line; a warning travels like a cell.

* *Supervisor*: `Spawn`, `Write` and `WriteFails` (the task), then the loop:
  `Stops`, `TimesOut`, `TakeLine`, `Breaks` in the order of the code's tests,
  `Send` and `GiveUp` for `try_send` in its loop of 50 ms, `Reap` (kill and
  wait) and `Report` (the final error, tried once).
* *Reading thread*: `PassLine`, `EndOfPipe`. *Process*: `WriteCell`, `WriteDone`,
  `WriteError`, `Die`, `Hang`.
* *Interface*: `Start`, `Cancel` (which is `Job::drop`), `PollPanel` (a cell is
  kept, done and error end the job, a sender gone is overlooked) and `PollText`
  (any answer ends it, and so does a sender gone).
* *Time* passes in halves of the 90 s, and only when no thread can act: `Busy`.

`taken`, `idle` and `lost` are history, read by properties only.

### StagingReview (`staging.rs`, `capture.rs`, `main.rs`)

`Fresh` is `Staging::new`, `PreserveLayout` matches it with the rows of the
review before, `Named` makes all names (`generate_filenames`), `Reordered` takes a
row out and puts it in again. An action of the open review is a frame: what the
user does, then `Applied` (`apply`), which writes every corrected value back; no
action exists without it. `Controls` is what is switched off while an export is
being saved; a drag that began before can still be dropped. Files are captured,
replaced by a new version and ticked while the review is closed. A generated
name is the record of what it is made of; a text is one of a few values of which
normalisation changes some.

### WorkspaceSaver (`workspace.rs`, `viewer.rs`, `capture.rs`, `main.rs`)

A workspace is a version number. `Edit`, `Autosave` (once per second, dropped
when the channel is full), `Receive` (the writer skips what it wrote last),
`Fill`, `Sync`, `Rename` (`atomic_export` step by step, for either thread),
`WriteFails`, `Close`, `Join`, `Exit` (`finish`), `Launch` and `LaunchFails`
(`load`: no autosave after a failed one), and `Crash` at any point. A file is
torn, whole, or durable; a crash may lose what was not synced.

### FileTree (`file_tree.rs`)

What a directory holds is the moment it was read. `Refresh`, `Up`, `SetInput`
start a new generation; `Toggle` opens and closes headers; `Ask` is `request`
for an open folder; `Take` is one reply; `Skip`, `Begin`, `ReadDirectory`,
`Answer` are the reading thread; `Change` is the disk.

## 4. The runs

| Run | What it asks | Bounds | Result |
|---|---|---|---|
| `pipeline_safety` | the six safety properties of the controller, and that it implements `DesiredWork` | 2 keys (one cached, one not), 2 processes, 2 stamps, channel 2, 3 plans, 2 sessions | holds |
| `pipeline_liveness` | a hung read is ended; what is owed and wanted is sent, out of sight and back included; closing ends | 1 process identity, channel 1, 3 plans, 1 session | holds |
| `pipeline_reopen` | "kills obsolete in-flight work on document reopen immediately" | 1 process identity, channel 1, 2 plans, 2 sessions | **violated** |
| `viewer_session` | nothing stale on screen, every opening ends, tiles that are due arrive | 2 documents, 2 pages, preview and one tile, channel 1, 2 sessions | holds |
| `viewer_stale_error` | "The UI rejects obsolete session/page replies" | as above | **violated** |
| `render_cache` | tiles cover what is visible, the middle first; account, no thrashing, LRU order | 2 pages, 3 levels (70 keys), 9 views, 3 keys in sight, 10 uses | holds |
| `workspace_saver` | whole, never back, saved at exit and in a pause | 4 edits, 2 failures, 2 crashes, channel 1 | holds |
| `capture_regions` | masters agree, local boxes survive, navigation, values fit their boxes | 2 drawings of 2 sheets, 3 boxes, 3 moves, 1 undo | holds |
| `capture_redraw` | a drawn box is on its sheet | same | **violated** |
| `capture_job` | no cell lost, no process left, deadlines, both tools become free | 1 job, 6 cells (panel) or 1 (text), pipe 1, lines 2, events 3 | holds |
| `staging_review` | names, rows, corrections, order, export, decisions | 2 drawings of 2 and 1 sheets, 2 fields (1 read once), 3 texts, 3 steps | holds |
| `file_tree` | fresh, one request under way, every open folder read | 4 folders, 1 slot, 3 generations, 1 change | holds |

Why these bounds are enough to meet the interesting cases:

* *Two keys* let a plan hold a job that stays and one that goes; one of them is
  never cached, so both the hit and the miss are taken. *Two process
  identities* are the old worker and its replacement; *two stamps* the request
  in flight and the one the monitor still remembers. *Three plans and two
  sessions* are a document, a change of view and a reopening. Under *three plans
  of one session* a job is wanted, out of sight and wanted again; cancellation by
  a reopening is in `pipeline_safety` and `pipeline_reopen`, and what a new session
  makes the controller forget is checked by `KeepsPromise` and `OpenEnds`.
  The bound on plans means that plans stop changing: under plans that change for
  ever a job at the end of the list may wait for ever, in the code too.
* Two pages and two sessions make an answer stale by page and by session; one
  slot in the channel already makes the controller wait for the interface.
* The pages are cut as in the code: level 0 is twice a tile, so that any page
  fits at level 0 in a cache of three. The nine views are two tiles abreast
  (three ways), a third tile for which the level is lowered, edges of the page in
  both directions, its finest level and a page off the window. The cache is
  exactly full, a move evicts, and the eviction order differs from the order of
  insertion. Ten uses are three frames and an arrival.
* Six cells are more than pipe, lines, hand and events hold together, so
  everything fills up behind a window that does not poll. Jobs share nothing but
  the holders, which let go of one before they start the next: one job is
  enough. The task does not fit into the pipe, which leaves every wait in; with
  `TaskFits` there are fewer.
* A drawing of two sheets has two rows that share the cell of a field read once;
  three rows let one be dragged over another. Three steps (ticks, versions,
  captures, controls; opening, dropping, closing, saving and restarts are not
  counted) are a capture, a rename and a drag, with any number of reviews between.
* One request slot and three open folders fill the tree's channel; three
  generations let an answer be one and two refreshes old.
* Two drawings are a set and a stranger to it; two sheets the master's and an
  inheriting one; three boxes let two of three be dragged or deleted together.
  Three moves (edits, undos, ticks, extractions; paging, opening and cells
  arriving are not counted) are a master, a local box and a change of the
  master, or an edit, an extraction and an undo. Drawings may be ticked from
  the start, as in a restored workspace.
* Two failures and two crashes let a failed write be followed by a crash, and
  a crash by a launch that crashes again; four edits keep an older snapshot in
  every place at once (file, writer, queue, memory).

`CHECK_DEADLOCK FALSE` is set where the bounds on plans, sessions, steps and jobs,
or the closed controller, really end a behaviour; everywhere else TLC checks that
something can always happen.

### Fairness

* Both controller threads are loops without exit but stop: weak fairness of
  `Supervisor` and `Monitor`. The interface drains the channel in every frame
  and asks for a repaint after at most 16 ms while a document is open
  (`main.rs:1126`), so `Receive`, `TakeEvent` and `Redraw` are fair. Time
  passes: `Tick` is fair. A worker that does not hang answers: `WorkerReply` is
  fair, and `WorkerHang` takes it out of that promise. Nobody promises that the
  user acts, that the viewer is closed, or that a worker lives.
* The writer thread and the reading thread loop for ever; autosave is tried
  every second while the panel runs. `LatestSaved` is a statement about a user
  who pauses: edits are bounded, so a behaviour ends in a pause.
* The supervising and the reading thread of a job loop until it ends, the window
  polls in every frame, a process that does not hang writes its next cell, and
  time passes. Nobody promises that the user cancels. `WorkerEnds` and `JobEnds`
  except the one wait nobody ends: a process that hangs before it has read a task
  larger than its pipe (`Stuck`); `JobEnds` also excepts a final error that
  found the channel full (`lost`).
* `WantedIsSent` is conditional on no worker hanging for ever; `ReadEnds` is about a
  request that was not cancelled before it reached its worker and a monitor that
  still lives, `ShutdownCompletes` about workers that do not hang once the monitor
  is gone. `pipeline_reopen` shows that the condition of `ReadEnds` cannot be
  dropped.

## 5. Findings

1. **A cancellation in the gap is lost** (`pipeline_reopen`). The supervisor
   announces a request before its process is in the child slot. A reopening seen
   in between marks the request as cancelled and kills nothing; later scans
   skip it. If PDFium then hangs on the obsolete document, neither the deadline
   nor another reopening ends the read: nothing is rendered any more.
2. **A stale error stops the new page** (`viewer_stale_error`). Error events
   carry the session but neither page nor key; an error of the page just left
   is shown as the new page's, and nothing is scheduled until the user retries.
3. **A redrawn box is not there** (`capture_redraw`). Whether a box becomes the
   master ignores exclusions. Delete the box on the master's sheet and draw it
   again: all other sheets get it, the sheet it was drawn on stays excluded.

All three are disagreements with the documents quoted in `PROJECT.json`. The
first two need a narrow race, the first a hung native call as well; the third
needs two ordinary edits.

Seen while modelling, and excepted from a property or left to a condition rather
than run on its own:

* Closing has the same gap as a reopening: the monitor ends at once when it sees
  stop, a process stored after that has nobody to kill it, and if PDFium hangs on it
  `Controller::drop` waits for ever, although `pdf_progressive_m1a.md` says that
  closing kills the child. `ShutdownCompletes` excepts it (`HungUnwatched`) and
  fails without the exception.
* A tile that was finished or received while it was out of sight is dropped but
  stays in the controller's done set until the supervisor reads a plan without it;
  brought back before that, it is not sent. `WantedIsSent` (`Owed`) and
  `TileArrives` (`Due`) cover a tile out of sight while a worker is at it and
  except this one.
* Undo, redo and ticks are not held back during an extraction, and cells then
  appear beside boxes they were not read from (`disturbed` in `EditsInvalidate`).
* The error that ends an extraction is tried once; if sixteen replies are unread
  it is dropped, and since `poll` overlooks that the sender is gone the panel
  stays busy until the user cancels (`lost` in `JobEnds`). The 90 s run on while
  the window does not poll, so a live process can be killed (the `idle` of
  `TimeoutMeansSilence` counts such time).
* The supervisor blocks while it writes the task: a process that hangs before it
  has read a task larger than the pipe can be neither cancelled nor timed out.
* When the set of sheets changes between two reviews, typed names, order and
  exclusions are all forgotten (`LayoutSurvives` is about the same sheets).
* A row grabbed before an export can be dropped while its dialog is open; the
  export keeps the order it had (`SavedIsReviewed` compares sheets and values).

## 6. Proofs

Checked by TLAPS for every value of the constants, from the assumptions named
in the modules: `ConstantsAssumption`, `ViewerAssumption`, `SaverAssumption`,
`TreeAssumption`, `JobAssumption`, `CaptureAssumption`, `CacheAssumption` (the
constants are sets and numbers of the right kind, channels have at least one
slot, and there is always a second stamp), `TilesAssumption` (sizes are positive,
the window is not empty), `CoarsestFits` (at level 0 the tiles of any page fit into
the list of jobs with the preview; without it the code's level could not be lowered
far enough), and `StagingAssumption` (a sheet is listed once, normalising a text
twice changes nothing more, and an empty text stays empty).

Each argument is an inductive invariant that TLC checked on the run's instance
before it was proved, then one lemma per action.

**RenderPipelineProofs.** `IInv` strengthens the safety properties: the child
slot and the supervisor's pipes name the same process except between `Spawn`
and `Store` and at the very end; every process that is not reaped is one of the
two; the supervisor's position tells whether a request is announced; and
whenever a request may be written next, the pipe of the worker at hand is empty
and its document that of the session it was opened for. None of `OneWorker`,
`NoLostProcess`, `FreshWorker`, `NoOrphan` is inductive alone: that there is no
second process follows only from knowing where the first is. `Invariance` proves
it action by action, and the four follow. `CancelInvariance` adds that a mark on
the request in flight keeps its reason, from which `KillsAreOwed` proves the
action property `KillsOnlyCancelled`.

The same module proves the refinement. Every step of the two threads, the processes and
the clock is a step of `DesiredWork` or changes nothing it sees. Under the
substitution the job in hand is cancelled, finished or discarded at a few points
of the supervisor's loop only; `RefInv` says which outcomes are possible there.
The code skips the plan when its revision was seen before, and `DesiredWork` has
no revisions: `SeenInv` shows that then the done set already holds nothing the
plan does not ask for, so looking again would change nothing.

**ViewerSessionProofs.** `ViewerInv` is `ScreenIsCurrent` with the types it needs
and `PlanIsOpened`: nothing is desired before a document was opened. Each event
is taken only after the tests of `receive`, and these are just what is needed for
what it leaves on screen; a new session or page clears the rest. Only the promise
of the controller is used, so with the refinement the theorem is about the code
of both.

**WorkspaceSaverProofs.** `IInv` orders every copy of the workspace: what is in
the file is no newer than what is being written, that no newer than what is
queued, that no newer than memory; one thread writes at a time; and what bears
the file's name was synced. `FileAlwaysWhole` and `FileNeverGoesBack` need the
order, `ExitAlwaysSaves` needs that the writer is gone when the interface writes.

**FileTreeProofs.** `IInv` says of every message of the current generation that
it tells of a read since the last refresh, and of none that it is of a
generation yet to come; `ShownAlwaysFresh` follows. A new generation makes all
messages old at once, which is why the channels need not be emptied.

`PendingIsUnderWay` counts the messages about a folder of
the current generation in both channels and in the reader's hand. Lemmas say what
appending and taking do to the number of such places in a sequence; each step of
the protocol then moves one message on, and a refresh starts from none, because
`IInv` knows no message of a generation to come.

**CaptureRegionsProofs.** Every action ends with the frame's `Settle`, so one lemma
about it (`Settled`) establishes `MastersAgree` from any drawings that have the
fields of a field; the proof is that every edit, and every snapshot undo or redo
can bring back, gives it such drawings. The history is the reason for an invariant:
`RegionInv` says it of all snapshots. `NavigationKeeps` needs only how a template is
seeded. `OverridesStay` follows the boxes through the five kinds of edit; clearing
the field is excepted there by its effect (no master is left), which is proved from
`OpenIsKnown`: what is open was remembered when its page was loaded.

`Inv` adds what the captures need. That every value fits its boxes is not kept by a
step alone: restoring excluded sheets takes no cell away, and is right only because
no cell was ever read from no box (`Good`), so that an excluded sheet with values
that fit has none. For what is on its way, `Arriving` says that the template a cell
will be merged with still has the master it was read with. Navigation and arriving
cells take no master back and no boxes away (`Steady`), edits wait for the job, and
undo and ticks are the exception the property names. `Stepped` is what each action
owes; `RegionTypes`, with the bound of the history, and `CapturesInvalidated` follow.

**CaptureJobProofs.** `IInv` says of each job who exists (`WorkerKnown`), that no
half of the deadline passes uncounted (`ClockIsIdle`), and what is on the way:
the replies in events, hand, lines and pipe, taken as one sequence, are the next
cells in order and then at most one last word (`OnTheWay`), which once it is
among the events is their last and comes after all cells (`Announced`). Each
step of a thread moves a reply from one part of that sequence to the next or
adds at its end, which the lemmas on sequences say. `NothingLost` is the first
part, `WorkersReaped` and `TimeoutMeansSilence` follow from the others. The
proof is for any number of jobs, any number of cells and any channel sizes.

**RenderCacheProofs.** Its first part is arithmetic about one view: the levels a
page has, the columns and rows a window meets, and that the list holds no key twice,
at most `MAX_JOBS` keys, and every tile that can be seen. Lowering the level ends at
`CoarsestFits`. `SightCovered` looks up the tile under a point of the window;
`CentreComesFirst` needs that the distance of a tile is a sum of one term per axis,
so that the tile with the middle of the window has the least in each.
The second part is the cache. `Uses` gives every entry an age of its own, `Account`
makes the counter the sum of the entries and keeps its peak in the budget, `Planned`
says that what is in sight was used after everything else. `NoThrash` counts: the
list of jobs fits into the budget with nothing else, so a new arrival in sight makes
room from what is out of sight, all of which is older. The refinement of `LruCache`
shows that the closed form of the eviction keeps exactly the most recent entries
that fit: entries are ordered by age, so of two ways to keep the most recent one
holds the other.

**StagingReviewProofs.** `Reviewing` says of the rows of a review that there is one
for each sheet of the set (`Answers`, against the order it was opened with), that
every generated name is what its row, the template and its place make of it
(`Follow`), that an open review is of the current versions (`Current`), and that
what was corrected is in the captures (`Reaches`). A new review is matched with the
one before by a sort: the place of a row is the number of rows up to it, and the
lemmas on that number (a permutation, increasing in what it is sorted by) replace an
induction over the sorted list. `Applied` writes each field in the order of the rows,
so the last row of a file decides about a field read once; the proof shows that all
of them agree. `OrderIsAsAsked` and `LayoutSurvives` are about one step and use the
same lemmas. `Matches` keeps the export being saved to the rows shown.

Only model-checked: liveness (`ReadEnds`, `WantedIsSent`, `ShutdownCompletes`,
`OpenEnds`, `TileArrives`, `LatestSaved`, `FolderIsRead`, `WorkerEnds`, `JobEnds`),
since fairness and `ENABLED` are beyond the prover, and the three findings, which are
counterexamples.

## 7. What is not modelled

* PDFium, the OCR call, painting, dialogs and pointer geometry: external code
  or arithmetic without protocol. Text normalisation is string work.
* In the controller: metrics, and evictions from the CPU cache (`RenderCache`
  has them; to the controller an eviction is a miss).
* In the session: the text layer and text selection. The job list's bound of 32
  is a known gap: in text mode the list may hold 33 jobs (`main.rs:1010`).
* In the autosave: left-over temporary files, the durability of the rename
  itself (a crash may bring back the previous whole file, which the model's
  crash does not), and a second running viewer.
* In the tree: hidden files, range selection, the drawing set.
* In capture: fields read once per set, scopes and names, edited cells, saved
  captures, a file that changes under the viewer, a paste of several boxes before
  there is a master, two boxes on exactly the same place, and inside the extraction
  process the loop over files and the recognition of a region. A job's cells are
  numbers in `CaptureJob`; `CaptureRegions` says which they are and how they are
  merged, without the channels between. A task that cannot be written as JSON
  after its process was launched (`capture.rs:180`) cannot occur.
* In the tiles: rounding of floating-point numbers, rotation (the window is then
  the bounding box of the turned one), and the pointer arithmetic of pan and zoom:
  a view may follow any other.
* In the review: column widths, separator, the name of the export, preferences
  kept between launches, and the wording of notices.
* The web viewer, the splitter and the portal: other programs in other languages,
  which share no state with the viewer; planned, section 2, with their hazards
  listed in `PROJECT.json`.
* Views, mailers, configuration, schema, test drivers: no state of their own.
