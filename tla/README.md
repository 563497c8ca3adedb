# A verification model of the OAM experiments

TLA+ modules, TLC runs and TLAPS proofs for the OpenMP-accelerator-model (OAM)
experiments on a TI Keystone II board: an ARM host that offloads target regions
to a DSP, cancels them, times them out and shares memory with them. `src/` below
stands for the root of the repository. Definitions keep the names of the C code
where TLA+ allows it; `PROJECT.json` maps each of them to its lines.

## 1. The system

### 1.1 Parts, their state and their operations

| Part | State | Operations | What makes it correct |
|---|---|---|---|
| Signal handle, `oam/` (`HostMessage`, `oam_comm`, `oam_task`) | `cancel`, `ret`, `timeout_after_us`, `time_start_us`, `targets_entered`, in memory both processors see | `init`, `request_cancel`, `request_timeout`, `enter`, `step`, `poll_cancel_request`, `aborted`, `finalize`, `set_default_timeout` | a verdict has a reason, a reason is reported, a thread that is to stop does a bounded number of further items |
| First version, `base/` | the same, and `poll_interval` with the time of each thread's last poll | the same, in earlier forms; `main` writes the cancellation itself | `OK` only of complete output, a cancellation noticed within the interval |
| `minimal`, `comm_async`, `dsp_freq` | the host's main thread, a second thread that owns the task's target regions, the region's team | start the second thread, maybe cancel, join, free the handle | every task ends, the handle outlives its users, what is reported is what happened |
| `task_extlib`, `extlib_linkage`, `declare`, `static_vars` | the same, on `base/` | a task of sections, of nested sections, a loop of regions, one region of one thread | the same, and one late region at most |
| `concurrent` | two tasks, one handle, a device made for one task | launch A, launch B before or after the cancellation, join both | what one task's reason to stop does to the other, and what the shared verdict tells; the program "is supposed to fail" (README.md:69 of the repository) where the tasks meet |
| `poll_cancel` | one region that does not poll | hand the timeout to the runtime, take its status | the status is 0 only of complete work, 1 only after the timeout |
| Command lines (`parse_args` of each application) | - | find an option, take its value | every option is looked at |
| Memory, `oam_vsmem` | two pools and the heap the DSP allocates from | `malloc`, `memalign`, scratch, `getMem`, `heap_create`, `heap_init`, `getMultiMem`, and their counterparts | a block goes back where it comes from, chunks are disjoint and within their block |
| `sym_heap_reset`, `offload` | a heap per round; nested objects with host and target pointers | lay the heap, allocate, leak, free; map, replace pointers, print | each round is like the first, nothing is used after it was freed |
| Message exchange, `ipu_offload/host_app.c` and `ipu_core_single.c` | two queues, one message, a counter on each side | handshake, send, return, restart | both sides count the same messages, across host processes |
| Message ring, `ipu_core_multicore.c` | a queue per core, a heap of one block | pass one message round | one message, every core ends, none is sent to one that has |
| Loopback threads, `ipu_core_multi.c` | a queue pair per thread, a shared counter | return messages, add to the counter, abort | no count is lost, no abort without a restart of the host |
| Image filters, `dsp_img_filter`, `pgm` | two images and the kernel's further one, a file | filter, swap, write, read | every inner pixel filtered as often as asked for, memory freed once, a file's pixels read in the order it has them |
| Linkage demonstrations, logging, build | - | - | - |

### 1.2 How they interact

The host's `main` creates a handle, starts a thread (`std::async`) that calls the
task's function, may call `oam_task__request_cancel`, joins and frees the handle.
The function submits target regions; a region runs as a team on the DSP, whose
threads poll the handle before each item. `request_cancel` is itself a target
region, so it competes with the task for the device. Host, team and cancelling
region touch the same object with no lock and no fence between the stores. The
applications `comm_async`, `concurrent`, `dsp_freq`, `globvars`, `hybrid_lib`,
`minimal`, `offload`, `poll_cancel` and `sym_heap_reset` link `oam/`;
`declare`, `extlib_linkage`, `static_vars` and `task_extlib` link `base/`.
`oam.latest/` is a later, commented copy of `oam/` that nothing links; its header
comments are the documentation the findings quote.

### 1.3 What is hard

- *Unordered shared stores*: a poll reads `cancel`, then `timeout_after_us`, then
  the clock, then stores `ret`; the cancellation stores all three meanwhile.
- *Additions to a shared verdict without a lock* (`base/`), and an unlocked counter
  that is right only because of the threads' priorities (`ipu_core_multi.c`).
- *Time*: seconds, milliseconds and microseconds meet in one comparison, a timeout
  is charged between sections, one that is used up means "none", a product with
  1000 and a clock in microseconds outgrow an `int`.
- *Several regions, one handle*: the reason to stop must survive the thread-private
  flag, which each region clears, and the clock, which each region starts anew.
- *Two tasks, one handle*, on a device that is made for one.
- *A check of several fields* (`oam_task__aborted` reads `cancel`, then `ret` twice),
  between the reads of which the fields change.
- *A cancellation that needs the device* the task occupies.
- *The runtime's own timeout*, which takes a region off in the middle of a poll.
- *Two passes that must agree* (`getMultiMem`), on sums that wrap at 2^32.
- *Buffers that change places* per iteration and per repetition, and a column
  counter the threads of a team may share.
- *Failed calls and restarts* in the message exchange, whose messages carry one
  number for two purposes; a ring whose members leave one after the other.

The full list, each at its line with the properties that watch it, is in
`PROJECT.json` under `hazards`.

## 2. Modules

```
AbortContract                       abstract: what the handle promises
HostSignals                         the handle, the poll, the cancellation
  +- TargetTeam                     the team of a region; the view AbortContract has of it
  |    +- MinimalTask               minimal/            MinimalTaskProofs
  |    +- CommAsync                 comm_async/         CommAsyncProofs
  +- DspFreq                        dsp_freq/           DspProofs
  +- Concurrent  (and HostArgs)     concurrent/         ConcurrentProofs
  +- PollCancel  (and HostArgs)     poll_cancel/        PollCancelProofs
HostArgs                            the command lines
BaseSignals                         the handle of base/, its main() and its team
  +- BaseDecoder                    four tasks          BaseDecoderProofs
MultiMem                            getMultiMem         MemoryProofs
VsMem                               the other allocations, in each build
  +- HeapPrograms (and HostArgs)    sym_heap_reset/, offload/   MemoryProofs
MessageExchange                     host_app.c with ipu_core_single.c   IpuOffloadProofs
MessageRing                         ipu_core_multicore.c                IpuOffloadProofs
LoopbackThreads                     ipu_core_multi.c                    IpuOffloadProofs
ImageFilter  (and HostArgs)         dsp_img_filter/, the filter of pgm/ DspProofs
PgmFile                             the files of both                   DspProofs
```

Each `MC*` module extends the modules it checks; `*.cfg` give the constants values.
Three of them put modules side by side and add a variable that says which is looked
at: `MCMessageExchange` (`image`: the program a core is loaded with),
`MCMultiMem` (`part`: one call of `getMultiMem`, or the programs that allocate) and
`MCImageFilter` (`part`: the filter, or the files).

Definitions named `X_Y`, with a comment that begins with "Faulty", are wrong
variants of `X`; no specification uses them, they are put in the place of `X` to
see that a property notices.

**HostSignals.** The fields are variables of their names. `poll[t]` is where
worker `t` is inside `oam_task__poll_cancel_request`: one action per access that
another thread can tell apart (`PollSeesFlag`/`PollSeesNoFlag` for the flags read
first, `PollMessage` for `cancel`, `PollClock` for the timeout and the clock,
`PollPutCancel`/`PollPutTimeout` for the verdict, `PollRecheck` for the read after
it). `RequestCancel`, `CancelRegionStart`, `CancelWrite(field)` and
`CancelRegionEnd` are `oam_task__request_cancel`; `unsent` holds the fields of
which the store is still to come, in any order, as nothing orders them. `regions`
is what is on the device, at most `MaxRegions` (external: `#pragma omp target`): a
region that finds room may start beside another one or wait for as long as that is
there, and is sure to start only on a device that executes none (`DeviceFree`).
`ts_start[t]` is the start a thread hands to its polls.

**TargetTeam.** `left[t]` counts the items a worker has to run or pass over,
`late[t]` (history) the items it did while a reason to stop stood. `CancelPhase` and
`Stopped` are what **AbortContract** sees of the handle and of the team.

**AbortContract.** `phase` of the cancellation, `verdict`, the workers that have
`stopped`, and for each how many items it did `late`. `Grace` is how many of these
an application allows itself: 2 for both, `MinimalTask` and `CommAsync` (section 3.3).

**MinimalTask.** `owner` is `target_function`: `Enter` (`oam_task__enter`),
`CheckCancel`, `CheckRetCancel`, `CheckRetTimeout` (the three reads of
`oam_task__aborted` before a region, oam_task.h:83-85, a step each), `Submit`,
`Return`, `StepElapsed` and `StepCharge` (`oam_task__step` reads the time, then
updates the timeout). `host` is `main`. `entered` is `targets_entered`.

**CommAsync.** `async_target` runs `Repeat` regions and looks at `cancel` between
them. **DspFreq.** `while (!aborted)` polls until told to stop; `RuntimeTimeout` is
what the runtime does after `__ti_set_default_timeout`, whose argument
`DefaultTimeoutMs` computes as `oam_task__set_default_timeout` does: a negative
timeout disables it, which the runs include.

**HostArgs.** `parse_args` has no state: `Visited` is the set of places at which its
loop looks for an option, `Value` what it ends up with. Concurrent, PollCancel,
HeapPrograms and ImageFilter take their parameters from a command line this way;
`OptionsHonoured` of `MCConcurrent` is checked as an assumption.

**Concurrent.** `owner[x]`, `output[x]` are the two tasks, whose single threads are
the workers of `HostSignals`; `concurrent` is the build (`CONCURRENT_TARGET_TASK`):
B is launched before the cancellation or after it. README.md:69-71 of the repository
says of this application that it "is supposed to fail as only one target task is
allowed for execution on DSP at any time" and calls it a "defect scenario". What the
runtime does then is not in the repository, so the model leaves all of it open where
a region meets that of the other task: it waits, it runs beside it (both are
`Submit`, as they are for the cancellation's region), it is not executed (`Refuse`),
or the program ends (`Fail`). What is checked and proved holds in each case.
**PollCancel.** `limit` is what
the runtime is told, after the multiplication with 1000 in an `int` (`AsInt`) and
the division back (`InMilliseconds`); `taken` and `result` are the runtime's status.

**BaseSignals, BaseDecoder.** The first version: polls are skipped until an interval
has passed (`IntervalPassed`), a clock in an `int` (`AsInt`, which saturates or
wraps), verdicts *added* to `ret` in two steps (`LoadSum`, `PollStore`) after a test
that is a step of its own (`PollTimeout`, `PollAddTimeout`), stores of the
cancellation by `main`. `reads` counts the fields `oam_task__aborted` has compared
(`CompareNext`). `app` says which of the four tasks runs; `decode` checks the handle
twice (`RunSection`, `CheckBody`) before a region starts (`StartRegion`).

**MultiMem.** `Sum` is one turn of the first loop, `Place` one of the second,
`Allocate`/`AllocateFails` what is between. Words wrap at `Word`. `offset` (history)
holds the sums as they would be without wrapping. **VsMem.** A block is a record
with the pool it comes from, and `Bytes` of a set of blocks is the number of places
in them; `ompacc` and `useDdr` are the build; a caller takes and gives back blocks in
any order. **HeapPrograms.** `stage` is where `main` (or
`data_map_target`) is in a round, `ptr` its pointers, `region` the block the DSP's
heap is laid over, `targetUsed` what the DSP has taken from it.

**MessageExchange.** `host` and `core` are where the two loops are; a message is the
number it carries; `LoopNext`, `LoopPut`, `LoopGet`, `Check` are a turn of the
host's loop, `CoreLoopGet`, `CoreLoopPut` one of the core's. `*Fails` are failed
calls, `LoopGetGarbled` a message that comes back changed, `Start` a new host process.
`msg` is the host's pointer, `owned` says that the message behind it is the host's to
use. What a get that fails leaves in the pointer is not in the repository; of the
handshake's (host_app.c:117), which nothing checks, `SyncGetFails` leaves either the
pointer as it was, to a message that has been given away, or NULL. From there the host
writes through the pointer, into whichever place the message has got to
(`LoopNextStray`), puts it again, or is killed (`LoopCrash`); `unchecked` (history)
records that this has begun.
**MessageRing.** Each processor creates its queue, opens the next one's, and gets,
counts and passes the message; processor 0 owns the heap. **LoopbackThreads.** The
kernel (`Dispatch`, `Leave`) runs a ready thread of the highest priority and
preempts only for a higher one; `Add` reads and writes the counter in two steps;
`HostRestart` starts the host's program again.

**ImageFilter.** `phase`, `rep` and `n` are the loops of `main` and of the kernel,
`at[t]`, `row[t]` and `j` those of a thread; `bufA`, `bufB`, `imageIn`, `imageOut`
name images, so that the swaps are what the code swaps. A pixel is the number of
times it has been filtered. `jShared` is a build that keeps the column counter in
memory, where the whole team counts it (a data race: each read and write is a step of
its own). Nothing in the code bounds a shared `j`: of three threads two can carry it
up in turns while a third keeps setting it back below the test. `FilterStaysInside`
is therefore about the builds that keep it in a register, and says of these that
every pixel a filter reads (`Stencil`) or writes lies in the images; of the others
the runs show that the loops end, and what is freed. **PgmFile.** A file is a
sequence of items; `SkipComments` does what `pgm_file_skip_comments` does, character
by character, where it matters. `columns` is the order a program reads and writes
pixels in (pgm/ by columns, dsp_img_filter/ by rows), `across` the order of those in
the file: a program's own files have its order, those of another program are by rows,
as the format pgm.cpp:12-15 refers to has them.

## 3. What is checked

### 3.1 Runs that pass

Several properties are conjunctions of named parts, each with a comment of its own
in the module; the parts are given in parentheses.

| Run | Properties | Shows |
|---|---|---|
| `minimal_safety` | `TypeOK`, `CancelJustified`, `LateItemsBounded`, `CancelReported`, `HandleFreedUnused`, `ImplementsContract`, `Terminates` | the poll against the cancellation, and the three reads of the check before a region against it, in every order of the stores, with task and cancellation side by side or waiting for each other; every task is joined |
| `comm_async_safety` | `VerdictKept` (`TypeOK`, `AbortReported`, `CancelReported`), `AtMostOneLateRegion`, `ImplementsContract` | the verdict survives from region to region, and the contract holds with two late items |
| `dsp_freq` | `VerdictKept` (`TypeOK`, `CancelJustified`, `CancelReported`), `LeftForReason`, `LoopLeft` | the unbounded loop ends, cancelled or not, for a reason; the runtime's timeout comes at any point of a poll |
| `base_safety` | `OkMeansComplete`, `AtMostOneLateRegion`, `NoticedWithinInterval`, `Terminates` | what the first version does guarantee, in its four tasks |
| `concurrent` | `TasksSafe` (`TypeOK`, `HandleFreedUnused`, `LaunchedCancelled`), `LateItemsBounded`, `CompleteUnlessReported`, `Terminates` | two tasks and the cancellation on one handle, in both builds, whatever the device does with tasks that meet; the command lines. `Terminates` allows the failure README.md:69 of the repository expects |
| `poll_cancel` | `StatusSound` (`TypeOK`, `StatusComplete`, `HandleFreedUnused`), `StatusNotEarly`, `Terminates` | the runtime alone ends the region, with a timeout that has gone through two conversions and a handle a cancellation writes to, beside the region or waiting for it |
| `image` | `FilterSafe` (`ImageTypeOK`, `FilterStaysInside`, `MemoryFreed`), `OutputComplete`, `ImageKept` (`FileTypeOK`, `HeaderKept`, `PixelsInOrder`), `FilterCompletes` | the kernels and their buffers with both kinds of column counter; files of this program, and others with their pixels by rows, written and read: what is lost, and in which order the rest comes |
| `memory` | `ChunksInside`, `ChunksDisjoint`, `NullOnFailure`, `BlocksSafe` (`HeapTypeOK`, `FreedWhereAllocated`, `UsesLiveMemory`, `LeavesFiveBlocks`), `RoundsAlike` (and `LeakFits`), `HeapProgramsEnd` | two passes that compute differently agree; blocks go back where they come from; programs that leak in rounds still find each round like the first, whatever memory there is |
| `exchange` | `OneMessage`, `InStep` (`TypeOK`, `HandshakeDone`, `RemoteInStep`), `HoldsWhatItUses`, `RingSafe` (`RingTypeOK`, `SingleMessage`, `NothingSentToTheDead`, `RoundsInStep`), `ThreadsSafe` (`ThreadsTypeOK`, `CountsEveryThread`, `AbortedByRestart`), `ProgramsComplete` (`HostCompletes`, `RingCompletes`, `LoopbackCompletes`) | the three programs a core can be loaded with: no message is lost, leaked or taken for another, over three host processes; with failures, crashes and restarts the host still uses only messages it holds, up to a failed get of the handshake; the ring and the threads come to their ends |

### 3.2 Runs that show a disagreement

Each checks one property that a comment or a document of the repository states and
the code does not keep; `findings` in `PROJECT.json` quotes it.

| Run | Property | What happens |
|---|---|---|
| `minimal_completion` | `CompletionReported` | a task that has ended is reported as `UNDEFINED`: nothing stores `OK`, so that `main` never verifies the output |
| `dsp_freq_cancelled` | `TimeoutHasPassed` | a poll that has read `cancel` before the cancellation and the timeout after it reports `TIMEOUT` for a task that was cancelled |
| `base_exit_code` | `ExitCodeDefined` | in `static_vars`, with one thread: its poll has read `cancel` before `main` stores the cancellation, finds the timeout of 0 that comes with it, and adds `TIMEOUT` to `main`'s `CANCEL`, which is 3 |

### 3.3 Other places where the code departs from what one expects of it

Met while modelling. Those of the first list are behaviours of the models, which no
property forbids; the second list is outside of the models.

In the models:

- *A second late item in `comm_async`.* A worker may do an item after `TIMEOUT` was
  reported; a cancellation then overwrites `TIMEOUT` with `CANCEL` before it sets
  `cancel`; the next region has cleared the thread's flag and counts its own time,
  so that its first poll finds no reason and the worker does one more item.
- *And in `minimal`*, though `oam_task__aborted` looks at the verdict before each
  region: it reads `cancel`, then compares `ret` with `CANCEL`, then, in a read of its
  own, with `TIMEOUT` (oam_task.h:83-85). A `TIMEOUT` that the cancellation replaces
  between the latter two, with `cancel` still to come, is missed, and the second
  region starts with a clock of its own. `LateItemsBounded` says exactly this: one
  item, and two once the cancellation has stored its verdict.
- `oam_comm__poll_message` (oam_comm.c:159) subtracts a start in seconds from a time
  in microseconds: the elapsed time is counted from about the origin of the clock,
  and `oam_task__step` (oam_task.c:78) charges the first section once more.
- `oam_task__step` (oam_task.c:81) takes a timeout that is used up to 0 or less,
  which `oam_comm__poll_message` (oam_comm.c:157) takes for no timeout.
- `async_target` (comm_async_target.c:82) looks at `cancel` only and starts the
  remaining regions after a timeout; their items are all passed over.
- `oam_task__set_default_timeout` (oam_task.c:122) takes the latency of 30 ms off
  timeouts above it only: 31 ms becomes 1 ms, 30 ms stays 30 ms. This is why
  `LeftForReason` goes by the time asked for less the latency (`TimeGranted`).
- A `-to` whose product with 1000 overflows to a negative `int`
  (dsp_freq_main.cpp:77 and :91) disables both timeouts of `dsp_freq`: the loop then ends
  only if it is cancelled, which a device that takes one region at a time does not
  let happen. Hence the premise of `LoopLeft`.
- `dsp_freq` does not call `oam_task__finalize`, so that a task the runtime has
  taken off is `UNDEFINED` too.
- `targets_entered` "decremented by 1 after leaving a target region"
  (oam.latest/_inc/oam/oam_types.h:44) is incremented once and never decremented by
  the applications, so `oam_task__finalized` (oam_task.h:61) stays false.
- `base/`: the timeout is documented in milliseconds and compared with microseconds
  (oam_comm.c:112). The clock in an `int` (oam_comm.c:78) stands still after 2147 s
  where the conversion saturates: the time since the last poll is 0 from then on and
  no thread polls. With `Uptimes = {7}`, `IntMax = 7` and `MaxTime = 11` TLC finds
  `NoticedWithinInterval` violated; in `base_safety` `IntMax` lies beyond the clock,
  and the theorem has exactly this (`TimesFit`) for its assumption.
- `oam_vsmem__getMultiMem` (oam_vsmem.c:205) adds sizes up in 32 bits, and a sum that
  wraps around allocates less than the chunks take: hence `NoWrap` in `ChunksInside`
  and `ChunksDisjoint`.
- host_app.c:149 leaves the loop after "Data integrity failure!" with a status of
  success, and :165 prints that the application completed; the handshake's put and
  get (:116-117) are not checked: after a get that fails the loop writes through
  `msg` and puts it (:123-128), be it NULL or a message that has been given away
  (hence `~unchecked` in `HoldsWhatItUses`); a host that leaves early (:132) makes
  the assertion ipu_core_single.c:121 fail for the next one; a host started with 0
  messages makes the core divide by 0 (ipu_core_single.c:136). Hence `faults = 0` and
  `core = "trapped"` in the properties of `MessageExchange`.
- `concurrent` "is supposed to fail as only one target task is allowed for execution
  on DSP at any time" (README.md:69-71 of the repository). The models keep this
  failure as one of the outcomes; that both tasks are joined is said of the others.
- A host program of `ipu_core_multi` that is started again begins with message 0, and
  the first thread of the core that stands elsewhere aborts it
  (ipu_core_multi.c:104): `AbortedByRestart` says that nothing else does.
- `poll_cancel`: `* 1000` overflows an `int` (poll_cancel_main.cpp:131), hence the
  premise of `StatusNotEarly`; a cancellation that comes before the region puts a
  timeout of 1 into the handle, which becomes 0 ms (poll_cancel_target.c:38) and
  disables the only thing that ends the region early.
- An option after `-c` is passed over (for instance concurrent_main.cpp:86).
- Image filters: with an even number of iterations between two swaps the last one is
  lost, with an even number of repetitions the output file is made from the wrong
  image; the 64 iterations pgm/ runs without options are even. The border of the
  output is never written. A shared `j` leaves pixels out and filters others twice,
  and is bounded by nothing in the code: what is filtered with it may lie outside of
  the image, and outside of the block. A heap laid over the images
  (dsp_img_filter_main.cpp:147) may put the further image on top of them
  (`overlaid`). pgm/ reads and writes its pixels by columns where the format has
  rows: an image of its own comes back in place, one of another program's transposed,
  or scrambled where it is not square. The readers (pgm.cpp:93) eat pixels that look
  like blanks or comments and one more, so that at least one is lost from every file
  and all the others move up by as many.
- `data_map_target` leaves five blocks behind in each call.

Outside of them, as nothing is to be explored: divisions by 0 that every run meets
(sym_heap_reset_target.c:119 and :123, declare_target.c:67 and :120,
comm_async_target.c:128); the size of the heap overflows an `int` for arrays of a GB
(sym_heap_reset_main.cpp:102); a NULL block is initialised (oam_vsmem.c:178); a file
that cannot be read is used (dsp_img_filter_main.cpp:76); `acc` is returned
uninitialised (minimal_target.c:40); `print_kernel_durations` reads an empty vector
(offload_main.cpp:146); `targets_entered++` is not atomic (oam_task_target.c:19);
two callers may both pass the guard of `oam_task__request_cancel` (oam_task.c:24).

### 3.4 Bounds, and why they are enough

- `Worker`: two threads. The threads interact through the handle only, and what one
  thread can do to another shows with one other thread. Symmetry is used in
  `comm_async_safety` only, which checks no liveness. `dsp_freq` and `poll_cancel`
  have the one thread of their region.
- `MaxTime`, `Timeouts`, `UsPerSecond`: the clock is a few units long; timeouts lie
  below, at and beyond its end, so that a timeout comes in the first region, in a
  later one, between them, or never. In `comm_async_safety` the timeout 4 is the
  length of a second: it passes in a region that began in second 0 and has not
  passed in the next one, which begins in second 1, so that the second late item of
  section 3.3 happens. A run whose clock has stopped still finishes its other steps.
- `MaxRegions`: as many as the application has (2, in `concurrent` 3), which lets them
  meet on the device, where all the orders of their accesses are. It is an upper bound
  only: a region may wait although there is room, and what makes one start in the end
  (section 3.5) is a device that executes none. So a device that takes one region at a
  time is among the behaviours, for the safety properties and for `Terminates`, whose
  runs contain those in which the cancellation waits until the task has returned and
  those in which the task's next region waits for the cancellation.
- `Polls` = 2 items per region, `Repeat` = 3 regions: a poll before and one after the
  first item done late, and regions before, at and after the cancellation.
- `dsp_freq`: timeouts below and above the threshold of the latency (30 ms in the
  code, 2 units here), and a negative one, as a product that overflows gives; an
  uptime of 0 and one beyond a second.
- `base_safety`: two sections of one item per thread, an interval of 2 in a clock
  that runs from 1 (a last poll of 0 means that there was none) to 3, and a timeout
  of 2: a poll that is skipped, one that is not, and a timeout that passes in either
  section.
- `poll_cancel`: an `int` of 32 values, with timeouts below, at and beyond its
  largest; 3 microseconds to a millisecond, so that the conversions round.
- `memory`: `Word` is 64 in place of 2^32, with sizes at 0, below, at and above
  multiples of 8 and near the word; up to 4 chunks. Pools that have room for
  nothing, for a part of a round, for one round and for all.
- `exchange`: three processes, up to 3 messages each, two failures: a failure, a
  restart, and a failure in the process after it. Four processors and three rounds;
  three threads of two messages and one restart.
- `image`: 5 x 4 pixels have 3 x 2 inner ones, more rows than threads. Builds that
  share `j` run one iteration, after which `j` starts anew. Pixels that are a blank,
  a line feed, a comment sign and none of these, in one and in two bytes; files of the
  program's own and of another, for a program that goes by rows and one by columns.

Deadlock is checked but in `memory`, `exchange` and `image`, whose programs end or
whose host is not started again.

### 3.5 Fairness

Weak fairness only, of each thread's own steps: Linux schedules the host's threads,
and a team's threads have a core of the DSP each. `dsp_freq` also needs the clock to
advance. A region is sure to start only on a free device: what is submitted to
one that executes another may wait until that has left, and no fairness is assumed of
the cancelling region getting a place before the task's; the cancellation of
`dsp_freq`, whose region may last, need never get one. Nor is there any fairness of
the runtime's timeout, of a cancellation being requested, or of a host
process being started (again). In the exchange a started process and the core's
task run, in the ring each processor that does not wait, in the loopback program
the kernel runs some thread that is ready and each host thread goes on; in the image
filter the host and each thread of the team run, whatever a shared counter shows.

## 4. What is proved

Eight modules are checked by TLAPS to the last leaf, for every value of the constants
that meets the named assumptions. Every safety property of the runs that pass is the
subject of a theorem. Each specification has an inductive invariant in named parts
(`IInv`, or a name of the component's), a lemma per part and step, and a last theorem
that puts them together.

| Module | Theorems (property) | Assumptions |
|---|---|---|
| `MinimalTaskProofs` | `TypeCorrect`, `VerdictsJustified`, `CancellationReported`, `LateItemsAreBounded`, `HandleFreedSafely`, `Refinement` | `HostSignalsAssumption` |
| `CommAsyncProofs` | `VerdictIsKept`, `LateRegionsBounded`, `Refinement` | and `CommAsyncAssumption` |
| `ConcurrentProofs` | `TasksAreSafe`, `LateItemsAreBounded`, `IncompleteIsReported` | `HostSignalsAssumption`, `HostArgsAssumption`, `ConcurrentAssumption` (two tasks; any `MaxRegions`) |
| `PollCancelProofs` | `StatusIsSound`, `StatusIsNotEarly` | `HostSignalsAssumption`, `HostArgsAssumption`, `PollCancelAssumption` (a millisecond has more than one unit of the clock) |
| `BaseDecoderProofs` | `TypeCorrect`, `OkIsComplete`, `LateRegionsBounded`, `NoticedInTime` | `BaseSignalsAssumption`; the last one also `TimesFit` |
| `DspProofs` | of `DspFreq`: `VerdictIsKept`, `LeftWithReason` | `HostSignalsAssumption`, `DspFreqAssumption` |
| | of `ImageFilter`: `OutputIsComplete`, `FilterIsSafe` | `HostArgsAssumption`, `ImageFilterAssumption` |
| | of `PgmFile`: `ImagesAreKept` | `PgmFileAssumption` (thresholds fit two bytes, pixels one) |
| `MemoryProofs` | of `MultiMem`: `Insideness`, `Disjointness`, `FailureResets`, `TypeCorrect` | `MultiMemAssumption` (the word is a multiple of 8, blocks are aligned and end within the address space) |
| | of `HeapPrograms`: `FreesWhatItAllocated`, `ResetRoundsAlike` | `VsMemAssumption`, `HostArgsAssumption`, `HeapProgramsAssumption` |
| `IpuOffloadProofs` | of `MessageExchange`: `HoldsWhatIsUsed`, `ThereIsOneMessage`, `SidesInStep` | `MessageExchangeAssumption` |
| | of `MessageRing`: `RingIsSafe` | `MessageRingAssumption` |
| | of `LoopbackThreads`: `ThreadsAreSafe` | `LoopbackAssumption` (finitely many threads) |

**MinimalTaskProofs.** `TypeInv`: types; a thread in a poll has an item left.
`RegionInv`: a region is on the device only while its owner waits for it.
`HandleInv`: which fields the cancellation has stored, and that a thread about to
store `CANCEL` has seen it. `LateInv`: why nobody does more late items than
`LateLimit`. The bound alone is not inductive: the reason a worker did its late item
on may be taken back. That happens at most once, at the cancellation's store of `ret`
(`Announced`), which replaces `TIMEOUT`, maybe before `cancel` is stored: `LateLimit`
is 1 before that store and 2 after it. A worker that has reached the limit of the
time has stopped, or its next poll begins with reads that find the reason. The
refinement goes step by step: workers (`WorkerRefines`), owner, host; each step maps
to a step of the contract or to a stutter.

**CommAsyncProofs.** The same argument over any number of regions (`LateInv`), as each
clears the threads' flags and begins a clock of its own. For the regions: the one late
region is the last.

**ConcurrentProofs.** Nothing is assumed of which regions are on the device together:
the proof holds for every `MaxRegions`, with refused regions and with a program that
fails at any moment. `RegionInv`: a thread polls only while its own region is there.
`VerdictInv` and `LateInv`: as above, for two threads of two regions, where a timeout of
one task stops the other. `OutputInv`: as long as no verdict stands, what has been done
and what is left is all of the items, but for a task that was refused. `LaunchInv`: a
task launched after the cancellation finds it in its first poll.

**PollCancelProofs.** A region is on the device exactly as long as its thread is in
it, though the cancellation's may be beside it (`RegionInv`). `LimitInv`: the handle
holds the user's timeout or the 1 us of a cancellation, the runtime one of these in
milliseconds, and a region that has been taken off has had the runtime's. That
1 us is no millisecond is where `UsPerMs` > 1 is used: with 1 the cancellation would
hand the runtime a timeout of its own. `DivideProduct` says that what the two
conversions do cancels out as long as the product fits an `int`.

**BaseDecoderProofs.** `CompleteInv`: `ret` never returns to `OK`, since what a
thread is about to store is more than 0, and whatever is passed over leaves its mark
in `ret` or in `cancel`. `LateInv`: from a late region the next thing the task reads
is `cancel`. `NoticeInv`, for the interval: a thread's last poll is no later than the
cancellation unless that poll has told it to stop.

**DspProofs**, clock measurement: no thread polls outside of the region, wherever in
its poll the runtime has taken it off; `HandleInv` as above; `LeftForReason` is
inductive with them.

**DspProofs**, filters: `ImageInv`. `BufferInv` follows the swaps: after `rep`
repetitions and `n` iterations the buffers are where their parities say. `ColumnInv`
and `BorderInv` hold where each thread has its own `j`: it is in its chunk and between
the borders. `ProgressInv`: at each pixel a thread has passed in this iteration the
written image is one application ahead of the read one; it needs the further image
to be apart. When all threads are done, they have passed every inner pixel, as the
chunks deal out all of the rows (`RowsDealt`: a least counterexample of the rows that
are not). `FilteredInv` then counts applications over the iterations of a repetition
and over the repetitions, for odd numbers of both. `FilterIsSafe` has the
place of each pixel of a stencil (`StencilInside`) for the builds with a `j` per thread;
for one that shares `j` it says what is left of its property: types, and that the
memory is freed once.

**DspProofs**, files: `PgmInv`. The file holds the image in `source` (`FileHas`):
three words of the header, at most a comment before each (`WordAt`), and its pixels
in the order `PixelOf` counts them in. `SkipComments` is a recursive function, and
that one exists at all is to be proved (`DownwardRecursion`, by the least place it
would not exist from); it goes forward whatever the file holds (`SkipCommentsRange`)
and ends at the words (`SkipToWord`). Behind the header nothing is known of the bytes
but that reading starts at the second one or later (`DataStartRange`): the pixels
that are lost are those before the start, which is `PixelsInOrder`, in whichever of
the two orders the file has them and the program reads them; where the first byte is
neither a blank nor a comment sign reading starts at the second (`FirstIs`). Sizes
are not bounded; `PlaceOf` is the division that takes the k-th pixel to its row and
column.

**MemoryProofs**, `getMultiMem`: neither property is inductive, the two loops compute
different sums. `FirstLoop` says the first loop's sum is the one kept in `offset`;
`SecondLoop` that the second loop's sum, rounded up, is `offset[i]`, so that chunk `i`
is placed where the first loop saw it. `RoundUpExact` is where the absence of wrapping
is used.

**MemoryProofs**, programs: `HeapInv` says for each of the three programs which blocks
are allocated. `ResetInv`: at each stage the pointers of the round are these blocks,
what else is allocated are the leaks of the rounds before, and where there are none
the bytes in use are what the stage says, so that memory which was enough for one
round is enough for the next. `OffloadInv`: each call that got its memory has left its
five blocks. `CallerInv`: the caller holds each block once, with the call that returns
it to its pool. The programs are proved in every build and for every capacity.

**IpuOffloadProofs**, exchange: `HostInv` ties what the host owns to where it is,
whatever has failed but the get of the handshake, after which the pointer may be to a
message of the core's, and the theorem says nothing. `Exchange`, while nothing has:
for each place of the host, where the message is (`AtHost`, `ToCore`, `AtCore`,
`ToHost`) and which message the core waits for (`Serves`, `Idle`).

**IpuOffloadProofs**, ring: `MessageAt(h)`: the message is in the queue or in the hands
of processor `h`, and the processors it has passed in this round have counted the
round.

**IpuOffloadProofs**, threads: `OneRuns`: with one priority nobody is preempted, so a
thread that has begun to look at a message or to add has the CPU until it is done, and
what it is about to write is the counter as it still is (`RegisterFresh`). Hence
`CountsEveryThread`, whose count of the threads that are complete the proof follows by
cardinality. `Numbering`: as long as the host has not been restarted, each thread's
message is with it or with its host and carries the number it expects, so no thread
aborts.

**Only model-checked**: all liveness (`Terminates`, `LoopLeft`, `HeapProgramsEnd`,
`FilterCompletes`, `ProgramsComplete`) and with it every use of fairness and ENABLED,
which the prover does not handle; the three
properties of section 3.2, which do not hold; and `OptionsHonoured`, which TLC
evaluates on the run's command lines.

## 5. What is abstracted or left out

- Symmetric memory is taken as coherent; the library's flush calls are empty. The
  order of unfenced stores is left open.
- Host and target clocks are one clock: every comparison in the code is between two
  readings of one side.
- Allocation of the handle does not fail. `param`, and but for `minimal` also
  `targets_entered`, are only printed and are left out.
- The data items compute is left out; an item is a step. A pixel is the number of
  times it has been filtered.
- The message exchange models the failure of the host's calls; the core's own calls
  do not fail (they would assert or abort). What a get that
  fails leaves in the host's pointer is open: NULL, or what it was. A division
  by a number of messages of 0 may trap or not. The MessageQ service, the kernel of
  the cores and the pools of memory are external, modelled as the code uses them.
- `oam_config__init`, `request_timeout`, `finalize`, `heap_create` and
  `getMultiMem` are called by no application. The last two are modelled for
  themselves; `oam_config__init` is a measurement of one real clock by another, of
  which `FreqScale` is the result.
- Cancelling twice is not modelled: every application has one caller.
- `ReduceOperationKernel` (dsp_img_filter), `local_malloc` and `sym_alloc_target`
  are not called; the tasks of `globvars` and `hybrid_lib` are the one of `minimal`
  once more; `oam.latest/` is the library with more comments, linked by nothing (its
  memory management is one of the builds of `VsMem`).
- Build files, logging, printing, statistics: nothing a state machine would add to
  reading them.

## 6. Plan

Done: the library and its first version with every application that uses them, the
memory management with the programs that allocate, the three programs of
`ipu_offload`, the image filters with their files, the command lines; eight modules
of proofs, which between them state every safety property of the runs that pass.

What would come next:

1. An abstract specification of `concurrent` in which each task has a verdict of its
   own, and where the shared handle departs from it.
2. A second caller of `oam_task__request_cancel`, and `request_timeout`.
3. What holds of the inner pixels where `j` is shared; abstract specifications of
   the exchange (a counter on each side) and of the filter (an image and a number of
   applications), with proofs that the models implement them.

## 7. Running it

```
tlc -config MinimalTask.cfg MCMinimalTask.tla
tlapm MinimalTaskProofs.tla
```

Each run and its module and configuration are listed in `PROJECT.json`. The longest,
`base_safety`, takes a minute or two.
