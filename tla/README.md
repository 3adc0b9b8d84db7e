# A TLA+ model of console-stream

console-stream runs a command, in a pipe, a terminal or a container, and hands
its output to the caller as an iterator of events. This directory holds TLA+
modules for the parts of it that are concurrent or stateful, TLC configurations
that check them on small instances, and proofs, checked by TLAPS, of what
matters most.

## The system

| Component | State | Operations | Interacts with |
|---|---|---|---|
| Output buffer (`buffer_writer.go`) | bytes, read segments, pending reports, under one mutex; a flush channel of one token | `Write`, `addStatus`, `Len`, `hasStatus`, `flushBatch` | written by the reader, drained by the stream loop |
| Stream loop (`stream_loop.go`) | `active`, the batch it delivers | the five cases of a `select`, `deliver`, `emitProcessEnd` | buffer, flush, done, two tickers, ctx; calls `yield` |
| Process run (`process.go`, `run`) | four goroutines, channels `reaped`, `exited`, `done`, `replies`, the read end `out` | start, stream, stop, deferred cleanup | the child and its descendants, the Cancellor |
| Local cancellor (`console.go`) | none | `Cancel`, `cancelGroup` | kill(2), while the reaper waits for the child |
| Container run (`container_process.go`) | three goroutines, `runCtx`, `logErr`, `logsDone`, `exited` | create, pull, start, stream, stop, remove | the container daemon; the stream loop |
| Status timer (`status_timer.go`) | records, current state, start of the interval, totals | `Observe`, `Close` | the statistics of a run, the runner |
| Process statistics (`process.go`) | counters and a status timer under one mutex, a pid outside it | `Start`, `Stop`, `Record...`, `ObserveStatus`, `CloseStatus`, `GetSnapshot` | stream loop, metrics library; shared by all runs of one `Process` |
| Asciicast writer (`asciicast.go`) | time cursor, carried bytes, marked states | `ToAscicastV3`, `WriteAscicastV3` | the iterator of events |
| Runner (`cmd/runner`) | tracked states, the relay, the blocked error, a stripper | `runExec`, `wrapProgramStatus`, output formats | iterator, timer, terminal |

Options, event types, the container client, the tester and the examples keep no
state of interest. `PROJECT.json` lists every part with what is modelled of it.

What is hard, and what makes each part correct:

* **Buffer and loop.** The reader writes and reports between any two of the
  loop's critical sections; the flush channel drops signals; a batch is cut at
  its reports. Correct means: every byte once and in order, every report between
  the bytes it was found between, nothing left behind at the end, no flush
  request lost, reports prompt, an end reached whatever else is ready.
* **Process run.** The consumer may break at any event, ctx may end at any time,
  the child may fork, ignore SIGTERM, leave descendants outside its group that
  hold its output, or be reaped at the moment it is to be stopped. Correct
  means: events in protocol order, no `yield` after a break, the end after all
  output, a stop that always returns and leaves neither goroutines nor members
  of the child's group.
* **Container run.** Every daemon call may fail, also after it took effect, and
  does fail once its context is done. Correct means: events in order on each path,
  missing output reported, no container forgotten once its id is known, a return
  though the container cannot be stopped.
* **Status timer and statistics.** Ids overlap and are cleared by their parents;
  reports are delivered long after they were read; what the timer accrues is
  added to a counter outside the lock; runs share one timer. Correct means: each
  instant counted once, under the most urgent state standing, on every way a run
  ends.
* **Asciicast.** Segments and statuses carry read times that lie behind the
  flushes; reads split runes; the consumer may stop at any line. Correct means:
  the text exactly, no rune broken, every line played at its time.
* **Runner.** The same statuses go to a tracker, a timer and a terminal; a run may
  end by its child, a timeout, a signal, a blocked status or a failed write.
  Correct means: the three agree, a blocked status fails the run, no text is
  lost, and the runner returns.

## Modules

| Module | Models | Built on |
|---|---|---|
| `BufferWriter` | the BufferWriter as a value, its methods as operators | |
| `EventStream` | the promise: a source of bytes and reports, and a consumer that gets them in order, each report in its place, completely or abandoned | |
| `StreamLoop` | `streamOutput` with the reader, the tickers, ctx and done | `BufferWriter`; refines `EventStream` |
| `EventOrder` | the order of a process's and of a container's events, as tables | |
| `RunEvents` | the promise of an iterator over a run: events in the order of a table, none after a break, a return for a reason | |
| `ProcessTable` | the processes of a run and kill(2), as a value (external) | |
| `ProcessRun` | `Process.run`, `stop` and `LocalCancellor.cancel` | `ProcessTable`, `EventOrder`; refines `RunEvents` |
| `ContainerRun` | `ContainerProcess.ExecuteAndStream` | `EventOrder`; refines `RunEvents` |
| `StatusTimer` | the timer as a value, its methods as operators | |
| `RunStats` | `ProcessStats`, and the runs of one `Process` that share it | `StatusTimer` |
| `Asciicast` | `ToAscicastV3` and `splitIncompleteUTF8` | |
| `Runner` | `runExec`, `wrapProgramStatus` and the formatters | `StatusTimer`, `EventOrder` |
| `StreamLoopProofs`, `ProcessRunProofs`, `ContainerRunProofs`, `RunStatsProofs`, `AsciicastProofs`, `RunnerProofs` | the theorems about the module named | that module, TLAPS |
| `RunEventsProofs`, `StatusTimerProofs` | what the abstract run of events implies; lemmas on the timer's operators | used by the proofs of the modules that refine it, and that hold a timer |
| `MC...` | symmetry and constants for TLC | the module named |

### StreamLoop

Bytes are the numbers 1, 2, 3, ... in the order they were read. A mutex section
is one action, since the other goroutine cannot see inside it; the loop takes an
action per critical section (`CheckLen`, `CheckStatus`, `Drain`) and per call of
`yield` (`DeliverBefore`, `DeliverStatus`, `DeliverRest`, `YieldHeartbeat`), so
the reader runs between any two. `flush`, `tick` and `hbTick` are channels of one
token. A `yield` that returns false leads to `stopped`. `out`, `outTimes`, `told`
and `hbMark` are history variables: what the consumer received.

### ProcessRun and ProcessTable

`pc` is the caller's goroutine; `reader`, `reaper` and `replier` are the three
others. `streamOutput` appears as `LoopOutput`, `LoopHeartbeat`, `LoopCancelled`
and `LoopDone`, that is by what `StreamLoop` establishes: what was read is
yielded in order, done leads to a complete final flush, ctx and a break to
`stop`. `os` is a value of `ProcessTable`: who is alive, in the group, holding
the output, or under a SIGKILL; whether the leader is a zombie; and who got its
pid after it was reaped. SIGTERM ends any subset of its victims, SIGKILL dooms
all of them. `Stop` is the look at `reaped`; `Term`, `PollGone`, `Deadline` and
`KillIgnoreGone` are one system call each, so the reaper and the pid's next owner
come between. A custom Cancellor does nothing of its own accord (what a child
might do when told to stop, it may do at any time). Without a Cancellor, which
`WithCancellor(nil)` makes since the defaults are set before the options,
`KillChild` kills the child. The leader stays in its group.

The iterator's promise is `RunEvents`: its `log`, `broke` and `cancelled` are the
variables of that name, `returned` is `pc = "returned"`. `ContainerRun` implements
the same abstraction with its own table, so the two kinds of process are
interchangeable to a consumer but for the table.

### ContainerRun

Each daemon call is an action that succeeds or fails, also after the daemon acted:
`StartContainerFails` may leave the container running, and a create has two steps,
`Create` in the daemon and `CreateAnswered` with the id, between which `CreateFails`
may come. Then a container is left whose id the program does not have, and nothing
removes it, since the removal is deferred after a create that succeeded; see
the findings. A call whose context is done does not succeed: `Create`,
`CreateNotFound`, `PullOpen` and `StartContainer` need ctx, `LogOpen` needs `runCtx`.
Only the stop and the removal go on without it; `StopContainer` may leave the
container running. The background calls, the log copy and the wait, break at any
time and must break once `runCtx` is done; an answer of the wait already on its way
may still be taken then. The events a pull reports after ctx was done are those
read before.

### StatusTimer and RunStats

The timer is a value and its methods are operators. `RunStats` has the fields of
`ProcessStats` and, for each run of the Process, where it is in `Process.run`,
`streamOutput` or `emitProcessEnd`. A critical section of the mutex is one
action, two in a row that write different fields are one too; the addition to the duration counter after it is another
(`RecordAccruals`), and so is the gauge at the end of `Start`. The pid is set
without the lock, in the action that takes it next. Heartbeats touch no
statistics. A report carries the time it was read at, from the run's last report
up to now, or up to the end time in the final flush. The histories tell the same
reports without the timer: `reported` is the last state of each id, `urgent` the
state in which each instant counts, `own` the timer a run would have alone, `past`
the time of the runs before the last `Start`.

### Asciicast

Events arrive as the stream loop makes them: those it stamps when it yields them
never go back (`event`), and neither do read times (`read`), which lie behind. A
byte is the part it plays in UTF-8: n > 0 announces a rune of n bytes, 0 continues
one. One action per kind of event, and one per segment, since the consumer
may stop after each line. `Answer` is that consumer, `WriteAscicastV3` or another.
`Line` writes a line and keeps the histories: the text, where lines end, the sum
of the intervals and the latest time a line was written for. `markers` has, for each
marker line, which of the statuses it was written for. Left out: malformed
segments of a caller, rounding, labels, metadata. A resize that a caller
injects after the end of the process was noted would be stamped later than
`ProcessEnd` and make the exit's interval negative; the model takes stamps to go
forward, as the library's own do.

### Runner

`config` is what the flags and the file say; before the iteration each step may
fail and then no child is started. The Process appears by the order of its
events (`ProcessOrder`, which `ProcessRun` is shown to keep) and its promise to
return when ctx is done. One action per event does what `wrapProgramStatus` and
the formatter do with it, in that order; a failed write ends the loop
(`Formats`), and `StopChild` is the return of the iterator then. `terminal` holds
the records the relay wrote, by the child's ids, `states` and `timer` are the
tracker. Text the stripper holds back is one byte.
The byte of a write that failed is not shown, and `TextComplete` allows that only of a
run that returns an error; the text format ignores write failures, and its writes are
taken to succeed. `Exit` is the lifetime rule of
OSC 7501 (spec/osc7501-program-status.md): working and blocked records are
dropped. All timestamps are 0: what the timer counts is `RunStats`' matter.

## Runs

| Run | Bounds | Shows |
|---|---|---|
| `stream_safety` | 3 bytes, 2 reports, buffer of 2, clock to 3, merge window 2 | types, exact bytes, reports in place, completeness, no lost flush, quiet heartbeats, segment times, end time, refinement of `EventStream` |
| `stream_live` | 3 bytes, 1 report, buffer of 2 | prompt reports, full buffers flushed without the ticker, all output delivered with it, return after done and after cancellation |
| `process_run` | child and two descendants, 1 byte, LocalCancellor, a custom one or none | refinement of `RunEvents`, end after all output, no goroutine and no group member left by a stop; a break, a cancelled ctx and the exit of the child make the iterator return |
| `process_group` | child alone | **violated**: `cancelGroup` can signal a later group of the same number |
| `container_run` | 2 bytes, 2 progress events | refinement of `RunEvents`, missing output reported, quiet at removal, none forgotten whose id is known, returns |
| `container_logs` | 1 byte, 1 progress event | **violated**: `ProcessEnd` without all logs and without an error |
| `container_order` | 1 byte, 1 progress event | **violated**: a failed wait ends the run without `ContainerRemove` |
| `stats` | two runs one after the other, ids `""`, `a`, `a/b`, clock to 3, 4 events | status time equals the count of instants by most urgent state; the counter has every run's time once |
| `stats_shared` | two runs at a time, clock to 2 | **violated**: the second run replaces the first one's timer |
| `asciicast` | 5 bytes in reads of 1 or 2, runes of 2 and 4 bytes, 3 statuses on 2 ids, times to 2 | text exact and no rune broken, lines at their times, markers tell the changes |
| `runner` | ids `""`, `a`, `a/b` (too deep to relay), 3 statuses, 2 outputs, every configuration | blocked fails, the stores agree, no text lost, the runner returns |
| `runner_record` | 1 status, 1 output | **violated**: the run's record stays working when the run is cut short |

Why the bounds are enough. Three bytes against a buffer of two give a batch that
fills the buffer, one that does not and a rest for the final flush; two reports
give two cuts of one batch, also at both ends (never at one offset: a report is
found in bytes read after those of the one before it); a clock to 3
against a window of 2 gives reads inside the window, at its end and beyond. One
descendant can escape the group and hold the output, a second one can be in the
group at the same time and be forked during the stop; one byte can be unread,
unyielded or yielded at each of these moments, and the safety properties are proved
for any number of bytes and descendants. The container's state does
not depend on more output: the actions compare only `copied` with `written`. An
id, its parent and the root are all the ways one id can relate to another's
clear. Four events and four instants let a second run start on what a first one
left and report twice, or one run report in three states. Five bytes hold a rune
of four split over three reads with a byte to spare, which is what the look-back
of three bytes is about; three statuses on two ids are a repetition with another
id's report in between. In the runner a byte held back needs a second output to be
known or not, and blocked, clear and a live state make three statuses.

The deadlock check is on except in `stats`, `stats_shared` and `asciicast`, which
really stop: all runs have returned and the clock is at its bound, or the
sequence of lines has ended. In the others a returned iterator is a self-loop.
`stats` and `asciicast` use symmetry, of runs and of ids and keys that differ in
nothing; neither checks liveness.

### Fairness

* *StreamLoop*: the loop's goroutine runs (weak fairness of its steps); Go's
  `select` takes a case at random among those ready, so a case that is ready again
  and again is taken (strong fairness of each case). Only `OutputDelivered`
  assumes that the batch ticker keeps firing.
* *ProcessRun*: each goroutine runs, the consumer answers each `yield`, a process
  with a SIGKILL dies. Nothing is assumed of the child: it need not exit, close
  its output, heed SIGTERM or read a reply, and the consumer need not break.
  That the loop takes done and ctx in time is what `DoneReturns` and
  `CancelReturns` of `StreamLoop` show.
* *ContainerRun*: likewise, and the daemon answers each call. Background calls
  break once `runCtx` is done. The container need not exit even when stopped.
* *Runner*: the runner's own steps, the start of the child or its failure, and
  the timeout. The iterator returns when ctx is done (`StopReturns`). No event
  after the start is assumed to come.

## What is proved

Every safety property that a passing run checks, the three refinements included, is
a theorem for every value of the constants: any number of bytes, reports,
descendants, ids, runs and instants, any buffer size from one, any merge window. TLC
found each inductive invariant true of an instance, of the run's or smaller bounds,
before it was proved.

| Module | Theorems |
|---|---|
| `StreamLoop` | `TypeOK`, `OutputExact`, `ReportsInPlace`, `Complete`, `NoLostFlush`, `HeartbeatQuiet`, `EndCoversOutput`, `SegmentFidelity`, refinement of `EventStream` |
| `RunEvents` | `Ordered` (events in the order of any closed table), `BreakIsFinal` |
| `ProcessRun` | `TypeOK`, `EndAfterOutput`, `DrainedOnReturn`, `NoGroupSurvivor`, refinement of `RunEvents`, and from it the order of events |
| `ContainerRun` | `TypeOK`, `EndAfterLogs`, `QuietAtRemove`, `NoContainerForgotten`, refinement of `RunEvents`, and from it the order of events |
| `RunStats` | `TypeOK`, `CountsByUrgency`, `TimeReported`, for runs one after another |
| `Asciicast` | `TypeOK`, `TextExact`, `RecordingTime`, `MarkersTell` |
| `Runner` | `TypeOK`, `BlockedFails`, `ViewsAgree`, `TextComplete` |

The assumptions are the modules' `ASSUME`s on constants: bounds are naturals, the
buffer size and the merge window are at least one, clearing an id removes that id
and the root id is one of the ids, the key of a status is not the mark of none.
The theorems of `RunStats` have one hypothesis more, `~Concurrent`: a `Process`
whose runs follow one another, as in the run `stats`. Runs at the same time
replace each other's timer, which is finding 3, and none of these properties
survives that.

None of the properties is inductive alone. What each proof adds:

* **StreamLoop.** That `out` is 1, 2, ..., n says nothing of the next byte unless
  one knows where the bytes between `out` and `reads` are. `IInv` says so: the
  consumer has the first bytes, the batch continues them from `prev`, the writer's
  buffer continues the batch, and together they reach the last byte read
  (`WriterInv`, `BatchInv`, `PositionInv`). The same holds of reports, whose offsets
  count from the start of the value they are in, so that a flush between the bytes
  before a report and its `addStatus` puts it at offset 0 of the next batch.
  `FinalInv` carries what the final flush needs: done comes after the reader's end,
  and after `endTime` is set the writer stays empty. The refinement maps a delivery
  to `DeliverBytes` or `DeliverReport`, the final return to `Finish`, a stop to
  `Abandon`, the reader's steps to the source's, and all else to a stutter.
* **StreamLoop, times.** `TimeInv` rests on `IInv`. `Dated` says of the segments of
  the writer and of the batch that they ascend, begin at 0, and that the segment
  holding a byte opened within the merge window before it was read. `WriteDates`
  shows that a write keeps that, whether or not it opens a segment, and `SliceDates`
  that `sliceSegments` gives each byte of a piece the segment it has in the batch:
  the segment in effect is a maximum over offsets, which exists because the segments
  are finitely many (`LastExists`).
* **RunEvents.** The steps look at the latest event only; `InOrder` says of the whole
  history that each event may follow the one before it, and `Silent` that nothing
  follows a break or a return. Both are read off the abstract specification once
  and hold of both kinds of run by refinement; a table has to be closed under its own
  successors.
* **ProcessRun.** `Place` relates where the caller's goroutine is to the latest
  event, which is nearly the whole refinement. The rest relates goroutines to
  processes: the reaper is past the wait only with the child reaped, the reader only
  with nobody holding the output, done comes after the reader. The processes change
  in many ways (forks, exits, escapes, signals to a group or to a number that is
  somebody else's by then); the proof needs only two facts of them, that a table
  stays `Sound` and that `Ages` relates it to every later one, and one lemma per
  system call that says so. `NoGroupSurvivor` holds because the loop of the cancellor
  ends either with the group gone, which stays so, or after a SIGKILL to all of it.
* **ContainerRun.** `Place` and `Reason` do for the refinement what `Place` does
  above. `Box` follows the container, from an answered create on (before that it may
  exist with nobody to know), `Goroutines` and `Results` what the waiter may
  have seen, `LogsComplete` that without an error and without cancellation what was
  copied is what was written.
* **RunStats.** `CountsByUrgency` compares what the timer accrued interval by
  interval with a count over all instants. `Standing` says that an open timer has
  the latest state of every id and that the instants since its last report count
  under the most urgent one; adding an interval is then a fact on the cardinality of
  intervals (`InstantsAdd`). `Balance` says that counter and pending accruals of the
  current run are the past plus the totals, which `Start` keeps because the run
  before it has no pending ones.
* **Asciicast.** A line may end only between runes, and whether a cut is between
  runes depends on bytes that come later. `Clean` says it of what was written
  together with what is held back: a rune that starts before the cut ends before it,
  or is broken by another start. `SplitIsClean` shows that `splitIncompleteUTF8`
  cuts so for any bytes, well formed or not. `Cursors` says that the cursor is where the last line left it, so
  that the intervals add up. `Marking` says that what is marked for an id is the
  latest status about it.
* **Runner.** `ViewsAgree` is inductive with the types. `Accounted` says where each
  byte of text is while no write has failed, `Blocking` that nothing was blocked before the first event.

Only model-checked: all liveness (TLAPS proves neither liveness under fairness nor
`ENABLED`): prompt reports, delivery, and that the loop, the process, the container
and the runner return. The five violations are TLC's counterexamples. The bounds
and the fairness above concern those runs only. No module here has a recursive
definition, so nothing is left out for that reason.

## Findings

1. `container_process.go:205`: a cancellation between the exit result and the end
   of the log copy can end in a `ProcessEnd` with output missing and no error
   (`container_logs`).
2. `console.go:556`: `cancelGroup` is not safe against reuse of the number once
   the group is empty (`process_group`).
3. `process.go:439`: runs of one Process at the same time share the status timer
   and the pid, against "All run state is local" (`stats_shared`).
4. `cmd/runner/status.go:226`: the record of a run cut short stays `working`, and
   the terminal drops it at exit, against the README (`runner_record`).
5. `container_process.go:272`: after a failed wait `ProcessError` is the last event,
   against the README's order, which has `ContainerRemove` after it
   (`container_order`). `ContainerOrder` has the order the code has.

Seen while modelling, visible in the model's steps, and kept out of the runs
because a property would only restate the step:

* A heartbeat can be yielded after done was sent, saying that the process is
  alive (`stream_loop.go:104`).
* A `ContainerCreate` that fails after the daemon created the container, because
  ctx was done or the answer was lost, leaves the container behind: there is no id
  to remove it by (`container_process.go:365`, the removal is deferred at `:145`).
  spec/console-stream-container-spec.md:72 asks for "Explicit cleanup even on failures".
* `ContainerRemove` is yielded before the removal, which is deferred
  (`container_process.go:311`), so the removal it reports may still fail.
* `Cancel`'s own signals, and its one to the bare pid, may reach a stranger if the
  leader is reaped after `stop` looked (`console.go:566`). `hit` records it; the
  comment that promises safety is `cancelGroup`'s, and only finding 2 is about it.
* A `StatusTimer` fed timestamps that go back over a gap counts time twice
  (`status_timer.go:77`); the stream loop's read times do not go back.
* After a cancel or a break `Stop` is not called: the `process.status` gauge stays
  at running, and `Duration` and `ExitCode` are those of the run before.
* The runner exits with 0 when the child fails, when the timeout ends it, and,
  in text and JSON format, when the child cannot be started.
* A container's error about its logs ends a recording, though `ProcessEnd` follows.

## Not modelled, and the plan

Left out for good: formatting, logging, flags and the reading of configuration
files, the exporter and histograms of metrics, the tester, the examples, the
OSC 7501 parser and stripper (another module; the runner's model has the bytes it
may hold back), options and defaults, which are set before a run and never
change. The container run's calls of the statistics are those of the process run
and not modelled a second time. In a terminal the exit of the session leader may
hang up its descendants' tty; in the model any descendant may lose the output at
any time.

What is left, in this order:

1. For `RunStats`, what still holds of runs at the same time: the types, the counts
   of events and errors, and that an accrual is added to the counter once by the run
   that made it.
2. For `ProcessRun` and `ContainerRun`, action properties: no signal before the
   start and none after the deferred close, and a container removed once.
