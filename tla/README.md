# TrailStep: a verification project

TrailStep runs durable, typed workflows of AI coding agents.  A workflow is a tree of
continuations (steps, invoked workflows, arrays, `parallel(...)` nodes); the runtime
executes it, records every event in the run directory, and lets another process pick the
run up later.  This directory holds TLA+ modules that model the parts of the repository
where concurrency, failure and ordering decide whether that works, the TLC configurations
that check them, and TLAPS proofs of what matters most for every value of the constants.

Paths below are relative to `src/packages/`.

## 1. Inventory

| Component | State it keeps | Operations | Interacts with | Hard behaviour |
|---|---|---|---|---|
| Parallel-track scheduler (`core/src/runtime/run-workflow/root-continuation-array-scheduler.ts`, `scheduler-*.ts`) | branches, queue, pending joins, active workers per track and group, the first terminal result; `track.json`, `branches/*.json` | start a track, dispatch, split, join, park, decide, throw, answer | continuation engine (per branch), run storage, cancellation marker | interleaved workers in one event loop, joins, verdicts racing late outcomes |
| Retry plan (`scheduler-retry-plan.ts`) | branches read back from disk | choose what to requeue, and from which node | scheduler, continue and retry | what a parked or crashed track forgets |
| Continuation engine, step attempts (`continuation/run-continuation/`) | invocation frames, settings in force, step index, attempts | run a step and its phases, retry, time out, route, pop a frame | agents, trail, marker | abandoned attempts, budgets over the whole trail, nested settings |
| Run lock and run lifecycle (`run-lock.ts`, `run-workflow.ts`, `initialize-run.ts`) | `run.lock`, `events.jsonl` | open, acquire, start, resume, park, finish, release | every process that drives the run | processes that die, recycled pids, reads used after an await |
| Wait events (`runs/wait-events.ts`, `resume/replay-to-waiting-step`, `wait-phase.ts`) | waits in the trail, request and answer files | start, satisfy, fail a wait; find the pending one | scheduler, lifecycle, `answer` command | a continue over a trail that moved |
| Resume, retry, cancellation (`resume/`, `retry/`, `cancellation/`) | cycles in the trail, the marker | reopen a failed, cancelled or waiting run, replay its completed steps | CLI, lifecycle | a node rebuilt from events alone; a request and its consumption racing |
| Run storage (`artifacts/run-storage.ts`) | the trail, JSON files replaced whole, run directories | append, read from a cursor, replace, create | all of the above | torn lines, renames that are refused |
| Storage lifecycle (`storage-lifecycle.ts`) | hot runs, archives, manifests, pins | plan, archive, restore, pin, delete | CLI storage and runs | crashes between files, plans that are stale when applied |
| Run context (`run-context/`) | `state.json`, `global-state.json`, queued writes | get, set, update | branches | read-modify-write of concurrent branches, failed writes |
| Working agents (`agent-execution/working-agent`, `child-process`) | child processes, `output.json`, budgets | select a target, spawn, stall, terminate, format, fall back | step attempts | processes that outlive their attempt |
| Interactive sessions (`agent-execution/interactive-agent`, CLI `continue`, `cancel`) | `interactive.json`, `output.json` | open, watch, complete, cancel, reattach | an external agent, other commands | completion, exit and cancel in any order |
| Sub-prompts (`runtime/sub-prompts/`) | ordinals, fingerprints, answers in the trail | ask, replay | step attempts, agents | answers of attempts left behind |
| MCP tools (`mcp/src`) | detached children | list, run, resume, answer, watch | CLI, runs | a detached process that exits early |
| CLI run commands (`cli/src/internals/commands/{run,continue,retry,resume,cancel,answer}`) | none of their own | gates before `runWorkflow` | runs | gates checked before the lock |
| CLI packages (`add`, `remove`, `update`, `workflows`) | `package.json`, `node_modules`, config files | install, uninstall, rename, roll back | package managers, each other | stale plans, kills in a rollback |
| Sub-agents (`sub-agents/src/delegate`) | keys of the branch's state, worktrees, branches | delegate, ask the parent, clean up | git, agents | crashes between two keys, work that must not be lost |
| create-flows (`create-flows/src/feature-implementation`) | keys of the run's state, the working tree | slice, route, validate, review, commit | git, agents | crashes between two keys, budgets of rework |
| Dashboard, trailtest, provider adapters, authoring API | a view; none | | | read-only or sequential |

`PROJECT.json` lists each of them with its status, and the hazards of the code at the line
where they bite.

What makes them correct:

* scheduler: never more workers than configured or capped; each join runs once and only
  after all it joins; one verdict, the first; nothing open after it; nothing lost without
  it; always an answer.  Over several processes, each branch's last step is done once.
* steps: no more failed attempts than the policy; a non-idempotent step runs once; a
  cancel ends every visit; inside an invocation a node runs under the settings of the
  workflow invoked, and the settings of the run are back after it.  (They do not follow its
  steps into the branches of a split, and a root workflow's retry policy is in force for no
  step: section 6.)
* run lock: one driver at a time; a lock never outlives its owner for another reason than
  a crash; a driver that dies can be replaced.
* reopening: a reopened run stands where it stopped; a parked run can be continued, a
  completed one runs nothing.
* observers: `crashed` is never said of a driven run, nor, by a call that has read the whole
  trail, without a cause (a call that has not may say it of a finished run: section 6); a
  tool that blames a process is right for good.
* storage: nothing is lost or mixed that nobody asked to delete; a pin in force when a
  command turns to the run holds (one set while the command is at work need not: section 6);
  the archive lists what it has; an incremental reader misses and repeats nothing; an acknowledged
  state is durable.
* agents: an answer is taken by the attempt it was given to, never by another one; what an
  agent has answered is not asked again.
* commands and flows: a package that is relied on stays installed; clean-up discards no
  work; a commit holds one story's work; rework is bounded.

## 2. Plan

Order: the most important behaviour first.  Everything below is done unless it says next.

1. `Track`, `TrackScheduler`, with `TrackSchedulerProofs`.
2. `RunLock`, `RunWatch`, `RunLockProofs`; `McpCalls` beside them.
3. `RunSummaries`, `StorageLifecycle`, `StorageLifecycleProofs`.
4. `StepAttempts` (checked in one run with `TrackScheduler`) and `ContinuationLoop`, with
   `StepAttemptsProofs` for both.
5. `RunCycles` and `TrackResume`: what reopenings rebuild, without and with a track;
   `RunCyclesLemmas` and `RunCyclesProofs`.
6. `SharedState` with `SharedStateProofs`, `RunFiles`: the state and the files under all of
   it.
7. `InteractiveSession`, `WorkingAgent`, `SubPrompts`: agents.
8. `Packages`, `Delegate`, `StoryFlow`: commands and the workflows that ship with it.
9. `ComponentProofs`: the theorems about `TrackResume`, `RunFiles` and the modules of 7 and 8.

Next: the dashboard's connector (reconnecting, deduplicating events), and the byte cursor
that `trst_watch` persists between calls.

Each module is written to be proved about: constants, one action per operation, no
RECURSIVE operator.

## 3. The modules

### Track and TrackScheduler

`Track` is the promise to the caller of the scheduler: tasks open and close freely until a
first verdict; after it they only close; the answer is the verdict, or `completed` when
there is none and nothing is open.  A task may still be winding down after the answer, which
the code allows when a branch throws.

`TrackScheduler` models one call of `runRootContinuationArrayScheduler`.

| Module | Code |
|---|---|
| `status`, `parent`, `isPost`, `created` | `BranchState`, `runtime.branches` (branches are numbered in creation order) |
| `queue` | `runtime.queue`; creation order is queue order because branches are only pushed and spliced |
| `joins`, `recorded` | `runtime.pendingJoins` and the keys of `completed` |
| `active`, `groupActive`, `scheduling` | `activeWorkers`, `activeByParallelGroup`, being inside `schedule()` |
| `terminal`, `terminalBranch` | `terminalResult`, `terminalBranchId` |
| `promise`, `result` | the promise the entry point awaits, the value it returns |
| `pc` | the await at which the worker of a branch is suspended |
| `Dispatch`, `EndTurn` | the loop of `schedule()` |
| `BeginContinuation`, `Outcome*`, `RefusedSplitFails`, `SplitChildren`, `SplitAbandoned` | `runBranch` between its awaits |
| `SettleJoin`, `PostReturns`, `PostThrows` | `enqueueSatisfiedJoins` |
| `Terminalize`, `CancelOpen` | `terminalizeTrack`, `cancelPreventableBranches` |
| `WorkerThrows`, `RejectTrack`, `WorkerExits` | `reportWorkerFailure` and the `finally` of a worker |
| `TrackReturns` | what follows the promise |

An action is one turn of the event loop.  What a step computes, names, timestamps and the
content of files are left out; that writing a file may fail is not (`WorkerThrows`).  What a
branch does is a free choice among all outcomes `runContinuation` can return.

### RunLock and RunWatch

`RunLock` models the calls of `runWorkflow` on one run directory by several processes, from
`initializeRun` to the release of the lock.  An attempt is one call; its name is the nonce
of its lock.  `PidOf` maps attempts to processes: an MCP server or a test may make several
calls in one.

| Module | Code |
|---|---|
| `lock` | content of `run.lock` (its nonce, hence its pid) |
| `found` | what `acquireRunLock` read, until it decided |
| `previous` | `previousEvents`, read by `initializeRun` before the lock |
| `trail` | `events.jsonl`; events that no reader here tells apart are one kind |
| `at` | the wait a driver works on |
| `alive`, `reused` | what `process.kill(pid, 0)` finds |
| `raced` | history: one attempt read `run.lock` while another stood between its own read and its rename |
| `leaked` | history: attempts whose `unlink` failed |
| `Open`, `ReadLock` ... `WriteLockFails` | `initializeRun`, `acquireRunLock` |
| `Start`, `Resume`, `RefuseReplay`, `StillUnanswered`, `Answered`, `Misanswered`, `Park`, `Parked`, `Finish` | `runWorkflowBody` and the wait phases |
| `CheckNonce`, `Unlink`, `UnlinkFails` | `releaseRunLock` |
| `Crash`, `Recycle` | the operating system |

`RunWatch` adds one call of `trst_watch`: it reads the trail, polls for growth and then
classifies, each read a step of its own.

### RunSummaries and StorageLifecycle

`RunSummaries` has no state: `LatestUnresolvedFailure`, `TerminalStatus` and `Status` are
the functions of the same names over a trail.  The backward scan that counts unclaimed step
ends is a recursive function of the position.

`StorageLifecycle` models the runs root.

| Module | Code |
|---|---|
| `hot` | the run directories: `events.jsonl`, one file for all others, `.trailstep-pin.json` |
| `payload`, `manifest` | the two files of an archive; a payload that is missing or half written is the same to every reader, a manifest is not |
| `at` | the id `createRunDirectory` gave a run |
| `driven`, `log` | drivers at work, and what each run has written (`log` is a history variable: what a whole copy must hold) |
| `cli` | a storage command: the await it stands at, the run it turned to, the rest of gc's plan, the copy it has read |
| `guarded`, `forgone`, `contended`, `cut` | history: pins in force, deletions asked for, ids on which two processes met, commands killed half way |
| `Create`, `Drive`, `Stop`, `Reopen` | `createRunDirectory`, the events of a driver, its end or death, resume, retry and continue |
| `PlanGc`, `NextAction` | `planStorageLifecycle`, the loop of `applyStorageLifecycle` |
| `CheckArchive` ... `WriteManifest`, `RemoveFile`, `RemoveDirectory` | `archiveRun` between its awaits |
| `AskDelete`, `CheckDelete`, `UnlinkPayload`, `UnlinkManifest` | `deleteRun`, `deleteArchivedRun` |
| `Restore`, `MakeDirectory`, `RestoreFile` | `restoreArchivedRun` |
| `PinRun`, `UnpinRun` | `pinRun`, `unpinRun`: the look at the directory is one with the file operation, which fails in the same case |
| `Die` | a command is killed |

The look at status and pin in `archiveRun`, and the look at the directory and the payload in
`restoreArchivedRun`, are one step each, as is gc's look at everything; the use of what they
read is not.

### StepAttempts and ContinuationLoop

`StepAttempts` models `runStepExecution` for one step.  A visit is one call of it; the
promise of an attempt is a process of its own, because an attempt that loses its race with
the timeout or the poll of the marker is not stopped.

| Module | Code |
|---|---|
| `conf` | the step's definition: phases, the tiers of its retry policy, timeout, error handler, the nodes its do phase may return |
| `marker`, `restarts` | the cancellation marker, continues in a new command |
| `failures`, `said` | what of the trail the recount and the properties read |
| `visit` | the loop of `runStepExecution`; `work` the promise of each attempt |
| `CountAttempts`, `BeginAttempt`, `HandleFailure` | `step-attempt-history.ts`, the loop and its `catch` |
| `Timeout`, `Poll` | `step-control.ts` |
| `EnterPhase`, `FinishInputWait`, `FinishCheckWait`, `FinishPrompt`, `LeavePhase`, `ParkStep`, `Conclude`, `ReturnNode` | `step-attempt.ts`, the phase handlers |
| `ResumeVisit`, `CrashRun`, `Cancel`, `ContinueCancelled` | a continue of the step, the operator |

`ContinuationLoop` is the loop around it (`run-continuation.ts`), and the loops its result
leads to.  A behaviour follows one branch at a time; a step is one action there.

| Module | Code |
|---|---|
| `settings`, `frames` | the five `currentWorkflow...` variables, each by the workflow it was taken from; `invocationFrames` |
| `RunSettings` | what `runWorkflow` gives every loop: the root's id, agents and timeout, no retry |
| `entry` | how the loop was entered (the root's start, a branch of it, another branch or a post, the replay of a run without a track), whose code made its first node, the post still to follow, and how far a continue could find it again |
| `Invoke`, `PopDone`, `StopFail`, `StopAbsolute`, `StopSplit`, `StopUnknown`, `StopCancelled`, `RunStep` | the branches of the loop's body, in its order |
| `SplitOutcome`, `PostOfFrames` | the posts a split hands to the scheduler (`workflow-invocation.ts`): the node's own, then that of the innermost frame that has one |
| `StartChild`, `StartPost`, `ContinueParked` | the next loop: `runBranch` for a child or for the post of a join, and the replay of a wait (`resolve-branch-node.ts`) |

`maxSteps` bounds one loop: the scheduler passes it to each of them, and each counts from
nothing; only the replay of a run without a track counts on.

### RunCycles and TrackResume

`RunCycles` is a run without tracks from command to command.  The author's code is a program
of a few steps; the driver writes the trail; `ContinueWait`, `RetryFailure`,
`RetryCancelled` and `ResumeFailed` are the replays of `resume/`, functions of the trail
alone that return the node, the phase and the values the run is taken up with.

| Module | Code |
|---|---|
| `trail`, `answers`, `request` | `events.jsonl`, the answer files, the cancellation marker |
| `run` | the driver: node, phase, value, answers; what it last knew stays when it stops |
| `opening`, `cancel` | a command between reading the trail and opening the run, or writing to it |
| `TopOfLoop`, `Prompt`, `Wait`, `Do`, `Fails` | the driver, step by step |
| `AskContinue`, `AskRetry`, `SelectRetry`, `AskResume`, `Reopen` | the gates of the CLI commands, `runWorkflow` with a target |
| `AskCancel`, `RecordCancel`, `ClearCancel`, `Answer` | `cancel-command.ts`, `answer-command.ts` |
| `strayed`, `late` | history: the first reopening that did not reach where the run stopped, or took up another attempt than the last (`superseded`); a cancel that overlapped the end |

A replay is two functions of the trail: `OpenStarts` pairs the ends of a step with its starts
as `pairCompletedStepAttempts` does, and `Reached` goes through the completed attempts from
`AtStart`, `Advance` being one iteration of `replayCompletedSteps`.  Which events it reads is a
parameter: `KeptEvents` for a retry, a prefix for a continue and a retry of a cancelled run,
all for a resume.  `WellBuilt` says what the builders of `step-node.ts` let an author write.

`TrackResume` is a parallel track over several processes: which branches
`createPersistedTrackRetryPlan` requeues from the records on disk, with which node and
which waits (`TakeUp`, `SelectBranches`, `RequeueNode`), while branches park, finish, fail
and crash.  It has two branches; the turns of one process are `TrackScheduler`'s.

### SharedState and RunFiles

`SharedState` has both caches of `create-run-context.ts`: `kind = "run"`, where a set
changes the cache at once and queues its write, and `kind = "global"`, where every mutation
waits its turn.  `disk` and `cache` count updates and hold the last set value, which is what
lost updates and stale writes are told by.

`RunFiles` has the trail as a sequence of pieces (the head of a line, its end with the
newline), the reader with a byte cursor, the replacement of JSON files by rename with
`renameMaxAttempts`, the creation of run directories and of `.gitignore`.

### WorkingAgent, InteractiveSession and SubPrompts

`WorkingAgent` is `runWorkingAgentCommand`: targets and fallbacks, the two phases of a
manifest target, transient spawn failures, format attempts, budgets in half seconds, SIGTERM,
SIGKILL and the bound of the wait for the end of a process.  `procs` are the processes ever
started; `outFile` is the one `output.json` they all write.

`InteractiveSession` is a session between the driver (`session`), the agent process (`cli`),
continue commands (`command`), a cancel command (`canceller`) and a resume that reattaches;
they meet in `protocol` (`interactive.json`) and `answer` (`output.json`).  `expects =
"managed"` is a session opened by `trailstep open`.

`SubPrompts` has the attempts and replays of a step (`tries`), the chains of calls they
make, and `completions`, the answers the trail keeps by ordinal and fingerprint.

### Packages, Delegate and StoryFlow

`Packages` has three config files (`registry`), two install roots (`modules`, `declared`), a
command at work and one that waits at a prompt with what it has read.  `Add*`, `Remove`,
`Select`, `PlanUpdate` and what follows them are the commands between their awaits, rollbacks
included; `KillCommand` ends one anywhere.

`Delegate` has the durable keys of one delegate (`memo`), its handler (`job`), and `git`,
which is external: a worktree and a branch with what a command does or refuses.  A crash
leaves a prefix of the keys a handler writes; a retry replays the completed steps and
executes the interrupted one again.  `StoryFlow` does the same for take-it-away: `keys`,
the step at work, the uncommitted `changes` by story, the `commits`, and in `routed` the
routes the completed router steps returned.  Stories are numbers and their queues sets of
numbers, listed in ascending order, which is the order the document gives them.

### McpCalls

`McpCalls` adds one call of an MCP client to the attempts of `RunLock`: the tool it names
(generic, or a workflow's own, found in layers of files), the process it spawns, and the
reads of the run directory, the trail, the lock and the exit code in the order the code makes
them.  `RunStep` couples them: the processes do what `RunLock` lets them, and one that ends
leaves its exit code.

### MC_Branches, MC_McpCalls, MC_Components

Components that share no state, or instances of one of different size, share a run: a behaviour is one of the part (`part`,
`component`, `call.tool`) it starts with and the others stay in one initial state, so the
states add up and do not multiply.  Each property is about the variables of one part.

## 4. The runs

Bounds are CONSTANTS with the prefix `Max` (or the sizes of the sets), guards of the actions
they bound.

| Run | Shows | Bounds, and why they are enough |
|---|---|---|
| `track_scheduler` | the properties of `TrackScheduler`, among them the refinement of `Track` and termination; those of `StepAttempts` | track: 4 branches, 2 workers, roots of 1 or 2, splits of 1 or 2, cap 1 or none, both policies, posts with and without an invocation's own, one throwing branch, a cancel at any time: two siblings racing, a capped sibling waiting, a join with its post, a chained join and a nested split fit in four branches.  Step: two visits, five shapes of a step (each kind of phase, with and without timeout, retry, handler and idempotence), two attempts, one continue: two attempts and two visits are what overlaps |
| `track_joins` (violated) | a nested split under a joined child leaves its join pending in a completed track | one child per split: the smallest nested split |
| `track_failfast` (violated) | a failure after a sibling parked decides nothing | two branches |
| `run_lock` | one driver at a time, no lock without an owner, and locks come free; what a watcher may conclude; a tool that blames a process is right | drivers: a fresh run in one process and two continues in another, one crash, one recycled pid, one wait: two acquirers beside a leaving driver are possible, which is the whole of the protocol; ends of steps, on which nothing an attempt does depends, are left to the calls.  Calls: a fresh run and one continue, in two processes, beside one call of one tool; one crash; one recycled pid beside `trst_watch`, none beside the other tools, which test none; every layer a tool file can be in, one at a time |
| `run_exclusion` (violated) | two continues drive together | as the drivers of `run_lock` |
| `run_reopened` (violated) | a stale continue reopens a completed run | as the drivers of `run_lock` |
| `watch_parked` (violated) | a parked run is called crashed | as the calls of `run_lock` |
| `storage` | `NothingLost`, `NeverMixed`, `ArchiveListed`, `PinProtects` | two runs with one id between them (the second can only be born when the first is archived or deleted, which is when ids are reused), two commands, four events in all (enough to fail, be cancelled, park and be reopened), one command killed half way.  The constraint `MCApart` does not follow a behaviour once two processes have met on the id: no property but `PinProtects` says more of it |
| `storage_live` (violated) | gc archives a run in the middle of a step | as `storage`, without the constraint |
| `components` | the properties of the modules below, one component at a time | see the next table |
| `components_bricked` (violated) | a run cancelled between two steps can be reopened by nothing | as `components`, reopenings only |
| `components_invoked` (violated) | a step of an invoked workflow behind a split runs under the root's settings | as `components`, the loop only |

| Component of `components` | Property | Bounds, and why they are enough |
|---|---|---|
| loop | `SettingsNest` | three workflows, invocations two deep: a post that invokes again below a caller, a split two invocations deep with the posts and the continues it leads to |
| state | `AcknowledgedIsDurable` | two clients, four operations, two faults: an update and a set of each around a failed write |
| files | `ReaderMissesNothing` | three events, one torn: an event before, the torn one and the one merged into it |
| cycles | `ReopenFollowsRun`, `ParkedIsContinuable`, `CompletedIsFinal` | six programs (loops over a prompt, over waits, an error continuation, a non-idempotent step, two waits in one step), two attempts, trails of ten events, two reopenings, one cancel: the second reopening reads what the first resolved |
| session | `AnswerIsTaken` | two submitters, two attempts, one driver that dies |
| agents | `OutputIsOwn` | each kind of target and fallback, three processes, no timeout, one that leaves no time and one that leaves a reserve: a process outlives the one after it |
| subPrompts | `AnswersStick` | three handlers (chained and quoting, side by side, limits of a step and of a call), three attempts or replays |
| stories | `CommitsAreIsolated`, `ReworkIsBounded` | two stories, two reviews, three validations, one crash or retry |
| packages | `PackagesStay` | a package of two workflows and a file of the user, two versions, two commands, one kill; three scopes over two install roots are the code's own |
| delegates | `NoWorkDiscarded`, `AnswersReachTurns` | seven inputs (alone, in a fleet, shared and own places, each policy), three turns, one crash or retry |
| tracks | `BranchFinishesOnce` | five shapes of a track, two branches, two continues or retries, one crash |

`CHECK_DEADLOCK FALSE` is set where the system really stops: a run directory at which nobody
calls any more, a component that has come to its end.  `TrackScheduler` has an explicit
`Over`, `StepAttempts` the `StepOver` of `MC_Branches`; they are checked for deadlock.

Some properties name the cases in which they do not hold (`Disturbed` in `SubPrompts`,
`excused` in `TrackResume`, the roots in `lost` of `Packages`, `SameAttempt`, `TwiceSatisfied`
and the like in `RunCycles`, `overlap` in `StepAttempts`, `raced` in `RunLock`).  Each stands
for behaviour of the code, found by TLC and listed in section 6.

### Fairness

* `TrackScheduler`: weak fairness of `Turn`, the disjunction of all steps of the event loop:
  Node runs the loop while a callback is ready.  No fairness among branches is assumed, and
  none for throwing or for the operator's cancel.  It does assume that a step settles (steps
  have timeouts, and the bound on branches stands for `maxSteps`).
* `StepAttempts`: weak fairness of the loop's own steps and of the 100 ms poll of the
  marker.  A phase need not end, which is what `CancelEndsVisit` is about.  `MC_Branches`
  asks it of the part at work only: the other one stays in its initial state.
* `RunLock`: weak fairness per attempt of what it does of itself (`Proceed`): acquiring,
  starting, looking at the answer, returning, releasing.  No fairness of steps that end or
  park, of crashes or of recycled pids.  `Finish` is among what is fair because a workflow is
  bounded by `maxSteps`.
* The other modules state no liveness: a command that is killed is not restarted by
  anybody, and an agent need not answer.

## 5. What is proved

All theorems are for every value of the constants that satisfies the assumptions of their
module: `SchedulerAssumption`, `ProgramAssumption`, `MaxTriesAssumption`,
`BoundsAssumption` (the bounds on a trail and on commands are numbers), `RunLockAssumption`, `McpAssumption` (some attempt is not the
fresh start), `StorageLifecycleAssumption`, `StepConfAssumption`, `SessionAssumption`,
`AgentAssumption`, `SubAssumption`, `PackageAssumption`, `TrackAssumption`, `StoryLimits`.
They say of what type a constant is and what the code's own definitions guarantee; the one
that says more is `StoryLimits`, see below.

* `TrackSchedulerProofs`: `Inv` is inductive (`Inductive`), hence `Invariance`.  The
  properties alone are not inductive: `PoolBounded` needs to know that a dispatched branch
  was idle (`QueueMatches`), `JoinedAfterSettlement` that what a join recorded stays settled
  (`RecordedSettled`) and that the children of a split are all created before any is joined
  (`FamilyTree`, `JoinsOwned`), `CompletedLostNothing` that the promise resolves only with an
  empty queue (`AnswerMatches`) and what an exited worker leaves behind (`PlaceMatches`).
  There is one lemma per conjunct.  `SettledStays` and `JoinRunsOnce`
  follow step by step from `Inv`; `Refinement` from `RefinesInit` and `RefinesStep`.
* `RunLockProofs`: `LockInv` is inductive.  `OneDriver` needs `AcquirerSawDriver` (an
  acquirer beside a driver has read the driver's lock, so it will be refused) and
  `OneAcquirer`; both hold only while acquisitions have not raced, which is exactly the
  condition in the property.  `CrashedForCause` needs `Accounted`: the trail of a run that
  nobody drives and nobody died with ends in a verdict or has an open wait.
  `FailedCallsAreOver` is about the processes and the call together (`McpSpec`): a tool says
  that its process failed only when that process is gone (`Gone`: it ended, or came to no
  call of `runWorkflow`), an attempt that is gone is not begun again, and the run is started
  by the fresh attempt alone, so one that is gone without a start leaves none (`NoStart`).
* `StorageLifecycleProofs`: the invariant speaks of one run id at a time.  While an id is not
  contended at most one process is at work there, and the stage it has come to says what it
  holds in memory, what the directory holds and what the archive holds of the run
  (`Place`, `StageKeeps`).  Every action disturbs one id; `Frame` carries the invariant over
  for the others.  `NothingLost`, `NeverMixed` and `ArchiveListed` are read off it at every
  stage.  `PinsHold` needs another one, `GuardInv`: a pin is a file of the directory
  (`PinsInPlace`), and a command whose run was pinned when it turned to it and still is stands
  before its check or only deletes an archive (`GuardedPinned`).
* `StepAttemptsProofs`: `StepInv` is inductive (`StepInductive`).  All of it needs to know
  which attempt a visit waits for: an attempt that is at work and not late is the one its
  visit races (`Raced`), so no promise left behind can move the visit.  With it
  `BudgetIsTheRuns` follows from `CountsOn` (visits that do not overlap count on from the
  failures in the trail), and `NonIdempotentRunsOnce` from `OneAttempt` (one attempt per
  visit, and nothing done before its do phase, which `StepConfAssumption` puts last).  The
  eleven steps of a promise are first shown to be one kind of move (`PromiseMove`,
  `SaidMove`).  `AnswersRecordedOnce` has its own invariant `Once` over all visits and
  attempts: of a step without a timeout an attempt is abandoned only by a cancellation, so at
  most one attempt of a visit is at work, and an answer that was recorded is known to the
  visit, or is being recorded while the visit stands open.
  `SettingsAreNested` is about `ContinuationLoop`, in the same module: `SettingsInv` says that
  the running node and the settings in force are of the workflow on top of the stack
  (`TopOwns`), and for every frame that the settings it saved and the caller whose post it
  holds are those one depth below (`FramesNest`), which a pop puts back on top.
* `SharedStateProofs`: `StateInv` is inductive (`StateInductive`).  An acknowledged set stays
  because the sets that wait in the queue of `globalState` are in order and newer than what
  is stored (`GlobalSetsAhead`), and those of `run.state` are in the cache that the next
  write stores (`RunSetsCached`); an acknowledged update because one operation at a time
  reads, stores and writes (`UpdatesCounted`).
* `RunCyclesProofs`, on `RunCyclesLemmas`.  `CompletedRunsAreFinal` stands by itself (`OverInv`):
  the end of a completed run stays the last event of its cycle unless a cancel read the trail
  before it, which the property leaves out; a trail that ends so has a completed cycle
  (`CompletedIsRead`), which retry and resume refuse and in which a continue finds no wait; and
  a command that is opening the run has read that end.
  `ReopeningsFollowTheRun` and `ParkedRunsAreContinuable` rest on `CyclesInv`, for any
  workflows (of the two values and two wait ids of the module), any number of attempts and any
  trail.  Neither property is inductive: that a replay finds the run again can only be kept
  from event to event by saying where every replay stands at every moment, and what the trail
  has recorded of the attempt at work.  The parts of `CyclesInv` are:
  - `Base`: the types, and that every event of the trail is one the workflow can write.
  - `Body`: the trail records one attempt after the other (`Attempt`: each attempt has one
    output, one failure and one answer per wait, in the order of the phases, and is followed
    by a start or an output of the same step); the run stands where the events of the last
    attempt leave it (`Inside`, `Replays`) or between two attempts (`Between`); a run that
    waits stands at its wait (`Parked`); and what started since a cancel of this cycle are
    attempts at the step it cancelled (`CancelsHold`).
  - `Follows`: the replay of a trail up to its last start, and between attempts of all of it,
    leads to the node the run is at.  It holds of two replays at once: that of all events,
    which continue, resume and the retry of a cancelled run use, and that of the events no
    retry took up again (`Unretried`), which the retry of a failure uses.
  - `Sound` puts both under the excuses: the second replay follows while no error continuation,
    no cancelled attempt that completed and no attempt that failed or was cancelled after its
    output is in the trail (`Straight`); the first needs besides that no step failed after its
    output (`Plain`).  `RunSound` says `Sound` of the trail and of the part of it that a command
    opening the run has read, until one strays.
  A replay is a recursive function of the trail.  That it exists and is what its equation says
  (`Computed`, `ReachedIs`, `OpenStartsAre`, `UnclaimedEndsAre`), and that the replays of two
  trails agree as far as the trails do (`ReachedAgrees`), is shown by the least position where
  it would fail (`LeastOf`), from the well-foundedness of the naturals, which takes the place of
  an induction.  The rest is then about one event at a time: `ReachedGrows` and the
  `Follows...` lemmas for the events of the driver, `RetryReaches`, `CancelledReaches`,
  `ResumeReaches`, `ContinueReaches` and `ParkedReaches` for the commands.
* `ComponentProofs`, one part per component:
  - `BranchesFinishOnce` (`TrackResume`): a branch that is yet to do its last step, or that a
    retry may take up (`ToDo`), did it no more often than it is excused for (`Excused`); and a
    branch that runs does so with its own node, so that no two do the same step (`Scheduled`).
    Excused is a branch that a crash catches between its last step and the record of it, and
    one that finishes when a sibling has cancelled it.
  - `PackagesAreKept` (`Packages`): no registration says that TrailStep owns a package which is
    the user's (`NoneMine`), in the files as in what a command or a prompt holds of them; a
    snapshot without a package was taken when nothing relied on one that was not lost already
    (`AddCommand`).  The proof attempt showed two errors of the model: an empty snapshot stood
    for no snapshot, and the prune of an update also removes a package that `package.json` no
    longer lists, which the property now names.
  - `AnswerOfOwnAttempt` (`WorkingAgent`): a process that can still write is the last one
    started and is waited for (`OnlyTheLastWrites`), because the wait for its end lasts longer
    than the grace before its SIGKILL (`GraceFits`).  The proof attempt showed that the timeout
    of a phase revived a killed process in the model.
  - `CleanupDiscardsNoWork`, `TurnsSeeAnswers` (`Delegate`): the first is kept by each step of
    the cleanup, whatever git does; the second because the answers given are in the memory that
    only the first step empties, and a turn sees the memory as it stays while the turn lasts
    (`AnswersAreKept`).
  - `CommitsStayIsolated` (`StoryFlow`): past its preflight a story finds no changes in the tree
    but its own (`TreeIsTheStorys`), in every step it is sent back to.
  - `ReworkStaysBounded` (`StoryFlow`): every way back to the implementation is preceded by a
    failed review or validation, and the saved route counts every way back but those that an
    interrupted router hid (`RoutesCount`, `ReviewsCount`, `ValidationsCount`).  The hard case
    is a failed validation whose counts fall back on the attempts of its phase: it forgets the
    failed reviews.  Three validations have begun by then, and `StoryLimits` says that such a
    story has come to the doctor or to its end; the code's limits are 3, 3 and 2
    (`create-flows/src/shared/constants.ts`).  TLC finds `ReworkIsBounded` violated where
    `StoryLimits` does not hold (a doctor after four of five validations, three reviews).
  - `CallsAnsweredOnce` (`SubPrompts`): where chains of calls cannot overtake each other, the
    ordinal of a call is its place in the handler and its only answer is filed under that
    ordinal and its fingerprint, so a replay finds every answer (`AskedOnce`, `StepTook`).
    The proof attempt showed that the model's bound on taken answers was false for two chains
    of several calls.
  - `ReaderGetsEverything` (`RunFiles`): the reader stands behind the end of a line, and the
    n-th event of the trail is the line end of rank n; what is read from a line end on is what
    the events of the whole trail have beyond those before it.
  - `SessionAnswerTaken` (`InteractiveSession`): once the user was told, the files say
    completed and hold an answer that fits, and the driver, or the resume in its place, stands
    where it will read them (`ToldIsKept`); what a continue is about to write was validated
    (`HeldIsValid`).

Only model-checked:

* `TrackTerminates`, `CancelEndsVisit` and `LockComesFree` (liveness);
* the type invariants of the modules that compose components for TLC, which only put the
  types of their parts side by side.

The violated properties are false.

## 6. What the code does otherwise than it says

The eight `violation` runs are disagreements between code and documentation;
`PROJECT.json` quotes both sides under `findings`.  The list below is what else was met
while modelling: behaviour the models contain, which the properties leave out by name, or
which lies beside what is modelled.  No run states these as properties.

Scheduler and tracks
* `concurrency` 0 in `parallel()` lets a track complete with its children queued
  (`core/src/runtime/run-workflow/scheduler-worker-pool.ts:38`).
* A branch left queued when a sibling parks, or running at a crash, is never requeued; the
  track completes without it (`scheduler-retry-plan.ts:220`).
* A branch that finished in a process that died before its end was recorded is cancelled by
  a sibling's failure and executed again by a retry, and so is one that finishes after a
  sibling decided the track.
* `wait-answered` requeues every waiting branch, answered or not; a track whose root step
  splits can be neither continued nor retried.

Steps and runs
* The retry policy of the workflow a run is started with is in force for no step:
  `run-workflow.ts:554-637` passes none to any loop, so `workflowRetry` is undefined at
  `run-continuation.ts:56` (`workflow.types.ts:29-38` and `SKILL.md:79` promise it).  An
  invoked workflow's policy is in force until the first split or wait.
* With a timeout an answer can be recorded twice (`run-step-execution.ts:114`); without one
  an abandoned attempt may record `step.completed` after a continue; overlapping branches
  share the attempt budget of a step id.
* A frame without a post ends the branch and skips the posts of outer frames
  (`run-continuation.ts:119`); a split inside an invocation runs the post of the innermost
  frame that has one and no other (`workflow-invocation.ts:35`).
* A branch of a track that is continued inside an invoked workflow starts without the frame
  of the invocation: its post and the check of its output do not happen
  (`resolve-branch-node.ts:46`).
* A torn line swallows the event appended after it (`run-storage.ts:82`, `:128`).
* Replays go astray after an attempt that recorded its output and then failed or was
  cancelled; a wait replay does not leave out retried attempts; `step.cancelled` of a parked
  step hides its later completion (`replay-completed-steps.ts:291`); prompt-then-wait steps
  lose answers in a replay (`:330`).
* A retry of an attempt that an earlier retry had taken up and a continue then went on with
  (a wait answered after the retry) excludes that attempt's start from the search for its own,
  drops an older completion of the step and starts over an earlier iteration of a loop
  (`replay-to-retry-failure.ts:120`); `strayed` is "superseded" then.
* A successful resume leaves the failure unresolved, so a retry after it goes back to that
  failure, however far the run has come since; a crash between two steps, or between
  `workflow.retryStarted` and the next step, leaves a run that nothing reopens.
* A cancel that read the trail before the run completed makes it cancelled and retryable; a
  second cancel records `workflow.cancelled` itself (`cancel-command.ts:80`); a continue
  clears the marker of a later cancel (`run-workflow.ts:239`).

Agents, sessions, sub-prompts
* `signal` is passed to `spawn` (`run-interactive-agent-command.ts:434`,
  `launch-interactive-agent-target.ts:199`), so Node kills the child before the tree of
  processes is terminated.
* Format retries get the whole budget of the attempt each, and after them the outer loop
  does the work again, both contrary to `two-phase.ts:47`, `:82`; nobody sets
  `spawnErrorCode`, so spawn errors are never transient; two-phase work has one second when
  the step's timeout is eleven or less.
* A crash between `interactive.sessionCompleted` and `step.completed` cannot be reattached.
* A replay does not know the step's `maxSubPrompts`, so a step that raised it cannot be
  replayed (`run-sub-prompt.ts:33`); a second visit of a step in a loop that asks the same
  gets the first visit's answer; sub-prompt agents outlive a timed-out attempt; chains of
  calls in parallel may draw other ordinals in a replay.

MCP and the CLI
* A watcher that reads the trail before a run's end is written and the lock after it is
  released reports the finished run crashed (`trst_watch.ts:283`).
* `trst_run_workflow` takes a directory that an earlier run of the same name left for the
  new run (`run_workflow.ts:281`); a slow start is reported failed though the run may start.
* `trst_resume` takes another driver's growth of the trail for its own, reports the first
  terminal event of the trail, and looks at the exit code after the deadline without reading
  the trail again (`trst_resume.ts:274`, `:303`).
* `trailstep watch` stops at any terminal event of the trail (`watch-command.ts:126`).

Storage
* `archiveRun` looks at the pin (`storage-lifecycle.ts:196`) before it copies, and removes the
  directory afterwards (`:221`); a pin set in between protects nothing.

Packages
* A removal looks for registrations of its own scope, source and ref only, and uninstalls a
  package that another one uses (`package-uninstall.ts:208`).
* An update writes the config it read before its prompts
  (`update-recommended-config.ts:131`); removals and renames bypass the queue of updates.
* Kills in a rollback lose the package; a github add's rollback leaves its directory.

Delegates and stories
* A crash after `initialized` and before `input`, or between `git worktree add` and
  `initialized`, leaves a delegate that no retry brings further; a crash after `turns` drops
  the changes and the question of that turn; generated branches of a fleet are never deleted
  (`steps.ts:341`); tasks that share a parent's place fail from the second on; `git worktree
  remove` deletes ignored files.
* A crash between the keys of `completeReviewedStory` skips a story or gives it the context
  of the one before (`commit-reviewed-story/step.ts:236`); a router step executed again with
  the same evidence takes the earlier route uncounted (`router-replay.ts:107`); validation
  fallbacks count passing attempts.

## 7. What is not modelled

* The dashboard (a read-only view of events), the authoring API (typed builders), provider
  adapters (translation of arguments) and trailtest (a harness): no state of their own that
  several actors share.
* Text: prompts, formats, logging, file names, the content of artifacts.  Where a property
  depends on what a conversion keeps (segments of ids, fingerprints, command lines of a
  validation), the conversion is modelled by what it tells apart.
* The stall detector of a step (it only writes events), the byte cursor `trst_watch` persists
  between calls and the line cap of its reply.
* In `StorageLifecycle` ages and the policy, and events neither the status nor a reopening
  reads; in `TrackResume` groups and more than two branches.
* `init`, `providers`, `agents`, skills and MCP tool files, self-update and dry runs of the
  CLI; the other workflows of create-flows, which are prompts in a row.
* concurrency = 0 and NaN are excluded by `SchedulerAssumption` and listed as a hazard.
* Locking of config files across processes, which the code declares out of scope
  (`workflow-registry.ts`).
* Recovery that nobody performs: no module restarts a killed command by itself.
