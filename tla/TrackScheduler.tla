--------------------------- MODULE TrackScheduler ---------------------------
(***************************************************************************)
(* The parallel-track scheduler of the TrailStep runtime                   *)
(* (core/src/runtime/run-workflow/root-continuation-array-scheduler.ts and *)
(* scheduler-branch-runner.ts).  One JavaScript process runs the branches  *)
(* of a track on a pool of asynchronous workers.  A worker takes a branch  *)
(* from the queue, runs its continuation to an outcome, and settles it:    *)
(* the branch may finish, split into child branches, join its siblings     *)
(* into a post branch, park in a durable wait, or decide the whole track.  *)
(*                                                                         *)
(* An action is one turn of the event loop: the code between two awaits.   *)
(* `schedule()` is one turn as well, but it starts several branches, so it *)
(* is a sequence of Dispatch steps during which nothing else may happen    *)
(* (the variable scheduling).                                              *)
(*                                                                         *)
(* Abstracted: what a step computes, the order of keys in the JSON files,  *)
(* timestamps, branch names (branches are numbered in creation order) and  *)
(* the files themselves, except that writing one may fail (WorkerThrows).  *)
(***************************************************************************)
EXTENDS Integers, FiniteSets

CONSTANTS
  MaxBranches,   \* bound: branches one track may create
  Workers,       \* scheduler.workers after validation
  RootFanouts,   \* widths of a root array; 0 stands for a single root node
  Fanouts,       \* widths of a continuation array or parallel(...) node
  Caps,          \* parallel(..., {concurrency}) values in use
  Policies,      \* failurePolicy values in use
  MaxPosts,      \* post continuations of a split: 2 with an invocation's post
  MaxFaults      \* bound: branches that throw

ASSUME SchedulerAssumption ==
  /\ MaxBranches \in Nat \ {0}
  /\ Workers \in Nat \ {0}
  /\ RootFanouts \subseteq 0 .. MaxBranches
  /\ Fanouts \subseteq Nat
  /\ Caps \subseteq Nat \ {0}
  /\ Policies \subseteq {"fail-fast", "all-settled"}
  /\ MaxPosts \in 0 .. 2
  /\ MaxFaults \in Nat

NoBranch == 0
Branch == 1 .. MaxBranches

\* What a continuation that splits hands to the scheduler.
\* A cap that is missing, or not below the width, is a cap of the width.
PlanType == [width : Nat, cap : Nat \ {0}, policy : {"fail-fast", "all-settled"}, posts : 0 .. 2]
CapsFor(w) == {c \in Caps : c < w} \cup {IF w = 0 THEN 1 ELSE w}
SplitPlan ==
  UNION {[width : {w}, cap : CapsFor(w), policy : Policies, posts : 0 .. MaxPosts] : w \in Fanouts}
NoPlan == [width |-> 0, cap |-> 1, policy |-> "fail-fast", posts |-> 0]

\* A join waits for the children of a split ("split") or, when the split came
\* from an invoked workflow that has a post of its own, for the post branch
\* of that split ("after").
JoinId == (Branch \cup {NoBranch}) \X {"split", "after"}

BranchStatus == {"absent", "queued", "running", "done", "failed", "waiting",
                 "cancelled", "split"}
TerminalStatus == {"done", "failed", "cancelled"}
Verdict == {"none", "failure", "absoluteFailure", "absoluteSuccess", "waiting",
            "cancelled"}

\* Where the worker of a branch is: the await it is suspended in.
Place == {"idle", "starting", "stepping", "doomed", "splitting", "refused",
          "posting", "unwinding", "rejecting", "leaving", "exited"}
Working == Place \ {"idle", "exited"}

VARIABLES
  created,          \* runtime.branches.length: branches 1 .. created exist
  status,           \* BranchState.status
  parent,           \* BranchState.parentBranchId
  isPost,           \* BranchState.joinContinuation
  plan,             \* the split a branch returned
  queue,            \* runtime.queue; its order is the creation order
  joins,            \* runtime.pendingJoins and how far each of them got
  recorded,         \* branches whose settlement is in a join's `completed`
  pc,               \* the worker of each branch
  active,           \* activeWorkers
  groupActive,      \* runtime.activeByParallelGroup, by splitting branch
  scheduling,       \* TRUE during a turn of schedule()
  terminal,         \* runtime.terminalResult
  terminalBranch,   \* runtime.terminalBranchId
  promise,          \* the promise the entry point awaits
  result,           \* what the scheduler returned
  cancelRequested,  \* the run's cancellation marker exists
  faults            \* branches that threw

branchVars == <<created, parent, isPost>>
workerVars == <<active, groupActive, scheduling>>
trackVars  == <<terminal, terminalBranch>>
outerVars  == <<promise, result>>
vars == <<created, status, parent, isPost, plan, queue, joins, recorded, pc, active,
          groupActive, scheduling, terminal, terminalBranch, promise, result,
          cancelRequested, faults>>

-----------------------------------------------------------------------------
(* Derived state *)

\* parallelGroupId: only the children of a split belong to a group.
Group(b) == IF isPost[b] THEN NoBranch ELSE parent[b]

\* failurePolicy of the queue entry; the root, a root array and post branches
\* are fail-fast.
Policy(b) == IF Group(b) = NoBranch THEN "fail-fast" ELSE plan[Group(b)].policy

\* The join that counts branch b, and the branches a join counts.
JoinOf(b) == IF isPost[b] THEN <<b, "after">> ELSE <<parent[b], "split">>
Kids(j) == {b \in 1 .. created : JoinOf(b) = j}

\* isBranchTerminalStatus, negated, over the branches that exist.
IsOpen(st, b) == st[b] \notin TerminalStatus \cup {"absent"}

\* shiftRunnableQueuedBranch: the group of the branch has a free slot.
Runnable(b) ==
  Group(b) # NoBranch => groupActive[Group(b)] < plan[Group(b)].cap

\* Mutant: the pool is not looked at.
CanDispatchOverPool(b) ==
  /\ terminal = "none"
  /\ b \in queue /\ Runnable(b)
  /\ \A c \in queue : c < b => ~Runnable(c)

\* The branch schedule() takes next: the first one in the queue that may run.
CanDispatch(b) ==
  /\ terminal = "none" /\ active < Workers
  /\ b \in queue /\ Runnable(b)
  /\ \A c \in queue : c < b => ~Runnable(c)

\* A verdict that cancels the track.  A parked branch is a terminal result of
\* the runtime too, but its siblings go on.
Decided == terminal \notin {"none", "waiting"}

\* Branches that are still owed to a post continuation (of a split that is
\* being carried out, and of joins that have not run): the model keeps room
\* for them below MaxBranches.
PostsOwed(p) ==
  LET after(q) == joins[<<q, "after">>] \in {"pending", "posting"}
  IN  (IF pc[p] = "splitting" THEN plan[p].width + plan[p].posts
       ELSE IF joins[<<p, "split">>] \in {"pending", "posting"} THEN plan[p].posts
       ELSE 0)
      + (IF after(p) THEN 1 ELSE 0)
Owed[n \in Nat] == IF n = 0 THEN 0 ELSE Owed[n - 1] + PostsOwed(n)
HasRoom(s) == created + Owed[created] + s.width + s.posts <= MaxBranches

-----------------------------------------------------------------------------
(* Initial states: enqueueBranch for the root node or the root array, then *)
(* the first call of schedule().                                           *)

Init ==
  /\ \E width \in RootFanouts : created = IF width = 0 THEN 1 ELSE width
  /\ status = [b \in Branch |-> IF b <= created THEN "queued" ELSE "absent"]
  /\ parent = [b \in Branch |-> NoBranch]
  /\ isPost = [b \in Branch |-> FALSE]
  /\ plan = [b \in Branch |-> NoPlan]
  /\ queue = 1 .. created
  /\ joins = [j \in JoinId |-> "none"]
  /\ recorded = {}
  /\ pc = [b \in Branch |-> "idle"]
  /\ active = 0
  /\ groupActive = [b \in Branch |-> 0]
  /\ scheduling = TRUE
  /\ terminal = "none"
  /\ terminalBranch = NoBranch
  /\ promise = "pending"
  /\ result = "none"
  /\ cancelRequested = FALSE
  /\ faults = 0

-----------------------------------------------------------------------------
(* schedule().  Here and below, a definition marked "Mutant" is a faulty     *)
(* variant of the one after it; no specification uses it.  A property is     *)
(* worth its name only if TLC finds it violated with the mutant in place.    *)

\* activeWorkers and the count of the branch's group.
CountSlot(b, n) ==
  /\ active' = active + n
  /\ groupActive' = IF Group(b) = NoBranch THEN groupActive
                    ELSE [groupActive EXCEPT ![Group(b)] = @ + n]

\* Mutant: a finally block that runs on two paths.
GiveSlotTwice(b) == CountSlot(b, -2)

TakeSlot(b) == CountSlot(b, 1)
GiveSlot(b) == CountSlot(b, -1)

\* Take the first runnable branch, count it, and run it up to its first await.
Dispatch(b) ==
  /\ scheduling /\ CanDispatch(b)
  /\ queue' = queue \ {b}
  /\ TakeSlot(b)
  /\ status' = [status EXCEPT ![b] = "running"]
  /\ pc' = [pc EXCEPT ![b] = "starting"]
  /\ UNCHANGED <<branchVars, plan, joins, recorded, scheduling, trackVars,
                 outerVars, cancelRequested, faults>>

\* Mutant: resolve whenever the queue has run dry.
EndTurnEarly ==
  /\ scheduling /\ \A b \in Branch : ~CanDispatch(b)
  /\ scheduling' = FALSE
  /\ promise' = IF queue = {} /\ promise = "pending" THEN "resolved" ELSE promise
  /\ UNCHANGED <<branchVars, status, plan, queue, joins, recorded, pc, active,
                 groupActive, trackVars, result, cancelRequested, faults>>

\* Mutant: resolve only once the queue is empty too.
EndTurnDrained ==
  /\ scheduling /\ \A b \in Branch : ~CanDispatch(b)
  /\ scheduling' = FALSE
  /\ promise' = IF active = 0 /\ queue = {} THEN "resolved" ELSE promise
  /\ UNCHANGED <<branchVars, status, plan, queue, joins, recorded, pc, active,
                 groupActive, trackVars, result, cancelRequested, faults>>

\* Nothing to start: the turn ends, and resolves the promise if no worker is
\* left to call schedule() again.
EndTurn ==
  /\ scheduling /\ \A b \in Branch : ~CanDispatch(b)
  /\ scheduling' = FALSE
  /\ promise' = IF active = 0 /\ promise = "pending" THEN "resolved" ELSE promise
  /\ UNCHANGED <<branchVars, status, plan, queue, joins, recorded, pc, active,
                 groupActive, trackVars, result, cancelRequested, faults>>

-----------------------------------------------------------------------------
(* Deciding the track *)

\* Mutant: only queued branches are cancelled.
CancelQueued(st, keep) ==
  [b \in Branch |-> IF b # keep /\ st[b] = "queued" THEN "cancelled" ELSE st[b]]

\* cancelPreventableBranches
CancelOpen(st, keep) ==
  [b \in Branch |-> IF b # keep /\ IsOpen(st, b) THEN "cancelled" ELSE st[b]]

\* Mutant: the last verdict is kept.
TerminalizeLast(st, verdict, keep) ==
  /\ terminal' = verdict /\ terminalBranch' = keep
  /\ IF verdict = "waiting"
     THEN status' = st /\ queue' = queue
     ELSE status' = CancelOpen(st, keep) /\ queue' = {}

\* terminalizeTrack: the first verdict is kept.  st is the status of the
\* branches once the caller has recorded its own.
Terminalize(st, verdict, keep) ==
  \/ /\ terminal = "none"
     /\ terminal' = verdict /\ terminalBranch' = keep
     /\ IF verdict = "waiting"
        THEN status' = st /\ queue' = queue
        ELSE status' = CancelOpen(st, keep) /\ queue' = {}
  \/ /\ terminal # "none"
     /\ status' = st
     /\ UNCHANGED <<queue, trackVars>>

-----------------------------------------------------------------------------
(* A worker.  At(b, place) is its resumption after an await. *)

At(b, place) == ~scheduling /\ pc[b] = place

\* The branch is persisted as running; runContinuation reads the cancellation
\* marker before anything else.
BeginContinuation(b) ==
  /\ At(b, "starting")
  /\ pc' = [pc EXCEPT ![b] = IF cancelRequested THEN "doomed" ELSE "stepping"]
  /\ UNCHANGED <<branchVars, status, plan, queue, joins, recorded, workerVars,
                 trackVars, outerVars, cancelRequested, faults>>

\* runContinuation returned.  If a sibling decided the track meanwhile, the
\* outcome is dropped.
OutcomeDropped(b) ==
  /\ ~scheduling /\ pc[b] \in {"stepping", "doomed"}
  /\ Decided
  /\ status' = [status EXCEPT ![b] = IF IsOpen(status, b) THEN "cancelled" ELSE @]
  /\ pc' = [pc EXCEPT ![b] = "unwinding"]
  /\ UNCHANGED <<branchVars, plan, queue, joins, recorded, workerVars, trackVars,
                 outerVars, cancelRequested, faults>>

\* Mutant: the join does not count its settlements.
SettleJoinEagerly(b) ==
  LET j == JoinOf(b)
      full == joins[j] # "none"
  IN  /\ recorded' = IF full THEN recorded \cup {b} ELSE recorded
      /\ joins' = IF full THEN [joins EXCEPT ![j] = "posting"] ELSE joins
      /\ pc' = [pc EXCEPT ![b] = IF full THEN "posting" ELSE "unwinding"]

\* enqueueSatisfiedJoins, up to the call of the post continuation: record the
\* settlement and, if it is the last one, await the post continuation.
SettleJoin(b) ==
  LET j == JoinOf(b)
      full == joins[j] = "pending" /\ Kids(j) \subseteq recorded \cup {b}
  IN  /\ recorded' = IF joins[j] = "pending" THEN recorded \cup {b} ELSE recorded
      /\ joins' = IF full THEN [joins EXCEPT ![j] = "posting"] ELSE joins
      /\ pc' = [pc EXCEPT ![b] = IF full THEN "posting" ELSE "unwinding"]

\* Mutant: a late outcome is settled although the track is decided.
OutcomeSettledLate(b, st) ==
  /\ At(b, "stepping")
  /\ st = "done" \/ (st = "failed" /\ Policy(b) = "all-settled")
  /\ status' = [status EXCEPT ![b] = st]
  /\ SettleJoin(b)
  /\ UNCHANGED <<branchVars, plan, queue, workerVars, trackVars, outerVars,
                 cancelRequested, faults>>

\* status "success", and "failure" of an all-settled branch: the outcome is
\* settled and goes to the join.
OutcomeSettled(b, st) ==
  /\ At(b, "stepping") /\ ~Decided
  /\ st = "done" \/ (st = "failed" /\ Policy(b) = "all-settled")
  /\ status' = [status EXCEPT ![b] = st]
  /\ SettleJoin(b)
  /\ UNCHANGED <<branchVars, plan, queue, workerVars, trackVars, outerVars,
                 cancelRequested, faults>>

DecidingStatus ==
  [failure |-> "failed", absoluteFailure |-> "failed", absoluteSuccess |-> "done",
   waiting |-> "waiting", cancelled |-> "cancelled"]

\* An outcome that decides the track: a fail-fast failure, absoluteDone,
\* absoluteFail, an external wait, or the cancellation marker.
OutcomeTerminal(b, verdict) ==
  /\ pc[b] = "stepping" \/ (pc[b] = "doomed" /\ verdict = "cancelled")
  /\ ~scheduling /\ ~Decided
  /\ verdict = "failure" => Policy(b) = "fail-fast"
  /\ verdict = "cancelled" => cancelRequested
  /\ Terminalize([status EXCEPT ![b] = DecidingStatus[verdict]], verdict, b)
  /\ pc' = [pc EXCEPT ![b] = "unwinding"]
  /\ UNCHANGED <<branchVars, plan, joins, recorded, workerVars, outerVars,
                 cancelRequested, faults>>

\* status "split" with candidates that cannot run or whose ids clash: the
\* branch fails now, the track after the branch is persisted.
OutcomeSplitRefused(b) ==
  /\ At(b, "stepping") /\ ~Decided
  /\ status' = [status EXCEPT ![b] = "failed"]
  /\ pc' = [pc EXCEPT ![b] = "refused"]
  /\ UNCHANGED <<branchVars, plan, queue, joins, recorded, workerVars, trackVars,
                 outerVars, cancelRequested, faults>>

RefusedSplitFails(b) ==
  /\ At(b, "refused")
  /\ Terminalize(status, "failure", NoBranch)
  /\ pc' = [pc EXCEPT ![b] = "unwinding"]
  /\ UNCHANGED <<branchVars, plan, joins, recorded, workerVars, outerVars,
                 cancelRequested, faults>>

\* status "split": the branch becomes a split and its step directory is made.
OutcomeSplit(b, s) ==
  /\ At(b, "stepping") /\ ~Decided
  /\ HasRoom(s)
  /\ status' = [status EXCEPT ![b] = "split"]
  /\ plan' = [plan EXCEPT ![b] = s]
  /\ pc' = [pc EXCEPT ![b] = "splitting"]
  /\ UNCHANGED <<branchVars, queue, joins, recorded, workerVars, trackVars,
                 outerVars, cancelRequested, faults>>

\* enqueueBranch for n new branches of p: queued while the track has no
\* terminal result, born cancelled otherwise.
Enqueue(n, p, post) ==
  LET new == created + 1 .. created + n
  IN  /\ created + n <= MaxBranches
      /\ created' = created + n
      /\ parent' = [b \in Branch |-> IF b \in new THEN p ELSE parent[b]]
      /\ isPost' = [b \in Branch |-> IF b \in new THEN post ELSE isPost[b]]
      /\ status' = [b \in Branch |->
                      IF b \notin new THEN status[b]
                      ELSE IF terminal = "none" THEN "queued" ELSE "cancelled"]
      /\ queue' = IF terminal = "none" THEN queue \cup new ELSE queue

\* After the directory is made: enqueue the children and register the join,
\* unless the track got a terminal result (a parked sibling included).
SplitChildren(b) ==
  /\ At(b, "splitting") /\ terminal = "none"
  /\ Enqueue(plan[b].width, b, FALSE)
  /\ joins' = IF plan[b].posts = 0 THEN joins
              ELSE [joins EXCEPT ![<<b, "split">>] = "pending"]
  /\ pc' = [pc EXCEPT ![b] = "unwinding"]
  /\ UNCHANGED <<plan, recorded, workerVars, trackVars, outerVars,
                 cancelRequested, faults>>

SplitAbandoned(b) ==
  /\ At(b, "splitting") /\ terminal # "none"
  /\ status' = [status EXCEPT ![b] = "cancelled"]
  /\ pc' = [pc EXCEPT ![b] = "unwinding"]
  /\ UNCHANGED <<branchVars, plan, queue, joins, recorded, workerVars, trackVars,
                 outerVars, cancelRequested, faults>>

\* The post continuation returned a node: it becomes the post branch, itself
\* joined by the invocation's post when there is one.
PostReturns(b) ==
  LET j == JoinOf(b)
      chained == j[2] = "split" /\ plan[parent[b]].posts = 2
  IN  /\ At(b, "posting")
      /\ Enqueue(1, parent[b], TRUE)
      /\ joins' = [i \in JoinId |-> IF i = j THEN "posted"
                                    ELSE IF chained /\ i = <<created + 1, "after">>
                                         THEN "pending" ELSE joins[i]]
      /\ pc' = [pc EXCEPT ![b] = "unwinding"]
      /\ UNCHANGED <<plan, recorded, workerVars, trackVars, outerVars,
                     cancelRequested, faults>>

PostThrows(b) ==
  /\ At(b, "posting")
  /\ Terminalize(status, "failure", NoBranch)
  /\ joins' = [joins EXCEPT ![JoinOf(b)] = "dropped"]
  /\ pc' = [pc EXCEPT ![b] = "unwinding"]
  /\ UNCHANGED <<branchVars, plan, recorded, workerVars, outerVars,
                 cancelRequested, faults>>

\* reportWorkerFailure: a write failed, or allocateStepIndex ran out of steps.
WorkerThrows(b) ==
  /\ ~scheduling
  /\ pc[b] \in {"starting", "stepping", "splitting", "refused", "unwinding"}
  /\ faults < MaxFaults
  /\ faults' = faults + 1
  /\ Terminalize([status EXCEPT ![b] = "failed"], "failure", b)
  /\ pc' = [pc EXCEPT ![b] = "rejecting"]
  /\ UNCHANGED <<branchVars, plan, joins, recorded, workerVars, outerVars,
                 cancelRequested>>

RejectTrack(b) ==
  /\ At(b, "rejecting")
  /\ promise' = IF promise = "pending" THEN "rejected" ELSE promise
  /\ pc' = [pc EXCEPT ![b] = "leaving"]
  /\ UNCHANGED <<branchVars, status, plan, queue, joins, recorded, workerVars,
                 trackVars, result, cancelRequested, faults>>

\* The worker's finally block: give back its slots and call schedule().
WorkerExits(b) ==
  /\ ~scheduling /\ pc[b] \in {"unwinding", "leaving"}
  /\ pc' = [pc EXCEPT ![b] = "exited"]
  /\ GiveSlot(b)
  /\ scheduling' = TRUE
  /\ UNCHANGED <<branchVars, status, plan, queue, joins, recorded, trackVars,
                 outerVars, cancelRequested, faults>>

-----------------------------------------------------------------------------
(* The entry point, and the operator *)

PublicResult ==
  CASE terminal = "none" -> "completed"
    [] terminal = "absoluteSuccess" -> "success"
    [] terminal = "absoluteFailure" -> "failure"
    [] OTHER -> terminal

\* The promise settled: cancel what is left unless the track parked, persist,
\* and report the first verdict, or completion if there is none.
TrackReturns ==
  /\ ~scheduling /\ promise # "pending" /\ result = "none"
  /\ IF Decided
     THEN status' = CancelOpen(status, terminalBranch) /\ queue' = {}
     ELSE UNCHANGED <<status, queue>>
  /\ result' = PublicResult
  /\ UNCHANGED <<branchVars, plan, joins, recorded, pc, workerVars, trackVars,
                 promise, cancelRequested, faults>>

\* `trailstep cancel` writes the marker.
RequestCancel ==
  /\ ~scheduling /\ ~cancelRequested /\ result = "none"
  /\ cancelRequested' = TRUE
  /\ UNCHANGED <<branchVars, status, plan, queue, joins, recorded, pc, workerVars,
                 trackVars, outerVars, faults>>

\* The run is over: no worker, no turn, and the result returned.
Over ==
  /\ result # "none" /\ active = 0 /\ ~scheduling
  /\ UNCHANGED vars

-----------------------------------------------------------------------------

Outcome(b) ==
  \/ OutcomeDropped(b)
  \/ \E st \in {"done", "failed"} : OutcomeSettled(b, st)
  \/ \E verdict \in Verdict \ {"none"} : OutcomeTerminal(b, verdict)
  \/ OutcomeSplitRefused(b)
  \/ \E s \in SplitPlan : OutcomeSplit(b, s)

WorkerStep(b) ==
  \/ BeginContinuation(b)
  \/ Outcome(b)
  \/ RefusedSplitFails(b)
  \/ SplitChildren(b)
  \/ SplitAbandoned(b)
  \/ PostReturns(b)
  \/ PostThrows(b)
  \/ RejectTrack(b)
  \/ WorkerExits(b)

\* A turn the event loop owes.
Turn ==
  \/ EndTurn
  \/ \E b \in Branch : Dispatch(b) \/ WorkerStep(b)
  \/ TrackReturns

Next ==
  \/ Turn
  \/ \E b \in Branch : WorkerThrows(b)
  \/ RequestCancel
  \/ Over

\* The event loop takes turns as long as one is ready, in any order: it needs
\* every step to settle (a step has its own timeout), but no fair order among
\* the branches.  Throwing and the operator's cancel are not owed.
Fairness == WF_vars(Turn)

Spec == Init /\ [][Next]_vars
FairSpec == Spec /\ Fairness

-----------------------------------------------------------------------------
(* Properties *)

\* Every variable ranges over what the code can store in it.
TypeOK ==
  /\ created \in 1 .. MaxBranches
  /\ status \in [Branch -> BranchStatus]
  /\ parent \in [Branch -> Branch \cup {NoBranch}]
  /\ isPost \in [Branch -> BOOLEAN]
  /\ plan \in [Branch -> PlanType]
  /\ queue \subseteq Branch
  /\ joins \in [JoinId -> {"none", "pending", "posting", "posted", "dropped"}]
  /\ recorded \subseteq Branch
  /\ pc \in [Branch -> Place]
  /\ active \in Nat
  /\ groupActive \in [Branch -> Nat]
  /\ scheduling \in BOOLEAN
  /\ terminal \in Verdict
  /\ terminalBranch \in Branch \cup {NoBranch}
  /\ promise \in {"pending", "resolved", "rejected"}
  /\ result \in {"none", "completed", "success", "failure", "waiting", "cancelled"}
  /\ cancelRequested \in BOOLEAN
  /\ faults \in 0 .. MaxFaults

Busy(b) == pc[b] \in Working
BusyBranches == {b \in Branch : Busy(b)}
BusyIn(g) == {b \in BusyBranches : Group(b) = g}
Settled(b) == status[b] = "done" \/ (status[b] = "failed" /\ Policy(b) = "all-settled")

\* The worker pool: activeWorkers counts the workers that really run, over
\* every way a worker can end, and never passes the configured limit.
PoolBounded == active = Cardinality(BusyBranches) /\ active <= Workers

\* parallel({concurrency}): the counter of each group counts the group's
\* running children and never passes the cap of the split that made it.
GroupsCapped ==
  \A g \in Branch :
    groupActive[g] = Cardinality(BusyIn(g)) /\ groupActive[g] <= plan[g].cap

\* Both counters of the scheduler tell the truth and keep their limits.
SlotsBounded == PoolBounded /\ GroupsCapped

\* Once the track is decided nothing is queued and no branch is left open:
\* neither a sibling that was mid-step, nor one split off or joined after.
DecidedTrackIsClosed ==
  Decided => queue = {} /\ \A b \in 1 .. created : status[b] \in TerminalStatus

\* A track reported as completed lost no branch: each ended well, split, or
\* failed where all-settled tolerates it; none was left queued or parked.
CompletedLostNothing ==
  result = "completed" =>
    queue = {} /\ \A b \in 1 .. created : status[b] = "split" \/ Settled(b)

\* post() runs only after every branch it joins has settled (while no verdict
\* has been reached), whatever order they settle in.
JoinedAfterSettlement ==
  \A j \in JoinId :
    joins[j] \in {"posting", "posted"} /\ terminal = "none" => \A b \in Kids(j) : Settled(b)

\* The scheduler returns with workers still running only when a branch threw;
\* the promise is otherwise resolved by the last worker.
ReturnsIdle == result # "none" /\ active > 0 => promise = "rejected" /\ faults > 0

\* What the scheduler answers holds when it answers: nobody works on unless a
\* branch threw, and a track it calls completed has lost no branch.
AnswerIsWhole == ReturnsIdle /\ CompletedLostNothing

\* A settled branch is never settled again by a later outcome, by a sibling's
\* verdict or by the final sweep; only its own worker throwing overrides it.
SettledStays ==
  [][\A b \in Branch : status[b] \in TerminalStatus =>
        \/ status'[b] = status[b]
        \/ status'[b] = "failed" /\ pc'[b] = "rejecting"]_vars

\* A join is set up, fires and returns (or is dropped) in this order, each once.
JoinMoves ==
  \A j \in JoinId :
    \/ joins'[j] = joins[j]
    \/ <<joins[j], joins'[j]>> \in {<<"none", "pending">>, <<"pending", "posting">>,
                                   <<"posting", "posted">>, <<"posting", "dropped">>}

\* The post continuation of a split is called at most once, however its branches
\* finish together (enqueueSatisfiedJoins, scheduler-branch-runner.ts).
JoinRunsOnce == [][JoinMoves]_vars

\* post() is called once, and only after every branch it joins has settled.
JoinContract == [][JoinMoves /\ JoinedAfterSettlement']_vars

\* The scheduler always comes back, with every worker gone.
Terminates == <>(result # "none" /\ active = 0)

\* The promise to the caller: a branch is an open task while its status is
\* not settled or its worker has not left.
OpenTasks ==
  {b \in 1 .. created : status[b] \in {"queued", "running", "waiting"} \/ Busy(b)}
ReportOf(v) == IF v = "none" THEN "completed"
               ELSE IF v = "absoluteSuccess" THEN "success"
               ELSE IF v = "absoluteFailure" THEN "failure" ELSE v
TrackPromise == INSTANCE Track WITH
  Task <- Branch, Verdicts <- Verdict \ {"none"}, Undecided <- "none", Report <- ReportOf,
  open <- OpenTasks, verdict <- terminal, answer <- result
ImplementsTrack == TrackPromise!Spec

\* Stated by the authoring guide: post() joins the branches once every branch
\* settles; so a completed track has no join that was never run.
EveryJoinRuns == result = "completed" => \A j \in JoinId : joins[j] # "pending"

\* Stated by the authoring guide: under fail-fast a branch failure
\* terminalizes the track immediately.
FailureTerminalizes ==
  \A b \in 1 .. created :
    status[b] = "failed" /\ Policy(b) = "fail-fast" /\ pc[b] # "refused" => Decided

-----------------------------------------------------------------------------
(* The inductive invariant.  TrackSchedulerProofs proves that it is one, and *)
(* derives the properties above from it.                                     *)

\* The places a worker reaches only after its continuation returned and the
\* directory of a split, if any, was made.
Past == {"unwinding", "rejecting", "leaving", "exited"}

\* Nothing is known of a branch before it is created.
UnbornBlank ==
  \A b \in Branch :
    /\ b > created => status[b] = "absent" /\ pc[b] = "idle" /\ parent[b] = NoBranch
    /\ b <= created => status[b] # "absent"

\* The queue holds the queued branches; no worker has them yet.  A branch that
\* never had a worker is queued, or cancelled by a terminal result.
QueueMatches ==
  \A b \in Branch :
    /\ b \in queue <=> status[b] = "queued"
    /\ status[b] = "queued" => pc[b] = "idle"
    /\ pc[b] = "idle" /\ b <= created => status[b] \in {"queued", "cancelled"}

\* What the place of a worker says of its branch and of the track.
PlaceMatches ==
  \A b \in Branch :
    /\ pc[b] \in {"starting", "stepping", "doomed"} /\ ~Decided => status[b] = "running"
    /\ pc[b] = "splitting" => status[b] \in {"split", "cancelled"}
    /\ pc[b] = "splitting" /\ terminal = "none" => status[b] = "split"
    /\ pc[b] = "refused" => status[b] = "failed"
    /\ pc[b] \in {"rejecting", "leaving"} => terminal # "none" /\ faults > 0
    /\ pc[b] \in {"posting", "unwinding", "exited"} /\ terminal = "none" =>
         status[b] = "split" \/ Settled(b)
    /\ status[b] = "cancelled" => terminal # "none"

\* Only a worker that is past its split has children; parents are older.
FamilyTree ==
  \A b \in Branch :
    /\ parent[b] < b
    /\ parent[b] # NoBranch => pc[parent[b]] \in Past
    /\ isPost[b] => parent[b] # NoBranch

\* A join belongs to a branch that exists, and to its split once it is made.
JoinsOwned ==
  \A j \in JoinId :
    joins[j] # "none" => j[1] \in 1 .. created /\ (j[2] = "split" => pc[j[1]] \in Past)

\* A worker that awaits a post continuation is alone at a join that is posting.
PostingAlone ==
  /\ \A b \in Branch : pc[b] = "posting" => joins[JoinOf(b)] = "posting"
  /\ \A b, c \in Branch :
       pc[b] = "posting" /\ pc[c] = "posting" /\ JoinOf(b) = JoinOf(c) => b = c

\* What a join counted is settled, as long as no verdict was reached.
RecordedSettled == terminal = "none" => \A b \in recorded : Settled(b)

\* How the promise and the answer follow the track.
AnswerMatches ==
  /\ promise = "resolved" => active = 0 /\ (queue = {} \/ terminal # "none")
  /\ promise = "rejected" => terminal # "none" /\ faults > 0
  /\ result # "none" => promise # "pending"
  /\ result = "completed" => terminal = "none"

Inv ==
  /\ TypeOK
  /\ UnbornBlank /\ QueueMatches /\ PlaceMatches /\ FamilyTree
  /\ PoolBounded /\ GroupsCapped
  /\ DecidedTrackIsClosed
  /\ JoinsOwned /\ PostingAlone /\ RecordedSettled /\ JoinedAfterSettlement
  /\ AnswerMatches

=============================================================================
