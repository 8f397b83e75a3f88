------------------------------- MODULE RunLock -------------------------------
(***************************************************************************)
(* One run directory, shared by every process that wants to drive the run. *)
(*                                                                         *)
(* packages/core/src/runtime/run-lock/run-lock.ts takes and releases the   *)
(* advisory file run.lock; run-workflow.ts opens a run, takes the lock,    *)
(* drives the run, appends to events.jsonl and gives the lock back on      *)
(* every exit.  Every await between a read of the file system and the use  *)
(* of what was read is a step boundary here.  RunWatch adds the observer.  *)
(*                                                                         *)
(* An attempt is one call of runWorkflow (and the nonce of the lock it     *)
(* writes): Fresh creates the run directory, the others are continues of a *)
(* parked run.  An attempt runs in a process; several attempts may share   *)
(* one.  The answer to a wait is external: whether it is there when the    *)
(* driver looks is a free choice.  Appends to the trail succeed.           *)
(***************************************************************************)
EXTENDS Naturals, Sequences, FiniteSets

CONSTANTS
    Attempt,    \* calls of runWorkflow on this run directory
    Fresh,      \* the call that creates the run directory
    Pid,        \* process ids
    PidOf,      \* the process an attempt runs in
    NoLock,     \* run.lock does not exist
    MaxWaits,   \* bound: durable waits the workflow has
    MaxCrashes  \* bound: processes that die

ASSUME RunLockAssumption ==
    /\ Fresh \in Attempt
    /\ PidOf \in [Attempt -> Pid]
    /\ NoLock \notin Attempt
    /\ MaxWaits \in Nat
    /\ MaxCrashes \in Nat

VARIABLES
    alive,      \* pids that process.kill(pid, 0) finds
    reused,     \* pids given again to an unrelated process: bounds reuse
    lock,       \* content of run.lock: the nonce, or NoLock
    pc,         \* where each attempt stands
    found,      \* what acquireRunLock read from run.lock, while it decides
    previous,   \* events an attempt read before it asked for the lock
    at,         \* the wait a driver is answering, or the last one it passed
    trail,      \* events.jsonl
    leaked,     \* attempts whose unlink failed
    raced       \* two acquisitions have overlapped

vars == <<alive, reused, lock, pc, found, previous, at, trail, leaked, raced>>

files == <<lock, trail, leaked>>
processes == <<alive, reused>>

(***************************************************************************)
(* Stages of an attempt.                                                   *)
(***************************************************************************)
Acquiring == {"deciding", "writing"}       \* inside acquireRunLock, lock read
Driving   == {"locked", "answering", "driving", "parking"}
Releasing == {"releasing", "unlinking"}    \* inside releaseRunLock
Holding   == Driving \cup Releasing
Running   == {"opened", "refusing"} \cup Acquiring \cup Holding
Stage     == Running \cup {"idle", "done", "crashed"}

\* workflow.failed stands for workflow.cancelled too: no reader of the trail in
\* this module or in RunWatch tells them apart.
Terminal == {"workflow.completed", "workflow.failed"}
EventType == Terminal \cup {"workflow.started", "workflow.resumed", "step.completed",
                            "wait.started", "wait.satisfied", "wait.failed"}
Event(type, wait) == [type |-> type, wait |-> wait]
Entry == [type : EventType, wait : 0 .. MaxWaits]

Init ==
    /\ alive = Pid
    /\ reused = {}
    /\ lock = NoLock
    /\ pc = [a \in Attempt |-> "idle"]
    /\ found = [a \in Attempt |-> NoLock]
    /\ previous = [a \in Attempt |-> 0]
    /\ at = [a \in Attempt |-> 0]
    /\ trail = <<>>
    /\ leaked = {}
    /\ raced = FALSE

(***************************************************************************)
(* The trail.                                                              *)
(***************************************************************************)
Emit(type, wait) == trail' = Append(trail, Event(type, wait))

EndsWith(events, type) == events # <<>> /\ events[Len(events)].type = type

HasTerminal(events) == \E i \in DOMAIN events : events[i].type \in Terminal

Completed(events) == \E i \in DOMAIN events : events[i].type = "workflow.completed"

\* wait.started events that no later event of the same wait resolves.
OpenWaits(events) ==
    {i \in DOMAIN events :
        /\ events[i].type = "wait.started"
        /\ ~ \E j \in DOMAIN events :
                /\ j > i
                /\ events[j].type \in {"wait.satisfied", "wait.failed"}
                /\ events[j].wait = events[i].wait}

\* findLatestPendingWait
LatestPendingWait(events) ==
    LET last == CHOOSE i \in OpenWaits(events) : \A j \in OpenWaits(events) : j <= i
    IN  IF OpenWaits(events) = {} THEN 0 ELSE events[last].wait

\* What a continue replays: the events it read before it asked for the lock.
Replayed(a) == SubSeq(trail, 1, previous[a])

\* replayToWaitingStep refuses a completed run and one with no pending wait.
Continuable(events) == ~ Completed(events) /\ LatestPendingWait(events) # 0

(***************************************************************************)
(* Processes.  A lock is live when its pid exists, whoever has that pid.   *)
(***************************************************************************)
IsLive(holder) == holder # NoLock /\ PidOf[holder] \in alive

Up(a) == PidOf[a] \in alive

Crash(p) ==
    /\ p \in alive
    /\ Cardinality(Pid \ alive) + Cardinality(reused) < MaxCrashes
    /\ alive' = alive \ {p}
    /\ pc' = [a \in Attempt |->
                IF PidOf[a] = p /\ pc[a] \in Running THEN "crashed" ELSE pc[a]]
    /\ UNCHANGED <<reused, files, found, previous, at, raced>>

Recycle(p) ==
    /\ p \notin alive
    /\ p \notin reused
    /\ alive' = alive \cup {p}
    /\ reused' = reused \cup {p}
    /\ UNCHANGED <<files, pc, found, previous, at, raced>>

(***************************************************************************)
(* initializeRun: a fresh run makes its directory; a continue reads the    *)
(* whole trail, before it has the lock.                                    *)
(***************************************************************************)
Step(a, from, to) ==
    /\ Up(a)
    /\ pc[a] = from
    /\ pc' = [pc EXCEPT ![a] = to]

Open(a) ==
    /\ Step(a, "idle", "opened")
    /\ a = Fresh \/ pc[Fresh] # "idle"
    /\ previous' = [previous EXCEPT ![a] = Len(trail)]
    /\ UNCHANGED <<processes, files, found, at, raced>>

(***************************************************************************)
(* acquireRunLock: read the file, test the pid, write the file.            *)
(***************************************************************************)
ReadLock(a) ==
    /\ Step(a, "opened", "deciding")
    /\ found' = [found EXCEPT ![a] = lock]
    /\ raced' = (raced \/ \E b \in Attempt : pc[b] \in Acquiring)
    /\ UNCHANGED <<processes, files, previous, at>>

\* Mutant: the pid of the holder is not tested.
TakeItAnyway(a) ==
    /\ Step(a, "deciding", "writing")
    /\ found' = [found EXCEPT ![a] = NoLock]
    /\ UNCHANGED <<processes, files, previous, at, raced>>

TakeIt(a) ==
    /\ ~ IsLive(found[a])
    /\ Step(a, "deciding", "writing")
    /\ found' = [found EXCEPT ![a] = NoLock]
    /\ UNCHANGED <<processes, files, previous, at, raced>>

Held(a) ==
    /\ IsLive(found[a])
    /\ Step(a, "deciding", "refusing")
    /\ found' = [found EXCEPT ![a] = NoLock]
    /\ UNCHANGED <<processes, files, previous, at, raced>>

\* run_already_active: the refusal is written to the trail of the live run.
Refuse(a) ==
    /\ Step(a, "refusing", "done")
    /\ Emit("workflow.failed", 0)
    /\ UNCHANGED <<processes, lock, leaked, found, previous, at, raced>>

WriteLock(a) ==
    /\ Step(a, "writing", "locked")
    /\ lock' = a
    /\ UNCHANGED <<processes, trail, leaked, found, previous, at, raced>>

\* The temporary file or the rename fails: runWorkflow rejects, no event.
WriteLockFails(a) ==
    /\ Step(a, "writing", "done")
    /\ UNCHANGED <<processes, files, found, previous, at, raced>>

(***************************************************************************)
(* runWorkflowBody.                                                        *)
(***************************************************************************)
Start(a) ==
    /\ a = Fresh
    /\ Step(a, "locked", "driving")
    /\ Emit("workflow.started", 0)
    /\ UNCHANGED <<processes, lock, leaked, found, previous, at, raced>>

Resume(a) ==
    /\ a # Fresh
    /\ Continuable(Replayed(a))
    /\ Step(a, "locked", "answering")
    /\ at' = [at EXCEPT ![a] = LatestPendingWait(Replayed(a))]
    /\ Emit("workflow.resumed", LatestPendingWait(Replayed(a)))
    /\ UNCHANGED <<processes, lock, leaked, found, previous, raced>>

\* failResumeValidation: the continue returns, nothing is recorded.
RefuseReplay(a) ==
    /\ a # Fresh
    /\ ~ Continuable(Replayed(a))
    /\ Step(a, "locked", "releasing")
    /\ UNCHANGED <<processes, files, found, previous, at, raced>>

\* handleResumedWaitPhase: no answer file, an answer, an answer that does not fit.
StillUnanswered(a) ==
    /\ Step(a, "answering", "releasing")
    /\ UNCHANGED <<processes, files, found, previous, at, raced>>

Answered(a) ==
    /\ Step(a, "answering", "driving")
    /\ Emit("wait.satisfied", at[a])
    /\ UNCHANGED <<processes, lock, leaked, found, previous, at, raced>>

Misanswered(a) ==
    /\ Step(a, "answering", "driving")
    /\ Emit("wait.failed", at[a])
    /\ UNCHANGED <<processes, lock, leaked, found, previous, at, raced>>

\* A step of the workflow, or of a branch beside a parked one, ends.  Runs of
\* step events are one event here.
StepEnds(a) ==
    /\ Up(a)
    /\ pc[a] \in {"driving", "parking"}
    /\ ~ EndsWith(trail, "step.completed")
    /\ Emit("step.completed", 0)
    /\ UNCHANGED <<processes, lock, leaked, pc, found, previous, at, raced>>

\* The next wait has no answer: the branch parks, its siblings run on.
Park(a) ==
    /\ at[a] < MaxWaits
    /\ Step(a, "driving", "parking")
    /\ at' = [at EXCEPT ![a] = @ + 1]
    /\ Emit("wait.started", at[a] + 1)
    /\ UNCHANGED <<processes, lock, leaked, found, previous, raced>>

\* Mutant: a parked run returns past the finally that releases the lock.
ParkedKeepsLock(a) ==
    /\ Step(a, "parking", "done")
    /\ UNCHANGED <<processes, files, found, previous, at, raced>>

Parked(a) ==
    /\ Step(a, "parking", "releasing")
    /\ UNCHANGED <<processes, files, found, previous, at, raced>>

\* Mutant: the outcome is returned and never recorded.
FinishSilently(a) ==
    /\ Step(a, "driving", "releasing")
    /\ UNCHANGED <<processes, files, found, previous, at, raced>>

\* workflow.completed, or failWorkflow and cancelWorkflow, which the body reaches
\* from any of its awaits.
Finish(a) ==
    /\ \/ Step(a, "driving", "releasing") /\ Emit("workflow.completed", 0)
       \/ /\ \E from \in Driving \ {"parking"} : Step(a, from, "releasing")
          /\ Emit("workflow.failed", 0)
    /\ UNCHANGED <<processes, lock, leaked, found, previous, at, raced>>

(***************************************************************************)
(* releaseRunLock, in the finally of runWorkflow: compare the nonce, then  *)
(* unlink whatever is there.                                               *)
(***************************************************************************)
\* Mutant: the nonce never matches.
CheckNonceNever(a) ==
    /\ Step(a, "releasing", "done")
    /\ UNCHANGED <<processes, files, found, previous, at, raced>>

CheckNonce(a) ==
    /\ Step(a, "releasing", IF lock = a THEN "unlinking" ELSE "done")
    /\ UNCHANGED <<processes, files, found, previous, at, raced>>

Unlink(a) ==
    /\ Step(a, "unlinking", "done")
    /\ lock' = NoLock
    /\ UNCHANGED <<processes, trail, leaked, found, previous, at, raced>>

\* The error is swallowed: the file stays, with the pid of a live process.
UnlinkFails(a) ==
    /\ Step(a, "unlinking", "done")
    /\ leaked' = leaked \cup {a}
    /\ UNCHANGED <<processes, lock, trail, found, previous, at, raced>>

-----------------------------------------------------------------------------
Acquire(a) == ReadLock(a) \/ TakeIt(a) \/ Held(a) \/ Refuse(a) \/ WriteLock(a) \/ WriteLockFails(a)

Drive(a) ==
    \/ Start(a) \/ Resume(a) \/ RefuseReplay(a)
    \/ StillUnanswered(a) \/ Answered(a) \/ Misanswered(a)
    \/ StepEnds(a) \/ Park(a) \/ Parked(a) \/ Finish(a)

Release(a) == CheckNonce(a) \/ Unlink(a) \/ UnlinkFails(a)

Next ==
    \/ \E a \in Attempt : Open(a) \/ Acquire(a) \/ Drive(a) \/ Release(a)
    \/ \E p \in Pid : Crash(p) \/ Recycle(p)

Spec == Init /\ [][Next]_vars

\* What an attempt does of itself.  It need not finish a step, come to a wait or die.
Proceed(a) ==
    \/ Acquire(a) \/ Release(a)
    \/ Start(a) \/ Resume(a) \/ RefuseReplay(a)
    \/ StillUnanswered(a) \/ Answered(a) \/ Misanswered(a)
    \/ Parked(a) \/ Finish(a)

\* A live process gets to run.
Fairness == \A a \in Attempt : WF_vars(Proceed(a))

-----------------------------------------------------------------------------
(***************************************************************************)
(* Properties.                                                             *)
(***************************************************************************)

\* Every variable keeps its shape; a trail entry names an event and a wait.
TypeOK ==
    /\ alive \subseteq Pid
    /\ reused \subseteq Pid
    /\ lock \in Attempt \cup {NoLock}
    /\ pc \in [Attempt -> Stage]
    /\ found \in [Attempt -> Attempt \cup {NoLock}]
    /\ previous \in [Attempt -> 0 .. Len(trail)]
    /\ at \in [Attempt -> 0 .. MaxWaits]
    /\ trail \in Seq(Entry)
    /\ leaked \subseteq Attempt
    /\ raced \in BOOLEAN

\* Only overlapping acquisitions can break the lock: as long as no attempt read
\* run.lock while another stood between its own read and its rename, whoever
\* drives the run owns run.lock and its process is up, so one attempt at most
\* drives it.  Releases, crashes, failed unlinks and recycled pids add nothing.
OneDriver ==
    ~ raced => \A a \in Attempt : pc[a] \in Holding => lock = a /\ Up(a)

\* "Released on EVERY exit path": a lock on disk belongs to an attempt that is
\* still at work, that died with its process, or whose unlink failed.  This
\* holds even when acquisitions race.
LockHasOwner ==
    lock # NoLock => pc[lock] \in Holding \cup {"crashed"} \/ lock \in leaked

\* Again and again run.lock is free or held by nobody alive: no attempt keeps it for
\* good, and no chain of attempts does, unless its process died or the unlink failed.
LockComesFree ==
    []<>(lock # NoLock => lock \in leaked \/ pc[lock] = "crashed")

\* run-lock.ts: "The lock guarantees that only one process drives a run at a time."
MutualExclusion ==
    \A a, b \in Attempt : pc[a] \in Driving /\ pc[b] \in Driving => a = b

\* replay-to-waiting-step.ts: "Continue target is already completed."  Once the
\* trail holds workflow.completed no continue reopens the run.
CompletedIsFinal ==
    [][Completed(trail) => trail' = trail \/ ~ EndsWith(trail', "workflow.resumed")]_vars

-----------------------------------------------------------------------------
(***************************************************************************)
(* The inductive invariant behind OneDriver, LockHasOwner and, in RunWatch,*)
(* the two properties of the verdict "crashed".                            *)
(***************************************************************************)

\* Nothing runs in a dead process.
RunningIsUp == \A a \in Attempt : pc[a] \in Running => Up(a)

\* Without a race acquisitions follow one another.
OneAcquirer ==
    ~ raced => \A a, b \in Attempt : pc[a] \in Acquiring /\ pc[b] \in Acquiring => a = b

\* An attempt that acquires while another drives has read the driver's lock.
AcquirerSawDriver ==
    ~ raced => \A a, b \in Attempt :
        pc[a] \in Acquiring /\ pc[b] \in Holding => pc[a] = "deciding" /\ found[a] = b

\* Waits are numbered from 1.
WaitsNumbered ==
    \A i \in DOMAIN trail : trail[i].type = "wait.started" => trail[i].wait # 0

\* The trail accounts for the run: it ended, it is parked, somebody drives it, or
\* somebody died.
Accounted ==
    \/ \E a \in Attempt : pc[a] \in {"crashed", "driving"}
    \/ trail = <<>>
    \/ HasTerminal(trail)
    \/ OpenWaits(trail) # {}

\* A run parks after its wait is on the trail.
ParkedRecorded == \A a \in Attempt : pc[a] = "parking" => trail # <<>>

LockInv ==
    /\ TypeOK /\ RunningIsUp
    /\ OneAcquirer /\ OneDriver /\ AcquirerSawDriver /\ LockHasOwner
    /\ WaitsNumbered /\ ParkedRecorded /\ Accounted
=============================================================================
