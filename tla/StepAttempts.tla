---------------------------- MODULE StepAttempts ----------------------------
(***************************************************************************)
(* runStepExecution: one step of a workflow, its attempts, its phases and  *)
(* the race of an attempt against the timeout and the cancellation poll.   *)
(*                                                                         *)
(* A visit is one call of runStepExecution for one step id of one run:     *)
(* visits overlap when parallel branches reach the same step, and follow   *)
(* each other when a run is continued.  An attempt that loses its race is  *)
(* not stopped: its promise goes on and may still write to the trail, so   *)
(* attempts are processes of their own.                                    *)
(***************************************************************************)
EXTENDS Naturals, Sequences, FiniteSets

CONSTANTS
    Visit,       \* calls of runStepExecution, numbers in the order they start
    StepConf,    \* step definitions: phases, retry, timeout and handler
    MaxRestarts  \* how often the run is continued in a new command

VARIABLES
    conf,      \* the step's definition
    marker,    \* the cancellation marker file of the run
    restarts,  \* continues so far
    failures,  \* step.attemptFailed events of the step in the trail
    visit,     \* the state of each visit
    work,      \* the state of each attempt's promise
    said,      \* per visit, how often the events the properties count were recorded
    overlap    \* two visits were running at the same time

saVars == <<conf, marker, restarts, failures, visit, work, said, overlap>>

Error == {"transient", "permanent", "timeout", "cancelled"}
Node == {"next", "fail", "split", "absolute", "unsupported", "invalid"}
WaitKind == {"input", "check"}
WaitIds == UNION {{c.phases[i].id : i \in DOMAIN c.phases} : c \in StepConf}
PhaseKind == WaitKind \cup {"prompt", "display", "do"}

\* A step has a phase, its do phase is the last one, and each tier of its retry
\* policy says a number of attempts or nothing.
ASSUME StepConfAssumption ==
    \A c \in StepConf :
        /\ c.phases \in Seq([kind : PhaseKind, id : STRING]) /\ c.phases # <<>>
        /\ \A i \in DOMAIN c.phases : c.phases[i].kind = "do" => i = Len(c.phases)
        /\ c.attempts \in [1..3 -> Nat]
        /\ c.nodes \subseteq Node
        /\ c.idempotent \in BOOLEAN

\* resolveRetryPolicy: the first of step, workflow and global that says it
Unset == 0
Resolve(tiers, builtIn) ==
    LET Said == {i \in DOMAIN tiers : tiers[i] # Unset} IN
    IF Said = {} THEN builtIn ELSE tiers[CHOOSE i \in Said : \A j \in Said : i <= j]
MaxAttempts == Resolve(conf.attempts, 2)

NoVisit == [pc |-> "idle", attempt |-> 0, initial |-> 0, from |-> 1, resumed |-> FALSE,
            outputs |-> {}, error |-> "none", result |-> "none"]
NoWork == [pc |-> "none", at |-> 1, late |-> FALSE, node |-> "none"]
Gone == [NoWork EXCEPT !.pc = "gone"]

SAInit ==
    /\ conf \in StepConf
    /\ marker = FALSE /\ restarts = 0 /\ failures = 0
    /\ visit = [v \in Visit |-> NoVisit]
    /\ work = [a \in Visit \X (1..Resolve(conf.attempts, 2)) |-> NoWork]
    /\ said = [v \in Visit |-> [did |-> 0, failed |-> 0, lateDone |-> 0,
                                satisfied |-> [w \in WaitIds |-> 0]]]
    /\ overlap = FALSE

-----------------------------------------------------------------------------
Phase(a) == conf.phases[work[a].at]
IsLast(a) == work[a].at = Len(conf.phases)
Live(v) == visit[v].pc \notin {"idle", "over"}
Ends(v, r) == visit' = [visit EXCEPT ![v].pc = "over", ![v].result = r, ![v].error = "none"]
RunningAttempt(v) == <<v, visit[v].attempt - visit[v].initial + 1>>
HasPrompt == \E i \in DOMAIN conf.phases : conf.phases[i].kind = "prompt"

\* Mutant: every visit has the whole budget.
CountFromOne(v) ==
    /\ visit[v].pc = "count"
    /\ IF ~visit[v].resumed /\ failures >= MaxAttempts
       THEN /\ Ends(v, "failure")
            /\ said' = [said EXCEPT ![v].failed = @ + 1]
       ELSE /\ visit' = [visit EXCEPT ![v].pc = "begin", ![v].attempt = 1,
                                      ![v].initial = 1]
            /\ UNCHANGED said
    /\ UNCHANGED <<conf, marker, restarts, failures, work, overlap>>

\* readRecordedStepAttempts and the exhaustion check: a fresh visit of a step
\* whose recorded failures use up the budget runs nothing; a visit that
\* resumes a wait does not look
CountAttempts(v) ==
    /\ visit[v].pc = "count"
    /\ IF ~visit[v].resumed /\ failures >= MaxAttempts
       THEN /\ Ends(v, "failure")
            /\ said' = [said EXCEPT ![v].failed = @ + 1]
       ELSE /\ visit' = [visit EXCEPT ![v].pc = "begin", ![v].attempt = failures + 1,
                                      ![v].initial = failures + 1]
            /\ UNCHANGED said
    /\ UNCHANGED <<conf, marker, restarts, failures, work, overlap>>

\* isRetryableStepFailure and shouldRetryStepFailure
Retryable(e) == e \in {"transient", "timeout"} \/ conf.always

\* Mutant: a non-idempotent step is retried like any other.
MayRetryAnything(v) ==
    /\ ~conf.handler
    /\ Retryable(visit[v].error)
    /\ visit[v].attempt < MaxAttempts

\* the catch of the attempt loop
MayRetry(v) ==
    /\ conf.idempotent /\ ~conf.handler
    /\ Retryable(visit[v].error)
    /\ visit[v].attempt < MaxAttempts

HandleFailure(v) ==
    /\ visit[v].pc = "caught"
    /\ \/ /\ visit[v].error = "cancelled"
          /\ Ends(v, "cancelled")
          /\ UNCHANGED <<failures, said>>
       \/ /\ visit[v].error # "cancelled" /\ MayRetry(v)
          /\ failures' = failures + 1
          /\ visit' = [visit EXCEPT ![v].pc = "begin", ![v].attempt = @ + 1]
          /\ UNCHANGED said
       \/ /\ visit[v].error # "cancelled" /\ ~MayRetry(v)
          /\ said' = [said EXCEPT ![v].failed = @ + 1]
          /\ \E r \in {"failure"} \cup (IF conf.handler THEN {"next", "split", "absolute"} ELSE {}) :
                Ends(v, r)
          /\ UNCHANGED failures
    /\ UNCHANGED <<conf, marker, restarts, work, overlap>>

\* runStepAttempt up to the race: the working directory may be refused, and a
\* marker already there cancels before anything runs.  Only the first attempt
\* of a resumed visit starts at the wait it resumes.
BeginAttempt(v) ==
    /\ visit[v].pc = "begin"
    /\ \E e \in {"none", "permanent", "cancelled"} :
          /\ e = "none" => ~marker
          /\ e = "cancelled" => marker
          /\ e = "permanent" => conf.badCwd
          /\ IF e # "none"
             THEN /\ visit' = [visit EXCEPT ![v].pc = "caught", ![v].error = e]
                  /\ UNCHANGED work
             ELSE /\ visit' = [visit EXCEPT ![v].pc = "race"]
                  /\ work' = [work EXCEPT ![RunningAttempt(v)] =
                        [NoWork EXCEPT !.pc = "enter",
                             !.at = IF visit[v].attempt > visit[v].initial THEN 1 ELSE visit[v].from]]
    /\ UNCHANGED <<conf, marker, restarts, failures, said, overlap>>

\* runWithStepControl: the poll of the marker and the timer abandon the attempt
Abandon(v, e) ==
    /\ visit[v].pc = "race"
    /\ visit' = [visit EXCEPT ![v].pc = "caught", ![v].error = e]
    /\ work' = [work EXCEPT ![RunningAttempt(v)].late = TRUE]
    /\ UNCHANGED <<conf, marker, restarts, failures, said, overlap>>

Timeout(v) == conf.timeout /\ Abandon(v, "timeout")
\* Mutant: only a step with a timeout polls the marker.
PollOnTimeout(v) == conf.timeout /\ marker /\ Abandon(v, "cancelled")

Poll(v) == marker /\ Abandon(v, "cancelled")

\* the promise of the attempt settles: the race takes its error, or, when the
\* attempt was abandoned, reports and drops it
Throws(a, e) ==
    /\ work' = [work EXCEPT ![a] = Gone]
    /\ visit' = IF work[a].late THEN visit
                ELSE [visit EXCEPT ![a[1]].pc = "caught", ![a[1]].error = e]

TimedOut(a) == work[a].late /\ conf.timeout

-----------------------------------------------------------------------------
\* runStepPhases: before each phase the marker is read
EnterPhase(a) ==
    /\ work[a].pc = "enter"
    /\ IF marker THEN Throws(a, "cancelled")
       ELSE /\ work' = [work EXCEPT ![a].pc =
                           IF Phase(a).kind \in WaitKind /\ Phase(a).id \in visit[a[1]].outputs
                           THEN "leave" ELSE "in"]
            /\ UNCHANGED visit
    /\ said' = IF ~marker /\ Phase(a).kind = "do"
               THEN [said EXCEPT ![a[1]].did = @ + 1] ELSE said
    /\ UNCHANGED <<conf, marker, restarts, failures, overlap>>

\* a phase's own work fails: a provider, a schema, a display or do callback
FailPhase(a) ==
    /\ work[a].pc = "in" /\ Phase(a).kind \notin WaitKind
    /\ \E e \in {"transient", "permanent"} : Throws(a, e)
    /\ UNCHANGED <<conf, marker, restarts, failures, said, overlap>>

\* a wait definition, a check result or an answer that does not validate
RejectWait(a) ==
    /\ work[a].pc = "in" /\ Phase(a).kind \in WaitKind
    /\ Throws(a, "permanent")
    /\ UNCHANGED <<conf, marker, restarts, failures, said, overlap>>

Parks(a) == work' = [work EXCEPT ![a].pc = "park"] /\ UNCHANGED said
Satisfies(a) ==
    /\ work' = [work EXCEPT ![a].pc = "leave"]
    /\ said' = [said EXCEPT ![a[1]].satisfied[Phase(a).id] = @ + 1]

\* handleWaitPhase and handleResumedWaitPhase: an answer that is not there yet
\* parks the step, one that is there is recorded as wait.satisfied
FinishInputWait(a) ==
    /\ work[a].pc = "in" /\ Phase(a).kind = "input"
    /\ Parks(a) \/ Satisfies(a)
    /\ UNCHANGED <<conf, marker, restarts, failures, visit, overlap>>

\* handleCheckWaitPhase: the author's callback says pending or done
FinishCheckWait(a) ==
    /\ work[a].pc = "in" /\ Phase(a).kind = "check"
    /\ Parks(a) \/ Satisfies(a)
    /\ UNCHANGED <<conf, marker, restarts, failures, visit, overlap>>

\* dispatchPrompt: the answer of an abandoned dispatch is discarded when the
\* step has a timeout; otherwise step.completed is recorded
FinishPrompt(a) ==
    /\ work[a].pc = "in" /\ Phase(a).kind = "prompt"
    /\ IF TimedOut(a) THEN Throws(a, "timeout") /\ UNCHANGED said
       ELSE /\ work' = [work EXCEPT ![a].pc = "leave"]
            /\ said' = IF work[a].late THEN [said EXCEPT ![a[1]].lateDone = @ + 1] ELSE said
            /\ UNCHANGED visit
    /\ UNCHANGED <<conf, marker, restarts, failures, overlap>>

\* emitDisplay and phase.onOutput
FinishOther(a) ==
    /\ work[a].pc = "in" /\ Phase(a).kind \in {"display", "do"}
    /\ \E n \in IF Phase(a).kind = "do" THEN conf.nodes ELSE {"none"} :
          work' = [work EXCEPT ![a].pc = "leave", ![a].node = n]
    /\ UNCHANGED <<conf, marker, restarts, failures, visit, said, overlap>>

\* Mutant: the answer is not kept for the next attempt.
LeavePhaseForgetting(a) ==
    /\ work[a].pc = "leave" /\ ~IsLast(a)
    /\ LET keep == [visit EXCEPT ![a[1]].outputs =
                       @]
           e == IF marker THEN "cancelled" ELSE IF TimedOut(a) THEN "timeout" ELSE "none"
       IN  IF e = "none"
           THEN /\ work' = [work EXCEPT ![a].pc = "enter", ![a].at = @ + 1]
                /\ visit' = keep
           ELSE /\ work' = [work EXCEPT ![a] = Gone]
                /\ visit' = IF work[a].late THEN keep
                            ELSE [keep EXCEPT ![a[1]].pc = "caught", ![a[1]].error = e]
    /\ UNCHANGED <<conf, marker, restarts, failures, said, overlap>>

\* after a phase: the answer of a wait is kept for the attempts to come, then
\* the marker and the timeout are looked at
LeavePhase(a) ==
    /\ work[a].pc = "leave" /\ ~IsLast(a)
    /\ LET keep == [visit EXCEPT ![a[1]].outputs =
                       IF Phase(a).kind \in WaitKind THEN @ \cup {Phase(a).id} ELSE @]
           e == IF marker THEN "cancelled" ELSE IF TimedOut(a) THEN "timeout" ELSE "none"
       IN  IF e = "none"
           THEN /\ work' = [work EXCEPT ![a].pc = "enter", ![a].at = @ + 1]
                /\ visit' = keep
           ELSE /\ work' = [work EXCEPT ![a] = Gone]
                /\ visit' = IF work[a].late THEN keep
                            ELSE [keep EXCEPT ![a[1]].pc = "caught", ![a[1]].error = e]
    /\ UNCHANGED <<conf, marker, restarts, failures, said, overlap>>

\* a step that waits for an answer ends its visit without a verdict
ParkStep(a) ==
    /\ work[a].pc = "park"
    /\ IF marker THEN Throws(a, "cancelled")
       ELSE /\ work' = [work EXCEPT ![a] = Gone]
            /\ visit' = IF work[a].late THEN visit
                        ELSE [visit EXCEPT ![a[1]].pc = "over", ![a[1]].result = "waiting",
                                           ![a[1]].from = work[a].at]
    /\ UNCHANGED <<conf, marker, restarts, failures, said, overlap>>

\* the do phase is over: step.failed for a fail node, step.completed for a step
\* without a prompt, written before the race can see the result
Conclude(a) ==
    /\ work[a].pc = "leave" /\ IsLast(a)
    /\ IF marker \/ TimedOut(a)
       THEN Throws(a, IF marker THEN "cancelled" ELSE "timeout") /\ UNCHANGED said
       ELSE /\ work' = [work EXCEPT ![a].pc = "returned"]
            /\ UNCHANGED visit
            /\ said' = [said EXCEPT
                    ![a[1]].failed = IF work[a].node = "fail" THEN @ + 1 ELSE @,
                    ![a[1]].lateDone =
                        IF work[a].node # "fail" /\ ~HasPrompt /\ work[a].late THEN @ + 1 ELSE @]
    /\ UNCHANGED <<conf, marker, restarts, failures, overlap>>

\* the result of the race: runStepAttempt turns the node into an outcome
ReturnNode(a) ==
    /\ work[a].pc = "returned"
    /\ work' = [work EXCEPT ![a] = Gone]
    /\ LET n == work[a].node
           bad == n \in {"unsupported", "invalid"}
       IN  IF work[a].late THEN UNCHANGED <<visit, said>>
           ELSE /\ Ends(a[1], IF n = "fail" \/ bad THEN "failure" ELSE n)
                /\ said' = IF bad THEN [said EXCEPT ![a[1]].failed = @ + 1] ELSE said
    /\ UNCHANGED <<conf, marker, restarts, failures, overlap>>

-----------------------------------------------------------------------------
\* the callers: a branch reaches the step, a continue resumes its wait
MayStart(v) ==
    /\ visit[v].pc = "idle" /\ \A u \in Visit : u < v => visit[u].pc # "idle"
    /\ ~marker
    /\ conf.parallel \/ \A u \in Visit : ~Live(u)

StartVisit(v) ==
    /\ MayStart(v)
    /\ visit' = [visit EXCEPT ![v].pc = "count"]
    /\ overlap' = (overlap \/ \E u \in Visit : Live(u))
    /\ UNCHANGED <<conf, marker, restarts, failures, work, said>>

ResumeVisit(v, u) ==
    /\ MayStart(v)
    /\ visit[u].pc = "over" /\ visit[u].result = "waiting"
    /\ visit' = [visit EXCEPT ![v] = [NoVisit EXCEPT !.pc = "count", !.resumed = TRUE,
                                        !.from = visit[u].from, !.outputs = visit[u].outputs],
                              ![u].result = "resumed"]
    /\ said' = [said EXCEPT ![v].satisfied = said[u].satisfied]
    /\ overlap' = (overlap \/ \E w \in Visit : Live(w))
    /\ UNCHANGED <<conf, marker, restarts, failures, work>>

Cancel ==
    /\ ~marker /\ \E v \in Visit : Live(v)
    /\ marker' = TRUE
    /\ UNCHANGED <<conf, restarts, failures, visit, work, said, overlap>>

\* a continue of a cancelled run removes the marker; promises abandoned by the
\* earlier driver may still be running
ContinueCancelled ==
    /\ marker /\ restarts < MaxRestarts /\ \A v \in Visit : ~Live(v)
    /\ marker' = FALSE /\ restarts' = restarts + 1
    /\ UNCHANGED <<conf, failures, visit, work, said, overlap>>

\* the driver dies: nothing of it goes on, the trail stays
CrashRun ==
    /\ restarts < MaxRestarts /\ \E v \in Visit : Live(v)
    /\ restarts' = restarts + 1
    /\ visit' = [v \in Visit |-> IF Live(v) THEN [visit[v] EXCEPT !.pc = "over"] ELSE visit[v]]
    /\ work' = [a \in DOMAIN work |-> IF work[a].pc = "none" THEN NoWork
                                      ELSE Gone]
    /\ UNCHANGED <<conf, marker, failures, said, overlap>>

Promise(a) ==
    \/ EnterPhase(a) \/ FailPhase(a) \/ RejectWait(a)
    \/ FinishInputWait(a) \/ FinishCheckWait(a) \/ FinishPrompt(a) \/ FinishOther(a)
    \/ LeavePhase(a) \/ ParkStep(a) \/ Conclude(a) \/ ReturnNode(a)
Control(v) == CountAttempts(v) \/ BeginAttempt(v) \/ HandleFailure(v)

SANext ==
    \/ \E v \in Visit : \/ StartVisit(v) \/ Control(v) \/ Timeout(v) \/ Poll(v)
                        \/ \E u \in Visit : ResumeVisit(v, u)
    \/ \E a \in DOMAIN work : Promise(a)
    \/ Cancel \/ ContinueCancelled \/ CrashRun

SASpec == SAInit /\ [][SANext]_saVars

\* the event loop and the 100 ms poll always come back; a phase need not end
SAFairness == \A v \in Visit : WF_saVars(Control(v)) /\ WF_saVars(Poll(v))

-----------------------------------------------------------------------------
SATypeOK ==
    /\ conf \in StepConf /\ marker \in BOOLEAN /\ overlap \in BOOLEAN
    /\ restarts \in 0..MaxRestarts /\ failures \in Nat
    /\ \A v \in Visit :
          /\ visit[v].pc \in {"idle", "count", "begin", "race", "caught", "over"}
          /\ visit[v].error \in Error \cup {"none"}
          /\ visit[v].result \in Node \cup {"none", "failure", "cancelled", "waiting", "resumed"}
          /\ visit[v].outputs \subseteq WaitIds
    /\ \A a \in DOMAIN work :
          /\ work[a].pc \in {"none", "enter", "in", "leave", "park", "returned", "gone"}
          /\ work[a].at \in DOMAIN conf.phases
          /\ work[a].late \in BOOLEAN /\ work[a].node \in Node \cup {"none"}

\* A step marked non-idempotent is executed at most once by a visit: no retry,
\* no late promise and no resumed wait makes its do phase run again
\* (run-step-execution.ts:102, "must never happen silently").
NonIdempotentRunsOnce ==
    ~conf.idempotent => \A v \in Visit : said[v].did <= 1

\* A visit records nothing twice: without a timeout no answer, whichever attempt
\* of the visit, or of the visit it resumes, met the wait first
\* (run-step-execution.ts:114); with one no completion, since an attempt that
\* lost its race never reports the step completed, however long its promise
\* goes on (step-attempt.ts:187).
AnswersRecordedOnce ==
    \A v \in Visit :
        IF conf.timeout THEN said[v].lateDone = 0
        ELSE \A w \in WaitIds : said[v].satisfied[w] <= 1

\* Visits of a step that follow each other, across crashes and continues,
\* record together fewer failed attempts than the budget allows: the recount
\* from the trail gives no visit a budget of its own (retry-policy.ts:57).
BudgetIsTheRuns ==
    ~overlap => failures < MaxAttempts

\* A cancellation ends every running visit, even one whose phase hangs and one
\* that is between two attempts (step-control.ts:80).
CancelEndsVisit == (marker /\ \E v \in Visit : Live(v)) ~> \A v \in Visit : ~Live(v)
=============================================================================
