----------------------------- MODULE RunCycles -----------------------------
(***************************************************************************)
(* A run of a workflow without parallel tracks, from command to command:   *)
(* the driver (run-workflow.ts and, step by step, run-step-execution.ts)   *)
(* writes the trail; continue, retry and resume open the run again and     *)
(* rebuild, from the trail alone, the node it stopped at; cancel and       *)
(* answer come from other processes.                                       *)
(*                                                                         *)
(* A node is a step and its input.  The author's code is a program: the    *)
(* phases of each step and, for what its do phase is given (the answer of  *)
(* the last wait, else the output of the prompt, else the input), the step *)
(* it goes on to.  Do phases are deterministic; a do phase that is not     *)
(* given the answer it reads throws.                                       *)
(***************************************************************************)
EXTENDS Naturals, Sequences, FiniteSets

Trail == INSTANCE RunSummaries

CONSTANTS
    Program,     \* the workflows: step -> [phases, to, onError]
    StartStep,   \* the step workflow.start returns
    MaxTries,    \* retryPolicy.maxAttempts
    MaxTrail,    \* bound on the trail the driver may write
    MaxOpens,    \* bound on the commands that open the run
    MaxCancels   \* bound on cancel commands

Value == {1, 2}
WaitId == {"u", "w"}
Unanswered == [w \in WaitId |-> 0]
AtStart == [step |-> StartStep, input |-> 1]
Done == "done"

\* A step takes one prompt and ends in its do phase (the builders of
\* step-node.ts:76), and a second wait with the same id throws (step-phases.ts:90).
Phase == {"prompt", "do", "once"} \cup WaitId
WellBuilt(p) ==
    /\ StartStep \in DOMAIN p /\ DOMAIN p \cap {"none", Done, "threw", "refused"} = {}
    /\ \A s \in DOMAIN p :
        /\ p[s] \in [phases : Seq(Phase), to : [Value -> DOMAIN p \cup {Done}],
                     onError : DOMAIN p \cup {"none"}]
        /\ p[s].phases # <<>>
        /\ \A i, j \in DOMAIN p[s].phases : p[s].phases[i] = p[s].phases[j] => i = j
        /\ \A i \in DOMAIN p[s].phases : p[s].phases[i] \in {"do", "once"} <=> i = Len(p[s].phases)
ASSUME ProgramAssumption == \A p \in Program : WellBuilt(p)
ASSUME MaxTriesAssumption == MaxTries \in Nat \ {0}
ASSUME BoundsAssumption == MaxTrail \in Nat /\ MaxOpens \in Nat /\ MaxCancels \in Nat

VARIABLES
    prog,     \* the workflow
    trail,    \* events.jsonl
    run,      \* the driver; what it last knew stays when it stops
    answers,  \* answer files: step index, wait id and value
    request,  \* the cancellation marker file
    opening,  \* the command that is opening the run, and the trail it has read
    cancel,   \* the cancel command: how much of the trail it has read, 0 for none
    used,     \* opens and cancels so far
    strayed,  \* the first command whose replay did not reach where the run stopped
    late      \* a cancel command and the end of the run overlapped

rcVars == <<prog, trail, run, answers, request, opening, cancel, used, strayed, late>>

Steps == DOMAIN prog
Phases(p, s) == p[s].phases
Has(p, s, kinds) == \E i \in DOMAIN Phases(p, s) : Phases(p, s)[i] \in kinds
NonIdempotent(p, s) == Has(p, s, {"once"})
Ev(type, step, out, wait, index) ==
    [type |-> type, step |-> step, out |-> out, wait |-> wait, index |-> index, source |-> 0]
OfRun(type) == Ev(type, "none", 0, "none", 0)

NotOpening == [kind |-> "none", read |-> 0]
RCInit ==
    /\ prog \in Program
    /\ trail = <<OfRun("workflow.started")>>
    /\ run = [pc |-> "step", node |-> AtStart, at |-> 1, value |-> 1,
              waits |-> Unanswered, index |-> 0]
    /\ answers = {} /\ request = FALSE
    /\ opening = NotOpening /\ cancel = 0
    /\ used = [opens |-> 0, cancels |-> 0] /\ strayed = "none" /\ late = FALSE

-----------------------------------------------------------------------------
\* the do phase of a step: the node it returns, or what it throws
Threw == [step |-> "threw", input |-> 1]
Refused == [step |-> "refused", input |-> 1]
Waits(p, s) == {i \in DOMAIN Phases(p, s) : Phases(p, s)[i] \in WaitId}
DoPhase(p, s, value, waits) ==
    LET v == IF Waits(p, s) = {} THEN value ELSE waits[Phases(p, s)[Trail!Latest(Waits(p, s))]]
    IN  IF v = 0 THEN Threw ELSE [step |-> p[s].to[v], input |-> v]

\* readRecordedStepAttempts
FailedAttempts(e, s) == Cardinality({i \in DOMAIN e : e[i].type = "step.attemptFailed" /\ e[i].step = s})
Starts(e) == {i \in DOMAIN e : e[i].type = "step.started"}

\* A replay reads the events at the kept positions of a trail.
\* pairCompletedStepAttempts: an end of a step closes its latest open start; an
\* end that finds none open is passed over
OpenStarts(e, kept, s) ==
    LET open[i \in 0..Len(e)] ==
            IF i = 0 THEN {}
            ELSE IF i \notin kept \/ e[i].step # s THEN open[i - 1]
            ELSE IF e[i].type = "step.started" THEN open[i - 1] \cup {i}
            ELSE IF e[i].type \in Trail!StepEnd THEN open[i - 1] \ {Trail!Latest(open[i - 1])}
            ELSE open[i - 1]
    IN  open
StartOf(e, kept, i) == Trail!Latest(OpenStarts(e, kept, e[i].step)[i - 1])
CompletedAttempt(e, kept, i) ==
    i \in kept /\ e[i].type = "step.completed" /\ StartOf(e, kept, i) # 0

\* readCompletedStepWaitOutputs
SatisfiedBetween(e, kept, s, from, to) ==
    {i \in kept : from < i /\ i < to /\ e[i].type = "wait.satisfied" /\ e[i].step = s}
TwiceSatisfied(e, S) == \E i, j \in S : i # j /\ e[i].wait = e[j].wait
Outputs(e, S) ==
    [w \in WaitId |-> IF \E i \in S : e[i].wait = w
                      THEN e[CHOOSE i \in S : e[i].wait = w].out ELSE 0]

\* replayStepPhases: the do phase runs again, on what the trail recorded
ReplayStep(p, e, kept, node, i) ==
    LET S == SatisfiedBetween(e, kept, node.step, StartOf(e, kept, i), i)
    IN  IF TwiceSatisfied(e, S) THEN Refused
        ELSE DoPhase(p, node.step,
                     IF Has(p, node.step, {"prompt"}) THEN e[i].out ELSE node.input, Outputs(e, S))

\* nonIdempotentReplayRefusal
FailedOnRecord(e, kept, s) ==
    \E i \in kept : e[i].type \in {"step.failed", "step.attemptFailed"} /\ e[i].step = s

\* replayCompletedSteps
Advance(p, e, kept, node, i) ==
    IF node \in {Threw, Refused} THEN node
    ELSE IF node.step = Done \/ node.step # e[i].step THEN Refused
    ELSE IF NonIdempotent(p, node.step) THEN Refused
    ELSE ReplayStep(p, e, kept, node, i)
Reached(p, e, kept) ==
    LET reached[i \in 0..Len(e)] ==
            IF i = 0 THEN AtStart
            ELSE IF CompletedAttempt(e, kept, i) THEN Advance(p, e, kept, reached[i - 1], i)
            ELSE reached[i - 1]
    IN  reached
ReplayCompleted(p, e, kept, target) ==
    LET end == Reached(p, e, kept)[Len(e)]
    IN  IF end = Threw THEN Threw
        ELSE IF end.step # target THEN Refused
        ELSE IF NonIdempotent(p, target) /\ FailedOnRecord(e, kept, target) THEN Refused
        ELSE end

-----------------------------------------------------------------------------
\* eventsBeforeRetryTarget: the completions of attempts an earlier retry took
\* up again are left out, and those of the attempt that is retried now; starts
\* and the other ends stay, to pair as they did
ResolvedAttempt(e, at) ==
    LET S == {i \in Starts(e) : i <= at /\ e[i].step = e[at].step}
    IN  (IF S = {} THEN at ELSE Trail!Latest(S)) .. at
\* Mutant: the output of the attempt that is retried is replayed.
KeptWithOwnOutput(e, target) ==
    LET before == 1 .. target - 1
        excluded == UNION {ResolvedAttempt(e, e[r].source) :
                        r \in {r \in before : e[r].type = "workflow.retryStarted"
                                              /\ e[r].source \in 1 .. target - 1}}
        start == Trail!Latest({i \in Starts(e) : i < target /\ i \notin excluded
                                                 /\ e[i].step = e[target].step})
        Resolved(i) == i \in excluded
                       /\ e[i].type \notin {"step.started", "step.failed", "step.cancelled"}
        OwnOutput(i) == /\ e[target].type # "step.started" /\ start # 0 /\ i > start
                        /\ e[i].type = "step.completed" /\ e[i].step = e[target].step
    IN  {i \in before : ~Resolved(i)}

KeptEvents(e, target) ==
    LET before == 1 .. target - 1
        excluded == UNION {ResolvedAttempt(e, e[r].source) :
                        r \in {r \in before : e[r].type = "workflow.retryStarted"
                                              /\ e[r].source \in 1 .. target - 1}}
        start == Trail!Latest({i \in Starts(e) : i < target /\ i \notin excluded
                                                 /\ e[i].step = e[target].step})
        Resolved(i) == i \in excluded
                       /\ e[i].type \notin {"step.started", "step.failed", "step.cancelled"}
        OwnOutput(i) == /\ e[target].type # "step.started" /\ start # 0 /\ i > start
                        /\ e[i].type = "step.completed" /\ e[i].step = e[target].step
    IN  {i \in before : ~Resolved(i) /\ ~OwnOutput(i)}

\* replayToRetryFailure
RetryFailure(p, e) ==
    LET target == Trail!LatestUnresolvedFailure(e)
    IN  IF target = 0 \/ e[target].step = "none" THEN Refused
        ELSE LET node == ReplayCompleted(p, e, KeptEvents(e, target), e[target].step)
             IN  IF node \in {Refused, Threw} THEN node
                 ELSE IF NonIdempotent(p, node.step) /\ FailedOnRecord(e, DOMAIN e, node.step) THEN Refused
                 ELSE IF p[node.step].onError # "none" THEN Refused
                 ELSE node

\* replayToCancelledStep, of the last step cancelled in this cycle
Reopening == {"workflow.resumed", "workflow.retryStarted"}
CycleStart(e) == Trail!Latest(Trail!Positions(e, Reopening)) + 1
Cycle(e) == SubSeq(e, CycleStart(e), Len(e))
CancelledStep(e) ==
    Trail!Latest({i \in Trail!Positions(e, {"step.cancelled"}) : i >= CycleStart(e)})
RetryCancelled(p, e) ==
    LET c == CancelledStep(e)
        start == Trail!Latest({i \in Starts(e) : i <= c /\ e[i].step = e[c].step})
    IN  IF c = 0 THEN Refused
        ELSE IF start = 0 THEN Refused
        ELSE ReplayCompleted(p, e, 1 .. start - 1, e[c].step)

\* replayToFailedStep
ResumeFailed(p, e) ==
    LET failed == Trail!Positions(e, {"step.failed"})
        recovered == \E i \in failed : \E j \in DOMAIN e :
                        j > i /\ e[j].type = "step.completed" /\ e[j].step = e[i].step
    IN  IF e[Len(e)].type # "workflow.failed" \/ recovered \/ Cardinality(failed) # 1 THEN Refused
        ELSE LET target == e[CHOOSE i \in failed : TRUE].step
                 node == ReplayCompleted(p, e, DOMAIN e, target)
             IN  IF node \notin {Refused, Threw} /\ p[target].onError # "none" THEN Refused ELSE node

\* findPendingWaitsById and findLatestPendingWait: a wait is its answer file
Resolves(e, j, i) == /\ j > i /\ e[j].type \in {"wait.satisfied", "wait.failed"}
                     /\ e[j].wait = e[i].wait /\ e[j].index = e[i].index
PendingWaits(e) == {i \in DOMAIN e : e[i].type = "wait.started" /\ ~\E j \in DOMAIN e : Resolves(e, j, i)}
\* Mutant: the first wait without an answer is continued.
FirstPendingWait(e) == IF PendingWaits(e) = {} THEN 0 ELSE CHOOSE i \in PendingWaits(e) : \A j \in PendingWaits(e) : i <= j

PendingWait(e) == Trail!Latest(PendingWaits(e))

\* replayWaitingStepPrefix: the phases before the wait, on the first outputs
\* recorded since the step started
NoPlace == [node |-> Refused, at |-> 1, value |-> 1, waits |-> Unanswered, index |-> 0]
Prefix(p, e, node, start, w) ==
    LET phases == Phases(p, node.step)
        at == CHOOSE i \in DOMAIN phases : phases[i] = e[w].wait
        done == {i \in start + 1 .. w - 1 : e[i].type = "step.completed" /\ e[i].step = node.step}
        S == SatisfiedBetween(e, DOMAIN e, node.step, start, w)
        asks == \E i \in 1 .. at - 1 : phases[i] = "prompt"
        waited == Cardinality({i \in 1 .. at - 1 : phases[i] \in WaitId})
    IN  IF (asks /\ done = {}) \/ Cardinality(S) < waited \/ TwiceSatisfied(e, S) THEN NoPlace
        ELSE [node |-> node, at |-> at, index |-> e[w].index, waits |-> Outputs(e, S),
              value |-> IF asks THEN e[CHOOSE i \in done : \A j \in done : i <= j].out
                        ELSE node.input]

\* findStepStartedIndex: the step index of a wait counts the starts of the run
StartAt(e, index) == CHOOSE i \in Starts(e) : Cardinality({j \in Starts(e) : j <= i}) = index

\* replayToWaitingStep
ContinueWait(p, e) ==
    LET w == PendingWait(e)
        start == StartAt(e, e[w].index)
        node == ReplayCompleted(p, e, 1 .. start - 1, e[w].step)
    IN  IF w = 0 \/ Trail!Positions(e, {"workflow.completed"}) # {} THEN NoPlace
        ELSE IF node \in {Refused, Threw} THEN [NoPlace EXCEPT !.node = node]
        ELSE Prefix(p, e, node, start, w)

-----------------------------------------------------------------------------
\* the commands that open a run
MayOpen == run.pc = "off" /\ opening.kind = "none" /\ used.opens < MaxOpens /\ Len(trail) < MaxTrail
Answered(e) == \E a \in answers : a.index = e[PendingWait(e)].index /\ a.wait = e[PendingWait(e)].wait

\* continueWaitingRun: the marker goes first; then a run without a pending wait
\* or without its answer is left as it is
AskContinue ==
    /\ MayOpen
    /\ used' = [used EXCEPT !.opens = @ + 1]
    /\ request' = FALSE
    /\ opening' = IF PendingWait(trail) = 0 THEN opening
                  ELSE IF ~Answered(trail) THEN opening
                  ELSE [kind |-> "continue", read |-> Len(trail)]
    /\ UNCHANGED <<prog, trail, run, answers, cancel, strayed, late>>

\* the retry command and runWorkflow({resume}); initializeRun reads the trail
AskRetry ==
    /\ MayOpen
    /\ used' = [used EXCEPT !.opens = @ + 1]
    /\ request' = FALSE
    /\ opening' = [kind |-> "retry", read |-> Len(trail)]
    /\ UNCHANGED <<prog, trail, run, answers, cancel, strayed, late>>

\* listEligibleRetryRuns: the retry command without a run offers those with a
\* failure nothing resolved
Offered(e) == Trail!LatestUnresolvedFailure(e) # 0
SelectRetry == Offered(trail) /\ AskRetry

AskResume ==
    /\ MayOpen
    /\ used' = [used EXCEPT !.opens = @ + 1]
    /\ opening' = [kind |-> "resume", read |-> Len(trail)]
    /\ UNCHANGED <<prog, trail, run, answers, request, cancel, strayed, late>>

Previous == SubSeq(trail, 1, opening.read)
At(place, pc) == [pc |-> pc, node |-> place.node, at |-> place.at, value |-> place.value,
                  waits |-> place.waits, index |-> place.index]
Fresh(node) == [NoPlace EXCEPT !.node = node, !.value = node.input]

\* the replay: a retry is another one when the last cycle was cancelled
Way == IF opening.kind = "retry" /\ Trail!TerminalStatus(Cycle(Previous)) = "cancelled"
       THEN "cancelled" ELSE opening.kind

\* what the replay of the opening command reaches
Place ==
    LET e == Previous
    IN  CASE Way = "continue" -> ContinueWait(prog, e)
          [] Way = "resume" -> Fresh(ResumeFailed(prog, e))
          [] Way = "cancelled" -> Fresh(RetryCancelled(prog, e))
          [] Way = "retry" -> Fresh(RetryFailure(prog, e))

\* the replay reaches another node than the one the run stopped at, or takes
\* the attempt it stopped in up at another place
Strays(to) ==
    \/ to.node # run.node
    \/ /\ opening.kind = "continue" /\ to.index = run.index
       /\ <<to.at, to.value, to.waits>> # <<run.at, run.value, run.waits>>

\* what the command takes up is not the last attempt of the run: an attempt
\* started or, for a continue, a retry gave it up since
Superseded(to) ==
    LET e == Previous
        last == Trail!Latest(Starts(e))
    IN  \/ /\ Way = "continue"
           /\ \/ to.index # Cardinality(Starts(e))
              \/ \E r \in Trail!Positions(e, {"workflow.retryStarted"}) : r > last
        \/ Way = "retry" /\ Trail!LatestUnresolvedFailure(e) < last

ReopenEvent ==
    CASE Way = "retry" -> [OfRun("workflow.retryStarted") EXCEPT
                              !.source = Trail!LatestUnresolvedFailure(Previous)]
      [] Way = "cancelled" -> OfRun("workflow.retryStarted")
      [] OTHER -> OfRun("workflow.resumed")

\* runWorkflowBody up to the event that reopens the run.  A replay that fails
\* leaves the trail alone; one that throws records workflow.failed.
Reopen ==
    /\ opening.kind # "none"
    /\ request' = FALSE
    /\ opening' = NotOpening
    /\ LET to == Place IN
       /\ trail' = CASE to.node = Refused -> trail
                     [] to.node = Threw -> Append(trail, OfRun("workflow.failed"))
                     [] OTHER -> Append(trail, ReopenEvent)
       /\ IF to.node \in {Refused, Threw} THEN UNCHANGED <<run, strayed>>
          ELSE /\ strayed' = CASE strayed # "none" -> strayed
                               [] strayed = "none" /\ Superseded(to) -> "superseded"
                               [] OTHER -> IF Strays(to) THEN Way ELSE "none"
               /\ run' = At(to, IF opening.kind = "continue" THEN "phase" ELSE "step")
    /\ UNCHANGED <<prog, answers, cancel, used, late>>

-----------------------------------------------------------------------------
\* the driver
Driving == run.pc # "off" /\ opening.kind = "none" /\ Len(trail) < MaxTrail
Emit(event) == trail' = Append(trail, event)
OfStep(type, out, wait) == Ev(type, run.node.step, out, wait, run.index)
DriverOnly == UNCHANGED <<prog, answers, opening, cancel, used, strayed, late>>
GoTo(node) == run' = At(Fresh(node), "step")
Here == Phases(prog, run.node.step)[run.at]
Onward(r) == [r EXCEPT !.at = @ + 1]

\* the top of the loop of runContinuation: the marker comes first, even when
\* the workflow is done, and between steps it leaves no step.cancelled
TopOfLoop ==
    /\ Driving /\ run.pc = "step"
    /\ CASE request -> run' = [run EXCEPT !.pc = "cancelled"] /\ UNCHANGED trail
         [] ~request /\ run.node.step = Done ->
                Emit(OfRun("workflow.completed")) /\ run' = [run EXCEPT !.pc = "off"]
         [] ~request /\ run.node.step # Done ->
                LET exhausted == FailedAttempts(trail, run.node.step) >= MaxTries
                    started == [run EXCEPT !.pc = "phase", !.index = Cardinality(Starts(trail)) + 1]
                IN  /\ run' = IF exhausted THEN [run EXCEPT !.pc = "failed"] ELSE started
                    /\ Emit(OfStep(IF exhausted THEN "step.failed" ELSE "step.started", 0, "none"))
    /\ UNCHANGED request /\ DriverOnly

\* a marker found inside a step
CancelStep ==
    /\ Driving /\ run.pc = "phase" /\ request
    /\ Emit(OfStep("step.cancelled", 0, "none"))
    /\ run' = [run EXCEPT !.pc = "cancelled"]
    /\ UNCHANGED request /\ DriverOnly

Prompt ==
    /\ Driving /\ run.pc = "phase" /\ ~request /\ Here = "prompt"
    /\ \E v \in Value : /\ Emit(OfStep("step.completed", v, "none"))
                        /\ run' = Onward([run EXCEPT !.value = v])
    /\ UNCHANGED request /\ DriverOnly

\* handleWaitPhase and handleResumedWaitPhase
Wait ==
    /\ Driving /\ run.pc = "phase" /\ ~request /\ Here \in WaitId
    /\ LET given == {a \in answers : a.index = run.index /\ a.wait = Here} IN
       CASE run.waits[Here] # 0 -> run' = Onward(run) /\ UNCHANGED trail
         [] run.waits[Here] = 0 /\ given = {} ->
                /\ Emit(OfStep("wait.started", 0, Here))
                /\ run' = [run EXCEPT !.pc = "off"]
         [] run.waits[Here] = 0 /\ given # {} ->
                LET v == (CHOOSE a \in given : TRUE).value IN
                /\ Emit(OfStep("wait.satisfied", v, Here))
                /\ run' = Onward([run EXCEPT !.waits[Here] = v])
    /\ UNCHANGED request /\ DriverOnly

\* the catch of the attempt loop: another attempt, the author's error
\* continuation, or the end of the run
Fails(before, transient) ==
    LET s == run.node.step
        again == /\ transient /\ ~NonIdempotent(prog, s) /\ prog[s].onError = "none"
                 /\ FailedAttempts(trail, s) + 1 < MaxTries
    IN  /\ trail' = trail \o before
                     \o <<OfStep(IF again THEN "step.attemptFailed" ELSE "step.failed", 0, "none")>>
        /\ CASE again -> run' = [run EXCEPT !.at = 1, !.value = run.node.input]
             [] ~again /\ prog[s].onError = "none" -> run' = [run EXCEPT !.pc = "failed"]
             [] ~again /\ prog[s].onError # "none" -> GoTo([step |-> prog[s].onError, input |-> 1])

PhaseFails ==
    /\ Driving /\ run.pc = "phase" /\ ~request /\ Here \notin WaitId
    /\ \E transient \in BOOLEAN : Fails(<<>>, transient)
    /\ UNCHANGED request /\ DriverOnly

\* an answer that does not validate
AnswerInvalid ==
    /\ Driving /\ run.pc = "phase" /\ ~request /\ Here \in WaitId /\ run.waits[Here] = 0
    /\ \E a \in answers : a.index = run.index /\ a.wait = Here
    /\ Fails(<<OfStep("wait.failed", 0, Here)>>, FALSE)
    /\ UNCHANGED request /\ DriverOnly

Do ==
    /\ Driving /\ run.pc = "phase" /\ ~request /\ Here \in {"do", "once"}
    /\ LET to == DoPhase(prog, run.node.step, run.value, run.waits) IN
       /\ to # Threw
       /\ GoTo(to)
       /\ IF Has(prog, run.node.step, {"prompt"}) THEN UNCHANGED trail
          ELSE Emit(OfStep("step.completed", 0, "none"))
    /\ UNCHANGED request /\ DriverOnly

\* failWorkflow
FailRun ==
    /\ Driving /\ run.pc = "failed"
    /\ Emit(OfRun("workflow.failed")) /\ run' = [run EXCEPT !.pc = "off"]
    /\ UNCHANGED request /\ DriverOnly

\* cancelWorkflow: events of its own cycle the driver has not written itself
\* are not known to it; the request is honoured and the marker goes
CancelRun ==
    /\ Driving /\ run.pc = "cancelled"
    /\ trail' = trail \o <<OfRun("workflow.cancelRequested"), OfRun("workflow.cancelled")>>
    /\ request' = FALSE
    /\ run' = [run EXCEPT !.pc = "off"]
    /\ DriverOnly

DriverDies ==
    /\ run.pc # "off"
    /\ run' = [run EXCEPT !.pc = "off"]
    /\ UNCHANGED <<prog, trail, answers, request, opening, cancel, used, strayed, late>>

-----------------------------------------------------------------------------
\* answerCommand: the id must single out one pending wait
Answer ==
    \E w \in WaitId, v \in Value :
        LET pending == {i \in PendingWaits(trail) : trail[i].wait = w} IN
        /\ Cardinality(pending) = 1
        /\ answers' = LET e == trail[CHOOSE i \in pending : TRUE] IN
               {a \in answers : a.index # e.index \/ a.wait # w}
               \cup {[index |-> e.index, wait |-> w, value |-> v]}
        /\ UNCHANGED <<prog, trail, run, request, opening, cancel, used, strayed, late>>

\* cancelRun: the trail is read, and a run whose cycle has ended is left alone
AskCancel ==
    /\ cancel = 0 /\ used.cancels < MaxCancels
    /\ used' = [used EXCEPT !.cancels = @ + 1]
    /\ cancel' = IF Trail!TerminalStatus(Cycle(trail)) = "none" THEN Len(trail) ELSE 0
    /\ UNCHANGED <<prog, trail, run, answers, request, opening, strayed, late>>

\* then the marker, and the events the cycle it read lacks; a marker that is
\* already there is taken for a cancel that was cut short
RecordCancel ==
    /\ cancel # 0
    /\ LET e == Cycle(SubSeq(trail, 1, cancel))
           p == PendingWait(e)
           lacks(type) == Trail!Positions(e, {type}) = {}
           asked == IF lacks("workflow.cancelRequested") THEN <<OfRun("workflow.cancelRequested")>> ELSE <<>>
           step == IF request \/ p = 0 THEN <<>>
                   ELSE IF \E i \in DOMAIN e : e[i].type = "step.cancelled" /\ e[i].step = e[p].step
                   THEN <<>> ELSE <<Ev("step.cancelled", e[p].step, 0, "none", 0)>>
       IN  trail' = trail \o asked \o step \o <<OfRun("workflow.cancelled")>>
    /\ request' = TRUE /\ cancel' = 0
    /\ late' = (late \/ \E i \in DOMAIN trail : i > cancel /\ trail[i].type \in Trail!RunEnd)
    /\ UNCHANGED <<prog, run, answers, opening, used, strayed>>

\* cancel --clear takes the request back, not what the trail says of it
ClearCancel ==
    /\ request /\ request' = FALSE
    /\ UNCHANGED <<prog, trail, run, answers, opening, cancel, used, strayed, late>>

RCNext ==
    \/ TopOfLoop \/ CancelStep \/ Prompt \/ Wait \/ PhaseFails \/ AnswerInvalid \/ Do
    \/ FailRun \/ CancelRun \/ DriverDies
    \/ AskContinue \/ AskRetry \/ SelectRetry \/ AskResume \/ Reopen
    \/ Answer \/ AskCancel \/ RecordCancel \/ ClearCancel

RCSpec == RCInit /\ [][RCNext]_rcVars

-----------------------------------------------------------------------------
RCTypeOK ==
    /\ prog \in Program /\ request \in BOOLEAN /\ late \in BOOLEAN
    /\ strayed \in {"none", "continue", "retry", "resume", "cancelled", "superseded"}
    /\ run.pc \in {"off", "step", "phase", "failed", "cancelled"}
    /\ run.node.step \in Steps \cup {Done} /\ run.node.input \in Value
    /\ run.value \in Value /\ run.waits \in [WaitId -> Value \cup {0}]
    /\ \A a \in answers : a.wait \in WaitId /\ a.value \in Value
    /\ opening.kind \in {"none", "continue", "retry", "resume"} /\ opening.read \in 0..Len(trail)
    /\ cancel \in 0..Len(trail)
    /\ used.opens \in 0..MaxOpens /\ used.cancels \in 0..MaxCancels

-----------------------------------------------------------------------------
\* An attempt at a step recorded its output and then another end, which leaves
\* the output in the trail as a completion; or it was cancelled while parked
\* and completed by a later continue, which hides the completion; or an error
\* continuation took the run on.  Replays go astray after each of these.
SameAttempt(e, i, j) ==
    /\ e[i].step = e[j].step
    /\ ~\E l \in i..j : e[l].type = "step.started" /\ e[l].step = e[j].step
Then(e, first, types) ==
    \E i, j \in DOMAIN e : /\ i < j /\ SameAttempt(e, i, j)
                           /\ e[i].type = first /\ e[j].type \in types
OutputThen(e, types) == Then(e, "step.completed", types)
CancelledThenCompleted(e) == Then(e, "step.cancelled", {"step.completed"})
ErrorContinued(p, e) ==
    \E i \in DOMAIN e : e[i].type = "step.failed" /\ p[e[i].step].onError # "none"

\* A reopening takes the run up where it stopped, as long as it takes up the
\* last attempt of the run.  A retry of a failed or interrupted run starts over
\* the very step, on the very input, it stopped at, however often it was retried
\* before: the outputs of the attempts earlier retries resolved, and of the one
\* retried now, are not replayed (replay-to-retry-failure.ts:120).  A continue
\* takes the attempt that waits up at the phase, with the value and the answers
\* it had when it parked, a retry of a cancelled run starts over the step that
\* was cancelled, on its input, and a resume the step that failed
\* (replay-to-waiting-step.ts:50, replay-to-cancelled-step.ts:16).
ReopenFollowsRun ==
    strayed \notin {"none", "superseded"} =>
        \/ ErrorContinued(prog, trail) \/ CancelledThenCompleted(trail)
        \/ OutputThen(trail, {"step.attemptFailed", "step.cancelled"})
        \/ strayed # "retry" /\ OutputThen(trail, {"step.failed"})

\* steps whose do phases a replay can run again from the trail
Replayable(p, s) ==
    /\ p[s].onError = "none" /\ ~NonIdempotent(p, s)
    /\ \A i, j \in DOMAIN Phases(p, s) : i < j /\ Phases(p, s)[i] = "prompt" => Phases(p, s)[j] \notin WaitId

\* A run that parked at a wait can be continued, and exactly there: no retry,
\* cancel or earlier wait in its past makes the replay refuse it or end up
\* elsewhere (wait-events.ts:76).
ParkedIsContinuable ==
    run.pc = "off" /\ trail[Len(trail)].type = "wait.started" /\ (\A s \in Steps : Replayable(prog, s)) =>
        \/ strayed # "none"
        \/ At(ContinueWait(prog, trail), "off") = run
        \/ CancelledThenCompleted(trail)
        \/ OutputThen(trail, {"step.attemptFailed", "step.failed", "step.cancelled"})

\* A run that completed executes no step again, whatever failures and waits its
\* trail holds, as long as no cancel command that read the trail before the end
\* writes to it afterwards (latest-unresolved-failure.ts:38).
CompletedIsFinal ==
    ~late => \A i, j \in DOMAIN trail :
        i < j /\ trail[i].type = "workflow.completed" => trail[j].type # "step.started"

\* A run whose driver has honoured a cancel can be taken up again by a retry, a
\* continue or a resume (run-workflow.ts:236).
CancelledIsNeverBricked ==
    /\ run.pc = "off" /\ ~request /\ used.opens = 0 /\ cancel = 0
    /\ trail[Len(trail)].type = "workflow.cancelled"
    /\ \A s \in Steps : Replayable(prog, s)
    => \/ RetryCancelled(prog, trail) \notin {Refused, Threw}
       \/ ContinueWait(prog, trail).node \notin {Refused, Threw}
       \/ ResumeFailed(prog, trail) \notin {Refused, Threw}
=============================================================================
