---------------------------- MODULE WorkingAgent ----------------------------
(***************************************************************************)
(* The working prompt of a step: runWorkingAgentCommand tries the agent    *)
(* targets of the role one after the other.  A target is a process, or two *)
(* processes of one session: the first does the work, the second writes    *)
(* the answer in the format of the schema.  All of them write one file,    *)
(* output.json, so that a process that outlives its attempt can answer for *)
(* another.                                                                *)
(*                                                                         *)
(* Times are in half seconds.  A process that got SIGTERM may ignore it and *)
(* go on writing; one that got SIGKILL writes no more.                     *)
(***************************************************************************)
EXTENDS Naturals, Sequences, FiniteSets

CONSTANTS
    TargetList,   \* the lists of targets a role may resolve to
    StepTimeout,  \* the timeouts a step may have, 0 for none
    MaxSpawn,     \* bound on the processes started
    SpawnTries,   \* maxAttempts of the spawn retry policy
    FormatTries   \* MAX_FORMAT_ATTEMPTS

\* The kinds of a target: none the command knows, a custom command, a manifest of one
\* process, a manifest of two.
TargetKind == {"unsupported", "custom", "manifest", "twoPhase"}

ASSUME AgentAssumption ==
    /\ TargetList \subseteq Seq(TargetKind) /\ StepTimeout \subseteq Nat
    /\ SpawnTries \in Nat \ {0} /\ FormatTries \in Nat

VARIABLES
    targets,  \* the targets and the timeout of the step
    wa,       \* where the command is
    procs,    \* the processes started: state, exit code, the attempt they belong to
    outFile,  \* output.json: the process that wrote it, whether it fits the schema
    left,     \* the time the step has left
    clock,    \* the time since the abort of the current process, and the bound of
              \* the wait for its end
    aborted,  \* the caller's signal
    probe     \* the progress tracker and the heartbeat

waVars == <<targets, wa, procs, outFile, left, clock, aborted, probe>>

Grace == 2          \* gracefulTimeoutMs
MinSettlement == 2  \* MIN_SETTLEMENT_BUDGET_MS
MaxSettlement == 10 \* MAX_SETTLEMENT_BUDGET_MS
Reserve == 20       \* the least the work of a two-phase target leaves to the format
NoOutput == [by |-> 0, valid |-> FALSE]
Target == targets.list[wa.target]
Current == procs[Len(procs)]

WAInit ==
    /\ targets \in [list : TargetList, timeout : StepTimeout]
    /\ wa = [pc |-> "select", target |-> 1, try |-> 1, attempt |-> 0, format |-> 0,
             formatTry |-> 1, budget |-> 0, transient |-> FALSE, took |-> 0]
    /\ procs = <<>> /\ outFile = NoOutput
    /\ left = targets.timeout /\ clock = [since |-> 0, bound |-> 0]
    /\ aborted = FALSE
    /\ probe = [exited |-> FALSE, stalled |-> FALSE, on |-> TRUE]

-----------------------------------------------------------------------------
\* The budget of a phase.  The work of a two-phase target leaves a reserve to the
\* format phase, but has at least one second.
WorkBudget ==
    IF Target # "twoPhase" \/ targets.timeout = 0 THEN targets.timeout
    ELSE IF targets.timeout > Reserve + 2 THEN targets.timeout - Reserve ELSE 2

\* Mutant: the budget of the phase bounds the wait for its end.
UnclampedBound(budget) == budget

\* withBoundedSettlement
SettlementBound(budget) ==
    IF budget < MinSettlement THEN MinSettlement
    ELSE IF budget > MaxSettlement THEN MaxSettlement ELSE budget

\* time passes while a process runs and while a retry sleeps
TimePasses == left' \in {l \in {0, 1, left} : l <= left}

Fail(transient) == wa' = [wa EXCEPT !.pc = "failed", !.transient = transient]

\* runWorkingAgentCommand: the next target, or none is left
SelectTarget ==
    /\ wa.pc = "select"
    /\ wa' = [wa EXCEPT !.pc = IF wa.target > Len(targets.list) THEN "exhausted" ELSE "attempt",
                        !.try = 1]
    /\ probe' = [probe EXCEPT !.on = wa.target <= Len(targets.list)]
    /\ UNCHANGED <<targets, procs, outFile, left, clock, aborted>>

\* runWorkingAgentTargetAttempt removes output.json, then the provider is looked up
RemoveArtifacts ==
    /\ wa.pc = "attempt"
    /\ outFile' = NoOutput
    /\ wa' = [wa EXCEPT !.pc = IF Target = "unsupported" THEN "failed" ELSE "work",
                        !.attempt = @ + 1, !.transient = FALSE, !.budget = WorkBudget]
    /\ UNCHANGED <<targets, procs, left, clock, aborted, probe>>

\* spawnManifestPhase and runCustomWorkingProvider: the process starts, or it
\* cannot be started, which no error says is transient.  A signal that is aborted
\* already is sent to the process at once.
Spawn ==
    /\ wa.pc \in {"work", "format"} /\ Len(procs) < MaxSpawn
    /\ \/ /\ Fail(FALSE) /\ UNCHANGED <<procs, clock>>
       \/ /\ wa' = [wa EXCEPT !.pc = "running"]
          /\ procs' = Append(procs, [state |-> IF aborted THEN "term" ELSE "running",
                                     attempt |-> wa.attempt,
                                     format |-> wa.pc = "format", kind |-> Target])
          /\ clock' = [since |-> 0, bound |-> SettlementBound(wa.budget)]
    /\ UNCHANGED <<targets, outFile, left, aborted, probe>>

\* A two-phase work process writes its report elsewhere.
AgentAnswers(p) ==
    /\ procs[p].state \in {"running", "term"}
    /\ procs[p].kind = "twoPhase" => procs[p].format
    /\ \E valid \in BOOLEAN : outFile' = [by |-> p, valid |-> valid]
    /\ outFile' # outFile
    /\ UNCHANGED <<targets, wa, procs, left, clock, aborted, probe>>

\* an exit with code 0, another code, or the code of a process the system killed;
\* after a signal only the second
AgentEnds(p) ==
    /\ procs[p].state \in {"running", "term", "killed"}
    /\ \E code \in IF procs[p].state = "running" THEN {"ok", "bad", "ntstatus"} ELSE {"bad"} :
          procs' = [procs EXCEPT ![p].state = code]
    /\ probe' = IF p = Len(procs) THEN [probe EXCEPT !.exited = TRUE] ELSE probe
    /\ UNCHANGED <<targets, wa, outFile, left, clock, aborted>>

Alive(p) == procs[p].state \in {"running", "term", "killed"}

-----------------------------------------------------------------------------
\* the process of the phase has exited by itself or after the caller's abort
Exited(format) ==
    /\ wa.pc = "running" /\ ~Alive(Len(procs)) /\ Current.format = format
    /\ TimePasses
    /\ UNCHANGED <<targets, procs, outFile, clock, aborted, probe>>

\* runManifestWorkingProvider and runCustomWorkingProvider: the answer, or a failure
WorkEnds ==
    /\ Exited(FALSE) /\ Target # "twoPhase"
    /\ IF Current.state = "ok" THEN wa' = [wa EXCEPT !.pc = "read"]
       ELSE Fail(Current.state = "ntstatus")

\* runTwoPhaseManifestWorking: the same session is asked for the answer
TwoPhaseWorkEnds ==
    /\ Exited(FALSE) /\ Target = "twoPhase"
    /\ IF Current.state = "ok"
       THEN wa' = [wa EXCEPT !.pc = "attemptFormat", !.format = 1, !.formatTry = 1]
       ELSE Fail(Current.state = "ntstatus")

\* spawnFormatWithTransientRetry
FormatEnds ==
    /\ Exited(TRUE)
    /\ wa' = [wa EXCEPT !.pc = IF Current.state = "ok" THEN "read" ELSE "formatFailed"]

\* the timer of the phase: abort, SIGTERM, and a bounded wait for the end
PhaseTimeout ==
    /\ wa.pc = "running" /\ wa.budget # 0 /\ Alive(Len(procs))
    /\ wa' = [wa EXCEPT !.pc = "settling"]
    /\ procs' = [procs EXCEPT ![Len(procs)].state = IF @ = "killed" THEN "killed" ELSE "term"]
    /\ clock' = [clock EXCEPT !.since = 0]
    /\ left' = 0
    /\ UNCHANGED <<targets, outFile, aborted, probe>>

\* terminateChildProcessTree: SIGKILL once the grace is over; its timer was set
\* before the one of the wait
KillAfterGrace ==
    /\ wa.pc \in {"settling", "running"} /\ clock.since = Grace
    /\ Current.state = "term"
    /\ procs' = [procs EXCEPT ![Len(procs)].state = "killed"]
    /\ UNCHANGED <<targets, wa, outFile, left, clock, aborted, probe>>

Tick ==
    /\ wa.pc \in {"settling", "running"} /\ Current.state \in {"term", "killed"}
    /\ wa.pc = "settling" => clock.since < clock.bound
    /\ clock.since < MaxSettlement
    /\ Current.state = "term" => clock.since < Grace
    /\ clock' = [clock EXCEPT !.since = @ + 1]
    /\ UNCHANGED <<targets, wa, procs, outFile, left, aborted, probe>>

\* the process is gone, or the bound is reached
Settled ==
    /\ wa.pc = "settling"
    /\ \/ ~Alive(Len(procs))
       \/ clock.since = clock.bound /\ ~(clock.since = Grace /\ Current.state = "term")
    /\ Fail(FALSE)
    /\ UNCHANGED <<targets, procs, outFile, left, clock, aborted, probe>>

\* the attempt of the step is cancelled or times out
CallerAborts ==
    /\ ~aborted /\ wa.pc \notin {"done", "exhausted"}
    /\ aborted' = TRUE
    /\ procs' = IF wa.pc = "running" /\ Current.state = "running"
                THEN [procs EXCEPT ![Len(procs)].state = "term"] ELSE procs
    /\ clock' = [clock EXCEPT !.since = 0]
    /\ UNCHANGED <<targets, wa, outFile, left, probe>>

-----------------------------------------------------------------------------
\* The format phase of a two-phase target: every attempt has the time that is
\* left, and so has every retry of its spawn
AttemptFormat ==
    /\ wa.pc = "attemptFormat"
    /\ IF wa.format > FormatTries \/ (targets.timeout # 0 /\ left = 0) THEN Fail(FALSE)
       ELSE wa' = [wa EXCEPT !.pc = "format", !.budget = left, !.formatTry = 1]
    /\ UNCHANGED <<targets, procs, outFile, left, clock, aborted, probe>>

\* the catch of spawnFormatWithTransientRetry
RetryFormat ==
    /\ wa.pc = "formatFailed"
    /\ TimePasses
    /\ IF Current.state = "ntstatus" /\ wa.formatTry < SpawnTries /\ ~aborted
       THEN wa' = [wa EXCEPT !.pc = "format", !.formatTry = @ + 1]
       ELSE Fail(Current.state = "ntstatus")
    /\ UNCHANGED <<targets, procs, outFile, clock, aborted, probe>>

\* writeCapturedStdoutOutput: what stdout or its envelope holds is written over
\* output.json, unless the provider writes the file itself
WriteCaptured ==
    \/ UNCHANGED outFile
    \/ \E valid \in BOOLEAN :
          Target # "custom" /\ outFile' = [by |-> Len(procs), valid |-> valid]

\* the answer of a format attempt, or the next attempt with its diagnostics
AcceptFormat ==
    /\ wa.pc = "read" /\ Target = "twoPhase"
    /\ WriteCaptured
    /\ wa' = IF outFile'.valid THEN [wa EXCEPT !.pc = "done", !.took = outFile'.by]
             ELSE [wa EXCEPT !.pc = "attemptFormat", !.format = @ + 1]
    /\ probe' = [probe EXCEPT !.on = ~outFile'.valid]
    /\ UNCHANGED <<targets, procs, left, clock, aborted>>

\* readWorkingAgentOutput: the file has to fit the schema
ReadAnswer ==
    /\ wa.pc = "read" /\ Target # "twoPhase"
    /\ WriteCaptured
    /\ IF outFile'.valid THEN wa' = [wa EXCEPT !.pc = "done", !.took = outFile'.by]
       ELSE Fail(FALSE)
    /\ probe' = [probe EXCEPT !.on = ~outFile'.valid]
    /\ UNCHANGED <<targets, procs, left, clock, aborted>>

\* the catch of the loop: the same target again, or the next
AfterFailure ==
    /\ wa.pc = "failed"
    /\ wa' = IF wa.transient /\ wa.try < SpawnTries /\ ~aborted
             THEN [wa EXCEPT !.pc = "attempt", !.try = @ + 1]
             ELSE [wa EXCEPT !.pc = "select", !.target = @ + 1]
    /\ UNCHANGED <<targets, procs, outFile, left, clock, aborted, probe>>

-----------------------------------------------------------------------------
\* startAgentHeartbeat and the tracker it reads: silence long enough is reported
\* once, unless a process of the step has exited, the present one or one before
Heartbeat ==
    /\ probe.on /\ wa.pc = "running" /\ ~probe.stalled /\ ~probe.exited
    /\ probe' = [probe EXCEPT !.stalled = TRUE]
    /\ UNCHANGED <<targets, wa, procs, outFile, left, clock, aborted>>

WANext ==
    \/ SelectTarget \/ RemoveArtifacts \/ Spawn
    \/ \E p \in DOMAIN procs : AgentAnswers(p) \/ AgentEnds(p)
    \/ WorkEnds \/ TwoPhaseWorkEnds \/ FormatEnds \/ PhaseTimeout \/ KillAfterGrace \/ Tick \/ Settled \/ CallerAborts
    \/ AttemptFormat \/ RetryFormat \/ AcceptFormat \/ ReadAnswer \/ AfterFailure
    \/ Heartbeat

WASpec == WAInit /\ [][WANext]_waVars

WATypeOK ==
    /\ wa.target \in 1..Len(targets.list) + 1 /\ wa.try \in 1..SpawnTries
    /\ wa.format \in 0..FormatTries + 1 /\ wa.formatTry \in 1..SpawnTries
    /\ left \in 0..targets.timeout /\ clock.since \in 0..MaxSettlement
    /\ outFile.by \in 0..Len(procs)

\* What a target answers was written by a process of its own attempt: the process
\* of an attempt before is dead, and what it wrote removed, when the next one starts
\* (run-working-agent-target-attempt.ts:41).
OutputIsOwn == wa.pc = "done" => procs[wa.took].attempt = wa.attempt
=============================================================================
