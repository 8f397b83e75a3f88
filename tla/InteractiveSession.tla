------------------------- MODULE InteractiveSession -------------------------
(***************************************************************************)
(* The interactive prompt of a step: the driver opens a session with an    *)
(* external agent and they meet only in files.  interactive.json says      *)
(* whether the session is active, completed or cancelled, output.json is   *)
(* the answer.  trailstep continue and trailstep cancel, run by the agent  *)
(* or by a user, end the session; the driver polls.  A driver that died in *)
(* an open session is replaced by a resume that reattaches to the files.   *)
(*                                                                         *)
(* Every attempt of the step uses the same files.  A round is one attempt; *)
(* the files do not name it.                                               *)
(***************************************************************************)
EXTENDS Naturals, FiniteSets

CONSTANTS
    Submitter,  \* continue commands
    MaxRounds,  \* attempts of the step
    MaxLaunch   \* names tried for the directory of a managed session

\* A step has an attempt at least.
ASSUME SessionAssumption == MaxRounds \in Nat \ {0}

VARIABLES
    expects,   \* the output mode of the step: "json" or "session-file"; "managed"
               \* is a trailstep open, which has an agent and no step
    protocol,  \* the status in interactive.json
    answer,    \* output.json: whether it fits the schema, who wrote it
    cli,       \* the agent process the driver waits for
    strays,    \* whether an agent runs that nobody waits for
    session,   \* the driver: pc, round, the output it takes
    events,    \* what the trail says of the step, and whether the run failed before
    command,   \* where each continue is, and the output it holds
    canceller, \* where the cancel command is
    told,      \* a continue has reported the session completed
    opened     \* a managed session: the opener, its record, the names it tried

isVars == <<expects, protocol, answer, cli, strays, session, events, command,
            canceller, told, opened>>

NoAnswer == [valid |-> FALSE, by |-> "nobody"]
Ended == {"completed", "cancelled"}

ISInit ==
    /\ expects \in {"json", "session-file", "managed"}
    /\ protocol = "none" /\ answer = NoAnswer /\ cli = "none" /\ strays = FALSE
    /\ session = [pc |-> IF expects = "managed" THEN "off" ELSE "dispatch", round |-> 1,
                  took |-> NoAnswer]
    /\ events = [last |-> "step.started", failed |-> FALSE]
    /\ command = [s \in Submitter |-> [pc |-> "idle", out |-> NoAnswer]]
    /\ canceller = "idle" /\ told = FALSE
    /\ opened = [pc |-> IF expects = "managed" THEN "resolve" ELSE "off",
                 record |-> "none", tried |-> 0]

Driver(pc) == session' = [session EXCEPT !.pc = pc]

-----------------------------------------------------------------------------
\* The driver of the step

\* dispatchAgentStep, interactive mode
SessionStarted ==
    /\ session.pc = "dispatch" /\ Driver("prepare")
    /\ events' = [events EXCEPT !.last = "interactive.sessionStarted"]
    /\ UNCHANGED <<expects, protocol, answer, cli, strays, command, canceller, told, opened>>

\* prepareInteractiveArtifacts: writeFile truncates and then writes, output.json
\* of an earlier round stays
PrepareArtifacts ==
    /\ \/ session.pc = "prepare" /\ Driver("preparing") /\ protocol' = "torn"
       \/ session.pc = "preparing" /\ Driver("spawn") /\ protocol' = "active"
    /\ told' = FALSE
    /\ UNCHANGED <<expects, answer, cli, strays, events, command, canceller, opened>>

\* a target, a supported command, its arguments; then the process
SpawnAgent ==
    /\ session.pc = "spawn"
    /\ \/ Driver("failed") /\ UNCHANGED cli
       \/ Driver("racing") /\ cli' = "running"
    /\ UNCHANGED <<expects, protocol, answer, strays, events, command, canceller, told, opened>>

\* The spawn has the abort signal itself: Node sends one SIGTERM and rejects the
\* promise at once, and the handler of that rejection takes away the listener
\* that would have terminated the process group.
Abort == /\ cli' = "none"
         /\ strays' \in {strays, strays \/ cli = "running"}

\* waitForInteractiveCompletion wins the race
WatcherSees ==
    /\ session.pc = "racing" /\ protocol \in Ended
    /\ Driver("read") /\ Abort
    /\ UNCHANGED <<expects, protocol, answer, events, command, canceller, told, opened>>

\* Mutant: the exit code counts before the protocol file.
ProcessExitsByCode ==
    /\ session.pc = "racing" /\ cli \in {"ok", "bad"}
    /\ cli' = "none"
    /\ Driver(IF cli = "ok" THEN "read" ELSE "failed")
    /\ UNCHANGED <<expects, protocol, answer, strays, events, command, canceller, told, opened>>

\* the process wins: a session ended meanwhile counts before the exit code
ProcessExits ==
    /\ session.pc = "racing" /\ cli \in {"ok", "bad"}
    /\ cli' = "none"
    /\ Driver(IF protocol \in Ended \/ cli = "ok" THEN "read" ELSE "failed")
    /\ UNCHANGED <<expects, protocol, answer, strays, events, command, canceller, told, opened>>

\* readCompletedInteractiveOutput: the protocol file, then the output it names
ReadProtocol ==
    /\ session.pc = "read"
    /\ Driver(IF protocol = "completed" THEN "readOutput" ELSE "failed")
    /\ UNCHANGED <<expects, protocol, answer, cli, strays, events, command, canceller, told, opened>>

ReadOutput ==
    /\ session.pc = "readOutput"
    /\ session' = IF answer.valid THEN [session EXCEPT !.pc = "took", !.took = answer]
                  ELSE [session EXCEPT !.pc = "failed"]
    /\ UNCHANGED <<expects, protocol, answer, cli, strays, events, command, canceller, told, opened>>

\* interactive.sessionCompleted, then step.completed
SessionCompleted ==
    /\ \/ /\ session.pc = "took" /\ Driver("record")
          /\ events' = [events EXCEPT !.last = "interactive.sessionCompleted"]
       \/ /\ session.pc = "record" /\ Driver("next")
          /\ events' = [events EXCEPT !.last = "step.completed"]
    /\ UNCHANGED <<expects, protocol, answer, cli, strays, command, canceller, told, opened>>

\* the step times out or is cancelled; the signal reaches the session
AttemptAborted ==
    /\ session.pc = "racing" /\ Driver("failed") /\ Abort
    /\ told' = FALSE
    /\ UNCHANGED <<expects, protocol, answer, events, command, canceller, opened>>

\* the step has attempts left, or the run fails
AttemptFails ==
    /\ session.pc = "failed"
    /\ \/ /\ session.round < MaxRounds
          /\ session' = [session EXCEPT !.pc = "dispatch", !.round = @ + 1]
          /\ events' = [events EXCEPT !.last = "step.attemptFailed"]
       \/ /\ session.round = MaxRounds /\ Driver("stopped")
          /\ events' = [last |-> "workflow.failed", failed |-> TRUE]
    /\ UNCHANGED <<expects, protocol, answer, cli, strays, command, canceller, told, opened>>

-----------------------------------------------------------------------------
\* A driver that dies, and the resume that takes its place

\* the exit hook of live-children.ts kills the agent, unless the driver had no
\* time for it
SessionDriverDies ==
    /\ session.pc \in {"prepare", "racing", "readOutput", "took", "record"}
    /\ Driver("dead") /\ Abort
    /\ UNCHANGED <<expects, protocol, answer, events, command, canceller, told, opened>>

\* findDanglingInteractiveSessionStart
Dangling == events.last = "interactive.sessionStarted" /\ ~events.failed

\* tryReadCompletedInteractiveOutput: what the files of the session say now
ReadAgain == CASE protocol = "active" -> "polling"
               [] protocol = "completed" -> "reread"
               [] OTHER -> "refused"

\* reattachInProgressStep: the finished steps are replayed, and the session is
\* polled while it is active
Reattach ==
    /\ \/ session.pc = "dead"
       \/ session.pc = "polling" /\ protocol \in Ended
    /\ Driver(IF Dangling THEN ReadAgain ELSE "notDangling")
    /\ UNCHANGED <<expects, protocol, answer, cli, strays, events, command, canceller, told, opened>>

\* the output is read and the do phase goes on; no event ends the step
ContinueAfterPromptPhase ==
    /\ session.pc = "reread"
    /\ session' = IF answer.valid THEN [session EXCEPT !.pc = "next", !.took = answer]
                  ELSE [session EXCEPT !.pc = "stopped"]
    /\ UNCHANGED <<expects, protocol, answer, cli, strays, events, command, canceller, told, opened>>

-----------------------------------------------------------------------------
\* The agent

\* it writes a draft where the answer goes, or exits with its code
AgentWrites ==
    /\ cli = "running" \/ strays
    /\ expects = "json"
    /\ answer' \in {[valid |-> v, by |-> "agent"] : v \in BOOLEAN}
    /\ answer' # answer
    /\ told' = (told /\ answer'.valid)
    /\ UNCHANGED <<expects, protocol, cli, strays, session, events, command, canceller, opened>>

AgentExits ==
    /\ \/ cli = "running" /\ cli' \in {"ok", "bad"} /\ UNCHANGED strays
       \/ strays /\ strays' = FALSE /\ UNCHANGED cli
    /\ UNCHANGED <<expects, protocol, answer, session, events, command, canceller, told, opened>>

-----------------------------------------------------------------------------
\* trailstep continue

\* promptForInteractiveSession: the active sessions are listed, one is confirmed
SelectSession(s) ==
    /\ command[s].pc = "idle" /\ protocol = "active"
    /\ command' = [command EXCEPT ![s].pc = "selected"]
    /\ UNCHANGED <<expects, protocol, answer, cli, strays, session, events, canceller, told, opened>>

\* loadInteractiveSession: only an active session is loaded
LoadSession(s) ==
    /\ command[s].pc \in {"idle", "selected"}
    /\ protocol # "none"
    /\ command' = [command EXCEPT ![s].pc = IF protocol = "active" THEN "loaded" ELSE "refused"]
    /\ UNCHANGED <<expects, protocol, answer, cli, strays, session, events, canceller, told, opened>>

\* loadSubmittedOutput and validateOutput: the answer on the command line, a
\* draft the agent left in output.json, a session file that is not empty
Submission == {[valid |-> v, by |-> "command"] : v \in BOOLEAN}
              \cup (IF expects = "json" THEN {answer} ELSE {})
SubmitOutput(s) ==
    /\ command[s].pc = "loaded"
    /\ \E out \in Submission :
          command' = [command EXCEPT ![s] = IF out.valid
                          THEN [pc |-> "validated", out |-> [out EXCEPT !.by = "command"]]
                          ELSE [@ EXCEPT !.pc = "idle"]]
    /\ UNCHANGED <<expects, protocol, answer, cli, strays, session, events, canceller, told, opened>>

WriteOutput(s) ==
    /\ command[s].pc = "validated"
    /\ answer' = command[s].out
    /\ command' = [command EXCEPT ![s].pc = "written"]
    /\ UNCHANGED <<expects, protocol, cli, strays, session, events, canceller, told, opened>>

\* the loaded protocol is written back with the status completed, whatever the
\* file says by now
CompleteSession(s) ==
    /\ command[s].pc = "written"
    /\ protocol' = "completed"
    /\ told' = \/ told
               \/ /\ answer.valid /\ cli \notin {"ok", "bad"}
                  /\ session.pc \in {"racing", "dead", "polling"}
    /\ command' = [command EXCEPT ![s].pc = "reported"]
    /\ UNCHANGED <<expects, answer, cli, strays, session, events, canceller, opened>>

\* loadActiveInteractiveSession
LoadActive == IF protocol = "active" THEN "loaded" ELSE "refused"

\* cancelInteractiveSession: the session is loaded, then written
CancelSession ==
    /\ \/ /\ canceller = "idle" /\ protocol # "none"
          /\ canceller' = LoadActive
          /\ UNCHANGED <<protocol, told>>
       \/ /\ canceller = "loaded" /\ canceller' = "reported"
          /\ protocol' = "cancelled" /\ told' = FALSE
    /\ UNCHANGED <<expects, answer, cli, strays, session, events, command, opened>>

-----------------------------------------------------------------------------
\* trailstep open: a session with an agent and no step

Opener(pc) == opened' = [opened EXCEPT !.pc = pc]
StepUnchanged == UNCHANGED <<expects, protocol, answer, strays, session, events, command,
                             canceller, told>>

\* resolveAgentSessionTarget
ResolveTarget ==
    /\ opened.pc = "resolve" /\ \E found \in BOOLEAN : Opener(IF found THEN "create" ELSE "failed")
    /\ StepUnchanged /\ UNCHANGED cli

\* createAgentSessionArtifacts: a name that exists is not used
CreateArtifacts ==
    /\ opened.pc = "create"
    /\ \/ opened.tried < MaxLaunch /\ opened' = [opened EXCEPT !.tried = @ + 1]
       \/ opened.tried = MaxLaunch /\ Opener("failed")
       \/ opened.tried < MaxLaunch /\ opened' = [opened EXCEPT !.pc = "launch", !.record = "launching"]
       \/ Opener("failed")
    /\ StepUnchanged /\ UNCHANGED cli

\* launchInteractiveAgentTarget: what the provider does not support, and a
\* command that cannot be spawned, are thrown
LaunchAgent ==
    /\ opened.pc = "launch"
    /\ \/ cli' = "running" /\ Opener("attached")
       \/ cli' = "none" /\ Opener("thrown")
    /\ StepUnchanged

\* writeAgentSessionRecordBestEffort
RecordSession ==
    /\ \/ opened.pc = "thrown"
       \/ opened.pc = "attached" /\ cli \in {"ok", "bad"}
    /\ LET end == IF cli = "ok" THEN "completed" ELSE "failed"
       IN  \E written \in BOOLEAN :
              opened' = [opened EXCEPT !.pc = end, !.record = IF written THEN end ELSE @]
    /\ StepUnchanged /\ cli' = "none"

ISNext ==
    \/ SessionStarted \/ PrepareArtifacts \/ SpawnAgent \/ WatcherSees \/ ProcessExits
    \/ ReadProtocol \/ ReadOutput \/ SessionCompleted \/ AttemptAborted \/ AttemptFails
    \/ SessionDriverDies \/ Reattach \/ ContinueAfterPromptPhase
    \/ AgentWrites \/ AgentExits
    \/ \E s \in Submitter : \/ SelectSession(s) \/ LoadSession(s) \/ SubmitOutput(s)
                            \/ WriteOutput(s) \/ CompleteSession(s)
    \/ CancelSession
    \/ ResolveTarget \/ CreateArtifacts \/ LaunchAgent \/ RecordSession

ISSpec == ISInit /\ [][ISNext]_isVars

ISTypeOK ==
    /\ protocol \in {"none", "torn", "active"} \cup Ended
    /\ cli \in {"none", "running", "ok", "bad"} /\ strays \in BOOLEAN
    /\ session.round \in 1..MaxRounds /\ told \in BOOLEAN
    /\ opened.record \in {"none", "launching", "completed", "failed"}

\* An answer whose user was told that the session is completed is taken by the
\* attempt it was given to, or by the resume that replaces its driver: the attempt
\* does not fail over the way its agent exits afterwards, as long as no cancel
\* and no abort of the step interferes and the agent leaves the answer intact
\* (run-interactive-agent-command.ts:287).
AnswerIsTaken == told => session.pc \notin {"failed", "refused", "stopped"}
=============================================================================
