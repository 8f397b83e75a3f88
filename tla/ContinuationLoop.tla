-------------------------- MODULE ContinuationLoop --------------------------
(***************************************************************************)
(* runContinuation: the loop that takes a node of a workflow to its next   *)
(* node, through steps, invoked workflows and their posts, until the       *)
(* branch it runs for has a result; and the loops that one result leads    *)
(* to: a branch or a post of a split, the continue of a wait.  A behaviour *)
(* follows one branch at a time: how branches run side by side and are     *)
(* joined is the module TrackScheduler, what a step does inside the module *)
(* StepAttempts.                                                           *)
(***************************************************************************)
EXTENDS Naturals, Sequences

CONSTANTS
    Workflow,    \* workflows that may invoke each other
    Root,        \* the workflow of the run
    MaxSteps,    \* options.maxSteps
    MaxDepth     \* bound on the depth of invocations

VARIABLES
    entry,     \* how the loop was entered, and the posts that follow its success
    node,      \* the node to run: its kind and the workflow whose code made it
    settings,  \* the workflow each setting in force was taken from
    frames,    \* invocationFrames
    executed,  \* executedSteps
    pending,   \* pendingResumeWait: the loop first takes up the step of a wait
    cancelled, \* the cancellation marker
    outcome    \* the result, and the posts a split hands to the scheduler

clVars == <<entry, node, settings, frames, executed, pending, cancelled, outcome>>

Kinds == {"step", "done", "fail", "invoke", "split", "absolute", "unsupported", "invalid"}
Setting == {"id", "agents", "timeout", "retry", "output"}
NotPassed == "not passed"
Results == {"running", "success", "failure", "cancelled", "absolute", "split", "waiting"}
Running == [result |-> "running", posts |-> <<>>]
LoopRuns == outcome.result = "running"

\* What runWorkflow gives every loop of the run: the root workflow's id, agents
\* and timeout.  Neither of its two calls passes a workflowRetry, and the root's
\* output is asserted by runWorkflow itself.
RunSettings == [s \in Setting |-> IF s \in {"retry", "output"} THEN NotPassed ELSE Root]

\* A loop is the run's first one ("root"), one of the branches the root's start
\* made ("branch"), a branch or a post of any other split ("nested"), or the
\* reopening of a run without a track ("replayed").  "by" is the workflow whose
\* code made its first node; "path" says whether it has invoked workflows only,
\* run steps of the one it came to, or left that one.
Loop(kind, by, path, next) == [kind |-> kind, by |-> by, path |-> path, next |-> next]
Branchlike == {"step", "invoke"}                     \* isRunnableBranchCandidate

\* returnContinuationArrays
Arrays == entry.kind # "replayed"

\* replay goes through step nodes only, so a reopening starts with a step of the root
CLInit ==
    /\ entry \in {Loop("root", Root, "entering", <<>>), Loop("branch", Root, "entering", <<>>),
                  Loop("replayed", Root, "stepping", <<>>)}
    /\ node \in [owner : {Root}, kind :
          CASE entry.kind = "root" -> Kinds [] entry.kind = "branch" -> Branchlike [] OTHER -> {"step"}]
    /\ settings = RunSettings
    /\ frames = <<>>
    /\ executed \in IF Arrays THEN {0} ELSE 0..MaxSteps
    /\ pending \in IF Arrays THEN {FALSE} ELSE BOOLEAN
    /\ cancelled = FALSE
    /\ outcome = Running

Finish(r) ==
    /\ outcome' = [result |-> r, posts |-> <<>>]
    /\ UNCHANGED <<entry, node, settings, frames, executed, pending, cancelled>>

RequestCancel == LoopRuns /\ ~cancelled /\ cancelled' = TRUE
             /\ UNCHANGED <<entry, node, settings, frames, executed, pending, outcome>>

\* readCancellationMarker at the top of the loop
StopCancelled == LoopRuns /\ cancelled /\ Finish("cancelled")

\* Mutant: the retry setting of the invoked workflow stays in force.
PopDoneKeepingRetry ==
    /\ LoopRuns /\ node.kind = "done"
    /\ \/ frames = <<>> /\ Finish("success")
       \/ frames # <<>> /\ Finish("failure")                           \* output.assert
       \/ /\ frames # <<>>
          /\ LET frame == frames[Len(frames)] IN
             /\ frames' = SubSeq(frames, 1, Len(frames) - 1)
             /\ settings' = [frame.settings EXCEPT !["retry"] = settings["retry"]]
             /\ entry' = [entry EXCEPT !.path = "left"]
             /\ \/ frame.post /\ node' \in [kind : Kinds, owner : {frame.caller}] /\ UNCHANGED outcome
                \/ frame.post /\ outcome' = [Running EXCEPT !.result = "failure"] /\ UNCHANGED node
                \/ ~frame.post /\ outcome' = [Running EXCEPT !.result = "success"] /\ UNCHANGED node
          /\ UNCHANGED <<executed, pending, cancelled>>

\* done: the innermost frame is popped, its caller's settings come back and its
\* post, when it has one, says what is next or throws.  A frame without a post
\* ends the branch, whatever the frames below it hold.
PopDone ==
    /\ LoopRuns /\ node.kind = "done"
    /\ \/ frames = <<>> /\ Finish("success")
       \/ frames # <<>> /\ Finish("failure")                           \* output.assert
       \/ /\ frames # <<>>
          /\ LET frame == frames[Len(frames)] IN
             /\ frames' = SubSeq(frames, 1, Len(frames) - 1)
             /\ settings' = frame.settings
             /\ entry' = [entry EXCEPT !.path = "left"]
             /\ \/ frame.post /\ node' \in [kind : Kinds, owner : {frame.caller}] /\ UNCHANGED outcome
                \/ frame.post /\ outcome' = [Running EXCEPT !.result = "failure"] /\ UNCHANGED node
                \/ ~frame.post /\ outcome' = [Running EXCEPT !.result = "success"] /\ UNCHANGED node
          /\ UNCHANGED <<executed, pending, cancelled>>

StopFail == LoopRuns /\ node.kind = "fail" /\ Finish("failure")
StopAbsolute == LoopRuns /\ Arrays /\ node.kind = "absolute" /\ Finish("absolute")

\* splitPostContinuations: the parallel node's own post, made by the workflow the
\* node is of, and after it the post of the innermost frame that has one; the
\* posts of the frames below that one never run.  (When no frame has a post, the
\* scheduler is handed one that returns done and runs no code of a workflow.)
PostOfFrames ==
    LET innermost == {d \in DOMAIN frames :
                         frames[d].post /\ \A e \in (d + 1)..Len(frames) : ~frames[e].post}
    IN  IF innermost = {} THEN {<<>>} ELSE {<<frames[d].caller>> : d \in innermost}
SplitOutcome ==
    {[result |-> "split", posts |-> own \o invocation] :
        own \in {<<>>, <<node.owner>>}, invocation \in PostOfFrames}

StopSplit ==
    /\ LoopRuns /\ Arrays /\ node.kind = "split"
    /\ outcome' \in SplitOutcome
    /\ UNCHANGED <<entry, node, settings, frames, executed, pending, cancelled>>

\* a workflow invocation: the input is checked, the caller's settings are put
\* on the stack and the invoked workflow's replace every one of them
Invoke ==
    /\ LoopRuns /\ node.kind = "invoke"
    /\ \/ Finish("failure")                                          \* input.assert
       \/ \E w \in Workflow, post \in BOOLEAN :
             /\ Len(frames) < MaxDepth
             /\ frames' = Append(frames, [settings |-> settings, post |-> post,
                                          invoked |-> w, caller |-> node.owner])
             /\ settings' = [s \in Setting |-> w]
             /\ node' \in [kind : Kinds, owner : {w}]
             /\ entry' = [entry EXCEPT !.path = IF @ = "entering" THEN @ ELSE "left"]
             /\ UNCHANGED <<executed, pending, cancelled, outcome>>

\* unsupportedContinuationFailure and continuationFailure, which also meet what
\* only a loop of the scheduler can hand on
StopUnknown ==
    /\ LoopRuns
    /\ node.kind \in {"unsupported", "invalid"} \cup (IF Arrays THEN {} ELSE {"split", "absolute"})
    /\ Finish("failure")

\* A resumed wait takes no new step index and is not held against maxSteps.  It
\* always meets its own step: the step is what the replay returned.
RunStep ==
    /\ LoopRuns /\ node.kind = "step"
    /\ \/ ~pending /\ executed >= MaxSteps /\ Finish("failure")
       \/ /\ pending \/ executed < MaxSteps
          /\ executed' = IF pending THEN executed ELSE executed + 1
          /\ pending' = FALSE
          /\ entry' = [entry EXCEPT !.path = IF @ = "entering" THEN "stepping" ELSE @]
          /\ \/ node' \in [kind : Branchlike \cup {"done", "fail"}, owner : {node.owner}] /\ UNCHANGED outcome
             \/ /\ \/ \E r \in {"failure", "cancelled", "waiting"} : outcome' = [Running EXCEPT !.result = r]
                   \/ Arrays /\ outcome' \in SplitOutcome \cup {[Running EXCEPT !.result = "absolute"]}
                /\ UNCHANGED node
          /\ UNCHANGED <<settings, frames, cancelled>>

\* Every loop begins with the settings of the run and without frames, whatever
\* workflow its first node is of.
StartLoop(loop, kinds, count, resumed) ==
    /\ entry' = loop
    /\ node' \in [kind : kinds, owner : {loop.by}]
    /\ settings' = RunSettings
    /\ frames' = <<>>
    /\ executed' = count
    /\ pending' = resumed
    /\ outcome' = Running

\* a child branch of the split; only those of the root's start, without a post to
\* join them, can be found again by a continue
StartChild ==
    /\ outcome.result = "split"
    /\ LET first == entry.kind = "root" /\ entry.path = "entering" /\ frames = <<>> /\ outcome.posts = <<>>
       IN  StartLoop(Loop(IF first THEN "branch" ELSE "nested", node.owner, "entering", <<>>), Branchlike, 0, FALSE)
    /\ UNCHANGED cancelled

\* enqueueSatisfiedJoins: the post of a split once its branches are settled, and
\* the invocation's post once the split's own one has succeeded
StartPost ==
    LET posts == IF outcome.result = "split" THEN outcome.posts ELSE entry.next
    IN  /\ outcome.result \in {"split", "success"} /\ posts # <<>>
        /\ StartLoop(Loop("nested", Head(posts), "entering", Tail(posts)), Kinds, 0, FALSE)
        /\ UNCHANGED cancelled

\* A continue of a parked run.  Without a track the replay goes through steps of
\* the root only; a branch of a track is replayed from its entry, the first step
\* its invocations come to, and the invocations are not made again.
ContinueParked ==
    /\ outcome.result = "waiting" /\ entry.path = "stepping"
    /\ \/ /\ entry.kind \in {"root", "replayed"} /\ frames = <<>>
          /\ \E count \in executed..MaxSteps :
                StartLoop(Loop("replayed", Root, "stepping", <<>>), {"step"}, count, TRUE)
       \/ /\ entry.kind = "branch"
          /\ StartLoop(Loop("branch", node.owner, "stepping", <<>>), {"step"}, 0, TRUE)
    /\ cancelled' = FALSE                                   \* clearCancellationMarker

CLNext ==
    \/ RequestCancel \/ StopCancelled
    \/ ~cancelled /\ (\/ PopDone \/ StopFail \/ StopAbsolute \/ StopSplit
                      \/ Invoke \/ StopUnknown \/ RunStep)
    \/ StartChild \/ StartPost \/ ContinueParked

CLSpec == CLInit /\ [][CLNext]_clVars

CLTypeOK ==
    /\ entry.kind \in {"root", "branch", "nested", "replayed"} /\ entry.by \in Workflow \cup {Root}
    /\ entry.path \in {"entering", "stepping", "left"} /\ Len(entry.next) <= 1
    /\ node \in [kind : Kinds, owner : Workflow \cup {Root}]
    /\ settings \in [Setting -> Workflow \cup {Root, NotPassed}]
    /\ Len(frames) <= MaxDepth /\ executed \in 0..MaxSteps
    /\ pending \in BOOLEAN /\ cancelled \in BOOLEAN
    /\ outcome.result \in Results /\ Len(outcome.posts) <= 2

\* Inside an invocation a node runs under the id, agents, timeout, retry and
\* output schema of the invoked workflow, and every setting of the run is back
\* once the outermost one is done, however invocations and posts nest
\* (run-continuation.ts:96, 209).
SettingsNest ==
    LoopRuns =>
        IF frames = <<>> THEN settings = RunSettings /\ node.owner = entry.by
        ELSE \A s \in Setting : settings[s] = node.owner

\* "Workflow-level automatic retry policy applied to this workflow's steps when a
\* step does not configure its own" (workflow.types.ts:30), "Put shared role defaults
\* in workflow-level agents" (SKILL.md:63): a step of an invoked workflow runs under
\* what that workflow sets.  The code does not keep it for the loops that a split or
\* a wait inside the invocation leads to.
InvokedSettingsApply ==
    LoopRuns /\ node.kind = "step" /\ node.owner # Root =>
        \A s \in {"agents", "timeout", "retry"} : settings[s] = node.owner
=============================================================================
