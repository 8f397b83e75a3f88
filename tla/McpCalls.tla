------------------------------ MODULE McpCalls ------------------------------
(***************************************************************************)
(* One call of an MCP client to the server of packages/mcp/src beside the  *)
(* attempts of RunLock: trst_run_workflow, a tool of one workflow,         *)
(* trst_answer, trst_resume, trst_list or a ListTools request.  A tool     *)
(* that runs something spawns a detached CLI process, which is an attempt  *)
(* of RunLock, and watches the run directory until the process has shown   *)
(* itself or the verification budget (MCP_VERIFY) is spent.  The clock is  *)
(* free: the budget may end between any two reads.  An attempt nobody      *)
(* spawned is somebody's `trailstep continue` in a terminal.               *)
(*                                                                         *)
(* Time, the texts of the replies and names of runs are left out: the run  *)
(* directory is the one RunLock is about, so a name that is taken already  *)
(* (createRunDirectory in RunFiles and StorageLifecycle) does not occur.   *)
(***************************************************************************)
EXTENDS RunLock

CONSTANT Continue  \* the one continue the server may spawn

ASSUME McpAssumption == Continue \in Attempt \ {Fresh}

VARIABLES
    call,       \* the call: its tool, where it stands, what it read, its reply
    spawned,    \* attempts the server spawned
    ended,      \* how the process of an attempt ends, once that is decided
    answered    \* waits whose answer file the server has written

callVars == <<call, spawned, ended, answered>>
mcpVars == <<vars, callVars>>

-----------------------------------------------------------------------------
(***************************************************************************)
(* The tools.                                                              *)
(***************************************************************************)
\* tools: what each generic tool requires.
Requires == [trst_run_workflow |-> {"workflow"}, trst_watch |-> {"runId"},
             trst_answer |-> {"runId", "waitId", "answer"}, trst_resume |-> {"runId"}]

GenericTool == DOMAIN Requires

\* Files of one workflow's tool, trst_x.json, in the directories that may hold it.
ToolDir == <<"local", "project", "global">>
Payload == {"none", "notJson", "foreign", "malformed", "shadows", "registered", "file", "package"}

\* A box is what a request reads: those files, the configs that register the
\* workflow, whether its source exists, mcp.perWorkflowTools by config layer.
Box == [json : [1 .. Len(ToolDir) -> {"none", "malformed", "registered"}], configs : {{}, {"home"}},
        source : {TRUE}, flags : {<<"absent", "absent", "absent">>}]
  \cup [json : {<<p, "none", "registered">> : p \in Payload}, configs : {{}, {"project"}},
        source : BOOLEAN, flags : {<<"on", "off", "absent">>, <<"off", "absent", "invalid">>}]

\* load: the first directory whose file parses has the file id.
FirstFile(box) ==
    LET readable == {d \in DOMAIN ToolDir : box.json[d] \notin {"none", "notJson"}}
    IN  IF readable = {} THEN "none"
        ELSE box.json[CHOOSE d \in readable : \A e \in readable : d <= e]

\* parsePerWorkflowToolJson: a name with trst_, the fields, a schema.
IsTool(payload) == payload \notin {"none", "foreign", "malformed"}

\* workflowRefResolutionFailure: a package's workflow is only known when it runs.
StillResolves(payload, box) ==
    \/ payload = "registered" /\ box.configs # {}
    \/ payload = "file" /\ box.source
    \/ payload \in {"package", "shadows"}

LoadedTool(box) ==
    LET payload == FirstFile(box)
    IN  IF IsTool(payload) /\ StillResolves(payload, box) THEN payload ELSE "none"

\* The name a file gives its tool need not be the file's.
LoadedNames(box) ==
    CASE LoadedTool(box) = "none" -> {}
      [] LoadedTool(box) = "shadows" -> {"trst_watch"}
      [] OTHER -> {"trst_x"}

\* findPerWorkflowTool: a generic tool cannot be shadowed.
FoundTool(box) == IF LoadedTool(box) = "shadows" THEN "none" ELSE LoadedTool(box)

\* resolvePerWorkflowToolsEnabled: the last layer that has the section decides,
\* and what it says wrongly counts as the default.
PerWorkflowEnabled(box) ==
    LET present == {l \in DOMAIN box.flags : box.flags[l] # "absent"}
        last == box.flags[CHOOSE l \in present : \A m \in present : m <= l]
    IN  present = {} \/ last # "off"

\* listedToolDefinitions
Listed(box) ==
    GenericTool \cup (IF ~ PerWorkflowEnabled(box) THEN {"trst_list"}
                      ELSE LoadedNames(box) \ GenericTool)

\* What the files may be when a request reads them: nothing is kept between two.
Listings == {Listed(box) : box \in Box} \cup {LoadedNames(box) : box \in Box}
FoundTools == {FoundTool(box) : box \in Box}

-----------------------------------------------------------------------------
NoCall == [tool |-> "none", stage |-> "idle", size |-> 0, holder |-> NoLock,
           reply |-> "none", listed |-> {}]

McpInit ==
    /\ Init
    /\ call \in {[NoCall EXCEPT !.tool = tool] : tool \in {"none", "trst_watch"}}
    /\ spawned = {}
    /\ ended = [a \in Attempt |-> "none"]
    /\ answered = {}

To(stage) == call' = [call EXCEPT !.stage = stage]

\* A reply with isError, a result that carries an error, or a plain result.
Replies(reply) == call' = [NoCall EXCEPT !.tool = call.tool, !.stage = "over", !.reply = reply]

\* The continue has shown itself.
Started == call' = [NoCall EXCEPT !.tool = call.tool, !.stage = "started"]

(***************************************************************************)
(* dispatchTool.                                                           *)
(***************************************************************************)
\* ListTools, and trst_list, which lists what the generated files hold.
ListTools ==
    /\ call.stage = "idle"
    /\ \E names \in Listings :
          call' = [call EXCEPT !.stage = "over", !.reply = "listed", !.listed = names]
    /\ UNCHANGED <<vars, spawned, ended, answered>>

\* An argument is missing or is not of its kind: the dispatch throws.  trst_watch
\* looks at its arguments itself, and is the subject of RunWatch.
CallWithout ==
    /\ call.stage = "idle"
    /\ \E tool \in GenericTool \ {"trst_watch"} : \E args \in SUBSET Requires[tool] :
          /\ args # Requires[tool]
          /\ call' = [call EXCEPT !.tool = tool, !.stage = "over", !.reply = "invalid"]
    /\ UNCHANGED <<vars, spawned, ended, answered>>

\* The tool of a workflow: the files and the registrations are read again.
CallWorkflowTool ==
    /\ call.stage = "idle"
    /\ \E tool \in FoundTools :
          call' = IF tool = "none"
                  THEN [call EXCEPT !.tool = "trst_x", !.stage = "over", !.reply = "unknown"]
                  ELSE [call EXCEPT !.tool = "trst_x", !.stage = "starting"]
    /\ UNCHANGED <<vars, spawned, ended, answered>>

CallRunWorkflow ==
    /\ call.stage = "idle"
    /\ call' = [call EXCEPT !.tool = "trst_run_workflow", !.stage = "starting"]
    /\ UNCHANGED <<vars, spawned, ended, answered>>

CallResume ==
    /\ call.stage = "idle"
    /\ call' = [call EXCEPT !.tool = "trst_resume", !.stage = "reading"]
    /\ UNCHANGED <<vars, spawned, ended, answered>>

(***************************************************************************)
(* runWorkflowTool.                                                        *)
(***************************************************************************)
\* resolveCliEntry: the option, the environment, this process, and for a continue
\* the directories above.  None, or one that is not there: nothing is spawned.
NoCliEntry ==
    /\ call.stage \in {"starting", "resolving"}
    /\ Replies("noEntry")
    /\ UNCHANGED <<vars, spawned, ended, answered>>

SpawnRun ==
    /\ call.stage = "starting"
    /\ pc[Fresh] = "idle"
    /\ spawned' = spawned \cup {Fresh}
    /\ \E how \in {"none", "noSpawn"} : ended' = [ended EXCEPT ![Fresh] = how]
    /\ To("verifying")
    /\ UNCHANGED <<vars, answered>>

\* resolveMaterializedRunDir: the first event of the run names its directory.
Materialized == trail # <<>>

Exited(a) == pc[a] \in {"done", "crashed"} \/ ended[a] = "early"

PollRun ==
    /\ call.stage = "verifying"
    /\ IF Materialized THEN Replies("started") ELSE To("asking")
    /\ UNCHANGED <<vars, spawned, ended, answered>>

\* earlyFailure: the directory may have come with the exit, so it is read again.
\* The event of an exit may still be on its way.
AskRun ==
    /\ call.stage = "asking"
    /\ \/ ended[Fresh] = "noSpawn" /\ Replies("noSpawn")
       \/ Exited(Fresh) /\ To("rechecking")
       \/ ended[Fresh] # "noSpawn" /\ To("verifying")
       \/ ended[Fresh] # "noSpawn" /\ Replies("slow")
    /\ UNCHANGED <<vars, spawned, ended, answered>>

\* Mutant: an exit is enough.
RecheckNothing ==
    /\ call.stage = "rechecking"
    /\ Replies("exited")
    /\ UNCHANGED <<vars, spawned, ended, answered>>

RecheckRun ==
    /\ call.stage = "rechecking"
    /\ Replies(IF Materialized THEN "started" ELSE "exited")
    /\ UNCHANGED <<vars, spawned, ended, answered>>

(***************************************************************************)
(* trstAnswer.                                                             *)
(***************************************************************************)
\* findPendingWaitsById, and the branch when the caller names one.
Pending(events, wait) == {i \in OpenWaits(events) : events[i].wait = wait}

AnswerError(events, wait) ==
    CASE events = <<>> -> "unreadable"
      [] Pending(events, wait) = {} -> "notPending"
      [] Cardinality(Pending(events, wait)) > 1 -> "ambiguous"
      [] OTHER -> "none"

\* The wait is looked up in what is read here and answered in the next step.
CallAnswer(wait) ==
    /\ call.stage = "idle"
    /\ LET error == AnswerError(trail, wait)
       IN  call' = [call EXCEPT !.tool = "trst_answer", !.size = wait,
                        !.stage = IF error = "none" THEN "answering" ELSE "over",
                        !.reply = error]
    /\ UNCHANGED <<vars, spawned, ended, answered>>

\* writeWaitAnswerFile, then trstResume when the caller asked for it.
WriteAnswer ==
    /\ call.stage = "answering"
    /\ answered' = answered \cup {call.size}
    /\ \/ Replies("persisted")
       \/ To("reading")
    /\ UNCHANGED <<vars, spawned, ended>>

(***************************************************************************)
(* trstResume.                                                             *)
(***************************************************************************)
ResumeError(events) ==
    IF events = <<>> THEN "unreadable"
    ELSE IF \E i \in DOMAIN events : events[i].type = "workflow.started" THEN "none" ELSE "neverStarted"

ReadRun ==
    /\ call.stage = "reading"
    /\ LET error == ResumeError(trail)
       IN  IF error = "none" THEN To("resolving") ELSE Replies(error)
    /\ UNCHANGED <<vars, spawned, ended, answered>>

\* The size of events.jsonl, then the nonce of the lock, then spawn.
SizeBefore ==
    /\ call.stage = "resolving"
    /\ call' = [call EXCEPT !.stage = "sized", !.size = Len(trail)]
    /\ UNCHANGED <<vars, spawned, ended, answered>>

SpawnContinue ==
    /\ call.stage = "sized"
    /\ pc[Continue] = "idle"
    /\ spawned' = spawned \cup {Continue}
    /\ \E how \in {"none", "noSpawn"} : ended' = [ended EXCEPT ![Continue] = how]
    /\ call' = [call EXCEPT !.stage = "polling", !.holder = lock]
    /\ UNCHANGED <<vars, answered>>

PollSize ==
    /\ call.stage = "polling"
    /\ CASE ended[Continue] = "noSpawn" -> Replies("noSpawn")
         [] ended[Continue] # "noSpawn" /\ Len(trail) > call.size -> Started
         [] OTHER -> To("peeking")
    /\ UNCHANGED <<vars, spawned, ended, answered>>

\* describeEarlyExit
ExitSays ==
    IF ended[Continue] = "ok" /\ pc[Continue] = "done" THEN Started ELSE Replies("exited")

\* The nonce, then the exit; with the budget spent a live continue is only slow.
PeekLock ==
    /\ call.stage = "peeking"
    /\ \/ lock \notin {NoLock, call.holder} /\ Started
       \/ lock \in {NoLock, call.holder} /\ Exited(Continue) /\ ExitSays
       \/ lock \in {NoLock, call.holder} /\ To("polling")
       \/ lock \in {NoLock, call.holder} /\ ~ Exited(Continue) /\ Started
    /\ UNCHANGED <<vars, spawned, ended, answered>>

\* statusFromEvents: the last outcome anywhere in the trail, then its last event.
StatusFromEvents(events) ==
    LET outcomes == {i \in DOMAIN events : events[i].type \in Terminal}
        last == CHOOSE i \in outcomes : \A j \in outcomes : j <= i
    IN  IF outcomes # {} THEN events[last].type
        ELSE IF events = <<>> THEN "unknown"
        ELSE IF EndsWith(events, "wait.started") THEN "waiting" ELSE "running"

ReportStatus ==
    /\ call.stage = "started"
    /\ Replies(StatusFromEvents(trail))
    /\ UNCHANGED <<vars, spawned, ended, answered>>

-----------------------------------------------------------------------------
(***************************************************************************)
(* The processes.                                                          *)
(***************************************************************************)
\* A spawned process leaves before it opens the run.
EndsEarly(a) ==
    /\ a \in spawned
    /\ pc[a] = "idle" /\ ended[a] = "none"
    /\ ended' = [ended EXCEPT ![a] = "early"]
    /\ UNCHANGED <<vars, call, spawned, answered>>

\* The exit codes of continue-command: 0 for a completed, a waiting or a cancelled
\* run, which RunLock calls workflow.failed as well.
ExitCode(a) ==
    IF \/ pc[a] = "parking"
       \/ pc[a] = "answering" /\ trail' = trail
       \/ pc[a] = "driving" /\ EndsWith(trail', "workflow.completed")
    THEN {"ok"}
    ELSE IF pc[a] \in Driving /\ trail' # trail THEN {"ok", "error"} ELSE {"error"}

\* A step of RunLock: a process that has ended takes none, and a continue that
\* finds an answer of the server does not leave the wait unanswered.
RunStep ==
    /\ Next
    /\ \A a \in Attempt : ended[a] \in {"noSpawn", "early"} => pc'[a] = pc[a]
    /\ \A a \in Attempt :
          pc[a] = "answering" /\ at[a] \in answered /\ trail' = trail => pc'[a] # "releasing"
    /\ IF /\ Continue \in spawned /\ ended[Continue] = "none"
          /\ pc[Continue] # pc'[Continue] /\ pc'[Continue] \in {"releasing", "done"}
       THEN \E code \in ExitCode(Continue) : ended' = [ended EXCEPT ![Continue] = code]
       ELSE UNCHANGED ended
    /\ UNCHANGED <<call, spawned, answered>>

McpNext ==
    \/ RunStep
    \/ \E a \in Attempt : EndsEarly(a)
    \/ ListTools \/ CallWithout \/ CallWorkflowTool \/ CallRunWorkflow \/ CallResume
    \/ NoCliEntry \/ SpawnRun \/ PollRun \/ AskRun \/ RecheckRun
    \/ \E wait \in 1 .. MaxWaits : CallAnswer(wait)
    \/ WriteAnswer
    \/ ReadRun \/ SizeBefore \/ SpawnContinue \/ PollSize \/ PeekLock \/ ReportStatus

McpSpec == McpInit /\ [][McpNext]_mcpVars

-----------------------------------------------------------------------------
(***************************************************************************)
(* Properties.                                                             *)
(***************************************************************************)
\* A call ends with a reply, and only attempts that were never opened by
\* somebody else are spawned.
CallTypeOK ==
    /\ call.stage \in {"idle", "over", "starting", "verifying", "asking", "rechecking",
                       "answering", "reading", "resolving", "sized", "polling", "peeking", "started"}
    /\ call.size \in Nat /\ call.holder \in Attempt \cup {NoLock}
    /\ call.stage = "over" <=> call.reply # "none"
    /\ call.listed \subseteq GenericTool \cup {"trst_list", "trst_x"}
    /\ spawned \subseteq Attempt /\ answered \subseteq 1 .. MaxWaits
    /\ ended \in [Attempt -> {"none", "noSpawn", "early", "ok", "error"}]

\* A tool that blames its process (it could not be spawned, it has exited) tells
\* the truth for good: a workflow that was not started is not started later by
\* that process, and a continue that failed drives nothing, so a caller who tries
\* again does not get a second run or a second driver.  The exit, the first
\* append and the reads of the poll come in any order.
FailedCallIsOver ==
    call.reply \in {"exited", "noSpawn"} =>
        IF Continue \in spawned THEN pc[Continue] \notin Running
        ELSE \A i \in DOMAIN trail : trail[i].type # "workflow.started"
=============================================================================
