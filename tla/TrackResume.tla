----------------------------- MODULE TrackResume -----------------------------
(***************************************************************************)
(* A parallel track over several driver processes: which of its branches a *)
(* continue or a retry requeues from the records the last process left on  *)
(* disk, with which node, and from where.  TrackScheduler has the turns of *)
(* one process in detail; here a process begins once the track has split   *)
(* in two branches without groups; a branch may park in its last step.     *)
(***************************************************************************)
EXTENDS Naturals, Sequences, FiniteSets

CONSTANTS
    TrackConf,      \* the tracks: shape, branchIds given, check waits, workers
    MaxSessions,    \* bound on the continues and retries
    MaxTrackCrash   \* bound on the crashes

ASSUME TrackAssumption ==
    TrackConf \subseteq [shape : {"array", "parallel", "parallelPost", "step"}, ids : BOOLEAN,
                         check : BOOLEAN, workers : Nat]

VARIABLES
    track,    \* the track's configuration
    records,  \* track.json and branches/*.json: status and wait of every branch
    rt,       \* SchedulerRuntime, if a process drives the track
    takeup,  \* a continue between its replays and its plan
    waits,    \* wait.started without wait.satisfied, in order, and the answer files
    ended,    \* how the run ended last, in its trail
    tally     \* what happened to every candidate, and the bounded steps

trVars == <<track, records, rt, takeup, waits, ended, tally>>

Child == {"b1", "b2"}
Branch == Child \union {"root"}
\* the order of track.branches: the root of an array has no record
BranchList == IF track.shape = "array" THEN <<"b1", "b2">> ELSE <<"root", "b1", "b2">>
ListIndex(b) == CHOOSE i \in DOMAIN BranchList : BranchList[i] = b
\* the candidate nodes, and the one a branch was split off with
Candidate == 1..2
OwnNode(b) == IF b = "b1" THEN 1 ELSE 2
NoNode == 0

TerminalBranch(status) == status \in {"done", "failed", "cancelled"}
OffTrack == [on |-> FALSE, status |-> [b \in Branch |-> "none"], queue |-> {}, busy |-> {},
             node |-> [b \in Branch |-> NoNode], did |-> {},
             wait |-> {}, resumes |-> {}, terminal |-> "none"]
NoTakeup == [kind |-> "none", resumes |-> {}]

\* createBranchRecord of the branches of the split
TRInit ==
    /\ track \in TrackConf
    /\ LET new == [b \in Branch |-> IF b \in Child THEN "queued"
                                    ELSE IF track.shape = "array" THEN "none" ELSE "split"]
       IN /\ records = [status |-> new, wait |-> {}]
          /\ rt = [OffTrack EXCEPT !.on = TRUE, !.status = new, !.queue = Child,
                                   !.node = [b \in Branch |-> IF b \in Child THEN OwnNode(b) ELSE NoNode]]
    /\ takeup = NoTakeup /\ ended = "live"
    /\ waits = [pending |-> <<>>, answers |-> {}]
    /\ tally = [finished |-> [c \in Candidate |-> 0], excused |-> [c \in Candidate |-> 0],
                sessions |-> 0, crashes |-> 0]

-----------------------------------------------------------------------------
\* persistBranch: what a record keeps of a branch
Persisted(r, bs) ==
    [status |-> [b \in Branch |-> IF b \in bs THEN r.status[b] ELSE records.status[b]],
     wait |-> (records.wait \ bs) \union (r.wait \intersect bs)]

\* terminalizeTrack: the first result is the track's; unless a branch waits, the
\* queue is emptied and the other open branches are cancelled, a split root too
TrackTerminal(r, b, kind) ==
    IF r.terminal # "none" THEN r
    ELSE IF kind = "waiting" THEN [r EXCEPT !.terminal = kind]
    ELSE [r EXCEPT !.terminal = kind, !.queue = {},
                   !.status = [c \in Branch |-> IF c = b \/ TerminalBranch(@[c]) \/ @[c] = "none"
                                               THEN @[c] ELSE "cancelled"]]

\* runBranch: a resumed branch goes on at its wait, another begins with its node
StartBranch(b) ==
    /\ rt.on /\ rt.terminal = "none" /\ b \in rt.queue /\ Cardinality(rt.busy) < track.workers
    /\ rt' = [rt EXCEPT !.queue = @ \ {b}, !.busy = @ \union {b}, !.status[b] = "running"]
    /\ records' = Persisted(rt', {b})
    /\ UNCHANGED <<track, takeup, waits, ended, tally>>

\* the wait a branch was resumed at is satisfied by its answer or its check
WithoutWait(b) == [pending |-> SelectSeq(waits.pending, LAMBDA c : c # b), answers |-> waits.answers \ {b}]
PassWait(b) ==
    /\ b \in rt.busy /\ b \notin rt.did /\ b \in rt.resumes
    /\ rt' = [rt EXCEPT !.resumes = @ \ {b}]
    /\ waits' = WithoutWait(b)
    /\ UNCHANGED <<track, records, takeup, ended, tally>>

\* bs may do their last step once more
Excuse(count, bs) == [count EXCEPT !.excused = [c \in Candidate |->
                         IF \E b \in bs : OwnNode(b) = c /\ count.finished[c] > @[c] THEN @[c] + 1 ELSE @[c]]]

\* the last step of a branch does its work; its end is recorded later
FinishBranch(b) ==
    /\ b \in rt.busy /\ b \notin rt.did /\ b \notin rt.resumes
    /\ rt' = [rt EXCEPT !.did = @ \union {b}]
    /\ tally' = Excuse([tally EXCEPT !.finished[rt.node[b]] = @ + 1],
                      IF rt.status[b] = "cancelled" THEN {b} ELSE {})
    /\ UNCHANGED <<track, records, takeup, waits, ended>>

\* the last step parks: a resumed check that does not pass keeps its wait, any
\* other opens a new one, which no answer is for
ParkBranch(b) ==
    /\ b \in rt.busy /\ b \notin rt.did
    /\ b \in rt.resumes => track.check
    /\ rt' = LET left == [rt EXCEPT !.busy = @ \ {b}]
             IN IF rt.terminal \notin {"none", "waiting"} THEN left
                ELSE TrackTerminal([left EXCEPT !.wait = @ \union {b}, !.status[b] = "waiting"], b, "waiting")
    /\ waits' = [WithoutWait(b) EXCEPT !.pending = Append(@, b)]
    /\ records' = Persisted(rt', {b})
    /\ UNCHANGED <<track, takeup, ended, tally>>

\* runBranch takes the result of a branch; that of a branch the track cancelled
\* is dropped, though it finished
SettleBranch(b) ==
    /\ b \in rt.busy
    /\ \E result \in {"done", "failed", "cancelled"} :
          /\ result = "done" <=> b \in rt.did
          /\ LET open == rt.terminal \in {"none", "waiting"}
                 settled == [rt EXCEPT !.busy = @ \ {b}, !.did = @ \ {b}, !.status[b] = IF open THEN result ELSE @]
             IN /\ rt' = IF open /\ result # "done" THEN TrackTerminal(settled, b, result) ELSE settled
                /\ records' = Persisted(rt', IF rt'.terminal = rt.terminal THEN {b} ELSE Branch)
                /\ tally' = Excuse(tally, {c \in Child : /\ rt.status[c] \notin {"cancelled", "done"}
                                                         /\ rt'.status[c] = "cancelled"})
    /\ UNCHANGED <<track, takeup, waits, ended>>

\* runRootContinuationArrayScheduler returns: a track without a result is completed
ReturnTrack ==
    /\ rt.on /\ rt.busy = {} /\ (rt.queue = {} \/ rt.terminal # "none")
    /\ records' = Persisted(rt, Branch)
    /\ ended' = IF rt.terminal = "none" THEN "completed" ELSE rt.terminal
    /\ rt' = OffTrack
    /\ UNCHANGED <<track, takeup, waits, tally>>

CrashTrack ==
    /\ rt.on /\ tally.crashes < MaxTrackCrash
    /\ tally' = [tally EXCEPT !.crashes = @ + 1]
    /\ rt' = OffTrack /\ ended' = "crashed"
    /\ UNCHANGED <<track, records, takeup, waits>>

\* trailstep answer, at any time, for a wait that is pending
AnswerWait ==
    /\ ~track.check
    /\ \E i \in DOMAIN waits.pending :
          /\ waits.pending[i] \notin waits.answers
          /\ waits' = [waits EXCEPT !.answers = @ \union {waits.pending[i]}]
    /\ UNCHANGED <<track, records, rt, takeup, ended, tally>>

-----------------------------------------------------------------------------
\* Mutant: a retry also takes up the branches left running
SelectOpen(mode, name) ==
    CASE mode = "default" -> {b \in Branch : records.status[b] \in {"failed", "waiting", "cancelled", "running"}}
      [] mode = "failed-only" -> {b \in Branch : records.status[b] = "failed"}
      [] mode = "wait-answered" -> {b \in Branch : records.status[b] = "waiting" /\ b \in records.wait}
      [] mode = "branch" -> {name}

\* selectPersistedBranchesForRetry, by the mode of the retry
SelectBranches(mode, name) ==
    CASE mode = "default" -> {b \in Branch : records.status[b] \in {"failed", "waiting", "cancelled"}}
      [] mode = "failed-only" -> {b \in Branch : records.status[b] = "failed"}
      [] mode = "wait-answered" -> {b \in Branch : records.status[b] = "waiting" /\ b \in records.wait}
      [] mode = "branch" -> {name}

\* the node a branch is requeued with: by the branchId it asked for, by its place
\* among the children of a root parallel node, or by its place in the list
RequeueNode(b) ==
    IF track.shape = "step" THEN IF ListIndex(b) = 1 THEN 1 ELSE NoNode
    ELSE IF track.ids THEN OwnNode(b)
    ELSE IF track.shape = "parallel"
         THEN Cardinality({i \in 1..ListIndex(b) : BranchList[i] \in Child})
         ELSE ListIndex(b)

\* the root of a root parallel node is never requeued
Requeued(selected) == IF track.shape = "parallel" THEN selected \ {"root"} ELSE selected

\* createPersistedTrackRetryPlan refuses parallel .post joins, split branches, and
\* branches whose node is not among the workflow's candidates
RefusesPlan(selected) ==
    \/ track.shape = "parallelPost"
    \/ \E b \in Requeued(selected) : records.status[b] = "split" \/ RequeueNode(b) = NoNode

\* the process that takes the track up; the waits of the requeued are forgotten
\* unless it is a continue
TakeUp(mode, name, resumes) ==
    LET selected == SelectBranches(mode, name)
        queue == Requeued(selected)
    IN IF RefusesPlan(selected) THEN ended' = "failed" /\ UNCHANGED <<rt, records>>
       ELSE /\ rt' = [OffTrack EXCEPT
                        !.on = TRUE, !.queue = queue, !.resumes = resumes \intersect queue,
                        !.status = [b \in Branch |-> IF b \in queue THEN "queued" ELSE records.status[b]],
                        !.wait = IF mode = "wait-answered" THEN records.wait ELSE records.wait \ queue,
                        !.node = [b \in Branch |-> IF b \notin queue THEN NoNode
                                                   ELSE IF b \in resumes THEN OwnNode(b) ELSE RequeueNode(b)]]
            /\ ended' = "live" /\ UNCHANGED records

Opens == ~rt.on /\ takeup = NoTakeup /\ tally.sessions < MaxSessions
CountSession == tally' = [tally EXCEPT !.sessions = @ + 1]

\* findAnsweredParallelBranches
AnsweredBranches ==
    {b \in records.wait : records.status[b] = "waiting" /\ b \in waits.answers}

\* trailstep continue: the answered branches are replayed to their waits, or the
\* branch of the latest pending wait if it is a check
ContinueReads ==
    /\ Opens /\ CountSession
    /\ LET answered == AnsweredBranches
           latest == waits.pending[Len(waits.pending)]
       IN \/ answered # {} /\ takeup' = [kind |-> "continue", resumes |-> answered]
          \/ /\ answered = {} /\ track.check /\ waits.pending # <<>>
             /\ takeup' = [kind |-> "continue", resumes |-> {latest}]
    /\ UNCHANGED <<track, records, rt, waits, ended>>

\* the plan of the continue reads the records anew
ContinuePlans ==
    /\ takeup.kind = "continue"
    /\ TakeUp("wait-answered", "none", takeup.resumes)
    /\ takeup' = NoTakeup
    /\ UNCHANGED <<track, waits, tally>>

\* trailstep retry, --failed-only or --branch with a branch of the split
RetryTrack ==
    /\ Opens
    /\ \E mode \in {"default", "failed-only", "branch"}, name \in Child :
          /\ mode # "branch" => name = "b1"
          /\ TakeUp(mode, name, {})
          /\ tally' = Excuse([tally EXCEPT !.sessions = @ + 1], IF mode = "branch" THEN {name} ELSE {})
    /\ UNCHANGED <<track, takeup, waits>>

TRNext ==
    \/ \E b \in Child : \/ StartBranch(b) \/ PassWait(b) \/ FinishBranch(b)
                        \/ ParkBranch(b) \/ SettleBranch(b)
    \/ ReturnTrack \/ CrashTrack \/ AnswerWait
    \/ ContinueReads \/ ContinuePlans \/ RetryTrack

TRSpec == TRInit /\ [][TRNext]_trVars

-----------------------------------------------------------------------------
TRTypeOK ==
    /\ \A b \in Branch : /\ records.status[b] \in {"none", "queued", "running", "split", "waiting",
                                                   "done", "failed", "cancelled"}
                         /\ rt.status[b] = "none" \/ b = "root" \/ rt.on
                         /\ rt.node[b] \in 0..2 /\ b \in rt.did => b \in rt.busy
    /\ rt.queue \union rt.busy \subseteq Child /\ rt.queue \intersect rt.busy = {}
    /\ rt.terminal \in {"none", "waiting", "failed", "cancelled"}
    /\ takeup.resumes \subseteq Child
    /\ records.wait \union rt.wait \union waits.answers \subseteq Child
    /\ ended \in {"live", "waiting", "completed", "failed", "cancelled", "crashed"}
    /\ tally.sessions \in 0..MaxSessions /\ tally.crashes \in 0..MaxTrackCrash

\* However often a track is continued and retried, and wherever its processes end,
\* every branch node does its last step once: unless a retry names the branch, or
\* a sibling decides the track before the branch's end is on disk, so that it is
\* recorded cancelled (scheduler-retry-plan.ts:181).
BranchFinishesOnce ==
    \A c \in Candidate : tally.finished[c] <= 1 + tally.excused[c]
=============================================================================
