------------------------------ MODULE RunWatch ------------------------------
(***************************************************************************)
(* trst_watch (packages/mcp/src/tools/trst_watch.ts) beside the attempts   *)
(* of RunLock: one call of the MCP tool that tells an orchestrating agent  *)
(* whether a run is worth waiting for.  It reads events.jsonl, polls it    *)
(* for growth, then reads run.lock: attempts move between any two reads.   *)
(* The polls that find nothing and the classifications inside the polling  *)
(* loop only decide when the call stops waiting, which may be at any time. *)
(***************************************************************************)
EXTENDS RunLock

VARIABLE watch      \* where the call stands, events it has read, its verdict

watchVars == <<vars, watch>>

Verdict == {"none", "started", "in-progress", "terminal", "crashed"}

WatchInit == Init /\ watch = [stage |-> "idle", seen |-> 0, verdict |-> "none"]

\* Mutant: the trail alone decides.
ClassifyByTrail(events, holder) ==
    IF HasTerminal(events) THEN "terminal"
    ELSE IF events = <<>> THEN "started"
    ELSE IF EndsWith(events, "wait.started") THEN "in-progress"
    ELSE "crashed"

\* classifyRunState
Classify(events, holder) ==
    IF HasTerminal(events) THEN "terminal"
    ELSE IF events = <<>> THEN "started"
    ELSE IF IsLive(holder) THEN "in-progress"
    ELSE IF EndsWith(events, "wait.started") THEN "in-progress"
    ELSE "crashed"

\* Mutant: the cursor stands one past the last line.
WatchTrailPast ==
    /\ trail # <<>> \/ pc[Fresh] = "locked"
    /\ watch.stage = "idle"
    /\ watch' = [watch EXCEPT !.stage = "polling", !.seen = Len(trail) + 1]
    /\ UNCHANGED vars

\* The file must exist; the first append creates it before it fills it.
WatchTrail ==
    /\ trail # <<>> \/ pc[Fresh] = "locked"
    /\ watch.stage = "idle"
    /\ watch' = [watch EXCEPT !.stage = "polling", !.seen = Len(trail)]
    /\ UNCHANGED vars

\* readRunEventsSince finds complete lines past the first read: the loop ends.
WatchGrowth ==
    /\ watch.stage = "polling"
    /\ Len(trail) > watch.seen
    /\ watch' = [watch EXCEPT !.stage = "settling", !.seen = Len(trail)]
    /\ UNCHANGED vars

WatchReports ==
    /\ watch.stage \in {"polling", "settling"}
    /\ watch' = [watch EXCEPT !.stage = "over",
                              !.verdict = Classify(SubSeq(trail, 1, watch.seen), lock)]
    /\ UNCHANGED vars

WatchNext ==
    \/ Next /\ UNCHANGED watch
    \/ WatchTrail \/ WatchGrowth \/ WatchReports

WatchSpec == WatchInit /\ [][WatchNext]_watchVars

-----------------------------------------------------------------------------
(***************************************************************************)
(* Properties.                                                             *)
(***************************************************************************)

\* The call reads a prefix of the trail and ends with one of the four states.
WatchTypeOK ==
    /\ watch \in [stage : {"idle", "polling", "settling", "over"},
                  seen : 0 .. Len(trail), verdict : Verdict]
    /\ watch.stage = "over" <=> watch.verdict # "none"

\* A trst_watch call returns with this verdict in this step.
Reports(verdict) ==
    watch.stage # "over" /\ watch'.stage = "over" /\ watch'.verdict = verdict

\* trst_watch never calls a run crashed while an attempt drives it, whatever was
\* appended, taken or released between its read of the trail and of the lock.
NotCrashedWhileDriven ==
    [][Reports("crashed") /\ ~ raced => \A a \in Attempt : pc[a] \notin Holding]_watchVars

\* A verdict of crashed that rests on the whole trail has a cause: a process died
\* with the run in its hands, or a wait is open.  Every return records its outcome
\* before it gives up the lock, so no orderly end it has read looks like a crash.
CrashedForCause ==
    [][Reports("crashed") /\ ~ raced /\ watch.seen = Len(trail)
         => \/ \E a \in Attempt : pc[a] = "crashed"
            \/ LatestPendingWait(trail) # 0]_watchVars

\* trst_watch.ts: "A run parked on a durable wait has no process by design; [...]
\* and the run is not crashed."  Nothing raced, nothing died, the trail is whole.
ParkedIsNotCrashed ==
    [][Reports("crashed") /\ ~ raced /\ watch.seen = Len(trail)
         /\ (\A a \in Attempt : pc[a] # "crashed")
         => LatestPendingWait(trail) = 0]_watchVars
=============================================================================
