---------------------------- MODULE RunSummaries ----------------------------
(***************************************************************************)
(* What the trail of a run says of it: the status `trailstep runs` shows   *)
(* and storage gc acts on (runtime/runs/run-summaries.ts), and the failure *)
(* a retry starts from (runtime/retry/latest-unresolved-failure.ts).       *)
(*                                                                         *)
(* A trail is a sequence of events.  An event names its step (NoStep for   *)
(* those of the workflow); workflow.retryStarted holds the position of the *)
(* failure it retries, 0 when it names none.                               *)
(***************************************************************************)
EXTENDS Naturals, Sequences

StepEnd == {"step.completed", "step.failed", "step.cancelled"}
RunEnd  == {"workflow.completed", "workflow.failed", "workflow.cancelled"}
EventType == StepEnd \cup RunEnd \cup {"workflow.started", "workflow.resumed",
                "workflow.retryStarted", "step.started", "wait.started"}

Positions(events, types) == {i \in DOMAIN events : events[i].type \in types}

\* The greatest of a set of positions, 0 when there is none.
Latest(positions) ==
    CHOOSE i \in positions \cup {0} : \A j \in positions \cup {0} : i >= j

(***************************************************************************)
(* selectLatestUnresolvedFailure scans from the end and counts, step by    *)
(* step, the ends no start has claimed yet: UnclaimedEnds(e, s)[i] is that *)
(* count when the scan has passed position i.                              *)
(***************************************************************************)
UnclaimedEnds(events, step) ==
    LET count[i \in 1 .. Len(events) + 1] ==
            IF i > Len(events) THEN 0
            ELSE IF events[i].step # step THEN count[i + 1]
            ELSE IF events[i].type \in StepEnd THEN count[i + 1] + 1
            ELSE IF events[i].type = "step.started" /\ count[i + 1] > 0
                 THEN count[i + 1] - 1
            ELSE count[i + 1]
    IN  count

IsOpenStart(events, i) ==
    /\ events[i].type = "step.started"
    /\ UnclaimedEnds(events, events[i].step)[i + 1] = 0

IsResolved(events, i) ==
    \E r \in Positions(events, {"workflow.retryStarted"}) : events[r].source = i

\* Mutant: a failure from before the end of the workflow counts.
FailureEvenIfEnded(events) ==
    LET end == Latest(Positions(events, {"workflow.completed", "workflow.cancelled"}))
        failures == Positions(events, {"workflow.failed"})
        stepFailures ==
            {i \in DOMAIN events :
                /\ ~ IsResolved(events, i)
                /\ \/ events[i].type = "step.failed"
                   \/ IsOpenStart(events, i) /\ \A f \in failures : f < i}
    IN  IF stepFailures # {} THEN Latest(stepFailures)
        ELSE IF end # 0 THEN 0
        ELSE Latest({f \in failures : ~ IsResolved(events, f)})

LatestUnresolvedFailure(events) ==
    LET end == Latest(Positions(events, {"workflow.completed", "workflow.cancelled"}))
        failures == Positions(events, {"workflow.failed"})
        stepFailures ==
            {i \in DOMAIN events :
                /\ i > end
                /\ ~ IsResolved(events, i)
                /\ \/ events[i].type = "step.failed"
                   \/ IsOpenStart(events, i) /\ \A f \in failures : f < i}
    IN  IF stepFailures # {} THEN Latest(stepFailures)
        ELSE IF end # 0 THEN 0
        ELSE Latest({f \in failures : ~ IsResolved(events, f)})

\* selectTerminalStatus: the last end of the workflow, "none" without one.
TerminalStatus(events) ==
    LET end == Latest(Positions(events, RunEnd))
    IN  CASE end = 0 -> "none"
          [] end # 0 /\ events[end].type = "workflow.completed" -> "completed"
          [] end # 0 /\ events[end].type = "workflow.failed" -> "failed"
          [] end # 0 /\ events[end].type = "workflow.cancelled" -> "cancelled"

\* summarizeReadableRun.  A trail that cannot be read is the empty one.
Status(events) ==
    LET terminal == TerminalStatus(events)
    IN  IF events = <<>> THEN "unknown"
        ELSE IF terminal \in {"completed", "cancelled"} THEN terminal
        ELSE IF LatestUnresolvedFailure(events) # 0 THEN "failed"
        ELSE IF terminal = "none" THEN "active"
        ELSE terminal
=============================================================================
