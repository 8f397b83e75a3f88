---------------------------- MODULE MC_Branches ----------------------------
(***************************************************************************)
(* Inside one driver process: the branches of a track from the split to    *)
(* the result, or the attempts of a step that one branch or two are at.    *)
(***************************************************************************)
EXTENDS TrackScheduler, StepAttempts

VARIABLE part  \* whose behaviour it is

\* A step of each shape the attempt loop tells apart.
Ph(k, i) == [kind |-> k, id |-> i]
Shape(phases, attempts, always, idempotent, handler, timeout, nodes) ==
    [phases |-> phases, attempts |-> attempts, always |-> always, idempotent |-> idempotent,
     handler |-> handler, timeout |-> timeout, nodes |-> nodes,
     badCwd |-> Len(phases) < 2, parallel |-> Len(phases) = 1 /\ ~timeout]
MCVisit == {1, 2}
MCStepConf ==
    {Shape(<<Ph("input", "w1"), Ph("do", "-")>>, <<0, 0, 0>>, TRUE, TRUE, FALSE, FALSE, {"next", "fail"}),
     Shape(<<Ph("prompt", "-"), Ph("do", "-")>>, <<0, 0, 0>>, FALSE, TRUE, FALSE, TRUE, {"next"}),
     Shape(<<Ph("check", "w1"), Ph("do", "-")>>, <<0, 0, 0>>, TRUE, FALSE, FALSE, TRUE, {"next", "split"}),
     Shape(<<Ph("do", "-")>>, <<0, 2, 3>>, TRUE, TRUE, TRUE, FALSE, {"fail", "unsupported", "absolute"}),
     Shape(<<Ph("display", "-"), Ph("do", "-")>>, <<0, 0, 0>>, TRUE, TRUE, FALSE, FALSE,
           {"fail", "invalid", "next"})}

\* The part that is not at work stays in one initial state.
MCInit ==
    /\ part \in {"track", "step"}
    /\ Init /\ SAInit
    /\ IF part = "track" THEN conf = CHOOSE c \in StepConf : TRUE ELSE created = 1

\* The step is over: no visit goes on, and no promise of an attempt.
StepOver ==
    /\ \A v \in Visit : ~Live(v)
    /\ \A a \in DOMAIN work : work[a] \in {NoWork, Gone}
    /\ UNCHANGED saVars

MCNext ==
    \/ part = "track" /\ Next /\ UNCHANGED <<part, saVars>>
    \/ part = "step" /\ (SANext \/ StepOver) /\ UNCHANGED <<part, vars>>

\* The part at work is fair: Fairness of the track, SAFairness of the step.
MCSpec ==
    /\ MCInit /\ [][MCNext]_<<part, vars, saVars>>
    /\ WF_vars(part = "track" /\ Turn)
    /\ \A v \in Visit : /\ WF_saVars(part = "step" /\ Control(v))
                        /\ WF_saVars(part = "step" /\ Poll(v))

\* The part at work keeps the types of its variables.
BranchesTypeOK ==
    /\ part = "track" => TypeOK
    /\ part = "step" => SATypeOK

\* The scheduler of a track always comes back, with every worker gone.
TrackTerminates == part = "track" => Terminates
=============================================================================
