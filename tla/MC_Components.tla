--------------------------- MODULE MC_Components ---------------------------
(***************************************************************************)
(* The components that share no state with each other, each on its own     *)
(* small instance: a behaviour is one of the component it starts with, and *)
(* the others stay in one initial state.                                   *)
(***************************************************************************)
EXTENDS ContinuationLoop, SharedState, RunFiles, RunCycles, InteractiveSession, WorkingAgent, StoryFlow, Packages, Delegate, TrackResume, SubPrompts

CONSTANT Component  \* the components a behaviour may be of
VARIABLE component
Is(c) == component = c

\* RunCycles: workflows that loop over a prompt and over waits, one with a
\* non-idempotent step, one with an error continuation
Author(phases, onOne, onTwo, onError) ==
    [phases |-> phases, to |-> <<onOne, onTwo>>, onError |-> onError]
MCProgram ==
    {[a |-> Author(<<"prompt", "do">>, "b", "a", "none"), b |-> Author(<<"w", "do">>, "done", "a", "none")],
     [a |-> Author(<<"w", "do">>, "done", "a", "none")], [a |-> Author(<<"do">>, "done", "done", "none")],
     [a |-> Author(<<"u", "w", "do">>, "done", "done", "none")],
     [a |-> Author(<<"prompt", "w", "do">>, "c", "a", "none"),
      c |-> Author(<<"once">>, "done", "done", "none")],
     [a |-> Author(<<"prompt", "do">>, "done", "a", "c"), c |-> Author(<<"do">>, "done", "done", "none")]}

\* WorkingAgent: no target, one of each kind, fallbacks
MCTargetList == {<<>>, <<"unsupported", "custom">>, <<"custom", "manifest">>, <<"twoPhase", "custom">>}

\* StoryFlow: every input at least once
MCFlowInput == {[auto |-> TRUE, checkpoint |-> TRUE], [auto |-> FALSE, checkpoint |-> FALSE]}

\* Delegate: alone and in a fleet, each policy and each place of a worktree
Tree(enabled, path, branch) == [enabled |-> enabled, path |-> path, branch |-> branch]
NoTree == Tree(<<>>, <<>>, <<>>)
Managed == Tree(<<TRUE>>, <<>>, <<>>)
Task(id, delegate, mode, cwd, worktree, turns) ==
    [id |-> id, delegate |-> delegate, mode |-> mode, cwd |-> cwd, worktree |-> worktree, maxTurns |-> turns]
Fleet(lone, cwd, worktree, turns, cleanup, force, tasks) ==
    [lone |-> lone, cwd |-> cwd, worktree |-> worktree, maxTurns |-> turns,
     cleanup |-> cleanup, force |-> force, tasks |-> tasks]
MCFleetInput ==
    {Fleet(TRUE, <<>>, NoTree, <<>>, "auto", FALSE, <<Task("map", <<>>, <<>>, <<>>, NoTree, <<3>>)>>),
     Fleet(TRUE, <<>>, NoTree, <<>>, "auto", FALSE, <<Task("map", <<>>, <<>>, <<"dir">>, Managed, <<>>)>>),
     Fleet(TRUE, <<>>, NoTree, <<>>, "always", FALSE, <<Task("map", <<>>, <<>>, <<>>, Managed, <<>>)>>),
     Fleet(FALSE, <<>>, Managed, <<>>, "auto", FALSE,
           <<Task("api client", <<"fixer">>, <<>>, <<>>, NoTree, <<0>>),
             Task("map", <<>>, <<"explore">>, <<>>, NoTree, <<>>)>>),
     Fleet(FALSE, <<>>, Tree(<<TRUE>>, <<"shared">>, <<>>), <<1>>, "always", TRUE,
           <<Task("api client", <<>>, <<"explore">>, <<>>, NoTree, <<>>),
             Task("map", <<>>, <<"explore">>, <<>>, NoTree, <<>>)>>),
     Fleet(FALSE, <<"dir">>, Managed, <<>>, "never", FALSE,
           <<Task("api client", <<>>, <<>>, <<>>, NoTree, <<>>), Task("map", <<>>, <<>>, <<>>, NoTree, <<>>)>>),
     Fleet(FALSE, <<>>, NoTree, <<>>, "auto", FALSE,
           <<Task("api client", <<>>, <<>>, <<>>, NoTree, <<>>), Task("api-client", <<>>, <<>>, <<>>, NoTree, <<>>)>>)}
MCDefaultTurns == [d \in {"general", "explore", "relentless-debugger"} |-> IF d = "explore" THEN 1 ELSE 2]

\* TrackResume: each shape of a track, as far as its retry plan tells them apart
Shape(shape, ids, check, workers) == [shape |-> shape, ids |-> ids, check |-> check, workers |-> workers]
MCTrackConf == {Shape("array", TRUE, FALSE, 2), Shape("array", FALSE, TRUE, 1), Shape("parallel", FALSE, TRUE, 2),
                Shape("parallelPost", TRUE, FALSE, 2), Shape("step", FALSE, FALSE, 2)}

\* SubPrompts: calls in turn, whose step raises the limit or which set their own, and
\* calls side by side
Asks(chains, quotes, stepLimit, callLimit) ==
    [chains |-> chains, quotes |-> quotes, stepLimit |-> stepLimit, callLimit |-> callLimit]
MCSubConf == {Asks(<< <<"x", "x">> >>, TRUE, 2, 0), Asks(<< <<"x">>, <<"x">> >>, FALSE, 0, 2),
              Asks(<< <<"x", "y">> >>, FALSE, 0, 2)}

\* a component that is not the one at work stays in one initial state
Init ==
    /\ component \in Component
    /\ IF Is("loop") THEN TRUE ELSE entry = Loop("branch", Root, "entering", <<>>)
    /\ CLInit
    /\ IF Is("loop") THEN TRUE ELSE node.kind = "step"
    /\ IF Is("state") THEN TRUE ELSE kind = "run"
    /\ SSInit
    /\ IF Is("files") THEN TRUE ELSE ignore = "missing"
    /\ RFInit
    /\ IF Is("cycles") THEN TRUE ELSE prog = CHOOSE p \in Program : TRUE
    /\ RCInit
    /\ IF Is("session") THEN TRUE ELSE expects = "json"
    /\ ISInit
    /\ IF Is("agents") THEN TRUE ELSE targets = [list |-> <<>>, timeout |-> 0]
    /\ WAInit
    /\ SFInit
    /\ IF Is("stories") THEN TRUE ELSE keys.auto /\ changes = {}
    /\ PKInit
    /\ IF Is("packages") THEN TRUE ELSE modules["cwd"] = 0 /\ declared["cwd"] = 0
    /\ DGInit
    /\ IF Is("delegates") THEN TRUE ELSE order.managed /\ order.force
    /\ IF Is("tracks") THEN TRUE ELSE track = CHOOSE t \in TrackConf : TRUE
    /\ TRInit
    /\ IF Is("subPrompts") THEN TRUE ELSE handler = CHOOSE h \in SubConf : TRUE
    /\ SPInit

LoopNext == /\ Is("loop") /\ CLNext
            /\ UNCHANGED <<component, ssVars, rfVars, rcVars, isVars, waVars, sfVars, pkVars, dgVars, trVars, spVars>>
StateNext == /\ Is("state") /\ SSNext
             /\ UNCHANGED <<component, clVars, rfVars, rcVars, isVars, waVars, sfVars, pkVars, dgVars, trVars, spVars>>
FilesNext == /\ Is("files") /\ RFNext
             /\ UNCHANGED <<component, clVars, ssVars, rcVars, isVars, waVars, sfVars, pkVars, dgVars, trVars, spVars>>
CyclesNext == /\ Is("cycles") /\ RCNext
              /\ UNCHANGED <<component, clVars, ssVars, rfVars, isVars, waVars, sfVars, pkVars, dgVars, trVars, spVars>>
SessionNext == /\ Is("session") /\ ISNext
             /\ UNCHANGED <<component, clVars, ssVars, rfVars, rcVars, waVars, sfVars, pkVars, dgVars, trVars, spVars>>
AgentsNext == /\ Is("agents") /\ WANext
             /\ UNCHANGED <<component, clVars, ssVars, rfVars, rcVars, isVars, sfVars, pkVars, dgVars, trVars, spVars>>
StoriesNext == /\ Is("stories") /\ SFNext
             /\ UNCHANGED <<component, clVars, ssVars, rfVars, rcVars, isVars, waVars, pkVars, dgVars, trVars, spVars>>
PackagesNext == /\ Is("packages") /\ PKNext
             /\ UNCHANGED <<component, clVars, ssVars, rfVars, rcVars, isVars, waVars, sfVars, dgVars, trVars, spVars>>
DelegatesNext == /\ Is("delegates") /\ DGNext
             /\ UNCHANGED <<component, clVars, ssVars, rfVars, rcVars, isVars, waVars, sfVars, pkVars, trVars, spVars>>
TracksNext == /\ Is("tracks") /\ TRNext
             /\ UNCHANGED <<component, clVars, ssVars, rfVars, rcVars, isVars, waVars, sfVars, pkVars, dgVars, spVars>>
SubPromptsNext == /\ Is("subPrompts") /\ SPNext
             /\ UNCHANGED <<component, clVars, ssVars, rfVars, rcVars, isVars, waVars, sfVars, pkVars, dgVars, trVars>>
Next == LoopNext \/ StateNext \/ FilesNext \/ CyclesNext \/ SessionNext \/ AgentsNext \/ StoriesNext \/ PackagesNext \/ DelegatesNext \/ TracksNext \/ SubPromptsNext

vars == <<component, clVars, ssVars, rfVars, rcVars, isVars, waVars, sfVars, pkVars, dgVars, trVars, spVars>>
Spec == Init /\ [][Next]_vars

\* The component at work keeps the types of its variables.
TypeOK ==
    /\ Is("loop") => CLTypeOK
    /\ Is("state") => SSTypeOK
    /\ Is("files") => RFTypeOK
    /\ Is("cycles") => RCTypeOK
    /\ Is("session") => ISTypeOK
    /\ Is("agents") => WATypeOK
    /\ Is("stories") => SFTypeOK
    /\ Is("packages") => PKTypeOK
    /\ Is("delegates") => DGTypeOK
    /\ Is("tracks") => TRTypeOK
    /\ Is("subPrompts") => SPTypeOK
=============================================================================
