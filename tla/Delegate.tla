------------------------------- MODULE Delegate -------------------------------
(***************************************************************************)
(* A delegate of the package sub-agents: turns of a working agent, with    *)
(* questions to the parent between them, in a worktree it may manage.      *)
(*                                                                         *)
(* A handler writes its keys one after the other, so that a crash leaves a *)
(* prefix of them; a retry replays the completed steps without writing and *)
(* executes the interrupted one again.  git is external, modelled by what  *)
(* its commands do or refuse; others work in the repository meanwhile.     *)
(***************************************************************************)
EXTENDS Naturals, Sequences

CONSTANTS
    FleetInput,     \* inputs of delegateParallel; a lone delegate is a fleet of one
    DefaultTurns,   \* the maxTurns a delegate workflow sets if the input has none
    ParentAnswer,   \* what a parent may answer
    DelegateCrash   \* bound on the crashes, and on the retries of a failure

VARIABLES
    order,   \* the normalized input
    job,     \* the step at work, its turn, and how far its handler is
    memo,    \* the durable keys of the branch's state
    git,     \* the worktree and its branch, and the places siblings took
    given,   \* the answers the parent gave
    wrecks,  \* crashes and retries so far
    discarded  \* the work that no worktree and no branch holds any more

dgVars == <<order, job, memo, git, given, wrecks, discarded>>

-----------------------------------------------------------------------------
\* an optional value is a sequence of at most one element
Or(option, default) == IF option = <<>> THEN default ELSE option[1]
Either(option, fallback) == IF option = <<>> THEN fallback ELSE option

\* stableSegment: ids that differ in separators only have one segment
StableSegment(id) == IF id = "api client" THEN "api-client" ELSE id

\* the workflow a task runs, and with it the number of turns
DelegateWorkflowForTask(task) ==
    IF task.delegate = <<>> THEN Or(task.mode, "general")
    ELSE IF task.delegate[1] = "fixer" THEN "relentless-debugger" ELSE task.delegate[1]

\* normalizeMaxTurns
NormalizeMaxTurns(turns) == IF turns = 0 THEN 1 ELSE turns

\* normalizeTaskWorktree: a task that does not name its place gets the parent's
\* or one of its own
NormalizeTaskWorktree(parent, task) ==
    LET w == task.worktree
        enabled == Or(Either(w.enabled, parent.worktree.enabled), FALSE)
    IN IF task.cwd # <<>> \/ parent.cwd # <<>>
       THEN [managed |-> Or(w.enabled, FALSE), path |-> w.path, branch |-> w.branch]
       ELSE IF ~enabled THEN [managed |-> FALSE, path |-> <<>>, branch |-> <<>>]
       ELSE [managed |-> TRUE,
             path |-> <<Or(Either(w.path, parent.worktree.path), StableSegment(task.id))>>,
             branch |-> <<Or(Either(w.branch, parent.worktree.branch), StableSegment(task.id))>>]

\* normalizeDelegateParallelTasks: ids must differ, and their segments too
BlockedFleet(input) ==
    \/ input.tasks = <<>>
    \/ \E i, j \in DOMAIN input.tasks :
          i < j /\ StableSegment(input.tasks[i].id) = StableSegment(input.tasks[j].id)

\* normalizeDelegateInput of the i-th task, the run's name for a place not named
NormalizeDelegateInput(input, i) ==
    LET task == input.tasks[i]
        worktree == IF input.lone
                    THEN [managed |-> Or(task.worktree.enabled, FALSE),
                          path |-> task.worktree.path, branch |-> task.worktree.branch]
                    ELSE NormalizeTaskWorktree(input, task)
    IN [cwd |-> task.cwd # <<>> \/ input.cwd # <<>>, managed |-> worktree.managed,
        path |-> Or(worktree.path, "run"), branch |-> Or(worktree.branch, "run"),
        named |-> worktree.branch # <<>>,
        maxTurns |-> NormalizeMaxTurns(Or(Either(task.maxTurns, input.maxTurns),
                                          DefaultTurns[DelegateWorkflowForTask(task)])),
        cleanup |-> input.cleanup, force |-> input.force]

-----------------------------------------------------------------------------
NoTurnOutput == [status |-> "none", asks |-> FALSE]
StepOf(step, turn) ==
    [step |-> step, turn |-> turn, pc |-> "start", out |-> NoTurnOutput, seen |-> {}, status |-> "live",
     report |-> <<>>]

\* the first task of the fleet is the delegate at work, the others its siblings
DGInit ==
    /\ \E input \in FleetInput :
          IF BlockedFleet(input)
          THEN /\ order = [cwd |-> FALSE, managed |-> FALSE, path |-> "run", branch |-> "run",
                           named |-> FALSE, maxTurns |-> 1, cleanup |-> "auto", force |-> FALSE]
               /\ job = [StepOf("done", 0) EXCEPT !.status = "blocked"]
               /\ git = [tree |-> FALSE, branch |-> FALSE, edits |-> FALSE, commits |-> FALSE,
                         siblings |-> {}, taken |-> {}]
          ELSE /\ order = NormalizeDelegateInput(input, 1)
               /\ job = StepOf("initialize", 0)
               /\ git = [tree |-> FALSE, branch |-> FALSE, edits |-> FALSE, commits |-> FALSE,
                         siblings |-> {NormalizeDelegateInput(input, i) : i \in 2..Len(input.tasks)},
                         taken |-> {}]
    /\ memo = [initialized |-> FALSE, input |-> FALSE, turns |-> 0, questions |-> 0, memory |-> 0,
               answers |-> {}, files |-> {}, path |-> FALSE, cleanup |-> "none"]
    /\ given = {} /\ wrecks = 0 /\ discarded = {}

\* state.set of the pairs of a handler, one after the other
Stored(ws) ==
    [k \in DOMAIN memo |->
        IF \E i \in DOMAIN ws : ws[i][1] = k THEN ws[CHOOSE i \in DOMAIN ws : ws[i][1] = k][2] ELSE memo[k]]

\* A handler runs to its end, or the process ends after some of its writes.
Handle(ws, next) ==
    \/ memo' = Stored(ws) /\ job' = next /\ UNCHANGED wrecks
    \/ /\ wrecks < DelegateCrash /\ wrecks' = wrecks + 1
       /\ \E n \in 0..Len(ws) : memo' = Stored(SubSeq(ws, 1, n))
       /\ job' = [job EXCEPT !.status = "interrupted"]

AtWork(step, pc) == job.step = step /\ job.pc = pc /\ job.status = "live"
FailsDelegate == job' = [job EXCEPT !.status = "failed"] /\ UNCHANGED <<memo, wrecks>>
\* appendMemoryNote, and mergeChangedFiles and mergeArtifacts by the turn they are of
AppendMemory == << <<"memory", memo.memory + 1>> >>
MergeChanges(turn) == << <<"files", memo.files \union {turn}>> >>
\* finalOptionalOutputFields and the counts: what the delegate's output reports
Report(details) ==
    [status |-> job.out.status, files |-> memo.files, turns |-> memo.turns,
     questions |-> memo.questions, cleanup |-> details]
Finished(details) == [StepOf("done", job.turn) EXCEPT !.report = <<Report(details)>>]
\* finalDone begins with the cleanup of the worktree
Final(status) == [job EXCEPT !.pc = "cleanup", !.out.status = status]

-----------------------------------------------------------------------------
\* createManagedWorktree: git worktree add -b refuses a path or a branch in use
AddWorktree ==
    IF git.tree \/ git.branch \/ \E s \in git.taken : s.path = order.path \/ s.branch = order.branch
    THEN "refused" ELSE "added"

\* initialize-delegate
Initialize ==
    /\ AtWork("initialize", "start")
    /\ LET save == << <<"initialized", TRUE>>, <<"input", TRUE>>, <<"memory", 0>>, <<"turns", 0>>,
                      <<"questions", 0>>, <<"answers", {}>>, <<"files", {}>>,
                      <<"path", order.managed>>, <<"cleanup", "none">> >>
       IN \/ /\ memo.initialized
             /\ Handle(<<>>, StepOf("prepare", 1)) /\ UNCHANGED git
          \/ /\ ~memo.initialized /\ order.cwd /\ order.managed
             /\ Handle(<<>>, Final("blocked")) /\ UNCHANGED git
          \/ /\ ~memo.initialized /\ order.managed /\ ~order.cwd
             /\ IF AddWorktree = "refused" THEN FailsDelegate /\ UNCHANGED git
                ELSE /\ git' = [git EXCEPT !.tree = TRUE, !.branch = TRUE]
                     /\ Handle(save, StepOf("prepare", 1))
          \/ /\ ~memo.initialized /\ ~order.managed
             /\ Handle(save, StepOf("prepare", 1)) /\ UNCHANGED git
    /\ UNCHANGED <<order, given, discarded>>

\* prepare-delegate-turn: the input must have been saved; a turn beyond the last
\* blocks the delegate; the turn is given the answers as they are now
PrepareTurn ==
    /\ AtWork("prepare", "start")
    /\ IF ~memo.input THEN FailsDelegate
       ELSE IF job.turn > order.maxTurns THEN Handle(<<>>, Final("blocked"))
       ELSE Handle(<<>>, [StepOf("turn", job.turn) EXCEPT !.seen = memo.answers])
    /\ UNCHANGED <<order, git, given, discarded>>

\* the working agent of delegate-turn: it needs its directory, may edit and commit
\* there, and reports a status, with a question or without
RunTurn ==
    /\ AtWork("turn", "start")
    /\ IF order.managed /\ ~git.tree THEN FailsDelegate /\ UNCHANGED git
       ELSE /\ \/ UNCHANGED git
               \/ git.tree /\ git' = [git EXCEPT !.edits = TRUE]
               \/ git.tree /\ git' = [git EXCEPT !.commits = TRUE]
            /\ \E status \in {"completed", "continue", "question", "blocked"}, asks \in BOOLEAN :
                  /\ asks => status = "question"
                  /\ Handle(<<>>, [job EXCEPT !.pc = "do", !.out = [status |-> status, asks |-> asks]])
    /\ UNCHANGED <<order, given, discarded>>

\* the do phase of delegate-turn: a turn that was counted is not stored again
RecordTurn ==
    /\ AtWork("turn", "do")
    /\ LET processed == memo.turns >= job.turn
           turns == << <<"turns", memo.turns + 1>> >> \o AppendMemory \o MergeChanges(job.turn)
           question == << <<"questions", memo.questions + 1>> >>
           asking == job.out.status = "question"
           ws == IF processed THEN <<>> ELSE turns \o (IF job.out.asks THEN question ELSE <<>>)
       IN Handle(ws, IF asking THEN IF job.out.asks THEN StepOf("ask", job.turn) ELSE Final("blocked")
                     ELSE IF job.out.status = "continue" THEN StepOf("prepare", job.turn + 1)
                     ELSE Final(job.out.status))
    /\ UNCHANGED <<order, git, given, discarded>>

\* Mutant: a question that has an answer is not answered again.
AskParentOnce ==
    /\ AtWork("ask", "start")
    /\ \E answer \in ParentAnswer :
          LET known == memo.answers # {}
          IN /\ Handle(IF known THEN <<>>
                       ELSE << <<"answers", memo.answers \union {answer}>> >> \o AppendMemory,
                       StepOf("prepare", job.turn + 1))
             /\ given' = IF job'.status = "live" THEN given \union {answer} ELSE given
    /\ UNCHANGED <<order, git, discarded>>

\* ask-parent: the run parks until the parent answers; an answer that is recorded
\* for the question, which is the same in every turn here, is not recorded again
AskParent ==
    /\ AtWork("ask", "start")
    /\ \E answer \in ParentAnswer :
          LET known == answer \in memo.answers
          IN /\ Handle(IF known THEN <<>>
                       ELSE << <<"answers", memo.answers \union {answer}>> >> \o AppendMemory,
                       StepOf("prepare", job.turn + 1))
             /\ given' = IF job'.status = "live" THEN given \union {answer} ELSE given
    /\ UNCHANGED <<order, git, discarded>>

-----------------------------------------------------------------------------
\* cleanupManagedWorktree keeps the worktree, for a reason it records
Keep(details) == Handle(<< <<"cleanup", details>> >>, Finished(details))

\* what is not to be removed, and git status of what may be
JudgeWorktree ==
    /\ job.pc = "cleanup" /\ job.status = "live"
    /\ IF ~memo.input \/ ~order.managed \/ ~memo.path THEN Handle(<<>>, Finished("none"))
       ELSE IF order.cleanup = "never" \/ (order.cleanup = "auto" /\ job.out.status # "completed")
       THEN Keep("kept")
       ELSE \/ Keep("failed")
            \/ git.tree /\ git.edits /\ ~order.force /\ Keep("kept-dirty")
            \/ git.tree /\ (git.edits => order.force) /\ Handle(<<>>, [job EXCEPT !.pc = "remove"])
    /\ UNCHANGED <<order, git, given, discarded>>

\* Mutant: cleanup "always" passes --force.
RemoveWorktreeAlways ==
    /\ job.pc = "remove" /\ job.status = "live"
    /\ \/ Keep("failed") /\ UNCHANGED <<git, discarded>>
       \/ /\ git.tree /\ (git.edits => order.force \/ order.cleanup = "always")
          /\ git' = [git EXCEPT !.tree = FALSE, !.edits = FALSE]
          /\ discarded' = IF git.edits THEN discarded \union {"edits"} ELSE discarded
          /\ Handle(<<>>, [job EXCEPT !.pc = "branch"])
    /\ UNCHANGED <<order, given>>

\* git worktree remove, which refuses changes unless it is forced
RemoveWorktree ==
    /\ job.pc = "remove" /\ job.status = "live"
    /\ \/ Keep("failed") /\ UNCHANGED <<git, discarded>>
       \/ /\ git.tree /\ (git.edits => order.force)
          /\ git' = [git EXCEPT !.tree = FALSE, !.edits = FALSE]
          /\ discarded' = IF git.edits THEN discarded \union {"edits"} ELSE discarded
          /\ Handle(<<>>, [job EXCEPT !.pc = "branch"])
    /\ UNCHANGED <<order, given>>

\* cleanupManagedWorktreeBranch: git branch -d refuses a branch with commits of
\* its own, and a branch the input named is not the delegate's to delete
RemoveBranch ==
    /\ job.pc = "branch" /\ job.status = "live"
    /\ \/ Keep("failed") /\ UNCHANGED <<git, discarded>>
       \/ order.named /\ Keep("removed") /\ UNCHANGED <<git, discarded>>
       \/ /\ ~order.named /\ git.branch /\ ~git.commits
          /\ git' = [git EXCEPT !.branch = FALSE]
          /\ discarded' = IF git.commits THEN discarded \union {"commits"} ELSE discarded
          /\ Keep("removed")
    /\ UNCHANGED <<order, given>>

\* a process the agent left behind, or a person, edits in the worktree
EditMeanwhile ==
    /\ git.tree /\ ~git.edits /\ job.step # "done"
    /\ git' = [git EXCEPT !.edits = TRUE]
    /\ UNCHANGED <<order, job, memo, given, wrecks, discarded>>

\* another branch of the fleet creates its worktree
SiblingCreates ==
    /\ \E s \in git.siblings :
          /\ s.managed /\ ~s.cwd
          /\ git' = IF \/ git.tree /\ (s.path = order.path \/ s.branch = order.branch)
                      \/ \E t \in git.taken : s.path = t.path \/ s.branch = t.branch
                    THEN [git EXCEPT !.siblings = @ \ {s}]
                    ELSE [git EXCEPT !.siblings = @ \ {s}, !.taken = @ \union {s}]
    /\ UNCHANGED <<order, job, memo, given, wrecks, discarded>>

\* trailstep retry: the interrupted or failed step starts over on its input, which
\* prepare-delegate-turn computes from what was saved meanwhile
RetryDelegate ==
    /\ job.status = "interrupted" \/ (job.status = "failed" /\ wrecks < DelegateCrash)
    /\ wrecks' = IF job.status = "failed" THEN wrecks + 1 ELSE wrecks
    /\ job' = [StepOf(job.step, job.turn) EXCEPT !.seen = IF job.step = "turn" THEN memo.answers ELSE {}]
    /\ UNCHANGED <<order, memo, git, given, discarded>>

DGNext ==
    \/ Initialize \/ PrepareTurn \/ RunTurn \/ RecordTurn \/ AskParent
    \/ JudgeWorktree \/ RemoveWorktree \/ RemoveBranch
    \/ EditMeanwhile \/ SiblingCreates \/ RetryDelegate

-----------------------------------------------------------------------------
DGSpec == DGInit /\ [][DGNext]_dgVars

DGTypeOK ==
    /\ order.maxTurns \in 1..3 /\ order.cleanup \in {"auto", "never", "always"}
    /\ job.step \in {"initialize", "prepare", "turn", "ask", "done"} /\ job.turn \in 0..order.maxTurns + 1
    /\ job.pc \in {"start", "do", "cleanup", "remove", "branch"}
    /\ job.status \in {"live", "interrupted", "failed", "blocked"}
    /\ memo.turns \in 0..order.maxTurns /\ memo.questions \in 0..memo.turns
    /\ memo.memory \in 0..2 * order.maxTurns + DelegateCrash
    /\ memo.answers \subseteq ParentAnswer /\ memo.files \subseteq 1..order.maxTurns
    /\ job.seen \subseteq ParentAnswer /\ given \subseteq ParentAnswer
    /\ git.taken \intersect git.siblings = {} /\ wrecks \in 0..DelegateCrash

\* Unless the input forces it, cleaning up a worktree discards no work: edits keep
\* the worktree, also those a process makes between the check and the removal, and
\* commits keep the branch, whatever was removed before (steps.ts:303).
NoWorkDiscarded == ~order.force => discarded = {}

\* Every turn is told every answer the parent gave before it, an answer that
\* differs from an earlier one to the same question too, though the process may
\* end between any two writes (steps.ts:243).
AnswersReachTurns == job.step = "turn" => given \subseteq job.seen
=============================================================================
