------------------------------ MODULE StoryFlow ------------------------------
(***************************************************************************)
(* The workflow take-it-away: a plan is reviewed and sliced into stories,  *)
(* and every story goes through preflight, red tests, implementation,      *)
(* validation, review and commit.  The story router decides from durable   *)
(* keys of the run's state where a story goes after a failure.             *)
(*                                                                         *)
(* A handler writes its keys one after the other, so that a crash leaves a *)
(* prefix of them.  A retry replays the completed steps without writing,   *)
(* and executes the interrupted step again on the keys that were saved.    *)
(***************************************************************************)
EXTENDS Naturals, Sequences, FiniteSets

CONSTANTS
    StoryCount,      \* the numbers of stories a plan may be sliced into
    MaxStrategy,     \* MAX_IMPLEMENTATION_DOC_REVIEW_ATTEMPTS
    MaxReviews,      \* MAX_STORY_REVIEW_ATTEMPTS
    MaxValidations,  \* MAX_STORY_VALIDATION_ATTEMPTS
    DoctorAt,        \* STORY_DOCTOR_VALIDATION_FAILURE_THRESHOLD
    FlowInput,       \* the inputs: automatic commits, a planning checkpoint
    MaxCrash         \* bound on the crashes, and on the retries of a failure

\* A failed validation whose counts fall back on the attempts of its phase forgets the
\* failed reviews.  Three validations have started by then, so that the story is at the
\* doctor, who settles the route, or at its end (shared/constants.ts:13, shared/constants.ts:15).
ASSUME StoryLimits ==
    /\ StoryCount \subseteq Nat \ {0} /\ MaxReviews \in Nat /\ MaxValidations \in Nat /\ DoctorAt \in Nat
    /\ DoctorAt <= 3 \/ MaxValidations <= 3

VARIABLES
    flow,     \* the step at work, its input, and how the run stands
    keys,     \* the durable keys of the run's state
    changes,  \* whose changes are not committed in the working tree
    commits,  \* the commits: the story and whose changes they hold
    routed,   \* the retry routes among the completed steps
    retries   \* crashes and retries so far

sfVars == <<flow, keys, changes, commits, routed, retries>>

None == "none"
User == 0  \* changes the working tree held before the workflow
NoRoute == [route |-> None, story |-> 0, reason |-> None, target |-> None,
            review |-> 0, validation |-> 0, evidence |-> None]

SFInit ==
    /\ \E input \in FlowInput :
          keys = [active |-> 0, context |-> 0, queue |-> {}, contexts |-> {},
                  completed |-> {}, phase |-> None, validations |-> 0, reviews |-> 0,
                  route |-> NoRoute, review |-> None, validation |-> None,
                  auto |-> input.auto, checkpoint |-> input.checkpoint, skip |-> FALSE]
    /\ flow = [step |-> "strategy", story |-> 0, reason |-> None, try |-> 1, status |-> "live"]
    /\ changes \in {{}, {User}} /\ commits = {} /\ routed = {} /\ retries = 0

-----------------------------------------------------------------------------
\* state.set of the pairs of a handler, one after the other
Saved(ws) ==
    [k \in DOMAIN keys |->
        IF \E i \in DOMAIN ws : ws[i][1] = k
        THEN ws[CHOOSE i \in DOMAIN ws : ws[i][1] = k /\ \A j \in DOMAIN ws : ws[j][1] = k => j <= i][2]
        ELSE keys[k]]

StepAt(step, story, reason) ==
    [flow EXCEPT !.step = step, !.story = story, !.reason = reason, !.try = 1]
Failed == [flow EXCEPT !.status = "failed"]

\* A handler runs to its end, or the process ends after some of its writes.
Handler(ws, next) ==
    \/ keys' = Saved(ws) /\ flow' = next /\ UNCHANGED retries
    \/ /\ retries < MaxCrash /\ retries' = retries + 1
       /\ \E n \in 0..Len(ws) : keys' = Saved(SubSeq(ws, 1, n))
       /\ flow' = [flow EXCEPT !.status = "interrupted"]

Doing(step) == flow.step = step /\ flow.status = "live"

-----------------------------------------------------------------------------
\* create-or-improve and review-implementation-strategy
ReviewStrategy ==
    /\ Doing("strategy")
    /\ \/ Handler(<<>>, StepAt("split", 0, None))
       \/ Handler(<<>>, IF flow.try >= MaxStrategy THEN Failed ELSE [flow EXCEPT !.try = @ + 1])
    /\ UNCHANGED <<changes, commits, routed>>

\* split-implementation-stories: the markers of the document are out of order, or
\* n stories follow, each with its context; the queues hold them in their order
SplitStories ==
    /\ Doing("split")
    /\ LET pause == keys.checkpoint /\ ~keys.skip
       IN \/ Handler(<<>>, Failed)
          \/ \E n \in StoryCount :
                LET rest == 2..n
                IN Handler(<< <<"queue", rest>>, <<"contexts", rest>>, <<"completed", {}>>,
                              <<"active", 1>>, <<"context", 1>>, <<"phase", "router">>,
                              <<"validations", 0>>, <<"reviews", 0>>, <<"skip", FALSE>> >>,
                           IF pause THEN [StepAt("checkpoint", 1, None) EXCEPT !.status = "waiting"]
                           ELSE StepAt("router", 1, "start"))
    /\ UNCHANGED <<changes, commits, routed>>

\* planning-checkpoint: a human approves, asks for a revision, or aborts
AnswerCheckpoint ==
    /\ flow.step = "checkpoint" /\ flow.status = "waiting"
    /\ LET live == [flow EXCEPT !.status = "live"]
       IN \/ /\ keys' = [keys EXCEPT !.skip = TRUE]
             /\ flow' = [live EXCEPT !.step = "strategy"]
          \/ /\ flow' = [live EXCEPT !.step = "router", !.reason = "start"]
             /\ UNCHANGED keys
          \/ flow' = Failed /\ UNCHANGED keys
    /\ UNCHANGED <<changes, commits, routed, retries>>

-----------------------------------------------------------------------------
\* the queues list the stories by their numbers
First(stories) == CHOOSE s \in stories : \A t \in stories : s <= t

\* resetStoryLocalStateFields, before the next story
ResetStory == << <<"validations", 0>>, <<"reviews", 0>>, <<"validation", None>>,
                 <<"review", None>>, <<"route", NoRoute>> >>

\* phaseAttemptFallback
Before(attempts) == IF attempts = 0 THEN 0 ELSE attempts - 1

\* what the last failed review or validation says
LatestEvidence(reason) == IF reason = "review" THEN keys.review ELSE keys.validation

\* what a review or validation that fails now may say: what the failure before said, or
\* something else
NewEvidence == IF keys.route.evidence = None THEN {"e"} ELSE {"e", "f"}

\* Mutant: no route is no failure.
ForgettingCounts(reason) ==
    [review |-> keys.route.review, validation |-> keys.route.validation]

\* loadRouterRetryCounts: the counts of the route, or the attempts of the phase when
\* there is no route or it is about an older failure
RetryCounts(reason) ==
    LET fallback == [review |-> IF reason = "review" THEN Before(keys.reviews) ELSE 0,
                     validation |-> IF reason = "validation" THEN Before(keys.validations) ELSE 0]
        r == keys.route
    IN IF r.route = None THEN fallback
       ELSE IF r.story # keys.active THEN [review |-> 0, validation |-> 0]
       ELSE IF r.reason = reason /\ r.evidence # LatestEvidence(reason) THEN fallback
       ELSE [review |-> r.review, validation |-> r.validation]

\* persistRetryRouterState
Route(route, target, reason, counts) ==
    [route |-> route, story |-> flow.story, reason |-> reason, target |-> target,
     review |-> counts.review, validation |-> counts.validation,
     evidence |-> LatestEvidence(reason)]

\* replayPersistedRetryRoute, for a router step that is executed again: the route it
\* saved is taken again, and not counted again
RouteAgain(reason) ==
    LET r == keys.route IN
    /\ r.route \in {"retrying", "doctoring"} /\ r.reason = reason
    /\ r.route = "doctoring" \/ keys.phase \in {r.target, "router"}
    /\ r.evidence = LatestEvidence(reason)

Exhausted(reason) == keys.route.route = "exhausted" /\ keys.route.reason = reason

\* the route back to the implementer or to the doctor is part of the history, the
\* n-th of its kind
Follow(target) ==
    LET same == {r \in routed : r.reason = flow.reason /\ r.story = flow.story}
    IN routed' = IF flow'.step # target THEN routed
                 ELSE routed \cup {[reason |-> flow.reason, story |-> flow.story,
                                    target |-> target, n |-> Cardinality(same) + 1]}

ReplayRoute ==
    /\ Doing("router") /\ flow.reason \in {"review", "validation"}
    /\ RouteAgain(flow.reason)
    /\ Handler(<< <<"phase", "router">>, <<"active", flow.story>>, <<"phase", keys.route.target>> >>,
               StepAt(keys.route.target, flow.story, None))
    /\ Follow(keys.route.target)
    /\ UNCHANGED <<changes, commits>>

\* routeFailedReview
RouteFailedReview ==
    /\ Doing("router") /\ flow.reason = "review" /\ ~RouteAgain("review")
    /\ LET before == RetryCounts("review")
           counts == [before EXCEPT !.review = @ + 1]
           route == Route("retrying", "green", "review", counts)
       IN IF Exhausted("review") THEN Handler(<< <<"phase", "router">> >>, Failed)
          ELSE IF counts.review >= MaxReviews
          THEN Handler(<< <<"phase", "router">>, <<"route", Route("exhausted", None, "review", counts)>> >>,
                       Failed)
          ELSE Handler(<< <<"phase", "router">>, <<"active", flow.story>>, <<"phase", "green">>,
                          <<"route", route>> >>, StepAt("green", flow.story, None))
    /\ Follow("green")
    /\ UNCHANGED <<changes, commits>>

\* routeFailedValidation
RouteFailedValidation ==
    /\ Doing("router") /\ flow.reason = "validation" /\ ~RouteAgain("validation")
    /\ LET before == RetryCounts("validation")
           counts == [before EXCEPT !.validation = @ + 1]
           doctor == counts.validation >= DoctorAt
           target == IF doctor THEN "doctor" ELSE "green"
           route == Route(IF doctor THEN "doctoring" ELSE "retrying", target, "validation", counts)
       IN /\ IF Exhausted("validation") THEN Handler(<< <<"phase", "router">> >>, Failed)
             ELSE IF counts.validation >= MaxValidations
             THEN Handler(<< <<"phase", "router">>,
                             <<"route", Route("exhausted", None, "validation", counts)>> >>, Failed)
             ELSE Handler(<< <<"phase", "router">>, <<"active", flow.story>>, <<"phase", target>>,
                             <<"route", route>> >>, StepAt(target, flow.story, None))
          /\ Follow(target)
    /\ UNCHANGED <<changes, commits>>

\* routeBlockedStory, and replayBlockedStoryRoute for the retry: the run fails
RouteBlocked ==
    /\ Doing("router") /\ flow.reason = "blocked"
    /\ Handler(<< <<"phase", "router">>, <<"active", flow.story>>,
                  <<"route", [NoRoute EXCEPT !.route = "blocked", !.story = flow.story]>> >>, Failed)
    /\ UNCHANGED <<changes, commits, routed>>

\* repairStaleStoryCompletion: what the commit of the story before should have saved
StaleCompletion == flow.reason = "completed" /\ keys.active \notin {0, flow.story}
Repair ==
    << <<"phase", "router">> >> \o ResetStory \o
    << <<"completed", keys.completed \cup {keys.active}>>, <<"queue", keys.queue \ {First(keys.queue)}>>,
       <<"contexts", keys.contexts \ {First(keys.contexts)}>>, <<"active", flow.story>>,
       <<"context", First(keys.contexts)>> >>

\* story-router of a story that starts
RouteStory ==
    /\ Doing("router") /\ flow.reason \in {"start", "completed"}
    /\ IF StaleCompletion
       THEN IF keys.queue # {} /\ First(keys.queue) = flow.story
            THEN Handler(Repair, StepAt("preflight", flow.story, None))
            ELSE Handler(<< <<"phase", "router">> >>, Failed)
       ELSE Handler(<< <<"phase", "router">>, <<"active", flow.story>> >>,
                    StepAt("preflight", flow.story, None))
    /\ UNCHANGED <<changes, commits, routed>>

-----------------------------------------------------------------------------
\* Mutant: a story starts from whatever the working tree holds.
PreflightOfDirtyTree ==
    /\ Doing("preflight")
    /\ \/ /\ TRUE
          /\ Handler(<< <<"phase", "preflight">> >>, StepAt("context", flow.story, None))
       \/ Handler(<< <<"phase", "preflight">> >>, Failed)
    /\ UNCHANGED <<changes, commits, routed>>

\* story-isolation-preflight: a story starts from a clean working tree
Preflight ==
    /\ Doing("preflight")
    /\ \/ /\ changes = {}
          /\ Handler(<< <<"phase", "preflight">> >>, StepAt("context", flow.story, None))
       \/ Handler(<< <<"phase", "preflight">> >>, Failed)
    /\ UNCHANGED <<changes, commits, routed>>

\* deterministic-context-preflight: hints are collected, nothing blocks
ContextPreflight ==
    /\ Doing("context")
    /\ Handler(<< <<"phase", "context">>, <<"phase", "red">> >>, StepAt("red", flow.story, None))
    /\ UNCHANGED <<changes, commits, routed>>

Blocked == StepAt("router", flow.story, "blocked")

\* an agent may change the working tree, whether or not its step completes
AgentWorks == changes' \in {changes, changes \cup {flow.story}}

WriteRedTests ==
    /\ Doing("red") /\ AgentWorks
    /\ \/ Handler(<<>>, Blocked)
       \/ Handler(<< <<"phase", "green">> >>, StepAt("green", flow.story, None))
    /\ UNCHANGED <<commits, routed>>

ImplementGreen ==
    /\ Doing("green") /\ AgentWorks
    /\ \/ Handler(<<>>, Blocked)
       \/ Handler(<< <<"phase", "validate">>, <<"validations", keys.validations + 1>> >>,
                  StepAt("validate", flow.story, None))
    /\ UNCHANGED <<commits, routed>>

\* story-doctor: the route is settled, so that the counts are those of the phases
StoryDoctor ==
    /\ Doing("doctor") /\ AgentWorks
    /\ \/ Handler(<<>>, Blocked)
       \/ Handler(<< <<"route", NoRoute>>, <<"phase", "validate">>,
                     <<"validations", keys.validations + 1>> >>, StepAt("validate", flow.story, None))
    /\ UNCHANGED <<commits, routed>>

\* The commands a story may name: a test of one file, a look at the repository, a script
\* of a whole package, and one with shell syntax.
Command == {"focused", "inspect", "broad", "shell"}

\* parseCommand: quotes are understood, anything else of a shell is not
Parsed(c) == c # "shell"

\* validateAllowedCommand: a package-wide script is left to the final validation
Allowed(c) == c # "broad"

\* runValidationCommand
ResultsOf(c) == IF Parsed(c) /\ Allowed(c) THEN {"passed", "failed"} ELSE {"skipped"}

\* runFocusedStoryValidation: no command, or none that may run, blocks; one that failed
\* fails
Verdict(result) ==
    LET results == {result[c] : c \in DOMAIN result}
    IN IF results \subseteq {"skipped"} THEN "blocked"
       ELSE IF "failed" \in results THEN "failed" ELSE "passed"

\* collectValidationCommands: what the story and its context name, run one by one
Verdicts == {Verdict(r) : r \in {f \in UNION {[cs -> {"passed", "failed", "skipped"}] : cs \in SUBSET Command} :
                                  \A c \in DOMAIN f : f[c] \in ResultsOf(c)}}

\* validate-story
ValidateStory ==
    /\ Doing("validate")
    /\ \E verdict \in Verdicts, e \in NewEvidence :
          \/ /\ verdict = "blocked"
             /\ Handler(<< <<"validation", None>> >>, Blocked)
          \/ /\ verdict = "failed"
             /\ Handler(<< <<"validation", e>> >>, StepAt("router", flow.story, "validation"))
          \/ /\ verdict = "passed"
             /\ Handler(<< <<"validation", None>>, <<"phase", "review">>,
                           <<"reviews", keys.reviews + 1>> >>, StepAt("review", flow.story, None))
    /\ UNCHANGED <<changes, commits, routed>>

\* review-story-implementation
ReviewStory ==
    /\ Doing("review")
    /\ \/ \E e \in NewEvidence : Handler(<< <<"review", e>> >>, StepAt("router", flow.story, "review"))
       \/ Handler(<< <<"review", None>> >>, StepAt("commit", flow.story, None))
    /\ UNCHANGED <<changes, commits, routed>>

-----------------------------------------------------------------------------
\* completeReviewedStory: the queue without the story; if the saved active story is
\* another one, an earlier execution of the step has advanced already.  A story has the
\* context at its place, which after a crash between the two queues is another story's.
Waiting == keys.queue \ {flow.story}
Advanced == keys.active \notin {0, flow.story}
NextStory == IF Advanced THEN keys.active ELSE IF Waiting = {} THEN 0 ELSE First(Waiting)
Remaining == Waiting \ {NextStory}
QueuePlace(s, queue) == Cardinality({t \in queue : t < s})
ContextsOf(stories) ==
    {c \in keys.contexts : \E s \in stories : QueuePlace(c, keys.contexts) = QueuePlace(s, keys.queue)}
NextContext == IF Advanced /\ keys.active \notin Waiting THEN keys.context
               ELSE LET own == ContextsOf({NextStory}) IN IF own = {} THEN 0 ELSE First(own)

CompleteStory ==
    LET completed == <<"completed", keys.completed \cup {flow.story}>>
    IN IF NextStory = 0
       THEN Handler(<< completed, <<"active", 0>>, <<"context", 0>>, <<"contexts", {}>> >>,
                    StepAt("pullRequest", 0, None))
       ELSE Handler(ResetStory \o
                    << completed, <<"queue", Remaining>>, <<"contexts", ContextsOf(Remaining)>>,
                       <<"active", NextStory>>, <<"context", NextContext>> >>,
                    StepAt("router", NextStory, "completed"))

\* commitReviewedStoryChanges; without automatic commits the tree has to be clean
\* before the next story.  A commit that fails stops the run unless it is the last.
CommitStory ==
    /\ Doing("commit")
    /\ \/ /\ keys.auto
          /\ commits' = IF changes = {} THEN commits ELSE commits \cup {[story |-> flow.story, of |-> changes]}
          /\ changes' = {}
          /\ CompleteStory
       \/ /\ keys.auto /\ UNCHANGED <<changes, commits>>
          /\ IF keys.queue # {} THEN Handler(<<>>, Failed) ELSE CompleteStory
       \/ /\ ~keys.auto /\ UNCHANGED <<changes, commits>>
          /\ IF NextStory # 0 /\ changes # {} THEN Handler(<<>>, Failed) ELSE CompleteStory
    /\ UNCHANGED routed

\* open-pull-request: skipped, existing or created, the run completes
OpenPullRequest ==
    /\ Doing("pullRequest")
    /\ Handler(<<>>, [flow EXCEPT !.status = "done"])
    /\ UNCHANGED <<changes, commits, routed>>

-----------------------------------------------------------------------------
\* The replay of the completed steps goes where they went: a router step of the
\* history reads the route that is saved now, which has to be about the same story
\* and to go the same way.
ReplayFollows ==
    keys.route.route \in {"retrying", "doctoring", "exhausted"} =>
        \A r \in routed : r.reason = keys.route.reason =>
            r.story = keys.route.story /\ r.target = keys.route.target

\* some validation is among the completed steps
Validated ==
    \/ routed # {} \/ keys.completed # {} \/ flow.step \in {"review", "commit", "pullRequest"}
    \/ flow.step = "router" /\ flow.reason \in {"review", "validation"}

\* trailstep retry: the step again, after the operator cleaned up or not.  A validation
\* of the history runs its commands again, and may go another way.
RetryFlow ==
    /\ \/ flow.status = "interrupted" /\ UNCHANGED retries
       \/ flow.status = "failed" /\ retries < MaxCrash /\ retries' = retries + 1
    /\ changes' \in {changes, {}}
    /\ flow' \in {[flow EXCEPT !.status = IF ReplayFollows THEN "live" ELSE "drifted"]}
                 \cup (IF Validated THEN {[flow EXCEPT !.status = "drifted"]} ELSE {})
    /\ UNCHANGED <<keys, commits, routed>>

SFNext ==
    \/ ReviewStrategy \/ SplitStories \/ AnswerCheckpoint
    \/ ReplayRoute \/ RouteFailedReview \/ RouteFailedValidation \/ RouteBlocked \/ RouteStory
    \/ Preflight \/ ContextPreflight \/ WriteRedTests \/ ImplementGreen \/ StoryDoctor
    \/ ValidateStory \/ ReviewStory \/ CommitStory \/ OpenPullRequest
    \/ RetryFlow

SFSpec == SFInit /\ [][SFNext]_sfVars

SFTypeOK ==
    /\ keys.active \in Nat /\ keys.completed \subseteq Nat
    /\ keys.route.review \in 0..keys.reviews + MaxReviews /\ keys.route.validation \in Nat
    /\ flow.status \in {"live", "waiting", "interrupted", "failed", "drifted", "done"}

\* What a story's commit holds is the work of that story alone: no other story's, and
\* nothing the working tree held before (story-isolation-preflight/step.ts:70,
\* commit-reviewed-story/step.ts:170).
CommitsAreIsolated == \A c \in commits : c.of \subseteq {c.story}

\* A review sends a story back MaxReviews - 1 times at most, whatever validations failed
\* in between and whoever settled the route, and once more for each interruption: a
\* router step that is executed again takes the route of the failure before for its own
\* when both say the same (router-retry-state.ts:56, router-replay.ts:107).
ReworkIsBounded == \A r \in routed : r.reason = "review" => r.n < MaxReviews + retries
=============================================================================
