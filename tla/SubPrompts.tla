------------------------------ MODULE SubPrompts ------------------------------
(***************************************************************************)
(* subPrompt: the do phase of a step asks agents of its own, in chains of  *)
(* calls that run side by side.  A call has an ordinal within its attempt  *)
(* and a fingerprint of prompt and input; the trail keeps its answer under *)
(* both, so that a retry of the step and a replay of the finished step get *)
(* the answer again and no agent is asked.                                 *)
(*                                                                         *)
(* An attempt that failed or timed out is not stopped: the other calls it  *)
(* made go on, and the attempt that follows may ask the same at once.      *)
(***************************************************************************)
EXTENDS Naturals, Sequences, FiniteSets

CONSTANTS
    SubConf,        \* handlers: the chains of prompts, whether a prompt quotes the
                    \* answer before it, the limits of the step and of a call
    DefaultLimit,   \* the limit of a step that sets none
    MaxSubAttempts  \* bound on the attempts and replays, over all processes

\* A chain makes a call at least.
ASSUME SubAssumption ==
    /\ DefaultLimit \in Nat
    /\ \A h \in SubConf :
          /\ Len(h.chains) \in Nat /\ DOMAIN h.chains = 1..Len(h.chains)
          /\ \A c \in DOMAIN h.chains : /\ Len(h.chains[c]) \in Nat \ {0}
                                       /\ DOMAIN h.chains[c] = 1..Len(h.chains[c])
          /\ h.quotes \in BOOLEAN /\ h.stepLimit \in Nat /\ h.callLimit \in Nat

VARIABLES
    handler,   \* the handler of the step
    tries,     \* the attempts and replays, as far as they got
    completions, \* subPrompt.completed in the trail: the latest answer of each key
    done,      \* the step has completed
    taken,     \* the answers that the attempt that completed had
    answered,  \* the calls answered by some agent, how often
    raced,     \* the calls that two attempts asked at the same time
    repeated   \* the calls asked again after they had been answered

spVars == <<handler, tries, completions, done, taken, answered, raced, repeated>>

Chain == DOMAIN handler.chains
\* the i-th call of chain c
Call == UNION {{c} \X DOMAIN handler.chains[c] : c \in Chain}
NoAnswers == [p \in Call |-> 0]

\* the step is executed, or replayed from the trail; its process may have ended
Try(kind) == [kind |-> kind, pc |-> "live", ordinal |-> 0, got |-> NoAnswers,
              chain |-> [c \in Chain |-> [at |-> 1, pc |-> "idle", ordinal |-> 0]]]
Over == [kind |-> "over", pc |-> "over"]
AtCall(t, c) == <<c, tries[t].chain[c].at>>
Runs(t) == tries[t].pc \in {"live", "left"}
LiveTries == {t \in DOMAIN tries : tries[t].pc = "live"}

SPInit ==
    /\ handler \in SubConf
    /\ tries = <<Try("work")>>
    /\ completions = <<>> /\ done = FALSE
    /\ taken = NoAnswers /\ answered = NoAnswers
    /\ raced = {} /\ repeated = {}

-----------------------------------------------------------------------------
\* resolveMaxSubPrompts: the limit of the call, else the one of the step, which a
\* replay does not know
Limit(kind) ==
    IF handler.callLimit # 0 THEN handler.callLimit
    ELSE IF kind = "work" /\ handler.stepLimit # 0 THEN handler.stepLimit ELSE DefaultLimit

\* fingerprintSubPrompt: the prompt, with what it quotes
Fingerprint(t, c) ==
    LET p == AtCall(t, c)
    IN <<handler.chains[c][p[2]], IF handler.quotes /\ p[2] > 1 THEN tries[t].got[<<c, p[2] - 1>>] ELSE 0>>
Key(t, c) == <<tries[t].chain[c].ordinal, Fingerprint(t, c)>>

\* findCompletedSubPromptEvent
Recorded(key) == key \in DOMAIN completions

\* the call returns, and the chain makes its next one
MovesOn(t, c) ==
    LET chain == tries[t].chain[c] IN
    IF chain.at = Len(handler.chains[c]) THEN [chain EXCEPT !.pc = "end"]
    ELSE [chain EXCEPT !.pc = "idle", !.at = @ + 1]
Returns(t, c, answer) == [tries[t] EXCEPT !.got[AtCall(t, c)] = answer, !.chain[c] = MovesOn(t, c)]

\* The ordinal is drawn when a call is made.  The handler makes the first call of
\* every chain, in order, before any other.
Begun(t, c) == tries[t].chain[c].pc # "idle" \/ tries[t].chain[c].at > 1
\* nextSubPromptIndex, and the limit that the ordinal may be over
Drawn(t, c) ==
    LET ordinal == tries[t].ordinal + 1
        pc == IF ordinal > Limit(tries[t].kind) THEN "failed" ELSE "called"
    IN [tries[t] EXCEPT !.ordinal = ordinal, !.chain[c] = [@ EXCEPT !.ordinal = ordinal, !.pc = pc]]
MakeCall(t, c) ==
    /\ Runs(t) /\ tries[t].chain[c].pc = "idle"
    /\ \A d \in Chain \ {c} : d < c \/ Begun(t, c) => Begun(t, d)
    /\ tries' = [tries EXCEPT ![t] = Drawn(t, c)]
    /\ UNCHANGED <<handler, completions, done, taken, answered, raced, repeated>>

\* the trail has the answer, or an agent is asked
LookUp(t, c) ==
    /\ Runs(t) /\ tries[t].chain[c].pc = "called"
    /\ LET p == AtCall(t, c) IN
       \/ /\ Recorded(Key(t, c))
          /\ tries' = [tries EXCEPT ![t] = Returns(t, c, completions[Key(t, c)])]
          /\ UNCHANGED <<raced, repeated>>
       \/ /\ ~Recorded(Key(t, c))
          /\ tries' = [tries EXCEPT ![t].chain[c].pc = "asking"]
          /\ raced' = IF \E u \in DOMAIN tries \ {t} : Runs(u) /\ tries[u].chain[c].pc = "asking"
                                                      /\ AtCall(u, c) = p
                      THEN raced \cup {p} ELSE raced
          /\ repeated' = IF answered[p] > 0 THEN repeated \cup {p} ELSE repeated
    /\ UNCHANGED <<handler, completions, done, taken, answered>>

\* every answer differs from the ones before it
AnswerCall(t, c) ==
    /\ Runs(t) /\ tries[t].chain[c].pc = "asking"
    /\ LET p == AtCall(t, c)
           answer == answered[p] + 1
       IN /\ completions' = [k \in DOMAIN completions \cup {Key(t, c)} |->
                            IF k = Key(t, c) THEN answer ELSE completions[k]]
          /\ answered' = [answered EXCEPT ![p] = answer]
          /\ tries' = [tries EXCEPT ![t] = Returns(t, c, answer)]
    /\ UNCHANGED <<handler, done, taken, raced, repeated>>

\* the agent fails, or what it answers does not fit the schema
FailCall(t, c) ==
    /\ Runs(t) /\ tries[t].chain[c].pc = "asking"
    /\ tries' = [tries EXCEPT ![t].chain[c].pc = "failed"]
    /\ UNCHANGED <<handler, completions, done, taken, answered, raced, repeated>>

-----------------------------------------------------------------------------
Through(t) == \A c \in Chain : tries[t].chain[c].pc = "end"

\* Mutant: a retry goes on with the counter of the attempt before.
BeginCountingOn(kind, before) ==
    /\ Len(before) < MaxSubAttempts
    /\ tries' = Append(before, [Try(kind) EXCEPT !.ordinal =
                                    IF kind = "work" THEN tries[Len(tries)].ordinal ELSE 0])

\* withStepContext: each attempt and each replay counts its calls from one
Begin(kind, before) ==
    /\ Len(before) < MaxSubAttempts
    /\ tries' = Append(before, Try(kind))

\* every chain has come to its end: the step completes, unless it did so before
CompleteTry(t) ==
    /\ Runs(t) /\ Through(t)
    /\ tries' = [tries EXCEPT ![t] = Over]
    /\ IF tries[t].pc = "live" /\ tries[t].kind = "work"
       THEN done' = TRUE /\ taken' = tries[t].got
       ELSE UNCHANGED <<done, taken>>
    /\ UNCHANGED <<handler, completions, answered, raced, repeated>>

\* The first call that fails fails the attempt, and so does the timeout of the step.
\* The other calls go on while the attempt that follows makes its own.
AbandonTry(t) ==
    /\ tries[t].pc = "live" /\ tries[t].kind = "work" /\ ~Through(t)
    /\ Begin("work", [tries EXCEPT ![t].pc = "left"])
    /\ UNCHANGED <<handler, completions, done, taken, answered, raced, repeated>>

\* The process ends: it crashes, or the run fails in this step or a later one.  The
\* next one executes the step again, or replays it.
ReopenRun ==
    /\ Begin(IF done THEN "replay" ELSE "work", [t \in DOMAIN tries |-> Over])
    /\ UNCHANGED <<handler, completions, done, taken, answered, raced, repeated>>

SPNext ==
    \/ \E t \in DOMAIN tries :
          \/ \E c \in Chain : MakeCall(t, c) \/ LookUp(t, c) \/ AnswerCall(t, c) \/ FailCall(t, c)
          \/ CompleteTry(t) \/ AbandonTry(t)
    \/ ReopenRun

SPSpec == SPInit /\ [][SPNext]_spVars

-----------------------------------------------------------------------------
SPTypeOK ==
    /\ \A t \in DOMAIN tries : Runs(t) => tries[t].ordinal \in Nat
    /\ Cardinality(LiveTries) <= 1
    /\ \A p \in Call : answered[p] \in 0..MaxSubAttempts /\ taken[p] \in 0..MaxSubAttempts

\* the ordinals of later calls depend on which chain is faster
Reorders == Cardinality(Chain) > 1 /\ \E c \in Chain : Len(handler.chains[c]) > 1
\* the call, or one before it in its chain, was asked by two attempts at the same time
Disturbed(p) == Reorders \/ \E i \in 1..p[2] : <<p[1], i>> \in raced

\* A call that an agent has answered is not asked again, by no retry, no process that
\* takes the run up and no replay, and a replay of the step goes through with the
\* answers that the step went on with: unless chains of several calls overtake each
\* other, an attempt that was left behind asked at the same time, or the step raised
\* the limit of its calls (run-sub-prompt.ts:100, with-step-context.ts:37).
AnswersStick ==
    /\ \A p \in repeated : Disturbed(p)
    /\ \A t \in LiveTries, p \in Call :
          tries[t].kind = "replay" /\ tries[t].got[p] # 0 => tries[t].got[p] = taken[p] \/ Disturbed(p)
    /\ \A t \in LiveTries, c \in Chain :
          tries[t].kind = "replay" /\ tries[t].chain[c].pc = "failed" =>
              Disturbed(AtCall(t, c)) \/ handler.stepLimit > DefaultLimit
=============================================================================
