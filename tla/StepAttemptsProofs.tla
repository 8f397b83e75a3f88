-------------------------- MODULE StepAttemptsProofs --------------------------
(***************************************************************************)
(* A step that is not idempotent is done once by a visit, visits that      *)
(* follow each other fail less often than the budget allows, and a visit   *)
(* records no answer and no completion twice, for any number of visits and *)
(* continues and any step definitions.  Around the visits, a node runs     *)
(* under the settings of the innermost invocation it is in, or of the run, *)
(* for any set of workflows and any depth of invocation.                   *)
(***************************************************************************)
EXTENDS StepAttempts, ContinuationLoop, SequenceTheorems, TLAPS

VisitPc == {"idle", "count", "begin", "race", "caught", "over"}
ErrorName == Error \cup {"none"}
Result == Node \cup {"none", "failure", "cancelled", "waiting", "resumed"}
NodeName == Node \cup {"none"}
VisitState == [pc : VisitPc, attempt : Nat, initial : Nat, from : Nat, resumed : BOOLEAN,
               outputs : SUBSET STRING, error : ErrorName, result : Result]
WorkPc == {"none", "enter", "in", "leave", "park", "returned", "gone"}
WorkState == [pc : WorkPc, at : Nat, late : BOOLEAN, node : NodeName]
SaidState == [did : Nat, failed : Nat, lateDone : Nat, satisfied : [WaitIds -> Nat]]
AttemptId == Visit \X (1..MaxAttempts)

Types ==
    /\ conf \in StepConf /\ failures \in Nat
    /\ visit \in [Visit -> VisitState]
    /\ work \in [AttemptId -> WorkState]
    /\ said \in [Visit -> SaidState]

\* Every visit and every attempt is at a phase of the step.
InPhases ==
    /\ \A v \in Visit : visit[v].from \in 1..Len(conf.phases)
    /\ \A a \in AttemptId : work[a].at \in 1..Len(conf.phases)

Active(w) == w.pc \in WorkPc \ {"none", "gone"}

\* An attempt whose result somebody waits for is the one its visit races.
Raced ==
    \A a \in AttemptId :
        Active(work[a]) /\ ~work[a].late =>
            visit[a[1]].pc = "race" /\ a = RunningAttempt(a[1])

Trying(v) == visit[v].pc \in {"begin", "race", "caught"}

\* One visit at a time counts on from the failures in the trail.
CountsOn ==
    ~overlap =>
        /\ failures < MaxAttempts
        /\ \A u, v \in Visit : Live(u) /\ Live(v) => u = v
        /\ \A v \in Visit : Trying(v) => visit[v].attempt = failures + 1

\* The do phase of an attempt is still to come.
Before(w) == w.pc = "enter" \/ (w.pc \in {"in", "leave"} /\ w.at # Len(conf.phases))

\* A visit of a step that is not idempotent has one attempt, and has not been
\* at the do phase before that attempt was.
OneAttempt ==
    ~conf.idempotent => \A v \in Visit :
        /\ Trying(v) => visit[v].attempt = visit[v].initial
        /\ visit[v].pc \in {"idle", "count", "begin"} =>
               /\ said[v].did = 0
               /\ \A i \in 1..MaxAttempts : work[<<v, i>>].pc = "none"
        /\ \A i \in 1..MaxAttempts : i # 1 => work[<<v, i>>].pc = "none"
        /\ \A i \in 1..MaxAttempts : Before(work[<<v, i>>]) => said[v].did = 0
        /\ said[v].did <= 1

StepInv == Types /\ InPhases /\ Raced /\ CountsOn /\ OneAttempt

-----------------------------------------------------------------------------
\* A policy always allows an attempt.
LEMMA BudgetPositive ==
    ASSUME conf \in StepConf PROVE MaxAttempts \in Nat /\ 0 < MaxAttempts
<1> DEFINE tiers == conf.attempts
           Told == {i \in DOMAIN tiers : tiers[i] # Unset}
<1>1. tiers \in [1..3 -> Nat]
  BY StepConfAssumption
<1> HIDE DEF tiers
<1>2. CASE Told = {}
  BY <1>2 DEF MaxAttempts, Resolve, tiers
<1>3. CASE Told # {}
  <2>1. PICK i \in Told : \A j \in Told : i <= j
    <3>1. Told \subseteq {1, 2, 3}
      BY <1>1
    <3> QED
      BY <1>3, <3>1
  <2> DEFINE first == CHOOSE k \in Told : \A j \in Told : k <= j
  <2>2. first \in Told
    BY <2>1
  <2>3. tiers[first] \in Nat /\ tiers[first] # 0
    BY <1>1, <2>2 DEF Unset
  <2>4. MaxAttempts = tiers[first]
    BY <1>3 DEF MaxAttempts, Resolve, tiers
  <2> QED
    BY <2>3, <2>4
<1> QED
  BY <1>2, <1>3

\* The phases of a step are numbered from 1, and there is one.
LEMMA PhasesShape ==
    ASSUME conf \in StepConf
    PROVE  /\ Len(conf.phases) \in Nat /\ 1 \in 1..Len(conf.phases)
           /\ DOMAIN conf.phases = 1..Len(conf.phases)
<1>1. ASSUME NEW S, NEW q \in Seq(S), q # <<>>
      PROVE  Len(q) \in Nat /\ 1 \in 1..Len(q) /\ DOMAIN q = 1..Len(q)
  BY <1>1
<1> QED
  BY <1>1, StepConfAssumption

\* The records of an attempt that has not begun and of one that is over.
LEMMA Blanks ==
    /\ NoWork \in WorkState /\ NoWork.pc = "none" /\ NoWork.at = 1 /\ ~NoWork.late
    /\ Gone \in WorkState /\ Gone.pc = "gone" /\ Gone.at = 1
<1>1. NoWork \in WorkState /\ NoWork.pc = "none" /\ NoWork.at = 1 /\ ~NoWork.late
  BY DEF NoWork, WorkState, WorkPc, NodeName
<1>2. \A w \in WorkState : /\ [w EXCEPT !.pc = "gone"] \in WorkState
                           /\ [w EXCEPT !.pc = "gone"].pc = "gone"
                           /\ [w EXCEPT !.pc = "gone"].at = w.at
  BY DEF WorkState, WorkPc
<1> QED
  BY <1>1, <1>2 DEF Gone

\* What a step of an attempt's promise changes: its own attempt, and the visit
\* that waits for it.
PromiseMove(a) ==
    /\ UNCHANGED <<conf, failures, overlap>>
    /\ Active(work[a])
    /\ visit' \in [Visit -> VisitState]
    /\ work' \in [AttemptId -> WorkState]
    /\ \A b \in AttemptId : b # a => work'[b] = work[b]
    /\ work'[a].at \in 1..Len(conf.phases)
    /\ \A u \in Visit :
          /\ visit'[u].attempt = visit[u].attempt /\ visit'[u].initial = visit[u].initial
          /\ visit'[u].from \in 1..Len(conf.phases)
          /\ u # a[1] => visit'[u].pc = visit[u].pc
    /\ \/ /\ work'[a].pc = "gone"
          /\ IF work[a].late THEN visit'[a[1]].pc = visit[a[1]].pc
             ELSE visit'[a[1]].pc \in {"caught", "over"}
       \/ /\ Active(work'[a]) /\ work'[a].late = work[a].late
          /\ visit'[a[1]].pc = visit[a[1]].pc

\* ... and what it records: the do phase is begun when it is still to come.
SaidMove(a) ==
    /\ said' \in [Visit -> SaidState]
    /\ \A u \in Visit : u # a[1] => said'[u].did = said[u].did
    /\ \/ /\ said'[a[1]].did = said[a[1]].did
          /\ Before(work'[a]) => Before(work[a])
       \/ /\ said'[a[1]].did = said[a[1]].did + 1
          /\ Before(work[a]) /\ ~Before(work'[a])

\* The attempt is over: the visit that waits for it takes what is left.
LEMMA OverMove ==
    ASSUME Types, InPhases, NEW a \in AttemptId, Active(work[a]),
           UNCHANGED <<conf, failures, overlap>>,
           work' = [work EXCEPT ![a] = Gone],
           visit' \in [Visit -> VisitState],
           \A u \in Visit :
              /\ visit'[u].attempt = visit[u].attempt /\ visit'[u].initial = visit[u].initial
              /\ visit'[u].from \in 1..Len(conf.phases)
              /\ u # a[1] => visit'[u].pc = visit[u].pc,
           IF work[a].late THEN visit'[a[1]].pc = visit[a[1]].pc
           ELSE visit'[a[1]].pc \in {"caught", "over"}
    PROVE  PromiseMove(a) /\ work'[a].pc = "gone" /\ ~Before(work'[a])
<1>1. Gone \in WorkState /\ Gone.pc = "gone" /\ Gone.at = 1
  BY Blanks
<1>2. 1 \in 1..Len(conf.phases)
  BY PhasesShape DEF Types
<1>3. /\ work' \in [AttemptId -> WorkState] /\ work'[a] = Gone
      /\ \A b \in AttemptId : b # a => work'[b] = work[b]
  BY <1>1 DEF Types
<1>4. PromiseMove(a)
  BY <1>1, <1>2, <1>3 DEF PromiseMove
<1> QED
  BY <1>1, <1>3, <1>4 DEF Before

\* The promise settles with an error: the race takes it, or it is dropped.
LEMMA ThrowsMove ==
    ASSUME Types, InPhases, NEW a \in AttemptId, Active(work[a]),
           UNCHANGED <<conf, failures, overlap>>, NEW e \in Error, Throws(a, e)
    PROVE  PromiseMove(a) /\ work'[a].pc = "gone" /\ ~Before(work'[a])
<1>1. a[1] \in Visit /\ visit[a[1]] \in VisitState
  BY DEF Types, AttemptId
<1>2. CASE work[a].late
  <2>1. visit' = visit /\ work' = [work EXCEPT ![a] = Gone]
    BY <1>2 DEF Throws
  <2> QED
    BY <1>2, <2>1, OverMove DEF Types, InPhases
<1>3. CASE ~work[a].late
  <2>1. /\ visit' = [visit EXCEPT ![a[1]].pc = "caught", ![a[1]].error = e]
        /\ work' = [work EXCEPT ![a] = Gone]
    BY <1>3 DEF Throws
  <2>2. /\ visit' \in [Visit -> VisitState]
        /\ visit'[a[1]].pc = "caught"
        /\ \A u \in Visit :
              /\ visit'[u].attempt = visit[u].attempt /\ visit'[u].initial = visit[u].initial
              /\ visit'[u].from = visit[u].from
              /\ u # a[1] => visit'[u].pc = visit[u].pc
    BY <1>1, <2>1 DEF Types, VisitState, VisitPc, ErrorName
  <2> QED
    BY <1>3, <2>1, <2>2, OverMove DEF InPhases
<1> QED
  BY <1>2, <1>3

\* The attempt goes on, and its visit waits.
LEMMA OnMove ==
    ASSUME Types, InPhases, NEW a \in AttemptId, Active(work[a]),
           UNCHANGED <<conf, failures, overlap>>,
           NEW w \in WorkState, Active(w), w.late = work[a].late, w.at \in 1..Len(conf.phases),
           work' = [work EXCEPT ![a] = w],
           visit' \in [Visit -> VisitState],
           \A u \in Visit :
              /\ visit'[u].attempt = visit[u].attempt /\ visit'[u].initial = visit[u].initial
              /\ visit'[u].from = visit[u].from /\ visit'[u].pc = visit[u].pc
    PROVE  PromiseMove(a) /\ work'[a] = w
<1>1. /\ work' \in [AttemptId -> WorkState] /\ work'[a] = w
      /\ \A b \in AttemptId : b # a => work'[b] = work[b]
  BY DEF Types
<1>2. a[1] \in Visit
  BY DEF AttemptId
<1> QED
  BY <1>1, <1>2 DEF PromiseMove, InPhases

\* ... at the same phase, or the next one.
LEMMA SamePhase ==
    ASSUME Types, InPhases, NEW a \in AttemptId, Active(work[a]),
           UNCHANGED <<conf, failures, overlap, visit>>,
           NEW pc \in {"in", "leave", "park", "returned"},
           work' = [work EXCEPT ![a].pc = pc]
    PROVE  PromiseMove(a) /\ work'[a].pc = pc /\ work'[a].at = work[a].at
<1> DEFINE w == [work[a] EXCEPT !.pc = pc]
<1>1. work[a] \in WorkState /\ work[a].at \in 1..Len(conf.phases)
  BY DEF Types, InPhases
<1>2. /\ w \in WorkState /\ w.pc = pc /\ w.late = work[a].late /\ w.at = work[a].at
  BY <1>1 DEF WorkState, WorkPc
<1>3. work' = [work EXCEPT ![a] = w]
  OBVIOUS
<1>4. Active(w)
  BY <1>2 DEF Active, WorkPc
<1> HIDE DEF w
<1>5. visit' \in [Visit -> VisitState]
  BY DEF Types
<1> QED
  BY <1>1, <1>2, <1>3, <1>4, <1>5, OnMove

\* Nothing the properties count is recorded.
LEMMA SaidSame ==
    ASSUME Types, NEW a \in AttemptId, UNCHANGED said, Before(work'[a]) => Before(work[a])
    PROVE  SaidMove(a)
BY DEF Types, SaidMove

\* Another field of the record is counted up.
LEMMA SaidOther ==
    ASSUME Types, NEW v \in Visit, NEW w \in WaitIds,
           \/ said' = said
           \/ said' = [said EXCEPT ![v].failed = @ + 1]
           \/ said' = [said EXCEPT ![v].lateDone = @ + 1]
           \/ said' = [said EXCEPT ![v].satisfied[w] = @ + 1]
    PROVE  /\ said' \in [Visit -> SaidState]
           /\ \A u \in Visit : said'[u].did = said[u].did
<1>1. said[v] \in SaidState /\ said \in [Visit -> SaidState]
  BY DEF Types
<1>2. CASE said' = said
  BY <1>1, <1>2
<1>3. CASE said' = [said EXCEPT ![v].failed = @ + 1]
  BY <1>1, <1>3 DEF SaidState
<1>4. CASE said' = [said EXCEPT ![v].lateDone = @ + 1]
  BY <1>1, <1>4 DEF SaidState
<1>5. CASE said' = [said EXCEPT ![v].satisfied[w] = @ + 1]
  <2> DEFINE s == [said[v].satisfied EXCEPT ![w] = @ + 1]
  <2>1. said[v].satisfied \in [WaitIds -> Nat]
    BY <1>1 DEF SaidState
  <2>2. s \in [WaitIds -> Nat]
    BY <2>1
  <2>3. said' = [said EXCEPT ![v] = [said[v] EXCEPT !.satisfied = s]]
    BY <1>5
  <2> HIDE DEF s
  <2>4. /\ [said[v] EXCEPT !.satisfied = s] \in SaidState
        /\ [said[v] EXCEPT !.satisfied = s].did = said[v].did
    BY <1>1, <2>2 DEF SaidState
  <2> QED
    BY <1>1, <2>3, <2>4
<1> QED
  BY <1>2, <1>3, <1>4, <1>5

\* Each step of a promise is such a move.
LEMMA EnterMove ==
    ASSUME Types, InPhases, NEW a \in AttemptId, EnterPhase(a)
    PROVE  PromiseMove(a) /\ SaidMove(a)
<1>1. /\ work[a].pc = "enter" /\ Active(work[a]) /\ Before(work[a])
      /\ UNCHANGED <<conf, failures, overlap>>
      /\ a[1] \in Visit
  BY DEF EnterPhase, Active, Before, WorkPc, AttemptId
<1>2. CASE marker
  <2>1. Throws(a, "cancelled") /\ said' = said
    BY <1>2 DEF EnterPhase
  <2>2. PromiseMove(a) /\ ~Before(work'[a])
    BY <1>1, <2>1, ThrowsMove DEF Error
  <2> QED
    BY <2>1, <2>2, SaidSame
<1>3. CASE ~marker
  <2>1. PICK pc \in {"in", "leave"} : work' = [work EXCEPT ![a].pc = pc]
    BY <1>3 DEF EnterPhase
  <2>2. PromiseMove(a) /\ work'[a].pc = pc /\ work'[a].at = work[a].at
    <3>1. visit' = visit
      BY <1>3 DEF EnterPhase
    <3> QED
      BY <1>1, <2>1, <3>1, SamePhase
  <2>3. CASE Phase(a).kind = "do"
    <3>1. said' = [said EXCEPT ![a[1]].did = @ + 1]
      BY <1>3, <2>3 DEF EnterPhase
    <3>2. /\ said' \in [Visit -> SaidState]
          /\ said'[a[1]].did = said[a[1]].did + 1
          /\ \A u \in Visit : u # a[1] => said'[u].did = said[u].did
      BY <1>1, <3>1 DEF Types, SaidState
    <3>3. work[a].at = Len(conf.phases)
      <4>1. work[a].at \in DOMAIN conf.phases
        BY PhasesShape DEF Types, InPhases
      <4> QED
        BY <2>3, <4>1, StepConfAssumption DEF Phase, Types
    <3>4. ~Before(work'[a])
      BY <1>1, <2>2, <3>3 DEF Before
    <3> QED
      BY <1>1, <2>2, <3>2, <3>4 DEF SaidMove
  <2>4. CASE Phase(a).kind # "do"
    <3>1. said' = said
      BY <1>3, <2>4 DEF EnterPhase
    <3> QED
      BY <1>1, <2>2, <3>1, SaidSame
  <2> QED
    BY <2>3, <2>4
<1> QED
  BY <1>2, <1>3

\* A phase's own work: it fails, parks the step, or is over.
LEMMA InMove ==
    ASSUME Types, InPhases, NEW a \in AttemptId,
           \/ FailPhase(a) \/ RejectWait(a) \/ FinishInputWait(a) \/ FinishCheckWait(a)
           \/ FinishPrompt(a) \/ FinishOther(a)
    PROVE  PromiseMove(a) /\ SaidMove(a)
<1>1. /\ work[a].pc = "in" /\ Active(work[a])
      /\ UNCHANGED <<conf, failures, overlap>>
      /\ a[1] \in Visit
  BY DEF FailPhase, RejectWait, FinishInputWait, FinishCheckWait, FinishPrompt, FinishOther,
         Active, WorkPc, AttemptId
<1>2. ASSUME NEW pc \in {"leave", "park"}, work' = [work EXCEPT ![a].pc = pc], visit' = visit
      PROVE  PromiseMove(a) /\ (Before(work'[a]) => Before(work[a]))
  <2>1. PromiseMove(a) /\ work'[a].pc = pc /\ work'[a].at = work[a].at
    BY <1>1, <1>2, SamePhase
  <2> QED
    BY <1>1, <2>1 DEF Before
<1>3. ASSUME NEW e \in Error, Throws(a, e), said' = said
      PROVE  PromiseMove(a) /\ SaidMove(a)
  <2>1. PromiseMove(a) /\ ~Before(work'[a])
    BY <1>1, <1>3, ThrowsMove
  <2> QED
    BY <1>3, <2>1, SaidSame
<1>4. CASE FailPhase(a) \/ RejectWait(a)
  BY <1>3, <1>4 DEF FailPhase, RejectWait, Error
<1>5. CASE FinishInputWait(a) \/ FinishCheckWait(a)
  <2>1. (Parks(a) \/ Satisfies(a)) /\ visit' = visit /\ Phase(a).kind \in WaitKind
    BY <1>5 DEF FinishInputWait, FinishCheckWait, WaitKind
  <2>2. CASE Parks(a)
    BY <1>1, <1>2, <2>1, <2>2, SaidSame DEF Parks
  <2>3. CASE Satisfies(a)
    <3>1. /\ PromiseMove(a) /\ (Before(work'[a]) => Before(work[a]))
      BY <1>2, <2>1, <2>3 DEF Satisfies
    <3>2. Phase(a).id \in WaitIds
      <4>1. work[a].at \in DOMAIN conf.phases
        BY PhasesShape DEF Types, InPhases
      <4> QED
        BY <4>1 DEF WaitIds, Phase, Types
    <3>3. /\ said' \in [Visit -> SaidState]
          /\ \A u \in Visit : said'[u].did = said[u].did
      BY <1>1, <2>3, <3>2, SaidOther DEF Satisfies
    <3> QED
      BY <1>1, <3>1, <3>3 DEF SaidMove
  <2> QED
    BY <2>1, <2>2, <2>3
<1>6. CASE FinishPrompt(a)
  <2>1. CASE TimedOut(a)
    <3>1. Throws(a, "timeout") /\ said' = said
      BY <1>6, <2>1 DEF FinishPrompt
    <3> QED
      BY <1>3, <3>1 DEF Error
  <2>2. CASE ~TimedOut(a)
    <3>1. /\ PromiseMove(a) /\ (Before(work'[a]) => Before(work[a]))
      BY <1>2, <1>6, <2>2 DEF FinishPrompt
    <3>2. said' = said \/ said' = [said EXCEPT ![a[1]].lateDone = @ + 1]
      BY <1>6, <2>2 DEF FinishPrompt
    <3>3. /\ said' \in [Visit -> SaidState]
          /\ \A u \in Visit : said'[u].did = said[u].did
      <4>1. CASE said' = said
        BY <4>1 DEF Types
      <4>2. CASE said' = [said EXCEPT ![a[1]].lateDone = @ + 1]
        <5>1. said[a[1]] \in SaidState
          BY <1>1 DEF Types
        <5>2. /\ [said[a[1]] EXCEPT !.lateDone = @ + 1] \in SaidState
              /\ [said[a[1]] EXCEPT !.lateDone = @ + 1].did = said[a[1]].did
          BY <5>1 DEF SaidState
        <5> QED
          BY <1>1, <4>2, <5>2 DEF Types
      <4> QED
        BY <3>2, <4>1, <4>2
    <3> QED
      BY <1>1, <3>1, <3>3 DEF SaidMove
  <2> QED
    BY <2>1, <2>2
<1>7. CASE FinishOther(a)
  <2>1. PICK n \in NodeName : work' = [work EXCEPT ![a].pc = "leave", ![a].node = n]
    <3>1. conf.nodes \subseteq NodeName
      BY StepConfAssumption DEF Types, NodeName
    <3>2. PICK n \in IF Phase(a).kind = "do" THEN conf.nodes ELSE {"none"} :
              work' = [work EXCEPT ![a].pc = "leave", ![a].node = n]
      BY <1>7, Zenon DEF FinishOther
    <3>3. n \in NodeName
      BY <3>1, <3>2 DEF NodeName
    <3> QED
      BY <3>2, <3>3
  <2> DEFINE w == [work[a] EXCEPT !.pc = "leave", !.node = n]
  <2>2. work[a] \in WorkState /\ work[a].at \in 1..Len(conf.phases)
    BY DEF Types, InPhases
  <2>3. w \in WorkState /\ w.pc = "leave" /\ w.late = work[a].late /\ w.at = work[a].at
    BY <2>2 DEF WorkState, WorkPc
  <2>4. work' = [work EXCEPT ![a] = w]
    BY <2>1
  <2>5. visit' = visit /\ said' = said
    BY <1>7 DEF FinishOther
  <2>6. Active(w)
    BY <2>3 DEF Active, WorkPc
  <2> HIDE DEF w
  <2>7. PromiseMove(a) /\ work'[a] = w
    BY <1>1, <2>2, <2>3, <2>4, <2>5, <2>6, OnMove DEF Types
  <2> QED
    BY <1>1, <2>3, <2>5, <2>7, SaidSame DEF Before
<1> QED
  BY <1>4, <1>5, <1>6, <1>7

\* Between two phases the answer of a wait is kept, and nothing is recorded.
LEMMA LeaveMove ==
    ASSUME Types, InPhases, NEW a \in AttemptId, LeavePhase(a)
    PROVE  PromiseMove(a) /\ SaidMove(a)
<1> DEFINE out == IF Phase(a).kind \in WaitKind THEN visit[a[1]].outputs \cup {Phase(a).id}
                  ELSE visit[a[1]].outputs
           keep == [visit EXCEPT ![a[1]].outputs = out]
           e == IF marker THEN "cancelled" ELSE IF TimedOut(a) THEN "timeout" ELSE "none"
<1>1. /\ work[a].pc = "leave" /\ Active(work[a]) /\ ~IsLast(a)
      /\ UNCHANGED <<conf, failures, overlap>>
      /\ a[1] \in Visit /\ visit[a[1]] \in VisitState
      /\ work[a].at \in 1..Len(conf.phases) /\ work[a] \in WorkState
      /\ said' = said
  BY DEF LeavePhase, Active, WorkPc, AttemptId, Types, InPhases
<1>2. work[a].at # Len(conf.phases) /\ Before(work[a])
  BY <1>1 DEF IsLast, Before
<1>3. out \in SUBSET STRING
  <2>1. Phase(a).id \in STRING
    <3>1. ASSUME NEW S, NEW q \in Seq(S), NEW i \in 1..Len(q) PROVE q[i] \in S
      BY <3>1
    <3>2. conf.phases[work[a].at] \in [kind : PhaseKind, id : STRING]
      BY <1>1, <3>1, StepConfAssumption DEF Types
    <3> QED
      BY <3>2 DEF Phase
  <2>2. visit[a[1]].outputs \in SUBSET STRING
    BY <1>1 DEF VisitState
  <2> QED
    BY <2>1, <2>2
<1>4. /\ \/ /\ e = "none" /\ visit' = keep
            /\ work' = [work EXCEPT ![a].pc = "enter", ![a].at = @ + 1]
         \/ /\ e \in Error /\ work' = [work EXCEPT ![a] = Gone]
            /\ visit' = IF work[a].late THEN keep
                        ELSE [keep EXCEPT ![a[1]].pc = "caught", ![a[1]].error = e]
  BY DEF LeavePhase, Error
<1> HIDE DEF out, e
<1>5. /\ keep \in [Visit -> VisitState]
      /\ \A u \in Visit :
            /\ keep[u].attempt = visit[u].attempt /\ keep[u].initial = visit[u].initial
            /\ keep[u].from = visit[u].from /\ keep[u].pc = visit[u].pc
  BY <1>1, <1>3 DEF Types, VisitState
<1> HIDE DEF keep
<1>6. CASE visit' = keep /\ work' = [work EXCEPT ![a].pc = "enter", ![a].at = @ + 1]
  <2> DEFINE next == work[a].at + 1
             w == [work[a] EXCEPT !.pc = "enter", !.at = next]
  <2>1. Len(conf.phases) \in Nat /\ next \in Nat
    BY <1>1, PhasesShape DEF Types
  <2> HIDE DEF next
  <2>2. /\ w \in WorkState /\ w.pc = "enter" /\ w.late = work[a].late
        /\ w.at = next
    BY <1>1, <2>1 DEF WorkState, WorkPc
  <2>3. w.at \in 1..Len(conf.phases)
    BY <1>1, <1>2, <2>1, <2>2 DEF next
  <2>4. work' = [work EXCEPT ![a] = w]
    BY <1>6 DEF next
  <2>5. Active(w)
    BY <2>2 DEF Active, WorkPc
  <2> HIDE DEF w
  <2>6. PromiseMove(a)
    BY <1>1, <1>5, <1>6, <2>2, <2>3, <2>4, <2>5, OnMove
  <2> QED
    BY <1>1, <1>2, <2>6, SaidSame
<1>7. CASE /\ e \in Error /\ work' = [work EXCEPT ![a] = Gone]
           /\ visit' = IF work[a].late THEN keep
                       ELSE [keep EXCEPT ![a[1]].pc = "caught", ![a[1]].error = e]
  <2>1. /\ visit' \in [Visit -> VisitState]
        /\ \A u \in Visit :
              /\ visit'[u].attempt = visit[u].attempt /\ visit'[u].initial = visit[u].initial
              /\ visit'[u].from = visit[u].from
              /\ u # a[1] => visit'[u].pc = visit[u].pc
        /\ IF work[a].late THEN visit'[a[1]].pc = visit[a[1]].pc
           ELSE visit'[a[1]].pc = "caught"
    <3>1. CASE work[a].late
      BY <1>1, <1>5, <1>7, <3>1
    <3>2. CASE ~work[a].late
      <4>1. visit' = [keep EXCEPT ![a[1]].pc = "caught", ![a[1]].error = e]
        BY <1>7, <3>2
      <4> DEFINE x == [keep[a[1]] EXCEPT !.pc = "caught", !.error = e]
      <4>2. keep[a[1]] \in VisitState
        BY <1>1, <1>5
      <4>3. x \in VisitState /\ x.pc = "caught" /\ x.attempt = keep[a[1]].attempt
            /\ x.initial = keep[a[1]].initial /\ x.from = keep[a[1]].from
        BY <1>7, <4>2 DEF VisitState, VisitPc, ErrorName
      <4>4. visit' = [keep EXCEPT ![a[1]] = x]
        BY <4>1
      <4> HIDE DEF x
      <4> QED
        BY <1>1, <1>5, <3>2, <4>3, <4>4
    <3> QED
      BY <3>1, <3>2
  <2>2. PromiseMove(a)
    BY <1>1, <1>7, <2>1, OverMove DEF InPhases
  <2> QED
    BY <1>1, <1>2, <2>2, SaidSame
<1> QED
  BY <1>4, <1>6, <1>7

\* A visit that takes a result is over.
LEMMA EndsKeeps ==
    ASSUME Types, NEW v \in Visit, NEW r \in Result, Ends(v, r)
    PROVE  /\ visit' \in [Visit -> VisitState] /\ visit'[v].pc = "over"
           /\ \A u \in Visit :
                 /\ visit'[u].attempt = visit[u].attempt /\ visit'[u].initial = visit[u].initial
                 /\ visit'[u].from = visit[u].from
                 /\ u # v => visit'[u].pc = visit[u].pc
<1>1. visit[v] \in VisitState /\ visit \in [Visit -> VisitState]
  BY DEF Types
<1> DEFINE x == [visit[v] EXCEPT !.pc = "over", !.result = r, !.error = "none"]
<1>2. x \in VisitState /\ x.pc = "over" /\ x.attempt = visit[v].attempt
      /\ x.initial = visit[v].initial /\ x.from = visit[v].from
  BY <1>1 DEF VisitState, VisitPc, ErrorName
<1>3. visit' = [visit EXCEPT ![v] = x]
  BY DEF Ends
<1> HIDE DEF x
<1> QED
  BY <1>1, <1>2, <1>3

\* A step that parks ends its visit where it waits.
LEMMA ParkMove ==
    ASSUME Types, InPhases, NEW a \in AttemptId, ParkStep(a)
    PROVE  PromiseMove(a) /\ SaidMove(a)
<1>1. /\ work[a].pc = "park" /\ Active(work[a])
      /\ UNCHANGED <<conf, failures, overlap>>
      /\ a[1] \in Visit /\ visit[a[1]] \in VisitState
      /\ work[a].at \in 1..Len(conf.phases) /\ said' = said
  BY DEF ParkStep, Active, WorkPc, AttemptId, Types, InPhases
<1>2. CASE Throws(a, "cancelled")
  <2>1. PromiseMove(a) /\ ~Before(work'[a])
    BY <1>1, <1>2, ThrowsMove DEF Error
  <2> QED
    BY <1>1, <2>1, SaidSame
<1>3. CASE ~Throws(a, "cancelled")
  <2>1. /\ work' = [work EXCEPT ![a] = Gone]
        /\ visit' = IF work[a].late THEN visit
                    ELSE [visit EXCEPT ![a[1]].pc = "over", ![a[1]].result = "waiting",
                                       ![a[1]].from = work[a].at]
    BY <1>3 DEF ParkStep
  <2>2. CASE work[a].late
    <3>1. PromiseMove(a) /\ ~Before(work'[a])
      BY <1>1, <2>1, <2>2, OverMove DEF Types, InPhases
    <3> QED
      BY <1>1, <3>1, SaidSame
  <2>3. CASE ~work[a].late
    <3> DEFINE x == [visit[a[1]] EXCEPT !.pc = "over", !.result = "waiting", !.from = work[a].at]
    <3>1. work[a].at \in Nat
      BY <1>1, PhasesShape DEF Types
    <3>2. x \in VisitState /\ x.pc = "over" /\ x.attempt = visit[a[1]].attempt
          /\ x.initial = visit[a[1]].initial /\ x.from = work[a].at
      BY <1>1, <3>1 DEF VisitState, VisitPc, Result
    <3>3. visit' = [visit EXCEPT ![a[1]] = x]
      BY <2>1, <2>3
    <3> HIDE DEF x
    <3>4. PromiseMove(a) /\ ~Before(work'[a])
      <4>1. /\ visit' \in [Visit -> VisitState] /\ visit'[a[1]].pc = "over"
            /\ \A u \in Visit :
                  /\ visit'[u].attempt = visit[u].attempt /\ visit'[u].initial = visit[u].initial
                  /\ visit'[u].from \in 1..Len(conf.phases)
                  /\ u # a[1] => visit'[u].pc = visit[u].pc
        BY <1>1, <3>2, <3>3 DEF Types, InPhases
      <4> QED
        BY <1>1, <2>1, <2>3, <4>1, OverMove
    <3> QED
      BY <1>1, <3>4, SaidSame
  <2> QED
    BY <2>2, <2>3
<1> QED
  BY <1>2, <1>3

\* The end of the last phase does no do phase.
LEMMA ConcludeMove ==
    ASSUME Types, InPhases, NEW a \in AttemptId, Conclude(a)
    PROVE  PromiseMove(a) /\ SaidMove(a)
<1>1. /\ work[a].pc = "leave" /\ Active(work[a])
      /\ UNCHANGED <<conf, failures, overlap>>
      /\ a[1] \in Visit /\ said[a[1]] \in SaidState
  BY DEF Conclude, Active, WorkPc, AttemptId, Types
<1>2. CASE marker \/ TimedOut(a)
  <2>1. PICK e \in Error : Throws(a, e)
    BY <1>2 DEF Conclude, Error
  <2>2. said' = said
    BY <1>2 DEF Conclude
  <2>3. PromiseMove(a) /\ ~Before(work'[a])
    BY <1>1, <2>1, ThrowsMove
  <2> QED
    BY <2>2, <2>3, SaidSame
<1>3. CASE ~(marker \/ TimedOut(a))
  <2>1. work' = [work EXCEPT ![a].pc = "returned"] /\ visit' = visit
    BY <1>3 DEF Conclude
  <2>2. PromiseMove(a) /\ work'[a].pc = "returned"
    BY <1>1, <2>1, SamePhase
  <2>3. ~Before(work'[a])
    BY <2>2 DEF Before
  <2> DEFINE f == IF work[a].node = "fail" THEN said[a[1]].failed + 1 ELSE said[a[1]].failed
             l == IF work[a].node # "fail" /\ ~HasPrompt /\ work[a].late
                  THEN said[a[1]].lateDone + 1 ELSE said[a[1]].lateDone
             x == [said[a[1]] EXCEPT !.failed = f, !.lateDone = l]
  <2>4. said' = [said EXCEPT ![a[1]] = x]
    BY <1>3 DEF Conclude
  <2>5. f \in Nat /\ l \in Nat
    BY <1>1 DEF SaidState
  <2> HIDE DEF f, l
  <2>6. x \in SaidState /\ x.did = said[a[1]].did
    BY <1>1, <2>5 DEF SaidState
  <2> HIDE DEF x
  <2> QED
    BY <1>1, <2>2, <2>3, <2>4, <2>6 DEF Types, SaidMove
<1> QED
  BY <1>2, <1>3

\* The result of the race ends the visit, unless nobody waits for it.
LEMMA ReturnMove ==
    ASSUME Types, InPhases, NEW a \in AttemptId, ReturnNode(a)
    PROVE  PromiseMove(a) /\ SaidMove(a)
<1>1. /\ work[a].pc = "returned" /\ Active(work[a])
      /\ UNCHANGED <<conf, failures, overlap>>
      /\ a[1] \in Visit /\ said[a[1]] \in SaidState
      /\ work' = [work EXCEPT ![a] = Gone]
  BY DEF ReturnNode, Active, WorkPc, AttemptId, Types
<1>2. CASE work[a].late
  <2>1. visit' = visit /\ said' = said
    BY <1>2 DEF ReturnNode
  <2>2. PromiseMove(a) /\ ~Before(work'[a])
    BY <1>1, <1>2, <2>1, OverMove DEF Types, InPhases
  <2> QED
    BY <2>1, <2>2, SaidSame
<1>3. CASE ~work[a].late
  <2>1. PICK r \in Result : Ends(a[1], r)
    <3>1. work[a].node \in NodeName
      BY DEF Types, WorkState
    <3> QED
      BY <1>3, <3>1 DEF ReturnNode, NodeName, Result
  <2>2. PromiseMove(a) /\ ~Before(work'[a])
    BY ZenonT(60), <1>1, <1>3, <2>1, EndsKeeps, OverMove DEF InPhases
  <2>3. said' = said \/ said' = [said EXCEPT ![a[1]].failed = @ + 1]
    BY <1>3 DEF ReturnNode
  <2>4. CASE said' = said
    BY <2>2, <2>4, SaidSame
  <2>5. CASE said' = [said EXCEPT ![a[1]].failed = @ + 1]
    <3>1. /\ [said[a[1]] EXCEPT !.failed = @ + 1] \in SaidState
          /\ [said[a[1]] EXCEPT !.failed = @ + 1].did = said[a[1]].did
      BY <1>1 DEF SaidState
    <3> QED
      BY <1>1, <2>2, <2>5, <3>1 DEF Types, SaidMove
  <2> QED
    BY <2>3, <2>4, <2>5
<1> QED
  BY <1>2, <1>3

\* Every step of an attempt's promise is such a move.
LEMMA PromiseMoves ==
    ASSUME Types, InPhases, NEW a \in AttemptId, Promise(a)
    PROVE  PromiseMove(a) /\ SaidMove(a)
BY EnterMove, InMove, LeaveMove, ParkMove, ConcludeMove, ReturnMove DEF Promise

-----------------------------------------------------------------------------
\* The attempts of a step are numbered as its definition says.
LEMMA SameAttempts ==
    ASSUME UNCHANGED conf PROVE MaxAttempts' = MaxAttempts /\ AttemptId' = AttemptId
<1>1. MaxAttempts' = MaxAttempts
  BY DEF MaxAttempts
<1> QED
  BY <1>1 DEF AttemptId

\* An attempt is named by its visit and its number.
LEMMA AttemptIdShape ==
    ASSUME NEW a \in AttemptId
    PROVE  a[1] \in Visit /\ a[2] \in 1..MaxAttempts /\ a = <<a[1], a[2]>>
BY DEF AttemptId

\* No step of a promise disturbs what the visits rely on.
LEMMA PromiseKeeps ==
    ASSUME StepInv, NEW a \in AttemptId, Promise(a)
    PROVE  StepInv'
<1>1. Types /\ InPhases /\ Raced /\ CountsOn /\ OneAttempt
  BY DEF StepInv
<1>2. PromiseMove(a) /\ SaidMove(a)
  BY <1>1, PromiseMoves
<1>3. /\ UNCHANGED <<conf, failures, overlap>>
      /\ MaxAttempts' = MaxAttempts /\ AttemptId' = AttemptId
      /\ a[1] \in Visit /\ a[2] \in 1..MaxAttempts /\ a = <<a[1], a[2]>>
  BY <1>2, SameAttempts, AttemptIdShape DEF PromiseMove
<1>4. Types'
  BY <1>1, <1>2, <1>3 DEF Types, PromiseMove, SaidMove
<1>5. InPhases'
  BY <1>1, <1>2, <1>3 DEF InPhases, PromiseMove
<1>6. ~work[a].late => visit[a[1]].pc = "race" /\ a = RunningAttempt(a[1])
  BY <1>1, <1>2 DEF Raced, PromiseMove
<1>7. \A u \in Visit :
         /\ visit'[u].attempt = visit[u].attempt /\ visit'[u].initial = visit[u].initial
         /\ \/ visit'[u].pc = visit[u].pc
            \/ /\ u = a[1] /\ ~work[a].late /\ visit[u].pc = "race"
               /\ visit'[u].pc \in {"caught", "over"} /\ work'[a].pc = "gone"
  BY <1>2, <1>6 DEF PromiseMove
<1>8. Raced'
  <2> SUFFICES ASSUME NEW b \in AttemptId, Active(work'[b]), ~work'[b].late
               PROVE  visit'[b[1]].pc = "race" /\ b = RunningAttempt(b[1])'
    BY <1>3 DEF Raced, Active
  <2>1. b[1] \in Visit
    BY AttemptIdShape
  <2>2. RunningAttempt(b[1])' = RunningAttempt(b[1])
    BY <1>7, <2>1 DEF RunningAttempt
  <2>3. CASE b = a
    BY <1>2, <1>6, <2>2, <2>3 DEF PromiseMove, Active
  <2>4. CASE b # a
    <3>1. work'[b] = work[b]
      BY <1>2, <2>4 DEF PromiseMove
    <3>2. visit[b[1]].pc = "race" /\ b = RunningAttempt(b[1])
      BY <1>1, <3>1 DEF Raced
    <3> QED
      BY <1>6, <1>7, <2>1, <2>2, <2>4, <3>2
  <2> QED
    BY <2>3, <2>4
<1>9. CountsOn'
  <2>1. \A u \in Visit : /\ Live(u)' => Live(u)
                         /\ Trying(u)' => Trying(u)
    BY <1>7 DEF Live, Trying
  <2> QED
    BY <1>1, <1>3, <1>7, <2>1 DEF CountsOn
<1>10. OneAttempt'
  <2> SUFFICES ASSUME ~conf.idempotent, NEW v \in Visit
               PROVE  /\ Trying(v)' => visit'[v].attempt = visit'[v].initial
                      /\ visit'[v].pc \in {"idle", "count", "begin"} =>
                             /\ said'[v].did = 0
                             /\ \A i \in 1..MaxAttempts : work'[<<v, i>>].pc = "none"
                      /\ \A i \in 1..MaxAttempts : i # 1 => work'[<<v, i>>].pc = "none"
                      /\ \A i \in 1..MaxAttempts : Before(work[<<v, i>>])' => said'[v].did = 0
                      /\ said'[v].did <= 1
    BY <1>3 DEF OneAttempt
  <2>1. /\ Trying(v) => visit[v].attempt = visit[v].initial
        /\ visit[v].pc \in {"idle", "count", "begin"} =>
               /\ said[v].did = 0
               /\ \A i \in 1..MaxAttempts : work[<<v, i>>].pc = "none"
        /\ \A i \in 1..MaxAttempts : i # 1 => work[<<v, i>>].pc = "none"
        /\ \A i \in 1..MaxAttempts : Before(work[<<v, i>>]) => said[v].did = 0
        /\ said[v].did <= 1
    BY <1>1 DEF OneAttempt
  <2>2. /\ work[a].pc # "none"
        /\ \A i \in 1..MaxAttempts :
              <<v, i>> \in AttemptId /\ (<<v, i>> # a => work'[<<v, i>>] = work[<<v, i>>])
    BY <1>2 DEF PromiseMove, Active, AttemptId
  <2>3. Trying(v)' => visit'[v].attempt = visit'[v].initial
    BY <1>7, <2>1 DEF Trying
  <2>4. CASE v # a[1]
    <3>1. /\ said'[v].did = said[v].did
          /\ \A i \in 1..MaxAttempts : work'[<<v, i>>] = work[<<v, i>>]
      BY <1>2, <1>3, <2>2, <2>4 DEF SaidMove
    <3>2. \A i \in 1..MaxAttempts : Before(work[<<v, i>>])' => Before(work[<<v, i>>])
      BY <1>3, <3>1 DEF Before
    <3> QED
      BY <1>7, <2>1, <2>3, <2>4, <3>1, <3>2
  <2>5. CASE v = a[1]
    <3>1. a[2] = 1 /\ a = <<v, 1>>
      BY <1>3, <2>1, <2>2, <2>5
    <3>2. visit[v].pc \notin {"idle", "count", "begin"}
      BY <1>3, <2>1, <2>2, <2>5
    <3>3. visit'[v].pc \notin {"idle", "count", "begin"}
      BY <1>7, <3>2
    <3>4. \A i \in 1..MaxAttempts : i # 1 =>
              work'[<<v, i>>].pc = "none" /\ ~Before(work[<<v, i>>])'
      BY <2>1, <2>2, <3>1 DEF Before
    <3>5. said[v].did \in Nat
      BY <1>1 DEF Types, SaidState
    <3>6. (Before(work[a])' => said'[v].did = 0) /\ said'[v].did <= 1
      <4>1. Before(work[a])' <=> Before(work'[a])
        BY <1>3 DEF Before
      <4>2. Before(work[a]) => said[v].did = 0
        BY <1>3, <2>1, <2>5
      <4> QED
        BY <1>2, <2>1, <2>5, <3>5, <4>1, <4>2 DEF SaidMove
    <3> QED
      BY <2>3, <3>1, <3>3, <3>4, <3>6
  <2> QED
    BY <2>4, <2>5
<1> QED
  BY <1>4, <1>5, <1>8, <1>9, <1>10 DEF StepInv

\* A failure that is recorded is no execution.
LEMMA FailedCounted ==
    ASSUME Types, NEW v \in Visit, said' = said \/ said' = [said EXCEPT ![v].failed = @ + 1]
    PROVE  /\ said' \in [Visit -> SaidState]
           /\ \A u \in Visit : said'[u].did = said[u].did
<1>1. said \in [Visit -> SaidState] /\ said[v] \in SaidState
  BY DEF Types
<1> DEFINE x == [said[v] EXCEPT !.failed = @ + 1]
<1>2. x \in SaidState /\ x.did = said[v].did
  BY <1>1 DEF SaidState
<1> HIDE DEF x
<1>3. said' = said \/ said' = [said EXCEPT ![v] = x]
  BY DEF x
<1> QED
  BY <1>1, <1>2, <1>3

\* A step of the loop of one visit that is not at its race.
LEMMA LoopKeeps ==
    ASSUME StepInv, NEW v \in Visit, visit[v].pc # "race",
           UNCHANGED <<conf, work>>, failures' \in Nat,
           visit' \in [Visit -> VisitState], said' \in [Visit -> SaidState],
           visit'[v].from \in 1..Len(conf.phases),
           \A u \in Visit : said'[u].did = said[u].did,
           \A u \in Visit \ {v} :
              /\ visit'[u].attempt = visit[u].attempt /\ visit'[u].initial = visit[u].initial
              /\ visit'[u].from = visit[u].from /\ visit'[u].pc = visit[u].pc,
           ~conf.idempotent =>
              /\ visit'[v].pc \in {"idle", "count", "begin"} =>
                     visit[v].pc \in {"idle", "count", "begin"}
              /\ Trying(v)' => visit'[v].attempt = visit'[v].initial,
           CountsOn'
    PROVE  StepInv'
<1>1. Types /\ InPhases /\ Raced /\ OneAttempt
  BY DEF StepInv
<1>2. MaxAttempts' = MaxAttempts /\ AttemptId' = AttemptId
  BY SameAttempts
<1>3. Types' /\ InPhases'
  BY <1>1, <1>2 DEF Types, InPhases
<1>4. Raced'
  <2> SUFFICES ASSUME NEW b \in AttemptId, Active(work[b]), ~work[b].late
               PROVE  visit'[b[1]].pc = "race" /\ b = RunningAttempt(b[1])'
    BY <1>2 DEF Raced, Active
  <2>1. b[1] \in Visit /\ visit[b[1]].pc = "race" /\ b = RunningAttempt(b[1])
    BY <1>1, AttemptIdShape DEF Raced
  <2> QED
    BY <2>1 DEF RunningAttempt
<1>5. OneAttempt'
  <2> SUFFICES ASSUME ~conf.idempotent, NEW u \in Visit
               PROVE  /\ Trying(u)' => visit'[u].attempt = visit'[u].initial
                      /\ visit'[u].pc \in {"idle", "count", "begin"} =>
                             /\ said'[u].did = 0
                             /\ \A i \in 1..MaxAttempts : work[<<u, i>>].pc = "none"
                      /\ \A i \in 1..MaxAttempts : i # 1 => work[<<u, i>>].pc = "none"
                      /\ \A i \in 1..MaxAttempts : Before(work[<<u, i>>]) => said'[u].did = 0
                      /\ said'[u].did <= 1
    BY <1>2 DEF OneAttempt, Before
  <2>1. /\ Trying(u) => visit[u].attempt = visit[u].initial
        /\ visit[u].pc \in {"idle", "count", "begin"} =>
               /\ said[u].did = 0
               /\ \A i \in 1..MaxAttempts : work[<<u, i>>].pc = "none"
        /\ \A i \in 1..MaxAttempts : i # 1 => work[<<u, i>>].pc = "none"
        /\ \A i \in 1..MaxAttempts : Before(work[<<u, i>>]) => said[u].did = 0
        /\ said[u].did <= 1
    BY <1>1 DEF OneAttempt
  <2> QED
    BY <2>1 DEF Trying
<1> QED
  BY <1>3, <1>4, <1>5 DEF StepInv

\* A visit counts on from the failures in the trail.
LEMMA CountKeeps ==
    ASSUME StepInv, NEW v \in Visit, CountAttempts(v)
    PROVE  StepInv'
<1>1. /\ Types /\ InPhases /\ CountsOn /\ visit[v].pc = "count"
      /\ UNCHANGED <<conf, work, failures, overlap>>
      /\ visit[v] \in VisitState /\ said[v] \in SaidState /\ failures \in Nat
      /\ MaxAttempts \in Nat /\ MaxAttempts' = MaxAttempts
  BY SameAttempts, BudgetPositive DEF StepInv, CountAttempts, Types
<1>2. CASE ~visit[v].resumed /\ failures >= MaxAttempts
  <2>1. Ends(v, "failure") /\ said' = [said EXCEPT ![v].failed = @ + 1]
    BY <1>2 DEF CountAttempts
  <2>2. /\ visit' \in [Visit -> VisitState] /\ visit'[v].pc = "over"
        /\ \A u \in Visit :
              /\ visit'[u].attempt = visit[u].attempt /\ visit'[u].initial = visit[u].initial
              /\ visit'[u].from = visit[u].from
              /\ u # v => visit'[u].pc = visit[u].pc
    BY <1>1, <2>1, EndsKeeps DEF Result
  <2>3. /\ said' \in [Visit -> SaidState]
        /\ \A u \in Visit : said'[u].did = said[u].did
    BY <1>1, <2>1, FailedCounted
  <2>4. CountsOn'
    BY <1>1, <2>2 DEF CountsOn, Live, Trying
  <2> QED
    BY <1>1, <2>2, <2>3, <2>4, LoopKeeps DEF InPhases, Trying
<1>3. CASE ~(~visit[v].resumed /\ failures >= MaxAttempts)
  <2> DEFINE n == failures + 1
             x == [visit[v] EXCEPT !.pc = "begin", !.attempt = n, !.initial = n]
  <2>1. visit' = [visit EXCEPT ![v] = x] /\ said' = said /\ n \in Nat
    <3>1. n \in Nat
      BY <1>1
    <3>2. /\ visit' = [visit EXCEPT ![v].pc = "begin", ![v].attempt = failures + 1,
                                     ![v].initial = failures + 1]
          /\ said' = said
      BY <1>3 DEF CountAttempts
    <3> QED
      BY <3>1, <3>2
  <2> HIDE DEF n
  <2>2. /\ x \in VisitState /\ x.pc = "begin" /\ x.attempt = n
        /\ x.initial = n /\ x.from = visit[v].from
    BY <1>1, <2>1 DEF VisitState, VisitPc
  <2> HIDE DEF x
  <2>3. /\ visit' \in [Visit -> VisitState] /\ visit'[v] = x
        /\ \A u \in Visit \ {v} : visit'[u] = visit[u]
    BY <1>1, <2>1, <2>2 DEF Types
  <2>4. CountsOn'
    BY <1>1, <2>2, <2>3 DEF CountsOn, Live, Trying, n
  <2>5. said' \in [Visit -> SaidState]
    BY <1>1, <2>1 DEF Types
  <2> QED
    BY <1>1, <2>1, <2>2, <2>3, <2>4, <2>5, LoopKeeps DEF InPhases
<1> QED
  BY <1>2, <1>3

\* A failure is counted with the attempt that goes on from it.
LEMMA HandleKeeps ==
    ASSUME StepInv, NEW v \in Visit, HandleFailure(v)
    PROVE  StepInv'
<1>1. /\ Types /\ InPhases /\ CountsOn /\ OneAttempt /\ visit[v].pc = "caught"
      /\ UNCHANGED <<conf, work, overlap>>
      /\ visit[v] \in VisitState /\ said[v] \in SaidState /\ failures \in Nat
      /\ MaxAttempts \in Nat /\ MaxAttempts' = MaxAttempts
  BY SameAttempts, BudgetPositive DEF StepInv, HandleFailure, Types
<1>2. ASSUME NEW r \in Result, Ends(v, r), failures' = failures,
             said' = said \/ said' = [said EXCEPT ![v].failed = @ + 1]
      PROVE  StepInv'
  <2>1. /\ visit' \in [Visit -> VisitState] /\ visit'[v].pc = "over"
        /\ \A u \in Visit :
              /\ visit'[u].attempt = visit[u].attempt /\ visit'[u].initial = visit[u].initial
              /\ visit'[u].from = visit[u].from
              /\ u # v => visit'[u].pc = visit[u].pc
    BY <1>1, <1>2, EndsKeeps
  <2>2. /\ said' \in [Visit -> SaidState]
        /\ \A u \in Visit : said'[u].did = said[u].did
    BY <1>1, <1>2, FailedCounted
  <2>3. CountsOn'
    BY <1>1, <1>2, <2>1 DEF CountsOn, Live, Trying
  <2> QED
    BY <1>1, <1>2, <2>1, <2>2, <2>3, LoopKeeps DEF InPhases, Trying
<1>3. CASE visit[v].error = "cancelled" /\ Ends(v, "cancelled") /\ UNCHANGED <<failures, said>>
  BY <1>2, <1>3 DEF Result
<1>4. CASE /\ MayRetry(v)
           /\ failures' = failures + 1 /\ said' = said
           /\ visit' = [visit EXCEPT ![v].pc = "begin", ![v].attempt = @ + 1]
  <2>1. conf.idempotent /\ visit[v].attempt < MaxAttempts /\ visit[v].attempt \in Nat
    BY <1>1, <1>4 DEF MayRetry, VisitState
  <2> DEFINE n == visit[v].attempt + 1
             x == [visit[v] EXCEPT !.pc = "begin", !.attempt = n]
  <2>2. visit' = [visit EXCEPT ![v] = x] /\ n \in Nat
    <3>1. n \in Nat
      BY <2>1
    <3>2. visit' = [visit EXCEPT ![v].pc = "begin", ![v].attempt = visit[v].attempt + 1]
      BY <1>4
    <3> QED
      BY <3>1, <3>2
  <2> HIDE DEF n
  <2>3. /\ x \in VisitState /\ x.pc = "begin" /\ x.attempt = n
        /\ x.from = visit[v].from
    BY <1>1, <2>1, <2>2 DEF VisitState, VisitPc
  <2> HIDE DEF x
  <2>4. /\ visit' \in [Visit -> VisitState] /\ visit'[v] = x
        /\ \A u \in Visit \ {v} : visit'[u] = visit[u]
    BY <1>1, <2>2, <2>3 DEF Types
  <2>5. CountsOn'
    <3> SUFFICES ASSUME ~overlap PROVE CountsOn'
      BY <1>1 DEF CountsOn
    <3>1. /\ visit[v].attempt = failures + 1
          /\ \A u \in Visit : Live(u) => u = v
      BY <1>1 DEF CountsOn, Trying, Live
    <3>2. failures' < MaxAttempts /\ x.attempt = failures' + 1
      BY <1>1, <1>4, <2>1, <2>3, <3>1 DEF n
    <3>3. \A u \in Visit : Live(u)' => u = v
      BY <2>4, <3>1 DEF Live
    <3>4. \A u \in Visit : Trying(u)' => u = v
      BY <3>3 DEF Live, Trying
    <3> QED
      BY <1>1, <2>4, <3>2, <3>3, <3>4 DEF CountsOn
  <2>6. said' \in [Visit -> SaidState]
    BY <1>1, <1>4 DEF Types
  <2> QED
    BY <1>1, <1>4, <2>1, <2>3, <2>4, <2>5, <2>6, LoopKeeps DEF InPhases
<1>5. CASE /\ said' = [said EXCEPT ![v].failed = @ + 1]
           /\ \E r \in {"failure"} \cup (IF conf.handler THEN {"next", "split", "absolute"} ELSE {}) :
                 Ends(v, r)
           /\ UNCHANGED failures
  <2>1. PICK r \in Result : Ends(v, r)
    BY <1>5 DEF Result, Node
  <2> QED
    BY <1>2, <1>5, <2>1
<1> QED
  BY <1>3, <1>4, <1>5 DEF HandleFailure

\* A visit that begins is alone, or overlaps for good.
LEMMA StartKeeps ==
    ASSUME StepInv, NEW v \in Visit, NEW u \in Visit, StartVisit(v) \/ ResumeVisit(v, u)
    PROVE  StepInv'
<1>1. /\ Types /\ InPhases /\ CountsOn /\ visit[v].pc = "idle"
      /\ UNCHANGED <<conf, work, failures>> /\ MayStart(v)
      /\ visit[v] \in VisitState /\ visit[u] \in VisitState
      /\ said[v] \in SaidState /\ said[u] \in SaidState
      /\ MaxAttempts' = MaxAttempts /\ failures \in Nat
  BY SameAttempts DEF StepInv, StartVisit, ResumeVisit, MayStart, Types
<1>2. overlap' = (overlap \/ \E w \in Visit : Live(w))
  BY DEF StartVisit, ResumeVisit
<1>3. ASSUME /\ visit'[v].pc = "count"
             /\ \A w \in Visit \ {v} : visit'[w].pc = visit[w].pc
                                       /\ visit'[w].attempt = visit[w].attempt
      PROVE  CountsOn'
  <2> SUFFICES ASSUME ~overlap'
               PROVE  /\ failures < MaxAttempts
                      /\ \A x, y \in Visit : Live(x)' /\ Live(y)' => x = y
                      /\ \A x \in Visit : Trying(x)' => visit'[x].attempt = failures + 1
    BY <1>1 DEF CountsOn
  <2>1. ~overlap /\ \A w \in Visit : ~Live(w)
    BY <1>2
  <2>2. \A w \in Visit \ {v} : ~Live(w)' /\ ~Trying(w)'
    BY <1>3, <2>1 DEF Live, Trying
  <2> QED
    BY <1>1, <1>3, <2>1, <2>2 DEF CountsOn, Trying
<1>4. CASE StartVisit(v)
  <2> DEFINE x == [visit[v] EXCEPT !.pc = "count"]
  <2>1. visit' = [visit EXCEPT ![v] = x] /\ said' = said
    BY <1>4 DEF StartVisit
  <2>2. x \in VisitState /\ x.pc = "count" /\ x.from = visit[v].from
    BY <1>1 DEF VisitState, VisitPc
  <2> HIDE DEF x
  <2>3. /\ visit' \in [Visit -> VisitState] /\ visit'[v] = x
        /\ \A w \in Visit \ {v} : visit'[w] = visit[w]
        /\ said' \in [Visit -> SaidState]
    BY <1>1, <2>1, <2>2 DEF Types
  <2>4. CountsOn'
    BY <1>3, <2>2, <2>3
  <2> QED
    BY <1>1, <2>1, <2>2, <2>3, <2>4, LoopKeeps DEF InPhases, Trying
<1>5. CASE ResumeVisit(v, u)
  <2> DEFINE x == [NoVisit EXCEPT !.pc = "count", !.resumed = TRUE, !.from = visit[u].from,
                                  !.outputs = visit[u].outputs]
             y == [visit[u] EXCEPT !.result = "resumed"]
             z == [said[v] EXCEPT !.satisfied = said[u].satisfied]
  <2>1. u # v
    BY <1>1, <1>5 DEF ResumeVisit
  <2>2. /\ visit' = [visit EXCEPT ![v] = x, ![u] = y]
        /\ said' = [said EXCEPT ![v] = z]
    BY <1>5, <2>1 DEF ResumeVisit
  <2>3. visit[u].from \in Nat /\ visit[u].outputs \in SUBSET STRING
    BY <1>1 DEF VisitState
  <2>4. x \in VisitState /\ x.pc = "count" /\ x.from = visit[u].from
    BY <2>3 DEF NoVisit, VisitState, VisitPc, ErrorName, Result
  <2>5. /\ y \in VisitState /\ y.pc = visit[u].pc /\ y.from = visit[u].from
        /\ y.attempt = visit[u].attempt /\ y.initial = visit[u].initial
    BY <1>1 DEF VisitState, Result
  <2>6. z \in SaidState /\ z.did = said[v].did
    BY <1>1 DEF SaidState
  <2> HIDE DEF x, y, z
  <2>7. /\ visit' \in [Visit -> VisitState] /\ visit'[v] = x /\ visit'[u] = y
        /\ \A w \in Visit \ {v, u} : visit'[w] = visit[w]
    BY <1>1, <2>1, <2>2, <2>4, <2>5 DEF Types
  <2>8. /\ said' \in [Visit -> SaidState]
        /\ \A w \in Visit : said'[w].did = said[w].did
    BY <1>1, <2>2, <2>6 DEF Types
  <2>9. \A w \in Visit \ {v} :
           /\ visit'[w].attempt = visit[w].attempt /\ visit'[w].initial = visit[w].initial
           /\ visit'[w].from = visit[w].from /\ visit'[w].pc = visit[w].pc
    BY <2>5, <2>7
  <2>10. CountsOn'
    BY <1>3, <2>4, <2>7, <2>9
  <2> QED
    BY <1>1, <2>4, <2>7, <2>8, <2>9, <2>10, LoopKeeps DEF InPhases, Trying
<1> QED
  BY <1>4, <1>5

\* The first thing an attempt does is none of the do phase.
LEMMA BeginKeeps ==
    ASSUME StepInv, NEW v \in Visit, BeginAttempt(v)
    PROVE  StepInv'
<1>1. /\ Types /\ InPhases /\ Raced /\ CountsOn /\ OneAttempt /\ visit[v].pc = "begin"
      /\ UNCHANGED <<conf, failures, said, overlap>>
      /\ visit[v] \in VisitState
      /\ MaxAttempts' = MaxAttempts /\ AttemptId' = AttemptId
      /\ said \in [Visit -> SaidState] /\ failures \in Nat
  BY SameAttempts DEF StepInv, BeginAttempt, Types
<1>2. CASE \E e \in Error : /\ visit' = [visit EXCEPT ![v].pc = "caught", ![v].error = e]
                            /\ UNCHANGED work
  <2>1. PICK e \in Error : visit' = [visit EXCEPT ![v].pc = "caught", ![v].error = e]
    BY <1>2
  <2> DEFINE x == [visit[v] EXCEPT !.pc = "caught", !.error = e]
  <2>2. visit' = [visit EXCEPT ![v] = x]
    BY <2>1
  <2>3. /\ x \in VisitState /\ x.pc = "caught" /\ x.from = visit[v].from
        /\ x.attempt = visit[v].attempt /\ x.initial = visit[v].initial
    BY <1>1 DEF VisitState, VisitPc, ErrorName
  <2> HIDE DEF x
  <2>4. /\ visit' \in [Visit -> VisitState] /\ visit'[v] = x
        /\ \A w \in Visit \ {v} : visit'[w] = visit[w]
    BY <1>1, <2>2, <2>3 DEF Types
  <2>5. CountsOn'
    BY <1>1, <2>3, <2>4 DEF CountsOn, Live, Trying
  <2>6. ~conf.idempotent => visit[v].attempt = visit[v].initial
    BY <1>1 DEF OneAttempt, Trying
  <2> QED
    BY <1>1, <1>2, <2>3, <2>4, <2>5, <2>6, LoopKeeps DEF InPhases
<1>3. CASE /\ visit' = [visit EXCEPT ![v].pc = "race"]
           /\ work' = [work EXCEPT ![RunningAttempt(v)] =
                 [NoWork EXCEPT !.pc = "enter",
                      !.at = IF visit[v].attempt > visit[v].initial THEN 1 ELSE visit[v].from]]
  <2> DEFINE at == IF visit[v].attempt > visit[v].initial THEN 1 ELSE visit[v].from
             w == [NoWork EXCEPT !.pc = "enter", !.at = at]
             x == [visit[v] EXCEPT !.pc = "race"]
             r == RunningAttempt(v)
  <2>1. visit' = [visit EXCEPT ![v] = x] /\ work' = [work EXCEPT ![r] = w]
    BY <1>3
  <2>2. at \in 1..Len(conf.phases) /\ at \in Nat
    BY <1>1, PhasesShape DEF Types, InPhases
  <2> HIDE DEF at
  <2>3. w \in WorkState /\ w.pc = "enter" /\ w.at = at
    BY <2>2, Blanks DEF WorkState, WorkPc
  <2>4. /\ x \in VisitState /\ x.pc = "race" /\ x.from = visit[v].from
        /\ x.attempt = visit[v].attempt /\ x.initial = visit[v].initial
    BY <1>1 DEF VisitState, VisitPc
  <2>5. r[1] = v
    BY DEF RunningAttempt
  <2> HIDE DEF w, x, r
  <2>6. /\ visit' \in [Visit -> VisitState] /\ visit'[v] = x
        /\ \A u \in Visit \ {v} : visit'[u] = visit[u]
        /\ \A u \in Visit : RunningAttempt(u)' = RunningAttempt(u)
    BY <1>1, <2>1, <2>4 DEF Types, RunningAttempt
  <2>7. /\ work' \in [AttemptId -> WorkState]
        /\ \A b \in AttemptId : work'[b] = IF b = r THEN w ELSE work[b]
    BY <1>1, <2>1, <2>3 DEF Types
  <2>8. Types' /\ InPhases'
    BY <1>1, <2>2, <2>3, <2>4, <2>6, <2>7 DEF Types, InPhases
  <2>9. Raced'
    <3> SUFFICES ASSUME NEW b \in AttemptId, Active(work'[b]), ~work'[b].late
                 PROVE  visit'[b[1]].pc = "race" /\ b = RunningAttempt(b[1])
      <4>1. \A b \in AttemptId : b[1] \in Visit
        BY AttemptIdShape
      <4> QED
        BY <1>1, <2>6, <4>1 DEF Raced, Active
    <3>1. CASE b = r
      BY <2>4, <2>5, <2>6, <3>1 DEF r
    <3>2. CASE b # r
      <4>1. visit[b[1]].pc = "race" /\ b = RunningAttempt(b[1]) /\ b[1] \in Visit
        BY <1>1, <2>7, <3>2, AttemptIdShape DEF Raced
      <4> QED
        BY <1>1, <2>6, <4>1
    <3> QED
      BY <3>1, <3>2
  <2>10. CountsOn'
    BY <1>1, <2>4, <2>6 DEF CountsOn, Live, Trying
  <2>11. OneAttempt'
    <3> SUFFICES ASSUME ~conf.idempotent, NEW u \in Visit
                 PROVE  /\ Trying(u)' => visit'[u].attempt = visit'[u].initial
                        /\ visit'[u].pc \in {"idle", "count", "begin"} =>
                               /\ said[u].did = 0
                               /\ \A i \in 1..MaxAttempts : work'[<<u, i>>].pc = "none"
                        /\ \A i \in 1..MaxAttempts : i # 1 => work'[<<u, i>>].pc = "none"
                        /\ \A i \in 1..MaxAttempts : Before(work[<<u, i>>])' => said[u].did = 0
                        /\ said[u].did <= 1
      BY <1>1 DEF OneAttempt
    <3>1. /\ Trying(u) => visit[u].attempt = visit[u].initial
          /\ visit[u].pc \in {"idle", "count", "begin"} =>
                 /\ said[u].did = 0
                 /\ \A i \in 1..MaxAttempts : work[<<u, i>>].pc = "none"
          /\ \A i \in 1..MaxAttempts : i # 1 => work[<<u, i>>].pc = "none"
          /\ \A i \in 1..MaxAttempts : Before(work[<<u, i>>]) => said[u].did = 0
          /\ said[u].did <= 1
      BY <1>1 DEF OneAttempt
    <3>2. \A i \in 1..MaxAttempts : <<u, i>> \in AttemptId
      BY DEF AttemptId
    <3>3. CASE u # v
      <4>1. \A i \in 1..MaxAttempts : <<u, i>> # r /\ work'[<<u, i>>] = work[<<u, i>>]
        BY <2>5, <2>7, <3>2, <3>3
      <4>2. \A i \in 1..MaxAttempts : Before(work[<<u, i>>])' => Before(work[<<u, i>>])
        BY <1>1, <4>1 DEF Before
      <4> QED
        BY <2>6, <3>1, <3>3, <4>1, <4>2 DEF Trying
    <3>4. CASE u = v
      <4>1. visit[v].attempt = visit[v].initial /\ visit[v].attempt \in Nat
        BY <1>1, <3>1, <3>4 DEF Trying, VisitState
      <4>2. r = <<v, 1>>
        BY <4>1 DEF r, RunningAttempt
      <4>3. \A i \in 1..MaxAttempts : i # 1 => work'[<<v, i>>] = work[<<v, i>>]
        BY <2>7, <3>2, <3>4, <4>2
      <4> QED
        BY <1>1, <2>4, <2>6, <3>1, <3>4, <4>1, <4>3 DEF Trying
    <3> QED
      BY <3>3, <3>4
  <2> QED
    BY <2>8, <2>9, <2>10, <2>11 DEF StepInv
<1> QED
  BY <1>2, <1>3 DEF BeginAttempt, Error

\* An attempt that is abandoned goes on late: nobody waits for it.
LEMMA AbandonKeeps ==
    ASSUME StepInv, NEW v \in Visit, NEW e \in Error, Abandon(v, e)
    PROVE  StepInv'
<1>1. /\ Types /\ InPhases /\ Raced /\ CountsOn /\ OneAttempt /\ visit[v].pc = "race"
      /\ UNCHANGED <<conf, failures, said, overlap>>
      /\ visit[v] \in VisitState
      /\ MaxAttempts' = MaxAttempts /\ AttemptId' = AttemptId
      /\ said \in [Visit -> SaidState] /\ failures \in Nat
  BY SameAttempts DEF StepInv, Abandon, Types
<1> DEFINE x == [visit[v] EXCEPT !.pc = "caught", !.error = e]
           r == RunningAttempt(v)
<1>2. visit' = [visit EXCEPT ![v] = x] /\ work' = [work EXCEPT ![r].late = TRUE]
  BY DEF Abandon
<1>3. /\ x \in VisitState /\ x.pc = "caught" /\ x.from = visit[v].from
      /\ x.attempt = visit[v].attempt /\ x.initial = visit[v].initial
  BY <1>1 DEF VisitState, VisitPc, ErrorName
<1>4. r[1] = v
  BY DEF RunningAttempt
<1> HIDE DEF x, r
<1>5. /\ visit' \in [Visit -> VisitState] /\ visit'[v] = x
      /\ \A u \in Visit \ {v} : visit'[u] = visit[u]
      /\ \A u \in Visit : RunningAttempt(u)' = RunningAttempt(u)
  BY <1>1, <1>2, <1>3 DEF Types, RunningAttempt
<1>6. \A w \in WorkState : /\ [w EXCEPT !.late = TRUE] \in WorkState
                           /\ [w EXCEPT !.late = TRUE].pc = w.pc
                           /\ [w EXCEPT !.late = TRUE].at = w.at
                           /\ [w EXCEPT !.late = TRUE].late
  BY DEF WorkState
<1>7. /\ work' \in [AttemptId -> WorkState]
      /\ \A b \in AttemptId : /\ work'[b].pc = work[b].pc /\ work'[b].at = work[b].at
                              /\ b # r => work'[b] = work[b]
                              /\ b = r => work'[b].late
  <2>1. /\ work \in [AttemptId -> WorkState]
        /\ \A b \in AttemptId : work[b] \in WorkState
    BY <1>1 DEF Types
  <2>2. \A b \in AttemptId :
           work'[b] = IF b = r THEN [work[b] EXCEPT !.late = TRUE] ELSE work[b]
    BY <1>2, <2>1
  <2>3. work' = [b \in AttemptId |-> work'[b]]
    BY <1>2, <2>1
  <2>4. \A b \in AttemptId : work'[b] \in WorkState
    BY <1>6, <2>1, <2>2
  <2> QED
    BY <1>6, <2>1, <2>2, <2>3, <2>4
<1>8. Types' /\ InPhases'
  BY <1>1, <1>3, <1>5, <1>7 DEF Types, InPhases
<1>9. Raced'
  <2> SUFFICES ASSUME NEW b \in AttemptId, Active(work'[b]), ~work'[b].late
               PROVE  visit'[b[1]].pc = "race" /\ b = RunningAttempt(b[1])
    <3>1. \A b \in AttemptId : b[1] \in Visit
      BY AttemptIdShape
    <3> QED
      BY <1>1, <1>5, <3>1 DEF Raced, Active
  <2>1. b # r /\ work'[b] = work[b] /\ b[1] \in Visit
    BY <1>7, AttemptIdShape
  <2>2. visit[b[1]].pc = "race" /\ b = RunningAttempt(b[1])
    BY <1>1, <2>1 DEF Raced
  <2>3. b[1] # v
    BY <2>1, <2>2 DEF r
  <2> QED
    BY <1>5, <2>1, <2>2, <2>3
<1>10. CountsOn'
  BY <1>1, <1>3, <1>5 DEF CountsOn, Live, Trying
<1>11. OneAttempt'
  <2>1. \A u \in Visit : \A i \in 1..MaxAttempts :
            /\ work'[<<u, i>>].pc = work[<<u, i>>].pc
            /\ Before(work[<<u, i>>])' <=> Before(work[<<u, i>>])
    <3>1. \A u \in Visit : \A i \in 1..MaxAttempts : <<u, i>> \in AttemptId
      BY DEF AttemptId
    <3> QED
      BY <1>1, <1>7, <3>1 DEF Before
  <2>2. \A u \in Visit :
            /\ visit'[u].attempt = visit[u].attempt /\ visit'[u].initial = visit[u].initial
            /\ Trying(u)' => Trying(u)
            /\ visit'[u].pc \in {"idle", "count", "begin"} =>
                   visit[u].pc \in {"idle", "count", "begin"}
    BY <1>1, <1>3, <1>5 DEF Trying
  <2> QED
    BY <1>1, <2>1, <2>2 DEF OneAttempt
<1> QED
  BY <1>8, <1>9, <1>10, <1>11 DEF StepInv

\* A driver that dies takes its visits and its promises with it.
LEMMA CrashKeeps ==
    ASSUME StepInv, CrashRun
    PROVE  StepInv'
<1>1. /\ Types /\ InPhases /\ CountsOn /\ OneAttempt
      /\ UNCHANGED <<conf, failures, said, overlap>>
      /\ MaxAttempts' = MaxAttempts /\ AttemptId' = AttemptId
      /\ work \in [AttemptId -> WorkState]
  BY SameAttempts DEF StepInv, CrashRun, Types
<1>2. \A x \in VisitState : /\ [x EXCEPT !.pc = "over"] \in VisitState
                            /\ [x EXCEPT !.pc = "over"].pc = "over"
                            /\ [x EXCEPT !.pc = "over"].from = x.from
  BY DEF VisitState, VisitPc
<1>3. \A u \in Visit : visit[u] \in VisitState
  BY <1>1 DEF Types
<1>4. /\ visit' = [u \in Visit |-> IF Live(u) THEN [visit[u] EXCEPT !.pc = "over"] ELSE visit[u]]
      /\ work' = [a \in AttemptId |-> IF work[a].pc = "none" THEN NoWork ELSE Gone]
  BY <1>1 DEF CrashRun
<1>5. /\ visit' \in [Visit -> VisitState]
      /\ \A u \in Visit : /\ visit'[u].from = visit[u].from
                          /\ IF Live(u) THEN visit'[u].pc = "over" ELSE visit'[u] = visit[u]
  BY <1>2, <1>3, <1>4
<1>6. /\ work' \in [AttemptId -> WorkState]
      /\ \A a \in AttemptId : /\ work'[a].at = 1 /\ work'[a].pc \in {"none", "gone"}
                              /\ work[a].pc = "none" => work'[a].pc = "none"
  BY <1>1, <1>4, Blanks
<1>7. Types'
  BY <1>1, <1>5, <1>6 DEF Types
<1>8. InPhases'
  BY <1>1, <1>5, <1>6, PhasesShape DEF InPhases, Types
<1>9. Raced'
  BY <1>1, <1>6 DEF Raced, Active
<1>10. \A u \in Visit : ~Live(u)' /\ ~Trying(u)'
  BY <1>5 DEF Live, Trying
<1>11. CountsOn'
  BY <1>1, <1>10 DEF CountsOn
<1>12. OneAttempt'
  <2>1. \A u \in Visit : \A i \in 1..MaxAttempts :
            /\ work[<<u, i>>].pc = "none" => work'[<<u, i>>].pc = "none"
            /\ ~Before(work[<<u, i>>])'
    <3>1. \A u \in Visit : \A i \in 1..MaxAttempts : <<u, i>> \in AttemptId
      BY DEF AttemptId
    <3> QED
      BY <1>1, <1>6, <3>1 DEF Before
  <2>2. \A u \in Visit : visit'[u].pc \in {"idle", "count", "begin"} =>
                             visit[u].pc \in {"idle", "count", "begin"}
    BY <1>5
  <2> QED
    BY <1>1, <1>10, <2>1, <2>2 DEF OneAttempt
<1> QED
  BY <1>7, <1>8, <1>9, <1>11, <1>12 DEF StepInv

\* Every step of the visits, their promises, the operator and the process keeps
\* the attempts in order.
THEOREM StepInductive == StepInv /\ [SANext]_saVars => StepInv'
<1> SUFFICES ASSUME StepInv, [SANext]_saVars PROVE StepInv'
  OBVIOUS
<1>1. CASE UNCHANGED <<conf, failures, visit, work, said, overlap>>
  BY <1>1 DEF StepInv, Types, InPhases, Raced, CountsOn, OneAttempt, Active, Before, Live,
              Trying, RunningAttempt, AttemptId, MaxAttempts
<1>2. CASE UNCHANGED saVars
  BY <1>1, <1>2 DEF saVars
<1>3. ASSUME NEW v \in Visit,
             \/ StartVisit(v) \/ Control(v) \/ Timeout(v) \/ Poll(v)
             \/ \E u \in Visit : ResumeVisit(v, u)
      PROVE  StepInv'
  BY <1>3, StartKeeps, CountKeeps, BeginKeeps, HandleKeeps, AbandonKeeps
     DEF Control, Timeout, Poll, Error
<1>4. ASSUME NEW a \in DOMAIN work, Promise(a) PROVE StepInv'
  <2>1. a \in AttemptId
    BY DEF StepInv, Types
  <2> QED
    BY <1>4, <2>1, PromiseKeeps
<1>5. CASE Cancel \/ ContinueCancelled
  BY <1>1, <1>5 DEF Cancel, ContinueCancelled
<1>6. CASE CrashRun
  BY <1>6, CrashKeeps
<1> QED
  BY <1>2, <1>3, <1>4, <1>5, <1>6 DEF SANext

\* The attempts are in order before the first visit.
THEOREM StepInitially == SAInit => StepInv
<1> SUFFICES ASSUME SAInit PROVE StepInv
  OBVIOUS
<1>1. /\ conf \in StepConf /\ failures = 0 /\ MaxAttempts \in Nat /\ 0 < MaxAttempts
      /\ visit = [v \in Visit |-> NoVisit] /\ work = [a \in AttemptId |-> NoWork]
  BY BudgetPositive DEF SAInit, AttemptId, MaxAttempts
<1>2. /\ NoVisit \in VisitState /\ NoVisit.pc = "idle" /\ NoVisit.from = 1
  BY DEF NoVisit, VisitState, VisitPc, ErrorName, Result
<1>3. said \in [Visit -> SaidState] /\ \A v \in Visit : said[v].did = 0
  BY DEF SAInit, SaidState
<1>4. Types /\ InPhases
  BY <1>1, <1>2, <1>3, Blanks, PhasesShape DEF Types, InPhases
<1>5. Raced /\ CountsOn
  BY <1>1, <1>2, Blanks DEF Raced, CountsOn, Active, Live, Trying
<1>6. OneAttempt
  <2>1. \A v \in Visit, i \in 1..MaxAttempts : work[<<v, i>>].pc = "none"
    BY <1>1, Blanks DEF AttemptId
  <2> QED
    BY <1>1, <1>2, <1>3, <2>1 DEF OneAttempt, Before, Trying
<1> QED
  BY <1>4, <1>5, <1>6 DEF StepInv

\* A step that is not idempotent is executed at most once by a visit.
THEOREM DoneOnce == SASpec => []NonIdempotentRunsOnce
<1>1. StepInv => NonIdempotentRunsOnce
  BY DEF StepInv, OneAttempt, NonIdempotentRunsOnce
<1> QED
  BY <1>1, StepInductive, StepInitially, PTL DEF SASpec

\* Visits that follow each other record together fewer failures than the budget.
THEOREM BudgetIsKept == SASpec => []BudgetIsTheRuns
<1>1. StepInv => BudgetIsTheRuns
  BY DEF StepInv, CountsOn, BudgetIsTheRuns
<1> QED
  BY <1>1, StepInductive, StepInitially, PTL DEF SASpec

-----------------------------------------------------------------------------
\* The attempt may still come to a phase, or its visit may make another one, or
\* a later visit may go on where this one waits.
Open(x, w) ==
    \/ w.pc \in {"enter", "in", "leave", "park"}
    \/ x.pc \in {"idle", "count", "begin"}
    \/ x.pc = "caught" /\ x.error # "cancelled"
    \/ x.pc = "over" /\ x.result = "waiting"
AtWait(c, w) == c.phases[w.at].kind \in WaitKind
Answering(c, w, k) == w.pc = "leave" /\ AtWait(c, w) /\ c.phases[w.at].id = k

\* Without a timeout only a cancellation abandons an attempt, so a visit x whose
\* attempt w goes on late makes no other one, and what it recorded (s) it knows.
Fine(c, x, w, s) ==
    /\ x.pc # "over" => x.result = "none"
    /\ Active(w) /\ ~w.late => x.pc = "race"
    /\ Active(w) /\ w.late => \/ x.pc = "caught" /\ x.error = "cancelled"
                              \/ x.pc = "over" /\ x.result = "cancelled"
    /\ w.pc = "in" /\ AtWait(c, w) => c.phases[w.at].id \notin x.outputs
    /\ \A k \in WaitIds :
          /\ s[k] <= 1
          /\ s[k] # 0 /\ Open(x, w) => k \in x.outputs \/ Answering(c, w, k)

\* At most one attempt of a visit is at work.
Sole(v, i) == \A j \in (1..MaxAttempts) \ {i} : ~Active(work[<<v, j>>])
Answers(v) == \E i \in 1..MaxAttempts :
    Sole(v, i) /\ Fine(conf, visit[v], work[<<v, i>>], said[v].satisfied)

Once ==
    IF conf.timeout THEN \A v \in Visit : said[v].lateDone = 0
    ELSE \A v \in Visit : Answers(v)

-----------------------------------------------------------------------------
\* Nothing of the visit depends on which attempt that is over is looked at.
LEMMA FineIdle ==
    ASSUME NEW c, NEW x, NEW w, NEW s, NEW z, Fine(c, x, w, s), w.pc \in {"none", "gone"},
           z.pc \in {"none", "gone"}
    PROVE  Fine(c, x, z, s)
BY DEF Fine, Open, Answering, Active

\* An attempt settles with an error.
LEMMA FineThrows ==
    ASSUME NEW c, NEW x \in VisitState, NEW w \in WorkState, NEW s, Fine(c, x, w, s), Active(w),
           NEW e \in Error, e = "cancelled" \/ w.pc = "in",
           NEW y, y = IF w.late THEN x ELSE [x EXCEPT !.pc = "caught", !.error = e]
    PROVE  Fine(c, y, Gone, s)
<1>1. Gone.pc = "gone" /\ ~Active(Gone)
  BY Blanks DEF Active
<1>2. CASE w.late
  <2>1. y = x /\ ~Open(x, Gone)
    BY <1>1, <1>2 DEF Fine, Open
  <2> QED
    BY <1>1, <1>2, <2>1 DEF Fine
<1>3. CASE ~w.late
  <2>1. /\ y.pc = "caught" /\ y.error = e /\ y.result = x.result /\ y.outputs = x.outputs
        /\ x.result = "none"
    BY <1>3 DEF VisitState, Fine
  <2>2. CASE e = "cancelled"
    BY <1>1, <2>1, <2>2 DEF Fine, Open
  <2>3. CASE w.pc = "in"
    BY <1>1, <2>1, <2>3 DEF Fine, Open, Answering
  <2> QED
    BY <2>2, <2>3
<1> QED
  BY <1>2, <1>3

\* An attempt goes on at the same phase: it works, or it is over with a phase
\* that no answer was recorded at.
LEMMA FineOn ==
    ASSUME NEW c, NEW x, NEW w \in WorkState, NEW s, Fine(c, x, w, s),
           w.pc \in {"enter", "in", "leave", "park"},
           NEW z, Active(z), z.late = w.late,
           z.pc = "in" /\ AtWait(c, z) => c.phases[z.at].id \notin x.outputs,
           w.pc \in {"enter", "in", "park"} \/ z.pc = "returned"
    PROVE  Fine(c, x, z, s)
<1>1. Active(w)
  BY DEF Active, WorkPc
<1>2. \A k \in WaitIds : s[k] # 0 /\ Open(x, z) => k \in x.outputs \/ Answering(c, z, k)
  <2>1. CASE w.pc \in {"enter", "in", "park"}
    BY <2>1 DEF Fine, Open, Answering
  <2>2. CASE z.pc = "returned"
    <3>1. ~Open(x, z)
      BY <1>1, <2>2 DEF Fine, Open
    <3> QED
      BY <3>1
  <2> QED
    BY <2>1, <2>2
<1> QED
  BY <1>1, <1>2 DEF Fine

\* A wait records its answer: its own attempt is the only one that could have,
\* and it did not know one.
LEMMA FineSatisfies ==
    ASSUME NEW c, NEW x, NEW w \in WorkState, NEW s \in [WaitIds -> Nat], Fine(c, x, w, s),
           w.pc = "in", AtWait(c, w), NEW k \in WaitIds, k = c.phases[w.at].id
    PROVE  Fine(c, x, [w EXCEPT !.pc = "leave"], [s EXCEPT ![k] = @ + 1])
<1> DEFINE z == [w EXCEPT !.pc = "leave"]
           t == [s EXCEPT ![k] = @ + 1]
<1>1. z.pc = "leave" /\ z.at = w.at /\ z.late = w.late /\ Active(z) /\ Active(w)
  BY DEF WorkState, Active, WorkPc
<1>2. s[k] = 0
  BY DEF Fine, Open, Answering
<1>3. Answering(c, z, k)
  BY <1>1 DEF Answering, AtWait
<1>4. t[k] = 1 /\ \A j \in WaitIds : j # k => t[j] = s[j]
  BY <1>2
<1> HIDE DEF z, t
<1>5. ASSUME NEW j \in WaitIds
      PROVE  /\ t[j] <= 1
             /\ t[j] # 0 /\ Open(x, z) => j \in x.outputs \/ Answering(c, z, j)
  <2>1. CASE j = k
    BY <1>3, <1>4, <2>1
  <2>2. CASE j # k
    BY <1>4, <2>2 DEF Fine, Open, Answering
  <2> QED
    BY <2>1, <2>2
<1>6. Fine(c, x, z, t)
  BY <1>1, <1>5 DEF Fine
<1> QED
  BY <1>6 DEF z, t

\* The answer of a phase that is left is kept by the visit.
LEMMA FineLeave ==
    ASSUME NEW c, NEW x \in VisitState, NEW w \in WorkState, NEW s, Fine(c, x, w, s),
           w.pc = "leave",
           NEW kept, kept = IF AtWait(c, w) THEN x.outputs \cup {c.phases[w.at].id} ELSE x.outputs,
           NEW y, NEW z,
           \/ /\ y = [x EXCEPT !.outputs = kept]
              /\ z.pc = "enter" /\ z.late = w.late
           \/ /\ y = IF w.late THEN [x EXCEPT !.outputs = kept]
                     ELSE [x EXCEPT !.outputs = kept, !.pc = "caught", !.error = "cancelled"]
              /\ z.pc = "gone"
    PROVE  Fine(c, y, z, s)
<1>1. Active(w) /\ Open(x, w)
  BY DEF Active, WorkPc, Open
<1>2. \A k \in WaitIds : s[k] # 0 => k \in kept
  BY <1>1 DEF Fine, Answering
<1>3. CASE /\ y = [x EXCEPT !.outputs = kept]
           /\ z.pc = "enter" /\ z.late = w.late
  <2>1. y.outputs = kept /\ y.pc = x.pc /\ y.result = x.result /\ y.error = x.error
    BY <1>3 DEF VisitState
  <2> QED
    BY <1>1, <1>2, <1>3, <2>1 DEF Fine, Active
<1>4. CASE /\ y = IF w.late THEN [x EXCEPT !.outputs = kept]
                  ELSE [x EXCEPT !.outputs = kept, !.pc = "caught", !.error = "cancelled"]
           /\ z.pc = "gone"
  <2>1. /\ y.outputs = kept /\ y.result = x.result
        /\ IF w.late THEN y.pc = x.pc /\ y.error = x.error
           ELSE y.pc = "caught" /\ y.error = "cancelled"
    BY <1>4 DEF VisitState
  <2>2. x.pc # "over" => x.result = "none"
    BY DEF Fine
  <2>3. y.pc # "over" => y.result = "none"
    BY <1>1, <2>1, <2>2 DEF Fine
  <2> QED
    BY <1>1, <1>2, <1>4, <2>1, <2>3 DEF Fine, Active
<1> QED
  BY <1>3, <1>4

\* A step that waits ends its visit.
LEMMA FineParks ==
    ASSUME NEW c, NEW x \in VisitState, NEW w \in WorkState, NEW s, Fine(c, x, w, s),
           w.pc = "park", NEW n \in Nat,
           NEW y, y = IF w.late THEN x
                      ELSE [x EXCEPT !.pc = "over", !.result = "waiting", !.from = n]
    PROVE  Fine(c, y, Gone, s)
<1>1. Gone.pc = "gone" /\ ~Active(Gone) /\ Active(w) /\ Open(x, w)
  BY Blanks DEF Active, WorkPc, Open
<1>2. \A k \in WaitIds : s[k] # 0 => k \in x.outputs
  BY <1>1 DEF Fine, Answering
<1>3. y.outputs = x.outputs /\ IF w.late THEN y = x ELSE y.pc = "over"
  BY DEF VisitState
<1> QED
  BY <1>1, <1>2, <1>3 DEF Fine

\* The result of the race ends the visit.
LEMMA FineReturns ==
    ASSUME NEW c, NEW x \in VisitState, NEW w \in WorkState, NEW s, Fine(c, x, w, s),
           w.pc = "returned",
           NEW y, \/ w.late /\ y = x
                  \/ y.pc = "over" /\ y.result # "waiting"
    PROVE  Fine(c, y, Gone, s)
<1>1. Gone.pc = "gone" /\ ~Active(Gone) /\ Active(w)
  BY Blanks DEF Active, WorkPc
<1>2. ~Open(y, Gone)
  BY <1>1 DEF Fine, Open
<1> QED
  BY <1>1, <1>2 DEF Fine

-----------------------------------------------------------------------------
\* A step is about one visit.
LEMMA OthersAnswer ==
    ASSUME UNCHANGED conf, NEW v \in Visit,
           \A u \in Visit : Answers(u),
           Answers(v)',
           \A u \in Visit \ {v} :
              /\ visit'[u] = visit[u] /\ said'[u].satisfied = said[u].satisfied
              /\ \A i \in 1..MaxAttempts : work'[<<u, i>>] = work[<<u, i>>]
    PROVE  \A u \in Visit : Answers(u)'
<1> SUFFICES ASSUME NEW u \in Visit, u # v PROVE Answers(u)'
  OBVIOUS
<1>1. MaxAttempts' = MaxAttempts
  BY SameAttempts
<1>2. PICK i \in 1..MaxAttempts :
          Sole(u, i) /\ Fine(conf, visit[u], work[<<u, i>>], said[u].satisfied)
  BY DEF Answers
<1>3. Sole(u, i)'
  <2>1. \A j \in (1..MaxAttempts) \ {i} : ~Active(work'[<<u, j>>])
    BY <1>2 DEF Sole
  <2> QED
    BY <1>1, <2>1 DEF Sole, Active
<1>4. Fine(conf, visit'[u], work'[<<u, i>>], said'[u].satisfied)
  BY <1>2
<1>5. Fine(conf, visit[u], work[<<u, i>>], said[u].satisfied)'
  BY <1>4 DEF Fine, Open, Answering, AtWait, Active
<1> QED
  BY <1>1, <1>3, <1>5 DEF Answers

\* ... and a step of a promise is about the one attempt at work.
LEMMA AttemptAnswers ==
    ASSUME Types, UNCHANGED conf, NEW a \in AttemptId, Active(work[a]),
           \A u \in Visit : Answers(u),
           \A u \in Visit \ {a[1]} : visit'[u] = visit[u],
           \A u \in Visit \ {a[1]} : said'[u].satisfied = said[u].satisfied,
           \A b \in AttemptId \ {a} : work'[b] = work[b],
           Fine(conf, visit[a[1]], work[a], said[a[1]].satisfied) =>
               Fine(conf, visit'[a[1]], work'[a], said'[a[1]].satisfied)
    PROVE  \A u \in Visit : Answers(u)'
<1> DEFINE v == a[1]
           n == a[2]
<1>1. /\ v \in Visit /\ n \in 1..MaxAttempts /\ a = <<v, n>>
      /\ MaxAttempts' = MaxAttempts /\ AttemptId' = AttemptId
      /\ \A u \in Visit, i \in 1..MaxAttempts : <<u, i>> \in AttemptId
  BY AttemptIdShape, SameAttempts DEF AttemptId
<1>2. PICK i \in 1..MaxAttempts :
          Sole(v, i) /\ Fine(conf, visit[v], work[<<v, i>>], said[v].satisfied)
  BY <1>1 DEF Answers
<1>3. i = n
  BY <1>1, <1>2 DEF Sole
<1>4. Sole(v, n)'
  <2>1. \A j \in (1..MaxAttempts) \ {n} : work'[<<v, j>>] = work[<<v, j>>]
    BY <1>1
  <2>2. \A j \in (1..MaxAttempts) \ {n} : ~Active(work'[<<v, j>>])
    BY <1>2, <1>3, <2>1 DEF Sole
  <2> QED
    BY <1>1, <2>2 DEF Sole, Active
<1>5. Fine(conf, visit[v], work[<<v, n>>], said[v].satisfied)'
  <2>1. Fine(conf, visit'[v], work'[<<v, n>>], said'[v].satisfied)
    BY <1>1, <1>2, <1>3
  <2> QED
    BY <2>1 DEF Fine, Open, Answering, AtWait, Active
<1>6. Answers(v)'
  BY <1>1, <1>4, <1>5 DEF Answers
<1>7. ASSUME NEW u \in Visit \ {v}, NEW j \in 1..MaxAttempts
      PROVE  work'[<<u, j>>] = work[<<u, j>>]
  <2>1. <<u, j>> # <<v, n>>
    OBVIOUS
  <2>2. <<u, j>> \in AttemptId \ {a}
    BY <1>1, <2>1
  <2> QED
    BY <2>2
<1> HIDE DEF v
<1>8. \A u \in Visit \ {v} : visit'[u] = visit[u] /\ said'[u].satisfied = said[u].satisfied
  BY DEF v
<1> QED
  BY <1>1, <1>6, <1>7, <1>8, OthersAnswer

\* A visit with no attempt at work goes on.
LEMMA LoopAnswers ==
    ASSUME UNCHANGED conf, UNCHANGED work, NEW v \in Visit,
           \A u \in Visit : Answers(u),
           \A u \in Visit \ {v} : visit'[u] = visit[u],
           \A u \in Visit \ {v} : said'[u].satisfied = said[u].satisfied,
           \A w : Fine(conf, visit[v], w, said[v].satisfied) =>
                      Fine(conf, visit'[v], w, said'[v].satisfied)
    PROVE  \A u \in Visit : Answers(u)'
<1>1. MaxAttempts' = MaxAttempts
  BY SameAttempts
<1>2. PICK i \in 1..MaxAttempts :
          Sole(v, i) /\ Fine(conf, visit[v], work[<<v, i>>], said[v].satisfied)
  BY DEF Answers
<1>3. Sole(v, i)'
  BY <1>1, <1>2 DEF Sole, Active
<1>4. Fine(conf, visit'[v], work[<<v, i>>], said'[v].satisfied)
  BY <1>2
<1>5. Fine(conf, visit[v], work[<<v, i>>], said[v].satisfied)'
  BY <1>4 DEF Fine, Open, Answering, AtWait, Active
<1>6. Answers(v)'
  BY <1>1, <1>3, <1>5 DEF Answers
<1>7. \A u \in Visit \ {v} :
         /\ visit'[u] = visit[u] /\ said'[u].satisfied = said[u].satisfied
         /\ \A j \in 1..MaxAttempts : work'[<<u, j>>] = work[<<u, j>>]
  OBVIOUS
<1> QED
  BY <1>6, <1>7, OthersAnswer

-----------------------------------------------------------------------------
\* What the lemmas on the steps start from: a step with no timeout.
Patient ==
    /\ Types /\ InPhases
    /\ ~conf.timeout
    /\ \A u \in Visit : Answers(u)

\* The settled promise of a step without a timeout.
LEMMA ThrowsAnswer ==
    ASSUME Patient, NEW a \in AttemptId, Active(work[a]), UNCHANGED <<conf, said>>,
           NEW e \in Error, e = "cancelled" \/ work[a].pc = "in", Throws(a, e)
    PROVE  \A u \in Visit : Answers(u)'
<1> DEFINE x == visit[a[1]]
           y == IF work[a].late THEN x ELSE [x EXCEPT !.pc = "caught", !.error = e]
<1>1. /\ Types /\ a[1] \in Visit /\ x \in VisitState /\ work[a] \in WorkState
      /\ \A u \in Visit : Answers(u)
  BY AttemptIdShape DEF Patient, Types
<1>2. visit' = [visit EXCEPT ![a[1]] = y] /\ work' = [work EXCEPT ![a] = Gone]
  BY <1>1 DEF Throws, Types
<1>3. /\ visit'[a[1]] = y /\ work'[a] = Gone
      /\ \A u \in Visit \ {a[1]} : visit'[u] = visit[u]
      /\ \A b \in AttemptId \ {a} : work'[b] = work[b]
  BY <1>1, <1>2 DEF Types
<1>4. Fine(conf, x, work[a], said[a[1]].satisfied) => Fine(conf, y, Gone, said[a[1]].satisfied)
  BY <1>1, FineThrows
<1> HIDE DEF y
<1> QED
  BY <1>1, <1>3, <1>4, AttemptAnswers

\* A promise that goes on records no answer and leaves its visit alone.
LEMMA OnAnswers ==
    ASSUME Patient, NEW a \in AttemptId, UNCHANGED <<conf, visit>>,
           work[a].pc \in {"enter", "in", "leave", "park"},
           NEW z, Active(z), z.late = work[a].late, work' = [work EXCEPT ![a] = z],
           z.pc = "in" /\ AtWait(conf, z) => conf.phases[z.at].id \notin visit[a[1]].outputs,
           work[a].pc \in {"enter", "in", "park"} \/ z.pc = "returned",
           \A u \in Visit : said'[u].satisfied = said[u].satisfied
    PROVE  \A u \in Visit : Answers(u)'
<1>1. /\ Types /\ a[1] \in Visit /\ work[a] \in WorkState /\ Active(work[a])
      /\ \A u \in Visit : Answers(u)
  BY AttemptIdShape DEF Patient, Types, Active, WorkPc
<1>2. work'[a] = z /\ \A b \in AttemptId \ {a} : work'[b] = work[b]
  BY <1>1 DEF Types
<1>3. Fine(conf, visit[a[1]], work[a], said[a[1]].satisfied) =>
          Fine(conf, visit[a[1]], z, said[a[1]].satisfied)
  BY <1>1, FineOn
<1> QED
  BY <1>1, <1>2, <1>3, AttemptAnswers

\* A phase is entered: a wait whose answer the visit knows is left again.
LEMMA EnterAnswers ==
    ASSUME Patient, NEW a \in AttemptId, EnterPhase(a)
    PROVE  \A u \in Visit : Answers(u)'
<1>1. /\ Types /\ a[1] \in Visit /\ work[a] \in WorkState /\ work[a].pc = "enter"
      /\ UNCHANGED conf /\ Active(work[a]) /\ said[a[1]] \in SaidState
  BY AttemptIdShape DEF Patient, Types, EnterPhase, Active, WorkPc
<1>2. CASE marker
  <2>1. Throws(a, "cancelled") /\ said' = said
    BY <1>2 DEF EnterPhase
  <2> QED
    BY <1>1, <2>1, ThrowsAnswer DEF Error
<1>3. CASE ~marker
  <2> DEFINE pc == IF Phase(a).kind \in WaitKind /\ Phase(a).id \in visit[a[1]].outputs
                   THEN "leave" ELSE "in"
             z == [work[a] EXCEPT !.pc = pc]
  <2>1. work' = [work EXCEPT ![a] = z] /\ visit' = visit
    BY <1>3 DEF EnterPhase
  <2>2. z.pc = pc /\ z.late = work[a].late /\ z.at = work[a].at /\ Active(z)
    BY <1>1 DEF WorkState, Active, WorkPc
  <2>3. z.pc = "in" /\ AtWait(conf, z) => conf.phases[z.at].id \notin visit[a[1]].outputs
    BY <2>2 DEF AtWait, Phase
  <2>4. \A u \in Visit : said'[u].satisfied = said[u].satisfied
    <3>1. \/ said' = said
          \/ said' = [said EXCEPT ![a[1]].did = @ + 1]
      BY DEF EnterPhase
    <3> QED
      BY <1>1, <3>1 DEF Types, SaidState
  <2> HIDE DEF z
  <2> QED
    BY <1>1, <2>1, <2>2, <2>3, <2>4, OnAnswers
<1> QED
  BY <1>2, <1>3

\* A phase's own work: an answer is recorded by a wait only.
LEMMA InAnswers ==
    ASSUME Patient, NEW a \in AttemptId,
           \/ FailPhase(a) \/ RejectWait(a) \/ FinishInputWait(a) \/ FinishCheckWait(a)
           \/ FinishPrompt(a) \/ FinishOther(a)
    PROVE  \A u \in Visit : Answers(u)'
<1>1. /\ Types /\ a[1] \in Visit /\ work[a] \in WorkState /\ work[a].pc = "in"
      /\ UNCHANGED conf /\ Active(work[a]) /\ said[a[1]] \in SaidState /\ ~conf.timeout
      /\ said \in [Visit -> SaidState] /\ \A u \in Visit : Answers(u)
  BY AttemptIdShape DEF Patient, Types, FailPhase, RejectWait, FinishInputWait, FinishCheckWait,
                        FinishPrompt, FinishOther, Active, WorkPc
<1>2. CASE FailPhase(a) \/ RejectWait(a)
  <2>1. PICK e \in Error : Throws(a, e)
    BY <1>2 DEF FailPhase, RejectWait, Error
  <2>2. said' = said
    BY <1>2 DEF FailPhase, RejectWait
  <2> QED
    BY <1>1, <2>1, <2>2, ThrowsAnswer
<1>3. ASSUME NEW pc \in {"leave", "park"}, NEW n, visit' = visit,
             work' = [work EXCEPT ![a] = [work[a] EXCEPT !.pc = pc, !.node = n]],
             \A u \in Visit : said'[u].satisfied = said[u].satisfied
      PROVE  \A u \in Visit : Answers(u)'
  <2> DEFINE z == [work[a] EXCEPT !.pc = pc, !.node = n]
  <2>1. z.pc = pc /\ z.late = work[a].late /\ Active(z)
    BY <1>1 DEF WorkState, Active, WorkPc
  <2> HIDE DEF z
  <2>2. work' = [work EXCEPT ![a] = z]
    BY <1>3 DEF z
  <2> QED
    BY <1>1, <1>3, <2>1, <2>2, OnAnswers
<1>4. ASSUME NEW pc \in {"leave", "park"}, visit' = visit, work' = [work EXCEPT ![a].pc = pc],
             \A u \in Visit : said'[u].satisfied = said[u].satisfied
      PROVE  \A u \in Visit : Answers(u)'
  <2> DEFINE n == work[a].node
  <2>1. [work[a] EXCEPT !.pc = pc] = [work[a] EXCEPT !.pc = pc, !.node = n]
    BY <1>1 DEF WorkState
  <2>2. work' = [work EXCEPT ![a] = [work[a] EXCEPT !.pc = pc, !.node = n]]
    BY <1>4, <2>1
  <2> HIDE DEF n
  <2> QED
    BY <1>3, <1>4, <2>2
<1>5. CASE FinishInputWait(a) \/ FinishCheckWait(a)
  <2>1. (Parks(a) \/ Satisfies(a)) /\ visit' = visit /\ Phase(a).kind \in WaitKind
    BY <1>5 DEF FinishInputWait, FinishCheckWait, WaitKind
  <2>2. CASE Parks(a)
    BY <1>4, <2>1, <2>2 DEF Parks
  <2>3. CASE Satisfies(a)
    <3> DEFINE k == Phase(a).id
               s == said[a[1]].satisfied
               z == [work[a] EXCEPT !.pc = "leave"]
               t == [s EXCEPT ![k] = @ + 1]
    <3>1. k \in WaitIds
      <4>1. work[a].at \in DOMAIN conf.phases
        BY PhasesShape DEF Patient, Types, InPhases
      <4> QED
        BY <4>1 DEF WaitIds, Phase, Patient, Types
    <3>2. s \in [WaitIds -> Nat]
      BY <1>1 DEF SaidState
    <3>3. AtWait(conf, work[a]) /\ k = conf.phases[work[a].at].id
      BY <2>1 DEF AtWait, Phase
    <3>4. work' = [work EXCEPT ![a] = z]
      BY <2>3 DEF Satisfies
    <3>5. work'[a] = z /\ \A b \in AttemptId \ {a} : work'[b] = work[b]
      BY <1>1, <3>4 DEF Types
    <3>6. said' = [said EXCEPT ![a[1]].satisfied = t]
      BY <2>3 DEF Satisfies
    <3> HIDE DEF k
    <3>7. /\ said'[a[1]].satisfied = t
          /\ \A u \in Visit \ {a[1]} : said'[u].satisfied = said[u].satisfied
      <4> HIDE DEF t
      <4> QED
        BY <1>1, <3>6 DEF SaidState
    <3>8. Fine(conf, visit[a[1]], work[a], s) => Fine(conf, visit[a[1]], z, t)
      BY <1>1, <3>1, <3>2, <3>3, FineSatisfies
    <3> HIDE DEF z, t
    <3> QED
      BY <1>1, <2>1, <3>5, <3>7, <3>8, AttemptAnswers
  <2> QED
    BY <2>1, <2>2, <2>3
<1>6. CASE FinishPrompt(a)
  <2>1. ~TimedOut(a)
    BY <1>1 DEF TimedOut
  <2>2. work' = [work EXCEPT ![a].pc = "leave"] /\ visit' = visit
    BY <1>6, <2>1 DEF FinishPrompt
  <2>3. said' = said \/ said' = [said EXCEPT ![a[1]].lateDone = @ + 1]
    BY <1>6, <2>1 DEF FinishPrompt
  <2>4. \A u \in Visit : said'[u].satisfied = said[u].satisfied
    BY <1>1, <2>3 DEF SaidState
  <2> QED
    BY <1>4, <2>2, <2>4
<1>7. CASE FinishOther(a)
  <2>1. PICK n \in IF Phase(a).kind = "do" THEN conf.nodes ELSE {"none"} :
            work' = [work EXCEPT ![a].pc = "leave", ![a].node = n]
    BY <1>7, Zenon DEF FinishOther
  <2>2. work' = [work EXCEPT ![a] = [work[a] EXCEPT !.pc = "leave", !.node = n]]
    BY <2>1
  <2>3. visit' = visit /\ said' = said
    BY <1>7 DEF FinishOther
  <2> QED
    BY <1>3, <2>2, <2>3
<1> QED
  BY <1>2, <1>5, <1>6, <1>7

\* The answer of a wait is kept by the visit when its phase is left.
LEMMA LeaveAnswers ==
    ASSUME Patient, NEW a \in AttemptId, LeavePhase(a)
    PROVE  \A u \in Visit : Answers(u)'
<1> DEFINE x == visit[a[1]]
           out == IF Phase(a).kind \in WaitKind THEN x.outputs \cup {Phase(a).id} ELSE x.outputs
           kept == [x EXCEPT !.outputs = out]
           e == IF marker THEN "cancelled" ELSE IF TimedOut(a) THEN "timeout" ELSE "none"
<1>1. /\ Types /\ a[1] \in Visit /\ work[a] \in WorkState /\ work[a].pc = "leave"
      /\ UNCHANGED <<conf, said>> /\ Active(work[a]) /\ x \in VisitState /\ ~conf.timeout
      /\ \A u \in Visit : Answers(u)
  BY AttemptIdShape DEF Patient, Types, LeavePhase, Active, WorkPc
<1>2. out = IF AtWait(conf, work[a]) THEN x.outputs \cup {conf.phases[work[a].at].id}
            ELSE x.outputs
  BY DEF AtWait, Phase
<1>3. PICK y, z : /\ visit' = [visit EXCEPT ![a[1]] = y] /\ work' = [work EXCEPT ![a] = z]
                  /\ \/ y = kept /\ z.pc = "enter" /\ z.late = work[a].late
                     \/ /\ y = IF work[a].late THEN kept
                               ELSE [x EXCEPT !.outputs = out, !.pc = "caught",
                                              !.error = "cancelled"]
                        /\ z.pc = "gone"
  <2>1. e \in {"none", "cancelled"}
    BY <1>1 DEF TimedOut
  <2>2. CASE e = "none"
    <3> DEFINE z == [work[a] EXCEPT !.pc = "enter", !.at = @ + 1]
    <3>1. work' = [work EXCEPT ![a] = z] /\ visit' = [visit EXCEPT ![a[1]] = kept]
      BY <2>2 DEF LeavePhase
    <3>2. z.pc = "enter" /\ z.late = work[a].late
      BY <1>1 DEF WorkState
    <3> HIDE DEF z, kept, out, e
    <3> QED
      BY <3>1, <3>2
  <2>3. CASE e # "none"
    <3> DEFINE y == IF work[a].late THEN kept
                    ELSE [x EXCEPT !.outputs = out, !.pc = "caught", !.error = "cancelled"]
               all == [visit EXCEPT ![a[1]].outputs = out]
    <3>1. /\ work' = [work EXCEPT ![a] = Gone]
          /\ visit' = IF work[a].late THEN all
                      ELSE [all EXCEPT ![a[1]].pc = "caught", ![a[1]].error = e]
      BY <2>3 DEF LeavePhase
    <3>2. visit \in [Visit -> VisitState]
      BY <1>1 DEF Types
    <3>3. all = [visit EXCEPT ![a[1]] = kept] /\ all[a[1]] = kept
      BY <1>1, <3>2
    <3>4. [all EXCEPT ![a[1]].pc = "caught", ![a[1]].error = "cancelled"] =
          [visit EXCEPT ![a[1]] = [x EXCEPT !.outputs = out, !.pc = "caught",
                                            !.error = "cancelled"]]
      <4>1. [kept EXCEPT !.pc = "caught", !.error = "cancelled"] =
            [x EXCEPT !.outputs = out, !.pc = "caught", !.error = "cancelled"]
        OBVIOUS
      <4>2. [all EXCEPT ![a[1]].pc = "caught", ![a[1]].error = "cancelled"] =
            [all EXCEPT ![a[1]] = [kept EXCEPT !.pc = "caught", !.error = "cancelled"]]
        BY <3>3
      <4> HIDE DEF kept, all, out
      <4> QED
        BY <1>1, <3>2, <3>3, <4>1, <4>2
    <3>5. visit' = [visit EXCEPT ![a[1]] = y]
      <4> HIDE DEF kept, all, out, e
      <4> QED
        BY <2>1, <2>3, <3>1, <3>3, <3>4
    <3>6. Gone.pc = "gone"
      BY Blanks
    <3> HIDE DEF kept, out, e
    <3> QED
      BY <3>1, <3>5, <3>6
  <2> QED
    BY <2>2, <2>3
<1>4. ASSUME Fine(conf, x, work[a], said[a[1]].satisfied)
      PROVE  Fine(conf, y, z, said[a[1]].satisfied)
  <2> HIDE DEF out, x
  <2>1. CASE /\ y = [x EXCEPT !.outputs = out]
             /\ z.pc = "enter" /\ z.late = work[a].late
    BY <1>1, <1>2, <1>4, <2>1, FineLeave
  <2>2. CASE /\ y = IF work[a].late THEN [x EXCEPT !.outputs = out]
                    ELSE [x EXCEPT !.outputs = out, !.pc = "caught", !.error = "cancelled"]
             /\ z.pc = "gone"
    BY <1>1, <1>2, <1>4, <2>2, FineLeave
  <2> QED
    BY <1>3, <2>1, <2>2
<1>5. /\ visit'[a[1]] = y /\ work'[a] = z
      /\ \A u \in Visit \ {a[1]} : visit'[u] = visit[u]
      /\ \A b \in AttemptId \ {a} : work'[b] = work[b]
  BY <1>1, <1>3 DEF Types
<1> QED
  BY <1>1, <1>4, <1>5, AttemptAnswers

\* A step that parks gives up its visit, unless it is late.
LEMMA ParkAnswers ==
    ASSUME Patient, NEW a \in AttemptId, ParkStep(a)
    PROVE  \A u \in Visit : Answers(u)'
<1> DEFINE x == visit[a[1]]
           y == IF work[a].late THEN x
                ELSE [x EXCEPT !.pc = "over", !.result = "waiting", !.from = work[a].at]
<1>1. /\ Types /\ a[1] \in Visit /\ work[a] \in WorkState /\ work[a].pc = "park"
      /\ UNCHANGED <<conf, said>> /\ Active(work[a]) /\ x \in VisitState
      /\ work[a].at \in Nat /\ \A u \in Visit : Answers(u)
  BY AttemptIdShape DEF Patient, Types, ParkStep, Active, WorkPc, WorkState
<1>2. CASE marker
  <2>1. Throws(a, "cancelled")
    BY <1>2 DEF ParkStep
  <2> QED
    BY <1>1, <2>1, ThrowsAnswer DEF Error
<1>3. CASE ~marker
  <2>1. visit' = [visit EXCEPT ![a[1]] = y] /\ work' = [work EXCEPT ![a] = Gone]
    BY <1>1, <1>3 DEF ParkStep, Types
  <2>2. Fine(conf, x, work[a], said[a[1]].satisfied) =>
            Fine(conf, y, Gone, said[a[1]].satisfied)
    BY <1>1, FineParks
  <2> HIDE DEF y
  <2>3. /\ visit'[a[1]] = y /\ work'[a] = Gone
        /\ \A u \in Visit \ {a[1]} : visit'[u] = visit[u]
        /\ \A b \in AttemptId \ {a} : work'[b] = work[b]
    BY <1>1, <2>1 DEF Types
  <2> QED
    BY <1>1, <2>2, <2>3, AttemptAnswers
<1> QED
  BY <1>2, <1>3

\* The last phase is over: no answer is recorded any more.
LEMMA ConcludeAnswers ==
    ASSUME Patient, NEW a \in AttemptId, Conclude(a)
    PROVE  \A u \in Visit : Answers(u)'
<1>1. /\ Types /\ a[1] \in Visit /\ work[a] \in WorkState /\ work[a].pc = "leave"
      /\ UNCHANGED conf /\ Active(work[a]) /\ ~TimedOut(a)
      /\ said \in [Visit -> SaidState]
  BY AttemptIdShape DEF Patient, Types, Conclude, Active, WorkPc, TimedOut
<1>2. CASE marker
  <2>1. Throws(a, "cancelled") /\ said' = said
    BY <1>2 DEF Conclude
  <2> QED
    BY <1>1, <2>1, ThrowsAnswer DEF Error
<1>3. CASE ~marker
  <2> DEFINE z == [work[a] EXCEPT !.pc = "returned"]
  <2>1. work' = [work EXCEPT ![a] = z] /\ visit' = visit
    BY <1>1, <1>3 DEF Conclude
  <2>2. z.pc = "returned" /\ z.late = work[a].late /\ Active(z)
    BY <1>1 DEF WorkState, Active, WorkPc
  <2> HIDE DEF z
  <2>3. \A u \in Visit : said'[u].satisfied = said[u].satisfied
    <3>1. PICK f, l : said' = [said EXCEPT ![a[1]].failed = f, ![a[1]].lateDone = l]
      BY ZenonT(60), <1>1, <1>3 DEF Conclude
    <3> QED
      BY <1>1, <3>1 DEF SaidState
  <2> QED
    BY <1>1, <2>1, <2>2, <2>3, OnAnswers
<1> QED
  BY <1>2, <1>3

\* The result of the race is nobody's wait.
LEMMA ReturnAnswers ==
    ASSUME Patient, NEW a \in AttemptId, ReturnNode(a)
    PROVE  \A u \in Visit : Answers(u)'
<1>1. /\ Types /\ a[1] \in Visit /\ work[a] \in WorkState /\ work[a].pc = "returned"
      /\ UNCHANGED conf /\ Active(work[a]) /\ visit[a[1]] \in VisitState
      /\ visit \in [Visit -> VisitState] /\ said \in [Visit -> SaidState]
      /\ \A u \in Visit : Answers(u)
  BY AttemptIdShape DEF Patient, Types, ReturnNode, Active, WorkPc
<1>2. /\ \/ work[a].late /\ visit'[a[1]] = visit[a[1]]
         \/ visit'[a[1]].pc = "over" /\ visit'[a[1]].result # "waiting"
      /\ \A u \in Visit \ {a[1]} : visit'[u] = visit[u]
  <2>1. CASE work[a].late
    BY <2>1 DEF ReturnNode
  <2>2. CASE ~work[a].late
    <3>1. PICK r \in NodeName \cup {"failure"} : Ends(a[1], r)
      <4>1. work[a].node \in NodeName
        BY <1>1 DEF WorkState
      <4> QED
        BY <2>2, <4>1 DEF ReturnNode
    <3>2. r # "waiting"
      BY DEF NodeName, Node
    <3> HIDE DEF NodeName
    <3> QED
      BY <1>1, <3>1, <3>2 DEF Ends, VisitState
  <2> QED
    BY <2>1, <2>2
<1>3. work'[a] = Gone /\ \A b \in AttemptId \ {a} : work'[b] = work[b]
  BY <1>1 DEF ReturnNode, Types
<1>4. \A u \in Visit : said'[u].satisfied = said[u].satisfied
  <2>1. said' = said \/ said' = [said EXCEPT ![a[1]].failed = @ + 1]
    BY DEF ReturnNode
  <2> QED
    BY <1>1, <2>1 DEF SaidState
<1>5. Fine(conf, visit[a[1]], work[a], said[a[1]].satisfied) =>
          Fine(conf, visit'[a[1]], Gone, said[a[1]].satisfied)
  BY <1>1, <1>2, FineReturns
<1> QED
  BY <1>1, <1>2, <1>3, <1>4, <1>5, AttemptAnswers

-----------------------------------------------------------------------------
\* A visit that is over, with nothing left to go on from.
LEMMA FineEnds ==
    ASSUME NEW c, NEW x, NEW w, NEW s, Fine(c, x, w, s),
           x.pc \in {"count", "begin", "caught"},
           NEW y, y.pc = "over", y.result # "waiting", y.outputs = x.outputs,
           x.pc = "caught" /\ x.error = "cancelled" => y.result = "cancelled"
    PROVE  Fine(c, y, w, s)
<1>1. Active(w) => w.late /\ y.result = "cancelled"
  BY DEF Fine
<1>2. \A k \in WaitIds : s[k] # 0 /\ Open(y, w) => k \in y.outputs \/ Answering(c, w, k)
  BY DEF Fine, Open
<1> QED
  BY <1>1, <1>2 DEF Fine

\* A visit goes on to its next attempt, with none at work.
LEMMA FineGoes ==
    ASSUME NEW c, NEW x, NEW w, NEW s, Fine(c, x, w, s),
           \/ x.pc \in {"idle", "count", "begin"}
           \/ x.pc = "caught" /\ x.error # "cancelled",
           NEW y, y.pc \in {"count", "begin", "caught"}, y.result = x.result, y.outputs = x.outputs
    PROVE  Fine(c, y, w, s) /\ ~Active(w)
<1>1. ~Active(w) /\ x.pc # "over"
  BY DEF Fine
<1>2. Open(x, w)
  BY DEF Open
<1> QED
  BY <1>1, <1>2 DEF Fine, Answering, Active

\* Counting and the catch of the loop.
LEMMA LoopStepsAnswer ==
    ASSUME Patient, NEW v \in Visit, CountAttempts(v) \/ HandleFailure(v)
    PROVE  \A u \in Visit : Answers(u)'
<1>1. /\ Types /\ UNCHANGED <<conf, work>> /\ visit[v] \in VisitState
      /\ visit \in [Visit -> VisitState] /\ said \in [Visit -> SaidState]
      /\ \A u \in Visit : Answers(u)
      /\ visit[v].pc \in {"count", "caught"}
  BY DEF Patient, Types, CountAttempts, HandleFailure
<1>2. \A u \in Visit : said'[u].satisfied = said[u].satisfied
  <2>1. said' = said \/ said' = [said EXCEPT ![v].failed = @ + 1]
    BY DEF CountAttempts, HandleFailure
  <2> QED
    BY <1>1, <2>1 DEF SaidState
<1>3. ASSUME NEW y, visit' = [visit EXCEPT ![v] = y],
             \A w : Fine(conf, visit[v], w, said[v].satisfied) =>
                        Fine(conf, y, w, said[v].satisfied)
      PROVE  \A u \in Visit : Answers(u)'
  <2>1. visit'[v] = y /\ \A u \in Visit \ {v} : visit'[u] = visit[u]
    BY <1>1, <1>3
  <2>2. \A w : Fine(conf, visit[v], w, said[v].satisfied) =>
                   Fine(conf, visit'[v], w, said'[v].satisfied)
    BY <1>2, <1>3, <2>1
  <2> QED
    BY <1>1, <1>2, <2>1, <2>2, LoopAnswers
<1>4. ASSUME NEW r, Ends(v, r), r # "waiting",
             visit[v].pc = "caught" /\ visit[v].error = "cancelled" => r = "cancelled"
      PROVE  \A u \in Visit : Answers(u)'
  <2> DEFINE y == [visit[v] EXCEPT !.pc = "over", !.result = r, !.error = "none"]
  <2>1. visit' = [visit EXCEPT ![v] = y]
    BY <1>4 DEF Ends
  <2>2. y.pc = "over" /\ y.result = r /\ y.outputs = visit[v].outputs
    BY <1>1 DEF VisitState
  <2> HIDE DEF y
  <2>3. \A w : Fine(conf, visit[v], w, said[v].satisfied) => Fine(conf, y, w, said[v].satisfied)
    BY <1>1, <1>4, <2>2, FineEnds
  <2> QED
    BY <1>3, <2>1, <2>3
<1>5. ASSUME NEW n, NEW m,
             visit' = [visit EXCEPT ![v] =
                          [visit[v] EXCEPT !.pc = "begin", !.attempt = n, !.initial = m]],
             visit[v].pc = "count" \/ visit[v].error # "cancelled"
      PROVE  \A u \in Visit : Answers(u)'
  <2> DEFINE y == [visit[v] EXCEPT !.pc = "begin", !.attempt = n, !.initial = m]
  <2>1. y.pc = "begin" /\ y.result = visit[v].result /\ y.outputs = visit[v].outputs
    BY <1>1 DEF VisitState
  <2>2. visit' = [visit EXCEPT ![v] = y]
    BY <1>5
  <2> HIDE DEF y
  <2>3. \A w : Fine(conf, visit[v], w, said[v].satisfied) => Fine(conf, y, w, said[v].satisfied)
    BY <1>1, <1>5, <2>1, FineGoes
  <2> QED
    BY <1>3, <2>2, <2>3
<1>6. CASE CountAttempts(v)
  <2>1. CASE Ends(v, "failure")
    BY <1>4, <1>6, <2>1 DEF CountAttempts
  <2>2. CASE ~Ends(v, "failure")
    <3>1. visit' = [visit EXCEPT ![v].pc = "begin", ![v].attempt = failures + 1,
                                 ![v].initial = failures + 1]
      BY <1>6, <2>2 DEF CountAttempts
    <3>2. visit[v].pc = "count"
      BY <1>6 DEF CountAttempts
    <3>3. visit' = [visit EXCEPT ![v] =
                       [visit[v] EXCEPT !.pc = "begin", !.attempt = failures + 1,
                                        !.initial = failures + 1]]
      BY <3>1
    <3> QED
      BY <1>5, <3>2, <3>3
  <2> QED
    BY <2>1, <2>2
<1>7. CASE HandleFailure(v)
  <2>1. CASE visit[v].error = "cancelled"
    <3>1. Ends(v, "cancelled")
      BY <1>7, <2>1 DEF HandleFailure
    <3> QED
      BY <1>4, <3>1
  <2>2. CASE visit[v].error # "cancelled" /\ MayRetry(v)
    <3>1. visit' = [visit EXCEPT ![v].pc = "begin", ![v].attempt = @ + 1]
      BY <1>7, <2>2 DEF HandleFailure
    <3>2. [visit[v] EXCEPT !.pc = "begin", !.attempt = @ + 1] =
          [visit[v] EXCEPT !.pc = "begin", !.attempt = visit[v].attempt + 1,
                           !.initial = visit[v].initial]
      BY <1>1 DEF VisitState
    <3>3. visit' = [visit EXCEPT ![v] = [visit[v] EXCEPT !.pc = "begin", !.attempt = @ + 1]]
      BY <3>1
    <3> QED
      BY <1>5, <2>2, <3>2, <3>3
  <2>3. CASE visit[v].error # "cancelled" /\ ~MayRetry(v)
    <3>1. PICK r \in {"failure", "next", "split", "absolute"} : Ends(v, r)
      BY <1>7, <2>3 DEF HandleFailure
    <3>2. r # "waiting"
      OBVIOUS
    <3> QED
      BY <1>4, <2>3, <3>1, <3>2
  <2> QED
    BY <2>1, <2>2, <2>3
<1> QED
  BY <1>6, <1>7

\* A new attempt is the only one at work.
LEMMA BeginAnswers ==
    ASSUME Patient, NEW v \in Visit, BeginAttempt(v)
    PROVE  \A u \in Visit : Answers(u)'
<1>1. /\ Types /\ UNCHANGED <<conf, said>> /\ visit[v] \in VisitState
      /\ visit \in [Visit -> VisitState] /\ work \in [AttemptId -> WorkState]
      /\ \A u \in Visit : Answers(u)
      /\ visit[v].pc = "begin" /\ MaxAttempts' = MaxAttempts
      /\ \A u \in Visit, i \in 1..MaxAttempts : <<u, i>> \in AttemptId
  BY SameAttempts DEF Patient, Types, BeginAttempt, AttemptId
<1>2. ASSUME NEW e \in Error, UNCHANGED work,
             visit' = [visit EXCEPT ![v].pc = "caught", ![v].error = e]
      PROVE  \A u \in Visit : Answers(u)'
  <2> DEFINE y == [visit[v] EXCEPT !.pc = "caught", !.error = e]
  <2>1. y.pc = "caught" /\ y.result = visit[v].result /\ y.outputs = visit[v].outputs
    BY <1>1 DEF VisitState
  <2>2. visit' = [visit EXCEPT ![v] = y]
    BY <1>2
  <2> HIDE DEF y
  <2>3. visit'[v] = y /\ \A u \in Visit \ {v} : visit'[u] = visit[u]
    BY <1>1, <2>2
  <2>4. \A w : Fine(conf, visit[v], w, said[v].satisfied) =>
                   Fine(conf, visit'[v], w, said'[v].satisfied)
    BY <1>1, <2>1, <2>3, FineGoes
  <2> QED
    BY <1>1, <1>2, <2>3, <2>4, LoopAnswers
<1>3. ASSUME NEW w, w.pc = "enter", ~w.late,
             visit' = [visit EXCEPT ![v].pc = "race"],
             work' = [work EXCEPT ![RunningAttempt(v)] = w]
      PROVE  \A u \in Visit : Answers(u)'
  <2> DEFINE r == RunningAttempt(v)
             y == [visit[v] EXCEPT !.pc = "race"]
  <2>1. y.pc = "race" /\ y.result = visit[v].result /\ y.outputs = visit[v].outputs
    BY <1>1 DEF VisitState
  <2>2. visit' = [visit EXCEPT ![v] = y]
    BY <1>3
  <2> HIDE DEF y
  <2>3. visit'[v] = y /\ \A u \in Visit \ {v} : visit'[u] = visit[u]
    BY <1>1, <2>2
  <2>4. PICK i \in 1..MaxAttempts :
            Sole(v, i) /\ Fine(conf, visit[v], work[<<v, i>>], said[v].satisfied)
    BY <1>1 DEF Answers
  <2>5. \A j \in 1..MaxAttempts : ~Active(work[<<v, j>>])
    <3>1. ~Active(work[<<v, i>>])
      BY <1>1, <2>4 DEF Fine
    <3> QED
      BY <2>4, <3>1 DEF Sole
  <2>6. \A b \in AttemptId : work'[b] = IF b = r THEN w ELSE work[b]
    BY <1>1, <1>3
  <2>7. PICK n : r = <<v, n>>
    BY DEF RunningAttempt
  <2> HIDE DEF r
  <2>8. Answers(v)'
    <3>1. CASE n \in 1..MaxAttempts
      <4>1. \A j \in (1..MaxAttempts) \ {n} : <<v, j>> # r
        BY <2>7
      <4>2. \A j \in (1..MaxAttempts) \ {n} : work'[<<v, j>>] = work[<<v, j>>]
        BY <1>1, <2>6, <4>1
      <4>3. \A j \in (1..MaxAttempts) \ {n} : ~Active(work'[<<v, j>>])
        BY <2>5, <4>2
      <4>4. Sole(v, n)'
        BY <1>1, <4>3 DEF Sole, Active
      <4>5. work'[<<v, n>>] = w
        BY <1>1, <2>6, <2>7, <3>1
      <4>6. Fine(conf, y, w, said[v].satisfied)
        <5>1. \A k \in WaitIds : said[v].satisfied[k] <= 1 /\
                                 (said[v].satisfied[k] # 0 => k \in y.outputs)
          BY <1>1, <2>1, <2>4, <2>5 DEF Fine, Open, Answering, Active, WorkPc
        <5>2. y.result = "none"
          BY <1>1, <2>1, <2>4 DEF Fine
        <5> QED
          BY <1>3, <2>1, <5>1, <5>2 DEF Fine
      <4>7. Fine(conf, visit'[v], work'[<<v, n>>], said'[v].satisfied)
        BY <1>1, <2>3, <4>5, <4>6
      <4>8. Fine(conf, visit[v], work[<<v, n>>], said[v].satisfied)'
        BY <1>1, <4>7 DEF Fine, Open, Answering, AtWait, Active
      <4> QED
        BY <1>1, <3>1, <4>4, <4>8 DEF Answers
    <3>2. CASE n \notin 1..MaxAttempts
      <4>1. \A j \in 1..MaxAttempts : work'[<<v, j>>] = work[<<v, j>>]
        BY <1>1, <2>6, <2>7, <3>2
      <4>2. Sole(v, i)'
        BY <1>1, <2>4, <4>1 DEF Sole, Active
      <4>3. Fine(conf, y, work[<<v, i>>], said[v].satisfied)
        <5>1. \A k \in WaitIds : said[v].satisfied[k] <= 1 /\
                                 (said[v].satisfied[k] # 0 => k \in y.outputs)
          BY <1>1, <2>1, <2>4, <2>5 DEF Fine, Open, Answering, Active, WorkPc
        <5>2. y.result = "none"
          BY <1>1, <2>1, <2>4 DEF Fine
        <5>3. work[<<v, i>>].pc # "in"
          BY <2>5 DEF Active, WorkPc
        <5> QED
          BY <2>1, <2>5, <5>1, <5>2, <5>3 DEF Fine
      <4>4. Fine(conf, visit'[v], work'[<<v, i>>], said'[v].satisfied)
        BY <1>1, <2>3, <4>1, <4>3
      <4>5. Fine(conf, visit[v], work[<<v, i>>], said[v].satisfied)'
        BY <1>1, <4>4 DEF Fine, Open, Answering, AtWait, Active
      <4> QED
        BY <1>1, <4>2, <4>5 DEF Answers
    <3> QED
      BY <3>1, <3>2
  <2>9. ASSUME NEW u \in Visit \ {v}
        PROVE  /\ visit'[u] = visit[u] /\ said'[u].satisfied = said[u].satisfied
               /\ \A j \in 1..MaxAttempts : work'[<<u, j>>] = work[<<u, j>>]
    <3>1. \A j \in 1..MaxAttempts : <<u, j>> # r
      BY <2>7
    <3> QED
      BY <1>1, <2>3, <2>6, <3>1
  <2> QED
    BY <1>1, <2>8, <2>9, OthersAnswer
<1>4. CASE \E e \in Error : /\ visit' = [visit EXCEPT ![v].pc = "caught", ![v].error = e]
                            /\ UNCHANGED work
  BY <1>2, <1>4
<1>5. CASE /\ visit' = [visit EXCEPT ![v].pc = "race"]
           /\ work' = [work EXCEPT ![RunningAttempt(v)] =
                 [NoWork EXCEPT !.pc = "enter",
                      !.at = IF visit[v].attempt > visit[v].initial THEN 1 ELSE visit[v].from]]
  <2> DEFINE w == [NoWork EXCEPT !.pc = "enter",
                      !.at = IF visit[v].attempt > visit[v].initial THEN 1 ELSE visit[v].from]
  <2>1. w.pc = "enter" /\ ~w.late
    BY DEF NoWork
  <2> HIDE DEF w
  <2>2. work' = [work EXCEPT ![RunningAttempt(v)] = w]
    BY <1>5 DEF w
  <2> QED
    BY <1>3, <1>5, <2>1, <2>2
<1> QED
  BY <1>4, <1>5 DEF BeginAttempt, Error

\* The poll abandons the attempt at work, and its visit for good.
LEMMA PollAnswers ==
    ASSUME Patient, Raced, NEW v \in Visit, Abandon(v, "cancelled")
    PROVE  \A u \in Visit : Answers(u)'
<1>1. /\ Types /\ UNCHANGED <<conf, said>> /\ visit[v] \in VisitState
      /\ visit \in [Visit -> VisitState] /\ work \in [AttemptId -> WorkState]
      /\ \A u \in Visit : Answers(u)
      /\ visit[v].pc = "race" /\ MaxAttempts' = MaxAttempts
      /\ \A u \in Visit, i \in 1..MaxAttempts : <<u, i>> \in AttemptId
  BY SameAttempts DEF Patient, Types, Abandon, AttemptId
<1> DEFINE y == [visit[v] EXCEPT !.pc = "caught", !.error = "cancelled"]
<1>2. /\ y.pc = "caught" /\ y.error = "cancelled" /\ y.result = visit[v].result
      /\ y.outputs = visit[v].outputs
  BY <1>1 DEF VisitState
<1>3. visit' = [visit EXCEPT ![v] = y]
  BY DEF Abandon
<1> HIDE DEF y
<1>4. visit'[v] = y /\ \A u \in Visit \ {v} : visit'[u] = visit[u]
  BY <1>1, <1>3
<1>5. PICK i \in 1..MaxAttempts :
          Sole(v, i) /\ Fine(conf, visit[v], work[<<v, i>>], said[v].satisfied)
  BY <1>1 DEF Answers
<1>6. PICK r : r = RunningAttempt(v)
  OBVIOUS
<1>7. r[1] = v
  BY <1>6 DEF RunningAttempt
<1>8. \A b \in AttemptId : work'[b] = IF b = r THEN [work[b] EXCEPT !.late = TRUE] ELSE work[b]
  BY <1>1, <1>6 DEF Abandon
<1>9. \A b \in AttemptId : /\ work'[b].pc = work[b].pc /\ work'[b].at = work[b].at
                           /\ b = r => work'[b].late
  <2>1. \A w \in WorkState : /\ [w EXCEPT !.late = TRUE].pc = w.pc
                             /\ [w EXCEPT !.late = TRUE].at = w.at
                             /\ [w EXCEPT !.late = TRUE].late
    BY DEF WorkState
  <2>2. \A b \in AttemptId : work[b] \in WorkState
    BY <1>1
  <2> QED
    BY <1>8, <2>1, <2>2
<1>10. Answers(v)'
  <2>1. \A j \in 1..MaxAttempts : Active(work'[<<v, j>>]) <=> Active(work[<<v, j>>])
    BY <1>1, <1>9 DEF Active
  <2>2. Sole(v, i)'
    BY <1>1, <1>5, <2>1 DEF Sole, Active
  <2>3. PICK a \in AttemptId : a = <<v, i>>
    BY <1>1
  <2>4. Active(work[a]) => work'[a].late
    <3> SUFFICES ASSUME Active(work[a]) PROVE work'[a].late
      OBVIOUS
    <3>1. ~work[a].late
      BY <1>1, <1>5, <2>3 DEF Fine
    <3>2. a = r
      <4>1. a[1] = v
        BY <2>3
      <4> QED
        BY <1>6, <2>3, <3>1, <4>1 DEF Raced
    <3> QED
      BY <1>9, <3>2
  <2>5. /\ Active(work'[a]) <=> Active(work[a])
        /\ Open(y, work'[a]) => Open(visit[v], work[a])
        /\ \A k : Answering(conf, work'[a], k) <=> Answering(conf, work[a], k)
        /\ AtWait(conf, work'[a]) <=> AtWait(conf, work[a])
    BY <1>2, <1>9 DEF Active, Open, Answering, AtWait
  <2>6. Fine(conf, visit[v], work[a], said[v].satisfied)
    BY <1>5, <2>3
  <2>7. Fine(conf, y, work'[a], said[v].satisfied)
    BY <1>1, <1>2, <1>9, <2>4, <2>5, <2>6 DEF Fine
  <2>8. Fine(conf, visit'[v], work'[<<v, i>>], said'[v].satisfied)
    BY <1>1, <1>4, <2>3, <2>7
  <2>9. Fine(conf, visit[v], work[<<v, i>>], said[v].satisfied)'
    BY <1>1, <2>8 DEF Fine, Open, Answering, AtWait, Active
  <2> QED
    BY <1>1, <2>2, <2>9 DEF Answers
<1>11. ASSUME NEW u \in Visit \ {v}
       PROVE  /\ visit'[u] = visit[u] /\ said'[u].satisfied = said[u].satisfied
              /\ \A j \in 1..MaxAttempts : work'[<<u, j>>] = work[<<u, j>>]
  <2>1. \A j \in 1..MaxAttempts : <<u, j>> # r
    BY <1>7
  <2> QED
    BY <1>1, <1>4, <1>8, <2>1
<1> QED
  BY <1>1, <1>10, <1>11, OthersAnswer

\* A visit that starts, at the step or at the wait an earlier one is parked at.
LEMMA StartAnswers ==
    ASSUME Patient, NEW v \in Visit, NEW u \in Visit, StartVisit(v) \/ ResumeVisit(v, u)
    PROVE  \A t \in Visit : Answers(t)'
<1>1. /\ Types /\ UNCHANGED <<conf, work>> /\ visit[v] \in VisitState /\ visit[u] \in VisitState
      /\ visit \in [Visit -> VisitState] /\ said \in [Visit -> SaidState]
      /\ \A t \in Visit : Answers(t)
      /\ visit[v].pc = "idle" /\ MaxAttempts' = MaxAttempts
  BY SameAttempts DEF Patient, Types, StartVisit, ResumeVisit, MayStart
<1>2. CASE StartVisit(v)
  <2> DEFINE y == [visit[v] EXCEPT !.pc = "count"]
  <2>1. y.pc = "count" /\ y.result = visit[v].result /\ y.outputs = visit[v].outputs
    BY <1>1 DEF VisitState
  <2>2. visit' = [visit EXCEPT ![v] = y] /\ said' = said
    BY <1>2 DEF StartVisit
  <2> HIDE DEF y
  <2>3. visit'[v] = y /\ \A t \in Visit \ {v} : visit'[t] = visit[t]
    BY <1>1, <2>2
  <2>4. \A w : Fine(conf, visit[v], w, said[v].satisfied) =>
                   Fine(conf, visit'[v], w, said'[v].satisfied)
    BY <1>1, <2>1, <2>2, <2>3, FineGoes
  <2> QED
    BY <1>1, <2>2, <2>3, <2>4, LoopAnswers
<1>3. CASE ResumeVisit(v, u)
  <2> DEFINE x == [NoVisit EXCEPT !.pc = "count", !.resumed = TRUE, !.from = visit[u].from,
                                  !.outputs = visit[u].outputs]
             y == [visit[u] EXCEPT !.result = "resumed"]
  <2>1. u # v /\ visit[u].pc = "over" /\ visit[u].result = "waiting"
    BY <1>1, <1>3 DEF ResumeVisit
  <2>2. /\ visit' = [visit EXCEPT ![v] = x, ![u] = y]
        /\ said' = [said EXCEPT ![v].satisfied = said[u].satisfied]
    BY <1>3, <2>1 DEF ResumeVisit
  <2>3. x.pc = "count" /\ x.result = "none" /\ x.outputs = visit[u].outputs
    BY DEF NoVisit
  <2>4. y.pc = "over" /\ y.result = "resumed"
    BY <1>1, <2>1 DEF VisitState
  <2> HIDE DEF x, y
  <2>5. /\ visit'[v] = x /\ visit'[u] = y
        /\ \A t \in Visit \ {v, u} : visit'[t] = visit[t]
    BY <1>1, <2>1, <2>2
  <2>6. /\ said'[v].satisfied = said[u].satisfied
        /\ \A t \in Visit \ {v} : said'[t].satisfied = said[t].satisfied
    BY <1>1, <2>2 DEF SaidState
  <2>7. PICK i \in 1..MaxAttempts :
            Sole(v, i) /\ Fine(conf, visit[v], work[<<v, i>>], said[v].satisfied)
    BY <1>1 DEF Answers
  <2>8. PICK j \in 1..MaxAttempts :
            Sole(u, j) /\ Fine(conf, visit[u], work[<<u, j>>], said[u].satisfied)
    BY <1>1 DEF Answers
  <2>9. ~Active(work[<<v, i>>]) /\ ~Active(work[<<u, j>>])
    BY <1>1, <2>1, <2>7, <2>8 DEF Fine
  <2>10. work[<<v, i>>].pc # "in" /\ work[<<u, j>>].pc # "in" /\ ~Open(y, work[<<u, j>>])
    BY <2>4, <2>9 DEF Active, WorkPc, Open
  <2>11. Fine(conf, visit'[u], work[<<u, j>>], said'[u].satisfied)
    <3>1. \A k \in WaitIds : said[u].satisfied[k] <= 1
      BY <2>8 DEF Fine
    <3>2. Fine(conf, y, work[<<u, j>>], said[u].satisfied)
      BY <2>4, <2>9, <2>10, <3>1 DEF Fine
    <3> QED
      BY <2>1, <2>5, <2>6, <3>2
  <2>12. Fine(conf, visit'[v], work[<<v, i>>], said'[v].satisfied)
    <3>1. \A k \in WaitIds : said[u].satisfied[k] <= 1 /\
                             (said[u].satisfied[k] # 0 => k \in visit[u].outputs)
      BY <2>1, <2>8, <2>9 DEF Fine, Open, Answering, Active, WorkPc
    <3>2. Fine(conf, x, work[<<v, i>>], said[u].satisfied)
      BY <2>3, <2>9, <2>10, <3>1 DEF Fine
    <3> QED
      BY <2>1, <2>5, <2>6, <3>2
  <2>13. Answers(v)'
    <3>1. Fine(conf, visit[v], work[<<v, i>>], said[v].satisfied)'
      BY <1>1, <2>12 DEF Fine, Open, Answering, AtWait, Active
    <3>2. Sole(v, i)'
      BY <1>1, <2>7 DEF Sole, Active
    <3> QED
      BY <1>1, <3>1, <3>2 DEF Answers
  <2>14. Answers(u)'
    <3>1. Fine(conf, visit[u], work[<<u, j>>], said[u].satisfied)'
      BY <1>1, <2>11 DEF Fine, Open, Answering, AtWait, Active
    <3>2. Sole(u, j)'
      BY <1>1, <2>8 DEF Sole, Active
    <3> QED
      BY <1>1, <3>1, <3>2 DEF Answers
  <2>15. ASSUME NEW t \in Visit \ {v, u} PROVE Answers(t)'
    <3>1. PICK n \in 1..MaxAttempts :
              Sole(t, n) /\ Fine(conf, visit[t], work[<<t, n>>], said[t].satisfied)
      BY <1>1 DEF Answers
    <3>2. Fine(conf, visit'[t], work[<<t, n>>], said'[t].satisfied)
      BY <2>5, <2>6, <3>1
    <3>3. Fine(conf, visit[t], work[<<t, n>>], said[t].satisfied)'
      BY <1>1, <3>2 DEF Fine, Open, Answering, AtWait, Active
    <3>4. Sole(t, n)'
      BY <1>1, <3>1 DEF Sole, Active
    <3> QED
      BY <1>1, <3>3, <3>4 DEF Answers
  <2> QED
    BY <2>13, <2>14, <2>15
<1> QED
  BY <1>2, <1>3

\* After a crash nothing is at work, and only a step that waits is gone on with.
LEMMA CrashAnswers ==
    ASSUME Patient, CrashRun
    PROVE  \A u \in Visit : Answers(u)'
<1> SUFFICES ASSUME NEW u \in Visit PROVE Answers(u)'
  OBVIOUS
<1>1. /\ Types /\ UNCHANGED <<conf, said>> /\ visit[u] \in VisitState
      /\ work \in [AttemptId -> WorkState] /\ MaxAttempts' = MaxAttempts
      /\ \A i \in 1..MaxAttempts : <<u, i>> \in AttemptId
  BY SameAttempts DEF Patient, Types, CrashRun, AttemptId
<1>2. PICK i \in 1..MaxAttempts :
          Sole(u, i) /\ Fine(conf, visit[u], work[<<u, i>>], said[u].satisfied)
  BY DEF Patient, Answers
<1>3. visit'[u] = IF Live(u) THEN [visit[u] EXCEPT !.pc = "over"] ELSE visit[u]
  BY DEF CrashRun
<1>4. \A j \in 1..MaxAttempts : work'[<<u, j>>].pc \in {"none", "gone"}
  <2>1. \A b \in AttemptId : work'[b] = IF work[b].pc = "none" THEN NoWork ELSE Gone
    BY <1>1 DEF CrashRun
  <2>2. \A j \in 1..MaxAttempts : work'[<<u, j>>] \in {NoWork, Gone}
    BY <1>1, <2>1
  <2> QED
    BY <2>2, Blanks
<1>5. Fine(conf, visit'[u], work'[<<u, i>>], said[u].satisfied)
  <2>1. ~Active(work'[<<u, i>>]) /\ work'[<<u, i>>].pc \in {"none", "gone"}
    BY <1>4 DEF Active
  <2>2. CASE Live(u)
    <3>1. visit'[u].pc = "over" /\ visit'[u].result = "none"
      BY <1>1, <1>2, <1>3, <2>2 DEF Fine, Live, VisitState
    <3>2. ~Open(visit'[u], work'[<<u, i>>])
      BY <2>1, <3>1 DEF Open
    <3> QED
      BY <1>2, <2>1, <3>1, <3>2 DEF Fine
  <2>3. CASE ~Live(u)
    <3>1. visit'[u] = visit[u] /\ visit[u].pc \in {"idle", "over"}
      BY <1>3, <2>3 DEF Live
    <3>2. Open(visit[u], work'[<<u, i>>]) =>
              Open(visit[u], work[<<u, i>>]) /\ ~Active(work[<<u, i>>])
      BY <1>2, <2>1, <3>1 DEF Open, Fine
    <3>3. \A k : Answering(conf, work[<<u, i>>], k) => Active(work[<<u, i>>])
      BY DEF Answering, Active, WorkPc
    <3> QED
      BY <1>2, <2>1, <3>1, <3>2, <3>3 DEF Fine
  <2> QED
    BY <2>2, <2>3
<1>6. Fine(conf, visit[u], work[<<u, i>>], said[u].satisfied)'
  BY <1>1, <1>5 DEF Fine, Open, Answering, AtWait, Active
<1>7. Sole(u, i)'
  BY <1>1, <1>4 DEF Sole, Active
<1> QED
  BY <1>1, <1>6, <1>7 DEF Answers

-----------------------------------------------------------------------------
\* With a timeout a completion is recorded by an attempt somebody waits for.
LEMMA NoLateCompletion ==
    ASSUME Types, conf.timeout, \A u \in Visit : said[u].lateDone = 0, [SANext]_saVars
    PROVE  \A u \in Visit : said'[u].lateDone = 0
<1>1. said \in [Visit -> SaidState]
  BY DEF Types
<1>2. CASE said' = said
  BY <1>2
<1>3. ASSUME NEW v \in Visit, said' = [said EXCEPT ![v].failed = @ + 1]
      PROVE  \A u \in Visit : said'[u].lateDone = 0
  BY <1>1, <1>3 DEF SaidState
<1>4. ASSUME NEW v \in Visit, NEW u \in Visit, StartVisit(v) \/ ResumeVisit(v, u)
      PROVE  \A t \in Visit : said'[t].lateDone = 0
  <2>1. said' = said \/ said' = [said EXCEPT ![v].satisfied = said[u].satisfied]
    BY <1>4 DEF StartVisit, ResumeVisit
  <2> QED
    BY <1>1, <2>1 DEF SaidState
<1>5. ASSUME NEW v \in Visit, Control(v) \/ Timeout(v) \/ Poll(v)
      PROVE  \A u \in Visit : said'[u].lateDone = 0
  BY <1>2, <1>3, <1>5
     DEF Control, CountAttempts, BeginAttempt, HandleFailure, Timeout, Poll, Abandon
<1>6. ASSUME NEW a \in DOMAIN work, Promise(a)
      PROVE  \A u \in Visit : said'[u].lateDone = 0
  <2>1. a \in AttemptId /\ a[1] \in Visit
    BY AttemptIdShape DEF Types
  <2>2. CASE EnterPhase(a)
    <3>1. said' = said \/ said' = [said EXCEPT ![a[1]].did = @ + 1]
      BY <2>2 DEF EnterPhase
    <3> QED
      BY <1>1, <3>1 DEF SaidState
  <2>3. CASE FinishInputWait(a) \/ FinishCheckWait(a)
    <3>1. \/ said' = said
          \/ said' = [said EXCEPT ![a[1]].satisfied[Phase(a).id] = @ + 1]
      BY <2>3 DEF FinishInputWait, FinishCheckWait, Parks, Satisfies
    <3> QED
      BY <1>1, <3>1 DEF SaidState
  <2>4. CASE FinishPrompt(a)
    BY <1>2, <2>4 DEF FinishPrompt, TimedOut
  <2>5. CASE Conclude(a)
    <3>1. CASE marker \/ TimedOut(a)
      BY <1>2, <2>5, <3>1 DEF Conclude
    <3>2. CASE ~(marker \/ TimedOut(a))
      <4>1. ~work[a].late
        BY <3>2 DEF TimedOut
      <4>2. said' = [said EXCEPT
                        ![a[1]].failed = IF work[a].node = "fail" THEN @ + 1 ELSE @,
                        ![a[1]].lateDone = @]
        BY <2>5, <3>2, <4>1 DEF Conclude
      <4>3. PICK f : said' = [said EXCEPT ![a[1]].failed = f,
                                          ![a[1]].lateDone = said[a[1]].lateDone]
        <5>1. [said EXCEPT ![a[1]].failed = IF work[a].node = "fail" THEN @ + 1 ELSE @,
                           ![a[1]].lateDone = @] =
              [said EXCEPT ![a[1]].failed = IF work[a].node = "fail" THEN said[a[1]].failed + 1
                                            ELSE said[a[1]].failed,
                           ![a[1]].lateDone = said[a[1]].lateDone]
          BY <1>1, <2>1 DEF SaidState
        <5> QED
          BY <4>2, <5>1
      <4> QED
        BY <1>1, <2>1, <4>3 DEF SaidState
    <3> QED
      BY <3>1, <3>2
  <2>6. CASE ReturnNode(a)
    BY <1>2, <1>3, <2>1, <2>6 DEF ReturnNode
  <2>7. CASE \/ FailPhase(a) \/ RejectWait(a) \/ FinishOther(a) \/ LeavePhase(a) \/ ParkStep(a)
    BY <1>2, <2>7 DEF FailPhase, RejectWait, FinishOther, LeavePhase, ParkStep
  <2> QED
    BY <1>6, <2>2, <2>3, <2>4, <2>5, <2>6, <2>7 DEF Promise
<1>7. CASE Cancel \/ ContinueCancelled \/ CrashRun \/ UNCHANGED saVars
  BY <1>2, <1>7 DEF Cancel, ContinueCancelled, CrashRun, saVars
<1> QED
  BY <1>4, <1>5, <1>6, <1>7 DEF SANext

\* No step records anything of a visit twice.
THEOREM OnceInductive == StepInv /\ Once /\ [SANext]_saVars => Once'
<1> SUFFICES ASSUME StepInv, Once, [SANext]_saVars PROVE Once'
  OBVIOUS
<1>1. UNCHANGED conf
  BY DEF SANext, saVars, Control, CountAttempts, BeginAttempt, HandleFailure, StartVisit,
         ResumeVisit, Timeout, Poll, Abandon, Promise, EnterPhase, FailPhase, RejectWait,
         FinishInputWait, FinishCheckWait, FinishPrompt, FinishOther, LeavePhase, ParkStep,
         Conclude, ReturnNode, Cancel, ContinueCancelled, CrashRun
<1>2. CASE conf.timeout
  <2>1. Types /\ \A u \in Visit : said[u].lateDone = 0
    BY <1>2 DEF StepInv, Once
  <2> QED
    BY <1>1, <1>2, <2>1, NoLateCompletion DEF Once
<1>3. CASE ~conf.timeout
  <2>1. Patient /\ Raced
    BY <1>3 DEF StepInv, Once, Patient
  <2>2. \A u \in Visit : Answers(u)'
    <3>1. CASE UNCHANGED <<conf, visit, work, said>>
      <4>1. \A u \in Visit : Answers(u)
        BY <2>1 DEF Patient
      <4> QED
        BY <3>1, <4>1 DEF Answers, Sole, Fine, Open, Answering, AtWait, Active, MaxAttempts
    <3>2. CASE UNCHANGED saVars
      BY <3>1, <3>2 DEF saVars
    <3>3. ASSUME NEW v \in Visit,
                 \/ StartVisit(v) \/ Control(v) \/ Timeout(v) \/ Poll(v)
                 \/ \E u \in Visit : ResumeVisit(v, u)
          PROVE  \A u \in Visit : Answers(u)'
      BY <1>3, <2>1, <3>3, StartAnswers, LoopStepsAnswer, BeginAnswers, PollAnswers
         DEF Control, Timeout, Poll
    <3>4. ASSUME NEW a \in DOMAIN work, Promise(a) PROVE \A u \in Visit : Answers(u)'
      <4>1. a \in AttemptId
        BY DEF StepInv, Types
      <4> QED
        BY <2>1, <3>4, <4>1, EnterAnswers, InAnswers, LeaveAnswers, ParkAnswers, ConcludeAnswers,
           ReturnAnswers DEF Promise
    <3>5. CASE Cancel \/ ContinueCancelled
      BY <3>1, <3>5 DEF Cancel, ContinueCancelled
    <3>6. CASE CrashRun
      BY <2>1, <3>6, CrashAnswers
    <3> QED
      BY <3>2, <3>3, <3>4, <3>5, <3>6 DEF SANext
  <2> QED
    BY <1>1, <1>3, <2>2 DEF Once
<1> QED
  BY <1>2, <1>3

\* Nothing is recorded before the first visit.
THEOREM OnceInitially == SAInit => Once
<1> SUFFICES ASSUME SAInit PROVE Once
  OBVIOUS
<1>1. /\ visit = [v \in Visit |-> NoVisit] /\ work = [a \in AttemptId |-> NoWork]
      /\ 1 \in 1..MaxAttempts
  BY BudgetPositive DEF SAInit, AttemptId, MaxAttempts
<1>2. \A v \in Visit : said[v].lateDone = 0 /\ \A k \in WaitIds : said[v].satisfied[k] = 0
  BY DEF SAInit
<1>3. ~Active(NoWork) /\ NoWork.pc = "none"
  BY Blanks DEF Active
<1>4. ASSUME NEW v \in Visit PROVE Answers(v)
  <2>1. \A j \in 1..MaxAttempts : work[<<v, j>>] = NoWork
    BY <1>1 DEF AttemptId
  <2>2. Sole(v, 1)
    BY <1>3, <2>1 DEF Sole
  <2>3. visit[v].result = "none"
    BY <1>1 DEF NoVisit
  <2>4. Fine(conf, visit[v], work[<<v, 1>>], said[v].satisfied)
    BY <1>1, <1>2, <1>3, <2>1, <2>3 DEF Fine
  <2> QED
    BY <1>1, <2>2, <2>4 DEF Answers
<1> QED
  BY <1>2, <1>4 DEF Once

\* A visit records no answer twice, nor with a timeout a completion of an attempt
\* that lost its race.
THEOREM RecordedOnce == SASpec => []AnswersRecordedOnce
<1>1. StepInv /\ Once => AnswersRecordedOnce
  BY DEF Once, Answers, Fine, AnswersRecordedOnce
<1> QED
  BY <1>1, StepInductive, StepInitially, OnceInductive, OnceInitially, PTL DEF SASpec

(***************************************************************************)
(* ContinuationLoop: the settings a node runs under.                       *)
(***************************************************************************)
\* The settings at depth d are those of the workflow frame d invoked; without a
\* frame they are those of the run.
OwnerAt(d) == IF d = 0 THEN entry.by ELSE frames[d].invoked
SettingAt(d, s) == IF d = 0 THEN RunSettings[s] ELSE frames[d].invoked

\* What invocationFrames saved at each depth is what was in force one depth below.
FramesNest ==
    \A d \in 1..Len(frames) :
        /\ frames[d].caller = OwnerAt(d - 1)
        /\ \A s \in Setting : frames[d].settings[s] = SettingAt(d - 1, s)

Source == Workflow \cup {Root, NotPassed}
Owner == Workflow \cup {Root}
Saved == [settings : [Setting -> Source], post : BOOLEAN, invoked : Workflow, caller : Owner]

\* The first node, the node that runs and every post owed are some workflow's.
Owned ==
    /\ node.owner \in Owner
    /\ entry.next \in Seq(Owner) /\ outcome.posts \in Seq(Owner)

\* The node that runs, and the settings in force, are those of the top of the stack.
TopOwns ==
    LoopRuns => /\ node.owner = OwnerAt(Len(frames))
                /\ \A s \in Setting : settings[s] = SettingAt(Len(frames), s)

SettingsInv ==
    /\ frames \in Seq(Saved)
    /\ settings \in [Setting -> Source]
    /\ Owned
    /\ FramesNest
    /\ TopOwns

LEMMA RunSettingsType == RunSettings \in [Setting -> Source]
  BY DEF RunSettings, Source

\* A loop begins at the bottom of an empty stack.
LEMMA LoopStartsNested ==
    ASSUME NEW loop, NEW kinds, NEW count, NEW resumed,
           loop.by \in Owner, loop.next \in Seq(Owner),
           StartLoop(loop, kinds, count, resumed)
    PROVE  SettingsInv'
<1>1. /\ entry' = loop /\ frames' = <<>> /\ settings' = RunSettings
      /\ node'.owner = loop.by
  BY DEF StartLoop
<1>2. FramesNest'
  BY <1>1 DEF FramesNest
<1>3. TopOwns'
  BY <1>1 DEF TopOwns, OwnerAt, SettingAt
<1>4. Owned'
  BY <1>1 DEF StartLoop, Running, Owned
<1> QED
  BY <1>1, <1>2, <1>3, <1>4, RunSettingsType DEF SettingsInv

\* An action that leaves the stack, the node's owner and the first workflow alone
\* keeps the nesting.
LEMMA NestingUntouched ==
    ASSUME SettingsInv, UNCHANGED <<settings, frames>>,
           node'.owner = node.owner, entry'.by = entry.by, entry'.next = entry.next,
           outcome'.posts \in Seq(Owner), LoopRuns' => LoopRuns
    PROVE  SettingsInv'
  BY DEF SettingsInv, Owned, FramesNest, TopOwns, OwnerAt, SettingAt

LEMMA FinishKeepsNesting ==
    ASSUME SettingsInv, LoopRuns, NEW r, Finish(r)
    PROVE  SettingsInv'
<1>1. /\ UNCHANGED <<settings, frames, node, entry>>
      /\ outcome'.posts \in Seq(Owner)
  BY DEF Finish
<1> QED
  BY <1>1, NestingUntouched

LEMMA SingleIsSeq ==
    ASSUME NEW S, NEW x \in S
    PROVE  <<x>> \in Seq(S)
  OBVIOUS

\* A split leaves its posts to the workflows whose code they are.
LEMMA SplitsHaveOwners ==
    ASSUME SettingsInv
    PROVE  \A o \in SplitOutcome : o.posts \in Seq(Owner)
<1>1. \A invocation \in PostOfFrames : invocation \in Seq(Owner)
  <2> SUFFICES ASSUME NEW invocation \in PostOfFrames PROVE invocation \in Seq(Owner)
    OBVIOUS
  <2>1. invocation = <<>> \/ \E d \in DOMAIN frames : invocation = <<frames[d].caller>>
    BY DEF PostOfFrames
  <2>2. \A d \in DOMAIN frames : frames[d].caller \in Owner
    <3>1. \A d \in DOMAIN frames : frames[d] \in Saved
      BY DEF SettingsInv
    <3> QED
      BY <3>1 DEF Saved
  <2>3. CASE invocation = <<>>
    BY <2>3
  <2>4. CASE \E d \in DOMAIN frames : invocation = <<frames[d].caller>>
    BY <2>2, <2>4, SingleIsSeq
  <2> QED
    BY <2>1, <2>3, <2>4
<1>2. \A own \in {<<>>, <<node.owner>>} : own \in Seq(Owner)
  <2>1. node.owner \in Owner
    BY DEF SettingsInv, Owned
  <2>2. <<node.owner>> \in Seq(Owner)
    BY <2>1, SingleIsSeq
  <2>3. <<>> \in Seq(Owner)
    BY EmptySeq
  <2> QED
    BY <2>2, <2>3
<1> SUFFICES ASSUME NEW o \in SplitOutcome PROVE o.posts \in Seq(Owner)
  OBVIOUS
<1>3. PICK own \in {<<>>, <<node.owner>>}, invocation \in PostOfFrames :
           o = [result |-> "split", posts |-> own \o invocation]
  BY DEF SplitOutcome
<1>4. own \o invocation \in Seq(Owner)
  BY <1>1, <1>2, ConcatProperties
<1> QED
  BY <1>3, <1>4

\* A step returns a node of the workflow it belongs to.
LEMMA StepKeepsOwner ==
    ASSUME SettingsInv, RunStep
    PROVE  SettingsInv'
<1>1. CASE Finish("failure")
  BY <1>1, FinishKeepsNesting DEF RunStep
<1>2. CASE ~Finish("failure")
  <2>1. /\ UNCHANGED <<settings, frames>> /\ node'.owner = node.owner /\ LoopRuns
        /\ entry' = [entry EXCEPT !.path = IF @ = "entering" THEN "stepping" ELSE @]
    BY <1>2 DEF RunStep
  <2>2. entry'.by = entry.by /\ entry'.next = entry.next
    BY <2>1
  <2>3. outcome'.posts \in Seq(Owner)
    <3>1. outcome' = outcome \/ outcome'.posts = <<>> \/ outcome' \in SplitOutcome
      BY <1>2 DEF RunStep, Running
    <3>2. outcome.posts \in Seq(Owner) /\ <<>> \in Seq(Owner)
      BY DEF SettingsInv, Owned
    <3> QED
      BY <3>1, <3>2, SplitsHaveOwners
  <2> QED
    BY <2>1, <2>2, <2>3, NestingUntouched
<1> QED
  BY <1>1, <1>2

\* An invoked workflow replaces every setting of its caller, and the frame
\* keeps the caller's.
LEMMA InvokeKeepsOwner ==
    ASSUME SettingsInv, Invoke
    PROVE  SettingsInv'
<1>1. CASE Finish("failure")
  BY <1>1, FinishKeepsNesting DEF Invoke
<1>2. ASSUME NEW w \in Workflow, NEW post \in BOOLEAN,
             frames' = Append(frames, [settings |-> settings, post |-> post,
                                       invoked |-> w, caller |-> node.owner]),
             settings' = [s \in Setting |-> w],
             node' \in [kind : Kinds, owner : {w}],
             entry' = [entry EXCEPT !.path = IF @ = "entering" THEN @ ELSE "left"],
             UNCHANGED outcome
      PROVE  SettingsInv'
  <2> DEFINE frame == [settings |-> settings, post |-> post, invoked |-> w, caller |-> node.owner]
             n == Len(frames)
  <2>1. frame \in Saved /\ frames \in Seq(Saved) /\ n \in Nat
    BY DEF SettingsInv, Saved, Owned
  <2>9. entry'.by = entry.by /\ entry'.next = entry.next
    BY <1>2
  <2>2. /\ frames' \in Seq(Saved) /\ Len(frames') = n + 1 /\ frames'[n + 1] = frame
        /\ \A d \in 1..n : frames'[d] = frames[d]
    BY <1>2, <2>1
  <2>3. LoopRuns
    BY DEF Invoke
  <2>4. /\ frame.caller = OwnerAt(n)
        /\ \A s \in Setting : frame.settings[s] = SettingAt(n, s)
    BY <2>3 DEF SettingsInv, TopOwns
  <2>5. \A d \in 0..n : /\ OwnerAt(d)' = OwnerAt(d)
                        /\ \A s \in Setting : SettingAt(d, s)' = SettingAt(d, s)
    BY <2>1, <2>2, <2>9 DEF OwnerAt, SettingAt
  <2>6. FramesNest'
    <3> SUFFICES ASSUME NEW d \in 1..(n + 1)
                 PROVE  /\ frames'[d].caller = OwnerAt(d - 1)'
                        /\ \A s \in Setting : frames'[d].settings[s] = SettingAt(d - 1, s)'
      BY <2>2 DEF FramesNest
    <3>1. d - 1 \in 0..n
      BY <2>1
    <3>2. CASE d = n + 1
      <4>1. d - 1 = n
        BY <3>2, <2>1
      <4> QED
        BY <4>1, <3>1, <3>2, <2>2, <2>4, <2>5
    <3>3. CASE d \in 1..n
      <4>1. /\ frames[d].caller = OwnerAt(d - 1)
            /\ \A s \in Setting : frames[d].settings[s] = SettingAt(d - 1, s)
        BY <3>3 DEF SettingsInv, FramesNest
      <4> QED
        BY <4>1, <3>1, <3>3, <2>2, <2>5
    <3> QED
      BY <3>2, <3>3, <2>1
  <2>7. TopOwns'
    BY <1>2, <2>1, <2>2 DEF TopOwns, OwnerAt, SettingAt
  <2>8. settings' \in [Setting -> Source] /\ Owned'
    BY <1>2, <2>9 DEF Source, Owner, Owned, SettingsInv
  <2> QED
    BY <2>2, <2>6, <2>7, <2>8 DEF SettingsInv
<1> QED
  BY <1>1, <1>2 DEF Invoke

\* The innermost frame gives its caller's settings back, under which the
\* caller's post makes the next node.
LEMMA PopKeepsOwner ==
    ASSUME SettingsInv, PopDone
    PROVE  SettingsInv'
<1>1. CASE Finish("success") \/ Finish("failure")
  BY <1>1, FinishKeepsNesting DEF PopDone
<1>2. CASE ~(Finish("success") \/ Finish("failure"))
  <2>0. PICK n \in Nat : n = Len(frames)
    BY DEF SettingsInv
  <2> DEFINE frame == frames[n]
  <2>1. /\ frames # <<>> /\ frames' = SubSeq(frames, 1, n - 1)
        /\ settings' = frame.settings /\ entry' = [entry EXCEPT !.path = "left"]
        /\ \/ node'.owner = frame.caller /\ UNCHANGED outcome
           \/ node' = node /\ ~LoopRuns' /\ outcome'.posts = <<>>
    BY <1>2, <2>0 DEF PopDone, Running, LoopRuns
  <2>10. entry'.by = entry.by /\ entry'.next = entry.next
    BY <2>1
  <2>2. frames \in Seq(Saved) /\ n \in 1..n
    BY <2>0, <2>1 DEF SettingsInv
  <2>3. \A d \in 1..n : frames[d] \in Saved
    BY <2>0, <2>2
  <2>4. /\ frames' \in Seq(Saved) /\ Len(frames') = n - 1
        /\ \A d \in 1..(n - 1) : frames'[d] = frames[d]
    <3>1. n - 1 \in Int /\ \A d \in 1..(n - 1) : frames[d] \in Saved
      BY <2>3
    <3> QED
      BY <3>1, <2>1, <2>2, SubSeqProperties
  <2>5. \A d \in 0..(n - 1) : /\ OwnerAt(d)' = OwnerAt(d)
                              /\ \A s \in Setting : SettingAt(d, s)' = SettingAt(d, s)
    BY <2>2, <2>4, <2>10 DEF OwnerAt, SettingAt
  <2>6. \A d \in 1..n : /\ frames[d].caller = OwnerAt(d - 1)
                        /\ \A s \in Setting : frames[d].settings[s] = SettingAt(d - 1, s)
    BY <2>0 DEF SettingsInv, FramesNest
  <2>7. FramesNest'
    <3> SUFFICES ASSUME NEW d \in 1..(n - 1)
                 PROVE  /\ frames'[d].caller = OwnerAt(d - 1)'
                        /\ \A s \in Setting : frames'[d].settings[s] = SettingAt(d - 1, s)'
      BY <2>4 DEF FramesNest
    <3>1. d \in 1..n /\ d - 1 \in 0..(n - 1)
      BY <2>2
    <3> QED
      BY <3>1, <2>4, <2>5, <2>6
  <2>8. TopOwns'
    <3>1. n - 1 \in 0..(n - 1)
      BY <2>2
    <3>2. /\ frame.caller = OwnerAt(n - 1)'
          /\ \A s \in Setting : frame.settings[s] = SettingAt(n - 1, s)'
      BY <3>1, <2>2, <2>5, <2>6
    <3> QED
      BY <3>2, <2>1, <2>4 DEF TopOwns
  <2>9. settings' \in [Setting -> Source] /\ Owned'
    <3>1. frame \in Saved
      BY <2>2, <2>3
    <3>2. settings' \in [Setting -> Source] /\ frame.caller \in Owner
      BY <3>1, <2>1 DEF Saved
    <3>3. Owned
      BY DEF SettingsInv
    <3>4. node'.owner \in Owner
      BY <3>2, <3>3, <2>1 DEF Owned
    <3>5. outcome'.posts \in Seq(Owner)
      <4>1. outcome' = outcome \/ outcome'.posts = <<>>
        BY <2>1
      <4> QED
        BY <4>1, <3>3, EmptySeq DEF Owned
    <3> QED
      BY <3>2, <3>3, <3>4, <3>5, <2>10 DEF Owned
  <2> QED
    BY <2>4, <2>7, <2>8, <2>9 DEF SettingsInv
<1> QED
  BY <1>1, <1>2

\* A loop that a split, a post or a continue leads to begins anew.
LEMMA NextLoopNests ==
    ASSUME SettingsInv, StartChild \/ StartPost \/ ContinueParked
    PROVE  SettingsInv'
<1>1. CASE StartChild
  <2>1. PICK kind : StartLoop(Loop(kind, node.owner, "entering", <<>>), Branchlike, 0, FALSE)
    BY <1>1 DEF StartChild
  <2>2. node.owner \in Owner /\ <<>> \in Seq(Owner)
    BY DEF SettingsInv, Owned
  <2> QED
    BY <2>1, <2>2, LoopStartsNested DEF Loop
<1>2. CASE StartPost
  <2> DEFINE posts == IF outcome.result = "split" THEN outcome.posts ELSE entry.next
             loop == Loop("nested", Head(posts), "entering", Tail(posts))
  <2>1. posts \in Seq(Owner) /\ posts # <<>> /\ StartLoop(loop, Kinds, 0, FALSE)
    BY <1>2 DEF StartPost, SettingsInv, Owned
  <2>2. Head(posts) \in Owner /\ Tail(posts) \in Seq(Owner)
    BY <2>1
  <2>3. loop.by \in Owner /\ loop.next \in Seq(Owner)
    BY <2>2 DEF Loop
  <2> QED
    BY <2>1, <2>3, LoopStartsNested
<1>3. CASE ContinueParked
  <2>1. Root \in Owner /\ node.owner \in Owner /\ <<>> \in Seq(Owner)
    BY DEF SettingsInv, Owned, Owner
  <2>2. ASSUME NEW count, StartLoop(Loop("replayed", Root, "stepping", <<>>), {"step"}, count, TRUE)
        PROVE  SettingsInv'
    BY <2>1, <2>2, LoopStartsNested DEF Loop
  <2>3. ASSUME StartLoop(Loop("branch", node.owner, "stepping", <<>>), {"step"}, 0, TRUE)
        PROVE  SettingsInv'
    BY <2>1, <2>3, LoopStartsNested DEF Loop
  <2> QED
    BY <1>3, <2>2, <2>3 DEF ContinueParked
<1> QED
  BY <1>1, <1>2, <1>3

\* Every step keeps the settings in force and the saved ones those of the nesting.
THEOREM SettingsInductive == SettingsInv /\ [CLNext]_clVars => SettingsInv'
<1> SUFFICES ASSUME SettingsInv, [CLNext]_clVars
             PROVE  SettingsInv'
  OBVIOUS
<1>1. CASE RequestCancel \/ UNCHANGED clVars
  <2>1. UNCHANGED <<settings, frames, node, entry, outcome>>
    BY <1>1 DEF RequestCancel, clVars
  <2> QED
    BY <2>1, NestingUntouched DEF SettingsInv, Owned, LoopRuns
<1>2. CASE StopCancelled \/ StopFail \/ StopAbsolute \/ StopUnknown
  BY <1>2, FinishKeepsNesting DEF StopCancelled, StopFail, StopAbsolute, StopUnknown
<1>3. CASE StopSplit
  <2>1. /\ UNCHANGED <<settings, frames, node, entry>> /\ LoopRuns
        /\ outcome'.posts \in Seq(Owner)
    BY <1>3, SplitsHaveOwners DEF StopSplit
  <2> QED
    BY <2>1, NestingUntouched
<1>4. CASE PopDone
  BY <1>4, PopKeepsOwner
<1>5. CASE Invoke
  BY <1>5, InvokeKeepsOwner
<1>6. CASE RunStep
  BY <1>6, StepKeepsOwner
<1>7. CASE StartChild \/ StartPost \/ ContinueParked
  BY <1>7, NextLoopNests
<1> QED
  BY <1>1, <1>2, <1>3, <1>4, <1>5, <1>6, <1>7 DEF CLNext

\* Inside an invocation a node runs under the settings of the invoked workflow,
\* and once the outermost one is done under those of the run, for any set of
\* workflows, any depth of invocation and any chain of loops.
THEOREM SettingsAreNested == CLSpec => []SettingsNest
<1>1. CLInit => SettingsInv
  <2> SUFFICES ASSUME CLInit PROVE SettingsInv
    OBVIOUS
  <2>1. /\ frames = <<>> /\ settings = RunSettings /\ node.owner = Root
        /\ entry.by = Root /\ entry.next = <<>> /\ outcome.posts = <<>>
    BY DEF CLInit, Loop, Running
  <2> QED
    BY <2>1, RunSettingsType DEF SettingsInv, Owned, Owner, FramesNest, TopOwns, OwnerAt, SettingAt
<1>2. SettingsInv => SettingsNest
  <2> SUFFICES ASSUME SettingsInv, LoopRuns
               PROVE  IF frames = <<>> THEN settings = RunSettings /\ node.owner = entry.by
                      ELSE \A s \in Setting : settings[s] = node.owner
    BY DEF SettingsNest
  <2>1. /\ frames \in Seq(Saved) /\ settings \in [Setting -> Source]
        /\ node.owner = OwnerAt(Len(frames))
        /\ \A s \in Setting : settings[s] = SettingAt(Len(frames), s)
    BY DEF SettingsInv, TopOwns
  <2>2. CASE frames = <<>>
    <3>1. node.owner = entry.by /\ \A s \in Setting : settings[s] = RunSettings[s]
      BY <2>1, <2>2 DEF OwnerAt, SettingAt
    <3> QED
      BY <3>1, <2>1, <2>2, RunSettingsType
  <2>3. CASE frames # <<>>
    <3>1. Len(frames) # 0
      BY <2>1, <2>3
    <3> QED
      BY <3>1, <2>1, <2>3 DEF OwnerAt, SettingAt
  <2> QED
    BY <2>2, <2>3
<1> QED
  BY <1>1, <1>2, SettingsInductive, PTL DEF CLSpec

=============================================================================
