------------------------ MODULE TrackSchedulerProofs ------------------------
(***************************************************************************)
(* The safety properties of the parallel-track scheduler, for every number  *)
(* of branches, workers, splits, caps and faults, and the refinement of    *)
(* Track.  All of them follow from one inductive invariant, Inv: one lemma  *)
(* for each of its parts, with one step per action of the scheduler, shows  *)
(* that every step preserves it, given the parts it rests on.              *)
(***************************************************************************)
EXTENDS TrackScheduler, FiniteSetTheorems, WellFoundedInduction, TLAPS

\* A set of natural numbers that is not empty has a least element.
LEMMA LeastExists ==
  ASSUME NEW S \in SUBSET Nat, S # {}
  PROVE  \E m \in S : \A n \in S : m <= n
<1> DEFINE R == OpToRel(<, Nat)
<1>1. PICK m \in S : \A n \in S : <<n, m>> \notin R
  <2>1. IsWellFoundedOn(R, Nat)
    BY NatLessThanWellFounded
  <2> QED BY <2>1, WFMin
<1>2. \A n \in S : ~(n < m)
  BY <1>1 DEF OpToRel
<1> QED BY <1>2

\* The plans a continuation can return are well formed: a cap is positive.
LEMMA PlansTyped ==
  ASSUME NEW s \in SplitPlan
  PROVE  s \in PlanType
<1>1. PICK w \in Fanouts :
        s \in [width : {w}, cap : CapsFor(w), policy : Policies, posts : 0 .. MaxPosts]
  BY DEF SplitPlan
<1>2. w \in Nat /\ CapsFor(w) \subseteq Nat \ {0}
  <2>1. w \in Nat
    BY SchedulerAssumption
  <2> SUFFICES ASSUME NEW c \in CapsFor(w) PROVE c \in Nat \ {0}
    BY <2>1
  <2>2. c \in Caps \/ (w = 0 /\ c = 1) \/ (w # 0 /\ c = w)
    BY DEF CapsFor
  <2>3. Caps \subseteq Nat \ {0}
    BY SchedulerAssumption
  <2>4. CASE c \in Caps
    BY <2>3, <2>4
  <2>5. CASE w = 0 /\ c = 1
    BY <2>5
  <2>6. CASE w # 0 /\ c = w
    BY <2>1, <2>6
  <2> QED BY <2>2, <2>4, <2>5, <2>6
<1>3. Policies \subseteq {"fail-fast", "all-settled"} /\ 0 .. MaxPosts \subseteq 0 .. 2
  BY SchedulerAssumption
<1>4. /\ s = [width |-> s.width, cap |-> s.cap, policy |-> s.policy, posts |-> s.posts]
      /\ s.width \in Nat /\ s.cap \in Nat \ {0}
      /\ s.policy \in {"fail-fast", "all-settled"} /\ s.posts \in 0 .. 2
  BY <1>1, <1>2, <1>3
<1>5. [width |-> s.width, cap |-> s.cap, policy |-> s.policy, posts |-> s.posts] \in PlanType
  BY <1>4 DEF PlanType
<1> QED BY <1>4, <1>5

\* The initial states, after the root is enqueued, satisfy the invariant.
LEMMA Initially == Init => Inv
<1> SUFFICES ASSUME Init PROVE Inv
  OBVIOUS
<1> USE SchedulerAssumption DEF Init, Branch, NoBranch
<1>1. created \in 1 .. MaxBranches
  OBVIOUS
<1>2. TypeOK
  <2>1. /\ status \in [Branch -> BranchStatus] /\ pc \in [Branch -> Place]
        /\ parent \in [Branch -> Branch \cup {NoBranch}] /\ isPost \in [Branch -> BOOLEAN]
        /\ groupActive \in [Branch -> Nat]
    BY DEF BranchStatus, Place
  <2>2. plan \in [Branch -> PlanType]
    <3>1. NoPlan \in PlanType
      BY DEF NoPlan, PlanType
    <3> QED BY <3>1
  <2>3. joins \in [JoinId -> {"none", "pending", "posting", "posted", "dropped"}]
    OBVIOUS
  <2>4. /\ queue \subseteq Branch /\ recorded \subseteq Branch /\ faults \in 0 .. MaxFaults
        /\ terminal \in Verdict
    BY <1>1 DEF Verdict
  <2> QED BY <1>1, <2>1, <2>2, <2>3, <2>4 DEF TypeOK
<1>3. UnbornBlank /\ QueueMatches /\ PlaceMatches
  BY <1>1 DEF UnbornBlank, QueueMatches, PlaceMatches
<1>4. /\ FamilyTree /\ JoinsOwned /\ PostingAlone
      /\ RecordedSettled /\ AnswerMatches
  BY <1>1 DEF FamilyTree, JoinsOwned, PostingAlone, RecordedSettled, AnswerMatches
<1>5. PoolBounded /\ GroupsCapped
  <2>1. BusyBranches = {} /\ \A g \in Branch : BusyIn(g) = {}
    BY DEF BusyBranches, BusyIn, Busy, Working
  <2>2. PoolBounded
    BY <2>1, FS_EmptySet DEF PoolBounded
  <2>3. \A g \in Branch : groupActive[g] = 0 /\ plan[g].cap = 1
    BY DEF NoPlan
  <2>4. ASSUME NEW g \in Branch
        PROVE  groupActive[g] = Cardinality(BusyIn(g)) /\ groupActive[g] <= plan[g].cap
    <3>1. Cardinality(BusyIn(g)) = 0
      BY <2>1, FS_EmptySet
    <3> QED BY <2>3, <3>1
  <2> QED BY <2>2, <2>4 DEF GroupsCapped
<1>6. DecidedTrackIsClosed /\ JoinedAfterSettlement
  BY DEF DecidedTrackIsClosed, Decided, JoinedAfterSettlement, JoinId
<1> QED BY <1>2, <1>3, <1>4, <1>5, <1>6 DEF Inv

\* What Enqueue does, branch by branch.
Enqueued(n, p, post) ==
  /\ created' = created + n /\ created' \in created .. MaxBranches
  /\ \A c \in Branch :
       IF created < c /\ c <= created'
       THEN /\ parent'[c] = p /\ isPost'[c] = post
            /\ status'[c] = IF terminal = "none" THEN "queued" ELSE "cancelled"
       ELSE parent'[c] = parent[c] /\ isPost'[c] = isPost[c] /\ status'[c] = status[c]
  /\ queue' = IF terminal = "none" THEN queue \cup (created + 1 .. created') ELSE queue

\* Enqueue does to each branch what Enqueued says.
LEMMA Enqueues ==
  ASSUME created \in 1 .. MaxBranches, NEW n \in Nat, NEW p, NEW post, Enqueue(n, p, post)
  PROVE  Enqueued(n, p, post)
<1> USE SchedulerAssumption DEF Branch
<1>1. created' = created + n /\ created' \in created .. MaxBranches
  BY DEF Enqueue
<1>2. \A c \in Branch : c \in created + 1 .. created + n <=> created < c /\ c <= created'
  BY <1>1
<1>3. \A c \in Branch : parent'[c] = IF created < c /\ c <= created' THEN p ELSE parent[c]
  BY <1>2 DEF Enqueue
<1>4. \A c \in Branch : isPost'[c] = IF created < c /\ c <= created' THEN post ELSE isPost[c]
  BY <1>2 DEF Enqueue
<1>5. \A c \in Branch :
        status'[c] = IF ~(created < c /\ c <= created') THEN status[c]
                     ELSE IF terminal = "none" THEN "queued" ELSE "cancelled"
  BY <1>2 DEF Enqueue
<1>6. queue' = IF terminal = "none" THEN queue \cup (created + 1 .. created') ELSE queue
  BY <1>1 DEF Enqueue
<1> HIDE DEF Branch
<1> QED BY <1>1, <1>3, <1>4, <1>5, <1>6 DEF Enqueued

StateTypes ==
  /\ created \in 1 .. MaxBranches
  /\ status \in [Branch -> BranchStatus]
  /\ parent \in [Branch -> Branch \cup {NoBranch}]
  /\ isPost \in [Branch -> BOOLEAN]
  /\ plan \in [Branch -> PlanType]
  /\ queue \subseteq Branch
  /\ joins \in [JoinId -> {"none", "pending", "posting", "posted", "dropped"}]
  /\ recorded \subseteq Branch
  /\ pc \in [Branch -> Place]
  /\ scheduling \in BOOLEAN
  /\ terminal \in Verdict
  /\ terminalBranch \in Branch \cup {NoBranch}
  /\ promise \in {"pending", "resolved", "rejected"}
  /\ result \in {"none", "completed", "success", "failure", "waiting", "cancelled"}
  /\ cancelRequested \in BOOLEAN
  /\ faults \in 0 .. MaxFaults

\* Enqueue keeps the types of the variables it changes.
LEMMA EnqueuesTyped ==
  ASSUME StateTypes, NEW n \in Nat, NEW p \in Branch \cup {NoBranch}, NEW post \in BOOLEAN,
         Enqueue(n, p, post)
  PROVE  /\ created' \in 1 .. MaxBranches
         /\ status' \in [Branch -> BranchStatus]
         /\ parent' \in [Branch -> Branch \cup {NoBranch}]
         /\ isPost' \in [Branch -> BOOLEAN]
         /\ queue' \subseteq Branch
<1> USE SchedulerAssumption DEF StateTypes
<1>1. created' \in 1 .. MaxBranches /\ created' = created + n
  BY DEF Enqueue
<1>2. status' \in [Branch -> BranchStatus]
  BY DEF Enqueue, BranchStatus
<1>3. parent' \in [Branch -> Branch \cup {NoBranch}]
  BY DEF Enqueue
<1>4. isPost' \in [Branch -> BOOLEAN]
  BY DEF Enqueue
<1>5. created + 1 .. created + n \subseteq Branch
  BY <1>1 DEF Branch
<1>6. queue' \subseteq Branch
  BY <1>5 DEF Enqueue
<1> QED BY <1>1, <1>2, <1>3, <1>4, <1>6

\* Every step keeps the types, counters aside.
LEMMA Types ==
  ASSUME StateTypes, [Next]_vars
  PROVE  StateTypes'
<1> USE SchedulerAssumption DEF StateTypes, branchVars, workerVars, trackVars, outerVars,
        BranchStatus, Place, Verdict
<1>1. ASSUME NEW b \in Branch, Dispatch(b) PROVE StateTypes'
  BY <1>1 DEF Dispatch
<1>2. ASSUME EndTurn PROVE StateTypes'
  BY <1>2 DEF EndTurn
<1>3. ASSUME NEW b \in Branch, BeginContinuation(b) PROVE StateTypes'
  BY <1>3 DEF BeginContinuation, At
<1>4. ASSUME NEW b \in Branch, OutcomeDropped(b) PROVE StateTypes'
  BY <1>4 DEF OutcomeDropped
<1>5. ASSUME NEW b \in Branch, NEW st \in {"done", "failed"}, OutcomeSettled(b, st)
      PROVE  StateTypes'
  BY ZenonT(60), <1>5 DEF OutcomeSettled, At, SettleJoin
<1>6. ASSUME NEW b \in Branch, NEW v \in Verdict \ {"none"}, OutcomeTerminal(b, v)
      PROVE  StateTypes'
  BY <1>6 DEF OutcomeTerminal, Terminalize, CancelOpen, DecidingStatus
<1>7. ASSUME NEW b \in Branch, OutcomeSplitRefused(b) PROVE StateTypes'
  BY <1>7 DEF OutcomeSplitRefused, At
<1>8. ASSUME NEW b \in Branch, NEW s \in SplitPlan, OutcomeSplit(b, s) PROVE StateTypes'
  BY <1>8, PlansTyped DEF OutcomeSplit, At
<1>9. ASSUME NEW b \in Branch, RefusedSplitFails(b) PROVE StateTypes'
  BY <1>9 DEF RefusedSplitFails, At, Terminalize, CancelOpen
<1>10. ASSUME NEW b \in Branch, SplitChildren(b) PROVE StateTypes'
  <2>1. plan[b].width \in Nat /\ Enqueue(plan[b].width, b, FALSE)
    BY <1>10 DEF SplitChildren, PlanType
  <2>2. joins' \in [JoinId -> {"none", "pending", "posting", "posted", "dropped"}]
    BY <1>10 DEF SplitChildren
  <2>3. /\ pc' \in [Branch -> Place] /\ UNCHANGED <<plan, recorded, workerVars, trackVars, outerVars,
                 cancelRequested, faults>>
    BY <1>10 DEF SplitChildren
  <2> QED BY ZenonT(60), <2>1, <2>2, <2>3, EnqueuesTyped
<1>11. ASSUME NEW b \in Branch, SplitAbandoned(b) PROVE StateTypes'
  BY <1>11 DEF SplitAbandoned, At
<1>12. ASSUME NEW b \in Branch, PostReturns(b) PROVE StateTypes'
  <2>1. Enqueue(1, parent[b], TRUE)
    BY <1>12 DEF PostReturns
  <2>2. joins' \in [JoinId -> {"none", "pending", "posting", "posted", "dropped"}]
    BY <1>12 DEF PostReturns
  <2>3. /\ pc' \in [Branch -> Place] /\ UNCHANGED <<plan, recorded, workerVars, trackVars, outerVars,
                 cancelRequested, faults>>
    BY <1>12 DEF PostReturns
  <2> QED BY ZenonT(60), <2>1, <2>2, <2>3, EnqueuesTyped
<1>13. ASSUME NEW b \in Branch, PostThrows(b) PROVE StateTypes'
  BY <1>13 DEF PostThrows, At, Terminalize, CancelOpen
<1>14. ASSUME NEW b \in Branch, RejectTrack(b) PROVE StateTypes'
  BY <1>14 DEF RejectTrack, At
<1>15. ASSUME NEW b \in Branch, WorkerExits(b) PROVE StateTypes'
  BY <1>15 DEF WorkerExits
<1>16. ASSUME TrackReturns PROVE StateTypes'
  BY <1>16 DEF TrackReturns, CancelOpen, PublicResult
<1>17. ASSUME NEW b \in Branch, WorkerThrows(b) PROVE StateTypes'
  BY <1>17 DEF WorkerThrows, Terminalize, CancelOpen
<1>18. ASSUME RequestCancel PROVE StateTypes'
  BY <1>18 DEF RequestCancel
<1>19. ASSUME Over \/ UNCHANGED vars PROVE StateTypes'
  BY <1>19 DEF Over, vars
<1> QED
  BY <1>1, <1>2, <1>3, <1>4, <1>5, <1>6, <1>7, <1>8, <1>9, <1>10, <1>11, <1>12, <1>13,
     <1>14, <1>15, <1>16, <1>17, <1>18, <1>19
     DEF Next, Turn, WorkerStep, Outcome

\* What Terminalize does, branch by branch: b is the branch that decides and
\* own its status; DecidedAll is the case in which no branch is kept.
DecidedAt(b, own, v) ==
  /\ status'[b] = own
  /\ \/ /\ terminal = "none" /\ terminal' = v /\ v = "waiting" /\ queue' = queue
        /\ \A c \in Branch \ {b} : status'[c] = status[c]
     \/ /\ terminal = "none" /\ terminal' = v /\ v # "waiting" /\ queue' = {}
        /\ \A c \in Branch \ {b} :
             status'[c] = IF status[c] \in {"queued", "running", "waiting", "split"}
                          THEN "cancelled" ELSE status[c]
     \/ /\ terminal # "none" /\ terminal' = terminal /\ queue' = queue
        /\ \A c \in Branch \ {b} : status'[c] = status[c]

DecidedAll ==
  \/ /\ terminal = "none" /\ terminal' = "failure" /\ queue' = {}
     /\ \A c \in Branch :
          status'[c] = IF status[c] \in {"queued", "running", "waiting", "split"}
                       THEN "cancelled" ELSE status[c]
  \/ /\ terminal # "none" /\ terminal' = terminal /\ queue' = queue
     /\ status' = status

\* terminalizeTrack by a branch: the first verdict cancels its open siblings.
LEMMA DecidesAt ==
  ASSUME StateTypes, NEW b \in Branch, NEW own \in BranchStatus, NEW v \in Verdict \ {"none"},
         Terminalize([status EXCEPT ![b] = own], v, b)
  PROVE  DecidedAt(b, own, v)
BY DEF DecidedAt, StateTypes, Terminalize, CancelOpen, IsOpen, TerminalStatus, BranchStatus,
   trackVars

\* terminalizeTrack without a branch of its own.
LEMMA DecidesAll ==
  ASSUME StateTypes, Terminalize(status, "failure", NoBranch)
  PROVE  DecidedAll
<1>1. \A c \in Branch : c # NoBranch
  BY SchedulerAssumption DEF Branch, NoBranch
<1> QED
  BY <1>1 DEF DecidedAll, StateTypes, Terminalize, CancelOpen, IsOpen, TerminalStatus,
     BranchStatus, trackVars

\* The join that counts a branch is a join.
LEMMA JoinTyped ==
  ASSUME StateTypes, NEW b \in Branch
  PROVE  JoinOf(b) \in JoinId
BY DEF StateTypes, JoinOf, JoinId

\* A worker that awaits a post continuation has a parent, past its split.
LEMMA PostingChild ==
  ASSUME StateTypes, UnbornBlank, FamilyTree, JoinsOwned, PostingAlone,
         NEW b \in Branch, pc[b] = "posting"
  PROVE  /\ joins[JoinOf(b)] = "posting"
         /\ parent[b] \in 1 .. created /\ parent[b] < b /\ pc[parent[b]] \in Past
         /\ b <= created
<1>1. joins[JoinOf(b)] = "posting"
  BY DEF PostingAlone
<1>2. JoinOf(b)[1] \in 1 .. created
  BY <1>1, JoinTyped DEF JoinsOwned
<1>3. parent[b] # NoBranch
  <2>1. CASE isPost[b]
    BY <2>1 DEF FamilyTree
  <2>2. CASE ~isPost[b]
    BY <1>2, <2>2 DEF JoinOf, NoBranch
  <2> QED BY <2>1, <2>2
<1>4. b <= created
  BY SchedulerAssumption DEF UnbornBlank, StateTypes, Branch
<1> QED
  BY <1>1, <1>3, <1>4, SchedulerAssumption DEF FamilyTree, StateTypes, Branch, NoBranch

\* Only Enqueue brings branches to life.
LEMMA UnbornKept ==
  ASSUME StateTypes, UnbornBlank, QueueMatches, FamilyTree, PostingAlone, [Next]_vars
  PROVE  UnbornBlank'
<1> USE SchedulerAssumption DEF StateTypes, branchVars, workerVars, trackVars, outerVars,
        Decided, Branch, NoBranch, UnbornBlank, QueueMatches
<1>1. ASSUME NEW b \in Branch, Dispatch(b) PROVE UnbornBlank'
  BY <1>1 DEF Dispatch, CanDispatch
<1>2. ASSUME EndTurn PROVE UnbornBlank'
  BY <1>2 DEF EndTurn, CanDispatch
<1>3. ASSUME NEW b \in Branch, BeginContinuation(b) PROVE UnbornBlank'
  BY <1>3 DEF BeginContinuation, At
<1>4. ASSUME NEW b \in Branch, OutcomeDropped(b) PROVE UnbornBlank'
  BY <1>4 DEF OutcomeDropped, IsOpen
<1>5. ASSUME NEW b \in Branch, NEW st \in {"done", "failed"}, OutcomeSettled(b, st)
      PROVE  UnbornBlank'
  BY <1>5 DEF OutcomeSettled, At, SettleJoin
<1>6. ASSUME NEW b \in Branch, NEW v \in Verdict \ {"none"}, OutcomeTerminal(b, v)
      PROVE  UnbornBlank'
  <2>1. DecidingStatus[v] \in {"failed", "done", "waiting", "cancelled"}
    BY DEF DecidingStatus, Verdict
  <2>2. DecidedAt(b, DecidingStatus[v], v)
    <3>1. DecidingStatus[v] \in BranchStatus
      BY <2>1 DEF BranchStatus
    <3>2. Terminalize([status EXCEPT ![b] = DecidingStatus[v]], v, b)
      BY <1>6 DEF OutcomeTerminal
    <3> QED BY <3>1, <3>2, DecidesAt
  <2> QED BY <1>6, <2>1, <2>2 DEF OutcomeTerminal, DecidedAt
<1>7. ASSUME NEW b \in Branch, OutcomeSplitRefused(b) PROVE UnbornBlank'
  BY <1>7 DEF OutcomeSplitRefused, At
<1>8. ASSUME NEW b \in Branch, NEW s \in SplitPlan, OutcomeSplit(b, s) PROVE UnbornBlank'
  BY <1>8 DEF OutcomeSplit, At
<1>9. ASSUME NEW b \in Branch, RefusedSplitFails(b) PROVE UnbornBlank'
  <2>1. DecidedAll
    BY <1>9, DecidesAll DEF RefusedSplitFails
  <2> QED BY <1>9, <2>1 DEF RefusedSplitFails, At, DecidedAll
<1>10. ASSUME NEW b \in Branch, SplitChildren(b) PROVE UnbornBlank'
  <2>1. plan[b].width \in Nat /\ Enqueue(plan[b].width, b, FALSE)
    BY <1>10 DEF SplitChildren, PlanType
  <2>2. Enqueued(plan[b].width, b, FALSE)
    BY <2>1, Enqueues
  <2> QED BY <1>10, <2>1, <2>2 DEF Enqueued, SplitChildren, At
<1>11. ASSUME NEW b \in Branch, SplitAbandoned(b) PROVE UnbornBlank'
  BY <1>11 DEF SplitAbandoned, At
<1>12. ASSUME NEW b \in Branch, PostReturns(b) PROVE UnbornBlank'
  <2>1. Enqueue(1, parent[b], TRUE)
    BY <1>12 DEF PostReturns
  <2>2. Enqueued(1, parent[b], TRUE)
    BY <2>1, Enqueues
  <2> QED BY <1>12, <2>2 DEF Enqueued, PostReturns, At
<1>13. ASSUME NEW b \in Branch, PostThrows(b) PROVE UnbornBlank'
  <2>1. DecidedAll
    BY <1>13, DecidesAll DEF PostThrows
  <2> QED BY <1>13, <2>1 DEF PostThrows, At, DecidedAll
<1>14. ASSUME NEW b \in Branch, RejectTrack(b) PROVE UnbornBlank'
  BY <1>14 DEF RejectTrack, At
<1>15. ASSUME NEW b \in Branch, WorkerExits(b) PROVE UnbornBlank'
  BY <1>15 DEF WorkerExits
<1>16. ASSUME TrackReturns PROVE UnbornBlank'
  BY <1>16 DEF TrackReturns, CancelOpen, IsOpen, PublicResult
<1>17. ASSUME NEW b \in Branch, WorkerThrows(b) PROVE UnbornBlank'
  <2>1. DecidedAt(b, "failed", "failure")
    BY <1>17, DecidesAt DEF WorkerThrows, BranchStatus, Verdict
  <2> QED BY <1>17, <2>1 DEF WorkerThrows, DecidedAt
<1>18. ASSUME RequestCancel PROVE UnbornBlank'
  BY <1>18 DEF RequestCancel
<1>19. ASSUME Over \/ UNCHANGED vars PROVE UnbornBlank'
  BY <1>19 DEF Over, vars
<1> HIDE DEF UnbornBlank
<1> QED
  BY <1>1, <1>2, <1>3, <1>4, <1>5, <1>6, <1>7, <1>8, <1>9, <1>10, <1>11, <1>12, <1>13,
     <1>14, <1>15, <1>16, <1>17, <1>18, <1>19
     DEF Next, Turn, WorkerStep, Outcome

\* The queue and the status "queued" change together.
LEMMA QueueKept ==
  ASSUME StateTypes, UnbornBlank, QueueMatches, PlaceMatches, DecidedTrackIsClosed, [Next]_vars
  PROVE  QueueMatches'
<1> USE SchedulerAssumption DEF StateTypes, branchVars, workerVars, trackVars, outerVars,
        Decided, Branch, NoBranch, UnbornBlank, QueueMatches, PlaceMatches,
        DecidedTrackIsClosed, TerminalStatus
<1>1. ASSUME NEW b \in Branch, Dispatch(b) PROVE QueueMatches'
  BY <1>1 DEF Dispatch, CanDispatch
<1>2. ASSUME EndTurn PROVE QueueMatches'
  BY <1>2 DEF EndTurn, CanDispatch
<1>3. ASSUME NEW b \in Branch, BeginContinuation(b) PROVE QueueMatches'
  BY <1>3 DEF BeginContinuation, At
<1>4. ASSUME NEW b \in Branch, OutcomeDropped(b) PROVE QueueMatches'
  BY <1>4 DEF OutcomeDropped, IsOpen
<1>5. ASSUME NEW b \in Branch, NEW st \in {"done", "failed"}, OutcomeSettled(b, st)
      PROVE  QueueMatches'
  BY <1>5 DEF OutcomeSettled, At, SettleJoin
<1>6. ASSUME NEW b \in Branch, NEW v \in Verdict \ {"none"}, OutcomeTerminal(b, v)
      PROVE  QueueMatches'
  <2>1. DecidingStatus[v] \in {"failed", "done", "waiting", "cancelled"}
    BY DEF DecidingStatus, Verdict
  <2>2. DecidedAt(b, DecidingStatus[v], v)
    <3>1. DecidingStatus[v] \in BranchStatus
      BY <2>1 DEF BranchStatus
    <3>2. Terminalize([status EXCEPT ![b] = DecidingStatus[v]], v, b)
      BY <1>6 DEF OutcomeTerminal
    <3> QED BY <3>1, <3>2, DecidesAt
  <2> QED BY <1>6, <2>1, <2>2 DEF OutcomeTerminal, DecidedAt
<1>7. ASSUME NEW b \in Branch, OutcomeSplitRefused(b) PROVE QueueMatches'
  BY <1>7 DEF OutcomeSplitRefused, At
<1>8. ASSUME NEW b \in Branch, NEW s \in SplitPlan, OutcomeSplit(b, s) PROVE QueueMatches'
  BY <1>8 DEF OutcomeSplit, At
<1>9. ASSUME NEW b \in Branch, RefusedSplitFails(b) PROVE QueueMatches'
  <2>1. DecidedAll
    BY <1>9, DecidesAll DEF RefusedSplitFails
  <2> QED BY <1>9, <2>1 DEF RefusedSplitFails, At, DecidedAll
<1>10. ASSUME NEW b \in Branch, SplitChildren(b) PROVE QueueMatches'
  <2>1. plan[b].width \in Nat /\ Enqueue(plan[b].width, b, FALSE)
    BY <1>10 DEF SplitChildren, PlanType
  <2>2. Enqueued(plan[b].width, b, FALSE)
    BY <2>1, Enqueues
  <2> QED BY <1>10, <2>1, <2>2 DEF Enqueued, SplitChildren, At
<1>11. ASSUME NEW b \in Branch, SplitAbandoned(b) PROVE QueueMatches'
  BY <1>11 DEF SplitAbandoned, At
<1>12. ASSUME NEW b \in Branch, PostReturns(b) PROVE QueueMatches'
  <2>1. Enqueue(1, parent[b], TRUE)
    BY <1>12 DEF PostReturns
  <2>2. Enqueued(1, parent[b], TRUE)
    BY <2>1, Enqueues
  <2> QED BY <1>12, <2>2 DEF Enqueued, PostReturns, At
<1>13. ASSUME NEW b \in Branch, PostThrows(b) PROVE QueueMatches'
  <2>1. DecidedAll
    BY <1>13, DecidesAll DEF PostThrows
  <2> QED BY <1>13, <2>1 DEF PostThrows, At, DecidedAll
<1>14. ASSUME NEW b \in Branch, RejectTrack(b) PROVE QueueMatches'
  BY <1>14 DEF RejectTrack, At
<1>15. ASSUME NEW b \in Branch, WorkerExits(b) PROVE QueueMatches'
  BY <1>15 DEF WorkerExits
<1>16. ASSUME TrackReturns PROVE QueueMatches'
  BY <1>16 DEF TrackReturns, CancelOpen, IsOpen, PublicResult
<1>17. ASSUME NEW b \in Branch, WorkerThrows(b) PROVE QueueMatches'
  <2>1. DecidedAt(b, "failed", "failure")
    BY <1>17, DecidesAt DEF WorkerThrows, BranchStatus, Verdict
  <2> QED BY <1>17, <2>1 DEF WorkerThrows, DecidedAt
<1>18. ASSUME RequestCancel PROVE QueueMatches'
  BY <1>18 DEF RequestCancel
<1>19. ASSUME Over \/ UNCHANGED vars PROVE QueueMatches'
  BY <1>19 DEF Over, vars
<1> HIDE DEF QueueMatches
<1> QED
  BY <1>1, <1>2, <1>3, <1>4, <1>5, <1>6, <1>7, <1>8, <1>9, <1>10, <1>11, <1>12, <1>13,
     <1>14, <1>15, <1>16, <1>17, <1>18, <1>19
     DEF Next, Turn, WorkerStep, Outcome

\* A verdict closes every branch and nothing opens one afterwards.
LEMMA ClosedKept ==
  ASSUME StateTypes, UnbornBlank, QueueMatches, PlaceMatches, DecidedTrackIsClosed, [Next]_vars
  PROVE  DecidedTrackIsClosed'
<1> USE SchedulerAssumption DEF StateTypes, branchVars, workerVars, trackVars, outerVars,
        Decided, Branch, NoBranch, DecidedTrackIsClosed, TerminalStatus
<1>1. ASSUME NEW b \in Branch, Dispatch(b) PROVE DecidedTrackIsClosed'
  BY <1>1 DEF Dispatch, CanDispatch
<1>2. ASSUME EndTurn PROVE DecidedTrackIsClosed'
  BY <1>2 DEF EndTurn, CanDispatch
<1>3. ASSUME NEW b \in Branch, BeginContinuation(b) PROVE DecidedTrackIsClosed'
  BY <1>3 DEF BeginContinuation, At
<1>4. ASSUME NEW b \in Branch, OutcomeDropped(b) PROVE DecidedTrackIsClosed'
  BY <1>4 DEF OutcomeDropped, IsOpen
<1>5. ASSUME NEW b \in Branch, NEW st \in {"done", "failed"}, OutcomeSettled(b, st)
      PROVE  DecidedTrackIsClosed'
  BY <1>5 DEF OutcomeSettled, At, SettleJoin
<1>6. ASSUME NEW b \in Branch, NEW v \in Verdict \ {"none"}, OutcomeTerminal(b, v)
      PROVE  DecidedTrackIsClosed'
  <2>a. \A c \in 1 .. created : status[c] \in {"queued", "running", "waiting", "split", "done", "failed", "cancelled"}
    BY DEF UnbornBlank, BranchStatus
  <2>b. created' = created /\ 1 .. created \subseteq Branch
    BY <1>6 DEF OutcomeTerminal
  <2> HIDE DEF StateTypes
  <2>1. DecidingStatus[v] \in {"failed", "done", "waiting", "cancelled"}
        /\ (v # "waiting" => DecidingStatus[v] # "waiting")
    BY DEF DecidingStatus, Verdict
  <2>2. DecidedAt(b, DecidingStatus[v], v)
    <3>1. DecidingStatus[v] \in BranchStatus
      BY <2>1 DEF BranchStatus
    <3>2. Terminalize([status EXCEPT ![b] = DecidingStatus[v]], v, b)
      BY <1>6 DEF OutcomeTerminal
    <3> QED BY <3>1, <3>2, DecidesAt
  <2> QED BY <1>6, <2>a, <2>b, <2>1, <2>2 DEF OutcomeTerminal, DecidedAt
<1>7. ASSUME NEW b \in Branch, OutcomeSplitRefused(b) PROVE DecidedTrackIsClosed'
  BY <1>7 DEF OutcomeSplitRefused, At
<1>8. ASSUME NEW b \in Branch, NEW s \in SplitPlan, OutcomeSplit(b, s)
      PROVE  DecidedTrackIsClosed'
  BY <1>8 DEF OutcomeSplit, At
<1>9. ASSUME NEW b \in Branch, RefusedSplitFails(b) PROVE DecidedTrackIsClosed'
  <2>a. \A c \in 1 .. created : status[c] \in {"queued", "running", "waiting", "split", "done", "failed", "cancelled"}
    BY DEF UnbornBlank, BranchStatus
  <2>b. created' = created /\ 1 .. created \subseteq Branch
    BY <1>9 DEF RefusedSplitFails
  <2> HIDE DEF StateTypes
  <2>1. DecidedAll
    BY <1>9, DecidesAll DEF RefusedSplitFails
  <2> QED BY <1>9, <2>a, <2>b, <2>1 DEF RefusedSplitFails, At, DecidedAll
<1>10. ASSUME NEW b \in Branch, SplitChildren(b) PROVE DecidedTrackIsClosed'
  <2>1. plan[b].width \in Nat /\ Enqueue(plan[b].width, b, FALSE)
    BY <1>10 DEF SplitChildren, PlanType
  <2>2. Enqueued(plan[b].width, b, FALSE)
    BY <2>1, Enqueues
  <2> QED BY <1>10, <2>1, <2>2 DEF Enqueued, SplitChildren, At
<1>11. ASSUME NEW b \in Branch, SplitAbandoned(b) PROVE DecidedTrackIsClosed'
  BY <1>11 DEF SplitAbandoned, At
<1>12. ASSUME NEW b \in Branch, PostReturns(b) PROVE DecidedTrackIsClosed'
  <2>1. Enqueue(1, parent[b], TRUE)
    BY <1>12 DEF PostReturns
  <2>2. Enqueued(1, parent[b], TRUE)
    BY <2>1, Enqueues
  <2> QED BY <1>12, <2>2 DEF Enqueued, PostReturns, At
<1>13. ASSUME NEW b \in Branch, PostThrows(b) PROVE DecidedTrackIsClosed'
  <2>a. \A c \in 1 .. created : status[c] \in {"queued", "running", "waiting", "split", "done", "failed", "cancelled"}
    BY DEF UnbornBlank, BranchStatus
  <2>b. created' = created /\ 1 .. created \subseteq Branch
    BY <1>13 DEF PostThrows
  <2> HIDE DEF StateTypes
  <2>1. DecidedAll
    BY <1>13, DecidesAll DEF PostThrows
  <2> QED BY <1>13, <2>a, <2>b, <2>1 DEF PostThrows, At, DecidedAll
<1>14. ASSUME NEW b \in Branch, RejectTrack(b) PROVE DecidedTrackIsClosed'
  BY <1>14 DEF RejectTrack, At
<1>15. ASSUME NEW b \in Branch, WorkerExits(b) PROVE DecidedTrackIsClosed'
  BY <1>15 DEF WorkerExits
<1>16. ASSUME TrackReturns PROVE DecidedTrackIsClosed'
  BY <1>16 DEF TrackReturns, CancelOpen, IsOpen, PublicResult
<1>17. ASSUME NEW b \in Branch, WorkerThrows(b) PROVE DecidedTrackIsClosed'
  <2>a. \A c \in 1 .. created : status[c] \in {"queued", "running", "waiting", "split", "done", "failed", "cancelled"}
    BY DEF UnbornBlank, BranchStatus
  <2>b. created' = created /\ 1 .. created \subseteq Branch
    BY <1>17 DEF WorkerThrows
  <2> HIDE DEF StateTypes
  <2>1. DecidedAt(b, "failed", "failure")
    BY <1>17, DecidesAt DEF WorkerThrows, BranchStatus, Verdict
  <2> QED BY <1>17, <2>a, <2>b, <2>1 DEF WorkerThrows, DecidedAt
<1>18. ASSUME RequestCancel PROVE DecidedTrackIsClosed'
  BY <1>18 DEF RequestCancel
<1>19. ASSUME Over \/ UNCHANGED vars PROVE DecidedTrackIsClosed'
  BY <1>19 DEF Over, vars
<1> HIDE DEF DecidedTrackIsClosed
<1> QED
  BY <1>1, <1>2, <1>3, <1>4, <1>5, <1>6, <1>7, <1>8, <1>9, <1>10, <1>11, <1>12, <1>13,
     <1>14, <1>15, <1>16, <1>17, <1>18, <1>19
     DEF Next, Turn, WorkerStep, Outcome

\* A join is registered once its split is made.
LEMMA OwnersKept ==
  ASSUME StateTypes, UnbornBlank, QueueMatches, FamilyTree, JoinsOwned, PostingAlone,
         [Next]_vars
  PROVE  JoinsOwned'
<1> USE SchedulerAssumption DEF StateTypes, branchVars, workerVars, trackVars, outerVars,
        Decided, Branch, NoBranch, UnbornBlank, JoinsOwned, Past
<1>1. ASSUME NEW b \in Branch, Dispatch(b) PROVE JoinsOwned'
  <2>1. pc[b] = "idle"
    BY <1>1 DEF Dispatch, CanDispatch, QueueMatches
  <2> QED BY <1>1, <2>1 DEF Dispatch
<1>2. ASSUME EndTurn PROVE JoinsOwned'
  BY <1>2 DEF EndTurn, CanDispatch
<1>3. ASSUME NEW b \in Branch, BeginContinuation(b) PROVE JoinsOwned'
  BY <1>3 DEF BeginContinuation, At
<1>4. ASSUME NEW b \in Branch, OutcomeDropped(b) PROVE JoinsOwned'
  BY <1>4 DEF OutcomeDropped, IsOpen
<1>5. ASSUME NEW b \in Branch, NEW st \in {"done", "failed"}, OutcomeSettled(b, st)
      PROVE  JoinsOwned'
  BY <1>5 DEF OutcomeSettled, At, SettleJoin
<1>6. ASSUME NEW b \in Branch, NEW v \in Verdict \ {"none"}, OutcomeTerminal(b, v)
      PROVE  JoinsOwned'
  <2>1. DecidingStatus[v] \in {"failed", "done", "waiting", "cancelled"}
    BY DEF DecidingStatus, Verdict
  <2>2. DecidedAt(b, DecidingStatus[v], v)
    <3>1. DecidingStatus[v] \in BranchStatus
      BY <2>1 DEF BranchStatus
    <3>2. Terminalize([status EXCEPT ![b] = DecidingStatus[v]], v, b)
      BY <1>6 DEF OutcomeTerminal
    <3> QED BY <3>1, <3>2, DecidesAt
  <2> QED BY <1>6, <2>1, <2>2 DEF OutcomeTerminal, DecidedAt
<1>7. ASSUME NEW b \in Branch, OutcomeSplitRefused(b) PROVE JoinsOwned'
  BY <1>7 DEF OutcomeSplitRefused, At
<1>8. ASSUME NEW b \in Branch, NEW s \in SplitPlan, OutcomeSplit(b, s) PROVE JoinsOwned'
  BY <1>8 DEF OutcomeSplit, At
<1>9. ASSUME NEW b \in Branch, RefusedSplitFails(b) PROVE JoinsOwned'
  <2>1. DecidedAll
    BY <1>9, DecidesAll DEF RefusedSplitFails
  <2> QED BY <1>9, <2>1 DEF RefusedSplitFails, At, DecidedAll
<1>10. ASSUME NEW b \in Branch, SplitChildren(b) PROVE JoinsOwned'
  <2>1. plan[b].width \in Nat /\ Enqueue(plan[b].width, b, FALSE)
    BY <1>10 DEF SplitChildren, PlanType
  <2>2. Enqueued(plan[b].width, b, FALSE)
    BY <2>1, Enqueues
  <2> QED BY <1>10, <2>1, <2>2 DEF Enqueued, SplitChildren, At
<1>11. ASSUME NEW b \in Branch, SplitAbandoned(b) PROVE JoinsOwned'
  BY <1>11 DEF SplitAbandoned, At
<1>12. ASSUME NEW b \in Branch, PostReturns(b) PROVE JoinsOwned'
  <2>1. Enqueue(1, parent[b], TRUE)
    BY <1>12 DEF PostReturns
  <2>2. Enqueued(1, parent[b], TRUE)
    BY <2>1, Enqueues
  <2>3. joins[JoinOf(b)] = "posting" /\ JoinOf(b) \in JoinId
    BY <1>12, PostingChild, JoinTyped DEF PostReturns, At
  <2>4. \A j \in JoinId : joins'[j] # "none" => joins[j] # "none" \/ j = <<created + 1, "after">>
    BY <1>12, <2>3 DEF PostReturns
  <2>5. pc' = [pc EXCEPT ![b] = "unwinding"]
    BY <1>12 DEF PostReturns
  <2> QED BY <2>2, <2>4, <2>5 DEF Enqueued
<1>13. ASSUME NEW b \in Branch, PostThrows(b) PROVE JoinsOwned'
  <2>1. joins[JoinOf(b)] = "posting" /\ JoinOf(b) \in JoinId
    BY <1>13, PostingChild, JoinTyped DEF PostThrows, At
  <2> QED BY <1>13, <2>1 DEF PostThrows, At
<1>14. ASSUME NEW b \in Branch, RejectTrack(b) PROVE JoinsOwned'
  BY <1>14 DEF RejectTrack, At
<1>15. ASSUME NEW b \in Branch, WorkerExits(b) PROVE JoinsOwned'
  BY <1>15 DEF WorkerExits
<1>16. ASSUME TrackReturns PROVE JoinsOwned'
  BY <1>16 DEF TrackReturns, CancelOpen, IsOpen, PublicResult
<1>17. ASSUME NEW b \in Branch, WorkerThrows(b) PROVE JoinsOwned'
  <2>1. DecidedAt(b, "failed", "failure")
    BY <1>17, DecidesAt DEF WorkerThrows, BranchStatus, Verdict
  <2> QED BY <1>17, <2>1 DEF WorkerThrows, DecidedAt
<1>18. ASSUME RequestCancel PROVE JoinsOwned'
  BY <1>18 DEF RequestCancel
<1>19. ASSUME Over \/ UNCHANGED vars PROVE JoinsOwned'
  BY <1>19 DEF Over, vars
<1> HIDE DEF JoinsOwned
<1> QED
  BY <1>1, <1>2, <1>3, <1>4, <1>5, <1>6, <1>7, <1>8, <1>9, <1>10, <1>11, <1>12, <1>13,
     <1>14, <1>15, <1>16, <1>17, <1>18, <1>19
     DEF Next, Turn, WorkerStep, Outcome

\* Children are born of a worker that is past its split.
LEMMA FamilyKept ==
  ASSUME StateTypes, UnbornBlank, QueueMatches, FamilyTree, JoinsOwned, PostingAlone,
         [Next]_vars
  PROVE  FamilyTree'
<1> USE SchedulerAssumption DEF StateTypes, branchVars, workerVars, trackVars, outerVars,
        Decided, Branch, NoBranch, UnbornBlank, FamilyTree, Past
<1>1. ASSUME NEW b \in Branch, Dispatch(b) PROVE FamilyTree'
  <2>1. pc[b] = "idle"
    BY <1>1 DEF Dispatch, CanDispatch, QueueMatches
  <2> QED BY <1>1, <2>1 DEF Dispatch
<1>2. ASSUME EndTurn PROVE FamilyTree'
  BY <1>2 DEF EndTurn, CanDispatch
<1>3. ASSUME NEW b \in Branch, BeginContinuation(b) PROVE FamilyTree'
  BY <1>3 DEF BeginContinuation, At
<1>4. ASSUME NEW b \in Branch, OutcomeDropped(b) PROVE FamilyTree'
  BY <1>4 DEF OutcomeDropped, IsOpen
<1>5. ASSUME NEW b \in Branch, NEW st \in {"done", "failed"}, OutcomeSettled(b, st)
      PROVE  FamilyTree'
  BY <1>5 DEF OutcomeSettled, At, SettleJoin
<1>6. ASSUME NEW b \in Branch, NEW v \in Verdict \ {"none"}, OutcomeTerminal(b, v)
      PROVE  FamilyTree'
  <2>1. DecidingStatus[v] \in {"failed", "done", "waiting", "cancelled"}
    BY DEF DecidingStatus, Verdict
  <2>2. DecidedAt(b, DecidingStatus[v], v)
    <3>1. DecidingStatus[v] \in BranchStatus
      BY <2>1 DEF BranchStatus
    <3>2. Terminalize([status EXCEPT ![b] = DecidingStatus[v]], v, b)
      BY <1>6 DEF OutcomeTerminal
    <3> QED BY <3>1, <3>2, DecidesAt
  <2> QED BY <1>6, <2>1, <2>2 DEF OutcomeTerminal, DecidedAt
<1>7. ASSUME NEW b \in Branch, OutcomeSplitRefused(b) PROVE FamilyTree'
  BY <1>7 DEF OutcomeSplitRefused, At
<1>8. ASSUME NEW b \in Branch, NEW s \in SplitPlan, OutcomeSplit(b, s) PROVE FamilyTree'
  BY <1>8 DEF OutcomeSplit, At
<1>9. ASSUME NEW b \in Branch, RefusedSplitFails(b) PROVE FamilyTree'
  <2>1. DecidedAll
    BY <1>9, DecidesAll DEF RefusedSplitFails
  <2> QED BY <1>9, <2>1 DEF RefusedSplitFails, At, DecidedAll
<1>10. ASSUME NEW b \in Branch, SplitChildren(b) PROVE FamilyTree'
  <2>1. plan[b].width \in Nat /\ Enqueue(plan[b].width, b, FALSE)
    BY <1>10 DEF SplitChildren, PlanType
  <2>2. Enqueued(plan[b].width, b, FALSE)
    BY <2>1, Enqueues
  <2> QED BY <1>10, <2>1, <2>2 DEF Enqueued, SplitChildren, At
<1>11. ASSUME NEW b \in Branch, SplitAbandoned(b) PROVE FamilyTree'
  BY <1>11 DEF SplitAbandoned, At
<1>12. ASSUME NEW b \in Branch, PostReturns(b) PROVE FamilyTree'
  <2>1. Enqueue(1, parent[b], TRUE)
    BY <1>12 DEF PostReturns
  <2>2. Enqueued(1, parent[b], TRUE)
    BY <2>1, Enqueues
  <2>3. parent[b] \in 1 .. created /\ parent[b] < b /\ pc[parent[b]] \in Past /\ b <= created
    BY <1>12, PostingChild DEF PostReturns, At
  <2>4. pc' = [pc EXCEPT ![b] = "unwinding"]
    BY <1>12 DEF PostReturns
  <2> QED BY SMTT(30), <2>2, <2>3, <2>4 DEF Enqueued
<1>13. ASSUME NEW b \in Branch, PostThrows(b) PROVE FamilyTree'
  <2>1. DecidedAll
    BY <1>13, DecidesAll DEF PostThrows
  <2> QED BY <1>13, <2>1 DEF PostThrows, At, DecidedAll
<1>14. ASSUME NEW b \in Branch, RejectTrack(b) PROVE FamilyTree'
  BY <1>14 DEF RejectTrack, At
<1>15. ASSUME NEW b \in Branch, WorkerExits(b) PROVE FamilyTree'
  BY <1>15 DEF WorkerExits
<1>16. ASSUME TrackReturns PROVE FamilyTree'
  BY <1>16 DEF TrackReturns, CancelOpen, IsOpen, PublicResult
<1>17. ASSUME NEW b \in Branch, WorkerThrows(b) PROVE FamilyTree'
  <2>1. DecidedAt(b, "failed", "failure")
    BY <1>17, DecidesAt DEF WorkerThrows, BranchStatus, Verdict
  <2> QED BY <1>17, <2>1 DEF WorkerThrows, DecidedAt
<1>18. ASSUME RequestCancel PROVE FamilyTree'
  BY <1>18 DEF RequestCancel
<1>19. ASSUME Over \/ UNCHANGED vars PROVE FamilyTree'
  BY <1>19 DEF Over, vars
<1> HIDE DEF FamilyTree
<1> QED
  BY <1>1, <1>2, <1>3, <1>4, <1>5, <1>6, <1>7, <1>8, <1>9, <1>10, <1>11, <1>12, <1>13,
     <1>14, <1>15, <1>16, <1>17, <1>18, <1>19
     DEF Next, Turn, WorkerStep, Outcome

\* What no step changes: who the branches are, and the plan of a made split.
Framed ==
  /\ created' \in created .. MaxBranches
  /\ \A c \in 1 .. created : parent'[c] = parent[c] /\ isPost'[c] = isPost[c]
  /\ \A p \in Branch : pc[p] \in Past => plan'[p] = plan[p]

\* No step changes who a branch is or the plan of a split that was made.
LEMMA Frame ==
  ASSUME StateTypes, [Next]_vars
  PROVE  Framed
<1> USE SchedulerAssumption DEF StateTypes, branchVars, workerVars, trackVars, outerVars,
        Decided, Branch, NoBranch, Framed, Past
<1>1. ASSUME NEW b \in Branch, Dispatch(b) PROVE Framed
  BY <1>1 DEF Dispatch, CanDispatch
<1>2. ASSUME EndTurn PROVE Framed
  BY <1>2 DEF EndTurn, CanDispatch
<1>3. ASSUME NEW b \in Branch, BeginContinuation(b) PROVE Framed
  BY <1>3 DEF BeginContinuation, At
<1>4. ASSUME NEW b \in Branch, OutcomeDropped(b) PROVE Framed
  BY <1>4 DEF OutcomeDropped, IsOpen
<1>5. ASSUME NEW b \in Branch, NEW st \in {"done", "failed"}, OutcomeSettled(b, st) PROVE Framed
  BY <1>5 DEF OutcomeSettled, At, SettleJoin
<1>6. ASSUME NEW b \in Branch, NEW v \in Verdict \ {"none"}, OutcomeTerminal(b, v) PROVE Framed
  <2>1. DecidingStatus[v] \in {"failed", "done", "waiting", "cancelled"}
    BY DEF DecidingStatus, Verdict
  <2>2. DecidedAt(b, DecidingStatus[v], v)
    <3>1. DecidingStatus[v] \in BranchStatus
      BY <2>1 DEF BranchStatus
    <3>2. Terminalize([status EXCEPT ![b] = DecidingStatus[v]], v, b)
      BY <1>6 DEF OutcomeTerminal
    <3> QED BY <3>1, <3>2, DecidesAt
  <2> QED BY <1>6, <2>1, <2>2 DEF OutcomeTerminal, DecidedAt
<1>7. ASSUME NEW b \in Branch, OutcomeSplitRefused(b) PROVE Framed
  BY <1>7 DEF OutcomeSplitRefused, At
<1>8. ASSUME NEW b \in Branch, NEW s \in SplitPlan, OutcomeSplit(b, s) PROVE Framed
  BY <1>8 DEF OutcomeSplit, At
<1>9. ASSUME NEW b \in Branch, RefusedSplitFails(b) PROVE Framed
  <2>1. DecidedAll
    BY <1>9, DecidesAll DEF RefusedSplitFails
  <2> QED BY <1>9, <2>1 DEF RefusedSplitFails, At, DecidedAll
<1>10. ASSUME NEW b \in Branch, SplitChildren(b) PROVE Framed
  <2>1. plan[b].width \in Nat /\ Enqueue(plan[b].width, b, FALSE)
    BY <1>10 DEF SplitChildren, PlanType
  <2>2. Enqueued(plan[b].width, b, FALSE)
    BY <2>1, Enqueues
  <2> QED BY <1>10, <2>1, <2>2 DEF Enqueued, SplitChildren, At
<1>11. ASSUME NEW b \in Branch, SplitAbandoned(b) PROVE Framed
  BY <1>11 DEF SplitAbandoned, At
<1>12. ASSUME NEW b \in Branch, PostReturns(b) PROVE Framed
  <2>1. Enqueue(1, parent[b], TRUE)
    BY <1>12 DEF PostReturns
  <2>2. Enqueued(1, parent[b], TRUE)
    BY <2>1, Enqueues
  <2> QED BY <1>12, <2>2 DEF Enqueued, PostReturns, At
<1>13. ASSUME NEW b \in Branch, PostThrows(b) PROVE Framed
  <2>1. DecidedAll
    BY <1>13, DecidesAll DEF PostThrows
  <2> QED BY <1>13, <2>1 DEF PostThrows, At, DecidedAll
<1>14. ASSUME NEW b \in Branch, RejectTrack(b) PROVE Framed
  BY <1>14 DEF RejectTrack, At
<1>15. ASSUME NEW b \in Branch, WorkerExits(b) PROVE Framed
  BY <1>15 DEF WorkerExits
<1>16. ASSUME TrackReturns PROVE Framed
  BY <1>16 DEF TrackReturns, CancelOpen, IsOpen, PublicResult
<1>17. ASSUME NEW b \in Branch, WorkerThrows(b) PROVE Framed
  <2>1. DecidedAt(b, "failed", "failure")
    BY <1>17, DecidesAt DEF WorkerThrows, BranchStatus, Verdict
  <2> QED BY <1>17, <2>1 DEF WorkerThrows, DecidedAt
<1>18. ASSUME RequestCancel PROVE Framed
  BY <1>18 DEF RequestCancel
<1>19. ASSUME Over \/ UNCHANGED vars PROVE Framed
  BY <1>19 DEF Over, vars
<1> HIDE DEF Framed
<1> QED
  BY <1>1, <1>2, <1>3, <1>4, <1>5, <1>6, <1>7, <1>8, <1>9, <1>10, <1>11, <1>12, <1>13,
     <1>14, <1>15, <1>16, <1>17, <1>18, <1>19
     DEF Next, Turn, WorkerStep, Outcome

\* The group, the policy and the join of a branch never change.
LEMMA GroupsKept ==
  ASSUME StateTypes, UnbornBlank, FamilyTree, [Next]_vars, NEW c \in 1 .. created
  PROVE  /\ Group(c)' = Group(c) /\ JoinOf(c)' = JoinOf(c) /\ Policy(c)' = Policy(c)
         /\ Group(c) # NoBranch => Group(c) \in Branch /\ plan'[Group(c)] = plan[Group(c)]
<1>1. parent'[c] = parent[c] /\ isPost'[c] = isPost[c]
  BY Frame DEF Framed
<1>2. Group(c)' = Group(c) /\ JoinOf(c)' = JoinOf(c)
  BY <1>1 DEF Group, JoinOf
<1>3. c \in Branch
  BY SchedulerAssumption DEF StateTypes, Branch
<1>4. ASSUME Group(c) # NoBranch
      PROVE  Group(c) \in Branch /\ plan'[Group(c)] = plan[Group(c)]
  <2>1. Group(c) = parent[c] /\ parent[c] \in Branch
    BY <1>3, <1>4 DEF Group, StateTypes
  <2>2. pc[parent[c]] \in Past
    BY <1>3, <1>4, <2>1 DEF FamilyTree
  <2> QED BY <2>1, <2>2, Frame DEF Framed
<1>5. Policy(c)' = Policy(c)
  BY <1>2, <1>4 DEF Policy
<1> QED BY <1>2, <1>4, <1>5

\* A branch whose status stays is settled after a step if it was before.
LEMMA SettledKept ==
  ASSUME StateTypes, UnbornBlank, FamilyTree, [Next]_vars, NEW c \in 1 .. created,
         status'[c] = status[c]
  PROVE  Settled(c)' = Settled(c)
BY GroupsKept DEF Settled

\* Once the track is decided its final sweep finds nothing to cancel.
LEMMA SweepIsIdle ==
  ASSUME StateTypes, UnbornBlank, DecidedTrackIsClosed, TrackReturns
  PROVE  status' = status /\ queue' = queue
<1>1. CASE Decided
  <2>1. \A c \in Branch : status[c] \in TerminalStatus \cup {"absent"}
    BY <1>1, SchedulerAssumption
       DEF StateTypes, UnbornBlank, DecidedTrackIsClosed, Branch
  <2>2. CancelOpen(status, terminalBranch) = status
    BY <2>1 DEF CancelOpen, IsOpen, StateTypes
  <2> QED BY <1>1, <2>2 DEF TrackReturns, DecidedTrackIsClosed
<1>2. CASE ~Decided
  BY <1>2 DEF TrackReturns
<1> QED BY <1>1, <1>2

\* The place of a worker keeps telling the status of its branch.
LEMMA PlaceKept ==
  ASSUME StateTypes, UnbornBlank, FamilyTree, QueueMatches, PlaceMatches,
         DecidedTrackIsClosed, [Next]_vars
  PROVE  PlaceMatches'
<1> USE SchedulerAssumption DEF StateTypes, branchVars, workerVars, trackVars, outerVars,
        Decided, Branch, NoBranch, PlaceMatches
<1>a. \A c \in Branch : c > created => pc[c] = "idle" /\ status[c] = "absent"
  BY DEF UnbornBlank
<1>b. \A c \in Branch : c <= created /\ status'[c] = status[c] => Settled(c)' = Settled(c)
  BY SettledKept
<1>1. ASSUME NEW b \in Branch, Dispatch(b) PROVE PlaceMatches'
  <2>1. pc[b] = "idle" /\ status[b] = "queued"
    BY <1>1, <1>a, <1>b DEF Dispatch, CanDispatch, QueueMatches
  <2> QED BY <1>1, <1>a, <1>b, <2>1 DEF Dispatch
<1>2. ASSUME EndTurn PROVE PlaceMatches'
  BY <1>2, <1>a, <1>b DEF EndTurn, CanDispatch
<1>3. ASSUME NEW b \in Branch, BeginContinuation(b) PROVE PlaceMatches'
  BY <1>3, <1>a, <1>b DEF BeginContinuation, At
<1>4. ASSUME NEW b \in Branch, OutcomeDropped(b) PROVE PlaceMatches'
  BY <1>4, <1>a, <1>b DEF OutcomeDropped, IsOpen
<1>5. ASSUME NEW b \in Branch, NEW st \in {"done", "failed"}, OutcomeSettled(b, st)
      PROVE  PlaceMatches'
  <2>1. b \in 1 .. created
    BY <1>5, <1>a, <1>b DEF OutcomeSettled, At
  <2>2. Policy(b)' = Policy(b)
    BY <2>1, GroupsKept
  <2>3. Settled(b)'
    BY <1>5, <1>a, <1>b, <2>2 DEF OutcomeSettled, Settled
  <2>4. /\ pc'[b] \in {"posting", "unwinding"} /\ status'[b] \in {"done", "failed"}
        /\ \A c \in Branch \ {b} : pc'[c] = pc[c] /\ status'[c] = status[c]
        /\ UNCHANGED <<created, terminal, faults>>
    BY <1>5, <1>a, <1>b DEF OutcomeSettled, SettleJoin
  <2> QED BY SMTT(30), <1>a, <1>b, <2>3, <2>4
<1>6. ASSUME NEW b \in Branch, NEW v \in Verdict \ {"none"}, OutcomeTerminal(b, v)
      PROVE  PlaceMatches'
  <2>1. DecidingStatus[v] \in {"failed", "done", "waiting", "cancelled"}
    BY DEF DecidingStatus, Verdict
  <2>2. DecidedAt(b, DecidingStatus[v], v)
    <3>1. DecidingStatus[v] \in BranchStatus
      BY <2>1 DEF BranchStatus
    <3>2. Terminalize([status EXCEPT ![b] = DecidingStatus[v]], v, b)
      BY <1>6, <1>a, <1>b DEF OutcomeTerminal
    <3> QED BY <3>1, <3>2, DecidesAt
  <2> QED BY SMTT(30), <1>6, <1>a, <1>b, <2>1, <2>2 DEF OutcomeTerminal, DecidedAt
<1>7. ASSUME NEW b \in Branch, OutcomeSplitRefused(b) PROVE PlaceMatches'
  BY <1>7, <1>a, <1>b DEF OutcomeSplitRefused, At
<1>8. ASSUME NEW b \in Branch, NEW s \in SplitPlan, OutcomeSplit(b, s) PROVE PlaceMatches'
  <2>1. /\ pc'[b] = "splitting" /\ status'[b] = "split"
        /\ \A c \in Branch \ {b} : pc'[c] = pc[c] /\ status'[c] = status[c]
        /\ UNCHANGED <<created, terminal, faults>>
    BY <1>8, <1>a, <1>b DEF OutcomeSplit
  <2> QED BY <1>a, <1>b, <2>1
<1>9. ASSUME NEW b \in Branch, RefusedSplitFails(b) PROVE PlaceMatches'
  <2>1. DecidedAll
    BY <1>9, <1>a, <1>b, DecidesAll DEF RefusedSplitFails
  <2> QED BY <1>9, <1>a, <1>b, <2>1 DEF RefusedSplitFails, At, DecidedAll
<1>10. ASSUME NEW b \in Branch, SplitChildren(b) PROVE PlaceMatches'
  <2>1. plan[b].width \in Nat /\ Enqueue(plan[b].width, b, FALSE)
    BY <1>10, <1>a, <1>b DEF SplitChildren, PlanType
  <2>2. Enqueued(plan[b].width, b, FALSE)
    BY <2>1, Enqueues
  <2> QED BY <1>10, <1>a, <1>b, <2>1, <2>2 DEF Enqueued, SplitChildren, At
<1>11. ASSUME NEW b \in Branch, SplitAbandoned(b) PROVE PlaceMatches'
  BY <1>11, <1>a, <1>b DEF SplitAbandoned, At
<1>12. ASSUME NEW b \in Branch, PostReturns(b) PROVE PlaceMatches'
  <2>1. Enqueue(1, parent[b], TRUE)
    BY <1>12, <1>a, <1>b DEF PostReturns
  <2>2. Enqueued(1, parent[b], TRUE)
    BY <2>1, Enqueues
  <2> QED BY <1>12, <1>a, <1>b, <2>2 DEF Enqueued, PostReturns, At
<1>13. ASSUME NEW b \in Branch, PostThrows(b) PROVE PlaceMatches'
  <2>1. DecidedAll
    BY <1>13, <1>a, <1>b, DecidesAll DEF PostThrows
  <2> QED BY <1>13, <1>a, <1>b, <2>1 DEF PostThrows, At, DecidedAll
<1>14. ASSUME NEW b \in Branch, RejectTrack(b) PROVE PlaceMatches'
  BY <1>14, <1>a, <1>b DEF RejectTrack, At
<1>15. ASSUME NEW b \in Branch, WorkerExits(b) PROVE PlaceMatches'
  BY <1>15, <1>a, <1>b DEF WorkerExits
<1>16. ASSUME TrackReturns PROVE PlaceMatches'
  <2>1. status' = status
    BY <1>16, <1>a, <1>b, SweepIsIdle
  <2> QED BY <1>16, <1>a, <1>b, <2>1 DEF TrackReturns
<1>17. ASSUME NEW b \in Branch, WorkerThrows(b) PROVE PlaceMatches'
  <2>1. DecidedAt(b, "failed", "failure")
    BY <1>17, <1>a, <1>b, DecidesAt DEF WorkerThrows, BranchStatus, Verdict
  <2>2. /\ pc' = [pc EXCEPT ![b] = "rejecting"] /\ faults' > 0 /\ created' = created
    BY <1>17, <1>a, <1>b DEF WorkerThrows
  <2> QED BY ZenonT(60), <1>a, <1>b, <2>1, <2>2 DEF DecidedAt
<1>18. ASSUME RequestCancel PROVE PlaceMatches'
  BY <1>18, <1>a, <1>b DEF RequestCancel
<1>19. ASSUME Over \/ UNCHANGED vars PROVE PlaceMatches'
  BY <1>19, <1>a, <1>b DEF Over, vars
<1> HIDE DEF PlaceMatches
<1> QED
  BY <1>1, <1>2, <1>3, <1>4, <1>5, <1>6, <1>7, <1>8, <1>9, <1>10, <1>11, <1>12, <1>13,
     <1>14, <1>15, <1>16, <1>17, <1>18, <1>19
     DEF Next, Turn, WorkerStep, Outcome

SettledStaysStep ==
  \A b \in Branch : status[b] \in TerminalStatus =>
    \/ status'[b] = status[b]
    \/ status'[b] = "failed" /\ pc'[b] = "rejecting"

\* No step unsettles a settled branch, unless its own worker throws.
LEMMA SettledStaysLemma ==
  ASSUME StateTypes, UnbornBlank, QueueMatches, PlaceMatches, DecidedTrackIsClosed, [Next]_vars
  PROVE  SettledStaysStep
<1> USE SchedulerAssumption DEF StateTypes, branchVars, workerVars, trackVars, outerVars,
        Decided, Branch, NoBranch, SettledStaysStep, TerminalStatus, PlaceMatches
<1>1. ASSUME NEW b \in Branch, Dispatch(b) PROVE SettledStaysStep
  <2>1. status[b] = "queued"
    BY <1>1 DEF Dispatch, CanDispatch, QueueMatches
  <2> QED BY <1>1, <2>1 DEF Dispatch
<1>2. ASSUME EndTurn PROVE SettledStaysStep
  BY <1>2 DEF EndTurn, CanDispatch
<1>3. ASSUME NEW b \in Branch, BeginContinuation(b) PROVE SettledStaysStep
  BY <1>3 DEF BeginContinuation, At
<1>4. ASSUME NEW b \in Branch, OutcomeDropped(b) PROVE SettledStaysStep
  BY <1>4 DEF OutcomeDropped, IsOpen
<1>5. ASSUME NEW b \in Branch, NEW st \in {"done", "failed"}, OutcomeSettled(b, st)
      PROVE  SettledStaysStep
  BY <1>5 DEF OutcomeSettled, At, SettleJoin
<1>6. ASSUME NEW b \in Branch, NEW v \in Verdict \ {"none"}, OutcomeTerminal(b, v)
      PROVE  SettledStaysStep
  <2>1. DecidingStatus[v] \in {"failed", "done", "waiting", "cancelled"}
    BY DEF DecidingStatus, Verdict
  <2>2. DecidedAt(b, DecidingStatus[v], v)
    <3>1. DecidingStatus[v] \in BranchStatus
      BY <2>1 DEF BranchStatus
    <3>2. Terminalize([status EXCEPT ![b] = DecidingStatus[v]], v, b)
      BY <1>6 DEF OutcomeTerminal
    <3> QED BY <3>1, <3>2, DecidesAt
  <2> QED BY <1>6, <2>1, <2>2 DEF OutcomeTerminal, DecidedAt
<1>7. ASSUME NEW b \in Branch, OutcomeSplitRefused(b) PROVE SettledStaysStep
  BY <1>7 DEF OutcomeSplitRefused, At
<1>8. ASSUME NEW b \in Branch, NEW s \in SplitPlan, OutcomeSplit(b, s) PROVE SettledStaysStep
  BY <1>8 DEF OutcomeSplit, At
<1>9. ASSUME NEW b \in Branch, RefusedSplitFails(b) PROVE SettledStaysStep
  <2>1. DecidedAll
    BY <1>9, DecidesAll DEF RefusedSplitFails
  <2> QED BY <1>9, <2>1 DEF RefusedSplitFails, At, DecidedAll
<1>10. ASSUME NEW b \in Branch, SplitChildren(b) PROVE SettledStaysStep
  <2>1. plan[b].width \in Nat /\ Enqueue(plan[b].width, b, FALSE)
    BY <1>10 DEF SplitChildren, PlanType
  <2>2. Enqueued(plan[b].width, b, FALSE)
    BY <2>1, Enqueues
  <2> QED BY <2>2 DEF Enqueued, UnbornBlank
<1>11. ASSUME NEW b \in Branch, SplitAbandoned(b) PROVE SettledStaysStep
  BY <1>11 DEF SplitAbandoned, At
<1>12. ASSUME NEW b \in Branch, PostReturns(b) PROVE SettledStaysStep
  <2>1. Enqueue(1, parent[b], TRUE)
    BY <1>12 DEF PostReturns
  <2>2. Enqueued(1, parent[b], TRUE)
    BY <2>1, Enqueues
  <2> QED BY <2>2 DEF Enqueued, UnbornBlank
<1>13. ASSUME NEW b \in Branch, PostThrows(b) PROVE SettledStaysStep
  <2>1. DecidedAll
    BY <1>13, DecidesAll DEF PostThrows
  <2> QED BY <1>13, <2>1 DEF PostThrows, At, DecidedAll
<1>14. ASSUME NEW b \in Branch, RejectTrack(b) PROVE SettledStaysStep
  BY <1>14 DEF RejectTrack, At
<1>15. ASSUME NEW b \in Branch, WorkerExits(b) PROVE SettledStaysStep
  BY <1>15 DEF WorkerExits
<1>16. ASSUME TrackReturns PROVE SettledStaysStep
  <2>1. status' = status
    BY <1>16, SweepIsIdle
  <2> QED BY <2>1
<1>17. ASSUME NEW b \in Branch, WorkerThrows(b) PROVE SettledStaysStep
  <2>1. DecidedAt(b, "failed", "failure")
    BY <1>17, DecidesAt DEF WorkerThrows, BranchStatus, Verdict
  <2> QED BY <1>17, <2>1 DEF WorkerThrows, DecidedAt
<1>18. ASSUME RequestCancel PROVE SettledStaysStep
  BY <1>18 DEF RequestCancel
<1>19. ASSUME Over \/ UNCHANGED vars PROVE SettledStaysStep
  BY <1>19 DEF Over, vars
<1> HIDE DEF SettledStaysStep
<1> QED
  BY <1>1, <1>2, <1>3, <1>4, <1>5, <1>6, <1>7, <1>8, <1>9, <1>10, <1>11, <1>12, <1>13,
     <1>14, <1>15, <1>16, <1>17, <1>18, <1>19
     DEF Next, Turn, WorkerStep, Outcome

\* While no verdict is reached, what is settled stays settled.
LEMMA SettledLasts ==
  ASSUME StateTypes, UnbornBlank, FamilyTree, QueueMatches, PlaceMatches, DecidedTrackIsClosed,
         [Next]_vars, terminal' = "none", NEW c \in 1 .. created, Settled(c)
  PROVE  Settled(c)'
<1>1. c \in Branch
  BY SchedulerAssumption DEF StateTypes, Branch
<1>2. pc'[c] # "rejecting"
  BY <1>1, PlaceKept DEF PlaceMatches
<1>3. status[c] \in TerminalStatus
  BY DEF Settled, TerminalStatus
<1>4. status'[c] = status[c]
  BY <1>1, <1>2, <1>3, SettledStaysLemma DEF SettledStaysStep
<1> QED BY <1>4, SettledKept

\* A step after which no new worker awaits a post continuation and no join
\* that one awaits has moved.
PostingShrinks ==
  \A c \in Branch :
    pc'[c] = "posting" => pc[c] = "posting" /\ joins'[JoinOf(c)] = joins[JoinOf(c)]

\* Such a step keeps PostingAlone.
LEMMA PostingShrunk ==
  ASSUME StateTypes, UnbornBlank, FamilyTree, PostingAlone, [Next]_vars, PostingShrinks
  PROVE  PostingAlone'
<1>1. \A c \in Branch : pc'[c] = "posting" =>
        pc[c] = "posting" /\ joins'[JoinOf(c)] = "posting" /\ JoinOf(c)' = JoinOf(c)
  <2>1. \A c \in Branch : pc[c] = "posting" => c \in 1 .. created
    BY SchedulerAssumption DEF UnbornBlank, StateTypes, Branch
  <2> QED BY <2>1, GroupsKept DEF PostingShrinks, PostingAlone
<1>2. Branch' = Branch
  BY DEF Branch
<1>3. \A c \in Branch : pc'[c] = "posting" => joins'[JoinOf(c)'] = "posting"
  BY <1>1
<1>4. \A c, d \in Branch :
        pc'[c] = "posting" /\ pc'[d] = "posting" /\ JoinOf(c)' = JoinOf(d)' => c = d
  BY <1>1 DEF PostingAlone
<1> QED BY <1>3, <1>4 DEF PostingAlone

\* Only the last settlement of a join lets a worker start a post continuation.
LEMMA PostingStep ==
  ASSUME StateTypes, UnbornBlank, FamilyTree, QueueMatches, JoinsOwned, PostingAlone,
         [Next]_vars
  PROVE  PostingShrinks \/ PostingAlone'
<1> USE SchedulerAssumption DEF StateTypes, branchVars, workerVars, trackVars, outerVars,
        Decided, Branch, NoBranch, PostingShrinks
<1>a. \A c \in Branch : c > created => pc[c] = "idle" /\ status[c] = "absent"
  BY DEF UnbornBlank
<1>1. ASSUME NEW b \in Branch, Dispatch(b) PROVE PostingShrinks \/ PostingAlone'
  BY <1>1 DEF Dispatch, CanDispatch
<1>2. ASSUME EndTurn PROVE PostingShrinks \/ PostingAlone'
  BY <1>2 DEF EndTurn, CanDispatch
<1>3. ASSUME NEW b \in Branch, BeginContinuation(b) PROVE PostingShrinks \/ PostingAlone'
  BY <1>3 DEF BeginContinuation, At
<1>4. ASSUME NEW b \in Branch, OutcomeDropped(b) PROVE PostingShrinks \/ PostingAlone'
  BY <1>4 DEF OutcomeDropped, IsOpen
<1>5. ASSUME NEW b \in Branch, NEW st \in {"done", "failed"}, OutcomeSettled(b, st)
      PROVE  PostingShrinks \/ PostingAlone'
  <2> DEFINE j == JoinOf(b)
  <2>1. pc[b] = "stepping" /\ j \in JoinId
    BY <1>5, JoinTyped DEF OutcomeSettled, At
  <2>2. CASE joins' = joins /\ pc' = [pc EXCEPT ![b] = "unwinding"]
    BY <2>2
  <2>3. CASE /\ joins[j] = "pending" /\ joins' = [joins EXCEPT ![j] = "posting"]
             /\ pc' = [pc EXCEPT ![b] = "posting"]
    <3>1. \A c \in Branch : pc'[c] = "posting" =>
            /\ c = b \/ (pc[c] = "posting" /\ JoinOf(c) # j)
            /\ joins'[JoinOf(c)] = "posting"
      BY <2>1, <2>3 DEF PostingAlone
    <3>2. \A c \in Branch : pc'[c] = "posting" => c \in 1 .. created
      BY <1>a, <2>1, <2>3
    <3>3. \A c \in Branch : pc'[c] = "posting" => JoinOf(c)' = JoinOf(c)
      BY <3>2, GroupsKept
    <3>4. \A c, d \in Branch : pc'[c] = "posting" /\ pc'[d] = "posting" /\ JoinOf(c) = JoinOf(d) => c = d
      BY <3>1 DEF PostingAlone
    <3> HIDE DEF Branch, j
    <3>5. PostingAlone'
      BY <3>1, <3>3, <3>4 DEF PostingAlone
    <3> QED BY <3>5
  <2> QED BY <1>5, <2>2, <2>3 DEF OutcomeSettled, SettleJoin
<1>6. ASSUME NEW b \in Branch, NEW v \in Verdict \ {"none"}, OutcomeTerminal(b, v)
      PROVE  PostingShrinks \/ PostingAlone'
  BY <1>6 DEF OutcomeTerminal
<1>7. ASSUME NEW b \in Branch, OutcomeSplitRefused(b) PROVE PostingShrinks \/ PostingAlone'
  BY <1>7 DEF OutcomeSplitRefused, At
<1>8. ASSUME NEW b \in Branch, NEW s \in SplitPlan, OutcomeSplit(b, s)
      PROVE  PostingShrinks \/ PostingAlone'
  BY <1>8 DEF OutcomeSplit, At
<1>9. ASSUME NEW b \in Branch, RefusedSplitFails(b) PROVE PostingShrinks \/ PostingAlone'
  BY <1>9 DEF RefusedSplitFails
<1>10. ASSUME NEW b \in Branch, SplitChildren(b) PROVE PostingShrinks \/ PostingAlone'
  <2>1. joins' = joins \/ joins' = [joins EXCEPT ![<<b, "split">>] = "pending"]
    BY <1>10 DEF SplitChildren
  <2>2. pc[b] = "splitting" /\ pc' = [pc EXCEPT ![b] = "unwinding"]
    BY <1>10 DEF SplitChildren, At
  <2>3. <<b, "split">> \in JoinId
    BY DEF JoinId
  <2>4. joins[<<b, "split">>] = "none"
    BY <2>2, <2>3 DEF JoinsOwned, Past
  <2>5. \A c \in Branch : pc[c] = "posting" => JoinOf(c) # <<b, "split">> /\ JoinOf(c) \in JoinId
    BY <2>4, JoinTyped DEF PostingAlone
  <2> QED BY <2>1, <2>2, <2>5
<1>11. ASSUME NEW b \in Branch, SplitAbandoned(b) PROVE PostingShrinks \/ PostingAlone'
  BY <1>11 DEF SplitAbandoned, At
<1>12. ASSUME NEW b \in Branch, PostReturns(b) PROVE PostingShrinks \/ PostingAlone'
  <2>1. pc[b] = "posting" /\ pc' = [pc EXCEPT ![b] = "unwinding"]
    BY <1>12 DEF PostReturns, At
  <2>2. \A j \in JoinId : joins'[j] = joins[j] \/ j = JoinOf(b) \/ j = <<created + 1, "after">>
    BY <1>12 DEF PostReturns
  <2>3. ASSUME NEW c \in Branch, pc'[c] = "posting"
        PROVE  pc[c] = "posting" /\ joins'[JoinOf(c)] = joins[JoinOf(c)]
    <3>1. pc[c] = "posting" /\ c # b
      BY <2>1, <2>3
    <3>2. JoinOf(c) # JoinOf(b)
      BY <2>1, <3>1 DEF PostingAlone
    <3>3. JoinOf(c) \in JoinId /\ JoinOf(c)[1] \in 1 .. created
      BY <3>1, JoinTyped DEF PostingAlone, JoinsOwned
    <3>4. JoinOf(c) # <<created + 1, "after">>
      BY <3>3
    <3> QED BY <2>2, <3>1, <3>2, <3>3, <3>4
  <2> QED BY <2>3
<1>13. ASSUME NEW b \in Branch, PostThrows(b) PROVE PostingShrinks \/ PostingAlone'
  <2>1. pc[b] = "posting" /\ pc' = [pc EXCEPT ![b] = "unwinding"]
    BY <1>13 DEF PostThrows, At
  <2>2. joins' = [joins EXCEPT ![JoinOf(b)] = "dropped"]
    BY <1>13 DEF PostThrows
  <2>3. \A c \in Branch : pc[c] = "posting" /\ c # b => JoinOf(c) # JoinOf(b)
    BY <2>1 DEF PostingAlone
  <2> QED BY <2>1, <2>2, <2>3
<1>14. ASSUME NEW b \in Branch, RejectTrack(b) PROVE PostingShrinks \/ PostingAlone'
  BY <1>14 DEF RejectTrack, At
<1>15. ASSUME NEW b \in Branch, WorkerExits(b) PROVE PostingShrinks \/ PostingAlone'
  BY <1>15 DEF WorkerExits
<1>16. ASSUME TrackReturns PROVE PostingShrinks \/ PostingAlone'
  <2>1. UNCHANGED <<pc, joins>>
    BY <1>16 DEF TrackReturns
  <2> QED BY <2>1
<1>17. ASSUME NEW b \in Branch, WorkerThrows(b) PROVE PostingShrinks \/ PostingAlone'
  BY <1>17 DEF WorkerThrows
<1>18. ASSUME RequestCancel PROVE PostingShrinks \/ PostingAlone'
  BY <1>18 DEF RequestCancel
<1>19. ASSUME Over \/ UNCHANGED vars PROVE PostingShrinks \/ PostingAlone'
  BY <1>19 DEF Over, vars
<1> HIDE DEF PostingShrinks
<1> QED
  BY <1>1, <1>2, <1>3, <1>4, <1>5, <1>6, <1>7, <1>8, <1>9, <1>10, <1>11, <1>12, <1>13,
     <1>14, <1>15, <1>16, <1>17, <1>18, <1>19
     DEF Next, Turn, WorkerStep, Outcome

\* No join is ever posted by two workers.
LEMMA PostingKept ==
  ASSUME StateTypes, UnbornBlank, FamilyTree, QueueMatches, JoinsOwned, PostingAlone,
         [Next]_vars
  PROVE  PostingAlone'
BY PostingStep, PostingShrunk

\* The first verdict is kept.
VerdictKept == terminal # "none" => terminal' = terminal

\* No step replaces a verdict.
LEMMA FirstVerdictStays ==
  ASSUME StateTypes, [Next]_vars
  PROVE  VerdictKept
<1> USE SchedulerAssumption DEF StateTypes, branchVars, workerVars, trackVars, outerVars,
        Decided, Branch, NoBranch, VerdictKept
<1>1. ASSUME NEW b \in Branch, Dispatch(b) PROVE VerdictKept
  BY <1>1 DEF Dispatch, CanDispatch
<1>2. ASSUME EndTurn PROVE VerdictKept
  BY <1>2 DEF EndTurn, CanDispatch
<1>3. ASSUME NEW b \in Branch, BeginContinuation(b) PROVE VerdictKept
  BY <1>3 DEF BeginContinuation, At
<1>4. ASSUME NEW b \in Branch, OutcomeDropped(b) PROVE VerdictKept
  BY <1>4 DEF OutcomeDropped, IsOpen
<1>5. ASSUME NEW b \in Branch, NEW st \in {"done", "failed"}, OutcomeSettled(b, st)
      PROVE  VerdictKept
  BY <1>5 DEF OutcomeSettled, At, SettleJoin
<1>6. ASSUME NEW b \in Branch, NEW v \in Verdict \ {"none"}, OutcomeTerminal(b, v)
      PROVE  VerdictKept
  <2>1. DecidingStatus[v] \in {"failed", "done", "waiting", "cancelled"}
    BY DEF DecidingStatus, Verdict
  <2>2. DecidedAt(b, DecidingStatus[v], v)
    <3>1. DecidingStatus[v] \in BranchStatus
      BY <2>1 DEF BranchStatus
    <3>2. Terminalize([status EXCEPT ![b] = DecidingStatus[v]], v, b)
      BY <1>6 DEF OutcomeTerminal
    <3> QED BY <3>1, <3>2, DecidesAt
  <2> QED BY <1>6, <2>1, <2>2 DEF OutcomeTerminal, DecidedAt
<1>7. ASSUME NEW b \in Branch, OutcomeSplitRefused(b) PROVE VerdictKept
  BY <1>7 DEF OutcomeSplitRefused, At
<1>8. ASSUME NEW b \in Branch, NEW s \in SplitPlan, OutcomeSplit(b, s) PROVE VerdictKept
  BY <1>8 DEF OutcomeSplit, At
<1>9. ASSUME NEW b \in Branch, RefusedSplitFails(b) PROVE VerdictKept
  <2>1. DecidedAll
    BY <1>9, DecidesAll DEF RefusedSplitFails
  <2> QED BY <1>9, <2>1 DEF RefusedSplitFails, At, DecidedAll
<1>10. ASSUME NEW b \in Branch, SplitChildren(b) PROVE VerdictKept
  BY <1>10 DEF SplitChildren
<1>11. ASSUME NEW b \in Branch, SplitAbandoned(b) PROVE VerdictKept
  BY <1>11 DEF SplitAbandoned, At
<1>12. ASSUME NEW b \in Branch, PostReturns(b) PROVE VerdictKept
  BY <1>12 DEF PostReturns
<1>13. ASSUME NEW b \in Branch, PostThrows(b) PROVE VerdictKept
  <2>1. DecidedAll
    BY <1>13, DecidesAll DEF PostThrows
  <2> QED BY <1>13, <2>1 DEF PostThrows, At, DecidedAll
<1>14. ASSUME NEW b \in Branch, RejectTrack(b) PROVE VerdictKept
  BY <1>14 DEF RejectTrack, At
<1>15. ASSUME NEW b \in Branch, WorkerExits(b) PROVE VerdictKept
  BY <1>15 DEF WorkerExits
<1>16. ASSUME TrackReturns PROVE VerdictKept
  BY <1>16 DEF TrackReturns
<1>17. ASSUME NEW b \in Branch, WorkerThrows(b) PROVE VerdictKept
  <2>1. DecidedAt(b, "failed", "failure")
    BY <1>17, DecidesAt DEF WorkerThrows, BranchStatus, Verdict
  <2> QED BY <1>17, <2>1 DEF WorkerThrows, DecidedAt
<1>18. ASSUME RequestCancel PROVE VerdictKept
  BY <1>18 DEF RequestCancel
<1>19. ASSUME Over \/ UNCHANGED vars PROVE VerdictKept
  BY <1>19 DEF Over, vars
<1> HIDE DEF VerdictKept
<1> QED
  BY <1>1, <1>2, <1>3, <1>4, <1>5, <1>6, <1>7, <1>8, <1>9, <1>10, <1>11, <1>12, <1>13,
     <1>14, <1>15, <1>16, <1>17, <1>18, <1>19
     DEF Next, Turn, WorkerStep, Outcome

RecordedGrows == recorded' \subseteq recorded \cup {c \in 1 .. created : Settled(c)'}

\* What a step records in a join it has settled.
LEMMA RecordedStep ==
  ASSUME StateTypes, UnbornBlank, FamilyTree, [Next]_vars
  PROVE  RecordedGrows
<1> USE SchedulerAssumption DEF StateTypes, branchVars, workerVars, trackVars, outerVars,
        Decided, Branch, NoBranch, RecordedGrows
<1>1. ASSUME NEW b \in Branch, Dispatch(b) PROVE RecordedGrows
  BY <1>1 DEF Dispatch, CanDispatch
<1>2. ASSUME EndTurn PROVE RecordedGrows
  BY <1>2 DEF EndTurn, CanDispatch
<1>3. ASSUME NEW b \in Branch, BeginContinuation(b) PROVE RecordedGrows
  BY <1>3 DEF BeginContinuation, At
<1>4. ASSUME NEW b \in Branch, OutcomeDropped(b) PROVE RecordedGrows
  BY <1>4 DEF OutcomeDropped, IsOpen
<1>5. ASSUME NEW b \in Branch, NEW st \in {"done", "failed"}, OutcomeSettled(b, st)
      PROVE  RecordedGrows
  <2>1. b \in 1 .. created
    BY <1>5 DEF OutcomeSettled, At, UnbornBlank
  <2>2. Policy(b)' = Policy(b)
    BY <2>1, GroupsKept
  <2>3. Settled(b)'
    BY <1>5, <2>2 DEF OutcomeSettled, Settled
  <2>4. recorded' \subseteq recorded \cup {b}
    BY <1>5 DEF OutcomeSettled, SettleJoin
  <2> QED BY <2>1, <2>3, <2>4
<1>6. ASSUME NEW b \in Branch, NEW v \in Verdict \ {"none"}, OutcomeTerminal(b, v)
      PROVE  RecordedGrows
  BY <1>6 DEF OutcomeTerminal
<1>7. ASSUME NEW b \in Branch, OutcomeSplitRefused(b) PROVE RecordedGrows
  BY <1>7 DEF OutcomeSplitRefused, At
<1>8. ASSUME NEW b \in Branch, NEW s \in SplitPlan, OutcomeSplit(b, s) PROVE RecordedGrows
  BY <1>8 DEF OutcomeSplit, At
<1>9. ASSUME NEW b \in Branch, RefusedSplitFails(b) PROVE RecordedGrows
  BY <1>9 DEF RefusedSplitFails
<1>10. ASSUME NEW b \in Branch, SplitChildren(b) PROVE RecordedGrows
  BY <1>10 DEF SplitChildren
<1>11. ASSUME NEW b \in Branch, SplitAbandoned(b) PROVE RecordedGrows
  BY <1>11 DEF SplitAbandoned, At
<1>12. ASSUME NEW b \in Branch, PostReturns(b) PROVE RecordedGrows
  BY <1>12 DEF PostReturns
<1>13. ASSUME NEW b \in Branch, PostThrows(b) PROVE RecordedGrows
  BY <1>13 DEF PostThrows
<1>14. ASSUME NEW b \in Branch, RejectTrack(b) PROVE RecordedGrows
  BY <1>14 DEF RejectTrack, At
<1>15. ASSUME NEW b \in Branch, WorkerExits(b) PROVE RecordedGrows
  BY <1>15 DEF WorkerExits
<1>16. ASSUME TrackReturns PROVE RecordedGrows
  BY <1>16 DEF TrackReturns
<1>17. ASSUME NEW b \in Branch, WorkerThrows(b) PROVE RecordedGrows
  BY <1>17 DEF WorkerThrows
<1>18. ASSUME RequestCancel PROVE RecordedGrows
  BY <1>18 DEF RequestCancel
<1>19. ASSUME Over \/ UNCHANGED vars PROVE RecordedGrows
  BY <1>19 DEF Over, vars
<1> HIDE DEF RecordedGrows
<1> QED
  BY <1>1, <1>2, <1>3, <1>4, <1>5, <1>6, <1>7, <1>8, <1>9, <1>10, <1>11, <1>12, <1>13,
     <1>14, <1>15, <1>16, <1>17, <1>18, <1>19
     DEF Next, Turn, WorkerStep, Outcome

\* Recorded branches stay settled while the track is undecided.
LEMMA RecordedKept ==
  ASSUME StateTypes, UnbornBlank, FamilyTree, QueueMatches, PlaceMatches, DecidedTrackIsClosed,
         RecordedSettled, [Next]_vars
  PROVE  RecordedSettled'
<1> SUFFICES ASSUME terminal' = "none", NEW c \in recorded' PROVE Settled(c)'
  BY DEF RecordedSettled
<1>1. CASE c \in recorded
  <2>1. Settled(c) /\ c \in Branch
    BY <1>1, FirstVerdictStays DEF VerdictKept, RecordedSettled, StateTypes
  <2>2. c \in 1 .. created
    BY <2>1, SchedulerAssumption DEF Settled, UnbornBlank, StateTypes, Branch
  <2> QED BY <2>1, <2>2, SettledLasts
<1>2. CASE c \notin recorded
  BY <1>2, RecordedStep DEF RecordedGrows
<1> QED BY <1>1, <1>2

\* A join that runs, or has run, gains no branch, and it was complete when it
\* started to run.
JoinsAdvance ==
  \A j \in JoinId : joins'[j] \in {"posting", "posted"} =>
    /\ Kids(j)' \subseteq Kids(j)
    /\ joins[j] \in {"posting", "posted"} \/ Kids(j) \subseteq recorded'

\* Joins advance only when full, and gain no branch once they run.
LEMMA JoinsStep ==
  ASSUME StateTypes, UnbornBlank, FamilyTree, JoinsOwned, PostingAlone, [Next]_vars
  PROVE  JoinsAdvance
<1> USE SchedulerAssumption DEF StateTypes, branchVars, workerVars, trackVars, outerVars,
        Decided, Branch, NoBranch, JoinsAdvance
<1>1. ASSUME NEW b \in Branch, Dispatch(b) PROVE JoinsAdvance
  <2>1. joins' = joins /\ UNCHANGED <<created, parent, isPost>>
    BY <1>1 DEF Dispatch
  <2>2. \A j \in JoinId : Kids(j)' = Kids(j)
    BY <2>1 DEF Kids, JoinOf
  <2> QED BY <2>1, <2>2
<1>2. ASSUME EndTurn PROVE JoinsAdvance
  <2>1. joins' = joins /\ UNCHANGED <<created, parent, isPost>>
    BY <1>2 DEF EndTurn
  <2>2. \A j \in JoinId : Kids(j)' = Kids(j)
    BY <2>1 DEF Kids, JoinOf
  <2> QED BY <2>1, <2>2
<1>3. ASSUME NEW b \in Branch, BeginContinuation(b) PROVE JoinsAdvance
  <2>1. joins' = joins /\ UNCHANGED <<created, parent, isPost>>
    BY <1>3 DEF BeginContinuation
  <2>2. \A j \in JoinId : Kids(j)' = Kids(j)
    BY <2>1 DEF Kids, JoinOf
  <2> QED BY <2>1, <2>2
<1>4. ASSUME NEW b \in Branch, OutcomeDropped(b) PROVE JoinsAdvance
  <2>1. joins' = joins /\ UNCHANGED <<created, parent, isPost>>
    BY <1>4 DEF OutcomeDropped
  <2>2. \A j \in JoinId : Kids(j)' = Kids(j)
    BY <2>1 DEF Kids, JoinOf
  <2> QED BY <2>1, <2>2
<1>5. ASSUME NEW b \in Branch, NEW st \in {"done", "failed"}, OutcomeSettled(b, st)
      PROVE  JoinsAdvance
  <2>1. UNCHANGED <<created, parent, isPost>>
    BY <1>5 DEF OutcomeSettled
  <2>2. \A j \in JoinId : Kids(j)' = Kids(j)
    BY <2>1 DEF Kids, JoinOf
  <2>3. \A j \in JoinId : joins'[j] # joins[j] => Kids(j) \subseteq recorded'
    BY <1>5 DEF OutcomeSettled, SettleJoin
  <2> QED BY <2>2, <2>3
<1>6. ASSUME NEW b \in Branch, NEW v \in Verdict \ {"none"}, OutcomeTerminal(b, v)
      PROVE  JoinsAdvance
  <2>1. joins' = joins /\ UNCHANGED <<created, parent, isPost>>
    BY <1>6 DEF OutcomeTerminal
  <2>2. \A j \in JoinId : Kids(j)' = Kids(j)
    BY <2>1 DEF Kids, JoinOf
  <2> QED BY <2>1, <2>2
<1>7. ASSUME NEW b \in Branch, OutcomeSplitRefused(b) PROVE JoinsAdvance
  <2>1. joins' = joins /\ UNCHANGED <<created, parent, isPost>>
    BY <1>7 DEF OutcomeSplitRefused
  <2>2. \A j \in JoinId : Kids(j)' = Kids(j)
    BY <2>1 DEF Kids, JoinOf
  <2> QED BY <2>1, <2>2
<1>8. ASSUME NEW b \in Branch, NEW s \in SplitPlan, OutcomeSplit(b, s) PROVE JoinsAdvance
  <2>1. joins' = joins /\ UNCHANGED <<created, parent, isPost>>
    BY <1>8 DEF OutcomeSplit
  <2>2. \A j \in JoinId : Kids(j)' = Kids(j)
    BY <2>1 DEF Kids, JoinOf
  <2> QED BY <2>1, <2>2
<1>9. ASSUME NEW b \in Branch, RefusedSplitFails(b) PROVE JoinsAdvance
  <2>1. joins' = joins /\ UNCHANGED <<created, parent, isPost>>
    BY <1>9 DEF RefusedSplitFails
  <2>2. \A j \in JoinId : Kids(j)' = Kids(j)
    BY <2>1 DEF Kids, JoinOf
  <2> QED BY <2>1, <2>2
<1>10. ASSUME NEW b \in Branch, SplitChildren(b) PROVE JoinsAdvance
  <2>1. plan[b].width \in Nat /\ Enqueue(plan[b].width, b, FALSE)
    BY <1>10 DEF SplitChildren, PlanType
  <2>2. Enqueued(plan[b].width, b, FALSE)
    BY <2>1, Enqueues
  <2>3. \A j \in JoinId : \A c \in Kids(j)' : c \in 1 .. created => c \in Kids(j)
    BY GroupsKept DEF Kids
  <2>4. \A j \in JoinId : \A c \in Kids(j)' : c \notin 1 .. created => j = <<b, "split">>
    BY <2>2 DEF Enqueued, Kids, JoinOf
  <2>5. pc[b] = "splitting" /\ <<b, "split">> \in JoinId
    BY <1>10 DEF SplitChildren, At, JoinId
  <2>6. joins[<<b, "split">>] = "none"
    BY <2>5 DEF JoinsOwned, Past
  <2>7. \A j \in JoinId : joins'[j] = joins[j] \/ joins'[j] = "pending"
    BY <1>10 DEF SplitChildren
  <2>8. joins'[<<b, "split">>] \in {"none", "pending"}
    BY <2>5, <2>6, <2>7
  <2> HIDE DEF Branch
  <2> QED BY <2>3, <2>4, <2>7, <2>8
<1>11. ASSUME NEW b \in Branch, SplitAbandoned(b) PROVE JoinsAdvance
  <2>1. joins' = joins /\ UNCHANGED <<created, parent, isPost>>
    BY <1>11 DEF SplitAbandoned
  <2>2. \A j \in JoinId : Kids(j)' = Kids(j)
    BY <2>1 DEF Kids, JoinOf
  <2> QED BY <2>1, <2>2
<1>12. ASSUME NEW b \in Branch, PostReturns(b) PROVE JoinsAdvance
  <2>1. Enqueue(1, parent[b], TRUE)
    BY <1>12 DEF PostReturns
  <2>2. Enqueued(1, parent[b], TRUE)
    BY <2>1, Enqueues
  <2>3. \A j \in JoinId : \A c \in Kids(j)' : c \in 1 .. created => c \in Kids(j)
    BY GroupsKept DEF Kids
  <2>4. created' = created + 1 /\ created + 1 \in Branch /\ isPost'[created + 1] = TRUE
    BY <2>2 DEF Enqueued
  <2>5. \A j \in JoinId : \A c \in Kids(j)' : c \notin 1 .. created => j = <<created + 1, "after">>
    BY <2>4 DEF Kids, JoinOf
  <2>6. joins[JoinOf(b)] = "posting" /\ JoinOf(b) \in JoinId
    BY <1>12, PostingChild, JoinTyped DEF PostReturns, At
  <2>7. <<created + 1, "after">> \in JoinId
    BY <2>4 DEF JoinId
  <2>8. joins[<<created + 1, "after">>] = "none"
    BY <2>7 DEF JoinsOwned
  <2>9. \A j \in JoinId : joins'[j] = joins[j] \/ j = JoinOf(b) \/ joins'[j] = "pending"
    BY <1>12 DEF PostReturns
  <2>10. joins'[<<created + 1, "after">>] \in {"none", "pending"}
    BY <2>6, <2>7, <2>8, <2>9
  <2> HIDE DEF Branch
  <2> QED BY <2>3, <2>5, <2>6, <2>9, <2>10
<1>13. ASSUME NEW b \in Branch, PostThrows(b) PROVE JoinsAdvance
  <2>1. UNCHANGED <<created, parent, isPost>>
    BY <1>13 DEF PostThrows
  <2>2. \A j \in JoinId : Kids(j)' = Kids(j)
    BY <2>1 DEF Kids, JoinOf
  <2>3. \A j \in JoinId : joins'[j] = joins[j] \/ joins'[j] = "dropped"
    BY <1>13 DEF PostThrows
  <2> QED BY <2>2, <2>3
<1>14. ASSUME NEW b \in Branch, RejectTrack(b) PROVE JoinsAdvance
  <2>1. joins' = joins /\ UNCHANGED <<created, parent, isPost>>
    BY <1>14 DEF RejectTrack
  <2>2. \A j \in JoinId : Kids(j)' = Kids(j)
    BY <2>1 DEF Kids, JoinOf
  <2> QED BY <2>1, <2>2
<1>15. ASSUME NEW b \in Branch, WorkerExits(b) PROVE JoinsAdvance
  <2>1. joins' = joins /\ UNCHANGED <<created, parent, isPost>>
    BY <1>15 DEF WorkerExits
  <2>2. \A j \in JoinId : Kids(j)' = Kids(j)
    BY <2>1 DEF Kids, JoinOf
  <2> QED BY <2>1, <2>2
<1>16. ASSUME TrackReturns PROVE JoinsAdvance
  <2>1. joins' = joins /\ UNCHANGED <<created, parent, isPost>>
    BY <1>16 DEF TrackReturns
  <2>2. \A j \in JoinId : Kids(j)' = Kids(j)
    BY <2>1 DEF Kids, JoinOf
  <2> QED BY <2>1, <2>2
<1>17. ASSUME NEW b \in Branch, WorkerThrows(b) PROVE JoinsAdvance
  <2>1. joins' = joins /\ UNCHANGED <<created, parent, isPost>>
    BY <1>17 DEF WorkerThrows
  <2>2. \A j \in JoinId : Kids(j)' = Kids(j)
    BY <2>1 DEF Kids, JoinOf
  <2> QED BY <2>1, <2>2
<1>18. ASSUME RequestCancel PROVE JoinsAdvance
  <2>1. joins' = joins /\ UNCHANGED <<created, parent, isPost>>
    BY <1>18 DEF RequestCancel
  <2>2. \A j \in JoinId : Kids(j)' = Kids(j)
    BY <2>1 DEF Kids, JoinOf
  <2> QED BY <2>1, <2>2
<1>19. ASSUME Over \/ UNCHANGED vars PROVE JoinsAdvance
  <2>1. joins' = joins /\ UNCHANGED <<created, parent, isPost>>
    BY <1>19 DEF Over, vars
  <2>2. \A j \in JoinId : Kids(j)' = Kids(j)
    BY <2>1 DEF Kids, JoinOf
  <2> QED BY <2>1, <2>2
<1> HIDE DEF JoinsAdvance
<1> QED
  BY <1>1, <1>2, <1>3, <1>4, <1>5, <1>6, <1>7, <1>8, <1>9, <1>10, <1>11, <1>12, <1>13,
     <1>14, <1>15, <1>16, <1>17, <1>18, <1>19
     DEF Next, Turn, WorkerStep, Outcome

\* A join that runs, or has run, joined settled branches only.
LEMMA JoinedKept ==
  ASSUME StateTypes, UnbornBlank, FamilyTree, QueueMatches, PlaceMatches, DecidedTrackIsClosed,
         JoinsOwned, PostingAlone, RecordedSettled, JoinedAfterSettlement, [Next]_vars
  PROVE  JoinedAfterSettlement'
<1>1. JoinId' = JoinId
  BY DEF JoinId, Branch, NoBranch
<1> SUFFICES ASSUME NEW j \in JoinId, joins'[j] \in {"posting", "posted"}, terminal' = "none",
                    NEW c \in Kids(j)'
             PROVE  Settled(c)'
  BY <1>1 DEF JoinedAfterSettlement
<1>2. terminal = "none"
  BY FirstVerdictStays DEF VerdictKept
<1>3. c \in Kids(j) /\ (joins[j] \in {"posting", "posted"} \/ Kids(j) \subseteq recorded')
  BY JoinsStep DEF JoinsAdvance
<1>4. CASE joins[j] \in {"posting", "posted"}
  BY <1>2, <1>3, <1>4, SettledLasts DEF JoinedAfterSettlement, Kids
<1>5. CASE Kids(j) \subseteq recorded'
  BY <1>3, <1>5, RecordedKept DEF RecordedSettled
<1> QED BY <1>3, <1>4, <1>5

\* The sets the pool counts are finite.
LEMMA BusyFinite ==
  /\ IsFiniteSet(BusyBranches) /\ Cardinality(BusyBranches) \in Nat
  /\ \A g : IsFiniteSet(BusyIn(g)) /\ Cardinality(BusyIn(g)) \in Nat
<1>1. IsFiniteSet(Branch)
  BY SchedulerAssumption, FS_Interval DEF Branch
<1>2. IsFiniteSet(BusyBranches)
  BY <1>1, FS_Subset DEF BusyBranches
<1>3. \A g : IsFiniteSet(BusyIn(g))
  BY <1>2, FS_Subset DEF BusyIn
<1> QED BY <1>2, <1>3, FS_CardinalityType

\* The three ways a step moves the pool.
PoolSteady == BusyBranches' = BusyBranches /\ active' = active /\ groupActive' = groupActive
PoolGrows(b) ==
  /\ b \notin BusyBranches /\ BusyBranches' = BusyBranches \cup {b}
  /\ active < Workers /\ Runnable(b) /\ CountSlot(b, 1)
PoolShrinks(b) ==
  /\ b \in BusyBranches /\ BusyBranches' = BusyBranches \ {b}
  /\ CountSlot(b, -1)
PoolMoves == PoolSteady \/ \E b \in 1 .. created : PoolGrows(b) \/ PoolShrinks(b)

\* Every step leaves the pool alone, starts one worker, or ends one.
LEMMA PoolStep ==
  ASSUME StateTypes, UnbornBlank, QueueMatches, [Next]_vars
  PROVE  PoolMoves
<1> USE SchedulerAssumption DEF StateTypes, branchVars, workerVars, trackVars, outerVars,
        Decided, Branch, NoBranch, PoolMoves, PoolSteady, BusyBranches, Busy, Working, Place
<1>1. ASSUME NEW b \in Branch, Dispatch(b) PROVE PoolMoves
  <2>1. pc[b] = "idle" /\ status[b] = "queued" /\ b \in 1 .. created
    BY <1>1 DEF Dispatch, CanDispatch, QueueMatches, UnbornBlank
  <2>2. pc' = [pc EXCEPT ![b] = "starting"]
    BY <1>1 DEF Dispatch
  <2>3. b \notin BusyBranches /\ BusyBranches' = BusyBranches \cup {b}
    BY <2>1, <2>2
  <2>4. PoolGrows(b)
    BY <1>1, <2>3 DEF Dispatch, CanDispatch, TakeSlot, PoolGrows
  <2> QED BY <2>1, <2>4
<1>2. ASSUME EndTurn PROVE PoolMoves
  BY <1>2 DEF EndTurn, CanDispatch
<1>3. ASSUME NEW b \in Branch, BeginContinuation(b) PROVE PoolMoves
  BY <1>3 DEF BeginContinuation, At
<1>4. ASSUME NEW b \in Branch, OutcomeDropped(b) PROVE PoolMoves
  BY <1>4 DEF OutcomeDropped, IsOpen
<1>5. ASSUME NEW b \in Branch, NEW st \in {"done", "failed"}, OutcomeSettled(b, st)
      PROVE  PoolMoves
  BY <1>5 DEF OutcomeSettled, SettleJoin, At
<1>6. ASSUME NEW b \in Branch, NEW v \in Verdict \ {"none"}, OutcomeTerminal(b, v)
      PROVE  PoolMoves
  BY <1>6 DEF OutcomeTerminal
<1>7. ASSUME NEW b \in Branch, OutcomeSplitRefused(b) PROVE PoolMoves
  BY <1>7 DEF OutcomeSplitRefused, At
<1>8. ASSUME NEW b \in Branch, NEW s \in SplitPlan, OutcomeSplit(b, s) PROVE PoolMoves
  BY <1>8 DEF OutcomeSplit, At
<1>9. ASSUME NEW b \in Branch, RefusedSplitFails(b) PROVE PoolMoves
  BY <1>9 DEF RefusedSplitFails, At
<1>10. ASSUME NEW b \in Branch, SplitChildren(b) PROVE PoolMoves
  BY <1>10 DEF SplitChildren, At
<1>11. ASSUME NEW b \in Branch, SplitAbandoned(b) PROVE PoolMoves
  BY <1>11 DEF SplitAbandoned, At
<1>12. ASSUME NEW b \in Branch, PostReturns(b) PROVE PoolMoves
  BY <1>12 DEF PostReturns, At
<1>13. ASSUME NEW b \in Branch, PostThrows(b) PROVE PoolMoves
  BY <1>13 DEF PostThrows, At
<1>14. ASSUME NEW b \in Branch, RejectTrack(b) PROVE PoolMoves
  BY <1>14 DEF RejectTrack, At
<1>15. ASSUME NEW b \in Branch, WorkerExits(b) PROVE PoolMoves
  <2>1. pc[b] \in {"unwinding", "leaving"} /\ pc' = [pc EXCEPT ![b] = "exited"]
    BY <1>15 DEF WorkerExits
  <2>2. b \in 1 .. created
    BY <2>1 DEF UnbornBlank
  <2>3. b \in BusyBranches /\ BusyBranches' = BusyBranches \ {b}
    BY <2>1
  <2>4. PoolShrinks(b)
    BY <1>15, <2>3 DEF WorkerExits, GiveSlot, PoolShrinks
  <2> QED BY <2>2, <2>4
<1>16. ASSUME TrackReturns PROVE PoolMoves
  BY <1>16 DEF TrackReturns
<1>17. ASSUME NEW b \in Branch, WorkerThrows(b) PROVE PoolMoves
  BY <1>17 DEF WorkerThrows
<1>18. ASSUME RequestCancel PROVE PoolMoves
  BY <1>18 DEF RequestCancel
<1>19. ASSUME Over \/ UNCHANGED vars PROVE PoolMoves
  BY <1>19 DEF Over, vars
<1> HIDE DEF PoolMoves
<1> QED
  BY <1>1, <1>2, <1>3, <1>4, <1>5, <1>6, <1>7, <1>8, <1>9, <1>10, <1>11, <1>12, <1>13,
     <1>14, <1>15, <1>16, <1>17, <1>18, <1>19
     DEF Next, Turn, WorkerStep, Outcome

\* activeWorkers keeps counting the running workers, within the limit.
LEMMA PoolKept ==
  ASSUME StateTypes, UnbornBlank, QueueMatches, PoolBounded, [Next]_vars
  PROVE  PoolBounded' /\ active' \in Nat
<1> USE BusyFinite, SchedulerAssumption DEF PoolBounded
<1>1. CASE PoolSteady
  BY <1>1 DEF PoolSteady
<1>2. ASSUME NEW b \in 1 .. created, PoolGrows(b)
      PROVE  PoolBounded' /\ active' \in Nat
  <2>1. Cardinality(BusyBranches') = Cardinality(BusyBranches) + 1
    BY <1>2, FS_AddElement DEF PoolGrows
  <2> QED BY <1>2, <2>1 DEF PoolGrows, CountSlot
<1>3. ASSUME NEW b \in 1 .. created, PoolShrinks(b)
      PROVE  PoolBounded' /\ active' \in Nat
  <2>1. Cardinality(BusyBranches') = Cardinality(BusyBranches) - 1
    BY <1>3, FS_RemoveElement DEF PoolShrinks
  <2>2. BusyBranches # {}
    BY <1>3 DEF PoolShrinks
  <2>3. Cardinality(BusyBranches) # 0
    BY <2>2, FS_EmptySet
  <2> QED BY <1>3, <2>1, <2>3 DEF PoolShrinks, CountSlot
<1> QED BY <1>1, <1>2, <1>3, PoolStep DEF PoolMoves

\* The plan of a group with running children does not change, and any plan
\* allows a group without.
LEMMA CapsLast ==
  ASSUME StateTypes, UnbornBlank, FamilyTree, GroupsCapped, [Next]_vars, NEW g \in Branch
  PROVE  /\ plan'[g].cap \in Nat /\ plan[g].cap \in Nat
         /\ BusyIn(g) # {} => plan'[g] = plan[g]
<1>1. plan'[g].cap \in Nat /\ plan[g].cap \in Nat
  BY Types DEF StateTypes, PlanType
<1>2. ASSUME NEW c \in BusyIn(g) PROVE pc[g] \in Past
  <2>1. c \in Branch /\ parent[c] = g /\ g # NoBranch
    BY <1>2, SchedulerAssumption DEF BusyIn, BusyBranches, Group, Branch, NoBranch
  <2> QED BY <2>1 DEF FamilyTree
<1> QED BY <1>1, <1>2, Frame DEF Framed

\* Each group keeps counting its running children, within its cap.
LEMMA CapsKept ==
  ASSUME StateTypes, UnbornBlank, QueueMatches, FamilyTree, GroupsCapped,
         groupActive \in [Branch -> Nat], [Next]_vars
  PROVE  GroupsCapped' /\ groupActive' \in [Branch -> Nat]
<1>1. \A c \in Branch : Busy(c) => c \in 1 .. created
  BY SchedulerAssumption DEF Busy, Working, UnbornBlank, StateTypes, Branch
<1>2. \A c \in 1 .. created : Group(c)' = Group(c)
  BY GroupsKept
<1>3. \A c \in BusyBranches : c \in 1 .. created
  BY <1>1 DEF BusyBranches
<1>4. CASE PoolSteady
  <2>1. \A g \in Branch : BusyIn(g)' = BusyIn(g)
    BY <1>2, <1>3, <1>4 DEF BusyIn, PoolSteady
  <2>2. \A g \in Branch : groupActive[g] = Cardinality(BusyIn(g)) /\ groupActive[g] <= plan[g].cap
    BY DEF GroupsCapped
  <2>3. \A g \in Branch : BusyIn(g) = {} => groupActive[g] = 0
    BY <2>2, FS_EmptySet
  <2>4. \A g \in Branch : groupActive[g] <= plan'[g].cap
    BY <2>2, <2>3, CapsLast
  <2> QED BY <1>4, <2>1, <2>2, <2>4 DEF PoolSteady, GroupsCapped, Branch
<1>5. ASSUME NEW b \in 1 .. created, PoolGrows(b)
      PROVE  GroupsCapped' /\ groupActive' \in [Branch -> Nat]
  <2>1. \A g \in Branch : BusyIn(g)' = IF Group(b) = g THEN BusyIn(g) \cup {b} ELSE BusyIn(g)
    BY <1>2, <1>3, <1>5 DEF BusyIn, PoolGrows
  <2>2. ASSUME NEW g \in Branch
        PROVE  /\ groupActive'[g] = Cardinality(BusyIn(g)')
               /\ groupActive'[g] <= plan'[g].cap /\ groupActive'[g] \in Nat
    <3>1. groupActive[g] = Cardinality(BusyIn(g)) /\ groupActive[g] <= plan[g].cap
      BY DEF GroupsCapped
    <3>2. BusyIn(g) = {} => groupActive[g] = 0
      BY <3>1, FS_EmptySet
    <3>3. CASE Group(b) # g
      <4>1. groupActive'[g] = groupActive[g] /\ BusyIn(g)' = BusyIn(g)
        BY <1>5, <2>1, <3>3 DEF PoolGrows, CountSlot
      <4> QED BY <3>1, <3>2, <4>1, CapsLast
    <3>4. CASE Group(b) = g
      <4>1. g # NoBranch
        BY SchedulerAssumption DEF Branch, NoBranch
      <4>2. groupActive'[g] = groupActive[g] + 1 /\ groupActive[g] < plan[g].cap
        BY <1>5, <3>4, <4>1 DEF PoolGrows, CountSlot, Runnable
      <4>3. Cardinality(BusyIn(g)') = Cardinality(BusyIn(g)) + 1
        <5>1. b \notin BusyIn(g)
          BY <1>5 DEF PoolGrows, BusyIn
        <5> QED BY <2>1, <3>4, <5>1, BusyFinite, FS_AddElement
      <4>4. plan'[g].cap = plan[g].cap
        <5>1. pc[g] \in Past
          <6>1. b \in Branch
            BY SchedulerAssumption DEF StateTypes, Branch
          <6>2. parent[b] = g /\ g # NoBranch
            BY <3>4, <4>1 DEF Group
          <6> QED BY <6>1, <6>2 DEF FamilyTree
        <5> QED BY <5>1, Frame DEF Framed
      <4> QED BY <3>1, <4>2, <4>3, <4>4, CapsLast
    <3> QED BY <3>3, <3>4
  <2>3. groupActive' = [g \in Branch |-> groupActive'[g]]
    BY <1>5 DEF PoolGrows, CountSlot
  <2> QED BY <2>2, <2>3 DEF GroupsCapped, Branch
<1>6. ASSUME NEW b \in 1 .. created, PoolShrinks(b)
      PROVE  GroupsCapped' /\ groupActive' \in [Branch -> Nat]
  <2>1. \A g \in Branch : BusyIn(g)' = IF Group(b) = g THEN BusyIn(g) \ {b} ELSE BusyIn(g)
    BY <1>2, <1>3, <1>6 DEF BusyIn, PoolShrinks
  <2>2. ASSUME NEW g \in Branch
        PROVE  /\ groupActive'[g] = Cardinality(BusyIn(g)')
               /\ groupActive'[g] <= plan'[g].cap /\ groupActive'[g] \in Nat
    <3>1. groupActive[g] = Cardinality(BusyIn(g)) /\ groupActive[g] <= plan[g].cap
      BY DEF GroupsCapped
    <3>2. BusyIn(g) = {} => groupActive[g] = 0
      BY <3>1, FS_EmptySet
    <3>3. CASE Group(b) # g
      <4>1. groupActive'[g] = groupActive[g] /\ BusyIn(g)' = BusyIn(g)
        BY <1>6, <2>1, <3>3 DEF PoolShrinks, CountSlot
      <4> QED BY <3>1, <3>2, <4>1, CapsLast
    <3>4. CASE Group(b) = g
      <4>1. g # NoBranch /\ b \in BusyIn(g)
        BY <1>6, <3>4, SchedulerAssumption DEF PoolShrinks, BusyIn, Branch, NoBranch
      <4>2. groupActive'[g] = groupActive[g] - 1
        BY <1>6, <3>4, <4>1 DEF PoolShrinks, CountSlot
      <4>3. Cardinality(BusyIn(g)') = Cardinality(BusyIn(g)) - 1
        BY <2>1, <3>4, <4>1, BusyFinite, FS_RemoveElement
      <4>4. BusyIn(g) # {}
        BY <4>1
      <4>5. Cardinality(BusyIn(g)) # 0
        BY <4>4, BusyFinite, FS_EmptySet
      <4> QED BY <3>1, <4>2, <4>3, <4>4, <4>5, CapsLast, BusyFinite
    <3> QED BY <3>3, <3>4
  <2>3. groupActive' = [g \in Branch |-> groupActive'[g]]
    BY <1>6 DEF PoolShrinks, CountSlot
  <2> QED BY <2>2, <2>3 DEF GroupsCapped, Branch
<1> QED BY <1>4, <1>5, <1>6, PoolStep DEF PoolMoves

\* A pool without workers that could start one would have: with every slot
\* free, the first branch in the queue is runnable.
LEMMA IdleQueueEmpty ==
  ASSUME StateTypes, PoolBounded, GroupsCapped, UnbornBlank, QueueMatches,
         active = 0, terminal = "none", \A b \in Branch : ~CanDispatch(b)
  PROVE  queue = {}
<1> SUFFICES ASSUME queue # {} PROVE FALSE
  OBVIOUS
<1>1. BusyBranches = {}
  BY BusyFinite, FS_EmptySet DEF PoolBounded
<1>2. \A g \in Branch : groupActive[g] = 0 /\ plan[g].cap \in Nat \ {0}
  <2>1. \A g \in Branch : BusyIn(g) = {}
    BY <1>1 DEF BusyIn
  <2>2. \A g \in Branch : Cardinality(BusyIn(g)) = 0
    BY <2>1, FS_EmptySet
  <2> QED BY <2>2 DEF GroupsCapped, StateTypes, PlanType
<1>3. \A b \in queue : Runnable(b)
  <2> SUFFICES ASSUME NEW b \in queue, Group(b) # NoBranch
               PROVE  groupActive[Group(b)] < plan[Group(b)].cap
    BY DEF Runnable
  <2>1. Group(b) \in Branch
    BY DEF Group, StateTypes
  <2> QED BY <1>2, <2>1
<1>4. PICK m \in queue : \A n \in queue : m <= n
  <2>1. queue \in SUBSET Nat
    BY SchedulerAssumption DEF StateTypes, Branch
  <2> QED BY <2>1, LeastExists
<1>5. m \in Branch /\ \A c \in queue : ~(c < m)
  BY <1>4, SchedulerAssumption DEF StateTypes, Branch
<1>6. CanDispatch(m)
  BY <1>3, <1>5, SchedulerAssumption DEF CanDispatch
<1> QED BY <1>5, <1>6

\* The promise resolves only when no worker is left and no branch can start.
LEMMA AnswerKept ==
  ASSUME StateTypes, UnbornBlank, QueueMatches, PlaceMatches, PoolBounded, GroupsCapped,
         DecidedTrackIsClosed, AnswerMatches, [Next]_vars
  PROVE  AnswerMatches'
<1> USE SchedulerAssumption DEF StateTypes, AnswerMatches, workerVars, trackVars, outerVars
<1>a. active = 0 => \A c \in Branch : ~Busy(c)
  <2>1. active = 0 => BusyBranches = {}
    BY BusyFinite, FS_EmptySet DEF PoolBounded
  <2> QED BY <2>1 DEF BusyBranches
<1>1. ASSUME NEW b \in Branch, Dispatch(b) PROVE AnswerMatches'
  <2>1. b \in queue /\ terminal = "none" /\ UNCHANGED <<promise, result, terminal, faults>>
    BY <1>1 DEF Dispatch, CanDispatch
  <2>2. promise # "resolved"
    BY <2>1
  <2> QED BY <2>1, <2>2
<1>2. ASSUME EndTurn PROVE AnswerMatches'
  <2>1. UNCHANGED <<queue, active, result, terminal, faults>>
    BY <1>2 DEF EndTurn
  <2>2. CASE promise' = promise
    BY <2>1, <2>2
  <2>3. CASE promise' # promise
    <3>1. active = 0 /\ promise' = "resolved" /\ promise = "pending"
      BY <1>2, <2>3 DEF EndTurn
    <3>2. queue = {} \/ terminal # "none"
      BY <1>2, <3>1, IdleQueueEmpty DEF EndTurn, StateTypes
    <3> QED BY <2>1, <3>1, <3>2
  <2> QED BY <2>2, <2>3
<1>3. ASSUME NEW b \in Branch, BeginContinuation(b) PROVE AnswerMatches'
  <2>1. Busy(b)
    BY <1>3 DEF BeginContinuation, At, Busy, Working, Place
  <2>2. promise # "resolved"
    BY <2>1, <1>a
  <2>3. /\ UNCHANGED <<promise, result>> /\ (faults > 0 => faults' > 0)
        /\ terminal # "none" => terminal' # "none"
    BY <1>3, FirstVerdictStays DEF BeginContinuation, VerdictKept
  <2> QED BY <2>2, <2>3
<1>4. ASSUME NEW b \in Branch, OutcomeDropped(b) PROVE AnswerMatches'
  <2>1. Busy(b)
    BY <1>4 DEF OutcomeDropped, Busy, Working, Place
  <2>2. promise # "resolved"
    BY <2>1, <1>a
  <2>3. /\ UNCHANGED <<promise, result>> /\ (faults > 0 => faults' > 0)
        /\ terminal # "none" => terminal' # "none"
    BY <1>4, FirstVerdictStays DEF OutcomeDropped, VerdictKept
  <2> QED BY <2>2, <2>3
<1>5. ASSUME NEW b \in Branch, NEW st \in {"done", "failed"}, OutcomeSettled(b, st)
      PROVE  AnswerMatches'
  <2>1. Busy(b)
    BY <1>5 DEF OutcomeSettled, At, Busy, Working, Place
  <2>2. promise # "resolved"
    BY <2>1, <1>a
  <2>3. /\ UNCHANGED <<promise, result>> /\ (faults > 0 => faults' > 0)
        /\ terminal # "none" => terminal' # "none"
    BY <1>5, FirstVerdictStays DEF OutcomeSettled, VerdictKept
  <2> QED BY <2>2, <2>3
<1>6. ASSUME NEW b \in Branch, NEW v \in Verdict \ {"none"}, OutcomeTerminal(b, v)
      PROVE  AnswerMatches'
  <2>1. Busy(b)
    BY <1>6 DEF OutcomeTerminal, Busy, Working, Place
  <2>2. promise # "resolved"
    BY <2>1, <1>a
  <2>3. /\ UNCHANGED <<promise, result>> /\ (faults > 0 => faults' > 0)
        /\ terminal # "none" => terminal' # "none"
    BY <1>6, FirstVerdictStays DEF OutcomeTerminal, VerdictKept
  <2> QED BY <2>2, <2>3
<1>7. ASSUME NEW b \in Branch, OutcomeSplitRefused(b) PROVE AnswerMatches'
  <2>1. Busy(b)
    BY <1>7 DEF OutcomeSplitRefused, At, Busy, Working, Place
  <2>2. promise # "resolved"
    BY <2>1, <1>a
  <2>3. /\ UNCHANGED <<promise, result>> /\ (faults > 0 => faults' > 0)
        /\ terminal # "none" => terminal' # "none"
    BY <1>7, FirstVerdictStays DEF OutcomeSplitRefused, VerdictKept
  <2> QED BY <2>2, <2>3
<1>8. ASSUME NEW b \in Branch, NEW s \in SplitPlan, OutcomeSplit(b, s) PROVE AnswerMatches'
  <2>1. Busy(b)
    BY <1>8 DEF OutcomeSplit, At, Busy, Working, Place
  <2>2. promise # "resolved"
    BY <2>1, <1>a
  <2>3. /\ UNCHANGED <<promise, result>> /\ (faults > 0 => faults' > 0)
        /\ terminal # "none" => terminal' # "none"
    BY <1>8, FirstVerdictStays DEF OutcomeSplit, VerdictKept
  <2> QED BY <2>2, <2>3
<1>9. ASSUME NEW b \in Branch, RefusedSplitFails(b) PROVE AnswerMatches'
  <2>1. Busy(b)
    BY <1>9 DEF RefusedSplitFails, At, Busy, Working, Place
  <2>2. promise # "resolved"
    BY <2>1, <1>a
  <2>3. /\ UNCHANGED <<promise, result>> /\ (faults > 0 => faults' > 0)
        /\ terminal # "none" => terminal' # "none"
    BY <1>9, FirstVerdictStays DEF RefusedSplitFails, VerdictKept
  <2> QED BY <2>2, <2>3
<1>10. ASSUME NEW b \in Branch, SplitChildren(b) PROVE AnswerMatches'
  <2>1. Busy(b)
    BY <1>10 DEF SplitChildren, At, Busy, Working, Place
  <2>2. promise # "resolved"
    BY <2>1, <1>a
  <2>3. /\ UNCHANGED <<promise, result>> /\ (faults > 0 => faults' > 0)
        /\ terminal # "none" => terminal' # "none"
    BY <1>10, FirstVerdictStays DEF SplitChildren, VerdictKept
  <2> QED BY <2>2, <2>3
<1>11. ASSUME NEW b \in Branch, SplitAbandoned(b) PROVE AnswerMatches'
  <2>1. Busy(b)
    BY <1>11 DEF SplitAbandoned, At, Busy, Working, Place
  <2>2. promise # "resolved"
    BY <2>1, <1>a
  <2>3. /\ UNCHANGED <<promise, result>> /\ (faults > 0 => faults' > 0)
        /\ terminal # "none" => terminal' # "none"
    BY <1>11, FirstVerdictStays DEF SplitAbandoned, VerdictKept
  <2> QED BY <2>2, <2>3
<1>12. ASSUME NEW b \in Branch, PostReturns(b) PROVE AnswerMatches'
  <2>1. Busy(b)
    BY <1>12 DEF PostReturns, At, Busy, Working, Place
  <2>2. promise # "resolved"
    BY <2>1, <1>a
  <2>3. /\ UNCHANGED <<promise, result>> /\ (faults > 0 => faults' > 0)
        /\ terminal # "none" => terminal' # "none"
    BY <1>12, FirstVerdictStays DEF PostReturns, VerdictKept
  <2> QED BY <2>2, <2>3
<1>13. ASSUME NEW b \in Branch, PostThrows(b) PROVE AnswerMatches'
  <2>1. Busy(b)
    BY <1>13 DEF PostThrows, At, Busy, Working, Place
  <2>2. promise # "resolved"
    BY <2>1, <1>a
  <2>3. /\ UNCHANGED <<promise, result>> /\ (faults > 0 => faults' > 0)
        /\ terminal # "none" => terminal' # "none"
    BY <1>13, FirstVerdictStays DEF PostThrows, VerdictKept
  <2> QED BY <2>2, <2>3
<1>14. ASSUME NEW b \in Branch, RejectTrack(b) PROVE AnswerMatches'
  <2>1. pc[b] = "rejecting" /\ UNCHANGED <<result, terminal, faults>>
    BY <1>14 DEF RejectTrack, At
  <2>2. Busy(b) /\ terminal # "none" /\ faults > 0
    BY <2>1 DEF Busy, Working, Place, PlaceMatches
  <2>3. promise # "resolved" /\ promise' = "rejected"
    BY <1>14, <1>a, <2>2 DEF RejectTrack
  <2> QED BY <2>1, <2>2, <2>3
<1>15. ASSUME NEW b \in Branch, WorkerExits(b) PROVE AnswerMatches'
  <2>1. Busy(b)
    BY <1>15 DEF WorkerExits, Busy, Working, Place
  <2>2. promise # "resolved"
    BY <2>1, <1>a
  <2>3. /\ UNCHANGED <<promise, result>> /\ (faults > 0 => faults' > 0)
        /\ terminal # "none" => terminal' # "none"
    BY <1>15, FirstVerdictStays DEF WorkerExits, VerdictKept
  <2> QED BY <2>2, <2>3
<1>16. ASSUME TrackReturns PROVE AnswerMatches'
  <2>1. UNCHANGED <<active, promise, terminal, faults>> /\ promise # "pending"
    BY <1>16 DEF TrackReturns
  <2>2. queue' = queue
    BY <1>16, SweepIsIdle
  <2>3. result' = "completed" => terminal = "none"
    BY <1>16 DEF TrackReturns, PublicResult, Verdict
  <2> QED BY <2>1, <2>2, <2>3
<1>17. ASSUME NEW b \in Branch, WorkerThrows(b) PROVE AnswerMatches'
  <2>1. Busy(b)
    BY <1>17 DEF WorkerThrows, Busy, Working, Place
  <2>2. promise # "resolved"
    BY <2>1, <1>a
  <2>3. /\ UNCHANGED <<promise, result>> /\ (faults > 0 => faults' > 0)
        /\ terminal # "none" => terminal' # "none"
    BY <1>17, FirstVerdictStays DEF WorkerThrows, VerdictKept
  <2> QED BY <2>2, <2>3
<1>18. ASSUME RequestCancel PROVE AnswerMatches'
  BY <1>18 DEF RequestCancel
<1>19. ASSUME Over \/ UNCHANGED vars PROVE AnswerMatches'
  BY <1>19 DEF Over, vars
<1> HIDE DEF AnswerMatches
<1> QED
  BY <1>1, <1>2, <1>3, <1>4, <1>5, <1>6, <1>7, <1>8, <1>9, <1>10, <1>11, <1>12, <1>13,
     <1>14, <1>15, <1>16, <1>17, <1>18, <1>19
     DEF Next, Turn, WorkerStep, Outcome

\* Every step moves a join forward or not at all.
LEMMA JoinMovesLemma ==
  ASSUME StateTypes, UnbornBlank, FamilyTree, JoinsOwned, PostingAlone, [Next]_vars
  PROVE  JoinMoves
<1> USE SchedulerAssumption DEF StateTypes
<1>1. ASSUME NEW b \in Branch, Dispatch(b) PROVE JoinMoves
  BY <1>1 DEF Dispatch, JoinMoves
<1>2. ASSUME EndTurn PROVE JoinMoves
  BY <1>2 DEF EndTurn, JoinMoves
<1>3. ASSUME NEW b \in Branch, BeginContinuation(b) PROVE JoinMoves
  BY <1>3 DEF BeginContinuation, JoinMoves
<1>4. ASSUME NEW b \in Branch, OutcomeDropped(b) PROVE JoinMoves
  BY <1>4 DEF OutcomeDropped, JoinMoves
<1>5. ASSUME NEW b \in Branch, NEW st \in {"done", "failed"}, OutcomeSettled(b, st)
      PROVE  JoinMoves
  BY <1>5 DEF OutcomeSettled, SettleJoin, JoinMoves
<1>6. ASSUME NEW b \in Branch, NEW v \in Verdict \ {"none"}, OutcomeTerminal(b, v)
      PROVE  JoinMoves
  BY <1>6 DEF OutcomeTerminal, JoinMoves
<1>7. ASSUME NEW b \in Branch, OutcomeSplitRefused(b) PROVE JoinMoves
  BY <1>7 DEF OutcomeSplitRefused, JoinMoves
<1>8. ASSUME NEW b \in Branch, NEW s \in SplitPlan, OutcomeSplit(b, s) PROVE JoinMoves
  BY <1>8 DEF OutcomeSplit, JoinMoves
<1>9. ASSUME NEW b \in Branch, RefusedSplitFails(b) PROVE JoinMoves
  BY <1>9 DEF RefusedSplitFails, JoinMoves
<1>10. ASSUME NEW b \in Branch, SplitChildren(b) PROVE JoinMoves
  <2>1. pc[b] = "splitting" /\ <<b, "split">> \in JoinId
    BY <1>10 DEF SplitChildren, At, JoinId
  <2>2. joins[<<b, "split">>] = "none"
    BY <2>1 DEF JoinsOwned, Past
  <2> QED BY <1>10, <2>1, <2>2 DEF SplitChildren, JoinMoves
<1>11. ASSUME NEW b \in Branch, SplitAbandoned(b) PROVE JoinMoves
  BY <1>11 DEF SplitAbandoned, JoinMoves
<1>12. ASSUME NEW b \in Branch, PostReturns(b) PROVE JoinMoves
  <2>1. joins[JoinOf(b)] = "posting"
    BY <1>12, PostingChild DEF PostReturns, At
  <2>2. \A j \in JoinId : j = <<created + 1, "after">> => joins[j] = "none"
    BY DEF JoinsOwned
  <2> DEFINE chained == JoinOf(b)[2] = "split" /\ plan[parent[b]].posts = 2
  <2>3. joins' = [i \in JoinId |-> IF i = JoinOf(b) THEN "posted"
                                   ELSE IF chained /\ i = <<created + 1, "after">>
                                        THEN "pending" ELSE joins[i]]
    BY <1>12 DEF PostReturns
  <2> HIDE DEF chained
  <2> QED BY <2>1, <2>2, <2>3 DEF JoinMoves
<1>13. ASSUME NEW b \in Branch, PostThrows(b) PROVE JoinMoves
  <2>1. joins[JoinOf(b)] = "posting" /\ JoinOf(b) \in JoinId
    BY <1>13, PostingChild, JoinTyped DEF PostThrows, At
  <2> QED BY <1>13, <2>1 DEF PostThrows, JoinMoves
<1>14. ASSUME NEW b \in Branch, RejectTrack(b) PROVE JoinMoves
  BY <1>14 DEF RejectTrack, JoinMoves
<1>15. ASSUME NEW b \in Branch, WorkerExits(b) PROVE JoinMoves
  BY <1>15 DEF WorkerExits, JoinMoves
<1>16. ASSUME TrackReturns PROVE JoinMoves
  BY <1>16 DEF TrackReturns, JoinMoves
<1>17. ASSUME NEW b \in Branch, WorkerThrows(b) PROVE JoinMoves
  BY <1>17 DEF WorkerThrows, JoinMoves
<1>18. ASSUME RequestCancel PROVE JoinMoves
  BY <1>18 DEF RequestCancel, JoinMoves
<1>19. ASSUME Over \/ UNCHANGED vars PROVE JoinMoves
  BY <1>19 DEF Over, vars, JoinMoves
<1> HIDE DEF JoinMoves
<1> QED
  BY <1>1, <1>2, <1>3, <1>4, <1>5, <1>6, <1>7, <1>8, <1>9, <1>10, <1>11, <1>12, <1>13,
     <1>14, <1>15, <1>16, <1>17, <1>18, <1>19
     DEF Next, Turn, WorkerStep, Outcome

\* Once there is a verdict, no step opens a task.
OpenShrinks == OpenTasks' \subseteq OpenTasks

\* Once there is a verdict, no step opens a task.
LEMMA OpenStep ==
  ASSUME StateTypes, UnbornBlank, QueueMatches, DecidedTrackIsClosed, [Next]_vars
  PROVE  (terminal # "none" \/ terminal' # "none" => OpenShrinks)
<1> USE SchedulerAssumption DEF StateTypes, branchVars, workerVars, trackVars, outerVars,
        Decided, Branch, NoBranch, OpenShrinks, OpenTasks, Busy, Working, Place
<1>a. \A c \in 1 .. created : c \in Branch
  OBVIOUS
<1>1. ASSUME NEW b \in Branch, Dispatch(b)
      PROVE  (terminal # "none" \/ terminal' # "none" => OpenShrinks)
  <2>1. status[b] = "queued" /\ UNCHANGED created
    BY <1>1, <1>a DEF Dispatch, CanDispatch, QueueMatches
  <2>2. \A c \in Branch \ {b} : status'[c] = status[c] /\ pc'[c] = pc[c]
    BY <1>1, <1>a DEF Dispatch
  <2> QED BY <1>a, <2>1, <2>2
<1>2. ASSUME EndTurn PROVE (terminal # "none" \/ terminal' # "none" => OpenShrinks)
  BY <1>2, <1>a DEF EndTurn, CanDispatch
<1>3. ASSUME NEW b \in Branch, BeginContinuation(b)
      PROVE  (terminal # "none" \/ terminal' # "none" => OpenShrinks)
  BY <1>3, <1>a DEF BeginContinuation, At
<1>4. ASSUME NEW b \in Branch, OutcomeDropped(b)
      PROVE  (terminal # "none" \/ terminal' # "none" => OpenShrinks)
  BY <1>4, <1>a DEF OutcomeDropped, IsOpen
<1>5. ASSUME NEW b \in Branch, NEW st \in {"done", "failed"}, OutcomeSettled(b, st)
      PROVE  (terminal # "none" \/ terminal' # "none" => OpenShrinks)
  <2>1. pc[b] = "stepping" /\ UNCHANGED created
    BY <1>5, <1>a DEF OutcomeSettled, At
  <2>2. \A c \in Branch \ {b} : status'[c] = status[c] /\ pc'[c] = pc[c]
    BY <1>5, <1>a DEF OutcomeSettled, SettleJoin
  <2> QED BY <1>a, <2>1, <2>2
<1>6. ASSUME NEW b \in Branch, NEW v \in Verdict \ {"none"}, OutcomeTerminal(b, v)
      PROVE  (terminal # "none" \/ terminal' # "none" => OpenShrinks)
  <2>1. DecidingStatus[v] \in {"failed", "done", "waiting", "cancelled"}
    BY DEF DecidingStatus, Verdict
  <2>2. DecidedAt(b, DecidingStatus[v], v)
    <3>1. DecidingStatus[v] \in BranchStatus
      BY <2>1 DEF BranchStatus
    <3>2. Terminalize([status EXCEPT ![b] = DecidingStatus[v]], v, b)
      BY <1>6, <1>a DEF OutcomeTerminal
    <3> QED BY <3>1, <3>2, DecidesAt
  <2> QED BY <1>6, <1>a, <2>1, <2>2 DEF OutcomeTerminal, DecidedAt
<1>7. ASSUME NEW b \in Branch, OutcomeSplitRefused(b)
      PROVE  (terminal # "none" \/ terminal' # "none" => OpenShrinks)
  BY <1>7, <1>a DEF OutcomeSplitRefused, At
<1>8. ASSUME NEW b \in Branch, NEW s \in SplitPlan, OutcomeSplit(b, s)
      PROVE  (terminal # "none" \/ terminal' # "none" => OpenShrinks)
  BY <1>8, <1>a DEF OutcomeSplit, At
<1>9. ASSUME NEW b \in Branch, RefusedSplitFails(b)
      PROVE  (terminal # "none" \/ terminal' # "none" => OpenShrinks)
  <2>1. DecidedAll
    BY <1>9, <1>a, DecidesAll DEF RefusedSplitFails
  <2> QED BY <1>9, <1>a, <2>1 DEF RefusedSplitFails, At, DecidedAll
<1>10. ASSUME NEW b \in Branch, SplitChildren(b)
       PROVE  (terminal # "none" \/ terminal' # "none" => OpenShrinks)
  BY <1>10, <1>a DEF SplitChildren
<1>11. ASSUME NEW b \in Branch, SplitAbandoned(b)
       PROVE  (terminal # "none" \/ terminal' # "none" => OpenShrinks)
  BY <1>11, <1>a DEF SplitAbandoned, At
<1>12. ASSUME NEW b \in Branch, PostReturns(b)
       PROVE  (terminal # "none" \/ terminal' # "none" => OpenShrinks)
  <2>1. Enqueue(1, parent[b], TRUE)
    BY <1>12, <1>a DEF PostReturns
  <2>2. Enqueued(1, parent[b], TRUE)
    BY <2>1, Enqueues
  <2>3. pc[b] = "posting" /\ pc' = [pc EXCEPT ![b] = "unwinding"] /\ UNCHANGED terminal
    BY <1>12, <1>a DEF PostReturns, At
  <2>4. CASE terminal # "none"
    <3>1. \A c \in Branch : created < c => pc[c] = "idle"
      BY DEF UnbornBlank
    <3>2. created' \in created .. MaxBranches
      BY <2>2 DEF Enqueued
    <3>3. ASSUME NEW c \in OpenTasks' PROVE c \in OpenTasks
      <4>1. c \in Branch
        BY <3>2, <3>3
      <4>2. CASE c <= created
        BY <2>2, <2>3, <3>3, <4>1, <4>2 DEF Enqueued
      <4>3. CASE created < c
        BY <2>2, <2>3, <2>4, <3>1, <3>2, <3>3, <4>1, <4>3 DEF Enqueued
      <4> QED BY <4>1, <4>2, <4>3
    <3> QED BY <3>3 DEF OpenShrinks
  <2> QED BY <2>3, <2>4
<1>13. ASSUME NEW b \in Branch, PostThrows(b)
       PROVE  (terminal # "none" \/ terminal' # "none" => OpenShrinks)
  <2>1. DecidedAll
    BY <1>13, <1>a, DecidesAll DEF PostThrows
  <2> QED BY <1>13, <1>a, <2>1 DEF PostThrows, At, DecidedAll
<1>14. ASSUME NEW b \in Branch, RejectTrack(b)
       PROVE  (terminal # "none" \/ terminal' # "none" => OpenShrinks)
  BY <1>14, <1>a DEF RejectTrack, At
<1>15. ASSUME NEW b \in Branch, WorkerExits(b)
       PROVE  (terminal # "none" \/ terminal' # "none" => OpenShrinks)
  BY <1>15, <1>a DEF WorkerExits
<1>16. ASSUME TrackReturns PROVE (terminal # "none" \/ terminal' # "none" => OpenShrinks)
  <2>1. status' = status
    BY <1>16, <1>a, SweepIsIdle
  <2> QED BY <1>16, <1>a, <2>1 DEF TrackReturns
<1>17. ASSUME NEW b \in Branch, WorkerThrows(b)
       PROVE  (terminal # "none" \/ terminal' # "none" => OpenShrinks)
  <2>1. DecidedAt(b, "failed", "failure")
    BY <1>17, <1>a, DecidesAt DEF WorkerThrows, BranchStatus, Verdict
  <2> QED BY <1>17, <1>a, <2>1 DEF WorkerThrows, DecidedAt
<1>18. ASSUME RequestCancel PROVE (terminal # "none" \/ terminal' # "none" => OpenShrinks)
  BY <1>18, <1>a DEF RequestCancel
<1>19. ASSUME Over \/ UNCHANGED vars
       PROVE  (terminal # "none" \/ terminal' # "none" => OpenShrinks)
  BY <1>19, <1>a DEF Over, vars
<1> HIDE DEF OpenShrinks
<1> QED
  BY <1>1, <1>2, <1>3, <1>4, <1>5, <1>6, <1>7, <1>8, <1>9, <1>10, <1>11, <1>12, <1>13,
     <1>14, <1>15, <1>16, <1>17, <1>18, <1>19
     DEF Next, Turn, WorkerStep, Outcome

-----------------------------------------------------------------------------
(* The theorems *)

\* Inv is an inductive invariant of the scheduler, whatever its parameters.
THEOREM Inductive == Inv /\ [Next]_vars => Inv'
<1> SUFFICES ASSUME Inv, [Next]_vars PROVE Inv'
  OBVIOUS
<1>1. /\ StateTypes /\ active \in Nat /\ groupActive \in [Branch -> Nat]
      /\ UnbornBlank /\ QueueMatches /\ PlaceMatches /\ FamilyTree
      /\ PoolBounded /\ GroupsCapped /\ DecidedTrackIsClosed
      /\ JoinsOwned /\ PostingAlone /\ RecordedSettled /\ JoinedAfterSettlement
      /\ AnswerMatches
  BY DEF Inv, TypeOK, StateTypes
<1>2. StateTypes' /\ UnbornBlank' /\ QueueMatches' /\ PlaceMatches' /\ FamilyTree'
  BY <1>1, Types, UnbornKept, QueueKept, PlaceKept, FamilyKept
<1>3. PoolBounded' /\ active' \in Nat
  BY <1>1, PoolKept
<1>4. GroupsCapped' /\ groupActive' \in [Branch -> Nat]
  BY <1>1, CapsKept
<1>5. DecidedTrackIsClosed' /\ JoinsOwned' /\ PostingAlone'
  BY <1>1, ClosedKept, OwnersKept, PostingKept
<1>6. RecordedSettled' /\ JoinedAfterSettlement' /\ AnswerMatches'
  BY <1>1, RecordedKept, JoinedKept, AnswerKept
<1>7. TypeOK'
  BY <1>2, <1>3, <1>4 DEF TypeOK, StateTypes, Branch
<1> QED BY <1>2, <1>3, <1>4, <1>5, <1>6, <1>7 DEF Inv

\* Inv holds in every reachable state of the scheduler.
THEOREM Invariance == Spec => []Inv
BY Initially, Inductive, PTL DEF Spec

\* Every variable of the scheduler keeps its type.
THEOREM TypeCorrect == Spec => []TypeOK
<1>1. Inv => TypeOK
  BY DEF Inv
<1> QED BY <1>1, Invariance, PTL

\* activeWorkers and the counter of every group count the running workers, and
\* pass neither `workers` nor the concurrency of the group.
THEOREM SlotsAreBounded == Spec => []SlotsBounded
<1>1. Inv => SlotsBounded
  BY DEF Inv, SlotsBounded
<1> QED BY <1>1, Invariance, PTL

\* A decided track has no queued and no open branch.
THEOREM DecidedIsClosed == Spec => []DecidedTrackIsClosed
<1>1. Inv => DecidedTrackIsClosed
  BY DEF Inv
<1> QED BY <1>1, Invariance, PTL

\* A post continuation runs after every branch it joins has settled.
THEOREM JoinsWait == Spec => []JoinedAfterSettlement
<1>1. Inv => JoinedAfterSettlement
  BY DEF Inv
<1> QED BY <1>1, Invariance, PTL

\* A track that completed settled or split every branch it created.
THEOREM CompletionIsWhole == Spec => []CompletedLostNothing
<1>1. Inv => CompletedLostNothing
  <2> SUFFICES ASSUME Inv, result = "completed"
               PROVE  queue = {} /\ \A b \in 1 .. created : status[b] = "split" \/ Settled(b)
    BY DEF CompletedLostNothing
  <2>1. terminal = "none" /\ active = 0 /\ queue = {}
    BY DEF Inv, AnswerMatches, TypeOK
  <2>2. BusyBranches = {}
    BY <2>1, BusyFinite, FS_EmptySet DEF Inv, PoolBounded
  <2>3. ASSUME NEW b \in 1 .. created PROVE status[b] = "split" \/ Settled(b)
    <3>1. b \in Branch /\ b <= created
      BY SchedulerAssumption DEF Inv, TypeOK, Branch
    <3>2. pc[b] \in {"idle", "exited"}
      BY <2>2, <3>1 DEF BusyBranches, Busy, Working, Inv, TypeOK
    <3>3. QueueMatches /\ PlaceMatches
      BY DEF Inv
    <3>4. pc[b] # "idle"
      BY <2>1, <3>1, <3>3 DEF QueueMatches, PlaceMatches
    <3> QED BY <2>1, <3>1, <3>2, <3>3, <3>4 DEF PlaceMatches
  <2> QED BY <2>1, <2>3
<1> QED BY <1>1, Invariance, PTL

\* The scheduler returns before its workers have left only if one threw.
THEOREM ReturnIsIdle == Spec => []ReturnsIdle
<1>1. Inv => ReturnsIdle
  BY DEF Inv, AnswerMatches, TypeOK, ReturnsIdle
<1> QED BY <1>1, Invariance, PTL

\* The answer of the scheduler is true and final.
THEOREM AnswersAreWhole == Spec => []AnswerIsWhole
<1>1. ReturnsIdle /\ CompletedLostNothing => AnswerIsWhole
  BY DEF AnswerIsWhole
<1> QED BY <1>1, ReturnIsIdle, CompletionIsWhole, PTL

\* A settled branch stays as it is, unless its own worker throws.
THEOREM SettledForGood == Spec => SettledStays
<1>1. Inv /\ [Next]_vars => [SettledStaysStep]_vars
  <2>1. Inv => StateTypes
    BY DEF Inv, TypeOK, StateTypes
  <2> QED BY <2>1, SettledStaysLemma DEF Inv
<1>2. [SettledStaysStep]_vars <=>
      [\A b \in Branch : status[b] \in TerminalStatus =>
          \/ status'[b] = status[b]
          \/ status'[b] = "failed" /\ pc'[b] = "rejecting"]_vars
  BY DEF SettledStaysStep
<1> QED BY <1>1, <1>2, Invariance, PTL DEF Spec, SettledStays

\* A post continuation is called at most once.
THEOREM JoinsRunOnce == Spec => JoinRunsOnce
<1>1. Inv /\ [Next]_vars => [JoinMoves]_vars
  <2>1. Inv => StateTypes
    BY DEF Inv, TypeOK, StateTypes
  <2> QED BY <2>1, JoinMovesLemma DEF Inv
<1> QED BY <1>1, Invariance, PTL DEF Spec, JoinRunsOnce

\* A post continuation is called once, after every branch it joins has settled.
THEOREM JoinsKeepContract == Spec => JoinContract
BY JoinsWait, JoinsRunOnce, PTL DEF JoinContract, JoinRunsOnce

-----------------------------------------------------------------------------
(* Refinement: the scheduler keeps the promise of Track. *)

\* While the track is undecided and a task may still do something, nothing
\* has been answered.
LEMMA AliveUnanswered ==
  ASSUME Inv, terminal = "none", queue # {} \/ \E b \in Branch : Busy(b)
  PROVE  result = "none" /\ OpenTasks # {}
<1>1. promise = "pending"
  <2>1. promise # "rejected"
    BY DEF Inv, AnswerMatches
  <2>2. queue = {} => active # 0
    <3>1. BusyBranches = {} => queue # {}
      BY DEF BusyBranches
    <3> QED BY <3>1, BusyFinite, FS_EmptySet DEF Inv, PoolBounded
  <2> QED BY <2>1, <2>2 DEF Inv, AnswerMatches, TypeOK
<1>2. result = "none"
  BY <1>1 DEF Inv, AnswerMatches
<1>3. PICK b \in Branch : status[b] = "queued" \/ Busy(b)
  BY DEF Inv, TypeOK, QueueMatches
<1>4. b \in 1 .. created
  BY <1>3, SchedulerAssumption DEF Inv, TypeOK, UnbornBlank, Busy, Working, Branch
<1> QED BY <1>2, <1>3, <1>4 DEF OpenTasks

\* Open tasks are branches.
LEMMA OpenTasksTyped ==
  ASSUME created \in 1 .. MaxBranches PROVE OpenTasks \subseteq Branch
BY SchedulerAssumption DEF OpenTasks, Branch

\* What a step shows of the track, besides the answer.
Silent ==
  /\ result' = result
  /\ \/ OpenTasks' = OpenTasks /\ terminal' = terminal
     \/ terminal # "none"
     \/ queue # {}
     \/ \E b \in Branch : Busy(b)

\* Every step but the return leaves the answer alone; an undecided track changes
\* what it shows only while something is queued or running.
LEMMA SilentStep ==
  ASSUME StateTypes, [Next]_vars
  PROVE  (Silent \/ TrackReturns)
<1> USE SchedulerAssumption DEF StateTypes, Silent, outerVars, trackVars
<1>1. ASSUME NEW b \in Branch, Dispatch(b) PROVE (Silent \/ TrackReturns)
  BY <1>1 DEF Dispatch, CanDispatch
<1>2. ASSUME EndTurn PROVE (Silent \/ TrackReturns)
  BY <1>2 DEF EndTurn, branchVars, OpenTasks, Busy
<1>3. ASSUME NEW b \in Branch, BeginContinuation(b) PROVE (Silent \/ TrackReturns)
  BY <1>3 DEF BeginContinuation, At, Busy, Working
<1>4. ASSUME NEW b \in Branch, OutcomeDropped(b) PROVE (Silent \/ TrackReturns)
  BY <1>4 DEF OutcomeDropped, Busy, Working
<1>5. ASSUME NEW b \in Branch, NEW st \in {"done", "failed"}, OutcomeSettled(b, st)
      PROVE  (Silent \/ TrackReturns)
  BY <1>5 DEF OutcomeSettled, At, Busy, Working
<1>6. ASSUME NEW b \in Branch, NEW v \in Verdict \ {"none"}, OutcomeTerminal(b, v)
      PROVE  (Silent \/ TrackReturns)
  BY <1>6 DEF OutcomeTerminal, Busy, Working
<1>7. ASSUME NEW b \in Branch, OutcomeSplitRefused(b) PROVE (Silent \/ TrackReturns)
  BY <1>7 DEF OutcomeSplitRefused, At, Busy, Working
<1>8. ASSUME NEW b \in Branch, NEW s \in SplitPlan, OutcomeSplit(b, s)
      PROVE  (Silent \/ TrackReturns)
  BY <1>8 DEF OutcomeSplit, At, Busy, Working
<1>9. ASSUME NEW b \in Branch, RefusedSplitFails(b) PROVE (Silent \/ TrackReturns)
  BY <1>9 DEF RefusedSplitFails, At, Busy, Working
<1>10. ASSUME NEW b \in Branch, SplitChildren(b) PROVE (Silent \/ TrackReturns)
  BY <1>10 DEF SplitChildren, At, Busy, Working
<1>11. ASSUME NEW b \in Branch, SplitAbandoned(b) PROVE (Silent \/ TrackReturns)
  BY <1>11 DEF SplitAbandoned, At, Busy, Working
<1>12. ASSUME NEW b \in Branch, PostReturns(b) PROVE (Silent \/ TrackReturns)
  BY <1>12 DEF PostReturns, At, Busy, Working
<1>13. ASSUME NEW b \in Branch, PostThrows(b) PROVE (Silent \/ TrackReturns)
  BY <1>13 DEF PostThrows, At, Busy, Working
<1>14. ASSUME NEW b \in Branch, RejectTrack(b) PROVE (Silent \/ TrackReturns)
  BY <1>14 DEF RejectTrack, At, Busy, Working
<1>15. ASSUME NEW b \in Branch, WorkerExits(b) PROVE (Silent \/ TrackReturns)
  BY <1>15 DEF WorkerExits, Busy, Working
<1>16. ASSUME TrackReturns PROVE (Silent \/ TrackReturns)
  BY <1>16
<1>17. ASSUME NEW b \in Branch, WorkerThrows(b) PROVE (Silent \/ TrackReturns)
  BY <1>17 DEF WorkerThrows, Busy, Working
<1>18. ASSUME RequestCancel PROVE (Silent \/ TrackReturns)
  BY <1>18 DEF RequestCancel, branchVars, OpenTasks, Busy
<1>19. ASSUME Over \/ UNCHANGED vars PROVE (Silent \/ TrackReturns)
  BY <1>19 DEF Over, vars, OpenTasks, Busy
<1> HIDE DEF Silent
<1> QED
  BY <1>1, <1>2, <1>3, <1>4, <1>5, <1>6, <1>7, <1>8, <1>9, <1>10, <1>11, <1>12, <1>13,
     <1>14, <1>15, <1>16, <1>17, <1>18, <1>19
     DEF Next, Turn, WorkerStep, Outcome

\* A fresh track is a fresh track of the promise.
THEOREM RefinesInit == Init => TrackPromise!Init
<1> SUFFICES ASSUME Init PROVE TrackPromise!Init
  OBVIOUS
<1>1. created \in 1 .. MaxBranches
  BY SchedulerAssumption DEF Init
<1> QED BY <1>1, OpenTasksTyped DEF Init, TrackPromise!Init

\* Every step of the scheduler is a step of the promise, or invisible.
THEOREM RefinesStep == Inv /\ [Next]_vars => [TrackPromise!Next]_(TrackPromise!vars)
<1> SUFFICES ASSUME Inv, [Next]_vars
             PROVE  TrackPromise!Next \/ UNCHANGED TrackPromise!vars
  OBVIOUS
<1>1. StateTypes /\ StateTypes'
  <2>1. StateTypes
    BY DEF Inv, TypeOK, StateTypes
  <2> QED BY <2>1, Types
<1>2. OpenTasks' \subseteq Branch
  BY <1>1, SchedulerAssumption DEF StateTypes, OpenTasks, Branch
<1>3. /\ terminal \in Verdict /\ terminal' \in Verdict
      /\ terminal # "none" => terminal' = terminal
  BY <1>1, FirstVerdictStays DEF StateTypes, VerdictKept
<1>4. terminal # "none" \/ terminal' # "none" => OpenTasks' \subseteq OpenTasks
  BY <1>1, OpenStep DEF Inv, OpenShrinks
<1>5. CASE Silent
  <2>1. CASE OpenTasks' = OpenTasks /\ terminal' = terminal
    BY <1>5, <2>1 DEF Silent, TrackPromise!vars
  <2>2. CASE terminal # "none"
    <3>1. TrackPromise!WindDown
      BY <1>3, <1>4, <1>5, <2>2 DEF Silent, TrackPromise!WindDown
    <3> QED BY <3>1 DEF TrackPromise!Next
  <2>3. CASE terminal = "none" /\ (queue # {} \/ \E b \in Branch : Busy(b))
    <3>1. result = "none" /\ OpenTasks # {} /\ result' = result
      BY <1>5, <2>3, AliveUnanswered DEF Silent
    <3>2. CASE terminal' = "none"
      <4>1. TrackPromise!Work
        BY <1>2, <2>3, <3>1, <3>2 DEF TrackPromise!Work
      <4> QED BY <4>1 DEF TrackPromise!Next
    <3>3. CASE terminal' # "none"
      <4>1. TrackPromise!Decide(terminal')
        BY <1>4, <2>3, <3>1, <3>3 DEF TrackPromise!Decide
      <4> QED BY <1>3, <3>3, <4>1 DEF TrackPromise!Next
    <3> QED BY <3>2, <3>3
  <2> QED BY <1>5, <2>1, <2>2, <2>3 DEF Silent
<1>6. CASE TrackReturns
  <2>1. status' = status
    BY <1>1, <1>6, SweepIsIdle DEF Inv
  <2>2. OpenTasks' = OpenTasks
    BY <1>6, <2>1 DEF TrackReturns, OpenTasks, Busy, branchVars
  <2>3. terminal = "none" => OpenTasks = {}
    <3> SUFFICES ASSUME terminal = "none" PROVE OpenTasks = {}
      OBVIOUS
    <3>1. queue = {} /\ \A b \in Branch : ~Busy(b)
      <4>1. promise = "resolved"
        BY <1>6 DEF TrackReturns, Inv, AnswerMatches, TypeOK
      <4>2. queue = {} /\ active = 0
        BY <4>1 DEF Inv, AnswerMatches
      <4>3. BusyBranches = {}
        BY <4>2, BusyFinite, FS_EmptySet DEF Inv, PoolBounded
      <4> QED BY <4>2, <4>3 DEF BusyBranches
    <3>2. \A b \in 1 .. created : status[b] \in {"split", "done", "failed"}
      <4> SUFFICES ASSUME NEW b \in 1 .. created PROVE status[b] \in {"split", "done", "failed"}
        OBVIOUS
      <4>1. b \in Branch /\ b <= created
        BY SchedulerAssumption DEF Inv, TypeOK, Branch
      <4>2. QueueMatches /\ PlaceMatches
        BY DEF Inv
      <4>3. pc[b] \in {"idle", "exited"}
        BY <3>1, <4>1 DEF Busy, Working, Inv, TypeOK
      <4>4. pc[b] # "idle"
        BY <3>1, <4>1, <4>2 DEF QueueMatches, PlaceMatches
      <4> QED BY <4>1, <4>2, <4>3, <4>4 DEF PlaceMatches, Settled
    <3>3. 1 .. created \subseteq Branch
      BY SchedulerAssumption DEF Inv, TypeOK, Branch
    <3> QED BY <3>1, <3>2, <3>3 DEF OpenTasks
  <2>4. result' = ReportOf(terminal)
    BY <1>3, <1>6 DEF TrackReturns, PublicResult, ReportOf, Verdict
  <2>5. TrackPromise!Answer
    BY <1>6, <2>2, <2>3, <2>4 DEF TrackReturns, trackVars, TrackPromise!Answer
  <2> QED BY <2>5 DEF TrackPromise!Next
<1> QED BY <1>1, <1>5, <1>6, SilentStep

\* The scheduler keeps the promise to its caller.
THEOREM Refinement == Spec => ImplementsTrack
BY RefinesInit, RefinesStep, Invariance, PTL DEF Spec, ImplementsTrack, TrackPromise!Spec
=============================================================================
