--------------------------- MODULE RunLockProofs ---------------------------
(***************************************************************************)
(* What run.lock guarantees and what trst_watch may conclude from it, for  *)
(* any number of attempts, processes, waits and crashes.                   *)
(***************************************************************************)
EXTENDS RunWatch, McpCalls, WellFoundedInduction, TLAPS

-----------------------------------------------------------------------------
(* The trail *)

\* A set of positions that is not empty has a last one.
LEMMA LastExists ==
  ASSUME NEW n \in Nat, NEW S \in SUBSET (1 .. n), S # {}
  PROVE  \E m \in S : \A i \in S : i <= m
<1> DEFINE R == OpToRel(<, Nat)
           T == {k \in Nat : \E i \in S : k = n - i}
<1>1. T \in SUBSET Nat /\ T # {}
  <2>1. PICK i \in S : i \in 1 .. n
    OBVIOUS
  <2>2. n - i \in T
    BY <2>1
  <2> QED BY <2>2
<1>2. PICK k \in T : \A j \in T : <<j, k>> \notin R
  <2>1. IsWellFoundedOn(R, Nat)
    BY NatLessThanWellFounded
  <2> HIDE DEF T, R
  <2> QED BY <1>1, <2>1, WFMin
<1>3. PICK m \in S : k = n - m
  OBVIOUS
<1>4. ASSUME NEW i \in S PROVE i <= m
  <2>1. n - i \in T /\ i \in 1 .. n /\ m \in 1 .. n
    OBVIOUS
  <2>2. ~ (n - i < k)
    BY <1>2, <2>1 DEF OpToRel
  <2> QED BY <1>3, <2>1, <2>2
<1> QED BY <1>3, <1>4

\* findLatestPendingWait finds one of the open waits when there is one.
LEMMA PendingIsOpen ==
  ASSUME NEW events \in Seq(Entry), OpenWaits(events) # {}
  PROVE  \E i \in OpenWaits(events) : LatestPendingWait(events) = events[i].wait
<1> DEFINE S == OpenWaits(events)
<1>1. S \in SUBSET (1 .. Len(events)) /\ Len(events) \in Nat /\ S # {}
  BY DEF OpenWaits
<1>2. \E m \in S : \A i \in S : i <= m
  <2> HIDE DEF S
  <2> QED BY <1>1, LastExists
<1> QED BY <1>2 DEF LatestPendingWait

\* The wait a continue answers is one of those the trail names.
LEMMA PendingTyped ==
  ASSUME NEW events \in Seq(Entry), MaxWaits \in Nat
  PROVE  LatestPendingWait(events) \in 0 .. MaxWaits
<1>1. CASE OpenWaits(events) = {}
  BY <1>1 DEF LatestPendingWait
<1>2. CASE OpenWaits(events) # {}
  <2>1. PICK i \in OpenWaits(events) : LatestPendingWait(events) = events[i].wait
    BY <1>2, PendingIsOpen
  <2>2. i \in 1 .. Len(events)
    BY DEF OpenWaits
  <2>3. events[i] \in Entry
    BY <2>2
  <2> QED BY <2>1, <2>3 DEF Entry
<1> QED BY <1>1, <1>2

\* The events a continue replays are a prefix of the trail.
LEMMA ReplayedTyped ==
  ASSUME TypeOK, NEW a \in Attempt
  PROVE  Replayed(a) \in Seq(Entry)
<1>1. trail \in Seq(Entry) /\ previous[a] \in 0 .. Len(trail)
  BY DEF TypeOK
<1> QED BY <1>1 DEF Replayed

-----------------------------------------------------------------------------
(* The parts of the invariant *)

\* Every step keeps every variable in its type.
LEMMA TypesKept == TypeOK /\ [Next]_vars => TypeOK'
<1> SUFFICES ASSUME TypeOK, [Next]_vars PROVE TypeOK'
  OBVIOUS
<1> USE RunLockAssumption DEF TypeOK
<1> DEFINE Grows(e) == trail' = Append(trail, e)
<1>0. ASSUME NEW e \in Entry, Grows(e)
      PROVE  trail' \in Seq(Entry) /\ previous \in [Attempt -> 0 .. Len(trail')]
  <2>1. trail' \in Seq(Entry) /\ Len(trail') = Len(trail) + 1
    BY <1>0
  <2> QED BY <2>1
<1> HIDE DEF Grows
<1>1. ASSUME NEW a \in Attempt, Open(a) PROVE TypeOK'
  BY <1>1 DEF Open, Step, processes, files, Stage, Running, Acquiring, Holding, Driving, Releasing
<1>2. ASSUME NEW a \in Attempt, ReadLock(a) PROVE TypeOK'
  BY <1>2 DEF ReadLock, Step, processes, files, Stage, Running, Acquiring, Holding, Driving, Releasing
<1>3. ASSUME NEW a \in Attempt, TakeIt(a) PROVE TypeOK'
  BY <1>3 DEF TakeIt, Step, processes, files, Stage, Running, Acquiring, Holding, Driving, Releasing
<1>4. ASSUME NEW a \in Attempt, Held(a) PROVE TypeOK'
  BY <1>4 DEF Held, Step, processes, files, Stage, Running, Acquiring, Holding, Driving, Releasing
<1>5. ASSUME NEW a \in Attempt, Refuse(a) PROVE TypeOK'
  <2>1. Event("workflow.failed", 0) \in Entry
    BY <1>5 DEF Refuse, Event, Entry, EventType, Terminal
  <2>2. Grows(Event("workflow.failed", 0))
    BY <1>5 DEF Refuse, Emit, Grows
  <2> QED BY <1>5, <2>1, <2>2, <1>0 DEF Refuse, Step, processes, files, Stage, Running, Acquiring, Holding, Driving, Releasing
<1>6. ASSUME NEW a \in Attempt, WriteLock(a) PROVE TypeOK'
  BY <1>6 DEF WriteLock, Step, processes, files, Stage, Running, Acquiring, Holding, Driving, Releasing
<1>7. ASSUME NEW a \in Attempt, WriteLockFails(a) PROVE TypeOK'
  BY <1>7 DEF WriteLockFails, Step, processes, files, Stage, Running, Acquiring, Holding, Driving, Releasing
<1>8. ASSUME NEW a \in Attempt, Start(a) PROVE TypeOK'
  <2>1. Event("workflow.started", 0) \in Entry
    BY <1>8 DEF Start, Event, Entry, EventType, Terminal
  <2>2. Grows(Event("workflow.started", 0))
    BY <1>8 DEF Start, Emit, Grows
  <2> QED BY <1>8, <2>1, <2>2, <1>0 DEF Start, Step, processes, files, Stage, Running, Acquiring, Holding, Driving, Releasing
<1>9. ASSUME NEW a \in Attempt, Resume(a) PROVE TypeOK'
  <2> DEFINE w == LatestPendingWait(Replayed(a))
  <2>1. w \in 0 .. MaxWaits
    BY ReplayedTyped, PendingTyped
  <2>2. Event("workflow.resumed", w) \in Entry
    BY <2>1 DEF Event, Entry, EventType, Terminal
  <2>3. Grows(Event("workflow.resumed", w)) /\ at' = [at EXCEPT ![a] = w]
    BY <1>9 DEF Resume, Emit, Grows
  <2> HIDE DEF w
  <2> QED BY <1>9, <2>1, <2>2, <2>3, <1>0 DEF Resume, Step, processes, files, Stage, Running, Acquiring, Holding, Driving, Releasing
<1>10. ASSUME NEW a \in Attempt, RefuseReplay(a) PROVE TypeOK'
  BY <1>10 DEF RefuseReplay, Step, processes, files, Stage, Running, Acquiring, Holding, Driving, Releasing
<1>11. ASSUME NEW a \in Attempt, StillUnanswered(a) PROVE TypeOK'
  BY <1>11 DEF StillUnanswered, Step, processes, files, Stage, Running, Acquiring, Holding, Driving, Releasing
<1>12. ASSUME NEW a \in Attempt, Answered(a) PROVE TypeOK'
  <2>1. Event("wait.satisfied", at[a]) \in Entry
    BY <1>12 DEF Answered, Event, Entry, EventType, Terminal
  <2>2. Grows(Event("wait.satisfied", at[a]))
    BY <1>12 DEF Answered, Emit, Grows
  <2> QED BY <1>12, <2>1, <2>2, <1>0 DEF Answered, Step, processes, files, Stage, Running, Acquiring, Holding, Driving, Releasing
<1>13. ASSUME NEW a \in Attempt, Misanswered(a) PROVE TypeOK'
  <2>1. Event("wait.failed", at[a]) \in Entry
    BY <1>13 DEF Misanswered, Event, Entry, EventType, Terminal
  <2>2. Grows(Event("wait.failed", at[a]))
    BY <1>13 DEF Misanswered, Emit, Grows
  <2> QED BY <1>13, <2>1, <2>2, <1>0 DEF Misanswered, Step, processes, files, Stage, Running, Acquiring, Holding, Driving, Releasing
<1>14. ASSUME NEW a \in Attempt, StepEnds(a) PROVE TypeOK'
  <2>1. Event("step.completed", 0) \in Entry
    BY <1>14 DEF StepEnds, Event, Entry, EventType, Terminal
  <2>2. Grows(Event("step.completed", 0))
    BY <1>14 DEF StepEnds, Emit, Grows
  <2> QED BY <1>14, <2>1, <2>2, <1>0 DEF StepEnds, Step, processes, files, Stage, Running, Acquiring, Holding, Driving, Releasing
<1>15. ASSUME NEW a \in Attempt, Park(a) PROVE TypeOK'
  <2>1. Event("wait.started", at[a] + 1) \in Entry
    BY <1>15 DEF Park, Event, Entry, EventType, Terminal
  <2>2. Grows(Event("wait.started", at[a] + 1))
    BY <1>15 DEF Park, Emit, Grows
  <2> QED BY <1>15, <2>1, <2>2, <1>0 DEF Park, Step, processes, files, Stage, Running, Acquiring, Holding, Driving, Releasing
<1>16. ASSUME NEW a \in Attempt, Parked(a) PROVE TypeOK'
  BY <1>16 DEF Parked, Step, processes, files, Stage, Running, Acquiring, Holding, Driving, Releasing
<1>17. ASSUME NEW a \in Attempt, Finish(a) PROVE TypeOK'
  <2>1. PICK type \in Terminal : Grows(Event(type, 0))
    BY <1>17 DEF Finish, Emit, Grows, Terminal
  <2>2. Event(type, 0) \in Entry
    BY DEF Event, Entry, EventType, Terminal
  <2> QED BY <1>17, <2>1, <2>2, <1>0 DEF Finish, Step, processes, files, Stage, Running, Acquiring, Holding, Driving, Releasing
<1>18. ASSUME NEW a \in Attempt, CheckNonce(a) PROVE TypeOK'
  BY <1>18 DEF CheckNonce, Step, processes, files, Stage, Running, Acquiring, Holding, Driving, Releasing
<1>19. ASSUME NEW a \in Attempt, Unlink(a) PROVE TypeOK'
  BY <1>19 DEF Unlink, Step, processes, files, Stage, Running, Acquiring, Holding, Driving, Releasing
<1>20. ASSUME NEW a \in Attempt, UnlinkFails(a) PROVE TypeOK'
  BY <1>20 DEF UnlinkFails, Step, processes, files, Stage, Running, Acquiring, Holding, Driving, Releasing
<1>21. ASSUME NEW p \in Pid, Crash(p) PROVE TypeOK'
  BY <1>21 DEF Crash, Step, processes, files, Stage, Running, Acquiring, Holding, Driving, Releasing
<1>22. ASSUME NEW p \in Pid, Recycle(p) PROVE TypeOK'
  BY <1>22 DEF Recycle, Step, processes, files, Stage, Running, Acquiring, Holding, Driving, Releasing
<1>23. CASE UNCHANGED vars
  BY <1>23 DEF vars
<1> QED
  BY <1>1, <1>2, <1>3, <1>4, <1>5, <1>6, <1>7, <1>8, <1>9, <1>10, <1>11, <1>12, <1>13, <1>14, <1>15, <1>16, <1>17, <1>18, <1>19, <1>20, <1>21, <1>22, <1>23
     DEF Next, Acquire, Drive, Release

\* No step leaves an attempt at work in a dead process.
LEMMA UpKept == TypeOK /\ RunningIsUp /\ [Next]_vars => RunningIsUp'
<1> SUFFICES ASSUME TypeOK, RunningIsUp, [Next]_vars PROVE RunningIsUp'
  OBVIOUS
<1> USE RunLockAssumption DEF RunningIsUp, Up
<1>0. pc \in [Attempt -> Stage] /\ alive \subseteq Pid
  BY DEF TypeOK
<1>1. ASSUME NEW a \in Attempt, Open(a) PROVE RunningIsUp'
  BY <1>1, <1>0 DEF Open, Step, processes, files, Running, Acquiring, Holding, Driving, Releasing
<1>2. ASSUME NEW a \in Attempt, ReadLock(a) PROVE RunningIsUp'
  BY <1>2, <1>0 DEF ReadLock, Step, processes, files, Running, Acquiring, Holding, Driving, Releasing
<1>3. ASSUME NEW a \in Attempt, TakeIt(a) PROVE RunningIsUp'
  BY <1>3, <1>0 DEF TakeIt, Step, processes, files, Running, Acquiring, Holding, Driving, Releasing
<1>4. ASSUME NEW a \in Attempt, Held(a) PROVE RunningIsUp'
  BY <1>4, <1>0 DEF Held, Step, processes, files, Running, Acquiring, Holding, Driving, Releasing
<1>5. ASSUME NEW a \in Attempt, Refuse(a) PROVE RunningIsUp'
  BY <1>5, <1>0 DEF Refuse, Step, processes, files, Running, Acquiring, Holding, Driving, Releasing
<1>6. ASSUME NEW a \in Attempt, WriteLock(a) PROVE RunningIsUp'
  BY <1>6, <1>0 DEF WriteLock, Step, processes, files, Running, Acquiring, Holding, Driving, Releasing
<1>7. ASSUME NEW a \in Attempt, WriteLockFails(a) PROVE RunningIsUp'
  BY <1>7, <1>0 DEF WriteLockFails, Step, processes, files, Running, Acquiring, Holding, Driving, Releasing
<1>8. ASSUME NEW a \in Attempt, Start(a) PROVE RunningIsUp'
  BY <1>8, <1>0 DEF Start, Step, processes, files, Running, Acquiring, Holding, Driving, Releasing
<1>9. ASSUME NEW a \in Attempt, Resume(a) PROVE RunningIsUp'
  BY <1>9, <1>0 DEF Resume, Step, processes, files, Running, Acquiring, Holding, Driving, Releasing
<1>10. ASSUME NEW a \in Attempt, RefuseReplay(a) PROVE RunningIsUp'
  BY <1>10, <1>0 DEF RefuseReplay, Step, processes, files, Running, Acquiring, Holding, Driving, Releasing
<1>11. ASSUME NEW a \in Attempt, StillUnanswered(a) PROVE RunningIsUp'
  BY <1>11, <1>0 DEF StillUnanswered, Step, processes, files, Running, Acquiring, Holding, Driving, Releasing
<1>12. ASSUME NEW a \in Attempt, Answered(a) PROVE RunningIsUp'
  BY <1>12, <1>0 DEF Answered, Step, processes, files, Running, Acquiring, Holding, Driving, Releasing
<1>13. ASSUME NEW a \in Attempt, Misanswered(a) PROVE RunningIsUp'
  BY <1>13, <1>0 DEF Misanswered, Step, processes, files, Running, Acquiring, Holding, Driving, Releasing
<1>14. ASSUME NEW a \in Attempt, StepEnds(a) PROVE RunningIsUp'
  BY <1>14, <1>0 DEF StepEnds, Step, processes, files, Running, Acquiring, Holding, Driving, Releasing
<1>15. ASSUME NEW a \in Attempt, Park(a) PROVE RunningIsUp'
  BY <1>15, <1>0 DEF Park, Step, processes, files, Running, Acquiring, Holding, Driving, Releasing
<1>16. ASSUME NEW a \in Attempt, Parked(a) PROVE RunningIsUp'
  BY <1>16, <1>0 DEF Parked, Step, processes, files, Running, Acquiring, Holding, Driving, Releasing
<1>17. ASSUME NEW a \in Attempt, Finish(a) PROVE RunningIsUp'
  BY <1>17, <1>0 DEF Finish, Step, processes, files, Running, Acquiring, Holding, Driving, Releasing
<1>18. ASSUME NEW a \in Attempt, CheckNonce(a) PROVE RunningIsUp'
  BY <1>18, <1>0 DEF CheckNonce, Step, processes, files, Running, Acquiring, Holding, Driving, Releasing
<1>19. ASSUME NEW a \in Attempt, Unlink(a) PROVE RunningIsUp'
  BY <1>19, <1>0 DEF Unlink, Step, processes, files, Running, Acquiring, Holding, Driving, Releasing
<1>20. ASSUME NEW a \in Attempt, UnlinkFails(a) PROVE RunningIsUp'
  BY <1>20, <1>0 DEF UnlinkFails, Step, processes, files, Running, Acquiring, Holding, Driving, Releasing
<1>21. ASSUME NEW p \in Pid, Crash(p) PROVE RunningIsUp'
  BY <1>21, <1>0 DEF Crash, Step, processes, files, Running, Acquiring, Holding, Driving, Releasing
<1>22. ASSUME NEW p \in Pid, Recycle(p) PROVE RunningIsUp'
  BY <1>22, <1>0 DEF Recycle, Step, processes, files, Running, Acquiring, Holding, Driving, Releasing
<1>23. CASE UNCHANGED vars
  BY <1>23, <1>0 DEF vars, Step, processes, files, Running, Acquiring, Holding, Driving, Releasing
<1> HIDE DEF RunningIsUp, Up
<1> QED
  BY <1>1, <1>2, <1>3, <1>4, <1>5, <1>6, <1>7, <1>8, <1>9, <1>10, <1>11, <1>12, <1>13, <1>14, <1>15, <1>16, <1>17, <1>18, <1>19, <1>20, <1>21, <1>22, <1>23
     DEF Next, Acquire, Drive, Release

\* A race aside, acquisitions stay apart and the driver keeps its lock.
LEMMA AcquireKept == TypeOK /\ RunningIsUp /\ OneAcquirer /\ OneDriver /\ AcquirerSawDriver /\ [Next]_vars => OneAcquirer' /\ OneDriver' /\ AcquirerSawDriver'
<1> SUFFICES ASSUME TypeOK, RunningIsUp, OneAcquirer, OneDriver, AcquirerSawDriver, [Next]_vars PROVE OneAcquirer' /\ OneDriver' /\ AcquirerSawDriver'
  OBVIOUS
<1> USE RunLockAssumption DEF RunningIsUp, Up, OneAcquirer, OneDriver, AcquirerSawDriver, IsLive
<1>0. /\ pc \in [Attempt -> Stage] /\ found \in [Attempt -> Attempt \cup {NoLock}]
      /\ lock \in Attempt \cup {NoLock} /\ alive \subseteq Pid /\ raced \in BOOLEAN
  BY DEF TypeOK
<1>1. ASSUME NEW a \in Attempt, Open(a) PROVE OneAcquirer' /\ OneDriver' /\ AcquirerSawDriver'
  BY <1>1, <1>0 DEF Open, Step, processes, files, Running, Acquiring, Holding, Driving, Releasing
<1>2. ASSUME NEW a \in Attempt, ReadLock(a) PROVE OneAcquirer' /\ OneDriver' /\ AcquirerSawDriver'
  BY <1>2, <1>0 DEF ReadLock, Step, processes, files, Running, Acquiring, Holding, Driving, Releasing
<1>3. ASSUME NEW a \in Attempt, TakeIt(a) PROVE OneAcquirer' /\ OneDriver' /\ AcquirerSawDriver'
  BY <1>3, <1>0 DEF TakeIt, Step, processes, files, Running, Acquiring, Holding, Driving, Releasing
<1>4. ASSUME NEW a \in Attempt, Held(a) PROVE OneAcquirer' /\ OneDriver' /\ AcquirerSawDriver'
  BY <1>4, <1>0 DEF Held, Step, processes, files, Running, Acquiring, Holding, Driving, Releasing
<1>5. ASSUME NEW a \in Attempt, Refuse(a) PROVE OneAcquirer' /\ OneDriver' /\ AcquirerSawDriver'
  BY <1>5, <1>0 DEF Refuse, Step, processes, files, Running, Acquiring, Holding, Driving, Releasing
<1>6. ASSUME NEW a \in Attempt, WriteLock(a) PROVE OneAcquirer' /\ OneDriver' /\ AcquirerSawDriver'
  BY <1>6, <1>0 DEF WriteLock, Step, processes, files, Running, Acquiring, Holding, Driving, Releasing
<1>7. ASSUME NEW a \in Attempt, WriteLockFails(a) PROVE OneAcquirer' /\ OneDriver' /\ AcquirerSawDriver'
  BY <1>7, <1>0 DEF WriteLockFails, Step, processes, files, Running, Acquiring, Holding, Driving, Releasing
<1>8. ASSUME NEW a \in Attempt, Start(a) PROVE OneAcquirer' /\ OneDriver' /\ AcquirerSawDriver'
  BY <1>8, <1>0 DEF Start, Step, processes, files, Running, Acquiring, Holding, Driving, Releasing
<1>9. ASSUME NEW a \in Attempt, Resume(a) PROVE OneAcquirer' /\ OneDriver' /\ AcquirerSawDriver'
  BY <1>9, <1>0 DEF Resume, Step, processes, files, Running, Acquiring, Holding, Driving, Releasing
<1>10. ASSUME NEW a \in Attempt, RefuseReplay(a) PROVE OneAcquirer' /\ OneDriver' /\ AcquirerSawDriver'
  BY <1>10, <1>0 DEF RefuseReplay, Step, processes, files, Running, Acquiring, Holding, Driving, Releasing
<1>11. ASSUME NEW a \in Attempt, StillUnanswered(a) PROVE OneAcquirer' /\ OneDriver' /\ AcquirerSawDriver'
  BY <1>11, <1>0 DEF StillUnanswered, Step, processes, files, Running, Acquiring, Holding, Driving, Releasing
<1>12. ASSUME NEW a \in Attempt, Answered(a) PROVE OneAcquirer' /\ OneDriver' /\ AcquirerSawDriver'
  BY <1>12, <1>0 DEF Answered, Step, processes, files, Running, Acquiring, Holding, Driving, Releasing
<1>13. ASSUME NEW a \in Attempt, Misanswered(a) PROVE OneAcquirer' /\ OneDriver' /\ AcquirerSawDriver'
  BY <1>13, <1>0 DEF Misanswered, Step, processes, files, Running, Acquiring, Holding, Driving, Releasing
<1>14. ASSUME NEW a \in Attempt, StepEnds(a) PROVE OneAcquirer' /\ OneDriver' /\ AcquirerSawDriver'
  BY <1>14, <1>0 DEF StepEnds, Step, processes, files, Running, Acquiring, Holding, Driving, Releasing
<1>15. ASSUME NEW a \in Attempt, Park(a) PROVE OneAcquirer' /\ OneDriver' /\ AcquirerSawDriver'
  BY <1>15, <1>0 DEF Park, Step, processes, files, Running, Acquiring, Holding, Driving, Releasing
<1>16. ASSUME NEW a \in Attempt, Parked(a) PROVE OneAcquirer' /\ OneDriver' /\ AcquirerSawDriver'
  BY <1>16, <1>0 DEF Parked, Step, processes, files, Running, Acquiring, Holding, Driving, Releasing
<1>17. ASSUME NEW a \in Attempt, Finish(a) PROVE OneAcquirer' /\ OneDriver' /\ AcquirerSawDriver'
  BY <1>17, <1>0 DEF Finish, Step, processes, files, Running, Acquiring, Holding, Driving, Releasing
<1>18. ASSUME NEW a \in Attempt, CheckNonce(a) PROVE OneAcquirer' /\ OneDriver' /\ AcquirerSawDriver'
  BY <1>18, <1>0 DEF CheckNonce, Step, processes, files, Running, Acquiring, Holding, Driving, Releasing
<1>19. ASSUME NEW a \in Attempt, Unlink(a) PROVE OneAcquirer' /\ OneDriver' /\ AcquirerSawDriver'
  BY <1>19, <1>0 DEF Unlink, Step, processes, files, Running, Acquiring, Holding, Driving, Releasing
<1>20. ASSUME NEW a \in Attempt, UnlinkFails(a) PROVE OneAcquirer' /\ OneDriver' /\ AcquirerSawDriver'
  BY <1>20, <1>0 DEF UnlinkFails, Step, processes, files, Running, Acquiring, Holding, Driving, Releasing
<1>21. ASSUME NEW p \in Pid, Crash(p) PROVE OneAcquirer' /\ OneDriver' /\ AcquirerSawDriver'
  BY <1>21, <1>0 DEF Crash, Step, processes, files, Running, Acquiring, Holding, Driving, Releasing
<1>22. ASSUME NEW p \in Pid, Recycle(p) PROVE OneAcquirer' /\ OneDriver' /\ AcquirerSawDriver'
  BY <1>22, <1>0 DEF Recycle, Step, processes, files, Running, Acquiring, Holding, Driving, Releasing
<1>23. CASE UNCHANGED vars
  BY <1>23, <1>0 DEF vars, Step, processes, files, Running, Acquiring, Holding, Driving, Releasing
<1> HIDE DEF RunningIsUp, Up, OneAcquirer, OneDriver, AcquirerSawDriver, IsLive
<1> QED
  BY <1>1, <1>2, <1>3, <1>4, <1>5, <1>6, <1>7, <1>8, <1>9, <1>10, <1>11, <1>12, <1>13, <1>14, <1>15, <1>16, <1>17, <1>18, <1>19, <1>20, <1>21, <1>22, <1>23
     DEF Next, Acquire, Drive, Release

\* Every exit of an attempt that holds the lock passes through the release.
LEMMA OwnerKept == TypeOK /\ LockHasOwner /\ [Next]_vars => LockHasOwner'
<1> SUFFICES ASSUME TypeOK, LockHasOwner, [Next]_vars PROVE LockHasOwner'
  OBVIOUS
<1> USE RunLockAssumption DEF LockHasOwner
<1>0. /\ pc \in [Attempt -> Stage] /\ lock \in Attempt \cup {NoLock} /\ leaked \subseteq Attempt
  BY DEF TypeOK
<1>1. ASSUME NEW a \in Attempt, Open(a) PROVE LockHasOwner'
  BY <1>1, <1>0 DEF Open, Step, processes, files, Running, Acquiring, Holding, Driving, Releasing
<1>2. ASSUME NEW a \in Attempt, ReadLock(a) PROVE LockHasOwner'
  BY <1>2, <1>0 DEF ReadLock, Step, processes, files, Running, Acquiring, Holding, Driving, Releasing
<1>3. ASSUME NEW a \in Attempt, TakeIt(a) PROVE LockHasOwner'
  BY <1>3, <1>0 DEF TakeIt, Step, processes, files, Running, Acquiring, Holding, Driving, Releasing
<1>4. ASSUME NEW a \in Attempt, Held(a) PROVE LockHasOwner'
  BY <1>4, <1>0 DEF Held, Step, processes, files, Running, Acquiring, Holding, Driving, Releasing
<1>5. ASSUME NEW a \in Attempt, Refuse(a) PROVE LockHasOwner'
  BY <1>5, <1>0 DEF Refuse, Step, processes, files, Running, Acquiring, Holding, Driving, Releasing
<1>6. ASSUME NEW a \in Attempt, WriteLock(a) PROVE LockHasOwner'
  BY <1>6, <1>0 DEF WriteLock, Step, processes, files, Running, Acquiring, Holding, Driving, Releasing
<1>7. ASSUME NEW a \in Attempt, WriteLockFails(a) PROVE LockHasOwner'
  BY <1>7, <1>0 DEF WriteLockFails, Step, processes, files, Running, Acquiring, Holding, Driving, Releasing
<1>8. ASSUME NEW a \in Attempt, Start(a) PROVE LockHasOwner'
  BY <1>8, <1>0 DEF Start, Step, processes, files, Running, Acquiring, Holding, Driving, Releasing
<1>9. ASSUME NEW a \in Attempt, Resume(a) PROVE LockHasOwner'
  BY <1>9, <1>0 DEF Resume, Step, processes, files, Running, Acquiring, Holding, Driving, Releasing
<1>10. ASSUME NEW a \in Attempt, RefuseReplay(a) PROVE LockHasOwner'
  BY <1>10, <1>0 DEF RefuseReplay, Step, processes, files, Running, Acquiring, Holding, Driving, Releasing
<1>11. ASSUME NEW a \in Attempt, StillUnanswered(a) PROVE LockHasOwner'
  BY <1>11, <1>0 DEF StillUnanswered, Step, processes, files, Running, Acquiring, Holding, Driving, Releasing
<1>12. ASSUME NEW a \in Attempt, Answered(a) PROVE LockHasOwner'
  BY <1>12, <1>0 DEF Answered, Step, processes, files, Running, Acquiring, Holding, Driving, Releasing
<1>13. ASSUME NEW a \in Attempt, Misanswered(a) PROVE LockHasOwner'
  BY <1>13, <1>0 DEF Misanswered, Step, processes, files, Running, Acquiring, Holding, Driving, Releasing
<1>14. ASSUME NEW a \in Attempt, StepEnds(a) PROVE LockHasOwner'
  BY <1>14, <1>0 DEF StepEnds, Step, processes, files, Running, Acquiring, Holding, Driving, Releasing
<1>15. ASSUME NEW a \in Attempt, Park(a) PROVE LockHasOwner'
  BY <1>15, <1>0 DEF Park, Step, processes, files, Running, Acquiring, Holding, Driving, Releasing
<1>16. ASSUME NEW a \in Attempt, Parked(a) PROVE LockHasOwner'
  BY <1>16, <1>0 DEF Parked, Step, processes, files, Running, Acquiring, Holding, Driving, Releasing
<1>17. ASSUME NEW a \in Attempt, Finish(a) PROVE LockHasOwner'
  BY <1>17, <1>0 DEF Finish, Step, processes, files, Running, Acquiring, Holding, Driving, Releasing
<1>18. ASSUME NEW a \in Attempt, CheckNonce(a) PROVE LockHasOwner'
  BY <1>18, <1>0 DEF CheckNonce, Step, processes, files, Running, Acquiring, Holding, Driving, Releasing
<1>19. ASSUME NEW a \in Attempt, Unlink(a) PROVE LockHasOwner'
  BY <1>19, <1>0 DEF Unlink, Step, processes, files, Running, Acquiring, Holding, Driving, Releasing
<1>20. ASSUME NEW a \in Attempt, UnlinkFails(a) PROVE LockHasOwner'
  BY <1>20, <1>0 DEF UnlinkFails, Step, processes, files, Running, Acquiring, Holding, Driving, Releasing
<1>21. ASSUME NEW p \in Pid, Crash(p) PROVE LockHasOwner'
  BY <1>21, <1>0 DEF Crash, Step, processes, files, Running, Acquiring, Holding, Driving, Releasing
<1>22. ASSUME NEW p \in Pid, Recycle(p) PROVE LockHasOwner'
  BY <1>22, <1>0 DEF Recycle, Step, processes, files, Running, Acquiring, Holding, Driving, Releasing
<1>23. CASE UNCHANGED vars
  BY <1>23, <1>0 DEF vars, Step, processes, files, Running, Acquiring, Holding, Driving, Releasing
<1> HIDE DEF LockHasOwner
<1> QED
  BY <1>1, <1>2, <1>3, <1>4, <1>5, <1>6, <1>7, <1>8, <1>9, <1>10, <1>11, <1>12, <1>13, <1>14, <1>15, <1>16, <1>17, <1>18, <1>19, <1>20, <1>21, <1>22, <1>23
     DEF Next, Acquire, Drive, Release

\* An appended event numbers its wait when the others do and it does.
LEMMA NumberedGrows ==
  ASSUME TypeOK, WaitsNumbered, NEW e \in Entry, trail' = Append(trail, e),
         e.type = "wait.started" => e.wait # 0
  PROVE  WaitsNumbered'
<1>1. trail \in Seq(Entry) /\ trail' \in Seq(Entry) /\ Len(trail') = Len(trail) + 1
  BY DEF TypeOK
<1>2. ASSUME NEW i \in DOMAIN trail', trail'[i].type = "wait.started"
      PROVE  trail'[i].wait # 0
  <2>1. CASE i \in DOMAIN trail
    BY <1>1, <1>2, <2>1 DEF WaitsNumbered
  <2>2. CASE i = Len(trail) + 1
    BY <1>1, <1>2, <2>2
  <2> QED BY <1>1, <2>1, <2>2
<1> QED BY <1>2 DEF WaitsNumbered

\* A run that ended or parked stays so until an event resolves the wait.
LEMMA SettledGrows ==
  ASSUME TypeOK, NEW e \in Entry, trail' = Append(trail, e),
         HasTerminal(trail) \/ OpenWaits(trail) # {},
         e.type \notin {"wait.satisfied", "wait.failed"}
  PROVE  HasTerminal(trail') \/ OpenWaits(trail') # {}
<1>1. trail \in Seq(Entry) /\ Len(trail') = Len(trail) + 1 /\ trail'[Len(trail')] = e
  BY DEF TypeOK
<1>2. \A i \in DOMAIN trail : i \in DOMAIN trail' /\ trail'[i] = trail[i]
  BY <1>1
<1>3. CASE HasTerminal(trail)
  BY <1>2, <1>3 DEF HasTerminal
<1>4. CASE OpenWaits(trail) # {}
  <2>1. PICK i \in OpenWaits(trail) : TRUE
    BY <1>4
  <2>2. i \in DOMAIN trail /\ trail[i].type = "wait.started"
    BY DEF OpenWaits
  <2>3. ASSUME NEW j \in DOMAIN trail', j > i,
               trail'[j].type \in {"wait.satisfied", "wait.failed"},
               trail'[j].wait = trail'[i].wait
        PROVE  FALSE
    <3>1. j # Len(trail')
      BY <1>1, <2>3
    <3>2. j \in DOMAIN trail
      BY <1>1, <3>1
    <3> QED BY <1>2, <2>1, <2>2, <2>3, <3>2 DEF OpenWaits
  <2>4. i \in OpenWaits(trail')
    BY <1>2, <2>2, <2>3 DEF OpenWaits
  <2> QED BY <2>4
<1> QED BY <1>3, <1>4

\* An event that ends the run, or opens a wait, settles it.
LEMMA SettledByEvent ==
  ASSUME TypeOK, NEW e \in Entry, trail' = Append(trail, e),
         e.type \in Terminal \cup {"wait.started"}
  PROVE  HasTerminal(trail') \/ OpenWaits(trail') # {}
<1>1. trail \in Seq(Entry) /\ Len(trail') = Len(trail) + 1 /\ trail'[Len(trail')] = e
  BY DEF TypeOK
<1>2. Len(trail') \in DOMAIN trail' /\ \A j \in DOMAIN trail' : ~ j > Len(trail')
  BY <1>1
<1>3. CASE e.type \in Terminal
  BY <1>1, <1>2, <1>3 DEF HasTerminal
<1>4. CASE e.type = "wait.started"
  <2>1. Len(trail') \in OpenWaits(trail')
    BY <1>1, <1>2, <1>4 DEF OpenWaits
  <2> QED BY <2>1
<1> QED BY <1>3, <1>4

\* Every wait that parks a run has a number.
LEMMA NumberedKept == TypeOK /\ WaitsNumbered /\ [Next]_vars => WaitsNumbered'
<1> SUFFICES ASSUME TypeOK, WaitsNumbered, [Next]_vars PROVE WaitsNumbered'
  OBVIOUS
<1> USE RunLockAssumption
<1>0. /\ at \in [Attempt -> 0 .. MaxWaits] /\ trail \in Seq(Entry)
  BY DEF TypeOK
<1>1. ASSUME NEW a \in Attempt, Open(a) PROVE WaitsNumbered'
  BY <1>1, <1>0 DEF Open, WaitsNumbered, processes, files
<1>2. ASSUME NEW a \in Attempt, ReadLock(a) PROVE WaitsNumbered'
  BY <1>2, <1>0 DEF ReadLock, WaitsNumbered, processes, files
<1>3. ASSUME NEW a \in Attempt, TakeIt(a) PROVE WaitsNumbered'
  BY <1>3, <1>0 DEF TakeIt, WaitsNumbered, processes, files
<1>4. ASSUME NEW a \in Attempt, Held(a) PROVE WaitsNumbered'
  BY <1>4, <1>0 DEF Held, WaitsNumbered, processes, files
<1>5. ASSUME NEW a \in Attempt, Refuse(a) PROVE WaitsNumbered'
  <2> DEFINE e == Event("workflow.failed", 0)
  <2>1. e \in Entry /\ trail' = Append(trail, e)
    BY <1>5, <1>0 DEF Refuse, Emit, Event, Entry, EventType, Terminal
  <2>2. e.type = "wait.started" => e.wait # 0
    BY <1>0 DEF Event
  <2> QED BY <1>5, <1>0, <2>1, <2>2, NumberedGrows
<1>6. ASSUME NEW a \in Attempt, WriteLock(a) PROVE WaitsNumbered'
  BY <1>6, <1>0 DEF WriteLock, WaitsNumbered, processes, files
<1>7. ASSUME NEW a \in Attempt, WriteLockFails(a) PROVE WaitsNumbered'
  BY <1>7, <1>0 DEF WriteLockFails, WaitsNumbered, processes, files
<1>8. ASSUME NEW a \in Attempt, Start(a) PROVE WaitsNumbered'
  <2> DEFINE e == Event("workflow.started", 0)
  <2>1. e \in Entry /\ trail' = Append(trail, e)
    BY <1>8, <1>0 DEF Start, Emit, Event, Entry, EventType, Terminal
  <2>2. e.type = "wait.started" => e.wait # 0
    BY <1>0 DEF Event
  <2> QED BY <1>8, <1>0, <2>1, <2>2, NumberedGrows
<1>9. ASSUME NEW a \in Attempt, Resume(a) PROVE WaitsNumbered'
  <2> DEFINE w == LatestPendingWait(Replayed(a))
             e == Event("workflow.resumed", w)
  <2>1. w \in 0 .. MaxWaits
    BY ReplayedTyped, PendingTyped
  <2>2. e \in Entry
    BY <2>1 DEF Event, Entry, EventType, Terminal
  <2>3. trail' = Append(trail, e)
    BY <1>9 DEF Resume, Emit
  <2>4. e.type # "wait.started"
    BY DEF Event
  <2> HIDE DEF e
  <2> QED BY <2>2, <2>3, <2>4, NumberedGrows
<1>10. ASSUME NEW a \in Attempt, RefuseReplay(a) PROVE WaitsNumbered'
  BY <1>10, <1>0 DEF RefuseReplay, WaitsNumbered, processes, files
<1>11. ASSUME NEW a \in Attempt, StillUnanswered(a) PROVE WaitsNumbered'
  BY <1>11, <1>0 DEF StillUnanswered, WaitsNumbered, processes, files
<1>12. ASSUME NEW a \in Attempt, Answered(a) PROVE WaitsNumbered'
  <2> DEFINE e == Event("wait.satisfied", at[a])
  <2>1. e \in Entry /\ trail' = Append(trail, e)
    BY <1>12, <1>0 DEF Answered, Emit, Event, Entry, EventType, Terminal
  <2>2. e.type = "wait.started" => e.wait # 0
    BY <1>0 DEF Event
  <2> QED BY <1>12, <1>0, <2>1, <2>2, NumberedGrows
<1>13. ASSUME NEW a \in Attempt, Misanswered(a) PROVE WaitsNumbered'
  <2> DEFINE e == Event("wait.failed", at[a])
  <2>1. e \in Entry /\ trail' = Append(trail, e)
    BY <1>13, <1>0 DEF Misanswered, Emit, Event, Entry, EventType, Terminal
  <2>2. e.type = "wait.started" => e.wait # 0
    BY <1>0 DEF Event
  <2> QED BY <1>13, <1>0, <2>1, <2>2, NumberedGrows
<1>14. ASSUME NEW a \in Attempt, StepEnds(a) PROVE WaitsNumbered'
  <2> DEFINE e == Event("step.completed", 0)
  <2>1. e \in Entry /\ trail' = Append(trail, e)
    BY <1>14, <1>0 DEF StepEnds, Emit, Event, Entry, EventType, Terminal
  <2>2. e.type = "wait.started" => e.wait # 0
    BY <1>0 DEF Event
  <2> QED BY <1>14, <1>0, <2>1, <2>2, NumberedGrows
<1>15. ASSUME NEW a \in Attempt, Park(a) PROVE WaitsNumbered'
  <2> DEFINE e == Event("wait.started", at[a] + 1)
  <2>1. e \in Entry /\ trail' = Append(trail, e)
    BY <1>15, <1>0 DEF Park, Emit, Event, Entry, EventType, Terminal
  <2>2. e.type = "wait.started" => e.wait # 0
    BY <1>0 DEF Event
  <2> QED BY <1>15, <1>0, <2>1, <2>2, NumberedGrows
<1>16. ASSUME NEW a \in Attempt, Parked(a) PROVE WaitsNumbered'
  BY <1>16, <1>0 DEF Parked, WaitsNumbered, processes, files
<1>17. ASSUME NEW a \in Attempt, Finish(a) PROVE WaitsNumbered'
  <2>1. PICK type \in Terminal : trail' = Append(trail, Event(type, 0))
    BY <1>17 DEF Finish, Emit, Terminal
  <2>2. Event(type, 0) \in Entry /\ Event(type, 0).type = type /\ type # "wait.started"
    BY <1>0 DEF Event, Entry, EventType, Terminal
  <2> QED BY <2>1, <2>2, NumberedGrows
<1>18. ASSUME NEW a \in Attempt, CheckNonce(a) PROVE WaitsNumbered'
  BY <1>18, <1>0 DEF CheckNonce, WaitsNumbered, processes, files
<1>19. ASSUME NEW a \in Attempt, Unlink(a) PROVE WaitsNumbered'
  BY <1>19, <1>0 DEF Unlink, WaitsNumbered, processes, files
<1>20. ASSUME NEW a \in Attempt, UnlinkFails(a) PROVE WaitsNumbered'
  BY <1>20, <1>0 DEF UnlinkFails, WaitsNumbered, processes, files
<1>21. ASSUME NEW p \in Pid, Crash(p) PROVE WaitsNumbered'
  BY <1>21, <1>0 DEF Crash, WaitsNumbered, processes, files
<1>22. ASSUME NEW p \in Pid, Recycle(p) PROVE WaitsNumbered'
  BY <1>22, <1>0 DEF Recycle, WaitsNumbered, processes, files
<1>23. CASE UNCHANGED vars
  BY <1>23, <1>0 DEF vars, WaitsNumbered, processes, files
<1> QED
  BY <1>1, <1>2, <1>3, <1>4, <1>5, <1>6, <1>7, <1>8, <1>9, <1>10, <1>11, <1>12, <1>13, <1>14, <1>15, <1>16, <1>17, <1>18, <1>19, <1>20, <1>21, <1>22, <1>23
     DEF Next, Acquire, Drive, Release

\* Nothing is parked before the trail says so.
LEMMA ParkedKept == TypeOK /\ ParkedRecorded /\ [Next]_vars => ParkedRecorded'
<1> SUFFICES ASSUME TypeOK, ParkedRecorded, [Next]_vars PROVE ParkedRecorded'
  OBVIOUS
<1> USE RunLockAssumption
<1>0. /\ pc \in [Attempt -> Stage] /\ trail \in Seq(Entry)
  BY DEF TypeOK
<1>1. ASSUME NEW a \in Attempt, Open(a) PROVE ParkedRecorded'
  <2>1. trail' = trail
    BY <1>1 DEF Open, files
  <2>2. \A b \in Attempt : pc'[b] = "parking" => pc[b] = "parking"
    BY <1>1, <1>0 DEF Open, Step
  <2> QED BY <2>1, <2>2 DEF ParkedRecorded
<1>2. ASSUME NEW a \in Attempt, ReadLock(a) PROVE ParkedRecorded'
  <2>1. trail' = trail
    BY <1>2 DEF ReadLock, files
  <2>2. \A b \in Attempt : pc'[b] = "parking" => pc[b] = "parking"
    BY <1>2, <1>0 DEF ReadLock, Step
  <2> QED BY <2>1, <2>2 DEF ParkedRecorded
<1>3. ASSUME NEW a \in Attempt, TakeIt(a) PROVE ParkedRecorded'
  <2>1. trail' = trail
    BY <1>3 DEF TakeIt, files
  <2>2. \A b \in Attempt : pc'[b] = "parking" => pc[b] = "parking"
    BY <1>3, <1>0 DEF TakeIt, Step
  <2> QED BY <2>1, <2>2 DEF ParkedRecorded
<1>4. ASSUME NEW a \in Attempt, Held(a) PROVE ParkedRecorded'
  <2>1. trail' = trail
    BY <1>4 DEF Held, files
  <2>2. \A b \in Attempt : pc'[b] = "parking" => pc[b] = "parking"
    BY <1>4, <1>0 DEF Held, Step
  <2> QED BY <2>1, <2>2 DEF ParkedRecorded
<1>5. ASSUME NEW a \in Attempt, Refuse(a) PROVE ParkedRecorded'
  <2>1. trail' # <<>>
    BY <1>5, <1>0 DEF Refuse, Emit
  <2> QED BY <2>1 DEF ParkedRecorded
<1>6. ASSUME NEW a \in Attempt, WriteLock(a) PROVE ParkedRecorded'
  <2>1. trail' = trail
    BY <1>6 DEF WriteLock, files
  <2>2. \A b \in Attempt : pc'[b] = "parking" => pc[b] = "parking"
    BY <1>6, <1>0 DEF WriteLock, Step
  <2> QED BY <2>1, <2>2 DEF ParkedRecorded
<1>7. ASSUME NEW a \in Attempt, WriteLockFails(a) PROVE ParkedRecorded'
  <2>1. trail' = trail
    BY <1>7 DEF WriteLockFails, files
  <2>2. \A b \in Attempt : pc'[b] = "parking" => pc[b] = "parking"
    BY <1>7, <1>0 DEF WriteLockFails, Step
  <2> QED BY <2>1, <2>2 DEF ParkedRecorded
<1>8. ASSUME NEW a \in Attempt, Start(a) PROVE ParkedRecorded'
  <2>1. trail' # <<>>
    BY <1>8, <1>0 DEF Start, Emit
  <2> QED BY <2>1 DEF ParkedRecorded
<1>9. ASSUME NEW a \in Attempt, Resume(a) PROVE ParkedRecorded'
  <2>1. trail' # <<>>
    BY <1>9, <1>0 DEF Resume, Emit
  <2> QED BY <2>1 DEF ParkedRecorded
<1>10. ASSUME NEW a \in Attempt, RefuseReplay(a) PROVE ParkedRecorded'
  <2>1. trail' = trail
    BY <1>10 DEF RefuseReplay, files
  <2>2. \A b \in Attempt : pc'[b] = "parking" => pc[b] = "parking"
    BY <1>10, <1>0 DEF RefuseReplay, Step
  <2> QED BY <2>1, <2>2 DEF ParkedRecorded
<1>11. ASSUME NEW a \in Attempt, StillUnanswered(a) PROVE ParkedRecorded'
  <2>1. trail' = trail
    BY <1>11 DEF StillUnanswered, files
  <2>2. \A b \in Attempt : pc'[b] = "parking" => pc[b] = "parking"
    BY <1>11, <1>0 DEF StillUnanswered, Step
  <2> QED BY <2>1, <2>2 DEF ParkedRecorded
<1>12. ASSUME NEW a \in Attempt, Answered(a) PROVE ParkedRecorded'
  <2>1. trail' # <<>>
    BY <1>12, <1>0 DEF Answered, Emit
  <2> QED BY <2>1 DEF ParkedRecorded
<1>13. ASSUME NEW a \in Attempt, Misanswered(a) PROVE ParkedRecorded'
  <2>1. trail' # <<>>
    BY <1>13, <1>0 DEF Misanswered, Emit
  <2> QED BY <2>1 DEF ParkedRecorded
<1>14. ASSUME NEW a \in Attempt, StepEnds(a) PROVE ParkedRecorded'
  <2>1. trail' # <<>>
    BY <1>14, <1>0 DEF StepEnds, Emit
  <2> QED BY <2>1 DEF ParkedRecorded
<1>15. ASSUME NEW a \in Attempt, Park(a) PROVE ParkedRecorded'
  <2>1. trail' # <<>>
    BY <1>15, <1>0 DEF Park, Emit
  <2> QED BY <2>1 DEF ParkedRecorded
<1>16. ASSUME NEW a \in Attempt, Parked(a) PROVE ParkedRecorded'
  <2>1. trail' = trail
    BY <1>16 DEF Parked, files
  <2>2. \A b \in Attempt : pc'[b] = "parking" => pc[b] = "parking"
    BY <1>16, <1>0 DEF Parked, Step
  <2> QED BY <2>1, <2>2 DEF ParkedRecorded
<1>17. ASSUME NEW a \in Attempt, Finish(a) PROVE ParkedRecorded'
  <2>1. trail' # <<>>
    BY <1>17, <1>0 DEF Finish, Emit
  <2> QED BY <2>1 DEF ParkedRecorded
<1>18. ASSUME NEW a \in Attempt, CheckNonce(a) PROVE ParkedRecorded'
  <2>1. trail' = trail
    BY <1>18 DEF CheckNonce, files
  <2>2. \A b \in Attempt : pc'[b] = "parking" => pc[b] = "parking"
    BY <1>18, <1>0 DEF CheckNonce, Step
  <2> QED BY <2>1, <2>2 DEF ParkedRecorded
<1>19. ASSUME NEW a \in Attempt, Unlink(a) PROVE ParkedRecorded'
  <2>1. trail' = trail
    BY <1>19 DEF Unlink, files
  <2>2. \A b \in Attempt : pc'[b] = "parking" => pc[b] = "parking"
    BY <1>19, <1>0 DEF Unlink, Step
  <2> QED BY <2>1, <2>2 DEF ParkedRecorded
<1>20. ASSUME NEW a \in Attempt, UnlinkFails(a) PROVE ParkedRecorded'
  <2>1. trail' = trail
    BY <1>20 DEF UnlinkFails, files
  <2>2. \A b \in Attempt : pc'[b] = "parking" => pc[b] = "parking"
    BY <1>20, <1>0 DEF UnlinkFails, Step
  <2> QED BY <2>1, <2>2 DEF ParkedRecorded
<1>21. ASSUME NEW p \in Pid, Crash(p) PROVE ParkedRecorded'
  BY <1>21, <1>0 DEF Crash, ParkedRecorded, files
<1>22. ASSUME NEW p \in Pid, Recycle(p) PROVE ParkedRecorded'
  BY <1>22, <1>0 DEF Recycle, ParkedRecorded, files
<1>23. CASE UNCHANGED vars
  BY <1>23, <1>0 DEF vars, ParkedRecorded, files
<1> QED
  BY <1>1, <1>2, <1>3, <1>4, <1>5, <1>6, <1>7, <1>8, <1>9, <1>10, <1>11, <1>12, <1>13, <1>14, <1>15, <1>16, <1>17, <1>18, <1>19, <1>20, <1>21, <1>22, <1>23
     DEF Next, Acquire, Drive, Release

\* The trail, or an attempt, accounts for the run after every step.
LEMMA AccountedKept == TypeOK /\ ParkedRecorded /\ Accounted /\ [Next]_vars => Accounted'
<1> SUFFICES ASSUME TypeOK, ParkedRecorded, Accounted, [Next]_vars PROVE Accounted'
  OBVIOUS
<1> USE RunLockAssumption
<1>0. /\ pc \in [Attempt -> Stage] /\ trail \in Seq(Entry)
      /\ previous \in [Attempt -> 0 .. Len(trail)] /\ at \in [Attempt -> 0 .. MaxWaits]
  BY DEF TypeOK
<1>1. ASSUME NEW a \in Attempt, Open(a) PROVE Accounted'
  <2>1. trail' = trail
    BY <1>1 DEF Open, files
  <2>2. \A b \in Attempt : pc[b] \in {"crashed", "driving"} => pc'[b] = pc[b]
    BY <1>1, <1>0 DEF Open, Step
  <2> QED BY <2>1, <2>2 DEF Accounted
<1>2. ASSUME NEW a \in Attempt, ReadLock(a) PROVE Accounted'
  <2>1. trail' = trail
    BY <1>2 DEF ReadLock, files
  <2>2. \A b \in Attempt : pc[b] \in {"crashed", "driving"} => pc'[b] = pc[b]
    BY <1>2, <1>0 DEF ReadLock, Step
  <2> QED BY <2>1, <2>2 DEF Accounted
<1>3. ASSUME NEW a \in Attempt, TakeIt(a) PROVE Accounted'
  <2>1. trail' = trail
    BY <1>3 DEF TakeIt, files
  <2>2. \A b \in Attempt : pc[b] \in {"crashed", "driving"} => pc'[b] = pc[b]
    BY <1>3, <1>0 DEF TakeIt, Step
  <2> QED BY <2>1, <2>2 DEF Accounted
<1>4. ASSUME NEW a \in Attempt, Held(a) PROVE Accounted'
  <2>1. trail' = trail
    BY <1>4 DEF Held, files
  <2>2. \A b \in Attempt : pc[b] \in {"crashed", "driving"} => pc'[b] = pc[b]
    BY <1>4, <1>0 DEF Held, Step
  <2> QED BY <2>1, <2>2 DEF Accounted
<1>5. ASSUME NEW a \in Attempt, Refuse(a) PROVE Accounted'
  <2> DEFINE e == Event("workflow.failed", 0)
  <2>1. e \in Entry /\ trail' = Append(trail, e)
    BY <1>5, <1>0 DEF Refuse, Emit, Event, Entry, EventType, Terminal
  <2>2. e.type \in Terminal
    BY DEF Event, Terminal
  <2> QED BY <2>1, <2>2, SettledByEvent DEF Accounted
<1>6. ASSUME NEW a \in Attempt, WriteLock(a) PROVE Accounted'
  <2>1. trail' = trail
    BY <1>6 DEF WriteLock, files
  <2>2. \A b \in Attempt : pc[b] \in {"crashed", "driving"} => pc'[b] = pc[b]
    BY <1>6, <1>0 DEF WriteLock, Step
  <2> QED BY <2>1, <2>2 DEF Accounted
<1>7. ASSUME NEW a \in Attempt, WriteLockFails(a) PROVE Accounted'
  <2>1. trail' = trail
    BY <1>7 DEF WriteLockFails, files
  <2>2. \A b \in Attempt : pc[b] \in {"crashed", "driving"} => pc'[b] = pc[b]
    BY <1>7, <1>0 DEF WriteLockFails, Step
  <2> QED BY <2>1, <2>2 DEF Accounted
<1>8. ASSUME NEW a \in Attempt, Start(a) PROVE Accounted'
  <2>1. pc'[a] = "driving"
    BY <1>8, <1>0 DEF Start, Step
  <2> QED BY <2>1 DEF Accounted
<1>9. ASSUME NEW a \in Attempt, Resume(a) PROVE Accounted'
  <2> DEFINE w == LatestPendingWait(Replayed(a))
             e == Event("workflow.resumed", w)
  <2>1. w \in 0 .. MaxWaits
    BY ReplayedTyped, PendingTyped
  <2>2. e \in Entry
    BY <2>1 DEF Event, Entry, EventType, Terminal
  <2>3. trail' = Append(trail, e)
    BY <1>9 DEF Resume, Emit
  <2>4. e.type \notin {"wait.satisfied", "wait.failed"}
    BY DEF Event
  <2>5. trail # <<>>
    <3>1. SUFFICES ASSUME trail = <<>> PROVE FALSE
      OBVIOUS
    <3>2. previous[a] = 0
      BY <1>0, <3>1
    <3>3. Replayed(a) = <<>>
      BY <3>1, <3>2 DEF Replayed
    <3>4. OpenWaits(Replayed(a)) = {}
      BY <3>3 DEF OpenWaits
    <3> QED BY <1>9, <3>4 DEF Resume, Continuable, LatestPendingWait
  <2>6. \A b \in Attempt : pc[b] \in {"crashed", "driving"} => pc'[b] = pc[b]
    BY <1>9, <1>0 DEF Resume, Step
  <2> HIDE DEF e
  <2> QED BY <2>2, <2>3, <2>4, <2>5, <2>6, SettledGrows DEF Accounted
<1>10. ASSUME NEW a \in Attempt, RefuseReplay(a) PROVE Accounted'
  <2>1. trail' = trail
    BY <1>10 DEF RefuseReplay, files
  <2>2. \A b \in Attempt : pc[b] \in {"crashed", "driving"} => pc'[b] = pc[b]
    BY <1>10, <1>0 DEF RefuseReplay, Step
  <2> QED BY <2>1, <2>2 DEF Accounted
<1>11. ASSUME NEW a \in Attempt, StillUnanswered(a) PROVE Accounted'
  <2>1. trail' = trail
    BY <1>11 DEF StillUnanswered, files
  <2>2. \A b \in Attempt : pc[b] \in {"crashed", "driving"} => pc'[b] = pc[b]
    BY <1>11, <1>0 DEF StillUnanswered, Step
  <2> QED BY <2>1, <2>2 DEF Accounted
<1>12. ASSUME NEW a \in Attempt, Answered(a) PROVE Accounted'
  <2>1. pc'[a] = "driving"
    BY <1>12, <1>0 DEF Answered, Step
  <2> QED BY <2>1 DEF Accounted
<1>13. ASSUME NEW a \in Attempt, Misanswered(a) PROVE Accounted'
  <2>1. pc'[a] = "driving"
    BY <1>13, <1>0 DEF Misanswered, Step
  <2> QED BY <2>1 DEF Accounted
<1>14. ASSUME NEW a \in Attempt, StepEnds(a) PROVE Accounted'
  <2> DEFINE e == Event("step.completed", 0)
  <2>1. e \in Entry /\ trail' = Append(trail, e) /\ pc' = pc
    BY <1>14, <1>0 DEF StepEnds, Emit, Event, Entry, EventType, Terminal
  <2>2. e.type \notin {"wait.satisfied", "wait.failed"}
    BY DEF Event
  <2>3. trail # <<>> \/ pc[a] = "driving"
    BY <1>14, <1>0 DEF StepEnds, ParkedRecorded
  <2> HIDE DEF e
  <2> QED BY <2>1, <2>2, <2>3, SettledGrows DEF Accounted
<1>15. ASSUME NEW a \in Attempt, Park(a) PROVE Accounted'
  <2> DEFINE e == Event("wait.started", at[a] + 1)
  <2>1. e \in Entry /\ trail' = Append(trail, e)
    BY <1>15, <1>0 DEF Park, Emit, Event, Entry, EventType, Terminal
  <2>2. e.type = "wait.started"
    BY DEF Event
  <2> QED BY <2>1, <2>2, SettledByEvent DEF Accounted
<1>16. ASSUME NEW a \in Attempt, Parked(a) PROVE Accounted'
  <2>1. trail' = trail
    BY <1>16 DEF Parked, files
  <2>2. \A b \in Attempt : pc[b] \in {"crashed", "driving"} => pc'[b] = pc[b]
    BY <1>16, <1>0 DEF Parked, Step
  <2> QED BY <2>1, <2>2 DEF Accounted
<1>17. ASSUME NEW a \in Attempt, Finish(a) PROVE Accounted'
  <2>1. PICK type \in Terminal : trail' = Append(trail, Event(type, 0))
    BY <1>17 DEF Finish, Emit, Terminal
  <2>2. Event(type, 0) \in Entry /\ Event(type, 0).type = type /\ type # "wait.started"
    BY <1>0 DEF Event, Entry, EventType, Terminal
  <2> QED BY <2>1, <2>2, SettledByEvent DEF Accounted
<1>18. ASSUME NEW a \in Attempt, CheckNonce(a) PROVE Accounted'
  <2>1. trail' = trail
    BY <1>18 DEF CheckNonce, files
  <2>2. \A b \in Attempt : pc[b] \in {"crashed", "driving"} => pc'[b] = pc[b]
    BY <1>18, <1>0 DEF CheckNonce, Step
  <2> QED BY <2>1, <2>2 DEF Accounted
<1>19. ASSUME NEW a \in Attempt, Unlink(a) PROVE Accounted'
  <2>1. trail' = trail
    BY <1>19 DEF Unlink, files
  <2>2. \A b \in Attempt : pc[b] \in {"crashed", "driving"} => pc'[b] = pc[b]
    BY <1>19, <1>0 DEF Unlink, Step
  <2> QED BY <2>1, <2>2 DEF Accounted
<1>20. ASSUME NEW a \in Attempt, UnlinkFails(a) PROVE Accounted'
  <2>1. trail' = trail
    BY <1>20 DEF UnlinkFails, files
  <2>2. \A b \in Attempt : pc[b] \in {"crashed", "driving"} => pc'[b] = pc[b]
    BY <1>20, <1>0 DEF UnlinkFails, Step
  <2> QED BY <2>1, <2>2 DEF Accounted
<1>21. ASSUME NEW p \in Pid, Crash(p) PROVE Accounted'
  <2>1. CASE \E b \in Attempt : pc[b] = "driving" /\ PidOf[b] = p
    BY <1>21, <1>0, <2>1 DEF Accounted, Crash, Running, Holding, Driving
  <2>2. CASE \A b \in Attempt : ~ (pc[b] = "driving" /\ PidOf[b] = p)
    <3>1. \A b \in Attempt : pc[b] \in {"crashed", "driving"} => pc'[b] = pc[b]
      BY <1>21, <1>0, <2>2 DEF Crash, Running, Acquiring, Holding, Driving, Releasing
    <3> QED BY <1>21, <3>1 DEF Accounted, Crash, files
  <2> QED BY <2>1, <2>2
<1>22. ASSUME NEW p \in Pid, Recycle(p) PROVE Accounted'
  BY <1>22, <1>0 DEF Recycle, Accounted, files
<1>23. CASE UNCHANGED vars
  BY <1>23, <1>0 DEF vars, Accounted
<1> QED
  BY <1>1, <1>2, <1>3, <1>4, <1>5, <1>6, <1>7, <1>8, <1>9, <1>10, <1>11, <1>12, <1>13, <1>14, <1>15, <1>16, <1>17, <1>18, <1>19, <1>20, <1>21, <1>22, <1>23
     DEF Next, Acquire, Drive, Release

-----------------------------------------------------------------------------
(* The theorems *)

\* The lock is free and nobody runs when the run directory does not exist yet.
LEMMA Initially == Init => LockInv
<1> SUFFICES ASSUME Init PROVE LockInv
  OBVIOUS
<1>1. \A a \in Attempt : pc[a] = "idle"
  BY DEF Init
<1>2. TypeOK
  <2>1. trail = <<>> /\ trail \in Seq(Entry) /\ Len(trail) = 0
    BY DEF Init
  <2>2. /\ pc \in [Attempt -> Stage] /\ found \in [Attempt -> Attempt \cup {NoLock}]
        /\ previous \in [Attempt -> 0 .. 0] /\ at \in [Attempt -> 0 .. MaxWaits]
    BY RunLockAssumption DEF Init, Stage
  <2> QED BY <2>1, <2>2, RunLockAssumption DEF Init, TypeOK
<1>3. RunningIsUp /\ OneAcquirer /\ OneDriver /\ AcquirerSawDriver /\ ParkedRecorded
  BY <1>1 DEF RunningIsUp, OneAcquirer, OneDriver, AcquirerSawDriver, ParkedRecorded,
              Running, Acquiring, Holding, Driving, Releasing
<1>4. LockHasOwner /\ WaitsNumbered /\ Accounted
  BY DEF Init, LockHasOwner, WaitsNumbered, Accounted
<1> QED BY <1>2, <1>3, <1>4 DEF LockInv

\* LockInv is inductive.
THEOREM Inductive == LockInv /\ [Next]_vars => LockInv'
<1> SUFFICES ASSUME LockInv, [Next]_vars PROVE LockInv'
  OBVIOUS
<1> USE DEF LockInv
<1>1. TypeOK' /\ RunningIsUp'
  BY TypesKept, UpKept
<1>2. OneAcquirer' /\ OneDriver' /\ AcquirerSawDriver'
  BY AcquireKept
<1>3. LockHasOwner' /\ WaitsNumbered' /\ ParkedRecorded'
  BY OwnerKept, NumberedKept, ParkedKept
<1>4. Accounted'
  BY AccountedKept
<1> QED BY <1>1, <1>2, <1>3, <1>4

\* LockInv holds in every reachable state.
THEOREM Invariance == Spec => []LockInv
BY Initially, Inductive, PTL DEF Spec

\* Every variable keeps its type, in every instance.
THEOREM TypeCorrect == Spec => []TypeOK
<1>1. LockInv => TypeOK
  BY DEF LockInv
<1> QED BY <1>1, Invariance, PTL

\* However many processes call runWorkflow, crash, come back under an old pid or
\* fail to unlink: unless two acquisitions overlap, one attempt drives the run and
\* run.lock names it.
THEOREM OneDriverUnlessRaced == Spec => []OneDriver
<1>1. LockInv => OneDriver
  BY DEF LockInv
<1> QED BY <1>1, Invariance, PTL

\* A lock on disk always has an owner to blame, even when acquisitions race.
THEOREM LockIsOwned == Spec => []LockHasOwner
<1>1. LockInv => LockHasOwner
  BY DEF LockInv
<1> QED BY <1>1, Invariance, PTL

\* The verdict is one of the four states, given when the call is over, and the
\* events read are a prefix of the trail.
LEMMA WatchTypesKept ==
  TypeOK /\ WatchTypeOK /\ [WatchNext]_watchVars => WatchTypeOK'
<1> SUFFICES ASSUME TypeOK, WatchTypeOK, [WatchNext]_watchVars PROVE WatchTypeOK'
  OBVIOUS
<1>1. watch \in [stage : {"idle", "polling", "settling", "over"},
                seen : 0 .. Len(trail), verdict : Verdict]
      /\ (watch.stage = "over" <=> watch.verdict # "none")
  BY DEF WatchTypeOK
<1>2. trail \in Seq(Entry) /\ Len(trail) \in Nat
  BY DEF TypeOK
<1>3. Len(trail') \in Nat /\ Len(trail') >= Len(trail)
  <2>1. CASE trail' = trail
    BY <1>2, <2>1
  <2>2. ASSUME NEW type, NEW wait, Emit(type, wait)
        PROVE  Len(trail') \in Nat /\ Len(trail') >= Len(trail)
    BY <1>2, <2>2 DEF Emit
  <2>3. [Next]_vars
    BY DEF WatchNext, WatchTrail, WatchGrowth, WatchReports, watchVars
  <2>4. ASSUME NEW a \in Attempt, Drive(a) \/ Refuse(a)
        PROVE  trail' = trail \/ \E type, wait : Emit(type, wait)
    BY <2>4 DEF Drive, Refuse, Start, Resume, RefuseReplay, StillUnanswered, Answered,
                Misanswered, StepEnds, Park, Parked, Finish, files
  <2>5. ASSUME NEW a \in Attempt,
               \/ Open(a) \/ Release(a) \/ ReadLock(a) \/ TakeIt(a) \/ Held(a)
               \/ WriteLock(a) \/ WriteLockFails(a)
        PROVE  trail' = trail
    BY <2>5 DEF Open, Release, CheckNonce, Unlink, UnlinkFails, ReadLock, TakeIt, Held,
                WriteLock, WriteLockFails, files
  <2>6. ASSUME NEW p \in Pid, Crash(p) \/ Recycle(p) PROVE trail' = trail
    BY <2>6 DEF Crash, Recycle, files
  <2>7. ASSUME UNCHANGED vars PROVE trail' = trail
    BY <2>7 DEF vars
  <2> DEFINE Grown == trail' = trail \/ \E type, wait : Emit(type, wait)
  <2>8. ASSUME NEW a \in Attempt, Open(a) \/ Acquire(a) \/ Drive(a) \/ Release(a)
        PROVE  Grown
    BY <2>4, <2>5, <2>8 DEF Acquire
  <2>9. Grown
    <3>1. UNCHANGED vars => Grown
      BY <2>7
    <3>2. \A p \in Pid : Crash(p) \/ Recycle(p) => Grown
      BY <2>6
    <3> HIDE DEF Grown
    <3> QED BY <2>3, <2>8, <3>1, <3>2 DEF Next
  <2> QED BY <2>1, <2>2, <2>9
<1>4. CASE UNCHANGED watch
  BY <1>1, <1>2, <1>3, <1>4 DEF WatchTypeOK
<1>5. CASE WatchTrail
  <2>1. /\ watch.stage = "idle" /\ trail' = trail
        /\ watch' = [watch EXCEPT !.stage = "polling", !.seen = Len(trail)]
    BY <1>5 DEF WatchTrail, vars
  <2>2. /\ watch'.stage = "polling" /\ watch'.seen = Len(trail)
        /\ watch'.verdict = watch.verdict /\ watch.verdict = "none"
    BY <1>1, <2>1
  <2>3. watch' \in [stage : {"idle", "polling", "settling", "over"},
                   seen : 0 .. Len(trail'), verdict : Verdict]
    <3>1. watch' = [stage |-> "polling", seen |-> Len(trail), verdict |-> watch.verdict]
      BY <1>1, <2>1
    <3>2. Len(trail) \in 0 .. Len(trail')
      BY <1>2, <2>1
    <3> QED BY <1>1, <3>1, <3>2
  <2> QED BY <2>2, <2>3 DEF WatchTypeOK
<1>6. CASE WatchGrowth
  <2>1. /\ watch.stage = "polling" /\ trail' = trail
        /\ watch' = [watch EXCEPT !.stage = "settling", !.seen = Len(trail)]
    BY <1>6 DEF WatchGrowth, vars
  <2>2. /\ watch'.stage = "settling" /\ watch'.seen = Len(trail)
        /\ watch'.verdict = watch.verdict /\ watch.verdict = "none"
    BY <1>1, <2>1
  <2>3. watch' \in [stage : {"idle", "polling", "settling", "over"},
                   seen : 0 .. Len(trail'), verdict : Verdict]
    <3>1. watch' = [stage |-> "settling", seen |-> Len(trail), verdict |-> watch.verdict]
      BY <1>1, <2>1
    <3>2. Len(trail) \in 0 .. Len(trail')
      BY <1>2, <2>1
    <3> QED BY <1>1, <3>1, <3>2
  <2> QED BY <2>2, <2>3 DEF WatchTypeOK
<1>7. CASE WatchReports
  <2> DEFINE v == Classify(SubSeq(trail, 1, watch.seen), lock)
  <2>1. v \in Verdict \ {"none"}
    BY DEF Classify, Verdict
  <2>2. watch' = [watch EXCEPT !.stage = "over", !.verdict = v] /\ trail' = trail
    BY <1>7 DEF WatchReports, vars
  <2> HIDE DEF v
  <2> QED BY <1>1, <2>1, <2>2 DEF WatchTypeOK
<1> QED BY <1>4, <1>5, <1>6, <1>7 DEF WatchNext, watchVars

\* The observer disturbs nothing: LockInv holds beside it, and WatchTypeOK.
THEOREM WatchInvariance == WatchSpec => [](LockInv /\ WatchTypeOK)
<1>1. WatchInit => LockInv /\ WatchTypeOK
  <2> SUFFICES ASSUME WatchInit PROVE LockInv /\ WatchTypeOK
    OBVIOUS
  <2>1. trail = <<>> /\ watch = [stage |-> "idle", seen |-> 0, verdict |-> "none"]
    BY DEF WatchInit, Init
  <2>2. WatchTypeOK
    BY <2>1 DEF WatchTypeOK, Verdict
  <2> QED BY <2>2, Initially DEF WatchInit
<1>2. (LockInv /\ WatchTypeOK) /\ [WatchNext]_watchVars => (LockInv /\ WatchTypeOK)'
  <2> SUFFICES ASSUME LockInv, WatchTypeOK, [WatchNext]_watchVars
               PROVE  LockInv' /\ WatchTypeOK'
    OBVIOUS
  <2>1. [Next]_vars
    BY DEF WatchNext, WatchTrail, WatchGrowth, WatchReports, watchVars
  <2>2. WatchTypeOK'
    BY WatchTypesKept DEF LockInv
  <2> QED BY <2>1, <2>2, Inductive
<1> QED BY <1>1, <1>2, PTL DEF WatchSpec

\* A verdict of crashed is given by WatchReports, about the events the call has
\* read and the lock of that moment.
LEMMA CrashedVerdict ==
  ASSUME WatchTypeOK, [WatchNext]_watchVars, Reports("crashed")
  PROVE  /\ ~ HasTerminal(SubSeq(trail, 1, watch.seen))
         /\ SubSeq(trail, 1, watch.seen) # <<>>
         /\ ~ IsLive(lock)
<1> DEFINE v == Classify(SubSeq(trail, 1, watch.seen), lock)
<1>1. watch \in [stage : {"idle", "polling", "settling", "over"},
                seen : 0 .. Len(trail), verdict : Verdict]
  BY DEF WatchTypeOK
<1>2. WatchReports
  <2>1. ~ UNCHANGED watch
    BY DEF Reports
  <2>2. ~ WatchTrail /\ ~ WatchGrowth
    BY <1>1 DEF WatchTrail, WatchGrowth, Reports
  <2> QED BY <2>1, <2>2 DEF WatchNext, watchVars
<1>3. watch'.verdict = v
  <2> HIDE DEF v
  <2>1. watch' = [watch EXCEPT !.stage = "over", !.verdict = v]
    BY <1>2 DEF WatchReports, v
  <2> QED BY <1>1, <2>1
<1>4. v = "crashed"
  BY <1>3 DEF Reports
<1> QED BY <1>4 DEF Classify

\* Whoever drives a run has a live lock on disk, so no call of trst_watch can take
\* the run for crashed.
THEOREM NeverCrashedWhileDriven == WatchSpec => NotCrashedWhileDriven
<1> DEFINE Safe == Reports("crashed") /\ ~ raced => \A a \in Attempt : pc[a] \notin Holding
<1>1. LockInv /\ WatchTypeOK /\ [WatchNext]_watchVars => [Safe]_watchVars
  <2> SUFFICES ASSUME LockInv, WatchTypeOK, [WatchNext]_watchVars,
                      Reports("crashed"), ~ raced,
                      NEW a \in Attempt, pc[a] \in Holding
               PROVE  FALSE
    OBVIOUS
  <2>1. lock = a /\ Up(a)
    BY DEF LockInv, OneDriver
  <2>2. ~ IsLive(lock)
    BY CrashedVerdict
  <2> QED BY <2>1, <2>2, RunLockAssumption DEF IsLive, Up
<1>2. [Safe]_watchVars
      <=> [Reports("crashed") /\ ~ raced => \A a \in Attempt : pc[a] \notin Holding]_watchVars
  OBVIOUS
<1> HIDE DEF Safe
<1> QED BY <1>1, <1>2, WatchInvariance, PTL DEF WatchSpec, NotCrashedWhileDriven

\* A run whose whole trail reads as crashed lost a process or is parked: every
\* other end is on the trail before the lock is given up.
THEOREM CrashedHasCause == WatchSpec => CrashedForCause
<1> DEFINE Cause == \/ \E a \in Attempt : pc[a] = "crashed"
                    \/ LatestPendingWait(trail) # 0
           Safe == Reports("crashed") /\ ~ raced /\ watch.seen = Len(trail) => Cause
<1>1. LockInv /\ WatchTypeOK /\ [WatchNext]_watchVars => [Safe]_watchVars
  <2> SUFFICES ASSUME LockInv, WatchTypeOK, [WatchNext]_watchVars,
                      Reports("crashed"), ~ raced, watch.seen = Len(trail),
                      \A a \in Attempt : pc[a] # "crashed"
               PROVE  LatestPendingWait(trail) # 0
    OBVIOUS
  <2>1. trail \in Seq(Entry) /\ SubSeq(trail, 1, Len(trail)) = trail
    BY DEF LockInv, TypeOK
  <2>2. ~ HasTerminal(trail) /\ trail # <<>> /\ ~ IsLive(lock)
    BY <2>1, CrashedVerdict
  <2>3. \A a \in Attempt : pc[a] # "driving"
    BY <2>2, RunLockAssumption
       DEF LockInv, OneDriver, IsLive, Up, Holding, Driving
  <2>4. OpenWaits(trail) # {}
    BY <2>2, <2>3 DEF LockInv, Accounted
  <2>5. PICK i \in OpenWaits(trail) : LatestPendingWait(trail) = trail[i].wait
    BY <2>1, <2>4, PendingIsOpen
  <2>6. i \in DOMAIN trail /\ trail[i].type = "wait.started"
    BY DEF OpenWaits
  <2> QED BY <2>5, <2>6 DEF LockInv, WaitsNumbered
<1>2. [Safe]_watchVars
      <=> [Reports("crashed") /\ ~ raced /\ watch.seen = Len(trail)
             => \/ \E a \in Attempt : pc[a] = "crashed"
                \/ LatestPendingWait(trail) # 0]_watchVars
  OBVIOUS
<1> HIDE DEF Safe
<1> QED BY <1>1, <1>2, WatchInvariance, PTL DEF WatchSpec, CrashedForCause

-----------------------------------------------------------------------------
(* McpCalls: what a tool says of the process it spawned *)

NoStart == \A i \in DOMAIN trail : trail[i].type # "workflow.started"

\* The process of an attempt drives nothing any more, and never will.
Gone(a) == pc[a] \in {"done", "crashed"} \/ ended[a] \in {"noSpawn", "early"}
Blames == call.stage = "over" /\ call.reply \in {"exited", "noSpawn"}

CallStage == {"idle", "over", "starting", "verifying", "asking", "rechecking",
              "answering", "reading", "resolving", "sized", "polling", "peeking", "started"}
CallShape == call = [tool |-> call.tool, stage |-> call.stage, size |-> call.size, holder |-> call.holder,
                     reply |-> call.reply, listed |-> call.listed]
CallInv ==
    /\ TypeOK /\ CallShape
    /\ ended \in [Attempt -> {"none", "noSpawn", "early", "ok", "error"}]
    /\ \A a \in Attempt : ended[a] \in {"noSpawn", "early"} => pc[a] = "idle"
    /\ pc[Fresh] = "idle" => NoStart
    /\ call.reply \in {"exited", "noSpawn"} => call.stage = "over"
    /\ Continue \in spawned => call.stage \in {"polling", "peeking", "started", "over"}
    /\ call.stage \in {"polling", "peeking"} => Continue \in spawned
    /\ call.stage = "rechecking" => Gone(Fresh)
    /\ Blames => IF Continue \in spawned THEN Gone(Continue) ELSE Gone(Fresh) /\ NoStart

LEMMA TwoAttempts == Continue \in Attempt /\ Continue # Fresh /\ Fresh \in Attempt
BY RunLockAssumption, McpAssumption

\* What a step of a process does: an attempt that has ended stays so, none becomes
\* idle again, and the run is started by Fresh alone.
RunFrame ==
    /\ \A a \in Attempt : /\ pc[a] \in {"done", "crashed"} => pc'[a] = pc[a]
                          /\ pc'[a] = "idle" => pc[a] = "idle"
    /\ \/ UNCHANGED trail
       \/ \E type, wait : /\ Emit(type, wait)
                          /\ type = "workflow.started" => pc[Fresh] = "locked" /\ pc'[Fresh] # "idle"

LEMMA StepFrame ==
    ASSUME TypeOK, NEW a \in Attempt, NEW from \in Stage \ {"done", "crashed"}, NEW to \in Stage \ {"idle"},
           pc[a] = from, pc' = [pc EXCEPT ![a] = to]
    PROVE  \A b \in Attempt : /\ pc[b] \in {"done", "crashed"} => pc'[b] = pc[b]
                              /\ pc'[b] = "idle" => pc[b] = "idle"
BY DEF TypeOK

LEMMA StepsFrame ==
    ASSUME TypeOK, Next
    PROVE  RunFrame
<1> USE DEF TypeOK, RunFrame
<1> DEFINE Goes == \E a \in Attempt, from \in Stage \ {"done", "crashed"}, to \in Stage \ {"idle"} :
                       pc[a] = from /\ pc' = [pc EXCEPT ![a] = to]
<1>1. ASSUME Goes
      PROVE  \A b \in Attempt : /\ pc[b] \in {"done", "crashed"} => pc'[b] = pc[b]
                                /\ pc'[b] = "idle" => pc[b] = "idle"
  BY <1>1, StepFrame
<1>2. ASSUME NEW a \in Attempt, NEW from \in Stage \ {"done", "crashed"}, NEW to \in Stage \ {"idle"},
             Step(a, from, to)
      PROVE  Goes
  BY <1>2 DEF Step
<1> HIDE DEF Goes
<1> USE DEF Stage, Running, Acquiring, Holding, Driving, Releasing
<1>3. ASSUME NEW a \in Attempt, Open(a) PROVE RunFrame
  BY <1>1, <1>2, <1>3 DEF Open, files
<1>4. ASSUME NEW a \in Attempt, ReadLock(a) \/ TakeIt(a) \/ Held(a) PROVE RunFrame
  BY <1>1, <1>2, <1>4 DEF ReadLock, TakeIt, Held, files
<1>5. ASSUME NEW a \in Attempt, Refuse(a) PROVE RunFrame
  BY <1>1, <1>2, <1>5 DEF Refuse
<1>6. ASSUME NEW a \in Attempt, WriteLock(a) \/ WriteLockFails(a) PROVE RunFrame
  BY <1>1, <1>2, <1>6 DEF WriteLock, WriteLockFails, files
<1>7. ASSUME NEW a \in Attempt, Start(a) PROVE RunFrame
  <2>1. Emit("workflow.started", 0) /\ pc[Fresh] = "locked" /\ pc'[Fresh] # "idle"
    BY <1>7 DEF Start, Step
  <2> QED
    BY <1>1, <1>2, <1>7, <2>1 DEF Start
<1>8. ASSUME NEW a \in Attempt, Resume(a) PROVE RunFrame
  <2>1. \E wait : Emit("workflow.resumed", wait)
    BY <1>8 DEF Resume
  <2> QED
    BY <1>1, <1>2, <1>8, <2>1 DEF Resume
<1>9. ASSUME NEW a \in Attempt, RefuseReplay(a) \/ StillUnanswered(a) \/ Parked(a) PROVE RunFrame
  BY <1>1, <1>2, <1>9 DEF RefuseReplay, StillUnanswered, Parked, files
<1>10. ASSUME NEW a \in Attempt, Answered(a) \/ Misanswered(a) PROVE RunFrame
  <2>1. \E wait : Emit("wait.satisfied", wait) \/ Emit("wait.failed", wait)
    BY <1>10 DEF Answered, Misanswered
  <2> QED
    BY <1>1, <1>2, <1>10, <2>1 DEF Answered, Misanswered
<1>11. ASSUME NEW a \in Attempt, StepEnds(a) PROVE RunFrame
  BY <1>11 DEF StepEnds
<1>12. ASSUME NEW a \in Attempt, Park(a) PROVE RunFrame
  <2>1. \E wait : Emit("wait.started", wait)
    BY <1>12 DEF Park
  <2> QED
    BY <1>1, <1>2, <1>12, <2>1 DEF Park
<1>13. ASSUME NEW a \in Attempt, Finish(a) PROVE RunFrame
  <2>1. Emit("workflow.completed", 0) \/ Emit("workflow.failed", 0)
    BY <1>13 DEF Finish
  <2>2. Goes
    BY <1>2, <1>13 DEF Finish
  <2> QED
    BY <1>1, <2>1, <2>2
<1>14. ASSUME NEW a \in Attempt, CheckNonce(a) PROVE RunFrame
  BY <1>1, <1>2, <1>14 DEF CheckNonce, files
<1>15. ASSUME NEW a \in Attempt, Unlink(a) \/ UnlinkFails(a) PROVE RunFrame
  BY <1>1, <1>2, <1>15 DEF Unlink, UnlinkFails
<1>16. ASSUME NEW p \in Pid, Crash(p) PROVE RunFrame
  BY <1>16 DEF Crash, files
<1>17. ASSUME NEW p \in Pid, Recycle(p) PROVE RunFrame
  BY <1>17 DEF Recycle, files
<1> QED
  BY <1>3, <1>4, <1>5, <1>6, <1>7, <1>8, <1>9, <1>10, <1>11, <1>12, <1>13, <1>14, <1>15, <1>16, <1>17
     DEF Next, Acquire, Drive, Release

LEMMA StartsOnce ==
    ASSUME TypeOK, NoStart, NEW type, NEW wait, Emit(type, wait), type # "workflow.started"
    PROVE  NoStart'
<1>1. trail \in Seq(Entry \cup {Event(type, wait)})
  <2>1. Entry \subseteq Entry \cup {Event(type, wait)} /\ trail \in Seq(Entry)
    BY DEF TypeOK
  <2> QED
    BY <2>1
<1>2. /\ DOMAIN trail' = 1 .. Len(trail) + 1 /\ DOMAIN trail = 1 .. Len(trail) /\ Len(trail) \in Nat
      /\ \A i \in 1 .. Len(trail) : trail'[i] = trail[i]
      /\ trail'[Len(trail) + 1] = Event(type, wait)
  BY <1>1 DEF Emit
<1>3. Event(type, wait).type # "workflow.started"
  BY DEF Event
<1> QED
  BY <1>2, <1>3 DEF NoStart

LEMMA RunKeepsCalls ==
    ASSUME CallInv, RunStep
    PROVE  CallInv'
<1>1. TypeOK /\ TypeOK' /\ RunFrame
  BY StepsFrame, TypesKept DEF CallInv, RunStep
<1>2. /\ UNCHANGED <<call, spawned>>
      /\ \A a \in Attempt : ended[a] \in {"noSpawn", "early"} => pc'[a] = pc[a]
  BY DEF RunStep
<1>3. /\ ended' \in [Attempt -> {"none", "noSpawn", "early", "ok", "error"}]
      /\ \A a \in Attempt : /\ ended[a] \in {"noSpawn", "early"} => ended'[a] = ended[a]
                            /\ ended'[a] \in {"noSpawn", "early"} => ended'[a] = ended[a]
  <2>1. ended \in [Attempt -> {"none", "noSpawn", "early", "ok", "error"}]
    BY DEF CallInv
  <2>2. ended' = ended \/ (ended[Continue] = "none" /\ \E code \in {"ok", "error"} : ended' = [ended EXCEPT ![Continue] = code])
    BY DEF RunStep, ExitCode
  <2> QED
    BY <2>1, <2>2, TwoAttempts
<1>4. \A a \in Attempt : Gone(a) => Gone(a)'
  <2> SUFFICES ASSUME NEW a \in Attempt, Gone(a) PROVE Gone(a)'
    OBVIOUS
  <2>1. CASE pc[a] \in {"done", "crashed"}
    <3>1. pc'[a] = pc[a]
      BY <1>1, <2>1 DEF RunFrame
    <3> QED
      BY <2>1, <3>1 DEF Gone
  <2>2. CASE ended[a] \in {"noSpawn", "early"}
    BY <1>3, <2>2 DEF Gone
  <2> QED
    BY <2>1, <2>2 DEF Gone
<1>5. ASSUME NoStart, pc'[Fresh] = "idle" \/ Gone(Fresh) PROVE NoStart'
  <2>1. CASE UNCHANGED trail
    BY <1>5, <2>1 DEF NoStart
  <2>2. ASSUME NEW type, NEW wait, Emit(type, wait),
               type = "workflow.started" => pc[Fresh] = "locked" /\ pc'[Fresh] # "idle"
        PROVE  NoStart'
    <3>1. pc[Fresh] # "locked" \/ pc'[Fresh] = "idle"
      BY <1>5, TwoAttempts DEF Gone, CallInv
    <3> QED
      BY <1>1, <1>5, <2>2, <3>1, StartsOnce
  <2> QED
    BY <1>1, <2>1, <2>2 DEF RunFrame
<1>6. pc'[Fresh] = "idle" => NoStart'
  <2> SUFFICES ASSUME pc'[Fresh] = "idle" PROVE NoStart'
    OBVIOUS
  <2>1. pc[Fresh] = "idle"
    BY <1>1, TwoAttempts DEF RunFrame
  <2> QED
    BY <1>5, <2>1 DEF CallInv
<1>7. Blames' => IF Continue \in spawned THEN Gone(Continue)' ELSE Gone(Fresh)' /\ NoStart'
  BY <1>2, <1>4, <1>5, TwoAttempts DEF CallInv, Blames
<1>8. \A a \in Attempt : ended'[a] \in {"noSpawn", "early"} => pc'[a] = "idle"
  BY <1>2, <1>3 DEF CallInv
<1>9. call.stage = "rechecking" => Gone(Fresh)'
  BY <1>4, TwoAttempts DEF CallInv
<1> QED
  BY <1>1, <1>2, <1>3, <1>6, <1>7, <1>8, <1>9 DEF CallInv, CallShape

LEMMA LeaveKeepsCalls ==
    ASSUME CallInv, NEW a \in Attempt, EndsEarly(a)
    PROVE  CallInv'
<1>1. /\ UNCHANGED <<vars, call, spawned>> /\ ended[a] = "none" /\ pc[a] = "idle"
      /\ ended' = [ended EXCEPT ![a] = "early"] /\ ended \in [Attempt -> {"none", "noSpawn", "early", "ok", "error"}]
  BY DEF EndsEarly, CallInv
<1>2. TypeOK' /\ UNCHANGED <<pc, trail>>
  BY <1>1, TypesKept DEF CallInv, vars
<1>3. \A b \in Attempt : Gone(b) => Gone(b)'
  BY <1>1, <1>2 DEF Gone
<1> QED
  BY <1>1, <1>2, <1>3, TwoAttempts DEF CallInv, CallShape, NoStart, Blames

\* The server answers without a process, or before it has one.
ServerKeeps ==
    /\ UNCHANGED <<vars, spawned, ended>> /\ CallShape'
    /\ call.stage \in CallStage \ {"verifying", "asking", "rechecking", "polling", "peeking", "started", "over"}
    /\ call'.stage \notin {"verifying", "asking", "rechecking", "polling", "peeking", "started"}
    /\ call'.reply \notin {"exited", "noSpawn"}

LEMMA AnswersKeepCalls ==
    ASSUME CallInv, ServerKeeps
    PROVE  CallInv'
<1>1. TypeOK' /\ UNCHANGED <<pc, trail>>
  BY TypesKept DEF CallInv, ServerKeeps, vars
<1>2. Continue \notin spawned
  BY DEF CallInv, ServerKeeps
<1> QED
  BY <1>1, <1>2 DEF CallInv, ServerKeeps, NoStart, Blames

LEMMA ServerAnswers ==
    ASSUME CallInv,
           \/ ListTools \/ CallWithout \/ CallWorkflowTool \/ CallRunWorkflow \/ CallResume \/ NoCliEntry
           \/ \E wait \in 1 .. MaxWaits : CallAnswer(wait)
           \/ WriteAnswer \/ ReadRun \/ SizeBefore
    PROVE  ServerKeeps
<1> USE DEF CallInv, CallShape, ServerKeeps, CallStage
<1>1. CASE ListTools
  BY <1>1 DEF ListTools
<1>2. CASE CallWithout
  BY <1>2 DEF CallWithout
<1>3. CASE CallWorkflowTool
  BY <1>3 DEF CallWorkflowTool
<1>4. CASE CallRunWorkflow
  BY <1>4 DEF CallRunWorkflow
<1>5. CASE CallResume
  BY <1>5 DEF CallResume
<1>6. CASE NoCliEntry
  BY <1>6 DEF NoCliEntry, Replies, NoCall
<1>7. ASSUME NEW wait \in 1 .. MaxWaits, CallAnswer(wait) PROVE ServerKeeps
  <2>1. PICK error \in {"none", "unreadable", "notPending", "ambiguous"} : error = AnswerError(trail, wait)
    BY DEF AnswerError
  <2> QED
    BY <1>7, <2>1 DEF CallAnswer
<1>8. CASE WriteAnswer
  BY <1>8 DEF WriteAnswer, Replies, NoCall, To
<1>9. CASE ReadRun
  <2>1. PICK error \in {"none", "unreadable", "neverStarted"} : error = ResumeError(trail)
    BY DEF ResumeError
  <2> QED
    BY <1>9, <2>1 DEF ReadRun, Replies, NoCall, To
<1>10. CASE SizeBefore
  BY <1>10 DEF SizeBefore
<1> QED
  BY <1>1, <1>2, <1>3, <1>4, <1>5, <1>6, <1>7, <1>8, <1>9, <1>10

LEMMA SpawnKeepsCalls ==
    ASSUME CallInv, SpawnRun \/ SpawnContinue
    PROVE  CallInv'
<1>1. TypeOK' /\ UNCHANGED <<pc, trail>>
  BY TypesKept DEF CallInv, SpawnRun, SpawnContinue, vars
<1>2. ended \in [Attempt -> {"none", "noSpawn", "early", "ok", "error"}] /\ CallShape
  BY DEF CallInv
<1>3. CASE SpawnRun
  <2>1. PICK how \in {"none", "noSpawn"} : ended' = [ended EXCEPT ![Fresh] = how]
    BY <1>3 DEF SpawnRun
  <2>2. /\ CallShape' /\ call'.stage = "verifying" /\ call'.reply = call.reply /\ call.stage = "starting"
        /\ spawned' = spawned \cup {Fresh} /\ pc[Fresh] = "idle"
    BY <1>2, <1>3 DEF SpawnRun, To, CallShape
  <2>3. Continue \notin spawned'
    BY <2>2, TwoAttempts DEF CallInv
  <2> QED
    BY <1>1, <1>2, <2>1, <2>2, <2>3, TwoAttempts DEF CallInv, NoStart, Blames
<1>4. CASE SpawnContinue
  <2>1. PICK how \in {"none", "noSpawn"} : ended' = [ended EXCEPT ![Continue] = how]
    BY <1>4 DEF SpawnContinue
  <2>2. /\ CallShape' /\ call'.stage = "polling" /\ call'.reply = call.reply /\ call.stage = "sized"
        /\ spawned' = spawned \cup {Continue} /\ pc[Continue] = "idle"
    BY <1>2, <1>4 DEF SpawnContinue, CallShape
  <2> QED
    BY <1>1, <1>2, <2>1, <2>2, TwoAttempts DEF CallInv, NoStart, Blames
<1> QED
  BY <1>3, <1>4

\* The server watches the process it spawned.
LEMMA WatchKeepsCalls ==
    ASSUME CallInv, PollRun \/ AskRun \/ RecheckRun \/ PollSize \/ PeekLock \/ ReportStatus
    PROVE  CallInv'
<1>1. UNCHANGED <<vars, spawned, ended>>
  BY DEF PollRun, AskRun, RecheckRun, PollSize, PeekLock, ReportStatus
<1>2. TypeOK' /\ UNCHANGED <<pc, trail>> /\ \A a \in Attempt : Gone(a)' <=> Gone(a)
  BY <1>1, TypesKept DEF CallInv, vars, Gone
<1>3. CallShape
  BY DEF CallInv
<1>4. CASE PollRun
  <2>1. /\ CallShape' /\ call.stage = "verifying" /\ call'.stage \in {"asking", "over"}
        /\ call'.reply \in {call.reply, "started"}
    BY <1>3, <1>4 DEF PollRun, Replies, NoCall, To, CallShape
  <2> QED
    BY <1>1, <1>2, <2>1 DEF CallInv, NoStart, Blames
<1>5. CASE AskRun
  <2>1. /\ CallShape' /\ call.stage = "asking"
        /\ \/ call'.stage = "over" /\ call'.reply = "noSpawn" /\ ended[Fresh] = "noSpawn"
           \/ call'.stage = "rechecking" /\ call'.reply = call.reply /\ Exited(Fresh)
           \/ call'.stage = "verifying" /\ call'.reply = call.reply
           \/ call'.stage = "over" /\ call'.reply = "slow"
    BY <1>3, <1>5 DEF AskRun, Replies, NoCall, To, CallShape
  <2>2. ended[Fresh] = "noSpawn" => Gone(Fresh) /\ NoStart
    BY TwoAttempts DEF CallInv, Gone
  <2>3. Exited(Fresh) => Gone(Fresh)
    BY DEF Exited, Gone
  <2> QED
    BY <1>1, <1>2, <2>1, <2>2, <2>3, TwoAttempts DEF CallInv, NoStart, Blames
<1>6. CASE RecheckRun
  <2>1. /\ CallShape' /\ call.stage = "rechecking" /\ call'.stage = "over"
        /\ call'.reply = "started" \/ (call'.reply = "exited" /\ trail = <<>>)
    BY <1>3, <1>6 DEF RecheckRun, Replies, NoCall, Materialized, CallShape
  <2>2. trail = <<>> => NoStart
    BY DEF NoStart
  <2> QED
    BY <1>1, <1>2, <2>1, <2>2, TwoAttempts DEF CallInv, NoStart, Blames
<1>7. CASE PollSize
  <2>1. /\ CallShape' /\ call.stage = "polling"
        /\ \/ call'.stage = "over" /\ call'.reply = "noSpawn" /\ ended[Continue] = "noSpawn"
           \/ call'.stage = "started" /\ call'.reply = "none"
           \/ call'.stage = "peeking" /\ call'.reply = call.reply
    BY <1>3, <1>7 DEF PollSize, Replies, Started, NoCall, To, CallShape
  <2>2. ended[Continue] = "noSpawn" => Gone(Continue)
    BY DEF Gone
  <2> QED
    BY <1>1, <1>2, <2>1, <2>2, TwoAttempts DEF CallInv, NoStart, Blames
<1>8. CASE PeekLock
  <2>1. /\ CallShape' /\ call.stage = "peeking"
        /\ \/ call'.stage = "over" /\ call'.reply = "exited" /\ Exited(Continue)
           \/ call'.stage = "started" /\ call'.reply = "none"
           \/ call'.stage = "polling" /\ call'.reply = call.reply
    BY <1>3, <1>8 DEF PeekLock, ExitSays, Replies, Started, NoCall, To, CallShape
  <2>2. Exited(Continue) => Gone(Continue)
    BY DEF Exited, Gone
  <2> QED
    BY <1>1, <1>2, <2>1, <2>2, TwoAttempts DEF CallInv, NoStart, Blames
<1>9. CASE ReportStatus
  <2>1. PICK status : status = StatusFromEvents(trail) /\ Replies(status) /\ call.stage = "started"
    BY <1>9 DEF ReportStatus
  <2>2. status \notin {"exited", "noSpawn"}
    <3>1. CASE \E i \in DOMAIN trail : trail[i].type \in Terminal
      <4>1. PICK last : last = CHOOSE i \in {i \in DOMAIN trail : trail[i].type \in Terminal} :
                                   \A j \in {j \in DOMAIN trail : trail[j].type \in Terminal} : j <= i
        OBVIOUS
      <4>2. last \in DOMAIN trail /\ trail[last].type \in Terminal
        <5> DEFINE S == {i \in DOMAIN trail : trail[i].type \in Terminal}
        <5>1. trail \in Seq(Entry)
          BY DEF CallInv, TypeOK
        <5>2. S \in SUBSET (1 .. Len(trail)) /\ Len(trail) \in Nat /\ S # {}
          BY <3>1, <5>1
        <5>3. \E m \in S : \A i \in S : i <= m
          <6> HIDE DEF S
          <6> QED
            BY <5>2, LastExists
        <5>4. last = CHOOSE m \in S : \A i \in S : i <= m
          BY <4>1
        <5>5. last \in S
          <6> HIDE DEF S
          <6> QED
            BY <5>3, <5>4
        <5> QED
          BY <5>5
      <4>3. status = trail[last].type
        BY <2>1, <3>1, <4>1 DEF StatusFromEvents
      <4> QED
        BY <4>2, <4>3 DEF Terminal
    <3>2. CASE ~\E i \in DOMAIN trail : trail[i].type \in Terminal
      BY <2>1, <3>2 DEF StatusFromEvents
    <3> QED
      BY <3>1, <3>2
  <2>3. CallShape' /\ call'.stage = "over" /\ call'.reply = status
    BY <2>1 DEF Replies, NoCall, CallShape
  <2> QED
    BY <1>1, <1>2, <2>2, <2>3 DEF CallInv, NoStart, Blames
<1> QED
  BY <1>4, <1>5, <1>6, <1>7, <1>8, <1>9

\* A tool that blames its process (run_workflow.ts, trst_resume.ts) tells the truth for
\* good: the run it did not see start is not started later by that process, and the
\* continue that it saw exit drives nothing.
THEOREM FailedCallsAreOver == McpSpec => []FailedCallIsOver
<1>1. McpInit => CallInv
  <2> SUFFICES ASSUME McpInit PROVE CallInv
    OBVIOUS
  <2>1. TypeOK /\ trail = <<>>
    BY Initially DEF McpInit, Init, LockInv
  <2> QED
    BY <2>1 DEF McpInit, NoCall, CallInv, CallShape, NoStart, Blames
<1>2. ASSUME CallInv, [McpNext]_mcpVars PROVE CallInv'
  <2>1. CASE UNCHANGED mcpVars
    <3>1. UNCHANGED <<vars, call, spawned, ended>>
      BY <2>1 DEF mcpVars, callVars
    <3>2. TypeOK' /\ UNCHANGED <<pc, trail>>
      BY <1>2, <3>1, TypesKept DEF CallInv, vars
    <3> QED
      BY <1>2, <3>1, <3>2 DEF CallInv, CallShape, NoStart, Blames, Gone
  <2>2. CASE RunStep
    BY <1>2, <2>2, RunKeepsCalls
  <2>3. ASSUME NEW a \in Attempt, EndsEarly(a) PROVE CallInv'
    BY <1>2, <2>3, LeaveKeepsCalls
  <2>4. CASE \/ ListTools \/ CallWithout \/ CallWorkflowTool \/ CallRunWorkflow \/ CallResume \/ NoCliEntry
             \/ \E wait \in 1 .. MaxWaits : CallAnswer(wait)
             \/ WriteAnswer \/ ReadRun \/ SizeBefore
    BY <1>2, <2>4, ServerAnswers, AnswersKeepCalls
  <2>5. CASE SpawnRun \/ SpawnContinue
    BY <1>2, <2>5, SpawnKeepsCalls
  <2>6. CASE PollRun \/ AskRun \/ RecheckRun \/ PollSize \/ PeekLock \/ ReportStatus
    BY <1>2, <2>6, WatchKeepsCalls
  <2> QED
    BY <1>2, <2>1, <2>2, <2>3, <2>4, <2>5, <2>6 DEF McpNext
<1>3. CallInv => FailedCallIsOver
  <2> SUFFICES ASSUME CallInv, call.reply \in {"exited", "noSpawn"}
               PROVE  IF Continue \in spawned THEN pc[Continue] \notin Running
                      ELSE \A i \in DOMAIN trail : trail[i].type # "workflow.started"
    BY DEF FailedCallIsOver
  <2>1. Blames
    BY DEF CallInv, Blames
  <2>2. Gone(Continue) => pc[Continue] \notin Running
    BY TwoAttempts DEF CallInv, Gone, Running, Acquiring, Holding, Driving, Releasing
  <2> QED
    BY <2>1, <2>2 DEF CallInv, NoStart
<1> QED
  BY <1>1, <1>2, <1>3, PTL DEF McpSpec

=============================================================================
