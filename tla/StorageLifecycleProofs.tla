----------------------- MODULE StorageLifecycleProofs -----------------------
(***************************************************************************)
(* For any number of runs, run ids and commands: the state has its types,  *)
(* no run is lost, no copy holds the files of two runs, what the archive   *)
(* lists can be restored, and a pin holds.                                 *)
(*                                                                         *)
(* The inductive invariant speaks of one run id at a time.  While an id is *)
(* not contended at most one process is at work there, and what it holds   *)
(* in memory, what the directory holds and what the archive holds are      *)
(* related by the stage that process has come to (StageKeeps).  An action  *)
(* disturbs one id: Frame carries the invariant over for every other.      *)
(***************************************************************************)
EXTENDS StorageLifecycle, FiniteSetTheorems, WellFoundedInduction, TLAPS

(***************************************************************************)
(* The inductive invariant.                                                *)
(***************************************************************************)

\* A trail begins with workflow.started, and holds the events of its own run.
LogsStarted ==
    \A g \in Run :
        /\ at[g] = None => log[g] = <<>>
        /\ log[g] # <<>> => log[g][1].type = "workflow.started"
        /\ \A i \in DOMAIN log[g] : log[g][i].run = g

\* A directory that is not there holds nothing.
AbsentIsEmpty == \A n \in RunId : hot[n].there \/ hot[n] = Nothing

OneOwner(copy) == \A a, b \in Owners(copy) : a = b

\* No copy holds files of two runs, nor will one when what is being restored is added.
Unmixed(n) ==
    /\ OneOwner(hot[n])
    /\ OneOwner(payload[n])
    /\ \A g \in driven : at[g] = n => Owners(hot[n]) \subseteq {g}
    /\ \A c \in Command : Busy(c, n) =>
        /\ OneOwner(cli[c].read)
        /\ cli[c].stage = "mkdir" => ~ hot[n].there
        /\ cli[c].stage = "restore" =>
            \A a \in Owners(hot[n]), b \in Owners(cli[c].read) : a = b

\* The files of a run are saved together and removed one by one.
Complete(copy) == copy.events # <<>> <=> copy.work # None
SameFiles(a, b) == a.there /\ b.there /\ a.events = b.events /\ a.work = b.work

\* The runs that must be whole somewhere.
Owed(n) == {g \in Run : at[g] = n /\ log[g] # <<>> /\ g \notin forgone}

\* The directory holds nothing but whole runs: all of its files, all of the trail.
InOrder(n) ==
    /\ Complete(hot[n])
    /\ \A g \in Owed(n) : g \in Owners(hot[n]) => IsWhole(hot[n], g)

\* A restore has written what is no longer in its hand.
Restored(n, read) ==
    /\ hot[n].there /\ payload[n].there
    /\ \/ read.events = payload[n].events /\ hot[n].events = <<>>
       \/ read.events = <<>> /\ hot[n].events = payload[n].events
    /\ \/ read.work = payload[n].work /\ hot[n].work = None
       \/ read.work = None /\ hot[n].work = payload[n].work

\* What a command may rely on at each stage.
StageKeeps(n, stage, read) ==
    /\ stage = "read" => hot[n].there
    /\ stage \in {"payload", "pack"} => SameFiles(read, hot[n])
    /\ stage = "pack" => ~ payload[n].there
    /\ stage \in {"manifest", "list", "restored"} => SameFiles(payload[n], hot[n])
    /\ stage = "mkdir" => read = payload[n] /\ payload[n].there
    /\ stage = "restore" => Restored(n, read)
    /\ stage \in {"remove", "restore"} => \A g \in Owed(n) : IsWhole(payload[n], g)

\* No run that is owed is lost, whatever stage the command at work has come to.
Kept(n) ==
    /\ Complete(payload[n])
    /\ (\A c \in Command : Busy(c, n) => cli[c].stage \notin {"remove", "restore"})
       => InOrder(n)
    /\ \A g \in driven : at[g] = n => hot[n].there /\ hot[n].events = log[g]
    /\ \A g \in Owed(n) : IsWhole(hot[n], g) \/ IsWhole(payload[n], g)
    /\ \A c \in Command : Busy(c, n) => StageKeeps(n, cli[c].stage, cli[c].read)

\* The archive lists what it holds, but while a command writes or removes it.
Listed(n) ==
    /\ (\A c \in Command : Busy(c, n) =>
            cli[c].stage \notin {"pack", "manifest", "list", "unlist"})
       => (payload[n].there <=> manifest[n] = "whole")
    /\ \A c \in Command : Busy(c, n) =>
        /\ cli[c].stage \in {"payload", "pack"} => cli[c].read.there
        /\ cli[c].stage \in {"manifest", "list"} => payload[n].there
        /\ cli[c].stage = "unlist" => ~ payload[n].there

\* What holds of a run id on which no two processes have met.
Place(n) ==
    n \notin contended =>
        /\ ~ Crowded(n)
        /\ Unmixed(n)
        /\ "directory" \notin cut[n] => Kept(n)
        /\ cut[n] = {} => Listed(n)

PlaceInv == \A n \in RunId : Place(n)

TypeInv == TypeOK /\ LogsStarted

StorageInv == TypeInv /\ AbsentIsEmpty /\ PlaceInv

(***************************************************************************)
(* Positions in a trail.                                                   *)
(***************************************************************************)

\* A set of numbers that is bounded and not empty has a greatest element.
LEMMA GreatestMember ==
  ASSUME NEW n \in Nat, NEW S \in SUBSET (0 .. n), S # {}
  PROVE  \E x \in S : \A y \in S : x >= y
<1>0. PICK some \in S : some \in 0 .. n
  OBVIOUS
<1> DEFINE Bounds == {m \in Nat : \A y \in S : y <= m}
           R == OpToRel(<, Nat)
<1>1. n \in Bounds /\ Bounds \in SUBSET Nat
  OBVIOUS
<1>2. PICK m \in Bounds : \A z \in Bounds : <<z, m>> \notin R
  <2>1. IsWellFoundedOn(R, Nat)
    BY NatLessThanWellFounded
  <2> HIDE DEF Bounds, R
  <2> QED BY <1>1, <2>1, WFMin
<1>3. CASE m \in S
  BY <1>3
<1>4. CASE m \notin S
  <2>1. some \in Nat /\ some <= m
    BY <1>0
  <2>2. m - 1 \in Bounds
    BY <1>4, <2>1
  <2>3. ~ (m - 1 < m)
    BY <1>2, <2>2 DEF OpToRel
  <2> QED BY <2>3
<1> QED BY <1>3, <1>4

\* Latest finds one of the positions it is given, or none.
LEMMA LatestIsMember ==
  ASSUME NEW n \in Nat, NEW positions \in SUBSET (1 .. n)
  PROVE  Latest(positions) \in positions \cup {0}
<1>1. positions \cup {0} \in SUBSET (0 .. n) /\ positions \cup {0} # {}
  OBVIOUS
<1>2. \E x \in positions \cup {0} : \A y \in positions \cup {0} : x >= y
  BY <1>1, GreatestMember
<1> QED BY <1>2 DEF Latest

\* An event has the fields of TrailEvent.
LEMMA EventTyped ==
  ASSUME NEW g \in Run, NEW type \in EventType, NEW step \in Step \cup {NoStep},
         NEW source \in Nat
  PROVE  Event(g, type, step, source) \in TrailEvent /\ Event(g, type, step, source).run = g
  BY DEF Event, TrailEvent

\* What a driver appends is an event of its own run, workflow.started first.
LEMMA NewEventsTyped ==
  ASSUME TypeInv, NEW g \in Run, NEW event \in NewEvents(g)
  PROVE  /\ event \in TrailEvent /\ event.run = g
         /\ log[g] = <<>> => event.type = "workflow.started"
<1> DEFINE last == log[g][Len(log[g])]
<1>1. CASE log[g] = <<>>
  BY <1>1 DEF NewEvents, Event, TrailEvent, EventType
<1>2. CASE log[g] # <<>>
  <2>1. last \in TrailEvent
    BY <1>2 DEF TypeInv, TypeOK
  <2>2. last.step \in Step \cup {NoStep} /\ 0 \in Nat
    BY <2>1 DEF TrailEvent
  <2>3. \E type \in EventType, step \in Step \cup {NoStep} : event = Event(g, type, step, 0)
    <3> HIDE DEF last
    <3> QED BY <1>2, <2>2 DEF NewEvents, EventType, StepEnd, RunEnd, last
  <2> QED BY <1>2, <2>3, <2>2, EventTyped
<1> QED BY <1>1, <1>2

\* The latest unresolved failure is a position of the trail, or none.
LEMMA FailureIsPosition ==
  ASSUME NEW events \in Seq(TrailEvent)
  PROVE  LatestUnresolvedFailure(events) \in DOMAIN events \cup {0}
<1>1. Len(events) \in Nat /\ DOMAIN events = 1 .. Len(events)
  OBVIOUS
<1>2. ASSUME NEW positions \in SUBSET DOMAIN events
      PROVE  Latest(positions) \in DOMAIN events \cup {0}
  BY <1>1, <1>2, LatestIsMember
<1> DEFINE end == Latest(Positions(events, {"workflow.completed", "workflow.cancelled"}))
           failures == Positions(events, {"workflow.failed"})
           stepFailures ==
              {i \in DOMAIN events :
                  /\ i > end
                  /\ ~ IsResolved(events, i)
                  /\ \/ events[i].type = "step.failed"
                     \/ IsOpenStart(events, i) /\ \A f \in failures : f < i}
           open == {f \in failures : ~ IsResolved(events, f)}
<1>3. stepFailures \subseteq DOMAIN events /\ open \subseteq DOMAIN events
  BY DEF Positions
<1>4. LatestUnresolvedFailure(events) \in {Latest(stepFailures), 0, Latest(open)}
  BY DEF LatestUnresolvedFailure
<1> HIDE DEF stepFailures, open
<1> QED BY <1>2, <1>3, <1>4

\* What reopens a run is an event of that run.
LEMMA ReopeningsTyped ==
  ASSUME TypeInv, NEW g \in Run, log[g] # <<>>, NEW event \in Reopenings(g)
  PROVE  event \in TrailEvent /\ event.run = g
<1> DEFINE last == log[g][Len(log[g])]
<1>1. log[g] \in Seq(TrailEvent) /\ Len(log[g]) \in Nat \ {0} /\ DOMAIN log[g] = 1 .. Len(log[g])
  BY DEF TypeInv, TypeOK
<1>2. ASSUME NEW i \in DOMAIN log[g]
      PROVE  log[g][i].step \in Step \cup {NoStep}
  <2>1. log[g][i] \in TrailEvent
    BY <1>1
  <2> QED BY <2>1 DEF TrailEvent
<1>3. last.step \in Step \cup {NoStep}
  BY <1>1, <1>2
<1>4. LatestUnresolvedFailure(log[g]) \in DOMAIN log[g] \cup {0}
  BY <1>1, FailureIsPosition
<1>5. last.type = "workflow.cancelled" => Len(log[g]) - 1 \in DOMAIN log[g]
  BY <1>1 DEF TypeInv, LogsStarted
<1>6. Positions(log[g], {"step.failed"}) \subseteq DOMAIN log[g]
  BY DEF Positions
<1>7. \E type \in EventType, step \in Step \cup {NoStep}, source \in Nat :
        event = Event(g, type, step, source)
  <2> DEFINE failed == Positions(log[g], {"step.failed"})
             failure == LatestUnresolvedFailure(log[g])
             Resumed == {Event(g, "workflow.resumed", log[g][f].step, f) :
                f \in {f \in failed :
                        /\ last.type = "workflow.failed"
                        /\ failed = {f}
                        /\ \A i \in Positions(log[g], {"step.completed"}) :
                                i > f => log[g][i].step # log[g][f].step}}
             Cancelled == {Event(g, "workflow.retryStarted", log[g][i].step, 0) :
                i \in {i \in {Len(log[g]) - 1} :
                        /\ last.type = "workflow.cancelled"
                        /\ log[g][i].type = "step.cancelled"}}
             Retried == {Event(g, "workflow.retryStarted", log[g][i].step, i) :
                i \in {i \in {failure} \ {0} :
                        /\ last.type # "workflow.cancelled"
                        /\ log[g][i].step # NoStep}}
  <2>1. \/ event = Event(g, "workflow.resumed", last.step, 0)
        \/ event \in Resumed \/ event \in Cancelled \/ event \in Retried
    BY DEF Reopenings
  <2>2. CASE event = Event(g, "workflow.resumed", last.step, 0)
    BY <2>2, <1>3 DEF EventType
  <2>3. CASE event \in Resumed
    <3>1. PICK f \in failed : event = Event(g, "workflow.resumed", log[g][f].step, f)
      BY <2>3
    <3>2. f \in DOMAIN log[g] /\ f \in Nat
      BY <1>1, <1>6
    <3>3. log[g][f].step \in Step \cup {NoStep}
      BY <3>2, <1>2
    <3> HIDE DEF failed
    <3> QED BY <3>1, <3>2, <3>3 DEF EventType
  <2>4. CASE event \in Cancelled
    <3>1. /\ event = Event(g, "workflow.retryStarted", log[g][Len(log[g]) - 1].step, 0)
          /\ last.type = "workflow.cancelled"
      BY <2>4
    <3> QED BY <3>1, <1>2, <1>5 DEF EventType
  <2>5. CASE event \in Retried
    <3>1. failure # 0 /\ event = Event(g, "workflow.retryStarted", log[g][failure].step, failure)
      BY <2>5
    <3>2. failure \in DOMAIN log[g] /\ failure \in Nat
      BY <3>1, <1>1, <1>4
    <3>3. log[g][failure].step \in Step \cup {NoStep}
      BY <3>2, <1>2
    <3> HIDE DEF failure
    <3> QED BY <3>1, <3>2, <3>3 DEF EventType
  <2> QED BY <2>1, <2>2, <2>3, <2>4, <2>5
<1> QED BY <1>7, EventTyped

(***************************************************************************)
(* Types.                                                                  *)
(***************************************************************************)

\* No run and no run id is None.
LEMMA Ids == None \notin Run /\ None \notin RunId
  BY StorageLifecycleAssumption DEF Run, RunId, None

\* The blank records are of their types.
LEMMA Blank ==
  /\ Nothing \in Copy /\ EmptyDir \in Copy
  /\ Idle \in CommandState /\ Idle.stage = "idle" /\ Idle.name = None
  /\ Idle.plan = {} /\ Idle.read = Nothing
<1>1. <<>> \in Seq(TrailEvent)
  OBVIOUS
<1>2. Nothing \in Copy
  BY <1>1 DEF Copy, Nothing
<1>3. EmptyDir \in Copy
  BY <1>2 DEF Copy, EmptyDir
<1>4. "idle" \in Stage
  BY DEF Stage
<1>5. Idle \in CommandState
  BY <1>2, <1>4 DEF CommandState, Idle
<1> QED BY <1>2, <1>3, <1>5 DEF Idle

\* What the driver writes keeps the types.
LEMMA WriteTyped ==
  ASSUME TypeInv, NEW g \in Run, at[g] # None, NEW event \in TrailEvent, event.run = g,
         log[g] = <<>> => event.type = "workflow.started", Write(g, event), UNCHANGED at
  PROVE  hot' \in [RunId -> Copy] /\ log' \in [Run -> Seq(TrailEvent)] /\ LogsStarted'
<1>1. at[g] \in RunId /\ log[g] \in Seq(TrailEvent) /\ hot[at[g]] \in Copy
  BY DEF TypeInv, TypeOK
<1>2. Append(log[g], event) \in Seq(TrailEvent) 
      /\ Append(hot[at[g]].events, event) \in Seq(TrailEvent)
  BY <1>1 DEF Copy
<1>3. hot' \in [RunId -> Copy]
  BY ZenonT(60), <1>1, <1>2 DEF TypeInv, TypeOK, Write, Copy
<1>4. log' \in [Run -> Seq(TrailEvent)]
  BY <1>2 DEF TypeInv, TypeOK, Write
<1>5. LogsStarted'
  <2>1. log' = [log EXCEPT ![g] = Append(log[g], event)]
    BY DEF Write
  <2>2. /\ log[g] # <<>> => log[g][1].type = "workflow.started"
        /\ \A i \in DOMAIN log[g] : log[g][i].run = g
    BY DEF TypeInv, LogsStarted
  <2>3. /\ Append(log[g], event)[1].type = "workflow.started"
        /\ \A i \in DOMAIN Append(log[g], event) : Append(log[g], event)[i].run = g
    <3> HIDE DEF None
    <3> QED BY <1>1, <2>2
  <2> QED BY <2>1, <2>3 DEF TypeInv, TypeOK, LogsStarted
<1> QED BY <1>3, <1>4, <1>5

\* TypeOK, taken apart by the variables its parts are about.
CommandOK(k) ==
    /\ k \in CommandState
    /\ k.name = None <=> k.stage \in {"idle", "next"}
    /\ k.read # Nothing => k.stage \in {"payload", "pack", "mkdir", "restore"}

CopiesOK == hot \in [RunId -> Copy] /\ payload \in [RunId -> Copy]

CliOK == cli \in [Command -> CommandState] /\ \A c \in Command : CommandOK(cli[c])

RunsOK ==
    /\ manifest \in [RunId -> {"none", "torn", "whole"}]
    /\ at \in [Run -> RunId \cup {None}]
    /\ driven \subseteq {g \in Run : at[g] # None}
    /\ log \in [Run -> Seq(TrailEvent)]
    /\ LogsStarted

HistOK ==
    /\ guarded \subseteq {c \in Command : cli[c].name # None}
    /\ forgone \subseteq Run
    /\ contended \subseteq RunId
    /\ cut \in [RunId -> SUBSET {"directory", "archive"}]

\* The parts make up the whole.
LEMMA Parts == TypeInv <=> CopiesOK /\ CliOK /\ RunsOK /\ HistOK
  BY DEF TypeInv, TypeOK, CopiesOK, CliOK, CommandOK, RunsOK, HistOK

\* Every stage is one.
LEMMA StageNames ==
  \A stage \in {"idle", "next", "archive", "read", "payload", "pack", "manifest", "list",
          "remove", "delete", "delete-archive", "unlist", "mkdir", "restore", "restored"} :
      stage \in Stage
  BY DEF Stage

\* What a command is once it has left its run.
LEMMA Leaving ==
  ASSUME CliOK, NEW c \in Command, GiveUp(c) \/ LeaveRun(c)
  PROVE  /\ CliOK'
         /\ cli'[c].name = None /\ cli'[c].stage \in {"idle", "next"} /\ cli'[c].read = Nothing
         /\ \A d \in Command \ {c} : cli'[d] = cli[d]
         /\ guarded' = guarded \ {c}
<1>1. cli[c] \in CommandState /\ cli[c].plan \in SUBSET Action
  BY DEF CliOK, CommandState
<1>2. CASE GiveUp(c)
  BY <1>2, Blank DEF GiveUp, CliOK, CommandOK
<1>3. CASE LeaveRun(c)
  <2> DEFINE k == [Idle EXCEPT !.stage = "next", !.plan = cli[c].plan]
  <2>1. k \in CommandState /\ k.name = None /\ k.stage = "next" /\ k.read = Nothing
    BY <1>1, Blank, StageNames DEF CommandState
  <2>2. cli' = [cli EXCEPT ![c] = Idle] \/ cli' = [cli EXCEPT ![c] = k]
    BY <1>3 DEF LeaveRun
  <2> HIDE DEF k
  <2> QED BY <1>3, <2>1, <2>2, Blank DEF LeaveRun, CliOK, CommandOK
<1> QED BY <1>2, <1>3

\* A command that goes on to another stage of its operation stays with its run.
LEMMA Moving ==
  ASSUME CliOK, NEW c \in Command, NEW stage \in Stage, cli[c].name # None,
         stage \notin {"idle", "next"}, GoTo(c, stage),
         stage \in {"payload", "pack", "mkdir", "restore"} \/ cli[c].read = Nothing
  PROVE  /\ CliOK'
         /\ cli'[c].name = cli[c].name /\ cli'[c].stage = stage /\ cli'[c].read = cli[c].read
         /\ \A d \in Command \ {c} : cli'[d] = cli[d]
<1> DEFINE k == [cli[c] EXCEPT !.stage = stage]
<1>1. /\ k \in CommandState /\ k.name = cli[c].name /\ k.stage = stage
      /\ k.read = cli[c].read
  BY DEF CliOK, CommandState
<1>2. cli' = [cli EXCEPT ![c] = k]
  BY DEF GoTo
<1> HIDE DEF k
<1> QED BY <1>1, <1>2 DEF CliOK, CommandOK

\* A command at a stage of an operation has turned to a run.
LEMMA Stages ==
  ASSUME CliOK, NEW c \in Command, cli[c].stage \notin {"idle", "next"}
  PROVE  /\ cli[c].name \in RunId
         /\ cli[c].stage \notin {"payload", "pack", "mkdir", "restore"} => cli[c].read = Nothing
  BY DEF CliOK, CommandOK, CommandState

\* Only runs own files.
LEMMA OwnersTyped ==
  ASSUME NEW copy \in Copy
  PROVE  Owners(copy) \subseteq Run
<1>1. copy.events \in Seq(TrailEvent) /\ copy.work \in Run \cup {None}
  BY DEF Copy
<1>2. ASSUME NEW i \in DOMAIN copy.events
      PROVE  copy.events[i].run \in Run
  <2>1. copy.events[i] \in TrailEvent
    BY <1>1
  <2> QED BY <2>1 DEF TrailEvent
<1> QED BY <1>1, <1>2 DEF Owners

\* What restoreArchivedRun writes, file by file, and what is left to write.
Restores(n, read, copy, left) ==
    /\ copy.there
    /\ \/ /\ read.events # <<>> /\ left.events = <<>> /\ copy.events = read.events
          /\ left.work = read.work /\ copy.work = hot[n].work
       \/ /\ read.work # None /\ left.work = None /\ copy.work = read.work
          /\ left.events = read.events /\ copy.events = hot[n].events
       \/ /\ left.work = read.work /\ copy.work = hot[n].work
          /\ left.events = read.events /\ copy.events = hot[n].events

\* A step of the restore writes one of the files.
LEMMA RestoreOne ==
  ASSUME CliOK, CopiesOK, NEW c \in Command, RestoreFile(c)
  PROVE  /\ cli[c].name \in RunId /\ cli[c].read \in Copy /\ cli[c].stage = "restore"
         /\ \E copy \in Copy, left \in Copy :
             /\ Restores(cli[c].name, cli[c].read, copy, left)
             /\ hot' = [hot EXCEPT ![cli[c].name] = copy]
             /\ cli' = [cli EXCEPT ![c].read = IF HasFiles(left) THEN left ELSE Nothing,
                                   ![c].stage = IF HasFiles(left) THEN @ ELSE "restored"]
<1> DEFINE n == cli[c].name
           read == cli[c].read
           Moved(left) ==
               cli' = [cli EXCEPT ![c].read = IF HasFiles(left) THEN left ELSE Nothing,
                                  ![c].stage = IF HasFiles(left) THEN @ ELSE "restored"]
<1>1. n \in RunId /\ read \in Copy /\ hot[n] \in Copy /\ cli[c].stage = "restore"
  BY Stages DEF RestoreFile, CliOK, CommandState, CopiesOK
<1>2. \/ /\ read.events # <<>> /\ hot' = [hot EXCEPT ![n].there = TRUE, ![n].events = read.events]
         /\ Moved([read EXCEPT !.events = <<>>])
      \/ /\ read.work # None /\ hot' = [hot EXCEPT ![n].there = TRUE, ![n].work = read.work]
         /\ Moved([read EXCEPT !.work = None])
      \/ /\ hot' = [hot EXCEPT ![n].there = TRUE, ![n].pin = read.pin]
         /\ Moved([read EXCEPT !.pin = FALSE])
  BY DEF RestoreFile
<1> HIDE DEF n, Moved
<1>3. CASE /\ read.events # <<>> /\ hot' = [hot EXCEPT ![n].there = TRUE, ![n].events = read.events]
           /\ Moved([read EXCEPT !.events = <<>>])
  <2>1. <<>> \in Seq(TrailEvent)
    OBVIOUS
  <2>2. [hot[n] EXCEPT !.there = TRUE, !.events = read.events] \in Copy
    BY <1>1 DEF Copy
  <2>3. [read EXCEPT !.events = <<>>] \in Copy
    BY <1>1, <2>1 DEF Copy
  <2>4. hot' = [hot EXCEPT ![n] = [hot[n] EXCEPT !.there = TRUE, !.events = read.events]]
    BY <1>1, <1>3 DEF CopiesOK
  <2>5. Restores(n, read, [hot[n] EXCEPT !.there = TRUE, !.events = read.events],
                 [read EXCEPT !.events = <<>>])
    BY <1>1, <1>3 DEF Restores, Copy
  <2> QED BY <1>1, <1>3, <2>2, <2>3, <2>4, <2>5 DEF n, Moved
<1>4. CASE /\ read.work # None /\ hot' = [hot EXCEPT ![n].there = TRUE, ![n].work = read.work]
           /\ Moved([read EXCEPT !.work = None])
  <2>2. [hot[n] EXCEPT !.there = TRUE, !.work = read.work] \in Copy
    BY <1>1 DEF Copy
  <2>3. [read EXCEPT !.work = None] \in Copy
    BY <1>1 DEF Copy
  <2>4. hot' = [hot EXCEPT ![n] = [hot[n] EXCEPT !.there = TRUE, !.work = read.work]]
    BY <1>1, <1>4 DEF CopiesOK
  <2>5. Restores(n, read, [hot[n] EXCEPT !.there = TRUE, !.work = read.work],
                 [read EXCEPT !.work = None])
    BY <1>1, <1>4 DEF Restores, Copy
  <2> QED BY <1>1, <1>4, <2>2, <2>3, <2>4, <2>5 DEF n, Moved
<1>5. CASE /\ hot' = [hot EXCEPT ![n].there = TRUE, ![n].pin = read.pin]
           /\ Moved([read EXCEPT !.pin = FALSE])
  <2>2. [hot[n] EXCEPT !.there = TRUE, !.pin = read.pin] \in Copy
    BY <1>1 DEF Copy
  <2>3. [read EXCEPT !.pin = FALSE] \in Copy
    BY <1>1 DEF Copy
  <2>4. hot' = [hot EXCEPT ![n] = [hot[n] EXCEPT !.there = TRUE, !.pin = read.pin]]
    BY <1>1, <1>5 DEF CopiesOK
  <2>5. Restores(n, read, [hot[n] EXCEPT !.there = TRUE, !.pin = read.pin],
                 [read EXCEPT !.pin = FALSE])
    BY <1>1, <1>5 DEF Restores, Copy
  <2> QED BY <1>1, <1>5, <2>2, <2>3, <2>4, <2>5 DEF n, Moved
<1> QED BY <1>2, <1>3, <1>4, <1>5

\* Every step keeps the types.
LEMMA TypeStep == TypeInv /\ [Next]_vars => TypeInv'
<1> SUFFICES ASSUME CopiesOK, CliOK, RunsOK, HistOK, [Next]_vars
             PROVE  CopiesOK' /\ CliOK' /\ RunsOK' /\ HistOK'
  BY Parts, PTL
<1> USE Ids, Blank
<1>1. ASSUME NEW g \in Run, Create(g)
      PROVE  CopiesOK' /\ CliOK' /\ RunsOK' /\ HistOK'
  <2>1. CopiesOK'
    BY <1>1 DEF CopiesOK, CliOK, CommandState, Create, archive, Meet
  <2>2. CliOK'
    BY <1>1, StageNames DEF CliOK, CommandOK, CommandState, CopiesOK, Create, archive, Meet
  <2>3. RunsOK'
    BY <1>1 DEF RunsOK, LogsStarted, Create, archive, Meet
  <2>4. HistOK'
    BY <1>1 DEF HistOK, CliOK, CommandOK, Create, archive, Meet
  <2> QED BY <2>1, <2>2, <2>3, <2>4
<1>2. ASSUME NEW g \in Run, Drive(g)
      PROVE  CopiesOK' /\ CliOK' /\ RunsOK' /\ HistOK'
  <2>a. PICK event : Write(g, event) /\ event \in TrailEvent /\ event.run = g
                    /\ (log[g] = <<>> => event.type = "workflow.started")
    BY <1>2, Parts, NewEventsTyped, ReopeningsTyped DEF Drive
  <2>b. at[g] # None /\ UNCHANGED at
    BY <1>2 DEF Drive, RunsOK
  <2>c. hot' \in [RunId -> Copy] /\ log' \in [Run -> Seq(TrailEvent)] /\ LogsStarted'
    BY <2>a, <2>b, WriteTyped, Parts
  <2>1. CopiesOK'
    BY <1>2, <2>c DEF CopiesOK, Drive, archive
  <2>2. CliOK'
    BY <1>2, StageNames DEF CliOK, CommandOK, CommandState, CopiesOK, Drive, archive, Meet
  <2>3. RunsOK'
    BY <1>2, <2>b, <2>c DEF RunsOK, Drive, archive
  <2>4. HistOK'
    BY <1>2 DEF HistOK, CliOK, CommandOK, Drive, archive, Meet
  <2> QED BY <2>1, <2>2, <2>3, <2>4
<1>3. ASSUME NEW g \in Run, Stop(g)
      PROVE  CopiesOK' /\ CliOK' /\ RunsOK' /\ HistOK'
  <2>1. CopiesOK'
    BY <1>3 DEF CopiesOK, CliOK, CommandState, Stop, archive
  <2>2. CliOK'
    BY <1>3, StageNames DEF CliOK, CommandOK, CommandState, CopiesOK, Stop, archive
  <2>3. RunsOK'
    BY <1>3 DEF RunsOK, LogsStarted, Stop, archive
  <2>4. HistOK'
    BY <1>3 DEF HistOK, CliOK, CommandOK, Stop, archive
  <2> QED BY <2>1, <2>2, <2>3, <2>4
<1>4. ASSUME NEW g \in Run, Reopen(g)
      PROVE  CopiesOK' /\ CliOK' /\ RunsOK' /\ HistOK'
  <2>a. PICK event : Write(g, event) /\ event \in TrailEvent /\ event.run = g
                    /\ (log[g] = <<>> => event.type = "workflow.started")
    BY <1>4, Parts, NewEventsTyped, ReopeningsTyped DEF Reopen
  <2>b. at[g] # None /\ UNCHANGED at
    BY <1>4 DEF Reopen, RunsOK
  <2>c. hot' \in [RunId -> Copy] /\ log' \in [Run -> Seq(TrailEvent)] /\ LogsStarted'
    BY <2>a, <2>b, WriteTyped, Parts
  <2>1. CopiesOK'
    BY <1>4, <2>c DEF CopiesOK, Reopen, archive
  <2>2. CliOK'
    BY <1>4, StageNames DEF CliOK, CommandOK, CommandState, CopiesOK, Reopen, archive, Meet
  <2>3. RunsOK'
    BY <1>4, <2>b, <2>c DEF RunsOK, Reopen, archive
  <2>4. HistOK'
    BY <1>4 DEF HistOK, CliOK, CommandOK, Reopen, archive, Meet
  <2> QED BY <2>1, <2>2, <2>3, <2>4
<1>5. ASSUME NEW n \in RunId, PinRun(n)
      PROVE  CopiesOK' /\ CliOK' /\ RunsOK' /\ HistOK'
  <2>1. CopiesOK'
    BY ZenonT(60), <1>5 DEF CopiesOK, Copy, PinRun, archive
  <2>2. CliOK'
    BY <1>5, StageNames DEF CliOK, CommandOK, CommandState, CopiesOK, PinRun, archive, runs
  <2>3. RunsOK'
    BY <1>5 DEF RunsOK, LogsStarted, PinRun, archive, runs
  <2>4. HistOK'
    BY <1>5 DEF HistOK, CliOK, CommandOK, PinRun, archive, runs
  <2> QED BY <2>1, <2>2, <2>3, <2>4
<1>6. ASSUME NEW n \in RunId, UnpinRun(n)
      PROVE  CopiesOK' /\ CliOK' /\ RunsOK' /\ HistOK'
  <2>1. CopiesOK'
    BY ZenonT(60), <1>6 DEF CopiesOK, Copy, UnpinRun, archive
  <2>2. CliOK'
    BY <1>6, StageNames DEF CliOK, CommandOK, CommandState, CopiesOK, UnpinRun, archive,
       runs, Busy
  <2>3. RunsOK'
    BY <1>6 DEF RunsOK, LogsStarted, UnpinRun, archive, runs, Busy
  <2>4. HistOK'
    BY <1>6 DEF HistOK, CliOK, CommandOK, UnpinRun, archive, runs, Busy
  <2> QED BY <2>1, <2>2, <2>3, <2>4
<1>7. ASSUME NEW c \in Command, PlanGc(c)
      PROVE  CopiesOK' /\ CliOK' /\ RunsOK' /\ HistOK'
  <2>1. CopiesOK'
    BY <1>7 DEF CopiesOK, CliOK, CommandState, PlanGc, archive, runs
  <2>2. CliOK'
    <3>1. PICK plan \in Plans \ {{}} :
             cli' = [cli EXCEPT ![c].stage = "next", ![c].plan = plan]
      BY <1>7 DEF PlanGc
    <3>2. plan \in SUBSET Action
      BY DEF Plans, Action
    <3> DEFINE k == [cli[c] EXCEPT !.stage = "next", !.plan = plan]
    <3>3. /\ k \in CommandState /\ k.stage = "next" /\ k.name = cli[c].name
          /\ k.read = cli[c].read
      BY <3>2, StageNames DEF CliOK, CommandState
    <3>4. cli' = [cli EXCEPT ![c] = k]
      BY <3>1
    <3>5. cli[c].stage = "idle"
      BY <1>7 DEF PlanGc
    <3> HIDE DEF k
    <3> QED BY <3>3, <3>4, <3>5 DEF CliOK, CommandOK
  <2>3. RunsOK'
    BY <1>7 DEF RunsOK, LogsStarted, PlanGc, archive, runs
  <2>4. HistOK'
    BY <1>7 DEF HistOK, CliOK, CommandOK, PlanGc, archive, runs
  <2> QED BY <2>1, <2>2, <2>3, <2>4
<1>8. ASSUME NEW c \in Command, NextAction(c)
      PROVE  CopiesOK' /\ CliOK' /\ RunsOK' /\ HistOK'
  <2>1. CopiesOK'
    BY <1>8 DEF CopiesOK, CliOK, CommandState, NextAction, archive, runs, Meet
  <2>2. CliOK'
    BY <1>8, StageNames DEF CliOK, CommandOK, CommandState, CopiesOK, NextAction, archive,
       runs, Meet
  <2>3. RunsOK'
    BY <1>8 DEF RunsOK, LogsStarted, NextAction, archive, runs, Meet
  <2>4. HistOK'
    <3>1. PICK action \in cli[c].plan :
             /\ cli' = [cli EXCEPT ![c].stage = action[1], ![c].name = action[2],
                                   ![c].plan = @ \ {action}]
             /\ guarded' = IF hot[action[2]].pin THEN guarded \cup {c} ELSE guarded
      BY <1>8 DEF NextAction
    <3>2. action[2] # None
      BY <3>1 DEF CliOK, CommandState, Action
    <3>3. \A d \in Command : cli'[d].name = IF d = c THEN action[2] ELSE cli[d].name
      BY <3>1 DEF CliOK, CommandState
    <3>4. guarded' \subseteq {d \in Command : cli'[d].name # None}
      BY <3>1, <3>2, <3>3 DEF HistOK
    <3>5. UNCHANGED <<forgone, cut>> /\ contended' \subseteq contended \cup RunId
      BY <1>8 DEF NextAction, Meet
    <3> QED BY <3>4, <3>5 DEF HistOK
  <2> QED BY <2>1, <2>2, <2>3, <2>4
<1>9. ASSUME NEW c \in Command, CheckArchive(c)
      PROVE  CopiesOK' /\ CliOK' /\ RunsOK' /\ HistOK'
  <2>a. cli[c].name # None /\ cli[c].read = Nothing
    BY <1>9, Stages DEF CheckArchive
  <2>b. (GoTo(c, "read") /\ UNCHANGED guarded) \/ GiveUp(c)
    BY <1>9 DEF CheckArchive
  <2>c. "read" \in Stage
    BY StageNames
  <2>1. CopiesOK'
    BY <1>9 DEF CopiesOK, CliOK, CommandState, CheckArchive, GoTo, GiveUp, archive, runs
  <2>2. CliOK'
    BY <2>a, <2>b, <2>c, Moving, Leaving
  <2>3. RunsOK'
    BY <1>9 DEF RunsOK, LogsStarted, CheckArchive, GoTo, GiveUp, archive, runs
  <2>4. HistOK'
    <3>1. \A d \in guarded' :
            d \in guarded /\ (d = c => cli'[c].name # None) /\ (d # c => cli'[d] = cli[d])
      BY <2>a, <2>b, <2>c, Moving, Leaving DEF HistOK
    <3> QED BY <1>9, <3>1 DEF HistOK, CheckArchive
  <2> QED BY <2>1, <2>2, <2>3, <2>4
<1>10. ASSUME NEW c \in Command, ReadDirectory(c)
      PROVE  CopiesOK' /\ CliOK' /\ RunsOK' /\ HistOK'
  <2>1. CopiesOK'
    BY <1>10 DEF CopiesOK, CliOK, CommandState, ReadDirectory, GiveUp, archive, runs
  <2>2. CliOK'
    BY <1>10, StageNames DEF CliOK, CommandOK, CommandState, CopiesOK, ReadDirectory,
       GiveUp, archive, runs
  <2>3. RunsOK'
    BY <1>10 DEF RunsOK, LogsStarted, ReadDirectory, GiveUp, archive, runs
  <2>4. HistOK'
    <3>1. cli[c].name \in RunId
      BY <1>10, Stages DEF ReadDirectory
    <3>2. /\ \A d \in Command \ {c} : cli'[d] = cli[d]
          /\ (guarded' = guarded /\ cli'[c].name = cli[c].name) \/ guarded' = guarded \ {c}
      BY <1>10, Leaving DEF ReadDirectory, CliOK, CommandState
    <3>3. guarded' \subseteq {d \in Command : cli'[d].name # None}
      BY <3>1, <3>2 DEF HistOK
    <3> QED BY <1>10, <3>3 DEF HistOK, ReadDirectory
  <2> QED BY <2>1, <2>2, <2>3, <2>4
<1>11. ASSUME NEW c \in Command, OpenPayload(c)
      PROVE  CopiesOK' /\ CliOK' /\ RunsOK' /\ HistOK'
  <2>1. CopiesOK'
    BY <1>11 DEF CopiesOK, CliOK, CommandState, OpenPayload, GoTo, runs
  <2>2. CliOK'
    BY <1>11, StageNames DEF CliOK, CommandOK, CommandState, CopiesOK, OpenPayload, GoTo,
       runs
  <2>3. RunsOK'
    BY <1>11 DEF RunsOK, LogsStarted, OpenPayload, GoTo, runs
  <2>4. HistOK'
    <3>1. cli[c].name \in RunId
      BY <1>11, Stages DEF OpenPayload
    <3>2. /\ Owners(hot[cli[c].name]) \subseteq Run
          /\ Owners(payload[cli[c].name]) \subseteq Run
      BY <3>1, OwnersTyped DEF CopiesOK
    <3>3. forgone' \subseteq Run
      BY <1>11, <3>2 DEF HistOK, OpenPayload
    <3>4. guarded' \subseteq {d \in Command : cli'[d].name # None}
      BY <1>11, <3>1 DEF HistOK, CliOK, OpenPayload, GoTo
    <3> QED BY <1>11, <3>3, <3>4 DEF HistOK, OpenPayload
  <2> QED BY <2>1, <2>2, <2>3, <2>4
<1>12. ASSUME NEW c \in Command, WritePayload(c)
      PROVE  CopiesOK' /\ CliOK' /\ RunsOK' /\ HistOK'
  <2>1. CopiesOK'
    BY <1>12 DEF CopiesOK, CliOK, CommandState, WritePayload, runs
  <2>2. CliOK'
    BY <1>12, StageNames DEF CliOK, CommandOK, CommandState, CopiesOK, WritePayload, runs
  <2>3. RunsOK'
    BY <1>12 DEF RunsOK, LogsStarted, WritePayload, runs
  <2>4. HistOK'
    BY <1>12 DEF HistOK, CliOK, CommandOK, WritePayload, runs
  <2> QED BY <2>1, <2>2, <2>3, <2>4
<1>13. ASSUME NEW c \in Command, OpenManifest(c)
      PROVE  CopiesOK' /\ CliOK' /\ RunsOK' /\ HistOK'
  <2>1. CopiesOK'
    BY <1>13 DEF CopiesOK, CliOK, CommandState, OpenManifest, GoTo, runs
  <2>2. CliOK'
    BY <1>13, StageNames DEF CliOK, CommandOK, CommandState, CopiesOK, OpenManifest, GoTo,
       runs
  <2>3. RunsOK'
    BY <1>13 DEF RunsOK, LogsStarted, OpenManifest, GoTo, runs
  <2>4. HistOK'
    BY <1>13 DEF HistOK, CliOK, CommandOK, OpenManifest, GoTo, runs
  <2> QED BY <2>1, <2>2, <2>3, <2>4
<1>14. ASSUME NEW c \in Command, WriteManifest(c)
      PROVE  CopiesOK' /\ CliOK' /\ RunsOK' /\ HistOK'
  <2>1. CopiesOK'
    BY <1>14 DEF CopiesOK, CliOK, CommandState, WriteManifest, GoTo, runs
  <2>2. CliOK'
    BY <1>14, StageNames DEF CliOK, CommandOK, CommandState, CopiesOK, WriteManifest, GoTo,
       runs
  <2>3. RunsOK'
    BY <1>14 DEF RunsOK, LogsStarted, WriteManifest, GoTo, runs
  <2>4. HistOK'
    BY <1>14 DEF HistOK, CliOK, CommandOK, WriteManifest, GoTo, runs
  <2> QED BY <2>1, <2>2, <2>3, <2>4
<1>15. ASSUME NEW c \in Command, RemoveFile(c)
      PROVE  CopiesOK' /\ CliOK' /\ RunsOK' /\ HistOK'
  <2>1. CopiesOK'
    <3>1. <<>> \in Seq(TrailEvent)
      OBVIOUS
    <3>2. cli[c].name \in RunId
      BY <1>15, Stages DEF RemoveFile
    <3>3. payload' = payload
      BY <1>15 DEF RemoveFile, archive
    <3> DEFINE n == cli[c].name
    <3>4. \/ hot' = [hot EXCEPT ![n] = [@ EXCEPT !.events = <<>>]]
          \/ hot' = [hot EXCEPT ![n] = [@ EXCEPT !.work = None]]
          \/ hot' = [hot EXCEPT ![n] = [@ EXCEPT !.pin = FALSE]]
      BY <1>15 DEF RemoveFile
    <3>5. /\ [hot[n] EXCEPT !.events = <<>>] \in Copy
          /\ [hot[n] EXCEPT !.work = None] \in Copy
          /\ [hot[n] EXCEPT !.pin = FALSE] \in Copy
      BY <3>1, <3>2 DEF CopiesOK, Copy
    <3> HIDE DEF n
    <3>6. hot' \in [RunId -> Copy]
      BY <3>4, <3>5 DEF CopiesOK
    <3> QED BY <3>3, <3>6 DEF CopiesOK
  <2>2. CliOK'
    BY <1>15, StageNames DEF CliOK, CommandOK, CommandState, CopiesOK, RemoveFile, archive,
       runs, Busy
  <2>3. RunsOK'
    BY <1>15 DEF RunsOK, LogsStarted, RemoveFile, archive, runs, Busy
  <2>4. HistOK'
    BY <1>15 DEF HistOK, CliOK, CommandOK, RemoveFile, archive, runs, Busy
  <2> QED BY <2>1, <2>2, <2>3, <2>4
<1>16. ASSUME NEW c \in Command, RemoveDirectory(c)
      PROVE  CopiesOK' /\ CliOK' /\ RunsOK' /\ HistOK'
  <2>1. CopiesOK'
    BY <1>16 DEF CopiesOK, CliOK, CommandState, RemoveDirectory, LeaveRun, archive, runs
  <2>2. CliOK'
    BY <1>16, StageNames DEF CliOK, CommandOK, CommandState, CopiesOK, RemoveDirectory,
       LeaveRun, archive, runs
  <2>3. RunsOK'
    BY <1>16 DEF RunsOK, LogsStarted, RemoveDirectory, LeaveRun, archive, runs
  <2>4. HistOK'
    BY <1>16 DEF HistOK, CliOK, CommandOK, RemoveDirectory, LeaveRun, archive, runs
  <2> QED BY <2>1, <2>2, <2>3, <2>4
<1>17. ASSUME NEW c \in Command, NEW n \in RunId, AskDelete(c, n)
      PROVE  CopiesOK' /\ CliOK' /\ RunsOK' /\ HistOK'
  <2>1. CopiesOK'
    BY <1>17 DEF CopiesOK, CliOK, CommandState, AskDelete, Turn, archive, runs, Meet
  <2>2. CliOK'
    BY <1>17, StageNames DEF CliOK, CommandOK, CommandState, CopiesOK, AskDelete, Turn,
       archive, runs, Meet
  <2>3. RunsOK'
    BY <1>17 DEF RunsOK, LogsStarted, AskDelete, Turn, archive, runs, Meet
  <2>4. HistOK'
    BY <1>17 DEF HistOK, CliOK, CommandOK, AskDelete, Turn, archive, runs, Meet
  <2> QED BY <2>1, <2>2, <2>3, <2>4
<1>18. ASSUME NEW c \in Command, CheckDelete(c)
      PROVE  CopiesOK' /\ CliOK' /\ RunsOK' /\ HistOK'
  <2>1. CopiesOK'
    BY <1>18 DEF CopiesOK, CliOK, CommandState, CheckDelete, GoTo, GiveUp, archive, runs
  <2>2. CliOK'
    BY <1>18, StageNames DEF CliOK, CommandOK, CommandState, CopiesOK, CheckDelete, GoTo,
       GiveUp, archive, runs
  <2>3. RunsOK'
    BY <1>18 DEF RunsOK, LogsStarted, CheckDelete, GoTo, GiveUp, archive, runs
  <2>4. HistOK'
    <3>1. cli[c].name \in RunId
      BY <1>18, Stages DEF CheckDelete
    <3>2. Owners(hot[cli[c].name]) \subseteq Run
      BY <3>1, OwnersTyped DEF CopiesOK
    <3>3. /\ \A d \in Command \ {c} : cli'[d] = cli[d]
          /\ (guarded' = guarded /\ cli'[c].name = cli[c].name) \/ guarded' = guarded \ {c}
      BY <1>18, Leaving DEF CheckDelete, CliOK, CommandState, GoTo
    <3>4. guarded' \subseteq {d \in Command : cli'[d].name # None}
      BY <3>1, <3>3 DEF HistOK
    <3>5. forgone' \subseteq Run
      BY <1>18, <3>2 DEF HistOK, CheckDelete
    <3> QED BY <1>18, <3>4, <3>5 DEF HistOK, CheckDelete
  <2> QED BY <2>1, <2>2, <2>3, <2>4
<1>19. ASSUME NEW c \in Command, UnlinkPayload(c)
      PROVE  CopiesOK' /\ CliOK' /\ RunsOK' /\ HistOK'
  <2>1. CopiesOK'
    BY <1>19 DEF CopiesOK, CliOK, CommandState, UnlinkPayload, GoTo, runs
  <2>2. CliOK'
    BY <1>19, StageNames DEF CliOK, CommandOK, CommandState, CopiesOK, UnlinkPayload, GoTo,
       runs
  <2>3. RunsOK'
    BY <1>19 DEF RunsOK, LogsStarted, UnlinkPayload, GoTo, runs
  <2>4. HistOK'
    <3>1. cli[c].name \in RunId
      BY <1>19, Stages DEF UnlinkPayload
    <3>2. /\ Owners(hot[cli[c].name]) \subseteq Run
          /\ Owners(payload[cli[c].name]) \subseteq Run
      BY <3>1, OwnersTyped DEF CopiesOK
    <3>3. forgone' \subseteq Run
      BY <1>19, <3>2 DEF HistOK, UnlinkPayload
    <3>4. guarded' \subseteq {d \in Command : cli'[d].name # None}
      BY <1>19, <3>1 DEF HistOK, CliOK, UnlinkPayload, GoTo
    <3> QED BY <1>19, <3>3, <3>4 DEF HistOK, UnlinkPayload
  <2> QED BY <2>1, <2>2, <2>3, <2>4
<1>20. ASSUME NEW c \in Command, UnlinkManifest(c)
      PROVE  CopiesOK' /\ CliOK' /\ RunsOK' /\ HistOK'
  <2>1. CopiesOK'
    BY <1>20 DEF CopiesOK, CliOK, CommandState, UnlinkManifest, LeaveRun, runs
  <2>2. CliOK'
    BY <1>20, StageNames DEF CliOK, CommandOK, CommandState, CopiesOK, UnlinkManifest,
       LeaveRun, runs
  <2>3. RunsOK'
    BY <1>20 DEF RunsOK, LogsStarted, UnlinkManifest, LeaveRun, runs
  <2>4. HistOK'
    BY <1>20 DEF HistOK, CliOK, CommandOK, UnlinkManifest, LeaveRun, runs
  <2> QED BY <2>1, <2>2, <2>3, <2>4
<1>21. ASSUME NEW c \in Command, NEW n \in RunId, Restore(c, n)
      PROVE  CopiesOK' /\ CliOK' /\ RunsOK' /\ HistOK'
  <2>1. CopiesOK'
    BY <1>21 DEF CopiesOK, CliOK, CommandState, Restore, archive, runs, Meet
  <2>2. CliOK'
    BY <1>21, StageNames DEF CliOK, CommandOK, CommandState, CopiesOK, Restore, archive,
       runs, Meet
  <2>3. RunsOK'
    BY <1>21 DEF RunsOK, LogsStarted, Restore, archive, runs, Meet
  <2>4. HistOK'
    BY <1>21 DEF HistOK, CliOK, CommandOK, Restore, archive, runs, Meet
  <2> QED BY <2>1, <2>2, <2>3, <2>4
<1>22. ASSUME NEW c \in Command, MakeDirectory(c)
      PROVE  CopiesOK' /\ CliOK' /\ RunsOK' /\ HistOK'
  <2>1. CopiesOK'
    <3>1. cli[c].name \in RunId
      BY <1>22, Stages DEF MakeDirectory
    <3> QED BY <1>22, <3>1 DEF CopiesOK, Copy, MakeDirectory, archive
  <2>2. CliOK'
    BY <1>22, StageNames DEF CliOK, CommandOK, CommandState, CopiesOK, MakeDirectory, GoTo,
       archive, runs
  <2>3. RunsOK'
    BY <1>22 DEF RunsOK, LogsStarted, MakeDirectory, GoTo, archive, runs
  <2>4. HistOK'
    BY <1>22 DEF HistOK, CliOK, CommandOK, MakeDirectory, GoTo, archive, runs
  <2> QED BY <2>1, <2>2, <2>3, <2>4
<1>23. ASSUME NEW c \in Command, RestoreFile(c)
      PROVE  CopiesOK' /\ CliOK' /\ RunsOK' /\ HistOK'
  <2>a. PICK copy \in Copy, left \in Copy :
             /\ hot' = [hot EXCEPT ![cli[c].name] = copy]
             /\ cli' = [cli EXCEPT ![c].read = IF HasFiles(left) THEN left ELSE Nothing,
                                   ![c].stage = IF HasFiles(left) THEN @ ELSE "restored"]
    BY <1>23, RestoreOne
  <2>b. cli[c].name \in RunId /\ cli[c].stage = "restore"
    BY <1>23, RestoreOne
  <2>c. /\ CliOK' /\ cli'[c].name = cli[c].name
        /\ \A d \in Command \ {c} : cli'[d] = cli[d]
    <3> DEFINE k == [cli[c] EXCEPT !.read = left]
               l == [cli[c] EXCEPT !.read = Nothing, !.stage = "restored"]
    <3>1. k \in CommandState /\ k.stage = "restore" /\ k.name = cli[c].name
      BY <2>b DEF CliOK, CommandState
    <3>2. l \in CommandState /\ l.stage = "restored" /\ l.name = cli[c].name /\ l.read = Nothing
      BY StageNames DEF CliOK, CommandState
    <3>3. CASE HasFiles(left)
      <4>1. cli' = [cli EXCEPT ![c] = k]
        BY <3>3, <2>a DEF CliOK, CommandState
      <4> HIDE DEF k
      <4> QED BY <3>1, <4>1, <2>b DEF CliOK, CommandOK
    <3>4. CASE ~ HasFiles(left)
      <4>1. cli' = [cli EXCEPT ![c] = l]
        BY <3>4, <2>a DEF CliOK, CommandState
      <4> HIDE DEF l
      <4> QED BY <3>2, <4>1, <2>b DEF CliOK, CommandOK
    <3> QED BY <3>3, <3>4
  <2>1. CopiesOK'
    BY <1>23, <2>a DEF CopiesOK, RestoreFile, archive
  <2>2. CliOK'
    BY <2>c
  <2>3. RunsOK'
    BY <1>23 DEF RunsOK, LogsStarted, RestoreFile, archive, runs
  <2>4. HistOK'
    BY <1>23, <2>b, <2>c DEF HistOK, RestoreFile
  <2> QED BY <2>1, <2>2, <2>3, <2>4
<1>24. ASSUME NEW c \in Command, Die(c)
      PROVE  CopiesOK' /\ CliOK' /\ RunsOK' /\ HistOK'
  <2>1. CopiesOK'
    BY <1>24 DEF CopiesOK, CliOK, CommandState, Die, GiveUp, archive, runs
  <2>2. CliOK'
    BY <1>24, StageNames DEF CliOK, CommandOK, CommandState, CopiesOK, Die, GiveUp, archive,
       runs
  <2>3. RunsOK'
    BY <1>24 DEF RunsOK, LogsStarted, Die, GiveUp, archive, runs
  <2>4. HistOK'
    BY <1>24 DEF HistOK, CliOK, CommandOK, Die, GiveUp, archive, runs
  <2> QED BY <2>1, <2>2, <2>3, <2>4
<1>25. CASE UNCHANGED vars
  BY <1>25 DEF CopiesOK, CliOK, CommandOK, RunsOK, HistOK, LogsStarted, vars
<1> QED
  BY <1>1, <1>2, <1>3, <1>4, <1>5, <1>6, <1>7, <1>8, <1>9, <1>10, <1>11, <1>12, <1>13,
     <1>14, <1>15, <1>16, <1>17, <1>18, <1>19, <1>20, <1>21, <1>22, <1>23, <1>24, <1>25 DEF
     Next, Gc, ArchiveRun, DeleteRun, RestoreArchivedRun

(***************************************************************************)
(* What happens at one run id does not concern the others.                 *)
(***************************************************************************)

\* The directory holds the same files, but for the pin.
SameFilesAs(m) ==
    /\ hot'[m].there = hot[m].there
    /\ hot'[m].events = hot[m].events
    /\ hot'[m].work = hot[m].work

\* Nothing that Place(m) is about has changed.
Unmoved(m) ==
    /\ SameFilesAs(m)
    /\ payload'[m] = payload[m] /\ manifest'[m] = manifest[m]
    /\ cut[m] \subseteq cut'[m]
    /\ contended \subseteq contended' /\ forgone \subseteq forgone'
    /\ \A c \in Command : Busy(c, m)' <=> Busy(c, m)
    /\ \A c \in Command : Busy(c, m) => cli'[c].stage = cli[c].stage /\ cli'[c].read = cli[c].read
    /\ \A g \in driven' : at'[g] = m => g \in driven /\ at[g] = m
    /\ \A g \in Run : at'[g] = m /\ log'[g] # <<>> => at[g] = m /\ log'[g] = log[g]
    /\ \A g \in driven' : at'[g] = m => log'[g] = log[g]

\* The same files belong to the same runs.
LEMMA FrameOwners ==
  ASSUME NEW m, SameFilesAs(m)
  PROVE  Owners(hot[m])' = Owners(hot[m])
  BY DEF SameFilesAs, Owners

\* What a step does not touch keeps Place.
LEMMA Frame ==
  ASSUME NEW m \in RunId, Place(m), Unmoved(m)
  PROVE  Place(m)'
<1> SUFFICES ASSUME m \notin contended'
             PROVE  /\ ~ Crowded(m)'
                    /\ Unmixed(m)'
                    /\ "directory" \notin cut'[m] => Kept(m)'
                    /\ cut'[m] = {} => Listed(m)'
  BY DEF Place
<1>1. m \notin contended
  BY DEF Unmoved
<1>2. Parties(m)' \subseteq Parties(m)
  BY DEF Unmoved, Parties
<1>3. ~ Crowded(m)'
  BY <1>1, <1>2 DEF Place, Crowded
<1>4. Owners(hot[m])' = Owners(hot[m]) /\ Owners(payload[m])' = Owners(payload[m])
  BY FrameOwners DEF Unmoved, Owners
<1>5. Unmixed(m)'
  <2>1. Unmixed(m)
    BY <1>1 DEF Place
  <2>2. OneOwner(hot[m])' /\ OneOwner(payload[m])'
    BY <2>1, <1>4 DEF Unmixed, OneOwner
  <2>3. \A g \in driven' : at'[g] = m => Owners(hot[m])' \subseteq {g}
    BY <2>1, <1>4 DEF Unmixed, Unmoved
  <2>4. ASSUME NEW c \in Command, Busy(c, m)'
        PROVE  /\ OneOwner(cli[c].read)'
               /\ cli'[c].stage = "mkdir" => ~ hot'[m].there
               /\ cli'[c].stage = "restore" =>
                    \A a \in Owners(hot[m])', b \in Owners(cli[c].read)' : a = b
    <3>1. Busy(c, m) /\ cli'[c].stage = cli[c].stage /\ cli'[c].read = cli[c].read
      BY <2>4 DEF Unmoved
    <3>2. Owners(cli[c].read)' = Owners(cli[c].read)
      BY <3>1 DEF Owners
    <3> QED BY <2>1, <3>1, <3>2, <1>4 DEF Unmixed, OneOwner, Unmoved, SameFilesAs
  <2> QED BY <2>2, <2>3, <2>4 DEF Unmixed
<1>6. Owed(m)' \subseteq Owed(m) /\ \A g \in Owed(m)' : log'[g] = log[g]
  BY DEF Owed, Unmoved
<1>7. ASSUME "directory" \notin cut'[m]
      PROVE  Kept(m)'
  <2>1. Kept(m)
    BY <1>1, <1>7 DEF Place, Unmoved
  <2>2. Complete(payload[m])'
    BY <2>1 DEF Kept, Complete, Unmoved
  <2>7. ASSUME InOrder(m) PROVE InOrder(m)'
    BY <2>7, <1>4, <1>6 DEF InOrder, Complete, IsWhole, Unmoved, SameFilesAs
  <2>8. (\A c \in Command : Busy(c, m) => cli[c].stage \notin {"remove", "restore"})'
        => InOrder(m)'
    BY <2>1, <2>7 DEF Kept, Unmoved
  <2>3. \A g \in driven' : at'[g] = m => hot'[m].there /\ hot'[m].events = log'[g]
    BY <2>1 DEF Kept, Unmoved, SameFilesAs
  <2>4. \A g \in Owed(m)' : /\ IsWhole(hot[m], g)' <=> IsWhole(hot[m], g)
                            /\ IsWhole(payload[m], g)' <=> IsWhole(payload[m], g)
    BY <1>6 DEF Unmoved, SameFilesAs, IsWhole
  <2>5. \A g \in Owed(m)' : IsWhole(hot[m], g)' \/ IsWhole(payload[m], g)'
    BY <2>1, <2>4, <1>6 DEF Kept
  <2>6. ASSUME NEW c \in Command, Busy(c, m)'
        PROVE  StageKeeps(m, cli[c].stage, cli[c].read)'
    <3>1. Busy(c, m) /\ cli'[c].stage = cli[c].stage /\ cli'[c].read = cli[c].read
      BY <2>6 DEF Unmoved
    <3>2. StageKeeps(m, cli[c].stage, cli[c].read)
      BY <2>1, <3>1 DEF Kept
    <3>3. /\ (cli[c].stage = "read" => hot[m].there)'
          /\ (cli[c].stage \in {"payload", "pack"} => SameFiles(cli[c].read, hot[m]))'
          /\ (cli[c].stage \in {"manifest", "list", "restored"} => SameFiles(payload[m], hot[m]))'
          /\ (cli[c].stage = "pack" => ~ payload[m].there)'
          /\ (cli[c].stage = "mkdir" => cli[c].read = payload[m] /\ payload[m].there)'
      BY <3>1, <3>2 DEF StageKeeps, SameFiles, Unmoved, SameFilesAs
    <3>4. (cli[c].stage = "restore" => Restored(m, cli[c].read))'
      BY <3>1, <3>2 DEF StageKeeps, Restored, Unmoved, SameFilesAs
    <3>5. (cli[c].stage \in {"remove", "restore"} => \A g \in Owed(m) : IsWhole(payload[m], g))'
      BY <3>1, <3>2, <2>4, <1>6 DEF StageKeeps
    <3> QED BY <3>3, <3>4, <3>5 DEF StageKeeps
  <2> QED BY <2>2, <2>3, <2>5, <2>6, <2>8 DEF Kept
<1>8. ASSUME cut'[m] = {}
      PROVE  Listed(m)'
  <2>1. Listed(m)
    BY <1>1, <1>8 DEF Place, Unmoved
  <2> QED BY <2>1 DEF Listed, Unmoved
<1> QED BY <1>3, <1>5, <1>7, <1>8

\* A command on an id that is not crowded is the only process there.
LEMMA Alone ==
  ASSUME NEW n \in RunId, NEW c \in Command, Busy(c, n), ~ Crowded(n)
  PROVE  /\ \A d \in Command : Busy(d, n) => d = c
         /\ \A g \in driven : at[g] # n
<1>1. <<"command", c>> \in Parties(n)
  BY DEF Parties
<1>2. ASSUME NEW d \in Command, Busy(d, n) PROVE d = c
  <2>1. <<"command", d>> \in Parties(n)
    BY <1>2 DEF Parties
  <2>2. <<"command", d>> = <<"command", c>>
    BY <1>1, <2>1 DEF Crowded
  <2> QED BY <2>2
<1>3. ASSUME NEW g \in driven PROVE at[g] # n
  <2>1. at[g] = n => <<"driver", g>> \in Parties(n)
    BY DEF Parties
  <2>2. <<"driver", g>> # <<"command", c>>
    OBVIOUS
  <2> QED BY <1>1, <2>1, <2>2 DEF Crowded
<1> QED BY <1>2, <1>3

\* A command that is alone with a run stays alone with it, until it leaves it.
LEMMA StaysAlone ==
  ASSUME NEW n \in RunId, NEW c \in Command, Busy(c, n), ~ Crowded(n), UNCHANGED <<driven, at>>,
         \A d \in Command \ {c} : cli'[d] = cli[d]
  PROVE  /\ ~ Crowded(n)'
         /\ \A d \in Command : Busy(d, n)' => d = c
         /\ \A g \in driven' : at'[g] # n
<1>1. /\ \A d \in Command : Busy(d, n)' => d = c
      /\ \A g \in driven' : at'[g] # n
  BY Alone DEF Busy
<1> QED BY <1>1 DEF Crowded, Parties

\* Whatever a command does with its run, no other run id sees of it.
LEMMA Elsewhere ==
  ASSUME PlaceInv, NEW c \in Command, UNCHANGED <<driven, at, log, contended>>,
         forgone \subseteq forgone',
         \A d \in Command \ {c} : cli'[d] = cli[d],
         cli'[c].name \in {cli[c].name, None},
         \A m \in RunId \ {cli[c].name} :
             /\ hot'[m] = hot[m] /\ payload'[m] = payload[m]
             /\ manifest'[m] = manifest[m] /\ cut'[m] = cut[m]
  PROVE  \A m \in RunId \ {cli[c].name} : Place(m)'
<1> SUFFICES ASSUME NEW m \in RunId \ {cli[c].name} PROVE Unmoved(m)
  BY Frame DEF PlaceInv
<1> QED BY Ids DEF Unmoved, SameFilesAs, Busy

\* What Place(n) says when c is alone with the run.
MixedNot(c, n) ==
    /\ OneOwner(hot[n])
    /\ OneOwner(payload[n])
    /\ Busy(c, n) =>
        /\ OneOwner(cli[c].read)
        /\ cli[c].stage = "mkdir" => ~ hot[n].there
        /\ cli[c].stage = "restore" =>
            \A a \in Owners(hot[n]), b \in Owners(cli[c].read) : a = b

KeptBy(c, n) ==
    /\ Complete(payload[n])
    /\ (Busy(c, n) => cli[c].stage \notin {"remove", "restore"}) => InOrder(n)
    /\ \A g \in Owed(n) : IsWhole(hot[n], g) \/ IsWhole(payload[n], g)
    /\ Busy(c, n) => StageKeeps(n, cli[c].stage, cli[c].read)

ListedBy(c, n) ==
    /\ (Busy(c, n) => cli[c].stage \notin {"pack", "manifest", "list", "unlist"})
       => (payload[n].there <=> manifest[n] = "whole")
    /\ Busy(c, n) =>
        /\ cli[c].stage \in {"payload", "pack"} => cli[c].read.there
        /\ cli[c].stage \in {"manifest", "list"} => payload[n].there
        /\ cli[c].stage = "unlist" => ~ payload[n].there

\* A step of a command that works at a run id, or leaves it.
WorksAt(c, n) ==
    /\ UNCHANGED <<driven, at, log, contended>>
    /\ forgone \subseteq forgone'
    /\ \A d \in Command \ {c} : cli'[d] = cli[d]
    /\ cli'[c].name \in {n, None}
    /\ \A m \in RunId \ {n} :
        /\ hot'[m] = hot[m] /\ payload'[m] = payload[m]
        /\ manifest'[m] = manifest[m] /\ cut'[m] = cut[m]
    /\ cut[n] \subseteq cut'[n]

\* A step of a command that is alone with a run: what it relies on suffices.
LEMMA WorkStep ==
  ASSUME PlaceInv, NEW c \in Command, NEW n \in RunId, Busy(c, n), WorksAt(c, n),
         MixedNot(c, n) => MixedNot(c, n)',
         MixedNot(c, n) /\ KeptBy(c, n) /\ "directory" \notin cut'[n] => KeptBy(c, n)',
         ListedBy(c, n) /\ cut'[n] = {} => ListedBy(c, n)'
  PROVE  PlaceInv'
<1>1. \A m \in RunId \ {n} : Place(m)'
  BY Elsewhere DEF WorksAt, Busy
<1>2. ASSUME n \notin contended'
      PROVE  Place(n)'
  <2>1. n \notin contended /\ ~ Crowded(n) /\ Unmixed(n)
    BY <1>2 DEF PlaceInv, Place, WorksAt
  <2>2. /\ \A d \in Command : Busy(d, n) => d = c
        /\ \A g \in driven : at[g] # n
    BY <2>1, Alone
  <2>3. /\ ~ Crowded(n)'
        /\ \A d \in Command : Busy(d, n)' => d = c
        /\ \A g \in driven' : at'[g] # n
    BY <2>1, StaysAlone DEF WorksAt
  <2>4. MixedNot(c, n)
    BY <2>1 DEF Unmixed, MixedNot
  <2>5. Unmixed(n)'
    BY <2>3, <2>4 DEF Unmixed, MixedNot
  <2>6. ASSUME "directory" \notin cut'[n] PROVE Kept(n)'
    <3>1. Kept(n)
      BY <2>1, <2>6 DEF PlaceInv, Place, WorksAt
    <3>2. KeptBy(c, n)
      BY <3>1, <2>2 DEF Kept, KeptBy
    <3>3. KeptBy(c, n)'
      BY <3>2, <2>4, <2>6
    <3> QED BY <3>3, <2>3 DEF Kept, KeptBy
  <2>7. ASSUME cut'[n] = {} PROVE Listed(n)'
    <3>1. Listed(n)
      BY <2>1, <2>7 DEF PlaceInv, Place, WorksAt
    <3>2. ListedBy(c, n)
      BY <3>1, <2>2 DEF Listed, ListedBy
    <3>3. ListedBy(c, n)'
      BY <3>2, <2>7
    <3> QED BY <3>3, <2>3 DEF Listed, ListedBy
  <2> QED BY <2>3, <2>5, <2>6, <2>7 DEF Place
<1> QED BY <1>1, <1>2 DEF PlaceInv, Place

\* A step that leaves the trails alone owes no run it did not owe before.
LEMMA StaysOwed ==
  ASSUME NEW n \in RunId, UNCHANGED <<at, log>>, forgone \subseteq forgone'
  PROVE  Owed(n)' \subseteq Owed(n)
  BY DEF Owed

(***************************************************************************)
(* The steps of a command at work on a run, one lemma each.                *)
(***************************************************************************)

\* What a command at work on a run is.
LEMMA Working ==
  ASSUME CliOK, NEW c \in Command, NEW n \in RunId, Busy(c, n)
  PROVE  /\ cli[c].name = n /\ cli[c].name # None
         /\ cli[c].stage \notin {"idle", "next"}
         /\ cli[c].read \in Copy
         /\ cli[c].stage \notin {"payload", "pack", "mkdir", "restore"} => cli[c].read = Nothing
  BY Ids DEF CliOK, CommandOK, CommandState, Busy

\* An empty copy belongs to nobody.
LEMMA NothingOwned ==
  /\ Owners(Nothing) = {} /\ ~ Nothing.there
  /\ Nothing.events = <<>> /\ Nothing.work = None
  BY DEF Owners, Nothing

\* Alternatives of a goal for steps that leave or change nothing but the command.
LEMMA CommandOnly ==
  ASSUME CopiesOK, CliOK, RunsOK, HistOK, PlaceInv, NEW c \in Command, NEW n \in RunId, Busy(c, n),
         UNCHANGED <<hot, payload, manifest, at, driven, log, contended, cut>>,
         forgone \subseteq forgone',
         \A d \in Command \ {c} : cli'[d] = cli[d],
         cli'[c].name \in {n, None},
         cli'[c].name = n => cli'[c].read = cli[c].read,
         Busy(c, n)' => cli'[c].stage \notin {"mkdir", "restore"} \/ cli'[c].stage = cli[c].stage,
         KeptBy(c, n) /\ "directory" \notin cut[n] /\ MixedNot(c, n) => KeptBy(c, n)',
         ListedBy(c, n) /\ cut[n] = {} => ListedBy(c, n)'
  PROVE  PlaceInv'
<1>2. WorksAt(c, n)
  BY DEF WorksAt
<1>3. MixedNot(c, n) => MixedNot(c, n)'
  BY Ids DEF MixedNot, OneOwner, Owners, Busy
<1>4. MixedNot(c, n) /\ KeptBy(c, n) /\ "directory" \notin cut'[n] => KeptBy(c, n)'
  OBVIOUS
<1>5. ListedBy(c, n) /\ cut'[n] = {} => ListedBy(c, n)'
  OBVIOUS
<1> QED
  BY <1>2, <1>3, <1>4, <1>5, WorkStep

\* archiveRun looks whether the run is terminal and not pinned.
LEMMA CheckArchiveKept ==
  ASSUME CopiesOK, CliOK, RunsOK, HistOK, AbsentIsEmpty, PlaceInv,
         NEW c \in Command, NEW n \in RunId, Busy(c, n), CheckArchive(c)
  PROVE  PlaceInv'
<1>1. cli[c].name = n /\ cli[c].stage = "archive"
  BY Working DEF CheckArchive
<1>2. UNCHANGED <<hot, payload, manifest, at, driven, log, forgone, contended, cut>>
  BY DEF CheckArchive, archive, runs
<1>3. CASE GiveUp(c)
  <2>1. /\ cli'[c].name = None
        /\ \A d \in Command \ {c} : cli'[d] = cli[d]
        /\ ~ Busy(c, n)'
    BY <1>3, Leaving, Ids DEF Busy
  <2>2. KeptBy(c, n) => KeptBy(c, n)'
    BY <1>1, <1>2, <2>1 DEF KeptBy, InOrder, Complete, Owners, Owed, IsWhole
  <2>3. ListedBy(c, n) => ListedBy(c, n)'
    BY <1>1, <1>2, <2>1 DEF ListedBy
  <2> QED BY <1>2, <2>1, <2>2, <2>3, CommandOnly, Ids
<1>4. CASE hot[n].there /\ GoTo(c, "read")
  <2>1. /\ cli'[c].name = n /\ cli'[c].stage = "read" /\ cli'[c].read = cli[c].read
        /\ \A d \in Command \ {c} : cli'[d] = cli[d]
    BY <1>1, <1>4, Moving, Working, StageNames
  <2>2. KeptBy(c, n) => KeptBy(c, n)'
    BY <1>1, <1>2, <1>4, <2>1 DEF KeptBy, InOrder, Complete, Owners, Owed, IsWhole,
       StageKeeps, Busy
  <2>3. ListedBy(c, n) => ListedBy(c, n)'
    BY <1>1, <1>2, <2>1 DEF ListedBy, Busy
  <2> QED BY <1>2, <2>1, <2>2, <2>3, CommandOnly
<1> QED BY <1>1, <1>3, <1>4 DEF CheckArchive, IsLifecycleEligible

\* archiveRun reads the directory: what it holds from here on are its files.
LEMMA ReadDirectoryKept ==
  ASSUME CopiesOK, CliOK, RunsOK, HistOK, AbsentIsEmpty, PlaceInv,
         NEW c \in Command, NEW n \in RunId, Busy(c, n), ReadDirectory(c)
  PROVE  PlaceInv'
<1>1. cli[c].name = n /\ cli[c].stage = "read"
  BY Working DEF ReadDirectory
<1>2. UNCHANGED <<hot, payload, manifest, at, driven, log, forgone, contended, cut>>
  BY DEF ReadDirectory, archive, runs
<1>3. CASE GiveUp(c)
  <2>1. /\ cli'[c].name = None
        /\ \A d \in Command \ {c} : cli'[d] = cli[d]
        /\ ~ Busy(c, n)'
    BY <1>3, Leaving, Ids DEF Busy
  <2>2. KeptBy(c, n) => KeptBy(c, n)'
    BY <1>1, <1>2, <2>1 DEF KeptBy, InOrder, Complete, Owners, Owed, IsWhole
  <2>3. ListedBy(c, n) => ListedBy(c, n)'
    BY <1>1, <1>2, <2>1 DEF ListedBy
  <2> QED BY <1>2, <2>1, <2>2, <2>3, CommandOnly, Ids
<1>4. CASE hot[n].there /\ cli' = [cli EXCEPT ![c].stage = "payload", ![c].read = hot[n]]
  <2>1. /\ cli'[c].name = n /\ cli'[c].stage = "payload" /\ cli'[c].read = hot[n]
        /\ \A d \in Command \ {c} : cli'[d] = cli[d]
    BY <1>1, <1>4 DEF CliOK, CommandState
  <2>2. WorksAt(c, n)
    BY <1>2, <2>1 DEF WorksAt
  <2>3. MixedNot(c, n) => MixedNot(c, n)'
    BY <1>2, <2>1 DEF MixedNot, OneOwner, Owners, Busy
  <2>4. MixedNot(c, n) /\ KeptBy(c, n) => KeptBy(c, n)'
    BY <1>1, <1>2, <1>4, <2>1 DEF KeptBy, InOrder, Complete, Owners, Owed, IsWhole,
       StageKeeps, SameFiles, Busy
  <2>5. ListedBy(c, n) => ListedBy(c, n)'
    BY <1>1, <1>2, <1>4, <2>1 DEF ListedBy, Busy
  <2> QED BY <2>2, <2>3, <2>4, <2>5, WorkStep
<1> QED BY <1>1, <1>3, <1>4 DEF ReadDirectory

\* The truncated payload takes nothing but what the directory still holds.
LEMMA OpenPayloadKept ==
  ASSUME CopiesOK, CliOK, RunsOK, HistOK, AbsentIsEmpty, PlaceInv,
         NEW c \in Command, NEW n \in RunId, Busy(c, n), OpenPayload(c)
  PROVE  PlaceInv'
<1>1. cli[c].name = n /\ cli[c].stage = "payload" /\ cli[c].read \in Copy
  BY Working DEF OpenPayload
<1>2. /\ UNCHANGED <<hot, manifest, at, driven, log, contended, cut>>
      /\ payload'[n] = Nothing /\ \A m \in RunId \ {n} : payload'[m] = payload[m]
      /\ forgone' = forgone \cup (Owners(payload[n]) \ Owners(cli[c].read))
  BY <1>1 DEF OpenPayload, runs, CopiesOK
<1>3. /\ cli'[c].name = n /\ cli'[c].stage = "pack" /\ cli'[c].read = cli[c].read
      /\ \A d \in Command \ {c} : cli'[d] = cli[d]
  BY <1>1, Moving, Working, StageNames DEF OpenPayload
<1>4. WorksAt(c, n)
  BY <1>2, <1>3 DEF WorksAt
<1>5. MixedNot(c, n) => MixedNot(c, n)'
  <2>1. DOMAIN payload'[n].events = {} /\ payload'[n].work = None
    BY <1>2, NothingOwned
  <2> QED BY <1>1, <1>2, <1>3, <2>1 DEF MixedNot, OneOwner, Owners, Busy
<1>6. ASSUME MixedNot(c, n), KeptBy(c, n)
      PROVE  KeptBy(c, n)'
  <2>1. SameFiles(cli[c].read, hot[n]) /\ InOrder(n) /\ Complete(payload[n])
    BY <1>1, <1>6 DEF KeptBy, StageKeeps, Busy
  <2>2. Owners(cli[c].read) = Owners(hot[n])
    BY <2>1 DEF SameFiles, Owners
  <2>3. ASSUME NEW g \in Owed(n)'
        PROVE  IsWhole(hot[n], g)
    <3>1. g \in Owed(n) /\ g \notin Owners(payload[n]) \ Owners(hot[n]) /\ g \in Run
      BY <1>2, <2>2, <2>3 DEF Owed
    <3>2. IsWhole(payload[n], g) => g \in Owners(payload[n])
      BY Ids, <3>1 DEF IsWhole, Owners
    <3>3. IsWhole(hot[n], g) \/ IsWhole(payload[n], g)
      BY <1>6, <3>1 DEF KeptBy
    <3> QED BY <2>1, <3>1, <3>2, <3>3 DEF InOrder
  <2>4. InOrder(n)'
    BY <1>2, <2>1, <2>3 DEF InOrder, Complete, Owners, IsWhole
  <2>5. Complete(payload[n])'
    BY <1>2, NothingOwned DEF Complete
  <2>6. StageKeeps(n, cli[c].stage, cli[c].read)'
    BY <1>2, <1>3, <2>1, NothingOwned DEF StageKeeps, SameFiles
  <2>7. \A g \in Owed(n)' : IsWhole(hot[n], g)'
    BY <1>2, <2>3 DEF IsWhole
  <2> QED BY <2>4, <2>5, <2>6, <2>7 DEF KeptBy
<1>7. ListedBy(c, n) => ListedBy(c, n)'
  BY <1>1, <1>2, <1>3, NothingOwned DEF ListedBy, Busy
<1> QED BY <1>4, <1>5, <1>6, <1>7, WorkStep

\* The payload holds what the directory holds.
LEMMA WritePayloadKept ==
  ASSUME CopiesOK, CliOK, RunsOK, HistOK, AbsentIsEmpty, PlaceInv,
         NEW c \in Command, NEW n \in RunId, Busy(c, n), WritePayload(c)
  PROVE  PlaceInv'
<1>1. /\ cli[c].name = n /\ cli[c].stage = "pack" /\ cli[c].read \in Copy
      /\ n \in DOMAIN payload
  BY Working DEF WritePayload, CopiesOK
<1>2. /\ UNCHANGED <<hot, manifest, at, driven, log, forgone, contended, cut>>
      /\ payload'[n] = cli[c].read /\ \A m \in RunId \ {n} : payload'[m] = payload[m]
  BY <1>1 DEF WritePayload, runs, CopiesOK
<1>3. /\ cli'[c].name = n /\ cli'[c].stage = "manifest" /\ cli'[c].read = Nothing
      /\ \A d \in Command \ {c} : cli'[d] = cli[d]
  BY <1>1 DEF WritePayload, CliOK, CommandState
<1>4. WorksAt(c, n)
  BY <1>2, <1>3 DEF WorksAt
<1>5. MixedNot(c, n) => MixedNot(c, n)'
  <2>1. DOMAIN cli'[c].read.events = {} /\ cli'[c].read.work = None
    BY <1>3, NothingOwned
  <2> QED BY <1>1, <1>2, <1>3, <2>1 DEF MixedNot, OneOwner, Owners, Busy
<1>6. ASSUME MixedNot(c, n), KeptBy(c, n)
      PROVE  KeptBy(c, n)'
  <2>1. SameFiles(cli[c].read, hot[n]) /\ InOrder(n) /\ ~ payload[n].there
    BY <1>1, <1>6 DEF KeptBy, StageKeeps, Busy
  <2>2. \A g \in Owed(n) : IsWhole(hot[n], g)
    BY <1>6, <2>1 DEF KeptBy, IsWhole
  <2>3. InOrder(n)' /\ \A g \in Owed(n)' : IsWhole(hot[n], g)'
    BY <1>2, <2>1, <2>2 DEF InOrder, Complete, Owners, IsWhole, Owed
  <2>4. Complete(payload[n])' /\ SameFiles(payload[n], hot[n])'
    BY <1>2, <2>1 DEF Complete, SameFiles, InOrder
  <2>5. StageKeeps(n, cli[c].stage, cli[c].read)'
    BY <1>3, <2>4 DEF StageKeeps
  <2> QED BY <2>3, <2>4, <2>5 DEF KeptBy
<1>7. ListedBy(c, n) => ListedBy(c, n)'
  BY <1>1, <1>2, <1>3 DEF ListedBy, Busy
<1> QED BY <1>4, <1>5, <1>6, <1>7, WorkStep

\* The manifest is truncated,
LEMMA OpenManifestKept ==
  ASSUME CopiesOK, CliOK, RunsOK, HistOK, AbsentIsEmpty, PlaceInv,
         NEW c \in Command, NEW n \in RunId, Busy(c, n), OpenManifest(c)
  PROVE  PlaceInv'
<1>1. cli[c].name = n /\ cli[c].stage = "manifest" /\ cli[c].read = Nothing
  BY Working DEF OpenManifest
<1>2. /\ UNCHANGED <<hot, payload, at, driven, log, forgone, contended, cut>>
      /\ manifest'[n] = "torn" /\ \A m \in RunId \ {n} : manifest'[m] = manifest[m]
  BY <1>1 DEF OpenManifest, runs, RunsOK
<1>3. /\ cli'[c].name = n /\ cli'[c].stage = "list" /\ cli'[c].read = cli[c].read
      /\ \A d \in Command \ {c} : cli'[d] = cli[d]
  BY <1>1, Moving, Working, StageNames DEF OpenManifest
<1>4. WorksAt(c, n)
  BY <1>2, <1>3 DEF WorksAt
<1>5. MixedNot(c, n) => MixedNot(c, n)'
  BY <1>1, <1>2, <1>3 DEF MixedNot, OneOwner, Owners, Busy
<1>6. MixedNot(c, n) /\ KeptBy(c, n) => KeptBy(c, n)'
  BY <1>1, <1>2, <1>3 DEF KeptBy, InOrder, Complete, Owners, Owed, IsWhole, StageKeeps,
     SameFiles, Busy
<1>7. ListedBy(c, n) => ListedBy(c, n)'
  BY <1>1, <1>2, <1>3 DEF ListedBy, Busy
<1> QED BY <1>4, <1>5, <1>6, <1>7, WorkStep

\* and written: the directory may go.
LEMMA WriteManifestKept ==
  ASSUME CopiesOK, CliOK, RunsOK, HistOK, AbsentIsEmpty, PlaceInv,
         NEW c \in Command, NEW n \in RunId, Busy(c, n), WriteManifest(c)
  PROVE  PlaceInv'
<1>1. cli[c].name = n /\ cli[c].stage = "list" /\ cli[c].read = Nothing
  BY Working DEF WriteManifest
<1>2. /\ UNCHANGED <<hot, payload, at, driven, log, forgone, contended, cut>>
      /\ manifest'[n] = "whole" /\ \A m \in RunId \ {n} : manifest'[m] = manifest[m]
  BY <1>1 DEF WriteManifest, runs, RunsOK
<1>3. /\ cli'[c].name = n /\ cli'[c].stage = "remove" /\ cli'[c].read = cli[c].read
      /\ \A d \in Command \ {c} : cli'[d] = cli[d]
  BY <1>1, Moving, Working, StageNames DEF WriteManifest
<1>4. WorksAt(c, n)
  BY <1>2, <1>3 DEF WorksAt
<1>5. MixedNot(c, n) => MixedNot(c, n)'
  BY <1>1, <1>2, <1>3 DEF MixedNot, OneOwner, Owners, Busy
<1>6. MixedNot(c, n) /\ KeptBy(c, n) => KeptBy(c, n)'
  BY <1>1, <1>2, <1>3 DEF KeptBy, InOrder, Complete, Owners, Owed, IsWhole, StageKeeps,
     SameFiles, Busy
<1>7. ListedBy(c, n) => ListedBy(c, n)'
  BY <1>1, <1>2, <1>3 DEF ListedBy, Busy
<1> QED BY <1>4, <1>5, <1>6, <1>7, WorkStep

\* What is removed from the directory is in the archive.
LEMMA RemoveFileKept ==
  ASSUME CopiesOK, CliOK, RunsOK, HistOK, AbsentIsEmpty, PlaceInv,
         NEW c \in Command, NEW n \in RunId, Busy(c, n), RemoveFile(c)
  PROVE  PlaceInv'
<1>1. cli[c].name = n /\ cli[c].stage = "remove" /\ cli[c].read = Nothing /\ hot[n] \in Copy
  BY Working DEF RemoveFile, CopiesOK
<1>2. /\ UNCHANGED <<payload, manifest, at, driven, log, cli, forgone, contended, cut>>
      /\ \A m \in RunId \ {n} : hot'[m] = hot[m]
  BY <1>1 DEF RemoveFile, archive, runs, CopiesOK
<1>3. /\ hot'[n].events \in {hot[n].events, <<>>}
      /\ hot'[n].work \in {hot[n].work, None}
  BY <1>1 DEF RemoveFile, CopiesOK, Copy
<1>4. WorksAt(c, n)
  BY <1>1, <1>2 DEF WorksAt
<1>5. MixedNot(c, n) => MixedNot(c, n)'
  <2>1. \A a \in Owners(hot'[n]) : a \in Owners(hot[n])
    BY <1>3 DEF Owners
  <2> QED BY <1>1, <1>2, <2>1 DEF MixedNot, OneOwner, Busy
<1>6. MixedNot(c, n) /\ KeptBy(c, n) => KeptBy(c, n)'
  BY <1>1, <1>2 DEF KeptBy, Complete, Owed, IsWhole, StageKeeps, Busy
<1>7. ListedBy(c, n) => ListedBy(c, n)'
  BY <1>1, <1>2 DEF ListedBy, Busy
<1> QED BY <1>4, <1>5, <1>6, <1>7, WorkStep

\* The directory is gone and the archive is whole.
LEMMA RemoveDirectoryKept ==
  ASSUME CopiesOK, CliOK, RunsOK, HistOK, AbsentIsEmpty, PlaceInv,
         NEW c \in Command, NEW n \in RunId, Busy(c, n), RemoveDirectory(c)
  PROVE  PlaceInv'
<1>1. cli[c].name = n /\ cli[c].stage = "remove" /\ hot[n] \in Copy
  BY Working DEF RemoveDirectory, CopiesOK
<1>2. /\ UNCHANGED <<payload, manifest, at, driven, log, forgone, contended, cut>>
      /\ hot'[n] = Nothing /\ \A m \in RunId \ {n} : hot'[m] = hot[m]
  BY <1>1 DEF RemoveDirectory, archive, runs, CopiesOK
<1>3. /\ cli'[c].name = None /\ ~ Busy(c, n)'
      /\ \A d \in Command \ {c} : cli'[d] = cli[d]
  BY Leaving, Ids DEF RemoveDirectory, Busy
<1>4. WorksAt(c, n)
  BY <1>2, <1>3 DEF WorksAt
<1>5. MixedNot(c, n) => MixedNot(c, n)'
  <2>1. DOMAIN hot'[n].events = {} /\ hot'[n].work = None
    BY <1>2, NothingOwned
  <2> QED BY <1>1, <1>2, <1>3, <2>1 DEF MixedNot, OneOwner, Owners
<1>6. ASSUME KeptBy(c, n)
      PROVE  KeptBy(c, n)'
  <2>1. hot'[n].events = <<>> /\ hot'[n].work = None
    BY <1>2, NothingOwned
  <2>2. InOrder(n)'
    BY <2>1 DEF InOrder, Complete, Owners
  <2>3. Complete(payload[n])' /\ \A g \in Owed(n)' : IsWhole(payload[n], g)'
    BY <1>1, <1>2, <1>6 DEF KeptBy, StageKeeps, Owed, IsWhole, Complete, Busy
  <2> QED BY <1>3, <2>2, <2>3 DEF KeptBy
<1>7. ListedBy(c, n) => ListedBy(c, n)'
  BY <1>1, <1>2, <1>3 DEF ListedBy
<1> QED BY <1>4, <1>5, <1>6, <1>7, WorkStep

\* deleteRun: who owned the directory is forgone.
LEMMA CheckDeleteKept ==
  ASSUME CopiesOK, CliOK, RunsOK, HistOK, AbsentIsEmpty, PlaceInv,
         NEW c \in Command, NEW n \in RunId, Busy(c, n), CheckDelete(c)
  PROVE  PlaceInv'
<1>1. /\ cli[c].name = n /\ cli[c].stage = "delete" /\ cli[c].read = Nothing
      /\ hot[n] \in Copy
  BY Working DEF CheckDelete, CopiesOK
<1>2. /\ UNCHANGED <<hot, payload, manifest, at, driven, log, contended, cut>>
      /\ forgone \subseteq forgone'
  BY DEF CheckDelete, archive, runs
<1>3. CASE GiveUp(c)
  <2>1. /\ cli'[c].name = None
        /\ \A d \in Command \ {c} : cli'[d] = cli[d]
        /\ ~ Busy(c, n)'
    BY <1>3, Leaving, Ids DEF Busy
  <2>2. KeptBy(c, n) => KeptBy(c, n)'
    BY <1>1, <1>2, <2>1 DEF KeptBy, InOrder, Complete, Owners, Owed, IsWhole
  <2>3. ListedBy(c, n) => ListedBy(c, n)'
    BY <1>1, <1>2, <2>1 DEF ListedBy
  <2> QED BY <1>2, <2>1, <2>2, <2>3, CommandOnly, Ids
<1>4. CASE GoTo(c, "remove") /\ forgone' = forgone \cup Owners(hot[n])
  <2>1. /\ cli'[c].name = n /\ cli'[c].stage = "remove" /\ cli'[c].read = cli[c].read
        /\ \A d \in Command \ {c} : cli'[d] = cli[d]
    BY <1>1, <1>4, Moving, Working, StageNames
  <2>2. ASSUME KeptBy(c, n)
        PROVE  KeptBy(c, n)'
    <3>1. ASSUME NEW g \in Owed(n)' PROVE IsWhole(payload[n], g)
      <4>1. g \in Owed(n) /\ g \notin Owners(hot[n]) /\ g \in Run
        BY <1>2, <1>4, <3>1 DEF Owed
      <4>2. IsWhole(hot[n], g) => g \in Owners(hot[n])
        BY Ids, <4>1 DEF IsWhole, Owners
      <4> QED BY <2>2, <4>1, <4>2 DEF KeptBy
    <3>2. \A g \in Owed(n)' : IsWhole(payload[n], g)'
      BY <1>2, <3>1 DEF IsWhole
    <3>3. Complete(payload[n])' /\ StageKeeps(n, cli[c].stage, cli[c].read)'
      BY <1>2, <2>1, <2>2, <3>2 DEF KeptBy, StageKeeps, Complete
    <3> QED BY <2>1, <3>2, <3>3 DEF KeptBy, Busy
  <2>3. ListedBy(c, n) => ListedBy(c, n)'
    BY <1>1, <1>2, <2>1 DEF ListedBy, Busy
  <2> QED BY <1>2, <2>1, <2>2, <2>3, CommandOnly
<1>5. CASE GoTo(c, "delete-archive") /\ UNCHANGED forgone
  <2>1. /\ cli'[c].name = n /\ cli'[c].stage = "delete-archive" /\ cli'[c].read = cli[c].read
        /\ \A d \in Command \ {c} : cli'[d] = cli[d]
    BY <1>1, <1>5, Moving, Working, StageNames
  <2>2. KeptBy(c, n) => KeptBy(c, n)'
    BY <1>1, <1>2, <1>5, <2>1 DEF KeptBy, InOrder, Complete, Owners, Owed, IsWhole,
       StageKeeps, Busy
  <2>3. ListedBy(c, n) => ListedBy(c, n)'
    BY <1>1, <1>2, <2>1 DEF ListedBy, Busy
  <2> QED BY <1>2, <2>1, <2>2, <2>3, CommandOnly
<1> QED BY <1>1, <1>3, <1>4, <1>5 DEF CheckDelete

\* The payload goes when its owner is forgone, or is back in the directory.
LEMMA UnlinkPayloadKept ==
  ASSUME CopiesOK, CliOK, RunsOK, HistOK, AbsentIsEmpty, PlaceInv,
         NEW c \in Command, NEW n \in RunId, Busy(c, n), UnlinkPayload(c)
  PROVE  PlaceInv'
<1>1. /\ cli[c].name = n /\ cli[c].read = Nothing /\ payload[n] \in Copy
      /\ cli[c].stage \in {"delete-archive", "restored"}
  BY Working DEF UnlinkPayload, CopiesOK
<1>2. /\ UNCHANGED <<hot, manifest, at, driven, log, contended, cut>>
      /\ payload'[n] = Nothing /\ \A m \in RunId \ {n} : payload'[m] = payload[m]
      /\ forgone \subseteq forgone'
      /\ cli[c].stage = "delete-archive" => forgone' = forgone \cup Owners(payload[n])
  BY <1>1 DEF UnlinkPayload, runs, CopiesOK
<1>3. /\ cli'[c].name = n /\ cli'[c].stage = "unlist" /\ cli'[c].read = cli[c].read
      /\ \A d \in Command \ {c} : cli'[d] = cli[d]
  BY <1>1, Moving, Working, StageNames DEF UnlinkPayload
<1>4. WorksAt(c, n)
  BY <1>2, <1>3 DEF WorksAt
<1>5. MixedNot(c, n) => MixedNot(c, n)'
  <2>1. DOMAIN payload'[n].events = {} /\ payload'[n].work = None
    BY <1>2, NothingOwned
  <2> QED BY <1>1, <1>2, <1>3, <2>1 DEF MixedNot, OneOwner, Owners, Busy
<1>6. ASSUME KeptBy(c, n)
      PROVE  KeptBy(c, n)'
  <2>1. /\ cli[c].stage = "restored" => SameFiles(payload[n], hot[n])
        /\ InOrder(n)
    BY <1>1, <1>6 DEF KeptBy, StageKeeps, Busy
  <2>2. ASSUME NEW g \in Owed(n)' PROVE IsWhole(hot[n], g)
    <3>1. g \in Owed(n) /\ g \in Run
      BY <1>2, <2>2 DEF Owed
    <3>2. IsWhole(hot[n], g) \/ IsWhole(payload[n], g)
      BY <1>6, <3>1 DEF KeptBy
    <3>3. CASE cli[c].stage = "restored"
      BY <2>1, <3>2, <3>3 DEF IsWhole, SameFiles
    <3>4. CASE cli[c].stage = "delete-archive"
      <4>1. g \notin Owners(payload[n])
        BY <1>2, <2>2, <3>4 DEF Owed
      <4>2. IsWhole(payload[n], g) => g \in Owners(payload[n])
        BY Ids, <3>1 DEF IsWhole, Owners
      <4> QED BY <3>2, <4>1, <4>2
    <3> QED BY <1>1, <3>3, <3>4
  <2>3. InOrder(n)' /\ \A g \in Owed(n)' : IsWhole(hot[n], g)'
    BY <1>2, <2>1, <2>2 DEF InOrder, Complete, Owners, IsWhole
  <2>4. Complete(payload[n])' /\ StageKeeps(n, cli[c].stage, cli[c].read)'
    BY <1>2, <1>3, NothingOwned DEF Complete, StageKeeps
  <2> QED BY <2>3, <2>4 DEF KeptBy
<1>7. ListedBy(c, n) => ListedBy(c, n)'
  BY <1>1, <1>2, <1>3, NothingOwned DEF ListedBy, Busy
<1> QED BY <1>4, <1>5, <1>6, <1>7, WorkStep

\* The manifest follows the payload.
LEMMA UnlinkManifestKept ==
  ASSUME CopiesOK, CliOK, RunsOK, HistOK, AbsentIsEmpty, PlaceInv,
         NEW c \in Command, NEW n \in RunId, Busy(c, n), UnlinkManifest(c)
  PROVE  PlaceInv'
<1>1. cli[c].name = n /\ cli[c].stage = "unlist"
  BY Working DEF UnlinkManifest
<1>2. /\ UNCHANGED <<hot, payload, at, driven, log, forgone, contended, cut>>
      /\ manifest'[n] = "none" /\ \A m \in RunId \ {n} : manifest'[m] = manifest[m]
  BY <1>1 DEF UnlinkManifest, runs, RunsOK
<1>3. /\ cli'[c].name = None /\ ~ Busy(c, n)'
      /\ \A d \in Command \ {c} : cli'[d] = cli[d]
  BY Leaving, Ids DEF UnlinkManifest, Busy
<1>4. WorksAt(c, n)
  BY <1>2, <1>3 DEF WorksAt
<1>5. MixedNot(c, n) => MixedNot(c, n)'
  BY <1>1, <1>2, <1>3 DEF MixedNot, OneOwner, Owners
<1>6. KeptBy(c, n) => KeptBy(c, n)'
  BY <1>1, <1>2, <1>3 DEF KeptBy, InOrder, Complete, Owners, Owed, IsWhole
<1>7. ListedBy(c, n) => ListedBy(c, n)'
  BY <1>1, <1>2, <1>3 DEF ListedBy, Busy
<1> QED BY <1>4, <1>5, <1>6, <1>7, WorkStep

\* A restore begins in an empty directory,
LEMMA MakeDirectoryKept ==
  ASSUME CopiesOK, CliOK, RunsOK, HistOK, AbsentIsEmpty, PlaceInv,
         NEW c \in Command, NEW n \in RunId, Busy(c, n), MakeDirectory(c)
  PROVE  PlaceInv'
<1>1. cli[c].name = n /\ cli[c].stage = "mkdir" /\ hot[n] \in Copy
  BY Working DEF MakeDirectory, CopiesOK
<1>2. /\ UNCHANGED <<payload, manifest, at, driven, log, forgone, contended, cut>>
      /\ hot'[n].there /\ hot'[n].events = hot[n].events /\ hot'[n].work = hot[n].work
      /\ \A m \in RunId \ {n} : hot'[m] = hot[m]
  BY <1>1 DEF MakeDirectory, archive, runs, CopiesOK, Copy
<1>3. /\ cli'[c].name = n /\ cli'[c].stage = "restore" /\ cli'[c].read = cli[c].read
      /\ \A d \in Command \ {c} : cli'[d] = cli[d]
  BY <1>1, Moving, Working, StageNames DEF MakeDirectory
<1>4. WorksAt(c, n)
  BY <1>2, <1>3 DEF WorksAt
<1>5. ASSUME MixedNot(c, n)
      PROVE  MixedNot(c, n)' /\ ~ hot[n].there /\ hot'[n].events = <<>> /\ hot'[n].work = None
  <2>1. ~ hot[n].there
    BY <1>1, <1>5 DEF MixedNot, Busy
  <2>2. hot'[n].events = <<>> /\ hot'[n].work = None
    BY <1>2, <2>1, NothingOwned DEF AbsentIsEmpty
  <2>3. DOMAIN hot'[n].events = {}
    BY <2>2
  <2> QED BY <1>1, <1>2, <1>3, <1>5, <2>1, <2>2, <2>3 DEF MixedNot, OneOwner, Owners, Busy
<1>6. ASSUME MixedNot(c, n), KeptBy(c, n)
      PROVE  KeptBy(c, n)'
  <2>1. Complete(payload[n])' /\ \A g \in Owed(n)' : IsWhole(payload[n], g)'
    BY <1>2, <1>5, <1>6 DEF KeptBy, Complete, Owed, IsWhole
  <2>2. Restored(n, cli[c].read)'
    BY <1>1, <1>2, <1>3, <1>5, <1>6 DEF KeptBy, StageKeeps, Restored, Busy
  <2>3. StageKeeps(n, cli[c].stage, cli[c].read)'
    BY <1>3, <2>1, <2>2 DEF StageKeeps
  <2> QED BY <1>3, <2>1, <2>3 DEF KeptBy, Busy
<1>7. ListedBy(c, n) => ListedBy(c, n)'
  BY <1>1, <1>2, <1>3 DEF ListedBy, Busy
<1> QED BY <1>4, <1>5, <1>6, <1>7, WorkStep

\* and writes the files of the archive, the last of which makes it whole.
LEMMA RestoreFileKept ==
  ASSUME CopiesOK, CliOK, RunsOK, HistOK, AbsentIsEmpty, PlaceInv,
         NEW c \in Command, NEW n \in RunId, Busy(c, n), RestoreFile(c)
  PROVE  PlaceInv'
<1>1. cli[c].name = n /\ cli[c].stage = "restore" /\ cli[c].read \in Copy /\ hot[n] \in Copy
  BY Working DEF RestoreFile, CopiesOK
<1>2. PICK copy \in Copy, left \in Copy :
        /\ Restores(n, cli[c].read, copy, left)
        /\ hot' = [hot EXCEPT ![n] = copy]
        /\ cli' = [cli EXCEPT ![c].read = IF HasFiles(left) THEN left ELSE Nothing,
                              ![c].stage = IF HasFiles(left) THEN @ ELSE "restored"]
  BY <1>1, RestoreOne
<1>3. /\ UNCHANGED <<payload, manifest, at, driven, log, forgone, contended, cut>>
      /\ hot'[n] = copy /\ \A m \in RunId \ {n} : hot'[m] = hot[m]
  BY <1>1, <1>2 DEF RestoreFile, archive, runs, CopiesOK
<1>4. /\ cli'[c].name = n
      /\ \A d \in Command \ {c} : cli'[d] = cli[d]
      /\ \/ cli'[c].stage = "restore" /\ cli'[c].read = left
         \/ cli'[c].stage = "restored" /\ cli'[c].read = Nothing /\ ~ HasFiles(left)
  BY <1>1, <1>2 DEF CliOK, CommandState
<1>5. WorksAt(c, n)
  BY <1>3, <1>4 DEF WorksAt
<1>6. MixedNot(c, n) => MixedNot(c, n)'
  <2>1. /\ \A a \in Owners(hot'[n]) : a \in Owners(hot[n]) \cup Owners(cli[c].read)
        /\ \A a \in Owners(left) : a \in Owners(cli[c].read)
    BY <1>2, <1>3 DEF Owners, Restores
  <2>2. \A a \in Owners(cli'[c].read) : a \in Owners(cli[c].read)
    BY <1>4, <2>1, NothingOwned
  <2> QED BY <1>1, <1>3, <1>4, <2>1, <2>2 DEF MixedNot, OneOwner, Busy
<1>7. ASSUME KeptBy(c, n)
      PROVE  KeptBy(c, n)'
  <2>1. /\ Complete(payload[n]) /\ Restored(n, cli[c].read)
        /\ \A g \in Owed(n) : IsWhole(payload[n], g)
    BY <1>1, <1>7 DEF KeptBy, StageKeeps, Busy
  <2>2. Complete(payload[n])' /\ \A g \in Owed(n)' : IsWhole(payload[n], g)'
    BY <1>3, <2>1 DEF Complete, Owed, IsWhole
  <2>3. CASE cli'[c].stage = "restore" /\ cli'[c].read = left
    <3>1. Restored(n, cli[c].read)'
      BY <1>2, <1>3, <2>1, <2>3 DEF Restored, Restores
    <3>2. StageKeeps(n, cli[c].stage, cli[c].read)'
      BY <2>2, <2>3, <3>1 DEF StageKeeps
    <3> QED BY <1>4, <2>2, <2>3, <3>2 DEF KeptBy, Busy
  <2>4. CASE cli'[c].stage = "restored" /\ ~ HasFiles(left)
    <3>1. SameFiles(payload'[n], hot'[n])
      BY <1>2, <1>3, <2>1, <2>4 DEF Restored, Restores, HasFiles, SameFiles
    <3>2. \A g \in Owed(n)' : IsWhole(hot[n], g)'
      BY <2>2, <3>1 DEF IsWhole, SameFiles
    <3>3. InOrder(n)'
      BY <2>2, <3>1, <3>2 DEF InOrder, Complete, SameFiles
    <3>4. StageKeeps(n, cli[c].stage, cli[c].read)'
      BY <2>4, <3>1 DEF StageKeeps, SameFiles
    <3> QED BY <2>2, <3>2, <3>3, <3>4 DEF KeptBy
  <2> QED BY <1>4, <2>3, <2>4
<1>8. ListedBy(c, n) => ListedBy(c, n)'
  BY <1>1, <1>3, <1>4 DEF ListedBy, Busy
<1> QED BY <1>5, <1>6, <1>7, <1>8, WorkStep

\* A killed command is recorded by what it leaves in part.
LEMMA DieKept ==
  ASSUME CopiesOK, CliOK, RunsOK, HistOK, AbsentIsEmpty, PlaceInv,
         NEW c \in Command, NEW n \in RunId, Busy(c, n), Die(c)
  PROVE  PlaceInv'
<1>1. /\ cli[c].name = n /\ n # None /\ cut[n] \in SUBSET {"directory", "archive"}
  BY Working, Ids DEF HistOK, Busy
<1>2. UNCHANGED <<hot, payload, manifest, at, driven, log, forgone, contended>>
  BY DEF Die, archive, runs
<1>3. /\ cli'[c].name = None /\ ~ Busy(c, n)'
      /\ \A d \in Command \ {c} : cli'[d] = cli[d]
  BY Leaving, Ids DEF Die, Busy
<1>4. /\ cut[n] \subseteq cut'[n] /\ \A m \in RunId \ {n} : cut'[m] = cut[m]
      /\ cli[c].stage \in {"remove", "restore"} => "directory" \in cut'[n]
      /\ cli[c].stage \in {"pack", "manifest", "list", "unlist"} => cut'[n] # {}
  <2>1. /\ cli[c].stage \in {"remove", "restore"} =>
            cut' = [cut EXCEPT ![n] = @ \cup {"directory"}]
        /\ cli[c].stage \in {"pack", "manifest", "list", "unlist"} =>
            cut' = [cut EXCEPT ![n] = @ \cup {"archive"}]
        /\ cli[c].stage \notin {"remove", "restore", "pack", "manifest", "list", "unlist"} =>
            cut' = [cut EXCEPT ![n] = @ \cup {}]
    BY <1>1 DEF Die
  <2> QED BY <1>1, <2>1 DEF HistOK
<1>5. WorksAt(c, n)
  BY <1>2, <1>3, <1>4 DEF WorksAt
<1>6. MixedNot(c, n) => MixedNot(c, n)'
  BY <1>1, <1>2, <1>3 DEF MixedNot, OneOwner, Owners
<1>7. KeptBy(c, n) /\ "directory" \notin cut'[n] => KeptBy(c, n)'
  BY <1>1, <1>2, <1>3, <1>4 DEF KeptBy, InOrder, Complete, Owners, Owed, IsWhole
<1>8. ListedBy(c, n) /\ cut'[n] = {} => ListedBy(c, n)'
  BY <1>1, <1>2, <1>3, <1>4 DEF ListedBy
<1> QED BY <1>5, <1>6, <1>7, <1>8, WorkStep

(***************************************************************************)
(* The steps that bring a process to a run id, and those of the drivers.   *)
(***************************************************************************)

\* A command turns to a run id: it is alone there afterwards, or the id is contended.
LEMMA TurnKept ==
  ASSUME CliOK, RunsOK, HistOK, PlaceInv, NEW c \in Command, NEW n \in RunId,
         cli[c].name = None, cli'[c].name = n,
         \A d \in Command \ {c} : cli'[d] = cli[d],
         UNCHANGED <<hot, payload, manifest, at, driven, log, forgone, cut>>, Meet,
         \/ cli'[c].stage \in {"archive", "delete", "delete-archive"} /\ cli'[c].read = Nothing
         \/ cli'[c].stage = "mkdir" /\ ~ hot[n].there
            /\ payload[n].there /\ cli'[c].read = payload[n]
  PROVE  PlaceInv'
<1>1. ASSUME NEW m \in RunId \ {n} PROVE Place(m)'
  <2>1. Unmoved(m)
    BY <1>1, Ids DEF Unmoved, SameFilesAs, Busy, Meet
  <2> QED BY <2>1, Frame DEF PlaceInv
<1>2. ASSUME n \notin contended' PROVE Place(n)'
  <2>1. n \notin contended /\ ~ Crowded(n)'
    BY <1>2 DEF Meet
  <2>2. /\ \A d \in Command : Busy(d, n)' => d = c
        /\ \A g \in driven : at[g] # n
    <3>1. <<"command", c>> \in Parties(n)'
      BY DEF Parties, Busy
    <3>2. ASSUME NEW d \in Command, Busy(d, n)' PROVE d = c
      <4>1. <<"command", d>> \in Parties(n)'
        BY <3>2 DEF Parties
      <4>2. <<"command", d>> = <<"command", c>>
        BY <2>1, <3>1, <4>1 DEF Crowded
      <4> QED BY <4>2
    <3>3. ASSUME NEW g \in driven PROVE at[g] # n
      <4>1. at[g] = n => <<"driver", g>> \in Parties(n)'
        BY DEF Parties
      <4>2. <<"driver", g>> # <<"command", c>>
        OBVIOUS
      <4> QED BY <2>1, <3>1, <4>1, <4>2 DEF Crowded
    <3> QED BY <3>2, <3>3
  <2>3. \A d \in Command : ~ Busy(d, n)
    BY <2>2, Ids DEF Busy
  <2>4. Unmixed(n) /\ ("directory" \notin cut[n] => Kept(n)) /\ (cut[n] = {} => Listed(n))
    BY <2>1 DEF PlaceInv, Place
  <2>5. MixedNot(c, n)'
    <3>1. Owners(cli'[c].read) = {} \/ cli'[c].read = payload[n]
      BY NothingOwned
    <3>2. OneOwner(cli'[c].read)
      BY <2>4, <3>1 DEF Unmixed, OneOwner
    <3> QED BY <2>4, <3>2 DEF Unmixed, MixedNot, OneOwner, Owners
  <2>6. Unmixed(n)'
    BY <2>2, <2>5 DEF Unmixed, MixedNot
  <2>7. ASSUME "directory" \notin cut'[n] PROVE Kept(n)'
    <3>1. Kept(n) /\ InOrder(n)
      BY <2>3, <2>4, <2>7 DEF Kept
    <3>2. InOrder(n)' /\ Complete(payload[n])'
      BY <3>1 DEF Kept, InOrder, Complete, Owners, Owed, IsWhole
    <3>3. \A g \in Owed(n)' : IsWhole(hot[n], g)' \/ IsWhole(payload[n], g)'
      BY <3>1 DEF Kept, Owed, IsWhole
    <3>4. StageKeeps(n, cli[c].stage, cli[c].read)'
      BY DEF StageKeeps
    <3> QED BY <2>2, <3>2, <3>3, <3>4 DEF Kept
  <2>8. ASSUME cut'[n] = {} PROVE Listed(n)'
    BY <2>2, <2>3, <2>4, <2>8 DEF Listed
  <2> QED BY <2>1, <2>6, <2>7, <2>8 DEF Place
<1> QED BY <1>1, <1>2 DEF PlaceInv, Place

\* gc turns to a run,
LEMMA NextActionKept ==
  ASSUME CliOK, RunsOK, HistOK, PlaceInv, NEW c \in Command, NextAction(c)
  PROVE  PlaceInv'
<1>1. PICK action \in cli[c].plan :
        cli' = [cli EXCEPT ![c].stage = action[1], ![c].name = action[2], ![c].plan = @ \ {action}]
  BY DEF NextAction
<1>2. /\ action[1] \in {"archive", "delete", "delete-archive"} /\ action[2] \in RunId
      /\ cli[c].name = None /\ cli[c].read = Nothing
  BY DEF CliOK, CommandOK, CommandState, Action, NextAction
<1>3. /\ cli'[c].name = action[2] /\ cli'[c].stage = action[1] /\ cli'[c].read = Nothing
      /\ \A d \in Command \ {c} : cli'[d] = cli[d]
  BY <1>1, <1>2 DEF CliOK, CommandState
<1>4. UNCHANGED <<hot, payload, manifest, at, driven, log, forgone, cut>> /\ Meet
  BY DEF NextAction, archive, runs
<1> QED BY <1>2, <1>3, <1>4, TurnKept

\* a user asks for its deletion,
LEMMA AskDeleteKept ==
  ASSUME CliOK, RunsOK, HistOK, PlaceInv, NEW c \in Command, NEW n \in RunId, AskDelete(c, n)
  PROVE  PlaceInv'
<1>1. cli[c].name = None /\ cli[c].read = Nothing
  BY DEF CliOK, CommandOK, AskDelete, Turn
<1>2. /\ cli'[c].name = n /\ cli'[c].stage = "delete" /\ cli'[c].read = Nothing
      /\ \A d \in Command \ {c} : cli'[d] = cli[d]
  BY <1>1 DEF CliOK, CommandState, AskDelete, Turn
<1>3. UNCHANGED <<hot, payload, manifest, at, driven, log, forgone, cut>> /\ Meet
  BY DEF AskDelete, archive, runs
<1> QED BY <1>1, <1>2, <1>3, TurnKept

\* or for its restore.
LEMMA RestoreKept ==
  ASSUME CliOK, RunsOK, HistOK, PlaceInv, NEW c \in Command, NEW n \in RunId, Restore(c, n)
  PROVE  PlaceInv'
<1>1. cli[c].name = None /\ ~ hot[n].there /\ payload[n].there
  BY DEF CliOK, CommandOK, Restore
<1>2. /\ cli'[c].name = n /\ cli'[c].stage = "mkdir" /\ cli'[c].read = payload[n]
      /\ \A d \in Command \ {c} : cli'[d] = cli[d]
  BY <1>1 DEF CliOK, CommandState, Restore
<1>3. UNCHANGED <<hot, payload, manifest, at, driven, log, forgone, cut>> /\ Meet
  BY DEF Restore, archive, runs
<1> QED BY <1>1, <1>2, <1>3, TurnKept

\* A driver's write, when nobody else is at work in its directory.
LEMMA WriteKept ==
  ASSUME CopiesOK, RunsOK, PlaceInv, NEW g \in Run, NEW n \in RunId, at[g] = n,
         NEW event, event.run = g, Write(g, event),
         UNCHANGED <<payload, manifest, at, cli, forgone, cut>>, contended \subseteq contended',
         driven' \subseteq driven \cup {g}, hot[n].there,
         n \notin contended' =>
            /\ ~ Crowded(n)'
            /\ Owners(hot[n]) \subseteq {g}
            /\ \A c \in Command : ~ Busy(c, n)
            /\ \A h \in driven' : at[h] = n => h = g
            /\ "directory" \notin cut[n] => hot[n].events = log[g]
  PROVE  PlaceInv'
<1>0. /\ hot[n] \in Copy /\ log[g] \in Seq(TrailEvent)
      /\ n \in DOMAIN hot /\ g \in DOMAIN log /\ hot[n].events \in Seq(TrailEvent)
  BY DEF CopiesOK, RunsOK, Copy
<1>1. /\ hot'[n].there /\ hot'[n].events = Append(hot[n].events, event) /\ hot'[n].work = g
      /\ \A m \in RunId \ {n} : hot'[m] = hot[m]
      /\ log'[g] = Append(log[g], event)
      /\ \A h \in Run \ {g} : log'[h] = log[h]
  BY <1>0 DEF Write, Copy, CopiesOK, RunsOK
<1>2. ASSUME NEW m \in RunId \ {n} PROVE Place(m)'
  <2>1. Unmoved(m)
    BY <1>1, <1>2 DEF Unmoved, SameFilesAs, Busy, RunsOK
  <2> QED BY <2>1, Frame DEF PlaceInv
<1>3. ASSUME n \notin contended' PROVE Place(n)'
  <2>1. /\ n \notin contended /\ Unmixed(n)
        /\ "directory" \notin cut[n] => Kept(n)
        /\ cut[n] = {} => Listed(n)
    BY <1>3 DEF PlaceInv, Place
  <2>2. \A a \in Owners(hot'[n]) : a = g
    <3>0. \A i \in DOMAIN hot[n].events : hot[n].events[i].run \in Owners(hot[n])
      BY DEF Owners
    <3>1. \A i \in DOMAIN hot[n].events : hot[n].events[i].run = g
      BY <1>3, <3>0
    <3>2. \A i \in DOMAIN hot'[n].events : hot'[n].events[i].run = g
      BY <1>0, <1>1, <3>1
    <3> QED BY <1>1, <3>2 DEF Owners
  <2>3. Unmixed(n)'
    <3>1. OneOwner(hot[n])' /\ OneOwner(payload[n])'
      BY <2>1, <2>2 DEF OneOwner, Unmixed, Owners
    <3>2. \A h \in driven' : at'[h] = n => Owners(hot'[n]) \subseteq {h}
      BY <1>3, <2>2
    <3>3. \A c \in Command : ~ Busy(c, n)'
      BY <1>3 DEF Busy
    <3> QED BY <3>1, <3>2, <3>3 DEF Unmixed
  <2>4. ASSUME "directory" \notin cut'[n] PROVE Kept(n)'
    <3>1. Kept(n) /\ hot[n].events = log[g]
      BY <1>3, <2>1, <2>4
    <3>2. hot'[n].events = log'[g] /\ hot'[n].events # <<>>
      BY <1>0, <1>1, <3>1
    <3>3. IsWhole(hot[n], g)'
      BY <1>1, <3>2 DEF IsWhole
    <3>4. InOrder(n)'
      BY <1>1, <2>2, <3>2, <3>3, Ids DEF InOrder, Complete, IsWhole
    <3>5. ASSUME NEW h \in Owed(n)' PROVE IsWhole(hot[n], h)' \/ IsWhole(payload[n], h)'
      <4>1. CASE h = g
        BY <3>3, <4>1 DEF IsWhole
      <4>2. CASE h # g
        <5>1. h \in Owed(n) /\ log'[h] = log[h] /\ h \in Run
          BY <1>1, <3>5, <4>2 DEF Owed
        <5>2. IsWhole(hot[n], h) => h \in Owners(hot[n])
          BY Ids, <5>1 DEF IsWhole, Owners
        <5>3. IsWhole(payload[n], h)
          BY <1>3, <3>1, <4>2, <5>1, <5>2 DEF Kept
        <5> QED BY <5>1, <5>3 DEF IsWhole
      <4> QED BY <4>1, <4>2
    <3>6. Complete(payload[n])'
      BY <3>1 DEF Kept, Complete
    <3>7. \A h \in driven' : at'[h] = n => hot'[n].there /\ hot'[n].events = log'[h]
      BY <1>1, <1>3, <3>2
    <3>8. \A c \in Command : ~ Busy(c, n)'
      BY <1>3 DEF Busy
    <3> QED BY <3>4, <3>5, <3>6, <3>7, <3>8 DEF Kept
  <2>5. cut'[n] = {} => Listed(n)'
    BY <2>1, <1>3 DEF Listed, Busy
  <2> QED BY <1>3, <2>3, <2>4, <2>5 DEF Place
<1> QED BY <1>2, <1>3 DEF PlaceInv, Place

\* A driver on an id that is not crowded is the only process there,
LEMMA DriverAlone ==
  ASSUME NEW n \in RunId, NEW g \in driven, at[g] = n, ~ Crowded(n)
  PROVE  /\ \A d \in Command : ~ Busy(d, n)
         /\ \A h \in driven : at[h] = n => h = g
<1>1. <<"driver", g>> \in Parties(n)
  BY DEF Parties
<1>2. ASSUME NEW d \in Command PROVE ~ Busy(d, n)
  <2>1. Busy(d, n) => <<"command", d>> \in Parties(n)
    BY DEF Parties
  <2>2. <<"driver", g>> # <<"command", d>>
    OBVIOUS
  <2> QED BY <1>1, <2>1, <2>2 DEF Crowded
<1>3. ASSUME NEW h \in driven, at[h] = n PROVE h = g
  <2>1. <<"driver", h>> \in Parties(n)
    BY <1>3 DEF Parties
  <2>2. <<"driver", h>> = <<"driver", g>>
    BY <1>1, <2>1 DEF Crowded
  <2> QED BY <2>2
<1> QED BY <1>2, <1>3

\* and so is one that comes to an id which is not crowded afterwards.
LEMMA DriverComes ==
  ASSUME NEW n \in RunId, NEW g \in driven', at'[g] = n, ~ Crowded(n)'
  PROVE  /\ \A d \in Command : ~ Busy(d, n)'
         /\ \A h \in driven' : at'[h] = n => h = g
<1>1. <<"driver", g>> \in Parties(n)'
  BY DEF Parties
<1>2. ASSUME NEW d \in Command PROVE ~ Busy(d, n)'
  <2>1. Busy(d, n)' => <<"command", d>> \in Parties(n)'
    BY DEF Parties
  <2>2. <<"driver", g>> # <<"command", d>>
    OBVIOUS
  <2> QED BY <1>1, <2>1, <2>2 DEF Crowded
<1>3. ASSUME NEW h \in driven', at'[h] = n PROVE h = g
  <2>1. <<"driver", h>> \in Parties(n)'
    BY <1>3 DEF Parties
  <2>2. <<"driver", h>> = <<"driver", g>>
    BY <1>1, <2>1 DEF Crowded
  <2> QED BY <2>2
<1> QED BY <1>2, <1>3

\* The driver appends to the trail of the run it is alone with,
LEMMA DriveKept ==
  ASSUME TypeInv, CopiesOK, RunsOK, PlaceInv, NEW g \in Run, Drive(g)
  PROVE  PlaceInv'
<1>1. PICK event \in NewEvents(g) :
        Write(g, event) /\ (driven' = driven \/ driven' = driven \ {g})
  BY DEF Drive
<1>2. event.run = g /\ g \in driven /\ at[g] \in RunId /\ hot[at[g]].there
  BY NewEventsTyped DEF Drive, RunsOK
<1>3. UNCHANGED <<payload, manifest, at, cli, forgone, cut>> /\ contended \subseteq contended'
  BY DEF Drive, archive, Meet
<1>4. ASSUME at[g] \notin contended'
      PROVE  /\ ~ Crowded(at[g])'
             /\ Owners(hot[at[g]]) \subseteq {g}
             /\ \A c \in Command : ~ Busy(c, at[g])
             /\ \A h \in driven' : at[h] = at[g] => h = g
             /\ "directory" \notin cut[at[g]] => hot[at[g]].events = log[g]
  <2> DEFINE n == at[g]
  <2>1. n \notin contended /\ n \notin {m \in RunId : Crowded(m)'}
    BY <1>4 DEF Drive, Meet
  <2>2. ~ Crowded(n) /\ Unmixed(n) /\ ("directory" \notin cut[n] => Kept(n))
    BY <1>2, <2>1 DEF PlaceInv, Place
  <2>3. /\ \A d \in Command : ~ Busy(d, n)
        /\ \A h \in driven : at[h] = n => h = g
    BY <1>2, <2>2, DriverAlone
  <2>4. /\ \A d \in Command : ~ Busy(d, n)'
        /\ \A h \in driven' : at'[h] = n => h = g
    BY <2>3, <1>1, <1>3 DEF Busy
  <2>5. ~ Crowded(at[g])'
    BY <2>4, <1>3 DEF Crowded, Parties
  <2> QED BY <1>1, <1>2, <2>2, <2>3, <2>5 DEF Unmixed, Kept
<1> QED BY <1>1, <1>2, <1>3, <1>4, WriteKept

\* a run is reopened where its whole trail is,
LEMMA ReopenKept ==
  ASSUME TypeInv, CopiesOK, RunsOK, PlaceInv, NEW g \in Run, Reopen(g)
  PROVE  PlaceInv'
<1>1. PICK event \in Reopenings(g) : Write(g, event)
  BY DEF Reopen
<1>2. /\ at[g] \in RunId /\ hot[at[g]].there /\ hot[at[g]].events = log[g] /\ log[g] # <<>>
      /\ driven' = driven \cup {g} /\ \A h \in driven : at[h] # at[g]
      /\ UNCHANGED <<payload, manifest, at, cli, forgone, cut>> /\ contended \subseteq contended'
  BY DEF Reopen, RunsOK, archive, Meet
<1>3. event.run = g
  BY <1>2, ReopeningsTyped
<1>4. ASSUME at[g] \notin contended'
      PROVE  /\ ~ Crowded(at[g])'
             /\ Owners(hot[at[g]]) \subseteq {g}
             /\ \A c \in Command : ~ Busy(c, at[g])
             /\ \A h \in driven' : at[h] = at[g] => h = g
             /\ "directory" \notin cut[at[g]] => hot[at[g]].events = log[g]
  <2>1. at[g] \notin contended /\ at[g] \notin {m \in RunId : Crowded(m)'}
    BY <1>4 DEF Reopen, Meet
  <2>2. OneOwner(hot[at[g]])
    BY <1>2, <2>1 DEF PlaceInv, Place, Unmixed
  <2>3. log[g] \in Seq(TrailEvent) /\ 1 \in DOMAIN log[g] /\ log[g][1].run = g
    BY <1>2 DEF RunsOK, LogsStarted
  <2>4. g \in Owners(hot[at[g]])
    BY <1>2, <2>3 DEF Owners
  <2>5. \A c \in Command : ~ Busy(c, at[g])
    <3>1. ASSUME NEW c \in Command, Busy(c, at[g]) PROVE FALSE
      <4>1. ~ Crowded(at[g])'
        BY <1>2, <2>1
      <4>2. <<"command", c>> \in Parties(at[g])' /\ <<"driver", g>> \in Parties(at[g])'
        BY <1>2, <3>1 DEF Parties, Busy
      <4>3. <<"driver", g>> # <<"command", c>>
        OBVIOUS
      <4> QED BY <4>1, <4>2, <4>3 DEF Crowded
    <3> QED BY <3>1
  <2> QED BY <1>2, <2>1, <2>2, <2>4, <2>5 DEF OneOwner
<1> QED BY <1>1, <1>2, <1>3, <1>4, WriteKept

\* and a new run takes an id whose directory is not there.
LEMMA CreateKept ==
  ASSUME CopiesOK, RunsOK, PlaceInv, NEW g \in Run, Create(g)
  PROVE  PlaceInv'
<1>1. PICK n \in RunId : /\ ~ hot[n].there /\ hot' = [hot EXCEPT ![n] = EmptyDir]
                         /\ at' = [at EXCEPT ![g] = n]
  BY DEF Create
<1>2. /\ hot'[n] = EmptyDir /\ \A m \in RunId \ {n} : hot'[m] = hot[m]
      /\ at'[g] = n /\ \A h \in Run \ {g} : at'[h] = at[h]
      /\ at[g] = None /\ log[g] = <<>> /\ g \notin driven /\ driven' = driven \cup {g}
      /\ driven \subseteq Run
      /\ UNCHANGED <<payload, manifest, log, cli, forgone, cut>> /\ Meet
      /\ contended \subseteq contended'
  BY <1>1 DEF Create, CopiesOK, RunsOK, LogsStarted, archive, Meet
<1>3. hot'[n].there /\ hot'[n].events = <<>> /\ hot'[n].work = None
  BY <1>2 DEF EmptyDir, Nothing
<1>4. ASSUME NEW m \in RunId \ {n} PROVE Place(m)'
  <2>1. Unmoved(m)
    BY <1>2, <1>4 DEF Unmoved, SameFilesAs, Busy
  <2> QED BY <2>1, Frame DEF PlaceInv
<1>5. ASSUME n \notin contended' PROVE Place(n)'
  <2>1. ~ Crowded(n)'
    BY <1>2, <1>5 DEF Meet
  <2>2. /\ \A c \in Command : ~ Busy(c, n)' /\ ~ Busy(c, n)
        /\ \A h \in driven' : at'[h] = n => h = g
    BY <1>2, <2>1, DriverComes DEF Busy
  <2>3. /\ Unmixed(n)
        /\ "directory" \notin cut[n] => Kept(n)
        /\ cut[n] = {} => Listed(n)
    BY <1>2, <1>5 DEF PlaceInv, Place
  <2>4. \A a \in Owners(hot'[n]) : FALSE
    BY <1>3 DEF Owners
  <2>5. Unmixed(n)'
    <3>0. OneOwner(payload[n]) /\ payload' = payload
      BY <1>2, <2>3 DEF Unmixed
    <3>1. Owners(payload[n])' = Owners(payload[n])
      BY <3>0 DEF Owners
    <3>2. OneOwner(payload[n])'
      BY <3>0, <3>1 DEF OneOwner
    <3> QED BY <2>2, <2>4, <3>2 DEF Unmixed, OneOwner
  <2>6. ASSUME "directory" \notin cut'[n] PROVE Kept(n)'
    <3>1. Kept(n)
      BY <1>2, <2>3, <2>6
    <3>2. InOrder(n)'
      BY <1>3, <2>4 DEF InOrder, Complete
    <3>3. ASSUME NEW h \in Owed(n)' PROVE IsWhole(payload[n], h)'
      <4>1. h \in Owed(n)
        BY <1>2, <3>3 DEF Owed
      <4>2. IsWhole(payload[n], h)
        BY <1>1, <3>1, <4>1 DEF Kept, IsWhole
      <4> QED BY <1>2, <4>2 DEF IsWhole
    <3>4. Complete(payload[n])'
      BY <1>2, <3>1 DEF Kept, Complete
    <3>5. \A h \in driven' : at'[h] = n => hot'[n].there /\ hot'[n].events = log'[h]
      BY <1>2, <1>3, <2>2
    <3> QED BY <2>2, <3>2, <3>3, <3>4, <3>5 DEF Kept
  <2>7. cut'[n] = {} => Listed(n)'
    BY <1>2, <2>2, <2>3 DEF Listed
  <2> QED BY <2>1, <2>5, <2>6, <2>7 DEF Place
<1> QED BY <1>4, <1>5 DEF PlaceInv, Place

\* A pin is no file of the run.
LEMMA PinSame ==
  ASSUME CopiesOK, NEW n \in RunId, NEW pin \in BOOLEAN, hot' = [hot EXCEPT ![n].pin = pin]
  PROVE  /\ hot'[n].there = hot[n].there
         /\ hot'[n].events = hot[n].events
         /\ hot'[n].work = hot[n].work
         /\ \A m \in RunId \ {n} : hot'[m] = hot[m]
<1>1. hot[n] \in Copy /\ hot \in [RunId -> Copy]
  BY DEF CopiesOK
<1> QED BY <1>1 DEF Copy

\* Every step keeps AbsentIsEmpty.
LEMMA StaysAbsent ==
  ASSUME CopiesOK, CliOK, RunsOK, AbsentIsEmpty, [Next]_vars
  PROVE  AbsentIsEmpty'
<1>1. ASSUME NEW g \in Run, Create(g) PROVE AbsentIsEmpty'
  BY ZenonT(60), <1>1 DEF Create, AbsentIsEmpty, EmptyDir, CopiesOK, Nothing
<1>2. ASSUME NEW g \in Run, Drive(g) \/ Reopen(g) PROVE AbsentIsEmpty'
  <2>1. /\ at[g] \in RunId /\ hot[at[g]].there
        /\ \E event : hot' = [hot EXCEPT ![at[g]].events = Append(@, event), ![at[g]].work = g]
    BY <1>2 DEF Drive, Reopen, Write, RunsOK
  <2> QED BY <2>1 DEF AbsentIsEmpty, CopiesOK, Copy
<1>3. ASSUME NEW n \in RunId, PinRun(n) \/ UnpinRun(n) PROVE AbsentIsEmpty'
  <2>1. hot[n].there
    <3>1. hot[n].there \/ hot[n].pin
      BY <1>3 DEF PinRun, UnpinRun
    <3> QED BY <3>1 DEF AbsentIsEmpty, Nothing
  <2>2. \E pin \in BOOLEAN : hot' = [hot EXCEPT ![n].pin = pin]
    BY <1>3 DEF PinRun, UnpinRun
  <2> QED BY <2>1, <2>2, PinSame DEF AbsentIsEmpty
<1>4. ASSUME NEW c \in Command, RemoveFile(c) PROVE AbsentIsEmpty'
  <2> DEFINE n == cli[c].name
  <2>1. n \in RunId /\ hot[n] \in Copy /\ hot \in [RunId -> Copy]
    BY <1>4, Stages DEF RemoveFile, CopiesOK
  <2>2. hot[n].there
    BY <1>4, <2>1 DEF RemoveFile, AbsentIsEmpty, Nothing
  <2>3. hot'[n].there /\ \A m \in RunId \ {n} : hot'[m] = hot[m]
    BY SMTT(30), <1>4, <2>1, <2>2 DEF RemoveFile, Copy
  <2> QED BY <2>3 DEF AbsentIsEmpty
<1>5. ASSUME NEW c \in Command, RemoveDirectory(c) PROVE AbsentIsEmpty'
  BY <1>5, Stages DEF RemoveDirectory, AbsentIsEmpty, CopiesOK
<1>6. ASSUME NEW c \in Command, MakeDirectory(c) PROVE AbsentIsEmpty'
  BY <1>6, Stages DEF MakeDirectory, AbsentIsEmpty, CopiesOK, Copy
<1>7. ASSUME NEW c \in Command, RestoreFile(c) PROVE AbsentIsEmpty'
  BY <1>7, RestoreOne DEF Restores, AbsentIsEmpty, CopiesOK
<1>8. ASSUME UNCHANGED hot PROVE AbsentIsEmpty'
  BY <1>8 DEF AbsentIsEmpty
<1>9. CASE UNCHANGED vars
  BY <1>8, <1>9 DEF vars
<1>10. ASSUME NEW g \in Run, Stop(g) PROVE AbsentIsEmpty'
  BY <1>8, <1>10 DEF Stop
<1>11. ASSUME NEW c \in Command,
              \/ Gc(c) \/ ArchiveRun(c) \/ DeleteRun(c) \/ Die(c)
              \/ \E n \in RunId : Restore(c, n)
       PROVE  AbsentIsEmpty'
  <2>1. UNCHANGED hot
    BY <1>11 DEF Gc, PlanGc, NextAction, ArchiveRun, CheckArchive, ReadDirectory,
       OpenPayload, WritePayload, OpenManifest, WriteManifest, DeleteRun, AskDelete,
       CheckDelete, UnlinkPayload, UnlinkManifest, Die, Restore
  <2> QED BY <1>8, <2>1
<1> QED BY <1>1, <1>2, <1>3, <1>4, <1>5, <1>6, <1>7, <1>9, <1>10, <1>11 DEF Next,
   RestoreArchivedRun

\* Steps that no run id notices.
LEMMA NoPlaceMoves ==
  ASSUME PlaceInv, \A m \in RunId : Unmoved(m)
  PROVE  PlaceInv'
  BY Frame DEF PlaceInv

\* Every step keeps PlaceInv.
LEMMA PlaceStep ==
  ASSUME StorageInv, [Next]_vars
  PROVE  PlaceInv'
<1> USE Parts DEF StorageInv
<1>1. ASSUME NEW g \in Run, Create(g) PROVE PlaceInv'
  BY <1>1, CreateKept
<1>2. ASSUME NEW g \in Run, Drive(g) PROVE PlaceInv'
  BY <1>2, DriveKept
<1>3. ASSUME NEW g \in Run, Reopen(g) PROVE PlaceInv'
  BY <1>3, ReopenKept
<1>4. ASSUME NEW g \in Run, Stop(g) PROVE PlaceInv'
  <2>1. \A m \in RunId : Unmoved(m)
    BY <1>4 DEF Stop, archive, Unmoved, SameFilesAs, Busy
  <2> QED BY <2>1, NoPlaceMoves
<1>5. ASSUME NEW n \in RunId, PinRun(n) \/ UnpinRun(n) PROVE PlaceInv'
  <2>1. \A m \in RunId : SameFilesAs(m)
    <3>1. \E pin \in BOOLEAN : hot' = [hot EXCEPT ![n].pin = pin]
      BY <1>5 DEF PinRun, UnpinRun
    <3> QED BY <3>1, PinSame DEF SameFilesAs
  <2>2. UNCHANGED <<payload, manifest, at, driven, log, cli, forgone, contended, cut>>
    BY <1>5 DEF PinRun, UnpinRun, archive, runs
  <2>3. \A m \in RunId : Unmoved(m)
    BY <2>1, <2>2 DEF Unmoved, Busy
  <2> QED BY <2>3, NoPlaceMoves
<1>6. ASSUME NEW c \in Command, cli[c].name = None, cli'[c].name = None,
             \A d \in Command \ {c} : cli'[d] = cli[d],
             UNCHANGED <<hot, payload, manifest, at, driven, log, forgone, contended, cut>>
      PROVE  PlaceInv'
  <2>1. \A m \in RunId : Unmoved(m)
    BY <1>6, Ids DEF Unmoved, SameFilesAs, Busy
  <2> QED BY <2>1, NoPlaceMoves
<1>7. ASSUME NEW c \in Command, Gc(c) PROVE PlaceInv'
  <2>1. CASE PlanGc(c)
    <3>1. cli[c].name = None /\ cli'[c].name = None /\ \A d \in Command \ {c} : cli'[d] = cli[d]
      BY <2>1 DEF PlanGc, CliOK, CommandOK, CommandState
    <3> QED BY <1>6, <2>1, <3>1 DEF PlanGc, archive, runs
  <2> QED BY <1>7, <2>1, NextActionKept DEF Gc
<1>8. ASSUME NEW c \in Command, cli[c].stage \notin {"idle", "next"},
             \/ ArchiveRun(c) \/ RemoveFile(c) \/ RemoveDirectory(c)
             \/ CheckDelete(c) \/ UnlinkPayload(c) \/ UnlinkManifest(c)
             \/ MakeDirectory(c) \/ RestoreFile(c) \/ Die(c)
      PROVE  PlaceInv'
  <2> DEFINE n == cli[c].name
  <2>1. cli[c].name \in RunId /\ Busy(c, cli[c].name)
    BY <1>8, Stages DEF Busy
  <2>2. CASE ArchiveRun(c)
    BY <2>1, <2>2, CheckArchiveKept, ReadDirectoryKept, OpenPayloadKept, WritePayloadKept,
       OpenManifestKept, WriteManifestKept DEF ArchiveRun
  <2>3. CASE RemoveFile(c) \/ RemoveDirectory(c) \/ Die(c)
    BY <2>1, <2>3, RemoveFileKept, RemoveDirectoryKept, DieKept
  <2>4. CASE CheckDelete(c) \/ UnlinkPayload(c) \/ UnlinkManifest(c)
    BY <2>1, <2>4, CheckDeleteKept, UnlinkPayloadKept, UnlinkManifestKept
  <2>5. CASE MakeDirectory(c) \/ RestoreFile(c)
    BY <2>1, <2>5, MakeDirectoryKept, RestoreFileKept
  <2> QED BY <1>8, <2>2, <2>3, <2>4, <2>5
<1>9. ASSUME NEW c \in Command, ArchiveRun(c) PROVE PlaceInv'
  BY <1>8, <1>9 DEF ArchiveRun, CheckArchive, ReadDirectory, OpenPayload, WritePayload,
     OpenManifest, WriteManifest
<1>10. ASSUME NEW c \in Command, RemoveFile(c) \/ RemoveDirectory(c) PROVE PlaceInv'
  BY <1>8, <1>10 DEF RemoveFile, RemoveDirectory
<1>11. ASSUME NEW c \in Command, DeleteRun(c) PROVE PlaceInv'
  BY <1>8, <1>11, AskDeleteKept DEF DeleteRun, CheckDelete, UnlinkPayload, UnlinkManifest
<1>12. ASSUME NEW c \in Command, RestoreArchivedRun(c) PROVE PlaceInv'
  BY <1>8, <1>12, RestoreKept DEF RestoreArchivedRun, MakeDirectory, RestoreFile
<1>13. ASSUME NEW c \in Command, Die(c) PROVE PlaceInv'
  <2>1. CASE cli[c].stage = "next"
    <3>1. cli[c].name = None
      BY <2>1 DEF CliOK, CommandOK
    <3>2. cli'[c].name = None /\ \A d \in Command \ {c} : cli'[d] = cli[d]
      BY <1>13, Leaving DEF Die
    <3> QED BY <1>6, <1>13, <3>1, <3>2 DEF Die, archive, runs
  <2> QED BY <1>8, <1>13, <2>1 DEF Die
<1>14. CASE UNCHANGED vars
  <2>1. \A m \in RunId : Unmoved(m)
    BY <1>14 DEF vars, Unmoved, SameFilesAs, Busy
  <2> QED BY <2>1, NoPlaceMoves
<1> QED BY <1>1, <1>2, <1>3, <1>4, <1>5, <1>7, <1>9, <1>10, <1>11, <1>12, <1>13, <1>14 DEF
   Next

\* The invariant holds at first.
LEMMA StartsRight == Init => StorageInv
<1> SUFFICES ASSUME Init PROVE StorageInv
  OBVIOUS
<1>1. TypeOK
  BY Blank, Ids DEF Init, TypeOK
<1>2. LogsStarted
  BY DEF Init, LogsStarted
<1>3. AbsentIsEmpty
  BY DEF Init, AbsentIsEmpty
<1>4. ASSUME NEW n \in RunId PROVE Place(n)
  <2>1. /\ hot[n] = Nothing /\ payload[n] = Nothing /\ manifest[n] = "none" /\ driven = {}
        /\ Owed(n) = {} /\ \A c \in Command : ~ Busy(c, n)
    BY Blank, Ids DEF Init, Owed, Busy
  <2>2. ~ Crowded(n)
    BY <2>1 DEF Crowded, Parties
  <2>3. Unmixed(n)
    BY <2>1, NothingOwned DEF Unmixed, OneOwner
  <2>4. Kept(n)
    BY <2>1, NothingOwned DEF Kept, InOrder, Complete
  <2>5. Listed(n)
    BY <2>1, NothingOwned DEF Listed
  <2> QED BY <2>2, <2>3, <2>4, <2>5 DEF Place
<1> QED BY <1>1, <1>2, <1>3, <1>4 DEF StorageInv, TypeInv, PlaceInv

\* The inductive invariant holds in every state.
THEOREM StorageInvariant == Spec => []StorageInv
<1>1. StorageInv /\ [Next]_vars => StorageInv'
  BY TypeStep, Parts, StaysAbsent, PlaceStep DEF StorageInv
<1> QED BY StartsRight, <1>1, PTL DEF Spec

\* The state has its types, and a command holds a copy only between reading and
\* writing it.
THEOREM TypeCorrect == Spec => []TypeOK
<1>1. StorageInv => TypeOK
  BY DEF StorageInv, TypeInv
<1> QED BY <1>1, StorageInvariant, PTL

\* A run nobody asked to delete stays whole in its directory or its archive, after
\* every await of archive and restore, a kill while the archive is written, and a
\* stale plan of gc.
THEOREM NeverLosesARun == Spec => []NothingLost
<1>1. StorageInv => NothingLost
  <2> SUFFICES ASSUME StorageInv, NEW g \in Run, log[g] # <<>>, g \notin forgone,
                      at[g] \notin contended, "directory" \notin cut[at[g]]
               PROVE  IsWhole(hot[at[g]], g) \/ IsWhole(payload[at[g]], g)
    BY DEF NothingLost
  <2>1. at[g] \in RunId
    BY DEF StorageInv, TypeInv, TypeOK, LogsStarted
  <2>2. Kept(at[g]) /\ g \in Owed(at[g])
    BY <2>1 DEF StorageInv, PlaceInv, Place, Owed
  <2> QED BY <2>2 DEF Kept
<1> QED BY <1>1, StorageInvariant, PTL

\* A set whose members are all equal has at most one.
LEMMA FewOwners ==
  ASSUME NEW S, \A a, b \in S : a = b
  PROVE  Cardinality(S) <= 1
<1>1. CASE S = {}
  BY <1>1, FS_EmptySet
<1>2. CASE S # {}
  <2>1. PICK a : a \in S
    BY <1>2
  <2>2. S = {a}
    BY <2>1
  <2> QED BY <2>2, FS_Singleton
<1> QED BY <1>1, <1>2

\* A directory and an archive hold the files of one run, even when ids are used again.
THEOREM NeverMixesRuns == Spec => []NeverMixed
<1>1. StorageInv => NeverMixed
  <2> SUFFICES ASSUME StorageInv, NEW n \in RunId \ contended
               PROVE  Cardinality(Owners(hot[n])) <= 1 /\ Cardinality(Owners(payload[n])) <= 1
    BY DEF NeverMixed
  <2>1. OneOwner(hot[n]) /\ OneOwner(payload[n])
    BY DEF StorageInv, PlaceInv, Place, Unmixed
  <2> QED BY <2>1, FewOwners DEF OneOwner
<1> QED BY <1>1, StorageInvariant, PTL

\* At rest, what the archive lists can be restored and what can be restored is listed.
THEOREM ArchiveIsListed == Spec => []ArchiveListed
<1>1. StorageInv => ArchiveListed
  BY DEF StorageInv, PlaceInv, Place, Listed, ArchiveListed
<1> QED BY <1>1, StorageInvariant, PTL

(***************************************************************************)
(* Pins.                                                                   *)
(***************************************************************************)
\* The fields of a copy and of a command.  What the other fields hold does not
\* matter to a pin.
CopyShape(copy) ==
    /\ DOMAIN copy = {"there", "events", "work", "pin"}
    /\ copy.pin \in BOOLEAN

Shapes ==
    /\ DOMAIN hot = RunId
    /\ DOMAIN payload = RunId
    /\ DOMAIN cli = Command
    /\ \A n \in RunId : CopyShape(hot[n]) /\ CopyShape(payload[n])
    /\ \A c \in Command :
        /\ DOMAIN cli[c] = {"stage", "name", "plan", "read"}
        /\ CopyShape(cli[c].read)

\* A pin is a file of the directory.
PinsInPlace == \A n \in RunId : hot[n].pin => hot[n].there

Planned ==
    \A c \in Command :
        cli[c].plan \subseteq {"archive", "delete", "delete-archive"} \X RunId

\* A guarded command stands before its check, or only deletes an archive.
Unchecked == {"archive", "delete", "delete-archive", "unlist"}

GuardedPinned ==
    \A c \in guarded :
        /\ c \in Command
        /\ cli[c].name \in RunId
        /\ hot[cli[c].name].pin
        /\ cli[c].stage \in Unchecked

GuardInv == Shapes /\ PinsInPlace /\ Planned /\ GuardedPinned

\* The blank records have the fields the pins are about.
LEMMA BlankShapes ==
  /\ CopyShape(Nothing) /\ ~ Nothing.pin /\ ~ Nothing.there
  /\ CopyShape(EmptyDir) /\ ~ EmptyDir.pin
  /\ DOMAIN Idle = {"stage", "name", "plan", "read"}
  /\ Idle.plan = {} /\ Idle.read = Nothing /\ Idle.stage = "idle"
  BY DEF CopyShape, Nothing, EmptyDir, Idle

\* The driver's writes leave every pin and every directory where it is.
LEMMA WriteKeepsPins ==
  ASSUME GuardInv, NEW g \in Run, NEW event, Write(g, event),
         UNCHANGED <<payload, cli, guarded>>
  PROVE  GuardInv'
<1>1. Shapes'
  BY DEF Write, GuardInv, Shapes, CopyShape
<1>2. \A n \in RunId : hot'[n].pin = hot[n].pin /\ hot'[n].there = hot[n].there
  BY DEF Write, GuardInv, Shapes, CopyShape
<1>3. PinsInPlace' /\ Planned' /\ GuardedPinned'
  BY <1>2 DEF GuardInv, PinsInPlace, Planned, GuardedPinned
<1> QED BY <1>1, <1>3 DEF GuardInv

\* Every step keeps the invariant of the pins,
THEOREM GuardInductive == GuardInv /\ [Next]_vars => GuardInv'
<1> SUFFICES ASSUME GuardInv, [Next]_vars
            PROVE  GuardInv'
  OBVIOUS
<1>1. ASSUME NEW g \in Run, Create(g)
      PROVE  GuardInv'
  <2>1. Shapes'
    BY <1>1, BlankShapes DEF Create, GuardInv, Shapes, CopyShape, PinsInPlace, Planned,
       GuardedPinned, Unchecked, archive
  <2>2. PinsInPlace'
    BY <1>1, BlankShapes DEF Create, GuardInv, Shapes, CopyShape, PinsInPlace, Planned,
       GuardedPinned, Unchecked, archive
  <2>3. Planned'
    BY <1>1, BlankShapes DEF Create, GuardInv, Shapes, CopyShape, PinsInPlace, Planned,
       GuardedPinned, Unchecked, archive
  <2>4. GuardedPinned'
    BY <1>1, BlankShapes DEF Create, GuardInv, Shapes, CopyShape, PinsInPlace, Planned,
       GuardedPinned, Unchecked, archive
  <2> QED BY <2>1, <2>2, <2>3, <2>4 DEF GuardInv
<1>2. ASSUME NEW g \in Run, Drive(g)
      PROVE  GuardInv'
  BY <1>2, BlankShapes DEF Drive, Write, GuardInv, Shapes, CopyShape, PinsInPlace, Planned,
     GuardedPinned, Unchecked, archive
<1>3. ASSUME NEW g \in Run, Stop(g)
      PROVE  GuardInv'
  BY <1>3, BlankShapes DEF Stop, GuardInv, Shapes, CopyShape, PinsInPlace, Planned,
     GuardedPinned, Unchecked, archive
<1>4. ASSUME NEW g \in Run, Reopen(g)
      PROVE  GuardInv'
  <2>1. PICK event : Write(g, event)
    BY <1>4 DEF Reopen
  <2> QED BY <1>4, <2>1, WriteKeepsPins DEF Reopen, archive
<1>5. ASSUME NEW n \in RunId, PinRun(n)
      PROVE  GuardInv'
  BY <1>5, BlankShapes DEF PinRun, GuardInv, Shapes, CopyShape, PinsInPlace, Planned,
     GuardedPinned, Unchecked, archive, runs
<1>6. ASSUME NEW n \in RunId, UnpinRun(n)
      PROVE  GuardInv'
  BY <1>6, BlankShapes DEF UnpinRun, GuardInv, Shapes, CopyShape, PinsInPlace, Planned,
     GuardedPinned, Unchecked, archive, runs, Busy
<1>7. ASSUME NEW c \in Command, PlanGc(c)
      PROVE  GuardInv'
  BY <1>7, BlankShapes DEF PlanGc, Plans, GuardInv, Shapes, CopyShape, PinsInPlace, Planned,
     GuardedPinned, Unchecked, archive, runs
<1>8. ASSUME NEW c \in Command, NextAction(c)
      PROVE  GuardInv'
  BY <1>8, BlankShapes DEF NextAction, GuardInv, Shapes, CopyShape, PinsInPlace, Planned,
     GuardedPinned, Unchecked, archive, runs
<1>9. ASSUME NEW c \in Command, CheckArchive(c)
      PROVE  GuardInv'
  <2>1. Shapes'
    BY <1>9, BlankShapes DEF CheckArchive, GuardInv, Shapes, CopyShape, PinsInPlace,
       Planned, GuardedPinned, Unchecked, GoTo, GiveUp, archive, runs
  <2>2. PinsInPlace'
    BY <1>9, BlankShapes DEF CheckArchive, GuardInv, Shapes, CopyShape, PinsInPlace,
       Planned, GuardedPinned, Unchecked, GoTo, GiveUp, archive, runs
  <2>3. Planned'
    BY <1>9, BlankShapes DEF CheckArchive, GuardInv, Shapes, CopyShape, PinsInPlace,
       Planned, GuardedPinned, Unchecked, GoTo, GiveUp, archive, runs
  <2>4. GuardedPinned'
    BY <1>9, BlankShapes DEF CheckArchive, GuardInv, Shapes, CopyShape, PinsInPlace,
       Planned, GuardedPinned, Unchecked, GoTo, GiveUp, archive, runs
  <2> QED BY <2>1, <2>2, <2>3, <2>4 DEF GuardInv
<1>10. ASSUME NEW c \in Command, ReadDirectory(c)
      PROVE  GuardInv'
  <2>1. Shapes'
    BY <1>10, BlankShapes DEF ReadDirectory, GuardInv, Shapes, CopyShape, PinsInPlace,
       Planned, GuardedPinned, Unchecked, GiveUp, archive, runs
  <2>2. PinsInPlace'
    BY <1>10, BlankShapes DEF ReadDirectory, GuardInv, Shapes, CopyShape, PinsInPlace,
       Planned, GuardedPinned, Unchecked, GiveUp, archive, runs
  <2>3. Planned'
    BY <1>10, BlankShapes DEF ReadDirectory, GuardInv, Shapes, CopyShape, PinsInPlace,
       Planned, GuardedPinned, Unchecked, GiveUp, archive, runs
  <2>4. GuardedPinned'
    BY <1>10, BlankShapes DEF ReadDirectory, GuardInv, Shapes, CopyShape, PinsInPlace,
       Planned, GuardedPinned, Unchecked, GiveUp, archive, runs
  <2> QED BY <2>1, <2>2, <2>3, <2>4 DEF GuardInv
<1>11. ASSUME NEW c \in Command, OpenPayload(c)
      PROVE  GuardInv'
  BY <1>11, BlankShapes DEF OpenPayload, GuardInv, Shapes, CopyShape, PinsInPlace, Planned,
     GuardedPinned, Unchecked, GoTo, runs
<1>12. ASSUME NEW c \in Command, WritePayload(c)
      PROVE  GuardInv'
  <2>1. Shapes'
    BY <1>12, BlankShapes DEF WritePayload, GuardInv, Shapes, CopyShape, PinsInPlace,
       Planned, GuardedPinned, Unchecked, runs
  <2>2. PinsInPlace'
    BY <1>12, BlankShapes DEF WritePayload, GuardInv, Shapes, CopyShape, PinsInPlace,
       Planned, GuardedPinned, Unchecked, runs
  <2>3. Planned'
    BY <1>12, BlankShapes DEF WritePayload, GuardInv, Shapes, CopyShape, PinsInPlace,
       Planned, GuardedPinned, Unchecked, runs
  <2>4. GuardedPinned'
    BY <1>12, BlankShapes DEF WritePayload, GuardInv, Shapes, CopyShape, PinsInPlace,
       Planned, GuardedPinned, Unchecked, runs
  <2> QED BY <2>1, <2>2, <2>3, <2>4 DEF GuardInv
<1>13. ASSUME NEW c \in Command, OpenManifest(c)
      PROVE  GuardInv'
  BY <1>13, BlankShapes DEF OpenManifest, GuardInv, Shapes, CopyShape, PinsInPlace, Planned,
     GuardedPinned, Unchecked, GoTo, runs
<1>14. ASSUME NEW c \in Command, WriteManifest(c)
      PROVE  GuardInv'
  BY <1>14, BlankShapes DEF WriteManifest, GuardInv, Shapes, CopyShape, PinsInPlace,
     Planned, GuardedPinned, Unchecked, GoTo, runs
<1>15. ASSUME NEW c \in Command, RemoveFile(c)
      PROVE  GuardInv'
  <2> DEFINE n == cli[c].name
  <2>1. PICK file \in {"events", "work", "pin"}, empty \in {<<>>, None, FALSE} :
             /\ hot' = [hot EXCEPT ![n][file] = empty]
             /\ file = "pin" => empty = FALSE
    BY <1>15 DEF RemoveFile
  <2>2. /\ UNCHANGED <<payload, cli>>
        /\ guarded' = {d \in guarded : Busy(d, n) => hot'[n].pin}
    BY <1>15 DEF RemoveFile, archive
  <2> HIDE DEF n
  <2>3. /\ DOMAIN hot' = RunId
        /\ \A m \in RunId : DOMAIN hot'[m] = DOMAIN hot[m]
        /\ \A m \in RunId : hot'[m].there = hot[m].there
        /\ \A m \in RunId : hot'[m].pin \in {hot[m].pin, FALSE}
        /\ \A m \in RunId : m # n => hot'[m] = hot[m]
    BY <2>1 DEF GuardInv, Shapes, CopyShape
  <2>4. Shapes'
    BY <2>2, <2>3 DEF GuardInv, Shapes, CopyShape
  <2>5. PinsInPlace' /\ Planned'
    BY <2>2, <2>3 DEF GuardInv, Shapes, CopyShape, PinsInPlace, Planned
  <2>6. GuardedPinned'
    BY <2>2, <2>3 DEF GuardInv, GuardedPinned, Busy
  <2> QED BY <2>4, <2>5, <2>6 DEF GuardInv
<1>16. ASSUME NEW c \in Command, RemoveDirectory(c)
      PROVE  GuardInv'
  <2>1. Shapes'
    BY <1>16, BlankShapes DEF RemoveDirectory, GuardInv, Shapes, CopyShape, PinsInPlace,
       Planned, GuardedPinned, Unchecked, LeaveRun, archive, runs, HasFiles
  <2>2. PinsInPlace'
    BY <1>16, BlankShapes DEF RemoveDirectory, GuardInv, Shapes, CopyShape, PinsInPlace,
       Planned, GuardedPinned, Unchecked, LeaveRun, archive, runs, HasFiles
  <2>3. Planned'
    BY <1>16, BlankShapes DEF RemoveDirectory, GuardInv, Shapes, CopyShape, PinsInPlace,
       Planned, GuardedPinned, Unchecked, LeaveRun, archive, runs, HasFiles
  <2>4. GuardedPinned'
    BY <1>16, BlankShapes DEF RemoveDirectory, GuardInv, Shapes, CopyShape, PinsInPlace,
       Planned, GuardedPinned, Unchecked, LeaveRun, archive, runs, HasFiles
  <2> QED BY <2>1, <2>2, <2>3, <2>4 DEF GuardInv
<1>17. ASSUME NEW c \in Command, NEW n \in RunId, AskDelete(c, n)
      PROVE  GuardInv'
  BY <1>17, BlankShapes DEF AskDelete, Turn, GuardInv, Shapes, CopyShape, PinsInPlace,
     Planned, GuardedPinned, Unchecked, archive, runs
<1>18. ASSUME NEW c \in Command, CheckDelete(c)
      PROVE  GuardInv'
  <2>1. Shapes'
    BY <1>18, BlankShapes DEF CheckDelete, GuardInv, Shapes, CopyShape, PinsInPlace,
       Planned, GuardedPinned, Unchecked, GoTo, GiveUp, archive, runs
  <2>2. PinsInPlace'
    BY <1>18, BlankShapes DEF CheckDelete, GuardInv, Shapes, CopyShape, PinsInPlace,
       Planned, GuardedPinned, Unchecked, GoTo, GiveUp, archive, runs
  <2>3. Planned'
    BY <1>18, BlankShapes DEF CheckDelete, GuardInv, Shapes, CopyShape, PinsInPlace,
       Planned, GuardedPinned, Unchecked, GoTo, GiveUp, archive, runs
  <2>4. GuardedPinned'
    BY <1>18, BlankShapes DEF CheckDelete, GuardInv, Shapes, CopyShape, PinsInPlace,
       Planned, GuardedPinned, Unchecked, GoTo, GiveUp, archive, runs
  <2> QED BY <2>1, <2>2, <2>3, <2>4 DEF GuardInv
<1>19. ASSUME NEW c \in Command, UnlinkPayload(c)
      PROVE  GuardInv'
  <2>1. Shapes'
    BY <1>19, BlankShapes DEF UnlinkPayload, GuardInv, Shapes, CopyShape, PinsInPlace,
       Planned, GuardedPinned, Unchecked, GoTo, runs
  <2>2. PinsInPlace'
    BY <1>19, BlankShapes DEF UnlinkPayload, GuardInv, Shapes, CopyShape, PinsInPlace,
       Planned, GuardedPinned, Unchecked, GoTo, runs
  <2>3. Planned'
    BY <1>19, BlankShapes DEF UnlinkPayload, GuardInv, Shapes, CopyShape, PinsInPlace,
       Planned, GuardedPinned, Unchecked, GoTo, runs
  <2>4. GuardedPinned'
    BY <1>19, BlankShapes DEF UnlinkPayload, GuardInv, Shapes, CopyShape, PinsInPlace,
       Planned, GuardedPinned, Unchecked, GoTo, runs
  <2> QED BY <2>1, <2>2, <2>3, <2>4 DEF GuardInv
<1>20. ASSUME NEW c \in Command, UnlinkManifest(c)
      PROVE  GuardInv'
  BY <1>20, BlankShapes DEF UnlinkManifest, GuardInv, Shapes, CopyShape, PinsInPlace,
     Planned, GuardedPinned, Unchecked, LeaveRun, runs
<1>21. ASSUME NEW c \in Command, NEW n \in RunId, Restore(c, n)
      PROVE  GuardInv'
  BY <1>21, BlankShapes DEF Restore, GuardInv, Shapes, CopyShape, PinsInPlace, Planned,
     GuardedPinned, Unchecked, archive, runs
<1>22. ASSUME NEW c \in Command, MakeDirectory(c)
      PROVE  GuardInv'
  BY <1>22, BlankShapes DEF MakeDirectory, GuardInv, Shapes, CopyShape, PinsInPlace,
     Planned, GuardedPinned, Unchecked, GoTo, archive, runs
<1>23. ASSUME NEW c \in Command, RestoreFile(c)
      PROVE  GuardInv'
  <2> DEFINE n == cli[c].name
  <2>1. PICK file \in {"events", "work", "pin"}, empty \in {<<>>, None, FALSE} :
             /\ cli[c].read[file] # empty
             /\ file = "pin" => empty = FALSE
             /\ hot' = [hot EXCEPT ![n].there = TRUE, ![n][file] = cli[c].read[file]]
             /\ LET left == [cli[c].read EXCEPT ![file] = empty]
                IN  cli' = [cli EXCEPT ![c].read = IF HasFiles(left) THEN left ELSE Nothing,
                                       ![c].stage = IF HasFiles(left) THEN @ ELSE "restored"]
    BY <1>23 DEF RestoreFile
  <2>2. UNCHANGED <<payload, guarded>> /\ cli[c].stage = "restore"
    BY <1>23 DEF RestoreFile, archive
  <2>3. c \notin guarded
    BY <2>2 DEF GuardInv, GuardedPinned, Unchecked
  <2> DEFINE left == [cli[c].read EXCEPT ![file] = empty]
  <2>4. CopyShape(left)
    BY <2>1 DEF GuardInv, Shapes, CopyShape
  <2> HIDE DEF n, left
  <2>5. /\ DOMAIN cli' = Command
        /\ \A d \in Command : DOMAIN cli'[d] = DOMAIN cli[d] /\ cli'[d].plan = cli[d].plan
        /\ \A d \in Command : d # c => cli'[d] = cli[d]
        /\ cli'[c].read \in {left, Nothing}
    <3>1. cli' = [cli EXCEPT ![c].read = IF HasFiles(left) THEN left ELSE Nothing,
                             ![c].stage = IF HasFiles(left) THEN @ ELSE "restored"]
      BY <2>1 DEF left
    <3> QED BY <3>1 DEF GuardInv, Shapes
  <2>6. /\ DOMAIN hot' = RunId
        /\ \A m \in RunId : DOMAIN hot'[m] = DOMAIN hot[m]
        /\ \A m \in RunId : m # n => hot'[m] = hot[m]
        /\ n \in RunId => hot'[n].there
        /\ n \in RunId => hot'[n].pin \in BOOLEAN /\ (hot[n].pin => hot'[n].pin)
    BY <2>1 DEF GuardInv, Shapes, CopyShape
  <2>7. Shapes'
    BY <2>2, <2>4, <2>5, <2>6, BlankShapes DEF GuardInv, Shapes, CopyShape
  <2>8. PinsInPlace' /\ Planned'
    BY <2>5, <2>6 DEF GuardInv, PinsInPlace, Planned
  <2>9. GuardedPinned'
    BY <2>2, <2>3, <2>5, <2>6 DEF GuardInv, GuardedPinned
  <2> QED BY <2>7, <2>8, <2>9 DEF GuardInv
<1>24. ASSUME NEW c \in Command, Die(c)
      PROVE  GuardInv'
  BY <1>24, BlankShapes DEF Die, GuardInv, Shapes, CopyShape, PinsInPlace, Planned,
     GuardedPinned, Unchecked, GiveUp, archive, runs
<1>25. CASE UNCHANGED vars
  BY <1>25, BlankShapes DEF vars, GuardInv, Shapes, CopyShape, PinsInPlace, Planned,
     GuardedPinned, Unchecked
<1> QED
  BY <1>1, <1>2, <1>3, <1>4, <1>5, <1>6, <1>7, <1>8, <1>9, <1>10, <1>11, <1>12, <1>13,
     <1>14, <1>15, <1>16, <1>17, <1>18, <1>19, <1>20, <1>21, <1>22, <1>23, <1>24, <1>25 DEF
     Next, Gc, ArchiveRun, DeleteRun, RestoreArchivedRun

\* which holds at first.
THEOREM GuardInitial == Init => GuardInv
  BY BlankShapes DEF Init, GuardInv, Shapes, CopyShape, PinsInPlace, Planned, GuardedPinned

\* Whatever storage commands, drivers and users do at once, no command comes to
\* remove a directory whose pin was there when it turned to it and still is.
THEOREM PinsHold == Spec => []PinProtects
<1>1. GuardInv => PinProtects
  BY DEF GuardInv, GuardedPinned, Unchecked, PinProtects
<1> QED
  BY <1>1, GuardInitial, GuardInductive, PTL DEF Spec
=============================================================================
