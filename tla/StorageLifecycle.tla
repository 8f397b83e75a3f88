-------------------------- MODULE StorageLifecycle --------------------------
(***************************************************************************)
(* The runs root: a directory per run, .archive beside them, and the       *)
(* processes that work there at once: the drivers of the runs and          *)
(* `trailstep storage` commands (core runtime/storage-lifecycle/           *)
(* storage-lifecycle.ts, cli commands/storage/storage-command.ts).         *)
(*                                                                         *)
(* Run ids are the suffixes createRunDirectory tries in turn.  A run       *)
(* directory holds events.jsonl, a second file that stands for the others, *)
(* and perhaps a pin.  Writing one of its files or reading the whole of it *)
(* is one step; it is removed and restored file by file, and the two files *)
(* of an archive are seen half written.  Ages and policies only decide     *)
(* which eligible runs gc plans for: a free choice.                        *)
(***************************************************************************)
EXTENDS RunSummaries, FiniteSets

LOCAL INSTANCE Functions

CONSTANTS
    Runs,       \* how many runs are ever created
    Suffixes,   \* bound: run ids createRunDirectory tries
    Step,       \* steps of the workflow
    NoStep,     \* the step of an event of the workflow itself
    Command,    \* processes that execute storage commands
    MaxEvents,  \* bound: events of all runs together
    MaxCuts     \* bound: commands killed while they leave something half done

ASSUME StorageLifecycleAssumption ==
    /\ Runs \in Nat
    /\ Suffixes \in Nat
    /\ NoStep \notin Step
    /\ MaxEvents \in Nat
    /\ MaxCuts \in Nat

Run == 1 .. Runs            \* in the order of their creation
RunId == 1 .. Suffixes      \* names of run directories

VARIABLES
    hot,        \* run directories
    payload,    \* .archive/<runId>.json.gz: a copy of a run directory
    manifest,   \* .archive/<runId>.manifest.json
    at,         \* the run id each run was given
    driven,     \* runs a process drives
    log,        \* the events each run has written
    cli,        \* what each command does
    guarded,    \* commands at work on a run that was pinned when they turned to it and still is
    forgone,    \* runs someone asked to delete, or whose archive a namesake took
    contended,  \* run ids on which two processes met
    cut         \* stages in which a command died, by run id

vars == <<hot, payload, manifest, at, driven, log, cli,
          guarded, forgone, contended, cut>>

runs == <<at, driven, log>>
archive == <<payload, manifest>>

None == 0       \* no run, no run id

(***************************************************************************)
(* Copies of a run.  A file that is not there is empty: nothing writes an  *)
(* empty events.jsonl.  A payload that is missing or half written is       *)
(* Nothing: no code looks whether the file exists before it reads it.      *)
(***************************************************************************)
Event(run, type, step, source) ==
    [run |-> run, type |-> type, step |-> step, source |-> source]

Nothing == [there |-> FALSE, events |-> <<>>, work |-> None, pin |-> FALSE]
EmptyDir == [Nothing EXCEPT !.there = TRUE]

HasFiles(copy) == copy.events # <<>> \/ copy.work # None \/ copy.pin

Owners(copy) ==
    {copy.events[i].run : i \in DOMAIN copy.events} \cup ({copy.work} \ {None})

IsWhole(copy, g) == copy.there /\ copy.events = log[g] /\ copy.work = g

Idle == [stage |-> "idle", name |-> None, plan |-> {}, read |-> Nothing]

Init ==
    /\ hot = [n \in RunId |-> Nothing]
    /\ payload = [n \in RunId |-> Nothing]
    /\ manifest = [n \in RunId |-> "none"]
    /\ at = [g \in Run |-> None]
    /\ driven = {}
    /\ log = [g \in Run |-> <<>>]
    /\ cli = [c \in Command |-> Idle]
    /\ guarded = {}
    /\ forgone = {}
    /\ contended = {}
    /\ cut = [n \in RunId |-> {}]

(***************************************************************************)
(* A command that turned to a run id, a driver at work in its directory.   *)
(* Meet records the ids on which two of them are found after a step.       *)
(***************************************************************************)
Busy(c, n) == cli[c].name = n

Parties(n) ==
    {<<"command", c>> : c \in {c \in Command : Busy(c, n)}}
        \cup {<<"driver", g>> : g \in {g \in driven : at[g] = n}}

Crowded(n) == \E a, b \in Parties(n) : a # b

Meet == contended' = contended \cup {n \in RunId : Crowded(n)'}

(***************************************************************************)
(* The runs.  What a driver appends next follows from what it appended     *)
(* last; a failed step may go on to the step its author routes errors to.  *)
(* workflow.resumed names the step it goes on with, and as its source the  *)
(* failure of that step, 0 when it answers a wait.  The second file is     *)
(* saved along with each event.                                            *)
(***************************************************************************)
Reattempts(event) == event.type = "workflow.resumed" /\ event.source # 0
Answers(event) == event.type = "workflow.resumed" /\ event.source = 0

NewEvents(g) ==
    LET done == log[g]
        last == done[Len(done)]
        OfRun(types) == {Event(g, t, NoStep, 0) : t \in types}
        Of(types, step) == {Event(g, t, step, 0) : t \in types}
        Onward == OfRun(RunEnd) \cup UNION {Of({"step.started"}, s) : s \in Step}
    IN  IF done = <<>> THEN OfRun({"workflow.started"})
        ELSE CASE last.type \in {"workflow.started", "step.completed", "step.failed"} -> Onward
               [] last.type = "workflow.retryStarted" \/ Reattempts(last) ->
                    Of({"step.started"}, last.step)
               [] last.type = "step.started" \/ Answers(last) ->
                    Of(StepEnd \cup {"wait.started"}, last.step)
               [] last.type = "step.cancelled" -> OfRun({"workflow.cancelled"})
               [] OTHER -> {}

EventCount == FoldFunction(LAMBDA events, sum : Len(events) + sum, 0, log)

Write(g, event) ==
    /\ hot' = [hot EXCEPT ![at[g]].events = Append(@, event), ![at[g]].work = g]
    /\ log' = [log EXCEPT ![g] = Append(@, event)]

\* createRunDirectory: mkdir decides which id is free.
Create(g) ==
    /\ at[g] = None
    /\ \A h \in Run : h < g => at[h] # None
    /\ \E n \in RunId :
        /\ ~ hot[n].there
        /\ \A m \in RunId : m < n => hot[m].there
        /\ hot' = [hot EXCEPT ![n] = EmptyDir]
        /\ at' = [at EXCEPT ![g] = n]
    /\ driven' = driven \cup {g}
    /\ UNCHANGED <<archive, log, cli, guarded, forgone, cut>>
    /\ Meet

\* The driver appends; after the event that ends or parks the run it is gone.
Drive(g) ==
    /\ g \in driven
    /\ hot[at[g]].there
    /\ EventCount < MaxEvents
    /\ \E event \in NewEvents(g) :
        /\ Write(g, event)
        /\ driven' = IF event.type \in RunEnd \cup {"wait.started"}
                     THEN driven \ {g} ELSE driven
    /\ UNCHANGED <<archive, at, cli, guarded, forgone, cut>>
    /\ Meet

\* The process dies, or its append finds the directory gone.
Stop(g) ==
    /\ g \in driven
    /\ driven' = driven \ {g}
    /\ UNCHANGED <<hot, archive, at, log, cli, guarded, forgone, contended, cut>>

(***************************************************************************)
(* What can be reopened: a parked run (replayToWaitingStep), a run that    *)
(* failed in exactly one step (replayToFailedStep), one cancelled in a     *)
(* step (replayToCancelledStep), any other whose latest unresolved failure *)
(* is that of a step (replayToRetryFailure).                               *)
(***************************************************************************)
Reopenings(g) ==
    LET events == log[g]
        last == events[Len(events)]
        failed == Positions(events, {"step.failed"})
        failure == LatestUnresolvedFailure(events)
        cancelled == Len(events) - 1
    IN  {event \in {Event(g, "workflow.resumed", last.step, 0)} :
            last.type = "wait.started" \/ Answers(last)}
        \cup {Event(g, "workflow.resumed", events[f].step, f) :
                f \in {f \in failed :
                        /\ last.type = "workflow.failed"
                        /\ failed = {f}
                        /\ \A i \in Positions(events, {"step.completed"}) :
                                i > f => events[i].step # events[f].step}}
        \cup {Event(g, "workflow.retryStarted", events[i].step, 0) :
                i \in {i \in {cancelled} :
                        /\ last.type = "workflow.cancelled"
                        /\ events[i].type = "step.cancelled"}}
        \cup {Event(g, "workflow.retryStarted", events[i].step, i) :
                i \in {i \in {failure} \ {0} :
                        /\ last.type # "workflow.cancelled"
                        /\ events[i].step # NoStep}}

Reopen(g) ==
    /\ at[g] # None
    /\ ~ \E h \in driven : at[h] = at[g]
    /\ hot[at[g]].there
    /\ hot[at[g]].events = log[g]
    /\ log[g] # <<>>
    /\ EventCount < MaxEvents
    /\ \E event \in Reopenings(g) : Write(g, event)
    /\ driven' = driven \cup {g}
    /\ UNCHANGED <<archive, at, cli, guarded, forgone, cut>>
    /\ Meet

(***************************************************************************)
(* Commands: how one turns to a run and leaves it.                         *)
(***************************************************************************)
GoTo(c, stage) == cli' = [cli EXCEPT ![c].stage = stage]

\* Mutant: the command stays guarded by a run it has left.
LeaveRunGuarded(c) ==
    /\ cli' = [cli EXCEPT ![c] =
                 IF @.plan = {} THEN Idle
                 ELSE [Idle EXCEPT !.stage = "next", !.plan = cli[c].plan]]
    /\ UNCHANGED guarded

\* gc goes on to its next action, any other command is over.
LeaveRun(c) ==
    /\ cli' = [cli EXCEPT ![c] =
                 IF @.plan = {} THEN Idle
                 ELSE [Idle EXCEPT !.stage = "next", !.plan = cli[c].plan]]
    /\ guarded' = guarded \ {c}

\* An error is thrown: whatever else was planned is not done.
GiveUp(c) ==
    /\ cli' = [cli EXCEPT ![c] = Idle]
    /\ guarded' = guarded \ {c}

(***************************************************************************)
(* pin and unpin: a look whether the directory exists, then one file.      *)
(***************************************************************************)
PinRun(n) ==
    /\ hot[n].there
    /\ hot' = [hot EXCEPT ![n].pin = TRUE]
    /\ UNCHANGED <<archive, runs, cli, guarded, forgone, contended, cut>>

UnpinRun(n) ==
    /\ hot[n].pin
    /\ hot' = [hot EXCEPT ![n].pin = FALSE]
    /\ guarded' = {c \in guarded : ~ Busy(c, n)}
    /\ UNCHANGED <<archive, runs, cli, forgone, contended, cut>>

(***************************************************************************)
(* gc.  The plan is made from one look at everything; a manifest that      *)
(* cannot be parsed makes it fail.  Runs come first, then archives.        *)
(***************************************************************************)
IsLifecycleEligible(n) ==
    /\ hot[n].there
    /\ Status(hot[n].events) \in {"completed", "failed", "cancelled"}

Plans ==
    LET eligible == {n \in RunId : IsLifecycleEligible(n) /\ ~ hot[n].pin}
        archived == {n \in RunId : manifest[n] = "whole"}
    IN  {plan \in SUBSET (({"archive", "delete"} \X eligible)
                            \cup ({"delete-archive"} \X archived)) :
            \A n \in RunId : ~ {<<"archive", n>>, <<"delete", n>>} \subseteq plan}

PlanGc(c) ==
    /\ cli[c].stage = "idle"
    /\ \A n \in RunId : manifest[n] # "torn"
    /\ \E plan \in Plans \ {{}} :
        cli' = [cli EXCEPT ![c].stage = "next", ![c].plan = plan]
    /\ UNCHANGED <<hot, archive, runs, guarded, forgone, contended, cut>>

NextAction(c) ==
    /\ cli[c].stage = "next"
    /\ \E action \in cli[c].plan :
        /\ action[1] = "delete-archive" =>
                \A other \in cli[c].plan : other[1] = "delete-archive"
        /\ cli' = [cli EXCEPT ![c].stage = action[1], ![c].name = action[2],
                              ![c].plan = @ \ {action}]
        /\ guarded' = IF hot[action[2]].pin THEN guarded \cup {c} ELSE guarded
    /\ UNCHANGED <<hot, archive, runs, forgone, cut>>
    /\ Meet

(***************************************************************************)
(* archiveRun: look, read the directory, write the payload and then the    *)
(* manifest, remove the directory.                                         *)
(***************************************************************************)
\* Mutant: the pin is only looked at when gc plans.
CheckArchiveUnpinned(c) ==
    /\ cli[c].stage = "archive"
    /\ IF IsLifecycleEligible(cli[c].name)
       THEN GoTo(c, "read") /\ UNCHANGED guarded
       ELSE GiveUp(c)
    /\ UNCHANGED <<hot, archive, runs, forgone, contended, cut>>

CheckArchive(c) ==
    LET n == cli[c].name
    IN  /\ cli[c].stage = "archive"
        /\ IF IsLifecycleEligible(n) /\ ~ hot[n].pin
           THEN GoTo(c, "read") /\ UNCHANGED guarded
           ELSE GiveUp(c)
        /\ UNCHANGED <<hot, archive, runs, forgone, contended, cut>>

\* Mutant: files in subdirectories are not read.
ReadDirectoryFlat(c) ==
    LET n == cli[c].name
    IN  /\ cli[c].stage = "read"
        /\ IF hot[n].there
           THEN /\ cli' = [cli EXCEPT ![c].stage = "payload",
                                      ![c].read = [hot[n] EXCEPT !.work = None]]
                /\ UNCHANGED guarded
           ELSE GiveUp(c)
        /\ UNCHANGED <<hot, archive, runs, forgone, contended, cut>>

ReadDirectory(c) ==
    LET n == cli[c].name
    IN  /\ cli[c].stage = "read"
        /\ IF hot[n].there
           THEN /\ cli' = [cli EXCEPT ![c].stage = "payload", ![c].read = hot[n]]
                /\ UNCHANGED guarded
           ELSE GiveUp(c)
        /\ UNCHANGED <<hot, archive, runs, forgone, contended, cut>>

\* writeFile truncates, then writes.
OpenPayload(c) ==
    LET n == cli[c].name
    IN  /\ cli[c].stage = "payload"
        /\ payload' = [payload EXCEPT ![n] = Nothing]
        /\ forgone' = forgone \cup (Owners(payload[n]) \ Owners(cli[c].read))
        /\ GoTo(c, "pack")
        /\ UNCHANGED <<hot, manifest, runs, guarded, contended, cut>>

WritePayload(c) ==
    /\ cli[c].stage = "pack"
    /\ payload' = [payload EXCEPT ![cli[c].name] = cli[c].read]
    /\ cli' = [cli EXCEPT ![c].stage = "manifest", ![c].read = Nothing]
    /\ UNCHANGED <<hot, manifest, runs, guarded, forgone, contended, cut>>

OpenManifest(c) ==
    /\ cli[c].stage = "manifest"
    /\ manifest' = [manifest EXCEPT ![cli[c].name] = "torn"]
    /\ GoTo(c, "list")
    /\ UNCHANGED <<hot, payload, runs, guarded, forgone, contended, cut>>

WriteManifest(c) ==
    /\ cli[c].stage = "list"
    /\ manifest' = [manifest EXCEPT ![cli[c].name] = "whole"]
    /\ GoTo(c, "remove")
    /\ UNCHANGED <<hot, payload, runs, guarded, forgone, contended, cut>>

\* rm -r: the files in any order, the directory last.
RemoveFile(c) ==
    LET n == cli[c].name
    IN  /\ cli[c].stage = "remove"
        /\ \/ hot[n].events # <<>> /\ hot' = [hot EXCEPT ![n].events = <<>>]
           \/ hot[n].work # None /\ hot' = [hot EXCEPT ![n].work = None]
           \/ hot[n].pin /\ hot' = [hot EXCEPT ![n].pin = FALSE]
        /\ guarded' = {d \in guarded : Busy(d, n) => hot'[n].pin}
        /\ UNCHANGED <<archive, runs, cli, forgone, contended, cut>>

RemoveDirectory(c) ==
    LET n == cli[c].name
    IN  /\ cli[c].stage = "remove"
        /\ ~ HasFiles(hot[n])
        /\ hot' = [hot EXCEPT ![n] = Nothing]
        /\ LeaveRun(c)
        /\ UNCHANGED <<archive, runs, forgone, contended, cut>>

(***************************************************************************)
(* deleteRun, by the user or by gc, and deleteArchivedRun.                 *)
(***************************************************************************)
Turn(c, n, stage) ==
    /\ cli[c].stage = "idle"
    /\ cli' = [cli EXCEPT ![c].stage = stage, ![c].name = n]
    /\ guarded' = IF hot[n].pin THEN guarded \cup {c} ELSE guarded

AskDelete(c, n) ==
    /\ Turn(c, n, "delete")
    /\ UNCHANGED <<hot, archive, runs, forgone, cut>>
    /\ Meet

CheckDelete(c) ==
    LET n == cli[c].name
    IN  /\ cli[c].stage = "delete"
        /\ \/ /\ hot[n].there
              /\ ~ hot[n].pin
              /\ GoTo(c, "remove")
              /\ forgone' = forgone \cup Owners(hot[n])
              /\ UNCHANGED guarded
           \/ /\ ~ hot[n].there
              /\ manifest[n] = "whole"
              /\ GoTo(c, "delete-archive")
              /\ UNCHANGED <<guarded, forgone>>
           \/ /\ IF hot[n].there THEN hot[n].pin ELSE manifest[n] # "whole"
              /\ GiveUp(c)
              /\ UNCHANGED forgone
        /\ UNCHANGED <<hot, archive, runs, contended, cut>>

\* Mutant: the manifest of a deleted archive is left.
UnlinkPayloadOnly(c) ==
    LET n == cli[c].name
    IN  /\ cli[c].stage \in {"delete-archive", "restored"}
        /\ payload' = [payload EXCEPT ![n] = Nothing]
        /\ forgone' = IF cli[c].stage = "delete-archive"
                      THEN forgone \cup Owners(payload[n]) ELSE forgone
        /\ LeaveRun(c)
        /\ UNCHANGED <<hot, manifest, runs, contended, cut>>

\* The last step but one of a deletion, and of a restore.
UnlinkPayload(c) ==
    LET n == cli[c].name
    IN  /\ cli[c].stage \in {"delete-archive", "restored"}
        /\ payload' = [payload EXCEPT ![n] = Nothing]
        /\ forgone' = IF cli[c].stage = "delete-archive"
                      THEN forgone \cup Owners(payload[n]) ELSE forgone
        /\ GoTo(c, "unlist")
        /\ UNCHANGED <<hot, manifest, runs, guarded, contended, cut>>

UnlinkManifest(c) ==
    /\ cli[c].stage = "unlist"
    /\ manifest' = [manifest EXCEPT ![cli[c].name] = "none"]
    /\ LeaveRun(c)
    /\ UNCHANGED <<hot, payload, runs, forgone, contended, cut>>

(***************************************************************************)
(* restoreArchivedRun: refused over a directory and without a payload.     *)
(***************************************************************************)
\* Mutant: a directory of that name is restored into.
RestoreInto(c, n) ==
    /\ cli[c].stage = "idle"
    /\ payload[n].there
    /\ cli' = [cli EXCEPT ![c].stage = "mkdir", ![c].name = n, ![c].read = payload[n]]
    /\ UNCHANGED <<hot, archive, runs, guarded, forgone, cut>>
    /\ Meet

Restore(c, n) ==
    /\ cli[c].stage = "idle"
    /\ ~ hot[n].there
    /\ payload[n].there
    /\ cli' = [cli EXCEPT ![c].stage = "mkdir", ![c].name = n, ![c].read = payload[n]]
    /\ UNCHANGED <<hot, archive, runs, guarded, forgone, cut>>
    /\ Meet

MakeDirectory(c) ==
    /\ cli[c].stage = "mkdir"
    /\ hot' = [hot EXCEPT ![cli[c].name].there = TRUE]
    /\ GoTo(c, "restore")
    /\ UNCHANGED <<archive, runs, guarded, forgone, contended, cut>>

\* What is still to be written stays in read; mkdir of each parent comes first.
RestoreFile(c) ==
    LET n == cli[c].name
        Save(file, empty) ==
            /\ cli[c].read[file] # empty
            /\ hot' = [hot EXCEPT ![n].there = TRUE, ![n][file] = cli[c].read[file]]
            /\ LET left == [cli[c].read EXCEPT ![file] = empty]
               IN  cli' = [cli EXCEPT ![c].read = IF HasFiles(left) THEN left ELSE Nothing,
                                      ![c].stage = IF HasFiles(left) THEN @ ELSE "restored"]
    IN  /\ cli[c].stage = "restore"
        /\ Save("events", <<>>) \/ Save("work", None) \/ Save("pin", FALSE)
        /\ UNCHANGED <<archive, runs, guarded, forgone, contended, cut>>

\* A command is killed.  What it leaves in part is the directory or the archive.
Die(c) ==
    LET n == cli[c].name
        part == CASE cli[c].stage \in {"remove", "restore"} -> {"directory"}
                  [] cli[c].stage \in {"pack", "manifest", "list", "unlist"} -> {"archive"}
                  [] OTHER -> {}
    IN  /\ cli[c].stage # "idle"
        /\ part # {} => \A m \in RunId : Cardinality(cut[m]) < MaxCuts
        /\ cut' = IF n = None THEN cut ELSE [cut EXCEPT ![n] = @ \cup part]
        /\ GiveUp(c)
        /\ UNCHANGED <<hot, archive, runs, forgone, contended>>

Gc(c) == PlanGc(c) \/ NextAction(c)

ArchiveRun(c) ==
    \/ CheckArchive(c) \/ ReadDirectory(c) \/ OpenPayload(c) \/ WritePayload(c)
    \/ OpenManifest(c) \/ WriteManifest(c)

DeleteRun(c) ==
    \/ \E n \in RunId : AskDelete(c, n)
    \/ CheckDelete(c) \/ UnlinkPayload(c) \/ UnlinkManifest(c)

RestoreArchivedRun(c) ==
    \/ \E n \in RunId : Restore(c, n)
    \/ MakeDirectory(c) \/ RestoreFile(c)

Next ==
    \/ \E g \in Run : Create(g) \/ Drive(g) \/ Stop(g) \/ Reopen(g)
    \/ \E n \in RunId : PinRun(n) \/ UnpinRun(n)
    \/ \E c \in Command :
        \/ Gc(c) \/ ArchiveRun(c) \/ RemoveFile(c) \/ RemoveDirectory(c)
        \/ DeleteRun(c) \/ RestoreArchivedRun(c) \/ Die(c)

Spec == Init /\ [][Next]_vars

(***************************************************************************)
(* Properties.                                                             *)
(***************************************************************************)
Stage == {"idle", "next", "archive", "read", "payload", "pack", "manifest", "list",
          "remove", "delete", "delete-archive", "unlist", "mkdir", "restore", "restored"}

TrailEvent == [run : Run, type : EventType, step : Step \cup {NoStep}, source : Nat]

Copy == [there : BOOLEAN, events : Seq(TrailEvent), work : Run \cup {None}, pin : BOOLEAN]

\* What gc plans to do, and with which run.
Action == {"archive", "delete", "delete-archive"} \X RunId

CommandState == [stage : Stage, name : RunId \cup {None}, plan : SUBSET Action, read : Copy]

\* The state has its types, and a command holds a copy only between reading
\* and writing it.
TypeOK ==
    /\ hot \in [RunId -> Copy]
    /\ payload \in [RunId -> Copy]
    /\ manifest \in [RunId -> {"none", "torn", "whole"}]
    /\ at \in [Run -> RunId \cup {None}]
    /\ driven \subseteq {g \in Run : at[g] # None}
    /\ log \in [Run -> Seq(TrailEvent)]
    /\ cli \in [Command -> CommandState]
    /\ \A c \in Command :
        /\ cli[c].name = None <=> cli[c].stage \in {"idle", "next"}
        /\ cli[c].read # Nothing =>
            cli[c].stage \in {"payload", "pack", "mkdir", "restore"}
    /\ guarded \subseteq {c \in Command : cli[c].name # None}
    /\ forgone \subseteq Run
    /\ contended \subseteq RunId
    /\ cut \in [RunId -> SUBSET {"directory", "archive"}]

\* A run nobody asked to delete is whole somewhere, in its directory or in its
\* archive: at every await of archive and restore, after a command killed while
\* it writes the archive, and after gc acts on a plan that other commands have
\* made stale.  Left out are the ids on which two processes met or a command
\* was killed while it removed or restored the directory: there the code may
\* archive what is left over the whole archive.
NothingLost ==
    \A g \in Run :
        log[g] # <<>> /\ g \notin forgone
            /\ at[g] \notin contended /\ "directory" \notin cut[at[g]]
        => IsWhole(hot[at[g]], g) \/ IsWhole(payload[at[g]], g)

\* A directory and an archive hold the files of one run, also after the id was
\* given again to a new run while an older one was archived under it.
NeverMixed ==
    \A n \in RunId \ contended :
        Cardinality(Owners(hot[n])) <= 1 /\ Cardinality(Owners(payload[n])) <= 1

\* No command comes to remove the directory of a run that was pinned when the
\* command, or the action of its plan, turned to it, unless the pin is taken
\* away meanwhile.
PinProtects == \A c \in guarded : cli[c].stage # "remove"

\* When no command is at work on a run id, none was killed there while it
\* wrote the archive and no directory has that name, what the archive lists can
\* be restored and what can be restored is listed.
ArchiveListed ==
    \A n \in RunId \ contended :
        ~ hot[n].there /\ cut[n] = {} /\ (\A c \in Command : ~ Busy(c, n))
        => (payload[n].there <=> manifest[n] = "whole")

\* A run is live while a process drives it and while it is parked on a wait.
IsLive(g) == g \in driven \/ (log[g] # <<>> /\ log[g][Len(log[g])].type = "wait.started")

\* storage-lifecycle.test.ts:64, "archives terminal runs, skips active and
\* pinned runs": no live run passes the checks of archiveRun.
LiveRunKept ==
    [][\A c \in Command, g \in Run :
        cli[c].stage = "archive" /\ cli'[c].stage = "read" /\ at[g] = cli[c].name
            /\ IsWhole(hot[at[g]], g)
        => ~ IsLive(g)]_vars
=============================================================================
