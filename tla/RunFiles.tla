------------------------------ MODULE RunFiles ------------------------------
(***************************************************************************)
(* run-storage.ts: the directory of a run, its trail events.jsonl and the  *)
(* JSON files that are replaced whole.                                     *)
(*                                                                         *)
(* The trail is a sequence of pieces: an append adds the head of a line    *)
(* and its end, with the newline; a crash can leave the head alone.  What  *)
(* a line says is what JSON.parse makes of all the pieces up to the next   *)
(* newline.                                                                *)
(***************************************************************************)
EXTENDS Naturals, Sequences, FiniteSets

CONSTANTS
    Proc,       \* processes: the driver of the run, commands, the MCP server
    MaxEvents,  \* bound on the events appended
    MaxCrashes, \* bound on appends cut short
    MaxRename   \* renameMaxAttempts

VARIABLES
    log,     \* the pieces of events.jsonl
    crashes,
    cursor,    \* how far the incremental reader got
    seen,      \* the size the reader's stat returned, or none
    delivered, \* the events it handed out, in order
    json,      \* the file being replaced, its temporary files, the rename attempts
    dirs,      \* run directories, by suffix
    wants,     \* the suffix each process tries next, 0 when it has its directory
    ignore     \* the content of .trailstep/.gitignore

rfVars == <<log, crashes, cursor, seen, delivered, json, dirs, wants, ignore>>

Events == 1..MaxEvents
Piece == [event : Events, end : BOOLEAN]
NoWrite == [value |-> 0, tries |-> 0]
Unread == 1000

RFInit ==
    /\ log = <<>> /\ crashes = 0
    /\ cursor = 0 /\ seen = Unread /\ delivered = <<>>
    /\ json = [file |-> 0, next |-> 1, queue |-> <<>>, now |-> NoWrite, temp |-> FALSE]
    /\ dirs = {} /\ wants = [p \in Proc |-> 1]
    /\ ignore \in {"missing", "legacy", "current", "edited"}

-----------------------------------------------------------------------------
\* the lines of a stretch of the trail, and the events that parse
EventAt(t, i) == t[i].end /\ i > 1 /\ ~t[i - 1].end /\ t[i - 1].event = t[i].event
                 /\ (i = 2 \/ t[i - 2].end)

\* readRunEvents: what does not parse is reported and skipped
EventsIn(t) ==
    LET Ends == {i \in DOMAIN t : EventAt(t, i)}
        Nth(n) == CHOOSE i \in Ends : Cardinality({j \in Ends : j <= i}) = n
    IN  [n \in 1..Cardinality(Ends) |-> t[Nth(n)].event]

\* where the last complete line of a stretch ends
LastBreak(t) == LET B == {i \in DOMAIN t : t[i].end} IN
                IF B = {} THEN 0 ELSE CHOOSE i \in B : \A j \in B : j <= i

NextEvent == Cardinality({log[i].event : i \in DOMAIN log}) + 1
Directories == {p \in Proc : wants[p] = 0}

\* appendEvent: the whole line, in one write
AppendEvent ==
    /\ Directories # {} /\ NextEvent <= MaxEvents
    /\ log' = log \o <<[event |-> NextEvent, end |-> FALSE], [event |-> NextEvent, end |-> TRUE]>>
    /\ UNCHANGED <<crashes, cursor, seen, delivered, json, dirs, wants, ignore>>

\* the process, or the machine, dies in the middle of it
TornAppend ==
    /\ Directories # {} /\ NextEvent <= MaxEvents /\ crashes < MaxCrashes
    /\ crashes' = crashes + 1
    /\ log' = Append(log, [event |-> NextEvent, end |-> FALSE])
    /\ UNCHANGED <<cursor, seen, delivered, json, dirs, wants, ignore>>

\* readRunEventsSince: stat, then the file, which may have grown meanwhile.
\* A trail no longer than the cursor costs no read; one that is shorter is read
\* from the start; a partial last line is left for the next call.
StatTrail ==
    /\ seen = Unread /\ Directories # {}
    /\ IF Len(log) = cursor THEN UNCHANGED <<cursor, seen>>
       ELSE /\ seen' = Len(log)
            /\ cursor' = IF Len(log) < cursor THEN 0 ELSE cursor
    /\ UNCHANGED <<log, crashes, delivered, json, dirs, wants, ignore>>

\* Mutant: the cursor passes a partial last line.
ReadTrailToEnd ==
    /\ seen # Unread
    /\ LET new == SubSeq(log, cursor + 1, Len(log))
           whole == SubSeq(new, 1, LastBreak(new))
       IN  /\ delivered' = delivered \o EventsIn(whole)
           /\ cursor' = cursor + Len(new)
    /\ seen' = Unread
    /\ UNCHANGED <<log, crashes, json, dirs, wants, ignore>>

ReadTrail ==
    /\ seen # Unread
    /\ LET new == SubSeq(log, cursor + 1, Len(log))
           whole == SubSeq(new, 1, LastBreak(new))
       IN  /\ delivered' = delivered \o EventsIn(whole)
           /\ cursor' = cursor + Len(whole)
    /\ seen' = Unread
    /\ UNCHANGED <<log, crashes, json, dirs, wants, ignore>>

-----------------------------------------------------------------------------
\* atomicWriteJson: writers of one file queue up; each writes a temporary file
\* of its own and renames it over the target, again while the error may pass
QueueWrite ==
    /\ json.next <= MaxEvents
    /\ json' = [json EXCEPT !.queue = Append(@, json.next), !.next = @ + 1]
    /\ UNCHANGED <<log, crashes, cursor, seen, delivered, dirs, wants, ignore>>

WriteTemp ==
    /\ json.now = NoWrite /\ json.queue # <<>>
    /\ json' = [json EXCEPT !.queue = Tail(@), !.temp = TRUE,
                            !.now = [value |-> Head(json.queue), tries |-> 1]]
    /\ UNCHANGED <<log, crashes, cursor, seen, delivered, dirs, wants, ignore>>

\* Mutant: one attempt too many.
RenameTempOnceMore ==
    /\ json.now # NoWrite
    /\ \/ json' = [json EXCEPT !.file = json.now.value, !.now = NoWrite, !.temp = FALSE]
       \/ json.now.tries <= MaxRename /\ json' = [json EXCEPT !.now.tries = @ + 1]
       \/ json' = [json EXCEPT !.now = NoWrite, !.temp = FALSE]
    /\ UNCHANGED <<log, crashes, cursor, seen, delivered, dirs, wants, ignore>>

\* renameWithRetry
RenameTemp ==
    /\ json.now # NoWrite
    /\ \/ json' = [json EXCEPT !.file = json.now.value, !.now = NoWrite, !.temp = FALSE]
       \/ json.now.tries < MaxRename /\ json' = [json EXCEPT !.now.tries = @ + 1]
       \/ json' = [json EXCEPT !.now = NoWrite, !.temp = FALSE]
    /\ UNCHANGED <<log, crashes, cursor, seen, delivered, dirs, wants, ignore>>

-----------------------------------------------------------------------------
\* createRunDirectory: mkdir without recursive is the test and the claim
MakeDirectory(p) ==
    /\ wants[p] # 0
    /\ IF wants[p] \in dirs
       THEN wants' = [wants EXCEPT ![p] = @ + 1] /\ UNCHANGED dirs
       ELSE wants' = [wants EXCEPT ![p] = 0] /\ dirs' = dirs \cup {wants[p]}
    \* ensureTrailStepGitignore: only a missing file or the generated legacy body is written
    /\ ignore' = IF ignore \in {"missing", "legacy"} THEN "current" ELSE ignore
    /\ UNCHANGED <<log, crashes, cursor, seen, delivered, json>>

RFNext ==
    \/ AppendEvent \/ TornAppend \/ StatTrail \/ ReadTrail
    \/ QueueWrite \/ WriteTemp \/ RenameTemp
    \/ \E p \in Proc : MakeDirectory(p)

RFSpec == RFInit /\ [][RFNext]_rfVars

RFTypeOK ==
    /\ log \in Seq(Piece) /\ delivered \in Seq(Events)
    /\ cursor \in 0..Len(log) /\ seen \in 0..Unread /\ crashes \in 0..MaxCrashes
    /\ json.file \in 0..MaxEvents /\ json.now.tries \in 0..MaxRename
    /\ json.temp = (json.now # NoWrite)
    /\ dirs \subseteq 1..Cardinality(Proc)
    /\ ignore \in {"missing", "legacy", "current", "edited"}

\* An incremental reader hands out, once and in order, exactly the events a
\* reader of the whole trail finds up to its cursor, whenever its stat and its
\* read fall and whatever was torn (run-storage.ts:198).
ReaderMissesNothing == delivered = EventsIn(SubSeq(log, 1, cursor))
=============================================================================
