----------------------------- MODULE SharedState -----------------------------
(***************************************************************************)
(* The state a run's steps share, a cache in front of a JSON file.         *)
(*   "run": createQueuedRunState.  A set changes the cache at once and     *)
(*     queues a write, which writes the cache of its turn.                 *)
(*   "global": createQueuedGlobalState.  Every mutation waits its turn in  *)
(*     one queue, an update's callback included.                           *)
(* Its clients are the steps of parallel branches (or the promises of one  *)
(* step); each operation takes several turns of the event loop.            *)
(***************************************************************************)
EXTENDS Naturals, Sequences

CONSTANTS
    Client,    \* concurrent users of the state
    MaxOps,    \* bound on the operations
    MaxFaults  \* bound on reads and writes of the file that fail

VARIABLES
    kind,     \* "run" or "global"
    disk,     \* the file: how often it was updated, and the last value set
    cache,    \* the cache object, or "none" before the first load
    queue,    \* the operations waiting for their turn, in order
    turn,     \* the operation at work, what it has read, how far it is
    faults,   \* I/O errors so far
    ops,      \* operations begun; a set's value is its number
    acked     \* what clients were told is done: updates, and the last set

ssVars == <<kind, disk, cache, queue, turn, faults, ops, acked>>

Op == {"set", "memorySet", "update", "get"}
NoTurn == [op |-> "none", client |-> "none", value |-> 0, at |-> "free"]

SSInit ==
    /\ kind \in {"run", "global"}
    /\ disk = [updates |-> 0, set |-> 0] /\ cache = [loaded |-> FALSE, updates |-> 0, set |-> 0]
    /\ queue = <<>> /\ turn = NoTurn /\ faults = 0
    /\ ops = 0
    /\ acked = [updates |-> 0, set |-> 0]

Idle(c) == ops < MaxOps /\ turn.client # c /\ \A i \in DOMAIN queue : queue[i].client # c

\* run.state.set once loaded: the cache changes in the caller's turn, and the
\* write is queued behind those before it
SetRunState(c) ==
    /\ kind = "run" /\ Idle(c) /\ cache.loaded
    /\ ops' = ops + 1
    /\ cache' = [cache EXCEPT !.set = ops + 1]
    /\ \E o \in {"set", "memorySet"} :
          queue' = IF o = "set" THEN Append(queue, [op |-> o, client |-> c, value |-> ops + 1])
                   ELSE queue
    /\ UNCHANGED <<kind, disk, turn, faults, acked>>

\* ensureLoaded and hydratePersisted before the steps begin; a load that fails
\* is not cached, the next access reads again
Load ==
    /\ ~cache.loaded /\ turn = NoTurn
    /\ \/ cache' = [loaded |-> TRUE, updates |-> disk.updates, set |-> disk.set] /\ UNCHANGED faults
       \/ faults < MaxFaults /\ faults' = faults + 1 /\ UNCHANGED cache
    /\ UNCHANGED <<kind, disk, queue, turn, ops, acked>>

\* globalState.set, update and get: enqueueMutation
Enqueue(c) ==
    /\ kind = "global" /\ Idle(c)
    /\ ops' = ops + 1
    /\ \E o \in Op : queue' = Append(queue, [op |-> o, client |-> c, value |-> ops + 1])
    /\ UNCHANGED <<kind, disk, cache, turn, faults, acked>>

\* the queue's turn goes to its first operation
TakeTurn ==
    /\ turn = NoTurn /\ queue # <<>> /\ cache.loaded
    /\ turn' = [op |-> Head(queue).op, client |-> Head(queue).client, value |-> Head(queue).value,
                at |-> "mutate"]
    /\ queue' = Tail(queue)
    /\ UNCHANGED <<kind, disk, cache, faults, ops, acked>>

\* an update reads its key and awaits its callback before it stores the result
ReadForUpdate ==
    /\ turn.at = "mutate" /\ turn.op = "update"
    /\ turn' = [turn EXCEPT !.value = cache.updates + 1, !.at = "store"]
    /\ UNCHANGED <<kind, disk, cache, queue, faults, ops, acked>>

Mutate ==
    /\ \/ /\ turn.at = "store"
          /\ cache' = [cache EXCEPT !.updates = turn.value]
       \/ /\ turn.at = "mutate" /\ turn.op # "update"
          /\ cache' = IF kind = "global" /\ turn.op \in {"set", "memorySet"}
                      THEN [cache EXCEPT !.set = turn.value] ELSE cache
    /\ turn' = IF turn.op \in {"get", "memorySet"} THEN NoTurn ELSE [turn EXCEPT !.at = "write"]
    /\ UNCHANGED <<kind, disk, queue, faults, ops, acked>>

\* Mutant: a failed write is not told to its caller.
WriteSwallowing ==
    /\ turn.at = "write"
    /\ turn' = NoTurn
    /\ \/ /\ disk' = [updates |-> cache.updates, set |-> cache.set]
          /\ acked' = IF turn.op = "update" THEN [acked EXCEPT !.updates = @ + 1]
                      ELSE [acked EXCEPT !.set = turn.value]
          /\ UNCHANGED faults
       \/ /\ faults < MaxFaults /\ faults' = faults + 1
          /\ UNCHANGED disk
          /\ acked' = IF turn.op = "update" THEN [acked EXCEPT !.updates = @ + 1]
                      ELSE [acked EXCEPT !.set = turn.value]
    /\ UNCHANGED <<kind, cache, queue, ops>>

\* options.write: atomicWriteJson replaces the whole file or leaves it; a
\* failed write is told to the caller whose operation it was, drainPersistError,
\* and the queue goes on
Write ==
    /\ turn.at = "write"
    /\ turn' = NoTurn
    /\ \/ /\ disk' = [updates |-> cache.updates, set |-> cache.set]
          /\ acked' = IF turn.op = "update" THEN [acked EXCEPT !.updates = @ + 1]
                      ELSE [acked EXCEPT !.set = turn.value]
          /\ UNCHANGED faults
       \/ /\ faults < MaxFaults /\ faults' = faults + 1
          /\ UNCHANGED <<disk, acked>>
    /\ UNCHANGED <<kind, cache, queue, ops>>

\* an update whose callback throws stores nothing
ThrowInUpdate ==
    /\ turn.at = "store"
    /\ turn' = NoTurn
    /\ UNCHANGED <<kind, disk, cache, queue, faults, ops, acked>>

\* the process dies; the next one loads what the disk holds
Restart ==
    /\ faults < MaxFaults /\ faults' = faults + 1
    /\ cache' = [loaded |-> FALSE, updates |-> 0, set |-> 0]
    /\ queue' = <<>> /\ turn' = NoTurn
    /\ UNCHANGED <<kind, disk, ops, acked>>

SSNext ==
    \/ \E c \in Client : SetRunState(c) \/ Enqueue(c)
    \/ Load \/ TakeTurn \/ ReadForUpdate \/ Mutate \/ Write \/ ThrowInUpdate \/ Restart

SSSpec == SSInit /\ [][SSNext]_ssVars

SSTypeOK ==
    /\ kind \in {"run", "global"}
    /\ \A r \in {disk, cache, acked} : r.updates \in Nat /\ r.set \in Nat
    /\ cache.loaded \in BOOLEAN /\ faults \in 0..MaxFaults
    /\ turn.at \in {"free", "mutate", "store", "write"}
    /\ turn.op \in Op \cup {"none"}

\* What a client was told is stored is on disk, whatever fails or dies later:
\* no acknowledged update is lost to another branch's (create-run-context.ts:189
\* and trailstep-authoring-skill/SKILL.md:90), and no acknowledged set is
\* overwritten by an older one.  Set values grow in the order the sets are made.
AcknowledgedIsDurable ==
    /\ acked.updates <= disk.updates
    /\ acked.set <= disk.set
=============================================================================
