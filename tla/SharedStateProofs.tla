-------------------------- MODULE SharedStateProofs --------------------------
(***************************************************************************)
(* What a client was told is stored is on disk, for any number of clients, *)
(* operations and faults.                                                  *)
(*                                                                         *)
(* The file is never ahead of the loaded cache, an update that was told to *)
(* its caller is behind both, and a set that was told is no newer than the *)
(* file.  In the queue of globalState sets wait in the order they were     *)
(* made, each newer than what cache and file hold; the sets of run.state   *)
(* that wait are in the cache already.                                     *)
(***************************************************************************)
EXTENDS SharedState, TLAPS

Stored == [updates : Nat, set : Nat]
Cached == [loaded : BOOLEAN, updates : Nat, set : Nat]
Queued == [op : Op, client : Client, value : Nat]
Turn == [op : Op, client : Client, value : Nat, at : {"mutate", "store", "write"}]

ShapeInv ==
    /\ kind \in {"run", "global"}
    /\ disk \in Stored /\ acked \in Stored
    /\ cache \in Cached
    /\ queue \in Seq(Queued)
    /\ turn \in Turn \/ turn = NoTurn
    /\ ops \in Nat
    /\ turn # NoTurn => cache.loaded
    /\ turn.at = "store" => turn.op = "update"
    /\ turn.at = "write" => turn.op \in {"set", "update"}

\* Nothing is newer than the last operation, the file no newer than the cache.
FileBehind ==
    /\ disk.set <= ops /\ cache.set <= ops
    /\ \A i \in 1..Len(queue) : queue[i].value <= ops
    /\ turn.op \in {"set", "memorySet"} => turn.value <= ops
    /\ cache.loaded => disk.updates <= cache.updates /\ disk.set <= cache.set

\* The updates of the cache are read, stored and written by one operation at a time.
UpdatesCounted ==
    turn.op = "update" =>
        /\ turn.at = "store" => turn.value = cache.updates + 1
        /\ turn.at = "write" => disk.updates < cache.updates

\* A set that waits in the queue of run.state is in the cache.
RunSetsCached ==
    kind = "run" =>
        /\ ~cache.loaded => queue = <<>>
        /\ \A i \in 1..Len(queue) : queue[i].op = "set" /\ queue[i].value <= cache.set
        /\ turn # NoTurn => turn.op = "set" /\ turn.value <= cache.set

\* The sets that wait in the queue of globalState are newer than what is stored,
\* in the order they were made.
GlobalSetsAhead ==
    kind = "global" =>
        /\ \A i \in 1..Len(queue) : disk.set < queue[i].value /\ cache.set < queue[i].value
        /\ \A i, j \in 1..Len(queue) : i < j => queue[i].value < queue[j].value
        /\ turn.op \in {"set", "memorySet"} =>
              /\ turn.at = "mutate" => cache.set < turn.value
              /\ turn.at = "write" => cache.set = turn.value
              /\ \A i \in 1..Len(queue) : turn.value < queue[i].value

StateInv ==
    /\ ShapeInv /\ FileBehind /\ UpdatesCounted /\ RunSetsCached /\ GlobalSetsAhead
    /\ AcknowledgedIsDurable

\* What an append and a removal from the front leave of a queue.
LEMMA AppendedQueue ==
    ASSUME NEW S, NEW q \in Seq(S), NEW e \in S
    PROVE  /\ Append(q, e) \in Seq(S) /\ Len(q) \in Nat /\ Len(Append(q, e)) = Len(q) + 1
           /\ \A i \in 1..Len(q) : Append(q, e)[i] = q[i]
           /\ Append(q, e)[Len(q) + 1] = e
  OBVIOUS

LEMMA TailOfQueue ==
    ASSUME NEW S, NEW q \in Seq(S), q # <<>>
    PROVE  /\ Tail(q) \in Seq(S) /\ Len(q) \in Nat /\ Len(Tail(q)) = Len(q) - 1
           /\ Head(q) = q[1] /\ 1 \in 1..Len(q) /\ q[1] \in S
           /\ \A i \in 1..Len(Tail(q)) : i + 1 \in 1..Len(q) /\ Tail(q)[i] = q[i + 1]
  OBVIOUS

\* The values in the queue are numbers.
LEMMA QueuedValues ==
    ASSUME ShapeInv
    PROVE  \A i \in 1..Len(queue) : queue[i] \in Queued /\ queue[i].value \in Nat
<1>1. \A i \in 1..Len(queue) : queue[i] \in Queued
  BY DEF ShapeInv
<1> QED
  BY <1>1 DEF Queued

\* What an assignment to a field of a record leaves of the record.
LEMMA CacheFields ==
    ASSUME NEW r \in Cached, NEW n \in Nat
    PROVE  /\ r.loaded \in BOOLEAN /\ r.updates \in Nat /\ r.set \in Nat
           /\ [r EXCEPT !.set = n] \in Cached
           /\ [r EXCEPT !.set = n].loaded = r.loaded
           /\ [r EXCEPT !.set = n].updates = r.updates
           /\ [r EXCEPT !.set = n].set = n
           /\ [r EXCEPT !.updates = n] \in Cached
           /\ [r EXCEPT !.updates = n].loaded = r.loaded
           /\ [r EXCEPT !.updates = n].updates = n
           /\ [r EXCEPT !.updates = n].set = r.set
  BY DEF Cached

LEMMA StoredFields ==
    ASSUME NEW r \in Stored, NEW n \in Nat
    PROVE  /\ r.updates \in Nat /\ r.set \in Nat
           /\ [r EXCEPT !.set = n] \in Stored
           /\ [r EXCEPT !.set = n].updates = r.updates
           /\ [r EXCEPT !.set = n].set = n
           /\ [r EXCEPT !.updates = n] \in Stored
           /\ [r EXCEPT !.updates = n].updates = n
           /\ [r EXCEPT !.updates = n].set = r.set
  BY DEF Stored

LEMMA TurnFields ==
    ASSUME NEW r \in Turn, NEW n \in Nat
    PROVE  /\ r.value \in Nat /\ r.op \in Op
           /\ [r EXCEPT !.value = n, !.at = "store"] \in Turn
           /\ [r EXCEPT !.value = n, !.at = "store"].op = r.op
           /\ [r EXCEPT !.value = n, !.at = "store"].value = n
           /\ [r EXCEPT !.value = n, !.at = "store"].at = "store"
           /\ [r EXCEPT !.at = "write"] \in Turn
           /\ [r EXCEPT !.at = "write"].op = r.op
           /\ [r EXCEPT !.at = "write"].value = r.value
           /\ [r EXCEPT !.at = "write"].at = "write"
  BY DEF Turn

LEMMA NoTurnFields ==
    NoTurn.op = "none" /\ NoTurn.value = 0 /\ NoTurn.at = "free" /\ NoTurn \notin Turn
  BY DEF NoTurn, Turn, Op

\* The numbers of a state.
LEMMA Numbers ==
    ASSUME ShapeInv
    PROVE  /\ disk.updates \in Nat /\ disk.set \in Nat /\ cache.updates \in Nat
           /\ cache.set \in Nat /\ acked.updates \in Nat /\ acked.set \in Nat
           /\ ops \in Nat /\ turn.value \in Nat
           /\ Len(queue) \in Nat /\ \A i \in 1..Len(queue) : queue[i].value \in Nat
<1>1. disk.updates \in Nat /\ disk.set \in Nat /\ acked.updates \in Nat /\ acked.set \in Nat
  BY DEF ShapeInv, Stored
<1>2. cache.updates \in Nat /\ cache.set \in Nat /\ ops \in Nat
  BY DEF ShapeInv, Cached
<1>3. turn.value \in Nat
  <2>1. CASE turn = NoTurn
    BY <2>1 DEF NoTurn
  <2>2. CASE turn \in Turn
    BY <2>2 DEF Turn
  <2> QED
    BY <2>1, <2>2 DEF ShapeInv
<1>4. Len(queue) \in Nat
  BY DEF ShapeInv
<1> QED
  BY <1>1, <1>2, <1>3, <1>4, QueuedValues

\* A client that takes its turn at the end of the queue disturbs nobody before it.
LEMMA CallKeeps ==
    ASSUME StateInv, NEW c \in Client, SetRunState(c) \/ Enqueue(c)
    PROVE  StateInv'
<1> DEFINE Entry(o) == [op |-> o, client |-> c, value |-> ops + 1]
<1>1. /\ ShapeInv /\ FileBehind /\ UpdatesCounted /\ RunSetsCached /\ GlobalSetsAhead
      /\ AcknowledgedIsDurable /\ queue \in Seq(Queued) /\ ops \in Nat
      /\ \A i \in 1..Len(queue) : queue[i].value \in Nat
  BY QueuedValues DEF StateInv, ShapeInv
<1>2. \A o \in Op : Entry(o) \in Queued /\ Entry(o).op = o /\ Entry(o).value = ops + 1
  BY <1>1 DEF Queued
<1>3. CASE SetRunState(c)
  <2>1. /\ kind = "run" /\ cache.loaded /\ ops' = ops + 1
        /\ cache' = [cache EXCEPT !.set = ops + 1]
        /\ UNCHANGED <<kind, disk, turn, faults, acked>>
    BY <1>3 DEF SetRunState
  <2>2. queue' = Append(queue, Entry("set")) \/ queue' = queue
    BY <1>3 DEF SetRunState
  <2>3. Entry("set") \in Queued /\ Entry("set").op = "set" /\ Entry("set").value = ops + 1
    BY <1>2 DEF Op
  <2> HIDE DEF Entry
  <2>4. queue' \in Seq(Queued)
    BY <1>1, <2>2, <2>3, AppendedQueue
  <2>5. \A i \in 1..Len(queue') :
            \/ i \in 1..Len(queue) /\ queue'[i] = queue[i]
            \/ queue'[i] = Entry("set")
    BY <1>1, <2>2, <2>3, AppendedQueue
  <2>6. /\ cache \in Cached /\ cache' \in Cached
        /\ cache'.loaded = cache.loaded /\ cache'.updates = cache.updates /\ cache'.set = ops + 1
    <3>1. cache \in Cached /\ ops + 1 \in Nat
      BY <1>1 DEF ShapeInv
    <3> QED
      BY <2>1, <3>1, CacheFields
  <2>7. ShapeInv'
    BY <1>1, <2>1, <2>4, <2>6 DEF ShapeInv
  <2>8. disk.set \in Nat /\ cache.set \in Nat /\ (turn = NoTurn \/ turn.value \in Nat)
    BY <1>1, <2>6 DEF ShapeInv, Stored, Cached, Turn
  <2>9. FileBehind'
    BY <1>1, <2>1, <2>3, <2>5, <2>6, <2>8 DEF FileBehind, NoTurn
  <2>10. RunSetsCached'
    BY <1>1, <2>1, <2>3, <2>5, <2>6, <2>8 DEF FileBehind, RunSetsCached
  <2>11. UpdatesCounted' /\ GlobalSetsAhead' /\ AcknowledgedIsDurable'
    BY <1>1, <2>1, <2>6 DEF UpdatesCounted, GlobalSetsAhead, AcknowledgedIsDurable
  <2> QED
    BY <2>7, <2>9, <2>10, <2>11 DEF StateInv
<1>4. CASE Enqueue(c)
  <2>1. kind = "global" /\ ops' = ops + 1 /\ UNCHANGED <<kind, disk, cache, turn, faults, acked>>
    BY <1>4 DEF Enqueue
  <2>2. PICK o \in Op : queue' = Append(queue, Entry(o))
    BY <1>4 DEF Enqueue
  <2>3. Entry(o) \in Queued /\ Entry(o).value = ops + 1
    BY <1>2
  <2> HIDE DEF Entry
  <2>4. /\ queue' \in Seq(Queued) /\ Len(queue) \in Nat /\ Len(queue') = Len(queue) + 1
        /\ \A i \in 1..Len(queue) : queue'[i] = queue[i]
        /\ queue'[Len(queue) + 1] = Entry(o)
    BY <1>1, <2>2, <2>3, AppendedQueue
  <2>5. ShapeInv'
    BY <1>1, <2>1, <2>4 DEF ShapeInv
  <2>6. disk.set \in Nat /\ cache.set \in Nat /\ (turn = NoTurn \/ turn.value \in Nat)
    BY <1>1 DEF ShapeInv, Stored, Cached, Turn
  <2>7. \A i \in 1..Len(queue') :
            \/ i \in 1..Len(queue) /\ queue'[i] = queue[i]
            \/ i = Len(queue) + 1 /\ queue'[i].value = ops + 1
    BY <2>3, <2>4
  <2>8. FileBehind'
    BY SMTT(30), <1>1, <2>1, <2>6, <2>7 DEF FileBehind, NoTurn
  <2>9. GlobalSetsAhead'
    <3>1. /\ \A i \in 1..Len(queue) : disk.set < queue[i].value /\ cache.set < queue[i].value
          /\ \A i, j \in 1..Len(queue) : i < j => queue[i].value < queue[j].value
          /\ \A i \in 1..Len(queue) : queue[i].value <= ops
      BY <1>1, <2>1 DEF FileBehind, GlobalSetsAhead
    <3>2. \A i \in 1..Len(queue') : disk.set < queue'[i].value /\ cache.set < queue'[i].value
      BY <1>1, <2>6, <2>7, <3>1 DEF FileBehind
    <3>3. \A i, j \in 1..Len(queue') : i < j => queue'[i].value < queue'[j].value
      <4>1. SUFFICES ASSUME NEW i \in 1..Len(queue'), NEW j \in 1..Len(queue'), i < j
                     PROVE  queue'[i].value < queue'[j].value
        OBVIOUS
      <4>2. i \in 1..Len(queue) /\ queue'[i] = queue[i]
        BY <2>4, <2>7, <4>1
      <4>3. CASE j \in 1..Len(queue)
        BY <2>4, <3>1, <4>1, <4>2, <4>3
      <4>4. CASE j = Len(queue) + 1
        <5>1. queue'[j].value = ops + 1 /\ queue[i].value <= ops /\ queue[i].value \in Nat
          BY <1>1, <2>3, <2>4, <3>1, <4>2, <4>4
        <5> QED
          BY <1>1, <4>2, <5>1
      <4> QED
        BY <2>4, <4>1, <4>3, <4>4
    <3>4. turn.op \in {"set", "memorySet"} =>
              /\ turn.value <= ops
              /\ turn.at = "mutate" => cache.set < turn.value
              /\ turn.at = "write" => cache.set = turn.value
              /\ \A i \in 1..Len(queue) : turn.value < queue[i].value
      BY <1>1, <2>1 DEF FileBehind, GlobalSetsAhead
    <3>5. turn.value \in Nat
      BY <1>1, Numbers
    <3>6. turn.op \in {"set", "memorySet"} =>
              \A i \in 1..Len(queue') : turn.value < queue'[i].value
      BY <1>1, <2>7, <3>4, <3>5
    <3> QED
      BY <2>1, <3>2, <3>3, <3>4, <3>6 DEF GlobalSetsAhead
  <2>10. UpdatesCounted' /\ RunSetsCached' /\ AcknowledgedIsDurable'
    BY <1>1, <2>1 DEF UpdatesCounted, RunSetsCached, AcknowledgedIsDurable
  <2> QED
    BY <2>5, <2>8, <2>9, <2>10 DEF StateInv
<1> QED
  BY <1>3, <1>4

\* The first operation of the queue is the oldest.
LEMMA TurnKeeps ==
    ASSUME StateInv, TakeTurn
    PROVE  StateInv'
<1>1. /\ ShapeInv /\ FileBehind /\ UpdatesCounted /\ RunSetsCached /\ GlobalSetsAhead
      /\ AcknowledgedIsDurable /\ queue \in Seq(Queued)
      /\ \A i \in 1..Len(queue) : queue[i].value \in Nat
  BY QueuedValues DEF StateInv, ShapeInv
<1>2. /\ turn = NoTurn /\ queue # <<>> /\ cache.loaded /\ queue' = Tail(queue)
      /\ UNCHANGED <<kind, disk, cache, faults, ops, acked>>
  BY DEF TakeTurn
<1>3. /\ Head(queue) = queue[1] /\ 1 \in 1..Len(queue) /\ queue[1] \in Queued
      /\ queue' \in Seq(Queued) /\ Len(queue) \in Nat /\ Len(queue') = Len(queue) - 1
      /\ \A i \in 1..Len(queue') : i + 1 \in 1..Len(queue) /\ queue'[i] = queue[i + 1]
  BY <1>1, <1>2, TailOfQueue
<1>4. /\ turn' \in Turn
      /\ turn'.op = queue[1].op /\ turn'.value = queue[1].value /\ turn'.at = "mutate"
  BY <1>3 DEF TakeTurn, Turn, Queued
<1>5. ShapeInv'
  BY <1>1, <1>2, <1>3, <1>4 DEF ShapeInv
<1>6. FileBehind'
  BY <1>1, <1>2, <1>3, <1>4 DEF FileBehind
<1>7. RunSetsCached'
  BY <1>1, <1>2, <1>3, <1>4 DEF RunSetsCached
<1>8. GlobalSetsAhead'
  <2>1. \A i \in 1..Len(queue') : 1 < i + 1
    BY <1>3
  <2> QED
    BY <1>1, <1>2, <1>3, <1>4, <2>1 DEF GlobalSetsAhead
<1>9. UpdatesCounted' /\ AcknowledgedIsDurable'
  BY <1>1, <1>2, <1>4 DEF UpdatesCounted, AcknowledgedIsDurable
<1> QED
  BY <1>5, <1>6, <1>7, <1>8, <1>9 DEF StateInv

\* What the operation at work does before its write.
LEMMA MutateKeeps ==
    ASSUME StateInv, ReadForUpdate \/ Mutate \/ ThrowInUpdate
    PROVE  StateInv'
<1>1. /\ ShapeInv /\ FileBehind /\ UpdatesCounted /\ RunSetsCached /\ GlobalSetsAhead
      /\ AcknowledgedIsDurable
  BY DEF StateInv
<1>2. /\ UNCHANGED <<kind, disk, queue, ops, acked>>
      /\ turn.at \in {"mutate", "store"}
  BY DEF ReadForUpdate, Mutate, ThrowInUpdate
<1>3. cache \in Cached /\ turn \in Turn /\ cache.loaded
  BY <1>1, <1>2, NoTurnFields DEF ShapeInv
<1>4. CASE ReadForUpdate
  <2>1. cache' = cache /\ turn.op = "update"
    BY <1>4 DEF ReadForUpdate
  <2>2. /\ turn' \in Turn /\ turn'.op = "update" /\ turn'.at = "store"
        /\ turn'.value = cache.updates + 1
    <3>1. cache.updates + 1 \in Nat
      BY <1>1, Numbers
    <3> QED
      BY <1>3, <1>4, <3>1, TurnFields DEF ReadForUpdate
  <2>3. ShapeInv' /\ FileBehind' /\ UpdatesCounted'
    BY <1>1, <1>2, <1>3, <2>1, <2>2 DEF ShapeInv, FileBehind, UpdatesCounted
  <2>4. RunSetsCached' /\ GlobalSetsAhead' /\ AcknowledgedIsDurable'
    BY <1>1, <1>2, <1>3, <2>1, <2>2, NoTurnFields
       DEF RunSetsCached, GlobalSetsAhead, AcknowledgedIsDurable
  <2> QED
    BY <2>3, <2>4 DEF StateInv
<1>5. CASE ThrowInUpdate
  <2>1. cache' = cache /\ turn' = NoTurn
    BY <1>5 DEF ThrowInUpdate
  <2>2. ShapeInv' /\ FileBehind' /\ UpdatesCounted'
    BY <1>1, <1>2, <2>1, NoTurnFields DEF ShapeInv, FileBehind, UpdatesCounted
  <2>3. RunSetsCached' /\ GlobalSetsAhead' /\ AcknowledgedIsDurable'
    BY <1>1, <1>2, <2>1, NoTurnFields DEF RunSetsCached, GlobalSetsAhead, AcknowledgedIsDurable
  <2> QED
    BY <2>2, <2>3 DEF StateInv
<1>6. CASE Mutate
  <2>1. \/ /\ turn.op = "update" /\ turn.at = "store"
           /\ cache' = [cache EXCEPT !.updates = turn.value]
        \/ /\ turn.op \in {"set", "memorySet"} /\ turn.at = "mutate" /\ kind = "global"
           /\ cache' = [cache EXCEPT !.set = turn.value]
        \/ /\ turn.op = "get" \/ kind = "run"
           /\ turn.op # "update" /\ cache' = cache
    BY <1>1, <1>3, <1>6, TurnFields DEF Mutate, ShapeInv, Op
  <2>2. \/ turn.op \in {"get", "memorySet"} /\ turn' = NoTurn
        \/ /\ turn.op \in {"set", "update"} /\ turn' \in Turn /\ turn'.at = "write"
           /\ turn'.op = turn.op /\ turn'.value = turn.value
    <3>1. turn.op \in Op /\ turn.value \in Nat
      BY <1>3, TurnFields
    <3>2. CASE turn.op \in {"get", "memorySet"}
      BY <1>6, <3>2 DEF Mutate
    <3>3. CASE turn.op \in {"set", "update"}
      <4>1. turn' = [turn EXCEPT !.at = "write"]
        BY <1>6, <3>3 DEF Mutate
      <4> QED
        BY <1>3, <3>1, <3>3, <4>1, TurnFields
    <3> QED
      BY <3>1, <3>2, <3>3 DEF Op
  <2>3. /\ cache' \in Cached /\ cache'.loaded = cache.loaded
        /\ \/ /\ turn.op = "update" /\ turn.at = "store"
              /\ cache'.updates = turn.value /\ cache'.set = cache.set
           \/ /\ turn.op \in {"set", "memorySet"} /\ turn.at = "mutate" /\ kind = "global"
              /\ cache'.updates = cache.updates /\ cache'.set = turn.value
           \/ /\ turn.op = "get" \/ kind = "run"
              /\ turn.op # "update" /\ cache' = cache
    <3>1. turn.value \in Nat /\ cache \in Cached
      BY <1>1, <1>3, Numbers
    <3>2. CASE /\ turn.op = "update" /\ turn.at = "store"
               /\ cache' = [cache EXCEPT !.updates = turn.value]
      BY <3>1, <3>2, CacheFields
    <3>3. CASE /\ turn.op \in {"set", "memorySet"} /\ turn.at = "mutate" /\ kind = "global"
               /\ cache' = [cache EXCEPT !.set = turn.value]
      BY <3>1, <3>3, CacheFields
    <3>4. CASE /\ turn.op = "get" \/ kind = "run"
               /\ turn.op # "update" /\ cache' = cache
      BY <3>1, <3>4
    <3> QED
      BY <2>1, <3>2, <3>3, <3>4
  <2>4. ShapeInv'
    BY <1>1, <1>2, <1>3, <2>2, <2>3, NoTurnFields DEF ShapeInv
  <2>5. FileBehind' /\ UpdatesCounted'
    BY <1>1, <1>2, <1>3, <2>2, <2>3, NoTurnFields, Numbers
       DEF FileBehind, UpdatesCounted, GlobalSetsAhead
  <2>6. RunSetsCached' /\ AcknowledgedIsDurable'
    BY <1>1, <1>2, <1>3, <2>2, <2>3, NoTurnFields DEF RunSetsCached, AcknowledgedIsDurable
  <2>7. GlobalSetsAhead'
    BY <1>1, <1>2, <1>3, <2>2, <2>3, NoTurnFields, Numbers DEF GlobalSetsAhead
  <2> QED
    BY <2>4, <2>5, <2>6, <2>7 DEF StateInv
<1> QED
  BY <1>4, <1>5, <1>6

\* A write that succeeds stores the whole cache, which holds what its caller is
\* told; one that fails tells its caller nothing.
LEMMA WriteKeeps ==
    ASSUME StateInv, Write
    PROVE  StateInv'
<1>1. /\ ShapeInv /\ FileBehind /\ UpdatesCounted /\ RunSetsCached /\ GlobalSetsAhead
      /\ AcknowledgedIsDurable
  BY DEF StateInv
<1>2. /\ turn.at = "write" /\ turn' = NoTurn /\ UNCHANGED <<kind, cache, queue, ops>>
  BY DEF Write
<1>3. turn \in Turn /\ cache.loaded /\ turn.op \in {"set", "update"}
  BY <1>1, <1>2, NoTurnFields DEF ShapeInv
<1>4. RunSetsCached' /\ UpdatesCounted'
  BY <1>1, <1>2, NoTurnFields DEF RunSetsCached, UpdatesCounted
<1>5. CASE UNCHANGED <<disk, acked>>
  <2>1. ShapeInv' /\ FileBehind'
    BY <1>1, <1>2, <1>5, NoTurnFields DEF ShapeInv, FileBehind
  <2>2. GlobalSetsAhead' /\ AcknowledgedIsDurable'
    BY <1>1, <1>2, <1>5, NoTurnFields DEF GlobalSetsAhead, AcknowledgedIsDurable
  <2> QED
    BY <1>4, <2>1, <2>2 DEF StateInv
<1>6. CASE /\ disk' = [updates |-> cache.updates, set |-> cache.set]
           /\ acked' = IF turn.op = "update" THEN [acked EXCEPT !.updates = @ + 1]
                       ELSE [acked EXCEPT !.set = turn.value]
  <2>1. disk' \in Stored /\ disk'.updates = cache.updates /\ disk'.set = cache.set
    BY <1>1, <1>6, Numbers DEF Stored
  <2>2. /\ acked' \in Stored
        /\ \/ /\ turn.op = "update" /\ acked'.updates = acked.updates + 1
              /\ acked'.set = acked.set
           \/ /\ turn.op = "set" /\ acked'.updates = acked.updates /\ acked'.set = turn.value
    <3>1. acked \in Stored /\ acked.updates + 1 \in Nat /\ turn.value \in Nat
      BY <1>1, Numbers DEF ShapeInv
    <3>2. \/ turn.op = "update" /\ acked' = [acked EXCEPT !.updates = acked.updates + 1]
          \/ turn.op = "set" /\ acked' = [acked EXCEPT !.set = turn.value]
      BY <1>3, <1>6
    <3>3. CASE turn.op = "update" /\ acked' = [acked EXCEPT !.updates = acked.updates + 1]
      BY <3>1, <3>3, StoredFields
    <3>4. CASE turn.op = "set" /\ acked' = [acked EXCEPT !.set = turn.value]
      BY <3>1, <3>4, StoredFields
    <3> QED
      BY <3>2, <3>3, <3>4
  <2>3. ShapeInv'
    BY <1>1, <1>2, <2>1, <2>2, NoTurnFields DEF ShapeInv
  <2>4. FileBehind' /\ GlobalSetsAhead'
    BY <1>1, <1>2, <2>1, Numbers, NoTurnFields DEF FileBehind, GlobalSetsAhead
  <2>5. AcknowledgedIsDurable'
    <3>1. turn.op = "set" => turn.value <= cache.set
      BY <1>1, <1>2, Numbers, NoTurnFields DEF RunSetsCached, GlobalSetsAhead, ShapeInv
    <3>2. turn.op = "update" => disk.updates < cache.updates
      BY <1>1, <1>2 DEF UpdatesCounted
    <3>3. disk.updates <= cache.updates /\ disk.set <= cache.set
      BY <1>1, <1>3 DEF FileBehind
    <3> QED
      BY <1>1, <2>1, <2>2, <3>1, <3>2, <3>3, Numbers DEF AcknowledgedIsDurable
  <2> QED
    BY <1>4, <2>3, <2>4, <2>5 DEF StateInv
<1> QED
  BY <1>5, <1>6 DEF Write

\* A process that dies, and the load of the one that follows it.
LEMMA RestartKeeps ==
    ASSUME StateInv, Load \/ Restart
    PROVE  StateInv'
<1>1. /\ ShapeInv /\ FileBehind /\ UpdatesCounted /\ RunSetsCached /\ GlobalSetsAhead
      /\ AcknowledgedIsDurable
  BY DEF StateInv
<1>2. UNCHANGED <<kind, disk, ops, acked>> /\ turn' = NoTurn
  BY DEF Load, Restart
<1>3. UpdatesCounted' /\ AcknowledgedIsDurable'
  BY <1>1, <1>2, NoTurnFields DEF UpdatesCounted, AcknowledgedIsDurable
<1>4. CASE Load
  <2>1. queue' = queue /\ ~cache.loaded
    BY <1>4 DEF Load
  <2>2. \/ cache' = cache
        \/ /\ cache' \in Cached /\ cache'.loaded
           /\ cache'.updates = disk.updates /\ cache'.set = disk.set
    <3>1. disk.updates \in Nat /\ disk.set \in Nat
      BY <1>1, Numbers
    <3>2. \/ cache' = cache
          \/ cache' = [loaded |-> TRUE, updates |-> disk.updates, set |-> disk.set]
      BY <1>4, Zenon DEF Load
    <3>3. CASE cache' = [loaded |-> TRUE, updates |-> disk.updates, set |-> disk.set]
      BY <3>1, <3>3 DEF Cached
    <3> QED
      BY <3>2, <3>3
  <2>3. ShapeInv' /\ FileBehind'
    BY <1>1, <1>2, <2>1, <2>2, Numbers, NoTurnFields DEF ShapeInv, FileBehind
  <2>4. GlobalSetsAhead'
    BY <1>1, <1>2, <2>1, <2>2, NoTurnFields DEF GlobalSetsAhead
  <2>5. RunSetsCached'
    BY <1>1, <1>2, <2>1, <2>2, NoTurnFields DEF RunSetsCached
  <2> QED
    BY <1>3, <2>3, <2>4, <2>5 DEF StateInv
<1>5. CASE Restart
  <2>1. /\ queue' = <<>> /\ cache' \in Cached /\ cache'.set = 0 /\ ~cache'.loaded
    BY <1>5 DEF Restart, Cached
  <2>2. queue' \in Seq(Queued) /\ Len(queue') = 0 /\ 1..Len(queue') = {}
    BY <2>1
  <2>3. ShapeInv' /\ FileBehind'
    BY <1>1, <1>2, <2>1, <2>2, Numbers, NoTurnFields DEF ShapeInv, FileBehind
  <2>4. RunSetsCached' /\ GlobalSetsAhead'
    BY <1>1, <1>2, <2>1, <2>2, NoTurnFields DEF RunSetsCached, GlobalSetsAhead
  <2> QED
    BY <1>3, <2>3, <2>4 DEF StateInv
<1> QED
  BY <1>4, <1>5

\* Every step of the clients, the queue, the file and the process keeps cache,
\* file and acknowledgements in order.
THEOREM StateInductive == StateInv /\ [SSNext]_ssVars => StateInv'
<1> SUFFICES ASSUME StateInv, [SSNext]_ssVars
             PROVE  StateInv'
  OBVIOUS
<1>1. CASE UNCHANGED ssVars
  BY <1>1 DEF ssVars, StateInv, ShapeInv, FileBehind, UpdatesCounted, RunSetsCached,
              GlobalSetsAhead, AcknowledgedIsDurable
<1>2. CASE SSNext
  BY <1>2, CallKeeps, TurnKeeps, MutateKeeps, WriteKeeps, RestartKeeps DEF SSNext
<1> QED
  BY <1>1, <1>2

\* What a client was told is stored is on disk, whatever fails or dies later.
THEOREM AcknowledgedStays == SSSpec => []AcknowledgedIsDurable
<1>1. SSInit => StateInv
  BY DEF SSInit, StateInv, ShapeInv, FileBehind, UpdatesCounted, RunSetsCached,
         GlobalSetsAhead, AcknowledgedIsDurable, Stored, Cached, NoTurn
<1>2. StateInv => AcknowledgedIsDurable
  BY DEF StateInv
<1> QED
  BY <1>1, <1>2, StateInductive, PTL DEF SSSpec
=============================================================================
