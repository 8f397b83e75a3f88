-------------------------- MODULE ComponentProofs --------------------------
(***************************************************************************)
(* The components that share no state with each other: what each keeps,    *)
(* whatever its constants.  Every part names what the component must keep  *)
(* besides the property, shows that each action keeps it, and ends in the  *)
(* theorem.                                                                *)
(***************************************************************************)
EXTENDS InteractiveSession, WorkingAgent, StoryFlow, Packages, Delegate, TrackResume, SubPrompts,
        RunFiles, SequenceTheorems, FiniteSetTheorems, WellFoundedInduction, TLAPS

(***************************************************************************)
(* TrackResume: how often the last step of a branch was done.              *)
(***************************************************************************)
BranchStatus == {"none", "queued", "running", "split", "waiting", "done", "failed", "cancelled"}
SchedulerRecord ==
    [on : BOOLEAN, status : [Branch -> BranchStatus], queue : SUBSET Branch, busy : SUBSET Branch,
     node : [Branch -> 0 .. 2], did : SUBSET Branch, wait : SUBSET Branch, resumes : SUBSET Branch,
     terminal : {"none", "waiting", "failed", "cancelled"}]
DiskRecord == [status : [Branch -> BranchStatus], wait : SUBSET Branch]
ResumeTypes ==
    /\ track \in TrackConf /\ rt \in SchedulerRecord /\ records \in DiskRecord
    /\ tally \in [finished : [Candidate -> Nat], excused : [Candidate -> Nat], sessions : Nat, crashes : Nat]

\* A branch that runs has its own node, and its record says that it runs.
Scheduled(b) ==
    /\ b \in rt.queue \cup rt.busy => rt.node[b] = OwnNode(b)
    /\ ~(b \in rt.queue /\ b \in rt.busy) /\ (b \in rt.did => b \in rt.busy)
    /\ b \in rt.busy => rt.status[b] \in {"running", "cancelled"}
    /\ b \in rt.busy /\ rt.status[b] = "running" => records.status[b] = "running"

\* A branch that is yet to do its last step, or that a retry may take up, did it no
\* more often than it is excused for.
Excused(b) == tally.finished[OwnNode(b)] <= tally.excused[OwnNode(b)]
Retried(status) == status \in {"failed", "waiting", "cancelled"}
ToDo(b) ==
    \/ b \in rt.queue \/ (b \in rt.busy /\ b \notin rt.did)
    \/ Retried(rt.status[b]) \/ Retried(records.status[b])

\* The root of an array of branches has no record.
Rootless == track.shape = "array" => rt.status["root"] = "none" /\ records.status["root"] = "none"

ResumeInv ==
    /\ ResumeTypes /\ Rootless /\ rt.busy \subseteq Child
    /\ \A b \in Child : Scheduled(b) /\ (ToDo(b) => Excused(b))
    /\ \A c \in Candidate : tally.finished[c] <= 1 + tally.excused[c]

Tally == [finished : [Candidate -> Nat], excused : [Candidate -> Nat], sessions : Nat, crashes : Nat]

LEMMA OwnNodes ==
    /\ \A b \in Child : OwnNode(b) \in Candidate
    /\ \A b, c \in Child : OwnNode(b) = OwnNode(c) => b = c
    /\ \A c \in Candidate : \E b \in Child : OwnNode(b) = c
    /\ Child \subseteq Branch
BY DEF OwnNode, Candidate, Child, Branch

\* An excuse is worth one more time, to the branches it names.
LEMMA ExcuseCounts ==
    ASSUME NEW count \in Tally, NEW bs
    PROVE  /\ Excuse(count, bs) \in Tally /\ Excuse(count, bs).finished = count.finished
           /\ \A c \in Candidate : Excuse(count, bs).excused[c] >= count.excused[c]
           /\ \A b \in bs : b \in Child /\ count.finished[OwnNode(b)] <= 1 + count.excused[OwnNode(b)]
                            => count.finished[OwnNode(b)] <= Excuse(count, bs).excused[OwnNode(b)]
<1>1. count.finished \in [Candidate -> Nat] /\ count.excused \in [Candidate -> Nat]
  BY DEF Tally
<1>2. PICK new : new = [c \in Candidate |-> IF \E b \in bs : OwnNode(b) = c /\ count.finished[c] > count.excused[c]
                                          THEN count.excused[c] + 1 ELSE count.excused[c]]
  OBVIOUS
<1>3. Excuse(count, bs) = [count EXCEPT !.excused = new]
  BY <1>2, Zenon DEF Excuse
<1>4. new \in [Candidate -> Nat] /\ \A c \in Candidate : new[c] >= count.excused[c]
  BY <1>1, <1>2
<1>5. \A b \in bs : OwnNode(b) \in Candidate /\ count.finished[OwnNode(b)] > count.excused[OwnNode(b)]
                   => new[OwnNode(b)] = count.excused[OwnNode(b)] + 1
  BY <1>2
<1>6. \A b \in bs : b \in Child /\ count.finished[OwnNode(b)] <= 1 + count.excused[OwnNode(b)]
                   => count.finished[OwnNode(b)] <= new[OwnNode(b)]
  BY <1>1, <1>4, <1>5, OwnNodes
<1>7. /\ Excuse(count, bs).excused = new /\ Excuse(count, bs).finished = count.finished
      /\ Excuse(count, bs) \in Tally
  BY <1>3, <1>4 DEF Tally
<1> QED
  BY <1>4, <1>6, <1>7

WritesOnly(new, r, bs) ==
    /\ new \in DiskRecord
    /\ \A b \in Branch : new.status[b] = IF b \in bs THEN r.status[b] ELSE records.status[b]
LEMMA PersistedRecords ==
    ASSUME records \in DiskRecord, NEW r \in SchedulerRecord, NEW bs
    PROVE  WritesOnly(Persisted(r, bs), r, bs)
<1>1. records.status \in [Branch -> BranchStatus] /\ records.wait \in SUBSET Branch
  BY DEF DiskRecord
<1>2. r.status \in [Branch -> BranchStatus] /\ r.wait \in SUBSET Branch
  BY DEF SchedulerRecord
<1> QED
  BY <1>1, <1>2 DEF Persisted, DiskRecord, WritesOnly

\* What the result of a branch makes of the track: its branches end or stay as they are.
Terminalized(new, r, kind) ==
    /\ new \in SchedulerRecord /\ new.busy = r.busy /\ new.did = r.did /\ new.node = r.node
    /\ new.queue \subseteq r.queue /\ (kind = "waiting" => new.status = r.status)
    /\ \A c \in Branch : \/ new.status[c] = r.status[c]
                         \/ (new.status[c] = "cancelled" /\ r.status[c] \notin {"none", "done"})
LEMMA TerminalTrack ==
    ASSUME NEW r \in SchedulerRecord, NEW b \in Branch, NEW kind \in {"waiting", "failed", "cancelled"}
    PROVE  Terminalized(TrackTerminal(r, b, kind), r, kind)
<1>1. CASE r.terminal # "none"
  BY <1>1 DEF TrackTerminal, Terminalized
<1>2. CASE r.terminal = "none" /\ kind = "waiting"
  BY <1>2 DEF TrackTerminal, Terminalized, SchedulerRecord
<1>3. CASE r.terminal = "none" /\ kind # "waiting"
  <2>1. PICK new : new = [c \in Branch |-> IF c = b \/ TerminalBranch(r.status[c]) \/ r.status[c] = "none"
                                          THEN r.status[c] ELSE "cancelled"]
    OBVIOUS
  <2>2. TrackTerminal(r, b, kind) = [r EXCEPT !.terminal = kind, !.queue = {}, !.status = new]
    BY <1>3, <2>1, Zenon DEF TrackTerminal
  <2>3. r.status \in [Branch -> BranchStatus]
    BY DEF SchedulerRecord
  <2>4. /\ new \in [Branch -> BranchStatus]
        /\ \A c \in Branch : \/ new[c] = r.status[c]
                             \/ (new[c] = "cancelled" /\ r.status[c] \notin {"none", "done"})
    BY <2>1, <2>3 DEF BranchStatus, TerminalBranch
  <2>5. /\ TrackTerminal(r, b, kind) \in SchedulerRecord /\ TrackTerminal(r, b, kind).status = new
        /\ TrackTerminal(r, b, kind).busy = r.busy /\ TrackTerminal(r, b, kind).did = r.did
        /\ TrackTerminal(r, b, kind).node = r.node /\ TrackTerminal(r, b, kind).queue = {}
        /\ TrackTerminal(r, b, kind).terminal = kind
    BY <1>3, <2>2, <2>4 DEF SchedulerRecord
  <2> QED
    BY <1>3, <2>4, <2>5 DEF Terminalized
<1> QED
  BY <1>1, <1>2, <1>3

\* The node a branch is requeued with is the one it was split off with.
LEMMA RequeuedWithOwnNode ==
    ASSUME track \in TrackConf, track.shape # "parallelPost", NEW b \in Child, RequeueNode(b) # NoNode
    PROVE  RequeueNode(b) = OwnNode(b)
<1>1. track.shape \in {"array", "parallel", "parallelPost", "step"}
  BY TrackAssumption
<1>2. CASE track.shape = "array"
  <2>1. BranchList = <<"b1", "b2">>
    BY <1>2 DEF BranchList
  <2>2. /\ 1 \in DOMAIN BranchList /\ 2 \in DOMAIN BranchList
        /\ \A i \in DOMAIN BranchList : (BranchList[i] = "b1" <=> i = 1) /\ (BranchList[i] = "b2" <=> i = 2)
    BY <2>1
  <2>3. ListIndex("b1") = 1 /\ ListIndex("b2") = 2
    BY <2>2 DEF ListIndex
  <2> QED
    BY <1>2, <2>3 DEF RequeueNode, OwnNode, Child
<1>3. CASE track.shape # "array"
  <2>1. BranchList = <<"root", "b1", "b2">>
    BY <1>3 DEF BranchList
  <2>2. /\ 2 \in DOMAIN BranchList /\ 3 \in DOMAIN BranchList
        /\ \A i \in DOMAIN BranchList : (BranchList[i] = "b1" <=> i = 2) /\ (BranchList[i] = "b2" <=> i = 3)
    BY <2>1
  <2>3. ListIndex("b1") = 2 /\ ListIndex("b2") = 3
    BY <2>2 DEF ListIndex
  <2>4. CASE track.shape = "step"
    BY <2>3, <2>4 DEF RequeueNode, NoNode, Child
  <2>5. CASE track.shape # "step" /\ track.ids
    BY <2>5 DEF RequeueNode
  <2>6. CASE track.shape = "parallel" /\ ~track.ids
    <3>1. {i \in 1 .. 2 : BranchList[i] \in Child} = {2} /\ {i \in 1 .. 3 : BranchList[i] \in Child} = {2} \cup {3}
      BY <2>1 DEF Child
    <3>2. Cardinality({2}) = 1 /\ Cardinality({2} \cup {3}) = 2
      <4>1. IsFiniteSet({2}) /\ Cardinality({2}) = 1
        BY FS_Singleton
      <4>2. Cardinality({2} \cup {3}) = Cardinality({2}) + 1
        BY <4>1, FS_AddElement
      <4> QED
        BY <4>1, <4>2
    <3>3. Cardinality({i \in 1 .. 2 : BranchList[i] \in Child}) = 1
          /\ Cardinality({i \in 1 .. 3 : BranchList[i] \in Child}) = 2
      BY <3>1, <3>2
    <3>4. RequeueNode(b) = Cardinality({i \in 1 .. ListIndex(b) : BranchList[i] \in Child})
      BY <2>6 DEF RequeueNode
    <3>5. CASE b = "b1"
      BY <2>3, <3>3, <3>4, <3>5 DEF OwnNode
    <3>6. CASE b = "b2"
      BY <2>3, <3>3, <3>4, <3>6 DEF OwnNode
    <3> QED
      BY <3>5, <3>6 DEF Child
  <2> QED
    BY <1>1, <1>3, <2>4, <2>5, <2>6
<1> QED
  BY <1>2, <1>3

LEMMA ResumeFacts ==
    ASSUME ResumeInv
    PROVE  /\ track \in TrackConf /\ rt \in SchedulerRecord /\ records \in DiskRecord /\ tally \in Tally
           /\ rt.status \in [Branch -> BranchStatus] /\ rt.node \in [Branch -> 0 .. 2]
           /\ tally.finished \in [Candidate -> Nat] /\ tally.excused \in [Candidate -> Nat]
           /\ records.status \in [Branch -> BranchStatus]
           /\ rt.busy \subseteq Child /\ rt.queue \subseteq Branch /\ rt.did \subseteq Branch
BY DEF ResumeInv, ResumeTypes, SchedulerRecord, DiskRecord, Tally

\* The steps that count nothing.
LEMMA CountKeepsExcuses ==
    ASSUME ResumeInv, tally' \in Tally, tally'.finished = tally.finished,
           \A c \in Candidate : tally'.excused[c] >= tally.excused[c]
    PROVE  /\ \A c \in Candidate : tally'.finished[c] <= 1 + tally'.excused[c]
           /\ \A b \in Child : Excused(b) => Excused(b)'
<1>1. /\ tally.finished \in [Candidate -> Nat] /\ tally.excused \in [Candidate -> Nat]
      /\ tally'.excused \in [Candidate -> Nat]
      /\ \A c \in Candidate : tally.finished[c] <= 1 + tally.excused[c]
  BY ResumeFacts DEF ResumeInv, Tally
<1> QED
  BY <1>1, OwnNodes DEF Excused

LEMMA StartKeepsResume ==
    ASSUME ResumeInv, NEW b \in Child, StartBranch(b)
    PROVE  ResumeInv'
<1>1. /\ rt \in SchedulerRecord /\ records \in DiskRecord /\ rt.status \in [Branch -> BranchStatus]
      /\ rt.busy \subseteq Child /\ b \in Branch /\ b \in rt.queue
  BY ResumeFacts, OwnNodes DEF StartBranch
<1>2. /\ rt' = [rt EXCEPT !.queue = @ \ {b}, !.busy = @ \union {b}, !.status[b] = "running"]
      /\ records' = Persisted(rt', {b}) /\ UNCHANGED <<track, tally>>
  BY DEF StartBranch
<1>3. PICK status : status = [rt.status EXCEPT ![b] = "running"]
  OBVIOUS
<1>4. status \in [Branch -> BranchStatus] /\ \A c \in Branch : status[c] = IF c = b THEN "running" ELSE rt.status[c]
  BY <1>1, <1>3 DEF BranchStatus
<1>5. rt' = [rt EXCEPT !.queue = rt.queue \ {b}, !.busy = rt.busy \union {b}, !.status = status]
  BY <1>1, <1>2, <1>3 DEF SchedulerRecord
<1>6. /\ rt' \in SchedulerRecord /\ rt'.queue = rt.queue \ {b} /\ rt'.busy = rt.busy \union {b}
      /\ rt'.status = status /\ rt'.did = rt.did /\ rt'.node = rt.node
  BY <1>1, <1>4, <1>5 DEF SchedulerRecord
<1>7. records' \in DiskRecord
      /\ \A c \in Branch : records'.status[c] = IF c = b THEN status[c] ELSE records.status[c]
  <2>1. PICK r \in SchedulerRecord : r = rt'
    BY <1>6
  <2>2. WritesOnly(records', r, {b})
    BY <1>1, <1>2, <2>1, PersistedRecords
  <2> QED
    BY <1>6, <2>1, <2>2 DEF WritesOnly
<1>8. ResumeTypes' /\ Rootless' /\ rt'.busy \subseteq Child
  BY <1>1, <1>2, <1>4, <1>6, <1>7 DEF ResumeInv, ResumeTypes, Rootless, Child, Branch
<1>9. ASSUME NEW c \in Child PROVE Scheduled(c)' /\ (ToDo(c)' => Excused(c)')
  <2>1. Scheduled(c) /\ (ToDo(c) => Excused(c)) /\ c \in Branch
    BY OwnNodes DEF ResumeInv
  <2>2. CASE c = b
    BY <1>1, <1>2, <1>4, <1>6, <1>7, <2>1, <2>2 DEF Scheduled, ToDo, Excused
  <2>3. CASE c # b
    BY <1>1, <1>2, <1>4, <1>6, <1>7, <2>1, <2>3 DEF Scheduled, ToDo, Excused
  <2> QED
    BY <2>2, <2>3
<1> QED
  BY <1>2, <1>8, <1>9 DEF ResumeInv

LEMMA QuietKeepsResume ==
    ASSUME ResumeInv, UNCHANGED <<track, records>>, rt' \in SchedulerRecord,
           rt'.queue = rt.queue, rt'.busy = rt.busy, rt'.did = rt.did, rt'.node = rt.node, rt'.status = rt.status,
           tally' \in Tally, tally'.finished = tally.finished,
           \A c \in Candidate : tally'.excused[c] >= tally.excused[c]
    PROVE  ResumeInv'
<1>1. /\ \A c \in Candidate : tally'.finished[c] <= 1 + tally'.excused[c]
      /\ \A c \in Child : Excused(c) => Excused(c)'
  BY CountKeepsExcuses
<1>2. ResumeTypes' /\ Rootless' /\ rt'.busy \subseteq Child
  BY DEF ResumeInv, ResumeTypes, Rootless, Tally
<1>3. ASSUME NEW c \in Child PROVE Scheduled(c)' /\ (ToDo(c)' => Excused(c)')
  <2>1. Scheduled(c) /\ (ToDo(c) => Excused(c))
    BY DEF ResumeInv
  <2> QED
    BY <1>1, <2>1 DEF Scheduled, ToDo
<1> QED
  BY <1>1, <1>2, <1>3 DEF ResumeInv

LEMMA TallyStays ==
    ASSUME ResumeInv, UNCHANGED tally
    PROVE  /\ tally' \in Tally /\ tally'.finished = tally.finished
           /\ \A c \in Candidate : tally'.excused[c] >= tally.excused[c]
<1>1. tally \in Tally /\ tally.excused \in [Candidate -> Nat]
  BY ResumeFacts
<1> QED
  BY <1>1

LEMMA PassKeepsResume ==
    ASSUME ResumeInv, NEW b \in Child, PassWait(b)
    PROVE  ResumeInv'
<1>1. rt \in SchedulerRecord /\ rt' = [rt EXCEPT !.resumes = @ \ {b}] /\ UNCHANGED <<track, records, tally>>
  BY ResumeFacts DEF PassWait
<1>2. /\ rt' \in SchedulerRecord /\ rt'.queue = rt.queue /\ rt'.busy = rt.busy /\ rt'.did = rt.did
      /\ rt'.node = rt.node /\ rt'.status = rt.status
  BY <1>1 DEF SchedulerRecord
<1>3. /\ tally' \in Tally /\ tally'.finished = tally.finished
      /\ \A c \in Candidate : tally'.excused[c] >= tally.excused[c]
  BY <1>1, TallyStays
<1> QED
  BY <1>1, <1>2, <1>3, QuietKeepsResume

\* The last step is done: a branch the track has cancelled is excused at once.
LEMMA FinishKeepsResume ==
    ASSUME ResumeInv, NEW b \in Child, FinishBranch(b)
    PROVE  ResumeInv'
<1>1. /\ rt \in SchedulerRecord /\ b \in Branch /\ b \in rt.busy /\ b \notin rt.did
      /\ tally \in Tally /\ tally.finished \in [Candidate -> Nat] /\ tally.excused \in [Candidate -> Nat]
  BY ResumeFacts, OwnNodes DEF FinishBranch
<1>2. Scheduled(b) /\ Excused(b) /\ rt.node[b] = OwnNode(b) /\ OwnNode(b) \in Candidate
  BY <1>1, OwnNodes DEF ResumeInv, ToDo, Scheduled
<1>3. PICK finished : finished = [tally.finished EXCEPT ![OwnNode(b)] = @ + 1]
  OBVIOUS
<1>4. /\ finished \in [Candidate -> Nat] /\ finished[OwnNode(b)] = tally.finished[OwnNode(b)] + 1
      /\ \A c \in Candidate : c # OwnNode(b) => finished[c] = tally.finished[c]
  BY <1>1, <1>2, <1>3
<1>5. PICK counted : counted = [tally EXCEPT !.finished = finished]
  OBVIOUS
<1>6. counted \in Tally /\ counted.finished = finished /\ counted.excused = tally.excused
  BY <1>1, <1>4, <1>5 DEF Tally
<1>7. PICK bs : bs = (IF rt.status[b] = "cancelled" THEN {b} ELSE {}) /\ tally' = Excuse(counted, bs)
  BY <1>2, <1>3, <1>5 DEF FinishBranch
<1>8. \A c \in Candidate : finished[c] <= 1 + tally.excused[c]
  BY <1>1, <1>2, <1>4 DEF ResumeInv, Excused
<1>9. /\ tally' \in Tally /\ tally'.finished = finished
      /\ \A c \in Candidate : tally'.excused[c] >= tally.excused[c]
      /\ rt.status[b] = "cancelled" => finished[OwnNode(b)] <= tally'.excused[OwnNode(b)]
  BY <1>2, <1>6, <1>7, <1>8, ExcuseCounts
<1>10. tally'.excused \in [Candidate -> Nat]
  BY <1>9 DEF Tally
<1>11. /\ rt' \in SchedulerRecord /\ rt'.queue = rt.queue /\ rt'.busy = rt.busy
       /\ rt'.did = rt.did \cup {b} /\ rt'.node = rt.node /\ rt'.status = rt.status
  BY <1>1 DEF FinishBranch, SchedulerRecord
<1>12. UNCHANGED <<track, records>>
  BY DEF FinishBranch
<1>13. ResumeTypes' /\ Rootless' /\ rt'.busy \subseteq Child
  BY <1>9, <1>11, <1>12 DEF ResumeInv, ResumeTypes, Rootless, Tally
<1>14. \A c \in Candidate : tally'.finished[c] <= 1 + tally'.excused[c]
  BY <1>1, <1>4, <1>8, <1>9, <1>10
<1>15. ASSUME NEW c \in Child PROVE Scheduled(c)' /\ (ToDo(c)' => Excused(c)')
  <2>1. Scheduled(c) /\ (ToDo(c) => Excused(c))
    BY DEF ResumeInv
  <2>2. Scheduled(c)'
    BY <1>1, <1>11, <1>12, <2>1 DEF Scheduled
  <2>3. CASE c = b
    <3>1. ToDo(c)' => rt.status[b] = "cancelled"
      BY <1>1, <1>2, <1>11, <1>12, <2>3 DEF ToDo, Scheduled, Retried
    <3> QED
      BY <1>9, <2>2, <2>3, <3>1 DEF Excused
  <2>4. CASE c # b
    <3>1. ToDo(c)' => ToDo(c)
      BY <1>11, <1>12, <2>4 DEF ToDo
    <3>2. OwnNode(c) \in Candidate /\ OwnNode(c) # OwnNode(b)
      BY <2>4, OwnNodes
    <3>3. Excused(c) => Excused(c)'
      BY <1>1, <1>4, <1>9, <1>10, <3>2 DEF Excused
    <3> QED
      BY <2>1, <2>2, <3>1, <3>3
  <2> QED
    BY <2>3, <2>4
<1> QED
  BY <1>13, <1>14, <1>15 DEF ResumeInv
\* What is on disk is the record the step leaves.
LEMMA WrittenRecords ==
    ASSUME ResumeInv, rt' \in SchedulerRecord, NEW bs, records' = Persisted(rt', bs)
    PROVE  /\ records' \in DiskRecord
           /\ \A c \in Branch : records'.status[c] = IF c \in bs THEN rt'.status[c] ELSE records.status[c]
<1>1. PICK r \in SchedulerRecord : r = rt'
  OBVIOUS
<1>2. records \in DiskRecord
  BY ResumeFacts
<1>3. WritesOnly(records', r, bs)
  BY <1>1, <1>2, PersistedRecords
<1> QED
  BY <1>1, <1>3 DEF WritesOnly

\* A branch leaves the workers: it and the branches cancelled with it are excused.
LEMMA LeaveKeepsResume ==
    ASSUME ResumeInv, NEW b \in Child, b \in rt.busy, rt' \in SchedulerRecord,
           NEW bs, b \in bs, records' = Persisted(rt', bs), UNCHANGED track,
           tally' \in Tally, tally'.finished = tally.finished,
           \A c \in Candidate : tally'.excused[c] >= tally.excused[c],
           rt'.busy = rt.busy \ {b}, rt'.did = rt.did \ {b}, rt'.node = rt.node, rt'.queue \subseteq rt.queue,
           \A c \in Branch : c # b /\ rt'.status[c] # rt.status[c]
                             => rt'.status[c] = "cancelled" /\ rt.status[c] # "none",
           \A c \in Child : Retried(rt'.status[c]) => Retried(rt.status[c]) \/ Excused(c)'
    PROVE  ResumeInv'
<1>1. /\ rt \in SchedulerRecord /\ records \in DiskRecord /\ rt.busy \subseteq Child
      /\ b \in Branch /\ b # "root" /\ "root" \in Branch
  BY ResumeFacts, OwnNodes DEF Child, Branch
<1>2. /\ records' \in DiskRecord
      /\ \A c \in Branch : records'.status[c] = IF c \in bs THEN rt'.status[c] ELSE records.status[c]
  BY WrittenRecords
<1>3. /\ \A c \in Candidate : tally'.finished[c] <= 1 + tally'.excused[c]
      /\ \A c \in Child : Excused(c) => Excused(c)'
  BY CountKeepsExcuses
<1>4. ResumeTypes' /\ rt'.busy \subseteq Child
  BY <1>1, <1>2 DEF ResumeInv, ResumeTypes, Tally
<1>5. Rootless'
  BY <1>1, <1>2 DEF ResumeInv, Rootless
<1>6. ASSUME NEW c \in Child PROVE Scheduled(c)' /\ (ToDo(c)' => Excused(c)')
  <2>1. Scheduled(c) /\ (ToDo(c) => Excused(c)) /\ c \in Branch
    BY OwnNodes DEF ResumeInv
  <2>2. Scheduled(c)'
    BY <1>1, <1>2, <2>1 DEF Scheduled
  <2>3. ToDo(c)' => ToDo(c) \/ Excused(c)'
    BY <1>2, <2>1 DEF ToDo
  <2> QED
    BY <1>3, <2>1, <2>2, <2>3
<1> QED
  BY <1>3, <1>4, <1>5, <1>6 DEF ResumeInv

LEMMA ParkKeepsResume ==
    ASSUME ResumeInv, NEW b \in Child, ParkBranch(b)
    PROVE  ResumeInv'
<1>1. /\ rt \in SchedulerRecord /\ b \in Branch /\ b \in rt.busy /\ b \notin rt.did
      /\ tally \in Tally /\ rt.status \in [Branch -> BranchStatus] /\ rt.did \subseteq Branch
      /\ tally.excused \in [Candidate -> Nat]
  BY ResumeFacts, OwnNodes DEF ParkBranch
<1>2. Excused(b) /\ UNCHANGED <<track, tally>> /\ records' = Persisted(rt', {b})
  BY <1>1 DEF ResumeInv, ToDo, ParkBranch
<1>3. PICK gone : gone = [rt EXCEPT !.busy = @ \ {b}]
  OBVIOUS
<1>4. /\ gone \in SchedulerRecord /\ gone.busy = rt.busy \ {b} /\ gone.did = rt.did /\ gone.node = rt.node
      /\ gone.queue = rt.queue /\ gone.status = rt.status /\ gone.wait = rt.wait
  BY <1>1, <1>3 DEF SchedulerRecord
<1>5. PICK new : new = [rt.status EXCEPT ![b] = "waiting"]
  OBVIOUS
<1>6. new \in [Branch -> BranchStatus] /\ \A c \in Branch : c # b => new[c] = rt.status[c]
  BY <1>1, <1>5 DEF BranchStatus
<1>7. PICK parked : parked = [gone EXCEPT !.wait = gone.wait \union {b}, !.status = new]
  OBVIOUS
<1>8. /\ parked \in SchedulerRecord /\ parked.busy = rt.busy \ {b} /\ parked.did = rt.did
      /\ parked.node = rt.node /\ parked.queue = rt.queue /\ parked.status = new
  BY <1>1, <1>4, <1>6, <1>7 DEF SchedulerRecord
<1>9. parked = [gone EXCEPT !.wait = @ \union {b}, !.status[b] = "waiting"]
  BY <1>4, <1>5, <1>7 DEF SchedulerRecord
<1>10. rt' = gone \/ rt' = TrackTerminal(parked, b, "waiting")
  BY <1>3, <1>9 DEF ParkBranch
<1>11. /\ rt' \in SchedulerRecord /\ rt'.busy = rt.busy \ {b} /\ rt'.did = rt.did /\ rt'.node = rt.node
       /\ rt'.queue \subseteq rt.queue /\ \A c \in Branch : c # b => rt'.status[c] = rt.status[c]
  <2>1. CASE rt' = gone
    BY <1>4, <2>1
  <2>2. CASE rt' = TrackTerminal(parked, b, "waiting")
    <3>1. Terminalized(rt', parked, "waiting")
      BY <1>1, <1>8, <2>2, TerminalTrack
    <3> QED
      BY <1>6, <1>8, <3>1 DEF Terminalized
  <2> QED
    BY <1>10, <2>1, <2>2
<1>12. rt'.did = rt.did \ {b}
  BY <1>1, <1>11
<1>13. \A c \in Child : Retried(rt'.status[c]) => Retried(rt.status[c]) \/ Excused(c)'
  BY <1>2, <1>11, OwnNodes DEF Excused
<1>14. \A c \in Candidate : tally'.excused[c] >= tally.excused[c]
  BY <1>1, <1>2
<1> QED
  BY <1>1, <1>2, <1>11, <1>12, <1>13, <1>14, LeaveKeepsResume

LEMMA SettleKeepsResume ==
    ASSUME ResumeInv, NEW b \in Child, SettleBranch(b)
    PROVE  ResumeInv'
<1>1. /\ rt \in SchedulerRecord /\ b \in Branch /\ b \in rt.busy /\ tally \in Tally
      /\ rt.status \in [Branch -> BranchStatus] /\ tally.finished \in [Candidate -> Nat]
      /\ \A c \in Candidate : tally.finished[c] <= 1 + tally.excused[c]
  BY ResumeFacts, OwnNodes DEF SettleBranch, ResumeInv
<1>2. PICK result \in {"done", "failed", "cancelled"}, open \in BOOLEAN :
          /\ open = (rt.terminal \in {"none", "waiting"})
          /\ result = "done" <=> b \in rt.did
          /\ LET settled == [rt EXCEPT !.busy = @ \ {b}, !.did = @ \ {b}, !.status[b] = IF open THEN result ELSE @]
             IN /\ rt' = IF open /\ result # "done" THEN TrackTerminal(settled, b, result) ELSE settled
                /\ records' = Persisted(rt', IF rt'.terminal = rt.terminal THEN {b} ELSE Branch)
                /\ tally' = Excuse(tally, {c \in Child : /\ rt.status[c] \notin {"cancelled", "done"}
                                                         /\ rt'.status[c] = "cancelled"})
  <2>1. (rt.terminal \in {"none", "waiting"}) \in BOOLEAN
    OBVIOUS
  <2> QED
    BY <2>1, Zenon DEF SettleBranch
<1>a. PICK settled :
          settled = [rt EXCEPT !.busy = @ \ {b}, !.did = @ \ {b}, !.status[b] = IF open THEN result ELSE @]
  OBVIOUS
<1>b. PICK bs : bs = IF rt'.terminal = rt.terminal THEN {b} ELSE Branch
  OBVIOUS
<1>c. PICK cancelled :
          cancelled = {c \in Child : rt.status[c] \notin {"cancelled", "done"} /\ rt'.status[c] = "cancelled"}
  OBVIOUS
<1>d. /\ rt' = IF open /\ result # "done" THEN TrackTerminal(settled, b, result) ELSE settled
      /\ records' = Persisted(rt', bs) /\ tally' = Excuse(tally, cancelled)
  <2>1. cancelled = {c \in Child : /\ rt.status[c] \notin {"cancelled", "done"}
                                   /\ rt'.status[c] = "cancelled"}
    BY <1>c
  <2>2. rt' = IF open /\ result # "done" THEN TrackTerminal(settled, b, result) ELSE settled
    BY <1>2, <1>a
  <2>3. records' = Persisted(rt', bs)
    BY <1>2, <1>b, Zenon
  <2>4. tally' = Excuse(tally, cancelled)
    BY <1>2, <2>1, Zenon
  <2> QED
    BY <2>2, <2>3, <2>4
<1>3. PICK new : new = [rt.status EXCEPT ![b] = IF open THEN result ELSE @]
  OBVIOUS
<1>4. /\ new \in [Branch -> BranchStatus] /\ \A c \in Branch : c # b => new[c] = rt.status[c]
      /\ new[b] = IF open THEN result ELSE rt.status[b]
  BY <1>1, <1>2, <1>3 DEF BranchStatus
<1>5. settled = [rt EXCEPT !.busy = rt.busy \ {b}, !.did = rt.did \ {b}, !.status = new]
  BY <1>1, <1>3, <1>a DEF SchedulerRecord
<1>6. /\ settled \in SchedulerRecord /\ settled.busy = rt.busy \ {b} /\ settled.did = rt.did \ {b}
      /\ settled.node = rt.node /\ settled.queue = rt.queue /\ settled.status = new
  BY <1>1, <1>4, <1>5 DEF SchedulerRecord
<1>7. /\ rt' \in SchedulerRecord /\ rt'.busy = rt.busy \ {b} /\ rt'.did = rt.did \ {b} /\ rt'.node = rt.node
      /\ rt'.queue \subseteq rt.queue
      /\ \A c \in Branch : rt'.status[c] = new[c] \/ (rt'.status[c] = "cancelled" /\ new[c] \notin {"none", "done"})
  <2>1. CASE open /\ result # "done"
    <3>1. rt' = TrackTerminal(settled, b, result) /\ result \in {"waiting", "failed", "cancelled"}
      BY <1>2, <1>d, <2>1
    <3>2. PICK gone \in SchedulerRecord, kind \in {"waiting", "failed", "cancelled"} :
              gone = settled /\ kind = result
      BY <1>6, <3>1
    <3> QED
      <4>1. Terminalized(rt', gone, kind)
        BY <1>1, <3>1, <3>2, TerminalTrack
      <4> QED
        BY <1>6, <3>2, <4>1 DEF Terminalized
  <2>2. CASE ~(open /\ result # "done")
    <3>1. rt' = settled
      BY <1>d, <2>2
    <3> QED
      BY <1>6, <3>1
  <2> QED
    BY <2>1, <2>2
<1>8. /\ tally' \in Tally /\ tally'.finished = tally.finished
      /\ \A c \in Candidate : tally'.excused[c] >= tally.excused[c]
      /\ \A c \in cancelled : tally.finished[OwnNode(c)] <= tally'.excused[OwnNode(c)]
  <2>1. \A c \in cancelled : c \in Child /\ OwnNode(c) \in Candidate
    BY <1>c, OwnNodes
  <2> QED
    BY <1>1, <1>d, <2>1, ExcuseCounts
<1>9. \A c \in Child : Retried(rt'.status[c]) => Retried(rt.status[c]) \/ Excused(c)'
  <2> SUFFICES ASSUME NEW c \in Child, Retried(rt'.status[c]), ~Retried(rt.status[c])
               PROVE  Excused(c)'
    OBVIOUS
  <2>1. c \in Branch
    BY OwnNodes
  <2>2. CASE c \in cancelled
    BY <1>8, <2>2 DEF Excused
  <2>3. CASE c \notin cancelled
    <3>1. rt'.status[c] # "cancelled" \/ rt.status[c] = "done"
      BY <1>c, <2>3 DEF Retried
    <3>2. c = b
      BY <1>4, <1>7, <2>1, <3>1 DEF Retried
    <3>3. open /\ result # "done"
      BY <1>2, <1>4, <1>7, <2>1, <3>2 DEF Retried
    <3>4. Excused(b)
      BY <1>1, <1>2, <3>3 DEF ResumeInv, ToDo
    <3>5. Excused(b) => Excused(b)'
      BY <1>8, CountKeepsExcuses
    <3> QED
      BY <3>2, <3>4, <3>5
  <2> QED
    BY <2>2, <2>3
<1>10. \A c \in Branch : c # b /\ rt'.status[c] # rt.status[c]
                         => rt'.status[c] = "cancelled" /\ rt.status[c] # "none"
  BY <1>4, <1>7
<1>11. b \in bs /\ UNCHANGED track
  BY <1>1, <1>b DEF SettleBranch
<1> QED
  BY <1>1, <1>d, <1>7, <1>8, <1>9, <1>10, <1>11, LeaveKeepsResume

\* No process drives the track: only what is on disk can be taken up.
LEMMA OffTrackIsIdle ==
    /\ OffTrack \in SchedulerRecord /\ OffTrack.queue = {} /\ OffTrack.busy = {} /\ OffTrack.did = {}
    /\ \A b \in Branch : OffTrack.status[b] = "none"
BY DEF OffTrack, SchedulerRecord, BranchStatus, NoNode

LEMMA OffKeepsResume ==
    ASSUME ResumeInv, rt' = OffTrack, UNCHANGED track, records' \in DiskRecord,
           tally' \in Tally, tally'.finished = tally.finished,
           \A c \in Candidate : tally'.excused[c] >= tally.excused[c],
           \A c \in Branch : records'.status[c] = records.status[c] \/ records'.status[c] = rt.status[c]
    PROVE  ResumeInv'
<1>1. /\ \A c \in Candidate : tally'.finished[c] <= 1 + tally'.excused[c]
      /\ \A c \in Child : Excused(c) => Excused(c)'
  BY CountKeepsExcuses
<1>2. ResumeTypes' /\ rt'.busy \subseteq Child
  BY OffTrackIsIdle DEF ResumeInv, ResumeTypes, Tally
<1>3. Rootless'
  BY OffTrackIsIdle DEF ResumeInv, Rootless, Branch
<1>4. ASSUME NEW c \in Child PROVE Scheduled(c)' /\ (ToDo(c)' => Excused(c)')
  <2>1. (ToDo(c) => Excused(c)) /\ c \in Branch
    BY OwnNodes DEF ResumeInv
  <2>2. Scheduled(c)'
    BY <2>1, OffTrackIsIdle DEF Scheduled
  <2>3. ToDo(c)' => ToDo(c)
    BY <2>1, OffTrackIsIdle DEF ToDo, Retried
  <2> QED
    BY <1>1, <2>1, <2>2, <2>3
<1> QED
  BY <1>1, <1>2, <1>3, <1>4 DEF ResumeInv

LEMMA ReturnKeepsResume ==
    ASSUME ResumeInv, ReturnTrack
    PROVE  ResumeInv'
<1>1. /\ rt \in SchedulerRecord /\ records \in DiskRecord /\ tally \in Tally
      /\ tally.excused \in [Candidate -> Nat] /\ rt' = OffTrack
      /\ records' = Persisted(rt, Branch) /\ UNCHANGED <<track, tally>>
  BY ResumeFacts DEF ReturnTrack
<1>2. WritesOnly(records', rt, Branch)
  BY <1>1, PersistedRecords
<1>3. \A c \in Candidate : tally'.excused[c] >= tally.excused[c]
  BY <1>1
<1>4. /\ records' \in DiskRecord
      /\ \A c \in Branch : records'.status[c] = records.status[c] \/ records'.status[c] = rt.status[c]
  BY <1>2 DEF WritesOnly
<1> QED
  BY <1>1, <1>3, <1>4, OffKeepsResume

LEMMA CrashKeepsResume ==
    ASSUME ResumeInv, CrashTrack
    PROVE  ResumeInv'
<1>1. /\ records \in DiskRecord /\ tally \in Tally /\ tally.excused \in [Candidate -> Nat] /\ rt' = OffTrack
      /\ tally' = [tally EXCEPT !.crashes = @ + 1] /\ UNCHANGED <<track, records>>
  BY ResumeFacts DEF CrashTrack
<1>2. tally.crashes + 1 \in Nat
  BY <1>1 DEF Tally
<1>3. tally' \in Tally /\ tally'.finished = tally.finished /\ tally'.excused = tally.excused
  BY <1>1, <1>2 DEF Tally
<1>4. \A c \in Candidate : tally'.excused[c] >= tally.excused[c]
  BY <1>1, <1>3
<1> QED
  BY <1>1, <1>3, <1>4, OffKeepsResume

\* What is requeued comes from the records, with the node it was split off with,
\* and all of it is excused.
LEMMA TakeUpKeepsResume ==
    ASSUME ResumeInv, NEW mode \in {"default", "failed-only", "wait-answered", "branch"},
           NEW name, mode = "branch" => name \in Child, NEW resumes, TakeUp(mode, name, resumes),
           UNCHANGED track, tally' \in Tally, tally'.finished = tally.finished,
           \A c \in Candidate : tally'.excused[c] >= tally.excused[c],
           mode = "branch" => Excused(name)'
    PROVE  ResumeInv'
<1>1. /\ rt \in SchedulerRecord /\ records \in DiskRecord /\ records.status \in [Branch -> BranchStatus]
      /\ records.wait \subseteq Branch /\ track \in TrackConf
  BY ResumeFacts DEF DiskRecord
<1>2. /\ \A c \in Candidate : tally'.finished[c] <= 1 + tally'.excused[c]
      /\ \A c \in Child : Excused(c) => Excused(c)'
  BY CountKeepsExcuses
<1>3. PICK selected : selected = SelectBranches(mode, name)
  OBVIOUS
<1>4. PICK queue : queue = Requeued(selected)
  OBVIOUS
<1>5. UNCHANGED records
  BY DEF TakeUp
<1>6. CASE RefusesPlan(selected)
  <2>1. UNCHANGED rt
    BY <1>3, <1>6 DEF TakeUp
  <2> QED
    BY <1>1, <1>5, <2>1, QuietKeepsResume
<1>7. CASE ~RefusesPlan(selected)
  <2>1. /\ track.shape # "parallelPost"
        /\ \A b \in queue : RequeueNode(b) # NoNode
    BY <1>4, <1>7 DEF RefusesPlan
  <2>2. /\ selected \subseteq Branch
        /\ \A b \in selected : Retried(records.status[b]) \/ (mode = "branch" /\ b = name)
    <3>1. CASE mode = "branch"
      BY <1>3, <3>1, OwnNodes DEF SelectBranches
    <3>2. CASE mode # "branch"
      BY <1>3, <3>2 DEF SelectBranches, Retried
    <3> QED
      BY <3>1, <3>2
  <2>3. queue \subseteq selected /\ (track.shape = "parallel" => "root" \notin queue)
    BY <1>4 DEF Requeued
  <2>4. \A b \in queue : b \in Branch /\ (Retried(records.status[b]) \/ (mode = "branch" /\ b = name))
    BY <2>2, <2>3
  <2>5. \A b \in queue : b \in Child => RequeueNode(b) = OwnNode(b)
    BY <1>1, <2>1, RequeuedWithOwnNode
  <2>6. ASSUME "root" \in queue PROVE OwnNode("root") \in 0 .. 2 /\ RequeueNode("root") \in 0 .. 2
    <3>1. track.shape \in {"array", "parallel", "parallelPost", "step"}
      BY <1>1, TrackAssumption
    <3>2. "root" \notin Child
      BY DEF Child
    <3>3. track.shape # "array"
      BY <2>4, <2>6, <3>2 DEF ResumeInv, Rootless, Retried
    <3>4. track.shape = "step" \/ track.shape = "parallel" \/ track.shape = "parallelPost"
      BY <3>1, <3>3
    <3>5. track.shape = "step"
      BY <2>1, <2>3, <2>6, <3>4
    <3>6. RequeueNode("root") \in 0 .. 2
      BY <3>5 DEF RequeueNode, NoNode
    <3> QED
      BY <3>6 DEF OwnNode
  <2>7. PICK node : node = [b \in Branch |-> IF b \notin queue THEN NoNode
                                             ELSE IF b \in resumes THEN OwnNode(b) ELSE RequeueNode(b)]
    OBVIOUS
  <2>8. node \in [Branch -> 0 .. 2] /\ \A b \in Child : b \in queue => node[b] = OwnNode(b)
    <3>1. \A b \in Child : b \in Branch /\ OwnNode(b) \in 0 .. 2
      BY OwnNodes DEF OwnNode
    <3>2. \A b \in Branch : b \in Child \/ b = "root"
      BY DEF Branch
    <3>3. ASSUME NEW b \in Branch PROVE node[b] \in 0 .. 2
      <4>1. CASE b \notin queue
        BY <2>7, <4>1 DEF NoNode
      <4>2. CASE b \in queue /\ b \in Child
        BY <2>5, <2>7, <3>1, <4>2
      <4>3. CASE b \in queue /\ b = "root"
        BY <2>6, <2>7, <4>3
      <4> QED
        BY <3>2, <4>1, <4>2, <4>3
    <3>4. \A b \in Child : b \in queue => node[b] = OwnNode(b)
      BY <2>5, <2>7, <3>1
    <3> QED
      BY <2>7, <3>3, <3>4
  <2>9. PICK status : status = [b \in Branch |-> IF b \in queue THEN "queued" ELSE records.status[b]]
    OBVIOUS
  <2>10. status \in [Branch -> BranchStatus]
    BY <1>1, <2>9 DEF BranchStatus
  <2>11. PICK wait : wait = IF mode = "wait-answered" THEN records.wait ELSE records.wait \ queue
    OBVIOUS
  <2>12. wait \subseteq Branch
    BY <1>1, <2>11
  <2>13. rt' = [OffTrack EXCEPT !.on = TRUE, !.queue = queue, !.resumes = resumes \intersect queue,
                                !.status = status, !.wait = wait, !.node = node]
    BY <1>3, <1>4, <1>7, <2>7, <2>9, <2>11, Zenon DEF TakeUp
  <2>14. /\ rt' \in SchedulerRecord /\ rt'.queue = queue /\ rt'.busy = {} /\ rt'.did = {}
         /\ rt'.status = status /\ rt'.node = node
    <3>1. queue \subseteq Branch /\ resumes \intersect queue \subseteq Branch
      BY <2>4
    <3> QED
      BY <2>8, <2>10, <2>12, <2>13, <3>1 DEF OffTrack, SchedulerRecord
  <2>15. ResumeTypes' /\ rt'.busy \subseteq Child
    BY <1>1, <1>5, <2>14 DEF ResumeInv, ResumeTypes, Tally
  <2>16. Rootless'
    <3>1. "root" \in Branch /\ "root" \notin Child
      BY DEF Branch, Child
    <3>2. track.shape = "array" => records.status["root"] = "none" /\ "root" \notin queue
      BY <2>4, <3>1 DEF ResumeInv, Rootless, Retried
    <3>3. track.shape = "array" => status["root"] = "none"
      BY <2>9, <3>1, <3>2
    <3> QED
      BY <1>5, <2>14, <3>2, <3>3 DEF Rootless
  <2>17. ASSUME NEW c \in Child PROVE Scheduled(c)' /\ (ToDo(c)' => Excused(c)')
    <3>1. (ToDo(c) => Excused(c)) /\ c \in Branch
      BY OwnNodes DEF ResumeInv
    <3>2. Scheduled(c)'
      BY <2>8, <2>14 DEF Scheduled
    <3>3. c \in queue => Excused(c)'
      BY <1>2, <2>4, <3>1 DEF ToDo
    <3>4. c \notin queue => status[c] = records.status[c]
      BY <2>9, <3>1
    <3>5. ToDo(c)' => ToDo(c) \/ c \in queue
      BY <1>5, <2>14, <3>4 DEF ToDo
    <3> QED
      BY <1>2, <3>1, <3>2, <3>3, <3>5
  <2> QED
    BY <1>2, <2>15, <2>16, <2>17 DEF ResumeInv
<1> QED
  BY <1>6, <1>7

LEMMA AnswerKeepsResume ==
    ASSUME ResumeInv, UNCHANGED <<track, records, rt, tally>>
    PROVE  ResumeInv'
<1>1. /\ tally' \in Tally /\ tally'.finished = tally.finished
      /\ \A c \in Candidate : tally'.excused[c] >= tally.excused[c]
  BY TallyStays
<1>2. rt' \in SchedulerRecord
  BY ResumeFacts
<1> QED
  BY <1>1, <1>2, QuietKeepsResume

LEMMA SessionCounts ==
    ASSUME ResumeInv
    PROVE  LET count == [tally EXCEPT !.sessions = @ + 1]
           IN count \in Tally /\ count.finished = tally.finished /\ count.excused = tally.excused
<1>1. tally \in Tally /\ tally.sessions + 1 \in Nat
  BY ResumeFacts DEF Tally
<1> QED
  BY <1>1 DEF Tally

LEMMA ContinueKeepsResume ==
    ASSUME ResumeInv, ContinueReads
    PROVE  ResumeInv'
<1>1. tally' = [tally EXCEPT !.sessions = @ + 1] /\ UNCHANGED <<track, records, rt>>
  BY DEF ContinueReads, CountSession
<1>2. tally' \in Tally /\ tally'.finished = tally.finished /\ tally'.excused = tally.excused
  BY <1>1, SessionCounts
<1>3. \A c \in Candidate : tally'.excused[c] >= tally.excused[c]
  BY <1>2, ResumeFacts
<1>4. rt' \in SchedulerRecord
  BY <1>1, ResumeFacts
<1> QED
  BY <1>1, <1>2, <1>3, <1>4, QuietKeepsResume

LEMMA PlanKeepsResume ==
    ASSUME ResumeInv, ContinuePlans
    PROVE  ResumeInv'
<1>1. TakeUp("wait-answered", "none", takeup.resumes) /\ UNCHANGED <<track, tally>>
  BY DEF ContinuePlans
<1>2. /\ tally' \in Tally /\ tally'.finished = tally.finished
      /\ \A c \in Candidate : tally'.excused[c] >= tally.excused[c]
  BY <1>1, TallyStays
<1>3. PICK mode \in {"default", "failed-only", "wait-answered", "branch"} : mode = "wait-answered"
  OBVIOUS
<1> QED
  BY <1>1, <1>2, <1>3, TakeUpKeepsResume

LEMMA RetryKeepsResume ==
    ASSUME ResumeInv, RetryTrack
    PROVE  ResumeInv'
<1>1. PICK mode \in {"default", "failed-only", "branch"}, name \in Child :
          /\ TakeUp(mode, name, {})
          /\ tally' = Excuse([tally EXCEPT !.sessions = @ + 1], IF mode = "branch" THEN {name} ELSE {})
  BY DEF RetryTrack
<1>2. PICK count : count = [tally EXCEPT !.sessions = @ + 1]
  OBVIOUS
<1>3. count \in Tally /\ count.finished = tally.finished /\ count.excused = tally.excused
  BY <1>2, SessionCounts
<1>4. PICK bs : bs = (IF mode = "branch" THEN {name} ELSE {}) /\ tally' = Excuse(count, bs)
  BY <1>1, <1>2
<1>5. \A c \in Candidate : tally.finished[c] <= 1 + tally.excused[c]
  BY DEF ResumeInv
<1>6. /\ tally' \in Tally /\ tally'.finished = tally.finished
      /\ \A c \in Candidate : tally'.excused[c] >= tally.excused[c]
      /\ mode = "branch" => tally.finished[OwnNode(name)] <= tally'.excused[OwnNode(name)]
  BY <1>3, <1>4, <1>5, OwnNodes, ExcuseCounts
<1>7. mode = "branch" => Excused(name)'
  BY <1>6 DEF Excused
<1>8. UNCHANGED track
  BY DEF RetryTrack
<1> QED
  BY <1>1, <1>6, <1>7, <1>8, TakeUpKeepsResume

LEMMA InitResume ==
    ASSUME TRInit
    PROVE  ResumeInv
<1>1. PICK new : new = [b \in Branch |-> IF b \in Child THEN "queued"
                                         ELSE IF track.shape = "array" THEN "none" ELSE "split"]
  OBVIOUS
<1>2. PICK node : node = [b \in Branch |-> IF b \in Child THEN OwnNode(b) ELSE NoNode]
  OBVIOUS
<1>3. /\ track \in TrackConf /\ records = [status |-> new, wait |-> {}]
      /\ rt = [OffTrack EXCEPT !.on = TRUE, !.status = new, !.queue = Child, !.node = node]
      /\ tally = [finished |-> [c \in Candidate |-> 0], excused |-> [c \in Candidate |-> 0],
                  sessions |-> 0, crashes |-> 0]
  BY <1>1, <1>2, Zenon DEF TRInit
<1>4. new \in [Branch -> BranchStatus] /\ node \in [Branch -> 0 .. 2]
  BY <1>1, <1>2 DEF BranchStatus, OwnNode, NoNode
<1>5. /\ rt \in SchedulerRecord /\ rt.queue = Child /\ rt.busy = {} /\ rt.did = {} /\ rt.status = new /\ rt.node = node
  BY <1>3, <1>4, OwnNodes DEF OffTrack, SchedulerRecord
<1>6. /\ records \in DiskRecord /\ records.status = new /\ tally \in Tally
      /\ \A c \in Candidate : tally.finished[c] = 0 /\ tally.excused[c] = 0
  BY <1>3, <1>4 DEF DiskRecord, Tally
<1>7. \A b \in Child : b \in Branch /\ b # "root" /\ OwnNode(b) \in Candidate /\ new[b] = "queued" /\ node[b] = OwnNode(b)
  BY <1>1, <1>2, OwnNodes DEF Child
<1>8. Rootless
  BY <1>1, <1>5, <1>6 DEF Rootless, Branch, Child
<1>9. \A b \in Child : Scheduled(b) /\ Excused(b)
  BY <1>5, <1>6, <1>7 DEF Scheduled, Excused
<1> QED
  BY <1>3, <1>5, <1>6, <1>8, <1>9 DEF ResumeInv, ResumeTypes, Tally

\* However often a track is continued and retried (scheduler-retry-plan.ts), and
\* wherever its processes end, every branch node does its last step once, unless a
\* retry names the branch or its end was not yet on disk when a sibling decided
\* the track.
THEOREM BranchesFinishOnce == TRSpec => []BranchFinishesOnce
<1>1. TRInit => ResumeInv
  BY InitResume
<1>2. ASSUME ResumeInv, [TRNext]_trVars PROVE ResumeInv'
  <2>1. CASE UNCHANGED trVars
    BY <1>2, <2>1, AnswerKeepsResume DEF trVars
  <2>2. ASSUME NEW b \in Child, StartBranch(b) PROVE ResumeInv'
    BY <1>2, <2>2, StartKeepsResume
  <2>3. ASSUME NEW b \in Child, PassWait(b) PROVE ResumeInv'
    BY <1>2, <2>3, PassKeepsResume
  <2>4. ASSUME NEW b \in Child, FinishBranch(b) PROVE ResumeInv'
    BY <1>2, <2>4, FinishKeepsResume
  <2>5. ASSUME NEW b \in Child, ParkBranch(b) PROVE ResumeInv'
    BY <1>2, <2>5, ParkKeepsResume
  <2>6. ASSUME NEW b \in Child, SettleBranch(b) PROVE ResumeInv'
    BY <1>2, <2>6, SettleKeepsResume
  <2>7. CASE ReturnTrack
    BY <1>2, <2>7, ReturnKeepsResume
  <2>8. CASE CrashTrack
    BY <1>2, <2>8, CrashKeepsResume
  <2>9. CASE AnswerWait
    BY <1>2, <2>9, AnswerKeepsResume DEF AnswerWait
  <2>10. CASE ContinueReads
    BY <1>2, <2>10, ContinueKeepsResume
  <2>11. CASE ContinuePlans
    BY <1>2, <2>11, PlanKeepsResume
  <2>12. CASE RetryTrack
    BY <1>2, <2>12, RetryKeepsResume
  <2> QED
    BY <1>2, <2>1, <2>2, <2>3, <2>4, <2>5, <2>6, <2>7, <2>8, <2>9, <2>10, <2>11, <2>12 DEF TRNext
<1>3. ResumeInv => BranchFinishesOnce
  BY DEF ResumeInv, BranchFinishesOnce
<1> QED
  BY <1>1, <1>2, <1>3, PTL DEF TRSpec


(***************************************************************************)
(* Packages: what relies on the package of an install root.                *)
(***************************************************************************)
HasMeta(configs, scope) == \E n \in RegName : configs[scope][n].meta # NoMeta
ReliedOn(root) == root \in mine \/ \E s \in Scope : RootOf(s) = root /\ HasMeta(registry, s)

\* TrailStep removes what a registration says it installed: no root of the user's own.
NotMine(scope, meta) == meta # NoMeta /\ meta.owned => RootOf(scope) \notin mine
NoneMine(configs) == \A s \in Scope, n \in RegName : NotMine(s, configs[s][n].meta)

ConfigsShape(configs) == configs = [s \in Scope |-> [n \in RegName |-> configs[s][n]]]
PackageShapes ==
    /\ registry = [s \in Scope |-> [n \in RegName |-> registry[s][n]]]
    /\ modules \in [InstallRoot -> Nat] /\ declared \in [InstallRoot -> Nat]
    /\ mine \subseteq InstallRoot

\* add: a snapshot that knows no package directory was taken when nothing relied on one
\* that was not lost already; what is registered with metadata is there.
AddCommand ==
    /\ cmd.scope \in Scope
    /\ cmd.at \in {"install", "plan", "write", "config", "rollback", "restore", "copy"}
    /\ IF cmd.at \in {"write", "config"}
       THEN cmd = [op |-> "add", at |-> cmd.at, scope |-> cmd.scope, source |-> cmd.source,
                   meta |-> cmd.meta, snap |-> cmd.snap, names |-> cmd.names]
       ELSE cmd = Add(cmd.scope, cmd.at, cmd.source, cmd.meta, cmd.snap)
    /\ cmd.snap.dir \in Nat \cup {-1, -2} /\ cmd.snap.declared \in Nat
    /\ cmd.snap # NoSnap => cmd.meta # NoMeta /\ cmd.snap.dir # -2
    /\ cmd.at \in {"rollback", "restore", "copy"} => cmd.snap # NoSnap
    /\ cmd.at \in {"plan", "write"} /\ cmd.meta # NoMeta => Holds(RootOf(cmd.scope))
    /\ cmd.at \in {"install", "plan", "rollback", "restore"} /\ cmd.snap.dir = 0 =>
          (ReliedOn(RootOf(cmd.scope)) => RootOf(cmd.scope) \in lost)
    /\ cmd.at = "restore" => cmd.snap.dir \in Nat
    /\ cmd.at = "copy" => cmd.snap.dir \in Nat \ {0}

RemoveCommand ==
    /\ cmd = Cleaning(cmd.scope, "", cmd.entry) /\ cmd.scope \in Scope
    /\ NotMine(cmd.scope, cmd.entry.meta)
UpdateCommand ==
    /\ cmd = [op |-> "update", at |-> cmd.at, roots |-> cmd.roots, merged |-> cmd.merged,
              configs |-> cmd.configs, roles |-> cmd.roles]
    /\ cmd.roots \subseteq InstallRoot /\ cmd.merged \subseteq Scope
    /\ ConfigsShape(cmd.configs) /\ NoneMine(cmd.configs)
CommandFits == cmd = NoCommand \/ (cmd.op = "add" /\ AddCommand) \/ (cmd.op = "remove" /\ RemoveCommand)
               \/ (cmd.op = "update" /\ UpdateCommand)
PromptFits ==
    \/ prompt = NoPrompt
    \/ /\ prompt.held = "entry" /\ prompt.scope \in Scope /\ prompt.name \in RegName
       /\ NotMine(prompt.scope, prompt.entry.meta)
    \/ /\ prompt.held = "plan" /\ prompt.roots \subseteq InstallRoot /\ prompt.merged \subseteq Scope
       /\ ConfigsShape(prompt.configs) /\ NoneMine(prompt.configs)

Stays(root) == ReliedOn(root) => Holds(root) \/ root \in lost \/ RollingBack(root)
PackageInv ==
    /\ PackageShapes /\ NoneMine(registry) /\ CommandFits /\ PromptFits
    /\ \A root \in InstallRoot : Stays(root)

LEMMA ReliedOnEntries ==
    ASSUME NEW root \in InstallRoot
    PROVE  ReliedOn(root) <=> (\E e \in PkgEntries : RootOf(e[1]) = root) \/ root \in mine
<1>1. ASSUME NEW e \in PkgEntries, RootOf(e[1]) = root
      PROVE  ReliedOn(root)
  <2>1. e[1] \in Scope /\ e[2] \in RegName /\ registry[e[1]][e[2]].meta # NoMeta
    BY <1>1 DEF PkgEntries, Entries, Meta
  <2> QED
    BY <1>1, <2>1 DEF ReliedOn, HasMeta
<1>2. ASSUME NEW s \in Scope, RootOf(s) = root, NEW n \in RegName, registry[s][n].meta # NoMeta
      PROVE  \E e \in PkgEntries : RootOf(e[1]) = root
  <2>1. <<s, n>> \in PkgEntries /\ <<s, n>>[1] = s
    BY <1>2 DEF PkgEntries, Entries, Meta, NoReg
  <2> QED
    BY <1>2, <2>1
<1> QED
  BY <1>1, <1>2 DEF ReliedOn, HasMeta

\* The commands that neither register nor install.
LEMMA PlanningKeepsPackages ==
    ASSUME PackageInv, UNCHANGED <<registry, mine, modules, lost>>, ~PkAt("add", "copy"),
           declared' \in [InstallRoot -> Nat], CommandFits', PromptFits'
    PROVE  PackageInv'
<1>1. PackageShapes' /\ NoneMine(registry)'
  BY DEF PackageInv, PackageShapes, NoneMine, NotMine
<1>2. ASSUME NEW root \in InstallRoot PROVE Stays(root)'
  <2>1. Stays(root) /\ ~RollingBack(root)
    BY DEF PackageInv, RollingBack
  <2> QED
    BY <2>1 DEF Stays, ReliedOn, HasMeta, Holds
<1> QED
  BY <1>1, <1>2 DEF PackageInv

LEMMA RootsOfScopes == \A s \in Scope : RootOf(s) \in InstallRoot
BY DEF RootOf, InstallRoot, Scope

LEMMA AddStarts ==
    ASSUME PackageInv,
           \E s \in Scope : \/ AddUnbacked(s) \/ AddReusing(s)
                            \/ \E source \in {"npm", "github"} : AddInstalling(s, source)
    PROVE  PackageInv'
<1>1. PICK s \in Scope : \/ AddUnbacked(s) \/ AddReusing(s)
                         \/ \E source \in {"npm", "github"} : AddInstalling(s, source)
  OBVIOUS
<1>2. /\ UNCHANGED <<registry, mine, modules, lost, declared, prompt>> /\ cmd = NoCommand
      /\ RootOf(s) \in InstallRoot /\ modules \in [InstallRoot -> Nat] /\ declared \in [InstallRoot -> Nat]
  BY <1>1, RootsOfScopes DEF AddUnbacked, AddReusing, AddInstalling, PkStart, PackageInv, PackageShapes
<1>3. PromptFits'
  BY <1>2 DEF PackageInv, PromptFits, NotMine, NoneMine, ConfigsShape
<1>4. PICK at, source, meta, snap :
         /\ at \in {"plan", "install"} /\ cmd' = Add(s, at, source, meta, snap)
         /\ snap.dir \in Nat \cup {-1, -2} /\ snap.declared \in Nat
         /\ snap # NoSnap => meta # NoMeta /\ snap.dir # -2
         /\ at = "plan" /\ meta # NoMeta => Holds(RootOf(s))
         /\ snap.dir = 0 => modules[RootOf(s)] = 0
  <2>1. CASE AddUnbacked(s)
    <3>1. \E source : cmd' = Add(s, "plan", source, NoMeta, NoSnap)
      BY <2>1 DEF AddUnbacked, PkStart
    <3>2. NoSnap.dir = -2 /\ NoSnap.declared = 0
      BY DEF NoSnap
    <3> QED
      BY <3>1, <3>2
  <2>2. CASE AddReusing(s)
    <3>1. cmd' = Add(s, "plan", "pkg", [source |-> "npm", owned |-> FALSE], NoSnap) /\ Holds(RootOf(s))
      BY <2>2 DEF AddReusing, PkStart
    <3>2. NoSnap.dir = -2 /\ NoSnap.declared = 0
      BY DEF NoSnap
    <3> QED
      BY <3>1, <3>2
  <2>3. ASSUME NEW source \in {"npm", "github"}, AddInstalling(s, source)
        PROVE  \E at, src, meta, snap :
                  /\ at \in {"plan", "install"} /\ cmd' = Add(s, at, src, meta, snap)
                  /\ snap.dir \in Nat \cup {-1, -2} /\ snap.declared \in Nat
                  /\ snap # NoSnap => meta # NoMeta /\ snap.dir # -2
                  /\ at = "plan" /\ meta # NoMeta => Holds(RootOf(s))
                  /\ snap.dir = 0 => modules[RootOf(s)] = 0
    <3>1. PICK dir : dir = IF source = "npm" THEN modules[RootOf(s)] ELSE -1
      OBVIOUS
    <3>2. PICK snap : snap = [dir |-> dir, declared |-> declared[RootOf(s)]]
      OBVIOUS
    <3>3. PICK meta : meta = [source |-> source, owned |-> TRUE]
      OBVIOUS
    <3>4. cmd' = Add(s, "install", "pkg", meta, snap)
      BY <2>3, <3>1, <3>2, <3>3 DEF AddInstalling, PkStart
    <3>5. snap.dir = dir /\ snap.declared = declared[RootOf(s)] /\ meta # NoMeta
      <4>1. meta.source = source /\ NoMeta.source = "none"
        BY <3>3 DEF NoMeta
      <4> QED
        BY <3>2, <4>1
    <3>6. dir \in Nat \cup {-1, -2} /\ dir # -2 /\ declared[RootOf(s)] \in Nat /\ (dir = 0 => modules[RootOf(s)] = 0)
      BY <1>2, <3>1
    <3> QED
      BY <3>4, <3>5, <3>6
  <2> QED
    BY <1>1, <2>1, <2>2, <2>3
<1>5. CommandFits'
  <2>1. /\ cmd'.op = "add" /\ cmd'.at = at /\ cmd'.scope = s /\ cmd'.source = source /\ cmd'.meta = meta
        /\ cmd'.snap = snap
    BY <1>4 DEF Add
  <2>2. snap.dir = 0 => (ReliedOn(RootOf(s))' => RootOf(s) \in lost')
    <3>1. Stays(RootOf(s)) /\ ~RollingBack(RootOf(s))
      BY <1>2 DEF PackageInv, RollingBack, PkAt
    <3> QED
      BY <1>2, <1>4, <3>1 DEF Stays, ReliedOn, HasMeta, Holds
  <2>3. Holds(RootOf(s))' = Holds(RootOf(s))
    BY <1>2 DEF Holds
  <2>4. AddCommand'
    BY <1>4, <2>1, <2>2, <2>3 DEF AddCommand
  <2> QED
    BY <2>1, <2>4 DEF CommandFits
<1> QED
  BY <1>2, <1>3, <1>5, PlanningKeepsPackages DEF PkAt

\* The steps of add keep what the command holds.
LEMMA AddGoesOn ==
    ASSUME PackageInv, cmd # NoCommand, cmd.op = "add", NEW at
    PROVE  /\ AddCommand
           /\ cmd.at \notin {"write", "config"} /\ cmd' = [cmd EXCEPT !.at = at] =>
                 cmd' = Add(cmd.scope, at, cmd.source, cmd.meta, cmd.snap)
           /\ cmd.at \in {"write", "config"} /\ cmd' = [cmd EXCEPT !.at = at] =>
                 cmd' = [op |-> "add", at |-> at, scope |-> cmd.scope, source |-> cmd.source,
                         meta |-> cmd.meta, snap |-> cmd.snap, names |-> cmd.names]
<1>1. AddCommand
  BY DEF PackageInv, CommandFits
<1>2. PICK a, s, src, m, sn, names : /\ a = cmd.at /\ s = cmd.scope /\ src = cmd.source /\ m = cmd.meta
                                     /\ sn = cmd.snap /\ names = cmd.names
  OBVIOUS
<1>3. CASE cmd.at \notin {"write", "config"}
  <2>1. cmd = [op |-> "add", at |-> a, scope |-> s, source |-> src, meta |-> m, snap |-> sn]
    BY <1>1, <1>2, <1>3 DEF AddCommand, Add
  <2> QED
    BY <1>1, <1>2, <1>3, <2>1 DEF Add
<1>4. CASE cmd.at \in {"write", "config"}
  <2>1. cmd = [op |-> "add", at |-> a, scope |-> s, source |-> src, meta |-> m, snap |-> sn, names |-> names]
    BY <1>1, <1>2, <1>4 DEF AddCommand
  <2> QED
    BY <1>1, <1>2, <1>4, <2>1
<1> QED
  BY <1>3, <1>4

LEMMA EndFits == ASSUME cmd' = NoCommand PROVE CommandFits' /\ \A op, at : ~PkAt(op, at)'
BY DEF CommandFits, PkAt

LEMMA PromptStays ==
    ASSUME PackageInv, UNCHANGED prompt, mine' \subseteq mine
    PROVE  PromptFits'
BY DEF PackageInv, PromptFits, NotMine, NoneMine, ConfigsShape

\* What an add still has to do rests on the install root alone.
LEMMA AddFits ==
    ASSUME PackageInv, UNCHANGED <<registry, mine, lost>>,
           cmd # NoCommand, cmd.op = "add", AddCommand,
           NEW at \in {"plan", "rollback", "restore", "copy"},
           cmd' = Add(cmd.scope, at, cmd.source, cmd.meta, cmd.snap),
           at = "plan" => Holds(RootOf(cmd.scope))',
           at \in {"plan", "rollback", "restore"} => cmd.at \in {"install", "plan", "rollback"},
           at # "plan" => cmd.snap # NoSnap, at = "restore" => cmd.snap.dir \in Nat,
           at = "copy" => cmd.snap.dir \in Nat \ {0}
    PROVE  CommandFits'
<1>1. /\ cmd'.op = "add" /\ cmd'.at = at /\ cmd'.scope = cmd.scope /\ cmd'.source = cmd.source
      /\ cmd'.meta = cmd.meta /\ cmd'.snap = cmd.snap
  BY DEF Add
<1>3. (cmd.at = "plan" /\ cmd.meta # NoMeta => Holds(RootOf(cmd.scope)))'
  BY <1>1
<1>4. (cmd.at \in {"install", "plan", "rollback", "restore"} /\ cmd.snap.dir = 0 =>
         (ReliedOn(RootOf(cmd.scope)) => RootOf(cmd.scope) \in lost))'
  BY <1>1 DEF AddCommand, ReliedOn, HasMeta
<1>5. /\ cmd'.scope \in Scope
      /\ cmd'.snap.dir \in Nat \cup {-1, -2} /\ cmd'.snap.declared \in Nat
      /\ cmd'.snap # NoSnap => cmd'.meta # NoMeta /\ cmd'.snap.dir # -2
      /\ cmd'.at \in {"rollback", "restore", "copy"} => cmd'.snap # NoSnap
  BY <1>1 DEF AddCommand
<1>6. cmd' = Add(cmd'.scope, cmd'.at, cmd'.source, cmd'.meta, cmd'.snap)
  BY <1>1
<1>7. AddCommand'
  BY <1>1, <1>3, <1>4, <1>5, <1>6 DEF AddCommand
<1> QED
  BY <1>1, <1>7 DEF CommandFits

LEMMA AddPlanKeeps ==
    ASSUME PackageInv, PlanRegistrations \/ ApplyRecommended \/ RollBackFiles
    PROVE  PackageInv'
<1>1. /\ UNCHANGED <<registry, mine, modules, lost, prompt>> /\ cmd # NoCommand /\ cmd.op = "add"
      /\ cmd.at \in {"plan", "config", "rollback"}
  BY DEF PlanRegistrations, ApplyRecommended, RollBackFiles, PkAt
<1>2. AddCommand
  BY <1>1 DEF PackageInv, CommandFits, NoCommand
<1>3. declared \in [InstallRoot -> Nat] /\ RootOf(cmd.scope) \in InstallRoot
  BY <1>2, RootsOfScopes DEF PackageInv, PackageShapes, AddCommand
<1>4. declared' \in [InstallRoot -> Nat]
  BY <1>2, <1>3 DEF PlanRegistrations, ApplyRecommended, RollBackFiles, AddCommand
<1>5. CommandFits'
  <2>1. CASE cmd' = NoCommand
    BY <2>1, EndFits
  <2>2. CASE PlanRegistrations /\ cmd' # NoCommand
    <3>1. CASE cmd.snap # NoSnap /\ PkGo("rollback")
      <4>1. cmd' = Add(cmd.scope, "rollback", cmd.source, cmd.meta, cmd.snap) /\ cmd.at = "plan"
        BY <1>1, <2>2, <3>1, AddGoesOn DEF PkGo, PlanRegistrations, PkAt
      <4> QED
        BY <1>1, <1>2, <3>1, <4>1, AddFits
    <3>2. CASE ~(cmd.snap # NoSnap /\ PkGo("rollback"))
      <4>1. PICK names : cmd' = [op |-> "add", at |-> "write", scope |-> cmd.scope, source |-> cmd.source,
                                 meta |-> cmd.meta, snap |-> cmd.snap, names |-> names]
        BY <2>2, <3>2 DEF PlanRegistrations, PkEnd
      <4>2. /\ cmd'.op = "add" /\ cmd'.at = "write" /\ cmd'.scope = cmd.scope /\ cmd'.source = cmd.source
            /\ cmd'.meta = cmd.meta /\ cmd'.snap = cmd.snap /\ cmd'.names = names
        BY <4>1
      <4>3. cmd.at = "plan"
        BY <2>2 DEF PlanRegistrations, PkAt
      <4>4. AddCommand'
        BY <1>1, <1>2, <4>1, <4>2, <4>3 DEF AddCommand, Holds
      <4> QED
        BY <4>2, <4>4 DEF CommandFits
    <3> QED
      BY <3>1, <3>2
  <2>3. CASE RollBackFiles /\ cmd' # NoCommand
    <3>1. cmd.at = "rollback" /\ cmd.snap.dir # -1 /\ PkGo("restore")
      BY <2>3 DEF RollBackFiles, PkEnd, PkAt
    <3>2. cmd' = Add(cmd.scope, "restore", cmd.source, cmd.meta, cmd.snap)
      BY <1>1, <3>1, AddGoesOn DEF PkGo
    <3>3. cmd.snap # NoSnap /\ cmd.snap.dir \in Nat
      <4>1. cmd.snap.dir \in Nat \cup {-1, -2} /\ cmd.snap # NoSnap /\ cmd.snap.dir # -2
        BY <1>2, <3>1 DEF AddCommand
      <4> QED
        BY <3>1, <4>1
    <3> QED
      BY <1>1, <1>2, <3>1, <3>2, <3>3, AddFits
  <2>4. CASE ApplyRecommended
    BY <2>1, <2>4 DEF ApplyRecommended, PkEnd
  <2> QED
    BY <2>1, <2>2, <2>3, <2>4
<1> QED
  BY <1>1, <1>4, <1>5, PromptStays, PlanningKeepsPackages DEF PkAt

LEMMA InstallKeepsPackages ==
    ASSUME PackageInv, InstallPackage
    PROVE  PackageInv'
<1>1. /\ UNCHANGED <<registry, mine, lost, prompt>> /\ cmd # NoCommand /\ cmd.op = "add" /\ cmd.at = "install"
  BY DEF InstallPackage, PkAt
<1>2. AddCommand
  BY <1>1 DEF PackageInv, CommandFits, NoCommand
<1>3. PICK root \in InstallRoot : root = RootOf(cmd.scope)
  BY <1>2, RootsOfScopes DEF AddCommand
<1>4. modules \in [InstallRoot -> Nat] /\ declared \in [InstallRoot -> Nat] /\ ~\E r : RollingBack(r)
  BY <1>1 DEF PackageInv, PackageShapes, RollingBack, PkAt
<1>5. CASE UNCHANGED <<modules, declared>> /\ cmd' = NoCommand
  BY <1>1, <1>4, <1>5, EndFits, PromptStays, PlanningKeepsPackages DEF PkAt
<1>6. CASE ~(UNCHANGED <<modules, declared>> /\ cmd' = NoCommand)
  <2>1. PICK v \in Nat \ {0} : modules' = [modules EXCEPT ![root] = v] /\ declared' = [declared EXCEPT ![root] = v]
    BY <1>3, <1>6, PackageAssumption DEF InstallPackage, PkEnd
  <2>2. /\ modules' \in [InstallRoot -> Nat] /\ declared' \in [InstallRoot -> Nat] /\ Holds(root)'
        /\ \A r \in InstallRoot : r # root => modules'[r] = modules[r]
    BY <1>4, <2>1 DEF Holds
  <2>3. PackageShapes' /\ NoneMine(registry)' /\ PromptFits'
    BY <1>1, <2>2, PromptStays DEF PackageInv, PackageShapes, NoneMine, NotMine
  <2>4. CommandFits'
    <3>1. CASE PkGo("plan")
      <4>1. cmd' = Add(cmd.scope, "plan", cmd.source, cmd.meta, cmd.snap)
        BY <1>1, <3>1, AddGoesOn DEF PkGo
      <4>2. Holds(RootOf(cmd.scope))'
        <5>1. cmd'.scope = cmd.scope
          BY <4>1 DEF Add
        <5> QED
          BY <1>3, <2>2, <5>1 DEF Holds
      <4> QED
        BY <1>1, <1>2, <4>1, <4>2, AddFits
    <3>2. CASE ~PkGo("plan")
      BY <1>6, <3>2, EndFits DEF InstallPackage, PkEnd
    <3> QED
      BY <3>1, <3>2
  <2>5. ASSUME NEW r \in InstallRoot PROVE Stays(r)'
    <3>1. Stays(r)
      BY DEF PackageInv
    <3> QED
      BY <1>1, <1>4, <2>2, <3>1 DEF Stays, ReliedOn, HasMeta, Holds
  <2> QED
    BY <2>3, <2>4, <2>5 DEF PackageInv
<1> QED
  BY <1>5, <1>6

LEMMA RestoreKeepsPackages ==
    ASSUME PackageInv, RollBackDirectory \/ CopyDirectory
    PROVE  PackageInv'
<1>1. /\ UNCHANGED <<registry, mine, lost, prompt, declared>> /\ cmd # NoCommand /\ cmd.op = "add"
      /\ cmd.at \in {"restore", "copy"}
  BY DEF RollBackDirectory, CopyDirectory, PkAt
<1>2. AddCommand
  BY <1>1 DEF PackageInv, CommandFits, NoCommand
<1>3. PICK root \in InstallRoot : root = RootOf(cmd.scope)
  BY <1>2, RootsOfScopes DEF AddCommand
<1>4. modules \in [InstallRoot -> Nat]
  BY DEF PackageInv, PackageShapes
<1>5. PICK v \in Nat : /\ modules' = [modules EXCEPT ![root] = v]
                       /\ RollBackDirectory => v = 0
                       /\ CopyDirectory => v # 0
  <2>1. cmd.at = "copy" => cmd.snap.dir \in Nat \ {0}
    BY <1>2 DEF AddCommand
  <2> QED
    BY <1>3, <2>1 DEF RollBackDirectory, CopyDirectory, PkAt
<1>51. modules' = [modules EXCEPT ![root] = v]
  BY <1>5
<1>6. modules' \in [InstallRoot -> Nat] /\ modules'[root] = v
      /\ \A r \in InstallRoot : r # root => modules'[r] = modules[r]
  BY <1>4, <1>51
<1>7. PackageShapes' /\ NoneMine(registry)' /\ PromptFits'
  BY <1>1, <1>6, PromptStays DEF PackageInv, PackageShapes, NoneMine, NotMine
<1>8. CASE CopyDirectory
  <2>1. cmd' = NoCommand /\ cmd.at = "copy"
    BY <1>8 DEF CopyDirectory, PkEnd, PkAt
  <2>2. ASSUME NEW r \in InstallRoot PROVE Stays(r)'
    <3>1. Stays(r)
      BY DEF PackageInv
    <3>2. CASE r = root
      <4>1. v # 0
        BY <1>5, <1>8
      <4> QED
        BY <1>6, <3>2, <4>1 DEF Stays, Holds
    <3>3. CASE r # root
      BY <1>1, <1>3, <1>6, <3>1, <3>3 DEF Stays, ReliedOn, HasMeta, Holds, RollingBack
    <3> QED
      BY <3>2, <3>3
  <2> QED
    BY <1>7, <2>1, <2>2, EndFits DEF PackageInv
<1>9. CASE RollBackDirectory
  <2>1. cmd.at = "restore" /\ cmd.snap.dir \in Nat
    BY <1>2, <1>9 DEF RollBackDirectory, PkAt, AddCommand
  <2>2. CASE cmd.snap.dir = 0
    <3>1. cmd' = NoCommand
      BY <1>9, <2>2 DEF RollBackDirectory, PkEnd
    <3>2. ASSUME NEW r \in InstallRoot PROVE Stays(r)'
      <4>1. Stays(r) /\ (ReliedOn(root) => root \in lost) /\ ~RollingBack(r)
        BY <1>1, <1>2, <1>3, <2>1, <2>2 DEF PackageInv, AddCommand, RollingBack, PkAt
      <4>2. ReliedOn(r)' <=> ReliedOn(r)
        BY <1>1 DEF ReliedOn, HasMeta
      <4> QED
        BY <1>1, <1>6, <4>1, <4>2 DEF Stays, Holds
    <3> QED
      BY <1>7, <3>1, <3>2, EndFits DEF PackageInv
  <2>3. CASE cmd.snap.dir # 0
    <3>1. cmd' = Add(cmd.scope, "copy", cmd.source, cmd.meta, cmd.snap)
      BY <1>1, <1>9, <2>1, <2>3, AddGoesOn DEF RollBackDirectory, PkGo
    <3>2. cmd.snap # NoSnap
      BY <1>2, <2>1 DEF AddCommand
    <3>3. CommandFits'
      BY <1>1, <1>2, <2>1, <2>3, <3>1, <3>2, AddFits
    <3>4. RollingBack(root)'
      BY <1>3, <3>1 DEF RollingBack, PkAt, Add, NoCommand
    <3>5. ASSUME NEW r \in InstallRoot PROVE Stays(r)'
      <4>1. Stays(r) /\ ~RollingBack(r)
        BY <1>1, <2>1 DEF PackageInv, RollingBack, PkAt
      <4>2. ReliedOn(r)' <=> ReliedOn(r)
        BY <1>1 DEF ReliedOn, HasMeta
      <4> QED
        BY <1>1, <1>6, <3>4, <4>1, <4>2 DEF Stays, Holds
    <3> QED
      BY <1>7, <3>3, <3>5 DEF PackageInv
  <2> QED
    BY <2>2, <2>3
<1> QED
  BY <1>8, <1>9

\* A change of one config file that adds no package metadata.
LEMMA FewerRelyOn ==
    ASSUME PackageInv, UNCHANGED mine, NEW s \in Scope,
           registry' = [t \in Scope |-> [n \in RegName |-> registry'[t][n]]],
           \A t \in Scope \ {s}, n \in RegName : registry'[t][n] = registry[t][n],
           \A n \in RegName : \/ registry'[s][n].meta = NoMeta
                              \/ \E m \in RegName : registry'[s][n].meta = registry[s][m].meta
    PROVE  /\ NoneMine(registry)'
           /\ \A root \in InstallRoot : ReliedOn(root)' => ReliedOn(root)
<1>1. \A t \in Scope, n \in RegName :
         registry'[t][n].meta = NoMeta \/ \E m \in RegName : registry'[t][n].meta = registry[t][m].meta
  OBVIOUS
<1>2. NoneMine(registry)'
  BY <1>1 DEF PackageInv, NoneMine, NotMine
<1>3. \A t \in Scope : HasMeta(registry, t)' => HasMeta(registry, t)
  BY <1>1 DEF HasMeta
<1> QED
  BY <1>2, <1>3 DEF ReliedOn

LEMMA WriteKeepsPackages ==
    ASSUME PackageInv, WriteRegistrations
    PROVE  PackageInv'
<1>1. /\ UNCHANGED <<modules, declared, prompt>> /\ cmd # NoCommand /\ cmd.op = "add" /\ cmd.at = "write"
  BY DEF WriteRegistrations, PkAt
<1>2. AddCommand
  BY <1>1 DEF PackageInv, CommandFits, NoCommand
<1>3. PICK s \in Scope : s = cmd.scope
  BY <1>2 DEF AddCommand
<1>4. RootOf(s) \in InstallRoot
  BY RootsOfScopes
<1>5. mine' = (IF cmd.meta # NoMeta /\ cmd.meta.owned THEN mine \ {RootOf(s)} ELSE mine)
      /\ lost' = (IF cmd.snap # NoSnap THEN lost \ {RootOf(s)} ELSE lost)
  BY <1>3 DEF WriteRegistrations
<1>6. registry = [t \in Scope |-> [n \in RegName |-> registry[t][n]]] /\ mine \subseteq InstallRoot
  BY DEF PackageInv, PackageShapes
<1>7. /\ registry' = [t \in Scope |-> [n \in RegName |-> registry'[t][n]]]
      /\ \A t \in Scope \ {s}, n \in RegName : registry'[t][n] = registry[t][n]
      /\ \A n \in RegName : \/ registry'[s][n] = registry[s][n]
                            \/ registry'[s][n].meta = MetaFor(cmd.meta, <<cmd.source, n>>)
  <2>1. PICK new : /\ registry' = [registry EXCEPT ![s] = new]
                   /\ new = [n \in RegName |->
                               IF n \in cmd.names
                               THEN [target |-> <<cmd.source, n>>, meta |-> MetaFor(cmd.meta, <<cmd.source, n>>)]
                               ELSE registry[s][n]]
    BY <1>3 DEF WriteRegistrations
  <2>2. new = [n \in RegName |-> new[n]]
    BY <2>1
  <2>3. \A n \in RegName : new[n] = registry[s][n] \/ new[n].meta = MetaFor(cmd.meta, <<cmd.source, n>>)
    BY <2>1
  <2> QED
    BY <1>6, <2>1, <2>2, <2>3
<1>8. PackageShapes' /\ PromptFits'
  BY <1>1, <1>5, <1>7, PromptStays DEF PackageInv, PackageShapes
<1>9. CommandFits' /\ \A r : ~RollingBack(r)'
  <2>1. cmd' = [op |-> "add", at |-> "config", scope |-> cmd.scope, source |-> cmd.source,
                meta |-> cmd.meta, snap |-> cmd.snap, names |-> cmd.names]
    BY <1>1, AddGoesOn DEF WriteRegistrations, PkGo
  <2>2. /\ cmd'.op = "add" /\ cmd'.at = "config" /\ cmd'.scope = cmd.scope /\ cmd'.source = cmd.source
        /\ cmd'.meta = cmd.meta /\ cmd'.snap = cmd.snap /\ cmd'.names = cmd.names
    BY <2>1
  <2>3. AddCommand'
    BY <1>2, <2>1, <2>2 DEF AddCommand
  <2> QED
    BY <2>2, <2>3 DEF CommandFits, RollingBack, PkAt
<1>10. CASE cmd.meta = NoMeta
  <2>1. UNCHANGED <<mine, lost>>
    BY <1>2, <1>5, <1>10 DEF AddCommand
  <2>2. \A n \in RegName : \/ registry'[s][n].meta = NoMeta
                           \/ \E m \in RegName : registry'[s][n].meta = registry[s][m].meta
    BY <1>7, <1>10 DEF MetaFor
  <2>3. NoneMine(registry)' /\ \A root \in InstallRoot : ReliedOn(root)' => ReliedOn(root)
    BY <1>7, <2>1, <2>2, FewerRelyOn
  <2>4. ASSUME NEW r \in InstallRoot PROVE Stays(r)'
    <3>1. Stays(r) /\ ~RollingBack(r)
      BY <1>1 DEF PackageInv, RollingBack, PkAt
    <3> QED
      BY <1>1, <2>1, <2>3, <3>1 DEF Stays, Holds
  <2> QED
    BY <1>8, <1>9, <2>3, <2>4 DEF PackageInv
<1>11. CASE cmd.meta # NoMeta
  <2>1. Holds(RootOf(s))
    BY <1>1, <1>2, <1>3, <1>11 DEF AddCommand
  <2>2. ASSUME NEW n \in RegName PROVE NotMine(s, registry[s][n].meta)'
    <3>1. CASE registry'[s][n] = registry[s][n]
      BY <1>5, <3>1 DEF PackageInv, NoneMine, NotMine
    <3>2. CASE registry'[s][n].meta = MetaFor(cmd.meta, <<cmd.source, n>>)
      <4>1. registry'[s][n].meta.owned = cmd.meta.owned
        BY <1>11, <3>2 DEF MetaFor
      <4> QED
        BY <1>5, <1>11, <4>1 DEF NotMine
    <3> QED
      BY <1>7, <3>1, <3>2
  <2>3. NoneMine(registry)'
    BY <1>5, <1>7, <2>2 DEF PackageInv, NoneMine, NotMine
  <2>4. ASSUME NEW r \in InstallRoot PROVE Stays(r)'
    <3>1. CASE r = RootOf(s)
      BY <1>1, <2>1, <3>1 DEF Stays, Holds
    <3>2. CASE r # RootOf(s)
      <4>1. Stays(r) /\ ~RollingBack(r)
        BY <1>1 DEF PackageInv, RollingBack, PkAt
      <4>2. ReliedOn(r)' => ReliedOn(r)
        <5>1. \A t \in Scope : RootOf(t) = r => (HasMeta(registry, t)' <=> HasMeta(registry, t))
          BY <1>7, <3>2 DEF HasMeta
        <5> QED
          BY <1>5, <5>1 DEF ReliedOn
      <4> QED
        BY <1>1, <1>5, <3>2, <4>1, <4>2 DEF Stays, Holds
    <3> QED
      BY <3>1, <3>2
  <2> QED
    BY <1>8, <1>9, <2>3, <2>4 DEF PackageInv
<1> QED
  BY <1>10, <1>11

\* A registration leaves a config file, or moves to another name in it.
LEMMA MovesKeepPackages ==
    ASSUME PackageInv,
           \/ \E s \in Scope, n \in RegName : Remove(s, n)
           \/ RemoveSelected \/ \E n \in RegName : RenameSelected(n)
    PROVE  PackageInv'
<1>1. registry = [t \in Scope |-> [n \in RegName |-> registry[t][n]]]
  BY DEF PackageInv, PackageShapes
<1>2. UNCHANGED <<modules, declared, mine, lost>> /\ cmd = NoCommand
  BY DEF Remove, RemoveSelected, RenameSelected, PkStart
<1>3. ASSUME NEW s \in Scope, NEW n \in RegName, NEW entry, registry' = Without(s, n),
             cmd' = Cleaning(s, n, entry), NotMine(s, entry.meta), PromptFits'
      PROVE  PackageInv'
  <2>1. /\ registry' = [t \in Scope |-> [m \in RegName |-> registry'[t][m]]]
        /\ \A t \in Scope \ {s}, m \in RegName : registry'[t][m] = registry[t][m]
        /\ \A m \in RegName : registry'[s][m] = NoReg \/ registry'[s][m] = registry[s][m]
    BY <1>1, <1>3 DEF Without
  <2>2. \A m \in RegName : \/ registry'[s][m].meta = NoMeta
                           \/ \E k \in RegName : registry'[s][m].meta = registry[s][k].meta
    BY <2>1 DEF NoReg
  <2>3. NoneMine(registry)' /\ \A root \in InstallRoot : ReliedOn(root)' => ReliedOn(root)
    BY <1>2, <2>1, <2>2, FewerRelyOn
  <2>4. /\ cmd' = Cleaning(s, "", entry) /\ cmd'.op = "remove" /\ cmd'.scope = s /\ cmd'.entry = entry
    BY <1>3 DEF Cleaning
  <2>5. RemoveCommand'
    BY <1>2, <1>3, <2>4 DEF RemoveCommand, NotMine
  <2>6. CommandFits'
    BY <2>4, <2>5 DEF CommandFits
  <2>7. ASSUME NEW r \in InstallRoot PROVE Stays(r)'
    <3>1. Stays(r) /\ ~RollingBack(r)
      BY <1>2 DEF PackageInv, RollingBack, PkAt
    <3> QED
      BY <1>2, <2>3, <3>1 DEF Stays, Holds
  <2>8. PackageShapes'
    BY <1>2, <2>1 DEF PackageInv, PackageShapes
  <2> QED
    BY <1>3, <2>3, <2>6, <2>7, <2>8 DEF PackageInv
<1>4. CASE \E s \in Scope, n \in RegName : Remove(s, n)
  <2>1. PICK s \in Scope, n \in RegName : Remove(s, n)
    BY <1>4
  <2>2. /\ registry' = Without(s, n) /\ cmd' = Cleaning(s, n, registry[s][n]) /\ UNCHANGED prompt
    BY <2>1 DEF Remove, PkStart
  <2>3. NotMine(s, registry[s][n].meta) /\ PromptFits'
    BY <1>2, <2>2, PromptStays DEF PackageInv, NoneMine
  <2> QED
    BY <1>3, <2>2, <2>3
<1>5. CASE RemoveSelected
  <2>1. /\ prompt.scope \in Scope /\ prompt.name \in RegName /\ NotMine(prompt.scope, prompt.entry.meta)
    BY <1>5 DEF PackageInv, PromptFits, RemoveSelected, NoPrompt
  <2>2. /\ registry' = Without(prompt.scope, prompt.name)
        /\ cmd' = Cleaning(prompt.scope, prompt.name, prompt.entry) /\ PromptFits'
    BY <1>5 DEF RemoveSelected, PromptFits
  <2> QED
    BY <1>3, <2>1, <2>2
<1>6. CASE \E n \in RegName : RenameSelected(n)
  <2>1. PICK to \in RegName : RenameSelected(to)
    BY <1>6
  <2>2. PICK s \in Scope, from \in RegName : s = prompt.scope /\ from = prompt.name
    BY <2>1 DEF PackageInv, PromptFits, RenameSelected, NoPrompt
  <2>3. PICK entry : /\ entry.meta = registry[s][from].meta
                     /\ registry' = [Without(s, from) EXCEPT ![s][to] = entry]
    <3>1. [target |-> prompt.entry.target, meta |-> registry[s][from].meta].meta = registry[s][from].meta
      OBVIOUS
    <3> QED
      BY <2>1, <2>2, <3>1 DEF RenameSelected, Moved
  <2>4. PICK mid : mid = Without(s, from)
    OBVIOUS
  <2>5. /\ mid = [t \in Scope |-> [m \in RegName |-> mid[t][m]]]
        /\ \A t \in Scope \ {s}, m \in RegName : mid[t][m] = registry[t][m]
        /\ \A m \in RegName : mid[s][m] = NoReg \/ mid[s][m] = registry[s][m]
    BY <1>1, <2>4 DEF Without
  <2>6. /\ registry' = [t \in Scope |-> [m \in RegName |-> registry'[t][m]]]
        /\ \A t \in Scope \ {s}, m \in RegName : registry'[t][m] = registry[t][m]
        /\ \A m \in RegName : \/ registry'[s][m] = NoReg \/ registry'[s][m] = registry[s][m]
                              \/ registry'[s][m] = entry
    <3>1. PICK row : row = [mid[s] EXCEPT ![to] = entry]
      OBVIOUS
    <3>2. registry' = [mid EXCEPT ![s] = row]
      BY <2>3, <2>4, <3>1
    <3>3. mid[s] = [m \in RegName |-> mid[s][m]]
      BY <2>5
    <3>4. row = [m \in RegName |-> row[m]] /\ \A m \in RegName : row[m] = IF m = to THEN entry ELSE mid[s][m]
      BY <3>1, <3>3
    <3>5. \A t \in Scope, m \in RegName : registry'[t][m] = IF t = s THEN row[m] ELSE mid[t][m]
      BY <2>5, <3>2
    <3>6. registry' = [t \in Scope |-> [m \in RegName |-> registry'[t][m]]]
      BY <2>5, <3>2, <3>4
    <3> QED
      BY <2>5, <3>4, <3>5, <3>6
  <2>7. \A m \in RegName : \/ registry'[s][m].meta = NoMeta
                           \/ \E k \in RegName : registry'[s][m].meta = registry[s][k].meta
    BY <2>3, <2>6 DEF NoReg
  <2>8. NoneMine(registry)' /\ \A root \in InstallRoot : ReliedOn(root)' => ReliedOn(root)
    BY <1>2, <2>6, <2>7, FewerRelyOn
  <2>9. UNCHANGED cmd /\ PromptFits'
    BY <2>1 DEF RenameSelected, PromptFits
  <2>10. CommandFits' /\ PackageShapes'
    BY <1>2, <2>6, <2>9 DEF CommandFits, PackageInv, PackageShapes
  <2>11. ASSUME NEW r \in InstallRoot PROVE Stays(r)'
    <3>1. Stays(r) /\ ~RollingBack(r)
      BY <1>2 DEF PackageInv, RollingBack, PkAt
    <3> QED
      BY <1>2, <2>8, <3>1 DEF Stays, Holds
  <2> QED
    BY <2>8, <2>9, <2>10, <2>11 DEF PackageInv
<1> QED
  BY <1>4, <1>5, <1>6

LEMMA CleanupKeepsPackages ==
    ASSUME PackageInv, CleanupPackage
    PROVE  PackageInv'
<1>1. /\ UNCHANGED <<registry, mine, prompt>> /\ cmd # NoCommand /\ cmd.op = "remove" /\ cmd' = NoCommand
  BY DEF CleanupPackage, PkAt, PkEnd
<1>2. RemoveCommand
  BY <1>1 DEF PackageInv, CommandFits, NoCommand
<1>3. PICK root \in InstallRoot : root = RootOf(cmd.scope)
  BY <1>2, RootsOfScopes DEF RemoveCommand
<1>4. modules \in [InstallRoot -> Nat] /\ declared \in [InstallRoot -> Nat] /\ ~\E r : RollingBack(r)
  BY <1>1 DEF PackageInv, PackageShapes, RollingBack, PkAt
<1>5. CASE UNCHANGED <<modules, declared, lost>>
  BY <1>1, <1>4, <1>5, EndFits, PromptStays, PlanningKeepsPackages DEF PkAt
<1>6. CASE ~UNCHANGED <<modules, declared, lost>>
  <2>1. /\ modules' = [modules EXCEPT ![root] = 0] /\ declared' = [declared EXCEPT ![root] = 0]
        /\ cmd.entry.meta # NoMeta /\ Uninstalls(cmd.scope, cmd.entry)
        /\ lost' = IF \E e \in PkgEntries : RootOf(e[1]) = root
                             /\ (e[1] # cmd.scope \/ Meta(e).source # cmd.entry.meta.source)
                   THEN lost \cup {root} ELSE lost
    BY <1>3, <1>6 DEF CleanupPackage
  <2>2. modules' \in [InstallRoot -> Nat] /\ declared' \in [InstallRoot -> Nat]
        /\ \A r \in InstallRoot : r # root => modules'[r] = modules[r]
    BY <1>4, <2>1
  <2>3. ReliedOn(root) => root \in lost'
    <3>1. root \notin mine
      BY <1>2, <1>3, <2>1 DEF RemoveCommand, NotMine, Uninstalls
    <3>2. ASSUME NEW e \in PkgEntries, RootOf(e[1]) = root
          PROVE  e[1] # cmd.scope \/ Meta(e).source # cmd.entry.meta.source
      BY <2>1, <3>2 DEF Uninstalls, SamePackage
    <3> QED
      BY <2>1, <3>1, <3>2, ReliedOnEntries
  <2>4. ASSUME NEW r \in InstallRoot PROVE Stays(r)'
    <3>1. Stays(r) /\ (ReliedOn(r)' <=> ReliedOn(r))
      BY <1>1 DEF PackageInv, ReliedOn, HasMeta
    <3>2. lost \subseteq lost'
      BY <2>1
    <3> QED
      BY <1>4, <2>2, <2>3, <3>1, <3>2 DEF Stays, Holds
  <2>5. PackageShapes' /\ NoneMine(registry)'
    BY <1>1, <2>2 DEF PackageInv, PackageShapes, NoneMine, NotMine
  <2> QED
    BY <1>1, <2>4, <2>5, EndFits, PromptStays DEF PackageInv
<1> QED
  BY <1>5, <1>6

LEMMA PromptsKeepPackages ==
    ASSUME PackageInv,
           \/ \E s \in Scope, n \in RegName : Select(s, n)
           \/ PlanUpdate \/ ConfirmUpdate \/ DeclinePrompt
    PROVE  PackageInv'
<1>1. UNCHANGED <<registry, mine, modules, lost, declared>> /\ cmd = NoCommand
  BY DEF Select, PlanUpdate, Hold, ConfirmUpdate, DeclinePrompt
<1>2. /\ declared \in [InstallRoot -> Nat] /\ NoneMine(registry) /\ ConfigsShape(registry)
      /\ CommandFits /\ PromptFits
  BY DEF PackageInv, PackageShapes, ConfigsShape
<1>3. CASE \E s \in Scope, n \in RegName : Select(s, n)
  <2>1. PICK s \in Scope, n \in RegName : Select(s, n)
    BY <1>3
  <2>2. prompt' = [held |-> "entry", scope |-> s, name |-> n, entry |-> registry[s][n]] /\ UNCHANGED cmd
    BY <2>1 DEF Select, Hold
  <2>3. /\ prompt'.held = "entry" /\ prompt'.scope = s /\ prompt'.name = n /\ prompt'.entry = registry[s][n]
    BY <2>2
  <2>4. NotMine(s, registry[s][n].meta)'
    BY <1>1, <1>2 DEF NoneMine, NotMine
  <2>5. PromptFits' /\ CommandFits'
    BY <1>1, <2>2, <2>3, <2>4 DEF PromptFits, NotMine, CommandFits
  <2> QED
    BY <1>1, <1>2, <2>5, PlanningKeepsPackages DEF PkAt
<1>4. CASE PlanUpdate
  <2>1. PICK planned, roots :
           /\ roots \subseteq InstallRoot /\ UNCHANGED cmd
           /\ prompt' = [held |-> "plan", roots |-> roots, configs |-> registry, roles |-> planned,
                         merged |-> Additions]
    <3>1. Targets \subseteq InstallRoot
      BY RootsOfScopes DEF Targets, PkgEntries, Entries
    <3>2. PICK chosen \in SUBSET Targets :
            Hold([held |-> "plan", roots |-> {r \in chosen : declared[r] # Published}, configs |-> registry,
                  roles |-> [s \in Scope |-> IF s \in Additions
                                             THEN roles[s] \cup {modules[RootOf(s)]} ELSE roles[s]],
                  merged |-> Additions])
      BY <1>4, Zenon DEF PlanUpdate
    <3>3. PICK planned : planned = [s \in Scope |-> IF s \in Additions
                                                  THEN roles[s] \cup {modules[RootOf(s)]} ELSE roles[s]]
      OBVIOUS
    <3>4. PICK changed : changed = {r \in chosen : declared[r] # Published}
      OBVIOUS
    <3>5. changed \subseteq InstallRoot
      BY <3>1, <3>4
    <3>6. /\ prompt' = [held |-> "plan", roots |-> changed, configs |-> registry, roles |-> planned,
                        merged |-> Additions]
          /\ UNCHANGED cmd
      BY <3>2, <3>3, <3>4, Zenon DEF Hold
    <3> QED
      BY <3>5, <3>6
  <2>2. /\ prompt'.held = "plan" /\ prompt'.roots = roots /\ prompt'.configs = registry
        /\ prompt'.merged = Additions
    BY <2>1
  <2>3. PromptFits' /\ CommandFits'
    BY <1>1, <1>2, <2>1, <2>2 DEF PromptFits, ConfigsShape, NoneMine, NotMine, CommandFits, Additions
  <2> QED
    BY <1>1, <1>2, <2>3, PlanningKeepsPackages DEF PkAt
<1>5. CASE ConfirmUpdate
  <2>1. PICK merged \in {{}, prompt.merged} :
          cmd' = [op |-> "update", at |-> "rewrite", roots |-> prompt.roots, merged |-> merged,
                  configs |-> prompt.configs, roles |-> prompt.roles]
    BY <1>5 DEF ConfirmUpdate
  <2>2. /\ prompt.roots \subseteq InstallRoot /\ prompt.merged \subseteq Scope
        /\ ConfigsShape(prompt.configs) /\ NoneMine(prompt.configs)
    BY <1>2, <1>5 DEF PromptFits, ConfirmUpdate, NoPrompt
  <2>3. /\ cmd'.op = "update" /\ cmd'.at = "rewrite" /\ cmd'.roots = prompt.roots /\ cmd'.merged = merged
        /\ cmd'.configs = prompt.configs /\ cmd'.roles = prompt.roles
    BY <2>1
  <2>4. UpdateCommand'
    BY <1>1, <2>1, <2>2, <2>3 DEF UpdateCommand, ConfigsShape, NoneMine, NotMine
  <2>5. PromptFits' /\ CommandFits'
    BY <1>5, <2>3, <2>4 DEF ConfirmUpdate, PromptFits, CommandFits
  <2> QED
    BY <1>1, <1>2, <2>5, PlanningKeepsPackages DEF PkAt
<1>6. CASE DeclinePrompt
  <2>1. PromptFits' /\ CommandFits'
    BY <1>1, <1>6 DEF DeclinePrompt, PromptFits, CommandFits
  <2> QED
    BY <1>1, <1>2, <2>1, PlanningKeepsPackages DEF PkAt
<1> QED
  BY <1>3, <1>4, <1>5, <1>6

LEMMA UpdateKeepsPackages ==
    ASSUME PackageInv, RewriteRanges \/ InstallGroup \/ MergePlanned
    PROVE  PackageInv'
<1>1. UNCHANGED <<mine, prompt>> /\ cmd # NoCommand /\ cmd.op = "update" /\ ~\E r : RollingBack(r)
  BY DEF RewriteRanges, InstallGroup, MergePlanned, PkAt, RollingBack
<1>2. UpdateCommand
  BY <1>1 DEF PackageInv, CommandFits, NoCommand
<1>3. /\ modules \in [InstallRoot -> Nat] /\ declared \in [InstallRoot -> Nat]
      /\ registry = [t \in Scope |-> [n \in RegName |-> registry[t][n]]] /\ PromptFits'
  BY <1>1, PromptStays DEF PackageInv, PackageShapes
<1>4. ASSUME NEW at, NEW roots, NEW merged, roots \subseteq cmd.roots, merged \subseteq cmd.merged,
             cmd' = [op |-> "update", at |-> at, roots |-> roots, merged |-> merged,
                     configs |-> cmd.configs, roles |-> cmd.roles]
      PROVE  CommandFits' /\ \A r : ~RollingBack(r)'
  <2>1. /\ cmd'.op = "update" /\ cmd'.at = at /\ cmd'.roots = roots /\ cmd'.merged = merged
        /\ cmd'.configs = cmd.configs /\ cmd'.roles = cmd.roles
    BY <1>4
  <2>2. UpdateCommand'
    BY <1>1, <1>2, <1>4, <2>1 DEF UpdateCommand, ConfigsShape, NoneMine, NotMine
  <2> QED
    BY <2>1, <2>2 DEF CommandFits, RollingBack, PkAt
<1>5. PICK at, roots, merged, configs, rls :
         /\ at = cmd.at /\ roots = cmd.roots /\ merged = cmd.merged /\ configs = cmd.configs /\ rls = cmd.roles
         /\ cmd = [op |-> "update", at |-> at, roots |-> roots, merged |-> merged,
                   configs |-> configs, roles |-> rls]
  BY <1>2 DEF UpdateCommand
<1>6. CASE RewriteRanges
  <2>1. /\ UNCHANGED <<registry, modules, lost>> /\ cmd' = [cmd EXCEPT !.at = "npm"]
        /\ declared' \in [InstallRoot -> Nat]
    <3>1. Published \in Nat
      BY PackageAssumption
    <3> QED
      BY <1>3, <1>6, <3>1 DEF RewriteRanges
  <2>2. cmd' = [op |-> "update", at |-> "npm", roots |-> cmd.roots, merged |-> cmd.merged,
                configs |-> cmd.configs, roles |-> cmd.roles]
    BY <1>5, <2>1
  <2>3. CommandFits'
    BY <1>4, <2>2
  <2> QED
    BY <1>1, <1>3, <2>1, <2>3, PlanningKeepsPackages DEF RollingBack, PkAt
<1>7. CASE InstallGroup /\ cmd' = NoCommand /\ UNCHANGED <<modules, lost>>
  BY <1>1, <1>3, <1>7, EndFits, PlanningKeepsPackages DEF InstallGroup, PkAt
<1>8. CASE InstallGroup /\ ~(cmd' = NoCommand /\ UNCHANGED <<modules, lost>>)
  <2>1. PICK r \in InstallRoot : /\ modules' = [modules EXCEPT ![r] = declared[r]]
                                 /\ lost' = IF declared[r] = 0 THEN lost \cup {r} ELSE lost
                                 /\ cmd' = [cmd EXCEPT !.at = "rewrite", !.roots = @ \ {r}]
    BY <1>2, <1>8 DEF InstallGroup, UpdateCommand
  <2>2. UNCHANGED <<registry, declared>>
    BY <1>8 DEF InstallGroup
  <2>3. CommandFits'
    <3>1. cmd' = [op |-> "update", at |-> "rewrite", roots |-> cmd.roots \ {r}, merged |-> cmd.merged,
                  configs |-> cmd.configs, roles |-> cmd.roles]
      <4>1. PICK rest : rest = cmd.roots \ {r} /\ cmd' = [cmd EXCEPT !.at = "rewrite", !.roots = rest]
        BY <2>1
      <4>2. cmd' = [op |-> "update", at |-> "rewrite", roots |-> rest, merged |-> merged,
                    configs |-> configs, roles |-> rls]
        <5>1. PICK mid : mid = [cmd EXCEPT !.at = "rewrite"]
          OBVIOUS
        <5>2. mid = [op |-> "update", at |-> "rewrite", roots |-> roots, merged |-> merged,
                     configs |-> configs, roles |-> rls]
          BY <1>5, <5>1
        <5>3. cmd' = [mid EXCEPT !.roots = rest]
          BY <4>1, <5>1
        <5> QED
          BY <5>2, <5>3
      <4> QED
        BY <1>5, <4>1, <4>2
    <3> QED
      BY <1>4, <3>1
  <2>4. /\ modules' \in [InstallRoot -> Nat] /\ modules'[r] = declared[r]
        /\ \A q \in InstallRoot : q # r => modules'[q] = modules[q]
    BY <1>3, <2>1
  <2>5. PackageShapes' /\ NoneMine(registry)'
    BY <1>1, <1>3, <2>2, <2>4 DEF PackageInv, PackageShapes, NoneMine, NotMine
  <2>6. ASSUME NEW q \in InstallRoot PROVE Stays(q)'
    <3>1. Stays(q) /\ ~RollingBack(q) /\ (ReliedOn(q)' <=> ReliedOn(q))
      BY <1>1, <2>2 DEF PackageInv, ReliedOn, HasMeta
    <3> QED
      BY <2>1, <2>4, <3>1 DEF Stays, Holds
  <2> QED
    BY <1>3, <2>3, <2>5, <2>6 DEF PackageInv
<1>9. CASE MergePlanned /\ cmd.merged = {}
  <2>1. cmd' = NoCommand /\ UNCHANGED <<registry, lost, modules, declared>>
    BY <1>9 DEF MergePlanned, PkEnd
  <2> QED
    BY <1>1, <1>3, <2>1, EndFits, PlanningKeepsPackages DEF PkAt
<1>10. CASE MergePlanned /\ cmd.merged # {}
  <2>1. PICK s \in Scope : /\ registry' = [registry EXCEPT ![s] = cmd.configs[s]]
                           /\ lost' = IF registry'[s] # registry[s] THEN lost \cup {RootOf(s)} ELSE lost
                           /\ cmd' = [cmd EXCEPT !.merged = @ \ {s}]
    BY <1>2, <1>10 DEF MergePlanned, UpdateCommand
  <2>2. UNCHANGED <<modules, declared>> /\ cmd.configs = [t \in Scope |-> [n \in RegName |-> cmd.configs[t][n]]]
    BY <1>2, <1>10 DEF MergePlanned, UpdateCommand, ConfigsShape
  <2>3. CommandFits'
    <3>1. cmd' = [op |-> "update", at |-> cmd.at, roots |-> cmd.roots, merged |-> cmd.merged \ {s},
                  configs |-> cmd.configs, roles |-> cmd.roles]
      BY <1>5, <2>1
    <3> QED
      BY <1>4, <3>1
  <2>4. PICK row : row = cmd.configs[s]
    OBVIOUS
  <2>5. row = [n \in RegName |-> row[n]]
    BY <2>2, <2>4
  <2>6. registry' = [registry EXCEPT ![s] = row]
    BY <2>1, <2>4
  <2>7. /\ registry' = [t \in Scope |-> [n \in RegName |-> registry'[t][n]]]
        /\ registry'[s] = row /\ \A t \in Scope \ {s} : registry'[t] = registry[t]
    BY <1>3, <2>5, <2>6
  <2>8. NoneMine(registry)'
    BY <1>1, <1>2, <2>4, <2>7 DEF PackageInv, UpdateCommand, NoneMine, NotMine
  <2>9. PackageShapes'
    BY <1>1, <2>2, <2>7 DEF PackageInv, PackageShapes
  <2>10. ASSUME NEW q \in InstallRoot PROVE Stays(q)'
    <3>1. Stays(q) /\ ~RollingBack(q)
      BY <1>1 DEF PackageInv
    <3>2. q \in lost' \/ (ReliedOn(q)' <=> ReliedOn(q))
      <4>1. CASE q = RootOf(s) /\ registry'[s] # registry[s]
        BY <2>1, <4>1
      <4>2. CASE q = RootOf(s) /\ registry'[s] = registry[s]
        BY <1>1, <2>7, <4>2 DEF ReliedOn, HasMeta
      <4>3. CASE q # RootOf(s)
        <5>1. \A t \in Scope : RootOf(t) = q => registry'[t] = registry[t]
          BY <2>7, <4>3
        <5> QED
          BY <1>1, <5>1 DEF ReliedOn, HasMeta
      <4> QED
        BY <4>1, <4>2, <4>3
    <3>3. lost \subseteq lost'
      BY <2>1
    <3> QED
      BY <2>2, <3>1, <3>2, <3>3 DEF Stays, Holds
  <2> QED
    BY <1>3, <2>3, <2>8, <2>9, <2>10 DEF PackageInv
<1> QED
  BY <1>6, <1>7, <1>8, <1>9, <1>10

LEMMA KillKeepsPackages ==
    ASSUME PackageInv, KillCommand
    PROVE  PackageInv'
<1>1. /\ UNCHANGED <<registry, mine, modules, declared, prompt>> /\ cmd' = NoCommand
      /\ lost' = IF PkAt("add", "copy") THEN lost \cup {RootOf(cmd.scope)} ELSE lost
  BY DEF KillCommand
<1>2. PackageShapes' /\ NoneMine(registry)' /\ PromptFits' /\ CommandFits'
  BY <1>1, EndFits, PromptStays DEF PackageInv, PackageShapes, NoneMine, NotMine
<1>3. ASSUME NEW q \in InstallRoot PROVE Stays(q)'
  <2>1. Stays(q) /\ (ReliedOn(q)' <=> ReliedOn(q))
    BY <1>1 DEF PackageInv, ReliedOn, HasMeta
  <2> QED
    BY <1>1, <2>1 DEF Stays, Holds, RollingBack
<1> QED
  BY <1>2, <1>3 DEF PackageInv

\* A package stays installed for as long as something relies on it, however many
\* commands run, wait at their prompts and are killed
\* (package-install-rollback.ts:60): a removal asks who else uses the package and
\* uninstalls what TrailStep installed, and no snapshot restores less than what was
\* relied on when it was taken.
THEOREM PackagesAreKept == PKSpec => []PackagesStay
<1>1. PKInit => PackageInv
  <2> SUFFICES ASSUME PKInit PROVE PackageInv
    OBVIOUS
  <2>6. PICK m \in {0, 1}, d \in {0, 1}, b \in BOOLEAN :
          /\ b => m = 1
          /\ modules = [r \in InstallRoot |-> IF r = "cwd" THEN m ELSE 0]
          /\ declared = [r \in InstallRoot |-> IF r = "cwd" THEN d ELSE 0]
          /\ registry = [s \in Scope |-> IF b /\ s # "global" THEN Earlier(s = "local") ELSE Nothing]
          /\ mine = IF m # 0 /\ ~b THEN {"cwd"} ELSE {}
    <3>1. PICK start \in {<<0, 0, FALSE>>, <<1, 1, FALSE>>, <<0, 1, FALSE>>, <<1, 1, TRUE>>} :
          /\ modules = [r \in InstallRoot |-> IF r = "cwd" THEN start[1] ELSE 0]
          /\ declared = [r \in InstallRoot |-> IF r = "cwd" THEN start[2] ELSE 0]
          /\ registry = [s \in Scope |-> IF start[3] /\ s # "global" THEN Earlier(s = "local") ELSE Nothing]
          /\ mine = IF start[1] # 0 /\ ~start[3] THEN {"cwd"} ELSE {}
      BY DEF PKInit
    <3>2. start[1] \in {0, 1} /\ start[2] \in {0, 1} /\ start[3] \in BOOLEAN /\ (start[3] => start[1] = 1)
      <4>1. CASE start = <<0, 0, FALSE>>
        BY <4>1
      <4>2. CASE start = <<1, 1, FALSE>>
        BY <4>2
      <4>3. CASE start = <<0, 1, FALSE>>
        BY <4>3
      <4>4. CASE start = <<1, 1, TRUE>>
        BY <4>4
      <4> QED
        BY <4>1, <4>2, <4>3, <4>4
    <3> QED
      BY <3>1, <3>2
  <2>1. /\ registry = [s \in Scope |-> [n \in RegName |-> registry[s][n]]]
        /\ \A s \in Scope, n \in RegName : registry[s][n].meta # NoMeta => mine = {} /\ modules["cwd"] = 1
                                                                        /\ s # "global"
    <3>1. \A own : Earlier(own) = [n \in RegName |-> Earlier(own)[n]]
      BY DEF Earlier
    <3>2. Nothing = [n \in RegName |-> NoReg] /\ NoReg.meta = NoMeta
      BY DEF Nothing, NoReg
    <3> QED
      BY <2>6, <3>1, <3>2 DEF InstallRoot, Scope
  <2>2. /\ modules \in [InstallRoot -> Nat] /\ declared \in [InstallRoot -> Nat] /\ mine \subseteq InstallRoot
        /\ "cwd" \in mine => modules["cwd"] # 0
        /\ "home" \notin mine
    BY <2>6 DEF InstallRoot
  <2>3. PackageShapes /\ NoneMine(registry)
    BY <2>1, <2>2 DEF PackageShapes, NoneMine, NotMine
  <2>4. CommandFits /\ PromptFits
    BY DEF PKInit, CommandFits, PromptFits
  <2>5. ASSUME NEW r \in InstallRoot PROVE Stays(r)
    BY <2>1, <2>2 DEF Stays, ReliedOn, HasMeta, Holds, RootOf, InstallRoot, Scope
  <2> QED
    BY <2>3, <2>4, <2>5 DEF PackageInv
<1>2. PackageInv /\ [PKNext]_pkVars => PackageInv'
  <2> SUFFICES ASSUME PackageInv, [PKNext]_pkVars PROVE PackageInv'
    OBVIOUS
  <2>1. CASE UNCHANGED pkVars
    <3>1. PackageShapes' /\ NoneMine(registry)'
      BY <2>1 DEF pkVars, PackageInv, PackageShapes, NoneMine, NotMine
    <3>2. CommandFits'
      BY <2>1 DEF pkVars, PackageInv, CommandFits, AddCommand, RemoveCommand, UpdateCommand, ReliedOn,
         HasMeta, Holds, NotMine, NoneMine, ConfigsShape
    <3>3. PromptFits'
      BY <2>1, PromptStays DEF pkVars
    <3>4. ASSUME NEW r \in InstallRoot PROVE Stays(r)'
      BY <2>1 DEF pkVars, PackageInv, Stays, ReliedOn, HasMeta, Holds, RollingBack, PkAt
    <3> QED
      BY <3>1, <3>2, <3>3, <3>4 DEF PackageInv
  <2> QED
    BY <2>1, AddStarts, InstallKeepsPackages, AddPlanKeeps, WriteKeepsPackages, RestoreKeepsPackages,
       MovesKeepPackages, CleanupKeepsPackages, PromptsKeepPackages, UpdateKeepsPackages,
       KillKeepsPackages DEF PKNext
<1>3. PackageInv => PackagesStay
  BY ReliedOnEntries DEF PackageInv, Stays, PackagesStay
<1> QED
  BY <1>1, <1>2, <1>3, PTL DEF PKSpec


(***************************************************************************)
(* WorkingAgent.                                                           *)
(***************************************************************************)
AgentPlace ==
    {"select", "exhausted", "attempt", "failed", "work", "format", "running", "settling", "read",
     "attemptFormat", "formatFailed", "done"}
Process ==
    [state : {"running", "term", "killed", "ok", "bad", "ntstatus"}, attempt : Nat,
     format : BOOLEAN, kind : TargetKind]
AgentRecord ==
    [pc : AgentPlace, target : Nat \ {0}, try : Nat, attempt : Nat, format : Nat, formatTry : Nat,
     budget : Nat, transient : BOOLEAN, took : Nat]
OutputFile == [by : Nat, valid : BOOLEAN]
AgentClock == [since : Nat, bound : Nat]

AgentTypes ==
    /\ targets \in [list : TargetList, timeout : StepTimeout]
    /\ wa \in AgentRecord /\ procs \in Seq(Process) /\ outFile \in OutputFile
    /\ left \in Nat /\ clock \in AgentClock /\ aborted \in BOOLEAN

\* A target is at work.
Aimed == wa.pc \notin {"select", "exhausted"} => wa.target \in 1 .. Len(targets.list)

\* A process that can write is the last one started, and it is waited for.
Writing(p) == procs[p].state \in {"running", "term"}
OnlyTheLastWrites ==
    \A p \in 1 .. Len(procs) : Writing(p) => p = Len(procs) /\ wa.pc \in {"running", "settling"}

\* The last process is of the attempt at work once the attempt has one.
LastIsOwn ==
    wa.pc \in {"running", "settling", "read", "attemptFormat", "format", "formatFailed"} =>
        procs # <<>> /\ Current.attempt = wa.attempt

\* The wait for the end of a process lasts at least as long as its grace.
GraceFits ==
    /\ wa.pc \in {"running", "settling"} => clock.bound >= MinSettlement
    /\ wa.pc \in {"running", "settling"} /\ Current.state = "term" => clock.since <= Grace
    /\ wa.pc = "settling" => Current.state # "running"

\* An answer that fits is of the attempt at work.
OwnProcess(p) == p \in 1 .. Len(procs) /\ procs[p].attempt = wa.attempt
AnswerIsOwn == (outFile.valid => OwnProcess(outFile.by)) /\ (wa.pc = "done" => OwnProcess(wa.took))

AgentInv == AgentTypes /\ Aimed /\ OnlyTheLastWrites /\ LastIsOwn /\ GraceFits /\ AnswerIsOwn
\* What a new state of one process leaves.
Signalled(ps, p, st) == [ps EXCEPT ![p].state = st]
OneMoved(ps, new, p, st) ==
    /\ new \in Seq(Process) /\ Len(new) = Len(ps) /\ (ps # <<>> => new # <<>>)
    /\ \A q \in 1 .. Len(ps) : /\ new[q].attempt = ps[q].attempt
                               /\ new[q].state = IF q = p THEN st ELSE ps[q].state

LEMMA StateOfProcess ==
    ASSUME NEW ps \in Seq(Process), NEW p \in 1 .. Len(ps),
           NEW st \in {"running", "term", "killed", "ok", "bad", "ntstatus"}
    PROVE  OneMoved(ps, Signalled(ps, p, st), p, st)
<1>0. ps[p] \in Process
  OBVIOUS
<1>1. [ps[p] EXCEPT !.state = st] \in Process
  BY <1>0 DEF Process
<1>2. /\ [ps[p] EXCEPT !.state = st].attempt = ps[p].attempt
      /\ [ps[p] EXCEPT !.state = st].state = st
  BY <1>0 DEF Process
<1>3. \A x \in Process : [ps EXCEPT ![p] = x] \in Seq(Process) /\ Len([ps EXCEPT ![p] = x]) = Len(ps)
                        /\ \A q \in 1 .. Len(ps) : [ps EXCEPT ![p] = x][q] = IF q = p THEN x ELSE ps[q]
  OBVIOUS
<1>4. Signalled(ps, p, st) = [ps EXCEPT ![p] = [ps[p] EXCEPT !.state = st]]
  BY DEF Signalled
<1>5. Len(ps) # 0 /\ Len(<<>>) = 0
  OBVIOUS
<1> QED
  BY <1>1, <1>2, <1>3, <1>4, <1>5 DEF OneMoved

\* A failure leaves the rest of the record.
LEMMA FailKeepsRecord ==
    ASSUME wa \in AgentRecord, NEW t \in BOOLEAN, Fail(t)
    PROVE  wa' \in AgentRecord
BY DEF Fail, AgentRecord, AgentPlace

LEMMA ProcessStarts ==
    ASSUME NEW ps \in Seq(Process), NEW x \in Process
    PROVE  /\ Append(ps, x) \in Seq(Process) /\ Len(Append(ps, x)) = Len(ps) + 1 /\ Append(ps, x) # <<>>
           /\ Append(ps, x)[Len(ps) + 1] = x
           /\ \A q \in 1 .. Len(ps) : Append(ps, x)[q] = ps[q]
OBVIOUS

\* The steps that leave the processes and what they wrote alone.
LEMMA QuietKeepsAgent ==
    ASSUME AgentInv,
           SelectTarget \/ WorkEnds \/ TwoPhaseWorkEnds \/ FormatEnds \/ Tick \/ Settled
           \/ AttemptFormat \/ RetryFormat \/ AfterFailure \/ Heartbeat
    PROVE  AgentInv'
<1>1. /\ targets \in [list : TargetList, timeout : StepTimeout] /\ wa \in AgentRecord
      /\ procs \in Seq(Process) /\ outFile \in OutputFile /\ left \in Nat /\ clock \in AgentClock
      /\ aborted \in BOOLEAN /\ targets.list \in Seq(TargetKind) /\ Len(targets.list) \in Nat
  BY AgentAssumption DEF AgentInv, AgentTypes
<1>2. UNCHANGED <<targets, procs, outFile, aborted>>
  BY DEF SelectTarget, WorkEnds, TwoPhaseWorkEnds, FormatEnds, Tick, Settled, Exited, AttemptFormat,
     RetryFormat, AfterFailure, Heartbeat
<1>3. AgentTypes'
  <2>1. left' \in Nat /\ clock' \in AgentClock
    <3>1. TimePasses => left' \in Nat
      BY <1>1 DEF TimePasses
    <3>2. UNCHANGED clock \/ clock' = [clock EXCEPT !.since = @ + 1]
      BY DEF SelectTarget, WorkEnds, TwoPhaseWorkEnds, FormatEnds, Tick, Settled, Exited,
         AttemptFormat, RetryFormat, AfterFailure, Heartbeat
    <3>3. UNCHANGED left \/ TimePasses
      BY DEF SelectTarget, WorkEnds, TwoPhaseWorkEnds, FormatEnds, Tick, Settled, Exited,
         AttemptFormat, RetryFormat, AfterFailure, Heartbeat
    <3> QED
      BY <1>1, <3>1, <3>2, <3>3 DEF AgentClock
  <2>2. wa' \in AgentRecord
    <3>0. wa \in AgentRecord
      BY <1>1
    <3>1. CASE SelectTarget
      BY <1>1, <3>0, <3>1, AgentAssumption DEF SelectTarget, AgentRecord, AgentPlace
    <3>11. ASSUME NEW t \in BOOLEAN, Fail(t) PROVE wa' \in AgentRecord
      BY <3>0, <3>11, FailKeepsRecord
    <3>12. (Current.state = "ntstatus") \in BOOLEAN
      OBVIOUS
    <3>2. CASE WorkEnds
      <4>1. CASE Current.state = "ok"
        <5>1. wa' = [wa EXCEPT !.pc = "read"]
          BY <3>2, <4>1 DEF WorkEnds
        <5> QED
          BY <3>0, <5>1 DEF AgentRecord, AgentPlace
      <4> QED
        BY <3>2, <3>11, <3>12, <4>1 DEF WorkEnds
    <3>3. CASE TwoPhaseWorkEnds
      <4>1. CASE Current.state = "ok"
        <5>1. wa' = [wa EXCEPT !.pc = "attemptFormat", !.format = 1, !.formatTry = 1]
          BY <3>3, <4>1 DEF TwoPhaseWorkEnds
        <5> QED
          BY <3>0, <5>1 DEF AgentRecord, AgentPlace
      <4> QED
        BY <3>3, <3>11, <3>12, <4>1 DEF TwoPhaseWorkEnds
    <3>4. CASE FormatEnds
      BY <1>1, <3>0, <3>4, AgentAssumption DEF FormatEnds, Exited, TimePasses, AgentRecord, AgentPlace
    <3>5. CASE Tick
      BY <1>1, <3>0, <3>5, AgentAssumption DEF Tick, Grace, AgentRecord, AgentPlace
    <3>6. CASE Settled
      BY <1>1, <3>0, <3>6, AgentAssumption DEF Settled, Fail, AgentRecord, AgentPlace
    <3>7. CASE AttemptFormat
      <4>1. CASE wa' = [wa EXCEPT !.pc = "format", !.budget = left, !.formatTry = 1]
        BY <1>1, <3>0, <4>1 DEF AgentRecord, AgentPlace
      <4> QED
        BY <3>7, <3>11, <4>1 DEF AttemptFormat
    <3>8. CASE RetryFormat
      <4>1. CASE wa' = [wa EXCEPT !.pc = "format", !.formatTry = @ + 1]
        <5>1. wa.formatTry + 1 \in Nat
          BY <3>0 DEF AgentRecord
        <5> QED
          BY <3>0, <4>1, <5>1 DEF AgentRecord, AgentPlace
      <4> QED
        BY <3>8, <3>11, <3>12, <4>1 DEF RetryFormat
    <3>9. CASE AfterFailure
      <4>1. wa.try + 1 \in Nat /\ wa.target + 1 \in Nat \ {0}
        BY <3>0 DEF AgentRecord
      <4> QED
        BY <3>0, <3>9, <4>1 DEF AfterFailure, AgentRecord, AgentPlace
    <3>10. CASE Heartbeat
      BY <1>1, <3>0, <3>10, AgentAssumption DEF Heartbeat, AgentRecord, AgentPlace
    <3> QED
      BY <3>1, <3>2, <3>3, <3>4, <3>5, <3>6, <3>7, <3>8, <3>9, <3>10
  <2> QED
    BY <1>1, <1>2, <2>1, <2>2 DEF AgentTypes
<1>4. wa'.pc \in {"running", "settling"} \/ \A p \in 1 .. Len(procs) : ~Writing(p)
  <2>0. \A p \in 1 .. Len(procs) : Writing(p) => p = Len(procs) /\ wa.pc \in {"running", "settling"}
    BY DEF AgentInv, OnlyTheLastWrites
  <2>1. CASE WorkEnds \/ TwoPhaseWorkEnds \/ FormatEnds
    BY <1>1, <2>0, <2>1 DEF WorkEnds, TwoPhaseWorkEnds, FormatEnds, Exited, Alive, Writing
  <2>2. CASE Settled
    <3>1. CASE ~Alive(Len(procs))
      BY <1>1, <2>0, <3>1 DEF Alive, Writing
    <3>2. CASE clock.since = clock.bound /\ ~(clock.since = Grace /\ Current.state = "term")
      <4>1. clock.bound >= MinSettlement /\ (Current.state = "term" => clock.since <= Grace)
            /\ Current.state # "running"
        BY <2>2 DEF AgentInv, GraceFits, Settled
      <4>2. Current.state # "term"
        BY <1>1, <3>2, <4>1 DEF Grace, MinSettlement, AgentClock
      <4>3. \A p \in 1 .. Len(procs) : p = Len(procs) => ~Writing(p)
        BY <4>1, <4>2 DEF Writing, Current
      <4> QED
        BY <2>0, <4>3
    <3> QED
      BY <2>2, <3>1, <3>2 DEF Settled
  <2>3. CASE SelectTarget \/ AttemptFormat \/ RetryFormat \/ AfterFailure
    BY <2>0, <2>3 DEF SelectTarget, AttemptFormat, RetryFormat, AfterFailure
  <2>4. CASE Tick \/ Heartbeat
    BY <2>0, <2>4 DEF Tick, Heartbeat
  <2> QED
    BY <2>1, <2>2, <2>3, <2>4
<1>5. OnlyTheLastWrites'
  BY <1>2, <1>4 DEF AgentInv, OnlyTheLastWrites, Writing
<1>6. Aimed'
  <2>0. Aimed
    BY DEF AgentInv
  <2>1. CASE SelectTarget
    <3>1. wa.target \in Nat \ {0}
      BY <1>1 DEF AgentRecord
    <3>2. wa'.target = wa.target /\ wa'.pc = (IF wa.target > Len(targets.list) THEN "exhausted" ELSE "attempt")
      BY <1>1, <2>1 DEF SelectTarget, AgentRecord
    <3> QED
      BY <1>1, <1>2, <3>1, <3>2 DEF Aimed
  <2>2. CASE WorkEnds \/ TwoPhaseWorkEnds \/ FormatEnds
    BY <1>1, <1>2, <2>0, <2>2 DEF WorkEnds, TwoPhaseWorkEnds, FormatEnds, Exited, Fail, Aimed, AgentRecord
  <2>3. CASE Tick \/ Settled \/ Heartbeat
    BY <1>1, <1>2, <2>0, <2>3 DEF Tick, Settled, Heartbeat, Fail, Aimed, AgentRecord
  <2>4. CASE AttemptFormat \/ RetryFormat \/ AfterFailure
    BY <1>1, <1>2, <2>0, <2>4 DEF AttemptFormat, RetryFormat, AfterFailure, Fail, Aimed, AgentRecord
  <2> QED
    BY <2>1, <2>2, <2>3, <2>4
<1>7. wa'.attempt = wa.attempt /\ wa'.took = wa.took
  <2>1. CASE SelectTarget \/ FormatEnds \/ AfterFailure
    BY <1>1, <2>1 DEF SelectTarget, FormatEnds, AfterFailure, AgentRecord
  <2>2. CASE WorkEnds \/ TwoPhaseWorkEnds
    BY <1>1, <2>2 DEF WorkEnds, TwoPhaseWorkEnds, Fail, AgentRecord
  <2>3. CASE Tick \/ Settled \/ Heartbeat
    BY <1>1, <2>3 DEF Tick, Settled, Heartbeat, Fail, AgentRecord
  <2>4. CASE AttemptFormat \/ RetryFormat
    BY <1>1, <2>4 DEF AttemptFormat, RetryFormat, Fail, AgentRecord
  <2> QED
    BY <2>1, <2>2, <2>3, <2>4
<1>8. LastIsOwn'
  <2>0. wa'.pc \in {"running", "settling", "read", "attemptFormat", "format", "formatFailed"}
        => wa.pc \in {"running", "settling", "read", "attemptFormat", "format", "formatFailed"}
    BY <1>1 DEF SelectTarget, WorkEnds, TwoPhaseWorkEnds, FormatEnds, Tick, Settled, Exited, Fail,
       AttemptFormat, RetryFormat, AfterFailure, Heartbeat, AgentRecord
  <2> QED
    BY <1>2, <1>7, <2>0 DEF AgentInv, LastIsOwn, Current
<1>9. GraceFits'
  <2>0. wa'.pc \in {"running", "settling"} => wa'.pc = wa.pc
    BY <1>1 DEF SelectTarget, WorkEnds, TwoPhaseWorkEnds, FormatEnds, Tick, Settled, Exited, Fail,
       AttemptFormat, RetryFormat, AfterFailure, Heartbeat, AgentRecord
  <2>1. /\ clock'.bound = clock.bound
        /\ Current.state = "term" => clock'.since = clock.since \/ clock'.since <= Grace
    <3>1. CASE Tick
      BY <1>1, <3>1 DEF Tick, AgentClock, Grace
    <3>2. CASE ~Tick
      BY <3>2 DEF SelectTarget, WorkEnds, TwoPhaseWorkEnds, FormatEnds, Settled, Exited,
         AttemptFormat, RetryFormat, AfterFailure, Heartbeat
    <3> QED
      BY <3>1, <3>2
  <2> QED
    BY <1>2, <2>0, <2>1 DEF AgentInv, GraceFits, Current
<1>10. AnswerIsOwn'
  <2>0. wa'.pc = "done" => wa.pc = "done"
    BY <1>1 DEF SelectTarget, WorkEnds, TwoPhaseWorkEnds, FormatEnds, Tick, Settled, Exited, Fail,
       AttemptFormat, RetryFormat, AfterFailure, Heartbeat, AgentRecord
  <2> QED
    BY <1>2, <1>7, <2>0 DEF AgentInv, AnswerIsOwn, OwnProcess
<1> QED
  BY <1>3, <1>5, <1>6, <1>8, <1>9, <1>10 DEF AgentInv

LEMMA RemoveKeepsAgent ==
    ASSUME AgentInv, RemoveArtifacts
    PROVE  AgentInv'
<1>1. /\ targets \in [list : TargetList, timeout : StepTimeout] /\ wa \in AgentRecord
      /\ targets.list \in Seq(TargetKind) /\ targets.timeout \in Nat /\ procs \in Seq(Process)
  BY AgentAssumption DEF AgentInv, AgentTypes
<1>2. UNCHANGED <<targets, procs, left, clock, aborted>> /\ outFile' = NoOutput /\ wa.pc = "attempt"
  BY DEF RemoveArtifacts
<1>3. PICK place \in {"failed", "work"}, budget \in Nat :
        wa' = [wa EXCEPT !.pc = place, !.attempt = @ + 1, !.transient = FALSE, !.budget = budget]
  <2>1. WorkBudget \in Nat
    BY <1>1 DEF WorkBudget, Reserve
  <2> QED
    BY <2>1 DEF RemoveArtifacts
<1>4. wa.attempt + 1 \in Nat
  BY <1>1 DEF AgentRecord
<1>5. wa' \in AgentRecord /\ wa'.pc = place /\ wa'.target = wa.target
  BY <1>1, <1>3, <1>4 DEF AgentRecord, AgentPlace
<1>6. AgentTypes'
  BY <1>2, <1>5 DEF AgentInv, AgentTypes, NoOutput, OutputFile
<1>7. Aimed'
  BY <1>2, <1>5 DEF AgentInv, Aimed
<1>8. OnlyTheLastWrites'
  BY <1>2 DEF AgentInv, OnlyTheLastWrites, Writing
<1>9. LastIsOwn' /\ GraceFits' /\ AnswerIsOwn'
  BY <1>2, <1>5 DEF LastIsOwn, GraceFits, AnswerIsOwn, NoOutput
<1> QED
  BY <1>6, <1>7, <1>8, <1>9 DEF AgentInv

LEMMA SpawnKeepsAgent ==
    ASSUME AgentInv, Spawn
    PROVE  AgentInv'
<1>1. /\ targets \in [list : TargetList, timeout : StepTimeout] /\ wa \in AgentRecord
      /\ targets.list \in Seq(TargetKind) /\ procs \in Seq(Process) /\ Len(procs) \in Nat
      /\ clock \in AgentClock
  BY AgentAssumption DEF AgentInv, AgentTypes
<1>2. UNCHANGED <<targets, outFile, left, aborted>> /\ wa.pc \in {"work", "format"}
  BY DEF Spawn
<1>3. CASE Fail(FALSE) /\ UNCHANGED <<procs, clock>>
  <2>1. wa' \in AgentRecord /\ wa'.pc = "failed" /\ wa'.target = wa.target /\ wa'.attempt = wa.attempt
    BY <1>1, <1>3 DEF Fail, AgentRecord, AgentPlace
  <2>2. AgentTypes'
    BY <1>2, <1>3, <2>1 DEF AgentInv, AgentTypes
  <2>3. Aimed'
    BY <1>2, <2>1 DEF AgentInv, Aimed
  <2>4. OnlyTheLastWrites'
    BY <1>2, <1>3 DEF AgentInv, OnlyTheLastWrites, Writing
  <2>5. LastIsOwn' /\ GraceFits'
    BY <2>1 DEF LastIsOwn, GraceFits
  <2>6. AnswerIsOwn'
    BY <1>2, <1>3, <2>1 DEF AgentInv, AnswerIsOwn, OwnProcess
  <2> QED
    BY <2>2, <2>3, <2>4, <2>5, <2>6 DEF AgentInv
<1>4. CASE ~(Fail(FALSE) /\ UNCHANGED <<procs, clock>>)
  <2>1. /\ wa' = [wa EXCEPT !.pc = "running"]
        /\ procs' = Append(procs, [state |-> IF aborted THEN "term" ELSE "running",
                                   attempt |-> wa.attempt,
                                   format |-> wa.pc = "format", kind |-> Target])
        /\ clock' = [since |-> 0, bound |-> SettlementBound(wa.budget)]
    BY <1>4 DEF Spawn
  <2>2. wa' \in AgentRecord /\ wa'.pc = "running" /\ wa'.target = wa.target /\ wa'.attempt = wa.attempt
    BY <1>1, <2>1 DEF AgentRecord, AgentPlace
  <2>3. Target \in TargetKind
    BY <1>1, <1>2 DEF AgentInv, Aimed, Target
  <2>4. PICK x \in Process : procs' = Append(procs, x) /\ x.attempt = wa.attempt
    <3>1. (wa.pc = "format") \in BOOLEAN /\ wa.attempt \in Nat
          /\ (IF aborted THEN "term" ELSE "running") \in {"running", "term", "killed", "ok", "bad", "ntstatus"}
      BY <1>1 DEF AgentRecord
    <3>2. \A b \in BOOLEAN, st \in {"running", "term", "killed", "ok", "bad", "ntstatus"} :
            [state |-> st, attempt |-> wa.attempt, format |-> b, kind |-> Target] \in Process
      BY <2>3, <3>1 DEF Process
    <3>3. [state |-> IF aborted THEN "term" ELSE "running", attempt |-> wa.attempt,
           format |-> wa.pc = "format", kind |-> Target] \in Process
      BY <3>1, <3>2
    <3> QED
      BY <2>1, <3>3
  <2>5. /\ procs' \in Seq(Process) /\ Len(procs') = Len(procs) + 1 /\ procs' # <<>>
        /\ procs'[Len(procs')] = x /\ \A q \in 1 .. Len(procs) : procs'[q] = procs[q]
    BY <1>1, <2>4, ProcessStarts
  <2>6. clock' \in AgentClock /\ clock'.bound >= MinSettlement /\ clock'.since = 0
    <3>1. wa.budget \in Nat
      BY <1>1 DEF AgentRecord
    <3>2. SettlementBound(wa.budget) \in Nat /\ SettlementBound(wa.budget) >= MinSettlement
      BY <3>1 DEF SettlementBound, MinSettlement, MaxSettlement
    <3> QED
      BY <2>1, <3>2 DEF AgentClock
  <2>7. AgentTypes'
    BY <1>2, <2>2, <2>5, <2>6 DEF AgentInv, AgentTypes
  <2>8. Aimed'
    BY <1>2, <2>2 DEF AgentInv, Aimed
  <2>9. OnlyTheLastWrites'
    <3>1. \A q \in 1 .. Len(procs) : ~Writing(q)
      BY <1>2 DEF AgentInv, OnlyTheLastWrites
    <3> QED
      BY <1>1, <2>2, <2>5, <3>1 DEF OnlyTheLastWrites, Writing
  <2>10. LastIsOwn'
    BY <2>2, <2>4, <2>5 DEF LastIsOwn, Current
  <2>11. GraceFits'
    BY <2>2, <2>6 DEF GraceFits, Grace, MinSettlement
  <2>12. AnswerIsOwn'
    BY <1>1, <1>2, <2>2, <2>5 DEF AgentInv, AnswerIsOwn, OwnProcess
  <2> QED
    BY <2>7, <2>8, <2>9, <2>10, <2>11, <2>12 DEF AgentInv
<1> QED
  BY <1>3, <1>4

\* The answers of a process: only the last one writes, which is of the attempt at work.
LEMMA AnswerKeepsAgent ==
    ASSUME AgentInv, NEW p \in DOMAIN procs, AgentAnswers(p)
    PROVE  AgentInv'
<1>1. procs \in Seq(Process) /\ p \in 1 .. Len(procs) /\ Len(procs) \in Nat
  BY DEF AgentInv, AgentTypes
<1>2. /\ UNCHANGED <<targets, wa, procs, left, clock, aborted>> /\ procs[p].state \in {"running", "term"}
      /\ \E valid \in BOOLEAN : outFile' = [by |-> p, valid |-> valid]
  BY DEF AgentAnswers
<1>3. outFile' \in OutputFile /\ outFile'.by = p
  BY <1>1, <1>2 DEF OutputFile
<1>4. p = Len(procs) /\ wa.pc \in {"running", "settling"}
  BY <1>1, <1>2 DEF AgentInv, OnlyTheLastWrites, Writing
<1>5. OwnProcess(p)
  BY <1>1, <1>4 DEF AgentInv, LastIsOwn, Current, OwnProcess
<1>6. AgentTypes'
  BY <1>2, <1>3 DEF AgentInv, AgentTypes
<1>7. Aimed' /\ LastIsOwn' /\ GraceFits'
  BY <1>2 DEF AgentInv, Aimed, LastIsOwn, GraceFits, Current
<1>8. OnlyTheLastWrites'
  BY <1>2 DEF AgentInv, OnlyTheLastWrites, Writing
<1>9. AnswerIsOwn'
  BY <1>2, <1>3, <1>4, <1>5 DEF AnswerIsOwn, OwnProcess
<1> QED
  BY <1>6, <1>7, <1>8, <1>9 DEF AgentInv

\* A signal, or the end of a process: no process starts to write.
LEMMA SignalKeepsAgent ==
    ASSUME AgentInv, NEW p \in 1 .. Len(procs),
           NEW st \in {"term", "killed", "ok", "bad", "ntstatus"},
           procs' = [procs EXCEPT ![p].state = st], UNCHANGED <<targets, outFile>>,
           wa' \in AgentRecord, wa'.target = wa.target, wa'.attempt = wa.attempt, wa'.took = wa.took,
           wa'.pc = wa.pc \/ (wa.pc = "running" /\ wa'.pc = "settling" /\ p = Len(procs)),
           st = "term" => p = Len(procs) /\ wa'.pc \in {"running", "settling"} /\ clock'.since = 0,
           UNCHANGED clock \/ clock' = [clock EXCEPT !.since = 0],
           left' \in Nat, aborted' \in BOOLEAN
    PROVE  AgentInv'
<1>1. procs \in Seq(Process) /\ Len(procs) \in Nat /\ clock \in AgentClock
  BY DEF AgentInv, AgentTypes
<1>2. /\ procs' \in Seq(Process) /\ Len(procs') = Len(procs) /\ (procs # <<>> => procs' # <<>>)
      /\ \A q \in 1 .. Len(procs) : /\ procs'[q].attempt = procs[q].attempt
                                    /\ procs'[q].state = IF q = p THEN st ELSE procs[q].state
  <2>1. st \in {"running", "term", "killed", "ok", "bad", "ntstatus"}
    OBVIOUS
  <2>2. procs' = Signalled(procs, p, st)
    BY DEF Signalled
  <2>3. OneMoved(procs, Signalled(procs, p, st), p, st)
    BY <1>1, <2>1, StateOfProcess
  <2> QED
    BY <2>2, <2>3 DEF OneMoved
<1>3. clock' \in AgentClock /\ clock'.bound = clock.bound /\ (clock'.since = clock.since \/ clock'.since = 0)
  BY <1>1 DEF AgentClock
<1>4. AgentTypes'
  BY <1>2, <1>3 DEF AgentInv, AgentTypes
<1>5. Aimed'
  BY DEF AgentInv, Aimed
<1>6. OnlyTheLastWrites'
  BY <1>1, <1>2 DEF AgentInv, OnlyTheLastWrites, Writing
<1>7. LastIsOwn'
  BY <1>1, <1>2 DEF AgentInv, LastIsOwn, Current
<1>8. GraceFits'
  <2>0. GraceFits
    BY DEF AgentInv
  <2>1. Len(procs) \in 1 .. Len(procs)
    BY <1>1
  <2>2. Current'.state = IF Len(procs) = p THEN st ELSE Current.state
    BY <1>2, <2>1 DEF Current
  <2>3. clock'.since = 0 \/ clock'.since = clock.since
    BY <1>3
  <2> QED
    BY <1>1, <1>3, <2>0, <2>2, <2>3 DEF GraceFits, Grace, AgentClock
<1>9. AnswerIsOwn'
  BY <1>1, <1>2 DEF AgentInv, AnswerIsOwn, OwnProcess
<1> QED
  BY <1>4, <1>5, <1>6, <1>7, <1>8, <1>9 DEF AgentInv

LEMMA ProcessMovesKeepAgent ==
    ASSUME AgentInv,
           (\E p \in DOMAIN procs : AgentEnds(p)) \/ PhaseTimeout \/ KillAfterGrace \/ CallerAborts
    PROVE  AgentInv'
<1>1. /\ procs \in Seq(Process) /\ Len(procs) \in Nat /\ clock \in AgentClock /\ wa \in AgentRecord
      /\ left \in Nat /\ aborted \in BOOLEAN
  BY DEF AgentInv, AgentTypes
<1>2. wa.pc \in {"running", "settling"} => Len(procs) \in 1 .. Len(procs)
  BY <1>1 DEF AgentInv, LastIsOwn
<1>3. CASE \E p \in DOMAIN procs : AgentEnds(p)
  <2>1. PICK p \in DOMAIN procs : AgentEnds(p)
    BY <1>3
  <2>2. p \in 1 .. Len(procs)
    BY <1>1
  <2>3. PICK st \in {"ok", "bad", "ntstatus"} : procs' = [procs EXCEPT ![p].state = st]
    BY <2>1 DEF AgentEnds
  <2>4. UNCHANGED <<targets, wa, outFile, left, clock, aborted>>
    BY <2>1 DEF AgentEnds
  <2>5. /\ st \in {"term", "killed", "ok", "bad", "ntstatus"} /\ st # "term" /\ wa' \in AgentRecord
        /\ wa'.pc = wa.pc /\ wa'.target = wa.target /\ wa'.attempt = wa.attempt /\ wa'.took = wa.took
        /\ left' \in Nat /\ aborted' \in BOOLEAN
    BY <1>1, <2>4
  <2> QED
    BY <2>2, <2>3, <2>4, <2>5, SignalKeepsAgent
<1>4. CASE PhaseTimeout
  <2>1. /\ wa.pc = "running" /\ wa' = [wa EXCEPT !.pc = "settling"] /\ left' = 0
        /\ clock' = [clock EXCEPT !.since = 0] /\ UNCHANGED <<targets, outFile, aborted>>
    BY <1>4 DEF PhaseTimeout
  <2>2. PICK st \in {"term", "killed"} : procs' = [procs EXCEPT ![Len(procs)].state = st]
    BY <1>1, <1>4 DEF PhaseTimeout
  <2>3. /\ wa' \in AgentRecord /\ wa'.pc = "settling" /\ wa'.target = wa.target
        /\ wa'.attempt = wa.attempt /\ wa'.took = wa.took /\ clock'.since = 0
    BY <1>1, <2>1 DEF AgentRecord, AgentPlace, AgentClock
  <2>4. st \in {"term", "killed", "ok", "bad", "ntstatus"} /\ left' \in Nat /\ aborted' \in BOOLEAN
    BY <1>1, <2>1
  <2> QED
    BY <1>2, <2>1, <2>2, <2>3, <2>4, SignalKeepsAgent
<1>5. CASE KillAfterGrace
  <2>1. /\ wa.pc \in {"running", "settling"} /\ procs' = [procs EXCEPT ![Len(procs)].state = "killed"]
        /\ UNCHANGED <<targets, wa, outFile, left, clock, aborted>>
    BY <1>5 DEF KillAfterGrace
  <2>2. /\ wa' \in AgentRecord /\ wa'.pc = wa.pc /\ wa'.target = wa.target
        /\ wa'.attempt = wa.attempt /\ wa'.took = wa.took /\ left' \in Nat /\ aborted' \in BOOLEAN
    BY <1>1, <2>1
  <2> QED
    BY <1>2, <2>1, <2>2, SignalKeepsAgent
<1>6. CASE CallerAborts
  <2>1. /\ clock' = [clock EXCEPT !.since = 0] /\ aborted' = TRUE /\ UNCHANGED <<targets, wa, outFile, left>>
    BY <1>6 DEF CallerAborts
  <2>2. clock' \in AgentClock /\ clock'.since = 0 /\ clock'.bound = clock.bound
    BY <1>1, <2>1 DEF AgentClock
  <2>3. CASE wa.pc = "running" /\ Current.state = "running"
    <3>1. procs' = [procs EXCEPT ![Len(procs)].state = "term"]
      BY <1>6, <2>3 DEF CallerAborts
    <3>2. /\ wa' \in AgentRecord /\ wa'.pc = "running" /\ wa'.target = wa.target
          /\ wa'.attempt = wa.attempt /\ wa'.took = wa.took /\ left' \in Nat /\ aborted' \in BOOLEAN
      BY <1>1, <2>1, <2>3
    <3> QED
      BY <1>2, <2>1, <2>2, <2>3, <3>1, <3>2, SignalKeepsAgent
  <2>4. CASE ~(wa.pc = "running" /\ Current.state = "running")
    <3>1. UNCHANGED procs
      BY <1>6, <2>4 DEF CallerAborts
    <3>2. AgentTypes'
      BY <2>1, <2>2, <3>1 DEF AgentInv, AgentTypes
    <3>3. Aimed' /\ LastIsOwn'
      BY <2>1, <3>1 DEF AgentInv, Aimed, LastIsOwn, Current
    <3>4. OnlyTheLastWrites'
      BY <2>1, <3>1 DEF AgentInv, OnlyTheLastWrites, Writing
    <3>5. GraceFits'
      BY <2>1, <2>2, <3>1 DEF AgentInv, GraceFits, Current, Grace
    <3>6. AnswerIsOwn'
      BY <2>1, <3>1 DEF AgentInv, AnswerIsOwn, OwnProcess
    <3> QED
      BY <3>2, <3>3, <3>4, <3>5, <3>6 DEF AgentInv
  <2> QED
    BY <2>3, <2>4
<1> QED
  BY <1>3, <1>4, <1>5, <1>6

\* An answer is read: from the file, or from what the process of the attempt printed.
LEMMA ReadingKeepsAgent ==
    ASSUME AgentInv, AcceptFormat \/ ReadAnswer
    PROVE  AgentInv'
<1>0. wa.pc = "read"
  BY DEF AcceptFormat, ReadAnswer
<1>1. /\ procs \in Seq(Process) /\ Len(procs) \in Nat /\ wa \in AgentRecord /\ outFile \in OutputFile
      /\ wa.pc = "read"
  BY <1>0 DEF AgentInv, AgentTypes
<1>2. UNCHANGED <<targets, procs, left, clock, aborted>>
  BY DEF AcceptFormat, ReadAnswer
<1>3. Len(procs) \in 1 .. Len(procs) /\ OwnProcess(Len(procs))
  BY <1>1 DEF AgentInv, LastIsOwn, Current, OwnProcess
<1>4. outFile' \in OutputFile /\ (outFile'.valid => OwnProcess(outFile'.by))
  <2>1. WriteCaptured
    BY DEF AcceptFormat, ReadAnswer
  <2>2. CASE UNCHANGED outFile
    BY <1>1, <2>2 DEF AgentInv, AnswerIsOwn
  <2>3. CASE \E valid \in BOOLEAN : outFile' = [by |-> Len(procs), valid |-> valid]
    BY <1>1, <1>3, <2>3 DEF OutputFile
  <2> QED
    BY <2>1, <2>2, <2>3 DEF WriteCaptured
<1>5. /\ wa' \in AgentRecord /\ wa'.attempt = wa.attempt /\ wa'.target = wa.target
      /\ wa'.pc \in {"done", "attemptFormat", "failed"}
      /\ wa'.pc = "done" => outFile'.valid /\ wa'.took = outFile'.by
  <2>1. outFile'.by \in Nat /\ wa.format + 1 \in Nat
    BY <1>1, <1>4 DEF OutputFile, AgentRecord
  <2>2. CASE outFile'.valid
    <3>1. wa' = [wa EXCEPT !.pc = "done", !.took = outFile'.by]
      BY <2>2 DEF AcceptFormat, ReadAnswer
    <3> QED
      BY <1>1, <2>1, <2>2, <3>1 DEF AgentRecord, AgentPlace
  <2>3. CASE ~outFile'.valid
    <3>1. wa' = [wa EXCEPT !.pc = "attemptFormat", !.format = @ + 1] \/ Fail(FALSE)
      BY <2>3 DEF AcceptFormat, ReadAnswer
    <3> QED
      BY <1>1, <2>1, <3>1 DEF Fail, AgentRecord, AgentPlace
  <2> QED
    BY <2>2, <2>3
<1>6. AgentTypes'
  BY <1>2, <1>4, <1>5 DEF AgentInv, AgentTypes
<1>7. Aimed'
  BY <1>1, <1>2, <1>5 DEF AgentInv, Aimed
<1>8. OnlyTheLastWrites'
  BY <1>1, <1>2 DEF AgentInv, OnlyTheLastWrites, Writing
<1>9. LastIsOwn'
  BY <1>1, <1>2, <1>5 DEF AgentInv, LastIsOwn, Current
<1>10. GraceFits'
  BY <1>5 DEF GraceFits
<1>11. AnswerIsOwn'
  BY <1>2, <1>4, <1>5 DEF AnswerIsOwn, OwnProcess
<1> QED
  BY <1>6, <1>7, <1>8, <1>9, <1>10, <1>11 DEF AgentInv

\* What a target answers was written by a process of its own attempt
\* (run-working-agent-target-attempt.ts:41): a process that outlives its attempt
\* has got SIGKILL before the wait for its end is over.
THEOREM AnswerOfOwnAttempt == WASpec => []OutputIsOwn
<1>1. WAInit => AgentInv
  <2> SUFFICES ASSUME WAInit PROVE AgentInv
    OBVIOUS
  <2>1. targets.list \in Seq(TargetKind) /\ targets.timeout \in Nat
        /\ targets \in [list : TargetList, timeout : StepTimeout]
    BY AgentAssumption DEF WAInit
  <2>3. wa \in AgentRecord
    BY DEF WAInit, AgentRecord, AgentPlace
  <2>4. procs \in Seq(Process) /\ outFile \in OutputFile /\ clock \in AgentClock
    BY DEF WAInit, OutputFile, NoOutput, AgentClock
  <2>2. AgentTypes
    BY <2>1, <2>3, <2>4 DEF WAInit, AgentTypes
  <2> QED
    BY <2>2 DEF WAInit, AgentInv, Aimed, OnlyTheLastWrites, LastIsOwn, GraceFits, AnswerIsOwn, NoOutput
<1>2. AgentInv /\ [WANext]_waVars => AgentInv'
  <2> SUFFICES ASSUME AgentInv, [WANext]_waVars PROVE AgentInv'
    OBVIOUS
  <2>1. CASE UNCHANGED waVars
    BY <2>1 DEF waVars, AgentInv, AgentTypes, Aimed, OnlyTheLastWrites, Writing, LastIsOwn, GraceFits,
       Current, AnswerIsOwn, OwnProcess
  <2> QED
    BY <2>1, QuietKeepsAgent, RemoveKeepsAgent, SpawnKeepsAgent, AnswerKeepsAgent,
       ProcessMovesKeepAgent, ReadingKeepsAgent DEF WANext
<1>3. AgentInv => OutputIsOwn
  BY DEF AgentInv, AnswerIsOwn, OwnProcess, OutputIsOwn
<1> QED
  BY <1>1, <1>2, <1>3, PTL DEF WASpec


(***************************************************************************)
(* StoryFlow.                                                              *)
(***************************************************************************)
FlowKey == {"step", "story", "reason", "try", "status"}
FlowShape(f) == f = [k \in FlowKey |-> f[k]]

\* The places of a story past its preflight; the ones before may find other changes in
\* the working tree.
StoryPlace(f) ==
    \/ f.step \notin {"strategy", "split", "checkpoint", "router", "preflight", "pullRequest"}
    \/ f.step = "router" /\ f.reason \notin {"start", "completed"}
TreeIsTheStorys == StoryPlace(flow) => changes \subseteq {flow.story}

IsolationInv == FlowShape(flow) /\ TreeIsTheStorys /\ CommitsAreIsolated

\* A step of the same story, and a step before any story.
LEMMA StepOfFlow ==
    ASSUME FlowShape(flow), NEW step, NEW story, NEW reason
    PROVE  /\ FlowShape(StepAt(step, story, reason)) /\ StepAt(step, story, reason).story = story
           /\ StepAt(step, story, reason).step = step /\ StepAt(step, story, reason).reason = reason
BY DEF FlowShape, FlowKey, StepAt

\* Keeps the place: another status or another try.
LEMMA SameStepOfFlow ==
    ASSUME FlowShape(flow)
    PROVE  /\ \A status : LET f == [flow EXCEPT !.status = status]
                          IN FlowShape(f) /\ f.story = flow.story /\ StoryPlace(f) = StoryPlace(flow)
           /\ \A try : LET f == [flow EXCEPT !.try = try]
                       IN FlowShape(f) /\ f.story = flow.story /\ StoryPlace(f) = StoryPlace(flow)
BY DEF FlowShape, FlowKey, StoryPlace

\* The step a handler goes on with, or the one it was interrupted in.
HandlerGoes(next) == flow' = next \/ flow' = [flow EXCEPT !.status = "interrupted"]
LEMMA HandlerMoves == ASSUME NEW ws, NEW next, Handler(ws, next) PROVE HandlerGoes(next)
BY DEF Handler, HandlerGoes

\* The tree holds at most the story's changes, and the story stays at work.
LEMMA StoryGoesOn ==
    ASSUME IsolationInv, NEW next, HandlerGoes(next), FlowShape(next), next.story = flow.story,
           changes \subseteq {flow.story}, changes' \subseteq {flow.story}, UNCHANGED commits
    PROVE  IsolationInv'
BY SameStepOfFlow DEF IsolationInv, HandlerGoes, TreeIsTheStorys, CommitsAreIsolated

\* The tree may hold anything: no story has passed its preflight.
LEMMA NoStoryYet ==
    ASSUME IsolationInv, NEW next, HandlerGoes(next), FlowShape(next), ~StoryPlace(next), ~StoryPlace(flow),
           UNCHANGED commits
    PROVE  IsolationInv'
BY SameStepOfFlow DEF IsolationInv, HandlerGoes, TreeIsTheStorys, CommitsAreIsolated

LEMMA PlanningKeepsIsolation ==
    ASSUME IsolationInv, ReviewStrategy \/ SplitStories \/ AnswerCheckpoint \/ RouteStory \/ OpenPullRequest
    PROVE  IsolationInv'
<1> USE HandlerMoves, StepOfFlow, SameStepOfFlow, NoStoryYet
<1>1. FlowShape(flow) /\ UNCHANGED commits
  BY DEF IsolationInv, ReviewStrategy, SplitStories, AnswerCheckpoint, RouteStory, OpenPullRequest
<1>2. ~StoryPlace(flow)
  BY DEF StoryPlace, ReviewStrategy, SplitStories, AnswerCheckpoint, RouteStory, OpenPullRequest, Doing
<1>3. FlowShape(Failed) /\ ~StoryPlace(Failed)
  BY <1>1, <1>2 DEF Failed
<1>4. CASE ReviewStrategy
  <2>1. ~StoryPlace(StepAt("split", 0, None))
    BY <1>1 DEF StoryPlace
  <2> QED
    BY <1>1, <1>2, <1>3, <1>4, <2>1 DEF ReviewStrategy
<1>5. CASE SplitStories
  <2>1. ~StoryPlace(StepAt("router", 1, "start"))
    BY <1>1 DEF StoryPlace
  <2>2. FlowShape([StepAt("checkpoint", 1, None) EXCEPT !.status = "waiting"])
        /\ ~StoryPlace([StepAt("checkpoint", 1, None) EXCEPT !.status = "waiting"])
    BY <1>1 DEF StoryPlace, StepAt, FlowShape, FlowKey
  <2> QED
    BY <1>1, <1>2, <1>3, <1>5, <2>1, <2>2 DEF SplitStories
<1>6. CASE AnswerCheckpoint
  <2>1. FlowShape(flow') /\ ~StoryPlace(flow')
    BY <1>1, <1>3, <1>6 DEF AnswerCheckpoint, StoryPlace, FlowShape, FlowKey
  <2> QED
    BY <1>1, <2>1 DEF IsolationInv, TreeIsTheStorys, CommitsAreIsolated
<1>7. CASE RouteStory
  <2>1. \A story : ~StoryPlace(StepAt("preflight", story, None))
    BY <1>1 DEF StoryPlace
  <2> QED
    BY <1>1, <1>2, <1>3, <1>7, <2>1 DEF RouteStory
<1>8. CASE OpenPullRequest
  BY <1>1, <1>2, <1>8 DEF OpenPullRequest
<1> QED
  BY <1>4, <1>5, <1>6, <1>7, <1>8

\* A story past its preflight goes back to its agents, forward, or to the router.
LEMMA WorkKeepsIsolation ==
    ASSUME IsolationInv,
           \/ ReplayRoute \/ RouteFailedReview \/ RouteFailedValidation \/ RouteBlocked
           \/ ContextPreflight \/ WriteRedTests \/ ImplementGreen \/ StoryDoctor
           \/ ValidateStory \/ ReviewStory
    PROVE  IsolationInv'
<1> USE HandlerMoves, StepOfFlow, SameStepOfFlow, StoryGoesOn
<1>1. FlowShape(flow) /\ UNCHANGED commits
  BY DEF IsolationInv, ReplayRoute, RouteFailedReview, RouteFailedValidation, RouteBlocked,
     ContextPreflight, WriteRedTests, ImplementGreen, StoryDoctor, ValidateStory, ReviewStory
<1>2. StoryPlace(flow)
  BY DEF StoryPlace, ReplayRoute, RouteFailedReview, RouteFailedValidation, RouteBlocked,
     ContextPreflight, WriteRedTests, ImplementGreen, StoryDoctor, ValidateStory, ReviewStory, Doing
<1>3. changes \subseteq {flow.story} /\ changes' \subseteq {flow.story}
  <2>1. changes \subseteq {flow.story}
    BY <1>2 DEF IsolationInv, TreeIsTheStorys
  <2>2. changes' \in {changes, changes \cup {flow.story}}
    BY DEF ReplayRoute, RouteFailedReview, RouteFailedValidation, RouteBlocked, AgentWorks,
       ContextPreflight, WriteRedTests, ImplementGreen, StoryDoctor, ValidateStory, ReviewStory
  <2> QED
    BY <2>1, <2>2
<1>4. FlowShape(Failed) /\ Failed.story = flow.story
  BY <1>1 DEF Failed
<1>5. \A step, reason : HandlerGoes(StepAt(step, flow.story, reason)) => IsolationInv'
  BY <1>1, <1>3
<1>6. HandlerGoes(Failed) => IsolationInv'
  BY <1>1, <1>3, <1>4
<1>7. CASE ReplayRoute \/ RouteFailedReview \/ RouteFailedValidation \/ RouteBlocked
  BY <1>5, <1>6, <1>7, HandlerMoves DEF ReplayRoute, RouteFailedReview, RouteFailedValidation, RouteBlocked
<1>8. CASE ContextPreflight \/ WriteRedTests \/ ImplementGreen \/ StoryDoctor
  BY <1>5, <1>8, HandlerMoves DEF ContextPreflight, WriteRedTests, ImplementGreen, StoryDoctor, Blocked
<1>9. CASE ValidateStory \/ ReviewStory
  BY <1>5, <1>9, HandlerMoves DEF ValidateStory, ReviewStory, Blocked
<1> QED
  BY <1>7, <1>8, <1>9

LEMMA PreflightKeepsIsolation == IsolationInv /\ Preflight => IsolationInv'
<1> SUFFICES ASSUME IsolationInv, Preflight PROVE IsolationInv'
  OBVIOUS
<1>1. FlowShape(flow) /\ UNCHANGED <<changes, commits>> /\ ~StoryPlace(flow)
  BY DEF IsolationInv, Preflight, Doing, StoryPlace
<1>2. CASE HandlerGoes(Failed)
  <2>1. FlowShape(Failed) /\ ~StoryPlace(Failed)
    BY <1>1, SameStepOfFlow DEF Failed
  <2> QED
    BY <1>1, <1>2, <2>1, NoStoryYet
<1>3. CASE changes = {} /\ HandlerGoes(StepAt("context", flow.story, None))
  BY <1>1, <1>3, StepOfFlow, StoryGoesOn
<1> QED
  BY <1>2, <1>3, HandlerMoves DEF Preflight

\* A commit takes all there is in the tree, which is the story's.
LEMMA CommitKeepsIsolation == IsolationInv /\ CommitStory => IsolationInv'
<1> SUFFICES ASSUME IsolationInv, CommitStory PROVE IsolationInv'
  OBVIOUS
<1>1. FlowShape(flow) /\ changes \subseteq {flow.story} /\ changes' \subseteq {flow.story}
  BY DEF IsolationInv, CommitStory, Doing, StoryPlace, TreeIsTheStorys
<1>2. CommitsAreIsolated'
  BY <1>1 DEF IsolationInv, CommitsAreIsolated, CommitStory
<1>3. FlowShape(flow') /\ (StoryPlace(flow') => flow'.story = flow.story)
  <2>1. FlowShape(Failed) /\ Failed.story = flow.story
    BY <1>1, SameStepOfFlow DEF Failed
  <2>2. /\ FlowShape(StepAt("pullRequest", 0, None)) /\ ~StoryPlace(StepAt("pullRequest", 0, None))
        /\ FlowShape(StepAt("router", NextStory, "completed"))
        /\ ~StoryPlace(StepAt("router", NextStory, "completed"))
    BY <1>1, StepOfFlow DEF StoryPlace
  <2>3. \/ HandlerGoes(Failed) \/ HandlerGoes(StepAt("pullRequest", 0, None))
        \/ HandlerGoes(StepAt("router", NextStory, "completed"))
    BY HandlerMoves DEF CommitStory, CompleteStory
  <2> QED
    BY <1>1, <2>1, <2>2, <2>3, SameStepOfFlow DEF HandlerGoes
<1> QED
  BY <1>1, <1>2, <1>3 DEF IsolationInv, TreeIsTheStorys

LEMMA RetryKeepsIsolation == IsolationInv /\ RetryFlow => IsolationInv'
<1> SUFFICES ASSUME IsolationInv, RetryFlow PROVE IsolationInv'
  OBVIOUS
<1>1. FlowShape(flow) /\ changes' \in {changes, {}} /\ UNCHANGED commits
      /\ \E status : flow' = [flow EXCEPT !.status = status]
  BY DEF IsolationInv, RetryFlow
<1> QED
  BY <1>1, SameStepOfFlow DEF IsolationInv, TreeIsTheStorys, CommitsAreIsolated

\* What a story's commit holds is the work of that story alone.
THEOREM CommitsStayIsolated == SFSpec => []CommitsAreIsolated
<1>1. SFInit => IsolationInv
  BY DEF SFInit, IsolationInv, FlowShape, FlowKey, TreeIsTheStorys, StoryPlace, CommitsAreIsolated
<1>2. IsolationInv /\ [SFNext]_sfVars => IsolationInv'
  <2> SUFFICES ASSUME IsolationInv, [SFNext]_sfVars PROVE IsolationInv'
    OBVIOUS
  <2>1. CASE UNCHANGED sfVars
    BY <2>1 DEF sfVars, IsolationInv, FlowShape, TreeIsTheStorys, StoryPlace, CommitsAreIsolated
  <2>2. CASE SFNext
    BY <2>2, PlanningKeepsIsolation, WorkKeepsIsolation, PreflightKeepsIsolation, CommitKeepsIsolation,
       RetryKeepsIsolation DEF SFNext
  <2> QED
    BY <2>1, <2>2
<1> QED
  BY <1>1, <1>2, PTL DEF SFSpec, IsolationInv


(***************************************************************************)
(* Delegate.                                                               *)
(***************************************************************************)
MemoKey == {"initialized", "input", "turns", "questions", "memory", "answers", "files", "path", "cleanup"}
JobKey == {"step", "turn", "pc", "out", "seen", "status", "report"}

\* The records have their fields, whatever is in them.
JobShape(j) == j = [k \in JobKey |-> j[k]]
DelegateShape == memo = [k \in MemoKey |-> memo[k]] /\ JobShape(job)

\* The answers the parent gave are in the durable memory, which is emptied only by the
\* first step, before any answer; a turn sees the memory as it is while the turn lasts.
AnswersAreKept ==
    /\ job.step = "initialize" => given = {}
    /\ given \subseteq memo.answers
    /\ job.step = "turn" => job.seen = memo.answers

DelegateInv == DelegateShape /\ AnswersAreKept /\ NoWorkDiscarded

\* A sequence of writes; one that spares the answers; a step that may come next.
Writes(ws) == \E S : ws \in Seq(S)
Spares(ws) == \A i \in DOMAIN ws : ws[i][1] # "answers"
Onward(next) ==
    /\ JobShape(next)
    /\ next.step = "initialize" => given = {}
    /\ next.step = "turn" => next.seen = memo.answers

LEMMA StepIsOnward ==
    ASSUME NEW step \in {"prepare", "ask", "done"}, NEW turn
    PROVE  /\ Onward(StepOf(step, turn))
           /\ \A r : Onward([StepOf(step, turn) EXCEPT !.report = r])
BY DEF StepOf, JobKey, JobShape, Onward

\* The step goes on in another place of its handler.
LEMMA SameStepIsOnward ==
    ASSUME DelegateInv
    PROVE  /\ \A pc : Onward([job EXCEPT !.pc = pc])
           /\ \A pc, out : Onward([job EXCEPT !.pc = pc, !.out = out])
           /\ \A status : Onward([job EXCEPT !.status = status])
           /\ \A pc, status : Onward([job EXCEPT !.pc = pc, !.out.status = status])
BY DEF DelegateInv, DelegateShape, JobShape, AnswersAreKept, Onward, JobKey

\* Whatever a prefix of the writes holds, it holds writes of the sequence.
LEMMA PrefixOfWrites ==
    ASSUME NEW ws, Writes(ws), NEW n \in 0 .. Len(ws)
    PROVE  /\ DOMAIN SubSeq(ws, 1, n) = 1 .. n /\ 1 .. n \subseteq DOMAIN ws
           /\ \A i \in 1 .. n : SubSeq(ws, 1, n)[i] = ws[i]
<1> DEFINE S == {ws[i] : i \in 1 .. n}
<1>1. /\ SubSeq(ws, 1, n) \in Seq(S) /\ Len(SubSeq(ws, 1, n)) = IF 1 <= n THEN n - 1 + 1 ELSE 0
      /\ \A i \in 1 .. n - 1 + 1 : SubSeq(ws, 1, n)[i] = ws[1 + i - 1]
  BY SubSeqProperties
<1>2. Len(ws) \in Nat /\ DOMAIN ws = 1 .. Len(ws)
  BY DEF Writes
<1> QED
  BY <1>1, <1>2

\* The memory keeps its fields.
LEMMA WritesKeepShape ==
    ASSUME DelegateShape, NEW ws, NEW next, Handle(ws, next)
    PROVE  memo' = [k \in MemoKey |-> memo'[k]]
<1>1. \A vs : memo' = Stored(vs) => memo' = [k \in MemoKey |-> memo'[k]]
  BY DEF Stored, DelegateShape, MemoKey
<1> QED
  BY <1>1 DEF Handle

\* A handler that spares the answers.
LEMMA SparingWrites ==
    ASSUME DelegateShape, NEW ws, Writes(ws), Spares(ws), NEW next, Handle(ws, next)
    PROVE  memo'.answers = memo.answers
<1>1. ASSUME NEW vs, memo' = Stored(vs), \A i \in DOMAIN vs : vs[i][1] # "answers"
      PROVE  memo'.answers = memo.answers
  BY <1>1 DEF Stored, DelegateShape, MemoKey
<1>2. CASE memo' = Stored(ws) /\ job' = next
  BY <1>1, <1>2 DEF Spares
<1>3. ASSUME NEW n \in 0 .. Len(ws), memo' = Stored(SubSeq(ws, 1, n))
      PROVE  memo'.answers = memo.answers
  <2> DEFINE vs == SubSeq(ws, 1, n)
  <2>1. DOMAIN vs = 1 .. n /\ 1 .. n \subseteq DOMAIN ws /\ \A i \in 1 .. n : vs[i] = ws[i]
    BY PrefixOfWrites
  <2>2. \A i \in DOMAIN vs : vs[i][1] # "answers"
    BY <2>1 DEF Spares
  <2> QED
    BY <1>1, <1>3, <2>2
<1> QED
  BY <1>2, <1>3 DEF Handle

LEMMA HandlerKeepsAnswers ==
    ASSUME DelegateInv, NEW ws, Writes(ws), Spares(ws), NEW next, Onward(next), Handle(ws, next),
           given' = given
    PROVE  DelegateShape' /\ AnswersAreKept'
<1>1. memo' = [k \in MemoKey |-> memo'[k]] /\ memo'.answers = memo.answers
  BY WritesKeepShape, SparingWrites DEF DelegateInv
<1>2. job' = next \/ job' = [job EXCEPT !.status = "interrupted"]
  BY DEF Handle
<1>3. Onward(job')
  <2>1. CASE job' = next
    BY <2>1, Zenon
  <2>2. CASE job' = [job EXCEPT !.status = "interrupted"]
    BY <2>2, SameStepIsOnward
  <2> QED
    BY <1>2, <2>1, <2>2
<1> QED
  BY <1>1, <1>3 DEF DelegateInv, DelegateShape, AnswersAreKept, Onward, JobShape

\* Sequences of writes that spare the answers: none, one, two after each other.
LEMMA NoWrites == Writes(<<>>) /\ Spares(<<>>)
<1>1. <<>> \in Seq({})
  OBVIOUS
<1> QED
  BY <1>1 DEF Writes, Spares

LEMMA OneWrite == \A w : Writes(<<w>>) /\ (w[1] # "answers" => Spares(<<w>>))
<1> TAKE w
<1>1. <<w>> \in Seq({w}) /\ DOMAIN <<w>> = {1} /\ <<w>>[1] = w
  OBVIOUS
<1>2. Writes(<<w>>)
  BY <1>1 DEF Writes
<1> QED
  BY <1>1, <1>2 DEF Spares

LEMMA MoreWrites ==
    ASSUME NEW a, NEW b, Writes(a), Writes(b)
    PROVE  Writes(a \o b) /\ (Spares(a) /\ Spares(b) => Spares(a \o b))
<1>1. PICK S : a \in Seq(S)
  BY DEF Writes
<1>2. PICK T : b \in Seq(T)
  BY DEF Writes
<1>3. a \in Seq(S \cup T) /\ b \in Seq(S \cup T)
  BY <1>1, <1>2
<1>4. /\ a \o b \in Seq(S \cup T) /\ Len(a \o b) = Len(a) + Len(b)
      /\ \A i \in 1 .. Len(a) + Len(b) : (a \o b)[i] = IF i <= Len(a) THEN a[i] ELSE b[i - Len(a)]
  BY <1>3, ConcatProperties
<1>5. ASSUME Spares(a), Spares(b), NEW i \in DOMAIN (a \o b) PROVE (a \o b)[i][1] # "answers"
  <2>1. i \in 1 .. Len(a) + Len(b) /\ DOMAIN a = 1 .. Len(a) /\ DOMAIN b = 1 .. Len(b)
        /\ Len(a) \in Nat /\ Len(b) \in Nat
    BY <1>3, <1>4
  <2>2. CASE i <= Len(a)
    BY <1>4, <1>5, <2>1, <2>2 DEF Spares
  <2>3. CASE ~(i <= Len(a))
    BY <1>4, <1>5, <2>1, <2>3 DEF Spares
  <2> QED
    BY <2>2, <2>3
<1> QED
  BY <1>4, <1>5 DEF Writes, Spares

LEMMA TurnWrites ==
    ASSUME NEW turn
    PROVE  LET turns == << <<"turns", memo.turns + 1>> >> \o AppendMemory \o MergeChanges(turn)
               question == << <<"questions", memo.questions + 1>> >>
           IN  /\ Writes(turns) /\ Spares(turns)
               /\ Writes(turns \o question) /\ Spares(turns \o question)
               /\ Writes(turns \o <<>>) /\ Spares(turns \o <<>>)
<1> DEFINE first == << <<"turns", memo.turns + 1>> >>
           last == << <<"questions", memo.questions + 1>> >>
<1>1. Writes(first) /\ Spares(first) /\ Writes(last) /\ Spares(last)
  BY OneWrite
<1>2. Writes(AppendMemory) /\ Spares(AppendMemory) /\ Writes(MergeChanges(turn)) /\ Spares(MergeChanges(turn))
  BY OneWrite DEF AppendMemory, MergeChanges
<1>3. Writes(first \o AppendMemory) /\ Spares(first \o AppendMemory)
  BY <1>1, <1>2, MoreWrites
<1>4. Writes(first \o AppendMemory \o MergeChanges(turn)) /\ Spares(first \o AppendMemory \o MergeChanges(turn))
  BY <1>2, <1>3, MoreWrites
<1> QED
  BY <1>1, <1>4, NoWrites, MoreWrites

\* What the answer to a question writes, and any part of it, keeps the answers there were.
LEMMA AnswerIsKept ==
    ASSUME DelegateShape, NEW reply, NEW next,
           Handle(<< <<"answers", memo.answers \union {reply}>> >> \o AppendMemory, next)
    PROVE  /\ memo'.answers \in {memo.answers, memo.answers \union {reply}}
           /\ memo'.answers = memo.answers \union {reply} \/ job' = [job EXCEPT !.status = "interrupted"]
<1> DEFINE ws == << <<"answers", memo.answers \union {reply}>> >> \o AppendMemory
<1>1. Len(ws) = 2 /\ ws[1] = <<"answers", memo.answers \union {reply}>> /\ ws[2] = <<"memory", memo.memory + 1>>
      /\ Writes(ws)
  <2>1. \A a, b : Len(<<a>> \o <<b>>) = 2 /\ (<<a>> \o <<b>>)[1] = a /\ (<<a>> \o <<b>>)[2] = b
    <3> TAKE a, b
    <3>1. <<a>> \in Seq({a, b}) /\ <<b>> \in Seq({a, b}) /\ Len(<<a>>) = 1 /\ Len(<<b>>) = 1
      OBVIOUS
    <3> QED
      BY <3>1, ConcatProperties
  <2>2. Writes(ws)
    BY OneWrite, MoreWrites DEF AppendMemory
  <2> QED
    BY <2>1, <2>2 DEF AppendMemory
<1>2. ASSUME NEW vs, NEW n \in 0 .. 2, DOMAIN vs = 1 .. n, \A i \in 1 .. n : vs[i] = ws[i], memo' = Stored(vs)
      PROVE  memo'.answers = IF n = 0 THEN memo.answers ELSE memo.answers \union {reply}
  <2>1. n = 0 \/ n = 1 \/ n = 2
    OBVIOUS
  <2>2. \A i \in DOMAIN vs : vs[i][1] = "answers" <=> i = 1
    BY <1>1, <1>2, <2>1
  <2>3. memo'.answers = IF \E i \in DOMAIN vs : vs[i][1] = "answers"
                        THEN vs[CHOOSE i \in DOMAIN vs : vs[i][1] = "answers"][2] ELSE memo.answers
    BY <1>2 DEF Stored, DelegateShape, MemoKey
  <2>4. CASE n = 0
    BY <1>2, <2>3, <2>4
  <2>5. CASE n # 0
    <3>1. 1 \in DOMAIN vs
      BY <1>2, <2>1, <2>5
    <3>2. (CHOOSE i \in DOMAIN vs : vs[i][1] = "answers") = 1
      BY <2>2, <3>1
    <3>3. vs[1] = <<"answers", memo.answers \union {reply}>>
      BY <1>1, <1>2, <3>1
    <3> QED
      BY <2>2, <2>3, <2>5, <3>1, <3>2, <3>3
  <2> QED
    BY <2>4, <2>5
<1>3. DOMAIN ws = 1 .. 2
  BY <1>1 DEF Writes
<1>4. CASE memo' = Stored(ws) /\ job' = next
  <2>1. memo'.answers = IF 2 = 0 THEN memo.answers ELSE memo.answers \union {reply}
    <3> HIDE DEF ws
    <3>1. 2 \in 0 .. 2 /\ \A i \in 1 .. 2 : ws[i] = ws[i]
      OBVIOUS
    <3> QED
      BY <1>2, <1>3, <1>4, <3>1
  <2> QED
    BY <2>1
<1>5. CASE job' = [job EXCEPT !.status = "interrupted"] /\ \E n \in 0 .. Len(ws) : memo' = Stored(SubSeq(ws, 1, n))
  <2>1. PICK n \in 0 .. 2 : memo' = Stored(SubSeq(ws, 1, n))
    BY <1>1, <1>5
  <2>2. DOMAIN SubSeq(ws, 1, n) = 1 .. n /\ \A i \in 1 .. n : SubSeq(ws, 1, n)[i] = ws[i]
    BY <1>1, <2>1, PrefixOfWrites
  <2> QED
    BY <1>2, <1>5, <2>1, <2>2
<1> QED
  BY <1>4, <1>5 DEF Handle

\* Every action but the first step and the question to the parent spares the answers.
LEMMA SparingActions ==
    ASSUME DelegateInv, PrepareTurn \/ RunTurn \/ RecordTurn \/ JudgeWorktree \/ RemoveWorktree \/ RemoveBranch
    PROVE  DelegateShape' /\ AnswersAreKept'
<1> USE NoWrites, OneWrite, StepIsOnward, SameStepIsOnward, HandlerKeepsAnswers
<1>1. ASSUME FailsDelegate, given' = given PROVE DelegateShape' /\ AnswersAreKept'
  <2>1. Onward(job')
    BY <1>1 DEF FailsDelegate
  <2> QED
    BY <1>1, <2>1 DEF FailsDelegate, DelegateInv, DelegateShape, AnswersAreKept, Onward, JobShape
<1>2. ASSUME NEW d, Keep(d), given' = given PROVE DelegateShape' /\ AnswersAreKept'
  BY <1>2 DEF Keep, Finished
<1>3. CASE PrepareTurn
  <2>1. \A turn : Onward([StepOf("turn", turn) EXCEPT !.seen = memo.answers])
    BY DEF StepOf, JobKey, JobShape, Onward
  <2> QED
    BY <1>1, <1>3, <2>1 DEF PrepareTurn, Final
<1>4. CASE RunTurn
  BY <1>1, <1>4 DEF RunTurn
<1>5. CASE RecordTurn
  BY <1>1, <1>5, TurnWrites DEF RecordTurn, Final
<1>6. CASE JudgeWorktree
  BY <1>2, <1>6 DEF JudgeWorktree, Finished
<1>7. CASE RemoveWorktree
  BY <1>2, <1>7 DEF RemoveWorktree
<1>8. CASE RemoveBranch
  BY <1>2, <1>8 DEF RemoveBranch
<1> QED
  BY <1>3, <1>4, <1>5, <1>6, <1>7, <1>8

LEMMA InitializeKeepsAnswers == DelegateInv /\ Initialize => DelegateShape' /\ AnswersAreKept'
<1> SUFFICES ASSUME DelegateInv, Initialize PROVE DelegateShape' /\ AnswersAreKept'
  OBVIOUS
<1>1. given' = {} /\ given = {} /\ job.step = "initialize" /\ JobShape(job)
  BY DEF Initialize, AtWork, DelegateInv, AnswersAreKept, DelegateShape
<1>2. ASSUME NEW ws, NEW next, Handle(ws, next), JobShape(next), next.step # "turn"
      PROVE  DelegateShape' /\ AnswersAreKept'
  <2>1. memo' = [k \in MemoKey |-> memo'[k]]
    BY <1>2, WritesKeepShape DEF DelegateInv
  <2>2. job' = next \/ job' = [job EXCEPT !.status = "interrupted"]
    BY <1>2 DEF Handle
  <2>3. JobShape(job') /\ job'.step # "turn"
    BY <1>1, <1>2, <2>2 DEF JobShape, JobKey
  <2> QED
    BY <1>1, <2>1, <2>3 DEF DelegateShape, AnswersAreKept, JobShape
<1>3. ASSUME FailsDelegate PROVE DelegateShape' /\ AnswersAreKept'
  <2>1. JobShape(job') /\ job'.step # "turn"
    BY <1>1, <1>3 DEF FailsDelegate, JobShape, JobKey
  <2> QED
    BY <1>1, <1>3, <2>1 DEF FailsDelegate, DelegateInv, DelegateShape, AnswersAreKept, JobShape
<1>4. /\ JobShape(StepOf("prepare", 1)) /\ StepOf("prepare", 1).step # "turn"
      /\ JobShape(Final("blocked")) /\ Final("blocked").step # "turn"
  BY <1>1 DEF StepOf, Final, JobShape, JobKey
<1> QED
  BY <1>2, <1>3, <1>4 DEF Initialize

LEMMA AskParentKeepsAnswers == DelegateInv /\ AskParent => DelegateShape' /\ AnswersAreKept'
<1> SUFFICES ASSUME DelegateInv, AskParent PROVE DelegateShape' /\ AnswersAreKept'
  OBVIOUS
<1>1. PICK reply \in ParentAnswer :
        /\ Handle(IF reply \in memo.answers THEN <<>>
                  ELSE << <<"answers", memo.answers \union {reply}>> >> \o AppendMemory,
                  StepOf("prepare", job.turn + 1))
        /\ given' = IF job'.status = "live" THEN given \union {reply} ELSE given
  BY DEF AskParent
<1>2. job.step = "ask" /\ JobShape(job) /\ DelegateShape
  BY DEF AskParent, AtWork, DelegateInv, DelegateShape
<1>3. memo' = [k \in MemoKey |-> memo'[k]]
  BY <1>1, WritesKeepShape DEF DelegateInv
<1>4. job' = StepOf("prepare", job.turn + 1) \/ job' = [job EXCEPT !.status = "interrupted"]
  BY <1>1 DEF Handle
<1>5. JobShape(job') /\ job'.step \in {"prepare", "ask"}
  BY <1>2, <1>4 DEF JobShape, JobKey, StepOf
<1>6. /\ memo.answers \subseteq memo'.answers
      /\ reply \in memo'.answers \/ job' = [job EXCEPT !.status = "interrupted"]
  <2>1. CASE reply \in memo.answers
    BY <1>1, <1>2, <2>1, NoWrites, SparingWrites
  <2>2. CASE reply \notin memo.answers
    BY <1>1, <1>2, <2>2, AnswerIsKept
  <2> QED
    BY <2>1, <2>2
<1>7. given' \subseteq memo'.answers
  <2>1. job' = [job EXCEPT !.status = "interrupted"] => job'.status # "live"
    BY <1>2 DEF JobShape, JobKey
  <2> QED
    BY <1>1, <1>6, <2>1 DEF DelegateInv, AnswersAreKept
<1> QED
  BY <1>3, <1>5, <1>7 DEF DelegateShape, AnswersAreKept, JobShape

\* What happens beside the handlers, and the retry, which shows a turn the memory anew.
LEMMA OthersKeepAnswers ==
    ASSUME DelegateInv, EditMeanwhile \/ SiblingCreates \/ RetryDelegate
    PROVE  DelegateShape' /\ AnswersAreKept'
<1>1. CASE EditMeanwhile \/ SiblingCreates
  <2>1. UNCHANGED <<job, memo, given>>
    BY <1>1 DEF EditMeanwhile, SiblingCreates
  <2> QED
    BY <2>1 DEF DelegateInv, DelegateShape, AnswersAreKept, JobShape
<1>2. CASE RetryDelegate
  <2>1. /\ UNCHANGED <<memo, given>> /\ JobShape(job') /\ job'.step = job.step
        /\ job.step = "turn" => job'.seen = memo.answers
    BY <1>2 DEF RetryDelegate, StepOf, JobShape, JobKey
  <2> QED
    BY <2>1 DEF DelegateInv, DelegateShape, AnswersAreKept, JobShape
<1> QED
  BY <1>1, <1>2

LEMMA NothingIsDiscarded == NoWorkDiscarded /\ [DGNext]_dgVars => NoWorkDiscarded'
<1> SUFFICES ASSUME NoWorkDiscarded, [DGNext]_dgVars PROVE NoWorkDiscarded'
  OBVIOUS
<1>1. UNCHANGED order
  BY DEF DGNext, dgVars, Initialize, PrepareTurn, RunTurn, RecordTurn, AskParent, JudgeWorktree,
     RemoveWorktree, RemoveBranch, EditMeanwhile, SiblingCreates, RetryDelegate
<1>2. UNCHANGED discarded \/ order.force
  BY DEF DGNext, dgVars, Initialize, PrepareTurn, RunTurn, RecordTurn, AskParent, JudgeWorktree,
     RemoveWorktree, RemoveBranch, EditMeanwhile, SiblingCreates, RetryDelegate
<1> QED
  BY <1>1, <1>2 DEF NoWorkDiscarded

LEMMA DelegateInitially == DGInit => DelegateInv
<1> SUFFICES ASSUME DGInit PROVE DelegateInv
  OBVIOUS
<1>1. given = {} /\ discarded = {} /\ memo = [k \in MemoKey |-> memo[k]]
  BY DEF DGInit, MemoKey
<1>2. JobShape(job) /\ job.step # "turn"
  BY DEF DGInit, StepOf, JobShape, JobKey
<1> QED
  BY <1>1, <1>2 DEF DelegateInv, DelegateShape, AnswersAreKept, NoWorkDiscarded

LEMMA DelegateInductive == DelegateInv /\ [DGNext]_dgVars => DelegateInv'
<1> SUFFICES ASSUME DelegateInv, [DGNext]_dgVars PROVE DelegateInv'
  OBVIOUS
<1>1. NoWorkDiscarded'
  BY NothingIsDiscarded DEF DelegateInv
<1>2. CASE UNCHANGED dgVars
  BY <1>1, <1>2 DEF dgVars, DelegateInv, DelegateShape, JobShape, AnswersAreKept
<1>3. CASE DGNext
  BY <1>1, <1>3, SparingActions, InitializeKeepsAnswers, AskParentKeepsAnswers, OthersKeepAnswers
     DEF DGNext, DelegateInv
<1> QED
  BY <1>2, <1>3

\* Cleaning up discards no work.
THEOREM CleanupDiscardsNoWork == DGSpec => []NoWorkDiscarded
<1> QED
  BY DelegateInitially, DelegateInductive, PTL DEF DGSpec, DelegateInv

\* Every turn is told every answer the parent gave before it.
THEOREM TurnsSeeAnswers == DGSpec => []AnswersReachTurns
<1>1. DelegateInv => AnswersReachTurns
  BY DEF DelegateInv, AnswersAreKept, AnswersReachTurns
<1> QED
  BY <1>1, DelegateInitially, DelegateInductive, PTL DEF DGSpec


(***************************************************************************)
(* SubPrompts: the answers of calls that no other attempt disturbs.        *)
(***************************************************************************)
ChainState == [at : Nat, pc : {"idle", "called", "asking", "failed", "end"}, ordinal : Nat]
TryRecord == [kind : {"work", "replay"}, pc : {"live", "left"}, ordinal : Nat, got : [Call -> Nat],
              chain : [Chain -> ChainState]]
PromptTypes ==
    /\ handler \in SubConf /\ tries \in Seq(TryRecord \cup {Over})
    /\ \A k \in DOMAIN completions : completions[k] \in Nat \ {0}
    /\ done \in BOOLEAN /\ taken \in [Call -> Nat] /\ answered \in [Call -> Nat]

\* The ordinal of a call, where no chain can overtake another: its place in its chain,
\* or the place of its chain; and the key of its only answer.
Short == \A c \in Chain : Len(handler.chains[c]) = 1
Place(p) == IF Short THEN p[1] ELSE p[2]
OnlyKey(p) == <<Place(p), <<handler.chains[p[1]][p[2]], IF handler.quotes /\ p[2] > 1 THEN 1 ELSE 0>>>>

\* A try draws its ordinals in the order of the calls.
Ordered(r) ==
    IF Short
    THEN r.ordinal <= Len(handler.chains) /\ \A c \in Chain : r.chain[c].pc # "idle" <=> c <= r.ordinal
    ELSE r.ordinal = IF r.chain[1].pc = "idle" THEN r.chain[1].at - 1 ELSE r.chain[1].at
InPlace(r) ==
    \A c \in Chain : r.chain[c].pc # "idle" => r.chain[c].ordinal = Place(<<c, r.chain[c].at>>)
Within(r) ==
    \A c \in Chain : r.chain[c].pc \in {"called", "asking", "end"} => r.chain[c].ordinal <= Limit(r.kind)

\* A try has the answers of the calls that returned.
HasAnswers(r) ==
    /\ \A p \in Call : r.got[p] # 0 => Disturbed(p) \/ (r.got[p] = 1 /\ answered[p] > 0)
    /\ \A c \in Chain : \A i \in DOMAIN handler.chains[c] :
          i < r.chain[c].at \/ r.chain[c].pc = "end" => r.got[<<c, i>>] # 0

\* What is asked was not answered; a replay asks nothing, and fails over its limit alone.
Asks(r) ==
    \A c \in Chain : LET p == <<c, r.chain[c].at>> IN
        /\ r.chain[c].pc = "asking" => Disturbed(p) \/ answered[p] = 0
        /\ r.kind = "replay" /\ r.chain[c].pc = "failed" => Disturbed(p) \/ handler.stepLimit > DefaultLimit
InOrder(r) == ~Reorders => Ordered(r) /\ InPlace(r) /\ Within(r)
TryFits(r) ==
    /\ \A c \in Chain : /\ r.chain[c].at \in DOMAIN handler.chains[c]
                        /\ r.chain[c].pc = "end" => r.chain[c].at = Len(handler.chains[c])
    /\ InOrder(r) /\ HasAnswers(r) /\ Asks(r)
    /\ r.kind = "replay" => done

TriesFit == \A t \in DOMAIN tries : Runs(t) => TryFits(tries[t])
AskedOnce ==
    \A t, u \in DOMAIN tries : Runs(t) /\ Runs(u) /\ t # u =>
        \A c \in Chain : tries[t].chain[c].pc = "asking" /\ tries[u].chain[c].pc = "asking"
                         /\ AtCall(t, c) = AtCall(u, c) => AtCall(t, c) \in raced
\* The trail knows the answers that there were.
AnswersOnTrail ==
    \A p \in Call :
        /\ ~Disturbed(p) => answered[p] <= 1
        /\ ~Disturbed(p) /\ answered[p] > 0 => OnlyKey(p) \in DOMAIN completions /\ completions[OnlyKey(p)] = 1
        /\ ~Reorders => \A k \in DOMAIN completions : k[1] = Place(p) => answered[p] > 0
StepTook ==
    /\ \A p \in Call : taken[p] # 0 => Disturbed(p) \/ (taken[p] = 1 /\ answered[p] > 0)
    /\ done => \A p \in Call : taken[p] # 0 /\ (~Reorders => Place(p) <= Limit("work"))

PromptInv ==
    /\ PromptTypes /\ TriesFit /\ AskedOnce /\ AnswersOnTrail /\ StepTook
    /\ \A p \in repeated : Disturbed(p)

LEMMA HandlerFacts ==
    ASSUME handler \in SubConf
    PROVE  /\ Len(handler.chains) \in Nat /\ Chain = 1 .. Len(handler.chains)
           /\ \A c \in Chain : Len(handler.chains[c]) \in Nat \ {0} /\ DOMAIN handler.chains[c] = 1 .. Len(handler.chains[c])
           /\ \A c \in Chain : \A i \in DOMAIN handler.chains[c] : <<c, i>> \in Call
           /\ \A p \in Call : p[1] \in Chain /\ p[2] \in DOMAIN handler.chains[p[1]] /\ p = <<p[1], p[2]>>
           /\ handler.quotes \in BOOLEAN /\ handler.stepLimit \in Nat /\ handler.callLimit \in Nat /\ DefaultLimit \in Nat
<1>1. /\ Len(handler.chains) \in Nat /\ Chain = 1 .. Len(handler.chains)
      /\ \A c \in Chain : Len(handler.chains[c]) \in Nat \ {0} /\ DOMAIN handler.chains[c] = 1 .. Len(handler.chains[c])
      /\ handler.quotes \in BOOLEAN /\ handler.stepLimit \in Nat /\ handler.callLimit \in Nat /\ DefaultLimit \in Nat
  BY SubAssumption DEF Chain
<1>2. \A c \in Chain : \A i \in DOMAIN handler.chains[c] : <<c, i>> \in Call
  BY DEF Call
<1>3. ASSUME NEW p \in Call
      PROVE  p[1] \in Chain /\ p[2] \in DOMAIN handler.chains[p[1]] /\ p = <<p[1], p[2]>>
  <2>1. PICK c \in Chain : p \in {c} \X DOMAIN handler.chains[c]
    BY <1>3 DEF Call
  <2> QED
    BY <2>1
<1> QED
  BY <1>1, <1>2, <1>3

\* Where no chain can overtake another, a call is known by its place.
LEMMA PlacesDiffer ==
    ASSUME handler \in SubConf, ~Reorders
    PROVE  /\ ~Short => Chain = {1}
           /\ \A p, q \in Call : Place(p) = Place(q) => p = q
           /\ \A p \in Call : Place(p) \in Nat
<1>1. ASSUME ~Short PROVE Chain = {1}
  <2>1. PICK c \in Chain : Len(handler.chains[c]) # 1
    BY <1>1 DEF Short
  <2>2. PICK m \in Nat : m = Len(handler.chains)
    BY HandlerFacts
  <2>3. Len(handler.chains[c]) > 1
    <3>1. Len(handler.chains[c]) \in Nat \ {0}
      BY HandlerFacts
    <3>2. \A n \in Nat \ {0} : n # 1 => n > 1
      OBVIOUS
    <3> QED
      BY <2>1, <3>1, <3>2
  <2>4. ~(Cardinality(Chain) > 1)
    BY <2>3 DEF Reorders
  <2>5. Cardinality(1 .. m) = IF 1 > m THEN 0 ELSE m - 1 + 1
    BY FS_Interval
  <2>6. Chain = 1 .. m
    BY <2>2, HandlerFacts
  <2>7. m = 1
    BY <2>1, <2>4, <2>5, <2>6
  <2> QED
    BY <2>6, <2>7
<1>2. ASSUME NEW p \in Call, NEW q \in Call, Place(p) = Place(q) PROVE p = q
  <2>1. CASE Short
    <3>1. p[2] = 1 /\ q[2] = 1
      BY <2>1, HandlerFacts DEF Short
    <3> QED
      BY <1>2, <2>1, <3>1, HandlerFacts DEF Place
  <2>2. CASE ~Short
    <3>1. p[1] = 1 /\ q[1] = 1
      BY <1>1, <2>2, HandlerFacts
    <3> QED
      BY <1>2, <2>2, <3>1, HandlerFacts DEF Place
  <2> QED
    BY <2>1, <2>2
<1>3. \A p \in Call : Place(p) \in Nat
  BY HandlerFacts DEF Place
<1> QED
  BY <1>1, <1>2, <1>3

LEMMA TryFacts ==
    ASSUME PromptInv, NEW t \in DOMAIN tries, Runs(t)
    PROVE  /\ tries[t] \in TryRecord /\ tries[t].got \in [Call -> Nat] /\ tries[t].chain \in [Chain -> ChainState]
           /\ TryFits(tries[t]) /\ handler \in SubConf
           /\ \A c \in Chain : /\ tries[t].chain[c] \in ChainState /\ tries[t].chain[c].at \in DOMAIN handler.chains[c]
                               /\ AtCall(t, c) \in Call /\ AtCall(t, c) = <<c, tries[t].chain[c].at>>
<1>1. tries[t] \in TryRecord
  <2>1. tries[t] \in TryRecord \cup {Over}
    BY DEF PromptInv, PromptTypes
  <2> QED
    BY <2>1 DEF Runs, Over
<1>2. tries[t].got \in [Call -> Nat] /\ tries[t].chain \in [Chain -> ChainState]
  BY <1>1 DEF TryRecord
<1>3. TryFits(tries[t]) /\ handler \in SubConf
  BY DEF PromptInv, PromptTypes, TriesFit
<1>4. \A c \in Chain : tries[t].chain[c].at \in DOMAIN handler.chains[c]
  BY <1>3 DEF TryFits
<1> QED
  BY <1>1, <1>2, <1>3, <1>4, HandlerFacts DEF AtCall

\* The calls before one that nothing disturbs are not disturbed either.
LEMMA EarlierCalls ==
    ASSUME NEW c, NEW i \in Nat, NEW j \in Nat, j <= i, ~Disturbed(<<c, i>>)
    PROVE  ~Disturbed(<<c, j>>)
BY DEF Disturbed

\* What a call is looked up under.
LEMMA KeysOfCalls ==
    ASSUME PromptInv, NEW t \in DOMAIN tries, Runs(t), NEW c \in Chain, tries[t].chain[c].pc # "idle"
    PROVE  /\ ~Reorders => Key(t, c)[1] = Place(AtCall(t, c))
           /\ ~Disturbed(AtCall(t, c)) => Key(t, c) = OnlyKey(AtCall(t, c)) /\ ~Reorders
<1>1. Key(t, c)[1] = tries[t].chain[c].ordinal
  BY DEF Key
<1>2. ~Reorders => Key(t, c)[1] = Place(AtCall(t, c))
  BY <1>1, TryFacts DEF TryFits, InOrder, InPlace
<1>3. ASSUME ~Disturbed(AtCall(t, c)) PROVE Key(t, c) = OnlyKey(AtCall(t, c)) /\ ~Reorders
  <2> DEFINE i == tries[t].chain[c].at
  <2>1. ~Reorders
    BY <1>3 DEF Disturbed
  <2>2. i \in DOMAIN handler.chains[c] /\ i \in Nat \ {0} /\ AtCall(t, c) = <<c, i>>
    BY TryFacts, HandlerFacts
  <2>3. ASSUME i > 1 PROVE tries[t].got[<<c, i - 1>>] = 1
    <3>1. i - 1 \in Nat /\ i - 1 \in DOMAIN handler.chains[c] /\ i - 1 < i
      BY <2>2, <2>3, TryFacts, HandlerFacts
    <3>2. tries[t].got[<<c, i - 1>>] # 0
      BY <3>1, TryFacts DEF TryFits, HasAnswers
    <3>3. ~Disturbed(<<c, i - 1>>)
      BY <1>3, <2>2, <3>1, EarlierCalls
    <3>4. <<c, i - 1>> \in Call
      BY <3>1, TryFacts, HandlerFacts
    <3> QED
      BY <3>2, <3>3, <3>4, TryFacts DEF TryFits, HasAnswers
  <2>4. Fingerprint(t, c) = <<handler.chains[c][i], IF handler.quotes /\ i > 1 THEN 1 ELSE 0>>
    BY <2>2, <2>3 DEF Fingerprint
  <2>5. tries[t].chain[c].ordinal = Place(AtCall(t, c))
    BY <1>1, <1>2, <2>1
  <2>6. OnlyKey(AtCall(t, c)) = <<Place(AtCall(t, c)), <<handler.chains[c][i], IF handler.quotes /\ i > 1 THEN 1 ELSE 0>>>>
    BY <2>2 DEF OnlyKey
  <2> QED
    BY <2>1, <2>4, <2>5, <2>6 DEF Key
<1> QED
  BY <1>2, <1>3

\* What every step of the attempts keeps.
Quiet ==
    /\ handler' = handler /\ raced \subseteq raced' /\ (done => done')
    /\ \A p \in Call : answered[p] > 0 => answered'[p] > 0

LEMMA Unmoved ==
    ASSUME handler' = handler
    PROVE  /\ Chain' = Chain /\ Call' = Call /\ TryRecord' = TryRecord /\ Short' = Short /\ Reorders' = Reorders
           /\ \A kind : Limit(kind)' = Limit(kind)
           /\ \A p : Place(p)' = Place(p) /\ OnlyKey(p)' = OnlyKey(p)
<1>1. Chain' = Chain
  BY DEF Chain
<1>2. Call' = Call
  BY <1>1 DEF Call
<1>3. TryRecord' = TryRecord
  BY <1>1, <1>2 DEF TryRecord, ChainState
<1>4. Short' = Short /\ Reorders' = Reorders
  BY <1>1 DEF Short, Reorders
<1>5. \A kind : Limit(kind)' = Limit(kind)
  BY DEF Limit
<1>6. \A p : Place(p)' = Place(p) /\ OnlyKey(p)' = OnlyKey(p)
  BY <1>4 DEF Place, OnlyKey
<1> QED
  BY <1>1, <1>2, <1>3, <1>4, <1>5, <1>6

\* A disturbed call stays one.
LEMMA Disturbance ==
    ASSUME Quiet
    PROVE  \A p : Disturbed(p) => Disturbed(p)'
BY Unmoved DEF Quiet, Disturbed

\* An attempt fits what is known of the others as long as nobody answers what it asks.
LEMMA QuietFits ==
    ASSUME NEW r, Quiet, TryFits(r),
           \A c \in Chain : LET p == <<c, r.chain[c].at>> IN
              r.chain[c].pc = "asking" => Disturbed(p) \/ answered'[p] = 0
    PROVE  TryFits(r)'
<1> USE DEF Quiet
<1>1. \A c \in Chain' : /\ r.chain[c].at \in DOMAIN handler'.chains[c]
                        /\ r.chain[c].pc = "end" => r.chain[c].at = Len(handler'.chains[c])
  BY Unmoved DEF TryFits
<1>2. InOrder(r)'
  BY Unmoved DEF TryFits, InOrder, Ordered, InPlace, Within
<1>3. HasAnswers(r)'
  BY Unmoved, Disturbance DEF TryFits, HasAnswers
<1>4. Asks(r)'
  BY Unmoved, Disturbance DEF TryFits, Asks
<1> QED
  BY <1>1, <1>2, <1>3, <1>4 DEF TryFits

\* A step of one attempt.
LEMMA StepOfTry ==
    ASSUME PromptInv, Quiet, NEW t \in DOMAIN tries, Runs(t),
           NEW r, r \in TryRecord, tries' = [tries EXCEPT ![t] = r], TryFits(r)',
           \A u \in DOMAIN tries \ {t}, c \in Chain :
              Runs(u) /\ tries[u].chain[c].pc = "asking" => Disturbed(AtCall(u, c)) \/ answered'[AtCall(u, c)] = 0,
           \A c \in Chain : r.chain[c].pc = "asking" =>
              \/ tries[t].chain[c].pc = "asking" /\ r.chain[c].at = tries[t].chain[c].at
              \/ \A u \in DOMAIN tries \ {t} :
                    Runs(u) /\ tries[u].chain[c].pc = "asking" /\ tries[u].chain[c].at = r.chain[c].at
                    => <<c, r.chain[c].at>> \in raced'
    PROVE  tries' \in Seq(TryRecord' \cup {Over}) /\ TriesFit' /\ AskedOnce'
<1> USE DEF Quiet
<1>1. tries \in Seq(TryRecord \cup {Over})
  BY DEF PromptInv, PromptTypes
<1>2. /\ tries' \in Seq(TryRecord' \cup {Over}) /\ DOMAIN tries' = DOMAIN tries /\ tries'[t] = r
      /\ \A u \in DOMAIN tries \ {t} : tries'[u] = tries[u]
  BY <1>1, Unmoved
<1>3. TriesFit'
  <2> SUFFICES ASSUME NEW u \in DOMAIN tries, Runs(u)'
               PROVE  TryFits(tries[u])'
    BY <1>2 DEF TriesFit
  <2>1. CASE u = t
    BY <1>2, <2>1
  <2>2. CASE u # t
    <3>1. PICK q : q = tries[u]
      OBVIOUS
    <3>2. Runs(u) /\ tries'[u] = q
      BY <1>2, <2>2, <3>1 DEF Runs
    <3>3. TryFits(q)
      BY <3>1, <3>2 DEF PromptInv, TriesFit
    <3>4. \A c \in Chain : q.chain[c].pc = "asking" => Disturbed(<<c, q.chain[c].at>>) \/ answered'[<<c, q.chain[c].at>>] = 0
      BY <2>2, <3>1, <3>2 DEF AtCall
    <3>5. TryFits(q)'
      BY <3>3, <3>4, QuietFits
    <3> QED
      BY <3>2, <3>5
  <2> QED
    BY <2>1, <2>2
<1>4. AskedOnce'
  <2> SUFFICES ASSUME NEW u \in DOMAIN tries, NEW v \in DOMAIN tries, Runs(u)', Runs(v)', u # v, NEW c \in Chain,
                      tries'[u].chain[c].pc = "asking", tries'[v].chain[c].pc = "asking",
                      tries'[u].chain[c].at = tries'[v].chain[c].at
               PROVE  <<c, tries'[u].chain[c].at>> \in raced'
    BY <1>2, Unmoved DEF AskedOnce, AtCall
  <2>1. ASSUME NEW w \in DOMAIN tries, NEW x \in DOMAIN tries, w # x, Runs(w), Runs(x),
               tries[w].chain[c].pc = "asking", tries[x].chain[c].pc = "asking", tries[w].chain[c].at = tries[x].chain[c].at
        PROVE  <<c, tries[w].chain[c].at>> \in raced'
    BY <2>1 DEF PromptInv, AskedOnce, AtCall
  <2>2. \A w \in DOMAIN tries \ {t} : Runs(w)' = Runs(w)
    BY <1>2 DEF Runs
  <2>3. CASE u = t
    <3>1. v # t /\ Runs(v) /\ tries[v].chain[c].pc = "asking" /\ tries[v].chain[c].at = r.chain[c].at
      BY <1>2, <2>2, <2>3
    <3>2. r.chain[c].pc = "asking" /\ tries'[u] = r
      BY <1>2, <2>3
    <3>3. CASE tries[t].chain[c].pc = "asking" /\ r.chain[c].at = tries[t].chain[c].at
      BY <2>1, <3>1, <3>2, <3>3
    <3> QED
      BY <3>1, <3>2, <3>3
  <2>4. CASE v = t
    <3>1. u # t /\ Runs(u) /\ tries[u].chain[c].pc = "asking" /\ tries[u].chain[c].at = r.chain[c].at
      BY <1>2, <2>2, <2>4
    <3>2. r.chain[c].pc = "asking" /\ tries'[v] = r /\ tries'[u] = tries[u]
      BY <1>2, <2>4
    <3>3. CASE tries[t].chain[c].pc = "asking" /\ r.chain[c].at = tries[t].chain[c].at
      BY <2>1, <3>1, <3>2, <3>3
    <3> QED
      BY <3>1, <3>2, <3>3
  <2>5. CASE u # t /\ v # t
    BY <1>2, <2>1, <2>2, <2>5
  <2> QED
    BY <2>3, <2>4, <2>5
<1> QED
  BY <1>2, <1>3, <1>4

\* Nothing is answered and the step does not complete.
LEMMA NothingAnswered ==
    ASSUME PromptInv, handler' = handler, raced \subseteq raced', UNCHANGED <<completions, done, taken, answered>>
    PROVE  Quiet /\ AnswersOnTrail' /\ StepTook'
<1>1. Quiet
  BY DEF Quiet
<1>2. AnswersOnTrail'
  BY <1>1, Unmoved, Disturbance DEF PromptInv, AnswersOnTrail
<1>3. StepTook'
  BY <1>1, Unmoved, Disturbance DEF PromptInv, StepTook
<1> QED
  BY <1>1, <1>2, <1>3

LEMMA StillAsking ==
    ASSUME PromptInv, UNCHANGED answered
    PROVE  \A u \in DOMAIN tries, c \in Chain :
              Runs(u) /\ tries[u].chain[c].pc = "asking" => Disturbed(AtCall(u, c)) \/ answered'[AtCall(u, c)] = 0
<1> SUFFICES ASSUME NEW u \in DOMAIN tries, NEW c \in Chain, Runs(u), tries[u].chain[c].pc = "asking"
             PROVE  Disturbed(AtCall(u, c)) \/ answered[AtCall(u, c)] = 0
  OBVIOUS
<1> QED
  BY TryFacts DEF TryFits, Asks

\* In a replay of the step nothing is asked that was answered.
LEMMA ReplayFinds ==
    ASSUME PromptInv, NEW t \in DOMAIN tries, Runs(t), tries[t].kind = "replay", NEW p \in Call
    PROVE  done /\ taken[p] # 0 /\ (~Disturbed(p) => answered[p] > 0 /\ taken[p] = 1)
<1>1. done
  BY TryFacts DEF TryFits
<1> QED
  BY <1>1 DEF PromptInv, StepTook

LEMMA LimitsAreNumbers ==
    ASSUME handler \in SubConf
    PROVE  \A kind : Limit(kind) \in Nat
BY HandlerFacts DEF Limit

\* The call that is made has its ordinal.
LEMMA NextOrdinal ==
    ASSUME PromptInv, ~Reorders, NEW t \in DOMAIN tries, Runs(t), NEW c \in Chain, tries[t].chain[c].pc = "idle",
           \A d \in Chain \ {c} : d < c \/ Begun(t, c) => Begun(t, d)
    PROVE  tries[t].ordinal + 1 = Place(AtCall(t, c))
<1> DEFINE r == tries[t]
<1>1. r \in TryRecord /\ Ordered(r) /\ handler \in SubConf /\ AtCall(t, c) = <<c, r.chain[c].at>>
  BY TryFacts DEF TryFits, InOrder
<1>2. CASE Short
  <2>1. r.ordinal \in Nat /\ \A d \in Chain : r.chain[d].pc # "idle" <=> d <= r.ordinal
    BY <1>1, <1>2 DEF Ordered, TryRecord
  <2>2. \A d \in Chain : r.chain[d].at = 1
    BY <1>2, TryFacts, HandlerFacts, <1>1 DEF Short
  <2>3. \A d \in Chain \ {c} : d < c => d <= r.ordinal
    BY <2>1, <2>2 DEF Begun
  <2>4. PICK m \in Nat : Chain = 1 .. m
    BY <1>1, HandlerFacts
  <2>5. ~(c <= r.ordinal)
    BY <2>1
  <2>6. c = r.ordinal + 1
    <3>1. CASE c = 1
      BY <2>1, <2>5, <3>1
    <3>2. CASE c > 1
      <4>1. c - 1 \in Chain \ {c} /\ c - 1 < c
        BY <2>4, <3>2
      <4> QED
        BY <2>1, <2>3, <2>4, <2>5, <4>1
    <3> QED
      BY <2>4, <3>1, <3>2
  <2> QED
    BY <1>1, <1>2, <2>6 DEF Place
<1>3. CASE ~Short
  <2>1. c = 1
    BY <1>1, <1>3, PlacesDiffer
  <2>2. r.ordinal = r.chain[1].at - 1 /\ r.chain[1].at \in Nat
    BY <1>1, <1>3, <2>1, TryFacts DEF Ordered, ChainState
  <2> QED
    BY <1>1, <1>3, <2>1, <2>2 DEF Place
<1> QED
  BY <1>2, <1>3

LEMMA MakeCallKeeps ==
    ASSUME PromptInv, NEW t \in DOMAIN tries, NEW c \in Chain, MakeCall(t, c)
    PROVE  PromptInv'
<1>1. /\ Runs(t) /\ tries[t].chain[c].pc = "idle"
      /\ \A d \in Chain \ {c} : d < c \/ Begun(t, c) => Begun(t, d)
      /\ UNCHANGED <<handler, completions, done, taken, answered, raced, repeated>>
  BY DEF MakeCall
<1>2. PICK w : w = tries[t]
  OBVIOUS
<1>3. /\ w \in TryRecord /\ TryFits(w) /\ w.chain[c].pc = "idle" /\ w.chain[c] \in ChainState /\ w.ordinal \in Nat
      /\ w.chain \in [Chain -> ChainState] /\ handler \in SubConf
  BY <1>1, <1>2, TryFacts DEF TryRecord
<1>4. PICK pc \in {"called", "failed"} : pc = IF w.ordinal + 1 > Limit(w.kind) THEN "failed" ELSE "called"
  OBVIOUS
<1>5. PICK row : row = [w.chain[c] EXCEPT !.ordinal = w.ordinal + 1, !.pc = pc]
  OBVIOUS
<1>6. PICK chain \in [Chain -> ChainState] : chain = [w.chain EXCEPT ![c] = row]
  <2>1. PICK b \in ChainState, o \in Nat : b = w.chain[c] /\ o = w.ordinal + 1
    BY <1>3
  <2>2. [b EXCEPT !.ordinal = o, !.pc = pc] \in ChainState
    BY <1>4, <2>1 DEF ChainState
  <2> QED
    BY <1>3, <1>5, <2>1, <2>2
<1>7. PICK r \in TryRecord : r = [w EXCEPT !.ordinal = w.ordinal + 1, !.chain = chain]
  <2>1. PICK o \in Nat : o = w.ordinal + 1
    BY <1>3
  <2>2. [w EXCEPT !.ordinal = o, !.chain = chain] \in TryRecord
    BY <1>3, <1>6 DEF TryRecord
  <2> QED
    BY <2>1, <2>2
<1>8. tries' = [tries EXCEPT ![t] = r]
  <2>1. [w EXCEPT !.ordinal = w.ordinal + 1, !.chain[c] = [@ EXCEPT !.ordinal = w.ordinal + 1, !.pc = pc]]
        = [w EXCEPT !.ordinal = w.ordinal + 1, !.chain = [w.chain EXCEPT ![c] = [w.chain[c] EXCEPT !.ordinal = w.ordinal + 1, !.pc = pc]]]
    OBVIOUS
  <2>2. Drawn(t, c) = r
    BY <1>2, <1>4, <1>5, <1>6, <1>7, <2>1 DEF Drawn
  <2> QED
    BY <2>2 DEF MakeCall
<1>9. /\ r.kind = w.kind /\ r.got = w.got /\ r.ordinal = w.ordinal + 1 /\ r.chain[c] = row
      /\ \A d \in Chain \ {c} : r.chain[d] = w.chain[d]
      /\ \A d \in Chain : r.chain[d].at = w.chain[d].at
      /\ row.pc = pc /\ row.ordinal = w.ordinal + 1 /\ row.at = w.chain[c].at
  <2>1. PICK b \in ChainState : b = w.chain[c]
    BY <1>3
  <2>2. row.pc = pc /\ row.ordinal = w.ordinal + 1 /\ row.at = w.chain[c].at
    BY <1>5, <2>1 DEF ChainState
  <2> QED
    BY <1>3, <1>6, <1>7, <2>2 DEF TryRecord
<1>10. ~Reorders => w.ordinal + 1 = Place(<<c, w.chain[c].at>>)
  BY <1>1, <1>2, NextOrdinal DEF AtCall
<1>11. InOrder(r)
  <2> SUFFICES ASSUME ~Reorders PROVE Ordered(r) /\ InPlace(r) /\ Within(r)
    BY DEF InOrder
  <2>1. Ordered(w) /\ InPlace(w) /\ Within(w)
    BY <1>3 DEF TryFits, InOrder
  <2>2. Ordered(r)
    <3>1. CASE Short
      <4>1. PICK m \in Nat : Len(handler.chains) = m /\ Chain = 1 .. m
        BY <1>3, HandlerFacts
      <4>2. w.ordinal + 1 = c
        BY <1>10, <3>1 DEF Place
      <4>3. \A d \in Chain : w.chain[d].pc # "idle" <=> d <= w.ordinal
        BY <2>1, <3>1 DEF Ordered
      <4>4. \A d \in Chain : r.chain[d].pc # "idle" <=> d <= r.ordinal
        BY <1>3, <1>4, <1>9, <4>1, <4>2, <4>3
      <4> QED
        BY <1>9, <3>1, <4>1, <4>2, <4>4 DEF Ordered
    <3>2. CASE ~Short
      <4>1. c = 1
        BY <1>3, <3>2, PlacesDiffer
      <4>2. w.ordinal + 1 = w.chain[c].at
        BY <1>10, <3>2 DEF Place
      <4> QED
        BY <1>4, <1>9, <3>2, <4>1, <4>2 DEF Ordered
    <3> QED
      BY <3>1, <3>2
  <2>3. InPlace(r)
    BY <1>9, <1>10, <2>1 DEF InPlace
  <2>4. Within(r)
    <3>1. row.pc = "called" => row.ordinal <= Limit(r.kind)
      BY <1>3, <1>4, <1>9, LimitsAreNumbers
    <3> QED
      BY <1>4, <1>9, <2>1, <3>1 DEF Within
  <2> QED
    BY <2>2, <2>3, <2>4
<1>12. HasAnswers(r)
  BY <1>3, <1>4, <1>9 DEF TryFits, HasAnswers
<1>13. ASSUME r.kind = "replay", row.pc = "failed", ~Disturbed(<<c, w.chain[c].at>>)
       PROVE  handler.stepLimit > DefaultLimit
  <2>1. <<c, w.chain[c].at>> \in Call /\ ~Reorders /\ done
    BY <1>1, <1>2, <1>3, <1>9, <1>13, TryFacts DEF TryFits, Disturbed, AtCall
  <2>2. PICK n \in Nat : n = w.ordinal + 1 /\ n = Place(<<c, w.chain[c].at>>)
    BY <1>3, <1>10, <2>1
  <2>3. n <= Limit("work")
    BY <2>1, <2>2 DEF PromptInv, StepTook
  <2>4. n > Limit("replay")
    BY <1>4, <1>9, <1>13, <2>2
  <2>5. PICK a \in Nat, b \in Nat, d \in Nat : a = handler.callLimit /\ b = handler.stepLimit /\ d = DefaultLimit
    BY <1>3, HandlerFacts
  <2> QED
    BY <2>2, <2>3, <2>4, <2>5 DEF Limit
<1>14. Asks(r)
  BY <1>3, <1>4, <1>9, <1>13 DEF TryFits, Asks
<1>15. TryFits(r)
  BY <1>3, <1>4, <1>9, <1>11, <1>12, <1>14 DEF TryFits
<1>16. Quiet /\ AnswersOnTrail' /\ StepTook'
  BY <1>1, NothingAnswered
<1>17. TryFits(r)'
  <2>1. \A d \in Chain : r.chain[d].pc = "asking" => Disturbed(<<d, r.chain[d].at>>) \/ answered'[<<d, r.chain[d].at>>] = 0
    BY <1>1, <1>14 DEF Asks
  <2> QED
    BY <1>15, <1>16, <2>1, QuietFits
<1>18. \A u \in DOMAIN tries \ {t}, d \in Chain :
          Runs(u) /\ tries[u].chain[d].pc = "asking" => Disturbed(AtCall(u, d)) \/ answered'[AtCall(u, d)] = 0
  BY <1>1, StillAsking
<1>19. \A d \in Chain : r.chain[d].pc = "asking" => tries[t].chain[d].pc = "asking" /\ r.chain[d].at = tries[t].chain[d].at
  BY <1>2, <1>4, <1>9
<1>20. tries' \in Seq(TryRecord' \cup {Over}) /\ TriesFit' /\ AskedOnce'
  BY <1>1, <1>7, <1>8, <1>16, <1>17, <1>18, <1>19, StepOfTry
<1> QED
  BY <1>1, <1>16, <1>20, Unmoved, Disturbance DEF PromptInv, PromptTypes

\* The agent is asked, or the call fails.
LEMMA AskedOrFailed ==
    ASSUME PromptInv, NEW t \in DOMAIN tries, Runs(t), NEW c \in Chain, NEW x \in {"asking", "failed"},
           tries[t].chain[c].pc \in {"called", "asking"}, tries' = [tries EXCEPT ![t].chain[c].pc = x],
           handler' = handler, raced \subseteq raced', UNCHANGED <<completions, done, taken, answered>>,
           x = "asking" => Disturbed(AtCall(t, c)) \/ answered[AtCall(t, c)] = 0,
           x = "failed" /\ tries[t].kind = "replay" => Disturbed(AtCall(t, c)) \/ handler.stepLimit > DefaultLimit,
           x = "asking" => \A u \in DOMAIN tries \ {t} :
              Runs(u) /\ tries[u].chain[c].pc = "asking" /\ AtCall(u, c) = AtCall(t, c) => AtCall(t, c) \in raced'
    PROVE  PromptTypes' /\ TriesFit' /\ AskedOnce' /\ AnswersOnTrail' /\ StepTook'
<1>2. PICK w : w = tries[t]
  OBVIOUS
<1>3. /\ w \in TryRecord /\ TryFits(w) /\ w.chain[c].pc \in {"called", "asking"} /\ w.chain[c] \in ChainState
      /\ w.chain \in [Chain -> ChainState] /\ handler \in SubConf /\ AtCall(t, c) = <<c, w.chain[c].at>>
  BY <1>2, TryFacts DEF TryRecord
<1>5. PICK row \in ChainState : /\ row = [w.chain[c] EXCEPT !.pc = x]
                                /\ row.pc = x /\ row.ordinal = w.chain[c].ordinal /\ row.at = w.chain[c].at
  <2>1. PICK b \in ChainState : b = w.chain[c]
    BY <1>3
  <2>2. PICK row : row = [b EXCEPT !.pc = x]
    OBVIOUS
  <2>3. row \in ChainState /\ row.pc = x /\ row.ordinal = b.ordinal /\ row.at = b.at
    BY <2>1, <2>2 DEF ChainState
  <2> QED
    BY <2>1, <2>2, <2>3
<1>6. PICK chain \in [Chain -> ChainState] : chain = [w.chain EXCEPT ![c] = row]
  BY <1>3, <1>5
<1>7. PICK r \in TryRecord : r = [w EXCEPT !.chain = chain]
  BY <1>3, <1>6 DEF TryRecord
<1>8. tries' = [tries EXCEPT ![t] = r]
  <2>1. [w EXCEPT !.chain[c].pc = x] = [w EXCEPT !.chain = [w.chain EXCEPT ![c] = [w.chain[c] EXCEPT !.pc = x]]]
    OBVIOUS
  <2>2. tries' = [tries EXCEPT ![t] = [tries[t] EXCEPT !.chain[c].pc = x]]
    OBVIOUS
  <2> QED
    BY <1>2, <1>5, <1>6, <1>7, <2>1, <2>2
<1>9. /\ r.kind = w.kind /\ r.got = w.got /\ r.ordinal = w.ordinal /\ r.chain[c] = row
      /\ \A d \in Chain \ {c} : r.chain[d] = w.chain[d]
      /\ \A d \in Chain : r.chain[d].at = w.chain[d].at
  BY <1>3, <1>5, <1>6, <1>7 DEF TryRecord
<1>11. InOrder(r)
  <2> SUFFICES ASSUME ~Reorders PROVE Ordered(r) /\ InPlace(r) /\ Within(r)
    BY DEF InOrder
  <2>1. Ordered(w) /\ InPlace(w) /\ Within(w)
    BY <1>3 DEF TryFits, InOrder
  <2>2. \A d \in Chain : r.chain[d].pc = "idle" <=> w.chain[d].pc = "idle"
    BY <1>3, <1>5, <1>9
  <2>3. Ordered(r)
    <3>1. CASE Short
      BY <1>9, <2>1, <2>2, <3>1 DEF Ordered
    <3>2. CASE ~Short
      <4>1. 1 \in Chain
        BY <1>3, <3>2, PlacesDiffer
      <4> QED
        BY <1>9, <2>1, <2>2, <3>2, <4>1 DEF Ordered
    <3> QED
      BY <3>1, <3>2
  <2>5. \A d \in Chain : r.chain[d].ordinal = w.chain[d].ordinal
    BY <1>5, <1>9
  <2>6. InPlace(r)
    BY <1>9, <2>1, <2>2, <2>5 DEF InPlace
  <2>7. Within(r)
    <3>1. w.chain[c].ordinal <= Limit(w.kind)
      BY <1>3, <2>1 DEF Within
    <3> QED
      BY <1>9, <2>1, <2>5, <3>1 DEF Within
  <2> QED
    BY <2>3, <2>6, <2>7
<1>12. HasAnswers(r)
  <2>1. \A d \in Chain : r.chain[d].pc = "end" => w.chain[d].pc = "end"
    BY <1>5, <1>9
  <2>2. HasAnswers(w)
    BY <1>3 DEF TryFits
  <2> QED
    BY <1>9, <2>1, <2>2 DEF HasAnswers
<1>14. Asks(r)
  <2>1. Asks(w)
    BY <1>3 DEF TryFits
  <2>2. ASSUME NEW d \in Chain, d # c
        PROVE  LET p == <<d, r.chain[d].at>> IN
               /\ r.chain[d].pc = "asking" => Disturbed(p) \/ answered[p] = 0
               /\ r.kind = "replay" /\ r.chain[d].pc = "failed" => Disturbed(p) \/ handler.stepLimit > DefaultLimit
    BY <1>9, <2>1, <2>2 DEF Asks
  <2>3. LET p == <<c, r.chain[c].at>> IN
        /\ r.chain[c].pc = "asking" => Disturbed(p) \/ answered[p] = 0
        /\ r.kind = "replay" /\ r.chain[c].pc = "failed" => Disturbed(p) \/ handler.stepLimit > DefaultLimit
    BY <1>2, <1>3, <1>5, <1>9
  <2> QED
    BY <2>2, <2>3 DEF Asks
<1>15. TryFits(r)
  BY <1>3, <1>5, <1>9, <1>11, <1>12, <1>14 DEF TryFits
<1>16. Quiet /\ AnswersOnTrail' /\ StepTook'
  BY NothingAnswered
<1>17. TryFits(r)'
  <2>1. \A d \in Chain : r.chain[d].pc = "asking" => Disturbed(<<d, r.chain[d].at>>) \/ answered'[<<d, r.chain[d].at>>] = 0
    BY <1>14 DEF Asks
  <2> QED
    BY <1>15, <1>16, <2>1, QuietFits
<1>18. \A u \in DOMAIN tries \ {t}, d \in Chain :
          Runs(u) /\ tries[u].chain[d].pc = "asking" => Disturbed(AtCall(u, d)) \/ answered'[AtCall(u, d)] = 0
  BY StillAsking
<1>19. \A d \in Chain : r.chain[d].pc = "asking" =>
          \/ tries[t].chain[d].pc = "asking" /\ r.chain[d].at = tries[t].chain[d].at
          \/ \A u \in DOMAIN tries \ {t} :
                Runs(u) /\ tries[u].chain[d].pc = "asking" /\ tries[u].chain[d].at = r.chain[d].at
                => <<d, r.chain[d].at>> \in raced'
  <2>1. CASE x = "asking"
    <3>1. \A u \in DOMAIN tries \ {t} :
             Runs(u) /\ tries[u].chain[c].pc = "asking" /\ tries[u].chain[c].at = w.chain[c].at => <<c, w.chain[c].at>> \in raced'
      BY <1>3, <2>1 DEF AtCall
    <3> QED
      BY <1>2, <1>9, <3>1
  <2>2. CASE x = "failed"
    BY <1>2, <1>5, <1>9, <2>2
  <2> QED
    BY <2>1, <2>2
<1>20. tries' \in Seq(TryRecord' \cup {Over}) /\ TriesFit' /\ AskedOnce'
  BY <1>7, <1>8, <1>16, <1>17, <1>18, <1>19, StepOfTry
<1> QED
  BY <1>16, <1>20, Unmoved DEF PromptInv, PromptTypes

LEMMA FailCallKeeps ==
    ASSUME PromptInv, NEW t \in DOMAIN tries, NEW c \in Chain, FailCall(t, c)
    PROVE  PromptInv'
<1>1. /\ Runs(t) /\ tries[t].chain[c].pc = "asking" /\ tries' = [tries EXCEPT ![t].chain[c].pc = "failed"]
      /\ UNCHANGED <<handler, completions, done, taken, answered, raced, repeated>>
  BY DEF FailCall
<1>2. tries[t].kind = "replay" => Disturbed(AtCall(t, c))
  BY <1>1, TryFacts, ReplayFinds DEF TryFits, Asks, AtCall
<1>3. PromptTypes' /\ TriesFit' /\ AskedOnce' /\ AnswersOnTrail' /\ StepTook'
  BY <1>1, <1>2, AskedOrFailed
<1> QED
  BY <1>1, <1>3, NothingAnswered, Disturbance DEF PromptInv

LEMMA LookUpAsks ==
    ASSUME PromptInv, NEW t \in DOMAIN tries, NEW c \in Chain, LookUp(t, c), ~Recorded(Key(t, c))
    PROVE  PromptInv'
<1> DEFINE p == AtCall(t, c)
<1>1. /\ Runs(t) /\ tries[t].chain[c].pc = "called" /\ tries' = [tries EXCEPT ![t].chain[c].pc = "asking"]
      /\ UNCHANGED <<handler, completions, done, taken, answered>>
      /\ raced' = IF \E u \in DOMAIN tries \ {t} : Runs(u) /\ tries[u].chain[c].pc = "asking" /\ AtCall(u, c) = p
                  THEN raced \cup {p} ELSE raced
      /\ repeated' = IF answered[p] > 0 THEN repeated \cup {p} ELSE repeated
  BY DEF LookUp
<1>2. p \in Call
  BY <1>1, TryFacts
<1>3. Disturbed(p) \/ answered[p] = 0
  <2>1. answered[p] \in Nat
    BY <1>2 DEF PromptInv, PromptTypes
  <2>2. ASSUME ~Disturbed(p), answered[p] > 0 PROVE FALSE
    <3>1. Key(t, c) = OnlyKey(p)
      BY <1>1, <2>2, KeysOfCalls
    <3>2. OnlyKey(p) \in DOMAIN completions
      BY <1>2, <2>2 DEF PromptInv, AnswersOnTrail
    <3> QED
      BY <3>1, <3>2 DEF Recorded
  <2> QED
    BY <2>1, <2>2
<1>4. raced \subseteq raced'
  BY <1>1
<1>5. \A u \in DOMAIN tries \ {t} :
         Runs(u) /\ tries[u].chain[c].pc = "asking" /\ AtCall(u, c) = p => p \in raced'
  BY <1>1
<1>6. PromptTypes' /\ TriesFit' /\ AskedOnce' /\ AnswersOnTrail' /\ StepTook'
  BY <1>1, <1>3, <1>4, <1>5, AskedOrFailed
<1>7. \A q \in repeated' : Disturbed(q)
  <2>1. \A q \in repeated : Disturbed(q)
    BY DEF PromptInv
  <2>2. CASE answered[p] > 0
    BY <1>1, <1>3, <2>1, <2>2
  <2>3. CASE ~(answered[p] > 0)
    BY <1>1, <2>1, <2>3
  <2> QED
    BY <2>2, <2>3
<1>8. Quiet
  BY <1>1, <1>4, NothingAnswered
<1> QED
  BY <1>6, <1>7, <1>8, Disturbance DEF PromptInv

\* The call has its answer.
LEMMA CallReturns ==
    ASSUME PromptInv, Quiet, NEW t \in DOMAIN tries, Runs(t), NEW c \in Chain, NEW ans \in Nat \ {0},
           tries[t].chain[c].pc \in {"called", "asking"}, tries' = [tries EXCEPT ![t] = Returns(t, c, ans)],
           ~Disturbed(AtCall(t, c)) => ans = 1 /\ answered'[AtCall(t, c)] > 0,
           \A p \in Call \ {AtCall(t, c)} : answered'[p] = answered[p],
           \A u \in DOMAIN tries \ {t}, d \in Chain :
              Runs(u) /\ tries[u].chain[d].pc = "asking" => Disturbed(AtCall(u, d)) \/ answered'[AtCall(u, d)] = 0
    PROVE  tries' \in Seq(TryRecord' \cup {Over}) /\ TriesFit' /\ AskedOnce'
<1>2. PICK w : w = tries[t]
  OBVIOUS
<1>3. /\ w \in TryRecord /\ TryFits(w) /\ w.chain[c].pc \in {"called", "asking"} /\ w.chain[c] \in ChainState
      /\ w.chain \in [Chain -> ChainState] /\ w.got \in [Call -> Nat] /\ handler \in SubConf
      /\ AtCall(t, c) = <<c, w.chain[c].at>> /\ <<c, w.chain[c].at>> \in Call
  <2>1. /\ w \in TryRecord /\ TryFits(w) /\ w.chain[c] \in ChainState /\ w.got \in [Call -> Nat]
        /\ w.chain \in [Chain -> ChainState] /\ handler \in SubConf
        /\ AtCall(t, c) = <<c, w.chain[c].at>> /\ AtCall(t, c) \in Call
    BY <1>2, TryFacts
  <2> QED
    BY <1>2, <2>1
<1>4. PICK b \in ChainState, n \in Nat \ {0} :
         b = w.chain[c] /\ n = Len(handler.chains[c]) /\ DOMAIN handler.chains[c] = 1 .. n /\ b.at \in 1 .. n
  <2>1. PICK n \in Nat \ {0} : n = Len(handler.chains[c]) /\ DOMAIN handler.chains[c] = 1 .. n
    BY <1>3, HandlerFacts
  <2>2. w.chain[c].at \in 1 .. n
    BY <1>3, <2>1 DEF TryFits
  <2> QED
    BY <1>3, <2>1, <2>2
<1>5. PICK row : row = IF b.at = n THEN [b EXCEPT !.pc = "end"] ELSE [b EXCEPT !.pc = "idle", !.at = b.at + 1]
  OBVIOUS
<1>6. /\ row \in ChainState /\ row.ordinal = b.ordinal /\ row.pc \in {"end", "idle"}
      /\ row.pc = "end" => row.at = n /\ b.at = n
      /\ row.pc = "idle" => row.at = b.at + 1 /\ b.at # n
  <2>1. CASE b.at = n
    BY <1>4, <1>5, <2>1 DEF ChainState
  <2>2. CASE b.at # n
    <3>1. PICK m \in Nat : m = b.at + 1
      BY <1>4
    <3>2. row = [b EXCEPT !.pc = "idle", !.at = m]
      BY <1>5, <2>2, <3>1
    <3> QED
      BY <1>4, <2>2, <3>1, <3>2 DEF ChainState
  <2> QED
    BY <2>1, <2>2
<1>7. PICK chain \in [Chain -> ChainState], got \in [Call -> Nat] :
         chain = [w.chain EXCEPT ![c] = row] /\ got = [w.got EXCEPT ![<<c, b.at>>] = ans]
  BY <1>3, <1>4, <1>6
<1>8. PICK r \in TryRecord : r = [w EXCEPT !.got = got, !.chain = chain]
  BY <1>3, <1>7 DEF TryRecord
<1>9. tries' = [tries EXCEPT ![t] = r]
  <2>1. Returns(t, c, ans)
        = [w EXCEPT !.got = [w.got EXCEPT ![<<c, b.at>>] = ans], !.chain = [w.chain EXCEPT ![c] = row]]
    <3>1. MovesOn(t, c) = row
      BY <1>2, <1>4, <1>5 DEF MovesOn
    <3> QED
      BY <1>2, <1>3, <1>4, <3>1 DEF Returns
  <2> QED
    BY <1>7, <1>8, <2>1
<1>10. /\ r.kind = w.kind /\ r.ordinal = w.ordinal /\ r.chain[c] = row
       /\ \A d \in Chain \ {c} : r.chain[d] = w.chain[d]
       /\ r.got[<<c, b.at>>] = ans /\ \A p \in Call \ {<<c, b.at>>} : r.got[p] = w.got[p]
  BY <1>3, <1>4, <1>6, <1>7, <1>8 DEF TryRecord
<1>11. InOrder(r)'
  <2> SUFFICES ASSUME ~Reorders PROVE Ordered(r) /\ InPlace(r) /\ Within(r)
    BY Unmoved DEF InOrder, Ordered, InPlace, Within, Quiet
  <2>1. Ordered(w) /\ InPlace(w) /\ Within(w)
    BY <1>3 DEF TryFits, InOrder
  <2>2. Ordered(r)
    <3>1. CASE Short
      <4>1. row.pc = "end"
        <5>1. n = 1
          BY <1>4, <3>1 DEF Short
        <5> QED
          BY <1>4, <1>6, <5>1
      <4>2. \A d \in Chain : r.chain[d].pc # "idle" <=> w.chain[d].pc # "idle"
        BY <1>3, <1>10, <4>1
      <4> QED
        BY <1>10, <2>1, <3>1, <4>2 DEF Ordered
    <3>2. CASE ~Short
      <4>1. c = 1
        BY <1>3, <3>2, PlacesDiffer
      <4>2. w.ordinal = b.at
        BY <1>3, <1>4, <2>1, <3>2, <4>1 DEF Ordered
      <4> QED
        BY <1>4, <1>6, <1>10, <3>2, <4>1, <4>2 DEF Ordered
    <3> QED
      BY <3>1, <3>2
  <2>3. InPlace(r)
    BY <1>3, <1>4, <1>6, <1>10, <2>1 DEF InPlace
  <2>4. Within(r)
    BY <1>3, <1>4, <1>6, <1>10, <2>1 DEF Within
  <2> QED
    BY <2>2, <2>3, <2>4
<1>12. HasAnswers(r)'
  <2>1. HasAnswers(w)
    BY <1>3 DEF TryFits
  <2>2. \A p \in Call : r.got[p] # 0 => Disturbed(p)' \/ (r.got[p] = 1 /\ answered'[p] > 0)
    <3>1. ASSUME NEW p \in Call \ {<<c, b.at>>}, r.got[p] # 0
          PROVE  Disturbed(p)' \/ (r.got[p] = 1 /\ answered'[p] > 0)
      BY <1>3, <1>4, <1>10, <2>1, <3>1, Disturbance DEF HasAnswers
    <3>2. Disturbed(<<c, b.at>>)' \/ (r.got[<<c, b.at>>] = 1 /\ answered'[<<c, b.at>>] > 0)
      BY <1>3, <1>4, <1>10, Disturbance
    <3> QED
      BY <3>1, <3>2
  <2>3. \A d \in Chain : \A i \in DOMAIN handler.chains[d] :
           i < r.chain[d].at \/ r.chain[d].pc = "end" => r.got[<<d, i>>] # 0
    <3>1. ASSUME NEW d \in Chain, d # c, NEW i \in DOMAIN handler.chains[d], i < r.chain[d].at \/ r.chain[d].pc = "end"
          PROVE  r.got[<<d, i>>] # 0
      <4>1. w.got[<<d, i>>] # 0 /\ <<d, i>> \in Call
        <5>1. r.chain[d] = w.chain[d]
          BY <1>10, <3>1
        <5>2. w.got[<<d, i>>] # 0
          BY <2>1, <3>1, <5>1 DEF HasAnswers
        <5> QED
          BY <1>3, <3>1, <5>2, HandlerFacts
      <4> QED
        BY <1>10, <3>1, <4>1
    <3>2. ASSUME NEW i \in DOMAIN handler.chains[c], i < r.chain[c].at \/ r.chain[c].pc = "end"
          PROVE  r.got[<<c, i>>] # 0
      <4>1. i \in Nat /\ i <= b.at
        BY <1>4, <1>6, <1>10, <3>2
      <4>2. CASE i = b.at
        BY <1>10, <4>2
      <4>3. CASE i < b.at
        <5>1. w.got[<<c, i>>] # 0 /\ <<c, i>> \in Call
          BY <1>3, <1>4, <2>1, <4>3, HandlerFacts DEF HasAnswers
        <5>2. <<c, i>> # <<c, b.at>>
          BY <1>4, <4>1, <4>3
        <5> QED
          BY <1>10, <5>1, <5>2
      <4> QED
        BY <1>4, <4>1, <4>2, <4>3
    <3> QED
      BY <3>1, <3>2
  <2> QED
    BY <2>2, <2>3, Unmoved DEF HasAnswers, Quiet
<1>13. Asks(r)'
  <2>1. Asks(w)
    BY <1>3 DEF TryFits
  <2>2. ASSUME NEW d \in Chain, d # c
        PROVE  LET p == <<d, r.chain[d].at>> IN
               /\ r.chain[d].pc = "asking" => Disturbed(p)' \/ answered'[p] = 0
               /\ r.kind = "replay" /\ r.chain[d].pc = "failed" => Disturbed(p)' \/ handler.stepLimit > DefaultLimit
    <3>1. r.chain[d] = w.chain[d] /\ r.kind = w.kind
      BY <1>10, <2>2
    <3>2. <<d, w.chain[d].at>> \in Call \ {AtCall(t, c)}
      <4>1. <<d, w.chain[d].at>> \in Call
        BY <1>2, TryFacts
      <4> QED
        BY <1>3, <2>2, <4>1
    <3>3. answered'[<<d, w.chain[d].at>>] = answered[<<d, w.chain[d].at>>]
      BY <3>2
    <3> QED
      BY <2>1, <3>1, <3>3, Disturbance DEF Asks
  <2>3. r.chain[c].pc \in {"end", "idle"}
    BY <1>6, <1>10
  <2> QED
    BY <2>2, <2>3, Unmoved DEF Asks, Quiet
<1>14. TryFits(r)'
  <2>1. \A d \in Chain : /\ r.chain[d].at \in DOMAIN handler.chains[d]
                         /\ r.chain[d].pc = "end" => r.chain[d].at = Len(handler.chains[d])
    <3>1. row.at \in DOMAIN handler.chains[c] /\ (row.pc = "end" => row.at = Len(handler.chains[c]))
      BY <1>4, <1>6
    <3> QED
      BY <1>3, <1>10, <3>1 DEF TryFits
  <2>2. r.kind = "replay" => done'
    BY <1>3, <1>10 DEF TryFits, Quiet
  <2> QED
    BY <1>11, <1>12, <1>13, <2>1, <2>2, Unmoved DEF TryFits, Quiet
<1>15. \A d \in Chain : r.chain[d].pc = "asking" => tries[t].chain[d].pc = "asking" /\ r.chain[d].at = tries[t].chain[d].at
  BY <1>2, <1>6, <1>10
<1> QED
  <2>1. \A d \in Chain : r.chain[d].pc = "asking" =>
           \/ tries[t].chain[d].pc = "asking" /\ r.chain[d].at = tries[t].chain[d].at
           \/ \A u \in DOMAIN tries \ {t} :
                 Runs(u) /\ tries[u].chain[d].pc = "asking" /\ tries[u].chain[d].at = r.chain[d].at
                 => <<d, r.chain[d].at>> \in raced'
    BY <1>15
  <2> QED
    BY <1>8, <1>9, <1>14, <2>1, StepOfTry

LEMMA LookUpFinds ==
    ASSUME PromptInv, NEW t \in DOMAIN tries, NEW c \in Chain, LookUp(t, c), Recorded(Key(t, c))
    PROVE  PromptInv'
<1>1. PICK key, ans : key = Key(t, c) /\ ans = completions[key]
  OBVIOUS
<1>2. /\ Runs(t) /\ tries[t].chain[c].pc = "called" /\ tries' = [tries EXCEPT ![t] = Returns(t, c, ans)]
      /\ UNCHANGED <<handler, completions, done, taken, answered, raced, repeated>>
  BY <1>1 DEF LookUp
<1>3. ans \in Nat \ {0} /\ key \in DOMAIN completions
  BY <1>1 DEF PromptInv, PromptTypes, Recorded
<1>4. PICK p \in Call : p = AtCall(t, c)
  BY <1>2, TryFacts
<1>5. ASSUME ~Disturbed(p) PROVE ans = 1 /\ answered[p] > 0
  <2>1. key = OnlyKey(p) /\ key[1] = Place(p) /\ ~Reorders
    BY <1>1, <1>2, <1>4, <1>5, KeysOfCalls
  <2>2. answered[p] > 0
    BY <1>3, <2>1 DEF PromptInv, AnswersOnTrail
  <2> QED
    BY <1>1, <1>5, <2>1, <2>2 DEF PromptInv, AnswersOnTrail
<1>6. Quiet /\ AnswersOnTrail' /\ StepTook'
  BY <1>2, NothingAnswered
<1>7. \A u \in DOMAIN tries \ {t}, d \in Chain :
         Runs(u) /\ tries[u].chain[d].pc = "asking" => Disturbed(AtCall(u, d)) \/ answered'[AtCall(u, d)] = 0
  BY <1>2, StillAsking
<1>8. tries' \in Seq(TryRecord' \cup {Over}) /\ TriesFit' /\ AskedOnce'
  BY <1>2, <1>3, <1>4, <1>5, <1>6, <1>7, CallReturns
<1> QED
  BY <1>2, <1>6, <1>8, Unmoved, Disturbance DEF PromptInv, PromptTypes

LEMMA AnswerCallKeeps ==
    ASSUME PromptInv, NEW t \in DOMAIN tries, NEW c \in Chain, AnswerCall(t, c)
    PROVE  PromptInv'
<1>1. Runs(t) /\ tries[t].chain[c].pc = "asking"
  BY DEF AnswerCall
<1>2. PICK p \in Call : p = AtCall(t, c)
  BY <1>1, TryFacts
<1> DEFINE key == Key(t, c)
<1>3. PICK ans \in Nat \ {0} : ans = answered[p] + 1
  <2>1. answered[p] \in Nat
    BY DEF PromptInv, PromptTypes
  <2> QED
    BY <2>1
<1>4. /\ completions' = [k \in DOMAIN completions \cup {key} |-> IF k = key THEN ans ELSE completions[k]]
      /\ answered' = [answered EXCEPT ![p] = ans]
      /\ tries' = [tries EXCEPT ![t] = Returns(t, c, ans)]
      /\ UNCHANGED <<handler, done, taken, raced, repeated>>
  BY <1>2, <1>3 DEF AnswerCall
<1>5. /\ answered \in [Call -> Nat] /\ answered' \in [Call -> Nat] /\ answered'[p] = ans /\ ans > 0
      /\ \A q \in Call \ {p} : answered'[q] = answered[q]
  BY <1>3, <1>4 DEF PromptInv, PromptTypes
<1>6. Quiet
  BY <1>4, <1>5 DEF Quiet
<1>7. ASSUME ~Disturbed(p) PROVE ans = 1 /\ key = OnlyKey(p)
  <2>1. answered[p] = 0
    BY <1>1, <1>2, <1>7, TryFacts DEF TryFits, Asks
  <2>2. ans = 1
    BY <1>3, <2>1
  <2>3. Key(t, c) = OnlyKey(AtCall(t, c))
    BY <1>1, <1>2, <1>7, KeysOfCalls
  <2> QED
    BY <1>2, <1>3, <2>2, <2>3
<1>8. ASSUME ~Reorders PROVE key[1] = Place(p)
  BY <1>1, <1>2, <1>3, <1>8, KeysOfCalls
<1>9. ASSUME NEW u \in DOMAIN tries \ {t}, NEW d \in Chain, Runs(u), tries[u].chain[d].pc = "asking"
      PROVE  Disturbed(AtCall(u, d)) \/ answered'[AtCall(u, d)] = 0
  <2>1. AtCall(u, d) = <<d, tries[u].chain[d].at>> /\ AtCall(t, c) = <<c, tries[t].chain[c].at>> /\ AtCall(u, d) \in Call
    BY <1>1, <1>9, TryFacts
  <2>2. CASE AtCall(u, d) = p
    <3>1. d = c
      BY <1>2, <2>1, <2>2
    <3>2. p \in raced
      BY <1>1, <1>2, <1>9, <2>2, <3>1 DEF PromptInv, AskedOnce
    <3>3. p = <<p[1], p[2]>> /\ p[2] \in 1 .. p[2]
      <4>1. handler \in SubConf
        BY DEF PromptInv, PromptTypes
      <4>2. p = <<p[1], p[2]>> /\ p[1] \in Chain /\ p[2] \in DOMAIN handler.chains[p[1]]
        BY <4>1, HandlerFacts
      <4>3. PICK n \in Nat : DOMAIN handler.chains[p[1]] = 1 .. n
        BY <4>1, <4>2, HandlerFacts
      <4> QED
        BY <4>2, <4>3
    <3> QED
      BY <2>2, <3>2, <3>3 DEF Disturbed
  <2>3. CASE AtCall(u, d) # p
    <3>1. Disturbed(AtCall(u, d)) \/ answered[AtCall(u, d)] = 0
      BY <1>9, <2>1, TryFacts DEF TryFits, Asks
    <3> QED
      BY <1>5, <2>1, <2>3, <3>1
  <2> QED
    BY <2>2, <2>3
<1>10. tries' \in Seq(TryRecord' \cup {Over}) /\ TriesFit' /\ AskedOnce'
  <2>1. ~Disturbed(AtCall(t, c)) => ans = 1 /\ answered'[AtCall(t, c)] > 0
    BY <1>2, <1>5, <1>7
  <2>2. \A q \in Call \ {AtCall(t, c)} : answered'[q] = answered[q]
    BY <1>2, <1>5
  <2>3. \A u \in DOMAIN tries \ {t}, d \in Chain :
           Runs(u) /\ tries[u].chain[d].pc = "asking" => Disturbed(AtCall(u, d)) \/ answered'[AtCall(u, d)] = 0
    BY <1>9
  <2> QED
    BY <1>1, <1>4, <1>6, <2>1, <2>2, <2>3, CallReturns
<1>11. \A q : Disturbed(q)' <=> Disturbed(q)
  BY <1>4, Unmoved DEF Disturbed
<1>12. AnswersOnTrail'
  <2> SUFFICES ASSUME NEW q \in Call
               PROVE  /\ ~Disturbed(q) => answered'[q] <= 1
                      /\ ~Disturbed(q) /\ answered'[q] > 0 => OnlyKey(q) \in DOMAIN completions' /\ completions'[OnlyKey(q)] = 1
                      /\ ~Reorders => \A k \in DOMAIN completions' : k[1] = Place(q) => answered'[q] > 0
    BY <1>4, <1>11, Unmoved DEF AnswersOnTrail
  <2>1. /\ ~Disturbed(q) => answered[q] <= 1
        /\ ~Disturbed(q) /\ answered[q] > 0 => OnlyKey(q) \in DOMAIN completions /\ completions[OnlyKey(q)] = 1
        /\ ~Reorders => \A k \in DOMAIN completions : k[1] = Place(q) => answered[q] > 0
    BY DEF PromptInv, AnswersOnTrail
  <2>2. CASE q = p
    BY <1>4, <1>5, <1>7, <2>1, <2>2
  <2>3. CASE q # p
    <3>1. ~Reorders => key[1] # Place(q) /\ key # OnlyKey(q)
      <4>1. ~Reorders => Place(p) # Place(q)
        BY <2>3, PlacesDiffer DEF PromptInv, PromptTypes
      <4> QED
        BY <1>8, <4>1 DEF OnlyKey
    <3>2. ~Disturbed(q) => ~Reorders
      BY DEF Disturbed
    <3> QED
      BY <1>4, <1>5, <2>1, <2>3, <3>1, <3>2
  <2> QED
    BY <2>2, <2>3
<1>13. StepTook'
  <2>1. \A q \in Call : answered[q] > 0 => answered'[q] > 0
    BY <1>6 DEF Quiet
  <2> QED
    BY <1>4, <1>11, <2>1, Unmoved DEF PromptInv, StepTook
<1>14. \A k \in DOMAIN completions' : completions'[k] \in Nat \ {0}
  BY <1>4 DEF PromptInv, PromptTypes
<1> QED
  BY <1>4, <1>5, <1>10, <1>11, <1>12, <1>13, <1>14, Unmoved DEF PromptInv, PromptTypes

LEMMA CompleteTryKeeps ==
    ASSUME PromptInv, NEW t \in DOMAIN tries, CompleteTry(t)
    PROVE  PromptInv'
<1>1. /\ Runs(t) /\ Through(t) /\ tries' = [tries EXCEPT ![t] = Over]
      /\ \/ tries[t].kind = "work" /\ done' = TRUE /\ taken' = tries[t].got
         \/ UNCHANGED <<done, taken>>
      /\ UNCHANGED <<handler, completions, answered, raced, repeated>>
  BY DEF CompleteTry
<1>2. Quiet
  BY <1>1 DEF Quiet
<1>3. tries \in Seq(TryRecord \cup {Over})
  BY DEF PromptInv, PromptTypes
<1>4. /\ tries' \in Seq(TryRecord' \cup {Over}) /\ DOMAIN tries' = DOMAIN tries /\ tries'[t] = Over
      /\ \A u \in DOMAIN tries \ {t} : tries'[u] = tries[u]
  BY <1>1, <1>3, Unmoved
<1>5. ASSUME NEW u \in DOMAIN tries, Runs(u)'
      PROVE  u # t /\ Runs(u) /\ tries'[u] = tries[u]
  BY <1>4, <1>5 DEF Runs, Over
<1>6. TriesFit'
  <2> SUFFICES ASSUME NEW u \in DOMAIN tries, Runs(u)'
               PROVE  TryFits(tries[u])'
    BY <1>4 DEF TriesFit
  <2>1. PICK r : r = tries[u]
    OBVIOUS
  <2>2. TryFits(r) /\ tries'[u] = r
    BY <1>5, <2>1 DEF PromptInv, TriesFit
  <2>3. \A c \in Chain : r.chain[c].pc = "asking" => Disturbed(<<c, r.chain[c].at>>) \/ answered'[<<c, r.chain[c].at>>] = 0
    BY <1>1, <2>2 DEF TryFits, Asks
  <2>4. TryFits(r)'
    BY <1>2, <2>2, <2>3, QuietFits
  <2> QED
    BY <2>2, <2>4
<1>7. AskedOnce'
  BY <1>1, <1>4, <1>5, Unmoved DEF PromptInv, AskedOnce, AtCall
<1>8. AnswersOnTrail'
  BY <1>1, <1>2, Unmoved, Disturbance DEF PromptInv, AnswersOnTrail
<1>9. StepTook'
  <2>1. CASE UNCHANGED <<done, taken>>
    BY <1>1, <1>2, <2>1, Unmoved, Disturbance DEF PromptInv, StepTook
  <2>2. CASE tries[t].kind = "work" /\ taken' = tries[t].got
    <3>1. PICK w : w = tries[t] /\ w.kind = "work" /\ taken' = w.got
      BY <2>2
    <3>2. TryFits(w) /\ (\A c \in Chain : w.chain[c].pc = "end") /\ handler \in SubConf
      BY <1>1, <3>1, TryFacts DEF Through
    <3>3. \A p \in Call : taken'[p] # 0 => Disturbed(p) \/ (taken'[p] = 1 /\ answered[p] > 0)
      BY <3>1, <3>2 DEF TryFits, HasAnswers
    <3>4. ASSUME NEW p \in Call PROVE taken'[p] # 0
      <4>1. p = <<p[1], p[2]>> /\ p[1] \in Chain /\ p[2] \in DOMAIN handler.chains[p[1]]
        BY <3>2, HandlerFacts
      <4>2. w.got[<<p[1], p[2]>>] # 0
        BY <3>2, <4>1 DEF TryFits, HasAnswers
      <4> QED
        BY <3>1, <4>1, <4>2
    <3>5. ASSUME NEW p \in Call, ~Reorders PROVE Place(p) <= Limit("work")
      <4>1. PICK c \in Chain, i \in Nat, n \in Nat :
               /\ c = p[1] /\ i = p[2] /\ n = Len(handler.chains[c]) /\ i <= n /\ w.chain[c].at = n
        <5>1. p[1] \in Chain /\ p[2] \in DOMAIN handler.chains[p[1]]
          BY <3>2, HandlerFacts
        <5>2. PICK n \in Nat : n = Len(handler.chains[p[1]]) /\ DOMAIN handler.chains[p[1]] = 1 .. n
          BY <3>2, <5>1, HandlerFacts
        <5>3. w.chain[p[1]].at = n
          BY <3>2, <5>1, <5>2 DEF TryFits
        <5> QED
          BY <5>1, <5>2, <5>3
      <4>2. Place(<<c, n>>) = w.chain[c].ordinal /\ w.chain[c].ordinal <= Limit("work")
        BY <3>1, <3>2, <3>5, <4>1 DEF TryFits, InOrder, InPlace, Within
      <4>3. Place(p) <= Place(<<c, n>>) /\ Place(p) \in Nat /\ Place(<<c, n>>) \in Nat
        BY <3>2, <4>1, HandlerFacts DEF Place
      <4>4. Limit("work") \in Nat
        BY <3>2, LimitsAreNumbers
      <4> QED
        BY <4>2, <4>3, <4>4
    <3> QED
      BY <1>1, <1>2, <3>3, <3>4, <3>5, Unmoved, Disturbance DEF StepTook
  <2> QED
    BY <1>1, <2>1, <2>2
<1>10. done' \in BOOLEAN /\ taken' \in [Call -> Nat]
  BY <1>1, TryFacts DEF PromptInv, PromptTypes
<1> QED
  BY <1>1, <1>2, <1>4, <1>6, <1>7, <1>8, <1>9, <1>10, Unmoved, Disturbance DEF PromptInv, PromptTypes

\* What a new attempt starts with.
LEMMA NewTryFits ==
    ASSUME handler \in SubConf, NEW k \in {"work", "replay"}, k = "replay" => done
    PROVE  Try(k) \in TryRecord /\ TryFits(Try(k)) /\ \A c \in Chain : Try(k).chain[c].pc = "idle"
<1>1. PICK r : r = Try(k)
  OBVIOUS
<1>2. PICK row \in ChainState : row = [at |-> 1, pc |-> "idle", ordinal |-> 0] /\ row.at = 1 /\ row.pc = "idle"
  <2>1. [at |-> 1, pc |-> "idle", ordinal |-> 0] \in ChainState
    BY DEF ChainState
  <2> QED
    BY <2>1
<1>3. /\ NoAnswers \in [Call -> Nat] /\ (\A p \in Call : NoAnswers[p] = 0)
      /\ [c \in Chain |-> row] \in [Chain -> ChainState]
  BY DEF NoAnswers
<1>4. r = [kind |-> k, pc |-> "live", ordinal |-> 0, got |-> NoAnswers, chain |-> [c \in Chain |-> row]]
  BY <1>1, <1>2 DEF Try
<1>5. /\ r \in TryRecord /\ r.kind = k /\ r.ordinal = 0 /\ (\A p \in Call : r.got[p] = 0)
      /\ \A c \in Chain : r.chain[c].at = 1 /\ r.chain[c].pc = "idle"
  BY <1>2, <1>3, <1>4 DEF TryRecord
<1>6. PICK m \in Nat : m = Len(handler.chains) /\ Chain = 1 .. m
  BY HandlerFacts
<1>7. \A c \in Chain : DOMAIN handler.chains[c] = 1 .. Len(handler.chains[c]) /\ Len(handler.chains[c]) \in Nat \ {0}
  BY HandlerFacts
<1>8. InOrder(r)
  <2> SUFFICES ASSUME ~Reorders PROVE Ordered(r)
    BY <1>5 DEF InOrder, InPlace, Within
  <2>1. CASE Short
    BY <1>5, <1>6, <2>1 DEF Ordered
  <2>2. CASE ~Short
    BY <1>5, <2>2, PlacesDiffer DEF Ordered
  <2> QED
    BY <2>1, <2>2
<1>9. HasAnswers(r)
  <2>1. ASSUME NEW c \in Chain, NEW i \in DOMAIN handler.chains[c] PROVE ~(i < 1)
    <3>1. PICK n \in Nat : DOMAIN handler.chains[c] = 1 .. n
      BY <1>7
    <3> QED
      BY <2>1, <3>1
  <2> QED
    BY <1>5, <2>1 DEF HasAnswers
<1>10. Asks(r)
  BY <1>5 DEF Asks
<1>11. \A c \in Chain : 1 \in DOMAIN handler.chains[c]
  BY <1>7
<1> QED
  BY <1>1, <1>5, <1>8, <1>9, <1>10, <1>11 DEF TryFits

\* A new attempt begins after those before it.
LEMMA NewTry ==
    ASSUME PromptInv, UNCHANGED <<handler, completions, done, taken, answered, raced, repeated>>,
           NEW k \in {"work", "replay"}, k = "replay" => done,
           NEW before \in Seq(TryRecord \cup {Over}), tries' = Append(before, Try(k)),
           DOMAIN before = DOMAIN tries,
           \A t \in DOMAIN tries :
              \/ before[t] = tries[t] \/ before[t] = Over
              \/ Runs(t) /\ before[t] = [tries[t] EXCEPT !.pc = "left"]
    PROVE  PromptInv'
<1>1. Quiet /\ AnswersOnTrail' /\ StepTook'
  BY NothingAnswered
<1>2. PICK r : r = Try(k)
  OBVIOUS
<1>3. handler \in SubConf
  BY DEF PromptInv, PromptTypes
<1>4. r \in TryRecord /\ TryFits(r) /\ \A c \in Chain : r.chain[c].pc = "idle"
  BY <1>2, <1>3, NewTryFits
<1>5. PICK n \in Nat : n = Len(before) /\ DOMAIN before = 1 .. n
  OBVIOUS
<1>6. /\ tries' \in Seq(TryRecord' \cup {Over}) /\ DOMAIN tries' = 1 .. n + 1 /\ tries'[n + 1] = r
      /\ \A t \in 1 .. n : tries'[t] = before[t]
  BY <1>2, <1>4, <1>5, Unmoved
<1>7. ASSUME NEW t \in 1 .. n, Runs(t)'
      PROVE  /\ Runs(t) /\ tries'[t].kind = tries[t].kind /\ tries'[t].ordinal = tries[t].ordinal
             /\ tries'[t].got = tries[t].got /\ tries'[t].chain = tries[t].chain
  <2>1. CASE before[t] = tries[t]
    BY <1>5, <1>6, <1>7, <2>1 DEF Runs
  <2>2. CASE Runs(t) /\ before[t] = [tries[t] EXCEPT !.pc = "left"]
    BY <1>5, <1>6, <2>2, TryFacts DEF TryRecord
  <2> QED
    BY <1>5, <1>6, <1>7, <2>1, <2>2 DEF Runs, Over
<1>8. TriesFit'
  <2> SUFFICES ASSUME NEW t \in 1 .. n + 1, Runs(t)'
               PROVE  TryFits(tries[t])'
    BY <1>6 DEF TriesFit
  <2>1. PICK q : q = tries'[t]
    OBVIOUS
  <2>2. TryFits(q)
    <3>1. CASE t = n + 1
      BY <1>4, <1>6, <2>1, <3>1
    <3>2. CASE t # n + 1
      <4>1. t \in 1 .. n /\ t \in DOMAIN tries
        BY <1>5, <3>2
      <4>2. TryFits(tries[t])
        BY <1>7, <4>1 DEF PromptInv, TriesFit
      <4>3. PICK w : w = tries[t]
        OBVIOUS
      <4>4. TryFits(w) /\ q.kind = w.kind /\ q.ordinal = w.ordinal /\ q.got = w.got /\ q.chain = w.chain
        BY <1>7, <2>1, <4>1, <4>2, <4>3
      <4>5. InOrder(q)
        BY <4>4 DEF TryFits, InOrder, Ordered, InPlace, Within
      <4>6. HasAnswers(q) /\ Asks(q)
        BY <4>4 DEF TryFits, HasAnswers, Asks
      <4> QED
        BY <4>4, <4>5, <4>6 DEF TryFits
    <3> QED
      BY <3>1, <3>2
  <2>3. \A c \in Chain : q.chain[c].pc = "asking" => Disturbed(<<c, q.chain[c].at>>) \/ answered'[<<c, q.chain[c].at>>] = 0
    BY <2>2 DEF TryFits, Asks
  <2>4. TryFits(q)'
    BY <1>1, <2>2, <2>3, QuietFits
  <2> QED
    BY <2>1, <2>4
<1>9. AskedOnce'
  <2> SUFFICES ASSUME NEW t \in 1 .. n + 1, NEW u \in 1 .. n + 1, Runs(t)', Runs(u)', t # u, NEW c \in Chain,
                      tries'[t].chain[c].pc = "asking", tries'[u].chain[c].pc = "asking",
                      tries'[t].chain[c].at = tries'[u].chain[c].at
               PROVE  <<c, tries'[t].chain[c].at>> \in raced
    BY <1>6, Unmoved DEF AskedOnce, AtCall
  <2>1. t \in 1 .. n /\ u \in 1 .. n
    BY <1>4, <1>6
  <2>2. /\ Runs(t) /\ Runs(u) /\ t \in DOMAIN tries /\ u \in DOMAIN tries
        /\ tries'[t].chain = tries[t].chain /\ tries'[u].chain = tries[u].chain
    BY <1>5, <1>7, <2>1
  <2> QED
    BY <2>2 DEF PromptInv, AskedOnce, AtCall
<1> QED
  BY <1>1, <1>6, <1>8, <1>9, Unmoved, Disturbance DEF PromptInv, PromptTypes

LEMMA AbandonTryKeeps ==
    ASSUME PromptInv, NEW t \in DOMAIN tries, AbandonTry(t)
    PROVE  PromptInv'
<1>1. /\ tries[t].pc = "live" /\ tries' = Append([tries EXCEPT ![t].pc = "left"], Try("work"))
      /\ UNCHANGED <<handler, completions, done, taken, answered, raced, repeated>>
  BY DEF AbandonTry, Begin
<1>2. tries \in Seq(TryRecord \cup {Over}) /\ Runs(t)
  BY <1>1 DEF PromptInv, PromptTypes, Runs
<1>3. PICK r \in TryRecord : r = [tries[t] EXCEPT !.pc = "left"]
  BY <1>2, TryFacts DEF TryRecord
<1>4. PICK before : before = [tries EXCEPT ![t] = r]
  OBVIOUS
<1>5. /\ before \in Seq(TryRecord \cup {Over}) /\ DOMAIN before = DOMAIN tries /\ before[t] = r
      /\ \A u \in DOMAIN tries \ {t} : before[u] = tries[u]
  BY <1>2, <1>4
<1>6. before = [tries EXCEPT ![t].pc = "left"]
  BY <1>3, <1>4
<1>7. \A u \in DOMAIN tries :
         \/ before[u] = tries[u] \/ before[u] = Over
         \/ Runs(u) /\ before[u] = [tries[u] EXCEPT !.pc = "left"]
  BY <1>2, <1>3, <1>5
<1>8. tries' = Append(before, Try("work"))
  BY <1>1, <1>6
<1> QED
  BY <1>1, <1>5, <1>7, <1>8, NewTry

LEMMA ReopenRunKeeps ==
    ASSUME PromptInv, ReopenRun
    PROVE  PromptInv'
<1>1. PICK k \in {"work", "replay"} : k = IF done THEN "replay" ELSE "work"
  OBVIOUS
<1>2. PICK before : before = [t \in DOMAIN tries |-> Over]
  OBVIOUS
<1>3. /\ tries' = Append(before, Try(k))
      /\ UNCHANGED <<handler, completions, done, taken, answered, raced, repeated>>
  BY <1>1, <1>2 DEF ReopenRun, Begin
<1>4. tries \in Seq(TryRecord \cup {Over})
  BY DEF PromptInv, PromptTypes
<1>5. before \in Seq(TryRecord \cup {Over}) /\ DOMAIN before = DOMAIN tries /\ \A t \in DOMAIN tries : before[t] = Over
  BY <1>2, <1>4
<1>6. k = "replay" => done
  BY <1>1
<1> QED
  BY <1>3, <1>5, <1>6, NewTry

LEMMA PromptInitially ==
    ASSUME SPInit
    PROVE  PromptInv
<1>1. /\ handler \in SubConf /\ tries = <<Try("work")>> /\ completions = <<>> /\ done = FALSE
      /\ taken = NoAnswers /\ answered = NoAnswers /\ raced = {} /\ repeated = {}
  BY DEF SPInit
<1>2. Try("work") \in TryRecord /\ TryFits(Try("work"))
  BY <1>1, NewTryFits
<1>3. NoAnswers \in [Call -> Nat] /\ \A p \in Call : NoAnswers[p] = 0
  BY DEF NoAnswers
<1>4. PICK r \in TryRecord : r = Try("work")
  BY <1>2
<1>5. tries = <<r>> /\ tries \in Seq(TryRecord \cup {Over}) /\ DOMAIN tries = {1} /\ tries[1] = r
  BY <1>1, <1>4
<1>6. PromptTypes
  <2>1. DOMAIN completions = {}
    BY <1>1
  <2> QED
    BY <1>1, <1>3, <1>5, <2>1 DEF PromptTypes
<1>7. TriesFit /\ AskedOnce
  BY <1>2, <1>4, <1>5 DEF TriesFit, AskedOnce
<1>8. AnswersOnTrail /\ StepTook
  BY <1>1, <1>3 DEF AnswersOnTrail, StepTook
<1> QED
  BY <1>1, <1>6, <1>7, <1>8 DEF PromptInv

\* A call that an agent answered is asked by no attempt, process or replay again, and a
\* replay goes through with the answers that the step went on with, unless its chains
\* overtake one another, two attempts asked at once, or its limit was raised: for any
\* handlers, limits and number of attempts (run-sub-prompt.ts:100,
\* with-step-context.ts:37).
THEOREM CallsAnsweredOnce == SPSpec => []AnswersStick
<1>1. SPInit => PromptInv
  BY PromptInitially
<1>2. PromptInv /\ [SPNext]_spVars => PromptInv'
  <2> SUFFICES ASSUME PromptInv, [SPNext]_spVars
               PROVE  PromptInv'
    OBVIOUS
  <2>1. CASE \E t \in DOMAIN tries : \E c \in Chain : MakeCall(t, c) \/ LookUp(t, c) \/ AnswerCall(t, c) \/ FailCall(t, c)
    <3>1. PICK t \in DOMAIN tries, c \in Chain : MakeCall(t, c) \/ LookUp(t, c) \/ AnswerCall(t, c) \/ FailCall(t, c)
      BY <2>1
    <3>2. CASE LookUp(t, c)
      BY <3>2, LookUpAsks, LookUpFinds
    <3> QED
      BY <3>1, <3>2, MakeCallKeeps, AnswerCallKeeps, FailCallKeeps
  <2>2. CASE \E t \in DOMAIN tries : CompleteTry(t)
    BY <2>2, CompleteTryKeeps
  <2>3. CASE \E t \in DOMAIN tries : AbandonTry(t)
    BY <2>3, AbandonTryKeeps
  <2>4. CASE ReopenRun
    BY <2>4, ReopenRunKeeps
  <2>5. CASE UNCHANGED spVars
    <3>1. Quiet /\ AnswersOnTrail' /\ StepTook'
      BY <2>5, NothingAnswered DEF spVars
    <3>2. TriesFit'
      <4> SUFFICES ASSUME NEW t \in DOMAIN tries, Runs(t)
                   PROVE  TryFits(tries[t])'
        BY <2>5 DEF TriesFit, Runs, spVars
      <4>1. PICK r : r = tries[t]
        OBVIOUS
      <4>2. TryFits(r) /\ tries'[t] = r /\ answered' = answered
        BY <2>5, <4>1 DEF PromptInv, TriesFit, spVars
      <4>3. TryFits(r)'
        BY <3>1, <4>2, QuietFits DEF TryFits, Asks
      <4> QED
        BY <4>2, <4>3
    <3>3. AskedOnce'
      BY <2>5, Unmoved DEF PromptInv, AskedOnce, AtCall, Runs, spVars
    <3>4. PromptTypes'
      BY <2>5, Unmoved DEF PromptInv, PromptTypes, spVars
    <3> QED
      BY <2>5, <3>1, <3>2, <3>3, <3>4, Disturbance DEF PromptInv, spVars
  <2> QED
    BY <2>1, <2>2, <2>3, <2>4, <2>5 DEF SPNext
<1>3. PromptInv => AnswersStick
  <2> SUFFICES ASSUME PromptInv
               PROVE  AnswersStick
    OBVIOUS
  <2>1. ASSUME NEW t \in LiveTries, tries[t].kind = "replay"
        PROVE  t \in DOMAIN tries /\ Runs(t) /\ TryFits(tries[t])
    BY <2>1 DEF LiveTries, Runs, PromptInv, TriesFit
  <2>2. ASSUME NEW t \in LiveTries, NEW p \in Call, tries[t].kind = "replay", tries[t].got[p] # 0
        PROVE  tries[t].got[p] = taken[p] \/ Disturbed(p)
    BY <2>1, <2>2, ReplayFinds DEF TryFits, HasAnswers
  <2>3. ASSUME NEW t \in LiveTries, NEW c \in Chain, tries[t].kind = "replay", tries[t].chain[c].pc = "failed"
        PROVE  Disturbed(AtCall(t, c)) \/ handler.stepLimit > DefaultLimit
    BY <2>1, <2>3 DEF TryFits, Asks, AtCall
  <2> QED
    BY <2>2, <2>3 DEF AnswersStick, PromptInv
<1> QED
  BY <1>1, <1>2, <1>3, PTL DEF SPSpec


(***************************************************************************)
(* RunFiles: the events of a trail, stretch by stretch.                    *)
(***************************************************************************)
AnyPiece == [event : Nat, end : BOOLEAN]
EndsOf(t) == {i \in DOMAIN t : EventAt(t, i)}
UpTo(E, i) == {j \in E : j <= i}
Nth(E, n) == CHOOSE i \in E : Cardinality(UpTo(E, i)) = n

LEMMA Greatest ==
    ASSUME NEW n \in Nat, NEW S \in SUBSET (0 .. n), S # {}
    PROVE  \E m \in S : \A i \in S : i <= m
<1> DEFINE R == OpToRel(<, Nat)
           T == {k \in Nat : \E i \in S : k = n - i}
<1>1. T \in SUBSET Nat /\ T # {}
  <2>1. PICK i \in S : i \in 0 .. n
    OBVIOUS
  <2>2. n - i \in T
    BY <2>1
  <2> QED
    BY <2>2
<1>2. PICK k \in T : \A j \in T : <<j, k>> \notin R
  <2>1. IsWellFoundedOn(R, Nat)
    BY NatLessThanWellFounded
  <2> HIDE DEF T, R
  <2> QED
    BY <1>1, <2>1, WFMin
<1>3. PICK m \in S : k = n - m
  OBVIOUS
<1>4. ASSUME NEW i \in S PROVE i <= m
  <2>1. n - i \in T /\ i \in 0 .. n /\ m \in 0 .. n
    OBVIOUS
  <2>2. ~(n - i < k)
    BY <1>2, <2>1 DEF OpToRel
  <2> QED
    BY <1>3, <2>1, <2>2
<1> QED
  BY <1>3, <1>4

LEMMA RankIsNumber ==
    ASSUME NEW m \in Nat, NEW E \in SUBSET (1 .. m), NEW i
    PROVE  /\ IsFiniteSet(E) /\ IsFiniteSet(UpTo(E, i)) /\ Cardinality(E) \in Nat /\ Cardinality(UpTo(E, i)) \in Nat
           /\ Cardinality(UpTo(E, i)) <= Cardinality(E) /\ UpTo(E, i) \subseteq E
<1>1. IsFiniteSet(E)
  <2>1. IsFiniteSet(1 .. m)
    BY FS_Interval
  <2> QED
    BY <2>1, FS_Subset
<1>2. UpTo(E, i) \in SUBSET E
  BY DEF UpTo
<1> QED
  BY <1>1, <1>2, FS_Subset, FS_CardinalityType

\* The members of a set of numbers have the ranks 1 to their number, each its own.
LEMMA RankReached ==
    ASSUME NEW m \in Nat, NEW E \in SUBSET (1 .. m), NEW n \in 1 .. Cardinality(E)
    PROVE  \E i \in E : Cardinality(UpTo(E, i)) = n
<1> DEFINE S == {i \in 0 .. m : Cardinality(UpTo(E, i)) < n}
<1>1. PICK card \in Nat : card = Cardinality(E) /\ n \in 1 .. card
  BY RankIsNumber
<1>2. 0 \in S
  <2>1. UpTo(E, 0) = {}
    <3>1. \A x \in E : ~(x <= 0)
      OBVIOUS
    <3> QED
      BY <3>1 DEF UpTo
  <2> QED
    BY <1>1, <2>1, FS_EmptySet
<1>3. PICK i \in S : \A k \in S : k <= i
  <2>1. S \in SUBSET (0 .. m) /\ S # {}
    BY <1>2
  <2> HIDE DEF S
  <2> QED
    BY <2>1, Greatest
<1>4. i < m
  <2>1. UpTo(E, m) = E
    <3>1. \A x \in E : x <= m
      OBVIOUS
    <3> QED
      BY <3>1 DEF UpTo
  <2>2. i # m
    BY <1>1, <2>1
  <2> QED
    BY <2>2
<1>5. i + 1 \in 0 .. m /\ i + 1 \notin S
  BY <1>3, <1>4
<1>6. PICK a \in Nat, b \in Nat : a = Cardinality(UpTo(E, i)) /\ b = Cardinality(UpTo(E, i + 1))
  BY RankIsNumber
<1>7. a < n /\ b >= n
  BY <1>1, <1>5, <1>6
<1>8. UpTo(E, i + 1) = IF i + 1 \in E THEN UpTo(E, i) \cup {i + 1} ELSE UpTo(E, i)
  <2>1. \A x \in E : x <= i + 1 <=> x <= i \/ x = i + 1
    BY <1>4
  <2>2. \A x : x \in UpTo(E, i + 1) <=> x \in UpTo(E, i) \/ (x = i + 1 /\ i + 1 \in E)
    BY <1>4, <2>1 DEF UpTo
  <2> QED
    BY <2>2
<1>9. i + 1 \in E
  BY <1>6, <1>7, <1>8
<1>10. b <= a + 1
  <2>1. IsFiniteSet(UpTo(E, i))
    BY RankIsNumber
  <2>2. b = IF i + 1 \in UpTo(E, i) THEN a ELSE a + 1
    BY <1>6, <1>8, <1>9, <2>1, FS_AddElement
  <2> QED
    BY <2>2
<1> QED
  BY <1>1, <1>6, <1>7, <1>9, <1>10

LEMMA RankOnce ==
    ASSUME NEW m \in Nat, NEW E \in SUBSET (1 .. m), NEW i \in E, NEW k \in E,
           Cardinality(UpTo(E, i)) = Cardinality(UpTo(E, k))
    PROVE  i = k
<1>1. ASSUME NEW x \in E, NEW y \in E, x < y, Cardinality(UpTo(E, x)) = Cardinality(UpTo(E, y))
      PROVE  FALSE
  <2>1. UpTo(E, x) \in SUBSET UpTo(E, y) /\ y \in UpTo(E, y) /\ y \notin UpTo(E, x)
    <3>1. x \in Nat /\ y \in Nat /\ \A z \in E : z \in Nat
      OBVIOUS
    <3>2. \A z \in E : z <= x => z <= y
      BY <1>1, <3>1
    <3>3. y <= y /\ ~(y <= x)
      BY <1>1, <3>1
    <3> QED
      BY <3>2, <3>3 DEF UpTo
  <2>2. IsFiniteSet(UpTo(E, y))
    BY RankIsNumber
  <2> QED
    BY <1>1, <2>1, <2>2, FS_Subset
<1>2. i \in Nat /\ k \in Nat
  OBVIOUS
<1> QED
  BY <1>1, <1>2

LEMMA NthRanked ==
    ASSUME NEW m \in Nat, NEW E \in SUBSET (1 .. m)
    PROVE  \A n \in 1 .. Cardinality(E) : Nth(E, n) \in E /\ Cardinality(UpTo(E, Nth(E, n))) = n
BY RankReached DEF Nth

LEMMA NthIs ==
    ASSUME NEW m \in Nat, NEW E \in SUBSET (1 .. m), NEW i \in E
    PROVE  Nth(E, Cardinality(UpTo(E, i))) = i
<1>1. PICK n : n = Cardinality(UpTo(E, i))
  OBVIOUS
<1>2. Nth(E, n) \in E /\ Cardinality(UpTo(E, Nth(E, n))) = n
  BY <1>1 DEF Nth
<1> QED
  BY <1>1, <1>2, RankOnce

LEMMA ShiftKeepsSize ==
    ASSUME NEW m \in Nat, NEW S \in SUBSET (1 .. m), NEW c \in Nat
    PROVE  LET T == {k \in 1 .. c + m : k - c \in S} IN IsFiniteSet(T) /\ Cardinality(T) = Cardinality(S)
<1> DEFINE T == {k \in 1 .. c + m : k - c \in S}
           f == [k \in S |-> c + k]
<1>1. f \in Bijection(S, T)
  <2>1. f \in [S -> T]
    OBVIOUS
  <2>2. \A k, l \in S : f[k] = f[l] => k = l
    OBVIOUS
  <2>3. \A k \in T : k - c \in S /\ f[k - c] = k
    OBVIOUS
  <2> HIDE DEF T, f
  <2> QED
    BY <2>1, <2>2, <2>3 DEF Bijection, Injection, Surjection, IsInjective
<1>2. IsFiniteSet(S)
  BY RankIsNumber
<1> HIDE DEF T, f
<1>3. IsFiniteSet(T) /\ Cardinality(T) = Cardinality(S)
  BY <1>1, <1>2, FS_Bijection DEF ExistsBijection
<1> QED
  BY <1>3 DEF T

LEMMA EventsByRank ==
    ASSUME NEW t \in Seq(AnyPiece)
    PROVE  /\ EndsOf(t) \in SUBSET (1 .. Len(t)) /\ Cardinality(EndsOf(t)) \in Nat
           /\ EventsIn(t) \in Seq(Nat) /\ Len(EventsIn(t)) = Cardinality(EndsOf(t))
           /\ \A n \in 1 .. Cardinality(EndsOf(t)) :
                 Nth(EndsOf(t), n) \in EndsOf(t) /\ EventsIn(t)[n] = t[Nth(EndsOf(t), n)].event
<1>1. PICK m \in Nat : m = Len(t) /\ DOMAIN t = 1 .. m
  OBVIOUS
<1>2. EndsOf(t) \in SUBSET (1 .. m)
  BY <1>1 DEF EndsOf
<1>3. PICK card \in Nat : card = Cardinality(EndsOf(t))
  BY <1>2, RankIsNumber
<1>4. EventsIn(t) = [n \in 1 .. card |-> t[Nth(EndsOf(t), n)].event]
  BY <1>3 DEF EventsIn, EndsOf, Nth, UpTo
<1>5. \A n \in 1 .. card : Nth(EndsOf(t), n) \in EndsOf(t)
  BY <1>2, <1>3, NthRanked
<1>6. \A n \in 1 .. card : t[Nth(EndsOf(t), n)].event \in Nat
  <2> SUFFICES ASSUME NEW n \in 1 .. card
               PROVE  t[Nth(EndsOf(t), n)].event \in Nat
    OBVIOUS
  <2>1. PICK i \in 1 .. m : i = Nth(EndsOf(t), n)
    BY <1>2, <1>5
  <2>2. t[i] \in AnyPiece
    BY <1>1
  <2> QED
    BY <2>1, <2>2 DEF AnyPiece
<1>7. PICK e \in [1 .. card -> Nat] : e = EventsIn(t)
  BY <1>4, <1>6
<1>8. e \in Seq(Nat) /\ Len(e) = card
  BY <1>7
<1>9. \A n \in 1 .. card : e[n] = t[Nth(EndsOf(t), n)].event
  BY <1>4, <1>7
<1> QED
  BY <1>1, <1>2, <1>3, <1>5, <1>7, <1>8, <1>9

\* The events of two stretches are those of the one and then those of the other, where
\* the first ends with a line.
LEMMA EventsOfBoth ==
    ASSUME NEW s \in Seq(AnyPiece), NEW t \in Seq(AnyPiece), s = <<>> \/ s[Len(s)].end
    PROVE  EventsIn(s \o t) = EventsIn(s) \o EventsIn(t)
<1>1. PICK c \in Nat, m \in Nat : c = Len(s) /\ m = Len(t) /\ DOMAIN s = 1 .. c /\ DOMAIN t = 1 .. m
  OBVIOUS
<1>2. PICK u \in Seq(AnyPiece) : u = s \o t
  BY ConcatProperties
<1>3. /\ Len(u) = c + m /\ DOMAIN u = 1 .. c + m
      /\ \A i \in 1 .. c : u[i] = s[i]
      /\ \A i \in 1 .. m : u[c + i] = t[i]
  BY <1>1, <1>2, ConcatProperties
<1> DEFINE A == EndsOf(s)
           B == EndsOf(t)
           E == EndsOf(u)
<1>4. A \in SUBSET (1 .. c) /\ B \in SUBSET (1 .. m) /\ E \in SUBSET (1 .. c + m)
  BY <1>1, <1>3, EventsByRank
<1>5. \A i \in 1 .. c : i \in E <=> i \in A
  <2> SUFFICES ASSUME NEW i \in 1 .. c PROVE EventAt(u, i) <=> EventAt(s, i)
    BY <1>1, <1>3 DEF EndsOf
  <2>1. u[i] = s[i] /\ (i > 1 => u[i - 1] = s[i - 1]) /\ (i > 2 => u[i - 2] = s[i - 2])
    <3>1. (i > 1 => i - 1 \in 1 .. c) /\ (i > 2 => i - 2 \in 1 .. c)
      BY <1>1
    <3> QED
      BY <1>3, <3>1
  <2>2. i = 1 \/ i = 2 \/ i > 2
    OBVIOUS
  <2> QED
    BY <2>1, <2>2 DEF EventAt
<1>6. \A j \in 1 .. m : c + j \in E <=> j \in B
  <2> SUFFICES ASSUME NEW j \in 1 .. m PROVE EventAt(u, c + j) <=> EventAt(t, j)
    BY <1>1, <1>3 DEF EndsOf
  <2>1. c # 0 => u[c] = s[c] /\ s[c].end
    BY <1>1, <1>3
  <2>2. CASE j = 1
    <3>1. ~EventAt(t, j)
      BY <2>2 DEF EventAt
    <3>2. ~EventAt(u, c + j)
      BY <2>1, <2>2 DEF EventAt
    <3> QED
      BY <3>1, <3>2
  <2>3. CASE j = 2
    <3>1. u[c + 2] = t[2] /\ u[c + 1] = t[1]
      BY <1>1, <1>3, <2>3
    <3>2. c + 2 > 1 /\ c + 2 - 1 = c + 1 /\ c + 2 - 2 = c /\ (c + 2 = 2 <=> c = 0)
      OBVIOUS
    <3>3. EventAt(u, c + 2) <=> t[2].end /\ ~t[1].end /\ t[1].event = t[2].event
      BY <2>1, <3>1, <3>2 DEF EventAt
    <3>4. EventAt(t, 2) <=> t[2].end /\ ~t[1].end /\ t[1].event = t[2].event
      BY DEF EventAt
    <3> QED
      BY <2>3, <3>3, <3>4
  <2>4. CASE j > 2
    <3>1. u[c + j] = t[j] /\ u[c + j - 1] = t[j - 1] /\ u[c + j - 2] = t[j - 2]
      <4>1. c + j - 1 = c + (j - 1) /\ c + j - 2 = c + (j - 2) /\ j - 1 \in 1 .. m /\ j - 2 \in 1 .. m
        BY <2>4
      <4> QED
        BY <1>3, <4>1
    <3>2. c + j > 1 /\ c + j # 2 /\ j > 1 /\ j # 2
      BY <2>4
    <3>3. EventAt(u, c + j) <=> t[j].end /\ ~t[j - 1].end /\ t[j - 1].event = t[j].event /\ t[j - 2].end
      BY SMTT(30), <3>1, <3>2 DEF EventAt
    <3>4. EventAt(t, j) <=> t[j].end /\ ~t[j - 1].end /\ t[j - 1].event = t[j].event /\ t[j - 2].end
      BY <3>2 DEF EventAt
    <3> QED
      BY <3>3, <3>4
  <2> QED
    BY <2>2, <2>3, <2>4
<1>7. PICK a \in Nat, b \in Nat : a = Cardinality(A) /\ b = Cardinality(B)
  BY EventsByRank
<1> HIDE DEF A, B, E
\* the ranks of the ends
<1>8. \A i \in A : Cardinality(UpTo(E, i)) = Cardinality(UpTo(A, i))
  <2> SUFFICES ASSUME NEW i \in A PROVE UpTo(E, i) = UpTo(A, i)
    OBVIOUS
  <2>1. i \in 1 .. c /\ \A x \in E : x \in Nat /\ (x <= i => x \in 1 .. c)
    BY <1>4
  <2>2. \A x : x \in UpTo(E, i) <=> x \in UpTo(A, i)
    BY <1>4, <1>5, <2>1 DEF UpTo
  <2> QED
    BY <2>2
<1>9. \A S \in SUBSET B :
         LET T == {k \in 1 .. c + m : k - c \in S} IN IsFiniteSet(T) /\ Cardinality(T) = Cardinality(S)
  BY <1>4, ShiftKeepsSize
<1>10. \A S \in SUBSET B :
          LET T == {k \in 1 .. c + m : k - c \in S} IN Cardinality(A \cup T) = a + Cardinality(S)
  <2> SUFFICES ASSUME NEW S \in SUBSET B
               PROVE  Cardinality(A \cup {k \in 1 .. c + m : k - c \in S}) = a + Cardinality(S)
    OBVIOUS
  <2> DEFINE T == {k \in 1 .. c + m : k - c \in S}
  <2>1. IsFiniteSet(A) /\ IsFiniteSet(T) /\ Cardinality(T) = Cardinality(S)
    BY <1>4, <1>9, RankIsNumber
  <2>2. A \cap T = {}
    <3>1. \A k \in T : k - c \in 1 .. m /\ k \in Nat
      BY <1>4
    <3>2. \A k \in T : k \notin 1 .. c
      BY <3>1
    <3> QED
      BY <1>4, <3>2
  <2>3. IsFiniteSet(S) /\ Cardinality(S) \in Nat
    BY <1>4, RankIsNumber
  <2> HIDE DEF T
  <2>4. Cardinality(A \cup T) = Cardinality(A) + Cardinality(T) - Cardinality(A \cap T)
    BY <2>1, FS_Union
  <2>5. Cardinality(A \cup T) = a + Cardinality(S)
    <3>1. Cardinality(A \cap T) = 0
      BY <2>2, FS_EmptySet
    <3>2. PICK d \in Nat : d = Cardinality(S)
      BY <2>3
    <3>3. Cardinality(A \cup T) = a + d - 0
      BY <1>7, <2>1, <2>4, <3>1, <3>2
    <3> QED
      BY <3>2, <3>3
  <2> QED
    BY <2>5 DEF T
<1>11. \A x : x \in E <=> x \in A \/ (x \in 1 .. c + m /\ x - c \in B)
  <2> SUFFICES ASSUME NEW x PROVE x \in E <=> x \in A \/ (x \in 1 .. c + m /\ x - c \in B)
    OBVIOUS
  <2>1. CASE x \in 1 .. c
    <3>1. x - c \notin B
      BY <1>4, <2>1
    <3> QED
      BY <1>5, <2>1, <3>1
  <2>2. CASE x \in 1 .. c + m /\ x \notin 1 .. c
    <3>1. PICK j \in 1 .. m : x = c + j
      <4>1. x - c \in 1 .. m /\ x = c + (x - c)
        BY <2>2
      <4> QED
        BY <4>1
    <3>2. x - c = j
      BY <3>1
    <3> QED
      BY <1>4, <1>6, <2>2, <3>1, <3>2
  <2>3. CASE x \notin 1 .. c + m
    <3>1. x \notin 1 .. c
      BY <2>3
    <3> QED
      BY <1>4, <2>3, <3>1
  <2> QED
    BY <2>1, <2>2, <2>3
<1>12. Cardinality(E) = a + b
  <2>1. E = A \cup {k \in 1 .. c + m : k - c \in B}
    BY <1>11
  <2>2. Cardinality(A \cup {k \in 1 .. c + m : k - c \in B}) = a + Cardinality(B)
    <3>1. B \in SUBSET B
      OBVIOUS
    <3> QED
      BY <1>10, <3>1, Zenon
  <2> QED
    BY <1>7, <2>1, <2>2
<1>13. \A j \in B : Cardinality(UpTo(E, c + j)) = a + Cardinality(UpTo(B, j))
  <2> SUFFICES ASSUME NEW j \in B PROVE Cardinality(UpTo(E, c + j)) = a + Cardinality(UpTo(B, j))
    OBVIOUS
  <2>1. UpTo(B, j) \in SUBSET B
    BY DEF UpTo
  <2>2. \A x : x \in UpTo(E, c + j) <=> x \in A \/ (x \in 1 .. c + m /\ x - c \in UpTo(B, j))
    <3>1. j \in 1 .. m /\ \A x \in A : x <= c + j
      BY <1>4
    <3>2. \A x \in 1 .. c + m : x <= c + j <=> x - c <= j
      BY <3>1
    <3> QED
      BY <1>11, <3>1, <3>2 DEF UpTo
  <2>3. UpTo(E, c + j) = A \cup {k \in 1 .. c + m : k - c \in UpTo(B, j)}
    BY <2>2
  <2> QED
    BY <1>10, <2>1, <2>3
<1>14. EventsIn(u) = EventsIn(s) \o EventsIn(t)
  <2>1. /\ EventsIn(s) \in Seq(Nat) /\ Len(EventsIn(s)) = a /\ EventsIn(t) \in Seq(Nat) /\ Len(EventsIn(t)) = b
        /\ EventsIn(u) \in Seq(Nat) /\ Len(EventsIn(u)) = a + b
        /\ \A n \in 1 .. a : Nth(A, n) \in A /\ EventsIn(s)[n] = s[Nth(A, n)].event
        /\ \A n \in 1 .. b : Nth(B, n) \in B /\ EventsIn(t)[n] = t[Nth(B, n)].event
        /\ \A n \in 1 .. a + b : EventsIn(u)[n] = u[Nth(E, n)].event
    BY <1>7, <1>12, EventsByRank DEF A, B, E
  <2>2. \A n \in 1 .. a : Cardinality(UpTo(A, Nth(A, n))) = n
    BY <1>4, <1>7, NthRanked
  <2>3. \A n \in 1 .. b : Cardinality(UpTo(B, Nth(B, n))) = n
    BY <1>4, <1>7, NthRanked
  <2>4. \A i \in E : Nth(E, Cardinality(UpTo(E, i))) = i
    <3>1. PICK w \in Nat : w = c + m
      BY <1>1
    <3>2. E \in SUBSET (1 .. w)
      BY <1>4, <3>1
    <3> QED
      BY <3>2, NthIs
  <2>5. ASSUME NEW n \in 1 .. a PROVE EventsIn(u)[n] = EventsIn(s)[n]
    <3>1. PICK i \in A : i = Nth(A, n)
      BY <2>1
    <3>2. i \in E /\ i \in 1 .. c
      BY <1>4, <1>5
    <3>3. Nth(E, n) = i
      <4>1. Cardinality(UpTo(E, i)) = n
        BY <1>8, <2>2, <3>1
      <4>2. Nth(E, Cardinality(UpTo(E, i))) = i
        BY <2>4, <3>2
      <4> QED
        BY <4>1, <4>2
    <3>4. n \in 1 .. a + b
      BY <1>7
    <3>5. EventsIn(u)[n] = u[i].event
      BY <2>1, <3>3, <3>4
    <3>6. EventsIn(s)[n] = s[i].event
      BY <2>1, <3>1
    <3> QED
      BY <1>3, <3>2, <3>5, <3>6
  <2>6. ASSUME NEW n \in 1 .. b PROVE EventsIn(u)[a + n] = EventsIn(t)[n]
    <3>1. PICK j \in B : j = Nth(B, n)
      BY <2>1
    <3>2. j \in 1 .. m /\ c + j \in E
      BY <1>4, <1>6
    <3>3. Nth(E, a + n) = c + j
      <4>1. Cardinality(UpTo(E, c + j)) = a + n
        BY <1>13, <2>3, <3>1
      <4>2. Nth(E, Cardinality(UpTo(E, c + j))) = c + j
        BY <2>4, <3>2
      <4> QED
        BY <4>1, <4>2
    <3>4. u[c + j] = t[j]
      BY <1>3, <3>2
    <3>5. a + n \in 1 .. a + b
      BY <1>7
    <3>6. EventsIn(u)[a + n] = u[c + j].event
      BY <2>1, <3>3, <3>5
    <3>7. EventsIn(t)[n] = t[j].event
      BY <2>1, <3>1
    <3> QED
      BY <3>4, <3>6, <3>7
  <2>7. PICK v \in Seq(Nat) : v = EventsIn(s) \o EventsIn(t)
    BY <2>1, ConcatProperties
  <2>8. Len(v) = a + b /\ \A n \in 1 .. a + b : v[n] = IF n <= a THEN EventsIn(s)[n] ELSE EventsIn(t)[n - a]
    <3>1. PICK x, y \in Seq(Nat) : x = EventsIn(s) /\ y = EventsIn(t)
      BY <2>1
    <3>2. Len(x) = a /\ Len(y) = b /\ v = x \o y
      BY <2>1, <2>7, <3>1
    <3>3. Len(v) = a + b /\ \A n \in 1 .. a + b : v[n] = IF n <= a THEN x[n] ELSE y[n - a]
      BY <3>2, ConcatProperties
    <3> QED
      BY <3>1, <3>3
  <2>9. ASSUME NEW n \in 1 .. a + b PROVE EventsIn(u)[n] = v[n]
    <3>1. CASE n <= a
      <4>1. n \in 1 .. a
        BY <1>7, <3>1
      <4> QED
        BY <2>5, <2>8, <3>1, <4>1
    <3>2. CASE n > a
      <4>1. PICK k \in 1 .. b : n = a + k /\ n - a = k
        <5>1. n - a \in 1 .. b /\ n = a + (n - a)
          BY <3>2
        <5> QED
          BY <5>1
      <4>2. ~(n <= a)
        BY <3>2
      <4>3. v[n] = EventsIn(t)[k]
        BY <2>8, <4>1, <4>2
      <4> QED
        BY <2>6, <4>1, <4>3
    <3> QED
      BY <3>1, <3>2
  <2>10. EventsIn(u) = v
    <3>1. PICK e \in Seq(Nat) : e = EventsIn(u) /\ Len(e) = Len(v)
      BY <2>1, <2>8
    <3>2. \A n \in 1 .. Len(e) : e[n] = v[n]
      BY <2>8, <2>9, <3>1
    <3> QED
      BY <2>7, <3>1, <3>2, SeqEqual
  <2> QED
    BY <2>7, <2>10
<1> QED
  BY <1>2, <1>14

-----------------------------------------------------------------------------
\* The reader stands behind a line.
ReaderInv ==
    /\ log \in Seq(AnyPiece) /\ cursor \in 0 .. Len(log) /\ (cursor = 0 \/ log[cursor].end)
    /\ ReaderMissesNothing

LEMMA NextEventIsNumber == ASSUME log \in Seq(AnyPiece) PROVE NextEvent \in Nat
<1>1. PICK n \in Nat : DOMAIN log = 1 .. n
  OBVIOUS
<1> DEFINE T == {log[i].event : i \in DOMAIN log}
           f == [i \in 1 .. n |-> log[i].event]
<1>2. f \in Surjection(1 .. n, T)
  BY <1>1 DEF Surjection
<1>3. IsFiniteSet(T)
  BY <1>2, FS_Interval, FS_Surjection
<1>4. Cardinality(T) \in Nat
  BY <1>3, FS_CardinalityType
<1> QED
  BY <1>4 DEF NextEvent

\* The head of a sequence, and that two that agree there have the same.
LEMMA HeadOf ==
    ASSUME NEW S, NEW s, NEW c \in Nat, \A i \in 1 .. c : s[i] \in S
    PROVE  /\ SubSeq(s, 1, c) \in Seq(S) /\ Len(SubSeq(s, 1, c)) = c
           /\ \A i \in 1 .. c : SubSeq(s, 1, c)[i] = s[i]
<1>1. /\ SubSeq(s, 1, c) \in Seq(S) /\ Len(SubSeq(s, 1, c)) = IF 1 <= c THEN c - 1 + 1 ELSE 0
      /\ \A i \in 1 .. c - 1 + 1 : SubSeq(s, 1, c)[i] = s[1 + i - 1]
  BY SubSeqProperties
<1>2. (IF 1 <= c THEN c - 1 + 1 ELSE 0) = c /\ c - 1 + 1 = c /\ \A i \in 1 .. c : 1 + i - 1 = i
  OBVIOUS
<1> QED
  BY <1>1, <1>2

LEMMA SameHead ==
    ASSUME NEW S, NEW s, NEW t, NEW c \in Nat, \A i \in 1 .. c : s[i] \in S /\ t[i] \in S /\ s[i] = t[i]
    PROVE  SubSeq(s, 1, c) = SubSeq(t, 1, c)
<1>1. /\ SubSeq(s, 1, c) \in Seq(S) /\ Len(SubSeq(s, 1, c)) = c
      /\ \A i \in 1 .. c : SubSeq(s, 1, c)[i] = s[i]
  <2>1. \A i \in 1 .. c : s[i] \in S
    OBVIOUS
  <2> QED
    BY <2>1, HeadOf
<1>2. /\ SubSeq(t, 1, c) \in Seq(S) /\ Len(SubSeq(t, 1, c)) = c
      /\ \A i \in 1 .. c : SubSeq(t, 1, c)[i] = t[i]
  <2>1. \A i \in 1 .. c : t[i] \in S
    OBVIOUS
  <2> QED
    BY <2>1, HeadOf
<1>3. PICK u \in Seq(S) : u = SubSeq(s, 1, c)
  BY <1>1
<1>4. PICK v \in Seq(S) : v = SubSeq(t, 1, c)
  BY <1>2
<1>5. Len(u) = c /\ Len(v) = c /\ \A i \in 1 .. c : u[i] = v[i]
  BY <1>1, <1>2, <1>3, <1>4
<1>6. u = v
  BY <1>5, SeqEqual
<1> QED
  BY <1>3, <1>4, <1>6

\* The trail grows behind what was read.
LEMMA TrailGrows ==
    ASSUME ReaderInv, NEW more \in Seq(AnyPiece), log' = log \o more, UNCHANGED <<cursor, delivered>>
    PROVE  ReaderInv'
<1>1. PICK n \in Nat, m \in Nat : n = Len(log) /\ m = Len(more) /\ cursor \in 0 .. n
  BY DEF ReaderInv
<1>2. log' \in Seq(AnyPiece) /\ Len(log') = n + m /\ \A i \in 1 .. n : log'[i] = log[i]
  BY <1>1, ConcatProperties DEF ReaderInv
<1>3. SubSeq(log', 1, cursor) = SubSeq(log, 1, cursor)
  <2>1. \A i \in 1 .. cursor : log'[i] = log[i] /\ log[i] \in AnyPiece
    BY <1>1, <1>2 DEF ReaderInv
  <2>2. \A i \in 1 .. cursor : log'[i] \in AnyPiece /\ log[i] \in AnyPiece
    BY <2>1
  <2> QED
    BY <1>1, <2>1, <2>2, SameHead
<1>4. cursor = 0 \/ log'[cursor].end
  BY <1>1, <1>2 DEF ReaderInv
<1>5. cursor' \in 0 .. Len(log') /\ (cursor' = 0 \/ log'[cursor'].end)
  BY <1>1, <1>2, <1>4
<1>6. ReaderMissesNothing'
  BY <1>3 DEF ReaderInv, ReaderMissesNothing
<1> QED
  BY <1>2, <1>5, <1>6 DEF ReaderInv

LEMMA ReadTrailKeeps ==
    ASSUME ReaderInv, ReadTrail
    PROVE  ReaderInv'
<1>1. PICK n \in Nat, c \in Nat : n = Len(log) /\ c = cursor /\ c <= n /\ DOMAIN log = 1 .. n
  BY DEF ReaderInv
<1>2. /\ SubSeq(log, c + 1, n) \in Seq(AnyPiece) /\ Len(SubSeq(log, c + 1, n)) = n - c
      /\ \A i \in 1 .. n - c : SubSeq(log, c + 1, n)[i] = log[c + i]
  <2>1. \A i \in c + 1 .. n : log[i] \in AnyPiece
    BY <1>1 DEF ReaderInv
  <2>2. c + 1 \in Int /\ n \in Int
    BY <1>1
  <2>3. /\ SubSeq(log, c + 1, n) \in Seq(AnyPiece)
        /\ Len(SubSeq(log, c + 1, n)) = IF c + 1 <= n THEN n - (c + 1) + 1 ELSE 0
        /\ \A i \in 1 .. n - (c + 1) + 1 : SubSeq(log, c + 1, n)[i] = log[c + 1 + i - 1]
    BY <2>1, <2>2, SubSeqProperties
  <2>4. /\ (IF c + 1 <= n THEN n - (c + 1) + 1 ELSE 0) = n - c /\ n - (c + 1) + 1 = n - c
        /\ \A i \in 1 .. n - c : c + 1 + i - 1 = c + i
    BY <1>1
  <2> QED
    BY <2>3, <2>4
<1>3. PICK new \in Seq(AnyPiece) : new = SubSeq(log, c + 1, n)
  BY <1>2
<1>4. Len(new) = n - c /\ \A i \in 1 .. n - c : new[i] = log[c + i]
  BY <1>2, <1>3
<1>5. PICK k \in 0 .. n - c : k = LastBreak(new) /\ (k = 0 \/ new[k].end)
  <2> DEFINE B == {i \in DOMAIN new : new[i].end}
  <2>1. CASE B = {}
    BY <1>1, <2>1 DEF LastBreak
  <2>2. CASE B # {}
    <3>1. PICK m \in Nat : m = n - c /\ DOMAIN new = 1 .. m
      BY <1>1, <1>4
    <3>2. B \in SUBSET (0 .. m)
      BY <3>1
    <3>3. \E i \in B : \A j \in B : j <= i
      BY <2>2, <3>1, <3>2, Greatest
    <3>4. LastBreak(new) = CHOOSE i \in B : \A j \in B : j <= i
      BY <2>2 DEF LastBreak
    <3>5. LastBreak(new) \in B
      BY <3>3, <3>4
    <3> QED
      BY <3>1, <3>5
  <2> QED
    BY <2>1, <2>2
<1>6. /\ SubSeq(new, 1, k) \in Seq(AnyPiece) /\ Len(SubSeq(new, 1, k)) = k
      /\ \A i \in 1 .. k : SubSeq(new, 1, k)[i] = new[i]
  <2>1. k \in Nat /\ \A i \in 1 .. k : new[i] \in AnyPiece
    BY <1>1, <1>4
  <2> QED
    BY <2>1, HeadOf
<1>7. PICK whole \in Seq(AnyPiece) : whole = SubSeq(new, 1, k)
  BY <1>6
<1>8. Len(whole) = k /\ \A i \in 1 .. k : whole[i] = log[c + i]
  <2>1. \A i \in 1 .. k : i \in 1 .. n - c
    BY <1>1, <1>5
  <2> QED
    BY <1>6, <1>4, <1>7, <2>1
<1>9. /\ delivered' = delivered \o EventsIn(whole) /\ cursor' = c + k /\ log' = log
  BY <1>1, <1>3, <1>5, <1>7, <1>8 DEF ReadTrail
<1>10. /\ SubSeq(log, 1, c) \in Seq(AnyPiece) /\ Len(SubSeq(log, 1, c)) = c
      /\ \A i \in 1 .. c : SubSeq(log, 1, c)[i] = log[i]
  <2>1. \A i \in 1 .. c : log[i] \in AnyPiece
    BY <1>1 DEF ReaderInv
  <2> QED
    BY <2>1, HeadOf
<1>11. /\ SubSeq(log, 1, c + k) \in Seq(AnyPiece) /\ Len(SubSeq(log, 1, c + k)) = c + k
      /\ \A i \in 1 .. c + k : SubSeq(log, 1, c + k)[i] = log[i]
  <2>1. \A i \in 1 .. c + k : log[i] \in AnyPiece
    BY <1>1 DEF ReaderInv
  <2>2. c + k \in Nat
    BY <1>1
  <2> QED
    BY <2>1, <2>2, HeadOf
<1>12. PICK s \in Seq(AnyPiece), t \in Seq(AnyPiece) : s = SubSeq(log, 1, c) /\ t = SubSeq(log, 1, c + k)
  BY <1>10, <1>11
<1>13. /\ Len(s) = c /\ (\A i \in 1 .. c : s[i] = log[i])
      /\ Len(t) = c + k /\ \A i \in 1 .. c + k : t[i] = log[i]
  BY <1>10, <1>11, <1>12
<1>14. t = s \o whole
  <2>1. PICK v \in Seq(AnyPiece) : v = s \o whole
    BY ConcatProperties
  <2>2. Len(v) = c + k /\ \A i \in 1 .. c + k : v[i] = IF i <= c THEN s[i] ELSE whole[i - c]
    BY <1>8, <1>13, <2>1, ConcatProperties
  <2>3. \A i \in 1 .. c + k : v[i] = t[i]
    <3> SUFFICES ASSUME NEW i \in 1 .. c + k PROVE v[i] = t[i]
      OBVIOUS
    <3>1. CASE i <= c
      BY <1>1, <1>13, <2>2, <3>1
    <3>2. CASE ~(i <= c)
      <4>1. i - c \in 1 .. k /\ c + (i - c) = i
        BY <1>1, <3>2
      <4> QED
        BY <1>8, <1>13, <2>2, <3>2, <4>1
    <3> QED
      BY <3>1, <3>2
  <2> QED
    BY <1>13, <2>1, <2>2, <2>3, SeqEqual
<1>15. s = <<>> \/ s[Len(s)].end
  <2>1. c = 0 => s = <<>>
    BY <1>13
  <2>2. c # 0 => s[c] = log[c] /\ log[c].end
    BY <1>1, <1>13 DEF ReaderInv
  <2> QED
    BY <1>13, <2>1, <2>2
<1>16. EventsIn(t) = EventsIn(s) \o EventsIn(whole)
  BY <1>14, <1>15, EventsOfBoth
<1>17. delivered = EventsIn(s)
  BY <1>1, <1>12 DEF ReaderInv, ReaderMissesNothing
<1>18. cursor' \in 0 .. Len(log') /\ (cursor' = 0 \/ log'[cursor'].end)
  <2>1. CASE k = 0
    <3>1. c + k = c
      BY <1>1, <2>1
    <3> QED
      BY <1>1, <1>9, <3>1 DEF ReaderInv
  <2>2. CASE k # 0
    <3>1. log[c + k] = new[k]
      BY <1>1, <1>4, <2>2
    <3>2. c + k \in 0 .. n
      BY <1>1
    <3> QED
      BY <1>1, <1>5, <1>9, <2>2, <3>1, <3>2
  <2> QED
    BY <2>1, <2>2
<1>19. ReaderMissesNothing'
  <2>1. SubSeq(log', 1, cursor') = t
    BY <1>9, <1>12
  <2>2. delivered' = EventsIn(t)
    BY <1>9, <1>16, <1>17
  <2> QED
    BY <2>1, <2>2 DEF ReaderMissesNothing
<1> QED
  BY <1>9, <1>18, <1>19 DEF ReaderInv

\* The incremental reader hands out, once and in order, what a reader of the whole trail
\* finds up to its cursor, for any number of processes, events and torn appends
\* (run-storage.ts:198).
THEOREM ReaderGetsEverything == RFSpec => []ReaderMissesNothing
<1>1. RFInit => ReaderInv
  <2> SUFFICES ASSUME RFInit PROVE ReaderInv
    OBVIOUS
  <2>1. log = <<>> /\ cursor = 0 /\ delivered = <<>>
    BY DEF RFInit
  <2>2. SubSeq(log, 1, cursor) = <<>>
    BY <2>1, SubSeqEmpty
  <2>3. EventsIn(<<>>) = <<>>
    <3>1. EndsOf(<<>>) = {} /\ <<>> \in Seq(AnyPiece)
      BY DEF EndsOf
    <3>2. Len(EventsIn(<<>>)) = 0 /\ EventsIn(<<>>) \in Seq(Nat)
      BY <3>1, EventsByRank, FS_EmptySet
    <3> QED
      BY <3>2
  <2>4. ReaderMissesNothing
    BY <2>1, <2>2, <2>3 DEF ReaderMissesNothing
  <2>5. <<>> \in Seq(AnyPiece) /\ Len(<<>>) = 0
    OBVIOUS
  <2> QED
    BY <2>1, <2>4, <2>5 DEF ReaderInv
<1>2. ReaderInv /\ [RFNext]_rfVars => ReaderInv'
  <2> SUFFICES ASSUME ReaderInv, [RFNext]_rfVars PROVE ReaderInv'
    OBVIOUS
  <2>1. NextEvent \in Nat
    BY NextEventIsNumber DEF ReaderInv
  <2>2. CASE AppendEvent
    <3>1. <<[event |-> NextEvent, end |-> FALSE], [event |-> NextEvent, end |-> TRUE]>> \in Seq(AnyPiece)
      BY <2>1 DEF AnyPiece
    <3> QED
      BY <2>2, <3>1, TrailGrows DEF AppendEvent
  <2>3. CASE TornAppend
    <3>1. <<[event |-> NextEvent, end |-> FALSE]>> \in Seq(AnyPiece)
      BY <2>1 DEF AnyPiece
    <3>2. Append(log, [event |-> NextEvent, end |-> FALSE]) = log \o <<[event |-> NextEvent, end |-> FALSE]>>
      <4>1. PICK e \in AnyPiece : e = [event |-> NextEvent, end |-> FALSE]
        BY <2>1 DEF AnyPiece
      <4>2. log \in Seq(AnyPiece)
        BY DEF ReaderInv
      <4>3. Append(log, e) = log \o <<e>>
        BY <4>2, AppendIsConcat
      <4> QED
        BY <4>1, <4>3
    <3> QED
      BY <2>3, <3>1, <3>2, TrailGrows DEF TornAppend
  <2>4. CASE StatTrail
    <3>1. UNCHANGED <<log, cursor, delivered>>
      BY <2>4 DEF StatTrail, ReaderInv
    <3> QED
      BY <3>1 DEF ReaderInv, ReaderMissesNothing
  <2>5. CASE ReadTrail
    BY <2>5, ReadTrailKeeps
  <2>6. CASE \/ QueueWrite \/ WriteTemp \/ RenameTemp \/ UNCHANGED rfVars
             \/ \E p \in Proc : MakeDirectory(p)
    <3>1. UNCHANGED <<log, cursor, delivered>>
      BY <2>6 DEF QueueWrite, WriteTemp, RenameTemp, MakeDirectory, rfVars
    <3> QED
      BY <3>1 DEF ReaderInv, ReaderMissesNothing
  <2> QED
    BY <2>2, <2>3, <2>4, <2>5, <2>6 DEF RFNext
<1>3. ReaderInv => ReaderMissesNothing
  BY DEF ReaderInv
<1> QED
  BY <1>1, <1>2, <1>3, PTL DEF RFSpec

(***************************************************************************)
(* StoryFlow: how often reviews send a story back.                         *)
(***************************************************************************)
KeyName == {"active", "context", "queue", "contexts", "completed", "phase", "validations", "reviews",
            "route", "review", "validation", "auto", "checkpoint", "skip"}
KeysShape == keys = [k \in KeyName |-> keys[k]]

\* The pairs of a sequence of writes.
Pairs(ws) == {ws[i] : i \in DOMAIN ws}

LEMMA PairsOf ==
    /\ Writes(<<>>) /\ Pairs(<<>>) = {}
    /\ \A a : Writes(<<a>>) /\ Pairs(<<a>>) = {a}
    /\ \A a, b : Writes(<<a, b>>) /\ Pairs(<<a, b>>) = {a, b}
    /\ \A a, b, c : Writes(<<a, b, c>>) /\ Pairs(<<a, b, c>>) = {a, b, c}
    /\ \A a, b, c, d : Writes(<<a, b, c, d>>) /\ Pairs(<<a, b, c, d>>) = {a, b, c, d}
    /\ \A a, b, c, d, e : Writes(<<a, b, c, d, e>>) /\ Pairs(<<a, b, c, d, e>>) = {a, b, c, d, e}
<1>1. Writes(<<>>) /\ Pairs(<<>>) = {}
  <2>1. <<>> \in Seq({})
    OBVIOUS
  <2> QED
    BY <2>1 DEF Writes, Pairs
<1>2. \A a : Writes(<<a>>) /\ Pairs(<<a>>) = {a}
  <2> TAKE a
  <2> DEFINE ws == <<a>>
  <2>1. ws \in Seq({a}) /\ DOMAIN ws = 1 .. 1 /\ ws[1] = a
    OBVIOUS
  <2>2. 1 .. 1 = {1}
    OBVIOUS
  <2> HIDE DEF ws
  <2>3. Writes(ws) /\ Pairs(ws) = {a}
    BY <2>1, <2>2 DEF Writes, Pairs
  <2> QED
    BY <2>3 DEF ws
<1>3. \A a, b : Writes(<<a, b>>) /\ Pairs(<<a, b>>) = {a, b}
  <2> TAKE a, b
  <2> DEFINE ws == <<a, b>>
  <2>1. ws \in Seq({a, b}) /\ DOMAIN ws = 1 .. 2 /\ ws[1] = a /\ ws[2] = b
    OBVIOUS
  <2>2. 1 .. 2 = {1, 2}
    OBVIOUS
  <2> HIDE DEF ws
  <2>3. Writes(ws) /\ Pairs(ws) = {a, b}
    BY <2>1, <2>2 DEF Writes, Pairs
  <2> QED
    BY <2>3 DEF ws
<1>4. \A a, b, c : Writes(<<a, b, c>>) /\ Pairs(<<a, b, c>>) = {a, b, c}
  <2> TAKE a, b, c
  <2> DEFINE ws == <<a, b, c>>
  <2>1. ws \in Seq({a, b, c}) /\ DOMAIN ws = 1 .. 3 /\ ws[1] = a /\ ws[2] = b /\ ws[3] = c
    OBVIOUS
  <2>2. 1 .. 3 = {1, 2, 3}
    OBVIOUS
  <2> HIDE DEF ws
  <2>3. Writes(ws) /\ Pairs(ws) = {a, b, c}
    BY <2>1, <2>2 DEF Writes, Pairs
  <2> QED
    BY <2>3 DEF ws
<1>5. \A a, b, c, d : Writes(<<a, b, c, d>>) /\ Pairs(<<a, b, c, d>>) = {a, b, c, d}
  <2> TAKE a, b, c, d
  <2> DEFINE ws == <<a, b, c, d>>
  <2>1. ws \in Seq({a, b, c, d}) /\ DOMAIN ws = 1 .. 4 /\ ws[1] = a /\ ws[2] = b /\ ws[3] = c /\ ws[4] = d
    OBVIOUS
  <2>2. 1 .. 4 = {1, 2, 3, 4}
    OBVIOUS
  <2> HIDE DEF ws
  <2>3. Writes(ws) /\ Pairs(ws) = {a, b, c, d}
    BY <2>1, <2>2 DEF Writes, Pairs
  <2> QED
    BY <2>3 DEF ws
<1>6. \A a, b, c, d, e : Writes(<<a, b, c, d, e>>) /\ Pairs(<<a, b, c, d, e>>) = {a, b, c, d, e}
  <2> TAKE a, b, c, d, e
  <2> DEFINE ws == <<a, b, c, d, e>>
  <2>1. ws \in Seq({a, b, c, d, e}) /\ DOMAIN ws = 1 .. 5 /\ ws[1] = a /\ ws[2] = b /\ ws[3] = c /\ ws[4] = d /\ ws[5] = e
    OBVIOUS
  <2>2. 1 .. 5 = {1, 2, 3, 4, 5}
    OBVIOUS
  <2> HIDE DEF ws
  <2>3. Writes(ws) /\ Pairs(ws) = {a, b, c, d, e}
    BY <2>1, <2>2 DEF Writes, Pairs
  <2> QED
    BY <2>3 DEF ws
<1> QED
  BY <1>1, <1>2, <1>3, <1>4, <1>5, <1>6

\* The nine writes of a split.
LEMMA NinePairs ==
    \A a, b, c, d, e, f, g, h, i :
        /\ Writes(<<a, b, c, d, e, f, g, h, i>>)
        /\ Pairs(<<a, b, c, d, e, f, g, h, i>>) = {a, b, c, d, e, f, g, h, i}
<1> TAKE a, b, c, d, e, f, g, h, i
<1> DEFINE ws == <<a, b, c, d, e, f, g, h, i>>
<1>1. ws \in Seq({a, b, c, d, e, f, g, h, i}) /\ DOMAIN ws = 1 .. 9 /\ ws[1] = a /\ ws[2] = b /\ ws[3] = c /\ ws[4] = d /\ ws[5] = e /\ ws[6] = f /\ ws[7] = g /\ ws[8] = h /\ ws[9] = i
  OBVIOUS
<1>2. 1 .. 9 = {1, 2, 3, 4, 5, 6, 7, 8, 9}
  OBVIOUS
<1> HIDE DEF ws
<1>3. Writes(ws) /\ Pairs(ws) = {a, b, c, d, e, f, g, h, i}
  BY <1>1, <1>2 DEF Writes, Pairs
<1> QED
  BY <1>3 DEF ws

LEMMA PairsOfBoth ==
    ASSUME NEW a, NEW b, Writes(a), Writes(b)
    PROVE  Writes(a \o b) /\ Pairs(a \o b) = Pairs(a) \cup Pairs(b)
<1>1. PICK S : a \in Seq(S)
  BY DEF Writes
<1>2. PICK T : b \in Seq(T)
  BY DEF Writes
<1>3. a \in Seq(S \cup T) /\ b \in Seq(S \cup T)
  BY <1>1, <1>2
<1>4. /\ a \o b \in Seq(S \cup T) /\ Len(a \o b) = Len(a) + Len(b)
      /\ \A i \in 1 .. Len(a) + Len(b) : (a \o b)[i] = IF i <= Len(a) THEN a[i] ELSE b[i - Len(a)]
  BY <1>3, ConcatProperties
<1>5. /\ DOMAIN a = 1 .. Len(a) /\ DOMAIN b = 1 .. Len(b) /\ Len(a) \in Nat /\ Len(b) \in Nat
      /\ DOMAIN (a \o b) = 1 .. Len(a) + Len(b)
  BY <1>3, <1>4
<1>6. \A w : w \in Pairs(a \o b) => w \in Pairs(a) \cup Pairs(b)
  <2> SUFFICES ASSUME NEW i \in 1 .. Len(a) + Len(b)
               PROVE  (a \o b)[i] \in Pairs(a) \cup Pairs(b)
    BY <1>5 DEF Pairs
  <2>1. CASE i <= Len(a)
    <3>1. i \in DOMAIN a
      BY <1>5, <2>1
    <3> QED
      BY <1>4, <2>1, <3>1 DEF Pairs
  <2>2. CASE ~(i <= Len(a))
    <3>1. i - Len(a) \in DOMAIN b
      BY <1>5, <2>2
    <3> QED
      BY <1>4, <2>2, <3>1 DEF Pairs
  <2> QED
    BY <2>1, <2>2
<1>7. \A w : w \in Pairs(a) \cup Pairs(b) => w \in Pairs(a \o b)
  <2>1. ASSUME NEW i \in 1 .. Len(a) PROVE a[i] \in Pairs(a \o b)
    <3>1. i \in 1 .. Len(a) + Len(b) /\ i <= Len(a)
      BY <1>5
    <3> QED
      BY <1>4, <1>5, <3>1 DEF Pairs
  <2>2. ASSUME NEW i \in 1 .. Len(b) PROVE b[i] \in Pairs(a \o b)
    <3>1. Len(a) + i \in 1 .. Len(a) + Len(b) /\ ~(Len(a) + i <= Len(a)) /\ Len(a) + i - Len(a) = i
      BY <1>5
    <3>2. (a \o b)[Len(a) + i] = b[i]
      BY <1>4, <3>1
    <3> QED
      BY <1>5, <3>1, <3>2 DEF Pairs
  <2> QED
    BY <1>5, <2>1, <2>2 DEF Pairs
<1> QED
  BY <1>4, <1>6, <1>7 DEF Writes

\* What a handler does to a key: it keeps it or stores what it writes there; it stores
\* what it writes if it comes to its end, and counts as a retry if not.
Stores(k, ps) == \E w \in ps : w[1] = k /\ keys'[k] = w[2]
Ends(ps, next) ==
    /\ flow' = next /\ retries' = retries
    /\ \A k \in KeyName : (\E w \in ps : w[1] = k) => Stores(k, ps)
Breaks == flow' = [flow EXCEPT !.status = "interrupted"] /\ retries' = retries + 1
Does(ps, next) ==
    /\ KeysShape'
    /\ \A k \in KeyName : keys'[k] = keys[k] \/ Stores(k, ps)
    /\ Ends(ps, next) \/ Breaks

LEMMA SavedKeys ==
    ASSUME KeysShape, NEW vs, NEW n \in Nat, DOMAIN vs = 1 .. n, keys' = Saved(vs)
    PROVE  /\ KeysShape'
           /\ \A k \in KeyName : IF \E i \in DOMAIN vs : vs[i][1] = k THEN Stores(k, Pairs(vs)) ELSE keys'[k] = keys[k]
<1>1. DOMAIN keys = KeyName
  BY DEF KeysShape
<1>2. KeysShape'
  BY <1>1 DEF KeysShape, Saved
<1>3. ASSUME NEW k \in KeyName, \E i \in DOMAIN vs : vs[i][1] = k PROVE Stores(k, Pairs(vs))
  <2> DEFINE I == {i \in 1 .. n : vs[i][1] = k}
             last == CHOOSE i \in DOMAIN vs : vs[i][1] = k /\ \A j \in DOMAIN vs : vs[j][1] = k => j <= i
  <2>1. \E i \in I : \A j \in I : j <= i
    <3>1. I \in SUBSET (0 .. n) /\ I # {}
      BY <1>3
    <3> QED
      BY <3>1, Greatest
  <2>2. last \in DOMAIN vs /\ vs[last][1] = k
    BY <2>1
  <2>3. keys'[k] = vs[last][2]
    BY <1>1, <1>3 DEF Saved
  <2> QED
    BY <2>2, <2>3 DEF Stores, Pairs
<1>4. ASSUME NEW k \in KeyName, ~\E i \in DOMAIN vs : vs[i][1] = k PROVE keys'[k] = keys[k]
  BY <1>1, <1>4 DEF Saved
<1> QED
  BY <1>2, <1>3, <1>4

LEMMA HandlerDoes ==
    ASSUME KeysShape, NEW ws, NEW ps, Writes(ws), Pairs(ws) = ps, NEW next, Handler(ws, next)
    PROVE  Does(ps, next)
<1>1. Len(ws) \in Nat /\ DOMAIN ws = 1 .. Len(ws)
  BY DEF Writes
<1>2. CASE keys' = Saved(ws) /\ flow' = next /\ UNCHANGED retries
  <2>1. KeysShape' /\ \A k \in KeyName : IF \E i \in DOMAIN ws : ws[i][1] = k THEN Stores(k, Pairs(ws)) ELSE keys'[k] = keys[k]
    BY <1>1, <1>2, SavedKeys
  <2> QED
    BY <1>2, <2>1 DEF Does, Ends, Pairs
<1>3. ASSUME NEW n \in 0 .. Len(ws), keys' = Saved(SubSeq(ws, 1, n)), Breaks
      PROVE  Does(ps, next)
  <2> DEFINE vs == SubSeq(ws, 1, n)
  <2>1. DOMAIN vs = 1 .. n /\ 1 .. n \subseteq DOMAIN ws /\ \A i \in 1 .. n : vs[i] = ws[i]
    BY PrefixOfWrites DEF Writes
  <2>2. Pairs(vs) \subseteq Pairs(ws)
    BY <2>1 DEF Pairs
  <2>3. n \in Nat
    BY <1>1
  <2>4. KeysShape' /\ \A k \in KeyName : keys'[k] = keys[k] \/ Stores(k, Pairs(vs))
    <3> HIDE DEF vs
    <3>1. keys' = Saved(vs)
      BY <1>3 DEF vs
    <3> QED
      BY <2>1, <2>3, <3>1, SavedKeys
  <2> QED
    BY <1>3, <2>2, <2>4 DEF Does, Stores
<1> QED
  BY <1>2, <1>3 DEF Handler, Breaks

At(places) == flow.step \in places
AtRouter(reasons) == flow.step = "router" /\ flow.reason \in reasons

\* The steps of a story, and those in which no review has sent it back yet.
WorkStep == {"router", "preflight", "context", "red", "green", "doctor", "validate", "review", "commit"}
Starting == At({"preflight", "context", "red"}) \/ AtRouter({"start", "completed"})

\* How often reviews have sent the story back.
Sent == Cardinality({r \in routed : r.reason = "review" /\ r.story = flow.story})
NeverSent(story) == \A r \in routed : r.reason = "review" => r.story # story

ReworkShapes ==
    /\ FlowShape(flow) /\ KeysShape
    /\ flow.step \in WorkStep \cup {"strategy", "split", "checkpoint", "pullRequest"}
    /\ flow.step = "router" => flow.reason \in {"start", "completed", "review", "validation", "blocked"}
    /\ IsFiniteSet(routed) /\ (\A r \in routed : r.n \in Nat) /\ retries \in Nat /\ keys.queue \in SUBSET Nat
    /\ keys.reviews \in Nat /\ keys.validations \in Nat
    /\ keys.route.review \in Nat /\ keys.route.validation \in Nat

\* Where a route that is stored leads to, and where the story stands meanwhile.
RouteFits ==
    LET r == keys.route
    IN /\ r.route \in {None, "retrying", "doctoring", "exhausted", "blocked"}
       /\ r.route = None => r.reason = None
       /\ r.route # None => r.story = flow.story \/ At({"pullRequest"})
       /\ r.route = "retrying" => r.target = "green" /\ r.reason \in {"review", "validation"}
       /\ r.route = "retrying" /\ r.reason = "review" => r.review < MaxReviews
       /\ r.route = "doctoring" =>
            /\ r.target = "doctor" /\ r.reason = "validation"
            /\ \/ At({"doctor"}) \/ AtRouter({"blocked"})
               \/ AtRouter({"validation"}) /\ r.evidence = keys.validation
       /\ r.route = "exhausted" => AtRouter({"review", "validation"}) /\ flow.reason = r.reason
       /\ r.route = "blocked" => AtRouter({"blocked"})

\* The active story is the one at work; those that wait have never been sent back.
StoriesFit ==
    /\ At({"strategy", "split", "checkpoint"}) => routed = {} /\ keys.route.route = None
    /\ At({"checkpoint"}) => keys.active = flow.story
    /\ At({"checkpoint"} \cup WorkStep) => flow.story \notin keys.queue
    /\ At(WorkStep \ {"commit"}) => keys.active = flow.story
    /\ At({"commit"}) => keys.active \in {0, flow.story} \/ NeverSent(keys.active)
    /\ At(WorkStep) => \A story \in keys.queue : NeverSent(story)
    /\ Starting => NeverSent(flow.story) /\ keys.route.route = None
    /\ At({"review"}) => keys.phase = "review"

\* A review comes before every way back.
ReviewsCount ==
    /\ At({"green", "doctor", "validate"}) \/ AtRouter({"validation"}) => Sent <= keys.reviews
    /\ At({"review"}) \/ AtRouter({"review"}) => Sent + 1 <= keys.reviews

\* A validation that passed comes before every review, and one that failed before
\* anything the counts of a route could be lost with.
ValidationsCount ==
    LET v == keys.validations
        again == keys.route.reason = "validation"
        settled == keys.route.route = None /\ Sent > 0
    IN /\ At({"green"}) => Sent <= v /\ (again => Sent + 1 <= v) /\ ~settled
       /\ At({"doctor", "validate", "review"}) \/ AtRouter({"review", "validation"}) => Sent + 1 <= v
       /\ At({"validate"}) /\ (again \/ settled) => Sent + 2 <= v
       /\ AtRouter({"validation"}) /\ (settled \/ (again /\ keys.route.evidence # keys.validation)) => Sent + 2 <= v

\* A route counts the ways back, those an interruption hid from it excepted; the one that
\* is stored while its router step is executed again counts the way it is about to take.
RoutesCount ==
    keys.route.route = "retrying" /\ At(WorkStep) =>
        /\ Sent <= keys.route.review + retries
        /\ AtRouter({"review"}) /\ keys.phase # "review" => Sent + 1 <= keys.route.review + retries

ReworkInv ==
    /\ ReworkShapes /\ RouteFits /\ StoriesFit
    /\ ReviewsCount /\ ValidationsCount /\ RoutesCount /\ ReworkIsBounded

LEMMA SentFacts ==
    ASSUME IsFiniteSet(routed)
    PROVE  Sent \in Nat /\ (NeverSent(flow.story) => Sent = 0)
<1> DEFINE sent == {r \in routed : r.reason = "review" /\ r.story = flow.story}
<1>1. IsFiniteSet(sent)
  BY FS_Subset
<1>2. Cardinality(sent) \in Nat
  BY <1>1, FS_CardinalityType
<1>3. NeverSent(flow.story) => sent = {}
  BY DEF NeverSent
<1> QED
  BY <1>2, <1>3, FS_EmptySet DEF Sent

LEMMA SameSent ==
    ASSUME UNCHANGED routed
    PROVE  (flow'.story = flow.story => Sent' = Sent) /\ \A story : NeverSent(story)' = NeverSent(story)
BY DEF Sent, NeverSent

\* The story stays where it is, and what it may write there leaves the rest alone.
LEMMA StaysAtWork ==
    ASSUME ReworkInv, UNCHANGED routed, FlowShape(flow'), KeysShape',
           flow'.step = flow.step, flow'.story = flow.story, flow'.reason = flow.reason,
           keys'.active = keys.active, keys'.queue = keys.queue, keys'.route = keys.route,
           keys'.reviews \in {keys.reviews, keys.reviews + 1},
           keys'.validations \in {keys.validations, keys.validations + 1},
           retries' \in {retries, retries + 1},
           At({"review"}) => keys'.phase = keys.phase,
           AtRouter({"review"}) => keys'.phase = keys.phase \/ retries' = retries + 1 \/ keys.route.route # "retrying",
           AtRouter({"validation"}) => keys'.validation = keys.validation
    PROVE  ReworkInv'
<1>1. /\ Sent \in Nat /\ Sent' = Sent /\ \A story : NeverSent(story)' = NeverSent(story)
  BY SentFacts, SameSent DEF ReworkInv, ReworkShapes
<1>2. ReworkShapes'
  BY DEF ReworkInv, ReworkShapes, KeysShape
<1>3. RouteFits'
  BY DEF ReworkInv, RouteFits, At, AtRouter
<1>4. StoriesFit'
  BY <1>1 DEF ReworkInv, StoriesFit, At, AtRouter, Starting
<1>5. ReviewsCount'
  BY <1>1 DEF ReworkInv, ReworkShapes, ReviewsCount, At, AtRouter
<1>6. ValidationsCount'
  BY <1>1 DEF ReworkInv, ReworkShapes, ValidationsCount, At, AtRouter
<1>7. RoutesCount'
  BY <1>1 DEF ReworkInv, ReworkShapes, RoutesCount, At, AtRouter, WorkStep
<1>8. ReworkIsBounded'
  BY StoryLimits DEF ReworkInv, ReworkShapes, ReworkIsBounded
<1> QED
  BY <1>2, <1>3, <1>4, <1>5, <1>6, <1>7, <1>8 DEF ReworkInv

\* A handler that stores nothing but its phase or an answer, and ends where it stands.
LEMMA PlaceFacts ==
    ASSUME ReworkInv, NEW step, NEW reason
    PROVE  LET f == StepAt(step, flow.story, reason)
           IN FlowShape(f) /\ f.step = step /\ f.story = flow.story /\ f.reason = reason
BY StepOfFlow DEF ReworkInv, ReworkShapes

LEMMA StatusFacts ==
    ASSUME ReworkInv, NEW status
    PROVE  LET f == [flow EXCEPT !.status = status]
           IN FlowShape(f) /\ f.step = flow.step /\ f.story = flow.story /\ f.reason = flow.reason
BY DEF ReworkInv, ReworkShapes, FlowShape, FlowKey

\* A handler that leaves the route, the stories and their counts alone keeps the rest
\* when it breaks off, or fails.
Harmless(ps) == \A w \in ps : w[1] \notin {"active", "queue", "route", "reviews", "validations"}
LEMMA BreaksQuietly ==
    ASSUME ReworkInv, UNCHANGED routed, NEW ps, NEW next, Does(ps, next), Harmless(ps),
           Breaks \/ flow' = Failed,
           At({"review"}) => \A w \in ps : w[1] # "phase",
           AtRouter({"validation"}) => \A w \in ps : w[1] # "validation",
           AtRouter({"review"}) => Breaks \/ keys.route.route # "retrying"
    PROVE  ReworkInv'
<1>1. /\ KeysShape' /\ \A k \in {"active", "queue", "route", "reviews", "validations"} : keys'[k] = keys[k]
      /\ At({"review"}) => keys'["phase"] = keys["phase"]
      /\ AtRouter({"validation"}) => keys'["validation"] = keys["validation"]
  BY DEF Does, Stores, Harmless, KeyName
<1>2. /\ FlowShape(flow') /\ flow'.step = flow.step /\ flow'.story = flow.story /\ flow'.reason = flow.reason
      /\ retries' \in {retries, retries + 1} /\ (Breaks => retries' = retries + 1)
  <2>1. PICK status : flow' = [flow EXCEPT !.status = status]
    BY DEF Breaks, Failed
  <2>2. retries' \in {retries, retries + 1} /\ (Breaks => retries' = retries + 1)
    BY DEF Does, Ends, Breaks
  <2> QED
    BY <2>1, <2>2, StatusFacts
<1>3. keys.reviews \in Nat /\ keys.validations \in Nat
  BY DEF ReworkInv, ReworkShapes
<1> QED
  BY <1>1, <1>2, <1>3, StaysAtWork

\* An action ends, and goes on with another step, or breaks off.
LEMMA RetryKeepsRework == ReworkInv /\ RetryFlow => ReworkInv'
<1> SUFFICES ASSUME ReworkInv, RetryFlow PROVE ReworkInv'
  OBVIOUS
<1>1. UNCHANGED <<keys, routed>> /\ \E status : flow' = [flow EXCEPT !.status = status]
  BY DEF RetryFlow
<1>2. FlowShape(flow') /\ flow'.step = flow.step /\ flow'.story = flow.story /\ flow'.reason = flow.reason
  BY <1>1, StatusFacts
<1>3. retries' \in {retries, retries + 1} /\ KeysShape'
  BY <1>1 DEF RetryFlow, ReworkInv, ReworkShapes, KeysShape
<1> QED
  BY <1>1, <1>2, <1>3, StaysAtWork

\* Before any story.
LEMMA PlanningKeepsRework == ReworkInv /\ (ReviewStrategy \/ SplitStories \/ AnswerCheckpoint) => ReworkInv'
<1> SUFFICES ASSUME ReworkInv, ReviewStrategy \/ SplitStories \/ AnswerCheckpoint PROVE ReworkInv'
  OBVIOUS
<1>1. /\ UNCHANGED routed /\ routed = {} /\ keys.route.route = None /\ KeysShape /\ FlowShape(flow)
      /\ At({"strategy", "split", "checkpoint"})
  BY DEF ReviewStrategy, SplitStories, AnswerCheckpoint, Doing, At, ReworkInv, ReworkShapes, StoriesFit
<1>2. ASSUME KeysShape', FlowShape(flow'), keys'.route = keys.route, retries' \in {retries, retries + 1},
             keys'.reviews \in Nat, keys'.validations \in Nat, keys'.queue \in SUBSET Nat,
             \/ flow'.step \in {"strategy", "split"}
             \/ /\ \/ flow'.step = "checkpoint"
                   \/ flow'.step = "router" /\ flow'.reason = "start"
                /\ keys'.active = flow'.story /\ flow'.story \notin keys'.queue
      PROVE  ReworkInv'
  <2>1. Sent' = 0 /\ \A story : NeverSent(story)'
    <3>1. IsFiniteSet(routed)' /\ \A story : NeverSent(story)'
      BY <1>1 DEF ReworkInv, ReworkShapes, NeverSent
    <3>2. Sent' = 0
      BY <1>1, FS_EmptySet DEF Sent
    <3> QED
      BY <3>1, <3>2
  <2>2. keys.route.reason = None
    BY <1>1 DEF ReworkInv, RouteFits
  <2>3. ReworkShapes'
    BY <1>1, <1>2 DEF ReworkInv, ReworkShapes, KeysShape, WorkStep
  <2>4. RouteFits' /\ RoutesCount'
    BY <1>1, <1>2, <2>2 DEF RouteFits, RoutesCount, None
  <2>5. StoriesFit'
    BY <1>1, <1>2, <2>1 DEF StoriesFit, At, AtRouter, Starting, WorkStep
  <2>6. ReviewsCount' /\ ValidationsCount'
    BY <1>2, <2>1 DEF ReviewsCount, ValidationsCount, At, AtRouter
  <2>7. ReworkIsBounded'
    BY <1>1 DEF ReworkIsBounded
  <2> QED
    BY <2>3, <2>4, <2>5, <2>6, <2>7 DEF ReworkInv
<1>3. keys.reviews \in Nat /\ keys.validations \in Nat /\ keys.queue \in SUBSET Nat
  BY DEF ReworkInv, ReworkShapes
<1>4. CASE ReviewStrategy
  <2>1. PICK next : /\ Handler(<<>>, next)
                    /\ FlowShape(next) /\ next.step \in {"strategy", "split"}
    BY <1>1, <1>4, StepOfFlow DEF ReviewStrategy, Doing, Failed, FlowShape, FlowKey
  <2>2. Does({}, next)
    BY <1>1, <2>1, HandlerDoes, PairsOf
  <2>3. keys' = keys /\ FlowShape(flow') /\ flow'.step \in {"strategy", "split"} /\ retries' \in {retries, retries + 1}
    <3>1. keys' = keys
      BY <1>1, <2>2 DEF Does, Stores, KeysShape
    <3>2. flow.step = "strategy"
      BY <1>4 DEF ReviewStrategy, Doing
    <3> QED
      BY <1>1, <2>1, <2>2, <3>1, <3>2, StatusFacts DEF Does, Ends, Breaks
  <2> QED
    BY <1>1, <1>2, <1>3, <2>3 DEF KeysShape
<1>5. CASE SplitStories
  <2>1. CASE Handler(<<>>, Failed)
    <3>1. Does({}, Failed)
      BY <1>1, <2>1, HandlerDoes, PairsOf
    <3>2. keys' = keys
      BY <1>1, <3>1 DEF Does, Stores, KeysShape
    <3>3. FlowShape(flow') /\ flow'.step = "split" /\ retries' \in {retries, retries + 1}
      BY <1>5, <3>1, StatusFacts DEF SplitStories, Doing, Does, Ends, Breaks, Failed
    <3> QED
      BY <1>1, <1>2, <1>3, <3>2, <3>3 DEF KeysShape
  <2>2. ASSUME NEW n \in StoryCount, NEW next, FlowShape(next), next.story = 1,
               next.step = "checkpoint" \/ (next.step = "router" /\ next.reason = "start"),
               Handler(<< <<"queue", 2..n>>, <<"contexts", 2..n>>, <<"completed", {}>>,
                          <<"active", 1>>, <<"context", 1>>, <<"phase", "router">>,
                          <<"validations", 0>>, <<"reviews", 0>>, <<"skip", FALSE>> >>, next)
        PROVE  ReworkInv'
    <3> DEFINE a == <<"queue", 2..n>>        b == <<"contexts", 2..n>>   c == <<"completed", {}>>
               d == <<"active", 1>>          e == <<"context", 1>>       f == <<"phase", "router">>
               g == <<"validations", 0>>     h == <<"reviews", 0>>       i == <<"skip", FALSE>>
               ws == <<a, b, c, d, e, f, g, h, i>>
               ps == {a, b, c, d, e, f, g, h, i}
    <3>1. Does(ps, next)
      <4>1. Handler(ws, next)
        BY <2>2
      <4> HIDE DEF a, b, c, d, e, f, g, h, i
      <4>2. Writes(ws) /\ Pairs(ws) = ps
        BY NinePairs
      <4> HIDE DEF ws, ps
      <4> QED
        BY <1>1, <4>1, <4>2, HandlerDoes
    <3>2. /\ KeysShape' /\ keys'.route = keys.route /\ keys'.queue \in {keys.queue, 2..n}
          /\ keys'.reviews \in {keys.reviews, 0} /\ keys'.validations \in {keys.validations, 0}
          /\ Ends(ps, next) => keys'.queue = 2..n /\ keys'.active = 1
      <4>1. KeysShape' /\ keys'.route = keys.route
        BY <3>1 DEF Does, Stores, KeyName
      <4>2. keys'.queue \in {keys.queue, 2..n}
        BY <3>1 DEF Does, Stores, KeyName
      <4>3. keys'.reviews \in {keys.reviews, 0} /\ keys'.validations \in {keys.validations, 0}
        BY <3>1 DEF Does, Stores, KeyName
      <4>4. Ends(ps, next) => keys'.queue = 2..n /\ keys'.active = 1
        BY DEF Ends, Stores, KeyName
      <4> QED
        BY <4>1, <4>2, <4>3, <4>4
    <3>3. 2..n \in SUBSET Nat /\ 1 \notin 2..n
      OBVIOUS
    <3> HIDE DEF ws, ps
    <3>4. CASE Ends(ps, next)
      <4>1. flow' = next /\ retries' = retries
        BY <3>4 DEF Ends
      <4>2. /\ FlowShape(flow') /\ flow'.story = 1
            /\ \/ flow'.step = "checkpoint"
               \/ flow'.step = "router" /\ flow'.reason = "start"
        BY <2>2, <4>1
      <4>3. keys'.active = flow'.story /\ flow'.story \notin keys'.queue /\ keys'.queue \in SUBSET Nat
            /\ keys'.reviews \in Nat /\ keys'.validations \in Nat
        <5>1. keys'.queue = 2..n /\ keys'.active = 1
          BY <3>2, <3>4
        <5>2. keys'.reviews \in Nat /\ keys'.validations \in Nat
          BY <1>3, <3>2
        <5> QED
          BY <3>3, <4>2, <5>1, <5>2
      <4> QED
        BY <1>2, <3>2, <4>1, <4>2, <4>3
    <3>5. CASE Breaks
      <4>1. flow'.step = "split" /\ FlowShape(flow')
        BY <1>5, <3>5, StatusFacts DEF SplitStories, Doing, Breaks
      <4>2. keys'.queue \in SUBSET Nat /\ keys'.reviews \in Nat /\ keys'.validations \in Nat
        <5>1. keys'.queue \in SUBSET Nat
          BY <1>3, <3>2, <3>3
        <5>2. keys'.reviews \in Nat /\ keys'.validations \in Nat
          BY <1>3, <3>2
        <5> QED
          BY <5>1, <5>2
      <4> QED
        BY <1>2, <3>2, <3>5, <4>1, <4>2 DEF Breaks
    <3> QED
      BY <3>1, <3>4, <3>5 DEF Does
  <2>3. /\ LET f == [StepAt("checkpoint", 1, None) EXCEPT !.status = "waiting"]
           IN FlowShape(f) /\ f.story = 1 /\ f.step = "checkpoint"
        /\ LET f == StepAt("router", 1, "start")
           IN FlowShape(f) /\ f.story = 1 /\ f.step = "router" /\ f.reason = "start"
    BY <1>1 DEF StepAt, FlowShape, FlowKey
  <2> QED
    BY <1>5, <2>1, <2>2, <2>3 DEF SplitStories
<1>6. CASE AnswerCheckpoint
  <2>1. /\ FlowShape(flow') /\ flow'.story = flow.story /\ flow'.step \in {"strategy", "router", "checkpoint"}
        /\ flow'.step = "router" => flow'.reason = "start"
    BY <1>1, <1>6 DEF AnswerCheckpoint, FlowShape, FlowKey, Failed
  <2>2. /\ KeysShape' /\ keys'.route = keys.route /\ keys'.queue = keys.queue /\ keys'.active = keys.active
        /\ keys'.reviews = keys.reviews /\ keys'.validations = keys.validations
    BY <1>1, <1>6 DEF AnswerCheckpoint, KeysShape, KeyName
  <2>3. keys.active = flow.story /\ flow.story \notin keys.queue /\ retries' = retries
    BY <1>6 DEF AnswerCheckpoint, ReworkInv, StoriesFit, At
  <2> QED
    BY <1>2, <1>3, <2>1, <2>2, <2>3
<1> QED
  BY <1>4, <1>5, <1>6

\* The route of the story and the ones that wait stay; the story goes on with a step.
Leads(step, reason) ==
    /\ UNCHANGED routed /\ FlowShape(flow') /\ KeysShape' /\ retries' = retries
    /\ flow'.step = step /\ flow'.story = flow.story /\ flow'.reason = reason
    /\ keys'.active = keys.active /\ keys'.queue = keys.queue
    /\ keys'.reviews \in Nat /\ keys'.validations \in Nat

LEMMA LeadsOn ==
    ASSUME ReworkInv, At(WorkStep), NEW step, NEW reason, Leads(step, reason)
    PROVE  /\ Sent \in Nat /\ Sent' = Sent /\ \A story : NeverSent(story)' = NeverSent(story)
           /\ NeverSent(flow.story) => Sent = 0
           /\ ReworkIsBounded'
BY SentFacts, SameSent DEF ReworkInv, ReworkShapes, Leads, ReworkIsBounded

\* A step that is blocked leaves everything as it is.
LEMMA BlockedKeepsRework ==
    ASSUME ReworkInv, Leads("router", "blocked"), keys'.route = keys.route, At({"red", "green", "doctor", "validate"})
    PROVE  ReworkInv'
<1>1. /\ Sent \in Nat /\ Sent' = Sent /\ \A story : NeverSent(story)' = NeverSent(story)
      /\ ReworkIsBounded'
  BY LeadsOn DEF At, WorkStep
<1>2. ReworkShapes'
  BY DEF ReworkInv, ReworkShapes, Leads, WorkStep
<1>3. RouteFits'
  BY DEF ReworkInv, RouteFits, At, AtRouter, Leads
<1>4. StoriesFit'
  BY <1>1 DEF ReworkInv, StoriesFit, At, AtRouter, Starting, Leads, WorkStep
<1>5. ReviewsCount' /\ ValidationsCount'
  BY DEF ReviewsCount, ValidationsCount, At, AtRouter, Leads
<1>6. RoutesCount'
  BY <1>1 DEF ReworkInv, RoutesCount, At, AtRouter, WorkStep, Leads
<1> QED
  BY <1>1, <1>2, <1>3, <1>4, <1>5, <1>6 DEF ReworkInv

LEMMA WorkFacts ==
    ASSUME ReworkInv
    PROVE  /\ FlowShape(flow) /\ KeysShape /\ retries \in Nat /\ keys.reviews \in Nat /\ keys.validations \in Nat
           /\ At(WorkStep \ {"commit"}) => keys.active = flow.story
BY DEF ReworkInv, ReworkShapes, StoriesFit

\* The way to the first tests.
LEMMA StartKeepsRework ==
    ASSUME ReworkInv, Starting, NEW step, NEW reason, Leads(step, reason), keys'.route = keys.route,
           step \in {"preflight", "context", "red", "green"}
    PROVE  ReworkInv'
<1>1. At(WorkStep) /\ At(WorkStep \ {"commit"}) /\ keys.route.route = None /\ NeverSent(flow.story)
  BY DEF ReworkInv, StoriesFit, Starting, At, AtRouter, WorkStep
<1>2. /\ Sent = 0 /\ Sent' = 0 /\ \A story : NeverSent(story)' = NeverSent(story)
      /\ ReworkIsBounded'
  BY <1>1, LeadsOn
<1>3. ReworkShapes'
  BY DEF ReworkInv, ReworkShapes, Leads, WorkStep
<1>4. RouteFits' /\ RoutesCount' /\ keys'.route.reason = None
  BY <1>1 DEF ReworkInv, RouteFits, RoutesCount, Leads, None
<1>5. StoriesFit'
  BY <1>1, <1>2 DEF ReworkInv, StoriesFit, At, AtRouter, Starting, Leads, WorkStep
<1>6. ReviewsCount' /\ ValidationsCount'
  BY <1>1, <1>2, <1>4 DEF ReviewsCount, ValidationsCount, At, AtRouter, Leads, None
<1> QED
  BY <1>2, <1>3, <1>4, <1>5, <1>6 DEF ReworkInv

LEMMA RouteStoryKeepsRework == ReworkInv /\ RouteStory => ReworkInv'
<1> SUFFICES ASSUME ReworkInv, RouteStory PROVE ReworkInv'
  OBVIOUS
<1>1. /\ AtRouter({"start", "completed"}) /\ At(WorkStep \ {"commit"}) /\ UNCHANGED routed /\ Starting
      /\ keys.route.route = None
  BY DEF RouteStory, Doing, AtRouter, At, WorkStep, Starting, ReworkInv, StoriesFit
<1>2. keys.active = flow.story /\ KeysShape /\ keys.reviews \in Nat /\ keys.validations \in Nat
  BY <1>1, WorkFacts
<1> DEFINE ps == {<<"phase", "router">>, <<"active", flow.story>>}
           next == StepAt("preflight", flow.story, None)
<1>3. Does(ps, next)
  <2>1. Handler(<< <<"phase", "router">>, <<"active", flow.story>> >>, next)
    BY <1>2 DEF RouteStory, StaleCompletion
  <2> HIDE DEF next
  <2> QED
    BY <1>2, <2>1, PairsOf, HandlerDoes
<1>4. /\ KeysShape' /\ keys'.active = keys.active /\ keys'.queue = keys.queue /\ keys'.route = keys.route
      /\ keys'.reviews = keys.reviews /\ keys'.validations = keys.validations
  BY <1>2, <1>3 DEF Does, Stores, KeyName
<1>5. CASE Ends(ps, next)
  <2>1. Leads("preflight", None)
    BY <1>1, <1>2, <1>4, <1>5, PlaceFacts DEF Ends, Leads
  <2> QED
    BY <1>1, <1>4, <2>1, StartKeepsRework
<1>6. CASE Breaks
  BY <1>1, <1>4, <1>6, StatusFacts, StaysAtWork DEF Breaks, AtRouter, At
<1> QED
  BY <1>3, <1>5, <1>6 DEF Does

LEMMA PreflightKeepsRework == ReworkInv /\ (Preflight \/ ContextPreflight \/ WriteRedTests) => ReworkInv'
<1> SUFFICES ASSUME ReworkInv, Preflight \/ ContextPreflight \/ WriteRedTests PROVE ReworkInv'
  OBVIOUS
<1>1. /\ At({"preflight", "context", "red"}) /\ UNCHANGED routed /\ Starting
  BY DEF Preflight, ContextPreflight, WriteRedTests, Doing, At, Starting
<1>2. KeysShape /\ FlowShape(flow) /\ keys.reviews \in Nat /\ keys.validations \in Nat
  BY WorkFacts
<1>3. ASSUME NEW ps, \A w \in ps : w[1] = "phase", NEW step, NEW reason,
             Does(ps, StepAt(step, flow.story, reason)),
             \/ step \in {"context", "red", "green"}
             \/ step = "router" /\ reason = "blocked" /\ flow.step = "red"
      PROVE  ReworkInv'
  <2> DEFINE next == StepAt(step, flow.story, reason)
  <2>1. /\ KeysShape' /\ keys'.active = keys.active /\ keys'.queue = keys.queue /\ keys'.route = keys.route
        /\ keys'.reviews = keys.reviews /\ keys'.validations = keys.validations
    BY <1>2, <1>3 DEF Does, Stores, KeyName
  <2>2. CASE Ends(ps, next)
    <3>1. Leads(step, reason)
      BY <1>1, <1>2, <2>1, <2>2, PlaceFacts DEF Ends, Leads
    <3> QED
      BY <1>1, <1>3, <2>1, <3>1, StartKeepsRework, BlockedKeepsRework DEF At
  <2>3. CASE Breaks
    BY <1>1, <2>1, <2>3, StatusFacts, StaysAtWork DEF Breaks, AtRouter, At
  <2> QED
    BY <1>3, <2>2, <2>3 DEF Does
<1>4. CASE Preflight
  <2>1. CASE Handler(<< <<"phase", "preflight">> >>, Failed)
    <3>1. Does({<<"phase", "preflight">>}, Failed)
      BY <1>2, <2>1, PairsOf, HandlerDoes
    <3>2. Harmless({<<"phase", "preflight">>}) /\ ~At({"review"}) /\ ~AtRouter({"validation"}) /\ ~AtRouter({"review"})
      BY <1>1 DEF Harmless, At, AtRouter
    <3>3. Breaks \/ flow' = Failed
      BY <3>1 DEF Does, Ends
    <3> QED
      BY <1>1, <3>1, <3>2, <3>3, BreaksQuietly
  <2>2. CASE Handler(<< <<"phase", "preflight">> >>, StepAt("context", flow.story, None))
    <3>1. Does({<<"phase", "preflight">>}, StepAt("context", flow.story, None))
      BY <1>2, <2>2, PairsOf, HandlerDoes
    <3> QED
      BY <1>3, <3>1
  <2> QED
    BY <1>4, <2>1, <2>2 DEF Preflight
<1>5. CASE ContextPreflight
  <2>1. Does({<<"phase", "context">>, <<"phase", "red">>}, StepAt("red", flow.story, None))
    BY <1>2, <1>5, PairsOf, HandlerDoes DEF ContextPreflight
  <2> QED
    BY <1>3, <2>1
<1>6. CASE WriteRedTests
  <2>1. flow.step = "red"
    BY <1>6 DEF WriteRedTests, Doing
  <2>2. CASE Handler(<<>>, Blocked)
    <3>1. Does({}, StepAt("router", flow.story, "blocked"))
      BY <1>2, <2>2, PairsOf, HandlerDoes DEF Blocked
    <3> QED
      BY <1>3, <2>1, <3>1
  <2>3. CASE Handler(<< <<"phase", "green">> >>, StepAt("green", flow.story, None))
    <3>1. Does({<<"phase", "green">>}, StepAt("green", flow.story, None))
      BY <1>2, <2>3, PairsOf, HandlerDoes
    <3> QED
      BY <1>3, <3>1
  <2> QED
    BY <1>6, <2>2, <2>3 DEF WriteRedTests
<1> QED
  BY <1>4, <1>5, <1>6

\* The implementer, or the doctor who settles the route, hands over to the validation.
LEMMA ImplementKeepsRework == ReworkInv /\ (ImplementGreen \/ StoryDoctor) => ReworkInv'
<1> SUFFICES ASSUME ReworkInv, ImplementGreen \/ StoryDoctor PROVE ReworkInv'
  OBVIOUS
<1>1. At({"green", "doctor"}) /\ At(WorkStep) /\ At(WorkStep \ {"commit"}) /\ UNCHANGED routed
  BY DEF ImplementGreen, StoryDoctor, Doing, At, WorkStep
<1>2. KeysShape /\ FlowShape(flow) /\ keys.reviews \in Nat /\ keys.validations \in Nat
  BY WorkFacts
<1>3. CASE Handler(<<>>, Blocked)
  <2> DEFINE next == StepAt("router", flow.story, "blocked")
  <2>1. Does({}, next)
    BY <1>2, <1>3, PairsOf, HandlerDoes DEF Blocked
  <2>2. keys' = keys /\ KeysShape'
    BY <1>2, <2>1 DEF Does, Stores, KeysShape
  <2>3. CASE Ends({}, next)
    <3>1. Leads("router", "blocked")
      BY <1>1, <1>2, <2>2, <2>3, PlaceFacts DEF Ends, Leads
    <3> QED
      BY <1>1, <2>2, <3>1, BlockedKeepsRework DEF At
  <2>4. CASE Breaks
    BY <1>1, <1>2, <2>2, <2>4, StatusFacts, StaysAtWork DEF Breaks, AtRouter, At
  <2> QED
    BY <2>1, <2>3, <2>4 DEF Does
<1>4. ASSUME NEW ps, Does(ps, StepAt("validate", flow.story, None)),
             \/ ps = {<<"phase", "validate">>, <<"validations", keys.validations + 1>>} /\ flow.step = "green"
             \/ /\ ps = {<<"route", NoRoute>>, <<"phase", "validate">>, <<"validations", keys.validations + 1>>}
                /\ flow.step = "doctor"
      PROVE  ReworkInv'
  <2> DEFINE next == StepAt("validate", flow.story, None)
  <2>1. /\ KeysShape' /\ keys'.active = keys.active /\ keys'.queue = keys.queue /\ keys'.reviews = keys.reviews
        /\ keys'.validations \in {keys.validations, keys.validations + 1}
        /\ keys'.route \in {keys.route, NoRoute} /\ (flow.step = "green" => keys'.route = keys.route)
        /\ Ends(ps, next) => /\ keys'.validations = keys.validations + 1
                             /\ flow.step = "doctor" => keys'.route = NoRoute
    <3>1. /\ KeysShape' /\ keys'.active = keys.active /\ keys'.queue = keys.queue /\ keys'.reviews = keys.reviews
          /\ flow.step = "green" => keys'.route = keys.route
      BY <1>4 DEF Does, Stores, KeyName
    <3>2. keys'.validations \in {keys.validations, keys.validations + 1}
      BY <1>4 DEF Does, Stores, KeyName
    <3>3. keys'.route \in {keys.route, NoRoute}
      BY <1>4 DEF Does, Stores, KeyName
    <3> HIDE DEF next
    <3>4. Ends(ps, next) => keys'.validations = keys.validations + 1
      <4>1. "validations" \in KeyName /\ \E w \in ps : w[1] = "validations"
        <5> DEFINE v == <<"validations", keys.validations + 1>>
        <5>1. v \in ps /\ v[1] = "validations"
          BY <1>4
        <5> HIDE DEF v
        <5> QED
          BY <5>1 DEF KeyName
      <4>2. \A w \in ps : w[1] = "validations" => w[2] = keys.validations + 1
        BY <1>4
      <4> QED
        BY <4>1, <4>2 DEF Ends, Stores
    <3>5. Ends(ps, next) /\ flow.step = "doctor" => keys'.route = NoRoute
      <4>1. "route" \in KeyName
        BY DEF KeyName
      <4>2. ASSUME flow.step = "doctor"
            PROVE  (\E w \in ps : w[1] = "route") /\ \A w \in ps : w[1] = "route" => w[2] = NoRoute
        <5> DEFINE v == <<"route", NoRoute>>
        <5>1. v \in ps /\ v[1] = "route" /\ \A w \in ps : w[1] = "route" => w[2] = NoRoute
          BY <1>4, <4>2
        <5> HIDE DEF v
        <5> QED
          BY <5>1
      <4> QED
        BY <4>1, <4>2 DEF Ends, Stores
    <3> QED
      BY <3>1, <3>2, <3>3, <3>4, <3>5
  <2>2. /\ NoRoute.route = None /\ NoRoute.reason = None /\ NoRoute.review = 0 /\ NoRoute.validation = 0
    BY DEF NoRoute
  <2>3. CASE Ends(ps, next)
    <3>1. Leads("validate", None)
      BY <1>1, <1>2, <2>1, <2>3, PlaceFacts DEF Ends, Leads
    <3>2. /\ Sent \in Nat /\ Sent' = Sent /\ \A story : NeverSent(story)' = NeverSent(story)
          /\ ReworkIsBounded'
      BY <1>1, <3>1, LeadsOn
    <3>3. ReworkShapes'
      BY <2>1, <2>2, <3>1 DEF ReworkInv, ReworkShapes, Leads, WorkStep
    <3>4. RouteFits'
      BY <1>4, <2>1, <2>2, <2>3, <3>1 DEF ReworkInv, RouteFits, Leads, At, AtRouter, None
    <3>5. StoriesFit'
      BY <1>1, <3>1, <3>2 DEF ReworkInv, StoriesFit, At, AtRouter, Starting, Leads, WorkStep
    <3>6. ReviewsCount'
      BY <1>1, <2>1, <3>1, <3>2 DEF ReworkInv, ReviewsCount, At, AtRouter, Leads
    <3>7. ValidationsCount'
      BY <1>1, <1>2, <1>4, <2>1, <2>2, <2>3, <3>1, <3>2 DEF ReworkInv, ValidationsCount, At, AtRouter, Leads, None
    <3>8. RoutesCount'
      BY <1>1, <1>4, <2>1, <2>2, <3>1, <3>2 DEF ReworkInv, RoutesCount, At, AtRouter, Leads, None
    <3> QED
      BY <3>2, <3>3, <3>4, <3>5, <3>6, <3>7, <3>8 DEF ReworkInv
  <2>4. CASE Breaks
    <3>1. CASE keys'.route = keys.route
      BY <1>1, <2>1, <2>4, <3>1, StatusFacts, StaysAtWork DEF Breaks, AtRouter, At
    <3>2. CASE keys'.route = NoRoute /\ flow.step = "doctor"
      <4>1. /\ FlowShape(flow') /\ flow'.step = "doctor" /\ flow'.story = flow.story /\ retries' = retries + 1
        BY <2>4, <3>2, StatusFacts DEF Breaks
      <4>2. /\ Sent \in Nat /\ Sent' = Sent /\ \A story : NeverSent(story)' = NeverSent(story)
        BY <1>1, <4>1, SentFacts, SameSent DEF ReworkInv, ReworkShapes
      <4>3. ReworkShapes' /\ ReworkIsBounded'
        BY <1>1, <1>2, <2>1, <2>2, <3>2, <4>1, StoryLimits DEF ReworkInv, ReworkShapes, ReworkIsBounded, WorkStep
      <4>4. RouteFits' /\ RoutesCount'
        BY <2>2, <3>2 DEF RouteFits, RoutesCount, None
      <4>5. StoriesFit'
        BY <1>1, <2>1, <3>2, <4>1, <4>2 DEF ReworkInv, StoriesFit, At, AtRouter, Starting, WorkStep
      <4>6. ReviewsCount' /\ ValidationsCount'
        BY <1>2, <2>1, <3>2, <4>1, <4>2 DEF ReworkInv, ReviewsCount, ValidationsCount, At, AtRouter
      <4> QED
        BY <4>3, <4>4, <4>5, <4>6 DEF ReworkInv
    <3> QED
      BY <1>4, <2>1, <3>1, <3>2
  <2> QED
    BY <1>4, <2>3, <2>4 DEF Does
<1>5. CASE ImplementGreen /\ Handler(<< <<"phase", "validate">>, <<"validations", keys.validations + 1>> >>,
                                     StepAt("validate", flow.story, None))
  <2>1. Does({<<"phase", "validate">>, <<"validations", keys.validations + 1>>}, StepAt("validate", flow.story, None))
    BY <1>2, <1>5, PairsOf, HandlerDoes
  <2> QED
    BY <1>4, <1>5, <2>1 DEF ImplementGreen, Doing
<1>6. CASE StoryDoctor /\ Handler(<< <<"route", NoRoute>>, <<"phase", "validate">>,
                                     <<"validations", keys.validations + 1>> >>, StepAt("validate", flow.story, None))
  <2>1. Does({<<"route", NoRoute>>, <<"phase", "validate">>, <<"validations", keys.validations + 1>>},
             StepAt("validate", flow.story, None))
    <3> DEFINE a == <<"route", NoRoute>>  b == <<"phase", "validate">>  c == <<"validations", keys.validations + 1>>
    <3>1. Handler(<<a, b, c>>, StepAt("validate", flow.story, None))
      BY <1>6
    <3> HIDE DEF a, b, c
    <3>2. Does({a, b, c}, StepAt("validate", flow.story, None))
      <4>1. Writes(<<a, b, c>>) /\ Pairs(<<a, b, c>>) = {a, b, c}
        BY PairsOf
      <4> QED
        BY <1>2, <3>1, <4>1, HandlerDoes
    <3> QED
      BY <3>2 DEF a, b, c
  <2> QED
    BY <1>4, <1>6, <2>1 DEF StoryDoctor, Doing
<1> QED
  BY <1>3, <1>5, <1>6 DEF ImplementGreen, StoryDoctor

\* A handler that ends has stored what it writes to a key once.
LEMMA Stored1 ==
    ASSUME NEW ps, NEW next, Ends(ps, next), NEW k \in KeyName, NEW v, <<k, v>> \in ps,
           \A w \in ps : w[1] = k => w[2] = v
    PROVE  keys'[k] = v
<1> DEFINE p == <<k, v>>
<1>1. p \in ps /\ p[1] = k
  OBVIOUS
<1> HIDE DEF p
<1> QED
  BY <1>1 DEF Ends, Stores

LEMMA ValidateKeepsRework == ReworkInv /\ ValidateStory => ReworkInv'
<1> SUFFICES ASSUME ReworkInv, ValidateStory PROVE ReworkInv'
  OBVIOUS
<1>1. flow.step = "validate" /\ At(WorkStep) /\ At(WorkStep \ {"commit"}) /\ UNCHANGED routed
  BY DEF ValidateStory, Doing, At, WorkStep
<1>2. KeysShape /\ FlowShape(flow) /\ keys.reviews \in Nat /\ keys.validations \in Nat
  BY WorkFacts
<1>3. ASSUME NEW ps, \A w \in ps : w[1] \in {"phase", "validation"} \/ w = <<"reviews", keys.reviews + 1>>,
             NEW step, NEW reason, Does(ps, StepAt(step, flow.story, reason)),
             \/ step = "router" /\ reason \in {"blocked", "validation"}
             \/ step = "review" /\ \A next : Ends(ps, next) => keys'.phase = "review" /\ keys'.reviews = keys.reviews + 1
      PROVE  ReworkInv'
  <2> DEFINE next == StepAt(step, flow.story, reason)
  <2>1. /\ KeysShape' /\ keys'.active = keys.active /\ keys'.queue = keys.queue /\ keys'.route = keys.route
        /\ keys'.validations = keys.validations
    BY <1>2, <1>3 DEF Does, Stores, KeyName
  <2>2. keys'.reviews \in {keys.reviews, keys.reviews + 1}
    BY <1>2, <1>3 DEF Does, Stores, KeyName
  <2>3. CASE Ends(ps, next)
    <3>1. Leads(step, reason)
      BY <1>1, <1>2, <2>1, <2>2, <2>3, PlaceFacts DEF Ends, Leads
    <3>2. CASE step = "router" /\ reason = "blocked"
      BY <1>1, <2>1, <3>1, <3>2, BlockedKeepsRework DEF At
    <3>3. ASSUME \/ step = "router" /\ reason = "validation"
                 \/ step = "review" /\ keys'.phase = "review" /\ keys'.reviews = keys.reviews + 1
          PROVE  ReworkInv'
      <4>1. /\ Sent \in Nat /\ Sent' = Sent /\ \A story : NeverSent(story)' = NeverSent(story)
            /\ ReworkIsBounded'
        BY <1>1, <3>1, LeadsOn
      <4>2. ReworkShapes'
        BY <2>1, <3>1, <3>3 DEF ReworkInv, ReworkShapes, Leads, WorkStep
      <4>3. RouteFits'
        BY <1>1, <2>1, <3>1, <3>3 DEF ReworkInv, RouteFits, Leads, At, AtRouter
      <4>4. StoriesFit'
        BY <1>1, <2>1, <3>1, <3>3, <4>1 DEF ReworkInv, StoriesFit, At, AtRouter, Starting, Leads, WorkStep
      <4>5. ReviewsCount'
        BY <1>1, <1>2, <2>2, <3>1, <3>3, <4>1 DEF ReworkInv, ReviewsCount, At, AtRouter, Leads
      <4>6. ValidationsCount'
        BY <1>1, <2>1, <3>1, <3>3, <4>1 DEF ReworkInv, ValidationsCount, At, AtRouter, Leads
      <4>7. RoutesCount'
        BY <1>1, <2>1, <3>1, <3>3, <4>1 DEF ReworkInv, RoutesCount, At, AtRouter, Leads
      <4> QED
        BY <4>1, <4>2, <4>3, <4>4, <4>5, <4>6, <4>7 DEF ReworkInv
    <3> QED
      BY <1>3, <2>3, <3>2, <3>3
  <2>4. CASE Breaks
    BY <1>1, <2>1, <2>2, <2>4, StatusFacts, StaysAtWork DEF Breaks, AtRouter, At
  <2> QED
    BY <1>3, <2>3, <2>4 DEF Does
<1>4. CASE Handler(<< <<"validation", None>> >>, Blocked)
  <2>1. Does({<<"validation", None>>}, StepAt("router", flow.story, "blocked"))
    BY <1>2, <1>4, PairsOf, HandlerDoes DEF Blocked
  <2> QED
    BY <1>3, <2>1
<1>5. ASSUME NEW e, Handler(<< <<"validation", e>> >>, StepAt("router", flow.story, "validation")) PROVE ReworkInv'
  <2>1. Does({<<"validation", e>>}, StepAt("router", flow.story, "validation"))
    BY <1>2, <1>5, PairsOf, HandlerDoes
  <2> QED
    BY <1>3, <2>1
<1>6. CASE Handler(<< <<"validation", None>>, <<"phase", "review">>, <<"reviews", keys.reviews + 1>> >>,
                   StepAt("review", flow.story, None))
  <2> DEFINE a == <<"validation", None>>  b == <<"phase", "review">>  c == <<"reviews", keys.reviews + 1>>
             ps == {a, b, c}
  <2>1. Does(ps, StepAt("review", flow.story, None))
    <3>1. Handler(<<a, b, c>>, StepAt("review", flow.story, None))
      BY <1>6
    <3> HIDE DEF a, b, c
    <3>2. Writes(<<a, b, c>>) /\ Pairs(<<a, b, c>>) = {a, b, c}
      BY PairsOf
    <3> QED
      BY <1>2, <3>1, <3>2, HandlerDoes
  <2>2. \A next : Ends(ps, next) => keys'.phase = "review" /\ keys'.reviews = keys.reviews + 1
    <3> SUFFICES ASSUME NEW next, Ends(ps, next) PROVE keys'["phase"] = "review" /\ keys'["reviews"] = keys.reviews + 1
      OBVIOUS
    <3>1. <<"phase", "review">> \in ps /\ <<"reviews", keys.reviews + 1>> \in ps
      OBVIOUS
    <3>2. /\ \A w \in ps : w[1] = "phase" => w[2] = "review"
          /\ \A w \in ps : w[1] = "reviews" => w[2] = keys.reviews + 1
      OBVIOUS
    <3>3. "phase" \in KeyName /\ "reviews" \in KeyName
      BY DEF KeyName
    <3> HIDE DEF ps
    <3>4. keys'["phase"] = "review"
      BY <3>1, <3>2, <3>3, Stored1
    <3>5. keys'["reviews"] = keys.reviews + 1
      BY <3>1, <3>2, <3>3, Stored1
    <3> QED
      BY <3>4, <3>5
  <2>3. \A w \in ps : w[1] \in {"phase", "validation"} \/ w = <<"reviews", keys.reviews + 1>>
    OBVIOUS
  <2> HIDE DEF ps
  <2> QED
    BY <1>3, <2>1, <2>2, <2>3
<1> QED
  BY <1>4, <1>5, <1>6 DEF ValidateStory

LEMMA ReviewKeepsRework == ReworkInv /\ ReviewStory => ReworkInv'
<1> SUFFICES ASSUME ReworkInv, ReviewStory PROVE ReworkInv'
  OBVIOUS
<1>1. flow.step = "review" /\ At(WorkStep) /\ At(WorkStep \ {"commit"}) /\ UNCHANGED routed
  BY DEF ReviewStory, Doing, At, WorkStep
<1>2. KeysShape /\ FlowShape(flow) /\ keys.reviews \in Nat /\ keys.validations \in Nat
  BY WorkFacts
<1>3. PICK e, step, reason : /\ Handler(<< <<"review", e>> >>, StepAt(step, flow.story, reason))
                             /\ \/ step = "router" /\ reason = "review"
                                \/ step = "commit"
  BY DEF ReviewStory
<1> DEFINE ps == {<<"review", e>>}
           next == StepAt(step, flow.story, reason)
<1>4. Does(ps, next)
  BY <1>2, <1>3, PairsOf, HandlerDoes
<1>5. /\ KeysShape' /\ keys'.active = keys.active /\ keys'.queue = keys.queue /\ keys'.route = keys.route
      /\ keys'.validations = keys.validations /\ keys'.reviews = keys.reviews /\ keys'.phase = keys.phase
  BY <1>2, <1>4 DEF Does, Stores, KeyName
<1>6. CASE Ends(ps, next)
  <2>1. Leads(step, reason)
    BY <1>1, <1>2, <1>5, <1>6, PlaceFacts DEF Ends, Leads
  <2>2. /\ Sent \in Nat /\ Sent' = Sent /\ \A story : NeverSent(story)' = NeverSent(story)
        /\ ReworkIsBounded'
    BY <1>1, <2>1, LeadsOn
  <2>3. ReworkShapes'
    BY <1>3, <1>5, <2>1 DEF ReworkInv, ReworkShapes, Leads, WorkStep
  <2>4. RouteFits'
    BY <1>1, <1>3, <1>5, <2>1 DEF ReworkInv, RouteFits, Leads, At, AtRouter
  <2>5. StoriesFit'
    BY <1>1, <1>3, <1>5, <2>1, <2>2 DEF ReworkInv, StoriesFit, At, AtRouter, Starting, Leads, WorkStep
  <2>6. ReviewsCount'
    BY <1>1, <1>3, <1>5, <2>1, <2>2 DEF ReworkInv, ReviewsCount, At, AtRouter, Leads
  <2>7. ValidationsCount'
    BY <1>1, <1>3, <1>5, <2>1, <2>2 DEF ReworkInv, ValidationsCount, At, AtRouter, Leads
  <2>8. RoutesCount'
    BY <1>1, <1>3, <1>5, <2>1, <2>2 DEF ReworkInv, RoutesCount, StoriesFit, At, AtRouter, Leads
  <2> QED
    BY <2>2, <2>3, <2>4, <2>5, <2>6, <2>7, <2>8 DEF ReworkInv
<1>7. CASE Breaks
  BY <1>1, <1>5, <1>7, StatusFacts, StaysAtWork DEF Breaks, AtRouter, At
<1> QED
  BY <1>4, <1>6, <1>7 DEF Does

LEMMA FirstIsMember == ASSUME NEW stories \in SUBSET Nat, stories # {} PROVE First(stories) \in stories
<1> DEFINE R == OpToRel(<, Nat)
<1>1. PICK s \in stories : \A t \in stories : <<t, s>> \notin R
  <2>1. IsWellFoundedOn(R, Nat)
    BY NatLessThanWellFounded
  <2> HIDE DEF R
  <2> QED
    BY <2>1, WFMin
<1>2. ASSUME NEW t \in stories PROVE s <= t
  <2>1. s \in Nat /\ t \in Nat
    OBVIOUS
  <2>2. ~(t < s)
    BY <1>1, <2>1 DEF OpToRel
  <2> HIDE DEF R
  <2> QED
    BY <2>1, <2>2
<1> QED
  BY <1>2 DEF First

\* The story a commit goes on with has never been sent back.
LEMMA NextStoryFits ==
    ASSUME ReworkInv, At({"commit"}), NextStory # 0
    PROVE  NeverSent(NextStory) /\ NextStory \in keys.queue \cup {keys.active}
<1>1. /\ keys.queue \in SUBSET Nat /\ \A story \in keys.queue : NeverSent(story)
      /\ keys.active \in {0, flow.story} \/ NeverSent(keys.active)
  BY DEF ReworkInv, ReworkShapes, StoriesFit, At, WorkStep
<1>2. CASE Advanced
  BY <1>1, <1>2 DEF NextStory, Advanced
<1>3. CASE ~Advanced
  <2>1. Waiting \in SUBSET Nat /\ Waiting # {} /\ NextStory = First(Waiting)
    BY <1>1, <1>3 DEF NextStory, Waiting
  <2>2. First(Waiting) \in keys.queue
    BY <2>1, FirstIsMember DEF Waiting
  <2> QED
    BY <1>1, <2>1, <2>2
<1> QED
  BY <1>2, <1>3

\* The writes of a commit that break off.
LEMMA CommitBreaks ==
    ASSUME ReworkInv, At({"commit"}), Breaks, UNCHANGED routed, KeysShape',
           keys'.active \in {keys.active, 0} \cup keys.queue, keys'.queue \in SUBSET keys.queue,
           keys'.route \in {keys.route, NoRoute}, keys'.reviews \in Nat, keys'.validations \in Nat
    PROVE  ReworkInv'
<1>1. /\ FlowShape(flow') /\ flow'.step = "commit" /\ flow.step = "commit" /\ flow'.story = flow.story
      /\ retries' = retries + 1
  BY StatusFacts DEF Breaks, At
<1>2. /\ Sent \in Nat /\ Sent' = Sent /\ \A story : NeverSent(story)' = NeverSent(story)
  BY <1>1, SentFacts, SameSent DEF ReworkInv, ReworkShapes
<1>3. /\ NoRoute.route = None /\ NoRoute.reason = None /\ NoRoute.review = 0 /\ NoRoute.validation = 0
  BY DEF NoRoute
<1>4. ReworkShapes' /\ ReworkIsBounded'
  BY <1>1, <1>3, StoryLimits DEF ReworkInv, ReworkShapes, ReworkIsBounded
<1>5. RouteFits' /\ RoutesCount'
  BY <1>1, <1>2, <1>3 DEF ReworkInv, ReworkShapes, RouteFits, RoutesCount, At, AtRouter, WorkStep, None
<1>6. StoriesFit'
  BY <1>1, <1>2 DEF ReworkInv, StoriesFit, At, AtRouter, Starting, WorkStep
<1>7. ReviewsCount' /\ ValidationsCount'
  BY <1>1 DEF ReviewsCount, ValidationsCount, At, AtRouter
<1> QED
  BY <1>4, <1>5, <1>6, <1>7 DEF ReworkInv

LEMMA CompletionKeepsRework == ReworkInv /\ At({"commit"}) /\ CompleteStory /\ UNCHANGED routed => ReworkInv'
<1> SUFFICES ASSUME ReworkInv, At({"commit"}), CompleteStory, UNCHANGED routed PROVE ReworkInv'
  OBVIOUS
<1>1. /\ KeysShape /\ FlowShape(flow) /\ keys.reviews \in Nat /\ keys.validations \in Nat /\ keys.queue \in SUBSET Nat
      /\ flow.step = "commit" /\ keys.route.route \in {None, "retrying"} /\ retries \in Nat
      /\ IsFiniteSet(routed)
  BY DEF ReworkInv, ReworkShapes, RouteFits, At, AtRouter
<1>2. CASE NextStory = 0
  <2> DEFINE a == <<"completed", keys.completed \cup {flow.story}>>  b == <<"active", 0>>
             c == <<"context", 0>>                                 d == <<"contexts", {}>>
             ps == {a, b, c, d}
             next == StepAt("pullRequest", 0, None)
  <2>1. Does(ps, next)
    <3>1. Handler(<<a, b, c, d>>, next)
      BY <1>2 DEF CompleteStory
    <3> HIDE DEF a, b, c, d, next
    <3>2. Writes(<<a, b, c, d>>) /\ Pairs(<<a, b, c, d>>) = {a, b, c, d}
      BY PairsOf
    <3> QED
      BY <1>1, <3>1, <3>2, HandlerDoes
  <2>2. /\ KeysShape' /\ keys'.active \in {keys.active, 0} /\ keys'.queue = keys.queue /\ keys'.route = keys.route
        /\ keys'.validations = keys.validations /\ keys'.reviews = keys.reviews
    BY <1>1, <2>1 DEF Does, Stores, KeyName
  <2>3. CASE Ends(ps, next)
    <3>1. /\ FlowShape(flow') /\ flow'.step = "pullRequest" /\ retries' = retries
      BY <1>1, <2>3, StepOfFlow DEF Ends
    <3>2. ReworkShapes' /\ ReworkIsBounded'
      BY <1>1, <2>2, <3>1 DEF ReworkInv, ReworkShapes, ReworkIsBounded
    <3>3. RouteFits' /\ RoutesCount'
      BY <1>1, <2>2, <3>1 DEF ReworkInv, RouteFits, RoutesCount, At, AtRouter, WorkStep, None
    <3>4. StoriesFit' /\ ReviewsCount' /\ ValidationsCount'
      BY <3>1 DEF StoriesFit, ReviewsCount, ValidationsCount, At, AtRouter, Starting, WorkStep
    <3> QED
      BY <3>2, <3>3, <3>4 DEF ReworkInv
  <2>4. CASE Breaks
    BY <1>1, <2>2, <2>4, CommitBreaks
  <2> QED
    BY <2>1, <2>3, <2>4 DEF Does
<1>3. CASE NextStory # 0
  <2> DEFINE a == <<"validations", 0>>  b == <<"reviews", 0>>  c == <<"validation", None>>
             d == <<"review", None>>    e == <<"route", NoRoute>>
             f == <<"completed", keys.completed \cup {flow.story}>>
             g == <<"queue", Remaining>>     h == <<"contexts", ContextsOf(Remaining)>>
             i == <<"active", NextStory>>    j == <<"context", NextContext>>
             ps == {a, b, c, d, e} \cup {f, g, h, i, j}
             next == StepAt("router", NextStory, "completed")
  <2>1. Does(ps, next)
    <3>1. Handler(<<a, b, c, d, e>> \o <<f, g, h, i, j>>, next)
      BY <1>3 DEF CompleteStory, ResetStory
    <3> HIDE DEF a, b, c, d, e, f, g, h, i, j, next
    <3>2. /\ Writes(<<a, b, c, d, e>>) /\ Pairs(<<a, b, c, d, e>>) = {a, b, c, d, e}
          /\ Writes(<<f, g, h, i, j>>) /\ Pairs(<<f, g, h, i, j>>) = {f, g, h, i, j}
      BY PairsOf
    <3>3. LET ws == <<a, b, c, d, e>> \o <<f, g, h, i, j>> IN Writes(ws) /\ Pairs(ws) = ps
      BY <3>2, PairsOfBoth
    <3> HIDE DEF ps
    <3> QED
      BY <1>1, <3>1, <3>3, HandlerDoes
  <2>2. /\ NeverSent(NextStory) /\ NextStory \in keys.queue \cup {keys.active}
        /\ Remaining \in SUBSET keys.queue /\ NextStory \notin Remaining
    BY <1>3, NextStoryFits DEF Remaining, Waiting
  <2>3. /\ KeysShape' /\ keys'.active \in {keys.active, NextStory} /\ keys'.queue \in {keys.queue, Remaining}
    BY <1>1, <2>1 DEF Does, Stores, KeyName
  <2>4. keys'.route \in {keys.route, NoRoute}
    BY <1>1, <2>1 DEF Does, Stores, KeyName
  <2>5. keys'.validations \in {keys.validations, 0} /\ keys'.reviews \in {keys.reviews, 0}
    BY <1>1, <2>1 DEF Does, Stores, KeyName
  <2>6. CASE Ends(ps, next)
    <3>1. keys'["active"] = NextStory
      <4>1. <<"active", NextStory>> \in ps /\ "active" \in KeyName /\ \A w \in ps : w[1] = "active" => w[2] = NextStory
        BY DEF KeyName
      <4> HIDE DEF ps, next
      <4> QED
        BY <2>6, <4>1, Stored1
    <3>2. keys'["queue"] = Remaining
      <4>1. <<"queue", Remaining>> \in ps /\ "queue" \in KeyName /\ \A w \in ps : w[1] = "queue" => w[2] = Remaining
        BY DEF KeyName
      <4> HIDE DEF ps, next
      <4> QED
        BY <2>6, <4>1, Stored1
    <3>3. keys'["route"] = NoRoute
      <4>1. <<"route", NoRoute>> \in ps /\ "route" \in KeyName /\ \A w \in ps : w[1] = "route" => w[2] = NoRoute
        BY DEF KeyName
      <4> HIDE DEF ps, next
      <4> QED
        BY <2>6, <4>1, Stored1
    <3>4. /\ FlowShape(flow') /\ flow'.step = "router" /\ flow'.reason = "completed" /\ flow'.story = NextStory
          /\ retries' = retries
      BY <1>1, <2>6, StepOfFlow DEF Ends
    <3>5. /\ NoRoute.route = None /\ NoRoute.reason = None /\ NoRoute.review = 0 /\ NoRoute.validation = 0
      BY DEF NoRoute
    <3>6. \A story : NeverSent(story)' = NeverSent(story)
      BY SameSent
    <3>7. ReworkShapes' /\ ReworkIsBounded'
      BY <1>1, <2>2, <2>3, <2>5, <3>2, <3>3, <3>4, <3>5 DEF ReworkInv, ReworkShapes, ReworkIsBounded, WorkStep
    <3>8. RouteFits' /\ RoutesCount'
      BY <3>3, <3>5 DEF RouteFits, RoutesCount, None
    <3>9. StoriesFit'
      <4>1. \A story \in keys.queue : NeverSent(story)
        BY DEF ReworkInv, StoriesFit, At, WorkStep
      <4> QED
        BY <2>2, <3>1, <3>2, <3>3, <3>4, <3>5, <3>6, <4>1 DEF StoriesFit, At, AtRouter, Starting, WorkStep
    <3>10. ReviewsCount' /\ ValidationsCount'
      BY <3>4 DEF ReviewsCount, ValidationsCount, At, AtRouter
    <3> QED
      BY <3>7, <3>8, <3>9, <3>10 DEF ReworkInv
  <2>7. CASE Breaks
    <3>1. keys'.reviews \in Nat /\ keys'.validations \in Nat
      BY <1>1, <2>5
    <3>2. keys'.active \in {keys.active, 0} \cup keys.queue /\ keys'.queue \in SUBSET keys.queue
      BY <2>2, <2>3
    <3> QED
      BY <2>3, <2>4, <2>7, <3>1, <3>2, CommitBreaks
  <2> QED
    BY <2>1, <2>6, <2>7 DEF Does
<1> QED
  BY <1>2, <1>3

LEMMA CommitKeepsRework == ReworkInv /\ (CommitStory \/ OpenPullRequest) => ReworkInv'
<1> SUFFICES ASSUME ReworkInv, CommitStory \/ OpenPullRequest PROVE ReworkInv'
  OBVIOUS
<1>1. UNCHANGED routed /\ At({"commit", "pullRequest"}) /\ (CommitStory => At({"commit"})) /\ KeysShape
  BY WorkFacts DEF CommitStory, OpenPullRequest, Doing, At
<1>2. ASSUME NEW next, next = Failed \/ next = [flow EXCEPT !.status = "done"], Handler(<<>>, next)
      PROVE  ReworkInv'
  <2>1. Does({}, next)
    BY <1>1, <1>2, PairsOf, HandlerDoes
  <2>2. keys' = keys /\ KeysShape'
    BY <1>1, <2>1 DEF Does, Stores, KeysShape
  <2>3. /\ FlowShape(flow') /\ flow'.step = flow.step /\ flow'.story = flow.story /\ flow'.reason = flow.reason
        /\ retries' \in {retries, retries + 1}
    <3>1. PICK status : flow' = [flow EXCEPT !.status = status]
      BY <1>2, <2>1 DEF Does, Ends, Breaks, Failed
    <3>2. retries' \in {retries, retries + 1}
      BY <2>1 DEF Does, Ends, Breaks
    <3> QED
      BY <3>1, <3>2, StatusFacts
  <2> QED
    BY <1>1, <2>2, <2>3, StaysAtWork DEF AtRouter, At
<1> QED
  BY <1>1, <1>2, CompletionKeepsRework DEF CommitStory, OpenPullRequest

\* A route that the router takes now counts every way back there will have been.
Counted(r) ==
    /\ r.story = flow.story /\ r.reason = flow.reason /\ r.review \in Nat /\ r.validation \in Nat
    /\ \/ /\ r.route = "retrying" /\ r.target = "green"
          /\ flow.reason = "review" => r.review < MaxReviews /\ Sent + 1 <= r.review + retries
          /\ flow.reason = "validation" => Sent <= r.review + retries
       \/ /\ r.route = "doctoring" /\ r.target = "doctor" /\ flow.reason = "validation"

LEMMA FollowFacts ==
    ASSUME ReworkInv, NEW target, Follow(target), flow'.story = flow.story, retries' = retries,
           flow.reason = "review" => Sent + 1 < MaxReviews + retries
    PROVE  /\ IsFiniteSet(routed') /\ (\A r \in routed' : r.n \in Nat)
           /\ Sent \in Nat /\ Sent' \in Nat /\ Sent' <= Sent + 1 /\ (flow.reason # "review" => Sent' = Sent)
           /\ \A story : story # flow.story /\ NeverSent(story) => NeverSent(story)'
           /\ ReworkIsBounded'
<1>1. IsFiniteSet(routed) /\ Sent \in Nat
  BY SentFacts DEF ReworkInv, ReworkShapes
<1>2. CASE routed' = routed
  BY <1>1, <1>2, SameSent DEF ReworkInv, ReworkShapes, ReworkIsBounded
<1> DEFINE same == {r \in routed : r.reason = flow.reason /\ r.story = flow.story}
           new == [reason |-> flow.reason, story |-> flow.story, target |-> target, n |-> Cardinality(same) + 1]
           sent == {r \in routed : r.reason = "review" /\ r.story = flow.story}
           after == {r \in routed' : r.reason = "review" /\ r.story = flow.story}
<1>3. CASE routed' = routed \cup {new}
  <2>1. /\ new.reason = flow.reason /\ new.story = flow.story /\ new.n = Cardinality(same) + 1
    OBVIOUS
  <2>2. Cardinality(same) \in Nat
    <3>1. IsFiniteSet(same)
      BY <1>1, FS_Subset
    <3> QED
      BY <3>1, FS_CardinalityType
  <2>3. flow.reason = "review" => same = sent /\ Cardinality(same) = Sent
    BY DEF Sent
  <2>4. Sent = Cardinality(sent) /\ Sent' = Cardinality(after)
    BY DEF Sent
  <2>5. IsFiniteSet(routed') /\ IsFiniteSet(sent)
    <3> HIDE DEF new
    <3> QED
      BY <1>1, <1>3, FS_AddElement, FS_Subset
  <2>6. after = IF flow.reason = "review" THEN sent \cup {new} ELSE sent
    <3>1. \A r : r \in after <=> r \in sent \/ (flow.reason = "review" /\ r = new)
      <4> HIDE DEF new
      <4> QED
        BY <1>3, <2>1
    <3> HIDE DEF new, after, sent
    <3> QED
      BY <3>1
  <2>7. Sent' \in Nat /\ Sent' <= Sent + 1 /\ (flow.reason # "review" => Sent' = Sent)
    <3>1. CASE flow.reason = "review"
      <4> HIDE DEF new, after, sent
      <4>1. Cardinality(sent \cup {new}) \in {Cardinality(sent), Cardinality(sent) + 1}
        BY <2>5, FS_AddElement
      <4> QED
        BY <1>1, <2>4, <2>6, <3>1, <4>1
    <3>2. CASE flow.reason # "review"
      <4> HIDE DEF new, after, sent
      <4> QED
        BY <1>1, <2>4, <2>6, <3>2
    <3> QED
      BY <3>1, <3>2
  <2>8. \A story : story # flow.story /\ NeverSent(story) => NeverSent(story)'
    <3> HIDE DEF new
    <3> QED
      BY <1>3, <2>1 DEF NeverSent
  <2>9. \A r \in routed' : r.n \in Nat
    <3> HIDE DEF new, same
    <3> QED
      BY <1>3, <2>1, <2>2 DEF ReworkInv, ReworkShapes
  <2>10. ReworkIsBounded'
    <3> HIDE DEF new, same, sent
    <3> QED
      BY <1>3, <2>1, <2>3 DEF ReworkInv, ReworkIsBounded
  <2> QED
    BY <1>1, <2>5, <2>7, <2>8, <2>9, <2>10
<1> QED
  BY <1>2, <1>3 DEF Follow

\* The route is taken.
LEMMA TakesRoute ==
    ASSUME ReworkInv, AtRouter({"review", "validation"}), KeysShape', FlowShape(flow'),
           Counted(keys'.route), Follow(keys'.route.target), flow'.step = keys'.route.target,
           flow'.story = flow.story, retries' = retries,
           keys'.active = keys.active, keys'.queue = keys.queue,
           keys'.reviews = keys.reviews, keys'.validations = keys.validations
    PROVE  ReworkInv'
<1>1. /\ flow.step = "router" /\ flow.reason \in {"review", "validation"} /\ flow'.step \in {"green", "doctor"}
      /\ Sent \in Nat /\ retries \in Nat /\ keys'.route.review \in Nat
  BY SentFacts DEF AtRouter, Counted, ReworkInv, ReworkShapes
<1>2. flow.reason = "review" => Sent + 1 < MaxReviews + retries
  BY <1>1, StoryLimits DEF Counted
<1>3. /\ IsFiniteSet(routed') /\ (\A r \in routed' : r.n \in Nat)
      /\ Sent' \in Nat /\ Sent' <= Sent + 1 /\ (flow.reason # "review" => Sent' = Sent)
      /\ \A story : story # flow.story /\ NeverSent(story) => NeverSent(story)'
      /\ ReworkIsBounded'
  BY <1>2, FollowFacts
<1>4. ReworkShapes'
  BY <1>1, <1>3 DEF ReworkInv, ReworkShapes, Counted, WorkStep
<1>5. RouteFits'
  BY <1>1 DEF RouteFits, Counted, At, AtRouter, None
<1>6. StoriesFit'
  BY <1>1, <1>3 DEF ReworkInv, StoriesFit, At, AtRouter, Starting, WorkStep
<1>7. ReviewsCount'
  BY <1>1, <1>3 DEF ReworkInv, ReworkShapes, ReviewsCount, At, AtRouter
<1>8. ValidationsCount'
  BY <1>1, <1>3 DEF ReworkInv, ReworkShapes, ValidationsCount, Counted, At, AtRouter, None
<1>9. RoutesCount'
  BY <1>1, <1>3 DEF RoutesCount, Counted, At, AtRouter
<1> QED
  BY <1>3, <1>4, <1>5, <1>6, <1>7, <1>8, <1>9 DEF ReworkInv

\* The router stays where it stands, with a new route that is stored.
LEMMA StoresRoute ==
    ASSUME ReworkInv, AtRouter({"review", "validation", "blocked"}), UNCHANGED routed, KeysShape',
           FlowShape(flow'), flow'.step = flow.step, flow'.story = flow.story, flow'.reason = flow.reason,
           retries' \in {retries, retries + 1},
           keys'.active = keys.active, keys'.queue = keys.queue, keys'.validation = keys.validation,
           keys'.reviews = keys.reviews, keys'.validations = keys.validations,
           keys'.route.story = flow.story, keys'.route.review \in Nat, keys'.route.validation \in Nat,
           \/ /\ Counted(keys'.route) /\ ~AtRouter({"blocked"})
              /\ flow.reason = "validation" => keys'.route.evidence = keys.validation
           \/ /\ keys'.route.route = "exhausted" /\ keys'.route.reason = flow.reason /\ ~AtRouter({"blocked"})
              /\ flow.reason = "validation" => keys'.route.evidence = keys.validation
           \/ keys'.route.route = "blocked" /\ AtRouter({"blocked"})
    PROVE  ReworkInv'
<1>1. /\ flow.step = "router" /\ flow.reason \in {"review", "validation", "blocked"}
      /\ Sent \in Nat /\ Sent' = Sent /\ retries \in Nat
      /\ \A story : NeverSent(story)' = NeverSent(story)
  BY SentFacts, SameSent DEF AtRouter, ReworkInv, ReworkShapes
<1>2. ReworkShapes' /\ ReworkIsBounded'
  BY <1>1, StoryLimits DEF ReworkInv, ReworkShapes, ReworkIsBounded
<1>3. RouteFits'
  BY <1>1 DEF RouteFits, Counted, At, AtRouter, None
<1>4. StoriesFit'
  BY <1>1 DEF ReworkInv, StoriesFit, At, AtRouter, Starting, WorkStep
<1>5. ReviewsCount'
  BY <1>1 DEF ReworkInv, ReviewsCount, At, AtRouter
<1>6. ValidationsCount'
  BY <1>1 DEF ReworkInv, ValidationsCount, Counted, At, AtRouter, None
<1>7. RoutesCount'
  BY <1>1 DEF RoutesCount, Counted, At, AtRouter
<1> QED
  BY <1>2, <1>3, <1>4, <1>5, <1>6, <1>7 DEF ReworkInv

\* What the router stores leaves the stories and their counts alone.
Routing(ps) ==
    \A w \in ps : \/ w[1] \in {"phase", "route"}
                  \/ w = <<"active", flow.story>>

LEMMA RouterFacts ==
    ASSUME ReworkInv, AtRouter({"review", "validation", "blocked"}), NEW ps, Routing(ps), NEW next, Does(ps, next)
    PROVE  /\ KeysShape /\ KeysShape' /\ keys'.active = keys.active /\ keys'.queue = keys.queue
           /\ keys'.validation = keys.validation /\ keys'.reviews = keys.reviews
           /\ keys'.validations = keys.validations
           /\ keys.active = flow.story /\ Sent \in Nat /\ retries \in Nat /\ keys.reviews \in Nat
           /\ keys.validations \in Nat /\ keys.route.review \in Nat /\ keys.route.validation \in Nat
           /\ FlowShape(flow)
<1>1. keys.active = flow.story /\ KeysShape
  BY WorkFacts DEF AtRouter, At, WorkStep
<1>2. /\ KeysShape' /\ \A k \in {"active", "queue", "validation", "reviews", "validations"} : keys'[k] = keys[k]
  BY <1>1 DEF Does, Stores, Routing, KeyName
<1> QED
  BY <1>1, <1>2, SentFacts DEF ReworkInv, ReworkShapes

LEMMA ReplayKeepsRework == ReworkInv /\ ReplayRoute => ReworkInv'
<1> SUFFICES ASSUME ReworkInv, ReplayRoute PROVE ReworkInv'
  OBVIOUS
<1> DEFINE target == keys.route.target
           ps == {<<"phase", "router">>, <<"active", flow.story>>, <<"phase", target>>}
           next == StepAt(target, flow.story, None)
<1>1. /\ flow.step = "router" /\ flow.reason \in {"review", "validation"} /\ AtRouter({"review", "validation"})
      /\ AtRouter({"review", "validation", "blocked"}) /\ RouteAgain(flow.reason) /\ Follow(target) /\ KeysShape
  BY WorkFacts DEF ReplayRoute, Doing, AtRouter
<1>2. Does(ps, next)
  <2> DEFINE a == <<"phase", "router">>  b == <<"active", flow.story>>  c == <<"phase", target>>
  <2>1. Handler(<<a, b, c>>, next)
    BY DEF ReplayRoute
  <2> HIDE DEF a, b, c
  <2>2. Writes(<<a, b, c>>) /\ Pairs(<<a, b, c>>) = {a, b, c}
    BY PairsOf
  <2>3. Does({a, b, c}, next)
    BY <1>1, <2>1, <2>2, HandlerDoes
  <2> QED
    BY <2>3 DEF a, b, c
<1>3. Routing(ps)
  BY DEF Routing
<1>4. /\ KeysShape /\ KeysShape' /\ keys'.active = keys.active /\ keys'.queue = keys.queue
      /\ keys'.validation = keys.validation /\ keys'.reviews = keys.reviews
      /\ keys'.validations = keys.validations
      /\ keys.active = flow.story /\ Sent \in Nat /\ retries \in Nat /\ keys.reviews \in Nat
      /\ keys.validations \in Nat /\ keys.route.review \in Nat /\ keys.route.validation \in Nat
      /\ FlowShape(flow)
  BY <1>1, <1>2, <1>3, RouterFacts
<1>5. keys'.route = keys.route
  BY <1>2 DEF Does, Stores, KeyName
<1>6. Counted(keys.route)
  <2>1. keys.route.reason = flow.reason /\ keys.route.route \in {"retrying", "doctoring"} /\ keys.route.story = flow.story
    BY <1>1 DEF RouteAgain, ReworkInv, RouteFits, At, None
  <2>2. keys.route.route = "doctoring" => keys.route.target = "doctor" /\ flow.reason = "validation"
    BY <2>1 DEF ReworkInv, RouteFits
  <2>3. ASSUME keys.route.route = "retrying"
        PROVE  /\ keys.route.target = "green" /\ Sent <= keys.route.review + retries
               /\ flow.reason = "review" => keys.route.review < MaxReviews /\ Sent + 1 <= keys.route.review + retries
    <3>1. keys.route.target = "green" /\ (flow.reason = "review" => keys.route.review < MaxReviews)
      BY <2>1, <2>3 DEF ReworkInv, RouteFits
    <3>2. keys.phase \in {"green", "router"}
      BY <1>1, <2>3, <3>1 DEF RouteAgain
    <3>3. At(WorkStep) /\ (flow.reason = "review" => AtRouter({"review"}))
      BY <1>1 DEF At, AtRouter, WorkStep
    <3> QED
      BY <2>3, <3>1, <3>2, <3>3 DEF ReworkInv, RoutesCount
  <2> QED
    BY <1>4, <2>1, <2>2, <2>3 DEF Counted
<1>7. target \in {"green", "doctor"}
  BY <1>6 DEF Counted
<1>8. CASE Ends(ps, next)
  <2>1. /\ FlowShape(flow') /\ flow'.step = target /\ flow'.story = flow.story /\ retries' = retries
    BY <1>8, PlaceFacts DEF Ends
  <2>2. Counted(keys'.route) /\ Follow(keys'.route.target) /\ flow'.step = keys'.route.target
    BY <1>1, <1>5, <1>6, <2>1
  <2> QED
    BY <1>1, <1>4, <2>1, <2>2, TakesRoute
<1>9. CASE Breaks
  <2>1. /\ FlowShape(flow') /\ flow'.step = flow.step /\ flow'.story = flow.story /\ flow'.reason = flow.reason
        /\ retries' = retries + 1
    BY <1>9, StatusFacts DEF Breaks
  <2>2. UNCHANGED routed
    BY <1>1, <1>7, <2>1 DEF Follow
  <2> QED
    BY <1>1, <1>4, <1>5, <2>1, <2>2, StaysAtWork DEF At
<1> QED
  BY <1>2, <1>8, <1>9 DEF Does

LEMMA BlockedRouteKeepsRework == ReworkInv /\ RouteBlocked => ReworkInv'
<1> SUFFICES ASSUME ReworkInv, RouteBlocked PROVE ReworkInv'
  OBVIOUS
<1> DEFINE r == [NoRoute EXCEPT !.route = "blocked", !.story = flow.story]
           ps == {<<"phase", "router">>, <<"active", flow.story>>, <<"route", r>>}
<1>1. /\ flow.step = "router" /\ flow.reason = "blocked" /\ AtRouter({"blocked"})
      /\ AtRouter({"review", "validation", "blocked"}) /\ UNCHANGED routed /\ KeysShape
  BY WorkFacts DEF RouteBlocked, Doing, AtRouter
<1>2. Does(ps, Failed)
  <2> DEFINE a == <<"phase", "router">>  b == <<"active", flow.story>>  c == <<"route", r>>
  <2>1. Handler(<<a, b, c>>, Failed)
    BY DEF RouteBlocked
  <2> HIDE DEF a, b, c
  <2>2. Writes(<<a, b, c>>) /\ Pairs(<<a, b, c>>) = {a, b, c}
    BY PairsOf
  <2>3. Does({a, b, c}, Failed)
    BY <1>1, <2>1, <2>2, HandlerDoes
  <2> QED
    BY <2>3 DEF a, b, c
<1>3. r.route = "blocked" /\ r.story = flow.story /\ r.review = 0 /\ r.validation = 0
  BY DEF NoRoute
<1> HIDE DEF r
<1>4. Routing(ps)
  BY DEF Routing
<1>5. /\ KeysShape /\ KeysShape' /\ keys'.active = keys.active /\ keys'.queue = keys.queue
      /\ keys'.validation = keys.validation /\ keys'.reviews = keys.reviews
      /\ keys'.validations = keys.validations /\ keys.reviews \in Nat /\ keys.validations \in Nat
  BY <1>1, <1>2, <1>4, RouterFacts
<1>6. keys'.route \in {keys.route, r}
  BY <1>2 DEF Does, Stores, KeyName
<1>7. /\ FlowShape(flow') /\ flow'.step = flow.step /\ flow'.story = flow.story /\ flow'.reason = flow.reason
      /\ retries' \in {retries, retries + 1}
  BY <1>2, StatusFacts DEF Does, Ends, Breaks, Failed
<1>8. CASE keys'.route = keys.route
  BY <1>1, <1>5, <1>7, <1>8, StaysAtWork DEF At, AtRouter
<1>9. CASE keys'.route = r
  BY <1>1, <1>3, <1>5, <1>7, <1>9, StoresRoute
<1> QED
  BY <1>6, <1>8, <1>9

LEMMA ReviewCounts ==
    ASSUME ReworkInv, AtRouter({"review"}), ~Exhausted("review")
    PROVE  LET before == RetryCounts("review")
           IN  /\ before = [review |-> before.review, validation |-> before.validation]
               /\ before.review \in Nat /\ before.validation \in Nat
               /\ Sent <= before.review + retries
<1>1. /\ Sent \in Nat /\ retries \in Nat /\ keys.reviews \in Nat /\ keys.route.review \in Nat /\ keys.route.validation \in Nat
      /\ Sent + 1 <= keys.reviews /\ keys.active = flow.story
  BY SentFacts, WorkFacts DEF ReworkInv, ReworkShapes, ReviewsCount, AtRouter, At, WorkStep
<1> DEFINE fallback == [review |-> Before(keys.reviews), validation |-> 0]
           routes == [review |-> keys.route.review, validation |-> keys.route.validation]
<1>2. Before(keys.reviews) \in Nat /\ Sent <= Before(keys.reviews)
  BY <1>1 DEF Before
<1>3. keys.route.route \in {None, "retrying"} /\ (keys.route.route # None => keys.route.story = keys.active)
  BY <1>1 DEF ReworkInv, RouteFits, AtRouter, At, Exhausted
<1>4. keys.route.route = "retrying" => Sent <= keys.route.review + retries
  BY DEF ReworkInv, RoutesCount, AtRouter, At, WorkStep
<1>5. RetryCounts("review") = fallback \/ (keys.route.route = "retrying" /\ RetryCounts("review") = routes)
  BY <1>3 DEF RetryCounts, None
<1>6. /\ fallback = [review |-> fallback.review, validation |-> fallback.validation]
      /\ fallback.review = Before(keys.reviews) /\ fallback.validation = 0
      /\ routes = [review |-> routes.review, validation |-> routes.validation]
      /\ routes.review = keys.route.review /\ routes.validation = keys.route.validation
  OBVIOUS
<1> HIDE DEF fallback, routes
<1>7. CASE RetryCounts("review") = fallback
  BY <1>1, <1>2, <1>6, <1>7
<1>8. CASE keys.route.route = "retrying" /\ RetryCounts("review") = routes
  BY <1>1, <1>4, <1>6, <1>8
<1> QED
  BY <1>5, <1>7, <1>8

\* Counts that forget the reviews count three validations.
LEMMA ValidationCounts ==
    ASSUME ReworkInv, AtRouter({"validation"}), ~Exhausted("validation"), ~RouteAgain("validation")
    PROVE  LET before == RetryCounts("validation")
           IN  /\ before = [review |-> before.review, validation |-> before.validation]
               /\ before.review \in Nat /\ before.validation \in Nat
               /\ before.validation + 1 < DoctorAt /\ before.validation + 1 < MaxValidations
                    => Sent <= before.review + retries
<1>1. /\ Sent \in Nat /\ retries \in Nat /\ keys.validations \in Nat /\ keys.route.review \in Nat
      /\ keys.route.validation \in Nat /\ Sent + 1 <= keys.validations /\ keys.active = flow.story
  BY SentFacts, WorkFacts DEF ReworkInv, ReworkShapes, ValidationsCount, AtRouter, At, WorkStep
<1> DEFINE fallback == [review |-> 0, validation |-> Before(keys.validations)]
           routes == [review |-> keys.route.review, validation |-> keys.route.validation]
<1>2. Before(keys.validations) \in Nat /\ Before(keys.validations) + 1 = keys.validations
  BY <1>1 DEF Before
<1>3. keys.route.route \in {None, "retrying"} /\ (keys.route.route # None => keys.route.story = keys.active)
  BY <1>1 DEF ReworkInv, RouteFits, AtRouter, At, Exhausted, RouteAgain, LatestEvidence
<1>4. keys.route.route = "retrying" => Sent <= keys.route.review + retries
  BY DEF ReworkInv, RoutesCount, AtRouter, At, WorkStep
<1>5. \/ /\ RetryCounts("validation") = fallback
         /\ keys.route.route = None \/ (keys.route.reason = "validation" /\ keys.route.evidence # keys.validation)
      \/ keys.route.route = "retrying" /\ RetryCounts("validation") = routes
  BY <1>3 DEF RetryCounts, LatestEvidence, None
<1>6. /\ fallback = [review |-> fallback.review, validation |-> fallback.validation]
      /\ fallback.review = 0 /\ fallback.validation = Before(keys.validations)
      /\ routes = [review |-> routes.review, validation |-> routes.validation]
      /\ routes.review = keys.route.review /\ routes.validation = keys.route.validation
  OBVIOUS
<1> HIDE DEF fallback, routes
<1>7. CASE /\ RetryCounts("validation") = fallback
           /\ keys.route.route = None \/ (keys.route.reason = "validation" /\ keys.route.evidence # keys.validation)
  <2>1. Sent = 0 \/ Sent + 2 <= keys.validations
    BY <1>1, <1>7 DEF ReworkInv, ValidationsCount
  <2>2. keys.validations < DoctorAt /\ keys.validations < MaxValidations => keys.validations < 3
    BY <1>1, StoryLimits
  <2>3. keys.validations < DoctorAt /\ keys.validations < MaxValidations => Sent = 0
    BY <1>1, <2>1, <2>2
  <2> QED
    BY <1>1, <1>2, <1>6, <1>7, <2>3
<1>8. CASE keys.route.route = "retrying" /\ RetryCounts("validation") = routes
  BY <1>1, <1>4, <1>6, <1>8
<1> QED
  BY <1>5, <1>7, <1>8

\* The router stores the route it decided on and takes it, or stays where it is.
LEMMA RouterKeepsRework ==
    ASSUME ReworkInv, AtRouter({"review", "validation"}), NEW r, NEW target,
           Counted(r), r.target = target, r.evidence = LatestEvidence(flow.reason),
           Handler(<< <<"phase", "router">>, <<"active", flow.story>>, <<"phase", target>>, <<"route", r>> >>,
                   StepAt(target, flow.story, None)),
           Follow(target)
    PROVE  ReworkInv'
<1> DEFINE a == <<"phase", "router">>  b == <<"active", flow.story>>  c == <<"phase", target>>  d == <<"route", r>>
           ps == {a, b, c, d}
           next == StepAt(target, flow.story, None)
<1>1. /\ flow.step = "router" /\ flow.reason \in {"review", "validation"} /\ KeysShape
      /\ AtRouter({"review", "validation", "blocked"}) /\ ~AtRouter({"blocked"}) /\ ~At({"review"})
      /\ target \in {"green", "doctor"} /\ (flow.reason = "validation" => r.evidence = keys.validation)
  BY WorkFacts DEF AtRouter, At, Counted, LatestEvidence
<1>2. Does(ps, next)
  <2>1. Handler(<<a, b, c, d>>, next)
    OBVIOUS
  <2> HIDE DEF a, b, c, d, next
  <2>2. Writes(<<a, b, c, d>>) /\ Pairs(<<a, b, c, d>>) = {a, b, c, d}
    BY PairsOf
  <2> QED
    BY <1>1, <2>1, <2>2, HandlerDoes
<1>3. Routing(ps)
  BY DEF Routing
<1>4. /\ KeysShape /\ KeysShape' /\ keys'.active = keys.active /\ keys'.queue = keys.queue
      /\ keys'.validation = keys.validation /\ keys'.reviews = keys.reviews
      /\ keys'.validations = keys.validations /\ keys.reviews \in Nat /\ keys.validations \in Nat
  BY <1>1, <1>2, <1>3, RouterFacts
<1>5. keys'.route \in {keys.route, r}
  BY <1>2 DEF Does, Stores, KeyName
<1>6. CASE Ends(ps, next)
  <2>1. keys'["route"] = r
    <3>1. <<"route", r>> \in ps /\ "route" \in KeyName /\ \A w \in ps : w[1] = "route" => w[2] = r
      BY DEF KeyName
    <3> HIDE DEF ps, next
    <3> QED
      BY <1>6, <3>1, Stored1
  <2>2. /\ FlowShape(flow') /\ flow'.step = target /\ flow'.story = flow.story /\ retries' = retries
    BY <1>6, PlaceFacts DEF Ends
  <2>3. Counted(keys'.route) /\ Follow(keys'.route.target) /\ flow'.step = keys'.route.target
    BY <2>1, <2>2
  <2> QED
    BY <1>4, <2>2, <2>3, TakesRoute
<1>7. CASE Breaks
  <2>1. /\ FlowShape(flow') /\ flow'.step = flow.step /\ flow'.story = flow.story /\ flow'.reason = flow.reason
        /\ retries' = retries + 1
    BY <1>7, StatusFacts DEF Breaks
  <2>2. UNCHANGED routed
    BY <1>1, <2>1 DEF Follow
  <2>3. CASE keys'.route = keys.route
    BY <1>1, <1>4, <2>1, <2>2, <2>3, StaysAtWork
  <2>4. CASE keys'.route = r
    <3>1. Counted(keys'.route) /\ keys'.route.story = flow.story /\ keys'.route.review \in Nat
          /\ keys'.route.validation \in Nat /\ (flow.reason = "validation" => keys'.route.evidence = keys.validation)
      BY <1>1, <2>4 DEF Counted
    <3> QED
      BY <1>1, <1>4, <2>1, <2>2, <3>1, StoresRoute
  <2> QED
    BY <1>5, <2>3, <2>4
<1> QED
  BY <1>2, <1>6, <1>7 DEF Does

\* A failure that exhausts the story, now or before.
LEMMA ExhaustedKeepsRework ==
    ASSUME ReworkInv, AtRouter({"review", "validation"}), UNCHANGED routed,
           \/ Exhausted(flow.reason) /\ Handler(<< <<"phase", "router">> >>, Failed)
           \/ \E r : /\ r.route = "exhausted" /\ r.reason = flow.reason /\ r.story = flow.story
                     /\ r.review \in Nat /\ r.validation \in Nat /\ r.evidence = LatestEvidence(flow.reason)
                     /\ Handler(<< <<"phase", "router">>, <<"route", r>> >>, Failed)
    PROVE  ReworkInv'
<1>1. /\ flow.step = "router" /\ flow.reason \in {"review", "validation"} /\ KeysShape
      /\ AtRouter({"review", "validation", "blocked"}) /\ ~AtRouter({"blocked"}) /\ ~At({"review"})
  BY WorkFacts DEF AtRouter, At
<1>2. CASE Exhausted(flow.reason) /\ Handler(<< <<"phase", "router">> >>, Failed)
  <2>1. Does({<<"phase", "router">>}, Failed)
    BY <1>1, <1>2, PairsOf, HandlerDoes
  <2>2. Harmless({<<"phase", "router">>}) /\ (Breaks \/ flow' = Failed) /\ keys.route.route # "retrying"
    BY <1>2, <2>1 DEF Harmless, Does, Ends, Exhausted
  <2>3. \A w \in {<<"phase", "router">>} : w[1] # "validation"
    OBVIOUS
  <2> QED
    BY <1>1, <2>1, <2>2, <2>3, BreaksQuietly
<1>3. ASSUME NEW r, r.route = "exhausted", r.reason = flow.reason, r.story = flow.story,
             r.review \in Nat, r.validation \in Nat, r.evidence = LatestEvidence(flow.reason),
             Handler(<< <<"phase", "router">>, <<"route", r>> >>, Failed)
      PROVE  ReworkInv'
  <2> DEFINE ps == {<<"phase", "router">>, <<"route", r>>}
  <2>1. Does(ps, Failed)
    BY <1>1, <1>3, PairsOf, HandlerDoes
  <2>2. Routing(ps)
    BY DEF Routing
  <2>3. /\ KeysShape /\ KeysShape' /\ keys'.active = keys.active /\ keys'.queue = keys.queue
        /\ keys'.validation = keys.validation /\ keys'.reviews = keys.reviews
        /\ keys'.validations = keys.validations /\ keys.reviews \in Nat /\ keys.validations \in Nat
    BY <1>1, <2>1, <2>2, RouterFacts
  <2>4. keys'.route \in {keys.route, r} /\ (Ends(ps, Failed) => keys'.route = r)
    <3>1. keys'.route \in {keys.route, r}
      BY <2>1 DEF Does, Stores, KeyName
    <3>2. ASSUME Ends(ps, Failed) PROVE keys'["route"] = r
      <4>1. <<"route", r>> \in ps /\ "route" \in KeyName /\ \A w \in ps : w[1] = "route" => w[2] = r
        BY DEF KeyName
      <4> HIDE DEF ps
      <4> QED
        BY <3>2, <4>1, Stored1
    <3> QED
      BY <3>1, <3>2
  <2>5. /\ FlowShape(flow') /\ flow'.step = flow.step /\ flow'.story = flow.story /\ flow'.reason = flow.reason
        /\ retries' \in {retries, retries + 1} /\ (Breaks => retries' = retries + 1)
    <3>1. PICK status : flow' = [flow EXCEPT !.status = status]
      BY <2>1 DEF Does, Ends, Breaks, Failed
    <3>2. retries' \in {retries, retries + 1} /\ (Breaks => retries' = retries + 1)
      BY <2>1 DEF Does, Ends, Breaks
    <3> QED
      BY <3>1, <3>2, StatusFacts
  <2>6. CASE keys'.route = r
    <3>1. flow.reason = "validation" => keys'.route.evidence = keys.validation
      BY <1>3, <2>6 DEF LatestEvidence
    <3> QED
      BY <1>1, <1>3, <2>3, <2>5, <2>6, <3>1, StoresRoute
  <2>7. CASE keys'.route = keys.route /\ Breaks
    BY <1>1, <2>3, <2>5, <2>7, StaysAtWork
  <2> QED
    BY <2>1, <2>4, <2>6, <2>7 DEF Does
<1> QED
  BY <1>2, <1>3

LEMMA StaysFollows ==
    ASSUME ReworkInv, flow.step = "router", NEW ws, Handler(ws, Failed), NEW target, Follow(target),
           target \in {"green", "doctor"}
    PROVE  UNCHANGED routed
<1>1. flow'.step = "router"
  BY StatusFacts DEF Handler, Failed
<1> QED
  BY <1>1 DEF Follow

LEMMA FailedReviewKeepsRework == ReworkInv /\ RouteFailedReview => ReworkInv'
<1> SUFFICES ASSUME ReworkInv, RouteFailedReview PROVE ReworkInv'
  OBVIOUS
<1> DEFINE before == RetryCounts("review")
           counts == [before EXCEPT !.review = @ + 1]
           retrying == Route("retrying", "green", "review", counts)
           exhausted == Route("exhausted", None, "review", counts)
<1>1. /\ flow.step = "router" /\ flow.reason = "review" /\ AtRouter({"review"}) /\ AtRouter({"review", "validation"})
      /\ Follow("green")
  BY DEF RouteFailedReview, Doing, AtRouter
<1>2. CASE Exhausted("review")
  <2>1. Handler(<< <<"phase", "router">> >>, Failed)
    BY <1>2 DEF RouteFailedReview
  <2> QED
    BY <1>1, <1>2, <2>1, StaysFollows, ExhaustedKeepsRework
<1>3. CASE ~Exhausted("review")
  <2>1. /\ before = [review |-> before.review, validation |-> before.validation]
        /\ before.review \in Nat /\ before.validation \in Nat /\ Sent <= before.review + retries
        /\ Sent \in Nat /\ retries \in Nat
    BY <1>1, <1>3, ReviewCounts, SentFacts DEF ReworkInv, ReworkShapes
  <2>2. counts.review = before.review + 1 /\ counts.validation = before.validation
    BY <2>1
  <2>3. counts.review \in Nat /\ counts.validation \in Nat /\ Sent + 1 <= counts.review + retries
    BY <2>1, <2>2
  <2>4. /\ retrying.route = "retrying" /\ retrying.target = "green" /\ retrying.reason = "review"
        /\ retrying.story = flow.story /\ retrying.review = counts.review
        /\ retrying.validation = counts.validation /\ retrying.evidence = LatestEvidence("review")
        /\ exhausted.route = "exhausted" /\ exhausted.reason = "review"
        /\ exhausted.story = flow.story /\ exhausted.review = counts.review
        /\ exhausted.validation = counts.validation /\ exhausted.evidence = LatestEvidence("review")
    BY DEF Route
  <2>5. IF counts.review >= MaxReviews
        THEN Handler(<< <<"phase", "router">>, <<"route", exhausted>> >>, Failed)
        ELSE Handler(<< <<"phase", "router">>, <<"active", flow.story>>, <<"phase", "green">>,
                        <<"route", retrying>> >>, StepAt("green", flow.story, None))
    BY <1>3 DEF RouteFailedReview
  <2> HIDE DEF before, counts, retrying, exhausted
  <2>6. CASE counts.review >= MaxReviews
    <3>1. Handler(<< <<"phase", "router">>, <<"route", exhausted>> >>, Failed)
      BY <2>5, <2>6
    <3>2. UNCHANGED routed
      BY <1>1, <3>1, StaysFollows
    <3> QED
      BY <1>1, <2>3, <2>4, <3>1, <3>2, ExhaustedKeepsRework
  <2>7. CASE ~(counts.review >= MaxReviews)
    <3>1. Handler(<< <<"phase", "router">>, <<"active", flow.story>>, <<"phase", "green">>,
                     <<"route", retrying>> >>, StepAt("green", flow.story, None))
      BY <2>5, <2>7
    <3>2. counts.review < MaxReviews
      BY <2>3, <2>7, StoryLimits
    <3>3. Counted(retrying)
      BY <1>1, <2>3, <2>4, <3>2 DEF Counted
    <3> QED
      BY <1>1, <2>4, <3>1, <3>3, RouterKeepsRework
  <2> QED
    BY <2>6, <2>7
<1> QED
  BY <1>2, <1>3

LEMMA FailedValidationKeepsRework == ReworkInv /\ RouteFailedValidation => ReworkInv'
<1> SUFFICES ASSUME ReworkInv, RouteFailedValidation PROVE ReworkInv'
  OBVIOUS
<1> DEFINE before == RetryCounts("validation")
           counts == [before EXCEPT !.validation = @ + 1]
           doctor == counts.validation >= DoctorAt
           target == IF doctor THEN "doctor" ELSE "green"
           route == Route(IF doctor THEN "doctoring" ELSE "retrying", target, "validation", counts)
           exhausted == Route("exhausted", None, "validation", counts)
<1>1. /\ flow.step = "router" /\ flow.reason = "validation" /\ AtRouter({"validation"}) /\ AtRouter({"review", "validation"})
      /\ ~RouteAgain("validation") /\ Follow(target) /\ target \in {"green", "doctor"}
  BY DEF RouteFailedValidation, Doing, AtRouter
<1>2. CASE Exhausted("validation")
  <2>1. Handler(<< <<"phase", "router">> >>, Failed)
    BY <1>2 DEF RouteFailedValidation
  <2> HIDE DEF target
  <2> QED
    BY <1>1, <1>2, <2>1, StaysFollows, ExhaustedKeepsRework
<1>3. CASE ~Exhausted("validation")
  <2>1. /\ before = [review |-> before.review, validation |-> before.validation]
        /\ before.review \in Nat /\ before.validation \in Nat
        /\ before.validation + 1 < DoctorAt /\ before.validation + 1 < MaxValidations => Sent <= before.review + retries
    BY <1>1, <1>3, ValidationCounts
  <2>2. counts.review = before.review /\ counts.validation = before.validation + 1
    BY <2>1
  <2>3. /\ counts.review \in Nat /\ counts.validation \in Nat
        /\ counts.validation < DoctorAt /\ counts.validation < MaxValidations => Sent <= counts.review + retries
    BY <2>1, <2>2
  <2>4. /\ IF doctor THEN route.route = "doctoring" /\ route.target = "doctor"
                     ELSE route.route = "retrying" /\ route.target = "green"
        /\ route.target = target /\ route.reason = "validation"
        /\ route.story = flow.story /\ route.review = counts.review
        /\ route.validation = counts.validation /\ route.evidence = LatestEvidence("validation")
        /\ exhausted.route = "exhausted" /\ exhausted.reason = "validation"
        /\ exhausted.story = flow.story /\ exhausted.review = counts.review
        /\ exhausted.validation = counts.validation /\ exhausted.evidence = LatestEvidence("validation")
    BY DEF Route
  <2>5. IF counts.validation >= MaxValidations
        THEN Handler(<< <<"phase", "router">>, <<"route", exhausted>> >>, Failed)
        ELSE Handler(<< <<"phase", "router">>, <<"active", flow.story>>, <<"phase", target>>,
                        <<"route", route>> >>, StepAt(target, flow.story, None))
    BY <1>3 DEF RouteFailedValidation
  <2>6. doctor \/ counts.validation < DoctorAt
    BY <2>3, StoryLimits
  <2> HIDE DEF before, counts, doctor, target, route, exhausted
  <2>7. CASE counts.validation >= MaxValidations
    <3>1. Handler(<< <<"phase", "router">>, <<"route", exhausted>> >>, Failed)
      BY <2>5, <2>7
    <3>2. UNCHANGED routed
      BY <1>1, <3>1, StaysFollows
    <3> QED
      BY <1>1, <2>3, <2>4, <3>1, <3>2, ExhaustedKeepsRework
  <2>8. CASE ~(counts.validation >= MaxValidations)
    <3>1. Handler(<< <<"phase", "router">>, <<"active", flow.story>>, <<"phase", target>>,
                     <<"route", route>> >>, StepAt(target, flow.story, None))
      BY <2>5, <2>8
    <3>2. counts.validation < MaxValidations
      BY <2>3, <2>8, StoryLimits
    <3>3. Counted(route)
      BY <1>1, <2>3, <2>4, <2>6, <3>2 DEF Counted
    <3> QED
      BY <1>1, <2>4, <3>1, <3>3, RouterKeepsRework
  <2> QED
    BY <2>7, <2>8
<1> QED
  BY <1>2, <1>3

LEMMA ReworkInitially == SFInit => ReworkInv
<1> SUFFICES ASSUME SFInit PROVE ReworkInv
  OBVIOUS
<1>1. /\ flow.step = "strategy" /\ FlowShape(flow) /\ KeysShape /\ routed = {} /\ retries = 0
      /\ keys.queue = {} /\ keys.reviews = 0 /\ keys.validations = 0 /\ keys.route = NoRoute
  <2>1. FlowShape(flow) /\ flow.step = "strategy" /\ routed = {} /\ retries = 0
    BY DEF SFInit, FlowShape, FlowKey
  <2>2. PICK input \in FlowInput :
           keys = [active |-> 0, context |-> 0, queue |-> {}, contexts |-> {},
                   completed |-> {}, phase |-> None, validations |-> 0, reviews |-> 0,
                   route |-> NoRoute, review |-> None, validation |-> None,
                   auto |-> input.auto, checkpoint |-> input.checkpoint, skip |-> FALSE]
    BY DEF SFInit
  <2>3. keys.queue = {} /\ keys.reviews = 0 /\ keys.validations = 0 /\ keys.route = NoRoute
    BY <2>2
  <2>4. KeysShape
    BY <2>2 DEF KeysShape, KeyName
  <2> QED
    BY <2>1, <2>3, <2>4
<1>2. /\ NoRoute.route = None /\ NoRoute.reason = None /\ NoRoute.review = 0 /\ NoRoute.validation = 0
  BY DEF NoRoute
<1>3. ReworkShapes /\ ReworkIsBounded
  BY <1>1, <1>2, FS_EmptySet DEF ReworkShapes, ReworkIsBounded
<1>4. RouteFits /\ RoutesCount
  BY <1>1, <1>2 DEF RouteFits, RoutesCount, None
<1>5. StoriesFit /\ ReviewsCount /\ ValidationsCount
  BY <1>1, <1>2 DEF StoriesFit, ReviewsCount, ValidationsCount, At, AtRouter, Starting, WorkStep
<1> QED
  BY <1>3, <1>4, <1>5 DEF ReworkInv

\* A review sends a story back MaxReviews - 1 times at most, and once more for each
\* interruption, whatever validations failed in between and whoever settled the route.
THEOREM ReworkStaysBounded == SFSpec => []ReworkIsBounded
<1>1. ReworkInv /\ [SFNext]_sfVars => ReworkInv'
  <2> SUFFICES ASSUME ReworkInv, [SFNext]_sfVars PROVE ReworkInv'
    OBVIOUS
  <2>1. CASE UNCHANGED sfVars
    <3>1. retries \in Nat /\ keys.reviews \in Nat /\ keys.validations \in Nat /\ FlowShape(flow) /\ KeysShape
      BY WorkFacts
    <3>2. /\ UNCHANGED routed /\ flow' = flow /\ keys' = keys /\ retries' = retries
      BY <2>1 DEF sfVars
    <3> QED
      BY <3>1, <3>2, StaysAtWork DEF KeysShape
  <2>2. CASE SFNext
    BY <2>2, PlanningKeepsRework, ReplayKeepsRework, FailedReviewKeepsRework, FailedValidationKeepsRework,
       BlockedRouteKeepsRework, RouteStoryKeepsRework, PreflightKeepsRework, ImplementKeepsRework,
       ValidateKeepsRework, ReviewKeepsRework, CommitKeepsRework, RetryKeepsRework DEF SFNext
  <2> QED
    BY <2>1, <2>2
<1>2. ReworkInv => ReworkIsBounded
  BY DEF ReworkInv
<1> QED
  BY <1>1, <1>2, ReworkInitially, PTL DEF SFSpec


(***************************************************************************)
(* InteractiveSession.                                                     *)
(***************************************************************************)
SessionAnswer == [valid : BOOLEAN, by : {"nobody", "agent", "command"}]
DriverPlace ==
    {"off", "dispatch", "prepare", "preparing", "spawn", "racing", "read", "readOutput", "took",
     "record", "next", "failed", "stopped", "dead", "polling", "reread", "refused", "notDangling"}
CommandPlace == {"idle", "selected", "loaded", "refused", "validated", "written", "reported"}
DriverRecord == [pc : DriverPlace, round : 1 .. MaxRounds, took : SessionAnswer]
OpenerPlace == {"off", "resolve", "create", "launch", "attached", "thrown", "completed", "failed"}

\* The variables of the session, each in the values the code can give it.
SessionTypes ==
    /\ protocol \in {"none", "torn", "active"} \cup Ended
    /\ answer \in SessionAnswer
    /\ cli \in {"none", "running", "ok", "bad"} /\ strays \in BOOLEAN
    /\ session \in DriverRecord
    /\ command \in [Submitter -> [pc : CommandPlace, out : SessionAnswer]]
    /\ told \in BOOLEAN
    /\ opened \in [pc : OpenerPlace, record : {"none", "launching", "completed", "failed"}, tried : Nat]

\* What a continue holds for writing fits the schema.
HeldIsValid == \A s \in Submitter : command[s].pc = "validated" => command[s].out.valid

\* Where the driver is, or the resume in its place, once the user was told: the
\* files say completed, and the answer in them fits.
ToldPlace == {"racing", "read", "readOutput", "took", "record", "next", "dead", "polling",
              "reread", "notDangling"}
ToldIsKept == told => protocol = "completed" /\ answer.valid /\ session.pc \in ToldPlace

SessionInv == SessionTypes /\ HeldIsValid /\ ToldIsKept

LEMMA SessionInitially == ISInit => SessionInv
<1> SUFFICES ASSUME ISInit PROVE SessionInv
  OBVIOUS
<1>1. NoAnswer \in SessionAnswer /\ 1 \in 1 .. MaxRounds
  BY SessionAssumption DEF NoAnswer, SessionAnswer
<1>2. session \in DriverRecord
  BY <1>1 DEF ISInit, DriverPlace, DriverRecord
<1>3. command \in [Submitter -> [pc : CommandPlace, out : SessionAnswer]] /\ HeldIsValid
  BY <1>1 DEF ISInit, CommandPlace, HeldIsValid
<1>4. opened \in [pc : OpenerPlace, record : {"none", "launching", "completed", "failed"}, tried : Nat]
  BY DEF ISInit, OpenerPlace
<1> QED
  BY <1>1, <1>2, <1>3, <1>4 DEF ISInit, SessionInv, SessionTypes, ToldIsKept, Ended

USE DEF isVars, Driver, Ended, NoAnswer, SessionAnswer, DriverPlace, CommandPlace, OpenerPlace

\* The driver's steps on its own record, the files and the agent.
LEMMA DriverKeepsSession ==
    ASSUME SessionInv,
           \/ SessionStarted \/ PrepareArtifacts \/ SpawnAgent \/ WatcherSees \/ ProcessExits
           \/ ReadProtocol \/ ReadOutput \/ SessionCompleted \/ AttemptAborted \/ AttemptFails
           \/ SessionDriverDies \/ Reattach \/ ContinueAfterPromptPhase
    PROVE  SessionInv'
<1> USE DEF SessionInv, HeldIsValid
<1>1. UNCHANGED command
  BY DEF SessionStarted, PrepareArtifacts, SpawnAgent, WatcherSees, ProcessExits, ReadProtocol, ReadOutput,
     SessionCompleted, AttemptAborted, AttemptFails, SessionDriverDies, Reattach, ContinueAfterPromptPhase
<1>2. HeldIsValid'
  BY <1>1
<1>s. /\ SessionTypes /\ ToldIsKept /\ session \in DriverRecord /\ answer \in SessionAnswer
      /\ protocol \in {"none", "torn", "active"} \cup Ended /\ cli \in {"none", "running", "ok", "bad"}
      /\ strays \in BOOLEAN /\ told \in BOOLEAN
  BY DEF SessionTypes
<1>a. session.pc \in DriverPlace
  BY <1>s DEF DriverRecord
<1>3. CASE SessionStarted
  <2>1. session' \in DriverRecord /\ session'.pc \in {"prepare"}
    BY <1>s, <1>3 DEF SessionStarted, DriverRecord
  <2>2. protocol' \in {"none", "torn", "active"} \cup Ended /\ cli' \in {"none", "running", "ok", "bad"}
        /\ strays' \in BOOLEAN
    BY <1>s, <1>3 DEF SessionStarted, Abort
  <2>3. ToldIsKept'
    BY <1>s, <1>3, <2>1 DEF SessionStarted, Abort, ToldIsKept, ToldPlace
  <2> QED
    BY <1>2, <1>s, <1>3, <2>1, <2>2, <2>3 DEF SessionStarted, SessionTypes
<1>4. CASE PrepareArtifacts
  <2>1. session' \in DriverRecord /\ session'.pc \in {"preparing", "spawn"}
    BY <1>s, <1>4 DEF PrepareArtifacts, DriverRecord
  <2>2. protocol' \in {"none", "torn", "active"} \cup Ended /\ cli' \in {"none", "running", "ok", "bad"}
        /\ strays' \in BOOLEAN
    BY <1>s, <1>4 DEF PrepareArtifacts, Abort
  <2>3. ToldIsKept'
    BY <1>s, <1>4, <2>1 DEF PrepareArtifacts, Abort, ToldIsKept, ToldPlace
  <2> QED
    BY <1>2, <1>s, <1>4, <2>1, <2>2, <2>3 DEF PrepareArtifacts, SessionTypes
<1>5. CASE SpawnAgent
  <2>1. session' \in DriverRecord /\ session'.pc \in {"failed", "racing"}
    BY <1>s, <1>5 DEF SpawnAgent, DriverRecord
  <2>2. protocol' \in {"none", "torn", "active"} \cup Ended /\ cli' \in {"none", "running", "ok", "bad"}
        /\ strays' \in BOOLEAN
    BY <1>s, <1>5 DEF SpawnAgent, Abort
  <2>3. ToldIsKept'
    BY <1>s, <1>5, <2>1 DEF SpawnAgent, Abort, ToldIsKept, ToldPlace
  <2> QED
    BY <1>2, <1>s, <1>5, <2>1, <2>2, <2>3 DEF SpawnAgent, SessionTypes
<1>6. CASE WatcherSees
  <2>1. session' \in DriverRecord /\ session'.pc \in {"read"}
    BY <1>s, <1>6 DEF WatcherSees, DriverRecord
  <2>2. protocol' \in {"none", "torn", "active"} \cup Ended /\ cli' \in {"none", "running", "ok", "bad"}
        /\ strays' \in BOOLEAN
    BY <1>s, <1>6 DEF WatcherSees, Abort
  <2>3. ToldIsKept'
    BY <1>s, <1>6, <2>1 DEF WatcherSees, Abort, ToldIsKept, ToldPlace
  <2> QED
    BY <1>2, <1>s, <1>6, <2>1, <2>2, <2>3 DEF WatcherSees, SessionTypes
<1>7. CASE ProcessExits
  <2>1. session' \in DriverRecord /\ session'.pc \in {"read", "failed"}
    BY <1>s, <1>7 DEF ProcessExits, DriverRecord
  <2>2. protocol' \in {"none", "torn", "active"} \cup Ended /\ cli' \in {"none", "running", "ok", "bad"}
        /\ strays' \in BOOLEAN
    BY <1>s, <1>7 DEF ProcessExits, Abort
  <2>3. ToldIsKept'
    BY <1>s, <1>7, <2>1 DEF ProcessExits, Abort, ToldIsKept, ToldPlace
  <2> QED
    BY <1>2, <1>s, <1>7, <2>1, <2>2, <2>3 DEF ProcessExits, SessionTypes
<1>8. CASE ReadProtocol
  <2>1. session' \in DriverRecord /\ session'.pc \in {"readOutput", "failed"}
    BY <1>s, <1>8 DEF ReadProtocol, DriverRecord
  <2>2. protocol' \in {"none", "torn", "active"} \cup Ended /\ cli' \in {"none", "running", "ok", "bad"}
        /\ strays' \in BOOLEAN
    BY <1>s, <1>8 DEF ReadProtocol, Abort
  <2>3. ToldIsKept'
    BY <1>s, <1>8, <2>1 DEF ReadProtocol, Abort, ToldIsKept, ToldPlace
  <2> QED
    BY <1>2, <1>s, <1>8, <2>1, <2>2, <2>3 DEF ReadProtocol, SessionTypes
<1>9. CASE ReadOutput
  <2>1. session' \in DriverRecord /\ session'.pc \in {"took", "failed"}
    BY <1>s, <1>9 DEF ReadOutput, DriverRecord
  <2>2. protocol' \in {"none", "torn", "active"} \cup Ended /\ cli' \in {"none", "running", "ok", "bad"}
        /\ strays' \in BOOLEAN
    BY <1>s, <1>9 DEF ReadOutput, Abort
  <2>3. ToldIsKept'
    BY <1>s, <1>9, <2>1 DEF ReadOutput, Abort, ToldIsKept, ToldPlace
  <2> QED
    BY <1>2, <1>s, <1>9, <2>1, <2>2, <2>3 DEF ReadOutput, SessionTypes
<1>10. CASE SessionCompleted
  <2>1. session' \in DriverRecord /\ session'.pc \in {"record", "next"}
    BY <1>s, <1>10 DEF SessionCompleted, DriverRecord
  <2>2. protocol' \in {"none", "torn", "active"} \cup Ended /\ cli' \in {"none", "running", "ok", "bad"}
        /\ strays' \in BOOLEAN
    BY <1>s, <1>10 DEF SessionCompleted, Abort
  <2>3. ToldIsKept'
    BY <1>s, <1>10, <2>1 DEF SessionCompleted, Abort, ToldIsKept, ToldPlace
  <2> QED
    BY <1>2, <1>s, <1>10, <2>1, <2>2, <2>3 DEF SessionCompleted, SessionTypes
<1>11. CASE AttemptAborted
  <2>1. session' \in DriverRecord /\ session'.pc \in {"failed"}
    BY <1>s, <1>11 DEF AttemptAborted, DriverRecord
  <2>2. protocol' \in {"none", "torn", "active"} \cup Ended /\ cli' \in {"none", "running", "ok", "bad"}
        /\ strays' \in BOOLEAN
    BY <1>s, <1>11 DEF AttemptAborted, Abort
  <2>3. ToldIsKept'
    BY <1>s, <1>11, <2>1 DEF AttemptAborted, Abort, ToldIsKept, ToldPlace
  <2> QED
    BY <1>2, <1>s, <1>11, <2>1, <2>2, <2>3 DEF AttemptAborted, SessionTypes
<1>12. CASE AttemptFails
  <2>1. session' \in DriverRecord /\ session'.pc \in {"dispatch", "stopped"}
    <3>1. PICK r \in 1 .. MaxRounds : session' = [session EXCEPT !.pc = "dispatch", !.round = r]
                                     \/ session' = [session EXCEPT !.pc = "stopped"]
      <4>1. CASE session.round < MaxRounds
        <5>1. session.round + 1 \in 1 .. MaxRounds
          BY <1>s, <4>1, SessionAssumption DEF DriverRecord
        <5> QED
          BY <1>12, <5>1 DEF AttemptFails
      <4>2. CASE ~(session.round < MaxRounds)
        <5>1. 1 \in 1 .. MaxRounds /\ session' = [session EXCEPT !.pc = "stopped"]
          BY <1>12, <4>2, SessionAssumption DEF AttemptFails
        <5> QED
          BY <5>1
      <4> QED
        BY <4>1, <4>2
    <3> QED
      BY <1>s, <3>1 DEF DriverRecord
  <2>2. protocol' \in {"none", "torn", "active"} \cup Ended /\ cli' \in {"none", "running", "ok", "bad"}
        /\ strays' \in BOOLEAN
    BY <1>s, <1>12 DEF AttemptFails, Abort
  <2>3. ToldIsKept'
    BY <1>s, <1>12, <2>1 DEF AttemptFails, Abort, ToldIsKept, ToldPlace
  <2> QED
    BY <1>2, <1>s, <1>12, <2>1, <2>2, <2>3 DEF AttemptFails, SessionTypes
<1>13. CASE SessionDriverDies
  <2>1. session' \in DriverRecord /\ session'.pc \in {"dead"}
    BY <1>s, <1>13 DEF SessionDriverDies, DriverRecord
  <2>2. protocol' \in {"none", "torn", "active"} \cup Ended /\ cli' \in {"none", "running", "ok", "bad"}
        /\ strays' \in BOOLEAN
    BY <1>s, <1>13 DEF SessionDriverDies, Abort
  <2>3. ToldIsKept'
    BY <1>s, <1>13, <2>1 DEF SessionDriverDies, Abort, ToldIsKept, ToldPlace
  <2> QED
    BY <1>2, <1>s, <1>13, <2>1, <2>2, <2>3 DEF SessionDriverDies, SessionTypes
<1>14. CASE Reattach
  <2>1. session' \in DriverRecord /\ session'.pc \in {"polling", "reread", "refused", "notDangling"}
    BY <1>s, <1>14 DEF Reattach, ReadAgain, DriverRecord
  <2>2. protocol' \in {"none", "torn", "active"} \cup Ended /\ cli' \in {"none", "running", "ok", "bad"}
        /\ strays' \in BOOLEAN
    BY <1>s, <1>14 DEF Reattach, Abort
  <2>3. ToldIsKept'
    BY <1>s, <1>14, <2>1 DEF Reattach, Abort, ReadAgain, ToldIsKept, ToldPlace
  <2> QED
    BY <1>2, <1>s, <1>14, <2>1, <2>2, <2>3 DEF Reattach, SessionTypes
<1>15. CASE ContinueAfterPromptPhase
  <2>1. session' \in DriverRecord /\ session'.pc \in {"next", "stopped"}
    BY <1>s, <1>15 DEF ContinueAfterPromptPhase, DriverRecord
  <2>2. protocol' \in {"none", "torn", "active"} \cup Ended /\ cli' \in {"none", "running", "ok", "bad"}
        /\ strays' \in BOOLEAN
    BY <1>s, <1>15 DEF ContinueAfterPromptPhase, Abort
  <2>3. ToldIsKept'
    BY <1>s, <1>15, <2>1 DEF ContinueAfterPromptPhase, Abort, ToldIsKept, ToldPlace
  <2> QED
    BY <1>2, <1>s, <1>15, <2>1, <2>2, <2>3 DEF ContinueAfterPromptPhase, SessionTypes
<1> QED
  BY <1>3, <1>4, <1>5, <1>6, <1>7, <1>8, <1>9, <1>10, <1>11, <1>12, <1>13, <1>14, <1>15

\* The agent and the cancel command.
LEMMA OthersKeepSession ==
    ASSUME SessionInv, AgentWrites \/ AgentExits \/ CancelSession
    PROVE  SessionInv'
<1>h. HeldIsValid'
  BY DEF SessionInv, HeldIsValid, AgentWrites, AgentExits, CancelSession
<1> USE <1>h DEF SessionInv, SessionTypes, ToldIsKept
<1>1. CASE AgentWrites
  <2>1. answer' \in SessionAnswer
    BY <1>1 DEF AgentWrites
  <2> QED
    BY <1>1, <2>1 DEF AgentWrites
<1>2. CASE AgentExits
  <2>1. cli' \in {"none", "running", "ok", "bad"} /\ strays' \in BOOLEAN
    BY <1>2 DEF AgentExits
  <2> QED
    BY <1>2, <2>1 DEF AgentExits
<1>3. CASE CancelSession
  <2>1. protocol' \in {"none", "torn", "active"} \cup Ended /\ told' \in BOOLEAN
    BY <1>3 DEF CancelSession
  <2> QED
    BY <1>3, <2>1 DEF CancelSession
<1> QED
  BY <1>1, <1>2, <1>3

\* A continue: only what was validated is written, and only to an open session that
\* somebody waits for is a completion reported.
LEMMA ContinueKeepsSession ==
    ASSUME SessionInv, NEW s \in Submitter,
           \/ SelectSession(s) \/ LoadSession(s) \/ SubmitOutput(s) \/ WriteOutput(s)
           \/ CompleteSession(s)
    PROVE  SessionInv'
<1> USE DEF SessionInv
<1>1. CASE SelectSession(s)
  BY <1>1 DEF SelectSession, SessionTypes, HeldIsValid, ToldIsKept
<1>2. CASE LoadSession(s)
  BY <1>2 DEF LoadSession, SessionTypes, HeldIsValid, ToldIsKept
<1>3. CASE SubmitOutput(s)
  <2>1. PICK out \in Submission :
          command' = [command EXCEPT ![s] = IF out.valid
                          THEN [pc |-> "validated", out |-> [out EXCEPT !.by = "command"]]
                          ELSE [@ EXCEPT !.pc = "idle"]]
    BY <1>3 DEF SubmitOutput
  <2>2. out \in SessionAnswer
    <3>1. CASE out \in {[valid |-> v, by |-> "command"] : v \in BOOLEAN}
      BY <3>1
    <3>2. CASE out = answer
      BY <3>2 DEF SessionTypes
    <3> QED
      BY <2>1, <3>1, <3>2, Zenon DEF Submission
  <2>3. [out EXCEPT !.by = "command"] \in SessionAnswer /\ [out EXCEPT !.by = "command"].valid = out.valid
    BY <2>2
  <2>4. command' \in [Submitter -> [pc : CommandPlace, out : SessionAnswer]] /\ HeldIsValid'
    BY <2>1, <2>3 DEF SessionTypes, HeldIsValid
  <2> QED
    BY <1>3, <2>4 DEF SubmitOutput, SessionTypes, ToldIsKept
<1>4. CASE WriteOutput(s)
  BY <1>4 DEF WriteOutput, SessionTypes, HeldIsValid, ToldIsKept
<1>5. CASE CompleteSession(s)
  BY <1>5 DEF CompleteSession, SessionTypes, HeldIsValid, ToldIsKept, ToldPlace
<1> QED
  BY <1>1, <1>2, <1>3, <1>4, <1>5

\* trailstep open touches neither the step nor its files.
LEMMA OpenKeepsSession ==
    ASSUME SessionInv, ResolveTarget \/ CreateArtifacts \/ LaunchAgent \/ RecordSession
    PROVE  SessionInv'
<1>1. StepUnchanged
  BY DEF ResolveTarget, CreateArtifacts, LaunchAgent, RecordSession
<1>2. cli' \in {"none", "running", "ok", "bad"}
  BY DEF ResolveTarget, CreateArtifacts, LaunchAgent, RecordSession, SessionInv, SessionTypes
<1>3. opened' \in [pc : OpenerPlace, record : {"none", "launching", "completed", "failed"}, tried : Nat]
  <2> USE DEF SessionInv, SessionTypes, Opener, OpenerPlace
  <2>1. CASE ResolveTarget
    BY <2>1 DEF ResolveTarget
  <2>2. CASE CreateArtifacts
    <3>1. opened.tried + 1 \in Nat
      OBVIOUS
    <3> QED
      BY <2>2, <3>1 DEF CreateArtifacts
  <2>3. CASE LaunchAgent
    BY <2>3 DEF LaunchAgent
  <2>4. CASE RecordSession
    BY <2>4 DEF RecordSession
  <2> QED
    BY <2>1, <2>2, <2>3, <2>4
<1> QED
  BY <1>1, <1>2, <1>3 DEF SessionInv, SessionTypes, HeldIsValid, ToldIsKept, StepUnchanged

LEMMA SessionInductive == SessionInv /\ [ISNext]_isVars => SessionInv'
<1> SUFFICES ASSUME SessionInv, [ISNext]_isVars PROVE SessionInv'
  OBVIOUS
<1>1. CASE UNCHANGED isVars
  BY <1>1 DEF SessionInv, SessionTypes, HeldIsValid, ToldIsKept
<1>2. CASE ISNext
  BY <1>2, DriverKeepsSession, OthersKeepSession, ContinueKeepsSession, OpenKeepsSession DEF ISNext
<1> QED
  BY <1>1, <1>2

\* An answer whose user was told that the session is completed is taken.
THEOREM SessionAnswerTaken == ISSpec => []AnswerIsTaken
<1>1. SessionInv => AnswerIsTaken
  BY DEF SessionInv, SessionTypes, ToldIsKept, AnswerIsTaken, ToldPlace
<1> QED
  BY <1>1, SessionInitially, SessionInductive, PTL DEF ISSpec

=============================================================================
