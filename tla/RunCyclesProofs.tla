-------------------------- MODULE RunCyclesProofs --------------------------
(***************************************************************************)
(* A run of a workflow, from command to command: one that completed        *)
(* executes no step again, a command that opens it takes it up where it    *)
(* stopped unless one of four excuses is in its trail, and one that parked *)
(* can be continued; for any workflows, any number of retries, commands    *)
(* and cancels and a trail of any length.                                  *)
(*                                                                         *)
(* The first part is about the end of the workflow alone.  The second ends *)
(* in the inductive invariant CyclesInv: an event at a time, the trail     *)
(* records the attempts as the driver makes them, and a replay of it       *)
(* follows the run.                                                        *)
(***************************************************************************)
EXTENDS RunCyclesLemmas, SequenceTheorems

\* Some sequence, whatever its members.
Listed(s) == s \in Seq({s[i] : i \in DOMAIN s})

\* A sequence over any set is one.
LEMMA ListedTail ==
    ASSUME NEW T, NEW s \in Seq(T)
    PROVE  Listed(s)
<1>1. PICK n \in Nat : n = Len(s) /\ DOMAIN s = 1 .. n
  OBVIOUS
<1>2. s \in [1 .. n -> {s[i] : i \in DOMAIN s}]
  BY <1>1
<1> QED
  BY <1>2 DEF Listed

\* A sequence with another after it.
LEMMA ListedGrows ==
    ASSUME NEW s, Listed(s), NEW T, NEW t \in Seq(T)
    PROVE  /\ Listed(s \o t) /\ Len(s \o t) = Len(s) + Len(t)
           /\ \A i \in 1 .. Len(s) : (s \o t)[i] = s[i]
           /\ \A i \in 1 .. Len(s) + Len(t) : i > Len(s) => \E j \in 1 .. Len(t) : (s \o t)[i] = t[j]
<1> DEFINE S == {s[i] : i \in DOMAIN s} \cup T
<1>1. s \in Seq(S) /\ t \in Seq(S)
  <2>1. s \in Seq({s[i] : i \in DOMAIN s})
    BY DEF Listed
  <2>2. PICK n \in Nat : n = Len(s) /\ DOMAIN s = 1 .. n
    BY <2>1
  <2>3. s \in [1 .. n -> S]
    BY <2>1, <2>2
  <2>4. PICK m \in Nat : m = Len(t) /\ DOMAIN t = 1 .. m
    OBVIOUS
  <2>5. t \in [1 .. m -> S]
    BY <2>4
  <2> QED
    BY <2>3, <2>5
<1> HIDE DEF S
<1>2. PICK n \in Nat, m \in Nat : n = Len(s) /\ m = Len(t)
  BY <1>1
<1>3. PICK u \in Seq(S) : u = s \o t
  BY <1>1, ConcatProperties
<1>4. Len(u) = n + m /\ \A i \in 1 .. n + m : u[i] = IF i <= n THEN s[i] ELSE t[i - n]
  BY <1>1, <1>2, <1>3, ConcatProperties
<1>5. Listed(u)
  BY ListedTail
<1>6. \A i \in 1 .. n : u[i] = s[i]
  BY <1>2, <1>4
<1>7. ASSUME NEW i \in 1 .. n + m, i > n
      PROVE  \E j \in 1 .. m : u[i] = t[j]
  <2>1. i - n \in 1 .. m /\ u[i] = t[i - n]
    BY <1>2, <1>4, <1>7
  <2> QED
    BY <2>1
<1> QED
  BY <1>2, <1>3, <1>4, <1>5, <1>6, <1>7

\* The end of the workflow is the last event of the trail, and the run is over.
Over ==
    \A i \in DOMAIN trail : trail[i].type = "workflow.completed" =>
        /\ i = Len(trail) /\ run.pc = "off" /\ cancel < Len(trail)
        /\ opening.kind # "none" => opening.read = Len(trail)

OverInv ==
    /\ Listed(trail) /\ cancel \in 0 .. Len(trail)
    /\ "pc" \in DOMAIN run
    /\ opening.kind \in {"none", "continue", "retry", "resume"}
    /\ opening.kind # "none" => run.pc = "off"
    /\ ~late => Over

\* The greatest of a set of positions, where the last one is in it, and where it is found.
LEMMA LatestIsLast ==
    ASSUME NEW n \in Nat, NEW S \in SUBSET (1 .. n), n \in S
    PROVE  Trail!Latest(S) = n
<1>1. n \in S \cup {0} /\ \A j \in S \cup {0} : n >= j
  OBVIOUS
<1>2. PICK k : k = Trail!Latest(S)
  OBVIOUS
<1>3. k \in S \cup {0} /\ \A j \in S \cup {0} : k >= j
  BY <1>1, <1>2 DEF Trail!Latest
<1>4. k >= n /\ n >= k /\ k \in Nat
  BY <1>1, <1>3
<1> QED
  BY <1>2, <1>4

\* The greatest of some positions is one of them, or 0.
LEMMA LatestInRange ==
    ASSUME NEW n \in Nat, NEW S \in SUBSET (1 .. n)
    PROVE  Trail!Latest(S) \in S \cup {0}
<1> DEFINE R == OpToRel(<, Nat)
           T == {k \in Nat : \E i \in S \cup {0} : k = n - i}
<1>1. T \in SUBSET Nat /\ T # {}
  <2>1. n - 0 \in T
    OBVIOUS
  <2> QED
    BY <2>1
<1>2. PICK k \in T : \A j \in T : <<j, k>> \notin R
  <2>1. IsWellFoundedOn(R, Nat)
    BY NatLessThanWellFounded
  <2> HIDE DEF T, R
  <2> QED
    BY <1>1, <2>1, WFMin
<1>3. PICK m \in S \cup {0} : k = n - m
  OBVIOUS
<1>4. ASSUME NEW i \in S \cup {0} PROVE m >= i
  <2>1. n - i \in T /\ i \in 0 .. n /\ m \in 0 .. n
    OBVIOUS
  <2>2. ~(n - i < k)
    BY <1>2, <2>1 DEF OpToRel
  <2> QED
    BY <1>3, <2>1, <2>2
<1> HIDE DEF T, R
<1>5. \E i \in S \cup {0} : \A j \in S \cup {0} : i >= j
  BY <1>4
<1> QED
  BY <1>5 DEF Trail!Latest

\* A trail whose last event is the end of the workflow: it has ended in its cycle, no
\* failure of it is open, and no command finds a place in it to take up.
LEMMA CompletedIsRead ==
    ASSUME NEW p, NEW e, Listed(e), NEW n \in Nat, n = Len(e), n # 0, e[n].type = "workflow.completed"
    PROVE  /\ Trail!TerminalStatus(Cycle(e)) = "completed"
           /\ RetryFailure(p, e) = Refused /\ ResumeFailed(p, e) = Refused /\ ContinueWait(p, e) = NoPlace
<1>1. DOMAIN e = 1 .. n
  BY DEF Listed
<1>2. Trail!TerminalStatus(Cycle(e)) = "completed"
  <2>1. PICK c \in 0 .. n : c = Trail!Latest(Trail!Positions(e, Reopening))
    <3>1. Trail!Positions(e, Reopening) \in SUBSET (1 .. n)
      BY <1>1 DEF Trail!Positions
    <3>2. Trail!Latest(Trail!Positions(e, Reopening)) \in Trail!Positions(e, Reopening) \cup {0}
      BY <3>1, LatestInRange
    <3> QED
      BY <3>1, <3>2
  <2>2. c # n
    <3>1. Trail!Positions(e, Reopening) \in SUBSET (1 .. n)
      BY <1>1 DEF Trail!Positions
    <3>2. c \in Trail!Positions(e, Reopening) \cup {0}
      BY <2>1, <3>1, LatestInRange
    <3>3. n \notin Trail!Positions(e, Reopening)
      BY DEF Trail!Positions, Reopening
    <3> QED
      BY <3>2, <3>3
  <2> DEFINE S == {e[i] : i \in DOMAIN e}
  <2>3. \A i \in c + 1 .. n : e[i] \in S
    BY <1>1
  <2> HIDE DEF S
  <2>4. /\ SubSeq(e, c + 1, n) \in Seq(S)
        /\ Len(SubSeq(e, c + 1, n)) = IF c + 1 <= n THEN n - (c + 1) + 1 ELSE 0
        /\ \A i \in 1 .. n - (c + 1) + 1 : SubSeq(e, c + 1, n)[i] = e[c + 1 + i - 1]
    <3>1. c + 1 \in Int /\ n \in Int
      OBVIOUS
    <3> QED
      BY <2>3, <3>1, SubSeqProperties
  <2>5. PICK m \in Nat : m = n - c /\ m # 0 /\ n - (c + 1) + 1 = m /\ c + 1 <= n /\ c + 1 + m - 1 = n
    <3>1. n - c \in Nat /\ n - c # 0 /\ n - (c + 1) + 1 = n - c /\ c + 1 <= n /\ c + 1 + (n - c) - 1 = n
      BY <2>2
    <3> QED
      BY <3>1
  <2>6. PICK r \in Seq(S) : r = Cycle(e)
    BY <2>1, <2>4 DEF Cycle, CycleStart
  <2>7. Len(r) = m /\ DOMAIN r = 1 .. m /\ r[m].type = "workflow.completed"
    <3>1. r = SubSeq(e, c + 1, n)
      BY <2>1, <2>6 DEF Cycle, CycleStart
    <3>2. m \in 1 .. n - (c + 1) + 1
      BY <2>5
    <3>3. Len(r) = m
      BY <2>4, <2>5, <3>1
    <3>4. r[m] = e[n]
      BY <2>4, <2>5, <3>1, <3>2
    <3> QED
      BY <3>3, <3>4
  <2>8. Trail!Latest(Trail!Positions(r, Trail!RunEnd)) = m
    <3>1. Trail!Positions(r, Trail!RunEnd) \in SUBSET (1 .. m)
      BY <2>7 DEF Trail!Positions
    <3>2. m \in Trail!Positions(r, Trail!RunEnd)
      BY <2>5, <2>7 DEF Trail!Positions, Trail!RunEnd
    <3> QED
      BY <3>1, <3>2, LatestIsLast
  <2> QED
    BY <2>5, <2>6, <2>7, <2>8 DEF Trail!TerminalStatus
<1>3. RetryFailure(p, e) = Refused
  <2>1. Trail!Latest(Trail!Positions(e, {"workflow.completed", "workflow.cancelled"})) = n
    <3>1. /\ Trail!Positions(e, {"workflow.completed", "workflow.cancelled"}) \in SUBSET (1 .. n)
          /\ n \in Trail!Positions(e, {"workflow.completed", "workflow.cancelled"})
      BY <1>1 DEF Trail!Positions
    <3> QED
      BY <3>1, LatestIsLast
  <2>2. \A i \in DOMAIN e : ~(i > n)
    BY <1>1
  <2>3. Trail!LatestUnresolvedFailure(e) = 0
    BY <2>1, <2>2 DEF Trail!LatestUnresolvedFailure
  <2> QED
    BY <2>3 DEF RetryFailure
<1>4. ResumeFailed(p, e) = Refused
  BY DEF ResumeFailed
<1>5. ContinueWait(p, e) = NoPlace
  <2>1. n \in Trail!Positions(e, {"workflow.completed"})
    BY <1>1 DEF Trail!Positions
  <2> QED
    BY <2>1 DEF ContinueWait
<1> QED
  BY <1>2, <1>3, <1>4, <1>5

\* Such a trail stays as it is when a command opens the run.
LEMMA NothingReopens ==
    ASSUME OverInv, ~late, Reopen, NEW i \in DOMAIN trail, trail[i].type = "workflow.completed"
    PROVE  UNCHANGED <<trail, run>>
<1>1. PICK n \in Nat : n = Len(trail) /\ DOMAIN trail = 1 .. n
  BY DEF OverInv, Listed
<1>2. i = n /\ n # 0 /\ opening.read = n
  BY <1>1 DEF OverInv, Over, Reopen
<1>3. Previous = trail
  BY <1>1, <1>2 DEF Previous, OverInv, Listed
<1>4. /\ Trail!TerminalStatus(Cycle(trail)) = "completed"
      /\ RetryFailure(prog, trail) = Refused /\ ResumeFailed(prog, trail) = Refused /\ ContinueWait(prog, trail) = NoPlace
  BY <1>1, <1>2, CompletedIsRead DEF OverInv
<1>5. Way = opening.kind /\ Way \in {"continue", "retry", "resume"}
  BY <1>3, <1>4 DEF Way, OverInv, Reopen
<1>6. Fresh(Refused).node = Refused /\ NoPlace.node = Refused
  BY DEF Fresh, NoPlace
<1>7. Place.node = Refused
  BY <1>3, <1>4, <1>5, <1>6 DEF Place
<1> QED
  <2>1. PICK to : to = Place
    OBVIOUS
  <2>2. to.node = Refused
    BY <1>7, <2>1
  <2>3. trail' = CASE to.node = Refused -> trail
                   [] to.node = Threw -> Append(trail, OfRun("workflow.failed"))
                   [] OTHER -> Append(trail, ReopenEvent)
    BY <2>1 DEF Reopen
  <2>4. Refused # Threw
    BY DEF Refused, Threw
  <2>5. trail' = trail
    BY <2>2, <2>3, <2>4
  <2>6. to.node \in {Refused, Threw} => UNCHANGED run
    BY <2>1 DEF Reopen
  <2> QED
    BY <2>2, <2>5, <2>6

\* Some other event than the end of the workflow.
Others(t) == Listed(t) /\ \A j \in 1 .. Len(t) : t[j].type # "workflow.completed"

\* Events that do not end the workflow keep its end the last event, for there was none.
LEMMA OthersFollow ==
    ASSUME OverInv, NEW t, Others(t), trail' = trail \o t,
           "pc" \in DOMAIN run', opening'.kind \in {"none", "continue", "retry", "resume"},
           opening'.kind # "none" => run'.pc = "off",
           cancel' \in {0, cancel}, late => late',
           ~late' => \A i \in DOMAIN trail : trail[i].type # "workflow.completed"
    PROVE  OverInv'
<1>1. PICK n \in Nat, m \in Nat : n = Len(trail) /\ m = Len(t) /\ DOMAIN trail = 1 .. n
  <2>1. Len(trail) \in Nat /\ DOMAIN trail = 1 .. Len(trail)
    BY DEF OverInv, Listed
  <2>2. Len(t) \in Nat
    BY DEF Others, Listed
  <2> QED
    BY <2>1, <2>2
<1>2. /\ Listed(trail') /\ Len(trail') = n + m
      /\ \A i \in 1 .. n : trail'[i] = trail[i]
      /\ \A i \in 1 .. n + m : i > n => \E j \in 1 .. m : trail'[i] = t[j]
  <2>1. t \in Seq({t[i] : i \in DOMAIN t})
    BY DEF Others, Listed
  <2>2. PICK u, T : u = trail \o t /\ T = {t[i] : i \in DOMAIN t}
    OBVIOUS
  <2>3. /\ Listed(u) /\ Len(u) = n + m
        /\ \A i \in 1 .. n : u[i] = trail[i]
        /\ \A i \in 1 .. n + m : i > n => \E j \in 1 .. m : u[i] = t[j]
    <3>1. Listed(trail) /\ t \in Seq(T)
      BY <2>1, <2>2 DEF OverInv
    <3>2. /\ Listed(trail \o t) /\ Len(trail \o t) = Len(trail) + Len(t)
          /\ \A i \in 1 .. Len(trail) : (trail \o t)[i] = trail[i]
          /\ \A i \in 1 .. Len(trail) + Len(t) : i > Len(trail) => \E j \in 1 .. Len(t) : (trail \o t)[i] = t[j]
      BY <3>1, ListedGrows
    <3> QED
      BY <1>1, <2>2, <3>2
  <2> QED
    BY <2>2, <2>3
<1>3. cancel' \in 0 .. Len(trail')
  BY <1>1, <1>2 DEF OverInv
<1>4. ASSUME ~late', NEW i \in DOMAIN trail', trail'[i].type = "workflow.completed" PROVE FALSE
  <2>1. i \in 1 .. n + m
    BY <1>2 DEF Listed
  <2>2. CASE i \in 1 .. n
    BY <1>1, <1>2, <1>4, <2>2
  <2>3. CASE i > n
    BY <1>1, <1>2, <1>4, <2>1, <2>3 DEF Others
  <2> QED
    BY <2>1, <2>2, <2>3
<1> QED
  BY <1>2, <1>3, <1>4 DEF OverInv, Over

\* No event.
LEMMA NoneFollow == Others(<<>>)
<1>1. <<>> \in Seq({}) /\ Len(<<>>) = 0
  OBVIOUS
<1>2. Listed(<<>>)
  BY <1>1, ListedTail
<1> QED
  BY <1>1, <1>2 DEF Others

\* One such event.
LEMMA OneFollows ==
    ASSUME NEW e, e.type # "workflow.completed"
    PROVE  Others(<<e>>) /\ \A s : Listed(s) => Append(s, e) = s \o <<e>>
<1>1. <<e>> \in Seq({e}) /\ Len(<<e>>) = 1 /\ <<e>>[1] = e
  OBVIOUS
<1>2. Others(<<e>>)
  <2>1. PICK t \in Seq({e}) : t = <<e>>
    BY <1>1
  <2>2. Listed(t)
    BY ListedTail
  <2>3. \A j \in 1 .. Len(t) : j = 1 /\ t[j] = e
    BY <1>1, <2>1
  <2> QED
    BY <2>1, <2>2, <2>3 DEF Others
<1>3. ASSUME NEW s, Listed(s) PROVE Append(s, e) = s \o <<e>>
  <2> DEFINE S == {s[i] : i \in DOMAIN s} \cup {e}
  <2>1. s \in Seq({s[i] : i \in DOMAIN s})
    BY <1>3 DEF Listed
  <2>2. PICK n \in Nat : n = Len(s) /\ DOMAIN s = 1 .. n
    BY <2>1
  <2>3. s \in [1 .. n -> S]
    BY <2>1, <2>2
  <2>4. s \in Seq(S) /\ e \in S
    BY <2>3
  <2> QED
    BY <2>4, AppendIsConcat
<1> QED
  BY <1>2, <1>3

\* A sequence with one more element.
LEMMA Grown ==
    ASSUME NEW s, Listed(s), NEW e
    PROVE  /\ Listed(Append(s, e)) /\ Len(Append(s, e)) = Len(s) + 1
           /\ \A i \in 1 .. Len(s) : Append(s, e)[i] = s[i]
<1> DEFINE S == {s[i] : i \in DOMAIN s} \cup {e}
<1>1. s \in Seq({s[i] : i \in DOMAIN s})
  BY DEF Listed
<1>2. PICK n \in Nat : n = Len(s) /\ DOMAIN s = 1 .. n
  BY <1>1
<1>3. s \in [1 .. n -> S]
  BY <1>1, <1>2
<1>4. s \in Seq(S) /\ e \in S
  BY <1>3
<1> HIDE DEF S
<1>5. PICK u \in Seq(S) : u = Append(s, e)
  BY <1>4, AppendProperties
<1>6. Listed(u)
  BY ListedTail
<1>7. Len(u) = n + 1 /\ \A i \in 1 .. n : u[i] = s[i]
  BY <1>2, <1>4, <1>5, AppendProperties
<1> QED
  BY <1>2, <1>5, <1>6, <1>7

\* Sequences of such events, one after the other.
Joins(r, s, t) == Others(s \o t) /\ r \o s \o t = r \o (s \o t)
LEMMA Joined ==
    ASSUME NEW r, Listed(r), NEW s, Others(s), NEW t, Others(t)
    PROVE  Joins(r, s, t)
<1> DEFINE S == {r[i] : i \in DOMAIN r} \cup {s[i] : i \in DOMAIN s} \cup {t[i] : i \in DOMAIN t}
<1>1. ASSUME NEW q, Listed(q), \A i \in DOMAIN q : q[i] \in S PROVE q \in Seq(S)
  <2>1. q \in Seq({q[i] : i \in DOMAIN q})
    BY <1>1 DEF Listed
  <2>2. PICK n \in Nat : n = Len(q) /\ DOMAIN q = 1 .. n
    BY <2>1
  <2>3. q \in [1 .. n -> S]
    BY <1>1, <2>1, <2>2
  <2> QED
    BY <2>3
<1>2. r \in Seq(S) /\ s \in Seq(S) /\ t \in Seq(S)
  BY <1>1 DEF Others
<1>3. r \o s \o t = r \o (s \o t)
  <2> HIDE DEF S
  <2> QED
    BY <1>2, ConcatAssociative
<1>4. Others(s \o t)
  <2> HIDE DEF S
  <2>1. PICK n \in Nat, m \in Nat : n = Len(s) /\ m = Len(t)
    BY <1>2
  <2>2. PICK u \in Seq(S) : u = s \o t
    BY <1>2, ConcatProperties
  <2>3. Len(u) = n + m /\ \A i \in 1 .. n + m : u[i] = IF i <= n THEN s[i] ELSE t[i - n]
    BY <1>2, <2>1, <2>2, ConcatProperties
  <2>4. Listed(u)
    BY ListedTail
  <2>5. ASSUME NEW i \in 1 .. n + m PROVE u[i].type # "workflow.completed"
    <3>1. CASE i <= n
      BY <2>1, <2>3, <3>1 DEF Others
    <3>2. CASE ~(i <= n)
      <4>1. i - n \in 1 .. m
        BY <3>2
      <4> QED
        BY <2>1, <2>3, <3>2, <4>1 DEF Others
    <3> QED
      BY <3>1, <3>2
  <2> QED
    BY <2>2, <2>3, <2>4, <2>5 DEF Others
<1> QED
  BY <1>3, <1>4 DEF Joins

\* Two such events.
LEMMA TwoFollow ==
    ASSUME NEW d, NEW e, d.type # "workflow.completed", e.type # "workflow.completed"
    PROVE  Others(<<d, e>>) /\ \A s : Listed(s) => s \o <<d>> \o <<e>> = s \o <<d, e>>
<1>1. Others(<<d>>) /\ Others(<<e>>)
  BY OneFollows
<1>2. <<d>> \o <<e>> = <<d, e>>
  <2>1. <<d>> \in Seq({d, e}) /\ <<e>> \in Seq({d, e}) /\ Len(<<d>>) = 1 /\ Len(<<e>>) = 1
    OBVIOUS
  <2>2. PICK u \in Seq({d, e}) : u = <<d>> \o <<e>>
    BY <2>1, ConcatProperties
  <2>3. Len(u) = 2 /\ u[1] = d /\ u[2] = e
    BY <2>1, <2>2, ConcatProperties
  <2>4. PICK v \in Seq({d, e}) : v = <<d, e>> /\ Len(v) = 2 /\ v[1] = d /\ v[2] = e
    <3>1. <<d, e>> \in Seq({d, e})
      OBVIOUS
    <3>2. Len(<<d, e>>) = 2 /\ <<d, e>>[1] = d /\ <<d, e>>[2] = e
      OBVIOUS
    <3> QED
      BY <3>1, <3>2
  <2>5. Len(u) = Len(v) /\ \A i \in 1 .. Len(u) : u[i] = v[i]
    BY <2>3, <2>4
  <2>6. u = v
    BY <2>5, SeqEqual
  <2> QED
    BY <2>2, <2>4, <2>6
<1>3. PICK x, y : x = <<d>> /\ y = <<e>>
  OBVIOUS
<1>4. \A s : Listed(s) => Joins(s, x, y)
  BY <1>1, <1>3, Joined
<1>5. Others(x \o y)
  BY <1>1, <1>3, <1>4 DEF Joins, Others
<1>6. ASSUME NEW s, Listed(s) PROVE s \o x \o y = s \o (x \o y)
  BY <1>4, <1>6 DEF Joins
<1> QED
  BY <1>2, <1>3, <1>5, <1>6

\* What the driver does without ending the workflow.
LEMMA DriverKeepsOver ==
    ASSUME OverInv, run.pc # "off", opening.kind = "none", UNCHANGED <<opening, cancel, late>>,
           "pc" \in DOMAIN run', NEW t, Others(t), trail' = trail \o t
    PROVE  OverInv'
<1>1. ~late => \A i \in DOMAIN trail : trail[i].type # "workflow.completed"
  BY DEF OverInv, Over
<1> QED
  BY <1>1, OthersFollow DEF OverInv

\* The driver writes one such event.
LEMMA EmitKeepsOver ==
    ASSUME OverInv, run.pc # "off", opening.kind = "none", UNCHANGED <<opening, cancel, late>>,
           "pc" \in DOMAIN run', NEW e, e.type # "workflow.completed", trail' = Append(trail, e)
    PROVE  OverInv'
<1>1. Others(<<e>>) /\ trail' = trail \o <<e>>
  BY OneFollows DEF OverInv
<1> QED
  BY <1>1, DriverKeepsOver

\* The driver writes nothing.
LEMMA DriverIdle ==
    ASSUME OverInv, run.pc # "off", opening.kind = "none", UNCHANGED <<opening, cancel, late, trail>>,
           "pc" \in DOMAIN run'
    PROVE  OverInv'
<1>1. ~late => \A i \in DOMAIN trail : trail[i].type # "workflow.completed"
  BY DEF OverInv, Over
<1>2. ~late' => Over'
  BY <1>1 DEF Over
<1> QED
  BY <1>2 DEF OverInv

\* The type of an event is the one it was made with.
LEMMA StepEvents ==
    /\ \A type, out, wait : OfStep(type, out, wait).type = type
    /\ \A type : OfRun(type).type = type
  BY DEF OfStep, OfRun, Ev

\* The driver ends the workflow, or starts the next step.
LEMMA TopOfLoopKeepsOver ==
    ASSUME OverInv, TopOfLoop
    PROVE  OverInv'
<1>1. run.pc # "off" /\ opening.kind = "none" /\ UNCHANGED <<opening, cancel, late>>
  BY DEF TopOfLoop, Driving, DriverOnly
<1>2. CASE request
  <2>1. trail' = trail /\ "pc" \in DOMAIN run'
    BY <1>2 DEF TopOfLoop, OverInv
  <2> QED
    BY <1>1, <2>1, DriverIdle
<1>3. CASE ~request /\ run.node.step = Done
  <2>1. /\ trail' = Append(trail, OfRun("workflow.completed")) /\ run' = [run EXCEPT !.pc = "off"]
    BY <1>3 DEF TopOfLoop, Emit
  <2>2. run'.pc = "off" /\ "pc" \in DOMAIN run'
    BY <2>1 DEF OverInv
  <2>3. PICK n \in Nat : n = Len(trail) /\ DOMAIN trail = 1 .. n
    BY DEF OverInv, Listed
  <2>4. PICK e : e = OfRun("workflow.completed")
    OBVIOUS
  <2>5. Listed(trail') /\ Len(trail') = n + 1 /\ \A i \in 1 .. n : trail'[i] = trail[i]
    BY <2>1, <2>3, <2>4, Grown DEF OverInv
  <2>6. ~late' => Over'
    <3> SUFFICES ASSUME ~late', NEW i \in DOMAIN trail', trail'[i].type = "workflow.completed"
                 PROVE  i = n + 1
      BY <1>1, <2>2, <2>3, <2>5 DEF Over, OverInv
    <3>1. i \in 1 .. n + 1
      BY <2>5 DEF Listed
    <3>2. i \notin 1 .. n
      BY <1>1, <2>3, <2>5 DEF OverInv, Over
    <3> QED
      BY <3>1, <3>2
  <2> QED
    BY <1>1, <2>2, <2>3, <2>5, <2>6 DEF OverInv
<1>4. CASE ~request /\ run.node.step # Done
  <2>1. PICK e : trail' = Append(trail, e) /\ e.type # "workflow.completed" /\ "pc" \in DOMAIN run'
    <3>1. PICK type \in {"step.failed", "step.started"} : trail' = Append(trail, OfStep(type, 0, "none"))
      BY <1>4 DEF TopOfLoop, Emit
    <3>2. "pc" \in DOMAIN run'
      BY <1>4 DEF TopOfLoop, OverInv
    <3> QED
      BY <3>1, <3>2, StepEvents
  <2> QED
    BY <1>1, <2>1, EmitKeepsOver
<1> QED
  BY <1>2, <1>3, <1>4

\* An attempt fails.
LEMMA FailsKeepsOver ==
    ASSUME OverInv, run.pc # "off", opening.kind = "none", UNCHANGED <<opening, cancel, late>>,
           NEW before, NEW transient \in BOOLEAN, Fails(before, transient),
           before = <<>> \/ \E e : before = <<e>> /\ e.type # "workflow.completed"
    PROVE  OverInv'
<1>1. PICK e : e.type # "workflow.completed" /\ trail' = trail \o before \o <<e>>
  <2>1. PICK type \in {"step.attemptFailed", "step.failed"} :
           trail' = trail \o before \o <<OfStep(type, 0, "none")>>
    BY DEF Fails
  <2> QED
    BY <2>1, StepEvents
<1>2. "pc" \in DOMAIN run'
  <2>1. PICK s, again : /\ s = run.node.step /\ again \in BOOLEAN
                        /\ CASE again -> run' = [run EXCEPT !.at = 1, !.value = run.node.input]
                             [] ~again /\ prog[s].onError = "none" -> run' = [run EXCEPT !.pc = "failed"]
                             [] ~again /\ prog[s].onError # "none" -> GoTo([step |-> prog[s].onError, input |-> 1])
    <3> DEFINE s == run.node.step
               again == /\ transient /\ ~NonIdempotent(prog, s) /\ prog[s].onError = "none"
                        /\ FailedAttempts(trail, s) + 1 < MaxTries
    <3>1. again \in BOOLEAN
      OBVIOUS
    <3>2. (CASE again -> run' = [run EXCEPT !.at = 1, !.value = run.node.input]
             [] ~again /\ prog[s].onError = "none" -> run' = [run EXCEPT !.pc = "failed"]
             [] ~again /\ prog[s].onError # "none" -> GoTo([step |-> prog[s].onError, input |-> 1]))
      BY DEF Fails
    <3> HIDE DEF again
    <3> QED
      BY <3>1, <3>2
  <2>2. \A to : GoTo(to) => "pc" \in DOMAIN run'
    BY DEF GoTo, At
  <2> QED
    BY <2>1, <2>2 DEF OverInv
<1>3. Others(<<e>>)
  BY <1>1, OneFollows
<1>4. CASE before = <<>>
  <2>1. trail \o before = trail
    BY <1>4 DEF OverInv, Listed
  <2> QED
    BY <1>1, <1>2, <1>3, <2>1, DriverKeepsOver
<1>5. ASSUME NEW d, before = <<d>>, d.type # "workflow.completed" PROVE OverInv'
  <2>1. Others(<<d, e>>) /\ trail' = trail \o <<d, e>>
    BY <1>1, <1>5, TwoFollow DEF OverInv
  <2> QED
    BY <1>2, <2>1, DriverKeepsOver
<1> QED
  BY <1>4, <1>5

\* The other steps of the driver.
LEMMA DriverStepsKeepOver ==
    ASSUME OverInv, CancelStep \/ Prompt \/ Wait \/ PhaseFails \/ AnswerInvalid \/ Do \/ FailRun \/ CancelRun
    PROVE  OverInv'
<1>1. run.pc # "off" /\ opening.kind = "none" /\ UNCHANGED <<opening, cancel, late>>
  BY DEF CancelStep, Prompt, Wait, PhaseFails, AnswerInvalid, Do, FailRun, CancelRun, Driving, DriverOnly
<1>2. CASE CancelStep
  <2>1. trail' = Append(trail, OfStep("step.cancelled", 0, "none")) /\ "pc" \in DOMAIN run'
    BY <1>2 DEF CancelStep, Emit, OverInv
  <2> QED
    BY <1>1, <2>1, StepEvents, EmitKeepsOver
<1>3. CASE Prompt
  <2>1. PICK v \in Value : /\ trail' = Append(trail, OfStep("step.completed", v, "none"))
                           /\ run' = Onward([run EXCEPT !.value = v])
    BY <1>3 DEF Prompt, Emit
  <2>2. "pc" \in DOMAIN run'
    BY <2>1 DEF Onward, OverInv
  <2> QED
    BY <1>1, <2>1, <2>2, StepEvents, EmitKeepsOver
<1>4. CASE Wait
  <2>1. "pc" \in DOMAIN run'
    BY <1>4 DEF Wait, Onward, OverInv
  <2>2. trail' = trail \/ \E e : e.type # "workflow.completed" /\ trail' = Append(trail, e)
    BY <1>4, StepEvents DEF Wait, Emit
  <2>3. CASE trail' = trail
    BY <1>1, <2>1, <2>3, DriverIdle
  <2> QED
    BY <1>1, <2>1, <2>2, <2>3, EmitKeepsOver
<1>5. CASE PhaseFails
  BY <1>1, <1>5, FailsKeepsOver DEF PhaseFails
<1>6. CASE AnswerInvalid
  <2>1. Fails(<<OfStep("wait.failed", 0, Here)>>, FALSE)
    BY <1>6 DEF AnswerInvalid
  <2>2. OfStep("wait.failed", 0, Here).type # "workflow.completed"
    BY StepEvents
  <2> QED
    BY <1>1, <2>1, <2>2, FailsKeepsOver
<1>7. CASE Do
  <2>1. "pc" \in DOMAIN run'
    BY <1>7 DEF Do, GoTo, At
  <2>2. trail' = trail \/ trail' = Append(trail, OfStep("step.completed", 0, "none"))
    BY <1>7 DEF Do, Emit
  <2>3. CASE trail' = trail
    BY <1>1, <2>1, <2>3, DriverIdle
  <2>4. CASE trail' = Append(trail, OfStep("step.completed", 0, "none"))
    BY <1>1, <2>1, <2>4, StepEvents, EmitKeepsOver
  <2> QED
    BY <2>2, <2>3, <2>4
<1>8. CASE FailRun
  <2>1. trail' = Append(trail, OfRun("workflow.failed")) /\ "pc" \in DOMAIN run'
    BY <1>8 DEF FailRun, Emit, OverInv
  <2> QED
    BY <1>1, <2>1, StepEvents, EmitKeepsOver
<1>9. CASE CancelRun
  <2>1. trail' = trail \o <<OfRun("workflow.cancelRequested"), OfRun("workflow.cancelled")>>
    BY <1>9 DEF CancelRun
  <2>2. "pc" \in DOMAIN run'
    BY <1>9 DEF CancelRun, OverInv
  <2>3. Others(<<OfRun("workflow.cancelRequested"), OfRun("workflow.cancelled")>>)
    <3>1. OfRun("workflow.cancelRequested").type # "workflow.completed" /\ OfRun("workflow.cancelled").type # "workflow.completed"
      BY StepEvents
    <3> QED
      BY <3>1, TwoFollow
  <2> QED
    BY <1>1, <2>1, <2>2, <2>3, DriverKeepsOver
<1> QED
  BY <1>2, <1>3, <1>4, <1>5, <1>6, <1>7, <1>8, <1>9

\* The commands.
LEMMA ReopenKeepsOver ==
    ASSUME OverInv, Reopen
    PROVE  OverInv'
<1>1. opening' = NotOpening /\ UNCHANGED <<cancel, late>> /\ opening.kind # "none"
  BY DEF Reopen
<1>2. opening'.kind = "none"
  BY <1>1 DEF NotOpening
<1>3. "pc" \in DOMAIN run'
  BY DEF Reopen, At, OverInv
<1>4. CASE late \/ \A i \in DOMAIN trail : trail[i].type # "workflow.completed"
  <2>1. trail' = trail \/ \E e : e.type # "workflow.completed" /\ trail' = Append(trail, e)
    <3>1. ReopenEvent.type # "workflow.completed"
      BY StepEvents DEF ReopenEvent, OfRun, Ev
    <3>2. OfRun("workflow.failed").type # "workflow.completed"
      BY StepEvents
    <3>3. trail' \in {trail, Append(trail, OfRun("workflow.failed")), Append(trail, ReopenEvent)}
      BY DEF Reopen
    <3> QED
      BY <3>1, <3>2, <3>3
  <2>2. CASE trail' = trail
    <3>1. ~late' => Over'
      BY <1>1, <1>4, <2>2 DEF Over
    <3> QED
      BY <1>1, <1>2, <1>3, <2>2, <3>1 DEF OverInv
  <2>3. ASSUME NEW e, e.type # "workflow.completed", trail' = Append(trail, e) PROVE OverInv'
    <3>1. Others(<<e>>) /\ trail' = trail \o <<e>>
      BY <2>3, OneFollows DEF OverInv
    <3> QED
      BY <1>1, <1>2, <1>3, <1>4, <3>1, OthersFollow
  <2> QED
    BY <2>1, <2>2, <2>3
<1>5. CASE ~late /\ \E i \in DOMAIN trail : trail[i].type = "workflow.completed"
  <2>1. UNCHANGED <<trail, run>>
    BY <1>5, NothingReopens
  <2>2. Over'
    BY <1>1, <1>2, <1>5, <2>1 DEF OverInv, Over
  <2> QED
    BY <1>1, <1>2, <1>3, <2>1, <2>2 DEF OverInv
<1> QED
  BY <1>4, <1>5

\* A command goes to open the run.
LEMMA AskKeepsOver ==
    ASSUME OverInv, AskContinue \/ AskRetry \/ AskResume
    PROVE  OverInv'
<1>1. run.pc = "off" /\ opening.kind = "none" /\ UNCHANGED <<trail, run, cancel, late>>
  BY DEF AskContinue, AskRetry, AskResume, MayOpen
<1>2. PICK kind \in {"none", "continue", "retry", "resume"} :
         opening' = opening \/ opening' = [kind |-> kind, read |-> Len(trail)]
  BY DEF AskContinue, AskRetry, AskResume
<1>3. opening'.kind \in {"none", "continue", "retry", "resume"} /\ (opening'.kind # "none" => opening'.read = Len(trail))
  BY <1>1, <1>2
<1>4. ~late' => Over'
  BY <1>1, <1>3 DEF OverInv, Over
<1> QED
  BY <1>1, <1>3, <1>4 DEF OverInv

\* A cancel reads the trail.
LEMMA AskCancelKeepsOver ==
    ASSUME OverInv, AskCancel
    PROVE  OverInv'
<1>1. UNCHANGED <<trail, run, opening, late>> /\ cancel = 0
  BY DEF AskCancel
<1>2. PICK n \in Nat : n = Len(trail) /\ DOMAIN trail = 1 .. n
  BY DEF OverInv, Listed
<1>3. cancel' = IF Trail!TerminalStatus(Cycle(trail)) = "none" THEN n ELSE 0
  BY <1>2 DEF AskCancel
<1>4. ASSUME ~late, NEW i \in DOMAIN trail, trail[i].type = "workflow.completed"
      PROVE  cancel' < n
  <2>1. i = n /\ n # 0
    BY <1>2, <1>4 DEF OverInv, Over
  <2>2. Trail!TerminalStatus(Cycle(trail)) = "completed"
    BY <1>2, <1>4, <2>1, CompletedIsRead DEF OverInv
  <2> QED
    BY <1>3, <2>1, <2>2
<1>5. ~late' => Over'
  BY <1>1, <1>2, <1>4 DEF OverInv, Over
<1> QED
  BY <1>1, <1>2, <1>3, <1>5 DEF OverInv

\* A cancel writes, late if the workflow has ended since it read the trail.
LEMMA RecordCancelKeepsOver ==
    ASSUME OverInv, RecordCancel
    PROVE  OverInv'
<1>1. PICK n \in Nat : n = Len(trail) /\ DOMAIN trail = 1 .. n
  BY DEF OverInv, Listed
<1>2. /\ cancel # 0 /\ cancel' = 0 /\ UNCHANGED <<run, opening>>
      /\ late' = (late \/ \E i \in DOMAIN trail : i > cancel /\ trail[i].type \in Trail!RunEnd)
  BY DEF RecordCancel
<1>3. ~late' => \A i \in DOMAIN trail : trail[i].type # "workflow.completed"
  <2> SUFFICES ASSUME ~late', NEW i \in DOMAIN trail, trail[i].type = "workflow.completed" PROVE FALSE
    OBVIOUS
  <2>1. ~late /\ ~(i > cancel)
    BY <1>2 DEF Trail!RunEnd
  <2>2. i = n /\ cancel < n
    BY <1>1, <2>1 DEF OverInv, Over
  <2> QED
    BY <1>1, <2>1, <2>2 DEF OverInv
<1>4. PICK asked, step : /\ trail' = trail \o asked \o step \o <<OfRun("workflow.cancelled")>>
                         /\ asked \in {<<>>, <<OfRun("workflow.cancelRequested")>>}
                         /\ step = <<>> \/ \E s : step = <<Ev("step.cancelled", s, 0, "none", 0)>>
  <2> DEFINE e == Cycle(SubSeq(trail, 1, cancel))
             p == PendingWait(e)
             asked == IF Trail!Positions(e, {"workflow.cancelRequested"}) = {}
                      THEN <<OfRun("workflow.cancelRequested")>> ELSE <<>>
             step == IF request \/ p = 0 THEN <<>>
                     ELSE IF \E i \in DOMAIN e : e[i].type = "step.cancelled" /\ e[i].step = e[p].step
                     THEN <<>> ELSE <<Ev("step.cancelled", e[p].step, 0, "none", 0)>>
  <2>1. trail' = trail \o asked \o step \o <<OfRun("workflow.cancelled")>>
    BY DEF RecordCancel
  <2> QED
    BY <2>1
<1>5. PICK t : Others(t) /\ trail' = trail \o t
  <2>1. Others(asked) /\ Others(step) /\ Others(<<OfRun("workflow.cancelled")>>)
    <3>1. OfRun("workflow.cancelRequested").type # "workflow.completed" /\ OfRun("workflow.cancelled").type # "workflow.completed"
      BY StepEvents
    <3>2. \A s : Ev("step.cancelled", s, 0, "none", 0).type # "workflow.completed"
      BY DEF Ev
    <3>3. Others(asked)
      BY <1>4, <3>1, NoneFollow, OneFollows
    <3>4. Others(step)
      BY <1>4, <3>2, NoneFollow, OneFollows
    <3> QED
      BY <3>1, <3>3, <3>4, OneFollows
  <2>2. Listed(trail)
    BY DEF OverInv
  <2>3. Joins(trail, asked, step)
    BY <2>1, <2>2, Joined
  <2>4. PICK u, end : u = asked \o step /\ end = <<OfRun("workflow.cancelled")>>
    OBVIOUS
  <2>5. Others(u) /\ Others(end)
    BY <2>1, <2>3, <2>4 DEF Joins
  <2>6. Joins(trail, u, end)
    BY <2>2, <2>5, Joined
  <2>7. Others(u \o end) /\ trail' = trail \o (u \o end)
    BY <1>4, <2>3, <2>4, <2>6 DEF Joins
  <2> QED
    BY <2>7
<1>6. "pc" \in DOMAIN run' /\ opening'.kind \in {"none", "continue", "retry", "resume"}
      /\ (opening'.kind # "none" => run'.pc = "off") /\ (late => late')
  BY <1>2 DEF OverInv
<1> QED
  BY <1>2, <1>3, <1>5, <1>6, OthersFollow

\* A run that completed executes no step again: its trail stays as it is, unless a cancel
\* command that read it before the end writes to it afterwards, for any workflow and any
\* number of commands (latest-unresolved-failure.ts:38).
THEOREM CompletedRunsAreFinal == RCSpec => []CompletedIsFinal
<1>1. RCInit => OverInv
  <2> SUFFICES ASSUME RCInit PROVE OverInv
    OBVIOUS
  <2>1. trail = <<OfRun("workflow.started")>>
    BY DEF RCInit
  <2>2. Listed(trail) /\ Len(trail) = 1 /\ DOMAIN trail = {1} /\ trail[1].type # "workflow.completed"
    BY <2>1, OneFollows, StepEvents DEF Others
  <2>3. cancel = 0 /\ "pc" \in DOMAIN run /\ opening.kind = "none"
    BY DEF RCInit, NotOpening
  <2> QED
    BY <2>2, <2>3 DEF OverInv, Over
<1>2. OverInv /\ [RCNext]_rcVars => OverInv'
  <2> SUFFICES ASSUME OverInv, [RCNext]_rcVars PROVE OverInv'
    OBVIOUS
  <2>1. CASE TopOfLoop
    BY <2>1, TopOfLoopKeepsOver
  <2>2. CASE CancelStep \/ Prompt \/ Wait \/ PhaseFails \/ AnswerInvalid \/ Do \/ FailRun \/ CancelRun
    BY <2>2, DriverStepsKeepOver
  <2>3. CASE DriverDies
    <3>1. run.pc # "off" /\ UNCHANGED <<trail, opening, cancel, late>> /\ "pc" \in DOMAIN run' /\ run'.pc = "off"
      BY <2>3 DEF DriverDies, OverInv
    <3>2. ~late' => Over'
      BY <3>1 DEF OverInv, Over
    <3> QED
      BY <3>1, <3>2 DEF OverInv
  <2>4. CASE AskContinue \/ AskRetry \/ SelectRetry \/ AskResume
    BY <2>4, AskKeepsOver DEF SelectRetry
  <2>5. CASE Reopen
    BY <2>5, ReopenKeepsOver
  <2>6. CASE AskCancel
    BY <2>6, AskCancelKeepsOver
  <2>7. CASE RecordCancel
    BY <2>7, RecordCancelKeepsOver
  <2>8. CASE Answer \/ ClearCancel \/ UNCHANGED rcVars
    <3>1. UNCHANGED <<trail, run, opening, cancel, late>>
      BY <2>8 DEF Answer, ClearCancel, rcVars
    <3> QED
      BY <3>1 DEF OverInv, Over
  <2> QED
    BY <2>1, <2>2, <2>3, <2>4, <2>5, <2>6, <2>7, <2>8 DEF RCNext
<1>3. OverInv => CompletedIsFinal
  <2> SUFFICES ASSUME OverInv, ~late, NEW i \in DOMAIN trail, NEW j \in DOMAIN trail, i < j,
                      trail[i].type = "workflow.completed"
               PROVE  FALSE
    BY DEF CompletedIsFinal
  <2>1. PICK n \in Nat : n = Len(trail) /\ DOMAIN trail = 1 .. n
    BY DEF OverInv, Listed
  <2>2. i = n
    BY <2>1 DEF OverInv, Over
  <2> QED
    BY <2>1, <2>2
<1> QED
  BY <1>1, <1>2, <1>3, PTL DEF RCSpec

(***************************************************************************)
(* The state of a run: what holds of the trail and of the driver whatever  *)
(* the replays do.                                                         *)
(***************************************************************************)
RecordedOK(p, e) ==
    /\ Listed(e) /\ Len(e) # 0 /\ TrailOK(p, e)
    /\ \A i \in DOMAIN e : e[i].type = "wait.started" => e[i].index \in 1 .. Count(e)
    /\ \A s \in DOMAIN p : FailedAttempts(e, s) \in Nat /\ FailedAttempts(e, s) < MaxTries
PlacedOK(p, r) ==
    /\ r = At(r, r.pc) /\ r.index \in Nat /\ r.pc \in {"off", "step", "phase", "failed", "cancelled"}
    /\ r.node \in Node(p) /\ r.value \in Value /\ r.waits \in [WaitId -> 0 .. 2]
    /\ r.pc = "step" => r = At(Fresh(r.node), "step")
    /\ r.index = 0 => r.pc \in {"step", "off", "cancelled"}
    /\ r.pc = "phase" => r.node.step \in DOMAIN p /\ r.at \in DOMAIN Phases(p, r.node.step)
Answerable(e, a) == \E i \in DOMAIN e : e[i].type = "wait.started" /\ e[i].index = a.index /\ e[i].wait = a.wait
Base ==
    /\ RCTypeOK /\ RecordedOK(prog, trail) /\ PlacedOK(prog, run)
    /\ run.index <= Count(trail)
    /\ used = [opens |-> used.opens, cancels |-> used.cancels]
    /\ opening.kind # "none" =>
        /\ run.pc = "off"
        /\ \A i \in DOMAIN trail : i > opening.read => trail[i].type \in CancelEvent
    /\ \A a \in answers : Answerable(trail, a)

\* An event is appended.
LEMMA AppendGrows ==
    ASSUME NEW e, Listed(e), NEW v
    PROVE  Listed(Append(e, v)) /\ Grows(e, Append(e, v), v)
<1> DEFINE S == {e[i] : i \in DOMAIN e} \cup {v}
<1>1. e \in Seq({e[i] : i \in DOMAIN e})
  BY DEF Listed
<1>2. PICK n \in Nat : n = Len(e) /\ DOMAIN e = 1 .. n
  BY <1>1
<1>3. e \in [1 .. n -> S]
  BY <1>1, <1>2
<1>4. e \in Seq(S) /\ v \in S
  BY <1>3
<1> HIDE DEF S
<1>5. PICK f \in Seq(S) : f = Append(e, v)
  BY <1>4, AppendProperties
<1>6. Listed(f)
  BY ListedTail
<1>7. Len(f) = n + 1 /\ (\A i \in 1 .. n : f[i] = e[i]) /\ f[n + 1] = v
  BY <1>2, <1>4, <1>5, AppendProperties
<1>8. DOMAIN f = 1 .. n + 1
  BY <1>5, <1>7
<1> QED
  BY <1>2, <1>5, <1>6, <1>7, <1>8 DEF Grows

\* The failed attempts of a step are counted an event at a time.
LEMMA FailedAttemptsGrow ==
    ASSUME NEW e, NEW f, NEW v, Grows(e, f, v), NEW s, FailedAttempts(e, s) \in Nat
    PROVE  FailedAttempts(f, s) = IF v.type = "step.attemptFailed" /\ v.step = s THEN FailedAttempts(e, s) + 1
                                  ELSE FailedAttempts(e, s)
<1>1. PICK n \in Nat : n = Len(e) /\ DOMAIN e = 1 .. n /\ DOMAIN f = 1 .. n + 1 /\ (\A i \in 1 .. n : f[i] = e[i]) /\ f[n + 1] = v
  BY DEF Grows
<1>2. PICK S, T : /\ S = {i \in DOMAIN e : e[i].type = "step.attemptFailed" /\ e[i].step = s}
                  /\ T = {i \in DOMAIN f : f[i].type = "step.attemptFailed" /\ f[i].step = s}
  OBVIOUS
<1>3. \A i \in 1 .. n + 1 : i \in 1 .. n \/ i = n + 1
  OBVIOUS
<1>4. n + 1 \notin S /\ S \subseteq 1 .. n
  BY <1>1, <1>2
<1>5. CASE v.type = "step.attemptFailed" /\ v.step = s
  <2>1. T = S \cup {n + 1}
    BY <1>1, <1>2, <1>3, <1>5
  <2>2. IsFiniteSet(1 .. n)
    BY FS_Interval
  <2>3. IsFiniteSet(S)
    BY <1>4, <2>2, FS_Subset
  <2>4. Cardinality(T) = Cardinality(S) + 1
    BY <1>4, <2>1, <2>3, FS_AddElement
  <2> QED
    BY <1>2, <1>5, <2>4 DEF FailedAttempts
<1>6. CASE ~(v.type = "step.attemptFailed" /\ v.step = s)
  <2>1. T = S
    BY <1>1, <1>2, <1>3, <1>6
  <2> QED
    BY <1>2, <1>6, <2>1 DEF FailedAttempts
<1> QED
  BY <1>5, <1>6

\* So are the starts.
LEMMA CountGrows ==
    ASSUME NEW p, NEW e, NEW f, NEW v, Grows(e, f, v), TrailOK(p, e)
    PROVE  /\ Count(e) \in Nat /\ Count(f) \in Nat /\ Count(e) <= Count(f)
           /\ v.type = "step.started" => Count(f) = Count(e) + 1
<1>1. Count(e) \in Nat
  BY StartsCounted DEF Count
<1>2. CASE v.type = "step.started"
  BY <1>1, <1>2, StartOpens
<1>3. CASE v.type # "step.started"
  BY <1>1, <1>3, StartsGrow
<1> QED
  BY <1>1, <1>2, <1>3

\* An event the program may write.
Writes(p, e, v) ==
    /\ EventOK(p, v)
    /\ v.type = "workflow.retryStarted" => v.source \in 0 .. Len(e)
    /\ v.type = "wait.started" => v.index \in 1 .. Count(e)
    /\ v.type = "step.attemptFailed" => FailedAttempts(e, v.step) + 1 < MaxTries

\* The trail stays one the program can have written.
LEMMA RecordedGrows ==
    ASSUME NEW p, NEW e, RecordedOK(p, e), NEW v, Writes(p, e, v), NEW f, f = Append(e, v)
    PROVE  RecordedOK(p, f) /\ Grows(e, f, v)
<1>1. Listed(f) /\ Grows(e, f, v)
  BY AppendGrows DEF RecordedOK
<1>2. TrailOK(p, f)
  BY <1>1, TrailGrows DEF RecordedOK, Writes
<1>3. Len(f) # 0
  BY <1>1 DEF Grows
<1>4. ASSUME NEW i \in DOMAIN f, f[i].type = "wait.started" PROVE f[i].index \in 1 .. Count(f)
  <2>1. PICK n \in Nat : n = Len(e) /\ DOMAIN e = 1 .. n /\ DOMAIN f = 1 .. n + 1 /\ (\A k \in 1 .. n : f[k] = e[k]) /\ f[n + 1] = v
    BY <1>1 DEF Grows
  <2>2. i \in 1 .. n \/ i = n + 1
    BY <2>1
  <2>3. Count(e) \in Nat /\ Count(f) \in Nat /\ Count(e) <= Count(f)
    BY <1>1, CountGrows DEF RecordedOK
  <2>4. f[i].index \in 1 .. Count(e)
    BY <1>4, <2>1, <2>2 DEF RecordedOK, Writes
  <2> QED
    BY <2>3, <2>4
<1>5. ASSUME NEW s \in DOMAIN p PROVE FailedAttempts(f, s) \in Nat /\ FailedAttempts(f, s) < MaxTries
  <2>1. FailedAttempts(e, s) \in Nat /\ FailedAttempts(e, s) < MaxTries
    BY DEF RecordedOK
  <2>2. FailedAttempts(f, s) = IF v.type = "step.attemptFailed" /\ v.step = s THEN FailedAttempts(e, s) + 1
                               ELSE FailedAttempts(e, s)
    BY <1>1, <2>1, FailedAttemptsGrow
  <2>3. v.type = "step.attemptFailed" /\ v.step = s => FailedAttempts(e, s) + 1 < MaxTries
    BY DEF Writes
  <2> QED
    BY <2>1, <2>2, <2>3
<1> QED
  BY <1>1, <1>2, <1>3, <1>4, <1>5 DEF RecordedOK

\* What the driver writes leaves the rest of the state as it was.
LEMMA BaseDrives ==
    ASSUME Base, opening.kind = "none", DriverOnly, request' \in BOOLEAN, RecordedOK(prog, trail'), PlacedOK(prog, run'),
           run'.index <= Count(trail'), Len(trail) <= Len(trail'), \A i \in DOMAIN trail : trail'[i] = trail[i]
    PROVE  Base'
<1>1. /\ prog' = prog /\ answers' = answers /\ opening' = opening /\ cancel' = cancel /\ used' = used
      /\ strayed' = strayed /\ late' = late
  BY DEF DriverOnly
<1>2. /\ Len(trail) \in Nat /\ DOMAIN trail = 1 .. Len(trail) /\ Len(trail') \in Nat /\ DOMAIN trail' = 1 .. Len(trail')
  BY DEF Base, RecordedOK, TrailOK
<1>3. RCTypeOK'
  <2>1. RCTypeOK
    BY DEF Base
  <2>2. 0 .. 2 = Value \cup {0}
    BY DEF Value
  <2>3. cancel \in 0 .. Len(trail') /\ opening.read \in 0 .. Len(trail')
    BY <1>2, <2>1 DEF RCTypeOK
  <2>4. /\ run'.pc \in {"off", "step", "phase", "failed", "cancelled"}
        /\ run'.node.step \in DOMAIN prog \cup {Done} /\ run'.node.input \in Value
        /\ run'.value \in Value /\ run'.waits \in [WaitId -> Value \cup {0}]
    BY <2>2 DEF PlacedOK, Node
  <2> QED
    BY <1>1, <2>1, <2>3, <2>4 DEF RCTypeOK, Steps
<1>4. \A a \in answers : Answerable(trail', a)
  <2>1. DOMAIN trail \subseteq DOMAIN trail'
    BY <1>2
  <2> QED
    BY <2>1 DEF Base, Answerable
<1> QED
  BY <1>1, <1>3, <1>4 DEF Base

\* Where a step of the driver leaves the run.
IsAt(t, pc, node, at, value, waits, index) ==
    /\ t = At(t, t.pc) /\ t.pc = pc /\ t.node = node /\ t.at = at /\ t.value = value /\ t.waits = waits /\ t.index = index

\* Where each way the driver moves leaves the run.
LEMMA RunMoves ==
    ASSUME NEW r, r = At(r, r.pc)
    PROVE  /\ \A x : IsAt([r EXCEPT !.pc = x], x, r.node, r.at, r.value, r.waits, r.index)
           /\ \A x : IsAt([r EXCEPT !.pc = "phase", !.index = x], "phase", r.node, r.at, r.value, r.waits, x)
           /\ IsAt(Onward(r), r.pc, r.node, r.at + 1, r.value, r.waits, r.index)
           /\ \A x : IsAt(Onward([r EXCEPT !.value = x]), r.pc, r.node, r.at + 1, x, r.waits, r.index)
           /\ \A h, x : IsAt(Onward([r EXCEPT !.waits[h] = x]), r.pc, r.node, r.at + 1, r.value, [r.waits EXCEPT ![h] = x], r.index)
           /\ \A x : IsAt([r EXCEPT !.at = 1, !.value = x], r.pc, r.node, 1, x, r.waits, r.index)
<1>1. PICK pc, node, at, value, waits, index :
          r = [pc |-> pc, node |-> node, at |-> at, value |-> value, waits |-> waits, index |-> index]
  BY DEF At
<1>2. \A x : IsAt([r EXCEPT !.pc = x], x, r.node, r.at, r.value, r.waits, r.index)
  BY <1>1 DEF IsAt, At
<1>3. ASSUME NEW x PROVE IsAt([r EXCEPT !.pc = "phase", !.index = x], "phase", r.node, r.at, r.value, r.waits, x)
  <2>1. [r EXCEPT !.pc = "phase", !.index = x] =
            [pc |-> "phase", node |-> node, at |-> at, value |-> value, waits |-> waits, index |-> x]
    <3>1. PICK u : u = [r EXCEPT !.pc = "phase"]
      OBVIOUS
    <3>2. u = [pc |-> "phase", node |-> node, at |-> at, value |-> value, waits |-> waits, index |-> index]
      BY <1>1, <3>1
    <3>3. [u EXCEPT !.index = x] = [pc |-> "phase", node |-> node, at |-> at, value |-> value, waits |-> waits, index |-> x]
      BY <3>2
    <3>4. [r EXCEPT !.pc = "phase", !.index = x] = [u EXCEPT !.index = x]
      BY <1>1, <3>1
    <3> QED
      BY <3>3, <3>4
  <2> QED
    BY <1>1, <2>1 DEF IsAt, At
<1>4. IsAt(Onward(r), r.pc, r.node, r.at + 1, r.value, r.waits, r.index)
  BY <1>1 DEF IsAt, At, Onward
<1>5. ASSUME NEW x PROVE IsAt(Onward([r EXCEPT !.value = x]), r.pc, r.node, r.at + 1, x, r.waits, r.index)
  <2>1. PICK u : u = [r EXCEPT !.value = x]
    OBVIOUS
  <2>2. u = [pc |-> pc, node |-> node, at |-> at, value |-> x, waits |-> waits, index |-> index]
    BY <1>1, <2>1
  <2>3. IsAt(Onward(u), r.pc, r.node, r.at + 1, x, r.waits, r.index)
    BY <1>1, <2>2 DEF IsAt, At, Onward
  <2> QED
    BY <2>1, <2>3
<1>6. ASSUME NEW h, NEW x
      PROVE  IsAt(Onward([r EXCEPT !.waits[h] = x]), r.pc, r.node, r.at + 1, r.value, [r.waits EXCEPT ![h] = x], r.index)
  <2>1. PICK u : u = [r EXCEPT !.waits[h] = x]
    OBVIOUS
  <2>2. u = [pc |-> pc, node |-> node, at |-> at, value |-> value, waits |-> [waits EXCEPT ![h] = x], index |-> index]
    BY <1>1, <2>1
  <2>3. IsAt(Onward(u), r.pc, r.node, r.at + 1, r.value, [r.waits EXCEPT ![h] = x], r.index)
    BY <1>1, <2>2 DEF IsAt, At, Onward
  <2> QED
    BY <2>1, <2>3
<1>7. ASSUME NEW x PROVE IsAt([r EXCEPT !.at = 1, !.value = x], r.pc, r.node, 1, x, r.waits, r.index)
  <2>1. [r EXCEPT !.at = 1, !.value = x] =
            [pc |-> pc, node |-> node, at |-> 1, value |-> x, waits |-> waits, index |-> index]
    <3>1. PICK u : u = [r EXCEPT !.at = 1]
      OBVIOUS
    <3>2. u = [pc |-> pc, node |-> node, at |-> 1, value |-> value, waits |-> waits, index |-> index]
      BY <1>1, <3>1
    <3>3. [u EXCEPT !.value = x] = [pc |-> pc, node |-> node, at |-> 1, value |-> x, waits |-> waits, index |-> index]
      BY <3>2
    <3>4. [r EXCEPT !.at = 1, !.value = x] = [u EXCEPT !.value = x]
      BY <1>1, <3>1
    <3> QED
      BY <3>3, <3>4
  <2> QED
    BY <1>1, <2>1 DEF IsAt, At
<1> QED
  BY <1>2, <1>3, <1>4, <1>5, <1>6, <1>7

\* A step is started from its input, with no wait answered.
LEMMA FreshIs ==
    ASSUME NEW node, NEW pc
    PROVE  IsAt(At(Fresh(node), pc), pc, node, 1, node.input, Unanswered, 0)
BY DEF At, Fresh, NoPlace, IsAt

\* The driver at a phase of its step.
LEMMA DrivingIs ==
    ASSUME Base, run.pc = "phase"
    PROVE  /\ InPhase(prog, trail, run) /\ run = At(run, run.pc) /\ run.index \in Nat \ {0} /\ run.index \in 1 .. Count(trail) /\ PhaseAt(prog, run) = Here
           /\ WellBuilt(prog) /\ run.node \in Node(prog) /\ run.node.step \in DOMAIN prog
           /\ run.value \in Value /\ run.waits \in [WaitId -> 0 .. 2]
           /\ DOMAIN Phases(prog, run.node.step) = 1 .. Len(Phases(prog, run.node.step))
           /\ Len(Phases(prog, run.node.step)) \in Nat \ {0} /\ run.at \in 1 .. Len(Phases(prog, run.node.step))
           /\ Here \in Phase /\ (Here \notin {"do", "once"} => run.at + 1 \in DOMAIN Phases(prog, run.node.step))
<1>1. WellBuilt(prog)
  BY DEF Base, RecordedOK, TrailOK
<1>2. /\ InPhase(prog, trail, run) /\ run = At(run, run.pc) /\ run.index \in Nat \ {0} /\ run.node \in Node(prog)
      /\ run.node.step \in DOMAIN prog /\ run.value \in Value /\ run.waits \in [WaitId -> 0 .. 2]
  BY DEF Base, PlacedOK, InPhase
<1>3. PICK phases, n : phases = Phases(prog, run.node.step) /\ n = Len(phases)
  OBVIOUS
<1>4. /\ n \in Nat \ {0} /\ DOMAIN phases = 1 .. n /\ (\A i \in DOMAIN phases : phases[i] \in Phase)
      /\ \A i \in DOMAIN phases : phases[i] \in {"do", "once"} <=> i = n
  BY <1>1, <1>2, <1>3, PhasesOf
<1>5. run.at \in 1 .. n /\ Here = phases[run.at]
  BY <1>2, <1>3, <1>4 DEF InPhase, Here
<1>6. Here \notin {"do", "once"} => run.at + 1 \in 1 .. n
  BY <1>4, <1>5
<1>7. run.index \in 1 .. Count(trail)
  <2>1. Count(trail) \in Nat
    BY StartsCounted DEF Count, Base, RecordedOK
  <2> QED
    BY <1>2, <2>1 DEF Base
<1> QED
  BY <1>1, <1>2, <1>3, <1>4, <1>5, <1>6, <1>7 DEF PhaseAt, Here

\* An event of the step the driver executes.
LEMMA OfStepIs ==
    ASSUME Base, run.pc = "phase", NEW type, NEW out, NEW wait
    PROVE  LET v == OfStep(type, out, wait)
           IN  /\ v.type = type /\ v.step = run.node.step /\ v.out = out /\ v.wait = wait /\ v.index = run.index
               /\ /\ type \in StepEvent /\ type \notin {"step.attemptFailed", "workflow.retryStarted"}
                  /\ type = "step.completed" /\ Has(prog, run.node.step, {"prompt"}) => out \in Value
                  /\ type = "wait.satisfied" => out \in Value
                  /\ type = "wait.started" => Here \in WaitId /\ wait = Here
                  => Writes(prog, trail, v)
<1>1. PICK v : v = OfStep(type, out, wait)
  OBVIOUS
<1>2. v.type = type /\ v.step = run.node.step /\ v.out = out /\ v.wait = wait /\ v.index = run.index
  BY <1>1 DEF OfStep, Ev
<1>3. run.node.step \in DOMAIN prog /\ run.index \in 1 .. Count(trail)
  BY DrivingIs
<1>4. Here \in WaitId /\ wait = Here => \E i \in Waits(prog, run.node.step) : Phases(prog, run.node.step)[i] = wait
  BY DrivingIs DEF Waits, Here
<1> QED
  BY <1>1, <1>2, <1>3, <1>4 DEF Writes, EventOK

\* An event of the run.
LEMMA OfRunIs ==
    ASSUME NEW type, type \notin StepEvent, type # "workflow.retryStarted"
    PROVE  OfRun(type).type = type /\ OfRun(type).step = "none" /\ Writes(prog, trail, OfRun(type))
<1>1. PICK v : v = OfRun(type)
  OBVIOUS
<1>2. v.type = type /\ v.step = "none"
  BY <1>1 DEF OfRun, Ev
<1>3. type \notin {"step.completed", "wait.satisfied", "wait.started", "step.attemptFailed"}
  BY DEF StepEvent, DriverEvent
<1>4. EventOK(prog, v)
  BY <1>2, <1>3 DEF EventOK
<1> QED
  BY <1>1, <1>2, <1>3, <1>4 DEF Writes

\* What the two replays keep of a trail that grows by an event that is no retry.
LEMMA KeptAlike ==
    ASSUME NEW p, NEW e, NEW f, NEW v, Grows(e, f, v), TrailOK(p, e), TrailOK(p, f),
           v.type # "workflow.retryStarted"
    PROVE  /\ Unretried(e) \subseteq DOMAIN e /\ Unretried(f) \subseteq DOMAIN f
           /\ \A i \in DOMAIN e : i \in Unretried(f) <=> i \in Unretried(e)
           /\ \A i \in DOMAIN e : i \in DOMAIN f <=> i \in DOMAIN e
<1>1. \A i \in DOMAIN e : i \in DOMAIN f
  BY DEF Grows
<1> QED
  BY <1>1, UnretriedGrows, RetriedIs

\* An event of the attempt the run is in.
LEMMA SoundInside ==
    ASSUME NEW p, NEW e, NEW f, NEW v, NEW r, NEW t, Grows(e, f, v), TrailOK(p, e), TrailOK(p, f),
           v.type \notin {"step.started", "workflow.retryStarted"}, Sound(p, e, r),
           t.node = r.node, r.index # 0, t.index # 0, Straight(p, f) /\ Body(p, e, r) => Body(p, f, t)
    PROVE  Sound(p, f, t)
<1>1. PICK U, V, D, F : U = Unretried(e) /\ V = Unretried(f) /\ D = DOMAIN e /\ F = DOMAIN f
  OBVIOUS
<1>2. /\ U \subseteq DOMAIN e /\ V \subseteq DOMAIN f /\ (\A i \in DOMAIN e : i \in V <=> i \in U)
      /\ D \subseteq DOMAIN e /\ F \subseteq DOMAIN f /\ (\A i \in DOMAIN e : i \in F <=> i \in D)
  BY <1>1, KeptAlike
<1>3. ASSUME Straight(p, f) PROVE Body(p, f, t) /\ Follows(p, f, t, V)
  <2>1. Body(p, e, r) /\ Follows(p, e, r, U)
    BY <1>1, <1>3, StraightShrinks DEF Sound
  <2> QED
    BY <1>2, <1>3, <2>1, FollowsPrompt
<1>4. ASSUME Plain(p, f) PROVE Follows(p, f, t, F)
  <2>1. Follows(p, e, r, D)
    BY <1>1, <1>4, StraightShrinks DEF Sound
  <2> QED
    BY <1>2, <2>1, FollowsPrompt
<1> QED
  BY <1>1, <1>3, <1>4 DEF Sound

\* The trail stays as it is, and the run at its node.
LEMMA SoundStill ==
    ASSUME NEW p, NEW e, NEW r, NEW t, Sound(p, e, r), t.node = r.node, t.index = r.index,
           Straight(p, e) /\ Body(p, e, r) => Body(p, e, t)
    PROVE  Sound(p, e, t)
<1>1. \A K : Follows(p, e, r, K) => Follows(p, e, t, K)
  BY DEF Follows, FollowsTo, Left
<1> QED
  BY <1>1 DEF Sound

\* The start of a step.
LEMMA SoundStarts ==
    ASSUME NEW p, NEW e, NEW f, NEW v, NEW r, NEW t, Grows(e, f, v), TrailOK(p, e), TrailOK(p, f),
           v.type = "step.started", Sound(p, e, r), t.node = r.node, r.index = 0, t.index # 0,
           Body(p, e, r) => Body(p, f, t)
    PROVE  Sound(p, f, t)
<1>1. PICK U, V, D, F : U = Unretried(e) /\ V = Unretried(f) /\ D = DOMAIN e /\ F = DOMAIN f
  OBVIOUS
<1>2. /\ U \subseteq DOMAIN e /\ V \subseteq DOMAIN f /\ (\A i \in DOMAIN e : i \in V <=> i \in U)
      /\ D \subseteq DOMAIN e /\ F \subseteq DOMAIN f /\ (\A i \in DOMAIN e : i \in F <=> i \in D)
  BY <1>1, KeptAlike
<1>3. ASSUME Straight(p, f) PROVE Body(p, f, t) /\ Follows(p, f, t, V)
  <2>1. Body(p, e, r) /\ Follows(p, e, r, U)
    BY <1>1, <1>3, StraightShrinks DEF Sound
  <2> QED
    BY <1>2, <2>1, FollowsStart
<1>4. ASSUME Plain(p, f) PROVE Follows(p, f, t, F)
  <2>1. Follows(p, e, r, D)
    BY <1>1, <1>4, StraightShrinks DEF Sound
  <2> QED
    BY <1>2, <2>1, FollowsStart
<1> QED
  BY <1>1, <1>3, <1>4 DEF Sound

\* The do phase of a step with a prompt.
LEMMA SoundDonePrompted ==
    ASSUME NEW p, NEW e, NEW r, NEW t, TrailOK(p, e), Sound(p, e, r), InPhase(p, e, r),
           PhaseAt(p, r) \in {"do", "once"}, Has(p, r.node.step, {"prompt"}), t.index = 0,
           t.node = DoPhase(p, r.node.step, r.value, r.waits)
    PROVE  Sound(p, e, t)
<1>1. ASSUME Straight(p, e), NEW K, K \subseteq DOMAIN e, \A i \in DOMAIN e : LastStart(e) <= i => i \in K,
             Follows(p, e, r, K)
      PROVE  Follows(p, e, t, K)
  <2>1. Body(p, e, r) /\ ~CancelledThenCompleted(e)
    BY <1>1 DEF Sound, Straight
  <2>2. Step(e) = r.node.step
    BY <2>1, PhaseIs
  <2> QED
    BY <1>1, <2>1, <2>2, FollowsDonePrompted
<1>2. ASSUME Straight(p, e) PROVE Body(p, e, t) /\ Follows(p, e, t, Unretried(e))
  <2>1. Body(p, e, r) /\ Follows(p, e, r, Unretried(e)) /\ Unretried(e) \subseteq DOMAIN e
    BY <1>2, RetriedIs DEF Sound
  <2>2. LastStart(e) # 0 /\ Regained(e) = {} /\ Step(e) = r.node.step
    BY <2>1, PhaseIs
  <2>3. \A i \in DOMAIN e : LastStart(e) <= i => i \in Unretried(e)
    BY <2>2, LastAttemptKept
  <2>4. Body(p, e, t)
    BY <2>1, <2>2, DonePrompted
  <2> QED
    BY <1>1, <1>2, <2>1, <2>3, <2>4
<1>3. ASSUME Plain(p, e) PROVE Follows(p, e, t, DOMAIN e)
  <2>1. Straight(p, e) /\ Follows(p, e, r, DOMAIN e)
    BY <1>3 DEF Sound, Plain
  <2>2. PICK K : K = DOMAIN e
    OBVIOUS
  <2> QED
    BY <1>1, <2>1, <2>2
<1> QED
  BY <1>2, <1>3 DEF Sound

\* The do phase of a step without a prompt.
LEMMA SoundDonePlain ==
    ASSUME NEW p, NEW e, NEW f, NEW v, NEW r, NEW t, Grows(e, f, v), TrailOK(p, e), TrailOK(p, f), Sound(p, e, r),
           InPhase(p, e, r), PhaseAt(p, r) \in {"do", "once"}, ~Has(p, r.node.step, {"prompt"}), t.index = 0,
           v.type = "step.completed", v.step = r.node.step,
           t.node = DoPhase(p, r.node.step, r.value, r.waits)
    PROVE  Sound(p, f, t)
<1>1. PICK U, V, D, F : U = Unretried(e) /\ V = Unretried(f) /\ D = DOMAIN e /\ F = DOMAIN f
  OBVIOUS
<1>2. /\ U \subseteq DOMAIN e /\ V \subseteq DOMAIN f /\ (\A i \in DOMAIN e : i \in V <=> i \in U)
      /\ D \subseteq DOMAIN e /\ F \subseteq DOMAIN f /\ (\A i \in DOMAIN e : i \in F <=> i \in D)
  BY <1>1, KeptAlike
<1>3. ASSUME Straight(p, f)
      PROVE  /\ Body(p, e, r) /\ Body(p, f, t) /\ ~CancelledThenCompleted(f) /\ Follows(p, e, r, U)
             /\ Step(e) = r.node.step /\ \A i \in DOMAIN f : LastStart(f) <= i => i \in V
  <2>1. Body(p, e, r) /\ Follows(p, e, r, U) /\ ~CancelledThenCompleted(f)
    BY <1>1, <1>3, StraightShrinks DEF Sound, Straight
  <2>2. LastStart(e) # 0 /\ Regained(e) = {} /\ Step(e) = r.node.step
    BY <2>1, PhaseIs
  <2>3. Body(p, f, t)
    BY <2>1, <2>2, DonePlain
  <2>4. LastStart(f) # 0 /\ Regained(f) = {}
    BY <2>2, StartsGrow, AttemptStays
  <2> QED
    BY <1>1, <2>1, <2>2, <2>3, <2>4, LastAttemptKept
<1>4. ASSUME Straight(p, f) PROVE Body(p, f, t) /\ Follows(p, f, t, V)
  BY <1>2, <1>3, <1>4, FollowsDonePlain
<1>5. ASSUME Plain(p, f) PROVE Follows(p, f, t, F)
  <2>1. Straight(p, f) /\ Follows(p, e, r, D)
    BY <1>1, <1>5, StraightShrinks DEF Sound, Plain
  <2>2. \A i \in DOMAIN f : LastStart(f) <= i => i \in F
    BY <1>1
  <2> QED
    BY <1>2, <1>3, <2>1, <2>2, FollowsDonePlain
<1> QED
  BY <1>1, <1>4, <1>5 DEF Sound

\* The driver writes one event: the state stays one the program can be in.
LEMMA EmitsAny ==
    ASSUME Base, opening.kind = "none", DriverOnly, request' \in BOOLEAN,
           NEW v, Writes(prog, trail, v), trail' = Append(trail, v), PlacedOK(prog, run'),
           run'.index <= (IF v.type = "step.started" THEN Count(trail) + 1 ELSE Count(trail))
    PROVE  Base' /\ Grows(trail, trail', v) /\ TrailOK(prog, trail) /\ TrailOK(prog, trail') /\ prog' = prog
<1>1. RecordedOK(prog, trail)
  BY DEF Base
<1>2. RecordedOK(prog, trail') /\ Grows(trail, trail', v)
  BY <1>1, RecordedGrows
<1>3. Len(trail) <= Len(trail') /\ \A i \in DOMAIN trail : trail'[i] = trail[i]
  BY <1>2 DEF Grows
<1>4. run'.index <= Count(trail')
  <2>1. /\ Count(trail) \in Nat /\ Count(trail') \in Nat /\ Count(trail) <= Count(trail')
        /\ v.type = "step.started" => Count(trail') = Count(trail) + 1
    <3>1. PICK e, f : e = trail /\ f = trail'
      OBVIOUS
    <3> QED
      BY <1>1, <1>2, <3>1, CountGrows DEF RecordedOK
  <2>2. run'.index \in Nat
    BY DEF PlacedOK
  <2> QED
    BY <2>1, <2>2
<1>5. Base'
  BY <1>2, <1>3, <1>4, BaseDrives
<1> QED
  BY <1>1, <1>2, <1>5 DEF RecordedOK, DriverOnly

\* The same within an attempt, or at its end.
LEMMA EmitsBase ==
    ASSUME Base, opening.kind = "none", DriverOnly, request' \in BOOLEAN,
           NEW v, Writes(prog, trail, v), trail' = Append(trail, v), PlacedOK(prog, run'), run'.index \in {0, run.index}
    PROVE  Base' /\ Grows(trail, trail', v) /\ TrailOK(prog, trail) /\ TrailOK(prog, trail') /\ prog' = prog
<1>1. Count(trail) \in Nat
  BY StartsCounted DEF Count, Base, RecordedOK
<1>2. run.index <= Count(trail) /\ run.index \in Nat
  BY DEF Base, PlacedOK
<1>3. run'.index <= (IF v.type = "step.started" THEN Count(trail) + 1 ELSE Count(trail))
  BY <1>1, <1>2
<1> QED
  BY <1>3, EmitsAny

\* The same for the start of a step.
LEMMA StartsBase ==
    ASSUME Base, opening.kind = "none", DriverOnly, request' \in BOOLEAN,
           NEW v, Writes(prog, trail, v), trail' = Append(trail, v), PlacedOK(prog, run'),
           v.type = "step.started", run'.index = Count(trail) + 1
    PROVE  Base' /\ Grows(trail, trail', v) /\ TrailOK(prog, trail) /\ TrailOK(prog, trail') /\ prog' = prog
<1>1. Count(trail) \in Nat
  BY StartsCounted DEF Count, Base, RecordedOK
<1>2. run'.index <= (IF v.type = "step.started" THEN Count(trail) + 1 ELSE Count(trail))
  BY <1>1
<1> QED
  BY <1>2, EmitsAny

\* The same when the driver writes nothing.
LEMMA StillBase ==
    ASSUME Base, opening.kind = "none", DriverOnly, request' \in BOOLEAN, trail' = trail, PlacedOK(prog, run'),
           run'.index \in {0, run.index}
    PROVE  Base' /\ TrailOK(prog, trail) /\ prog' = prog
<1>1. RecordedOK(prog, trail)
  BY DEF Base
<1>2. Len(trail) <= Len(trail')
  BY <1>1 DEF RecordedOK, TrailOK
<1>3. run'.index <= Count(trail')
  <2>1. Count(trail) \in Nat /\ run.index <= Count(trail)
    BY <1>1, StartsCounted DEF Count, RecordedOK, Base
  <2> QED
    BY <2>1
<1>4. Base'
  BY <1>1, <1>2, <1>3, BaseDrives
<1> QED
  BY <1>1, <1>4 DEF RecordedOK, DriverOnly

\* While the driver runs, no command is opening the run.
LEMMA DriverBase ==
    ASSUME Base, Driving, DriverOnly, request' = request
    PROVE  opening.kind = "none" /\ request' \in BOOLEAN /\ prog' = prog
BY DEF Base, RCTypeOK, Driving, DriverOnly

\* The output of a prompt.
LEMMA PromptKeeps ==
    ASSUME Base, Prompt
    PROVE  Base' /\ (Sound(prog, trail, run) => Sound(prog, trail', run'))
<1>1. opening.kind = "none" /\ request' \in BOOLEAN /\ DriverOnly /\ run.pc = "phase" /\ Here = "prompt"
  BY DriverBase DEF Prompt
<1>2. PICK out, v : /\ out \in Value /\ v = OfStep("step.completed", out, "none") /\ trail' = Append(trail, v)
                    /\ run' = Onward([run EXCEPT !.value = out])
  BY DEF Prompt, Emit
<1>3. v.type = "step.completed" /\ v.step = run.node.step /\ v.out = out /\ Writes(prog, trail, v)
  BY <1>1, <1>2, OfStepIs DEF StepEvent, DriverEvent
<1>4. PICK r, t : r = run /\ t = run'
  OBVIOUS
<1>5. IsAt(t, "phase", r.node, r.at + 1, out, r.waits, r.index)
  BY <1>1, <1>2, <1>4, DrivingIs, RunMoves
<1>6. InPhase(prog, trail, r) /\ PhaseAt(prog, r) = "prompt" /\ r.index # 0 /\ r.index \in Nat
  BY <1>1, <1>4, DrivingIs
<1>7. PlacedOK(prog, t)
  BY <1>1, <1>2, <1>4, <1>5, DrivingIs DEF PlacedOK, IsAt
<1>8. Base' /\ Grows(trail, trail', v) /\ TrailOK(prog, trail) /\ TrailOK(prog, trail')
  BY <1>1, <1>2, <1>3, <1>4, <1>5, <1>7, EmitsBase DEF IsAt
<1>9. Straight(prog, trail') /\ Body(prog, trail, r) => Body(prog, trail', t)
  <2>1. PICK e, f : e = trail /\ f = trail'
    OBVIOUS
  <2> QED
    BY <1>2, <1>3, <1>4, <1>5, <1>6, <1>8, <2>1, PromptAnswered DEF IsAt, Straight
<1>10. Sound(prog, trail, r) => Sound(prog, trail', t)
  <2>1. PICK e, f : e = trail /\ f = trail'
    OBVIOUS
  <2> QED
    BY <1>3, <1>5, <1>6, <1>8, <1>9, <2>1, SoundInside DEF IsAt
<1> QED
  BY <1>4, <1>8, <1>10

\* The driver finds the cancellation request and stops its step.
LEMMA CancelStepKeeps ==
    ASSUME Base, CancelStep
    PROVE  Base' /\ (Sound(prog, trail, run) => Sound(prog, trail', run'))
<1>1. opening.kind = "none" /\ request' \in BOOLEAN /\ DriverOnly /\ run.pc = "phase"
  BY DriverBase DEF CancelStep
<1>2. PICK v : /\ v = OfStep("step.cancelled", 0, "none") /\ trail' = Append(trail, v)
               /\ run' = [run EXCEPT !.pc = "cancelled"]
  BY DEF CancelStep, Emit
<1>3. v.type = "step.cancelled" /\ v.step = run.node.step /\ Writes(prog, trail, v)
  BY <1>1, <1>2, OfStepIs DEF StepEvent, DriverEvent
<1>4. PICK e, f, r, t : e = trail /\ f = trail' /\ r = run /\ t = run'
  OBVIOUS
<1>5. IsAt(t, "cancelled", r.node, r.at, r.value, r.waits, r.index)
  BY <1>1, <1>2, <1>4, DrivingIs, RunMoves
<1>6. InPhase(prog, e, r) /\ r.index # 0 /\ r.index \in Nat
  BY <1>1, <1>4, DrivingIs
<1>7. PlacedOK(prog, t)
  BY <1>1, <1>4, <1>5, DrivingIs DEF PlacedOK, IsAt
<1>8. Base' /\ Grows(e, f, v) /\ TrailOK(prog, e) /\ TrailOK(prog, f)
  BY <1>1, <1>2, <1>3, <1>4, <1>5, <1>7, EmitsBase DEF IsAt
<1>9. ASSUME Straight(prog, f), Body(prog, e, r) PROVE Body(prog, f, t)
  <2>1. Attempt(prog, e) /\ LastStart(e) # 0 /\ Step(e) = r.node.step /\ Failures(e) = {}
    BY <1>6, <1>8, <1>9, PhaseIs
  <2>2. CancelHolds(prog, f, t, Len(f))
    <3>1. ~OutputThen(f, {"step.attemptFailed", "step.cancelled"})
      BY <1>9 DEF Straight
    <3>2. v.step = Step(e) /\ t.pc \in {"cancelled", "off"}
      BY <1>3, <1>4, <1>5, <2>1 DEF IsAt
    <3> QED
      BY <1>3, <1>8, <2>1, <3>1, <3>2, StepCancels
  <2>3. Fits(prog, e, f, v)
    BY <1>3 DEF Fits, DriverEvent
  <2>4. Failures(f) = {}
    BY <1>3, <1>8, <2>1, AttemptStays
  <2> QED
    BY <1>3, <1>5, <1>6, <1>8, <1>9, <2>2, <2>3, <2>4, PlaceKept DEF IsAt, SamePlace
<1>10. Sound(prog, e, r) => Sound(prog, f, t)
  BY <1>3, <1>5, <1>6, <1>8, <1>9, SoundInside DEF IsAt
<1> QED
  BY <1>4, <1>8, <1>10

\* The do phase.
LEMMA DoKeeps ==
    ASSUME Base, Do
    PROVE  Base' /\ (Sound(prog, trail, run) => Sound(prog, trail', run'))
<1>1. opening.kind = "none" /\ request' \in BOOLEAN /\ DriverOnly /\ run.pc = "phase" /\ Here \in {"do", "once"}
  BY DriverBase DEF Do
<1>2. PICK to : to = DoPhase(prog, run.node.step, run.value, run.waits) /\ to # Threw
  BY DEF Do
<1>3. /\ run' = At(Fresh(to), "step")
      /\ Has(prog, run.node.step, {"prompt"}) => trail' = trail
      /\ ~Has(prog, run.node.step, {"prompt"}) => trail' = Append(trail, OfStep("step.completed", 0, "none"))
  BY <1>2 DEF Do, GoTo, Emit
<1>4. PICK e, f, r, t : e = trail /\ f = trail' /\ r = run /\ t = run'
  OBVIOUS
<1>5. IsAt(t, "step", to, 1, to.input, Unanswered, 0)
  BY <1>3, <1>4, FreshIs
<1>6. InPhase(prog, e, r) /\ PhaseAt(prog, r) \in {"do", "once"}
  BY <1>1, <1>4, DrivingIs
<1>7. to \in Node(prog)
  <2>1. to \in Node(prog) \cup {Threw}
    BY <1>1, <1>2, DrivingIs, DoPhaseGoesOn
  <2> QED
    BY <1>2, <2>1
<1>8. PlacedOK(prog, t)
  <2>1. Unanswered \in [WaitId -> 0 .. 2] /\ to.input \in Value
    BY <1>7 DEF Unanswered, Node
  <2>2. t = At(Fresh(t.node), "step")
    BY <1>3, <1>4, <1>5 DEF IsAt
  <2> QED
    BY <1>5, <1>7, <2>1, <2>2 DEF PlacedOK, IsAt
<1>9. CASE Has(prog, run.node.step, {"prompt"})
  <2>1. Base' /\ TrailOK(prog, e) /\ f = e
    BY <1>1, <1>3, <1>4, <1>5, <1>8, <1>9, StillBase DEF IsAt
  <2>2. Sound(prog, e, r) => Sound(prog, e, t)
    BY <1>2, <1>4, <1>5, <1>6, <1>9, <2>1, SoundDonePrompted DEF IsAt
  <2> QED
    BY <1>4, <2>1, <2>2
<1>10. CASE ~Has(prog, run.node.step, {"prompt"})
  <2>1. PICK v : v = OfStep("step.completed", 0, "none")
    OBVIOUS
  <2>2. v.type = "step.completed" /\ v.step = run.node.step /\ Writes(prog, trail, v)
    BY <1>1, <1>10, <2>1, OfStepIs DEF StepEvent, DriverEvent
  <2>3. Base' /\ Grows(e, f, v) /\ TrailOK(prog, e) /\ TrailOK(prog, f)
    BY <1>1, <1>3, <1>4, <1>5, <1>8, <1>10, <2>1, <2>2, EmitsBase DEF IsAt
  <2>4. Sound(prog, e, r) => Sound(prog, f, t)
    BY <1>2, <1>4, <1>5, <1>6, <1>10, <2>2, <2>3, SoundDonePlain DEF IsAt
  <2> QED
    BY <1>4, <2>3, <2>4
<1> QED
  BY <1>9, <1>10

\* The run parks at a wait.
LEMMA WaitStarts ==
    ASSUME NEW p, NEW e, NEW f, NEW v, NEW r, NEW t, Grows(e, f, v), TrailOK(p, e), TrailOK(p, f),
           Body(p, e, r), InPhase(p, e, r), PhaseAt(p, r) \in WaitId, r.waits[PhaseAt(p, r)] = 0,
           v.type = "wait.started", v.step = r.node.step, v.wait = PhaseAt(p, r), v.index = r.index,
           SamePlace(r, t), t.pc = "off"
    PROVE  Body(p, f, t)
<1>1. PICK phases, h : phases = Phases(p, Step(e)) /\ h = PhaseAt(p, r)
  OBVIOUS
<1>2. /\ Attempt(p, e) /\ Inside(p, e, r)
      /\ LastStart(e) # 0 /\ Step(e) = r.node.step /\ Failures(e) = {} /\ Regained(e) = {}
      /\ \A i, j \in DOMAIN phases : phases[i] = phases[j] => i = j
      /\ r.at \in DOMAIN phases /\ phases[r.at] = h
  BY <1>1, PhaseIs DEF InPhase, PhaseAt
<1>3. r.index = Count(e) /\ r.index # 0 /\ t.index # 0 /\ r.waits = Outputs(e, Given(e))
  BY <1>2 DEF Inside, InPhase, SamePlace
<1>4. \A i \in Given(e) : e[i].out \in Value
  BY GivenHaveOutputs
<1>5. \A k \in Given(e) : e[k].wait # h
  BY <1>1, <1>3, <1>4, OutputOf
<1>6. \A w \in Open(e) : e[w].wait = h
  BY <1>1, <1>2 DEF Inside
<1>7. Answers(p, e, h, Len(f))
  <2>1. ASSUME NEW i \in DOMAIN phases, NEW j \in DOMAIN phases, i < j, phases[i] \in WaitId, phases[j] = h
        PROVE  \E a \in Given(e) : a < Len(f) /\ e[a].wait = phases[i]
    <3>1. i < r.at /\ i \in Waits(p, Step(e))
      BY <1>1, <1>2, <2>1 DEF Waits
    <3>2. r.waits[phases[i]] # 0
      BY <1>1, <1>2, <3>1 DEF Inside
    <3>3. PICK a \in Given(e) : e[a].wait = phases[i]
      BY <1>3, <1>4, <2>1, <3>2, OutputOf
    <3>4. a < Len(f)
      BY DEF Given, Recent, Grows
    <3> QED
      BY <3>3, <3>4
  <2> QED
    BY <1>1, <2>1 DEF Answers
<1>8. Fits(p, e, f, v)
  BY <1>1, <1>2, <1>3, <1>5, <1>6, <1>7 DEF Fits
<1> QED
  BY <1>1, <1>2, <1>3, <1>8, PlaceKept DEF InPhase

\* A wait: its answer is taken, it was answered before, or the run parks.
LEMMA WaitKeeps ==
    ASSUME Base, Wait
    PROVE  Base' /\ (Sound(prog, trail, run) => Sound(prog, trail', run'))
<1>1. opening.kind = "none" /\ request' \in BOOLEAN /\ DriverOnly /\ run.pc = "phase" /\ Here \in WaitId
  BY DriverBase DEF Wait
<1>2. PICK e, f, r, t : e = trail /\ f = trail' /\ r = run /\ t = run'
  OBVIOUS
<1>3. InPhase(prog, e, r) /\ PhaseAt(prog, r) = Here /\ r.index # 0 /\ r.index \in Nat /\ r = At(r, r.pc)
  BY <1>1, <1>2, DrivingIs
<1>4. TrailOK(prog, e)
  BY <1>2 DEF Base, RecordedOK
<1>5. CASE run.waits[Here] # 0
  <2>1. run' = Onward(run) /\ trail' = trail
    BY <1>5 DEF Wait
  <2>2. IsAt(t, "phase", r.node, r.at + 1, r.value, r.waits, r.index)
    BY <1>1, <1>2, <1>3, <2>1, RunMoves
  <2>3. PlacedOK(prog, t)
    BY <1>1, <1>2, <2>2, DrivingIs DEF PlacedOK, IsAt, WaitId
  <2>4. Base'
    BY <1>1, <1>2, <2>1, <2>2, <2>3, StillBase DEF IsAt
  <2>5. Body(prog, e, r) => Body(prog, e, t)
    BY <1>1, <1>2, <1>3, <1>4, <1>5, <2>2, WaitPassed DEF IsAt
  <2>6. Sound(prog, e, r) => Sound(prog, e, t)
    BY <2>2, <2>5, SoundStill DEF IsAt
  <2> QED
    BY <1>2, <2>1, <2>4, <2>6
<1>6. PICK given : given = {a \in answers : a.index = run.index /\ a.wait = Here}
  OBVIOUS
<1>7. CASE run.waits[Here] = 0 /\ given = {}
  <2>1. PICK v : v = OfStep("wait.started", 0, Here) /\ trail' = Append(trail, v) /\ run' = [run EXCEPT !.pc = "off"]
    BY <1>6, <1>7 DEF Wait, Emit
  <2>2. v.type = "wait.started" /\ v.step = run.node.step /\ v.wait = Here /\ v.index = run.index /\ Writes(prog, trail, v)
    BY <1>1, <2>1, OfStepIs DEF StepEvent, DriverEvent
  <2>3. IsAt(t, "off", r.node, r.at, r.value, r.waits, r.index)
    BY <1>2, <1>3, <2>1, RunMoves
  <2>4. PlacedOK(prog, t)
    BY <1>1, <1>2, <2>3, DrivingIs DEF PlacedOK, IsAt
  <2>5. Base' /\ Grows(e, f, v) /\ TrailOK(prog, f)
    BY <1>1, <1>2, <2>1, <2>2, <2>3, <2>4, EmitsBase DEF IsAt
  <2>6. SamePlace(r, t) /\ t.pc = "off"
    BY <2>3 DEF IsAt, SamePlace
  <2>7. Body(prog, e, r) => Body(prog, f, t)
    BY <1>1, <1>2, <1>3, <1>4, <1>7, <2>2, <2>5, <2>6, WaitStarts
  <2>8. Sound(prog, e, r) => Sound(prog, f, t)
    BY <1>3, <1>4, <2>2, <2>3, <2>5, <2>7, SoundInside DEF IsAt
  <2> QED
    BY <1>2, <2>5, <2>8
<1>8. CASE run.waits[Here] = 0 /\ given # {}
  <2>1. PICK a, v : /\ a \in given /\ v = OfStep("wait.satisfied", a.value, Here) /\ trail' = Append(trail, v)
                    /\ run' = Onward([run EXCEPT !.waits[Here] = a.value])
    BY <1>6, <1>8 DEF Wait, Emit
  <2>2. a \in answers /\ a.index = run.index /\ a.wait = Here /\ a.value \in Value /\ Answerable(trail, a)
    BY <1>6, <2>1 DEF Base, RCTypeOK
  <2>3. /\ v.type = "wait.satisfied" /\ v.step = run.node.step /\ v.wait = Here /\ v.index = run.index /\ v.out = a.value
        /\ Writes(prog, trail, v)
    BY <1>1, <2>1, <2>2, OfStepIs DEF StepEvent, DriverEvent
  <2>4. IsAt(t, "phase", r.node, r.at + 1, r.value, [r.waits EXCEPT ![Here] = a.value], r.index)
    <3>1. PICK h, x : h = Here /\ x = a.value
      OBVIOUS
    <3>2. IsAt(Onward([r EXCEPT !.waits[h] = x]), r.pc, r.node, r.at + 1, r.value, [r.waits EXCEPT ![h] = x], r.index)
      BY <1>3, RunMoves
    <3> QED
      BY <1>1, <1>2, <2>1, <3>1, <3>2
  <2>5. PlacedOK(prog, t)
    <3>1. [r.waits EXCEPT ![Here] = a.value] \in [WaitId -> 0 .. 2]
      BY <1>1, <1>2, <2>2, DrivingIs DEF Value
    <3> QED
      BY <1>1, <1>2, <2>4, <3>1, DrivingIs DEF PlacedOK, IsAt, WaitId
  <2>6. Base' /\ Grows(e, f, v) /\ TrailOK(prog, f)
    BY <1>1, <1>2, <2>1, <2>3, <2>4, <2>5, EmitsBase DEF IsAt
  <2>7. ASSUME Body(prog, e, r) PROVE Body(prog, f, t)
    <3>1. Attempt(prog, e) /\ r.index = Count(e)
      BY <1>3, <2>7 DEF Body, Inside
    <3>2. Asked(e) # {}
      BY <1>2, <1>4, <2>2, <3>1, WaitIsAsked DEF Answerable
    <3> QED
      BY <1>1, <1>2, <1>3, <1>4, <1>8, <2>2, <2>3, <2>4, <2>6, <2>7, <3>2, AnswerTaken DEF IsAt
  <2>8. Sound(prog, e, r) => Sound(prog, f, t)
    BY <1>3, <1>4, <2>3, <2>4, <2>6, <2>7, SoundInside DEF IsAt
  <2> QED
    BY <1>2, <2>6, <2>8
<1> QED
  BY <1>5, <1>7, <1>8

\* A run that has gone on from its last attempt still has after any other event.
LEMMA LeftKept ==
    ASSUME NEW p, NEW e, NEW f, NEW v, NEW r, NEW t, Grows(e, f, v), TrailOK(p, e),
           v.type \notin {"step.started", "step.completed", "step.failed", "wait.started"}, t.index = r.index, Left(e, r)
    PROVE  Left(f, t)
BY AttemptStays DEF Left

\* An event of the run, with the run where it was.
LEMMA RunRecords ==
    ASSUME NEW p, NEW e, NEW f, NEW v, NEW r, NEW t, Grows(e, f, v), TrailOK(p, e), TrailOK(p, f),
           v.type \notin StepEvent \cup Reopening, v.type = "workflow.completed" => r.node.step = Done,
           Sound(p, e, r), SamePlace(r, t), t.pc = "off" \/ t.pc = r.pc
    PROVE  Sound(p, f, t)
<1>1. /\ v.type \notin {"step.started", "step.completed", "wait.satisfied", "workflow.retryStarted", "workflow.resumed",
                        "step.failed", "step.cancelled", "wait.started"}
      /\ v.type \notin {"wait.failed", "step.attemptFailed"}
  BY DEF StepEvent, DriverEvent, Reopening
<1>2. Fits(p, e, f, v)
  BY <1>1 DEF Fits, DriverEvent
<1>3. Failures(f) = Failures(e)
  BY <1>1, AttemptStays
<1>4. ASSUME Body(p, e, r) PROVE Body(p, f, t)
  <2>1. t.index # 0 /\ Failures(f) # {} => t.pc \in {"failed", "off"}
    BY <1>3, <1>4 DEF Body, Inside, SamePlace
  <2> QED
    BY <1>1, <1>2, <1>4, <2>1, PlaceKept DEF SamePlace
<1>5. Left(e, r) => Left(f, t)
  BY <1>1, LeftKept DEF SamePlace
<1> QED
  BY <1>1, <1>4, <1>5, SoundKept DEF SamePlace

\* The top of the loop: the workflow ends, or the next step starts.
LEMMA TopOfLoopKeeps ==
    ASSUME Base, TopOfLoop
    PROVE  Base' /\ (Sound(prog, trail, run) => Sound(prog, trail', run'))
<1>1. opening.kind = "none" /\ request' \in BOOLEAN /\ DriverOnly /\ run.pc = "step"
  BY DriverBase DEF TopOfLoop
<1>2. PICK e, f, r, t : e = trail /\ f = trail' /\ r = run /\ t = run'
  OBVIOUS
<1>3. /\ TrailOK(prog, e) /\ r = At(r, r.pc) /\ r.node \in Node(prog)
      /\ r.index = 0 /\ r.at = 1 /\ r.value = r.node.input /\ r.waits = Unanswered
      /\ r.value \in Value /\ r.waits \in [WaitId -> 0 .. 2]
  <2>1. r = At(Fresh(r.node), "step")
    BY <1>1, <1>2 DEF Base, PlacedOK
  <2>2. IsAt(r, "step", r.node, 1, r.node.input, Unanswered, 0)
    BY <2>1, FreshIs
  <2> QED
    BY <1>2, <2>2 DEF Base, PlacedOK, RecordedOK, IsAt
<1>4. CASE request
  <2>1. run' = [run EXCEPT !.pc = "cancelled"] /\ trail' = trail
    BY <1>4 DEF TopOfLoop
  <2>2. IsAt(t, "cancelled", r.node, r.at, r.value, r.waits, r.index)
    BY <1>2, <1>3, <2>1, RunMoves
  <2>3. PlacedOK(prog, t)
    BY <1>3, <2>2 DEF PlacedOK, IsAt
  <2>4. Base'
    BY <1>1, <1>2, <2>1, <2>2, <2>3, StillBase DEF IsAt
  <2>5. Body(prog, e, r) => Body(prog, e, t)
    BY <1>1, <1>2, <1>3, <2>2, Halts DEF IsAt, SamePlace
  <2>6. Sound(prog, e, r) => Sound(prog, e, t)
    BY <2>2, <2>5, SoundStill DEF IsAt
  <2> QED
    BY <1>2, <2>1, <2>4, <2>6
<1>5. CASE ~request /\ run.node.step = Done
  <2>1. PICK v : v = OfRun("workflow.completed") /\ trail' = Append(trail, v) /\ run' = [run EXCEPT !.pc = "off"]
    BY <1>5 DEF TopOfLoop, Emit
  <2>2. v.type = "workflow.completed" /\ Writes(prog, trail, v) /\ v.type \notin StepEvent \cup Reopening
    BY <2>1, OfRunIs DEF StepEvent, DriverEvent, Reopening
  <2>3. IsAt(t, "off", r.node, r.at, r.value, r.waits, r.index)
    BY <1>2, <1>3, <2>1, RunMoves
  <2>4. PlacedOK(prog, t)
    BY <1>3, <2>3 DEF PlacedOK, IsAt
  <2>5. Base' /\ Grows(e, f, v) /\ TrailOK(prog, f)
    BY <1>1, <1>2, <2>1, <2>2, <2>3, <2>4, EmitsBase DEF IsAt
  <2>6. Sound(prog, e, r) => Sound(prog, f, t)
    BY <1>2, <1>3, <1>5, <2>2, <2>3, <2>5, RunRecords DEF IsAt, SamePlace
  <2> QED
    BY <1>2, <2>5, <2>6
<1>6. CASE ~request /\ run.node.step # Done
  <2>1. r.node.step \in DOMAIN prog
    BY <1>2, <1>3, <1>6 DEF Node
  <2>2. ~(FailedAttempts(e, r.node.step) >= MaxTries)
    BY <1>2, <2>1, MaxTriesAssumption DEF Base, RecordedOK
  <2>3. PICK v : /\ v = OfStep("step.started", 0, "none") /\ trail' = Append(trail, v)
                 /\ run' = [run EXCEPT !.pc = "phase", !.index = Cardinality(Starts(trail)) + 1]
    BY <1>2, <1>6, <2>2 DEF TopOfLoop, Emit
  <2>4. v.type = "step.started" /\ v.step = r.node.step /\ Writes(prog, trail, v)
    <3>1. v.type = "step.started" /\ v.step = r.node.step
      BY <1>2, <2>3 DEF OfStep, Ev
    <3> QED
      BY <2>1, <3>1 DEF Writes, EventOK, StepEvent, DriverEvent
  <2>5. IsAt(t, "phase", r.node, r.at, r.value, r.waits, Count(e) + 1)
    BY <1>2, <1>3, <2>3, RunMoves DEF Count
  <2>6. Count(e) + 1 \in Nat \ {0}
    <3>1. Count(e) \in Nat
      BY <1>3, StartsCounted DEF Count
    <3> QED
      BY <3>1
  <2>7. PlacedOK(prog, t)
    <3>1. 1 \in DOMAIN Phases(prog, r.node.step)
      BY <1>3, <2>1, PhasesOf DEF TrailOK
    <3> QED
      BY <1>3, <2>1, <2>5, <2>6, <3>1 DEF PlacedOK, IsAt
  <2>8. Base' /\ Grows(e, f, v) /\ TrailOK(prog, f)
    BY <1>1, <1>2, <2>3, <2>4, <2>5, <2>7, StartsBase DEF IsAt
  <2>9. t.index = Count(f)
    BY <1>3, <2>4, <2>5, <2>8, StartOpens DEF IsAt
  <2>10. Body(prog, e, r) => Body(prog, f, t)
    BY <1>1, <1>2, <1>3, <2>1, <2>4, <2>5, <2>8, <2>9, StepStarts DEF IsAt
  <2>11. Sound(prog, e, r) => Sound(prog, f, t)
    BY <1>3, <2>4, <2>5, <2>6, <2>8, <2>10, SoundStarts DEF IsAt
  <2> QED
    BY <1>2, <2>8, <2>11
<1> QED
  BY <1>4, <1>5, <1>6

\* The driver ends a run that failed.
LEMMA FailRunKeeps ==
    ASSUME Base, FailRun
    PROVE  Base' /\ (Sound(prog, trail, run) => Sound(prog, trail', run'))
<1>1. opening.kind = "none" /\ request' \in BOOLEAN /\ DriverOnly /\ run.pc = "failed"
  BY DriverBase DEF FailRun
<1>2. PICK e, f, r, t : e = trail /\ f = trail' /\ r = run /\ t = run'
  OBVIOUS
<1>3. TrailOK(prog, e) /\ r = At(r, r.pc) /\ PlacedOK(prog, r)
  BY <1>2 DEF Base, PlacedOK, RecordedOK
<1>4. PICK v : v = OfRun("workflow.failed") /\ trail' = Append(trail, v) /\ run' = [run EXCEPT !.pc = "off"]
  BY DEF FailRun, Emit
<1>5. v.type = "workflow.failed" /\ Writes(prog, trail, v) /\ v.type \notin StepEvent \cup Reopening
  BY <1>4, OfRunIs DEF StepEvent, DriverEvent, Reopening
<1>6. IsAt(t, "off", r.node, r.at, r.value, r.waits, r.index)
  BY <1>2, <1>3, <1>4, RunMoves
<1>7. PlacedOK(prog, t)
  BY <1>3, <1>6 DEF PlacedOK, IsAt
<1>8. Base' /\ Grows(e, f, v) /\ TrailOK(prog, f)
  BY <1>1, <1>2, <1>4, <1>5, <1>6, <1>7, EmitsBase DEF IsAt
<1>9. Sound(prog, e, r) => Sound(prog, f, t)
  BY <1>3, <1>5, <1>6, <1>8, RunRecords DEF IsAt, SamePlace
<1> QED
  BY <1>2, <1>8, <1>9

\* The process dies.
LEMMA DriverDiesKeeps ==
    ASSUME Base, DriverDies
    PROVE  Base' /\ (Sound(prog, trail, run) => Sound(prog, trail', run'))
<1>1. opening.kind = "none" /\ request' \in BOOLEAN /\ DriverOnly /\ trail' = trail /\ run' = [run EXCEPT !.pc = "off"]
  BY DEF Base, RCTypeOK, DriverDies, DriverOnly
<1>2. PICK e, r, t : e = trail /\ r = run /\ t = run'
  OBVIOUS
<1>3. r = At(r, r.pc) /\ PlacedOK(prog, r)
  BY <1>2 DEF Base, PlacedOK
<1>4. IsAt(t, "off", r.node, r.at, r.value, r.waits, r.index)
  BY <1>1, <1>2, <1>3, RunMoves
<1>5. PlacedOK(prog, t)
  BY <1>3, <1>4 DEF PlacedOK, IsAt
<1>6. Base'
  BY <1>1, <1>2, <1>4, <1>5, StillBase DEF IsAt
<1>7. Body(prog, e, r) => Body(prog, e, t)
  BY <1>4, Halts DEF IsAt, SamePlace
<1>8. Sound(prog, e, r) => Sound(prog, e, t)
  BY <1>4, <1>7, SoundStill DEF IsAt
<1> QED
  BY <1>1, <1>2, <1>6, <1>8

\* What the program may write to a trail it may write to a longer one.
LEMMA WritesAnywhere ==
    ASSUME NEW p, NEW e, NEW f, NEW v, Writes(p, e, v), v.type \notin {"step.attemptFailed", "workflow.retryStarted", "wait.started"}
    PROVE  Writes(p, f, v)
BY DEF Writes

\* The driver writes two events.
LEMMA EmitsTwo ==
    ASSUME Base, opening.kind = "none", DriverOnly, request' \in BOOLEAN,
           NEW u, NEW v, Writes(prog, trail, u), Writes(prog, trail, v),
           v.type \notin {"step.attemptFailed", "workflow.retryStarted", "wait.started"},
           NEW g, g = Append(trail, u), trail' = Append(g, v), PlacedOK(prog, run'), run'.index \in {0, run.index}
    PROVE  /\ Base' /\ prog' = prog /\ Grows(trail, g, u) /\ Grows(g, trail', v)
           /\ TrailOK(prog, trail) /\ TrailOK(prog, g) /\ TrailOK(prog, trail')
<1>1. RecordedOK(prog, trail)
  BY DEF Base
<1>2. RecordedOK(prog, g) /\ Grows(trail, g, u)
  BY <1>1, RecordedGrows
<1>3. Writes(prog, g, v)
  BY WritesAnywhere
<1>4. RecordedOK(prog, trail') /\ Grows(g, trail', v)
  BY <1>2, <1>3, RecordedGrows
<1>5. Len(trail) <= Len(trail') /\ \A i \in DOMAIN trail : trail'[i] = trail[i]
  BY <1>2, <1>4 DEF Grows
<1>6. run'.index <= Count(trail')
  <2>1. PICK e, f : e = trail /\ f = trail'
    OBVIOUS
  <2>2. Count(e) \in Nat /\ Count(g) \in Nat /\ Count(f) \in Nat /\ Count(e) <= Count(g) /\ Count(g) <= Count(f)
    BY <1>1, <1>2, <1>4, <2>1, CountGrows DEF RecordedOK
  <2>3. run.index <= Count(trail) /\ run.index \in Nat
    BY DEF Base, PlacedOK
  <2> QED
    BY <2>1, <2>2, <2>3
<1>7. Base'
  BY <1>4, <1>5, <1>6, BaseDrives
<1> QED
  BY <1>1, <1>2, <1>4, <1>7 DEF RecordedOK, DriverOnly

\* The driver ends a run that was cancelled.
LEMMA CancelRunKeeps ==
    ASSUME Base, CancelRun
    PROVE  Base' /\ (Sound(prog, trail, run) => Sound(prog, trail', run'))
<1>1. opening.kind = "none" /\ request' \in BOOLEAN /\ DriverOnly /\ run.pc = "cancelled"
  BY DEF CancelRun, Driving
<1>2. PICK u, v, g : u = OfRun("workflow.cancelRequested") /\ v = OfRun("workflow.cancelled") /\ g = Append(trail, u)
  OBVIOUS
<1>3. /\ u.type = "workflow.cancelRequested" /\ v.type = "workflow.cancelled"
      /\ Writes(prog, trail, u) /\ Writes(prog, trail, v)
      /\ u.type \notin StepEvent \cup Reopening /\ v.type \notin StepEvent \cup Reopening
  BY <1>2, OfRunIs DEF StepEvent, DriverEvent, Reopening
<1>4. trail' = Append(g, v)
  <2>1. RecordedOK(prog, trail) /\ Listed(trail)
    BY DEF Base, RecordedOK
  <2>2. Listed(g)
    BY <1>2, <2>1, AppendGrows
  <2>3. g = trail \o <<u>> /\ Append(g, v) = g \o <<v>>
    BY <1>2, <1>3, <2>1, <2>2, OneFollows
  <2>4. trail \o <<u>> \o <<v>> = trail \o <<u, v>>
    BY <1>3, <2>1, TwoFollow
  <2>5. trail' = trail \o <<u, v>>
    BY <1>2 DEF CancelRun
  <2> QED
    BY <2>3, <2>4, <2>5
<1>5. PICK e, f, r, t : e = trail /\ f = trail' /\ r = run /\ t = run'
  OBVIOUS
<1>6. r = At(r, r.pc) /\ PlacedOK(prog, r) /\ t = [r EXCEPT !.pc = "off"]
  BY <1>5 DEF Base, PlacedOK, CancelRun
<1>7. IsAt(t, "off", r.node, r.at, r.value, r.waits, r.index)
  BY <1>6, RunMoves
<1>8. PlacedOK(prog, t)
  BY <1>6, <1>7 DEF PlacedOK, IsAt
<1>9. Base' /\ prog' = prog /\ Grows(e, g, u) /\ Grows(g, f, v) /\ TrailOK(prog, e) /\ TrailOK(prog, g) /\ TrailOK(prog, f)
  BY <1>1, <1>2, <1>3, <1>4, <1>5, <1>7, <1>8, EmitsTwo DEF IsAt
<1>10. SamePlace(r, t) /\ SamePlace(t, t) /\ t.pc = "off"
  BY <1>7 DEF IsAt, SamePlace
<1>11. Sound(prog, e, r) => Sound(prog, g, t)
  BY <1>3, <1>9, <1>10, RunRecords
<1>12. Sound(prog, g, t) => Sound(prog, f, t)
  BY <1>3, <1>9, <1>10, RunRecords
<1> QED
  BY <1>5, <1>9, <1>11, <1>12

\* The step fails, and the run with it.
LEMMA StepFails ==
    ASSUME NEW p, NEW e, NEW f, NEW v, NEW r, NEW t, Grows(e, f, v), TrailOK(p, e), TrailOK(p, f),
           v.type = "step.failed", v.step = r.node.step, InPhase(p, e, r), Open(e) = {},
           SamePlace(r, t), t.pc = "failed", Body(p, e, r)
    PROVE  Body(p, f, t)
<1>1. LastStart(e) # 0 /\ Step(e) = r.node.step /\ Regained(e) = {} /\ r.pc = "phase" /\ r.index # 0
  BY PhaseIs DEF InPhase
<1>2. Open(f) = {}
  BY AttemptStays
<1>3. Fits(p, e, f, v)
  BY <1>1, <1>2 DEF Fits, DriverEvent
<1> QED
  BY <1>1, <1>3, PlaceKept DEF SamePlace

\* The step fails, and the author's error continuation takes the run on.
LEMMA ErrorGoesOn ==
    ASSUME NEW p, NEW e, NEW f, NEW v, NEW t, Grows(e, f, v), v.type = "step.failed", p[v.step].onError # "none"
    PROVE  Sound(p, f, t)
<1>1. Len(f) \in DOMAIN f /\ f[Len(f)] = v
  BY DEF Grows
<1>2. ErrorContinued(p, f)
  BY <1>1 DEF ErrorContinued
<1> QED
  BY <1>2 DEF Sound, Plain, Straight

\* Where a step that failed leaves the run.
LEMMA FailurePlaced ==
    ASSUME Base, run.pc = "phase", NEW s, s = run.node.step,
           prog[s].onError = "none" => run' = [run EXCEPT !.pc = "failed"],
           prog[s].onError # "none" => GoTo([step |-> prog[s].onError, input |-> 1])
    PROVE  PlacedOK(prog, run') /\ run'.index \in {0, run.index} /\ (prog[s].onError = "none" => SamePlace(run, run') /\ run'.pc = "failed")
<1>1. CASE prog[s].onError = "none"
  <2>1. PICK r, t : r = run /\ t = run'
    OBVIOUS
  <2>2. IsAt(t, "failed", r.node, r.at, r.value, r.waits, r.index)
    <3>1. r = At(r, r.pc) /\ t = [r EXCEPT !.pc = "failed"]
      BY <1>1, <2>1, DrivingIs
    <3> QED
      BY <3>1, RunMoves
  <2>3. PlacedOK(prog, t)
    BY <2>1, <2>2, DrivingIs DEF PlacedOK, IsAt
  <2> QED
    BY <2>1, <2>2, <2>3 DEF IsAt, SamePlace
<1>2. CASE prog[s].onError # "none"
  <2>1. PICK to, t : to = [step |-> prog[s].onError, input |-> 1] /\ t = run'
    OBVIOUS
  <2>2. t = At(Fresh(to), "step")
    BY <1>2, <2>1 DEF GoTo
  <2>3. IsAt(t, "step", to, 1, to.input, Unanswered, 0)
    BY <2>2, FreshIs
  <2>4. to \in Node(prog) /\ to.input \in Value
    <3>1. prog[s].onError \in DOMAIN prog \cup {"none"}
      BY DrivingIs DEF WellBuilt
    <3> QED
      BY <1>2, <2>1, <3>1 DEF Node, Value
  <2>5. Unanswered \in [WaitId -> 0 .. 2]
    BY DEF Unanswered
  <2>6. t = At(Fresh(t.node), "step")
    BY <2>2, <2>3 DEF IsAt
  <2>7. PlacedOK(prog, t)
    BY <2>3, <2>4, <2>5, <2>6 DEF PlacedOK, IsAt
  <2> QED
    BY <1>2, <2>1, <2>3, <2>7 DEF IsAt
<1> QED
  BY <1>1, <1>2

\* The step fails, with or without an error continuation.
LEMMA SoundFails ==
    ASSUME NEW p, NEW e, NEW f, NEW v, NEW r, NEW t, Grows(e, f, v), TrailOK(p, e), TrailOK(p, f),
           v.type = "step.failed", v.step = r.node.step, InPhase(p, e, r), Body(p, e, r) => Open(e) = {},
           p[v.step].onError = "none" => SamePlace(r, t) /\ t.pc = "failed", Sound(p, e, r)
    PROVE  Sound(p, f, t)
<1>1. CASE p[v.step].onError # "none"
  BY <1>1, ErrorGoesOn
<1>2. CASE p[v.step].onError = "none"
  <2>1. Body(p, e, r) => Body(p, f, t)
    BY <1>2, StepFails
  <2>2. t.node = r.node /\ r.index # 0 /\ t.index # 0
    BY <1>2 DEF SamePlace, InPhase
  <2> QED
    BY <2>1, <2>2, SoundInside
<1> QED
  BY <1>1, <1>2

\* A phase throws: the attempt is made again, or the step fails.
LEMMA PhaseFailsKeeps ==
    ASSUME Base, PhaseFails
    PROVE  Base' /\ (Sound(prog, trail, run) => Sound(prog, trail', run'))
<1>1. opening.kind = "none" /\ request' \in BOOLEAN /\ DriverOnly /\ run.pc = "phase" /\ Here \notin WaitId
  BY DriverBase DEF PhaseFails
<1>2. PICK transient \in BOOLEAN : Fails(<<>>, transient)
  BY DEF PhaseFails
<1>3. PICK s, again : /\ s = run.node.step
                      /\ again = (/\ transient /\ ~NonIdempotent(prog, s) /\ prog[s].onError = "none"
                                  /\ FailedAttempts(trail, s) + 1 < MaxTries)
  OBVIOUS
<1>4. PICK v : v = OfStep(IF again THEN "step.attemptFailed" ELSE "step.failed", 0, "none")
  OBVIOUS
<1>5. trail' = Append(trail, v)
  <2>1. Listed(trail)
    BY DEF Base, RecordedOK
  <2>2. trail \o <<>> = trail
    BY <2>1, ConcatEmptySeq DEF Listed
  <2>3. v.type # "workflow.completed"
    BY <1>4 DEF OfStep, Ev
  <2>4. Append(trail, v) = trail \o <<v>>
    BY <2>1, <2>3, OneFollows
  <2> QED
    BY <1>2, <1>3, <1>4, <2>2, <2>4 DEF Fails
<1>6. PICK e, f, r, t : e = trail /\ f = trail' /\ r = run /\ t = run'
  OBVIOUS
<1>7. InPhase(prog, e, r) /\ r.index # 0 /\ PhaseAt(prog, r) \notin WaitId
  BY <1>1, <1>6, DrivingIs
<1>8. CASE again
  <2>1. v.type = "step.attemptFailed" /\ v.step = s
    BY <1>3, <1>4, <1>8 DEF OfStep, Ev
  <2>2. Writes(prog, trail, v)
    <3>1. s \in DOMAIN prog /\ FailedAttempts(trail, s) + 1 < MaxTries
      BY <1>1, <1>3, <1>8, DrivingIs
    <3> QED
      BY <2>1, <3>1 DEF Writes, EventOK, StepEvent, DriverEvent
  <2>3. t = [r EXCEPT !.at = 1, !.value = r.node.input]
    BY <1>2, <1>3, <1>6, <1>8 DEF Fails
  <2>4. IsAt(t, "phase", r.node, 1, r.node.input, r.waits, r.index)
    <3>1. r = At(r, r.pc) /\ r.pc = "phase"
      BY <1>1, <1>6, DrivingIs
    <3> QED
      BY <2>3, <3>1, RunMoves
  <2>5. PlacedOK(prog, t)
    <3>1. r.node \in Node(prog) /\ r.node.input \in Value /\ 1 \in DOMAIN Phases(prog, r.node.step)
      BY <1>1, <1>6, DrivingIs DEF Node
    <3> QED
      BY <1>1, <1>6, <2>4, <3>1, DrivingIs DEF PlacedOK, IsAt
  <2>6. Base' /\ Grows(e, f, v) /\ TrailOK(prog, e) /\ TrailOK(prog, f)
    BY <1>1, <1>5, <1>6, <2>2, <2>4, <2>5, EmitsBase DEF IsAt
  <2>7. Straight(prog, f) /\ Body(prog, e, r) => Body(prog, f, t)
    BY <1>3, <1>6, <1>7, <2>1, <2>4, <2>6, TriedAgain DEF IsAt, Straight
  <2>8. Sound(prog, e, r) => Sound(prog, f, t)
    BY <1>7, <2>1, <2>4, <2>6, <2>7, SoundInside DEF IsAt
  <2> QED
    BY <1>6, <2>6, <2>8
<1>9. CASE ~again
  <2>1. v.type = "step.failed" /\ v.step = s /\ Writes(prog, trail, v)
    BY <1>1, <1>3, <1>4, <1>9, OfStepIs DEF StepEvent, DriverEvent
  <2>2. /\ prog[s].onError = "none" => run' = [run EXCEPT !.pc = "failed"]
        /\ prog[s].onError # "none" => GoTo([step |-> prog[s].onError, input |-> 1])
    BY <1>2, <1>3, <1>9 DEF Fails
  <2>3. PlacedOK(prog, t) /\ t.index \in {0, r.index} /\ (prog[s].onError = "none" => SamePlace(r, t) /\ t.pc = "failed")
    BY <1>1, <1>3, <1>6, <2>2, FailurePlaced
  <2>4. Base' /\ Grows(e, f, v) /\ TrailOK(prog, e) /\ TrailOK(prog, f)
    BY <1>1, <1>5, <1>6, <2>1, <2>3, EmitsBase
  <2>5. Body(prog, e, r) => Open(e) = {}
    BY <1>7, <2>4, PhaseIs
  <2>6. Sound(prog, e, r) => Sound(prog, f, t)
    BY <1>3, <1>6, <1>7, <2>1, <2>3, <2>4, <2>5, SoundFails
  <2> QED
    BY <1>6, <2>4, <2>6
<1> QED
  BY <1>8, <1>9

\* A refused answer closes the wait.
LEMMA WaitFails ==
    ASSUME NEW p, NEW e, NEW g, NEW u, NEW r, Grows(e, g, u), TrailOK(p, e), TrailOK(p, g),
           u.type = "wait.failed", u.step = r.node.step, u.wait = PhaseAt(p, r), u.index = r.index,
           InPhase(p, e, r), Body(p, e, r)
    PROVE  Body(p, g, r) /\ Open(g) = {}
<1>1. LastStart(e) # 0 /\ Step(e) = r.node.step /\ Inside(p, e, r) /\ Attempt(p, e) /\ Failures(e) = {}
  BY PhaseIs
<1>2. r.index = Count(e) /\ r.index # 0 /\ r.pc = "phase"
  BY <1>1 DEF Inside, InPhase
<1>3. Failures(g) = {} /\ Open(g) \subseteq Open(e)
  BY <1>1, AttemptStays
<1>4. Fits(p, e, g, u)
  BY <1>1, <1>2 DEF Fits, DriverEvent
<1>5. Body(p, g, r)
  BY <1>2, <1>3, <1>4, PlaceKept DEF SamePlace
<1>6. ASSUME NEW w \in Open(g) PROVE FALSE
  <2>1. w \in Open(e) /\ w \in Asked(e)
    BY <1>3 DEF Open
  <2>2. w \in DOMAIN e /\ e[w].type = "wait.started" /\ LastStart(e) < w
    BY <2>1 DEF Asked, Recent
  <2>3. e[w].wait = PhaseAt(p, r)
    BY <1>1, <2>1 DEF Inside, PhaseAt
  <2>4. e[w].index = Count(e)
    BY <1>1, <2>2 DEF Attempt, OwnEvents, Recent
  <2>5. Len(g) \in DOMAIN g /\ Len(g) > w /\ g[Len(g)] = u /\ g[w] = e[w]
    BY <2>2 DEF Grows
  <2>6. Resolves(g, Len(g), w)
    BY <1>2, <2>3, <2>4, <2>5 DEF Resolves
  <2> QED
    BY <2>5, <2>6 DEF Open
<1> QED
  BY <1>5, <1>6

\* An answer the schema of its wait refuses.
LEMMA AnswerInvalidKeeps ==
    ASSUME Base, AnswerInvalid
    PROVE  Base' /\ (Sound(prog, trail, run) => Sound(prog, trail', run'))
<1>1. opening.kind = "none" /\ request' \in BOOLEAN /\ DriverOnly /\ run.pc = "phase" /\ Here \in WaitId
  BY DriverBase DEF AnswerInvalid
<1>2. PICK s, u, v, g : /\ s = run.node.step /\ u = OfStep("wait.failed", 0, Here)
                        /\ v = OfStep("step.failed", 0, "none") /\ g = Append(trail, u)
  OBVIOUS
<1>3. /\ u.type = "wait.failed" /\ u.step = s /\ u.wait = Here /\ u.index = run.index /\ Writes(prog, trail, u)
      /\ v.type = "step.failed" /\ v.step = s /\ Writes(prog, trail, v)
  BY <1>1, <1>2, OfStepIs DEF StepEvent, DriverEvent
<1>4. trail' = Append(g, v)
  <2>1. Listed(trail)
    BY DEF Base, RecordedOK
  <2>2. Listed(g)
    BY <1>2, <2>1, AppendGrows
  <2>3. g = trail \o <<u>> /\ Append(g, v) = g \o <<v>>
    BY <1>2, <1>3, <2>1, <2>2, OneFollows
  <2>4. trail' = trail \o <<u>> \o <<v>>
    BY <1>2 DEF AnswerInvalid, Fails
  <2> QED
    BY <2>3, <2>4
<1>5. /\ prog[s].onError = "none" => run' = [run EXCEPT !.pc = "failed"]
      /\ prog[s].onError # "none" => GoTo([step |-> prog[s].onError, input |-> 1])
  BY <1>2 DEF AnswerInvalid, Fails
<1>6. PICK e, f, r, t : e = trail /\ f = trail' /\ r = run /\ t = run'
  OBVIOUS
<1>7. PlacedOK(prog, t) /\ t.index \in {0, r.index} /\ (prog[s].onError = "none" => SamePlace(r, t) /\ t.pc = "failed")
  BY <1>1, <1>2, <1>5, <1>6, FailurePlaced
<1>8. Base' /\ Grows(e, g, u) /\ Grows(g, f, v) /\ TrailOK(prog, e) /\ TrailOK(prog, g) /\ TrailOK(prog, f)
  BY <1>1, <1>2, <1>3, <1>4, <1>6, <1>7, EmitsTwo
<1>9. InPhase(prog, e, r) /\ InPhase(prog, g, r) /\ r.index # 0 /\ PhaseAt(prog, r) = Here
  BY <1>1, <1>6, DrivingIs DEF InPhase
<1>10. Body(prog, e, r) => Body(prog, g, r) /\ Open(g) = {}
  BY <1>2, <1>3, <1>6, <1>8, <1>9, WaitFails
<1>11. Sound(prog, e, r) => Sound(prog, g, r)
  BY <1>3, <1>8, <1>9, <1>10, SoundInside
<1>12. Sound(prog, e, r) => Sound(prog, f, t)
  <2>1. CASE prog[s].onError # "none"
    BY <1>2, <1>3, <1>8, <2>1, ErrorGoesOn
  <2>2. CASE prog[s].onError = "none" /\ Sound(prog, e, r)
    <3>1. Straight(prog, f) => Body(prog, g, r) /\ Open(g) = {}
      <4>1. Straight(prog, f) => Straight(prog, e)
        BY <1>8, StraightShrinks
      <4> QED
        BY <1>10, <2>2, <4>1 DEF Sound
    <3>2. Straight(prog, f) => Body(prog, f, t)
      BY <1>2, <1>3, <1>6, <1>7, <1>8, <1>9, <2>2, <3>1, StepFails
    <3>3. t.node = r.node /\ t.index # 0
      BY <1>7, <1>9, <2>2 DEF SamePlace
    <3> QED
      BY <1>3, <1>8, <1>9, <1>11, <2>2, <3>2, <3>3, SoundInside
  <2> QED
    BY <2>1, <2>2
<1> QED
  BY <1>6, <1>8, <1>12

\* The part of a trail a command has read.
LEMMA SubSeqOf ==
    ASSUME NEW e, Listed(e), NEW m \in 0 .. Len(e), NEW d, d = SubSeq(e, 1, m)
    PROVE  /\ Len(d) = m /\ DOMAIN d = 1 .. m /\ \A i \in 1 .. m : d[i] = e[i]
           /\ m = Len(e) => d = e
<1> DEFINE S == {e[i] : i \in DOMAIN e}
<1>1. e \in Seq(S) /\ Len(e) \in Nat /\ DOMAIN e = 1 .. Len(e)
  BY DEF Listed
<1>2. (\A i \in 1 .. m : e[i] \in S) /\ m \in Nat
  BY <1>1
<1> HIDE DEF S
<1>3. d \in Seq(S) /\ Len(d) = (IF 1 <= m THEN m - 1 + 1 ELSE 0) /\ \A i \in 1 .. m - 1 + 1 : d[i] = e[1 + i - 1]
  BY <1>2, SubSeqProperties
<1>4. Len(d) = m /\ DOMAIN d = 1 .. m
  BY <1>2, <1>3
<1>5. ASSUME NEW i \in 1 .. m PROVE d[i] = e[i]
  BY <1>2, <1>3
<1>6. ASSUME m = Len(e) PROVE d = e
  BY <1>1, <1>6, SubSeqFull
<1> QED
  BY <1>4, <1>5, <1>6

\* A command that opens the run has read the trail but for what cancels wrote since.
LEMMA PreviousIs ==
    ASSUME Base
    PROVE  /\ opening.read = Len(trail) => Previous = trail
           /\ opening.kind # "none" => ReadOf(Previous, trail)
<1>1. /\ Listed(trail) /\ DOMAIN trail = 1 .. Len(trail) /\ Len(trail) \in Nat
      /\ opening.read \in 0 .. Len(trail)
  BY DEF Base, RecordedOK, TrailOK, RCTypeOK
<1>2. PICK d, m : m \in 0 .. Len(trail) /\ m = opening.read /\ d = SubSeq(trail, 1, m) /\ d = Previous
  BY <1>1 DEF Previous
<1>3. /\ Len(d) = m /\ DOMAIN d = 1 .. m /\ (\A i \in 1 .. m : d[i] = trail[i]) /\ (m = Len(trail) => d = trail)
  BY <1>1, <1>2, SubSeqOf
<1>4. opening.kind # "none" => \A i \in DOMAIN trail : i > m => trail[i].type \in CancelEvent
  BY <1>2 DEF Base
<1> QED
  BY <1>1, <1>2, <1>3, <1>4 DEF ReadOf

\* A command that goes to open the run.
LEMMA Opens ==
    ASSUME Base, MayOpen, used' = [used EXCEPT !.opens = @ + 1], request' \in BOOLEAN,
           NEW k \in {"continue", "retry", "resume"},
           opening' \in {opening, [kind |-> k, read |-> Len(trail)]},
           UNCHANGED <<prog, trail, run, answers, cancel, strayed, late>>
    PROVE  Base' /\ (opening'.kind # "none" => Previous' = trail)
<1>1. RCTypeOK /\ opening.kind = "none" /\ run.pc = "off" /\ used.opens < MaxOpens
  BY DEF Base, MayOpen
<1>2. Len(trail) \in Nat /\ DOMAIN trail = 1 .. Len(trail)
  BY DEF Base, RecordedOK, TrailOK
<1>3. PICK n, c : used = [opens |-> n, cancels |-> c] /\ n \in 0 .. MaxOpens /\ c \in 0 .. MaxCancels
  BY <1>1 DEF Base, RCTypeOK
<1>4. used' = [opens |-> n + 1, cancels |-> c] /\ n + 1 \in 0 .. MaxOpens
  BY <1>1, <1>3, BoundsAssumption
<1>5. /\ opening'.kind \in {"none", "continue", "retry", "resume"} /\ opening'.read \in 0 .. Len(trail)
      /\ opening'.kind # "none" => opening'.read = Len(trail)
  BY <1>1, <1>2 DEF RCTypeOK
<1>6. RCTypeOK'
  BY <1>1, <1>3, <1>4, <1>5 DEF RCTypeOK, Steps
<1>7. Base'
  <2>1. used' = [opens |-> used'.opens, cancels |-> used'.cancels]
    BY <1>4
  <2>2. opening'.kind # "none" => \A i \in DOMAIN trail : ~(i > opening'.read)
    BY <1>2, <1>5
  <2> QED
    BY <1>1, <1>6, <2>1, <2>2 DEF Base
<1>8. opening'.kind # "none" => Previous' = trail
  <2>1. opening'.kind # "none" => SubSeq(trail, 1, Len(trail)) = trail
    <3>1. Listed(trail) /\ Len(trail) \in 0 .. Len(trail)
      BY <1>2 DEF Base, RecordedOK
    <3>2. PICK d : d = SubSeq(trail, 1, Len(trail))
      OBVIOUS
    <3> QED
      BY <3>1, <3>2, SubSeqOf
  <2>2. trail' = trail
    OBVIOUS
  <2> QED
    BY <1>5, <2>1, <2>2 DEF Previous
<1> QED
  BY <1>7, <1>8

\* A command that leaves the trail, the run and what is opening it alone.
LEMMA AsksBase ==
    ASSUME Base, UNCHANGED <<prog, trail, run, opening, strayed, late>>, request' \in BOOLEAN,
           cancel' \in 0 .. Len(trail),
           \/ used' = used
           \/ used' = [used EXCEPT !.cancels = @ + 1] /\ used.cancels < MaxCancels,
           \A a \in answers' : a.wait \in WaitId /\ a.value \in Value /\ Answerable(trail, a)
    PROVE  Base'
<1>1. RCTypeOK
  BY DEF Base
<1>2. PICK n, c : used = [opens |-> n, cancels |-> c] /\ n \in 0 .. MaxOpens /\ c \in 0 .. MaxCancels
  BY <1>1 DEF Base, RCTypeOK
<1>3. used'.opens \in 0 .. MaxOpens /\ used'.cancels \in 0 .. MaxCancels
      /\ used' = [opens |-> used'.opens, cancels |-> used'.cancels]
  BY <1>2, BoundsAssumption
<1>4. RCTypeOK'
  BY <1>1, <1>3 DEF RCTypeOK, Steps
<1> QED
  BY <1>3, <1>4 DEF Base

\* An answer is for a wait of the trail.
LEMMA AnswerBase ==
    ASSUME Base, Answer
    PROVE  Base'
<1>1. /\ UNCHANGED <<prog, trail, run, opening, strayed, late>> /\ request' = request /\ cancel' = cancel /\ used' = used
  BY DEF Answer
<1>2. request \in BOOLEAN /\ cancel \in 0 .. Len(trail)
  BY DEF Base, RCTypeOK
<1>3. PICK w \in WaitId, v \in Value :
          LET pending == {i \in PendingWaits(trail) : trail[i].wait = w}
              e == trail[CHOOSE i \in pending : TRUE]
          IN  /\ Cardinality(pending) = 1
              /\ answers' = {a \in answers : a.index # e.index \/ a.wait # w}
                            \cup {[index |-> e.index, wait |-> w, value |-> v]}
  BY DEF Answer
<1>4. PICK pending, at :
          /\ pending = {i \in PendingWaits(trail) : trail[i].wait = w} /\ Cardinality(pending) = 1
          /\ at = CHOOSE i \in pending : TRUE
          /\ answers' = {a \in answers : a.index # trail[at].index \/ a.wait # w}
                        \cup {[index |-> trail[at].index, wait |-> w, value |-> v]}
  BY <1>3
<1>5. at \in pending
  <2>1. pending # {}
    <3>1. Cardinality(pending) = 1
      BY <1>4
    <3> QED
      BY <3>1, FS_EmptySet
  <2> QED
    BY <1>4, <2>1
<1>6. at \in DOMAIN trail /\ trail[at].type = "wait.started" /\ trail[at].wait = w
  BY <1>4, <1>5 DEF PendingWaits
<1>7. ASSUME NEW a \in answers' PROVE a.wait \in WaitId /\ a.value \in Value /\ Answerable(trail, a)
  <2>1. CASE a \in answers
    BY <2>1 DEF Base, RCTypeOK
  <2>2. CASE a = [index |-> trail[at].index, wait |-> w, value |-> v]
    BY <1>6, <2>2 DEF Answerable
  <2> QED
    BY <1>4, <2>1, <2>2
<1> QED
  BY <1>1, <1>2, <1>7, AsksBase

\* Events that cancels note: the run stays where it is.
Noted(p, e, f, r) ==
    /\ RecordedOK(p, f) /\ Count(f) = Count(e) /\ Len(e) <= Len(f) /\ (\A i \in DOMAIN e : f[i] = e[i])
    /\ \A i \in DOMAIN f : i > Len(e) => f[i].type \in CancelEvent
    /\ Sound(p, e, r) => Sound(p, f, r)

\* The cancel of a step that waits.
LEMMA WaitingCancelled ==
    ASSUME NEW p, NEW e, NEW f, NEW v, NEW r, Grows(e, f, v), TrailOK(p, e), TrailOK(p, f),
           v.type = "step.cancelled", NEW w \in DOMAIN e, e[w].type = "wait.started", v.step = e[w].step, Sound(p, e, r)
    PROVE  Sound(p, f, r)
<1>1. ASSUME Straight(p, f), Body(p, e, r) PROVE Body(p, f, r)
  <2>1. Attempt(p, e) /\ ~OutputThen(f, {"step.attemptFailed", "step.cancelled"})
    BY <1>1 DEF Body, Straight
  <2>2. LastStart(e) # 0 /\ v.step = Step(e) /\ Waits(p, Step(e)) # {}
    BY <2>1, WaitCancelled
  <2>3. CancelHolds(p, f, r, Len(f))
    BY <2>1, <2>2, StepCancels
  <2>4. Fits(p, e, f, v)
    BY DEF Fits, DriverEvent
  <2>5. Failures(f) = Failures(e)
    BY AttemptStays
  <2>6. r.index # 0 /\ Failures(f) # {} => r.pc \in {"failed", "off"}
    BY <1>1, <2>5 DEF Body, Inside
  <2> QED
    BY <1>1, <2>3, <2>4, <2>6, PlaceKept DEF SamePlace
<1>2. Left(e, r) => Left(f, r)
  BY LeftKept
<1> QED
  BY <1>1, <1>2, SoundKept

\* A cancel notes one more event.
LEMMA Notes ==
    ASSUME NEW p, NEW e, NEW g, NEW r, RecordedOK(p, e), Noted(p, e, g, r),
           NEW v, Writes(p, e, v), v.type \in CancelEvent, NEW f, f = Append(g, v),
           v.type = "step.cancelled" => \E w \in DOMAIN e : e[w].type = "wait.started" /\ v.step = e[w].step
    PROVE  Noted(p, e, f, r)
<1>1. v.type \notin {"step.attemptFailed", "workflow.retryStarted", "wait.started"}
  BY DEF CancelEvent
<1>2. RecordedOK(p, f) /\ Grows(g, f, v) /\ RecordedOK(p, g)
  BY <1>1, WritesAnywhere, RecordedGrows DEF Noted
<1>3. PICK n, m \in Nat : n = Len(e) /\ DOMAIN e = 1 .. n /\ m = Len(g) /\ DOMAIN g = 1 .. m /\ DOMAIN f = 1 .. m + 1 /\ Len(f) = m + 1
  BY <1>2 DEF Grows, RecordedOK, TrailOK
<1>4. n <= m /\ f[m + 1] = v /\ \A i \in 1 .. m : f[i] = g[i]
  BY <1>2, <1>3 DEF Grows, Noted
<1>5. Len(e) <= Len(f) /\ \A i \in DOMAIN e : f[i] = e[i]
  BY <1>3, <1>4 DEF Noted
<1>6. ASSUME NEW i \in DOMAIN f, i > Len(e) PROVE f[i].type \in CancelEvent
  <2>1. i = m + 1 \/ i \in DOMAIN g
    BY <1>3
  <2> QED
    BY <1>3, <1>4, <1>6, <2>1 DEF Noted
<1>7. ASSUME Sound(p, g, r) PROVE Sound(p, f, r)
  <2>1. TrailOK(p, g) /\ TrailOK(p, f)
    BY <1>2 DEF RecordedOK
  <2>2. CASE v.type = "step.cancelled"
    <3>1. PICK w \in DOMAIN e : e[w].type = "wait.started" /\ v.step = e[w].step
      BY <2>2
    <3>2. w \in DOMAIN g /\ g[w] = e[w]
      BY <1>3, <1>4 DEF Noted
    <3> QED
      BY <1>2, <1>7, <2>1, <2>2, <3>1, <3>2, WaitingCancelled
  <2>3. CASE v.type # "step.cancelled"
    <3>1. v.type \notin StepEvent \cup Reopening /\ v.type # "workflow.completed"
      BY <2>3 DEF CancelEvent, StepEvent, DriverEvent, Reopening
    <3> QED
      BY <1>2, <1>7, <2>1, <3>1, RunRecords DEF SamePlace
  <2> QED
    BY <2>2, <2>3
<1>8. Count(f) = Count(e)
  <2>1. v.type # "step.started"
    BY DEF CancelEvent
  <2>2. Count(f) = Count(g)
    BY <1>2, <2>1, StartsGrow DEF RecordedOK
  <2> QED
    BY <2>2 DEF Noted
<1> QED
  BY <1>2, <1>5, <1>6, <1>7, <1>8 DEF Noted

\* What has been read of a trail stays when events are noted.
LEMMA NotedBase ==
    ASSUME Base, Noted(prog, trail, trail', run), cancel' = 0, request' \in BOOLEAN, late' \in BOOLEAN,
           UNCHANGED <<prog, run, answers, opening, used, strayed>>
    PROVE  Base' /\ Previous' = Previous
<1>1. RCTypeOK /\ RecordedOK(prog, trail) /\ RecordedOK(prog, trail')
  BY DEF Base, Noted
<1>2. PICK n, m \in Nat : /\ n = Len(trail) /\ DOMAIN trail = 1 .. n /\ m = Len(trail') /\ DOMAIN trail' = 1 .. m
                          /\ n <= m /\ \A i \in 1 .. n : trail'[i] = trail[i]
  <2>1. PICK e, f : e = trail /\ f = trail'
    OBVIOUS
  <2>2. Len(e) \in Nat /\ DOMAIN e = 1 .. Len(e) /\ Len(f) \in Nat /\ DOMAIN f = 1 .. Len(f)
    BY <1>1, <2>1 DEF RecordedOK, TrailOK
  <2>3. Len(e) <= Len(f) /\ \A i \in DOMAIN e : f[i] = e[i]
    BY <2>1 DEF Noted
  <2> QED
    BY <2>1, <2>2, <2>3
<1>3. opening.read \in 0 .. n
  BY <1>1, <1>2 DEF RCTypeOK
<1>4. RCTypeOK'
  BY <1>1, <1>2, <1>3 DEF RCTypeOK, Steps
<1>5. ASSUME opening.kind # "none", NEW i \in DOMAIN trail', i > opening.read PROVE trail'[i].type \in CancelEvent
  <2>1. CASE i \in DOMAIN trail
    BY <1>2, <1>5, <2>1 DEF Base
  <2>2. CASE i > Len(trail)
    BY <2>2 DEF Noted
  <2> QED
    BY <1>2, <2>1, <2>2
<1>6. \A a \in answers : Answerable(trail', a)
  BY <1>2 DEF Base, Answerable
<1>7. Base'
  <2>1. run.index <= Count(trail')
    BY DEF Base, Noted
  <2> QED
    BY <1>1, <1>4, <1>5, <1>6, <2>1 DEF Base
<1>8. Previous' = Previous
  <2>1. PICK k, d, c : k = opening.read /\ d = SubSeq(trail, 1, k) /\ c = SubSeq(trail', 1, k)
    OBVIOUS
  <2> DEFINE S == {trail[i] : i \in DOMAIN trail}
  <2>2. (\A i \in 1 .. k : trail[i] \in S /\ trail'[i] \in S /\ trail'[i] = trail[i]) /\ k \in Nat
    BY <1>2, <1>3, <2>1
  <2> HIDE DEF S
  <2>3. /\ d \in Seq(S) /\ Len(d) = (IF 1 <= k THEN k - 1 + 1 ELSE 0)
        /\ \A i \in 1 .. k - 1 + 1 : d[i] = trail[1 + i - 1]
    BY <2>1, <2>2, SubSeqProperties
  <2>4. /\ c \in Seq(S) /\ Len(c) = (IF 1 <= k THEN k - 1 + 1 ELSE 0)
        /\ \A i \in 1 .. k - 1 + 1 : c[i] = trail'[1 + i - 1]
    BY <2>1, <2>2, SubSeqProperties
  <2>5. Len(c) = Len(d) /\ \A i \in 1 .. Len(d) : c[i] = d[i]
    <3>1. Len(d) = k /\ Len(c) = k /\ k - 1 + 1 = k
      BY <2>2, <2>3, <2>4
    <3>2. ASSUME NEW i \in 1 .. k PROVE c[i] = d[i]
      <4>1. 1 + i - 1 = i /\ i \in 1 .. k - 1 + 1
        BY <3>1
      <4>2. d[i] = trail[i] /\ c[i] = trail'[i]
        BY <2>3, <2>4, <4>1
      <4> QED
        BY <2>2, <4>2
    <3> QED
      BY <3>1, <3>2
  <2>6. c = d
    BY <2>3, <2>4, <2>5, SeqEqual
  <2> QED
    BY <2>1, <2>6 DEF Previous
<1> QED
  BY <1>7, <1>8

\* A wait of the cycle a cancel has read is in the trail.
LEMMA CycleWaits ==
    ASSUME NEW e, Listed(e), NEW m \in 0 .. Len(e), NEW c, c = Cycle(SubSeq(e, 1, m)), NEW w, w = PendingWait(c), w # 0
    PROVE  \E k \in DOMAIN e : e[k] = c[w] /\ e[k].type = "wait.started"
<1>1. PICK d, s : d = SubSeq(e, 1, m) /\ s = CycleStart(d)
  OBVIOUS
<1>2. Len(d) = m /\ DOMAIN d = 1 .. m /\ (\A i \in 1 .. m : d[i] = e[i]) /\ m \in Nat
  <2>1. Len(e) \in Nat
    BY DEF Listed
  <2> QED
    BY <1>1, <2>1, SubSeqOf
<1>3. s \in Nat \ {0}
  <2>1. Trail!Positions(d, Reopening) \in SUBSET (1 .. m)
    BY <1>2 DEF Trail!Positions
  <2>2. PICK S \in SUBSET (1 .. m) : S = Trail!Positions(d, Reopening)
    BY <2>1
  <2>3. Trail!Latest(S) \in S \cup {0}
    BY <1>2, LatestOf
  <2>4. s = Trail!Latest(S) + 1
    BY <1>1, <2>2 DEF CycleStart
  <2>5. PICK l \in Nat : l = Trail!Latest(S)
    BY <1>2, <2>2, <2>3
  <2>6. s = l + 1
    BY <2>4, <2>5
  <2> QED
    BY <2>6
<1>4. c = SubSeq(d, s, m)
  BY <1>1, <1>2 DEF Cycle
<1> DEFINE S == {d[i] : i \in s .. m}
<1>5. \A i \in s .. m : d[i] \in S
  OBVIOUS
<1> HIDE DEF S
<1>6. c \in Seq(S) /\ Len(c) = (IF s <= m THEN m - s + 1 ELSE 0) /\ \A i \in 1 .. m - s + 1 : c[i] = d[s + i - 1]
  <2>1. s \in Int /\ m \in Int
    BY <1>2, <1>3
  <2>2. PICK u : u = SubSeq(d, s, m)
    OBVIOUS
  <2>3. u \in Seq(S) /\ Len(u) = (IF s <= m THEN m - s + 1 ELSE 0) /\ \A i \in 1 .. m - s + 1 : u[i] = d[s + i - 1]
    BY <1>5, <2>1, <2>2, SubSeqProperties
  <2> QED
    BY <1>4, <2>2, <2>3
<1>7. PICK n \in Nat : n = Len(c) /\ DOMAIN c = 1 .. n
  BY <1>6
<1>8. w \in DOMAIN c /\ c[w].type = "wait.started"
  <2>1. PICK P \in SUBSET (1 .. n) : P = PendingWaits(c)
    BY <1>7 DEF PendingWaits
  <2>2. Trail!Latest(P) \in P \cup {0}
    BY LatestOf
  <2>3. w \in P
    BY <2>1, <2>2 DEF PendingWait
  <2> QED
    BY <2>1, <2>3 DEF PendingWaits
<1>9. w \in 1 .. m - s + 1 /\ s + w - 1 \in 1 .. m
  BY <1>2, <1>3, <1>6, <1>7, <1>8
<1>10. c[w] = d[s + w - 1] /\ d[s + w - 1] = e[s + w - 1]
  BY <1>2, <1>6, <1>9
<1>11. s + w - 1 \in DOMAIN e
  BY <1>2, <1>9 DEF Listed
<1> QED
  BY <1>8, <1>10, <1>11

\* A cancel writes what it has to of the trail it read.
LEMMA RecordCancelKeeps ==
    ASSUME Base, RecordCancel
    PROVE  /\ Base' /\ Previous' = Previous
           /\ Sound(prog, trail, run) => Sound(prog, trail', run')
<1>1. /\ cancel # 0 /\ cancel' = 0 /\ request' = TRUE
      /\ late' = (late \/ \E i \in DOMAIN trail : i > cancel /\ trail[i].type \in Trail!RunEnd)
      /\ UNCHANGED <<prog, run, answers, opening, used, strayed>>
  BY DEF RecordCancel
<1>2. RCTypeOK /\ RecordedOK(prog, trail) /\ Listed(trail)
  BY DEF Base, RecordedOK
<1>3. PICK c, w : c = Cycle(SubSeq(trail, 1, cancel)) /\ w = PendingWait(c)
  OBVIOUS
<1>4. PICK u, x, v : /\ u = OfRun("workflow.cancelRequested") /\ x = Ev("step.cancelled", c[w].step, 0, "none", 0)
                     /\ v = OfRun("workflow.cancelled")
  OBVIOUS
<1>5. PICK asked, step :
          /\ asked \in {<<>>, <<u>>} /\ step \in {<<>>, <<x>>} /\ (step = <<x>> => w # 0 \/ step = <<>>)
          /\ trail' = trail \o asked \o step \o <<v>>
  <2> DEFINE asked == IF Trail!Positions(c, {"workflow.cancelRequested"}) = {} THEN <<u>> ELSE <<>>
             step == IF request \/ w = 0 THEN <<>>
                     ELSE IF \E i \in DOMAIN c : c[i].type = "step.cancelled" /\ c[i].step = c[w].step
                     THEN <<>> ELSE <<x>>
  <2>1. trail' = trail \o asked \o step \o <<v>>
    BY <1>3, <1>4 DEF RecordCancel
  <2>2. asked \in {<<>>, <<u>>} /\ step \in {<<>>, <<x>>} /\ (step = <<x>> => w # 0 \/ step = <<>>)
    OBVIOUS
  <2> QED
    BY <2>1, <2>2
<1>6. /\ u.type = "workflow.cancelRequested" /\ v.type = "workflow.cancelled" /\ x.type = "step.cancelled"
      /\ x.step = c[w].step /\ Writes(prog, trail, u) /\ Writes(prog, trail, v)
  <2>1. u.type = "workflow.cancelRequested" /\ v.type = "workflow.cancelled" /\ Writes(prog, trail, u) /\ Writes(prog, trail, v)
    BY <1>4, OfRunIs DEF StepEvent, DriverEvent
  <2>2. x.type = "step.cancelled" /\ x.step = c[w].step
    BY <1>4 DEF Ev
  <2> QED
    BY <2>1, <2>2
<1>7. w # 0 => (\E k \in DOMAIN trail : trail[k].type = "wait.started" /\ x.step = trail[k].step) /\ Writes(prog, trail, x)
  <2>1. ASSUME w # 0
        PROVE  \E k \in DOMAIN trail : trail[k].type = "wait.started" /\ x.step = trail[k].step
    <3>1. cancel \in 0 .. Len(trail)
      BY <1>2 DEF RCTypeOK
    <3>2. \E k \in DOMAIN trail : trail[k] = c[w] /\ trail[k].type = "wait.started"
      BY <1>2, <1>3, <2>1, <3>1, CycleWaits
    <3> QED
      BY <1>6, <3>2
  <2>2. ASSUME w # 0 PROVE Writes(prog, trail, x)
    <3>1. PICK k \in DOMAIN trail : trail[k].type = "wait.started" /\ x.step = trail[k].step
      BY <2>1, <2>2
    <3>2. x.step \in DOMAIN prog
      BY <1>2, <3>1 DEF RecordedOK, TrailOK, EventOK, StepEvent, DriverEvent
    <3> QED
      BY <1>6, <3>2 DEF Writes, EventOK, StepEvent, DriverEvent
  <2> QED
    BY <2>1, <2>2
<1>8. \A s : Listed(s) => s \o <<>> = s
  BY ConcatEmptySeq DEF Listed
<1>9. \A s, y : Listed(s) /\ y.type # "workflow.completed" => s \o <<y>> = Append(s, y)
  BY OneFollows
<1>10. Noted(prog, trail, trail, run)
  BY <1>2 DEF Noted, RecordedOK, TrailOK
<1>11. PICK g : g = trail \o asked
  OBVIOUS
<1>12. Noted(prog, trail, g, run)
  <2>1. CASE asked = <<>>
    BY <1>2, <1>8, <1>10, <1>11, <2>1
  <2>2. CASE asked = <<u>>
    <3>1. g = Append(trail, u)
      BY <1>2, <1>6, <1>9, <1>11, <2>2
    <3>2. u.type \in CancelEvent /\ u.type # "step.cancelled"
      BY <1>6 DEF CancelEvent
    <3> QED
      BY <1>2, <1>6, <1>10, <3>1, <3>2, Notes
  <2> QED
    BY <1>5, <2>1, <2>2
<1>13. PICK h : h = g \o step
  OBVIOUS
<1>14. Noted(prog, trail, h, run)
  <2>1. Listed(g)
    BY <1>12 DEF Noted, RecordedOK
  <2>2. CASE step = <<>>
    BY <1>8, <1>12, <1>13, <2>1, <2>2
  <2>3. CASE step = <<x>> /\ step # <<>>
    <3>1. h = Append(g, x)
      BY <1>6, <1>9, <1>13, <2>1, <2>3
    <3>2. x.type \in CancelEvent /\ w # 0
      BY <1>5, <1>6, <2>3 DEF CancelEvent
    <3> QED
      BY <1>2, <1>6, <1>7, <1>12, <3>1, <3>2, Notes
  <2> QED
    BY <1>5, <2>2, <2>3
<1>15. Noted(prog, trail, trail', run)
  <2>1. Listed(h)
    BY <1>14 DEF Noted, RecordedOK
  <2>2. trail' = h \o <<v>>
    BY <1>5, <1>11, <1>13
  <2>3. trail' = Append(h, v)
    BY <1>6, <1>9, <2>1, <2>2
  <2>4. v.type \in CancelEvent /\ v.type # "step.cancelled"
    BY <1>6 DEF CancelEvent
  <2> QED
    BY <1>2, <1>6, <1>14, <2>3, <2>4, Notes
<1>16. late' \in BOOLEAN /\ request' \in BOOLEAN
  BY <1>1, <1>2 DEF RCTypeOK
<1>17. Base' /\ Previous' = Previous
  BY <1>1, <1>15, <1>16, NotedBase
<1> QED
  BY <1>1, <1>15, <1>17 DEF Noted

\* The starts are numbered from one.
LEMMA StartAtIs ==
    ASSUME NEW p, NEW e, TrailOK(p, e), NEW n \in 1 .. Count(e)
    PROVE  StartAt(e, n) \in Starts(e)
<1>1. /\ Len(e) \in Nat /\ Starts(e) \subseteq 1 .. Len(e) /\ Count(e) \in Nat
  BY LastStartIs, StartsCounted DEF Count
<1> DEFINE upTo(k) == {j \in Starts(e) : j <= k}
           S == {k \in 0 .. Len(e) : Cardinality(upTo(k)) >= n}
<1>2. \A k \in 0 .. Len(e) : IsFiniteSet(upTo(k)) /\ Cardinality(upTo(k)) \in Nat
  BY StartsCounted
<1>3. upTo(Len(e)) = Starts(e) /\ Len(e) \in S
  <2>1. upTo(Len(e)) = Starts(e)
    BY <1>1
  <2>2. PICK c \in Nat : c = Count(e)
    BY <1>1
  <2>3. PICK T : T = upTo(Len(e))
    OBVIOUS
  <2>4. Cardinality(T) = c
    BY <2>1, <2>2, <2>3 DEF Count
  <2>5. c >= n
    BY <2>2
  <2>6. Cardinality(upTo(Len(e))) >= n
    BY <2>3, <2>4, <2>5
  <2>7. Len(e) \in 0 .. Len(e)
    BY <1>1
  <2> QED
    BY <2>1, <2>6, <2>7
<1>4. PICK m \in S : \A k \in S : m <= k
  <2>1. S \in SUBSET (0 .. Len(e)) /\ S # {}
    BY <1>3
  <2> HIDE DEF S
  <2> QED
    BY <1>1, <2>1, LeastOf
<1>5. m \in 1 .. Len(e)
  <2>1. upTo(0) = {}
    BY <1>1
  <2>2. Cardinality(upTo(0)) = 0
    BY <2>1, FS_EmptySet
  <2>3. m \in 0 .. Len(e) /\ Cardinality(upTo(m)) >= n
    BY <1>4
  <2>4. n > 0
    BY <1>1
  <2>5. m # 0
    <3> SUFFICES ASSUME m = 0
                 PROVE  FALSE
      OBVIOUS
    <3>1. PICK c : c = Cardinality(upTo(0))
      OBVIOUS
    <3>2. c >= n /\ c = 0
      BY <2>2, <2>3, <3>1
    <3> QED
      BY <1>1, <2>4, <3>2
  <2> QED
    BY <1>1, <2>3, <2>5
<1>6. m - 1 \in 0 .. Len(e) /\ ~(Cardinality(upTo(m - 1)) >= n)
  <2>1. m - 1 \in 0 .. Len(e)
    BY <1>1, <1>5
  <2>2. m - 1 \notin S
    BY <1>1, <1>4, <1>5
  <2> QED
    BY <2>1, <2>2
<1>7. Cardinality(upTo(m)) >= n
  BY <1>4
<1>8. m \in Starts(e) /\ Cardinality(upTo(m)) = n
  <2>1. PICK A, B : A = upTo(m - 1) /\ B = upTo(m)
    OBVIOUS
  <2>2. \A j \in Starts(e) : j <= m <=> j <= m - 1 \/ j = m
    BY <1>1, <1>5
  <2>3. CASE m \notin Starts(e)
    <3>1. B = A
      BY <2>1, <2>2, <2>3
    <3> QED
      BY <1>6, <1>7, <2>1, <3>1
  <2>4. CASE m \in Starts(e)
    <3>1. B = A \cup {m} /\ m \notin A
      BY <1>1, <1>5, <2>1, <2>2, <2>4
    <3>2. IsFiniteSet(A) /\ Cardinality(A) \in Nat
      BY <1>2, <1>6, <2>1
    <3>3. Cardinality(B) = Cardinality(A) + 1
      BY <3>1, <3>2, FS_AddElement
    <3> QED
      BY <1>6, <1>7, <2>1, <2>4, <3>2, <3>3
  <2> QED
    BY <2>3, <2>4
<1>9. \E i \in Starts(e) : Cardinality({j \in Starts(e) : j <= i}) = n
  BY <1>8
<1> QED
  BY <1>9 DEF StartAt

\* A replay that is not refused ends at a step of the workflow.
LEMMA ReplayPlaced ==
    ASSUME NEW p, NEW e, TrailOK(p, e), NEW K, K \subseteq DOMAIN e, NEW s, ReplayCompleted(p, e, K, s) \notin NoReplay
    PROVE  ReplayCompleted(p, e, K, s) \in Node(p) /\ ReplayCompleted(p, e, K, s).step = s
<1>1. PICK R, n : R = Reached(p, e, K) /\ n = Len(e)
  OBVIOUS
<1>2. R \in [0 .. n -> Node(p) \cup NoReplay] /\ n \in 0 .. n
  BY <1>1, ReachedIs DEF TrailOK
<1>3. ReplayCompleted(p, e, K, s) = R[n] /\ R[n].step = s
  BY <1>1, ReplayedIs
<1> QED
  BY <1>2, <1>3

\* The retry of a failed run starts a step of the workflow.
LEMMA RetryPlaced ==
    ASSUME NEW p, NEW e, TrailOK(p, e), RetryFailure(p, e) \notin NoReplay
    PROVE  RetryFailure(p, e) \in Node(p) /\ Trail!LatestUnresolvedFailure(e) \in DOMAIN e
<1>1. PICK s : s = Trail!LatestUnresolvedFailure(e)
  OBVIOUS
<1>2. /\ s # 0 /\ e[s].step # "none" /\ ReplayCompleted(p, e, KeptEvents(e, s), e[s].step) \notin NoReplay
      /\ RetryFailure(p, e) = ReplayCompleted(p, e, KeptEvents(e, s), e[s].step)
  BY <1>1 DEF RetryFailure, NoReplay
<1>3. s \in DOMAIN e
  BY <1>1, <1>2, FailureIs
<1>4. KeptEvents(e, s) \subseteq DOMAIN e
  <2>1. KeptEvents(e, s) \subseteq 1 .. s - 1
    BY DEF KeptEvents
  <2>2. 1 .. s - 1 \subseteq DOMAIN e
    BY <1>3 DEF TrailOK
  <2> QED
    BY <2>1, <2>2
<1> QED
  BY <1>1, <1>2, <1>3, <1>4, ReplayPlaced

\* So does the retry of a cancelled run.
LEMMA CancelledPlaced ==
    ASSUME NEW p, NEW e, TrailOK(p, e), RetryCancelled(p, e) \notin NoReplay
    PROVE  RetryCancelled(p, e) \in Node(p)
<1>1. PICK c, start : /\ c = CancelledStep(e)
                      /\ start = Trail!Latest({i \in Starts(e) : i <= c /\ e[i].step = e[c].step})
  OBVIOUS
<1>2. /\ start # 0 /\ ReplayCompleted(p, e, 1 .. start - 1, e[c].step) \notin NoReplay
      /\ RetryCancelled(p, e) = ReplayCompleted(p, e, 1 .. start - 1, e[c].step)
  BY <1>1 DEF RetryCancelled, NoReplay
<1>3. start \in 1 .. Len(e) /\ Len(e) \in Nat /\ DOMAIN e = 1 .. Len(e)
  <2>1. PICK n \in Nat : n = Len(e) /\ DOMAIN e = 1 .. n
    BY DEF TrailOK
  <2>2. PICK S \in SUBSET (1 .. n) : S = {i \in Starts(e) : i <= c /\ e[i].step = e[c].step}
    BY <2>1 DEF Starts
  <2>3. Trail!Latest(S) \in S \cup {0}
    BY <2>1, <2>2, LatestOf
  <2>4. start = Trail!Latest(S) /\ start # 0
    BY <1>1, <1>2, <2>2
  <2>5. start \in 1 .. n
    BY <2>2, <2>3, <2>4
  <2> QED
    BY <2>1, <2>5
<1>4. PICK K : K = 1 .. start - 1
  OBVIOUS
<1>5. K \subseteq DOMAIN e
  BY <1>3, <1>4
<1>6. ReplayCompleted(p, e, K, e[c].step) \notin NoReplay /\ RetryCancelled(p, e) = ReplayCompleted(p, e, K, e[c].step)
  BY <1>2, <1>4
<1> QED
  BY <1>5, <1>6, ReplayPlaced

\* So does the resume of a failed run.
LEMMA ResumePlaced ==
    ASSUME NEW p, NEW e, TrailOK(p, e), ResumeFailed(p, e) \notin NoReplay
    PROVE  ResumeFailed(p, e) \in Node(p)
<1>1. PICK R, n : R = Reached(p, e, DOMAIN e) /\ n = Len(e)
  OBVIOUS
<1>2. R \in [0 .. n -> Node(p) \cup NoReplay] /\ n \in 0 .. n
  BY <1>1, ReachedIs DEF TrailOK
<1>3. ResumeFailed(p, e) = R[n]
  BY <1>1, ResumeIs
<1> QED
  BY <1>2, <1>3

\* Where a continue takes a run up is a phase of a step.
PlacedAt(p, to) ==
    /\ to.node \in Node(p) /\ to.node.step \in DOMAIN p /\ to.at \in DOMAIN Phases(p, to.node.step)
    /\ to.value \in Value /\ to.waits \in [WaitId -> 0 .. 2]

\* A place inside an attempt is at a phase of its step.
LEMMA PrefixPlaced ==
    ASSUME NEW p, NEW e, TrailOK(p, e), NEW w \in DOMAIN e, e[w].type = "wait.started", NEW start \in DOMAIN e,
           NEW node \in Node(p), node.step = e[w].step, NEW to, to = Prefix(p, e, node, start, w), to # NoPlace
    PROVE  PlacedAt(p, to) /\ to.index = e[w].index
<1> DEFINE s == node.step
           phases == Phases(p, s)
           at == CHOOSE i \in DOMAIN phases : phases[i] = e[w].wait
           done == {i \in start + 1 .. w - 1 : e[i].type = "step.completed" /\ e[i].step = s}
           S == SatisfiedBetween(e, DOMAIN e, s, start, w)
           asks == \E i \in 1 .. at - 1 : phases[i] = "prompt"
<1>1. s = node.step /\ phases = Phases(p, s)
  OBVIOUS
<1>2. PICK n \in Nat : n = Len(e) /\ DOMAIN e = 1 .. n
  BY DEF TrailOK
<1>3. s \in DOMAIN p /\ \E i \in DOMAIN phases : phases[i] = e[w].wait
  BY DEF TrailOK, EventOK, StepEvent, DriverEvent, Waits
<1>4. /\ at = CHOOSE i \in DOMAIN phases : phases[i] = e[w].wait
      /\ done = {i \in start + 1 .. w - 1 : e[i].type = "step.completed" /\ e[i].step = s}
      /\ S = SatisfiedBetween(e, DOMAIN e, s, start, w)
  OBVIOUS
<1>5. asks <=> \E i \in 1 .. at - 1 : phases[i] = "prompt"
  OBVIOUS
<1>6. /\ ~(asks /\ done = {})
      /\ to = [node |-> node, at |-> at, index |-> e[w].index, waits |-> Outputs(e, S),
               value |-> IF asks THEN e[CHOOSE i \in done : \A j \in done : i <= j].out ELSE node.input]
  <2>1. to = IF \/ asks /\ done = {}
                \/ Cardinality(S) < Cardinality({i \in 1 .. at - 1 : phases[i] \in WaitId})
                \/ TwiceSatisfied(e, S)
             THEN NoPlace
             ELSE [node |-> node, at |-> at, index |-> e[w].index, waits |-> Outputs(e, S),
                   value |-> IF asks THEN e[CHOOSE i \in done : \A j \in done : i <= j].out ELSE node.input]
    BY DEF Prefix
  <2> HIDE DEF s, phases, at, done, S, asks
  <2> QED
    BY <2>1
<1> HIDE DEF s, phases, at, done, S, asks
<1>7. at \in DOMAIN phases
  BY <1>3, <1>4
<1>8. Outputs(e, S) \in [WaitId -> 0 .. 2]
  <2>1. \A i \in S : e[i].out \in Value
    BY <1>4 DEF SatisfiedBetween, TrailOK, EventOK
  <2> QED
    BY <2>1, OutputsAre
<1>9. to.value \in Value
  <2>1. CASE ~asks
    BY <1>6, <2>1 DEF Node
  <2>2. CASE asks
    <3>1. done \in SUBSET (0 .. n) /\ done # {}
      BY <1>2, <1>4, <1>6, <2>2
    <3>2. \E i \in done : \A j \in done : i <= j
      BY <3>1, LeastOf
    <3>3. PICK i : i = CHOOSE k \in done : \A j \in done : k <= j
      OBVIOUS
    <3>4. i \in done
      BY <3>2, <3>3
    <3>5. i \in DOMAIN e /\ e[i].type = "step.completed" /\ e[i].step = s
      BY <1>2, <1>4, <3>4
    <3>6. Has(p, s, {"prompt"})
      <4>1. PICK k \in 1 .. at - 1 : phases[k] = "prompt"
        BY <1>5, <2>2
      <4>2. k \in DOMAIN phases
        BY <1>1, <1>3, <1>7, <4>1, PhasesOf DEF TrailOK
      <4> QED
        BY <1>1, <4>1, <4>2 DEF Has
    <3>7. e[i].out \in Value
      BY <3>5, <3>6 DEF TrailOK, EventOK
    <3> QED
      BY <1>6, <2>2, <3>3, <3>7
  <2> QED
    BY <2>1, <2>2
<1> QED
  BY <1>1, <1>3, <1>6, <1>7, <1>8, <1>9 DEF PlacedAt

\* So is the place a continue finds.
LEMMA ContinuePlaced ==
    ASSUME NEW p, NEW e, TrailOK(p, e), \A i \in DOMAIN e : e[i].type = "wait.started" => e[i].index \in 1 .. Count(e),
           NEW to, to = ContinueWait(p, e), to.node \notin NoReplay
    PROVE  PlacedAt(p, to) /\ to.index \in 1 .. Count(e)
<1>1. PICK w, start, node :
          /\ w = PendingWait(e) /\ start = StartAt(e, e[w].index)
          /\ node = ReplayCompleted(p, e, 1 .. start - 1, e[w].step)
  OBVIOUS
<1>2. w # 0 /\ node \notin NoReplay /\ to = Prefix(p, e, node, start, w) /\ to # NoPlace
  <2>1. NoPlace.node = Refused
    BY DEF NoPlace
  <2>2. \A x : [NoPlace EXCEPT !.node = x].node = x
    BY DEF NoPlace
  <2> QED
    BY <1>1, <2>1, <2>2 DEF ContinueWait, NoReplay
<1>3. PICK n \in Nat : n = Len(e) /\ DOMAIN e = 1 .. n
  BY DEF TrailOK
<1>4. w \in DOMAIN e /\ e[w].type = "wait.started"
  <2>1. PICK P \in SUBSET (1 .. n) : P = PendingWaits(e)
    BY <1>3 DEF PendingWaits
  <2>2. Trail!Latest(P) \in P \cup {0}
    BY <1>3, <2>1, LatestOf
  <2>3. w \in P
    BY <1>1, <1>2, <2>1, <2>2 DEF PendingWait
  <2> QED
    BY <2>1, <2>3 DEF PendingWaits
<1>5. start \in DOMAIN e
  <2>1. PICK k \in 1 .. Count(e) : k = e[w].index
    BY <1>4
  <2>2. StartAt(e, k) \in Starts(e)
    BY StartAtIs
  <2> QED
    BY <1>1, <2>1, <2>2 DEF Starts
<1>6. node \in Node(p) /\ node.step = e[w].step
  <2>1. PICK K : K = 1 .. start - 1
    OBVIOUS
  <2>2. K \subseteq DOMAIN e
    BY <1>3, <1>5, <2>1
  <2>3. node = ReplayCompleted(p, e, K, e[w].step)
    BY <1>1, <2>1
  <2> QED
    BY <1>2, <2>2, <2>3, ReplayPlaced
<1>7. PlacedAt(p, to) /\ to.index = e[w].index
  BY <1>2, <1>4, <1>5, <1>6, PrefixPlaced
<1> QED
  BY <1>4, <1>7

\* The replay of the command that opens the run.
Continues(to) == Way = "continue" /\ opening.kind = "continue" /\ to = ContinueWait(prog, Previous)
Resumes(to) == Way = "resume" /\ opening.kind = "resume" /\ to = Fresh(ResumeFailed(prog, Previous))
CancelledRetries(to) == Way = "cancelled" /\ opening.kind = "retry" /\ to = Fresh(RetryCancelled(prog, Previous))
FailedRetries(to) == Way = "retry" /\ opening.kind = "retry" /\ to = Fresh(RetryFailure(prog, Previous))

\* The command that opens the run takes one of the four ways.
LEMMA PlaceOfWay ==
    ASSUME Base, opening.kind # "none"
    PROVE  Continues(Place) \/ Resumes(Place) \/ CancelledRetries(Place) \/ FailedRetries(Place)
<1>1. opening.kind \in {"continue", "retry", "resume"}
  BY DEF Base, RCTypeOK
<1>2. CASE opening.kind = "continue"
  BY <1>2 DEF Way, Place, Continues
<1>3. CASE opening.kind = "resume"
  BY <1>3 DEF Way, Place, Resumes
<1>4. CASE opening.kind = "retry"
  <2>1. CASE Trail!TerminalStatus(Cycle(Previous)) = "cancelled"
    BY <1>4, <2>1 DEF Way, Place, CancelledRetries
  <2>2. CASE Trail!TerminalStatus(Cycle(Previous)) # "cancelled"
    BY <1>4, <2>2 DEF Way, Place, FailedRetries
  <2> QED
    BY <2>1, <2>2
<1> QED
  BY <1>1, <1>2, <1>3, <1>4

\* A place to start a step at.
LEMMA FreshPlaced ==
    ASSUME NEW p, NEW node \in Node(p), NEW pc, pc = "step"
    PROVE  PlacedOK(p, At(Fresh(node), pc)) /\ At(Fresh(node), pc).index = 0
<1>1. PICK r : r = At(Fresh(node), pc)
  OBVIOUS
<1>2. IsAt(r, pc, node, 1, node.input, Unanswered, 0)
  BY <1>1, FreshIs
<1>3. r = At(r, r.pc) /\ r.pc = "step" /\ r.node = node /\ r.value = node.input /\ r.waits = Unanswered /\ r.index = 0
  BY <1>2 DEF IsAt
<1>4. r.node.input \in Value /\ Unanswered \in [WaitId -> 0 .. 2]
  BY <1>3 DEF Node, Unanswered
<1>5. r = At(Fresh(r.node), "step")
  BY <1>1, <1>3
<1> QED
  BY <1>1, <1>3, <1>4, <1>5 DEF PlacedOK

\* A place to take an attempt up at.
LEMMA ContinuedPlaced ==
    ASSUME NEW p, NEW to, PlacedAt(p, to), to.index \in Nat \ {0}, NEW pc, pc = "phase"
    PROVE  PlacedOK(p, At(to, pc)) /\ At(to, pc).index = to.index
<1>1. PICK r : r = At(to, pc)
  OBVIOUS
<1>2. /\ r.pc = "phase" /\ r.node = to.node /\ r.at = to.at /\ r.value = to.value /\ r.waits = to.waits /\ r.index = to.index
      /\ r = At(r, r.pc)
  BY <1>1 DEF At
<1> QED
  BY <1>1, <1>2 DEF PlacedOK, PlacedAt

\* Where the command takes the run up, and what it writes.
Reopened(to, v) ==
    LET t == At(to, IF opening.kind = "continue" THEN "phase" ELSE "step")
    IN  /\ PlacedOK(prog, t) /\ t.index <= Count(trail)
        /\ Writes(prog, trail, v) /\ v.type \in Reopening

\* A command that starts a step again leaves the run at the start of one.
LEMMA FreshReopens ==
    ASSUME Base, opening.kind \in {"retry", "resume"}, NEW node \in Node(prog), NEW v, Writes(prog, trail, v), v.type \in Reopening
    PROVE  Reopened(Fresh(node), v)
<1>1. PICK to, t : to = Fresh(node) /\ t = At(to, "step")
  OBVIOUS
<1>2. PlacedOK(prog, t) /\ t.index = 0
  BY <1>1, FreshPlaced
<1>3. Count(trail) \in Nat
  BY StartsCounted DEF Count, Base, RecordedOK
<1>4. opening.kind # "continue"
  OBVIOUS
<1> QED
  BY <1>1, <1>2, <1>3, <1>4 DEF Reopened

\* What a command that starts a step again writes.
LEMMA ReopenWrites ==
    ASSUME Base, NEW s, s \in 0 .. Len(trail)
    PROVE  /\ Writes(prog, trail, OfRun("workflow.resumed")) /\ OfRun("workflow.resumed").type = "workflow.resumed"
           /\ \A v : v = [OfRun("workflow.retryStarted") EXCEPT !.source = s] =>
                Writes(prog, trail, v) /\ v.type = "workflow.retryStarted" /\ v.source = s
           /\ OfRun("workflow.retryStarted").source = 0
           /\ OfRun("workflow.retryStarted").type = "workflow.retryStarted" /\ Writes(prog, trail, OfRun("workflow.retryStarted"))
<1>1. "workflow.resumed" \notin StepEvent /\ "workflow.retryStarted" \notin StepEvent
  BY DEF StepEvent, DriverEvent
<1>2. Writes(prog, trail, OfRun("workflow.resumed")) /\ OfRun("workflow.resumed").type = "workflow.resumed"
  BY <1>1, OfRunIs
<1>3. ASSUME NEW x \in 0 .. Len(trail), NEW v, v.type = "workflow.retryStarted", v.step = "none", v.source = x
      PROVE  Writes(prog, trail, v)
  <2>1. EventOK(prog, v)
    BY <1>1, <1>3 DEF EventOK
  <2> QED
    BY <1>3, <2>1 DEF Writes
<1>4. PICK u : u = OfRun("workflow.retryStarted")
  OBVIOUS
<1>5. u.type = "workflow.retryStarted" /\ u.step = "none" /\ u.source = 0
  BY <1>4 DEF OfRun, Ev
<1>6. 0 \in 0 .. Len(trail)
  BY DEF Base, RecordedOK, TrailOK
<1>7. Writes(prog, trail, u)
  BY <1>3, <1>5, <1>6
<1>8. ASSUME NEW v, v = [u EXCEPT !.source = s]
      PROVE  Writes(prog, trail, v) /\ v.type = "workflow.retryStarted" /\ v.source = s
  <2>1. v.type = "workflow.retryStarted" /\ v.step = "none" /\ v.source = s
    BY <1>4, <1>8 DEF OfRun, Ev
  <2> QED
    BY <1>3, <2>1
<1> QED
  BY <1>2, <1>4, <1>5, <1>7, <1>8

\* Whatever way it takes, the command leaves the run at a place of the workflow.
LEMMA Reopens ==
    ASSUME Base, opening.kind # "none", NEW to, to = Place, to.node \notin NoReplay
    PROVE  Reopened(to, ReopenEvent)
<1>1. PICK d : d = Previous
  OBVIOUS
<1>2. TrailOK(prog, trail) /\ ReadOf(d, trail) /\ RecordedOK(prog, trail)
  BY <1>1, PreviousIs DEF Base, RecordedOK
<1>3. TrailOK(prog, d) /\ Count(d) = Count(trail) /\ (\A i \in DOMAIN d : i \in DOMAIN trail /\ d[i] = trail[i])
  <2>1. PICK e : e = trail
    OBVIOUS
  <2>2. TrailOK(prog, e) /\ ReadOf(d, e)
    BY <1>2, <2>1
  <2>3. TrailOK(prog, d) /\ Count(d) = Count(e) /\ DOMAIN d \subseteq DOMAIN e /\ (\A i \in DOMAIN d : d[i] = e[i])
    BY <2>2, ReadAlike
  <2> QED
    BY <2>1, <2>3
<1>4. \A node : Fresh(node).node = node
  BY DEF Fresh, NoPlace
<1>5. CASE Continues(to)
  <2>1. \A i \in DOMAIN d : d[i].type = "wait.started" => d[i].index \in 1 .. Count(d)
    BY <1>2, <1>3 DEF RecordedOK
  <2>2. PlacedAt(prog, to) /\ to.index \in 1 .. Count(d)
    BY <1>1, <1>3, <1>5, <2>1, ContinuePlaced DEF Continues
  <2>3. Count(d) \in Nat
    BY <1>3, StartsCounted DEF Count
  <2>4. to.index \in Nat \ {0} /\ to.index <= Count(trail)
    BY <1>3, <2>2, <2>3
  <2>5. PlacedOK(prog, At(to, "phase")) /\ At(to, "phase").index = to.index
    BY <2>2, <2>4, ContinuedPlaced
  <2>6. ReopenEvent = OfRun("workflow.resumed")
    BY <1>5 DEF Continues, ReopenEvent
  <2>7. Writes(prog, trail, OfRun("workflow.resumed")) /\ OfRun("workflow.resumed").type \in Reopening
    <3>1. 0 \in 0 .. Len(trail)
      BY <1>2 DEF TrailOK
    <3> QED
      BY <3>1, ReopenWrites DEF Reopening
  <2> QED
    BY <1>5, <2>4, <2>5, <2>6, <2>7 DEF Reopened, Continues
<1>6. CASE Resumes(to)
  <2>1. ResumeFailed(prog, d) \notin NoReplay
    BY <1>1, <1>4, <1>6 DEF Resumes
  <2>2. ResumeFailed(prog, d) \in Node(prog)
    BY <1>3, <2>1, ResumePlaced
  <2>3. ReopenEvent = OfRun("workflow.resumed")
    BY <1>6 DEF Resumes, ReopenEvent
  <2>4. Writes(prog, trail, OfRun("workflow.resumed")) /\ OfRun("workflow.resumed").type \in Reopening
    <3>1. 0 \in 0 .. Len(trail)
      BY <1>2 DEF TrailOK
    <3> QED
      BY <3>1, ReopenWrites DEF Reopening
  <2>5. opening.kind \in {"retry", "resume"} /\ to = Fresh(ResumeFailed(prog, d))
    BY <1>1, <1>6 DEF Resumes
  <2> QED
    BY <2>2, <2>3, <2>4, <2>5, FreshReopens
<1>7. CASE CancelledRetries(to)
  <2>1. RetryCancelled(prog, d) \notin NoReplay
    BY <1>1, <1>4, <1>7 DEF CancelledRetries
  <2>2. RetryCancelled(prog, d) \in Node(prog)
    BY <1>3, <2>1, CancelledPlaced
  <2>3. ReopenEvent = OfRun("workflow.retryStarted")
    BY <1>7 DEF CancelledRetries, ReopenEvent
  <2>4. Writes(prog, trail, OfRun("workflow.retryStarted")) /\ OfRun("workflow.retryStarted").type \in Reopening
    <3>1. 0 \in 0 .. Len(trail)
      BY <1>2 DEF TrailOK
    <3> QED
      BY <3>1, ReopenWrites DEF Reopening
  <2>5. opening.kind \in {"retry", "resume"} /\ to = Fresh(RetryCancelled(prog, d))
    BY <1>1, <1>7 DEF CancelledRetries
  <2> QED
    BY <2>2, <2>3, <2>4, <2>5, FreshReopens
<1>8. CASE FailedRetries(to)
  <2>1. RetryFailure(prog, d) \notin NoReplay
    BY <1>1, <1>4, <1>8 DEF FailedRetries
  <2>2. PICK s : s = Trail!LatestUnresolvedFailure(d)
    OBVIOUS
  <2>3. RetryFailure(prog, d) \in Node(prog) /\ s \in DOMAIN d
    BY <1>3, <2>1, <2>2, RetryPlaced
  <2>4. s \in 0 .. Len(trail)
    BY <1>2, <1>3, <2>3 DEF TrailOK
  <2>5. PICK v : v = [OfRun("workflow.retryStarted") EXCEPT !.source = s]
    OBVIOUS
  <2>6. ReopenEvent = v
    BY <1>1, <1>8, <2>2, <2>5 DEF FailedRetries, ReopenEvent
  <2>7. Writes(prog, trail, v) /\ v.type \in Reopening
    BY <2>4, <2>5, ReopenWrites DEF Reopening
  <2>8. opening.kind \in {"retry", "resume"} /\ to = Fresh(RetryFailure(prog, d))
    BY <1>1, <1>8 DEF FailedRetries
  <2> QED
    BY <2>3, <2>6, <2>7, <2>8, FreshReopens
<1> QED
  BY <1>5, <1>6, <1>7, <1>8, PlaceOfWay

\* The command stops opening the run.
LEMMA OpenedBase ==
    ASSUME Base, opening.kind # "none", request' = FALSE, opening' = NotOpening,
           UNCHANGED <<prog, answers, cancel, used, late>>,
           strayed' \in {"none", "continue", "retry", "resume", "cancelled", "superseded"},
           RecordedOK(prog, trail'), PlacedOK(prog, run'), run'.index <= Count(trail'),
           Len(trail) <= Len(trail'), \A i \in DOMAIN trail : trail'[i] = trail[i]
    PROVE  Base'
<1>1. /\ Len(trail) \in Nat /\ DOMAIN trail = 1 .. Len(trail) /\ Len(trail') \in Nat /\ DOMAIN trail' = 1 .. Len(trail')
  BY DEF Base, RecordedOK, TrailOK
<1>2. opening'.kind = "none" /\ opening'.read = 0
  BY DEF NotOpening
<1>3. RCTypeOK'
  <2>1. RCTypeOK
    BY DEF Base
  <2>2. 0 .. 2 = Value \cup {0}
    BY DEF Value
  <2>3. cancel \in 0 .. Len(trail') /\ opening'.read \in 0 .. Len(trail')
    BY <1>1, <1>2, <2>1 DEF RCTypeOK
  <2>4. /\ run'.pc \in {"off", "step", "phase", "failed", "cancelled"}
        /\ run'.node.step \in DOMAIN prog \cup {Done} /\ run'.node.input \in Value
        /\ run'.value \in Value /\ run'.waits \in [WaitId -> Value \cup {0}]
    BY <2>2 DEF PlacedOK, Node
  <2> QED
    BY <1>2, <2>1, <2>3, <2>4 DEF RCTypeOK, Steps
<1>4. \A a \in answers : Answerable(trail', a)
  <2>1. DOMAIN trail \subseteq DOMAIN trail'
    BY <1>1
  <2> QED
    BY <2>1 DEF Base, Answerable
<1> QED
  BY <1>2, <1>3, <1>4 DEF Base

\* A command opens the run, is refused, or throws.
LEMMA ReopenIs ==
    ASSUME Base, Reopen
    PROVE  \/ trail' = trail /\ run' = run /\ strayed' = strayed
           \/ trail' = Append(trail, OfRun("workflow.failed")) /\ run' = run /\ strayed' = strayed
           \/ /\ Place.node \notin NoReplay /\ trail' = Append(trail, ReopenEvent)
              /\ run' = At(Place, IF opening.kind = "continue" THEN "phase" ELSE "step")
              /\ strayed' = CASE strayed # "none" -> strayed
                              [] strayed = "none" /\ Superseded(Place) -> "superseded"
                              [] OTHER -> IF Strays(Place) THEN Way ELSE "none"
<1>1. PICK to : to = Place
  OBVIOUS
<1>2. Refused # Threw
  BY DEF Refused, Threw
<1>3. CASE to.node = Refused
  BY <1>1, <1>3 DEF Reopen
<1>4. CASE to.node = Threw
  BY <1>1, <1>2, <1>4 DEF Reopen
<1>5. CASE to.node \notin NoReplay
  <2>1. to.node # Refused /\ to.node # Threw /\ to.node \notin {Refused, Threw}
    BY <1>5 DEF NoReplay
  <2>2. trail' = Append(trail, ReopenEvent)
    BY <1>1, <2>1 DEF Reopen
  <2>3. /\ run' = At(to, IF opening.kind = "continue" THEN "phase" ELSE "step")
        /\ strayed' = CASE strayed # "none" -> strayed
                        [] strayed = "none" /\ Superseded(to) -> "superseded"
                        [] OTHER -> IF Strays(to) THEN Way ELSE "none"
    BY <1>1, <2>1 DEF Reopen
  <2> QED
    BY <1>1, <1>5, <2>2, <2>3
<1> QED
  BY <1>3, <1>4, <1>5 DEF NoReplay

\* The state after a command has opened the run is one the program can be in.
LEMMA ReopenKeepsBase ==
    ASSUME Base, Reopen
    PROVE  Base'
<1>1. /\ opening.kind # "none" /\ request' = FALSE /\ opening' = NotOpening
      /\ UNCHANGED <<prog, answers, cancel, used, late>>
  BY DEF Reopen
<1>2. /\ RecordedOK(prog, trail) /\ PlacedOK(prog, run) /\ run.index <= Count(trail)
      /\ strayed \in {"none", "continue", "retry", "resume", "cancelled", "superseded"}
      /\ Len(trail) \in Nat
  BY DEF Base, RCTypeOK, RecordedOK, TrailOK
<1>3. CASE trail' = trail /\ run' = run /\ strayed' = strayed
  <2>1. RecordedOK(prog, trail') /\ PlacedOK(prog, run') /\ run'.index <= Count(trail')
    BY <1>2, <1>3
  <2>2. Len(trail) <= Len(trail') /\ \A i \in DOMAIN trail : trail'[i] = trail[i]
    BY <1>2, <1>3
  <2>3. strayed' \in {"none", "continue", "retry", "resume", "cancelled", "superseded"}
    BY <1>2, <1>3
  <2> QED
    BY <1>1, <2>1, <2>2, <2>3, OpenedBase
<1>4. ASSUME NEW v, Writes(prog, trail, v), v.type # "step.started", trail' = Append(trail, v),
             PlacedOK(prog, run'), run'.index <= Count(trail),
             strayed' \in {"none", "continue", "retry", "resume", "cancelled", "superseded"}
      PROVE  Base'
  <2>1. PICK e, f : e = trail /\ f = trail'
    OBVIOUS
  <2>2. RecordedOK(prog, f) /\ Grows(e, f, v)
    BY <1>2, <1>4, <2>1, RecordedGrows
  <2>3. Count(f) = Count(e)
    BY <1>2, <1>4, <2>1, <2>2, StartsGrow DEF RecordedOK
  <2>4. Len(e) <= Len(f) /\ \A i \in DOMAIN e : f[i] = e[i]
    BY <2>2 DEF Grows
  <2>5. RecordedOK(prog, trail') /\ run'.index <= Count(trail')
    BY <1>4, <2>1, <2>2, <2>3
  <2>6. Len(trail) <= Len(trail') /\ \A i \in DOMAIN trail : trail'[i] = trail[i]
    BY <2>1, <2>4
  <2> QED
    BY <1>1, <1>4, <2>5, <2>6, OpenedBase
<1>5. CASE trail' = Append(trail, OfRun("workflow.failed")) /\ run' = run /\ strayed' = strayed
  <2>1. PICK v : v = OfRun("workflow.failed")
    OBVIOUS
  <2>2. Writes(prog, trail, v) /\ v.type = "workflow.failed"
    BY <2>1, OfRunIs DEF StepEvent, DriverEvent
  <2>3. PlacedOK(prog, run') /\ run'.index <= Count(trail)
        /\ strayed' \in {"none", "continue", "retry", "resume", "cancelled", "superseded"}
    BY <1>2, <1>5
  <2> QED
    BY <1>4, <1>5, <2>1, <2>2, <2>3
<1>6. CASE /\ Place.node \notin NoReplay /\ trail' = Append(trail, ReopenEvent)
           /\ run' = At(Place, IF opening.kind = "continue" THEN "phase" ELSE "step")
           /\ strayed' = CASE strayed # "none" -> strayed
                           [] strayed = "none" /\ Superseded(Place) -> "superseded"
                           [] OTHER -> IF Strays(Place) THEN Way ELSE "none"
  <2>1. PICK to, v : to = Place /\ v = ReopenEvent
    OBVIOUS
  <2>2. Reopened(to, v)
    BY <1>1, <1>6, <2>1, Reopens
  <2>3. Writes(prog, trail, v) /\ v.type # "step.started" /\ PlacedOK(prog, run') /\ run'.index <= Count(trail)
    BY <1>6, <2>1, <2>2 DEF Reopened, Reopening
  <2>4. Way \in {"continue", "resume", "cancelled", "retry"}
    BY <1>1, PlaceOfWay DEF Continues, Resumes, CancelledRetries, FailedRetries
  <2>5. strayed' \in {strayed, "superseded", Way, "none"}
    BY <1>6
  <2>6. strayed' \in {"none", "continue", "retry", "resume", "cancelled", "superseded"}
    BY <1>2, <2>4, <2>5
  <2> QED
    BY <1>4, <1>6, <2>1, <2>3, <2>6
<1> QED
  BY <1>3, <1>5, <1>6, ReopenIs

\* What a command that does not pass over a later attempt takes up is of the last one.
LEMMA NotSuperseded ==
    ASSUME NEW to, ~Superseded(to), NEW d, d = Previous
    PROVE  /\ Continues(to) => to.index = Count(d) /\ Regained(d) = {}
           /\ FailedRetries(to) => ~(Trail!LatestUnresolvedFailure(d) < LastStart(d))
<1>1. CASE Continues(to)
  <2>1. to.index = Count(d)
    BY <1>1 DEF Continues, Superseded, Count
  <2>2. ~\E r \in Trail!Positions(d, {"workflow.retryStarted"}) : r > LastStart(d)
    BY <1>1 DEF Continues, Superseded, LastStart
  <2>3. Regained(d) = {}
    <3> SUFFICES ASSUME NEW i \in Regained(d)
                 PROVE  FALSE
      OBVIOUS
    <3>1. i \in DOMAIN d /\ LastStart(d) < i /\ d[i].type = "workflow.retryStarted"
      BY DEF Regained, Recent
    <3>2. i \in Trail!Positions(d, {"workflow.retryStarted"})
      BY <3>1 DEF Trail!Positions
    <3>3. i > LastStart(d)
      BY <3>1
    <3> QED
      BY <2>2, <3>2, <3>3
  <2>4. ~FailedRetries(to)
    BY <1>1 DEF Continues, FailedRetries
  <2> QED
    BY <2>1, <2>3, <2>4
<1>2. CASE FailedRetries(to)
  <2>1. ~(Trail!LatestUnresolvedFailure(d) < LastStart(d))
    BY <1>2 DEF FailedRetries, Superseded, LastStart
  <2>2. ~Continues(to)
    BY <1>2 DEF Continues, FailedRetries
  <2> QED
    BY <2>1, <2>2
<1> QED
  BY <1>1, <1>2

\* The command finds the run where it stopped.
LEMMA NotStraying ==
    ASSUME NEW to, ~Strays(to)
    PROVE  /\ to.node = run.node
           /\ opening.kind = "continue" /\ run.index = to.index => SamePlace(run, At(to, "phase"))
<1>1. to.node = run.node
  BY DEF Strays
<1>2. ASSUME opening.kind = "continue", run.index = to.index
      PROVE  SamePlace(run, At(to, "phase"))
  <2>1. <<to.at, to.value, to.waits>> = <<run.at, run.value, run.waits>>
    BY <1>2 DEF Strays
  <2>2. to.at = run.at /\ to.value = run.value /\ to.waits = run.waits
    BY <2>1
  <2>3. PICK t : t = At(to, "phase")
    OBVIOUS
  <2>4. t.node = to.node /\ t.at = to.at /\ t.value = to.value /\ t.waits = to.waits /\ t.index = to.index
    BY <2>3 DEF At
  <2> QED
    BY <1>1, <1>2, <2>2, <2>3, <2>4 DEF SamePlace
<1> QED
  BY <1>1, <1>2

\* A command that finds the run where it stopped leaves a trail a replay follows.
LEMMA ReopenSound ==
    ASSUME Base, opening.kind # "none", NEW d, d = Previous, NEW e, e = trail, NEW to, to = Place, to.node \notin NoReplay,
           ~Superseded(to), ~Strays(to), NEW v, v = ReopenEvent, NEW f, Grows(e, f, v), TrailOK(prog, f),
           NEW t, t = At(to, IF opening.kind = "continue" THEN "phase" ELSE "step"),
           Sound(prog, d, run), Sound(prog, e, run)
    PROVE  Sound(prog, f, t)
<1>1. TrailOK(prog, e) /\ ReadOf(d, e)
  BY PreviousIs DEF Base, RecordedOK
<1>2. to.node = run.node /\ (opening.kind = "continue" /\ run.index = to.index => SamePlace(run, At(to, "phase")))
  BY NotStraying
<1>3. /\ Continues(to) => to.index = Count(d) /\ Regained(d) = {}
      /\ FailedRetries(to) => ~(Trail!LatestUnresolvedFailure(d) < LastStart(d))
  BY NotSuperseded
<1>4. \A node : Fresh(node).node = node /\ Fresh(node).index = 0
  BY DEF Fresh, NoPlace
<1>5. t.node = to.node /\ t.index = to.index /\ SamePlace(to, t)
  BY DEF At, SamePlace
<1>6. CASE Continues(to)
  <2>1. opening.kind = "continue" /\ to = ContinueWait(prog, d) /\ v = OfRun("workflow.resumed")
    BY <1>6 DEF Continues, ReopenEvent
  <2>2. v.type = "workflow.resumed"
    BY <2>1 DEF OfRun, Ev
  <2>3. t = At(to, "phase")
    BY <2>1
  <2>4. t.pc = "phase"
    BY <2>3 DEF At
  <2>5. PICK r : r = run
    OBVIOUS
  <2>6. r.index = to.index => SamePlace(r, t)
    BY <1>2, <2>1, <2>3, <2>5
  <2> QED
    BY <1>1, <1>2, <1>3, <1>5, <1>6, <2>1, <2>2, <2>4, <2>5, <2>6, SoundContinued
<1>7. CASE Resumes(to)
  <2>1. PICK node : node = ResumeFailed(prog, d)
    OBVIOUS
  <2>2. to = Fresh(node) /\ v = OfRun("workflow.resumed")
    BY <1>7, <2>1 DEF Resumes, ReopenEvent
  <2>3. v.type = "workflow.resumed"
    BY <2>2 DEF OfRun, Ev
  <2>4. node \notin NoReplay /\ node = run.node /\ t.node = run.node /\ t.index = 0
    BY <1>2, <1>4, <1>5, <2>2
  <2> QED
    BY <1>1, <2>1, <2>3, <2>4, SoundResumed
<1>8. CASE CancelledRetries(to)
  <2>1. PICK node : node = RetryCancelled(prog, d)
    OBVIOUS
  <2>2. to = Fresh(node) /\ v = OfRun("workflow.retryStarted")
    BY <1>8, <2>1 DEF CancelledRetries, ReopenEvent
  <2>3. v.type = "workflow.retryStarted" /\ v.source = 0
    BY <2>2 DEF OfRun, Ev
  <2>4. node \notin NoReplay /\ node = run.node /\ t.node = run.node /\ t.index = 0
    BY <1>2, <1>4, <1>5, <2>2
  <2> QED
    BY <1>1, <2>1, <2>3, <2>4, SoundCancelled
<1>9. CASE FailedRetries(to)
  <2>1. PICK node, s : node = RetryFailure(prog, d) /\ s = Trail!LatestUnresolvedFailure(d)
    OBVIOUS
  <2>2. to = Fresh(node) /\ v = [OfRun("workflow.retryStarted") EXCEPT !.source = s]
    BY <1>9, <2>1 DEF FailedRetries, ReopenEvent
  <2>3. v.type = "workflow.retryStarted" /\ v.source = s
    BY <2>2 DEF OfRun, Ev
  <2>4. node \notin NoReplay /\ node = run.node /\ t.node = run.node /\ t.index = 0
    BY <1>2, <1>4, <1>5, <2>2
  <2>5. ~(s < LastStart(d))
    BY <1>3, <1>9, <2>1
  <2> QED
    BY <1>1, <2>1, <2>3, <2>4, <2>5, SoundRetried
<1> QED
  BY <1>6, <1>7, <1>8, <1>9, PlaceOfWay

\* A replay that strays has an excuse.
LEMMA ReopenExcused ==
    ASSUME Base, opening.kind # "none", NEW d, d = Previous, NEW to, to = Place, to.node \notin NoReplay,
           ~Superseded(to), Strays(to), Sound(prog, d, run)
    PROVE  /\ ~Plain(prog, d)
           /\ Way = "retry" => ~Straight(prog, d)
<1>1. TrailOK(prog, d)
  <2>1. PICK e : e = trail
    OBVIOUS
  <2>2. TrailOK(prog, e) /\ ReadOf(d, e)
    BY <2>1, PreviousIs DEF Base, RecordedOK
  <2> QED
    BY <2>2, ReadAlike
<1>2. /\ Continues(to) => to.index = Count(d)
      /\ FailedRetries(to) => ~(Trail!LatestUnresolvedFailure(d) < LastStart(d))
  BY NotSuperseded
<1>3. \A node : Fresh(node).node = node
  BY DEF Fresh, NoPlace
<1>4. Plain(prog, d) => Straight(prog, d)
  BY DEF Plain
<1>5. Straight(prog, d) => Body(prog, d, run) /\ Follows(prog, d, run, Unretried(d))
  BY DEF Sound
<1>6. Plain(prog, d) => Follows(prog, d, run, DOMAIN d)
  BY DEF Sound
<1>7. CASE Continues(to)
  <2>1. Way = "continue" /\ opening.kind = "continue" /\ to = ContinueWait(prog, d)
    BY <1>7 DEF Continues
  <2>2. ASSUME Plain(prog, d) PROVE FALSE
    <3>1. to.node = run.node /\ (run.index = to.index => to.at = run.at /\ to.value = run.value /\ to.waits = run.waits)
      BY <1>1, <1>2, <1>4, <1>5, <1>6, <1>7, <2>1, <2>2, ContinueReaches
    <3>2. run.index = to.index => <<to.at, to.value, to.waits>> = <<run.at, run.value, run.waits>>
      BY <3>1
    <3> QED
      BY <3>1, <3>2 DEF Strays
  <2> QED
    BY <2>1, <2>2
<1>8. ASSUME opening.kind # "continue" PROVE to.node # run.node
  BY <1>8 DEF Strays
<1>9. CASE Resumes(to)
  <2>1. Way = "resume" /\ opening.kind = "resume" /\ to.node = ResumeFailed(prog, d)
    BY <1>3, <1>9 DEF Resumes
  <2>2. ASSUME Plain(prog, d) PROVE FALSE
    <3>1. ResumeFailed(prog, d) = run.node
      BY <1>1, <1>4, <1>5, <1>6, <2>1, <2>2, ResumeReaches
    <3> QED
      BY <1>8, <2>1, <3>1
  <2> QED
    BY <2>1, <2>2
<1>10. CASE CancelledRetries(to)
  <2>1. Way = "cancelled" /\ opening.kind = "retry" /\ to.node = RetryCancelled(prog, d)
    BY <1>3, <1>10 DEF CancelledRetries
  <2>2. ASSUME Plain(prog, d) PROVE FALSE
    <3>1. RetryCancelled(prog, d) = run.node
      BY <1>1, <1>4, <1>5, <1>6, <2>1, <2>2, CancelledReaches
    <3> QED
      BY <1>8, <2>1, <3>1
  <2> QED
    BY <2>1, <2>2
<1>11. CASE FailedRetries(to)
  <2>1. Way = "retry" /\ opening.kind = "retry" /\ to.node = RetryFailure(prog, d)
    BY <1>3, <1>11 DEF FailedRetries
  <2>2. ASSUME Straight(prog, d) PROVE FALSE
    <3>1. PICK s, r : s = Trail!LatestUnresolvedFailure(d) /\ r = run
      OBVIOUS
    <3>2. ~(s < LastStart(d))
      BY <1>2, <1>11, <3>1
    <3>3. Body(prog, d, r) /\ Follows(prog, d, r, Unretried(d)) /\ RetryFailure(prog, d) \notin NoReplay
      BY <1>5, <2>1, <2>2, <3>1
    <3>4. Attempt(prog, d)
      BY <3>3 DEF Body
    <3>5. RetryFailure(prog, d) = r.node
      BY <1>1, <3>1, <3>2, <3>3, <3>4, RetryReaches
    <3> QED
      BY <1>8, <2>1, <3>1, <3>5
  <2> QED
    BY <1>4, <2>2
<1> QED
  BY <1>7, <1>9, <1>10, <1>11, PlaceOfWay

\* A trail is only ever extended, and what once excused a replay always does.
Extends(e, f) ==
    /\ Len(e) \in Nat /\ Len(f) \in Nat /\ DOMAIN e = 1 .. Len(e) /\ DOMAIN f = 1 .. Len(f)
    /\ Len(e) <= Len(f) /\ \A i \in 1 .. Len(e) : f[i] = e[i]

\* A trail that extends one that extends another.
LEMMA ExtendsOn ==
    ASSUME NEW e, NEW f, NEW g, Extends(e, f), Extends(f, g)
    PROVE  Extends(e, g)
<1>1. PICK k, m, n \in Nat : k = Len(e) /\ m = Len(f) /\ n = Len(g)
  BY DEF Extends
<1>2. /\ DOMAIN e = 1 .. k /\ DOMAIN f = 1 .. m /\ DOMAIN g = 1 .. n /\ k <= m /\ m <= n
      /\ (\A i \in 1 .. k : f[i] = e[i]) /\ (\A i \in 1 .. m : g[i] = f[i])
  BY <1>1 DEF Extends
<1>3. k <= n /\ \A i \in 1 .. k : g[i] = e[i]
  BY <1>1, <1>2
<1> QED
  BY <1>1, <1>2, <1>3 DEF Extends

\* A sequence put after a trail extends it.
LEMMA Lengthens ==
    ASSUME NEW e, Listed(e), NEW T, NEW t \in Seq(T), NEW f, f = e \o t
    PROVE  Listed(f) /\ Extends(e, f)
<1>1. /\ Listed(e \o t) /\ Len(e \o t) = Len(e) + Len(t)
      /\ \A i \in 1 .. Len(e) : (e \o t)[i] = e[i]
  BY ListedGrows
<1>2. PICK k, m \in Nat : k = Len(e) /\ m = Len(t)
  BY DEF Listed
<1>3. Len(f) = k + m /\ Listed(f) /\ \A i \in 1 .. k : f[i] = e[i]
  BY <1>1, <1>2
<1>4. DOMAIN e = 1 .. Len(e) /\ DOMAIN f = 1 .. Len(f)
  BY <1>3 DEF Listed
<1> QED
  BY <1>2, <1>3, <1>4 DEF Extends

\* What comes after what stays.
LEMMA ExtendedThen ==
    ASSUME NEW e, NEW f, Extends(e, f), NEW first, NEW types, Then(e, first, types)
    PROVE  Then(f, first, types)
<1>1. PICK m, n \in Nat : /\ m = Len(e) /\ n = Len(f) /\ DOMAIN e = 1 .. m /\ DOMAIN f = 1 .. n /\ m <= n
                          /\ \A i \in 1 .. m : f[i] = e[i]
  BY DEF Extends
<1>2. PICK i, j \in DOMAIN e : /\ i < j /\ SameAttempt(e, i, j) /\ e[i].type = first /\ e[j].type \in types
  BY DEF Then
<1>3. SameAttempt(f, i, j)
  <2>1. \A l \in i .. j : l \in 1 .. m
    BY <1>1, <1>2
  <2>2. e[i].step = e[j].step /\ ~\E l \in i .. j : e[l].type = "step.started" /\ e[l].step = e[j].step
    BY <1>2 DEF SameAttempt
  <2>3. f[i] = e[i] /\ f[j] = e[j] /\ \A l \in i .. j : f[l] = e[l]
    BY <1>1, <1>2, <2>1
  <2> QED
    BY <2>2, <2>3 DEF SameAttempt
<1>4. i \in DOMAIN f /\ j \in DOMAIN f /\ f[i] = e[i] /\ f[j] = e[j]
  BY <1>1, <1>2
<1> QED
  BY <1>2, <1>3, <1>4 DEF Then

\* A trail without an excuse extends one without.
LEMMA ExtendsExcuses ==
    ASSUME NEW p, NEW e, NEW f, Extends(e, f)
    PROVE  (Straight(p, f) => Straight(p, e)) /\ (Plain(p, f) => Plain(p, e))
<1>1. ErrorContinued(p, e) => ErrorContinued(p, f)
  <2>1. \A i \in DOMAIN e : i \in DOMAIN f /\ f[i] = e[i]
    BY DEF Extends
  <2> QED
    BY <2>1 DEF ErrorContinued
<1>2. \A first, types : Then(e, first, types) => Then(f, first, types)
  BY ExtendedThen
<1> QED
  BY <1>1, <1>2 DEF Straight, Plain, CancelledThenCompleted, OutputThen

\* Every step extends the trail.
LEMMA OneMore ==
    ASSUME NEW e, Listed(e), NEW v
    PROVE  /\ Extends(e, Append(e, v)) /\ Listed(e \o <<v>>) /\ Extends(e, e \o <<v>>)
           /\ Listed(e \o <<>>) /\ Extends(e, e \o <<>>)
<1>1. Grows(e, Append(e, v), v)
  BY AppendGrows
<1>2. Extends(e, Append(e, v))
  BY <1>1 DEF Grows, Extends
<1>3. <<v>> \in Seq({v}) /\ <<>> \in Seq({})
  OBVIOUS
<1>4. PICK t, f, d, g : t = <<v>> /\ f = e \o t /\ d = <<>> /\ g = e \o d
  OBVIOUS
<1>5. Listed(f) /\ Extends(e, f)
  <2>1. t \in Seq({v})
    BY <1>3, <1>4
  <2> QED
    BY <1>4, <2>1, Lengthens
<1>6. Listed(g) /\ Extends(e, g)
  <2>1. d \in Seq({})
    BY <1>3, <1>4
  <2> QED
    BY <1>4, <2>1, Lengthens
<1> QED
  BY <1>2, <1>4, <1>5, <1>6

\* An attempt that fails writes at the end.
LEMMA FailsExtends ==
    ASSUME Listed(trail), NEW before, before = <<>> \/ (\E v : before = <<v>>), NEW transient, Fails(before, transient)
    PROVE  Extends(trail, trail')
<1>1. PICK u : trail' = trail \o before \o <<u>>
  BY DEF Fails
<1>2. PICK g : g = trail \o before
  OBVIOUS
<1>3. Listed(g) /\ Extends(trail, g)
  BY <1>2, OneMore
<1>4. Extends(g, g \o <<u>>)
  BY <1>3, OneMore
<1>5. trail' = g \o <<u>>
  BY <1>1, <1>2
<1> QED
  BY <1>3, <1>4, <1>5, ExtendsOn

\* So does a cancel.
LEMMA RecordCancelExtends ==
    ASSUME Listed(trail), RecordCancel
    PROVE  Extends(trail, trail')
<1>1. \E asked, step, c :
          /\ trail' = trail \o asked \o step \o <<c>>
          /\ asked = <<>> \/ \E v : asked = <<v>>
          /\ step = <<>> \/ \E v : step = <<v>>
  <2>1. PICK e, p : e = Cycle(SubSeq(trail, 1, cancel)) /\ p = PendingWait(e)
    OBVIOUS
  <2>2. PICK asked, step :
          /\ asked = IF Trail!Positions(e, {"workflow.cancelRequested"}) = {} THEN <<OfRun("workflow.cancelRequested")>> ELSE <<>>
          /\ step = IF request \/ p = 0 THEN <<>>
                   ELSE IF \E i \in DOMAIN e : e[i].type = "step.cancelled" /\ e[i].step = e[p].step
                   THEN <<>> ELSE <<Ev("step.cancelled", e[p].step, 0, "none", 0)>>
    OBVIOUS
  <2>3. trail' = trail \o asked \o step \o <<OfRun("workflow.cancelled")>>
    BY <2>1, <2>2 DEF RecordCancel
  <2>4. (asked = <<>> \/ \E v : asked = <<v>>) /\ (step = <<>> \/ \E v : step = <<v>>)
    BY <2>2
  <2> QED
    BY <2>3, <2>4
<1>2. PICK asked, step, c :
          /\ trail' = trail \o asked \o step \o <<c>>
          /\ asked = <<>> \/ \E v : asked = <<v>>
          /\ step = <<>> \/ \E v : step = <<v>>
  BY <1>1
<1>3. PICK g, h : g = trail \o asked /\ h = g \o step
  OBVIOUS
<1>4. Listed(g) /\ Extends(trail, g)
  BY <1>2, <1>3, OneMore
<1>5. Listed(h) /\ Extends(g, h)
  BY <1>2, <1>3, <1>4, OneMore
<1>6. Extends(h, h \o <<c>>)
  BY <1>5, OneMore
<1>7. trail' = h \o <<c>>
  BY <1>2, <1>3
<1>8. Extends(trail, h)
  BY <1>4, <1>5, ExtendsOn
<1> QED
  BY <1>6, <1>7, <1>8, ExtendsOn

\* So does every step of the system.
LEMMA TrailExtends ==
    ASSUME Base, RCNext
    PROVE  Extends(trail, trail') /\ prog' = prog
<1>1. Listed(trail) /\ Extends(trail, trail)
  BY DEF Base, RecordedOK, TrailOK, Extends
<1>2. \A v : trail' = Append(trail, v) => Extends(trail, trail')
  BY <1>1, OneMore
<1>3. trail' = trail => Extends(trail, trail')
  BY <1>1
<1>4. CASE TopOfLoop
  BY <1>2, <1>3, <1>4 DEF TopOfLoop, Emit, DriverOnly
<1>5. CASE CancelStep
  BY <1>2, <1>5 DEF CancelStep, Emit, DriverOnly
<1>6. CASE Prompt
  BY <1>2, <1>6 DEF Prompt, Emit, DriverOnly
<1>7. CASE Wait
  BY <1>2, <1>3, <1>7 DEF Wait, Emit, DriverOnly
<1>8. CASE PhaseFails
  BY <1>1, <1>8, FailsExtends DEF PhaseFails, DriverOnly
<1>9. CASE AnswerInvalid
  <2>1. PICK b : b = <<OfStep("wait.failed", 0, Here)>> /\ Fails(b, FALSE)
    BY <1>9 DEF AnswerInvalid
  <2>2. prog' = prog
    BY <1>9 DEF AnswerInvalid, DriverOnly
  <2> QED
    BY <1>1, <2>1, <2>2, FailsExtends
<1>10. CASE Do
  BY <1>2, <1>3, <1>10 DEF Do, Emit, DriverOnly
<1>11. CASE FailRun
  BY <1>2, <1>11 DEF FailRun, Emit, DriverOnly
<1>12. CASE CancelRun
  <2>1. PICK u, c : trail' = trail \o <<u, c>> /\ prog' = prog
    BY <1>12 DEF CancelRun, DriverOnly
  <2>2. PICK S, t : u \in S /\ c \in S /\ t = <<u, c>> /\ t \in Seq(S)
    <3>1. <<u, c>> \in Seq({u, c}) /\ u \in {u, c} /\ c \in {u, c}
      OBVIOUS
    <3> QED
      BY <3>1
  <2>3. Extends(trail, trail')
    BY <1>1, <2>1, <2>2, Lengthens
  <2> QED
    BY <2>1, <2>3
<1>13. CASE DriverDies
  BY <1>3, <1>13 DEF DriverDies
<1>14. CASE AskContinue \/ AskRetry \/ SelectRetry \/ AskResume
  BY <1>3, <1>14 DEF AskContinue, AskRetry, SelectRetry, AskResume
<1>15. CASE Reopen
  <2>1. prog' = prog
    BY <1>15 DEF Reopen
  <2> QED
    BY <1>2, <1>3, <1>15, <2>1, ReopenIs
<1>16. CASE Answer \/ AskCancel \/ ClearCancel
  BY <1>3, <1>16 DEF Answer, AskCancel, ClearCancel
<1>17. CASE RecordCancel
  <2>1. prog' = prog
    BY <1>17 DEF RecordCancel
  <2> QED
    BY <1>1, <1>17, <2>1, RecordCancelExtends
<1> QED
  BY <1>4, <1>5, <1>6, <1>7, <1>8, <1>9, <1>10, <1>11, <1>12, <1>13, <1>14, <1>15, <1>16, <1>17 DEF RCNext

(***************************************************************************)
(* The inductive invariant: until a reopening strays, a replay of the trail *)
(* follows the run, of what a command has read of it too.                  *)
(***************************************************************************)
RunSound ==
    strayed = "none" => Sound(prog, trail, run) /\ (opening.kind # "none" => Sound(prog, Previous, run))
CyclesInv == Base /\ RunSound /\ ReopenFollowsRun

\* A trail on which nothing but the start of the workflow is recorded.
LEMMA StartIs ==
    ASSUME NEW p, WellBuilt(p), NEW e, e = <<OfRun("workflow.started")>>
    PROVE  /\ Listed(e) /\ Len(e) = 1 /\ DOMAIN e = {1} /\ e[1].type = "workflow.started" /\ TrailOK(p, e)
           /\ Starts(e) = {} /\ LastStart(e) = 0 /\ Count(e) = 0
           /\ \A s : FailedAttempts(e, s) = 0
<1>1. Len(e) = 1 /\ DOMAIN e = 1 .. 1 /\ e[1] = OfRun("workflow.started")
  OBVIOUS
<1>2. e[1].type = "workflow.started" /\ e[1].step = "none"
  BY <1>1 DEF OfRun, Ev
<1>3. Listed(e)
  <2>1. e \in Seq({OfRun("workflow.started")})
    OBVIOUS
  <2> QED
    BY <2>1, ListedTail
<1>4. 1 .. 1 = {1}
  OBVIOUS
<1>5. EventOK(p, e[1])
  BY <1>2 DEF EventOK, StepEvent, DriverEvent
<1>6. TrailOK(p, e)
  BY <1>1, <1>2, <1>4, <1>5 DEF TrailOK
<1>7. Starts(e) = {}
  BY <1>1, <1>2, <1>4 DEF Starts
<1>8. LastStart(e) = 0
  BY <1>6, <1>7, LastStartIs
<1>9. Cardinality({}) = 0
  BY FS_EmptySet
<1>10. Count(e) = 0
  BY <1>7, <1>9 DEF Count
<1>11. ASSUME NEW s PROVE FailedAttempts(e, s) = 0
  <2>1. {i \in DOMAIN e : e[i].type = "step.attemptFailed" /\ e[i].step = s} = {}
    BY <1>1, <1>2, <1>4
  <2> QED
    BY <1>9, <2>1 DEF FailedAttempts
<1> QED
  BY <1>1, <1>2, <1>3, <1>4, <1>6, <1>7, <1>8, <1>10, <1>11

\* A trail without a completion leaves a replay where the workflow starts.
LEMMA NothingReplayed ==
    ASSUME NEW p, NEW e, TrailOK(p, e), NEW K, K \subseteq DOMAIN e, \A i \in DOMAIN e : e[i].type # "step.completed"
    PROVE  Reached(p, e, K)[Len(e)] = AtStart
<1>1. PICK n \in Nat : n = Len(e) /\ DOMAIN e = 1 .. n
  BY DEF TrailOK
<1>2. \A i \in 0 + 1 .. n : ~CompletedAttempt(e, K, i)
  BY <1>1 DEF CompletedAttempt
<1>3. 0 \in 0 .. Len(e) /\ n \in 0 .. Len(e)
  BY <1>1
<1>4. Reached(p, e, K)[n] = Reached(p, e, K)[0]
  BY <1>1, <1>2, <1>3, ReachedStays
<1>5. Reached(p, e, K)[0] = AtStart
  BY ReachedIs
<1> QED
  BY <1>1, <1>4, <1>5

\* Where a run starts, a replay of its trail is there too.
LEMMA StartSound ==
    ASSUME NEW p, WellBuilt(p), NEW e, e = <<OfRun("workflow.started")>>, NEW r, r.node = AtStart, r.index = 0
    PROVE  Sound(p, e, r)
<1>1. /\ Len(e) = 1 /\ DOMAIN e = {1} /\ e[1].type = "workflow.started" /\ TrailOK(p, e)
      /\ Starts(e) = {} /\ LastStart(e) = 0 /\ Count(e) = 0
  BY StartIs
<1>2. \A T : "workflow.started" \notin T => Recent(e, T) = {}
  BY <1>1 DEF Recent
<1>3. /\ Outcomes(e) = {} /\ Failures(e) = {} /\ Given(e) = {} /\ Asked(e) = {} /\ Regained(e) = {}
      /\ Recent(e, DriverEvent) = {} /\ Recent(e, {"wait.started", "wait.satisfied", "wait.failed"}) = {}
  BY <1>2 DEF Outcomes, Failures, Given, Asked, Regained, DriverEvent
<1>4. Open(e) = {}
  BY <1>3 DEF Open
<1>5. Attempt(p, e)
  <2>1. OwnEvents(e) /\ FailureLast(e) /\ OneOutcome(e) /\ OneAnswer(e)
    BY <1>3 DEF OwnEvents, FailureLast, OneOutcome, OneAnswer, TwiceSatisfied
  <2>2. OpenLast(e) /\ OpenAlike(e) /\ GivenInOrder(p, e) /\ GivenAfterOutput(p, e) /\ GivenAsked(e) /\ AskedFirst(e)
    BY <1>3, <1>4 DEF OpenLast, OpenAlike, GivenInOrder, GivenAfterOutput, GivenAsked, AskedFirst
  <2>3. AttemptsEnd(e) /\ RetriesAreRecent(e) /\ WaitsStarted(e)
    BY <1>1, <1>3 DEF AttemptsEnd, RetriesAreRecent, WaitsStarted
  <2> QED
    BY <2>1, <2>2, <2>3 DEF Attempt
<1>6. Cancels(e) = {}
  BY <1>1 DEF Cancels
<1>7. Body(p, e, r)
  BY <1>1, <1>4, <1>5, <1>6 DEF Body, Between, Parked, Onwards, CancelsHold
<1>8. ASSUME NEW K, K \subseteq DOMAIN e PROVE Follows(p, e, r, K)
  <2>1. PICK R : R = Reached(p, e, K)
    OBVIOUS
  <2>2. R[Len(e)] = AtStart
    BY <1>1, <1>8, <2>1, NothingReplayed
  <2>5. FollowsTo(p, e, R, r)
    BY <1>1, <2>2 DEF FollowsTo, Meets
  <2> QED
    BY <2>1, <2>5 DEF Follows
<1>9. Unretried(e) \subseteq DOMAIN e
  BY <1>1, RetriedIs
<1> QED
  BY <1>7, <1>8, <1>9 DEF Sound

\* The invariant holds where a run starts.
LEMMA InitSound == RCInit => CyclesInv
<1> SUFFICES ASSUME RCInit
             PROVE  CyclesInv
  OBVIOUS
<1>1. /\ prog \in Program /\ WellBuilt(prog) /\ trail = <<OfRun("workflow.started")>>
      /\ answers = {} /\ request = FALSE /\ opening = NotOpening /\ cancel = 0
      /\ used = [opens |-> 0, cancels |-> 0] /\ strayed = "none" /\ late = FALSE
  BY ProgramAssumption DEF RCInit
<1>2. /\ Listed(trail) /\ Len(trail) = 1 /\ DOMAIN trail = {1} /\ trail[1].type = "workflow.started" /\ TrailOK(prog, trail)
      /\ Count(trail) = 0 /\ \A s : FailedAttempts(trail, s) = 0
  BY <1>1, StartIs
<1>3. run = [pc |-> "step", node |-> AtStart, at |-> 1, value |-> 1, waits |-> Unanswered, index |-> 0]
  BY DEF RCInit
<1>4. AtStart \in Node(prog) /\ AtStart.input = 1
  BY <1>1 DEF AtStart, Node, WellBuilt, Value
<1>5. PlacedOK(prog, run)
  <2>1. /\ run.pc = "step" /\ run.node = AtStart /\ run.at = 1 /\ run.value = 1 /\ run.waits = Unanswered /\ run.index = 0
    BY <1>3
  <2>2. run = At(run, run.pc)
    BY <1>3, <2>1 DEF At
  <2>3. run = At(Fresh(run.node), "step")
    BY <1>3, <1>4, <2>1 DEF At, Fresh, NoPlace
  <2>4. Unanswered \in [WaitId -> 0 .. 2] /\ 1 \in Value
    BY DEF Unanswered, Value
  <2> QED
    BY <1>4, <2>1, <2>2, <2>3, <2>4 DEF PlacedOK
<1>6. RecordedOK(prog, trail)
  <2>1. \A s \in DOMAIN prog : FailedAttempts(trail, s) \in Nat /\ FailedAttempts(trail, s) < MaxTries
    BY <1>2, MaxTriesAssumption
  <2> QED
    BY <1>2, <2>1 DEF RecordedOK
<1>7. RCTypeOK
  <2>1. run.pc = "step" /\ run.node \in Node(prog) /\ run.value \in Value /\ run.waits \in [WaitId -> 0 .. 2]
    BY <1>3, <1>5 DEF PlacedOK
  <2>2. 0 .. 2 = Value \cup {0}
    BY DEF Value
  <2>3. run.node.step \in DOMAIN prog \cup {Done} /\ run.node.input \in Value
    BY <2>1 DEF Node
  <2>4. used.opens \in 0 .. MaxOpens /\ used.cancels \in 0 .. MaxCancels
    BY <1>1, BoundsAssumption
  <2>5. opening.kind = "none" /\ opening.read = 0 /\ 0 \in 0 .. Len(trail)
    BY <1>1, <1>2 DEF NotOpening
  <2> QED
    BY <1>1, <2>1, <2>2, <2>3, <2>4, <2>5 DEF RCTypeOK, Steps
<1>8. Base
  <2>1. opening.kind = "none" /\ run.index = 0 /\ used = [opens |-> used.opens, cancels |-> used.cancels]
    BY <1>1, <1>3 DEF NotOpening
  <2> QED
    BY <1>1, <1>2, <1>5, <1>6, <1>7, <2>1 DEF Base
<1>9. Sound(prog, trail, run)
  <2>1. PICK r : r = run /\ r.node = AtStart /\ r.index = 0
    BY <1>3
  <2> QED
    BY <1>1, <2>1, StartSound
<1>10. opening.kind = "none"
  BY <1>1 DEF NotOpening
<1> QED
  BY <1>1, <1>8, <1>9, <1>10 DEF CyclesInv, RunSound, ReopenFollowsRun

\* Once a reopening has strayed its excuse stays in the trail.
LEMMA ExcuseIs ==
    ASSUME NEW p, NEW e
    PROVE  /\ ~Plain(p, e) <=> \/ ErrorContinued(p, e) \/ CancelledThenCompleted(e)
                               \/ OutputThen(e, {"step.attemptFailed", "step.cancelled"}) \/ OutputThen(e, {"step.failed"})
           /\ ~Straight(p, e) <=> \/ ErrorContinued(p, e) \/ CancelledThenCompleted(e)
                                  \/ OutputThen(e, {"step.attemptFailed", "step.cancelled"})
           /\ ~Straight(p, e) => ~Plain(p, e)
BY DEF Plain, Straight

\* The property, in terms of the excuses.
LEMMA Excused ==
    ReopenFollowsRun <=>
        (strayed \notin {"none", "superseded"} =>
            ~Plain(prog, trail) /\ (strayed = "retry" => ~Straight(prog, trail)))
<1>1. CASE strayed = "retry"
  BY <1>1, ExcuseIs DEF ReopenFollowsRun
<1>2. CASE strayed # "retry"
  BY <1>2, ExcuseIs DEF ReopenFollowsRun
<1> QED
  BY <1>1, <1>2

\* A step that opens no run leaves the property as it is.
LEMMA ExcuseStays ==
    ASSUME ReopenFollowsRun, strayed' = strayed, prog' = prog, Extends(trail, trail')
    PROVE  ReopenFollowsRun'
<1>1. PICK e, f, p : e = trail /\ f = trail' /\ p = prog
  OBVIOUS
<1>2. (~Straight(p, e) => ~Straight(p, f)) /\ (~Plain(p, e) => ~Plain(p, f))
  BY <1>1, ExtendsExcuses
<1>3. strayed \notin {"none", "superseded"} => ~Plain(p, e) /\ (strayed = "retry" => ~Straight(p, e))
  BY <1>1, Excused
<1>4. strayed \notin {"none", "superseded"} => ~Plain(p, f) /\ (strayed = "retry" => ~Straight(p, f))
  BY <1>2, <1>3
<1>5. CASE strayed \in {"none", "superseded"}
  BY <1>5 DEF ReopenFollowsRun
<1>6. CASE strayed \notin {"none", "superseded"} /\ strayed = "retry"
  <2>1. ErrorContinued(p, f) \/ CancelledThenCompleted(f) \/ OutputThen(f, {"step.attemptFailed", "step.cancelled"})
    BY <1>4, <1>6, ExcuseIs
  <2> QED
    BY <1>1, <1>6, <2>1 DEF ReopenFollowsRun
<1>7. CASE strayed \notin {"none", "superseded"} /\ strayed # "retry"
  <2>1. \/ ErrorContinued(p, f) \/ CancelledThenCompleted(f)
        \/ OutputThen(f, {"step.attemptFailed", "step.cancelled"}) \/ OutputThen(f, {"step.failed"})
    BY <1>4, <1>7, ExcuseIs
  <2> QED
    BY <1>1, <1>7, <2>1 DEF ReopenFollowsRun
<1> QED
  BY <1>5, <1>6, <1>7

\* A step of the driver.
DriverStep ==
    \/ TopOfLoop \/ CancelStep \/ Prompt \/ Wait \/ PhaseFails \/ AnswerInvalid \/ Do
    \/ FailRun \/ CancelRun \/ DriverDies

\* What each step of the driver keeps.
LEMMA DriverKeeps ==
    ASSUME Base, DriverStep
    PROVE  Base' /\ (Sound(prog, trail, run) => Sound(prog, trail', run')) /\ opening.kind = "none"
           /\ UNCHANGED <<prog, opening, strayed>>
<1>1. Base' /\ (Sound(prog, trail, run) => Sound(prog, trail', run'))
  BY TopOfLoopKeeps, CancelStepKeeps, PromptKeeps, WaitKeeps, PhaseFailsKeeps, AnswerInvalidKeeps, DoKeeps,
     FailRunKeeps, CancelRunKeeps, DriverDiesKeeps DEF DriverStep
<1>2. CASE DriverDies
  BY <1>1, <1>2 DEF DriverDies, Base
<1>3. CASE ~DriverDies
  <2>1. Driving /\ DriverOnly
    BY <1>3 DEF DriverStep, TopOfLoop, CancelStep, Prompt, Wait, PhaseFails, AnswerInvalid, Do, FailRun, CancelRun
  <2> QED
    BY <1>1, <2>1 DEF Driving, DriverOnly
<1> QED
  BY <1>2, <1>3

\* The driver keeps the invariant.
LEMMA DriverKeepsSound ==
    ASSUME Base, RunSound, DriverStep
    PROVE  Base' /\ RunSound' /\ strayed' = strayed
<1>1. Base' /\ (Sound(prog, trail, run) => Sound(prog, trail', run')) /\ opening.kind = "none"
      /\ UNCHANGED <<prog, opening, strayed>>
  BY DriverKeeps
<1> QED
  BY <1>1 DEF RunSound

\* A command goes to open the run.
LEMMA AskKeepsSound ==
    ASSUME Base, RunSound, AskContinue \/ AskRetry \/ SelectRetry \/ AskResume
    PROVE  Base' /\ RunSound' /\ strayed' = strayed
<1>1. /\ MayOpen /\ used' = [used EXCEPT !.opens = @ + 1]
      /\ UNCHANGED <<prog, trail, run, answers, cancel, strayed, late>>
  BY DEF AskContinue, AskRetry, SelectRetry, AskResume
<1>2. request' \in BOOLEAN
  BY DEF AskContinue, AskRetry, SelectRetry, AskResume, Base, RCTypeOK
<1>3. \E k \in {"continue", "retry", "resume"} : opening' \in {opening, [kind |-> k, read |-> Len(trail)]}
  BY DEF AskContinue, AskRetry, SelectRetry, AskResume
<1>4. PICK k \in {"continue", "retry", "resume"} : opening' \in {opening, [kind |-> k, read |-> Len(trail)]}
  BY <1>3
<1>5. Base' /\ (opening'.kind # "none" => Previous' = trail)
  BY <1>1, <1>2, <1>4, Opens
<1> QED
  BY <1>1, <1>5 DEF RunSound

\* A command that neither opens the run nor writes to its trail.
LEMMA OtherKeepsSound ==
    ASSUME Base, RunSound, Answer \/ AskCancel \/ ClearCancel
    PROVE  Base' /\ RunSound' /\ strayed' = strayed
<1>1. UNCHANGED <<prog, trail, run, opening, strayed>>
  BY DEF Answer, AskCancel, ClearCancel
<1>2. Previous' = Previous
  BY <1>1 DEF Previous
<1>3. Base'
  <2>1. CASE Answer
    BY <2>1, AnswerBase
  <2>2. /\ RCTypeOK /\ \A a \in answers : a.wait \in WaitId /\ a.value \in Value /\ Answerable(trail, a)
    BY DEF Base, RCTypeOK
  <2>3. CASE AskCancel
    <3>1. /\ UNCHANGED <<prog, trail, run, opening, strayed, late>> /\ request' \in BOOLEAN /\ answers' = answers
          /\ used' = [used EXCEPT !.cancels = @ + 1] /\ used.cancels < MaxCancels
      BY <2>2, <2>3 DEF AskCancel, RCTypeOK
    <3>2. cancel' \in 0 .. Len(trail)
      <4>1. Len(trail) \in Nat
        BY DEF Base, RecordedOK, TrailOK
      <4> QED
        BY <2>3, <4>1 DEF AskCancel
    <3> QED
      BY <2>2, <3>1, <3>2, AsksBase
  <2>4. CASE ClearCancel
    <3>1. /\ UNCHANGED <<prog, trail, run, opening, strayed, late>> /\ request' \in BOOLEAN /\ answers' = answers
          /\ used' = used /\ cancel' \in 0 .. Len(trail)
      BY <2>2, <2>4 DEF ClearCancel, RCTypeOK
    <3> QED
      BY <2>2, <3>1, AsksBase
  <2> QED
    BY <2>1, <2>3, <2>4
<1> QED
  BY <1>1, <1>2, <1>3 DEF RunSound

\* A cancel notes itself in the trail.
LEMMA RecordCancelKeepsSound ==
    ASSUME Base, RunSound, RecordCancel
    PROVE  Base' /\ RunSound' /\ strayed' = strayed
<1>1. Base' /\ Previous' = Previous /\ (Sound(prog, trail, run) => Sound(prog, trail', run'))
  BY RecordCancelKeeps
<1>2. UNCHANGED <<prog, run, opening, strayed>>
  BY DEF RecordCancel
<1> QED
  BY <1>1, <1>2 DEF RunSound

\* A command that is refused, or throws, leaves the run where it is.
LEMMA ReopenFails ==
    ASSUME Base, RunSound, Reopen, trail' \in {trail, Append(trail, OfRun("workflow.failed"))}, run' = run, strayed' = strayed
    PROVE  RunSound'
<1>1. prog' = prog /\ opening'.kind = "none" /\ opening.kind # "none"
  BY DEF Reopen, NotOpening
<1>2. PICK e, f, v, r : e = trail /\ f = trail' /\ v = OfRun("workflow.failed") /\ r = run
  OBVIOUS
<1>3. CASE f = e
  BY <1>1, <1>2, <1>3 DEF RunSound
<1>4. CASE f = Append(e, v)
  <2>1. v.type = "workflow.failed"
    BY <1>2 DEF OfRun, Ev
  <2>2. Writes(prog, e, v)
    BY <1>2, OfRunIs DEF StepEvent, DriverEvent
  <2>3. RecordedOK(prog, e)
    BY <1>2 DEF Base
  <2>4. Grows(e, f, v) /\ TrailOK(prog, e) /\ TrailOK(prog, f)
    BY <1>4, <2>2, <2>3, RecordedGrows DEF RecordedOK
  <2>5. v.type \notin StepEvent \cup Reopening /\ v.type # "workflow.completed"
    BY <2>1 DEF StepEvent, DriverEvent, Reopening
  <2>6. SamePlace(r, r)
    BY DEF SamePlace
  <2>7. Sound(prog, e, r) => Sound(prog, f, r)
    BY <2>4, <2>5, <2>6, RunRecords
  <2> QED
    BY <1>1, <1>2, <2>7 DEF RunSound
<1> QED
  BY <1>2, <1>3, <1>4

\* A command that opens the run keeps the replays sound, or has its excuse.
LEMMA ReopenSucceeds ==
    ASSUME Base, RunSound, Reopen, opening.kind # "none", NEW to, to = Place, to.node \notin NoReplay, trail' = Append(trail, ReopenEvent),
           run' = At(to, IF opening.kind = "continue" THEN "phase" ELSE "step"),
           strayed = "none", ~Superseded(to)
    PROVE  /\ ~Strays(to) => Sound(prog, trail', run')
           /\ Strays(to) => ~Plain(prog, trail') /\ (Way = "retry" => ~Straight(prog, trail'))
<1>1. PICK d, e, f, v, t : d = Previous /\ e = trail /\ f = trail' /\ v = ReopenEvent /\ t = run'
  OBVIOUS
<1>2. Reopened(to, v)
  BY <1>1, Reopens
<1>3. RecordedOK(prog, e) /\ Writes(prog, e, v)
  BY <1>1, <1>2 DEF Base, Reopened
<1>4. Grows(e, f, v) /\ TrailOK(prog, e) /\ TrailOK(prog, f)
  BY <1>1, <1>3, RecordedGrows DEF RecordedOK
<1>5. Sound(prog, d, run) /\ Sound(prog, e, run)
  BY <1>1 DEF RunSound
<1>6. ASSUME ~Strays(to) PROVE Sound(prog, f, t)
  BY <1>1, <1>4, <1>5, <1>6, ReopenSound
<1>7. ASSUME Strays(to) PROVE ~Plain(prog, f) /\ (Way = "retry" => ~Straight(prog, f))
  <2>1. ~Plain(prog, d) /\ (Way = "retry" => ~Straight(prog, d))
    BY <1>1, <1>5, <1>7, ReopenExcused
  <2>2. ReadOf(d, e)
    BY <1>1, PreviousIs
  <2>3. (Straight(prog, e) => Straight(prog, d)) /\ (Plain(prog, e) => Plain(prog, d))
    BY <1>4, <2>2, ReadAlike
  <2>4. (Straight(prog, f) => Straight(prog, e)) /\ (Plain(prog, f) => Plain(prog, e))
    BY <1>4, StraightShrinks
  <2> QED
    BY <2>1, <2>3, <2>4
<1> QED
  BY <1>1, <1>6, <1>7

\* A command that opens the run keeps the invariant, unless it strays, with an excuse.
LEMMA ReopenKeeps ==
    ASSUME Base, RunSound, ReopenFollowsRun, Reopen
    PROVE  Base' /\ RunSound' /\ ReopenFollowsRun'
<1>1. Base' /\ prog' = prog /\ opening'.kind = "none" /\ opening.kind # "none"
  BY ReopenKeepsBase DEF Reopen, NotOpening
<1>2. Extends(trail, trail')
  BY TrailExtends DEF RCNext
<1>3. strayed' = strayed => ReopenFollowsRun'
  BY <1>1, <1>2, ExcuseStays
<1>4. CASE trail' \in {trail, Append(trail, OfRun("workflow.failed"))} /\ run' = run /\ strayed' = strayed
  BY <1>1, <1>3, <1>4, ReopenFails
<1>5. CASE /\ Place.node \notin NoReplay /\ trail' = Append(trail, ReopenEvent)
           /\ run' = At(Place, IF opening.kind = "continue" THEN "phase" ELSE "step")
           /\ strayed' = CASE strayed # "none" -> strayed
                           [] strayed = "none" /\ Superseded(Place) -> "superseded"
                           [] OTHER -> IF Strays(Place) THEN Way ELSE "none"
  <2>1. PICK to : to = Place
    OBVIOUS
  <2>2. Way \in {"continue", "resume", "cancelled", "retry"}
    BY <1>1, PlaceOfWay DEF Continues, Resumes, CancelledRetries, FailedRetries
  <2>3. CASE strayed # "none"
    <3>1. strayed' = strayed
      BY <1>5, <2>3
    <3> QED
      BY <1>1, <1>3, <2>3, <3>1 DEF RunSound
  <2>4. CASE strayed = "none" /\ Superseded(to)
    <3>1. strayed' = "superseded"
      BY <1>5, <2>1, <2>4
    <3> QED
      BY <1>1, <3>1 DEF RunSound, ReopenFollowsRun
  <2>5. CASE strayed = "none" /\ ~Superseded(to) /\ Strays(to)
    <3>1. strayed' = Way
      BY <1>5, <2>1, <2>5
    <3>2. ~Plain(prog, trail') /\ (Way = "retry" => ~Straight(prog, trail'))
      BY <1>1, <1>5, <2>1, <2>5, ReopenSucceeds
    <3>3. RunSound'
      BY <2>2, <3>1 DEF RunSound
    <3>4. ReopenFollowsRun'
      <4>1. PICK p, f : p = prog /\ f = trail' /\ p = prog'
        BY <1>1
      <4>2. CASE Way = "retry"
        BY <3>1, <3>2, <4>1, <4>2, ExcuseIs DEF ReopenFollowsRun
      <4>3. CASE Way # "retry"
        BY <3>1, <3>2, <4>1, <4>3, ExcuseIs DEF ReopenFollowsRun
      <4> QED
        BY <4>2, <4>3
    <3> QED
      BY <1>1, <3>3, <3>4
  <2>6. CASE strayed = "none" /\ ~Superseded(to) /\ ~Strays(to)
    <3>1. strayed' = "none"
      BY <1>5, <2>1, <2>6
    <3>2. Sound(prog, trail', run')
      BY <1>1, <1>5, <2>1, <2>6, ReopenSucceeds
    <3> QED
      BY <1>1, <3>1, <3>2 DEF RunSound, ReopenFollowsRun
  <2> QED
    BY <2>3, <2>4, <2>5, <2>6
<1> QED
  BY <1>4, <1>5, ReopenIs

\* Every step keeps the invariant, whatever command comes when.
LEMMA CyclesInductive == CyclesInv /\ [RCNext]_rcVars => CyclesInv'
<1> SUFFICES ASSUME CyclesInv, [RCNext]_rcVars
             PROVE  CyclesInv'
  OBVIOUS
<1>1. Base /\ RunSound /\ ReopenFollowsRun
  BY DEF CyclesInv
<1>2. CASE UNCHANGED rcVars
  <2>1. UNCHANGED <<prog, trail, run, answers, request, opening, cancel, used, strayed, late>>
    BY <1>2 DEF rcVars
  <2>2. Previous' = Previous
    BY <2>1 DEF Previous
  <2>3. Base'
    BY <1>1, <2>1 DEF Base, RCTypeOK, Steps
  <2> QED
    BY <1>1, <2>1, <2>2, <2>3 DEF CyclesInv, RunSound, ReopenFollowsRun
<1>3. ASSUME RCNext, Base' /\ RunSound' /\ strayed' = strayed PROVE CyclesInv'
  BY <1>1, <1>3, TrailExtends, ExcuseStays DEF CyclesInv
<1>4. CASE RCNext
  <2>1. CASE DriverStep
    BY <1>1, <1>3, <1>4, <2>1, DriverKeepsSound
  <2>2. CASE AskContinue \/ AskRetry \/ SelectRetry \/ AskResume
    BY <1>1, <1>3, <1>4, <2>2, AskKeepsSound
  <2>3. CASE Reopen
    BY <1>1, <2>3, ReopenKeeps DEF CyclesInv
  <2>4. CASE Answer \/ AskCancel \/ ClearCancel
    BY <1>1, <1>3, <1>4, <2>4, OtherKeepsSound
  <2>5. CASE RecordCancel
    BY <1>1, <1>3, <1>4, <2>5, RecordCancelKeepsSound
  <2> QED
    BY <1>4, <2>1, <2>2, <2>3, <2>4, <2>5 DEF RCNext, DriverStep
<1> QED
  BY <1>2, <1>4

\* From command to command: until a command passes over a later attempt or strays, the
\* trail records the attempts as the driver makes them (run-step-execution.ts) and the
\* replays of it (replay-to-step.ts) follow the run; for any workflows and any bounds.
THEOREM CyclesInvariant == RCSpec => []CyclesInv
<1>1. RCInit => CyclesInv
  BY InitSound
<1>2. CyclesInv /\ [RCNext]_rcVars => CyclesInv'
  BY CyclesInductive
<1> QED
  BY <1>1, <1>2, PTL DEF RCSpec

\* Through any commands, the node a run stands at is of its workflow, and the values and
\* answers it is given are ones the author's code can produce.
THEOREM CyclesTypeCorrect == RCSpec => []RCTypeOK
<1>1. CyclesInv => RCTypeOK
  BY DEF CyclesInv, Base
<1> QED
  BY <1>1, CyclesInvariant, PTL

\* A continue, a retry or a resume that does not pass over a later attempt takes the run up
\* at the step and the input it stopped at, and a continue inside the attempt at its phase,
\* value and answers, or an event in the trail excuses it: an error continuation, a
\* cancelled attempt that completed, or an attempt that failed or was cancelled after its
\* output (replay-to-step.ts replays completions and nothing else); the retry of a failure
\* needs no excuse for a step that failed after its output.
THEOREM ReopeningsFollowTheRun == RCSpec => []ReopenFollowsRun
<1>1. CyclesInv => ReopenFollowsRun
  BY DEF CyclesInv
<1> QED
  BY <1>1, CyclesInvariant, PTL

\* A run that parked at a wait is found again by continue exactly where it parked, if every
\* step of its workflow can be replayed, no command before took it up elsewhere and no
\* attempt failed or was cancelled after its output (continue-workflow.ts).
THEOREM ParkedRunsAreContinuable == RCSpec => []ParkedIsContinuable
<1>1. CyclesInv => ParkedIsContinuable
  <2> SUFFICES ASSUME CyclesInv, run.pc = "off", trail[Len(trail)].type = "wait.started", \A s \in Steps : Replayable(prog, s),
                      strayed = "none", ~CancelledThenCompleted(trail),
                      ~OutputThen(trail, {"step.attemptFailed", "step.failed", "step.cancelled"})
               PROVE  At(ContinueWait(prog, trail), "off") = run
    BY DEF ParkedIsContinuable
  <2>1. PICK p, e, r : p = prog /\ e = trail /\ r = run
    OBVIOUS
  <2>2. Base /\ RunSound
    BY DEF CyclesInv
  <2>3. TrailOK(p, e) /\ Len(e) # 0 /\ r = At(r, r.pc) /\ Sound(p, e, r)
    BY <2>1, <2>2 DEF Base, RecordedOK, PlacedOK, RunSound
  <2>4. AllReplayable(p)
    BY <2>1 DEF AllReplayable, Steps
  <2>5. Plain(p, e)
    <3>1. ~ErrorContinued(p, e)
      <4>1. \A i \in DOMAIN e : e[i].type = "step.failed" => e[i].step \in DOMAIN p
        BY <2>3 DEF TrailOK, EventOK, StepEvent, DriverEvent
      <4> QED
        BY <2>4, <4>1 DEF ErrorContinued, AllReplayable, Replayable
    <3>2. ~CancelledThenCompleted(e)
      BY <2>1
    <3>3. ~OutputThen(e, {"step.attemptFailed", "step.cancelled"}) /\ ~OutputThen(e, {"step.failed"})
      BY <2>1 DEF OutputThen, Then
    <3> QED
      BY <3>1, <3>2, <3>3 DEF Plain, Straight
  <2>6. Body(p, e, r) /\ Follows(p, e, r, DOMAIN e)
    BY <2>3, <2>5 DEF Sound, Plain
  <2>7. PICK to : to = ContinueWait(p, e)
    OBVIOUS
  <2>8. to.node = r.node /\ to.at = r.at /\ to.value = r.value /\ to.waits = r.waits /\ to.index = r.index
    BY <2>1, <2>3, <2>4, <2>6, <2>7, ParkedReaches
  <2>9. r = [pc |-> "off", node |-> r.node, at |-> r.at, value |-> r.value, waits |-> r.waits, index |-> r.index]
    BY <2>1, <2>3 DEF At
  <2> QED
    BY <2>1, <2>7, <2>8, <2>9 DEF At
<1> QED
  BY <1>1, CyclesInvariant, PTL

=============================================================================
