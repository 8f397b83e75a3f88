-------------------------- MODULE RunCyclesLemmas --------------------------
(***************************************************************************)
(* What a trail says of a run, lemma by lemma, for any workflow and any     *)
(* trail of its events: what the replays compute from it, what it records  *)
(* of the last attempt at a step, how each event the program writes        *)
(* changes both, and where the commands that open a run again find it.     *)
(* Nothing here is about a behaviour; RunCyclesProofs is.                  *)
(***************************************************************************)
EXTENDS RunCycles, FiniteSetTheorems, WellFoundedInduction, TLAPS

\* The least of some numbers.
LEMMA LeastOf ==
    ASSUME NEW n \in Nat, NEW S \in SUBSET (0 .. n), S # {}
    PROVE  \E m \in S : \A k \in S : m <= k
<1> DEFINE R == OpToRel(<, Nat)
<1>1. S \in SUBSET Nat
  OBVIOUS
<1>2. PICK m \in S : \A k \in S : <<k, m>> \notin R
  <2>1. IsWellFoundedOn(R, Nat)
    BY NatLessThanWellFounded
  <2> HIDE DEF R
  <2> QED
    BY <1>1, <2>1, WFMin
<1>3. ASSUME NEW k \in S PROVE m <= k
  <2>1. k \in Nat /\ m \in Nat
    BY <1>1
  <2>2. ~(k < m)
    BY <1>2, <2>1 DEF OpToRel
  <2> QED
    BY <2>1, <2>2
<1> QED
  BY <1>3

\* The greatest of a set of positions is one of them, 0 when there is none.
LEMMA LatestOf ==
    ASSUME NEW n \in Nat, NEW S \in SUBSET (1 .. n)
    PROVE  /\ Trail!Latest(S) \in S \cup {0} /\ \A j \in S : j <= Trail!Latest(S)
           /\ Trail!Latest(S) = 0 <=> S = {}
<1> DEFINE T == {k \in 0 .. n : \E i \in S \cup {0} : k = n - i}
<1>1. T \in SUBSET (0 .. n) /\ T # {}
  <2>1. n - 0 \in T
    OBVIOUS
  <2> QED
    BY <2>1
<1>2. PICK k \in T : \A j \in T : k <= j
  <2> HIDE DEF T
  <2> QED
    BY <1>1, LeastOf
<1>3. PICK m \in S \cup {0} : k = n - m
  OBVIOUS
<1>4. ASSUME NEW i \in S \cup {0} PROVE m >= i
  <2>1. n - i \in T /\ i \in 0 .. n /\ m \in 0 .. n
    OBVIOUS
  <2> QED
    BY <1>2, <1>3, <2>1
<1> HIDE DEF T
<1>5. \E i \in S \cup {0} : \A j \in S \cup {0} : i >= j
  BY <1>4
<1>6. Trail!Latest(S) \in S \cup {0} /\ \A j \in S \cup {0} : Trail!Latest(S) >= j
  BY <1>5 DEF Trail!Latest
<1>7. PICK x : x = Trail!Latest(S)
  OBVIOUS
<1>8. x \in S \cup {0} /\ \A j \in S : x >= j /\ j \in 1 .. n
  BY <1>6, <1>7
<1>9. x = 0 <=> S = {}
  BY <1>8
<1> QED
  BY <1>7, <1>8, <1>9

\* The greatest of a set of positions is any member none exceeds.
LEMMA LatestIs ==
    ASSUME NEW n \in Nat, NEW S \in SUBSET (1 .. n), NEW m \in S, \A j \in S : j <= m
    PROVE  Trail!Latest(S) = m
<1>1. PICK x : x = Trail!Latest(S)
  OBVIOUS
<1>2. x \in S \cup {0} /\ \A j \in S : j <= x
  BY <1>1, LatestOf
<1> QED
  BY <1>1, <1>2

\* What is computed position by position is some function of the positions.
Rule(n, V, a, F) == n \in Nat /\ a \in V /\ F \in [1 .. n -> [V -> V]]
Follow(f, n, V, a, F) ==
    f \in [0 .. n -> V] /\ f[0] = a /\ \A i \in 1 .. n : f[i] = F[i][f[i - 1]]

\* Such a function exists, though it is computed step by step.
LEMMA Computed ==
    ASSUME NEW n, NEW V, NEW a, NEW F, Rule(n, V, a, F)
    PROVE  \E f : Follow(f, n, V, a, F)
<1> n \in Nat /\ a \in V /\ F \in [1 .. n -> [V -> V]]
  BY DEF Rule
<1> DEFINE Upto(m) == \E f \in [0 .. m -> V] : f[0] = a /\ \A i \in 1 .. m : f[i] = F[i][f[i - 1]]
           Bad == {m \in 0 .. n : ~Upto(m)}
<1>1. SUFFICES ASSUME Bad # {} PROVE FALSE
  <2>1. n \in 0 .. n
    OBVIOUS
  <2>2. n \notin Bad => Upto(n)
    BY <2>1
  <2> QED
    BY <2>2 DEF Follow
<1>2. PICK m \in Bad : \A k \in Bad : m <= k
  <2>1. Bad \in SUBSET (0 .. n)
    OBVIOUS
  <2> HIDE DEF Bad
  <2> QED
    BY <1>1, <2>1, LeastOf
<1>3. m # 0
  <2> DEFINE z == [i \in 0 .. 0 |-> a]
  <2>1. z \in [0 .. 0 -> V] /\ z[0] = a
    OBVIOUS
  <2> HIDE DEF z
  <2>2. PICK f \in [0 .. 0 -> V] : f[0] = a
    BY <2>1
  <2>3. Upto(0)
    BY <2>2
  <2> QED
    BY <2>3
<1>4. m - 1 \in 0 .. n /\ m \in 1 .. n /\ Upto(m - 1)
  <2>1. m \in 0 .. n
    OBVIOUS
  <2>2. m - 1 \in 0 .. n /\ m \in 1 .. n /\ ~(m <= m - 1)
    BY <1>3, <2>1
  <2>3. m - 1 \notin Bad
    BY <1>2, <2>2
  <2> QED
    BY <2>2, <2>3
<1> HIDE DEF Bad
<1>5. PICK f \in [0 .. m - 1 -> V] : f[0] = a /\ \A i \in 1 .. m - 1 : f[i] = F[i][f[i - 1]]
  BY <1>4
<1> DEFINE g == [i \in 0 .. m |-> IF i = m THEN F[m][f[m - 1]] ELSE f[i]]
<1>6. f[m - 1] \in V /\ F[m] \in [V -> V]
  BY <1>3, <1>4
<1>7. g \in [0 .. m -> V]
  <2>1. F[m][f[m - 1]] \in V
    BY <1>6
  <2>2. ASSUME NEW i \in 0 .. m, i # m PROVE f[i] \in V
    <3>1. i \in 0 .. m - 1
      BY <1>4, <2>2
    <3> QED
      BY <3>1
  <2> QED
    BY <2>1, <2>2
<1>8. g[0] = a
  BY <1>3, <1>4, <1>5
<1>9. ASSUME NEW i \in 1 .. m PROVE g[i] = F[i][g[i - 1]]
  <2>1. CASE i = m
    <3>1. g[i] = F[m][f[m - 1]] /\ g[i - 1] = f[m - 1]
      BY <1>4, <2>1
    <3> QED
      BY <2>1, <3>1
  <2>2. CASE i # m
    <3>1. i \in 1 .. m - 1 /\ i - 1 \in 0 .. m /\ i - 1 # m /\ i \in 0 .. m
      BY <1>4, <2>2
    <3>2. g[i] = f[i] /\ g[i - 1] = f[i - 1]
      BY <2>2, <3>1
    <3>3. f[i] = F[i][f[i - 1]]
      BY <1>5, <3>1
    <3> QED
      BY <3>2, <3>3
  <2> QED
    BY <2>1, <2>2
<1>10. Upto(m)
  <2> HIDE DEF g
  <2> QED
    BY <1>7, <1>8, <1>9
<1> QED
  BY <1>2, <1>10 DEF Bad

\* Two such functions agree as far as their steps do.
Alike(f, g, n) ==
    n \in Nat /\ f[0] = g[0] /\ \A i \in 1 .. n : f[i - 1] = g[i - 1] => f[i] = g[i]
LEMMA ComputedAlike ==
    ASSUME NEW f, NEW g, NEW n, Alike(f, g, n)
    PROVE  \A i \in 0 .. n : f[i] = g[i]
<1>0. n \in Nat /\ f[0] = g[0] /\ \A i \in 1 .. n : f[i - 1] = g[i - 1] => f[i] = g[i]
  BY DEF Alike
<1> DEFINE Bad == {i \in 0 .. n : f[i] # g[i]}
<1>1. SUFFICES ASSUME Bad # {} PROVE FALSE
  OBVIOUS
<1>2. PICK m \in Bad : \A k \in Bad : m <= k
  <2>1. Bad \in SUBSET (0 .. n)
    BY <1>0
  <2> HIDE DEF Bad
  <2> QED
    BY <1>0, <1>1, <2>1, LeastOf
<1>3. m # 0 /\ m \in 0 .. n
  BY <1>0
<1>4. m - 1 \in 0 .. n /\ m \in 1 .. n /\ m - 1 \notin Bad
  <2>1. m - 1 \in 0 .. n /\ m \in 1 .. n /\ ~(m <= m - 1)
    BY <1>0, <1>3
  <2> QED
    BY <1>2, <2>1
<1> QED
  BY <1>0, <1>4

\* The trail as the replays see it: events are of the steps of the workflow, and an
\* output is one.
DriverEvent == {"step.completed", "step.failed", "step.attemptFailed",
                "wait.started", "wait.satisfied", "wait.failed"}
StepEvent == DriverEvent \cup {"step.started", "step.cancelled"}
EventOK(p, v) ==
    /\ v.type \in StepEvent => v.step \in DOMAIN p
    /\ v.type \notin StepEvent => v.step = "none"
    /\ v.type = "step.completed" /\ Has(p, v.step, {"prompt"}) => v.out \in Value
    /\ v.type = "wait.satisfied" => v.out \in Value
    /\ v.type = "wait.started" => \E i \in Waits(p, v.step) : Phases(p, v.step)[i] = v.wait
TrailOK(p, e) ==
    /\ WellBuilt(p)
    /\ Len(e) \in Nat /\ DOMAIN e = 1 .. Len(e)
    /\ \A i \in DOMAIN e : EventOK(p, e[i])
    /\ \A i \in DOMAIN e : e[i].type = "workflow.retryStarted" => e[i].source \in 0 .. i - 1

Node(p) == [step : DOMAIN p \cup {Done}, input : Value]
NoReplay == {Threw, Refused}

\* The phases of a step of a well built workflow: distinct, and the last one alone is a
\* do phase.
LEMMA PhasesOf ==
    ASSUME NEW p, WellBuilt(p), NEW s \in DOMAIN p
    PROVE  /\ Len(Phases(p, s)) \in Nat \ {0} /\ DOMAIN Phases(p, s) = 1 .. Len(Phases(p, s))
           /\ \A i \in DOMAIN Phases(p, s) : Phases(p, s)[i] \in Phase
           /\ \A i, j \in DOMAIN Phases(p, s) : Phases(p, s)[i] = Phases(p, s)[j] => i = j
           /\ \A i \in DOMAIN Phases(p, s) :
                Phases(p, s)[i] \in {"do", "once"} <=> i = Len(Phases(p, s))
           /\ Waits(p, s) \in SUBSET (1 .. Len(Phases(p, s)))
           /\ p[s].to \in [Value -> DOMAIN p \cup {Done}]
<1>1. PICK q : q = p[s].phases
  OBVIOUS
<1>2. q \in Seq(Phase) /\ q # <<>>
  BY <1>1 DEF WellBuilt
<1>3. Len(q) \in Nat \ {0} /\ DOMAIN q = 1 .. Len(q) /\ \A i \in DOMAIN q : q[i] \in Phase
  BY <1>2
<1>4. /\ \A i, j \in DOMAIN q : q[i] = q[j] => i = j
      /\ \A i \in DOMAIN q : q[i] \in {"do", "once"} <=> i = Len(q)
      /\ p[s].to \in [Value -> DOMAIN p \cup {Done}]
  BY <1>1 DEF WellBuilt
<1>5. Phases(p, s) = q
  BY <1>1 DEF Phases
<1>6. Waits(p, s) \in SUBSET (1 .. Len(q))
  BY <1>3, <1>5 DEF Waits
<1> QED
  BY <1>3, <1>4, <1>5, <1>6

\* A do phase goes on to a step of the workflow or throws.
LEMMA DoPhaseGoesOn ==
    ASSUME NEW p, WellBuilt(p), NEW s \in DOMAIN p, NEW value \in Value, NEW waits \in [WaitId -> 0 .. 2]
    PROVE  DoPhase(p, s, value, waits) \in Node(p) \cup {Threw}
<1> DEFINE v == IF Waits(p, s) = {} THEN value ELSE waits[Phases(p, s)[Trail!Latest(Waits(p, s))]]
<1>1. v \in 0 .. 2
  <2>1. CASE Waits(p, s) = {}
    BY <2>1 DEF Value
  <2>2. CASE Waits(p, s) # {}
    <3>1. PICK m : m = Trail!Latest(Waits(p, s))
      OBVIOUS
    <3>2. m \in Waits(p, s)
      BY <2>2, <3>1, PhasesOf, LatestOf
    <3>3. Phases(p, s)[m] \in WaitId
      BY <3>2 DEF Waits
    <3>4. waits[Phases(p, s)[m]] \in 0 .. 2
      BY <3>3
    <3> QED
      BY <2>2, <3>1, <3>4
  <2> QED
    BY <2>1, <2>2
<1>2. p[s].to \in [Value -> DOMAIN p \cup {Done}]
  BY PhasesOf
<1>3. DoPhase(p, s, value, waits) = IF v = 0 THEN Threw ELSE [step |-> p[s].to[v], input |-> v]
  BY DEF DoPhase
<1> HIDE DEF v
<1>4. CASE v = 0
  BY <1>3, <1>4
<1>5. CASE v # 0
  <2>1. v \in Value
    BY <1>1, <1>5 DEF Value
  <2>2. p[s].to[v] \in DOMAIN p \cup {Done}
    BY <1>2, <2>1
  <2>3. [step |-> p[s].to[v], input |-> v] \in Node(p)
    BY <2>1, <2>2 DEF Node
  <2> QED
    BY <1>3, <1>5, <2>3
<1> QED
  BY <1>4, <1>5

\* What some answers give each wait is a value, or 0 for none.
LEMMA OutputsAre ==
    ASSUME NEW e, NEW S, \A i \in S : e[i].out \in Value
    PROVE  Outputs(e, S) \in [WaitId -> 0 .. 2]
<1>1. ASSUME NEW w \in WaitId, NEW i \in S, e[i].wait = w
      PROVE  e[CHOOSE k \in S : e[k].wait = w].out \in 0 .. 2
  <2>1. PICK k : k = CHOOSE j \in S : e[j].wait = w
    OBVIOUS
  <2>2. k \in S
    BY <1>1, <2>1
  <2>3. e[k].out \in 0 .. 2
    BY <2>2 DEF Value
  <2> QED
    BY <2>1, <2>3
<1>2. PICK f : f = [w \in WaitId |-> IF \E i \in S : e[i].wait = w
                      THEN e[CHOOSE i \in S : e[i].wait = w].out ELSE 0]
  OBVIOUS
<1>3. \A w \in WaitId : f[w] \in 0 .. 2
  BY <1>1, <1>2
<1>4. f \in [WaitId -> 0 .. 2]
  BY <1>2, <1>3
<1> QED
  BY <1>2, <1>4 DEF Outputs

\* A replayed step goes on to a step of the workflow, or the replay ends.
LEMMA AdvanceGoesOn ==
    ASSUME NEW p, NEW e, TrailOK(p, e), NEW K, K \subseteq DOMAIN e,
           NEW i \in DOMAIN e, e[i].type = "step.completed",
           NEW node \in Node(p) \cup NoReplay
    PROVE  Advance(p, e, K, node, i) \in Node(p) \cup NoReplay
<1>1. CASE node \in NoReplay
  BY <1>1 DEF Advance, NoReplay
<1>2. CASE node \notin NoReplay /\ (node.step = Done \/ node.step # e[i].step)
  BY <1>2 DEF Advance, NoReplay
<1>3. CASE node \notin NoReplay /\ ~(node.step = Done \/ node.step # e[i].step)
  <2>1. node \in Node(p) /\ node.step \in DOMAIN p /\ node.input \in Value /\ node.step = e[i].step
    BY <1>3 DEF Node
  <2>2. PICK S : S = SatisfiedBetween(e, K, node.step, StartOf(e, K, i), i)
    OBVIOUS
  <2>3. \A k \in S : e[k].out \in Value
    BY <2>2 DEF SatisfiedBetween, TrailOK, EventOK
  <2>4. PICK waits \in [WaitId -> 0 .. 2] : waits = Outputs(e, S)
    BY <2>3, OutputsAre
  <2>5. PICK value \in Value : value = IF Has(p, node.step, {"prompt"}) THEN e[i].out ELSE node.input
    BY <2>1 DEF TrailOK, EventOK
  <2>6. PICK to : to = DoPhase(p, node.step, value, waits)
    OBVIOUS
  <2>7. to \in Node(p) \cup {Threw}
    BY <2>1, <2>6, DoPhaseGoesOn DEF TrailOK
  <2>8. ReplayStep(p, e, K, node, i) = IF TwiceSatisfied(e, S) THEN Refused ELSE to
    BY <2>2, <2>4, <2>5, <2>6 DEF ReplayStep
  <2> QED
    BY <1>3, <2>7, <2>8 DEF Advance, NoReplay
<1> QED
  BY <1>1, <1>2, <1>3

\* The node a replay has reached, position by position.
LEMMA ReachedIs ==
    ASSUME NEW p, NEW e, TrailOK(p, e), NEW K, K \subseteq DOMAIN e
    PROVE  /\ Reached(p, e, K) \in [0 .. Len(e) -> Node(p) \cup NoReplay]
           /\ Reached(p, e, K)[0] = AtStart
           /\ \A i \in 1 .. Len(e) : Reached(p, e, K)[i] =
                IF CompletedAttempt(e, K, i) THEN Advance(p, e, K, Reached(p, e, K)[i - 1], i)
                ELSE Reached(p, e, K)[i - 1]
<1> DEFINE V == Node(p) \cup NoReplay
           n == Len(e)
           F == [i \in 1 .. n |-> [x \in V |-> IF CompletedAttempt(e, K, i) THEN Advance(p, e, K, x, i) ELSE x]]
<1>1. n \in Nat /\ DOMAIN e = 1 .. n
  BY DEF TrailOK
<1>2. AtStart \in V
  BY DEF AtStart, Node, TrailOK, WellBuilt, Value
<1>3. ASSUME NEW i \in 1 .. n, NEW x \in V
      PROVE  (IF CompletedAttempt(e, K, i) THEN Advance(p, e, K, x, i) ELSE x) \in V
  <2>1. CASE CompletedAttempt(e, K, i)
    <3>1. i \in DOMAIN e /\ e[i].type = "step.completed"
      BY <2>1, <1>1 DEF CompletedAttempt
    <3> QED
      BY <2>1, <3>1, AdvanceGoesOn
  <2> QED
    BY <2>1
<1>4. F \in [1 .. n -> [V -> V]]
  <2> HIDE DEF V
  <2> QED
    BY <1>3
<1>5. PICK f : Follow(f, n, V, AtStart, F)
  <2>1. Rule(n, V, AtStart, F)
    BY <1>1, <1>2, <1>4 DEF Rule
  <2> HIDE DEF n, V, F
  <2> QED
    BY <2>1, Computed
<1>51. f \in [0 .. n -> V] /\ f[0] = AtStart /\ \A i \in 1 .. n : f[i] = F[i][f[i - 1]]
  BY <1>5 DEF Follow
<1>6. ASSUME NEW i \in 1 .. n
      PROVE  f[i] = IF CompletedAttempt(e, K, i) THEN Advance(p, e, K, f[i - 1], i) ELSE f[i - 1]
  <2>1. i - 1 \in 0 .. n
    BY <1>1
  <2> HIDE DEF V
  <2>2. f[i - 1] \in V
    BY <1>51, <2>1
  <2> QED
    BY <1>51, <2>2
<1> HIDE DEF V, F
<1>7. f = [i \in 0 .. n |-> IF i = 0 THEN AtStart
             ELSE IF CompletedAttempt(e, K, i) THEN Advance(p, e, K, f[i - 1], i) ELSE f[i - 1]]
  <2> DEFINE g == [i \in 0 .. n |-> IF i = 0 THEN AtStart
             ELSE IF CompletedAttempt(e, K, i) THEN Advance(p, e, K, f[i - 1], i) ELSE f[i - 1]]
  <2>1. ASSUME NEW i \in 0 .. n PROVE f[i] = g[i]
    <3>1. CASE i = 0
      BY <1>51, <3>1
    <3>2. CASE i # 0
      <4>1. i \in 1 .. n
        BY <1>1, <3>2
      <4> QED
        BY <1>6, <3>2, <4>1
    <3> QED
      BY <3>1, <3>2
  <2>2. DOMAIN g = 0 .. n /\ g = [i \in DOMAIN g |-> g[i]]
    OBVIOUS
  <2> HIDE DEF g
  <2>3. f = g
    BY <1>51, <2>1, <2>2
  <2> QED
    BY <2>3 DEF g
<1> DEFINE Is(r) == r = [i \in 0 .. n |-> IF i = 0 THEN AtStart
             ELSE IF CompletedAttempt(e, K, i) THEN Advance(p, e, K, r[i - 1], i) ELSE r[i - 1]]
<1>8. Reached(p, e, K) = CHOOSE r : Is(r)
  BY DEF Reached
<1>9. \E r : Is(r)
  BY <1>7
<1>10. PICK r : r = Reached(p, e, K) /\ Is(r)
  BY <1>8, <1>9
<1>11. r[0] = AtStart /\ \A i \in 1 .. n : r[i] = IF CompletedAttempt(e, K, i) THEN Advance(p, e, K, r[i - 1], i) ELSE r[i - 1]
  BY <1>1, <1>10
<1>12. \A i \in 0 .. n : r[i] = f[i]
  <2>1. ASSUME NEW i \in 1 .. n, r[i - 1] = f[i - 1] PROVE r[i] = f[i]
    BY <1>6, <1>11, <2>1
  <2>2. r[0] = f[0]
    BY <1>51, <1>11
  <2>3. PICK m : m = n
    OBVIOUS
  <2> HIDE DEF n
  <2>4. Alike(r, f, m)
    BY <1>1, <2>1, <2>2, <2>3 DEF Alike
  <2>5. \A i \in 0 .. m : r[i] = f[i]
    BY <2>4, ComputedAlike
  <2> QED
    BY <2>3, <2>5
<1>13. r \in [0 .. n -> V]
  <2>1. \A i \in 0 .. n : r[i] \in V
    BY <1>51, <1>12
  <2>2. DOMAIN r = 0 .. n /\ r = [i \in DOMAIN r |-> r[i]]
    BY <1>10
  <2> QED
    BY <2>1, <2>2
<1> QED
  BY <1>10, <1>11, <1>13 DEF V

OpensNext(e, K, s, i, open) ==
    IF i \notin K \/ e[i].step # s THEN open
    ELSE IF e[i].type = "step.started" THEN open \cup {i}
    ELSE IF e[i].type \in Trail!StepEnd THEN open \ {Trail!Latest(open)}
    ELSE open

\* The open starts of a step, position by position.
LEMMA OpenStartsAre ==
    ASSUME NEW e, Len(e) \in Nat, NEW K, NEW s
    PROVE  /\ OpenStarts(e, K, s) \in [0 .. Len(e) -> SUBSET (1 .. Len(e))]
           /\ OpenStarts(e, K, s)[0] = {}
           /\ \A i \in 1 .. Len(e) :
                OpenStarts(e, K, s)[i] = OpensNext(e, K, s, i, OpenStarts(e, K, s)[i - 1])
<1> DEFINE n == Len(e)
           V == SUBSET (1 .. n)
           F == [i \in 1 .. n |-> [x \in V |-> OpensNext(e, K, s, i, x)]]
<1>1. n \in Nat
  OBVIOUS
<1>2. {} \in V
  OBVIOUS
<1>3. ASSUME NEW i \in 1 .. n, NEW x \in V PROVE OpensNext(e, K, s, i, x) \in V
  BY <1>1 DEF OpensNext
<1>4. F \in [1 .. n -> [V -> V]]
  <2> HIDE DEF V
  <2> QED
    BY <1>3
<1>5. PICK f : Follow(f, n, V, {}, F)
  <2>1. Rule(n, V, {}, F)
    BY <1>1, <1>2, <1>4 DEF Rule
  <2> HIDE DEF n, V, F
  <2> QED
    BY <2>1, Computed
<1>6. f \in [0 .. n -> V] /\ f[0] = {} /\ \A i \in 1 .. n : f[i] = F[i][f[i - 1]]
  BY <1>5 DEF Follow
<1>7. ASSUME NEW i \in 1 .. n PROVE f[i] = OpensNext(e, K, s, i, f[i - 1])
  <2>1. i - 1 \in 0 .. n
    BY <1>1
  <2> HIDE DEF V
  <2>2. f[i - 1] \in V
    BY <1>6, <2>1
  <2> QED
    BY <1>6, <2>2
<1> HIDE DEF V, F
<1> DEFINE Is(r) == r = [i \in 0 .. n |-> IF i = 0 THEN {}
                ELSE IF i \notin K \/ e[i].step # s THEN r[i - 1]
                ELSE IF e[i].type = "step.started" THEN r[i - 1] \cup {i}
                ELSE IF e[i].type \in Trail!StepEnd THEN r[i - 1] \ {Trail!Latest(r[i - 1])}
                ELSE r[i - 1]]
<1>8. Is(f)
  <2> DEFINE g == [i \in 0 .. n |-> IF i = 0 THEN {}
                ELSE IF i \notin K \/ e[i].step # s THEN f[i - 1]
                ELSE IF e[i].type = "step.started" THEN f[i - 1] \cup {i}
                ELSE IF e[i].type \in Trail!StepEnd THEN f[i - 1] \ {Trail!Latest(f[i - 1])}
                ELSE f[i - 1]]
  <2>1. ASSUME NEW i \in 0 .. n PROVE f[i] = g[i]
    <3>1. CASE i = 0
      BY <1>6, <3>1
    <3>2. CASE i # 0
      <4>1. i \in 1 .. n
        BY <1>1, <3>2
      <4> QED
        BY <1>7, <3>2, <4>1 DEF OpensNext
    <3> QED
      BY <3>1, <3>2
  <2>2. DOMAIN g = 0 .. n /\ g = [i \in DOMAIN g |-> g[i]]
    OBVIOUS
  <2> HIDE DEF g
  <2>3. f = g
    BY <1>6, <2>1, <2>2
  <2> QED
    BY <2>3 DEF g
<1>9. OpenStarts(e, K, s) = CHOOSE r : Is(r)
  BY DEF OpenStarts
<1>10. PICK r : r = OpenStarts(e, K, s) /\ Is(r)
  BY <1>8, <1>9
<1>11. r[0] = {} /\ \A i \in 1 .. n : r[i] = OpensNext(e, K, s, i, r[i - 1])
  <2>1. r[0] = {}
    BY <1>1, <1>10
  <2>2. ASSUME NEW i \in 1 .. n PROVE r[i] = OpensNext(e, K, s, i, r[i - 1])
    <3>1. i \in 0 .. n /\ i # 0
      BY <1>1
    <3> QED
      BY <1>10, <3>1 DEF OpensNext
  <2> QED
    BY <2>1, <2>2
<1>12. \A i \in 0 .. n : r[i] = f[i]
  <2>1. ASSUME NEW i \in 1 .. n, r[i - 1] = f[i - 1] PROVE r[i] = f[i]
    BY <1>7, <1>11, <2>1
  <2>2. r[0] = f[0]
    BY <1>6, <1>11
  <2>3. PICK m : m = n
    OBVIOUS
  <2> HIDE DEF n
  <2>4. Alike(r, f, m)
    BY <1>1, <2>1, <2>2, <2>3 DEF Alike
  <2>5. \A i \in 0 .. m : r[i] = f[i]
    BY <2>4, ComputedAlike
  <2> QED
    BY <2>3, <2>5
<1>13. r \in [0 .. n -> V]
  <2>1. \A i \in 0 .. n : r[i] \in V
    BY <1>6, <1>12
  <2>2. DOMAIN r = 0 .. n /\ r = [i \in DOMAIN r |-> r[i]]
    BY <1>10
  <2> QED
    BY <2>1, <2>2
<1> QED
  BY <1>10, <1>11, <1>13 DEF V

\* Two trails agree on the positions 1 .. m and on which of them are kept.
Agree(e, f, K, J, m) ==
    /\ Len(e) \in Nat /\ Len(f) \in Nat /\ m \in 0 .. Len(e) /\ m <= Len(f)
    /\ K \subseteq 1 .. Len(e) /\ J \subseteq 1 .. Len(f)
    /\ \A i \in 1 .. m : e[i] = f[i] /\ (i \in K <=> i \in J)

\* Two trails have the same open starts as far as they agree.
LEMMA OpenStartsAgree ==
    ASSUME NEW e, NEW f, NEW K, NEW J, NEW m, Agree(e, f, K, J, m), NEW s
    PROVE  \A i \in 0 .. m : OpenStarts(e, K, s)[i] = OpenStarts(f, J, s)[i]
<1>1. PICK x, y : x = OpenStarts(e, K, s) /\ y = OpenStarts(f, J, s)
  OBVIOUS
<1>2. m \in Nat
  BY DEF Agree
<1>3. x[0] = y[0]
  BY <1>1, OpenStartsAre DEF Agree
<1>4. ASSUME NEW i \in 1 .. m, x[i - 1] = y[i - 1] PROVE x[i] = y[i]
  <2>1. i \in 1 .. Len(e) /\ i \in 1 .. Len(f) /\ e[i] = f[i] /\ (i \in K <=> i \in J)
    BY DEF Agree
  <2>2. x[i] = OpensNext(e, K, s, i, x[i - 1]) /\ y[i] = OpensNext(f, J, s, i, y[i - 1])
    BY <1>1, <2>1, OpenStartsAre DEF Agree
  <2>3. OpensNext(e, K, s, i, x[i - 1]) = OpensNext(f, J, s, i, x[i - 1])
    BY <2>1 DEF OpensNext
  <2> QED
    BY <1>4, <2>2, <2>3
<1>5. Alike(x, y, m)
  BY <1>2, <1>3, <1>4 DEF Alike
<1>6. \A i \in 0 .. m : x[i] = y[i]
  BY <1>5, ComputedAlike
<1> QED
  BY <1>1, <1>6

\* Answers that are the same in two trails give the waits the same.
LEMMA OutputsAgree ==
    ASSUME NEW e, NEW f, NEW S, \A j \in S : e[j] = f[j]
    PROVE  Outputs(e, S) = Outputs(f, S)
<1>1. ASSUME NEW w \in WaitId
      PROVE  (IF \E k \in S : e[k].wait = w THEN e[CHOOSE k \in S : e[k].wait = w].out ELSE 0)
           = (IF \E k \in S : f[k].wait = w THEN f[CHOOSE k \in S : f[k].wait = w].out ELSE 0)
  <2>1. \A k : (k \in S /\ e[k].wait = w) <=> (k \in S /\ f[k].wait = w)
    OBVIOUS
  <2>2. (CHOOSE k \in S : e[k].wait = w) = (CHOOSE k \in S : f[k].wait = w)
    BY <2>1
  <2>3. PICK c : c = CHOOSE k \in S : e[k].wait = w
    OBVIOUS
  <2>4. (\E k \in S : e[k].wait = w) => c \in S
    BY <2>3
  <2> QED
    BY <2>1, <2>2, <2>3, <2>4
<1> QED
  BY <1>1 DEF Outputs

\* A replay pairs and replays an output alike in two trails that agree up to it.
LEMMA CompletionsAgree ==
    ASSUME NEW p, NEW e, NEW f, NEW K, NEW J, NEW m, Agree(e, f, K, J, m), NEW i \in 1 .. m
    PROVE  /\ StartOf(e, K, i) = StartOf(f, J, i)
           /\ CompletedAttempt(e, K, i) <=> CompletedAttempt(f, J, i)
           /\ \A node : Advance(p, e, K, node, i) = Advance(p, f, J, node, i)
<1>1. e[i] = f[i] /\ (i \in K <=> i \in J) /\ i - 1 \in 0 .. m /\ i \in Int /\ m \in Nat
  BY DEF Agree
<1>2. StartOf(e, K, i) = StartOf(f, J, i)
  <2>1. OpenStarts(e, K, e[i].step)[i - 1] = OpenStarts(f, J, e[i].step)[i - 1]
    BY <1>1, OpenStartsAgree
  <2> QED
    BY <1>1, <2>1 DEF StartOf
<1>3. CompletedAttempt(e, K, i) <=> CompletedAttempt(f, J, i)
  BY <1>1, <1>2 DEF CompletedAttempt
<1>4. PICK from : from = StartOf(e, K, i)
  OBVIOUS
<1>5. ASSUME NEW node PROVE ReplayStep(p, e, K, node, i) = ReplayStep(p, f, J, node, i)
  <2>1. PICK from1 : from1 = StartOf(e, K, i)
    OBVIOUS
  <2>2. PICK S, T : S = SatisfiedBetween(e, K, node.step, from1, i) /\ T = SatisfiedBetween(f, J, node.step, from1, i)
    OBVIOUS
  <2>3. m <= Len(e) /\ m <= Len(f) /\ Len(e) \in Nat /\ Len(f) \in Nat
        /\ K \subseteq 1 .. Len(e) /\ J \subseteq 1 .. Len(f)
        /\ \A k \in 1 .. m : e[k] = f[k] /\ (k \in K <=> k \in J)
    BY DEF Agree
  <2>31. ASSUME NEW j \in S PROVE j \in T /\ e[j] = f[j]
    <3>1. j \in K /\ from1 < j /\ j < i /\ e[j].type = "wait.satisfied" /\ e[j].step = node.step
      BY <2>2 DEF SatisfiedBetween
    <3>2. j \in 1 .. m
      BY <1>1, <2>3, <3>1
    <3> QED
      BY <2>2, <2>3, <3>1, <3>2 DEF SatisfiedBetween
  <2>32. ASSUME NEW j \in T PROVE j \in S
    <3>1. j \in J /\ from1 < j /\ j < i /\ f[j].type = "wait.satisfied" /\ f[j].step = node.step
      BY <2>2 DEF SatisfiedBetween
    <3>2. j \in 1 .. m
      BY <1>1, <2>3, <3>1
    <3> QED
      BY <2>2, <2>3, <3>1, <3>2 DEF SatisfiedBetween
  <2>4. S = T /\ \A j \in S : e[j] = f[j]
    BY <2>31, <2>32
  <2>5. TwiceSatisfied(e, S) <=> TwiceSatisfied(f, T)
    BY <2>4 DEF TwiceSatisfied
  <2>6. Outputs(e, S) = Outputs(f, T)
    BY <2>4, OutputsAgree
  <2> QED
    BY <1>1, <1>2, <2>1, <2>2, <2>5, <2>6 DEF ReplayStep
<1> QED
  BY <1>1, <1>2, <1>3, <1>5 DEF Advance

\* Two trails lead a replay to the same node as far as they agree.
LEMMA ReachedAgrees ==
    ASSUME NEW p, NEW e, NEW f, TrailOK(p, e), TrailOK(p, f), NEW K, NEW J, NEW m, Agree(e, f, K, J, m)
    PROVE  \A i \in 0 .. m : Reached(p, e, K)[i] = Reached(p, f, J)[i]
<1>1. PICK x, y : x = Reached(p, e, K) /\ y = Reached(p, f, J)
  OBVIOUS
<1>2. m \in Nat /\ K \subseteq DOMAIN e /\ J \subseteq DOMAIN f
  BY DEF Agree, TrailOK
<1>3. x[0] = y[0]
  BY <1>1, <1>2, ReachedIs
<1>4. ASSUME NEW i \in 1 .. m, x[i - 1] = y[i - 1] PROVE x[i] = y[i]
  <2>1. i \in 1 .. Len(e) /\ i \in 1 .. Len(f)
    BY DEF Agree
  <2>2. /\ x[i] = IF CompletedAttempt(e, K, i) THEN Advance(p, e, K, x[i - 1], i) ELSE x[i - 1]
        /\ y[i] = IF CompletedAttempt(f, J, i) THEN Advance(p, f, J, y[i - 1], i) ELSE y[i - 1]
    BY <1>1, <1>2, <2>1, ReachedIs
  <2>3. /\ CompletedAttempt(e, K, i) <=> CompletedAttempt(f, J, i)
        /\ Advance(p, e, K, x[i - 1], i) = Advance(p, f, J, x[i - 1], i)
    BY CompletionsAgree
  <2> QED
    BY <1>4, <2>2, <2>3
<1>5. Alike(x, y, m)
  BY <1>2, <1>3, <1>4 DEF Alike
<1>6. \A i \in 0 .. m : x[i] = y[i]
  BY <1>5, ComputedAlike
<1> QED
  BY <1>1, <1>6

\* Between two completions a replay stays where it is.
LEMMA ReachedStays ==
    ASSUME NEW p, NEW e, TrailOK(p, e), NEW K, K \subseteq DOMAIN e, NEW a \in 0 .. Len(e), NEW b \in a .. Len(e),
           \A i \in a + 1 .. b : ~CompletedAttempt(e, K, i)
    PROVE  Reached(p, e, K)[b] = Reached(p, e, K)[a]
<1> DEFINE Bad == {i \in 0 .. Len(e) : i \in a .. b /\ Reached(p, e, K)[i] # Reached(p, e, K)[a]}
<1>1. SUFFICES ASSUME Bad # {} PROVE FALSE
  <2>1. Len(e) \in Nat
    BY DEF TrailOK
  <2>2. b \in 0 .. Len(e) /\ b \in a .. b
    BY <2>1
  <2> QED
    BY <2>2
<1>2. PICK m \in Bad : \A k \in Bad : m <= k
  <2>1. Bad \in SUBSET (0 .. Len(e)) /\ Len(e) \in Nat
    BY DEF TrailOK
  <2> HIDE DEF Bad
  <2> QED
    BY <1>1, <2>1, LeastOf
<1>3. m \in a .. b /\ m # a /\ Len(e) \in Nat
  BY DEF TrailOK
<1>4. m \in 1 .. Len(e) /\ m \in a + 1 .. b /\ m - 1 \in a .. b /\ m - 1 \in 0 .. Len(e) /\ ~(m <= m - 1)
  BY <1>3
<1>5. m - 1 \notin Bad
  BY <1>2, <1>4
<1>6. Reached(p, e, K)[m] = Reached(p, e, K)[m - 1]
  BY <1>4, ReachedIs
<1>7. Reached(p, e, K)[m] # Reached(p, e, K)[a]
  OBVIOUS
<1>8. Reached(p, e, K)[m - 1] = Reached(p, e, K)[a]
  BY <1>4, <1>5
<1> QED
  BY <1>6, <1>7, <1>8

(***************************************************************************)
(* What a trail says of the last attempt at a step.                        *)
(***************************************************************************)
LastStart(e) == Trail!Latest(Starts(e))
Count(e) == Cardinality(Starts(e))

\* the step of the last attempt, its events, and its waits without an answer
Step(e) == e[LastStart(e)].step
Recent(e, types) == {i \in DOMAIN e : LastStart(e) < i /\ e[i].type \in types}
Outcomes(e) == Recent(e, {"step.completed"})
Failures(e) == Recent(e, {"step.failed"})
Given(e) == Recent(e, {"wait.satisfied"})
Asked(e) == Recent(e, {"wait.started"})
Regained(e) == Recent(e, {"workflow.retryStarted"})
Open(e) == {i \in Asked(e) : ~\E j \in DOMAIN e : Resolves(e, j, i)}

OwnEvents(e) ==
    /\ \A i \in Recent(e, DriverEvent) : LastStart(e) # 0 /\ e[i].step = Step(e)
    /\ \A i \in Recent(e, {"wait.started", "wait.satisfied", "wait.failed"}) : e[i].index = Count(e)
FailureLast(e) ==
    \A f \in Failures(e) : (\A j \in Outcomes(e) : j < f) /\ (\A i \in Regained(e) : f < i)
OneOutcome(e) == \A i, j \in Outcomes(e) : i = j

\* The last start of a trail is a start, 0 when there is none.
LEMMA LastStartIs ==
    ASSUME NEW p, NEW e, TrailOK(p, e)
    PROVE  /\ Len(e) \in Nat /\ DOMAIN e = 1 .. Len(e) /\ Starts(e) \subseteq 1 .. Len(e)
           /\ LastStart(e) \in 0 .. Len(e) /\ \A i \in Starts(e) : i <= LastStart(e)
           /\ LastStart(e) # 0 => LastStart(e) \in Starts(e) /\ e[LastStart(e)].type = "step.started"
           /\ LastStart(e) = 0 => Starts(e) = {}
<1>1. Len(e) \in Nat /\ DOMAIN e = 1 .. Len(e)
  BY DEF TrailOK
<1>2. Starts(e) \subseteq 1 .. Len(e) /\ \A i \in Starts(e) : e[i].type = "step.started"
  BY <1>1 DEF Starts
<1>3. PICK L, S : L = LastStart(e) /\ S = Starts(e)
  OBVIOUS
<1>4. L \in S \cup {0} /\ (\A j \in S : j <= L) /\ (L = 0 <=> S = {})
  <2>1. PICK n : n = Len(e)
    OBVIOUS
  <2>2. n \in Nat /\ S \in SUBSET (1 .. n) /\ L = Trail!Latest(S)
    BY <1>1, <1>2, <1>3, <2>1 DEF LastStart
  <2>3. Trail!Latest(S) \in S \cup {0} /\ (\A j \in S : j <= Trail!Latest(S)) /\ (Trail!Latest(S) = 0 <=> S = {})
    BY <2>2, LatestOf
  <2> QED
    BY <2>2, <2>3
<1> QED
  BY <1>1, <1>2, <1>3, <1>4

\* A start that is open is a start.
LEMMA OpenStartsWithin ==
    ASSUME NEW e, Len(e) \in Nat, DOMAIN e = 1 .. Len(e), NEW K, NEW s, NEW b \in 0 .. Len(e)
    PROVE  OpenStarts(e, K, s)[b] \subseteq Starts(e)
<1> DEFINE n == Len(e)
           Bad == {i \in 0 .. n : ~(OpenStarts(e, K, s)[i] \subseteq Starts(e))}
<1>1. SUFFICES ASSUME Bad # {} PROVE FALSE
  OBVIOUS
<1>2. PICK m \in Bad : \A k \in Bad : m <= k
  <2>1. Bad \in SUBSET (0 .. n)
    OBVIOUS
  <2> HIDE DEF Bad
  <2> QED
    BY <1>1, <2>1, LeastOf
<1>3. PICK x : x = OpenStarts(e, K, s)
  OBVIOUS
<1>4. m # 0
  BY <1>3, OpenStartsAre
<1>5. m \in 1 .. n /\ m - 1 \in 0 .. n /\ ~(m <= m - 1)
  BY <1>4
<1>6. x[m - 1] \subseteq Starts(e)
  BY <1>2, <1>3, <1>5
<1>7. x[m] = OpensNext(e, K, s, m, x[m - 1])
  BY <1>3, <1>5, OpenStartsAre
<1>8. x[m] \subseteq Starts(e)
  BY <1>5, <1>6, <1>7 DEF OpensNext, Starts
<1> QED
  BY <1>3, <1>8

\* Until the last attempt ends, its start is the latest that is open.
LEMMA LastStartStaysOpen ==
    ASSUME NEW p, NEW e, TrailOK(p, e), NEW K, LastStart(e) # 0, LastStart(e) \in K,
           NEW j \in DOMAIN e, LastStart(e) < j, e[j].step = Step(e),
           \A i \in DOMAIN e : LastStart(e) < i /\ i < j /\ e[i].step = Step(e) => e[i].type \notin Trail!StepEnd
    PROVE  StartOf(e, K, j) = LastStart(e)
<1>1. PICK L, n, s, x : L = LastStart(e) /\ n = Len(e) /\ s = Step(e) /\ x = OpenStarts(e, K, s)
  OBVIOUS
<1>2. n \in Nat /\ DOMAIN e = 1 .. n /\ L \in 1 .. n /\ L \in Starts(e) /\ (\A i \in Starts(e) : i <= L)
      /\ e[L].type = "step.started" /\ e[L].step = s /\ Starts(e) \subseteq 1 .. n /\ L \in K /\ j \in 1 .. n /\ L < j
  BY <1>1, LastStartIs DEF Step
<1>3. \A i \in 1 .. n : x[i] = OpensNext(e, K, s, i, x[i - 1])
  BY <1>1, <1>2, OpenStartsAre
<1> DEFINE Bad == {i \in 0 .. n : L <= i /\ i < j /\ L \notin x[i]}
<1>4. Bad = {}
  <2>1. SUFFICES ASSUME Bad # {} PROVE FALSE
    OBVIOUS
  <2>2. PICK m \in Bad : \A k \in Bad : m <= k
    <3>1. Bad \in SUBSET (0 .. n)
      OBVIOUS
    <3> HIDE DEF Bad
    <3> QED
      BY <1>2, <2>1, <3>1, LeastOf
  <2>3. m \in 0 .. n /\ L <= m /\ m < j /\ L \notin x[m]
    OBVIOUS
  <2>4. m # L
    <3>1. x[L] = x[L - 1] \cup {L}
      BY <1>2, <1>3 DEF OpensNext
    <3> QED
      BY <2>3, <3>1
  <2>5. m - 1 \in 0 .. n /\ L <= m - 1 /\ m - 1 < j /\ ~(m <= m - 1) /\ m \in 1 .. n
    BY <1>2, <2>3, <2>4
  <2>6. m - 1 \notin Bad
    BY <2>2, <2>5
  <2>7. L \in x[m - 1]
    BY <2>5, <2>6
  <2>8. e[m].step = s => e[m].type \notin Trail!StepEnd
    BY <1>1, <1>2, <2>3, <2>4, <2>5
  <2>9. x[m] = OpensNext(e, K, s, m, x[m - 1])
    BY <1>3, <2>5
  <2> QED
    BY <2>3, <2>7, <2>8, <2>9 DEF OpensNext
<1>5. L \in x[j - 1]
  <2>1. j - 1 \in 0 .. n /\ L <= j - 1 /\ j - 1 < j
    BY <1>2
  <2>2. j - 1 \notin Bad
    BY <1>4
  <2> QED
    BY <2>1, <2>2
<1>6. x[j - 1] \subseteq Starts(e)
  <2>1. j - 1 \in 0 .. Len(e)
    BY <1>1, <1>2
  <2> QED
    BY <1>1, <1>2, <2>1, OpenStartsWithin
<1>7. Trail!Latest(x[j - 1]) = L
  <2>1. x[j - 1] \in SUBSET (1 .. n) /\ \A i \in x[j - 1] : i <= L
    BY <1>2, <1>6
  <2> QED
    BY <1>2, <1>5, <2>1, LatestIs
<1> QED
  BY <1>1, <1>7 DEF StartOf

\* The output of the last attempt is paired with its start, unless the attempt
\* was cancelled before.
LEMMA OutcomeIsOfLastStart ==
    ASSUME NEW p, NEW e, TrailOK(p, e), NEW K, OwnEvents(e), FailureLast(e), OneOutcome(e),
           ~CancelledThenCompleted(e), NEW j \in Outcomes(e), LastStart(e) \in K
    PROVE  LastStart(e) # 0 /\ StartOf(e, K, j) = LastStart(e)
<1>1. PICK L, n, s : L = LastStart(e) /\ n = Len(e) /\ s = Step(e)
  OBVIOUS
<1>2. n \in Nat /\ DOMAIN e = 1 .. n /\ L \in 0 .. n /\ (\A i \in Starts(e) : i <= L)
  BY <1>1, LastStartIs
<1>3. j \in 1 .. n /\ L < j /\ e[j].type = "step.completed"
  BY <1>1, <1>2 DEF Outcomes, Recent
<1>4. L # 0 /\ e[j].step = s
  <2>1. j \in Recent(e, DriverEvent)
    BY <1>1, <1>2, <1>3 DEF Recent, DriverEvent
  <2> QED
    BY <1>1, <2>1 DEF OwnEvents
<1>5. ASSUME NEW i \in DOMAIN e, L < i, i < j, e[i].step = s, e[i].type \in Trail!StepEnd PROVE FALSE
  <2>1. CASE e[i].type = "step.completed"
    <3>1. i \in Outcomes(e)
      BY <1>1, <1>5, <2>1 DEF Outcomes, Recent
    <3> QED
      BY <1>2, <1>3, <1>5, <3>1 DEF OneOutcome
  <2>2. CASE e[i].type = "step.failed"
    <3>1. i \in Failures(e)
      BY <1>1, <1>5, <2>2 DEF Failures, Recent
    <3>2. j < i
      BY <3>1 DEF FailureLast
    <3> QED
      BY <1>2, <1>3, <1>5, <3>2
  <2>3. CASE e[i].type = "step.cancelled"
    <3>1. ~\E l \in i .. j : e[l].type = "step.started" /\ e[l].step = e[j].step
      <4>1. ASSUME NEW l \in i .. j, e[l].type = "step.started" PROVE FALSE
        <5>1. l \in Starts(e) /\ ~(l <= L)
          BY <1>2, <1>3, <1>5, <4>1 DEF Starts
        <5> QED
          BY <1>2, <5>1
      <4> QED
        BY <4>1
    <3>2. SameAttempt(e, i, j)
      BY <1>4, <1>5, <3>1 DEF SameAttempt
    <3>3. CancelledThenCompleted(e)
      BY <1>2, <1>3, <1>5, <2>3, <3>2 DEF CancelledThenCompleted, Then
    <3> QED
      BY <3>3
  <2> QED
    BY <1>5, <2>1, <2>2, <2>3 DEF Trail!StepEnd
<1>6. StartOf(e, K, j) = L
  BY <1>1, <1>2, <1>3, <1>4, <1>5, LastStartStaysOpen
<1> QED
  BY <1>1, <1>4, <1>6

\* Where a replay ends: where it was at the last start, or a step further when
\* the last attempt has an output that is kept.
LEMMA ReplayEnds ==
    ASSUME NEW p, NEW e, TrailOK(p, e), NEW K, K \subseteq DOMAIN e, LastStart(e) # 0
    PROVE  /\ (\A j \in Outcomes(e) : j \notin K) =>
                Reached(p, e, K)[Len(e)] = Reached(p, e, K)[LastStart(e) - 1]
           /\ \A j \in Outcomes(e) :
                OneOutcome(e) /\ j \in K /\ StartOf(e, K, j) # 0 =>
                Reached(p, e, K)[Len(e)] = Advance(p, e, K, Reached(p, e, K)[LastStart(e) - 1], j)
<1>1. PICK L, n, r : L = LastStart(e) /\ n = Len(e) /\ r = Reached(p, e, K)
  OBVIOUS
<1>2. n \in Nat /\ DOMAIN e = 1 .. n /\ L \in 1 .. n /\ e[L].type = "step.started"
  BY <1>1, LastStartIs
<1>3. ASSUME NEW i \in L .. n, CompletedAttempt(e, K, i) PROVE i \in Outcomes(e) /\ i \in K
  <2>1. i \in K /\ e[i].type = "step.completed" /\ i # L
    BY <1>2, <1>3 DEF CompletedAttempt
  <2>2. i \in DOMAIN e /\ LastStart(e) < i
    BY <1>1, <1>2, <2>1
  <2> QED
    BY <2>1, <2>2 DEF Outcomes, Recent
<1>4. ASSUME \A j \in Outcomes(e) : j \notin K PROVE r[n] = r[L - 1]
  <2>1. PICK a : a = L - 1
    OBVIOUS
  <2>2. \A i \in a + 1 .. n : ~CompletedAttempt(e, K, i)
    BY <1>2, <1>3, <1>4, <2>1
  <2>3. a \in 0 .. Len(e) /\ n \in a .. Len(e)
    BY <1>1, <1>2, <2>1
  <2>4. Reached(p, e, K)[n] = Reached(p, e, K)[a]
    BY <2>2, <2>3, ReachedStays
  <2> QED
    BY <1>1, <2>1, <2>4
<1>5. ASSUME NEW j \in Outcomes(e), OneOutcome(e), j \in K, StartOf(e, K, j) # 0
      PROVE  r[n] = Advance(p, e, K, r[L - 1], j)
  <2>1. j \in 1 .. n /\ L < j /\ e[j].type = "step.completed"
    BY <1>1, <1>2 DEF Outcomes, Recent
  <2>2. \A i \in L .. n : i # j => ~CompletedAttempt(e, K, i)
    BY <1>3, <1>5 DEF OneOutcome
  <2>3. r[j - 1] = r[L - 1]
    <3>1. PICK a, b : a = L - 1 /\ b = j - 1
      OBVIOUS
    <3>2. a \in 0 .. Len(e) /\ b \in a .. Len(e)
      BY <1>1, <1>2, <2>1, <3>1
    <3>3. \A i \in a + 1 .. b : ~CompletedAttempt(e, K, i)
      BY <1>2, <2>1, <2>2, <3>1
    <3>4. Reached(p, e, K)[b] = Reached(p, e, K)[a]
      BY <3>2, <3>3, ReachedStays
    <3> QED
      BY <1>1, <3>1, <3>4
  <2>4. r[n] = r[j]
    <3>1. j \in 0 .. Len(e) /\ n \in j .. Len(e)
      BY <1>1, <1>2, <2>1
    <3>2. \A i \in j + 1 .. n : ~CompletedAttempt(e, K, i)
      BY <1>2, <2>1, <2>2
    <3> QED
      BY <1>1, <3>1, <3>2, ReachedStays
  <2>5. CompletedAttempt(e, K, j)
    BY <1>5, <2>1 DEF CompletedAttempt
  <2>6. r[j] = Advance(p, e, K, r[j - 1], j)
    BY <1>1, <2>1, <2>5, ReachedIs
  <2> QED
    BY <2>3, <2>4, <2>6
<1> QED
  BY <1>1, <1>4, <1>5

(***************************************************************************)
(* A trail grows by one event.                                             *)
(***************************************************************************)
Grows(e, f, v) ==
    /\ Len(e) \in Nat /\ DOMAIN e = 1 .. Len(e)
    /\ Len(f) = Len(e) + 1 /\ DOMAIN f = 1 .. Len(f)
    /\ \A i \in 1 .. Len(e) : f[i] = e[i]
    /\ f[Len(f)] = v

\* A trail of events stays one when an event of the workflow is appended.
LEMMA TrailGrows ==
    ASSUME NEW p, NEW e, NEW f, NEW v, Grows(e, f, v), TrailOK(p, e), EventOK(p, v),
           v.type = "workflow.retryStarted" => v.source \in 0 .. Len(e)
    PROVE  TrailOK(p, f)
<1>1. PICK n : n = Len(e)
  OBVIOUS
<1>2. n \in Nat /\ Len(f) = n + 1 /\ DOMAIN f = 1 .. n + 1 /\ DOMAIN e = 1 .. n
      /\ (\A i \in 1 .. n : f[i] = e[i]) /\ f[n + 1] = v
  BY <1>1 DEF Grows
<1>3. ASSUME NEW i \in 1 .. n + 1
      PROVE  EventOK(p, f[i]) /\ (f[i].type = "workflow.retryStarted" => f[i].source \in 0 .. i - 1)
  <2>1. CASE i \in 1 .. n
    BY <1>2, <2>1 DEF TrailOK
  <2>2. CASE i = n + 1
    BY <1>1, <1>2, <2>2
  <2> QED
    BY <1>2, <2>1, <2>2
<1> QED
  BY <1>2, <1>3 DEF TrailOK

\* An event that is no start leaves the last attempt the one it was.
LEMMA StartsGrow ==
    ASSUME NEW p, NEW e, NEW f, NEW v, Grows(e, f, v), TrailOK(p, e), v.type # "step.started"
    PROVE  /\ Starts(f) = Starts(e) /\ LastStart(f) = LastStart(e) /\ Count(f) = Count(e)
           /\ LastStart(e) # 0 => Step(f) = Step(e)
<1>1. PICK n : n = Len(e)
  OBVIOUS
<1>2. n \in Nat /\ Len(f) = n + 1 /\ DOMAIN f = 1 .. n + 1 /\ DOMAIN e = 1 .. n
      /\ (\A i \in 1 .. n : f[i] = e[i]) /\ f[n + 1] = v
  BY <1>1 DEF Grows
<1>3. Starts(f) = Starts(e)
  BY <1>2 DEF Starts
<1>4. LastStart(f) = LastStart(e) /\ Count(f) = Count(e)
  BY <1>3 DEF LastStart, Count
<1>5. PICK L : L = LastStart(e)
  OBVIOUS
<1>6. L # 0 => L \in 1 .. n
  BY <1>1, <1>5, LastStartIs
<1> QED
  BY <1>2, <1>3, <1>4, <1>5, <1>6 DEF Step

\* What is recorded of the last attempt grows by the new event alone.
LEMMA RecentGrows ==
    ASSUME NEW p, NEW e, NEW f, NEW v, Grows(e, f, v), TrailOK(p, e), v.type # "step.started", NEW T
    PROVE  Recent(f, T) = Recent(e, T) \cup {i \in {Len(f)} : v.type \in T}
<1>1. PICK n, L : n = Len(e) /\ L = LastStart(e)
  OBVIOUS
<1>2. n \in Nat /\ Len(f) = n + 1 /\ DOMAIN f = 1 .. n + 1 /\ DOMAIN e = 1 .. n
      /\ (\A i \in 1 .. n : f[i] = e[i]) /\ f[n + 1] = v
  BY <1>1 DEF Grows
<1>3. LastStart(f) = L /\ L \in 0 .. n
  BY <1>1, StartsGrow, LastStartIs
<1>4. \A i : i \in Recent(f, T) <=> i \in 1 .. n + 1 /\ L < i /\ f[i].type \in T
  BY <1>2, <1>3 DEF Recent
<1>5. \A i : i \in Recent(e, T) <=> i \in 1 .. n /\ L < i /\ e[i].type \in T
  BY <1>1, <1>2 DEF Recent
<1>6. L < n + 1
  BY <1>2, <1>3
<1>7. \A i : i \in 1 .. n + 1 <=> i \in 1 .. n \/ i = n + 1
  BY <1>2
<1> QED
  BY <1>2, <1>4, <1>5, <1>6, <1>7

\* What is recent stays so, in place, and only the new event comes to it.
LEMMA AttemptGrows ==
    ASSUME NEW p, NEW e, NEW f, NEW v, Grows(e, f, v), TrailOK(p, e), v.type # "step.started"
    PROVE  /\ Outcomes(f) = Outcomes(e) \cup {i \in {Len(f)} : v.type = "step.completed"}
           /\ Failures(f) = Failures(e) \cup {i \in {Len(f)} : v.type = "step.failed"}
           /\ Given(f) = Given(e) \cup {i \in {Len(f)} : v.type = "wait.satisfied"}
           /\ Asked(f) = Asked(e) \cup {i \in {Len(f)} : v.type = "wait.started"}
           /\ Regained(f) = Regained(e) \cup {i \in {Len(f)} : v.type = "workflow.retryStarted"}
           /\ Open(f) \subseteq Open(e) \cup {i \in {Len(f)} : v.type = "wait.started"}
           /\ v.type \notin {"wait.started", "wait.satisfied", "wait.failed"} => Open(f) = Open(e)
<1>1. PICK n, L : n = Len(e) /\ L = LastStart(e)
  OBVIOUS
<1>2. n \in Nat /\ Len(f) = n + 1 /\ DOMAIN f = 1 .. n + 1 /\ DOMAIN e = 1 .. n
      /\ (\A i \in 1 .. n : f[i] = e[i]) /\ f[n + 1] = v
  BY <1>1 DEF Grows
<1>3. ASSUME NEW T PROVE Recent(f, {T}) = Recent(e, {T}) \cup {i \in {Len(f)} : v.type = T}
  <2>1. Recent(f, {T}) = Recent(e, {T}) \cup {i \in {Len(f)} : v.type \in {T}}
    BY RecentGrows
  <2> QED
    BY <2>1
<1>4. Asked(f) = Asked(e) \cup {i \in {Len(f)} : v.type = "wait.started"}
  BY <1>3 DEF Asked
<1>5. \A i \in Asked(e) : i \in 1 .. n
  BY <1>2 DEF Asked, Recent
<1>6. ASSUME NEW i \in Open(f) PROVE i \in Open(e) \cup {k \in {Len(f)} : v.type = "wait.started"}
  <2>1. i \in Asked(f) /\ ~\E j \in DOMAIN f : Resolves(f, j, i)
    BY DEF Open
  <2>2. CASE i \in Asked(e)
    <3>1. ASSUME NEW j \in DOMAIN e, Resolves(e, j, i) PROVE FALSE
      <4>1. j \in 1 .. n /\ i \in 1 .. n /\ j \in DOMAIN f
        BY <1>2, <1>5, <2>2
      <4>2. Resolves(f, j, i)
        BY <1>2, <3>1, <4>1 DEF Resolves
      <4> QED
        BY <2>1, <4>1, <4>2
    <3> QED
      BY <2>2, <3>1 DEF Open
  <2> QED
    BY <1>4, <2>1, <2>2
<1>7. ASSUME v.type \notin {"wait.started", "wait.satisfied", "wait.failed"}, NEW i \in Open(e) PROVE i \in Open(f)
  <2>1. i \in Asked(e) /\ ~\E j \in DOMAIN e : Resolves(e, j, i)
    BY DEF Open
  <2>2. ASSUME NEW j \in DOMAIN f, Resolves(f, j, i) PROVE FALSE
    <3>1. j # n + 1
      BY <1>2, <1>7, <2>2 DEF Resolves
    <3>2. j \in 1 .. n /\ i \in 1 .. n
      BY <1>2, <1>5, <2>1, <3>1
    <3>3. Resolves(e, j, i)
      BY <1>2, <2>2, <3>2 DEF Resolves
    <3> QED
      BY <1>2, <2>1, <3>2, <3>3
  <2> QED
    BY <1>4, <2>1, <2>2 DEF Open
<1>8. v.type \notin {"wait.started", "wait.satisfied", "wait.failed"} => Open(f) = Open(e)
  <2>1. ASSUME v.type \notin {"wait.started", "wait.satisfied", "wait.failed"} PROVE Open(f) = Open(e)
    <3>1. \A i \in Open(f) : i \in Open(e)
      BY <1>6, <2>1
    <3>2. \A i \in Open(e) : i \in Open(f)
      BY <1>7, <2>1
    <3> QED
      BY <3>1, <3>2
  <2> QED
    BY <2>1
<1> QED
  BY <1>3, <1>4, <1>6, <1>8 DEF Outcomes, Failures, Given, Regained

\* An event of one kind leaves what the last attempt recorded of the others.
LEMMA AttemptStays ==
    ASSUME NEW p, NEW e, NEW f, NEW v, Grows(e, f, v), TrailOK(p, e), v.type # "step.started"
    PROVE  /\ v.type # "step.completed" => Outcomes(f) = Outcomes(e)
           /\ v.type # "step.failed" => Failures(f) = Failures(e)
           /\ v.type # "wait.satisfied" => Given(f) = Given(e)
           /\ v.type # "wait.started" => Asked(f) = Asked(e) /\ Open(f) \subseteq Open(e)
           /\ v.type # "workflow.retryStarted" => Regained(f) = Regained(e)
           /\ v.type \notin Reopening => Recent(f, Reopening) = Recent(e, Reopening)
<1>1. ASSUME NEW T, v.type \notin T PROVE Recent(f, T) = Recent(e, T)
  <2>1. Recent(f, T) = Recent(e, T) \cup {i \in {Len(f)} : v.type \in T}
    BY RecentGrows
  <2>2. {i \in {Len(f)} : v.type \in T} = {}
    BY <1>1
  <2> QED
    BY <2>1, <2>2
<1>2. ASSUME NEW t, v.type # t PROVE Recent(f, {t}) = Recent(e, {t})
  <2>1. v.type \notin {t}
    BY <1>2
  <2> QED
    BY <1>1, <2>1
<1>3. ASSUME v.type # "wait.started" PROVE Open(f) \subseteq Open(e)
  <2>1. Open(f) \subseteq Open(e) \cup {i \in {Len(f)} : v.type = "wait.started"}
    BY AttemptGrows
  <2>2. {i \in {Len(f)} : v.type = "wait.started"} = {}
    BY <1>3
  <2> QED
    BY <2>1, <2>2
<1> QED
  BY <1>1, <1>2, <1>3 DEF Outcomes, Failures, Given, Asked, Regained

\* What once excused a reopening still does.
LEMMA ThenGrows ==
    ASSUME NEW e, NEW f, NEW v, Grows(e, f, v), NEW first, NEW types, Then(e, first, types)
    PROVE  Then(f, first, types)
<1>1. PICK n : n = Len(e)
  OBVIOUS
<1>2. n \in Nat /\ DOMAIN f = 1 .. n + 1 /\ DOMAIN e = 1 .. n /\ (\A i \in 1 .. n : f[i] = e[i])
  BY <1>1 DEF Grows
<1>3. PICK i \in DOMAIN e, j \in DOMAIN e :
        i < j /\ SameAttempt(e, i, j) /\ e[i].type = first /\ e[j].type \in types
  BY DEF Then
<1>4. i \in 1 .. n /\ j \in 1 .. n /\ f[i] = e[i] /\ f[j] = e[j] /\ i \in DOMAIN f /\ j \in DOMAIN f
  BY <1>2
<1>5. \A l \in i .. j : l \in 1 .. n /\ f[l] = e[l]
  BY <1>2, <1>4
<1>6. SameAttempt(f, i, j)
  BY <1>3, <1>4, <1>5 DEF SameAttempt
<1> QED
  BY <1>3, <1>4, <1>6 DEF Then

Straight(p, e) == /\ ~ErrorContinued(p, e) /\ ~CancelledThenCompleted(e)
                  /\ ~OutputThen(e, {"step.attemptFailed", "step.cancelled"})
Plain(p, e) == Straight(p, e) /\ ~OutputThen(e, {"step.failed"})

\* A trail without an excuse had none before it grew.
LEMMA StraightShrinks ==
    ASSUME NEW p, NEW e, NEW f, NEW v, Grows(e, f, v)
    PROVE  (Straight(p, f) => Straight(p, e)) /\ (Plain(p, f) => Plain(p, e))
<1>1. ErrorContinued(p, e) => ErrorContinued(p, f)
  BY DEF ErrorContinued, Grows
<1>2. CancelledThenCompleted(e) => CancelledThenCompleted(f)
  BY ThenGrows DEF CancelledThenCompleted
<1>3. ASSUME NEW types PROVE OutputThen(e, types) => OutputThen(f, types)
  BY ThenGrows DEF OutputThen
<1> QED
  BY <1>1, <1>2, <1>3 DEF Straight, Plain

OneAnswer(e) == ~TwiceSatisfied(e, Given(e))

\* a wait without an answer is the last thing the attempt came to
OpenLast(e) == \A w \in Open(e) : Failures(e) = {} /\ \A i \in Given(e) \cup Outcomes(e) : i < w
OpenAlike(e) == \A w, x \in Open(e) : e[w].wait = e[x].wait

\* waits are answered in the order of the phases, those after the prompt once it has an output
Answers(p, e, w, k) ==
    \A i, j \in DOMAIN Phases(p, Step(e)) :
        i < j /\ Phases(p, Step(e))[i] \in WaitId /\ Phases(p, Step(e))[j] = w =>
        \E a \in Given(e) : a < k /\ e[a].wait = Phases(p, Step(e))[i]
Outputted(p, e, w, k) ==
    \A i, j \in DOMAIN Phases(p, Step(e)) :
        i < j /\ Phases(p, Step(e))[i] = "prompt" /\ Phases(p, Step(e))[j] = w => \E o \in Outcomes(e) : o < k
GivenInOrder(p, e) == \A w \in Asked(e) : Answers(p, e, e[w].wait, w)
GivenAfterOutput(p, e) == \A k \in Given(e) : Outputted(p, e, e[k].wait, k)
GivenAsked(e) == Asked(e) = {} => Given(e) = {}
AskedFirst(e) == \A w \in Asked(e), k \in Given(e) : e[k].wait = e[w].wait => w < k

\* a step that started or failed is followed by a start or an output of it, but for the last attempt
Followed(e, i) ==
    \E k \in DOMAIN e : i < k /\ e[k].step = e[i].step /\ e[k].type \in {"step.started", "step.completed"}
AttemptsEnd(e) ==
    \A i \in DOMAIN e : i < LastStart(e) /\ e[i].type \in {"step.started", "step.failed"} => Followed(e, i)
RetriesAreRecent(e) ==
    \A i \in Regained(e) : e[i].source # 0 =>
        LastStart(e) # 0 /\ e[i].source >= LastStart(e) /\ e[e[i].source].step = Step(e)
StartedUpTo(e, i) == {j \in Starts(e) : j < i}
WaitStarted(e, i) ==
    /\ \E j \in StartedUpTo(e, i) : e[j].step = e[i].step
    /\ e[i].index \in 1 .. Cardinality(StartedUpTo(e, i))
WaitsStarted(e) == \A i \in DOMAIN e : e[i].type = "wait.started" => WaitStarted(e, i)

Attempt(p, e) ==
    /\ OwnEvents(e) /\ FailureLast(e) /\ OneOutcome(e) /\ OneAnswer(e) /\ OpenLast(e) /\ OpenAlike(e)
    /\ GivenInOrder(p, e) /\ GivenAfterOutput(p, e) /\ GivenAsked(e) /\ AskedFirst(e)
    /\ AttemptsEnd(e) /\ RetriesAreRecent(e) /\ WaitsStarted(e)

\* An event that fits the last attempt.
Fits(p, e, f, v) ==
    /\ v.type \in DriverEvent => LastStart(e) # 0 /\ v.step = Step(e)
    /\ v.type \in {"wait.started", "wait.satisfied", "wait.failed"} => v.index = Count(e)
    /\ v.type = "step.completed" => Failures(e) = {} /\ Outcomes(e) = {}
    /\ v.type = "step.failed" => Regained(e) = {}
    /\ v.type \in {"step.completed", "step.failed", "wait.satisfied"} => Open(f) = {}
    /\ v.type = "wait.satisfied" =>
        /\ \A k \in Given(e) : e[k].wait # v.wait
        /\ Asked(e) # {} /\ Outputted(p, e, v.wait, Len(f))
    /\ v.type = "wait.started" =>
        /\ Failures(e) = {} /\ (\A w \in Open(e) : e[w].wait = v.wait)
        /\ (\A k \in Given(e) : e[k].wait # v.wait) /\ Answers(p, e, v.wait, Len(f))
    /\ v.type = "workflow.retryStarted" /\ v.source # 0 =>
        LastStart(e) # 0 /\ v.source \in LastStart(e) .. Len(e) /\ e[v.source].step = Step(e)

\* The starts of a trail are finitely many.
LEMMA StartsCounted ==
    ASSUME NEW p, NEW e, TrailOK(p, e), NEW S \in SUBSET Starts(e)
    PROVE  IsFiniteSet(S) /\ Cardinality(S) \in Nat /\ (S # {} => Cardinality(S) >= 1)
<1>1. IsFiniteSet(1 .. Len(e))
  BY FS_Interval DEF TrailOK
<1>2. S \subseteq 1 .. Len(e)
  BY LastStartIs
<1>3. IsFiniteSet(S)
  BY <1>1, <1>2, FS_Subset
<1>4. Cardinality(S) \in Nat /\ (Cardinality(S) = 0 <=> S = {})
  BY <1>3, FS_CardinalityType, FS_EmptySet
<1> QED
  BY <1>3, <1>4

\* An attempt that was followed by another start or output still is.
LEMMA FollowedGrows ==
    ASSUME NEW e, NEW f, NEW v, Grows(e, f, v), NEW i \in DOMAIN e, Followed(e, i)
    PROVE  Followed(f, i)
<1>1. PICK k \in DOMAIN e : i < k /\ e[k].step = e[i].step /\ e[k].type \in {"step.started", "step.completed"}
  BY DEF Followed
<1>2. k \in DOMAIN f /\ f[k] = e[k] /\ f[i] = e[i]
  BY DEF Grows
<1> QED
  BY <1>1, <1>2 DEF Followed

\* The trail records one attempt after the other when it grows by an event that fits.
LEMMA AttemptFits ==
    ASSUME NEW p, NEW e, NEW f, NEW v, Grows(e, f, v), TrailOK(p, e), TrailOK(p, f),
           v.type # "step.started", Attempt(p, e), Fits(p, e, f, v)
    PROVE  Attempt(p, f)
<1>1. PICK n, L, s : n = Len(e) /\ L = LastStart(e) /\ s = Step(e)
  OBVIOUS
<1>2. n \in Nat /\ Len(f) = n + 1 /\ DOMAIN f = 1 .. n + 1 /\ DOMAIN e = 1 .. n
      /\ (\A i \in 1 .. n : f[i] = e[i]) /\ f[n + 1] = v /\ L \in 0 .. n
  BY <1>1, LastStartIs DEF Grows
<1>3. Starts(f) = Starts(e) /\ LastStart(f) = L /\ Count(f) = Count(e) /\ (L # 0 => Step(f) = s)
  BY <1>1, StartsGrow
<1>4. /\ Outcomes(f) = Outcomes(e) \cup {i \in {n + 1} : v.type = "step.completed"}
      /\ Failures(f) = Failures(e) \cup {i \in {n + 1} : v.type = "step.failed"}
      /\ Given(f) = Given(e) \cup {i \in {n + 1} : v.type = "wait.satisfied"}
      /\ Asked(f) = Asked(e) \cup {i \in {n + 1} : v.type = "wait.started"}
      /\ Regained(f) = Regained(e) \cup {i \in {n + 1} : v.type = "workflow.retryStarted"}
      /\ Open(f) \subseteq Open(e) \cup {i \in {n + 1} : v.type = "wait.started"}
  BY <1>2, AttemptGrows
<1>5. Outcomes(e) \cup Failures(e) \cup Given(e) \cup Asked(e) \cup Regained(e) \cup Open(e) \subseteq 1 .. n
  BY <1>2 DEF Outcomes, Failures, Given, Asked, Regained, Open, Recent
<1>6. \A i \in 1 .. n : i # n + 1 /\ i < n + 1
  BY <1>2
<1>61. L # 0 \/ (Outcomes(e) = {} /\ Failures(e) = {} /\ Given(e) = {} /\ Asked(e) = {})
  <2>1. Outcomes(e) \cup Failures(e) \cup Given(e) \cup Asked(e) \subseteq Recent(e, DriverEvent)
    BY DEF Outcomes, Failures, Given, Asked, Recent, DriverEvent
  <2> QED
    BY <1>1, <2>1 DEF Attempt, OwnEvents
<1>7. OwnEvents(f)
  <2>1. Recent(f, DriverEvent) = Recent(e, DriverEvent) \cup {i \in {n + 1} : v.type \in DriverEvent}
    BY <1>2, RecentGrows
  <2>2. Recent(f, {"wait.started", "wait.satisfied", "wait.failed"})
        = Recent(e, {"wait.started", "wait.satisfied", "wait.failed"})
          \cup {i \in {n + 1} : v.type \in {"wait.started", "wait.satisfied", "wait.failed"}}
    BY <1>2, RecentGrows
  <2>3. ASSUME NEW i \in Recent(f, DriverEvent) PROVE L # 0 /\ f[i].step = s
    <3>1. CASE i \in Recent(e, DriverEvent)
      <4>1. i \in 1 .. n
        BY <1>2, <3>1 DEF Recent
      <4> QED
        BY <1>1, <1>2, <3>1, <4>1 DEF Attempt, OwnEvents
    <3>2. CASE i = n + 1 /\ v.type \in DriverEvent
      BY <1>1, <1>2, <3>2 DEF Fits
    <3> QED
      BY <2>1, <3>1, <3>2
  <2>4. ASSUME NEW i \in Recent(f, {"wait.started", "wait.satisfied", "wait.failed"}) PROVE f[i].index = Count(e)
    <3>1. CASE i \in Recent(e, {"wait.started", "wait.satisfied", "wait.failed"})
      <4>1. i \in 1 .. n
        BY <1>2, <3>1 DEF Recent
      <4> QED
        BY <1>1, <1>2, <3>1, <4>1 DEF Attempt, OwnEvents
    <3>2. CASE i = n + 1 /\ v.type \in {"wait.started", "wait.satisfied", "wait.failed"}
      BY <1>1, <1>2, <3>2 DEF Fits
    <3> QED
      BY <2>2, <3>1, <3>2
  <2> QED
    BY <1>3, <2>3, <2>4 DEF OwnEvents
<1>8. FailureLast(f)
  <2>1. ASSUME NEW i \in Failures(f), NEW j \in Outcomes(f) PROVE j < i
    BY <1>4, <1>5, <1>6, <2>1 DEF Attempt, FailureLast, Fits
  <2>2. ASSUME NEW i \in Failures(f), NEW j \in Regained(f) PROVE i < j
    BY <1>4, <1>5, <1>6, <2>2 DEF Attempt, FailureLast, Fits
  <2> QED
    BY <2>1, <2>2 DEF FailureLast
<1>9. OneOutcome(f)
  BY <1>4 DEF Attempt, OneOutcome, Fits
<1>10. OneAnswer(f)
  <2>1. ASSUME NEW i \in Given(f), NEW j \in Given(f), i # j, f[i].wait = f[j].wait PROVE FALSE
    <3>1. CASE i \in Given(e) /\ j \in Given(e)
      <4>1. f[i] = e[i] /\ f[j] = e[j]
        BY <1>2, <1>5, <3>1
      <4> QED
        BY <2>1, <3>1, <4>1 DEF Attempt, OneAnswer, TwiceSatisfied
    <3>2. CASE i \in Given(e) /\ j = n + 1 /\ v.type = "wait.satisfied"
      <4>1. f[i] = e[i]
        BY <1>2, <1>5, <3>2
      <4> QED
        BY <1>2, <2>1, <3>2, <4>1 DEF Fits
    <3>3. CASE j \in Given(e) /\ i = n + 1 /\ v.type = "wait.satisfied"
      <4>1. f[j] = e[j]
        BY <1>2, <1>5, <3>3
      <4> QED
        BY <1>2, <2>1, <3>3, <4>1 DEF Fits
    <3> QED
      BY <1>4, <2>1, <3>1, <3>2, <3>3
  <2> QED
    BY <2>1 DEF OneAnswer, TwiceSatisfied
<1>11. OpenLast(f)
  <2>1. ASSUME NEW w \in Open(f) PROVE v.type \notin {"step.completed", "step.failed", "wait.satisfied"}
    BY DEF Fits
  <2>2. ASSUME NEW w \in Open(f) PROVE Failures(f) = {}
    <3>1. Failures(e) = {}
      BY <1>4 DEF Attempt, OpenLast, Fits
    <3> QED
      BY <1>4, <2>1, <3>1
  <2>3. ASSUME NEW w \in Open(f), NEW i \in Given(f) \cup Outcomes(f) PROVE i < w
    <3>1. i \in Given(e) \cup Outcomes(e)
      BY <1>4, <2>1
    <3>2. CASE w \in Open(e)
      BY <3>1, <3>2 DEF Attempt, OpenLast
    <3>3. CASE w = n + 1
      BY <1>5, <1>6, <3>1, <3>3
    <3> QED
      BY <1>4, <3>2, <3>3
  <2> QED
    BY <2>2, <2>3 DEF OpenLast
<1>12. OpenAlike(f)
  <2>1. ASSUME NEW w \in Open(f)
        PROVE  \/ v.type # "wait.started" /\ w \in Open(e) /\ f[w] = e[w]
               \/ v.type = "wait.started" /\ f[w].wait = v.wait
    <3>1. CASE w \in Open(e)
      <4>1. f[w] = e[w]
        BY <1>2, <1>5, <3>1
      <4>2. v.type = "wait.started" => \A x \in Open(e) : e[x].wait = v.wait
        BY DEF Fits
      <4> QED
        BY <3>1, <4>1, <4>2
    <3>2. CASE w = n + 1 /\ v.type = "wait.started"
      BY <1>2, <3>2
    <3> QED
      BY <1>4, <3>1, <3>2
  <2> QED
    BY <2>1 DEF OpenAlike, Attempt
<1>13. ASSUME NEW w, NEW k, Answers(p, e, w, k), L # 0 PROVE Answers(p, f, w, k)
  <2>1. ASSUME NEW a \in Given(e) PROVE a \in Given(f) /\ f[a] = e[a]
    BY <1>2, <1>4, <1>5
  <2>2. Step(f) = Step(e)
    BY <1>1, <1>3, <1>13
  <2> QED
    BY <1>13, <2>1, <2>2 DEF Answers
<1>14. GivenInOrder(p, f)
  <2>1. ASSUME NEW w \in Asked(f) PROVE Answers(p, f, f[w].wait, w)
    <3>1. CASE w \in Asked(e)
      <4>1. f[w] = e[w] /\ L # 0
        BY <1>2, <1>5, <1>61, <3>1
      <4>2. Answers(p, e, e[w].wait, w)
        BY <3>1 DEF Attempt, GivenInOrder
      <4> QED
        BY <1>13, <4>1, <4>2
    <3>2. CASE w = n + 1 /\ v.type = "wait.started"
      <4>1. Answers(p, e, v.wait, n + 1) /\ L # 0
        BY <1>1, <1>2, <3>2 DEF Fits, DriverEvent
      <4> QED
        BY <1>2, <1>13, <3>2, <4>1
    <3> QED
      BY <1>4, <3>1, <3>2
  <2> QED
    BY <2>1 DEF GivenInOrder
<1>15. ASSUME NEW w, NEW k, Outputted(p, e, w, k), L # 0 PROVE Outputted(p, f, w, k)
  <2>1. Step(f) = Step(e) /\ \A o \in Outcomes(e) : o \in Outcomes(f)
    BY <1>1, <1>3, <1>4, <1>15
  <2> QED
    BY <1>15, <2>1 DEF Outputted
<1>16. GivenAfterOutput(p, f)
  <2>1. ASSUME NEW k \in Given(f) PROVE Outputted(p, f, f[k].wait, k)
    <3>1. CASE k \in Given(e)
      <4>1. f[k] = e[k] /\ L # 0
        BY <1>2, <1>5, <1>61, <3>1
      <4>2. Outputted(p, e, e[k].wait, k)
        BY <3>1 DEF Attempt, GivenAfterOutput
      <4> QED
        BY <1>15, <4>1, <4>2
    <3>2. CASE k = n + 1 /\ v.type = "wait.satisfied"
      <4>1. Outputted(p, e, v.wait, n + 1) /\ L # 0
        BY <1>1, <1>2, <3>2 DEF Fits, DriverEvent
      <4> QED
        BY <1>2, <1>15, <3>2, <4>1
    <3> QED
      BY <1>4, <3>1, <3>2
  <2> QED
    BY <2>1 DEF GivenAfterOutput
<1>17. GivenAsked(f)
  BY <1>4 DEF Attempt, GivenAsked, Fits
<1>171. AskedFirst(f)
  <2>1. ASSUME NEW w \in Asked(f), NEW k \in Given(f), f[k].wait = f[w].wait PROVE w < k
    <3>1. CASE w \in Asked(e) /\ k \in Given(e)
      <4>1. f[k] = e[k] /\ f[w] = e[w]
        BY <1>2, <1>5, <3>1
      <4> QED
        BY <2>1, <3>1, <4>1 DEF Attempt, AskedFirst
    <3>2. CASE w \in Asked(e) /\ k = n + 1
      BY <1>5, <1>6, <3>2
    <3>3. CASE w = n + 1 /\ v.type = "wait.started" /\ k \in Given(e)
      <4>1. f[k] = e[k] /\ f[w] = v
        BY <1>2, <1>5, <3>3
      <4>2. e[k].wait # v.wait
        BY <3>3 DEF Fits
      <4> QED
        BY <2>1, <4>1, <4>2
    <3> QED
      BY <1>4, <2>1, <3>1, <3>2, <3>3
  <2> QED
    BY <2>1 DEF AskedFirst
<1>18. AttemptsEnd(f)
  <2>1. ASSUME NEW i \in DOMAIN f, i < L, f[i].type \in {"step.started", "step.failed"} PROVE Followed(f, i)
    <3>1. i \in 1 .. n
      BY <1>2, <2>1
    <3>2. Followed(e, i)
      BY <1>1, <1>2, <2>1, <3>1 DEF Attempt, AttemptsEnd
    <3> QED
      BY <1>2, <3>1, <3>2, FollowedGrows
  <2> QED
    BY <1>3, <2>1 DEF AttemptsEnd
<1>19. RetriesAreRecent(f)
  <2>1. ASSUME NEW i \in Regained(f), f[i].source # 0
        PROVE  L # 0 /\ f[i].source >= L /\ f[f[i].source].step = s
    <3>1. CASE i \in Regained(e)
      <4>1. f[i] = e[i] /\ i \in 1 .. n /\ e[i].type = "workflow.retryStarted"
        BY <1>2, <1>5, <3>1 DEF Regained, Recent
      <4>2. e[i].source \in 0 .. i - 1
        BY <1>2, <4>1 DEF TrailOK
      <4>3. e[i].source \in 1 .. n
        BY <1>2, <2>1, <4>1, <4>2
      <4>4. L # 0 /\ e[i].source >= L /\ e[e[i].source].step = s
        BY <1>1, <2>1, <3>1, <4>1 DEF Attempt, RetriesAreRecent
      <4> QED
        BY <1>2, <4>1, <4>3, <4>4
    <3>2. CASE i = n + 1 /\ v.type = "workflow.retryStarted"
      <4>1. v.source # 0 /\ f[i].source = v.source
        BY <1>2, <2>1, <3>2
      <4>2. L # 0 /\ v.source \in L .. n /\ e[v.source].step = s
        BY <1>1, <3>2, <4>1 DEF Fits
      <4>3. f[v.source] = e[v.source] /\ v.source >= L
        BY <1>2, <4>2
      <4> QED
        BY <4>1, <4>2, <4>3
    <3> QED
      BY <1>4, <3>1, <3>2
  <2> QED
    BY <1>3, <2>1 DEF RetriesAreRecent
<1>20. WaitsStarted(f)
  <2>1. \A i : StartedUpTo(f, i) = StartedUpTo(e, i)
    BY <1>3 DEF StartedUpTo
  <2>2. \A j \in Starts(e) : j \in 1 .. n
    BY <1>2 DEF Starts
  <2>3. ASSUME NEW i \in DOMAIN f, f[i].type = "wait.started" PROVE WaitStarted(f, i)
    <3>1. CASE i \in 1 .. n
      <4>1. WaitStarted(e, i)
        BY <1>2, <2>3, <3>1 DEF Attempt, WaitsStarted
      <4>2. \A j \in StartedUpTo(e, i) : f[j] = e[j]
        BY <1>2, <2>2 DEF StartedUpTo
      <4> QED
        BY <1>2, <2>1, <3>1, <4>1, <4>2 DEF WaitStarted
    <3>2. CASE i = n + 1
      <4>1. L # 0 /\ v.step = s /\ v.index = Count(e)
        BY <1>1, <1>2, <2>3, <3>2 DEF Fits, DriverEvent
      <4>2. L \in Starts(e) /\ f[L] = e[L]
        BY <1>1, <1>2, <4>1, LastStartIs
      <4>3. StartedUpTo(e, n + 1) = Starts(e)
        BY <1>2, <2>2 DEF StartedUpTo
      <4>4. Cardinality(Starts(e)) \in Nat /\ Cardinality(Starts(e)) >= 1
        BY <4>2, StartsCounted
      <4>5. e[L].step = s
        BY <1>1 DEF Step
      <4> QED
        BY <1>2, <2>1, <3>2, <4>1, <4>2, <4>3, <4>4, <4>5 DEF WaitStarted, Count
    <3> QED
      BY <1>2, <2>3, <3>1, <3>2
  <2> QED
    BY <2>3 DEF WaitsStarted
<1> QED
  BY <1>7, <1>8, <1>9, <1>10, <1>11, <1>12, <1>14, <1>16, <1>17, <1>171, <1>18, <1>19, <1>20 DEF Attempt

\* The start of a step opens an attempt of which nothing is recorded.
LEMMA StartOpens ==
    ASSUME NEW p, NEW e, NEW f, NEW v, Grows(e, f, v), TrailOK(p, e), v.type = "step.started"
    PROVE  /\ Starts(f) = Starts(e) \cup {Len(f)} /\ LastStart(f) = Len(f) /\ Count(f) = Count(e) + 1
           /\ Step(f) = v.step
           /\ \A T : Recent(f, T) = {}
           /\ Outcomes(f) = {} /\ Failures(f) = {} /\ Given(f) = {} /\ Asked(f) = {} /\ Regained(f) = {}
           /\ Open(f) = {}
<1>1. PICK n : n = Len(e)
  OBVIOUS
<1>2. n \in Nat /\ Len(f) = n + 1 /\ DOMAIN f = 1 .. n + 1 /\ DOMAIN e = 1 .. n
      /\ (\A i \in 1 .. n : f[i] = e[i]) /\ f[n + 1] = v
  BY <1>1 DEF Grows
<1>3. Starts(f) = Starts(e) \cup {n + 1} /\ n + 1 \notin Starts(e)
  BY <1>2 DEF Starts
<1>4. LastStart(f) = n + 1
  <2>1. PICK m, S : m = n + 1 /\ S = Starts(f)
    OBVIOUS
  <2>2. m \in Nat /\ S \in SUBSET (1 .. m) /\ m \in S /\ \A j \in S : j <= m
    BY <1>2, <1>3, <2>1 DEF Starts
  <2>3. Trail!Latest(S) = m
    BY <2>2, LatestIs
  <2> QED
    BY <2>1, <2>3 DEF LastStart
<1>5. Count(f) = Count(e) + 1
  <2>1. IsFiniteSet(Starts(e))
    BY StartsCounted
  <2> QED
    BY <1>3, <2>1, FS_AddElement DEF Count
<1>6. ASSUME NEW T PROVE Recent(f, T) = {}
  BY <1>2, <1>4 DEF Recent
<1> QED
  BY <1>2, <1>3, <1>4, <1>5, <1>6 DEF Step, Outcomes, Failures, Given, Asked, Regained, Open

\* The same when a step starts, after an output if it is another step.
LEMMA AttemptStarts ==
    ASSUME NEW p, NEW e, NEW f, NEW v, Grows(e, f, v), TrailOK(p, e), v.type = "step.started", Attempt(p, e),
           LastStart(e) # 0 /\ v.step # Step(e) => Outcomes(e) # {} /\ Failures(e) = {}
    PROVE  Attempt(p, f)
<1>1. PICK n, L : n = Len(e) /\ L = LastStart(e)
  OBVIOUS
<1>2. n \in Nat /\ Len(f) = n + 1 /\ DOMAIN f = 1 .. n + 1 /\ DOMAIN e = 1 .. n
      /\ (\A i \in 1 .. n : f[i] = e[i]) /\ f[n + 1] = v /\ L \in 0 .. n
  BY <1>1, LastStartIs DEF Grows
<1>3. Starts(f) = Starts(e) \cup {n + 1} /\ LastStart(f) = n + 1
  BY <1>2, StartOpens
<1>4. /\ \A T : Recent(f, T) = {}
      /\ Outcomes(f) = {} /\ Failures(f) = {} /\ Given(f) = {} /\ Asked(f) = {} /\ Regained(f) = {} /\ Open(f) = {}
  BY StartOpens
<1>5. OwnEvents(f) /\ FailureLast(f) /\ OneOutcome(f) /\ OpenLast(f) /\ OpenAlike(f) /\ GivenAsked(f)
      /\ AskedFirst(f) /\ RetriesAreRecent(f)
  BY <1>4 DEF OwnEvents, FailureLast, OneOutcome, OpenLast, OpenAlike, GivenAsked, AskedFirst, RetriesAreRecent
<1>6. OneAnswer(f) /\ GivenInOrder(p, f) /\ GivenAfterOutput(p, f)
  BY <1>4 DEF OneAnswer, TwiceSatisfied, GivenInOrder, GivenAfterOutput
<1>7. AttemptsEnd(f)
  <2>1. ASSUME NEW i \in 1 .. n, e[i].type \in {"step.started", "step.failed"} PROVE Followed(f, i)
    <3>1. CASE i < L
      <4>1. Followed(e, i)
        BY <1>1, <1>2, <2>1, <3>1 DEF Attempt, AttemptsEnd
      <4> QED
        BY <1>2, <4>1, FollowedGrows
    <3>2. CASE L # 0 /\ v.step = Step(e) /\ L <= i
      <4>1. e[i].step = Step(e)
        <5>1. CASE i = L
          BY <1>1, <5>1 DEF Step
        <5>2. CASE i # L
          <6>1. i \notin Starts(e)
            <7>1. ~(i <= L)
              BY <1>2, <3>2, <5>2
            <7> QED
              BY <1>1, <7>1, LastStartIs
          <6>2. L < i /\ e[i].type \in DriverEvent
            BY <1>2, <2>1, <3>2, <5>2, <6>1 DEF Starts, DriverEvent
          <6>3. i \in Recent(e, DriverEvent)
            BY <1>1, <1>2, <6>2 DEF Recent
          <6> QED
            BY <6>3 DEF Attempt, OwnEvents
        <5> QED
          BY <5>1, <5>2
      <4> QED
        BY <1>2, <3>2, <4>1 DEF Followed
    <3>3. CASE L # 0 /\ v.step # Step(e) /\ L <= i
      <4>1. Failures(e) = {} /\ Outcomes(e) # {}
        BY <1>1, <3>3
      <4>2. i = L
        <5>1. i <= L \/ e[i].type = "step.failed"
          BY <1>1, <1>2, <2>1, LastStartIs DEF Starts
        <5>2. CASE e[i].type = "step.failed" /\ L # i
          BY <1>1, <1>2, <3>3, <4>1, <5>2 DEF Failures, Recent
        <5> QED
          BY <1>2, <3>3, <5>1, <5>2
      <4>3. PICK j \in Outcomes(e) : TRUE
        BY <4>1
      <4>4. j \in 1 .. n /\ L < j /\ e[j].type = "step.completed" /\ j \in Recent(e, DriverEvent)
        BY <1>1, <1>2 DEF Outcomes, Recent, DriverEvent
      <4>5. e[j].step = Step(e) /\ Step(e) = e[L].step
        BY <1>1, <4>4 DEF Attempt, OwnEvents, Step
      <4> QED
        BY <1>2, <4>2, <4>4, <4>5 DEF Followed
    <3>4. CASE L = 0
      <4>1. i \notin Starts(e)
        BY <1>1, <3>4, LastStartIs
      <4>2. i \in Recent(e, DriverEvent)
        BY <1>1, <1>2, <2>1, <3>4, <4>1 DEF Starts, Recent, DriverEvent
      <4> QED
        BY <1>1, <3>4, <4>2 DEF Attempt, OwnEvents
    <3> QED
      BY <1>2, <3>1, <3>2, <3>3, <3>4
  <2>2. ASSUME NEW i \in DOMAIN f, i < n + 1, f[i].type \in {"step.started", "step.failed"} PROVE Followed(f, i)
    <3>1. i \in 1 .. n /\ f[i] = e[i]
      BY <1>2, <2>2
    <3> QED
      BY <2>1, <2>2, <3>1
  <2> QED
    BY <1>3, <2>2 DEF AttemptsEnd
<1>8. WaitsStarted(f)
  <2>1. ASSUME NEW i \in DOMAIN f, f[i].type = "wait.started" PROVE WaitStarted(f, i)
    <3>1. i \in 1 .. n /\ i # n + 1 /\ ~(n + 1 < i)
      BY <1>2, <2>1
    <3>2. StartedUpTo(f, i) = StartedUpTo(e, i)
      BY <1>3, <3>1 DEF StartedUpTo
    <3>3. \A j \in StartedUpTo(e, i) : f[j] = e[j]
      BY <1>2 DEF StartedUpTo, Starts
    <3>4. WaitStarted(e, i)
      BY <1>2, <2>1, <3>1 DEF Attempt, WaitsStarted
    <3> QED
      BY <1>2, <3>1, <3>2, <3>3, <3>4 DEF WaitStarted
  <2> QED
    BY <2>1 DEF WaitsStarted
<1> QED
  BY <1>5, <1>6, <1>7, <1>8 DEF Attempt

\* A replay of the last attempt throws: its output was recorded before the answers
\* its do phase reads.
Throws(p, e, j) ==
    /\ \E q, w \in DOMAIN Phases(p, Step(e)) :
        q < w /\ Phases(p, Step(e))[q] = "prompt" /\ w \in Waits(p, Step(e))
    /\ DoPhase(p, Step(e), e[j].out, Outputs(e, {k \in Given(e) : k < j})) = Threw

\* The run inside its last attempt.
Prompted(p, e, at) ==
    \E i \in DOMAIN Phases(p, Step(e)) : i < at /\ Phases(p, Step(e))[i] = "prompt"
Inside(p, e, r) ==
    /\ r.index = Count(e) /\ LastStart(e) # 0 /\ Step(e) = r.node.step /\ Regained(e) = {}
    /\ Failures(e) # {} => r.pc \in {"failed", "off"}
    /\ Outcomes(e) # {} <=> Prompted(p, e, r.at)
    /\ Outcomes(e) = {} => r.value = r.node.input
    /\ \A j \in Outcomes(e) : r.value = e[j].out
    /\ r.waits = Outputs(e, Given(e))
    /\ \A w \in Open(e) : r.at \in DOMAIN Phases(p, Step(e)) /\ Phases(p, Step(e))[r.at] = e[w].wait
    /\ \A i \in Waits(p, Step(e)) : i < r.at => r.waits[Phases(p, Step(e))[i]] # 0
    /\ r.pc = "phase" /\ Recent(e, Reopening) = {} => Asked(e) = {}
Replays(p, e, r) ==
    \A j \in Outcomes(e) :
        \/ Throws(p, e, j)
        \/ /\ \A i \in Waits(p, Step(e)) : i < r.at
           /\ \A k \in Given(e) : k < j

\* The run between two attempts.
Between(e) == Open(e) # {} /\ Regained(e) = {} => Outcomes(e) = {}
Parked(e, r) == e[Len(e)].type = "wait.started" => r.pc = "off" /\ r.index # 0
Onwards(e, r) ==
    /\ LastStart(e) # 0 /\ r.node.step # Step(e) => Outcomes(e) # {} /\ Failures(e) = {}
    /\ (\E i \in DOMAIN e : e[i].type = "workflow.completed") => r.node.step = Done

\* The last step cancelled in this cycle: what started since its attempt are attempts at it.
Cancels(e) == {c \in DOMAIN e : e[c].type = "step.cancelled" /\ c >= CycleStart(e)}
StartBefore(e, c) == Trail!Latest({i \in Starts(e) : i <= c /\ e[i].step = e[c].step})
CancelHolds(p, e, r, c) ==
    /\ StartBefore(e, c) # 0
    /\ \A i \in Starts(e) : i >= StartBefore(e, c) => e[i].step = e[c].step
    /\ \A j \in DOMAIN e : StartBefore(e, c) <= j /\ j <= LastStart(e) => e[j].type # "step.completed"
    /\ \A j \in Outcomes(e) : LastStart(e) > c /\ r.index # 0 /\ Throws(p, e, j)
    /\ Waits(p, e[c].step) # {} \/ r.pc \in {"cancelled", "off"}
    /\ r.index = 0 => LastStart(e) < c
    /\ LastStart(e) > c => Waits(p, Step(e)) # {}
CancelsHold(p, e, r) == \A c \in Cancels(e) : CancelHolds(p, e, r, c)

Body(p, e, r) ==
    /\ Attempt(p, e)
    /\ r.index # 0 => Inside(p, e, r) /\ Replays(p, e, r)
    /\ r.index = 0 => Between(e)
    /\ Parked(e, r) /\ Onwards(e, r) /\ CancelsHold(p, e, r)

\* The cycle starts after the last event that opened the run again.
LEMMA CycleStartIs ==
    ASSUME NEW p, NEW e, TrailOK(p, e)
    PROVE  /\ CycleStart(e) \in 1 .. Len(e) + 1
           /\ \A i \in DOMAIN e : e[i].type \in Reopening => i < CycleStart(e)
<1>1. PICK n, S : n = Len(e) /\ S = Trail!Positions(e, Reopening)
  OBVIOUS
<1>2. n \in Nat /\ S \in SUBSET (1 .. n) /\ \A i \in DOMAIN e : e[i].type \in Reopening => i \in S
  BY <1>1 DEF TrailOK, Trail!Positions
<1>3. PICK m : m = Trail!Latest(S)
  OBVIOUS
<1>4. m \in S \cup {0} /\ \A j \in S : j <= m
  BY <1>2, <1>3, LatestOf
<1>5. CycleStart(e) = m + 1
  BY <1>1, <1>3 DEF CycleStart
<1> QED
  BY <1>1, <1>2, <1>4, <1>5

\* An event that opens the run again starts a cycle without cancels; any other stays
\* in the cycle.
LEMMA CyclesGrow ==
    ASSUME NEW p, NEW e, NEW f, NEW v, Grows(e, f, v), TrailOK(p, e)
    PROVE  /\ v.type \notin Reopening => CycleStart(f) = CycleStart(e)
           /\ v.type \in Reopening => Cancels(f) = {}
           /\ v.type \notin Reopening =>
                Cancels(f) = Cancels(e) \cup {c \in {Len(f)} : v.type = "step.cancelled"}
<1>1. PICK n : n = Len(e)
  OBVIOUS
<1>2. n \in Nat /\ Len(f) = n + 1 /\ DOMAIN f = 1 .. n + 1 /\ DOMAIN e = 1 .. n
      /\ (\A i \in 1 .. n : f[i] = e[i]) /\ f[n + 1] = v
  BY <1>1 DEF Grows
<1>3. ASSUME v.type \notin Reopening
      PROVE  CycleStart(f) = CycleStart(e)
  <2>1. Trail!Positions(f, Reopening) = Trail!Positions(e, Reopening)
    BY <1>2, <1>3 DEF Trail!Positions
  <2> QED
    BY <2>1 DEF CycleStart
<1>4. ASSUME v.type \in Reopening PROVE Cancels(f) = {}
  <2>1. PICK m, S : m = n + 1 /\ S = Trail!Positions(f, Reopening)
    OBVIOUS
  <2>2. m \in Nat /\ S \in SUBSET (1 .. m) /\ m \in S /\ \A j \in S : j <= m
    BY <1>2, <1>4, <2>1 DEF Trail!Positions
  <2>3. Trail!Latest(S) = m
    BY <2>2, LatestIs
  <2>4. CycleStart(f) = n + 2
    BY <1>2, <2>1, <2>3 DEF CycleStart
  <2> QED
    BY <1>2, <2>4 DEF Cancels
<1>5. ASSUME v.type \notin Reopening
      PROVE  Cancels(f) = Cancels(e) \cup {c \in {n + 1} : v.type = "step.cancelled"}
  <2>1. PICK m : m = CycleStart(e)
    OBVIOUS
  <2>2. m \in 1 .. n + 1 /\ CycleStart(f) = m
    BY <1>1, <1>3, <1>5, <2>1, CycleStartIs
  <2> QED
    BY <1>2, <2>1, <2>2 DEF Cancels
<1> QED
  BY <1>2, <1>3, <1>4, <1>5

\* Whether the replay of an output throws does not depend on what comes after it.
LEMMA ThrowsStays ==
    ASSUME NEW p, NEW e, NEW f, NEW v, Grows(e, f, v), TrailOK(p, e), v.type # "step.started",
           LastStart(e) # 0, NEW j \in Outcomes(e)
    PROVE  Throws(p, e, j) <=> Throws(p, f, j)
<1>1. PICK n : n = Len(e)
  OBVIOUS
<1>2. n \in Nat /\ Len(f) = n + 1 /\ DOMAIN e = 1 .. n /\ (\A i \in 1 .. n : f[i] = e[i])
  BY <1>1 DEF Grows
<1>3. Step(f) = Step(e)
  BY StartsGrow
<1>4. j \in 1 .. n /\ Given(e) \subseteq 1 .. n
  BY <1>2 DEF Outcomes, Given, Recent
<1>5. Given(f) = Given(e) \cup {i \in {n + 1} : v.type = "wait.satisfied"}
  BY <1>2, AttemptGrows
<1>6. PICK S : S = {k \in Given(e) : k < j}
  OBVIOUS
<1>7. {k \in Given(f) : k < j} = S /\ \A k \in S : e[k] = f[k]
  BY <1>2, <1>4, <1>5, <1>6
<1>8. Outputs(e, S) = Outputs(f, S)
  BY <1>7, OutputsAgree
<1> QED
  BY <1>2, <1>3, <1>4, <1>6, <1>7, <1>8 DEF Throws

\* The start a cancel is paired with is the latest of its step before it.
LEMMA StartBeforeIs ==
    ASSUME NEW p, NEW e, TrailOK(p, e), NEW c \in DOMAIN e
    PROVE  /\ StartBefore(e, c) \in 0 .. c
           /\ StartBefore(e, c) # 0 =>
                StartBefore(e, c) \in Starts(e) /\ e[StartBefore(e, c)].step = e[c].step
           /\ \A i \in Starts(e) : i <= c /\ e[i].step = e[c].step =>
                i <= StartBefore(e, c) /\ StartBefore(e, c) # 0
<1>1. PICK S : S = {i \in Starts(e) : i <= c /\ e[i].step = e[c].step}
  OBVIOUS
<1>2. S \in SUBSET (1 .. c) /\ c \in Nat
  BY <1>1, LastStartIs
<1>3. PICK m : m = Trail!Latest(S)
  OBVIOUS
<1>4. m \in S \cup {0} /\ (\A j \in S : j <= m)
  BY <1>2, <1>3, LatestOf
<1>5. StartBefore(e, c) = m
  BY <1>1, <1>3 DEF StartBefore
<1> QED
  BY <1>1, <1>2, <1>4, <1>5

\* What a cancel says of the attempts since stays, as long as an output fits it.
LEMMA CancelsKept ==
    ASSUME NEW p, NEW e, NEW f, NEW v, NEW r, NEW t, Grows(e, f, v), TrailOK(p, e), TrailOK(p, f),
           v.type \notin {"step.started"} \cup Reopening, CancelsHold(p, e, r),
           r.pc \in {"cancelled", "off"} => t.pc \in {"cancelled", "off"},
           r.index = 0 <=> t.index = 0,
           v.type = "step.completed" =>
              \A c \in Cancels(e) : LastStart(e) > c /\ r.index # 0 /\ Throws(p, f, Len(f)),
           v.type = "step.cancelled" => CancelHolds(p, f, t, Len(f))
    PROVE  CancelsHold(p, f, t)
<1>1. PICK n, L : n = Len(e) /\ L = LastStart(e)
  OBVIOUS
<1>2. n \in Nat /\ Len(f) = n + 1 /\ DOMAIN f = 1 .. n + 1 /\ DOMAIN e = 1 .. n
      /\ (\A i \in 1 .. n : f[i] = e[i]) /\ f[n + 1] = v /\ L \in 0 .. n
  BY <1>1, LastStartIs DEF Grows
<1>3. Cancels(f) = Cancels(e) \cup {c \in {n + 1} : v.type = "step.cancelled"}
  BY <1>2, CyclesGrow
<1>4. Starts(f) = Starts(e) /\ LastStart(f) = L /\ (L # 0 => Step(f) = Step(e)) /\ Starts(e) \subseteq 1 .. n
  BY <1>1, <1>2, StartsGrow DEF Starts
<1>5. Outcomes(f) = Outcomes(e) \cup {i \in {n + 1} : v.type = "step.completed"}
  BY <1>2, AttemptGrows
<1>6. ASSUME NEW c \in Cancels(e) PROVE CancelHolds(p, f, t, c)
  <2>1. c \in 1 .. n /\ f[c] = e[c]
    BY <1>2 DEF Cancels
  <2>2. PICK b : b = StartBefore(e, c)
    OBVIOUS
  <2>3. StartBefore(f, c) = b
    <3>1. {i \in Starts(f) : i <= c /\ f[i].step = f[c].step} = {i \in Starts(e) : i <= c /\ e[i].step = e[c].step}
      BY <1>2, <1>4, <2>1
    <3> QED
      BY <2>2, <3>1 DEF StartBefore
  <2>4. CancelHolds(p, e, r, c)
    BY DEF CancelsHold
  <2>5. b # 0 /\ (\A i \in Starts(e) : i >= b => e[i].step = e[c].step)
        /\ \A j \in 1 .. n : b <= j /\ j <= L => e[j].type # "step.completed"
    BY <1>1, <1>2, <2>2, <2>4 DEF CancelHolds
  <2>6. \A i \in Starts(f) : i >= b => f[i].step = f[c].step
    BY <1>2, <1>4, <2>1, <2>5
  <2>7. \A j \in DOMAIN f : b <= j /\ j <= L => f[j].type # "step.completed"
    BY <1>2, <2>5
  <2>8. b \in Starts(e) /\ b <= L /\ L # 0
    <3>1. b \in Starts(e)
      BY <1>2, <2>1, <2>2, <2>5, StartBeforeIs
    <3>2. b <= L
      BY <1>1, <3>1, LastStartIs
    <3> QED
      BY <1>2, <1>4, <3>1, <3>2
  <2>9. \A j \in Outcomes(f) : L > c /\ t.index # 0 /\ Throws(p, f, j)
    <3>1. ASSUME NEW j \in Outcomes(e) PROVE L > c /\ t.index # 0 /\ Throws(p, f, j)
      <4>1. L > c /\ r.index # 0 /\ Throws(p, e, j)
        BY <1>1, <2>4 DEF CancelHolds
      <4>2. Throws(p, f, j)
        BY <1>1, <2>8, <4>1, ThrowsStays
      <4> QED
        BY <4>1, <4>2
    <3>2. ASSUME v.type = "step.completed" PROVE L > c /\ t.index # 0 /\ Throws(p, f, n + 1)
      BY <1>1, <1>2, <3>2
    <3> QED
      BY <1>5, <3>1, <3>2
  <2>10. Waits(p, f[c].step) # {} \/ t.pc \in {"cancelled", "off"}
    BY <2>1, <2>4 DEF CancelHolds
  <2>11. (t.index = 0 => L < c) /\ (L > c => Waits(p, Step(f)) # {})
    <3>1. (r.index = 0 => L < c) /\ (L > c => Waits(p, Step(e)) # {})
      BY <1>1, <2>4 DEF CancelHolds
    <3>2. Step(f) = Step(e)
      BY <1>4, <2>8
    <3> QED
      BY <3>1, <3>2
  <2> QED
    BY <1>4, <2>3, <2>5, <2>6, <2>7, <2>9, <2>10, <2>11 DEF CancelHolds
<1>7. v.type = "step.cancelled" => CancelHolds(p, f, t, n + 1)
  BY <1>2
<1> QED
  BY <1>3, <1>6, <1>7 DEF CancelsHold

SamePlace(r, t) ==
    t.node = r.node /\ t.at = r.at /\ t.value = r.value /\ t.waits = r.waits /\ t.index = r.index

\* An event that leaves the run where it was in its last attempt.
LEMMA InsideKept ==
    ASSUME NEW p, NEW e, NEW f, NEW v, NEW r, NEW t, Grows(e, f, v), TrailOK(p, e), TrailOK(p, f),
           v.type \notin {"step.started", "step.completed", "wait.satisfied", "workflow.retryStarted", "workflow.resumed"},
           Inside(p, e, r), Replays(p, e, r), SamePlace(r, t),
           Failures(f) # {} => t.pc \in {"failed", "off"},
           t.pc = "phase" => r.pc = "phase" /\ v.type # "wait.started",
           v.type = "wait.started" =>
              r.at \in DOMAIN Phases(p, Step(e)) /\ Phases(p, Step(e))[r.at] = v.wait
    PROVE  Inside(p, f, t) /\ Replays(p, f, t)
<1>1. PICK n, L : n = Len(e) /\ L = LastStart(e)
  OBVIOUS
<1>2. n \in Nat /\ Len(f) = n + 1 /\ DOMAIN f = 1 .. n + 1 /\ DOMAIN e = 1 .. n
      /\ (\A i \in 1 .. n : f[i] = e[i]) /\ f[n + 1] = v
  BY <1>1 DEF Grows
<1>3. L # 0 /\ LastStart(f) = L /\ Step(f) = Step(e) /\ Count(f) = Count(e)
  BY <1>1, StartsGrow DEF Inside
<1>4. /\ Outcomes(f) = Outcomes(e) /\ Given(f) = Given(e) /\ Regained(f) = Regained(e)
      /\ Asked(f) = Asked(e) \cup {i \in {n + 1} : v.type = "wait.started"}
      /\ Open(f) \subseteq Open(e) \cup {i \in {n + 1} : v.type = "wait.started"}
  <2>1. v.type # "step.completed" /\ v.type # "wait.satisfied" /\ v.type # "workflow.retryStarted"
    OBVIOUS
  <2> QED
    BY <1>2, <2>1, AttemptGrows, AttemptStays
<1>5. \A i \in Outcomes(e) \cup Given(e) \cup Open(e) : i \in 1 .. n /\ f[i] = e[i]
  BY <1>2 DEF Outcomes, Given, Open, Asked, Recent
<1>6. Outputs(f, Given(f)) = Outputs(e, Given(e))
  BY <1>4, <1>5, OutputsAgree
<1>7. Recent(f, Reopening) = Recent(e, Reopening)
  <2>1. v.type \notin Reopening
    BY DEF Reopening
  <2>2. Recent(f, Reopening) = Recent(e, Reopening) \cup {i \in {Len(f)} : v.type \in Reopening}
    BY RecentGrows
  <2> QED
    BY <2>1, <2>2
<1>8. Inside(p, f, t)
  <2>1. t.index = Count(f) /\ LastStart(f) # 0 /\ Step(f) = t.node.step /\ Regained(f) = {}
    BY <1>1, <1>3, <1>4 DEF Inside, SamePlace
  <2>2. Outcomes(f) # {} <=> Prompted(p, f, t.at)
    BY <1>3, <1>4 DEF Inside, SamePlace, Prompted
  <2>3. (Outcomes(f) = {} => t.value = t.node.input) /\ \A j \in Outcomes(f) : t.value = f[j].out
    BY <1>4, <1>5 DEF Inside, SamePlace
  <2>4. t.waits = Outputs(f, Given(f))
    BY <1>6 DEF Inside, SamePlace
  <2>5. ASSUME NEW w \in Open(f) PROVE t.at \in DOMAIN Phases(p, Step(f)) /\ Phases(p, Step(f))[t.at] = f[w].wait
    <3>1. CASE w \in Open(e)
      BY <1>3, <1>5, <3>1 DEF Inside, SamePlace
    <3>2. CASE w = n + 1 /\ v.type = "wait.started"
      BY <1>2, <1>3, <3>2 DEF SamePlace
    <3> QED
      BY <1>4, <3>1, <3>2
  <2>6. \A i \in Waits(p, Step(f)) : i < t.at => t.waits[Phases(p, Step(f))[i]] # 0
    BY <1>3 DEF Inside, SamePlace
  <2>7. t.pc = "phase" /\ Recent(f, Reopening) = {} => Asked(f) = {}
    BY <1>4, <1>7 DEF Inside
  <2> QED
    BY <2>1, <2>2, <2>3, <2>4, <2>5, <2>6, <2>7 DEF Inside
<1>9. Replays(p, f, t)
  <2>1. ASSUME NEW j \in Outcomes(e), Throws(p, e, j) PROVE Throws(p, f, j)
    BY <1>1, <1>3, <2>1, ThrowsStays
  <2> QED
    BY <1>3, <1>4, <2>1 DEF Replays, SamePlace
<1> QED
  BY <1>8, <1>9

\* An event that leaves the run where it was.
LEMMA PlaceKept ==
    ASSUME NEW p, NEW e, NEW f, NEW v, NEW r, NEW t, Grows(e, f, v), TrailOK(p, e), TrailOK(p, f),
           v.type \notin {"step.started", "step.completed", "wait.satisfied", "workflow.retryStarted", "workflow.resumed"},
           Body(p, e, r), Fits(p, e, f, v), SamePlace(r, t), r.index = 0 <=> t.index = 0,
           t.index # 0 /\ Failures(f) # {} => t.pc \in {"failed", "off"},
           t.index # 0 /\ t.pc = "phase" => r.pc = "phase",
           r.pc \in {"cancelled", "off"} => t.pc \in {"cancelled", "off"},
           v.type = "step.failed" => r.index # 0,
           v.type = "workflow.completed" => r.node.step = Done,
           v.type = "wait.started" =>
              /\ r.index # 0 /\ t.pc = "off"
              /\ r.at \in DOMAIN Phases(p, Step(e)) /\ Phases(p, Step(e))[r.at] = v.wait,
           v.type = "step.cancelled" => CancelHolds(p, f, t, Len(f))
    PROVE  Body(p, f, t)
<1>1. PICK n, L : n = Len(e) /\ L = LastStart(e)
  OBVIOUS
<1>2. n \in Nat /\ Len(f) = n + 1 /\ DOMAIN f = 1 .. n + 1 /\ DOMAIN e = 1 .. n
      /\ (\A i \in 1 .. n : f[i] = e[i]) /\ f[n + 1] = v
  BY <1>1 DEF Grows
<1>3. LastStart(f) = L /\ (L # 0 => Step(f) = Step(e))
  BY <1>1, StartsGrow
<1>4. Attempt(p, f)
  BY AttemptFits DEF Body
<1>5. t.index # 0 => Inside(p, f, t) /\ Replays(p, f, t)
  <2>1. ASSUME t.index # 0 PROVE Inside(p, f, t) /\ Replays(p, f, t)
    <3>1. Inside(p, e, r) /\ Replays(p, e, r)
      BY <2>1 DEF Body
    <3>2. t.pc = "phase" => r.pc = "phase" /\ v.type # "wait.started"
      BY <2>1
    <3>3. Failures(f) # {} => t.pc \in {"failed", "off"}
      BY <2>1
    <3> QED
      BY <3>1, <3>2, <3>3, InsideKept
  <2> QED
    BY <2>1
<1>6. /\ Outcomes(f) = Outcomes(e) /\ Regained(f) = Regained(e)
      /\ Failures(f) = Failures(e) \cup {i \in {n + 1} : v.type = "step.failed"}
      /\ Open(f) \subseteq Open(e) \cup {i \in {n + 1} : v.type = "wait.started"}
  <2>1. v.type # "step.completed" /\ v.type # "wait.satisfied" /\ v.type # "workflow.retryStarted"
    OBVIOUS
  <2> QED
    BY <1>2, <2>1, AttemptGrows, AttemptStays
<1>7. t.index = 0 => Between(f)
  BY <1>6 DEF Body, Between
<1>8. Parked(f, t)
  BY <1>2 DEF Parked, SamePlace
<1>9. Onwards(f, t)
  <2>1. ASSUME L # 0, t.node.step # Step(f) PROVE Outcomes(f) # {} /\ Failures(f) = {}
    <3>1. r.node.step # Step(e) /\ t.node = r.node
      BY <1>3, <2>1 DEF SamePlace
    <3>2. Outcomes(e) # {} /\ Failures(e) = {}
      BY <1>1, <2>1, <3>1 DEF Body, Onwards
    <3>3. v.type # "step.failed"
      BY <3>1 DEF Body, Inside
    <3> QED
      BY <1>6, <3>2, <3>3
  <2>2. ASSUME NEW i \in DOMAIN f, f[i].type = "workflow.completed" PROVE t.node.step = Done
    <3>1. CASE i \in 1 .. n
      BY <1>2, <2>2, <3>1 DEF Body, Onwards, SamePlace
    <3>2. CASE i = n + 1
      BY <1>2, <2>2, <3>2 DEF SamePlace
    <3> QED
      BY <1>2, <3>1, <3>2
  <2> QED
    BY <1>3, <2>1, <2>2 DEF Onwards
<1>10. CancelsHold(p, f, t)
  <2>1. v.type \notin {"step.started"} \cup Reopening
    BY DEF Reopening
  <2>2. CancelsHold(p, e, r)
    BY DEF Body
  <2> QED
    BY <2>1, <2>2, CancelsKept
<1> QED
  BY <1>4, <1>5, <1>7, <1>8, <1>9, <1>10 DEF Body

\* A wait has an output when it was answered, and only then.
LEMMA OutputOf ==
    ASSUME NEW e, NEW S, \A i \in S : e[i].out \in Value, NEW w \in WaitId
    PROVE  Outputs(e, S)[w] # 0 <=> \E i \in S : e[i].wait = w
<1>1. PICK k : k = CHOOSE i \in S : e[i].wait = w
  OBVIOUS
<1>2. Outputs(e, S)[w] = IF \E i \in S : e[i].wait = w THEN e[k].out ELSE 0
  BY <1>1 DEF Outputs
<1>3. (\E i \in S : e[i].wait = w) => k \in S
  BY <1>1
<1> QED
  BY <1>2, <1>3 DEF Value

\* One more answer changes what its own wait is given.
LEMMA OutputAdded ==
    ASSUME NEW e, NEW f, NEW S, NEW k, k \notin S, \A i \in S : f[i] = e[i],
           NEW h \in WaitId, f[k].wait = h, \A i \in S : e[i].wait # h
    PROVE  Outputs(f, S \cup {k}) = [Outputs(e, S) EXCEPT ![h] = f[k].out]
<1>1. ASSUME NEW w \in WaitId
      PROVE  Outputs(f, S \cup {k})[w] = IF w = h THEN f[k].out ELSE Outputs(e, S)[w]
  <2>1. CASE w = h
    <3>1. PICK c : c = CHOOSE i \in S \cup {k} : f[i].wait = w
      OBVIOUS
    <3>2. c = k
      BY <2>1, <3>1
    <3> QED
      BY <2>1, <3>1, <3>2 DEF Outputs
  <2>2. CASE w # h
    <3>1. \A i : (i \in S \cup {k} /\ f[i].wait = w) <=> (i \in S /\ e[i].wait = w)
      BY <2>2
    <3>2. (CHOOSE i \in S \cup {k} : f[i].wait = w) = (CHOOSE i \in S : e[i].wait = w)
      BY <3>1
    <3>3. PICK c : c = CHOOSE i \in S : e[i].wait = w
      OBVIOUS
    <3>4. (\E i \in S : e[i].wait = w) => c \in S /\ f[c] = e[c]
      BY <3>3
    <3>5. Outputs(f, S \cup {k})[w] = IF \E i \in S \cup {k} : f[i].wait = w THEN f[c].out ELSE 0
      BY <3>2, <3>3 DEF Outputs
    <3>6. Outputs(e, S)[w] = IF \E i \in S : e[i].wait = w THEN e[c].out ELSE 0
      BY <3>3 DEF Outputs
    <3> QED
      BY <2>2, <3>1, <3>4, <3>5, <3>6
  <2> QED
    BY <2>1, <2>2
<1>2. PICK F, G : F = Outputs(f, S \cup {k}) /\ G = Outputs(e, S)
  OBVIOUS
<1>3. F = [w \in WaitId |-> F[w]] /\ G = [w \in WaitId |-> G[w]]
  BY <1>2 DEF Outputs
<1>4. \A w \in WaitId : F[w] = [G EXCEPT ![h] = f[k].out][w]
  BY <1>1, <1>2, <1>3
<1>5. F = [G EXCEPT ![h] = f[k].out]
  BY <1>3, <1>4
<1> QED
  BY <1>2, <1>5

\* What is given in the last attempt has an output.
LEMMA GivenHaveOutputs ==
    ASSUME NEW p, NEW e, TrailOK(p, e)
    PROVE  \A i \in Given(e) : e[i].out \in Value
BY DEF TrailOK, EventOK, Given, Recent

\* The run at a phase of the step it executes.
InPhase(p, e, r) ==
    /\ r.pc = "phase" /\ r.index # 0
    /\ r.node.step \in DOMAIN p /\ r.at \in DOMAIN Phases(p, r.node.step)
PhaseAt(p, r) == Phases(p, r.node.step)[r.at]

\* What the trail says of the attempt while the run is at one of its phases.
LEMMA PhaseIs ==
    ASSUME NEW p, NEW e, NEW r, TrailOK(p, e), Body(p, e, r), InPhase(p, e, r)
    PROVE  /\ Attempt(p, e) /\ Inside(p, e, r) /\ Replays(p, e, r)
           /\ LastStart(e) # 0 /\ Step(e) = r.node.step /\ Failures(e) = {} /\ Regained(e) = {}
           /\ r.at \in 1 .. Len(Phases(p, Step(e))) /\ DOMAIN Phases(p, Step(e)) = 1 .. Len(Phases(p, Step(e)))
           /\ Len(Phases(p, Step(e))) \in Nat
           /\ Step(e) \in DOMAIN p /\ Step(e) # Done
           /\ \A i, j \in DOMAIN Phases(p, Step(e)) : Phases(p, Step(e))[i] = Phases(p, Step(e))[j] => i = j
           /\ PhaseAt(p, r) \notin WaitId => Open(e) = {}
           /\ \A i \in DOMAIN e : e[i].type # "workflow.completed"
<1>1. Attempt(p, e) /\ Inside(p, e, r) /\ Replays(p, e, r) /\ Onwards(e, r)
  BY DEF Body, InPhase
<1>2. LastStart(e) # 0 /\ Step(e) = r.node.step /\ Failures(e) = {} /\ Regained(e) = {}
  BY <1>1 DEF Inside, InPhase
<1>3. Step(e) \in DOMAIN p /\ Step(e) # Done
  BY <1>2 DEF InPhase, TrailOK, WellBuilt
<1>4. PICK q : q = Phases(p, Step(e))
  OBVIOUS
<1>5. Len(q) \in Nat /\ DOMAIN q = 1 .. Len(q) /\ \A i, j \in DOMAIN q : q[i] = q[j] => i = j
  BY <1>3, <1>4, PhasesOf DEF TrailOK
<1>6. r.at \in DOMAIN q
  BY <1>2, <1>4 DEF InPhase
<1>7. PhaseAt(p, r) \notin WaitId => Open(e) = {}
  <2>1. ASSUME NEW w \in Open(e) PROVE PhaseAt(p, r) \in WaitId
    <3>1. PhaseAt(p, r) = e[w].wait
      BY <1>1, <1>2 DEF Inside, PhaseAt
    <3>2. w \in DOMAIN e /\ e[w].type = "wait.started"
      BY DEF Open, Asked, Recent
    <3>3. \E i \in Waits(p, e[w].step) : Phases(p, e[w].step)[i] = e[w].wait
      BY <3>2 DEF TrailOK, EventOK
    <3> QED
      BY <3>1, <3>3 DEF Waits
  <2> QED
    BY <2>1
<1>8. \A i \in DOMAIN e : e[i].type # "workflow.completed"
  BY <1>1, <1>2, <1>3 DEF Onwards
<1> QED
  BY <1>1, <1>2, <1>3, <1>4, <1>5, <1>6, <1>7, <1>8

\* The answer of a wait is taken.
LEMMA AnswerTaken ==
    ASSUME NEW p, NEW e, NEW f, NEW v, NEW r, NEW t, Grows(e, f, v), TrailOK(p, e), TrailOK(p, f),
           Body(p, e, r), InPhase(p, e, r), PhaseAt(p, r) \in WaitId, r.waits[PhaseAt(p, r)] = 0, Asked(e) # {},
           v.type = "wait.satisfied", v.step = r.node.step, v.wait = PhaseAt(p, r), v.index = r.index, v.out \in Value,
           t.pc = "phase", t.node = r.node, t.value = r.value, t.index = r.index, t.at = r.at + 1,
           t.waits = [r.waits EXCEPT ![PhaseAt(p, r)] = v.out]
    PROVE  Body(p, f, t)
<1>1. PICK n, L, h, q : n = Len(e) /\ L = LastStart(e) /\ h = PhaseAt(p, r) /\ q = Phases(p, Step(e))
  OBVIOUS
<1>2. n \in Nat /\ Len(f) = n + 1 /\ DOMAIN f = 1 .. n + 1 /\ DOMAIN e = 1 .. n
      /\ (\A i \in 1 .. n : f[i] = e[i]) /\ f[n + 1] = v
  BY <1>1 DEF Grows
<1>3. /\ Attempt(p, e) /\ Inside(p, e, r) /\ Replays(p, e, r)
      /\ L # 0 /\ Step(e) = r.node.step /\ Failures(e) = {} /\ Regained(e) = {}
      /\ r.at \in 1 .. Len(q) /\ DOMAIN q = 1 .. Len(q) /\ Len(q) \in Nat
      /\ \A i, j \in DOMAIN q : q[i] = q[j] => i = j
  BY <1>1, PhaseIs
<1>4. h \in WaitId /\ q[r.at] = h
  BY <1>1, <1>3 DEF PhaseAt
<1>5. LastStart(f) = L /\ Step(f) = Step(e) /\ Count(f) = Count(e)
  BY <1>1, <1>3, StartsGrow
<1>6. /\ Outcomes(f) = Outcomes(e) /\ Failures(f) = {} /\ Asked(f) = Asked(e) /\ Open(f) \subseteq Open(e)
      /\ Regained(f) = {} /\ Recent(f, Reopening) = Recent(e, Reopening)
  BY <1>3, AttemptStays DEF Reopening
<1>7. Given(f) = Given(e) \cup {n + 1}
  BY <1>2, AttemptGrows
<1>8. \A i \in Given(e) : e[i].wait # h
  <2>1. Outputs(e, Given(e))[h] = 0
    BY <1>1, <1>3 DEF Inside
  <2> QED
    BY <1>4, <2>1, OutputOf, GivenHaveOutputs
<1>9. Open(f) = {}
  <2>1. ASSUME NEW w \in Open(f) PROVE FALSE
    <3>1. w \in Open(e) /\ w \in 1 .. n /\ w \in Asked(e)
      BY <1>2, <1>6 DEF Open, Asked, Recent
    <3>2. e[w].wait = h
      BY <1>1, <1>3, <1>4, <3>1 DEF Inside
    <3>3. e[w].index = Count(e)
      <4>1. w \in Recent(e, {"wait.started", "wait.satisfied", "wait.failed"})
        BY <3>1 DEF Asked, Recent
      <4> QED
        BY <1>3, <4>1 DEF Attempt, OwnEvents
    <3>4. v.index = Count(e)
      BY <1>3 DEF Inside
    <3>5. Resolves(f, n + 1, w)
      BY <1>1, <1>2, <3>1, <3>2, <3>3, <3>4 DEF Resolves
    <3> QED
      BY <1>2, <3>5 DEF Open
  <2> QED
    BY <2>1
<1>10. Fits(p, e, f, v)
  <2>1. Outputted(p, e, h, n + 1)
    <3>1. ASSUME NEW i \in DOMAIN q, NEW j \in DOMAIN q, i < j, q[i] = "prompt", q[j] = h
          PROVE  \E o \in Outcomes(e) : o < n + 1
      <4>1. j = r.at
        BY <1>3, <1>4, <3>1
      <4>2. Outcomes(e) # {}
        BY <1>1, <1>3, <3>1, <4>1 DEF Inside, Prompted
      <4>3. \A o \in Outcomes(e) : o \in 1 .. n
        BY <1>2 DEF Outcomes, Recent
      <4> QED
        BY <1>2, <4>2, <4>3
    <3> QED
      BY <1>1, <3>1 DEF Outputted
  <2> QED
    BY <1>1, <1>2, <1>3, <1>8, <1>9, <2>1 DEF Fits, Inside
<1>11. Attempt(p, f)
  BY <1>3, <1>10, AttemptFits
<1>12. \A i \in Given(e) \cup Outcomes(e) : i \in 1 .. n /\ f[i] = e[i]
  BY <1>2 DEF Given, Outcomes, Recent
<1>13. Inside(p, f, t)
  <2>1. t.index = Count(f) /\ LastStart(f) # 0 /\ Step(f) = t.node.step /\ Regained(f) = {}
    BY <1>3, <1>5, <1>6 DEF Inside
  <2>2. Outcomes(f) # {} <=> Prompted(p, f, t.at)
    <3>1. Prompted(p, f, t.at) <=> Prompted(p, e, r.at)
      <4>1. h # "prompt"
        BY <1>4 DEF WaitId
      <4>2. \A i \in DOMAIN q : q[i] = "prompt" => (i < r.at + 1 <=> i < r.at)
        BY <1>3, <1>4, <4>1
      <4> QED
        BY <1>1, <1>5, <4>2 DEF Prompted
    <3> QED
      BY <1>3, <1>6, <3>1 DEF Inside
  <2>3. (Outcomes(f) = {} => t.value = t.node.input) /\ \A j \in Outcomes(f) : t.value = f[j].out
    BY <1>3, <1>6, <1>12 DEF Inside
  <2>4. t.waits = Outputs(f, Given(f))
    <3>1. r.waits = Outputs(e, Given(e))
      BY <1>3 DEF Inside
    <3>2. n + 1 \notin Given(e) /\ f[n + 1].wait = h /\ f[n + 1].out = v.out
      BY <1>1, <1>2 DEF Given, Recent
    <3>3. Outputs(f, Given(e) \cup {n + 1}) = [Outputs(e, Given(e)) EXCEPT ![h] = v.out]
      BY <1>4, <1>8, <1>12, <3>2, OutputAdded
    <3> QED
      BY <1>1, <1>7, <3>1, <3>3
  <2>5. ASSUME NEW i \in Waits(p, Step(f)), i < t.at PROVE t.waits[Phases(p, Step(f))[i]] # 0
    <3>1. i \in DOMAIN q /\ q[i] \in WaitId
      BY <1>1, <1>5 DEF Waits
    <3>2. t.waits = [r.waits EXCEPT ![h] = v.out] /\ v.out # 0
      BY <1>1 DEF Value
    <3>3. DOMAIN r.waits = WaitId
      BY <1>3 DEF Inside, Outputs
    <3>4. CASE i = r.at
      BY <1>1, <1>4, <1>5, <3>2, <3>3, <3>4
    <3>5. CASE i # r.at
      <4>1. i < r.at /\ q[i] # h
        BY <1>3, <1>4, <2>5, <3>1, <3>5
      <4>2. r.waits[q[i]] # 0
        BY <1>1, <1>3, <1>5, <4>1 DEF Inside
      <4> QED
        BY <1>1, <1>5, <3>1, <3>2, <3>3, <4>1, <4>2
    <3> QED
      BY <3>4, <3>5
  <2>6. t.pc = "phase" /\ Recent(f, Reopening) = {} => Asked(f) = {}
    BY <1>3, <1>6 DEF Inside, InPhase
  <2> QED
    BY <1>6, <1>9, <2>1, <2>2, <2>3, <2>4, <2>5, <2>6 DEF Inside
<1>14. Replays(p, f, t)
  <2>1. ASSUME NEW j \in Outcomes(f) PROVE Throws(p, f, j)
    <3>1. r.at \in Waits(p, Step(e)) /\ ~(r.at < r.at)
      BY <1>1, <1>3, <1>4 DEF Waits
    <3>2. Throws(p, e, j)
      BY <1>3, <1>6, <3>1 DEF Replays
    <3> QED
      BY <1>1, <1>3, <1>6, <3>2, ThrowsStays
  <2> QED
    BY <2>1 DEF Replays
<1>15. Parked(f, t)
  BY <1>2 DEF Parked
<1>16. Onwards(f, t)
  <2>1. \A i \in DOMAIN f : f[i].type # "workflow.completed"
    <3>1. \A i \in 1 .. n : e[i].type # "workflow.completed"
      BY <1>2, PhaseIs
    <3> QED
      BY <1>2, <3>1
  <2> QED
    BY <1>3, <1>5, <2>1 DEF Onwards
<1>17. CancelsHold(p, f, t)
  <2>1. v.type \notin {"step.started"} \cup Reopening /\ v.type \notin {"step.completed", "step.cancelled"}
    BY DEF Reopening
  <2>2. CancelsHold(p, e, r)
    BY DEF Body
  <2>3. r.pc = "phase" /\ r.index # 0 /\ t.index # 0
    BY DEF InPhase
  <2> QED
    BY <2>1, <2>2, <2>3, CancelsKept
<1>18. t.index # 0
  BY DEF InPhase
<1> QED
  BY <1>11, <1>13, <1>14, <1>15, <1>16, <1>17, <1>18 DEF Body

\* An attempt cancelled at c that has an output later hides it from the replays.
LEMMA CancelledThenOutput ==
    ASSUME NEW p, NEW e, NEW f, NEW v, Grows(e, f, v), TrailOK(p, e), v.type = "step.completed", v.step = Step(e),
           NEW c \in DOMAIN e, e[c].type = "step.cancelled", LastStart(e) < c, e[c].step = Step(e)
    PROVE  CancelledThenCompleted(f)
<1>1. PICK n, L : n = Len(e) /\ L = LastStart(e)
  OBVIOUS
<1>2. n \in Nat /\ DOMAIN f = 1 .. n + 1 /\ DOMAIN e = 1 .. n
      /\ (\A i \in 1 .. n : f[i] = e[i]) /\ f[n + 1] = v
  BY <1>1 DEF Grows
<1>3. ~\E l \in c .. n + 1 : f[l].type = "step.started" /\ f[l].step = f[n + 1].step
  <2>1. ASSUME NEW l \in c .. n + 1, f[l].type = "step.started" PROVE FALSE
    <3>1. l # n + 1
      BY <1>2, <2>1
    <3>2. l \in 1 .. n /\ e[l].type = "step.started" /\ L < l
      <4>1. L \in Nat /\ c \in 1 .. n /\ L < c
        BY <1>1, <1>2, LastStartIs
      <4> QED
        BY <1>2, <2>1, <3>1, <4>1
    <3>3. l \in Starts(e) /\ ~(l <= L) /\ L \in Nat
      BY <1>1, <1>2, <3>2, LastStartIs DEF Starts
    <3> QED
      BY <1>1, <3>3, LastStartIs
  <2> QED
    BY <2>1
<1>4. c \in DOMAIN f /\ n + 1 \in DOMAIN f /\ c < n + 1 /\ f[c] = e[c]
  BY <1>2
<1>5. SameAttempt(f, c, n + 1)
  BY <1>2, <1>3, <1>4 DEF SameAttempt
<1> QED
  BY <1>2, <1>4, <1>5 DEF CancelledThenCompleted, Then

\* What ends the last attempt after its output leaves that output in the trail.
LEMMA OutputThenEnd ==
    ASSUME NEW p, NEW e, NEW f, NEW v, Grows(e, f, v), TrailOK(p, e), Attempt(p, e),
           v.step = Step(e), NEW types, v.type \in types, v.type # "step.started", NEW j \in Outcomes(e)
    PROVE  OutputThen(f, types)
<1>1. PICK n, L : n = Len(e) /\ L = LastStart(e)
  OBVIOUS
<1>2. n \in Nat /\ DOMAIN f = 1 .. n + 1 /\ DOMAIN e = 1 .. n
      /\ (\A i \in 1 .. n : f[i] = e[i]) /\ f[n + 1] = v
  BY <1>1 DEF Grows
<1>3. j \in 1 .. n /\ L < j /\ e[j].type = "step.completed" /\ j \in Recent(e, DriverEvent)
  BY <1>1, <1>2 DEF Outcomes, Recent, DriverEvent
<1>4. e[j].step = Step(e)
  BY <1>3 DEF Attempt, OwnEvents
<1>5. ~\E l \in j .. n + 1 : f[l].type = "step.started" /\ f[l].step = f[n + 1].step
  <2>1. ASSUME NEW l \in j .. n + 1, f[l].type = "step.started" PROVE FALSE
    <3>1. l # n + 1
      BY <1>2, <2>1
    <3>2. l \in 1 .. n /\ e[l].type = "step.started" /\ L < l
      <4>1. L \in Nat /\ j \in 1 .. n /\ L < j
        BY <1>1, <1>2, <1>3, LastStartIs
      <4> QED
        BY <1>2, <2>1, <3>1, <4>1
    <3>3. l \in Starts(e) /\ ~(l <= L) /\ L \in Nat
      BY <1>1, <1>2, <3>2, LastStartIs DEF Starts
    <3> QED
      BY <1>1, <3>3, LastStartIs
  <2> QED
    BY <2>1
<1>6. j \in DOMAIN f /\ n + 1 \in DOMAIN f /\ j < n + 1 /\ f[j] = e[j]
  BY <1>2, <1>3
<1>7. SameAttempt(f, j, n + 1)
  BY <1>2, <1>4, <1>5, <1>6 DEF SameAttempt
<1> QED
  BY <1>2, <1>3, <1>6, <1>7 DEF OutputThen, Then

\* What a cancel of this cycle says of the step of the last attempt.
LEMMA CancelledIsLast ==
    ASSUME NEW p, NEW e, NEW r, TrailOK(p, e), NEW c \in Cancels(e), CancelHolds(p, e, r, c)
    PROVE  /\ LastStart(e) # 0 /\ e[c].step = Step(e) /\ StartBefore(e, c) <= LastStart(e) /\ c # LastStart(e)
           /\ LastStart(e) > c => Recent(e, Reopening) = {}
<1>1. PICK b, L : b = StartBefore(e, c) /\ L = LastStart(e)
  OBVIOUS
<1>2. b # 0 /\ c \in DOMAIN e /\ e[c].type = "step.cancelled" /\ c >= CycleStart(e)
      /\ \A i \in Starts(e) : i >= b => e[i].step = e[c].step
  BY <1>1 DEF CancelHolds, Cancels
<1>3. b \in Starts(e)
  BY <1>1, <1>2, StartBeforeIs
<1>4. L \in Starts(e) /\ b <= L /\ L # 0 /\ L \in Nat /\ b \in Nat
  BY <1>1, <1>3, LastStartIs
<1>5. e[L].step = e[c].step /\ e[L].type = "step.started"
  BY <1>2, <1>4 DEF Starts
<1>6. ASSUME L > c PROVE Recent(e, Reopening) = {}
  <2>1. ASSUME NEW i \in Recent(e, Reopening) PROVE FALSE
    <3>1. i \in DOMAIN e /\ L < i /\ e[i].type \in Reopening
      BY <1>1 DEF Recent
    <3>2. i < CycleStart(e) /\ CycleStart(e) \in Int
      BY <3>1, CycleStartIs
    <3>3. i \in Int /\ c \in Int /\ L \in Int
      BY <1>2, <1>4, <3>1 DEF TrailOK
    <3> QED
      BY <1>2, <1>6, <3>1, <3>2, <3>3
  <2> QED
    BY <2>1
<1> QED
  BY <1>1, <1>2, <1>4, <1>5, <1>6 DEF Step

\* The output of a prompt.
LEMMA PromptAnswered ==
    ASSUME NEW p, NEW e, NEW f, NEW v, NEW r, NEW t, Grows(e, f, v), TrailOK(p, e), TrailOK(p, f),
           ~CancelledThenCompleted(f), Body(p, e, r), InPhase(p, e, r), PhaseAt(p, r) = "prompt",
           v.type = "step.completed", v.step = r.node.step, v.out \in Value,
           t.pc = "phase", t.node = r.node, t.value = v.out, t.index = r.index, t.at = r.at + 1, t.waits = r.waits
    PROVE  Body(p, f, t)
<1>1. PICK n, L, q : n = Len(e) /\ L = LastStart(e) /\ q = Phases(p, Step(e))
  OBVIOUS
<1>2. n \in Nat /\ Len(f) = n + 1 /\ DOMAIN f = 1 .. n + 1 /\ DOMAIN e = 1 .. n
      /\ (\A i \in 1 .. n : f[i] = e[i]) /\ f[n + 1] = v
  BY <1>1 DEF Grows
<1>3. /\ Attempt(p, e) /\ Inside(p, e, r) /\ Replays(p, e, r)
      /\ L # 0 /\ Step(e) = r.node.step /\ Failures(e) = {} /\ Regained(e) = {} /\ Step(e) \in DOMAIN p
      /\ r.at \in 1 .. Len(q) /\ DOMAIN q = 1 .. Len(q) /\ Len(q) \in Nat
      /\ \A i, j \in DOMAIN q : q[i] = q[j] => i = j
  BY <1>1, PhaseIs
<1>4. q[r.at] = "prompt" /\ "prompt" \notin WaitId
  BY <1>1, <1>3 DEF PhaseAt, WaitId
<1>5. Open(e) = {}
  BY <1>4, PhaseIs
<1>6. LastStart(f) = L /\ Step(f) = Step(e) /\ Count(f) = Count(e)
  BY <1>1, <1>3, StartsGrow
<1>7. /\ Given(f) = Given(e) /\ Failures(f) = {} /\ Asked(f) = Asked(e) /\ Open(f) = {}
      /\ Regained(f) = {} /\ Recent(f, Reopening) = Recent(e, Reopening)
  BY <1>3, <1>5, AttemptStays DEF Reopening
<1>8. Outcomes(e) = {}
  <2>1. ~Prompted(p, e, r.at)
    BY <1>1, <1>3, <1>4 DEF Prompted
  <2> QED
    BY <1>3, <2>1 DEF Inside
<1>9. Outcomes(f) = {n + 1}
  BY <1>2, <1>8, AttemptGrows
<1>10. Fits(p, e, f, v)
  BY <1>1, <1>3, <1>7, <1>8 DEF Fits
<1>11. Attempt(p, f)
  BY <1>3, <1>10, AttemptFits
<1>12. \A i \in Given(e) : i \in 1 .. n /\ f[i] = e[i] /\ i < n + 1
  BY <1>2 DEF Given, Recent
<1>13. Outputs(f, Given(f)) = Outputs(e, Given(e))
  BY <1>7, <1>12, OutputsAgree
<1>14. Inside(p, f, t)
  <2>1. t.index = Count(f) /\ LastStart(f) # 0 /\ Step(f) = t.node.step /\ Regained(f) = {}
    BY <1>3, <1>6, <1>7 DEF Inside
  <2>2. Prompted(p, f, t.at)
    BY <1>1, <1>3, <1>4, <1>6 DEF Prompted
  <2>3. \A j \in Outcomes(f) : t.value = f[j].out
    BY <1>2, <1>9
  <2>4. t.waits = Outputs(f, Given(f))
    BY <1>3, <1>13 DEF Inside
  <2>5. ASSUME NEW i \in Waits(p, Step(f)), i < t.at PROVE t.waits[Phases(p, Step(f))[i]] # 0
    <3>1. i \in DOMAIN q /\ q[i] \in WaitId
      BY <1>1, <1>6 DEF Waits
    <3>2. i < r.at
      BY <1>3, <1>4, <2>5, <3>1
    <3> QED
      BY <1>1, <1>3, <1>6, <3>2 DEF Inside
  <2>6. t.pc = "phase" /\ Recent(f, Reopening) = {} => Asked(f) = {}
    BY <1>3, <1>7 DEF Inside, InPhase
  <2> QED
    BY <1>7, <1>9, <2>1, <2>2, <2>3, <2>4, <2>5, <2>6 DEF Inside
<1>15. ASSUME NEW w \in Waits(p, Step(e)), w > r.at PROVE Throws(p, f, n + 1)
  <2>1. PICK W, m : W = Waits(p, Step(e)) /\ m = Trail!Latest(W)
    OBVIOUS
  <2>2. W \in SUBSET (1 .. Len(q))
    BY <1>1, <1>3, <2>1, PhasesOf DEF TrailOK
  <2>3. m \in W \cup {0} /\ \A i \in W : i <= m
    BY <1>3, <2>1, <2>2, LatestOf
  <2>4. m \in W /\ m > r.at /\ q[m] \in WaitId /\ m \in DOMAIN q
    <3>1. w \in W /\ w \in 1 .. Len(q) /\ w <= m /\ m # 0 /\ m \in W
      BY <1>3, <1>15, <2>1, <2>2, <2>3
    <3>2. m > r.at
      BY <1>3, <1>15, <2>2, <3>1
    <3> QED
      BY <1>1, <2>1, <3>1, <3>2 DEF Waits
  <2>5. PICK S : S = {k \in Given(f) : k < n + 1}
    OBVIOUS
  <2>6. S = Given(e) /\ \A i \in S : f[i] = e[i] /\ f[i].out \in Value
    BY <1>7, <1>12, <2>5, GivenHaveOutputs
  <2>7. ASSUME NEW k \in S, f[k].wait = q[m] PROVE FALSE
    <3>1. Outputted(p, e, q[m], k)
      BY <1>3, <2>6, <2>7 DEF Attempt, GivenAfterOutput
    <3>2. r.at \in DOMAIN q /\ r.at < m
      BY <1>3, <2>4
    <3> QED
      BY <1>1, <1>4, <1>8, <2>4, <3>1, <3>2 DEF Outputted
  <2>8. Outputs(f, S)[q[m]] = 0
    <3>1. \A i \in S : f[i].out \in Value
      BY <2>6
    <3> QED
      BY <2>4, <2>7, <3>1, OutputOf
  <2>9. DoPhase(p, Step(f), f[n + 1].out, Outputs(f, S)) = Threw
    BY <1>1, <1>6, <2>1, <2>4, <2>8 DEF DoPhase
  <2>10. r.at \in DOMAIN q /\ w \in DOMAIN q /\ r.at < w
    BY <1>1, <1>3, <1>15 DEF Waits
  <2> QED
    BY <1>1, <1>4, <1>6, <1>15, <2>5, <2>9, <2>10 DEF Throws
<1>16. Replays(p, f, t)
  <2>1. CASE \E w \in Waits(p, Step(e)) : w > r.at
    BY <1>9, <1>15, <2>1 DEF Replays
  <2>2. CASE ~\E w \in Waits(p, Step(e)) : w > r.at
    <3>1. \A i \in Waits(p, Step(f)) : i < t.at
      <4>1. \A i \in Waits(p, Step(e)) : i \in DOMAIN q
        BY <1>1 DEF Waits
      <4> QED
        BY <1>3, <1>6, <2>2, <4>1
    <3>2. \A k \in Given(f) : k < n + 1
      BY <1>7, <1>12
    <3> QED
      BY <1>9, <3>1, <3>2 DEF Replays
  <2> QED
    BY <2>1, <2>2
<1>17. CancelsHold(p, f, t)
  <2>1. CancelsHold(p, e, r)
    BY DEF Body
  <2>2. r.pc = "phase" /\ r.index # 0 /\ t.index # 0
    BY DEF InPhase
  <2>3. ASSUME NEW c \in Cancels(e) PROVE L > c /\ r.index # 0 /\ Throws(p, f, Len(f))
    <3>1. CancelHolds(p, e, r, c)
      BY <2>1 DEF CancelsHold
    <3>2. c \in DOMAIN e /\ e[c].type = "step.cancelled" /\ e[c].step = Step(e) /\ c # L
          /\ (L > c => Recent(e, Reopening) = {})
      BY <1>1, <3>1, CancelledIsLast DEF Cancels
    <3>3. ~(L < c)
      BY <1>1, <1>3, <3>2, CancelledThenOutput
    <3>4. L > c
      BY <1>1, <1>2, <3>2, <3>3, LastStartIs
    <3>5. Waits(p, Step(e)) # {} /\ Asked(e) = {}
      BY <1>1, <1>3, <3>1, <3>2, <3>4 DEF CancelHolds, Inside, InPhase
    <3>6. Given(e) = {}
      BY <1>3, <3>5 DEF Attempt, GivenAsked
    <3>7. PICK w \in Waits(p, Step(e)) : TRUE
      BY <3>5
    <3>8. w \in DOMAIN q /\ q[w] \in WaitId /\ w # r.at
      BY <1>1, <1>4 DEF Waits
    <3>9. ~(w < r.at)
      <4>1. Outputs(e, Given(e))[q[w]] = 0
        BY <3>6, <3>8, OutputOf
      <4> QED
        BY <1>1, <1>3, <3>7, <4>1 DEF Inside
    <3>10. w > r.at
      BY <1>3, <3>8, <3>9
    <3> QED
      BY <1>2, <1>15, <2>2, <3>4, <3>10
  <2>4. v.type \notin {"step.started"} \cup Reopening /\ v.type # "step.cancelled"
    BY DEF Reopening
  <2>5. (r.pc \in {"cancelled", "off"} => t.pc \in {"cancelled", "off"}) /\ (r.index = 0 <=> t.index = 0)
    BY <2>2
  <2>6. \A c \in Cancels(e) : LastStart(e) > c /\ r.index # 0 /\ Throws(p, f, Len(f))
    BY <1>1, <2>3
  <2> QED
    BY <2>1, <2>4, <2>5, <2>6, CancelsKept
<1>18. Parked(f, t)
  BY <1>2 DEF Parked
<1>19. Onwards(f, t)
  <2>1. \A i \in DOMAIN f : f[i].type # "workflow.completed"
    <3>1. \A i \in 1 .. n : e[i].type # "workflow.completed"
      BY <1>2, PhaseIs
    <3> QED
      BY <1>2, <3>1
  <2> QED
    BY <1>3, <1>6, <2>1 DEF Onwards
<1>20. t.index # 0
  BY DEF InPhase
<1> QED
  BY <1>11, <1>14, <1>16, <1>17, <1>18, <1>19, <1>20 DEF Body

\* A run that halts stays where it is.
LEMMA Halts ==
    ASSUME NEW p, NEW e, NEW r, NEW t, Body(p, e, r), SamePlace(r, t), t.pc \in {"off", "cancelled"},
           t.pc = "cancelled" => r.index = 0 /\ r.pc # "off"
    PROVE  Body(p, e, t)
<1>1. Attempt(p, e) /\ Parked(e, r) /\ Onwards(e, r) /\ CancelsHold(p, e, r)
  BY DEF Body
<1>2. ASSUME t.index # 0 PROVE Inside(p, e, t) /\ Replays(p, e, t)
  <2>1. t.pc = "off" /\ Inside(p, e, r) /\ Replays(p, e, r)
    BY <1>2 DEF Body, SamePlace
  <2>2. Inside(p, e, t)
    BY <2>1 DEF Inside, SamePlace
  <2>3. Replays(p, e, t)
    BY <2>1 DEF Replays, SamePlace
  <2> QED
    BY <2>2, <2>3
<1>3. t.index = 0 => Between(e)
  BY DEF Body, SamePlace
<1>4. Parked(e, t)
  BY <1>1 DEF Parked, SamePlace
<1>5. Onwards(e, t)
  BY <1>1 DEF Onwards, SamePlace
<1>6. CancelsHold(p, e, t)
  <2>1. ASSUME NEW c \in Cancels(e) PROVE CancelHolds(p, e, t, c)
    BY <1>1 DEF CancelsHold, CancelHolds, SamePlace
  <2> QED
    BY <2>1 DEF CancelsHold
<1> QED
  BY <1>1, <1>2, <1>3, <1>4, <1>5, <1>6 DEF Body

\* A wait that was answered before is passed.
LEMMA WaitPassed ==
    ASSUME NEW p, NEW e, NEW r, NEW t, TrailOK(p, e), Body(p, e, r), InPhase(p, e, r),
           PhaseAt(p, r) \in WaitId, r.waits[PhaseAt(p, r)] # 0,
           t.pc = "phase", t.node = r.node, t.value = r.value, t.index = r.index, t.waits = r.waits, t.at = r.at + 1
    PROVE  Body(p, e, t)
<1>1. PICK q : q = Phases(p, Step(e))
  OBVIOUS
<1>2. /\ Attempt(p, e) /\ Inside(p, e, r) /\ Replays(p, e, r)
      /\ LastStart(e) # 0 /\ Step(e) = r.node.step /\ Failures(e) = {} /\ Regained(e) = {}
      /\ r.at \in 1 .. Len(q) /\ DOMAIN q = 1 .. Len(q) /\ Len(q) \in Nat
  BY <1>1, PhaseIs
<1>3. q[r.at] = PhaseAt(p, r) /\ q[r.at] # "prompt"
  BY <1>1, <1>2 DEF PhaseAt, WaitId
<1>4. Open(e) = {}
  <2>1. ASSUME NEW w \in Open(e) PROVE FALSE
    <3>1. e[w].wait = PhaseAt(p, r) /\ w \in Asked(e)
      BY <1>1, <1>2, <1>3, <2>1 DEF Inside, Open
    <3>2. PICK k \in Given(e) : e[k].wait = PhaseAt(p, r)
      <4>1. Outputs(e, Given(e))[PhaseAt(p, r)] # 0
        BY <1>2 DEF Inside
      <4> QED
        BY <4>1, OutputOf, GivenHaveOutputs
    <3>3. w < k /\ k < w
      BY <1>2, <2>1, <3>1, <3>2 DEF Attempt, AskedFirst, OpenLast
    <3>4. w \in Nat /\ k \in Nat
      BY <3>1, <3>2, LastStartIs DEF Asked, Given, Recent
    <3> QED
      BY <3>3, <3>4
  <2> QED
    BY <2>1
<1>5. Inside(p, e, t)
  <2>1. Outcomes(e) # {} <=> Prompted(p, e, t.at)
    <3>1. Prompted(p, e, r.at) <=> Prompted(p, e, t.at)
      BY <1>1, <1>2, <1>3 DEF Prompted
    <3> QED
      BY <1>2, <3>1 DEF Inside
  <2>2. ASSUME NEW i \in Waits(p, Step(e)), i < t.at PROVE t.waits[Phases(p, Step(e))[i]] # 0
    <3>1. i \in DOMAIN q /\ (i < r.at \/ i = r.at)
      BY <1>1, <1>2, <2>2 DEF Waits
    <3>2. CASE i < r.at
      BY <1>2, <3>2 DEF Inside
    <3>3. CASE i = r.at
      BY <1>1, <1>3, <3>3
    <3> QED
      BY <3>1, <3>2, <3>3
  <2>3. r.pc = "phase"
    BY DEF InPhase
  <2> QED
    BY <1>2, <1>4, <2>1, <2>2, <2>3 DEF Inside
<1>6. Replays(p, e, t)
  <2>1. ASSUME NEW i \in Waits(p, Step(e)), i < r.at PROVE i < t.at
    BY <1>1, <1>2, <2>1 DEF Waits
  <2> QED
    BY <1>2, <2>1 DEF Replays
<1>7. Parked(e, t) /\ Onwards(e, t)
  BY DEF Body, Parked, Onwards, InPhase
<1>8. CancelsHold(p, e, t)
  <2>1. ASSUME NEW c \in Cancels(e) PROVE CancelHolds(p, e, t, c)
    BY DEF Body, CancelsHold, CancelHolds, InPhase
  <2> QED
    BY <2>1 DEF CancelsHold
<1>9. t.index # 0
  BY DEF InPhase
<1> QED
  BY <1>2, <1>5, <1>6, <1>7, <1>8, <1>9 DEF Body

\* The run at the last phase of its step.
LEMMA AtTheEnd ==
    ASSUME NEW p, NEW e, NEW r, TrailOK(p, e), Body(p, e, r), InPhase(p, e, r), PhaseAt(p, r) \in {"do", "once"}
    PROVE  /\ \A i \in Waits(p, Step(e)) : i < r.at
           /\ Open(e) = {} /\ (Outcomes(e) # {} <=> Has(p, Step(e), {"prompt"}))
           /\ \A c \in Cancels(e) : LastStart(e) < c /\ e[c].step = Step(e) /\ Outcomes(e) = {}
<1>1. PICK q, L : q = Phases(p, Step(e)) /\ L = LastStart(e)
  OBVIOUS
<1>2. /\ Attempt(p, e) /\ Inside(p, e, r) /\ L # 0 /\ Step(e) = r.node.step /\ Step(e) \in DOMAIN p
      /\ r.at \in 1 .. Len(q) /\ DOMAIN q = 1 .. Len(q) /\ Len(q) \in Nat
  BY <1>1, PhaseIs
<1>3. q[r.at] = PhaseAt(p, r) /\ WellBuilt(p)
  BY <1>1, <1>2 DEF PhaseAt, TrailOK
<1>4. r.at = Len(q)
  BY <1>1, <1>2, <1>3, PhasesOf
<1>5. PhaseAt(p, r) \notin WaitId /\ PhaseAt(p, r) # "prompt"
  BY DEF WaitId
<1>6. Open(e) = {}
  BY <1>5, PhaseIs
<1>7. \A i \in Waits(p, Step(e)) : i < r.at /\ q[i] \in WaitId
  <2>1. ASSUME NEW i \in Waits(p, Step(e)) PROVE i < r.at /\ q[i] \in WaitId
    <3>1. i \in 1 .. Len(q) /\ q[i] \in WaitId
      BY <1>1, <1>2 DEF Waits
    <3> QED
      BY <1>2, <1>3, <1>4, <1>5, <3>1
  <2> QED
    BY <2>1
<1>8. Outcomes(e) # {} <=> Has(p, Step(e), {"prompt"})
  <2>1. ASSUME NEW i \in DOMAIN q, q[i] = "prompt" PROVE i < r.at
    BY <1>2, <1>3, <1>4, <1>5, <2>1
  <2>2. Prompted(p, e, r.at) <=> Has(p, Step(e), {"prompt"})
    BY <1>1, <2>1 DEF Prompted, Has
  <2> QED
    BY <1>2, <2>2 DEF Inside
<1>9. ASSUME NEW c \in Cancels(e) PROVE L < c /\ e[c].step = Step(e) /\ Outcomes(e) = {}
  <2>1. CancelHolds(p, e, r, c) /\ c \in DOMAIN e
    BY DEF Body, CancelsHold, Cancels
  <2>2. e[c].step = Step(e) /\ c # L /\ (L > c => Recent(e, Reopening) = {})
    BY <1>1, <2>1, CancelledIsLast
  <2>3. ~(L > c)
    <3>1. ASSUME L > c PROVE FALSE
      <4>1. PICK w \in Waits(p, Step(e)) : TRUE
        BY <1>1, <2>1, <3>1 DEF CancelHolds
      <4>2. r.pc = "phase" /\ Asked(e) = {}
        BY <1>2, <2>2, <3>1 DEF Inside, InPhase
      <4>3. Given(e) = {}
        BY <1>2, <4>2 DEF Attempt, GivenAsked
      <4>4. Outputs(e, Given(e))[q[w]] # 0
        BY <1>1, <1>2, <1>7 DEF Inside
      <4> QED
        BY <1>7, <4>3, <4>4, OutputOf
    <3> QED
      BY <3>1
  <2>4. L < c
    BY <1>1, <2>1, <2>2, <2>3, LastStartIs
  <2> QED
    BY <1>1, <2>1, <2>2, <2>3, <2>4 DEF CancelHolds
<1> QED
  BY <1>1, <1>6, <1>7, <1>8, <1>9

\* The do phase of a step that took a prompt: the run goes on, on the same trail.
LEMMA DonePrompted ==
    ASSUME NEW p, NEW e, NEW r, NEW t, TrailOK(p, e), Body(p, e, r), InPhase(p, e, r),
           PhaseAt(p, r) \in {"do", "once"}, Has(p, Step(e), {"prompt"}), t.index = 0
    PROVE  Body(p, e, t)
<1>1. /\ Attempt(p, e) /\ LastStart(e) # 0 /\ Failures(e) = {} /\ Regained(e) = {}
      /\ \A i \in DOMAIN e : e[i].type # "workflow.completed"
  BY PhaseIs
<1>2. Open(e) = {} /\ Outcomes(e) # {} /\ Cancels(e) = {}
  BY AtTheEnd
<1>3. Between(e)
  BY <1>2 DEF Between
<1>4. Parked(e, t)
  BY DEF Body, Parked, InPhase
<1>5. Onwards(e, t)
  BY <1>1, <1>2 DEF Onwards
<1>6. CancelsHold(p, e, t)
  BY <1>2 DEF CancelsHold
<1> QED
  BY <1>1, <1>3, <1>4, <1>5, <1>6 DEF Body

\* The do phase of a step without a prompt records the output.
LEMMA DonePlain ==
    ASSUME NEW p, NEW e, NEW f, NEW v, NEW r, NEW t, Grows(e, f, v), TrailOK(p, e), TrailOK(p, f),
           ~CancelledThenCompleted(f), Body(p, e, r), InPhase(p, e, r),
           PhaseAt(p, r) \in {"do", "once"}, ~Has(p, Step(e), {"prompt"}), t.index = 0,
           v.type = "step.completed", v.step = r.node.step
    PROVE  Body(p, f, t)
<1>1. PICK n, L : n = Len(e) /\ L = LastStart(e)
  OBVIOUS
<1>2. n \in Nat /\ Len(f) = n + 1 /\ DOMAIN f = 1 .. n + 1 /\ DOMAIN e = 1 .. n
      /\ (\A i \in 1 .. n : f[i] = e[i]) /\ f[n + 1] = v
  BY <1>1 DEF Grows
<1>3. /\ Attempt(p, e) /\ L # 0 /\ Failures(e) = {} /\ Regained(e) = {} /\ Step(e) = r.node.step
      /\ \A i \in DOMAIN e : e[i].type # "workflow.completed"
  BY <1>1, PhaseIs
<1>4. Open(e) = {} /\ Outcomes(e) = {}
      /\ \A c \in Cancels(e) : L < c /\ e[c].step = Step(e)
  BY <1>1, AtTheEnd
<1>5. LastStart(f) = L /\ Step(f) = Step(e) /\ Count(f) = Count(e)
  BY <1>1, <1>3, StartsGrow
<1>6. Open(f) = {} /\ Failures(f) = {}
  BY <1>3, <1>4, AttemptStays
<1>7. Outcomes(f) = {n + 1}
  BY <1>2, <1>4, AttemptGrows
<1>8. Fits(p, e, f, v)
  BY <1>1, <1>3, <1>4, <1>6 DEF Fits
<1>9. Attempt(p, f)
  BY <1>3, <1>8, AttemptFits
<1>10. Between(f)
  BY <1>6 DEF Between
<1>11. Parked(f, t)
  BY <1>2 DEF Parked
<1>12. Onwards(f, t)
  <2>1. \A i \in DOMAIN f : f[i].type # "workflow.completed"
    BY <1>2, <1>3
  <2> QED
    BY <1>6, <1>7, <2>1 DEF Onwards
<1>13. Cancels(f) = {}
  <2>1. v.type \notin Reopening /\ v.type # "step.cancelled"
    BY DEF Reopening
  <2>2. Cancels(f) = Cancels(e) \cup {c \in {Len(f)} : v.type = "step.cancelled"}
    BY <2>1, CyclesGrow
  <2>3. ASSUME NEW c \in Cancels(e) PROVE FALSE
    <3>1. c \in DOMAIN e /\ e[c].type = "step.cancelled" /\ L < c /\ e[c].step = Step(e)
      BY <1>4, <2>3 DEF Cancels
    <3>2. CancelledThenCompleted(f)
      BY <1>1, <1>3, <3>1, CancelledThenOutput
    <3> QED
      BY <3>2
  <2> QED
    BY <2>1, <2>2, <2>3
<1>14. CancelsHold(p, f, t)
  BY <1>13 DEF CancelsHold
<1> QED
  BY <1>9, <1>10, <1>11, <1>12, <1>14 DEF Body

\* The run starts a step.
LEMMA StepStarts ==
    ASSUME NEW p, NEW e, NEW f, NEW v, NEW r, NEW t, Grows(e, f, v), TrailOK(p, e), TrailOK(p, f),
           Body(p, e, r), r.pc = "step", r.index = 0, r.node.step \in DOMAIN p,
           r.value = r.node.input, r.at = 1, r.waits = Unanswered,
           v.type = "step.started", v.step = r.node.step,
           t.pc = "phase", t.index = Count(f), t.node = r.node, t.at = r.at, t.value = r.value, t.waits = r.waits
    PROVE  Body(p, f, t)
<1>1. PICK n, L : n = Len(e) /\ L = LastStart(e)
  OBVIOUS
<1>2. n \in Nat /\ Len(f) = n + 1 /\ DOMAIN f = 1 .. n + 1 /\ DOMAIN e = 1 .. n
      /\ (\A i \in 1 .. n : f[i] = e[i]) /\ f[n + 1] = v
  BY <1>1 DEF Grows
<1>3. Attempt(p, e) /\ Onwards(e, r) /\ CancelsHold(p, e, r)
  BY DEF Body
<1>4. /\ Starts(f) = Starts(e) \cup {n + 1} /\ LastStart(f) = n + 1 /\ Count(f) = Count(e) + 1
      /\ Step(f) = v.step /\ \A T : Recent(f, T) = {}
  BY <1>2, StartOpens
<1>5. Outcomes(f) = {} /\ Failures(f) = {} /\ Given(f) = {} /\ Asked(f) = {} /\ Regained(f) = {} /\ Open(f) = {}
  BY StartOpens
<1>6. Attempt(p, f)
  BY <1>3, AttemptStarts DEF Onwards
<1>7. Count(f) # 0 /\ t.index # 0
  <2>1. Starts(e) \in SUBSET Starts(e)
    OBVIOUS
  <2>2. Count(e) \in Nat
    BY <2>1, StartsCounted DEF Count
  <2> QED
    BY <1>4, <2>2
<1>8. WellBuilt(p) /\ Phases(p, Step(f)) = Phases(p, r.node.step)
  BY <1>4 DEF TrailOK
<1>9. DOMAIN Phases(p, Step(f)) = 1 .. Len(Phases(p, Step(f))) /\ Len(Phases(p, Step(f))) \in Nat
  BY <1>4, <1>8, PhasesOf
<1>10. Inside(p, f, t)
  <2>1. ~Prompted(p, f, t.at)
    BY <1>9 DEF Prompted
  <2>2. Outputs(f, Given(f)) = Unanswered
    BY <1>5 DEF Outputs, Unanswered
  <2>3. \A i \in Waits(p, Step(f)) : ~(i < t.at)
    BY <1>9 DEF Waits
  <2>4. t.index = Count(f) /\ LastStart(f) # 0 /\ Step(f) = t.node.step
    BY <1>2, <1>4
  <2> QED
    BY <1>5, <2>1, <2>2, <2>3, <2>4 DEF Inside
<1>11. Replays(p, f, t)
  BY <1>5 DEF Replays
<1>12. Parked(f, t)
  BY <1>2 DEF Parked
<1>13. Onwards(f, t)
  <2>1. Done \notin DOMAIN p
    BY <1>8 DEF WellBuilt
  <2>2. \A i \in DOMAIN e : e[i].type # "workflow.completed"
    BY <1>3, <2>1 DEF Onwards
  <2>3. \A i \in DOMAIN f : f[i].type # "workflow.completed"
    BY <1>2, <2>2
  <2> QED
    BY <1>4, <2>3 DEF Onwards
<1>14. CancelsHold(p, f, t)
  <2>1. v.type \notin Reopening /\ v.type # "step.cancelled"
    BY DEF Reopening
  <2>2. Cancels(f) = Cancels(e) \cup {c \in {Len(f)} : v.type = "step.cancelled"}
    BY <2>1, CyclesGrow
  <2>3. ASSUME NEW c \in Cancels(e) PROVE CancelHolds(p, f, t, c)
    <3>1. CancelHolds(p, e, r, c) /\ c \in 1 .. n /\ f[c] = e[c]
      BY <1>2, <1>3, <2>3 DEF CancelsHold, Cancels
    <3>2. L < c /\ Outcomes(e) = {} /\ Waits(p, e[c].step) # {}
      BY <1>1, <3>1 DEF CancelHolds
    <3>3. L # 0 /\ e[c].step = Step(e)
      BY <1>1, <2>3, <3>1, CancelledIsLast
    <3>4. Step(e) = v.step
      BY <1>1, <1>3, <3>2, <3>3 DEF Onwards
    <3>5. {i \in Starts(f) : i <= c /\ f[i].step = f[c].step} = {i \in Starts(e) : i <= c /\ e[i].step = e[c].step}
      <4>1. \A i \in Starts(e) : f[i] = e[i]
        BY <1>2, LastStartIs
      <4> QED
        BY <1>2, <1>4, <3>1, <4>1
    <3>6. StartBefore(f, c) = StartBefore(e, c)
      BY <3>5 DEF StartBefore
    <3>7. \A i \in Starts(f) : i >= StartBefore(f, c) => f[i].step = f[c].step
      <4>1. \A i \in Starts(e) : f[i] = e[i]
        BY <1>2, LastStartIs
      <4> QED
        BY <1>2, <1>4, <3>1, <3>3, <3>4, <3>6, <4>1 DEF CancelHolds
    <3>8. ASSUME NEW j \in DOMAIN f, StartBefore(f, c) <= j PROVE f[j].type # "step.completed"
      <4>1. CASE j = n + 1
        BY <1>2, <4>1
      <4>2. CASE j # n + 1 /\ j <= L
        BY <1>1, <1>2, <3>1, <3>6, <3>8, <4>2 DEF CancelHolds
      <4>3. CASE j # n + 1 /\ ~(j <= L)
        <5>1. j \in DOMAIN e /\ L < j /\ f[j] = e[j]
          <6>1. L \in Nat
            BY <1>1, LastStartIs
          <6> QED
            BY <1>2, <4>3, <6>1
        <5> QED
          BY <1>1, <3>2, <5>1 DEF Outcomes, Recent
      <4> QED
        BY <4>1, <4>2, <4>3
    <3>9. Waits(p, Step(f)) # {} /\ Waits(p, f[c].step) # {}
      BY <1>4, <3>1, <3>2, <3>3, <3>4
    <3> QED
      BY <1>5, <1>7, <3>1, <3>6, <3>7, <3>8, <3>9 DEF CancelHolds
  <2> QED
    BY <2>1, <2>2, <2>3 DEF CancelsHold
<1> QED
  BY <1>6, <1>7, <1>10, <1>11, <1>12, <1>13, <1>14 DEF Body

\* A failed attempt is made again.
LEMMA TriedAgain ==
    ASSUME NEW p, NEW e, NEW f, NEW v, NEW r, NEW t, Grows(e, f, v), TrailOK(p, e), TrailOK(p, f),
           ~OutputThen(f, {"step.attemptFailed", "step.cancelled"}),
           Body(p, e, r), InPhase(p, e, r), PhaseAt(p, r) \notin WaitId,
           v.type = "step.attemptFailed", v.step = r.node.step,
           t.pc = "phase", t.index = r.index, t.node = r.node, t.at = 1, t.value = r.node.input, t.waits = r.waits
    PROVE  Body(p, f, t)
<1>1. PICK n, L : n = Len(e) /\ L = LastStart(e)
  OBVIOUS
<1>2. n \in Nat /\ Len(f) = n + 1 /\ DOMAIN f = 1 .. n + 1 /\ DOMAIN e = 1 .. n
      /\ (\A i \in 1 .. n : f[i] = e[i]) /\ f[n + 1] = v
  BY <1>1 DEF Grows
<1>3. /\ Attempt(p, e) /\ Inside(p, e, r) /\ L # 0 /\ Step(e) = r.node.step
      /\ Failures(e) = {} /\ Regained(e) = {} /\ Open(e) = {}
      /\ DOMAIN Phases(p, Step(e)) = 1 .. Len(Phases(p, Step(e))) /\ Len(Phases(p, Step(e))) \in Nat
      /\ \A i \in DOMAIN e : e[i].type # "workflow.completed"
  BY <1>1, PhaseIs
<1>4. Outcomes(e) = {}
  <2>1. v.type \in {"step.attemptFailed", "step.cancelled"} /\ v.type # "step.started" /\ v.step = Step(e)
    BY <1>3
  <2> QED
    BY <1>3, <2>1, OutputThenEnd
<1>5. LastStart(f) = L /\ Step(f) = Step(e) /\ Count(f) = Count(e)
  BY <1>1, <1>3, StartsGrow
<1>6. /\ Given(f) = Given(e) /\ Failures(f) = {} /\ Asked(f) = Asked(e) /\ Open(f) = {}
      /\ Regained(f) = {} /\ Recent(f, Reopening) = Recent(e, Reopening) /\ Outcomes(f) = {}
  BY <1>3, <1>4, AttemptStays DEF Reopening
<1>7. Fits(p, e, f, v)
  BY <1>1, <1>3 DEF Fits, DriverEvent
<1>8. Attempt(p, f)
  BY <1>3, <1>7, AttemptFits
<1>9. Outputs(f, Given(f)) = Outputs(e, Given(e))
  <2>1. \A i \in Given(e) : f[i] = e[i]
    BY <1>2 DEF Given, Recent
  <2> QED
    BY <1>6, <2>1, OutputsAgree
<1>10. Inside(p, f, t)
  <2>1. ~Prompted(p, f, t.at)
    BY <1>3, <1>5 DEF Prompted
  <2>2. \A i \in Waits(p, Step(f)) : ~(i < t.at)
    BY <1>3, <1>5 DEF Waits
  <2>3. t.pc = "phase" /\ Recent(f, Reopening) = {} => Asked(f) = {}
    BY <1>3, <1>6 DEF Inside, InPhase
  <2>4. t.index = Count(f) /\ LastStart(f) # 0 /\ Step(f) = t.node.step /\ t.waits = Outputs(f, Given(f))
    BY <1>3, <1>5, <1>9 DEF Inside
  <2> QED
    BY <1>6, <2>1, <2>2, <2>3, <2>4 DEF Inside
<1>11. Replays(p, f, t)
  BY <1>6 DEF Replays
<1>12. Parked(f, t)
  BY <1>2 DEF Parked
<1>13. Onwards(f, t)
  <2>1. \A i \in DOMAIN f : f[i].type # "workflow.completed"
    BY <1>2, <1>3
  <2> QED
    BY <1>3, <1>5, <2>1 DEF Onwards
<1>14. CancelsHold(p, f, t)
  <2>1. v.type \notin {"step.started"} \cup Reopening /\ v.type # "step.cancelled" /\ v.type # "step.completed"
    BY DEF Reopening
  <2>2. CancelsHold(p, e, r)
    BY DEF Body
  <2>3. (r.pc \in {"cancelled", "off"} => t.pc \in {"cancelled", "off"}) /\ (r.index = 0 <=> t.index = 0)
    BY DEF InPhase
  <2> QED
    BY <2>1, <2>2, <2>3, CancelsKept
<1>15. t.index # 0
  BY DEF InPhase
<1> QED
  BY <1>8, <1>10, <1>11, <1>12, <1>13, <1>14, <1>15 DEF Body

\* The last step is cancelled.
LEMMA StepCancels ==
    ASSUME NEW p, NEW e, NEW f, NEW v, NEW t, Grows(e, f, v), TrailOK(p, e), TrailOK(p, f),
           ~OutputThen(f, {"step.attemptFailed", "step.cancelled"}), Attempt(p, e), LastStart(e) # 0,
           v.type = "step.cancelled", v.step = Step(e),
           Waits(p, Step(e)) # {} \/ t.pc \in {"cancelled", "off"}
    PROVE  CancelHolds(p, f, t, Len(f))
<1>1. PICK n, L : n = Len(e) /\ L = LastStart(e)
  OBVIOUS
<1>2. n \in Nat /\ Len(f) = n + 1 /\ DOMAIN f = 1 .. n + 1 /\ DOMAIN e = 1 .. n
      /\ (\A i \in 1 .. n : f[i] = e[i]) /\ f[n + 1] = v
  BY <1>1 DEF Grows
<1>3. Starts(f) = Starts(e) /\ LastStart(f) = L /\ Step(f) = Step(e)
  BY <1>1, StartsGrow
<1>4. L \in 1 .. n /\ L \in Starts(e) /\ Starts(e) \subseteq 1 .. n /\ \A i \in Starts(e) : i <= L
  BY <1>1, <1>2, LastStartIs
<1>5. StartBefore(f, n + 1) = L
  <2>1. PICK S : S = {i \in Starts(f) : i <= n + 1 /\ f[i].step = f[n + 1].step}
    OBVIOUS
  <2>2. L \in S /\ S \in SUBSET (1 .. n) /\ \A i \in S : i <= L
    BY <1>1, <1>2, <1>3, <1>4, <2>1 DEF Step
  <2>3. Trail!Latest(S) = L
    BY <1>2, <2>2, LatestIs
  <2> QED
    BY <2>1, <2>3 DEF StartBefore
<1>6. Outcomes(e) = {} /\ Outcomes(f) = {}
  <2>1. v.type \in {"step.attemptFailed", "step.cancelled"} /\ v.type # "step.started"
    OBVIOUS
  <2>2. Outcomes(e) = {}
    BY <2>1, OutputThenEnd
  <2> QED
    BY <2>1, <2>2, AttemptStays
<1>7. \A i \in Starts(f) : i >= L => f[i].step = f[n + 1].step
  <2>1. ASSUME NEW i \in Starts(e), i >= L PROVE i = L
    BY <1>4, <2>1
  <2>2. f[L].step = v.step
    BY <1>1, <1>2, <1>4 DEF Step
  <2> QED
    BY <1>2, <1>3, <2>1, <2>2
<1>8. \A j \in DOMAIN f : L <= j /\ j <= L => f[j].type # "step.completed"
  <2>1. f[L].type = "step.started"
    BY <1>2, <1>4 DEF Starts
  <2>2. \A j \in DOMAIN f : L <= j /\ j <= L => j = L
    BY <1>2, <1>4
  <2> QED
    BY <2>1, <2>2
<1>9. LastStart(f) < n + 1 /\ ~(LastStart(f) > n + 1) /\ L # 0
  BY <1>2, <1>3, <1>4
<1>10. Waits(p, f[n + 1].step) # {} \/ t.pc \in {"cancelled", "off"}
  BY <1>2
<1>11. StartBefore(f, Len(f)) = L /\ Len(f) = n + 1
  BY <1>2, <1>5
<1> QED
  BY <1>3, <1>6, <1>7, <1>8, <1>9, <1>10, <1>11 DEF CancelHolds

\* A step cancelled while it waits is the last one.
LEMMA WaitCancelled ==
    ASSUME NEW p, NEW e, NEW f, NEW v, Grows(e, f, v), TrailOK(p, e), TrailOK(p, f),
           ~OutputThen(f, {"step.attemptFailed", "step.cancelled"}), Attempt(p, e),
           v.type = "step.cancelled", NEW w \in DOMAIN e, e[w].type = "wait.started", v.step = e[w].step
    PROVE  LastStart(e) # 0 /\ v.step = Step(e) /\ Waits(p, Step(e)) # {}
<1>1. PICK n, L, b : n = Len(e) /\ L = LastStart(e) /\ b = StartBefore(f, Len(f))
  OBVIOUS
<1>2. n \in Nat /\ Len(f) = n + 1 /\ DOMAIN f = 1 .. n + 1 /\ DOMAIN e = 1 .. n
      /\ (\A i \in 1 .. n : f[i] = e[i]) /\ f[n + 1] = v
  BY <1>1 DEF Grows
<1>3. Starts(f) = Starts(e)
  BY StartsGrow
<1>4. PICK s \in Starts(e) : e[s].step = e[w].step
  BY DEF Attempt, WaitsStarted, WaitStarted, StartedUpTo
<1>5. Starts(e) \subseteq 1 .. n /\ (\A i \in Starts(e) : i <= L) /\ L \in 0 .. n /\ (L # 0 => L \in Starts(e))
  BY <1>1, <1>2, LastStartIs
<1>6. s <= b /\ b # 0 /\ b \in Starts(e) /\ f[b].step = v.step
  <2>1. n + 1 \in DOMAIN f /\ s \in Starts(f) /\ s <= n + 1 /\ f[s].step = f[n + 1].step
    BY <1>2, <1>3, <1>4, <1>5
  <2> QED
    BY <1>1, <1>2, <1>3, <2>1, StartBeforeIs
<1>7. b <= L /\ L # 0 /\ b \in 1 .. n /\ f[b] = e[b]
  BY <1>2, <1>5, <1>6
<1>8. ~(b < L)
  <2>1. ASSUME b < L PROVE FALSE
    <3>1. Followed(e, b)
      BY <1>1, <1>2, <1>6, <1>7, <2>1 DEF Attempt, AttemptsEnd, Starts
    <3>2. PICK k \in DOMAIN e : b < k /\ e[k].step = e[b].step /\ e[k].type \in {"step.started", "step.completed"}
      BY <3>1 DEF Followed
    <3>3. \A l \in Starts(e) : f[l].step = v.step => l <= b
      <4>1. \A l \in Starts(e) : l <= n + 1 /\ l \in Starts(f)
        BY <1>2, <1>3, <1>5
      <4>2. n + 1 \in DOMAIN f /\ b = StartBefore(f, n + 1) /\ f[n + 1].step = v.step
        BY <1>1, <1>2
      <4>3. \A l \in Starts(f) : l <= n + 1 /\ f[l].step = f[n + 1].step => l <= b
        BY <4>2, StartBeforeIs
      <4> QED
        BY <4>1, <4>2, <4>3
    <3>4. e[k].type = "step.completed"
      <4>1. ASSUME e[k].type = "step.started" PROVE FALSE
        <5>1. k \in Starts(e) /\ f[k].step = v.step
          BY <1>2, <1>6, <1>7, <3>2, <4>1 DEF Starts
        <5> QED
          BY <1>2, <1>7, <3>2, <3>3, <5>1
      <4> QED
        BY <3>2, <4>1
    <3>5. ~\E l \in k .. n + 1 : f[l].type = "step.started" /\ f[l].step = f[n + 1].step
      <4>1. ASSUME NEW l \in k .. n + 1, f[l].type = "step.started", f[l].step = v.step PROVE FALSE
        <5>1. l \in Starts(f) /\ b < l
          BY <1>2, <1>7, <3>2, <4>1 DEF Starts
        <5>2. l <= b
          BY <1>3, <3>3, <4>1, <5>1
        <5> QED
          BY <1>2, <1>7, <4>1, <5>1, <5>2
      <4> QED
        BY <1>2, <4>1
    <3>6. k \in DOMAIN f /\ n + 1 \in DOMAIN f /\ k < n + 1 /\ f[k] = e[k] /\ f[k].step = f[n + 1].step
      BY <1>2, <1>6, <1>7, <3>2
    <3>7. SameAttempt(f, k, n + 1)
      BY <3>5, <3>6 DEF SameAttempt
    <3>8. f[n + 1].type \in {"step.attemptFailed", "step.cancelled"}
      BY <1>2
    <3> QED
      BY <3>4, <3>6, <3>7, <3>8 DEF OutputThen, Then
  <2> QED
    BY <2>1
<1>9. b = L
  BY <1>5, <1>7, <1>8
<1>10. Waits(p, v.step) # {}
  BY DEF TrailOK, EventOK
<1> QED
  BY <1>1, <1>6, <1>7, <1>9, <1>10 DEF Step

\* The event that reopens the run: what the attempt recorded stays.
LEMMA ReopeningGrows ==
    ASSUME NEW p, NEW e, NEW f, NEW v, Grows(e, f, v), TrailOK(p, e), v.type \in Reopening
    PROVE  /\ LastStart(f) = LastStart(e) /\ Count(f) = Count(e) /\ (LastStart(e) # 0 => Step(f) = Step(e))
           /\ Outcomes(f) = Outcomes(e) /\ Failures(f) = Failures(e) /\ Given(f) = Given(e)
           /\ Asked(f) = Asked(e) /\ Open(f) = Open(e) /\ Outputs(f, Given(f)) = Outputs(e, Given(e))
           /\ (v.type = "workflow.resumed" => Regained(f) = Regained(e))
           /\ (v.type = "workflow.retryStarted" => Regained(f) # {})
           /\ Recent(f, Reopening) # {} /\ Cancels(f) = {}
           /\ (\E i \in DOMAIN f : f[i].type = "workflow.completed") => \E i \in DOMAIN e : e[i].type = "workflow.completed"
<1>1. PICK n : n = Len(e)
  OBVIOUS
<1>2. n \in Nat /\ Len(f) = n + 1 /\ DOMAIN f = 1 .. n + 1 /\ DOMAIN e = 1 .. n
      /\ (\A i \in 1 .. n : f[i] = e[i]) /\ f[n + 1] = v
  BY <1>1 DEF Grows
<1>3. v.type \in {"workflow.resumed", "workflow.retryStarted"}
  BY DEF Reopening
<1>4. LastStart(f) = LastStart(e) /\ Count(f) = Count(e) /\ (LastStart(e) # 0 => Step(f) = Step(e))
  BY <1>3, StartsGrow
<1>5. /\ Outcomes(f) = Outcomes(e) /\ Failures(f) = Failures(e) /\ Given(f) = Given(e)
      /\ Asked(f) = Asked(e) /\ (v.type = "workflow.resumed" => Regained(f) = Regained(e))
  BY <1>3, AttemptStays
<1>6. Open(f) = Open(e)
  BY <1>3, AttemptGrows
<1>7. Outputs(f, Given(f)) = Outputs(e, Given(e))
  <2>1. \A i \in Given(e) : f[i] = e[i]
    BY <1>2 DEF Given, Recent
  <2> QED
    BY <1>5, <2>1, OutputsAgree
<1>8. n + 1 \in Recent(f, Reopening) /\ (v.type = "workflow.retryStarted" => n + 1 \in Regained(f))
  <2>1. LastStart(f) < n + 1
    BY <1>1, <1>2, <1>4, LastStartIs
  <2> QED
    BY <1>2, <2>1 DEF Recent, Regained
<1>9. Cancels(f) = {}
  BY CyclesGrow
<1>10. (\E i \in DOMAIN f : f[i].type = "workflow.completed") => \E i \in DOMAIN e : e[i].type = "workflow.completed"
  <2>1. ASSUME NEW i \in DOMAIN f, f[i].type = "workflow.completed" PROVE i \in DOMAIN e /\ e[i] = f[i]
    BY <1>2, <1>3, <2>1
  <2> QED
    BY <2>1
<1> QED
  BY <1>4, <1>5, <1>6, <1>7, <1>8, <1>9, <1>10

\* The run is opened again to start a step.
LEMMA ReopenedBetween ==
    ASSUME NEW p, NEW e, NEW f, NEW v, NEW r, NEW t, Grows(e, f, v), TrailOK(p, e), TrailOK(p, f),
           Body(p, e, r), Fits(p, e, f, v), v.type \in Reopening, t.node = r.node, t.index = 0, Between(f)
    PROVE  Body(p, f, t)
<1>1. v.type \in {"workflow.resumed", "workflow.retryStarted"} /\ f[Len(f)] = v
  BY DEF Reopening, Grows
<1>2. Attempt(p, f)
  BY <1>1, AttemptFits DEF Body
<1>3. Parked(f, t)
  BY <1>1 DEF Parked
<1>4. Onwards(f, t)
  BY ReopeningGrows DEF Body, Onwards
<1>5. CancelsHold(p, f, t)
  BY ReopeningGrows DEF CancelsHold
<1> QED
  BY <1>2, <1>3, <1>4, <1>5 DEF Body

\* The run is opened again in the attempt that waits.
LEMMA ReopenedInside ==
    ASSUME NEW p, NEW e, NEW f, NEW v, NEW r, NEW t, Grows(e, f, v), TrailOK(p, e), TrailOK(p, f),
           Body(p, e, r), v.type = "workflow.resumed", NEW w \in Open(e), Step(e) \in DOMAIN p,
           t.pc = "phase", t.index = Count(e), t.node = r.node,
           r.index = Count(e) => SamePlace(r, t),
           r.index = 0 =>
              /\ Step(e) = t.node.step /\ Regained(e) = {}
              /\ t.at \in DOMAIN Phases(p, Step(e)) /\ Phases(p, Step(e))[t.at] = e[w].wait
              /\ t.waits = Outputs(e, Given(e))
              /\ Outcomes(e) = {} => ~Prompted(p, e, t.at) /\ t.value = t.node.input
    PROVE  Body(p, f, t)
<1>1. /\ LastStart(f) = LastStart(e) /\ Count(f) = Count(e) /\ (LastStart(e) # 0 => Step(f) = Step(e))
      /\ Outcomes(f) = Outcomes(e) /\ Failures(f) = Failures(e) /\ Given(f) = Given(e)
      /\ Asked(f) = Asked(e) /\ Open(f) = Open(e) /\ Outputs(f, Given(f)) = Outputs(e, Given(e))
      /\ Regained(f) = Regained(e) /\ Recent(f, Reopening) # {} /\ Cancels(f) = {}
      /\ (\E i \in DOMAIN f : f[i].type = "workflow.completed") => \E i \in DOMAIN e : e[i].type = "workflow.completed"
  BY ReopeningGrows DEF Reopening
<1>2. Attempt(p, e) /\ Onwards(e, r) /\ f[Len(f)] = v
  BY DEF Body, Grows
<1>3. Failures(e) = {} /\ LastStart(e) # 0
  BY <1>2 DEF Attempt, OwnEvents, OpenLast, Open, Asked, Recent, DriverEvent
<1>4. Fits(p, e, f, v)
  BY DEF Fits, DriverEvent
<1>5. Attempt(p, f)
  BY <1>2, <1>4, AttemptFits
<1>6. Count(e) # 0
  <2>1. Starts(e) \in SUBSET Starts(e) /\ LastStart(e) \in Starts(e)
    BY <1>3, LastStartIs
  <2> QED
    BY <2>1, StartsCounted DEF Count
<1>7. Parked(f, t)
  BY <1>2 DEF Parked
<1>8. Onwards(f, t)
  BY <1>1, <1>2 DEF Onwards
<1>9. CancelsHold(p, f, t)
  BY <1>1 DEF CancelsHold
<1>10. Inside(p, f, t) /\ Replays(p, f, t)
  <2>1. CASE r.index # 0
    <3>1. Inside(p, e, r) /\ Replays(p, e, r)
      BY <2>1 DEF Body
    <3>2. SamePlace(r, t)
      BY <3>1 DEF Inside
    <3>3. Inside(p, f, t)
      <4>1. Prompted(p, f, t.at) <=> Prompted(p, e, r.at)
        BY <1>1, <1>3, <3>2 DEF Prompted, SamePlace
      <4>2. \A j \in Outcomes(e) : f[j] = e[j]
        BY DEF Outcomes, Recent, Grows
      <4>3. \A j \in Open(e) : f[j] = e[j]
        BY DEF Open, Asked, Recent, Grows
      <4> QED
        BY <1>1, <1>3, <3>1, <3>2, <4>1, <4>2, <4>3 DEF Inside, SamePlace
    <3>4. Replays(p, f, t)
      <4>1. \A j \in Outcomes(e) : Throws(p, e, j) <=> Throws(p, f, j)
        BY <1>3, ThrowsStays
      <4> QED
        BY <1>1, <1>3, <3>1, <3>2, <4>1 DEF Replays, SamePlace
    <3> QED
      BY <3>3, <3>4
  <2>2. CASE r.index = 0
    <3>1. Outcomes(e) = {}
      BY <2>2 DEF Body, Between
    <3>2. Replays(p, f, t)
      BY <1>1, <3>1 DEF Replays
    <3>3. ~Prompted(p, f, t.at)
      BY <1>1, <1>3, <2>2, <3>1 DEF Prompted
    <3>4. ASSUME NEW x \in Open(f) PROVE t.at \in DOMAIN Phases(p, Step(f)) /\ Phases(p, Step(f))[t.at] = f[x].wait
      <4>1. f[x] = e[x] /\ e[x].wait = e[w].wait
        BY <1>1, <1>2 DEF Attempt, OpenAlike, Open, Asked, Recent, Grows
      <4> QED
        BY <1>1, <1>3, <2>2, <4>1
    <3>5. ASSUME NEW i \in Waits(p, Step(f)), i < t.at PROVE t.waits[Phases(p, Step(f))[i]] # 0
      <4>1. PICK q : q = Phases(p, Step(e))
        OBVIOUS
      <4>2. i \in DOMAIN q /\ q[i] \in WaitId /\ w \in Asked(e) /\ t.at \in DOMAIN q /\ q[t.at] = e[w].wait
        BY <1>1, <1>3, <2>2, <3>5, <4>1 DEF Waits, Open
      <4>3. Answers(p, e, e[w].wait, w)
        BY <1>2, <4>2 DEF Attempt, GivenInOrder
      <4>4. PICK k \in Given(e) : e[k].wait = q[i]
        BY <3>5, <4>1, <4>2, <4>3 DEF Answers
      <4>5. Outputs(e, Given(e))[q[i]] # 0
        BY <4>2, <4>4, OutputOf, GivenHaveOutputs
      <4> QED
        BY <1>1, <1>3, <2>2, <4>1, <4>5
    <3>6. /\ t.index = Count(f) /\ LastStart(f) # 0 /\ Step(f) = t.node.step /\ Regained(f) = {}
          /\ t.waits = Outputs(f, Given(f)) /\ t.value = t.node.input /\ Outcomes(f) = {} /\ Failures(f) = {}
      BY <1>1, <1>3, <2>2, <3>1
    <3>7. Inside(p, f, t)
      BY <1>1, <3>3, <3>4, <3>5, <3>6 DEF Inside
    <3> QED
      BY <3>2, <3>7
  <2> QED
    BY <2>1, <2>2
<1> QED
  BY <1>5, <1>6, <1>7, <1>8, <1>9, <1>10 DEF Body

\* The attempts retries took up again, and what the replay of a retry keeps.
SourceOf(e) == {r \in DOMAIN e : e[r].type = "workflow.retryStarted" /\ e[r].source # 0}
Retried(e) == UNION {ResolvedAttempt(e, e[r].source) : r \in SourceOf(e)}
Lasting == {"step.started", "step.failed", "step.cancelled"}
Unretried(e) == {i \in DOMAIN e : i \notin Retried(e) \/ e[i].type \in Lasting}

\* The attempt a position belongs to starts at or before it.
LEMMA ResolvedIs ==
    ASSUME NEW p, NEW e, TrailOK(p, e), NEW s \in 1 .. Len(e)
    PROVE  /\ ResolvedAttempt(e, s) \subseteq 1 .. s
           /\ \A i \in Starts(e) : i <= s /\ e[i].step = e[s].step => \A k \in ResolvedAttempt(e, s) : i <= k
           /\ LastStart(e) # 0 /\ LastStart(e) <= s /\ e[s].step = Step(e) =>
                ResolvedAttempt(e, s) = LastStart(e) .. s
<1>1. PICK S, m : S = {i \in Starts(e) : i <= s /\ e[i].step = e[s].step} /\ m = Trail!Latest(S)
  OBVIOUS
<1>2. S \in SUBSET (1 .. s) /\ S \subseteq Starts(e) /\ s \in Nat /\ s # 0
  BY <1>1, LastStartIs
<1>3. m \in S \cup {0} /\ (\A j \in S : j <= m) /\ (m = 0 <=> S = {})
  BY <1>1, <1>2, LatestOf
<1>4. ResolvedAttempt(e, s) = (IF S = {} THEN s ELSE m) .. s
  BY <1>1 DEF ResolvedAttempt
<1>5. ASSUME LastStart(e) # 0, LastStart(e) <= s, e[s].step = Step(e)
      PROVE  ResolvedAttempt(e, s) = LastStart(e) .. s
  <2>1. LastStart(e) \in S /\ \A i \in S : i <= LastStart(e)
    BY <1>1, <1>2, <1>5, LastStartIs DEF Step
  <2>2. m = LastStart(e)
    BY <1>1, <1>2, <2>1, LatestIs
  <2> QED
    BY <1>4, <2>1, <2>2
<1>6. ASSUME NEW i \in Starts(e), i <= s, e[i].step = e[s].step, NEW k \in ResolvedAttempt(e, s) PROVE i <= k
  <2>1. i \in S
    BY <1>1, <1>6
  <2> QED
    BY <1>2, <1>3, <1>4, <1>6, <2>1
<1>7. ResolvedAttempt(e, s) \subseteq 1 .. s
  BY <1>2, <1>3, <1>4
<1> QED
  BY <1>5, <1>6, <1>7

\* The attempt a position belongs to does not depend on what comes after it.
LEMMA ResolvedStays ==
    ASSUME NEW p, NEW e, NEW f, NEW v, Grows(e, f, v), TrailOK(p, e), NEW s \in 1 .. Len(e)
    PROVE  ResolvedAttempt(f, s) = ResolvedAttempt(e, s)
<1>1. PICK n : n = Len(e)
  OBVIOUS
<1>2. n \in Nat /\ Len(f) = n + 1 /\ DOMAIN f = 1 .. n + 1 /\ DOMAIN e = 1 .. n
      /\ (\A i \in 1 .. n : f[i] = e[i]) /\ f[n + 1] = v
  BY <1>1 DEF Grows
<1>3. {i \in Starts(f) : i <= s /\ f[i].step = f[s].step} = {i \in Starts(e) : i <= s /\ e[i].step = e[s].step}
  <2>1. \A i \in 1 .. n : i \in Starts(f) <=> i \in Starts(e)
    BY <1>2 DEF Starts
  <2>2. Starts(e) \subseteq 1 .. n /\ Starts(f) \subseteq 1 .. n + 1
    BY <1>2 DEF Starts
  <2> QED
    BY <1>1, <1>2, <2>1, <2>2
<1> QED
  BY <1>3 DEF ResolvedAttempt

\* What retries took up lies in the trail.
LEMMA RetriedIs ==
    ASSUME NEW p, NEW e, TrailOK(p, e)
    PROVE  /\ SourceOf(e) \subseteq DOMAIN e /\ \A r \in SourceOf(e) : e[r].source \in 1 .. r - 1
           /\ Retried(e) \subseteq DOMAIN e /\ Unretried(e) \subseteq DOMAIN e
<1>1. \A r \in SourceOf(e) : e[r].source \in 1 .. r - 1 /\ r \in DOMAIN e
  BY DEF TrailOK, SourceOf
<1>2. DOMAIN e = 1 .. Len(e) /\ Len(e) \in Nat
  BY DEF TrailOK
<1>3. \A r \in SourceOf(e) : e[r].source \in 1 .. Len(e) /\ e[r].source \in Nat
  BY <1>1, <1>2
<1>4. \A r \in SourceOf(e) : ResolvedAttempt(e, e[r].source) \subseteq 1 .. e[r].source
  BY <1>3, ResolvedIs
<1>5. \A r \in SourceOf(e) : ResolvedAttempt(e, e[r].source) \subseteq DOMAIN e
  BY <1>2, <1>3, <1>4
<1> QED
  BY <1>1, <1>5 DEF Retried, Unretried

\* What is kept grows by the new event; a retry takes up the attempt it names.
LEMMA UnretriedGrows ==
    ASSUME NEW p, NEW e, NEW f, NEW v, Grows(e, f, v), TrailOK(p, e), TrailOK(p, f)
    PROVE  /\ ~(v.type = "workflow.retryStarted" /\ v.source # 0) =>
                \A i \in DOMAIN e : i \in Unretried(f) <=> i \in Unretried(e)
           /\ v.type = "workflow.retryStarted" /\ v.source # 0 =>
                \A i \in DOMAIN e : i \in Unretried(f) <=>
                    i \in Unretried(e) /\ (i \notin ResolvedAttempt(e, v.source) \/ e[i].type \in Lasting)
<1>1. PICK n : n = Len(e)
  OBVIOUS
<1>2. n \in Nat /\ Len(f) = n + 1 /\ DOMAIN f = 1 .. n + 1 /\ DOMAIN e = 1 .. n
      /\ (\A i \in 1 .. n : f[i] = e[i]) /\ f[n + 1] = v
  BY <1>1 DEF Grows
<1>3. \A r \in SourceOf(e) : e[r].source \in 1 .. r - 1 /\ r \in 1 .. n
  BY <1>2, RetriedIs
<1>4. \A r \in SourceOf(e) : ResolvedAttempt(f, f[r].source) = ResolvedAttempt(e, e[r].source)
  <2>1. ASSUME NEW r \in SourceOf(e) PROVE ResolvedAttempt(f, f[r].source) = ResolvedAttempt(e, e[r].source)
    <3>1. e[r].source \in 1 .. n /\ f[r] = e[r]
      BY <1>2, <1>3
    <3> QED
      BY <1>1, <3>1, ResolvedStays
  <2> QED
    BY <2>1
<1>5. ASSUME ~(v.type = "workflow.retryStarted" /\ v.source # 0)
      PROVE  \A i \in DOMAIN e : i \in Unretried(f) <=> i \in Unretried(e)
  <2>1. SourceOf(f) = SourceOf(e)
    BY <1>2, <1>5 DEF SourceOf
  <2>2. Retried(f) = Retried(e)
    BY <1>4, <2>1 DEF Retried
  <2> QED
    BY <1>2, <2>2 DEF Unretried
<1>6. ASSUME v.type = "workflow.retryStarted", v.source # 0, NEW i \in DOMAIN e
      PROVE  i \in Unretried(f) <=>
                i \in Unretried(e) /\ (i \notin ResolvedAttempt(e, v.source) \/ e[i].type \in Lasting)
  <2>1. SourceOf(f) = SourceOf(e) \cup {n + 1}
    BY <1>2, <1>6 DEF SourceOf
  <2>2. v.source \in 1 .. n
    <3>1. n + 1 \in SourceOf(f)
      BY <2>1
    <3>2. \A r \in SourceOf(f) : f[r].source \in 1 .. r - 1
      BY RetriedIs
    <3>3. f[n + 1].source \in 1 .. (n + 1) - 1
      BY <3>1, <3>2
    <3> QED
      BY <1>2, <3>3
  <2>3. ResolvedAttempt(f, f[n + 1].source) = ResolvedAttempt(e, v.source)
    BY <1>1, <1>2, <2>2, ResolvedStays
  <2>4. i \in Retried(f) <=> i \in Retried(e) \/ i \in ResolvedAttempt(e, v.source)
    BY <1>4, <2>1, <2>3 DEF Retried
  <2> QED
    BY <1>2, <2>4 DEF Unretried
<1> QED
  BY <1>5, <1>6

\* Without a retry since the last start all of the last attempt is kept.
LEMMA LastAttemptKept ==
    ASSUME NEW p, NEW e, TrailOK(p, e), LastStart(e) # 0, Regained(e) = {}
    PROVE  \A i \in DOMAIN e : LastStart(e) <= i => i \in Unretried(e)
<1>1. PICK L : L = LastStart(e)
  OBVIOUS
<1>2. L \in Starts(e) /\ L \in 1 .. Len(e) /\ DOMAIN e = 1 .. Len(e) /\ Len(e) \in Nat
  BY <1>1, LastStartIs
<1>3. ASSUME NEW r \in SourceOf(e) PROVE \A i \in ResolvedAttempt(e, e[r].source) : i < L
  <2>1. r \in 1 .. Len(e) /\ e[r].type = "workflow.retryStarted" /\ e[r].source \in 1 .. r - 1
    BY <1>2, RetriedIs DEF SourceOf
  <2>2. ~(L < r)
    BY <1>1, <1>2, <2>1 DEF Regained, Recent
  <2>3. r # L
    BY <1>2, <2>1 DEF Starts
  <2>4. e[r].source < L /\ e[r].source \in 1 .. Len(e)
    BY <1>2, <2>1, <2>2, <2>3
  <2>5. ResolvedAttempt(e, e[r].source) \subseteq 1 .. e[r].source
    BY <2>4, ResolvedIs
  <2> QED
    BY <1>2, <2>4, <2>5
<1>4. ASSUME NEW i \in DOMAIN e, L <= i PROVE i \notin Retried(e)
  <2>1. ASSUME NEW r \in SourceOf(e), i \in ResolvedAttempt(e, e[r].source) PROVE FALSE
    <3>1. i < L
      BY <1>3, <2>1
    <3> QED
      BY <1>2, <1>4, <3>1
  <2> QED
    BY <2>1 DEF Retried
<1> QED
  BY <1>1, <1>4 DEF Unretried

\* A start is always kept.
LEMMA StartsKept ==
    ASSUME NEW p, NEW e, TrailOK(p, e)
    PROVE  Starts(e) \subseteq Unretried(e)
<1>1. ASSUME NEW i \in Starts(e) PROVE i \in DOMAIN e /\ e[i].type \in Lasting
  BY <1>1 DEF Starts, Lasting
<1> QED
  BY <1>1 DEF Unretried

\* A replay that reached x agrees with node y, or is lost where a workflow allows it.
AllReplayable(p) == \A s \in DOMAIN p : Replayable(p, s)
Lost(p, x) == x \in NoReplay /\ ~AllReplayable(p)
Meets(p, x, y) == x = y \/ Lost(p, x)

\* The run has gone on from the last attempt.
Left(e, r) == r.index = 0 /\ Outcomes(e) # {} /\ Failures(e) = {} /\ Open(e) = {}

\* The replay of the kept events follows the run.
FollowsTo(p, e, R, r) ==
    /\ LastStart(e) # 0 => Meets(p, R[LastStart(e) - 1], r.node) \/ Left(e, r)
    /\ r.index = 0 => Meets(p, R[Len(e)], r.node)
Follows(p, e, r, kept) == FollowsTo(p, e, Reached(p, e, kept), r)

\* What a replay reached stays when the trail grows.
LEMMA ReachedGrows ==
    ASSUME NEW p, NEW e, NEW f, NEW v, Grows(e, f, v), TrailOK(p, e), TrailOK(p, f),
           NEW K, NEW J, K \subseteq DOMAIN e, J \subseteq DOMAIN f, \A i \in DOMAIN e : i \in J <=> i \in K
    PROVE  /\ \A i \in 0 .. Len(e) : Reached(p, f, J)[i] = Reached(p, e, K)[i]
           /\ v.type # "step.completed" => Reached(p, f, J)[Len(f)] = Reached(p, e, K)[Len(e)]
<1>1. PICK n : n = Len(e)
  OBVIOUS
<1>2. n \in Nat /\ Len(f) = n + 1 /\ DOMAIN f = 1 .. n + 1 /\ DOMAIN e = 1 .. n
      /\ (\A i \in 1 .. n : f[i] = e[i]) /\ f[n + 1] = v
  BY <1>1 DEF Grows
<1>3. Agree(e, f, K, J, n)
  BY <1>1, <1>2 DEF Agree
<1>4. \A i \in 0 .. n : Reached(p, e, K)[i] = Reached(p, f, J)[i]
  BY <1>3, ReachedAgrees
<1>5. ASSUME v.type # "step.completed" PROVE Reached(p, f, J)[n + 1] = Reached(p, e, K)[n]
  <2>1. ~CompletedAttempt(f, J, n + 1)
    BY <1>2, <1>5 DEF CompletedAttempt
  <2>2. Reached(p, f, J)[n + 1] = Reached(p, f, J)[(n + 1) - 1]
    BY <1>2, <2>1, ReachedIs
  <2>3. (n + 1) - 1 = n /\ n \in 0 .. n
    BY <1>2
  <2> QED
    BY <1>4, <2>2, <2>3
<1> QED
  BY <1>1, <1>2, <1>4, <1>5

\* An event that neither starts nor completes a step.
LEMMA FollowsKept ==
    ASSUME NEW p, NEW e, NEW f, NEW v, NEW r, NEW t, Grows(e, f, v), TrailOK(p, e), TrailOK(p, f),
           v.type \notin {"step.started", "step.completed"},
           NEW K, NEW J, K \subseteq DOMAIN e, J \subseteq DOMAIN f, \A i \in DOMAIN e : i \in J <=> i \in K,
           Follows(p, e, r, K), t.node = r.node, t.index = 0 => r.index = 0, Left(e, r) => Left(f, t)
    PROVE  Follows(p, f, t, J)
<1>1. PICK n, L : n = Len(e) /\ L = LastStart(e)
  OBVIOUS
<1>2. LastStart(f) = L /\ L \in 0 .. n /\ n \in Nat
  BY <1>1, StartsGrow, LastStartIs
<1>3. (\A i \in 0 .. n : Reached(p, f, J)[i] = Reached(p, e, K)[i]) /\ Reached(p, f, J)[Len(f)] = Reached(p, e, K)[n]
  BY <1>1, ReachedGrows
<1>4. L # 0 => L - 1 \in 0 .. n
  BY <1>2
<1> QED
  BY <1>1, <1>2, <1>3, <1>4 DEF Follows, FollowsTo

\* The start of a step.
LEMMA FollowsStart ==
    ASSUME NEW p, NEW e, NEW f, NEW v, NEW r, NEW t, Grows(e, f, v), TrailOK(p, e), TrailOK(p, f),
           v.type = "step.started",
           NEW K, NEW J, K \subseteq DOMAIN e, J \subseteq DOMAIN f, \A i \in DOMAIN e : i \in J <=> i \in K,
           Follows(p, e, r, K), r.index = 0, t.node = r.node, t.index # 0
    PROVE  Follows(p, f, t, J)
<1>1. PICK n : n = Len(e)
  OBVIOUS
<1>2. n \in Nat /\ LastStart(f) = n + 1
  BY <1>1, StartOpens DEF Grows
<1>3. \A i \in 0 .. n : Reached(p, f, J)[i] = Reached(p, e, K)[i]
  BY <1>1, ReachedGrows
<1>4. (n + 1) - 1 = n /\ n \in 0 .. n
  BY <1>2
<1>5. Meets(p, Reached(p, e, K)[n], r.node)
  BY <1>1 DEF Follows, FollowsTo
<1> QED
  BY <1>2, <1>3, <1>4, <1>5 DEF Follows, FollowsTo

\* The output of a prompt, or of the do phase, is not replayed before the last start.
LEMMA FollowsPrompt ==
    ASSUME NEW p, NEW e, NEW f, NEW v, NEW r, NEW t, Grows(e, f, v), TrailOK(p, e), TrailOK(p, f),
           v.type # "step.started",
           NEW K, NEW J, K \subseteq DOMAIN e, J \subseteq DOMAIN f, \A i \in DOMAIN e : i \in J <=> i \in K,
           Follows(p, e, r, K), t.node = r.node, r.index # 0, t.index # 0
    PROVE  Follows(p, f, t, J)
<1>1. PICK n, L : n = Len(e) /\ L = LastStart(e)
  OBVIOUS
<1>2. LastStart(f) = L /\ L \in 0 .. n /\ n \in Nat
  BY <1>1, StartsGrow, LastStartIs
<1>3. \A i \in 0 .. n : Reached(p, f, J)[i] = Reached(p, e, K)[i]
  BY <1>1, ReachedGrows
<1>4. L # 0 => L - 1 \in 0 .. n
  BY <1>2
<1> QED
  BY <1>1, <1>2, <1>3, <1>4 DEF Follows, FollowsTo, Left

\* The replay of the last attempt, from its output.
ReplayedTo(p, e, node, j) ==
    IF NonIdempotent(p, Step(e)) THEN Refused
    ELSE DoPhase(p, Step(e), IF Has(p, Step(e), {"prompt"}) THEN e[j].out ELSE node.input,
                 Outputs(e, {k \in Given(e) : k < j}))

\* A replay that keeps all of the last attempt, with its output.
KeepsLast(p, e, K, j) ==
    /\ TrailOK(p, e) /\ Attempt(p, e) /\ ~CancelledThenCompleted(e)
    /\ K \subseteq DOMAIN e /\ (\A i \in DOMAIN e : LastStart(e) <= i => i \in K) /\ j \in Outcomes(e)

\* The output of the last attempt takes a replay from its start to where the do phase
\* goes on.
LEMMA LastReplayed ==
    ASSUME NEW p, NEW e, NEW K, NEW j, KeepsLast(p, e, K, j), NEW node
    PROVE  /\ LastStart(e) # 0 /\ Step(e) \in DOMAIN p /\ Step(e) # Done
           /\ Reached(p, e, K)[Len(e)] = Advance(p, e, K, Reached(p, e, K)[LastStart(e) - 1], j)
           /\ node \notin NoReplay /\ node.step = Step(e) => Advance(p, e, K, node, j) = ReplayedTo(p, e, node, j)
           /\ node \notin NoReplay /\ node.step # Step(e) => Advance(p, e, K, node, j) = Refused
<1> TrailOK(p, e) /\ Attempt(p, e) /\ ~CancelledThenCompleted(e) /\ K \subseteq DOMAIN e
    /\ (\A i \in DOMAIN e : LastStart(e) <= i => i \in K) /\ j \in Outcomes(e)
  BY DEF KeepsLast
<1>1. PICK n, L : n = Len(e) /\ L = LastStart(e)
  OBVIOUS
<1>2. /\ n \in Nat /\ DOMAIN e = 1 .. n /\ j \in 1 .. n /\ L < j /\ e[j].type = "step.completed"
      /\ j \in Recent(e, DriverEvent)
  BY <1>1, LastStartIs DEF Outcomes, Recent, DriverEvent
<1>3. L # 0 /\ e[j].step = Step(e) /\ L \in Starts(e) /\ L \in 1 .. n
  <2>1. L # 0 /\ e[j].step = Step(e)
    BY <1>1, <1>2 DEF Attempt, OwnEvents
  <2> QED
    BY <1>1, <2>1, LastStartIs
<1>4. L \in K /\ j \in K
  BY <1>1, <1>2, <1>3
<1>5. StartOf(e, K, j) = L
  BY <1>1, <1>4, OutcomeIsOfLastStart DEF Attempt
<1>6. Reached(p, e, K)[Len(e)] = Advance(p, e, K, Reached(p, e, K)[LastStart(e) - 1], j)
  BY <1>1, <1>3, <1>4, <1>5, ReplayEnds DEF Attempt
<1>7. Step(e) \in DOMAIN p /\ Step(e) # Done
  <2>1. e[L].type \in StepEvent
    BY <1>3 DEF Starts, StepEvent
  <2> QED
    BY <1>1, <1>2, <1>3, <2>1 DEF TrailOK, EventOK, WellBuilt, Step
<1>8. SatisfiedBetween(e, K, Step(e), L, j) = {k \in Given(e) : k < j}
  <2>1. \A k \in Given(e) : k \in 1 .. n /\ L < k /\ e[k].type = "wait.satisfied" /\ k \in Recent(e, DriverEvent)
    BY <1>1, <1>2 DEF Given, Recent, DriverEvent
  <2>2. \A k \in Given(e) : k \in K /\ e[k].step = Step(e)
    <3>1. \A k \in Given(e) : e[k].step = Step(e)
      BY <2>1 DEF Attempt, OwnEvents
    <3>2. \A k \in Given(e) : k \in K
      BY <1>1, <1>2, <1>3, <2>1
    <3> QED
      BY <3>1, <3>2
  <2>3. \A k \in K : L < k /\ e[k].type = "wait.satisfied" => k \in Given(e)
    BY <1>1 DEF Given, Recent
  <2> QED
    BY <2>1, <2>2, <2>3 DEF SatisfiedBetween
<1>9. ~TwiceSatisfied(e, {k \in Given(e) : k < j})
  BY DEF Attempt, OneAnswer, TwiceSatisfied
<1>10. ASSUME node \notin NoReplay, node.step = Step(e)
       PROVE  Advance(p, e, K, node, j) = ReplayedTo(p, e, node, j)
  <2>1. ReplayStep(p, e, K, node, j) =
            DoPhase(p, Step(e), IF Has(p, Step(e), {"prompt"}) THEN e[j].out ELSE node.input,
                    Outputs(e, {k \in Given(e) : k < j}))
    BY <1>5, <1>8, <1>9, <1>10 DEF ReplayStep
  <2> QED
    BY <1>3, <1>7, <1>10, <2>1 DEF Advance, NoReplay, ReplayedTo
<1>11. ASSUME node \notin NoReplay, node.step # Step(e) PROVE Advance(p, e, K, node, j) = Refused
  BY <1>3, <1>11 DEF Advance, NoReplay
<1> QED
  BY <1>1, <1>3, <1>6, <1>7, <1>10, <1>11

\* A node the replay may lose is lost from there on.
LEMMA LostStays ==
    ASSUME NEW p, NEW e, NEW K, NEW j, NEW x, Lost(p, x)
    PROVE  Lost(p, Advance(p, e, K, x, j))
BY DEF Lost, Advance, NoReplay

\* A step that is not idempotent, or that waits after its prompt, is not replayable.
LEMMA NotAllReplayable ==
    ASSUME NEW p, NEW s \in DOMAIN p,
           \/ NonIdempotent(p, s)
           \/ \E i, j \in DOMAIN Phases(p, s) : i < j /\ Phases(p, s)[i] = "prompt" /\ j \in Waits(p, s)
    PROVE  ~AllReplayable(p)
BY DEF AllReplayable, Replayable, Waits

\* A step of the workflow is no end of a replay.
LEMMA StepIsReplayed ==
    ASSUME NEW p, WellBuilt(p), NEW node, node.step \in DOMAIN p
    PROVE  node \notin NoReplay
BY DEF WellBuilt, NoReplay, Threw, Refused

\* The run at its last phase agrees with the replay of its attempt.
LEMMA LastReplayMeets ==
    ASSUME NEW p, NEW e, TrailOK(p, e), Attempt(p, e), ~CancelledThenCompleted(e),
           NEW K, K \subseteq DOMAIN e, \A i \in DOMAIN e : LastStart(e) <= i => i \in K,
           NEW j \in Outcomes(e), NEW node, node.step = Step(e), NEW value, NEW waits,
           Meets(p, Reached(p, e, K)[LastStart(e) - 1], node),
           value = IF Has(p, Step(e), {"prompt"}) THEN e[j].out ELSE node.input,
           Throws(p, e, j) \/ waits = Outputs(e, {k \in Given(e) : k < j})
    PROVE  Meets(p, Reached(p, e, K)[Len(e)], DoPhase(p, Step(e), value, waits))
<1>1. PICK x, y : x = Reached(p, e, K)[LastStart(e) - 1] /\ y = Reached(p, e, K)[Len(e)]
  OBVIOUS
<1>2. /\ Step(e) \in DOMAIN p /\ y = Advance(p, e, K, x, j)
      /\ node \notin NoReplay =>
            Advance(p, e, K, node, j) =
                    IF NonIdempotent(p, Step(e)) THEN Refused
                    ELSE DoPhase(p, Step(e), value, Outputs(e, {k \in Given(e) : k < j}))
  <2>1. KeepsLast(p, e, K, j)
    BY DEF KeepsLast
  <2>2. Step(e) \in DOMAIN p /\ y = Advance(p, e, K, x, j)
    BY <1>1, <2>1, LastReplayed
  <2>3. node \notin NoReplay => Advance(p, e, K, node, j) = ReplayedTo(p, e, node, j)
    BY <2>1, LastReplayed
  <2> QED
    BY <2>2, <2>3 DEF ReplayedTo
<1>3. node \notin NoReplay
  BY <1>2, StepIsReplayed DEF TrailOK
<1>4. CASE Lost(p, x)
  BY <1>1, <1>2, <1>4, LostStays DEF Meets
<1>5. CASE x = node
  <2>1. CASE NonIdempotent(p, Step(e))
    <3>1. y = Refused
      BY <1>2, <1>3, <1>5, <2>1
    <3> QED
      BY <1>1, <1>2, <2>1, <3>1, NotAllReplayable DEF Meets, Lost, NoReplay
  <2>2. CASE ~NonIdempotent(p, Step(e)) /\ Throws(p, e, j)
    <3>1. Has(p, Step(e), {"prompt"}) /\ ~AllReplayable(p)
      <4>1. PICK a, b \in DOMAIN Phases(p, Step(e)) :
                a < b /\ Phases(p, Step(e))[a] = "prompt" /\ b \in Waits(p, Step(e))
        BY <2>2 DEF Throws
      <4> QED
        BY <1>2, <4>1, NotAllReplayable DEF Has
    <3>2. y = Threw
      BY <1>2, <1>3, <1>5, <2>2, <3>1 DEF Throws
    <3> QED
      BY <1>1, <3>1, <3>2 DEF Meets, Lost, NoReplay
  <2>3. CASE ~NonIdempotent(p, Step(e)) /\ ~Throws(p, e, j)
    BY <1>1, <1>2, <1>3, <1>5, <2>3 DEF Meets
  <2> QED
    BY <2>1, <2>2, <2>3
<1> QED
  BY <1>1, <1>4, <1>5 DEF Meets

\* The do phase of a step with a prompt.
LEMMA FollowsDonePrompted ==
    ASSUME NEW p, NEW e, NEW r, NEW t, TrailOK(p, e), Body(p, e, r), InPhase(p, e, r),
           PhaseAt(p, r) \in {"do", "once"}, Has(p, Step(e), {"prompt"}), ~CancelledThenCompleted(e),
           NEW K, K \subseteq DOMAIN e, \A i \in DOMAIN e : LastStart(e) <= i => i \in K,
           Follows(p, e, r, K), t.index = 0, t.node = DoPhase(p, r.node.step, r.value, r.waits)
    PROVE  Follows(p, e, t, K)
<1>1. /\ Attempt(p, e) /\ Inside(p, e, r) /\ Replays(p, e, r) /\ Failures(e) = {}
      /\ Step(e) = r.node.step /\ LastStart(e) # 0
  BY PhaseIs
<1>2. /\ Open(e) = {} /\ Outcomes(e) # {} /\ \A i \in Waits(p, Step(e)) : i < r.at
  BY AtTheEnd
<1>3. Left(e, t)
  BY <1>1, <1>2 DEF Left
<1>4. PICK j \in Outcomes(e) : TRUE
  BY <1>2
<1>5. r.value = e[j].out /\ r.waits = Outputs(e, Given(e))
  BY <1>1 DEF Inside
<1>6. Throws(p, e, j) \/ r.waits = Outputs(e, {k \in Given(e) : k < j})
  <2>1. CASE \A k \in Given(e) : k < j
    <3>1. {k \in Given(e) : k < j} = Given(e)
      BY <2>1
    <3> QED
      BY <1>5, <3>1
  <2> QED
    BY <1>1, <2>1 DEF Replays
<1>7. Meets(p, Reached(p, e, K)[LastStart(e) - 1], r.node)
  BY <1>1 DEF Follows, FollowsTo, Left, InPhase
<1>8. Meets(p, Reached(p, e, K)[Len(e)], DoPhase(p, Step(e), r.value, r.waits))
  BY <1>1, <1>5, <1>6, <1>7, LastReplayMeets
<1> QED
  BY <1>1, <1>3, <1>8 DEF Follows, FollowsTo

\* The do phase of a step without a prompt.
LEMMA FollowsDonePlain ==
    ASSUME NEW p, NEW e, NEW f, NEW v, NEW r, NEW t, Grows(e, f, v), TrailOK(p, e), TrailOK(p, f),
           ~CancelledThenCompleted(f), Body(p, e, r), Body(p, f, t), InPhase(p, e, r),
           PhaseAt(p, r) \in {"do", "once"}, ~Has(p, Step(e), {"prompt"}),
           v.type = "step.completed",
           NEW K, NEW J, K \subseteq DOMAIN e, J \subseteq DOMAIN f, \A i \in DOMAIN e : i \in J <=> i \in K,
           \A i \in DOMAIN f : LastStart(f) <= i => i \in J,
           Follows(p, e, r, K), t.index = 0, t.node = DoPhase(p, r.node.step, r.value, r.waits)
    PROVE  Follows(p, f, t, J)
<1>1. PICK n, L : n = Len(e) /\ L = LastStart(e)
  OBVIOUS
<1>2. n \in Nat /\ Len(f) = n + 1 /\ DOMAIN f = 1 .. n + 1 /\ DOMAIN e = 1 .. n
      /\ (\A i \in 1 .. n : f[i] = e[i]) /\ f[n + 1] = v
  BY <1>1 DEF Grows
<1>3. /\ Inside(p, e, r) /\ Failures(e) = {} /\ Step(e) = r.node.step /\ L # 0
  BY <1>1, PhaseIs
<1>4. Open(e) = {} /\ Outcomes(e) = {}
  BY AtTheEnd
<1>5. LastStart(f) = L /\ Step(f) = Step(e) /\ L \in 1 .. n
  BY <1>1, <1>2, <1>3, StartsGrow, LastStartIs
<1>6. Open(f) = {} /\ Failures(f) = {} /\ Given(f) = Given(e)
  BY <1>3, <1>4, AttemptStays
<1>7. Outcomes(f) = {n + 1}
  BY <1>2, <1>4, AttemptGrows
<1>8. Left(f, t)
  BY <1>6, <1>7 DEF Left
<1>9. Outputs(f, {k \in Given(f) : k < n + 1}) = r.waits
  <2>1. \A k \in Given(e) : k \in 1 .. n
    BY <1>2 DEF Given, Recent
  <2>2. {k \in Given(f) : k < n + 1} = Given(e) /\ \A k \in Given(e) : f[k] = e[k]
    BY <1>2, <1>6, <2>1
  <2>3. Outputs(f, Given(e)) = Outputs(e, Given(e))
    BY <2>2, OutputsAgree
  <2> QED
    BY <1>3, <2>2, <2>3 DEF Inside
<1>10. r.value = r.node.input
  BY <1>3, <1>4 DEF Inside
<1>11. Reached(p, f, J)[L - 1] = Reached(p, e, K)[L - 1]
  <2>1. L - 1 \in 0 .. n
    BY <1>2, <1>5
  <2> QED
    BY <1>1, <2>1, ReachedGrows
<1>12. Meets(p, Reached(p, f, J)[L - 1], r.node)
  BY <1>1, <1>3, <1>11 DEF Follows, FollowsTo, Left, InPhase
<1>13. Meets(p, Reached(p, f, J)[Len(f)], DoPhase(p, Step(f), r.value, r.waits))
  <2>1. PICK j : j = n + 1
    OBVIOUS
  <2>2. j \in Outcomes(f) /\ r.waits = Outputs(f, {k \in Given(f) : k < j})
    BY <1>7, <1>9, <2>1
  <2>3. Attempt(p, f)
    BY DEF Body
  <2>4. r.node.step = Step(f) /\ ~Has(p, Step(f), {"prompt"}) /\ Meets(p, Reached(p, f, J)[LastStart(f) - 1], r.node)
    BY <1>3, <1>5, <1>12
  <2> QED
    BY <1>10, <2>2, <2>3, <2>4, LastReplayMeets
<1> QED
  BY <1>3, <1>5, <1>8, <1>13 DEF Follows, FollowsTo

Unclaimed(e, s, i, c) ==
    IF e[i].step # s THEN c
    ELSE IF e[i].type \in Trail!StepEnd THEN c + 1
    ELSE IF e[i].type = "step.started" /\ c > 0 THEN c - 1
    ELSE c

\* The ends of a step no start has claimed, from the end of the trail.
LEMMA UnclaimedEndsAre ==
    ASSUME NEW e, Len(e) \in Nat, NEW s
    PROVE  /\ Trail!UnclaimedEnds(e, s) \in [1 .. Len(e) + 1 -> Nat]
           /\ Trail!UnclaimedEnds(e, s)[Len(e) + 1] = 0
           /\ \A i \in 1 .. Len(e) :
                Trail!UnclaimedEnds(e, s)[i] = Unclaimed(e, s, i, Trail!UnclaimedEnds(e, s)[i + 1])
<1> DEFINE n == Len(e)
           F == [k \in 1 .. n |-> [x \in Nat |-> Unclaimed(e, s, n + 1 - k, x)]]
<1>1. n \in Nat /\ 0 \in Nat
  OBVIOUS
<1>2. ASSUME NEW i, NEW x \in Nat PROVE Unclaimed(e, s, i, x) \in Nat
  BY DEF Unclaimed
<1>3. F \in [1 .. n -> [Nat -> Nat]]
  BY <1>2
<1>4. PICK g : Follow(g, n, Nat, 0, F)
  <2>1. Rule(n, Nat, 0, F)
    BY <1>1, <1>3 DEF Rule
  <2> HIDE DEF n, F
  <2> QED
    BY <2>1, Computed
<1>5. g \in [0 .. n -> Nat] /\ g[0] = 0 /\ \A k \in 1 .. n : g[k] = F[k][g[k - 1]]
  BY <1>4 DEF Follow
<1>6. ASSUME NEW k \in 1 .. n PROVE g[k] = Unclaimed(e, s, n + 1 - k, g[k - 1])
  <2>1. k - 1 \in 0 .. n
    BY <1>1
  <2>2. g[k - 1] \in Nat
    BY <1>5, <2>1
  <2> QED
    BY <1>5, <2>2
<1> HIDE DEF F
<1> DEFINE f == [i \in 1 .. n + 1 |-> g[n + 1 - i]]
<1>7. f \in [1 .. n + 1 -> Nat] /\ f[n + 1] = 0
  <2>1. \A i \in 1 .. n + 1 : n + 1 - i \in 0 .. n
    BY <1>1
  <2>2. \A i \in 1 .. n + 1 : g[n + 1 - i] \in Nat
    BY <1>5, <2>1
  <2>3. n + 1 \in 1 .. n + 1 /\ n + 1 - (n + 1) = 0
    BY <1>1
  <2> QED
    BY <1>5, <2>2, <2>3
<1>8. ASSUME NEW i \in 1 .. n PROVE f[i] = Unclaimed(e, s, i, f[i + 1])
  <2>1. PICK k : k = n + 1 - i
    OBVIOUS
  <2>2. k \in 1 .. n /\ n + 1 - k = i /\ k - 1 = n + 1 - (i + 1) /\ i + 1 \in 1 .. n + 1 /\ i \in 1 .. n + 1
    BY <1>1, <2>1
  <2>3. f[i] = g[k] /\ f[i + 1] = g[k - 1]
    BY <2>1, <2>2
  <2>4. g[k] = Unclaimed(e, s, i, g[k - 1])
    BY <1>6, <2>2
  <2> QED
    BY <2>3, <2>4
<1> HIDE DEF f
<1> DEFINE Is(r) == r = [i \in 1 .. n + 1 |->
            IF i > n THEN 0
            ELSE IF e[i].step # s THEN r[i + 1]
            ELSE IF e[i].type \in Trail!StepEnd THEN r[i + 1] + 1
            ELSE IF e[i].type = "step.started" /\ r[i + 1] > 0 THEN r[i + 1] - 1
            ELSE r[i + 1]]
<1>9. Is(f)
  <2> DEFINE h == [i \in 1 .. n + 1 |->
            IF i > n THEN 0
            ELSE IF e[i].step # s THEN f[i + 1]
            ELSE IF e[i].type \in Trail!StepEnd THEN f[i + 1] + 1
            ELSE IF e[i].type = "step.started" /\ f[i + 1] > 0 THEN f[i + 1] - 1
            ELSE f[i + 1]]
  <2>1. ASSUME NEW i \in 1 .. n + 1 PROVE f[i] = h[i]
    <3>1. CASE i = n + 1
      BY <1>1, <1>7, <3>1
    <3>2. CASE i # n + 1
      <4>1. i \in 1 .. n /\ ~(i > n)
        BY <1>1, <3>2
      <4> QED
        BY <1>8, <4>1 DEF Unclaimed
    <3> QED
      BY <3>1, <3>2
  <2>2. DOMAIN h = 1 .. n + 1 /\ h = [i \in DOMAIN h |-> h[i]]
    OBVIOUS
  <2> HIDE DEF h
  <2>3. f = h
    BY <1>7, <2>1, <2>2
  <2> QED
    BY <2>3 DEF h
<1>10. Trail!UnclaimedEnds(e, s) = CHOOSE r : Is(r)
  BY DEF Trail!UnclaimedEnds
<1>11. Is(Trail!UnclaimedEnds(e, s))
  <2> HIDE DEF Is
  <2> QED
    BY <1>9, <1>10
<1> DEFINE c == Trail!UnclaimedEnds(e, s)
<1>12. c = [i \in 1 .. n + 1 |->
            IF i > n THEN 0
            ELSE IF e[i].step # s THEN c[i + 1]
            ELSE IF e[i].type \in Trail!StepEnd THEN c[i + 1] + 1
            ELSE IF e[i].type = "step.started" /\ c[i + 1] > 0 THEN c[i + 1] - 1
            ELSE c[i + 1]]
  BY <1>11
<1> HIDE DEF c, Is
<1>13. c[n + 1] = 0 /\ DOMAIN c = 1 .. n + 1
  BY <1>1, <1>12
<1>14. ASSUME NEW i \in 1 .. n PROVE c[i] = Unclaimed(e, s, i, c[i + 1])
  <2>1. i \in 1 .. n + 1 /\ ~(i > n)
    BY <1>1
  <2> QED
    BY <1>12, <2>1 DEF Unclaimed
<1>15. \A k \in 0 .. n : c[n + 1 - k] = g[k]
  <2> DEFINE G == [k \in 0 .. n |-> c[n + 1 - k]]
  <2>1. G[0] = g[0]
    BY <1>1, <1>5, <1>13
  <2>2. ASSUME NEW k \in 1 .. n, G[k - 1] = g[k - 1] PROVE G[k] = g[k]
    <3>1. PICK i : i = n + 1 - k
      OBVIOUS
    <3>2. i \in 1 .. n /\ i + 1 = n + 1 - (k - 1) /\ k - 1 \in 0 .. n /\ k \in 0 .. n
      BY <1>1, <3>1
    <3>3. c[i + 1] = g[k - 1]
      BY <2>2, <3>2
    <3>4. c[i] = Unclaimed(e, s, i, c[i + 1]) /\ g[k] = Unclaimed(e, s, i, g[k - 1])
      BY <1>6, <1>14, <3>1, <3>2
    <3> QED
      BY <3>1, <3>2, <3>3, <3>4
  <2> HIDE DEF G
  <2>3. Alike(G, g, n)
    BY <1>1, <2>1, <2>2 DEF Alike
  <2>4. \A k \in 0 .. n : G[k] = g[k]
    BY <2>3, ComputedAlike
  <2> QED
    BY <2>4 DEF G
<1>16. ASSUME NEW i \in 1 .. n + 1 PROVE c[i] \in Nat
  <2>1. n + 1 - i \in 0 .. n /\ n + 1 - (n + 1 - i) = i
    BY <1>1
  <2> QED
    BY <1>5, <1>15, <2>1
<1>17. c \in [1 .. n + 1 -> Nat]
  <2>1. c = [i \in 1 .. n + 1 |-> c[i]]
    BY <1>12, <1>13
  <2> QED
    BY <1>16, <2>1
<1> QED
  BY <1>13, <1>14, <1>17 DEF c

\* An attempt whose start is open has not ended.
LEMMA LastStartIsOpen ==
    ASSUME NEW p, NEW e, TrailOK(p, e), LastStart(e) # 0, Trail!IsOpenStart(e, LastStart(e))
    PROVE  \A j \in DOMAIN e : LastStart(e) < j /\ e[j].step = Step(e) => e[j].type \notin Trail!StepEnd
<1>1. PICK n, L, c : n = Len(e) /\ L = LastStart(e) /\ c = Trail!UnclaimedEnds(e, Step(e))
  OBVIOUS
<1>2. /\ n \in Nat /\ DOMAIN e = 1 .. n /\ L \in 1 .. n
      /\ \A i \in 1 .. n : e[i].type = "step.started" => i <= L
  BY <1>1, LastStartIs DEF Starts
<1>3. /\ c \in [1 .. n + 1 -> Nat]
      /\ \A i \in 1 .. n : c[i] = Unclaimed(e, Step(e), i, c[i + 1])
  BY <1>1, <1>2, UnclaimedEndsAre
<1>4. c[L + 1] = 0
  BY <1>1 DEF Trail!IsOpenStart, Step
<1>5. ASSUME NEW j \in 1 .. n, L < j, e[j].step = Step(e), e[j].type \in Trail!StepEnd PROVE FALSE
  <2>1. c[j + 1] \in Nat /\ c[j] = c[j + 1] + 1
    <3>1. j + 1 \in 1 .. n + 1
      BY <1>2
    <3> QED
      BY <1>3, <1>5, <3>1 DEF Unclaimed
  <2>2. PICK S : S = {i \in L + 1 .. j : c[i] # 0}
    OBVIOUS
  <2>3. j \in S /\ S \in SUBSET (0 .. n)
    BY <1>2, <1>5, <2>1, <2>2
  <2>4. PICK m \in S : \A k \in S : m <= k
    BY <1>2, <2>3, LeastOf
  <2>5. m # L + 1
    BY <1>4, <2>2, <2>4
  <2>6. PICK k : k = m - 1
    OBVIOUS
  <2>7. k \in L + 1 .. j /\ k \in 1 .. n /\ k + 1 = m /\ m \in 1 .. n + 1 /\ ~(m <= k)
    BY <1>2, <1>5, <2>2, <2>4, <2>5, <2>6
  <2>8. e[k].type # "step.started"
    BY <1>2, <2>7
  <2>9. c[k] # 0
    <3>1. c[k] = Unclaimed(e, Step(e), k, c[m]) /\ c[m] \in Nat /\ c[m] # 0
      BY <1>3, <2>2, <2>4, <2>7
    <3> QED
      BY <2>8, <3>1 DEF Unclaimed
  <2> QED
    BY <2>2, <2>4, <2>7, <2>9
<1> QED
  BY <1>1, <1>2, <1>5

\* A run that is opened again between two attempts.
LEMMA FollowsFresh ==
    ASSUME NEW p, NEW e, NEW f, NEW v, NEW r, NEW t, Grows(e, f, v), TrailOK(p, e), TrailOK(p, f),
           v.type \in Reopening,
           NEW K, NEW J, K \subseteq DOMAIN e, J \subseteq DOMAIN f, \A i \in DOMAIN e : i \in J <=> i \in K,
           Follows(p, e, r, K), t.node = r.node, t.index = 0, Meets(p, Reached(p, e, K)[Len(e)], r.node)
    PROVE  Follows(p, f, t, J)
<1>1. PICK n, L : n = Len(e) /\ L = LastStart(e)
  OBVIOUS
<1>2. v.type \notin {"step.started", "step.completed"} /\ v.type \in {"workflow.resumed", "workflow.retryStarted"}
  BY DEF Reopening
<1>3. LastStart(f) = L /\ L \in 0 .. n /\ n \in Nat
  BY <1>1, <1>2, StartsGrow, LastStartIs
<1>4. (\A i \in 0 .. n : Reached(p, f, J)[i] = Reached(p, e, K)[i]) /\ Reached(p, f, J)[Len(f)] = Reached(p, e, K)[n]
  BY <1>1, <1>2, ReachedGrows
<1>5. L # 0 => L - 1 \in 0 .. n
  BY <1>3
<1>6. Left(e, r) => Left(f, t)
  BY <1>2, AttemptGrows DEF Left
<1> QED
  BY <1>1, <1>3, <1>4, <1>5, <1>6 DEF Follows, FollowsTo

\* Where the last attempt has no output the replay ends at its start.
LEMMA EndsAtStart ==
    ASSUME NEW p, NEW e, NEW r, TrailOK(p, e), NEW K, K \subseteq DOMAIN e, LastStart(e) # 0, Outcomes(e) = {},
           Follows(p, e, r, K)
    PROVE  Meets(p, Reached(p, e, K)[Len(e)], r.node)
<1>1. Reached(p, e, K)[Len(e)] = Reached(p, e, K)[LastStart(e) - 1]
  BY ReplayEnds
<1> QED
  BY <1>1 DEF Follows, FollowsTo, Left

\* Where a replay of the last attempt throws it is lost.
LEMMA EndsInThrow ==
    ASSUME NEW p, NEW e, NEW r, TrailOK(p, e), Attempt(p, e), ~CancelledThenCompleted(e),
           NEW K, K \subseteq DOMAIN e, \A i \in DOMAIN e : LastStart(e) <= i => i \in K,
           NEW j \in Outcomes(e), Throws(p, e, j), Follows(p, e, r, K), r.index # 0, r.node.step = Step(e)
    PROVE  Lost(p, Reached(p, e, K)[Len(e)])
<1>1. PICK x, y : x = Reached(p, e, K)[LastStart(e) - 1] /\ y = Reached(p, e, K)[Len(e)]
  OBVIOUS
<1>2. /\ Step(e) \in DOMAIN p /\ LastStart(e) # 0 /\ y = Advance(p, e, K, x, j)
      /\ r.node \notin NoReplay =>
            Advance(p, e, K, r.node, j) =
                    IF NonIdempotent(p, Step(e)) THEN Refused
                    ELSE DoPhase(p, Step(e), IF Has(p, Step(e), {"prompt"}) THEN e[j].out ELSE r.node.input,
                                 Outputs(e, {k \in Given(e) : k < j}))
  <2> KeepsLast(p, e, K, j)
    BY DEF KeepsLast
  <2>1. Step(e) \in DOMAIN p /\ LastStart(e) # 0 /\ y = Advance(p, e, K, x, j)
    BY <1>1, LastReplayed
  <2>2. r.node \notin NoReplay => Advance(p, e, K, r.node, j) = ReplayedTo(p, e, r.node, j)
    BY LastReplayed
  <2> QED
    BY <2>1, <2>2 DEF ReplayedTo
<1>3. r.node \notin NoReplay
  BY <1>2, StepIsReplayed DEF TrailOK
<1>4. x = r.node \/ Lost(p, x)
  BY <1>1, <1>2 DEF Follows, FollowsTo, Left, Meets
<1>5. Has(p, Step(e), {"prompt"}) /\ ~AllReplayable(p)
  <2>1. PICK a, b \in DOMAIN Phases(p, Step(e)) :
            a < b /\ Phases(p, Step(e))[a] = "prompt" /\ b \in Waits(p, Step(e))
    BY DEF Throws
  <2> QED
    BY <1>2, <2>1, NotAllReplayable DEF Has
<1>6. CASE x = r.node
  <2>1. y \in NoReplay
    BY <1>2, <1>3, <1>5, <1>6 DEF Throws, NoReplay
  <2> QED
    BY <1>1, <1>5, <2>1 DEF Lost
<1>7. CASE Lost(p, x)
  BY <1>1, <1>2, <1>7, LostStays
<1> QED
  BY <1>4, <1>6, <1>7

\* A step with a prompt goes on from the output of the prompt alone: the replay of
\* all events and that of the kept ones agree after it.
LEMMA EndsAlike ==
    ASSUME NEW p, NEW e, NEW r, TrailOK(p, e), Attempt(p, e), ~CancelledThenCompleted(e),
           NEW K, K \subseteq DOMAIN e, \A i \in DOMAIN e : LastStart(e) <= i => i \in K,
           NEW j \in Outcomes(e), Has(p, Step(e), {"prompt"}), Follows(p, e, r, K), r.index # 0, r.node.step = Step(e),
           Reached(p, e, DOMAIN e)[Len(e)] = r.node
    PROVE  Meets(p, Reached(p, e, K)[Len(e)], r.node)
<1>1. PICK x, y, z : /\ x = Reached(p, e, K)[LastStart(e) - 1] /\ y = Reached(p, e, K)[Len(e)]
                     /\ z = Reached(p, e, DOMAIN e)[LastStart(e) - 1]
  OBVIOUS
<1>2. PICK to : to = IF NonIdempotent(p, Step(e)) THEN Refused
                     ELSE DoPhase(p, Step(e), e[j].out, Outputs(e, {k \in Given(e) : k < j}))
  OBVIOUS
<1>3. /\ Step(e) \in DOMAIN p /\ LastStart(e) # 0 /\ y = Advance(p, e, K, x, j)
      /\ r.node \notin NoReplay => Advance(p, e, K, r.node, j) = to
  <2> KeepsLast(p, e, K, j)
    BY DEF KeepsLast
  <2>1. Step(e) \in DOMAIN p /\ LastStart(e) # 0 /\ y = Advance(p, e, K, x, j)
    BY <1>1, LastReplayed
  <2>2. ASSUME r.node \notin NoReplay PROVE Advance(p, e, K, r.node, j) = to
    <3>1. Advance(p, e, K, r.node, j) = ReplayedTo(p, e, r.node, j)
      BY <2>2, LastReplayed
    <3> QED
      BY <1>2, <3>1 DEF ReplayedTo
  <2> QED
    BY <2>1, <2>2
<1>4. /\ r.node = Advance(p, e, DOMAIN e, z, j)
      /\ z \notin NoReplay /\ z.step = Step(e) => Advance(p, e, DOMAIN e, z, j) = to
      /\ z \notin NoReplay /\ z.step # Step(e) => Advance(p, e, DOMAIN e, z, j) = Refused
  <2>1. KeepsLast(p, e, DOMAIN e, j)
    BY DEF KeepsLast
  <2>2. Reached(p, e, DOMAIN e)[Len(e)] = Advance(p, e, DOMAIN e, z, j)
    BY <1>1, <2>1, LastReplayed
  <2>3. ASSUME z \notin NoReplay, z.step = Step(e) PROVE Advance(p, e, DOMAIN e, z, j) = to
    <3>1. Advance(p, e, DOMAIN e, z, j) = ReplayedTo(p, e, z, j)
      BY <2>1, <2>3, LastReplayed
    <3> QED
      BY <1>2, <3>1 DEF ReplayedTo
  <2>4. z \notin NoReplay /\ z.step # Step(e) => Advance(p, e, DOMAIN e, z, j) = Refused
    BY <2>1, LastReplayed
  <2> QED
    BY <2>2, <2>3, <2>4
<1>5. r.node \notin NoReplay
  BY <1>3, StepIsReplayed DEF TrailOK
<1>6. z \notin NoReplay
  <2>1. ASSUME z \in NoReplay PROVE FALSE
    <3>1. Advance(p, e, DOMAIN e, z, j) = z
      BY <2>1 DEF Advance, NoReplay
    <3> QED
      BY <1>4, <1>5, <2>1, <3>1
  <2> QED
    BY <2>1
<1>7. r.node = to
  BY <1>4, <1>5, <1>6 DEF NoReplay
<1>8. x = r.node \/ Lost(p, x)
  BY <1>1, <1>3 DEF Follows, FollowsTo, Left, Meets
<1>9. CASE x = r.node
  BY <1>1, <1>3, <1>5, <1>7, <1>9 DEF Meets
<1>10. CASE Lost(p, x)
  BY <1>1, <1>3, <1>10, LostStays DEF Meets
<1> QED
  BY <1>8, <1>9, <1>10

\* A retry takes up the last attempt, whose output is not replayed.
LEMMA FollowsRetry ==
    ASSUME NEW p, NEW e, NEW f, NEW v, NEW r, NEW t, Grows(e, f, v), TrailOK(p, e), TrailOK(p, f), Attempt(p, e),
           v.type = "workflow.retryStarted", v.source # 0,
           LastStart(e) # 0, v.source \in LastStart(e) .. Len(e), e[v.source].step = Step(e),
           Outcomes(e) = {} \/ v.source \in Failures(e),
           Follows(p, e, r, Unretried(e)), t.node = r.node, t.index = 0
    PROVE  Follows(p, f, t, Unretried(f))
<1>1. PICK n, L, s, K, J : n = Len(e) /\ L = LastStart(e) /\ s = v.source /\ K = Unretried(e) /\ J = Unretried(f)
  OBVIOUS
<1>2. n \in Nat /\ Len(f) = n + 1 /\ DOMAIN f = 1 .. n + 1 /\ DOMAIN e = 1 .. n
      /\ (\A i \in 1 .. n : f[i] = e[i]) /\ f[n + 1] = v
  BY <1>1 DEF Grows
<1>3. LastStart(f) = L /\ Outcomes(f) = Outcomes(e) /\ L \in 1 .. n /\ s \in L .. n
  BY <1>1, <1>2, StartsGrow, AttemptStays, LastStartIs
<1>4. ResolvedAttempt(e, s) = L .. s
  <2>1. s \in 1 .. Len(e) /\ LastStart(e) # 0 /\ LastStart(e) <= s /\ e[s].step = Step(e)
    BY <1>1, <1>2, <1>3
  <2> QED
    BY <1>1, <2>1, ResolvedIs
<1>5. K \subseteq DOMAIN e /\ J \subseteq DOMAIN f
  BY <1>1, RetriedIs
<1>6. \A i \in DOMAIN e : i \in J <=> i \in K /\ (i \notin L .. s \/ e[i].type \in Lasting)
  BY <1>1, <1>4, UnretriedGrows
<1>7. PICK m : m = L - 1
  OBVIOUS
<1>8. Agree(e, f, K, J, m)
  <2>1. m \in 0 .. n /\ m < L
    BY <1>2, <1>3, <1>7
  <2>2. \A i \in 1 .. m : i \in DOMAIN e /\ i \notin L .. s
    BY <1>2, <1>3, <2>1
  <2> QED
    BY <1>1, <1>2, <1>5, <1>6, <2>1, <2>2 DEF Agree
<1>9. Reached(p, f, J)[m] = Reached(p, e, K)[m]
  <2>1. m \in 0 .. m
    BY <1>3, <1>7
  <2> QED
    BY <1>5, <1>8, <2>1, ReachedAgrees
<1>10. ASSUME NEW j \in Outcomes(f) PROVE j \notin J
  <2>1. j \in Outcomes(e) /\ s \in Failures(e)
    BY <1>1, <1>3
  <2>2. j \in 1 .. n /\ L < j /\ j < s /\ e[j].type = "step.completed"
    BY <1>1, <1>2, <2>1 DEF Attempt, FailureLast, Outcomes, Recent
  <2>3. j \in L .. s /\ e[j].type \notin Lasting
    BY <1>3, <2>2 DEF Lasting
  <2> QED
    BY <1>2, <1>6, <2>2, <2>3
<1>11. Reached(p, f, J)[Len(f)] = Reached(p, f, J)[L - 1]
  BY <1>1, <1>3, <1>5, <1>10, ReplayEnds
<1>12. Meets(p, Reached(p, e, K)[L - 1], r.node)
  BY <1>1 DEF Follows, FollowsTo, Left
<1> QED
  BY <1>1, <1>3, <1>7, <1>9, <1>11, <1>12 DEF Follows, FollowsTo

\* What a command that opens the run has read: all but what cancels wrote since.
CancelEvent == {"workflow.cancelRequested", "step.cancelled", "workflow.cancelled"}
ReadOf(d, e) ==
    /\ Len(d) \in Nat /\ DOMAIN d = 1 .. Len(d) /\ Len(d) <= Len(e)
    /\ \A i \in 1 .. Len(d) : d[i] = e[i]
    /\ \A i \in DOMAIN e : i > Len(d) => e[i].type \in CancelEvent

\* What such a command has read says the same of the last attempt as the trail does.
LEMMA ReadAlike ==
    ASSUME NEW p, NEW d, NEW e, TrailOK(p, e), ReadOf(d, e)
    PROVE  /\ TrailOK(p, d) /\ DOMAIN d \subseteq DOMAIN e /\ (\A i \in DOMAIN d : d[i] = e[i])
           /\ LastStart(d) = LastStart(e) /\ Count(d) = Count(e) /\ (LastStart(e) # 0 => Step(d) = Step(e))
           /\ Outcomes(d) = Outcomes(e) /\ Failures(d) = Failures(e) /\ Given(d) = Given(e)
           /\ Asked(d) = Asked(e) /\ Regained(d) = Regained(e) /\ Open(d) = Open(e)
           /\ Outputs(d, Given(d)) = Outputs(e, Given(e)) /\ Cancels(d) \subseteq Cancels(e)
           /\ (\E i \in DOMAIN e : e[i].type = "workflow.completed") => \E i \in DOMAIN d : d[i].type = "workflow.completed"
           /\ (Straight(p, e) => Straight(p, d)) /\ (Plain(p, e) => Plain(p, d))
           /\ Reached(p, e, DOMAIN e)[Len(e)] = Reached(p, d, DOMAIN d)[Len(d)]
<1>1. PICK n, m : n = Len(e) /\ m = Len(d)
  OBVIOUS
<1>2. /\ n \in Nat /\ m \in Nat /\ m <= n /\ DOMAIN e = 1 .. n /\ DOMAIN d = 1 .. m
      /\ (\A i \in 1 .. m : d[i] = e[i])
      /\ (\A i \in 1 .. n : i \notin 1 .. m => e[i].type \in CancelEvent) /\ 1 .. m \subseteq 1 .. n
  BY <1>1 DEF ReadOf, TrailOK
<1>3. TrailOK(p, d)
  BY <1>1, <1>2 DEF TrailOK
<1>4. ASSUME NEW T, T \cap CancelEvent = {}
      PROVE  {i \in DOMAIN d : d[i].type \in T} = {i \in DOMAIN e : e[i].type \in T}
  BY <1>2, <1>4
<1>5. Starts(d) = Starts(e)
  BY <1>2 DEF Starts, CancelEvent
<1>6. LastStart(d) = LastStart(e) /\ Count(d) = Count(e)
  BY <1>5 DEF LastStart, Count
<1>7. LastStart(e) # 0 => Step(d) = Step(e)
  <2>1. LastStart(e) # 0 => LastStart(d) \in 1 .. m
    BY <1>1, <1>3, <1>6, LastStartIs
  <2> QED
    BY <1>2, <1>6, <2>1 DEF Step
<1>8. ASSUME NEW T, T \cap CancelEvent = {} PROVE Recent(d, T) = Recent(e, T)
  <2>1. {i \in DOMAIN d : d[i].type \in T} = {i \in DOMAIN e : e[i].type \in T}
    BY <1>4, <1>8
  <2> QED
    BY <1>6, <2>1 DEF Recent
<1>9. /\ Outcomes(d) = Outcomes(e) /\ Failures(d) = Failures(e) /\ Given(d) = Given(e)
      /\ Asked(d) = Asked(e) /\ Regained(d) = Regained(e)
  <2>1. /\ {"step.completed"} \cap CancelEvent = {} /\ {"step.failed"} \cap CancelEvent = {}
        /\ {"wait.satisfied"} \cap CancelEvent = {} /\ {"wait.started"} \cap CancelEvent = {}
        /\ {"workflow.retryStarted"} \cap CancelEvent = {}
    BY DEF CancelEvent
  <2> QED
    BY <1>8, <2>1 DEF Outcomes, Failures, Given, Asked, Regained
<1>10. Open(d) = Open(e)
  <2>1. \A i \in Asked(e) : i \in 1 .. m
    BY <1>2, <1>9 DEF Asked, Recent
  <2>2. ASSUME NEW i \in 1 .. m
        PROVE  (\E j \in DOMAIN d : Resolves(d, j, i)) <=> \E j \in DOMAIN e : Resolves(e, j, i)
    <3>1. \A j \in 1 .. m : Resolves(d, j, i) <=> Resolves(e, j, i)
      BY <1>2 DEF Resolves
    <3>2. \A j \in 1 .. n : Resolves(e, j, i) => j \in 1 .. m
      BY <1>2 DEF Resolves, CancelEvent
    <3> QED
      BY <1>2, <3>1, <3>2
  <2> QED
    BY <1>9, <2>1, <2>2 DEF Open
<1>11. Outputs(d, Given(d)) = Outputs(e, Given(e))
  <2>1. \A i \in Given(d) : d[i] = e[i]
    BY <1>2 DEF Given, Recent
  <2> QED
    BY <1>9, <2>1, OutputsAgree
<1>12. Cancels(d) \subseteq Cancels(e)
  <2>1. Reopening \cap CancelEvent = {}
    BY DEF Reopening, CancelEvent
  <2>2. Trail!Positions(d, Reopening) = Trail!Positions(e, Reopening)
    BY <1>4, <2>1 DEF Trail!Positions
  <2>3. CycleStart(d) = CycleStart(e)
    BY <2>2 DEF CycleStart
  <2> QED
    BY <1>2, <2>3 DEF Cancels
<1>13. (\E i \in DOMAIN e : e[i].type = "workflow.completed") => \E i \in DOMAIN d : d[i].type = "workflow.completed"
  BY <1>2 DEF CancelEvent
<1>14. ASSUME NEW first, NEW types, Then(d, first, types) PROVE Then(e, first, types)
  <2>1. PICK i, j \in DOMAIN d : i < j /\ SameAttempt(d, i, j) /\ d[i].type = first /\ d[j].type \in types
    BY <1>14 DEF Then
  <2>2. i \in DOMAIN e /\ j \in DOMAIN e /\ e[i] = d[i] /\ e[j] = d[j] /\ \A l \in i .. j : l \in DOMAIN d /\ e[l] = d[l]
    BY <1>2, <2>1
  <2>3. SameAttempt(e, i, j)
    BY <2>1, <2>2 DEF SameAttempt
  <2> QED
    BY <2>1, <2>2, <2>3 DEF Then
<1>15. ErrorContinued(p, d) => ErrorContinued(p, e)
  BY <1>2 DEF ErrorContinued
<1>16. (Straight(p, e) => Straight(p, d)) /\ (Plain(p, e) => Plain(p, d))
  BY <1>14, <1>15 DEF Straight, Plain, OutputThen, CancelledThenCompleted
<1>17. Reached(p, e, DOMAIN e)[n] = Reached(p, d, DOMAIN d)[m]
  <2>1. Agree(d, e, DOMAIN d, DOMAIN e, m)
    BY <1>1, <1>2 DEF Agree
  <2>2. m \in 0 .. m
    BY <1>2
  <2>3. Reached(p, d, DOMAIN d)[m] = Reached(p, e, DOMAIN e)[m]
    BY <1>3, <2>1, <2>2, ReachedAgrees
  <2>4. \A i \in m + 1 .. n : ~CompletedAttempt(e, DOMAIN e, i)
    <3>1. \A i \in m + 1 .. n : i \in 1 .. n /\ i \notin 1 .. m
      BY <1>2
    <3>2. \A i \in m + 1 .. n : e[i].type # "step.completed"
      BY <1>2, <3>1 DEF CancelEvent
    <3> QED
      BY <3>2 DEF CompletedAttempt
  <2>5. PICK K : K = DOMAIN e
    OBVIOUS
  <2>6. K \subseteq DOMAIN e /\ \A i \in m + 1 .. n : ~CompletedAttempt(e, K, i)
    BY <2>4, <2>5
  <2>7. m \in 0 .. Len(e) /\ n \in m .. Len(e)
    BY <1>1, <1>2
  <2>8. Reached(p, e, K)[n] = Reached(p, e, K)[m]
    BY <2>6, <2>7, ReachedStays
  <2> QED
    BY <2>3, <2>5, <2>8
<1> QED
  BY <1>1, <1>2, <1>3, <1>6, <1>7, <1>9, <1>10, <1>11, <1>12, <1>13, <1>16, <1>17

\* A replay that is not refused ends at a node of the step it replays to.
LEMMA ReplayedIs ==
    ASSUME NEW p, NEW e, NEW K, NEW s, ReplayCompleted(p, e, K, s) \notin NoReplay
    PROVE  /\ ReplayCompleted(p, e, K, s) = Reached(p, e, K)[Len(e)]
           /\ Reached(p, e, K)[Len(e)].step = s /\ Reached(p, e, K)[Len(e)] # Threw
BY DEF ReplayCompleted, NoReplay

\* The failure a retry takes up.
LEMMA FailureIs ==
    ASSUME NEW p, NEW e, TrailOK(p, e), NEW s, s = Trail!LatestUnresolvedFailure(e), s # 0, e[s].step # "none"
    PROVE  s \in DOMAIN e /\ (e[s].type = "step.failed" \/ Trail!IsOpenStart(e, s))
<1>1. PICK n : n = Len(e)
  OBVIOUS
<1>2. n \in Nat /\ DOMAIN e = 1 .. n
  BY <1>1 DEF TrailOK
<1>3. PICK A, B, F, end :
         /\ A \in SUBSET (1 .. n) /\ \A i \in A : e[i].type = "step.failed" \/ Trail!IsOpenStart(e, i)
         /\ B \in SUBSET (1 .. n) /\ \A i \in B : e[i].type = "workflow.failed"
         /\ s = IF A # {} THEN Trail!Latest(A) ELSE IF end # 0 THEN 0 ELSE Trail!Latest(B)
  <2> DEFINE end == Trail!Latest(Trail!Positions(e, {"workflow.completed", "workflow.cancelled"}))
             failures == Trail!Positions(e, {"workflow.failed"})
             A == {i \in DOMAIN e :
                /\ i > end
                /\ ~ Trail!IsResolved(e, i)
                /\ \/ e[i].type = "step.failed"
                   \/ Trail!IsOpenStart(e, i) /\ \A f \in failures : f < i}
             B == {f \in failures : ~ Trail!IsResolved(e, f)}
  <2>1. s = IF A # {} THEN Trail!Latest(A) ELSE IF end # 0 THEN 0 ELSE Trail!Latest(B)
    BY DEF Trail!LatestUnresolvedFailure
  <2>2. A \in SUBSET (1 .. n) /\ \A i \in A : e[i].type = "step.failed" \/ Trail!IsOpenStart(e, i)
    BY <1>2
  <2>3. B \in SUBSET (1 .. n) /\ \A i \in B : e[i].type = "workflow.failed"
    BY <1>2 DEF Trail!Positions
  <2> HIDE DEF A, B, end
  <2> QED
    BY <2>1, <2>2, <2>3
<1>4. (A # {} => Trail!Latest(A) \in A) /\ Trail!Latest(B) \in B \cup {0}
  BY <1>2, <1>3, LatestOf
<1>5. \A i \in B : e[i].step = "none"
  <2>1. "workflow.failed" \notin StepEvent
    BY DEF StepEvent, DriverEvent
  <2> QED
    BY <1>2, <1>3, <2>1 DEF TrailOK, EventOK
<1>6. s \in A
  BY <1>3, <1>4, <1>5
<1> QED
  BY <1>2, <1>3, <1>6

\* A retry that does not pass over a later attempt takes up the last one.
LEMMA RetryTakesLast ==
    ASSUME NEW p, NEW e, TrailOK(p, e), Attempt(p, e),
           NEW s, s = Trail!LatestUnresolvedFailure(e), s # 0, e[s].step # "none", ~(s < LastStart(e))
    PROVE  /\ LastStart(e) # 0 /\ s \in LastStart(e) .. Len(e) /\ e[s].step = Step(e)
           /\ (s = LastStart(e) /\ Outcomes(e) = {}) \/ (s \in Failures(e) /\ s # LastStart(e) /\ e[s].type = "step.failed")
<1>1. PICK n, L : n = Len(e) /\ L = LastStart(e)
  OBVIOUS
<1>2. /\ n \in Nat /\ DOMAIN e = 1 .. n /\ L \in 0 .. n /\ (L # 0 => L \in Starts(e))
      /\ \A i \in Starts(e) : i <= L
  BY <1>1, LastStartIs
<1>3. s \in 1 .. n /\ (e[s].type = "step.failed" \/ Trail!IsOpenStart(e, s))
  BY <1>2, FailureIs
<1>4. CASE e[s].type = "step.failed"
  <2>1. s # L
    BY <1>2, <1>3, <1>4 DEF Starts
  <2>2. L < s
    BY <1>1, <1>2, <1>3, <2>1
  <2>3. s \in Failures(e) /\ s \in Recent(e, DriverEvent)
    BY <1>1, <1>2, <1>3, <1>4, <2>2 DEF Failures, Recent, DriverEvent
  <2>4. L # 0 /\ e[s].step = Step(e)
    BY <1>1, <2>3 DEF Attempt, OwnEvents
  <2> QED
    BY <1>1, <1>2, <1>3, <1>4, <2>1, <2>2, <2>3, <2>4
<1>5. CASE Trail!IsOpenStart(e, s)
  <2>1. s \in Starts(e)
    BY <1>2, <1>3, <1>5 DEF Trail!IsOpenStart, Starts
  <2>2. s = L /\ L # 0
    BY <1>1, <1>2, <1>3, <2>1
  <2>3. ASSUME NEW j \in Outcomes(e) PROVE FALSE
    <3>1. j \in DOMAIN e /\ L < j /\ e[j].type = "step.completed" /\ j \in Recent(e, DriverEvent)
      BY <1>1, <2>3 DEF Outcomes, Recent, DriverEvent
    <3>2. e[j].step = Step(e)
      BY <3>1 DEF Attempt, OwnEvents
    <3>3. e[j].type \notin Trail!StepEnd
      BY <1>1, <1>5, <2>2, <3>1, <3>2, LastStartIsOpen
    <3> QED
      BY <3>1, <3>3 DEF Trail!StepEnd
  <2> QED
    BY <1>1, <1>2, <2>2, <2>3 DEF Step
<1> QED
  BY <1>3, <1>4, <1>5

\* What the replay of such a retry keeps is what was not retried before the last start.
LEMMA RetryKeeps ==
    ASSUME NEW p, NEW e, TrailOK(p, e), Attempt(p, e), LastStart(e) # 0,
           NEW s \in LastStart(e) .. Len(e), e[s].step = Step(e),
           s = LastStart(e) \/ (s \in Failures(e) /\ s # LastStart(e) /\ e[s].type = "step.failed")
    PROVE  /\ KeptEvents(e, s) \subseteq DOMAIN e
           /\ \A i \in DOMAIN e : i < LastStart(e) => (i \in KeptEvents(e, s) <=> i \in Unretried(e))
           /\ \A i \in DOMAIN e : i >= LastStart(e) => ~CompletedAttempt(e, KeptEvents(e, s), i)
<1>1. PICK n, L : n = Len(e) /\ L = LastStart(e)
  OBVIOUS
<1>2. /\ n \in Nat /\ DOMAIN e = 1 .. n /\ L \in 1 .. n /\ L \in Starts(e) /\ s \in L .. n /\ s \in 1 .. n
      /\ (\A i \in Starts(e) : i <= L) /\ Starts(e) \subseteq 1 .. n /\ e[L].type = "step.started"
  BY <1>1, LastStartIs
<1> DEFINE before == 1 .. s - 1
           retries == {r \in before : e[r].type = "workflow.retryStarted" /\ e[r].source \in 1 .. s - 1}
           excluded == UNION {ResolvedAttempt(e, e[r].source) : r \in retries}
           starts == {i \in Starts(e) : i < s /\ i \notin excluded /\ e[i].step = e[s].step}
           start == Trail!Latest(starts)
           Own(i) == /\ e[s].type # "step.started" /\ start # 0 /\ i > start
                     /\ e[i].type = "step.completed" /\ e[i].step = e[s].step
<1>3. KeptEvents(e, s) = {i \in before : ~(i \in excluded /\ e[i].type \notin Lasting) /\ ~Own(i)}
  BY DEF KeptEvents, Lasting
<1>4. before \subseteq DOMAIN e /\ (\A i \in before : i < s) /\ \A i \in 1 .. n : i < s => i \in before
  BY <1>2
<1>5. retries \subseteq SourceOf(e)
  BY <1>4 DEF SourceOf
<1>6. \A r \in SourceOf(e) : r \in 1 .. n /\ e[r].source \in 1 .. r - 1 /\ e[r].type = "workflow.retryStarted"
  BY <1>2, RetriedIs DEF SourceOf
<1>7. \A r \in SourceOf(e) : r \in L .. n => r \in Regained(e)
  BY <1>1, <1>2, <1>6 DEF Regained, Recent
<1>8. ASSUME NEW r \in SourceOf(e), r \in L .. n, NEW i \in 1 .. n, i < L
      PROVE  i \notin ResolvedAttempt(e, e[r].source)
  <2>1. e[r].source >= L /\ e[e[r].source].step = Step(e) /\ e[r].source \in 1 .. r - 1
    BY <1>1, <1>6, <1>7, <1>8 DEF Attempt, RetriesAreRecent, SourceOf
  <2>2. PICK k : k = e[r].source
    OBVIOUS
  <2>3. k \in 1 .. Len(e) /\ LastStart(e) <= k /\ e[k].step = Step(e)
    BY <1>1, <1>2, <1>8, <2>1, <2>2
  <2>4. ResolvedAttempt(e, k) = L .. k
    BY <1>1, <2>3, ResolvedIs
  <2> QED
    BY <1>2, <1>8, <2>2, <2>4
<1>9. ASSUME NEW r \in retries PROVE r < L
  <2>1. r \in SourceOf(e) /\ r < s
    BY <1>4, <1>5
  <2>2. ASSUME ~(r < L) PROVE FALSE
    <3>1. r \in L .. n
      BY <1>2, <1>6, <2>1, <2>2
    <3>2. s \in Failures(e) /\ r \in Regained(e)
      BY <1>1, <1>2, <1>6, <1>7, <2>1, <2>2, <3>1
    <3>3. s < r
      BY <3>2 DEF Attempt, FailureLast
    <3> QED
      BY <1>2, <2>1, <3>1, <3>3
  <2> QED
    BY <2>2
<1>10. ASSUME NEW r \in retries, NEW i \in ResolvedAttempt(e, e[r].source) PROVE i < L
  <2>1. r \in SourceOf(e) /\ r < L
    BY <1>5, <1>9
  <2>2. PICK k : k = e[r].source
    OBVIOUS
  <2>3. k \in 1 .. Len(e) /\ k < L
    BY <1>1, <1>2, <1>6, <2>1, <2>2
  <2>4. ResolvedAttempt(e, k) \subseteq 1 .. k
    BY <2>3, ResolvedIs
  <2> QED
    BY <1>2, <1>10, <2>2, <2>3, <2>4
<1>11. L \notin excluded
  <2>1. ASSUME L \in excluded PROVE FALSE
    <3>1. PICK r \in retries : L \in ResolvedAttempt(e, e[r].source)
      BY <2>1
    <3>2. L < L
      BY <1>10, <3>1
    <3> QED
      BY <1>2, <3>2
  <2> QED
    BY <2>1
<1>12. s # L => start = L /\ e[s].type # "step.started"
  <2>1. ASSUME s # L PROVE start = L
    <3>1. L \in starts
      BY <1>1, <1>2, <1>11, <2>1 DEF Step
    <3>2. starts \in SUBSET (1 .. n) /\ \A j \in starts : j <= L
      BY <1>2
    <3> HIDE DEF starts
    <3> QED
      BY <1>2, <3>1, <3>2, LatestIs
  <2> QED
    BY <1>1, <2>1
<1>13. ASSUME NEW i \in 1 .. n, i < L PROVE i \in excluded <=> i \in Retried(e)
  <2>1. i \in excluded => i \in Retried(e)
    BY <1>5 DEF Retried
  <2>2. ASSUME NEW r \in SourceOf(e), i \in ResolvedAttempt(e, e[r].source) PROVE r \in retries
    <3>1. ~(r \in L .. n)
      BY <1>8, <1>13, <2>2
    <3>2. r < s /\ e[r].source \in 1 .. r - 1 /\ r \in 1 .. n
      BY <1>2, <1>6, <2>2, <3>1
    <3>3. e[r].source \in 1 .. s - 1 /\ r \in before
      BY <1>2, <3>2
    <3> QED
      BY <1>6, <2>2, <3>3
  <2>3. i \in Retried(e) => i \in excluded
    BY <2>2 DEF Retried
  <2> QED
    BY <2>1, <2>3
<1>14. ASSUME NEW i \in 1 .. n, i < L PROVE i \in KeptEvents(e, s) <=> i \in Unretried(e)
  <2>1. ~Own(i)
    <3>1. CASE s = L
      BY <1>2, <3>1
    <3>2. CASE s # L
      BY <1>2, <1>12, <1>14, <3>2
    <3> QED
      BY <3>1, <3>2
  <2>2. i \in before
    BY <1>2, <1>4, <1>14
  <2> QED
    BY <1>2, <1>3, <1>13, <1>14, <2>1, <2>2 DEF Unretried
<1>15. ASSUME NEW i \in 1 .. n, i >= L, i \in KeptEvents(e, s), e[i].type = "step.completed" PROVE FALSE
  <2>1. i \in before /\ i < s /\ ~Own(i)
    BY <1>3, <1>4, <1>15
  <2>2. s # L /\ i # L /\ L < i
    BY <1>2, <1>15, <2>1
  <2>3. i \in Recent(e, DriverEvent)
    BY <1>1, <1>2, <1>15, <2>2 DEF Recent, DriverEvent
  <2>4. e[i].step = e[s].step
    BY <2>3 DEF Attempt, OwnEvents
  <2> QED
    BY <1>2, <1>12, <1>15, <2>1, <2>2, <2>4
<1>16. KeptEvents(e, s) \subseteq DOMAIN e
  BY <1>3, <1>4
<1> QED
  BY <1>1, <1>2, <1>14, <1>15, <1>16 DEF CompletedAttempt

\* A retry of a failed run reaches the step the run stopped at, on its input.
LEMMA RetryReaches ==
    ASSUME NEW p, NEW e, NEW r, TrailOK(p, e), Attempt(p, e), Follows(p, e, r, Unretried(e)),
           NEW s, s = Trail!LatestUnresolvedFailure(e), ~(s < LastStart(e)), RetryFailure(p, e) \notin NoReplay
    PROVE  /\ RetryFailure(p, e) = r.node /\ s # 0
           /\ LastStart(e) # 0 /\ s \in LastStart(e) .. Len(e) /\ e[s].step = Step(e)
           /\ Outcomes(e) = {} \/ s \in Failures(e)
<1>1. PICK L, K, J : L = LastStart(e) /\ K = KeptEvents(e, s) /\ J = Unretried(e)
  OBVIOUS
<1>2. /\ s # 0 /\ e[s].step # "none"
      /\ RetryFailure(p, e) = ReplayCompleted(p, e, K, e[s].step) /\ ReplayCompleted(p, e, K, e[s].step) \notin NoReplay
  BY <1>1 DEF RetryFailure, NoReplay
<1>3. /\ L # 0 /\ s \in L .. Len(e) /\ e[s].step = Step(e)
      /\ (s = L /\ Outcomes(e) = {}) \/ (s \in Failures(e) /\ s # L /\ e[s].type = "step.failed")
  BY <1>1, <1>2, RetryTakesLast
<1>4. /\ K \subseteq DOMAIN e
      /\ \A i \in DOMAIN e : i < L => (i \in K <=> i \in J)
      /\ \A i \in DOMAIN e : i >= L => ~CompletedAttempt(e, K, i)
  BY <1>1, <1>3, RetryKeeps
<1>5. L \in 1 .. Len(e) /\ DOMAIN e = 1 .. Len(e) /\ Len(e) \in Nat
  BY <1>1, <1>3, LastStartIs
<1>6. PICK m : m = L - 1
  OBVIOUS
<1>7. m \in 0 .. Len(e) /\ m \in 0 .. m /\ Len(e) \in m .. Len(e) /\ m < L
  BY <1>5, <1>6
<1>8. J \subseteq DOMAIN e
  BY <1>1, RetriedIs
<1>9. Agree(e, e, K, J, m)
  BY <1>4, <1>5, <1>7, <1>8 DEF Agree
<1>10. Reached(p, e, K)[m] = Reached(p, e, J)[m]
  BY <1>7, <1>9, ReachedAgrees
<1>11. Reached(p, e, K)[Len(e)] = Reached(p, e, K)[m]
  <2>1. \A i \in m + 1 .. Len(e) : ~CompletedAttempt(e, K, i)
    <3>1. \A i \in m + 1 .. Len(e) : i \in DOMAIN e /\ i >= L
      BY <1>5, <1>6
    <3> QED
      BY <1>4, <3>1
  <2> QED
    BY <1>4, <1>7, <2>1, ReachedStays
<1>12. RetryFailure(p, e) = Reached(p, e, J)[L - 1] /\ Reached(p, e, J)[L - 1] \notin NoReplay
  BY <1>2, <1>6, <1>10, <1>11, ReplayedIs
<1>13. Meets(p, Reached(p, e, J)[L - 1], r.node)
  <2>1. ~Left(e, r)
    BY <1>3 DEF Left
  <2> QED
    BY <1>1, <1>3, <2>1 DEF Follows, FollowsTo
<1> QED
  BY <1>1, <1>2, <1>3, <1>12, <1>13 DEF Meets, Lost

\* A replay to some start keeps what comes before it.
LEMMA ReachedBefore ==
    ASSUME NEW p, NEW e, TrailOK(p, e), NEW b \in 1 .. Len(e)
    PROVE  Reached(p, e, 1 .. b - 1)[Len(e)] = Reached(p, e, DOMAIN e)[b - 1]
<1>1. PICK n, m, K : n = Len(e) /\ m = b - 1 /\ K = 1 .. b - 1
  OBVIOUS
<1>2. n \in Nat /\ DOMAIN e = 1 .. n /\ m \in 0 .. n /\ K = 1 .. m /\ K \subseteq DOMAIN e
  BY <1>1 DEF TrailOK
<1>3. Agree(e, e, K, DOMAIN e, m)
  BY <1>1, <1>2 DEF Agree
<1>4. Reached(p, e, K)[m] = Reached(p, e, DOMAIN e)[m]
  <2>1. m \in 0 .. m
    BY <1>2
  <2> QED
    BY <1>2, <1>3, <2>1, ReachedAgrees
<1>5. Reached(p, e, K)[n] = Reached(p, e, K)[m]
  <2>1. n \in m .. n
    BY <1>2
  <2>2. \A i \in m + 1 .. n : ~CompletedAttempt(e, K, i)
    BY <1>2 DEF CompletedAttempt
  <2> QED
    BY <1>1, <1>2, <2>1, <2>2, ReachedStays
<1> QED
  BY <1>1, <1>4, <1>5

\* A retry of a cancelled run reaches the step that was cancelled, on its input.
LEMMA CancelledReaches ==
    ASSUME NEW p, NEW e, NEW r, TrailOK(p, e), Body(p, e, r), Follows(p, e, r, DOMAIN e),
           RetryCancelled(p, e) \notin NoReplay
    PROVE  RetryCancelled(p, e) = r.node /\ \E c \in Cancels(e) : LastStart(e) # 0 /\ CancelHolds(p, e, r, c)
<1>1. PICK n, L, c, b : n = Len(e) /\ L = LastStart(e) /\ c = CancelledStep(e) /\ b = StartBefore(e, c)
  OBVIOUS
<1>2. n \in Nat /\ DOMAIN e = 1 .. n /\ L \in 0 .. n /\ (\A i \in Starts(e) : i <= L) /\ Starts(e) \subseteq 1 .. n
  BY <1>1, LastStartIs
<1>3. /\ c # 0 /\ b # 0
      /\ RetryCancelled(p, e) = ReplayCompleted(p, e, 1 .. b - 1, e[c].step)
      /\ ReplayCompleted(p, e, 1 .. b - 1, e[c].step) \notin NoReplay
  BY <1>1 DEF RetryCancelled, NoReplay, StartBefore
<1>4. c \in Cancels(e)
  <2>1. PICK C : C = {i \in Trail!Positions(e, {"step.cancelled"}) : i >= CycleStart(e)}
    OBVIOUS
  <2>2. C \in SUBSET (1 .. n) /\ C \subseteq Cancels(e)
    BY <1>2, <2>1 DEF Trail!Positions, Cancels
  <2>3. c \in C \cup {0}
    BY <1>1, <1>2, <2>1, <2>2, LatestOf DEF CancelledStep
  <2> QED
    BY <1>3, <2>2, <2>3
<1>5. CancelHolds(p, e, r, c)
  BY <1>4 DEF Body, CancelsHold
<1>6. b \in Starts(e) /\ b \in 1 .. n /\ L # 0 /\ b <= L
  <2>1. c \in DOMAIN e
    BY <1>4 DEF Cancels
  <2>2. b \in Starts(e)
    BY <1>1, <1>3, <2>1, StartBeforeIs
  <2> QED
    BY <1>2, <2>2
<1>7. PICK a, m : a = b - 1 /\ m = L - 1
  OBVIOUS
<1>8. a \in 0 .. n /\ m \in a .. n /\ m \in 0 .. n
  BY <1>2, <1>6, <1>7
<1>9. \A i \in a + 1 .. m : ~CompletedAttempt(e, DOMAIN e, i)
  <2>1. \A i \in a + 1 .. m : i \in DOMAIN e /\ b <= i /\ i <= L
    BY <1>2, <1>6, <1>7
  <2> QED
    BY <1>1, <1>5, <2>1 DEF CancelHolds, CompletedAttempt
<1>10. Reached(p, e, DOMAIN e)[m] = Reached(p, e, DOMAIN e)[a]
  BY <1>1, <1>8, <1>9, ReachedStays
<1>11. RetryCancelled(p, e) = Reached(p, e, DOMAIN e)[L - 1] /\ Reached(p, e, DOMAIN e)[L - 1] \notin NoReplay
  BY <1>1, <1>3, <1>6, <1>7, <1>10, ReplayedIs, ReachedBefore
<1>12. ~Left(e, r)
  BY <1>5 DEF Left, CancelHolds
<1> QED
  BY <1>1, <1>4, <1>5, <1>6, <1>11, <1>12 DEF Follows, FollowsTo, Meets, Lost

\* What a resume says of the trail: one step failed and nothing came of it since.
LEMMA ResumeIs ==
    ASSUME NEW p, NEW e, ResumeFailed(p, e) \notin NoReplay
    PROVE  /\ ResumeFailed(p, e) = Reached(p, e, DOMAIN e)[Len(e)]
           /\ \E i \in DOMAIN e :
                /\ e[i].type = "step.failed" /\ e[i].step = Reached(p, e, DOMAIN e)[Len(e)].step
                /\ \A j \in DOMAIN e : j > i /\ e[j].type = "step.completed" => e[j].step # e[i].step
<1>1. PICK failed : failed = Trail!Positions(e, {"step.failed"})
  OBVIOUS
<1>2. PICK i : i = CHOOSE k \in failed : TRUE
  OBVIOUS
<1>3. /\ Cardinality(failed) = 1
      /\ ~\E k \in failed : \E j \in DOMAIN e : j > k /\ e[j].type = "step.completed" /\ e[j].step = e[k].step
      /\ ResumeFailed(p, e) = ReplayCompleted(p, e, DOMAIN e, e[i].step)
  BY <1>1, <1>2 DEF ResumeFailed, NoReplay
<1>4. failed # {}
  BY <1>3, FS_EmptySet
<1>5. i \in failed
  BY <1>2, <1>4
<1>6. i \in DOMAIN e /\ e[i].type = "step.failed"
  BY <1>1, <1>5 DEF Trail!Positions
<1>7. ReplayCompleted(p, e, DOMAIN e, e[i].step) \notin NoReplay
  BY <1>3
<1>8. ResumeFailed(p, e) = Reached(p, e, DOMAIN e)[Len(e)] /\ Reached(p, e, DOMAIN e)[Len(e)].step = e[i].step
  BY <1>3, <1>7, ReplayedIs
<1> QED
  BY <1>3, <1>5, <1>6, <1>8

\* A resume reaches the step that failed, on the input it had.
LEMMA ResumeReaches ==
    ASSUME NEW p, NEW e, NEW r, TrailOK(p, e), Plain(p, e), Body(p, e, r), Follows(p, e, r, DOMAIN e),
           ResumeFailed(p, e) \notin NoReplay
    PROVE  ResumeFailed(p, e) = r.node
<1>1. PICK n, L, R : n = Len(e) /\ L = LastStart(e) /\ R = Reached(p, e, DOMAIN e)
  OBVIOUS
<1>2. /\ n \in Nat /\ DOMAIN e = 1 .. n /\ L \in 0 .. n /\ (\A i \in Starts(e) : i <= L) /\ Starts(e) \subseteq 1 .. n
      /\ Attempt(p, e)
  BY <1>1, LastStartIs DEF Body
<1>3. ResumeFailed(p, e) = R[n]
  BY <1>1, ResumeIs
<1>4. PICK i \in DOMAIN e :
          /\ e[i].type = "step.failed"
          /\ \A j \in DOMAIN e : j > i /\ e[j].type = "step.completed" => e[j].step # e[i].step
  BY ResumeIs
<1>5. CASE r.index = 0
  BY <1>1, <1>3, <1>5 DEF Follows, FollowsTo, Meets, Lost
<1>6. CASE r.index # 0
  <2>1. L # 0 /\ L \in Starts(e)
    BY <1>1, <1>6, LastStartIs DEF Body, Inside
  <2>2. ASSUME NEW j \in Outcomes(e) PROVE FALSE
    <3>1. j \in 1 .. n /\ L < j /\ e[j].type = "step.completed" /\ j \in Recent(e, DriverEvent)
      BY <1>1, <1>2, <2>2 DEF Outcomes, Recent, DriverEvent
    <3>2. e[j].step = Step(e)
      BY <1>2, <3>1 DEF Attempt, OwnEvents
    <3>3. i # L
      BY <1>4, <2>1 DEF Starts
    <3>4. CASE L < i
      <4>1. i \in Failures(e) /\ i \in Recent(e, DriverEvent)
        BY <1>1, <1>4, <3>4 DEF Failures, Recent, DriverEvent
      <4>2. j < i /\ e[i].step = Step(e)
        BY <1>2, <2>2, <4>1 DEF Attempt, FailureLast, OwnEvents
      <4>3. ~\E l \in j .. i : e[l].type = "step.started" /\ e[l].step = e[i].step
        <5>1. ASSUME NEW l \in j .. i, e[l].type = "step.started" PROVE FALSE
          <6>1. l \in 1 .. n /\ L < l
            BY <1>2, <3>1, <5>1
          <6>2. l \in Starts(e)
            BY <1>2, <5>1, <6>1 DEF Starts
          <6> QED
            BY <1>2, <6>1, <6>2
        <5> QED
          BY <5>1
      <4>4. SameAttempt(e, j, i)
        BY <3>2, <4>2, <4>3 DEF SameAttempt
      <4>5. OutputThen(e, {"step.failed"})
        BY <1>2, <1>4, <3>1, <4>2, <4>4 DEF OutputThen, Then
      <4> QED
        BY <4>5 DEF Plain
    <3>5. CASE i < L
      <4>1. Followed(e, i)
        BY <1>1, <1>2, <1>4, <3>5 DEF Attempt, AttemptsEnd
      <4>2. PICK S : S = {k \in Starts(e) : i < k /\ e[k].step = e[i].step}
        OBVIOUS
      <4>3. S \in SUBSET (1 .. n)
        BY <1>2, <4>2
      <4>4. S # {}
        <5>1. PICK k \in DOMAIN e : i < k /\ e[k].step = e[i].step /\ e[k].type \in {"step.started", "step.completed"}
          BY <4>1 DEF Followed
        <5>2. e[k].type = "step.started"
          BY <1>2, <1>4, <5>1
        <5> QED
          BY <4>2, <5>1, <5>2 DEF Starts
      <4>5. PICK m \in S : \A k \in S : k <= m
        BY <1>2, <4>3, <4>4, LatestOf
      <4>6. m \in 1 .. n /\ i < m /\ e[m].step = e[i].step /\ m <= L /\ e[m].type = "step.started"
        BY <1>2, <4>2, <4>5 DEF Starts
      <4>7. ~(m < L)
        <5>1. ASSUME m < L PROVE FALSE
          <6>1. Followed(e, m)
            BY <1>1, <1>2, <4>6, <5>1 DEF Attempt, AttemptsEnd
          <6>2. PICK k \in DOMAIN e : m < k /\ e[k].step = e[m].step /\ e[k].type \in {"step.started", "step.completed"}
            BY <6>1 DEF Followed
          <6>3. k > i /\ ~(k <= m)
            BY <1>2, <1>4, <4>6, <6>2
          <6>4. e[k].type = "step.started"
            BY <1>4, <4>6, <6>2, <6>3
          <6>5. k \in S
            BY <4>2, <4>6, <6>2, <6>3, <6>4 DEF Starts
          <6> QED
            BY <4>5, <6>3, <6>5
        <5> QED
          BY <5>1
      <4>8. m = L
        BY <1>2, <4>6, <4>7
      <4>9. j > i /\ e[j].step = e[i].step
        BY <1>1, <1>2, <1>4, <3>1, <3>2, <3>5, <4>6, <4>8 DEF Step
      <4> QED
        BY <1>2, <1>4, <3>1, <4>9
    <3> QED
      BY <1>2, <1>4, <3>3, <3>4, <3>5
  <2>3. Outcomes(e) = {}
    BY <2>2
  <2>4. Meets(p, R[n], r.node)
    BY <1>1, <2>1, <2>3, EndsAtStart
  <2> QED
    BY <1>3, <2>4 DEF Meets, Lost
<1> QED
  BY <1>5, <1>6

\* A wait without an answer that is of the last attempt.
LastWait(p, e, w) ==
    /\ LastStart(e) # 0 /\ w \in Open(e) /\ LastStart(e) < w /\ w \in DOMAIN e
    /\ e[w].type = "wait.started" /\ e[w].step = Step(e) /\ e[w].index = Count(e)
    /\ Step(e) \in DOMAIN p /\ (\E i \in Waits(p, Step(e)) : Phases(p, Step(e))[i] = e[w].wait)
    /\ Failures(e) = {} /\ (\A i \in Given(e) \cup Outcomes(e) : i < w)
    /\ StartAt(e, Count(e)) = LastStart(e)

\* A wait without an answer after the last start is one of the last attempt.
LEMMA OpenWaitIs ==
    ASSUME NEW p, NEW e, TrailOK(p, e), Attempt(p, e), NEW w \in Open(e)
    PROVE  LastWait(p, e, w)
<1>1. PICK n, L, c : n = Len(e) /\ L = LastStart(e) /\ c = Count(e)
  OBVIOUS
<1>2. /\ n \in Nat /\ DOMAIN e = 1 .. n /\ L \in 0 .. n /\ (\A i \in Starts(e) : i <= L) /\ Starts(e) \subseteq 1 .. n
      /\ L # 0 => L \in Starts(e)
  BY <1>1, LastStartIs
<1>3. w \in DOMAIN e /\ L < w /\ e[w].type = "wait.started"
  BY <1>1 DEF Open, Asked, Recent
<1>4. L # 0 /\ e[w].step = Step(e) /\ e[w].index = c
  <2>1. w \in Recent(e, DriverEvent) /\ w \in Recent(e, {"wait.started", "wait.satisfied", "wait.failed"})
    BY <1>1, <1>3 DEF Recent, DriverEvent
  <2> QED
    BY <1>1, <2>1 DEF Attempt, OwnEvents
<1>5. Step(e) \in DOMAIN p /\ \E i \in Waits(p, Step(e)) : Phases(p, Step(e))[i] = e[w].wait
  <2>1. EventOK(p, e[w])
    BY <1>3 DEF TrailOK
  <2> QED
    BY <1>3, <1>4, <2>1 DEF EventOK, StepEvent, DriverEvent
<1>6. Failures(e) = {} /\ \A i \in Given(e) \cup Outcomes(e) : i < w
  BY DEF Attempt, OpenLast
<1>7. StartAt(e, c) = L
  <2>1. {j \in Starts(e) : j <= L} = Starts(e) /\ L \in Starts(e)
    BY <1>2, <1>4
  <2>2. Cardinality({j \in Starts(e) : j <= L}) = c
    BY <1>1, <2>1 DEF Count
  <2>3. ASSUME NEW i \in Starts(e), Cardinality({j \in Starts(e) : j <= i}) = c PROVE i = L
    <3>1. PICK T : T = {j \in Starts(e) : j <= i}
      OBVIOUS
    <3>2. T \in SUBSET Starts(e) /\ Cardinality(T) = Cardinality(Starts(e))
      BY <1>1, <2>3, <3>1 DEF Count
    <3>3. IsFiniteSet(Starts(e))
      BY StartsCounted
    <3>4. Starts(e) = T
      BY <3>2, <3>3, FS_Subset
    <3>5. L <= i
      BY <2>1, <3>1, <3>4
    <3> QED
      BY <1>2, <3>5
  <2>4. PICK x : x = StartAt(e, c)
    OBVIOUS
  <2>5. x \in Starts(e) /\ Cardinality({j \in Starts(e) : j <= x}) = c
    BY <2>1, <2>2, <2>4 DEF StartAt
  <2> QED
    BY <2>3, <2>4, <2>5
<1> QED
  BY <1>1, <1>3, <1>4, <1>5, <1>6, <1>7 DEF LastWait

\* A wait with the index of the latest start is of the last attempt.
LEMMA WaitIsAsked ==
    ASSUME NEW p, NEW e, TrailOK(p, e), Attempt(p, e),
           NEW w \in DOMAIN e, e[w].type = "wait.started", e[w].index = Count(e)
    PROVE  w \in Asked(e)
<1>1. PICK L, c, S : L = LastStart(e) /\ c = Count(e) /\ S = StartedUpTo(e, w)
  OBVIOUS
<1>2. (\A i \in Starts(e) : i <= L) /\ (L = 0 => Starts(e) = {}) /\ (L # 0 => L \in Starts(e))
  BY <1>1, LastStartIs
<1>3. S \in SUBSET Starts(e) /\ S # {} /\ c \in 1 .. Cardinality(S)
  BY <1>1 DEF Attempt, WaitsStarted, WaitStarted, StartedUpTo
<1>4. S = Starts(e)
  <2>1. IsFiniteSet(Starts(e))
    BY StartsCounted
  <2>2. Cardinality(S) \in Nat /\ c \in Nat
    BY <1>1, <1>3, StartsCounted DEF Count
  <2>3. Cardinality(S) <= c
    BY <1>1, <1>3, <2>1, FS_Subset DEF Count
  <2>4. Cardinality(S) = c
    BY <1>3, <2>2, <2>3
  <2> QED
    BY <1>1, <1>3, <2>1, <2>4, FS_Subset DEF Count
<1>5. L < w
  <2>1. L \in Starts(e)
    BY <1>2, <1>3, <1>4
  <2> QED
    BY <1>1, <1>4, <2>1 DEF StartedUpTo
<1> QED
  BY <1>1, <1>5 DEF Asked, Recent

\* The latest wait without an answer, where it is of the latest start.
LEMMA LastWaitIs ==
    ASSUME NEW p, NEW e, TrailOK(p, e), Attempt(p, e), NEW w, w = PendingWait(e), w # 0, e[w].index = Count(e)
    PROVE  LastWait(p, e, w)
<1>1. PICK n \in Nat : n = Len(e) /\ DOMAIN e = 1 .. n
  BY DEF TrailOK
<1>2. w \in PendingWaits(e)
  <2>1. PendingWaits(e) \in SUBSET (1 .. n)
    BY <1>1 DEF PendingWaits
  <2> QED
    BY <1>1, <2>1, LatestOf DEF PendingWait
<1>3. w \in DOMAIN e /\ e[w].type = "wait.started" /\ ~\E j \in DOMAIN e : Resolves(e, j, w)
  BY <1>2 DEF PendingWaits
<1>4. w \in Open(e)
  BY <1>3, WaitIsAsked DEF Open
<1> QED
  BY <1>4, OpenWaitIs

\* Where the attempt that waits is taken up.
WaitingAt(p, e, node, at) ==
    [node |-> node, at |-> at, index |-> Count(e), waits |-> Outputs(e, Given(e)),
     value |-> IF Prompted(p, e, at) THEN e[CHOOSE i \in Outcomes(e) : \A j \in Outcomes(e) : i <= j].out
               ELSE node.input]
Unplaced(p, e, at) ==
    \/ Prompted(p, e, at) /\ Outcomes(e) = {}
    \/ Cardinality(Given(e)) < Cardinality({i \in 1 .. at - 1 : Phases(p, Step(e))[i] \in WaitId})

\* The phase of the open wait, and what the replay of the attempt up to it gives.
LEMMA PrefixIs ==
    ASSUME NEW p, NEW e, TrailOK(p, e), Attempt(p, e), NEW w, LastWait(p, e, w), NEW node, node.step = Step(e)
    PROVE  \E at \in DOMAIN Phases(p, Step(e)) :
              /\ Phases(p, Step(e))[at] = e[w].wait
              /\ Prefix(p, e, node, LastStart(e), w) =
                    IF Unplaced(p, e, at) THEN NoPlace ELSE WaitingAt(p, e, node, at)
<1>1. PICK n, L, phases : n = Len(e) /\ L = LastStart(e) /\ phases = Phases(p, Step(e))
  OBVIOUS
<1>2. /\ n \in Nat /\ DOMAIN e = 1 .. n /\ L \in 0 .. n /\ w \in 1 .. n /\ L < w /\ L # 0
      /\ Step(e) \in DOMAIN p /\ e[w].index = Count(e)
      /\ \A i \in Given(e) \cup Outcomes(e) : i < w
  BY <1>1, LastStartIs DEF LastWait
<1>3. PICK at : at = CHOOSE i \in DOMAIN phases : phases[i] = e[w].wait
  OBVIOUS
<1>4. at \in DOMAIN phases /\ phases[at] = e[w].wait /\ DOMAIN phases = 1 .. Len(phases) /\ Len(phases) \in Nat
  <2>1. \E i \in DOMAIN phases : phases[i] = e[w].wait
    BY <1>1 DEF LastWait, Waits
  <2>2. DOMAIN phases = 1 .. Len(phases) /\ Len(phases) \in Nat
    BY <1>1, <1>2, PhasesOf DEF TrailOK
  <2> QED
    BY <1>3, <2>1, <2>2
<1>5. ASSUME NEW i \in Given(e) \cup Outcomes(e) PROVE i \in 1 .. n /\ L < i /\ i < w /\ e[i].step = Step(e)
  <2>1. i \in Recent(e, DriverEvent)
    BY <1>5 DEF Given, Outcomes, Recent, DriverEvent
  <2> QED
    BY <1>1, <1>2, <1>5, <2>1 DEF Attempt, OwnEvents, Recent
<1>6. {i \in L + 1 .. w - 1 : e[i].type = "step.completed" /\ e[i].step = node.step} = Outcomes(e)
  <2>1. ASSUME NEW i \in L + 1 .. w - 1, e[i].type = "step.completed" PROVE i \in Outcomes(e)
    <3>1. i \in 1 .. n /\ L < i
      BY <1>2, <2>1
    <3> QED
      BY <1>1, <1>2, <2>1, <3>1 DEF Outcomes, Recent
  <2>2. ASSUME NEW i \in Outcomes(e) PROVE i \in L + 1 .. w - 1 /\ e[i].type = "step.completed" /\ e[i].step = node.step
    <3>1. i \in 1 .. n /\ L < i /\ i < w /\ e[i].step = Step(e)
      BY <1>5, <2>2
    <3> QED
      BY <1>2, <2>2, <3>1 DEF Outcomes, Recent
  <2> QED
    BY <2>1, <2>2
<1>7. SatisfiedBetween(e, DOMAIN e, node.step, L, w) = Given(e)
  <2>1. ASSUME NEW i \in DOMAIN e, L < i, e[i].type = "wait.satisfied" PROVE i \in Given(e)
    BY <1>1, <2>1 DEF Given, Recent
  <2>2. ASSUME NEW i \in Given(e) PROVE i \in DOMAIN e /\ L < i /\ i < w /\ e[i].type = "wait.satisfied" /\ e[i].step = node.step
    BY <1>2, <1>5, <2>2 DEF Given, Recent
  <2> QED
    BY <2>1, <2>2 DEF SatisfiedBetween
<1>8. (\E i \in 1 .. at - 1 : phases[i] = "prompt") <=> Prompted(p, e, at)
  <2>1. \A i \in DOMAIN phases : i < at <=> i \in 1 .. at - 1
    BY <1>4
  <2>2. \A i \in 1 .. at - 1 : i \in DOMAIN phases /\ i < at
    BY <1>4
  <2> QED
    BY <1>1, <2>1, <2>2 DEF Prompted
<1>9. ~TwiceSatisfied(e, Given(e))
  BY DEF Attempt, OneAnswer
<1>10. Prefix(p, e, node, L, w) = IF Unplaced(p, e, at) THEN NoPlace ELSE WaitingAt(p, e, node, at)
  <2>1. PICK done, S, asks, waited :
          /\ done = {i \in L + 1 .. w - 1 : e[i].type = "step.completed" /\ e[i].step = node.step}
          /\ S = SatisfiedBetween(e, DOMAIN e, node.step, L, w)
          /\ asks = \E i \in 1 .. at - 1 : phases[i] = "prompt"
          /\ waited = Cardinality({i \in 1 .. at - 1 : phases[i] \in WaitId})
    OBVIOUS
  <2>2. asks \in BOOLEAN /\ (asks <=> Prompted(p, e, at))
    BY <1>8, <2>1
  <2>3. Prefix(p, e, node, L, w) =
          IF (asks /\ done = {}) \/ Cardinality(S) < waited \/ TwiceSatisfied(e, S) THEN NoPlace
          ELSE [node |-> node, at |-> at, index |-> e[w].index, waits |-> Outputs(e, S),
                value |-> IF asks THEN e[CHOOSE i \in done : \A j \in done : i <= j].out ELSE node.input]
    BY <1>1, <1>3, <2>1 DEF Prefix
  <2>4. done = Outcomes(e) /\ S = Given(e)
    BY <1>6, <1>7, <2>1
  <2>5. Unplaced(p, e, at) <=> (asks /\ done = {}) \/ Cardinality(S) < waited
    BY <1>1, <2>1, <2>2, <2>4 DEF Unplaced
  <2> HIDE DEF Prompted
  <2>6. CASE Unplaced(p, e, at)
    BY <2>3, <2>5, <2>6
  <2>7. CASE ~Unplaced(p, e, at)
    BY <1>2, <1>9, <2>2, <2>3, <2>4, <2>5, <2>7 DEF WaitingAt
  <2> QED
    BY <2>6, <2>7
<1> QED
  BY <1>1, <1>4, <1>10

\* A continue that finds a place replays what comes before the start of the latest
\* wait without an answer, and that wait is of the last attempt when its index says so.
LEMMA ContinueIs ==
    ASSUME NEW p, NEW e, TrailOK(p, e), Attempt(p, e),
           ContinueWait(p, e).node \notin NoReplay, ContinueWait(p, e).index = Count(e)
    PROVE  /\ ~\E i \in DOMAIN e : e[i].type = "workflow.completed"
           /\ \E w \in Open(e) :
                /\ LastWait(p, e, w)
                /\ \E node : /\ node = Reached(p, e, DOMAIN e)[LastStart(e) - 1]
                             /\ node \notin NoReplay /\ node.step = Step(e)
                             /\ ContinueWait(p, e) = Prefix(p, e, node, LastStart(e), w)
                             /\ ContinueWait(p, e) # NoPlace
<1>1. PICK to, w, start : to = ContinueWait(p, e) /\ w = PendingWait(e) /\ start = StartAt(e, e[w].index)
  OBVIOUS
<1>2. PICK node : node = ReplayCompleted(p, e, 1 .. start - 1, e[w].step)
  OBVIOUS
<1>3. to # NoPlace
  BY <1>1 DEF NoPlace, NoReplay
<1>4. /\ w # 0 /\ Trail!Positions(e, {"workflow.completed"}) = {} /\ node \notin NoReplay
      /\ to = Prefix(p, e, node, start, w)
  <2>1. w # 0 /\ Trail!Positions(e, {"workflow.completed"}) = {}
    BY <1>1, <1>3 DEF ContinueWait
  <2>2. to = IF node \in {Refused, Threw} THEN [NoPlace EXCEPT !.node = node] ELSE Prefix(p, e, node, start, w)
    BY <1>1, <1>2, <2>1 DEF ContinueWait
  <2>3. [NoPlace EXCEPT !.node = node].node = node
    BY DEF NoPlace
  <2> QED
    BY <1>1, <2>1, <2>2, <2>3 DEF NoReplay
<1>5. to.index = e[w].index
  BY <1>3, <1>4 DEF Prefix
<1>6. LastWait(p, e, w)
  BY <1>1, <1>4, <1>5, LastWaitIs
<1>7. start = LastStart(e) /\ LastStart(e) \in 1 .. Len(e) /\ e[w].step = Step(e)
  <2>1. LastStart(e) \in 0 .. Len(e) /\ Len(e) \in Nat
    BY LastStartIs
  <2> QED
    BY <1>1, <1>5, <1>6, <2>1 DEF LastWait
<1>8. node = Reached(p, e, DOMAIN e)[LastStart(e) - 1] /\ node.step = Step(e)
  BY <1>2, <1>4, <1>7, ReplayedIs, ReachedBefore
<1>9. ~\E i \in DOMAIN e : e[i].type = "workflow.completed"
  BY <1>4 DEF Trail!Positions
<1>10. w \in Open(e)
  BY <1>6 DEF LastWait
<1> QED
  BY <1>1, <1>3, <1>4, <1>6, <1>7, <1>8, <1>9, <1>10

\* A continue of the last attempt takes it up where the run left it.
TakesUp(p, e, to, w) ==
    /\ to.index = Count(e) /\ to.node.step = Step(e)
    /\ to.at \in DOMAIN Phases(p, Step(e)) /\ Phases(p, Step(e))[to.at] = e[w].wait
    /\ to.waits = Outputs(e, Given(e))
    /\ ~Prompted(p, e, to.at) => to.value = to.node.input
    /\ Prompted(p, e, to.at) => \E j \in Outcomes(e) : to.value = e[j].out

\* The place a continue finds, in terms of what the attempt recorded.
LEMMA PlaceIs ==
    ASSUME NEW p, NEW e, TrailOK(p, e), Attempt(p, e), NEW w, LastWait(p, e, w), NEW node, node.step = Step(e),
           NEW to, to = Prefix(p, e, node, LastStart(e), w), to # NoPlace
    PROVE  TakesUp(p, e, to, w) /\ to.node = node
<1>1. PICK at \in DOMAIN Phases(p, Step(e)) :
          /\ Phases(p, Step(e))[at] = e[w].wait
          /\ to = IF Unplaced(p, e, at) THEN NoPlace ELSE WaitingAt(p, e, node, at)
  BY PrefixIs
<1>2. to = WaitingAt(p, e, node, at) /\ ~Unplaced(p, e, at)
  BY <1>1
<1>3. /\ to.node = node /\ to.at = at /\ to.index = Count(e) /\ to.waits = Outputs(e, Given(e))
      /\ to.value = IF Prompted(p, e, at) THEN e[CHOOSE i \in Outcomes(e) : \A j \in Outcomes(e) : i <= j].out
                    ELSE node.input
  BY <1>2 DEF WaitingAt
<1>4. Prompted(p, e, at) => \E j \in Outcomes(e) : to.value = e[j].out
  <2>1. ASSUME Prompted(p, e, at) PROVE \E j \in Outcomes(e) : to.value = e[j].out
    <3>1. PICK o : o \in Outcomes(e)
      BY <1>2, <2>1 DEF Unplaced
    <3>2. \A j \in Outcomes(e) : o <= j
      <4>1. \A j \in Outcomes(e) : j = o
        BY <3>1 DEF Attempt, OneOutcome
      <4>2. o \in Nat
        BY <3>1 DEF Outcomes, Recent, TrailOK
      <4> QED
        BY <4>1, <4>2
    <3>3. PICK i : i = CHOOSE k \in Outcomes(e) : \A j \in Outcomes(e) : k <= j
      OBVIOUS
    <3>4. i \in Outcomes(e)
      BY <3>1, <3>2, <3>3
    <3> QED
      BY <1>3, <2>1, <3>3, <3>4
  <2> QED
    BY <2>1
<1> QED
  BY <1>1, <1>3, <1>4 DEF TakesUp

\* A continue takes the run up at its node and, inside the attempt, at its phase.
LEMMA ContinueReaches ==
    ASSUME NEW p, NEW e, NEW r, TrailOK(p, e), Body(p, e, r), Follows(p, e, r, DOMAIN e),
           NEW to, to = ContinueWait(p, e), to.node \notin NoReplay, to.index = Count(e)
    PROVE  /\ to.node = r.node
           /\ r.index = to.index => to.at = r.at /\ to.value = r.value /\ to.waits = r.waits
           /\ \E w \in Open(e) : TakesUp(p, e, to, w) /\ Step(e) \in DOMAIN p
<1>1. Attempt(p, e)
  BY DEF Body
<1>2. PICK w, node :
          /\ w \in Open(e)
          /\ LastWait(p, e, w)
          /\ node = Reached(p, e, DOMAIN e)[LastStart(e) - 1] /\ node \notin NoReplay /\ node.step = Step(e)
          /\ to = Prefix(p, e, node, LastStart(e), w) /\ to # NoPlace
  BY <1>1, ContinueIs
<1>3. TakesUp(p, e, to, w) /\ to.node = node
  BY <1>1, <1>2, PlaceIs
<1>4. LastStart(e) # 0 /\ Step(e) \in DOMAIN p /\ ~Left(e, r)
  BY <1>2 DEF LastWait, Left
<1>5. to.node = r.node
  BY <1>2, <1>3, <1>4 DEF Follows, FollowsTo, Meets, Lost
<1>6. ASSUME r.index = to.index PROVE to.at = r.at /\ to.value = r.value /\ to.waits = r.waits
  <2>1. r.index # 0
    <3>1. Starts(e) # {}
      BY <1>4, LastStartIs
    <3>2. Count(e) \in Nat /\ Count(e) >= 1
      BY <3>1, StartsCounted DEF Count
    <3> QED
      BY <1>6, <3>2
  <2>2. Inside(p, e, r)
    BY <2>1 DEF Body
  <2>3. r.waits = to.waits
    BY <1>3, <2>2 DEF Inside, TakesUp
  <2>4. r.at = to.at
    <3>1. r.at \in DOMAIN Phases(p, Step(e)) /\ Phases(p, Step(e))[r.at] = e[w].wait
      BY <1>2, <2>2 DEF Inside
    <3>2. \A i, j \in DOMAIN Phases(p, Step(e)) : Phases(p, Step(e))[i] = Phases(p, Step(e))[j] => i = j
      BY <1>4, PhasesOf DEF TrailOK
    <3> QED
      BY <1>3, <3>1, <3>2 DEF TakesUp
  <2>5. r.value = to.value
    BY <1>3, <1>5, <2>2, <2>4 DEF Inside, TakesUp
  <2> QED
    BY <2>3, <2>4, <2>5
<1> QED
  BY <1>2, <1>3, <1>4, <1>5, <1>6

\* The waits before the one that is open have their answers.
LEMMA AnsweredBefore ==
    ASSUME NEW p, NEW e, TrailOK(p, e), Attempt(p, e), NEW w, LastWait(p, e, w),
           NEW at \in DOMAIN Phases(p, Step(e)), Phases(p, Step(e))[at] = e[w].wait
    PROVE  ~(Cardinality(Given(e)) < Cardinality({i \in 1 .. at - 1 : Phases(p, Step(e))[i] \in WaitId}))
<1>1. PICK n, phases, W : n = Len(e) /\ phases = Phases(p, Step(e)) /\ W = {i \in 1 .. at - 1 : phases[i] \in WaitId}
  OBVIOUS
<1>2. n \in Nat /\ DOMAIN e = 1 .. n /\ Given(e) \subseteq 1 .. n
  BY <1>1 DEF TrailOK, Given, Recent
<1>3. /\ DOMAIN phases = 1 .. Len(phases) /\ Len(phases) \in Nat
      /\ \A i, j \in DOMAIN phases : phases[i] = phases[j] => i = j
  BY <1>1, PhasesOf DEF LastWait, TrailOK
<1>4. \A i \in W : i \in DOMAIN phases /\ i < at /\ phases[i] \in WaitId
  BY <1>1, <1>3
<1>5. \A i \in W : \E k \in Given(e) : e[k].wait = phases[i]
  <2>1. w \in Asked(e)
    BY DEF LastWait, Open
  <2>2. Answers(p, e, e[w].wait, w)
    BY <2>1 DEF Attempt, GivenInOrder
  <2> QED
    BY <1>1, <1>4, <2>2 DEF Answers
<1> DEFINE f == [i \in W |-> CHOOSE k \in Given(e) : e[k].wait = phases[i]]
<1>6. \A i \in W : f[i] \in Given(e) /\ e[f[i]].wait = phases[i]
  BY <1>5
<1>7. f \in [W -> Given(e)]
  BY <1>6
<1>8. \A i, j \in W : f[i] = f[j] => i = j
  BY <1>3, <1>4, <1>6
<1> HIDE DEF f
<1>9. f \in Injection(W, Given(e))
  BY <1>7, <1>8 DEF Injection, IsInjective
<1>10. IsFiniteSet(Given(e)) /\ Cardinality(Given(e)) \in Nat
  <2>1. IsFiniteSet(1 .. n)
    BY <1>2, FS_Interval
  <2>2. IsFiniteSet(Given(e))
    BY <1>2, <2>1, FS_Subset
  <2> QED
    BY <2>2, FS_CardinalityType
<1>11. Cardinality(W) <= Cardinality(Given(e)) /\ Cardinality(W) \in Nat
  BY <1>9, <1>10, FS_Injection, FS_CardinalityType
<1> QED
  BY <1>1, <1>10, <1>11

\* A run that parked is found again where it parked.
LEMMA ParkedReaches ==
    ASSUME NEW p, NEW e, NEW r, TrailOK(p, e), AllReplayable(p), Body(p, e, r), Follows(p, e, r, DOMAIN e),
           Len(e) # 0, e[Len(e)].type = "wait.started"
    PROVE  /\ ContinueWait(p, e).node = r.node /\ ContinueWait(p, e).at = r.at /\ ContinueWait(p, e).value = r.value
           /\ ContinueWait(p, e).waits = r.waits /\ ContinueWait(p, e).index = r.index
<1>1. PICK n, L : n = Len(e) /\ L = LastStart(e)
  OBVIOUS
<1>2. /\ n \in Nat /\ DOMAIN e = 1 .. n /\ L \in 0 .. n /\ n \in 1 .. n /\ e[n].type = "wait.started"
      /\ L # 0 => e[L].type = "step.started"
  BY <1>1, LastStartIs
<1>3. Attempt(p, e) /\ Inside(p, e, r) /\ r.index # 0
  BY DEF Body, Parked
<1>4. L # 0 /\ L < n /\ r.index = Count(e) /\ Step(e) = r.node.step
  <2>1. L # 0 /\ r.index = Count(e) /\ Step(e) = r.node.step
    BY <1>1, <1>3 DEF Inside
  <2>2. L # n
    BY <1>2, <2>1
  <2> QED
    BY <1>2, <2>1, <2>2
<1>5. \A j \in DOMAIN e : ~(j > n)
  BY <1>2
<1>6. n \in Open(e) /\ n \in PendingWaits(e) /\ PendingWaits(e) \in SUBSET (1 .. n)
  BY <1>1, <1>2, <1>4, <1>5 DEF Open, Asked, Recent, Resolves, PendingWaits
<1>7. PendingWait(e) = n
  <2>1. \A j \in PendingWaits(e) : j <= n
    BY <1>2, <1>6
  <2> QED
    BY <1>2, <1>6, <2>1, LatestIs DEF PendingWait
<1>8. LastWait(p, e, n)
  BY <1>3, <1>6, OpenWaitIs
<1>9. e[n].step = Step(e) /\ Step(e) \in DOMAIN p /\ StartAt(e, e[n].index) = L /\ r.node \notin NoReplay /\ Step(e) # Done
  <2>1. e[n].step = Step(e) /\ Step(e) \in DOMAIN p /\ StartAt(e, e[n].index) = L
    BY <1>1, <1>8 DEF LastWait
  <2> QED
    BY <1>4, <2>1, StepIsReplayed DEF TrailOK, WellBuilt
<1>10. Trail!Positions(e, {"workflow.completed"}) = {}
  BY <1>4, <1>9 DEF Body, Onwards, Trail!Positions
<1>11. ReplayCompleted(p, e, 1 .. L - 1, Step(e)) = r.node
  <2>1. L \in 1 .. Len(e)
    BY <1>1, <1>2, <1>4
  <2>2. Reached(p, e, 1 .. L - 1)[Len(e)] = Reached(p, e, DOMAIN e)[L - 1]
    BY <2>1, ReachedBefore
  <2>3. Reached(p, e, DOMAIN e)[L - 1] = r.node
    BY <1>1, <1>3, <1>4 DEF Follows, FollowsTo, Meets, Lost, Left
  <2>4. ~NonIdempotent(p, Step(e))
    BY <1>9 DEF AllReplayable, Replayable
  <2> QED
    BY <1>4, <1>9, <2>2, <2>3, <2>4 DEF ReplayCompleted, NoReplay
<1>12. ContinueWait(p, e) = Prefix(p, e, r.node, L, n)
  BY <1>1, <1>4, <1>7, <1>9, <1>10, <1>11 DEF ContinueWait, NoReplay
<1>13. PICK at \in DOMAIN Phases(p, Step(e)) :
          /\ Phases(p, Step(e))[at] = e[n].wait
          /\ ContinueWait(p, e) = IF Unplaced(p, e, at) THEN NoPlace ELSE WaitingAt(p, e, r.node, at)
  BY <1>1, <1>3, <1>4, <1>8, <1>12, PrefixIs
<1>14. at = r.at
  <2>1. r.at \in DOMAIN Phases(p, Step(e)) /\ Phases(p, Step(e))[r.at] = e[n].wait
    BY <1>3, <1>6 DEF Inside
  <2>2. \A i, j \in DOMAIN Phases(p, Step(e)) : Phases(p, Step(e))[i] = Phases(p, Step(e))[j] => i = j
    BY <1>9, PhasesOf DEF TrailOK
  <2> QED
    BY <1>13, <2>1, <2>2
<1>15. ~Unplaced(p, e, at)
  <2>1. ~(Prompted(p, e, at) /\ Outcomes(e) = {})
    BY <1>3, <1>14 DEF Inside
  <2> QED
    BY <1>3, <1>8, <1>13, <2>1, AnsweredBefore DEF Unplaced
<1>16. ContinueWait(p, e).node = r.node /\ ContinueWait(p, e).index = Count(e)
  BY <1>13, <1>15 DEF WaitingAt
<1>17. ContinueWait(p, e).node \notin NoReplay
  BY <1>9, <1>16
<1> QED
  BY <1>4, <1>16, <1>17, ContinueReaches

\* What the trail and the run say of each other: but for the excuses, the trail records
\* the attempts as the driver makes them, and a replay follows the run.
Sound(p, e, r) ==
    /\ Straight(p, e) => Body(p, e, r) /\ Follows(p, e, r, Unretried(e))
    /\ Plain(p, e) => Follows(p, e, r, DOMAIN e)

\* An event that neither starts nor completes a step.
LEMMA SoundKept ==
    ASSUME NEW p, NEW e, NEW f, NEW v, NEW r, NEW t, Grows(e, f, v), TrailOK(p, e), TrailOK(p, f),
           v.type \notin {"step.started", "step.completed"}, v.type = "workflow.retryStarted" => v.source = 0,
           Sound(p, e, r), t.node = r.node, t.index = 0 => r.index = 0,
           Straight(p, f) /\ Body(p, e, r) => Body(p, f, t) /\ (Left(e, r) => Left(f, t))
    PROVE  Sound(p, f, t)
<1>1. /\ \A i \in DOMAIN e : i \in Unretried(f) <=> i \in Unretried(e)
      /\ Unretried(e) \subseteq DOMAIN e /\ Unretried(f) \subseteq DOMAIN f
  BY UnretriedGrows, RetriedIs
<1>2. DOMAIN e \subseteq DOMAIN f
  BY DEF Grows
<1>3. ASSUME Straight(p, f) PROVE Body(p, f, t) /\ Follows(p, f, t, Unretried(f))
  <2>1. Straight(p, e)
    BY <1>3, StraightShrinks
  <2>2. Body(p, e, r) /\ Follows(p, e, r, Unretried(e))
    BY <2>1 DEF Sound
  <2>3. Body(p, f, t) /\ (Left(e, r) => Left(f, t))
    BY <1>3, <2>2
  <2> QED
    BY <1>1, <2>2, <2>3, FollowsKept
<1>4. ASSUME Plain(p, f) PROVE Follows(p, f, t, DOMAIN f)
  <2>1. Plain(p, e) /\ Straight(p, e) /\ Straight(p, f)
    BY <1>4, StraightShrinks DEF Plain
  <2>2. Body(p, e, r) /\ Follows(p, e, r, DOMAIN e)
    BY <2>1 DEF Sound
  <2>3. Left(e, r) => Left(f, t)
    BY <2>1, <2>2
  <2>4. PICK K, J : K = DOMAIN e /\ J = DOMAIN f
    OBVIOUS
  <2>5. K \subseteq DOMAIN e /\ J \subseteq DOMAIN f /\ \A i \in DOMAIN e : i \in J <=> i \in K
    BY <1>2, <2>4
  <2>6. Follows(p, f, t, J)
    BY <2>2, <2>3, <2>4, <2>5, FollowsKept
  <2> QED
    BY <2>4, <2>6
<1> QED
  BY <1>3, <1>4 DEF Sound

\* A failure after an output leaves that output in the trail.
LEMMA OutputThenFailed ==
    ASSUME NEW p, NEW e, TrailOK(p, e), Attempt(p, e), NEW j \in Outcomes(e), NEW i \in Failures(e)
    PROVE  OutputThen(e, {"step.failed"})
<1>1. PICK n, L : n = Len(e) /\ L = LastStart(e)
  OBVIOUS
<1>2. n \in Nat /\ DOMAIN e = 1 .. n /\ L \in 0 .. n /\ (\A k \in Starts(e) : k <= L)
  BY <1>1, LastStartIs
<1>3. /\ j \in 1 .. n /\ L < j /\ e[j].type = "step.completed" /\ j \in Recent(e, DriverEvent)
      /\ i \in 1 .. n /\ L < i /\ e[i].type = "step.failed" /\ i \in Recent(e, DriverEvent)
  BY <1>1, <1>2 DEF Outcomes, Failures, Recent, DriverEvent
<1>4. j < i /\ e[j].step = Step(e) /\ e[i].step = Step(e)
  BY <1>3 DEF Attempt, FailureLast, OwnEvents
<1>5. ASSUME NEW l \in j .. i, e[l].type = "step.started" PROVE FALSE
  <2>1. l \in 1 .. n /\ L < l
    BY <1>2, <1>3, <1>5
  <2>2. l \in Starts(e)
    BY <1>2, <1>5, <2>1 DEF Starts
  <2> QED
    BY <1>2, <2>1, <2>2
<1>6. SameAttempt(e, j, i)
  BY <1>4, <1>5 DEF SameAttempt
<1> QED
  BY <1>2, <1>3, <1>4, <1>6 DEF OutputThen, Then

\* A run opened again to start a step, where the replay of the kept events ends there.
LEMMA SoundFresh ==
    ASSUME NEW p, NEW e, NEW f, NEW v, NEW r, NEW t, Grows(e, f, v), TrailOK(p, e), TrailOK(p, f),
           v.type \in Reopening, v.type = "workflow.retryStarted" => v.source = 0,
           Sound(p, e, r), t.node = r.node, t.index = 0,
           Straight(p, e) => Between(f) /\ Meets(p, Reached(p, e, Unretried(e))[Len(e)], r.node),
           Plain(p, e) => Meets(p, Reached(p, e, DOMAIN e)[Len(e)], r.node)
    PROVE  Sound(p, f, t)
<1>1. /\ \A i \in DOMAIN e : i \in Unretried(f) <=> i \in Unretried(e)
      /\ Unretried(e) \subseteq DOMAIN e /\ Unretried(f) \subseteq DOMAIN f
  BY UnretriedGrows, RetriedIs
<1>2. DOMAIN e \subseteq DOMAIN f
  BY DEF Grows
<1>3. ASSUME Straight(p, f) PROVE Body(p, f, t) /\ Follows(p, f, t, Unretried(f))
  <2>1. Straight(p, e)
    BY <1>3, StraightShrinks
  <2>2. Body(p, e, r) /\ Follows(p, e, r, Unretried(e))
    BY <2>1 DEF Sound
  <2>3. Fits(p, e, f, v)
    BY DEF Fits, Reopening, DriverEvent
  <2>4. Body(p, f, t)
    BY <2>1, <2>2, <2>3, ReopenedBetween
  <2> QED
    BY <1>1, <2>1, <2>2, <2>4, FollowsFresh
<1>4. ASSUME Plain(p, f) PROVE Follows(p, f, t, DOMAIN f)
  <2>1. Plain(p, e)
    BY <1>4, StraightShrinks
  <2>2. Follows(p, e, r, DOMAIN e)
    BY <2>1 DEF Sound
  <2>4. PICK K, J : K = DOMAIN e /\ J = DOMAIN f
    OBVIOUS
  <2>5. K \subseteq DOMAIN e /\ J \subseteq DOMAIN f /\ \A i \in DOMAIN e : i \in J <=> i \in K
    BY <1>2, <2>4
  <2>6. Follows(p, f, t, J)
    BY <2>1, <2>2, <2>4, <2>5, FollowsFresh
  <2> QED
    BY <2>4, <2>6
<1> QED
  BY <1>3, <1>4 DEF Sound

\* The retry of a cancelled run finds a cancel of this cycle.
LEMMA CancelledHas ==
    ASSUME NEW p, NEW e, NEW r, TrailOK(p, e), Body(p, e, r), RetryCancelled(p, e) \notin NoReplay
    PROVE  \E c \in Cancels(e) : CancelHolds(p, e, r, c)
<1>1. PICK n, c : n = Len(e) /\ c = CancelledStep(e)
  OBVIOUS
<1>2. n \in Nat /\ DOMAIN e = 1 .. n
  BY <1>1 DEF TrailOK
<1>3. c # 0
  BY <1>1 DEF RetryCancelled, NoReplay
<1>4. c \in Cancels(e)
  <2>1. PICK C : C = {i \in Trail!Positions(e, {"step.cancelled"}) : i >= CycleStart(e)}
    OBVIOUS
  <2>2. C \in SUBSET (1 .. n) /\ C \subseteq Cancels(e)
    BY <1>2, <2>1 DEF Trail!Positions, Cancels
  <2>3. c \in C \cup {0}
    BY <1>1, <1>2, <2>1, <2>2, LatestOf DEF CancelledStep
  <2> QED
    BY <1>3, <2>2, <2>3
<1> QED
  BY <1>4 DEF Body, CancelsHold

\* The retry of a cancelled run starts the step again where a replay leads.
LEMMA SoundCancelled ==
    ASSUME NEW p, NEW d, NEW e, NEW f, NEW v, NEW r, NEW t, Grows(e, f, v), TrailOK(p, e), TrailOK(p, f), ReadOf(d, e),
           v.type = "workflow.retryStarted", v.source = 0, Sound(p, d, r), Sound(p, e, r),
           RetryCancelled(p, d) \notin NoReplay, t.node = r.node, t.index = 0
    PROVE  Sound(p, f, t)
<1>1. /\ TrailOK(p, d) /\ (Straight(p, e) => Straight(p, d)) /\ Cancels(d) \subseteq Cancels(e)
  BY ReadAlike
<1>2. Regained(f) # {}
  BY ReopeningGrows DEF Reopening
<1>3. ASSUME Straight(p, e), NEW K, K \subseteq DOMAIN e, r.index # 0 => \A i \in DOMAIN e : LastStart(e) <= i => i \in K,
             Follows(p, e, r, K)
      PROVE  Meets(p, Reached(p, e, K)[Len(e)], r.node)
  <2>1. CASE r.index = 0
    BY <1>3, <2>1 DEF Follows, FollowsTo
  <2>2. CASE r.index # 0
    <3>1. Body(p, d, r) /\ Body(p, e, r)
      BY <1>1, <1>3 DEF Sound
    <3>2. PICK c \in Cancels(d) : CancelHolds(p, d, r, c)
      BY <1>1, <3>1, CancelledHas
    <3>3. CancelHolds(p, e, r, c)
      BY <1>1, <3>1 DEF Body, CancelsHold
    <3>4. Attempt(p, e) /\ LastStart(e) # 0 /\ r.node.step = Step(e) /\ ~CancelledThenCompleted(e)
      BY <1>3, <2>2, <3>1 DEF Body, Inside, Straight
    <3>5. CASE Outcomes(e) = {}
      BY <1>3, <3>4, <3>5, EndsAtStart
    <3>6. CASE Outcomes(e) # {}
      <4>1. PICK j \in Outcomes(e) : Throws(p, e, j)
        BY <3>3, <3>6 DEF CancelHolds
      <4>2. Lost(p, Reached(p, e, K)[Len(e)])
        BY <1>3, <2>2, <3>4, <4>1, EndsInThrow
      <4> QED
        BY <4>2 DEF Meets
    <3> QED
      BY <3>5, <3>6
  <2> QED
    BY <2>1, <2>2
<1>4. ASSUME Straight(p, e) PROVE Meets(p, Reached(p, e, Unretried(e))[Len(e)], r.node)
  <2>1. Body(p, e, r) /\ Follows(p, e, r, Unretried(e)) /\ Unretried(e) \subseteq DOMAIN e
    BY <1>4, RetriedIs DEF Sound
  <2>2. r.index # 0 => \A i \in DOMAIN e : LastStart(e) <= i => i \in Unretried(e)
    BY <2>1, LastAttemptKept DEF Body, Inside
  <2> QED
    BY <1>3, <1>4, <2>1, <2>2
<1>5. ASSUME Plain(p, e) PROVE Meets(p, Reached(p, e, DOMAIN e)[Len(e)], r.node)
  <2>1. Straight(p, e) /\ Follows(p, e, r, DOMAIN e)
    BY <1>5 DEF Sound, Plain
  <2>2. PICK K : K = DOMAIN e
    OBVIOUS
  <2> QED
    BY <1>3, <2>1, <2>2
<1>6. Between(f)
  BY <1>2 DEF Between
<1> QED
  BY <1>4, <1>5, <1>6, SoundFresh DEF Reopening

\* The same for the resume of a failed run.
LEMMA SoundResumed ==
    ASSUME NEW p, NEW d, NEW e, NEW f, NEW v, NEW r, NEW t, Grows(e, f, v), TrailOK(p, e), TrailOK(p, f), ReadOf(d, e),
           v.type = "workflow.resumed", Sound(p, e, r),
           ResumeFailed(p, d) \notin NoReplay, ResumeFailed(p, d) = r.node, t.node = r.node, t.index = 0
    PROVE  Sound(p, f, t)
<1>1. /\ TrailOK(p, d) /\ DOMAIN d \subseteq DOMAIN e /\ (\A i \in DOMAIN d : d[i] = e[i])
      /\ Reached(p, e, DOMAIN e)[Len(e)] = Reached(p, d, DOMAIN d)[Len(d)]
      /\ LastStart(d) = LastStart(e) /\ Outcomes(d) = Outcomes(e)
  BY ReadAlike
<1>2. Reached(p, e, DOMAIN e)[Len(e)] = r.node
  BY <1>1, ResumeIs
<1>3. PICK i \in DOMAIN d :
          /\ d[i].type = "step.failed" /\ d[i].step = r.node.step
          /\ \A j \in DOMAIN d : j > i /\ d[j].type = "step.completed" => d[j].step # d[i].step
  BY ResumeIs
<1>4. /\ LastStart(f) = LastStart(e) /\ Outcomes(f) = Outcomes(e) /\ Open(f) = Open(e) /\ Regained(f) = Regained(e)
  BY ReopeningGrows DEF Reopening
<1>5. ASSUME Straight(p, e) PROVE Meets(p, Reached(p, e, Unretried(e))[Len(e)], r.node)
  <2>1. Body(p, e, r) /\ Follows(p, e, r, Unretried(e)) /\ Unretried(e) \subseteq DOMAIN e /\ ~CancelledThenCompleted(e)
    BY <1>5, RetriedIs DEF Sound, Straight
  <2>2. CASE r.index = 0
    BY <2>1, <2>2 DEF Follows, FollowsTo
  <2>3. CASE r.index # 0
    <3>1. /\ Attempt(p, e) /\ LastStart(e) # 0 /\ r.node.step = Step(e) /\ Regained(e) = {}
          /\ Outcomes(e) # {} => Prompted(p, e, r.at)
      BY <2>1, <2>3 DEF Body, Inside
    <3>2. \A k \in DOMAIN e : LastStart(e) <= k => k \in Unretried(e)
      BY <3>1, LastAttemptKept
    <3>3. CASE Outcomes(e) = {}
      BY <2>1, <3>1, <3>3, EndsAtStart
    <3>4. ASSUME NEW j \in Outcomes(e) PROVE Meets(p, Reached(p, e, Unretried(e))[Len(e)], r.node)
      <4>1. Has(p, Step(e), {"prompt"})
        BY <3>1, <3>4 DEF Prompted, Has
      <4> QED
        BY <1>2, <2>1, <2>3, <3>1, <3>2, <4>1, EndsAlike
    <3> QED
      BY <3>3, <3>4
  <2> QED
    BY <2>2, <2>3
<1>6. ASSUME Straight(p, e) PROVE Between(f)
  <2>1. Body(p, e, r)
    BY <1>6 DEF Sound
  <2>2. CASE r.index = 0
    BY <1>4, <2>1, <2>2 DEF Body, Between
  <2>3. CASE r.index # 0
    <3>1. Attempt(p, e) /\ LastStart(e) # 0 /\ r.node.step = Step(e)
      BY <2>1, <2>3 DEF Body, Inside
    <3>2. ASSUME NEW w \in Open(e), NEW j \in Outcomes(e) PROVE FALSE
      <4>1. Failures(e) = {}
        BY <3>1, <3>2 DEF Attempt, OpenLast
      <4>2. PICK n, L : n = Len(e) /\ L = LastStart(e)
        OBVIOUS
      <4>3. n \in Nat /\ DOMAIN e = 1 .. n /\ L \in 0 .. n
        BY <4>2, LastStartIs
      <4>4. i \in 1 .. n /\ e[i].type = "step.failed"
        BY <1>1, <1>3, <4>3
      <4>5. ~(L < i)
        BY <4>1, <4>2, <4>3, <4>4 DEF Failures, Recent
      <4>6. j \in DOMAIN d /\ L < j /\ d[j].type = "step.completed"
        BY <1>1, <3>2, <4>2 DEF Outcomes, Recent
      <4>7. e[j].step = Step(e)
        <5>1. j \in Recent(e, DriverEvent)
          BY <3>2 DEF Outcomes, Recent, DriverEvent
        <5> QED
          BY <3>1, <5>1 DEF Attempt, OwnEvents
      <4>8. d[j].step = d[i].step
        BY <1>1, <1>3, <3>1, <4>6, <4>7
      <4>9. j > i
        <5>1. j \in 1 .. n
          BY <1>1, <4>3, <4>6
        <5> QED
          BY <4>3, <4>4, <4>5, <4>6, <5>1
      <4> QED
        BY <1>3, <4>6, <4>8, <4>9
    <3> QED
      BY <1>4, <3>2 DEF Between
  <2> QED
    BY <2>2, <2>3
<1>7. Meets(p, Reached(p, e, DOMAIN e)[Len(e)], r.node)
  BY <1>2 DEF Meets
<1> QED
  BY <1>5, <1>6, <1>7, SoundFresh DEF Reopening

\* The same for the retry of a failed run, which no longer keeps the failed attempt.
LEMMA SoundRetried ==
    ASSUME NEW p, NEW d, NEW e, NEW f, NEW v, NEW r, NEW t, Grows(e, f, v), TrailOK(p, e), TrailOK(p, f), ReadOf(d, e),
           NEW s, s = Trail!LatestUnresolvedFailure(d), ~(s < LastStart(d)), v.type = "workflow.retryStarted", v.source = s,
           Sound(p, d, r), Sound(p, e, r), RetryFailure(p, d) \notin NoReplay, t.node = r.node, t.index = 0
    PROVE  Sound(p, f, t)
<1>1. /\ TrailOK(p, d) /\ DOMAIN d \subseteq DOMAIN e /\ (\A i \in DOMAIN d : d[i] = e[i])
      /\ LastStart(d) = LastStart(e) /\ (LastStart(e) # 0 => Step(d) = Step(e))
      /\ Outcomes(d) = Outcomes(e) /\ Failures(d) = Failures(e) /\ (Straight(p, e) => Straight(p, d))
      /\ Len(d) \in Nat /\ Len(e) \in Nat /\ Len(d) <= Len(e) /\ DOMAIN d = 1 .. Len(d) /\ LastStart(d) \in 0 .. Len(d)
  <2>1. TrailOK(p, d)
    BY ReadAlike
  <2>2. LastStart(d) \in 0 .. Len(d)
    BY <2>1, LastStartIs
  <2>3. /\ DOMAIN d \subseteq DOMAIN e /\ (\A i \in DOMAIN d : d[i] = e[i])
        /\ LastStart(d) = LastStart(e) /\ (LastStart(e) # 0 => Step(d) = Step(e))
        /\ Outcomes(d) = Outcomes(e) /\ Failures(d) = Failures(e) /\ (Straight(p, e) => Straight(p, d))
    BY ReadAlike
  <2>4. Len(d) \in Nat /\ Len(e) \in Nat /\ Len(d) <= Len(e) /\ DOMAIN d = 1 .. Len(d)
    BY DEF ReadOf, TrailOK
  <2> QED
    BY <2>1, <2>2, <2>3, <2>4
<1>2. ASSUME Straight(p, e)
      PROVE  /\ s # 0 /\ LastStart(e) # 0 /\ s \in LastStart(e) .. Len(e) /\ e[s].step = Step(e)
             /\ Outcomes(e) = {} \/ s \in Failures(e)
             /\ Attempt(p, e)
  <2>1. Attempt(p, d) /\ Follows(p, d, r, Unretried(d)) /\ Attempt(p, e)
    BY <1>1, <1>2 DEF Sound, Body
  <2>2. /\ s # 0 /\ LastStart(d) # 0 /\ s \in LastStart(d) .. Len(d) /\ d[s].step = Step(d)
        /\ Outcomes(d) = {} \/ s \in Failures(d)
    BY <1>1, <2>1, RetryReaches
  <2>3. s \in LastStart(e) .. Len(e) /\ s \in DOMAIN d
    BY <1>1, <2>2
  <2> QED
    BY <1>1, <2>1, <2>2, <2>3
<1>3. Regained(f) # {}
  BY ReopeningGrows DEF Reopening
<1>4. ASSUME Straight(p, f) PROVE Body(p, f, t) /\ Follows(p, f, t, Unretried(f))
  <2>1. Straight(p, e)
    BY <1>4, StraightShrinks
  <2>2. Body(p, e, r) /\ Follows(p, e, r, Unretried(e))
    BY <2>1 DEF Sound
  <2>3. Fits(p, e, f, v)
    BY <1>2, <2>1 DEF Fits, DriverEvent
  <2>4. Body(p, f, t)
    BY <1>3, <2>2, <2>3, ReopenedBetween DEF Between, Reopening
  <2>5. Follows(p, f, t, Unretried(f))
    BY <1>2, <2>1, <2>2, FollowsRetry
  <2> QED
    BY <2>4, <2>5
<1>5. ASSUME Plain(p, f) PROVE Follows(p, f, t, DOMAIN f)
  <2>1. Plain(p, e) /\ Straight(p, e)
    BY <1>5, StraightShrinks DEF Plain
  <2>2. Follows(p, e, r, DOMAIN e)
    BY <2>1 DEF Sound
  <2>3. Outcomes(e) = {}
    <3>1. ASSUME NEW j \in Outcomes(e) PROVE FALSE
      <4>1. s \in Failures(e) /\ Attempt(p, e)
        BY <1>2, <2>1, <3>1
      <4> QED
        BY <2>1, <3>1, <4>1, OutputThenFailed DEF Plain
    <3> QED
      BY <3>1
  <2>4. PICK K, J : K = DOMAIN e /\ J = DOMAIN f
    OBVIOUS
  <2>5. K \subseteq DOMAIN e /\ J \subseteq DOMAIN f /\ \A i \in DOMAIN e : i \in J <=> i \in K
    BY <2>4 DEF Grows
  <2>6. Meets(p, Reached(p, e, K)[Len(e)], r.node)
    BY <1>2, <2>1, <2>2, <2>3, <2>4, <2>5, EndsAtStart
  <2>7. Follows(p, f, t, J)
    BY <2>2, <2>4, <2>5, <2>6, FollowsFresh DEF Reopening
  <2> QED
    BY <2>4, <2>7
<1> QED
  BY <1>4, <1>5 DEF Sound

\* What a continue takes up in what it has read it takes up in the trail.
LEMMA TakesUpAlike ==
    ASSUME NEW p, NEW d, NEW e, TrailOK(p, e), ReadOf(d, e), NEW to, NEW w \in Open(d), TakesUp(p, d, to, w),
           LastWait(p, d, w)
    PROVE  TakesUp(p, e, to, w) /\ w \in Open(e) /\ LastStart(e) # 0 /\ Step(e) \in DOMAIN p
<1>1. /\ (\A i \in DOMAIN d : d[i] = e[i]) /\ LastStart(d) = LastStart(e) /\ Count(d) = Count(e)
      /\ (LastStart(e) # 0 => Step(d) = Step(e)) /\ Outcomes(d) = Outcomes(e) /\ Open(d) = Open(e)
      /\ Outputs(d, Given(d)) = Outputs(e, Given(e))
  BY ReadAlike
<1>2. LastStart(e) # 0 /\ Step(d) = Step(e) /\ Step(e) \in DOMAIN p /\ w \in DOMAIN d
  BY <1>1 DEF LastWait
<1>3. \A j \in Outcomes(e) : j \in DOMAIN d /\ d[j] = e[j]
  BY <1>1 DEF Outcomes, Recent
<1>4. Prompted(p, d, to.at) <=> Prompted(p, e, to.at)
  BY <1>2 DEF Prompted
<1> QED
  BY <1>1, <1>2, <1>3, <1>4 DEF TakesUp

\* A continue goes on inside the attempt that waits.
LEMMA SoundContinued ==
    ASSUME NEW p, NEW d, NEW e, NEW f, NEW v, NEW r, NEW t, Grows(e, f, v), TrailOK(p, e), TrailOK(p, f), ReadOf(d, e),
           v.type = "workflow.resumed", Sound(p, d, r), Sound(p, e, r),
           NEW to, to = ContinueWait(p, d), to.node \notin NoReplay, to.index = Count(d), Regained(d) = {},
           SamePlace(to, t), t.pc = "phase", to.node = r.node, r.index = to.index => SamePlace(r, t)
    PROVE  Sound(p, f, t)
<1>1. /\ TrailOK(p, d) /\ (Straight(p, e) => Straight(p, d)) /\ Count(d) = Count(e) /\ Regained(d) = Regained(e)
  BY ReadAlike
<1>2. ASSUME Straight(p, e) PROVE \E w \in Open(e) : TakesUp(p, e, to, w) /\ LastStart(e) # 0 /\ Step(e) \in DOMAIN p
  <2>1. Attempt(p, d)
    BY <1>1, <1>2 DEF Sound, Body
  <2>2. PICK w, node :
            w \in Open(d) /\ LastWait(p, d, w) /\ node.step = Step(d) /\ to = Prefix(p, d, node, LastStart(d), w) /\ to # NoPlace
    BY <1>1, <2>1, ContinueIs
  <2>3. TakesUp(p, d, to, w)
    BY <1>1, <2>1, <2>2, PlaceIs
  <2> QED
    BY <2>2, <2>3, TakesUpAlike
<1>3. ASSUME Straight(p, e), Body(p, e, r) PROVE Body(p, f, t) /\ ~Left(e, r) /\ t.index # 0
  <2>1. PICK w \in Open(e) : TakesUp(p, e, to, w) /\ LastStart(e) # 0 /\ Step(e) \in DOMAIN p
    BY <1>2, <1>3
  <2>2. t.index = Count(e) /\ t.node = r.node /\ t.at = to.at /\ t.waits = to.waits /\ t.value = to.value /\ t.node = to.node
    BY <1>1 DEF SamePlace
  <2>3. t.index # 0
    <3>1. Starts(e) # {}
      BY <2>1, LastStartIs
    <3>2. Count(e) \in Nat /\ Count(e) >= 1
      BY <3>1, StartsCounted DEF Count
    <3> QED
      BY <2>2, <3>2
  <2>4. r.index = Count(e) => SamePlace(r, t)
    BY <1>1
  <2>5. r.index = 0 => /\ Step(e) = t.node.step /\ Regained(e) = {}
                       /\ t.at \in DOMAIN Phases(p, Step(e)) /\ Phases(p, Step(e))[t.at] = e[w].wait
                       /\ t.waits = Outputs(e, Given(e))
                       /\ Outcomes(e) = {} => ~Prompted(p, e, t.at) /\ t.value = t.node.input
    <3>1. Outcomes(e) = {} => ~Prompted(p, e, to.at) /\ to.value = to.node.input
      BY <2>1 DEF TakesUp
    <3> QED
      BY <1>1, <2>1, <2>2, <3>1 DEF TakesUp
  <2>6. Body(p, f, t)
    BY <1>3, <2>1, <2>2, <2>4, <2>5, ReopenedInside
  <2> QED
    BY <2>1, <2>3, <2>6 DEF Left
<1>4. t.node = r.node
  BY DEF SamePlace
<1>5. ASSUME ~Straight(p, e) PROVE Sound(p, f, t)
  BY <1>5, StraightShrinks DEF Sound, Plain
<1>6. ASSUME Straight(p, e) PROVE Sound(p, f, t)
  <2>1. Body(p, e, r)
    BY <1>6 DEF Sound
  <2>2. Body(p, f, t) /\ ~Left(e, r) /\ t.index # 0
    BY <1>3, <1>6, <2>1
  <2> QED
    BY <1>4, <2>2, SoundKept
<1> QED
  BY <1>5, <1>6

=============================================================================
