---------------------------- MODULE RoutingProofs ----------------------------
(***************************************************************************)
(* Proofs about Routing: for every list of rules that the admin API can    *)
(* make and every lead, the engine decides by priority, and on comparable  *)
(* conditions its twin decides the same.                                   *)
(*                                                                         *)
(* The loop of the engine is a function of the number of rules visited.    *)
(* Lemmas on the naturals give that function its values, an invariant of   *)
(* the loop tells what they are, and the order of the list, which is total *)
(* and strict, turns places in the list into priorities.                   *)
(***************************************************************************)
EXTENDS Routing, FiniteSetTheorems, WellFoundedInduction, TLAPS

(***************************************************************************)
(* Induction over an interval, for a set instead of a predicate.           *)
(***************************************************************************)
\* A set of numbers that is not empty has a least element.
LEMMA LeastNumber ==
  ASSUME NEW S \in SUBSET Nat, S # {}
  PROVE  \E n \in S : \A m \in S : n <= m
<1> DEFINE below == {ss \in Nat \X Nat : ss[1] < ss[2]}
<1>1. IsWellFoundedOn(below, Nat)
  BY NatLessThanWellFounded DEF OpToRel
<1>2. PICK n \in S : \A m \in S : <<m, n>> \notin below
  <2> HIDE DEF below
  <2>1. QED
    BY <1>1, WFMin
<1>3. \A m \in S : ~(m < n)
  BY <1>2
<1>4. QED
  BY <1>3

\* A set that has 0 and with each number below n its successor has 0..n.
LEMMA Interval ==
  ASSUME NEW n \in Nat, NEW G, 0 \in G, \A k \in 0..n : k < n /\ k \in G => k + 1 \in G
  PROVE  \A k \in 0..n : k \in G
<1> DEFINE missing == {k \in 0..n : k \notin G}
<1>1. SUFFICES ASSUME missing # {} PROVE FALSE
  OBVIOUS
<1>2. missing \in SUBSET Nat
  OBVIOUS
<1>3. PICK k \in missing : \A m \in missing : k <= m
  <2> HIDE DEF missing
  <2>1. QED
    BY <1>1, <1>2, LeastNumber
<1>4. k \in 0..n /\ k # 0 /\ k \notin G
  BY <1>3
<1>5. k - 1 \in 0..n /\ k - 1 \notin missing
  BY <1>3, <1>4
<1>6. k - 1 \in G
  BY <1>5
<1>7. (k - 1) + 1 \in G
  BY <1>4, <1>5, <1>6
<1>8. QED
  BY <1>4, <1>7

IsHistory(f, n, S, start, V) ==
  /\ f \in [0..n -> S]
  /\ f[0] = start
  /\ \A k \in 1..n : f[k] = V[<<k, f[k - 1]>>]

\* A loop whose step V keeps the states S has a history: the function from the
\* number of rounds to the state after them.
LEMMA History ==
  ASSUME NEW n \in Nat, NEW S, NEW start \in S, NEW V \in [(1..n) \X S -> S]
  PROVE  \E f : IsHistory(f, n, S, start, V)
<1> DEFINE G == {m \in 0..n : \E f \in [0..m -> S] :
                   f[0] = start /\ \A k \in 1..m : f[k] = V[<<k, f[k - 1]>>]}
<1>1. 0 \in G
  <2> DEFINE f == [k \in 0..0 |-> start]
  <2>1. f \in [0..0 -> S] /\ f[0] = start
    OBVIOUS
  <2>2. \A k \in 1..0 : FALSE
    OBVIOUS
  <2> HIDE DEF f
  <2>3. QED
    BY <2>1, <2>2
<1>2. ASSUME NEW m \in 0..n, m < n, m \in G
      PROVE  m + 1 \in G
  <2>1. PICK f \in [0..m -> S] : f[0] = start /\ \A k \in 1..m : f[k] = V[<<k, f[k - 1]>>]
    BY <1>2
  <2> DEFINE g == [k \in 0..(m + 1) |-> IF k = m + 1 THEN V[<<m + 1, f[m]>>] ELSE f[k]]
  <2>2. f[m] \in S /\ m + 1 \in 1..n
    BY <1>2
  <2>3. V[<<m + 1, f[m]>>] \in S
    BY <2>2
  <2>4. g \in [0..(m + 1) -> S]
    BY <2>3
  <2>5. g[0] = start
    BY <2>1
  <2>6. ASSUME NEW k \in 1..(m + 1) PROVE g[k] = V[<<k, g[k - 1]>>]
    <3>1. CASE k = m + 1
      <4>1. k - 1 = m /\ g[m] = f[m] /\ g[k] = V[<<m + 1, f[m]>>]
        BY <3>1
      <4> HIDE DEF g
      <4>2. QED
        BY <3>1, <4>1
    <3>2. CASE k # m + 1
      <4>1. k \in 1..m /\ g[k] = f[k] /\ g[k - 1] = f[k - 1]
        BY <2>6, <3>2
      <4>2. QED
        BY <2>1, <4>1
    <3>3. QED
      BY <3>1, <3>2
  <2> HIDE DEF g
  <2>7. QED
    BY <2>2, <2>4, <2>5, <2>6
<1>3. n \in G
  <2> HIDE DEF G
  <2>1. QED
    BY <1>1, <1>2, Interval
<1>4. QED
  BY <1>3 DEF IsHistory

(***************************************************************************)
(* The order of the list.                                                  *)
(***************************************************************************)
LEMMA RuleTypes ==
  ASSUME NEW rs \in Seq(Rule)
  PROVE  /\ Len(rs) \in Nat /\ DOMAIN rs = 1..Len(rs)
         /\ \A i \in DOMAIN rs : rs[i] \in Rule /\ rs[i].priority \in Int
<1>1. Len(rs) \in Nat /\ DOMAIN rs = 1..Len(rs) /\ \A i \in DOMAIN rs : rs[i] \in Rule
  OBVIOUS
<1>2. \A r \in Rule : r.priority \in Int
  BY PriorityAssumption DEF Rule
<1>3. QED
  BY <1>1, <1>2

\* The order is strict and total.
LEMMA StrictOrder ==
  ASSUME NEW rs \in Seq(Rule)
  PROVE  /\ \A i \in DOMAIN rs : ~precedes(rs, i, i)
         /\ \A i, j \in DOMAIN rs : i = j \/ precedes(rs, i, j) \/ precedes(rs, j, i)
         /\ \A i, j, k \in DOMAIN rs :
              precedes(rs, i, j) /\ precedes(rs, j, k) => precedes(rs, i, k)
BY RuleTypes DEF precedes

\* A sorted list of all rules exists: each goes to the place that the number of
\* those before it tells.
LEMMA Sorted ==
  ASSUME NEW rs \in Seq(Rule)
  PROVE  /\ ordered(rs) \in [DOMAIN rs -> DOMAIN rs]
         /\ \A k, l \in DOMAIN rs : k < l => precedes(rs, ordered(rs)[k], ordered(rs)[l])
<1> DEFINE n == Len(rs)
           before(i) == {j \in 1..n : precedes(rs, j, i)}
           rank == [i \in 1..n |-> Cardinality(before(i)) + 1]
<1>1. n \in Nat /\ DOMAIN rs = 1..n
  BY RuleTypes
<1>2. IsFiniteSet(1..n) /\ Cardinality(1..n) = n
  BY <1>1, FS_Interval
<1>3. ASSUME NEW i \in 1..n
      PROVE  IsFiniteSet(before(i)) /\ Cardinality(before(i)) \in Nat /\ rank[i] \in 1..n
  <2>1. before(i) \subseteq 1..n /\ i \notin before(i)
    BY <1>1, StrictOrder
  <2>2. IsFiniteSet(before(i)) /\ Cardinality(before(i)) <= n
        /\ (Cardinality(before(i)) = n => before(i) = 1..n)
    <3> HIDE DEF before
    <3>1. QED
      BY <2>1, <1>2, FS_Subset
  <2>3. Cardinality(before(i)) \in Nat
    BY <2>2, FS_CardinalityType
  <2>4. Cardinality(before(i)) < n
    BY <2>1, <2>2, <2>3, <1>1
  <2>5. QED
    BY <2>2, <2>3, <2>4, <1>1
<1>4. ASSUME NEW i \in 1..n, NEW j \in 1..n, precedes(rs, i, j)
      PROVE  rank[i] < rank[j]
  <2>1. before(i) \subseteq before(j) /\ i \in before(j) /\ i \notin before(i)
    BY <1>1, <1>4, StrictOrder
  <2>2. Cardinality(before(i)) <= Cardinality(before(j))
        /\ (Cardinality(before(i)) = Cardinality(before(j)) => before(i) = before(j))
    <3>1. IsFiniteSet(before(j))
      BY <1>3
    <3> HIDE DEF before
    <3>2. QED
      BY <2>1, <3>1, FS_Subset
  <2>3. Cardinality(before(i)) # Cardinality(before(j))
    BY <2>1, <2>2
  <2>4. rank[i] = Cardinality(before(i)) + 1 /\ rank[j] = Cardinality(before(j)) + 1
    OBVIOUS
  <2>5. Cardinality(before(i)) \in Nat /\ Cardinality(before(j)) \in Nat
    BY <1>3
  <2> HIDE DEF before, rank
  <2>6. QED
    BY <2>2, <2>3, <2>4, <2>5
<1>5. rank \in [1..n -> 1..n]
  <2>1. ASSUME NEW i \in 1..n PROVE Cardinality(before(i)) + 1 \in 1..n
    BY <1>3
  <2> HIDE DEF before
  <2>2. QED
    BY <2>1
<1>6. ASSUME NEW i \in 1..n, NEW j \in 1..n, rank[i] = rank[j] PROVE i = j
  <2>1. rank[i] \in Int /\ rank[j] \in Int
    <3> HIDE DEF rank
    <3>1. QED
      BY <1>5
  <2>2. ~precedes(rs, i, j) /\ ~precedes(rs, j, i)
    <3> HIDE DEF rank
    <3>1. QED
      BY <1>4, <1>6, <2>1
  <2>3. QED
    BY <1>1, <2>2, StrictOrder
<1>7. \A k \in 1..n : \E i \in 1..n : rank[i] = k
  <2>1. rank \in Injection(1..n, 1..n)
    BY <1>5, <1>6 DEF Injection, IsInjective
  <2>2. rank \in Surjection(1..n, 1..n)
    <3> HIDE DEF rank
    <3>1. QED
      BY <1>2, <2>1, FS_Injection
  <2>3. QED
    BY <2>2 DEF Surjection
<1> DEFINE order == [k \in 1..n |-> CHOOSE i \in 1..n : rank[i] = k]
<1>8. \A k \in 1..n : order[k] \in 1..n /\ rank[order[k]] = k
  BY <1>7
<1>9. ASSUME NEW k \in 1..n, NEW l \in 1..n, k < l
      PROVE  precedes(rs, order[k], order[l])
  <2>1. rank[order[k]] < rank[order[l]] /\ order[k] \in 1..n /\ order[l] \in 1..n
    BY <1>8, <1>9
  <2> HIDE DEF order, rank
  <2>2. order[k] # order[l]
    BY <2>1, <1>5
  <2>3. ~precedes(rs, order[l], order[k])
    BY <2>1, <1>4, <1>5
  <2>4. QED
    BY <2>1, <2>2, <2>3, <1>1, StrictOrder
<1>10. order \in [DOMAIN rs -> DOMAIN rs]
       /\ \A k, l \in DOMAIN rs : k < l => precedes(rs, order[k], order[l])
  <2>1. order \in [1..n -> 1..n]
    BY <1>8
  <2> HIDE DEF order
  <2>2. QED
    BY <2>1, <1>1, <1>9
<1>11. QED
  <2> HIDE DEF order
  <2>1. QED
    BY <1>10 DEF ordered

\* Every rule is in the sorted list.
LEMMA SortedAll ==
  ASSUME NEW rs \in Seq(Rule)
  PROVE  \A i \in DOMAIN rs : \E k \in DOMAIN rs : ordered(rs)[k] = i
<1> DEFINE n == Len(rs)
           order == ordered(rs)
<1>1. n \in Nat /\ DOMAIN rs = 1..n
  BY RuleTypes
<1>2. order \in [1..n -> 1..n] /\ \A k, l \in 1..n : k < l => precedes(rs, order[k], order[l])
  BY <1>1, Sorted
<1> HIDE DEF order
<1>3. ASSUME NEW k \in 1..n, NEW l \in 1..n, order[k] = order[l] PROVE k = l
  <2>1. ~(k < l) /\ ~(l < k)
    BY <1>1, <1>2, <1>3, StrictOrder
  <2>2. QED
    BY <2>1
<1>4. order \in Injection(1..n, 1..n)
  BY <1>2, <1>3 DEF Injection, IsInjective
<1>5. order \in Surjection(1..n, 1..n)
  BY <1>1, <1>4, FS_Interval, FS_Injection
<1>6. QED
  BY <1>1, <1>5 DEF Surjection, order

(***************************************************************************)
(* The loop of route_lead.                                                 *)
(***************************************************************************)
LogEntry == [rule: Nat, matched: BOOLEAN, skipped: BOOLEAN]
LoopState == [matched: Nat, log: Seq(LogEntry), left: BOOLEAN]

LEMMA VisitTypes ==
  ASSUME NEW i \in Nat, NEW rule \in Rule, NEW did \in BOOLEAN, NEW s \in LoopState
  PROVE  visit(i, rule, did, s) \in LoopState
<1>1. s.matched \in Nat /\ s.log \in Seq(LogEntry) /\ s.left \in BOOLEAN
  BY DEF LoopState
<1>2. \A e \in LogEntry : Append(s.log, e) \in Seq(LogEntry)
  BY <1>1
<1>3. CASE s.left
  BY <1>3 DEF visit
<1>4. CASE ~s.left /\ skipped(rule)
  <2>1. [rule |-> i, matched |-> FALSE, skipped |-> TRUE] \in LogEntry
    BY DEF LogEntry
  <2>2. visit(i, rule, did, s)
          = [s EXCEPT !.log = Append(s.log, [rule |-> i, matched |-> FALSE, skipped |-> TRUE])]
    BY <1>4 DEF visit
  <2>3. QED
    BY <1>1, <1>2, <2>1, <2>2 DEF LoopState
<1>5. CASE ~s.left /\ ~skipped(rule)
  <2>1. [rule |-> i, matched |-> did, skipped |-> FALSE] \in LogEntry
    BY DEF LogEntry
  <2>2. stops(did, rule) \in BOOLEAN
    BY DEF stops, Rule
  <2>3. visit(i, rule, did, s)
          = [matched |-> IF did THEN i ELSE s.matched,
             log |-> Append(s.log, [rule |-> i, matched |-> did, skipped |-> FALSE]),
             left |-> stops(did, rule)]
    BY <1>5 DEF visit
  <2>4. QED
    BY <1>1, <1>2, <2>1, <2>2, <2>3 DEF LoopState
<1>6. QED
  BY <1>1, <1>3, <1>4, <1>5

\* The states of the loop, one after each rule, from which route answers.
LEMMA LoopHistory ==
  ASSUME NEW rs \in Seq(Rule), NEW did \in [DOMAIN rs -> BOOLEAN]
  PROVE  \E f \in [0..Len(rs) -> LoopState] :
           /\ f[0] = Start
           /\ \A k \in 1..Len(rs) :
                f[k] = visit(ordered(rs)[k], rs[ordered(rs)[k]], did[ordered(rs)[k]], f[k - 1])
           /\ route(did, rs) = [matched |-> f[Len(rs)].matched, log |-> f[Len(rs)].log,
                                integration_id |-> destination(f[Len(rs)].matched, rs)]
<1> DEFINE n == Len(rs)
           order == ordered(rs)
           step(k, s) == visit(order[k], rs[order[k]], did[order[k]], s)
           V == [p \in (1..n) \X LoopState |-> step(p[1], p[2])]
<1>1. n \in Nat /\ DOMAIN rs = 1..n /\ order \in [1..n -> 1..n] /\ \A i \in 1..n : rs[i] \in Rule
  BY RuleTypes, Sorted
<1>2. Start \in LoopState
  BY DEF Start, LoopState
<1>3. ASSUME NEW k \in 1..n, NEW s \in LoopState PROVE step(k, s) \in LoopState
  <2>1. order[k] \in Nat /\ rs[order[k]] \in Rule /\ did[order[k]] \in BOOLEAN
    <3> HIDE DEF order
    <3>1. QED
      BY <1>1
  <2>2. QED
    BY <2>1, VisitTypes
<1>4. V \in [(1..n) \X LoopState -> LoopState]
        /\ \A k \in 1..n, s \in LoopState : V[<<k, s>>] = step(k, s)
  <2> HIDE DEF step
  <2>1. QED
    BY <1>3
<1>5. PICK f \in [0..n -> LoopState] : f[0] = Start /\ \A k \in 1..n : f[k] = V[<<k, f[k - 1]>>]
  <2>1. n \in Nat /\ Start \in LoopState /\ V \in [(1..n) \X LoopState -> LoopState]
    BY <1>1, <1>2, <1>4
  <2> HIDE DEF V, n, step, order
  <2>2. \E f : IsHistory(f, n, LoopState, Start, V)
    BY <2>1, History
  <2>3. QED
    BY <2>2 DEF IsHistory
<1>6. \A k \in 1..n : k - 1 \in 0..n /\ f[k] = step(k, f[k - 1])
  <2> HIDE DEF V, step
  <2>1. ASSUME NEW k \in 1..n PROVE k - 1 \in 0..n
    BY <1>1
  <2>2. \A k \in 1..n : f[k - 1] \in LoopState
    BY <1>5, <2>1
  <2>3. QED
    BY <1>4, <1>5, <2>1, <2>2
<1> DEFINE loop == CHOOSE g : g = [k \in 0..n |-> IF k = 0 THEN Start ELSE step(k, g[k - 1])]
<1>7. f = [k \in 0..n |-> IF k = 0 THEN Start ELSE step(k, f[k - 1])]
  <2> HIDE DEF step, V
  <2>1. \A k \in 0..n : k = 0 \/ k \in 1..n
    BY <1>1
  <2>2. QED
    BY <1>5, <1>6, <2>1
<1>8. loop = [k \in 0..n |-> IF k = 0 THEN Start ELSE step(k, loop[k - 1])]
  <2> HIDE DEF step, V
  <2>1. QED
    BY <1>7
<1>9. loop[0] = Start /\ \A k \in 1..n : loop[k] = step(k, loop[k - 1])
  <2> HIDE DEF loop, step, V
  <2>1. QED
    BY <1>1, <1>8
<1>10. \A k \in 0..n : loop[k] = f[k]
  <2> DEFINE G == {k \in 0..n : loop[k] = f[k]}
  <2> HIDE DEF loop, step, V
  <2>1. 0 \in G
    BY <1>1, <1>5, <1>9
  <2>2. ASSUME NEW k \in 0..n, k < n, k \in G PROVE k + 1 \in G
    <3>1. k + 1 \in 1..n /\ (k + 1) - 1 = k
      BY <1>1, <2>2
    <3>2. loop[k + 1] = step(k + 1, loop[k]) /\ f[k + 1] = step(k + 1, f[k])
      BY <1>6, <1>9, <3>1
    <3>3. QED
      BY <2>2, <3>1, <3>2
  <2>3. \A k \in 0..n : k \in G
    <3> HIDE DEF G
    <3>1. QED
      BY <1>1, <2>1, <2>2, Interval
  <2>4. QED
    BY <2>3
<1>11. route(did, rs) = [matched |-> loop[n].matched, log |-> loop[n].log,
                         integration_id |-> destination(loop[n].matched, rs)]
  BY DEF route
<1>12. loop[n] = f[n]
  BY <1>1, <1>10
<1>13. QED
  <2> HIDE DEF loop, V
  <2>1. QED
    BY <1>5, <1>6, <1>11, <1>12

(***************************************************************************)
(* What the loop has found out.  Places are places in the sorted list.     *)
(***************************************************************************)
Hit(rs, did, m) == rs[ordered(rs)[m]].enabled /\ did[ordered(rs)[m]]
Cut(rs, did, m) == Hit(rs, did, m) /\ rs[ordered(rs)[m]].stop_processing
Entry(rs, did, m) ==
  [rule |-> ordered(rs)[m], matched |-> Hit(rs, did, m), skipped |-> ~rs[ordered(rs)[m]].enabled]

\* The log tells of the first places, up to the match that stopped the loop or
\* else up to the last one visited; matched is the last hit among them.
LoopInv(rs, did, k, s) ==
  LET seen == Len(s.log) IN
  /\ s \in LoopState
  /\ seen \in 0..k
  /\ \A m \in 1..seen : s.log[m] = Entry(rs, did, m)
  /\ \A m \in 1..seen : Cut(rs, did, m) => s.left /\ m = seen
  /\ s.left => seen >= 1 /\ Cut(rs, did, seen)
  /\ ~s.left => seen = k
  /\ s.matched = 0 => \A m \in 1..seen : ~Hit(rs, did, m)
  /\ s.matched # 0 => \E m \in 1..seen : /\ s.matched = ordered(rs)[m] /\ Hit(rs, did, m)
                                         /\ \A l \in 1..seen : Hit(rs, did, l) => l <= m

LEMMA AppendedLog ==
  ASSUME NEW q \in Seq(LogEntry), NEW e \in LogEntry
  PROVE  /\ Len(Append(q, e)) = Len(q) + 1 /\ Len(q) \in Nat
         /\ Append(q, e)[Len(q) + 1] = e
         /\ \A m \in 1..Len(q) : Append(q, e)[m] = q[m]
OBVIOUS

\* One more rule.
LEMMA LoopStep ==
  ASSUME NEW rs \in Seq(Rule), NEW did \in [DOMAIN rs -> BOOLEAN],
         NEW k \in 1..Len(rs), NEW s, LoopInv(rs, did, k - 1, s)
  PROVE  LoopInv(rs, did, k, visit(ordered(rs)[k], rs[ordered(rs)[k]], did[ordered(rs)[k]], s))
<1> DEFINE o == ordered(rs)
           rule == rs[o[k]]
           t == visit(o[k], rule, did[o[k]], s)
           seen == Len(s.log)
<1>1. /\ Len(rs) \in Nat /\ o \in [1..Len(rs) -> 1..Len(rs)] /\ o[k] \in 1..Len(rs)
      /\ rule \in Rule /\ did[o[k]] \in BOOLEAN /\ o[k] \in Nat /\ o[k] # 0 /\ k \in Nat
  <2>1. o \in [1..Len(rs) -> 1..Len(rs)] /\ Len(rs) \in Nat /\ DOMAIN rs = 1..Len(rs)
    BY RuleTypes, Sorted
  <2> HIDE DEF o
  <2>2. QED
    BY <2>1, RuleTypes
<1>2. s \in LoopState /\ s.matched \in Nat /\ s.log \in Seq(LogEntry) /\ s.left \in BOOLEAN
  BY DEF LoopInv, LoopState
<1>3. t \in LoopState
  BY <1>1, <1>2, VisitTypes
<1>4. CASE s.left
  <2>1. t = s
    BY <1>4 DEF visit
  <2> HIDE DEF t
  <2>2. LoopInv(rs, did, k, s)
    BY <1>1, <1>4 DEF LoopInv
  <2>3. QED
    BY <2>1, <2>2 DEF t
<1>5. CASE ~s.left
  <2> DEFINE e == Entry(rs, did, k)
  <2>1. e \in LogEntry
    <3>1. rule.enabled \in BOOLEAN
      BY <1>1 DEF Rule
    <3>2. Hit(rs, did, k) \in BOOLEAN
      BY DEF Hit
    <3>3. QED
      BY <1>1, <3>1, <3>2 DEF Entry, LogEntry
  <2>2. /\ t.log = Append(s.log, e)
        /\ t.left = Cut(rs, did, k)
        /\ t.matched = IF Hit(rs, did, k) THEN o[k] ELSE s.matched
    <3>1. rule.enabled \in BOOLEAN /\ rule.stop_processing \in BOOLEAN
      BY <1>1 DEF Rule
    <3>2. CASE rule.enabled
      <4>1. Hit(rs, did, k) = did[o[k]]
        BY <1>1, <3>2 DEF Hit
      <4>2. t = [matched |-> IF did[o[k]] THEN o[k] ELSE s.matched,
                 log |-> Append(s.log, [rule |-> o[k], matched |-> did[o[k]], skipped |-> FALSE]),
                 left |-> stops(did[o[k]], rule)]
        BY <1>5, <3>2 DEF visit, skipped
      <4>3. e = [rule |-> o[k], matched |-> did[o[k]], skipped |-> FALSE]
        BY <4>1, <3>2 DEF Entry
      <4>4. stops(did[o[k]], rule) = Cut(rs, did, k)
        BY <4>1 DEF Cut, stops
      <4> HIDE DEF t, e
      <4>5. QED
        BY <4>1, <4>2, <4>3, <4>4
    <3>3. CASE ~rule.enabled
      <4>1. Hit(rs, did, k) = FALSE /\ Cut(rs, did, k) = FALSE
        BY <3>3 DEF Hit, Cut
      <4>2. t = [s EXCEPT !.log = Append(s.log, [rule |-> o[k], matched |-> FALSE, skipped |-> TRUE])]
        BY <1>5, <3>3 DEF visit, skipped
      <4>3. e = [rule |-> o[k], matched |-> FALSE, skipped |-> TRUE]
        BY <4>1, <3>3 DEF Entry
      <4>4. s.left = FALSE
        BY <1>2, <1>5
      <4>5. s = [matched |-> s.matched, log |-> s.log, left |-> s.left]
        BY <1>2 DEF LoopState
      <4> HIDE DEF t, e
      <4>6. QED
        BY <4>1, <4>2, <4>3, <4>4, <4>5
    <3>4. QED
      BY <3>1, <3>2, <3>3
  <2>3. /\ seen = k - 1 /\ \A m \in 1..seen : s.log[m] = Entry(rs, did, m)
        /\ \A m \in 1..seen : ~Cut(rs, did, m)
        /\ s.matched = 0 => \A m \in 1..seen : ~Hit(rs, did, m)
        /\ s.matched # 0 => \E m \in 1..seen : /\ s.matched = o[m] /\ Hit(rs, did, m)
                                               /\ \A l \in 1..seen : Hit(rs, did, l) => l <= m
    BY <1>5 DEF LoopInv
  <2>4. /\ Len(t.log) = k /\ t.log[k] = e
        /\ \A m \in 1..(k - 1) : t.log[m] = Entry(rs, did, m)
    <3> HIDE DEF t, e
    <3>1. QED
      BY <1>1, <1>2, <2>1, <2>2, <2>3, AppendedLog
  <2>5. \A m \in 1..k : m = k \/ m \in 1..(k - 1)
    BY <1>1
  <2> HIDE DEF t, o
  <2>6. \A m \in 1..k : t.log[m] = Entry(rs, did, m)
    BY <2>4, <2>5
  <2>7. \A m \in 1..k : Cut(rs, did, m) => t.left /\ m = k
    BY <2>2, <2>3, <2>5
  <2>8. t.matched = 0 => \A m \in 1..k : ~Hit(rs, did, m)
    BY <1>1, <2>2, <2>3, <2>5
  <2>9. t.matched # 0 => \E m \in 1..k : /\ t.matched = o[m] /\ Hit(rs, did, m)
                                         /\ \A l \in 1..k : Hit(rs, did, l) => l <= m
    <3>1. CASE Hit(rs, did, k)
      BY <1>1, <2>2, <3>1
    <3>2. CASE ~Hit(rs, did, k)
      BY <1>1, <2>2, <2>3, <2>5, <3>2
    <3>3. QED
      BY <3>1, <3>2
  <2>10. LoopInv(rs, did, k, t)
    BY <1>1, <1>3, <2>2, <2>4, <2>6, <2>7, <2>8, <2>9 DEF LoopInv, o
  <2>11. QED
    BY <2>10 DEF t, o
<1>6. QED
  BY <1>2, <1>4, <1>5

\* What route answers.
LEMMA Routed ==
  ASSUME NEW rs \in Seq(Rule), NEW did \in [DOMAIN rs -> BOOLEAN]
  PROVE  \E s : /\ LoopInv(rs, did, Len(rs), s)
                /\ route(did, rs) = [matched |-> s.matched, log |-> s.log,
                                     integration_id |-> destination(s.matched, rs)]
<1> DEFINE n == Len(rs)
<1>1. n \in Nat
  BY RuleTypes
<1>2. PICK f \in [0..n -> LoopState] :
        /\ f[0] = Start
        /\ \A k \in 1..n :
             f[k] = visit(ordered(rs)[k], rs[ordered(rs)[k]], did[ordered(rs)[k]], f[k - 1])
        /\ route(did, rs) = [matched |-> f[n].matched, log |-> f[n].log,
                             integration_id |-> destination(f[n].matched, rs)]
  BY LoopHistory
<1> DEFINE G == {k \in 0..n : LoopInv(rs, did, k, f[k])}
<1>3. 0 \in G
  <2>1. Start \in LoopState /\ Len(Start.log) = 0 /\ Start.matched = 0 /\ Start.left = FALSE
    BY DEF Start, LoopState
  <2>2. LoopInv(rs, did, 0, Start)
    BY <2>1 DEF LoopInv
  <2>3. QED
    BY <1>1, <1>2, <2>2
<1>4. ASSUME NEW k \in 0..n, k < n, k \in G PROVE k + 1 \in G
  <2>1. k + 1 \in 1..n /\ (k + 1) - 1 = k /\ k + 1 \in 0..n
    BY <1>1, <1>4
  <2>2. LoopInv(rs, did, (k + 1) - 1, f[k])
    BY <1>4, <2>1
  <2>3. LoopInv(rs, did, k + 1, f[k + 1])
    BY <1>2, <2>1, <2>2, LoopStep
  <2>4. QED
    BY <2>1, <2>3
<1>5. n \in G
  <2>1. n \in 0..n
    BY <1>1
  <2> HIDE DEF G, n
  <2>2. \A k \in 0..n : k \in G
    BY <1>1, <1>3, <1>4, Interval
  <2>3. QED
    BY <2>1, <2>2
<1>6. QED
  BY <1>2, <1>5

(***************************************************************************)
(* The workspace: the rules are rules, and a decision is about the rules   *)
(* as they are.                                                            *)
(***************************************************************************)
RoutingInv ==
  /\ rules \in Seq(Rule)
  /\ routed => answer.lead \in Leads /\ answer.decision = route_lead(answer.lead, rules)

LEMMA RoutingStarts == Init => RoutingInv
BY DEF Init, RoutingInv, routed

\* Whatever a request other than simulate does, the answer is no decision.
LEMMA NoDecision ==
  ASSUME NEW status \in {"ok", "invalid_integration"}, Answer(status)
  PROVE  ~routed'
BY DEF Answer, routed

LEMMA RoutingKept == RoutingInv /\ [Next]_vars => RoutingInv'
<1> SUFFICES ASSUME RoutingInv, [Next]_vars PROVE RoutingInv'
  OBVIOUS
<1>1. rules \in Seq(Rule)
  BY DEF RoutingInv
<1>2. CASE create_rule
  <2>1. PICK body \in Rule :
          \/ rules' = Append(rules, body) /\ Answer("ok")
          \/ Answer("invalid_integration") /\ UNCHANGED rules
    BY <1>2 DEF create_rule
  <2>2. ~routed'
    BY <2>1, NoDecision
  <2>3. rules' \in Seq(Rule)
    BY <1>1, <2>1
  <2>4. QED
    BY <2>2, <2>3 DEF RoutingInv
<1>3. CASE patch_rule
  <2>1. ~routed'
    BY <1>3, NoDecision DEF patch_rule
  <2>2. PICK i \in DOMAIN rules :
          \/ \E p \in 0..MaxPriority : rules' = [rules EXCEPT ![i].priority = p]
          \/ \E e \in BOOLEAN : rules' = [rules EXCEPT ![i].enabled = e]
          \/ \E c \in Conditions : rules' = [rules EXCEPT ![i].condition = c]
          \/ \E d \in Integrations \cup {Unknown} : rules' = [rules EXCEPT ![i].integration_id = d]
          \/ \E s \in BOOLEAN : rules' = [rules EXCEPT ![i].stop_processing = s]
    BY <1>3 DEF patch_rule
  <2>3. \E r \in Rule : rules' = [rules EXCEPT ![i] = r]
    <3>1. rules[i] \in Rule
      BY <1>1
    <3>2. QED
      BY <2>2, <3>1 DEF Rule
  <2>4. rules' \in Seq(Rule)
    BY <1>1, <2>3
  <2>5. QED
    BY <2>1, <2>4 DEF RoutingInv
<1>4. CASE delete_rule
  <2>1. ~routed'
    BY <1>4, NoDecision DEF delete_rule
  <2>2. rules' \in Seq(Rule)
    BY <1>1, <1>4 DEF delete_rule, RemoveAt
  <2>3. QED
    BY <2>1, <2>2 DEF RoutingInv
<1>5. CASE simulate
  BY <1>1, <1>5 DEF simulate, RoutingInv, routed
<1>6. CASE UNCHANGED vars
  BY <1>6 DEF vars, RoutingInv, routed
<1>7. QED
  BY <1>2, <1>3, <1>4, <1>5, <1>6 DEF Next

LEMMA RoutingInvariance == Spec => []RoutingInv
<1>1. QED
  BY RoutingStarts, RoutingKept, PTL DEF Spec

(***************************************************************************)
(* Decisions.                                                              *)
(***************************************************************************)
LEMMA EvaluateBoolean ==
  ASSUME NEW actual, NEW operator, NEW expected
  PROVE  /\ evaluate_operator(actual, operator, expected) \in BOOLEAN
         /\ evaluateOperator(actual, operator, expected) \in BOOLEAN
BY DEF evaluate_operator, evaluateOperator

\* The decision that a state shows, and where its loop ended.
LEMMA DecisionRouted ==
  ASSUME RoutingInv, routed
  PROVE  \E did \in [DOMAIN rules -> BOOLEAN], s \in LoopState :
           /\ \A i \in DOMAIN rules : applies(i) <=> rules[i].enabled /\ did[i]
           /\ LoopInv(rules, did, Len(rules), s)
           /\ answer.decision = [matched |-> s.matched, log |-> s.log,
                                 integration_id |-> destination(s.matched, rules)]
<1> DEFINE holds(c) ==
             evaluate_operator(answer.lead[c.field], c.operator, c.comparison_value)
           did == [i \in DOMAIN rules |-> holds(rules[i].condition)]
<1>1. did \in [DOMAIN rules -> BOOLEAN]
  BY EvaluateBoolean
<1>2. \A i \in DOMAIN rules : applies(i) <=> rules[i].enabled /\ did[i]
  BY DEF applies
<1>3. rules \in Seq(Rule) /\ answer.decision = route(did, rules)
  BY DEF RoutingInv, route_lead
<1> HIDE DEF did
<1>4. PICK s : /\ LoopInv(rules, did, Len(rules), s)
               /\ route(did, rules) = [matched |-> s.matched, log |-> s.log,
                                       integration_id |-> destination(s.matched, rules)]
  BY <1>1, <1>3, Routed
<1>5. s \in LoopState
  BY <1>4 DEF LoopInv
<1>6. QED
  BY <1>1, <1>2, <1>3, <1>4, <1>5

\* The rule that decides is the last match that no stopping match comes before,
\* a lead goes to the fallback exactly if no enabled rule matches it, and the log
\* lists exactly the rules that were considered, in their order.
LEMMA DecidesByPriority == RoutingInv => DecisionByPriority
<1> SUFFICES ASSUME RoutingInv, routed PROVE DecisionByPriority
  BY DEF DecisionByPriority
<1>1. PICK did \in [DOMAIN rules -> BOOLEAN], s \in LoopState :
           /\ \A i \in DOMAIN rules : applies(i) <=> rules[i].enabled /\ did[i]
           /\ LoopInv(rules, did, Len(rules), s)
           /\ answer.decision = [matched |-> s.matched, log |-> s.log,
                                 integration_id |-> destination(s.matched, rules)]
  BY DecisionRouted
<1> DEFINE n == Len(rules)
           o == ordered(rules)
           seen == Len(s.log)
           log == answer.decision.log
           m == answer.decision.matched
           stop(j) == applies(j) /\ rules[j].stop_processing
<1>2. /\ rules \in Seq(Rule) /\ n \in Nat /\ DOMAIN rules = 1..n
      /\ o \in [1..n -> 1..n]
      /\ \A k, l \in 1..n : k < l => comesFirst(o[k], o[l])
      /\ \A i \in 1..n : \E k \in 1..n : o[k] = i
  <2>1. rules \in Seq(Rule)
    BY DEF RoutingInv
  <2>2. QED
    BY <2>1, RuleTypes, Sorted, SortedAll DEF precedes, comesFirst
<1>3. /\ \A k \in 1..n : Hit(rules, did, k) <=> applies(o[k])
      /\ \A k \in 1..n : Cut(rules, did, k) <=> stop(o[k])
  <2> HIDE DEF o
  <2>1. \A k \in 1..n : o[k] \in 1..n
    BY <1>2
  <2>2. QED
    BY <1>1, <1>2, <2>1 DEF Hit, Cut, o
<1>4. /\ s \in LoopState /\ seen \in 0..n /\ log = s.log /\ m = s.matched
      /\ DOMAIN log = 1..seen
  BY <1>1 DEF LoopInv, LoopState
<1>5. /\ \A k \in 1..seen : log[k] = Entry(rules, did, k)
      /\ \A k \in 1..seen : stop(o[k]) => s.left /\ k = seen
      /\ s.left => seen >= 1 /\ stop(o[seen])
      /\ ~s.left => seen = n
      /\ m = 0 => \A k \in 1..seen : ~applies(o[k])
      /\ m # 0 => \E k \in 1..seen : /\ m = o[k] /\ applies(o[k])
                                     /\ \A l \in 1..seen : applies(o[l]) => l <= k
  <2>1. \A k \in 1..seen : k \in 1..n
    BY <1>2, <1>4
  <2>2. s.left \in BOOLEAN
    BY <1>4 DEF LoopState
  <2> HIDE DEF o, stop
  <2>3. QED
    BY <1>1, <1>3, <1>4, <2>1, <2>2 DEF LoopInv, o
<1> HIDE DEF o, n
<1>6. \A i, j \in 1..n : comesFirst(i, j) => ~comesFirst(j, i) /\ i # j
  <2> TAKE i, j \in 1..n
  <2>1. rules[i].priority \in Int /\ rules[j].priority \in Int /\ i \in Int /\ j \in Int
    <3>1. \A h \in 1..n : rules[h] \in Rule
      BY <1>2
    <3>2. \A h \in 1..n : rules[h].priority \in Int
      BY <3>1 DEF Rule
    <3>3. QED
      BY <1>2, <3>2
  <2>2. QED
    BY <2>1 DEF comesFirst
<1>7. \A k, l \in 1..n : comesFirst(o[k], o[l]) <=> k < l
  <2>1. ASSUME NEW k \in 1..n, NEW l \in 1..n, comesFirst(o[k], o[l]) PROVE k < l
    <3>1. o[k] \in 1..n /\ o[l] \in 1..n
      BY <1>2
    <3>2. o[k] # o[l] /\ ~comesFirst(o[l], o[k])
      BY <1>6, <2>1, <3>1
    <3>3. k # l /\ ~(l < k)
      BY <1>2, <3>2
    <3>4. QED
      BY <1>2, <3>3
  <2>2. QED
    BY <1>2, <2>1
<1>8. \A k \in 1..n : o[k] \in Considered <=> k \in 1..seen
  <2>1. ASSUME NEW k \in 1..n
        PROVE  o[k] \in Considered <=> ~\E l \in 1..n : l < k /\ stop(o[l])
    <3>1. o[k] \in DOMAIN rules
      BY <1>2
    <3>2. o[k] \in Considered <=> ~\E j \in 1..n : comesFirst(j, o[k]) /\ stop(j)
      BY <1>2, <3>1 DEF Considered
    <3> HIDE DEF stop
    <3>3. QED
      BY <1>2, <1>7, <3>2
  <2>2. ASSUME NEW k \in 1..n
        PROVE  (\E l \in 1..n : l < k /\ stop(o[l])) <=> k > seen
    <3> HIDE DEF stop, seen
    <3>1. seen \in Int /\ k \in Int /\ \A l \in 1..n : l \in Int /\ (l <= seen => l \in 1..seen)
      BY <1>2, <1>4
    <3>2. CASE s.left
      <4>1. seen \in 1..seen /\ seen \in 1..n /\ stop(o[seen])
        BY <1>2, <1>4, <1>5, <3>2
      <4>2. \A l \in 1..n : l < k /\ stop(o[l]) => k > seen
        <5>1. \A l \in 1..seen : stop(o[l]) => l = seen
          BY <1>5
        <5>2. QED
          BY <3>1, <5>1
      <4>3. QED
        BY <3>1, <4>1, <4>2
    <3>3. CASE ~s.left
      <4>1. ~(k > seen) /\ \A l \in 1..n : l \in 1..seen
        BY <1>2, <1>5, <3>1, <3>3
      <4>2. \A l \in 1..n : ~stop(o[l])
        BY <1>5, <3>3, <4>1
      <4>3. QED
        BY <4>1, <4>2
    <3>4. QED
      BY <3>2, <3>3
  <2>3. QED
    <3> HIDE DEF stop, seen
    <3> TAKE k \in 1..n
    <3>1. k \in 1..seen <=> ~(k > seen)
      BY <1>2, <1>4
    <3>2. o[k] \in Considered <=> ~(k > seen)
      BY <2>1, <2>2
    <3>3. QED
      BY <3>1, <3>2
<1>9. Considered \subseteq 1..n
  BY <1>2 DEF Considered
<1>10. m = 0 <=> ~\E i \in DOMAIN rules : applies(i)
  <2>1. ASSUME m = 0, NEW i \in 1..n PROVE ~applies(i)
    <3>1. PICK k \in 1..n : o[k] = i
      BY <1>2
    <3>2. ~s.left
      <4> SUFFICES ASSUME s.left PROVE FALSE
        OBVIOUS
      <4>1. seen >= 1 /\ applies(o[seen])
        BY <1>5
      <4>2. seen \in 1..seen
        BY <1>2, <1>4, <4>1
      <4>3. ~applies(o[seen])
        BY <1>5, <2>1, <4>2
      <4>4. QED
        BY <4>1, <4>3
    <3>3. k \in 1..seen
      BY <1>5, <3>1, <3>2
    <3>4. QED
      BY <1>5, <2>1, <3>1, <3>3
  <2>2. ASSUME m # 0 PROVE \E i \in 1..n : applies(i)
    <3>1. PICK k \in 1..seen : m = o[k] /\ applies(o[k])
      BY <1>5, <2>2
    <3>2. k \in 1..n
      BY <1>2, <1>4
    <3>3. QED
      BY <1>2, <3>1, <3>2
  <2>3. QED
    BY <1>2, <2>1, <2>2
<1>11. m # 0 => /\ m \in Considered /\ applies(m)
                /\ \A i \in Considered : applies(i) => i = m \/ comesFirst(i, m)
  <2> SUFFICES ASSUME m # 0 PROVE /\ m \in Considered /\ applies(m)
                /\ \A i \in Considered : applies(i) => i = m \/ comesFirst(i, m)
    OBVIOUS
  <2>1. PICK k \in 1..seen : /\ m = o[k] /\ applies(o[k])
                             /\ \A l \in 1..seen : applies(o[l]) => l <= k
    BY <1>5
  <2>2. k \in 1..n
    BY <1>2, <1>4
  <2>3. ASSUME NEW i \in Considered, applies(i) PROVE i = m \/ comesFirst(i, m)
    <3>1. PICK l \in 1..n : o[l] = i
      BY <1>2, <1>9
    <3>2. l \in 1..seen /\ l <= k
      BY <1>8, <2>1, <2>3, <3>1
    <3>3. QED
      BY <1>2, <2>1, <2>2, <3>1, <3>2
  <2>4. QED
    BY <1>8, <2>1, <2>2, <2>3
<1>12. answer.decision.integration_id = IF m = 0 THEN Fallback ELSE rules[m].integration_id
  BY <1>1 DEF destination
<1>13. \A k \in 1..seen : k \in 1..n /\ log[k].rule = o[k] /\ o[k] \in Considered
                          /\ log[k].skipped = ~rules[o[k]].enabled
                          /\ (log[k].matched <=> applies(o[k]))
  <2>1. \A k \in 1..seen : k \in 1..n
    BY <1>2, <1>4
  <2> TAKE k \in 1..seen
  <2>2. k \in 1..n
    BY <2>1
  <2>3. log[k] = Entry(rules, did, k)
    BY <1>5
  <2>4. rules[o[k]].enabled \in BOOLEAN /\ o[k] \in Considered
    <3>1. o[k] \in 1..n
      BY <1>2, <2>2
    <3>2. rules[o[k]] \in Rule
      BY <1>2, <3>1
    <3>3. rules[o[k]].enabled \in BOOLEAN
      BY <3>2 DEF Rule
    <3>4. QED
      BY <1>8, <2>2, <3>3
  <2> HIDE DEF log, seen
  <2>5. /\ log[k].rule = o[k] /\ log[k].skipped = ~rules[o[k]].enabled
        /\ log[k].matched = Hit(rules, did, k)
    BY <2>3 DEF Entry, o
  <2>6. QED
    BY <1>3, <2>2, <2>4, <2>5
<1>14. {log[k].rule : k \in DOMAIN log} = Considered
  <2>1. ASSUME NEW i \in Considered PROVE \E k \in DOMAIN log : log[k].rule = i
    <3>1. PICK k \in 1..n : o[k] = i
      BY <1>2, <1>9
    <3>2. k \in 1..seen
      BY <1>8, <3>1
    <3>3. QED
      BY <1>4, <1>13, <3>1, <3>2
  <2>2. QED
    BY <1>4, <1>13, <2>1
<1>15. \A k, l \in DOMAIN log : k < l => comesFirst(log[k].rule, log[l].rule)
  <2> HIDE DEF log, seen
  <2> TAKE k, l \in DOMAIN log
  <2>1. /\ k \in 1..n /\ log[k].rule = o[k]
        /\ l \in 1..n /\ log[l].rule = o[l]
    BY <1>4, <1>13
  <2>2. k < l => comesFirst(o[k], o[l])
    BY <1>2, <2>1
  <2>3. QED
    BY <2>1, <2>2
<1>16. \A k \in DOMAIN log :
         /\ log[k].skipped <=> ~rules[log[k].rule].enabled
         /\ log[k].matched <=> log[k].rule \in {i \in Considered : applies(i)}
  BY <1>4, <1>13
<1> HIDE DEF m, log
<1>17. QED
  BY <1>10, <1>11, <1>12, <1>14, <1>15, <1>16 DEF DecisionByPriority, m, log

(***************************************************************************)
(* The two engines.                                                        *)
(***************************************************************************)
\* Nothing spells the empty text, and the text of a lead is read as a number in
\* the same way by float() and by Number().
LEMMA SpelledTexts ==
  /\ Spelled("") = {}
  /\ \A t \in Texts : t # "" /\ Number(t) = Spelled(t)
  /\ \A value : value \notin {"", None} =>
       orEmpty(value) = value /\ Number(value) = Spelled(value)
<1>1. Spelled("") = {}
  BY AmountAssumption DEF Spelled
<1>2. \A t \in Texts : t # "" /\ Number(t) = Spelled(t)
  BY TextAssumption DEF Number
<1>3. \A value : value \notin {"", None} =>
        orEmpty(value) = value /\ Number(value) = Spelled(value)
  BY DEF orEmpty, Number
<1>4. QED
  BY <1>1, <1>2, <1>3

\* The operators that compare numbers.
LEMMA ComparisonsAgree ==
  ASSUME NEW lead \in Leads, NEW field \in Fields,
         NEW operator \in {"greater_than", "less_than"}, NEW value, value \notin {"", None}
  PROVE  evaluate_operator(lead[field], operator, value)
           = evaluateOperator(lead[field], operator, value)
<1> DEFINE actual == lead[field]
           left == IF actual.kind = "number" THEN {actual.amount} ELSE Number(actual.text)
<1>1. Spelled(orEmpty(value)) = Number(value)
  BY SpelledTexts
<1>2. \/ actual = Null
      \/ \E t \in Texts : actual = Text(t)
      \/ \E n \in Amounts : actual = Amount(n)
  BY DEF Leads, Fields
<1> HIDE DEF actual
<1>3. CASE actual = Null
  <2>1. float(actual) = {}
    BY <1>3, SpelledTexts DEF float, Null
  <2>2. QED
    BY <1>3, <2>1 DEF evaluate_operator, evaluateOperator, actual
<1>4. CASE actual # Null
  <2>1. float(actual) = left
    <3>1. ASSUME NEW t \in Texts, actual = Text(t) PROVE float(actual) = left
      <4>1. actual.kind = "text" /\ actual.text = t
        BY <3>1 DEF Text
      <4>2. Number(actual.text) = Spelled(actual.text)
        BY <4>1, SpelledTexts
      <4>3. QED
        BY <4>1, <4>2 DEF float
    <3>2. ASSUME NEW a \in Amounts, actual = Amount(a) PROVE float(actual) = left
      BY <3>2 DEF float, Amount
    <3>3. QED
      BY <1>2, <1>4, <3>1, <3>2
  <2> HIDE DEF left
  <2>2. /\ evaluate_operator(actual, operator, value)
            = \E l \in float(actual), r \in Number(value) :
                IF operator = "greater_than" THEN l > r ELSE l < r
        /\ evaluateOperator(actual, operator, value)
            = \E l \in left, r \in Number(value) :
                IF operator = "greater_than" THEN l > r ELSE l < r
    <3>1. CASE operator = "greater_than"
      BY <1>1, <1>4, <3>1 DEF evaluate_operator, evaluateOperator, left
    <3>2. CASE operator = "less_than"
      BY <1>1, <1>4, <3>2 DEF evaluate_operator, evaluateOperator, left
    <3>3. QED
      BY <3>1, <3>2
  <2>3. QED
    BY <2>1, <2>2 DEF actual
<1>5. QED
  BY <1>3, <1>4

\* str() and String() differ on numbers only.
LEMMA OthersAgree ==
  ASSUME NEW lead \in Leads, NEW field \in Fields, NEW operator, NEW value,
         operator \notin {"greater_than", "less_than"}, comparable(field, operator, value)
  PROVE  evaluate_operator(lead[field], operator, value)
           = evaluateOperator(lead[field], operator, value)
<1>1. CASE operator \in {"is_empty", "is_not_empty"}
  BY <1>1 DEF evaluate_operator, evaluateOperator
<1>2. CASE operator \in {"equals", "does_not_equal", "contains"}
  <2>1. field = "service"
    BY <1>2 DEF comparable, Fields
  <2>2. lead[field].kind # "number"
    <3>1. lead.service \in {Text(t) : t \in Texts} \cup {Null}
      BY DEF Leads
    <3>2. Null.kind # "number" /\ \A t \in Texts : Text(t).kind # "number"
      BY DEF Text, Null
    <3>3. QED
      BY <2>1, <3>1, <3>2
  <2>3. str(lead[field]) = String(lead[field])
    BY <2>2 DEF str, String
  <2>4. QED
    BY <1>2, <2>3 DEF evaluate_operator, evaluateOperator
<1>3. CASE operator \notin {"is_empty", "is_not_empty", "equals", "does_not_equal", "contains"}
  BY <1>3 DEF evaluate_operator, evaluateOperator
<1>4. QED
  BY <1>1, <1>2, <1>3

\* Of a lead the two engines say the same about every comparable condition.
LEMMA ConditionsAgree ==
  ASSUME NEW lead \in Leads, NEW field \in Fields, NEW operator, NEW value,
         comparable(field, operator, value)
  PROVE  evaluate_operator(lead[field], operator, value)
           = evaluateOperator(lead[field], operator, value)
<1>1. CASE operator \in {"greater_than", "less_than"}
  <2>1. value \notin {"", None}
    BY <1>1 DEF comparable
  <2>2. QED
    BY <1>1, <2>1, ComparisonsAgree
<1>2. CASE operator \notin {"greater_than", "less_than"}
  BY <1>2, OthersAgree
<1>3. QED
  BY <1>1, <1>2

\* And so they decide alike whenever every rule's condition is comparable.
LEMMA EnginesDecideAlike ==
  ASSUME NEW lead \in Leads, NEW rs \in Seq(Rule),
         \A i \in DOMAIN rs : LET c == rs[i].condition
                              IN  comparable(c.field, c.operator, c.comparison_value)
  PROVE  routeLead(lead, rs) = route_lead(lead, rs)
<1> DEFINE py(c) == evaluate_operator(lead[c.field], c.operator, c.comparison_value)
           ts(c) == evaluateOperator(lead[c.field], c.operator, c.comparison_value)
<1>1. ASSUME NEW i \in DOMAIN rs PROVE py(rs[i].condition) = ts(rs[i].condition)
  <2> DEFINE c == rs[i].condition
  <2>1. rs[i] \in Rule
    BY RuleTypes
  <2>2. c \in Conditions
    BY <2>1 DEF Rule
  <2>3. c.field \in Fields
    BY <2>2, ConditionAssumption
  <2>4. comparable(c.field, c.operator, c.comparison_value)
    OBVIOUS
  <2> HIDE DEF c
  <2>5. evaluate_operator(lead[c.field], c.operator, c.comparison_value)
          = evaluateOperator(lead[c.field], c.operator, c.comparison_value)
    BY <2>3, <2>4, ConditionsAgree
  <2>6. QED
    BY <2>5 DEF c
<1>2. [i \in DOMAIN rs |-> py(rs[i].condition)] = [i \in DOMAIN rs |-> ts(rs[i].condition)]
  BY <1>1
<1>3. QED
  BY <1>2 DEF routeLead, route_lead

LEMMA AgreeOnOperators == RoutingInv => OperatorsAgree
<1> SUFFICES ASSUME RoutingInv, routed PROVE OperatorsAgree
  BY DEF OperatorsAgree
<1>1. rules \in Seq(Rule) /\ answer.lead \in Leads
  BY DEF RoutingInv
<1>2. \A field \in Fields, operator \in Operators, value \in Values :
        comparable(field, operator, value) =>
          evaluate_operator(answer.lead[field], operator, value)
            = evaluateOperator(answer.lead[field], operator, value)
  BY <1>1, ConditionsAgree
<1>3. (\A i \in DOMAIN rules : LET c == rules[i].condition
                               IN  comparable(c.field, c.operator, c.comparison_value)) =>
        routeLead(answer.lead, rules) = route_lead(answer.lead, rules)
  BY <1>1, EnginesDecideAlike
<1>4. QED
  BY <1>2, <1>3 DEF OperatorsAgree
-----------------------------------------------------------------------------
\* The simulator's decision, which is also what ingest routes a lead by
\* (services/routing.py route_lead), is the one that the admin page promises,
\* however many rules were created, patched and deleted in any order: the last
\* match before a stopping one in order of priority and age, the fallback
\* exactly if no enabled rule matches, and a log that lists the rules considered.
THEOREM DecisionsByPriority == Spec => []DecisionByPriority
<1>1. QED
  BY RoutingInvariance, DecidesByPriority, PTL

\* route_lead and its TypeScript twin give the same answer to every condition
\* that compares what both languages compare alike, and the same decision on
\* rules made of such conditions, for every set of texts, amounts and conditions.
THEOREM EnginesAgree == Spec => []OperatorsAgree
<1>1. QED
  BY RoutingInvariance, AgreeOnOperators, PTL
=============================================================================
