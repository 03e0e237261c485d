--------------------------- MODULE TaskTrees_proofs --------------------------
(* Facts about the algorithms over the task table, for tables and arrays of any *)
(* finite size: what the walks find, what the validations of an array exclude,  *)
(* and what the links of a row stand for.                                       *)
EXTENDS TaskTrees, FiniteSetTheorems, WellFoundedInduction, TLAPS

-----------------------------------------------------------------------------
(* Loops.  What a walk computes is reasoned about through the turns it takes: *)
(* they are defined, and keep to any set that a single turn does not leave.   *)

\* A set of numbers has a least one: induction by contradiction. The initial segments
\* of a member are finitely many, and a smallest of them belongs to the least member.
LEMMA Least ==
  ASSUME NEW T, T \subseteq Nat, T # {}
  PROVE  \E n \in T : \A m \in T : n <= m
<1>1. PICK t \in T : TRUE OBVIOUS
<1>. DEFINE D == 1..t
            Q == {1..n : n \in {m \in T : m <= t}}
<1>2. IsFiniteSet(D) BY <1>1, FS_Interval
<1>3. IsWellFoundedOn(StrictSubsetOrdering(D), SUBSET D)
  BY <1>2, FS_StrictSubsetOrderingWellFounded, FS_FiniteSubsetsOfFinite
<1>4. Q \subseteq SUBSET D /\ Q # {} BY <1>1
<1>5. PICK s \in Q : \A u \in Q : ~(<<u, s>> \in StrictSubsetOrdering(D))
  <2>. HIDE DEF Q, D
  <2>. QED BY <1>3, <1>4, WFMin
<1>6. PICK n \in T : n <= t /\ s = 1..n BY <1>5
<1>7. ASSUME NEW m \in T, m < n PROVE FALSE
  <2>1. 1..m \in Q BY <1>1, <1>6, <1>7
  <2>2. 1..m \subseteq s /\ 1..m # s /\ s \subseteq D
    <3>1. n \in 1..n /\ n \notin 1..m BY <1>7
    <3>. QED BY <1>1, <1>6, <1>7, <3>1
  <2>. HIDE DEF Q, D
  <2>3. <<1..m, s>> \in StrictSubsetOrdering(D) BY <2>2 DEF StrictSubsetOrdering
  <2>. QED BY <1>5, <2>1, <2>3
<1>. QED
  <2>1. \A m \in T : ~(m < n) BY <1>7
  <2>. QED BY <2>1

\* Induction in the form the provers can use.
LEMMA Inductive ==
  ASSUME NEW T, 0 \in T, \A n \in Nat : n \in T => n + 1 \in T
  PROVE  Nat \subseteq T
<1>. SUFFICES ASSUME Nat \ T # {} PROVE FALSE OBVIOUS
<1>1. PICK n \in Nat \ T : \A m \in Nat \ T : n <= m
  <2>. DEFINE C == Nat \ T
  <2>1. C \subseteq Nat /\ C # {} OBVIOUS
  <2>. HIDE DEF C
  <2>2. \E n \in C : \A m \in C : n <= m BY <2>1, Least
  <2>. QED BY <2>2 DEF C
<1>2. n # 0 /\ n - 1 \in Nat OBVIOUS
<1>3. n - 1 \in T BY <1>1, <1>2
<1>4. (n - 1) + 1 \in T BY <1>2, <1>3
<1>. QED BY <1>2, <1>4

Turns(g, step, x) == g = [k \in Nat |-> IF k = 0 THEN x ELSE step[g[k - 1]]]

\* The turns of a loop are defined.
LEMMA TurnsExist ==
  ASSUME NEW step, NEW x
  PROVE  \E g : Turns(g, step, x)
<1>. DEFINE Upto(g, k) == g[0] = x /\ \A j \in 1..k : g[j] = step[g[j - 1]]
            T == {k \in Nat : \E g : Upto(g, k)}
<1>1. 0 \in T
  <2>1. Upto([k \in {0} |-> x], 0) OBVIOUS
  <2>. QED BY <2>1
<1>2. ASSUME NEW k \in Nat, k \in T PROVE k + 1 \in T
  <2>1. PICK g : Upto(g, k) BY <1>2
  <2>. DEFINE h == [j \in 0..(k + 1) |-> IF j = k + 1 THEN step[g[k]] ELSE g[j]]
  <2>2. h[0] = x BY <2>1
  <2>3. ASSUME NEW j \in 1..(k + 1) PROVE h[j] = step[h[j - 1]]
    <3>1. CASE j = k + 1
      <4>1. h[j] = step[g[k]] BY <3>1
      <4>2. h[j - 1] = g[k] BY <3>1
      <4>. QED BY <4>1, <4>2
    <3>2. CASE j \in 1..k
      <4>1. h[j] = g[j] /\ h[j - 1] = g[j - 1] BY <3>2
      <4>2. g[j] = step[g[j - 1]] BY <2>1, <3>2
      <4>. QED BY <4>1, <4>2
    <3>. QED BY <3>1, <3>2
  <2>4. Upto(h, k + 1) BY <2>2, <2>3
  <2>5. \E u : Upto(u, k + 1)
    <3>. HIDE DEF h, Upto
    <3>. QED BY <2>4
  <2>6. k + 1 \in Nat OBVIOUS
  <2>. HIDE DEF Upto
  <2>. QED BY <2>5, <2>6
<1>3. Nat \subseteq T
  <2>. HIDE DEF T
  <2>. QED BY <1>1, <1>2, Inductive
<1>. DEFINE at(k) == CHOOSE g : Upto(g, k)
            f == [k \in Nat |-> at(k)[k]]
<1>4. ASSUME NEW k \in Nat PROVE Upto(at(k), k)
  <2>1. \E g : Upto(g, k) BY <1>3
  <2>. QED BY <2>1
<1>5. ASSUME NEW k \in Nat \ {0} PROVE at(k)[k - 1] = at(k - 1)[k - 1]
  <2>. DEFINE S == {j \in Nat : j <= k - 1 => at(k)[j] = at(k - 1)[j]}
  <2>1. Upto(at(k), k) /\ Upto(at(k - 1), k - 1) BY <1>4
  <2>. HIDE DEF at
  <2>2. 0 \in S BY <2>1
  <2>3. ASSUME NEW j \in Nat, j \in S PROVE j + 1 \in S
    <3>. SUFFICES ASSUME j + 1 <= k - 1 PROVE at(k)[j + 1] = at(k - 1)[j + 1] OBVIOUS
    <3>1. at(k)[j] = at(k - 1)[j] BY <2>3
    <3>2. j + 1 \in 1..k /\ j + 1 \in 1..(k - 1) /\ (j + 1) - 1 = j OBVIOUS
    <3>3. at(k)[j + 1] = step[at(k)[j]] BY <2>1, <3>2
    <3>4. at(k - 1)[j + 1] = step[at(k - 1)[j]] BY <2>1, <3>2
    <3>. QED BY <3>1, <3>3, <3>4
  <2>4. Nat \subseteq S
    <3>. HIDE DEF S
    <3>. QED BY <2>2, <2>3, Inductive
  <2>5. k - 1 \in S BY <2>4
  <2>. QED BY <2>5
<1>6. ASSUME NEW k \in Nat PROVE f[k] = IF k = 0 THEN x ELSE step[f[k - 1]]
  <2>1. Upto(at(k), k) BY <1>4
  <2>2. CASE k = 0
    <3>1. f[k] = at(k)[k] OBVIOUS
    <3>. QED BY <2>1, <2>2, <3>1
  <2>3. CASE k # 0
    <3>1. f[k] = at(k)[k] /\ f[k - 1] = at(k - 1)[k - 1] BY <2>3
    <3>2. at(k)[k] = step[at(k)[k - 1]] BY <2>1, <2>3
    <3>3. at(k)[k - 1] = at(k - 1)[k - 1] BY <1>5, <2>3
    <3>. QED BY <2>3, <3>1, <3>2, <3>3
  <2>. QED BY <2>2, <2>3
<1>7. f = [k \in Nat |-> IF k = 0 THEN x ELSE step[f[k - 1]]]
  <2>1. f = [k \in Nat |-> f[k]] OBVIOUS
  <2>. HIDE DEF f
  <2>. QED BY <1>6, <2>1
<1>. QED
  <2>. HIDE DEF f
  <2>. QED BY <1>7 DEF Turns

LEMMA TurnByTurn ==
  ASSUME NEW step, NEW x, NEW g, Turns(g, step, x)
  PROVE  g[0] = x /\ \A k \in Nat : g[k + 1] = step[g[k]]
<1>1. \A k \in Nat : g[k] = IF k = 0 THEN x ELSE step[g[k - 1]] BY DEF Turns
<1>2. ASSUME NEW k \in Nat PROVE g[k + 1] = step[g[k]]
  <2>1. k + 1 \in Nat /\ k + 1 # 0 /\ (k + 1) - 1 = k OBVIOUS
  <2>. QED BY <1>1, <2>1
<1>. QED BY <1>1, <1>2

\* What a loop keeps to may change from turn to turn.
LEMMA IteratedKeeps ==
  ASSUME NEW step, NEW x, NEW n \in Nat, NEW S, x \in S[0],
         \A k \in Nat : \A y \in S[k] : step[y] \in S[k + 1]
  PROVE  Iterated(step, x, n) \in S[n]
<1>. DEFINE g == CHOOSE g : Turns(g, step, x)
            T == {k \in Nat : g[k] \in S[k]}
<1>1. Turns(g, step, x) BY TurnsExist
<1>2. g[0] = x /\ \A k \in Nat : g[k + 1] = step[g[k]]
  <2>. HIDE DEF g
  <2>. QED BY <1>1, TurnByTurn
<1>3. Iterated(step, x, n) = g[n] BY DEF Iterated, Turns
<1>. HIDE DEF g
<1>4. 0 \in T BY <1>2
<1>5. ASSUME NEW k \in Nat, k \in T PROVE k + 1 \in T BY <1>2, <1>5
<1>6. Nat \subseteq T
  <2>. HIDE DEF T
  <2>. QED BY <1>4, <1>5, Inductive
<1>. QED BY <1>3, <1>6

\* No turn of a loop, within a set that a turn does not leave, leaves it.
LEMMA IteratedStays ==
  ASSUME NEW step, NEW x, NEW n \in Nat, NEW S, x \in S, \A y \in S : step[y] \in S
  PROVE  Iterated(step, x, n) \in S
<1>. DEFINE U == [k \in Nat |-> S]
<1>1. x \in U[0] /\ \A k \in Nat : \A y \in U[k] : step[y] \in U[k + 1] OBVIOUS
<1>2. U[n] = S OBVIOUS
<1>. HIDE DEF U
<1>. QED BY <1>1, <1>2, IteratedKeeps

\* A loop that comes to a final element and stays there does so in another loop, too, that
\* takes the same turns but for those that got stuck elsewhere.
LEMMA IteratedAgrees ==
  ASSUME NEW step, NEW other, NEW x, NEW S, x \in S, \A y \in S : step[y] \in S,
         NEW F, \A y \in S : y \in F => step[y] = y,
         \A y \in S : other[y] = step[y] \/ (step[y] = y /\ y \notin F),
         NEW n \in Nat, NEW m \in Nat, n <= m, Iterated(step, x, n) \in F
  PROVE  Iterated(other, x, m) = Iterated(step, x, n)
<1>. DEFINE g == CHOOSE g : Turns(g, step, x)
            h == CHOOSE h : Turns(h, other, x)
<1>1. g[0] = x /\ \A k \in Nat : g[k + 1] = step[g[k]]
  <2>1. Turns(g, step, x) BY TurnsExist
  <2>. HIDE DEF g
  <2>. QED BY <2>1, TurnByTurn
<1>2. h[0] = x /\ \A k \in Nat : h[k + 1] = other[h[k]]
  <2>1. Turns(h, other, x) BY TurnsExist
  <2>. HIDE DEF h
  <2>. QED BY <2>1, TurnByTurn
<1>3. Iterated(step, x, n) = g[n] /\ Iterated(other, x, m) = h[m] BY DEF Iterated, Turns
<1>. HIDE DEF g, h
<1>4. ASSUME NEW k \in Nat PROVE g[k] \in S
  <2>. DEFINE T == {j \in Nat : g[j] \in S}
  <2>1. 0 \in T /\ \A j \in Nat : j \in T => j + 1 \in T BY <1>1
  <2>. HIDE DEF T
  <2>2. Nat \subseteq T BY <2>1, Inductive
  <2>. QED BY <2>2 DEF T
<1>5. ASSUME NEW k \in 0..n PROVE other[g[k]] = step[g[k]]
  <2>. SUFFICES ASSUME step[g[k]] = g[k], g[k] \notin F PROVE FALSE BY <1>4
  <2>. DEFINE T == {j \in Nat : g[k + j] = g[k]}
  <2>1. 0 \in T OBVIOUS
  <2>2. ASSUME NEW j \in Nat, j \in T PROVE j + 1 \in T
    <3>1. k + (j + 1) = (k + j) + 1 /\ k + j \in Nat OBVIOUS
    <3>2. g[(k + j) + 1] = step[g[k + j]] BY <1>1, <3>1
    <3>. QED BY <2>2, <3>1, <3>2
  <2>3. Nat \subseteq T
    <3>. HIDE DEF T
    <3>. QED BY <2>1, <2>2, Inductive
  <2>4. n - k \in Nat /\ k + (n - k) = n OBVIOUS
  <2>5. g[n] = g[k]
    <3>1. g[k + (n - k)] = g[k] BY <2>3, <2>4
    <3>. QED BY <2>4, <3>1
  <2>. QED BY <1>3, <2>5
<1>6. h[n] = g[n]
  <2>. DEFINE T == {k \in Nat : k <= n => h[k] = g[k]}
  <2>1. 0 \in T BY <1>1, <1>2
  <2>2. ASSUME NEW k \in Nat, k \in T PROVE k + 1 \in T
    <3>. SUFFICES ASSUME k + 1 <= n PROVE h[k + 1] = g[k + 1] OBVIOUS
    <3>1. k \in 0..n /\ h[k] = g[k] BY <2>2
    <3>. QED BY <1>1, <1>2, <1>5, <3>1
  <2>3. Nat \subseteq T
    <3>. HIDE DEF T
    <3>. QED BY <2>1, <2>2, Inductive
  <2>. QED BY <2>3
<1>7. other[g[n]] = g[n]
  <2>1. n \in 0..n OBVIOUS
  <2>. QED BY <1>3, <1>4, <1>5, <2>1
<1>. DEFINE T == {j \in Nat : h[n + j] = g[n]}
<1>8. 0 \in T BY <1>6
<1>9. ASSUME NEW j \in Nat, j \in T PROVE j + 1 \in T
  <2>1. n + (j + 1) = (n + j) + 1 /\ n + j \in Nat OBVIOUS
  <2>2. h[(n + j) + 1] = other[h[n + j]] BY <1>2, <2>1
  <2>. QED BY <1>7, <1>9, <2>1, <2>2
<1>10. Nat \subseteq T
  <2>. HIDE DEF T
  <2>. QED BY <1>8, <1>9, Inductive
<1>11. m - n \in Nat /\ n + (m - n) = m OBVIOUS
<1>12. h[n + (m - n)] = g[n] BY <1>10, <1>11
<1>. QED BY <1>3, <1>11, <1>12

-----------------------------------------------------------------------------
(* Walks over the rows. *)

\* A walk along edges between rows finds rows.
LEMMA ReachedWithin ==
  ASSUME NEW next, IsFiniteSet(DOMAIN next), \A i \in DOMAIN next : next[i] \subseteq DOMAIN next,
         NEW s, s \subseteq DOMAIN next
  PROVE  Reached(next, s) \subseteq DOMAIN next
<1>. DEFINE step == [t \in SUBSET DOMAIN next |-> t \cup UNION {next[i] : i \in t}]
            S == SUBSET DOMAIN next
<1>1. Cardinality(DOMAIN next) \in Nat BY FS_CardinalityType
<1>2. ASSUME NEW t \in S PROVE step[t] \in S
  OBVIOUS
<1>3. Iterated(step, s, Cardinality(DOMAIN next)) \in S
  <2>1. s \in S OBVIOUS
  <2>. HIDE DEF step, S
  <2>. QED BY <1>1, <1>2, <2>1, IteratedStays
<1>. QED BY <1>3 DEF Reached

Closed(next, t) == \A i \in t : next[i] \subseteq t

\* A walk finds what it starts from and nothing that a closed set does not contain, ...
LEMMA ReachedLeast ==
  ASSUME NEW next, IsFiniteSet(DOMAIN next), NEW s, NEW c, c \subseteq DOMAIN next,
         s \subseteq c, Closed(next, c)
  PROVE  s \subseteq Reached(next, s) /\ Reached(next, s) \subseteq c
<1>. DEFINE step == [t \in SUBSET DOMAIN next |-> t \cup UNION {next[i] : i \in t}]
            S == {t \in SUBSET DOMAIN next : s \subseteq t /\ t \subseteq c}
<1>1. Cardinality(DOMAIN next) \in Nat BY FS_CardinalityType
<1>2. ASSUME NEW t \in S PROVE step[t] \in S
  BY DEF Closed
<1>3. s \in S OBVIOUS
<1>4. Reached(next, s) = Iterated(step, s, Cardinality(DOMAIN next)) BY DEF Reached
<1>5. Iterated(step, s, Cardinality(DOMAIN next)) \in S
  <2>. HIDE DEF step, S
  <2>. QED BY <1>1, <1>2, <1>3, IteratedStays
<1>. QED BY <1>4, <1>5

\* ... and it ends with a closed set: every turn but the last adds something.
LEMMA ReachedClosed ==
  ASSUME NEW next, IsFiniteSet(DOMAIN next), \A i \in DOMAIN next : next[i] \subseteq DOMAIN next,
         NEW s, s \subseteq DOMAIN next
  PROVE  /\ s \subseteq Reached(next, s) /\ Reached(next, s) \subseteq DOMAIN next
         /\ Closed(next, Reached(next, s))
<1>. DEFINE N == Cardinality(DOMAIN next)
            step == [t \in SUBSET DOMAIN next |-> t \cup UNION {next[i] : i \in t}]
            S == [k \in Nat |-> {t \in SUBSET DOMAIN next :
                                   s \subseteq t /\ (Closed(next, t) \/ Cardinality(t) >= k)}]
<1>1. N \in Nat BY FS_CardinalityType
<1>2. s \in S[0]
  <2>1. Cardinality(s) \in Nat BY FS_Subset, FS_CardinalityType
  <2>. QED BY <2>1
<1>3. ASSUME NEW k \in Nat, NEW t \in S[k] PROVE step[t] \in S[k + 1]
  <2>1. t \in SUBSET DOMAIN next /\ s \subseteq t BY <1>3
  <2>2. step[t] = t \cup UNION {next[i] : i \in t} BY <2>1
  <2>3. step[t] \in SUBSET DOMAIN next /\ t \subseteq step[t] BY <2>1, <2>2
  <2>4. CASE Closed(next, t)
    <3>1. step[t] = t BY <2>2, <2>4 DEF Closed
    <3>. QED
      <4>. HIDE DEF step
      <4>. QED BY <2>1, <2>4, <3>1
  <2>5. CASE ~Closed(next, t)
    <3>1. t # step[t] BY <2>2, <2>5 DEF Closed
    <3>2. IsFiniteSet(step[t]) /\ IsFiniteSet(t)
      <4>. HIDE DEF step
      <4>. QED BY <2>1, <2>3, FS_Subset
    <3>3. Cardinality(t) <= Cardinality(step[t]) /\ Cardinality(t) # Cardinality(step[t])
      <4>. HIDE DEF step
      <4>. QED BY <2>3, <3>1, <3>2, FS_Subset
    <3>4. Cardinality(t) >= k BY <1>3, <2>5
    <3>5. Cardinality(t) \in Nat /\ Cardinality(step[t]) \in Nat BY <3>2, FS_CardinalityType
    <3>6. Cardinality(step[t]) >= k + 1
      <4>. HIDE DEF step
      <4>. QED BY <3>3, <3>4, <3>5
    <3>. QED
      <4>. HIDE DEF step
      <4>. QED BY <2>1, <2>3, <3>6
  <2>. QED BY <2>4, <2>5
<1>4. Reached(next, s) = Iterated(step, s, N) BY DEF Reached
<1>5. Reached(next, s) \in S[N]
  <2>. HIDE DEF step, S, N
  <2>. QED BY <1>1, <1>2, <1>3, <1>4, IteratedKeeps
<1>. DEFINE t == Reached(next, s)
<1>6. t \in SUBSET DOMAIN next /\ s \subseteq t /\ (Closed(next, t) \/ Cardinality(t) >= N)
  <2>. HIDE DEF t, N
  <2>. QED BY <1>1, <1>5 DEF t
<1>7. CASE Cardinality(t) >= N
  <2>1. IsFiniteSet(t) /\ Cardinality(t) \in Nat BY <1>6, FS_Subset, FS_CardinalityType
  <2>2. t = DOMAIN next
    <3>. HIDE DEF t
    <3>. QED BY <1>1, <1>6, <1>7, <2>1, FS_Subset
  <2>. QED BY <2>2 DEF Closed
<1>. QED BY <1>6, <1>7

\* Edges along which nothing comes back: in every set, something leads out of it.
Founded(next) ==
  \A z \in SUBSET DOMAIN next : z # {} => \E i \in z : next[i] \cap z = {}

\* Otherwise the nodes that are in no closed set without i would contain i alone.
LEMMA FoundedIsAcyclic ==
  ASSUME NEW next, IsFiniteSet(DOMAIN next), \A i \in DOMAIN next : next[i] \subseteq DOMAIN next,
         Founded(next)
  PROVE  Acyclic(next)
<1>. SUFFICES ASSUME NEW i \in DOMAIN next PROVE i \notin Reached(next, next[i]) BY DEF Acyclic
<1>. DEFINE c == UNION {t \in SUBSET DOMAIN next : Closed(next, t) /\ i \notin t}
            z == DOMAIN next \ c
<1>1. c \subseteq DOMAIN next /\ i \notin c OBVIOUS
<1>2. Closed(next, c) BY DEF Closed
<1>3. i \in z OBVIOUS
<1>4. PICK j \in z : next[j] \cap z = {} BY <1>3 DEF Founded
<1>5. next[j] \subseteq c BY <1>4
<1>6. j = i
  <2>1. SUFFICES ASSUME j # i PROVE FALSE OBVIOUS
  <2>. DEFINE t == c \cup {j}
  <2>2. t \subseteq DOMAIN next /\ i \notin t BY <1>1, <2>1
  <2>3. Closed(next, t)
    <3>. HIDE DEF c
    <3>. QED BY <1>2, <1>5 DEF Closed
  <2>4. t \subseteq c
    <3>. HIDE DEF t
    <3>. QED BY <2>2, <2>3
  <2>. QED BY <2>4
<1>7. next[i] \subseteq c BY <1>5, <1>6
<1>. HIDE DEF c
<1>. QED BY <1>1, <1>2, <1>7, ReachedLeast

\* In a set that nothing leads out of, a node that reaches as little as any reaches itself.
LEMMA AcyclicIsFounded ==
  ASSUME NEW next, IsFiniteSet(DOMAIN next), \A i \in DOMAIN next : next[i] \subseteq DOMAIN next,
         Acyclic(next)
  PROVE  Founded(next)
<1>. SUFFICES ASSUME NEW z \in SUBSET DOMAIN next, z # {}, \A i \in z : next[i] \cap z # {}
              PROVE FALSE
  BY DEF Founded
<1>. DEFINE D == DOMAIN next
            at(i) == Reached(next, next[i])
            Q == {at(i) : i \in z}
<1>1. \A i \in D : at(i) \subseteq D /\ next[i] \subseteq at(i) /\ Closed(next, at(i)) /\ i \notin at(i)
  BY ReachedClosed DEF Acyclic
<1>2. IsWellFoundedOn(StrictSubsetOrdering(D), SUBSET D)
  BY FS_StrictSubsetOrderingWellFounded, FS_FiniteSubsetsOfFinite
<1>3. Q \subseteq SUBSET D /\ Q # {}
  <2>. HIDE DEF at
  <2>. QED BY <1>1
<1>4. PICK q \in Q : \A u \in Q : ~(<<u, q>> \in StrictSubsetOrdering(D))
  <2>. HIDE DEF Q, D
  <2>. QED BY <1>2, <1>3, WFMin
<1>5. PICK i \in z : q = at(i) BY <1>4
<1>6. PICK j \in z : j \in next[i] OBVIOUS
<1>7. j \in at(i) /\ next[j] \subseteq at(i) BY <1>1, <1>6 DEF Closed
<1>8. at(j) \subseteq at(i)
  <2>1. at(i) \subseteq DOMAIN next /\ Closed(next, at(i)) /\ j \in D BY <1>1
  <2>. QED BY <1>7, <2>1, ReachedLeast
<1>9. j \notin at(j) BY <1>1
<1>10. <<at(j), at(i)>> \in StrictSubsetOrdering(D)
  <2>1. at(i) \subseteq D BY <1>1
  <2>. HIDE DEF at
  <2>. QED BY <1>7, <1>8, <1>9, <2>1 DEF StrictSubsetOrdering
<1>11. at(j) \in Q OBVIOUS
<1>. HIDE DEF Q, at, D
<1>. QED BY <1>4, <1>5, <1>10, <1>11

\* Two parts without an edge from the first to the second.
LEMMA FoundedJoins ==
  ASSUME NEW next, NEW a \in SUBSET DOMAIN next,
         \A i \in a : next[i] \subseteq a,
         \A z \in SUBSET a : z # {} => \E i \in z : next[i] \cap z = {},
         \A z \in SUBSET (DOMAIN next \ a) : z # {} => \E i \in z : next[i] \cap z = {}
  PROVE  Founded(next)
<1>. SUFFICES ASSUME NEW z \in SUBSET DOMAIN next, z # {} PROVE \E i \in z : next[i] \cap z = {}
  BY DEF Founded
<1>1. CASE z \cap a = {}
  <2>1. z \in SUBSET (DOMAIN next \ a) BY <1>1
  <2>. QED BY <2>1
<1>2. CASE z \cap a # {}
  <2>1. z \cap a \in SUBSET a BY <1>2
  <2>2. PICK i \in z \cap a : next[i] \cap (z \cap a) = {} BY <1>2, <2>1
  <2>3. next[i] \subseteq a BY <2>2
  <2>. QED BY <2>2, <2>3
<1>. QED BY <1>1, <1>2

LEMMA DescendantsExist ==
  ASSUME NEW R, IsFiniteSet(DOMAIN R), NEW t \in DOMAIN R
  PROVE  Descendants(R, t) \subseteq DOMAIN R
<1>. DEFINE next == [i \in DOMAIN R |-> Children(R, i)]
<1>1. DOMAIN next = DOMAIN R OBVIOUS
<1>2. \A i \in DOMAIN next : next[i] \subseteq DOMAIN next BY DEF Children
<1>3. {t} \subseteq DOMAIN next OBVIOUS
<1>4. Descendants(R, t) = Reached(next, {t}) BY DEF Descendants
<1>. HIDE DEF next
<1>. QED BY <1>1, <1>2, <1>3, <1>4, ReachedWithin

LEMMA RootExists ==
  ASSUME NEW R, IsFiniteSet(DOMAIN R), NEW t \in DOMAIN R
  PROVE  RootOf(R, t) \in DOMAIN R
<1>. DEFINE step == [i \in DOMAIN R |->
                      IF R[i].parent \in DOMAIN R THEN R[i].parent ELSE i]
<1>1. Cardinality(DOMAIN R) \in Nat BY FS_CardinalityType
<1>2. \A i \in DOMAIN R : step[i] \in DOMAIN R OBVIOUS
<1>3. RootOf(R, t) = Iterated(step, t, Cardinality(DOMAIN R)) BY DEF RootOf
<1>. HIDE DEF step
<1>. QED BY <1>1, <1>2, <1>3, IteratedStays

-----------------------------------------------------------------------------
(* Validation of an array. *)

\* Who climbs to a root from every task of an array climbs in no circle.
LEMMA ParentsFounded ==
  ASSUME NEW parentOf, IsFiniteSet(DOMAIN parentOf), NoTask \notin DOMAIN parentOf,
         ParentsAcyclic(parentOf)
  PROVE  Founded([i \in DOMAIN parentOf |-> {parentOf[i]} \cap DOMAIN parentOf])
<1>. DEFINE next == [i \in DOMAIN parentOf |-> {parentOf[i]} \cap DOMAIN parentOf]
            step == [i \in DOMAIN parentOf \cup {NoTask} |->
                       IF i = NoTask THEN NoTask ELSE parentOf[i]]
            N == Cardinality(DOMAIN parentOf)
<1>. SUFFICES ASSUME NEW z \in SUBSET DOMAIN parentOf, z # {}, \A i \in z : next[i] \cap z # {}
              PROVE FALSE
  BY DEF Founded
<1>1. \A i \in z : step[i] \in z OBVIOUS
<1>2. PICK i \in z : TRUE OBVIOUS
<1>3. N \in Nat BY FS_CardinalityType
<1>4. Iterated(step, i, N) = NoTask BY DEF ParentsAcyclic, ClimbsToRoot
<1>5. Iterated(step, i, N) \in z
  <2>. HIDE DEF step, N
  <2>. QED BY <1>1, <1>2, <1>3, IteratedStays
<1>. QED BY <1>4, <1>5

\* What a search without a cycle has finished at some moment leads nowhere else and is
\* founded; its open calls are different nodes that are not finished.
Searching(g, s) ==
  /\ s \in Search(g)
  /\ ~s.cyclic =>
       /\ Closed(g, s.visited)
       /\ \A z \in SUBSET s.visited : z # {} => \E i \in z : g[i] \cap z = {}
       /\ \A j, k \in DOMAIN s.stack : s.stack[j] = s.stack[k] => j = k
       /\ \A k \in DOMAIN s.stack : s.stack[k] \notin s.visited

OpenCalls(s) == {s.stack[k] : k \in DOMAIN s.stack}

\* One more turn enters a node, meets a cycle, finishes a node, or there is none left.
LEMMA SearchGoesOn ==
  ASSUME NEW g, IsFiniteSet(DOMAIN g), \A i \in DOMAIN g : g[i] \subseteq DOMAIN g,
         NEW s, Searching(g, s)
  PROVE  LET t == Searched(g, s)
         IN  /\ Searching(g, t)
             /\ ~t.cyclic => ~s.cyclic
             /\ ~t.cyclic =>
                  \/ (t = s /\ s.visited = DOMAIN g)
                  \/ \E n \in DOMAIN g : /\ n \notin s.visited \cup OpenCalls(s)
                                         /\ t.visited = s.visited /\ OpenCalls(t) = OpenCalls(s) \cup {n}
                                         /\ Len(t.stack) = Len(s.stack) + 1
                  \/ \E n \in OpenCalls(s) : /\ t.visited = s.visited \cup {n} /\ n \notin s.visited
                                         /\ OpenCalls(t) = OpenCalls(s) \ {n}
                                         /\ Len(t.stack) = Len(s.stack) - 1
<1>. DEFINE t == Searched(g, s)
            top == Last(s.stack)
            ahead == (IF s.stack = << >> THEN DOMAIN g ELSE g[top]) \ s.visited
            node == CHOOSE n \in ahead : TRUE
<1>1. /\ s = [stack |-> s.stack, visited |-> s.visited, cyclic |-> s.cyclic]
      /\ s.stack \in Seq(DOMAIN g) /\ s.visited \subseteq DOMAIN g /\ s.cyclic \in BOOLEAN
  BY DEF Searching, Search
<1>2. CASE s.cyclic
  BY <1>2 DEF Searched, Searching
<1>3. Len(s.stack) \in Nat /\ DOMAIN s.stack = 1..Len(s.stack) BY <1>1
<1>4. s.stack # << >> => /\ top = s.stack[Len(s.stack)] /\ Len(s.stack) \in DOMAIN s.stack
                         /\ top \in DOMAIN g
  BY <1>1, <1>3 DEF Last
<1>5. CASE ~s.cyclic /\ ahead # {}
  <2>1. node \in ahead /\ node \in DOMAIN g /\ node \notin s.visited
    <3>1. node \in ahead BY <1>5
    <3>. HIDE DEF node
    <3>. QED BY <1>4, <3>1
  <2>2. t = Entered(s, node) BY <1>5 DEF Searched
  <2>. HIDE DEF node, t
  <2>3. CASE node \in OpenCalls(s)
    <3>1. t = [stack |-> s.stack, visited |-> s.visited, cyclic |-> TRUE]
      BY <1>1, <2>2, <2>3 DEF Entered, OpenCalls
    <3>2. t.cyclic /\ t \in Search(g) BY <1>1, <3>1 DEF Search
    <3>. QED BY <3>2 DEF Searching, t
  <2>4. CASE node \notin OpenCalls(s)
    <3>1. t = [stack |-> Append(s.stack, node), visited |-> s.visited, cyclic |-> FALSE]
      BY <1>1, <1>5, <2>2, <2>4 DEF Entered, OpenCalls
    <3>2. t.stack \in Seq(DOMAIN g) /\ Len(t.stack) = Len(s.stack) + 1
      BY <1>1, <2>1, <3>1
    <3>3. DOMAIN t.stack = 1..(Len(s.stack) + 1) BY <1>3, <3>2
    <3>4. /\ \A k \in DOMAIN s.stack : t.stack[k] = s.stack[k]
          /\ t.stack[Len(s.stack) + 1] = node
      BY <1>1, <2>1, <3>1
    <3>5. DOMAIN t.stack = DOMAIN s.stack \cup {Len(s.stack) + 1} BY <1>3, <3>3
    <3>6. OpenCalls(t) = OpenCalls(s) \cup {node}
      <4>. QED BY <3>4, <3>5 DEF OpenCalls
    <3>7. t \in Search(g) BY <1>1, <3>1, <3>2 DEF Search
    <3>8. t.visited = s.visited /\ ~t.cyclic BY <3>1
    <3>9. \A j, k \in DOMAIN t.stack : t.stack[j] = t.stack[k] => j = k
      BY <1>5, <2>4, <3>4, <3>5 DEF Searching, OpenCalls
    <3>10. \A k \in DOMAIN t.stack : t.stack[k] \notin t.visited
      BY <1>5, <2>1, <3>4, <3>5, <3>8 DEF Searching
    <3>11. Searching(g, t) BY <1>5, <3>7, <3>8, <3>9, <3>10 DEF Searching
    <3>. QED BY <1>5, <2>1, <2>4, <3>2, <3>6, <3>8, <3>11 DEF t
  <2>. QED BY <2>3, <2>4
<1>6. CASE ~s.cyclic /\ ahead = {} /\ s.stack = << >>
  <2>1. t = s BY <1>6 DEF Searched
  <2>2. s.visited = DOMAIN g BY <1>1, <1>6
  <2>. QED BY <2>1, <2>2
<1>7. CASE ~s.cyclic /\ ahead = {} /\ s.stack # << >>
  <2>1. t = [stack |-> Front(s.stack), visited |-> s.visited \cup {top}, cyclic |-> FALSE]
    <3>1. t = [s EXCEPT !.stack = Front(@), !.visited = @ \cup {top}] BY <1>7 DEF Searched
    <3>. HIDE DEF t, top
    <3>. QED BY <1>1, <1>7, <3>1
  <2>. DEFINE l == Len(s.stack)
  <2>2. /\ l \in Nat \ {0}
        /\ Front(s.stack) = [k \in 1..(l - 1) |-> s.stack[k]]
    <3>1. l # 0 BY <1>1, <1>7
    <3>. QED BY <1>1, <1>3, <3>1 DEF Front
  <2>3. t.stack \in Seq(DOMAIN g) /\ Len(t.stack) = l - 1 /\ DOMAIN t.stack = 1..(l - 1)
    <3>1. \A k \in 1..(l - 1) : s.stack[k] \in DOMAIN g BY <1>1, <1>3
    <3>2. t.stack = [k \in 1..(l - 1) |-> s.stack[k]] BY <2>1, <2>2
    <3>3. l - 1 \in Nat BY <2>2
    <3>. HIDE DEF t, l
    <3>. QED BY <3>1, <3>2, <3>3
  <2>4. \A k \in 1..(l - 1) : t.stack[k] = s.stack[k] BY <2>1, <2>2
  <2>5. top = s.stack[l] /\ top \in DOMAIN g /\ l \in DOMAIN s.stack BY <1>4, <1>7
  <2>6. top \notin s.visited /\ g[top] \subseteq s.visited
    <3>1. top \notin s.visited BY <1>7, <2>5 DEF Searching
    <3>. QED BY <1>7, <3>1
  <2>7. t.visited = s.visited \cup {top} /\ ~t.cyclic BY <2>1
  <2>. HIDE DEF t, top, ahead
  <2>8. t \in Search(g)
    <3>1. t = [stack |-> t.stack, visited |-> t.visited, cyclic |-> FALSE] BY <2>1
    <3>2. t.visited \in SUBSET DOMAIN g BY <1>1, <2>5, <2>7
    <3>3. \A a \in Seq(DOMAIN g), b \in SUBSET DOMAIN g :
            [stack |-> a, visited |-> b, cyclic |-> FALSE] \in Search(g)
      BY DEF Search
    <3>4. t.stack \in Seq(DOMAIN g) BY <2>3
    <3>. QED BY <3>1, <3>2, <3>3, <3>4
  <2>9. DOMAIN s.stack = DOMAIN t.stack \cup {l} /\ l \notin DOMAIN t.stack
    BY <1>3, <2>2, <2>3
  <2>10. OpenCalls(t) = OpenCalls(s) \ {top} /\ top \in OpenCalls(s)
    <3>1. \A k \in DOMAIN t.stack : t.stack[k] = s.stack[k] /\ s.stack[k] # top
      BY <1>7, <2>3, <2>4, <2>5, <2>9 DEF Searching
    <3>. QED BY <2>5, <2>9, <3>1 DEF OpenCalls
  <2>11. Closed(g, t.visited) BY <1>7, <2>6, <2>7 DEF Closed, Searching
  <2>12. ASSUME NEW z \in SUBSET t.visited, z # {} PROVE \E i \in z : g[i] \cap z = {}
    <3>1. CASE z \cap s.visited = {} BY <2>6, <2>7, <2>12, <3>1
    <3>2. CASE z \cap s.visited # {}
      <4>1. PICK i \in z \cap s.visited : g[i] \cap (z \cap s.visited) = {}
        BY <1>7, <3>2 DEF Searching
      <4>2. g[i] \subseteq s.visited BY <1>7, <4>1 DEF Searching, Closed
      <4>. QED BY <4>1, <4>2
    <3>. QED BY <3>1, <3>2
  <2>13. \A j, k \in DOMAIN t.stack : t.stack[j] = t.stack[k] => j = k
    BY <1>7, <2>3, <2>4, <2>9 DEF Searching
  <2>14. \A k \in DOMAIN t.stack : t.stack[k] \notin t.visited
    BY <1>7, <2>3, <2>4, <2>5, <2>7, <2>9 DEF Searching
  <2>15. Searching(g, t) BY <2>7, <2>8, <2>11, <2>12, <2>13, <2>14 DEF Searching
  <2>. QED BY <1>7, <2>3, <2>6, <2>7, <2>10, <2>15 DEF t
<1>. QED BY <1>1, <1>2, <1>5, <1>6, <1>7

\* The search has turns enough to finish every node.
LEMMA CircularFounded ==
  ASSUME NEW g, IsFiniteSet(DOMAIN g), \A i \in DOMAIN g : g[i] \subseteq DOMAIN g,
         ~Circular(g)
  PROVE  Founded(g)
<1>. DEFINE N == Cardinality(DOMAIN g)
            step == [s \in Search(g) |-> Searched(g, s)]
            x == [stack |-> << >>, visited |-> {}, cyclic |-> FALSE]
            seen(s) == s.visited \cup OpenCalls(s)
            counts(s) == /\ IsFiniteSet(s.visited) /\ IsFiniteSet(seen(s))
                         /\ Cardinality(seen(s)) = Cardinality(s.visited) + Len(s.stack)
            done(s) == s.visited = DOMAIN g
            S == [k \in Nat |->
                    {s \in Search(g) :
                       /\ Searching(g, s)
                       /\ ~s.cyclic => /\ counts(s)
                                       /\ done(s) \/ Cardinality(s.visited) + Cardinality(seen(s)) = k}]
<1>1. N \in Nat BY FS_CardinalityType
<1>2. x \in S[0]
  <2>1. x \in Search(g) BY DEF Search
  <2>2. Searching(g, x) BY <2>1 DEF Searching, Closed
  <2>3. seen(x) = {} /\ x.visited = {} /\ Len(x.stack) = 0 BY DEF OpenCalls
  <2>. HIDE DEF x, seen
  <2>4. counts(x)
    <3>1. IsFiniteSet({}) /\ Cardinality({}) = 0 BY FS_EmptySet
    <3>. QED BY <2>3, <3>1
  <2>5. Cardinality(x.visited) + Cardinality(seen(x)) = 0
    <3>1. Cardinality({}) = 0 BY FS_EmptySet
    <3>. QED BY <2>3, <3>1
  <2>. HIDE DEF counts
  <2>. QED BY <2>1, <2>2, <2>4, <2>5
<1>3. ASSUME NEW k \in Nat, NEW s \in S[k] PROVE step[s] \in S[k + 1]
  <2>. DEFINE t == Searched(g, s)
  <2>1. s \in Search(g) /\ Searching(g, s) BY <1>3
  <2>2. step[s] = t BY <2>1
  <2>3. Searching(g, t) /\ (~t.cyclic => ~s.cyclic) BY <2>1, SearchGoesOn
  <2>4. t \in Search(g) BY <2>3 DEF Searching
  <2>5. ASSUME ~t.cyclic
        PROVE  counts(t) /\ (done(t) \/ Cardinality(t.visited) + Cardinality(seen(t)) = k + 1)
    <3>1. counts(s) /\ (done(s) \/ Cardinality(s.visited) + Cardinality(seen(s)) = k)
      BY <1>3, <2>3, <2>5
    <3>2. /\ Cardinality(s.visited) \in Nat /\ Cardinality(seen(s)) \in Nat
      BY <3>1, FS_CardinalityType
    <3>3. Len(s.stack) \in Nat BY <2>1 DEF Search
    <3>4. CASE t = s /\ s.visited = DOMAIN g BY <3>1, <3>4
    <3>5. CASE \E n \in DOMAIN g : /\ n \notin s.visited \cup OpenCalls(s)
                                   /\ t.visited = s.visited /\ OpenCalls(t) = OpenCalls(s) \cup {n}
                                   /\ Len(t.stack) = Len(s.stack) + 1
      <4>1. PICK n \in DOMAIN g : /\ n \notin seen(s) /\ t.visited = s.visited
                                  /\ OpenCalls(t) = OpenCalls(s) \cup {n}
                                  /\ Len(t.stack) = Len(s.stack) + 1
        BY <3>5
      <4>2. seen(t) = seen(s) \cup {n} BY <4>1
      <4>. HIDE DEF t, seen, S
      <4>3. IsFiniteSet(seen(t)) /\ Cardinality(seen(t)) = Cardinality(seen(s)) + 1
        BY <3>1, <4>1, <4>2, FS_AddElement
      <4>. QED BY <3>1, <3>2, <3>3, <4>1, <4>3
    <3>6. CASE \E n \in OpenCalls(s) : /\ t.visited = s.visited \cup {n} /\ n \notin s.visited
                                       /\ OpenCalls(t) = OpenCalls(s) \ {n}
                                       /\ Len(t.stack) = Len(s.stack) - 1
      <4>1. PICK n \in OpenCalls(s) : /\ t.visited = s.visited \cup {n} /\ n \notin s.visited
                                      /\ OpenCalls(t) = OpenCalls(s) \ {n}
                                      /\ Len(t.stack) = Len(s.stack) - 1
        BY <3>6
      <4>2. seen(t) = seen(s) BY <4>1
      <4>3. s.visited # DOMAIN g
        <5>1. n \in DOMAIN g BY <2>1, <4>1 DEF Search, OpenCalls
        <5>. QED BY <4>1, <5>1
      <4>. HIDE DEF t, seen, S
      <4>4. IsFiniteSet(t.visited) /\ Cardinality(t.visited) = Cardinality(s.visited) + 1
        <5>1. \A v, m : IsFiniteSet(v) /\ m \notin v =>
                IsFiniteSet(v \cup {m}) /\ Cardinality(v \cup {m}) = Cardinality(v) + 1
          BY FS_AddElement
        <5>2. IsFiniteSet(s.visited) BY <3>1
        <5>3. t.visited = s.visited \cup {n} /\ n \notin s.visited BY <4>1
        <5>4. /\ IsFiniteSet(s.visited \cup {n})
              /\ Cardinality(s.visited \cup {n}) = Cardinality(s.visited) + 1
          BY <5>1, <5>2, <5>3
        <5>. QED BY <5>3, <5>4
      <4>5. Cardinality(seen(t)) = Cardinality(seen(s)) /\ IsFiniteSet(seen(t)) BY <3>1, <4>2
      <4>6. Cardinality(seen(t)) = Cardinality(t.visited) + Len(t.stack)
        <5>1. Len(t.stack) = Len(s.stack) - 1 BY <4>1
        <5>2. Cardinality(seen(s)) = Cardinality(s.visited) + Len(s.stack) BY <3>1
        <5>. QED BY <3>2, <3>3, <4>4, <4>5, <5>1, <5>2
      <4>7. Cardinality(t.visited) + Cardinality(seen(t)) = k + 1
        <5>1. Cardinality(s.visited) + Cardinality(seen(s)) = k BY <3>1, <4>3
        <5>. QED BY <3>2, <4>4, <4>5, <5>1
      <4>. QED BY <4>4, <4>5, <4>6, <4>7
    <3>. QED
      <4>. HIDE DEF counts, done
      <4>. QED BY <2>1, <2>5, <3>4, <3>5, <3>6, SearchGoesOn
  <2>. HIDE DEF t, counts, done, seen, step
  <2>. QED BY <2>2, <2>3, <2>4, <2>5
<1>. DEFINE n == 2 * N + 1
            e == Iterated(step, x, n)
<1>4. e \in S[n]
  <2>1. n \in Nat BY <1>1
  <2>. HIDE DEF step, x, S, n
  <2>. QED BY <1>2, <1>3, <2>1, IteratedKeeps
<1>5. ~e.cyclic BY DEF Circular
<1>6. Searching(g, e) /\ counts(e) /\ (done(e) \/ Cardinality(e.visited) + Cardinality(seen(e)) = n)
  <2>1. n \in Nat BY <1>1
  <2>. HIDE DEF e, counts, done, seen, n
  <2>. QED BY <1>4, <1>5, <2>1
<1>7. done(e)
  <2>1. e.visited \in SUBSET DOMAIN g /\ e.stack \in Seq(DOMAIN g) BY <1>6 DEF Searching, Search
  <2>2. seen(e) \in SUBSET DOMAIN g BY <2>1 DEF OpenCalls
  <2>3. Cardinality(e.visited) <= N /\ Cardinality(seen(e)) <= N
    <3>. HIDE DEF e, seen
    <3>. QED BY <2>1, <2>2, FS_Subset
  <2>4. Cardinality(e.visited) \in Nat /\ Cardinality(seen(e)) \in Nat
    BY <1>6, FS_CardinalityType
  <2>5. Cardinality(e.visited) + Cardinality(seen(e)) # n
    <3>. HIDE DEF e, seen, N
    <3>. QED BY <1>1, <2>3, <2>4
  <2>. QED BY <1>6, <2>5
<1>. QED
  <2>. HIDE DEF e
  <2>. QED BY <1>5, <1>6, <1>7 DEF Searching, Founded

-----------------------------------------------------------------------------
(* Rows. *)

LEMMA RowColumns == \A origin, content : DOMAIN NewRow(origin, content) = Columns
  BY DEF NewRow, Columns

\* Who has no parent is its own root.
LEMMA RootOfRoot ==
  ASSUME NEW R, IsFiniteSet(DOMAIN R), NEW t \in DOMAIN R, R[t].parent \notin DOMAIN R
  PROVE  RootOf(R, t) = t
<1>. DEFINE step == [i \in DOMAIN R |->
                      IF R[i].parent \in DOMAIN R THEN R[i].parent ELSE i]
            S == {t}
<1>1. Cardinality(DOMAIN R) \in Nat BY FS_CardinalityType
<1>2. t \in S /\ \A i \in S : step[i] \in S OBVIOUS
<1>3. RootOf(R, t) = Iterated(step, t, Cardinality(DOMAIN R)) BY DEF RootOf
<1>4. RootOf(R, t) \in S
  <2>. HIDE DEF step, S
  <2>. QED BY <1>1, <1>2, <1>3, IteratedStays
<1>. QED BY <1>4

\* What a row stands for is itself, or a completed row that is no link.
LEMMA EffectiveRow ==
  ASSUME NEW R, IsFiniteSet(DOMAIN R), NEW row, Resolves(R, row)
  PROVE  LET e == Effective(R, row)
         IN  /\ ~Follows(e)
             /\ e.frozen /\ e = row => row.status = "completed"
             /\ e = row \/ \E j \in DOMAIN R : e = R[j] /\ R[j].status = "completed"
<1>. DEFINE completed == {j \in DOMAIN R : R[j].status = "completed"}
            step == [j \in completed |-> IF Follows(R[j]) /\ R[j].original \in completed
                                         THEN R[j].original ELSE j]
<1>1. Effective(R, row) # Unresolved BY DEF Resolves, Unresolved, NewRow
<1>2. CASE ~Follows(row)
  BY <1>1, <1>2 DEF Effective
<1>3. CASE Follows(row)
  <2>1. row.original \in completed BY <1>1, <1>3 DEF Effective, Follows
  <2>2. EndOfLinks(R, row.original) \in completed
    <3>1. IsFiniteSet(completed)
      <4>1. completed \in SUBSET DOMAIN R OBVIOUS
      <4>. QED BY <4>1, FS_Subset
    <3>2. Cardinality(completed) \in Nat BY <3>1, FS_CardinalityType
    <3>3. \A j \in completed : step[j] \in completed OBVIOUS
    <3>4. EndOfLinks(R, row.original) = Iterated(step, row.original, Cardinality(completed))
      BY DEF EndOfLinks
    <3>. HIDE DEF step, completed
    <3>. QED BY <2>1, <3>2, <3>3, <3>4, IteratedStays
  <2>3. ~row.frozen BY <1>3 DEF Follows
  <2>4. Effective(R, row) = R[EndOfLinks(R, row.original)] /\ ~Follows(Effective(R, row))
    BY <1>1, <1>3, <2>1, <2>3 DEF Effective
  <2>5. Effective(R, row) # row BY <1>3, <2>4
  <2>. QED BY <2>2, <2>4, <2>5
<1>. QED BY <1>2, <1>3

\* What a row stands for stays, with its result, while links stay what they are, and rows
\* are added or completed: the links lead on to where they led.
LEMMA EffectiveStays ==
  ASSUME NEW R, NEW T, IsFiniteSet(DOMAIN R), IsFiniteSet(DOMAIN T), DOMAIN R \subseteq DOMAIN T,
         \A i \in DOMAIN R : /\ T[i].origin = R[i].origin /\ T[i].original = R[i].original
                             /\ T[i].frozen = R[i].frozen
                             /\ R[i].status = "completed" =>
                                  T[i].status = "completed" /\ T[i].result = R[i].result,
         NEW row, Resolves(R, row),
         NEW new, new.origin = row.origin, new.original = row.original, new.frozen = row.frozen,
         new.status = row.status, new.result = row.result
  PROVE  Resolves(T, new) /\ Effective(T, new).result = Effective(R, row).result
<1>1. Effective(R, row) # Unresolved /\ Effective(R, row).origin # "none"
  BY DEF Resolves, Unresolved, NewRow
<1>2. Follows(new) <=> Follows(row) BY DEF Follows
<1>3. CASE ~Follows(row)
  <2>1. Effective(R, row) = row /\ ~(row.frozen /\ row.status # "completed")
    BY <1>1, <1>3 DEF Effective
  <2>2. Effective(T, new) = new BY <1>2, <1>3, <2>1 DEF Effective
  <2>. QED BY <1>1, <2>1, <2>2 DEF Resolves
<1>4. CASE Follows(row)
  <2>. DEFINE done == {j \in DOMAIN R : R[j].status = "completed"}
              after == {j \in DOMAIN T : T[j].status = "completed"}
              step == [j \in done |-> IF Follows(R[j]) /\ R[j].original \in done
                                      THEN R[j].original ELSE j]
              other == [j \in after |-> IF Follows(T[j]) /\ T[j].original \in after
                                        THEN T[j].original ELSE j]
              x == row.original
              F == {j \in done : ~Follows(R[j])}
  <2>1. x \in done BY <1>1, <1>4 DEF Effective, Follows
  <2>2. done \subseteq after OBVIOUS
  <2>3. IsFiniteSet(done) /\ IsFiniteSet(after)
    <3>1. done \in SUBSET DOMAIN R /\ after \in SUBSET DOMAIN T OBVIOUS
    <3>. QED BY <3>1, FS_Subset
  <2>4. /\ Cardinality(done) \in Nat /\ Cardinality(after) \in Nat
        /\ Cardinality(done) <= Cardinality(after)
    <3>. HIDE DEF done, after
    <3>. QED BY <2>2, <2>3, FS_Subset, FS_CardinalityType
  <2>5. \A y \in done : step[y] \in done OBVIOUS
  <2>6. \A y \in done : y \in F => step[y] = y OBVIOUS
  <2>7. \A y \in done : Follows(T[y]) <=> Follows(R[y]) BY DEF Follows
  <2>8. \A y \in done : other[y] = step[y] \/ (step[y] = y /\ y \notin F)
    <3>. SUFFICES ASSUME NEW y \in done, other[y] # step[y] PROVE step[y] = y /\ y \notin F
      OBVIOUS
    <3>1. T[y].original = R[y].original /\ y \in after OBVIOUS
    <3>2. Follows(R[y]) /\ R[y].original \notin done BY <2>2, <2>7, <3>1
    <3>. QED BY <3>2
  <2>9. /\ EndOfLinks(R, x) = Iterated(step, x, Cardinality(done))
        /\ EndOfLinks(T, x) = Iterated(other, x, Cardinality(after))
    BY DEF EndOfLinks
  <2>10. Iterated(step, x, Cardinality(done)) \in done
    <3>. HIDE DEF step, done, x
    <3>. QED BY <2>1, <2>4, <2>5, IteratedStays
  <2>11. ~row.frozen /\ ~new.frozen /\ new.original = x BY <1>4 DEF Follows
  <2>. DEFINE e == EndOfLinks(R, x)
  <2>12. Effective(R, row) = R[e] /\ ~Follows(R[e])
    BY <1>1, <1>4, <2>1, <2>11 DEF Effective
  <2>13. e \in F BY <2>9, <2>10, <2>12
  <2>14. EndOfLinks(T, x) = e
    <3>. HIDE DEF step, other, done, after, x, F
    <3>. QED BY <2>1, <2>4, <2>5, <2>6, <2>8, <2>9, <2>13, IteratedAgrees
  <2>15. e \in done BY <2>13
  <2>. HIDE DEF e
  <2>16. x \in DOMAIN T /\ T[x].status = "completed" BY <2>1
  <2>17. ~Follows(T[e]) BY <2>7, <2>12, <2>15
  <2>18. Effective(T, new) = T[e]
    <3>. HIDE DEF x, done, after
    <3>. QED BY <1>2, <1>4, <2>11, <2>14, <2>16, <2>17 DEF Effective
  <2>19. T[e].origin = R[e].origin /\ T[e].result = R[e].result BY <2>15
  <2>. QED BY <1>1, <2>12, <2>18, <2>19 DEF Resolves
<1>. QED BY <1>3, <1>4

\* Fresh identifiers are as many as they have to be, one after the other.
LEMMA FreshIds ==
  ASSUME NEW ids, IsFiniteSet(ids), NEW n \in Nat
  PROVE  /\ Fresh(ids, n) \in [ids -> n..(n + Cardinality(ids) - 1)]
         /\ {Fresh(ids, n)[i] : i \in ids} = n..(n + Cardinality(ids) - 1)
         /\ \A i, j \in ids : Fresh(ids, n)[i] = Fresh(ids, n)[j] => i = j
<1>. DEFINE c == Cardinality(ids)
            s == SetToSeq(ids)
            at(i) == CHOOSE k \in DOMAIN s : s[k] = i
<1>1. c \in Nat /\ ExistsBijection(1..c, ids) BY FS_CardinalityType
<1>2. s \in [1..c -> ids] /\ IsInjective(s)
  <2>1. PICK f \in Bijection(1..c, ids) : TRUE BY <1>1 DEF ExistsBijection
  <2>2. f \in [1..c -> ids] /\ IsInjective(f)
    BY <2>1 DEF Bijection, Injection, IsInjective
  <2>. QED BY <2>2 DEF SetToSeq
<1>3. s \in Injection(1..c, ids) BY <1>2 DEF Injection
<1>4. Cardinality(1..c) = c BY <1>1, FS_Interval
<1>5. s \in Surjection(1..c, ids)
  <2>. HIDE DEF s
  <2>. QED BY <1>3, <1>4, FS_Injection
<1>. HIDE DEF s, c
<1>6. \A i \in ids : at(i) \in 1..c /\ s[at(i)] = i
  BY <1>2, <1>5 DEF Surjection
<1>7. \A k \in 1..c : s[k] \in ids /\ at(s[k]) = k
  BY <1>2, <1>6 DEF IsInjective
<1>8. Fresh(ids, n) = [i \in ids |-> n + at(i) - 1] BY DEF Fresh, s
<1>. HIDE DEF at
<1>9. Fresh(ids, n) \in [ids -> n..(n + c - 1)] BY <1>1, <1>6, <1>8
<1>10. ASSUME NEW m \in n..(n + c - 1) PROVE \E i \in ids : Fresh(ids, n)[i] = m
  <2>1. (m - n) + 1 \in 1..c BY <1>1
  <2>2. s[(m - n) + 1] \in ids /\ at(s[(m - n) + 1]) = (m - n) + 1 BY <1>7, <2>1
  <2>. QED BY <1>8, <2>2
<1>11. ASSUME NEW i \in ids, NEW j \in ids, Fresh(ids, n)[i] = Fresh(ids, n)[j] PROVE i = j
  <2>1. at(i) \in 1..c /\ at(j) \in 1..c /\ n + at(i) - 1 = n + at(j) - 1 BY <1>6, <1>8, <1>11
  <2>2. at(i) = at(j) BY <2>1
  <2>. QED BY <1>6, <2>2
<1>. QED BY <1>9, <1>10, <1>11 DEF c
=============================================================================
