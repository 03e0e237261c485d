-------------------------- MODULE Submission_proofs --------------------------
(* Proofs about Submission, for any libraries of forests, any arrays, and any  *)
(* number of sessions and keys.                                                *)
EXTENDS Submission, TaskTrees_proofs

-----------------------------------------------------------------------------
(* Tables.  A table grows by whole trees, and nothing that is completed or that *)
(* says how rows hang together changes.                                         *)

Above(R) == [i \in DOMAIN R |-> {R[i].parent} \cap DOMAIN R]
Needs(R) == [i \in DOMAIN R |-> R[i].deps]

Shape(R) ==
  /\ IsFiniteSet(DOMAIN R) /\ R = [i \in DOMAIN R |-> R[i]]
  /\ \A i \in DOMAIN R :
       /\ R[i] = [column \in Columns |-> R[i][column]]
       /\ R[i].deps \subseteq DOMAIN R /\ R[i].tree \in DOMAIN R
       /\ R[i].parent \in DOMAIN R \cup {NoTask}
       /\ R[i].parent = NoTask => R[i].tree = i

\* A forest, in terms of what proofs about it use.
LEMMA ForestFounded ==
  ASSUME NEW R
  PROVE  Forest(R) <=> Shape(R) /\ Founded(Above(R)) /\ Founded(Needs(R))
<1>1. Forest(R) <=> Shape(R) /\ Acyclic(Above(R)) /\ Acyclic(Needs(R))
  BY DEF Forest, Shape, Above, Needs
<1>2. ASSUME Shape(R)
      PROVE  (Acyclic(Above(R)) <=> Founded(Above(R))) /\ (Acyclic(Needs(R)) <=> Founded(Needs(R)))
  <2>1. DOMAIN Above(R) = DOMAIN R /\ DOMAIN Needs(R) = DOMAIN R BY DEF Above, Needs
  <2>2. \A i \in DOMAIN R : Above(R)[i] \subseteq DOMAIN R /\ Needs(R)[i] \subseteq DOMAIN R
    BY <1>2 DEF Above, Needs, Shape
  <2>3. IsFiniteSet(DOMAIN R) BY <1>2 DEF Shape
  <2>. QED BY <2>1, <2>2, <2>3, FoundedIsAcyclic, AcyclicIsFounded
<1>. QED BY <1>1, <1>2

\* What one table has, the other has; what is new hangs below nothing old.
LEMMA ForestJoins ==
  ASSUME NEW R, NEW N, Forest(R), Forest(N), DOMAIN N \cap DOMAIN R = {}, NoTask \notin DOMAIN N \cup DOMAIN R
  PROVE  Forest(Over(N, R))
<1>. DEFINE T == Over(N, R)
<1>1. Shape(R) /\ Shape(N) BY ForestFounded
<1>2. /\ DOMAIN T = DOMAIN N \cup DOMAIN R /\ T = [i \in DOMAIN T |-> T[i]]
      /\ \A i \in DOMAIN N : T[i] = N[i]
      /\ \A i \in DOMAIN R : T[i] = R[i]
  BY DEF Over
<1>. HIDE DEF T
<1>3. IsFiniteSet(DOMAIN T)
  <2>1. IsFiniteSet(DOMAIN N) /\ IsFiniteSet(DOMAIN R) BY <1>1 DEF Shape
  <2>2. IsFiniteSet(DOMAIN N \cup DOMAIN R) BY <2>1, FS_Union
  <2>. QED BY <1>2, <2>2
<1>4. Shape(T)
  <2>1. \A i \in DOMAIN T : i \in DOMAIN N \/ i \in DOMAIN R BY <1>2
  <2>2. ASSUME NEW i \in DOMAIN T
        PROVE  /\ T[i] = [column \in Columns |-> T[i][column]]
               /\ T[i].deps \subseteq DOMAIN T /\ T[i].tree \in DOMAIN T
               /\ T[i].parent \in DOMAIN T \cup {NoTask}
               /\ T[i].parent = NoTask => T[i].tree = i
    <3>1. CASE i \in DOMAIN N BY <1>1, <1>2, <3>1 DEF Shape
    <3>2. CASE i \in DOMAIN R BY <1>1, <1>2, <3>2 DEF Shape
    <3>. QED BY <2>1, <3>1, <3>2
  <2>. QED BY <1>2, <1>3, <2>2 DEF Shape
<1>5. ASSUME NEW next, NEW f, NEW g, next = [i \in DOMAIN T |-> IF i \in DOMAIN N THEN f[i] ELSE g[i]],
             DOMAIN f = DOMAIN N, DOMAIN g = DOMAIN R, \A i \in DOMAIN N : f[i] \subseteq DOMAIN N,
             \A i \in DOMAIN R : g[i] \subseteq DOMAIN R, Founded(f), Founded(g)
      PROVE  Founded(next)
  <2>1. DOMAIN N \in SUBSET DOMAIN next /\ DOMAIN next \ DOMAIN N = DOMAIN R BY <1>2, <1>5
  <2>2. \A i \in DOMAIN N : next[i] = f[i] BY <1>2, <1>5
  <2>3. \A i \in DOMAIN R : next[i] = g[i] BY <1>2, <1>5
  <2>4. \A z \in SUBSET DOMAIN N : z # {} => \E i \in z : next[i] \cap z = {}
    BY <1>5, <2>2 DEF Founded
  <2>5. \A z \in SUBSET DOMAIN R : z # {} => \E i \in z : next[i] \cap z = {}
    BY <1>5, <2>3 DEF Founded
  <2>6. \A i \in DOMAIN N : next[i] \subseteq DOMAIN N BY <1>5, <2>2
  <2>. QED BY <2>1, <2>4, <2>5, <2>6, FoundedJoins
<1>6. Founded(Above(T))
  <2>1. Above(T) = [i \in DOMAIN T |-> IF i \in DOMAIN N THEN Above(N)[i] ELSE Above(R)[i]]
    <3>1. ASSUME NEW i \in DOMAIN N PROVE {T[i].parent} \cap DOMAIN T = Above(N)[i]
      <4>1. T[i] = N[i] /\ N[i].parent \in DOMAIN N \cup {NoTask} BY <1>1, <1>2 DEF Shape
      <4>. QED BY <1>2, <4>1 DEF Above
    <3>2. ASSUME NEW i \in DOMAIN R PROVE {T[i].parent} \cap DOMAIN T = Above(R)[i]
      <4>1. T[i] = R[i] /\ R[i].parent \in DOMAIN R \cup {NoTask} BY <1>1, <1>2 DEF Shape
      <4>. QED BY <1>2, <4>1 DEF Above
    <3>. QED BY <1>2, <3>1, <3>2 DEF Above
  <2>2. DOMAIN Above(N) = DOMAIN N /\ DOMAIN Above(R) = DOMAIN R BY DEF Above
  <2>3. \A i \in DOMAIN N : Above(N)[i] \subseteq DOMAIN N BY DEF Above
  <2>4. \A i \in DOMAIN R : Above(R)[i] \subseteq DOMAIN R BY DEF Above
  <2>5. Founded(Above(N)) /\ Founded(Above(R)) BY ForestFounded
  <2>. QED BY <1>5, <2>1, <2>2, <2>3, <2>4, <2>5
<1>7. Founded(Needs(T))
  <2>1. Needs(T) = [i \in DOMAIN T |-> IF i \in DOMAIN N THEN Needs(N)[i] ELSE Needs(R)[i]]
    BY <1>2 DEF Needs
  <2>2. DOMAIN Needs(N) = DOMAIN N /\ DOMAIN Needs(R) = DOMAIN R BY DEF Needs
  <2>3. \A i \in DOMAIN N : Needs(N)[i] \subseteq DOMAIN N BY <1>1 DEF Needs, Shape
  <2>4. \A i \in DOMAIN R : Needs(R)[i] \subseteq DOMAIN R BY <1>1 DEF Needs, Shape
  <2>5. Founded(Needs(N)) /\ Founded(Needs(R)) BY ForestFounded
  <2>. QED BY <1>5, <2>1, <2>2, <2>3, <2>4, <2>5
<1>8. Forest(T) BY <1>4, <1>6, <1>7, ForestFounded
<1>. QED BY <1>8 DEF T

\* What does not concern parents, dependencies and trees.
LEMMA ForestMarked ==
  ASSUME NEW R, NEW T, Forest(R), DOMAIN T = DOMAIN R, T = [i \in DOMAIN T |-> T[i]],
         \A i \in DOMAIN R : /\ T[i] = [column \in Columns |-> T[i][column]]
                             /\ T[i].parent = R[i].parent /\ T[i].deps = R[i].deps
                             /\ T[i].tree = R[i].tree
  PROVE  Forest(T)
<1>1. Above(T) = Above(R) BY DEF Above
<1>2. Needs(T) = Needs(R) BY DEF Needs
<1>3. Shape(T) BY ForestFounded DEF Shape
<1>. QED BY <1>1, <1>2, <1>3, ForestFounded

-----------------------------------------------------------------------------
(* New rows. *)

\* The rows of an accepted array.
LEMMA CreatedForest ==
  ASSUME NEW def \in Definition, NEW n \in 1..MaxId, n + Len(def) - 1 <= MaxId, WellFormed(def, n)
  PROVE  LET new == CreatedRows(def, n)
         IN  /\ Forest(new) /\ DOMAIN new \subseteq 1..MaxId \cup GivenId
             /\ \A i \in DOMAIN new : /\ new[i].status = "pending" /\ new[i].run = NoTask
<1>. DEFINE ids == Identifiers(def, n)
            tasks == Resolved(def, n)
            I == {ids[k] : k \in DOMAIN def}
            new == CreatedRows(def, n)
<1>1. /\ Len(def) \in Nat /\ DOMAIN def = 1..Len(def)
      /\ \A k \in DOMAIN def : def[k].id \in GivenId \cup {NoTask}
  BY DefinitionAssumption
<1>2. \A k \in DOMAIN def : ids[k] \in 1..MaxId \cup GivenId
  <2>. SUFFICES ASSUME NEW k \in DOMAIN def PROVE ids[k] \in 1..MaxId \cup GivenId OBVIOUS
  <2>1. n + k - 1 \in 1..MaxId BY <1>1, SubmissionAssumption
  <2>2. ids[k] = IF def[k].id = NoTask THEN n + k - 1 ELSE def[k].id BY DEF Identifiers
  <2>. QED BY <1>1, <2>1, <2>2
<1>3. I \subseteq 1..MaxId \cup GivenId /\ NoTask \notin I
  <2>1. 1..MaxId \cup GivenId \subseteq Nat BY SubmissionAssumption
  <2>. QED BY <1>2, <2>1, SubmissionAssumption
<1>4. IsFiniteSet(I)
  <2>1. IsFiniteSet(DOMAIN def) BY <1>1, FS_Interval
  <2>. HIDE DEF ids
  <2>. DEFINE f == [k \in DOMAIN def |-> ids[k]]
  <2>2. f \in Surjection(DOMAIN def, I) BY DEF Surjection
  <2>. HIDE DEF I, f
  <2>. QED BY <2>1, <2>2, FS_Surjection
<1>5. DOMAIN tasks = I BY DEF Resolved
<1>6. \A ref : Meant(def, ids, ref) \in I \cup {NoTask}
  <2>. HIDE DEF ids
  <2>. QED BY DEF Meant
<1>7. ASSUME NEW i \in I
      PROVE  tasks[i].parent \in I \cup {NoTask} /\ tasks[i].deps \subseteq I
  <2>. DEFINE d == def[CHOOSE k \in DOMAIN def : ids[k] = i]
  <2>1. tasks[i] = [parent |-> Meant(def, ids, d.parent), deps |-> {Meant(def, ids, r) : r \in d.deps}]
    BY DEF Resolved
  <2>2. \E k \in DOMAIN def : d = def[k]
    <3>. HIDE DEF ids
    <3>. QED OBVIOUS
  <2>3. \A r \in d.deps : Meant(def, ids, r) # NoTask
    <3>. HIDE DEF d, ids
    <3>1. \A k \in DOMAIN def : \A r \in def[k].deps : Meant(def, ids, r) # NoTask
      BY DEF WellFormed, ids
    <3>. QED BY <2>2, <3>1
  <2>. HIDE DEF d, ids, tasks
  <2>. QED BY <1>6, <2>1, <2>3
<1>8. /\ ParentsAcyclic([i \in DOMAIN tasks |-> tasks[i].parent])
      /\ ~Circular(DependencyGraph(tasks))
  BY DEF WellFormed
<1>. HIDE DEF ids, tasks, I
<1>9. new = [i \in I |-> [NewRow("create", "given") EXCEPT
                            !.parent = tasks[i].parent, !.deps = tasks[i].deps,
                            !.tree = RootOf(tasks, i)]]
  BY <1>5 DEF CreatedRows, tasks
<1>10. ASSUME NEW i \in I
       PROVE  /\ new[i] = [column \in Columns |-> new[i][column]]
              /\ new[i].parent = tasks[i].parent /\ new[i].deps = tasks[i].deps
              /\ new[i].tree = RootOf(tasks, i)
              /\ new[i].status = "pending" /\ new[i].run = NoTask
  <2>. DEFINE t == RootOf(tasks, i)
              r == [NewRow("create", "given") EXCEPT
                      !.parent = tasks[i].parent, !.deps = tasks[i].deps, !.tree = t]
  <2>1. /\ r = [column \in Columns |-> r[column]]
        /\ r.parent = tasks[i].parent /\ r.deps = tasks[i].deps /\ r.tree = t
        /\ r.status = "pending" /\ r.run = NoTask
    <3>. HIDE DEF t
    <3>. QED BY DEF NewRow, Columns
  <2>2. new[i] = r BY <1>9
  <2>. HIDE DEF r, new
  <2>. QED BY <2>1, <2>2
<1>11. DOMAIN new = I /\ new = [i \in DOMAIN new |-> new[i]] BY <1>9
<1>. HIDE DEF new
<1>12. \A i \in I : RootOf(tasks, i) \in I BY <1>4, <1>5, RootExists
<1>13. \A i \in I : tasks[i].parent = NoTask => RootOf(tasks, i) = i
  BY <1>3, <1>4, <1>5, RootOfRoot
<1>14. Shape(new)
  BY <1>4, <1>7, <1>10, <1>11, <1>12, <1>13 DEF Shape
<1>15. Founded(Above(new))
  <2>. DEFINE parentOf == [i \in DOMAIN tasks |-> tasks[i].parent]
  <2>1. DOMAIN parentOf = I BY <1>5
  <2>2. Above(new) = [i \in DOMAIN parentOf |-> {parentOf[i]} \cap DOMAIN parentOf]
    BY <1>5, <1>10, <1>11 DEF Above
  <2>3. ParentsAcyclic(parentOf) BY <1>8
  <2>. HIDE DEF parentOf
  <2>. QED BY <1>3, <1>4, <2>1, <2>2, <2>3, ParentsFounded
<1>16. Founded(Needs(new))
  <2>. DEFINE g == DependencyGraph(tasks)
  <2>1. g = Needs(new)
    <3>1. \A i \in I : tasks[i].deps \cap I = new[i].deps BY <1>7, <1>10
    <3>. QED BY <1>5, <1>11, <3>1 DEF DependencyGraph, Needs
  <2>2. DOMAIN g = I /\ \A i \in I : g[i] \subseteq I BY <1>5 DEF DependencyGraph
  <2>3. ~Circular(g) BY <1>8
  <2>. HIDE DEF g
  <2>4. Founded(g) BY <1>4, <2>2, <2>3, CircularFounded
  <2>. QED BY <2>1, <2>4
<1>17. Forest(new) BY <1>14, <1>15, <1>16, ForestFounded
<1>. QED BY <1>3, <1>10, <1>11, <1>17 DEF new

\* The rows of a retry, each by the row it comes from.
Renamed(R, required, execute, top, new, map) ==
  /\ DOMAIN new = {map[i] : i \in required} /\ new = [i \in DOMAIN new |-> new[i]]
  /\ \A i, j \in required : map[i] = map[j] => i = j
  /\ \A i \in required :
       LET row == new[map[i]]
           reused == R[i].status = "completed" /\ i \notin execute
       IN  /\ row = [column \in Columns |-> row[column]]
           /\ row.source = i /\ row.tree = map[top] /\ row.run = map[top]
           /\ row.parent = (IF i = top THEN NoTask ELSE map[R[i].parent])
           /\ row.deps = {map[d] : d \in R[i].deps}
           /\ row.frozen = reused
           /\ row.status = (IF reused THEN "completed" ELSE "pending")
           /\ reused => row.result = Effective(R, R[i]).result

LEMMA RetryRowsAre ==
  ASSUME NEW R, NEW required, IsFiniteSet(required), NEW execute, NEW n \in Nat \ {0},
         NEW top \in required, \A i \in required : R[i].parent = NoTask <=> i = top
  PROVE  LET new == RetryRows(R, required, execute, n)
         IN  /\ DOMAIN new = n..(n + Cardinality(required) - 1)
             /\ Renamed(R, required, execute, top, new, Fresh(required, n))
<1>. DEFINE new == RetryRows(R, required, execute, n)
            map == Fresh(required, n)
            root == CHOOSE i \in required : R[i].parent = NoTask
            base(i) == [NewRow("copy", R[i].content) EXCEPT
                          !.source = i, !.run = map[root], !.tree = map[root],
                          !.original = IF R[i].original = NoTask THEN i ELSE R[i].original,
                          !.parent = IF i = root THEN NoTask ELSE map[R[i].parent],
                          !.deps = {map[d] : d \in R[i].deps}]
            reused(i) == R[i].status = "completed" /\ i \notin execute
            row(i) == IF reused(i)
                      THEN [base(i) EXCEPT !.origin = "link", !.status = "completed",
                                           !.result = Effective(R, R[i]).result, !.frozen = TRUE]
                      ELSE base(i)
<1>1. root = top OBVIOUS
<1>2. /\ map \in [required -> n..(n + Cardinality(required) - 1)]
      /\ {map[i] : i \in required} = n..(n + Cardinality(required) - 1)
      /\ \A i, j \in required : map[i] = map[j] => i = j
  BY FreshIds
<1>3. new = [m \in {map[i] : i \in required} |-> row(CHOOSE j \in required : map[j] = m)]
  BY DEF RetryRows
<1>. HIDE DEF map, root
<1>4. ASSUME NEW i \in required PROVE new[map[i]] = row(i)
  <2>1. (CHOOSE j \in required : map[j] = map[i]) = i BY <1>2
  <2>. HIDE DEF row, new
  <2>. QED BY <1>3, <2>1
<1>5. ASSUME NEW i \in required
      PROVE  /\ row(i) = [column \in Columns |-> row(i)[column]]
             /\ row(i).source = i /\ row(i).tree = map[root] /\ row(i).run = map[root]
             /\ row(i).parent = (IF i = root THEN NoTask ELSE map[R[i].parent])
             /\ row(i).deps = {map[d] : d \in R[i].deps}
             /\ row(i).frozen = reused(i)
             /\ row(i).status = (IF reused(i) THEN "completed" ELSE "pending")
             /\ reused(i) => row(i).result = Effective(R, R[i]).result
  <2>1. CASE reused(i)
    <3>. DEFINE r == [base(i) EXCEPT !.origin = "link", !.status = "completed",
                                     !.result = Effective(R, R[i]).result, !.frozen = TRUE]
    <3>1. row(i) = r BY <2>1
    <3>2. /\ r = [column \in Columns |-> r[column]]
          /\ r.source = i /\ r.tree = map[root] /\ r.run = map[root]
          /\ r.parent = (IF i = root THEN NoTask ELSE map[R[i].parent])
          /\ r.deps = {map[d] : d \in R[i].deps}
          /\ r.frozen = TRUE /\ r.status = "completed"
          /\ r.result = Effective(R, R[i]).result
      BY DEF NewRow, Columns
    <3>3. reused(i) \in BOOLEAN OBVIOUS
    <3>. HIDE DEF r, row, reused
    <3>. QED BY <2>1, <3>1, <3>2, <3>3
  <2>2. CASE ~reused(i)
    <3>1. row(i) = base(i) BY <2>2
    <3>2. /\ base(i) = [column \in Columns |-> base(i)[column]]
          /\ base(i).source = i /\ base(i).tree = map[root] /\ base(i).run = map[root]
          /\ base(i).parent = (IF i = root THEN NoTask ELSE map[R[i].parent])
          /\ base(i).deps = {map[d] : d \in R[i].deps}
          /\ base(i).frozen = FALSE /\ base(i).status = "pending"
      BY DEF NewRow, Columns
    <3>3. reused(i) \in BOOLEAN OBVIOUS
    <3>. HIDE DEF base, row, reused
    <3>. QED BY <2>2, <3>1, <3>2, <3>3
  <2>. QED BY <2>1, <2>2
<1>6. DOMAIN new = {map[i] : i \in required} /\ new = [i \in DOMAIN new |-> new[i]]
  <2>. HIDE DEF row
  <2>. QED BY <1>3
<1>. HIDE DEF new, row
<1>7. DOMAIN new = n..(n + Cardinality(required) - 1) BY <1>2, <1>6
<1>8. Renamed(R, required, execute, top, new, map)
  BY <1>1, <1>2, <1>4, <1>5, <1>6 DEF Renamed
<1>. QED BY <1>7, <1>8 DEF new, map

\* The rows of a retry are a tree: they hang together like the rows they come from.
LEMMA RetryForest ==
  ASSUME NEW R, Forest(R), NEW required \in SUBSET DOMAIN R, Enclosed(R, required),
         NEW top \in required, \A i \in required : R[i].parent = NoTask <=> i = top,
         NEW execute, NEW new, NEW map, Renamed(R, required, execute, top, new, map),
         IsFiniteSet(DOMAIN new), NoTask \notin DOMAIN new
  PROVE  Forest(new) /\ (\A i \in DOMAIN new : new[i].parent = NoTask <=> i = map[top])
<1>1. /\ DOMAIN new = {map[i] : i \in required} /\ new = [i \in DOMAIN new |-> new[i]]
      /\ \A i, j \in required : map[i] = map[j] => i = j
  BY DEF Renamed
<1>2. \A i \in required :
        /\ new[map[i]] = [column \in Columns |-> new[map[i]][column]]
        /\ new[map[i]].tree = map[top]
        /\ new[map[i]].parent = (IF i = top THEN NoTask ELSE map[R[i].parent])
        /\ new[map[i]].deps = {map[d] : d \in R[i].deps}
  BY DEF Renamed
<1>5. \A i \in required : R[i].deps \subseteq required /\ (i # top => R[i].parent \in required)
  BY DEF Enclosed
<1>6. \A i \in required : map[i] \in DOMAIN new BY <1>1
<1>7. Shape(new)
  <2>1. ASSUME NEW m \in DOMAIN new
        PROVE  /\ new[m] = [column \in Columns |-> new[m][column]]
               /\ new[m].deps \subseteq DOMAIN new /\ new[m].tree \in DOMAIN new
               /\ new[m].parent \in DOMAIN new \cup {NoTask}
               /\ new[m].parent = NoTask => new[m].tree = m
    <3>1. PICK i \in required : m = map[i] BY <1>1
    <3>2. new[m].deps \subseteq DOMAIN new
      <4>1. new[m].deps = {map[d] : d \in R[i].deps} BY <1>2, <3>1
      <4>2. \A d \in R[i].deps : map[d] \in DOMAIN new BY <1>5, <1>6
      <4>. QED BY <4>1, <4>2
    <3>3. i # top => new[m].parent \in DOMAIN new BY <1>2, <1>5, <1>6, <3>1
    <3>4. i = top => new[m].parent = NoTask /\ new[m].tree = m BY <1>2, <3>1
    <3>. QED BY <1>2, <1>6, <3>1, <3>2, <3>3, <3>4
  <2>. QED BY <1>1, <2>1 DEF Shape
<1>8. \A i \in required : new[map[i]].parent = NoTask <=> i = top
  <2>. SUFFICES ASSUME NEW i \in required, i # top PROVE new[map[i]].parent # NoTask BY <1>2
  <2>1. new[map[i]].parent = map[R[i].parent] BY <1>2
  <2>2. map[R[i].parent] \in DOMAIN new BY <1>5, <1>6
  <2>. QED BY <2>1, <2>2
<1>9. ASSUME NEW next, NEW old, DOMAIN next = DOMAIN new, DOMAIN old = DOMAIN R, Founded(old),
             \A i \in required : \A m \in next[map[i]] : \E j \in required : m = map[j] /\ j \in old[i]
      PROVE  Founded(next)
  <2>. SUFFICES ASSUME NEW z \in SUBSET DOMAIN next, z # {} PROVE \E m \in z : next[m] \cap z = {}
    BY DEF Founded
  <2>. DEFINE y == {i \in required : map[i] \in z}
  <2>1. y \in SUBSET DOMAIN old /\ y # {} BY <1>1, <1>9
  <2>2. PICK i \in y : old[i] \cap y = {} BY <1>9, <2>1 DEF Founded
  <2>3. next[map[i]] \cap z = {} BY <1>9, <2>2
  <2>. QED BY <2>2, <2>3
<1>10. Founded(Above(new))
  <2>1. ASSUME NEW i \in required, NEW m \in Above(new)[map[i]]
        PROVE  \E j \in required : m = map[j] /\ j \in Above(R)[i]
    <3>1. m = new[map[i]].parent /\ m \in DOMAIN new BY <1>6, <2>1 DEF Above
    <3>2. i # top BY <1>2, <3>1
    <3>3. m = map[R[i].parent] /\ R[i].parent \in required BY <1>2, <1>5, <3>1, <3>2
    <3>4. R[i].parent \in Above(R)[i] BY <3>3 DEF Above
    <3>. QED BY <3>3, <3>4
  <2>2. DOMAIN Above(new) = DOMAIN new /\ DOMAIN Above(R) = DOMAIN R BY DEF Above
  <2>3. Founded(Above(R)) BY ForestFounded
  <2>. QED BY <1>9, <2>1, <2>2, <2>3
<1>11. Founded(Needs(new))
  <2>1. ASSUME NEW i \in required, NEW m \in Needs(new)[map[i]]
        PROVE  \E j \in required : m = map[j] /\ j \in Needs(R)[i]
    <3>1. m \in {map[d] : d \in R[i].deps} BY <1>2, <1>6, <2>1 DEF Needs
    <3>2. PICK d \in R[i].deps : m = map[d] BY <3>1
    <3>3. d \in required /\ d \in Needs(R)[i] BY <1>5, <3>2 DEF Needs
    <3>. QED BY <3>2, <3>3
  <2>2. DOMAIN Needs(new) = DOMAIN new /\ DOMAIN Needs(R) = DOMAIN R BY DEF Needs
  <2>3. Founded(Needs(R)) BY ForestFounded
  <2>. QED BY <1>9, <2>1, <2>2, <2>3
<1>12. Forest(new) BY <1>7, <1>10, <1>11, ForestFounded
<1>13. \A m \in DOMAIN new : new[m].parent = NoTask <=> m = map[top]
  <2>. SUFFICES ASSUME NEW m \in DOMAIN new PROVE new[m].parent = NoTask <=> m = map[top] OBVIOUS
  <2>1. PICK i \in required : m = map[i] BY <1>1
  <2>. QED BY <1>1, <1>8, <2>1
<1>. QED BY <1>12, <1>13

-----------------------------------------------------------------------------
(* Retries. *)

\* What a retry selects.
LEMMA SelectedNodes ==
  ASSUME NEW R, NEW nodes, IsFiniteSet(nodes), NEW chosen \in SUBSET nodes
  PROVE  LET required == Selected(R, nodes, chosen)
         IN  /\ required \subseteq nodes /\ chosen \subseteq required
             /\ chosen = {} => required = nodes
             /\ \A i \in nodes : R[i].deps \cap chosen # {} => i \in required
<1>. DEFINE up == [i \in nodes |-> (R[i].deps \cup {R[i].parent}) \cap nodes]
            down == Dependents(R, nodes)
            s == Reached(down, chosen)
            required == Selected(R, nodes, chosen)
<1>1. CASE chosen = {}
  BY <1>1 DEF Selected
<1>2. CASE chosen # {}
  <2>1. required = Reached(up, s) BY <1>2 DEF Selected
  <2>2. DOMAIN down = nodes /\ \A i \in nodes : down[i] = {j \in nodes : i \in R[j].deps}
    BY DEF Dependents
  <2>3. DOMAIN up = nodes /\ \A i \in nodes : up[i] \subseteq nodes OBVIOUS
  <2>. HIDE DEF down, up
  <2>4. chosen \subseteq s /\ s \subseteq nodes /\ Closed(down, s) BY <2>2, ReachedClosed
  <2>. HIDE DEF s
  <2>5. s \subseteq required /\ required \subseteq nodes BY <2>1, <2>3, <2>4, ReachedClosed
  <2>. HIDE DEF required
  <2>6. \A i \in nodes : R[i].deps \cap chosen # {} => i \in s BY <2>2, <2>4 DEF Closed
  <2>7. /\ required \subseteq nodes /\ chosen \subseteq required
        /\ \A i \in nodes : R[i].deps \cap chosen # {} => i \in required
    BY <2>4, <2>5, <2>6
  <2>. QED BY <1>2, <2>7 DEF required
<1>. QED BY <1>1, <1>2

\* What a retry executes again: what did not complete, what was chosen, and what depends
\* on something that is executed again.
LEMMA ExecutedNodes ==
  ASSUME NEW R, NEW required, IsFiniteSet(required), NEW chosen \in SUBSET required
  PROVE  LET execute == ExecutedAgain(R, required, chosen)
         IN  /\ chosen \subseteq execute /\ execute \subseteq required
             /\ \A i \in required : R[i].status # "completed" => i \in execute
             /\ \A i \in required : R[i].deps \cap execute # {} => i \in execute
             /\ \A i \in execute : R[i].status = "completed" /\ i \notin chosen =>
                  R[i].deps \cap execute # {}
<1>. DEFINE down == Dependents(R, required)
            s == {i \in required : R[i].status # "completed"} \cup chosen
            execute == ExecutedAgain(R, required, chosen)
<1>1. execute = Reached(down, s) BY DEF ExecutedAgain
<1>2. DOMAIN down = required /\ \A i \in required : down[i] = {j \in required : i \in R[j].deps}
  BY DEF Dependents
<1>3. s \subseteq required OBVIOUS
<1>. HIDE DEF down, execute
<1>4. s \subseteq execute /\ execute \subseteq required /\ Closed(down, execute)
  <2>. HIDE DEF s
  <2>. QED BY <1>1, <1>2, <1>3, ReachedClosed
<1>5. \A i \in required : R[i].deps \cap execute # {} => i \in execute
  BY <1>2, <1>4 DEF Closed
<1>6. ASSUME NEW i \in execute, R[i].status = "completed", i \notin chosen, R[i].deps \cap execute = {}
      PROVE  FALSE
  <2>. DEFINE c == execute \ {i}
  <2>1. c \subseteq DOMAIN down /\ s \subseteq c BY <1>2, <1>4, <1>6
  <2>2. Closed(down, c)
    <3>. SUFFICES ASSUME NEW j \in c, NEW k \in down[j] PROVE k \in c BY DEF Closed
    <3>1. k \in execute /\ j \in execute /\ j \in R[k].deps BY <1>2, <1>4 DEF Closed
    <3>2. k # i BY <1>6, <3>1
    <3>. QED BY <3>1, <3>2
  <2>3. execute \subseteq c
    <3>. HIDE DEF c, s
    <3>. QED BY <1>1, <1>2, <2>1, <2>2, ReachedLeast
  <2>. QED BY <2>3
<1>. QED BY <1>4, <1>5, <1>6 DEF execute

\* RetriesAreSound and Derived of one retry: its nodes in the table R, the nodes and the
\* status of the run it was derived from, and what its receipt says was asked for.
SoundRetry(R, nodes, all, status, asked) ==
  /\ status \in Unsuccessful
  /\ \A i \in nodes : R[i].source \in all
  /\ \A i \in nodes : R[i].frozen =>
       /\ R[i].status = "completed" /\ Resolves(R, R[R[i].source])
       /\ \A d \in R[i].deps : R[d].frozen
       /\ R[R[i].source].status = "completed"
       /\ R[i].result = Effective(R, R[R[i].source]).result
       /\ R[i].source \notin asked.chosen
  /\ \A i \in nodes : ~R[i].frozen /\ R[R[i].source].status = "completed" =>
       \/ R[i].source \in asked.chosen
       \/ \E d \in R[i].deps : ~R[d].frozen
  /\ LET sources == {R[i].source : i \in nodes}
     IN  /\ \A i \in sources : (R[i].deps \cup {R[i].parent}) \cap all \subseteq sources
         /\ \A i \in all : R[i].deps \cap asked.chosen # {} => i \in sources
  /\ status = "reconciliation_required" => asked.safe

\* A table that another one has become: rows were added or completed.
Grown(R, T) ==
  /\ DOMAIN R \subseteq DOMAIN T
  /\ \A i \in DOMAIN R :
       /\ T[i].parent = R[i].parent /\ T[i].deps = R[i].deps /\ T[i].tree = R[i].tree
       /\ T[i].origin = R[i].origin /\ T[i].original = R[i].original
       /\ T[i].source = R[i].source /\ T[i].frozen = R[i].frozen
       /\ R[i].status = "completed" => T[i].status = "completed" /\ T[i].result = R[i].result

Untouched(R, T, nodes) ==
  \A i \in nodes : T[i].status = R[i].status /\ T[i].result = R[i].result

\* A sound retry stays one while the run it was derived from is not touched.
LEMMA RetryStaysSound ==
  ASSUME NEW R, NEW T, IsFiniteSet(DOMAIN R), IsFiniteSet(DOMAIN T), Grown(R, T),
         NEW nodes \in SUBSET DOMAIN R, NEW all \in SUBSET DOMAIN R, Untouched(R, T, all),
         \A i \in nodes : R[i].deps \subseteq DOMAIN R,
         NEW status, NEW asked, SoundRetry(R, nodes, all, status, asked)
  PROVE  SoundRetry(T, nodes, all, status, asked)
<1>1. \A i \in DOMAIN R :
        /\ T[i].parent = R[i].parent /\ T[i].deps = R[i].deps
        /\ T[i].origin = R[i].origin /\ T[i].original = R[i].original
        /\ T[i].source = R[i].source /\ T[i].frozen = R[i].frozen
        /\ R[i].status = "completed" => T[i].status = "completed" /\ T[i].result = R[i].result
  BY DEF Grown
<1>2. DOMAIN R \subseteq DOMAIN T BY DEF Grown
<1>3. status \in Unsuccessful /\ (status = "reconciliation_required" => asked.safe)
  BY DEF SoundRetry
<1>4. \A i \in nodes : i \in DOMAIN R /\ T[i].source = R[i].source /\ R[i].source \in all
  BY <1>1 DEF SoundRetry
<1>5. ASSUME NEW i \in nodes, T[i].frozen
      PROVE  /\ T[i].status = "completed" /\ Resolves(T, T[T[i].source])
             /\ \A d \in T[i].deps : T[d].frozen
             /\ T[T[i].source].status = "completed"
             /\ T[i].result = Effective(T, T[T[i].source]).result
             /\ T[i].source \notin asked.chosen
  <2>1. i \in DOMAIN R /\ R[i].frozen BY <1>1, <1>5
  <2>2. /\ R[i].status = "completed" /\ Resolves(R, R[R[i].source])
        /\ \A d \in R[i].deps : R[d].frozen
        /\ R[R[i].source].status = "completed"
        /\ R[i].result = Effective(R, R[R[i].source]).result
        /\ R[i].source \notin asked.chosen
    BY <2>1 DEF SoundRetry
  <2>. DEFINE j == R[i].source
  <2>3. j \in all /\ j \in DOMAIN R /\ T[i].source = j BY <1>4
  <2>. HIDE DEF j
  <2>4. /\ T[j].origin = R[j].origin /\ T[j].original = R[j].original /\ T[j].frozen = R[j].frozen
        /\ T[j].status = R[j].status /\ T[j].result = R[j].result
    BY <1>1, <2>3 DEF Untouched
  <2>5. Resolves(R, R[j]) BY <2>2 DEF j
  <2>6. Resolves(T, T[j]) /\ Effective(T, T[j]).result = Effective(R, R[j]).result
    BY <1>1, <1>2, <2>4, <2>5, EffectiveStays
  <2>7. \A d \in T[i].deps : T[d].frozen
    <3>1. T[i].deps = R[i].deps /\ R[i].deps \subseteq DOMAIN R BY <1>1, <2>1
    <3>. QED BY <1>1, <2>2, <3>1
  <2>8. T[i].status = "completed" /\ T[i].result = R[i].result BY <1>1, <2>1, <2>2
  <2>9. T[j].status = "completed" /\ j \notin asked.chosen /\ R[i].result = Effective(R, R[j]).result
    BY <2>2, <2>4 DEF j
  <2>. QED BY <2>3, <2>6, <2>7, <2>8, <2>9
<1>6. ASSUME NEW i \in nodes, ~T[i].frozen, T[T[i].source].status = "completed"
      PROVE  T[i].source \in asked.chosen \/ \E d \in T[i].deps : ~T[d].frozen
  <2>1. ~R[i].frozen /\ R[R[i].source].status = "completed"
    BY <1>1, <1>4, <1>6 DEF Untouched
  <2>2. R[i].source \in asked.chosen \/ \E d \in R[i].deps : ~R[d].frozen
    BY <2>1 DEF SoundRetry
  <2>3. T[i].deps = R[i].deps /\ R[i].deps \subseteq DOMAIN R BY <1>1
  <2>. QED BY <1>1, <1>4, <2>2, <2>3
<1>. DEFINE sources == {R[i].source : i \in nodes}
<1>7. {T[i].source : i \in nodes} = sources BY <1>4
<1>8. sources \subseteq DOMAIN R BY <1>4
<1>9. /\ \A i \in sources : (R[i].deps \cup {R[i].parent}) \cap all \subseteq sources
      /\ \A i \in all : R[i].deps \cap asked.chosen # {} => i \in sources
  BY DEF SoundRetry
<1>. HIDE DEF sources
<1>10. /\ \A i \in sources : (T[i].deps \cup {T[i].parent}) \cap all \subseteq sources
       /\ \A i \in all : T[i].deps \cap asked.chosen # {} => i \in sources
  BY <1>1, <1>8, <1>9
<1>11. \A i \in nodes : T[i].source \in all BY <1>4
<1>. QED BY <1>3, <1>5, <1>6, <1>7, <1>10, <1>11 DEF SoundRetry

\* What _derive_run creates from a run that has ended is a sound retry.
LEMMA RetryIsSound ==
  ASSUME NEW R, NEW T, IsFiniteSet(DOMAIN R), IsFiniteSet(DOMAIN T), Grown(R, T),
         NEW all \in SUBSET DOMAIN R, Untouched(R, T, all), NoTask \notin all,
         NEW asked, asked.chosen \subseteq all,
         NEW required, required = Selected(R, all, asked.chosen), Enclosed(R, required),
         NEW execute, execute = ExecutedAgain(R, required, asked.chosen),
         \A i \in required \ execute : Resolves(R, R[i]),
         NEW top \in required,
         NEW new, NEW map, Renamed(R, required, execute, top, new, map),
         DOMAIN new \subseteq DOMAIN T, \A i \in DOMAIN new : T[i] = new[i],
         NEW status \in Unsuccessful, status = "reconciliation_required" => asked.safe
  PROVE  SoundRetry(T, DOMAIN new, all, status, asked)
<1>1. IsFiniteSet(all) BY FS_Subset
<1>2. /\ required \subseteq all /\ asked.chosen \subseteq required
      /\ \A i \in all : R[i].deps \cap asked.chosen # {} => i \in required
  BY <1>1, SelectedNodes
<1>3. IsFiniteSet(required) BY <1>1, <1>2, FS_Subset
<1>4. /\ asked.chosen \subseteq execute /\ execute \subseteq required
      /\ \A i \in required : R[i].status # "completed" => i \in execute
      /\ \A i \in required : R[i].deps \cap execute # {} => i \in execute
      /\ \A i \in execute : R[i].status = "completed" /\ i \notin asked.chosen =>
           R[i].deps \cap execute # {}
  BY <1>2, <1>3, ExecutedNodes
<1>5. \A i \in required : R[i].deps \subseteq required /\ R[i].parent \in required \cup {NoTask}
  BY DEF Enclosed
<1>6. DOMAIN new = {map[i] : i \in required} /\ \A i \in required : map[i] \in DOMAIN new
  BY DEF Renamed
<1>7. \A i \in required :
        LET reused == R[i].status = "completed" /\ i \notin execute
        IN  /\ T[map[i]].source = i /\ T[map[i]].deps = {map[d] : d \in R[i].deps}
            /\ T[map[i]].frozen = reused
            /\ T[map[i]].status = (IF reused THEN "completed" ELSE "pending")
            /\ reused => T[map[i]].result = Effective(R, R[i]).result
  <2>1. \A i \in required : T[map[i]] = new[map[i]] BY <1>6
  <2>2. \A i \in required :
          LET reused == R[i].status = "completed" /\ i \notin execute
          IN  /\ new[map[i]].source = i /\ new[map[i]].deps = {map[d] : d \in R[i].deps}
              /\ new[map[i]].frozen = reused
              /\ new[map[i]].status = (IF reused THEN "completed" ELSE "pending")
              /\ reused => new[map[i]].result = Effective(R, R[i]).result
    BY DEF Renamed
  <2>. QED BY <2>1, <2>2
<1>8. \A i \in required :
        /\ i \in DOMAIN R
        /\ T[i].deps = R[i].deps /\ T[i].parent = R[i].parent
        /\ T[i].origin = R[i].origin /\ T[i].original = R[i].original /\ T[i].frozen = R[i].frozen
        /\ T[i].status = R[i].status /\ T[i].result = R[i].result
  BY <1>2 DEF Grown, Untouched
<1>9. ASSUME NEW m \in DOMAIN new, T[m].frozen
      PROVE  /\ T[m].status = "completed" /\ Resolves(T, T[T[m].source])
             /\ \A d \in T[m].deps : T[d].frozen
             /\ T[T[m].source].status = "completed"
             /\ T[m].result = Effective(T, T[T[m].source]).result
             /\ T[m].source \notin asked.chosen
  <2>1. PICK i \in required : m = map[i] BY <1>6
  <2>2. R[i].status = "completed" /\ i \notin execute BY <1>7, <1>9, <2>1
  <2>3. Resolves(R, R[i]) BY <2>2
  <2>4. /\ DOMAIN R \subseteq DOMAIN T
        /\ \A j \in DOMAIN R : /\ T[j].origin = R[j].origin /\ T[j].original = R[j].original
                               /\ T[j].frozen = R[j].frozen
                               /\ R[j].status = "completed" =>
                                    T[j].status = "completed" /\ T[j].result = R[j].result
    BY DEF Grown
  <2>5. Resolves(T, T[i]) /\ Effective(T, T[i]).result = Effective(R, R[i]).result
    <3>1. /\ T[i].origin = R[i].origin /\ T[i].original = R[i].original /\ T[i].frozen = R[i].frozen
          /\ T[i].status = R[i].status /\ T[i].result = R[i].result
      BY <1>8
    <3>. DEFINE row == R[i]
                kept == T[i]
    <3>2. Resolves(R, row) BY <2>3
    <3>3. /\ kept.origin = row.origin /\ kept.original = row.original /\ kept.frozen = row.frozen
          /\ kept.status = row.status /\ kept.result = row.result
      BY <3>1
    <3>. HIDE DEF row, kept
    <3>4. Resolves(T, kept) /\ Effective(T, kept).result = Effective(R, row).result
      BY <2>4, <3>2, <3>3, EffectiveStays
    <3>. QED BY <3>4 DEF row, kept
  <2>6. \A d \in T[m].deps : T[d].frozen
    <3>. SUFFICES ASSUME NEW e \in T[m].deps PROVE T[e].frozen OBVIOUS
    <3>1. PICK d \in R[i].deps : e = map[d] BY <1>7, <2>1
    <3>2. d \in required /\ d \notin execute BY <1>4, <1>5, <2>2, <3>1
    <3>3. R[d].status = "completed" BY <1>4, <3>2
    <3>. QED BY <1>7, <3>1, <3>2, <3>3
  <2>. QED BY <1>4, <1>7, <1>8, <2>1, <2>2, <2>5, <2>6
<1>10. ASSUME NEW m \in DOMAIN new, ~T[m].frozen, T[T[m].source].status = "completed"
       PROVE  T[m].source \in asked.chosen \/ \E d \in T[m].deps : ~T[d].frozen
  <2>1. PICK i \in required : m = map[i] BY <1>6
  <2>2. T[m].source = i /\ R[i].status = "completed" BY <1>7, <1>8, <1>10, <2>1
  <2>3. i \in execute BY <1>7, <1>10, <2>1, <2>2
  <2>4. CASE i \notin asked.chosen
    <3>1. PICK d \in R[i].deps : d \in execute BY <1>4, <2>2, <2>3, <2>4
    <3>2. d \in required BY <1>5, <3>1
    <3>3. ~T[map[d]].frozen BY <1>7, <3>1, <3>2
    <3>4. map[d] \in T[m].deps BY <1>7, <2>1, <3>1
    <3>. QED BY <3>3, <3>4
  <2>. QED BY <2>2, <2>4
<1>11. {T[m].source : m \in DOMAIN new} = required
  BY <1>6, <1>7
<1>12. \A m \in DOMAIN new : T[m].source \in all BY <1>2, <1>6, <1>7
<1>13. \A i \in required : (T[i].deps \cup {T[i].parent}) \cap all \subseteq required
  BY <1>5, <1>8
<1>14. ASSUME NEW i \in all, T[i].deps \cap asked.chosen # {} PROVE i \in required
  <2>1. T[i].deps = R[i].deps BY DEF Grown
  <2>. QED BY <1>2, <1>14, <2>1
<1>. QED BY <1>9, <1>10, <1>11, <1>12, <1>13, <1>14 DEF SoundRetry

-----------------------------------------------------------------------------
(* The invariant, in terms of what its proof uses. *)

RetriesHold ==
  \A r \in DOMAIN runs : IsRetry(r) =>
    \E k \in DOMAIN receipts :
      /\ receipts[k].ids = runs[r].nodes
      /\ SoundRetry(rows, runs[r].nodes, runs[runs[r].retryOf].nodes,
                    runs[runs[r].retryOf].status, receipts[k].content)

TableOK == TypeOK /\ Forest(rows) /\ Recorded /\ RetriesHold
RequestsOK == req = [s \in Session |-> req[s]] /\ \A s \in Session : req[s] = Idle \/ Serves(s)

\* The receipt of a retry is the one that its root belongs to.
LEMMA RetriesFold ==
  TypeOK /\ Recorded => (RetriesHold <=> (\A r \in DOMAIN runs : IsRetry(r) => Derived(r)) /\ RetriesAreSound)
<1>. SUFFICES ASSUME TypeOK, Recorded
              PROVE  RetriesHold <=> (\A r \in DOMAIN runs : IsRetry(r) => Derived(r)) /\ RetriesAreSound
  OBVIOUS
<1>1. ASSUME NEW r \in DOMAIN runs, NEW k \in DOMAIN receipts, receipts[k].ids = runs[r].nodes
      PROVE  RetryContent(r) = receipts[k].content
  <2>1. r \in receipts[k].ids
    <3>1. r \in DOMAIN rows /\ rows[r].parent = NoTask /\ runs[r].nodes = AllInTree(rows, r)
      BY DEF TypeOK, Recorded
    <3>. QED BY <1>1, <3>1 DEF AllInTree
  <2>2. \A j \in DOMAIN receipts : r \in receipts[j].ids => j = k
    BY <2>1 DEF Recorded, NothingIsStray
  <2>3. (CHOOSE j \in DOMAIN receipts : r \in receipts[j].ids) = k BY <2>1, <2>2
  <2>. QED BY <2>3 DEF RetryContent
<1>2. ASSUME RetriesHold
      PROVE  (\A r \in DOMAIN runs : IsRetry(r) => Derived(r)) /\ RetriesAreSound
  <2>1. ASSUME NEW r \in DOMAIN runs, IsRetry(r)
        PROVE  /\ \E k \in DOMAIN receipts : receipts[k].ids = runs[r].nodes
               /\ SoundRetry(rows, runs[r].nodes, runs[runs[r].retryOf].nodes,
                             runs[runs[r].retryOf].status, RetryContent(r))
    BY <1>1, <1>2, <2>1 DEF RetriesHold
  <2>2. \A r \in DOMAIN runs : IsRetry(r) => Derived(r) BY <2>1 DEF Derived, SoundRetry
  <2>3. ReusedOnReused BY <2>1 DEF ReusedOnReused, SoundRetry
  <2>4. RetryIsMinimal BY <2>1 DEF RetryIsMinimal, SoundRetry
  <2>5. RetryIsClosed BY <2>1 DEF RetryIsClosed, SoundRetry
  <2>6. UncertainIsAuthorized BY <2>1 DEF UncertainIsAuthorized, SoundRetry
  <2>. QED BY <2>2, <2>3, <2>4, <2>5, <2>6 DEF RetriesAreSound
<1>3. ASSUME \A r \in DOMAIN runs : IsRetry(r) => Derived(r), RetriesAreSound
      PROVE  RetriesHold
  <2>. SUFFICES ASSUME NEW r \in DOMAIN runs, IsRetry(r)
                PROVE  \E k \in DOMAIN receipts :
                         /\ receipts[k].ids = runs[r].nodes
                         /\ SoundRetry(rows, runs[r].nodes, runs[runs[r].retryOf].nodes,
                                       runs[runs[r].retryOf].status, receipts[k].content)
    BY DEF RetriesHold
  <2>1. PICK k \in DOMAIN receipts : receipts[k].ids = runs[r].nodes BY <1>3 DEF Derived
  <2>2. RetryContent(r) = receipts[k].content BY <1>1, <2>1
  <2>3. SoundRetry(rows, runs[r].nodes, runs[runs[r].retryOf].nodes,
                   runs[runs[r].retryOf].status, RetryContent(r))
    <3>1. /\ runs[runs[r].retryOf].status \in Unsuccessful
          /\ \A i \in runs[r].nodes :
               /\ rows[i].source \in runs[runs[r].retryOf].nodes
               /\ rows[i].frozen => rows[i].status = "completed" /\ Resolves(rows, rows[rows[i].source])
      BY <1>3 DEF Derived
    <3>2. \A i \in runs[r].nodes : rows[i].frozen =>
            /\ \A d \in rows[i].deps : rows[d].frozen
            /\ rows[rows[i].source].status = "completed"
            /\ rows[i].result = Effective(rows, rows[rows[i].source]).result
            /\ rows[i].source \notin RetryContent(r).chosen
      BY <1>3 DEF RetriesAreSound, ReusedOnReused
    <3>3. \A i \in runs[r].nodes :
            ~rows[i].frozen /\ rows[rows[i].source].status = "completed" =>
              \/ rows[i].source \in RetryContent(r).chosen
              \/ \E d \in rows[i].deps : ~rows[d].frozen
      BY <1>3 DEF RetriesAreSound, RetryIsMinimal
    <3>4. LET sources == {rows[i].source : i \in runs[r].nodes}
              all == runs[runs[r].retryOf].nodes
          IN  /\ \A i \in sources : (rows[i].deps \cup {rows[i].parent}) \cap all \subseteq sources
              /\ \A i \in all : rows[i].deps \cap RetryContent(r).chosen # {} => i \in sources
      BY <1>3 DEF RetriesAreSound, RetryIsClosed
    <3>5. runs[runs[r].retryOf].status = "reconciliation_required" => RetryContent(r).safe
      BY <1>3 DEF RetriesAreSound, UncertainIsAuthorized
    <3>. QED BY <3>1, <3>2, <3>3, <3>4, <3>5 DEF SoundRetry
  <2>. QED BY <2>1, <2>2, <2>3
<1>. QED BY <1>2, <1>3

LEMMA InvariantParts == SubmissionInv <=> TableOK /\ RequestsOK
  BY RetriesFold DEF SubmissionInv, TableOK, RequestsOK

-----------------------------------------------------------------------------
(* Steps. *)

\* What no step undoes: a run keeps its nodes, a receipt stays as it is, and the nodes of
\* a run that has ended are not touched.
Evolves ==
  /\ Grown(rows, rows')
  /\ \A i \in DOMAIN rows' \ DOMAIN rows : rows'[i].tree \notin DOMAIN rows
  /\ \A r \in DOMAIN runs :
       /\ r \in DOMAIN runs'
       /\ runs'[r].nodes = runs[r].nodes /\ runs'[r].retryOf = runs[r].retryOf
       /\ runs[r].status \in Unsuccessful =>
            runs'[r].status = runs[r].status /\ Untouched(rows, rows', runs[r].nodes)
  /\ \A k \in DOMAIN receipts : k \in DOMAIN receipts' /\ receipts'[k] = receipts[k]

\* Runs and retries that there were are as they were.
LEMMA RunsStay ==
  ASSUME TableOK, Evolves, Forest(rows')
  PROVE  \A r \in DOMAIN runs :
           /\ rows'[r].parent = NoTask /\ runs'[r].nodes = AllInTree(rows', r)
           /\ runs'[r].retryOf # NoTask =>
                \E k \in DOMAIN receipts' :
                  /\ receipts'[k].ids = runs'[r].nodes
                  /\ SoundRetry(rows', runs'[r].nodes, runs'[runs'[r].retryOf].nodes,
                                runs'[runs'[r].retryOf].status, receipts'[k].content)
<1>. SUFFICES ASSUME NEW r \in DOMAIN runs
              PROVE  /\ rows'[r].parent = NoTask /\ runs'[r].nodes = AllInTree(rows', r)
                     /\ runs'[r].retryOf # NoTask =>
                          \E k \in DOMAIN receipts' :
                            /\ receipts'[k].ids = runs'[r].nodes
                            /\ SoundRetry(rows', runs'[r].nodes, runs'[runs'[r].retryOf].nodes,
                                          runs'[runs'[r].retryOf].status, receipts'[k].content)
  OBVIOUS
<1>1. /\ r \in DOMAIN rows /\ runs[r].nodes \subseteq DOMAIN rows
      /\ runs[r].retryOf \in DOMAIN runs \cup {NoTask}
  BY DEF TableOK, TypeOK
<1>2. rows[r].parent = NoTask /\ runs[r].nodes = AllInTree(rows, r) BY DEF TableOK, Recorded
<1>3. /\ runs'[r].nodes = runs[r].nodes /\ runs'[r].retryOf = runs[r].retryOf
  BY DEF Evolves
<1>4. Shape(rows) /\ Shape(rows') BY ForestFounded DEF TableOK
<1>5. rows'[r].parent = NoTask /\ rows'[r].tree = rows[r].tree /\ rows[r].tree = r
  BY <1>1, <1>2, <1>4 DEF Evolves, Grown, Shape
<1>6. AllInTree(rows', r) = AllInTree(rows, r)
  <2>1. AllInTree(rows', r) = {i \in DOMAIN rows' : rows'[i].tree = r} BY <1>5 DEF AllInTree
  <2>2. AllInTree(rows, r) = {i \in DOMAIN rows : rows[i].tree = r} BY <1>2, <1>5 DEF AllInTree
  <2>3. \A i \in DOMAIN rows' \ DOMAIN rows : rows'[i].tree # r BY <1>1 DEF Evolves
  <2>4. \A i \in DOMAIN rows : i \in DOMAIN rows' /\ rows'[i].tree = rows[i].tree
    BY DEF Evolves, Grown
  <2>. QED BY <2>1, <2>2, <2>3, <2>4
<1>7. ASSUME runs'[r].retryOf # NoTask
      PROVE  \E k \in DOMAIN receipts' :
               /\ receipts'[k].ids = runs'[r].nodes
               /\ SoundRetry(rows', runs'[r].nodes, runs'[runs'[r].retryOf].nodes,
                             runs'[runs'[r].retryOf].status, receipts'[k].content)
  <2>. DEFINE q == runs[r].retryOf
  <2>1. IsRetry(r) /\ q \in DOMAIN runs BY <1>1, <1>3, <1>7 DEF IsRetry
  <2>2. PICK k \in DOMAIN receipts :
          /\ receipts[k].ids = runs[r].nodes
          /\ SoundRetry(rows, runs[r].nodes, runs[q].nodes, runs[q].status, receipts[k].content)
    BY <2>1 DEF TableOK, RetriesHold
  <2>3. runs[q].status \in Unsuccessful BY <2>2 DEF SoundRetry
  <2>4. /\ runs'[q].nodes = runs[q].nodes /\ runs'[q].status = runs[q].status
        /\ Untouched(rows, rows', runs[q].nodes)
    BY <2>1, <2>3 DEF Evolves
  <2>5. runs[q].nodes \subseteq DOMAIN rows BY <2>1 DEF TableOK, TypeOK
  <2>6. \A i \in runs[r].nodes : rows[i].deps \subseteq DOMAIN rows BY <1>1, <1>4 DEF Shape
  <2>7. IsFiniteSet(DOMAIN rows) /\ IsFiniteSet(DOMAIN rows') /\ Grown(rows, rows')
    BY <1>4 DEF Shape, Evolves
  <2>8. SoundRetry(rows', runs[r].nodes, runs[q].nodes, runs[q].status, receipts[k].content)
    <3>. HIDE DEF q
    <3>. QED BY <1>1, <2>2, <2>4, <2>5, <2>6, <2>7, RetryStaysSound
  <2>9. k \in DOMAIN receipts' /\ receipts'[k] = receipts[k] BY DEF Evolves
  <2>. QED BY <1>3, <2>2, <2>4, <2>8, <2>9
<1>. QED BY <1>2, <1>3, <1>5, <1>6, <1>7

\* A request that is not served goes on.
LEMMA RequestsStay ==
  ASSUME SubmissionInv, Grown(rows, rows'), NEW s \in Session, req[s] # Idle
  PROVE  Serves(s) /\ (req'[s] = req[s] => Serves(s)')
  BY DEF SubmissionInv, Serves, Grown

\* A step that leaves the tables alone.
LEMMA Quiet ==
  ASSUME SubmissionInv, UNCHANGED <<rows, runs, receipts>>,
         nextId' \in 1..MaxId + 1, calls' \in 0..Calls,
         \A a \in answers' \ answers :
           /\ a.slot \in DOMAIN receipts
           /\ a = [slot |-> a.slot, content |-> receipts[a.slot].content,
                   ids |-> receipts[a.slot].ids],
         req' = [s \in Session |-> req'[s]],
         NEW t, \A s \in Session : s # t => req'[s] = req[s],
         t \in Session => req'[t] = Idle \/ Serves(t)'
  PROVE  SubmissionInv'
<1>1. TableOK BY InvariantParts
<1>2. TypeOK' BY <1>1 DEF TableOK, TypeOK
<1>3. Forest(rows)' BY <1>1 DEF TableOK
<1>4. Recorded'
  <2>1. NothingIsStray' BY <1>1 DEF TableOK, Recorded, NothingIsStray
  <2>. QED BY <1>1, <2>1 DEF TableOK, Recorded
<1>5. RetriesHold' BY <1>1 DEF TableOK, RetriesHold, IsRetry
<1>6. RequestsOK'
  <2>1. ASSUME NEW s \in Session PROVE req'[s] = Idle \/ Serves(s)'
    <3>1. CASE s # t
      <4>1. req[s] = Idle \/ Serves(s) BY DEF SubmissionInv
      <4>2. req'[s] = req[s] BY <3>1
      <4>3. Serves(s) => Serves(s)' BY <4>2 DEF Serves
      <4>. QED BY <4>1, <4>2, <4>3
    <3>. QED BY <3>1
  <2>2. Idle' = Idle BY DEF Idle
  <2>. QED BY <2>1, <2>2 DEF RequestsOK
<1>7. TableOK' /\ RequestsOK' BY <1>2, <1>3, <1>4, <1>5, <1>6 DEF TableOK
<1>8. (SubmissionInv <=> TableOK /\ RequestsOK)' BY InvariantParts, PTL
<1>. QED BY <1>7, <1>8
\* Every library is a forest that no run and no request has touched.
LEMMA InitHolds == Init => SubmissionInv
<1>. SUFFICES ASSUME Init PROVE SubmissionInv OBVIOUS
<1>1. rows \in Library BY DEF Init
<1>2. PICK n \in 0..MaxId : DOMAIN rows = 1..n BY <1>1, LibraryAssumption
<1>3. Forest(rows) /\ \A i \in DOMAIN rows : rows[i].status \in Status /\ rows[i].run = NoTask
  BY <1>1, LibraryAssumption
<1>4. runs = << >> /\ receipts = << >> /\ answers = {} BY DEF Init
<1>5. /\ DOMAIN runs = {} /\ DOMAIN receipts = {}
      /\ runs = [r \in DOMAIN runs |-> runs[r]] /\ receipts = [k \in DOMAIN receipts |-> receipts[k]]
  BY <1>4
<1>6. nextId \in 1..MaxId + 1 /\ calls \in 0..Calls
  <2>1. MaxId \in Nat /\ Calls \in Nat BY SubmissionAssumption
  <2>2. Cardinality(DOMAIN rows) = n
    <3>1. n \in Nat BY <2>1
    <3>2. Cardinality(1..n) = n BY <3>1, FS_Interval
    <3>. QED BY <1>2, <3>2
  <2>3. nextId = 1 + n /\ calls = Calls BY <2>2 DEF Init
  <2>. QED BY <2>1, <2>3
<1>7. TypeOK
  <2>1. DOMAIN rows \subseteq 1..MaxId \cup GivenId BY <1>2, SubmissionAssumption
  <2>. QED BY <1>3, <1>5, <1>6, <2>1 DEF TypeOK
<1>8. NothingIsStray
  <2>1. DOMAIN rows \subseteq UNION {DOMAIN R : R \in Library} BY <1>1
  <2>. QED BY <1>5, <2>1 DEF NothingIsStray
<1>9. Recorded BY <1>4, <1>5, <1>8 DEF Recorded
<1>10. RetriesHold BY <1>5 DEF RetriesHold
<1>11. RequestsOK
  <2>1. req = [s \in Session |-> Idle] BY DEF Init
  <2>. QED BY <2>1 DEF RequestsOK
<1>. QED BY <1>3, <1>7, <1>9, <1>10, <1>11, InvariantParts DEF TableOK

\* Requests are taken, looked up and refused without a change of the tables.
LEMMA AskHolds ==
  ASSUME SubmissionInv, calls > 0, NEW s \in Session, Asked(s)
  PROVE  SubmissionInv'
<1>1. ASSUME NEW kind \in {"task", "tree", "retry"}, NEW key \in Key, NEW content,
             Ask(s, kind, key, content),
             kind \in {"task", "tree"} => content.def \in Definition,
             kind = "retry" => content.run \in Roots
      PROVE  SubmissionInv'
  <2>1. /\ UNCHANGED <<rows, runs, receipts, nextId, answers>> /\ calls' = calls - 1
        /\ req' = [req EXCEPT ![s] = [kind |-> kind, key |-> key, content |-> content,
                                      at |-> "receipt", first |-> 0]]
    BY <1>1 DEF Ask
  <2>2. nextId' \in 1..MaxId + 1 /\ calls' \in 0..Calls
    <3>1. calls \in 0..Calls /\ nextId \in 1..MaxId + 1 BY DEF SubmissionInv, TypeOK
    <3>2. Calls \in Nat BY SubmissionAssumption
    <3>. QED BY <2>1, <3>1, <3>2
  <2>3. req = [t \in Session |-> req[t]] BY DEF SubmissionInv
  <2>4. /\ req' = [t \in Session |-> req'[t]] /\ \A t \in Session : t # s => req'[t] = req[t]
        /\ req'[s] = [kind |-> kind, key |-> key, content |-> content,
                      at |-> "receipt", first |-> 0]
    BY <2>1, <2>3
  <2>5. Serves(s)'
    BY <1>1, <2>1, <2>4 DEF Serves, Roots
  <2>. QED BY <2>1, <2>2, <2>4, <2>5, Quiet
<1>2. PICK k \in Key :
        \/ \E d \in Definition : TaskCreate(s, k, d) \/ TaskCreateTree(s, k, d)
        \/ \E r \in Roots, c \in Selection, safe \in BOOLEAN : RunRetry(s, k, r, c, safe)
  BY DEF Asked
<1>3. ASSUME NEW d \in Definition, TaskCreate(s, k, d) \/ TaskCreateTree(s, k, d)
      PROVE  SubmissionInv'
  <2>. DEFINE content == [def |-> d]
  <2>1. Ask(s, "task", k, content) \/ Ask(s, "tree", k, content)
    BY <1>3 DEF TaskCreate, TaskCreateTree
  <2>2. content.def \in Definition OBVIOUS
  <2>. HIDE DEF content
  <2>. QED BY <1>1, <2>1, <2>2
<1>4. ASSUME NEW r \in Roots, NEW c \in Selection, NEW safe \in BOOLEAN, RunRetry(s, k, r, c, safe)
      PROVE  SubmissionInv'
  <2>. DEFINE content == [run |-> r, chosen |-> c, safe |-> safe]
  <2>1. Ask(s, "retry", k, content) BY <1>4 DEF RunRetry
  <2>2. content.run \in Roots OBVIOUS
  <2>. HIDE DEF content
  <2>. QED BY <1>1, <2>1, <2>2
<1>. QED BY <1>2, <1>3, <1>4

LEMMA RefuseHolds ==
  ASSUME SubmissionInv, NEW s \in Session, Refuse(s)
  PROVE  SubmissionInv'
<1>1. UNCHANGED <<rows, runs, receipts, nextId, answers, calls>> /\ req' = [req EXCEPT ![s] = Idle]
  BY DEF Refuse, Done
<1>2. nextId' \in 1..MaxId + 1 /\ calls' \in 0..Calls BY <1>1 DEF SubmissionInv, TypeOK
<1>3. req = [t \in Session |-> req[t]] BY DEF SubmissionInv
<1>4. /\ req' = [t \in Session |-> req'[t]] /\ \A t \in Session : t # s => req'[t] = req[t]
      /\ req'[s] = Idle
  BY <1>1, <1>3
<1>5. Idle' = Idle BY DEF Idle
<1>. QED BY <1>1, <1>2, <1>4, <1>5, Quiet

\* An answer repeats a receipt.
LEMMA AnswerHolds ==
  ASSUME SubmissionInv, NEW s \in Session, Slot(s) \in DOMAIN receipts, AnswerStored(s)
  PROVE  SubmissionInv'
<1>1. UNCHANGED <<rows, runs, receipts, nextId, calls>> /\ req' = [req EXCEPT ![s] = Idle]
  BY DEF AnswerStored, Done
<1>2. nextId' \in 1..MaxId + 1 /\ calls' \in 0..Calls BY <1>1 DEF SubmissionInv, TypeOK
<1>3. req = [t \in Session |-> req[t]] BY DEF SubmissionInv
<1>4. /\ req' = [t \in Session |-> req'[t]] /\ \A t \in Session : t # s => req'[t] = req[t]
      /\ req'[s] = Idle
  BY <1>1, <1>3
<1>5. Idle' = Idle BY DEF Idle
<1>6. ASSUME NEW a \in answers' \ answers
      PROVE  /\ a.slot \in DOMAIN receipts
             /\ a = [slot |-> a.slot, content |-> receipts[a.slot].content,
                     ids |-> receipts[a.slot].ids]
  <2>1. /\ receipts[Slot(s)].content = req[s].content
        /\ a = [slot |-> Slot(s), content |-> req[s].content, ids |-> receipts[Slot(s)].ids]
    BY <1>6 DEF AnswerStored
  <2>. QED BY <2>1
<1>. QED BY <1>1, <1>2, <1>4, <1>5, <1>6, Quiet

LEMMA ReadReceiptHolds ==
  ASSUME SubmissionInv, NEW s \in Session, ReadReceipt(s)
  PROVE  SubmissionInv'
<1>1. CASE Slot(s) \in DOMAIN receipts BY <1>1, AnswerHolds DEF ReadReceipt
<1>2. CASE Slot(s) \notin DOMAIN receipts
  <2>. DEFINE at == IF req[s].kind = "retry" THEN "retry" ELSE "create"
  <2>1. UNCHANGED <<rows, runs, receipts, nextId, answers, calls>> /\ req' = [req EXCEPT ![s].at = at]
    BY <1>2 DEF ReadReceipt
  <2>2. nextId' \in 1..MaxId + 1 /\ calls' \in 0..Calls BY <2>1 DEF SubmissionInv, TypeOK
  <2>3. req = [t \in Session |-> req[t]] BY DEF SubmissionInv
  <2>4. /\ req' = [t \in Session |-> req'[t]] /\ \A t \in Session : t # s => req'[t] = req[t]
        /\ req'[s] = [req[s] EXCEPT !.at = at]
    BY <2>1, <2>3
  <2>5. Serves(s) /\ req[s].at = "receipt"
    BY DEF ReadReceipt, SubmissionInv, Idle
  <2>6. /\ DOMAIN req'[s] = DOMAIN req[s] /\ req'[s].key = req[s].key /\ req'[s].kind = req[s].kind
        /\ req'[s].content = req[s].content /\ req'[s].at = at
    <3>. HIDE DEF at
    <3>. QED BY <2>4, <2>5 DEF Serves
  <2>7. Serves(s)' BY <2>1, <2>5, <2>6 DEF Serves
  <2>. QED BY <2>1, <2>2, <2>4, <2>7, Quiet
<1>. QED BY <1>1, <1>2

LEMMA ValidateHolds ==
  ASSUME SubmissionInv, NEW s \in Session, Validate(s)
  PROVE  SubmissionInv'
<1>. DEFINE def == req[s].content.def
<1>1. CASE Refuse(s) BY <1>1, RefuseHolds
<1>2. CASE /\ WellFormed(def, nextId) /\ nextId' = nextId + Len(def)
           /\ req' = [req EXCEPT ![s].at = "insert", ![s].first = nextId]
           /\ UNCHANGED <<rows, runs, receipts, answers, calls>>
  <2>1. Serves(s) /\ req[s].at = "create" /\ nextId + Len(def) - 1 <= MaxId
    BY DEF Validate, SubmissionInv, Idle
  <2>2. req[s].kind \in {"task", "tree"} /\ def \in Definition BY <2>1 DEF Serves
  <2>3. Len(def) \in Nat BY <2>2, DefinitionAssumption
  <2>4. nextId \in 1..MaxId + 1 /\ MaxId \in Nat /\ calls \in 0..Calls
    BY SubmissionAssumption DEF SubmissionInv, TypeOK
  <2>5. nextId' \in 1..MaxId + 1 /\ calls' \in 0..Calls BY <1>2, <2>1, <2>3, <2>4
  <2>6. nextId \in 1..MaxId
    <3>1. \E k \in DOMAIN def : def[k].parent = NoTask BY <1>2 DEF WellFormed
    <3>2. Len(def) >= 1 BY <2>2, <2>3, <3>1, DefinitionAssumption
    <3>. QED BY <2>1, <2>3, <2>4, <3>2
  <2>7. req = [t \in Session |-> req[t]] BY DEF SubmissionInv
  <2>8. /\ req' = [t \in Session |-> req'[t]] /\ \A t \in Session : t # s => req'[t] = req[t]
        /\ req'[s] = [req[s] EXCEPT !.at = "insert", !.first = nextId]
    BY <1>2, <2>7
  <2>9. /\ DOMAIN req'[s] = DOMAIN req[s] /\ req'[s].key = req[s].key /\ req'[s].kind = req[s].kind
        /\ req'[s].content = req[s].content /\ req'[s].at = "insert" /\ req'[s].first = nextId
    BY <2>1, <2>8 DEF Serves
  <2>10. Serves(s)'
    BY <1>2, <2>1, <2>2, <2>6, <2>9 DEF Serves
  <2>. QED BY <1>2, <2>5, <2>8, <2>10, Quiet
<1>. QED BY <1>1, <1>2 DEF Validate

\* A step that adds rows, runs or receipts, or executes a root.
LEMMA Grows ==
  ASSUME SubmissionInv, Evolves, Forest(rows'), TypeOK',
         runs' = [r \in DOMAIN runs' |-> runs'[r]],
         receipts' = [k \in DOMAIN receipts' |-> receipts'[k]],
         \A r \in DOMAIN runs' \ DOMAIN runs :
           /\ rows'[r].parent = NoTask /\ runs'[r].nodes = AllInTree(rows', r)
           /\ runs'[r].retryOf # NoTask =>
                \E k \in DOMAIN receipts' :
                  /\ receipts'[k].ids = runs'[r].nodes
                  /\ SoundRetry(rows', runs'[r].nodes, runs'[runs'[r].retryOf].nodes,
                                runs'[runs'[r].retryOf].status, receipts'[k].content),
         \A k \in DOMAIN receipts' : receipts'[k].ids \subseteq DOMAIN rows',
         NothingIsStray',
         \A a \in answers' \ answers :
           /\ a.slot \in DOMAIN receipts'
           /\ a = [slot |-> a.slot, content |-> receipts'[a.slot].content,
                   ids |-> receipts'[a.slot].ids],
         req' = [s \in Session |-> req'[s]],
         \A s \in Session : req'[s] = req[s] \/ req'[s] = Idle
  PROVE  SubmissionInv'
<1>1. TableOK BY InvariantParts
<1>2. \A r \in DOMAIN runs' :
        /\ rows'[r].parent = NoTask /\ runs'[r].nodes = AllInTree(rows', r)
        /\ runs'[r].retryOf # NoTask =>
             \E k \in DOMAIN receipts' :
               /\ receipts'[k].ids = runs'[r].nodes
               /\ SoundRetry(rows', runs'[r].nodes, runs'[runs'[r].retryOf].nodes,
                             runs'[runs'[r].retryOf].status, receipts'[k].content)
  BY <1>1, RunsStay
<1>3. \A a \in answers' :
        /\ a.slot \in DOMAIN receipts'
        /\ a = [slot |-> a.slot, content |-> receipts'[a.slot].content,
                ids |-> receipts'[a.slot].ids]
  <2>1. \A a \in answers :
          /\ a.slot \in DOMAIN receipts
          /\ a = [slot |-> a.slot, content |-> receipts[a.slot].content,
                  ids |-> receipts[a.slot].ids]
    BY <1>1 DEF TableOK, Recorded
  <2>2. \A k \in DOMAIN receipts : k \in DOMAIN receipts' /\ receipts'[k] = receipts[k]
    BY DEF Evolves
  <2>. QED BY <2>1, <2>2
<1>4. Recorded' BY <1>2, <1>3 DEF Recorded
<1>5. RetriesHold' BY <1>2 DEF RetriesHold, IsRetry
<1>6. RequestsOK'
  <2>1. Grown(rows, rows') BY DEF Evolves
  <2>2. ASSUME NEW s \in Session PROVE req'[s] = Idle \/ Serves(s)'
    <3>1. CASE req'[s] = req[s] /\ req[s] # Idle BY <2>1, <3>1, RequestsStay
    <3>. QED BY <3>1
  <2>3. Idle' = Idle BY DEF Idle
  <2>. QED BY <2>2, <2>3 DEF RequestsOK
<1>7. TableOK' /\ RequestsOK' BY <1>4, <1>5, <1>6 DEF TableOK
<1>8. (SubmissionInv <=> TableOK /\ RequestsOK)' BY InvariantParts, PTL
<1>. QED BY <1>7, <1>8

\* A root is executed: its rows are marked, and it has a run.
LEMMA ExecuteHolds ==
  ASSUME SubmissionInv, calls > 0, NEW r \in Roots, NEW done \in SUBSET Open(AllInTree(rows, r)),
         NEW outcome \in {"failed", "in_progress"}, Execute(r, done, outcome)
  PROVE  SubmissionInv'
<1>. DEFINE nodes == AllInTree(rows, r)
            completed == done \cup {i \in nodes : rows[i].status = "completed"}
            next == {i \in Open(nodes) \ done : rows[i].deps \subseteq completed}
            after == [i \in DOMAIN rows |->
                       IF i \notin nodes THEN rows[i]
                       ELSE LET row == [rows[i] EXCEPT !.run = r]
                            IN  IF i \in done
                                THEN [row EXCEPT !.status = "completed", !.result = i]
                                ELSE IF i \in next THEN [row EXCEPT !.status = outcome]
                                ELSE row]
            before == IF r \in DOMAIN runs THEN runs[r].retryOf ELSE NoTask
            run == NewRun(after, r, before)
<1>1. /\ rows' = after /\ runs' = Over([k \in {r} |-> run], runs)
      /\ r \in DOMAIN runs => runs[r].status = "accepted"
      /\ calls' = calls - 1 /\ UNCHANGED <<receipts, nextId, req, answers>>
  BY DEF Execute
<1>2. TypeOK /\ Forest(rows) /\ Recorded BY DEF SubmissionInv
<1>3. r \in DOMAIN rows /\ rows[r].parent = NoTask BY DEF Roots
<1>4. Shape(rows) BY <1>2, ForestFounded
<1>5. \A i \in nodes : i \in DOMAIN rows /\ rows[i].tree = r
  BY <1>3, <1>4 DEF AllInTree, Shape
<1>6. \A i \in done \cup next : i \in nodes /\ rows[i].status # "completed" BY DEF Open
<1>7. ASSUME NEW i \in DOMAIN rows
      PROVE  /\ after[i] = [column \in Columns |-> after[i][column]]
             /\ after[i].parent = rows[i].parent /\ after[i].deps = rows[i].deps
             /\ after[i].tree = rows[i].tree /\ after[i].origin = rows[i].origin
             /\ after[i].original = rows[i].original /\ after[i].source = rows[i].source
             /\ after[i].frozen = rows[i].frozen
             /\ after[i].status \in {rows[i].status, "completed", outcome}
             /\ after[i].run \in {rows[i].run, r}
             /\ i \notin nodes => after[i] = rows[i]
             /\ rows[i].status = "completed" =>
                  after[i].status = "completed" /\ after[i].result = rows[i].result
  <2>. DEFINE row == rows[i]
              run1 == [row EXCEPT !.run = r]
              done1 == [run1 EXCEPT !.status = "completed", !.result = i]
              next1 == [run1 EXCEPT !.status = outcome]
  <2>1. row = [column \in Columns |-> row[column]] BY <1>4 DEF Shape
  <2>. HIDE DEF row
  <2>2. \A x \in {run1, done1, next1} :
          /\ x = [column \in Columns |-> x[column]]
          /\ x.parent = row.parent /\ x.deps = row.deps /\ x.tree = row.tree
          /\ x.origin = row.origin /\ x.original = row.original /\ x.source = row.source
          /\ x.frozen = row.frozen /\ x.run = r
    BY <2>1 DEF Columns
  <2>3. /\ done1.status = "completed" /\ next1.status = outcome
        /\ run1.status = row.status /\ run1.result = row.result
    BY <2>1 DEF Columns
  <2>4. after[i] = IF i \notin nodes THEN row
                   ELSE IF i \in done THEN done1 ELSE IF i \in next THEN next1 ELSE run1
    BY DEF row
  <2>5. i \in done \cup next => row.status # "completed" BY <1>6 DEF row
  <2>. HIDE DEF run1, done1, next1, after, nodes, next
  <2>6. CASE i \notin nodes BY <2>1, <2>4, <2>6 DEF row
  <2>7. CASE i \in nodes /\ i \in done BY <2>2, <2>3, <2>4, <2>5, <2>7 DEF row
  <2>8. CASE i \in nodes /\ i \notin done /\ i \in next BY <2>2, <2>3, <2>4, <2>5, <2>8 DEF row
  <2>9. CASE i \in nodes /\ i \notin done /\ i \notin next BY <2>2, <2>3, <2>4, <2>9 DEF row
  <2>. QED BY <2>6, <2>7, <2>8, <2>9
<1>8. DOMAIN after = DOMAIN rows /\ after = [i \in DOMAIN after |-> after[i]] OBVIOUS
<1>. HIDE DEF after, next, nodes
<1>9. Forest(rows') BY <1>1, <1>2, <1>7, <1>8, ForestMarked
<1>10. AllInTree(after, r) = nodes
  BY <1>3, <1>7, <1>8 DEF AllInTree, nodes
<1>11. run.nodes = nodes /\ run.retryOf = before /\ run.status \in {"accepted", "completed"} \cup Unsuccessful
  <2>1. Summary(after, AllInTree(after, r)) \in {"accepted", "completed"} \cup Unsuccessful
    BY DEF Summary, Unsuccessful
  <2>. QED BY <1>10, <2>1 DEF NewRun
<1>. HIDE DEF run, before
<1>12. /\ DOMAIN runs' = {r} \cup DOMAIN runs /\ runs'[r] = run
       /\ \A u \in DOMAIN runs : u # r => runs'[u] = runs[u]
       /\ runs' = [u \in DOMAIN runs' |-> runs'[u]]
  BY <1>1 DEF Over
<1>13. ASSUME r \in DOMAIN runs PROVE runs[r].nodes = nodes /\ before = runs[r].retryOf
  BY <1>2, <1>13 DEF Recorded, nodes, before
<1>14. Evolves
  <2>1. Grown(rows, rows') BY <1>1, <1>7, <1>8 DEF Grown
  <2>2. ASSUME NEW u \in DOMAIN runs
        PROVE  /\ u \in DOMAIN runs'
               /\ runs'[u].nodes = runs[u].nodes /\ runs'[u].retryOf = runs[u].retryOf
               /\ runs[u].status \in Unsuccessful =>
                    runs'[u].status = runs[u].status /\ Untouched(rows, rows', runs[u].nodes)
    <3>1. CASE u = r BY <1>1, <1>11, <1>12, <1>13, <3>1 DEF Unsuccessful
    <3>2. CASE u # r
      <4>1. u \in DOMAIN rows /\ rows[u].parent = NoTask /\ runs[u].nodes = AllInTree(rows, u)
        BY <1>2 DEF TypeOK, Recorded
      <4>2. \A i \in runs[u].nodes : i \in DOMAIN rows /\ rows[i].tree = u
        BY <1>4, <4>1 DEF AllInTree, Shape
      <4>3. \A i \in runs[u].nodes : after[i] = rows[i] BY <1>5, <1>7, <3>2, <4>2
      <4>4. Untouched(rows, rows', runs[u].nodes) BY <1>1, <4>3 DEF Untouched
      <4>. QED BY <1>12, <3>2, <4>4
    <3>. QED BY <3>1, <3>2
  <2>. QED BY <1>1, <1>8, <2>1, <2>2 DEF Evolves
<1>15. TypeOK'
  <2>1. \A i \in DOMAIN rows : /\ after[i].status \in Status
                               /\ after[i].run \in DOMAIN runs \cup {r, NoTask}
    <3>1. \A i \in DOMAIN rows : rows[i].status \in Status /\ rows[i].run \in DOMAIN runs \cup {NoTask}
      BY <1>2 DEF TypeOK
    <3>2. {"completed", outcome} \subseteq Status BY DEF Status
    <3>3. ASSUME NEW i \in DOMAIN rows
          PROVE  after[i].status \in Status /\ after[i].run \in DOMAIN runs \cup {r, NoTask}
      <4>1. rows[i].status \in Status /\ rows[i].run \in DOMAIN runs \cup {NoTask} BY <3>1
      <4>2. after[i].status \in {rows[i].status, "completed", outcome} /\ after[i].run \in {rows[i].run, r}
        BY <1>7
      <4>. QED BY <3>2, <4>1, <4>2
    <3>. QED BY <3>3
  <2>2. \A u \in DOMAIN runs' :
          /\ runs'[u].status \in {"accepted", "completed"} \cup Unsuccessful
          /\ runs'[u].nodes \subseteq DOMAIN rows
          /\ runs'[u].retryOf \in DOMAIN runs \cup {NoTask}
    <3>1. \A u \in DOMAIN runs :
            /\ runs[u].status \in {"accepted", "completed"} \cup Unsuccessful
            /\ runs[u].nodes \subseteq DOMAIN rows
            /\ runs[u].retryOf \in DOMAIN runs \cup {NoTask}
      BY <1>2 DEF TypeOK
    <3>2. before \in DOMAIN runs \cup {NoTask} BY <3>1 DEF before
    <3>3. nodes \subseteq DOMAIN rows BY <1>5
    <3>. QED BY <1>11, <1>12, <3>1, <3>2, <3>3
  <2>3. calls' \in 0..Calls
    <3>1. calls \in 0..Calls /\ Calls \in Nat BY <1>2, SubmissionAssumption DEF TypeOK
    <3>. QED BY <1>1, <3>1
  <2>4. /\ DOMAIN rows \subseteq 1..MaxId \cup GivenId /\ DOMAIN runs \subseteq DOMAIN rows
        /\ DOMAIN receipts \subseteq {"task", "tree", "retry"} \X Key
        /\ nextId \in 1..MaxId + 1
    BY <1>2 DEF TypeOK
  <2>5. DOMAIN rows' = DOMAIN rows /\ DOMAIN runs' \subseteq DOMAIN rows /\ rows' = after
    BY <1>1, <1>3, <1>8, <1>12, <2>4
  <2>. QED BY <1>1, <1>12, <2>1, <2>2, <2>3, <2>4, <2>5 DEF TypeOK
<1>16. \A u \in DOMAIN runs' \ DOMAIN runs :
         /\ rows'[u].parent = NoTask /\ runs'[u].nodes = AllInTree(rows', u)
         /\ runs'[u].retryOf = NoTask
  <2>1. r \notin DOMAIN runs => before = NoTask BY DEF before
  <2>. QED BY <1>1, <1>3, <1>7, <1>10, <1>11, <1>12, <2>1
<1>17. NothingIsStray' BY <1>1, <1>2, <1>8 DEF Recorded, NothingIsStray
<1>18. /\ receipts' = [k \in DOMAIN receipts' |-> receipts'[k]]
       /\ \A k \in DOMAIN receipts' : receipts'[k].ids \subseteq DOMAIN rows'
  BY <1>1, <1>2, <1>8 DEF Recorded
<1>19. req' = [s \in Session |-> req'[s]] BY <1>1 DEF SubmissionInv
<1>. QED BY <1>1, <1>9, <1>12, <1>14, <1>15, <1>16, <1>17, <1>18, <1>19, Grows

\* The null identifier is none of those that rows have.
LEMMA NullIsNoId == NoTask \notin 1..MaxId \cup GivenId
<1>1. 1..MaxId \cup GivenId \subseteq Nat BY SubmissionAssumption
<1>. QED BY <1>1, SubmissionAssumption

\* Rows of R whose run becomes q, and a table T that R has become with them and new rows.
Marked(R, changed, q) ==
  DOMAIN changed \subseteq DOMAIN R /\ \A i \in DOMAIN changed : changed[i] = [R[i] EXCEPT !.run = q]

Extended(R, new, q, T) ==
  /\ Forest(T) /\ DOMAIN T = DOMAIN new \cup DOMAIN R
  /\ \A i \in DOMAIN new : T[i] = new[i] /\ T[i].tree \in DOMAIN new
  /\ Grown(R, T) /\ Untouched(R, T, DOMAIN R)
  /\ \A i \in DOMAIN R : T[i].run \in {R[i].run, q} /\ T[i].tree \in DOMAIN R

\* A table with the rows of a request: they hang below nothing that there was, and of the
\* others at most the run is changed.
LEMMA StoredRows ==
  ASSUME NEW R, Forest(R), NEW new, Forest(new), DOMAIN new \cap DOMAIN R = {},
         NoTask \notin DOMAIN new \cup DOMAIN R, NEW changed, NEW q, Marked(R, changed, q)
  PROVE  Extended(R, new, q, Over(new, Over(changed, R)))
<1>. DEFINE mid == Over(changed, R)
            T == Over(new, mid)
<1>1. Shape(R) /\ Shape(new) BY ForestFounded
<1>2. DOMAIN mid = DOMAIN R /\ mid = [i \in DOMAIN mid |-> mid[i]] BY DEF Over, Marked
<1>3. ASSUME NEW i \in DOMAIN R
      PROVE  /\ mid[i] = [column \in Columns |-> mid[i][column]]
             /\ mid[i].parent = R[i].parent /\ mid[i].deps = R[i].deps
             /\ mid[i].tree = R[i].tree /\ mid[i].origin = R[i].origin
             /\ mid[i].original = R[i].original /\ mid[i].source = R[i].source
             /\ mid[i].frozen = R[i].frozen /\ mid[i].status = R[i].status
             /\ mid[i].result = R[i].result /\ mid[i].run \in {R[i].run, q}
  <2>. DEFINE row == R[i]
              run1 == [row EXCEPT !.run = q]
  <2>1. row = [column \in Columns |-> row[column]] BY <1>1 DEF Shape
  <2>. HIDE DEF row
  <2>2. \A x \in {row, run1} :
          /\ x = [column \in Columns |-> x[column]]
          /\ x.parent = row.parent /\ x.deps = row.deps /\ x.tree = row.tree
          /\ x.origin = row.origin /\ x.original = row.original /\ x.source = row.source
          /\ x.frozen = row.frozen /\ x.status = row.status /\ x.result = row.result
          /\ x.run \in {row.run, q}
    BY <2>1 DEF Columns
  <2>3. mid[i] = row \/ mid[i] = run1 BY DEF Over, Marked, row
  <2>. HIDE DEF run1, mid
  <2>. QED BY <2>2, <2>3 DEF row
<1>. HIDE DEF mid
<1>4. Forest(mid) BY <1>2, <1>3, ForestMarked
<1>5. Forest(T) BY <1>2, <1>4, ForestJoins
<1>6. DOMAIN T = DOMAIN new \cup DOMAIN R BY <1>2 DEF Over
<1>7. (\A i \in DOMAIN new : T[i] = new[i]) /\ (\A i \in DOMAIN R : T[i] = mid[i])
  BY <1>2 DEF Over
<1>. HIDE DEF T
<1>8. \A i \in DOMAIN new : T[i].tree \in DOMAIN new BY <1>1, <1>7 DEF Shape
<1>9. ASSUME NEW i \in DOMAIN R
      PROVE  /\ T[i].parent = R[i].parent /\ T[i].deps = R[i].deps /\ T[i].tree = R[i].tree
             /\ T[i].origin = R[i].origin /\ T[i].original = R[i].original
             /\ T[i].source = R[i].source /\ T[i].frozen = R[i].frozen
             /\ T[i].status = R[i].status /\ T[i].result = R[i].result
             /\ T[i].run \in {R[i].run, q} /\ T[i].tree \in DOMAIN R
  <2>1. T[i] = mid[i] BY <1>7
  <2>2. R[i].tree \in DOMAIN R BY <1>1 DEF Shape
  <2>. QED BY <1>3, <2>1, <2>2
<1>10. DOMAIN R \subseteq DOMAIN T BY <1>6
<1>. HIDE DEF mid
<1>11. Grown(R, T) BY <1>9, <1>10 DEF Grown
<1>12. Untouched(R, T, DOMAIN R) BY <1>9 DEF Untouched
<1>13. Extended(R, new, q, T)
  BY <1>5, <1>6, <1>7, <1>8, <1>9, <1>11, <1>12 DEF Extended
<1>. QED BY <1>13 DEF T, mid

\* A commit of rows, runs and their receipt.
LEMMA StoreHolds ==
  ASSUME SubmissionInv, NEW s \in Session, Serves(s), NEW new, NEW changed, NEW newRuns, NEW drawn,
         Slot(s) \notin DOMAIN receipts, DOMAIN new \cap DOMAIN rows = {},
         Store(s, new, changed, newRuns, drawn),
         Forest(new), DOMAIN new \subseteq 1..MaxId \cup GivenId, nextId + drawn \in 1..MaxId + 1,
         \A i \in DOMAIN new : /\ new[i].status \in Status
                               /\ new[i].run \in DOMAIN newRuns \cup {NoTask},
         NEW q \in DOMAIN newRuns \cup {NoTask}, Marked(rows, changed, q),
         \A r \in DOMAIN newRuns :
           /\ r \in DOMAIN runs => newRuns[r] = runs[r]
           /\ newRuns[r].status \in {"accepted", "completed"} \cup Unsuccessful
           /\ r \in DOMAIN rows' /\ rows'[r].parent = NoTask
           /\ newRuns[r].nodes = AllInTree(rows', r)
           /\ r \in DOMAIN runs \/ newRuns[r].retryOf = NoTask
              \/ /\ newRuns[r].retryOf \in DOMAIN newRuns /\ newRuns[r].nodes = DOMAIN new
                 /\ SoundRetry(rows', DOMAIN new, newRuns[newRuns[r].retryOf].nodes,
                               newRuns[newRuns[r].retryOf].status, req[s].content)
  PROVE  SubmissionInv'
<1>. DEFINE receipt == [content |-> req[s].content, ids |-> DOMAIN new]
            answer == [slot |-> Slot(s), content |-> req[s].content, ids |-> DOMAIN new]
<1>1. /\ rows' = Over(new, Over(changed, rows)) /\ runs' = Over(newRuns, runs)
      /\ nextId' = nextId + drawn /\ receipts' = Over([k \in {Slot(s)} |-> receipt], receipts)
      /\ answers' = answers \cup {answer} /\ req' = [req EXCEPT ![s] = Idle] /\ calls' = calls
  BY DEF Store, Done
<1>2. TypeOK /\ Forest(rows) /\ Recorded BY DEF SubmissionInv
<1>3. NoTask \notin DOMAIN new \cup DOMAIN rows
  <2>1. NoTask \notin 1..MaxId \cup GivenId BY NullIsNoId
  <2>2. DOMAIN rows \subseteq 1..MaxId \cup GivenId BY <1>2 DEF TypeOK
  <2>. QED BY <2>1, <2>2
<1>4. /\ Forest(rows') /\ DOMAIN rows' = DOMAIN new \cup DOMAIN rows
      /\ \A i \in DOMAIN new : rows'[i] = new[i] /\ rows'[i].tree \in DOMAIN new
      /\ Grown(rows, rows') /\ Untouched(rows, rows', DOMAIN rows)
      /\ \A i \in DOMAIN rows : rows'[i].run \in {rows[i].run, q} /\ rows'[i].tree \in DOMAIN rows
  <2>1. Extended(rows, new, q, rows') BY <1>1, <1>2, <1>3, StoredRows
  <2>. QED BY <2>1 DEF Extended
<1>5. /\ DOMAIN runs' = DOMAIN newRuns \cup DOMAIN runs
      /\ \A r \in DOMAIN newRuns : runs'[r] = newRuns[r]
      /\ \A r \in DOMAIN runs : runs'[r] = runs[r]
      /\ runs' = [r \in DOMAIN runs' |-> runs'[r]]
  BY <1>1 DEF Over
<1>6. /\ DOMAIN receipts' = {Slot(s)} \cup DOMAIN receipts /\ receipts'[Slot(s)] = receipt
      /\ \A k \in DOMAIN receipts : receipts'[k] = receipts[k]
      /\ receipts' = [k \in DOMAIN receipts' |-> receipts'[k]]
  BY <1>1 DEF Over
<1>7. Evolves
  <2>1. \A r \in DOMAIN runs : runs[r].nodes \subseteq DOMAIN rows BY <1>2 DEF TypeOK
  <2>2. \A r \in DOMAIN runs : Untouched(rows, rows', runs[r].nodes) BY <1>4, <2>1 DEF Untouched
  <2>. QED BY <1>4, <1>5, <1>6, <2>2 DEF Evolves
<1>8. TypeOK'
  <2>1. \A i \in DOMAIN rows' : /\ rows'[i].status \in Status
                                /\ rows'[i].run \in DOMAIN runs' \cup {NoTask}
    <3>1. \A i \in DOMAIN rows : rows[i].status \in Status /\ rows[i].run \in DOMAIN runs \cup {NoTask}
      BY <1>2 DEF TypeOK
    <3>2. \A i \in DOMAIN rows : rows'[i].status = rows[i].status /\ rows'[i].run \in {rows[i].run, q}
      BY <1>4 DEF Untouched
    <3>. QED BY <1>4, <1>5, <3>1, <3>2
  <2>2. \A r \in DOMAIN runs' :
          /\ runs'[r].status \in {"accepted", "completed"} \cup Unsuccessful
          /\ runs'[r].nodes \subseteq DOMAIN rows'
          /\ runs'[r].retryOf \in DOMAIN runs' \cup {NoTask}
    <3>1. \A r \in DOMAIN runs :
            /\ runs[r].status \in {"accepted", "completed"} \cup Unsuccessful
            /\ runs[r].nodes \subseteq DOMAIN rows
            /\ runs[r].retryOf \in DOMAIN runs \cup {NoTask}
      BY <1>2 DEF TypeOK
    <3>2. \A r \in DOMAIN newRuns : newRuns[r].nodes \subseteq DOMAIN rows' BY DEF AllInTree
    <3>3. \A r \in DOMAIN runs' : r \in DOMAIN runs \/ (r \in DOMAIN newRuns /\ r \notin DOMAIN runs)
      BY <1>5
    <3>4. ASSUME NEW r \in DOMAIN newRuns, r \notin DOMAIN runs
          PROVE  newRuns[r].retryOf \in DOMAIN newRuns \cup {NoTask}
      BY <3>4
    <3>. QED BY <1>4, <1>5, <3>1, <3>2, <3>3, <3>4
  <2>3. /\ DOMAIN rows \subseteq 1..MaxId \cup GivenId /\ DOMAIN runs \subseteq DOMAIN rows
        /\ DOMAIN receipts \subseteq {"task", "tree", "retry"} \X Key
        /\ calls \in 0..Calls
    BY <1>2 DEF TypeOK
  <2>4. Slot(s) \in {"task", "tree", "retry"} \X Key BY DEF Serves, Slot
  <2>5. /\ DOMAIN rows' \subseteq 1..MaxId \cup GivenId /\ DOMAIN runs' \subseteq DOMAIN rows'
        /\ DOMAIN receipts' \subseteq {"task", "tree", "retry"} \X Key
    <3>1. DOMAIN runs' \subseteq DOMAIN rows' BY <1>4, <1>5, <2>3
    <3>2. DOMAIN receipts' \subseteq {"task", "tree", "retry"} \X Key BY <1>6, <2>3, <2>4
    <3>. QED BY <1>4, <2>3, <3>1, <3>2
  <2>6. nextId' \in 1..MaxId + 1 /\ calls' \in 0..Calls BY <1>1, <2>3
  <2>. QED BY <2>1, <2>2, <2>5, <2>6 DEF TypeOK
<1>9. ASSUME NEW r \in DOMAIN runs' \ DOMAIN runs
      PROVE  /\ rows'[r].parent = NoTask /\ runs'[r].nodes = AllInTree(rows', r)
             /\ runs'[r].retryOf # NoTask =>
                  \E k \in DOMAIN receipts' :
                    /\ receipts'[k].ids = runs'[r].nodes
                    /\ SoundRetry(rows', runs'[r].nodes, runs'[runs'[r].retryOf].nodes,
                                  runs'[runs'[r].retryOf].status, receipts'[k].content)
  <2>1. r \in DOMAIN newRuns /\ runs'[r] = newRuns[r] BY <1>5
  <2>2. rows'[r].parent = NoTask /\ runs'[r].nodes = AllInTree(rows', r) BY <2>1
  <2>3. ASSUME newRuns[r].retryOf # NoTask
        PROVE  /\ receipts'[Slot(s)].ids = runs'[r].nodes
               /\ SoundRetry(rows', runs'[r].nodes, runs'[runs'[r].retryOf].nodes,
                             runs'[runs'[r].retryOf].status, receipts'[Slot(s)].content)
    <3>1. /\ newRuns[r].retryOf \in DOMAIN newRuns /\ newRuns[r].nodes = DOMAIN new
          /\ SoundRetry(rows', DOMAIN new, newRuns[newRuns[r].retryOf].nodes,
                        newRuns[newRuns[r].retryOf].status, req[s].content)
      BY <2>1, <2>3
    <3>2. receipts'[Slot(s)].ids = DOMAIN new /\ receipts'[Slot(s)].content = req[s].content
      BY <1>6
    <3>. QED BY <1>5, <2>1, <3>1, <3>2
  <2>4. Slot(s) \in DOMAIN receipts' BY <1>6
  <2>. QED BY <2>1, <2>2, <2>3, <2>4
<1>10. \A k \in DOMAIN receipts' : receipts'[k].ids \subseteq DOMAIN rows'
  <2>1. \A k \in DOMAIN receipts : receipts[k].ids \subseteq DOMAIN rows BY <1>2 DEF Recorded
  <2>2. receipts'[Slot(s)].ids = DOMAIN new BY <1>6
  <2>. QED BY <1>4, <1>6, <2>1, <2>2
<1>11. NothingIsStray'
  <2>1. receipts'[Slot(s)].ids = DOMAIN new BY <1>6
  <2>2. /\ \A k \in DOMAIN receipts : receipts[k].ids \subseteq DOMAIN rows
        /\ \A i \in DOMAIN rows \ UNION {DOMAIN R : R \in Library} :
             \E k \in DOMAIN receipts : i \in receipts[k].ids
        /\ \A j, k \in DOMAIN receipts : j # k => receipts[j].ids \cap receipts[k].ids = {}
    BY <1>2 DEF Recorded, NothingIsStray
  <2>3. \A i \in DOMAIN rows' \ UNION {DOMAIN R : R \in Library} :
          \E k \in DOMAIN receipts' : i \in receipts'[k].ids
    <3>. DEFINE L == UNION {DOMAIN R : R \in Library}
    <3>. HIDE DEF L
    <3>1. \A i \in DOMAIN rows \ L : \E k \in DOMAIN receipts : i \in receipts[k].ids
      BY <2>2 DEF L
    <3>2. \A i \in DOMAIN rows' \ L : \E k \in DOMAIN receipts' : i \in receipts'[k].ids
      BY <1>4, <1>6, <2>1, <3>1
    <3>. QED BY <3>2 DEF L
  <2>4. \A j, k \in DOMAIN receipts' : j # k => receipts'[j].ids \cap receipts'[k].ids = {}
    BY <1>6, <2>1, <2>2
  <2>. QED BY <2>3, <2>4 DEF NothingIsStray
<1>12. \A a \in answers' \ answers :
         /\ a.slot \in DOMAIN receipts'
         /\ a = [slot |-> a.slot, content |-> receipts'[a.slot].content,
                 ids |-> receipts'[a.slot].ids]
  BY <1>1, <1>6
<1>13. req' = [t \in Session |-> req'[t]] /\ \A t \in Session : req'[t] = req[t] \/ req'[t] = Idle
  <2>1. req = [t \in Session |-> req[t]] BY DEF SubmissionInv
  <2>. QED BY <1>1, <2>1
<1>. QED BY <1>4, <1>5, <1>6, <1>7, <1>8, <1>9, <1>10, <1>11, <1>12, <1>13, Grows

\* A commit that found its key taken.
LEMMA StoreElse ==
  ASSUME SubmissionInv, NEW s \in Session, NEW new, NEW changed, NEW newRuns, NEW drawn,
         Store(s, new, changed, newRuns, drawn),
         ~(Slot(s) \notin DOMAIN receipts /\ DOMAIN new \cap DOMAIN rows = {})
  PROVE  SubmissionInv'
BY AnswerHolds, RefuseHolds DEF Store

LEMMA InsertHolds ==
  ASSUME SubmissionInv, NEW s \in Session, Insert(s)
  PROVE  SubmissionInv'
<1>. DEFINE def == req[s].content.def
            n == req[s].first
            new == CreatedRows(def, n)
<1>1. Serves(s) /\ req[s].at = "insert" /\ Store(s, new, << >>, << >>, 0)
  BY DEF Insert, SubmissionInv, Idle
<1>2. /\ def \in Definition /\ n \in 1..MaxId /\ n + Len(def) - 1 <= MaxId /\ WellFormed(def, n)
  BY <1>1 DEF Serves
<1>3. /\ Forest(new) /\ DOMAIN new \subseteq 1..MaxId \cup GivenId
      /\ \A i \in DOMAIN new : new[i].status = "pending" /\ new[i].run = NoTask
  <2>. HIDE DEF def, n
  <2>. QED BY <1>2, CreatedForest
<1>4. nextId + 0 \in 1..MaxId + 1
  BY SubmissionAssumption DEF SubmissionInv, TypeOK
<1>5. "pending" \in Status BY DEF Status
<1>. DEFINE none == << >>
<1>6. DOMAIN none = {} OBVIOUS
<1>. HIDE DEF none
<1>9. Marked(rows, none, NoTask) BY <1>6 DEF Marked
<1>. HIDE DEF new
<1>7. Store(s, new, none, none, 0) BY <1>1 DEF none
<1>8. CASE Slot(s) \notin DOMAIN receipts /\ DOMAIN new \cap DOMAIN rows = {}
  BY <1>1, <1>3, <1>4, <1>5, <1>6, <1>7, <1>8, <1>9, StoreHolds
<1>. QED BY <1>7, <1>8, StoreElse

\* What a retry takes along contains the root of the run, and no other row without a parent.
LEMMA RootIsRequired ==
  ASSUME NEW R, Forest(R), NEW q \in DOMAIN R, R[q].parent = NoTask,
         NEW required, required \subseteq AllInTree(R, q), required # {}, Enclosed(R, required)
  PROVE  q \in required /\ \A i \in required : R[i].parent = NoTask <=> i = q
<1>1. Shape(R) /\ Founded(Above(R)) BY ForestFounded
<1>2. \A i \in required : i \in DOMAIN R /\ R[i].tree = q
  BY <1>1 DEF Shape, AllInTree
<1>3. \A i \in required : R[i].parent = NoTask => i = q
  BY <1>1, <1>2 DEF Shape
<1>4. \A i \in required : R[i].parent \in required \cup {NoTask} BY DEF Enclosed
<1>5. DOMAIN Above(R) = DOMAIN R /\ \A i \in DOMAIN R : Above(R)[i] = {R[i].parent} \cap DOMAIN R
  BY DEF Above
<1>6. PICK i \in required : Above(R)[i] \cap required = {}
  <2>1. required \in SUBSET DOMAIN Above(R) BY <1>2, <1>5
  <2>. QED BY <1>1, <2>1 DEF Founded
<1>7. R[i].parent = NoTask BY <1>2, <1>4, <1>5, <1>6
<1>. QED BY <1>3, <1>7

\* A run is derived from one that has ended.
LEMMA DeriveHolds ==
  ASSUME SubmissionInv, NEW s \in Session, Derive(s)
  PROVE  SubmissionInv'
<1>. DEFINE asked == req[s].content
            q == asked.run
            run == SourceRun(q)
            required == Selected(rows, run.nodes, asked.chosen)
            execute == ExecutedAgain(rows, required, asked.chosen)
            new == RetryRows(rows, required, execute, nextId)
            map == Fresh(required, nextId)
            root == CHOOSE i \in DOMAIN new : new[i].parent = NoTask
            changed == Enrolled(q)
            newRuns == Over([k \in {root} |-> NewRun(new, root, q)], [k \in {q} |-> run])
            drawn == Cardinality(required)
<1>1. CASE Refuse(s) BY <1>1, RefuseHolds
<1>2. CASE /\ run.status \in Unsuccessful /\ Restorable(run, q)
           /\ asked.chosen \subseteq run.nodes /\ Enclosed(rows, required)
           /\ Uncertain(run, required) => asked.safe
           /\ \A i \in required \ execute : Resolves(rows, rows[i])
           /\ Store(s, new, changed, newRuns, drawn)
  <2>1. /\ Serves(s) /\ req[s].at = "retry" /\ nextId + Cardinality(run.nodes) - 1 <= MaxId
    <3>. HIDE DEF run
    <3>1. req[s].at = "retry" /\ nextId + Cardinality(run.nodes) - 1 <= MaxId BY DEF Derive, run
    <3>. QED BY <3>1 DEF SubmissionInv, Idle
  <2>2. q \in DOMAIN rows /\ rows[q].parent = NoTask BY <2>1 DEF Serves
  <2>3. TypeOK /\ Forest(rows) /\ Recorded BY DEF SubmissionInv
  <2>4. run.nodes = AllInTree(rows, q) BY <1>2 DEF Restorable
  <2>5. Shape(rows) BY <2>3, ForestFounded
  <2>6. AllInTree(rows, q) = {i \in DOMAIN rows : rows[i].tree = q}
    BY <2>2, <2>5 DEF AllInTree, Shape
  <2>. DEFINE nodes == run.nodes
  <2>7. nodes = {i \in DOMAIN rows : rows[i].tree = q} /\ q \in nodes /\ rows[q].tree = q
    BY <2>2, <2>4, <2>5, <2>6 DEF Shape
  <2>8. IsFiniteSet(DOMAIN rows) /\ IsFiniteSet(nodes)
    <3>1. nodes \in SUBSET DOMAIN rows BY <2>7
    <3>2. IsFiniteSet(DOMAIN rows) BY <2>5 DEF Shape
    <3>. HIDE DEF nodes
    <3>. QED BY <3>1, <3>2, FS_Subset
  <2>9. asked.chosen \in SUBSET nodes BY <1>2
  <2>. DEFINE chosen == asked.chosen
  <2>10. required \subseteq nodes /\ chosen \subseteq required /\ (chosen = {} => required = nodes)
    <3>1. required = Selected(rows, nodes, chosen) OBVIOUS
    <3>. HIDE DEF required, nodes, chosen
    <3>. QED BY <2>8, <2>9, <3>1, SelectedNodes DEF chosen
  <2>11. required # {}
    <3>. HIDE DEF required, nodes
    <3>. QED BY <2>7, <2>10
  <2>. HIDE DEF required, chosen
  <2>12. q \in required /\ \A i \in required : rows[i].parent = NoTask <=> i = q
    <3>1. required \subseteq AllInTree(rows, q) BY <2>4, <2>10
    <3>. HIDE DEF q, run
    <3>. QED BY <1>2, <2>2, <2>3, <2>11, <3>1, RootIsRequired
  <2>13. IsFiniteSet(required) /\ Cardinality(required) \in Nat
         /\ Cardinality(required) <= Cardinality(nodes) /\ Cardinality(nodes) \in Nat
    <3>. HIDE DEF nodes
    <3>. QED BY <2>8, <2>10, FS_Subset, FS_CardinalityType
  <2>14. nextId \in Nat \ {0} /\ MaxId \in Nat /\ nextId <= MaxId + 1
    BY <2>3, SubmissionAssumption DEF TypeOK
  <2>. HIDE DEF execute
  <2>15. DOMAIN new = nextId..(nextId + drawn - 1) /\ Renamed(rows, required, execute, q, new, map)
    <3>. HIDE DEF q
    <3>. QED BY <2>12, <2>13, <2>14, RetryRowsAre
  <2>. HIDE DEF new, map
  <2>16. DOMAIN new \subseteq 1..MaxId \cup GivenId /\ nextId + drawn \in 1..MaxId + 1
    BY <2>1, <2>13, <2>14, <2>15
  <2>17. IsFiniteSet(DOMAIN new)
    <3>1. nextId \in Int /\ nextId + drawn - 1 \in Int BY <2>13, <2>14
    <3>. QED BY <2>15, <3>1, FS_Interval
  <2>18. NoTask \notin DOMAIN new BY <2>16, NullIsNoId
  <2>19. Forest(new) /\ (\A i \in DOMAIN new : new[i].parent = NoTask <=> i = map[q])
    <3>1. required \in SUBSET DOMAIN rows BY <2>7, <2>10
    <3>2. Enclosed(rows, required) BY <1>2
    <3>. HIDE DEF q
    <3>3. \A i \in required : rows[i].parent = NoTask <=> i = q BY <2>12
    <3>4. q \in required /\ Forest(rows) BY <2>3, <2>12
    <3>5. Renamed(rows, required, execute, q, new, map) BY <2>15
    <3>. QED BY <2>17, <2>18, <3>1, <3>2, <3>3, <3>4, <3>5, RetryForest
  <2>20. map[q] \in DOMAIN new BY <2>12, <2>15 DEF Renamed
  <2>21. root = map[q] BY <2>19, <2>20
  <2>22. \A i \in DOMAIN new : new[i].tree = root /\ new[i].run = root /\ new[i].status \in Status
    <3>1. \A i \in required : /\ new[map[i]].tree = map[q] /\ new[map[i]].run = map[q]
                              /\ new[map[i]].status \in {"completed", "pending"}
      BY <2>15 DEF Renamed
    <3>2. DOMAIN new = {map[i] : i \in required} BY <2>15 DEF Renamed
    <3>. QED BY <2>21, <3>1, <3>2 DEF Status
  <2>. HIDE DEF root
  <2>23. Marked(rows, changed, q)
    BY <2>7, <2>4 DEF Marked, Enrolled
  <2>24. CASE Slot(s) \notin DOMAIN receipts /\ DOMAIN new \cap DOMAIN rows = {}
    <3>1. rows' = Over(new, Over(changed, rows)) BY <1>2, <2>24 DEF Store
    <3>2. Extended(rows, new, q, rows')
      <4>1. NoTask \notin DOMAIN new \cup DOMAIN rows BY <2>3, <2>18, NullIsNoId DEF TypeOK
      <4>. HIDE DEF changed, q
      <4>. QED BY <2>3, <2>19, <2>23, <2>24, <3>1, <4>1, StoredRows
    <3>3. /\ DOMAIN rows' = DOMAIN new \cup DOMAIN rows
          /\ \A i \in DOMAIN new : rows'[i] = new[i]
          /\ Grown(rows, rows') /\ Untouched(rows, rows', nodes)
          /\ \A i \in DOMAIN rows : rows'[i].tree = rows[i].tree /\ rows'[i].parent = rows[i].parent
                                    /\ rows'[i].tree \in DOMAIN rows
      BY <2>7, <3>2 DEF Extended, Grown, Untouched
    <3>4. AllInTree(rows', q) = nodes /\ rows'[q].parent = NoTask
      <4>1. rows'[q].parent = NoTask /\ rows'[q].tree = q BY <2>2, <2>7, <3>3
      <4>2. AllInTree(rows', q) = {i \in DOMAIN rows' : rows'[i].tree = q} BY <4>1 DEF AllInTree
      <4>3. root # q BY <2>2, <2>20, <2>21, <2>24
      <4>. QED BY <2>7, <2>22, <3>3, <4>1, <4>2, <4>3
    <3>5. AllInTree(rows', root) = DOMAIN new /\ rows'[root].parent = NoTask
          /\ AllInTree(new, root) = DOMAIN new
      <4>1. root \in DOMAIN new /\ new[root].parent = NoTask /\ new[root].tree = root
        BY <2>19, <2>20, <2>21, <2>22
      <4>2. AllInTree(new, root) = {i \in DOMAIN new : new[i].tree = root} BY <4>1 DEF AllInTree
      <4>3. AllInTree(rows', root) = {i \in DOMAIN rows' : rows'[i].tree = root}
        BY <3>3, <4>1 DEF AllInTree
      <4>4. \A i \in DOMAIN rows : rows'[i].tree # root BY <2>24, <3>3, <4>1
      <4>5. \A i \in DOMAIN rows' : rows'[i].tree = root <=> i \in DOMAIN new
        BY <2>22, <3>3, <4>4
      <4>6. AllInTree(rows', root) = DOMAIN new BY <3>3, <4>3, <4>5
      <4>7. AllInTree(new, root) = DOMAIN new BY <2>22, <4>2
      <4>. QED BY <3>3, <4>1, <4>6, <4>7
    <3>6. /\ DOMAIN newRuns = {root, q} /\ root # q
          /\ newRuns[root] = NewRun(new, root, q) /\ newRuns[q] = run
      BY <2>2, <2>20, <2>21, <2>24 DEF Over
    <3>7. /\ NewRun(new, root, q).nodes = DOMAIN new /\ NewRun(new, root, q).retryOf = q
          /\ NewRun(new, root, q).status \in {"accepted", "completed"} \cup Unsuccessful
      <4>1. Summary(new, AllInTree(new, root)) \in {"accepted", "completed"} \cup Unsuccessful
        BY DEF Summary, Unsuccessful
      <4>. QED BY <3>5, <4>1 DEF NewRun
    <3>8. q \notin DOMAIN runs => run.retryOf = NoTask BY DEF SourceRun, NewRun
    <3>9. q \in DOMAIN runs => run = runs[q] BY DEF SourceRun
    <3>10. root \notin DOMAIN runs BY <2>3, <2>20, <2>21, <2>24 DEF TypeOK
    <3>11. SoundRetry(rows', DOMAIN new, nodes, run.status, asked)
      <4>1. run.status \in Unsuccessful /\ (run.status = "reconciliation_required" => asked.safe)
        BY <1>2 DEF Uncertain
      <4>2. /\ required = Selected(rows, nodes, asked.chosen) /\ Enclosed(rows, required)
            /\ execute = ExecutedAgain(rows, required, asked.chosen)
            /\ \A i \in required \ execute : Resolves(rows, rows[i])
        BY <1>2 DEF required, execute
      <4>3. IsFiniteSet(DOMAIN rows')
        <5>1. Forest(rows') BY <3>2 DEF Extended
        <5>. QED BY <5>1 DEF Forest
      <4>4. NoTask \notin nodes /\ nodes \in SUBSET DOMAIN rows
        BY <2>3, <2>7, NullIsNoId DEF TypeOK
      <4>5. DOMAIN new \subseteq DOMAIN rows' BY <3>3
      <4>6. asked.chosen \subseteq nodes BY <1>2
      <4>. DEFINE status == run.status
      <4>7. status \in Unsuccessful /\ (status = "reconciliation_required" => asked.safe) BY <4>1
      <4>. HIDE DEF asked, nodes, q, run, status
      <4>8. SoundRetry(rows', DOMAIN new, nodes, status, asked)
        BY <2>8, <2>12, <2>15, <3>3, <4>2, <4>3, <4>4, <4>5, <4>6, <4>7, RetryIsSound
      <4>. QED BY <4>8 DEF status
    <3>. HIDE DEF newRuns, changed, run, drawn, asked
    <3>12. ASSUME NEW r \in DOMAIN newRuns
           PROVE  /\ r \in DOMAIN runs => newRuns[r] = runs[r]
                  /\ newRuns[r].status \in {"accepted", "completed"} \cup Unsuccessful
                  /\ r \in DOMAIN rows' /\ rows'[r].parent = NoTask
                  /\ newRuns[r].nodes = AllInTree(rows', r)
                  /\ r \in DOMAIN runs \/ newRuns[r].retryOf = NoTask
                     \/ /\ newRuns[r].retryOf \in DOMAIN newRuns /\ newRuns[r].nodes = DOMAIN new
                        /\ SoundRetry(rows', DOMAIN new, newRuns[newRuns[r].retryOf].nodes,
                                      newRuns[newRuns[r].retryOf].status, req[s].content)
      <4>1. CASE r = root
        BY <2>20, <2>21, <3>3, <3>5, <3>6, <3>7, <3>10, <3>11, <4>1 DEF asked
      <4>2. CASE r = q
        BY <1>2, <2>2, <3>3, <3>4, <3>6, <3>8, <3>9, <4>2
      <4>. QED BY <3>6, <4>1, <4>2
    <3>13. Store(s, new, changed, newRuns, drawn) BY <1>2
    <3>14. \A i \in DOMAIN new : new[i].status \in Status /\ new[i].run \in DOMAIN newRuns \cup {NoTask}
      BY <2>22, <3>6
    <3>15. q \in DOMAIN newRuns \cup {NoTask} BY <3>6
    <3>. HIDE DEF q
    <3>. QED BY <2>1, <2>16, <2>19, <2>23, <2>24, <3>12, <3>13, <3>14, <3>15, StoreHolds
  <2>25. CASE ~(Slot(s) \notin DOMAIN receipts /\ DOMAIN new \cap DOMAIN rows = {})
    <3>1. Store(s, new, changed, newRuns, drawn) BY <1>2
    <3>. HIDE DEF newRuns, changed, drawn
    <3>. QED BY <2>25, <3>1, StoreElse
  <2>. QED BY <2>24, <2>25
<1>3. Refuse(s) \/ /\ run.status \in Unsuccessful /\ Restorable(run, q)
                   /\ asked.chosen \subseteq run.nodes /\ Enclosed(rows, required)
                   /\ Uncertain(run, required) => asked.safe
                   /\ \A i \in required \ execute : Resolves(rows, rows[i])
                   /\ Store(s, new, changed, newRuns, drawn)
  <2>. HIDE DEF run, required, execute, new, root
  <2>. QED BY DEF Derive, run, required, execute, new, root
<1>. QED BY <1>1, <1>2, <1>3

LEMMA StutterHolds == ASSUME SubmissionInv, UNCHANGED vars PROVE SubmissionInv'
<1>1. UNCHANGED <<rows, runs, receipts, nextId, req, answers, calls>> BY DEF vars
<1>2. nextId' \in 1..MaxId + 1 /\ calls' \in 0..Calls BY <1>1 DEF SubmissionInv, TypeOK
<1>3. req' = [t \in Session |-> req'[t]] BY <1>1 DEF SubmissionInv
<1>4. \A s \in Session : req'[s] = req[s] BY <1>1
<1>5. CASE Session = {}
  <2>1. NoTask \notin Session BY <1>5
  <2>. QED BY <1>1, <1>2, <1>3, <1>4, <2>1, Quiet
<1>6. CASE Session # {}
  <2>1. PICK t \in Session : TRUE BY <1>6
  <2>2. req'[t] = Idle \/ Serves(t)'
    <3>1. req[t] = Idle \/ Serves(t) BY DEF SubmissionInv
    <3>. QED BY <1>1, <3>1 DEF Serves
  <2>. QED BY <1>1, <1>2, <1>3, <1>4, <2>2, Quiet
<1>. QED BY <1>5, <1>6

LEMMA StepHolds == SubmissionInv /\ [Next]_vars => SubmissionInv'
<1>. SUFFICES ASSUME SubmissionInv, [Next]_vars PROVE SubmissionInv' OBVIOUS
<1>1. ASSUME calls > 0, RootsExecute PROVE SubmissionInv'
  BY <1>1, ExecuteHolds DEF RootsExecute
<1>2. ASSUME calls > 0, NEW s \in Session, Asked(s) PROVE SubmissionInv'
  BY <1>2, AskHolds
<1>3. ASSUME NEW s \in Session, ReadReceipt(s) PROVE SubmissionInv' BY <1>3, ReadReceiptHolds
<1>4. ASSUME NEW s \in Session, Validate(s) PROVE SubmissionInv' BY <1>4, ValidateHolds
<1>5. ASSUME NEW s \in Session, Insert(s) PROVE SubmissionInv' BY <1>5, InsertHolds
<1>6. ASSUME NEW s \in Session, Derive(s) PROVE SubmissionInv' BY <1>6, DeriveHolds
<1>7. ASSUME UNCHANGED vars PROVE SubmissionInv' BY <1>7, StutterHolds
<1>. QED BY <1>1, <1>2, <1>3, <1>4, <1>5, <1>6, <1>7 DEF Next

-----------------------------------------------------------------------------
(* Theorems. *)

\* What the table, the runs, the receipts and the sessions keep to after any creation,
\* execution and retry, each in one commit with its receipt (submission.py,
\* create_with_receipt): whole trees, a run for the tree of its root, and for each retry
\* the ended run that it was derived from.
THEOREM SubmissionCorrect == Spec => []SubmissionInv
  BY InitHolds, StepHolds, PTL DEF Spec

\* However often and from however many sessions a request is made with its key, the
\* answers name the rows of one receipt, and nothing is left of those that lost the race
\* for the key (submission.py, create_with_receipt).
THEOREM Receipts == Spec => []ReceiptsHold
<1>1. SubmissionInv => ReceiptsHold
  <2>. SUFFICES ASSUME SubmissionInv PROVE ReceiptsHold OBVIOUS
  <2>1. TypeOK /\ Recorded BY DEF SubmissionInv
  <2>2. \A x \in answers : x = [slot |-> x.slot, content |-> receipts[x.slot].content,
                                ids |-> receipts[x.slot].ids]
    BY <2>1 DEF Recorded
  <2>3. AnsweredAlike BY <2>2 DEF AnsweredAlike
  <2>. QED BY <2>1, <2>3 DEF ReceiptsHold, Recorded
<1>. QED BY <1>1, SubmissionCorrect, PTL

\* Nothing hangs below itself or depends on itself, whatever arrays are submitted
\* (task_creator.py, _validate_parent_ids_acyclic; dependency_validator.py,
\* detect_circular_dependencies) and however often their runs are retried (run_retry.py,
\* _clone_nodes).
THEOREM Acyclicity == Spec => []GraphsAreAcyclic
<1>1. SubmissionInv => GraphsAreAcyclic
  BY DEF SubmissionInv, Forest, GraphsAreAcyclic
<1>. QED BY <1>1, SubmissionCorrect, PTL

\* What a retry reuses rests on what it reuses, what it executes again has a reason, what
\* it takes along is closed, and uncertain effects are only repeated for who says that
\* this is safe (run_retry.py, _derive_run, _select_nodes, _execution_nodes and
\* _validate_replay).
THEOREM Retries == Spec => []RetriesAreSound
<1>1. SubmissionInv => RetriesAreSound
  BY DEF SubmissionInv
<1>. QED BY <1>1, SubmissionCorrect, PTL

=============================================================================
