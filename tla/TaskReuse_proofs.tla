--------------------------- MODULE TaskReuse_proofs --------------------------
(* Proofs about TaskReuse, for any libraries of sound rows, any requests and  *)
(* any number of sessions.                                                    *)
EXTENDS TaskReuse, TaskTrees_proofs

\* The nodes an operation takes along are rows.
LEMMA NodesExist ==
  ASSUME IsFiniteSet(DOMAIN rows), NEW r, r.task \in DOMAIN rows
  PROVE  Nodes(r) \subseteq DOMAIN rows
<1>1. Descendants(rows, r.task) \subseteq DOMAIN rows BY DescendantsExist
<1>2. Descendants(rows, RootOf(rows, r.task)) \subseteq DOMAIN rows
  BY RootExists, DescendantsExist
<1>3. ASSUME NEW required PROVE MinimalSubtree(rows, RootOf(rows, r.task), required) \subseteq DOMAIN rows
  BY <1>2 DEF MinimalSubtree
<1>4. \A excluded, auto, dependents :
        Augmented(rows, r.task, excluded, auto, dependents) \subseteq DOMAIN rows
  BY <1>1, <1>3 DEF Augmented
<1>. QED BY <1>1, <1>4 DEF Nodes

-----------------------------------------------------------------------------
(* Rows. *)

\* A sound row as a record that can be updated.
LEMMA SoundRow ==
  ASSUME NEW row
  PROVE  Sound(row) <=>
           /\ row = [column \in Columns |-> row[column]]
           /\ row.origin # "link" => /\ row.content # "none"
                                     /\ row.status = "completed" => row.result # NoTask
           /\ row.frozen \/ row.origin = "archive" => Whole(row)
  BY RowColumns DEF Sound

\* Marks, references and the identifier of a run do not matter to soundness.
LEMMA SoundMark ==
  ASSUME NEW row, Sound(row), NEW column \in {"parent", "deps", "tree", "original", "run",
                                              "referenced", "source"}, NEW value
  PROVE  Sound([row EXCEPT ![column] = value])
<1>. DEFINE new == [row EXCEPT ![column] = value]
<1>1. new = [c \in Columns |-> IF c = column THEN value ELSE row[c]]
  BY SoundRow
<1>2. new = [c \in Columns |-> new[c]] BY <1>1
<1>3. /\ new.origin = row.origin /\ new.content = row.content /\ new.status = row.status
      /\ new.result = row.result /\ new.frozen = row.frozen
  BY <1>1 DEF Columns
<1>. HIDE DEF new
<1>4. Sound(new) BY <1>2, <1>3, SoundRow DEF Whole
<1>. QED BY <1>4 DEF new

LEMMA SoundNew ==
  /\ \A content : content # "none" => Sound(NewRow("copy", content))
  /\ \A status : Sound([NewRow("link", "none") EXCEPT !.status = status])
<1>1. ASSUME NEW content, content # "none" PROVE Sound(NewRow("copy", content))
  <2>1. NewRow("copy", content) = [c \in Columns |-> NewRow("copy", content)[c]]
    BY DEF NewRow, Columns
  <2>2. /\ NewRow("copy", content).origin = "copy" /\ NewRow("copy", content).content = content
        /\ NewRow("copy", content).status = "pending" /\ ~NewRow("copy", content).frozen
    BY DEF NewRow
  <2>. QED BY <1>1, <2>1, <2>2, SoundRow
<1>2. ASSUME NEW status PROVE Sound([NewRow("link", "none") EXCEPT !.status = status])
  <2>. DEFINE row == [NewRow("link", "none") EXCEPT !.status = status]
  <2>1. row = [c \in Columns |-> row[c]] BY DEF NewRow, Columns
  <2>2. row.origin = "link" /\ ~row.frozen BY DEF NewRow
  <2>. HIDE DEF row
  <2>3. Sound(row) BY <2>1, <2>2, SoundRow
  <2>. QED BY <2>3 DEF row
<1>. QED BY <1>1, <1>2

LEMMA FinitelyMany == ReuseInv => IsFiniteSet(DOMAIN rows)
<1>. SUFFICES ASSUME ReuseInv PROVE IsFiniteSet(DOMAIN rows) OBVIOUS
<1>1. nextId - 1 \in Nat /\ DOMAIN rows \in SUBSET (1..(nextId - 1)) BY DEF ReuseInv
<1>2. IsFiniteSet(1..(nextId - 1)) BY <1>1, FS_Interval
<1>. QED BY <1>1, <1>2, FS_Subset

\* What a sound row stands for is whole if the row is completed.
LEMMA EffectiveSound ==
  ASSUME ReuseInv, NEW i \in DOMAIN rows, Resolves(rows, rows[i])
  PROVE  /\ Effective(rows, rows[i]).content # "none"
         /\ rows[i].status = "completed" => Whole(Effective(rows, rows[i]))
         /\ Effective(rows, rows[i]).run \in DOMAIN runs \cup {NoTask}
         /\ rows[i].frozen => Effective(rows, rows[i]) = rows[i]
<1>. DEFINE e == Effective(rows, rows[i])
<1>1. /\ ~Follows(e)
      /\ e = rows[i] \/ \E j \in DOMAIN rows : e = rows[j] /\ rows[j].status = "completed"
  BY FinitelyMany, EffectiveRow
<1>2. PICK j \in DOMAIN rows : e = rows[j] /\ (e = rows[i] \/ rows[j].status = "completed")
  BY <1>1
<1>3. rows[i].frozen => e = rows[i]
  BY DEF Effective, Follows, ReuseInv, Sound, Whole
<1>. HIDE DEF e
<1>4. Sound(e) /\ e.run \in DOMAIN runs \cup {NoTask} BY <1>2 DEF ReuseInv
<1>5. e.frozen \/ e.origin # "link" BY <1>1 DEF Follows
<1>6. e.content # "none" BY <1>4, <1>5 DEF Sound, Whole
<1>7. rows[i].status = "completed" => Whole(e) BY <1>2, <1>4, <1>5 DEF Sound, Whole
<1>. QED BY <1>3, <1>4, <1>6, <1>7 DEF e

-----------------------------------------------------------------------------
(* Clones. *)

LEMMA ClonedSound ==
  ASSUME ReuseInv, NEW i \in DOMAIN rows, NEW kind \in {"copy", "link", "mixed"},
         kind = "copy" => Resolves(rows, rows[i])
  PROVE  LET row == ClonedRow(rows, i, kind)
         IN  /\ Sound(row) /\ row.origin # "archive"
             /\ row.run \in DOMAIN runs \cup {NoTask}
<1>. DEFINE old == rows[i]
            row == CASE kind = "copy" -> NewRow("copy", Effective(rows, old).content)
                     [] kind = "link" -> [NewRow("link", "none") EXCEPT !.status = old.status]
                     [] kind = "mixed" -> [old EXCEPT !.origin = "link", !.referenced = FALSE]
<1>1. Sound(old) /\ old.run \in DOMAIN runs \cup {NoTask} BY DEF ReuseInv
<1>2. Sound(row) /\ row.origin # "archive" /\ row.run \in DOMAIN runs \cup {NoTask}
  <2>1. CASE kind = "copy"
    <3>1. Effective(rows, old).content # "none" BY <2>1, EffectiveSound
    <3>2. row = NewRow("copy", Effective(rows, old).content) BY <2>1
    <3>. HIDE DEF row
    <3>3. Sound(row) BY <3>1, <3>2, SoundNew
    <3>4. row.origin = "copy" /\ row.run = NoTask BY <3>2 DEF NewRow
    <3>. QED BY <3>3, <3>4
  <2>2. CASE kind = "link"
    <3>1. row = [NewRow("link", "none") EXCEPT !.status = old.status] BY <2>2
    <3>2. row.origin = "link" /\ row.run = NoTask BY <3>1 DEF NewRow
    <3>. HIDE DEF row
    <3>3. Sound(row) BY <3>1, SoundNew
    <3>. QED BY <3>2, <3>3
  <2>3. CASE kind = "mixed"
    <3>1. row = [old EXCEPT !.origin = "link", !.referenced = FALSE] BY <2>3
    <3>2. old = [c \in Columns |-> old[c]] BY <1>1, SoundRow
    <3>. HIDE DEF row, old
    <3>3. row = [c \in Columns |-> row[c]] BY <3>1, <3>2
    <3>4. /\ row.origin = "link" /\ row.content = old.content /\ row.status = old.status
          /\ row.result = old.result /\ row.frozen = old.frozen /\ row.run = old.run
      BY <3>1, <3>2 DEF Columns
    <3>5. Sound(row) BY <1>1, <3>3, <3>4, SoundRow DEF Whole
    <3>. QED BY <1>1, <3>4, <3>5
  <2>. QED BY <2>1, <2>2, <2>3
<1>. HIDE DEF row
<1>. DEFINE r1 == [row EXCEPT !["original"] = MostOriginal(rows, i)]
            r2 == [r1 EXCEPT !["parent"] = old.parent]
            r3 == [r2 EXCEPT !["deps"] = old.deps]
<1>3. Sound(r1) BY <1>2, SoundMark
<1>4. Sound(r2)
  <2>. HIDE DEF r1
  <2>. QED BY <1>3, SoundMark
<1>5. Sound(r3)
  <2>. HIDE DEF r2
  <2>. QED BY <1>4, SoundMark
<1>6. row = [c \in Columns |-> row[c]] BY <1>2, SoundRow
<1>7. r3.origin = row.origin /\ r3.run = row.run BY <1>6 DEF Columns
<1>8. ClonedRow(rows, i, kind) = r3 BY DEF ClonedRow, row, old
<1>. QED BY <1>2, <1>5, <1>7, <1>8

\* What a clone becomes when it is saved: rows with fresh identifiers, sound as before,
\* whose parents are clones of the same operation.
LEMMA PromotedSound ==
  ASSUME ReuseInv, NEW clones, clones = [i \in DOMAIN clones |-> clones[i]],
         IsFiniteSet(DOMAIN clones),
         \A i \in DOMAIN clones : /\ Sound(clones[i]) /\ clones[i].origin # "archive"
                                  /\ clones[i].run \in DOMAIN runs \cup {NoTask}
  PROVE  LET new == Promoted(clones, nextId)
         IN  /\ new = [k \in DOMAIN new |-> new[k]]
             /\ DOMAIN new = nextId..(nextId + Cardinality(DOMAIN clones) - 1)
             /\ nextId + Cardinality(DOMAIN new) - 1 = nextId + Cardinality(DOMAIN clones) - 1
             /\ \A k \in DOMAIN new : /\ Sound(new[k]) /\ new[k].origin # "archive"
                                      /\ new[k].run \in DOMAIN runs \cup {NoTask}
                                      /\ new[k].parent \in DOMAIN new \cup {NoTask}
<1>. DEFINE c == Cardinality(DOMAIN clones)
            map == Fresh(DOMAIN clones, nextId)
            ids == {map[i] : i \in DOMAIN clones}
            source == [k \in ids |-> CHOOSE i \in DOMAIN clones : map[i] = k]
            top == CHOOSE i \in DOMAIN clones : clones[i].parent \notin DOMAIN clones
            old(k) == clones[source[k]]
            parent(k) == IF old(k).parent \in DOMAIN map THEN map[old(k).parent] ELSE NoTask
            row(k) == [old(k) EXCEPT !.parent = parent(k), !.deps = Remap(map, @),
                                     !.tree = map[top]]
            new == Promoted(clones, nextId)
<1>1. nextId \in Nat /\ c \in Nat BY FS_CardinalityType DEF ReuseInv
<1>2. map \in [DOMAIN clones -> nextId..(nextId + c - 1)] /\ ids = nextId..(nextId + c - 1)
  BY <1>1, FreshIds
<1>3. new = [k \in ids |-> [old(k) EXCEPT
               !.parent = IF @ \in DOMAIN map THEN map[@] ELSE NoTask,
               !.deps = Remap(map, @), !.tree = map[top]]]
  BY DEF Promoted
<1>. HIDE DEF map, top, new
<1>4. DOMAIN source = ids /\ \A k \in ids : source[k] \in DOMAIN clones
  OBVIOUS
<1>. HIDE DEF source
<1>5. DOMAIN new = nextId..(nextId + c - 1) /\ new = [k \in DOMAIN new |-> new[k]]
  BY <1>2, <1>3
<1>6. Cardinality(DOMAIN new) = c
  <2>1. nextId \in Int /\ nextId + c - 1 \in Int BY <1>1
  <2>. HIDE DEF c
  <2>2. Cardinality(nextId..(nextId + c - 1)) = c BY <1>1, <2>1, FS_Interval
  <2>. QED BY <1>5, <2>2
<1>7. ASSUME NEW k \in ids
      PROVE  /\ Sound(new[k]) /\ new[k].origin # "archive"
             /\ new[k].run \in DOMAIN runs \cup {NoTask}
             /\ new[k].parent \in ids \cup {NoTask}
  <2>. DEFINE o == old(k)
              r1 == [o EXCEPT !["parent"] = parent(k)]
              r2 == [r1 EXCEPT !["deps"] = Remap(map, o.deps)]
              r3 == [r2 EXCEPT !["tree"] = map[top]]
  <2>1. Sound(o) /\ o.origin # "archive" /\ o.run \in DOMAIN runs \cup {NoTask}
    BY <1>4
  <2>2. o = [d \in Columns |-> o[d]] BY <2>1, SoundRow
  <2>3. parent(k) \in ids \cup {NoTask} BY <1>2
  <2>4. new[k] = [o EXCEPT !.parent = IF @ \in DOMAIN map THEN map[@] ELSE NoTask,
                           !.deps = Remap(map, @), !.tree = map[top]]
    BY <1>3
  <2>. HIDE DEF o
  <2>5. new[k] = [d \in Columns |->
                    IF d = "parent" THEN (IF o.parent \in DOMAIN map THEN map[o.parent] ELSE NoTask)
                    ELSE IF d = "deps" THEN Remap(map, o.deps)
                    ELSE IF d = "tree" THEN map[top] ELSE o[d]]
    BY <2>2, <2>4 DEF Columns
  <2>6. /\ new[k] = [d \in Columns |-> new[k][d]]
        /\ new[k].origin = o.origin /\ new[k].run = o.run /\ new[k].content = o.content
        /\ new[k].status = o.status /\ new[k].result = o.result /\ new[k].frozen = o.frozen
    BY <2>5 DEF Columns
  <2>7. new[k].parent = parent(k) BY <2>5 DEF Columns, o
  <2>8. Sound(new[k]) BY <2>1, <2>6, SoundRow DEF Whole
  <2>. QED BY <2>1, <2>3, <2>6, <2>7, <2>8
<1>. QED BY <1>2, <1>5, <1>6, <1>7 DEF new

-----------------------------------------------------------------------------
(* Steps. *)

\* What a step keeps: the invariant, what is frozen and what a run is about.
Kept == ReuseInv' /\ FrozenIsKept /\ DefinitionsAreKept

LEMMA InitReuse == Init => ReuseInv
<1>. SUFFICES ASSUME Init PROVE ReuseInv OBVIOUS
<1>1. rows \in Library BY DEF Init
<1>2. PICK n \in 0..MaxId : rows = [i \in 1..n |-> rows[i]] BY <1>1, LibraryAssumption
<1>3. DOMAIN rows = 1..n /\ n \in Nat BY <1>2, ReuseAssumption
<1>4. Cardinality(DOMAIN rows) = n
  <2>1. Cardinality(1..n) = n BY <1>3, FS_Interval
  <2>. QED BY <1>3, <2>1
<1>5. nextId = n + 1 BY <1>3, <1>4 DEF Init
<1>6. DOMAIN rows = 1..(nextId - 1) /\ nextId \in Nat \ {0} BY <1>3, <1>5
<1>7. DOMAIN runs = {rows[i].run : i \in DOMAIN rows} \ {NoTask} BY DEF Init
<1>8. \A i \in DOMAIN rows : Sound(rows[i]) /\ rows[i].run \in DOMAIN runs \cup {NoTask}
  BY <1>1, <1>7, LibraryAssumption
<1>9. ASSUME NEW r \in DOMAIN runs
      PROVE  /\ DOMAIN runs[r] = {"status", "nodes"} /\ runs[r].nodes \subseteq DOMAIN rows
             /\ \A i \in runs[r].nodes : rows[i].run \in DOMAIN runs
  <2>1. PICK i \in DOMAIN rows : rows[i].run = r /\ r # NoTask BY <1>7
  <2>2. /\ r \in DOMAIN rows /\ rows[r].parent = NoTask
        /\ \A j \in DOMAIN rows : rows[j].tree = rows[r].tree => rows[j].run # NoTask
    BY <1>1, <2>1, LibraryAssumption
  <2>3. runs[r].nodes = AllInTree(rows, r) /\ DOMAIN runs[r] = {"status", "nodes"}
    BY <1>7 DEF Init
  <2>4. AllInTree(rows, r) = {j \in DOMAIN rows : rows[j].tree = rows[r].tree}
    BY <2>2 DEF AllInTree
  <2>. QED BY <1>8, <2>2, <2>3, <2>4
<1>10. rows = [i \in DOMAIN rows |-> rows[i]] BY <1>2, <1>3
<1>11. ASSUME NEW s \in Session
       PROVE  /\ "at" \in DOMAIN req[s] /\ req[s].at = "idle"
  BY DEF Init, Idle
<1>12. req = [s \in Session |-> req[s]] BY DEF Init
<1>. QED BY <1>6, <1>8, <1>9, <1>10, <1>11, <1>12 DEF ReuseInv, Remembers

\* A step that writes no row and no run.
LEMMA RowsUntouched ==
  ASSUME ReuseInv, UNCHANGED <<rows, runs, nextId>>,
         req' = [s \in Session |-> req'[s]],
         \A s \in Session : Remembers(s)'
  PROVE  Kept
<1>1. ReuseInv'
  BY DEF ReuseInv
<1>2. FrozenIsKept
  BY DEF FrozenIsKept
<1>3. DefinitionsAreKept BY DEF DefinitionsAreKept, ReuseInv
<1>. QED BY <1>1, <1>2, <1>3 DEF Kept

\* What a session did, and what the others have in memory: clones stay sound while the
\* runs they may belong to remain.
LEMMA OthersRemember ==
  ASSUME ReuseInv, DOMAIN runs \subseteq DOMAIN runs', NEW s \in Session,
         \A o \in Session \ {s} : req'[o] = req[o]
  PROVE  \A o \in Session \ {s} : Remembers(o)'
  BY DEF ReuseInv, Remembers, ClonesAreSound

LEMMA GiveUpKept == ASSUME ReuseInv, NEW s \in Session, GiveUp(s) PROVE Kept
<1>1. req' = [req EXCEPT ![s] = Idle] /\ UNCHANGED <<rows, runs, nextId>> BY DEF GiveUp
<1>2. req = [o \in Session |-> req[o]] BY DEF ReuseInv
<1>3. \A o \in Session \ {s} : req'[o] = req[o] BY <1>1, <1>2
<1>4. "at" \in DOMAIN req'[s] /\ req'[s].at = "idle" BY <1>1, <1>2 DEF Idle
<1>5. req' = [o \in Session |-> req'[o]] BY <1>1, <1>2
<1>6. Remembers(s)' BY <1>4 DEF Remembers
<1>. QED BY <1>1, <1>3, <1>5, <1>6, OthersRemember, RowsUntouched

\* A session that goes on with what it knows.
LEMMA GoesOn ==
  ASSUME ReuseInv, UNCHANGED <<rows, runs, nextId>>, NEW s \in Session, req[s].at # "idle",
         NEW memory, req' = [req EXCEPT ![s] = memory],
         DOMAIN memory = DOMAIN req[s], memory.op = req[s].op,
         memory.at \in {"gather", "lock", "read", "freeze"},
         memory.at = "gather" => req[s].op \in {"link", "copy", "mixed"}
  PROVE  Kept
<1>1. /\ req = [o \in Session |-> req[o]]
      /\ {"at", "op", "clones", "seen", "nodes"} \subseteq DOMAIN req[s]
  BY DEF ReuseInv, Remembers
<1>2. \A o \in Session \ {s} : req'[o] = req[o] BY <1>1
<1>3. req'[s] = memory BY <1>1
<1>4. req' = [o \in Session |-> req'[o]] BY <1>1
<1>5. Remembers(s)' BY <1>1, <1>3 DEF Remembers
<1>. QED BY <1>2, <1>4, <1>5, OthersRemember, RowsUntouched

LEMMA AskKept ==
  ASSUME ReuseInv, NEW s \in Session, NEW r \in Request,
         NEW at \in {"check", "gather", "authorize", "read"}, Ask(s, r, at),
         at \in {"check", "gather"} => r.op \in {"link", "copy", "mixed"}
  PROVE  Kept
<1>. DEFINE more == [at |-> at, clones |-> << >>, seen |-> {}, nodes |-> {}]
<1>1. /\ req' = [req EXCEPT ![s] = Over(more, r)] /\ UNCHANGED <<rows, runs, nextId>>
  BY DEF Ask
<1>2. req = [o \in Session |-> req[o]] BY DEF ReuseInv
<1>3. DOMAIN r = {"op", "task", "whole", "links", "auto", "dependents", "bridged"}
  BY ReuseAssumption
<1>4. /\ {"at", "op", "clones", "seen", "nodes"} \subseteq DOMAIN (Over(more, r))
      /\ (Over(more, r))["at"] = at /\ (Over(more, r))["op"] = r["op"]
  BY <1>3 DEF Over
<1>5. req'[s] = Over(more, r) /\ (\A o \in Session \ {s} : req'[o] = req[o]) BY <1>1, <1>2
<1>. HIDE DEF more
<1>6. req' = [o \in Session |-> req'[o]] BY <1>1, <1>2
<1>7. req'[s].at = at /\ req'[s].op = r.op BY <1>4, <1>5
<1>8. Remembers(s)' BY <1>4, <1>5, <1>7 DEF Remembers
<1>. QED BY <1>1, <1>5, <1>6, <1>8, OthersRemember, RowsUntouched

LEMMA CheckKept == ASSUME ReuseInv, NEW s \in Session, Check(s) PROVE Kept
<1>1. CASE GiveUp(s) BY <1>1, GiveUpKept
<1>2. CASE ~GiveUp(s)
  <2>. DEFINE memory == [req[s] EXCEPT !.at = "gather"]
  <2>1. /\ req[s].at = "check" /\ req' = [req EXCEPT ![s] = memory]
        /\ UNCHANGED <<rows, runs, nextId>>
    BY <1>2 DEF Check
  <2>2. /\ {"at", "op", "clones", "seen", "nodes"} \subseteq DOMAIN req[s]
        /\ req[s].op \in {"link", "copy", "mixed"}
    BY <2>1 DEF ReuseInv, Remembers
  <2>3. DOMAIN memory = DOMAIN req[s] /\ memory.op = req[s].op /\ memory.at = "gather" BY <2>2
  <2>. HIDE DEF memory
  <2>. QED BY <2>1, <2>2, <2>3, GoesOn
<1>. QED BY <1>1, <1>2

LEMMA AuthorizeKept == ASSUME ReuseInv, NEW s \in Session, Authorize(s) PROVE Kept
<1>1. CASE GiveUp(s) BY <1>1, GiveUpKept
<1>2. CASE ~GiveUp(s)
  <2>. DEFINE memory == [req[s] EXCEPT !.at = "lock", !.nodes = {RootOf(rows, req[s].task)}]
  <2>1. /\ req[s].at = "authorize" /\ req' = [req EXCEPT ![s] = memory]
        /\ UNCHANGED <<rows, runs, nextId>>
    BY <1>2 DEF Authorize
  <2>2. {"at", "op", "clones", "seen", "nodes"} \subseteq DOMAIN req[s] BY <2>1 DEF ReuseInv, Remembers
  <2>3. DOMAIN memory = DOMAIN req[s] /\ memory.op = req[s].op /\ memory.at = "lock" BY <2>2
  <2>. HIDE DEF memory
  <2>. QED BY <2>1, <2>2, <2>3, GoesOn
<1>. QED BY <1>1, <1>2

LEMMA LockRootKept == ASSUME ReuseInv, NEW s \in Session, LockRoot(s) PROVE Kept
<1>1. CASE GiveUp(s) BY <1>1, GiveUpKept
<1>2. CASE ~GiveUp(s)
  <2>. DEFINE memory == [req[s] EXCEPT !.at = "read"]
  <2>1. /\ req[s].at = "lock" /\ req' = [req EXCEPT ![s] = memory]
        /\ UNCHANGED <<rows, runs, nextId>>
    BY <1>2 DEF LockRoot
  <2>2. {"at", "op", "clones", "seen", "nodes"} \subseteq DOMAIN req[s] BY <2>1 DEF ReuseInv, Remembers
  <2>3. DOMAIN memory = DOMAIN req[s] /\ memory.op = req[s].op /\ memory.at = "read" BY <2>2
  <2>. HIDE DEF memory
  <2>. QED BY <2>1, <2>2, <2>3, GoesOn
<1>. QED BY <1>1, <1>2

LEMMA ReadKept == ASSUME ReuseInv, NEW s \in Session, Read(s) PROVE Kept
<1>1. CASE GiveUp(s) BY <1>1, GiveUpKept
<1>2. CASE ~GiveUp(s)
  <2>. DEFINE memory == [req[s] EXCEPT !.at = "freeze", !.nodes = Nodes(req[s]),
                                       !.seen = Descendants(rows, req[s].task)]
  <2>1. /\ req[s].at = "read" /\ req' = [req EXCEPT ![s] = memory]
        /\ UNCHANGED <<rows, runs, nextId>>
    BY <1>2 DEF Read
  <2>2. {"at", "op", "clones", "seen", "nodes"} \subseteq DOMAIN req[s] BY <2>1 DEF ReuseInv, Remembers
  <2>3. DOMAIN memory = DOMAIN req[s] /\ memory.op = req[s].op /\ memory.at = "freeze" BY <2>2
  <2>. HIDE DEF memory
  <2>. QED BY <2>1, <2>2, <2>3, GoesOn
<1>. QED BY <1>1, <1>2

\* The kinds of clones are those ClonedRow distinguishes, and copies resolve.
LEMMA GatherKept == ASSUME ReuseInv, NEW s \in Session, Gather(s) PROVE Kept
<1>1. CASE GiveUp(s) BY <1>1, GiveUpKept
<1>2. CASE ~GiveUp(s)
  <2>. DEFINE nodes == Nodes(req[s])
              kinds == Kinds(s, nodes)
              clones == Clones(rows, kinds)
              single == [i \in DOMAIN clones |-> [clones[i] EXCEPT !.parent = NoTask, !.deps = {}]]
              made == IF req[s].whole THEN clones ELSE single
              memory == [req[s] EXCEPT !.at = "save", !.clones = made]
  <2>1. /\ req[s].at = "gather" /\ req' = [req EXCEPT ![s] = memory]
        /\ UNCHANGED <<rows, runs, nextId>>
        /\ req[s].task \in DOMAIN rows /\ Clonable(rows, kinds)
    BY <1>2 DEF Gather
  <2>2. /\ req = [o \in Session |-> req[o]]
        /\ {"at", "op", "clones", "seen", "nodes"} \subseteq DOMAIN req[s]
        /\ req[s].op \in {"link", "copy", "mixed"}
    BY <2>1 DEF ReuseInv, Remembers
  <2>3. nodes \subseteq DOMAIN rows /\ IsFiniteSet(nodes)
    <3>1. IsFiniteSet(DOMAIN rows) BY FinitelyMany
    <3>2. nodes \in SUBSET DOMAIN rows BY <2>1, <3>1, NodesExist
    <3>. HIDE DEF nodes
    <3>. QED BY <3>1, <3>2, FS_Subset
  <2>4. DOMAIN kinds = nodes /\ \A i \in nodes : kinds[i] \in {"copy", "link", "mixed"}
    <3>. HIDE DEF nodes
    <3>. QED BY <2>2 DEF Kinds
  <2>. HIDE DEF nodes, kinds
  <2>5. clones = [i \in nodes |-> ClonedRow(rows, i, kinds[i])] BY <2>4 DEF Clones
  <2>6. ASSUME NEW i \in nodes
        PROVE  /\ Sound(clones[i]) /\ clones[i].origin # "archive"
               /\ clones[i].run \in DOMAIN runs \cup {NoTask}
    <3>1. kinds[i] = "copy" => Resolves(rows, rows[i]) BY <2>1, <2>4 DEF Clonable
    <3>2. clones[i] = ClonedRow(rows, i, kinds[i]) BY <2>5
    <3>. HIDE DEF clones
    <3>. QED BY <2>3, <2>4, <3>1, <3>2, ClonedSound
  <2>7. DOMAIN clones = nodes BY <2>5
  <2>. HIDE DEF clones
  <2>8. ASSUME NEW i \in nodes
        PROVE  /\ Sound(single[i]) /\ single[i].origin # "archive"
               /\ single[i].run \in DOMAIN runs \cup {NoTask}
    <3>. DEFINE r1 == [clones[i] EXCEPT !["parent"] = NoTask]
                r2 == [r1 EXCEPT !["deps"] = {}]
    <3>1. Sound(r1) BY <2>6, SoundMark
    <3>2. Sound(r2)
      <4>. HIDE DEF r1
      <4>. QED BY <3>1, SoundMark
    <3>3. single[i] = r2 BY <2>7
    <3>4. clones[i] = [c \in Columns |-> clones[i][c]] BY <2>6, SoundRow
    <3>5. r2.origin = clones[i].origin /\ r2.run = clones[i].run BY <3>4 DEF Columns
    <3>. HIDE DEF single, r2
    <3>. QED BY <2>6, <3>2, <3>3, <3>5
  <2>9. /\ made = [i \in DOMAIN made |-> made[i]] /\ DOMAIN made = nodes
    BY <2>5, <2>7 DEF clones
  <2>10. \A i \in nodes : /\ Sound(made[i]) /\ made[i].origin # "archive"
                          /\ made[i].run \in DOMAIN runs \cup {NoTask}
    <3>. HIDE DEF single
    <3>. QED BY <2>6, <2>8
  <2>. HIDE DEF made
  <2>11. /\ req'[s].clones = made /\ req'[s].at = "save"
         /\ DOMAIN req'[s] = DOMAIN req[s]
         /\ req' = [o \in Session |-> req'[o]]
         /\ \A o \in Session \ {s} : req'[o] = req[o]
    BY <2>1, <2>2
  <2>12. ClonesAreSound(s)' BY <2>1, <2>3, <2>9, <2>10, <2>11 DEF ClonesAreSound
  <2>13. Remembers(s)' BY <2>2, <2>11, <2>12 DEF Remembers
  <2>. QED BY <2>1, <2>11, <2>13, OthersRemember, RowsUntouched
<1>. QED BY <1>1, <1>2

-----------------------------------------------------------------------------
(* Steps that write rows. *)

\* A row in which one column is written.
LEMMA WrittenColumn ==
  ASSUME NEW row, row = [c \in Columns |-> row[c]], NEW column \in Columns, NEW value
  PROVE  LET new == [row EXCEPT ![column] = value]
         IN  /\ new = [c \in Columns |-> new[c]] /\ new[column] = value
             /\ \A c \in Columns \ {column} : new[c] = row[c]
  OBVIOUS

\* Two rows that differ in what does not matter say the same.
LEMMA SameBusiness ==
  ASSUME NEW a, NEW b, a = [c \in Columns |-> a[c]], b = [c \in Columns |-> b[c]],
         \A c \in Columns \ {"run", "referenced", "origin"} : a[c] = b[c]
  PROVE  Business(a) = Business(b)
<1>1. Business(a) = [c \in Columns |-> IF c = "run" THEN NoTask ELSE IF c = "referenced" THEN FALSE
                                       ELSE IF c = "origin" THEN "any" ELSE a[c]]
  BY DEF Business, Columns
<1>2. Business(b) = [c \in Columns |-> IF c = "run" THEN NoTask ELSE IF c = "referenced" THEN FALSE
                                       ELSE IF c = "origin" THEN "any" ELSE b[c]]
  BY DEF Business, Columns
<1>. QED BY <1>1, <1>2

\* What the sessions remember stays sound when one of them is done or none has moved.
LEMMA MemoryKept ==
  ASSUME ReuseInv, DOMAIN runs \subseteq DOMAIN runs',
         req' = req \/ \E s \in Session : req' = [req EXCEPT ![s] = Idle]
  PROVE  req' = [s \in Session |-> req'[s]] /\ \A s \in Session : Remembers(s)'
<1>1. CASE req' = req BY <1>1 DEF ReuseInv, Remembers, ClonesAreSound
<1>2. ASSUME NEW s \in Session, req' = [req EXCEPT ![s] = Idle]
      PROVE  req' = [o \in Session |-> req'[o]] /\ \A o \in Session : Remembers(o)'
  <2>1. req = [o \in Session |-> req[o]] BY DEF ReuseInv
  <2>2. \A o \in Session \ {s} : req'[o] = req[o] BY <1>2, <2>1
  <2>3. "at" \in DOMAIN req'[s] /\ req'[s].at = "idle" BY <1>2, <2>1 DEF Idle
  <2>4. Remembers(s)' BY <2>3 DEF Remembers
  <2>5. \A o \in Session \ {s} : Remembers(o)' BY <2>2, OthersRemember
  <2>. QED BY <1>2, <2>1, <2>4, <2>5
<1>. QED BY <1>1, <1>2

\* What a step that rewrites rows in place has to respect.
LEMMA RowsRewritten ==
  ASSUME ReuseInv, nextId' = nextId, rows' = [i \in DOMAIN rows |-> rows'[i]],
         DOMAIN runs \subseteq DOMAIN runs',
         req' = req \/ (\E s \in Session : req' = [req EXCEPT ![s] = Idle]),
         \A i \in DOMAIN rows :
           /\ Sound(rows'[i]) /\ rows'[i].run \in DOMAIN runs' \cup {NoTask}
           /\ rows'[i].parent = rows[i].parent /\ rows'[i].deps = rows[i].deps
           /\ Frozen(rows[i]) => /\ Business(rows'[i]) = Business(rows[i])
                                 /\ rows'[i].origin \in {rows[i].origin, "archive"}
           /\ rows[i].run \in DOMAIN runs => rows'[i].content = rows[i].content,
         \A r \in DOMAIN runs' :
           /\ DOMAIN runs'[r] = {"status", "nodes"} /\ runs'[r].nodes \subseteq DOMAIN rows
           /\ \A i \in runs'[r].nodes : rows'[i].run \in DOMAIN runs'
  PROVE  Kept
<1>1. DOMAIN rows' = DOMAIN rows OBVIOUS
<1>2. ReuseInv' BY <1>1, MemoryKept DEF ReuseInv
<1>3. \A i \in DOMAIN rows : Children(rows, i) = Children(rows', i) BY <1>1 DEF Children
<1>4. FrozenIsKept BY <1>1, <1>3 DEF FrozenIsKept
<1>5. DefinitionsAreKept BY <1>1 DEF DefinitionsAreKept, ReuseInv
<1>. QED BY <1>2, <1>4, <1>5 DEF Kept

LEMMA UpdateKept ==
  ASSUME ReuseInv, NEW t \in DOMAIN rows, NEW change \in Change, Update(t, change)
  PROVE  Kept
<1>. DEFINE new == CASE change = "edit" -> [rows[t] EXCEPT !.content = "edited"]
                     [] change = "complete" -> [rows[t] EXCEPT !.status = "completed", !.result = t]
                     [] change = "reopen" -> [rows[t] EXCEPT !.status = "pending"]
<1>1. /\ rows' = [rows EXCEPT ![t] = new]
      /\ ~Frozen(rows[t]) /\ (rows[t].run \in DOMAIN runs => change # "edit")
      /\ UNCHANGED <<runs, nextId, req>>
  BY DEF Update, Mutable
<1>2. rows = [i \in DOMAIN rows |-> rows[i]] /\ Sound(rows[t]) /\ t # NoTask
  BY ReuseAssumption DEF ReuseInv
<1>3. rows[t] = [c \in Columns |-> rows[t][c]] BY <1>2, SoundRow
<1>4. /\ new = [c \in Columns |-> new[c]]
      /\ \A c \in Columns \ {"content", "status", "result"} : new[c] = rows[t][c]
      /\ change # "edit" => new.content = rows[t].content
      /\ rows[t].content # "none" => new.content # "none"
      /\ new.status = "completed" /\ change # "complete" =>
           rows[t].status = "completed" /\ new.result = rows[t].result
      /\ change = "complete" => new.result = t
  <2>1. CASE change = "edit"
    <3>1. new = [rows[t] EXCEPT !["content"] = "edited"] BY <2>1
    <3>. HIDE DEF new
    <3>. QED BY <1>3, <2>1, <3>1, WrittenColumn DEF Columns
  <2>2. CASE change = "complete"
    <3>. DEFINE r1 == [rows[t] EXCEPT !["status"] = "completed"]
    <3>1. new = [r1 EXCEPT !["result"] = t] BY <2>2
    <3>2. /\ r1 = [c \in Columns |-> r1[c]]
          /\ \A c \in Columns \ {"status"} : r1[c] = rows[t][c]
      BY <1>3 DEF Columns
    <3>. HIDE DEF new, r1
    <3>. QED BY <2>2, <3>1, <3>2 DEF Columns
  <2>3. CASE change = "reopen"
    <3>1. new = [rows[t] EXCEPT !["status"] = "pending"] BY <2>3
    <3>. HIDE DEF new
    <3>. QED BY <1>3, <2>3, <3>1 DEF Columns
  <2>. QED BY <2>1, <2>2, <2>3 DEF Change
<1>. HIDE DEF new
<1>5. /\ new.origin = rows[t].origin /\ new.frozen = rows[t].frozen /\ new.run = rows[t].run
      /\ new.parent = rows[t].parent /\ new.deps = rows[t].deps
  BY <1>4 DEF Columns
<1>6. Sound(new)
  <2>1. ~new.frozen /\ new.origin # "archive" BY <1>1, <1>5 DEF Frozen
  <2>2. new.origin # "link" =>
          new.content # "none" /\ (new.status = "completed" => new.result # NoTask)
    BY <1>2, <1>4, <1>5 DEF Sound
  <2>. QED BY <1>4, <2>1, <2>2, SoundRow
<1>7. /\ rows' = [i \in DOMAIN rows |-> rows'[i]]
      /\ \A i \in DOMAIN rows : rows'[i] = IF i = t THEN new ELSE rows[i]
  BY <1>1, <1>2
<1>8. ASSUME NEW i \in DOMAIN rows
      PROVE  /\ Sound(rows'[i]) /\ rows'[i].run \in DOMAIN runs' \cup {NoTask}
             /\ rows'[i].parent = rows[i].parent /\ rows'[i].deps = rows[i].deps
             /\ Frozen(rows[i]) => /\ Business(rows'[i]) = Business(rows[i])
                                   /\ rows'[i].origin \in {rows[i].origin, "archive"}
             /\ rows[i].run \in DOMAIN runs => rows'[i].content = rows[i].content
             /\ rows'[i].run = rows[i].run
  BY <1>1, <1>4, <1>5, <1>6, <1>7 DEF ReuseInv
<1>9. \A r \in DOMAIN runs' :
        /\ DOMAIN runs'[r] = {"status", "nodes"} /\ runs'[r].nodes \subseteq DOMAIN rows
        /\ \A i \in runs'[r].nodes : rows'[i].run \in DOMAIN runs'
  BY <1>1, <1>8 DEF ReuseInv
<1>. QED BY <1>1, <1>7, <1>8, <1>9, RowsRewritten

LEMMA TaskDeleteKept == ASSUME ReuseInv, NEW t \in DOMAIN rows, TaskDelete(t) PROVE Kept
<1>1. /\ Deletable(t) /\ rows' = [i \in DOMAIN rows \ {t} |-> rows[i]]
      /\ UNCHANGED <<runs, nextId, req>>
  BY DEF TaskDelete, Delete
<1>2. ASSUME NEW r \in DOMAIN runs PROVE t \notin runs[r].nodes
  BY <1>1 DEF ReuseInv, Deletable
<1>3. ReuseInv'
  <2>1. req' = [s \in Session |-> req'[s]] /\ \A s \in Session : Remembers(s)'
    BY <1>1, MemoryKept
  <2>. QED BY <1>1, <1>2, <2>1 DEF ReuseInv
<1>4. ASSUME NEW i \in DOMAIN rows, Frozen(rows[i])
      PROVE  i \in DOMAIN rows' /\ rows'[i] = rows[i] /\ Children(rows, i) = Children(rows', i)
  <2>1. i # t /\ rows[t].parent # i BY <1>1, <1>4 DEF Deletable
  <2>. QED BY <1>1, <2>1 DEF Children
<1>5. FrozenIsKept BY <1>4 DEF FrozenIsKept
<1>6. DefinitionsAreKept BY <1>1, <1>2 DEF DefinitionsAreKept, ReuseInv
<1>. QED BY <1>3, <1>5, <1>6 DEF Kept

LEMMA AcceptKept == ASSUME ReuseInv, NEW r \in DOMAIN rows, Accept(r) PROVE Kept
<1>. DEFINE all == AllInTree(rows, r)
            enrolled == {i \in all : rows[i].run = NoTask}
<1>1. /\ rows' = [i \in DOMAIN rows |-> IF i \in all /\ rows[i].run = NoTask
                                        THEN [rows[i] EXCEPT !.run = r] ELSE rows[i]]
      /\ runs' = [i \in DOMAIN runs \cup {r} |->
                    IF i = r THEN [status |-> "accepted", nodes |-> all] ELSE runs[i]]
      /\ UNCHANGED <<nextId, req>> /\ rows[r].parent = NoTask /\ r \notin DOMAIN runs
  BY DEF Accept
<1>2. all \subseteq DOMAIN rows BY <1>1 DEF AllInTree
<1>. HIDE DEF all
<1>3. rows' = [i \in DOMAIN rows |-> rows'[i]] /\ DOMAIN runs' = DOMAIN runs \cup {r}
  BY <1>1
<1>4. ASSUME NEW i \in DOMAIN rows
      PROVE  /\ rows'[i] = [c \in Columns |-> rows'[i][c]] /\ Sound(rows'[i])
             /\ \A c \in Columns \ {"run"} : rows'[i][c] = rows[i][c]
             /\ rows'[i].run = IF i \in all /\ rows[i].run = NoTask THEN r ELSE rows[i].run
  <2>1. Sound(rows[i]) /\ rows[i] = [c \in Columns |-> rows[i][c]] BY SoundRow DEF ReuseInv
  <2>2. CASE i \in all /\ rows[i].run = NoTask
    <3>1. rows'[i] = [rows[i] EXCEPT !["run"] = r] BY <1>1, <2>2
    <3>2. Sound(rows'[i]) BY <2>1, <3>1, SoundMark
    <3>. QED BY <2>1, <2>2, <3>1, <3>2 DEF Columns
  <2>3. CASE ~(i \in all /\ rows[i].run = NoTask)
    <3>1. rows'[i] = rows[i] BY <1>1, <2>3
    <3>. QED BY <2>1, <2>3, <3>1
  <2>. QED BY <2>2, <2>3
<1>5. ASSUME NEW i \in DOMAIN rows
      PROVE  /\ Sound(rows'[i]) /\ rows'[i].run \in DOMAIN runs' \cup {NoTask}
             /\ rows'[i].parent = rows[i].parent /\ rows'[i].deps = rows[i].deps
             /\ Frozen(rows[i]) => /\ Business(rows'[i]) = Business(rows[i])
                                   /\ rows'[i].origin \in {rows[i].origin, "archive"}
             /\ rows[i].run \in DOMAIN runs => rows'[i].content = rows[i].content
             /\ i \in all \/ rows[i].run \in DOMAIN runs => rows'[i].run \in DOMAIN runs'
  <2>1. Sound(rows[i]) /\ rows[i].run \in DOMAIN runs \cup {NoTask} BY DEF ReuseInv
  <2>2. rows[i] = [c \in Columns |-> rows[i][c]] BY <2>1, SoundRow
  <2>3. Business(rows'[i]) = Business(rows[i]) BY <1>4, <2>2, SameBusiness
  <2>4. /\ rows'[i].parent = rows[i].parent /\ rows'[i].deps = rows[i].deps
        /\ rows'[i].origin = rows[i].origin /\ rows'[i].content = rows[i].content
    BY <1>4 DEF Columns
  <2>5. /\ rows'[i].run \in DOMAIN runs' \cup {NoTask}
        /\ i \in all \/ rows[i].run \in DOMAIN runs => rows'[i].run \in DOMAIN runs'
    BY <1>3, <1>4, <2>1
  <2>. QED BY <1>4, <2>3, <2>4, <2>5
<1>6. ASSUME NEW q \in DOMAIN runs'
      PROVE  /\ DOMAIN runs'[q] = {"status", "nodes"} /\ runs'[q].nodes \subseteq DOMAIN rows
             /\ \A i \in runs'[q].nodes : rows'[i].run \in DOMAIN runs'
  <2>1. CASE q = r
    <3>1. DOMAIN runs'[q] = {"status", "nodes"} /\ runs'[q].nodes = all BY <1>1, <2>1
    <3>. QED BY <1>2, <1>5, <3>1
  <2>2. CASE q # r
    <3>1. q \in DOMAIN runs /\ runs'[q] = runs[q] BY <1>1, <2>2
    <3>2. /\ DOMAIN runs[q] = {"status", "nodes"} /\ runs[q].nodes \subseteq DOMAIN rows
          /\ \A i \in runs[q].nodes : rows[i].run \in DOMAIN runs
      BY <3>1 DEF ReuseInv
    <3>. QED BY <1>5, <3>1, <3>2
  <2>. QED BY <2>1, <2>2
<1>. QED BY <1>1, <1>3, <1>5, <1>6, RowsRewritten

\* What a run executes was pending, and what is frozen is completed.
LEMMA SettleKept ==
  ASSUME ReuseInv, NEW r \in DOMAIN runs, NEW outcome, Settle(r, outcome)
  PROVE  Kept
<1>. DEFINE open == {i \in runs[r].nodes : rows[i].run = r /\ rows[i].status = "pending"
                                             /\ rows[i].origin # "link"}
            done(i) == [rows[i] EXCEPT !.status = "completed", !.result = i]
            failed(i) == [rows[i] EXCEPT !.status = "failed"]
            status == IF \A i \in runs[r].nodes : rows'[i].status = "completed"
                      THEN "completed" ELSE "failed"
<1>1. /\ rows' = [i \in DOMAIN rows |-> IF i \notin open THEN rows[i]
                                        ELSE IF outcome = "completed" THEN done(i) ELSE failed(i)]
      /\ runs' = [runs EXCEPT ![r].status = status] /\ UNCHANGED <<nextId, req>>
  BY DEF Settle
<1>. HIDE DEF status
<1>2. rows' = [i \in DOMAIN rows |-> rows'[i]] /\ DOMAIN runs' = DOMAIN runs BY <1>1
<1>3. ASSUME NEW i \in DOMAIN rows
      PROVE  /\ Sound(rows'[i]) /\ rows'[i].run \in DOMAIN runs' \cup {NoTask}
             /\ rows'[i].parent = rows[i].parent /\ rows'[i].deps = rows[i].deps
             /\ Frozen(rows[i]) => /\ Business(rows'[i]) = Business(rows[i])
                                   /\ rows'[i].origin \in {rows[i].origin, "archive"}
             /\ rows[i].run \in DOMAIN runs => rows'[i].content = rows[i].content
             /\ rows'[i].run = rows[i].run
  <2>1. Sound(rows[i]) /\ rows[i].run \in DOMAIN runs \cup {NoTask} /\ i # NoTask
    BY ReuseAssumption DEF ReuseInv
  <2>2. rows[i] = [c \in Columns |-> rows[i][c]] BY <2>1, SoundRow
  <2>3. CASE i \notin open
    <3>1. rows'[i] = rows[i] BY <1>1, <2>3
    <3>. QED BY <1>2, <2>1, <3>1
  <2>4. CASE i \in open
    <3>1. ~rows[i].frozen /\ rows[i].origin \notin {"archive", "link"}
      BY <2>1, <2>4 DEF Sound, Whole
    <3>2. rows'[i] = done(i) \/ rows'[i] = failed(i) BY <1>1, <2>4
    <3>3. /\ done(i) = [c \in Columns |-> done(i)[c]]
          /\ \A c \in Columns \ {"status", "result"} : done(i)[c] = rows[i][c]
          /\ done(i).result = i
      BY <2>2 DEF Columns
    <3>4. /\ failed(i) = [c \in Columns |-> failed(i)[c]]
          /\ \A c \in Columns \ {"status", "result"} : failed(i)[c] = rows[i][c]
          /\ failed(i).status = "failed"
      BY <2>2 DEF Columns
    <3>. HIDE DEF done, failed
    <3>5. /\ rows'[i] = [c \in Columns |-> rows'[i][c]]
          /\ \A c \in Columns \ {"status", "result"} : rows'[i][c] = rows[i][c]
          /\ rows'[i].status = "completed" => rows'[i].result # NoTask
      BY <2>1, <3>2, <3>3, <3>4
    <3>6. /\ rows'[i].origin = rows[i].origin /\ rows'[i].frozen = rows[i].frozen
          /\ rows'[i].run = rows[i].run /\ rows'[i].content = rows[i].content
          /\ rows'[i].parent = rows[i].parent /\ rows'[i].deps = rows[i].deps
      BY <3>5 DEF Columns
    <3>7. rows[i].content # "none" BY <2>1, <3>1 DEF Sound
    <3>8. Sound(rows'[i]) BY <3>1, <3>5, <3>6, <3>7, SoundRow
    <3>. QED BY <1>2, <2>1, <3>1, <3>6, <3>8 DEF Frozen
  <2>. QED BY <2>3, <2>4
<1>4. ASSUME NEW q \in DOMAIN runs'
      PROVE  /\ DOMAIN runs'[q] = {"status", "nodes"} /\ runs'[q].nodes \subseteq DOMAIN rows
             /\ \A i \in runs'[q].nodes : rows'[i].run \in DOMAIN runs'
  <2>1. /\ DOMAIN runs[q] = {"status", "nodes"} /\ runs[q].nodes \subseteq DOMAIN rows
        /\ \A i \in runs[q].nodes : rows[i].run \in DOMAIN runs
    BY <1>2, <1>4 DEF ReuseInv
  <2>2. DOMAIN runs'[q] = DOMAIN runs[q] /\ runs'[q].nodes = runs[q].nodes BY <1>1, <1>2, <2>1
  <2>. QED BY <1>2, <1>3, <2>1, <2>2
<1>. QED BY <1>1, <1>2, <1>3, <1>4, RowsRewritten

\* A row of an archive: whole, and the same as before if it was protected.
LEMMA FrozenRow ==
  ASSUME ReuseInv, NEW i \in DOMAIN rows, Resolves(rows, rows[i]),
         rows[i].status = "completed"
  PROVE  LET new == [Materialized(i) EXCEPT !.origin = "archive"]
         IN  /\ new = [c \in Columns |-> new[c]]
             /\ Sound(new) /\ new.origin = "archive" /\ new.run \in DOMAIN runs \cup {NoTask}
             /\ new.parent = rows[i].parent /\ new.deps = rows[i].deps
             /\ Frozen(rows[i]) => Business(new) = Business(rows[i])
             /\ Materialized(i) = rows[i] => new.run = rows[i].run /\ new.content = rows[i].content
<1>. DEFINE e == Effective(rows, rows[i])
            m == Materialized(i)
            new == [m EXCEPT !["origin"] = "archive"]
<1>1. Sound(rows[i]) /\ rows[i].run \in DOMAIN runs \cup {NoTask} BY DEF ReuseInv
<1>2. rows[i] = [c \in Columns |-> rows[i][c]] BY <1>1, SoundRow
<1>3. /\ m = [c \in Columns |-> m[c]] /\ Whole(m) /\ m.run \in DOMAIN runs \cup {NoTask}
      /\ m.parent = rows[i].parent /\ m.deps = rows[i].deps
      /\ Frozen(rows[i]) => m = rows[i]
  <2>1. CASE rows[i].origin # "link"
    <3>1. m = rows[i] BY <2>1 DEF Materialized
    <3>2. Whole(rows[i]) BY <1>1, <2>1 DEF Sound, Whole
    <3>. HIDE DEF m
    <3>. QED BY <1>1, <1>2, <3>1, <3>2
  <2>2. CASE rows[i].origin = "link"
    <3>1. /\ Whole(e) /\ e.run \in DOMAIN runs \cup {NoTask}
          /\ rows[i].frozen => e = rows[i]
      BY EffectiveSound
    <3>2. m = [rows[i] EXCEPT !.status = e.status, !.content = e.content, !.result = e.result,
                              !.run = e.run, !.source = e.source, !.frozen = e.frozen]
      BY <2>2 DEF Materialized
    <3>. HIDE DEF m, e
    <3>3. m = [c \in Columns |-> IF c \in {"status", "content", "result", "run", "source", "frozen"}
                                 THEN e[c] ELSE rows[i][c]]
      BY <1>2, <3>2 DEF Columns
    <3>4. /\ m = [c \in Columns |-> m[c]] /\ m.run = e.run
          /\ m.status = e.status /\ m.content = e.content /\ m.result = e.result
          /\ m.parent = rows[i].parent /\ m.deps = rows[i].deps
      BY <3>3 DEF Columns
    <3>5. Frozen(rows[i]) => m = rows[i] BY <1>2, <2>2, <3>1, <3>3 DEF Frozen
    <3>. QED BY <3>1, <3>4, <3>5 DEF Whole
  <2>. QED BY <2>1, <2>2
<1>. HIDE DEF m
<1>4. /\ new = [c \in Columns |-> new[c]] /\ new.origin = "archive"
      /\ \A c \in Columns \ {"origin"} : new[c] = m[c]
  BY <1>3 DEF Columns
<1>. HIDE DEF new
<1>5. /\ new.status = m.status /\ new.result = m.result /\ new.content = m.content
      /\ new.run = m.run /\ new.parent = m.parent /\ new.deps = m.deps
  BY <1>4 DEF Columns
<1>6. Sound(new) BY <1>3, <1>4, <1>5, SoundRow DEF Whole
<1>7. Frozen(rows[i]) => Business(new) = Business(rows[i]) BY <1>2, <1>3, <1>4, SameBusiness
<1>. QED BY <1>3, <1>4, <1>5, <1>6, <1>7 DEF new, m

LEMMA FreezeKept == ASSUME ReuseInv, NEW s \in Session, Freeze(s) PROVE Kept
<1>1. CASE GiveUp(s) BY <1>1, GiveUpKept
<1>2. CASE ~GiveUp(s)
  <2>. DEFINE nodes == req[s].nodes
              new(i) == [Materialized(i) EXCEPT !.origin = "archive"]
  <2>1. /\ rows' = [i \in DOMAIN rows |-> IF i \in nodes THEN new(i) ELSE rows[i]]
        /\ req' = [req EXCEPT ![s] = Idle] /\ UNCHANGED <<runs, nextId>>
        /\ \A i \in nodes : /\ rows[i].status = "completed"
                            /\ Resolves(rows, rows[i]) /\ Writable(i)
    BY <1>2 DEF Freeze, StillWhole, AllCompleted
  <2>. HIDE DEF nodes
  <2>2. ASSUME NEW i \in DOMAIN rows, i \in nodes
        PROVE  /\ Sound(new(i)) /\ new(i).origin = "archive"
               /\ new(i).run \in DOMAIN runs \cup {NoTask}
               /\ new(i).parent = rows[i].parent /\ new(i).deps = rows[i].deps
               /\ Frozen(rows[i]) => Business(new(i)) = Business(rows[i])
               /\ Materialized(i) = rows[i] =>
                    new(i).run = rows[i].run /\ new(i).content = rows[i].content
    BY <2>1, <2>2, FrozenRow
  <2>. HIDE DEF new
  <2>3. ASSUME NEW i \in DOMAIN rows
        PROVE  /\ Sound(rows'[i]) /\ rows'[i].run \in DOMAIN runs' \cup {NoTask}
               /\ rows'[i].parent = rows[i].parent /\ rows'[i].deps = rows[i].deps
               /\ Frozen(rows[i]) => /\ Business(rows'[i]) = Business(rows[i])
                                     /\ rows'[i].origin \in {rows[i].origin, "archive"}
               /\ rows[i].run \in DOMAIN runs =>
                    rows'[i].content = rows[i].content /\ rows'[i].run = rows[i].run
    <3>1. CASE i \in nodes
      <4>1. rows'[i] = new(i) BY <2>1, <3>1
      <4>2. rows[i].run \in DOMAIN runs => Materialized(i) = rows[i] BY <2>1, <3>1 DEF Writable
      <4>. QED BY <2>1, <2>2, <3>1, <4>1, <4>2
    <3>2. CASE i \notin nodes
      <4>1. rows'[i] = rows[i] BY <2>1, <3>2
      <4>. QED BY <2>1, <4>1 DEF ReuseInv
    <3>. QED BY <3>1, <3>2
  <2>4. \A r \in DOMAIN runs' :
          /\ DOMAIN runs'[r] = {"status", "nodes"} /\ runs'[r].nodes \subseteq DOMAIN rows
          /\ \A i \in runs'[r].nodes : rows'[i].run \in DOMAIN runs'
    BY <2>1, <2>3 DEF ReuseInv
  <2>5. rows' = [i \in DOMAIN rows |-> rows'[i]] BY <2>1
  <2>. QED BY <2>1, <2>3, <2>4, <2>5, RowsRewritten
<1>. QED BY <1>1, <1>2

\* Clones become rows of their own: no identifier is used twice, and no clone hangs
\* below a row that was there before.
LEMMA SaveKept == ASSUME ReuseInv, NEW s \in Session, Save(s) PROVE Kept
<1>. DEFINE clones == req[s].clones
            new == Promoted(clones, nextId)
            marked == [i \in DOMAIN rows |-> IF i \in Unreferenced(new)
                                             THEN [rows[i] EXCEPT !.referenced = TRUE] ELSE rows[i]]
<1>1. /\ req[s].at = "save" /\ rows' = Over(new, marked) /\ req' = [req EXCEPT ![s] = Idle]
      /\ nextId' = nextId + Cardinality(DOMAIN new) /\ runs' = runs
  BY DEF Save
<1>2. ClonesAreSound(s) BY <1>1 DEF ReuseInv, Remembers
<1>. DEFINE last == nextId + Cardinality(DOMAIN clones) - 1
<1>3. /\ DOMAIN new = nextId..last
      /\ nextId + Cardinality(DOMAIN new) - 1 = last
      /\ \A k \in DOMAIN new : /\ Sound(new[k]) /\ new[k].origin # "archive"
                               /\ new[k].run \in DOMAIN runs \cup {NoTask}
                               /\ new[k].parent \in DOMAIN new \cup {NoTask}
  <2>. HIDE DEF clones
  <2>. QED BY <1>2, PromotedSound DEF ClonesAreSound, clones
<1>4. nextId \in Nat \ {0} /\ Cardinality(DOMAIN clones) \in Nat /\ Cardinality(DOMAIN new) \in Nat
  <2>1. nextId \in Nat \ {0} /\ IsFiniteSet(DOMAIN clones) BY <1>2 DEF ReuseInv, ClonesAreSound
  <2>2. Cardinality(DOMAIN clones) \in Nat BY <2>1, FS_CardinalityType
  <2>3. nextId \in Int /\ last \in Int BY <2>1, <2>2
  <2>. HIDE DEF last, new
  <2>4. IsFiniteSet(DOMAIN new) BY <1>3, <2>3, FS_Interval
  <2>5. Cardinality(DOMAIN new) \in Nat BY <2>4, FS_CardinalityType
  <2>. QED BY <2>1, <2>2, <2>5
<1>. HIDE DEF new, clones
<1>5. DOMAIN marked = DOMAIN rows OBVIOUS
<1>6. ASSUME NEW i \in DOMAIN rows
      PROVE  /\ Sound(marked[i]) /\ Business(marked[i]) = Business(rows[i])
             /\ \A c \in {"origin", "run", "content", "parent", "deps"} : marked[i][c] = rows[i][c]
  <2>1. Sound(rows[i]) BY DEF ReuseInv
  <2>2. rows[i] = [c \in Columns |-> rows[i][c]] BY <2>1, SoundRow
  <2>3. CASE i \in Unreferenced(new)
    <3>1. marked[i] = [rows[i] EXCEPT !["referenced"] = TRUE] BY <2>3
    <3>. HIDE DEF marked
    <3>2. Sound(marked[i]) BY <2>1, <3>1, SoundMark
    <3>3. \A c \in Columns \ {"referenced"} : marked[i][c] = rows[i][c] BY <2>2, <3>1
    <3>4. marked[i] = [c \in Columns |-> marked[i][c]] BY <3>2, SoundRow
    <3>5. Business(marked[i]) = Business(rows[i]) BY <2>2, <3>3, <3>4, SameBusiness
    <3>. QED BY <3>2, <3>3, <3>5 DEF Columns
  <2>4. CASE i \notin Unreferenced(new)
    <3>1. marked[i] = rows[i] BY <2>4
    <3>. HIDE DEF marked
    <3>. QED BY <2>1, <3>1
  <2>. QED BY <2>3, <2>4
<1>. HIDE DEF marked
<1>7. ASSUME NEW i \in DOMAIN rows PROVE i \notin DOMAIN new /\ i # NoTask
  <2>1. i \in 1..(nextId - 1) /\ NoTask \notin Nat BY ReuseAssumption DEF ReuseInv
  <2>. QED BY <1>3, <1>4, <2>1
<1>8. /\ rows' = [i \in DOMAIN rows' |-> rows'[i]]
      /\ DOMAIN rows' = DOMAIN rows \cup DOMAIN new
      /\ \A i \in DOMAIN rows : rows'[i] = marked[i]
      /\ \A k \in DOMAIN new : rows'[k] = new[k]
  BY <1>1, <1>5, <1>7 DEF Over
<1>9. nextId' \in Nat \ {0} /\ DOMAIN rows' \subseteq 1..(nextId' - 1)
  <2>1. nextId' = nextId + Cardinality(DOMAIN new) /\ nextId' - 1 = last BY <1>1, <1>3, <1>4
  <2>2. DOMAIN rows \subseteq 1..(nextId - 1) BY DEF ReuseInv
  <2>. QED BY <1>3, <1>4, <1>8, <2>1, <2>2
<1>10. \A i \in DOMAIN rows' : Sound(rows'[i]) /\ rows'[i].run \in DOMAIN runs' \cup {NoTask}
  BY <1>1, <1>3, <1>6, <1>8 DEF ReuseInv
<1>11. ReuseInv'
  <2>1. req' = [o \in Session |-> req'[o]] /\ \A o \in Session : Remembers(o)'
    BY <1>1, MemoryKept
  <2>2. ASSUME NEW r \in DOMAIN runs
        PROVE  /\ DOMAIN runs[r] = {"status", "nodes"} /\ runs[r].nodes \subseteq DOMAIN rows'
               /\ \A i \in runs[r].nodes : rows'[i].run \in DOMAIN runs
    <3>1. /\ DOMAIN runs[r] = {"status", "nodes"} /\ runs[r].nodes \subseteq DOMAIN rows
          /\ \A i \in runs[r].nodes : rows[i].run \in DOMAIN runs
      BY DEF ReuseInv
    <3>. QED BY <1>6, <1>8, <3>1
  <2>. QED BY <1>1, <1>8, <1>9, <1>10, <2>1, <2>2 DEF ReuseInv
<1>12. ASSUME NEW i \in DOMAIN rows PROVE Children(rows, i) = Children(rows', i)
  <2>1. \A k \in DOMAIN new : rows'[k].parent # i BY <1>3, <1>7, <1>8
  <2>2. \A j \in DOMAIN rows : rows'[j].parent = rows[j].parent BY <1>6, <1>8
  <2>. QED BY <1>8, <2>1, <2>2 DEF Children
<1>13. FrozenIsKept BY <1>6, <1>8, <1>12 DEF FrozenIsKept
<1>14. DefinitionsAreKept
  <2>1. \A r \in DOMAIN runs : runs[r].nodes \subseteq DOMAIN rows BY DEF ReuseInv
  <2>. QED BY <1>6, <1>8, <2>1 DEF DefinitionsAreKept
<1>. QED BY <1>11, <1>13, <1>14 DEF Kept

-----------------------------------------------------------------------------
(* What the rows of a table say of each other. *)

ParentsIn(R) == [i \in DOMAIN R |-> {R[i].parent} \cap DOMAIN R]

\* The parents of a table that is left of another one, or of its clones, lead in no circle.
LEMMA FoundedParents ==
  ASSUME NEW R, IsFiniteSet(DOMAIN R)
  PROVE  Acyclic([i \in DOMAIN R |-> {R[i].parent} \cap DOMAIN R]) <=> Founded(ParentsIn(R))
<1>1. /\ ParentsIn(R) = [i \in DOMAIN R |-> {R[i].parent} \cap DOMAIN R]
      /\ DOMAIN ParentsIn(R) = DOMAIN R
      /\ \A i \in DOMAIN R : (ParentsIn(R))[i] \subseteq DOMAIN R
  BY DEF ParentsIn
<1>. DEFINE next == ParentsIn(R)
<1>2. IsFiniteSet(DOMAIN next) /\ \A i \in DOMAIN next : next[i] \subseteq DOMAIN next BY <1>1
<1>. HIDE DEF next
<1>3. Acyclic(next) <=> Founded(next) BY <1>2, FoundedIsAcyclic, AcyclicIsFounded
<1>. QED BY <1>1, <1>3 DEF next

LEMMA FoundedWithin ==
  ASSUME NEW R, NEW T, DOMAIN T \subseteq DOMAIN R, Founded(ParentsIn(R)),
         \A i \in DOMAIN T : T[i].parent = R[i].parent
  PROVE  Founded(ParentsIn(T))
<1>. SUFFICES ASSUME NEW z \in SUBSET DOMAIN T, z # {}
              PROVE \E i \in z : (ParentsIn(T))[i] \cap z = {}
  BY DEF Founded, ParentsIn
<1>1. z \in SUBSET DOMAIN ParentsIn(R) BY DEF ParentsIn
<1>2. PICK i \in z : (ParentsIn(R))[i] \cap z = {} BY <1>1 DEF Founded
<1>3. (ParentsIn(T))[i] \subseteq (ParentsIn(R))[i] BY DEF ParentsIn
<1>. QED BY <1>2, <1>3

\* What is left of a table when rows are deleted, frozen or given another status.
Left(T, R) ==
  /\ DOMAIN T \subseteq DOMAIN R
  /\ \A i \in DOMAIN T : /\ T[i].origin \in {R[i].origin, "archive"} /\ T[i].status \in Status
                         /\ T[i].parent = R[i].parent /\ T[i].deps = R[i].deps
                         /\ T[i].tree = R[i].tree /\ T[i].original = R[i].original

LEMMA LeftPlaced ==
  ASSUME NEW R, NEW T, NEW n, IsFiniteSet(DOMAIN R), Placed(R, n), Left(T, R)
  PROVE  Placed(T, n)
<1>1. IsFiniteSet(DOMAIN T) BY FS_Subset DEF Left
<1>2. Founded(ParentsIn(R)) BY FoundedParents DEF Placed
<1>3. Founded(ParentsIn(T)) BY <1>2, FoundedWithin DEF Left
<1>4. Acyclic([i \in DOMAIN T |-> {T[i].parent} \cap DOMAIN T]) BY <1>1, <1>3, FoundedParents
<1>5. ASSUME NEW i \in DOMAIN T
      PROVE  /\ T[i].origin \in Origin /\ T[i].status \in Status
             /\ T[i].tree \in 1..n /\ T[i].deps \subseteq 1..n \ {i}
             /\ {T[i].parent, T[i].original} \subseteq 1..n \cup {NoTask}
             /\ \A j \in (T[i].deps \cup {T[i].parent}) \cap DOMAIN T : T[j].tree = T[i].tree
             /\ T[i].origin = "link" => T[i].original # NoTask
             /\ T[i].original \in DOMAIN T =>
                  T[T[i].original].origin # "link" /\ T[T[i].original].tree # T[i].tree
  BY DEF Placed, Left, Origin
<1>6. ASSUME NEW i \in DOMAIN T, NEW j \in DOMAIN T, T[i].tree = T[j].tree
      PROVE  Alike(T, T, i, j)
  <2>1. Alike(R, R, i, j) BY <1>6 DEF Placed, Left
  <2>. QED BY <2>1 DEF Alike, Left
<1>. QED BY <1>4, <1>5, <1>6 DEF Placed

\* Clones stay copies of rows that are deleted, frozen or joined by new ones.
LEMMA StaysCopied ==
  ASSUME NEW C, NEW R, NEW T, NEW n \in Nat, NEW m \in Nat, n <= m, Copied(C, R, n),
         DOMAIN T \cap (1..n) \subseteq DOMAIN R,
         \A i \in DOMAIN T \cap DOMAIN R :
           /\ T[i].origin \in {R[i].origin, "archive"} /\ T[i].tree = R[i].tree
           /\ T[i].parent = R[i].parent /\ T[i].deps = R[i].deps
  PROVE  Copied(C, T, m)
<1>1. ASSUME NEW i \in DOMAIN C
      PROVE  /\ C[i].original \in 1..n /\ C[i].original \in 1..m
             /\ C[i].original \in DOMAIN T => C[i].original \in DOMAIN R
             /\ C[i].original \in DOMAIN T => T[C[i].original].origin # "link"
  BY DEF Copied
<1>2. ASSUME NEW i \in DOMAIN C, NEW j \in DOMAIN C PROVE Alike(C, T, i, j)
  <2>1. Alike(C, R, i, j) BY DEF Copied
  <2>. QED BY <1>1, <2>1 DEF Alike
<1>. QED BY <1>1, <1>2 DEF Copied

-----------------------------------------------------------------------------
\* What links lead to: the original, which is no link.
LEMMA MostOriginalRow ==
  ASSUME NEW R, IsFiniteSet(DOMAIN R), NEW n, Placed(R, n), NoTask \notin DOMAIN R,
         NEW i \in DOMAIN R
  PROVE  MostOriginal(R, i) = IF R[i].origin # "link" THEN i
                              ELSE IF R[i].original \in DOMAIN R THEN R[i].original ELSE NoTask
<1>. DEFINE step == [j \in DOMAIN R \cup {NoTask} |->
                       IF j = NoTask \/ R[j].origin # "link" \/ R[j].original = NoTask THEN j
                       ELSE IF R[j].original \in DOMAIN R THEN R[j].original ELSE NoTask]
            N == Cardinality(DOMAIN R)
            end == IF R[i].origin # "link" THEN i
                   ELSE IF R[i].original \in DOMAIN R THEN R[i].original ELSE NoTask
            S == [k \in Nat |-> IF k = 0 THEN {i} ELSE {end}]
<1>1. N \in Nat /\ N # 0 BY FS_CardinalityType, FS_EmptySet
<1>2. step[i] = end BY DEF Placed
<1>3. step[end] = end BY DEF Placed
<1>4. MostOriginal(R, i) = Iterated(step, i, N) BY DEF MostOriginal
<1>. HIDE DEF step, end, N
<1>5. \A k \in Nat : \A y \in S[k] : step[y] \in S[k + 1] BY <1>2, <1>3
<1>6. i \in S[0] OBVIOUS
<1>7. S[N] = {end} BY <1>1
<1>. HIDE DEF S
<1>8. Iterated(step, i, N) \in S[N] BY <1>1, <1>5, <1>6, IteratedKeeps
<1>. QED BY <1>4, <1>7, <1>8 DEF end

-----------------------------------------------------------------------------
(* Clones that are saved. *)

\* The rows new are the clones C under the identifiers ids, in one tree.
Renamed(new, C, ids, map, tree) ==
  /\ map \in [DOMAIN C -> ids] /\ DOMAIN new = ids /\ tree \in ids
  /\ \A i, j \in DOMAIN C : map[i] = map[j] => i = j
  /\ \A k \in ids : \E i \in DOMAIN C :
       /\ map[i] = k
       /\ new[k].origin = C[i].origin /\ new[k].status = C[i].status
       /\ new[k].original = C[i].original /\ new[k].tree = tree
       /\ new[k].parent = IF C[i].parent \in DOMAIN C THEN map[C[i].parent] ELSE NoTask
       /\ new[k].deps = {map[d] : d \in C[i].deps \cap DOMAIN C}

LEMMA PromotedRow ==
  ASSUME NEW C, IsFiniteSet(DOMAIN C), NEW n \in Nat, \A i \in DOMAIN C : Sound(C[i]),
         DOMAIN C # {}, Founded(ParentsIn(C))
  PROVE  \E map, tree :
           Renamed(Promoted(C, n), C, n..(n + Cardinality(DOMAIN C) - 1), map, tree)
<1>. DEFINE c == Cardinality(DOMAIN C)
            map == Fresh(DOMAIN C, n)
            ids == n..(n + c - 1)
            source == [k \in {map[i] : i \in DOMAIN C} |-> CHOOSE i \in DOMAIN C : map[i] = k]
            top == CHOOSE i \in DOMAIN C : C[i].parent \notin DOMAIN C
            old(k) == C[source[k]]
            new == Promoted(C, n)
<1>1. /\ map \in [DOMAIN C -> ids] /\ {map[i] : i \in DOMAIN C} = ids
      /\ \A i, j \in DOMAIN C : map[i] = map[j] => i = j
  BY FreshIds
<1>2. top \in DOMAIN C
  <2>1. DOMAIN C \in SUBSET DOMAIN ParentsIn(C) BY DEF ParentsIn
  <2>2. PICK i \in DOMAIN C : (ParentsIn(C))[i] \cap DOMAIN C = {} BY <2>1 DEF Founded
  <2>3. C[i].parent \notin DOMAIN C BY <2>2 DEF ParentsIn
  <2>. QED BY <2>3
<1>3. new = [k \in ids |-> [old(k) EXCEPT
               !.parent = IF @ \in DOMAIN map THEN map[@] ELSE NoTask,
               !.deps = Remap(map, @), !.tree = map[top]]]
  BY <1>1 DEF Promoted
<1>. HIDE DEF map, top, new
<1>4. \A k \in ids : source[k] \in DOMAIN C /\ map[source[k]] = k BY <1>1
<1>. HIDE DEF source, ids
<1>5. DOMAIN new = ids BY <1>3
<1>6. map[top] \in ids BY <1>1, <1>2
<1>7. ASSUME NEW k \in ids
      PROVE  \E i \in DOMAIN C :
               /\ map[i] = k
               /\ new[k].origin = C[i].origin /\ new[k].status = C[i].status
               /\ new[k].original = C[i].original /\ new[k].tree = map[top]
               /\ new[k].parent = IF C[i].parent \in DOMAIN C THEN map[C[i].parent] ELSE NoTask
               /\ new[k].deps = {map[d] : d \in C[i].deps \cap DOMAIN C}
  <2>. DEFINE o == old(k)
  <2>1. o = [d \in Columns |-> o[d]] BY <1>4, SoundRow
  <2>2. new[k] = [o EXCEPT !.parent = IF @ \in DOMAIN map THEN map[@] ELSE NoTask,
                           !.deps = Remap(map, @), !.tree = map[top]]
    BY <1>3
  <2>. HIDE DEF o
  <2>3. new[k] = [d \in Columns |->
                    IF d = "parent" THEN (IF o.parent \in DOMAIN map THEN map[o.parent] ELSE NoTask)
                    ELSE IF d = "deps" THEN Remap(map, o.deps)
                    ELSE IF d = "tree" THEN map[top] ELSE o[d]]
    BY <2>1, <2>2 DEF Columns
  <2>4. /\ new[k].origin = o.origin /\ new[k].status = o.status /\ new[k].original = o.original
        /\ new[k].tree = map[top]
        /\ new[k].parent = IF o.parent \in DOMAIN map THEN map[o.parent] ELSE NoTask
        /\ new[k].deps = Remap(map, o.deps)
    BY <2>3 DEF Columns
  <2>5. DOMAIN map = DOMAIN C BY <1>1
  <2>6. new[k].deps = {map[d] : d \in o.deps \cap DOMAIN C} BY <2>4, <2>5 DEF Remap
  <2>. QED BY <1>4, <2>4, <2>5, <2>6 DEF o
<1>8. Renamed(new, C, ids, map, map[top]) BY <1>1, <1>5, <1>6, <1>7 DEF Renamed
<1>. QED BY <1>8 DEF ids, new, c

\* The rows a table has besides those of R.
Joined(T, R, new) ==
  /\ DOMAIN T = DOMAIN R \cup DOMAIN new
  /\ \A k \in DOMAIN new : T[k] = new[k]
  /\ \A i \in DOMAIN R : /\ T[i].origin = R[i].origin /\ T[i].status = R[i].status
                         /\ T[i].parent = R[i].parent /\ T[i].deps = R[i].deps
                         /\ T[i].tree = R[i].tree /\ T[i].original = R[i].original

\* Saved clones have a tree of their own, shaped like that of their originals.
LEMMA SavedPlaced ==
  ASSUME NEW R, NEW n \in Nat, IsFiniteSet(DOMAIN R), DOMAIN R \subseteq 1..n, Placed(R, n),
         NoTask \notin Nat,
         NEW C, IsFiniteSet(DOMAIN C), Copied(C, R, n), \A i \in DOMAIN C : Sound(C[i]),
         NEW T, Joined(T, R, Promoted(C, n + 1))
  PROVE  Placed(T, n + Cardinality(DOMAIN C))
<1>. DEFINE c == Cardinality(DOMAIN C)
            m == n + c
            ids == (n + 1)..m
            new == Promoted(C, n + 1)
<1>1. c \in Nat BY FS_CardinalityType
<1>2. DOMAIN C # {} /\ Founded(ParentsIn(C)) BY FoundedParents DEF Copied
<1>3. \E map, tree :
        Renamed(new, C, (n + 1)..((n + 1) + Cardinality(DOMAIN C) - 1), map, tree)
  <2>1. n + 1 \in Nat OBVIOUS
  <2>. QED BY <1>2, <2>1, PromotedRow
<1>4. (n + 1)..((n + 1) + Cardinality(DOMAIN C) - 1) = ids BY <1>1
<1>. HIDE DEF new, ids
<1>5. PICK map, tree : Renamed(new, C, ids, map, tree) BY <1>3, <1>4
<1>. USE DEF Renamed
<1>6. /\ m \in Nat /\ 1..n \subseteq 1..m /\ ids \subseteq 1..m /\ ids \cap (1..n) = {}
      /\ NoTask \notin 1..m
  BY <1>1 DEF ids
<1>. HIDE DEF c, m
<1>. DEFINE src(k) == CHOOSE i \in DOMAIN C : map[i] = k
<1>7. ASSUME NEW k \in ids
      PROVE  /\ src(k) \in DOMAIN C /\ map[src(k)] = k /\ k \in DOMAIN T
             /\ T[k].origin = C[src(k)].origin /\ T[k].status = C[src(k)].status
             /\ T[k].original = C[src(k)].original /\ T[k].tree = tree
             /\ T[k].parent = IF C[src(k)].parent \in DOMAIN C THEN map[C[src(k)].parent] ELSE NoTask
             /\ T[k].deps = {map[d] : d \in C[src(k)].deps \cap DOMAIN C}
  <2>1. PICK i \in DOMAIN C :
          /\ map[i] = k
          /\ new[k].origin = C[i].origin /\ new[k].status = C[i].status
          /\ new[k].original = C[i].original /\ new[k].tree = tree
          /\ new[k].parent = IF C[i].parent \in DOMAIN C THEN map[C[i].parent] ELSE NoTask
          /\ new[k].deps = {map[d] : d \in C[i].deps \cap DOMAIN C}
    BY <1>5
  <2>2. src(k) = i BY <1>5, <2>1
  <2>. HIDE DEF src
  <2>3. k \in DOMAIN T /\ T[k] = new[k] BY <1>5 DEF Joined, new
  <2>. QED BY <2>1, <2>2, <2>3
<1>8. ASSUME NEW i \in DOMAIN R
      PROVE  /\ i \in DOMAIN T /\ i \in 1..n /\ i \notin ids
             /\ T[i].origin = R[i].origin /\ T[i].status = R[i].status
             /\ T[i].parent = R[i].parent /\ T[i].deps = R[i].deps
             /\ T[i].tree = R[i].tree /\ T[i].original = R[i].original
  BY <1>6 DEF Joined
<1>9. DOMAIN T = DOMAIN R \cup ids /\ NoTask \notin DOMAIN T BY <1>5, <1>6, <1>8 DEF Joined, new
<1>. HIDE DEF src
<1>10. ASSUME NEW k \in ids
       PROVE  /\ T[k].origin \in Origin /\ T[k].status \in Status
              /\ T[k].tree \in 1..m /\ T[k].deps \subseteq 1..m \ {k}
              /\ {T[k].parent, T[k].original} \subseteq 1..m \cup {NoTask}
              /\ \A j \in (T[k].deps \cup {T[k].parent}) \cap DOMAIN T : T[j].tree = T[k].tree
              /\ T[k].origin = "link" => T[k].original # NoTask
              /\ T[k].original \in DOMAIN T =>
                   T[T[k].original].origin # "link" /\ T[T[k].original].tree # T[k].tree
  <2>. DEFINE i == src(k)
  <2>1. i \in DOMAIN C /\ map[i] = k BY <1>7
  <2>2. /\ C[i].origin \in Origin /\ C[i].status \in Status
        /\ C[i].original \in 1..n /\ i \notin C[i].deps
        /\ C[i].original \in DOMAIN R => R[C[i].original].origin # "link"
    BY <2>1 DEF Copied
  <2>3. T[k].deps \subseteq ids \ {k} BY <1>5, <1>7, <2>1, <2>2
  <2>4. T[k].parent \in ids \cup {NoTask} BY <1>5, <1>7
  <2>5. \A j \in (T[k].deps \cup {T[k].parent}) \cap DOMAIN T : T[j].tree = T[k].tree
    <3>1. NoTask \notin DOMAIN T BY <1>6, <1>8, <1>9
    <3>. QED BY <1>7, <2>3, <2>4, <3>1
  <2>6. T[k].original = C[i].original /\ T[k].original \in 1..n BY <1>7, <2>2
  <2>7. ASSUME T[k].original \in DOMAIN T
        PROVE  T[T[k].original].origin # "link" /\ T[T[k].original].tree # T[k].tree
    <3>1. T[k].original \in DOMAIN R BY <1>6, <1>9, <2>6, <2>7
    <3>2. R[T[k].original].origin # "link" /\ R[T[k].original].tree \in 1..n
      BY <2>2, <2>6, <3>1 DEF Placed
    <3>3. T[k].tree \in ids BY <1>5, <1>7
    <3>. QED BY <1>6, <1>8, <3>1, <3>2, <3>3
  <2>8. T[k].origin \in Origin /\ T[k].status \in Status /\ T[k].tree \in 1..m
    BY <1>5, <1>6, <1>7, <2>2
  <2>. QED BY <1>6, <2>3, <2>4, <2>5, <2>6, <2>7, <2>8
<1>11. ASSUME NEW i \in DOMAIN R
       PROVE  /\ T[i].origin \in Origin /\ T[i].status \in Status
              /\ T[i].tree \in 1..m /\ T[i].deps \subseteq 1..m \ {i}
              /\ {T[i].parent, T[i].original} \subseteq 1..m \cup {NoTask}
              /\ \A j \in (T[i].deps \cup {T[i].parent}) \cap DOMAIN T : T[j].tree = T[i].tree
              /\ T[i].origin = "link" => T[i].original # NoTask
              /\ T[i].original \in DOMAIN T =>
                   T[T[i].original].origin # "link" /\ T[T[i].original].tree # T[i].tree
  <2>1. /\ R[i].origin \in Origin /\ R[i].status \in Status
        /\ R[i].tree \in 1..n /\ R[i].deps \subseteq 1..n \ {i}
        /\ {R[i].parent, R[i].original} \subseteq 1..n \cup {NoTask}
        /\ \A j \in (R[i].deps \cup {R[i].parent}) \cap DOMAIN R : R[j].tree = R[i].tree
        /\ R[i].origin = "link" => R[i].original # NoTask
        /\ R[i].original \in DOMAIN R =>
             R[R[i].original].origin # "link" /\ R[R[i].original].tree # R[i].tree
    BY DEF Placed
  <2>2. \A j \in DOMAIN T : j \in (1..n) \cup {NoTask} => j \in DOMAIN R
    BY <1>6, <1>8, <1>9
  <2>3. \A j \in (T[i].deps \cup {T[i].parent}) \cap DOMAIN T : T[j].tree = T[i].tree
    BY <1>8, <2>1, <2>2
  <2>4. T[i].original \in DOMAIN T =>
                   T[T[i].original].origin # "link" /\ T[T[i].original].tree # T[i].tree
    BY <1>8, <2>1, <2>2
  <2>. QED BY <1>6, <1>8, <2>1, <2>3, <2>4
<1>12. ASSUME NEW i \in DOMAIN T, NEW j \in DOMAIN T, T[i].tree = T[j].tree
       PROVE  Alike(T, T, i, j)
  <2>1. \A k \in DOMAIN R : T[k].tree \in 1..n BY <1>8 DEF Placed
  <2>2. \A k \in ids : T[k].tree \in ids BY <1>5, <1>7
  <2>3. \A k : k \in DOMAIN T /\ k \in 1..n => k \in DOMAIN R BY <1>6, <1>9
  <2>4. CASE i \in DOMAIN R /\ j \in DOMAIN R
    <3>1. Alike(R, R, i, j) BY <1>8, <1>12, <2>4 DEF Placed
    <3>2. \A k \in {i, j} : T[k].original = R[k].original /\ T[k].deps = R[k].deps
                            /\ T[k].parent = R[k].parent /\ T[k].original \in 1..n \cup {NoTask}
      BY <1>8, <2>4 DEF Placed
    <3>3. \A k \in {i, j} : T[k].original \in DOMAIN T => R[k].original \in DOMAIN R
      BY <1>6, <1>8, <1>9, <3>2
    <3>. QED BY <1>8, <3>1, <3>2, <3>3 DEF Alike
  <2>5. CASE i \in ids /\ j \in ids
    <3>. DEFINE a == src(i)
                b == src(j)
    <3>1. a \in DOMAIN C /\ b \in DOMAIN C /\ map[a] = i /\ map[b] = j BY <1>7, <2>5
    <3>2. Alike(C, R, a, b) BY <3>1 DEF Copied
    <3>3. /\ T[i].original = C[a].original /\ T[j].original = C[b].original
          /\ C[a].original \in 1..n /\ C[b].original \in 1..n
      BY <1>7, <2>5, <3>1 DEF Copied
    <3>4. j \in T[i].deps <=> b \in C[a].deps
      <4>1. T[i].deps = {map[d] : d \in C[a].deps \cap DOMAIN C} BY <1>7, <2>5
      <4>. QED BY <1>5, <3>1, <4>1
    <3>5. T[i].parent = j => C[a].parent = b
      <4>1. T[i].parent = IF C[a].parent \in DOMAIN C THEN map[C[a].parent] ELSE NoTask
        BY <1>7, <2>5
      <4>2. j # NoTask BY <1>6, <2>5
      <4>. QED BY <1>5, <3>1, <4>1, <4>2
    <3>. HIDE DEF a, b
    <3>. QED BY <1>8, <2>3, <3>2, <3>3, <3>4, <3>5 DEF Alike
  <2>. QED BY <1>6, <1>9, <1>12, <2>1, <2>2, <2>4, <2>5
<1>13. Founded(ParentsIn(T))
  <2>. DEFINE next == ParentsIn(T)
  <2>1. DOMAIN next = DOMAIN T /\ \A i \in DOMAIN T : next[i] = {T[i].parent} \cap DOMAIN T
    BY DEF ParentsIn
  <2>. HIDE DEF next
  <2>2. ids \in SUBSET DOMAIN next BY <1>9, <2>1
  <2>3. \A k \in ids : next[k] \subseteq ids
    <3>1. NoTask \notin DOMAIN T BY <1>6, <1>8, <1>9
    <3>. QED BY <1>5, <1>7, <2>1, <3>1
  <2>4. ASSUME NEW z \in SUBSET ids, z # {} PROVE \E k \in z : next[k] \cap z = {}
    <3>. DEFINE y == {i \in DOMAIN C : map[i] \in z}
    <3>1. y # {} BY <1>7, <2>4
    <3>2. y \in SUBSET DOMAIN ParentsIn(C) BY DEF ParentsIn
    <3>. HIDE DEF y
    <3>3. PICK i \in y : (ParentsIn(C))[i] \cap y = {} BY <1>2, <3>1, <3>2 DEF Founded
    <3>4. i \in DOMAIN C /\ map[i] \in z BY <3>3 DEF y
    <3>5. {C[i].parent} \cap DOMAIN C \cap y = {} BY <3>3, <3>4 DEF ParentsIn
    <3>6. src(map[i]) = i BY <1>5, <1>7, <3>4
    <3>7. next[map[i]] \cap z = {}
      <4>1. T[map[i]].parent = IF C[i].parent \in DOMAIN C THEN map[C[i].parent] ELSE NoTask
        BY <1>7, <3>4, <3>6
      <4>2. NoTask \notin z BY <1>6
      <4>3. C[i].parent \in DOMAIN C => map[C[i].parent] \notin z BY <3>5 DEF y
      <4>4. next[map[i]] \subseteq {T[map[i]].parent} BY <1>9, <2>1, <3>4
      <4>. QED BY <4>1, <4>2, <4>3, <4>4
    <3>. QED BY <3>4, <3>7
  <2>5. ASSUME NEW z \in SUBSET (DOMAIN next \ ids), z # {} PROVE \E k \in z : next[k] \cap z = {}
    <3>1. z \in SUBSET DOMAIN ParentsIn(R) BY <1>9, <2>1 DEF ParentsIn
    <3>2. Founded(ParentsIn(R)) BY FoundedParents DEF Placed
    <3>3. PICK k \in z : (ParentsIn(R))[k] \cap z = {} BY <2>5, <3>1, <3>2 DEF Founded
    <3>4. k \in DOMAIN R /\ z \subseteq DOMAIN R BY <3>1 DEF ParentsIn
    <3>5. {R[k].parent} \cap DOMAIN R \cap z = {} BY <3>3, <3>4 DEF ParentsIn
    <3>6. next[k] \cap z = {} BY <1>8, <2>1, <3>4, <3>5
    <3>. QED BY <3>6
  <2>6. Founded(next) BY <2>2, <2>3, <2>4, <2>5, FoundedJoins
  <2>. QED BY <2>6 DEF next
<1>14. Acyclic([i \in DOMAIN T |-> {T[i].parent} \cap DOMAIN T])
  <2>1. IsFiniteSet(1..m) BY <1>6, FS_Interval
  <2>2. DOMAIN T \in SUBSET (1..m) BY <1>6, <1>8, <1>9
  <2>3. IsFiniteSet(DOMAIN T) BY <2>1, <2>2, FS_Subset
  <2>. QED BY <1>13, <2>3, FoundedParents
<1>15. Placed(T, m) BY <1>9, <1>10, <1>11, <1>12, <1>14 DEF Placed
<1>. QED BY <1>15 DEF m, c

-----------------------------------------------------------------------------
(* Clones that are made. *)

\* The rows of i's tree.
TreeOf(R, i) == {j \in DOMAIN R : R[j].tree = R[i].tree}

\* What is below a row is in its tree, and the row is part of it.
LEMMA DescendantsInTree ==
  ASSUME NEW R, IsFiniteSet(DOMAIN R), NEW n, Placed(R, n), NEW t \in DOMAIN R
  PROVE  t \in Descendants(R, t) /\ Descendants(R, t) \subseteq TreeOf(R, t)
<1>. DEFINE next == [i \in DOMAIN R |-> Children(R, i)]
            c == TreeOf(R, t)
<1>1. DOMAIN next = DOMAIN R OBVIOUS
<1>2. c \subseteq DOMAIN next /\ {t} \subseteq c BY DEF TreeOf
<1>3. Closed(next, c) BY DEF Closed, Children, TreeOf, Placed
<1>4. Descendants(R, t) = Reached(next, {t}) BY DEF Descendants
<1>. HIDE DEF next, c
<1>5. {t} \subseteq Reached(next, {t}) /\ Reached(next, {t}) \subseteq c
  BY <1>1, <1>2, <1>3, ReachedLeast
<1>. QED BY <1>4, <1>5 DEF c

LEMMA RootInTree ==
  ASSUME NEW R, IsFiniteSet(DOMAIN R), NEW n, Placed(R, n), NEW t \in DOMAIN R
  PROVE  RootOf(R, t) \in TreeOf(R, t)
<1>. DEFINE step == [i \in DOMAIN R |-> IF R[i].parent \in DOMAIN R THEN R[i].parent ELSE i]
            S == TreeOf(R, t)
<1>1. Cardinality(DOMAIN R) \in Nat BY FS_CardinalityType
<1>2. t \in S /\ \A i \in S : step[i] \in S BY DEF TreeOf, Placed
<1>3. RootOf(R, t) = Iterated(step, t, Cardinality(DOMAIN R)) BY DEF RootOf
<1>. HIDE DEF step, S
<1>4. RootOf(R, t) \in S BY <1>1, <1>2, <1>3, IteratedStays
<1>. QED BY <1>4 DEF S

\* What a subtree is extended by lies in its tree, and nothing of it gets lost.
LEMMA AugmentedInTree ==
  ASSUME NEW R, IsFiniteSet(DOMAIN R), NEW n, Placed(R, n), NEW t \in DOMAIN R,
         NEW excluded, NEW auto, NEW dependents
  PROVE  /\ Augmented(R, t, excluded, auto, dependents) \subseteq TreeOf(R, t)
         /\ Descendants(R, t) \subseteq Augmented(R, t, excluded, auto, dependents)
<1>. DEFINE nodes == Descendants(R, t)
            root == RootOf(R, t)
            all == AllInTree(R, root)
            identifiers == (nodes \cap all) \ excluded
            up == IF auto THEN Upstream(R, identifiers) ELSE {}
            down == IF dependents /\ R[t].parent # NoTask THEN Downstream(R, all, identifiers) ELSE {}
            required == nodes \cup up \cup down
<1>1. Augmented(R, t, excluded, auto, dependents) =
        IF required # nodes /\ required \subseteq Descendants(R, root)
        THEN MinimalSubtree(R, root, required) ELSE nodes
  BY DEF Augmented
<1>2. nodes \subseteq required OBVIOUS
<1>. HIDE DEF required, up, down, identifiers
<1>3. nodes \subseteq TreeOf(R, t) BY DescendantsInTree
<1>4. root \in TreeOf(R, t) BY RootInTree
<1>5. Descendants(R, root) \subseteq TreeOf(R, t)
  <2>1. root \in DOMAIN R /\ R[root].tree = R[t].tree BY <1>4 DEF TreeOf
  <2>. HIDE DEF root
  <2>2. Descendants(R, root) \subseteq TreeOf(R, root) BY <2>1, DescendantsInTree
  <2>. QED BY <2>1, <2>2 DEF TreeOf
<1>6. ASSUME required \subseteq Descendants(R, root)
      PROVE  nodes \subseteq MinimalSubtree(R, root, required)
  <2>1. \A i \in nodes : i \in DOMAIN R BY <1>3 DEF TreeOf
  <2>2. \A i \in nodes : i \in Descendants(R, i) BY <2>1, DescendantsInTree
  <2>. HIDE DEF nodes, root
  <2>. QED BY <1>2, <1>6, <2>2 DEF MinimalSubtree
<1>7. MinimalSubtree(R, root, required) \subseteq TreeOf(R, t) BY <1>5 DEF MinimalSubtree
<1>. HIDE DEF nodes, root, all
<1>8. nodes \subseteq Augmented(R, t, excluded, auto, dependents)
  BY <1>1, <1>6
<1>9. Augmented(R, t, excluded, auto, dependents) \subseteq TreeOf(R, t)
  BY <1>1, <1>3, <1>7
<1>. QED BY <1>8, <1>9 DEF nodes

\* If the whole tree can be reached from its root, the dependencies come along.
LEMMA AugmentedIsClosed ==
  ASSUME NEW R, IsFiniteSet(DOMAIN R), NEW n, Placed(R, n), NEW t \in DOMAIN R,
         NEW dependents,
         R[RootOf(R, t)].parent = NoTask,
         AllInTree(R, RootOf(R, t)) = Descendants(R, RootOf(R, t)),
         NEW i \in Descendants(R, t)
  PROVE  R[i].deps \cap DOMAIN R \subseteq Augmented(R, t, {}, TRUE, dependents)
<1>. DEFINE nodes == Descendants(R, t)
            root == RootOf(R, t)
            all == AllInTree(R, root)
            identifiers == (nodes \cap all) \ {}
            up == Upstream(R, identifiers)
            down == IF dependents /\ R[t].parent # NoTask THEN Downstream(R, all, identifiers) ELSE {}
            required == nodes \cup up \cup down
            result == Augmented(R, t, {}, TRUE, dependents)
            next == [j \in DOMAIN R |-> R[j].deps \cap DOMAIN R]
            reached == Reached(next, nodes)
<1>1. result = IF required # nodes /\ required \subseteq Descendants(R, root)
               THEN MinimalSubtree(R, root, required) ELSE nodes
  BY DEF Augmented
<1>2. nodes \subseteq TreeOf(R, t) BY DescendantsInTree
<1>3. root \in TreeOf(R, t) BY RootInTree
<1>4. all = TreeOf(R, t) /\ all = Descendants(R, root)
  BY <1>3 DEF AllInTree, TreeOf
<1>5. identifiers = nodes BY <1>2, <1>4
<1>6. up = reached \ nodes BY <1>5 DEF Upstream
<1>. HIDE DEF identifiers, up
<1>7. nodes \subseteq reached /\ reached \subseteq TreeOf(R, t) /\ Closed(next, reached)
  <2>1. DOMAIN next = DOMAIN R /\ \A j \in DOMAIN next : next[j] \subseteq DOMAIN next OBVIOUS
  <2>2. Closed(next, TreeOf(R, t)) BY DEF Closed, TreeOf, Placed
  <2>3. TreeOf(R, t) \subseteq DOMAIN next BY DEF TreeOf
  <2>4. nodes \subseteq DOMAIN next BY <1>2, <2>3
  <2>. HIDE DEF next, nodes
  <2>5. Closed(next, reached) BY <2>1, <2>4, ReachedClosed
  <2>6. nodes \subseteq reached /\ reached \subseteq TreeOf(R, t)
    BY <1>2, <2>1, <2>2, <2>3, ReachedLeast
  <2>. QED BY <2>5, <2>6
<1>8. R[i].deps \cap DOMAIN R \subseteq reached
  <2>1. i \in reached /\ i \in DOMAIN R BY <1>7 DEF TreeOf
  <2>2. next[i] = R[i].deps \cap DOMAIN R BY <2>1
  <2>. HIDE DEF next, reached
  <2>. QED BY <1>7, <2>1, <2>2 DEF Closed
<1>9. down \subseteq all
  <2>. DEFINE edges == [j \in all |-> {k \in all : j \in R[k].deps}]
  <2>1. DOMAIN edges = all /\ \A j \in DOMAIN edges : edges[j] \subseteq DOMAIN edges OBVIOUS
  <2>2. all \in SUBSET DOMAIN R BY <1>4 DEF TreeOf
  <2>3. IsFiniteSet(all)
    <3>. HIDE DEF all
    <3>. QED BY <2>2, FS_Subset
  <2>4. identifiers \subseteq all BY <1>2, <1>4, <1>5
  <2>5. Downstream(R, all, identifiers) = Reached(edges, identifiers) BY DEF Downstream
  <2>. HIDE DEF edges, all
  <2>6. Reached(edges, identifiers) \subseteq DOMAIN edges BY <2>1, <2>3, <2>4, ReachedWithin
  <2>. QED BY <2>1, <2>5, <2>6
<1>10. reached \subseteq required BY <1>6
<1>. HIDE DEF down
<1>11. required \subseteq Descendants(R, root) BY <1>2, <1>4, <1>6, <1>7, <1>9
<1>12. CASE required = nodes
  <2>. HIDE DEF required, nodes, result, reached
  <2>. QED BY <1>1, <1>8, <1>10, <1>12 DEF result
<1>13. CASE required # nodes
  <2>1. \A j \in required : j \in DOMAIN R BY <1>4, <1>11 DEF TreeOf
  <2>2. \A j \in required : j \in Descendants(R, j) BY <2>1, DescendantsInTree
  <2>. HIDE DEF required, nodes, root, reached
  <2>3. required \subseteq MinimalSubtree(R, root, required) BY <1>11, <2>2 DEF MinimalSubtree
  <2>. QED BY <1>1, <1>8, <1>10, <1>11, <1>13, <2>3
<1>. QED BY <1>12, <1>13

\* What an operation takes along is in the tree of its task.
LEMMA NodesInTree ==
  ASSUME IsFiniteSet(DOMAIN rows), NEW n, Placed(rows, n), NEW r, r.task \in DOMAIN rows
  PROVE  /\ r.task \in Nodes(r) /\ Nodes(r) \subseteq TreeOf(rows, r.task)
         /\ r.whole => Descendants(rows, r.task) \subseteq Nodes(r)
<1>1. /\ r.task \in Descendants(rows, r.task)
      /\ Descendants(rows, r.task) \subseteq TreeOf(rows, r.task)
  BY DescendantsInTree
<1>2. \A excluded, auto, dependents :
        /\ Augmented(rows, r.task, excluded, auto, dependents) \subseteq TreeOf(rows, r.task)
        /\ Descendants(rows, r.task) \subseteq Augmented(rows, r.task, excluded, auto, dependents)
  BY AugmentedInTree
<1>3. r.task \in TreeOf(rows, r.task) BY DEF TreeOf
<1>. QED BY <1>1, <1>2, <1>3 DEF Nodes

\* The columns of a clone before it is saved.
LEMMA ClonedColumns ==
  ASSUME NEW R, NEW i, NEW kind \in {"copy", "link", "mixed"},
         R[i] = [c \in Columns |-> R[i][c]]
  PROVE  LET row == ClonedRow(R, i, kind)
         IN  /\ row = [c \in Columns |-> row[c]]
             /\ row.origin \in {"copy", "link"} /\ row.status \in {"pending", R[i].status}
             /\ row.original = MostOriginal(R, i)
             /\ row.parent = R[i].parent /\ row.deps = R[i].deps
<1>. DEFINE row == CASE kind = "copy" -> NewRow("copy", Effective(R, R[i]).content)
                     [] kind = "link" -> [NewRow("link", "none") EXCEPT !.status = R[i].status]
                     [] kind = "mixed" -> [R[i] EXCEPT !.origin = "link", !.referenced = FALSE]
<1>1. /\ row = [c \in Columns |-> row[c]]
      /\ row.origin \in {"copy", "link"} /\ row.status \in {"pending", R[i].status}
  <2>1. CASE kind = "copy"
    <3>1. row = NewRow("copy", Effective(R, R[i]).content) BY <2>1
    <3>. HIDE DEF row
    <3>. QED BY <3>1 DEF NewRow, Columns
  <2>2. CASE kind = "link"
    <3>1. row = [NewRow("link", "none") EXCEPT !.status = R[i].status] BY <2>2
    <3>. HIDE DEF row
    <3>. QED BY <3>1 DEF NewRow, Columns
  <2>3. CASE kind = "mixed"
    <3>1. row = [R[i] EXCEPT !.origin = "link", !.referenced = FALSE] BY <2>3
    <3>. HIDE DEF row
    <3>. QED BY <3>1 DEF Columns
  <2>. QED BY <2>1, <2>2, <2>3
<1>2. ClonedRow(R, i, kind) =
        [row EXCEPT !.original = MostOriginal(R, i), !.parent = R[i].parent, !.deps = R[i].deps]
  BY DEF ClonedRow
<1>. HIDE DEF row
<1>. QED BY <1>1, <1>2 DEF Columns

\* The clones of rows of one tree are shaped like the originals: links were made with
\* originals in another tree, the rest of a tree refers to itself.
LEMMA ClonesCopied ==
  ASSUME NEW R, IsFiniteSet(DOMAIN R), NEW n \in Nat, Placed(R, n), DOMAIN R \subseteq 1..n,
         NoTask \notin Nat, NEW t \in DOMAIN R,
         NEW nodes, t \in nodes, nodes \subseteq TreeOf(R, t),
         NEW C, DOMAIN C = nodes,
         \A i \in nodes : /\ C[i].origin \in Origin /\ C[i].status \in Status
                          /\ C[i].original = MostOriginal(R, i) /\ C[i].original # NoTask,
         \/ \A i \in nodes : C[i].parent = R[i].parent /\ C[i].deps = R[i].deps
         \/ nodes = {t} /\ C[t].parent = NoTask /\ C[t].deps = {}
  PROVE  Copied(C, R, n)
<1>1. NoTask \notin DOMAIN R OBVIOUS
<1>2. \A i \in nodes : i \in DOMAIN R /\ R[i].tree = R[t].tree BY DEF TreeOf
<1>3. ASSUME NEW i \in nodes
      PROVE  /\ C[i].original = IF R[i].origin # "link" THEN i ELSE R[i].original
             /\ C[i].original \in DOMAIN R /\ C[i].original \in 1..n
             /\ R[C[i].original].origin # "link"
             /\ R[i].origin = "link" => R[C[i].original].tree # R[i].tree
  <2>1. MostOriginal(R, i) = IF R[i].origin # "link" THEN i
                             ELSE IF R[i].original \in DOMAIN R THEN R[i].original ELSE NoTask
    BY <1>1, <1>2, MostOriginalRow
  <2>. QED BY <1>2, <2>1 DEF Placed
<1>4. \A i \in nodes : i \notin C[i].deps BY <1>2 DEF Placed
<1>5. ASSUME NEW i \in nodes, NEW j \in nodes PROVE Alike(C, R, i, j)
  <2>. DEFINE o == C[i].original
              p == C[j].original
  <2>. SUFFICES ASSUME R[o].tree = R[p].tree
                PROVE  /\ j \in C[i].deps <=> p \in R[o].deps
                       /\ C[i].parent = j => R[o].parent = p
    BY DEF Alike
  <2>1. CASE nodes = {t} /\ C[t].parent = NoTask /\ C[t].deps = {}
    <3>1. i = t /\ j = t /\ o = p /\ o \in DOMAIN R BY <1>3, <2>1
    <3>2. p \notin R[o].deps BY <3>1 DEF Placed
    <3>3. j # NoTask BY <1>1, <3>1
    <3>. QED BY <2>1, <3>1, <3>2, <3>3
  <2>2. CASE C[i].parent = R[i].parent /\ C[i].deps = R[i].deps
    <3>1. R[i].origin = "link" <=> R[j].origin = "link" BY <1>2, <1>3
    <3>2. CASE R[i].origin # "link"
      <4>1. o = i /\ p = j BY <1>3, <3>1, <3>2
      <4>. QED BY <2>2, <4>1
    <3>3. CASE R[i].origin = "link"
      <4>1. o = R[i].original /\ p = R[j].original /\ o \in DOMAIN R /\ p \in DOMAIN R
        BY <1>3, <3>1, <3>3
      <4>2. Alike(R, R, i, j) BY <1>2 DEF Placed
      <4>. QED BY <2>2, <4>1, <4>2 DEF Alike
    <3>. QED BY <3>2, <3>3
  <2>. QED BY <2>1, <2>2
<1>6. Founded(ParentsIn(C))
  <2>1. Founded(ParentsIn(R)) BY FoundedParents DEF Placed
  <2>2. CASE \A i \in nodes : C[i].parent = R[i].parent
    BY <1>2, <2>1, <2>2, FoundedWithin
  <2>3. CASE nodes = {t} /\ C[t].parent = NoTask
    <3>1. (ParentsIn(C))[t] = {} BY <1>1, <2>3 DEF ParentsIn
    <3>. QED BY <2>3, <3>1 DEF Founded, ParentsIn
  <2>. QED BY <2>2, <2>3
<1>7. Acyclic([i \in DOMAIN C |-> {C[i].parent} \cap DOMAIN C])
  <2>1. nodes \in SUBSET DOMAIN R BY <1>2
  <2>2. IsFiniteSet(DOMAIN C) BY <2>1, FS_Subset
  <2>. QED BY <1>6, <2>2, FoundedParents
<1>. QED BY <1>3, <1>4, <1>5, <1>7 DEF Copied

-----------------------------------------------------------------------------
(* Where the sessions stand. *)

Places == {"idle", "check", "gather", "save", "authorize", "lock", "read", "freeze"}

Control ==
  /\ nextId \in 1..MaxId + 1 /\ calls \in 0..Calls /\ DOMAIN runs \subseteq 1..MaxId
  /\ \A s \in Session : req[s].at \in Places /\ (req[s].at = "lock" => req[s].nodes # {})
  /\ lock = [s \in Session |-> lock[s]] /\ LocksAreReleased

\* What the sessions have in memory copies what is left of the originals.
Copies == \A s \in Session : req[s].at = "save" => Copied(req[s].clones, rows, nextId - 1)

LEMMA FaithfulParts ==
  FaithfulInv <=> ReuseInv /\ Control /\ Copies /\ Placed(rows, nextId - 1)
<1>1. FaithfulInv => ReuseInv /\ Control /\ Copies /\ Placed(rows, nextId - 1)
  BY DEF FaithfulInv, Control, Copies, TypeOK, Places
<1>2. ASSUME ReuseInv, Control, Copies, Placed(rows, nextId - 1) PROVE FaithfulInv
  <2>1. nextId \in 1..MaxId + 1 /\ DOMAIN rows \subseteq 1..(nextId - 1) /\ MaxId \in Nat
    BY <1>2, ReuseAssumption DEF Control, ReuseInv
  <2>2. 1..(nextId - 1) \subseteq 1..MaxId BY <2>1
  <2>3. \A i \in DOMAIN rows :
          /\ rows[i].origin \in Origin /\ rows[i].status \in Status
          /\ rows[i].parent \in 1..MaxId \cup {NoTask} /\ rows[i].deps \subseteq 1..MaxId
    BY <1>2, <2>2 DEF Placed
  <2>4. DOMAIN rows \subseteq 1..MaxId BY <2>1, <2>2
  <2>5. TypeOK BY <1>2, <2>3, <2>4 DEF TypeOK, Control, Places
  <2>. QED BY <1>2, <2>5 DEF FaithfulInv, Control, Copies
<1>. QED BY <1>1, <1>2

\* One session moves; it may keep a lock only up to the end of the archive.
LEMMA SessionMoves ==
  ASSUME Control, NEW s \in Session, \A o \in Session \ {s} : req'[o] = req[o],
         req'[s].at \in Places, req'[s].at = "lock" => req'[s].nodes # {},
         nextId' \in 1..MaxId + 1, DOMAIN runs' \subseteq 1..MaxId, calls' \in 0..Calls,
         \/ lock' = [lock EXCEPT ![s] = NoTask]
         \/ lock' = lock /\ (req[s].at \in {"read", "freeze"} => req'[s].at \in {"read", "freeze"})
  PROVE  Control'
<1>1. lock = [o \in Session |-> lock[o]] /\ LocksAreReleased BY DEF Control
<1>2. lock' = [o \in Session |-> lock'[o]] BY <1>1
<1>3. \A o \in Session \ {s} : lock'[o] = lock[o] BY <1>1
<1>4. \/ lock'[s] = NoTask
      \/ lock'[s] = lock[s] /\ (lock[s] # NoTask => req'[s].at \in {"read", "freeze"})
  BY <1>1 DEF LocksAreReleased
<1>5. ASSUME NEW o \in Session, lock'[o] # NoTask
      PROVE  /\ req'[o].at \in {"read", "freeze"}
             /\ \A p \in Session \ {o} : lock'[p] # lock'[o]
  <2>1. lock'[o] = lock[o] BY <1>3, <1>4, <1>5
  <2>2. req'[o].at \in {"read", "freeze"} BY <1>1, <1>3, <1>4, <1>5, <2>1 DEF LocksAreReleased
  <2>3. \A p \in Session \ {o} : lock[p] # lock[o]
    BY <1>1, <1>5, <2>1 DEF LocksAreReleased, Unlocked
  <2>. QED BY <1>3, <1>4, <1>5, <2>1, <2>2, <2>3
<1>6. LocksAreReleased' BY <1>5 DEF LocksAreReleased, Unlocked
<1>7. \A o \in Session : req'[o].at \in Places /\ (req'[o].at = "lock" => req'[o].nodes # {})
  BY DEF Control
<1>. QED BY <1>2, <1>6, <1>7 DEF Control

LEMMA LeftCopied ==
  ASSUME NEW R, NEW T, NEW n \in Nat, Left(T, R)
  PROVE  \A C : Copied(C, R, n) => Copied(C, T, n)
<1>. SUFFICES ASSUME NEW C, Copied(C, R, n) PROVE Copied(C, T, n) OBVIOUS
<1>1. n <= n /\ DOMAIN T \cap (1..n) \subseteq DOMAIN R BY DEF Left
<1>2. \A i \in DOMAIN T \cap DOMAIN R :
        /\ T[i].origin \in {R[i].origin, "archive"} /\ T[i].tree = R[i].tree
        /\ T[i].parent = R[i].parent /\ T[i].deps = R[i].deps
  BY DEF Left
<1>. QED BY <1>1, <1>2, StaysCopied

\* Who writes no row leaves the others' clones as they are.
LEMMA RowsUnread ==
  ASSUME Copies, Placed(rows, nextId - 1), UNCHANGED <<rows, nextId>>,
         NEW s \in Session, \A o \in Session \ {s} : req'[o] = req[o],
         req'[s].at = "save" => Copied(req'[s].clones, rows, nextId - 1)
  PROVE  Copies' /\ Placed(rows, nextId - 1)'
  BY DEF Copies

LEMMA RowsLeft ==
  ASSUME ReuseInv, Copies, Placed(rows, nextId - 1), nextId' = nextId, Left(rows', rows),
         req' = req \/ (\E s \in Session : req' = [req EXCEPT ![s] = Idle])
  PROVE  Copies' /\ Placed(rows, nextId - 1)'
<1>1. Placed(rows', nextId - 1) BY FinitelyMany, LeftPlaced
<1>2. nextId - 1 \in Nat BY DEF ReuseInv
<1>3. \A C : Copied(C, rows, nextId - 1) => Copied(C, rows', nextId - 1) BY <1>2, LeftCopied
<1>4. \A o \in Session : req'[o].at = "save" => req'[o] = req[o] BY DEF ReuseInv, Idle
<1>5. Copies' BY <1>3, <1>4 DEF Copies
<1>. QED BY <1>1, <1>5

-----------------------------------------------------------------------------
(* The steps of clones. *)

Faithful == ReuseInv /\ Control /\ Copies /\ Placed(rows, nextId - 1)
StaysFaithful == Control' /\ Copies' /\ Placed(rows, nextId - 1)'

LEMMA GiveUpFaithful == ASSUME Faithful, NEW s \in Session, GiveUp(s) PROVE StaysFaithful
<1>1. /\ req' = [req EXCEPT ![s] = Idle] /\ lock' = [lock EXCEPT ![s] = NoTask]
      /\ UNCHANGED <<rows, runs, nextId, calls>> /\ req = [o \in Session |-> req[o]]
  BY DEF GiveUp, Faithful, ReuseInv
<1>2. (\A o \in Session \ {s} : req'[o] = req[o]) /\ req'[s].at = "idle" BY <1>1 DEF Idle
<1>3. nextId' \in 1..MaxId + 1 /\ DOMAIN runs' \subseteq 1..MaxId /\ calls' \in 0..Calls
  BY <1>1 DEF Faithful, Control
<1>4. Control' BY <1>1, <1>2, <1>3, SessionMoves DEF Faithful, Places
<1>5. Copies' /\ Placed(rows, nextId - 1)' BY <1>1, <1>2, RowsUnread DEF Faithful
<1>. QED BY <1>4, <1>5 DEF StaysFaithful

\* A session that writes nothing and gathers no clones.
LEMMA GoesOnFaithful ==
  ASSUME Faithful, UNCHANGED <<rows, runs, nextId>>, calls' \in 0..Calls, NEW s \in Session,
         NEW memory, req' = [req EXCEPT ![s] = memory],
         memory.at \in Places \ {"save"}, memory.at = "lock" => memory.nodes # {},
         lock' = lock, req[s].at \in {"read", "freeze"} => memory.at \in {"read", "freeze"}
  PROVE  StaysFaithful
<1>1. req = [o \in Session |-> req[o]] BY DEF Faithful, ReuseInv
<1>2. (\A o \in Session \ {s} : req'[o] = req[o]) /\ req'[s] = memory BY <1>1
<1>3. nextId' \in 1..MaxId + 1 /\ DOMAIN runs' \subseteq 1..MaxId BY DEF Faithful, Control
<1>4. Control' BY <1>2, <1>3, SessionMoves DEF Faithful
<1>5. Copies' /\ Placed(rows, nextId - 1)' BY <1>2, RowsUnread DEF Faithful
<1>. QED BY <1>4, <1>5 DEF StaysFaithful

LEMMA Memory ==
  ASSUME Faithful, NEW s \in Session, req[s].at # "idle"
  PROVE  {"at", "op", "clones", "seen", "nodes"} \subseteq DOMAIN req[s] /\ calls \in 0..Calls
  BY DEF Faithful, ReuseInv, Remembers, Control

LEMMA AskFaithful ==
  ASSUME Faithful, NEW s \in Session, NEW r \in Request,
         NEW at \in {"check", "gather", "authorize", "read"}, Ask(s, r, at)
  PROVE  StaysFaithful
<1>. DEFINE more == [at |-> at, clones |-> << >>, seen |-> {}, nodes |-> {}]
            memory == Over(more, r)
<1>1. /\ req' = [req EXCEPT ![s] = memory] /\ UNCHANGED <<rows, runs, nextId, lock>>
      /\ calls > 0 /\ calls' = calls - 1 /\ req[s] = Idle
  BY DEF Ask
<1>2. req[s].at = "idle" BY <1>1 DEF Idle
<1>3. memory.at = at BY DEF Over
<1>4. calls' \in 0..Calls BY <1>1, ReuseAssumption DEF Faithful, Control
<1>. HIDE DEF memory
<1>. QED BY <1>1, <1>2, <1>3, <1>4, GoesOnFaithful DEF Places

LEMMA CheckFaithful == ASSUME Faithful, NEW s \in Session, Check(s) PROVE StaysFaithful
<1>1. CASE GiveUp(s) BY <1>1, GiveUpFaithful
<1>2. CASE ~GiveUp(s)
  <2>. DEFINE memory == [req[s] EXCEPT !.at = "gather"]
  <2>1. /\ req[s].at = "check" /\ req' = [req EXCEPT ![s] = memory]
        /\ UNCHANGED <<rows, runs, nextId, lock, calls>>
    BY <1>2 DEF Check
  <2>2. memory.at = "gather" /\ calls' \in 0..Calls BY <2>1, Memory
  <2>. HIDE DEF memory
  <2>. QED BY <2>1, <2>2, GoesOnFaithful DEF Places
<1>. QED BY <1>1, <1>2

LEMMA AuthorizeFaithful == ASSUME Faithful, NEW s \in Session, Authorize(s) PROVE StaysFaithful
<1>1. CASE GiveUp(s) BY <1>1, GiveUpFaithful
<1>2. CASE ~GiveUp(s)
  <2>. DEFINE memory == [req[s] EXCEPT !.at = "lock", !.nodes = {RootOf(rows, req[s].task)}]
  <2>1. /\ req[s].at = "authorize" /\ req' = [req EXCEPT ![s] = memory]
        /\ UNCHANGED <<rows, runs, nextId, lock, calls>>
    BY <1>2 DEF Authorize
  <2>2. memory.at = "lock" /\ memory.nodes # {} /\ calls' \in 0..Calls BY <2>1, Memory
  <2>. HIDE DEF memory
  <2>. QED BY <2>1, <2>2, GoesOnFaithful DEF Places
<1>. QED BY <1>1, <1>2

LEMMA ReadFaithful == ASSUME Faithful, NEW s \in Session, Read(s) PROVE StaysFaithful
<1>1. CASE GiveUp(s) BY <1>1, GiveUpFaithful
<1>2. CASE ~GiveUp(s)
  <2>. DEFINE memory == [req[s] EXCEPT !.at = "freeze", !.nodes = Nodes(req[s]),
                                       !.seen = Descendants(rows, req[s].task)]
  <2>1. /\ req[s].at = "read" /\ req' = [req EXCEPT ![s] = memory]
        /\ UNCHANGED <<rows, runs, nextId, lock, calls>>
    BY <1>2 DEF Read
  <2>2. memory.at = "freeze" /\ calls' \in 0..Calls BY <2>1, Memory
  <2>. HIDE DEF memory
  <2>. QED BY <2>1, <2>2, GoesOnFaithful DEF Places
<1>. QED BY <1>1, <1>2

\* The root that is locked is one that nobody else has locked.
LEMMA LockRootFaithful == ASSUME Faithful, NEW s \in Session, LockRoot(s) PROVE StaysFaithful
<1>1. CASE GiveUp(s) BY <1>1, GiveUpFaithful
<1>2. CASE ~GiveUp(s)
  <2>. DEFINE root == CHOOSE i \in req[s].nodes : TRUE
              locked == IF root \in DOMAIN rows THEN root ELSE NoTask
              memory == [req[s] EXCEPT !.at = "read"]
  <2>1. /\ req[s].at = "lock" /\ req' = [req EXCEPT ![s] = memory]
        /\ lock' = [lock EXCEPT ![s] = locked] /\ Unlocked(s, req[s].nodes)
        /\ UNCHANGED <<rows, runs, nextId, calls>>
    BY <1>2 DEF LockRoot
  <2>2. memory.at = "read" BY <2>1, Memory
  <2>3. root \in req[s].nodes BY <2>1 DEF Faithful, Control
  <2>. HIDE DEF memory, root
  <2>4. req = [o \in Session |-> req[o]] /\ lock = [o \in Session |-> lock[o]] /\ LocksAreReleased
    BY DEF Faithful, ReuseInv, Control
  <2>5. /\ \A o \in Session \ {s} : req'[o] = req[o] /\ lock'[o] = lock[o]
        /\ req'[s] = memory /\ lock'[s] = locked /\ lock' = [o \in Session |-> lock'[o]]
    BY <2>1, <2>4
  <2>6. \A o \in Session \ {s} : lock[o] # root BY <2>1, <2>3 DEF Unlocked
  <2>7. ASSUME NEW o \in Session, lock'[o] # NoTask
        PROVE  req'[o].at \in {"read", "freeze"} /\ \A p \in Session \ {o} : lock'[p] # lock'[o]
    <3>1. CASE o = s BY <2>2, <2>5, <2>6, <2>7, <3>1
    <3>2. CASE o # s
      <4>1. lock'[o] = lock[o] /\ req'[o] = req[o] /\ lock[o] # root BY <2>5, <2>6, <3>2
      <4>2. req[o].at \in {"read", "freeze"} /\ \A p \in Session \ {o} : lock[p] # lock[o]
        BY <2>4, <2>7, <4>1 DEF LocksAreReleased, Unlocked
      <4>. QED BY <2>5, <2>7, <4>1, <4>2
    <3>. QED BY <3>1, <3>2
  <2>8. LocksAreReleased' BY <2>7 DEF LocksAreReleased, Unlocked
  <2>9. Control' BY <2>1, <2>2, <2>5, <2>8 DEF Faithful, Control, Places
  <2>10. Copies' /\ Placed(rows, nextId - 1)' BY <2>1, <2>2, <2>5, RowsUnread DEF Faithful
  <2>. QED BY <2>9, <2>10 DEF StaysFaithful
<1>. QED BY <1>1, <1>2

\* What a gathering session has read, and what it keeps of it.
LEMMA Gathered ==
  ASSUME Faithful, NEW s \in Session, Gather(s), ~GiveUp(s)
  PROVE  LET r == req[s]
             clones == req'[s].clones
         IN  /\ req' = [o \in Session |-> req'[o]] /\ \A o \in Session \ {s} : req'[o] = req[o]
             /\ r.at = "gather" /\ req'[s].at = "save"
             /\ UNCHANGED <<rows, runs, nextId, lock, calls>>
             /\ r.task \in DOMAIN rows /\ Allowed(r)
             /\ DOMAIN clones = Nodes(r)
             /\ \A i \in Nodes(r) :
                  /\ clones[i].origin \in Origin /\ clones[i].status \in Status
                  /\ clones[i].original = MostOriginal(rows, i) /\ clones[i].original # NoTask
             /\ IF r.whole
                THEN \A i \in Nodes(r) :
                       clones[i].parent = rows[i].parent /\ clones[i].deps = rows[i].deps
                ELSE \A i \in Nodes(r) : clones[i].parent = NoTask /\ clones[i].deps = {}
<1>. DEFINE nodes == Nodes(req[s])
            kinds == Kinds(s, nodes)
            clones == Clones(rows, kinds)
            single == [i \in DOMAIN clones |-> [clones[i] EXCEPT !.parent = NoTask, !.deps = {}]]
            made == IF req[s].whole THEN clones ELSE single
            memory == [req[s] EXCEPT !.at = "save", !.clones = made]
<1>1. /\ req[s].at = "gather" /\ req' = [req EXCEPT ![s] = memory]
      /\ UNCHANGED <<rows, runs, nextId, lock, calls>>
      /\ req[s].task \in DOMAIN rows /\ Allowed(req[s]) /\ Clonable(rows, kinds)
  BY DEF Gather
<1>2. /\ req = [o \in Session |-> req[o]]
      /\ {"at", "op", "clones", "seen", "nodes"} \subseteq DOMAIN req[s]
      /\ req[s].op \in {"link", "copy", "mixed"}
  BY <1>1 DEF Faithful, ReuseInv, Remembers
<1>3. nodes \subseteq DOMAIN rows BY <1>1, FinitelyMany, NodesExist DEF Faithful
<1>4. DOMAIN kinds = nodes /\ \A i \in nodes : kinds[i] \in {"copy", "link", "mixed"}
  <2>. HIDE DEF nodes
  <2>. QED BY <1>2 DEF Kinds
<1>. HIDE DEF nodes, kinds
<1>5. clones = [i \in nodes |-> ClonedRow(rows, i, kinds[i])] BY <1>4 DEF Clones
<1>6. ASSUME NEW i \in nodes
      PROVE  /\ clones[i] = [c \in Columns |-> clones[i][c]]
             /\ clones[i].origin \in Origin /\ clones[i].status \in Status
             /\ clones[i].original = MostOriginal(rows, i) /\ clones[i].original # NoTask
             /\ clones[i].parent = rows[i].parent /\ clones[i].deps = rows[i].deps
  <2>1. Sound(rows[i]) /\ rows[i].status \in Status BY <1>3 DEF Faithful, ReuseInv, Placed
  <2>2. rows[i] = [c \in Columns |-> rows[i][c]] BY <2>1, SoundRow
  <2>3. MostOriginal(rows, i) # NoTask BY <1>1, <1>4 DEF Clonable
  <2>4. clones[i] = ClonedRow(rows, i, kinds[i]) /\ kinds[i] \in {"copy", "link", "mixed"}
    BY <1>4, <1>5
  <2>. HIDE DEF clones
  <2>5. /\ clones[i] = [c \in Columns |-> clones[i][c]]
        /\ clones[i].origin \in {"copy", "link"} /\ clones[i].status \in {"pending", rows[i].status}
        /\ clones[i].original = MostOriginal(rows, i)
        /\ clones[i].parent = rows[i].parent /\ clones[i].deps = rows[i].deps
    BY <2>2, <2>4, ClonedColumns
  <2>. QED BY <2>1, <2>3, <2>5 DEF Origin, Status
<1>7. DOMAIN clones = nodes BY <1>5
<1>. HIDE DEF clones
<1>8. ASSUME NEW i \in nodes
      PROVE  /\ single[i].origin \in Origin /\ single[i].status \in Status
             /\ single[i].original = MostOriginal(rows, i) /\ single[i].original # NoTask
             /\ single[i].parent = NoTask /\ single[i].deps = {}
  BY <1>6, <1>7 DEF Columns
<1>9. DOMAIN made = nodes BY <1>7
<1>10. \A i \in nodes : /\ made[i].origin \in Origin /\ made[i].status \in Status
                        /\ made[i].original = MostOriginal(rows, i) /\ made[i].original # NoTask
  <2>. HIDE DEF single
  <2>. QED BY <1>6, <1>8
<1>11. IF req[s].whole
       THEN \A i \in nodes : made[i].parent = rows[i].parent /\ made[i].deps = rows[i].deps
       ELSE \A i \in nodes : made[i].parent = NoTask /\ made[i].deps = {}
  <2>. HIDE DEF single
  <2>. QED BY <1>6, <1>8
<1>. HIDE DEF made
<1>12. /\ req'[s].clones = made /\ req'[s].at = "save"
       /\ req' = [o \in Session |-> req'[o]]
       /\ \A o \in Session \ {s} : req'[o] = req[o]
  BY <1>1, <1>2
<1>. QED BY <1>1, <1>9, <1>10, <1>11, <1>12 DEF nodes

\* Clones that are gathered copy what was read.
LEMMA GatherFaithful == ASSUME Faithful, NEW s \in Session, Gather(s) PROVE StaysFaithful
<1>1. CASE GiveUp(s) BY <1>1, GiveUpFaithful
<1>2. CASE ~GiveUp(s)
  <2>. DEFINE r == req[s]
              n == nextId - 1
              clones == req'[s].clones
  <2>1. /\ \A o \in Session \ {s} : req'[o] = req[o]
        /\ r.at = "gather" /\ req'[s].at = "save" /\ UNCHANGED <<rows, runs, nextId, lock, calls>>
        /\ r.task \in DOMAIN rows /\ DOMAIN clones = Nodes(r)
        /\ \A i \in Nodes(r) :
             /\ clones[i].origin \in Origin /\ clones[i].status \in Status
             /\ clones[i].original = MostOriginal(rows, i) /\ clones[i].original # NoTask
        /\ IF r.whole
           THEN \A i \in Nodes(r) :
                  clones[i].parent = rows[i].parent /\ clones[i].deps = rows[i].deps
           ELSE \A i \in Nodes(r) : clones[i].parent = NoTask /\ clones[i].deps = {}
    BY <1>2, Gathered
  <2>2. n \in Nat /\ IsFiniteSet(DOMAIN rows) /\ DOMAIN rows \subseteq 1..n /\ Placed(rows, n)
    BY FinitelyMany DEF Faithful, ReuseInv
  <2>3. r.task \in Nodes(r) /\ Nodes(r) \subseteq TreeOf(rows, r.task) BY <2>1, <2>2, NodesInTree
  <2>4. \/ \A i \in Nodes(r) : clones[i].parent = rows[i].parent /\ clones[i].deps = rows[i].deps
        \/ /\ Nodes(r) = {r.task}
           /\ clones[r.task].parent = NoTask /\ clones[r.task].deps = {}
    <3>1. CASE r.whole BY <2>1, <3>1
    <3>2. CASE ~r.whole
      <4>1. Nodes(r) = {r.task} BY <3>2 DEF Nodes
      <4>. QED BY <2>1, <3>2, <4>1
    <3>. QED BY <3>1, <3>2
  <2>5. NoTask \notin Nat BY ReuseAssumption
  <2>6. \A C, t, nodes :
          /\ t \in DOMAIN rows /\ t \in nodes /\ nodes \subseteq TreeOf(rows, t) /\ DOMAIN C = nodes
          /\ \A i \in nodes : /\ C[i].origin \in Origin /\ C[i].status \in Status
                              /\ C[i].original = MostOriginal(rows, i) /\ C[i].original # NoTask
          /\ \/ \A i \in nodes : C[i].parent = rows[i].parent /\ C[i].deps = rows[i].deps
             \/ nodes = {t} /\ C[t].parent = NoTask /\ C[t].deps = {}
          => Copied(C, rows, n)
    <3>. HIDE DEF n
    <3>. QED BY <2>2, <2>5, ClonesCopied
  <2>. HIDE DEF n, clones
  <2>7. Copied(clones, rows, n) BY <2>1, <2>3, <2>4, <2>6
  <2>8. Copied(req'[s].clones, rows, nextId - 1) BY <2>7 DEF n, clones
  <2>9. Control' BY <2>1, SessionMoves DEF Faithful, Control, Places
  <2>10. Copies' /\ Placed(rows, nextId - 1)' BY <2>1, <2>8, RowsUnread DEF Faithful
  <2>. QED BY <2>9, <2>10 DEF StaysFaithful
<1>. QED BY <1>1, <1>2

\* A subtree that is cloned takes its dependencies along.
LEMMA GatherWhole ==
  ASSUME Faithful, NEW s \in Session, Gather(s), ~GiveUp(s), req[s].whole, req[s].op # "mixed",
         rows[RootOf(rows, req[s].task)].parent = NoTask,
         AllInTree(rows, RootOf(rows, req[s].task)) = Descendants(rows, RootOf(rows, req[s].task)),
         NEW i \in Descendants(rows, req[s].task)
  PROVE  LET clones == req'[s].clones
         IN  i \in DOMAIN clones /\ clones[i].deps \cap DOMAIN rows \subseteq DOMAIN clones
<1>. DEFINE r == req[s]
            root == RootOf(rows, r.task)
            n == nextId - 1
<1>1. /\ r.task \in DOMAIN rows /\ Allowed(r) /\ DOMAIN req'[s].clones = Nodes(r)
      /\ \A j \in Nodes(r) : req'[s].clones[j].deps = rows[j].deps
  BY Gathered
<1>2. n \in Nat /\ IsFiniteSet(DOMAIN rows) /\ DOMAIN rows \subseteq 1..n /\ Placed(rows, n)
  BY FinitelyMany DEF Faithful, ReuseInv
<1>. HIDE DEF n
<1>3. i \in Nodes(r) BY <1>1, <1>2, NodesInTree
<1>4. i \in TreeOf(rows, r.task) BY <1>1, <1>2, DescendantsInTree
<1>5. rows[i].deps \cap DOMAIN rows \subseteq Nodes(r)
  <2>1. CASE ~Opened(r)
    <3>1. rows[r.task].parent = NoTask BY <2>1 DEF Opened
    <3>2. rows[r.task].parent \notin DOMAIN rows BY <1>2, <3>1, ReuseAssumption
    <3>3. root = r.task BY <1>1, <1>2, <3>2, RootOfRoot
    <3>4. Nodes(r) = TreeOf(rows, r.task) BY <2>1, <3>1, <3>3 DEF Nodes, AllInTree, TreeOf
    <3>. QED BY <1>2, <1>4, <3>4 DEF TreeOf, Placed
  <2>2. CASE Opened(r) /\ ~r.auto
    <3>1. rows[i].deps \subseteq Descendants(rows, r.task)
      BY <1>1, <2>2 DEF Allowed, SelfContained
    <3>2. Descendants(rows, r.task) \subseteq Nodes(r) BY <1>1, <1>2, NodesInTree
    <3>. QED BY <3>1, <3>2
  <2>3. CASE Opened(r) /\ r.auto
    <3>1. Nodes(r) = Augmented(rows, r.task, {}, r.auto, r.dependents) BY <2>3 DEF Nodes
    <3>2. rows[i].deps \cap DOMAIN rows \subseteq Augmented(rows, r.task, {}, TRUE, r.dependents)
      BY <1>1, <1>2, AugmentedIsClosed
    <3>3. Augmented(rows, r.task, {}, r.auto, r.dependents)
            = Augmented(rows, r.task, {}, TRUE, r.dependents)
      BY <2>3 DEF Augmented
    <3>. QED BY <3>1, <3>2, <3>3
  <2>. QED BY <2>1, <2>2, <2>3
<1>. QED BY <1>1, <1>3, <1>5

\* Clones become a tree of their own beside the others.
LEMMA SaveFaithful == ASSUME Faithful, NEW s \in Session, Save(s) PROVE StaysFaithful
<1>. DEFINE C == req[s].clones
            n == nextId - 1
            c == Cardinality(DOMAIN C)
            new == Promoted(C, nextId)
            marked == [i \in DOMAIN rows |-> IF i \in Unreferenced(new)
                                             THEN [rows[i] EXCEPT !.referenced = TRUE] ELSE rows[i]]
<1>1. /\ req[s].at = "save" /\ rows' = Over(new, marked) /\ req' = [req EXCEPT ![s] = Idle]
      /\ nextId' = nextId + Cardinality(DOMAIN new) /\ UNCHANGED <<runs, lock, calls>>
      /\ nextId + c - 1 <= MaxId
  BY DEF Save
<1>2. ClonesAreSound(s) /\ Copied(C, rows, n)
  BY <1>1 DEF Faithful, ReuseInv, Remembers, Copies
<1>3. /\ DOMAIN new = nextId..(nextId + c - 1)
      /\ nextId + Cardinality(DOMAIN new) - 1 = nextId + c - 1
  <2>1. /\ ReuseInv /\ C = [i \in DOMAIN C |-> C[i]] /\ IsFiniteSet(DOMAIN C)
        /\ \A i \in DOMAIN C : /\ Sound(C[i]) /\ C[i].origin # "archive"
                               /\ C[i].run \in DOMAIN runs \cup {NoTask}
    BY <1>2 DEF Faithful, ClonesAreSound
  <2>. HIDE DEF C
  <2>. QED BY <2>1, PromotedSound
<1>4. /\ nextId \in Nat /\ n \in Nat /\ n + 1 = nextId /\ c \in Nat /\ IsFiniteSet(DOMAIN C)
      /\ IsFiniteSet(DOMAIN rows) /\ DOMAIN rows \subseteq 1..n /\ Placed(rows, n)
      /\ NoTask \notin Nat
  <2>1. IsFiniteSet(DOMAIN C) BY <1>2 DEF ClonesAreSound
  <2>2. c \in Nat BY <2>1, FS_CardinalityType
  <2>3. nextId \in Nat \ {0} /\ DOMAIN rows \subseteq 1..n /\ Placed(rows, n)
    BY DEF Faithful, ReuseInv
  <2>4. n \in Nat /\ n + 1 = nextId BY <2>3
  <2>5. IsFiniteSet(DOMAIN rows) BY FinitelyMany DEF Faithful
  <2>. HIDE DEF n, c
  <2>. QED BY <2>1, <2>2, <2>3, <2>4, <2>5, ReuseAssumption
<1>5. Cardinality(DOMAIN new) = c
  <2>1. nextId \in Int /\ nextId + c - 1 \in Int BY <1>4
  <2>. HIDE DEF c, new
  <2>2. Cardinality(nextId..(nextId + c - 1)) = c BY <1>4, <2>1, FS_Interval
  <2>. QED BY <1>3, <2>2
<1>6. \A i \in DOMAIN C : Sound(C[i]) BY <1>2 DEF ClonesAreSound
<1>. HIDE DEF new, C
<1>7. ASSUME NEW i \in DOMAIN rows
      PROVE  /\ marked[i].origin = rows[i].origin /\ marked[i].status = rows[i].status
             /\ marked[i].parent = rows[i].parent /\ marked[i].deps = rows[i].deps
             /\ marked[i].tree = rows[i].tree /\ marked[i].original = rows[i].original
  <2>1. Sound(rows[i]) BY DEF Faithful, ReuseInv
  <2>2. rows[i] = [d \in Columns |-> rows[i][d]] BY <2>1, SoundRow
  <2>. QED BY <2>2 DEF Columns
<1>8. DOMAIN marked = DOMAIN rows OBVIOUS
<1>. HIDE DEF marked
<1>9. \A i \in DOMAIN rows : i \notin DOMAIN new
  <2>. HIDE DEF n, c
  <2>. QED BY <1>3, <1>4
<1>10. Joined(rows', rows, new) BY <1>1, <1>7, <1>8, <1>9 DEF Over, Joined
<1>11. Joined(rows', rows, Promoted(C, n + 1)) BY <1>4, <1>10 DEF new
<1>. DEFINE m == n + c
<1>12. m \in Nat /\ n <= m /\ nextId' - 1 = m /\ nextId' \in 1..MaxId + 1
  BY <1>1, <1>4, <1>5, ReuseAssumption
<1>13. Placed(rows', m)
  <2>. HIDE DEF n
  <2>. QED BY <1>2, <1>4, <1>6, <1>11, SavedPlaced
<1>14. \A D : Copied(D, rows, n) => Copied(D, rows', m)
  <2>1. DOMAIN rows' \cap (1..n) \subseteq DOMAIN rows
    <3>. HIDE DEF c
    <3>. QED BY <1>3, <1>4, <1>10 DEF Joined
  <2>2. \A i \in DOMAIN rows' \cap DOMAIN rows :
           /\ rows'[i].origin \in {rows[i].origin, "archive"} /\ rows'[i].tree = rows[i].tree
           /\ rows'[i].parent = rows[i].parent /\ rows'[i].deps = rows[i].deps
    BY <1>10 DEF Joined
  <2>. HIDE DEF n, m
  <2>. QED BY <1>4, <1>12, <2>1, <2>2, StaysCopied
<1>. HIDE DEF n, m, c
<1>15. req = [o \in Session |-> req[o]] BY DEF Faithful, ReuseInv
<1>16. (\A o \in Session \ {s} : req'[o] = req[o]) /\ req'[s].at = "idle"
  BY <1>1, <1>15 DEF Idle
<1>17. Copies'
  <2>1. \A o \in Session : req[o].at = "save" => Copied(req[o].clones, rows, n)
    BY DEF Faithful, Copies, n
  <2>2. ASSUME NEW o \in Session, req'[o].at = "save" PROVE Copied(req'[o].clones, rows', m)
    <3>1. o # s /\ req'[o] = req[o] BY <1>16, <2>2
    <3>. QED BY <1>14, <2>1, <2>2, <3>1
  <2>. QED BY <1>12, <2>2 DEF Copies
<1>18. Control' BY <1>1, <1>12, <1>16, SessionMoves DEF Faithful, Control, Places
<1>. QED BY <1>12, <1>13, <1>17, <1>18 DEF StaysFaithful

-----------------------------------------------------------------------------
(* The steps that write rows in place. *)

LEMMA RowsLeftFaithful ==
  ASSUME Faithful, UNCHANGED <<nextId, req, lock>>, calls' \in 0..Calls,
         DOMAIN runs' \subseteq 1..MaxId, Left(rows', rows)
  PROVE  StaysFaithful
<1>1. Control' BY DEF Faithful, Control, LocksAreReleased, Unlocked
<1>2. Copies' /\ Placed(rows, nextId - 1)' BY RowsLeft DEF Faithful
<1>. QED BY <1>1, <1>2 DEF StaysFaithful

LEMMA CalledOnce == ASSUME Faithful, Called PROVE calls' \in 0..Calls
  BY ReuseAssumption DEF Faithful, Control, Called

LEMMA KnownRows ==
  ASSUME Faithful, NEW i \in DOMAIN rows
  PROVE  /\ rows[i] = [c \in Columns |-> rows[i][c]] /\ rows[i].status \in Status
         /\ i \in 1..MaxId
<1>1. Sound(rows[i]) /\ rows[i].status \in Status BY DEF Faithful, ReuseInv, Placed
<1>2. nextId - 1 \in Nat /\ nextId - 1 <= MaxId /\ MaxId \in Nat /\ i \in 1..(nextId - 1)
  BY ReuseAssumption DEF Faithful, Control, ReuseInv
<1>. QED BY <1>1, <1>2, SoundRow

LEMMA UpdateFaithful ==
  ASSUME Faithful, NEW t \in DOMAIN rows, NEW change \in Change, Update(t, change)
  PROVE  StaysFaithful
<1>. DEFINE new == CASE change = "edit" -> [rows[t] EXCEPT !.content = "edited"]
                     [] change = "complete" -> [rows[t] EXCEPT !.status = "completed", !.result = t]
                     [] change = "reopen" -> [rows[t] EXCEPT !.status = "pending"]
<1>1. rows' = [rows EXCEPT ![t] = new] /\ UNCHANGED <<runs, nextId, req, lock>> /\ Called
  BY DEF Update
<1>2. rows[t] = [c \in Columns |-> rows[t][c]] /\ rows[t].status \in Status BY KnownRows
<1>3. /\ new.origin \in {rows[t].origin, "archive"} /\ new.status \in Status
      /\ new.parent = rows[t].parent /\ new.deps = rows[t].deps
      /\ new.tree = rows[t].tree /\ new.original = rows[t].original
  <2>1. CASE change = "edit"
    <3>1. new = [rows[t] EXCEPT !.content = "edited"] BY <2>1
    <3>. HIDE DEF new
    <3>. QED BY <1>2, <3>1 DEF Columns
  <2>2. CASE change = "complete"
    <3>1. new = [rows[t] EXCEPT !.status = "completed", !.result = t] BY <2>2
    <3>. HIDE DEF new
    <3>. QED BY <1>2, <3>1 DEF Columns, Status
  <2>3. CASE change = "reopen"
    <3>1. new = [rows[t] EXCEPT !.status = "pending"] BY <2>3
    <3>. HIDE DEF new
    <3>. QED BY <1>2, <3>1 DEF Columns, Status
  <2>. QED BY <2>1, <2>2, <2>3 DEF Change
<1>. HIDE DEF new
<1>4. /\ rows = [i \in DOMAIN rows |-> rows[i]] /\ \A i \in DOMAIN rows : rows[i].status \in Status
  BY DEF Faithful, ReuseInv, Placed
<1>5. Left(rows', rows) BY <1>1, <1>3, <1>4 DEF Left
<1>6. DOMAIN runs' \subseteq 1..MaxId /\ calls' \in 0..Calls
  BY <1>1, CalledOnce DEF Faithful, Control
<1>. QED BY <1>1, <1>5, <1>6, RowsLeftFaithful

LEMMA TaskDeleteFaithful ==
  ASSUME Faithful, NEW t \in DOMAIN rows, TaskDelete(t) PROVE StaysFaithful
<1>1. /\ rows' = [i \in DOMAIN rows \ {t} |-> rows[i]] /\ Called
      /\ UNCHANGED <<runs, nextId, req, lock>>
  BY DEF TaskDelete, Delete
<1>2. Left(rows', rows) BY <1>1 DEF Left, Faithful, Placed
<1>3. DOMAIN runs' \subseteq 1..MaxId /\ calls' \in 0..Calls
  BY <1>1, CalledOnce DEF Faithful, Control
<1>. QED BY <1>1, <1>2, <1>3, RowsLeftFaithful

LEMMA AcceptFaithful ==
  ASSUME Faithful, NEW r \in DOMAIN rows, Accept(r) PROVE StaysFaithful
<1>. DEFINE all == AllInTree(rows, r)
<1>1. /\ rows' = [i \in DOMAIN rows |-> IF i \in all /\ rows[i].run = NoTask
                                        THEN [rows[i] EXCEPT !.run = r] ELSE rows[i]]
      /\ runs' = [i \in DOMAIN runs \cup {r} |->
                    IF i = r THEN [status |-> "accepted", nodes |-> all] ELSE runs[i]]
      /\ UNCHANGED <<nextId, req, lock>> /\ Called
  BY DEF Accept
<1>. HIDE DEF all
<1>2. ASSUME NEW i \in DOMAIN rows
      PROVE  /\ rows'[i].origin \in {rows[i].origin, "archive"} /\ rows'[i].status \in Status
             /\ rows'[i].parent = rows[i].parent /\ rows'[i].deps = rows[i].deps
             /\ rows'[i].tree = rows[i].tree /\ rows'[i].original = rows[i].original
  <2>1. rows[i] = [c \in Columns |-> rows[i][c]] /\ rows[i].status \in Status BY KnownRows
  <2>. QED BY <1>1, <2>1 DEF Columns
<1>3. DOMAIN rows' = DOMAIN rows BY <1>1
<1>4. Left(rows', rows) BY <1>2, <1>3 DEF Left
<1>5. r \in 1..MaxId BY KnownRows
<1>6. DOMAIN runs' \subseteq 1..MaxId /\ calls' \in 0..Calls
  BY <1>1, <1>5, CalledOnce DEF Faithful, Control
<1>. QED BY <1>1, <1>4, <1>6, RowsLeftFaithful

LEMMA SettleFaithful ==
  ASSUME Faithful, NEW r \in DOMAIN runs, NEW outcome, Settle(r, outcome) PROVE StaysFaithful
<1>. DEFINE open == {i \in runs[r].nodes : rows[i].run = r /\ rows[i].status = "pending"
                                             /\ rows[i].origin # "link"}
<1>1. /\ rows' = [i \in DOMAIN rows |->
                    IF i \notin open THEN rows[i]
                    ELSE IF outcome = "completed"
                         THEN [rows[i] EXCEPT !.status = "completed", !.result = i]
                         ELSE [rows[i] EXCEPT !.status = "failed"]]
      /\ UNCHANGED <<nextId, req, lock, calls>>
  BY DEF Settle
<1>2. DOMAIN runs' = DOMAIN runs BY DEF Settle
<1>. HIDE DEF open
<1>3. ASSUME NEW i \in DOMAIN rows
      PROVE  /\ rows'[i].origin \in {rows[i].origin, "archive"} /\ rows'[i].status \in Status
             /\ rows'[i].parent = rows[i].parent /\ rows'[i].deps = rows[i].deps
             /\ rows'[i].tree = rows[i].tree /\ rows'[i].original = rows[i].original
  <2>1. rows[i] = [c \in Columns |-> rows[i][c]] /\ rows[i].status \in Status BY KnownRows
  <2>. QED BY <1>1, <2>1 DEF Columns, Status
<1>4. DOMAIN rows' = DOMAIN rows BY <1>1
<1>5. Left(rows', rows) BY <1>3, <1>4 DEF Left
<1>6. DOMAIN runs' \subseteq 1..MaxId /\ calls' \in 0..Calls BY <1>1, <1>2 DEF Faithful, Control
<1>. QED BY <1>1, <1>5, <1>6, RowsLeftFaithful

\* An archive takes its links' data, and leaves every row in its place.
LEMMA FreezeFaithful == ASSUME Faithful, NEW s \in Session, Freeze(s) PROVE StaysFaithful
<1>1. CASE GiveUp(s) BY <1>1, GiveUpFaithful
<1>2. CASE ~GiveUp(s)
  <2>. DEFINE nodes == req[s].nodes
              new(i) == [Materialized(i) EXCEPT !.origin = "archive"]
  <2>1. /\ rows' = [i \in DOMAIN rows |-> IF i \in nodes THEN new(i) ELSE rows[i]]
        /\ req' = [req EXCEPT ![s] = Idle] /\ lock' = [lock EXCEPT ![s] = NoTask]
        /\ UNCHANGED <<runs, nextId, calls>>
        /\ \A i \in nodes : Resolves(rows, rows[i])
    BY <1>2 DEF Freeze
  <2>. HIDE DEF nodes
  <2>2. ASSUME NEW i \in DOMAIN rows, i \in nodes
        PROVE  /\ new(i).origin = "archive" /\ new(i).status \in Status
               /\ new(i).parent = rows[i].parent /\ new(i).deps = rows[i].deps
               /\ new(i).tree = rows[i].tree /\ new(i).original = rows[i].original
    <3>. DEFINE m == Materialized(i)
                e == Effective(rows, rows[i])
    <3>1. rows[i] = [c \in Columns |-> rows[i][c]] /\ rows[i].status \in Status BY KnownRows
    <3>2. e.status \in Status
      <4>1. e = rows[i] \/ \E j \in DOMAIN rows : e = rows[j]
        BY <2>1, <2>2, FinitelyMany, EffectiveRow DEF Faithful
      <4>. QED BY <4>1, KnownRows
    <3>3. /\ m = [c \in Columns |-> m[c]] /\ m.status \in Status
          /\ m.parent = rows[i].parent /\ m.deps = rows[i].deps
          /\ m.tree = rows[i].tree /\ m.original = rows[i].original
      <4>1. CASE rows[i].origin # "link"
        <5>1. m = rows[i] BY <4>1 DEF Materialized
        <5>. HIDE DEF m
        <5>. QED BY <3>1, <5>1
      <4>2. CASE rows[i].origin = "link"
        <5>1. m = [rows[i] EXCEPT !.status = e.status, !.content = e.content,
                                  !.result = e.result, !.run = e.run, !.source = e.source,
                                  !.frozen = e.frozen]
          BY <4>2 DEF Materialized
        <5>. HIDE DEF m, e
        <5>. QED BY <3>1, <3>2, <5>1 DEF Columns
      <4>. QED BY <4>1, <4>2
    <3>. HIDE DEF m
    <3>4. new(i) = [m EXCEPT !.origin = "archive"] BY DEF m
    <3>. HIDE DEF new
    <3>. QED BY <3>3, <3>4 DEF Columns
  <2>. HIDE DEF new
  <2>3. Left(rows', rows)
    <3>1. DOMAIN rows' = DOMAIN rows BY <2>1
    <3>2. \A i \in DOMAIN rows : rows'[i] = IF i \in nodes THEN new(i) ELSE rows[i] BY <2>1
    <3>. QED BY <2>2, <3>1, <3>2, KnownRows DEF Left
  <2>4. req = [o \in Session |-> req[o]] BY DEF Faithful, ReuseInv
  <2>5. (\A o \in Session \ {s} : req'[o] = req[o]) /\ req'[s].at = "idle"
    BY <2>1, <2>4 DEF Idle
  <2>6. Control' BY <2>1, <2>5, SessionMoves DEF Faithful, Control, Places
  <2>7. Copies' /\ Placed(rows, nextId - 1)' BY <2>1, <2>3, RowsLeft DEF Faithful
  <2>. QED BY <2>6, <2>7 DEF StaysFaithful
<1>. QED BY <1>1, <1>2

LEMMA InitFaithful == Init => Faithful
<1>. SUFFICES ASSUME Init PROVE Faithful OBVIOUS
<1>1. ReuseInv BY InitReuse
<1>2. PICK n \in 0..MaxId : rows = [i \in 1..n |-> rows[i]] /\ Placed(rows, n)
  BY LibraryAssumption DEF Init
<1>3. DOMAIN rows = 1..n /\ n \in Nat /\ n <= MaxId /\ MaxId \in Nat BY <1>2, ReuseAssumption
<1>4. nextId = n + 1
  <2>1. Cardinality(1..n) = n BY <1>3, FS_Interval
  <2>. QED BY <1>3, <2>1 DEF Init
<1>5. nextId - 1 = n /\ nextId \in 1..MaxId + 1 BY <1>3, <1>4
<1>6. DOMAIN runs \subseteq 1..MaxId
  <2>1. DOMAIN runs = {rows[i].run : i \in DOMAIN rows} \ {NoTask} BY DEF Init
  <2>2. \A i \in DOMAIN rows : rows[i].run # NoTask => rows[i].run \in DOMAIN rows
    BY LibraryAssumption DEF Init
  <2>. QED BY <1>3, <2>1, <2>2
<1>7. calls \in 0..Calls /\ lock = [s \in Session |-> lock[s]] BY ReuseAssumption DEF Init
<1>8. \A s \in Session : req[s].at = "idle" /\ lock[s] = NoTask BY DEF Init, Idle
<1>9. Control BY <1>5, <1>6, <1>7, <1>8 DEF Control, Places, LocksAreReleased
<1>10. Copies BY <1>8 DEF Copies
<1>. QED BY <1>1, <1>2, <1>5, <1>9, <1>10 DEF Faithful

LEMMA FaithfulStep == Faithful /\ [Next]_vars => StaysFaithful
<1>. SUFFICES ASSUME Faithful, [Next]_vars PROVE StaysFaithful OBVIOUS
<1>1. ASSUME NEW s \in Session, Step(s) PROVE StaysFaithful
  <2>1. CASE SaveFails(s) BY <2>1, GiveUpFaithful DEF SaveFails
  <2>. QED BY <1>1, <2>1, CheckFaithful, GatherFaithful, SaveFaithful, AuthorizeFaithful,
              LockRootFaithful, ReadFaithful, FreezeFaithful DEF Step
<1>2. ASSUME NEW s \in Session, Asked(s) PROVE StaysFaithful
  <2>1. PICK r \in Request : TaskLink(s, r) \/ TaskCopy(s, r) \/ TaskCloneMixed(s, r)
                             \/ TaskArchive(s, r)
    BY <1>2 DEF Asked
  <2>2. \E at \in {"check", "gather", "authorize", "read"} : Ask(s, r, at)
    BY <2>1 DEF TaskLink, TaskCopy, TaskCloneMixed, TaskArchive
  <2>. QED BY <2>2, AskFaithful
<1>3. ASSUME NEW t \in DOMAIN rows, NEW c \in Change, Update(t, c) PROVE StaysFaithful
  BY <1>3, UpdateFaithful
<1>4. ASSUME NEW t \in DOMAIN rows, TaskDelete(t) \/ Accept(t) PROVE StaysFaithful
  BY <1>4, TaskDeleteFaithful, AcceptFaithful
<1>5. ASSUME NEW r \in DOMAIN runs, NEW o \in {"completed", "failed"}, Settle(r, o)
      PROVE  StaysFaithful
  BY <1>5, SettleFaithful
<1>6. CASE UNCHANGED vars
  <2>1. UNCHANGED <<rows, runs, nextId, req, lock, calls>> BY <1>6 DEF vars
  <2>2. StaysFaithful
    BY <2>1 DEF StaysFaithful, Faithful, Control, Copies, LocksAreReleased, Unlocked
  <2>. QED BY <2>2
<1>. QED BY <1>1, <1>2, <1>3, <1>4, <1>5, <1>6 DEF Next

\* Clones are shaped like originals whose trees are all there.
LEMMA FollowsOriginal == FaithfulInv => CloneFollowsOriginal
<1>. SUFFICES ASSUME FaithfulInv, NEW i \in DOMAIN rows, ClonesOneTree(i)
              PROVE  LET o == rows[i].original
                     IN  /\ rows[i].deps \cap Mates(i)
                              = {j \in Mates(i) : rows[j].original \in rows[o].deps}
                         /\ rows[i].parent \in Mates(i) =>
                              rows[rows[i].parent].original = rows[o].parent
  BY DEF CloneFollowsOriginal
<1>. DEFINE n == nextId - 1
            trees == {rows[rows[j].original].tree : j \in Mates(i)}
<1>1. Placed(rows, n) /\ n \in Nat BY DEF FaithfulInv, ReuseInv
<1>2. /\ \A j \in Mates(i) : rows[j].original \in DOMAIN rows
      /\ Cardinality(trees) = 1
  BY DEF ClonesOneTree
<1>3. IsFiniteSet(trees)
  <2>1. \A j \in DOMAIN rows : rows[j].tree \in 1..n
    <3>. HIDE DEF n
    <3>. QED BY <1>1 DEF Placed
  <2>. HIDE DEF n
  <2>2. trees \in SUBSET (1..n) BY <1>2, <2>1
  <2>3. IsFiniteSet(1..n) BY <1>1, FS_Interval
  <2>. HIDE DEF trees
  <2>. QED BY <2>2, <2>3, FS_Subset
<1>. HIDE DEF n
<1>4. PICK x : trees = {x}
  <2>. HIDE DEF trees
  <2>. QED BY <1>2, <1>3, FS_Singleton
<1>5. \A j \in Mates(i) : rows[rows[j].original].tree = x BY <1>4
<1>6. i \in Mates(i) BY DEF Mates
<1>7. ASSUME NEW j \in Mates(i)
      PROVE  /\ j \in rows[i].deps <=> rows[j].original \in rows[rows[i].original].deps
             /\ rows[i].parent = j => rows[rows[i].original].parent = rows[j].original
  <2>1. Alike(rows, rows, i, j) BY <1>1 DEF Placed, Mates
  <2>. QED BY <1>2, <1>5, <1>6, <2>1 DEF Alike
<1>. QED BY <1>7

LEMMA FaithfulIsPromised == FaithfulInv => ClonesAreFaithful
<1>1. FaithfulInv => TreesAreApart BY DEF FaithfulInv, Placed, TreesAreApart
<1>2. FaithfulInv => OriginalsAreNoLinks BY DEF FaithfulInv, Placed, OriginalsAreNoLinks
<1>3. FaithfulInv => TypeOK /\ LocksAreReleased BY DEF FaithfulInv
<1>. QED BY <1>1, <1>2, <1>3, FollowsOriginal DEF ClonesAreFaithful

\* Only a session that gathers has clones to save afterwards.
LEMMA WholeSubtreesCloned == Faithful /\ [Next]_vars => [WholeSubtreesAreCloned]_vars
<1>. SUFFICES ASSUME Faithful, Next PROVE WholeSubtreesAreCloned BY DEF vars
<1>. SUFFICES ASSUME NEW s \in Session, req[s].at = "gather", req'[s].at = "save",
                     req[s].whole, req[s].op # "mixed",
                     rows[RootOf(rows, req[s].task)].parent = NoTask,
                     AllInTree(rows, RootOf(rows, req[s].task))
                       = Descendants(rows, RootOf(rows, req[s].task)),
                     NEW i \in Descendants(rows, req[s].task)
              PROVE  LET clones == req'[s].clones
                     IN  i \in DOMAIN clones
                         /\ clones[i].deps \cap DOMAIN rows \subseteq DOMAIN clones
  BY DEF WholeSubtreesAreCloned
<1>1. req = [o \in Session |-> req[o]] BY DEF Faithful, ReuseInv
<1>2. req'[s] # req[s] OBVIOUS
<1>3. \A o \in Session : GiveUp(o) => o # s
  BY <1>1 DEF GiveUp, Idle
<1>4. Gather(s)
  <2>1. ASSUME NEW o \in Session, Step(o), o # s PROVE FALSE
    BY <1>1, <1>2, <2>1 DEF Step, Check, Gather, Save, SaveFails, Authorize, LockRoot, Read, Freeze,
                            GiveUp
  <2>2. ASSUME Step(s) PROVE Gather(s)
    BY <2>2 DEF Step, Check, Save, SaveFails, Authorize, LockRoot, Read, Freeze
  <2>3. ASSUME NEW o \in Session, Asked(o) PROVE FALSE
    <3>1. PICK r, at : Ask(o, r, at)
      BY <2>3 DEF Asked, TaskLink, TaskCopy, TaskCloneMixed, TaskArchive
    <3>2. req[o] = Idle /\ req' = [req EXCEPT ![o] = Over([at |-> at, clones |-> << >>,
                                                           seen |-> {}, nodes |-> {}], r)]
      BY <3>1 DEF Ask
    <3>3. o # s BY <3>2 DEF Idle
    <3>. QED BY <1>1, <1>2, <3>2, <3>3
  <2>. QED BY <1>2, <2>1, <2>2, <2>3
       DEF Next, Update, TaskDelete, Delete, Accept, Settle
<1>. QED BY <1>3, <1>4, GatherWhole

-----------------------------------------------------------------------------
(* The theorems. *)

LEMMA ReuseStep == ReuseInv /\ [Next]_vars => Kept
<1>. SUFFICES ASSUME ReuseInv, [Next]_vars PROVE Kept OBVIOUS
<1>1. ASSUME NEW s \in Session, Step(s) PROVE Kept
  <2>1. CASE SaveFails(s) BY <2>1, GiveUpKept DEF SaveFails
  <2>. QED BY <1>1, <2>1, CheckKept, GatherKept, SaveKept, AuthorizeKept, LockRootKept, ReadKept,
              FreezeKept DEF Step
<1>2. ASSUME NEW s \in Session, Asked(s) PROVE Kept
  <2>1. PICK r \in Request : TaskLink(s, r) \/ TaskCopy(s, r) \/ TaskCloneMixed(s, r)
                             \/ TaskArchive(s, r)
    BY <1>2 DEF Asked
  <2>2. CASE TaskLink(s, r) BY <2>2, AskKept DEF TaskLink
  <2>3. CASE TaskCopy(s, r) BY <2>3, AskKept DEF TaskCopy
  <2>4. CASE TaskCloneMixed(s, r) BY <2>4, AskKept DEF TaskCloneMixed
  <2>5. CASE TaskArchive(s, r) BY <2>5, AskKept DEF TaskArchive
  <2>. QED BY <2>1, <2>2, <2>3, <2>4, <2>5
<1>3. ASSUME NEW t \in DOMAIN rows, NEW c \in Change, Update(t, c) PROVE Kept BY <1>3, UpdateKept
<1>4. ASSUME NEW t \in DOMAIN rows, TaskDelete(t) \/ Accept(t) PROVE Kept
  BY <1>4, TaskDeleteKept, AcceptKept
<1>5. ASSUME NEW r \in DOMAIN runs, NEW o \in {"completed", "failed"}, Settle(r, o) PROVE Kept
  BY <1>5, SettleKept
<1>6. CASE UNCHANGED vars
  <2>1. /\ UNCHANGED <<rows, runs, nextId, req>> BY <1>6 DEF vars
  <2>2. req' = [s \in Session |-> req'[s]] /\ \A s \in Session : Remembers(s)'
    BY <2>1, MemoryKept
  <2>. QED BY <2>1, <2>2, RowsUntouched
<1>. QED BY <1>1, <1>2, <1>3, <1>4, <1>5, <1>6 DEF Next

\* Every row that ever exists is sound, no identifier is used twice, and the nodes of
\* a run belong to one, whatever is cloned, archived, deleted and executed meanwhile.
THEOREM SoundRows == Spec => []ReuseInv
<1>. QED BY InitReuse, ReuseStep, PTL DEF Spec, Kept

\* An archive stands on its own, whatever became of the sources of its links
\* (task_repository.py, archive_tasks and _materialize_archive_links).
THEOREM WholeArchives == Spec => []ArchiveIsWhole
<1>1. ReuseInv => ArchiveIsWhole BY DEF ReuseInv, ArchiveIsWhole, Sound, Whole
<1>. QED BY <1>1, SoundRows, PTL

\* The rows stay sound and placed, and waiting clones stay shaped like what is left of
\* their originals, whatever is asked meanwhile (task_creator.py, task_repository.py).
LEMMA RowsStayFaithful == Spec => []Faithful
<1>1. Faithful /\ [Next]_vars => Faithful'
  BY ReuseStep, FaithfulStep DEF Faithful, StaysFaithful, Kept
<1>. QED BY <1>1, InitFaithful, PTL DEF Spec

\* Whatever sessions instantiate, archive, update and delete at once: a saved clone is
\* shaped like its originals, trees stay apart, links lead to tasks that were executed,
\* and no lock is left behind (task_creator.py, from_link, from_copy, from_mixed;
\* task_repository.py, archive_tasks).
THEOREM FaithfulClones == Spec => []ClonesAreFaithful
<1>1. Faithful => ClonesAreFaithful BY FaithfulParts, FaithfulIsPromised DEF Faithful
<1>. QED BY <1>1, RowsStayFaithful, PTL

\* Nothing that is asked later changes a frozen row, what hangs below it, or what an
\* accepted run is about (task_repository.py, update_task, delete_task, archive_tasks),
\* and a subtree is read together with what it depends on (task_creator.py, from_copy).
THEOREM SoundReuseSteps == Spec => ReuseStepsAreSound
<1>1. ReuseInv /\ [Next]_vars => [FrozenIsKept]_vars /\ [DefinitionsAreKept]_vars
  BY ReuseStep DEF Kept
<1>2. Faithful /\ [Next]_vars => [WholeSubtreesAreCloned]_vars BY WholeSubtreesCloned
<1>. QED BY <1>1, <1>2, SoundRows, RowsStayFaithful, PTL
     DEF Spec, ReuseStepsAreSound, FrozenStays, RunDefinitionsStay, DependenciesComeAlong
=============================================================================
