------------------------ MODULE ExecutorUsage_proofs ------------------------
(* Proofs about the calls of executors: how often they are made, for any finite *)
(* set of calls and any policies (ExecutorCalls), and what they are charged,   *)
(* for any finite set of invocations, and any tasks, limits and amounts        *)
(* (UsageLedger).  What the columns add up to is proved from a theory of sums  *)
(* of its own, the section that follows.                                       *)
EXTENDS UsageLedger, ExecutorCalls, FiniteSetTheorems, WellFoundedInduction, TLAPS

-----------------------------------------------------------------------------
(* Sums.  SumFunctionOnSet removes the members of a set one by one, in an order  *)
(* of its own: what it computes does not depend on it.  Induction over the set  *)
(* that is summed is by a smallest counterexample.                              *)

Pick(s) == CHOOSE x \in s : TRUE

\* g is the table of the sums of f over the subsets of D.
Sums(g, f, D) == g = [s \in SUBSET D |-> IF s = {} THEN 0 ELSE f[Pick(s)] + g[s \ {Pick(s)}]]

\* Among subsets of a finite set there is a smallest one: induction by contradiction.
LEMMA Smallest ==
  ASSUME NEW D, IsFiniteSet(D), NEW T, T \subseteq SUBSET D, T # {}
  PROVE  \E s \in T : \A u \in SUBSET s : u # s => u \notin T
<1>1. IsWellFoundedOn(StrictSubsetOrdering(D), SUBSET D)
  BY FS_StrictSubsetOrderingWellFounded, FS_FiniteSubsetsOfFinite
<1>2. PICK s \in T : \A u \in T : ~(<<u, s>> \in StrictSubsetOrdering(D)) BY <1>1, WFMin
<1>3. ASSUME NEW u \in SUBSET s, u # s, u \in T PROVE FALSE
  BY <1>2, <1>3 DEF StrictSubsetOrdering
<1>. QED BY <1>3

LEMMA Picked == ASSUME NEW s, s # {} PROVE Pick(s) \in s BY DEF Pick

\* There is exactly one such table, and it contains those of the subsets.
LEMMA SumsUnique ==
  ASSUME NEW D, IsFiniteSet(D), NEW f, NEW E \in SUBSET D, NEW g, NEW h,
         Sums(g, f, D), Sums(h, f, E)
  PROVE  \A s \in SUBSET E : g[s] = h[s]
<1>. DEFINE Bad == {s \in SUBSET E : g[s] # h[s]}
<1>. SUFFICES ASSUME Bad # {} PROVE FALSE OBVIOUS
<1>0. IsFiniteSet(E) BY FS_Subset
<1>1. PICK s \in Bad : \A u \in SUBSET s : u # s => u \notin Bad
  <2>. HIDE DEF Bad
  <2>1. Bad \subseteq SUBSET E BY DEF Bad
  <2>. QED BY <1>0, <2>1, Smallest
<1>2. /\ g[s] = IF s = {} THEN 0 ELSE f[Pick(s)] + g[s \ {Pick(s)}]
      /\ h[s] = IF s = {} THEN 0 ELSE f[Pick(s)] + h[s \ {Pick(s)}]
  <2>1. s \in SUBSET E /\ s \in SUBSET D OBVIOUS
  <2>. QED BY <2>1 DEF Sums
<1>3. s # {} BY <1>2
<1>4. s \ {Pick(s)} \in SUBSET E /\ s \ {Pick(s)} # s BY <1>3, Picked
<1>5. g[s \ {Pick(s)}] = h[s \ {Pick(s)}] BY <1>1, <1>4
<1>. QED BY <1>2, <1>3, <1>5

LEMMA SumsExist ==
  ASSUME NEW D, IsFiniteSet(D), NEW f
  PROVE  \E g : Sums(g, f, D)
<1>. DEFINE Bad == {s \in SUBSET D : ~\E g : Sums(g, f, s)}
<1>. SUFFICES ASSUME Bad # {} PROVE FALSE OBVIOUS
<1>1. PICK s \in Bad : \A u \in SUBSET s : u # s => u \notin Bad
  <2>. HIDE DEF Bad
  <2>1. Bad \subseteq SUBSET D BY DEF Bad
  <2>. QED BY <2>1, Smallest
<1>. DEFINE Of(u) == CHOOSE g : Sums(g, f, u)
            rest(u) == u \ {Pick(u)}
            all == [u \in SUBSET s |->
                      IF u = {} THEN 0 ELSE f[Pick(u)] + Of(rest(u))[rest(u)]]
<1>2. ASSUME NEW u \in SUBSET s, u # s PROVE Sums(Of(u), f, u)
  <2>1. \E g : Sums(g, f, u) BY <1>1, <1>2
  <2>. QED BY <2>1
<1>3. ASSUME NEW u \in SUBSET s, u # {} PROVE rest(u) \in SUBSET u /\ rest(u) # s /\ rest(u) # u
  BY <1>3, Picked
<1>4. ASSUME NEW u \in SUBSET s, u # {} PROVE all[rest(u)] = Of(rest(u))[rest(u)]
  <2>. DEFINE w == rest(u)
  <2>1. w \in SUBSET s /\ w # s BY <1>3, <1>4
  <2>2. Sums(Of(w), f, w) BY <1>2, <2>1
  <2>3. CASE w = {}
    <3>1. all[w] = 0 BY <2>1, <2>3
    <3>2. \A g : Sums(g, f, w) => g[w] = 0 BY <2>3 DEF Sums
    <3>3. Of(w)[w] = 0 BY <2>2, <3>2
    <3>. QED BY <3>1, <3>3
  <2>4. CASE w # {}
    <3>1. rest(w) \in SUBSET w /\ rest(w) # s BY <1>3, <2>1, <2>4
    <3>2. Sums(Of(rest(w)), f, rest(w)) BY <1>2, <2>1, <3>1
    <3>3. IsFiniteSet(w) BY <2>1, FS_Subset
    <3>4. Of(w)[rest(w)] = Of(rest(w))[rest(w)]
      <4>1. \A g, h : Sums(g, f, w) /\ Sums(h, f, rest(w)) => g[rest(w)] = h[rest(w)]
        <5>. HIDE DEF rest, w
        <5>. QED BY <3>1, <3>3, SumsUnique
      <4>. HIDE DEF rest, w, Of
      <4>. QED BY <2>2, <3>2, <4>1
    <3>5. \A g : Sums(g, f, w) => g[w] = f[Pick(w)] + g[rest(w)]
      <4>. SUFFICES ASSUME NEW g, Sums(g, f, w) PROVE g[w] = f[Pick(w)] + g[rest(w)] OBVIOUS
      <4>1. w \in SUBSET w OBVIOUS
      <4>. HIDE DEF w
      <4>. QED BY <2>4, <4>1 DEF Sums
    <3>6. Of(w)[w] = f[Pick(w)] + Of(w)[rest(w)]
      <4>. HIDE DEF rest, w, Of
      <4>. QED BY <2>2, <3>5
    <3>7. all[w] = f[Pick(w)] + Of(rest(w))[rest(w)]
      <4>. HIDE DEF rest, w, Of
      <4>. QED BY <2>1, <2>4
    <3>. QED BY <3>4, <3>6, <3>7
  <2>. QED BY <2>3, <2>4
<1>5. Sums(all, f, s)
  <2>1. ASSUME NEW u \in SUBSET s
        PROVE  all[u] = IF u = {} THEN 0 ELSE f[Pick(u)] + all[u \ {Pick(u)}]
    <3>1. CASE u = {} BY <3>1
    <3>2. CASE u # {}
      <4>1. all[u] = f[Pick(u)] + Of(rest(u))[rest(u)]
        <5>. HIDE DEF Of, rest
        <5>. QED BY <3>2
      <4>2. all[u \ {Pick(u)}] = Of(rest(u))[rest(u)] BY <1>4, <3>2
      <4>. HIDE DEF all, Of, rest
      <4>. QED BY <3>2, <4>1, <4>2
    <3>. QED BY <3>1, <3>2
  <2>2. all = [u \in SUBSET s |-> all[u]] OBVIOUS
  <2>. HIDE DEF all
  <2>3. [u \in SUBSET s |-> all[u]] =
        [u \in SUBSET s |-> IF u = {} THEN 0 ELSE f[Pick(u)] + all[u \ {Pick(u)}]]
    BY <2>1
  <2>. QED BY <2>2, <2>3 DEF Sums
<1>. QED BY <1>1, <1>5

\* What a sum is, one member at a time.
LEMMA SumStep ==
  ASSUME NEW D, IsFiniteSet(D), NEW f
  PROVE  /\ D = {} => SumFunctionOnSet(f, D) = 0
         /\ D # {} => SumFunctionOnSet(f, D) = f[Pick(D)] + SumFunctionOnSet(f, D \ {Pick(D)})
<1>. DEFINE rest == D \ {Pick(D)}
<1>1. \A S : SumFunctionOnSet(f, S) = (CHOOSE g : Sums(g, f, S))[S]
  BY DEF SumFunctionOnSet, FoldFunctionOnSet, MapThenFoldSet, Sums, Pick
<1>2. PICK g : Sums(g, f, D) /\ SumFunctionOnSet(f, D) = g[D] BY <1>1, SumsExist
<1>3. IsFiniteSet(rest) BY FS_Subset
<1>4. PICK h : Sums(h, f, rest) /\ SumFunctionOnSet(f, rest) = h[rest] BY <1>1, <1>3, SumsExist
<1>5. g[rest] = h[rest]
  <2>1. rest \in SUBSET D /\ rest \in SUBSET rest OBVIOUS
  <2>. HIDE DEF rest
  <2>. QED BY <1>2, <1>4, <2>1, SumsUnique
<1>6. g[D] = IF D = {} THEN 0 ELSE f[Pick(D)] + g[rest] BY <1>2 DEF Sums
<1>. QED BY <1>2, <1>4, <1>5, <1>6

\* A sum of integers is one.
LEMMA SumInt ==
  ASSUME NEW D, IsFiniteSet(D), NEW f, \A x \in D : f[x] \in Int
  PROVE  SumFunctionOnSet(f, D) \in Int
<1>. DEFINE Bad == {s \in SUBSET D : SumFunctionOnSet(f, s) \notin Int}
<1>. SUFFICES ASSUME Bad # {} PROVE FALSE OBVIOUS
<1>1. PICK s \in Bad : \A u \in SUBSET s : u # s => u \notin Bad
  <2>. HIDE DEF Bad
  <2>1. Bad \subseteq SUBSET D BY DEF Bad
  <2>. QED BY <2>1, Smallest
<1>2. IsFiniteSet(s) /\ s \in SUBSET D BY FS_Subset
<1>3. s # {} BY <1>2, SumStep
<1>4. Pick(s) \in s BY <1>3, Picked
<1>5. SumFunctionOnSet(f, s \ {Pick(s)}) \in Int BY <1>1, <1>2, <1>4
<1>6. SumFunctionOnSet(f, s) = f[Pick(s)] + SumFunctionOnSet(f, s \ {Pick(s)})
  BY <1>2, <1>3, SumStep
<1>. QED BY <1>2, <1>4, <1>5, <1>6

\* Any member may be taken out first.
LEMMA SumTake ==
  ASSUME NEW D, IsFiniteSet(D), NEW f, \A x \in D : f[x] \in Int, NEW x \in D
  PROVE  SumFunctionOnSet(f, D) = f[x] + SumFunctionOnSet(f, D \ {x})
<1>. DEFINE Bad == {s \in SUBSET D :
               \E y \in s : SumFunctionOnSet(f, s) # f[y] + SumFunctionOnSet(f, s \ {y})}
<1>. SUFFICES ASSUME Bad # {} PROVE FALSE OBVIOUS
<1>1. PICK s \in Bad : \A u \in SUBSET s : u # s => u \notin Bad
  <2>. HIDE DEF Bad
  <2>1. Bad \subseteq SUBSET D BY DEF Bad
  <2>. QED BY <2>1, Smallest
<1>2. PICK y \in s : SumFunctionOnSet(f, s) # f[y] + SumFunctionOnSet(f, s \ {y}) OBVIOUS
<1>. DEFINE p == Pick(s)
<1>3. IsFiniteSet(s) /\ s \in SUBSET D /\ s # {} BY FS_Subset
<1>4. p \in s BY <1>3, Picked
<1>5. SumFunctionOnSet(f, s) = f[p] + SumFunctionOnSet(f, s \ {p}) BY <1>3, SumStep
<1>6. p # y BY <1>2, <1>5
<1>. HIDE DEF p
<1>7. SumFunctionOnSet(f, s \ {p}) = f[y] + SumFunctionOnSet(f, (s \ {p}) \ {y})
  <2>1. s \ {p} \in SUBSET s /\ s \ {p} # s /\ y \in s \ {p} /\ s \ {p} \in SUBSET D
    BY <1>3, <1>4, <1>6
  <2>. QED BY <1>1, <2>1
<1>8. SumFunctionOnSet(f, s \ {y}) = f[p] + SumFunctionOnSet(f, (s \ {y}) \ {p})
  <2>1. s \ {y} \in SUBSET s /\ s \ {y} # s /\ p \in s \ {y} /\ s \ {y} \in SUBSET D
    BY <1>3, <1>4, <1>6
  <2>. QED BY <1>1, <2>1
<1>9. (s \ {p}) \ {y} = (s \ {y}) \ {p} OBVIOUS
<1>10. SumFunctionOnSet(f, (s \ {p}) \ {y}) \in Int
  <2>1. IsFiniteSet((s \ {p}) \ {y}) BY <1>3, FS_Subset
  <2>. QED BY <1>3, <2>1, SumInt
<1>11. f[p] \in Int /\ f[y] \in Int BY <1>3, <1>4
<1>12. \A a, b, c \in Int : a + (b + c) = b + (a + c) OBVIOUS
<1>. DEFINE both == SumFunctionOnSet(f, (s \ {p}) \ {y})
<1>13. SumFunctionOnSet(f, s) = f[p] + (f[y] + both) BY <1>5, <1>7
<1>14. SumFunctionOnSet(f, s \ {y}) = f[p] + both BY <1>8, <1>9
<1>15. f[p] + (f[y] + both) = f[y] + (f[p] + both) BY <1>10, <1>11, <1>12
<1>16. SumFunctionOnSet(f, s) = f[y] + SumFunctionOnSet(f, s \ {y}) BY <1>13, <1>14, <1>15
<1>. HIDE DEF both, Bad
<1>. QED BY <1>2, <1>16

\* A sum depends only on what is summed.
LEMMA SumAgree ==
  ASSUME NEW D, IsFiniteSet(D), NEW f, NEW h, \A x \in D : f[x] = h[x]
  PROVE  SumFunctionOnSet(f, D) = SumFunctionOnSet(h, D)
<1>. DEFINE Bad == {s \in SUBSET D : SumFunctionOnSet(f, s) # SumFunctionOnSet(h, s)}
<1>. SUFFICES ASSUME Bad # {} PROVE FALSE OBVIOUS
<1>1. PICK s \in Bad : \A u \in SUBSET s : u # s => u \notin Bad
  <2>. HIDE DEF Bad
  <2>1. Bad \subseteq SUBSET D BY DEF Bad
  <2>. QED BY <2>1, Smallest
<1>2. IsFiniteSet(s) /\ s \in SUBSET D BY FS_Subset
<1>3. s # {} BY <1>2, SumStep
<1>4. Pick(s) \in s BY <1>3, Picked
<1>5. SumFunctionOnSet(f, s \ {Pick(s)}) = SumFunctionOnSet(h, s \ {Pick(s)})
  BY <1>1, <1>2, <1>4
<1>6. /\ SumFunctionOnSet(f, s) = f[Pick(s)] + SumFunctionOnSet(f, s \ {Pick(s)})
      /\ SumFunctionOnSet(h, s) = h[Pick(s)] + SumFunctionOnSet(h, s \ {Pick(s)})
  BY <1>2, <1>3, SumStep
<1>. QED BY <1>2, <1>4, <1>5, <1>6

\* One summand changes, or a member is new.
LEMMA SumChange ==
  ASSUME NEW D, IsFiniteSet(D), NEW f, NEW h, NEW x \in D,
         \A y \in D : f[y] \in Int /\ h[y] \in Int,
         \A y \in D \ {x} : f[y] = h[y]
  PROVE  SumFunctionOnSet(h, D) = SumFunctionOnSet(f, D) + h[x] - f[x]
<1>1. IsFiniteSet(D \ {x}) BY FS_Subset
<1>2. SumFunctionOnSet(f, D \ {x}) = SumFunctionOnSet(h, D \ {x}) BY <1>1, SumAgree
<1>3. SumFunctionOnSet(f, D \ {x}) \in Int BY <1>1, SumInt
<1>4. /\ SumFunctionOnSet(f, D) = f[x] + SumFunctionOnSet(f, D \ {x})
      /\ SumFunctionOnSet(h, D) = h[x] + SumFunctionOnSet(h, D \ {x})
  BY SumTake
<1>. QED BY <1>2, <1>3, <1>4

LEMMA SumPut ==
  ASSUME NEW D, IsFiniteSet(D), NEW x, x \notin D, NEW f, f[x] \in Int,
         \A y \in D : f[y] \in Int
  PROVE  SumFunctionOnSet(f, D \cup {x}) = SumFunctionOnSet(f, D) + f[x]
<1>1. IsFiniteSet(D \cup {x}) BY FS_AddElement
<1>2. SumFunctionOnSet(f, D) \in Int BY SumInt
<1>3. (D \cup {x}) \ {x} = D OBVIOUS
<1>4. SumFunctionOnSet(f, D \cup {x}) = f[x] + SumFunctionOnSet(f, (D \cup {x}) \ {x})
  BY <1>1, SumTake
<1>5. \A a, b \in Int : a + b = b + a OBVIOUS
<1>. QED BY <1>2, <1>3, <1>4, <1>5, Zenon

\* A set is summed part by part.
LEMMA SumSplit ==
  ASSUME NEW D, IsFiniteSet(D), NEW E \in SUBSET D, NEW f, \A x \in D : f[x] \in Int
  PROVE  SumFunctionOnSet(f, D) = SumFunctionOnSet(f, E) + SumFunctionOnSet(f, D \ E)
<1>. DEFINE Bad == {s \in SUBSET D :
       SumFunctionOnSet(f, D) # SumFunctionOnSet(f, s) + SumFunctionOnSet(f, D \ s)}
<1>. SUFFICES ASSUME Bad # {} PROVE FALSE OBVIOUS
<1>1. PICK s \in Bad : \A u \in SUBSET s : u # s => u \notin Bad
  <2>. HIDE DEF Bad
  <2>1. Bad \subseteq SUBSET D BY DEF Bad
  <2>. QED BY <2>1, Smallest
<1>2. IsFiniteSet(s) /\ s \in SUBSET D BY FS_Subset
<1>3. s # {}
  <2>1. IsFiniteSet({}) BY FS_EmptySet
  <2>2. SumFunctionOnSet(f, {}) = 0 BY <2>1, SumStep
  <2>3. SumFunctionOnSet(f, D) \in Int BY SumInt
  <2>4. D \ {} = D OBVIOUS
  <2>5. \A a \in Int : a = 0 + a OBVIOUS
  <2>. QED BY <2>2, <2>3, <2>4, <2>5, Zenon
<1>4. PICK x \in s : TRUE BY <1>3
<1>. DEFINE rest == s \ {x}
<1>5. SumFunctionOnSet(f, D) = SumFunctionOnSet(f, rest) + SumFunctionOnSet(f, D \ rest)
  BY <1>1, <1>2
<1>6. SumFunctionOnSet(f, s) = f[x] + SumFunctionOnSet(f, rest) BY <1>2, SumTake
<1>7. SumFunctionOnSet(f, D \ rest) = f[x] + SumFunctionOnSet(f, D \ s)
  <2>1. IsFiniteSet(D \ rest) /\ (D \ rest) \ {x} = D \ s /\ x \in D \ rest BY <1>2, FS_Subset
  <2>2. \A y \in D \ rest : f[y] \in Int OBVIOUS
  <2>. HIDE DEF rest
  <2>. QED BY <2>1, <2>2, SumTake
<1>8. f[x] \in Int /\ SumFunctionOnSet(f, rest) \in Int /\ SumFunctionOnSet(f, D \ s) \in Int
  <2>1. IsFiniteSet(rest) /\ IsFiniteSet(D \ s) BY <1>2, FS_Subset
  <2>. QED BY <1>2, <2>1, SumInt
<1>9. SumFunctionOnSet(f, D) # SumFunctionOnSet(f, s) + SumFunctionOnSet(f, D \ s) OBVIOUS
<1>10. \A a, b, c \in Int : a + (b + c) = (b + a) + c OBVIOUS
<1>. HIDE DEF rest, Bad
<1>. QED BY <1>5, <1>6, <1>7, <1>8, <1>9, <1>10

-----------------------------------------------------------------------------
(* What the operations of the ledger do to the two tables.                   *)

LEMMA SettledType ==
  ASSUME NEW r \in Reservation, NEW n \in Amount
  PROVE  [r EXCEPT !.state = "settled", !.actual = n] \in Reservation
BY DEF Reservation

LEMMA SettledAccountType ==
  ASSUME NEW a \in Account, NEW n \in Int, NEW m \in Int
  PROVE  /\ [a EXCEPT !.spent = @ + n, !.reserved = @ - m] \in Account
         /\ [a EXCEPT !.spent = @ + n, !.unknown = @ - m] \in Account
<1>1. /\ a.spent + n \in Int /\ a.reserved - m \in Int /\ a.unknown - m \in Int
  BY DEF Account
<1>2. \A s, r \in Int : [a EXCEPT !.spent = s, !.reserved = r] \in Account BY DEF Account
<1>3. \A s, u \in Int : [a EXCEPT !.spent = s, !.unknown = u] \in Account BY DEF Account
<1>. QED BY <1>1, <1>2, <1>3

LEMMA HoldEffect ==
  ASSUME TypeOK, NEW S \in SUBSET Invocation, Hold(S)
  PROVE  /\ account' \in Account /\ reservation' \in [Invocation -> Reservation]
         /\ Committed(account') = Committed(account)
         /\ \A j \in Invocation :
              \/ reservation'[j] = reservation[j]
              \/ /\ j \in S /\ reservation[j].state = "reserved"
                 /\ reservation'[j].state = "unknown"
                 /\ reservation'[j].held = reservation[j].held
<1>. USE AmountAssumption DEF TypeOK, Account, Reservation
<1>. DEFINE open == {i \in S : reservation[i].state = "reserved"}
<1>1. PICK held \in 0 .. account.reserved :
         /\ reservation' = [i \in Invocation |->
              IF i \in open THEN [reservation[i] EXCEPT !.state = "unknown"] ELSE reservation[i]]
         /\ account' = [account EXCEPT !.reserved = @ - held, !.unknown = @ + held]
  BY DEF Hold
<1>2. account' \in Account
  <2>1. /\ account.reserved - held \in Int /\ account.unknown + held \in Int BY <1>1
  <2>. QED BY <1>1, <2>1, Zenon
<1>2a. Committed(account') = Committed(account)
  <2>1. /\ account'.reserved = account.reserved - held
        /\ account'.unknown = account.unknown + held
        /\ account'.spent = account.spent
    BY <1>1
  <2>. QED BY <2>1 DEF Committed
<1>3. reservation' \in [Invocation -> Reservation] BY <1>1
<1>4. ASSUME NEW j \in Invocation
      PROVE  \/ reservation'[j] = reservation[j]
             \/ /\ j \in S /\ reservation[j].state = "reserved"
                /\ reservation'[j].state = "unknown"
                /\ reservation'[j].held = reservation[j].held
  BY <1>1
<1>. QED BY <1>2, <1>2a, <1>3, <1>4

\* Confirmed usage settles the reservation there is, whatever was held for it,
\* and raises what is committed only by usage above the hold or the settlement.
LEMMA ChargeEffect ==
  ASSUME TypeOK, NEW i \in Invocation, NEW n \in Amount, Charge(i, n)
  PROVE  /\ account' \in Account /\ reservation' \in [Invocation -> Reservation]
         /\ \A j \in Invocation \ {i} : reservation'[j] = reservation[j]
         /\ reservation'[i].held = reservation[i].held
         /\ reservation'[i].state = IF reservation[i].state = "none" THEN "none" ELSE "settled"
         /\ Committed(account') > Committed(account) =>
              /\ reservation'[i].state = "settled"
              /\ \/ reservation'[i].actual > reservation[i].held
                 \/ /\ reservation[i].state = "settled"
                    /\ reservation'[i].actual > reservation[i].actual
<1>. USE AmountAssumption DEF TypeOK, Account, Reservation, Committed
<1>1. CASE Settle(i, n)
  <2>1. /\ reservation' = [reservation EXCEPT ![i].state = "settled", ![i].actual = n]
        /\ reservation[i].state \in {"reserved", "unknown"}
    BY <1>1 DEF Settle
  <2>2. /\ reservation'[i].actual = n /\ reservation'[i].held = reservation[i].held
        /\ reservation'[i].state = "settled"
        /\ \A j \in Invocation \ {i} : reservation'[j] = reservation[j]
    BY <2>1
  <2>3. account' \in Account
    <3>1. n \in Int /\ reservation[i].held \in Int BY <2>1
    <3>2. account \in Account BY DEF TypeOK
    <3>. QED BY <1>1, <3>1, <3>2, SettledAccountType DEF Settle
  <2>4. /\ account'.spent = account.spent + n
        /\ account'.reserved + account'.unknown =
             account.reserved + account.unknown - reservation[i].held
    BY <1>1 DEF Settle
  <2>5. [reservation[i] EXCEPT !.state = "settled", !.actual = n] \in Reservation BY SettledType
  <2>6. reservation' \in [Invocation -> Reservation] BY <2>1, <2>5
  <2>. QED BY <2>1, <2>2, <2>3, <2>4, <2>6
<1>2. CASE Correct(i, n) BY <1>2 DEF Correct
<1>3. CASE UNCHANGED <<account, reservation>> /\ reservation[i].state \in {"none", "settled"}
  BY <1>3
<1>. QED BY <1>1, <1>2, <1>3 DEF Charge

\* A new report is added to the others, and to those of no other invocation.
LEMMA AppendEffect ==
  ASSUME TypeOK, NEW i \in Invocation, NEW kind \in Kind, NEW n \in Amount,
         NEW evidence \in BOOLEAN, Append(i, kind, n, evidence)
  PROVE  /\ DOMAIN events' = Invocation
         /\ \A j \in Invocation : \A e \in events'[j] :
              e.kind \in Kind /\ e.reported \in Amount /\ e.evidence \in BOOLEAN
         /\ \A j \in Invocation \ {i} : events'[j] = events[j]
         /\ events[i] \subseteq events'[i]
         /\ \E e \in events'[i] : e.kind = kind /\ e.evidence = evidence
         /\ \A e \in events'[i] \ events[i] : e.kind = kind /\ e.evidence = evidence
<1>. DEFINE new == [kind |-> kind, reported |-> n, delta |-> n - Total(events[i]),
                    evidence |-> evidence]
<1>1. events' = [events EXCEPT ![i] = @ \cup {new}] BY DEF Append
<1>2. new.kind = kind /\ new.evidence = evidence /\ new.reported = n OBVIOUS
<1>. HIDE DEF new
<1>3. DOMAIN events' = Invocation /\ events'[i] = events[i] \cup {new} BY <1>1 DEF TypeOK
<1>4. \A j \in Invocation \ {i} : events'[j] = events[j] BY <1>1 DEF TypeOK
<1>. QED BY <1>2, <1>3, <1>4 DEF TypeOK

-----------------------------------------------------------------------------
(* The invariant.                                                            *)

LEMMA InitAccounting == Init => AccountingInv
<1>. SUFFICES ASSUME Init PROVE AccountingInv OBVIOUS
<1>1. account \in Account /\ reservation \in [Invocation -> Reservation]
  BY DEF Init, NoReservation, Account, Reservation
<1>2. TypeOK BY <1>1 DEF Init, TypeOK
<1>3. ConfirmedOnceOver BY DEF Init, ConfirmedOnceOver, NoReservation, Reported
<1>. QED BY <1>2, <1>3 DEF AccountingInv

LEMMA ConfigureScopeKeeps == AccountingInv /\ ConfigureScope => AccountingInv'
<1>. SUFFICES ASSUME AccountingInv, ConfigureScope PROVE AccountingInv' OBVIOUS
<1>. USE DEF AccountingInv, ConfigureScope
<1>1. PICK limit \in Nat : account' = [account EXCEPT !.exists = TRUE, !.limit = limit]
  BY AmountAssumption
<1>2. account' \in Account BY <1>1 DEF TypeOK, Account
<1>3. TypeOK' BY <1>2 DEF TypeOK
<1>4. ConfirmedOnceOver' BY DEF ConfirmedOnceOver, Reported, Evidenced
<1>. QED BY <1>3, <1>4

LEMMA StartKeeps == ASSUME NEW i \in Invocation PROVE AccountingInv /\ Start(i) => AccountingInv'
<1>. SUFFICES ASSUME AccountingInv, Start(i) PROVE AccountingInv' OBVIOUS
<1>. USE DEF AccountingInv, Start
<1>1. TypeOK' BY DEF TypeOK
<1>2. ConfirmedOnceOver' BY DEF TypeOK, ConfirmedOnceOver, Reported, Evidenced
<1>. QED BY <1>1, <1>2

\* A reservation that is made keeps its type.
LEMMA ReservedForm ==
  ASSUME NEW r \in Reservation, NEW tokens \in Amount
  PROVE  [r EXCEPT !.state = "reserved", !.held = tokens] \in Reservation
  BY DEF Reservation

\* A reservation is admitted below the limit, and only for an invocation that has
\* reported nothing yet.
LEMMA ReserveEffect ==
  ASSUME AccountingInv, NEW i \in Invocation, Reserve(i)
  PROVE  /\ account' \in Account /\ reservation' \in [Invocation -> Reservation]
         /\ Committed(account') > Committed(account) => Committed(account') <= account'.limit
         /\ \A j \in Invocation \ {i} : reservation'[j] = reservation[j]
         /\ reservation[i].state = "none" /\ events[i] = {}
         /\ reservation'[i].state \in {"none", "reserved"}
         /\ client' \in [Invocation -> {"idle", "started", "refused", "executing", "gone"}]
         /\ client'[i] \in {"refused", "executing"}
         /\ \A j \in Invocation \ {i} : client'[j] = client[j]
<1>. USE AmountAssumption DEF AccountingInv, TypeOK
<1>0. reservation[i].state = "none" /\ events[i] = {}
  BY DEF Reserve, ConfirmedOnceOver
<1>1. CASE client' = [client EXCEPT ![i] = "refused"] /\ UNCHANGED <<account, reservation>>
  BY <1>0, <1>1 DEF Committed, Account
<1>2. ASSUME NEW tokens \in Amount, HoldTokens(tokens),
             reservation' = [reservation EXCEPT ![i].state = "reserved", ![i].held = tokens],
             client' = [client EXCEPT ![i] = "executing"]
      PROVE  /\ account' \in Account /\ reservation' \in [Invocation -> Reservation]
             /\ Committed(account') <= account'.limit
             /\ \A j \in Invocation \ {i} : reservation'[j] = reservation[j]
             /\ reservation'[i].state = "reserved"
  <2>1. account.reserved + tokens \in Int
    <3>1. account \in Account OBVIOUS
    <3>2. account.reserved \in Int BY <3>1 DEF Account
    <3>3. tokens \in Int OBVIOUS
    <3>. QED BY <3>2, <3>3
  <2>2. account' \in Account BY <1>2, <2>1 DEF HoldTokens, Account
  <2>3. [reservation[i] EXCEPT !.state = "reserved", !.held = tokens] \in Reservation
    BY <1>2, ReservedForm
  <2>4. reservation' \in [Invocation -> Reservation] BY <1>2, <2>3
  <2>5. /\ \A j \in Invocation \ {i} : reservation'[j] = reservation[j]
        /\ reservation'[i].state = "reserved"
    BY <1>2 DEF Reservation
  <2>6. /\ account'.reserved = account.reserved + tokens /\ account'.limit = account.limit
        /\ account'.spent = account.spent /\ account'.unknown = account.unknown
    BY <1>2 DEF HoldTokens, Account
  <2>7. Committed(account') <= account'.limit
    BY <1>2, <2>6 DEF HoldTokens, Committed, Account
  <2>. QED BY <2>2, <2>4, <2>5, <2>7
<1>. QED BY <1>0, <1>1, <1>2 DEF Reserve, ReserveTokens, Committed, Account

LEMMA ReserveKeeps ==
  ASSUME NEW i \in Invocation PROVE AccountingInv /\ Reserve(i) => AccountingInv'
<1>. SUFFICES ASSUME AccountingInv, Reserve(i) PROVE AccountingInv' OBVIOUS
<1>1. UNCHANGED <<inv, events, usage, recovered>> BY DEF Reserve
<1>2. TypeOK' BY ReserveEffect, <1>1 DEF AccountingInv, TypeOK
<1>3. client[i] = "started" BY DEF Reserve
<1>4. ConfirmedOnceOver'
  BY ReserveEffect, <1>1, <1>3 DEF AccountingInv, ConfirmedOnceOver, Reported, Evidenced
<1>. QED BY <1>2, <1>4 DEF AccountingInv

LEMMA RecordPartialKeeps ==
  ASSUME NEW i \in Invocation PROVE AccountingInv /\ RecordPartial(i) => AccountingInv'
<1>. SUFFICES ASSUME AccountingInv, RecordPartial(i) PROVE AccountingInv' OBVIOUS
<1>1. PICK n \in Amount : Append(i, "partial", n, FALSE) BY DEF RecordPartial
<1>2. "partial" \in Kind /\ FALSE \in BOOLEAN BY DEF Kind
<1>3. /\ DOMAIN events' = Invocation
      /\ \A j \in Invocation : \A e \in events'[j] :
           e.kind \in Kind /\ e.reported \in Amount /\ e.evidence \in BOOLEAN
      /\ \A j \in Invocation \ {i} : events'[j] = events[j]
      /\ events[i] \subseteq events'[i]
      /\ \A e \in events'[i] \ events[i] : e.kind = "partial"
  BY <1>1, <1>2, AppendEffect DEF AccountingInv
<1>4. /\ UNCHANGED <<account, reservation, inv, client, recovered>>
      /\ client[i] = "executing" /\ inv[i] = "running"
  BY DEF RecordPartial
<1>5. TypeOK' BY <1>3, <1>4 DEF AccountingInv, TypeOK
<1>6. ConfirmedOnceOver'
  BY <1>3, <1>4 DEF AccountingInv, ConfirmedOnceOver, Reported, Evidenced
<1>. QED BY <1>5, <1>6 DEF AccountingInv

LEMMA CrashKeeps == ASSUME NEW i \in Invocation PROVE AccountingInv /\ Crash(i) => AccountingInv'
<1>. SUFFICES ASSUME AccountingInv, Crash(i) PROVE AccountingInv' OBVIOUS
<1>. USE DEF AccountingInv, Crash
<1>1. TypeOK' BY DEF TypeOK
<1>2. ConfirmedOnceOver' BY DEF TypeOK, ConfirmedOnceOver, Reported, Evidenced
<1>. QED BY <1>1, <1>2

\* What a finish does depends on whether the invocation is still recorded as running.
LEMMA FinishEffect ==
  ASSUME AccountingInv, NEW i \in Invocation, Finish(i)
  PROVE  /\ account' \in Account /\ reservation' \in [Invocation -> Reservation]
         /\ inv' \in [Invocation -> {"none", "running", "ended", "unknown"}]
         /\ DOMAIN events' = Invocation
         /\ \A j \in Invocation : \A e \in events'[j] :
              e.kind \in Kind /\ e.reported \in Amount /\ e.evidence \in BOOLEAN
         /\ \A j \in Invocation \ {i} :
              reservation'[j] = reservation[j] /\ events'[j] = events[j] /\ inv'[j] = inv[j]
         /\ reservation'[i].held = reservation[i].held
         /\ \/ /\ inv[i] = "running" /\ inv'[i] # "running"
               /\ ~Reported(i, "reconcile")'
               /\ reservation'[i].state \in
                    IF reservation[i].state = "none" THEN {"none"} ELSE {"unknown", "settled"}
            \/ /\ inv[i] # "running" /\ inv'[i] = inv[i]
               /\ ~Evidenced(i) /\ Evidenced(i)'
               /\ ~Reported(i, "reconcile")'
               /\ reservation'[i].state =
                    IF reservation[i].state = "none" THEN "none" ELSE "settled"
            \/ UNCHANGED <<reservation, events, inv>>
         /\ \/ Committed(account') = Committed(account)
            \/ ~(Committed(account') > Committed(account))
            \/ /\ reservation'[i].state = "settled"
               /\ \/ reservation'[i].actual > reservation[i].held
                  \/ /\ reservation[i].state = "settled"
                     /\ reservation'[i].actual > reservation[i].actual
<1>. USE DEF AccountingInv
<1>1. PICK n \in Amount \cup {NoUsage} :
        FinishRunning(i, n) \/ FinishLate(i, n) \/ FinishRefused(i, n)
  BY DEF Finish
<1>2. "final" \in Kind /\ "late" \in Kind /\ FALSE \in BOOLEAN /\ TRUE \in BOOLEAN BY DEF Kind
<1>3. Reported(i, "reconcile") => inv[i] # "running" /\ Evidenced(i) BY DEF ConfirmedOnceOver
<1>4. CASE FinishRunning(i, n)
  <2>1. /\ inv' \in [Invocation -> {"none", "running", "ended", "unknown"}]
        /\ inv[i] = "running" /\ inv'[i] # "running"
        /\ \A j \in Invocation \ {i} : inv'[j] = inv[j]
    BY <1>4 DEF FinishRunning, TypeOK
  <2>2. reservation[i].state \in {"none", "reserved"} /\ ~Reported(i, "reconcile")
    BY <2>1 DEF ConfirmedOnceOver
  <2>3. CASE n # NoUsage
    <3>1. n \in Amount BY <2>3
    <3>2. Append(i, "final", n, FALSE) BY <1>4, <2>3 DEF FinishRunning
    <3>3. PICK total \in Amount : Charge(i, total) BY <1>4, <2>3 DEF FinishRunning
    <3>4. /\ DOMAIN events' = Invocation
          /\ \A j \in Invocation : \A e \in events'[j] :
               e.kind \in Kind /\ e.reported \in Amount /\ e.evidence \in BOOLEAN
          /\ \A j \in Invocation \ {i} : events'[j] = events[j]
          /\ \A e \in events'[i] \ events[i] : e.kind = "final"
      BY <1>2, <3>1, <3>2, AppendEffect
    <3>5. ~Reported(i, "reconcile")' BY <2>2, <3>4 DEF Reported
    <3>. QED BY <2>1, <2>2, <3>3, <3>4, <3>5, ChargeEffect
  <2>4. CASE n = NoUsage
    <3>1. Hold({i}) /\ UNCHANGED events BY <1>4, <2>4, AmountAssumption DEF FinishRunning
    <3>2. reservation[i].state = "reserved" => reservation'[i].state = "unknown"
      BY <3>1 DEF Hold, TypeOK, Reservation
    <3>3. {i} \in SUBSET Invocation OBVIOUS
    <3>4. /\ account' \in Account /\ reservation' \in [Invocation -> Reservation]
          /\ Committed(account') = Committed(account)
          /\ \A j \in Invocation \ {i} : reservation'[j] = reservation[j]
          /\ \/ reservation'[i] = reservation[i]
             \/ reservation[i].state = "reserved" /\ reservation'[i].held = reservation[i].held
      BY <3>1, <3>3, HoldEffect
    <3>5. ~Reported(i, "reconcile")' BY <2>2, <3>1 DEF Reported
    <3>. QED BY <2>1, <2>2, <3>1, <3>2, <3>4, <3>5 DEF TypeOK
  <2>. QED BY <2>3, <2>4
<1>5. CASE FinishLate(i, n)
  <2>1. /\ n \in Amount /\ inv[i] # "running" /\ ~Evidenced(i) /\ UNCHANGED inv
        /\ Append(i, "late", n, TRUE)
    BY <1>5 DEF FinishLate
  <2>2. PICK total \in Amount : Charge(i, total) BY <1>5 DEF FinishLate
  <2>3. /\ DOMAIN events' = Invocation
        /\ \A j \in Invocation : \A e \in events'[j] :
             e.kind \in Kind /\ e.reported \in Amount /\ e.evidence \in BOOLEAN
        /\ \A j \in Invocation \ {i} : events'[j] = events[j]
        /\ \E e \in events'[i] : e.evidence
        /\ \A e \in events'[i] \ events[i] : e.kind = "late"
    BY <1>2, <2>1, AppendEffect
  <2>4. ~Reported(i, "reconcile")' /\ Evidenced(i)'
    BY <1>3, <2>1, <2>3 DEF Reported, Evidenced
  <2>. QED BY <2>1, <2>2, <2>3, <2>4, ChargeEffect DEF TypeOK
<1>6. CASE FinishRefused(i, n) BY <1>6 DEF FinishRefused, TypeOK
<1>. QED BY <1>1, <1>4, <1>5, <1>6

LEMMA FinishKeeps == ASSUME NEW i \in Invocation PROVE AccountingInv /\ Finish(i) => AccountingInv'
<1>. SUFFICES ASSUME AccountingInv, Finish(i) PROVE AccountingInv' OBVIOUS
<1>. USE FinishEffect DEF AccountingInv
<1>1. /\ client' = [client EXCEPT ![i] = "gone"] /\ UNCHANGED recovered
      /\ client[i] \in {"refused", "executing"}
  BY DEF Finish
<1>2. TypeOK' BY <1>1 DEF TypeOK
<1>3. ASSUME NEW j \in Invocation \ {i}
      PROVE  /\ client'[j] = client[j] /\ inv'[j] = inv[j]
             /\ reservation'[j] = reservation[j] /\ events'[j] = events[j]
  BY <1>1 DEF TypeOK
<1>4. client'[i] = "gone" BY <1>1 DEF TypeOK
<1>5. ConfirmedOnceOver'
  BY <1>3, <1>4 DEF ConfirmedOnceOver, Reported, Evidenced
<1>. QED BY <1>2, <1>5

\* Recovery keeps every report, and only turns holds into liabilities.
LEMMA RecoverEffect ==
  ASSUME AccountingInv, NEW t \in Task, Recover(t)
  PROVE  /\ account' \in Account /\ reservation' \in [Invocation -> Reservation]
         /\ inv' \in [Invocation -> {"none", "running", "ended", "unknown"}]
         /\ recovered' \subseteq Leased
         /\ Committed(account') = Committed(account)
         /\ UNCHANGED <<events, usage, client>>
         /\ \A j \in Invocation :
              /\ \/ inv'[j] = inv[j] /\ (inv[j] # "running" \/ reservation'[j] = reservation[j])
                 \/ inv[j] = "running" /\ inv'[j] = "unknown"
              /\ \/ reservation'[j] = reservation[j]
                 \/ /\ reservation[j].state = "reserved" /\ reservation'[j].state = "unknown"
                    /\ reservation'[j].held = reservation[j].held
<1>. USE DEF AccountingInv
<1>1. OfTask(t) \in SUBSET Invocation BY DEF OfTask
<1>2. Hold(OfTask(t)) BY DEF Recover
<1>3. /\ account' \in Account /\ reservation' \in [Invocation -> Reservation]
      /\ Committed(account') = Committed(account)
      /\ \A j \in Invocation :
           \/ reservation'[j] = reservation[j]
           \/ /\ j \in OfTask(t) /\ reservation[j].state = "reserved"
              /\ reservation'[j].state = "unknown"
              /\ reservation'[j].held = reservation[j].held
  BY <1>1, <1>2, HoldEffect
<1>4. /\ inv' = [j \in Invocation |->
           IF j \in OfTask(t) /\ inv[j] = "running" THEN "unknown" ELSE inv[j]]
      /\ recovered' = recovered \cup {t} /\ t \in Leased
      /\ UNCHANGED <<events, usage, client>>
  BY DEF Recover
<1>. QED BY <1>3, <1>4 DEF TypeOK

LEMMA RecoverKeeps == ASSUME NEW t \in Task PROVE AccountingInv /\ Recover(t) => AccountingInv'
<1>. SUFFICES ASSUME AccountingInv, Recover(t) PROVE AccountingInv' OBVIOUS
<1>. USE RecoverEffect DEF AccountingInv
<1>1. TypeOK' BY DEF TypeOK
<1>2. ConfirmedOnceOver'
  <2>1. SUFFICES ASSUME NEW j \in Invocation
        PROVE  /\ client'[j] = "idle" => inv'[j] = "none"
               /\ client'[j] \in {"idle", "started"} =>
                    reservation'[j].state = "none" /\ events'[j] = {}
               /\ inv'[j] = "running" =>
                    /\ ~(\E e \in events'[j] : e.kind = "reconcile")
                    /\ reservation'[j].state \in {"none", "reserved"}
               /\ (\E e \in events'[j] : e.kind = "reconcile") =>
                    (\E e \in events'[j] : e.evidence) /\ reservation'[j].state = "settled"
    BY DEF ConfirmedOnceOver, Reported, Evidenced
  <2>2. /\ client[j] = "idle" => inv[j] = "none"
        /\ client[j] \in {"idle", "started"} => reservation[j].state = "none" /\ events[j] = {}
        /\ inv[j] = "running" =>
             /\ ~(\E e \in events[j] : e.kind = "reconcile")
             /\ reservation[j].state \in {"none", "reserved"}
        /\ (\E e \in events[j] : e.kind = "reconcile") =>
             (\E e \in events[j] : e.evidence) /\ reservation[j].state = "settled"
    BY DEF ConfirmedOnceOver, Reported, Evidenced
  <2>. QED BY <2>2
<1>. QED BY <1>1, <1>2

\* A receipt settles an invocation that is over and has not been reconciled.
LEMMA ReconcileEffect ==
  ASSUME AccountingInv, NEW i \in Invocation, OperatorReconcile(i)
  PROVE  /\ account' \in Account /\ reservation' \in [Invocation -> Reservation]
         /\ DOMAIN events' = Invocation
         /\ \A j \in Invocation : \A e \in events'[j] :
              e.kind \in Kind /\ e.reported \in Amount /\ e.evidence \in BOOLEAN
         /\ \A j \in Invocation \ {i} :
              reservation'[j] = reservation[j] /\ events'[j] = events[j]
         /\ inv[i] # "running" /\ ~Reported(i, "reconcile")
         /\ client[i] \notin {"idle", "started"}
         /\ UNCHANGED <<inv, client, recovered>>
         /\ \E e \in events'[i] \ events[i] : e.evidence
         /\ reservation'[i].state = "settled" /\ reservation'[i].held = reservation[i].held
         /\ Committed(account') > Committed(account) =>
              \/ reservation'[i].actual > reservation[i].held
              \/ /\ reservation[i].state = "settled"
                 /\ reservation'[i].actual > reservation[i].actual
<1>. USE DEF AccountingInv
<1>1. /\ reservation[i].state # "none" /\ inv[i] # "running" /\ ~Reported(i, "reconcile")
      /\ UNCHANGED <<inv, client, recovered>>
  BY DEF OperatorReconcile
<1>2. PICK n \in Amount :
        Append(i, "reconcile", n, TRUE) /\ \E total \in Amount : Charge(i, total)
  BY DEF OperatorReconcile
<1>3. "reconcile" \in Kind /\ TRUE \in BOOLEAN BY DEF Kind
<1>4. /\ DOMAIN events' = Invocation
      /\ \A j \in Invocation : \A e \in events'[j] :
           e.kind \in Kind /\ e.reported \in Amount /\ e.evidence \in BOOLEAN
      /\ \A j \in Invocation \ {i} : events'[j] = events[j]
      /\ \E e \in events'[i] : e.kind = "reconcile" /\ e.evidence
  BY <1>2, <1>3, AppendEffect
<1>5. \E e \in events'[i] \ events[i] : e.evidence BY <1>1, <1>4 DEF Reported
<1>6. client[i] \notin {"idle", "started"} BY <1>1 DEF ConfirmedOnceOver
<1>. QED BY <1>1, <1>2, <1>4, <1>5, <1>6, ChargeEffect

LEMMA OperatorReconcileKeeps ==
  ASSUME NEW i \in Invocation PROVE AccountingInv /\ OperatorReconcile(i) => AccountingInv'
<1>. SUFFICES ASSUME AccountingInv, OperatorReconcile(i) PROVE AccountingInv' OBVIOUS
<1>. USE ReconcileEffect DEF AccountingInv
<1>1. TypeOK' BY DEF TypeOK
<1>2. ConfirmedOnceOver' BY DEF ConfirmedOnceOver, Reported, Evidenced
<1>. QED BY <1>1, <1>2

LEMMA NextKeeps == AccountingInv /\ [Next]_vars => AccountingInv'
<1>. SUFFICES ASSUME AccountingInv, [Next]_vars PROVE AccountingInv' OBVIOUS
<1>1. CASE UNCHANGED vars
  BY <1>1 DEF vars, AccountingInv, TypeOK, ConfirmedOnceOver, Reported, Evidenced
<1>. QED BY <1>1, ConfigureScopeKeeps, StartKeeps, ReserveKeeps, RecordPartialKeeps, FinishKeeps,
         CrashKeeps, RecoverKeeps, OperatorReconcileKeeps DEF Next, Execute

\* The types of the rows, and that usage is confirmed only of invocations that
\* are over, survive every crash, late report, recovery and receipt.
THEOREM Accounting == Spec => []AccountingInv
<1>. QED BY InitAccounting, NextKeeps, PTL DEF Spec

-----------------------------------------------------------------------------
(* What no step does.                                                        *)

LEMMA NextReceipts == AccountingInv /\ [Next]_vars => [KeepsReceipts]_vars
<1>. SUFFICES ASSUME AccountingInv, Next PROVE KeepsReceipts OBVIOUS
<1>0. \A j \in Invocation : Reported(j, "reconcile") =>
        /\ inv[j] # "running" /\ Evidenced(j) /\ events[j] # {}
        /\ reservation[j].state = "settled"
  BY DEF AccountingInv, ConfirmedOnceOver, Reported
<1>1. CASE ConfigureScope BY <1>1 DEF ConfigureScope, KeepsReceipts
<1>2. ASSUME NEW i \in Invocation, Start(i) \/ Crash(i) PROVE KeepsReceipts
  BY <1>2 DEF Start, Crash, KeepsReceipts
<1>3. ASSUME NEW i \in Invocation, Reserve(i) PROVE KeepsReceipts
  BY <1>0, <1>3, ReserveEffect DEF KeepsReceipts, Reserve
<1>4. ASSUME NEW i \in Invocation, RecordPartial(i) PROVE KeepsReceipts
  BY <1>0, <1>4, AppendEffect
     DEF KeepsReceipts, RecordPartial, Append, AccountingInv, TypeOK
<1>5. ASSUME NEW i \in Invocation, Finish(i) PROVE KeepsReceipts
  BY <1>0, <1>5, FinishEffect DEF KeepsReceipts
<1>6. ASSUME NEW i \in Invocation, OperatorReconcile(i) PROVE KeepsReceipts
  BY <1>6, ReconcileEffect DEF KeepsReceipts
<1>7. ASSUME NEW t \in Task, Recover(t) PROVE KeepsReceipts
  BY <1>0, <1>7, RecoverEffect DEF KeepsReceipts
<1>. QED BY <1>1, <1>2, <1>3, <1>4, <1>5, <1>6, <1>7 DEF Next, Execute

\* A receipt an operator confirmed is never changed, by a late executor, a
\* recovery or another receipt.
THEOREM ReceiptsStand == Spec => ReceiptIsFinal
<1>1. AccountingInv /\ [Next]_vars => [KeepsReceipts]_vars BY NextReceipts
<1>. QED BY <1>1, Accounting, PTL DEF Spec, ReceiptIsFinal

LEMMA NextAdvances == AccountingInv /\ [Next]_vars => [Advances]_vars
<1>. SUFFICES ASSUME AccountingInv, Next PROVE Advances OBVIOUS
<1>0. \A j \in Invocation : reservation[j].state \in {"none", "reserved", "unknown", "settled"}
  BY DEF AccountingInv, TypeOK, Reservation
<1>1. ASSUME UNCHANGED reservation PROVE Advances BY <1>0, <1>1 DEF Advances, Stage
<1>2. ASSUME NEW i \in Invocation, Reserve(i) PROVE Advances
  BY <1>0, <1>2, ReserveEffect DEF Advances, Stage
<1>3. ASSUME NEW i \in Invocation, Finish(i) PROVE Advances
  <2>1. \A j \in Invocation \ {i} : reservation'[j] = reservation[j] BY <1>3, FinishEffect
  <2>2. CASE UNCHANGED reservation BY <1>1, <2>2
  <2>3. CASE inv[i] = "running" /\ inv'[i] # "running"
    <3>1. reservation[i].state \in {"none", "reserved"}
      BY <2>3 DEF AccountingInv, ConfirmedOnceOver
    <3>2. /\ reservation'[i].held = reservation[i].held
          /\ reservation'[i].state \in
               IF reservation[i].state = "none" THEN {"none"} ELSE {"unknown", "settled"}
      BY <1>3, <2>3, FinishEffect
    <3>. QED BY <1>0, <2>1, <3>1, <3>2 DEF Advances, Stage
  <2>4. CASE inv'[i] = inv[i] /\ ~Evidenced(i) /\ Evidenced(i)' /\
             reservation'[i].state = IF reservation[i].state = "none" THEN "none" ELSE "settled"
    <3>1. \E e \in events'[i] \ events[i] : e.evidence BY <2>4 DEF Evidenced
    <3>2. reservation'[i].held = reservation[i].held BY <1>3, FinishEffect
    <3>. QED BY <1>0, <2>1, <2>4, <3>1, <3>2 DEF Advances, Stage
  <2>. QED BY <1>3, <2>2, <2>3, <2>4, FinishEffect
<1>4. ASSUME NEW i \in Invocation, OperatorReconcile(i) PROVE Advances
  BY <1>0, <1>4, ReconcileEffect DEF Advances, Stage
<1>5. ASSUME NEW t \in Task, Recover(t) PROVE Advances
  BY <1>0, <1>5, RecoverEffect DEF Advances, Stage
<1>6. ASSUME NEW i \in Invocation, Start(i) \/ RecordPartial(i) \/ Crash(i)
      PROVE UNCHANGED reservation
  BY <1>6 DEF Start, RecordPartial, Crash
<1>7. ASSUME ConfigureScope PROVE UNCHANGED reservation BY <1>7 DEF ConfigureScope
<1>. QED BY <1>1, <1>2, <1>3, <1>4, <1>5, <1>6, <1>7 DEF Next, Execute

\* A reservation never goes back, and a liability is released only together with
\* new evidence of what was consumed.
THEOREM LiabilitiesNeedEvidence == Spec => ReservationsAdvance
<1>1. AccountingInv /\ [Next]_vars => [Advances]_vars BY NextAdvances
<1>. QED BY <1>1, Accounting, PTL DEF Spec, ReservationsAdvance

LEMMA NextHeadroom == AccountingInv /\ [Next]_vars => [NeverOverAdmitted]_vars
<1>. SUFFICES ASSUME AccountingInv, Next PROVE NeverOverAdmitted OBVIOUS
<1>0. Committed(account) \in Int /\ account.limit \in Int
  BY DEF AccountingInv, TypeOK, Account, Committed
<1>1. ASSUME Committed(account') = Committed(account) PROVE NeverOverAdmitted
  BY <1>0, <1>1 DEF NeverOverAdmitted
<1>2. ASSUME NEW i \in Invocation, Reserve(i) PROVE NeverOverAdmitted
  <2>1. account' \in Account BY <1>2, ReserveEffect
  <2>2. Committed(account') \in Int /\ account'.limit \in Int
    BY <2>1 DEF Account, Committed
  <2>. QED BY <1>2, <2>2, ReserveEffect DEF NeverOverAdmitted
<1>3. ASSUME NEW i \in Invocation, Finish(i) PROVE NeverOverAdmitted
  BY <1>0, <1>3, FinishEffect DEF NeverOverAdmitted
<1>4. ASSUME NEW i \in Invocation, OperatorReconcile(i) PROVE NeverOverAdmitted
  BY <1>4, ReconcileEffect DEF NeverOverAdmitted
<1>5. ASSUME NEW t \in Task, Recover(t) PROVE NeverOverAdmitted BY <1>1, <1>5, RecoverEffect
<1>6. ASSUME NEW i \in Invocation, Start(i) \/ RecordPartial(i) \/ Crash(i)
      PROVE NeverOverAdmitted
  BY <1>1, <1>6 DEF Start, RecordPartial, Crash
<1>7. ASSUME ConfigureScope PROVE NeverOverAdmitted
  <2>1. /\ account'.spent = account.spent /\ account'.reserved = account.reserved
        /\ account'.unknown = account.unknown
    BY <1>7 DEF ConfigureScope, AccountingInv, TypeOK, Account
  <2>. QED BY <1>1, <2>1 DEF Committed
<1>. QED BY <1>2, <1>3, <1>4, <1>5, <1>6, <1>7 DEF Next, Execute

\* Admission never takes a scope over its limit: what exceeds it was consumed.
THEOREM Headroom == Spec => HeadroomRespected
<1>1. AccountingInv /\ [Next]_vars => [NeverOverAdmitted]_vars BY NextHeadroom
<1>. QED BY <1>1, Accounting, PTL DEF Spec, HeadroomRespected

-----------------------------------------------------------------------------
(* The columns of the account.                                               *)

Held(r) == [i \in Invocation |-> r[i].held]
Actual(r) == [i \in Invocation |-> r[i].actual]
In(r, state) == {i \in Invocation : r[i].state = state}

\* AccountBalances, of any account and any table of reservations.
Balanced(a, r) ==
  /\ a.reserved = SumFunctionOnSet(Held(r), In(r, "reserved"))
  /\ a.unknown = SumFunctionOnSet(Held(r), In(r, "unknown"))
  /\ a.spent = SumFunctionOnSet(Actual(r), In(r, "settled"))

LEMMA ColumnSums ==
  ASSUME NEW r \in [Invocation -> Reservation], NEW S \in SUBSET Invocation
  PROVE  /\ IsFiniteSet(S)
         /\ \A i \in S : Held(r)[i] \in Int /\ Actual(r)[i] \in Int
         /\ SumFunctionOnSet(Held(r), S) \in Int
         /\ SumFunctionOnSet(Actual(r), S) \in Int
         /\ SumFunctionOnSet([i \in S |-> r[i].held], S) = SumFunctionOnSet(Held(r), S)
         /\ SumFunctionOnSet([i \in S |-> r[i].actual], S) = SumFunctionOnSet(Actual(r), S)
<1>1. IsFiniteSet(S) BY InvocationAssumption, FS_Subset
<1>2. \A i \in S : Held(r)[i] \in Int /\ Actual(r)[i] \in Int
  <2>1. \A i \in S : r[i].held \in Amount \cup {0} /\ r[i].actual \in Amount \cup {0}
    BY DEF Reservation
  <2>2. Amount \cup {0} \subseteq Int BY AmountAssumption
  <2>. QED BY <2>1, <2>2 DEF Held, Actual
<1>3. \A i \in S : [j \in S |-> r[j].held][i] = Held(r)[i] BY DEF Held
<1>4. \A i \in S : [j \in S |-> r[j].actual][i] = Actual(r)[i] BY DEF Actual
<1>. QED BY <1>1, <1>2, <1>3, <1>4, SumInt, SumAgree

LEMMA BalancedNow ==
  reservation \in [Invocation -> Reservation] =>
    (AccountBalances <=> Balanced(account, reservation))
<1>. SUFFICES ASSUME reservation \in [Invocation -> Reservation]
     PROVE AccountBalances <=> Balanced(account, reservation)
  OBVIOUS
<1>1. \A state : In(reservation, state) \in SUBSET Invocation BY DEF In
<1>. QED BY <1>1, ColumnSums DEF AccountBalances, Balanced, HeldBy, InState, In

LEMMA BalancedNext ==
  reservation' \in [Invocation -> Reservation] =>
    (AccountBalances' <=> Balanced(account', reservation'))
<1>. SUFFICES ASSUME reservation' \in [Invocation -> Reservation]
     PROVE AccountBalances' <=> Balanced(account', reservation')
  OBVIOUS
<1>1. \A state : In(reservation', state) \in SUBSET Invocation BY DEF In
<1>. QED BY <1>1, ColumnSums DEF AccountBalances, Balanced, HeldBy, InState, In

\* A reservation that is made, settled, held or corrected moves what it weighs from
\* one column to another.
LEMMA ReserveBalances ==
  ASSUME NEW r \in [Invocation -> Reservation], NEW q \in [Invocation -> Reservation],
         NEW a \in Account, NEW b, NEW i \in Invocation, NEW n \in Amount, Balanced(a, r),
         r[i].state = "none", q[i].state = "reserved", q[i].held = n,
         \A j \in Invocation \ {i} : q[j] = r[j],
         b.reserved = a.reserved + n, b.unknown = a.unknown, b.spent = a.spent
  PROVE  Balanced(b, q)
<1>1. /\ In(q, "reserved") = In(r, "reserved") \cup {i} /\ i \notin In(r, "reserved")
      /\ In(q, "unknown") = In(r, "unknown") /\ In(q, "settled") = In(r, "settled")
      /\ i \notin In(r, "unknown") /\ i \notin In(r, "settled")
      /\ \A state : In(r, state) \in SUBSET Invocation /\ In(q, state) \in SUBSET Invocation
  BY DEF In
<1>2. \A j \in Invocation \ {i} : Held(q)[j] = Held(r)[j] /\ Actual(q)[j] = Actual(r)[j]
  BY DEF Held, Actual
<1>3. SumFunctionOnSet(Held(q), In(r, "reserved") \cup {i}) =
        SumFunctionOnSet(Held(q), In(r, "reserved")) + n
  <2>1. Held(q)[i] = n /\ Held(q)[i] \in Int BY AmountAssumption DEF Held
  <2>2. IsFiniteSet(In(r, "reserved")) /\ \A j \in In(r, "reserved") : Held(q)[j] \in Int
    BY <1>1, ColumnSums
  <2>3. SumFunctionOnSet(Held(q), In(r, "reserved") \cup {i}) =
          SumFunctionOnSet(Held(q), In(r, "reserved")) + Held(q)[i]
    <3>. DEFINE f == Held(q)  D == In(r, "reserved")
    <3>1. IsFiniteSet(D) /\ i \notin D /\ f[i] \in Int /\ \A j \in D : f[j] \in Int
      BY <1>1, <2>1, <2>2
    <3>. HIDE DEF f, D
    <3>2. SumFunctionOnSet(f, D \cup {i}) = SumFunctionOnSet(f, D) + f[i] BY <3>1, SumPut
    <3>. QED BY <3>2 DEF f, D
  <2>. QED BY <2>1, <2>3
<1>4. /\ SumFunctionOnSet(Held(q), In(r, "reserved")) = SumFunctionOnSet(Held(r), In(r, "reserved"))
      /\ SumFunctionOnSet(Held(q), In(r, "unknown")) = SumFunctionOnSet(Held(r), In(r, "unknown"))
      /\ SumFunctionOnSet(Actual(q), In(r, "settled")) =
           SumFunctionOnSet(Actual(r), In(r, "settled"))
  <2>1. \A state : IsFiniteSet(In(r, state)) BY <1>1, ColumnSums
  <2>2. /\ \A j \in In(r, "reserved") : Held(q)[j] = Held(r)[j]
        /\ \A j \in In(r, "unknown") : Held(q)[j] = Held(r)[j]
        /\ \A j \in In(r, "settled") : Actual(q)[j] = Actual(r)[j]
    BY <1>1, <1>2
  <2>. QED BY <2>1, <2>2, SumAgree
<1>. QED BY <1>1, <1>3, <1>4 DEF Balanced

LEMMA SettleBalances ==
  ASSUME NEW r \in [Invocation -> Reservation], NEW q \in [Invocation -> Reservation],
         NEW a \in Account, NEW b, NEW i \in Invocation, NEW n \in Amount, Balanced(a, r),
         NEW from \in {"reserved", "unknown"},
         r[i].state = from, q[i].state = "settled", q[i].actual = n,
         \A j \in Invocation \ {i} : q[j] = r[j],
         b.spent = a.spent + n,
         b.reserved = IF from = "reserved" THEN a.reserved - r[i].held ELSE a.reserved,
         b.unknown = IF from = "unknown" THEN a.unknown - r[i].held ELSE a.unknown
  PROVE  Balanced(b, q)
<1>1. /\ In(q, "settled") = In(r, "settled") \cup {i} /\ i \notin In(r, "settled")
      /\ \A state \in {"reserved", "unknown"} :
           In(q, state) = IF state = from THEN In(r, state) \ {i} ELSE In(r, state)
      /\ \A state \in {"reserved", "unknown"} : i \in In(r, state) <=> state = from
      /\ \A state : In(r, state) \in SUBSET Invocation /\ In(q, state) \in SUBSET Invocation
  BY DEF In
<1>2. \A j \in Invocation \ {i} : Held(q)[j] = Held(r)[j] /\ Actual(q)[j] = Actual(r)[j]
  BY DEF Held, Actual
<1>3. SumFunctionOnSet(Actual(q), In(q, "settled")) =
        SumFunctionOnSet(Actual(r), In(r, "settled")) + n
  <2>1. Actual(q)[i] = n /\ n \in Int BY AmountAssumption DEF Actual
  <2>2. IsFiniteSet(In(r, "settled")) /\ \A j \in In(r, "settled") : Actual(q)[j] \in Int
    BY <1>1, ColumnSums
  <2>3. SumFunctionOnSet(Actual(q), In(r, "settled")) =
          SumFunctionOnSet(Actual(r), In(r, "settled"))
    BY <1>1, <1>2, <2>2, SumAgree
  <2>. QED BY <1>1, <2>1, <2>2, <2>3, SumPut
<1>4. ASSUME NEW state \in {"reserved", "unknown"}
      PROVE  SumFunctionOnSet(Held(q), In(q, state)) =
               IF state = from THEN SumFunctionOnSet(Held(r), In(r, state)) - r[i].held
               ELSE SumFunctionOnSet(Held(r), In(r, state))
  <2>1. /\ IsFiniteSet(In(r, state)) /\ IsFiniteSet(In(q, state))
        /\ \A j \in In(r, state) : Held(r)[j] \in Int
        /\ SumFunctionOnSet(Held(r), In(q, state)) \in Int
        /\ SumFunctionOnSet(Held(r), In(r, state)) \in Int
    BY <1>1, ColumnSums
  <2>2. SumFunctionOnSet(Held(q), In(q, state)) = SumFunctionOnSet(Held(r), In(q, state))
    BY <1>1, <1>2, <2>1, SumAgree
  <2>3. CASE state = from
    <3>1. i \in In(r, state) /\ In(q, state) = In(r, state) \ {i} BY <1>1, <2>3
    <3>2. SumFunctionOnSet(Held(r), In(r, state)) =
            Held(r)[i] + SumFunctionOnSet(Held(r), In(q, state))
      BY <2>1, <3>1, SumTake
    <3>3. Held(r)[i] = r[i].held BY DEF Held
    <3>4. Held(r)[i] \in Int BY <2>1, <3>1
    <3>. QED BY <2>1, <2>2, <2>3, <3>2, <3>3, <3>4
  <2>4. CASE state # from BY <1>1, <2>2, <2>4
  <2>. QED BY <2>3, <2>4
<1>5. /\ a.reserved = SumFunctionOnSet(Held(r), In(r, "reserved"))
      /\ a.unknown = SumFunctionOnSet(Held(r), In(r, "unknown"))
      /\ a.spent = SumFunctionOnSet(Actual(r), In(r, "settled"))
  BY DEF Balanced
<1>. QED BY <1>3, <1>4, <1>5 DEF Balanced

LEMMA CorrectBalances ==
  ASSUME NEW r \in [Invocation -> Reservation], NEW q \in [Invocation -> Reservation],
         NEW a \in Account, NEW b, NEW i \in Invocation, NEW n \in Amount, Balanced(a, r),
         r[i].state = "settled", q[i].state = "settled", q[i].actual = n,
         \A j \in Invocation \ {i} : q[j] = r[j],
         b.reserved = a.reserved, b.unknown = a.unknown, b.spent = a.spent + n - r[i].actual
  PROVE  Balanced(b, q)
<1>1. /\ \A state : In(q, state) = In(r, state) /\ In(r, state) \in SUBSET Invocation
      /\ i \in In(r, "settled") /\ i \notin In(r, "reserved") /\ i \notin In(r, "unknown")
  BY DEF In
<1>2. \A j \in Invocation \ {i} : Held(q)[j] = Held(r)[j] /\ Actual(q)[j] = Actual(r)[j]
  BY DEF Held, Actual
<1>3. SumFunctionOnSet(Actual(q), In(r, "settled")) =
        SumFunctionOnSet(Actual(r), In(r, "settled")) + n - r[i].actual
  <2>1. Actual(q)[i] = n /\ Actual(r)[i] = r[i].actual BY DEF Actual
  <2>2. /\ IsFiniteSet(In(r, "settled"))
        /\ \A j \in In(r, "settled") : Actual(q)[j] \in Int /\ Actual(r)[j] \in Int
    BY <1>1, ColumnSums
  <2>3. SumFunctionOnSet(Actual(q), In(r, "settled")) =
          SumFunctionOnSet(Actual(r), In(r, "settled")) + Actual(q)[i] - Actual(r)[i]
    BY <1>1, <1>2, <2>2, SumChange
  <2>. QED BY <2>1, <2>3
<1>4. ASSUME NEW state \in {"reserved", "unknown"}
      PROVE  SumFunctionOnSet(Held(q), In(r, state)) = SumFunctionOnSet(Held(r), In(r, state))
  <2>1. IsFiniteSet(In(r, state)) BY <1>1, ColumnSums
  <2>2. \A j \in In(r, state) : Held(q)[j] = Held(r)[j] BY <1>1, <1>2
  <2>. QED BY <2>1, <2>2, SumAgree
<1>. QED BY <1>1, <1>3, <1>4 DEF Balanced

LEMMA HoldBalances ==
  ASSUME NEW r \in [Invocation -> Reservation], NEW q \in [Invocation -> Reservation],
         NEW a \in Account, NEW b, NEW open \in SUBSET In(r, "reserved"), Balanced(a, r),
         \A j \in open : /\ q[j].state = "unknown" /\ q[j].held = r[j].held
                         /\ q[j].actual = r[j].actual,
         \A j \in Invocation \ open : q[j] = r[j],
         NEW held, held = SumFunctionOnSet(Held(r), open),
         b.reserved = a.reserved - held, b.unknown = a.unknown + held, b.spent = a.spent
  PROVE  Balanced(b, q)
<1>0. open \in SUBSET Invocation BY DEF In
<1>1. /\ In(q, "reserved") = In(r, "reserved") \ open
      /\ In(q, "unknown") \ open = In(r, "unknown") /\ open \subseteq In(q, "unknown")
      /\ In(q, "settled") = In(r, "settled")
      /\ \A state : In(r, state) \in SUBSET Invocation /\ In(q, state) \in SUBSET Invocation
  BY <1>0 DEF In
<1>2. Held(q) = Held(r) /\ Actual(q) = Actual(r) BY <1>0 DEF Held, Actual
<1>3. /\ \A state : IsFiniteSet(In(r, state)) /\ IsFiniteSet(In(q, state))
      /\ \A j \in Invocation : Held(r)[j] \in Int
      /\ SumFunctionOnSet(Held(r), open) \in Int
      /\ \A state : /\ SumFunctionOnSet(Held(r), In(r, state)) \in Int
                    /\ SumFunctionOnSet(Held(r), In(q, state)) \in Int
  BY <1>0, <1>1, ColumnSums
<1>3a. /\ \A j \in In(r, "reserved") : Held(r)[j] \in Int
       /\ \A j \in In(q, "unknown") : Held(r)[j] \in Int
  BY <1>1, <1>3
<1>4. SumFunctionOnSet(Held(r), In(r, "reserved")) =
        SumFunctionOnSet(Held(r), open) + SumFunctionOnSet(Held(r), In(r, "reserved") \ open)
  <2>. DEFINE f == Held(r)  D == In(r, "reserved")
  <2>1. IsFiniteSet(D) /\ open \in SUBSET D /\ \A j \in D : f[j] \in Int BY <1>3, <1>3a
  <2>. HIDE DEF f, D
  <2>. QED BY <2>1, SumSplit DEF f, D
<1>5. SumFunctionOnSet(Held(r), In(q, "unknown")) =
        SumFunctionOnSet(Held(r), open) + SumFunctionOnSet(Held(r), In(q, "unknown") \ open)
  <2>. DEFINE f == Held(r)  D == In(q, "unknown")
  <2>1. IsFiniteSet(D) /\ open \in SUBSET D /\ \A j \in D : f[j] \in Int BY <1>1, <1>3, <1>3a
  <2>. HIDE DEF f, D
  <2>. QED BY <2>1, SumSplit DEF f, D
<1>6. /\ a.reserved = SumFunctionOnSet(Held(r), In(r, "reserved"))
      /\ a.unknown = SumFunctionOnSet(Held(r), In(r, "unknown"))
      /\ a.spent = SumFunctionOnSet(Actual(r), In(r, "settled"))
  BY DEF Balanced
<1>7. a.reserved - held = SumFunctionOnSet(Held(q), In(q, "reserved"))
  <2>1. SumFunctionOnSet(Held(r), In(r, "reserved") \ open) \in Int BY <1>1, <1>3
  <2>2. \A x, y \in Int : (x + y) - x = y OBVIOUS
  <2>3. a.reserved - held =
          (SumFunctionOnSet(Held(r), open) + SumFunctionOnSet(Held(r), In(r, "reserved") \ open))
            - SumFunctionOnSet(Held(r), open)
    BY <1>4, <1>6
  <2>4. a.reserved - held = SumFunctionOnSet(Held(r), In(r, "reserved") \ open)
    BY <1>3, <2>1, <2>2, <2>3, Zenon
  <2>. QED BY <1>1, <1>2, <2>4
<1>8. a.unknown + held = SumFunctionOnSet(Held(q), In(q, "unknown"))
  <2>1. \A x, y \in Int : y + x = x + y OBVIOUS
  <2>2. SumFunctionOnSet(Held(r), In(q, "unknown")) =
          SumFunctionOnSet(Held(r), open) + SumFunctionOnSet(Held(r), In(r, "unknown"))
    BY <1>1, <1>5
  <2>3. a.unknown + held =
          SumFunctionOnSet(Held(r), In(r, "unknown")) + SumFunctionOnSet(Held(r), open)
    BY <1>6
  <2>4. a.unknown + held = SumFunctionOnSet(Held(r), In(q, "unknown"))
    BY <1>3, <2>1, <2>2, <2>3, Zenon
  <2>. QED BY <1>2, <2>4
<1>. QED BY <1>1, <1>2, <1>6, <1>7, <1>8 DEF Balanced
-----------------------------------------------------------------------------
(* What the events of an invocation and the counters of a task add up to.     *)

\* An invocation's reports are finitely many, and only one that is over has
\* reported anything but snapshots.
ReportsInv ==
  /\ usage \in [Task -> Int]
  /\ \A i \in Invocation : IsFiniteSet(events[i]) /\ \A e \in events[i] : e.delta \in Int
  /\ \A i \in Invocation : inv[i] = "running" => \A e \in events[i] : e.kind = "partial"

LEMMA TotalOf ==
  ASSUME NEW R, IsFiniteSet(R), \A e \in R : e.delta \in Int
  PROVE  /\ Total(R) \in Int
         /\ \A e : e \notin R /\ e.delta \in Int => Total(R \cup {e}) = Total(R) + e.delta
<1>. DEFINE f(S) == [e \in S |-> e.delta]
<1>1. Total(R) \in Int
  <2>1. \A e \in R : f(R)[e] \in Int OBVIOUS
  <2>. HIDE DEF f
  <2>. QED BY <2>1, SumInt DEF Total, f
<1>2. ASSUME NEW e, e \notin R, e.delta \in Int
      PROVE  Total(R \cup {e}) = Total(R) + e.delta
  <2>1. /\ f(R \cup {e})[e] = e.delta
        /\ \A d \in R : f(R \cup {e})[d] = f(R)[d] /\ f(R)[d] \in Int
        /\ \A S : Total(S) = SumFunctionOnSet(f(S), S)
    BY <1>2 DEF Total
  <2>. HIDE DEF f
  <2>2. SumFunctionOnSet(f(R \cup {e}), R \cup {e}) =
          SumFunctionOnSet(f(R \cup {e}), R) + f(R \cup {e})[e]
    <3>. DEFINE g == f(R \cup {e})
    <3>1. g[e] \in Int /\ \A d \in R : g[d] \in Int BY <1>2, <2>1
    <3>. HIDE DEF g
    <3>2. SumFunctionOnSet(g, R \cup {e}) = SumFunctionOnSet(g, R) + g[e] BY <1>2, <3>1, SumPut
    <3>. QED BY <3>2 DEF g
  <2>3. SumFunctionOnSet(f(R \cup {e}), R) = SumFunctionOnSet(f(R), R) BY <2>1, SumAgree
  <2>. QED BY <2>1, <2>2, <2>3
<1>. QED BY <1>1, <1>2

\* A table of totals that changes at one invocation.
LEMMA TaskCounts ==
  ASSUME NEW old, NEW new, NEW i \in Invocation, NEW t \in Task,
         \A j \in Invocation : old[j] \in Int /\ new[j] \in Int,
         \A j \in Invocation \ {i} : new[j] = old[j]
  PROVE  /\ SumFunctionOnSet(new, OfTask(t)) \in Int /\ SumFunctionOnSet(old, OfTask(t)) \in Int
         /\ SumFunctionOnSet(new, OfTask(t)) =
              IF t = TaskOf[i] THEN SumFunctionOnSet(old, OfTask(t)) + (new[i] - old[i])
              ELSE SumFunctionOnSet(old, OfTask(t))
<1>1. IsFiniteSet(OfTask(t)) /\ OfTask(t) \subseteq Invocation
  BY InvocationAssumption, FS_Subset DEF OfTask
<1>2. SumFunctionOnSet(new, OfTask(t)) \in Int /\ SumFunctionOnSet(old, OfTask(t)) \in Int
  BY <1>1, SumInt
<1>3. CASE t = TaskOf[i]
  <2>1. i \in OfTask(t) BY <1>3 DEF OfTask
  <2>2. SumFunctionOnSet(new, OfTask(t)) = SumFunctionOnSet(old, OfTask(t)) + new[i] - old[i]
    <3>. DEFINE D == OfTask(t)
    <3>1. /\ IsFiniteSet(D) /\ i \in D /\ \A j \in D : old[j] \in Int /\ new[j] \in Int
          /\ \A j \in D \ {i} : old[j] = new[j]
      BY <1>1, <2>1
    <3>. HIDE DEF D
    <3>. QED BY <3>1, SumChange DEF D
  <2>3. \A a, b, c \in Int : a + b - c = a + (b - c) OBVIOUS
  <2>4. new[i] \in Int /\ old[i] \in Int OBVIOUS
  <2>. QED BY <1>2, <1>3, <2>2, <2>3, <2>4, Zenon
<1>4. CASE t # TaskOf[i]
  <2>1. \A j \in OfTask(t) : new[j] = old[j] BY <1>4 DEF OfTask
  <2>2. SumFunctionOnSet(new, OfTask(t)) = SumFunctionOnSet(old, OfTask(t))
    BY <1>1, <2>1, SumAgree
  <2>. QED BY <1>2, <1>4, <2>2
<1>. QED BY <1>3, <1>4

\* The second part of ChargedAsReported, of any table of totals.
Counts(u, totals) == \A t \in Task : u[t] = SumFunctionOnSet(totals, OfTask(t))

LEMMA CountsNow ==
  (\A t \in Task : usage[t] = SumFunctionOnSet([i \in OfTask(t) |-> Total(events[i])], OfTask(t)))
    <=> Counts(usage, [i \in Invocation |-> Total(events[i])])
<1>. SUFFICES ASSUME NEW t \in Task
     PROVE  SumFunctionOnSet([i \in OfTask(t) |-> Total(events[i])], OfTask(t)) =
            SumFunctionOnSet([i \in Invocation |-> Total(events[i])], OfTask(t))
  BY DEF Counts
<1>1. IsFiniteSet(OfTask(t)) BY InvocationAssumption, FS_Subset DEF OfTask
<1>2. \A j \in OfTask(t) : [i \in OfTask(t) |-> Total(events[i])][j] =
                           [i \in Invocation |-> Total(events[i])][j]
  BY DEF OfTask
<1>. QED BY <1>1, <1>2, SumAgree

LEMMA CountsNext ==
  (\A t \in Task : usage'[t] = SumFunctionOnSet([i \in OfTask(t) |-> Total(events'[i])], OfTask(t)))
    <=> Counts(usage', [i \in Invocation |-> Total(events'[i])])
<1>. SUFFICES ASSUME NEW t \in Task
     PROVE  SumFunctionOnSet([i \in OfTask(t) |-> Total(events'[i])], OfTask(t)) =
            SumFunctionOnSet([i \in Invocation |-> Total(events'[i])], OfTask(t))
  BY DEF Counts
<1>1. IsFiniteSet(OfTask(t)) BY InvocationAssumption, FS_Subset DEF OfTask
<1>2. \A j \in OfTask(t) : [i \in OfTask(t) |-> Total(events'[i])][j] =
                           [i \in Invocation |-> Total(events'[i])][j]
  BY DEF OfTask
<1>. QED BY <1>1, <1>2, SumAgree

\* What a new report does to the totals and to the counters of the task.
LEMMA AppendCounts ==
  ASSUME AccountingInv, ReportsInv,
         Counts(usage, [j \in Invocation |-> Total(events[j])]),
         NEW i \in Invocation, NEW kind \in Kind, NEW n \in Amount, NEW evidence \in BOOLEAN,
         ~\E e \in events[i] : e.kind = kind /\ e.reported = n /\ e.evidence = evidence,
         Append(i, kind, n, evidence)
  PROVE  /\ usage' \in [Task -> Int]
         /\ \A j \in Invocation : IsFiniteSet(events'[j]) /\ \A e \in events'[j] : e.delta \in Int
         /\ Total(events'[i]) = n
         /\ Counts(usage', [j \in Invocation |-> Total(events'[j])])
<1>. DEFINE delta == n - Total(events[i])
            new == [kind |-> kind, reported |-> n, delta |-> delta, evidence |-> evidence]
<1>0. n \in Int /\ TaskOf[i] \in Task BY AmountAssumption, InvocationAssumption
<1>1. \A j \in Invocation : Total(events[j]) \in Int BY TotalOf DEF ReportsInv
<1>2. delta \in Int BY <1>0, <1>1
<1>3. new.kind = kind /\ new.evidence = evidence /\ new.reported = n /\ new.delta = delta
  OBVIOUS
<1>4. /\ events' = [events EXCEPT ![i] = @ \cup {new}]
      /\ usage' = [usage EXCEPT ![TaskOf[i]] = @ + delta]
  BY DEF Append, Increment
<1>. HIDE DEF new
<1>5. events'[i] = events[i] \cup {new} /\ \A j \in Invocation \ {i} : events'[j] = events[j]
  BY <1>4 DEF AccountingInv, TypeOK
<1>6. new \notin events[i] BY <1>3
<1>7. Total(events'[i]) = n
  <2>1. Total(events'[i]) = Total(events[i]) + delta
    BY <1>2, <1>3, <1>5, <1>6, TotalOf DEF ReportsInv
  <2>. QED BY <1>0, <1>1, <2>1
<1>8. \A j \in Invocation : IsFiniteSet(events'[j]) /\ \A e \in events'[j] : e.delta \in Int
  <2>1. IsFiniteSet(events[i] \cup {new}) BY FS_AddElement DEF ReportsInv
  <2>. QED BY <1>2, <1>3, <1>5, <2>1 DEF ReportsInv
<1>9. /\ usage' \in [Task -> Int] /\ usage'[TaskOf[i]] = usage[TaskOf[i]] + delta
      /\ \A t \in Task \ {TaskOf[i]} : usage'[t] = usage[t]
  <2>1. usage[TaskOf[i]] + delta \in Int BY <1>0, <1>2 DEF ReportsInv
  <2>. QED BY <1>0, <1>4, <2>1 DEF ReportsInv
<1>10. ASSUME NEW t \in Task
       PROVE  usage'[t] = SumFunctionOnSet([j \in Invocation |-> Total(events'[j])], OfTask(t))
  <2>. DEFINE before == [j \in Invocation |-> Total(events[j])]
              after == [j \in Invocation |-> Total(events'[j])]
  <2>1. /\ \A j \in Invocation : before[j] \in Int /\ after[j] \in Int
        /\ \A j \in Invocation \ {i} : after[j] = before[j]
        /\ after[i] - before[i] = delta
    BY <1>0, <1>1, <1>5, <1>7
  <2>2. usage[t] = SumFunctionOnSet(before, OfTask(t)) BY DEF Counts
  <2>. HIDE DEF before, after, delta
  <2>3. SumFunctionOnSet(after, OfTask(t)) =
          IF t = TaskOf[i] THEN SumFunctionOnSet(before, OfTask(t)) + (after[i] - before[i])
          ELSE SumFunctionOnSet(before, OfTask(t))
    BY <2>1, TaskCounts
  <2>4. usage'[t] = SumFunctionOnSet(after, OfTask(t)) BY <1>9, <2>1, <2>2, <2>3
  <2>. QED BY <2>4 DEF after
<1>. QED BY <1>7, <1>8, <1>9, <1>10 DEF Counts
-----------------------------------------------------------------------------
(* Everything adds up.                                                       *)

\* The inductive invariant behind AccountsAddUp.
LedgerInv == AccountsAddUp /\ ReportsInv

\* LedgerInv, part by part, in a form that is about whole tables.
Charged(r, totals) == \A i \in Invocation : r[i].state = "settled" => r[i].actual = totals[i]

LEMMA LedgerNow ==
  LedgerInv <=> /\ AccountingInv /\ ReportsInv
                /\ Balanced(account, reservation)
                /\ Charged(reservation, [i \in Invocation |-> Total(events[i])])
                /\ Counts(usage, [i \in Invocation |-> Total(events[i])])
<1>1. AccountingInv => (AccountBalances <=> Balanced(account, reservation))
  BY BalancedNow DEF AccountingInv, TypeOK
<1>2. ChargedAsReported <=> /\ Charged(reservation, [i \in Invocation |-> Total(events[i])])
                            /\ Counts(usage, [i \in Invocation |-> Total(events[i])])
  BY CountsNow DEF ChargedAsReported, Charged, InState
<1>. QED BY <1>1, <1>2 DEF LedgerInv, AccountsAddUp

LEMMA LedgerNext ==
  LedgerInv' <=> /\ AccountingInv' /\ ReportsInv'
                 /\ Balanced(account', reservation')
                 /\ Charged(reservation', [i \in Invocation |-> Total(events'[i])])
                 /\ Counts(usage', [i \in Invocation |-> Total(events'[i])])
<1>1. AccountingInv' => (AccountBalances' <=> Balanced(account', reservation'))
  BY BalancedNext DEF AccountingInv, TypeOK
<1>2. ChargedAsReported' <=> /\ Charged(reservation', [i \in Invocation |-> Total(events'[i])])
                             /\ Counts(usage', [i \in Invocation |-> Total(events'[i])])
  BY CountsNext DEF ChargedAsReported, Charged, InState
<1>. QED BY <1>1, <1>2 DEF LedgerInv, AccountsAddUp

LEMMA InitLedger == Init => LedgerInv
<1>. SUFFICES ASSUME Init PROVE LedgerInv OBVIOUS
<1>1. IsFiniteSet({}) BY FS_EmptySet
<1>2. \A f : SumFunctionOnSet(f, {}) = 0 BY <1>1, SumStep
<1>3. Total({}) = 0 BY <1>2 DEF Total
<1>4. ReportsInv BY <1>1 DEF Init, ReportsInv
<1>5. Balanced(account, reservation)
  <2>1. \A state \in {"reserved", "unknown", "settled"} : In(reservation, state) = {}
    BY DEF Init, NoReservation, In
  <2>. QED BY <1>2, <2>1 DEF Init, Balanced
<1>6. Charged(reservation, [i \in Invocation |-> Total(events[i])])
  BY DEF Init, NoReservation, Charged
<1>7. Counts(usage, [i \in Invocation |-> Total(events[i])])
  <2>. SUFFICES ASSUME NEW t \in Task
       PROVE  SumFunctionOnSet([i \in Invocation |-> Total(events[i])], OfTask(t)) = 0
    BY DEF Init, Counts
  <2>. DEFINE totals == [i \in Invocation |-> Total(events[i])]
  <2>1. IsFiniteSet(OfTask(t)) BY InvocationAssumption, FS_Subset DEF OfTask
  <2>2. \A j \in OfTask(t) : totals[j] = 0 BY <1>3 DEF Init, OfTask
  <2>. HIDE DEF totals
  <2>4. ASSUME NEW s \in SUBSET OfTask(t) PROVE SumFunctionOnSet(totals, s) = 0
    <3>1. IsFiniteSet(s) BY <2>1, FS_Subset
    <3>. DEFINE Bad == {u \in SUBSET s : SumFunctionOnSet(totals, u) # 0}
    <3>. SUFFICES ASSUME Bad # {} PROVE FALSE OBVIOUS
    <3>2. PICK u \in Bad : \A w \in SUBSET u : w # u => w \notin Bad
      <4>1. Bad \subseteq SUBSET s OBVIOUS
      <4>. HIDE DEF Bad
      <4>. QED BY <3>1, <4>1, Smallest
    <3>3. IsFiniteSet(u) /\ u \in SUBSET OfTask(t) BY <3>1, FS_Subset
    <3>4. u # {} BY <1>2
    <3>5. Pick(u) \in u BY <3>4, Picked
    <3>6. SumFunctionOnSet(totals, u \ {Pick(u)}) = 0 BY <3>2, <3>5
    <3>. QED BY <2>2, <3>3, <3>4, <3>5, <3>6, SumStep
  <2>. QED BY <2>4 DEF totals
<1>. QED BY <1>4, <1>5, <1>6, <1>7, InitAccounting, LedgerNow

\* What confirmed usage, and an outcome nobody knows, do to the books.
LEMMA ChargeBooks ==
  ASSUME TypeOK, Balanced(account, reservation), NEW i \in Invocation, NEW n \in Amount,
         Charge(i, n)
  PROVE  /\ Balanced(account', reservation')
         /\ reservation'[i].state = "settled" => reservation'[i].actual = n
<1>1. /\ reservation \in [Invocation -> Reservation] /\ account \in Account
      /\ reservation' \in [Invocation -> Reservation]
      /\ \A j \in Invocation \ {i} : reservation'[j] = reservation[j]
  BY ChargeEffect DEF TypeOK
<1>2. CASE Settle(i, n)
  <2>1. /\ reservation' = [reservation EXCEPT ![i].state = "settled", ![i].actual = n]
        /\ reservation[i].state \in {"reserved", "unknown"}
    BY <1>2 DEF Settle
  <2>2. reservation'[i].state = "settled" /\ reservation'[i].actual = n
    BY <1>1, <2>1 DEF Reservation
  <2>3. /\ account'.spent = account.spent + n
        /\ account'.reserved = IF reservation[i].state = "reserved"
                               THEN account.reserved - reservation[i].held ELSE account.reserved
        /\ account'.unknown = IF reservation[i].state = "unknown"
                              THEN account.unknown - reservation[i].held ELSE account.unknown
    BY <1>1, <1>2 DEF Settle, Account
  <2>. DEFINE r == reservation  q == reservation'  a == account  b == account'
              from == reservation[i].state
  <2>4. /\ r \in [Invocation -> Reservation] /\ q \in [Invocation -> Reservation]
        /\ a \in Account /\ Balanced(a, r) /\ from \in {"reserved", "unknown"}
        /\ r[i].state = from /\ q[i].state = "settled" /\ q[i].actual = n
        /\ \A j \in Invocation \ {i} : q[j] = r[j]
        /\ b.spent = a.spent + n
        /\ b.reserved = IF from = "reserved" THEN a.reserved - r[i].held ELSE a.reserved
        /\ b.unknown = IF from = "unknown" THEN a.unknown - r[i].held ELSE a.unknown
    BY <1>1, <2>1, <2>2, <2>3
  <2>. HIDE DEF r, q, a, b, from
  <2>5. Balanced(b, q) BY <2>4, SettleBalances
  <2>. QED BY <2>2, <2>5 DEF b, q
<1>3. CASE Correct(i, n)
  <2>1. /\ reservation' = [reservation EXCEPT ![i].actual = n]
        /\ account' = [account EXCEPT !.spent = @ + n - reservation[i].actual]
        /\ reservation[i].state = "settled"
    BY <1>3 DEF Correct
  <2>2. reservation'[i].state = "settled" /\ reservation'[i].actual = n
    BY <1>1, <2>1 DEF Reservation
  <2>3. /\ account'.spent = account.spent + n - reservation[i].actual
        /\ account'.reserved = account.reserved /\ account'.unknown = account.unknown
    BY <1>1, <2>1 DEF Account
  <2>. DEFINE r == reservation  q == reservation'  a == account  b == account'
  <2>4. /\ r \in [Invocation -> Reservation] /\ q \in [Invocation -> Reservation]
        /\ a \in Account /\ Balanced(a, r)
        /\ r[i].state = "settled" /\ q[i].state = "settled" /\ q[i].actual = n
        /\ \A j \in Invocation \ {i} : q[j] = r[j]
        /\ b.reserved = a.reserved /\ b.unknown = a.unknown
        /\ b.spent = a.spent + n - r[i].actual
    BY <1>1, <2>1, <2>2, <2>3
  <2>. HIDE DEF r, q, a, b
  <2>5. Balanced(b, q) BY <2>4, CorrectBalances
  <2>. QED BY <2>2, <2>5 DEF b, q
<1>4. CASE UNCHANGED <<account, reservation>> /\
           (reservation[i].state = "settled" => reservation[i].actual = n)
  BY <1>4
<1>. QED BY <1>2, <1>3, <1>4 DEF Charge

LEMMA HoldBooks ==
  ASSUME TypeOK, Balanced(account, reservation), NEW S \in SUBSET Invocation, Hold(S)
  PROVE  /\ Balanced(account', reservation')
         /\ \A j \in Invocation :
              reservation'[j].state = "settled" => reservation'[j] = reservation[j]
<1>. DEFINE open == {i \in S : reservation[i].state = "reserved"}
<1>1. /\ reservation \in [Invocation -> Reservation] /\ account \in Account
      /\ reservation' \in [Invocation -> Reservation]
  BY HoldEffect DEF TypeOK
<1>2. PICK held \in 0 .. account.reserved :
         /\ held = HeldBy(open)
         /\ reservation' = [i \in Invocation |->
              IF i \in open THEN [reservation[i] EXCEPT !.state = "unknown"] ELSE reservation[i]]
         /\ account' = [account EXCEPT !.reserved = @ - held, !.unknown = @ + held]
  BY DEF Hold
<1>3. open \in SUBSET In(reservation, "reserved") /\ open \in SUBSET Invocation BY DEF In
<1>4. held = SumFunctionOnSet(Held(reservation), open)
  BY <1>1, <1>2, <1>3, ColumnSums DEF HeldBy
<1>5. /\ \A j \in open : reservation'[j] = [reservation[j] EXCEPT !.state = "unknown"]
      /\ \A j \in Invocation \ open : reservation'[j] = reservation[j]
  BY <1>2, <1>3
<1>6. /\ account'.reserved = account.reserved - held /\ account'.unknown = account.unknown + held
      /\ account'.spent = account.spent
  BY <1>1, <1>2 DEF Account
<1>7. \A j \in open : /\ reservation'[j].state = "unknown"
                      /\ reservation'[j].held = reservation[j].held
                      /\ reservation'[j].actual = reservation[j].actual
  BY <1>1, <1>3, <1>5 DEF Reservation
<1>. HIDE DEF open
<1>8. Balanced(account', reservation')
  <2>. DEFINE r == reservation  q == reservation'  a == account  b == account'
  <2>1. /\ r \in [Invocation -> Reservation] /\ q \in [Invocation -> Reservation]
        /\ a \in Account /\ Balanced(a, r) /\ open \in SUBSET In(r, "reserved")
        /\ \A j \in open : /\ q[j].state = "unknown" /\ q[j].held = r[j].held
                           /\ q[j].actual = r[j].actual
        /\ \A j \in Invocation \ open : q[j] = r[j]
        /\ held = SumFunctionOnSet(Held(r), open)
        /\ b.reserved = a.reserved - held /\ b.unknown = a.unknown + held
        /\ b.spent = a.spent
    BY <1>1, <1>3, <1>4, <1>5, <1>6, <1>7
  <2>. HIDE DEF r, q, a, b
  <2>2. Balanced(b, q) BY <2>1, HoldBalances
  <2>. QED BY <2>2 DEF b, q
<1>. QED BY <1>5, <1>7, <1>8
-----------------------------------------------------------------------------
\* What the invariant says of a state, for the step lemmas.
LEMMA LedgerFacts ==
  ASSUME LedgerInv
  PROVE  /\ AccountingInv /\ ReportsInv /\ TypeOK /\ ConfirmedOnceOver
         /\ Balanced(account, reservation)
         /\ Charged(reservation, [i \in Invocation |-> Total(events[i])])
         /\ Counts(usage, [i \in Invocation |-> Total(events[i])])
BY LedgerNow DEF AccountingInv

\* Steps that report nothing and charge nothing.
LEMMA QuietLedger ==
  ASSUME LedgerInv, AccountingInv', UNCHANGED <<reservation, events, usage>>,
         account'.spent = account.spent, account'.reserved = account.reserved,
         account'.unknown = account.unknown,
         \A i \in Invocation : inv'[i] = "running" => inv[i] = "running" \/ events[i] = {}
  PROVE  LedgerInv'
<1>1. ReportsInv' BY LedgerFacts DEF ReportsInv
<1>2. Balanced(account', reservation') BY LedgerFacts DEF Balanced
<1>3. /\ Charged(reservation', [i \in Invocation |-> Total(events'[i])])
      /\ Counts(usage', [i \in Invocation |-> Total(events'[i])])
  BY LedgerFacts
<1>. QED BY <1>1, <1>2, <1>3, LedgerNext

\* Steps that turn holds into liabilities, and report nothing.
LEMMA HoldLedger ==
  ASSUME LedgerInv, AccountingInv', NEW S \in SUBSET Invocation, Hold(S),
         UNCHANGED <<events, usage>>,
         \A i \in Invocation : inv'[i] = "running" => inv[i] = "running"
  PROVE  LedgerInv'
<1>1. ReportsInv' BY LedgerFacts DEF ReportsInv
<1>2. /\ Balanced(account', reservation')
      /\ \A j \in Invocation : reservation'[j].state = "settled" => reservation'[j] = reservation[j]
  BY LedgerFacts, HoldBooks
<1>3. Charged(reservation', [i \in Invocation |-> Total(events'[i])])
  BY <1>2, LedgerFacts DEF Charged
<1>4. Counts(usage', [i \in Invocation |-> Total(events'[i])]) BY LedgerFacts
<1>. QED BY <1>1, <1>2, <1>3, <1>4, LedgerNext

\* Steps that add one new report, and charge what the reports then add up to, or
\* leave the charges alone.
NewReport(i, kind, n, evidence) ==
  ~\E e \in events[i] : e.kind = kind /\ e.reported = n /\ e.evidence = evidence
ChargedFor(i) ==
  \/ \E total \in Amount : total = Total(events'[i]) /\ Charge(i, total)
  \/ UNCHANGED <<account, reservation>> /\ reservation[i].state # "settled"

LEMMA ReportLedger ==
  ASSUME LedgerInv, AccountingInv', NEW i \in Invocation, NEW kind \in Kind, NEW n \in Amount,
         NEW evidence \in BOOLEAN, Append(i, kind, n, evidence), NewReport(i, kind, n, evidence),
         ChargedFor(i), \A j \in Invocation : inv'[j] = "running" => inv[j] = "running",
         inv'[i] = "running" => kind = "partial"
  PROVE  LedgerInv'
<1>. USE LedgerFacts
<1>1. /\ usage' \in [Task -> Int]
      /\ \A j \in Invocation : IsFiniteSet(events'[j]) /\ \A e \in events'[j] : e.delta \in Int
      /\ Total(events'[i]) = n
      /\ Counts(usage', [j \in Invocation |-> Total(events'[j])])
  BY AppendCounts DEF NewReport
<1>2. /\ \A j \in Invocation \ {i} : events'[j] = events[j]
      /\ \A e \in events'[i] \ events[i] : e.kind = kind
  BY AppendEffect
<1>3. ReportsInv' BY <1>1, <1>2 DEF ReportsInv
<1>4. /\ Balanced(account', reservation')
      /\ reservation'[i].state = "settled" => reservation'[i].actual = n
      /\ \A j \in Invocation \ {i} : reservation'[j] = reservation[j]
  <2>1. CASE UNCHANGED <<account, reservation>> /\ reservation[i].state # "settled" BY <2>1
  <2>2. CASE Charge(i, n) BY <2>2, ChargeBooks, ChargeEffect
  <2>. QED BY <1>1, <2>1, <2>2 DEF ChargedFor
<1>5. Charged(reservation', [j \in Invocation |-> Total(events'[j])])
  BY <1>1, <1>2, <1>4 DEF Charged
<1>. QED BY <1>1, <1>3, <1>4, <1>5, LedgerNext

LEMMA ReserveLedger ==
  ASSUME LedgerInv, AccountingInv', NEW i \in Invocation, Reserve(i)
  PROVE  LedgerInv'
<1>. USE LedgerFacts
<1>1. /\ account' \in Account /\ reservation' \in [Invocation -> Reservation]
      /\ \A j \in Invocation \ {i} : reservation'[j] = reservation[j]
      /\ reservation[i].state = "none" /\ reservation'[i].state \in {"none", "reserved"}
      /\ UNCHANGED <<inv, events, usage>>
  BY ReserveEffect DEF Reserve
<1>2. CASE UNCHANGED <<account, reservation>> BY <1>1, <1>2, QuietLedger
<1>3. ASSUME NEW tokens \in Amount, ReserveTokens(i, tokens) PROVE LedgerInv'
  <2>1. /\ reservation'[i].state = "reserved" /\ reservation'[i].held = tokens
        /\ account'.reserved = account.reserved + tokens
        /\ account'.unknown = account.unknown /\ account'.spent = account.spent
    BY <1>3 DEF ReserveTokens, HoldTokens, TypeOK, Account, Reservation
  <2>2. Balanced(account', reservation')
    <3>. DEFINE r == reservation  q == reservation'  a == account  b == account'
    <3>1. /\ r \in [Invocation -> Reservation] /\ q \in [Invocation -> Reservation]
          /\ a \in Account /\ Balanced(a, r)
          /\ r[i].state = "none" /\ q[i].state = "reserved" /\ q[i].held = tokens
          /\ \A j \in Invocation \ {i} : q[j] = r[j]
          /\ b.reserved = a.reserved + tokens /\ b.unknown = a.unknown /\ b.spent = a.spent
      BY <1>1, <2>1 DEF TypeOK
    <3>. HIDE DEF r, q, a, b
    <3>2. Balanced(b, q) BY <3>1, ReserveBalances
    <3>. QED BY <3>2 DEF b, q
  <2>3. Charged(reservation', [j \in Invocation |-> Total(events'[j])])
    BY <1>1, <2>1 DEF Charged
  <2>4. ReportsInv' BY <1>1 DEF ReportsInv
  <2>. QED BY <1>1, <2>2, <2>3, <2>4, LedgerNext
<1>. QED BY <1>2, <1>3 DEF Reserve

LEMMA RecordPartialLedger ==
  ASSUME LedgerInv, AccountingInv', NEW i \in Invocation, RecordPartial(i)
  PROVE  LedgerInv'
<1>1. PICK n \in Amount :
        /\ ~\E e \in events[i] : e.kind = "partial" /\ e.reported = n
        /\ Append(i, "partial", n, FALSE)
  BY DEF RecordPartial
<1>2. /\ UNCHANGED <<account, reservation, inv>> /\ reservation[i].state # "settled"
      /\ "partial" \in Kind /\ FALSE \in BOOLEAN
  BY LedgerFacts DEF RecordPartial, ConfirmedOnceOver, Kind
<1>3. NewReport(i, "partial", n, FALSE) /\ ChargedFor(i) BY <1>1, <1>2 DEF NewReport, ChargedFor
<1>4. \A j \in Invocation : inv'[j] = "running" => inv[j] = "running" BY <1>2
<1>. QED BY <1>1, <1>2, <1>3, <1>4, ReportLedger

LEMMA FinishLedger ==
  ASSUME LedgerInv, AccountingInv', NEW i \in Invocation, Finish(i)
  PROVE  LedgerInv'
<1>. USE LedgerFacts
<1>1. PICK n \in Amount \cup {NoUsage} :
        FinishRunning(i, n) \/ FinishLate(i, n) \/ FinishRefused(i, n)
  BY DEF Finish
<1>2. "final" \in Kind /\ "late" \in Kind /\ FALSE \in BOOLEAN /\ TRUE \in BOOLEAN BY DEF Kind
<1>3. CASE FinishRunning(i, n)
  <2>1. /\ inv[i] = "running" /\ inv'[i] # "running"
        /\ \A j \in Invocation \ {i} : inv'[j] = inv[j]
    BY <1>3 DEF FinishRunning, TypeOK
  <2>2. CASE n = NoUsage
    <3>1. Hold({i}) /\ UNCHANGED <<events, usage>>
      BY <1>3, <2>2 DEF FinishRunning
    <3>. QED BY <2>1, <3>1, HoldLedger
  <2>3. CASE n # NoUsage
    <3>1. /\ n \in Amount /\ Append(i, "final", n, FALSE)
          /\ \E total \in Amount : total = Total(events'[i]) /\ Charge(i, total)
      BY <1>3, <2>3 DEF FinishRunning
    <3>2. NewReport(i, "final", n, FALSE) /\ ChargedFor(i)
      BY <2>1, <3>1 DEF ReportsInv, NewReport, ChargedFor
    <3>3. \A j \in Invocation : inv'[j] = "running" => inv[j] = "running" BY <2>1
    <3>. QED BY <1>2, <2>1, <3>1, <3>2, <3>3, ReportLedger
  <2>. QED BY <2>2, <2>3
<1>4. CASE FinishLate(i, n)
  <2>1. /\ n \in Amount /\ Append(i, "late", n, TRUE)
        /\ \E total \in Amount : total = Total(events'[i]) /\ Charge(i, total)
        /\ inv[i] # "running" /\ UNCHANGED inv
    BY <1>4 DEF FinishLate
  <2>2. ~\E e \in events[i] : e.evidence BY <1>4 DEF FinishLate, Evidenced
  <2>3. NewReport(i, "late", n, TRUE) /\ ChargedFor(i) BY <2>1, <2>2 DEF NewReport, ChargedFor
  <2>4. \A j \in Invocation : inv'[j] = "running" => inv[j] = "running" BY <2>1
  <2>. QED BY <1>2, <2>1, <2>3, <2>4, ReportLedger
<1>5. CASE FinishRefused(i, n)
  BY <1>5, QuietLedger DEF FinishRefused
<1>. QED BY <1>1, <1>3, <1>4, <1>5

LEMMA ReconcileLedger ==
  ASSUME LedgerInv, AccountingInv', NEW i \in Invocation, OperatorReconcile(i)
  PROVE  LedgerInv'
<1>1. PICK n \in Amount :
        /\ Append(i, "reconcile", n, TRUE)
        /\ \E total \in Amount : total = Total(events'[i]) /\ Charge(i, total)
  BY DEF OperatorReconcile
<1>2. /\ ~\E e \in events[i] : e.kind = "reconcile"
      /\ inv[i] # "running" /\ UNCHANGED inv
      /\ "reconcile" \in Kind /\ TRUE \in BOOLEAN
  BY DEF OperatorReconcile, Reported, Kind
<1>3. \A j \in Invocation : inv'[j] = "running" => inv[j] = "running" BY <1>2
<1>4. NewReport(i, "reconcile", n, TRUE) /\ ChargedFor(i)
  BY <1>1, <1>2 DEF NewReport, ChargedFor
<1>. QED BY <1>1, <1>2, <1>3, <1>4, ReportLedger

LEMMA NextLedger == LedgerInv /\ [Next]_vars => LedgerInv'
<1>. SUFFICES ASSUME LedgerInv, [Next]_vars PROVE LedgerInv' OBVIOUS
<1>. USE LedgerFacts
<1>0. AccountingInv' BY NextKeeps
<1>1. CASE UNCHANGED vars BY <1>0, <1>1, QuietLedger DEF vars
<1>2. CASE ConfigureScope
  <2>1. /\ account'.spent = account.spent /\ account'.reserved = account.reserved
        /\ account'.unknown = account.unknown /\ UNCHANGED <<reservation, inv, events, usage>>
    BY <1>2 DEF ConfigureScope, TypeOK, Account
  <2>. QED BY <1>0, <2>1, QuietLedger
<1>3. ASSUME NEW i \in Invocation, Start(i) PROVE LedgerInv'
  <2>1. UNCHANGED <<account, reservation, events, usage>> BY <1>3 DEF Start
  <2>2. \A j \in Invocation : inv'[j] = "running" => inv[j] = "running" \/ events[j] = {}
    BY <1>3 DEF Start, TypeOK, ConfirmedOnceOver
  <2>. QED BY <1>0, <2>1, <2>2, QuietLedger
<1>4. ASSUME NEW i \in Invocation, Crash(i) PROVE LedgerInv'
  BY <1>0, <1>4, QuietLedger DEF Crash
<1>5. ASSUME NEW i \in Invocation, Reserve(i) PROVE LedgerInv' BY <1>0, <1>5, ReserveLedger
<1>6. ASSUME NEW i \in Invocation, RecordPartial(i) PROVE LedgerInv'
  BY <1>0, <1>6, RecordPartialLedger
<1>7. ASSUME NEW i \in Invocation, Finish(i) PROVE LedgerInv' BY <1>0, <1>7, FinishLedger
<1>8. ASSUME NEW i \in Invocation, OperatorReconcile(i) PROVE LedgerInv'
  BY <1>0, <1>8, ReconcileLedger
<1>9. ASSUME NEW t \in Task, Recover(t) PROVE LedgerInv'
  <2>1. /\ OfTask(t) \in SUBSET Invocation /\ Hold(OfTask(t)) /\ UNCHANGED <<events, usage>>
        /\ \A i \in Invocation : inv'[i] = "running" => inv[i] = "running"
    BY <1>9 DEF Recover, OfTask
  <2>. QED BY <1>0, <2>1, HoldLedger
<1>. QED BY <1>1, <1>2, <1>3, <1>4, <1>5, <1>6, <1>7, <1>8, <1>9 DEF Next, Execute

\* The columns of the account are what its reservations hold and were charged, a
\* settled reservation was charged what its events add up to, and the counters of
\* a task are what the events of its invocations add up to: after every order of
\* reservations, reports, crashes, recoveries and receipts (ledger.py; usage.py).
THEOREM BooksAddUp == Spec => []AccountsAddUp
<1>1. LedgerInv => AccountsAddUp BY DEF LedgerInv
<1>. QED BY <1>1, InitLedger, NextLedger, PTL DEF Spec

-----------------------------------------------------------------------------
(* Calls: the inductive invariant of ExecutorCalls.                           *)

Status == {"pending", "in_progress", "completed", "failed", "cancelled"}
Coroutine == [at : Where, attempt : Nat, failure : Failure \cup {NoFailure}, wait : Nat,
              progress : 0 .. MaxProgress]
Row == [status : Status, checkpoint : 0 .. MaxProgress, used : Nat, tier : Nat, dispatches : Nat]

\* The types of the rows and of the coroutines, field by field.
Typed ==
  /\ call \in [Call -> Coroutine] /\ task \in [Call -> Row]
  /\ cancelled \subseteq Call
  /\ asked \in [Call -> Int] /\ overrides \in [Call -> Nat]
GateTyped == breaker \in BreakerState /\ admission \in [Call -> {"none", "current", "stale"}]

\* What a coroutine x may be doing for the row r of a task: it counts its attempts
\* and their downgrades, and what it holds in memory is not behind what it saved.
Sound(c, x, r, stop, found, given) ==
  /\ x.attempt <= MaxAttempts[c] - 1
  /\ x.at \in {"idle", "prepare", "budget", "over"} => x.attempt = 0
  /\ x.attempt > 0 /\ x.at \in {"backoff", "loop", "ready", "calling"} => x.failure \in Declared
  /\ x.at = "backoff" => x.wait >= RetryAfter(x.failure) /\ x.wait <= BackoffMax
  /\ stop /\ x.at \in {"calling", "running"} => found = x.attempt
  /\ given = r.tier /\ r.tier < ChainLength
  /\ c \notin Resumable => x.progress = 0
  /\ c \in Resumable /\ x.at \in {"ready", "calling", "running", "failed"} =>
       r.checkpoint <= x.progress
SoundAt(c) == Sound(c, call[c], task[c], c \in cancelled, asked[c], overrides[c])
CoroutinesInv == Typed /\ \A c \in Call : SoundAt(c)

\* A call past the breaker is of its present generation, or of an earlier one.
Inside(c) == call[c].at \in Where \ {"idle", "prepare", "over"}
GateInv ==
  /\ GateTyped /\ ProbesAreFew
  /\ \A c \in Call : Inside(c) => admission[c] # "none"

IInv == CoroutinesInv /\ GateInv

\* The checked properties are parts of the inductive invariant.
LEMMA InvariantHolds == IInv => CallsInv /\ RetriesAreSafe
<1>. SUFFICES ASSUME IInv PROVE CallsInv /\ RetriesAreSafe OBVIOUS
<1>. USE CallsAssumption DEF IInv, CoroutinesInv, Typed
<1>1. ASSUME NEW c \in Call
      PROVE  /\ call[c].at \in Where /\ call[c].attempt \in Nat
             /\ call[c].failure \in Failure \cup {NoFailure} /\ call[c].wait \in Nat
             /\ call[c].progress \in 0 .. MaxProgress /\ task[c].checkpoint \in 0 .. MaxProgress
             /\ task[c].status \in Status
             /\ call[c].attempt <= MaxAttempts[c] - 1 /\ MaxAttempts[c] \in Nat
  BY DEF Coroutine, Row, SoundAt, Sound
<1>2. CallsTypeOK BY <1>1 DEF CallsTypeOK, GateInv, GateTyped, Status
<1>3. NoBlindReplay BY DEF NoBlindReplay, At, SoundAt, Sound
<1>4. CancelStopsRetries BY DEF CancelStopsRetries, InExecutor, SoundAt, Sound
<1>5. ChainEnds BY DEF ChainEnds, SoundAt, Sound
<1>. QED BY <1>2, <1>3, <1>4, <1>5 DEF CallsInv, RetriesAreSafe, GateInv

LEMMA InitHolds == CallsInit => IInv
<1>. SUFFICES ASSUME CallsInit PROVE IInv OBVIOUS
<1>. USE CallsAssumption DEF CallsInit
<1>1. Typed
  <2>1. Idle \in Coroutine BY DEF Coroutine, Idle, Where
  <2>2. [status |-> "pending", checkpoint |-> 0, used |-> 0, tier |-> 0, dispatches |-> 0] \in Row
    BY DEF Row, Status
  <2>. QED BY <2>1, <2>2 DEF Typed, NoAttempt
<1>2. \A c \in Call : SoundAt(c) BY DEF SoundAt, Sound, Idle
<1>3. GateTyped BY DEF GateTyped, BreakerState, Closed
<1>4. ProbesAreFew BY DEF ProbesAreFew, Closed
<1>5. \A c \in Call : ~Inside(c) BY DEF Inside, Idle
<1>. QED BY <1>1, <1>2, <1>3, <1>4, <1>5 DEF IInv, CoroutinesInv, GateInv

-----------------------------------------------------------------------------
(* The breaker.                                                               *)

\* The test calls that are waited for only become fewer when calls end, or when
\* their generation does.
LEMMA FewerAdmitted ==
  ASSUME \A c \in Call : Admitted(c)' => Admitted(c)
  PROVE  /\ Cardinality({c \in Call : Admitted(c)'}) <= Cardinality({c \in Call : Admitted(c)})
         /\ Cardinality({c \in Call : Admitted(c)'}) \in Nat
         /\ Cardinality({c \in Call : Admitted(c)}) \in Nat
<1>. DEFINE S == {c \in Call : Admitted(c)}  T == {c \in Call : Admitted(c)'}
<1>1. IsFiniteSet(S) /\ IsFiniteSet(T) /\ T \subseteq S BY CallsAssumption, FS_Subset
<1>. HIDE DEF S, T
<1>2. Cardinality(T) <= Cardinality(S) /\ Cardinality(T) \in Nat /\ Cardinality(S) \in Nat
  BY <1>1, FS_Subset, FS_CardinalityType
<1>. QED BY <1>2 DEF S, T

LEMMA NoneAdmitted ==
  ASSUME \A c \in Call : ~ Admitted(c)'
  PROVE  Cardinality({c \in Call : Admitted(c)'}) = 0
<1>1. {c \in Call : Admitted(c)'} = {} OBVIOUS
<1>. QED BY <1>1, FS_EmptySet

LEMMA HalfOpenForm ==
  ASSUME NEW b \in BreakerState, NEW s \in {"open", "half_open"},
         NEW p \in 0 .. HalfOpenMax, NEW d \in BOOLEAN
  PROVE  /\ [b EXCEPT !.state = s, !.probes = p, !.due = d] \in BreakerState
         /\ [b EXCEPT !.probes = p, !.due = d] \in BreakerState
BY DEF BreakerState

\* A look at the breaker, whoever takes it.
LEMMA CheckedGate ==
  ASSUME GateInv
  PROVE  /\ Checked(breaker) \in BreakerState
         /\ CheckedAdmissions \in [Call -> {"none", "current", "stale"}]
         /\ \A c \in Call : CheckedAdmissions[c] = "none" <=> admission[c] = "none"
         /\ \A c \in Call : CheckedAdmissions[c] = "current" => admission[c] = "current"
         /\ breaker.state = "closed" <=> Checked(breaker).state = "closed"
         /\ Checked(breaker).state = "open" => breaker.state = "open"
         /\ Checked(breaker).state = "closed" => Checked(breaker) = breaker
         /\ Checked(breaker).state = "half_open" =>
              \/ Checked(breaker) = breaker /\ CheckedAdmissions = admission
              \/ Checked(breaker).probes = 0 /\ breaker.state = "open"
              \/ /\ Checked(breaker).probes = 0
                 /\ \A c \in Call : CheckedAdmissions[c] # "current"
<1>0. /\ [breaker EXCEPT !.state = "half_open", !.probes = 0, !.due = FALSE] \in BreakerState
      /\ [breaker EXCEPT !.probes = 0, !.due = FALSE] \in BreakerState
  <2>1. 0 \in 0 .. HalfOpenMax /\ breaker \in BreakerState /\ FALSE \in BOOLEAN
    BY CallsAssumption DEF GateInv, GateTyped
  <2>2. "half_open" \in {"open", "half_open"} OBVIOUS
  <2>. QED BY <2>1, <2>2, HalfOpenForm, Zenon
<1>. USE CallsAssumption DEF GateInv, GateTyped, BreakerState
<1>1. CASE breaker.state = "open" /\ breaker.due
  <2>1. /\ Checked(breaker) = [breaker EXCEPT !.state = "half_open", !.probes = 0, !.due = FALSE]
        /\ CheckedAdmissions = admission
    BY <1>1 DEF Checked, CheckedAdmissions
  <2>2. Checked(breaker) \in BreakerState BY <1>0, <2>1
  <2>3. Checked(breaker).state = "half_open" /\ Checked(breaker).probes = 0 BY <2>1
  <2>. QED BY <1>1, <2>1, <2>2, <2>3
<1>2. CASE breaker.state = "half_open" /\ breaker.due
  <2>1. /\ Checked(breaker) = [breaker EXCEPT !.probes = 0, !.due = FALSE]
        /\ CheckedAdmissions = Aged
    BY <1>2 DEF Checked, CheckedAdmissions
  <2>2. Checked(breaker) \in BreakerState BY <1>0, <2>1
  <2>3. Checked(breaker).state = "half_open" /\ Checked(breaker).probes = 0 BY <1>2, <2>1
  <2>4. /\ Aged \in [Call -> {"none", "current", "stale"}]
        /\ \A c \in Call : Aged[c] # "current" /\ (Aged[c] = "none" <=> admission[c] = "none")
    BY DEF Aged
  <2>. QED BY <1>2, <2>1, <2>2, <2>3, <2>4
<1>3. CASE ~(breaker.state = "open" /\ breaker.due) /\ ~(breaker.state = "half_open" /\ breaker.due)
  BY <1>3 DEF Checked, CheckedAdmissions
<1>. QED BY <1>1, <1>2, <1>3

\* Whoever looks and lets nobody in leaves the bound on test calls as it was.
LEMMA LookKeepsGate ==
  ASSUME GateInv, breaker' = Checked(breaker), admission' = CheckedAdmissions,
         \A c \in Call : Inside(c)' => Inside(c)
  PROVE  GateInv'
<1>. USE CheckedGate
<1>1. GateTyped' BY DEF GateTyped
<1>2. \A c \in Call : Inside(c)' => admission'[c] # "none" BY DEF GateInv
<1>3. \A c \in Call : Admitted(c)' => Admitted(c) BY DEF Admitted, Inside
<1>4. breaker'.state = "half_open" => Cardinality({c \in Call : Admitted(c)'}) <= breaker'.probes
  <2>. SUFFICES ASSUME breaker'.state = "half_open"
       PROVE  Cardinality({c \in Call : Admitted(c)'}) <= breaker'.probes
    OBVIOUS
  <2>1. CASE breaker' = breaker
    <3>1. Cardinality({c \in Call : Admitted(c)}) <= breaker.probes
      BY <2>1 DEF GateInv, ProbesAreFew
    <3>2. breaker.probes \in Int BY CallsAssumption DEF GateInv, GateTyped, BreakerState
    <3>. QED BY <1>3, <2>1, <3>1, <3>2, FewerAdmitted
  <2>2. CASE breaker'.probes = 0 /\ \A c \in Call : ~ Admitted(c)'
    BY <2>2, NoneAdmitted
  <2>3. CASE breaker'.probes = 0 /\ breaker.state = "open"
    <3>1. \A c \in Call : ~ Admitted(c) BY <2>3 DEF GateInv, ProbesAreFew
    <3>. QED BY <1>3, <2>2, <2>3, <3>1
  <2>. QED BY <2>1, <2>2, <2>3 DEF Admitted
<1>5. ProbesAreFew'
  BY <1>3, <1>4 DEF ProbesAreFew, GateInv
<1>. QED BY <1>1, <1>2, <1>5 DEF GateInv

LEMMA SameBreakerKeepsGate ==
  ASSUME GateInv, SameBreaker, \A c \in Call : Inside(c)' => Inside(c)
  PROVE  GateInv'
<1>. USE DEF SameBreaker
<1>1. \A c \in Call : Admitted(c)' => Admitted(c) BY DEF Admitted, Inside
<1>2. breaker.state = "half_open" => Cardinality({c \in Call : Admitted(c)'}) <= breaker.probes
  <2>1. breaker.probes \in Int BY CallsAssumption DEF GateInv, GateTyped, BreakerState
  <2>. QED BY <1>1, <2>1, FewerAdmitted DEF GateInv, ProbesAreFew
<1>3. ProbesAreFew' BY <1>1, <1>2 DEF ProbesAreFew, GateInv
<1>. QED BY <1>3 DEF GateInv, GateTyped

LEMMA AgedGate ==
  ASSUME GateTyped
  PROVE  /\ Aged \in [Call -> {"none", "current", "stale"}]
         /\ \A c \in Call : Aged[c] # "current" /\ (Aged[c] = "none" <=> admission[c] = "none")
BY DEF GateTyped, Aged

LEMMA FailureKeepsGate ==
  ASSUME GateInv, NEW c \in Call, RecordFailure(c), \A d \in Call : Inside(d)' => Inside(d)
  PROVE  GateInv'
<1>. USE CallsAssumption
<1>0. GateTyped BY DEF GateInv
<1>1. CASE admission[c] = "stale"
  BY <1>1, SameBreakerKeepsGate DEF RecordFailure, SameBreaker
<1>. DEFINE n == Least(breaker.failures + 1, Threshold)
<1>2. n \in 0 .. Threshold BY <1>0 DEF GateTyped, BreakerState, Least
<1>. HIDE DEF n
<1>3. CASE admission[c] # "stale" /\ breaker.state = "closed" /\ n < Threshold
  <2>1. breaker' = [breaker EXCEPT !.failures = n] /\ UNCHANGED admission
    BY <1>3 DEF RecordFailure, n
  <2>2. GateTyped' /\ breaker'.state = "closed" /\ breaker'.failures = n
    BY <1>0, <1>2, <1>3, <2>1 DEF GateTyped, BreakerState
  <2>. QED BY <1>3, <2>1, <2>2 DEF GateInv, ProbesAreFew
<1>4. CASE admission[c] # "stale" /\ ~(breaker.state = "closed" /\ n < Threshold)
  <2>1. /\ breaker' = [state |-> "open", failures |-> n,
                       probes |-> IF breaker.state = "half_open" THEN 0 ELSE breaker.probes,
                       due |-> FALSE]
        /\ admission' = IF breaker.state = "open" THEN admission ELSE Aged
    BY <1>4 DEF RecordFailure, n
  <2>2. GateTyped' BY <1>0, <1>2, <2>1, AgedGate DEF GateTyped, BreakerState
  <2>3. \A d \in Call : ~ Admitted(d)'
    <3>1. CASE breaker.state = "open"
      BY <2>1, <3>1 DEF GateInv, ProbesAreFew, Admitted, Inside
    <3>2. CASE breaker.state # "open"
      BY <1>0, <2>1, <3>2, AgedGate DEF Admitted
    <3>. QED BY <3>1, <3>2
  <2>4. \A d \in Call : Inside(d)' => admission'[d] # "none"
    BY <1>0, <2>1, AgedGate DEF GateInv
  <2>. QED BY <2>1, <2>2, <2>3, <2>4 DEF GateInv, ProbesAreFew
<1>. QED BY <1>1, <1>3, <1>4

LEMMA ClosedKeepsGate ==
  ASSUME GateInv, breaker' = Closed, GateTyped',
         \A c \in Call : Inside(c)' => admission'[c] # "none"
  PROVE  GateInv'
BY CallsAssumption DEF GateInv, ProbesAreFew, Closed

LEMMA SuccessKeepsGate ==
  ASSUME GateInv, NEW c \in Call, RecordSuccess(c), \A d \in Call : Inside(d)' => Inside(d)
  PROVE  GateInv'
<1>1. CASE breaker' = Checked(breaker)
  BY <1>1, LookKeepsGate DEF RecordSuccess
<1>2. CASE breaker' = Closed
  <2>1. admission' = CheckedAdmissions BY DEF RecordSuccess
  <2>2. GateTyped' BY <1>2, <2>1, CallsAssumption, CheckedGate DEF GateTyped, BreakerState, Closed
  <2>3. \A d \in Call : Inside(d)' => admission'[d] # "none" BY <2>1, CheckedGate DEF GateInv
  <2>. QED BY <1>2, <2>2, <2>3, ClosedKeepsGate
<1>. QED BY <1>1, <1>2 DEF RecordSuccess

\* The one step that lets a call in counts it.
LEMMA AdmitKeepsGate ==
  ASSUME GateInv, NEW c \in Call, CanExecute(c), ~Inside(c),
         \A d \in Call \ {c} : Inside(d)' => Inside(d)
  PROVE  GateInv'
<1>. USE CallsAssumption
<1>. DEFINE b == Checked(breaker)
<1>0. /\ Allows(b)
      /\ breaker' = IF b.state = "closed" THEN b ELSE [b EXCEPT !.probes = @ + 1]
      /\ admission' = [CheckedAdmissions EXCEPT ![c] = "current"]
  BY DEF CanExecute
<1>1. /\ b \in BreakerState /\ CheckedAdmissions \in [Call -> {"none", "current", "stale"}]
      /\ \A d \in Call : CheckedAdmissions[d] = "none" <=> admission[d] = "none"
      /\ \A d \in Call : CheckedAdmissions[d] = "current" => admission[d] = "current"
  BY CheckedGate
<1>2. \A d \in Call : Inside(d)' => admission'[d] # "none" BY <1>0, <1>1 DEF GateInv
<1>3. CASE b.state = "closed"
  <2>1. breaker' = breaker BY <1>0, <1>3, CheckedGate
  <2>2. GateTyped' BY <1>0, <1>1, <1>3 DEF GateTyped
  <2>. QED BY <1>2, <1>3, <1>0, <2>1, <2>2 DEF GateInv, ProbesAreFew
<1>4. CASE b.state = "half_open" /\ b.probes < HalfOpenMax
  <2>1. /\ breaker'.state = "half_open" /\ breaker'.probes = b.probes + 1
        /\ breaker' \in BreakerState
    BY <1>0, <1>1, <1>4 DEF BreakerState
  <2>2. GateTyped' BY <1>0, <1>1, <2>1 DEF GateTyped
  <2>. DEFINE S == {d \in Call : Inside(d) /\ CheckedAdmissions[d] = "current"}
              T == {d \in Call : Admitted(d)'}
  <2>3. T \subseteq S \cup {c} BY <1>0, <1>1 DEF Admitted, Inside
  <2>4. IsFiniteSet(S) /\ c \notin S BY FS_Subset
  <2>5. Cardinality(S) <= b.probes
    <3>1. CASE b = breaker /\ CheckedAdmissions = admission
      <4>1. S = {d \in Call : Admitted(d)} BY <3>1 DEF Admitted, Inside
      <4>. QED BY <1>4, <3>1, <4>1 DEF GateInv, ProbesAreFew
    <3>2. CASE b.probes = 0 /\ S = {}
      <4>1. Cardinality(S) = 0 BY <3>2, FS_EmptySet, Zenon
      <4>. QED BY <3>2, <4>1
    <3>3. breaker.state = "open" => S = {}
      BY <1>1 DEF GateInv, ProbesAreFew, Admitted, Inside
    <3>. QED BY <1>4, <3>1, <3>2, <3>3, CheckedGate
  <2>6. Cardinality(T) <= Cardinality(S) + 1
    <3>. HIDE DEF S, T
    <3>1. IsFiniteSet(S \cup {c}) /\ Cardinality(S \cup {c}) = Cardinality(S) + 1
      BY <2>4, FS_AddElement
    <3>. QED BY <2>3, <3>1, FS_Subset
  <2>7. Cardinality(S) \in Int /\ Cardinality(T) \in Int /\ b.probes \in Int
    <3>1. IsFiniteSet(T) BY FS_Subset
    <3>2. b.probes \in Int BY <1>1 DEF BreakerState
    <3>. HIDE DEF S, T, b
    <3>. QED BY <2>4, <3>1, <3>2, FS_CardinalityType
  <2>8. Cardinality(T) <= breaker'.probes
    <3>. HIDE DEF S, T, b
    <3>. QED BY <2>1, <2>5, <2>6, <2>7
  <2>. QED BY <1>2, <2>1, <2>2, <2>8 DEF GateInv, ProbesAreFew
<1>. QED BY <1>0, <1>3, <1>4 DEF Allows

-----------------------------------------------------------------------------
(* The coroutines.                                                            *)

\* A step of one call: the invariant holds after it, no other call moves, and what
\* was saved is only given up with the task completed.
Moves(c) ==
  /\ CoroutinesInv'
  /\ \A d \in Call \ {c} : call'[d] = call[d] /\ task'[d] = task[d]
  /\ task'[c].checkpoint < task[c].checkpoint => task'[c].status = "completed"
Stays(c) == Inside(c)' => Inside(c)

LEMMA SoundStep ==
  ASSUME CoroutinesInv, NEW c \in Call, NEW x \in Coroutine, NEW r \in Row, NEW n \in Nat,
         call' = [call EXCEPT ![c] = x], task' = [task EXCEPT ![c] = r],
         overrides' = [overrides EXCEPT ![c] = n], UNCHANGED <<cancelled, asked>>,
         Sound(c, x, r, c \in cancelled, asked[c], n),
         r.checkpoint >= task[c].checkpoint \/ r.status = "completed"
  PROVE  Moves(c) /\ call'[c] = x /\ task'[c] = r
<1>. USE DEF CoroutinesInv, Typed
<1>1. /\ call'[c] = x /\ task'[c] = r /\ overrides'[c] = n
      /\ \A d \in Call \ {c} : /\ call'[d] = call[d] /\ task'[d] = task[d]
                               /\ overrides'[d] = overrides[d]
  OBVIOUS
<1>2. Typed' OBVIOUS
<1>3. ASSUME NEW d \in Call PROVE SoundAt(d)'
  <2>1. CASE d = c BY <1>1, <2>1 DEF SoundAt
  <2>2. CASE d # c
    <3>1. SoundAt(d) /\ call'[d] = call[d] /\ task'[d] = task[d] /\ overrides'[d] = overrides[d]
      BY <1>1, <2>2
    <3>. QED BY <3>1 DEF SoundAt
  <2>. QED BY <2>1, <2>2
<1>4. task'[c].checkpoint < task[c].checkpoint => task'[c].status = "completed"
  <2>1. r.checkpoint \in Int /\ task[c].checkpoint \in Int BY CallsAssumption DEF Row
  <2>. QED BY <1>1, <2>1
<1>. QED BY <1>1, <1>2, <1>3, <1>4 DEF Moves

\* Steps of the coroutine alone.
LEMMA CallStep ==
  ASSUME CoroutinesInv, NEW c \in Call, NEW x \in Coroutine,
         call' = [call EXCEPT ![c] = x], UNCHANGED <<task, cancelled, asked, overrides>>,
         Sound(c, x, task[c], c \in cancelled, asked[c], overrides[c])
  PROVE  Moves(c) /\ call'[c] = x
<1>1. /\ task' = [task EXCEPT ![c] = task[c]] /\ task[c] \in Row /\ overrides[c] \in Nat
      /\ overrides' = [overrides EXCEPT ![c] = overrides[c]]
  BY DEF CoroutinesInv, Typed
<1>2. task[c].checkpoint >= task[c].checkpoint BY <1>1, CallsAssumption DEF Row
<1>. QED BY <1>1, <1>2, SoundStep

\* A call that ends leaves nothing behind but the status of its task.
LEMMA EndStep ==
  ASSUME CoroutinesInv, NEW c \in Call, NEW status \in Status, Ends(c, status),
         UNCHANGED <<cancelled, asked, overrides>>
  PROVE  Moves(c) /\ call'[c].at = "over" /\ task'[c].status = status
<1>. DEFINE x == [Idle EXCEPT !.at = "over"]  r == [task[c] EXCEPT !.status = status]
<1>0. SoundAt(c) /\ task[c] \in Row /\ overrides[c] \in Nat BY DEF CoroutinesInv, Typed
<1>1. x = [at |-> "over", attempt |-> 0, failure |-> NoFailure, wait |-> 0, progress |-> 0]
  BY DEF Idle
<1>2. x \in Coroutine BY <1>1, CallsAssumption DEF Coroutine, Where
<1>3. /\ r \in Row /\ r.tier = task[c].tier /\ r.status = status
      /\ r.checkpoint = task[c].checkpoint /\ r.checkpoint \in Int
  BY <1>0, CallsAssumption DEF Row
<1>4. Sound(c, x, r, c \in cancelled, asked[c], overrides[c])
  BY <1>0, <1>1, <1>3, CallsAssumption DEF SoundAt, Sound
<1>5. /\ call' = [call EXCEPT ![c] = x] /\ task' = [task EXCEPT ![c] = r]
      /\ overrides' = [overrides EXCEPT ![c] = overrides[c]]
  BY DEF Ends, CoroutinesInv, Typed
<1>6. x.at = "over" BY <1>1
<1>. HIDE DEF x, r
<1>7. r.checkpoint >= task[c].checkpoint BY <1>3
<1>8. Moves(c) /\ call'[c] = x /\ task'[c] = r BY <1>0, <1>2, <1>3, <1>4, <1>5, <1>7, SoundStep
<1>. QED BY <1>3, <1>6, <1>8

LEMMA GoForm ==
  ASSUME NEW x \in Coroutine, NEW where \in Where
  PROVE  /\ [x EXCEPT !.at = where] \in Coroutine /\ [x EXCEPT !.at = where].at = where
         /\ [x EXCEPT !.at = where].attempt = x.attempt
         /\ [x EXCEPT !.at = where].failure = x.failure
         /\ [x EXCEPT !.at = where].wait = x.wait
         /\ [x EXCEPT !.at = where].progress = x.progress
BY DEF Coroutine

\* A call that goes on to where it may go.
LEMMA GoStep ==
  ASSUME CoroutinesInv, NEW c \in Call, NEW where \in Where, Go(c, where),
         UNCHANGED <<task, cancelled, asked, overrides>>,
         \/ where = "budget" /\ At(c, "prepare")
         \/ where = "calling" /\ At(c, "ready") /\ c \notin cancelled
         \/ where = "running" /\ At(c, "calling")
         \/ where = "settle" /\ call[c].at \in {"ready", "running"}
  PROVE  Moves(c) /\ call'[c].at = where
<1>. DEFINE x == [call[c] EXCEPT !.at = where]
<1>0. SoundAt(c) /\ call[c] \in Coroutine BY DEF CoroutinesInv, Typed
<1>1. /\ x \in Coroutine /\ x.at = where /\ x.attempt = call[c].attempt
      /\ x.failure = call[c].failure /\ x.wait = call[c].wait /\ x.progress = call[c].progress
  BY <1>0, GoForm
<1>2. call' = [call EXCEPT ![c] = x] BY DEF Go
<1>. HIDE DEF x
<1>3. Sound(c, x, task[c], c \in cancelled, asked[c], overrides[c])
  BY <1>0, <1>1 DEF SoundAt, Sound, At
<1>. QED BY <1>1, <1>2, <1>3, CallStep

LEMMA DispatchMoves ==
  ASSUME CoroutinesInv, NEW c \in Call, Dispatch(c)
  PROVE  Moves(c) /\ Stays(c)
<1>. DEFINE x == [call[c] EXCEPT !.at = "prepare"]
            r == [task[c] EXCEPT !.status = "in_progress", !.dispatches = @ + 1]
<1>0. SoundAt(c) /\ call[c] \in Coroutine /\ task[c] \in Row /\ overrides[c] \in Nat
  BY DEF CoroutinesInv, Typed
<1>1. /\ x \in Coroutine /\ x.at = "prepare" /\ x.attempt = call[c].attempt
      /\ x.failure = call[c].failure /\ x.wait = call[c].wait /\ x.progress = call[c].progress
  BY <1>0, GoForm DEF Where
<1>2. /\ r \in Row /\ r.tier = task[c].tier /\ r.checkpoint = task[c].checkpoint
      /\ r.checkpoint \in Int
  <2>1. \A n \in Nat : /\ [task[c] EXCEPT !.status = "in_progress", !.dispatches = n] \in Row
                       /\ [task[c] EXCEPT !.status = "in_progress", !.dispatches = n].tier =
                            task[c].tier
                       /\ [task[c] EXCEPT !.status = "in_progress", !.dispatches = n].checkpoint =
                            task[c].checkpoint
    BY <1>0 DEF Row, Status
  <2>2. task[c].dispatches + 1 \in Nat /\ task[c].checkpoint \in Int
    BY <1>0, CallsAssumption DEF Row
  <2>. QED BY <2>1, <2>2, Zenon
<1>3. /\ call' = [call EXCEPT ![c] = x] /\ task' = [task EXCEPT ![c] = r]
      /\ overrides' = [overrides EXCEPT ![c] = overrides[c]]
      /\ UNCHANGED <<cancelled, asked>> /\ call[c].at \in {"idle", "over"}
  BY DEF Dispatch, Go, SameHistory, CoroutinesInv, Typed
<1>. HIDE DEF x, r
<1>4. Sound(c, x, r, c \in cancelled, asked[c], overrides[c])
  BY <1>0, <1>1, <1>2, <1>3, CallsAssumption DEF SoundAt, Sound
<1>5. r.checkpoint >= task[c].checkpoint BY <1>2
<1>6. Moves(c) /\ call'[c] = x BY <1>0, <1>1, <1>2, <1>3, <1>4, <1>5, SoundStep
<1>. QED BY <1>1, <1>6 DEF Stays, Inside

LEMMA PassMoves ==
  ASSUME CoroutinesInv, NEW c \in Call, Pass(c)
  PROVE  Moves(c) /\ Stays(c)
<1>. DEFINE x == [call[c] EXCEPT !.at = "loop"]
            tier == IF Downgrades(c) THEN task[c].tier + 1 ELSE task[c].tier
            r == [task[c] EXCEPT !.tier = tier]
            n == IF Downgrades(c) THEN overrides[c] + 1 ELSE overrides[c]
<1>0. SoundAt(c) /\ call[c] \in Coroutine /\ task[c] \in Row /\ overrides[c] \in Nat
  BY DEF CoroutinesInv, Typed
<1>1. /\ x \in Coroutine /\ x.at = "loop" /\ x.attempt = call[c].attempt
      /\ x.failure = call[c].failure /\ x.wait = call[c].wait /\ x.progress = call[c].progress
  BY <1>0, GoForm DEF Where
<1>2. /\ task[c].tier \in Nat /\ overrides[c] = task[c].tier /\ task[c].tier < ChainLength
  BY <1>0 DEF SoundAt, Sound, Row
<1>3. tier \in Nat /\ n = tier /\ tier < ChainLength BY <1>2 DEF Downgrades
<1>4. /\ r \in Row /\ r.tier = tier /\ r.checkpoint = task[c].checkpoint /\ r.checkpoint \in Int
  <2>. HIDE DEF tier
  <2>. QED BY <1>0, <1>3, CallsAssumption DEF Row
<1>5. /\ call' = [call EXCEPT ![c] = x] /\ task' = [task EXCEPT ![c] = r]
      /\ overrides' = [overrides EXCEPT ![c] = n]
      /\ UNCHANGED <<cancelled, asked>> /\ call[c].at = "budget"
  BY DEF Pass, Go, At, CoroutinesInv, Typed
<1>. HIDE DEF x, r, n, tier
<1>6. Sound(c, x, r, c \in cancelled, asked[c], n)
  BY <1>0, <1>1, <1>3, <1>4, <1>5, CallsAssumption DEF SoundAt, Sound
<1>7. r.checkpoint >= task[c].checkpoint /\ n \in Nat BY <1>3, <1>4
<1>8. Moves(c) BY <1>1, <1>4, <1>5, <1>6, <1>7, SoundStep
<1>. QED BY <1>5, <1>8 DEF Stays, Inside, Where

LEMMA BeginMoves ==
  ASSUME CoroutinesInv, NEW c \in Call, Begin(c)
  PROVE  Moves(c) /\ Stays(c)
<1>. DEFINE x == [call[c] EXCEPT !.at = "ready", !.progress = Loaded(c)]
<1>0. SoundAt(c) /\ call[c] \in Coroutine /\ task[c] \in Row BY DEF CoroutinesInv, Typed
<1>1. Loaded(c) \in 0 .. MaxProgress BY <1>0, CallsAssumption DEF Loaded, Row
<1>2. /\ x \in Coroutine /\ x.at = "ready" /\ x.attempt = call[c].attempt
      /\ x.failure = call[c].failure /\ x.wait = call[c].wait /\ x.progress = Loaded(c)
  BY <1>0, <1>1 DEF Coroutine, Where
<1>3. /\ call' = [call EXCEPT ![c] = x] /\ call[c].at = "loop"
      /\ UNCHANGED <<task, cancelled, asked, overrides>>
  BY DEF Begin, At, SameHistory
<1>. HIDE DEF x
<1>4. task[c].checkpoint \in Int BY <1>0, CallsAssumption DEF Row
<1>5. Sound(c, x, task[c], c \in cancelled, asked[c], overrides[c])
  BY <1>0, <1>2, <1>3, <1>4 DEF SoundAt, Sound, Loaded
<1>6. Moves(c) BY <1>2, <1>3, <1>5, CallStep
<1>. QED BY <1>3, <1>6 DEF Stays, Inside, Where

LEMMA NoExecutorMoves ==
  ASSUME CoroutinesInv, NEW c \in Call, NoExecutor(c)
  PROVE  Moves(c) /\ Stays(c)
<1>1. PICK f \in LoadFailure : call' = [call EXCEPT ![c].at = "failed", ![c].failure = f]
  BY DEF NoExecutor
<1>. DEFINE x == [call[c] EXCEPT !.at = "failed", !.failure = f]
<1>0. SoundAt(c) /\ call[c] \in Coroutine BY DEF CoroutinesInv, Typed
<1>2. /\ x \in Coroutine /\ x.at = "failed" /\ x.attempt = call[c].attempt
      /\ x.wait = call[c].wait /\ x.progress = call[c].progress
  BY <1>0 DEF Coroutine, Where, LoadFailure, Failure
<1>3. /\ call' = [call EXCEPT ![c] = x] /\ call[c].at = "ready"
      /\ UNCHANGED <<task, cancelled, asked, overrides>>
  BY <1>1 DEF NoExecutor, At, SameHistory
<1>. HIDE DEF x
<1>4. Sound(c, x, task[c], c \in cancelled, asked[c], overrides[c])
  BY <1>0, <1>2, <1>3 DEF SoundAt, Sound
<1>5. Moves(c) BY <1>2, <1>3, <1>4, CallStep
<1>. QED BY <1>3, <1>5 DEF Stays, Inside, Where

LEMMA SpentType ==
  ASSUME NEW c \in Call, task[c] \in Row
  PROVE  Spent(c) \in Nat /\ [task[c] EXCEPT !.used = Spent(c)] \in Row
         /\ [task[c] EXCEPT !.used = Spent(c)].tier = task[c].tier
         /\ [task[c] EXCEPT !.used = Spent(c)].checkpoint = task[c].checkpoint
         /\ task[c].checkpoint \in Int
<1>1. Budget[c] \in Nat \cup {Unlimited} /\ task[c].used \in Nat BY CallsAssumption DEF Row
<1>2. Spent(c) \in Nat BY <1>1 DEF Spent, Least
<1>3. task[c].checkpoint \in Int BY CallsAssumption DEF Row
<1>. QED BY <1>2, <1>3 DEF Row

LEMMA SucceedMoves ==
  ASSUME CoroutinesInv, NEW c \in Call, Succeed(c)
  PROVE  Moves(c) /\ Stays(c)
<1>. DEFINE x == [call[c] EXCEPT !.at = "settle"]  r == [task[c] EXCEPT !.used = Spent(c)]
<1>0. SoundAt(c) /\ call[c] \in Coroutine /\ task[c] \in Row /\ overrides[c] \in Nat
  BY DEF CoroutinesInv, Typed
<1>1. /\ x \in Coroutine /\ x.at = "settle" /\ x.attempt = call[c].attempt
      /\ x.failure = call[c].failure /\ x.wait = call[c].wait /\ x.progress = call[c].progress
  BY <1>0, GoForm DEF Where
<1>2. /\ r \in Row /\ r.tier = task[c].tier /\ r.checkpoint = task[c].checkpoint
      /\ r.checkpoint \in Int
  BY <1>0, SpentType
<1>3. /\ call' = [call EXCEPT ![c] = x] /\ task' = [task EXCEPT ![c] = r]
      /\ overrides' = [overrides EXCEPT ![c] = overrides[c]]
      /\ UNCHANGED <<cancelled, asked>> /\ call[c].at = "running"
  BY DEF Succeed, Go, At, SameHistory, CoroutinesInv, Typed
<1>. HIDE DEF x, r
<1>4. Sound(c, x, r, c \in cancelled, asked[c], overrides[c])
  BY <1>0, <1>1, <1>2, <1>3 DEF SoundAt, Sound
<1>5. r.checkpoint >= task[c].checkpoint BY <1>2
<1>6. Moves(c) BY <1>0, <1>1, <1>2, <1>3, <1>4, <1>5, SoundStep
<1>. QED BY <1>3, <1>6 DEF Stays, Inside, Where

LEMMA FailAttemptMoves ==
  ASSUME CoroutinesInv, NEW c \in Call, FailAttempt(c)
  PROVE  Moves(c) /\ Stays(c)
<1>0. SoundAt(c) /\ call[c] \in Coroutine /\ task[c] \in Row /\ overrides[c] \in Nat
  BY DEF CoroutinesInv, Typed
<1>1. PICK f \in Failure, p \in IF c \in Resumable THEN call[c].progress .. MaxProgress ELSE {0} :
        call' = [call EXCEPT ![c].at = "failed", ![c].failure = f, ![c].progress = p]
  BY DEF FailAttempt
<1>. DEFINE x == [call[c] EXCEPT !.at = "failed", !.failure = f, !.progress = p]
            r == [task[c] EXCEPT !.used = Spent(c)]
<1>2. p \in 0 .. MaxProgress /\ (c \in Resumable => p >= call[c].progress) /\ call[c].progress \in Int
  BY <1>0, CallsAssumption DEF Coroutine
<1>3. /\ x \in Coroutine /\ x.at = "failed" /\ x.attempt = call[c].attempt
      /\ x.wait = call[c].wait /\ x.progress = p
  BY <1>0, <1>2 DEF Coroutine, Where
<1>4. /\ r \in Row /\ r.tier = task[c].tier /\ r.checkpoint = task[c].checkpoint
      /\ r.checkpoint \in Int
  BY <1>0, SpentType
<1>5. /\ call' = [call EXCEPT ![c] = x] /\ task' = [task EXCEPT ![c] = r]
      /\ overrides' = [overrides EXCEPT ![c] = overrides[c]]
      /\ UNCHANGED <<cancelled, asked>> /\ call[c].at = "running"
  BY <1>1 DEF FailAttempt, At, SameHistory, CoroutinesInv, Typed
<1>. HIDE DEF x, r
<1>6. Sound(c, x, r, c \in cancelled, asked[c], overrides[c])
  <2>1. c \in Resumable => r.checkpoint <= p BY <1>0, <1>2, <1>4, <1>5 DEF SoundAt, Sound
  <2>2. c \notin Resumable => p = 0 BY <1>1
  <2>. QED BY <1>0, <1>3, <1>4, <1>5, <2>1, <2>2 DEF SoundAt, Sound
<1>7. r.checkpoint >= task[c].checkpoint BY <1>4
<1>8. Moves(c) BY <1>0, <1>3, <1>4, <1>5, <1>6, <1>7, SoundStep
<1>. QED BY <1>5, <1>8 DEF Stays, Inside, Where

\* The wait before a retry is what the server asked for or the jittered backoff,
\* and not above the ceiling.
LEMMA WaitBounds ==
  ASSUME NEW c \in Call, call[c] \in Coroutine, NEW d \in Jittered(c),
         NEW f \in Failure, CanRetry(f)
  PROVE  /\ Greatest(d, RetryAfter(f)) \in Nat
         /\ RetryAfter(f) <= Greatest(d, RetryAfter(f))
         /\ Greatest(d, RetryAfter(f)) <= BackoffMax
<1>. USE CallsAssumption
<1>1. BackoffBase \in Int /\ BackoffMax \in Nat /\ call[c].attempt \in Nat BY DEF Coroutine
<1>2. Backoff(c) \in Int
  <2>1. 2 ^ call[c].attempt \in Int BY <1>1
  <2>2. BackoffBase * 2 ^ call[c].attempt \in Int
    <3>1. \A a, b \in Int : a * b \in Int OBVIOUS
    <3>. QED BY <1>1, <2>1, <3>1, Zenon
  <2>3. BackoffBase * (call[c].attempt + 1) \in Int
    <3>1. call[c].attempt + 1 \in Int BY <1>1
    <3>2. \A a, b \in Int : a * b \in Int OBVIOUS
    <3>. QED BY <1>1, <3>1, <3>2, Zenon
  <2>4. Strategy[c] \in {"fixed", "exponential", "linear"} OBVIOUS
  <2>5. CASE Strategy[c] = "fixed" BY <1>1, <2>5 DEF Backoff, Least
  <2>6. CASE Strategy[c] = "exponential"
    <3>1. Backoff(c) = Least(BackoffMax, BackoffBase * 2 ^ call[c].attempt)
      BY <2>6 DEF Backoff
    <3>2. \A a, b \in Int : Least(a, b) \in Int BY DEF Least
    <3>3. BackoffMax \in Int BY <1>1
    <3>. QED BY <2>2, <3>1, <3>2, <3>3, Zenon
  <2>7. CASE Strategy[c] = "linear"
    <3>1. Backoff(c) = Least(BackoffMax, BackoffBase * (call[c].attempt + 1))
      BY <2>7 DEF Backoff
    <3>2. \A a, b \in Int : Least(a, b) \in Int BY DEF Least
    <3>3. BackoffMax \in Int BY <1>1
    <3>. QED BY <2>3, <3>1, <3>2, <3>3, Zenon
  <2>. QED BY <2>4, <2>5, <2>6, <2>7
<1>3. PICK e \in Int : d = Greatest(0, Least(BackoffMax, e))
  <2>1. \A b \in Int : b - b \div 4 \in Int /\ b + b \div 4 \in Int OBVIOUS
  <2>. QED BY <1>2, <2>1 DEF Jittered
<1>4. d \in Nat /\ d <= BackoffMax BY <1>1, <1>3 DEF Greatest, Least
<1>5. RetryAfter(f) \in Nat /\ RetryAfter(f) <= BackoffMax
  BY <1>1 DEF RetryAfter, CanRetry
<1>. HIDE DEF RetryAfter
<1>. QED BY <1>1, <1>4, <1>5 DEF Greatest

LEMMA RetryMoves ==
  ASSUME CoroutinesInv, NEW c \in Call, Retry(c)
  PROVE  Moves(c) /\ Stays(c)
<1>0. SoundAt(c) /\ call[c] \in Coroutine /\ task[c] \in Row /\ overrides[c] \in Nat
  BY DEF CoroutinesInv, Typed
<1>1. PICK d \in Jittered(c) :
        call' = [call EXCEPT ![c].at = "backoff", ![c].attempt = @ + 1,
                             ![c].wait = Greatest(d, RetryAfter(call[c].failure))]
  BY DEF Retry
<1>2. /\ call[c].at = "failed" /\ call[c].attempt < MaxAttempts[c] - 1
      /\ call[c].failure \in Declared /\ CanRetry(call[c].failure)
      /\ UNCHANGED <<cancelled, asked, overrides>> /\ task' \in {Saved(c), task}
  BY DEF Retry, MayRetry, At, CanRetry, SameHistory
<1>. DEFINE w == Greatest(d, RetryAfter(call[c].failure))
            x == [call[c] EXCEPT !.at = "backoff", !.attempt = call[c].attempt + 1, !.wait = w]
            saved == IF task' = task THEN task[c].checkpoint
                     ELSE IF call[c].progress > 0 THEN call[c].progress ELSE task[c].checkpoint
            r == [task[c] EXCEPT !.checkpoint = saved]
<1>3. w \in Nat /\ RetryAfter(call[c].failure) <= w /\ w <= BackoffMax
  <2>1. call[c].failure \in Failure BY <1>2 DEF Declared, Failure
  <2>. QED BY <1>0, <1>2, <2>1, WaitBounds
<1>. HIDE DEF w
<1>4. /\ x \in Coroutine /\ x.at = "backoff" /\ x.attempt = call[c].attempt + 1
      /\ x.failure = call[c].failure /\ x.wait = w /\ x.progress = call[c].progress
  <2>. DEFINE n == call[c].attempt + 1
  <2>1. n \in Nat BY <1>0 DEF Coroutine
  <2>. HIDE DEF n
  <2>2. LET y == [call[c] EXCEPT !.at = "backoff", !.attempt = n, !.wait = w]
        IN  /\ y \in Coroutine /\ y.at = "backoff" /\ y.attempt = n
            /\ y.failure = call[c].failure /\ y.wait = w /\ y.progress = call[c].progress
    BY <1>0, <1>3, <2>1 DEF Coroutine, Where
  <2>. QED BY <2>2 DEF n
<1>5. saved \in 0 .. MaxProgress /\ saved >= task[c].checkpoint
  <2>1. /\ task[c].checkpoint \in 0 .. MaxProgress /\ call[c].progress \in 0 .. MaxProgress
        /\ MaxProgress \in Nat
    BY <1>0, CallsAssumption DEF Row, Coroutine
  <2>2. call[c].progress > 0 => task[c].checkpoint <= call[c].progress
    BY <1>0, <1>2, <2>1 DEF SoundAt, Sound
  <2>. QED BY <2>1, <2>2
<1>6. /\ call' = [call EXCEPT ![c] = x]
      /\ overrides' = [overrides EXCEPT ![c] = overrides[c]]
  BY <1>1, <1>2 DEF w, CoroutinesInv, Typed
<1>7. task' = [task EXCEPT ![c] = r]
  <2>1. CASE task' = task
    <3>1. r = task[c] BY <1>0, <2>1 DEF Row
    <3>. QED BY <2>1, <3>1 DEF CoroutinesInv, Typed
  <2>2. CASE task' # task BY <1>2, <2>2 DEF Saved, CoroutinesInv, Typed
  <2>. QED BY <2>1, <2>2
<1>. HIDE DEF saved
<1>8. /\ r \in Row /\ r.tier = task[c].tier /\ r.checkpoint = saved
  BY <1>0, <1>5 DEF Row
<1>. HIDE DEF x, r
<1>9. Sound(c, x, r, c \in cancelled, asked[c], overrides[c])
  <2>1. call[c].attempt \in Nat /\ MaxAttempts[c] \in Nat
    BY <1>0, CallsAssumption DEF Coroutine
  <2>. HIDE DEF RetryAfter
  <2>. QED BY <1>0, <1>2, <1>3, <1>4, <1>8, <2>1 DEF SoundAt, Sound
<1>10. r.checkpoint >= task[c].checkpoint BY <1>5, <1>8
<1>11. UNCHANGED <<cancelled, asked>> BY <1>2
<1>12. Moves(c) BY <1>0, <1>4, <1>6, <1>7, <1>8, <1>9, <1>10, <1>11, SoundStep
<1>. QED BY <1>2, <1>12 DEF Stays, Inside, Where

LEMMA WakeUpMoves ==
  ASSUME CoroutinesInv, NEW c \in Call, WakeUp(c)
  PROVE  Moves(c) /\ Stays(c)
<1>. DEFINE x == [call[c] EXCEPT !.at = "loop", !.wait = 0]
<1>0. SoundAt(c) /\ call[c] \in Coroutine BY DEF CoroutinesInv, Typed
<1>1. /\ x \in Coroutine /\ x.at = "loop" /\ x.attempt = call[c].attempt
      /\ x.failure = call[c].failure /\ x.progress = call[c].progress
  BY <1>0 DEF Coroutine, Where
<1>2. /\ call' = [call EXCEPT ![c] = x] /\ call[c].at = "backoff"
      /\ UNCHANGED <<task, cancelled, asked, overrides>>
  BY DEF WakeUp, At, SameHistory
<1>. HIDE DEF x
<1>3. Sound(c, x, task[c], c \in cancelled, asked[c], overrides[c])
  BY <1>0, <1>1, <1>2 DEF SoundAt, Sound
<1>4. Moves(c) BY <1>1, <1>2, <1>3, CallStep
<1>. QED BY <1>2, <1>4 DEF Stays, Inside, Where

LEMMA CompleteMoves ==
  ASSUME CoroutinesInv, NEW c \in Call, Complete(c)
  PROVE  Moves(c) /\ Stays(c) /\ task'[c].status = "completed"
<1>0. SoundAt(c) /\ task[c] \in Row /\ overrides[c] \in Nat BY DEF CoroutinesInv, Typed
<1>. DEFINE x == [Idle EXCEPT !.at = "over"]
            kept == [task[c] EXCEPT !.status = "completed"]
            r == IF task' = [task EXCEPT ![c] = kept] THEN kept ELSE [kept EXCEPT !.checkpoint = 0]
<1>1. x = [at |-> "over", attempt |-> 0, failure |-> NoFailure, wait |-> 0, progress |-> 0]
  BY DEF Idle
<1>2. x \in Coroutine BY <1>1, CallsAssumption DEF Coroutine, Where
<1>3. kept \in Row /\ kept.tier = task[c].tier /\ kept.status = "completed"
  BY <1>0 DEF Row, Status
<1>4. /\ call' = [call EXCEPT ![c] = x] /\ UNCHANGED <<cancelled, asked>>
      /\ overrides' = [overrides EXCEPT ![c] = overrides[c]]
      /\ call[c].at = "settle"
      /\ task' = [task EXCEPT ![c] = kept] \/
         task' = [[task EXCEPT ![c] = kept] EXCEPT ![c].checkpoint = 0]
  BY DEF Complete, At, Deleted, CoroutinesInv, Typed
<1>. HIDE DEF kept
<1>5. task' = [task EXCEPT ![c] = r]
  BY <1>4 DEF CoroutinesInv, Typed
<1>6. r \in Row /\ r.tier = task[c].tier /\ r.status = "completed" /\ r.checkpoint \in Int
  BY <1>3, CallsAssumption DEF Row
<1>. HIDE DEF r
<1>7. Sound(c, x, r, c \in cancelled, asked[c], overrides[c])
  BY <1>0, <1>1, <1>6, CallsAssumption DEF SoundAt, Sound
<1>. HIDE DEF x
<1>8. r.checkpoint >= task[c].checkpoint \/ r.status = "completed" BY <1>6
<1>9. /\ call' = [call EXCEPT ![c] = x] /\ UNCHANGED <<cancelled, asked>>
      /\ overrides' = [overrides EXCEPT ![c] = overrides[c]]
  BY <1>4
<1>10. r \in Row /\ overrides[c] \in Nat BY <1>0, <1>6
<1>11. Moves(c) /\ task'[c] = r BY <1>2, <1>5, <1>7, <1>8, <1>9, <1>10, SoundStep
<1>. QED BY <1>4, <1>6, <1>11 DEF Stays, Inside, Where

\* Steps that end a call, and those that take it one stage on.
LEMMA EndMoves ==
  ASSUME CoroutinesInv, NEW c \in Call,
         \/ PrepareFails(c) \/ StopsCancelled(c) \/ Reject(c) \/ Block(c) \/ Stopped(c)
         \/ GiveUpRaised(c) \/ GiveUpReturned(c) \/ Discard(c)
  PROVE  Moves(c) /\ Stays(c)
<1>1. PICK status \in Status : Ends(c, status)
  <2>1. "failed" \in Status /\ "cancelled" \in Status BY DEF Status
  <2>. QED BY <2>1 DEF PrepareFails, StopsCancelled, Reject, Block, Stopped, GiveUpRaised,
                       GiveUpReturned, Failed, Discard
<1>2. UNCHANGED <<cancelled, asked, overrides>>
  BY DEF PrepareFails, StopsCancelled, Reject, Block, Stopped, GiveUpRaised,
         GiveUpReturned, Failed, Discard, SameHistory
<1>3. Moves(c) /\ call'[c].at = "over" BY <1>1, <1>2, EndStep
<1>. QED BY <1>3 DEF Stays, Inside

LEMMA StageMoves ==
  ASSUME CoroutinesInv, NEW c \in Call, Enter(c) \/ Invoke(c) \/ Answered(c)
  PROVE  Moves(c) /\ Stays(c)
<1>1. Inside(c) BY DEF Enter, Invoke, Answered, At, Inside, Where
<1>2. UNCHANGED <<task, cancelled, asked, overrides>>
  BY DEF Enter, Invoke, Answered, SameHistory
<1>3. CASE Enter(c)
  <2>1. "calling" \in Where /\ Go(c, "calling") /\ At(c, "ready") /\ c \notin cancelled
    BY <1>3 DEF Enter, Where
  <2>2. Moves(c) BY <1>2, <2>1, GoStep
  <2>. QED BY <1>1, <2>2 DEF Stays
<1>4. CASE Invoke(c)
  <2>1. "running" \in Where /\ Go(c, "running") /\ At(c, "calling")
    BY <1>4 DEF Invoke, Where
  <2>2. Moves(c) BY <1>2, <2>1, GoStep
  <2>. QED BY <1>1, <2>2 DEF Stays
<1>5. CASE Answered(c)
  <2>1. "settle" \in Where /\ Go(c, "settle") /\ call[c].at \in {"ready", "running"}
    BY <1>5 DEF Answered, At, Where
  <2>2. Moves(c) BY <1>2, <2>1, GoStep
  <2>. QED BY <1>1, <2>2 DEF Stays
<1>. QED BY <1>3, <1>4, <1>5

LEMMA AdmitMoves ==
  ASSUME CoroutinesInv, NEW c \in Call, Admit(c)
  PROVE  Moves(c) /\ ~Inside(c)
<1>1. UNCHANGED <<task, cancelled, asked, overrides>> BY DEF Admit, SameHistory
<1>2. Moves(c) BY <1>1, GoStep DEF Admit, Where
<1>. QED BY <1>2 DEF Admit, At, Inside

\* A request for cancellation remembers the attempt it found in the executor.
LEMMA RequestCancelMoves ==
  ASSUME CoroutinesInv, NEW c \in Call, RequestCancel(c)
  PROVE  Moves(c) /\ Stays(c) /\ UNCHANGED call
<1>1. /\ UNCHANGED <<call, task, overrides>> /\ cancelled' = cancelled \cup {c}
      /\ asked' = IF InExecutor(c) THEN [asked EXCEPT ![c] = call[c].attempt] ELSE asked
  BY DEF RequestCancel
<1>2. call[c] \in Coroutine /\ call[c].attempt \in Nat
  BY DEF CoroutinesInv, Typed, Coroutine
<1>3. Typed' BY <1>1, <1>2 DEF Typed, CoroutinesInv
<1>4. ASSUME NEW d \in Call PROVE SoundAt(d)'
  <2>1. CASE d # c
    <3>1. SoundAt(d) /\ asked'[d] = asked[d] /\ (d \in cancelled' <=> d \in cancelled)
      BY <1>1, <2>1 DEF CoroutinesInv, Typed
    <3>. QED BY <1>1, <3>1 DEF SoundAt, Sound
  <2>2. CASE d = c
    <3>1. InExecutor(c) => asked'[c] = call[c].attempt BY <1>1 DEF CoroutinesInv, Typed
    <3>2. SoundAt(c) BY DEF CoroutinesInv
    <3>. QED BY <1>1, <2>2, <3>1, <3>2 DEF SoundAt, Sound, InExecutor
  <2>. QED BY <2>1, <2>2
<1>5. task[c].checkpoint \in Int BY CallsAssumption DEF CoroutinesInv, Typed, Row
<1>. QED BY <1>1, <1>3, <1>4, <1>5 DEF Moves, CoroutinesInv, Stays, Inside

-----------------------------------------------------------------------------
(* The steps.                                                                 *)

\* The breaker recovers.
Closing == breaker.state # "closed" /\ breaker'.state = "closed"

LEMMA NobodyInside ==
  ASSUME NEW c \in Call, Moves(c), Stays(c)
  PROVE  \A d \in Call : Inside(d)' => Inside(d)
BY DEF Moves, Stays, Inside

LEMMA LookDoesNotClose ==
  ASSUME GateInv, breaker' = Checked(breaker)
  PROVE  ~Closing
BY CheckedGate DEF Closing

LEMMA FailureDoesNotClose ==
  ASSUME GateInv, NEW c \in Call, RecordFailure(c)
  PROVE  ~Closing
BY DEF RecordFailure, Closing, GateInv, GateTyped, BreakerState

LEMMA AdmissionDoesNotClose ==
  ASSUME GateInv, NEW c \in Call, CanExecute(c)
  PROVE  ~Closing
<1>1. CASE Checked(breaker).state = "closed" BY <1>1, CheckedGate DEF CanExecute, Closing
<1>2. CASE Checked(breaker).state # "closed"
  <2>1. breaker' = [Checked(breaker) EXCEPT !.probes = @ + 1] BY <1>2 DEF CanExecute
  <2>2. breaker'.state = Checked(breaker).state BY <2>1, CheckedGate DEF BreakerState
  <2>. QED BY <1>2, <2>2 DEF Closing
<1>. QED BY <1>1, <1>2

\* The success of a call past the breaker closes it only in its own generation.
LEMMA SuccessCloses ==
  ASSUME GateInv, NEW c \in Call, Inside(c), RecordSuccess(c), Closing
  PROVE  Admitted(c)
<1>1. breaker' # Checked(breaker) BY LookDoesNotClose
<1>2. CheckedAdmissions[c] # "stale" BY <1>1 DEF RecordSuccess
<1>3. /\ admission[c] # "none" /\ CheckedAdmissions[c] # "none"
      /\ CheckedAdmissions[c] \in {"none", "current", "stale"}
  BY CheckedGate DEF GateInv
<1>4. CheckedAdmissions[c] = "current" BY <1>2, <1>3
<1>5. admission[c] = "current" BY <1>4, CheckedGate
<1>. QED BY <1>5 DEF Admitted, Inside

LEMMA DispatchStep ==
  ASSUME IInv, NEW c \in Call, Dispatch(c)
  PROVE  Moves(c) /\ GateInv' /\ ~Closing
<1>1. Moves(c) /\ Stays(c) BY DispatchMoves DEF IInv
<1>2. \A d \in Call : Inside(d)' => Inside(d) BY <1>1, NobodyInside
<1>3. breaker' = breaker /\ call[c].at \in {"idle", "over"} BY DEF Dispatch
<1>4. PICK from \in {"none", "current", "stale"} : admission' = [admission EXCEPT ![c] = from]
  BY DEF Dispatch, IInv, GateInv, GateTyped
<1>5. ~Inside(c) BY <1>3 DEF Inside
<1>6. \A d \in Call : Inside(d)' => admission'[d] # "none" /\ admission'[d] = admission[d]
  BY <1>2, <1>4, <1>5 DEF IInv, GateInv, GateTyped
<1>7. GateTyped' BY <1>3, <1>4 DEF IInv, GateInv, GateTyped
<1>8. \A d \in Call : Admitted(d)' => Admitted(d)
  BY <1>2, <1>6 DEF Admitted, Inside
<1>9. breaker.state = "half_open" => Cardinality({d \in Call : Admitted(d)'}) <= breaker.probes
  <2>1. breaker.probes \in Int BY CallsAssumption DEF IInv, GateInv, GateTyped, BreakerState
  <2>. QED BY <1>8, <2>1, FewerAdmitted DEF IInv, GateInv, ProbesAreFew
<1>10. ProbesAreFew' BY <1>3, <1>8, <1>9 DEF ProbesAreFew, IInv, GateInv
<1>11. ~Closing BY <1>3 DEF Closing
<1>. QED BY <1>1, <1>6, <1>7, <1>10, <1>11 DEF GateInv

\* Every action of a running call, with what it does to the breaker.
LEMMA ProceedStep ==
  ASSUME IInv, NEW c \in Call, Proceed(c)
  PROVE  /\ Moves(c) /\ GateInv'
         /\ Closing => Admitted(c) /\ task'[c].status = "completed"
<1>. USE DEF IInv
<1>0. ASSUME Moves(c), Stays(c)
      PROVE  /\ SameBreaker => GateInv' /\ ~Closing
             /\ RecordFailure(c) => GateInv' /\ ~Closing
             /\ CannotExecute => GateInv' /\ ~Closing
             /\ RecordSuccess(c) => GateInv'
  <2>1. \A d \in Call : Inside(d)' => Inside(d) BY <1>0, NobodyInside
  <2>2. SameBreaker => GateInv' /\ ~Closing
    BY <2>1, SameBreakerKeepsGate DEF SameBreaker, Closing
  <2>3. RecordFailure(c) => GateInv' /\ ~Closing
    BY <2>1, FailureKeepsGate, FailureDoesNotClose
  <2>4. CannotExecute => GateInv' /\ ~Closing
    BY <2>1, LookKeepsGate, LookDoesNotClose DEF CannotExecute
  <2>5. RecordSuccess(c) => GateInv' BY <2>1, SuccessKeepsGate
  <2>. QED BY <2>2, <2>3, <2>4, <2>5
<1>1. CASE Admit(c)
  <2>1. Moves(c) /\ ~Inside(c) BY <1>1, AdmitMoves
  <2>2. CanExecute(c) BY <1>1 DEF Admit
  <2>3. \A d \in Call \ {c} : Inside(d)' => Inside(d) BY <2>1 DEF Moves, Inside
  <2>. QED BY <2>1, <2>2, <2>3, AdmitKeepsGate, AdmissionDoesNotClose
<1>2. CASE Complete(c)
  <2>1. Moves(c) /\ Stays(c) /\ task'[c].status = "completed" BY <1>2, CompleteMoves
  <2>2. RecordSuccess(c) /\ Inside(c) BY <1>2 DEF Complete, At, Inside, Where
  <2>. QED BY <1>0, <2>1, <2>2, SuccessCloses
<1>3. CASE \/ PrepareFails(c) \/ StopsCancelled(c) \/ Reject(c) \/ Block(c) \/ Stopped(c)
           \/ GiveUpRaised(c) \/ GiveUpReturned(c) \/ Discard(c)
  <2>1. Moves(c) /\ Stays(c) BY <1>3, EndMoves
  <2>2. SameBreaker \/ RecordFailure(c) \/ CannotExecute
    BY <1>3 DEF PrepareFails, StopsCancelled, Reject, Block, Stopped, GiveUpRaised,
                GiveUpReturned, Discard
  <2>. QED BY <1>0, <2>1, <2>2
<1>4. CASE \/ Pass(c) \/ Begin(c) \/ NoExecutor(c) \/ Answered(c) \/ Enter(c) \/ Invoke(c)
           \/ Succeed(c) \/ FailAttempt(c) \/ Retry(c) \/ WakeUp(c)
  <2>1. Moves(c) /\ Stays(c)
    BY <1>4, PassMoves, BeginMoves, NoExecutorMoves, StageMoves, SucceedMoves,
       FailAttemptMoves, RetryMoves, WakeUpMoves
  <2>2. SameBreaker
    BY <1>4 DEF Pass, Begin, NoExecutor, Answered, Enter, Invoke, Succeed, FailAttempt, Retry,
                WakeUp
  <2>. QED BY <1>0, <2>1, <2>2
<1>. QED BY <1>1, <1>2, <1>3, <1>4 DEF Proceed

LEMMA RequestCancelStep ==
  ASSUME IInv, NEW c \in Call, RequestCancel(c)
  PROVE  Moves(c) /\ GateInv' /\ ~Closing
<1>1. Moves(c) /\ Stays(c) BY RequestCancelMoves DEF IInv
<1>2. SameBreaker BY DEF RequestCancel
<1>. QED BY <1>1, <1>2, NobodyInside, SameBreakerKeepsGate DEF IInv, SameBreaker, Closing

\* Steps of the clock, of an observer and of reset_all move no coroutine.
LEMMA BreakerStep ==
  ASSUME IInv, Elapse \/ Look \/ Reset
  PROVE  IInv' /\ UNCHANGED task /\ (Closing => Reset)
<1>. USE DEF IInv
<1>1. UNCHANGED <<call, task, cancelled, asked, overrides>> BY DEF Elapse, Look, Reset
<1>2. CoroutinesInv' BY <1>1 DEF CoroutinesInv, Typed, SoundAt
<1>3. \A c \in Call : (Inside(c)' <=> Inside(c)) /\ Inside(c)' = Inside(c)
  BY <1>1 DEF Inside
<1>4. CASE Elapse
  <2>1. /\ breaker' = [breaker EXCEPT !.due = TRUE] /\ admission' = admission
        /\ breaker \in BreakerState
    BY <1>4 DEF Elapse, GateInv, GateTyped
  <2>2. /\ breaker' \in BreakerState /\ breaker'.state = breaker.state
        /\ breaker'.probes = breaker.probes /\ breaker'.failures = breaker.failures
    BY <2>1 DEF BreakerState
  <2>3. \A c \in Call : Admitted(c)' <=> Admitted(c) BY <1>1, <2>1 DEF Admitted
  <2>4. {c \in Call : Admitted(c)'} = {c \in Call : Admitted(c)} BY <2>3
  <2>5. GateInv' BY <1>3, <2>1, <2>2, <2>3, <2>4 DEF GateInv, GateTyped, ProbesAreFew
  <2>. QED BY <1>1, <1>2, <2>2, <2>5 DEF Closing
<1>5. CASE Look
  BY <1>1, <1>2, <1>3, <1>5, LookKeepsGate, LookDoesNotClose DEF Look
<1>6. CASE Reset
  <2>1. GateTyped' /\ \A c \in Call : Inside(c)' => admission'[c] # "none"
    BY <1>3, <1>6, AgedGate, CallsAssumption
       DEF Reset, GateInv, GateTyped, BreakerState, Closed
  <2>2. GateInv' BY <1>6, <2>1, ClosedKeepsGate DEF Reset
  <2>. QED BY <1>1, <1>2, <1>6, <2>2
<1>. QED BY <1>4, <1>5, <1>6

\* No step breaks the invariant, gives up a checkpoint of an unfinished task or
\* closes the breaker without a call of its present half-open period.
LEMMA StepHolds ==
  ASSUME IInv, CallsNext
  PROVE  /\ IInv'
         /\ \A c \in Call : task'[c].checkpoint < task[c].checkpoint =>
                              task'[c].status = "completed"
         /\ Closing => Reset \/ \E c \in Call : Admitted(c) /\ task'[c].status = "completed"
<1>0. \A c \in Call : task[c].checkpoint \in Int
  BY CallsAssumption DEF IInv, CoroutinesInv, Typed, Row
<1>1. CASE Elapse \/ Look \/ Reset BY <1>0, <1>1, BreakerStep
<1>2. ASSUME NEW c \in Call, Dispatch(c) \/ Proceed(c) \/ RequestCancel(c)
      PROVE  /\ Moves(c) /\ GateInv'
             /\ Closing => Admitted(c) /\ task'[c].status = "completed"
  BY <1>2, DispatchStep, ProceedStep, RequestCancelStep
<1>3. ASSUME NEW c \in Call, Moves(c), GateInv'
      PROVE  /\ IInv'
             /\ \A d \in Call : task'[d].checkpoint < task[d].checkpoint =>
                                  task'[d].status = "completed"
  BY <1>0, <1>3 DEF Moves, IInv
<1>. QED BY <1>1, <1>2, <1>3 DEF CallsNext

LEMMA InvariantStays == IInv /\ [CallsNext]_callsVars => IInv'
<1>1. IInv /\ UNCHANGED callsVars => IInv'
  BY DEF callsVars, IInv, CoroutinesInv, Typed, SoundAt, GateInv, GateTyped, ProbesAreFew,
         Admitted, Inside
<1>. QED BY <1>1, StepHolds

LEMMA Invariance == CallsSpec => []IInv
BY InitHolds, InvariantStays, PTL DEF CallsSpec

-----------------------------------------------------------------------------
(* The theorems.                                                              *)

\* However many calls share the breaker, and however late, lost or stale their
\* outcomes are, a half-open one has no more test calls under way than it counted.
THEOREM BreakerBoundsItsProbes == CallsSpec => []CallsInv
<1>1. IInv => CallsInv BY InvariantHolds
<1>. QED BY <1>1, Invariance, PTL

\* For any policies, budgets and chains: only what was declared retryable is tried
\* again, nothing after a cancellation, and no chain is used more than once.
THEOREM SafeRetries == CallsSpec => []RetriesAreSafe
<1>1. IInv => RetriesAreSafe BY InvariantHolds
<1>. QED BY <1>1, Invariance, PTL

\* Only a call of the present half-open period, or reset_all, closes the breaker.
THEOREM OnlyProbesClose == CallsSpec => ClosedByItsProbe
<1>1. IInv /\ [CallsNext]_callsVars =>
        [breaker.state # "closed" /\ breaker'.state = "closed" =>
           \/ Reset
           \/ \E c \in Call : Admitted(c) /\ task'[c].status = "completed"]_callsVars
  BY StepHolds DEF Closing
<1>. QED BY <1>1, Invariance, PTL DEF CallsSpec, ClosedByItsProbe

\* No retry, failure, cancellation or dispatch loses saved progress.
THEOREM ProgressIsKept == CallsSpec => CheckpointsAdvance
<1>1. IInv /\ [CallsNext]_callsVars =>
        [\A c \in Call : task'[c].checkpoint < task[c].checkpoint =>
                           task'[c].status = "completed"]_callsVars
  BY StepHolds
<1>. QED BY <1>1, Invariance, PTL DEF CallsSpec, CheckpointsAdvance
=============================================================================
