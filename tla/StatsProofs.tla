----------------------------- MODULE StatsProofs -----------------------------
(***************************************************************************)
(* Proofs about Stats, for any number of workers, flows, samples and       *)
(* latencies: what a report divides and picks is right.                    *)
(*                                                                         *)
(* Most of what a report computes is a recursion: sums over flows, lists   *)
(* joined block by block, the order that qsort leaves.  What is said of    *)
(* these is proved by looking at a least counterexample (LeastNat).        *)
(***************************************************************************)
EXTENDS Stats, FiniteSetTheorems, TLAPS

LEMMA LeastNat ==
  ASSUME NEW T \in SUBSET Nat, T # {}
  PROVE  \E n \in T : \A m \in T : n <= m
<1>1. PICK n \in T : \A m \in T : ~ (<<m, n>> \in OpToRel(<, Nat))
  BY NatLessThanWellFounded, WFMin
<1>2. \A m \in T : ~ (m < n)
  BY <1>1 DEF OpToRel
<1> QED
  BY <1>2
----------------------------------------------------------------------------
(* Sums over finite sets.                                                  *)

Pick(S) == CHOOSE x \in S : TRUE

\* g[S] is the sum of F over S, for the subsets S of D.
Adds(g, F, D) == g = [S \in SUBSET D |-> IF S = {} THEN 0 ELSE F[Pick(S)] + g[S \ {Pick(S)}]]

LEMMA PickIn == \A S : S # {} => Pick(S) \in S
  BY DEF Pick

LEMMA SumUnfold ==
  ASSUME NEW F
  PROVE  SumFunction(F) = (CHOOSE g : Adds(g, F, DOMAIN F))[DOMAIN F]
  BY DEF SumFunction, SumFunctionOnSet, FoldFunctionOnSet, MapThenFoldSet, Adds, Pick

\* One element less.
LEMMA Smaller ==
  ASSUME NEW S, IsFiniteSet(S), NEW x \in S
  PROVE  /\ IsFiniteSet(S \ {x}) /\ Cardinality(S) \in Nat /\ Cardinality(S \ {x}) \in Nat
         /\ Cardinality(S \ {x}) = Cardinality(S) - 1
  BY FS_RemoveElement, FS_CardinalityType

LEMMA Upto ==
  ASSUME NEW n \in Nat
  PROVE  IsFiniteSet(1..n) /\ Cardinality(1..n) = n
<1>1. IsFiniteSet(1..n) /\ Cardinality(1..n) = IF 1 > n THEN 0 ELSE n - 1 + 1
  BY FS_Interval
<1> QED
  BY <1>1

\* There is a g: for the subsets with up to n elements, whatever n is.
LEMMA SumExists ==
  ASSUME NEW D, IsFiniteSet(D), NEW F \in [D -> Int]
  PROVE  \E g \in [SUBSET D -> Int] : Adds(g, F, D)
<1> DEFINE Small(n) == {S \in SUBSET D : Cardinality(S) <= n}
           Step(g, S) == IF S = {} THEN 0 ELSE F[Pick(S)] + g[S \ {Pick(S)}]
           Has(n) == \E g \in [Small(n) -> Int] : \A S \in Small(n) : g[S] = Step(g, S)
<1>1. \A S \in SUBSET D : IsFiniteSet(S) /\ Cardinality(S) \in Nat
  BY FS_Subset, FS_CardinalityType
<1>2. ASSUME NEW n \in Nat, Has(n) PROVE Has(n + 1)
  <2>1. PICK g \in [Small(n) -> Int] : \A S \in Small(n) : g[S] = Step(g, S)
    BY <1>2
  <2> DEFINE h == [S \in Small(n + 1) |-> Step(g, S)]
  <2>2. ASSUME NEW S \in Small(n + 1), S # {}
        PROVE  Pick(S) \in D /\ S \ {Pick(S)} \in Small(n) /\ S \ {Pick(S)} \in Small(n + 1)
    <3>1. Pick(S) \in S /\ S \ {Pick(S)} \in SUBSET D
      BY <2>2, PickIn
    <3>2. /\ Cardinality(S) \in Nat /\ Cardinality(S \ {Pick(S)}) \in Nat
          /\ Cardinality(S \ {Pick(S)}) = Cardinality(S) - 1 /\ Cardinality(S) <= n + 1
      BY <1>1, <3>1, Smaller
    <3>3. Cardinality(S \ {Pick(S)}) <= n /\ Cardinality(S \ {Pick(S)}) <= n + 1
      BY <3>2
    <3> QED
      BY <3>1, <3>3
  <2>3. h \in [Small(n + 1) -> Int]
    <3>1. ASSUME NEW S \in Small(n + 1) PROVE Step(g, S) \in Int
      <4> HIDE DEF Small
      <4>1. CASE S = {}
        BY <4>1
      <4>2. CASE S # {}
        BY <2>1, <2>2, <4>2
      <4> QED
        BY <4>1, <4>2
    <3> QED
      BY <3>1
  <2>4. ASSUME NEW S \in Small(n) PROVE S \in Small(n + 1) /\ h[S] = g[S]
    <3>1. S \in Small(n + 1)
      BY <1>1
    <3> HIDE DEF Small
    <3>2. h[S] = Step(g, S)
      BY <3>1
    <3> HIDE DEF h, Step
    <3> QED
      BY <2>1, <3>1, <3>2
  <2>5. ASSUME NEW S \in Small(n + 1) PROVE h[S] = Step(h, S)
    <3>1. h[S] = Step(g, S)
      OBVIOUS
    <3>2. CASE S = {}
      BY <3>1, <3>2
    <3>3. CASE S # {}
      <4>1. h[S \ {Pick(S)}] = g[S \ {Pick(S)}]
        BY <2>2, <2>4, <3>3
      <4> HIDE DEF h
      <4> QED
        BY <3>1, <3>3, <4>1
    <3> QED
      BY <3>2, <3>3
  <2> HIDE DEF h, Small, Step
  <2> QED
    BY <2>3, <2>5
<1>3. Has(0)
  <2> DEFINE h == [S \in Small(0) |-> 0]
  <2>1. ASSUME NEW S \in Small(0) PROVE S = {}
    <3>1. IsFiniteSet(S) /\ Cardinality(S) \in Nat /\ Cardinality(S) <= 0
      BY <1>1
    <3> QED
      BY <3>1, FS_EmptySet
  <2>2. h \in [Small(0) -> Int] /\ \A S \in Small(0) : h[S] = Step(h, S)
    BY <2>1
  <2> QED
    BY <2>2
<1> HIDE DEF Has
<1>4. \A n \in Nat : Has(n)
  <2> DEFINE T == {n \in Nat : ~ Has(n)}
  <2> SUFFICES ASSUME T # {} PROVE FALSE
    OBVIOUS
  <2>1. PICK n \in T : \A m \in T : n <= m
    BY LeastNat
  <2>2. n # 0 /\ n \in Nat
    BY <1>3, <2>1
  <2>3. n - 1 \in Nat /\ n - 1 \notin T
    BY <2>1, <2>2
  <2>4. Has((n - 1) + 1)
    BY <1>2, <2>3
  <2>5. (n - 1) + 1 = n
    BY <2>2
  <2> QED
    BY <2>1, <2>4, <2>5
<1>5. Cardinality(D) \in Nat /\ Small(Cardinality(D)) = SUBSET D
  BY FS_Subset, FS_CardinalityType
<1>6. Has(Cardinality(D))
  BY <1>4, <1>5
<1>7. PICK g \in [SUBSET D -> Int] : \A S \in SUBSET D : g[S] = Step(g, S)
  <2> HIDE DEF Small, Step
  <2> QED
    BY <1>5, <1>6 DEF Has
<1> QED
  BY <1>7 DEF Adds

\* The sum over S depends on F within S only.
LEMMA SumAgrees ==
  ASSUME NEW D, NEW E, NEW F, NEW G, NEW g, NEW h, Adds(g, F, D), Adds(h, G, E),
         NEW S, IsFiniteSet(S), S \subseteq D, S \subseteq E, \A x \in S : F[x] = G[x]
  PROVE  g[S] = h[S]
<1> DEFINE T == {n \in Nat : \E R \in SUBSET S : Cardinality(R) = n /\ g[R] # h[R]}
<1>1. \A R \in SUBSET S : IsFiniteSet(R) /\ Cardinality(R) \in Nat
  BY FS_Subset, FS_CardinalityType
<1>2. ASSUME T # {} PROVE FALSE
  <2>1. PICK n \in T : \A m \in T : n <= m
    BY <1>2, LeastNat
  <2>2. PICK R \in SUBSET S : Cardinality(R) = n /\ g[R] # h[R]
    BY <2>1
  <2> HIDE DEF T
  <2>3. R # {}
    BY <2>2 DEF Adds
  <2> DEFINE p == Pick(R)
             Q == R \ {p}
  <2>4. p \in R /\ Q \in SUBSET S
    BY <2>2, <2>3, PickIn
  <2>5. g[R] = F[p] + g[Q] /\ h[R] = G[p] + h[Q]
    BY <2>2, <2>3 DEF Adds
  <2>6. IsFiniteSet(R) /\ n \in Nat
    BY <1>1, <2>2
  <2>7. Cardinality(Q) \in Nat /\ Cardinality(Q) = n - 1
    BY <2>2, <2>4, <2>6, Smaller
  <2> HIDE DEF p, Q
  <2>8. g[Q] # h[Q]
    BY <2>2, <2>4, <2>5
  <2>9. Cardinality(Q) \in T
    BY <2>4, <2>7, <2>8 DEF T
  <2> QED
    BY <2>1, <2>6, <2>7, <2>9
<1> QED
  BY <1>1, <1>2

\* The sums of integers over finite sets.
IsSum(g, F, D) ==
  IsFiniteSet(D) /\ F \in [D -> Int] /\ g \in [SUBSET D -> Int] /\ Adds(g, F, D)

\* Any element can be taken first.
AnyFirst(g, F, D) == \A S \in SUBSET D : \A x \in S : g[S] = F[x] + g[S \ {x}]

\* The order in which the elements are taken does not matter.
LEMMA SumRemoves ==
  ASSUME NEW g, NEW F, NEW D, IsSum(g, F, D)
  PROVE  AnyFirst(g, F, D)
<1> USE DEF IsSum, AnyFirst
<1> DEFINE T == {n \in Nat : \E R \in SUBSET D : \E y \in R :
                   Cardinality(R) = n /\ g[R] # F[y] + g[R \ {y}]}
<1>1. \A R \in SUBSET D : IsFiniteSet(R) /\ Cardinality(R) \in Nat
  BY FS_Subset, FS_CardinalityType
<1>2. ASSUME T # {} PROVE FALSE
  <2>1. PICK n \in T : \A m \in T : n <= m
    BY <1>2, LeastNat
  <2>2. PICK R \in SUBSET D : \E y \in R : Cardinality(R) = n /\ g[R] # F[y] + g[R \ {y}]
    BY <2>1
  <2>3. PICK y \in R : Cardinality(R) = n /\ g[R] # F[y] + g[R \ {y}]
    BY <2>2
  <2> DEFINE p == Pick(R)
  <2>4. p \in R /\ g[R] = F[p] + g[R \ {p}]
    BY <2>3, PickIn DEF Adds
  <2>5. p # y
    BY <2>3, <2>4
  <2>6. IsFiniteSet(R) /\ n \in Nat
    BY <1>1, <2>3
  <2>7. /\ Cardinality(R \ {p}) = n - 1 /\ Cardinality(R \ {p}) \in Nat
        /\ Cardinality(R \ {y}) = n - 1 /\ Cardinality(R \ {y}) \in Nat
    BY <2>3, <2>4, <2>6, Smaller
  <2> HIDE DEF p
  <2>8. n - 1 \in Nat /\ n - 1 \notin T
    <3> HIDE DEF T
    <3> QED
      BY <2>1, <2>6, <2>7
  <2>9. g[R \ {p}] = F[y] + g[(R \ {p}) \ {y}]
    <3>1. R \ {p} \in SUBSET D /\ y \in R \ {p}
      BY <2>5
    <3> QED
      BY <2>7, <2>8, <3>1
  <2>10. g[R \ {y}] = F[p] + g[(R \ {y}) \ {p}]
    <3>1. R \ {y} \in SUBSET D /\ p \in R \ {y}
      BY <2>4, <2>5
    <3> QED
      BY <2>7, <2>8, <3>1
  <2>11. (R \ {y}) \ {p} = (R \ {p}) \ {y}
    OBVIOUS
  <2>12. F[y] \in Int /\ F[p] \in Int /\ g[(R \ {p}) \ {y}] \in Int
    BY <2>4
  <2> DEFINE rest == g[(R \ {p}) \ {y}]
  <2>13. g[R \ {p}] = F[y] + rest /\ g[R \ {y}] = F[p] + rest /\ rest \in Int
    BY <2>9, <2>10, <2>11, <2>12
  <2>14. g[R] = F[p] + g[R \ {p}] /\ g[R] # F[y] + g[R \ {y}]
    BY <2>3, <2>4
  <2> HIDE DEF T, rest
  <2> QED
    BY <2>12, <2>13, <2>14
<1> QED
  BY <1>1, <1>2

LEMMA SumIs ==
  ASSUME NEW D, IsFiniteSet(D), NEW F \in [D -> Int]
  PROVE  \E g \in [SUBSET D -> Int] : Adds(g, F, D) /\ SumFunction(F) = g[D]
<1>1. PICK g \in [SUBSET D -> Int] : Adds(g, F, D)
  BY SumExists
<1> DEFINE h == CHOOSE h : Adds(h, F, D)
<1>2. Adds(h, F, D)
  BY <1>1
<1>3. SumFunction(F) = h[D]
  BY SumUnfold
<1> HIDE DEF h
<1>4. g[D] = h[D]
  BY <1>1, <1>2, SumAgrees
<1> QED
  BY <1>1, <1>3, <1>4

LEMMA SumType ==
  ASSUME NEW D, IsFiniteSet(D), NEW F \in [D -> Int]
  PROVE  SumFunction(F) \in Int
<1>1. PICK g \in [SUBSET D -> Int] : SumFunction(F) = g[D]
  BY SumIs
<1>2. D \in SUBSET D
  OBVIOUS
<1> QED
  BY <1>1, <1>2

LEMMA SumSplits ==
  ASSUME NEW D, IsFiniteSet(D), NEW F \in [D -> Int]
  PROVE  \E g \in [SUBSET D -> Int] : /\ Adds(g, F, D) /\ SumFunction(F) = g[D]
                                      /\ \A x \in D : g[D] = F[x] + g[D \ {x}]
<1>1. PICK g \in [SUBSET D -> Int] : Adds(g, F, D) /\ SumFunction(F) = g[D]
  BY SumIs
<1>2. \A S \in SUBSET D : \A x \in S : g[S] = F[x] + g[S \ {x}]
  <2>1. IsSum(g, F, D)
    BY <1>1 DEF IsSum
  <2>2. AnyFirst(g, F, D)
    BY <2>1, SumRemoves
  <2> QED
    BY <2>2 DEF AnyFirst
<1>3. D \in SUBSET D
  OBVIOUS
<1> QED
  BY <1>1, <1>2, <1>3

\* G is F without x.
IsPart(G, F, x, D) ==
  /\ IsFiniteSet(D) /\ F \in [D -> Int] /\ x \in D
  /\ G \in [D \ {x} -> Int] /\ \A y \in D \ {x} : G[y] = F[y]

\* Values of a sum that are taken out, put in or exchanged.
LEMMA SumPart ==
  ASSUME NEW G, NEW F, NEW x, NEW D, IsPart(G, F, x, D)
  PROVE  SumFunction(F) = F[x] + SumFunction(G) /\ SumFunction(G) \in Int
<1> DEFINE E == D \ {x}
<1>1. /\ IsFiniteSet(D) /\ F \in [D -> Int] /\ x \in D
      /\ G \in [E -> Int] /\ \A y \in E : G[y] = F[y]
  BY DEF IsPart
<1>2. PICK g \in [SUBSET D -> Int] : /\ Adds(g, F, D) /\ SumFunction(F) = g[D]
                                     /\ \A y \in D : g[D] = F[y] + g[D \ {y}]
  BY <1>1, SumSplits
<1>3. IsFiniteSet(E)
  BY <1>1, FS_RemoveElement
<1>4. g[D] = F[x] + g[E]
  BY <1>1, <1>2
<1>5. E \subseteq D /\ E \subseteq E /\ \A y \in E : F[y] = G[y]
  BY <1>1
<1> HIDE DEF E
<1>6. PICK h \in [SUBSET E -> Int] : Adds(h, G, E) /\ SumFunction(G) = h[E]
  BY <1>1, <1>3, SumIs
<1>7. g[E] = h[E]
  BY <1>2, <1>3, <1>5, <1>6, SumAgrees
<1>8. h[E] \in Int
  BY <1>5, <1>6
<1> QED
  BY <1>2, <1>4, <1>6, <1>7, <1>8

LEMMA SumExcept ==
  ASSUME NEW D, IsFiniteSet(D), NEW F \in [D -> Int], NEW x \in D,
         NEW G \in [D -> Int], \A y \in D : y # x => G[y] = F[y]
  PROVE  SumFunction(G) = SumFunction(F) - F[x] + G[x]
<1> DEFINE H == [y \in D \ {x} |-> F[y]]
<1>1. IsPart(H, F, x, D) /\ IsPart(H, G, x, D)
  BY DEF IsPart
<1> HIDE DEF H
<1>2. SumFunction(F) = F[x] + SumFunction(H) /\ SumFunction(H) \in Int
  BY <1>1, SumPart
<1>3. SumFunction(G) = G[x] + SumFunction(H)
  BY <1>1, SumPart
<1>4. F[x] \in Int /\ G[x] \in Int
  OBVIOUS
<1> QED
  BY <1>2, <1>3, <1>4

LEMMA SumZero ==
  ASSUME NEW D, IsFiniteSet(D), NEW F \in [D -> Int], \A x \in D : F[x] = 0
  PROVE  SumFunction(F) = 0
<1>1. PICK g \in [SUBSET D -> Int] : Adds(g, F, D) /\ SumFunction(F) = g[D]
  BY SumIs
<1> DEFINE T == {n \in Nat : \E R \in SUBSET D : Cardinality(R) = n /\ g[R] # 0}
<1>2. \A R \in SUBSET D : IsFiniteSet(R) /\ Cardinality(R) \in Nat
  BY FS_Subset, FS_CardinalityType
<1>3. ASSUME T # {} PROVE FALSE
  <2>1. PICK n \in T : \A m \in T : n <= m
    BY <1>3, LeastNat
  <2>2. PICK R \in SUBSET D : Cardinality(R) = n /\ g[R] # 0
    BY <2>1
  <2>3. PICK x \in R : TRUE
    BY <1>1, <2>2 DEF Adds
  <2>4. g[R] = F[x] + g[R \ {x}]
    <3>1. IsSum(g, F, D)
      BY <1>1 DEF IsSum
    <3>2. AnyFirst(g, F, D)
      BY <3>1, SumRemoves
    <3> QED
      BY <3>2 DEF AnyFirst
  <2>5. R \ {x} \in SUBSET D /\ g[R \ {x}] # 0
    BY <1>1, <2>2, <2>4
  <2>6. IsFiniteSet(R) /\ n \in Nat
    BY <1>2, <2>2
  <2>7. Cardinality(R \ {x}) \in Nat /\ Cardinality(R \ {x}) = n - 1
    BY <2>2, <2>6, Smaller
  <2>8. n - 1 \in T
    BY <2>5, <2>7
  <2> HIDE DEF T
  <2> QED
    BY <2>1, <2>6, <2>7, <2>8
<1> QED
  BY <1>1, <1>2, <1>3

LEMMA SumOne ==
  ASSUME NEW D, IsFiniteSet(D), NEW F \in [D -> Int], NEW x \in D, \A y \in D : y # x => F[y] = 0
  PROVE  SumFunction(F) = F[x]
<1> DEFINE H == [y \in D |-> 0]
<1>1. H \in [D -> Int] /\ (\A y \in D : H[y] = 0) /\ \A y \in D : y # x => F[y] = H[y]
  OBVIOUS
<1> HIDE DEF H
<1>2. SumFunction(H) = 0
  BY <1>1, SumZero
<1>3. SumFunction(F) = SumFunction(H) - H[x] + F[x]
  BY <1>1, SumExcept
<1> QED
  BY <1>1, <1>2, <1>3
----------------------------------------------------------------------------
(* The inductive invariant.                                                *)

FlowOf(s) == <<s.tid, s.flow_id>>

\* The place of a flow in per_flow.
Place(f) == <<f[1] % Cardinality(job), f[2]>>

\* A flow's counts grow, so its samples are ordered alike by time and by count.
Growing ==
  /\ now \in Nat /\ count \in [Flows -> Nat]
  /\ samples \subseteq Sample /\ IsFiniteSet(samples)
  /\ \A s \in samples : FlowOf(s) \in Flows /\ s.time <= now /\ s.count <= count[FlowOf(s)]
  /\ \A s, u \in samples : FlowOf(s) = FlowOf(u) /\ s.time <= u.time => s.count <= u.count

\* A job is for all workers or for one; a worker's comes after those of the
\* workers before it.
Jobs ==
  /\ kind \in {"rr", "rr_server", "stream"}
  /\ phase \in {"test", "sort", "sum", "latency", "done", "early"}
  /\ phase = "test" => job = {} /\ sorted = <<>> /\ result = <<>>
  /\ phase # "test" => job = Tids \/ \E k \in Tids : job = {k}
  /\ phase # "test" /\ kind # "stream" => job = Tids
  /\ phase = "latency" => kind = "rr"
  /\ phase \in {"sort", "sum"} /\ kind = "stream" => Len(result) <= NumThreads
  /\ result \in Seq([job : SUBSET Tids, total : Int, duration : Int])

\* What is sorted is in order, and what is not is not earlier.
InOrder ==
  /\ sorted \in Seq(Of(job))
  /\ \A i, k \in 1..Len(sorted) : i < k => sorted[i] # sorted[k] /\ sorted[i].time <= sorted[k].time
  /\ phase = "sort" => j = Len(sorted) + 1
  /\ phase = "sort" => \A u \in Of(job) : \/ \E i \in 1..Len(sorted) : u = sorted[i]
                                         \/ \A i \in 1..Len(sorted) : sorted[i].time <= u.time
  /\ phase \in {"sum", "latency"} => /\ Len(sorted) >= 1
                                     /\ \A u \in Of(job) : \E i \in 1..Len(sorted) : u = sorted[i]

\* After n samples, per has the greatest count of every flow among them, and
\* total is their sum.
Added(n, per, total) ==
  /\ n \in 1..Len(sorted) /\ per \in [Allocated(job) -> Nat] /\ total \in Int
  /\ \A i \in 1..n : sorted[i].count <= per[Place(FlowOf(sorted[i]))]
  /\ \A f \in FlowsOf(job) :
       \/ per[Place(f)] = 0
       \/ \E i \in 1..n : FlowOf(sorted[i]) = f /\ sorted[i].count = per[Place(f)]
  /\ total = SumFunction([f \in FlowsOf(job) |-> per[Place(f)]])

Adding == phase = "sum" => j \in Int /\ Added(j - 1, per_flow, current_total)

Blocks == Seq(Seq(Nat))

\* The lists; a flow's list has a block to add to.
Lists ==
  /\ latency \in [Flows -> Blocks] /\ \A f \in Flows : Len(latency[f]) >= 1
  /\ lat \in [samples -> Blocks]
  /\ phase # "done" => chosen = <<>>

StatsInv == Growing /\ Jobs /\ InOrder /\ Adding /\ Lists
----------------------------------------------------------------------------
(* The test.                                                               *)

LEMMA FlowParts ==
  ASSUME NEW f \in Flows
  PROVE  f = <<f[1], f[2]>> /\ f[1] \in Tids /\ f[2] \in Nat
  BY StatsAssumption DEF Tids

\* What AddSample adds.
Taken(f) == [tid |-> f[1], flow_id |-> f[2], count |-> count[f], time |-> now]

LEMMA TakenIs ==
  ASSUME Growing, NEW f \in Flows
  PROVE  /\ Taken(f) \in Sample /\ FlowOf(Taken(f)) = f
         /\ Taken(f).count = count[f] /\ Taken(f).time = now
  BY FlowParts DEF Growing, Taken, Sample, FlowOf

LEMMA GrowingInit == StatsInit => Growing
  BY FS_EmptySet DEF StatsInit, Growing

LEMMA GrowingWork ==
  ASSUME Growing, NEW f \in Flows, Work(f)
  PROVE  Growing'
<1> USE DEF Growing
<1>1. now' = now /\ samples' = samples /\ count' = [count EXCEPT ![f] = @ + 1]
  BY DEF Work
<1>2. count' \in [Flows -> Nat] /\ \A g \in Flows : count[g] <= count'[g]
  BY <1>1
<1>3. ASSUME NEW s \in samples PROVE s.count <= count'[FlowOf(s)]
  <2>1. s.count \in Nat /\ FlowOf(s) \in Flows /\ s.count <= count[FlowOf(s)]
    BY DEF Sample
  <2>2. count[FlowOf(s)] \in Nat /\ count'[FlowOf(s)] \in Nat /\ count[FlowOf(s)] <= count'[FlowOf(s)]
    BY <1>2, <2>1
  <2> QED
    BY <2>1, <2>2
<1> QED
  BY <1>1, <1>2, <1>3 DEF FlowOf

LEMMA GrowingAddSample ==
  ASSUME Growing, NEW f \in Flows, AddSample(f)
  PROVE  Growing'
<1> DEFINE s == Taken(f)
<1>1. /\ now' = now /\ count' = count /\ samples' = samples \union {s}
      /\ \A u \in samples : FlowOf(u) = f => u.time < now
  BY DEF AddSample, Taken, FlowOf
<1>2. s \in Sample /\ FlowOf(s) = f /\ s.count = count[f] /\ s.time = now
  BY TakenIs
<1> HIDE DEF s
<1>3. IsFiniteSet(samples') /\ samples' \subseteq Sample
  BY <1>1, <1>2, FS_AddElement DEF Growing
<1>4. ASSUME NEW u \in samples'
      PROVE  FlowOf(u) \in Flows /\ u.time <= now /\ u.count <= count[FlowOf(u)]
  <2>1. count[f] \in Nat /\ now \in Nat
    BY DEF Growing
  <2> QED
    BY <1>1, <1>2, <2>1 DEF Growing
<1>5. ASSUME NEW u \in samples', NEW v \in samples', FlowOf(u) = FlowOf(v), u.time <= v.time
      PROVE  u.count <= v.count
  <2>1. CASE u \in samples /\ v \in samples
    BY <1>5, <2>1 DEF Growing
  <2>2. CASE v = s
    <3>1. u.count <= count[FlowOf(u)]
      BY <1>4
    <3> QED
      BY <1>2, <1>5, <2>2, <3>1
  <2>3. CASE u = s /\ v \in samples
    <3>1. v.time < now /\ v.time \in Nat /\ now \in Nat
      BY <1>1, <1>2, <1>5, <2>3 DEF Growing, Sample
    <3> QED
      BY <1>2, <1>5, <2>3, <3>1
  <2> QED
    BY <1>1, <2>1, <2>2, <2>3
<1> QED
  BY <1>1, <1>3, <1>4, <1>5 DEF Growing, FlowOf

\* The steps of the report leave what the test left.
LEMMA ReportLeaves ==
  ASSUME StatsNext, ~ (Tick \/ \E f \in Flows : Work(f) \/ AddSample(f))
  PROVE  UNCHANGED <<kind, now, count, latency, samples>>
  BY DEF StatsNext, Begin, TooFew, StartSum, SumNext, SumDone, ReportLatency, SortNext

LEMMA GrowingNext ==
  ASSUME Growing, [StatsNext]_statsVars
  PROVE  Growing'
<1>1. CASE UNCHANGED <<now, count, samples>>
  BY <1>1 DEF Growing, FlowOf
<1>2. CASE Tick
  <2>1. now' = now + 1 /\ count' = count /\ samples' = samples /\ now \in Nat
    BY <1>2 DEF Tick, Growing
  <2>2. \A s \in samples : s.time <= now'
    BY <2>1 DEF Growing, Sample
  <2> QED
    BY <2>1, <2>2 DEF Growing, FlowOf
<1>3. ASSUME NEW f \in Flows, Work(f) \/ AddSample(f) PROVE Growing'
  BY <1>3, GrowingWork, GrowingAddSample
<1>4. CASE UNCHANGED statsVars
  BY <1>1, <1>4 DEF statsVars
<1> QED
  BY <1>1, <1>2, <1>3, <1>4, ReportLeaves
----------------------------------------------------------------------------
(* The jobs, and the order of their samples.                               *)

LEMMA JobsInit == StatsInit => Jobs
<1> SUFFICES ASSUME StatsInit PROVE Jobs
  OBVIOUS
<1>1. result = <<>> /\ phase = "test" /\ job = {} /\ sorted = <<>>
      /\ kind \in {"rr", "rr_server", "stream"}
  BY DEF StatsInit
<1>2. result \in Seq([job : SUBSET Tids, total : Int, duration : Int])
  BY <1>1
<1> QED
  BY <1>1, <1>2 DEF Jobs

\* The steps of the test leave the report alone.
LEMMA TestLeaves ==
  ASSUME Tick \/ \E f \in Flows : Work(f) \/ AddSample(f)
  PROVE  phase = "test" /\ UNCHANGED kind /\ UNCHANGED reportVars
  BY DEF Tick, Work, AddSample

JobOf(tids) == tids = Tids \/ \E k \in Tids : tids = {k}

\* A job ends, with its totals.
LEMMA JobsEnd ==
  ASSUME Jobs, phase \in {"sort", "sum"}, NEW r \in [job : SUBSET Tids, total : Int, duration : Int],
         result' = Append(result, r), NextJob, UNCHANGED kind
  PROVE  Jobs'
<1> USE DEF Jobs
<1>1. /\ result' \in Seq([job : SUBSET Tids, total : Int, duration : Int])
      /\ Len(result) \in Nat /\ Len(result') = Len(result) + 1
  <2> HIDE DEF Jobs
  <2>1. result \in Seq([job : SUBSET Tids, total : Int, duration : Int])
    BY DEF Jobs
  <2> QED
    BY <2>1
<1>2. NumThreads \in Nat \ {0}
  BY StatsAssumption
<1>3. CASE kind # "stream" \/ Len(result') = NumThreads + 1
  <2>1. phase' \in {"latency", "done"} /\ UNCHANGED <<job, sorted, j>> /\ (phase' = "latency" => kind = "rr")
    BY <1>3 DEF NextJob
  <2> QED
    BY <1>1, <2>1
<1>4. CASE kind = "stream" /\ Len(result') # NumThreads + 1
  <2>1. phase' = "sort" /\ job' = {Len(result') - 1}
    BY <1>4 DEF NextJob, StartJob
  <2>2. Len(result') <= NumThreads /\ Len(result') - 1 \in Tids
    <3>1. Len(result) <= NumThreads
      BY <1>4
    <3> QED
      BY <1>1, <1>2, <1>4, <3>1 DEF Tids
  <2> QED
    BY <1>1, <1>4, <2>1, <2>2
<1> QED
  BY <1>3, <1>4

\* A job has workers.
LEMMA JobIsTids ==
  ASSUME Jobs, phase # "test"
  PROVE  job \in SUBSET Tids /\ job # {} /\ JobOf(job)
<1>1. 0 \in Tids
  BY StatsAssumption DEF Tids
<1> QED
  BY <1>1 DEF Jobs, JobOf

LEMMA JobsNext ==
  ASSUME Jobs, Growing, InOrder, Adding, [StatsNext]_statsVars
  PROVE  Jobs'
<1>1. CASE UNCHANGED <<kind, phase, job, sorted, result>>
  BY <1>1 DEF Jobs
<1>2. CASE Begin
  <2>1. phase' = "sort" /\ job' = Tids /\ kind' = kind /\ result' = result /\ result = <<>>
    BY <1>2 DEF Begin, StartJob, Jobs
  <2>2. Len(result') <= NumThreads
    BY <2>1, StatsAssumption
  <2> QED
    BY <2>1, <2>2 DEF Jobs
<1>3. CASE TooFew
  <2>1. phase = "sort" /\ kind' = kind
    BY <1>3 DEF TooFew
  <2>2. CASE kind = "stream"
    <3>1. result' = Append(result, [job |-> job, total |-> 0, duration |-> 0]) /\ NextJob
      BY <1>3, <2>2 DEF TooFew
    <3> QED
      BY <2>1, <3>1, JobsEnd, JobIsTids
  <2>3. CASE kind # "stream"
    <3>1. phase' = "early" /\ UNCHANGED <<job, sorted, j, result>>
      BY <1>3, <2>3 DEF TooFew
    <3> QED
      BY <2>1, <2>3, <3>1 DEF Jobs
  <2> QED
    BY <2>2, <2>3
<1>4. CASE StartSum
  <2>1. phase = "sort" /\ phase' = "sum" /\ UNCHANGED <<kind, job, sorted, result>>
    BY <1>4 DEF StartSum
  <2> QED
    BY <2>1 DEF Jobs
<1>5. CASE SumDone
  <2>1. /\ phase = "sum" /\ NextJob /\ kind' = kind
        /\ result' = Append(result, [job |-> job, total |-> current_total - sorted[1].count,
                                     duration |-> sorted[Len(sorted)].time - sorted[1].time])
    BY <1>5 DEF SumDone
  <2>2. current_total \in Int
    BY <2>1 DEF Adding, Added
  <2>3. \A i \in 1..Len(sorted) : sorted[i] \in Sample
    BY DEF InOrder, Of, Growing
  <2>4. 1 \in 1..Len(sorted) /\ Len(sorted) \in 1..Len(sorted)
    BY <2>1 DEF InOrder
  <2>5. sorted[1].count \in Int /\ sorted[Len(sorted)].time \in Int /\ sorted[1].time \in Int
    BY <2>3, <2>4 DEF Sample
  <2>6. current_total - sorted[1].count \in Int /\ sorted[Len(sorted)].time - sorted[1].time \in Int
    BY <2>2, <2>5
  <2>7. [job |-> job, total |-> current_total - sorted[1].count,
         duration |-> sorted[Len(sorted)].time - sorted[1].time]
          \in [job : SUBSET Tids, total : Int, duration : Int]
    BY <2>1, <2>6, JobIsTids
  <2> QED
    BY <2>1, <2>7, JobsEnd
<1>6. CASE ReportLatency
  <2>1. phase = "latency" /\ phase' = "done" /\ UNCHANGED <<kind, job, sorted, result>>
    BY <1>6 DEF ReportLatency
  <2> QED
    BY <2>1 DEF Jobs
<1>7. CASE Tick \/ \E f \in Flows : Work(f) \/ AddSample(f)
  BY <1>1, <1>7, TestLeaves DEF reportVars
<1>8. ASSUME NEW s \in samples, SortNext(s) PROVE Jobs'
  <2>1. phase = "sort" /\ UNCHANGED <<kind, phase, job, result>>
    BY <1>8 DEF SortNext
  <2> QED
    BY <2>1 DEF Jobs
<1>9. CASE SumNext
  BY <1>1, <1>9 DEF SumNext
<1>10. CASE UNCHANGED statsVars
  BY <1>1, <1>10 DEF statsVars
<1> QED
  BY <1>2, <1>3, <1>4, <1>5, <1>6, <1>7, <1>8, <1>9, <1>10 DEF StatsNext

LEMMA OfFinite ==
  ASSUME Growing, NEW tids
  PROVE  Of(tids) \subseteq samples /\ IsFiniteSet(Of(tids)) /\ Cardinality(Of(tids)) \in Nat
<1>1. Of(tids) \in SUBSET samples /\ IsFiniteSet(samples)
  BY DEF Of, Growing
<1> QED
  BY <1>1, FS_Subset, FS_CardinalityType

\* What a sample of the job is.
LEMMA SortedIs ==
  ASSUME Growing, InOrder, NEW i \in 1..Len(sorted)
  PROVE  /\ sorted[i] \in Of(job) /\ sorted[i] \in samples /\ sorted[i] \in Sample
         /\ sorted[i].tid \in job /\ sorted[i].tid \in Tids /\ sorted[i].flow_id \in Nat
         /\ sorted[i].count \in Nat /\ sorted[i].time \in Nat
         /\ FlowOf(sorted[i]) \in FlowsOf(job) /\ FlowOf(sorted[i]) \in Flows
<1>1. sorted[i] \in Of(job)
  BY DEF InOrder
<1>2. sorted[i] \in samples /\ sorted[i].tid \in job
  BY <1>1 DEF Of
<1>3. sorted[i] \in Sample /\ FlowOf(sorted[i]) \in Flows
  BY <1>2 DEF Growing
<1>4. FlowOf(sorted[i]) \in FlowsOf(job)
  BY <1>1 DEF FlowsOf, FlowOf
<1> QED
  BY <1>1, <1>2, <1>3, <1>4 DEF Sample

\* The sort has ended: every sample of the job has its place.
LEMMA SortedAll ==
  ASSUME Growing, InOrder, phase = "sort", j > Cardinality(Of(job))
  PROVE  \A u \in Of(job) : \E i \in 1..Len(sorted) : u = sorted[i]
<1>1. sorted \in [1..Len(sorted) -> Of(job)] /\ Len(sorted) \in Nat
  BY DEF InOrder
<1>2. \A i, k \in 1..Len(sorted) : sorted[i] = sorted[k] => i = k
  BY <1>1 DEF InOrder
<1>3. sorted \in Injection(1..Len(sorted), Of(job))
  BY <1>1, <1>2 DEF Injection, IsInjective
<1>4. IsFiniteSet(Of(job)) /\ Cardinality(Of(job)) \in Nat
  BY OfFinite
<1>5. Cardinality(1..Len(sorted)) = Len(sorted)
  BY <1>1, Upto
<1>6. Cardinality(1..Len(sorted)) <= Cardinality(Of(job))
  BY <1>3, <1>4, FS_Injection
<1>7. Cardinality(1..Len(sorted)) = Cardinality(Of(job))
  BY <1>1, <1>4, <1>5, <1>6 DEF InOrder
<1>8. sorted \in Surjection(1..Len(sorted), Of(job))
  BY <1>3, <1>4, <1>7, FS_Injection
<1> QED
  BY <1>8 DEF Surjection

LEMMA InOrderInit == StatsInit => InOrder
<1> SUFFICES ASSUME StatsInit PROVE InOrder
  OBVIOUS
<1>1. sorted = <<>> /\ phase = "test"
  BY DEF StatsInit
<1>2. sorted \in Seq(Of(job)) /\ Len(sorted) = 0
  BY <1>1
<1> QED
  BY <1>1, <1>2 DEF InOrder

LEMMA InOrderSortNext ==
  ASSUME Growing, InOrder, NEW s \in samples, SortNext(s)
  PROVE  InOrder'
<1>1. /\ phase = "sort" /\ s \in Of(job) /\ UNCHANGED <<samples, phase, job>>
      /\ sorted' = Append(sorted, s) /\ j' = j + 1
      /\ \A i \in 1..Len(sorted) : s # sorted[i]
      /\ \A u \in Of(job) : Before(s, u) \/ \E i \in 1..Len(sorted) : u = sorted[i]
  BY DEF SortNext
<1>2. Of(job)' = Of(job)
  BY <1>1 DEF Of
<1>3. sorted \in Seq(Of(job)) /\ Len(sorted) \in Nat /\ j = Len(sorted) + 1
  BY <1>1 DEF InOrder
<1> DEFINE n == Len(sorted)
<1>4. /\ sorted' \in Seq(Of(job)) /\ Len(sorted') = n + 1 /\ sorted'[n + 1] = s
      /\ \A i \in 1..n : sorted'[i] = sorted[i]
  BY <1>1, <1>3
<1>5. n \in Nat
  BY <1>3
<1>6. \A i \in 1..n : sorted[i] # s /\ sorted[i].time <= s.time
  BY <1>1 DEF InOrder
<1> HIDE DEF n
<1>7. ASSUME NEW i \in 1..n + 1, NEW k \in 1..n + 1, i < k
      PROVE  sorted'[i] # sorted'[k] /\ sorted'[i].time <= sorted'[k].time
  <2>1. i \in 1..n
    BY <1>5, <1>7
  <2>2. CASE k = n + 1
    BY <1>4, <1>6, <2>1, <2>2
  <2>3. CASE k \in 1..n
    <3>1. sorted[i] # sorted[k] /\ sorted[i].time <= sorted[k].time
      BY <1>7, <2>1, <2>3 DEF InOrder, n
    <3> QED
      BY <1>4, <2>1, <2>3, <3>1
  <2> QED
    BY <1>5, <2>2, <2>3
<1>8. ASSUME NEW u \in Of(job)
      PROVE  \/ \E i \in 1..n + 1 : u = sorted'[i]
             \/ \A i \in 1..n + 1 : sorted'[i].time <= u.time
  <2>1. CASE \E i \in 1..n : u = sorted[i]
    <3>1. PICK i \in 1..n : u = sorted[i]
      BY <2>1
    <3>2. i \in 1..n + 1 /\ u = sorted'[i]
      BY <1>4, <1>5, <3>1
    <3> QED
      BY <3>2
  <2>2. CASE ~ \E i \in 1..n : u = sorted[i]
    <3>1. s.time <= u.time
      BY <1>1, <2>2 DEF Before, n
    <3>2. \A i \in 1..n : sorted[i].time <= u.time
      BY <1>1, <2>2 DEF InOrder, n
    <3>3. ASSUME NEW i \in 1..n + 1 PROVE sorted'[i].time <= u.time
      <4>1. CASE i = n + 1
        BY <1>4, <3>1, <4>1
      <4>2. CASE i \in 1..n
        BY <1>4, <3>2, <4>2
      <4> QED
        BY <1>5, <4>1, <4>2
    <3> QED
      BY <3>3
  <2> QED
    BY <2>1, <2>2
<1>9. j' = (n + 1) + 1
  BY <1>1, <1>3 DEF n
<1> QED
  BY <1>1, <1>2, <1>4, <1>7, <1>8, <1>9 DEF InOrder

\* A job begins with nothing sorted.
LEMMA InOrderStart ==
  ASSUME NEW tids, StartJob(tids)
  PROVE  InOrder'
<1>1. sorted' = <<>> /\ j' = 1 /\ phase' = "sort"
  BY DEF StartJob
<1>2. sorted' \in Seq(Of(job)') /\ Len(sorted') = 0
  BY <1>1
<1> QED
  BY <1>1, <1>2 DEF InOrder

LEMMA InOrderEnd ==
  ASSUME Growing, Jobs, InOrder, phase = "sum" \/ (phase = "sort" /\ kind = "stream"), NextJob,
         UNCHANGED <<kind, samples>>
  PROVE  InOrder'
<1>1. CASE kind # "stream" \/ Len(result') = NumThreads + 1
  <2>1. /\ phase' \in {"latency", "done"} /\ UNCHANGED <<job, sorted, j>>
        /\ phase' = "latency" => phase = "sum"
    BY <1>1 DEF NextJob
  <2>2. Of(job)' = Of(job)
    BY <2>1 DEF Of
  <2> QED
    BY <2>1, <2>2 DEF InOrder
<1>2. CASE ~ (kind # "stream" \/ Len(result') = NumThreads + 1)
  BY <1>2, InOrderStart DEF NextJob
<1> QED
  BY <1>1, <1>2

LEMMA InOrderNext ==
  ASSUME Growing, Jobs, InOrder, [StatsNext]_statsVars
  PROVE  InOrder'
<1>1. CASE UNCHANGED <<samples, phase, job, sorted, j>>
  BY <1>1 DEF InOrder, Of
<1>2. CASE Begin
  BY <1>2, InOrderStart DEF Begin
<1>3. CASE TooFew
  <2>1. phase = "sort" /\ UNCHANGED <<kind, samples>>
    BY <1>3 DEF TooFew
  <2>2. CASE kind = "stream"
    BY <1>3, <2>1, <2>2, InOrderEnd DEF TooFew
  <2>3. CASE kind # "stream"
    <3>1. phase' = "early" /\ UNCHANGED <<job, sorted, j>>
      BY <1>3, <2>3 DEF TooFew
    <3>2. Of(job)' = Of(job)
      BY <2>1, <3>1 DEF Of
    <3> QED
      BY <3>1, <3>2 DEF InOrder
  <2> QED
    BY <2>2, <2>3
<1>4. CASE StartSum
  <2>1. /\ phase = "sort" /\ j > Cardinality(Of(job)) /\ phase' = "sum"
        /\ UNCHANGED <<samples, job, sorted>>
    BY <1>4 DEF StartSum
  <2>2. Len(sorted) >= 1
    BY <1>4 DEF StartSum, InOrder
  <2>3. \A u \in Of(job) : \E i \in 1..Len(sorted) : u = sorted[i]
    BY <2>1, SortedAll
  <2>4. Of(job)' = Of(job)
    BY <2>1 DEF Of
  <2> QED
    BY <2>1, <2>2, <2>3, <2>4 DEF InOrder
<1>5. CASE SumDone
  BY <1>5, InOrderEnd DEF SumDone
<1>6. CASE ReportLatency
  <2>1. phase' = "done" /\ UNCHANGED <<samples, job, sorted>>
    BY <1>6 DEF ReportLatency
  <2>2. Of(job)' = Of(job)
    BY <2>1 DEF Of
  <2> QED
    BY <2>1, <2>2 DEF InOrder
<1>7. CASE Tick \/ \E f \in Flows : Work(f) \/ AddSample(f)
  <2>1. phase = "test" /\ UNCHANGED <<phase, sorted>>
    BY <1>7, TestLeaves DEF reportVars
  <2>2. sorted' = <<>>
    BY <2>1 DEF Jobs
  <2>3. sorted' \in Seq(Of(job)') /\ Len(sorted') = 0
    BY <2>2
  <2> QED
    BY <2>1, <2>3 DEF InOrder
<1>8. ASSUME NEW s \in samples, SortNext(s) PROVE InOrder'
  BY <1>8, InOrderSortNext
<1>9. CASE SumNext
  <2>1. phase = "sum" /\ UNCHANGED <<samples, phase, job, sorted>>
    BY <1>9 DEF SumNext
  <2>2. Of(job)' = Of(job)
    BY <2>1 DEF Of
  <2> QED
    BY <2>1, <2>2 DEF InOrder
<1>10. CASE UNCHANGED statsVars
  BY <1>1, <1>10 DEF statsVars
<1> QED
  BY <1>2, <1>3, <1>4, <1>5, <1>6, <1>7, <1>8, <1>9, <1>10 DEF StatsNext
----------------------------------------------------------------------------
(* Places in per_flow.                                                     *)

LEMMA MaxIs ==
  ASSUME NEW S \in SUBSET Nat, IsFiniteSet(S), S # {}
  PROVE  Max(S) \in S /\ \A x \in S : x <= Max(S)
<1> DEFINE Has(R) == \E x \in R : \A y \in R : x >= y
           T == {n \in Nat : \E R \in SUBSET S : R # {} /\ Cardinality(R) = n /\ ~ Has(R)}
<1>1. \A R \in SUBSET S : IsFiniteSet(R) /\ Cardinality(R) \in Nat
  BY FS_Subset, FS_CardinalityType
<1>2. ASSUME T # {} PROVE FALSE
  <2>1. PICK n \in T : \A m \in T : n <= m
    BY <1>2, LeastNat
  <2>2. PICK R \in SUBSET S : R # {} /\ Cardinality(R) = n /\ ~ Has(R)
    BY <2>1
  <2>3. PICK x \in R : TRUE
    BY <2>2
  <2> DEFINE Q == R \ {x}
  <2>4. Cardinality(Q) \in Nat /\ Cardinality(Q) = n - 1 /\ n \in Nat
    BY <1>1, <2>2, Smaller
  <2>5. Q \in SUBSET S /\ x \in Nat
    OBVIOUS
  <2>6. Q # {}
    <3>1. ASSUME Q = {} PROVE Has(R)
      <4>1. \A y \in R : y = x
        BY <3>1
      <4>2. \A y \in R : x >= y
        BY <2>5, <4>1
      <4> QED
        BY <4>2
    <3> QED
      BY <2>2, <3>1
  <2>7. Has(Q)
    <3>1. ASSUME ~ Has(Q) PROVE FALSE
      <4>1. Cardinality(Q) \in T
        BY <2>4, <2>5, <2>6, <3>1
      <4> HIDE DEF T, Q, Has
      <4> QED
        BY <2>1, <2>4, <4>1
    <3> QED
      BY <3>1
  <2>8. PICK z \in Q : \A y \in Q : z >= y
    BY <2>7
  <2>9. CASE x >= z
    <3>1. \A y \in R : x >= y
      BY <2>5, <2>8, <2>9
    <3> QED
      BY <2>2, <3>1
  <2>10. CASE z >= x
    <3>1. \A y \in R : z >= y
      BY <2>5, <2>8, <2>10
    <3> QED
      BY <2>2, <2>8, <3>1
  <2> QED
    BY <2>5, <2>8, <2>9, <2>10
<1>3. Has(S)
  <2>1. S \in SUBSET S /\ Cardinality(S) \in Nat
    BY <1>1
  <2> HIDE DEF Has
  <2> QED
    BY <1>2, <2>1
<1>4. Max(S) \in S /\ \A y \in S : Max(S) >= y
  BY <1>3 DEF Max
<1> QED
  BY <1>4

LEMMA MinIs ==
  ASSUME NEW S \in SUBSET Nat, S # {}
  PROVE  Min(S) \in S /\ \A x \in S : Min(S) <= x
<1>1. \E x \in S : \A y \in S : x <= y
  BY LeastNat
<1> QED
  BY <1>1 DEF Min

LEMMA ImageFinite ==
  ASSUME NEW S, IsFiniteSet(S), NEW F, DOMAIN F = S, F = [x \in S |-> F[x]]
  PROVE  IsFiniteSet({F[x] : x \in S})
<1>1. F \in Surjection(S, {F[x] : x \in S})
  BY DEF Surjection
<1> QED
  BY <1>1, FS_Surjection

\* A number less than n is its own remainder.
LEMMA OwnRemainder ==
  ASSUME NEW n \in Nat \ {0}, NEW t \in 0..n - 1
  PROVE  t % n = t
<1>1. \A m \in Nat \ {0} : \A x \in Nat : x < m => x % m = x
  OBVIOUS
<1> QED
  BY <1>1

\* The workers of a job have places of their own.
LEMMA JobPlaces ==
  ASSUME NEW tids, JobOf(tids), NEW t \in tids, NEW u \in tids,
         t % Cardinality(tids) = u % Cardinality(tids)
  PROVE  t = u
<1>1. CASE tids = Tids
  <2>1. NumThreads \in Nat \ {0}
    BY StatsAssumption
  <2>2. Cardinality(Tids) = NumThreads
    <3>1. Cardinality(0..NumThreads - 1) = IF 0 > NumThreads - 1 THEN 0 ELSE NumThreads - 1 - 0 + 1
      BY <2>1, FS_Interval
    <3> QED
      BY <2>1, <3>1 DEF Tids
  <2>3. t % NumThreads = t /\ u % NumThreads = u
    BY <1>1, <2>1, OwnRemainder DEF Tids
  <2> QED
    BY <1>1, <2>2, <2>3
<1> QED
  BY <1>1 DEF JobOf

LEMMA FlowsOfFinite ==
  ASSUME Growing, NEW tids
  PROVE  IsFiniteSet(FlowsOf(tids))
<1> DEFINE F == [s \in Of(tids) |-> <<s.tid, s.flow_id>>]
<1>1. FlowsOf(tids) = {F[s] : s \in Of(tids)}
  BY DEF FlowsOf
<1>2. DOMAIN F = Of(tids) /\ F = [s \in Of(tids) |-> F[s]]
  OBVIOUS
<1> HIDE DEF F
<1> QED
  BY <1>1, <1>2, OfFinite, ImageFinite

LEMMA IdsBounded ==
  ASSUME Growing, NEW s \in samples
  PROVE  s.flow_id \in 0..Max({0} \union {u.flow_id : u \in Of({s.tid})})
<1> DEFINE F == [u \in Of({s.tid}) |-> u.flow_id]
           S == {0} \union {u.flow_id : u \in Of({s.tid})}
<1>1. {u.flow_id : u \in Of({s.tid})} = {F[u] : u \in Of({s.tid})}
  OBVIOUS
<1>2. DOMAIN F = Of({s.tid}) /\ F = [u \in Of({s.tid}) |-> F[u]]
  OBVIOUS
<1>3. IsFiniteSet({u.flow_id : u \in Of({s.tid})})
  <2> HIDE DEF F
  <2>1. IsFiniteSet({F[u] : u \in Of({s.tid})})
    BY <1>2, OfFinite, ImageFinite
  <2> QED
    BY <1>1, <2>1
<1>4. IsFiniteSet({u.flow_id : u \in Of({s.tid})} \union {0})
  BY <1>3, FS_AddElement
<1>5. S = {u.flow_id : u \in Of({s.tid})} \union {0}
  OBVIOUS
<1>6. S \in SUBSET Nat /\ IsFiniteSet(S) /\ S # {}
  BY <1>4, <1>5 DEF Of, Growing, Sample
<1>7. s.flow_id \in S /\ s.flow_id \in Nat
  BY DEF Of, Growing, Sample
<1>8. Max(S) \in Nat /\ s.flow_id <= Max(S)
  BY <1>6, <1>7, MaxIs
<1> HIDE DEF S
<1>9. s.flow_id \in 0..Max(S)
  BY <1>7, <1>8
<1> QED
  BY <1>9 DEF S

LEMMA PlaceIs ==
  ASSUME Growing, NEW s \in Of(job)
  PROVE  /\ Index(s, Cardinality(job)) = Place(FlowOf(s)) /\ Place(FlowOf(s)) \in Allocated(job)
         /\ FlowOf(s)[1] = s.tid /\ FlowOf(s)[2] = s.flow_id /\ s.tid \in job
<1>1. s \in samples /\ s.tid \in job
  BY DEF Of
<1>2. s.flow_id \in 0..Max({0} \union {u.flow_id : u \in Of({s.tid})})
  BY <1>1, IdsBounded
<1>3. <<s.tid % Cardinality(job), s.flow_id>>
        \in {s.tid % Cardinality(job)} \X (0..Max({0} \union {u.flow_id : u \in Of({s.tid})}))
  BY <1>2
<1>4. <<s.tid % Cardinality(job), s.flow_id>> \in Allocated(job)
  BY <1>1, <1>3 DEF Allocated
<1> QED
  BY <1>1, <1>4 DEF Index, Place, FlowOf

LEMMA OnePlace ==
  ASSUME Growing, JobOf(job), NEW f \in FlowsOf(job), NEW g \in FlowsOf(job)
  PROVE  Place(f) \in Allocated(job) /\ (Place(f) = Place(g) => f = g)
<1>1. PICK s \in Of(job) : f = FlowOf(s)
  BY DEF FlowsOf, FlowOf
<1>2. PICK u \in Of(job) : g = FlowOf(u)
  BY DEF FlowsOf, FlowOf
<1>3. Place(f) \in Allocated(job)
  BY <1>1, PlaceIs
<1>4. f = <<s.tid, s.flow_id>> /\ g = <<u.tid, u.flow_id>>
  BY <1>1, <1>2 DEF FlowOf
<1>5. ASSUME Place(f) = Place(g) PROVE f = g
  <2>1. s.tid % Cardinality(job) = u.tid % Cardinality(job) /\ s.flow_id = u.flow_id
    BY <1>4, <1>5 DEF Place
  <2>2. s.tid = u.tid
    BY <2>1, PlaceIs, JobPlaces
  <2> QED
    BY <1>4, <2>1, <2>2
<1> QED
  BY <1>3, <1>5
----------------------------------------------------------------------------
(* The totals of a job.                                                    *)

LEMMA AddingInit == StatsInit => Adding
  BY DEF StatsInit, Adding

\* A sum begins or goes on.
LEMMA AddingFrame ==
  ASSUME UNCHANGED <<samples, job, sorted>>, j' \in Int, Added(j' - 1, per_flow', current_total')
  PROVE  Adding'
<1>1. /\ Of(job)' = Of(job) /\ job' = job /\ sorted' = sorted
      /\ \A tids : Of(tids)' = Of(tids)
  BY DEF Of
<1>2. Allocated(job)' = Allocated(job) /\ FlowsOf(job)' = FlowsOf(job)
  BY <1>1 DEF Allocated, FlowsOf
<1>3. \A f : Place(f)' = Place(f)
  BY <1>1 DEF Place
<1> HIDE DEF Allocated, FlowsOf, Place
<1> QED
  BY <1>1, <1>2, <1>3 DEF Adding, Added, FlowOf

LEMMA AddedStart ==
  ASSUME Growing, Jobs, InOrder, StartSum
  PROVE  Added(1, per_flow', current_total') /\ 1 \in 1..Len(sorted)
<1>1. /\ phase = "sort" /\ current_total' = sorted[1].count
      /\ per_flow' = [x \in Allocated(job) |->
                        IF x = Index(sorted[1], Cardinality(job)) THEN sorted[1].count ELSE 0]
  BY DEF StartSum
<1>2. 1 \in 1..Len(sorted)
  BY DEF StartSum, InOrder
<1> DEFINE c == sorted[1].count
           g == FlowOf(sorted[1])
<1>3. c \in Nat /\ g \in FlowsOf(job) /\ sorted[1] \in Of(job)
  BY <1>2, SortedIs
<1>4. JobOf(job) /\ Index(sorted[1], Cardinality(job)) = Place(g)
  BY <1>1, <1>3, JobIsTids, PlaceIs
<1>5. per_flow' \in [Allocated(job) -> Nat]
  BY <1>1, <1>3
<1>6. per_flow'[Place(g)] = c
  BY <1>1, <1>3, <1>4, OnePlace
<1>7. ASSUME NEW f \in FlowsOf(job), f # g PROVE per_flow'[Place(f)] = 0
  <2>1. Place(f) \in Allocated(job) /\ Place(f) # Place(g)
    BY <1>3, <1>4, <1>7, OnePlace
  <2> QED
    BY <1>1, <1>4, <2>1
<1> DEFINE F == [f \in FlowsOf(job) |-> per_flow'[Place(f)]]
<1>8. F \in [FlowsOf(job) -> Int] /\ F[g] = c /\ \A f \in FlowsOf(job) : f # g => F[f] = 0
  BY <1>3, <1>6, <1>7
<1>9. SumFunction(F) = c
  <2> HIDE DEF F, c, g
  <2> QED
    BY <1>3, <1>8, FlowsOfFinite, SumOne
<1>10. \A i \in 1..1 : i = 1
  OBVIOUS
<1>11. \A i \in 1..1 : sorted[i].count <= per_flow'[Place(FlowOf(sorted[i]))]
  <2>1. c <= per_flow'[Place(g)]
    BY <1>3, <1>6
  <2> QED
    BY <1>10, <2>1
<1>12. \A f \in FlowsOf(job) : \/ per_flow'[Place(f)] = 0
                              \/ \E i \in 1..1 : FlowOf(sorted[i]) = f /\ sorted[i].count = per_flow'[Place(f)]
  BY <1>6, <1>7
<1>13. current_total' \in Int /\ current_total' = SumFunction(F)
  BY <1>1, <1>3, <1>9
<1> QED
  BY <1>2, <1>5, <1>11, <1>12, <1>13 DEF Added

\* A flow's counts in per_flow are not above the one that replaces them.
LEMMA CountGrows ==
  ASSUME Growing, Jobs, InOrder, Adding, SumNext
  PROVE  /\ j \in 1..Len(sorted) /\ j - 1 \in 1..Len(sorted)
         /\ per_flow[Place(FlowOf(sorted[j]))] \in Nat
         /\ per_flow[Place(FlowOf(sorted[j]))] <= sorted[j].count
         /\ \A i \in 1..j - 1 : FlowOf(sorted[i]) = FlowOf(sorted[j]) => sorted[i].count <= sorted[j].count
<1>1. phase = "sum" /\ j <= Len(sorted)
  BY DEF SumNext
<1>2. j \in Int /\ Added(j - 1, per_flow, current_total)
  BY <1>1 DEF Adding
<1>3. Len(sorted) \in Nat /\ j - 1 \in 1..Len(sorted)
  BY <1>2 DEF Added, InOrder
<1>4. j \in 1..Len(sorted)
  BY <1>1, <1>2, <1>3
<1> DEFINE f == FlowOf(sorted[j])
<1>5. f \in FlowsOf(job) /\ sorted[j].count \in Nat /\ sorted[j] \in samples
  BY <1>4, SortedIs
<1>6. ASSUME NEW i \in 1..j - 1, FlowOf(sorted[i]) = f PROVE sorted[i].count <= sorted[j].count
  <2>1. i \in 1..Len(sorted) /\ i < j
    BY <1>3, <1>4
  <2>2. sorted[i].time <= sorted[j].time /\ sorted[i] \in samples
    BY <1>4, <2>1, SortedIs DEF InOrder
  <2> QED
    BY <1>5, <1>6, <2>2 DEF Growing
<1>7. Place(f) \in Allocated(job)
  BY <1>1, <1>5, JobIsTids, OnePlace
<1>8. per_flow[Place(f)] \in Nat
  BY <1>2, <1>7 DEF Added
<1>9. per_flow[Place(f)] <= sorted[j].count
  <2>1. CASE per_flow[Place(f)] = 0
    BY <1>5, <2>1
  <2>2. CASE per_flow[Place(f)] # 0
    <3>1. PICK i \in 1..j - 1 : FlowOf(sorted[i]) = f /\ sorted[i].count = per_flow[Place(f)]
      BY <1>2, <1>5, <2>2 DEF Added
    <3> QED
      BY <1>6, <3>1
  <2> QED
    BY <2>1, <2>2
<1> QED
  BY <1>3, <1>4, <1>6, <1>8, <1>9

LEMMA AddedNext ==
  ASSUME Growing, Jobs, InOrder, Adding, SumNext
  PROVE  Added(j, per_flow', current_total')
<1> DEFINE c == sorted[j].count
           g == FlowOf(sorted[j])
           x == Place(g)
<1>1. /\ j \in 1..Len(sorted) /\ j - 1 \in 1..Len(sorted) /\ per_flow[x] \in Nat
      /\ \A i \in 1..j - 1 : FlowOf(sorted[i]) = g => sorted[i].count <= c
  BY CountGrows
<1>2. phase = "sum" /\ JobOf(job) /\ Added(j - 1, per_flow, current_total)
  BY JobIsTids DEF SumNext, Adding
<1>3. c \in Nat /\ g \in FlowsOf(job) /\ sorted[j] \in Of(job)
  BY <1>1, SortedIs
<1>4. Index(sorted[j], Cardinality(job)) = x /\ x \in Allocated(job)
  BY <1>3, PlaceIs
<1>5. /\ current_total' = current_total - per_flow[x] + c
      /\ per_flow' = [per_flow EXCEPT ![x] = c]
  BY <1>4 DEF SumNext, Replaced
<1> HIDE DEF c, g, x
<1>6. per_flow \in [Allocated(job) -> Nat] /\ current_total \in Int
  BY <1>2 DEF Added
<1>7. per_flow' \in [Allocated(job) -> Nat] /\ current_total' \in Int
  <2>1. per_flow' \in [Allocated(job) -> Nat]
    BY <1>3, <1>5, <1>6
  <2>2. current_total' \in Int
    BY <1>1, <1>3, <1>5, <1>6
  <2> QED
    BY <2>1, <2>2
<1>8. per_flow'[x] = c
  BY <1>4, <1>5, <1>6
<1>9. ASSUME NEW f \in FlowsOf(job), f # g PROVE per_flow'[Place(f)] = per_flow[Place(f)]
  <2>1. Place(f) \in Allocated(job) /\ Place(f) # x
    BY <1>2, <1>3, <1>9, OnePlace DEF x
  <2> QED
    BY <1>5, <1>6, <2>1
<1>10. ASSUME NEW i \in 1..j PROVE sorted[i].count <= per_flow'[Place(FlowOf(sorted[i]))]
  <2>1. i \in 1..Len(sorted)
    BY <1>1
  <2>2. CASE FlowOf(sorted[i]) = g
    <3>1. CASE i = j
      <4>1. sorted[i].count = c
        BY <3>1 DEF c
      <4> QED
        BY <1>3, <1>8, <2>2, <4>1 DEF x
    <3>2. CASE i # j
      <4>1. i \in 1..j - 1
        BY <1>1, <3>2
      <4> QED
        BY <1>1, <1>8, <2>2, <4>1 DEF x
    <3> QED
      BY <3>1, <3>2
  <2>3. CASE FlowOf(sorted[i]) # g
    <3>1. i \in 1..j - 1
      BY <1>1, <2>3 DEF g
    <3>2. FlowOf(sorted[i]) \in FlowsOf(job)
      BY <2>1, SortedIs
    <3>3. sorted[i].count <= per_flow[Place(FlowOf(sorted[i]))]
      BY <1>2, <3>1 DEF Added
    <3> QED
      BY <1>9, <2>3, <3>2, <3>3
  <2> QED
    BY <2>2, <2>3
<1>11. ASSUME NEW f \in FlowsOf(job)
       PROVE  \/ per_flow'[Place(f)] = 0
              \/ \E i \in 1..j : FlowOf(sorted[i]) = f /\ sorted[i].count = per_flow'[Place(f)]
  <2>1. CASE f = g
    <3>1. j \in 1..j /\ FlowOf(sorted[j]) = f /\ sorted[j].count = per_flow'[Place(f)]
      BY <1>1, <1>8, <2>1 DEF g, c, x
    <3> QED
      BY <3>1
  <2>2. CASE f # g
    <3>1. \A i \in 1..j - 1 : i \in 1..j
      BY <1>1
    <3>2. \/ per_flow[Place(f)] = 0
          \/ \E i \in 1..j - 1 : FlowOf(sorted[i]) = f /\ sorted[i].count = per_flow[Place(f)]
      BY <1>2 DEF Added
    <3> QED
      BY <1>9, <2>2, <3>1, <3>2
  <2> QED
    BY <2>1, <2>2
<1> DEFINE F == [f \in FlowsOf(job) |-> per_flow[Place(f)]]
           G == [f \in FlowsOf(job) |-> per_flow'[Place(f)]]
<1>12. \A f \in FlowsOf(job) : Place(f) \in Allocated(job)
  BY <1>2, OnePlace
<1>13. /\ F \in [FlowsOf(job) -> Int] /\ G \in [FlowsOf(job) -> Int]
       /\ \A f \in FlowsOf(job) : f # g => G[f] = F[f]
  BY <1>6, <1>7, <1>9, <1>12
<1>14. F[g] = per_flow[x] /\ G[g] = c
  BY <1>3, <1>8 DEF x
<1>15. SumFunction(G) = current_total'
  <2>1. current_total = SumFunction(F)
    BY <1>2 DEF Added
  <2> HIDE DEF F, G
  <2>2. SumFunction(G) = SumFunction(F) - F[g] + G[g]
    BY <1>3, <1>13, FlowsOfFinite, SumExcept
  <2> QED
    BY <1>5, <1>14, <2>1, <2>2
<1> QED
  BY <1>1, <1>7, <1>10, <1>11, <1>15 DEF Added

LEMMA AddingNext ==
  ASSUME Growing, Jobs, InOrder, Adding, [StatsNext]_statsVars
  PROVE  Adding'
<1>1. CASE phase' # "sum"
  BY <1>1 DEF Adding
<1>2. CASE StartSum
  <2>1. UNCHANGED <<samples, job, sorted>> /\ j' = 2
    BY <1>2 DEF StartSum
  <2>2. j' \in Int /\ j' - 1 = 1
    BY <2>1
  <2>3. Added(j' - 1, per_flow', current_total')
    BY <1>2, <2>2, AddedStart
  <2> QED
    BY <2>1, <2>2, <2>3, AddingFrame
<1>3. CASE SumNext
  <2>1. UNCHANGED <<samples, job, sorted>> /\ j' = j + 1 /\ j \in Int
    BY <1>3 DEF SumNext, Adding
  <2>2. j' \in Int /\ j' - 1 = j
    BY <2>1
  <2>3. Added(j' - 1, per_flow', current_total')
    BY <1>3, <2>2, AddedNext
  <2> QED
    BY <2>1, <2>2, <2>3, AddingFrame
<1>4. CASE UNCHANGED statsVars
  <2>1. UNCHANGED <<samples, job, sorted, j, per_flow, current_total, phase>>
    BY <1>4 DEF statsVars
  <2>2. CASE phase = "sum"
    <3>1. j' \in Int /\ Added(j' - 1, per_flow', current_total')
      BY <2>1, <2>2 DEF Adding
    <3> QED
      BY <2>1, <3>1, AddingFrame
  <2> QED
    BY <1>1, <2>1, <2>2
<1>5. CASE Begin \/ TooFew \/ SumDone \/ ReportLatency \/ \E s \in samples : SortNext(s)
  <2>1. phase' # "sum"
    BY <1>5 DEF Begin, StartJob, TooFew, NextJob, SumDone, ReportLatency, SortNext
  <2> QED
    BY <1>1, <2>1
<1>6. CASE Tick \/ \E f \in Flows : Work(f) \/ AddSample(f)
  <2>1. phase' # "sum"
    BY <1>6, TestLeaves DEF reportVars
  <2> QED
    BY <1>1, <2>1
<1> QED
  BY <1>2, <1>3, <1>4, <1>5, <1>6 DEF StatsNext

LEMMA NeverWrapsNext ==
  ASSUME Growing, Jobs, InOrder, Adding, NeverWraps, [StatsNext]_statsVars
  PROVE  NeverWraps'
<1>1. CASE UNCHANGED <<phase, sorted, per_flow, current_total>>
  BY <1>1 DEF NeverWraps
<1>2. CASE phase' # "sum"
  BY <1>2 DEF NeverWraps
<1>3. CASE StartSum
  <2>1. /\ current_total' = sorted[1].count /\ sorted' = sorted /\ phase = "sort"
        /\ per_flow' = [x \in Allocated(job) |->
                          IF x = Index(sorted[1], Cardinality(job)) THEN sorted[1].count ELSE 0]
    BY <1>3 DEF StartSum
  <2>2. sorted[1].count \in Nat
    BY <1>3, AddedStart, SortedIs
  <2>3. \A x \in DOMAIN per_flow' : per_flow'[x] = sorted[1].count \/ per_flow'[x] = 0
    BY <2>1
  <2> QED
    BY <2>1, <2>2, <2>3 DEF NeverWraps
<1>4. CASE SumNext
  <2> DEFINE c == sorted[j].count
             y == Place(FlowOf(sorted[j]))
  <2>1. j \in 1..Len(sorted) /\ per_flow[y] \in Nat /\ per_flow[y] <= c
    BY <1>4, CountGrows
  <2>2. c \in Nat /\ sorted[j] \in Of(job)
    BY <2>1, SortedIs
  <2>3. Index(sorted[j], Cardinality(job)) = y /\ y \in Allocated(job)
    BY <2>2, PlaceIs
  <2>4. /\ current_total' = current_total - per_flow[y] + c
        /\ per_flow' = [per_flow EXCEPT ![y] = c] /\ sorted' = sorted /\ phase = "sum"
    BY <1>4, <2>3 DEF SumNext, Replaced
  <2>5. per_flow \in [Allocated(job) -> Nat] /\ current_total \in Int
    BY <2>4 DEF Adding, Added
  <2>6. current_total >= per_flow[y]
    BY <2>3, <2>4, <2>5 DEF NeverWraps
  <2>7. 1 \in 1..Len(sorted)
    BY <2>1
  <2>8. sorted[1].count \in Nat /\ current_total >= sorted[1].count
    BY <2>4, <2>7, SortedIs DEF NeverWraps
  <2> HIDE DEF c, y
  <2>9. current_total' \in Int /\ current_total' >= current_total /\ current_total' >= c
    BY <2>1, <2>2, <2>4, <2>5, <2>6
  <2>10. current_total' >= sorted[1].count
    BY <2>5, <2>8, <2>9
  <2>11. ASSUME NEW x \in DOMAIN per_flow' PROVE current_total' >= per_flow'[x]
    <3>1. x \in Allocated(job)
      BY <2>4, <2>5
    <3>2. CASE x = y
      BY <2>4, <2>5, <2>9, <3>1, <3>2
    <3>3. CASE x # y
      <4>1. per_flow'[x] = per_flow[x] /\ per_flow[x] \in Nat /\ current_total >= per_flow[x]
        BY <2>4, <2>5, <3>1, <3>3 DEF NeverWraps
      <4> QED
        BY <2>5, <2>9, <4>1
    <3> QED
      BY <3>2, <3>3
  <2> QED
    BY <2>4, <2>10, <2>11 DEF NeverWraps
<1>5. CASE Begin \/ TooFew \/ SumDone \/ ReportLatency \/ \E s \in samples : SortNext(s)
  <2>1. phase' # "sum"
    BY <1>5 DEF Begin, StartJob, TooFew, NextJob, SumDone, ReportLatency, SortNext
  <2> QED
    BY <1>2, <2>1
<1>6. CASE Tick \/ \E f \in Flows : Work(f) \/ AddSample(f)
  BY <1>1, <1>6, TestLeaves DEF reportVars
<1>7. CASE UNCHANGED statsVars
  BY <1>1, <1>7 DEF statsVars
<1> QED
  BY <1>3, <1>4, <1>5, <1>6, <1>7 DEF StatsNext

LEMMA MaxUnique ==
  ASSUME NEW S \in SUBSET Nat, NEW m \in S, \A x \in S : x <= m
  PROVE  Max(S) = m
<1>1. \A x \in S : m >= x
  OBVIOUS
<1>2. Max(S) \in S /\ \A x \in S : Max(S) >= x
  BY <1>1 DEF Max
<1>3. Max(S) \in Nat /\ m \in Nat /\ Max(S) >= m /\ Max(S) <= m
  BY <1>2
<1> QED
  BY <1>3

LEMMA MinUnique ==
  ASSUME NEW S \in SUBSET Nat, NEW m \in S, \A x \in S : m <= x
  PROVE  Min(S) = m
<1>1. Min(S) \in S /\ \A x \in S : Min(S) <= x
  BY MinIs
<1>2. Min(S) \in Nat /\ m \in Nat /\ Min(S) <= m /\ m <= Min(S)
  BY <1>1
<1> QED
  BY <1>2

\* What SumDone divides.
LEMMA EndOfSum ==
  ASSUME Growing, Jobs, InOrder, Adding, phase = "sum", j > Len(sorted)
  PROVE  /\ sorted[1] \in Of(job) /\ current_total = LastCounts(job)
         /\ sorted[1].time = Min(Times(job)) /\ sorted[Len(sorted)].time = Max(Times(job))
<1>1. Len(sorted) \in Nat /\ j \in Int /\ Added(j - 1, per_flow, current_total)
  BY DEF InOrder, Adding
<1>2. j - 1 \in 1..Len(sorted)
  BY <1>1 DEF Added
<1> DEFINE n == Len(sorted)
<1>3. n \in Nat /\ j - 1 = n /\ 1 \in 1..n /\ n \in 1..n
  BY <1>1, <1>2
<1>4. \A u \in Of(job) : \E i \in 1..n : u = sorted[i]
  BY DEF InOrder
<1>5. \A i \in 1..n : sorted[i] \in Of(job) /\ sorted[i].time \in Nat /\ sorted[i].count \in Nat
  BY SortedIs
<1>6. Times(job) \in SUBSET Nat
  BY DEF Times, Of, Growing, Sample
<1>7. sorted[1].time = Min(Times(job))
  <2>1. sorted[1].time \in Times(job)
    BY <1>3, <1>5 DEF Times
  <2>2. ASSUME NEW i \in 1..n PROVE sorted[1].time <= sorted[i].time
    BY <1>3, <1>5 DEF InOrder
  <2>3. \A x \in Times(job) : sorted[1].time <= x
    BY <1>4, <2>2 DEF Times
  <2> QED
    BY <1>6, <2>1, <2>3, MinUnique
<1>8. sorted[n].time = Max(Times(job))
  <2>1. sorted[n].time \in Times(job)
    BY <1>3, <1>5 DEF Times
  <2>2. ASSUME NEW i \in 1..n PROVE sorted[i].time <= sorted[n].time
    BY <1>3, <1>5 DEF InOrder
  <2>3. \A x \in Times(job) : x <= sorted[n].time
    BY <1>4, <2>2 DEF Times
  <2> QED
    BY <1>6, <2>1, <2>3, MaxUnique
<1>9. ASSUME NEW f \in FlowsOf(job) PROVE per_flow[Place(f)] = Max(Counts(f, job))
  <2> DEFINE m == per_flow[Place(f)]
  <2>1. JobOf(job)
    BY JobIsTids
  <2>2. m \in Nat
    BY <1>1, <2>1, OnePlace DEF Added
  <2>3. Counts(f, job) \in SUBSET Nat
    BY DEF Counts, Of, Growing, Sample
  <2>4. ASSUME NEW i \in 1..n, FlowOf(sorted[i]) = f PROVE sorted[i].count <= m
    BY <1>1, <1>3, <2>4 DEF Added
  <2>5. ASSUME NEW x \in Counts(f, job) PROVE x <= m
    <3>1. PICK s \in Of(job) : FlowOf(s) = f /\ x = s.count
      BY DEF Counts, FlowOf
    <3> QED
      BY <1>4, <2>4, <3>1
  <2>6. ASSUME NEW i \in 1..n, FlowOf(sorted[i]) = f PROVE sorted[i].count \in Counts(f, job)
    BY <1>5, <2>6 DEF Counts, FlowOf
  <2>7. m \in Counts(f, job)
    <3>1. CASE m = 0
      <4>1. PICK s \in Of(job) : f = FlowOf(s)
        BY DEF FlowsOf, FlowOf
      <4>2. PICK i \in 1..n : s = sorted[i]
        BY <1>4
      <4>3. sorted[i].count \in Counts(f, job) /\ sorted[i].count <= m /\ sorted[i].count \in Nat
        BY <1>5, <2>4, <2>6, <4>1, <4>2
      <4>4. sorted[i].count = m
        BY <3>1, <4>3
      <4> QED
        BY <4>3, <4>4
    <3>2. CASE m # 0
      <4>1. PICK i \in 1..n : FlowOf(sorted[i]) = f /\ sorted[i].count = m
        BY <1>1, <1>3, <3>2 DEF Added
      <4> QED
        BY <2>6, <4>1
    <3> QED
      BY <3>1, <3>2
  <2> HIDE DEF m
  <2>8. Max(Counts(f, job)) = m
    BY <2>3, <2>5, <2>7, MaxUnique
  <2> QED
    BY <2>8 DEF m
<1>10. [f \in FlowsOf(job) |-> per_flow[Place(f)]] = [f \in FlowsOf(job) |-> Max(Counts(f, job))]
  BY <1>9
<1>11. current_total = LastCounts(job)
  BY <1>1, <1>10 DEF Added, LastCounts
<1> QED
  BY <1>3, <1>5, <1>7, <1>8, <1>11

\* One of the results that TotalsAddUp is about.
Right(r) ==
  Of(r.job) # {} =>
    /\ \E s \in Of(r.job) : s.time = Min(Times(r.job)) /\ r.total = LastCounts(r.job) - s.count
    /\ r.duration = Max(Times(r.job)) - Min(Times(r.job))

LEMMA TotalsAre == TotalsAddUp <=> \A i \in 1..Len(result) : Right(result[i])
  BY DEF TotalsAddUp, Right

\* Samples that do not change leave results right.
LEMMA RightFrame ==
  ASSUME UNCHANGED samples, NEW r, Right(r)
  PROVE  Right(r)'
<1>1. \A tids : Of(tids)' = Of(tids)
  BY DEF Of
<1>2. \A tids : Times(tids)' = Times(tids) /\ FlowsOf(tids)' = FlowsOf(tids)
  BY <1>1 DEF Times, FlowsOf
<1>3. \A f, tids : Counts(f, tids)' = Counts(f, tids)
  BY <1>1 DEF Counts
<1>4. \A tids : LastCounts(tids)' = LastCounts(tids)
  BY <1>2, <1>3 DEF LastCounts
<1> QED
  BY <1>1, <1>2, <1>4 DEF Right

LEMMA RightAppend ==
  ASSUME Jobs, TotalsAddUp, UNCHANGED samples, NEW r, result' = Append(result, r), Right(r)
  PROVE  TotalsAddUp'
<1>1. /\ Len(result) \in Nat /\ Len(result') = Len(result) + 1 /\ result'[Len(result) + 1] = r
      /\ \A i \in 1..Len(result) : result'[i] = result[i]
  BY DEF Jobs
<1>2. ASSUME NEW i \in 1..Len(result') PROVE Right(result[i])'
  <2>1. PICK q : q = result'[i]
    OBVIOUS
  <2>2. Right(q)
    <3>1. CASE i = Len(result) + 1
      BY <1>1, <2>1, <3>1
    <3>2. CASE i \in 1..Len(result)
      BY <1>1, <2>1, <3>2, TotalsAre
    <3> QED
      BY <1>1, <3>1, <3>2
  <2>3. Right(q)'
    BY <2>2, RightFrame
  <2> QED
    BY <2>1, <2>3 DEF Right
<1> QED
  BY <1>2 DEF TotalsAddUp, Right

LEMMA TotalsNext ==
  ASSUME Growing, Jobs, InOrder, Adding, TotalsAddUp, [StatsNext]_statsVars
  PROVE  TotalsAddUp'
<1>1. CASE UNCHANGED <<samples, result>>
  <2>1. ASSUME NEW i \in 1..Len(result') PROVE Right(result[i])'
    <3>1. PICK q : q = result[i] /\ q = result'[i]
      BY <1>1
    <3>2. Right(q)
      BY <1>1, <3>1, TotalsAre
    <3>3. Right(q)'
      BY <1>1, <3>2, RightFrame
    <3> QED
      BY <3>1, <3>3 DEF Right
  <2> QED
    BY <2>1 DEF TotalsAddUp, Right
<1>2. CASE TooFew
  <2>1. CASE kind = "stream"
    <3>1. PICK r : r = [job |-> job, total |-> 0, duration |-> 0]
      OBVIOUS
    <3>2. result' = Append(result, r) /\ samples' = samples
      BY <1>2, <2>1, <3>1 DEF TooFew
    <3>3. phase = "sort" /\ j > Cardinality(Of(job)) /\ sorted = <<>>
      BY <1>2, <2>1 DEF TooFew
    <3>4. Of(r.job) = {}
      BY <3>1, <3>3, SortedAll
    <3>5. Right(r)
      BY <3>4 DEF Right
    <3> QED
      BY <3>2, <3>5, RightAppend
  <2>2. CASE kind # "stream"
    BY <1>1, <1>2, <2>2 DEF TooFew
  <2> QED
    BY <2>1, <2>2
<1>3. CASE SumDone
  <2>1. PICK r : r = [job |-> job, total |-> current_total - sorted[1].count,
                      duration |-> sorted[Len(sorted)].time - sorted[1].time]
    OBVIOUS
  <2>2. result' = Append(result, r) /\ samples' = samples /\ phase = "sum" /\ j > Len(sorted)
    BY <1>3, <2>1 DEF SumDone
  <2>3. /\ sorted[1] \in Of(job) /\ current_total = LastCounts(job)
        /\ sorted[1].time = Min(Times(job)) /\ sorted[Len(sorted)].time = Max(Times(job))
    BY <2>2, EndOfSum
  <2>4. /\ r.job = job /\ r.total = LastCounts(job) - sorted[1].count
        /\ r.duration = Max(Times(job)) - Min(Times(job))
    BY <2>1, <2>3
  <2>5. Right(r)
    BY <2>3, <2>4 DEF Right
  <2> QED
    BY <2>2, <2>5, RightAppend
<1>4. CASE Tick \/ \E f \in Flows : Work(f) \/ AddSample(f)
  <2>1. phase = "test" /\ result' = result
    BY <1>4, TestLeaves DEF reportVars
  <2>2. result' = <<>>
    BY <2>1 DEF Jobs
  <2>3. Len(result') = 0
    BY <2>2
  <2> QED
    BY <2>3 DEF TotalsAddUp
<1>5. CASE Begin \/ StartSum \/ SumNext \/ ReportLatency \/ \E s \in samples : SortNext(s)
  BY <1>1, <1>5 DEF Begin, StartSum, SumNext, ReportLatency, SortNext
<1>6. CASE UNCHANGED statsVars
  BY <1>1, <1>6 DEF statsVars
<1> QED
  BY <1>2, <1>3, <1>4, <1>5, <1>6 DEF StatsNext
----------------------------------------------------------------------------
(* Lists of latencies.                                                     *)

LEMMA UptoInd ==
  ASSUME NEW m \in Nat, NEW T, 0 \in T, \A n \in 0..m - 1 : n \in T => n + 1 \in T
  PROVE  \A n \in 0..m : n \in T
<1> DEFINE U == {n \in 0..m : n \notin T}
<1>1. ASSUME U # {} PROVE FALSE
  <2>1. U \in SUBSET Nat
    OBVIOUS
  <2>2. PICK n \in U : \A k \in U : n <= k
    BY <1>1, <2>1, LeastNat
  <2>3. n \in 0..m /\ n \notin T /\ n # 0
    BY <2>2
  <2>4. n - 1 \in 0..m - 1 /\ n - 1 \in 0..m /\ (n - 1) + 1 = n /\ ~ (n <= n - 1)
    BY <2>3
  <2>5. n - 1 \in T
    <3>1. ASSUME n - 1 \notin T PROVE FALSE
      <4>1. n - 1 \in U
        BY <2>4, <3>1
      <4> HIDE DEF U
      <4> QED
        BY <2>2, <2>4, <4>1
    <3> QED
      BY <3>1
  <2> QED
    BY <2>3, <2>4, <2>5
<1> QED
  BY <1>1

\* g[b] is the concatenation of the first b of some sequences.
IsJoin(g, lst, E) ==
  /\ g \in [0..Len(lst) -> Seq(E)] /\ g[0] = <<>>
  /\ \A b \in 1..Len(lst) : g[b] = g[b - 1] \o lst[b]

LEMMA ConcatIs ==
  ASSUME NEW E, NEW s \in Seq(E), NEW t \in Seq(E)
  PROVE  s \o t \in Seq(E) /\ Len(s \o t) = Len(s) + Len(t) /\ Len(s) \in Nat /\ Len(t) \in Nat
  OBVIOUS

LEMMA JoinExists ==
  ASSUME NEW E, NEW lst \in Seq(Seq(E))
  PROVE  \E g : IsJoin(g, lst, E)
<1> DEFINE m == Len(lst)
           Step(g, b) == g[b] = g[b - 1] \o lst[b]
           Has(n) == \E g \in [0..n -> Seq(E)] : g[0] = <<>> /\ \A b \in 1..n : Step(g, b)
           T == {n \in 0..m : Has(n)}
<1>1. m \in Nat /\ \A b \in 1..m : lst[b] \in Seq(E)
  OBVIOUS
<1>2. 0 \in T
  <2> DEFINE g == [b \in 0..0 |-> <<>>]
  <2>1. <<>> \in Seq(E)
    OBVIOUS
  <2>2. g \in [0..0 -> Seq(E)] /\ g[0] = <<>> /\ \A b \in 1..0 : Step(g, b)
    BY <2>1
  <2>3. Has(0)
    BY <2>2
  <2>4. 0 \in 0..m
    BY <1>1
  <2> HIDE DEF Has, m
  <2> QED
    BY <2>3, <2>4
<1> HIDE DEF m
<1>3. ASSUME NEW n \in 0..m - 1, n \in T PROVE n + 1 \in T
  <2>1. PICK g \in [0..n -> Seq(E)] : g[0] = <<>> /\ \A b \in 1..n : Step(g, b)
    BY <1>3
  <2>2. n \in Nat /\ n + 1 \in 0..m /\ n + 1 \in 1..m /\ lst[n + 1] \in Seq(E)
    BY <1>1, <1>3
  <2>3. g[n] \in Seq(E)
    BY <2>1, <2>2
  <2> DEFINE v == g[n] \o lst[n + 1]
             h == [b \in 0..n + 1 |-> IF b = n + 1 THEN v ELSE g[b]]
  <2>4. v \in Seq(E)
    BY <2>2, <2>3, ConcatIs
  <2>5. h \in [0..n + 1 -> Seq(E)]
    <3>1. \A b \in 0..n + 1 : b # n + 1 => b \in 0..n
      BY <2>2
    <3> HIDE DEF v
    <3> QED
      BY <2>1, <2>4, <3>1
  <2>6. h[n + 1] = v /\ \A b \in 0..n : h[b] = g[b]
    <3>1. n + 1 \in 0..n + 1 /\ \A b \in 0..n : b \in 0..n + 1 /\ b # n + 1
      BY <2>2
    <3> HIDE DEF v
    <3> QED
      BY <3>1
  <2>7. h[0] = <<>>
    BY <2>1, <2>2, <2>6
  <2>8. ASSUME NEW b \in 1..n + 1 PROVE Step(h, b)
    <3> HIDE DEF h
    <3>1. CASE b = n + 1
      <4>1. b - 1 = n /\ h[n] = g[n]
        BY <2>2, <2>6, <3>1
      <4> QED
        BY <2>6, <3>1, <4>1
    <3>2. CASE b # n + 1
      <4>1. b \in 1..n /\ b \in 0..n /\ b - 1 \in 0..n
        BY <2>2, <3>2
      <4> QED
        BY <2>1, <2>6, <4>1
    <3> QED
      BY <3>1, <3>2
  <2> HIDE DEF h, Step
  <2>9. Has(n + 1)
    BY <2>5, <2>7, <2>8
  <2> QED
    BY <2>2, <2>9
<1>4. \A n \in 0..m : n \in T
  <2> HIDE DEF T
  <2> QED
    BY <1>1, <1>2, <1>3, UptoInd
<1>5. Has(m)
  <2>1. m \in 0..m
    BY <1>1
  <2> QED
    BY <1>4, <2>1
<1> QED
  BY <1>5 DEF IsJoin, m

LEMMA NumbersIs ==
  ASSUME NEW lst \in Seq(Seq(Nat))
  PROVE  \E g : IsJoin(g, lst, Nat) /\ Numbers(lst) = g[Len(lst)]
<1> DEFINE m == Len(lst)
           Eq(g) == g = [b \in 0..m |-> IF b = 0 THEN <<>> ELSE g[b - 1] \o lst[b]]
           h == CHOOSE g : Eq(g)
<1>1. m \in Nat /\ \A b \in 1..m : lst[b] \in Seq(Nat)
  OBVIOUS
<1>2. Numbers(lst) = h[m]
  BY DEF Numbers
<1>3. \E g : Eq(g)
  <2>1. PICK g : IsJoin(g, lst, Nat)
    BY JoinExists
  <2>2. g \in [0..m -> Seq(Nat)] /\ g[0] = <<>> /\ \A b \in 1..m : g[b] = g[b - 1] \o lst[b]
    BY <2>1 DEF IsJoin
  <2>3. \A b \in 0..m : b # 0 => b \in 1..m
    BY <1>1
  <2> HIDE DEF m
  <2>4. \A b \in 0..m : g[b] = IF b = 0 THEN <<>> ELSE g[b - 1] \o lst[b]
    BY <2>2, <2>3
  <2>5. g = [b \in 0..m |-> g[b]]
    BY <2>2
  <2>6. Eq(g)
    BY <2>4, <2>5
  <2> QED
    BY <2>6
<1>4. Eq(h)
  BY <1>3
<1> HIDE DEF h
<1> DEFINE T == {n \in 0..m : h[n] \in Seq(Nat)}
<1>5. DOMAIN h = 0..m /\ h[0] = <<>> /\ \A b \in 1..m : h[b] = h[b - 1] \o lst[b]
  <2>1. 0 \in 0..m /\ \A b \in 1..m : b \in 0..m /\ b # 0
    BY <1>1
  <2> HIDE DEF m
  <2> QED
    BY <1>4, <2>1
<1> HIDE DEF m
<1>6. 0 \in T
  <2>1. 0 \in 0..m /\ h[0] \in Seq(Nat)
    BY <1>1, <1>5
  <2> QED
    BY <2>1
<1>7. ASSUME NEW n \in 0..m - 1, n \in T PROVE n + 1 \in T
  <2>1. n + 1 \in 1..m /\ n + 1 \in 0..m /\ (n + 1) - 1 = n
    BY <1>1
  <2>2. h[n + 1] = h[n] \o lst[n + 1] /\ lst[n + 1] \in Seq(Nat) /\ h[n] \in Seq(Nat)
    BY <1>1, <1>5, <1>7, <2>1
  <2>3. h[n + 1] \in Seq(Nat)
    BY <2>2, ConcatIs
  <2> QED
    BY <2>1, <2>3
<1>8. \A n \in 0..m : n \in T
  <2> HIDE DEF T
  <2> QED
    BY <1>1, <1>6, <1>7, UptoInd
<1>9. h \in [0..m -> Seq(Nat)]
  BY <1>4, <1>8
<1>10. IsJoin(h, lst, Nat)
  BY <1>5, <1>9 DEF IsJoin, m
<1> QED
  BY <1>2, <1>10 DEF m

LEMMA NumbersType ==
  ASSUME NEW lst \in Blocks
  PROVE  Numbers(lst) \in Seq(Nat) /\ Len(Numbers(lst)) \in Nat
<1>1. PICK g : IsJoin(g, lst, Nat) /\ Numbers(lst) = g[Len(lst)]
  BY NumbersIs DEF Blocks
<1>2. Len(lst) \in Nat /\ g \in [0..Len(lst) -> Seq(Nat)]
  BY <1>1 DEF IsJoin, Blocks
<1>3. g[Len(lst)] \in Seq(Nat)
  BY <1>2
<1> QED
  BY <1>1, <1>3

LEMMA NumbersConcat ==
  ASSUME NEW a \in Blocks, NEW z \in Blocks
  PROVE  a \o z \in Blocks /\ Len(Numbers(a \o z)) = Len(Numbers(a)) + Len(Numbers(z))
<1> DEFINE c == a \o z
           m == Len(a)
           n == Len(z)
<1>1. /\ c \in Blocks /\ Len(c) = m + n /\ m \in Nat /\ n \in Nat
      /\ (\A b \in 1..m : c[b] = a[b]) /\ \A b \in 1..n : c[m + b] = z[b]
  BY DEF Blocks
<1>2. PICK g : IsJoin(g, a, Nat) /\ Numbers(a) = g[m]
  BY NumbersIs DEF Blocks
<1>3. PICK h : IsJoin(h, z, Nat) /\ Numbers(z) = h[n]
  BY NumbersIs DEF Blocks
<1>4. PICK k : IsJoin(k, c, Nat) /\ Numbers(c) = k[m + n]
  BY <1>1, NumbersIs DEF Blocks
<1>5. /\ g \in [0..m -> Seq(Nat)] /\ g[0] = <<>> /\ \A b \in 1..m : g[b] = g[b - 1] \o a[b]
      /\ h \in [0..n -> Seq(Nat)] /\ h[0] = <<>> /\ \A b \in 1..n : h[b] = h[b - 1] \o z[b]
  BY <1>2, <1>3 DEF IsJoin
<1> HIDE DEF c
<1>6. /\ k \in [0..m + n -> Seq(Nat)] /\ k[0] = <<>>
      /\ \A b \in 1..m + n : k[b] = k[b - 1] \o c[b]
  BY <1>1, <1>4 DEF IsJoin
<1>7. /\ \A b \in 1..n : z[b] \in Seq(Nat)
  BY DEF Blocks
<1> HIDE DEF m, n
<1> DEFINE T == {i \in 0..m : k[i] = g[i]}
<1>8. \A i \in 0..m : i \in T
  <2>1. 0 \in T
    <3>1. 0 \in 0..m
      BY <1>1
    <3> QED
      BY <1>5, <1>6, <3>1
  <2>2. ASSUME NEW i \in 0..m - 1, i \in T PROVE i + 1 \in T
    <3>1. i + 1 \in 0..m /\ i + 1 \in 1..m /\ i + 1 \in 1..m + n /\ (i + 1) - 1 = i
      BY <1>1
    <3>2. k[i + 1] = k[i] \o c[i + 1] /\ g[i + 1] = g[i] \o a[i + 1] /\ k[i] = g[i]
      BY <1>5, <1>6, <2>2, <3>1
    <3>3. k[i + 1] = g[i + 1]
      BY <1>1, <3>1, <3>2
    <3> QED
      BY <3>1, <3>3
  <2> HIDE DEF T
  <2> QED
    BY <1>1, <2>1, <2>2, UptoInd
<1>9. k[m] = g[m]
  <2>1. m \in 0..m
    BY <1>1
  <2> QED
    BY <1>8, <2>1
<1> DEFINE U == {i \in 0..n : Len(k[m + i]) = Len(g[m]) + Len(h[i])}
<1>10. \A i \in 0..n : i \in U
  <2>1. 0 \in U
    <3>1. 0 \in 0..n /\ m + 0 = m /\ m \in 0..m /\ Len(h[0]) = 0
      BY <1>1, <1>5
    <3>2. g[m] \in Seq(Nat)
      BY <1>5, <3>1
    <3>3. Len(g[m]) \in Nat
      BY <3>2
    <3>4. Len(k[m + 0]) = Len(g[m]) + Len(h[0])
      BY <1>9, <3>1, <3>3
    <3> QED
      BY <3>1, <3>4
  <2>2. ASSUME NEW i \in 0..n - 1, i \in U PROVE i + 1 \in U
    <3>1. /\ i + 1 \in 0..n /\ i + 1 \in 1..n /\ m + (i + 1) \in 1..m + n /\ (i + 1) - 1 = i
          /\ (m + (i + 1)) - 1 = m + i /\ m + i \in 0..m + n /\ i \in 0..n /\ m \in 0..m
      BY <1>1
    <3>2. k[m + (i + 1)] = k[m + i] \o z[i + 1] /\ h[i + 1] = h[i] \o z[i + 1]
      BY <1>1, <1>5, <1>6, <3>1
    <3>3. /\ k[m + i] \in Seq(Nat) /\ z[i + 1] \in Seq(Nat) /\ h[i] \in Seq(Nat) /\ g[m] \in Seq(Nat)
      BY <1>5, <1>6, <1>7, <3>1
    <3>4. /\ Len(k[m + (i + 1)]) = Len(k[m + i]) + Len(z[i + 1])
          /\ Len(h[i + 1]) = Len(h[i]) + Len(z[i + 1])
      BY <3>2, <3>3, ConcatIs
    <3>5. /\ Len(k[m + i]) \in Nat /\ Len(z[i + 1]) \in Nat /\ Len(h[i]) \in Nat /\ Len(g[m]) \in Nat
      BY <3>3
    <3>6. Len(k[m + i]) = Len(g[m]) + Len(h[i])
      BY <2>2
    <3>7. Len(k[m + (i + 1)]) = Len(g[m]) + Len(h[i + 1])
      <4> DEFINE k0 == Len(k[m + i])
                 h0 == Len(h[i])
                 z0 == Len(z[i + 1])
                 g0 == Len(g[m])
      <4>1. Len(k[m + (i + 1)]) = k0 + z0 /\ Len(h[i + 1]) = h0 + z0
        BY <3>4
      <4>2. k0 \in Nat /\ z0 \in Nat /\ h0 \in Nat /\ g0 \in Nat /\ k0 = g0 + h0
        BY <3>5, <3>6
      <4> HIDE DEF k0, h0, z0, g0
      <4>3. k0 + z0 = g0 + (h0 + z0)
        BY <4>2
      <4>4. Len(k[m + (i + 1)]) = g0 + Len(h[i + 1])
        BY <4>1, <4>3
      <4> QED
        BY <4>4 DEF g0
    <3> QED
      BY <3>1, <3>7
  <2> HIDE DEF U
  <2> QED
    BY <1>1, <2>1, <2>2, UptoInd
<1>11. Len(k[m + n]) = Len(g[m]) + Len(h[n])
  <2>1. n \in 0..n
    BY <1>1
  <2> QED
    BY <1>10, <2>1
<1> QED
  BY <1>1, <1>2, <1>3, <1>4, <1>11 DEF c

LEMMA NumbersOne ==
  ASSUME NEW s \in Seq(Nat)
  PROVE  <<s>> \in Blocks /\ Numbers(<<s>>) = s
<1> DEFINE lst == <<s>>
<1>1. lst \in Blocks /\ Len(lst) = 1 /\ lst[1] = s
  BY DEF Blocks
<1> HIDE DEF lst
<1>2. PICK g : IsJoin(g, lst, Nat) /\ Numbers(lst) = g[Len(lst)]
  BY <1>1, NumbersIs DEF Blocks
<1>3. g[0] = <<>> /\ \A b \in 1..1 : g[b] = g[b - 1] \o lst[b]
  BY <1>1, <1>2 DEF IsJoin
<1>4. 1 \in 1..1 /\ 1 - 1 = 0
  OBVIOUS
<1>5. g[1] = g[0] \o lst[1]
  BY <1>3, <1>4
<1>6. <<>> \o s = s
  OBVIOUS
<1> QED
  BY <1>1, <1>2, <1>3, <1>5, <1>6 DEF lst

LEMMA NumbersNone == <<>> \in Blocks /\ Len(Numbers(<<>>)) = 0
<1>1. <<>> \in Blocks /\ Len(<<>>) = 0
  BY DEF Blocks
<1>2. PICK g : IsJoin(g, <<>>, Nat) /\ Numbers(<<>>) = g[Len(<<>>)]
  BY <1>1, NumbersIs DEF Blocks
<1>3. g[0] = <<>>
  BY <1>2 DEF IsJoin
<1> QED
  BY <1>1, <1>2, <1>3

LEMMA NumbersCreate ==
  numlist_create \in Blocks /\ Len(numlist_create) = 1 /\ Len(Numbers(numlist_create)) = 0
<1>1. <<>> \in Seq(Nat) /\ Len(<<>>) = 0
  OBVIOUS
<1> QED
  BY <1>1, NumbersOne DEF numlist_create

LEMMA NumbersAdd ==
  ASSUME NEW lst \in Blocks, Len(lst) >= 1, NEW v \in Nat
  PROVE  /\ numlist_add(lst, v) \in Blocks /\ Len(numlist_add(lst, v)) >= 1
         /\ Len(Numbers(numlist_add(lst, v))) = Len(Numbers(lst)) + 1
<1> DEFINE s == lst[1]
<1>1. s \in Seq(Nat) /\ Len(lst) \in Nat
  BY DEF Blocks
<1>2. CASE Len(s) = MEMBLOCK_SIZE
  <2>1. numlist_add(lst, v) = <<<<v>>>> \o lst
    BY <1>2 DEF numlist_add
  <2>2. <<v>> \in Seq(Nat) /\ Len(<<v>>) = 1
    OBVIOUS
  <2>3. <<<<v>>>> \in Blocks /\ Numbers(<<<<v>>>>) = <<v>>
    BY <2>2, NumbersOne
  <2>4. Len(<<<<v>>>> \o lst) = 1 + Len(lst)
    BY DEF Blocks
  <2> DEFINE n == Len(Numbers(lst))
  <2>5. <<<<v>>>> \o lst \in Blocks /\ Len(Numbers(<<<<v>>>> \o lst)) = Len(Numbers(<<<<v>>>>)) + n
    BY <2>3, NumbersConcat
  <2>6. n \in Nat
    BY NumbersType
  <2> HIDE DEF n
  <2>7. Len(Numbers(<<<<v>>>> \o lst)) = n + 1
    <3>1. Len(Numbers(<<<<v>>>>)) = 1
      BY <2>2, <2>3
    <3>2. 1 + n = n + 1
      BY <2>6
    <3> QED
      BY <2>5, <3>1, <3>2
  <2>8. Len(<<<<v>>>> \o lst) >= 1
    BY <1>1, <2>4
  <2> QED
    BY <2>1, <2>5, <2>7, <2>8 DEF n
<1>3. CASE Len(s) # MEMBLOCK_SIZE
  <2> DEFINE rest == Tail(lst)
             t == Append(s, v)
  <2>1. numlist_add(lst, v) = [lst EXCEPT ![1] = t]
    BY <1>3 DEF numlist_add
  <2>2. t \in Seq(Nat) /\ Len(t) = Len(s) + 1 /\ Len(s) \in Nat
    BY <1>1
  <2>3. rest \in Blocks /\ lst = <<s>> \o rest
    BY DEF Blocks
  <2> DEFINE u == [lst EXCEPT ![1] = t]
             w == <<t>> \o rest
  <2>4. u = w /\ Len(u) = Len(lst)
    <3> DEFINE n == Len(lst)
    <3>1. lst \in Seq(Seq(Nat)) /\ n \in Nat /\ n >= 1
      BY <1>1 DEF Blocks
    <3> HIDE DEF t
    <3>2. u \in Seq(Seq(Nat)) /\ Len(u) = n /\ u[1] = t /\ \A i \in 2..n : u[i] = lst[i]
      BY <2>2, <3>1
    <3>3. w \in Seq(Seq(Nat)) /\ Len(w) = n /\ w[1] = t /\ \A i \in 2..n : w[i] = lst[i]
      BY <2>2, <3>1
    <3> HIDE DEF n, u, w
    <3>4. ASSUME NEW i \in 1..n PROVE u[i] = w[i]
      <4>1. i = 1 \/ i \in 2..n
        BY <3>1
      <4> QED
        BY <3>2, <3>3, <4>1
    <3>5. u \in [1..n -> Seq(Nat)] /\ w \in [1..n -> Seq(Nat)]
      BY <3>2, <3>3
    <3>6. u = w
      <4>1. u = [i \in 1..n |-> u[i]] /\ w = [i \in 1..n |-> w[i]]
        BY <3>5
      <4>2. [i \in 1..n |-> u[i]] = [i \in 1..n |-> w[i]]
        BY <3>4
      <4> QED
        BY <4>1, <4>2
    <3> QED
      BY <3>2, <3>6 DEF n
  <2> HIDE DEF rest, s, t, u, w
  <2>5. <<s>> \in Blocks /\ <<t>> \in Blocks /\ Numbers(<<s>>) = s /\ Numbers(<<t>>) = t
    BY <1>1, <2>2, NumbersOne
  <2> DEFINE n == Len(Numbers(rest))
  <2>6. /\ Len(Numbers(<<s>> \o rest)) = Len(Numbers(<<s>>)) + n
        /\ Len(Numbers(<<t>> \o rest)) = Len(Numbers(<<t>>)) + n
        /\ <<t>> \o rest \in Blocks
    BY <2>3, <2>5, NumbersConcat
  <2>7. n \in Nat
    BY <2>3, NumbersType
  <2> HIDE DEF n
  <2>8. Len(Numbers(lst)) = Len(s) + n /\ Len(Numbers(w)) = Len(t) + n /\ w \in Blocks
    BY <2>3, <2>5, <2>6 DEF w
  <2>9. Len(Numbers(w)) = Len(Numbers(lst)) + 1
    BY <2>2, <2>7, <2>8
  <2> QED
    BY <1>1, <2>1, <2>4, <2>8, <2>9 DEF u
<1> QED
  BY <1>2, <1>3

Sizes(lists) == [k \in DOMAIN lists |-> Len(Numbers(lists[k]))]

LEMMA SizesIs ==
  ASSUME NEW D, NEW L \in [D -> Blocks]
  PROVE  /\ NumbersIn(L) = SumFunction(Sizes(L)) /\ Sizes(L) \in [D -> Int]
         /\ \A x \in D : Sizes(L)[x] = Len(Numbers(L[x])) /\ Sizes(L)[x] \in Nat
<1>1. DOMAIN L = D /\ \A x \in D : Len(Numbers(L[x])) \in Nat
  BY NumbersType
<1> QED
  BY <1>1 DEF NumbersIn, Sizes

LEMMA NumbersInType ==
  ASSUME NEW D, IsFiniteSet(D), NEW L \in [D -> Blocks]
  PROVE  NumbersIn(L) \in Int
<1> DEFINE F == Sizes(L)
<1>1. NumbersIn(L) = SumFunction(F) /\ F \in [D -> Int]
  BY SizesIs
<1> HIDE DEF F
<1> QED
  BY <1>1, SumType

\* One of the lists changes.
LEMMA NumbersInExcept ==
  ASSUME NEW D, IsFiniteSet(D), NEW L \in [D -> Blocks], NEW x \in D,
         NEW M \in [D -> Blocks], \A y \in D : y # x => M[y] = L[y]
  PROVE  NumbersIn(M) = NumbersIn(L) - Len(Numbers(L[x])) + Len(Numbers(M[x]))
<1> DEFINE F == Sizes(L)
           G == Sizes(M)
<1>1. /\ NumbersIn(L) = SumFunction(F) /\ F \in [D -> Int] /\ F[x] = Len(Numbers(L[x]))
      /\ NumbersIn(M) = SumFunction(G) /\ G \in [D -> Int] /\ G[x] = Len(Numbers(M[x]))
  BY SizesIs
<1>2. \A y \in D : y # x => G[y] = F[y]
  BY SizesIs
<1> HIDE DEF F, G
<1>3. F \in [D -> Int] /\ G \in [D -> Int]
  BY <1>1
<1>4. SumFunction(G) = SumFunction(F) - F[x] + G[x]
  BY <1>2, <1>3, SumExcept
<1> QED
  BY <1>1, <1>4

\* A list is added to the lists.
LEMMA NumbersInAdd ==
  ASSUME NEW D, NEW E, IsFiniteSet(D), NEW x \in D, E = D \ {x},
         NEW L \in [E -> Blocks], NEW M \in [D -> Blocks], \A y \in E : M[y] = L[y]
  PROVE  NumbersIn(M) = Len(Numbers(M[x])) + NumbersIn(L) /\ NumbersIn(L) \in Int
<1> DEFINE F == Sizes(L)
           G == Sizes(M)
<1>1. NumbersIn(L) = SumFunction(F) /\ F \in [E -> Int]
  BY SizesIs
<1>2. NumbersIn(M) = SumFunction(G) /\ G \in [D -> Int] /\ G[x] = Len(Numbers(M[x]))
  BY SizesIs
<1>3. \A y \in E : F[y] = G[y]
  BY SizesIs
<1> HIDE DEF F, G
<1>4. F \in [E -> Int] /\ G \in [D -> Int]
  BY <1>1, <1>2
<1>5. IsPart(F, G, x, D)
  BY <1>3, <1>4 DEF IsPart
<1>6. SumFunction(G) = G[x] + SumFunction(F) /\ SumFunction(F) \in Int
  BY <1>5, SumPart
<1> QED
  BY <1>1, <1>2, <1>6

LEMMA ListsInit == StatsInit => Lists
<1> SUFFICES ASSUME StatsInit PROVE Lists
  OBVIOUS
<1>1. /\ latency = [f \in Flows |-> numlist_create] /\ lat = <<>> /\ samples = {} /\ chosen = <<>>
  BY DEF StatsInit
<1>2. latency \in [Flows -> Blocks] /\ \A f \in Flows : Len(latency[f]) >= 1
  BY <1>1, NumbersCreate
<1>3. lat \in [samples -> Blocks]
  BY <1>1
<1> QED
  BY <1>1, <1>2, <1>3 DEF Lists

\* A latency is added to a flow's list.
LEMMA ListsWork ==
  ASSUME Growing, Lists, LatencyOnce, NEW f \in Flows, Work(f)
  PROVE  Lists' /\ LatencyOnce'
<1>1. /\ phase = "test" /\ count' = [count EXCEPT ![f] = @ + 1]
      /\ UNCHANGED <<kind, samples, lat, phase, chosen>>
  BY DEF Work, reportVars
<1>2. latency \in [Flows -> Blocks] /\ (\A g \in Flows : Len(latency[g]) >= 1) /\ IsFiniteSet(Flows)
  BY StatsAssumption DEF Lists
<1>3. CASE kind = "rr"
  <2>1. PICK l \in Latencies : latency' = [latency EXCEPT ![f] = numlist_add(@, l)]
    BY <1>3 DEF Work
  <2> DEFINE v == numlist_add(latency[f], l)
  <2>2. l \in Nat /\ latency[f] \in Blocks /\ Len(latency[f]) >= 1
    BY <1>2, StatsAssumption
  <2>3. v \in Blocks /\ Len(v) >= 1 /\ Len(Numbers(v)) = Len(Numbers(latency[f])) + 1
    BY <2>2, NumbersAdd
  <2>4. latency' = [latency EXCEPT ![f] = v]
    BY <2>1
  <2> HIDE DEF v
  <2>5. /\ latency' \in [Flows -> Blocks] /\ (\A g \in Flows : Len(latency'[g]) >= 1)
        /\ latency'[f] = v /\ \A g \in Flows : g # f => latency'[g] = latency[g]
    BY <1>2, <2>3, <2>4
  <2>6. Lists'
    BY <1>1, <2>5 DEF Lists
  <2> DEFINE n == Len(Numbers(latency[f]))
  <2>7. n \in Nat /\ Len(Numbers(v)) = n + 1
    BY <2>2, <2>3, NumbersType
  <2>8. NumbersIn(latency') = NumbersIn(latency) - n + Len(Numbers(latency'[f]))
    BY <1>2, <2>5, NumbersInExcept
  <2> HIDE DEF n
  <2>9. NumbersIn(latency) \in Int /\ NumbersIn(lat) \in Int
    BY <1>2, NumbersInType DEF Lists, Growing
  <2>10. NumbersIn(latency') = NumbersIn(latency) + 1
    BY <2>5, <2>7, <2>8, <2>9
  <2>11. count \in [Flows -> Int] /\ count' \in [Flows -> Int] /\ count[f] \in Int
         /\ count'[f] = count[f] + 1 /\ \A g \in Flows : g # f => count'[g] = count[g]
    BY <1>1 DEF Growing
  <2>12. SumFunction(count') = SumFunction(count) - count[f] + count'[f] /\ SumFunction(count) \in Int
    <3>1. count \in [Flows -> Int] /\ count' \in [Flows -> Int] /\ IsFiniteSet(Flows)
      BY <1>2, <2>11
    <3>2. \A g \in Flows : g # f => count'[g] = count[g]
      BY <2>11
    <3>3. SumFunction(count) \in Int
      BY <3>1, SumType
    <3>4. SumFunction(count') = SumFunction(count) - count[f] + count'[f]
      BY <3>1, <3>2, SumExcept
    <3> QED
      BY <3>3, <3>4
  <2>13. SumFunction(count') = SumFunction(count) + 1
    BY <2>11, <2>12
  <2>14. NumbersIn(latency) + NumbersIn(lat) = SumFunction(count)
    BY <1>3 DEF LatencyOnce, TotalWork
  <2>15. NumbersIn(latency') + NumbersIn(lat) = SumFunction(count')
    BY <2>9, <2>10, <2>13, <2>14
  <2>16. NumbersIn(latency)' = NumbersIn(latency') /\ NumbersIn(lat)' = NumbersIn(lat)
    BY <1>1 DEF NumbersIn
  <2> QED
    BY <2>6, <2>15, <2>16 DEF LatencyOnce, TotalWork
<1>4. CASE kind # "rr"
  <2>1. latency' = latency
    BY <1>4 DEF Work
  <2> QED
    BY <1>1, <1>4, <2>1 DEF Lists, LatencyOnce
<1> QED
  BY <1>3, <1>4

\* A sample takes over a flow's list.
LEMMA ListsAddSample ==
  ASSUME Growing, Lists, LatencyOnce, NEW f \in Flows, AddSample(f)
  PROVE  Lists' /\ LatencyOnce'
<1> DEFINE s == Taken(f)
<1>1. /\ phase = "test" /\ samples' = samples \union {s}
      /\ lat' = [u \in samples' |-> IF u = s THEN latency[f] ELSE lat[u]]
      /\ latency' = [latency EXCEPT ![f] = numlist_create]
      /\ \A u \in samples : FlowOf(u) = f => u.time < now
      /\ UNCHANGED <<kind, count, phase, chosen>>
  BY DEF AddSample, Taken, FlowOf, reportVars
<1>2. s \notin samples
  <2>1. FlowOf(s) = f /\ s.time = now /\ now \in Nat
    BY TakenIs DEF Growing
  <2>2. ~ (now < now)
    BY <2>1
  <2> HIDE DEF s
  <2> QED
    BY <1>1, <2>1, <2>2
<1> HIDE DEF s
<1>3. /\ latency \in [Flows -> Blocks] /\ (\A g \in Flows : Len(latency[g]) >= 1) /\ IsFiniteSet(Flows)
      /\ lat \in [samples -> Blocks] /\ IsFiniteSet(samples) /\ IsFiniteSet(samples')
  BY <1>1, StatsAssumption, FS_AddElement DEF Lists, Growing
<1>4. numlist_create \in Blocks /\ Len(numlist_create) >= 1 /\ Len(Numbers(numlist_create)) = 0
  BY NumbersCreate
<1>5. /\ latency' \in [Flows -> Blocks] /\ (\A g \in Flows : Len(latency'[g]) >= 1)
      /\ latency'[f] = numlist_create /\ \A g \in Flows : g # f => latency'[g] = latency[g]
  BY <1>1, <1>3, <1>4
<1>6. /\ lat' \in [samples' -> Blocks] /\ lat'[s] = latency[f] /\ s \in samples'
      /\ samples = samples' \ {s} /\ \A u \in samples : lat'[u] = lat[u]
  BY <1>1, <1>2, <1>3
<1>7. Lists'
  BY <1>1, <1>5, <1>6 DEF Lists
<1> DEFINE n == Len(Numbers(latency[f]))
<1>8. n \in Nat /\ NumbersIn(latency) \in Int
  BY <1>3, NumbersType, NumbersInType
<1>9. NumbersIn(lat') = n + NumbersIn(lat) /\ NumbersIn(lat) \in Int
  <2>1. NumbersIn(lat') = Len(Numbers(lat'[s])) + NumbersIn(lat) /\ NumbersIn(lat) \in Int
    BY <1>3, <1>6, NumbersInAdd
  <2> QED
    BY <1>6, <2>1
<1>10. NumbersIn(latency') = NumbersIn(latency) - n + 0
  <2>1. NumbersIn(latency') = NumbersIn(latency) - n + Len(Numbers(latency'[f]))
    BY <1>3, <1>5, NumbersInExcept
  <2> QED
    BY <1>4, <1>5, <2>1
<1> HIDE DEF n
<1>11. NumbersIn(latency') + NumbersIn(lat') = NumbersIn(latency) + NumbersIn(lat)
  BY <1>8, <1>9, <1>10
<1>12. NumbersIn(latency)' = NumbersIn(latency') /\ NumbersIn(lat)' = NumbersIn(lat')
  BY DEF NumbersIn
<1> QED
  BY <1>1, <1>7, <1>11, <1>12 DEF LatencyOnce, TotalWork

\* g[i] chains the lists of the first i of the sorted samples.
IsChain(g) ==
  /\ g \in [1..Len(sorted) -> Blocks] /\ g[1] = lat[sorted[1]]
  /\ \A i \in 2..Len(sorted) : g[i] = g[i - 1] \o lat[sorted[i]]

LEMMA SortedLists ==
  ASSUME Growing, InOrder, Lists, phase = "latency"
  PROVE  /\ Len(sorted) \in Nat /\ Len(sorted) >= 1
         /\ \A i \in 1..Len(sorted) : sorted[i] \in samples /\ lat[sorted[i]] \in Blocks
<1>1. Len(sorted) \in Nat /\ Len(sorted) >= 1
  BY DEF InOrder
<1>2. \A i \in 1..Len(sorted) : sorted[i] \in samples
  BY SortedIs
<1> QED
  BY <1>1, <1>2 DEF Lists

LEMMA ChainIs ==
  ASSUME Growing, InOrder, Lists, ReportLatency
  PROVE  \E g : /\ IsChain(g)
                /\ lat' = [s \in DOMAIN lat |-> IF s = sorted[1] THEN g[Len(sorted)] ELSE <<>>]
                /\ chosen' = IF Numbers(g[Len(sorted)]) = <<>> THEN <<>>
                             ELSE [p \in Percentiles |-> numlist_percentile(g[Len(sorted)], p)]
<1> DEFINE n == Len(sorted)
           Eq(g) == g = [i \in 1..n |-> IF i = 1 THEN lat[sorted[1]]
                                        ELSE numlist_concat(g[i - 1], lat[sorted[i]]).all]
           h == CHOOSE g : Eq(g)
<1>1. n \in Nat /\ n >= 1 /\ \A i \in 1..n : sorted[i] \in samples /\ lat[sorted[i]] \in Blocks
  BY SortedLists DEF ReportLatency
<1>2. \A a, z : numlist_concat(a, z).all = a \o z /\ numlist_concat(a, z).tail = <<>>
  BY DEF numlist_concat
<1>3. /\ lat' = [s \in DOMAIN lat |-> IF s = sorted[1] THEN h[n] ELSE numlist_concat(h[n], lat[s]).tail]
      /\ chosen' = IF Numbers(h[n]) = <<>> THEN <<>>
                   ELSE [p \in Percentiles |-> numlist_percentile(h[n], p)]
  BY DEF ReportLatency
<1>4. lat' = [s \in DOMAIN lat |-> IF s = sorted[1] THEN h[n] ELSE <<>>]
  <2> HIDE DEF h, n
  <2> QED
    BY <1>2, <1>3
<1>5. \E g : Eq(g)
  <2> DEFINE lst == [i \in 1..n |-> lat[sorted[i]]]
  <2>1. /\ lst \in Seq(Seq(Seq(Nat))) /\ Len(lst) = n /\ \A i \in 1..n : lst[i] = lat[sorted[i]]
    <3> HIDE DEF n
    <3>1. lst \in [1..n -> Seq(Seq(Nat))]
      BY <1>1 DEF Blocks
    <3> QED
      BY <1>1, <3>1
  <2> HIDE DEF lst
  <2>2. PICK g : IsJoin(g, lst, Seq(Nat))
    BY <2>1, JoinExists
  <2>3. /\ g \in [0..n -> Blocks] /\ g[0] = <<>>
        /\ \A i \in 1..n : g[i] = g[i - 1] \o lat[sorted[i]]
    BY <2>1, <2>2 DEF IsJoin, Blocks
  <2> DEFINE k == [i \in 1..n |-> g[i]]
  <2> HIDE DEF n
  <2>4. k[1] = lat[sorted[1]]
    <3>1. 1 \in 1..n /\ 1 - 1 = 0 /\ lat[sorted[1]] \in Seq(Seq(Nat))
      BY <1>1 DEF Blocks
    <3>2. g[1] = <<>> \o lat[sorted[1]]
      BY <2>3, <3>1
    <3>3. <<>> \o lat[sorted[1]] = lat[sorted[1]]
      BY <3>1
    <3> QED
      BY <3>1, <3>2, <3>3
  <2>5. ASSUME NEW i \in 1..n, i # 1 PROVE k[i] = numlist_concat(k[i - 1], lat[sorted[i]]).all
    <3>1. i - 1 \in 1..n
      BY <1>1, <2>5
    <3>2. k[i - 1] = g[i - 1] /\ k[i] = g[i]
      BY <3>1
    <3>3. numlist_concat(g[i - 1], lat[sorted[i]]).all = g[i - 1] \o lat[sorted[i]]
      BY <1>2
    <3> HIDE DEF k
    <3> QED
      BY <2>3, <3>2, <3>3
  <2>6. k = [i \in 1..n |-> k[i]]
    OBVIOUS
  <2> HIDE DEF k
  <2>7. [i \in 1..n |-> k[i]] = [i \in 1..n |-> IF i = 1 THEN lat[sorted[1]]
                                               ELSE numlist_concat(k[i - 1], lat[sorted[i]]).all]
    BY <2>4, <2>5
  <2>8. Eq(k)
    BY <2>6, <2>7
  <2> QED
    BY <2>8
<1>6. Eq(h)
  BY <1>5
<1> HIDE DEF h, n
<1>7. /\ DOMAIN h = 1..n /\ h[1] = lat[sorted[1]]
      /\ \A i \in 2..n : h[i] = h[i - 1] \o lat[sorted[i]]
  <2>1. 1 \in 1..n /\ \A i \in 2..n : i \in 1..n /\ i # 1
    BY <1>1
  <2> QED
    BY <1>2, <1>6, <2>1
<1> DEFINE T == {i \in 0..n - 1 : h[i + 1] \in Blocks}
<1>8. \A i \in 0..n - 1 : i \in T
  <2>1. 0 \in T
    <3>1. 0 \in 0..n - 1 /\ 1 \in 1..n /\ 0 + 1 = 1
      BY <1>1
    <3> QED
      BY <1>1, <1>7, <3>1
  <2>2. ASSUME NEW i \in 0..(n - 1) - 1, i \in T PROVE i + 1 \in T
    <3>1. /\ i + 1 \in 0..n - 1 /\ (i + 1) + 1 \in 2..n /\ (i + 1) + 1 \in 1..n
          /\ ((i + 1) + 1) - 1 = i + 1
      BY <1>1
    <3>2. h[(i + 1) + 1] = h[i + 1] \o lat[sorted[(i + 1) + 1]]
      BY <1>7, <3>1
    <3>3. h[i + 1] \in Blocks /\ lat[sorted[(i + 1) + 1]] \in Blocks
      BY <1>1, <2>2, <3>1
    <3>4. h[(i + 1) + 1] \in Blocks
      BY <3>2, <3>3, NumbersConcat
    <3> QED
      BY <3>1, <3>4
  <2>3. n - 1 \in Nat
    BY <1>1
  <2> HIDE DEF T
  <2> QED
    BY <2>1, <2>2, <2>3, UptoInd
<1>9. h \in [1..n -> Blocks]
  <2>1. ASSUME NEW i \in 1..n PROVE h[i] \in Blocks
    <3>1. i - 1 \in 0..n - 1 /\ (i - 1) + 1 = i
      BY <1>1
    <3>2. h[(i - 1) + 1] \in Blocks
      BY <1>8, <3>1
    <3> QED
      BY <3>1, <3>2
  <2>2. h = [i \in 1..n |-> h[i]]
    BY <1>6
  <2> QED
    BY <2>1, <2>2
<1>10. IsChain(h)
  BY <1>7, <1>9 DEF IsChain, n
<1> QED
  BY <1>3, <1>4, <1>10 DEF n

\* The chain has the numbers of all lists.
LEMMA ChainCounts ==
  ASSUME Growing, Jobs, InOrder, Lists, phase = "latency", NEW g, IsChain(g)
  PROVE  g[Len(sorted)] \in Blocks /\ Len(Numbers(g[Len(sorted)])) = NumbersIn(lat)
<1> DEFINE n == Len(sorted)
           D(i) == {sorted[k] : k \in 1..i}
           L(i) == [s \in D(i) |-> lat[s]]
           T == {i \in 0..n - 1 : Len(Numbers(g[i + 1])) = NumbersIn(L(i + 1))}
<1>1. n \in Nat /\ n >= 1 /\ \A i \in 1..n : sorted[i] \in samples /\ lat[sorted[i]] \in Blocks
  BY SortedLists
<1>2. /\ g \in [1..n -> Blocks] /\ g[1] = lat[sorted[1]]
      /\ \A i \in 2..n : g[i] = g[i - 1] \o lat[sorted[i]]
  BY DEF IsChain
<1>3. \A i, k \in 1..n : i < k => sorted[i] # sorted[k]
  BY DEF InOrder
<1> HIDE DEF n
<1>4. ASSUME NEW i \in 0..n PROVE D(i) \subseteq samples /\ IsFiniteSet(D(i)) /\ L(i) \in [D(i) -> Blocks]
  <2>1. D(i) \in SUBSET samples
    BY <1>1
  <2>2. IsFiniteSet(D(i))
    BY <2>1, FS_Subset DEF Growing
  <2> QED
    BY <2>1, <2>2 DEF Lists
<1>5. ASSUME NEW i \in 0..n - 1
      PROVE  NumbersIn(L(i + 1)) = Len(Numbers(lat[sorted[i + 1]])) + NumbersIn(L(i))
  <2>1. i \in 0..n /\ i + 1 \in 0..n /\ i + 1 \in 1..n
    BY <1>1
  <2>2. D(i) = D(i + 1) \ {sorted[i + 1]} /\ sorted[i + 1] \in D(i + 1)
    <3>1. \A k \in 1..i : k \in 1..n /\ k < i + 1 /\ k \in 1..i + 1
      BY <1>1
    <3>2. i + 1 \in 1..i + 1 /\ \A k \in 1..i + 1 : k = i + 1 \/ k \in 1..i
      BY <1>1
    <3> QED
      BY <1>3, <2>1, <3>1, <3>2
  <2>3. /\ IsFiniteSet(D(i + 1)) /\ L(i) \in [D(i) -> Blocks] /\ L(i + 1) \in [D(i + 1) -> Blocks]
    BY <1>4, <2>1
  <2>4. L(i + 1)[sorted[i + 1]] = lat[sorted[i + 1]] /\ \A s \in D(i) : L(i + 1)[s] = L(i)[s]
    BY <2>2
  <2> DEFINE D0 == D(i)
             D1 == D(i + 1)
             L0 == L(i)
             L1 == L(i + 1)
             x == sorted[i + 1]
  <2>5. /\ IsFiniteSet(D1) /\ x \in D1 /\ D0 = D1 \ {x} /\ L0 \in [D0 -> Blocks] /\ L1 \in [D1 -> Blocks]
        /\ L1[x] = lat[x] /\ \A s \in D0 : L1[s] = L0[s]
    BY <2>2, <2>3, <2>4
  <2> HIDE DEF D0, D1, L0, L1, x
  <2>6. NumbersIn(L1) = Len(Numbers(L1[x])) + NumbersIn(L0)
    <3>1. /\ IsFiniteSet(D1) /\ x \in D1 /\ D0 = D1 \ {x}
          /\ L0 \in [D0 -> Blocks] /\ L1 \in [D1 -> Blocks]
      BY <2>5
    <3>2. \A s \in D0 : L1[s] = L0[s]
      BY <2>5
    <3> QED
      BY <3>1, <3>2, NumbersInAdd
  <2>7. NumbersIn(L1) = Len(Numbers(lat[x])) + NumbersIn(L0)
    BY <2>5, <2>6
  <2> QED
    BY <2>7 DEF L0, L1, x
<1>6. \A i \in 0..n - 1 : i \in T
  <2>1. 0 \in T
    <3>1. 0 \in 0..n - 1 /\ 0 + 1 = 1 /\ 0 \in 0..n /\ 1 \in 1..n
      BY <1>1
    <3>2. NumbersIn(L(0)) = 0
      <4> DEFINE F == Sizes(L(0))
      <4>1. D(0) = {} /\ IsFiniteSet(D(0)) /\ L(0) \in [D(0) -> Blocks]
        BY <1>4, <3>1
      <4>2. NumbersIn(L(0)) = SumFunction(F) /\ F \in [{} -> Int]
        BY <4>1, SizesIs
      <4>3. IsFiniteSet({})
        BY FS_EmptySet
      <4> HIDE DEF F
      <4>4. SumFunction(F) = 0
        BY <4>2, <4>3, SumZero
      <4> QED
        BY <4>2, <4>4
    <3>3. NumbersIn(L(0 + 1)) = Len(Numbers(lat[sorted[0 + 1]])) + NumbersIn(L(0))
      BY <1>5, <3>1
    <3> HIDE DEF L, D
    <3>4. Len(Numbers(lat[sorted[1]])) \in Nat
      BY <1>1, <3>1, NumbersType
    <3>5. NumbersIn(L(1)) = Len(Numbers(lat[sorted[1]]))
      BY <3>1, <3>2, <3>3, <3>4
    <3>6. Len(Numbers(g[0 + 1])) = NumbersIn(L(0 + 1))
      BY <1>2, <3>1, <3>5
    <3> QED
      BY <3>1, <3>6
  <2>2. ASSUME NEW i \in 0..(n - 1) - 1, i \in T PROVE i + 1 \in T
    <3> DEFINE e == i + 1
    <3>1. e \in 0..n - 1 /\ e \in 1..n /\ e + 1 \in 2..n /\ e + 1 \in 1..n /\ (e + 1) - 1 = e
      BY <1>1
    <3>2. Len(Numbers(g[e])) = NumbersIn(L(e))
      BY <2>2
    <3>3. NumbersIn(L(e + 1)) = Len(Numbers(lat[sorted[e + 1]])) + NumbersIn(L(e))
      BY <1>5, <3>1
    <3> HIDE DEF L, D, e
    <3>4. g[e + 1] = g[e] \o lat[sorted[e + 1]]
      BY <1>2, <3>1
    <3>5. g[e] \in Blocks /\ lat[sorted[e + 1]] \in Blocks
      BY <1>1, <1>2, <3>1
    <3> DEFINE y == lat[sorted[e + 1]]
               z == g[e]
               u == Len(Numbers(y))
               v == Len(Numbers(z))
    <3>6. y \in Blocks /\ z \in Blocks /\ g[e + 1] = z \o y
      BY <3>4, <3>5
    <3>7. NumbersIn(L(e + 1)) = u + v
      BY <3>2, <3>3
    <3> HIDE DEF y, z
    <3>8. Len(Numbers(g[e + 1])) = v + u /\ u \in Nat /\ v \in Nat
      BY <3>6, NumbersConcat, NumbersType
    <3> HIDE DEF u, v
    <3>9. u + v = v + u
      BY <3>8
    <3>10. Len(Numbers(g[e + 1])) = NumbersIn(L(e + 1))
      BY <3>7, <3>8, <3>9
    <3>11. e \in T
      BY <3>1, <3>10
    <3> QED
      BY <3>11 DEF e
  <2>3. n - 1 \in Nat
    BY <1>1
  <2> HIDE DEF T
  <2> QED
    BY <2>1, <2>2, <2>3, UptoInd
<1>7. Len(Numbers(g[n])) = NumbersIn(L(n))
  <2>1. n - 1 \in 0..n - 1 /\ (n - 1) + 1 = n
    BY <1>1
  <2>2. Len(Numbers(g[(n - 1) + 1])) = NumbersIn(L((n - 1) + 1))
    BY <1>6, <2>1
  <2> QED
    BY <2>1, <2>2
<1>8. D(n) = samples
  <2>1. job = Tids
    BY DEF Jobs
  <2>2. Of(job) = samples
    BY <2>1 DEF Of, Growing, Sample
  <2>3. \A u \in samples : \E i \in 1..n : u = sorted[i]
    BY <2>2 DEF InOrder, n
  <2> QED
    BY <1>1, <2>3
<1>9. L(n) = lat
  BY <1>8 DEF Lists
<1>10. n \in 1..n
  BY <1>1
<1>11. g[n] \in Blocks /\ Len(Numbers(g[n])) = NumbersIn(lat)
  BY <1>2, <1>7, <1>9, <1>10
<1> QED
  BY <1>11 DEF n

LEMMA ListsReport ==
  ASSUME Growing, Jobs, InOrder, Lists, LatencyOnce, ReportLatency
  PROVE  Lists' /\ LatencyOnce'
<1>1. /\ phase = "latency" /\ phase' = "done" /\ UNCHANGED <<kind, count, latency, samples>>
  BY DEF ReportLatency
<1>2. PICK g : /\ IsChain(g)
               /\ lat' = [s \in DOMAIN lat |-> IF s = sorted[1] THEN g[Len(sorted)] ELSE <<>>]
  BY ChainIs
<1> DEFINE a == g[Len(sorted)]
           x == sorted[1]
<1>3. a \in Blocks /\ Len(Numbers(a)) = NumbersIn(lat)
  BY <1>1, <1>2, ChainCounts
<1>4. x \in samples
  <2>1. Len(sorted) \in Nat /\ Len(sorted) >= 1 /\ \A i \in 1..Len(sorted) : sorted[i] \in samples
    BY <1>1, SortedLists
  <2>2. 1 \in 1..Len(sorted)
    BY <2>1
  <2> QED
    BY <2>1, <2>2
<1>5. lat' = [s \in samples |-> IF s = x THEN a ELSE <<>>]
  BY <1>2 DEF Lists
<1> HIDE DEF a, x
<1>6. lat' \in [samples -> Blocks] /\ lat'[x] = a /\ \A s \in samples : s # x => lat'[s] = <<>>
  BY <1>3, <1>4, <1>5, NumbersNone
<1>7. Lists'
  BY <1>1, <1>6 DEF Lists
<1>8. NumbersIn(lat') = NumbersIn(lat)
  <2> DEFINE F == Sizes(lat')
  <2>1. NumbersIn(lat') = SumFunction(F) /\ F \in [samples -> Int] /\ F[x] = Len(Numbers(a))
    BY <1>4, <1>6, SizesIs
  <2>2. \A s \in samples : s # x => F[s] = 0
    BY <1>6, SizesIs, NumbersNone
  <2> HIDE DEF F
  <2>3. SumFunction(F) = F[x]
    BY <1>4, <2>1, <2>2, SumOne DEF Growing
  <2> QED
    BY <1>3, <2>1, <2>3
<1>9. NumbersIn(latency)' = NumbersIn(latency) /\ NumbersIn(lat)' = NumbersIn(lat')
  BY <1>1 DEF NumbersIn
<1> QED
  BY <1>1, <1>7, <1>8, <1>9 DEF LatencyOnce, TotalWork
----------------------------------------------------------------------------
(* Percentiles.                                                            *)

\* p puts the indices S of s in the order of their values.
Sorts(p, n, S, s) ==
  p \in Bijection(1..n, S) /\ \A i, k \in 1..n : i <= k => s[p[i]] <= s[p[k]]

\* One index with a value that is not less is put last.
LEMMA SortsLast ==
  ASSUME NEW n \in Nat, NEW S, NEW s, NEW x \in S, NEW q, Sorts(q, n, S \ {x}, s),
         \A i \in S : s[i] \in Nat /\ s[i] <= s[x]
  PROVE  \E p : Sorts(p, n + 1, S, s)
<1> DEFINE p == [i \in 1..n + 1 |-> IF i = n + 1 THEN x ELSE q[i]]
<1>1. /\ q \in [1..n -> S \ {x}] /\ (\A i, k \in 1..n : q[i] = q[k] => i = k)
      /\ \A y \in S \ {x} : \E i \in 1..n : q[i] = y
  BY DEF Sorts, Bijection, Injection, Surjection, IsInjective
<1>2. \A i, k \in 1..n : i <= k => s[q[i]] <= s[q[k]]
  BY DEF Sorts
<1>3. n + 1 \in 1..n + 1 /\ (\A i \in 1..n : i \in 1..n + 1 /\ i # n + 1)
      /\ \A i \in 1..n + 1 : i = n + 1 \/ i \in 1..n
  OBVIOUS
<1>4. p[n + 1] = x /\ \A i \in 1..n : p[i] = q[i]
  BY <1>3
<1>5. p \in [1..n + 1 -> S]
  BY <1>1, <1>3
<1>6. DOMAIN p = 1..n + 1
  OBVIOUS
<1> HIDE DEF p
<1>7. ASSUME NEW i \in 1..n + 1, NEW k \in 1..n + 1, p[i] = p[k] PROVE i = k
  <2>1. CASE i = n + 1 /\ k \in 1..n
    BY <1>1, <1>4, <1>7, <2>1
  <2>2. CASE k = n + 1 /\ i \in 1..n
    BY <1>1, <1>4, <1>7, <2>2
  <2>3. CASE i \in 1..n /\ k \in 1..n
    BY <1>1, <1>4, <1>7, <2>3
  <2> QED
    BY <1>3, <2>1, <2>2, <2>3
<1>8. ASSUME NEW y \in S PROVE \E i \in 1..n + 1 : p[i] = y
  <2>1. CASE y = x
    BY <1>3, <1>4, <2>1
  <2>2. CASE y # x
    <3>1. PICK i \in 1..n : q[i] = y
      BY <1>1, <2>2
    <3> QED
      BY <1>3, <1>4, <3>1
  <2> QED
    BY <2>1, <2>2
<1>9. ASSUME NEW i \in 1..n + 1, NEW k \in 1..n + 1, i <= k PROVE s[p[i]] <= s[p[k]]
  <2>1. CASE k = n + 1
    <3>1. p[i] \in S /\ p[k] = x
      BY <1>4, <1>5, <2>1
    <3> QED
      BY <3>1
  <2>2. CASE k \in 1..n
    <3>1. i \in 1..n
      BY <1>9, <2>2
    <3> QED
      BY <1>2, <1>4, <1>9, <2>2, <3>1
  <2> QED
    BY <1>3, <2>1, <2>2
<1>10. p \in Bijection(1..n + 1, S)
  BY <1>5, <1>6, <1>7, <1>8 DEF Bijection, Injection, Surjection, IsInjective
<1> QED
  BY <1>9, <1>10 DEF Sorts

LEMMA SortExists ==
  ASSUME NEW s \in Seq(Nat)
  PROVE  \E p : Sorts(p, Len(s), 1..Len(s), s)
<1> DEFINE m == Len(s)
           T == {n \in 0..m : \A S \in SUBSET (1..m) : Cardinality(S) = n => \E p : Sorts(p, n, S, s)}
<1>1. m \in Nat /\ \A i \in 1..m : s[i] \in Nat
  OBVIOUS
<1> HIDE DEF m
<1>2. IsFiniteSet(1..m) /\ Cardinality(1..m) = m
  BY <1>1, Upto
<1>3. \A S \in SUBSET (1..m) : IsFiniteSet(S) /\ Cardinality(S) \in Nat
  BY <1>2, FS_Subset, FS_CardinalityType
<1>4. 0 \in T
  <2>1. ASSUME NEW S \in SUBSET (1..m), Cardinality(S) = 0 PROVE \E p : Sorts(p, 0, S, s)
    <3>1. S = {}
      BY <1>3, <2>1, FS_EmptySet
    <3> DEFINE p == [i \in 1..0 |-> 0]
    <3>2. p \in [1..0 -> S] /\ DOMAIN p = 1..0 /\ \A i \in 1..0 : FALSE
      BY <3>1
    <3> HIDE DEF p
    <3>3. Sorts(p, 0, S, s)
      BY <3>1, <3>2 DEF Sorts, Bijection, Injection, Surjection, IsInjective
    <3> QED
      BY <3>3
  <2>2. 0 \in 0..m
    BY <1>1
  <2> QED
    BY <2>1, <2>2
<1>5. ASSUME NEW n \in 0..m - 1, n \in T PROVE n + 1 \in T
  <2>1. n \in Nat /\ n + 1 \in 0..m
    BY <1>1
  <2>2. ASSUME NEW S \in SUBSET (1..m), Cardinality(S) = n + 1 PROVE \E p : Sorts(p, n + 1, S, s)
    <3>1. IsFiniteSet(S) /\ S # {}
      BY <1>3, <2>1, <2>2, FS_EmptySet
    <3> DEFINE F == [i \in S |-> s[i]]
               V == {F[i] : i \in S}
    <3>2. DOMAIN F = S /\ F = [i \in S |-> F[i]] /\ \A i \in S : F[i] = s[i] /\ F[i] \in Nat
      BY <1>1
    <3> HIDE DEF F
    <3>3. IsFiniteSet(V)
      BY <3>1, <3>2, ImageFinite
    <3>4. V \in SUBSET Nat /\ V # {}
      BY <3>1, <3>2
    <3>5. Max(V) \in V /\ \A v \in V : v <= Max(V)
      <4> HIDE DEF V
      <4> QED
        BY <3>3, <3>4, MaxIs
    <3>6. PICK x \in S : F[x] = Max(V)
      BY <3>5
    <3>7. \A i \in S : s[i] \in Nat /\ s[i] <= s[x]
      BY <3>2, <3>5, <3>6
    <3>8. S \ {x} \in SUBSET (1..m) /\ Cardinality(S \ {x}) = n
      BY <2>1, <2>2, <3>1, Smaller
    <3>9. PICK q : Sorts(q, n, S \ {x}, s)
      BY <1>5, <3>8
    <3> HIDE DEF V
    <3> QED
      BY <2>1, <3>7, <3>9, SortsLast
  <2> QED
    BY <2>1, <2>2
<1>6. \A n \in 0..m : n \in T
  <2> HIDE DEF T
  <2> QED
    BY <1>1, <1>4, <1>5, UptoInd
<1>7. m \in 0..m /\ 1..m \in SUBSET (1..m)
  BY <1>1
<1>8. \E p : Sorts(p, m, 1..m, s)
  BY <1>2, <1>6, <1>7
<1> QED
  BY <1>8 DEF m

LEMMA AscendingIs ==
  ASSUME NEW s \in Seq(Nat)
  PROVE  \E p : /\ Sorts(p, Len(s), 1..Len(s), s) /\ Len(Ascending(s)) = Len(s)
                /\ \A i \in 1..Len(s) : Ascending(s)[i] = s[p[i]]
<1> DEFINE m == Len(s)
           p == CHOOSE p \in Bijection(1..m, 1..m) : \A i, k \in 1..m : i <= k => s[p[i]] <= s[p[k]]
<1>1. \E q \in Bijection(1..m, 1..m) : \A i, k \in 1..m : i <= k => s[q[i]] <= s[q[k]]
  BY SortExists DEF Sorts
<1>2. Sorts(p, m, 1..m, s)
  BY <1>1 DEF Sorts
<1>3. Ascending(s) = [i \in 1..m |-> s[p[i]]]
  BY DEF Ascending
<1>4. m \in Nat
  OBVIOUS
<1> HIDE DEF m, p
<1>5. Len(Ascending(s)) = m /\ \A i \in 1..m : Ascending(s)[i] = s[p[i]]
  BY <1>3, <1>4
<1> QED
  BY <1>2, <1>5 DEF m

LEMMA RankIs ==
  ASSUME NEW n \in Nat, n >= 1, NEW pc \in 0..100, NEW r, r = PercentileIndex(n, pc)
  PROVE  r \in 0..n - 1 /\ 100 * r <= (n - 1) * pc /\ (n - 1) * pc < 100 * (r + 1)
<1> DEFINE x == (n - 1) * pc
<1>1. x \in Nat /\ x <= (n - 1) * 100
  BY SMTT(30)
<1>2. r = x \div 100
  BY DEF PercentileIndex
<1> HIDE DEF x
<1>3. r \in Int /\ 100 * r <= x /\ x < 100 * (r + 1)
  BY <1>1, <1>2
<1>4. r \in 0..n - 1
  BY <1>1, <1>3
<1> QED
  BY <1>3, <1>4 DEF x

\* What numlist_percentile picks of a list that is not empty.
LEMMA PercentileIs ==
  ASSUME NEW s \in Seq(Nat), Len(s) >= 1, NEW pc \in 0..100, NEW c,
         c = Ascending(s)[PercentileIndex(Len(Ascending(s)), pc) + 1]
  PROVE  /\ 100 * Cardinality({i \in 1..Len(s) : s[i] < c}) <= (Len(s) - 1) * pc
         /\ (Len(s) - 1) * pc < 100 * Cardinality({i \in 1..Len(s) : s[i] <= c})
<1> DEFINE n == Len(s)
           r == PercentileIndex(n, pc)
           below == {i \in 1..n : s[i] < c}
           upto == {i \in 1..n : s[i] <= c}
<1>1. n \in Nat /\ n >= 1 /\ \A i \in 1..n : s[i] \in Nat
  OBVIOUS
<1>2. PICK p : /\ Sorts(p, n, 1..n, s) /\ Len(Ascending(s)) = n
               /\ \A i \in 1..n : Ascending(s)[i] = s[p[i]]
  BY AscendingIs
<1>3. /\ p \in [1..n -> 1..n] /\ (\A i, k \in 1..n : p[i] = p[k] => i = k)
      /\ (\A y \in 1..n : \E i \in 1..n : p[i] = y)
      /\ \A i, k \in 1..n : i <= k => s[p[i]] <= s[p[k]]
  BY <1>2 DEF Sorts, Bijection, Injection, Surjection, IsInjective
<1>4. r \in 0..n - 1 /\ 100 * r <= (n - 1) * pc /\ (n - 1) * pc < 100 * (r + 1)
  BY <1>1, RankIs
<1> HIDE DEF n, r
<1>5. r \in Nat /\ r + 1 \in 1..n /\ (\A k \in 1..r : k \in 1..n) /\ (\A k \in 1..r + 1 : k \in 1..n)
  BY <1>1, <1>4
<1>6. c = s[p[r + 1]]
  BY <1>2, <1>5 DEF n, r
<1>7. IsFiniteSet(1..n) /\ IsFiniteSet(below) /\ IsFiniteSet(upto)
  <2>1. IsFiniteSet(1..n) /\ below \in SUBSET (1..n) /\ upto \in SUBSET (1..n)
    BY <1>1, Upto
  <2> HIDE DEF below, upto
  <2> QED
    BY <2>1, FS_Subset
<1>8. Cardinality(below) \in Nat /\ Cardinality(upto) \in Nat
  BY <1>7, FS_CardinalityType
<1>9. Cardinality(below) <= r
  <2> DEFINE q == [k \in 1..r |-> p[k]]
             Q == {p[k] : k \in 1..r}
  <2>1. q \in Surjection(1..r, Q)
    BY DEF Surjection
  <2>2. IsFiniteSet(1..r) /\ Cardinality(1..r) = r
    BY <1>5, Upto
  <2>3. below \in SUBSET Q
    <3>1. ASSUME NEW i \in below PROVE i \in Q
      <4>1. PICK k \in 1..n : p[k] = i
        BY <1>3
      <4>2. ~ (s[p[r + 1]] <= s[p[k]])
        <5>1. s[p[k]] < s[p[r + 1]] /\ s[p[k]] \in Nat /\ s[p[r + 1]] \in Nat
          BY <1>1, <1>3, <1>5, <1>6, <4>1
        <5> QED
          BY <5>1
      <4>3. ~ (r + 1 <= k)
        BY <1>3, <1>5, <4>2
      <4>4. k \in 1..r
        BY <1>5, <4>1, <4>3
      <4> QED
        BY <4>1, <4>4
    <3> QED
      BY <3>1
  <2> HIDE DEF q, Q, below
  <2>4. IsFiniteSet(Q) /\ Cardinality(Q) <= r
    BY <2>1, <2>2, FS_Surjection
  <2>5. Cardinality(below) <= Cardinality(Q) /\ Cardinality(Q) \in Nat
    BY <2>3, <2>4, FS_Subset, FS_CardinalityType
  <2> QED
    BY <1>5, <1>8, <2>4, <2>5
<1>10. r + 1 <= Cardinality(upto)
  <2> DEFINE q == [k \in 1..r + 1 |-> p[k]]
  <2>1. ASSUME NEW k \in 1..r + 1 PROVE p[k] \in upto
    <3>1. k \in 1..n /\ k <= r + 1
      BY <1>5
    <3>2. p[k] \in 1..n
      BY <1>3, <3>1
    <3>3. s[p[k]] <= s[p[r + 1]]
      BY <1>3, <1>5, <3>1
    <3> QED
      BY <1>6, <3>2, <3>3
  <2>2. q \in [1..r + 1 -> upto] /\ DOMAIN q = 1..r + 1 /\ \A k \in 1..r + 1 : q[k] = p[k]
    BY <2>1
  <2> HIDE DEF q, upto
  <2>3. q \in Injection(1..r + 1, upto)
    BY <1>3, <1>5, <2>2 DEF Injection, IsInjective
  <2>4. r + 1 \in Nat /\ Cardinality(1..r + 1) = r + 1
    BY <1>5, Upto
  <2>5. Cardinality(1..r + 1) <= Cardinality(upto)
    BY <1>7, <2>3, FS_Injection
  <2> QED
    BY <2>4, <2>5
<1> DEFINE x == (n - 1) * pc
<1>11. x \in Int
  BY <1>1
<1>12. 100 * r <= x /\ x < 100 * (r + 1)
  BY <1>4
<1> HIDE DEF x, below, upto
<1>13. 100 * Cardinality(below) <= x /\ x < 100 * Cardinality(upto)
  BY <1>5, <1>8, <1>9, <1>10, <1>11, <1>12
<1> QED
  BY <1>13 DEF x, n, below, upto

LEMMA RanksReport ==
  ASSUME Growing, Jobs, InOrder, Lists, ReportLatency
  PROVE  PercentileRank'
<1>1. phase = "latency" /\ sorted' = sorted
  BY DEF ReportLatency
<1>2. PICK g : /\ IsChain(g)
               /\ lat' = [s \in DOMAIN lat |-> IF s = sorted[1] THEN g[Len(sorted)] ELSE <<>>]
               /\ chosen' = IF Numbers(g[Len(sorted)]) = <<>> THEN <<>>
                            ELSE [p \in Percentiles |-> numlist_percentile(g[Len(sorted)], p)]
  BY ChainIs
<1> DEFINE a == g[Len(sorted)]
           s == Numbers(a)
<1>3. a \in Blocks /\ s \in Seq(Nat)
  BY <1>1, <1>2, ChainCounts, NumbersType
<1>4. lat'[sorted'[1]] = a
  <2>1. Len(sorted) \in Nat /\ Len(sorted) >= 1 /\ \A i \in 1..Len(sorted) : sorted[i] \in samples
    BY <1>1, SortedLists
  <2>2. 1 \in 1..Len(sorted)
    BY <2>1
  <2>3. sorted[1] \in DOMAIN lat
    BY <2>1, <2>2 DEF Lists
  <2> QED
    BY <1>1, <1>2, <2>3
<1>5. chosen' = IF s = <<>> THEN <<>> ELSE [p \in Percentiles |-> numlist_percentile(a, p)]
  BY <1>2
<1> HIDE DEF a
<1>6. CASE s = <<>>
  <2>1. chosen' = <<>>
    BY <1>5, <1>6
  <2>2. DOMAIN chosen' = {}
    BY <2>1
  <2> QED
    BY <2>2 DEF PercentileRank
<1>7. CASE s # <<>>
  <2>1. chosen' = [p \in Percentiles |-> numlist_percentile(a, p)]
    BY <1>5, <1>7
  <2>2. Len(s) >= 1
    <3> HIDE DEF s
    <3> QED
      BY <1>3, <1>7
  <2>3. ASSUME NEW p \in DOMAIN chosen'
        PROVE  /\ 100 * Cardinality({i \in 1..Len(s) : s[i] < chosen'[p]}) <= (Len(s) - 1) * p
               /\ (Len(s) - 1) * p < 100 * Cardinality({i \in 1..Len(s) : s[i] <= chosen'[p]})
    <3>1. p \in Percentiles /\ p \in 0..100 /\ chosen'[p] = numlist_percentile(a, p)
      BY <2>1, StatsAssumption
    <3>2. chosen'[p] = Ascending(s)[PercentileIndex(Len(Ascending(s)), p) + 1]
      BY <3>1 DEF numlist_percentile
    <3> HIDE DEF s
    <3> QED
      BY <1>3, <2>2, <3>1, <3>2, PercentileIs
  <2>4. Numbers(lat[sorted[1]])' = s
    BY <1>4 DEF Numbers
  <2> HIDE DEF s
  <2> QED
    BY <2>3, <2>4 DEF PercentileRank
<1> QED
  BY <1>6, <1>7
----------------------------------------------------------------------------
(* The theorems.                                                           *)

\* The steps that touch neither lists nor percentiles.
LEMMA ListsAlone ==
  ASSUME Tick \/ Begin \/ TooFew \/ StartSum \/ SumNext \/ SumDone \/ \E s \in samples : SortNext(s)
  PROVE  phase # "done" /\ UNCHANGED <<kind, count, latency, samples, lat, chosen>>
  BY DEF Tick, Begin, TooFew, StartSum, SumNext, SumDone, SortNext, reportVars

LEMMA ListsNext ==
  ASSUME Growing, Jobs, InOrder, Lists, LatencyOnce, PercentileRank, [StatsNext]_statsVars
  PROVE  Lists' /\ LatencyOnce' /\ PercentileRank'
<1>1. ASSUME chosen' = <<>> PROVE PercentileRank'
  <2>1. DOMAIN chosen' = {}
    BY <1>1
  <2> QED
    BY <2>1 DEF PercentileRank
<1>2. CASE Tick \/ Begin \/ TooFew \/ StartSum \/ SumNext \/ SumDone \/ \E s \in samples : SortNext(s)
  <2>1. phase # "done" /\ UNCHANGED <<kind, count, latency, samples, lat, chosen>>
    BY <1>2, ListsAlone
  <2>2. chosen = <<>>
    BY <2>1 DEF Lists
  <2> QED
    BY <1>1, <2>1, <2>2 DEF Lists, LatencyOnce, NumbersIn, TotalWork
<1>3. ASSUME NEW f \in Flows, Work(f) \/ AddSample(f) PROVE Lists' /\ LatencyOnce' /\ PercentileRank'
  <2>1. phase = "test" /\ chosen' = chosen
    BY <1>3, TestLeaves DEF reportVars
  <2>2. chosen' = <<>>
    BY <2>1 DEF Lists
  <2> QED
    BY <1>1, <1>3, <2>2, ListsWork, ListsAddSample
<1>4. CASE ReportLatency
  BY <1>4, ListsReport, RanksReport
<1>5. CASE UNCHANGED statsVars
  <2>1. UNCHANGED <<kind, count, latency, samples, lat, chosen, phase, sorted>>
    BY <1>5 DEF statsVars
  <2>2. Lists' /\ LatencyOnce'
    BY <2>1 DEF Lists, LatencyOnce, NumbersIn, TotalWork
  <2>3. PercentileRank'
    BY <2>1 DEF PercentileRank
  <2> QED
    BY <2>2, <2>3
<1> QED
  BY <1>2, <1>3, <1>4, <1>5 DEF StatsNext

LEMMA LatencyOnceInit == StatsInit => LatencyOnce
<1> SUFFICES ASSUME StatsInit PROVE LatencyOnce
  OBVIOUS
<1>1. /\ latency = [f \in Flows |-> numlist_create] /\ lat = <<>> /\ count = [f \in Flows |-> 0]
  BY DEF StatsInit
<1>2. IsFiniteSet(Flows) /\ IsFiniteSet({})
  BY StatsAssumption, FS_EmptySet
<1>3. TotalWork = 0
  <2>1. count \in [Flows -> Int] /\ \A f \in Flows : count[f] = 0
    BY <1>1
  <2> QED
    BY <1>2, <2>1, SumZero DEF TotalWork
<1>4. NumbersIn(latency) = 0
  <2>1. latency \in [Flows -> Blocks] /\ \A f \in Flows : Len(Numbers(latency[f])) = 0
    BY <1>1, NumbersCreate
  <2> DEFINE F == Sizes(latency)
  <2>2. NumbersIn(latency) = SumFunction(F) /\ F \in [Flows -> Int] /\ \A f \in Flows : F[f] = 0
    BY <2>1, SizesIs
  <2> HIDE DEF F
  <2> QED
    BY <1>2, <2>2, SumZero
<1>5. NumbersIn(lat) = 0
  <2>1. lat \in [{} -> Blocks]
    BY <1>1
  <2> DEFINE F == Sizes(lat)
  <2>2. NumbersIn(lat) = SumFunction(F) /\ F \in [{} -> Int]
    BY <2>1, SizesIs
  <2> HIDE DEF F
  <2> QED
    BY <1>2, <2>2, SumZero
<1> QED
  BY <1>3, <1>4, <1>5 DEF LatencyOnce

\* The invariant that the theorems follow from.
StatsIInv == StatsInv /\ NeverWraps /\ TotalsAddUp /\ LatencyOnce /\ PercentileRank

LEMMA IInvInit == StatsInit => StatsIInv
<1> SUFFICES ASSUME StatsInit PROVE StatsIInv
  OBVIOUS
<1>1. StatsInv
  BY GrowingInit, JobsInit, InOrderInit, AddingInit, ListsInit DEF StatsInv
<1>2. phase = "test" /\ result = <<>> /\ chosen = <<>>
  BY DEF StatsInit
<1>3. NeverWraps
  BY <1>2 DEF NeverWraps
<1>4. TotalsAddUp
  <2>1. Len(result) = 0
    BY <1>2
  <2> QED
    BY <2>1 DEF TotalsAddUp
<1>5. PercentileRank
  <2>1. DOMAIN chosen = {}
    BY <1>2
  <2> QED
    BY <2>1 DEF PercentileRank
<1> QED
  BY <1>1, <1>3, <1>4, <1>5, LatencyOnceInit DEF StatsIInv

LEMMA IInvNext == StatsIInv /\ [StatsNext]_statsVars => StatsIInv'
<1> SUFFICES ASSUME StatsIInv, [StatsNext]_statsVars PROVE StatsIInv'
  OBVIOUS
<1>1. /\ Growing /\ Jobs /\ InOrder /\ Adding /\ Lists
      /\ NeverWraps /\ TotalsAddUp /\ LatencyOnce /\ PercentileRank
  BY DEF StatsIInv, StatsInv
<1>2. Growing' /\ Jobs' /\ InOrder' /\ Adding'
  BY <1>1, GrowingNext, JobsNext, InOrderNext, AddingNext
<1>3. Lists' /\ LatencyOnce' /\ PercentileRank'
  BY <1>1, ListsNext
<1>4. NeverWraps' /\ TotalsAddUp'
  BY <1>1, NeverWrapsNext, TotalsNext
<1> QED
  BY <1>2, <1>3, <1>4 DEF StatsIInv, StatsInv

\* For any number of workers, flows, samples and latencies, StatsIInv holds
\* throughout the test and the report.
THEOREM StatsInvariant == StatsSpec => []StatsIInv
<1>1. StatsInit => StatsIInv
  BY IInvInit
<1>2. StatsIInv /\ [StatsNext]_statsVars => StatsIInv'
  BY IInvNext
<1> QED
  BY <1>1, <1>2, PTL DEF StatsSpec

LEMMA TypeFollows == StatsIInv => StatsTypeOK
<1> SUFFICES ASSUME StatsIInv PROVE StatsTypeOK
  OBVIOUS
<1>1. Growing /\ Jobs /\ InOrder /\ Adding /\ Lists
  BY DEF StatsIInv, StatsInv
<1>2. samples \subseteq Sample /\ DOMAIN lat = samples /\ sorted \in Seq(Of(job))
  BY <1>1 DEF Growing, InOrder, Lists
<1>3. job \subseteq Tids
  <2>1. CASE phase = "test"
    BY <1>1, <2>1 DEF Jobs
  <2>2. CASE phase # "test"
    BY <1>1, <2>2, JobIsTids
  <2> QED
    BY <2>1, <2>2
<1>4. ASSUME phase = "sum", NEW i \in 1..Len(sorted)
      PROVE  Index(sorted[i], Cardinality(job)) \in DOMAIN per_flow
  <2>1. sorted[i] \in Of(job)
    BY <1>1, SortedIs
  <2>2. Index(sorted[i], Cardinality(job)) \in Allocated(job)
    BY <1>1, <2>1, PlaceIs
  <2>3. per_flow \in [Allocated(job) -> Nat]
    BY <1>1, <1>4 DEF Adding, Added
  <2> QED
    BY <2>2, <2>3
<1> QED
  BY <1>1, <1>2, <1>3, <1>4 DEF StatsTypeOK, Jobs

\* Samples that are being added up always have their place in per_flow, whether
\* calculate_stream_stats is passed all workers or one of them.
THEOREM StatsTyped == StatsSpec => []StatsTypeOK
<1>1. StatsIInv => StatsTypeOK
  BY TypeFollows
<1> QED
  BY <1>1, StatsInvariant, PTL

\* What a report divides is the sum of the counts that the flows ended with,
\* less that of a first sample, and the time between the first and the last.
THEOREM TotalsAreRight == StatsSpec => []TotalsAddUp
<1>1. StatsIInv => TotalsAddUp
  BY DEF StatsIInv
<1> QED
  BY <1>1, StatsInvariant, PTL

\* The unsigned running total of report_stats never wraps.
THEOREM TotalNeverWraps == StatsSpec => []NeverWraps
<1>1. StatsIInv => NeverWraps
  BY DEF StatsIInv
<1> QED
  BY <1>1, StatsInvariant, PTL

\* numlist_add, add_sample and the report's numlist_concat lose no latency and
\* keep none twice.
THEOREM LatenciesKeptOnce == StatsSpec => []LatencyOnce
<1>1. StatsIInv => LatencyOnce
  BY DEF StatsIInv
<1> QED
  BY <1>1, StatsInvariant, PTL

\* numlist_percentile picks the latency of the right rank, for any list that is
\* not empty.
THEOREM PercentilesRight == StatsSpec => []PercentileRank
<1>1. StatsIInv => PercentileRank
  BY DEF StatsIInv
<1> QED
  BY <1>1, StatsInvariant, PTL
==============================================================================
