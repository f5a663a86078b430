---------------------------- MODULE ScriptProofs ----------------------------
(***************************************************************************)
(* Proofs about Script, for any scripts, hooks and number of workers.      *)
(***************************************************************************)
EXTENDS Script, FiniteSetTheorems, SequenceTheorems, TLAPS

LEMMA LeastNumber ==
  ASSUME NEW T \in SUBSET Nat, T # {}
  PROVE  \E n \in T : \A m \in T : n <= m
<1>1. PICK n \in T : \A m \in T : ~ (<<m, n>> \in OpToRel(<, Nat))
  BY NatLessThanWellFounded, WFMin
<1>2. \A m \in T : ~ (m < n)
  BY <1>1 DEF OpToRel
<1> QED
  BY <1>2

LEMMA ProductNat == \A m, n \in Nat : m * n \in Nat
  OBVIOUS

\* What holds of 0, and of n + 1 if it holds of n, holds of every number.
LEMMA Induction ==
  ASSUME NEW T \in SUBSET Nat, 0 \in T, \A n \in T : n + 1 \in T
  PROVE  T = Nat
<1> SUFFICES ASSUME Nat \ T # {} PROVE FALSE
  OBVIOUS
<1>1. PICK n \in Nat \ T : \A m \in Nat \ T : n <= m
  BY LeastNumber, Nat \ T \in SUBSET Nat
<1>2. n # 0 /\ n - 1 \in Nat
  BY <1>1
<1>3. n - 1 \in T
  BY <1>1, <1>2
<1> QED
  BY <1>1, <1>2, <1>3

\* A function on numbers can be defined by its value at 0 and by how each
\* value follows from the one before it; In[n] is where the n-th one is.
Iterable(U, In, x, F) ==
  /\ In \in [Nat -> SUBSET U] /\ x \in In[0] /\ F \in [Nat \X U -> U]
  /\ \A n \in Nat : \A y \in In[n] : F[<<n, y>>] \in In[n + 1]

Iterates(g, U, In, x, F) ==
  /\ g \in [Nat -> U] /\ g[0] = x
  /\ \A n \in Nat : g[n] \in In[n] /\ g[n + 1] = F[<<n, g[n]>>]

LEMMA Iteration ==
  ASSUME NEW U, NEW In, NEW x, NEW F, Iterable(U, In, x, F)
  PROVE  \E g : Iterates(g, U, In, x, F)
<1> USE DEF Iterable
<1> DEFINE Starts(g, n) == /\ g \in [0..n -> U]
                           /\ g[0] = x
                           /\ \A k \in 0..n : g[k] \in In[k]
                           /\ \A k \in 0..n : k # n => g[k + 1] = F[<<k, g[k]>>]
           T == {n \in Nat : \E g : Starts(g, n)}
<1>1. 0 \in T
  <2>1. Starts([k \in 0..0 |-> x], 0)
    OBVIOUS
  <2> QED
    BY <2>1
<1>2. ASSUME NEW n \in T PROVE n + 1 \in T
  <2>1. PICK g : Starts(g, n)
    OBVIOUS
  <2> DEFINE h == [k \in 0..n + 1 |-> IF k = n + 1 THEN F[<<n, g[n]>>] ELSE g[k]]
  <2>2. n \in Nat /\ g[n] \in In[n] /\ g[n] \in U
    BY <2>1
  <2>3. F[<<n, g[n]>>] \in In[n + 1] /\ F[<<n, g[n]>>] \in U
    BY <2>2
  <2>4. \A k \in 0..n : h[k] = g[k]
    BY <2>2
  <2>5. h[n + 1] = F[<<n, g[n]>>]
    BY <2>2
  <2>6. h \in [0..n + 1 -> U]
    BY <2>1, <2>2, <2>3
  <2>7. h[0] = x
    BY <2>1, <2>2, <2>4
  <2>8. \A k \in 0..n + 1 : h[k] \in In[k]
    BY <2>1, <2>2, <2>3, <2>4, <2>5
  <2>9. ASSUME NEW k \in 0..n + 1, k # n + 1 PROVE h[k + 1] = F[<<k, h[k]>>]
    <3>1. CASE k = n
      BY <2>2, <2>4, <2>5, <3>1
    <3>2. CASE k # n
      <4>1. k \in 0..n /\ k + 1 \in 0..n
        BY <2>2, <2>9, <3>2
      <4> QED
        BY <2>1, <2>4, <3>2, <4>1
    <3> QED
      BY <3>1, <3>2
  <2> HIDE DEF h
  <2>10. Starts(h, n + 1)
    BY <2>6, <2>7, <2>8, <2>9
  <2> QED
    BY SMTT(30), <2>2, <2>10
<1> HIDE DEF T
<1>3. T = Nat
  BY <1>1, <1>2, Induction DEF T
<1> USE DEF T
<1> DEFINE G(n) == CHOOSE g : Starts(g, n)
<1> HIDE DEF Starts
<1>4. \A n \in Nat : Starts(G(n), n)
  BY <1>3
<1> USE DEF Starts
<1> HIDE DEF G
<1>5. ASSUME NEW m \in Nat, NEW n \in Nat, m <= n PROVE G(n)[m] = G(m)[m]
  <2> DEFINE Q == {k \in Nat : k <= m => G(n)[k] = G(m)[k]}
  <2>1. 0 \in Q
    BY <1>4
  <2>2. ASSUME NEW k \in Q PROVE k + 1 \in Q
    <3>1. CASE k + 1 <= m
      <4>1. k \in 0..m /\ k # m /\ k \in 0..n /\ k # n
        BY <1>5, <3>1
      <4>2. G(n)[k + 1] = F[<<k, G(n)[k]>>] /\ G(m)[k + 1] = F[<<k, G(m)[k]>>]
        BY <1>4, <4>1
      <4> QED
        BY <4>1, <4>2
    <3> QED
      BY <3>1
  <2> HIDE DEF Q
  <2>3. Q = Nat
    BY <2>1, <2>2, Induction DEF Q
  <2> QED
    BY <2>3 DEF Q
<1> DEFINE g == [n \in Nat |-> G(n)[n]]
<1>6. \A n \in Nat : g[n] \in In[n]
  BY <1>4
<1>7. g \in [Nat -> U]
  BY <1>6
<1>8. g[0] = x
  BY <1>4
<1>9. ASSUME NEW n \in Nat PROVE g[n + 1] = F[<<n, g[n]>>]
  <2>1. n \in 0..n + 1 /\ n # n + 1
    OBVIOUS
  <2>2. G(n + 1)[n + 1] = F[<<n, G(n + 1)[n]>>]
    BY <1>4, <2>1
  <2>3. G(n + 1)[n] = G(n)[n]
    BY <1>5
  <2> QED
    BY SMTT(30), <2>2, <2>3
<1> QED
  BY <1>6, <1>7, <1>8, <1>9 DEF Iterates
----------------------------------------------------------------------------
(* Two heaps that are alike.                                               *)

\* Value v of a and w of b: objects are counterparts by org.
Agree(org, v, w) ==
  v[1] = w[1] /\ IF v[1] = "obj" THEN w[2] \in DOMAIN org /\ org[w[2]] = v[2] ELSE v = w

\* The objects in the domain of org and the locations in that of lorg are
\* copies of what org and lorg say they are; b may have others besides.
Mirrors(a, b, org, lorg) ==
  /\ \A d \in DOMAIN org :
       /\ b.kind[d] = a.kind[org[d]]
       /\ DOMAIN b.slots[d] = DOMAIN a.slots[org[d]]
       /\ \A i \in DOMAIN b.slots[d] :
            b.slots[d][i] \in DOMAIN lorg /\ lorg[b.slots[d][i]] = a.slots[org[d]][i]
  /\ \A x, y \in DOMAIN lorg : lorg[x] = lorg[y] => x = y
  /\ \A x \in DOMAIN lorg : Agree(org, a.val[lorg[x]], b.val[x])

Pairs(org) == {<<org[d], d>> : d \in DOMAIN org}

LEMMA InsidePairs ==
  ASSUME NEW a, NEW b, NEW org, NEW lorg, Mirrors(a, b, org, lorg),
         NEW R \in SUBSET Pairs(org)
  PROVE  WithInside(a, b, R) \in SUBSET Pairs(org)
<1> SUFFICES ASSUME NEW r \in R, NEW i \in DOMAIN a.slots[r[1]] \intersect DOMAIN b.slots[r[2]],
                    a.val[a.slots[r[1]][i]][1] = "obj"
             PROVE  <<a.val[a.slots[r[1]][i]][2], b.val[b.slots[r[2]][i]][2]>> \in Pairs(org)
  BY DEF WithInside
<1>1. PICK d \in DOMAIN org : r = <<org[d], d>>
  BY DEF Pairs
<1>2. b.slots[d][i] \in DOMAIN lorg /\ lorg[b.slots[d][i]] = a.slots[org[d]][i]
  BY <1>1 DEF Mirrors
<1>3. Agree(org, a.val[lorg[b.slots[d][i]]], b.val[b.slots[d][i]])
  BY <1>2 DEF Mirrors
<1>4. b.val[b.slots[d][i]][2] \in DOMAIN org
      /\ org[b.val[b.slots[d][i]][2]] = a.val[a.slots[org[d]][i]][2]
  BY <1>1, <1>2, <1>3 DEF Agree
<1> QED
  BY SMTT(30), <1>1, <1>4 DEF Pairs

\* What Matched computes stays among the pairs of a mirror.
LEMMA MatchedPairs ==
  ASSUME NEW a, NEW b, NEW org, NEW lorg, Mirrors(a, b, org, lorg),
         NEW R \in SUBSET Pairs(org), Len(a.kind) \in Nat, Len(b.kind) \in Nat
  PROVE  Matched(a, b, R) \in SUBSET Pairs(org)
<1> DEFINE U == SUBSET Pairs(org)
           In == [n \in Nat |-> U]
           F  == [p \in Nat \X U |-> WithInside(a, b, p[2])]
           Is(f) == f = [n \in Nat |-> IF n = 0 THEN R ELSE WithInside(a, b, f[n - 1])]
           f == CHOOSE f : Is(f)
<1>1. Matched(a, b, R) = f[Len(a.kind) * Len(b.kind)]
  BY DEF Matched
<1>2. F \in [Nat \X U -> U]
  BY InsidePairs
<1>3. \A n \in Nat : \A y \in In[n] : F[<<n, y>>] \in In[n + 1]
  BY <1>2
<1>4. In \in [Nat -> SUBSET U] /\ R \in In[0]
  OBVIOUS
<1> HIDE DEF In, F, U
<1>5. PICK g : Iterates(g, U, In, R, F)
  BY <1>2, <1>3, <1>4, Iteration DEF Iterable
<1>6. \A n \in Nat : g[n + 1] = WithInside(a, b, g[n])
  BY <1>5 DEF F, Iterates
<1>7. Is(g)
  <2>1. ASSUME NEW n \in Nat PROVE g[n] = IF n = 0 THEN R ELSE WithInside(a, b, g[n - 1])
    <3>1. CASE n # 0
      <4>1. n - 1 \in Nat /\ (n - 1) + 1 = n
        BY <3>1
      <4> QED
        BY <1>6, <3>1, <4>1
    <3> QED
      BY <1>5, <3>1 DEF Iterates
  <2>2. g = [n \in Nat |-> g[n]]
    BY <1>5 DEF Iterates
  <2> QED
    BY <2>1, <2>2
<1>8. Is(f)
  BY <1>7
<1> HIDE DEF f
<1> DEFINE T == {n \in Nat : f[n] = g[n]}
<1>9. 0 \in T
  BY <1>5, <1>8 DEF Iterates
<1>10. ASSUME NEW n \in T PROVE n + 1 \in T
  <2>1. n + 1 \in Nat /\ n + 1 # 0 /\ (n + 1) - 1 = n
    OBVIOUS
  <2>2. f[n + 1] = WithInside(a, b, f[n])
    BY <1>8, <2>1
  <2> QED
    BY <1>6, <2>1, <2>2
<1> HIDE DEF T
<1>11. T = Nat
  BY <1>9, <1>10, Induction DEF T
<1>12. Len(a.kind) * Len(b.kind) \in Nat
  BY ProductNat
<1>13. f[Len(a.kind) * Len(b.kind)] \in U
  BY <1>5, <1>11, <1>12 DEF T, Iterates
<1> QED
  BY <1>1, <1>13 DEF U

\* A mirror cannot be told apart from what it mirrors.
LEMMA MirrorsAlike ==
  ASSUME NEW a, NEW b, NEW org, NEW lorg, Mirrors(a, b, org, lorg),
         NEW R \in SUBSET Pairs(org), Len(a.kind) \in Nat, Len(b.kind) \in Nat
  PROVE  /\ Alike(a, b, R)
         /\ \A p \in SameNames(a, b, Matched(a, b, R)) :
              p[2] \in DOMAIN lorg /\ p[1] = lorg[p[2]]
<1> DEFINE M == Matched(a, b, R)
           L == SameNames(a, b, M)
<1>1. M \in SUBSET Pairs(org)
  BY MatchedPairs
<1>2. ASSUME NEW p \in L PROVE p[2] \in DOMAIN lorg /\ p[1] = lorg[p[2]]
  <2>1. PICK r \in M : \E i \in DOMAIN a.slots[r[1]] \intersect DOMAIN b.slots[r[2]] :
                          p = <<a.slots[r[1]][i], b.slots[r[2]][i]>>
    BY DEF SameNames
  <2>2. PICK d \in DOMAIN org : r = <<org[d], d>>
    BY <1>1, <2>1 DEF Pairs
  <2> QED
    BY <2>1, <2>2 DEF Mirrors
<1>3. ASSUME NEW r \in M
      PROVE  a.kind[r[1]] = b.kind[r[2]] /\ DOMAIN a.slots[r[1]] = DOMAIN b.slots[r[2]]
  <2>1. PICK d \in DOMAIN org : r = <<org[d], d>>
    BY <1>1 DEF Pairs
  <2> QED
    BY <2>1 DEF Mirrors
<1>4. ASSUME NEW p \in L
      PROVE  a.val[p[1]][1] = b.val[p[2]][1] /\ (a.val[p[1]][1] # "obj" => a.val[p[1]] = b.val[p[2]])
  <2>1. Agree(org, a.val[lorg[p[2]]], b.val[p[2]])
    BY <1>2 DEF Mirrors
  <2> QED
    BY <1>2, <2>1 DEF Agree
<1>5. ASSUME NEW p \in L, NEW q \in L PROVE p[1] = q[1] <=> p[2] = q[2]
  BY <1>2 DEF Mirrors
<1> HIDE DEF M, L
<1>6. Alike(a, b, R)
  BY <1>3, <1>4, <1>5 DEF Alike, M, L
<1> QED
  BY <1>2, <1>6 DEF L, M
----------------------------------------------------------------------------
(* What serialize_object meets: the least set of objects that is closed.   *)

LEMMA ObjectsLeast ==
  ASSUME NEW s, NEW v, NEW T \in SUBSET DOMAIN s.kind, v[1] = "obj" => v[2] \in T, Closed(s, T)
  PROVE  Objects(s, v) \subseteq T
<1> SUFFICES ASSUME NEW o \in Objects(s, v), o \notin T PROVE FALSE
  OBVIOUS
<1>1. T \in SUBSET (DOMAIN s.kind \ {o})
  OBVIOUS
<1> QED
  BY <1>1 DEF Objects

\* The objects that are in slots are objects of the heap.
Whole(s) ==
  \A o \in DOMAIN s.kind : \A i \in DOMAIN s.slots[o] :
    Content(s, o, i)[1] = "obj" => Content(s, o, i)[2] \in DOMAIN s.kind

LEMMA ObjectsClosed ==
  ASSUME NEW s, NEW v, Whole(s)
  PROVE  /\ Objects(s, v) \subseteq DOMAIN s.kind
         /\ Closed(s, Objects(s, v))
         /\ v[1] = "obj" /\ v[2] \in DOMAIN s.kind => v[2] \in Objects(s, v)
<1>1. Objects(s, v) \subseteq DOMAIN s.kind
  BY DEF Objects
<1>2. ASSUME NEW o \in Objects(s, v), NEW i \in DOMAIN s.slots[o], Content(s, o, i)[1] = "obj",
             Content(s, o, i)[2] \notin Objects(s, v)
      PROVE  FALSE
  <2> DEFINE p == Content(s, o, i)[2]
  <2>1. p \in DOMAIN s.kind
    BY <1>1, <1>2 DEF Whole
  <2>2. PICK T \in SUBSET (DOMAIN s.kind \ {p}) : (v[1] = "obj" => v[2] \in T) /\ Closed(s, T)
    BY <1>2, <2>1 DEF Objects
  <2>3. o \in T
    BY <2>2, ObjectsLeast
  <2>4. p \in T
    BY <1>2, <2>2, <2>3 DEF Closed
  <2> QED
    BY <2>2, <2>4
<1>3. Closed(s, Objects(s, v))
  BY <1>2 DEF Closed
<1>4. ASSUME v[1] = "obj", v[2] \in DOMAIN s.kind PROVE v[2] \in Objects(s, v)
  BY <1>4 DEF Objects
<1> QED
  BY <1>1, <1>3, <1>4
----------------------------------------------------------------------------
(* The fields of a Lua state after each of the steps of a copy.            *)

Tags == {"nil", "num", "obj", "col"}

Vals == Tags \X Nat

Kinds == {"function", "table"}

Where == [object : Nat, number : Nat]

Maps(R) == UNION {[D -> R] : D \in SUBSET Nat}

Heaps ==
  [kind : Seq(Kinds), slots : Seq(Seq(Nat)), val : Seq(Vals), id : Seq(Nat), cols : Seq(Seq(Vals)),
   object_map : Maps(Nat), upvalue_map : Maps(Where), collector_map : Maps(Where)]

Calls == [id : Nat, object : Nat, left : Nat]

Copies == [state : Heaps, calls : Seq(Calls)]

SlotSet == [id : Nat, collector_id : Nat, value : Vals]

LEMMA ObjIs ==
  ASSUME NEW o \in Nat
  PROVE  Obj(o) \in Vals /\ Obj(o)[1] = "obj" /\ Obj(o)[2] = o
  BY DEF Obj, Vals, Tags

LEMMA PutIs ==
  ASSUME NEW R, NEW f \in Maps(R), NEW k \in Nat, NEW v \in R
  PROVE  /\ Put(f, k, v) \in Maps(R)
         /\ DOMAIN Put(f, k, v) = DOMAIN f \union {k}
         /\ Put(f, k, v)[k] = v
         /\ \A x \in DOMAIN f : x # k => Put(f, k, v)[x] = f[x]
<1>1. PICK D \in SUBSET Nat : f \in [D -> R]
  BY DEF Maps
<1>2. Put(f, k, v) \in [D \union {k} -> R] /\ D \union {k} \in SUBSET Nat
  BY <1>1 DEF Put
<1> QED
  BY <1>1, <1>2 DEF Put, Maps

LEMMA AppendIs ==
  ASSUME NEW E, NEW q \in Seq(E), NEW e \in E
  PROVE  /\ Append(q, e) \in Seq(E)
         /\ Len(q) \in Nat /\ Len(Append(q, e)) = Len(q) + 1 /\ DOMAIN q = 1..Len(q)
         /\ Append(q, e)[Len(q) + 1] = e
         /\ \A i \in 1..Len(q) : Append(q, e)[i] = q[i]
  OBVIOUS

LEMMA ElementIs ==
  ASSUME NEW E, NEW q \in Seq(E), NEW k \in DOMAIN q
  PROVE  q[k] \in E /\ k \in Nat /\ k # 0
  OBVIOUS

LEMMA IndexIs ==
  ASSUME NEW E, NEW q \in Seq(E), NEW k \in DOMAIN q
  PROVE  /\ DOMAIN q = 1..Len(q) /\ Len(q) \in Nat /\ k \in Nat
         /\ 1 \in DOMAIN q /\ (k # 1 => k - 1 \in DOMAIN q)
  OBVIOUS

LEMMA TailIs ==
  ASSUME NEW E, NEW q \in Seq(E), Len(q) = 1
  PROVE  Tail(q) = <<>>
<1>1. q # <<>>
  BY EmptySeq
<1>2. Tail(q) \in Seq(E) /\ Len(Tail(q)) = 0
  BY <1>1, HeadTailProperties
<1> QED
  BY <1>2, EmptySeq

LEMMA OneIn == ASSUME NEW m \in Nat \ {0} PROVE 1 \in 1..m
  OBVIOUS

LEMMA RangeGrows ==
  ASSUME NEW a \in Nat, NEW b \in Nat, a <= b
  PROVE  (a + 1..b) \union {b + 1} = a + 1..b + 1 /\ a <= b + 1
  OBVIOUS

LEMMA HeadIs ==
  ASSUME NEW E, NEW q \in Seq(E), q # <<>>
  PROVE  Head(q) = q[1] /\ q[1] \in E /\ Len(q) \in Nat \ {0}
  OBVIOUS

LEMMA ReplacedIs ==
  ASSUME NEW E, NEW q \in Seq(E), NEW k \in DOMAIN q, NEW e \in E
  PROVE  LET r == [q EXCEPT ![k] = e]
         IN  /\ r \in Seq(E) /\ DOMAIN r = DOMAIN q /\ Len(r) = Len(q)
             /\ r[k] = e /\ \A j \in DOMAIN q : j # k => r[j] = q[j]
  OBVIOUS

LEMMA NextSlotIs ==
  ASSUME NEW K \in Seq(Calls), K # <<>>, K[1].left # 0
  PROVE  /\ NextSlot(K) \in Seq(Calls) /\ Len(NextSlot(K)) = Len(K) /\ Len(K) \in Nat \ {0}
         /\ NextSlot(K)[1] = [K[1] EXCEPT !.left = @ - 1]
         /\ \A k \in 1..Len(K) : k # 1 => NextSlot(K)[k] = K[k]
<1> DEFINE e == [K[1] EXCEPT !.left = @ - 1]
<1>1. Len(K) \in Nat \ {0} /\ K[1] \in Calls /\ Head(K) = K[1]
  OBVIOUS
<1>2. e \in Calls
  <2>1. K[1].left \in Nat /\ K[1].left # 0
    BY <1>1 DEF Calls
  <2>2. K[1].left - 1 \in Nat
    BY <2>1
  <2> QED
    BY <1>1, <2>2 DEF Calls
<1>3. Tail(K) \in Seq(Calls) /\ Len(Tail(K)) = Len(K) - 1
      /\ \A k \in 1..Len(K) - 1 : Tail(K)[k] = K[k + 1]
  BY <1>1
<1>4. NextSlot(K) = <<e>> \o Tail(K)
  BY <1>1 DEF NextSlot
<1> HIDE DEF e
<1>5. /\ <<e>> \o Tail(K) \in Seq(Calls) /\ Len(<<e>> \o Tail(K)) = Len(K)
      /\ (<<e>> \o Tail(K))[1] = e
      /\ \A k \in 2..Len(K) : (<<e>> \o Tail(K))[k] = Tail(K)[k - 1]
  BY <1>1, <1>2, <1>3
<1>6. ASSUME NEW k \in 1..Len(K), k # 1 PROVE NextSlot(K)[k] = K[k]
  <2>1. k \in 2..Len(K) /\ k - 1 \in 1..Len(K) - 1 /\ (k - 1) + 1 = k
    BY <1>1, <1>6
  <2> QED
    BY <1>3, <1>4, <1>5, <2>1
<1> QED
  BY <1>1, <1>4, <1>5, <1>6 DEF e

\* n comes from c by a new object.
Begun(c, sv, id, n) ==
  LET s == c.state
      t == n.state
      o == Len(s.kind) + 1
      m == Len(sv.nodes[id].slots)
  IN  /\ n \in Copies
      /\ t.kind = Append(s.kind, sv.nodes[id].type)
      /\ t.slots = Append(s.slots, [i \in 1..m |-> 0])
      /\ t.object_map = Put(s.object_map, id, o)
      /\ t.val = s.val /\ t.id = s.id /\ t.cols = s.cols
      /\ t.upvalue_map = s.upvalue_map /\ t.collector_map = s.collector_map
      /\ Len(n.calls) = Len(c.calls) + 1
      /\ n.calls[1] = [id |-> id, object |-> o, left |-> m]
      /\ \A k \in 1..Len(c.calls) : n.calls[k + 1] = c.calls[k]

LEMMA NewObjectIs ==
  ASSUME NEW c \in Copies, NEW sv, NEW id \in Nat,
         sv.nodes[id].slots \in Seq(SlotSet), sv.nodes[id].type \in Kinds
  PROVE  Begun(c, sv, id, NewObject(c, sv, id))
<1> DEFINE s == c.state
           n == NewObject(c, sv, id)
           o == Len(s.kind) + 1
           m == Len(sv.nodes[id].slots)
           f == [id |-> id, object |-> o, left |-> m]
           z == [i \in 1..m |-> 0]
<1>1. s \in Heaps /\ c.calls \in Seq(Calls) /\ m \in Nat
  BY DEF Copies
<1>2. s.kind \in Seq(Kinds) /\ s.slots \in Seq(Seq(Nat)) /\ s.object_map \in Maps(Nat)
  BY <1>1 DEF Heaps
<1>3. o \in Nat /\ Append(s.kind, sv.nodes[id].type) \in Seq(Kinds)
  BY <1>2
<1>4. z \in Seq(Nat)
  BY <1>1
<1>5. Append(s.slots, z) \in Seq(Seq(Nat))
  BY <1>2, <1>4, AppendIs
<1>6. Put(s.object_map, id, o) \in Maps(Nat)
  BY <1>2, <1>3, PutIs
<1>7. n.state = [s EXCEPT !.kind = Append(s.kind, sv.nodes[id].type), !.slots = Append(s.slots, z),
                          !.object_map = Put(s.object_map, id, o)]
  BY <1>1, <1>2 DEF NewObject, Heaps
<1>8. n.calls = <<f>> \o c.calls
  BY DEF NewObject
<1> HIDE DEF n, z
<1>9. /\ n.state \in Heaps
      /\ n.state.kind = Append(s.kind, sv.nodes[id].type)
      /\ n.state.slots = Append(s.slots, z)
      /\ n.state.object_map = Put(s.object_map, id, o)
      /\ n.state.val = s.val /\ n.state.id = s.id /\ n.state.cols = s.cols
      /\ n.state.upvalue_map = s.upvalue_map /\ n.state.collector_map = s.collector_map
  BY <1>1, <1>3, <1>5, <1>6, <1>7 DEF Heaps
<1>10. f \in Calls
  BY <1>1, <1>3 DEF Calls
<1> HIDE DEF f
<1>11. /\ n.calls \in Seq(Calls)
       /\ Len(n.calls) = Len(c.calls) + 1
       /\ n.calls[1] = f
       /\ \A k \in 1..Len(c.calls) : n.calls[k + 1] = c.calls[k]
  BY <1>1, <1>8, <1>10
<1>12. n \in Copies
  <2>1. n = [state |-> n.state, calls |-> n.calls]
    BY DEF n, NewObject
  <2> QED
    BY <1>9, <1>11, <2>1 DEF Copies
<1> QED
  BY <1>9, <1>11, <1>12 DEF n, z, f, Begun

\* n comes from c by setting a slot to v.
Set(c, sv, v, n) ==
  LET s    == c.state
      t    == n.state
      f    == c.calls[1]
      node == sv.nodes[f.id]
      slot == node.slots[f.left]
      here == [object |-> f.object, number |-> f.left]
      l    == Len(s.val) + 1
  IN  /\ n \in Copies /\ n.calls = NextSlot(c.calls)
      /\ t.val = Append(s.val, v) /\ t.id = Append(s.id, l)
      /\ DOMAIN t.slots = DOMAIN s.slots /\ Len(t.slots) = Len(s.slots)
      /\ \A d \in DOMAIN s.slots : DOMAIN t.slots[d] = DOMAIN s.slots[d]
      /\ \A d \in DOMAIN s.slots : d # f.object => t.slots[d] = s.slots[d]
      /\ t.slots[f.object][f.left] = l
      /\ \A i \in DOMAIN s.slots[f.object] :
           i # f.left => t.slots[f.object][i] = s.slots[f.object][i]
      /\ t.kind = s.kind /\ t.cols = s.cols /\ t.object_map = s.object_map
      /\ t.upvalue_map = IF node.type = "function" THEN Put(s.upvalue_map, slot.id, here)
                         ELSE s.upvalue_map
      /\ t.collector_map = IF slot.collector_id # 0
                           THEN Put(s.collector_map, slot.collector_id, here)
                           ELSE s.collector_map

LEMMA SetSlotIs ==
  ASSUME NEW c \in Copies, NEW sv, NEW v \in Vals, c.calls # <<>>,
         c.calls[1].object \in DOMAIN c.state.slots,
         c.calls[1].left \in DOMAIN c.state.slots[c.calls[1].object],
         sv.nodes[c.calls[1].id].slots[c.calls[1].left] \in SlotSet
  PROVE  Set(c, sv, v, SetSlot(c, sv, v))
<1> DEFINE s == c.state
           n == SetSlot(c, sv, v)
           f == c.calls[1]
           node == sv.nodes[f.id]
           slot == node.slots[f.left]
           here == [object |-> f.object, number |-> f.left]
           l == Len(s.val) + 1
           q == [s.slots EXCEPT ![f.object] = [@ EXCEPT ![f.left] = l]]
           up == IF node.type = "function" THEN Put(s.upvalue_map, slot.id, here) ELSE s.upvalue_map
           co == IF slot.collector_id # 0 THEN Put(s.collector_map, slot.collector_id, here)
                 ELSE s.collector_map
<1>1. s \in Heaps /\ c.calls \in Seq(Calls)
  BY DEF Copies
<1>2. /\ s.slots \in Seq(Seq(Nat)) /\ s.val \in Seq(Vals) /\ s.id \in Seq(Nat)
      /\ s.upvalue_map \in Maps(Where) /\ s.collector_map \in Maps(Where)
  BY <1>1 DEF Heaps
<1>3. Head(c.calls) = f /\ f \in Calls /\ here \in Where
  <2>1. Head(c.calls) = f /\ f \in Calls
    BY <1>1, HeadIs
  <2> QED
    BY <2>1 DEF Calls, Where
<1>4. l \in Nat /\ Append(s.val, v) \in Seq(Vals)
  <2>1. Append(s.val, v) \in Seq(Vals) /\ Len(s.val) \in Nat
    BY <1>2, AppendIs
  <2> QED
    BY <2>1
<1>5. Append(s.id, l) \in Seq(Nat)
  BY <1>2, <1>4, AppendIs
<1>6. /\ s.slots[f.object] \in Seq(Nat)
      /\ [s.slots[f.object] EXCEPT ![f.left] = l] \in Seq(Nat)
  <2>1. s.slots[f.object] \in Seq(Nat)
    BY <1>2, ElementIs
  <2> HIDE DEF l
  <2> QED
    BY SMTT(30), <1>4, <2>1, ReplacedIs
<1>7. /\ q \in Seq(Seq(Nat)) /\ DOMAIN q = DOMAIN s.slots /\ Len(q) = Len(s.slots)
      /\ \A d \in DOMAIN s.slots : d # f.object => q[d] = s.slots[d]
      /\ q[f.object] = [s.slots[f.object] EXCEPT ![f.left] = l]
  <2> DEFINE r == [s.slots[f.object] EXCEPT ![f.left] = l]
  <2>1. q = [s.slots EXCEPT ![f.object] = r]
    OBVIOUS
  <2> HIDE DEF r, q
  <2>2. r \in Seq(Nat)
    BY <1>6 DEF r
  <2>3. /\ q \in Seq(Seq(Nat)) /\ DOMAIN q = DOMAIN s.slots /\ Len(q) = Len(s.slots)
        /\ q[f.object] = r /\ \A d \in DOMAIN s.slots : d # f.object => q[d] = s.slots[d]
    BY SMTT(30), <1>2, <2>1, <2>2, ReplacedIs
  <2> QED
    BY <2>3 DEF r
<1>8. slot.id \in Nat /\ slot.collector_id \in Nat
  BY Zenon DEF SlotSet
<1>9. up \in Maps(Where) /\ co \in Maps(Where)
  <2> HIDE DEF here
  <2>1. Put(s.upvalue_map, slot.id, here) \in Maps(Where)
    BY <1>2, <1>3, <1>8, PutIs
  <2>2. Put(s.collector_map, slot.collector_id, here) \in Maps(Where)
    BY <1>2, <1>3, <1>8, PutIs
  <2> QED
    BY Zenon, <1>2, <2>1, <2>2
<1>10. n.state = [s EXCEPT !.val = Append(s.val, v), !.id = Append(s.id, l), !.slots = q,
                           !.upvalue_map = up, !.collector_map = co]
  BY <1>1, <1>3 DEF SetSlot, MapSlot, Heaps
<1>11. n.calls = NextSlot(c.calls) /\ n = [state |-> n.state, calls |-> n.calls]
  BY SMTT(30) DEF SetSlot
<1> HIDE DEF n, q, up, co
<1>12. /\ n.state \in Heaps
       /\ n.state.val = Append(s.val, v) /\ n.state.id = Append(s.id, l) /\ n.state.slots = q
       /\ n.state.kind = s.kind /\ n.state.cols = s.cols /\ n.state.object_map = s.object_map
       /\ n.state.upvalue_map = up /\ n.state.collector_map = co
  BY <1>1, <1>4, <1>5, <1>7, <1>9, <1>10 DEF Heaps
<1>13. f.left # 0
  BY <1>6
<1>14. NextSlot(c.calls) \in Seq(Calls)
  BY <1>1, <1>13, NextSlotIs
<1>15. n \in Copies
  BY <1>11, <1>12, <1>14 DEF Copies
<1>16. /\ \A d \in DOMAIN s.slots : DOMAIN q[d] = DOMAIN s.slots[d]
       /\ q[f.object][f.left] = l
       /\ \A i \in DOMAIN s.slots[f.object] : i # f.left => q[f.object][i] = s.slots[f.object][i]
  BY Zenon, <1>6, <1>7
<1> QED
  BY Zenon, <1>7, <1>11, <1>12, <1>15, <1>16 DEF n, up, co, Set

\* t comes from s by joining the i-th slot of o with another.
Joined(s, o, i, slot, t) ==
  LET m == s.upvalue_map[slot.id]
  IN  /\ t \in Heaps
      /\ DOMAIN t.slots = DOMAIN s.slots /\ Len(t.slots) = Len(s.slots)
      /\ \A d \in DOMAIN s.slots : DOMAIN t.slots[d] = DOMAIN s.slots[d]
      /\ \A d \in DOMAIN s.slots : d # o => t.slots[d] = s.slots[d]
      /\ t.slots[o][i] = s.slots[m.object][m.number]
      /\ \A j \in DOMAIN s.slots[o] : j # i => t.slots[o][j] = s.slots[o][j]
      /\ t.val = s.val /\ t.id = s.id
      /\ t.kind = s.kind /\ t.cols = s.cols /\ t.object_map = s.object_map
      /\ t.upvalue_map = s.upvalue_map /\ t.collector_map = s.collector_map

LEMMA JoinIs ==
  ASSUME NEW s \in Heaps, NEW o \in DOMAIN s.slots, NEW i \in DOMAIN s.slots[o], NEW slot,
         slot.id \in DOMAIN s.upvalue_map,
         s.upvalue_map[slot.id].object \in DOMAIN s.slots,
         s.upvalue_map[slot.id].number \in DOMAIN s.slots[s.upvalue_map[slot.id].object]
  PROVE  Joined(s, o, i, slot, JoinUpvalue(s, o, i, slot))
<1> DEFINE m == s.upvalue_map[slot.id]
           l == s.slots[m.object][m.number]
           q == [s.slots EXCEPT ![o] = [@ EXCEPT ![i] = l]]
           t == JoinUpvalue(s, o, i, slot)
<1>1. s.slots \in Seq(Seq(Nat))
  BY DEF Heaps
<1>2. s.slots[m.object] \in Seq(Nat) /\ l \in Nat /\ s.slots[o] \in Seq(Nat)
  <2>1. s.slots[m.object] \in Seq(Nat) /\ s.slots[o] \in Seq(Nat)
    BY <1>1, ElementIs
  <2> QED
    BY <2>1, ElementIs
<1> HIDE DEF l
<1>3. [s.slots[o] EXCEPT ![i] = l] \in Seq(Nat)
  BY <1>2, ReplacedIs
<1>4. /\ q \in Seq(Seq(Nat)) /\ DOMAIN q = DOMAIN s.slots /\ Len(q) = Len(s.slots)
      /\ \A d \in DOMAIN s.slots : d # o => q[d] = s.slots[d]
      /\ q[o] = [s.slots[o] EXCEPT ![i] = l]
  <2> DEFINE r == [s.slots[o] EXCEPT ![i] = l]
  <2>1. q = [s.slots EXCEPT ![o] = r]
    OBVIOUS
  <2> HIDE DEF r, q
  <2>2. /\ q \in Seq(Seq(Nat)) /\ DOMAIN q = DOMAIN s.slots /\ Len(q) = Len(s.slots)
        /\ q[o] = r /\ \A d \in DOMAIN s.slots : d # o => q[d] = s.slots[d]
    BY <1>1, <1>3, <2>1, ReplacedIs DEF r
  <2> QED
    BY <2>2 DEF r
<1>5. t = [s EXCEPT !.slots = q]
  BY DEF JoinUpvalue, Heaps, l
<1> HIDE DEF q, t
<1>6. /\ t \in Heaps /\ t.slots = q
      /\ t.val = s.val /\ t.id = s.id
      /\ t.kind = s.kind /\ t.cols = s.cols /\ t.object_map = s.object_map
      /\ t.upvalue_map = s.upvalue_map /\ t.collector_map = s.collector_map
  BY <1>4, <1>5 DEF Heaps
<1>7. /\ \A d \in DOMAIN s.slots : DOMAIN q[d] = DOMAIN s.slots[d]
      /\ q[o][i] = l
      /\ \A j \in DOMAIN s.slots[o] : j # i => q[o][j] = s.slots[o][j]
  BY <1>2, <1>4
<1> QED
  BY Zenon, <1>4, <1>6, <1>7 DEF t, l, Joined
----------------------------------------------------------------------------
(* The invariant of a copy in progress.  X says what is copied and where   *)
(* to: X.heap is the heap that the copy is to mirror, X.src what the       *)
(* serializer noted of each of its locations, X.base the state the copies  *)
(* are added to.  org and lorg give the origins of the objects and         *)
(* locations that have been added.                                         *)

\* The entries of a table are its own.
OwnEntries(h) ==
  \A o, p \in DOMAIN h.kind : \A i \in DOMAIN h.slots[o], j \in DOMAIN h.slots[p] :
    h.kind[o] = "table" /\ h.slots[o][i] = h.slots[p][j] => o = p /\ i = j

SourceOK(X) ==
  /\ X.heap \in Heaps /\ X.base \in Heaps
  /\ Len(X.heap.slots) = Len(X.heap.kind) /\ Len(X.base.slots) = Len(X.base.kind)
  /\ Len(X.base.id) = Len(X.base.val)
  /\ \A o \in DOMAIN X.heap.kind : X.heap.kind[o] \in {"function", "table"}
  /\ DOMAIN X.src \subseteq DOMAIN X.heap.val
  /\ \A l \in DOMAIN X.src : X.src[l] \in SlotSet
  /\ \A l, m \in DOMAIN X.src : X.src[l].id = X.src[m].id => l = m
  /\ OwnEntries(X.heap)

\* sv is what the serializer made of objects of X.heap.
NodesOK(X, sv) ==
  \A o \in DOMAIN sv.nodes :
    /\ o \in DOMAIN X.heap.kind
    /\ sv.nodes[o].type = X.heap.kind[o]
    /\ sv.nodes[o].slots \in Seq(SlotSet)
    /\ DOMAIN sv.nodes[o].slots = DOMAIN X.heap.slots[o]
    /\ \A i \in DOMAIN X.heap.slots[o] :
         /\ X.heap.slots[o][i] \in DOMAIN X.src
         /\ sv.nodes[o].slots[i] = X.src[X.heap.slots[o][i]]
         /\ sv.nodes[o].slots[i].value[1] = "obj" => sv.nodes[o].slots[i].value[2] \in DOMAIN sv.nodes

NoEndless(sv) ==
  \A T \in SUBSET DOMAIN sv.nodes :
    (\A o \in T : \E i \in DOMAIN sv.nodes[o].slots :
       sv.nodes[o].slots[i].value[1] = "obj" /\ sv.nodes[o].slots[i].value[2] \in T) => T = {}

\* The i-th slot of d has not been set.
Pending(K, d, i) == \E k \in DOMAIN K : K[k].object = d /\ i <= K[k].left

LEMMA InnermostPending ==
  ASSUME NEW K, 1 \in DOMAIN K, K[1].left \in Nat
  PROVE  Pending(K, K[1].object, K[1].left)
  BY DEF Pending

Extent(X, s, org, lorg) ==
  /\ Len(s.slots) = Len(s.kind) /\ Len(s.id) = Len(s.val)
  /\ Len(X.base.kind) <= Len(s.kind) /\ Len(X.base.val) <= Len(s.val)
  /\ DOMAIN org = Len(X.base.kind) + 1..Len(s.kind)
  /\ DOMAIN lorg = Len(X.base.val) + 1..Len(s.val)

Origins(X, s, org, lorg) ==
  /\ \A d \in DOMAIN org :
       /\ org[d] \in DOMAIN X.heap.kind
       /\ s.kind[d] = X.heap.kind[org[d]]
       /\ DOMAIN s.slots[d] = DOMAIN X.heap.slots[org[d]]
  /\ \A x \in DOMAIN lorg : lorg[x] \in DOMAIN X.src /\ s.id[x] = x

SlotsSet(X, c, org, lorg) ==
  \A d \in DOMAIN org : \A i \in DOMAIN c.state.slots[d] :
    \/ Pending(c.calls, d, i)
    \/ /\ c.state.slots[d][i] \in DOMAIN lorg
       /\ lorg[c.state.slots[d][i]] = X.heap.slots[org[d]][i]

OneToOne(lorg) == \A x, y \in DOMAIN lorg : lorg[x] = lorg[y] => x = y

ValuesAgree(X, s, org, lorg) == \A x \in DOMAIN lorg : Agree(org, X.heap.val[lorg[x]], s.val[x])

ObjectMap(s, org) ==
  /\ \A o \in DOMAIN s.object_map : s.object_map[o] \in DOMAIN org /\ org[s.object_map[o]] = o
  /\ \A d \in DOMAIN org : org[d] \in DOMAIN s.object_map

TablesOnce(X, org) ==
  \A d, e \in DOMAIN org : org[d] = org[e] /\ X.heap.kind[org[d]] = "table" => d = e

\* The slot m of the copies is set.
IsSet(c, org, m) ==
  /\ m.object \in DOMAIN org /\ m.number \in DOMAIN c.state.slots[m.object]
  /\ ~ Pending(c.calls, m.object, m.number)

UpvalueMap(X, c, org, lorg) ==
  \A u \in DOMAIN c.state.upvalue_map :
    LET m == c.state.upvalue_map[u]
    IN  IsSet(c, org, m) /\ X.src[lorg[c.state.slots[m.object][m.number]]].id = u

\* Every location is in a slot, and if it is an upvalue it can be found.
Holders(X, c, org, lorg) ==
  \A x \in DOMAIN lorg : \E d \in DOMAIN org : \E i \in DOMAIN c.state.slots[d] :
    /\ ~ Pending(c.calls, d, i)
    /\ c.state.slots[d][i] = x
    /\ c.state.kind[d] = "function" => X.src[lorg[x]].id \in DOMAIN c.state.upvalue_map

CollectorMap(X, c, org, lorg) ==
  /\ \A u \in DOMAIN c.state.collector_map :
       LET m == c.state.collector_map[u]
       IN  IsSet(c, org, m) /\ X.src[lorg[c.state.slots[m.object][m.number]]].collector_id = u
  /\ \A x \in DOMAIN lorg :
       X.src[lorg[x]].collector_id # 0 => X.src[lorg[x]].collector_id \in DOMAIN c.state.collector_map

\* What nobody has copied is as it was serialized.
Untouched(X, lorg) ==
  \A l \in DOMAIN X.src : (\A x \in DOMAIN lorg : lorg[x] # l) => X.heap.val[l] = X.src[l].value

\* With a location also what was in it has been copied.
SourceReached(X, org, lorg) ==
  \A x \in DOMAIN lorg :
    X.src[lorg[x]].value[1] = "obj" => \E d \in DOMAIN org : org[d] = X.src[lorg[x]].value[2]

CallsOK(sv, c, org) ==
  /\ \A k \in DOMAIN c.calls :
       LET f == c.calls[k]
       IN  /\ f.id \in DOMAIN sv.nodes /\ f.object \in DOMAIN org /\ org[f.object] = f.id
           /\ f.left = 0 \/ f.left \in DOMAIN c.state.slots[f.object]
  /\ \A j, k \in DOMAIN c.calls : c.calls[j].object = c.calls[k].object => j = k

\* The k-th call waits for the object id.
Waits(sv, c, k, id) ==
  LET f    == c.calls[k]
      node == sv.nodes[f.id]
      slot == node.slots[f.left]
  IN  /\ f.left # 0 /\ slot.value[1] = "obj" /\ slot.value[2] = id
      /\ ~ Shared(c.state, node, slot)

CallsNested(sv, c) == \A k \in DOMAIN c.calls : k # 1 => Waits(sv, c, k, c.calls[k - 1].id)

\* What was there before is unchanged.
Kept(b, s) ==
  /\ \A d \in DOMAIN b.kind : s.kind[d] = b.kind[d] /\ s.slots[d] = b.slots[d]
  /\ \A x \in DOMAIN b.val : s.val[x] = b.val[x] /\ s.id[x] = b.id[x]
  /\ s.cols = b.cols

CopyInv(X, sv, c, org, lorg) ==
  /\ c \in Copies
  /\ Extent(X, c.state, org, lorg)
  /\ Origins(X, c.state, org, lorg)
  /\ SlotsSet(X, c, org, lorg)
  /\ OneToOne(lorg)
  /\ ValuesAgree(X, c.state, org, lorg)
  /\ ObjectMap(c.state, org)
  /\ TablesOnce(X, org)
  /\ UpvalueMap(X, c, org, lorg)
  /\ Holders(X, c, org, lorg)
  /\ CollectorMap(X, c, org, lorg)
  /\ Untouched(X, lorg)
  /\ SourceReached(X, org, lorg)
  /\ CallsOK(sv, c, org)
  /\ CallsNested(sv, c)
  /\ Kept(X.base, c.state)

\* A new function or table, none of its slots set.
LEMMA NewObjectKeeps ==
  ASSUME NEW X, NEW sv, NEW c, NEW org, NEW lorg, NEW id \in DOMAIN sv.nodes,
         SourceOK(X), NodesOK(X, sv), CopyInv(X, sv, c, org, lorg),
         X.heap.kind[id] = "table" => id \notin DOMAIN c.state.object_map,
         c.calls # <<>> => Waits(sv, c, 1, id)
  PROVE  CopyInv(X, sv, NewObject(c, sv, id), Put(org, Len(c.state.kind) + 1, id), lorg)
<1> DEFINE s == c.state
           n == NewObject(c, sv, id)
           t == n.state
           o == Len(s.kind) + 1
           m == Len(sv.nodes[id].slots)
           org2 == Put(org, o, id)
<1> USE DEF CopyInv
<1>1. id \in Nat /\ sv.nodes[id].slots \in Seq(SlotSet) /\ sv.nodes[id].type \in Kinds
      /\ id \in DOMAIN X.heap.kind /\ sv.nodes[id].type = X.heap.kind[id]
      /\ DOMAIN X.heap.slots[id] = 1..m /\ m \in Nat
  <2>1. /\ id \in DOMAIN X.heap.kind /\ sv.nodes[id].slots \in Seq(SlotSet)
        /\ sv.nodes[id].type = X.heap.kind[id]
        /\ DOMAIN sv.nodes[id].slots = DOMAIN X.heap.slots[id]
    BY DEF NodesOK
  <2>2. X.heap.kind \in Seq(Kinds)
    BY DEF SourceOK, Heaps
  <2> QED
    BY <2>1, <2>2, ElementIs
<1>2. /\ n \in Copies
      /\ t.kind = Append(s.kind, sv.nodes[id].type)
      /\ t.slots = Append(s.slots, [i \in 1..m |-> 0])
      /\ t.object_map = Put(s.object_map, id, o)
      /\ t.val = s.val /\ t.id = s.id /\ t.cols = s.cols
      /\ t.upvalue_map = s.upvalue_map /\ t.collector_map = s.collector_map
      /\ Len(n.calls) = Len(c.calls) + 1
      /\ n.calls[1] = [id |-> id, object |-> o, left |-> m]
      /\ \A k \in 1..Len(c.calls) : n.calls[k + 1] = c.calls[k]
  <2>1. Begun(c, sv, id, n)
    BY <1>1, NewObjectIs
  <2> QED
    BY <2>1 DEF Begun
<1>3. s \in Heaps /\ c.calls \in Seq(Calls) /\ n.calls \in Seq(Calls)
  BY <1>2 DEF Copies
<1>4. /\ s.kind \in Seq(Kinds) /\ s.slots \in Seq(Seq(Nat)) /\ s.object_map \in Maps(Nat)
      /\ X.base.kind \in Seq(Kinds) /\ X.base.val \in Seq(Vals)
  BY <1>3 DEF Heaps, SourceOK
<1>5. /\ Len(s.kind) \in Nat /\ Len(s.slots) = Len(s.kind)
      /\ Len(t.kind) = o /\ t.kind[o] = sv.nodes[id].type
      /\ \A d \in 1..Len(s.kind) : t.kind[d] = s.kind[d]
  BY SMTT(30), <1>1, <1>2, <1>4, AppendIs DEF Extent
<1>6. /\ Len(t.slots) = o /\ t.slots[o] = [i \in 1..m |-> 0]
      /\ \A d \in 1..Len(s.kind) : t.slots[d] = s.slots[d]
  <2> DEFINE z == [i \in 1..m |-> 0]
  <2>1. z \in Seq(Nat)
    BY <1>1
  <2>2. t.slots = Append(s.slots, z)
    BY <1>2
  <2> HIDE DEF z
  <2>3. /\ Len(t.slots) = Len(s.slots) + 1 /\ t.slots[Len(s.slots) + 1] = z
        /\ \A d \in 1..Len(s.slots) : t.slots[d] = s.slots[d]
    BY <1>4, <2>1, <2>2, AppendIs
  <2> QED
    BY <1>5, <2>3 DEF z
<1> HIDE DEF n
<1>7. /\ DOMAIN org2 = DOMAIN org \union {o} /\ o \notin DOMAIN org /\ org2[o] = id
      /\ \A d \in DOMAIN org :
           org2[d] = org[d] /\ t.kind[d] = s.kind[d] /\ t.slots[d] = s.slots[d] /\ d # o
  <2>1. /\ DOMAIN org = Len(X.base.kind) + 1..Len(s.kind) /\ Len(X.base.kind) \in Nat
        /\ Len(X.base.kind) <= Len(s.kind)
    BY <1>4 DEF Extent
  <2>2. o \notin DOMAIN org /\ \A d \in DOMAIN org : d \in 1..Len(s.kind)
    BY <1>5, <2>1
  <2>3. /\ DOMAIN org2 = DOMAIN org \union {o} /\ org2[o] = id
        /\ \A d \in DOMAIN org : org2[d] = org[d]
    BY <2>2 DEF Put
  <2> QED
    BY <1>5, <1>6, <2>2, <2>3
<1>8. Extent(X, t, org2, lorg) /\ Kept(X.base, t)
  <2>1. /\ DOMAIN org = Len(X.base.kind) + 1..Len(s.kind) /\ Len(X.base.kind) \in Nat
        /\ Len(X.base.kind) <= Len(s.kind) /\ DOMAIN X.base.kind = 1..Len(X.base.kind)
    BY <1>4 DEF Extent
  <2> HIDE DEF org2
  <2>2. DOMAIN org2 = Len(X.base.kind) + 1..Len(t.kind) /\ Len(X.base.kind) <= Len(t.kind)
    BY <1>5, <1>7, <2>1
  <2>3. \A d \in DOMAIN X.base.kind : d \in 1..Len(s.kind)
    BY <1>5, <2>1
  <2>4. Kept(X.base, t)
    BY <1>2, <1>5, <1>6, <2>3 DEF Kept
  <2> QED
    BY <1>2, <1>5, <1>6, <2>2, <2>4 DEF Extent
<1>9. t.kind[o] = X.heap.kind[id] /\ DOMAIN t.slots[o] = DOMAIN X.heap.slots[id]
  BY <1>1, <1>5, <1>6
<1>10. DOMAIN c.calls = 1..Len(c.calls) /\ Len(c.calls) \in Nat /\ DOMAIN n.calls = 1..Len(c.calls) + 1
  BY <1>2, <1>3
<1>11. ASSUME NEW k \in DOMAIN n.calls, k # 1
       PROVE  k - 1 \in DOMAIN c.calls /\ n.calls[k] = c.calls[k - 1]
  BY SMTT(30), <1>2, <1>10, <1>11
<1>12. /\ 1 \in DOMAIN n.calls /\ n.calls[1].object = o /\ n.calls[1].left = m /\ n.calls[1].id = id
  BY <1>2, <1>10
<1>13. \A i \in DOMAIN t.slots[o] : Pending(n.calls, o, i)
  <2>1. \A i \in DOMAIN t.slots[o] : i <= m
    BY <1>1, <1>6
  <2> QED
    BY <1>12, <2>1 DEF Pending
<1> HIDE DEF org2, o, m
<1>14. ASSUME NEW d \in DOMAIN org, NEW i PROVE Pending(n.calls, d, i) <=> Pending(c.calls, d, i)
  <2>1. ASSUME Pending(n.calls, d, i) PROVE Pending(c.calls, d, i)
    <3>1. PICK k \in DOMAIN n.calls : n.calls[k].object = d /\ i <= n.calls[k].left
      BY <2>1 DEF Pending
    <3>2. k # 1
      BY <1>7, <1>12, <3>1
    <3> QED
      BY <1>11, <3>1, <3>2 DEF Pending
  <2>2. ASSUME Pending(c.calls, d, i) PROVE Pending(n.calls, d, i)
    <3>1. PICK k \in DOMAIN c.calls : c.calls[k].object = d /\ i <= c.calls[k].left
      BY <2>2 DEF Pending
    <3>2. k + 1 \in DOMAIN n.calls /\ n.calls[k + 1] = c.calls[k]
      BY <1>2, <1>10
    <3> QED
      BY <3>1, <3>2 DEF Pending
  <2> QED
    BY <2>1, <2>2
<1>15. Origins(X, t, org2, lorg)
  <2>1. ASSUME NEW d \in DOMAIN org2
        PROVE  /\ org2[d] \in DOMAIN X.heap.kind /\ t.kind[d] = X.heap.kind[org2[d]]
               /\ DOMAIN t.slots[d] = DOMAIN X.heap.slots[org2[d]]
    <3>1. CASE d = o
      BY <1>1, <1>7, <1>9, <3>1
    <3>2. CASE d # o
      BY <1>7, <3>2 DEF Origins
    <3> QED
      BY <3>1, <3>2
  <2>2. \A x \in DOMAIN lorg : lorg[x] \in DOMAIN X.src /\ t.id[x] = x
    BY <1>2 DEF Origins
  <2> QED
    BY <2>1, <2>2 DEF Origins
<1>16. SlotsSet(X, n, org2, lorg)
  <2> SUFFICES ASSUME NEW d \in DOMAIN org2, NEW i \in DOMAIN t.slots[d], ~ Pending(n.calls, d, i)
               PROVE  t.slots[d][i] \in DOMAIN lorg /\ lorg[t.slots[d][i]] = X.heap.slots[org2[d]][i]
    BY DEF SlotsSet
  <2>1. d \in DOMAIN org
    BY <1>7, <1>13
  <2>2. i \in DOMAIN s.slots[d] /\ ~ Pending(c.calls, d, i)
    BY <1>7, <1>14, <2>1
  <2>3. s.slots[d][i] \in DOMAIN lorg /\ lorg[s.slots[d][i]] = X.heap.slots[org[d]][i]
    BY <2>1, <2>2 DEF SlotsSet
  <2> QED
    BY <1>7, <2>1, <2>3
<1>17. ValuesAgree(X, t, org2, lorg)
  BY <1>2, <1>7 DEF ValuesAgree, Agree
<1>18. ObjectMap(t, org2)
  <2>1. o \in Nat
    BY <1>5 DEF o
  <2>2. t.object_map = Put(s.object_map, id, o)
    BY <1>2 DEF o
  <2>3. /\ DOMAIN t.object_map = DOMAIN s.object_map \union {id} /\ t.object_map[id] = o
        /\ \A x \in DOMAIN s.object_map : x # id => t.object_map[x] = s.object_map[x]
    BY <2>2 DEF Put
  <2> QED
    BY <1>7, <2>3 DEF ObjectMap
<1>19. TablesOnce(X, org2)
  <2> SUFFICES ASSUME NEW d \in DOMAIN org2, NEW e \in DOMAIN org2, org2[d] = org2[e],
                      X.heap.kind[org2[d]] = "table"
               PROVE  d = e
    BY DEF TablesOnce
  <2>1. \A x \in DOMAIN org : org[x] = id => X.heap.kind[id] # "table"
    BY DEF ObjectMap
  <2>2. CASE d = o \/ e = o
    BY <1>7, <2>1, <2>2
  <2>3. CASE d # o /\ e # o
    BY <1>7, <2>3 DEF TablesOnce
  <2> QED
    BY <2>2, <2>3
<1>20. ASSUME NEW q, IsSet(c, org, q)
       PROVE  IsSet(n, org2, q) /\ t.slots[q.object][q.number] = s.slots[q.object][q.number]
  BY <1>7, <1>14, <1>20 DEF IsSet
<1>21. t.upvalue_map = s.upvalue_map /\ t.collector_map = s.collector_map
  BY <1>2
<1>22. UpvalueMap(X, n, org2, lorg)
  <2> SUFFICES ASSUME NEW u \in DOMAIN s.upvalue_map
               PROVE  LET q == s.upvalue_map[u]
                      IN  IsSet(n, org2, q) /\ X.src[lorg[t.slots[q.object][q.number]]].id = u
    BY Zenon, <1>21 DEF UpvalueMap
  <2> DEFINE q == s.upvalue_map[u]
  <2>1. IsSet(c, org, q) /\ X.src[lorg[s.slots[q.object][q.number]]].id = u
    BY Zenon DEF UpvalueMap
  <2> HIDE DEF q
  <2>2. IsSet(n, org2, q) /\ t.slots[q.object][q.number] = s.slots[q.object][q.number]
    BY <1>20, <2>1
  <2>3. X.src[lorg[t.slots[q.object][q.number]]].id = u
    BY Zenon, <2>1, <2>2
  <2> QED
    BY Zenon, <2>2, <2>3 DEF q
<1>23. CollectorMap(X, n, org2, lorg)
  <2>1. ASSUME NEW u \in DOMAIN s.collector_map
        PROVE  LET q == s.collector_map[u]
               IN  IsSet(n, org2, q) /\ X.src[lorg[t.slots[q.object][q.number]]].collector_id = u
    <3> DEFINE q == s.collector_map[u]
    <3>1. IsSet(c, org, q) /\ X.src[lorg[s.slots[q.object][q.number]]].collector_id = u
      BY ZenonT(30) DEF CollectorMap
    <3> HIDE DEF q
    <3>2. IsSet(n, org2, q) /\ t.slots[q.object][q.number] = s.slots[q.object][q.number]
      BY <1>20, <3>1
    <3>3. X.src[lorg[t.slots[q.object][q.number]]].collector_id = u
      BY Zenon, <3>1, <3>2
    <3> QED
      BY Zenon, <3>2, <3>3 DEF q
  <2> QED
    BY Zenon, <1>21, <2>1 DEF CollectorMap
<1>24. Holders(X, n, org2, lorg)
  <2> SUFFICES ASSUME NEW x \in DOMAIN lorg
               PROVE  \E d \in DOMAIN org2 : \E i \in DOMAIN t.slots[d] :
                        /\ ~ Pending(n.calls, d, i)
                        /\ t.slots[d][i] = x
                        /\ t.kind[d] = "function" => X.src[lorg[x]].id \in DOMAIN t.upvalue_map
    BY DEF Holders
  <2>1. PICK d \in DOMAIN org : \E i \in DOMAIN s.slots[d] :
               /\ ~ Pending(c.calls, d, i)
               /\ s.slots[d][i] = x
               /\ s.kind[d] = "function" => X.src[lorg[x]].id \in DOMAIN s.upvalue_map
    BY DEF Holders
  <2> QED
    BY <1>7, <1>14, <1>21, <2>1
<1>25. SourceReached(X, org2, lorg)
  BY <1>7 DEF SourceReached
<1>26. CallsOK(sv, n, org2)
  <2>1. ASSUME NEW k \in DOMAIN n.calls
        PROVE  LET f == n.calls[k]
               IN  /\ f.id \in DOMAIN sv.nodes /\ f.object \in DOMAIN org2 /\ org2[f.object] = f.id
                   /\ f.left = 0 \/ f.left \in DOMAIN t.slots[f.object]
    <3>1. CASE k = 1
      <4>1. m = 0 \/ m \in DOMAIN t.slots[o]
        BY <1>1, <1>9 DEF m
      <4> QED
        BY <1>7, <1>12, <3>1, <4>1
    <3>2. CASE k # 1
      <4> DEFINE f == c.calls[k - 1]
      <4>1. k - 1 \in DOMAIN c.calls /\ n.calls[k] = f
        BY <1>11, <3>2
      <4>2. /\ f.id \in DOMAIN sv.nodes /\ f.object \in DOMAIN org /\ org[f.object] = f.id
            /\ f.left = 0 \/ f.left \in DOMAIN s.slots[f.object]
        BY <4>1 DEF CallsOK
      <4> HIDE DEF f
      <4> QED
        BY <1>7, <4>1, <4>2
    <3> QED
      BY <3>1, <3>2
  <2>2. ASSUME NEW j \in DOMAIN n.calls, NEW k \in DOMAIN n.calls, n.calls[j].object = n.calls[k].object
        PROVE  j = k
    <3>1. \A h \in DOMAIN n.calls : h # 1 => n.calls[h].object \in DOMAIN org
      BY <1>11 DEF CallsOK
    <3>2. CASE j = 1 \/ k = 1
      BY <1>7, <1>12, <2>2, <3>1, <3>2
    <3>3. CASE j # 1 /\ k # 1
      <4>1. j - 1 = k - 1
        BY <1>11, <2>2, <3>3 DEF CallsOK
      <4> QED
        BY <1>10, <4>1
    <3> QED
      BY <3>2, <3>3
  <2> QED
    BY <2>1, <2>2 DEF CallsOK
<1>27. CallsNested(sv, n)
  <2> SUFFICES ASSUME NEW k \in DOMAIN n.calls, k # 1 PROVE Waits(sv, n, k, n.calls[k - 1].id)
    BY DEF CallsNested
  <2>1. k - 1 \in DOMAIN c.calls /\ n.calls[k] = c.calls[k - 1]
    BY <1>11
  <2>2. Waits(sv, c, k - 1, n.calls[k - 1].id)
    <3>1. CASE k - 1 = 1
      <4>1. c.calls # <<>>
        BY <1>10, <2>1
      <4> QED
        BY <1>12, <3>1, <4>1
    <3>2. CASE k - 1 # 1
      <4>1. Waits(sv, c, k - 1, c.calls[(k - 1) - 1].id)
        BY <2>1, <3>2 DEF CallsNested
      <4>2. k - 1 \in DOMAIN n.calls
        BY <1>10, <2>1
      <4>3. n.calls[k - 1] = c.calls[(k - 1) - 1]
        BY Zenon, <1>11, <3>2, <4>2
      <4> QED
        BY <4>1, <4>3
    <3> QED
      BY <3>1, <3>2
  <2> QED
    BY Zenon, <1>21, <2>1, <2>2 DEF Waits, Shared
<1> QED
  BY <1>2, <1>8, <1>15, <1>16, <1>17, <1>18, <1>19, <1>22, <1>23, <1>24, <1>25, <1>26, <1>27 DEF n, org2, o

Extends(f, g) == \A x \in DOMAIN f : x \in DOMAIN g /\ g[x] = f[x]

\* n comes from c by putting location x into the next slot.
Filled(c, n, x) ==
  LET s == c.state
      t == n.state
      f == c.calls[1]
  IN  /\ n.calls = NextSlot(c.calls)
      /\ t.kind = s.kind
      /\ Len(t.slots) = Len(s.slots)
      /\ \A d \in DOMAIN s.slots : DOMAIN t.slots[d] = DOMAIN s.slots[d]
      /\ \A d \in DOMAIN s.slots : d # f.object => t.slots[d] = s.slots[d]
      /\ t.slots[f.object][f.left] = x
      /\ \A i \in DOMAIN s.slots[f.object] : i # f.left => t.slots[f.object][i] = s.slots[f.object][i]

\* The innermost call has a slot to set.
Ready(c) == c.calls # <<>> /\ c.calls[1].left # 0

\* Its location is not found among the upvalues copied.
Unfound(c, sv) ==
  LET f == c.calls[1] IN ~ Shared(c.state, sv.nodes[f.id], sv.nodes[f.id].slots[f.left])

\* v is a copy of what belongs into the slot.
Fits(c, sv, org, v) ==
  LET f == c.calls[1] IN Agree(org, sv.nodes[f.id].slots[f.left].value, v)

\* The innermost call has gone on to its next slot.
Advanced(c, n) == n.calls = NextSlot(c.calls) /\ n.state.object_map = c.state.object_map

\* Facts about the innermost call of a copy in progress.
Innermost(X, sv, c, org) ==
  LET s    == c.state
      f    == c.calls[1]
      node == sv.nodes[f.id]
      loc  == X.heap.slots[f.id][f.left]
  IN  /\ s \in Heaps /\ c.calls \in Seq(Calls) /\ 1 \in DOMAIN c.calls /\ f \in Calls
      /\ f.object \in DOMAIN org /\ org[f.object] = f.id /\ f.id \in DOMAIN sv.nodes
      /\ f.id \in DOMAIN X.heap.kind
      /\ f.object \in DOMAIN s.slots /\ f.left \in DOMAIN s.slots[f.object]
      /\ f.left \in DOMAIN X.heap.slots[f.id]
      /\ f.left \in Nat /\ f.left - 1 \in Nat
      /\ loc \in DOMAIN X.src /\ node.slots[f.left] = X.src[loc]
      /\ X.src[loc] \in SlotSet
      /\ node.type = X.heap.kind[f.id]
      /\ node.type = "function" \/ node.type = "table"
      /\ DOMAIN org \subseteq DOMAIN s.slots /\ DOMAIN s.slots = 1..Len(s.kind)
      /\ f.object > Len(X.base.kind) /\ Len(X.base.kind) \in Nat

LEMMA InnermostIs ==
  ASSUME NEW X, NEW sv, NEW c, NEW org, NEW lorg,
         SourceOK(X), NodesOK(X, sv), CopyInv(X, sv, c, org, lorg),
         Ready(c)
  PROVE  Innermost(X, sv, c, org)
<1> DEFINE s == c.state
           f == c.calls[1]
           loc == X.heap.slots[f.id][f.left]
<1> USE DEF CopyInv
<1>1. s \in Heaps /\ c.calls \in Seq(Calls)
  BY DEF Copies
<1>2. 1 \in DOMAIN c.calls /\ f \in Calls /\ f.left # 0
  BY <1>1, HeadIs DEF Ready
<1>3. /\ f.id \in DOMAIN sv.nodes /\ f.object \in DOMAIN org /\ org[f.object] = f.id
      /\ f.left \in DOMAIN s.slots[f.object]
  BY <1>2 DEF CallsOK
<1>4. f.left \in Nat /\ f.left # 0
  BY <1>2 DEF Calls
<1>5. s.slots \in Seq(Seq(Nat)) /\ X.base.kind \in Seq(Kinds) /\ s.kind \in Seq(Kinds)
  BY <1>1 DEF Heaps, SourceOK
<1>6. /\ DOMAIN org = Len(X.base.kind) + 1..Len(s.kind) /\ Len(s.slots) = Len(s.kind)
  BY DEF Extent
<1>7. DOMAIN s.slots = 1..Len(s.kind) /\ Len(X.base.kind) \in Nat /\ Len(s.kind) \in Nat
  BY <1>5, <1>6
<1>8. DOMAIN org \subseteq DOMAIN s.slots /\ f.object > Len(X.base.kind)
  BY <1>3, <1>6, <1>7
<1>9. DOMAIN s.slots[f.object] = DOMAIN X.heap.slots[f.id]
  BY SMTT(30), <1>3 DEF Origins
<1>10. /\ loc \in DOMAIN X.src /\ sv.nodes[f.id].slots[f.left] = X.src[loc]
       /\ f.id \in DOMAIN X.heap.kind /\ sv.nodes[f.id].type = X.heap.kind[f.id]
  BY <1>3, <1>9 DEF NodesOK
<1>11. X.src[loc] \in SlotSet /\ X.heap.kind[f.id] \in {"function", "table"}
  BY Zenon, <1>10 DEF SourceOK
<1>12. f.left - 1 \in Nat
  BY <1>4
<1> QED
  BY Zenon, <1>1, <1>2, <1>3, <1>4, <1>7, <1>8, <1>9, <1>10, <1>11, <1>12 DEF Innermost

\* What a slot that has been set does to the invariant.
Refilled(X, sv, c, org, lorg, n, lorg2) ==
  LET s == c.state
      t == n.state
      f == c.calls[1]
  IN  /\ \A q : IsSet(c, org, q) =>
           /\ IsSet(n, org, q)
           /\ t.slots[q.object][q.number] = s.slots[q.object][q.number]
           /\ s.slots[q.object][q.number] \in DOMAIN lorg
      /\ IsSet(n, org, [object |-> f.object, number |-> f.left])
      /\ SlotsSet(X, n, org, lorg2)
      /\ CallsOK(sv, n, org)
      /\ \A d \in DOMAIN X.base.kind : t.slots[d] = s.slots[d]
      /\ DOMAIN n.calls = DOMAIN c.calls
      /\ \A k \in DOMAIN c.calls : k # 1 => n.calls[k] = c.calls[k]
      /\ n.calls[1].id = f.id

LEMMA FilledKeeps ==
  ASSUME NEW X, NEW sv, NEW c, NEW org, NEW lorg, NEW n, NEW x, NEW lorg2,
         SourceOK(X), NodesOK(X, sv), CopyInv(X, sv, c, org, lorg),
         Ready(c), Filled(c, n, x), Extends(lorg, lorg2),
         x \in DOMAIN lorg2, lorg2[x] = X.heap.slots[c.calls[1].id][c.calls[1].left]
  PROVE  Refilled(X, sv, c, org, lorg, n, lorg2)
<1> DEFINE s == c.state
           t == n.state
           f == c.calls[1]
<1>1. /\ s \in Heaps /\ c.calls \in Seq(Calls) /\ 1 \in DOMAIN c.calls /\ f \in Calls
      /\ f.object \in DOMAIN org /\ org[f.object] = f.id /\ f.id \in DOMAIN sv.nodes
      /\ f.object \in DOMAIN s.slots /\ f.left \in DOMAIN s.slots[f.object]
      /\ f.left \in Nat /\ f.left - 1 \in Nat
      /\ DOMAIN org \subseteq DOMAIN s.slots /\ DOMAIN s.slots = 1..Len(s.kind)
      /\ f.object > Len(X.base.kind) /\ Len(X.base.kind) \in Nat
  <2>1. Innermost(X, sv, c, org)
    BY InnermostIs
  <2> QED
    BY Zenon, <2>1 DEF Innermost
<1> USE DEF CopyInv
<1>2. /\ DOMAIN n.calls = DOMAIN c.calls
      /\ n.calls[1] = [f EXCEPT !.left = @ - 1]
      /\ \A k \in DOMAIN c.calls : k # 1 => n.calls[k] = c.calls[k]
  <2>1. /\ n.calls \in Seq(Calls) /\ Len(n.calls) = Len(c.calls) /\ Len(c.calls) \in Nat \ {0}
        /\ n.calls[1] = [f EXCEPT !.left = @ - 1]
        /\ \A k \in 1..Len(c.calls) : k # 1 => n.calls[k] = c.calls[k]
    BY <1>1, NextSlotIs DEF Filled, Ready
  <2>2. DOMAIN n.calls = 1..Len(n.calls) /\ DOMAIN c.calls = 1..Len(c.calls)
    BY <1>1, <2>1
  <2> QED
    BY SMTT(30), <2>1, <2>2
<1>3. /\ n.calls[1].object = f.object /\ n.calls[1].id = f.id /\ n.calls[1].left = f.left - 1
  BY <1>1, <1>2 DEF Calls
<1>4. \A j \in DOMAIN c.calls : c.calls[j].object = f.object => j = 1
  BY <1>1 DEF CallsOK
<1>5. \A d \in DOMAIN org : \A i \in DOMAIN s.slots[d] : i \in Nat
  <2>1. s.slots \in Seq(Seq(Nat))
    BY <1>1 DEF Heaps
  <2>2. \A d \in DOMAIN s.slots : s.slots[d] \in Seq(Nat)
    BY <2>1, ElementIs
  <2> SUFFICES ASSUME NEW d \in DOMAIN s.slots, NEW i \in DOMAIN s.slots[d] PROVE i \in Nat
    BY <1>1
  <2> QED
    BY <2>2, ElementIs
<1>6. ASSUME NEW d \in DOMAIN org, NEW i \in DOMAIN s.slots[d]
      PROVE  Pending(n.calls, d, i) <=> Pending(c.calls, d, i) /\ ~ (d = f.object /\ i = f.left)
  <2>1. CASE d = f.object
    <3>1. Pending(c.calls, d, i) <=> i <= f.left
      BY <1>1, <1>4, <2>1 DEF Pending
    <3>2. Pending(n.calls, d, i) <=> i <= f.left - 1
      <4>1. \A k \in DOMAIN n.calls : n.calls[k].object = d <=> k = 1
        BY <1>1, <1>2, <1>3, <1>4, <2>1
      <4>2. 1 \in DOMAIN n.calls /\ n.calls[1].left = f.left - 1
        BY <1>1, <1>2, <1>3
      <4> HIDE DEF f
      <4> QED
        BY <4>1, <4>2 DEF Pending
    <3>3. i \in Nat
      BY <1>5
    <3>4. i <= f.left - 1 <=> i <= f.left /\ i # f.left
      BY SMTT(30), <1>1, <3>3
    <3> QED
      BY <2>1, <3>1, <3>2, <3>4
  <2>2. CASE d # f.object
    BY <1>2, <1>3, <2>2 DEF Pending
  <2> QED
    BY <2>1, <2>2
<1>7. Pending(c.calls, f.object, f.left)
  BY SMTT(30), <1>1 DEF Pending
<1>8. /\ \A d \in DOMAIN s.slots : DOMAIN t.slots[d] = DOMAIN s.slots[d]
      /\ \A d \in DOMAIN s.slots : d # f.object => t.slots[d] = s.slots[d]
      /\ t.slots[f.object][f.left] = x
      /\ \A i \in DOMAIN s.slots[f.object] : i # f.left => t.slots[f.object][i] = s.slots[f.object][i]
  BY DEF Filled
<1>9. ASSUME NEW q, IsSet(c, org, q)
      PROVE  /\ IsSet(n, org, q)
             /\ t.slots[q.object][q.number] = s.slots[q.object][q.number]
             /\ s.slots[q.object][q.number] \in DOMAIN lorg
  <2>1. /\ q.object \in DOMAIN org /\ q.number \in DOMAIN s.slots[q.object]
        /\ ~ Pending(c.calls, q.object, q.number)
    BY <1>9 DEF IsSet
  <2>2. ~ (q.object = f.object /\ q.number = f.left)
    BY <1>7, <2>1
  <2>3. ~ Pending(n.calls, q.object, q.number)
    BY <1>6, <2>1
  <2>4. s.slots[q.object][q.number] \in DOMAIN lorg
    BY SMTT(30), <2>1 DEF SlotsSet
  <2>5. t.slots[q.object][q.number] = s.slots[q.object][q.number]
    BY <1>1, <1>8, <2>1, <2>2
  <2>6. q.number \in DOMAIN t.slots[q.object]
    BY <1>1, <1>8, <2>1
  <2> QED
    BY <2>1, <2>3, <2>4, <2>5, <2>6 DEF IsSet
<1>10. IsSet(n, org, [object |-> f.object, number |-> f.left])
  <2>1. ~ Pending(n.calls, f.object, f.left)
    BY <1>1, <1>6
  <2> QED
    BY <1>1, <1>8, <2>1 DEF IsSet
<1>11. SlotsSet(X, n, org, lorg2)
  <2> SUFFICES ASSUME NEW d \in DOMAIN org, NEW i \in DOMAIN t.slots[d], ~ Pending(n.calls, d, i)
               PROVE  /\ t.slots[d][i] \in DOMAIN lorg2
                      /\ lorg2[t.slots[d][i]] = X.heap.slots[org[d]][i]
    BY SMTT(30) DEF SlotsSet
  <2>1. i \in DOMAIN s.slots[d] /\ d \in DOMAIN s.slots
    BY <1>1, <1>8
  <2>2. CASE d = f.object /\ i = f.left
    BY Zenon, <1>1, <1>8, <2>2
  <2>3. CASE ~ (d = f.object /\ i = f.left)
    <3>1. ~ Pending(c.calls, d, i)
      BY <1>6, <2>1, <2>3
    <3>2. s.slots[d][i] \in DOMAIN lorg /\ lorg[s.slots[d][i]] = X.heap.slots[org[d]][i]
      BY <2>1, <3>1 DEF SlotsSet
    <3>3. t.slots[d][i] = s.slots[d][i]
      BY <1>8, <2>1, <2>3
    <3> QED
      BY <3>2, <3>3 DEF Extends
  <2> QED
    BY <2>2, <2>3
<1>12. CallsOK(sv, n, org)
  <2>1. ASSUME NEW k \in DOMAIN n.calls
        PROVE  LET g == n.calls[k]
               IN  /\ g.id \in DOMAIN sv.nodes /\ g.object \in DOMAIN org /\ org[g.object] = g.id
                   /\ g.left = 0 \/ g.left \in DOMAIN t.slots[g.object]
    <3>1. CASE k = 1
      <4>1. s.slots[f.object] \in Seq(Nat)
        BY <1>1, ElementIs DEF Heaps
      <4>2. f.left - 1 = 0 \/ f.left - 1 \in DOMAIN s.slots[f.object]
        BY SMTT(30), <1>1, <4>1
      <4> QED
        BY <1>1, <1>3, <1>8, <3>1, <4>2
    <3>2. CASE k # 1
      <4>1. n.calls[k] = c.calls[k] /\ k \in DOMAIN c.calls
        BY <1>2, <3>2
      <4>2. LET g == c.calls[k]
            IN  /\ g.id \in DOMAIN sv.nodes /\ g.object \in DOMAIN org /\ org[g.object] = g.id
                /\ g.left = 0 \/ g.left \in DOMAIN s.slots[g.object]
        BY <4>1 DEF CallsOK
      <4> QED
        BY Zenon, <1>1, <1>8, <4>1, <4>2
    <3> QED
      BY SMTT(30), <3>1, <3>2
  <2>2. \A k \in DOMAIN n.calls : n.calls[k].object = c.calls[k].object
    BY <1>2, <1>3
  <2>3. \A j, k \in DOMAIN n.calls : n.calls[j].object = n.calls[k].object => j = k
    BY SMTT(30), <1>2, <2>2 DEF CallsOK
  <2> QED
    BY <2>1, <2>3 DEF CallsOK
<1>13. ASSUME NEW d \in DOMAIN X.base.kind PROVE t.slots[d] = s.slots[d]
  <2>1. X.base.kind \in Seq(Kinds) /\ Len(X.base.kind) <= Len(s.kind) /\ s.kind \in Seq(Kinds)
    BY <1>1 DEF Heaps, SourceOK, Extent
  <2>2. d \in Nat /\ d <= Len(X.base.kind) /\ d \in 1..Len(s.kind)
    BY <2>1
  <2>3. d # f.object
    BY SMTT(30), <1>1, <2>2
  <2> QED
    BY <1>1, <1>8, <2>2, <2>3
<1> QED
  BY <1>2, <1>3, <1>9, <1>10, <1>11, <1>12, <1>13 DEF Refilled

\* The location of the next slot has not been copied, if it is not found.
LEMMA NotCopied ==
  ASSUME NEW X, NEW sv, NEW c, NEW org, NEW lorg,
         SourceOK(X), NodesOK(X, sv), CopyInv(X, sv, c, org, lorg),
         Ready(c),
         Unfound(c, sv),
         NEW x \in DOMAIN lorg
  PROVE  lorg[x] # X.heap.slots[c.calls[1].id][c.calls[1].left]
<1> DEFINE s == c.state
           f == c.calls[1]
           node == sv.nodes[f.id]
           loc == X.heap.slots[f.id][f.left]
<1> SUFFICES ASSUME lorg[x] = loc PROVE FALSE
  OBVIOUS
<1> USE DEF CopyInv
<1>1. /\ 1 \in DOMAIN c.calls /\ f \in Calls /\ f.left \in Nat
      /\ f.object \in DOMAIN org /\ org[f.object] = f.id
      /\ f.id \in DOMAIN X.heap.kind
      /\ f.left \in DOMAIN X.heap.slots[f.id]
      /\ node.slots[f.left] = X.src[loc]
      /\ node.type = X.heap.kind[f.id]
      /\ node.type = "function" \/ node.type = "table"
  <2>1. Innermost(X, sv, c, org)
    BY SMTT(30), InnermostIs
  <2> QED
    BY Zenon, <2>1 DEF Innermost
<1>2. Pending(c.calls, f.object, f.left)
  BY <1>1, InnermostPending
<1>3. PICK d \in DOMAIN org : \E i \in DOMAIN s.slots[d] :
             /\ ~ Pending(c.calls, d, i)
             /\ s.slots[d][i] = x
             /\ s.kind[d] = "function" => X.src[lorg[x]].id \in DOMAIN s.upvalue_map
  BY Zenon DEF Holders
<1>4. PICK i \in DOMAIN s.slots[d] :
             /\ ~ Pending(c.calls, d, i)
             /\ s.slots[d][i] = x
             /\ s.kind[d] = "function" => X.src[lorg[x]].id \in DOMAIN s.upvalue_map
  BY Zenon, <1>3
<1>5. X.heap.slots[org[d]][i] = loc
  BY Zenon, <1>4 DEF SlotsSet
<1>6. /\ org[d] \in DOMAIN X.heap.kind /\ s.kind[d] = X.heap.kind[org[d]]
      /\ i \in DOMAIN X.heap.slots[org[d]]
  BY Zenon, <1>4 DEF Origins
<1>7. X.heap.kind[org[d]] \in {"function", "table"}
  BY <1>6 DEF SourceOK
<1>8. X.heap.kind[f.id] = "table" \/ X.heap.kind[org[d]] = "table" => org[d] = f.id /\ i = f.left
  <2>1. OwnEntries(X.heap)
    BY DEF SourceOK
  <2> HIDE DEF f
  <2> QED
    BY <1>1, <1>5, <1>6, <2>1 DEF OwnEntries
<1>9. CASE X.heap.kind[f.id] = "table" \/ X.heap.kind[org[d]] = "table"
  <2>1. d = f.object
    BY ZenonT(30), <1>1, <1>8, <1>9 DEF TablesOnce
  <2> QED
    BY Zenon, <1>2, <1>4, <1>8, <1>9, <2>1
<1>10. CASE X.heap.kind[f.id] = "function" /\ X.heap.kind[org[d]] = "function"
  <2>1. X.src[loc].id \in DOMAIN s.upvalue_map
    BY Zenon, <1>4, <1>6, <1>10
  <2> QED
    BY Zenon, <1>1, <1>10, <2>1 DEF Shared, Unfound
<1> QED
  BY <1>1, <1>7, <1>9, <1>10

\* No call waits for a slot that the innermost call is about to set: an
\* object would be inside itself.
LEMMA NotAwaited ==
  ASSUME NEW X, NEW sv, NEW c, NEW org, NEW lorg,
         SourceOK(X), NodesOK(X, sv), NoEndless(sv), CopyInv(X, sv, c, org, lorg),
         Ready(c), NEW k \in DOMAIN c.calls, k # 1
  PROVE  sv.nodes[c.calls[k].id].slots[c.calls[k].left].id
         # sv.nodes[c.calls[1].id].slots[c.calls[1].left].id
<1> DEFINE f(j) == c.calls[j]
           slot(j) == sv.nodes[f(j).id].slots[f(j).left]
           loc(j) == X.heap.slots[f(j).id][f(j).left]
           T == {f(j).id : j \in 1..k - 1}
<1> SUFFICES ASSUME slot(k).id = slot(1).id PROVE FALSE
  OBVIOUS
<1> USE DEF CopyInv
<1>1. DOMAIN c.calls = 1..Len(c.calls) /\ Len(c.calls) \in Nat /\ k \in Nat /\ k - 1 \in 1..k - 1
  BY SMTT(30) DEF Copies
<1>2. ASSUME NEW j \in DOMAIN c.calls, f(j).left # 0
      PROVE  /\ f(j).id \in DOMAIN sv.nodes /\ f(j).left \in DOMAIN sv.nodes[f(j).id].slots
             /\ loc(j) \in DOMAIN X.src /\ slot(j) = X.src[loc(j)]
  <2>1. /\ f(j).id \in DOMAIN sv.nodes /\ f(j).object \in DOMAIN org /\ org[f(j).object] = f(j).id
        /\ f(j).left \in DOMAIN c.state.slots[f(j).object]
    BY Zenon, <1>2 DEF CallsOK
  <2>2. f(j).left \in DOMAIN X.heap.slots[f(j).id]
    BY SMTT(30), <2>1 DEF Origins
  <2> HIDE DEF f
  <2> QED
    BY SMTT(30), <2>1, <2>2 DEF NodesOK
<1>3. ASSUME NEW j \in DOMAIN c.calls, j # 1
      PROVE  f(j).left # 0 /\ slot(j).value[1] = "obj" /\ slot(j).value[2] = f(j - 1).id
  BY Zenon, <1>3 DEF CallsNested, Waits
<1>4. slot(1).value = slot(k).value
  <2>1. slot(1) = X.src[loc(1)] /\ slot(k) = X.src[loc(k)] /\ loc(1) \in DOMAIN X.src /\ loc(k) \in DOMAIN X.src
    <3>1. 1 \in DOMAIN c.calls /\ f(1).left # 0 /\ f(k).left # 0
      <4>1. 1 \in DOMAIN c.calls
        BY <1>1
      <4>2. f(k).left # 0
        BY Zenon, <1>3
      <4> QED
        BY SMTT(30), <4>1, <4>2 DEF Ready
    <3> QED
      BY Zenon, <1>2, <3>1
  <2>2. loc(1) = loc(k)
    BY Zenon, <2>1 DEF SourceOK
  <2> QED
    BY Zenon, <2>1, <2>2
<1>5. f(1).left # 0 /\ slot(1).value[1] = "obj" /\ slot(1).value[2] = f(k - 1).id
  BY Zenon, <1>3, <1>4 DEF Ready
<1> HIDE DEF f
<1>6. ASSUME NEW j \in 1..k - 1
      PROVE  /\ j \in DOMAIN c.calls /\ f(j).left # 0
             /\ slot(j).value[1] = "obj" /\ slot(j).value[2] \in T
  <2>0. j \in DOMAIN c.calls
    BY <1>1
  <2>1. CASE j = 1
    BY Zenon, <1>1, <1>5, <2>0, <2>1
  <2>2. CASE j # 1
    <3>1. j - 1 \in 1..k - 1
      BY <1>1, <2>2
    <3> QED
      BY Zenon, <1>3, <2>0, <2>2, <3>1
  <2> QED
    BY Zenon, <2>1, <2>2
<1>7. \A o \in T : \E i \in DOMAIN sv.nodes[o].slots :
        sv.nodes[o].slots[i].value[1] = "obj" /\ sv.nodes[o].slots[i].value[2] \in T
  <2> SUFFICES ASSUME NEW j \in 1..k - 1
               PROVE  \E i \in DOMAIN sv.nodes[f(j).id].slots :
                        /\ sv.nodes[f(j).id].slots[i].value[1] = "obj"
                        /\ sv.nodes[f(j).id].slots[i].value[2] \in T
    BY Zenon
  <2>1. f(j).left \in DOMAIN sv.nodes[f(j).id].slots
    BY Zenon, <1>2, <1>6
  <2> QED
    BY Zenon, <1>6, <2>1
<1>8. T \in SUBSET DOMAIN sv.nodes
  BY Zenon, <1>2, <1>6
<1>9. f(k - 1).id \in T
  BY <1>1
<1> HIDE DEF T
<1>10. T = {}
  BY <1>7, <1>8 DEF NoEndless
<1> QED
  BY <1>9, <1>10

\* A slot is set for the first time.
LEMMA SetSlotKeeps ==
  ASSUME NEW X, NEW sv, NEW c, NEW org, NEW lorg, NEW v \in Vals,
         SourceOK(X), NodesOK(X, sv), NoEndless(sv), CopyInv(X, sv, c, org, lorg),
         Ready(c),
         Unfound(c, sv),
         Fits(c, sv, org, v)
  PROVE  /\ CopyInv(X, sv, SetSlot(c, sv, v), org,
                    Put(lorg, Len(c.state.val) + 1, X.heap.slots[c.calls[1].id][c.calls[1].left]))
         /\ Extends(lorg, Put(lorg, Len(c.state.val) + 1,
                              X.heap.slots[c.calls[1].id][c.calls[1].left]))
         /\ Advanced(c, SetSlot(c, sv, v))
<1> DEFINE s == c.state
           n == SetSlot(c, sv, v)
           t == n.state
           f == c.calls[1]
           node == sv.nodes[f.id]
           slot == node.slots[f.left]
           here == [object |-> f.object, number |-> f.left]
           loc == X.heap.slots[f.id][f.left]
           l == Len(s.val) + 1
           lorg2 == Put(lorg, l, loc)
<1>1. /\ s \in Heaps /\ c.calls \in Seq(Calls) /\ 1 \in DOMAIN c.calls
      /\ f.object \in DOMAIN org /\ org[f.object] = f.id
      /\ f.object \in DOMAIN s.slots /\ f.left \in DOMAIN s.slots[f.object]
      /\ loc \in DOMAIN X.src /\ slot = X.src[loc] /\ X.src[loc] \in SlotSet
      /\ node.type = X.heap.kind[f.id]
      /\ DOMAIN org \subseteq DOMAIN s.slots
  <2>1. Innermost(X, sv, c, org)
    BY InnermostIs
  <2> QED
    BY Zenon, <2>1 DEF Innermost
<1>2. Set(c, sv, v, n)
  BY Zenon, <1>1, SetSlotIs DEF CopyInv, Ready
<1>3. Filled(c, n, l) /\ n \in Copies
  BY Zenon, <1>2 DEF Set, Filled
<1>4. /\ t.val = Append(s.val, v) /\ t.id = Append(s.id, l)
      /\ Len(t.slots) = Len(s.slots) /\ t.kind = s.kind /\ t.cols = s.cols
      /\ t.object_map = s.object_map /\ t.slots[f.object][f.left] = l
      /\ DOMAIN t.slots[f.object] = DOMAIN s.slots[f.object]
      /\ t.upvalue_map = IF node.type = "function" THEN Put(s.upvalue_map, slot.id, here)
                         ELSE s.upvalue_map
      /\ t.collector_map = IF slot.collector_id # 0 THEN Put(s.collector_map, slot.collector_id, here)
                           ELSE s.collector_map
  BY Zenon, <1>1, <1>2 DEF Set
<1> HIDE DEF n
<1> USE DEF CopyInv
<1>5. /\ s.val \in Seq(Vals) /\ s.id \in Seq(Nat) /\ Len(s.id) = Len(s.val)
      /\ Len(X.base.val) \in Nat /\ Len(X.base.val) <= Len(s.val)
      /\ DOMAIN X.base.val = 1..Len(X.base.val)
      /\ DOMAIN lorg = Len(X.base.val) + 1..Len(s.val)
  <2>1. X.base.val \in Seq(Vals)
    BY DEF SourceOK, Heaps
  <2>2. s.val \in Seq(Vals) /\ s.id \in Seq(Nat)
    BY Zenon, <1>1 DEF Heaps
  <2>3. Len(X.base.val) \in Nat /\ DOMAIN X.base.val = 1..Len(X.base.val)
    BY <2>1
  <2> QED
    BY <2>2, <2>3 DEF Extent
<1>6. /\ Len(s.val) \in Nat /\ l \in Nat
      /\ Len(t.val) = l /\ t.val[l] = v /\ \A x \in 1..Len(s.val) : t.val[x] = s.val[x]
      /\ Len(t.id) = l /\ t.id[l] = l /\ \A x \in 1..Len(s.val) : t.id[x] = s.id[x]
  <2>1. Len(s.val) \in Nat /\ Len(t.val) = l /\ t.val[l] = v /\ \A x \in 1..Len(s.val) : t.val[x] = s.val[x]
    <3>1. t.val = Append(s.val, v) /\ s.val \in Seq(Vals)
      BY Zenon, <1>4, <1>5
    <3> QED
      BY <3>1, AppendIs
  <2>2. l \in Nat
    BY <2>1
  <2>3. Len(t.id) = Len(s.id) + 1 /\ t.id[Len(s.id) + 1] = l /\ \A x \in 1..Len(s.id) : t.id[x] = s.id[x]
    <3> HIDE DEF l
    <3>1. t.id = Append(s.id, l) /\ s.id \in Seq(Nat)
      BY Zenon, <1>4, <1>5
    <3> QED
      BY <2>2, <3>1, AppendIs
  <2> QED
    BY <1>5, <2>1, <2>2, <2>3
<1>7. /\ DOMAIN lorg2 = DOMAIN lorg \union {l} /\ l \notin DOMAIN lorg /\ lorg2[l] = loc
      /\ \A x \in DOMAIN lorg : lorg2[x] = lorg[x] /\ x # l /\ t.val[x] = s.val[x] /\ t.id[x] = s.id[x]
  <2>1. l \notin DOMAIN lorg /\ \A x \in DOMAIN lorg : x \in 1..Len(s.val) /\ x # l
    BY SMTT(30), <1>5, <1>6
  <2>2. /\ DOMAIN lorg2 = DOMAIN lorg \union {l} /\ lorg2[l] = loc
        /\ \A x \in DOMAIN lorg : x # l => lorg2[x] = lorg[x]
    BY DEF Put
  <2> QED
    BY Zenon, <1>6, <2>1, <2>2
<1>8. DOMAIN lorg2 = Len(X.base.val) + 1..Len(t.val) /\ Len(X.base.val) <= Len(t.val)
  <2>1. Len(X.base.val) \in Nat /\ Len(X.base.val) <= Len(s.val) /\ Len(s.val) \in Nat
    BY <1>5, <1>6
  <2>2. /\ (Len(X.base.val) + 1..Len(s.val)) \union {l} = Len(X.base.val) + 1..l
        /\ Len(X.base.val) <= l
    BY <2>1, RangeGrows
  <2> HIDE DEF lorg2, l
  <2> QED
    BY <1>5, <1>6, <1>7, <2>2
<1> HIDE DEF l, lorg2
<1>9. Extends(lorg, lorg2)
  BY <1>7 DEF Extends
<1>10. /\ \A q : IsSet(c, org, q) =>
            /\ IsSet(n, org, q)
            /\ t.slots[q.object][q.number] = s.slots[q.object][q.number]
            /\ s.slots[q.object][q.number] \in DOMAIN lorg
       /\ IsSet(n, org, here)
       /\ SlotsSet(X, n, org, lorg2)
       /\ CallsOK(sv, n, org)
       /\ \A d \in DOMAIN X.base.kind : t.slots[d] = s.slots[d]
       /\ DOMAIN n.calls = DOMAIN c.calls
       /\ \A k \in DOMAIN c.calls : k # 1 => n.calls[k] = c.calls[k]
       /\ n.calls[1].id = f.id
  <2>1. l \in DOMAIN lorg2 /\ lorg2[l] = loc
    BY <1>7
  <2>2. Refilled(X, sv, c, org, lorg, n, lorg2)
    BY <1>3, <1>9, <2>1, FilledKeeps
  <2> QED
    BY <2>2 DEF Refilled
<1>11. \A x \in DOMAIN lorg : lorg[x] # loc
  BY NotCopied
<1>12. Extent(X, t, org, lorg2) /\ Kept(X.base, t)
  <2>1. \A x \in DOMAIN X.base.val : x \in 1..Len(s.val)
    BY <1>5, <1>6
  <2>2. Extent(X, t, org, lorg2)
    BY Zenon, <1>4, <1>6, <1>8 DEF Extent
  <2>3. Kept(X.base, t)
    <3>1. Kept(X.base, s)
      OBVIOUS
    <3>2. \A d \in DOMAIN X.base.kind : t.kind[d] = X.base.kind[d] /\ t.slots[d] = X.base.slots[d]
      BY Zenon, <1>4, <1>10, <3>1 DEF Kept
    <3>3. \A x \in DOMAIN X.base.val : t.val[x] = X.base.val[x] /\ t.id[x] = X.base.id[x]
      BY <1>6, <2>1, <3>1 DEF Kept
    <3> QED
      BY Zenon, <1>4, <3>1, <3>2, <3>3 DEF Kept
  <2> QED
    BY <2>2, <2>3
<1>13. Origins(X, t, org, lorg2)
  <2>1. ASSUME NEW d \in DOMAIN org PROVE DOMAIN t.slots[d] = DOMAIN s.slots[d]
    BY Zenon, <1>1, <1>3 DEF Filled
  <2>2. ASSUME NEW x \in DOMAIN lorg2 PROVE lorg2[x] \in DOMAIN X.src /\ t.id[x] = x
    BY Zenon, <1>1, <1>6, <1>7 DEF Origins
  <2> QED
    BY Zenon, <1>4, <2>1, <2>2 DEF Origins
<1>14. OneToOne(lorg2)
  BY ZenonT(30), <1>7, <1>11 DEF OneToOne
<1>15. ValuesAgree(X, t, org, lorg2)
  <2>1. X.heap.val[loc] = slot.value
    BY Zenon, <1>1, <1>11 DEF Untouched
  <2>2. Agree(org, X.heap.val[loc], t.val[l])
    BY Zenon, <1>6, <2>1 DEF Fits
  <2> QED
    BY Zenon, <1>7, <2>2 DEF ValuesAgree
<1>16. ObjectMap(t, org)
  BY Zenon, <1>4 DEF ObjectMap
<1>17. /\ DOMAIN s.upvalue_map \subseteq DOMAIN t.upvalue_map
       /\ node.type = "function" => slot.id \in DOMAIN t.upvalue_map
       /\ \A u \in DOMAIN t.upvalue_map :
            \/ u = slot.id /\ node.type = "function" /\ t.upvalue_map[u] = here
            \/ u \in DOMAIN s.upvalue_map /\ t.upvalue_map[u] = s.upvalue_map[u]
  <2> HIDE DEF node, slot, here
  <2>1. CASE node.type = "function"
    BY <1>4, <2>1 DEF Put
  <2>2. CASE node.type # "function"
    BY <1>4, <2>2
  <2> QED
    BY <2>1, <2>2
<1>18. /\ DOMAIN s.collector_map \subseteq DOMAIN t.collector_map
       /\ slot.collector_id # 0 => slot.collector_id \in DOMAIN t.collector_map
       /\ \A u \in DOMAIN t.collector_map :
            \/ u = slot.collector_id /\ t.collector_map[u] = here
            \/ u \in DOMAIN s.collector_map /\ t.collector_map[u] = s.collector_map[u]
  <2> HIDE DEF node, slot, here
  <2>1. CASE slot.collector_id # 0
    BY <1>4, <2>1 DEF Put
  <2>2. CASE slot.collector_id = 0
    BY <1>4, <2>2
  <2> QED
    BY <2>1, <2>2
<1>19. here.object = f.object /\ here.number = f.left
  OBVIOUS
<1> HIDE DEF here
<1>20. X.src[lorg2[t.slots[here.object][here.number]]] = slot
  BY ZenonT(30), <1>1, <1>4, <1>7, <1>19
<1>21. UpvalueMap(X, n, org, lorg2)
  <2> SUFFICES ASSUME NEW u \in DOMAIN t.upvalue_map
               PROVE  LET q == t.upvalue_map[u]
                      IN  IsSet(n, org, q) /\ X.src[lorg2[t.slots[q.object][q.number]]].id = u
    BY Zenon DEF UpvalueMap
  <2>1. CASE u = slot.id /\ t.upvalue_map[u] = here
    BY Zenon, <1>10, <1>20, <2>1
  <2>2. CASE u \in DOMAIN s.upvalue_map /\ t.upvalue_map[u] = s.upvalue_map[u]
    <3> DEFINE q == s.upvalue_map[u]
    <3>1. IsSet(c, org, q) /\ X.src[lorg[s.slots[q.object][q.number]]].id = u
      BY Zenon, <2>2 DEF UpvalueMap
    <3> HIDE DEF q
    <3>2. /\ IsSet(n, org, q) /\ t.slots[q.object][q.number] = s.slots[q.object][q.number]
          /\ s.slots[q.object][q.number] \in DOMAIN lorg
      BY <1>10, <3>1
    <3>3. X.src[lorg2[t.slots[q.object][q.number]]].id = u
      BY ZenonT(30), <1>7, <3>1, <3>2
    <3> QED
      BY Zenon, <2>2, <3>2, <3>3 DEF q
  <2> QED
    BY Zenon, <1>17, <2>1, <2>2
<1>22. CollectorMap(X, n, org, lorg2)
  <2>1. ASSUME NEW u \in DOMAIN t.collector_map
        PROVE  LET q == t.collector_map[u]
               IN  IsSet(n, org, q) /\ X.src[lorg2[t.slots[q.object][q.number]]].collector_id = u
    <3>1. CASE u = slot.collector_id /\ t.collector_map[u] = here
      BY Zenon, <1>10, <1>20, <3>1
    <3>2. CASE u \in DOMAIN s.collector_map /\ t.collector_map[u] = s.collector_map[u]
      <4> DEFINE q == s.collector_map[u]
      <4>1. IsSet(c, org, q) /\ X.src[lorg[s.slots[q.object][q.number]]].collector_id = u
        BY Zenon, <3>2 DEF CollectorMap
      <4> HIDE DEF q
      <4>2. /\ IsSet(n, org, q) /\ t.slots[q.object][q.number] = s.slots[q.object][q.number]
            /\ s.slots[q.object][q.number] \in DOMAIN lorg
        BY <1>10, <4>1
      <4>3. X.src[lorg2[t.slots[q.object][q.number]]].collector_id = u
        BY Zenon, <1>7, <4>1, <4>2
      <4> QED
        BY Zenon, <3>2, <4>2, <4>3 DEF q
    <3> QED
      BY Zenon, <1>18, <3>1, <3>2
  <2>2. ASSUME NEW x \in DOMAIN lorg2, X.src[lorg2[x]].collector_id # 0
        PROVE  X.src[lorg2[x]].collector_id \in DOMAIN t.collector_map
    <3>1. CASE x = l
      BY Zenon, <1>1, <1>7, <1>18, <2>2, <3>1
    <3>2. CASE x # l
      <4>1. x \in DOMAIN lorg /\ lorg2[x] = lorg[x]
        BY <1>7, <3>2
      <4> QED
        BY Zenon, <1>18, <2>2, <4>1 DEF CollectorMap
    <3> QED
      BY <3>1, <3>2
  <2> QED
    BY Zenon, <2>1, <2>2 DEF CollectorMap
<1>23. Holders(X, n, org, lorg2)
  <2> SUFFICES ASSUME NEW x \in DOMAIN lorg2
               PROVE  \E d \in DOMAIN org : \E i \in DOMAIN t.slots[d] :
                        /\ ~ Pending(n.calls, d, i)
                        /\ t.slots[d][i] = x
                        /\ t.kind[d] = "function" => X.src[lorg2[x]].id \in DOMAIN t.upvalue_map
    BY DEF Holders
  <2>1. CASE x = l
    <3>1. ~ Pending(n.calls, f.object, f.left) /\ f.left \in DOMAIN t.slots[f.object]
      BY <1>10, <1>19 DEF IsSet
    <3>2. t.kind[f.object] = node.type
      BY Zenon, <1>1, <1>4 DEF Origins
    <3>3. t.kind[f.object] = "function" => X.src[lorg2[x]].id \in DOMAIN t.upvalue_map
      BY Zenon, <1>1, <1>7, <1>17, <2>1, <3>2
    <3> QED
      BY Zenon, <1>1, <1>4, <2>1, <3>1, <3>3
  <2>2. CASE x # l
    <3>1. x \in DOMAIN lorg /\ lorg2[x] = lorg[x]
      BY <1>7, <2>2
    <3>2. PICK d \in DOMAIN org : \E i \in DOMAIN s.slots[d] :
                 /\ ~ Pending(c.calls, d, i)
                 /\ s.slots[d][i] = x
                 /\ s.kind[d] = "function" => X.src[lorg[x]].id \in DOMAIN s.upvalue_map
      BY <3>1 DEF Holders
    <3>3. PICK i \in DOMAIN s.slots[d] :
                 /\ ~ Pending(c.calls, d, i)
                 /\ s.slots[d][i] = x
                 /\ s.kind[d] = "function" => X.src[lorg[x]].id \in DOMAIN s.upvalue_map
      BY <3>2
    <3> DEFINE q == [object |-> d, number |-> i]
    <3>4. q.object = d /\ q.number = i
      OBVIOUS
    <3> HIDE DEF q
    <3>5. IsSet(c, org, q)
      BY <3>3, <3>4 DEF IsSet
    <3>6. IsSet(n, org, q) /\ t.slots[d][i] = s.slots[d][i]
      BY <1>10, <3>4, <3>5
    <3>7. ~ Pending(n.calls, d, i) /\ i \in DOMAIN t.slots[d]
      BY <3>4, <3>6 DEF IsSet
    <3>8. t.kind[d] = "function" => X.src[lorg2[x]].id \in DOMAIN t.upvalue_map
      BY Zenon, <1>4, <1>17, <3>1, <3>3
    <3> QED
      BY <3>3, <3>6, <3>7, <3>8
  <2> QED
    BY <2>1, <2>2
<1>24. Untouched(X, lorg2)
  BY <1>7 DEF Untouched
<1>25. SourceReached(X, org, lorg2)
  <2>1. X.src[loc].value[1] = "obj" => \E d \in DOMAIN org : org[d] = X.src[loc].value[2]
    BY Zenon, <1>1 DEF Agree, Fits
  <2> SUFFICES ASSUME NEW x \in DOMAIN lorg2, X.src[lorg2[x]].value[1] = "obj"
               PROVE  \E d \in DOMAIN org : org[d] = X.src[lorg2[x]].value[2]
    BY DEF SourceReached
  <2>2. CASE x = l
    BY Zenon, <1>7, <2>1, <2>2
  <2>3. CASE x # l
    BY <1>7, <2>3 DEF SourceReached
  <2> QED
    BY <2>2, <2>3
<1>26. CallsNested(sv, n)
  <2> SUFFICES ASSUME NEW k \in DOMAIN c.calls, k # 1 PROVE Waits(sv, n, k, n.calls[k - 1].id)
    BY <1>10 DEF CallsNested
  <2>1. Waits(sv, c, k, c.calls[k - 1].id)
    BY DEF CallsNested
  <2>2. n.calls[k] = c.calls[k] /\ n.calls[k - 1].id = c.calls[k - 1].id
    <3>1. k - 1 \in DOMAIN c.calls
      BY Zenon, <1>1, IndexIs
    <3> QED
      BY <1>10, <3>1
  <2> DEFINE g == c.calls[k]
             slot2 == sv.nodes[g.id].slots[g.left]
  <2>3. slot2.id # slot.id
    BY Zenon, NotAwaited
  <2>4. ~ Shared(s, sv.nodes[g.id], slot2)
    BY Zenon, <2>1 DEF Waits
  <2>5. ~ Shared(t, sv.nodes[g.id], slot2)
    BY Zenon, <1>17, <2>3, <2>4 DEF Shared
  <2> QED
    BY Zenon, <2>1, <2>2, <2>5 DEF Waits
<1>27. CopyInv(X, sv, n, org, lorg2)
  BY <1>3, <1>10, <1>12, <1>13, <1>14, <1>15, <1>16, <1>21, <1>22, <1>23, <1>24, <1>25, <1>26
<1>28. Advanced(c, n)
  BY Zenon, <1>3, <1>4 DEF Filled, Advanced
<1> QED
  BY Zenon, <1>9, <1>27, <1>28 DEF n, l, lorg2

\* A slot is joined with one that holds the same upvalue.
LEMMA JoinKeeps ==
  ASSUME NEW X, NEW sv, NEW c, NEW org, NEW lorg,
         SourceOK(X), NodesOK(X, sv), CopyInv(X, sv, c, org, lorg), Ready(c), ~ Unfound(c, sv)
  PROVE  CopyInv(X, sv,
           [state |-> JoinUpvalue(c.state, c.calls[1].object, c.calls[1].left,
                                  sv.nodes[c.calls[1].id].slots[c.calls[1].left]),
            calls |-> NextSlot(c.calls)], org, lorg)
<1> DEFINE s == c.state
           f == c.calls[1]
           slot == sv.nodes[f.id].slots[f.left]
           t == JoinUpvalue(s, f.object, f.left, slot)
           n == [state |-> t, calls |-> NextSlot(c.calls)]
           m == s.upvalue_map[slot.id]
           loc == X.heap.slots[f.id][f.left]
           x == s.slots[m.object][m.number]
<1> USE DEF CopyInv
<1>1. /\ s \in Heaps /\ c.calls \in Seq(Calls) /\ 1 \in DOMAIN c.calls
      /\ f.object \in DOMAIN org /\ org[f.object] = f.id
      /\ f.object \in DOMAIN s.slots /\ f.left \in DOMAIN s.slots[f.object]
      /\ loc \in DOMAIN X.src /\ slot = X.src[loc]
      /\ DOMAIN org \subseteq DOMAIN s.slots
  <2>1. Innermost(X, sv, c, org)
    BY InnermostIs
  <2> QED
    BY Zenon, <2>1 DEF Innermost
<1>2. slot.id \in DOMAIN s.upvalue_map
  BY DEF Unfound, Shared
<1>3. IsSet(c, org, m) /\ X.src[lorg[x]].id = slot.id
  BY Zenon, <1>2 DEF UpvalueMap
<1>4. m.object \in DOMAIN s.slots /\ m.number \in DOMAIN s.slots[m.object]
  BY Zenon, <1>1, <1>3 DEF IsSet
<1>5. x \in DOMAIN lorg
  BY Zenon, <1>3 DEF IsSet, SlotsSet
<1>6. lorg[x] = loc
  <2>1. lorg[x] \in DOMAIN X.src
    BY Zenon, <1>5 DEF Origins
  <2>2. \A k, l \in DOMAIN X.src : X.src[k].id = X.src[l].id => k = l
    BY DEF SourceOK
  <2> HIDE DEF x, loc
  <2> QED
    BY <1>1, <1>3, <2>1, <2>2
<1>7. Joined(s, f.object, f.left, slot, t)
  <2> HIDE DEF slot, f
  <2> QED
    BY Zenon, <1>1, <1>2, <1>4, JoinIs
<1> HIDE DEF slot
<1>8. /\ t \in Heaps /\ Len(t.slots) = Len(s.slots)
      /\ \A d \in DOMAIN s.slots : DOMAIN t.slots[d] = DOMAIN s.slots[d]
      /\ \A d \in DOMAIN s.slots : d # f.object => t.slots[d] = s.slots[d]
      /\ t.slots[f.object][f.left] = x
      /\ \A j \in DOMAIN s.slots[f.object] : j # f.left => t.slots[f.object][j] = s.slots[f.object][j]
      /\ t.val = s.val /\ t.id = s.id
      /\ t.kind = s.kind /\ t.cols = s.cols /\ t.object_map = s.object_map
      /\ t.upvalue_map = s.upvalue_map /\ t.collector_map = s.collector_map
  BY Zenon, <1>7 DEF Joined
<1> HIDE DEF t
<1>9. n.state = t /\ n.calls = NextSlot(c.calls) /\ n \in Copies
  <2>1. NextSlot(c.calls) \in Seq(Calls)
    BY Zenon, <1>1, NextSlotIs DEF Ready
  <2> QED
    BY Zenon, <1>8, <2>1 DEF Copies
<1> HIDE DEF n
<1>10. Filled(c, n, x)
  BY Zenon, <1>8, <1>9 DEF Filled
<1>11. Extends(lorg, lorg)
  BY DEF Extends
<1>12. Refilled(X, sv, c, org, lorg, n, lorg)
  <2> HIDE DEF x
  <2> QED
    BY <1>5, <1>6, <1>10, <1>11, FilledKeeps
<1>13. /\ \A q : IsSet(c, org, q) =>
            /\ IsSet(n, org, q)
            /\ t.slots[q.object][q.number] = s.slots[q.object][q.number]
            /\ s.slots[q.object][q.number] \in DOMAIN lorg
       /\ SlotsSet(X, n, org, lorg)
       /\ CallsOK(sv, n, org)
       /\ \A d \in DOMAIN X.base.kind : t.slots[d] = s.slots[d]
       /\ DOMAIN n.calls = DOMAIN c.calls
       /\ \A k \in DOMAIN c.calls : k # 1 => n.calls[k] = c.calls[k]
       /\ n.calls[1].id = f.id
  BY <1>9, <1>12 DEF Refilled
<1>14. Extent(X, t, org, lorg) /\ Kept(X.base, t)
  <2>1. Extent(X, t, org, lorg)
    BY Zenon, <1>8 DEF Extent
  <2>2. Kept(X.base, t)
    BY ZenonT(30), <1>8, <1>13 DEF Kept
  <2> QED
    BY <2>1, <2>2
<1>15. Origins(X, t, org, lorg)
  <2>1. ASSUME NEW d \in DOMAIN org PROVE DOMAIN t.slots[d] = DOMAIN s.slots[d]
    BY Zenon, <1>1, <1>8
  <2> QED
    BY Zenon, <1>8, <2>1 DEF Origins
<1>16. ValuesAgree(X, t, org, lorg) /\ ObjectMap(t, org)
  BY Zenon, <1>8 DEF ValuesAgree, ObjectMap
<1>17. UpvalueMap(X, n, org, lorg)
  <2> SUFFICES ASSUME NEW u \in DOMAIN s.upvalue_map
               PROVE  LET q == s.upvalue_map[u]
                      IN  IsSet(n, org, q) /\ X.src[lorg[t.slots[q.object][q.number]]].id = u
    BY Zenon, <1>8, <1>9 DEF UpvalueMap
  <2> DEFINE q == s.upvalue_map[u]
  <2>1. IsSet(c, org, q) /\ X.src[lorg[s.slots[q.object][q.number]]].id = u
    BY Zenon DEF UpvalueMap
  <2> HIDE DEF q
  <2>2. IsSet(n, org, q) /\ t.slots[q.object][q.number] = s.slots[q.object][q.number]
    BY <1>13, <2>1
  <2>3. X.src[lorg[t.slots[q.object][q.number]]].id = u
    BY Zenon, <2>1, <2>2
  <2> QED
    BY Zenon, <2>2, <2>3 DEF q
<1>18. CollectorMap(X, n, org, lorg)
  <2>1. ASSUME NEW u \in DOMAIN s.collector_map
        PROVE  LET q == s.collector_map[u]
               IN  IsSet(n, org, q) /\ X.src[lorg[t.slots[q.object][q.number]]].collector_id = u
    <3> DEFINE q == s.collector_map[u]
    <3>1. IsSet(c, org, q) /\ X.src[lorg[s.slots[q.object][q.number]]].collector_id = u
      BY Zenon DEF CollectorMap
    <3> HIDE DEF q
    <3>2. IsSet(n, org, q) /\ t.slots[q.object][q.number] = s.slots[q.object][q.number]
      BY <1>13, <3>1
    <3>3. X.src[lorg[t.slots[q.object][q.number]]].collector_id = u
      BY Zenon, <3>1, <3>2
    <3> QED
      BY Zenon, <3>2, <3>3 DEF q
  <2> QED
    BY ZenonT(30), <1>8, <1>9, <2>1 DEF CollectorMap
<1>19. Holders(X, n, org, lorg)
  <2> SUFFICES ASSUME NEW y \in DOMAIN lorg
               PROVE  \E d \in DOMAIN org : \E i \in DOMAIN t.slots[d] :
                        /\ ~ Pending(n.calls, d, i)
                        /\ t.slots[d][i] = y
                        /\ t.kind[d] = "function" => X.src[lorg[y]].id \in DOMAIN t.upvalue_map
    BY <1>9 DEF Holders
  <2>1. PICK d \in DOMAIN org : \E i \in DOMAIN s.slots[d] :
               /\ ~ Pending(c.calls, d, i)
               /\ s.slots[d][i] = y
               /\ s.kind[d] = "function" => X.src[lorg[y]].id \in DOMAIN s.upvalue_map
    BY DEF Holders
  <2>2. PICK i \in DOMAIN s.slots[d] :
               /\ ~ Pending(c.calls, d, i)
               /\ s.slots[d][i] = y
               /\ s.kind[d] = "function" => X.src[lorg[y]].id \in DOMAIN s.upvalue_map
    BY <2>1
  <2> DEFINE q == [object |-> d, number |-> i]
  <2>3. q.object = d /\ q.number = i
    OBVIOUS
  <2> HIDE DEF q
  <2>4. IsSet(c, org, q)
    BY <2>2, <2>3 DEF IsSet
  <2>5. IsSet(n, org, q) /\ t.slots[d][i] = s.slots[d][i]
    BY <1>13, <2>3, <2>4
  <2>6. ~ Pending(n.calls, d, i) /\ i \in DOMAIN t.slots[d]
    BY <1>9, <2>3, <2>5 DEF IsSet
  <2> QED
    BY Zenon, <1>8, <2>2, <2>5, <2>6
<1>20. CallsNested(sv, n)
  <2> SUFFICES ASSUME NEW k \in DOMAIN c.calls, k # 1 PROVE Waits(sv, n, k, n.calls[k - 1].id)
    BY <1>13 DEF CallsNested
  <2>1. Waits(sv, c, k, c.calls[k - 1].id)
    BY DEF CallsNested
  <2>2. n.calls[k] = c.calls[k] /\ n.calls[k - 1].id = c.calls[k - 1].id
    <3>1. k - 1 \in DOMAIN c.calls
      BY <1>1, IndexIs
    <3> QED
      BY SMTT(30), <1>13, <3>1
  <2> QED
    BY Zenon, <1>8, <1>9, <2>1, <2>2 DEF Waits, Shared
<1>21. n = [state |-> t, calls |-> NextSlot(c.calls)]
  BY DEF n
<1>22. CopyInv(X, sv, n, org, lorg)
  BY <1>9, <1>13, <1>14, <1>15, <1>16, <1>17, <1>18, <1>19, <1>20
<1> QED
  BY Zenon, <1>22 DEF n, t, slot

Busy(c) == c.calls # <<>>

Returning(c) == Busy(c) /\ c.calls[1].left = 0

Popped(c) == [c EXCEPT !.calls = Tail(@)]

\* The innermost call returns.
LEMMA PopKeeps ==
  ASSUME NEW X, NEW sv, NEW c, NEW org, NEW lorg, CopyInv(X, sv, c, org, lorg), Returning(c)
  PROVE  /\ CopyInv(X, sv, Popped(c), org, lorg)
         /\ Popped(c).state = c.state /\ Popped(c).calls = Tail(c.calls)
         /\ Len(c.calls) # 1 => /\ Tail(c.calls) # <<>>
                                /\ Waits(sv, Popped(c), 1, c.calls[1].id)
<1> DEFINE n == Popped(c)
<1> USE DEF CopyInv
<1>1. c.calls \in Seq(Calls) /\ c.state \in Heaps
  BY DEF Copies
<1>2. n \in Copies /\ n.state = c.state /\ n.calls = Tail(c.calls)
  <2>1. Tail(c.calls) \in Seq(Calls)
    BY <1>1 DEF Returning, Busy
  <2> QED
    BY <1>1, <2>1 DEF Popped, Copies
<1>3. /\ DOMAIN c.calls = 1..Len(c.calls) /\ Len(c.calls) \in Nat \ {0}
      /\ DOMAIN n.calls = 1..Len(c.calls) - 1
      /\ \A k \in 1..Len(c.calls) - 1 : n.calls[k] = c.calls[k + 1]
  BY <1>1, <1>2 DEF Returning, Busy
<1> HIDE DEF n
<1>4. \A k \in DOMAIN n.calls : n.calls[k] = c.calls[k + 1] /\ k + 1 \in DOMAIN c.calls /\ k + 1 # 1 /\ k \in Nat
  BY <1>3
<1>5. \A k \in DOMAIN c.calls : k # 1 => k - 1 \in DOMAIN n.calls /\ n.calls[k - 1] = c.calls[k]
  BY <1>3
<1>6. ASSUME NEW d \in DOMAIN org, NEW i \in DOMAIN c.state.slots[d]
      PROVE  Pending(n.calls, d, i) <=> Pending(c.calls, d, i)
  <2>1. ~ (i <= 0) /\ c.calls[1].left = 0
    <3>1. d \in DOMAIN c.state.slots
      <4>1. /\ DOMAIN org = Len(X.base.kind) + 1..Len(c.state.kind)
            /\ Len(c.state.slots) = Len(c.state.kind) /\ Kept(X.base, c.state)
        BY DEF Extent
      <4>2. c.state.slots \in Seq(Seq(Nat))
        BY <1>1 DEF Heaps
      <4> QED
        BY <4>1, <4>2
    <3>2. c.state.slots[d] \in Seq(Nat)
      BY <1>1, <3>1, ElementIs DEF Heaps
    <3> QED
      BY <3>2 DEF Returning
  <2>2. ASSUME Pending(c.calls, d, i) PROVE Pending(n.calls, d, i)
    <3>1. PICK k \in DOMAIN c.calls : c.calls[k].object = d /\ i <= c.calls[k].left
      BY <2>2 DEF Pending
    <3>2. k # 1
      BY <2>1, <3>1
    <3> QED
      BY <1>5, <3>1, <3>2 DEF Pending
  <2>3. ASSUME Pending(n.calls, d, i) PROVE Pending(c.calls, d, i)
    <3>1. PICK k \in DOMAIN n.calls : n.calls[k].object = d /\ i <= n.calls[k].left
      BY <2>3 DEF Pending
    <3> QED
      BY <1>4, <3>1 DEF Pending
  <2> QED
    BY <2>2, <2>3
<1>7. \A q : IsSet(c, org, q) => IsSet(n, org, q)
  BY <1>2, <1>6 DEF IsSet
<1>8. SlotsSet(X, n, org, lorg)
  BY <1>2, <1>6 DEF SlotsSet
<1>9. UpvalueMap(X, n, org, lorg)
  BY Zenon, <1>2, <1>7 DEF UpvalueMap
<1>10. CollectorMap(X, n, org, lorg)
  BY Zenon, <1>2, <1>7 DEF CollectorMap
<1>11. Holders(X, n, org, lorg)
  BY <1>2, <1>6 DEF Holders
<1>12. CallsOK(sv, n, org)
  <2>1. ASSUME NEW k \in DOMAIN n.calls
        PROVE  LET f == n.calls[k]
               IN  /\ f.id \in DOMAIN sv.nodes /\ f.object \in DOMAIN org /\ org[f.object] = f.id
                   /\ f.left = 0 \/ f.left \in DOMAIN n.state.slots[f.object]
    BY <1>2, <1>4 DEF CallsOK
  <2>2. ASSUME NEW j \in DOMAIN n.calls, NEW k \in DOMAIN n.calls,
               n.calls[j].object = n.calls[k].object
        PROVE  j = k
    <3>1. j + 1 = k + 1
      BY <1>4, <2>2 DEF CallsOK
    <3> QED
      BY <1>4, <3>1
  <2> QED
    BY <2>1, <2>2 DEF CallsOK
<1>13. ASSUME NEW k \in DOMAIN n.calls PROVE Waits(sv, n, k, c.calls[k].id)
  <2>1. Waits(sv, c, k + 1, c.calls[(k + 1) - 1].id)
    BY <1>4 DEF CallsNested
  <2>2. (k + 1) - 1 = k
    BY <1>4
  <2> QED
    BY Zenon, <1>2, <1>4, <2>1, <2>2 DEF Waits
<1>14. CallsNested(sv, n)
  <2> SUFFICES ASSUME NEW k \in DOMAIN n.calls, k # 1 PROVE Waits(sv, n, k, n.calls[k - 1].id)
    BY DEF CallsNested
  <2>1. k - 1 \in DOMAIN n.calls /\ (k - 1) + 1 = k
    BY <1>3
  <2>2. n.calls[k - 1] = c.calls[k]
    BY <1>4, <2>1
  <2> QED
    BY <1>13, <2>2
<1>15. ASSUME Len(c.calls) # 1 PROVE Tail(c.calls) # <<>> /\ Waits(sv, n, 1, c.calls[1].id)
  <2>1. Len(c.calls) - 1 \in Nat \ {0} /\ DOMAIN n.calls = 1..Len(c.calls) - 1
    BY <1>3, <1>15
  <2>2. 1 \in DOMAIN n.calls
    BY <2>1, OneIn
  <2> QED
    BY <1>2, <1>13, <2>2
<1>16. CopyInv(X, sv, n, org, lorg)
  BY <1>2, <1>8, <1>9, <1>10, <1>11, <1>12, <1>14
<1> QED
  BY <1>2, <1>15, <1>16 DEF n

\* The ways in which a step can go from c to n.
Stepped(sv, c, n) ==
  \/ Ready(c) /\ Advanced(c, n)
  \/ Ready(c) /\ \E id \in DOMAIN sv.nodes : id \notin DOMAIN c.state.object_map /\ Begun(c, sv, id, n)
  \/ c.calls[1].left = 0 /\ Len(c.calls) = 1 /\ n = Popped(c)
  \/ c.calls[1].left = 0 /\ Len(c.calls) # 1 /\ Ready(Popped(c)) /\ Advanced(Popped(c), n)

\* The invariant after a step.
LEMMA CopyStepKeeps ==
  ASSUME NEW X, NEW sv, NEW c, NEW org, NEW lorg,
         SourceOK(X), NodesOK(X, sv), NoEndless(sv), CopyInv(X, sv, c, org, lorg), Busy(c)
  PROVE  /\ Stepped(sv, c, CopyStep(c, sv))
         /\ \E org2, lorg2 : /\ CopyInv(X, sv, CopyStep(c, sv), org2, lorg2)
                             /\ Extends(org, org2) /\ Extends(lorg, lorg2)
<1> DEFINE s == c.state
           f == c.calls[1]
           node == sv.nodes[f.id]
           slot == node.slots[f.left]
           n == CopyStep(c, sv)
           Goal == /\ Stepped(sv, c, n)
                   /\ \E org2, lorg2 : /\ CopyInv(X, sv, n, org2, lorg2)
                                       /\ Extends(org, org2) /\ Extends(lorg, lorg2)
<1>1. c \in Copies /\ c.calls \in Seq(Calls) /\ Head(c.calls) = f
  BY HeadIs DEF CopyInv, Copies, Busy
<1>2. Extends(org, org) /\ Extends(lorg, lorg)
  BY DEF Extends
<1>3. CASE f.left = 0 /\ Len(c.calls) = 1
  <2>1. n = [c EXCEPT !.calls = <<>>]
    BY <1>1, <1>3 DEF CopyStep, Return, Busy
  <2>2. Tail(c.calls) = <<>>
    BY <1>1, <1>3, TailIs
  <2>3. n = Popped(c)
    BY <2>1, <2>2 DEF Popped
  <2>4. CopyInv(X, sv, Popped(c), org, lorg)
    BY <1>3, PopKeeps DEF Returning
  <2>5. Stepped(sv, c, Popped(c))
    BY <1>3 DEF Stepped
  <2> HIDE DEF n
  <2> QED
    BY <1>2, <2>3, <2>4, <2>5 DEF n
<1>4. CASE f.left = 0 /\ Len(c.calls) # 1
  <2> DEFINE p == Popped(c)
             v == Obj(f.object)
  <2>1. /\ CopyInv(X, sv, p, org, lorg) /\ p.state = s /\ p.calls = Tail(c.calls)
        /\ Tail(c.calls) # <<>> /\ Waits(sv, p, 1, f.id)
    BY Zenon, <1>4, PopKeeps DEF Returning
  <2>2. n = SetSlot(p, sv, v)
    BY <1>1, <1>4 DEF CopyStep, Return, Popped, Busy
  <2> HIDE DEF p, n
  <2>3. Ready(p) /\ Unfound(p, sv)
    BY Zenon, <2>1 DEF Waits, Ready, Unfound
  <2>4. f.object \in DOMAIN org /\ org[f.object] = f.id /\ f.object \in Nat
    <3>1. 1 \in DOMAIN c.calls /\ f \in Calls
      BY <1>1, HeadIs DEF Busy
    <3> QED
      BY <3>1 DEF CopyInv, CallsOK, Calls
  <2>5. v \in Vals /\ v[1] = "obj" /\ v[2] = f.object
    <3> HIDE DEF f
    <3> QED
      BY <2>4, ObjIs
  <2> HIDE DEF v
  <2>6. Fits(p, sv, org, v)
    BY Zenon, <2>1, <2>4, <2>5 DEF Waits, Fits, Agree
  <2>7. /\ Advanced(p, n)
        /\ \E lorg2 : CopyInv(X, sv, n, org, lorg2) /\ Extends(lorg, lorg2)
    BY <2>1, <2>2, <2>3, <2>5, <2>6, SetSlotKeeps
  <2>8. Stepped(sv, c, n)
    BY <1>4, <2>3, <2>7 DEF Stepped, p
  <2> QED
    BY <1>2, <2>7, <2>8 DEF n
<1>5. CASE f.left # 0
  <2>1. Ready(c)
    BY <1>5 DEF Ready, Busy
  <2>2. n = CopySlot(c, sv)
    BY <1>1, <1>5 DEF CopyStep, Busy
  <2>3. CASE ~ Unfound(c, sv)
    <3> DEFINE j == [state |-> JoinUpvalue(s, f.object, f.left, slot), calls |-> NextSlot(c.calls)]
    <3>1. n = j
      BY Zenon, <1>1, <2>2, <2>3 DEF CopySlot, Unfound
    <3>2. CopyInv(X, sv, j, org, lorg)
      BY Zenon, <2>1, <2>3, JoinKeeps
    <3>3. Advanced(c, j)
      <4>1. JoinUpvalue(s, f.object, f.left, slot).object_map = s.object_map
        BY DEF JoinUpvalue, CopyInv, Copies, Heaps
      <4> QED
        BY <4>1 DEF Advanced
    <3>4. Stepped(sv, c, j)
      BY Zenon, <2>1, <3>3 DEF Stepped
    <3> HIDE DEF j, n
    <3> QED
      BY <1>2, <3>1, <3>2, <3>4 DEF n
  <2>4. CASE Unfound(c, sv) /\ Seen(s, slot.value)
    <3> DEFINE v == Fetched(s, slot.value)
    <3>1. n = SetSlot(c, sv, v)
      BY Zenon, <1>1, <2>2, <2>4 DEF CopySlot, Unfound
    <3>2. slot.value \in Vals
      <4>1. Innermost(X, sv, c, org)
        BY <2>1, InnermostIs
      <4> QED
        BY Zenon, <4>1 DEF Innermost, SlotSet
    <3>3. v \in Vals /\ Agree(org, slot.value, v)
      <4>1. CASE slot.value[1] = "obj"
        <5> DEFINE o == slot.value[2]
        <5>1. o \in DOMAIN s.object_map /\ v = Obj(s.object_map[o])
          BY Zenon, <2>4, <4>1 DEF Seen, Fetched
        <5>2. s.object_map[o] \in DOMAIN org /\ org[s.object_map[o]] = o
          BY Zenon, <5>1 DEF CopyInv, ObjectMap
        <5>3. s.object_map[o] \in Nat
          <6>1. s.object_map \in Maps(Nat)
            BY DEF CopyInv, Copies, Heaps
          <6> QED
            BY Zenon, <5>1, <6>1 DEF Maps
        <5>4. v \in Vals /\ v[1] = "obj" /\ v[2] = s.object_map[o]
          <6> HIDE DEF o, v
          <6> QED
            BY <5>1, <5>3, ObjIs
        <5> HIDE DEF v
        <5> QED
          BY Zenon, <4>1, <5>2, <5>4 DEF Agree
      <4>2. CASE slot.value[1] # "obj"
        BY Zenon, <3>2, <4>2 DEF Fetched, Agree
      <4> QED
        BY Zenon, <4>1, <4>2
    <3> HIDE DEF v, n
    <3>4. Fits(c, sv, org, v)
      BY <3>3 DEF Fits
    <3>5. /\ Advanced(c, n)
          /\ \E lorg2 : CopyInv(X, sv, n, org, lorg2) /\ Extends(lorg, lorg2)
      BY Zenon, <2>1, <2>4, <3>1, <3>3, <3>4, SetSlotKeeps
    <3>6. Stepped(sv, c, n)
      BY <2>1, <3>5 DEF Stepped
    <3> QED
      BY <1>2, <3>5, <3>6 DEF n
  <2>5. CASE Unfound(c, sv) /\ ~ Seen(s, slot.value)
    <3> DEFINE id == slot.value[2]
               org2 == Put(org, Len(s.kind) + 1, id)
    <3>1. n = NewObject(c, sv, id)
      BY Zenon, <1>1, <2>2, <2>5 DEF CopySlot, Unfound
    <3>2. slot.value[1] = "obj" /\ id \notin DOMAIN s.object_map
      BY Zenon, <2>5 DEF Seen
    <3>3. id \in DOMAIN sv.nodes
      <4>1. Innermost(X, sv, c, org)
        BY <2>1, InnermostIs
      <4>2. f.id \in DOMAIN sv.nodes /\ f.left \in DOMAIN X.heap.slots[f.id]
        BY Zenon, <4>1 DEF Innermost
      <4> QED
        BY Zenon, <3>2, <4>2 DEF NodesOK
    <3>4. Waits(sv, c, 1, id)
      BY Zenon, <1>5, <2>5, <3>2 DEF Waits, Unfound
    <3> HIDE DEF id, n
    <3>5. CopyInv(X, sv, n, org2, lorg)
      BY <3>1, <3>2, <3>3, <3>4, NewObjectKeeps
    <3>6. Begun(c, sv, id, n)
      <4>1. id \in Nat /\ sv.nodes[id].slots \in Seq(SlotSet) /\ sv.nodes[id].type \in Kinds
        <5>1. /\ id \in DOMAIN X.heap.kind /\ sv.nodes[id].slots \in Seq(SlotSet)
              /\ sv.nodes[id].type = X.heap.kind[id]
          BY <3>3 DEF NodesOK
        <5>2. X.heap.kind \in Seq(Kinds)
          BY DEF SourceOK, Heaps
        <5> QED
          BY <5>1, <5>2, ElementIs
      <4> QED
        BY <1>1, <3>1, <4>1, NewObjectIs
    <3>7. Extends(org, org2)
      <4>1. Len(s.kind) + 1 \notin DOMAIN org
        <5>1. s.kind \in Seq(Kinds) /\ DOMAIN org = Len(X.base.kind) + 1..Len(s.kind)
          BY SMTT(30) DEF CopyInv, Copies, Heaps, Extent
        <5> QED
          BY <5>1
      <4> QED
        BY <4>1 DEF Extends, Put
    <3> HIDE DEF org2
    <3>8. Stepped(sv, c, n)
      BY <2>1, <3>2, <3>3, <3>6 DEF Stepped
    <3> QED
      BY <1>2, <3>5, <3>7, <3>8 DEF n
  <2> QED
    BY <2>3, <2>4, <2>5
<1> QED
  BY <1>3, <1>4, <1>5
----------------------------------------------------------------------------
(* A copy comes to an end: no place is visited twice.                      *)

Distinct(K) == \A j, k \in DOMAIN K : K[j].id = K[k].id => j = k

\* H has none of the places at which a call has yet to take a step.
Fresh(K, H) ==
  \A k \in DOMAIN K : \A i \in 0..K[k].left :
    (k = 1 \/ i # K[k].left) => <<K[k].id, i>> \notin H

\* The same after the step of the innermost call.
Below(K, H) == \A k \in DOMAIN K : \A i \in 0..K[k].left : i # K[k].left => <<K[k].id, i>> \notin H

\* H: the places at which there has been a step.
Progress(sv, c, H) ==
  /\ H \subseteq Places(sv) /\ IsFiniteSet(H)
  /\ \A p \in H : p[1] \in DOMAIN c.state.object_map
  /\ Distinct(c.calls) /\ Fresh(c.calls, H)

LEMMA FreshBelow ==
  ASSUME NEW K, NEW H, 1 \in DOMAIN K, Distinct(K), Fresh(K, H)
  PROVE  Below(K, H \union {<<K[1].id, K[1].left>>})
<1> SUFFICES ASSUME NEW k \in DOMAIN K, NEW i \in 0..K[k].left, i # K[k].left,
                    <<K[k].id, i>> = <<K[1].id, K[1].left>>
             PROVE  FALSE
  BY DEF Below, Fresh
<1>1. K[k].id = K[1].id /\ i = K[1].left
  OBVIOUS
<1>2. k = 1
  BY <1>1 DEF Distinct
<1> QED
  BY <1>1, <1>2

LEMMA FreshNext ==
  ASSUME NEW K \in Seq(Calls), NEW H, K # <<>>, K[1].left # 0, Distinct(K), Below(K, H)
  PROVE  Distinct(NextSlot(K)) /\ Fresh(NextSlot(K), H)
<1> DEFINE N == NextSlot(K)
<1>1. /\ N \in Seq(Calls) /\ Len(N) = Len(K) /\ Len(K) \in Nat \ {0}
      /\ N[1] = [K[1] EXCEPT !.left = @ - 1]
      /\ \A k \in 1..Len(K) : k # 1 => N[k] = K[k]
  BY NextSlotIs
<1>2. DOMAIN N = DOMAIN K /\ DOMAIN K = 1..Len(K)
  BY <1>1
<1>3. K[1] \in Calls /\ 1 \in DOMAIN K
  BY <1>1, <1>2, OneIn, ElementIs
<1>4. N[1].id = K[1].id /\ N[1].left = K[1].left - 1 /\ K[1].left \in Nat
  BY <1>1, <1>3 DEF Calls
<1> HIDE DEF N
<1>5. Distinct(N)
  <2>1. \A k \in DOMAIN K : N[k].id = K[k].id
    BY <1>1, <1>2, <1>4
  <2> QED
    BY <1>2, <2>1 DEF Distinct
<1>6. ASSUME NEW k \in DOMAIN N, NEW i \in 0..N[k].left, k = 1 \/ i # N[k].left
      PROVE  <<N[k].id, i>> \notin H
  <2>1. CASE k = 1
    <3>1. i \in 0..K[1].left /\ i # K[1].left
      BY <1>4, <2>1
    <3> QED
      BY <1>3, <1>4, <2>1, <3>1 DEF Below
  <2>2. CASE k # 1
    BY <1>1, <1>2, <1>6, <2>2 DEF Below
  <2> QED
    BY <2>1, <2>2
<1> QED
  BY <1>5, <1>6 DEF Fresh, N

Top(c) == <<c.calls[1].id, c.calls[1].left>>

LEMMA TopPlace ==
  ASSUME NEW X, NEW sv, NEW c, NEW org, NEW lorg, NEW H,
         NodesOK(X, sv), CopyInv(X, sv, c, org, lorg), Busy(c), Progress(sv, c, H)
  PROVE  /\ c.calls \in Seq(Calls) /\ 1 \in DOMAIN c.calls /\ c.calls[1] \in Calls
         /\ Top(c) \in Places(sv) /\ Top(c) \notin H
         /\ \A k \in DOMAIN c.calls : c.calls[k].id \in DOMAIN c.state.object_map
<1> DEFINE f == c.calls[1]
<1> USE DEF CopyInv
<1>1. c.calls \in Seq(Calls)
  BY DEF Copies
<1>2. 1 \in DOMAIN c.calls /\ f \in Calls
  BY <1>1, HeadIs DEF Busy
<1>3. \A k \in DOMAIN c.calls : c.calls[k].id \in DOMAIN c.state.object_map
  BY DEF CallsOK, ObjectMap
<1>4. /\ f.id \in DOMAIN sv.nodes /\ f.object \in DOMAIN org /\ org[f.object] = f.id
      /\ f.left = 0 \/ f.left \in DOMAIN c.state.slots[f.object]
  BY <1>2 DEF CallsOK
<1>5. f.left = 0 \/ f.left \in DOMAIN sv.nodes[f.id].slots
  BY SMTT(30), <1>4 DEF Origins, NodesOK
<1>6. f.left \in 0..Len(sv.nodes[f.id].slots)
  <2>1. sv.nodes[f.id].slots \in Seq(SlotSet)
    BY <1>4 DEF NodesOK
  <2> HIDE DEF f
  <2> QED
    BY <1>5, <2>1
<1>7. Top(c) \in Places(sv)
  BY <1>4, <1>6 DEF Places, Top
<1>8. f.left \in 0..f.left
  BY <1>2 DEF Calls
<1>9. Top(c) \notin H
  BY <1>2, <1>8 DEF Progress, Fresh, Top
<1> QED
  BY <1>1, <1>2, <1>3, <1>7, <1>9

\* Every step, but for the last one, is at another place.
LEMMA ProgressStep ==
  ASSUME NEW X, NEW sv, NEW c, NEW org, NEW lorg, NEW H, NEW n,
         NodesOK(X, sv), CopyInv(X, sv, c, org, lorg), Busy(c), Progress(sv, c, H),
         Stepped(sv, c, n), Busy(n), n \in Copies
  PROVE  Progress(sv, n, H \union {Top(c)})
<1> DEFINE K == c.calls
           G == H \union {Top(c)}
<1>1. /\ K \in Seq(Calls) /\ 1 \in DOMAIN K /\ K[1] \in Calls
      /\ Top(c) \in Places(sv) /\ Top(c) \notin H
      /\ \A k \in DOMAIN K : K[k].id \in DOMAIN c.state.object_map
  BY TopPlace
<1>2. G \subseteq Places(sv) /\ IsFiniteSet(G)
  BY <1>1, FS_AddElement DEF Progress
<1>3. \A p \in G : p[1] \in DOMAIN c.state.object_map
  <2>1. Top(c)[1] = K[1].id
    BY DEF Top
  <2> QED
    BY <1>1, <2>1 DEF Progress
<1>4. Distinct(K) /\ Below(K, G)
  BY <1>1, FreshBelow DEF Progress, Top
<1> HIDE DEF G
<1>5. CASE Ready(c) /\ Advanced(c, n)
  <2>1. Distinct(n.calls) /\ Fresh(n.calls, G)
    BY <1>1, <1>4, <1>5, FreshNext DEF Ready, Advanced
  <2> QED
    BY <1>2, <1>3, <1>5, <2>1 DEF Progress, Advanced, G
<1>6. ASSUME NEW id \in DOMAIN sv.nodes, id \notin DOMAIN c.state.object_map, Begun(c, sv, id, n)
      PROVE  Progress(sv, n, G)
  <2>1. /\ n.state.object_map = Put(c.state.object_map, id, Len(c.state.kind) + 1)
        /\ Len(n.calls) = Len(K) + 1
        /\ n.calls[1].id = id
        /\ \A k \in 1..Len(K) : n.calls[k + 1] = K[k]
    BY <1>6 DEF Begun
  <2>2. n.calls \in Seq(Calls)
    BY DEF Copies
  <2>3. DOMAIN K = 1..Len(K) /\ Len(K) \in Nat /\ DOMAIN n.calls = 1..Len(K) + 1
    BY <1>1, <2>1, <2>2
  <2>4. ASSUME NEW k \in DOMAIN n.calls, k # 1
        PROVE  k - 1 \in DOMAIN K /\ n.calls[k] = K[k - 1] /\ k \in Nat
    BY <2>1, <2>3, <2>4
  <2>5. \A p \in G : p[1] \in DOMAIN n.state.object_map
    BY <1>3, <2>1 DEF Put
  <2>6. ASSUME NEW j \in DOMAIN n.calls, NEW k \in DOMAIN n.calls, n.calls[j].id = n.calls[k].id
        PROVE  j = k
    <3>1. CASE j = 1 \/ k = 1
      <4>1. \A h \in DOMAIN n.calls : h # 1 => n.calls[h].id # id
        BY <1>1, <1>6, <2>4
      <4> QED
        BY <2>1, <2>6, <3>1, <4>1
    <3>2. CASE j # 1 /\ k # 1
      <4>1. j - 1 = k - 1
        BY <1>4, <2>4, <2>6, <3>2 DEF Distinct
      <4> QED
        BY <2>4, <3>2, <4>1
    <3> QED
      BY <3>1, <3>2
  <2>7. ASSUME NEW k \in DOMAIN n.calls, NEW i \in 0..n.calls[k].left,
               k = 1 \/ i # n.calls[k].left
        PROVE  <<n.calls[k].id, i>> \notin G
    <3>1. CASE k = 1
      <4>1. <<id, i>>[1] = id
        OBVIOUS
      <4> QED
        BY <1>3, <1>6, <2>1, <3>1, <4>1
    <3>2. CASE k # 1
      BY <1>4, <2>4, <2>7, <3>2 DEF Below
    <3> QED
      BY <3>1, <3>2
  <2> QED
    BY <1>2, <2>5, <2>6, <2>7 DEF Progress, Distinct, Fresh
<1>7. ASSUME Ready(Popped(c)), Advanced(Popped(c), n)
      PROVE  Progress(sv, n, G)
  <2> DEFINE L == Tail(K)
  <2>1. Popped(c).calls = L /\ Popped(c).state = c.state
    BY DEF Popped, CopyInv, Copies
  <2>2. L \in Seq(Calls) /\ Len(K) \in Nat \ {0} /\ DOMAIN L = 1..Len(K) - 1 /\ DOMAIN K = 1..Len(K)
        /\ \A k \in 1..Len(K) - 1 : L[k] = K[k + 1]
    <3>1. K # <<>>
      BY DEF Busy
    <3> QED
      BY <1>1, <3>1
  <2>3. \A k \in DOMAIN L : L[k] = K[k + 1] /\ k + 1 \in DOMAIN K /\ k \in Nat
    BY <2>2
  <2> HIDE DEF L
  <2>4. Distinct(L)
    <3> SUFFICES ASSUME NEW j \in DOMAIN L, NEW k \in DOMAIN L, L[j].id = L[k].id PROVE j = k
      BY DEF Distinct
    <3>1. j + 1 = k + 1
      BY <1>4, <2>3 DEF Distinct
    <3> QED
      BY <2>3, <3>1
  <2>5. Below(L, G)
    BY <1>4, <2>3 DEF Below
  <2>6. L # <<>> /\ L[1].left # 0
    BY <1>7, <2>1 DEF Ready
  <2>7. Distinct(n.calls) /\ Fresh(n.calls, G)
    BY <1>7, <2>1, <2>2, <2>4, <2>5, <2>6, FreshNext DEF Advanced
  <2> QED
    BY <1>2, <1>3, <1>7, <2>1, <2>7 DEF Progress, Advanced
<1>8. CASE Len(c.calls) = 1 /\ n = Popped(c)
  <2>1. Popped(c).calls = Tail(K)
    BY DEF Popped, CopyInv, Copies
  <2>2. Tail(K) = <<>>
    BY <1>1, <1>8, TailIs
  <2> QED
    BY <1>8, <2>1, <2>2 DEF Busy
<1> QED
  BY <1>5, <1>6, <1>7, <1>8 DEF Stepped, G

LEMMA PlacesFinite ==
  ASSUME NEW X, NEW sv, SourceOK(X), NodesOK(X, sv)
  PROVE  IsFiniteSet(Places(sv))
<1> DEFINE P(o) == {<<o, i>> : i \in 0..Len(sv.nodes[o].slots)}
           N == DOMAIN sv.nodes
<1>1. IsFiniteSet(N)
  <2>1. X.heap.kind \in Seq(Kinds)
    BY DEF SourceOK, Heaps
  <2>2. N \subseteq 1..Len(X.heap.kind) /\ Len(X.heap.kind) \in Nat
    BY <2>1 DEF NodesOK
  <2>3. IsFiniteSet(1..Len(X.heap.kind))
    BY <2>2, FS_Interval
  <2> QED
    BY <2>2, <2>3, FS_Subset
<1>2. ASSUME NEW o \in N PROVE IsFiniteSet(P(o))
  <2>1. sv.nodes[o].slots \in Seq(SlotSet)
    BY DEF NodesOK
  <2>2. Len(sv.nodes[o].slots) \in Nat
    BY <2>1
  <2> DEFINE R == 0..Len(sv.nodes[o].slots)
             h == [i \in R |-> <<o, i>>]
  <2>3. IsFiniteSet(R)
    BY <2>2, FS_Interval
  <2> HIDE DEF R
  <2>4. P(o) \subseteq {h[i] : i \in R}
    BY DEF R
  <2>5. h \in [R -> P(o)] /\ \A y \in P(o) : \E i \in R : h[i] = y
    BY DEF R
  <2>6. IsFiniteSet(P(o))
    BY <2>3, <2>5, FS_Surjection DEF Surjection
  <2> QED
    BY <2>6
<1> DEFINE Q == {P(o) : o \in N}
<1>3. IsFiniteSet(Q)
  <2> DEFINE h == [o \in N |-> P(o)]
  <2>1. h \in [N -> Q] /\ \A y \in Q : \E o \in N : h[o] = y
    <3> HIDE DEF P
    <3> QED
      OBVIOUS
  <2> HIDE DEF Q, h
  <2> QED
    BY <1>1, <2>1, FS_Surjection DEF Surjection
<1>4. \A S \in Q : IsFiniteSet(S)
  BY <1>2
<1>5. Places(sv) = UNION Q
  BY DEF Places
<1> HIDE DEF Q
<1> QED
  BY <1>3, <1>4, <1>5, FS_UNION

\* No copy under way in state s.
Still(s) == [state |-> s, calls |-> <<>>]

\* Copies in progress that began with org and lorg, after n steps.
Begins(X, sv, org, lorg) ==
  {c \in Copies : \E org2, lorg2 : /\ CopyInv(X, sv, c, org2, lorg2)
                                   /\ Extends(org, org2) /\ Extends(lorg, lorg2)}

After(X, sv, org, lorg, n) ==
  {c \in Begins(X, sv, org, lorg) :
     Busy(c) => \E H : Progress(sv, c, H) /\ Cardinality(H) = n}

LEMMA AfterStep ==
  ASSUME NEW X, NEW sv, NEW org, NEW lorg, NEW n \in Nat, NEW c \in Begins(X, sv, org, lorg),
         SourceOK(X), NodesOK(X, sv), NoEndless(sv)
  PROVE  /\ CopyStep(c, sv) \in Begins(X, sv, org, lorg)
         /\ c \in After(X, sv, org, lorg, n) => CopyStep(c, sv) \in After(X, sv, org, lorg, n + 1)
<1> DEFINE d == CopyStep(c, sv)
<1>1. PICK org1, lorg1 : CopyInv(X, sv, c, org1, lorg1) /\ Extends(org, org1) /\ Extends(lorg, lorg1)
  BY DEF Begins
<1>2. CASE ~ Busy(c)
  <2>1. d = c
    BY <1>2 DEF CopyStep, Busy
  <2> QED
    BY <1>2, <2>1 DEF After
<1>3. CASE Busy(c)
  <2>1. /\ Stepped(sv, c, d)
        /\ \E org2, lorg2 : CopyInv(X, sv, d, org2, lorg2) /\ Extends(org1, org2) /\ Extends(lorg1, lorg2)
    BY <1>1, <1>3, CopyStepKeeps
  <2> HIDE DEF d
  <2>2. PICK org2, lorg2 : CopyInv(X, sv, d, org2, lorg2) /\ Extends(org1, org2) /\ Extends(lorg1, lorg2)
    BY <2>1
  <2>3. d \in Begins(X, sv, org, lorg)
    <3>1. Extends(org, org2) /\ Extends(lorg, lorg2)
      BY <1>1, <2>2 DEF Extends
    <3>2. d \in Copies
      BY <2>2 DEF CopyInv
    <3> QED
      BY <2>2, <3>1, <3>2 DEF Begins
  <2>4. ASSUME c \in After(X, sv, org, lorg, n), Busy(d)
        PROVE  \E H : Progress(sv, d, H) /\ Cardinality(H) = n + 1
    <3>1. PICK H : Progress(sv, c, H) /\ Cardinality(H) = n
      BY <1>3, <2>4 DEF After
    <3>2. d \in Copies
      BY <2>3 DEF Begins
    <3>3. Progress(sv, d, H \union {Top(c)})
      BY <1>1, <1>3, <2>1, <2>4, <3>1, <3>2, ProgressStep
    <3>4. Top(c) \notin H /\ IsFiniteSet(H)
      BY <1>1, <1>3, <3>1, TopPlace DEF Progress
    <3>5. Cardinality(H \union {Top(c)}) = n + 1
      BY <3>1, <3>4, FS_AddElement
    <3> QED
      BY <3>3, <3>5
  <2> QED
    BY <2>3, <2>4 DEF After, d
<1> QED
  BY <1>2, <1>3

\* After as many steps as there are places nothing is left to do.
LEMMA AfterAll ==
  ASSUME NEW X, NEW sv, NEW org, NEW lorg,
         NEW c \in After(X, sv, org, lorg, Cardinality(Places(sv))),
         SourceOK(X), NodesOK(X, sv)
  PROVE  ~ Busy(c)
<1> SUFFICES ASSUME Busy(c) PROVE FALSE
  OBVIOUS
<1>1. PICK org1, lorg1 : CopyInv(X, sv, c, org1, lorg1)
  BY DEF After, Begins
<1>2. PICK H : Progress(sv, c, H) /\ Cardinality(H) = Cardinality(Places(sv))
  BY DEF After
<1>3. H \subseteq Places(sv) /\ Top(c) \in Places(sv) /\ Top(c) \notin H
  BY <1>1, <1>2, TopPlace DEF Progress
<1>4. IsFiniteSet(Places(sv))
  BY PlacesFinite
<1>5. H = Places(sv)
  BY <1>2, <1>3, <1>4, FS_Subset
<1> QED
  BY <1>3, <1>5

\* push_function and push_table for an object that is not there yet.
LEMMA CopiedKeeps ==
  ASSUME NEW X, NEW sv, NEW s, NEW org, NEW lorg,
         SourceOK(X), NodesOK(X, sv), NoEndless(sv), CopyInv(X, sv, Still(s), org, lorg),
         sv.v[2] \in DOMAIN sv.nodes,
         X.heap.kind[sv.v[2]] = "table" => sv.v[2] \notin DOMAIN s.object_map
  PROVE  \E org2, lorg2 :
           /\ CopyInv(X, sv, Still(Copied(s, sv)), org2, lorg2)
           /\ Extends(org, org2) /\ Extends(lorg, lorg2)
           /\ Len(s.kind) + 1 \in DOMAIN org2 /\ org2[Len(s.kind) + 1] = sv.v[2]
<1> DEFINE id == sv.v[2]
           x == NewObject([state |-> s, calls |-> <<>>], sv, id)
           o == Len(s.kind) + 1
           org1 == Put(org, o, id)
           U == Begins(X, sv, org1, lorg)
           A(n) == After(X, sv, org1, lorg, n)
           In == [n \in Nat |-> A(n)]
           F == [p \in Nat \X U |-> CopyStep(p[2], sv)]
           Is(f) == f = [n \in Nat |-> IF n = 0 THEN x ELSE CopyStep(f[n - 1], sv)]
           f == CHOOSE f : Is(f)
           N == Cardinality(Places(sv))
<1>1. Copied(s, sv) = f[N].state
  BY DEF Copied
<1>2. Still(s).state = s /\ Still(s).calls = <<>> /\ Still(s) = [state |-> s, calls |-> <<>>]
  BY DEF Still
<1>3. CopyInv(X, sv, x, org1, lorg)
  <2>1. Still(s).calls # <<>> => Waits(sv, Still(s), 1, id)
    BY <1>2
  <2>2. CopyInv(X, sv, NewObject(Still(s), sv, id), Put(org, Len(Still(s).state.kind) + 1, id), lorg)
    BY <1>2, <2>1, NewObjectKeeps
  <2> QED
    BY <1>2, <2>2
<1>4. o \notin DOMAIN org /\ o \in DOMAIN org1 /\ org1[o] = id /\ Extends(org, org1) /\ Extends(lorg, lorg)
  <2>1. s.kind \in Seq(Kinds) /\ DOMAIN org = Len(X.base.kind) + 1..Len(s.kind)
    BY <1>2 DEF CopyInv, Copies, Heaps, Extent
  <2>2. o \notin DOMAIN org
    BY <2>1
  <2> HIDE DEF o
  <2> QED
    BY <2>2 DEF Put, Extends
<1>5. x \in A(0)
  <2>1. x \in U
    <3>1. Extends(org1, org1) /\ Extends(lorg, lorg)
      BY DEF Extends
    <3>2. x \in Copies
      BY <1>3 DEF CopyInv
    <3> HIDE DEF x, org1
    <3> QED
      BY <1>3, <3>1, <3>2 DEF Begins
  <2>2. Begun(Still(s), sv, id, x)
    <3>1. Still(s) \in Copies
      BY DEF CopyInv
    <3>2. id \in Nat /\ sv.nodes[id].slots \in Seq(SlotSet) /\ sv.nodes[id].type \in Kinds
      <4>1. /\ id \in DOMAIN X.heap.kind /\ sv.nodes[id].slots \in Seq(SlotSet)
            /\ sv.nodes[id].type = X.heap.kind[id]
        BY DEF NodesOK
      <4>2. X.heap.kind \in Seq(Kinds)
        BY DEF SourceOK, Heaps
      <4> QED
        BY <4>1, <4>2, ElementIs
    <3> QED
      BY <1>2, <3>1, <3>2, NewObjectIs
  <2>3. DOMAIN x.calls = {1}
    <3>1. x.calls \in Seq(Calls) /\ Len(x.calls) = Len(<<>>) + 1
      BY <1>2, <1>3, <2>2 DEF Begun, CopyInv, Copies
    <3> HIDE DEF x
    <3> QED
      BY SMTT(30), <3>1
  <2> HIDE DEF x, id
  <2>4. Progress(sv, x, {})
    <3>1. Distinct(x.calls) /\ Fresh(x.calls, {})
      BY <2>3 DEF Distinct, Fresh
    <3> QED
      BY <3>1, FS_EmptySet DEF Progress
  <2> QED
    BY <2>1, <2>4, FS_EmptySet DEF After
<1>6. \A n \in Nat : A(n) \subseteq U
  BY DEF After
<1>7. ASSUME NEW n \in Nat, NEW y \in U
      PROVE  CopyStep(y, sv) \in U /\ (y \in A(n) => CopyStep(y, sv) \in A(n + 1))
  BY AfterStep
<1> HIDE DEF U, A, x
<1>8. F \in [Nat \X U -> U]
  BY <1>7
<1>9. \A n \in Nat : \A y \in In[n] : F[<<n, y>>] \in In[n + 1]
  <2> SUFFICES ASSUME NEW n \in Nat, NEW y \in In[n] PROVE F[<<n, y>>] \in In[n + 1]
    OBVIOUS
  <2>0. y \in A(n) /\ In[n + 1] = A(n + 1)
    OBVIOUS
  <2>1. y \in U /\ <<n, y>> \in Nat \X U
    BY <1>6, <2>0
  <2>2. F[<<n, y>>] = CopyStep(y, sv)
    BY <2>1
  <2> QED
    BY <1>7, <2>0, <2>1, <2>2
<1>10. In \in [Nat -> SUBSET U] /\ x \in In[0]
  BY <1>5, <1>6
<1>11. \A n \in Nat, y \in U : F[<<n, y>>] = CopyStep(y, sv)
  OBVIOUS
<1> HIDE DEF F
<1>12. PICK g : Iterates(g, U, In, x, F)
  <2> HIDE DEF In
  <2> QED
    BY <1>8, <1>9, <1>10, Iteration DEF Iterable
<1>13. g \in [Nat -> U] /\ g[0] = x /\ \A n \in Nat : g[n] \in A(n) /\ g[n + 1] = CopyStep(g[n], sv)
  BY <1>11, <1>12 DEF Iterates
<1>14. Is(g)
  <2>1. ASSUME NEW n \in Nat PROVE g[n] = IF n = 0 THEN x ELSE CopyStep(g[n - 1], sv)
    <3>1. CASE n # 0
      <4>1. n - 1 \in Nat /\ (n - 1) + 1 = n
        BY <3>1
      <4> QED
        BY <1>13, <3>1, <4>1
    <3> QED
      BY <1>13, <3>1
  <2>2. g = [n \in Nat |-> g[n]]
    BY <1>13
  <2> QED
    BY <2>1, <2>2
<1>15. Is(f)
  BY <1>14
<1> HIDE DEF f
<1> DEFINE T == {n \in Nat : f[n] = g[n]}
<1>16. 0 \in T
  BY <1>13, <1>15
<1>17. ASSUME NEW n \in T PROVE n + 1 \in T
  <2>1. n + 1 \in Nat /\ n + 1 # 0 /\ (n + 1) - 1 = n
    OBVIOUS
  <2>2. f[n + 1] = CopyStep(f[n], sv)
    BY <1>15, <2>1
  <2> QED
    BY <1>13, <2>1, <2>2
<1> HIDE DEF T
<1>18. T = Nat
  BY <1>16, <1>17, Induction DEF T
<1>19. N \in Nat
  BY PlacesFinite, FS_CardinalityType
<1>20. f[N] \in A(N)
  BY <1>13, <1>18, <1>19 DEF T
<1>21. ~ Busy(f[N])
  BY <1>20, AfterAll DEF A
<1>22. PICK org2, lorg2 : CopyInv(X, sv, f[N], org2, lorg2) /\ Extends(org1, org2) /\ Extends(lorg, lorg2)
  BY <1>20 DEF A, After, Begins
<1>23. f[N] = Still(Copied(s, sv))
  <2>1. f[N] \in Copies /\ f[N].calls = <<>>
    BY <1>21, <1>22 DEF CopyInv, Busy
  <2> HIDE DEF N
  <2> QED
    BY <1>1, <2>1 DEF Copies, Still
<1>24. Extends(org, org2) /\ o \in DOMAIN org2 /\ org2[o] = id
  <2> HIDE DEF org1, o
  <2> QED
    BY <1>4, <1>22 DEF Extends
<1> HIDE DEF N, org1
<1> QED
  BY <1>22, <1>23, <1>24

----------------------------------------------------------------------------
(* The script's states.                                                    *)

\* A value that is not a wrapper.
Plain(e, v) == v \in Vals /\ v[1] # "col" /\ (v[1] = "obj" => v[2] \in DOMAIN e.kind)

Inner(e, l) == Unwrap(e, e.val[l]).v

SlotsIn(e) == \A o \in DOMAIN e.kind : \A i \in DOMAIN e.slots[o] : e.slots[o][i] \in DOMAIN e.val

\* What an interpreter can hold, whatever the addresses of its cells are.
EngineOK(e) ==
  /\ e \in Heaps /\ Len(e.slots) = Len(e.kind) /\ Len(e.id) = Len(e.val)
  /\ OwnEntries(e) /\ SlotsIn(e)
  /\ \A l \in DOMAIN e.val : Plain(e, Inner(e, l))
  /\ \A l \in DOMAIN e.val : e.val[l][1] = "col" => e.val[l][2] \in DOMAIN e.cols

LEMMA SeqSub ==
  ASSUME NEW A, NEW B, A \subseteq B, NEW q \in Seq(A)
  PROVE  q \in Seq(B)
  OBVIOUS

LEMMA EmptyMap == ASSUME NEW R PROVE <<>> \in Maps(R) /\ DOMAIN <<>> = {}
<1>1. <<>> \in [{} -> R]
  OBVIOUS
<1> QED
  BY <1>1 DEF Maps

LEMMA UnwrapIs ==
  ASSUME NEW e, NEW v
  PROVE  /\ v[1] # "col" => Unwrap(e, v).v = v /\ Unwrap(e, v).collector_id = 0
         /\ v[1] = "col" => /\ Unwrap(e, v).collector_id = v[2]
                            /\ Unwrap(e, v).v = IF e.cols[v[2]] = <<>> THEN Nil ELSE Head(e.cols[v[2]])
  BY DEF Unwrap

LEMMA WellFormedIs ==
  ASSUME NEW s, WellFormed(s)
  PROVE  EngineOK(s)
<1> DEFINE plain == Scalars \union ({"obj"} \X DOMAIN s.kind)
           all == plain \union ({"col"} \X DOMAIN s.cols)
<1>1. /\ s = LuaState(s.kind, s.slots, s.val, s.cols)
      /\ s.kind \in Seq({"function", "table"})
      /\ s.slots \in Seq(Seq(DOMAIN s.val)) /\ Len(s.slots) = Len(s.kind)
      /\ s.val \in Seq(all)
      /\ s.cols \in Seq(Seq(plain))
      /\ OwnEntries(s)
  BY DEF WellFormed, OwnEntries
<1>2. DOMAIN s.kind \subseteq Nat /\ DOMAIN s.val \subseteq Nat /\ DOMAIN s.cols \subseteq Nat
  <2> HIDE DEF plain, all
  <2> QED
    BY <1>1
<1>3. \A v \in plain : Plain(s, v)
  <2>1. ASSUME NEW v \in Scalars PROVE Plain(s, v)
    BY DEF Scalars, Nil, Plain, Vals, Tags
  <2>2. ASSUME NEW v \in {"obj"} \X DOMAIN s.kind PROVE Plain(s, v)
    BY <1>2 DEF Plain, Vals, Tags
  <2> QED
    BY <2>1, <2>2
<1>4. \A v \in all : v \in Vals
  <2>1. ASSUME NEW v \in {"col"} \X DOMAIN s.cols PROVE v \in Vals
    BY <1>2 DEF Vals, Tags
  <2> QED
    BY <1>3, <2>1 DEF Plain
<1>5. \A v \in all : v[1] = "col" => v[2] \in DOMAIN s.cols
  BY <1>3 DEF Plain
<1>6. \A v \in all : v[1] # "col" => v \in plain
  OBVIOUS
<1>7. Plain(s, Nil)
  BY DEF Nil, Plain, Vals, Tags
<1>8. plain \subseteq Vals
  BY <1>3 DEF Plain
<1> HIDE DEF plain, all
<1>9. s.val \in Seq(Vals)
  BY <1>1, <1>4, SeqSub
<1>10. s.slots \in Seq(Seq(Nat))
  <2>1. Seq(DOMAIN s.val) \subseteq Seq(Nat)
    BY <1>2, SeqSub
  <2> QED
    BY <1>1, <2>1, SeqSub
<1>11. s.cols \in Seq(Seq(Vals))
  <2>1. Seq(plain) \subseteq Seq(Vals)
    BY <1>8, SeqSub
  <2> QED
    BY <1>1, <2>1, SeqSub
<1>12. /\ s.id = [l \in DOMAIN s.val |-> l]
       /\ s.object_map = <<>> /\ s.upvalue_map = <<>> /\ s.collector_map = <<>>
       /\ s = [kind |-> s.kind, slots |-> s.slots, val |-> s.val, id |-> s.id, cols |-> s.cols,
               object_map |-> s.object_map, upvalue_map |-> s.upvalue_map,
               collector_map |-> s.collector_map]
  BY <1>1 DEF LuaState
<1>13. s.id \in Seq(Nat) /\ Len(s.id) = Len(s.val)
  <2>1. DOMAIN s.val = 1..Len(s.val) /\ Len(s.val) \in Nat
    BY <1>9
  <2> QED
    BY <1>12, <2>1
<1>14. s \in Heaps
  BY <1>1, <1>9, <1>10, <1>11, <1>12, <1>13, EmptyMap DEF Heaps, Kinds
<1>15. SlotsIn(s)
  <2> SUFFICES ASSUME NEW o \in DOMAIN s.kind, NEW i \in DOMAIN s.slots[o] PROVE s.slots[o][i] \in DOMAIN s.val
    BY DEF SlotsIn
  <2>1. o \in DOMAIN s.slots
    BY <1>1
  <2>2. s.slots[o] \in Seq(DOMAIN s.val)
    BY <1>1, <2>1, ElementIs
  <2> QED
    BY <2>2, ElementIs
<1>16. ASSUME NEW l \in DOMAIN s.val PROVE s.val[l] \in all
  BY <1>1, ElementIs
<1>17. ASSUME NEW l \in DOMAIN s.val PROVE Plain(s, Inner(s, l))
  <2>1. CASE s.val[l][1] # "col"
    BY <1>3, <1>6, <1>16, <2>1, UnwrapIs DEF Inner
  <2>2. CASE s.val[l][1] = "col"
    <3> DEFINE q == s.cols[s.val[l][2]]
    <3>1. q \in Seq(plain)
      BY <1>1, <1>5, <1>16, <2>2, ElementIs
    <3>2. Inner(s, l) = IF q = <<>> THEN Nil ELSE Head(q)
      BY <2>2, UnwrapIs DEF Inner
    <3> HIDE DEF q
    <3>3. q # <<>> => Head(q) \in plain
      BY <3>1, HeadIs
    <3> QED
      BY <1>3, <1>7, <3>2, <3>3
  <2> QED
    BY <2>1, <2>2
<1> QED
  BY <1>1, <1>5, <1>13, <1>14, <1>15, <1>16, <1>17 DEF EngineOK

\* States of the engine between which the script has only assigned numbers
\* or made a function anew.
Lookalike(a, b) ==
  /\ a.kind = b.kind /\ a.slots = b.slots /\ a.cols = b.cols /\ DOMAIN a.val = DOMAIN b.val
  /\ \A l \in DOMAIN a.val : a.val[l] = b.val[l] \/ (a.val[l][1] = "num" /\ b.val[l][1] = "num")

LEMMA LookalikeInner ==
  ASSUME NEW a, NEW b, Lookalike(a, b), NEW l \in DOMAIN a.val
  PROVE  Inner(a, l) = Inner(b, l) \/ (Inner(a, l)[1] = "num" /\ Inner(b, l)[1] = "num")
<1>1. CASE a.val[l] = b.val[l]
  BY <1>1 DEF Inner, Unwrap, Lookalike
<1>2. CASE a.val[l][1] = "num" /\ b.val[l][1] = "num"
  BY <1>2, UnwrapIs DEF Inner
<1> QED
  BY <1>1, <1>2 DEF Lookalike

\* They lead to the same objects and locations.
LEMMA LookalikeReached ==
  ASSUME NEW a, NEW b, Lookalike(a, b), SlotsIn(a)
  PROVE  /\ \A v : Objects(a, v) = Objects(b, v)
         /\ \A o : Reached(a, o) = Reached(b, o)
<1>1. ASSUME NEW o \in DOMAIN a.kind, NEW i \in DOMAIN a.slots[o]
      PROVE  \/ Content(a, o, i) = Content(b, o, i)
             \/ Content(a, o, i)[1] = "num" /\ Content(b, o, i)[1] = "num"
  <2>1. a.slots[o][i] \in DOMAIN a.val
    BY DEF SlotsIn
  <2>2. Content(a, o, i) = Inner(a, a.slots[o][i]) /\ Content(b, o, i) = Inner(b, a.slots[o][i])
    BY DEF Content, Inner, Lookalike
  <2> QED
    BY <2>1, <2>2, LookalikeInner
<1>2. a.kind = b.kind /\ a.slots = b.slots
  BY DEF Lookalike
<1>3. ASSUME NEW T \in SUBSET DOMAIN a.kind PROVE Closed(a, T) <=> Closed(b, T)
  BY <1>1, <1>2 DEF Closed
<1>4. ASSUME NEW v PROVE Objects(a, v) = Objects(b, v)
  <2>1. ASSUME NEW o \in DOMAIN a.kind, NEW T \in SUBSET (DOMAIN a.kind \ {o})
        PROVE  Closed(a, T) <=> Closed(b, T)
    BY <1>3
  <2> QED
    BY <1>2, <2>1 DEF Objects
<1>5. ASSUME NEW o PROVE Reached(a, o) = Reached(b, o)
  BY <1>2, <1>4 DEF Reached
<1> QED
  BY <1>4, <1>5

LEMMA EngineWhole ==
  ASSUME NEW e, EngineOK(e)
  PROVE  Whole(e)
<1> SUFFICES ASSUME NEW o \in DOMAIN e.kind, NEW i \in DOMAIN e.slots[o], Content(e, o, i)[1] = "obj"
             PROVE  Content(e, o, i)[2] \in DOMAIN e.kind
  BY DEF Whole
<1>1. e.slots[o][i] \in DOMAIN e.val
  BY DEF EngineOK, SlotsIn
<1>2. Plain(e, Content(e, o, i))
  BY <1>1 DEF EngineOK, Content, Inner
<1> QED
  BY <1>2 DEF Plain

\* The locations in the slots of what o reaches.
LEMMA ReachedIs ==
  ASSUME NEW e, EngineOK(e), NEW o \in DOMAIN e.kind
  PROVE  /\ o \in Objects(e, Obj(o)) /\ Objects(e, Obj(o)) \subseteq DOMAIN e.kind
         /\ Closed(e, Objects(e, Obj(o)))
         /\ Reached(e, o) \subseteq DOMAIN e.val
         /\ \A p \in Objects(e, Obj(o)) : \A i \in DOMAIN e.slots[p] : e.slots[p][i] \in Reached(e, o)
<1>1. Obj(o)[1] = "obj" /\ Obj(o)[2] = o
  BY DEF Obj
<1>2. /\ o \in Objects(e, Obj(o)) /\ Objects(e, Obj(o)) \subseteq DOMAIN e.kind
      /\ Closed(e, Objects(e, Obj(o)))
  <2> DEFINE v == Obj(o)
  <2> HIDE DEF v
  <2>1. v[1] = "obj" /\ v[2] = o
    BY <1>1 DEF v
  <2>2. o \in Objects(e, v) /\ Objects(e, v) \subseteq DOMAIN e.kind /\ Closed(e, Objects(e, v))
    BY <2>1, EngineWhole, ObjectsClosed
  <2> QED
    BY <2>2 DEF v
<1>3. \A p \in DOMAIN e.kind : \A i \in DOMAIN e.slots[p] : e.slots[p][i] \in DOMAIN e.val
  BY DEF EngineOK, SlotsIn
<1> QED
  BY <1>2, <1>3 DEF Reached

\* The hooks that are set in hk, and the locations they use.
Users(hk) == {h \in DOMAIN hk : hk[h] # None}

Used(hk, sn) == UNION {Reached(sn[h], Func[h]) : h \in Users(hk)}

\* What the serializer noted of the locations that the hooks use.
Src(hk, sn) ==
  [l \in Used(hk, sn) |-> SerializeSlot(sn[CHOOSE h \in Users(hk) : l \in Reached(sn[h], Func[h])], l)]

\* A worker's copy is one of heap i.
Source(i, hk, sn) == [heap |-> i, base |-> EmptyState, src |-> Src(hk, sn)]

\* The hooks that have been registered were serialized from heaps like i, and
\* agree on what they share.
HooksOK(i, hk, sn) ==
  \A h \in Users(hk) :
    /\ EngineOK(sn[h]) /\ sn[h].kind = i.kind /\ sn[h].slots = i.slots
    /\ Func[h] \in DOMAIN i.kind /\ i.kind[Func[h]] = "function"
    /\ hk[h] = SerializeObject(sn[h], Obj(Func[h])) /\ Serializable(sn[h], Obj(Func[h]))
    /\ \A l \in Reached(sn[h], Func[h]) : Src(hk, sn)[l] = SerializeSlot(sn[h], l)

LEMMA SerializeSlotIs ==
  ASSUME NEW e, EngineOK(e), NEW l \in DOMAIN e.val
  PROVE  /\ SerializeSlot(e, l) \in SlotSet
         /\ SerializeSlot(e, l).value = Inner(e, l) /\ SerializeSlot(e, l).id = e.id[l]
         /\ SerializeSlot(e, l).collector_id = IF e.val[l][1] = "col" THEN e.val[l][2] ELSE 0
<1> DEFINE u == Unwrap(e, e.val[l])
<1>1. e \in Heaps /\ Len(e.id) = Len(e.val)
  BY DEF EngineOK
<1>2. e.id \in Seq(Nat) /\ e.val \in Seq(Vals)
  BY <1>1 DEF Heaps
<1>3. l \in DOMAIN e.id
  BY <1>1, <1>2
<1>4. e.id[l] \in Nat /\ e.val[l] \in Vals
  BY <1>2, <1>3, ElementIs
<1>5. u.v \in Vals
  BY DEF EngineOK, Plain, Inner
<1>6. u.collector_id = IF e.val[l][1] = "col" THEN e.val[l][2] ELSE 0
  BY UnwrapIs
<1>7. e.val[l][2] \in Nat
  BY <1>4 DEF Vals
<1>8. SerializeSlot(e, l) = [id |-> e.id[l], collector_id |-> u.collector_id, value |-> u.v]
  BY DEF SerializeSlot
<1> HIDE DEF u
<1>9. u.collector_id \in Nat
  BY <1>6, <1>7
<1>10. SerializeSlot(e, l) \in SlotSet
  BY <1>4, <1>5, <1>8, <1>9 DEF SlotSet
<1> QED
  BY <1>6, <1>8, <1>10 DEF Inner, u

\* Serialized from e, with what src says of e's locations.
LEMMA NodesAre ==
  ASSUME NEW e, EngineOK(e), NEW v, v[1] = "obj", v[2] \in DOMAIN e.kind,
         Serializable(e, v), NEW X,
         X.heap.kind = e.kind, X.heap.slots = e.slots,
         \A o \in Objects(e, v) : \A i \in DOMAIN e.slots[o] :
           e.slots[o][i] \in DOMAIN X.src /\ X.src[e.slots[o][i]] = SerializeSlot(e, e.slots[o][i])
  PROVE  /\ NodesOK(X, SerializeObject(e, v)) /\ NoEndless(SerializeObject(e, v))
         /\ SerializeObject(e, v).v = v /\ v[2] \in DOMAIN SerializeObject(e, v).nodes
<1> DEFINE sv == SerializeObject(e, v)
           N == Objects(e, v)
<1>1. N \subseteq DOMAIN e.kind /\ Closed(e, N) /\ v[2] \in N
  BY EngineWhole, ObjectsClosed
<1>2. /\ sv.v = v /\ DOMAIN sv.nodes = N
      /\ \A o \in N : /\ sv.nodes[o].type = e.kind[o]
                      /\ sv.nodes[o].slots = [i \in DOMAIN e.slots[o] |-> SerializeSlot(e, e.slots[o][i])]
  BY DEF SerializeObject
<1> HIDE DEF sv, N
<1>3. ASSUME NEW o \in N, NEW i \in DOMAIN e.slots[o]
      PROVE  /\ sv.nodes[o].slots[i] = SerializeSlot(e, e.slots[o][i])
             /\ SerializeSlot(e, e.slots[o][i]) \in SlotSet
             /\ sv.nodes[o].slots[i].value = Content(e, o, i)
  <2>1. e.slots[o][i] \in DOMAIN e.val
    BY <1>1 DEF EngineOK, SlotsIn
  <2>2. /\ SerializeSlot(e, e.slots[o][i]) \in SlotSet
        /\ SerializeSlot(e, e.slots[o][i]).value = Inner(e, e.slots[o][i])
    BY <2>1, SerializeSlotIs
  <2> QED
    BY <1>2, <2>2 DEF Inner, Content
<1>4. ASSUME NEW o \in N
      PROVE  sv.nodes[o].slots \in Seq(SlotSet) /\ DOMAIN sv.nodes[o].slots = DOMAIN e.slots[o]
  <2>1. e.slots \in Seq(Seq(Nat)) /\ e.kind \in Seq(Kinds) /\ Len(e.slots) = Len(e.kind)
    BY DEF EngineOK, Heaps
  <2>2. o \in DOMAIN e.slots
    BY <1>1, <2>1
  <2>3. e.slots[o] \in Seq(Nat)
    BY <2>1, <2>2, ElementIs
  <2> DEFINE q == sv.nodes[o].slots
             n == Len(e.slots[o])
  <2>4. n \in Nat /\ DOMAIN e.slots[o] = 1..n
    BY <2>3
  <2>5. q = [i \in 1..n |-> SerializeSlot(e, e.slots[o][i])]
    BY <1>2, <2>4
  <2>6. \A i \in 1..n : SerializeSlot(e, e.slots[o][i]) \in SlotSet
    BY <1>3, <2>4
  <2> HIDE DEF q, n
  <2>7. q \in Seq(SlotSet) /\ DOMAIN q = 1..n
    BY <2>4, <2>5, <2>6
  <2> QED
    BY <2>4, <2>7 DEF q
<1>5. ASSUME NEW o \in N, NEW i \in DOMAIN e.slots[o], Content(e, o, i)[1] = "obj"
      PROVE  Content(e, o, i)[2] \in N
  BY <1>1, <1>5 DEF Closed
<1>6. NodesOK(X, sv)
  <2> SUFFICES ASSUME NEW o \in N
               PROVE  /\ o \in DOMAIN X.heap.kind
                      /\ sv.nodes[o].type = X.heap.kind[o]
                      /\ sv.nodes[o].slots \in Seq(SlotSet)
                      /\ DOMAIN sv.nodes[o].slots = DOMAIN X.heap.slots[o]
                      /\ \A i \in DOMAIN X.heap.slots[o] :
                           /\ X.heap.slots[o][i] \in DOMAIN X.src
                           /\ sv.nodes[o].slots[i] = X.src[X.heap.slots[o][i]]
                           /\ sv.nodes[o].slots[i].value[1] = "obj" =>
                              sv.nodes[o].slots[i].value[2] \in DOMAIN sv.nodes
    BY <1>2 DEF NodesOK
  <2>1. ASSUME NEW i \in DOMAIN e.slots[o]
        PROVE  /\ e.slots[o][i] \in DOMAIN X.src
               /\ sv.nodes[o].slots[i] = X.src[e.slots[o][i]]
               /\ sv.nodes[o].slots[i].value[1] = "obj" => sv.nodes[o].slots[i].value[2] \in N
    <3>1. e.slots[o][i] \in DOMAIN X.src /\ X.src[e.slots[o][i]] = SerializeSlot(e, e.slots[o][i])
      BY DEF N
    <3>2. sv.nodes[o].slots[i] = SerializeSlot(e, e.slots[o][i])
          /\ sv.nodes[o].slots[i].value = Content(e, o, i)
      BY <1>3
    <3> QED
      BY <1>5, <3>1, <3>2
  <2> QED
    BY <1>1, <1>2, <1>4, <2>1
<1>7. NoEndless(sv)
  <2> SUFFICES ASSUME NEW T \in SUBSET N,
                      \A o \in T : \E i \in DOMAIN sv.nodes[o].slots :
                        sv.nodes[o].slots[i].value[1] = "obj" /\ sv.nodes[o].slots[i].value[2] \in T
               PROVE  T = {}
    BY <1>2 DEF NoEndless
  <2>1. Endless(e, T)
    <3> SUFFICES ASSUME NEW o \in T
                 PROVE  \E i \in DOMAIN e.slots[o] : Content(e, o, i)[1] = "obj" /\ Content(e, o, i)[2] \in T
      BY DEF Endless
    <3>1. PICK i \in DOMAIN sv.nodes[o].slots :
                 sv.nodes[o].slots[i].value[1] = "obj" /\ sv.nodes[o].slots[i].value[2] \in T
      OBVIOUS
    <3>2. i \in DOMAIN e.slots[o] /\ sv.nodes[o].slots[i].value = Content(e, o, i)
      BY <1>3, <1>4
    <3> QED
      BY <3>1, <3>2
  <2>2. \A S \in SUBSET Objects(e, v) : Endless(e, S) => S = {}
    BY DEF Serializable
  <2> QED
    BY <2>1, <2>2 DEF N
<1> QED
  BY <1>1, <1>2, <1>6, <1>7 DEF sv

\* A hook can be copied into a worker's state.
HookOK(X, sv, f) ==
  /\ NodesOK(X, sv) /\ NoEndless(sv) /\ sv.v[2] = f /\ f \in DOMAIN sv.nodes
  /\ X.heap.kind[f] = "function"

LEMMA HookIs ==
  ASSUME NEW i, NEW hk, NEW sn, HooksOK(i, hk, sn), NEW h \in Users(hk)
  PROVE  HookOK(Source(i, hk, sn), hk[h], Func[h])
<1> DEFINE X == Source(i, hk, sn)
           e == sn[h]
           v == Obj(Func[h])
<1>1. /\ EngineOK(e) /\ e.kind = i.kind /\ e.slots = i.slots
      /\ Func[h] \in DOMAIN e.kind /\ i.kind[Func[h]] = "function"
      /\ hk[h] = SerializeObject(e, v) /\ Serializable(e, v)
      /\ \A l \in Reached(e, Func[h]) : Src(hk, sn)[l] = SerializeSlot(e, l)
  BY DEF HooksOK
<1>2. X.heap = i /\ X.src = Src(hk, sn) /\ DOMAIN X.src = Used(hk, sn)
  BY DEF Source, Src
<1>3. Reached(e, Func[h]) \subseteq Used(hk, sn)
  BY DEF Used
<1>4. v[1] = "obj" /\ v[2] = Func[h]
  BY DEF Obj
<1> HIDE DEF X
<1>5. ASSUME NEW o \in Objects(e, v), NEW k \in DOMAIN e.slots[o]
      PROVE  e.slots[o][k] \in DOMAIN X.src /\ X.src[e.slots[o][k]] = SerializeSlot(e, e.slots[o][k])
  <2>1. e.slots[o][k] \in Reached(e, Func[h])
    BY <1>1, ReachedIs
  <2> QED
    BY <1>1, <1>2, <1>3, <2>1
<1> HIDE DEF e, v
<1>6. /\ NodesOK(X, SerializeObject(e, v)) /\ NoEndless(SerializeObject(e, v))
      /\ SerializeObject(e, v).v = v /\ v[2] \in DOMAIN SerializeObject(e, v).nodes
  BY <1>1, <1>2, <1>4, <1>5, NodesAre
<1> QED
  BY <1>1, <1>2, <1>4, <1>6 DEF HookOK, X

----------------------------------------------------------------------------
(* A worker's state between two calls of hooks.                            *)

LEMMA StillIs == ASSUME NEW s PROVE Still(s).state = s /\ Still(s).calls = <<>> /\ DOMAIN Still(s).calls = {}
  BY DEF Still

LEMMA NothingPending == ASSUME NEW s, NEW d, NEW i PROVE ~ Pending(Still(s).calls, d, i)
  BY StillIs DEF Pending

LEMMA StillAny ==
  ASSUME NEW X, NEW sv, NEW sw, NEW s, NEW org, NEW lorg, CopyInv(X, sv, Still(s), org, lorg)
  PROVE  CopyInv(X, sw, Still(s), org, lorg)
<1>1. CallsOK(sw, Still(s), org) /\ CallsNested(sw, Still(s))
  BY StillIs DEF CallsOK, CallsNested
<1> QED
  BY <1>1 DEF CopyInv

LEMMA StillMirrors ==
  ASSUME NEW X, NEW sv, NEW s, NEW org, NEW lorg, CopyInv(X, sv, Still(s), org, lorg)
  PROVE  Mirrors(X.heap, s, org, lorg)
<1> USE DEF CopyInv
<1>1. ASSUME NEW d \in DOMAIN org
      PROVE  /\ s.kind[d] = X.heap.kind[org[d]]
             /\ DOMAIN s.slots[d] = DOMAIN X.heap.slots[org[d]]
             /\ \A i \in DOMAIN s.slots[d] :
                  s.slots[d][i] \in DOMAIN lorg /\ lorg[s.slots[d][i]] = X.heap.slots[org[d]][i]
  <2>1. s.kind[d] = X.heap.kind[org[d]] /\ DOMAIN s.slots[d] = DOMAIN X.heap.slots[org[d]]
    BY StillIs DEF Origins
  <2>2. \A i \in DOMAIN s.slots[d] :
          s.slots[d][i] \in DOMAIN lorg /\ lorg[s.slots[d][i]] = X.heap.slots[org[d]][i]
    <3> SUFFICES ASSUME NEW i \in DOMAIN s.slots[d]
                 PROVE  s.slots[d][i] \in DOMAIN lorg /\ lorg[s.slots[d][i]] = X.heap.slots[org[d]][i]
      OBVIOUS
    <3>1. ~ Pending(Still(s).calls, d, i)
      BY NothingPending
    <3>2. SlotsSet(X, Still(s), org, lorg)
      OBVIOUS
    <3> HIDE DEF CopyInv
    <3> QED
      BY <3>1, <3>2, StillIs DEF SlotsSet
  <2> QED
    BY <2>1, <2>2
<1>2. \A x, y \in DOMAIN lorg : lorg[x] = lorg[y] => x = y
  BY DEF OneToOne
<1>3. \A x \in DOMAIN lorg : Agree(org, X.heap.val[lorg[x]], s.val[x])
  BY StillIs DEF ValuesAgree
<1> QED
  BY <1>1, <1>2, <1>3 DEF Mirrors

LEMMA StoreIs ==
  ASSUME NEW s \in Heaps, NEW l \in DOMAIN s.val, NEW v \in Vals
  PROVE  /\ Store(s, l, v) \in Heaps
         /\ Store(s, l, v).kind = s.kind /\ Store(s, l, v).slots = s.slots
         /\ Store(s, l, v).id = s.id /\ Store(s, l, v).cols = s.cols
         /\ Store(s, l, v).object_map = s.object_map
         /\ Store(s, l, v).upvalue_map = s.upvalue_map
         /\ Store(s, l, v).collector_map = s.collector_map
         /\ DOMAIN Store(s, l, v).val = DOMAIN s.val /\ Len(Store(s, l, v).val) = Len(s.val)
         /\ Store(s, l, v).val[l] = v
         /\ \A k \in DOMAIN s.val : k # l => Store(s, l, v).val[k] = s.val[k]
<1> DEFINE q == [s.val EXCEPT ![l] = v]
<1>1. s.val \in Seq(Vals)
  BY DEF Heaps
<1>2. /\ q \in Seq(Vals) /\ DOMAIN q = DOMAIN s.val /\ Len(q) = Len(s.val)
      /\ q[l] = v /\ \A k \in DOMAIN s.val : k # l => q[k] = s.val[k]
  BY <1>1, ReplacedIs
<1>3. Store(s, l, v) = [s EXCEPT !.val = q]
  BY DEF Store, Heaps
<1> HIDE DEF q
<1> QED
  BY <1>2, <1>3 DEF Heaps

\* A hook stores v in its copy x of a location and its ideal in the location.
LEMMA StoreKeeps ==
  ASSUME NEW X, NEW sv, NEW s, NEW org, NEW lorg, SourceOK(X), CopyInv(X, sv, Still(s), org, lorg),
         NEW x \in DOMAIN lorg, NEW v \in Vals, NEW w \in Vals, Agree(org, v, w),
         NEW Y, Y.base = X.base, Y.src = X.src, Y.heap = Store(X.heap, lorg[x], v)
  PROVE  SourceOK(Y) /\ CopyInv(Y, sv, Still(Store(s, x, w)), org, lorg)
<1> USE DEF CopyInv
<1> DEFINE l == lorg[x]
           t == Store(s, x, w)
           k == Store(X.heap, l, v)
<1>1. s \in Heaps /\ X.heap \in Heaps
  BY StillIs DEF Copies, SourceOK
<1>2. x \in DOMAIN s.val /\ \A y \in DOMAIN lorg : y \in DOMAIN s.val
  <2>1. s.val \in Seq(Vals) /\ X.base.val \in Seq(Vals)
    BY <1>1 DEF Heaps, SourceOK
  <2>2. DOMAIN lorg = Len(X.base.val) + 1..Len(s.val)
    BY StillIs DEF Extent
  <2>3. Len(X.base.val) \in Nat /\ Len(s.val) \in Nat /\ DOMAIN s.val = 1..Len(s.val)
    BY <2>1
  <2> QED
    BY <2>2, <2>3
<1>3. l \in DOMAIN X.src /\ \A y \in DOMAIN lorg : lorg[y] \in DOMAIN X.src
  BY DEF Origins
<1>4. DOMAIN X.src \subseteq DOMAIN X.heap.val
  BY DEF SourceOK
<1>5. /\ t \in Heaps /\ t.kind = s.kind /\ t.slots = s.slots /\ t.id = s.id /\ t.cols = s.cols
      /\ t.object_map = s.object_map /\ t.upvalue_map = s.upvalue_map
      /\ t.collector_map = s.collector_map
      /\ DOMAIN t.val = DOMAIN s.val /\ Len(t.val) = Len(s.val)
      /\ t.val[x] = w /\ \A y \in DOMAIN s.val : y # x => t.val[y] = s.val[y]
  BY <1>1, <1>2, StoreIs
<1>6. /\ k \in Heaps /\ k.kind = X.heap.kind /\ k.slots = X.heap.slots
      /\ DOMAIN k.val = DOMAIN X.heap.val
      /\ k.val[l] = v /\ \A m \in DOMAIN X.heap.val : m # l => k.val[m] = X.heap.val[m]
  <2> HIDE DEF l
  <2> QED
    BY <1>1, <1>3, <1>4, StoreIs
<1>7. Y.heap = k
  OBVIOUS
<1> HIDE DEF t, k, l
<1>8. SourceOK(Y)
  BY <1>6, <1>7 DEF SourceOK, OwnEntries
<1>9. Still(t) \in Copies
  BY <1>5 DEF Still, Copies
<1>10. Extent(Y, t, org, lorg)
  BY <1>5, StillIs DEF Extent
<1>11. Origins(Y, t, org, lorg)
  BY <1>5, <1>6, <1>7, StillIs DEF Origins
<1>12. SlotsSet(Y, Still(t), org, lorg)
  BY <1>5, <1>6, <1>7, StillIs, NothingPending DEF SlotsSet
<1>13. ValuesAgree(Y, t, org, lorg)
  <2> SUFFICES ASSUME NEW y \in DOMAIN lorg PROVE Agree(org, k.val[lorg[y]], t.val[y])
    BY <1>7 DEF ValuesAgree
  <2>1. CASE y = x
    BY <1>5, <1>6, <2>1 DEF l
  <2>2. CASE y # x
    <3>1. lorg[y] # l
      BY <2>2 DEF OneToOne, l
    <3>2. k.val[lorg[y]] = X.heap.val[lorg[y]] /\ t.val[y] = s.val[y]
      BY <1>2, <1>3, <1>4, <1>5, <1>6, <2>2, <3>1
    <3> QED
      BY <3>2, StillIs DEF ValuesAgree
  <2> QED
    BY <2>1, <2>2
<1>14. ObjectMap(t, org) /\ TablesOnce(Y, org)
  BY <1>5, <1>6, <1>7, StillIs DEF ObjectMap, TablesOnce
<1>15. \A m : IsSet(Still(s), org, m) => IsSet(Still(t), org, m)
  BY <1>5, StillIs DEF IsSet
<1>16. UpvalueMap(Y, Still(t), org, lorg)
  <2>1. ASSUME NEW u \in DOMAIN s.upvalue_map
        PROVE  /\ IsSet(Still(t), org, s.upvalue_map[u])
               /\ X.src[lorg[s.slots[s.upvalue_map[u].object][s.upvalue_map[u].number]]].id = u
    <3> DEFINE q == s.upvalue_map[u]
    <3>1. IsSet(Still(s), org, q) /\ X.src[lorg[s.slots[q.object][q.number]]].id = u
      BY Zenon, StillIs DEF UpvalueMap
    <3> HIDE DEF q
    <3>2. IsSet(Still(t), org, q) /\ X.src[lorg[s.slots[q.object][q.number]]].id = u
      BY <1>15, <3>1
    <3> QED
      BY Zenon, <3>2 DEF q
  <2>2. Still(t).state = t /\ t.upvalue_map = s.upvalue_map /\ t.slots = s.slots /\ Y.src = X.src
    BY <1>5, StillIs
  <2> QED
    BY ZenonT(30), <2>1, <2>2 DEF UpvalueMap
<1>17. CollectorMap(Y, Still(t), org, lorg)
  <2>1. ASSUME NEW u \in DOMAIN s.collector_map
        PROVE  /\ IsSet(Still(t), org, s.collector_map[u])
               /\ X.src[lorg[s.slots[s.collector_map[u].object][s.collector_map[u].number]]].collector_id = u
    <3> DEFINE q == s.collector_map[u]
    <3>1. IsSet(Still(s), org, q) /\ X.src[lorg[s.slots[q.object][q.number]]].collector_id = u
      BY Zenon, StillIs DEF CollectorMap
    <3> HIDE DEF q
    <3>2. IsSet(Still(t), org, q) /\ X.src[lorg[s.slots[q.object][q.number]]].collector_id = u
      BY <1>15, <3>1
    <3> QED
      BY Zenon, <3>2 DEF q
  <2>2. \A y \in DOMAIN lorg :
          X.src[lorg[y]].collector_id # 0 => X.src[lorg[y]].collector_id \in DOMAIN t.collector_map
    BY Zenon, <1>5, StillIs DEF CollectorMap
  <2>3. Still(t).state = t /\ t.collector_map = s.collector_map /\ t.slots = s.slots /\ Y.src = X.src
    BY <1>5, StillIs
  <2> QED
    BY ZenonT(30), <2>1, <2>2, <2>3 DEF CollectorMap
<1>18. Holders(Y, Still(t), org, lorg)
  BY <1>5, StillIs DEF Holders
<1>19. Untouched(Y, lorg)
  <2> SUFFICES ASSUME NEW m \in DOMAIN X.src, \A y \in DOMAIN lorg : lorg[y] # m
               PROVE  k.val[m] = X.src[m].value
    BY <1>7 DEF Untouched
  <2>1. m # l
    BY DEF l
  <2> QED
    BY <1>4, <1>6, <2>1 DEF Untouched
<1>20. SourceReached(Y, org, lorg)
  BY DEF SourceReached
<1>21. CallsOK(sv, Still(t), org) /\ CallsNested(sv, Still(t))
  BY StillIs DEF CallsOK, CallsNested
<1>22. Kept(Y.base, t)
  <2> SUFFICES ASSUME NEW y \in DOMAIN X.base.val PROVE t.val[y] = s.val[y]
    BY <1>5, StillIs DEF Kept
  <2>1. X.base.val \in Seq(Vals) /\ s.val \in Seq(Vals) /\ Len(X.base.val) <= Len(s.val)
    BY <1>1, StillIs DEF Heaps, SourceOK, Extent
  <2>2. DOMAIN lorg = Len(X.base.val) + 1..Len(s.val)
    BY StillIs DEF Extent
  <2>3. y \in DOMAIN s.val /\ y # x
    BY <2>1, <2>2
  <2> QED
    BY <1>5, <2>3
<1> QED
  BY <1>8, <1>9, <1>10, <1>11, <1>12, <1>13, <1>14, <1>16, <1>17, <1>18, <1>19, <1>20, <1>21, <1>22, StillIs
     DEF t

LEMMA EmptyIs ==
  /\ EmptyState \in Heaps
  /\ EmptyState.kind = <<>> /\ EmptyState.slots = <<>> /\ EmptyState.val = <<>> /\ EmptyState.cols = <<>>
  /\ EmptyState.object_map = <<>> /\ EmptyState.upvalue_map = <<>> /\ EmptyState.collector_map = <<>>
  /\ DOMAIN EmptyState.id = {} /\ Len(EmptyState.id) = 0 /\ Len(EmptyState.val) = 0
  /\ Len(EmptyState.kind) = 0 /\ Len(EmptyState.slots) = 0
<1> DEFINE q == [l \in DOMAIN <<>> |-> l]
<1>1. EmptyState = [kind |-> <<>>, slots |-> <<>>, val |-> <<>>, id |-> q, cols |-> <<>>,
                    object_map |-> <<>>, upvalue_map |-> <<>>, collector_map |-> <<>>]
  BY DEF EmptyState, LuaState
<1>2. q \in [1..0 -> Nat] /\ DOMAIN q = {}
  OBVIOUS
<1>3. q \in Seq(Nat) /\ Len(q) = 0
  BY <1>2
<1>4. /\ <<>> \in Seq(Kinds) /\ <<>> \in Seq(Seq(Nat)) /\ <<>> \in Seq(Vals) /\ <<>> \in Seq(Seq(Vals))
      /\ Len(<<>>) = 0
  OBVIOUS
<1>5. <<>> \in Maps(Nat) /\ <<>> \in Maps(Where)
  BY EmptyMap
<1> HIDE DEF q
<1> QED
  BY <1>1, <1>2, <1>3, <1>4, <1>5 DEF Heaps

\* A worker's state before it has loaded a hook.
LEMMA EmptyStart ==
  ASSUME NEW X, NEW sv, X.base = EmptyState,
         \A l \in DOMAIN X.src : X.heap.val[l] = X.src[l].value
  PROVE  CopyInv(X, sv, Still(EmptyState), <<>>, <<>>)
<1> DEFINE s == EmptyState
<1>1. DOMAIN <<>> = {}
  OBVIOUS
<1>2. Still(s) \in Copies
  BY EmptyIs DEF Still, Copies
<1>3. Extent(X, s, <<>>, <<>>)
  BY EmptyIs DEF Extent
<1>4. Kept(X.base, s)
  BY DEF Kept
<1>5. ObjectMap(s, <<>>)
  BY <1>1, EmptyIs DEF ObjectMap
<1>6. UpvalueMap(X, Still(s), <<>>, <<>>) /\ CollectorMap(X, Still(s), <<>>, <<>>)
  BY Zenon, <1>1, EmptyIs, StillIs DEF UpvalueMap, CollectorMap
<1>7. CallsOK(sv, Still(s), <<>>) /\ CallsNested(sv, Still(s))
  BY StillIs DEF CallsOK, CallsNested
<1>8. Untouched(X, <<>>)
  BY DEF Untouched
<1> HIDE DEF s
<1>9. /\ Origins(X, s, <<>>, <<>>) /\ SlotsSet(X, Still(s), <<>>, <<>>) /\ OneToOne(<<>>)
      /\ ValuesAgree(X, s, <<>>, <<>>) /\ TablesOnce(X, <<>>) /\ Holders(X, Still(s), <<>>, <<>>)
      /\ SourceReached(X, <<>>, <<>>)
  BY <1>1 DEF Origins, SlotsSet, OneToOne, ValuesAgree, TablesOnce, Holders, SourceReached
<1> QED
  BY <1>2, <1>3, <1>4, <1>5, <1>6, <1>7, <1>8, <1>9, StillIs DEF CopyInv, s

----------------------------------------------------------------------------
(* What holds of a worker.                                                 *)

\* The registered hooks agree on the values and the addresses of what they use.
Quiet(hk, sn) ==
  /\ \A g, h \in Users(hk) : \A l \in Reached(sn[g], Func[g]) \intersect Reached(sn[h], Func[h]) :
       sn[g].val[l] = sn[h].val[l]
  /\ \A g, h \in Users(hk) : \A l \in Reached(sn[g], Func[g]), m \in Reached(sn[h], Func[h]) :
       sn[g].id[l] = sn[h].id[m] => l = m

NoWrappers(e) == \A l \in DOMAIN e.val : e.val[l][1] # "col"

\* The hooks that have been loaded are copies of their functions.
KeysOK(k, hk, org) ==
  \A h \in Hooks : k[h] # 0 => h \in Users(hk) /\ k[h] \in DOMAIN org /\ org[k[h]] = Func[h]

\* State s of a worker that has the hooks k mirrors its private copy i.
ThreadInv(i, s, k, hk, sn) ==
  /\ EngineOK(i) /\ NoWrappers(i)
  /\ SourceOK(Source(i, hk, sn)) /\ HooksOK(i, hk, sn)
  /\ \E org, lorg : CopyInv(Source(i, hk, sn), None, Still(s), org, lorg) /\ KeysOK(k, hk, org)

LEMMA SourceIs ==
  ASSUME NEW i, NEW hk, NEW sn
  PROVE  /\ Source(i, hk, sn).heap = i /\ Source(i, hk, sn).base = EmptyState
         /\ Source(i, hk, sn).src = Src(hk, sn) /\ DOMAIN Src(hk, sn) = Used(hk, sn)
  BY DEF Source, Src

LEMMA CopyHeaps ==
  ASSUME NEW X, NEW sv, NEW s, NEW org, NEW lorg, CopyInv(X, sv, Still(s), org, lorg)
  PROVE  s \in Heaps /\ Len(s.kind) \in Nat
<1>1. s \in Heaps
  BY StillIs DEF CopyInv, Copies
<1> QED
  BY <1>1 DEF Heaps

\* load_hook
LEMMA LoadKeeps ==
  ASSUME NEW i, NEW s, NEW hk, NEW sn, NEW org, NEW lorg, NEW h \in Users(hk),
         SourceOK(Source(i, hk, sn)), HooksOK(i, hk, sn),
         CopyInv(Source(i, hk, sn), None, Still(s), org, lorg)
  PROVE  \E org2, lorg2 :
           /\ CopyInv(Source(i, hk, sn), None, Still(DeserializeFunction(s, hk[h])), org2, lorg2)
           /\ Extends(org, org2)
           /\ Len(s.kind) + 1 \in DOMAIN org2 /\ org2[Len(s.kind) + 1] = Func[h]
<1> DEFINE X == Source(i, hk, sn)
           sv == hk[h]
<1> HIDE DEF X, sv
<1>1. HookOK(X, sv, Func[h])
  BY HookIs DEF X, sv
<1>2. CopyInv(X, sv, Still(s), org, lorg)
  BY StillAny DEF X
<1>3. /\ SourceOK(X) /\ NodesOK(X, sv) /\ NoEndless(sv) /\ sv.v[2] \in DOMAIN sv.nodes
      /\ sv.v[2] = Func[h] /\ X.heap.kind[sv.v[2]] # "table"
  BY <1>1 DEF HookOK, X
<1>4. PICK org2, lorg2 :
        /\ CopyInv(X, sv, Still(Copied(s, sv)), org2, lorg2)
        /\ Extends(org, org2) /\ Extends(lorg, lorg2)
        /\ Len(s.kind) + 1 \in DOMAIN org2 /\ org2[Len(s.kind) + 1] = sv.v[2]
  BY <1>2, <1>3, CopiedKeeps
<1>5. CopyInv(X, None, Still(DeserializeFunction(s, sv)), org2, lorg2)
  BY <1>4, StillAny DEF DeserializeFunction
<1> QED
  BY <1>3, <1>4, <1>5 DEF X, sv

\* push_hook: s and k before, t and kk after it.
Pushed(s, k, sv, h, t, kk) ==
  /\ t = IF k[h] # 0 THEN s ELSE DeserializeFunction(s, sv)
  /\ kk[h] = IF k[h] # 0 THEN k[h] ELSE Len(s.kind) + 1
  /\ \A g \in Hooks : g # h => kk[g] = k[g]

LEMMA PushKeeps ==
  ASSUME NEW i, NEW s, NEW k, NEW hk, NEW sn, NEW h \in Users(hk), h \in Hooks,
         ThreadInv(i, s, k, hk, sn), NEW t, NEW kk, Pushed(s, k, hk[h], h, t, kk)
  PROVE  /\ \E org, lorg : /\ CopyInv(Source(i, hk, sn), None, Still(t), org, lorg)
                           /\ KeysOK(kk, hk, org)
                           /\ kk[h] \in DOMAIN org /\ org[kk[h]] = Func[h]
         /\ ThreadInv(i, t, kk, hk, sn)
<1>1. PICK org, lorg : CopyInv(Source(i, hk, sn), None, Still(s), org, lorg) /\ KeysOK(k, hk, org)
  BY DEF ThreadInv
<1>2. CASE k[h] # 0
  <2>1. t = s /\ \A g \in Hooks : kk[g] = k[g]
    BY <1>2 DEF Pushed
  <2>2. KeysOK(kk, hk, org) /\ kk[h] \in DOMAIN org /\ org[kk[h]] = Func[h]
    BY <1>1, <1>2, <2>1 DEF KeysOK
  <2> QED
    BY <1>1, <2>1, <2>2 DEF ThreadInv
<1>3. CASE k[h] = 0
  <2>1. t = DeserializeFunction(s, hk[h])
    BY <1>3 DEF Pushed
  <2>a. SourceOK(Source(i, hk, sn)) /\ HooksOK(i, hk, sn)
    BY DEF ThreadInv
  <2>b. \E org2, lorg2 :
           /\ CopyInv(Source(i, hk, sn), None, Still(DeserializeFunction(s, hk[h])), org2, lorg2)
           /\ Extends(org, org2)
           /\ Len(s.kind) + 1 \in DOMAIN org2 /\ org2[Len(s.kind) + 1] = Func[h]
    BY <1>1, <2>a, LoadKeeps
  <2>2. PICK org2, lorg2 :
           /\ CopyInv(Source(i, hk, sn), None, Still(t), org2, lorg2)
           /\ Extends(org, org2)
           /\ Len(s.kind) + 1 \in DOMAIN org2 /\ org2[Len(s.kind) + 1] = Func[h]
    BY <2>1, <2>b
  <2>3. kk[h] = Len(s.kind) + 1 /\ \A g \in Hooks : g # h => kk[g] = k[g]
    BY <1>3 DEF Pushed
  <2>4. KeysOK(kk, hk, org2)
    BY <1>1, <2>2, <2>3 DEF KeysOK, Extends
  <2>5. ThreadInv(i, t, kk, hk, sn)
    BY <2>2, <2>4 DEF ThreadInv
  <2> QED
    BY <2>2, <2>3, <2>4, <2>5
<1> QED
  BY <1>2, <1>3

\* The locations that a hook can name are copies of those in the private copy.
LEMMA VarsAre ==
  ASSUME NEW X, NEW sv, NEW s, NEW org, NEW lorg, SourceOK(X), CopyInv(X, sv, Still(s), org, lorg),
         NEW d \in DOMAIN org
  PROVE  \A p \in SameNames(X.heap, s, Matched(X.heap, s, {<<org[d], d>>})) :
           p[2] \in DOMAIN lorg /\ p[1] = lorg[p[2]]
<1>1. Mirrors(X.heap, s, org, lorg)
  BY StillMirrors
<1>2. Len(X.heap.kind) \in Nat /\ Len(s.kind) \in Nat
  BY CopyHeaps DEF SourceOK, Heaps
<1>3. {<<org[d], d>>} \in SUBSET Pairs(org)
  BY DEF Pairs
<1> QED
  BY <1>1, <1>2, <1>3, MirrorsAlike

LEMMA StoreEngine ==
  ASSUME NEW i, EngineOK(i), NEW l \in DOMAIN i.val, NEW v, Plain(i, v)
  PROVE  EngineOK(Store(i, l, v)) /\ (NoWrappers(i) => NoWrappers(Store(i, l, v)))
<1> DEFINE t == Store(i, l, v)
<1>1. i \in Heaps /\ v \in Vals
  BY DEF EngineOK, Plain
<1>2. /\ t \in Heaps /\ t.kind = i.kind /\ t.slots = i.slots /\ t.id = i.id /\ t.cols = i.cols
      /\ DOMAIN t.val = DOMAIN i.val /\ Len(t.val) = Len(i.val)
      /\ t.val[l] = v /\ \A k \in DOMAIN i.val : k # l => t.val[k] = i.val[k]
  BY <1>1, StoreIs
<1> HIDE DEF t
<1>3. ASSUME NEW m \in DOMAIN i.val PROVE Plain(t, Inner(t, m))
  <2>1. CASE m = l
    BY <1>2, <2>1, UnwrapIs DEF Inner, Plain
  <2>2. CASE m # l
    <3>1. Inner(t, m) = Inner(i, m)
      BY <1>2, <2>2 DEF Inner, Unwrap
    <3>2. Plain(i, Inner(i, m))
      BY DEF EngineOK
    <3> QED
      BY <1>2, <3>1, <3>2 DEF Plain
  <2> QED
    BY <2>1, <2>2
<1>4. ASSUME NEW m \in DOMAIN i.val, t.val[m][1] = "col" PROVE m # l /\ t.val[m] = i.val[m]
  BY <1>2, <1>4 DEF Plain
<1>5. OwnEntries(t) /\ SlotsIn(t)
  BY <1>2 DEF EngineOK, OwnEntries, SlotsIn
<1>6. EngineOK(t)
  BY <1>2, <1>3, <1>4, <1>5 DEF EngineOK
<1>7. NoWrappers(i) => NoWrappers(t)
  BY <1>2, <1>4 DEF NoWrappers
<1> QED
  BY <1>6, <1>7 DEF t

LEMMA StoreThread ==
  ASSUME NEW i, NEW s, NEW k, NEW hk, NEW sn, NEW org, NEW lorg,
         EngineOK(i), NoWrappers(i), SourceOK(Source(i, hk, sn)), HooksOK(i, hk, sn),
         CopyInv(Source(i, hk, sn), None, Still(s), org, lorg), KeysOK(k, hk, org),
         NEW x \in DOMAIN lorg, NEW v, Plain(i, v), NEW w \in Vals, Agree(org, v, w)
  PROVE  ThreadInv(Store(i, lorg[x], v), Store(s, x, w), k, hk, sn)
<1> DEFINE l == lorg[x]
           j == Store(i, l, v)
           X == Source(i, hk, sn)
           Y == Source(j, hk, sn)
<1>1. /\ X.heap = i /\ X.base = EmptyState /\ X.src = Src(hk, sn)
      /\ Y.heap = j /\ Y.base = EmptyState /\ Y.src = Src(hk, sn)
  BY SourceIs
<1>2. v \in Vals /\ i \in Heaps
  BY DEF Plain, EngineOK
<1> HIDE DEF X, Y
<1>3. SourceOK(X) /\ CopyInv(X, None, Still(s), org, lorg)
  BY DEF X
<1>4. l \in DOMAIN i.val
  BY <1>1, <1>3 DEF SourceOK, CopyInv, Origins
<1>5. EngineOK(j) /\ NoWrappers(j) /\ j.kind = i.kind /\ j.slots = i.slots
  <2> HIDE DEF l
  <2> QED
    BY <1>2, <1>4, StoreEngine, StoreIs
<1>6. SourceOK(Y) /\ CopyInv(Y, None, Still(Store(s, x, w)), org, lorg)
  BY <1>1, <1>2, <1>3, StoreKeeps
<1>7. HooksOK(j, hk, sn)
  BY <1>5 DEF HooksOK
<1> QED
  BY <1>5, <1>6, <1>7 DEF ThreadInv, Y

----------------------------------------------------------------------------
(* What holds of the engine while the script runs.                         *)

ScriptOK(e, hk, sn) ==
  /\ EngineOK(e) /\ DOMAIN hk = Hooks /\ DOMAIN sn = Hooks
  /\ \A h \in Hooks : Func[h] \in DOMAIN e.kind /\ e.kind[Func[h]] = "function"
  /\ \A h \in Users(hk) :
       /\ Lookalike(e, sn[h]) /\ EngineOK(sn[h])
       /\ hk[h] = SerializeObject(sn[h], Obj(Func[h])) /\ Serializable(sn[h], Obj(Func[h]))
       /\ \A l \in Reached(sn[h], Func[h]) : sn[h].id[l] = e.id[l]

LEMMA AssignKeeps ==
  ASSUME NEW e, NEW hk, NEW sn, ScriptOK(e, hk, sn),
         NEW l \in DOMAIN e.val, e.val[l][1] = "num", NEW n \in Nat
  PROVE  ScriptOK(Store(e, l, Num(n)), hk, sn)
<1> DEFINE v == Num(n)
           t == Store(e, l, v)
<1>1. v \in Vals /\ v[1] = "num" /\ Plain(e, v)
  BY DEF Num, Vals, Tags, Plain
<1> HIDE DEF v
<1>2. EngineOK(e) /\ e \in Heaps
  BY DEF ScriptOK, EngineOK
<1>3. EngineOK(t)
  BY <1>1, <1>2, StoreEngine
<1>4. /\ t.kind = e.kind /\ t.slots = e.slots /\ t.id = e.id /\ t.cols = e.cols
      /\ DOMAIN t.val = DOMAIN e.val
      /\ t.val[l] = v /\ \A k \in DOMAIN e.val : k # l => t.val[k] = e.val[k]
  BY <1>1, <1>2, StoreIs
<1> HIDE DEF t
<1>5. ASSUME NEW h \in Users(hk) PROVE Lookalike(t, sn[h])
  <2>1. Lookalike(e, sn[h])
    BY DEF ScriptOK
  <2> QED
    BY <1>1, <1>4, <2>1 DEF Lookalike
<1> QED
  BY <1>3, <1>4, <1>5 DEF ScriptOK, t, v

LEMMA LookalikeSelf == ASSUME NEW a PROVE Lookalike(a, a)
  BY DEF Lookalike

LEMMA LookalikeSame ==
  ASSUME NEW a, NEW b, NEW c, Lookalike(a, b), a.kind = c.kind, a.slots = c.slots, a.cols = c.cols,
         a.val = c.val
  PROVE  Lookalike(c, b)
  BY DEF Lookalike

LEMMA PlacedIs ==
  ASSUME NEW h \in Hooks, ScriptOK(eng, hook, snap), NEW t \in Placed(h)
  PROVE  /\ EngineOK(t) /\ t.kind = eng.kind /\ t.slots = eng.slots /\ t.val = eng.val
         /\ t.cols = eng.cols
         /\ \A l \in DOMAIN eng.val : l \notin Private(h) => t.id[l] = eng.id[l]
<1>1. CASE t = eng
  BY <1>1 DEF ScriptOK
<1>2. ASSUME NEW l \in Private(h), NEW g \in Registered \ {h}, NEW d \in Private(g),
             t = [eng EXCEPT !.id[l] = eng.id[d]]
      PROVE  /\ EngineOK(t) /\ t.kind = eng.kind /\ t.slots = eng.slots /\ t.val = eng.val
             /\ t.cols = eng.cols
             /\ \A m \in DOMAIN eng.val : m \notin Private(h) => t.id[m] = eng.id[m]
  <2>1. EngineOK(eng) /\ eng \in Heaps /\ Len(eng.id) = Len(eng.val)
    BY DEF ScriptOK, EngineOK
  <2>2. Func[g] \in DOMAIN eng.kind
    BY DEF ScriptOK, Registered
  <2>3. d \in DOMAIN eng.val
    BY <2>1, <2>2 DEF Private, EngineOK, SlotsIn
  <2>4. eng.id \in Seq(Nat) /\ eng.val \in Seq(Vals)
    BY <2>1 DEF Heaps
  <2>5. d \in DOMAIN eng.id
    BY <2>1, <2>3, <2>4
  <2>6. eng.id[d] \in Nat
    BY <2>4, <2>5, ElementIs
  <2>7. l \in DOMAIN eng.id
    <3>1. Func[h] \in DOMAIN eng.kind
      BY DEF ScriptOK
    <3>2. l \in DOMAIN eng.val
      BY <2>1, <3>1 DEF Private, EngineOK, SlotsIn
    <3> QED
      BY <2>1, <2>4, <3>2
  <2> DEFINE q == [eng.id EXCEPT ![l] = eng.id[d]]
  <2>8. /\ q \in Seq(Nat) /\ Len(q) = Len(eng.id) /\ DOMAIN q = DOMAIN eng.id
        /\ \A m \in DOMAIN eng.id : m # l => q[m] = eng.id[m]
    BY <2>4, <2>6, <2>7, ReplacedIs
  <2>9. t = [eng EXCEPT !.id = q]
    BY <1>2, <2>1 DEF Heaps
  <2> HIDE DEF q
  <2>10. /\ t \in Heaps /\ t.kind = eng.kind /\ t.slots = eng.slots /\ t.val = eng.val
         /\ t.cols = eng.cols /\ t.id = q
    BY <2>1, <2>8, <2>9 DEF Heaps
  <2>11. ASSUME NEW m PROVE Inner(t, m) = Inner(eng, m)
    BY <2>10 DEF Inner, Unwrap
  <2>12. EngineOK(t)
    BY <2>1, <2>8, <2>10, <2>11 DEF EngineOK, OwnEntries, SlotsIn, Plain
  <2>13. DOMAIN eng.val = DOMAIN eng.id
    BY <2>1, <2>4
  <2> QED
    BY <2>8, <2>10, <2>12, <2>13
<1> QED
  BY <1>1, <1>2 DEF Placed

LEMMA RegisterKeeps ==
  ASSUME NEW h \in Hooks, ScriptOK(eng, hook, snap), Register(h)
  PROVE  ScriptOK(eng', hook', snap')
<1> DEFINE t == eng'
<1>1. /\ h \notin Registered /\ t \in Placed(h)
      /\ hook' = [hook EXCEPT ![h] = IF Serializable(t, Obj(Func[h]))
                                     THEN SerializeObject(t, Obj(Func[h])) ELSE @]
      /\ snap' = [snap EXCEPT ![h] = t]
  BY DEF Register
<1>2. /\ EngineOK(t) /\ t.kind = eng.kind /\ t.slots = eng.slots /\ t.val = eng.val
      /\ t.cols = eng.cols
      /\ \A l \in DOMAIN eng.val : l \notin Private(h) => t.id[l] = eng.id[l]
  BY <1>1, PlacedIs
<1> HIDE DEF t
<1>3. DOMAIN hook = Hooks /\ DOMAIN snap = Hooks
  BY DEF ScriptOK
<1>4. ASSUME NEW g \in Users(hook'), g # h
      PROVE  /\ Lookalike(t, snap'[g]) /\ EngineOK(snap'[g])
             /\ hook'[g] = SerializeObject(snap'[g], Obj(Func[g])) /\ Serializable(snap'[g], Obj(Func[g]))
             /\ \A l \in Reached(snap'[g], Func[g]) : snap'[g].id[l] = t.id[l]
  <2>1. g \in Hooks /\ g \in Users(hook) /\ snap'[g] = snap[g] /\ hook'[g] = hook[g]
    BY <1>1, <1>3, <1>4 DEF Users
  <2>2. /\ Lookalike(eng, snap[g]) /\ EngineOK(snap[g])
        /\ hook[g] = SerializeObject(snap[g], Obj(Func[g])) /\ Serializable(snap[g], Obj(Func[g]))
        /\ \A l \in Reached(snap[g], Func[g]) : snap[g].id[l] = eng.id[l]
    BY <2>1 DEF ScriptOK
  <2>3. Lookalike(t, snap[g])
    BY <1>2, <2>2, LookalikeSame
  <2>4. ASSUME NEW l \in Reached(snap[g], Func[g]) PROVE t.id[l] = eng.id[l]
    <3>1. SlotsIn(eng) /\ EngineOK(eng) /\ Func[g] \in DOMAIN eng.kind
      BY <2>1 DEF ScriptOK, EngineOK
    <3>2. Reached(eng, Func[g]) = Reached(snap[g], Func[g])
      BY <2>2, <3>1, LookalikeReached
    <3>3. l \notin Private(h)
      BY <1>4, <2>1, <3>2 DEF Private
    <3>4. l \in DOMAIN eng.val
      BY <3>1, <3>2, ReachedIs
    <3> QED
      BY <1>2, <3>3, <3>4
  <2> QED
    BY <2>1, <2>2, <2>3, <2>4
<1>5. ASSUME h \in Users(hook')
      PROVE  /\ Lookalike(t, snap'[h]) /\ EngineOK(snap'[h])
             /\ hook'[h] = SerializeObject(snap'[h], Obj(Func[h])) /\ Serializable(snap'[h], Obj(Func[h]))
             /\ \A l \in Reached(snap'[h], Func[h]) : snap'[h].id[l] = t.id[l]
  <2>1. snap'[h] = t
    BY <1>1, <1>3
  <2>2. hook[h] = None
    BY <1>1, <1>3 DEF Registered
  <2>3. hook'[h] # None
    BY <1>5 DEF Users
  <2>4. Serializable(t, Obj(Func[h])) /\ hook'[h] = SerializeObject(t, Obj(Func[h]))
    BY <1>1, <1>3, <2>2, <2>3
  <2>5. Lookalike(t, t)
    BY LookalikeSelf
  <2> QED
    BY <1>2, <2>1, <2>4, <2>5
<1>6. DOMAIN hook' = Hooks /\ DOMAIN snap' = Hooks
  BY <1>1, <1>3
<1>7. \A g \in Hooks : Func[g] \in DOMAIN t.kind /\ t.kind[Func[g]] = "function"
  BY <1>2 DEF ScriptOK
<1>8. ASSUME NEW g \in Users(hook')
      PROVE  /\ Lookalike(t, snap'[g]) /\ EngineOK(snap'[g])
             /\ hook'[g] = SerializeObject(snap'[g], Obj(Func[g])) /\ Serializable(snap'[g], Obj(Func[g]))
             /\ \A l \in Reached(snap'[g], Func[g]) : snap'[g].id[l] = t.id[l]
  BY <1>4, <1>5
<1>9. ScriptOK(t, hook', snap')
  BY <1>2, <1>6, <1>7, <1>8 DEF ScriptOK
<1> QED
  BY <1>9 DEF t

\* The values that workers begin with are those the hooks were serialized with.
LEMMA PrivateCopyIs ==
  ASSUME ScriptOK(eng, hook, snap)
  PROVE  /\ EngineOK(PrivateCopy) /\ NoWrappers(PrivateCopy)
         /\ PrivateCopy.kind = eng.kind /\ PrivateCopy.slots = eng.slots
         /\ DOMAIN PrivateCopy.val = DOMAIN eng.val
         /\ Used(hook, snap) \subseteq DOMAIN eng.val
         /\ \A l \in Used(hook, snap) : PrivateCopy.val[l] = Src(hook, snap)[l].value
<1> DEFINE One(l) == CHOOSE h \in Users(hook) : l \in Reached(snap[h], Func[h])
           val(l) == IF \E h \in Users(hook) : l \in Reached(snap[h], Func[h])
                     THEN snap[One(l)].val[l] ELSE eng.val[l]
           q == [l \in DOMAIN eng.val |-> Unwrap(eng, val(l)).v]
           i == PrivateCopy
<1>1. PrivateCopy = [eng EXCEPT !.val = q]
  BY DEF PrivateCopy, Registered, Users
<1>2. EngineOK(eng) /\ eng \in Heaps
  BY DEF ScriptOK, EngineOK
<1>3. ASSUME NEW l \in Used(hook, snap)
      PROVE  /\ One(l) \in Users(hook) /\ l \in Reached(snap[One(l)], Func[One(l)])
             /\ Src(hook, snap)[l] = SerializeSlot(snap[One(l)], l)
             /\ val(l) = snap[One(l)].val[l]
  <2>1. \E h \in Users(hook) : l \in Reached(snap[h], Func[h])
    BY DEF Used
  <2> QED
    BY <2>1 DEF Src
<1>4. ASSUME NEW l, l \notin Used(hook, snap) PROVE val(l) = eng.val[l]
  BY <1>4 DEF Used
<1> HIDE DEF One, val
<1>5. ASSUME NEW h \in Users(hook)
      PROVE  /\ snap[h].kind = eng.kind /\ snap[h].cols = eng.cols
             /\ DOMAIN snap[h].val = DOMAIN eng.val /\ EngineOK(snap[h])
             /\ Reached(snap[h], Func[h]) \subseteq DOMAIN eng.val
  <2>1. Lookalike(eng, snap[h]) /\ EngineOK(snap[h]) /\ h \in Hooks
    BY DEF ScriptOK, Users
  <2>2. snap[h].kind = eng.kind /\ snap[h].cols = eng.cols /\ DOMAIN snap[h].val = DOMAIN eng.val
    BY <2>1 DEF Lookalike
  <2>3. Func[h] \in DOMAIN snap[h].kind
    BY <2>1, <2>2 DEF ScriptOK
  <2> QED
    BY <2>1, <2>2, <2>3, ReachedIs
<1>6. ASSUME NEW l \in DOMAIN eng.val
      PROVE  /\ Plain(eng, Unwrap(eng, val(l)).v)
             /\ l \in Used(hook, snap) => Unwrap(eng, val(l)).v = Src(hook, snap)[l].value
  <2>1. CASE l \notin Used(hook, snap)
    BY <1>2, <1>4, <2>1 DEF EngineOK, Inner
  <2>2. CASE l \in Used(hook, snap)
    <3> DEFINE e == snap[One(l)]
    <3>1. e.kind = eng.kind /\ e.cols = eng.cols /\ l \in DOMAIN e.val /\ EngineOK(e)
      BY <1>3, <1>5, <2>2
    <3>2. val(l) = e.val[l] /\ Src(hook, snap)[l] = SerializeSlot(e, l)
      BY <1>3, <2>2
    <3> HIDE DEF e
    <3>3. Unwrap(eng, val(l)).v = Inner(e, l)
      BY <3>1, <3>2 DEF Inner, Unwrap
    <3>4. Plain(e, Inner(e, l)) /\ SerializeSlot(e, l).value = Inner(e, l)
      BY <3>1, SerializeSlotIs DEF EngineOK
    <3> QED
      BY <3>1, <3>2, <3>3, <3>4 DEF Plain
  <2> QED
    BY <2>1, <2>2
<1>7. q \in Seq(Vals) /\ Len(q) = Len(eng.val) /\ DOMAIN q = DOMAIN eng.val
      /\ \A l \in DOMAIN eng.val : q[l] = Unwrap(eng, val(l)).v
  <2> DEFINE n == Len(eng.val)
             w(l) == Unwrap(eng, val(l)).v
  <2>1. n \in Nat /\ DOMAIN eng.val = 1..n
    BY <1>2 DEF Heaps
  <2>2. \A l \in 1..n : w(l) \in Vals
    BY <1>6, <2>1 DEF Plain
  <2>3. q = [l \in 1..n |-> w(l)]
    BY <2>1
  <2> HIDE DEF n, w, q
  <2>4. q \in Seq(Vals) /\ Len(q) = n /\ DOMAIN q = 1..n /\ \A l \in 1..n : q[l] = w(l)
    BY <2>1, <2>2, <2>3
  <2> QED
    BY <2>1, <2>4 DEF n, w
<1> HIDE DEF q
<1>8. /\ i \in Heaps /\ i.kind = eng.kind /\ i.slots = eng.slots /\ i.val = q /\ i.id = eng.id
      /\ i.cols = eng.cols
  BY <1>1, <1>2, <1>7 DEF Heaps
<1> HIDE DEF i
<1>9. ASSUME NEW l \in DOMAIN eng.val PROVE Plain(i, i.val[l]) /\ i.val[l][1] # "col"
  BY <1>6, <1>7, <1>8 DEF Plain
<1>10. ASSUME NEW l \in DOMAIN eng.val PROVE Plain(i, Inner(i, l))
  BY <1>9, UnwrapIs DEF Inner
<1>11. EngineOK(i) /\ NoWrappers(i)
  BY <1>2, <1>7, <1>8, <1>9, <1>10 DEF EngineOK, NoWrappers, OwnEntries, SlotsIn
<1>12. Used(hook, snap) \subseteq DOMAIN eng.val
  BY <1>5 DEF Used
<1>13. \A l \in Used(hook, snap) : i.val[l] = Src(hook, snap)[l].value
  BY <1>6, <1>7, <1>8, <1>12
<1> QED
  BY <1>7, <1>8, <1>11, <1>12, <1>13 DEF i

LEMMA SrcAgrees ==
  ASSUME NEW e, NEW hk, NEW sn, ScriptOK(e, hk, sn), Quiet(hk, sn),
         NEW h \in Users(hk), NEW l \in Reached(sn[h], Func[h])
  PROVE  Src(hk, sn)[l] = SerializeSlot(sn[h], l) /\ l \in Used(hk, sn)
<1> DEFINE g == CHOOSE g \in Users(hk) : l \in Reached(sn[g], Func[g])
<1>1. g \in Users(hk) /\ l \in Reached(sn[g], Func[g])
  OBVIOUS
<1>2. l \in Used(hk, sn) /\ Src(hk, sn)[l] = SerializeSlot(sn[g], l)
  BY DEF Used, Src
<1> HIDE DEF g
<1>3. sn[g].val[l] = sn[h].val[l]
  BY <1>1 DEF Quiet
<1>4. sn[g].id[l] = sn[h].id[l] /\ sn[g].cols = sn[h].cols
  BY <1>1 DEF ScriptOK, Lookalike
<1>5. SerializeSlot(sn[g], l) = SerializeSlot(sn[h], l)
  BY <1>3, <1>4 DEF SerializeSlot, Unwrap
<1> QED
  BY <1>2, <1>5

LEMMA RunKeeps ==
  ASSUME ScriptOK(eng, hook, snap), Quiet(hook, snap)
  PROVE  ThreadInv(PrivateCopy, EmptyState, [h \in Hooks |-> 0], hook, snap)
<1> DEFINE i == PrivateCopy
           X == Source(i, hook, snap)
           src == Src(hook, snap)
<1>1. /\ EngineOK(i) /\ NoWrappers(i) /\ i.kind = eng.kind /\ i.slots = eng.slots
      /\ Used(hook, snap) \subseteq DOMAIN i.val
      /\ \A l \in Used(hook, snap) : i.val[l] = src[l].value
  BY PrivateCopyIs
<1>2. X.heap = i /\ X.base = EmptyState /\ X.src = src /\ DOMAIN src = Used(hook, snap)
  BY SourceIs
<1> HIDE DEF i, X, src
<1>3. ASSUME NEW l \in Used(hook, snap)
      PROVE  \E h \in Users(hook) : l \in Reached(snap[h], Func[h]) /\ src[l] = SerializeSlot(snap[h], l)
                                    /\ src[l] \in SlotSet /\ src[l].id = snap[h].id[l]
  <2>1. PICK h \in Users(hook) : l \in Reached(snap[h], Func[h])
    BY DEF Used
  <2>2. src[l] = SerializeSlot(snap[h], l)
    BY <2>1, SrcAgrees DEF src
  <2>3. Lookalike(eng, snap[h]) /\ EngineOK(snap[h]) /\ h \in Hooks
    BY DEF ScriptOK, Users
  <2>4. Func[h] \in DOMAIN snap[h].kind
    BY <2>3 DEF Lookalike, ScriptOK
  <2>5. l \in DOMAIN snap[h].val
    BY <2>1, <2>3, <2>4, ReachedIs
  <2>6. SerializeSlot(snap[h], l) \in SlotSet /\ SerializeSlot(snap[h], l).id = snap[h].id[l]
    BY <2>3, <2>5, SerializeSlotIs
  <2> QED
    BY <2>1, <2>2, <2>6
<1>4. HooksOK(i, hook, snap)
  <2> SUFFICES ASSUME NEW h \in Users(hook)
               PROVE  /\ EngineOK(snap[h]) /\ snap[h].kind = i.kind /\ snap[h].slots = i.slots
                      /\ Func[h] \in DOMAIN i.kind /\ i.kind[Func[h]] = "function"
                      /\ hook[h] = SerializeObject(snap[h], Obj(Func[h]))
                      /\ Serializable(snap[h], Obj(Func[h]))
                      /\ \A l \in Reached(snap[h], Func[h]) : Src(hook, snap)[l] = SerializeSlot(snap[h], l)
    BY DEF HooksOK
  <2>1. /\ Lookalike(eng, snap[h]) /\ EngineOK(snap[h]) /\ h \in Hooks
        /\ hook[h] = SerializeObject(snap[h], Obj(Func[h])) /\ Serializable(snap[h], Obj(Func[h]))
    BY DEF ScriptOK, Users
  <2>2. Func[h] \in DOMAIN i.kind /\ i.kind[Func[h]] = "function"
    BY <1>1, <2>1 DEF ScriptOK
  <2>3. snap[h].kind = i.kind /\ snap[h].slots = i.slots
    BY <1>1, <2>1 DEF Lookalike
  <2> QED
    BY <2>1, <2>2, <2>3, SrcAgrees
<1>5. ASSUME NEW l \in Used(hook, snap), NEW m \in Used(hook, snap), src[l].id = src[m].id PROVE l = m
  <2>1. PICK g \in Users(hook) : l \in Reached(snap[g], Func[g]) /\ src[l].id = snap[g].id[l]
    BY <1>3
  <2>2. PICK h \in Users(hook) : m \in Reached(snap[h], Func[h]) /\ src[m].id = snap[h].id[m]
    BY <1>3
  <2>3. snap[g].id[l] = snap[h].id[m]
    BY <1>5, <2>1, <2>2
  <2>4. \A k \in Reached(snap[g], Func[g]), n \in Reached(snap[h], Func[h]) :
          snap[g].id[k] = snap[h].id[n] => k = n
    BY DEF Quiet
  <2> QED
    BY <2>1, <2>2, <2>3, <2>4
<1>6. SourceOK(X)
  <2>1. \A o \in DOMAIN i.kind : i.kind[o] \in {"function", "table"}
    <3>1. i.kind \in Seq(Kinds)
      BY <1>1 DEF EngineOK, Heaps
    <3> QED
      BY <3>1, ElementIs DEF Kinds
  <2>2. i \in Heaps /\ Len(i.slots) = Len(i.kind) /\ OwnEntries(i)
    BY <1>1 DEF EngineOK
  <2> QED
    BY <1>1, <1>2, <1>3, <1>5, <2>1, <2>2, EmptyIs DEF SourceOK
<1>7. CopyInv(X, None, Still(EmptyState), <<>>, <<>>)
  BY <1>1, <1>2, EmptyStart
<1>8. KeysOK([h \in Hooks |-> 0], hook, <<>>)
  BY DEF KeysOK
<1> QED
  BY <1>1, <1>4, <1>6, <1>7, <1>8 DEF ThreadInv, X, i

----------------------------------------------------------------------------
(* The inductive invariant.                                                *)

Shapes ==
  /\ DOMAIN hook = Hooks /\ DOMAIN slave = Threads /\ DOMAIN ideal = Threads
  /\ DOMAIN key = Threads /\ \A t \in Threads : DOMAIN key[t] = Hooks

\* No worker has started.
Waiting ==
  /\ phase \in {"script", "exit", "abort"} /\ puller = 1
  /\ \A t \in Threads :
       slave[t] = EmptyState /\ ideal[t] = EmptyState /\ \A h \in Hooks : key[t][h] = 0

Working ==
  /\ phase # "script"
  /\ Quiet(hook, snap) =>
       \A t \in Threads : ThreadInv(ideal[t], slave[t], key[t], hook, snap)

SInv ==
  /\ Shapes
  /\ phase = "script" => ScriptOK(eng, hook, snap)
  /\ Waiting \/ Working

LEMMA CallKeeps ==
  ASSUME Shapes, NEW t \in Threads, NEW h \in Hooks, CallHook(t, h),
         ThreadInv(ideal[t], slave[t], key[t], hook, snap)
  PROVE  ThreadInv(ideal'[t], slave'[t], key'[t], hook, snap)
<1> DEFINE s == Loaded(t, h)
           k == key'[t]
           i == ideal[t]
           X == Source(i, hook, snap)
           vars == SameNames(i, s, Matched(i, s, {<<Func[h], KeyOf(t, h)>>}))
<1>1. /\ h \in Users(hook) /\ key' = [key EXCEPT ![t][h] = KeyOf(t, h)]
  BY DEF CallHook, Registered, Users
<1>2. Pushed(slave[t], key[t], hook[h], h, s, k) /\ k[h] = KeyOf(t, h)
  BY <1>1 DEF Pushed, Shapes, Loaded, KeyOf
<1>3. \/ slave' = [slave EXCEPT ![t] = s] /\ UNCHANGED ideal
      \/ \E p \in vars, v \in {Num(n) : n \in Values} \union {Nil} :
           /\ slave' = [slave EXCEPT ![t] = Store(s, p[2], v)]
           /\ ideal' = [ideal EXCEPT ![t] = Store(@, p[1], v)]
      \/ \E p, q \in vars :
           /\ s.val[q[2]][1] = "obj" /\ p # q
           /\ slave' = [slave EXCEPT ![t] = Store(s, p[2], s.val[q[2]])]
           /\ ideal' = [ideal EXCEPT ![t] = Store(@, p[1], @.val[q[1]])]
  BY DEF CallHook
<1> HIDE DEF s
<1>4. /\ \E org, lorg : /\ CopyInv(X, None, Still(s), org, lorg)
                        /\ KeysOK(k, hook, org)
                        /\ k[h] \in DOMAIN org /\ org[k[h]] = Func[h]
      /\ ThreadInv(i, s, k, hook, snap)
  <2> HIDE DEF i, k
  <2> QED
    BY <1>1, <1>2, PushKeeps DEF i
<1>5. PICK org, lorg : /\ CopyInv(X, None, Still(s), org, lorg)
                       /\ KeysOK(k, hook, org)
                       /\ k[h] \in DOMAIN org /\ org[k[h]] = Func[h]
  BY <1>4
<1> HIDE DEF k
<1>6. EngineOK(i) /\ NoWrappers(i) /\ SourceOK(X) /\ HooksOK(i, hook, snap) /\ X.heap = i
  BY SourceIs DEF ThreadInv
<1>7. ASSUME NEW p \in vars PROVE p[2] \in DOMAIN lorg /\ p[1] = lorg[p[2]]
  <2> DEFINE d == k[h]
  <2>1. d \in DOMAIN org /\ p \in SameNames(X.heap, s, Matched(X.heap, s, {<<org[d], d>>}))
    BY <1>2, <1>5, <1>6
  <2> HIDE DEF d, X
  <2>2. CopyInv(X, None, Still(s), org, lorg) /\ SourceOK(X)
    BY <1>5, <1>6 DEF X
  <2>3. \A r \in SameNames(X.heap, s, Matched(X.heap, s, {<<org[d], d>>})) :
          r[2] \in DOMAIN lorg /\ r[1] = lorg[r[2]]
    BY <2>1, <2>2, VarsAre
  <2> QED
    BY <2>1, <2>3
<1> HIDE DEF vars
<1>8. ASSUME NEW p \in vars, NEW v, Plain(i, v), NEW w \in Vals, Agree(org, v, w)
      PROVE  ThreadInv(Store(i, p[1], v), Store(s, p[2], w), k, hook, snap)
  <2> DEFINE x == p[2]
  <2>1. x \in DOMAIN lorg /\ p[1] = lorg[x]
    BY <1>7
  <2> HIDE DEF x, i
  <2>2. ThreadInv(Store(i, lorg[x], v), Store(s, x, w), k, hook, snap)
    BY <1>5, <1>6, <1>8, <2>1, StoreThread
  <2> QED
    BY <2>1, <2>2 DEF x
<1>9. CASE slave' = [slave EXCEPT ![t] = s] /\ UNCHANGED ideal
  BY <1>4, <1>9 DEF Shapes, k
<1>10. ASSUME NEW p \in vars, NEW v \in {Num(n) : n \in Values} \union {Nil},
              slave' = [slave EXCEPT ![t] = Store(s, p[2], v)],
              ideal' = [ideal EXCEPT ![t] = Store(@, p[1], v)]
       PROVE  ThreadInv(ideal'[t], slave'[t], key'[t], hook, snap)
  <2>1. v \in Vals /\ Plain(i, v) /\ Agree(org, v, v)
    BY ScriptAssumption DEF Num, Nil, Vals, Tags, Plain, Agree
  <2>2. slave'[t] = Store(s, p[2], v) /\ ideal'[t] = Store(i, p[1], v)
    BY <1>10 DEF Shapes
  <2> QED
    BY <1>8, <2>1, <2>2 DEF k
<1>11. ASSUME NEW p \in vars, NEW q \in vars,
              slave' = [slave EXCEPT ![t] = Store(s, p[2], s.val[q[2]])],
              ideal' = [ideal EXCEPT ![t] = Store(@, p[1], @.val[q[1]])]
       PROVE  ThreadInv(ideal'[t], slave'[t], key'[t], hook, snap)
  <2> DEFINE v == i.val[q[1]]
             w == s.val[q[2]]
  <2>1. q[2] \in DOMAIN lorg /\ q[1] = lorg[q[2]]
    BY <1>7
  <2>2. Agree(org, v, w)
    BY <1>5, <1>6, <2>1, StillMirrors DEF Mirrors
  <2>3. q[1] \in DOMAIN i.val
    BY <1>5, <1>6, <2>1 DEF CopyInv, Origins, SourceOK
  <2>4. Plain(i, v)
    BY <1>6, <2>3, UnwrapIs DEF EngineOK, NoWrappers, Inner
  <2>5. w \in Vals
    <3>1. s \in Heaps
      BY <1>5, CopyHeaps
    <3>2. s.val \in Seq(Vals) /\ X.base.val \in Seq(Vals)
      BY <1>6, <3>1 DEF Heaps, SourceOK
    <3>3. DOMAIN lorg = Len(X.base.val) + 1..Len(s.val)
      BY <1>5, StillIs DEF CopyInv, Extent
    <3>4. q[2] \in DOMAIN s.val
      BY <2>1, <3>2, <3>3
    <3> QED
      BY <3>2, <3>4, ElementIs
  <2>6. slave'[t] = Store(s, p[2], w) /\ ideal'[t] = Store(i, p[1], v)
    BY <1>11 DEF Shapes
  <2> QED
    BY <1>8, <2>2, <2>4, <2>5, <2>6 DEF k
<1> QED
  BY <1>3, <1>9, <1>10, <1>11

LEMMA SInvInit == ScriptInit => SInv
<1> SUFFICES ASSUME ScriptInit PROVE SInv
  OBVIOUS
<1> USE DEF ScriptInit
<1>1. Users(hook) = {}
  BY DEF Users
<1>2. eng \in Scripts /\ DOMAIN hook = Hooks /\ DOMAIN snap = Hooks
  OBVIOUS
<1>3. EngineOK(eng)
  BY <1>2, ScriptAssumption, WellFormedIs
<1>4. ScriptOK(eng, hook, snap)
  BY <1>1, <1>2, <1>3, ScriptAssumption DEF ScriptOK
<1>5. Shapes /\ Waiting
  BY DEF Shapes, Waiting
<1> QED
  BY <1>4, <1>5 DEF SInv

LEMMA SInvNext == SInv /\ [ScriptNext]_scriptVars => SInv'
<1> SUFFICES ASSUME SInv, [ScriptNext]_scriptVars PROVE SInv'
  OBVIOUS
<1>0. Shapes /\ (phase = "script" => ScriptOK(eng, hook, snap)) /\ (Waiting \/ Working)
  BY DEF SInv
<1>a. phase = "script" => Waiting
  BY <1>0 DEF Working
<1>b. phase \in {"run", "pull"} => Working
  BY <1>0 DEF Waiting
<1>1. ASSUME NEW l \in DOMAIN eng.val, NEW n \in Values, Assign(l, n) PROVE SInv'
  <2>1. /\ phase = "script" /\ eng.val[l][1] = "num" /\ eng' = Store(eng, l, Num(n))
        /\ UNCHANGED <<hook, snap, phase, slave, key, ideal, puller>>
    BY <1>1 DEF Assign, Store
  <2>2. n \in Nat
    BY ScriptAssumption
  <2>3. ScriptOK(eng', hook, snap)
    BY <1>0, <2>1, <2>2, AssignKeeps
  <2> QED
    BY <1>0, <1>a, <2>1, <2>3 DEF SInv, Shapes, Waiting
<1>2. ASSUME NEW h \in Hooks, Register(h) PROVE SInv'
  <2>1. phase = "script" /\ phase' \in {"script", "abort"} /\ UNCHANGED <<slave, key, ideal, puller>>
    BY <1>2 DEF Register
  <2>2. ScriptOK(eng', hook', snap')
    BY <1>0, <1>2, <2>1, RegisterKeeps
  <2>3. DOMAIN hook' = Hooks
    BY <2>2 DEF ScriptOK
  <2>4. Shapes' /\ Waiting'
    BY <1>0, <1>a, <2>1, <2>3 DEF Shapes, Waiting
  <2> QED
    BY <2>2, <2>4 DEF SInv
<1>3. ASSUME NEW h \in Hooks, RegisterTwice(h) PROVE SInv'
  BY <1>0, <1>a, <1>3 DEF RegisterTwice, SInv, Shapes, Waiting
<1>4. ASSUME ScriptError PROVE SInv'
  BY <1>0, <1>a, <1>4 DEF ScriptError, SInv, Shapes, Waiting
<1>5. ASSUME Run PROVE SInv'
  <2>1. phase = "script" /\ UNCHANGED <<hook, snap, slave, key, puller>>
    BY <1>5 DEF Run
  <2>2. CASE phase' = "abort" /\ UNCHANGED <<eng, ideal>>
    BY <1>0, <1>a, <2>1, <2>2 DEF SInv, Shapes, Waiting
  <2>3. CASE phase' = "run" /\ ideal' = [t \in Threads |-> PrivateCopy]
    <3>1. ASSUME Quiet(hook, snap), NEW t \in Threads
          PROVE  ThreadInv(ideal'[t], slave'[t], key'[t], hook', snap')
      <4>1. ThreadInv(PrivateCopy, EmptyState, [h \in Hooks |-> 0], hook, snap)
        BY <1>0, <2>1, <3>1, RunKeeps
      <4>2. ideal'[t] = PrivateCopy /\ slave'[t] = EmptyState /\ \A h \in Hooks : key'[t][h] = 0
        BY <1>a, <2>1, <2>3 DEF Waiting
      <4>3. \A org : KeysOK([h \in Hooks |-> 0], hook, org) => KeysOK(key'[t], hook, org)
        BY <4>2 DEF KeysOK
      <4> QED
        BY <2>1, <4>1, <4>2, <4>3 DEF ThreadInv
    <3>2. Working'
      BY <2>1, <2>3, <3>1 DEF Working
    <3>3. Shapes'
      BY <1>0, <2>1, <2>3 DEF Shapes
    <3> QED
      BY <2>3, <3>2, <3>3 DEF SInv
  <2> QED
    BY <1>5, <2>2, <2>3 DEF Run
<1>6. ASSUME NEW t \in Threads, NEW h \in Hooks, CallHook(t, h) PROVE SInv'
  <2>1. phase = "run" /\ UNCHANGED <<eng, hook, snap, phase, puller>>
    BY <1>6 DEF CallHook
  <2>2. /\ key' = [key EXCEPT ![t][h] = KeyOf(t, h)]
        /\ \E x : slave' = [slave EXCEPT ![t] = x]
        /\ ideal' = ideal \/ \E x : ideal' = [ideal EXCEPT ![t] = x]
    BY <1>6 DEF CallHook
  <2>3. Shapes' /\ \A u \in Threads : u # t => slave'[u] = slave[u] /\ ideal'[u] = ideal[u] /\ key'[u] = key[u]
    BY <1>0, <2>1, <2>2 DEF Shapes
  <2>4. ASSUME Quiet(hook, snap), NEW u \in Threads
        PROVE  ThreadInv(ideal'[u], slave'[u], key'[u], hook, snap)
    <3>1. \A x \in Threads : ThreadInv(ideal[x], slave[x], key[x], hook, snap)
      BY <1>b, <2>1, <2>4 DEF Working
    <3>2. CASE u = t
      BY <1>0, <1>6, <3>1, <3>2, CallKeeps
    <3>3. CASE u # t
      BY <2>3, <3>1, <3>3
    <3> QED
      BY <3>2, <3>3
  <2>5. Working'
    BY <2>1, <2>4 DEF Working
  <2> QED
    BY <2>1, <2>3, <2>5 DEF SInv
<1>7. ASSUME NEW t \in Threads, NEW h \in Hooks, HookError(t, h) PROVE SInv'
  BY <1>0, <1>b, <1>7 DEF HookError, SInv, Shapes, Working
<1>8. ASSUME Stop PROVE SInv'
  BY <1>0, <1>b, <1>8 DEF Stop, SInv, Shapes, Working
<1>9. ASSUME Pull PROVE SInv'
  <2>1. phase = "pull" /\ phase' \in {"after", "pull", "abort"} /\ UNCHANGED <<hook, snap, slave, key, ideal>>
    BY <1>9 DEF Pull
  <2> QED
    BY <1>0, <1>b, <2>1 DEF SInv, Shapes, Working
<1>10. ASSUME UNCHANGED scriptVars PROVE SInv'
  BY <1>0, <1>10 DEF scriptVars, SInv, Shapes, Waiting, Working
<1> QED
  BY <1>1, <1>2, <1>3, <1>4, <1>5, <1>6, <1>7, <1>8, <1>9, <1>10 DEF ScriptNext

LEMMA SInvHolds == ScriptSpec => []SInv
  BY SInvInit, SInvNext, PTL DEF ScriptSpec

LEMMA QuietIs == ASSUME Undisturbed PROVE Quiet(hook, snap)
<1>1. Users(hook) = Registered
  BY DEF Users, Registered
<1>2. \A h \in Registered : Uses[h] = Reached(snap[h], Func[h])
  BY DEF Uses
<1>3. Coherent(Uses) /\ AddressesDistinct(Uses)
  BY DEF Undisturbed
<1> QED
  BY <1>1, <1>2, <1>3 DEF Quiet, Coherent, AddressesDistinct

LEMMA ThreadAlike ==
  ASSUME NEW i, NEW s, NEW k, NEW hk, NEW sn, ThreadInv(i, s, k, hk, sn)
  PROVE  Alike(i, s, {<<Func[h], k[h]>> : h \in {g \in Hooks : k[g] # 0}})
<1> DEFINE R == {<<Func[h], k[h]>> : h \in {g \in Hooks : k[g] # 0}}
           X == Source(i, hk, sn)
<1>1. PICK org, lorg : CopyInv(X, None, Still(s), org, lorg) /\ KeysOK(k, hk, org)
  BY DEF ThreadInv
<1>2. X.heap = i
  BY SourceIs
<1> HIDE DEF X
<1>3. Mirrors(i, s, org, lorg) /\ Len(s.kind) \in Nat
  BY <1>1, <1>2, StillMirrors, CopyHeaps
<1>4. Len(i.kind) \in Nat
  BY DEF ThreadInv, EngineOK, Heaps
<1>5. R \in SUBSET Pairs(org)
  BY <1>1 DEF KeysOK, Pairs
<1> QED
  BY <1>3, <1>4, <1>5, MirrorsAlike

\* SeesPrivateCopy holds for any scripts, hooks and number of workers: what a
\* worker has copied of the hooks it has loaded mirrors its private copy.
THEOREM SeesPrivateCopyHolds == ScriptSpec => []SeesPrivateCopy
<1>1. SInv => SeesPrivateCopy
  <2> SUFFICES ASSUME SInv, Undisturbed, NEW t \in Threads
               PROVE  Alike(ideal[t], slave[t], LoadedPairs(t))
    BY DEF SeesPrivateCopy
  <2>1. CASE Waiting
    <3>1. LoadedPairs(t) = {} /\ ideal[t] = EmptyState /\ slave[t] = EmptyState
      BY <2>1 DEF Waiting, LoadedPairs
    <3> DEFINE e == EmptyState
    <3>2. Len(e.kind) \in Nat
      BY EmptyIs
    <3> HIDE DEF e
    <3>3. Mirrors(e, e, <<>>, <<>>) /\ {} \in SUBSET Pairs(<<>>)
      BY DEF Mirrors
    <3>4. Alike(e, e, {})
      BY <3>2, <3>3, MirrorsAlike
    <3> QED
      BY <3>1, <3>4 DEF e
  <2>2. CASE Working
    <3>1. ThreadInv(ideal[t], slave[t], key[t], hook, snap)
      BY <2>2, QuietIs DEF Working
    <3> QED
      BY <3>1, ThreadAlike DEF LoadedPairs
  <2> QED
    BY <2>1, <2>2 DEF SInv
<1> QED
  BY <1>1, SInvHolds, PTL

----------------------------------------------------------------------------
(* What a worker has for a collector, and what can be made of it.          *)

\* The whole of s mirrors the private copy i.
Reflects(i, s, org, lorg) ==
  /\ EngineOK(i) /\ NoWrappers(i) /\ EngineOK(s) /\ NoWrappers(s)
  /\ \A l \in DOMAIN s.val : s.id[l] = l
  /\ DOMAIN org = DOMAIN s.kind /\ DOMAIN lorg = DOMAIN s.val
  /\ \A d \in DOMAIN org : org[d] \in DOMAIN i.kind
  /\ \A x \in DOMAIN lorg : lorg[x] \in DOMAIN i.val
  /\ Mirrors(i, s, org, lorg)

LEMMA ThreadReflects ==
  ASSUME NEW i, NEW s, NEW hk, NEW sn, NEW org, NEW lorg,
         EngineOK(i), NoWrappers(i), SourceOK(Source(i, hk, sn)),
         CopyInv(Source(i, hk, sn), None, Still(s), org, lorg)
  PROVE  Reflects(i, s, org, lorg)
<1> DEFINE X == Source(i, hk, sn)
<1>1. X.heap = i /\ X.base = EmptyState
  BY SourceIs
<1> HIDE DEF X
<1>2. SourceOK(X) /\ CopyInv(X, None, Still(s), org, lorg)
  BY DEF X
<1>3. Mirrors(i, s, org, lorg) /\ s \in Heaps
  BY <1>1, <1>2, StillMirrors, CopyHeaps
<1>4. /\ Len(s.slots) = Len(s.kind) /\ Len(s.id) = Len(s.val)
      /\ DOMAIN org = Len(X.base.kind) + 1..Len(s.kind)
      /\ DOMAIN lorg = Len(X.base.val) + 1..Len(s.val)
  BY <1>2, StillIs DEF CopyInv, Extent
<1>5. DOMAIN org = DOMAIN s.kind /\ DOMAIN lorg = DOMAIN s.val
  <2>1. Len(X.base.kind) = 0 /\ Len(X.base.val) = 0
    BY <1>1, EmptyIs
  <2>2. Len(s.kind) \in Nat /\ DOMAIN s.kind = 1..Len(s.kind)
        /\ Len(s.val) \in Nat /\ DOMAIN s.val = 1..Len(s.val)
    BY <1>3 DEF Heaps
  <2> QED
    BY <1>4, <2>1, <2>2
<1>6. /\ \A d \in DOMAIN org : org[d] \in DOMAIN i.kind
      /\ \A x \in DOMAIN lorg : lorg[x] \in DOMAIN i.val /\ s.id[x] = x
  BY <1>1, <1>2, StillIs DEF CopyInv, Origins, SourceOK
<1>7. SlotsIn(s)
  BY <1>3, <1>5 DEF SlotsIn, Mirrors
<1>8. OwnEntries(s)
  <2> SUFFICES ASSUME NEW d \in DOMAIN s.kind, NEW e \in DOMAIN s.kind,
                      NEW m \in DOMAIN s.slots[d], NEW n \in DOMAIN s.slots[e],
                      s.kind[d] = "table", s.slots[d][m] = s.slots[e][n]
               PROVE  d = e /\ m = n
    BY DEF OwnEntries
  <2>1. /\ i.kind[org[d]] = "table"
        /\ m \in DOMAIN i.slots[org[d]] /\ n \in DOMAIN i.slots[org[e]]
        /\ i.slots[org[d]][m] = i.slots[org[e]][n]
    BY <1>3, <1>5 DEF Mirrors
  <2>2. org[d] = org[e] /\ m = n
    BY <1>5, <1>6, <2>1 DEF EngineOK, OwnEntries
  <2>3. \A a, b \in DOMAIN org : org[a] = org[b] /\ i.kind[org[a]] = "table" => a = b
    BY <1>1, <1>2 DEF CopyInv, TablesOnce
  <2> QED
    BY <1>5, <2>1, <2>2, <2>3
<1>9. ASSUME NEW l \in DOMAIN s.val PROVE Plain(s, s.val[l]) /\ s.val[l][1] # "col"
  <2>1. Agree(org, i.val[lorg[l]], s.val[l])
    BY <1>3, <1>5 DEF Mirrors
  <2>2. i.val[lorg[l]][1] # "col"
    BY <1>5, <1>6 DEF NoWrappers
  <2>3. s.val[l] \in Vals
    BY <1>3, ElementIs DEF Heaps
  <2> QED
    BY <1>5, <2>1, <2>2, <2>3 DEF Agree, Plain
<1>10. ASSUME NEW l \in DOMAIN s.val PROVE Plain(s, Inner(s, l))
  BY <1>9, UnwrapIs DEF Inner
<1>11. EngineOK(s) /\ NoWrappers(s)
  BY <1>3, <1>4, <1>7, <1>8, <1>9, <1>10 DEF EngineOK, NoWrappers
<1> QED
  BY <1>3, <1>5, <1>6, <1>11 DEF Reflects

LEMMA ContentIs ==
  ASSUME NEW e, EngineOK(e), NoWrappers(e), NEW o \in DOMAIN e.kind, NEW k \in DOMAIN e.slots[o]
  PROVE  Content(e, o, k) = e.val[e.slots[o][k]] /\ e.slots[o][k] \in DOMAIN e.val
<1>1. e.slots[o][k] \in DOMAIN e.val
  BY DEF EngineOK, SlotsIn
<1> QED
  BY <1>1, UnwrapIs DEF Content, NoWrappers

\* The contents of counterparts are counterparts.
LEMMA ContentsAgree ==
  ASSUME NEW i, NEW s, NEW org, NEW lorg, Reflects(i, s, org, lorg),
         NEW d \in DOMAIN s.kind, NEW k \in DOMAIN s.slots[d]
  PROVE  /\ org[d] \in DOMAIN i.kind /\ s.kind[d] = i.kind[org[d]]
         /\ k \in DOMAIN i.slots[org[d]]
         /\ Agree(org, Content(i, org[d], k), Content(s, d, k))
         /\ Agree(org, i.val[i.slots[org[d]][k]], s.val[s.slots[d][k]])
<1>1. /\ org[d] \in DOMAIN i.kind /\ s.kind[d] = i.kind[org[d]] /\ k \in DOMAIN i.slots[org[d]]
      /\ s.slots[d][k] \in DOMAIN lorg /\ lorg[s.slots[d][k]] = i.slots[org[d]][k]
  BY DEF Reflects, Mirrors
<1>2. Agree(org, i.val[i.slots[org[d]][k]], s.val[s.slots[d][k]])
  BY <1>1 DEF Reflects, Mirrors
<1>3. Content(i, org[d], k) = i.val[i.slots[org[d]][k]] /\ Content(s, d, k) = s.val[s.slots[d][k]]
  BY <1>1, ContentIs DEF Reflects
<1> QED
  BY <1>1, <1>2, <1>3

\* What serializes in the private copy does in the worker's state.
LEMMA SerializableMirror ==
  ASSUME NEW i, NEW s, NEW org, NEW lorg, Reflects(i, s, org, lorg),
         NEW x \in DOMAIN s.val, Serializable(i, i.val[lorg[x]])
  PROVE  Serializable(s, s.val[x])
<1> DEFINE v == s.val[x]
           w == i.val[lorg[x]]
           S == Objects(s, v)
           N == Objects(i, w)
<1>1. Agree(org, w, v) /\ lorg[x] \in DOMAIN i.val
  BY DEF Reflects, Mirrors
<1>2. Whole(i) /\ Whole(s)
  BY EngineWhole DEF Reflects
<1>3. w[1] = "obj" => w[2] \in DOMAIN i.kind
  BY SMTT(30), <1>1, UnwrapIs DEF Reflects, EngineOK, NoWrappers, Inner, Plain
<1>4. Serializable(i, w)
  OBVIOUS
<1> HIDE DEF v, w
<1>5. N \subseteq DOMAIN i.kind /\ Closed(i, N) /\ (w[1] = "obj" => w[2] \in N)
  BY <1>2, <1>3, ObjectsClosed
<1>6. S \subseteq DOMAIN s.kind
  BY <1>2, ObjectsClosed
<1> DEFINE T == {d \in DOMAIN s.kind : org[d] \in N}
<1>7. S \subseteq T
  <2>1. v[1] = "obj" => v[2] \in T
    BY <1>1, <1>5 DEF Agree, Reflects
  <2>2. ASSUME NEW d \in T, NEW k \in DOMAIN s.slots[d], Content(s, d, k)[1] = "obj"
        PROVE  Content(s, d, k)[2] \in T
    <3> DEFINE a == Content(i, org[d], k)
               b == Content(s, d, k)
    <3>1. k \in DOMAIN i.slots[org[d]] /\ Agree(org, a, b)
      BY ContentsAgree
    <3>2. a[1] = "obj" => a[2] \in N
      BY <1>5, <3>1 DEF Closed
    <3> HIDE DEF a, N
    <3>3. b[1] = "obj"
      BY <2>2
    <3> HIDE DEF b
    <3>4. b[2] \in DOMAIN org /\ org[b[2]] \in N
      BY <3>1, <3>2, <3>3 DEF Agree
    <3> QED
      BY <3>4 DEF Reflects, b
  <2>3. Closed(s, T)
    BY <2>2 DEF Closed
  <2> HIDE DEF N
  <2>4. T \in SUBSET DOMAIN s.kind
    OBVIOUS
  <2> HIDE DEF T
  <2> QED
    BY <2>1, <2>3, <2>4, ObjectsLeast
<1>8. v[1] \in {"num", "obj"}
  BY <1>1, <1>4 DEF Agree, Serializable
<1>9. ASSUME NEW d \in S, NEW k \in DOMAIN s.slots[d]
      PROVE  Absent(s, d, s.val[s.slots[d][k]]) \/ Content(s, d, k)[1] \in {"num", "obj"}
  <2>1. d \in DOMAIN s.kind /\ org[d] \in N
    BY <1>7
  <2>2. /\ s.kind[d] = i.kind[org[d]] /\ k \in DOMAIN i.slots[org[d]]
        /\ Agree(org, Content(i, org[d], k), Content(s, d, k))
        /\ Agree(org, i.val[i.slots[org[d]][k]], s.val[s.slots[d][k]])
    BY <2>1, ContentsAgree
  <2>3. \/ Absent(i, org[d], i.val[i.slots[org[d]][k]])
        \/ Content(i, org[d], k)[1] \in {"num", "obj"}
    BY <1>4, <2>1, <2>2 DEF Serializable
  <2>4. CASE Absent(i, org[d], i.val[i.slots[org[d]][k]])
    <3>1. i.val[i.slots[org[d]][k]] = Nil /\ s.kind[d] = "table"
      BY <2>2, <2>4 DEF Absent
    <3>2. s.val[s.slots[d][k]] = Nil
      BY <2>2, <3>1 DEF Agree, Nil
    <3> QED
      BY <3>1, <3>2 DEF Absent
  <2>5. CASE Content(i, org[d], k)[1] \in {"num", "obj"}
    BY <2>2, <2>5 DEF Agree
  <2> QED
    BY <2>3, <2>4, <2>5
<1>10. ASSUME NEW R \in SUBSET S, Endless(s, R) PROVE R = {}
  <2> DEFINE Q == {org[d] : d \in R}
  <2>1. Q \in SUBSET N
    BY <1>7
  <2>2. Endless(i, Q)
    <3> SUFFICES ASSUME NEW d \in R
                 PROVE  \E k \in DOMAIN i.slots[org[d]] :
                          Content(i, org[d], k)[1] = "obj" /\ Content(i, org[d], k)[2] \in Q
      BY DEF Endless
    <3>1. PICK k \in DOMAIN s.slots[d] : Content(s, d, k)[1] = "obj" /\ Content(s, d, k)[2] \in R
      BY <1>10 DEF Endless
    <3>2. k \in DOMAIN i.slots[org[d]] /\ Agree(org, Content(i, org[d], k), Content(s, d, k))
      BY <1>6, ContentsAgree
    <3>3. Content(i, org[d], k)[1] = "obj" /\ Content(i, org[d], k)[2] = org[Content(s, d, k)[2]]
      BY <3>1, <3>2 DEF Agree
    <3> QED
      BY <3>1, <3>2, <3>3
  <2>3. Q = {}
    BY <1>4, <2>1, <2>2 DEF Serializable
  <2> QED
    BY <2>3
<1>11. Serializable(s, v)
  BY <1>8, <1>9, <1>10 DEF Serializable
<1> QED
  BY <1>11 DEF v

----------------------------------------------------------------------------
(* script_engine_pull_data copies what a worker has into the engine.       *)

Recol(s, q) == [s EXCEPT !.cols = q]

LEMMA RecolIs ==
  ASSUME NEW s \in Heaps, NEW q \in Seq(Seq(Vals))
  PROVE  /\ Recol(s, q) \in Heaps /\ Recol(s, q).cols = q
         /\ Recol(s, q).kind = s.kind /\ Recol(s, q).slots = s.slots /\ Recol(s, q).val = s.val
         /\ Recol(s, q).id = s.id /\ Recol(s, q).object_map = s.object_map
         /\ Recol(s, q).upvalue_map = s.upvalue_map /\ Recol(s, q).collector_map = s.collector_map
  BY DEF Recol, Heaps

\* The source of a copy of values of state s into b.
PSrc(s, b) == [heap |-> s, base |-> b, src |-> [l \in DOMAIN s.val |-> SerializeSlot(s, l)]]

\* An interpreter between two calls, with no collectors of its own.
WorkerOK(s) == EngineOK(s) /\ NoWrappers(s) /\ \A l \in DOMAIN s.val : s.id[l] = l

BaseOK(b) == b \in Heaps /\ Len(b.slots) = Len(b.kind) /\ Len(b.id) = Len(b.val)

LEMMA PSrcIs ==
  ASSUME NEW s, WorkerOK(s), NEW b, BaseOK(b)
  PROVE  /\ SourceOK(PSrc(s, b))
         /\ PSrc(s, b).heap = s /\ PSrc(s, b).base = b
         /\ DOMAIN PSrc(s, b).src = DOMAIN s.val
         /\ \A l \in DOMAIN s.val : /\ PSrc(s, b).src[l] = SerializeSlot(s, l)
                                    /\ PSrc(s, b).src[l].value = s.val[l]
<1> DEFINE X == PSrc(s, b)
<1>1. /\ X.heap = s /\ X.base = b /\ DOMAIN X.src = DOMAIN s.val
      /\ \A l \in DOMAIN s.val : X.src[l] = SerializeSlot(s, l)
  BY DEF PSrc
<1> HIDE DEF X
<1>2. EngineOK(s) /\ s \in Heaps /\ Len(s.slots) = Len(s.kind) /\ OwnEntries(s)
  BY DEF WorkerOK, EngineOK
<1>3. ASSUME NEW l \in DOMAIN s.val
      PROVE  X.src[l] \in SlotSet /\ X.src[l].id = l /\ X.src[l].value = s.val[l]
  <2>1. /\ SerializeSlot(s, l) \in SlotSet /\ SerializeSlot(s, l).value = Inner(s, l)
        /\ SerializeSlot(s, l).id = s.id[l]
    BY <1>2, SerializeSlotIs
  <2>2. Inner(s, l) = s.val[l] /\ s.id[l] = l
    BY UnwrapIs DEF Inner, WorkerOK, NoWrappers
  <2> QED
    BY <1>1, <2>1, <2>2
<1>4. \A o \in DOMAIN s.kind : s.kind[o] \in {"function", "table"}
  BY <1>2, ElementIs DEF Heaps, Kinds
<1>5. SourceOK(X)
  BY <1>1, <1>2, <1>3, <1>4 DEF SourceOK, BaseOK
<1> QED
  BY <1>1, <1>3, <1>5 DEF X

\* upvalue_cache_new: nothing has been copied yet.
LEMMA BaseStart ==
  ASSUME NEW X, NEW sv, NEW b, X.base = b, BaseOK(b),
         b.object_map = <<>>, b.upvalue_map = <<>>, b.collector_map = <<>>,
         \A l \in DOMAIN X.src : X.heap.val[l] = X.src[l].value
  PROVE  CopyInv(X, sv, Still(b), <<>>, <<>>)
<1>1. DOMAIN <<>> = {}
  OBVIOUS
<1>2. Still(b) \in Copies
  BY DEF Still, Copies, BaseOK
<1>3. Extent(X, b, <<>>, <<>>)
  <2>1. Len(b.kind) \in Nat /\ Len(b.val) \in Nat
    BY DEF BaseOK, Heaps
  <2>2. Len(b.kind) + 1..Len(b.kind) = {} /\ Len(b.val) + 1..Len(b.val) = {}
    BY <2>1
  <2> QED
    BY <1>1, <2>1, <2>2 DEF Extent, BaseOK
<1>4. Kept(X.base, b)
  BY DEF Kept
<1>5. ObjectMap(b, <<>>)
  BY <1>1 DEF ObjectMap
<1>6. UpvalueMap(X, Still(b), <<>>, <<>>) /\ CollectorMap(X, Still(b), <<>>, <<>>)
  BY Zenon, <1>1, StillIs DEF UpvalueMap, CollectorMap
<1>7. CallsOK(sv, Still(b), <<>>) /\ CallsNested(sv, Still(b))
  BY StillIs DEF CallsOK, CallsNested
<1>8. Untouched(X, <<>>)
  BY DEF Untouched
<1>9. /\ Origins(X, b, <<>>, <<>>) /\ SlotsSet(X, Still(b), <<>>, <<>>) /\ OneToOne(<<>>)
      /\ ValuesAgree(X, b, <<>>, <<>>) /\ TablesOnce(X, <<>>) /\ Holders(X, Still(b), <<>>, <<>>)
      /\ SourceReached(X, <<>>, <<>>)
  BY <1>1 DEF Origins, SlotsSet, OneToOne, ValuesAgree, TablesOnce, Holders, SourceReached
<1> QED
  BY <1>2, <1>3, <1>4, <1>5, <1>6, <1>7, <1>8, <1>9, StillIs DEF CopyInv

\* The values of the wrappers are of no concern to a copy.
LEMMA Rebase ==
  ASSUME NEW X, NEW Y, NEW sv, NEW s, NEW org, NEW lorg, NEW q \in Seq(Seq(Vals)),
         CopyInv(X, sv, Still(s), org, lorg), X.base \in Heaps,
         Y.heap = X.heap, Y.src = X.src, Y.base = Recol(X.base, q)
  PROVE  CopyInv(Y, sv, Still(Recol(s, q)), org, lorg)
<1> DEFINE t == Recol(s, q)
           b == Recol(X.base, q)
<1>1. s \in Heaps
  BY CopyHeaps
<1>2. /\ t \in Heaps /\ t.cols = q /\ t.kind = s.kind /\ t.slots = s.slots /\ t.val = s.val
      /\ t.id = s.id /\ t.object_map = s.object_map
      /\ t.upvalue_map = s.upvalue_map /\ t.collector_map = s.collector_map
  BY <1>1, RecolIs
<1>3. Y.base = b /\ b.cols = q /\ b.kind = X.base.kind /\ b.slots = X.base.slots
      /\ b.val = X.base.val /\ b.id = X.base.id
  BY RecolIs
<1> HIDE DEF t, b
<1> USE DEF CopyInv
<1>4. Still(t) \in Copies
  BY <1>2 DEF Still, Copies
<1>5. Extent(Y, t, org, lorg) /\ Origins(Y, t, org, lorg)
  BY SMTT(30), <1>2, <1>3, StillIs DEF Extent, Origins
<1>6. SlotsSet(Y, Still(t), org, lorg)
  BY <1>2, StillIs DEF SlotsSet
<1>7. ValuesAgree(Y, t, org, lorg) /\ ObjectMap(t, org) /\ TablesOnce(Y, org)
  BY <1>2, StillIs DEF ValuesAgree, ObjectMap, TablesOnce
<1>8. \A m : IsSet(Still(s), org, m) => IsSet(Still(t), org, m)
  BY <1>2, StillIs DEF IsSet
<1>9. UpvalueMap(Y, Still(t), org, lorg)
  <2>1. ASSUME NEW u \in DOMAIN s.upvalue_map
        PROVE  /\ IsSet(Still(t), org, s.upvalue_map[u])
               /\ X.src[lorg[s.slots[s.upvalue_map[u].object][s.upvalue_map[u].number]]].id = u
    <3> DEFINE r == s.upvalue_map[u]
    <3>1. IsSet(Still(s), org, r) /\ X.src[lorg[s.slots[r.object][r.number]]].id = u
      BY Zenon, StillIs DEF UpvalueMap
    <3> HIDE DEF r
    <3>2. IsSet(Still(t), org, r) /\ X.src[lorg[s.slots[r.object][r.number]]].id = u
      BY <1>8, <3>1
    <3> QED
      BY Zenon, <3>2 DEF r
  <2>2. Still(t).state = t /\ t.upvalue_map = s.upvalue_map /\ t.slots = s.slots /\ Y.src = X.src
    BY <1>2, StillIs
  <2> QED
    BY ZenonT(30), <2>1, <2>2 DEF UpvalueMap
<1>10. CollectorMap(Y, Still(t), org, lorg)
  <2>1. ASSUME NEW u \in DOMAIN s.collector_map
        PROVE  /\ IsSet(Still(t), org, s.collector_map[u])
               /\ X.src[lorg[s.slots[s.collector_map[u].object][s.collector_map[u].number]]].collector_id = u
    <3> DEFINE r == s.collector_map[u]
    <3>1. IsSet(Still(s), org, r) /\ X.src[lorg[s.slots[r.object][r.number]]].collector_id = u
      BY Zenon, StillIs DEF CollectorMap
    <3> HIDE DEF r
    <3>2. IsSet(Still(t), org, r) /\ X.src[lorg[s.slots[r.object][r.number]]].collector_id = u
      BY <1>8, <3>1
    <3> QED
      BY Zenon, <3>2 DEF r
  <2>2. \A y \in DOMAIN lorg :
          X.src[lorg[y]].collector_id # 0 => X.src[lorg[y]].collector_id \in DOMAIN t.collector_map
    BY Zenon, <1>2, StillIs DEF CollectorMap
  <2>3. Still(t).state = t /\ t.collector_map = s.collector_map /\ t.slots = s.slots /\ Y.src = X.src
    BY <1>2, StillIs
  <2> QED
    BY ZenonT(30), <2>1, <2>2, <2>3 DEF CollectorMap
<1>11. Holders(Y, Still(t), org, lorg)
  BY <1>2, StillIs DEF Holders
<1>12. Untouched(Y, lorg) /\ SourceReached(Y, org, lorg)
  BY DEF Untouched, SourceReached
<1>13. CallsOK(sv, Still(t), org) /\ CallsNested(sv, Still(t))
  BY StillIs DEF CallsOK, CallsNested
<1>14. Kept(Y.base, t)
  BY <1>2, <1>3, StillIs DEF Kept
<1> QED
  BY <1>4, <1>5, <1>6, <1>7, <1>9, <1>10, <1>11, <1>12, <1>13, <1>14, StillIs DEF t

\* push_object for a value of s.
LEMMA PushObjectKeeps ==
  ASSUME NEW s, WorkerOK(s), NEW b, BaseOK(b), NEW y, NEW org, NEW lorg,
         CopyInv(PSrc(s, b), None, Still(y), org, lorg),
         NEW v, Plain(s, v), Serializable(s, v),
         NEW p, p = PushObject(y, SerializeObject(s, v))
  PROVE  \E org2, lorg2 :
           /\ CopyInv(PSrc(s, b), None, Still(p.state), org2, lorg2) /\ Extends(org, org2)
           /\ Agree(org2, v, p.v) /\ p.v \in Vals
<1> DEFINE X == PSrc(s, b)
           sv == SerializeObject(s, v)
<1>1. SourceOK(X) /\ X.heap = s /\ DOMAIN X.src = DOMAIN s.val
      /\ \A l \in DOMAIN s.val : X.src[l] = SerializeSlot(s, l)
  BY PSrcIs
<1> HIDE DEF X
<1>2. v \in Vals /\ EngineOK(s) /\ sv.v = v
  BY DEF Plain, WorkerOK, SerializeObject
<1>3. CopyInv(X, None, Still(y), org, lorg) /\ y \in Heaps /\ Extends(org, org)
  BY CopyHeaps DEF X, Extends
<1>4. Len(y.kind) \in Nat /\ Len(b.kind) \in Nat /\ DOMAIN org = Len(b.kind) + 1..Len(y.kind)
  <2>1. X.base = b
    BY PSrcIs DEF X
  <2> QED
    BY <1>3, <2>1, StillIs DEF CopyInv, Extent, Heaps, BaseOK
<1>5. ObjectMap(y, org)
  BY <1>3, StillIs DEF CopyInv
<1> HIDE DEF sv
<1>6. CASE v[1] # "obj"
  <2>1. p.state = y /\ p.v = v
    BY <1>2, <1>6 DEF PushObject, Seen, Fetched, sv
  <2>2. Agree(org, v, v)
    BY <1>6 DEF Agree
  <2> QED
    BY <1>2, <1>3, <2>1, <2>2 DEF X
<1>7. CASE v[1] = "obj" /\ v[2] \in DOMAIN y.object_map
  <2> DEFINE o == y.object_map[v[2]]
  <2>1. p.state = y /\ p.v = Obj(o)
    BY <1>2, <1>7 DEF PushObject, Seen, Fetched, sv
  <2>2. o \in DOMAIN org /\ org[o] = v[2]
    BY <1>5, <1>7 DEF ObjectMap
  <2> HIDE DEF o
  <2>3. o \in Nat
    BY <1>4, <2>2
  <2>4. Obj(o)[1] = "obj" /\ Obj(o)[2] = o /\ Obj(o) \in Vals
    BY <2>3 DEF Obj, Vals, Tags
  <2>5. Agree(org, v, p.v) /\ p.v \in Vals
    BY <1>7, <2>1, <2>2, <2>4 DEF Agree
  <2> QED
    BY <1>3, <2>1, <2>5 DEF X
<1>8. CASE v[1] = "obj" /\ v[2] \notin DOMAIN y.object_map
  <2> DEFINE o == Len(y.kind) + 1
  <2>1. p.state = Copied(y, sv) /\ p.v = Obj(o)
    BY <1>2, <1>8 DEF PushObject, Seen, sv
  <2>2. v[2] \in DOMAIN s.kind
    BY <1>8 DEF Plain
  <2>3. ASSUME NEW d \in Objects(s, v), NEW k \in DOMAIN s.slots[d]
        PROVE  s.slots[d][k] \in DOMAIN X.src /\ X.src[s.slots[d][k]] = SerializeSlot(s, s.slots[d][k])
    <3>1. d \in DOMAIN s.kind
      BY DEF Objects
    <3>2. s.slots[d][k] \in DOMAIN s.val
      BY <1>2, <3>1 DEF EngineOK, SlotsIn
    <3> QED
      BY <1>1, <3>2
  <2>4. NodesOK(X, sv) /\ NoEndless(sv) /\ v[2] \in DOMAIN sv.nodes
    BY <1>1, <1>2, <1>8, <2>2, <2>3, NodesAre DEF sv
  <2>5. CopyInv(X, sv, Still(y), org, lorg)
    BY <1>3, StillAny
  <2>6. \E org2, lorg2 :
           /\ CopyInv(X, sv, Still(Copied(y, sv)), org2, lorg2)
           /\ Extends(org, org2) /\ Extends(lorg, lorg2)
           /\ Len(y.kind) + 1 \in DOMAIN org2 /\ org2[Len(y.kind) + 1] = sv.v[2]
    BY <1>1, <1>2, <1>8, <2>4, <2>5, CopiedKeeps
  <2>7. PICK org2, lorg2 :
           /\ CopyInv(X, sv, Still(Copied(y, sv)), org2, lorg2)
           /\ Extends(org, org2)
           /\ o \in DOMAIN org2 /\ org2[o] = v[2]
    BY <1>2, <2>6
  <2>8. CopyInv(X, None, Still(p.state), org2, lorg2)
    BY <2>1, <2>7, StillAny
  <2>9. o \in Nat
    BY <1>4
  <2> HIDE DEF o
  <2>10. Obj(o)[1] = "obj" /\ Obj(o)[2] = o /\ Obj(o) \in Vals
    BY <2>9 DEF Obj, Vals, Tags
  <2>11. Agree(org2, v, p.v) /\ p.v \in Vals
    BY <1>8, <2>1, <2>7, <2>10 DEF Agree
  <2> QED
    BY <2>7, <2>8, <2>11 DEF X
<1> QED
  BY <1>6, <1>7, <1>8

\* State y of the engine in the middle of script_engine_pull_data, which
\* began with b.
PullState(s, b, y, org, lorg) == CopyInv(PSrc(s, Recol(b, y.cols)), None, Still(y), org, lorg)

\* q2 has w at the end of the c-th column.
Grown(q, c, w, q2) == q2 = [q EXCEPT ![c] = Append(@, w)]

\* add_collected_value
LEMMA AddKeeps ==
  ASSUME NEW s, WorkerOK(s), NEW b, BaseOK(b), NEW y, NEW org, NEW lorg,
         PullState(s, b, y, org, lorg), NEW c \in DOMAIN y.cols,
         NEW v, Plain(s, v), Serializable(s, v),
         NEW z, z = AddValue(y, c, SerializeObject(s, v))
  PROVE  \E org2, lorg2, w :
           /\ PullState(s, b, z, org2, lorg2) /\ Extends(org, org2)
           /\ Agree(org2, v, w) /\ Grown(y.cols, c, w, z.cols)
<1> DEFINE b1 == Recol(b, y.cols)
           p == PushObject(y, SerializeObject(s, v))
<1>1. y \in Heaps
  BY CopyHeaps DEF PullState
<1>2. y.cols \in Seq(Seq(Vals)) /\ b \in Heaps
  BY <1>1 DEF Heaps, BaseOK
<1>3. BaseOK(b1) /\ b1 \in Heaps
  BY <1>2, RecolIs DEF BaseOK
<1> HIDE DEF b1
<1>4. CopyInv(PSrc(s, b1), None, Still(y), org, lorg)
  BY DEF PullState, b1
<1>5. \E org2, lorg2 :
        /\ CopyInv(PSrc(s, b1), None, Still(p.state), org2, lorg2) /\ Extends(org, org2)
        /\ Agree(org2, v, p.v) /\ p.v \in Vals
  <2> HIDE DEF p
  <2> QED
    BY <1>3, <1>4, PushObjectKeeps DEF p
<1>6. z = [p.state EXCEPT !.cols[c] = Append(@, p.v)]
  BY DEF AddValue
<1> HIDE DEF p
<1>7. PICK org2, lorg2 :
        /\ CopyInv(PSrc(s, b1), None, Still(p.state), org2, lorg2) /\ Extends(org, org2)
        /\ Agree(org2, v, p.v) /\ p.v \in Vals
  BY <1>5
<1>8. p.state \in Heaps
  BY <1>7, CopyHeaps
<1>9. PSrc(s, b1).base = b1
  BY DEF PSrc
<1>10. p.state.cols = y.cols
  <2>1. Kept(b1, p.state) /\ Kept(b1, y)
    BY <1>4, <1>7, <1>9, StillIs DEF CopyInv
  <2> QED
    BY <2>1 DEF Kept
<1> DEFINE q == [y.cols EXCEPT ![c] = Append(@, p.v)]
<1>11. q \in Seq(Seq(Vals))
  <2>1. y.cols[c] \in Seq(Vals)
    BY <1>2, ElementIs
  <2>2. Append(y.cols[c], p.v) \in Seq(Vals)
    BY <1>7, <2>1, AppendProperties
  <2> QED
    BY <1>2, <2>2, ReplacedIs
<1>12. z = Recol(p.state, q)
  BY <1>6, <1>8, <1>10 DEF Recol, Heaps
<1> HIDE DEF q
<1>13. z.cols = q
  BY <1>8, <1>11, <1>12, RecolIs
<1>14. Recol(b, q) = Recol(b1, q)
  BY <1>2 DEF Recol, b1, Heaps
<1> DEFINE X == PSrc(s, b1)
           Y == PSrc(s, Recol(b, q))
<1>15. X.base = b1 /\ Y.heap = X.heap /\ Y.src = X.src /\ Y.base = Recol(b1, q)
  BY <1>14 DEF PSrc
<1>16. CopyInv(Y, None, Still(z), org2, lorg2)
  <2> HIDE DEF X, Y
  <2>1. CopyInv(X, None, Still(p.state), org2, lorg2)
    BY <1>7 DEF X
  <2> QED
    BY <1>3, <1>11, <1>12, <1>15, <2>1, Rebase
<1>17. PullState(s, b, z, org2, lorg2)
  BY <1>13, <1>16 DEF PullState
<1>18. Grown(y.cols, c, p.v, z.cols)
  BY <1>13 DEF q, Grown
<1> QED
  BY <1>7, <1>17, <1>18

\* What script_engine_pull_data needs to go through.
PullReady(e, s) ==
  /\ WorkerOK(s) /\ BaseOK(e)
  /\ \A c \in DOMAIN e.cols : Plain(s, CollectedValue(s, c)) /\ Serializable(s, CollectedValue(s, c))

\* The collectors after n of them, the newest first, have got their values.
Columns(y, e, s, n, org) ==
  /\ DOMAIN y.cols = DOMAIN e.cols
  /\ \A c \in DOMAIN e.cols :
       IF c + n > Len(e.cols)
       THEN \E w : y.cols[c] = Append(e.cols[c], w) /\ Agree(org, CollectedValue(s, c), w)
       ELSE y.cols[c] = e.cols[c]

Pulled(e, s, n) ==
  {y \in Heaps : \E org, lorg : PullState(s, NewCache(e), y, org, lorg) /\ Columns(y, e, s, n, org)}

LEMMA NewCacheIs ==
  ASSUME NEW e, BaseOK(e)
  PROVE  /\ BaseOK(NewCache(e)) /\ NewCache(e).cols = e.cols
         /\ NewCache(e).kind = e.kind /\ NewCache(e).slots = e.slots /\ NewCache(e).val = e.val
         /\ NewCache(e).object_map = <<>> /\ NewCache(e).upvalue_map = <<>>
         /\ NewCache(e).collector_map = <<>> /\ Recol(NewCache(e), e.cols) = NewCache(e)
<1>1. <<>> \in Maps(Nat) /\ <<>> \in Maps(Where)
  BY EmptyMap
<1> QED
  BY <1>1 DEF BaseOK, NewCache, Recol, Heaps

LEMMA PulledStart ==
  ASSUME NEW e, NEW s, PullReady(e, s)
  PROVE  NewCache(e) \in Pulled(e, s, 0)
<1> DEFINE b == NewCache(e)
           X == PSrc(s, b)
<1>1. /\ BaseOK(b) /\ b.cols = e.cols /\ Recol(b, b.cols) = b
      /\ b.object_map = <<>> /\ b.upvalue_map = <<>> /\ b.collector_map = <<>>
  BY NewCacheIs DEF PullReady
<1> HIDE DEF b
<1>2. X.heap = s /\ X.base = b /\ DOMAIN X.src = DOMAIN s.val
  BY DEF PSrc
<1>3. \A l \in DOMAIN s.val : X.src[l].value = s.val[l]
  <2>1. WorkerOK(s)
    BY DEF PullReady
  <2> HIDE DEF X
  <2> QED
    BY <1>1, <2>1, PSrcIs DEF X
<1> HIDE DEF X
<1>4. CopyInv(X, None, Still(b), <<>>, <<>>)
  BY <1>1, <1>2, <1>3, BaseStart
<1>5. PullState(s, b, b, <<>>, <<>>)
  BY <1>1, <1>4 DEF PullState, X
<1>6. Columns(b, e, s, 0, <<>>)
  <2>1. \A c \in DOMAIN e.cols : c + 0 <= Len(e.cols)
    BY DEF PullReady, BaseOK, Heaps
  <2> QED
    BY <1>1, <2>1 DEF Columns, PullReady, BaseOK, Heaps
<1>7. b \in Heaps
  BY <1>1 DEF BaseOK
<1> QED
  BY <1>5, <1>6, <1>7 DEF Pulled, b

LEMMA AgreeExtends ==
  ASSUME NEW org, NEW org2, Extends(org, org2), NEW v, NEW w, Agree(org, v, w)
  PROVE  Agree(org2, v, w)
  BY DEF Agree, Extends

LEMMA FromLast ==
  ASSUME NEW C \in Nat, NEW n \in Nat, n < C, NEW c, c = C - n
  PROVE  c \in 1..C /\ c + (n + 1) > C
  OBVIOUS

LEMMA PulledStep ==
  ASSUME NEW e, NEW s, PullReady(e, s), NEW n \in Nat, n < Len(e.cols), NEW y \in Pulled(e, s, n),
         NEW c, c = Len(e.cols) - n
  PROVE  AddValue(y, c, SerializeObject(s, CollectedValue(s, c))) \in Pulled(e, s, n + 1)
<1> DEFINE b == NewCache(e)
           v == CollectedValue(s, c)
           z == AddValue(y, c, SerializeObject(s, v))
<1>1. PICK org, lorg : PullState(s, b, y, org, lorg) /\ Columns(y, e, s, n, org)
  BY DEF Pulled
<1>2. Len(e.cols) \in Nat /\ DOMAIN e.cols = 1..Len(e.cols)
  BY DEF PullReady, BaseOK, Heaps
<1>3. c \in DOMAIN e.cols /\ c + (n + 1) > Len(e.cols)
  BY <1>2, FromLast
<1>4. Plain(s, v) /\ Serializable(s, v) /\ WorkerOK(s) /\ c \in DOMAIN y.cols
  BY <1>1, <1>3 DEF PullReady, Columns
<1>5. BaseOK(b)
  BY NewCacheIs DEF PullReady
<1>6. \E org2, lorg2, w :
           /\ PullState(s, b, z, org2, lorg2) /\ Extends(org, org2)
           /\ Agree(org2, v, w) /\ Grown(y.cols, c, w, z.cols)
  <2>1. z = AddValue(y, c, SerializeObject(s, v))
    OBVIOUS
  <2> HIDE DEF b, v, z
  <2> QED
    BY <1>1, <1>4, <1>5, <2>1, AddKeeps
<1> HIDE DEF b, z
<1>7. PICK org2, lorg2, w :
           /\ PullState(s, b, z, org2, lorg2) /\ Extends(org, org2)
           /\ Agree(org2, v, w) /\ Grown(y.cols, c, w, z.cols)
  BY <1>6
<1>8. y.cols[c] = e.cols[c]
  BY SMTT(30), <1>1, <1>2, <1>3 DEF Columns
<1>9. DOMAIN z.cols = DOMAIN e.cols /\ z.cols[c] = Append(e.cols[c], w)
      /\ \A d \in DOMAIN e.cols : d # c => z.cols[d] = y.cols[d]
  BY <1>1, <1>3, <1>7, <1>8 DEF Columns, Grown
<1>10. ASSUME NEW d \in DOMAIN e.cols
       PROVE  IF d + (n + 1) > Len(e.cols)
              THEN \E u : z.cols[d] = Append(e.cols[d], u) /\ Agree(org2, CollectedValue(s, d), u)
              ELSE z.cols[d] = e.cols[d]
  <2>1. CASE d = c
    <3>1. d + (n + 1) > Len(e.cols)
      BY <1>3, <2>1
    <3> QED
      BY <1>7, <1>9, <2>1, <3>1
  <2>2. CASE d # c
    <3>1. d + (n + 1) > Len(e.cols) <=> d + n > Len(e.cols)
      BY <1>2, <2>2
    <3>2. z.cols[d] = y.cols[d]
      BY <1>9, <2>2
    <3>3. CASE d + n > Len(e.cols)
      <4>1. PICK u : y.cols[d] = Append(e.cols[d], u) /\ Agree(org, CollectedValue(s, d), u)
        BY <1>1, <3>3 DEF Columns
      <4>2. Agree(org2, CollectedValue(s, d), u)
        BY <1>7, <4>1, AgreeExtends
      <4> QED
        BY <3>1, <3>2, <3>3, <4>1, <4>2
    <3>4. CASE ~ (d + n > Len(e.cols))
      BY <1>1, <3>1, <3>2, <3>4 DEF Columns
    <3> QED
      BY <3>3, <3>4
  <2> QED
    BY <2>1, <2>2
<1>11. Columns(z, e, s, n + 1, org2)
  BY <1>9, <1>10 DEF Columns
<1>12. z \in Heaps
  BY <1>7, CopyHeaps DEF PullState
<1>13. z \in Pulled(e, s, n + 1)
  BY <1>7, <1>11, <1>12 DEF Pulled, b
<1> QED
  BY <1>13 DEF z

\* script_engine_pull_data
LEMMA PullDataKeeps ==
  ASSUME NEW e, NEW s, PullReady(e, s)
  PROVE  PullData(e, s) \in Pulled(e, s, Len(e.cols))
<1> DEFINE C == Len(e.cols)
           x == NewCache(e)
           U == Heaps
           Step(n, y) == AddValue(y, C - n, SerializeObject(s, CollectedValue(s, C - n)))
           In == [n \in Nat |-> IF n <= C THEN Pulled(e, s, n) ELSE U]
           F == [p \in Nat \X U |-> IF p[1] < C /\ p[2] \in Pulled(e, s, p[1]) THEN Step(p[1], p[2]) ELSE p[2]]
           Is(f) == f = [n \in 0..C |-> IF n = 0 THEN x
                                        ELSE LET c == C + 1 - n
                                             IN  AddValue(f[n - 1], c, SerializeObject(s, CollectedValue(s, c)))]
           f == CHOOSE f : Is(f)
<1>1. PullData(e, s) = f[C]
  BY DEF PullData
<1>2. C \in Nat
  BY DEF PullReady, BaseOK, Heaps
<1> HIDE DEF C, x
<1>3. x \in Pulled(e, s, 0) /\ \A n \in Nat : Pulled(e, s, n) \in SUBSET U
  BY PulledStart DEF Pulled, x
<1>4. ASSUME NEW n \in Nat, n < C, NEW y \in Pulled(e, s, n) PROVE Step(n, y) \in Pulled(e, s, n + 1)
  BY <1>2, <1>4, PulledStep DEF C
<1> HIDE DEF Step, U
<1>5. ASSUME NEW p \in Nat \X U
      PROVE  (IF p[1] < C /\ p[2] \in Pulled(e, s, p[1]) THEN Step(p[1], p[2]) ELSE p[2]) \in U
  <2>1. CASE p[1] < C /\ p[2] \in Pulled(e, s, p[1])
    <3>1. p[1] \in Nat /\ p[1] + 1 \in Nat
      OBVIOUS
    <3>2. Step(p[1], p[2]) \in Pulled(e, s, p[1] + 1)
      BY <1>4, <2>1, <3>1
    <3> QED
      BY <1>3, <2>1, <3>1, <3>2
  <2> QED
    BY <2>1
<1>6. F \in [Nat \X U -> U]
  BY <1>5
<1>7. In \in [Nat -> SUBSET U] /\ x \in In[0]
  BY <1>2, <1>3
<1>8. ASSUME NEW n \in Nat, NEW y \in In[n] PROVE F[<<n, y>>] \in In[n + 1]
  <2>1. y \in U
    BY <1>7
  <2>2. <<n, y>> \in Nat \X U
    BY <2>1
  <2>3. F[<<n, y>>] = IF n < C /\ y \in Pulled(e, s, n) THEN Step(n, y) ELSE y
    BY <2>2
  <2>4. F[<<n, y>>] \in U
    BY <1>6, <2>2
  <2>5. CASE n < C
    <3>1. y \in Pulled(e, s, n)
      BY <1>2, <2>5
    <3>2. Step(n, y) \in Pulled(e, s, n + 1)
      BY <1>4, <2>5, <3>1
    <3>3. In[n + 1] = Pulled(e, s, n + 1)
      BY <1>2, <2>5
    <3> QED
      BY <2>3, <2>5, <3>1, <3>2, <3>3
  <2>6. CASE ~ (n < C)
    <3>1. In[n + 1] = U
      BY <1>2, <2>6
    <3> QED
      BY <2>4, <3>1
  <2> QED
    BY <2>5, <2>6
<1>9. \A n \in 0..C : In[n] = Pulled(e, s, n)
  BY <1>2
<1>10. ASSUME NEW n \in Nat, n < C, NEW y \in Pulled(e, s, n) PROVE F[<<n, y>>] = Step(n, y)
  BY <1>3, <1>10
<1> HIDE DEF F, In
<1>11. PICK g : Iterates(g, U, In, x, F)
  BY <1>6, <1>7, <1>8, Iteration DEF Iterable
<1>12. ASSUME NEW n \in 0..C PROVE g[n] \in Pulled(e, s, n)
  <2>1. n \in Nat
    BY <1>2
  <2>2. g[n] \in In[n]
    BY <1>11, <2>1 DEF Iterates
  <2> QED
    BY <1>9, <2>2
<1>13. ASSUME NEW n \in Nat, n < C PROVE g[n + 1] = Step(n, g[n])
  <2>1. n \in 0..C
    BY <1>2, <1>13
  <2> QED
    BY <1>10, <1>11, <1>12, <1>13, <2>1 DEF Iterates
<1> DEFINE k == [n \in 0..C |-> g[n]]
<1>14. Is(k)
  <2>1. ASSUME NEW n \in 0..C
        PROVE  g[n] = IF n = 0 THEN x
                      ELSE LET c == C + 1 - n
                           IN  AddValue(k[n - 1], c, SerializeObject(s, CollectedValue(s, c)))
    <3>1. CASE n = 0
      BY <1>11, <3>1 DEF Iterates
    <3>2. CASE n # 0
      <4>1. n - 1 \in Nat /\ n - 1 < C /\ (n - 1) + 1 = n /\ n - 1 \in 0..C /\ C - (n - 1) = C + 1 - n
        BY <1>2, <3>2
      <4>2. g[n] = Step(n - 1, g[n - 1]) /\ k[n - 1] = g[n - 1]
        BY <1>13, <4>1
      <4> HIDE DEF k
      <4> QED
        BY <3>2, <4>1, <4>2 DEF Step
    <3> QED
      BY <3>1, <3>2
  <2> QED
    BY <2>1
<1>15. Is(f)
  BY <1>14
<1> HIDE DEF f, k
<1> DEFINE T == {n \in Nat : n <= C => f[n] = g[n]}
<1>16. 0 \in T
  <2>1. 0 \in 0..C
    BY <1>2
  <2>2. f[0] = x
    BY <1>15, <2>1
  <2> QED
    BY <1>11, <2>2 DEF Iterates
<1>17. ASSUME NEW n \in T PROVE n + 1 \in T
  <2> SUFFICES ASSUME n + 1 <= C PROVE f[n + 1] = g[n + 1]
    OBVIOUS
  <2>1. n + 1 \in 0..C /\ n + 1 # 0 /\ (n + 1) - 1 = n /\ C + 1 - (n + 1) = C - n /\ n < C /\ n \in Nat
    BY <1>2
  <2>2. f[n + 1] = AddValue(f[n], C - n, SerializeObject(s, CollectedValue(s, C - n)))
    BY <1>15, <2>1
  <2>3. f[n] = g[n]
    BY <1>2, <2>1
  <2> QED
    BY <1>13, <2>1, <2>2, <2>3 DEF Step
<1> HIDE DEF T
<1>18. T = Nat
  BY <1>16, <1>17, Induction DEF T
<1>19. f[C] = g[C]
  BY <1>2, <1>18 DEF T
<1>20. g[C] \in Pulled(e, s, C)
  BY <1>2, <1>12
<1> QED
  BY <1>1, <1>19, <1>20 DEF C

----------------------------------------------------------------------------
(* The values collected from a worker are those in its private copy.       *)

HeldIn(hk, sn, c) == {l \in Used(hk, sn) : \E h \in Users(hk) : sn[h].val[l] = Col(c)}

\* The values of a worker with copy i and hooks k for c cannot be had.
Cannot(i, k, hk, sn, c) ==
  \/ \A h \in Hooks : k[h] # 0 => Reached(sn[h], Func[h]) \intersect HeldIn(hk, sn, c) = {}
  \/ \E l \in HeldIn(hk, sn, c) : ~ Serializable(i, i.val[l])

\* The hooks were registered by one script.
Family(hk, sn) == \A g, h \in Users(hk) : Lookalike(sn[g], sn[h])

\* A collector that a worker has a value for has it at a location that held it.
LEMMA CollectorHeld ==
  ASSUME NEW i, NEW s, NEW hk, NEW sn, NEW org, NEW lorg, HooksOK(i, hk, sn),
         CopyInv(Source(i, hk, sn), None, Still(s), org, lorg),
         NEW c \in DOMAIN s.collector_map, c # 0
  PROVE  \E x \in DOMAIN lorg : CollectedValue(s, c) = s.val[x] /\ lorg[x] \in HeldIn(hk, sn, c)
<1> DEFINE X == Source(i, hk, sn)
           m == s.collector_map[c]
           x == s.slots[m.object][m.number]
           l == lorg[x]
<1>1. X.src = Src(hk, sn) /\ DOMAIN X.src = Used(hk, sn) /\ X.heap = i
  BY SourceIs
<1> HIDE DEF X
<1>2. CopyInv(X, None, Still(s), org, lorg)
  BY DEF X
<1>3. IsSet(Still(s), org, m) /\ X.src[l].collector_id = c
  BY Zenon, <1>2, StillIs DEF CopyInv, CollectorMap
<1>4. CollectedValue(s, c) = s.val[x]
  BY DEF CollectedValue
<1> HIDE DEF m
<1>5. x \in DOMAIN lorg
  <2>1. Mirrors(X.heap, s, org, lorg)
    BY <1>2, StillMirrors
  <2> QED
    BY <1>3, <2>1, StillIs DEF IsSet, Mirrors
<1> HIDE DEF x
<1>6. l \in Used(hk, sn)
  BY <1>1, <1>2, <1>5 DEF CopyInv, Origins
<1> HIDE DEF l
<1>7. PICK h \in Users(hk) : l \in Reached(sn[h], Func[h])
  BY <1>6 DEF Used
<1> DEFINE e == sn[h]
<1>8. EngineOK(e) /\ Func[h] \in DOMAIN e.kind /\ X.src[l] = SerializeSlot(e, l)
  BY <1>1, <1>7 DEF HooksOK
<1> HIDE DEF e
<1>9. l \in DOMAIN e.val
  BY <1>7, <1>8, ReachedIs DEF e
<1>10. c = IF e.val[l][1] = "col" THEN e.val[l][2] ELSE 0
  BY <1>3, <1>8, <1>9, SerializeSlotIs
<1>11. e.val[l] \in Vals
  BY <1>8, <1>9, ElementIs DEF EngineOK, Heaps
<1>12. e.val[l] = Col(c)
  BY <1>10, <1>11 DEF Vals, Col
<1> QED
  BY <1>4, <1>5, <1>6, <1>12 DEF HeldIn, e, l

\* All that a loaded hook uses has been copied.
LEMMA LoadedReach ==
  ASSUME NEW i, NEW s, NEW hk, NEW sn, NEW org, NEW lorg, HooksOK(i, hk, sn),
         CopyInv(Source(i, hk, sn), None, Still(s), org, lorg), NEW h \in Users(hk),
         NEW d \in DOMAIN org, org[d] = Func[h], NEW l \in Reached(sn[h], Func[h])
  PROVE  \E x \in DOMAIN lorg : lorg[x] = l
<1> DEFINE X == Source(i, hk, sn)
           e == sn[h]
           v == Obj(Func[h])
           N == Objects(e, v)
           T == {o \in N : \E a \in DOMAIN org : org[a] = o}
<1>1. X.src = Src(hk, sn) /\ X.heap = i
  BY SourceIs
<1> HIDE DEF X
<1>2. CopyInv(X, None, Still(s), org, lorg)
  BY DEF X
<1>3. Mirrors(i, s, org, lorg)
  BY <1>1, <1>2, StillMirrors
<1>4. /\ EngineOK(e) /\ Func[h] \in DOMAIN e.kind /\ e.slots = i.slots
      /\ \A m \in Reached(e, Func[h]) : X.src[m] = SerializeSlot(e, m)
  BY <1>1 DEF HooksOK
<1>5. v[1] = "obj" /\ v[2] = Func[h] /\ Reached(e, Func[h]) = Reached(sn[h], Func[h])
  BY DEF Obj
<1> HIDE DEF e
<1>6. /\ Func[h] \in N /\ N \subseteq DOMAIN e.kind /\ Closed(e, N)
      /\ Reached(e, Func[h]) \subseteq DOMAIN e.val
      /\ \A p \in N : \A k \in DOMAIN e.slots[p] : e.slots[p][k] \in Reached(e, Func[h])
  BY <1>4, ReachedIs
<1>7. Reached(e, Func[h]) = UNION {{e.slots[p][k] : k \in DOMAIN e.slots[p]} : p \in N}
  BY DEF Reached
<1> HIDE DEF v, N
<1>8. ASSUME NEW a \in DOMAIN org, NEW k \in DOMAIN e.slots[org[a]]
      PROVE  \E x \in DOMAIN lorg : lorg[x] = e.slots[org[a]][k]
  <2>1. k \in DOMAIN s.slots[a]
    BY <1>3, <1>4 DEF Mirrors
  <2>2. s.slots[a][k] \in DOMAIN lorg /\ lorg[s.slots[a][k]] = e.slots[org[a]][k]
    BY <1>3, <1>4, <2>1 DEF Mirrors
  <2> QED
    BY <2>2
<1>9. Closed(e, T)
  <2> SUFFICES ASSUME NEW a \in DOMAIN org, org[a] \in N, NEW k \in DOMAIN e.slots[org[a]],
                      Content(e, org[a], k)[1] = "obj"
               PROVE  Content(e, org[a], k)[2] \in T
    BY DEF Closed
  <2> DEFINE m == e.slots[org[a]][k]
             w == Content(e, org[a], k)
  <2>1. w[2] \in N
    BY <1>6 DEF Closed
  <2>2. m \in Reached(e, Func[h]) /\ m \in DOMAIN e.val
    BY <1>6
  <2>3. X.src[m].value = w
    BY <1>4, <2>2, SerializeSlotIs DEF Inner, Content
  <2>4. PICK x \in DOMAIN lorg : lorg[x] = m
    BY <1>8
  <2> HIDE DEF m
  <2>5. w[1] = "obj"
    OBVIOUS
  <2> HIDE DEF w
  <2>6. \E b \in DOMAIN org : org[b] = w[2]
    BY <1>2, <2>3, <2>4, <2>5 DEF CopyInv, SourceReached
  <2>7. w[2] \in T
    BY <2>1, <2>6
  <2> QED
    BY <2>7 DEF w
<1>10. T \in SUBSET DOMAIN e.kind /\ v[2] \in T
  BY <1>5, <1>6
<1>11. N \subseteq T
  <2> HIDE DEF T
  <2> QED
    BY <1>9, <1>10, ObjectsLeast DEF N
<1>12. PICK p \in N : \E k \in DOMAIN e.slots[p] : l = e.slots[p][k]
  BY <1>5, <1>7
<1>13. PICK a \in DOMAIN org : org[a] = p
  BY <1>11, <1>12
<1> QED
  BY <1>8, <1>12, <1>13

\* A collector that a worker has no value for is in none of its hooks.
LEMMA NotHeld ==
  ASSUME NEW i, NEW s, NEW k, NEW hk, NEW sn, NEW org, NEW lorg, HooksOK(i, hk, sn), Family(hk, sn),
         CopyInv(Source(i, hk, sn), None, Still(s), org, lorg), KeysOK(k, hk, org),
         NEW c \in Nat \ {0}, c \notin DOMAIN s.collector_map
  PROVE  Cannot(i, k, hk, sn, c)
<1> SUFFICES ASSUME NEW h \in Hooks, k[h] # 0, NEW l \in Reached(sn[h], Func[h]), l \in HeldIn(hk, sn, c)
             PROVE  FALSE
  BY DEF Cannot
<1>1. h \in Users(hk) /\ k[h] \in DOMAIN org /\ org[k[h]] = Func[h]
  BY DEF KeysOK
<1>2. PICK x \in DOMAIN lorg : lorg[x] = l
  BY <1>1, LoadedReach
<1>3. PICK g \in Users(hk) : sn[g].val[l] = Col(c)
  BY DEF HeldIn
<1> DEFINE e == sn[h]
<1>4. EngineOK(e) /\ Func[h] \in DOMAIN e.kind /\ Src(hk, sn)[l] = SerializeSlot(e, l)
  BY <1>1 DEF HooksOK
<1>5. l \in DOMAIN e.val
  BY <1>4, ReachedIs
<1>6. e.val[l] = Col(c)
  <2>1. Lookalike(e, sn[g])
    BY <1>1, <1>3 DEF Family
  <2>2. sn[g].val[l][1] = "col"
    BY <1>3 DEF Col
  <2>3. e.val[l] = sn[g].val[l] \/ (e.val[l][1] = "num" /\ sn[g].val[l][1] = "num")
    BY <1>5, <2>1 DEF Lookalike
  <2> QED
    BY <1>3, <2>2, <2>3
<1> HIDE DEF e
<1>7. Src(hk, sn)[l].collector_id = c
  <2>1. e.val[l][1] = "col" /\ e.val[l][2] = c
    BY <1>6 DEF Col
  <2> QED
    BY <1>4, <1>5, <2>1, SerializeSlotIs
<1> DEFINE X == Source(i, hk, sn)
<1>8. X.src = Src(hk, sn)
  BY SourceIs
<1>9. CollectorMap(X, Still(s), org, lorg)
  BY DEF CopyInv
<1> HIDE DEF X
<1>10. X.src[lorg[x]].collector_id # 0 => X.src[lorg[x]].collector_id \in DOMAIN s.collector_map
  BY Zenon, <1>2, <1>9, StillIs DEF CollectorMap
<1> QED
  BY <1>2, <1>7, <1>8, <1>10

LEMMA PlainIs ==
  ASSUME NEW e, EngineOK(e), NoWrappers(e), NEW l \in DOMAIN e.val
  PROVE  Plain(e, e.val[l])
<1>1. Plain(e, Inner(e, l)) /\ e.val[l][1] # "col"
  BY DEF EngineOK, NoWrappers
<1> QED
  BY <1>1, UnwrapIs DEF Inner

\* The value of a collector is a value of the worker's, and cannot be copied
\* only if that in the private copy cannot.
LEMMA ValueIs ==
  ASSUME NEW i, NEW s, NEW k, NEW hk, NEW sn, ThreadInv(i, s, k, hk, sn), Family(hk, sn),
         NEW c \in Nat \ {0}
  PROVE  /\ Serializable(s, CollectedValue(s, c)) =>
              c \in DOMAIN s.collector_map /\ Plain(s, CollectedValue(s, c))
         /\ ~ Serializable(s, CollectedValue(s, c)) => Cannot(i, k, hk, sn, c)
<1>1. PICK org, lorg : CopyInv(Source(i, hk, sn), None, Still(s), org, lorg) /\ KeysOK(k, hk, org)
  BY DEF ThreadInv
<1>2. EngineOK(i) /\ NoWrappers(i) /\ SourceOK(Source(i, hk, sn)) /\ HooksOK(i, hk, sn)
  BY DEF ThreadInv
<1>3. Reflects(i, s, org, lorg)
  BY <1>1, <1>2, ThreadReflects
<1>4. CASE c \notin DOMAIN s.collector_map
  <2>1. CollectedValue(s, c) = Nil
    BY <1>4 DEF CollectedValue
  <2>2. ~ Serializable(s, Nil)
    BY DEF Serializable, Nil
  <2>3. Cannot(i, k, hk, sn, c)
    BY <1>1, <1>2, <1>4, NotHeld
  <2> QED
    BY <2>1, <2>2, <2>3
<1>5. CASE c \in DOMAIN s.collector_map
  <2>1. PICK x \in DOMAIN lorg : CollectedValue(s, c) = s.val[x] /\ lorg[x] \in HeldIn(hk, sn, c)
    BY <1>1, <1>2, <1>5, CollectorHeld
  <2>2. x \in DOMAIN s.val
    BY <1>3 DEF Reflects
  <2>3. Plain(s, s.val[x])
    BY <1>3, <2>2, PlainIs DEF Reflects
  <2>4. Serializable(i, i.val[lorg[x]]) => Serializable(s, s.val[x])
    BY <1>3, <2>2, SerializableMirror
  <2>5. ~ Serializable(s, s.val[x]) => Cannot(i, k, hk, sn, c)
    BY <2>1, <2>4 DEF Cannot
  <2> QED
    BY <1>5, <2>1, <2>3, <2>5
<1> QED
  BY <1>4, <1>5

\* A mirror of a mirror.
LEMMA MirrorsCompose ==
  ASSUME NEW a, NEW b, NEW c, NEW org, NEW lorg, NEW org2, NEW lorg2,
         Mirrors(a, b, org, lorg), Mirrors(b, c, org2, lorg2),
         \A d \in DOMAIN org2 : org2[d] \in DOMAIN org,
         \A x \in DOMAIN lorg2 : lorg2[x] \in DOMAIN lorg,
         NEW o, o = [d \in DOMAIN org2 |-> org[org2[d]]],
         NEW l, l = [x \in DOMAIN lorg2 |-> lorg[lorg2[x]]]
  PROVE  /\ Mirrors(a, c, o, l)
         /\ \A v, u, w : Agree(org, v, u) /\ Agree(org2, u, w) => Agree(o, v, w)
<1>1. DOMAIN o = DOMAIN org2 /\ \A d \in DOMAIN org2 : o[d] = org[org2[d]]
  OBVIOUS
<1>2. DOMAIN l = DOMAIN lorg2 /\ \A x \in DOMAIN lorg2 : l[x] = lorg[lorg2[x]]
  OBVIOUS
<1>3. ASSUME NEW v, NEW u, NEW w, Agree(org, v, u), Agree(org2, u, w) PROVE Agree(o, v, w)
  BY <1>1, <1>3 DEF Agree
<1>4. ASSUME NEW d \in DOMAIN org2
      PROVE  /\ c.kind[d] = a.kind[o[d]] /\ DOMAIN c.slots[d] = DOMAIN a.slots[o[d]]
             /\ \A i \in DOMAIN c.slots[d] :
                  c.slots[d][i] \in DOMAIN l /\ l[c.slots[d][i]] = a.slots[o[d]][i]
  <2> DEFINE e == org2[d]
  <2>1. /\ c.kind[d] = b.kind[e] /\ DOMAIN c.slots[d] = DOMAIN b.slots[e]
        /\ \A i \in DOMAIN c.slots[d] :
             c.slots[d][i] \in DOMAIN lorg2 /\ lorg2[c.slots[d][i]] = b.slots[e][i]
    BY DEF Mirrors
  <2>2. e \in DOMAIN org /\ o[d] = org[e]
    BY <1>1
  <2> HIDE DEF e
  <2>3. /\ b.kind[e] = a.kind[org[e]] /\ DOMAIN b.slots[e] = DOMAIN a.slots[org[e]]
        /\ \A i \in DOMAIN b.slots[e] :
             b.slots[e][i] \in DOMAIN lorg /\ lorg[b.slots[e][i]] = a.slots[org[e]][i]
    BY <2>2 DEF Mirrors
  <2> QED
    BY <1>2, <2>1, <2>2, <2>3
<1>5. ASSUME NEW x \in DOMAIN lorg2, NEW y \in DOMAIN lorg2, l[x] = l[y] PROVE x = y
  BY <1>2, <1>5 DEF Mirrors
<1>6. ASSUME NEW x \in DOMAIN lorg2 PROVE Agree(o, a.val[l[x]], c.val[x])
  <2>1. Agree(org2, b.val[lorg2[x]], c.val[x]) /\ lorg2[x] \in DOMAIN lorg
    BY DEF Mirrors
  <2>2. Agree(org, a.val[lorg[lorg2[x]]], b.val[lorg2[x]])
    BY <2>1 DEF Mirrors
  <2> QED
    BY <1>2, <1>3, <2>1, <2>2
<1> QED
  BY <1>1, <1>2, <1>3, <1>4, <1>5, <1>6 DEF Mirrors

\* The engine e has the values of worker t, whose private copy is i.
ThreadPulled(i, e, hk, sn, t) ==
  \E f, org, lorg :
    /\ DOMAIN f = DOMAIN e.cols
    /\ \A c \in DOMAIN e.cols :
         f[c] \in HeldIn(hk, sn, c) /\ Agree(org, i.val[f[c]], e.cols[c][t])
    /\ f = [c \in DOMAIN f |-> f[c]]
    /\ DOMAIN org \subseteq DOMAIN e.kind /\ DOMAIN lorg \subseteq DOMAIN e.val
    /\ Mirrors(i, e, org, lorg)

\* y is the engine after script_engine_pull_data with e.
Grew(e, y) ==
  /\ BaseOK(y) /\ DOMAIN y.cols = DOMAIN e.cols
  /\ \A c \in DOMAIN e.cols : \E w : y.cols[c] = Append(e.cols[c], w)
  /\ \A d \in DOMAIN e.kind : d \in DOMAIN y.kind /\ y.kind[d] = e.kind[d] /\ y.slots[d] = e.slots[d]
  /\ \A x \in DOMAIN e.val : x \in DOMAIN y.val /\ y.val[x] = e.val[x]

LEMMA PulledGrew ==
  ASSUME NEW e, NEW s, PullReady(e, s), NEW y \in Pulled(e, s, Len(e.cols))
  PROVE  Grew(e, y)
<1> DEFINE b == Recol(NewCache(e), y.cols)
           X == PSrc(s, b)
<1>1. PICK org, lorg : PullState(s, NewCache(e), y, org, lorg) /\ Columns(y, e, s, Len(e.cols), org)
  BY DEF Pulled
<1>2. BaseOK(e) /\ y \in Heaps
  BY DEF PullReady, Pulled
<1>3. y.cols \in Seq(Seq(Vals))
  BY <1>2 DEF Heaps
<1>4. b.kind = e.kind /\ b.slots = e.slots /\ b.val = e.val
  BY <1>2, <1>3, NewCacheIs, RecolIs DEF BaseOK
<1>5. X.base = b
  BY DEF PSrc
<1> HIDE DEF X, b
<1>6. Extent(X, y, org, lorg) /\ Kept(b, y)
  BY <1>1, <1>5, StillIs DEF PullState, CopyInv, X, b
<1>7. BaseOK(y)
  BY <1>2, <1>6 DEF Extent, BaseOK
<1>8. DOMAIN e.kind \subseteq DOMAIN y.kind /\ DOMAIN e.val \subseteq DOMAIN y.val
  <2>1. Len(e.kind) <= Len(y.kind) /\ Len(e.val) <= Len(y.val)
    BY <1>4, <1>5, <1>6 DEF Extent
  <2>2. e.kind \in Seq(Kinds) /\ y.kind \in Seq(Kinds) /\ e.val \in Seq(Vals) /\ y.val \in Seq(Vals)
    BY <1>2 DEF BaseOK, Heaps
  <2> QED
    BY <2>1, <2>2
<1>9. /\ \A d \in DOMAIN e.kind : y.kind[d] = e.kind[d] /\ y.slots[d] = e.slots[d]
      /\ \A x \in DOMAIN e.val : y.val[x] = e.val[x]
  BY <1>4, <1>6 DEF Kept
<1>10. ASSUME NEW c \in DOMAIN e.cols PROVE \E w : y.cols[c] = Append(e.cols[c], w)
  <2>1. c + Len(e.cols) > Len(e.cols)
    BY <1>2 DEF BaseOK, Heaps
  <2> QED
    BY <1>1, <2>1 DEF Columns
<1>11. DOMAIN y.cols = DOMAIN e.cols
  BY <1>1 DEF Columns
<1> QED
  BY <1>7, <1>8, <1>9, <1>10, <1>11 DEF Grew

LEMMA AppendKeeps ==
  ASSUME NEW q \in Seq(Vals), NEW w, NEW t \in 1..Len(q)
  PROVE  Append(q, w)[t] = q[t]
  OBVIOUS

LEMMA AppendLast ==
  ASSUME NEW q \in Seq(Vals), NEW w
  PROVE  Append(q, w)[Len(q) + 1] = w /\ Len(Append(q, w)) = Len(q) + 1
  OBVIOUS

\* What has been collected from other workers stays.
LEMMA PulledStays ==
  ASSUME NEW e, NEW y, BaseOK(e), Grew(e, y), NEW i, NEW hk, NEW sn, NEW m \in Nat,
         \A c \in DOMAIN e.cols : Len(e.cols[c]) = m,
         NEW t \in 1..m, ThreadPulled(i, e, hk, sn, t)
  PROVE  ThreadPulled(i, y, hk, sn, t)
<1>1. PICK f, org, lorg :
        /\ DOMAIN f = DOMAIN e.cols
        /\ \A c \in DOMAIN e.cols :
             f[c] \in HeldIn(hk, sn, c) /\ Agree(org, i.val[f[c]], e.cols[c][t])
        /\ f = [c \in DOMAIN f |-> f[c]]
        /\ DOMAIN org \subseteq DOMAIN e.kind /\ DOMAIN lorg \subseteq DOMAIN e.val
        /\ Mirrors(i, e, org, lorg)
  BY DEF ThreadPulled
<1>2. Mirrors(i, y, org, lorg)
  BY <1>1 DEF Grew, Mirrors
<1>3. ASSUME NEW c \in DOMAIN e.cols PROVE y.cols[c][t] = e.cols[c][t]
  <2>1. e.cols[c] \in Seq(Vals)
    BY ElementIs DEF BaseOK, Heaps
  <2>2. PICK w : y.cols[c] = Append(e.cols[c], w)
    BY DEF Grew
  <2> QED
    BY <2>1, <2>2, AppendKeeps
<1>4. DOMAIN y.cols = DOMAIN e.cols /\ DOMAIN org \subseteq DOMAIN y.kind /\ DOMAIN lorg \subseteq DOMAIN y.val
  BY <1>1 DEF Grew
<1> QED
  BY <1>1, <1>2, <1>3, <1>4 DEF ThreadPulled

\* The next worker's values have been collected.
LEMMA PulledNew ==
  ASSUME NEW e, NEW i, NEW s, NEW k, NEW hk, NEW sn, ThreadInv(i, s, k, hk, sn), PullReady(e, s),
         \A c \in DOMAIN e.cols : c \in DOMAIN s.collector_map,
         NEW m \in Nat, \A c \in DOMAIN e.cols : Len(e.cols[c]) = m,
         NEW y \in Pulled(e, s, Len(e.cols))
  PROVE  ThreadPulled(i, y, hk, sn, m + 1)
<1>1. PICK org, lorg : CopyInv(Source(i, hk, sn), None, Still(s), org, lorg) /\ KeysOK(k, hk, org)
  BY DEF ThreadInv
<1>2. HooksOK(i, hk, sn) /\ Reflects(i, s, org, lorg)
  BY <1>1, ThreadReflects DEF ThreadInv
<1>3. PICK org2, lorg2 : PullState(s, NewCache(e), y, org2, lorg2) /\ Columns(y, e, s, Len(e.cols), org2)
  BY DEF Pulled
<1> DEFINE b == Recol(NewCache(e), y.cols)
           X == PSrc(s, b)
<1>4. X.heap = s /\ X.base = b /\ DOMAIN X.src = DOMAIN s.val
  BY DEF PSrc
<1> HIDE DEF X, b
<1>5. CopyInv(X, None, Still(y), org2, lorg2) /\ y \in Heaps
  BY <1>3, CopyHeaps DEF PullState, X, b
<1>6. Mirrors(s, y, org2, lorg2)
  BY <1>4, <1>5, StillMirrors
<1>7. /\ \A d \in DOMAIN org2 : org2[d] \in DOMAIN org
      /\ \A x \in DOMAIN lorg2 : lorg2[x] \in DOMAIN lorg
  BY <1>2, <1>4, <1>5 DEF CopyInv, Origins, Reflects
<1>8. DOMAIN org2 \subseteq DOMAIN y.kind /\ DOMAIN lorg2 \subseteq DOMAIN y.val
  <2>1. /\ DOMAIN org2 = Len(b.kind) + 1..Len(y.kind) /\ DOMAIN lorg2 = Len(b.val) + 1..Len(y.val)
    BY <1>4, <1>5, StillIs DEF CopyInv, Extent
  <2>2. b.kind = e.kind /\ b.val = e.val
    <3>1. y.cols \in Seq(Seq(Vals)) /\ BaseOK(e)
      BY <1>5 DEF Heaps, PullReady
    <3> QED
      BY <3>1, NewCacheIs, RecolIs DEF b, BaseOK
  <2>3. Len(e.kind) \in Nat /\ Len(e.val) \in Nat
    BY DEF PullReady, BaseOK, Heaps
  <2>4. y.kind \in Seq(Kinds) /\ y.val \in Seq(Vals)
    BY <1>5 DEF Heaps
  <2> QED
    BY SMTT(30), <2>1, <2>2, <2>3, <2>4
<1> DEFINE o == [d \in DOMAIN org2 |-> org[org2[d]]]
           l == [x \in DOMAIN lorg2 |-> lorg[lorg2[x]]]
           At(c) == CHOOSE x \in DOMAIN lorg :
                      CollectedValue(s, c) = s.val[x] /\ lorg[x] \in HeldIn(hk, sn, c)
           f == [c \in DOMAIN e.cols |-> lorg[At(c)]]
<1>9. DOMAIN o = DOMAIN org2 /\ DOMAIN l = DOMAIN lorg2
  OBVIOUS
<1>10. /\ Mirrors(i, y, o, l)
       /\ \A v, u, w : Agree(org, v, u) /\ Agree(org2, u, w) => Agree(o, v, w)
  <2>1. Mirrors(i, s, org, lorg)
    BY <1>2 DEF Reflects
  <2>2. o = [d \in DOMAIN org2 |-> org[org2[d]]] /\ l = [x \in DOMAIN lorg2 |-> lorg[lorg2[x]]]
    OBVIOUS
  <2> HIDE DEF o, l
  <2> QED
    BY <1>6, <1>7, <2>1, <2>2, MirrorsCompose
<1> HIDE DEF o, l
<1>11. ASSUME NEW c \in DOMAIN e.cols
       PROVE  /\ At(c) \in DOMAIN lorg /\ CollectedValue(s, c) = s.val[At(c)]
              /\ lorg[At(c)] \in HeldIn(hk, sn, c)
  <2>1. c # 0 /\ c \in DOMAIN s.collector_map
    BY DEF PullReady, BaseOK, Heaps
  <2>2. \E x \in DOMAIN lorg : CollectedValue(s, c) = s.val[x] /\ lorg[x] \in HeldIn(hk, sn, c)
    BY <1>1, <1>2, <2>1, CollectorHeld
  <2> QED
    BY <2>2
<1>12. DOMAIN f = DOMAIN e.cols /\ f = [c \in DOMAIN f |-> f[c]]
       /\ \A c \in DOMAIN e.cols : f[c] = lorg[At(c)]
  OBVIOUS
<1> HIDE DEF f, At
<1>13. ASSUME NEW c \in DOMAIN e.cols
       PROVE  f[c] \in HeldIn(hk, sn, c) /\ Agree(o, i.val[f[c]], y.cols[c][m + 1])
  <2>1. c + Len(e.cols) > Len(e.cols)
    BY DEF PullReady, BaseOK, Heaps
  <2>2. PICK w : y.cols[c] = Append(e.cols[c], w) /\ Agree(org2, CollectedValue(s, c), w)
    BY <1>3, <2>1 DEF Columns
  <2>3. e.cols[c] \in Seq(Vals)
    BY ElementIs DEF PullReady, BaseOK, Heaps
  <2>4. y.cols[c][m + 1] = w
    BY <2>2, <2>3, AppendLast
  <2>5. Agree(org, i.val[f[c]], s.val[At(c)])
    BY <1>2, <1>11, <1>12 DEF Reflects, Mirrors
  <2> QED
    BY <1>10, <1>11, <1>12, <2>2, <2>4, <2>5
<1>14. DOMAIN y.cols = DOMAIN e.cols
  BY <1>3 DEF Columns
<1> QED
  BY <1>8, <1>9, <1>10, <1>12, <1>13, <1>14 DEF ThreadPulled

----------------------------------------------------------------------------
(* The inductive invariant of the collection.                              *)

\* The engine e has got the values of the workers before m.
Collecting(e, hk, sn, m, id) ==
  /\ BaseOK(e) /\ Used(hk, sn) \subseteq DOMAIN e.val /\ Family(hk, sn)
  /\ \A c \in DOMAIN e.cols : Len(e.cols[c]) = m - 1
  /\ \A t \in 1..m - 1 : ThreadPulled(id[t], e, hk, sn, t)

Running == phase \in {"run", "pull", "after"}

PullInv ==
  /\ Running => /\ puller \in 1..NumThreads + 1
                /\ phase = "run" => puller = 1
                /\ phase = "pull" => puller <= NumThreads
                /\ phase = "after" => puller = NumThreads + 1
  /\ Running /\ Quiet(hook, snap) => Collecting(eng, hook, snap, puller, ideal)
  /\ phase = "abort" /\ puller > 1 /\ Quiet(hook, snap) =>
       \E c \in DOMAIN eng.cols : Cannot(ideal[puller - 1], key[puller - 1], hook, snap, c)

\* empty_collectors
LEMMA EmptiedKeeps ==
  ASSUME ScriptOK(eng, hook, snap), NEW id
  PROVE  Collecting(Emptied(eng), hook, snap, 1, id)
<1> DEFINE q == [c \in DOMAIN eng.cols |-> <<>>]
           e == Emptied(eng)
<1>1. EngineOK(eng) /\ eng \in Heaps /\ BaseOK(eng)
  BY DEF ScriptOK, EngineOK, BaseOK
<1>2. eng.cols \in Seq(Seq(Vals))
  BY <1>1 DEF Heaps
<1>3. q \in Seq(Seq(Vals)) /\ DOMAIN q = DOMAIN eng.cols /\ \A c \in DOMAIN q : q[c] = <<>>
  <2> DEFINE n == Len(eng.cols)
  <2>1. n \in Nat /\ DOMAIN eng.cols = 1..n
    BY <1>2
  <2>2. q = [c \in 1..n |-> <<>>]
    BY <2>1
  <2>3. <<>> \in Seq(Vals)
    OBVIOUS
  <2> HIDE DEF n, q
  <2> QED
    BY <2>1, <2>2, <2>3
<1>4. e = Recol(eng, q)
  BY DEF Emptied, Recol
<1> HIDE DEF q, e
<1>5. /\ e \in Heaps /\ e.cols = q /\ e.kind = eng.kind /\ e.slots = eng.slots /\ e.val = eng.val
      /\ e.id = eng.id
  BY <1>1, <1>3, <1>4, RecolIs
<1>6. BaseOK(e)
  BY <1>1, <1>5 DEF BaseOK
<1>7. Used(hook, snap) \subseteq DOMAIN e.val
  BY <1>5, PrivateCopyIs
<1>8. Family(hook, snap)
  <2> SUFFICES ASSUME NEW g \in Users(hook), NEW h \in Users(hook) PROVE Lookalike(snap[g], snap[h])
    BY DEF Family
  <2>1. Lookalike(eng, snap[g]) /\ Lookalike(eng, snap[h])
    BY DEF ScriptOK
  <2> QED
    BY <2>1 DEF Lookalike
<1>9. \A c \in DOMAIN e.cols : Len(e.cols[c]) = 1 - 1
  BY <1>3, <1>5
<1>10. 1..1 - 1 = {}
  OBVIOUS
<1> QED
  BY <1>6, <1>7, <1>8, <1>9, <1>10 DEF Collecting, e

\* pull_script_data for one worker.
LEMMA PullKeeps ==
  ASSUME NEW e, NEW hk, NEW sn, NEW m \in Nat \ {0}, NEW id, NEW s, NEW k,
         Collecting(e, hk, sn, m, id), ThreadInv(id[m], s, k, hk, sn),
         \A c \in DOMAIN e.cols : Serializable(s, CollectedValue(s, c))
  PROVE  Collecting(PullData(e, s), hk, sn, m + 1, id)
<1> DEFINE y == PullData(e, s)
<1>1. /\ BaseOK(e) /\ Used(hk, sn) \subseteq DOMAIN e.val /\ Family(hk, sn)
      /\ \A c \in DOMAIN e.cols : Len(e.cols[c]) = m - 1
      /\ \A t \in 1..m - 1 : ThreadPulled(id[t], e, hk, sn, t)
  BY DEF Collecting
<1>2. ASSUME NEW c \in DOMAIN e.cols
      PROVE  c \in DOMAIN s.collector_map /\ Plain(s, CollectedValue(s, c))
  <2>1. c \in Nat \ {0}
    BY <1>1 DEF BaseOK, Heaps
  <2> QED
    BY <1>1, <2>1, ValueIs
<1>3. WorkerOK(s)
  <2>1. PICK org, lorg : CopyInv(Source(id[m], hk, sn), None, Still(s), org, lorg)
    BY DEF ThreadInv
  <2>2. Reflects(id[m], s, org, lorg)
    BY <2>1, ThreadReflects DEF ThreadInv
  <2> QED
    BY <2>2 DEF Reflects, WorkerOK
<1>4. PullReady(e, s)
  BY <1>1, <1>2, <1>3 DEF PullReady
<1>5. y \in Pulled(e, s, Len(e.cols))
  BY <1>4, PullDataKeeps
<1> HIDE DEF y
<1>6. Grew(e, y)
  BY <1>4, <1>5, PulledGrew
<1>7. m - 1 \in Nat /\ (m - 1) + 1 = m /\ (m + 1) - 1 = m
  OBVIOUS
<1>8. ThreadPulled(id[m], y, hk, sn, m)
  <2> DEFINE n == m - 1
             i == id[m]
  <2>1. n \in Nat /\ n + 1 = m /\ \A c \in DOMAIN e.cols : Len(e.cols[c]) = n
    BY <1>1, <1>7
  <2>2. ThreadInv(i, s, k, hk, sn)
    OBVIOUS
  <2> HIDE DEF n, i
  <2>3. ThreadPulled(i, y, hk, sn, n + 1)
    BY <1>2, <1>4, <1>5, <2>1, <2>2, PulledNew
  <2> QED
    BY <2>1, <2>3 DEF i
<1>9. ASSUME NEW t \in 1..m, t # m PROVE ThreadPulled(id[t], y, hk, sn, t)
  <2> DEFINE n == m - 1
             i == id[t]
  <2>1. n \in Nat /\ t \in 1..n /\ \A c \in DOMAIN e.cols : Len(e.cols[c]) = n
    BY <1>1, <1>7, <1>9
  <2>2. ThreadPulled(i, e, hk, sn, t)
    BY <1>1, <2>1
  <2> HIDE DEF n, i
  <2>3. ThreadPulled(i, y, hk, sn, t)
    BY <1>1, <1>6, <2>1, <2>2, PulledStays
  <2> QED
    BY <2>3 DEF i
<1>10. ASSUME NEW c \in DOMAIN y.cols PROVE Len(y.cols[c]) = (m + 1) - 1
  <2>1. c \in DOMAIN e.cols
    BY <1>6 DEF Grew
  <2>2. e.cols[c] \in Seq(Vals)
    BY <1>1, <2>1, ElementIs DEF BaseOK, Heaps
  <2>3. PICK w : y.cols[c] = Append(e.cols[c], w)
    BY <1>6, <2>1 DEF Grew
  <2>4. Len(y.cols[c]) = Len(e.cols[c]) + 1
    BY <2>2, <2>3, AppendLast
  <2> QED
    BY <1>1, <1>7, <2>1, <2>4
<1>11. Used(hk, sn) \subseteq DOMAIN y.val
  BY <1>1, <1>6 DEF Grew
<1>12. \A t \in 1..(m + 1) - 1 : ThreadPulled(id[t], y, hk, sn, t)
  BY <1>7, <1>8, <1>9
<1>13. BaseOK(y)
  BY <1>6 DEF Grew
<1>14. Collecting(y, hk, sn, m + 1, id)
  BY <1>1, <1>10, <1>11, <1>12, <1>13 DEF Collecting
<1> QED
  BY <1>14 DEF y

LEMMA PullInvNext == SInv /\ PullInv /\ [ScriptNext]_scriptVars => PullInv'
<1> SUFFICES ASSUME SInv, PullInv, [ScriptNext]_scriptVars PROVE PullInv'
  OBVIOUS
<1>a. phase = "script" => Waiting /\ ScriptOK(eng, hook, snap)
  BY DEF SInv, Working
<1>b. phase \in {"run", "pull"} => Working
  BY DEF SInv, Waiting
<1>0. NumThreads \in Nat \ {0}
  BY ScriptAssumption
<1>1. ASSUME NEW l \in DOMAIN eng.val, NEW n \in Values, Assign(l, n) PROVE PullInv'
  <2>1. phase' = "script"
    BY <1>1 DEF Assign
  <2> QED
    BY <2>1 DEF PullInv, Running
<1>2. ASSUME NEW h \in Hooks, Register(h) PROVE PullInv'
  <2>1. phase' \in {"script", "abort"} /\ puller' = 1
    BY <1>a, <1>2 DEF Register, Waiting
  <2> QED
    BY <2>1 DEF PullInv, Running
<1>3. ASSUME NEW h \in Hooks, RegisterTwice(h) PROVE PullInv'
  <2>1. phase' = "exit"
    BY <1>3 DEF RegisterTwice
  <2> QED
    BY <2>1 DEF PullInv, Running
<1>4. ASSUME ScriptError PROVE PullInv'
  <2>1. phase' = "exit"
    BY <1>4 DEF ScriptError
  <2> QED
    BY <2>1 DEF PullInv, Running
<1>5. ASSUME Run PROVE PullInv'
  <2>1. phase = "script" /\ puller' = 1 /\ hook' = hook /\ snap' = snap
    BY <1>a, <1>5 DEF Run, Waiting
  <2>2. CASE phase' = "abort"
    BY <2>1, <2>2 DEF PullInv, Running
  <2>3. CASE phase' = "run" /\ eng' = Emptied(eng)
    <3>1. Collecting(eng', hook', snap', 1, ideal')
      BY <1>a, <2>1, <2>3, EmptiedKeeps
    <3>2. 1 \in 1..NumThreads + 1
      BY <1>0
    <3> QED
      BY <2>1, <2>3, <3>1, <3>2 DEF PullInv, Running
  <2> QED
    BY <1>5, <2>2, <2>3 DEF Run
<1>6. ASSUME NEW t \in Threads, NEW h \in Hooks, CallHook(t, h) PROVE PullInv'
  <2>1. phase = "run" /\ UNCHANGED <<eng, hook, snap, phase, puller>>
    BY <1>6 DEF CallHook
  <2>2. puller = 1
    BY <2>1 DEF PullInv, Running
  <2>3. Collecting(eng, hook, snap, 1, ideal) => Collecting(eng, hook, snap, 1, ideal')
    <3>1. 1..1 - 1 = {}
      OBVIOUS
    <3> QED
      BY <3>1 DEF Collecting
  <2> QED
    BY <2>1, <2>2, <2>3 DEF PullInv, Running
<1>7. ASSUME NEW t \in Threads, NEW h \in Hooks, HookError(t, h) PROVE PullInv'
  <2>1. phase' = "exit"
    BY <1>7 DEF HookError
  <2> QED
    BY <2>1 DEF PullInv, Running
<1>8. ASSUME Stop PROVE PullInv'
  <2>1. phase = "run" /\ phase' = "pull" /\ UNCHANGED <<eng, hook, snap, ideal, puller>>
    BY <1>8 DEF Stop
  <2>2. puller = 1 /\ 1 \in 1..NumThreads + 1 /\ 1 <= NumThreads
    BY <1>0, <2>1 DEF PullInv, Running
  <2> QED
    BY <2>1, <2>2 DEF PullInv, Running
<1>9. ASSUME Pull PROVE PullInv'
  <2> DEFINE s == slave[puller]
             i == ideal[puller]
             k == key[puller]
  <2>1. /\ phase = "pull" /\ puller' = puller + 1 /\ UNCHANGED <<hook, snap, slave, key, ideal>>
        /\ \/ /\ \A c \in DOMAIN eng.cols : Serializable(s, CollectedValue(s, c))
              /\ eng' = PullData(eng, s)
              /\ phase' = IF puller = NumThreads THEN "after" ELSE "pull"
           \/ /\ \E c \in DOMAIN eng.cols : ~ Serializable(s, CollectedValue(s, c))
              /\ phase' = "abort" /\ UNCHANGED eng
    BY <1>9 DEF Pull
  <2>2. puller \in 1..NumThreads + 1 /\ puller <= NumThreads
    BY <2>1 DEF PullInv, Running
  <2>3. puller \in Nat \ {0} /\ puller \in Threads /\ puller + 1 \in 1..NumThreads + 1
        /\ (puller + 1) - 1 = puller /\ (puller # NumThreads => puller + 1 <= NumThreads)
    BY <1>0, <2>2 DEF Threads
  <2>4. ASSUME Quiet(hook, snap)
        PROVE  Collecting(eng, hook, snap, puller, ideal) /\ ThreadInv(i, s, k, hook, snap)
    BY <1>b, <2>1, <2>3, <2>4 DEF PullInv, Running, Working
  <2>5. CASE /\ \A c \in DOMAIN eng.cols : Serializable(s, CollectedValue(s, c))
             /\ eng' = PullData(eng, s)
             /\ phase' = IF puller = NumThreads THEN "after" ELSE "pull"
    <3>1. Quiet(hook, snap) => Collecting(eng', hook, snap, puller + 1, ideal)
      <4> HIDE DEF s, k
      <4> QED
        BY <2>3, <2>4, <2>5, PullKeeps
    <3> QED
      BY <2>1, <2>3, <2>5, <3>1 DEF PullInv, Running
  <2>6. CASE /\ \E c \in DOMAIN eng.cols : ~ Serializable(s, CollectedValue(s, c))
             /\ phase' = "abort" /\ UNCHANGED eng
    <3>1. PICK c \in DOMAIN eng.cols : ~ Serializable(s, CollectedValue(s, c))
      BY <2>6
    <3>2. ASSUME Quiet(hook, snap) PROVE Cannot(i, k, hook, snap, c)
      <4>1. Collecting(eng, hook, snap, puller, ideal) /\ ThreadInv(i, s, k, hook, snap)
        BY <2>4, <3>2
      <4>2. c \in Nat \ {0} /\ Family(hook, snap)
        BY <4>1 DEF Collecting, BaseOK, Heaps
      <4> HIDE DEF s, k, i
      <4> QED
        BY <3>1, <4>1, <4>2, ValueIs
    <3> QED
      BY <2>1, <2>3, <2>6, <3>2 DEF PullInv, Running
  <2> QED
    BY <2>1, <2>5, <2>6
<1>10. ASSUME UNCHANGED scriptVars PROVE PullInv'
  BY <1>10 DEF scriptVars, PullInv, Running
<1> QED
  BY <1>1, <1>2, <1>3, <1>4, <1>5, <1>6, <1>7, <1>8, <1>9, <1>10 DEF ScriptNext

LEMMA PullInvHolds == ScriptSpec => []PullInv
<1>1. ScriptInit => PullInv
  BY DEF ScriptInit, PullInv, Running
<1> QED
  BY <1>1, PullInvNext, SInvHolds, PTL DEF ScriptSpec

LEMMA HeldIs == ASSUME NEW c PROVE Held(c) = HeldIn(hook, snap, c)
  BY DEF Held, HeldIn, Used, Users, Registered

\* CollectsEveryThread holds for any scripts, hooks and number of workers: the
\* engine mirrors what each worker's private copy has in place of the
\* collectors, and stops only at what cannot be copied from there.
THEOREM CollectsEveryThreadHolds == ScriptSpec => []CollectsEveryThread
<1>1. SInv /\ PullInv => CollectsEveryThread
  <2> SUFFICES ASSUME SInv, PullInv PROVE CollectsEveryThread
    OBVIOUS
  <2>1. ASSUME phase = "after", Undisturbed PROVE Collected
    <3>1. Collecting(eng, hook, snap, NumThreads + 1, ideal)
      BY <2>1, QuietIs DEF PullInv, Running
    <3>2. (NumThreads + 1) - 1 = NumThreads
      BY ScriptAssumption
    <3>3. /\ BaseOK(eng) /\ Used(hook, snap) \subseteq DOMAIN eng.val
          /\ \A c \in DOMAIN eng.cols : Len(eng.cols[c]) = NumThreads
          /\ \A t \in Threads : ThreadPulled(ideal[t], eng, hook, snap, t)
      BY <3>1, <3>2 DEF Collecting, Threads
    <3>4. ASSUME NEW t \in Threads
          PROVE  \E f \in Choices :
                   /\ \A c \in DOMAIN f : SameValue(t, c, f[c])
                   /\ Alike(ideal[t], eng, {<<ideal[t].val[f[c]][2], eng.cols[c][t][2]>> :
                                              c \in {d \in DOMAIN f : eng.cols[d][t][1] = "obj"}})
      <4>1. PICK f, org, lorg :
              /\ DOMAIN f = DOMAIN eng.cols
              /\ \A c \in DOMAIN eng.cols :
                   f[c] \in HeldIn(hook, snap, c) /\ Agree(org, ideal[t].val[f[c]], eng.cols[c][t])
              /\ f = [c \in DOMAIN f |-> f[c]]
              /\ DOMAIN org \subseteq DOMAIN eng.kind /\ DOMAIN lorg \subseteq DOMAIN eng.val
              /\ Mirrors(ideal[t], eng, org, lorg)
        BY <3>3 DEF ThreadPulled
      <4>2. \A c \in DOMAIN eng.cols : f[c] \in DOMAIN eng.val /\ f[c] \in Held(c)
        BY <3>3, <4>1, HeldIs DEF HeldIn
      <4>3. f \in Choices
        BY <4>1, <4>2 DEF Choices
      <4>4. ASSUME NEW c \in DOMAIN f PROVE SameValue(t, c, f[c])
        BY <4>1 DEF SameValue, Agree
      <4> DEFINE R == {<<ideal[t].val[f[c]][2], eng.cols[c][t][2]>> :
                         c \in {d \in DOMAIN f : eng.cols[d][t][1] = "obj"}}
      <4>5. R \in SUBSET Pairs(org)
        BY <4>1 DEF Agree, Pairs
      <4>6. Alike(ideal[t], eng, R)
        <5>1. ThreadInv(ideal[t], slave[t], key[t], hook, snap)
          BY <2>1, QuietIs DEF SInv, Waiting, Working
        <5>2. eng \in Heaps /\ ideal[t] \in Heaps
          BY <3>3, <5>1 DEF BaseOK, ThreadInv, EngineOK
        <5>3. Len(eng.kind) \in Nat /\ Len(ideal[t].kind) \in Nat
          BY <5>2 DEF Heaps
        <5> QED
          BY <4>1, <4>5, <5>3, MirrorsAlike
      <4> QED
        BY <4>3, <4>4, <4>6
    <3> QED
      BY <3>3, <3>4 DEF Collected
  <2>2. ASSUME phase = "abort", puller > 1, Undisturbed
        PROVE  \E c \in DOMAIN eng.cols : CannotCollect(puller - 1, c)
    <3>1. PICK c \in DOMAIN eng.cols : Cannot(ideal[puller - 1], key[puller - 1], hook, snap, c)
      BY <2>2, QuietIs DEF PullInv
    <3>2. CannotCollect(puller - 1, c)
      BY <3>1, HeldIs DEF Cannot, CannotCollect
    <3> QED
      BY <3>2
  <2> QED
    BY <2>1, <2>2 DEF CollectsEveryThread
<1> QED
  BY <1>1, SInvHolds, PullInvHolds, PTL
============================================================================
