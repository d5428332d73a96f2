----------------------------- MODULE QueryProofs -----------------------------
(***************************************************************************)
(* A query keeps the best R of what it scans and answers with the best K   *)
(* of what verifies, for every volume, every depth and every score.        *)
(*                                                                         *)
(* The heap, the drain and the sort are recursive functions.  None of the  *)
(* provers does induction over data, but a set of naturals has a least     *)
(* member, so a least counterexample serves: that there is a function      *)
(* which solves the recursion (without it the definitions would denote     *)
(* nothing) and that it keeps what it should are shown that way.  A heap   *)
(* is then an array of distinct candidates, none worse than its parent;    *)
(* SiftUp, SiftDown and PopWorst keep that and say what they add or take.  *)
(*                                                                         *)
(* The scan's invariant is a frontier: a number f such that the held ids   *)
(* below it are the ones scored, and what is left of the run is the held   *)
(* ids from f to the next block.                                           *)
(***************************************************************************)
EXTENDS Query, FiniteSetTheorems, WellFoundedInduction, TLAPS

---------------------------------------------------------------------------
(***************************************************************************)
(* Recursion over the naturals.                                            *)
(***************************************************************************)

\* A set of naturals has a least member.
LEMMA LeastNat ==
  ASSUME NEW T \in SUBSET Nat, T # {}
  PROVE  \E x \in T : \A y \in T : x <= y
<1> DEFINE Less == OpToRel(<, Nat)
<1>1. PICK x \in T : \A y \in T : ~(<<y, x>> \in Less)
  <2>1. IsWellFoundedOn(Less, Nat)
    BY NatLessThanWellFounded
  <2> HIDE DEF Less
  <2>2. QED
    BY <2>1, WFMin
<1>2. ASSUME NEW y \in T PROVE x <= y
  <2>1. ~(y < x)
    BY <1>1 DEF OpToRel
  <2>2. QED
    BY <2>1
<1>3. QED
  BY <1>2

\* A recursion over a rank: what it is made of, and a function that solves it.
Recursive(S, V, base, step, leaf, pred, rank) ==
  /\ base \in [S -> V] /\ step \in [S \X V -> V]
  /\ leaf \subseteq S /\ pred \in [S -> S] /\ rank \in [S -> Nat]
  /\ \A s \in S \ leaf : rank[pred[s]] < rank[s]

Solves(f, S, base, step, leaf, pred) ==
  \A s \in S : f[s] = IF s \in leaf THEN base[s] ELSE step[<<s, f[pred[s]]>>]

\* Such a function exists, by induction on the rank.
LEMMA Recursion ==
  ASSUME NEW S, NEW V, NEW base, NEW step, NEW leaf, NEW pred, NEW rank,
         Recursive(S, V, base, step, leaf, pred, rank)
  PROVE  \E f \in [S -> V] : Solves(f, S, base, step, leaf, pred)
<1> USE DEF Recursive, Solves
<1> DEFINE Good(f, n) == \A s \in S : rank[s] < n =>
                           f[s] = IF s \in leaf THEN base[s] ELSE step[<<s, f[pred[s]]>>]
           Bad == {n \in Nat : ~\E f \in [S -> V] : Good(f, n)}
<1>1. Bad = {}
  <2> SUFFICES ASSUME Bad # {} PROVE FALSE
    OBVIOUS
  <2>1. PICK n \in Bad : \A m \in Bad : n <= m
    <3> HIDE DEF Bad
    <3>1. Bad \in SUBSET Nat
      BY DEF Bad
    <3>2. QED
      BY <3>1, LeastNat
  <2>2. n # 0
    <3>1. base \in [S -> V] /\ Good(base, 0)
      OBVIOUS
    <3>2. QED
      BY <3>1, <2>1
  <2>3. n - 1 \in Nat /\ n - 1 \notin Bad
    BY <2>1, <2>2
  <2>4. PICK f \in [S -> V] : Good(f, n - 1)
    BY <2>3
  <2> DEFINE g == [s \in S |-> IF s \in leaf THEN base[s] ELSE step[<<s, f[pred[s]]>>]]
  <2>5. g \in [S -> V]
    OBVIOUS
  <2>6. Good(g, n)
    <3> SUFFICES ASSUME NEW s \in S, rank[s] < n, s \notin leaf
                 PROVE  g[s] = step[<<s, g[pred[s]]>>]
      OBVIOUS
    <3>1. rank[pred[s]] < n - 1 /\ pred[s] \in S
      BY <2>1
    <3>2. f[pred[s]] = g[pred[s]]
      BY <3>1, <2>4
    <3>3. QED
      BY <3>2
  <2>7. QED
    BY <2>1, <2>5, <2>6
<1> DEFINE F == [n \in Nat |-> CHOOSE f \in [S -> V] : Good(f, n)]
<1>2. ASSUME NEW n \in Nat PROVE F[n] \in [S -> V] /\ Good(F[n], n)
  <2>1. \E f \in [S -> V] : Good(f, n)
    BY <1>1
  <2> HIDE DEF Good
  <2>2. QED
    BY <2>1
<1>3. ASSUME NEW f \in [S -> V], NEW g \in [S -> V], NEW m \in Nat, NEW n \in Nat,
             Good(f, m), Good(g, n), m <= n, NEW t \in S, rank[t] < m
      PROVE  f[t] = g[t]
  <2> DEFINE Differ == {k \in Nat : \E s \in S : k = rank[s] /\ k < m /\ f[s] # g[s]}
  <2>1. Differ = {}
    <3> SUFFICES ASSUME Differ # {} PROVE FALSE
      OBVIOUS
    <3>1. PICK k \in Differ : \A j \in Differ : k <= j
      <4>1. Differ \in SUBSET Nat
        OBVIOUS
      <4> HIDE DEF Differ
      <4>2. QED
        BY <4>1, LeastNat
    <3>2. PICK s \in S : k = rank[s] /\ k < m /\ f[s] # g[s]
      BY <3>1
    <3>3. rank[s] < m /\ rank[s] < n
      BY <3>2, <1>3
    <3>4. CASE s \in leaf
      BY <3>2, <3>3, <3>4, <1>3
    <3>5. CASE s \notin leaf
      <4>1. pred[s] \in S /\ rank[pred[s]] < k /\ rank[pred[s]] \in Nat
        BY <3>2, <3>5
      <4>2. rank[pred[s]] \notin Differ
        BY <4>1, <3>1
      <4>3. f[pred[s]] = g[pred[s]]
        BY <4>1, <4>2, <3>2
      <4>4. QED
        BY <3>2, <3>3, <3>5, <4>3, <1>3
    <3>6. QED
      BY <3>4, <3>5
  <2>2. QED
    BY <2>1, <1>3
<1> DEFINE h == [s \in S |-> F[rank[s] + 1][s]]
<1> HIDE DEF F, Good
<1>4. h \in [S -> V]
  BY <1>2
<1>5. ASSUME NEW s \in S
      PROVE  h[s] = IF s \in leaf THEN base[s] ELSE step[<<s, h[pred[s]]>>]
  <2> DEFINE f == F[rank[s] + 1]
  <2>1. f \in [S -> V] /\ Good(f, rank[s] + 1)
    BY <1>2
  <2>2. h[s] = IF s \in leaf THEN base[s] ELSE step[<<s, f[pred[s]]>>]
    BY <2>1 DEF Good
  <2>3. ASSUME s \notin leaf PROVE f[pred[s]] = h[pred[s]]
    <3> DEFINE p == pred[s]
               g == F[rank[p] + 1]
    <3>1. p \in S /\ rank[p] + 1 \in Nat /\ rank[s] + 1 \in Nat /\ rank[p] + 1 <= rank[s] + 1
          /\ rank[p] < rank[p] + 1
      BY <2>3
    <3>2. g \in [S -> V] /\ Good(g, rank[p] + 1)
      BY <3>1, <1>2
    <3>3. h[p] = g[p]
      BY <3>1
    <3> HIDE DEF p, g, f, h
    <3>4. g[p] = f[p]
      BY <2>1, <3>1, <3>2, <1>3
    <3>5. QED
      BY <3>3, <3>4 DEF p
  <2>4. QED
    BY <2>2, <2>3
<1>6. QED
  BY <1>4, <1>5

---------------------------------------------------------------------------
(***************************************************************************)
(* Candidates, and sequences of distinct ones.                             *)
(***************************************************************************)

Cands == [score : Int, id : Nat]

Img(f, D) == {f[k] : k \in D}
Inj(f, D) == \A j, k \in D : f[j] = f[k] => j = k

\* No candidate is worse than itself.
LEMMA Irreflexive == \A a \in Cands : ~WorseThan(a, a)
BY DEF WorseThan, Cands

\* Of two candidates one is worse.
LEMMA Total == \A a, b \in Cands : a # b => WorseThan(a, b) \/ WorseThan(b, a)
<1> SUFFICES ASSUME NEW a \in Cands, NEW b \in Cands, ~WorseThan(a, b), ~WorseThan(b, a)
             PROVE  a = b
  OBVIOUS
<1>1. a.score = b.score /\ a.id = b.id
  BY DEF WorseThan, Cands
<1>2. QED
  BY <1>1 DEF Cands

\* Worse than a worse one is worse.
LEMMA Transitive ==
  \A a, b, c \in Cands : WorseThan(a, b) /\ WorseThan(b, c) => WorseThan(a, c)
BY DEF WorseThan, Cands

\* No two candidates are each worse than the other.
LEMMA Asymmetric == \A a, b \in Cands : WorseThan(a, b) => ~WorseThan(b, a)
BY DEF WorseThan, Cands

\* what "not worse" gives
LEMMA NotWorse ==
  \A a, b, c \in Cands :
    /\ ~WorseThan(b, a) /\ ~WorseThan(c, b) => ~WorseThan(c, a)
    /\ WorseThan(a, b) /\ ~WorseThan(c, b) => WorseThan(a, c)
    /\ ~WorseThan(b, a) /\ WorseThan(b, c) => WorseThan(a, c)
BY DEF WorseThan, Cands

\* g is f with v at j.
Puts(f, g, D, j, v) == g[j] = v /\ \A k \in D \ {j} : g[k] = f[k]

\* Over D, g holds what f holds with v for f[j], each element once.
Replaced(f, g, D, j, v) ==
  Inj(g, D) /\ Img(g, D) = (Img(f, D) \ {f[j]}) \cup {v}

\* One element put over another.
LEMMA PutImage ==
  ASSUME NEW D, NEW f, NEW g, NEW j \in D, NEW v,
         Inj(f, D), v \notin Img(f, D) \ {f[j]}, Puts(f, g, D, j, v)
  PROVE  Replaced(f, g, D, j, v)
<1>1. g[j] = v /\ \A k \in D : k # j => g[k] = f[k] /\ f[k] # f[j]
  BY DEF Inj, Puts
<1>2. Inj(g, D)
  BY <1>1 DEF Inj, Img
<1>3. ASSUME NEW y PROVE y \in Img(g, D) <=> y \in (Img(f, D) \ {f[j]}) \cup {v}
  BY <1>1 DEF Img
<1>4. QED
  BY <1>2, <1>3 DEF Replaced

\* One step of a sift: q's element goes to j, what was put at q stays.
LEMMA ShiftImage ==
  ASSUME NEW D, NEW h, NEW p, NEW g, NEW j \in D, NEW q \in D, NEW x,
         j # q, x \notin Img(h, D), Inj(h, D),
         Replaced(h, p, D, q, x), p[j] = h[j], Puts(p, g, D, j, h[q])
  PROVE  Replaced(h, g, D, j, x)
<1>1. h[q] # h[j] /\ x # h[j] /\ x # h[q]
      /\ h[j] \in Img(h, D) /\ h[q] \in Img(h, D)
  BY DEF Inj, Img
<1>2. Inj(p, D) /\ Img(p, D) = (Img(h, D) \ {h[q]}) \cup {x}
  BY DEF Replaced
<1>3. h[q] \notin Img(p, D) \ {p[j]}
  BY <1>1, <1>2
<1>4. Replaced(p, g, D, j, h[q])
  BY <1>2, <1>3, PutImage
<1>5. Inj(g, D) /\ Img(g, D) = (Img(p, D) \ {p[j]}) \cup {h[q]}
  BY <1>4 DEF Replaced
<1>6. (Img(p, D) \ {p[j]}) \cup {h[q]} = (Img(h, D) \ {h[j]}) \cup {x}
  BY <1>1, <1>2
<1>7. QED
  BY <1>5, <1>6 DEF Replaced

---------------------------------------------------------------------------
(***************************************************************************)
(* The heap: an element moves up.                                          *)
(***************************************************************************)

\* What SiftUp's recursive function is.
Climbs(place, h, i, n) ==
  \A j \in 1 .. n :
    place[j] = IF j > 1 /\ WorseThan(h[i], h[j \div 2])
               THEN [place[j \div 2] EXCEPT ![j] = h[j \div 2]]
               ELSE [h EXCEPT ![j] = h[i]]

\* SiftUp's recursive function exists, and is what its equation says.
LEMMA SiftUpPlace ==
  ASSUME NEW n \in Nat, NEW h \in [1 .. n -> Cands], NEW i \in 1 .. n
  PROVE  \E place : SiftUp(h, i) = place[i] /\ Climbs(place, h, i, n)
<1> DEFINE S == 1 .. n
           V == [1 .. n -> Cands]
           Up(j) == j > 1 /\ WorseThan(h[i], h[j \div 2])
           leaf == {j \in S : ~Up(j)}
           base == [j \in S |-> [h EXCEPT ![j] = h[i]]]
           pred == [j \in S |-> IF j > 1 THEN j \div 2 ELSE j]
           step == [s \in S \X V |-> IF s[1] > 1 THEN [s[2] EXCEPT ![s[1]] = h[s[1] \div 2]]
                                     ELSE s[2]]
           rank == [j \in S |-> j]
<1>1. \A j \in S : j > 1 => j \div 2 \in S /\ j \div 2 < j
  OBVIOUS
<1>2. base \in [S -> V]
  OBVIOUS
<1>3. pred \in [S -> S] /\ rank \in [S -> Nat] /\ leaf \in SUBSET S
  BY <1>1
<1>4. step \in [S \X V -> V]
  BY <1>1
<1>5. \A s \in S \ leaf : rank[pred[s]] < rank[s]
  BY <1>1
<1>6. PICK f \in [S -> V] : Solves(f, S, base, step, leaf, pred)
  <2> HIDE DEF S, V, leaf, base, pred, step, rank
  <2>1. Recursive(S, V, base, step, leaf, pred, rank)
    BY <1>2, <1>3, <1>4, <1>5 DEF Recursive
  <2>2. QED
    BY <2>1, Recursion
<1>7. ASSUME NEW j \in S
      PROVE  f[j] = IF Up(j) THEN [f[j \div 2] EXCEPT ![j] = h[j \div 2]]
                    ELSE [h EXCEPT ![j] = h[i]]
  <2>1. CASE Up(j)
    <3>1. pred[j] = j \div 2 /\ j \div 2 \in S /\ f[j \div 2] \in V
      BY <2>1, <1>1
    <3>2. f[j] = step[<<j, f[j \div 2]>>]
      BY <1>6, <2>1, <3>1 DEF Solves
    <3>3. <<j, f[j \div 2]>> \in S \X V
      BY <3>1
    <3>4. QED
      BY <3>2, <3>3, <2>1
  <2>2. CASE ~Up(j)
    BY <1>6, <2>2 DEF Solves
  <2>3. QED
    BY <2>1, <2>2
<1> DEFINE Eq(g) == g = [j \in 1 .. Len(h) |-> IF j > 1 /\ WorseThan(h[i], h[j \div 2])
                           THEN [g[j \div 2] EXCEPT ![j] = h[j \div 2]]
                           ELSE [h EXCEPT ![j] = h[i]]]
           place == CHOOSE g : Eq(g)
<1>8. Len(h) = n
  OBVIOUS
<1>9. Eq(f)
  BY <1>6, <1>7, <1>8
<1>10. Eq(place)
  <2> HIDE DEF Eq
  <2>1. QED
    BY <1>9
<1>11. SiftUp(h, i) = place[i]
  BY DEF SiftUp
<1>12. ASSUME NEW j \in 1 .. n
       PROVE  place[j] = IF j > 1 /\ WorseThan(h[i], h[j \div 2])
                           THEN [place[j \div 2] EXCEPT ![j] = h[j \div 2]]
                           ELSE [h EXCEPT ![j] = h[i]]
  <2> HIDE DEF place
  <2>1. QED
    BY <1>8, <1>10
<1> HIDE DEF place
<1>13. QED
  BY <1>11, <1>12 DEF Climbs

Ordered(h, n) == \A k \in 2 .. n : ~WorseThan(h[k], h[k \div 2])

HeapGood(h) ==
  /\ h \in Seq(Cands)
  /\ Inj(h, 1 .. Len(h))
  /\ Ordered(h, Len(h))

\* What the heap is after it takes c as one more.
HeapTook(h, c, g) ==
  HeapGood(g) /\ Len(g) = Len(h) + 1 /\ ToSet(g) = ToSet(h) \cup {c}

\* A new element sifted up from the end makes a heap again.
LEMMA SiftUpGood ==
  ASSUME NEW h, HeapGood(h), NEW c \in Cands, c \notin ToSet(h)
  PROVE  HeapTook(h, c, SiftUp(Append(h, c), Len(h) + 1))
<1> DEFINE n == Len(h)
           g == Append(h, c)
           D == 1 .. n
<1>1. n \in Nat /\ h \in [1 .. n -> Cands] /\ h \in Seq(Cands)
  BY DEF HeapGood
<1>2. /\ g \in [1 .. n + 1 -> Cands]
      /\ g[n + 1] = c
      /\ \A k \in D : g[k] = h[k]
  <2>1. g \in Seq(Cands) /\ Len(g) = n + 1
    BY <1>1
  <2>2. \A k \in D : g[k] = h[k]
    BY <1>1
  <2>3. g[n + 1] = c
    BY <1>1
  <2>4. g \in [1 .. n + 1 -> Cands]
    <3> HIDE DEF g
    <3>1. QED
      BY <2>1
  <2>5. QED
    BY <2>2, <2>3, <2>4
<1>3. c \notin Img(g, D) /\ Inj(g, D) /\ Ordered(g, n) /\ Img(g, D) = ToSet(h)
  BY <1>1, <1>2 DEF HeapGood, Inj, Ordered, ToSet, Img
<1>4. PICK place : SiftUp(g, n + 1) = place[n + 1] /\ Climbs(place, g, n + 1, n + 1)
  <2> HIDE DEF n, g
  <2>1. n + 1 \in Nat /\ n + 1 \in 1 .. n + 1
    BY <1>1
  <2>2. QED
    BY <2>1, <1>2, SiftUpPlace
<1> HIDE DEF n, g
<1> DEFINE Shifted(j) ==
             /\ place[j] \in [1 .. n + 1 -> Cands]
             /\ \A k \in 1 .. n + 1 : k > j => place[j][k] = g[k]
             /\ Replaced(g, place[j], D, j, c)
             /\ \/ place[j][j] = c
                \/ j > 1 /\ place[j][j] = g[j \div 2] /\ WorseThan(c, g[j \div 2])
             /\ WorseThan(c, g[j]) => Ordered(place[j], n)
<1>5. ASSUME NEW j \in D, ~(j > 1 /\ WorseThan(c, g[j \div 2]))
      PROVE  Shifted(j)
  <2>1. place[j] = [g EXCEPT ![j] = c]
    <3>1. j \in 1 .. n + 1 /\ ~(j > 1 /\ WorseThan(g[n + 1], g[j \div 2]))
      BY <1>1, <1>2, <1>5
    <3>2. place[j] = [g EXCEPT ![j] = g[n + 1]]
      BY <3>1, <1>4 DEF Climbs
    <3>3. QED
      BY <3>2, <1>2
  <2>2. /\ place[j] \in [1 .. n + 1 -> Cands]
        /\ place[j][j] = c
        /\ \A k \in 1 .. n + 1 : k # j => place[j][k] = g[k]
    BY <2>1, <1>1, <1>2
  <2>3. Replaced(g, place[j], D, j, c)
    <3>1. c \notin Img(g, D) \ {g[j]} /\ Puts(g, place[j], D, j, c)
      BY <2>2, <1>3, <1>1 DEF Puts
    <3>2. QED
      BY <3>1, <1>3, <2>2, PutImage
  <2>4. ASSUME WorseThan(c, g[j]), NEW k \in 2 .. n
        PROVE  ~WorseThan(place[j][k], place[j][k \div 2])
    <3>1. /\ k \div 2 \in 1 .. n /\ k \in 1 .. n /\ k \div 2 # k
          /\ g[k] \in Cands /\ g[k \div 2] \in Cands
          /\ g[j] \in Cands
      BY <1>1, <1>2
    <3>2. ~WorseThan(g[k], g[k \div 2])
      BY <1>3 DEF Ordered
    <3>3. CASE k = j
      BY <3>1, <3>3, <2>2, <1>5, <1>1
    <3>4. CASE k # j /\ k \div 2 = j
      BY <3>1, <3>2, <3>4, <2>2, <2>4, <1>1, Asymmetric, NotWorse
    <3>5. CASE k # j /\ k \div 2 # j
      BY <3>1, <3>2, <3>5, <2>2, <1>1
    <3>6. QED
      BY <3>3, <3>4, <3>5
  <2>5. QED
    BY <2>2, <2>3, <2>4, <1>1 DEF Ordered
<1>6. ASSUME NEW j \in D, j > 1, WorseThan(c, g[j \div 2]), Shifted(j \div 2)
      PROVE  Shifted(j)
  <2> DEFINE q == j \div 2
             p == place[q]
  <2>1. q \in D /\ q < j /\ j \in 1 .. n + 1 /\ q \in 1 .. n + 1
    BY <1>1, <1>6
  <2>2. /\ p \in [1 .. n + 1 -> Cands]
        /\ \A k \in 1 .. n + 1 : k > q => p[k] = g[k]
        /\ Replaced(g, p, D, q, c)
        /\ p[q] = c \/ (q > 1 /\ p[q] = g[q \div 2] /\ WorseThan(c, g[q \div 2]))
        /\ Ordered(p, n)
    BY <1>6
  <2>3. place[j] = [p EXCEPT ![j] = g[q]]
    BY <1>6, <1>4, <1>2, <2>1 DEF Climbs
  <2> HIDE DEF q, p
  <2>4. /\ place[j] \in [1 .. n + 1 -> Cands]
        /\ place[j][j] = g[q]
        /\ \A k \in 1 .. n + 1 : k # j => place[j][k] = p[k]
    BY <2>1, <2>2, <2>3, <1>2
  <2>5. Replaced(g, place[j], D, j, c)
    <3>1. p[j] = g[j] /\ j # q /\ Puts(p, place[j], D, j, g[q])
      BY <2>1, <2>2, <2>4, <1>1 DEF Puts
    <3>2. QED
      BY <3>1, <2>1, <2>2, <2>4, <1>3, ShiftImage
  <2>6. \A k \in 1 .. n + 1 : k > j => place[j][k] = g[k]
    BY <2>4, <2>2, <2>1, <1>1
  <2>7. g[j] \in Cands /\ g[q] \in Cands /\ p[q] \in Cands
    BY <2>1, <2>2, <1>2
  <2>8. ASSUME WorseThan(c, g[j]), NEW k \in 2 .. n
        PROVE  ~WorseThan(place[j][k], place[j][k \div 2])
    <3>1. /\ k \div 2 \in 1 .. n /\ k \in 1 .. n /\ k \div 2 # k
          /\ g[k] \in Cands /\ g[k \div 2] \in Cands
          /\ p[k] \in Cands /\ p[k \div 2] \in Cands
          /\ k \in 1 .. n + 1 /\ k \div 2 \in 1 .. n + 1
      BY <1>1, <1>2, <2>2
    <3>2. ~WorseThan(g[k], g[k \div 2]) /\ ~WorseThan(p[k], p[k \div 2])
      BY <1>3, <2>2 DEF Ordered
    <3>3. CASE k = j
      <4>1. place[j][k] = g[q] /\ place[j][k \div 2] = p[q]
        BY <3>1, <3>3, <2>4, <2>1 DEF q
      <4>2. CASE p[q] = c
        BY <4>1, <4>2, <2>7, <1>6, Asymmetric DEF q
      <4>3. CASE q > 1 /\ p[q] = g[q \div 2]
        <5>1. q \in 2 .. n
          BY <4>3, <2>1, <1>1
        <5>2. QED
          BY <5>1, <4>1, <4>3, <1>3 DEF Ordered
      <4>4. QED
        BY <4>2, <4>3, <2>2
    <3>4. CASE k # j /\ k \div 2 = j
      <4>1. k > j /\ k > q
        BY <3>1, <3>4, <2>1, <1>1
      <4>2. place[j][k] = g[k] /\ place[j][k \div 2] = g[q]
        BY <4>1, <3>1, <3>4, <2>4, <2>2
      <4>3. ~WorseThan(g[j], g[q])
        <5>1. j \in 2 .. n
          BY <1>6, <1>1
        <5>2. QED
          BY <5>1, <1>3 DEF Ordered, q
      <4>4. QED
        BY <4>2, <4>3, <3>1, <3>2, <3>4, <2>7, NotWorse
    <3>5. CASE k # j /\ k \div 2 # j
      BY <3>1, <3>2, <3>5, <2>4
    <3>6. QED
      BY <3>3, <3>4, <3>5
  <2>9. QED
    BY <2>4, <2>5, <2>6, <2>8, <1>6, <1>1 DEF Ordered, q
<1>7. \A j \in D : Shifted(j)
  <2> DEFINE Bad == {j \in D : ~Shifted(j)}
  <2>1. Bad = {}
    <3> SUFFICES ASSUME Bad # {} PROVE FALSE
      OBVIOUS
    <3>1. Bad \in SUBSET Nat
      BY <1>1
    <3> HIDE DEF Shifted
    <3>2. PICK j \in Bad : \A k \in Bad : j <= k
      <4> HIDE DEF Bad
      <4>1. QED
        BY <3>1, LeastNat
    <3>3. j > 1 /\ WorseThan(c, g[j \div 2])
      BY <3>2, <1>5
    <3>4. j \div 2 \in D /\ j \div 2 < j
      BY <3>2, <3>3, <1>1
    <3>5. Shifted(j \div 2)
      BY <3>2, <3>4
    <3>6. QED
      BY <3>2, <3>3, <3>5, <1>6
  <2>2. QED
    BY <2>1
<1> DEFINE up == place[n + 1]
<1>8. /\ up \in [1 .. n + 1 -> Cands]
      /\ Inj(up, 1 .. n + 1)
      /\ Img(up, 1 .. n + 1) = ToSet(h) \cup {c}
      /\ Ordered(up, n + 1)
  <2> DEFINE q == (n + 1) \div 2
  <2>1. n + 1 \in 1 .. n + 1
    BY <1>1
  <2>2. CASE ~(n + 1 > 1 /\ WorseThan(c, g[q]))
    <3>1. up = [g EXCEPT ![n + 1] = c]
      BY <1>4, <1>2, <2>1, <2>2 DEF Climbs
    <3>2. up \in [1 .. n + 1 -> Cands] /\ up[n + 1] = c /\ \A k \in D : up[k] = g[k]
      BY <3>1, <1>2, <1>1
    <3>3. Inj(up, 1 .. n + 1) /\ Img(up, 1 .. n + 1) = Img(g, D) \cup {c}
      <4> HIDE DEF up
      <4>1. \A k \in 1 .. n + 1 : k \in D \/ k = n + 1
        BY <1>1
      <4>2. QED
        BY <4>1, <2>1, <3>2, <1>3, <1>1 DEF Inj, Img
    <3>4. ASSUME NEW k \in 2 .. n + 1
          PROVE  ~WorseThan(up[k], up[k \div 2])
      <4>1. k \div 2 \in D /\ up[k \div 2] = g[k \div 2] /\ g[k \div 2] \in Cands
        BY <3>2, <1>1, <1>2
      <4>2. CASE k = n + 1
        BY <4>1, <4>2, <3>2, <2>2
      <4>3. CASE k # n + 1
        <5>1. k \in 2 .. n /\ k \in D
          BY <4>3, <1>1
        <5>2. QED
          BY <5>1, <4>1, <3>2, <1>3 DEF Ordered
      <4>4. QED
        BY <4>2, <4>3
    <3>5. QED
      BY <3>2, <3>3, <3>4, <1>3 DEF Ordered
  <2>3. CASE n + 1 > 1 /\ WorseThan(c, g[q])
    <3> DEFINE p == place[q]
    <3>1. q \in D /\ q # n + 1 /\ n + 1 \notin D
      BY <2>3, <1>1
    <3>2. up = [p EXCEPT ![n + 1] = g[q]]
      BY <1>4, <1>2, <2>1, <2>3 DEF Climbs
    <3>3. /\ p \in [1 .. n + 1 -> Cands]
          /\ Replaced(g, p, D, q, c)
          /\ p[q] = c \/ (q > 1 /\ p[q] = g[q \div 2])
          /\ Ordered(p, n)
      BY <1>7, <3>1, <2>3
    <3> HIDE DEF p, up
    <3>4. up \in [1 .. n + 1 -> Cands] /\ up[n + 1] = g[q] /\ (\A k \in D : up[k] = p[k])
          /\ g[q] \in Cands
      BY <3>1, <3>2, <3>3, <1>2, <1>1
    <3>0. Inj(p, D) /\ Img(p, D) = (Img(g, D) \ {g[q]}) \cup {c}
      BY <3>3 DEF Replaced
    <3>5. g[q] \in Img(g, D) /\ g[q] # c /\ g[q] \notin Img(p, D)
      BY <3>0, <3>1, <1>3 DEF Img
    <3>6. Inj(up, 1 .. n + 1) /\ Img(up, 1 .. n + 1) = Img(p, D) \cup {g[q]}
      <4>1. \A k \in 1 .. n + 1 : k \in D \/ k = n + 1
        BY <1>1
      <4>2. \A k \in D : p[k] # g[q] /\ k \in 1 .. n + 1
        BY <3>5, <1>1 DEF Img
      <4> HIDE DEF D, q
      <4>3. QED
        BY <4>1, <4>2, <2>1, <3>4, <3>0, <1>1 DEF Inj, Img
    <3>7. Img(up, 1 .. n + 1) = ToSet(h) \cup {c}
      BY <3>6, <3>5, <3>0, <1>3
    <3>8. ASSUME NEW k \in 2 .. n + 1
          PROVE  ~WorseThan(up[k], up[k \div 2])
      <4>1. k \div 2 \in D /\ up[k \div 2] = p[k \div 2]
        BY <3>4, <1>1
      <4>2. CASE k = n + 1
        <5>1. up[k] = g[q] /\ up[k \div 2] = p[q]
          BY <4>1, <4>2, <3>4
        <5>2. CASE p[q] = c
          BY <5>1, <5>2, <3>4, <2>3, Asymmetric
        <5>3. CASE q > 1 /\ p[q] = g[q \div 2]
          <6>1. q \in 2 .. n
            BY <5>3, <3>1, <1>1
          <6>2. QED
            BY <6>1, <5>1, <5>3, <1>3 DEF Ordered
        <5>4. QED
          BY <5>2, <5>3, <3>3
      <4>3. CASE k # n + 1
        <5>1. k \in 2 .. n /\ k \in D
          BY <4>3, <1>1
        <5>2. QED
          BY <5>1, <4>1, <3>4, <3>3 DEF Ordered
      <4>4. QED
        BY <4>2, <4>3
    <3>9. QED
      BY <3>4, <3>6, <3>7, <3>8 DEF Ordered
  <2>4. QED
    BY <2>2, <2>3
<1> HIDE DEF up
<1>9. up \in Seq(Cands) /\ Len(up) = n + 1 /\ ToSet(up) = Img(up, 1 .. n + 1)
  BY <1>8, <1>1 DEF ToSet, Img
<1>10. HeapGood(up) /\ ToSet(up) = ToSet(h) \cup {c} /\ Len(up) = n + 1
  BY <1>8, <1>9 DEF HeapGood
<1>11. QED
  BY <1>10, <1>4 DEF up, n, g, HeapTook

---------------------------------------------------------------------------
(***************************************************************************)
(* The heap: an element moves down.                                        *)
(***************************************************************************)

\* Where the element being sifted down goes next, if anywhere.
LEMMA WorstAtIs ==
  ASSUME NEW n \in Nat, NEW h \in [1 .. n -> Cands], NEW j \in 1 .. n, NEW x \in Cands
  PROVE  LET w == WorstAt(h, j, x)
         IN \/ /\ w = j
               /\ \A k \in 2 .. n : k \div 2 = j => ~WorseThan(h[k], x)
            \/ /\ w \in 2 .. n /\ w \div 2 = j /\ WorseThan(h[w], x)
               /\ \A k \in 2 .. n : k \div 2 = j => ~WorseThan(h[k], h[w])
<1>1. Len(h) = n
  OBVIOUS
<1>2. \A k \in 2 .. n : k \div 2 = j => k = 2 * j \/ k = 2 * j + 1
  OBVIOUS
<1>3. /\ 2 * j <= n => 2 * j \in 2 .. n /\ (2 * j) \div 2 = j /\ h[2 * j] \in Cands
      /\ 2 * j + 1 <= n => 2 * j + 1 \in 2 .. n /\ (2 * j + 1) \div 2 = j
                           /\ h[2 * j + 1] \in Cands /\ 2 * j <= n
      /\ 2 * j # j /\ 2 * j + 1 # j /\ 2 * j # 2 * j + 1
  OBVIOUS
<1>4. CASE 2 * j <= n /\ WorseThan(h[2 * j], x)
  <2>1. WorstAt(h, j, x) = IF 2 * j + 1 <= n /\ WorseThan(h[2 * j + 1], h[2 * j])
                           THEN 2 * j + 1 ELSE 2 * j
    BY <1>1, <1>3, <1>4 DEF WorstAt
  <2>2. CASE 2 * j + 1 <= n /\ WorseThan(h[2 * j + 1], h[2 * j])
    <3>1. WorstAt(h, j, x) = 2 * j + 1 /\ h[2 * j] \in Cands /\ h[2 * j + 1] \in Cands
      BY <2>1, <2>2, <1>3
    <3>2. WorseThan(h[2 * j + 1], x)
      BY <3>1, <2>2, <1>4, Transitive
    <3>3. ~WorseThan(h[2 * j], h[2 * j + 1]) /\ ~WorseThan(h[2 * j + 1], h[2 * j + 1])
      BY <3>1, <2>2, Asymmetric, Irreflexive
    <3>4. QED
      BY <3>1, <3>2, <3>3, <2>2, <1>2, <1>3
  <2>3. CASE ~(2 * j + 1 <= n /\ WorseThan(h[2 * j + 1], h[2 * j]))
    <3>1. WorstAt(h, j, x) = 2 * j /\ h[2 * j] \in Cands
      BY <2>1, <2>3, <1>3, <1>4
    <3>2. ~WorseThan(h[2 * j], h[2 * j])
      BY <3>1, Irreflexive
    <3>3. \A k \in 2 .. n : k \div 2 = j => ~WorseThan(h[k], h[2 * j])
      BY <3>2, <2>3, <1>2
    <3>4. QED
      BY <3>1, <3>3, <1>3, <1>4
  <2>4. QED
    BY <2>2, <2>3
<1>5. CASE ~(2 * j <= n /\ WorseThan(h[2 * j], x))
  <2>1. WorstAt(h, j, x) = IF 2 * j + 1 <= n /\ WorseThan(h[2 * j + 1], x)
                           THEN 2 * j + 1 ELSE j
    BY <1>1, <1>5 DEF WorstAt
  <2>2. CASE 2 * j + 1 <= n /\ WorseThan(h[2 * j + 1], x)
    <3>1. WorstAt(h, j, x) = 2 * j + 1 /\ h[2 * j] \in Cands /\ h[2 * j + 1] \in Cands
      BY <2>1, <2>2, <1>3
    <3>2. ~WorseThan(h[2 * j], x)
      BY <2>2, <1>5, <1>3
    <3>3. ~WorseThan(h[2 * j], h[2 * j + 1]) /\ ~WorseThan(h[2 * j + 1], h[2 * j + 1])
      BY <3>1, <3>2, <2>2, NotWorse, Irreflexive, Asymmetric
    <3>4. QED
      BY <3>1, <3>3, <2>2, <1>2, <1>3
  <2>3. CASE ~(2 * j + 1 <= n /\ WorseThan(h[2 * j + 1], x))
    <3>1. WorstAt(h, j, x) = j
      BY <2>1, <2>3
    <3>2. \A k \in 2 .. n : k \div 2 = j => ~WorseThan(h[k], x)
      BY <1>2, <1>5, <2>3
    <3>3. QED
      BY <3>1, <3>2
  <2>4. QED
    BY <2>2, <2>3
<1>6. QED
  BY <1>4, <1>5

\* What SiftDown's recursive function is.
Sinks(place, h, n) ==
  \A j \in 1 .. n :
    place[j] = IF WorstAt(h, j, h[1]) = j THEN [h EXCEPT ![j] = h[1]]
               ELSE [place[WorstAt(h, j, h[1])] EXCEPT ![j] = h[WorstAt(h, j, h[1])]]

\* SiftDown's recursive function exists, and is what its equation says.
LEMMA SiftDownPlace ==
  ASSUME NEW n \in Nat \ {0}, NEW h \in [1 .. n -> Cands]
  PROVE  \E place : SiftDown(h) = place[1] /\ Sinks(place, h, n)
<1> DEFINE S == 1 .. n
           V == [1 .. n -> Cands]
           W(j) == WorstAt(h, j, h[1])
           leaf == {j \in S : W(j) = j}
           base == [j \in S |-> [h EXCEPT ![j] = h[1]]]
           pred == [j \in S |-> W(j)]
           step == [s \in S \X V |-> [s[2] EXCEPT ![s[1]] = h[pred[s[1]]]]]
           rank == [j \in S |-> n - j]
<1>0. 1 \in S /\ h[1] \in Cands
  OBVIOUS
<1>1. ASSUME NEW j \in S PROVE W(j) \in S /\ (W(j) = j \/ W(j) > j)
  <2> DEFINE w == W(j)
  <2>1. w = j \/ (w \in 2 .. n /\ w \div 2 = j)
    BY <1>0, WorstAtIs
  <2> HIDE DEF w
  <2>2. w \in S /\ (w = j \/ w > j)
    BY <2>1
  <2>3. QED
    BY <2>2 DEF w
<1> HIDE DEF W
<1>2. base \in [S -> V]
  BY <1>0
<1>3. pred \in [S -> S] /\ rank \in [S -> Nat] /\ leaf \in SUBSET S
  BY <1>1
<1>4. step \in [S \X V -> V]
  BY <1>3
<1>5. ASSUME NEW s \in S \ leaf PROVE rank[pred[s]] < rank[s]
  <2>1. W(s) \in S /\ W(s) > s
    BY <1>1
  <2>2. QED
    BY <2>1
<1>6. PICK f \in [S -> V] : Solves(f, S, base, step, leaf, pred)
  <2> HIDE DEF S, V, leaf, base, pred, step, rank
  <2>1. Recursive(S, V, base, step, leaf, pred, rank)
    BY <1>2, <1>3, <1>4, <1>5 DEF Recursive
  <2>2. QED
    BY <2>1, Recursion
<1>7. ASSUME NEW j \in S
      PROVE  f[j] = IF W(j) = j THEN [h EXCEPT ![j] = h[1]]
                    ELSE [f[W(j)] EXCEPT ![j] = h[W(j)]]
  <2>1. CASE W(j) # j
    <3>1. W(j) \in S /\ f[W(j)] \in V /\ pred[j] = W(j)
      BY <1>1
    <3>2. f[j] = step[<<j, f[W(j)]>>]
      BY <1>6, <2>1, <3>1 DEF Solves
    <3>3. <<j, f[W(j)]>> \in S \X V
      BY <3>1
    <3>4. QED
      BY <3>1, <3>2, <3>3, <2>1
  <2>2. CASE W(j) = j
    BY <1>6, <2>2 DEF Solves
  <2>3. QED
    BY <2>1, <2>2
<1> USE DEF W
<1> DEFINE Eq(g) == g = [j \in 1 .. Len(h) |->
                           IF WorstAt(h, j, h[1]) = j THEN [h EXCEPT ![j] = h[1]]
                           ELSE [g[WorstAt(h, j, h[1])] EXCEPT ![j] = h[WorstAt(h, j, h[1])]]]
           place == CHOOSE g : Eq(g)
<1>8. Len(h) = n
  OBVIOUS
<1>9. Eq(f)
  BY <1>6, <1>7, <1>8
<1>10. Eq(place)
  <2> HIDE DEF Eq
  <2>1. QED
    BY <1>9
<1>11. SiftDown(h) = place[1]
  BY DEF SiftDown
<1>12. ASSUME NEW j \in 1 .. n
       PROVE  place[j] = IF WorstAt(h, j, h[1]) = j THEN [h EXCEPT ![j] = h[1]]
                         ELSE [place[WorstAt(h, j, h[1])] EXCEPT ![j] = h[WorstAt(h, j, h[1])]]
  <2> HIDE DEF place
  <2>1. QED
    BY <1>8, <1>10
<1> HIDE DEF place
<1>13. QED
  BY <1>11, <1>12 DEF Sinks

\* Ordered but for the root.
OrderedBelow(h, n) == \A k \in 2 .. n : k \div 2 >= 2 => ~WorseThan(h[k], h[k \div 2])

\* A heap but for its root is one after SiftDown, of the same elements.
LEMMA SiftDownGood ==
  ASSUME NEW h \in Seq(Cands), Len(h) >= 1, Inj(h, 1 .. Len(h)), OrderedBelow(h, Len(h))
  PROVE  HeapGood(SiftDown(h)) /\ ToSet(SiftDown(h)) = ToSet(h) /\ Len(SiftDown(h)) = Len(h)
<1> DEFINE n == Len(h)
           D == 2 .. n
           x == h[1]
           W(j) == WorstAt(h, j, x)
<1>1. n \in Nat \ {0} /\ h \in [1 .. n -> Cands] /\ 1 \in 1 .. n /\ x \in Cands
  OBVIOUS
<1>2. x \notin Img(h, D) /\ Inj(h, D) /\ ToSet(h) = Img(h, D) \cup {x}
  <2>1. D \subseteq 1 .. n /\ 1 \notin D /\ \A k \in 1 .. n : k = 1 \/ k \in D
    BY <1>1
  <2>2. ToSet(h) = Img(h, 1 .. n)
    BY DEF ToSet, Img
  <2> HIDE DEF D, n
  <2>3. QED
    BY <2>1, <2>2, <1>1 DEF Inj, Img, n
<1>3. PICK place : SiftDown(h) = place[1] /\ Sinks(place, h, n)
  <2> HIDE DEF n
  <2>1. QED
    BY <1>1, SiftDownPlace
<1>4. OrderedBelow(h, n)
  OBVIOUS
<1> HIDE DEF n, x
<1>5. \A j \in 1 .. n : W(j) = j \/ (W(j) \in 2 .. n /\ W(j) \div 2 = j)
  BY <1>1, WorstAtIs
<1> DEFINE Sunk(j) ==
             /\ place[j] \in [1 .. n -> Cands]
             /\ \A k \in 1 .. n : k # j /\ k < 2 * j => place[j][k] = h[k]
             /\ j >= 2 => Replaced(h, place[j], D, j, x)
             /\ \/ place[j][j] = x
                \/ \E k \in 2 .. n : k \div 2 = j /\ place[j][j] = h[k]
             /\ \A k \in 2 .. n :
                  (k \div 2 >= 2 /\ k # j) \/ k \div 2 = j
                    => ~WorseThan(place[j][k], place[j][k \div 2])
<1>6. ASSUME NEW j \in 1 .. n, W(j) = j
      PROVE  Sunk(j)
  <2>1. place[j] = [h EXCEPT ![j] = x]
    BY <1>3, <1>6 DEF Sinks, x
  <2>2. /\ place[j] \in [1 .. n -> Cands]
        /\ place[j][j] = x
        /\ \A k \in 1 .. n : k # j => place[j][k] = h[k]
    BY <2>1, <1>1
  <2>3. ASSUME j >= 2 PROVE Replaced(h, place[j], D, j, x)
    <3>1. x \notin Img(h, D) \ {h[j]} /\ Puts(h, place[j], D, j, x) /\ j \in D
      BY <2>2, <2>3, <1>2, <1>1 DEF Puts
    <3>2. QED
      BY <3>1, <1>2, PutImage
  <2>4. \A k \in 2 .. n : k \div 2 = j => ~WorseThan(h[k], x)
    BY <1>1, <1>6, WorstAtIs
  <2>5. ASSUME NEW k \in 2 .. n, (k \div 2 >= 2 /\ k # j) \/ k \div 2 = j
        PROVE  ~WorseThan(place[j][k], place[j][k \div 2])
    <3>1. k \in 1 .. n /\ k \div 2 \in 1 .. n /\ k \div 2 # k
      BY <1>1
    <3>2. CASE k \div 2 = j
      BY <3>1, <3>2, <2>2, <2>4
    <3>3. CASE k \div 2 # j
      BY <3>1, <3>3, <2>5, <2>2, <1>4 DEF OrderedBelow
    <3>4. QED
      BY <3>2, <3>3
  <2>6. QED
    BY <2>2, <2>3, <2>5
<1>7. ASSUME NEW j \in 1 .. n, NEW w \in 2 .. n, w = W(j), w \div 2 = j, Sunk(w)
      PROVE  /\ j >= 2 => Sunk(j)
             /\ j = 1 => HeapGood(place[1]) /\ ToSet(place[1]) = ToSet(h) /\ Len(place[1]) = n
  <2> DEFINE p == place[w]
  <2>1. /\ w > j /\ w \in 1 .. n /\ w \in D /\ w >= 2 /\ w >= 2 * j /\ w # j
        /\ h[w] \in Cands /\ x \in Cands
    BY <1>1, <1>7
  <2>2. WorseThan(h[w], x) /\ \A k \in 2 .. n : k \div 2 = j => ~WorseThan(h[k], h[w])
    <3>1. W(j) # j
      BY <2>1, <1>7
    <3>2. QED
      BY <3>1, <1>1, <1>7, WorstAtIs
  <2>3. /\ p \in [1 .. n -> Cands]
        /\ \A k \in 1 .. n : k # w /\ k < 2 * w => p[k] = h[k]
        /\ Replaced(h, p, D, w, x)
        /\ p[w] = x \/ \E k \in 2 .. n : k \div 2 = w /\ p[w] = h[k]
        /\ \A k \in 2 .. n :
             (k \div 2 >= 2 /\ k # w) \/ k \div 2 = w => ~WorseThan(p[k], p[k \div 2])
    BY <2>1, <1>7
  <2>4. place[j] = [p EXCEPT ![j] = h[w]]
    BY <1>3, <1>7, <2>1 DEF Sinks, x
  <2> HIDE DEF p
  <2>5. /\ place[j] \in [1 .. n -> Cands]
        /\ place[j][j] = h[w]
        /\ \A k \in 1 .. n : k # j => place[j][k] = p[k]
    BY <2>3, <2>4, <2>1
  <2>6. \A k \in 1 .. n : k # j /\ k < 2 * j => place[j][k] = h[k]
    BY <2>5, <2>3, <2>1, <1>1
  <2>7. p[j] = h[j]
    BY <2>3, <2>1, <1>1
  <2>8. ~WorseThan(p[w], h[w])
    <3>1. CASE p[w] = x
      BY <3>1, <2>1, <2>2, Asymmetric
    <3>2. CASE \E k \in 2 .. n : k \div 2 = w /\ p[w] = h[k]
      BY <3>2, <2>1, <1>4 DEF OrderedBelow
    <3>3. QED
      BY <3>1, <3>2, <2>3
  <2>9. ASSUME NEW k \in 2 .. n, (k \div 2 >= 2 /\ k # j) \/ k \div 2 = j
        PROVE  ~WorseThan(place[j][k], place[j][k \div 2])
    <3>1. /\ k \in 1 .. n /\ k \div 2 \in 1 .. n /\ k \div 2 # k
          /\ (k \div 2 = j => k # j /\ k < 2 * w)
      BY <1>1, <2>1
    <3>2. CASE k = w
      BY <3>1, <3>2, <1>7, <2>5, <2>8
    <3>3. CASE k # w /\ k \div 2 = j
      <4>1. place[j][k] = h[k] /\ place[j][k \div 2] = h[w]
        BY <3>1, <3>3, <2>5, <2>3
      <4>2. QED
        BY <4>1, <3>3, <2>2
    <3>4. CASE k # w /\ k \div 2 # j
      BY <3>1, <3>4, <2>9, <2>5, <2>3
    <3>5. QED
      BY <3>2, <3>3, <3>4
  <2>10. ASSUME j >= 2 PROVE Sunk(j)
    <3>1. j \in D /\ w \in D /\ j # w /\ Puts(p, place[j], D, j, h[w])
      BY <2>1, <2>5, <2>10, <1>1 DEF Puts
    <3>2. Replaced(h, place[j], D, j, x)
      BY <3>1, <2>3, <2>7, <1>2, ShiftImage
    <3>3. \E k \in 2 .. n : k \div 2 = j /\ place[j][j] = h[k]
      BY <2>5, <1>7
    <3>4. QED
      BY <3>2, <3>3, <2>5, <2>6, <2>9
  <2>11. ASSUME j = 1
         PROVE  HeapGood(place[1]) /\ ToSet(place[1]) = ToSet(h) /\ Len(place[1]) = n
    <3> DEFINE g == place[1]
    <3>1. /\ g \in [1 .. n -> Cands] /\ g[1] = h[w]
          /\ \A k \in D : g[k] = p[k] /\ k \in 1 .. n
      BY <2>5, <2>11, <1>1
    <3>2. Ordered(g, n)
      BY <2>9, <2>11, <1>1 DEF Ordered
    <3> HIDE DEF g
    <3>3. g \in Seq(Cands) /\ Len(g) = n /\ ToSet(g) = Img(g, 1 .. n)
      BY <3>1, <1>1 DEF ToSet, Img
    <3>4. Inj(p, D) /\ Img(p, D) = (Img(h, D) \ {h[w]}) \cup {x}
      BY <2>3 DEF Replaced
    <3>5. h[w] \in Img(h, D) /\ h[w] # x
      BY <2>1, <1>2 DEF Img
    <3>6. \A k \in 1 .. n : k = 1 \/ k \in D
      BY <1>1
    <3>7. 1 \in 1 .. n /\ 1 \notin D
      BY <1>1
    <3>8. \A k \in D : p[k] # h[w]
      BY <3>4, <3>5 DEF Img
    <3> HIDE DEF D
    <3>9. Inj(g, 1 .. n) /\ Img(g, 1 .. n) = Img(p, D) \cup {h[w]}
      BY <3>1, <3>4, <3>6, <3>7, <3>8 DEF Inj, Img
    <3>10. ToSet(g) = ToSet(h)
      BY <3>3, <3>4, <3>5, <3>9, <1>2
    <3>11. QED
      BY <3>2, <3>3, <3>9, <3>10 DEF HeapGood, g
  <2>12. QED
    BY <2>10, <2>11
<1> DEFINE Bad == {j \in 2 .. n : ~Sunk(j)}
<1>8. Bad = {}
  <2> SUFFICES ASSUME Bad # {} PROVE FALSE
    OBVIOUS
  <2> DEFINE Depth == {n - j : j \in Bad}
  <2>1. Depth \in SUBSET Nat /\ Depth # {}
    BY <1>1
  <2>2. PICK d \in Depth : \A e \in Depth : d <= e
    <3> HIDE DEF Depth
    <3>1. QED
      BY <2>1, LeastNat
  <2>3. PICK j \in Bad : \A k \in Bad : k <= j
    <3>1. PICK j \in Bad : d = n - j
      BY <2>2
    <3>2. ASSUME NEW k \in Bad PROVE k <= j
      <4>1. n - j <= n - k
        BY <2>2, <3>1
      <4>2. QED
        BY <4>1, <1>1
    <3>3. QED
      BY <3>2
  <2> HIDE DEF Sunk
  <2>4. j \in 1 .. n /\ j >= 2 /\ ~Sunk(j) /\ j \in 2 .. n
    BY <2>3, <1>1
  <2>5. W(j) # j
    BY <2>4, <1>6
  <2> DEFINE w == W(j)
  <2>6. w \in 2 .. n /\ w \div 2 = j
    BY <2>4, <2>5, <1>5
  <2> HIDE DEF W, w
  <2>7. w > j
    BY <2>6, <2>4
  <2>8. Sunk(w)
    BY <2>3, <2>6, <2>7, <2>4
  <2>9. QED
    BY <2>4, <2>6, <2>8, <1>7 DEF w
<1>9. CASE W(1) = 1
  <2>1. place[1] = [h EXCEPT ![1] = h[1]]
    BY <1>3, <1>1, <1>9 DEF Sinks, x
  <2>2. place[1] = h
    BY <2>1
  <2>3. Sunk(1)
    BY <1>1, <1>6, <1>9
  <2>4. Ordered(h, n)
    <3>1. ASSUME NEW k \in 2 .. n PROVE ~WorseThan(h[k], h[k \div 2])
      <4>1. (k \div 2 >= 2 /\ k # 1) \/ k \div 2 = 1
        BY <1>1
      <4>2. QED
        BY <4>1, <2>2, <2>3
    <3>2. QED
      BY <3>1 DEF Ordered
  <2>5. QED
    BY <2>2, <2>4, <1>3 DEF HeapGood, n
<1>10. CASE W(1) # 1
  <2> DEFINE w == W(1)
  <2>1. w \in 2 .. n /\ w \div 2 = 1
    BY <1>1, <1>10, WorstAtIs
  <2> HIDE DEF W, w
  <2>2. Sunk(w)
    BY <2>1, <1>8
  <2> HIDE DEF Sunk
  <2>3. HeapGood(place[1]) /\ ToSet(place[1]) = ToSet(h) /\ Len(place[1]) = n
    BY <2>1, <2>2, <1>1, <1>7 DEF w
  <2>4. QED
    BY <2>3, <1>3 DEF n
<1>11. QED
  BY <1>9, <1>10

---------------------------------------------------------------------------
(***************************************************************************)
(* The root replaced, and popped.                                          *)
(***************************************************************************)

\* The root of a heap is worse than everything else in it.
LEMMA RootWorst ==
  ASSUME NEW h, HeapGood(h), NEW k \in 1 .. Len(h), k # 1
  PROVE  WorseThan(h[1], h[k])
<1> DEFINE n == Len(h)
           Bad == {j \in 1 .. n : WorseThan(h[j], h[1])}
<1>1. n \in Nat /\ h \in [1 .. n -> Cands] /\ 1 \in 1 .. n
  BY DEF HeapGood
<1>2. Bad = {}
  <2> SUFFICES ASSUME Bad # {} PROVE FALSE
    OBVIOUS
  <2>1. Bad \in SUBSET Nat
    BY <1>1
  <2>2. PICK j \in Bad : \A i \in Bad : j <= i
    <3> HIDE DEF Bad
    <3>1. QED
      BY <2>1, LeastNat
  <2>3. j # 1
    BY <2>2, <1>1, Irreflexive
  <2>4. j \in 2 .. n /\ j \div 2 \in 1 .. n /\ j \div 2 < j
    BY <2>2, <2>3, <1>1
  <2>5. ~WorseThan(h[j], h[j \div 2])
    BY <2>4 DEF HeapGood, Ordered
  <2>6. ~WorseThan(h[j \div 2], h[1])
    BY <2>2, <2>4
  <2>7. h[j] \in Cands /\ h[j \div 2] \in Cands /\ h[1] \in Cands
    BY <2>4, <1>1
  <2>8. QED
    BY <2>2, <2>5, <2>6, <2>7, NotWorse
<1>3. ~WorseThan(h[k], h[1])
  BY <1>2
<1>4. h[k] # h[1] /\ h[k] \in Cands /\ h[1] \in Cands
  BY <1>1 DEF HeapGood, Inj
<1>5. QED
  BY <1>3, <1>4, Total

\* What the heap is after its worst gives way to c, and after it is popped.
RootReplaced(h, c, g) ==
  HeapGood(g) /\ Len(g) = Len(h) /\ ToSet(g) = (ToSet(h) \ {h[1]}) \cup {c}

RootPopped(h, g) ==
  HeapGood(g) /\ Len(g) = Len(h) - 1 /\ ToSet(g) = ToSet(h) \ {h[1]}

\* An element in place of the root, sifted down.
LEMMA ReplaceRootGood ==
  ASSUME NEW h, HeapGood(h), Len(h) >= 1, NEW c \in Cands, c \notin ToSet(h)
  PROVE  RootReplaced(h, c, SiftDown([h EXCEPT ![1] = c]))
<1> DEFINE n == Len(h)
           g == [h EXCEPT ![1] = c]
<1>1. n \in Nat \ {0} /\ h \in [1 .. n -> Cands] /\ 1 \in 1 .. n /\ h \in Seq(Cands)
  BY DEF HeapGood
<1>2. g \in Seq(Cands) /\ Len(g) = n
  BY <1>1
<1>3. /\ g[1] = c
      /\ \A k \in 1 .. n : k # 1 => g[k] = h[k]
  BY <1>1
<1> HIDE DEF g, n
<1>4. Inj(h, 1 .. n) /\ c \notin Img(h, 1 .. n) /\ Img(h, 1 .. n) = ToSet(h)
  BY <1>1 DEF HeapGood, n, Img, ToSet
<1>5. Replaced(h, g, 1 .. n, 1, c)
  <2>1. Puts(h, g, 1 .. n, 1, c) /\ c \notin Img(h, 1 .. n) \ {h[1]}
    BY <1>3, <1>4 DEF Puts
  <2>2. QED
    BY <2>1, <1>1, <1>4, PutImage
<1>6. Inj(g, 1 .. n) /\ Img(g, 1 .. n) = (ToSet(h) \ {h[1]}) \cup {c}
  BY <1>5, <1>4 DEF Replaced
<1>7. OrderedBelow(g, n)
  <2>1. ASSUME NEW k \in 2 .. n, k \div 2 >= 2 PROVE ~WorseThan(g[k], g[k \div 2])
    <3>1. g[k] = h[k] /\ g[k \div 2] = h[k \div 2]
      BY <2>1, <1>1, <1>3
    <3>2. QED
      BY <3>1 DEF HeapGood, Ordered, n
  <2>2. QED
    BY <2>1 DEF OrderedBelow
<1>8. ToSet(g) = Img(g, 1 .. n)
  BY <1>2 DEF ToSet, Img
<1>9. HeapGood(SiftDown(g)) /\ ToSet(SiftDown(g)) = ToSet(g) /\ Len(SiftDown(g)) = n
  <2>1. Len(g) >= 1 /\ Inj(g, 1 .. Len(g)) /\ OrderedBelow(g, Len(g))
    BY <1>1, <1>2, <1>6, <1>7
  <2>2. QED
    BY <2>1, <1>2, SiftDownGood
<1>10. QED
  BY <1>6, <1>8, <1>9 DEF g, n, RootReplaced

\* PopWorst takes the root and leaves a heap of the others.
LEMMA PopGood ==
  ASSUME NEW h, HeapGood(h), Len(h) >= 1
  PROVE  RootPopped(h, PopWorst(h))
<1> DEFINE n == Len(h)
<1>1. n \in Nat \ {0} /\ h \in [1 .. n -> Cands] /\ 1 \in 1 .. n /\ h \in Seq(Cands)
  BY DEF HeapGood
<1>2. CASE n = 1
  <2>1. PopWorst(h) = <<>>
    BY <1>2 DEF PopWorst
  <2>2. ToSet(h) = {h[1]} /\ ToSet(<<>>) = {}
    BY <1>1, <1>2 DEF ToSet
  <2>3. HeapGood(<<>>)
    BY DEF HeapGood, Inj, Ordered
  <2>4. QED
    BY <2>1, <2>2, <2>3, <1>2 DEF RootPopped
<1>3. CASE n > 1
  <2> DEFINE f == Front(h)
             c == Last(h)
  <2>1. f \in Seq(Cands) /\ Len(f) = n - 1 /\ \A k \in 1 .. n - 1 : f[k] = h[k]
    BY <1>1, <1>3 DEF Front
  <2>2. c = h[n] /\ c \in Cands /\ n \in 1 .. n /\ Len(f) >= 1
    BY <2>1, <1>1, <1>3 DEF Last
  <2> HIDE DEF f, c, n
  <2>3. \A k \in 1 .. n : k \in 1 .. n - 1 \/ k = n
    BY <1>1
  <2>4. ToSet(h) = ToSet(f) \cup {c} /\ c \notin ToSet(f) /\ f[1] = h[1] /\ f[1] # c
    <3>1. ToSet(h) = Img(h, 1 .. n) /\ ToSet(f) = Img(f, 1 .. n - 1) /\ Inj(h, 1 .. n)
      BY <2>1 DEF ToSet, Img, HeapGood, n
    <3>2. \A k \in 1 .. n - 1 : k \in 1 .. n /\ k # n /\ f[k] = h[k]
      BY <2>1, <1>1
    <3>3. 1 \in 1 .. n - 1
      BY <1>3, <1>1
    <3>4. QED
      BY <3>1, <3>2, <3>3, <2>2, <2>3 DEF Img, Inj
  <2>5. HeapGood(f)
    <3>1. Inj(f, 1 .. Len(f))
      BY <2>1, <1>1 DEF HeapGood, Inj, n
    <3>2. ASSUME NEW k \in 2 .. Len(f) PROVE ~WorseThan(f[k], f[k \div 2])
      <4>1. f[k] = h[k] /\ f[k \div 2] = h[k \div 2] /\ k \in 2 .. n
        BY <2>1, <1>1
      <4>2. QED
        BY <4>1 DEF HeapGood, Ordered, n
    <3>3. QED
      BY <3>1, <3>2, <2>1 DEF HeapGood, Ordered
  <2>6. PopWorst(h) = SiftDown([f EXCEPT ![1] = c])
    BY <1>1, <1>3 DEF PopWorst, f, c, n
  <2>7. RootReplaced(f, c, PopWorst(h))
    BY <2>2, <2>4, <2>5, <2>6, ReplaceRootGood
  <2>8. ToSet(h) \ {h[1]} = (ToSet(f) \ {f[1]}) \cup {c}
    BY <2>4
  <2>9. QED
    BY <2>1, <2>7, <2>8 DEF n, RootPopped, RootReplaced
<1>4. QED
  BY <1>1, <1>2, <1>3

---------------------------------------------------------------------------
(***************************************************************************)
(* The heap drained.                                                       *)
(***************************************************************************)

\* Best first, each once.
Descending(s) ==
  \A a, b \in 1 .. Len(s) : a < b => WorseThan(s[b], s[a])

\* What DrainSorted's recursive function is.
Drains(g, h) ==
  \A i \in 0 .. Len(h) :
    g[i] = IF i = 0 THEN [heap |-> h, out |-> <<>>]
           ELSE [heap |-> PopWorst(g[i - 1].heap),
                 out |-> <<Head(g[i - 1].heap)>> \o g[i - 1].out]

\* After i pops: what is left is a heap, all of it better than what is out.
Drained(h, i, s) ==
  /\ HeapGood(s.heap) /\ Len(s.heap) = Len(h) - i
  /\ s.out \in Seq(Cands) /\ Len(s.out) = i /\ Descending(s.out)
  /\ ToSet(s.heap) \cup ToSet(s.out) = ToSet(h)
  /\ \A c \in ToSet(s.heap), d \in ToSet(s.out) : WorseThan(d, c)

\* One more pop.
LEMMA DrainedByOne ==
  ASSUME NEW h, HeapGood(h), NEW i \in 1 .. Len(h), NEW s, Drained(h, i - 1, s)
  PROVE  Drained(h, i, [heap |-> PopWorst(s.heap), out |-> <<Head(s.heap)>> \o s.out])
<1> DEFINE g == s.heap
           o == s.out
           p == PopWorst(g)
           r == <<Head(g)>> \o o
<1>0. Len(h) \in Nat /\ i \in Nat /\ i >= 1 /\ i <= Len(h)
  BY DEF HeapGood
<1>1. /\ HeapGood(g) /\ Len(g) = Len(h) - (i - 1)
      /\ o \in Seq(Cands) /\ Len(o) = i - 1 /\ Descending(o)
      /\ ToSet(g) \cup ToSet(o) = ToSet(h)
      /\ \A c \in ToSet(g), d \in ToSet(o) : WorseThan(d, c)
  BY DEF Drained
<1> HIDE DEF g, o
<1>2. Len(g) \in Nat \ {0} /\ g \in Seq(Cands)
  BY <1>0, <1>1 DEF HeapGood
<1>3. Head(g) = g[1] /\ g[1] \in Cands /\ g[1] \in ToSet(g)
  BY <1>2 DEF ToSet
<1>4. RootPopped(g, p)
  BY <1>1, <1>2, PopGood
<1> HIDE DEF p
<1>5. HeapGood(p) /\ Len(p) = Len(h) - i /\ ToSet(p) = ToSet(g) \ {g[1]}
  BY <1>0, <1>1, <1>4 DEF RootPopped
<1>6. /\ r \in Seq(Cands) /\ Len(r) = i /\ r[1] = g[1]
      /\ \A k \in 2 .. i : r[k] = o[k - 1]
  BY <1>0, <1>1, <1>3
<1> HIDE DEF r
<1>7. ToSet(r) = ToSet(o) \cup {g[1]}
  <2>1. \A k \in 1 .. i : k = 1 \/ (k \in 2 .. i /\ k - 1 \in 1 .. i - 1)
    BY <1>0
  <2>2. \A k \in 1 .. i - 1 : k + 1 \in 2 .. i /\ k + 1 \in 1 .. i /\ (k + 1) - 1 = k
    BY <1>0
  <2>3. DOMAIN r = 1 .. i /\ DOMAIN o = 1 .. i - 1 /\ 1 \in 1 .. i
    BY <1>6, <1>1, <1>0
  <2>4. ASSUME NEW k \in 1 .. i PROVE r[k] \in ToSet(o) \cup {g[1]}
    <3>1. CASE k = 1
      BY <3>1, <1>6
    <3>2. CASE k \in 2 .. i /\ k - 1 \in 1 .. i - 1
      BY <3>2, <2>3, <1>6 DEF ToSet
    <3>3. QED
      BY <3>1, <3>2, <2>1
  <2>5. \A k \in 1 .. i - 1 : o[k] = r[k + 1]
    BY <2>2, <1>6
  <2>6. ASSUME NEW y \in ToSet(o) \cup {g[1]} PROVE y \in ToSet(r)
    <3>1. CASE y = g[1]
      BY <3>1, <2>3, <1>6 DEF ToSet
    <3>2. CASE y \in ToSet(o)
      <4>1. PICK k \in 1 .. i - 1 : y = o[k]
        BY <3>2, <2>3 DEF ToSet
      <4>2. QED
        BY <4>1, <2>2, <2>3, <2>5 DEF ToSet
    <3>3. QED
      BY <3>1, <3>2
  <2>7. QED
    BY <2>3, <2>4, <2>6 DEF ToSet
<1>8. ASSUME NEW c \in ToSet(p), NEW d \in ToSet(r)
      PROVE  WorseThan(d, c)
  <2>1. CASE d = g[1]
    <3>1. c \in ToSet(g) /\ c # g[1]
      BY <1>5
    <3>2. PICK k \in 1 .. Len(g) : c = g[k] /\ k # 1
      BY <3>1, <1>2 DEF ToSet
    <3>3. QED
      BY <3>2, <2>1, <1>1, RootWorst
  <2>2. CASE d \in ToSet(o)
    BY <2>2, <1>1, <1>5
  <2>3. QED
    BY <2>1, <2>2, <1>7
<1>9. Descending(r)
  <2>1. ASSUME NEW a \in 1 .. i, NEW b \in 1 .. i, a < b
        PROVE  WorseThan(r[b], r[a])
    <3>1. b \in 2 .. i /\ b - 1 \in 1 .. i - 1 /\ r[b] = o[b - 1]
      BY <2>1, <1>0, <1>6
    <3>2. CASE a = 1
      <4>1. o[b - 1] \in ToSet(o)
        BY <3>1, <1>1 DEF ToSet
      <4>2. QED
        BY <4>1, <3>1, <3>2, <1>1, <1>3, <1>6
    <3>3. CASE a # 1
      <4>1. a \in 2 .. i /\ a - 1 \in 1 .. i - 1 /\ r[a] = o[a - 1] /\ a - 1 < b - 1
        BY <3>3, <2>1, <1>0, <1>6
      <4>2. QED
        BY <4>1, <3>1, <1>1 DEF Descending
    <3>4. QED
      BY <3>2, <3>3
  <2>2. QED
    BY <2>1, <1>6 DEF Descending
<1>10. ToSet(p) \cup ToSet(r) = ToSet(h)
  BY <1>1, <1>3, <1>5, <1>7
<1> DEFINE t == [heap |-> p, out |-> r]
<1>11. t.heap = p /\ t.out = r
  OBVIOUS
<1>12. Drained(h, i, t)
  <2> HIDE DEF t
  <2>1. QED
    BY <1>5, <1>6, <1>8, <1>9, <1>10, <1>11 DEF Drained
<1>13. QED
  BY <1>12 DEF p, r, g, o

\* Every pop.
LEMMA DrainedThroughout ==
  ASSUME NEW h, HeapGood(h), NEW g, Drains(g, h)
  PROVE  \A i \in 0 .. Len(h) : Drained(h, i, g[i])
<1> DEFINE n == Len(h)
           Bad == {i \in 0 .. n : ~Drained(h, i, g[i])}
<1>1. n \in Nat /\ h \in Seq(Cands)
  BY DEF HeapGood
<1>2. Drained(h, 0, g[0])
  <2>1. g[0] = [heap |-> h, out |-> <<>>]
    <3>1. 0 \in 0 .. Len(h)
      BY <1>1
    <3>2. QED
      BY <3>1 DEF Drains
  <2>2. ToSet(<<>>) = {} /\ Descending(<<>>)
    BY DEF ToSet, Descending
  <2>3. g[0].heap = h /\ g[0].out = <<>>
    BY <2>1
  <2>4. QED
    BY <2>2, <2>3, <1>1 DEF Drained
<1>3. Bad = {}
  <2> SUFFICES ASSUME Bad # {} PROVE FALSE
    OBVIOUS
  <2>1. Bad \in SUBSET Nat
    BY <1>1
  <2>2. PICK i \in Bad : \A k \in Bad : i <= k
    <3> HIDE DEF Bad
    <3>1. QED
      BY <2>1, LeastNat
  <2>3. i \in 1 .. n /\ i - 1 \in 0 .. n /\ i - 1 < i /\ i # 0
    BY <2>2, <1>1, <1>2
  <2>4. Drained(h, i - 1, g[i - 1])
    BY <2>2, <2>3
  <2>5. g[i] = [heap |-> PopWorst(g[i - 1].heap),
                out |-> <<Head(g[i - 1].heap)>> \o g[i - 1].out]
    BY <2>3 DEF Drains
  <2>6. Drained(h, i, g[i])
    BY <2>3, <2>4, <2>5, DrainedByOne
  <2>7. QED
    BY <2>2, <2>6
<1>4. QED
  BY <1>3

\* DrainSorted's recursive function exists, and is what its equation says.
LEMMA DrainIs ==
  ASSUME NEW h, HeapGood(h)
  PROVE  \E g : DrainSorted(h) = g[Len(h)].out /\ Drains(g, h)
<1> DEFINE n == Len(h)
           S == 0 .. n
           H == {a \in Seq(Cands) : HeapGood(a)}
           V == [heap : H, out : Seq(Cands)]
           Pop(v) == [heap |-> PopWorst(v.heap), out |-> <<Head(v.heap)>> \o v.out]
           leaf == {0}
           base == [i \in S |-> [heap |-> h, out |-> <<>>]]
           pred == [i \in S |-> IF i = 0 THEN 0 ELSE i - 1]
           step == [s \in S \X V |-> IF Len(s[2].heap) >= 1 THEN Pop(s[2]) ELSE s[2]]
           rank == [i \in S |-> i]
<1>1. n \in Nat /\ h \in H
  BY DEF HeapGood
<1>2. base \in [S -> V]
  BY <1>1
<1>3. pred \in [S -> S] /\ rank \in [S -> Nat] /\ leaf \subseteq S
  BY <1>1
<1>4. step \in [S \X V -> V]
  <2>1. ASSUME NEW v \in V, Len(v.heap) >= 1 PROVE Pop(v) \in V
    <3>1. RootPopped(v.heap, PopWorst(v.heap))
      BY <2>1, PopGood
    <3>2. PopWorst(v.heap) \in H
      BY <3>1 DEF RootPopped, HeapGood
    <3>3. v.heap \in Seq(Cands) /\ v.out \in Seq(Cands)
      BY <2>1
    <3>4. Head(v.heap) \in Cands
      BY <3>3, <2>1
    <3>5. <<Head(v.heap)>> \o v.out \in Seq(Cands)
      BY <3>3, <3>4
    <3> HIDE DEF H
    <3>6. QED
      BY <3>2, <3>5
  <2> HIDE DEF V, Pop, S
  <2>2. QED
    BY <2>1
<1>5. \A s \in S \ leaf : rank[pred[s]] < rank[s]
  BY <1>1
<1>6. PICK f \in [S -> V] : Solves(f, S, base, step, leaf, pred)
  <2> HIDE DEF S, V, leaf, base, pred, step, rank
  <2>1. Recursive(S, V, base, step, leaf, pred, rank)
    BY <1>2, <1>3, <1>4, <1>5 DEF Recursive
  <2>2. QED
    BY <2>1, Recursion
<1>7. f[0] = [heap |-> h, out |-> <<>>]
  <2>1. 0 \in S /\ 0 \in leaf /\ base[0] = [heap |-> h, out |-> <<>>]
    BY <1>1
  <2> HIDE DEF S, V, leaf, base, pred, step
  <2>2. QED
    BY <1>6, <2>1 DEF Solves
<1>8. ASSUME NEW i \in S, i # 0
      PROVE  f[i] = IF Len(f[i - 1].heap) >= 1 THEN Pop(f[i - 1]) ELSE f[i - 1]
  <2>1. i - 1 \in S /\ pred[i] = i - 1 /\ f[i - 1] \in V
    <3>1. i - 1 \in S /\ pred[i] = i - 1
      BY <1>1, <1>8
    <3> HIDE DEF V, S, pred
    <3>2. QED
      BY <3>1
  <2>2. f[i] = step[<<i, f[i - 1]>>]
    <3>1. i \notin leaf
      BY <1>8
    <3> HIDE DEF S, V, leaf, base, pred, step
    <3>2. f[i] = step[<<i, f[pred[i]]>>]
      BY <3>1, <1>6 DEF Solves
    <3>3. QED
      BY <3>2, <2>1
  <2>3. <<i, f[i - 1]>> \in S \X V
    BY <2>1
  <2> HIDE DEF V, S, Pop
  <2>4. QED
    BY <2>2, <2>3
<1> HIDE DEF V
<1> DEFINE Bad == {i \in S : ~Drained(h, i, f[i])}
<1>9. Bad = {}
  <2> SUFFICES ASSUME Bad # {} PROVE FALSE
    OBVIOUS
  <2>1. Bad \in SUBSET Nat
    BY <1>1
  <2>2. PICK i \in Bad : \A k \in Bad : i <= k
    <3> HIDE DEF Bad
    <3>1. QED
      BY <2>1, LeastNat
  <2>3. Drained(h, 0, f[0])
    <3>1. ToSet(<<>>) = {} /\ Descending(<<>>)
      BY DEF ToSet, Descending
    <3>2. f[0].heap = h /\ f[0].out = <<>>
      BY <1>7
    <3>3. QED
      BY <3>1, <3>2, <1>1 DEF Drained
  <2>4. i \in 1 .. n /\ i \in S /\ i - 1 \in S /\ i - 1 < i /\ i # 0
    BY <2>2, <1>1, <2>3
  <2>5. Drained(h, i - 1, f[i - 1])
    BY <2>2, <2>4
  <2>6. Len(f[i - 1].heap) >= 1
    BY <2>4, <2>5, <1>1 DEF Drained
  <2>7. f[i] = Pop(f[i - 1])
    BY <2>4, <2>6, <1>8
  <2>8. Drained(h, i, f[i])
    BY <2>4, <2>5, <2>7, DrainedByOne
  <2>9. QED
    BY <2>2, <2>8
<1>10. ASSUME NEW i \in S, i # 0 PROVE f[i] = Pop(f[i - 1])
  <2>1. i - 1 \in S /\ Drained(h, i - 1, f[i - 1])
    BY <1>1, <1>9, <1>10
  <2>2. Len(f[i - 1].heap) >= 1
    BY <2>1, <1>1, <1>10 DEF Drained
  <2>3. QED
    BY <2>2, <1>8, <1>10
<1> DEFINE Eq(g) == g = [i \in 0 .. Len(h) |->
                           IF i = 0 THEN [heap |-> h, out |-> <<>>]
                           ELSE [heap |-> PopWorst(g[i - 1].heap),
                                 out |-> <<Head(g[i - 1].heap)>> \o g[i - 1].out]]
           popped == CHOOSE g : Eq(g)
<1>11. Eq(f)
  BY <1>6, <1>7, <1>10
<1>12. Eq(popped)
  <2> HIDE DEF Eq
  <2>1. QED
    BY <1>11
<1>13. DrainSorted(h) = popped[Len(h)].out
  BY DEF DrainSorted
<1>14. Drains(popped, h)
  <2> HIDE DEF popped
  <2>1. QED
    BY <1>12 DEF Drains
<1> HIDE DEF popped
<1>15. QED
  BY <1>13, <1>14

\* What drain_sorted leaves: the heap's candidates, best first.
LEMMA DrainGood ==
  ASSUME NEW h, HeapGood(h)
  PROVE  /\ DrainSorted(h) \in Seq(Cands) /\ Len(DrainSorted(h)) = Len(h)
         /\ Descending(DrainSorted(h))
         /\ \A c : c \in ToSet(DrainSorted(h)) <=> c \in ToSet(h)
<1> DEFINE n == Len(h)
<1>1. n \in Nat
  BY DEF HeapGood
<1>2. PICK g : DrainSorted(h) = g[n].out /\ Drains(g, h)
  BY DrainIs
<1>3. Drained(h, n, g[n])
  BY <1>1, <1>2, DrainedThroughout
<1>4. /\ HeapGood(g[n].heap) /\ Len(g[n].heap) = 0
      /\ g[n].out \in Seq(Cands) /\ Len(g[n].out) = n /\ Descending(g[n].out)
      /\ ToSet(g[n].heap) \cup ToSet(g[n].out) = ToSet(h)
  BY <1>1, <1>3 DEF Drained
<1>5. ToSet(g[n].heap) = {}
  BY <1>4 DEF HeapGood, ToSet
<1>6. QED
  BY <1>2, <1>4, <1>5

---------------------------------------------------------------------------
(***************************************************************************)
(* The survivors sorted.                                                   *)
(***************************************************************************)

\* The last index a set of indices holds.
LEMMA MaxIs ==
  ASSUME NEW n \in Nat, NEW T \in SUBSET (1 .. n), T # {}
  PROVE  Max(T) \in T /\ \A i \in T : i <= Max(T)
<1> DEFINE Depth == {n - i : i \in T}
<1>1. Depth \in SUBSET Nat /\ Depth # {}
  OBVIOUS
<1>2. PICK d \in Depth : \A e \in Depth : d <= e
  <2> HIDE DEF Depth
  <2>1. QED
    BY <1>1, LeastNat
<1>3. PICK j \in T : d = n - j
  BY <1>2
<1>4. ASSUME NEW i \in T PROVE j >= i
  <2>1. n - i \in Depth
    OBVIOUS
  <2>2. i \in Nat /\ j \in Nat
    OBVIOUS
  <2> HIDE DEF Depth
  <2>3. n - j <= n - i
    BY <2>1, <1>2, <1>3
  <2>4. QED
    BY <2>2, <2>3
<1>5. Max(T) \in T /\ \A i \in T : Max(T) >= i
  BY <1>4 DEF Max
<1>6. \A i \in T : i \in Nat
  OBVIOUS
<1> HIDE DEF Depth
<1>7. QED
  BY <1>5, <1>6

\* What a concatenation of a part, an element and a part holds.
LEMMA ConcatIs ==
  ASSUME NEW a \in Seq(Cands), NEW b \in Seq(Cands)
  PROVE  /\ a \o b \in Seq(Cands) /\ Len(a \o b) = Len(a) + Len(b)
         /\ \A i \in 1 .. Len(a) : (a \o b)[i] = a[i]
         /\ \A i \in Len(a) + 1 .. Len(a) + Len(b) : (a \o b)[i] = b[i - Len(a)]
<1>1. a \o b \in Seq(Cands) /\ Len(a \o b) = Len(a) + Len(b)
  OBVIOUS
<1>2. ASSUME NEW i \in 1 .. Len(a) PROVE (a \o b)[i] = a[i]
  OBVIOUS
<1>3. ASSUME NEW i \in Len(a) + 1 .. Len(a) + Len(b) PROVE (a \o b)[i] = b[i - Len(a)]
  OBVIOUS
<1>4. QED
  BY <1>1, <1>2, <1>3

\* Where Insert puts c, and what it leaves as it was.
LEMMA InsertIs ==
  ASSUME NEW s \in Seq(Cands), NEW c \in Cands
  PROVE  \E stop \in 0 .. Len(s) :
           /\ stop # 0 => ~WorseThan(s[stop], c)
           /\ \A i \in 1 .. Len(s) : i > stop => WorseThan(s[i], c)
           /\ Insert(s, c) \in Seq(Cands) /\ Len(Insert(s, c)) = Len(s) + 1
           /\ \A i \in 1 .. stop : Insert(s, c)[i] = s[i]
           /\ Insert(s, c)[stop + 1] = c
           /\ \A i \in stop + 2 .. Len(s) + 1 : Insert(s, c)[i] = s[i - 1]
<1> DEFINE n == Len(s)
           stays == {i \in 1 .. n : ~WorseThan(s[i], c)}
           stop == IF stays = {} THEN 0 ELSE Max(stays)
<1>1. n \in Nat /\ stays \in SUBSET (1 .. n)
  OBVIOUS
<1>2. /\ stop \in 0 .. n
      /\ stop # 0 => ~WorseThan(s[stop], c)
      /\ \A i \in 1 .. n : i > stop => WorseThan(s[i], c)
  <2>1. CASE stays = {}
    BY <2>1, <1>1
  <2>2. CASE stays # {}
    <3> HIDE DEF stays
    <3>1. stop \in stays /\ \A i \in stays : i <= stop
      BY <2>2, <1>1, MaxIs
    <3> HIDE DEF stop
    <3>2. QED
      BY <3>1, <1>1 DEF stays
  <2>3. QED
    BY <2>1, <2>2
<1>3. Insert(s, c) = SubSeq(s, 1, stop) \o <<c>> \o SubSeq(s, stop + 1, n)
  BY DEF Insert
<1> HIDE DEF stays, stop
<1> DEFINE a == SubSeq(s, 1, stop)
           b == SubSeq(s, stop + 1, n)
<1>4. a \in Seq(Cands) /\ Len(a) = stop /\ \A i \in 1 .. stop : a[i] = s[i]
  BY <1>1, <1>2
<1>5. b \in Seq(Cands) /\ Len(b) = n - stop /\ \A i \in 1 .. n - stop : b[i] = s[stop + i]
  BY <1>1, <1>2
<1> HIDE DEF a, b, n
<1> DEFINE r == a \o <<c>> \o b
<1>6. /\ r \in Seq(Cands) /\ Len(r) = n + 1
      /\ \A i \in 1 .. stop : r[i] = a[i]
      /\ r[stop + 1] = c
      /\ \A i \in stop + 2 .. n + 1 : r[i] = b[i - (stop + 1)]
  <2> DEFINE ac == a \o <<c>>
  <2>1. /\ ac \in Seq(Cands) /\ Len(ac) = stop + 1 /\ ac[stop + 1] = c
        /\ \A i \in 1 .. stop : ac[i] = a[i]
    BY <1>2, <1>4
  <2> HIDE DEF ac
  <2>2. r = ac \o b
    BY DEF ac
  <2> HIDE DEF r
  <2>3. /\ r \in Seq(Cands) /\ Len(r) = Len(ac) + Len(b)
        /\ \A i \in 1 .. Len(ac) : r[i] = ac[i]
        /\ \A i \in Len(ac) + 1 .. Len(ac) + Len(b) : r[i] = b[i - Len(ac)]
    BY <2>1, <2>2, <1>5, ConcatIs
  <2>4. Len(ac) + 1 = stop + 2 /\ Len(ac) + Len(b) = n + 1
    <3>1. n \in Int /\ stop \in Int
      BY <1>1, <1>2
    <3>2. Len(ac) = stop + 1 /\ Len(b) = n - stop
      BY <2>1, <1>5
    <3>3. QED
      BY <3>1, <3>2
  <2>5. /\ \A i \in 1 .. stop + 1 : r[i] = ac[i]
        /\ \A i \in stop + 2 .. n + 1 : r[i] = b[i - (stop + 1)]
        /\ Len(r) = n + 1
    <3>1. Len(ac) = stop + 1
      BY <2>1
    <3> HIDE DEF ac
    <3>2. QED
      BY <2>3, <2>4, <3>1, Zenon
  <2>6. QED
    BY <2>1, <2>3, <2>4, <2>5, <1>2
<1> HIDE DEF r
<1>7. \A i \in stop + 2 .. n + 1 : r[i] = s[i - 1]
  <2>1. ASSUME NEW i \in stop + 2 .. n + 1 PROVE r[i] = s[i - 1]
    <3>1. i - (stop + 1) \in 1 .. n - stop /\ stop + (i - (stop + 1)) = i - 1
      BY <1>1, <1>2
    <3>2. QED
      BY <3>1, <1>5, <1>6
  <2>2. QED
    BY <2>1
<1>8. \A i \in 1 .. stop : r[i] = s[i]
  BY <1>4, <1>6
<1>9. Insert(s, c) = r
  BY <1>3 DEF r, a, b
<1>10. QED
  BY <1>2, <1>6, <1>7, <1>8, <1>9 DEF n

\* r holds what s holds and c, best first.
Inserted(s, c, r) ==
  /\ r \in Seq(Cands) /\ Len(r) = Len(s) + 1 /\ Descending(r)
  /\ ToSet(r) = ToSet(s) \cup {c}

\* Insert puts an element in its place.
LEMMA InsertGood ==
  ASSUME NEW s \in Seq(Cands), Descending(s), NEW c \in Cands, c \notin ToSet(s)
  PROVE  Inserted(s, c, Insert(s, c))
<1> DEFINE n == Len(s)
           r == Insert(s, c)
<1>1. n \in Nat /\ s \in [1 .. n -> Cands] /\ DOMAIN s = 1 .. n
  OBVIOUS
<1>2. PICK stop \in 0 .. n :
           /\ stop # 0 => ~WorseThan(s[stop], c)
           /\ \A i \in 1 .. n : i > stop => WorseThan(s[i], c)
           /\ r \in Seq(Cands) /\ Len(r) = n + 1
           /\ \A i \in 1 .. stop : r[i] = s[i]
           /\ r[stop + 1] = c
           /\ \A i \in stop + 2 .. n + 1 : r[i] = s[i - 1]
  BY InsertIs
<1> HIDE DEF r, n
<1>3. DOMAIN r = 1 .. n + 1 /\ stop \in Int /\ stop >= 0 /\ stop <= n
  BY <1>1, <1>2
<1>4. ASSUME NEW i \in 1 .. n PROVE s[i] \in Cands /\ s[i] # c
  BY <1>1 DEF ToSet
<1>5. ASSUME NEW i \in 1 .. n, i <= stop PROVE WorseThan(c, s[i])
  <2>1. stop \in 1 .. n /\ ~WorseThan(s[stop], c)
    BY <1>1, <1>2, <1>3, <1>5
  <2>2. WorseThan(c, s[stop])
    BY <2>1, <1>4, Total
  <2>3. CASE i = stop
    BY <2>2, <2>3
  <2>4. CASE i < stop
    <3>1. WorseThan(s[stop], s[i])
      BY <2>1, <2>4 DEF Descending, n
    <3>2. QED
      BY <3>1, <2>1, <2>2, <1>4, Transitive
  <2>5. QED
    BY <2>3, <2>4, <1>3, <1>5
<1>6. ASSUME NEW a \in 1 .. n + 1
      PROVE  \/ a <= stop /\ a \in 1 .. n /\ r[a] = s[a]
             \/ a = stop + 1 /\ r[a] = c
             \/ a >= stop + 2 /\ a - 1 \in 1 .. n /\ r[a] = s[a - 1]
  <2>1. CASE a <= stop
    BY <2>1, <1>1, <1>2, <1>3
  <2>2. CASE a = stop + 1
    BY <2>2, <1>2
  <2>3. CASE a > stop + 1
    <3>1. a \in stop + 2 .. n + 1 /\ a - 1 \in 1 .. n
      BY <2>3, <1>1, <1>3
    <3>2. QED
      BY <3>1, <1>2, <1>3
  <2>4. QED
    BY <2>1, <2>2, <2>3, <1>3
<1>7. ASSUME NEW a \in 1 .. n + 1, NEW b \in 1 .. n + 1, a < b
      PROVE  WorseThan(r[b], r[a])
  <2>0. \A i, j \in 1 .. n : i < j => WorseThan(s[j], s[i])
    BY DEF Descending, n
  <2>1. CASE a <= stop
    <3>1. a \in 1 .. n /\ r[a] = s[a]
      BY <2>1, <1>3, <1>6
    <3>2. CASE b <= stop
      BY <3>1, <3>2, <2>0, <1>3, <1>6, <1>7
    <3>3. CASE b = stop + 1
      BY <3>1, <3>3, <2>1, <1>2, <1>5
    <3>4. CASE b >= stop + 2
      <4>1. b - 1 \in 1 .. n /\ r[b] = s[b - 1] /\ a < b - 1
        BY <3>4, <2>1, <1>3, <1>6
      <4>2. QED
        BY <4>1, <3>1, <2>0
    <3>5. QED
      BY <3>2, <3>3, <3>4, <1>3
  <2>2. CASE a = stop + 1
    <3>1. b - 1 \in 1 .. n /\ r[b] = s[b - 1] /\ b - 1 > stop
      BY <2>2, <1>3, <1>6, <1>7
    <3>2. WorseThan(s[b - 1], c)
      BY <3>1, <1>2
    <3>3. QED
      BY <3>1, <3>2, <2>2, <1>2
  <2>3. CASE a >= stop + 2
    <3>1. /\ a - 1 \in 1 .. n /\ r[a] = s[a - 1]
          /\ b - 1 \in 1 .. n /\ r[b] = s[b - 1] /\ a - 1 < b - 1
      BY <2>3, <1>3, <1>6, <1>7
    <3>2. QED
      BY <3>1, <2>0
  <2>4. QED
    BY <2>1, <2>2, <2>3, <1>3
<1>8. ASSUME NEW y PROVE y \in ToSet(r) <=> y \in ToSet(s) \cup {c}
  <2>1. ASSUME NEW a \in 1 .. n + 1 PROVE r[a] \in ToSet(s) \cup {c}
    BY <1>1, <1>6 DEF ToSet
  <2>2. c \in ToSet(r)
    <3>1. stop + 1 \in DOMAIN r
      BY <1>1, <1>3
    <3>2. r[stop + 1] = c
      BY <1>2
    <3>3. QED
      BY <3>1, <3>2 DEF ToSet
  <2>3. ASSUME NEW i \in 1 .. n PROVE s[i] \in ToSet(r)
    <3>1. CASE i <= stop
      <4>1. r[i] = s[i] /\ i \in 1 .. n + 1
        BY <3>1, <1>1, <1>2, <1>3
      <4>2. QED
        BY <4>1, <1>3 DEF ToSet
    <3>2. CASE i > stop
      <4>1. i + 1 \in stop + 2 .. n + 1 /\ i + 1 \in 1 .. n + 1 /\ (i + 1) - 1 = i
        BY <3>2, <1>1, <1>3
      <4>2. r[i + 1] = s[i]
        BY <4>1, <1>2
      <4>3. QED
        BY <4>1, <4>2, <1>3 DEF ToSet
    <3>3. QED
      BY <3>1, <3>2, <1>3
  <2>4. QED
    BY <2>1, <2>2, <2>3, <1>1, <1>3 DEF ToSet
<1>9. Descending(r)
  BY <1>2, <1>7 DEF Descending
<1>10. QED
  BY <1>2, <1>8, <1>9 DEF Inserted, r, n

\* What SortDesc's recursive function is.
Sorts(g, s) ==
  \A i \in 0 .. Len(s) : g[i] = IF i = 0 THEN <<>> ELSE Insert(g[i - 1], s[i])

\* SortDesc's recursive function exists, and is what its equation says.
LEMMA SortIs ==
  ASSUME NEW s \in Seq(Cands)
  PROVE  \E g : SortDesc(s) = g[Len(s)] /\ Sorts(g, s)
<1> DEFINE n == Len(s)
           S == 0 .. n
           V == Seq(Cands)
           leaf == {0}
           base == [i \in S |-> <<>>]
           pred == [i \in S |-> IF i = 0 THEN 0 ELSE i - 1]
           step == [t \in S \X V |-> IF t[1] = 0 THEN t[2] ELSE Insert(t[2], s[t[1]])]
           rank == [i \in S |-> i]
<1>1. n \in Nat /\ \A i \in S : i # 0 => s[i] \in Cands
  OBVIOUS
<1>2. base \in [S -> V]
  OBVIOUS
<1>3. pred \in [S -> S] /\ rank \in [S -> Nat] /\ leaf \subseteq S
  BY <1>1
<1>4. step \in [S \X V -> V]
  <2>1. ASSUME NEW v \in V, NEW c \in Cands PROVE Insert(v, c) \in V
    BY InsertIs
  <2> HIDE DEF V, S
  <2>2. QED
    BY <2>1, <1>1
<1>5. \A i \in S \ leaf : rank[pred[i]] < rank[i]
  BY <1>1
<1>6. PICK f \in [S -> V] : Solves(f, S, base, step, leaf, pred)
  <2> HIDE DEF S, V, leaf, base, pred, step, rank
  <2>1. Recursive(S, V, base, step, leaf, pred, rank)
    BY <1>2, <1>3, <1>4, <1>5 DEF Recursive
  <2>2. QED
    BY <2>1, Recursion
<1>7. f[0] = <<>>
  <2>1. 0 \in S /\ 0 \in leaf /\ base[0] = <<>>
    BY <1>1
  <2> HIDE DEF S, V, leaf, base, pred, step
  <2>2. QED
    BY <1>6, <2>1 DEF Solves
<1>8. ASSUME NEW i \in S, i # 0
      PROVE  f[i] = Insert(f[i - 1], s[i])
  <2>1. i - 1 \in S /\ pred[i] = i - 1 /\ i \notin leaf
    BY <1>1, <1>8
  <2>2. f[i] = step[<<i, f[pred[i]]>>]
    <3> HIDE DEF S, V, leaf, base, pred, step
    <3>1. QED
      BY <2>1, <1>6 DEF Solves
  <2>3. <<i, f[i - 1]>> \in S \X V
    <3> HIDE DEF S, V
    <3>1. QED
      BY <2>1
  <2> HIDE DEF V, S, pred
  <2>4. QED
    BY <2>1, <2>2, <2>3, <1>8
<1> DEFINE Eq(g) == g = [i \in 0 .. Len(s) |-> IF i = 0 THEN <<>> ELSE Insert(g[i - 1], s[i])]
           sorted == CHOOSE g : Eq(g)
<1>9. Eq(f)
  BY <1>6, <1>7, <1>8
<1>10. Eq(sorted)
  <2> HIDE DEF Eq
  <2>1. QED
    BY <1>9
<1>11. SortDesc(s) = sorted[Len(s)]
  BY DEF SortDesc
<1>12. Sorts(sorted, s)
  <2> HIDE DEF sorted
  <2>1. QED
    BY <1>10 DEF Sorts
<1> HIDE DEF sorted
<1>13. QED
  BY <1>11, <1>12

\* What sort_desc leaves of distinct candidates: the same, best first.
LEMMA SortGood ==
  ASSUME NEW s \in Seq(Cands), Inj(s, 1 .. Len(s))
  PROVE  /\ SortDesc(s) \in Seq(Cands) /\ Len(SortDesc(s)) = Len(s)
         /\ Descending(SortDesc(s))
         /\ \A c : c \in ToSet(SortDesc(s)) <=> c \in ToSet(s)
<1> DEFINE n == Len(s)
<1>1. n \in Nat /\ s \in [1 .. n -> Cands] /\ DOMAIN s = 1 .. n
  OBVIOUS
<1>2. PICK g : SortDesc(s) = g[n] /\ Sorts(g, s)
  BY SortIs
<1> DEFINE Sorted(i) ==
             /\ g[i] \in Seq(Cands) /\ Len(g[i]) = i /\ Descending(g[i])
             /\ ToSet(g[i]) = Img(s, 1 .. i)
           Bad == {i \in 0 .. n : ~Sorted(i)}
<1>3. Sorted(0)
  <2>1. 0 \in 0 .. Len(s)
    BY <1>1
  <2>2. g[0] = <<>>
    BY <2>1, <1>2 DEF Sorts
  <2>3. ToSet(<<>>) = {} /\ Descending(<<>>) /\ Img(s, 1 .. 0) = {}
    BY DEF ToSet, Descending, Img
  <2>4. g[0] \in Seq(Cands) /\ Len(g[0]) = 0 /\ Descending(g[0])
    BY <2>2, <2>3
  <2>5. ToSet(g[0]) = Img(s, 1 .. 0)
    BY <2>2, <2>3, Zenon
  <2>6. QED
    BY <2>4, <2>5
<1>4. ASSUME NEW i \in 1 .. n, Sorted(i - 1) PROVE Sorted(i)
  <2>1. i \in 0 .. Len(s) /\ i # 0 /\ s[i] \in Cands /\ i - 1 \in Nat /\ i \in Nat
    BY <1>1
  <2>2. g[i] = Insert(g[i - 1], s[i])
    BY <2>1, <1>2 DEF Sorts
  <2>3. \A k \in 1 .. i : k \in 1 .. i - 1 \/ k = i
    BY <2>1
  <2>4. \A k \in 1 .. i - 1 : k \in 1 .. i /\ k \in 1 .. n /\ k # i
    BY <2>1, <1>1
  <2>5. s[i] \notin Img(s, 1 .. i - 1)
    BY <2>4 DEF Img, Inj
  <2>6. /\ g[i - 1] \in Seq(Cands) /\ Len(g[i - 1]) = i - 1 /\ Descending(g[i - 1])
        /\ ToSet(g[i - 1]) = Img(s, 1 .. i - 1)
    BY <1>4
  <2>7. Inserted(g[i - 1], s[i], g[i])
    BY <2>1, <2>2, <2>5, <2>6, InsertGood
  <2>8. Img(s, 1 .. i) = Img(s, 1 .. i - 1) \cup {s[i]}
    <3>1. i \in 1 .. i
      BY <2>1
    <3>2. QED
      BY <3>1, <2>3, <2>4 DEF Img
  <2>9. /\ g[i] \in Seq(Cands) /\ Len(g[i]) = i /\ Descending(g[i])
        /\ ToSet(g[i]) = Img(s, 1 .. i)
    BY <2>1, <2>6, <2>7, <2>8 DEF Inserted
  <2>10. QED
    BY <2>9
<1>5. Bad = {}
  <2> SUFFICES ASSUME Bad # {} PROVE FALSE
    OBVIOUS
  <2>1. Bad \in SUBSET Nat
    BY <1>1
  <2> HIDE DEF Sorted
  <2>2. PICK i \in Bad : \A k \in Bad : i <= k
    <3> HIDE DEF Bad
    <3>1. QED
      BY <2>1, LeastNat
  <2>3. i # 0
    BY <2>2, <1>3
  <2>4. i \in 1 .. n /\ i - 1 \in 0 .. n /\ i - 1 < i
    BY <2>2, <2>3, <1>1
  <2>5. Sorted(i - 1)
    BY <2>2, <2>4
  <2>6. QED
    BY <2>2, <2>4, <2>5, <1>4
<1>6. n \in 0 .. n
  BY <1>1
<1>7. Sorted(n)
  BY <1>5, <1>6
<1>8. Img(s, 1 .. n) = ToSet(s)
  BY <1>1 DEF Img, ToSet
<1>9. /\ g[n] \in Seq(Cands) /\ Len(g[n]) = n /\ Descending(g[n])
      /\ ToSet(g[n]) = Img(s, 1 .. n)
  BY <1>7
<1>10. QED
  BY <1>2, <1>8, <1>9

\* Descending sequences hold nothing twice.
LEMMA DescendingInj ==
  ASSUME NEW s \in Seq(Cands), Descending(s)
  PROVE  Inj(s, 1 .. Len(s))
<1> SUFFICES ASSUME NEW j \in 1 .. Len(s), NEW k \in 1 .. Len(s), s[j] = s[k], j # k
             PROVE  FALSE
  BY DEF Inj
<1>1. s[j] \in Cands /\ s[k] \in Cands
  OBVIOUS
<1>2. j < k \/ k < j
  OBVIOUS
<1>3. QED
  BY <1>1, <1>2, Irreflexive DEF Descending

\* The size of an image, of a sequence of distinct elements.
LEMMA ImgSize ==
  ASSUME NEW f, NEW n \in Nat, Inj(f, 1 .. n)
  PROVE  IsFiniteSet(Img(f, 1 .. n)) /\ Cardinality(Img(f, 1 .. n)) = n
<1> DEFINE D == 1 .. n
           g == [k \in D |-> f[k]]
<1>1. IsFiniteSet(D) /\ Cardinality(D) = n
  <2>1. 1 \in Int /\ n \in Int
    OBVIOUS
  <2>2. IsFiniteSet(1 .. n) /\ Cardinality(1 .. n) = IF 1 > n THEN 0 ELSE n - 1 + 1
    BY <2>1, FS_Interval, Zenon
  <2>3. QED
    BY <2>2
<1>2. g \in Bijection(D, Img(f, D))
  <2>1. g \in [D -> Img(f, D)]
    BY DEF Img
  <2>2. \A a, b \in D : g[a] = g[b] => a = b
    BY DEF Inj
  <2>3. \A y \in Img(f, D) : \E a \in D : g[a] = y
    BY DEF Img
  <2> HIDE DEF D, g
  <2>4. QED
    BY <2>1, <2>2, <2>3 DEF Bijection, Injection, Surjection, IsInjective
<1> HIDE DEF D, g
<1>3. QED
  BY <1>1, <1>2, FS_Bijection DEF D, ExistsBijection

---------------------------------------------------------------------------
(***************************************************************************)
(* Blocks, ids and cells.                                                  *)
(***************************************************************************)

\* Blocks: an id is in one block, at one place in it.
LEMMA MulMono ==
  ASSUME NEW x \in Nat, NEW y \in Nat, NEW d \in Nat, x <= y
  PROVE  x * d <= y * d
<1>1. y - x \in Nat /\ y = x + (y - x)
  OBVIOUS
<1>2. (x + (y - x)) * d = x * d + (y - x) * d
  BY <1>1
<1>3. (y - x) * d \in Nat
  BY <1>1
<1>4. x * d \in Nat /\ y * d \in Nat
  OBVIOUS
<1>5. y * d = x * d + (y - x) * d
  BY <1>1, <1>2
<1>6. QED
  BY <1>3, <1>4, <1>5

\* A number lies in one block, at one place.
LEMMA BlockBounds ==
  ASSUME NEW a \in Nat
  PROVE  /\ a \div PerBlock \in Nat
         /\ (a \div PerBlock) * PerBlock <= a
         /\ a < (a \div PerBlock) * PerBlock + PerBlock
         /\ a % PerBlock = a - (a \div PerBlock) * PerBlock
<1>1. PerBlock \in Nat \ {0}
  BY GeometryAssumption
<1>2. /\ a \div PerBlock \in Nat
      /\ (a \div PerBlock) * PerBlock <= a
      /\ a < ((a \div PerBlock) + 1) * PerBlock
      /\ a % PerBlock = a - PerBlock * (a \div PerBlock)
  BY <1>1
<1> DEFINE q == a \div PerBlock
<1> HIDE DEF q
<1>3. q \in Nat => (q + 1) * PerBlock = q * PerBlock + PerBlock /\ q * PerBlock = PerBlock * q
  BY <1>1
<1>4. QED
  BY <1>2, <1>3 DEF q

\* No other block has it.
LEMMA BlockUnique ==
  ASSUME NEW a \in Nat, NEW b \in Nat, b * PerBlock <= a, a < b * PerBlock + PerBlock
  PROVE  a \div PerBlock = b /\ a % PerBlock = a - b * PerBlock
<1>1. PerBlock \in Nat \ {0}
  BY GeometryAssumption
<1> DEFINE q == a \div PerBlock
<1>2. /\ q \in Nat
      /\ q * PerBlock <= a
      /\ a < q * PerBlock + PerBlock
      /\ a % PerBlock = a - q * PerBlock
  BY BlockBounds
<1> HIDE DEF q
<1>3. q * PerBlock \in Nat /\ b * PerBlock \in Nat
  BY <1>1, <1>2
<1>4. ~(q + 1 <= b)
  <2>1. q + 1 <= b => (q + 1) * PerBlock <= b * PerBlock
    BY <1>1, <1>2, MulMono
  <2>2. (q + 1) * PerBlock = q * PerBlock + PerBlock
    BY <1>1, <1>2
  <2>3. QED
    BY <1>1, <1>2, <1>3, <2>1, <2>2
<1>5. ~(b + 1 <= q)
  <2>1. b + 1 <= q => (b + 1) * PerBlock <= q * PerBlock
    BY <1>1, <1>2, MulMono
  <2>2. (b + 1) * PerBlock = b * PerBlock + PerBlock
    BY <1>1
  <2>3. QED
    BY <1>1, <1>2, <1>3, <2>1, <2>2
<1>6. q = b
  BY <1>2, <1>4, <1>5
<1>7. QED
  BY <1>2, <1>6 DEF q

\* Two ids do not share a cell.
LEMMA CellInjective ==
  ASSUME NEW a \in Nat, NEW b \in Nat, CellOf(a) = CellOf(b)
  PROVE  a = b
<1>1. a \div PerBlock = b \div PerBlock /\ a % PerBlock = b % PerBlock
  BY DEF CellOf
<1>2. /\ a % PerBlock = a - (a \div PerBlock) * PerBlock
      /\ b % PerBlock = b - (b \div PerBlock) * PerBlock
      /\ a \div PerBlock \in Nat
  BY BlockBounds
<1> DEFINE q == a \div PerBlock
<1>3. q * PerBlock \in Nat
  BY <1>2, GeometryAssumption
<1>4. a - q * PerBlock = b - q * PerBlock
  BY <1>1, <1>2
<1> HIDE DEF q
<1>5. QED
  BY <1>3, <1>4

\* What a mounted volume is.
LEMMA VolumeIs ==
  ASSUME volume \in Volumes
  PROVE  /\ volume.built \in Nat /\ volume.appended \in Nat /\ volume.n \in Nat
         /\ volume.built <= volume.appended /\ volume.appended <= volume.n
         /\ IF volume.n = volume.appended THEN volume.built = volume.appended
            ELSE volume.appended % PerBlock = 0
BY VolumesAssumption

\* The blocks cover the ids, one after the other.
LEMMA BlocksHold ==
  ASSUME volume \in Volumes
  PROVE  /\ Blocks \in Nat
         /\ volume.n <= FirstId(Blocks)
         /\ \A b \in 0 .. Blocks - 1 : FirstId(b) \in Nat /\ FirstId(b) < volume.n
         /\ \A a, b \in 0 .. Blocks : a < b => FirstId(a) + PerBlock <= FirstId(b)
<1>1. PerBlock \in Nat \ {0} /\ volume.n \in Nat
  BY GeometryAssumption, VolumeIs
<1> DEFINE m == volume.n + PerBlock - 1
<1>2. m \in Nat
  BY <1>1
<1>3. /\ m \div PerBlock \in Nat
      /\ (m \div PerBlock) * PerBlock <= m
      /\ m < (m \div PerBlock) * PerBlock + PerBlock
  BY <1>2, BlockBounds
<1>4. Blocks = m \div PerBlock
  BY DEF Blocks
<1> HIDE DEF m
<1>5. Blocks \in Nat /\ Blocks * PerBlock <= m /\ m < Blocks * PerBlock + PerBlock
  BY <1>3, <1>4
<1>6. Blocks * PerBlock \in Nat
  BY <1>1, <1>5
<1>7. volume.n <= FirstId(Blocks)
  BY <1>1, <1>5, <1>6 DEF FirstId, m
<1>8. ASSUME NEW a \in 0 .. Blocks, NEW b \in 0 .. Blocks, a < b
      PROVE  FirstId(a) + PerBlock <= FirstId(b)
  <2>1. a + 1 \in Nat /\ b \in Nat /\ a + 1 <= b /\ a \in Nat
    BY <1>5, <1>8
  <2>2. (a + 1) * PerBlock <= b * PerBlock
    BY <2>1, <1>1, MulMono
  <2>3. (a + 1) * PerBlock = a * PerBlock + PerBlock
    BY <2>1, <1>1
  <2>4. QED
    BY <2>2, <2>3 DEF FirstId
<1>9. ASSUME NEW b \in 0 .. Blocks - 1
      PROVE  FirstId(b) \in Nat /\ FirstId(b) < volume.n
  <2>1. b \in 0 .. Blocks /\ Blocks \in 0 .. Blocks /\ b < Blocks /\ b \in Nat
    BY <1>5
  <2>2. FirstId(b) \in Nat
    BY <2>1, <1>1 DEF FirstId
  <2>3. FirstId(b) + PerBlock <= Blocks * PerBlock
    BY <2>1, <1>8 DEF FirstId
  <2> HIDE DEF FirstId
  <2>4. QED
    BY <2>2, <2>3, <1>1, <1>5, <1>6 DEF m
<1>10. QED
  BY <1>5, <1>7, <1>8, <1>9

\* A block serves the vectors it holds, and nothing else.
LEMMA BlockServes ==
  ASSUME volume \in Volumes, NEW b \in 0 .. Blocks - 1
  PROVE  /\ Take(b) \in 0 .. PerBlock
         /\ \A id \in FirstId(b) .. FirstId(b) + PerBlock - 1 :
              id \in HeldIds <=> ~InGap(b) /\ id < FirstId(b) + Take(b)
<1> DEFINE first == FirstId(b)
           built == volume.built
           appended == volume.appended
           n == volume.n
<1>1. /\ PerBlock \in Nat \ {0}
      /\ built \in Nat /\ appended \in Nat /\ n \in Nat
      /\ built <= appended /\ appended <= n
  BY GeometryAssumption, VolumeIs
<1>2. first \in Nat /\ first < n
  BY BlocksHold
<1>3. built < appended => appended <= first \/ first + PerBlock <= appended
  <2> SUFFICES ASSUME built < appended
               PROVE  appended <= first \/ first + PerBlock <= appended
    OBVIOUS
  <2> DEFINE A == appended \div PerBlock
  <2>1. appended % PerBlock = 0
    BY <1>1, VolumeIs
  <2>2. A \in Nat /\ appended % PerBlock = appended - A * PerBlock
    BY <1>1, BlockBounds
  <2> HIDE DEF A
  <2>3. A * PerBlock \in Nat /\ appended = A * PerBlock
    BY <1>1, <2>1, <2>2
  <2>4. b \in Nat
    BY BlocksHold
  <2>5. CASE A <= b
    <3>1. A * PerBlock <= b * PerBlock
      BY <2>2, <2>4, <2>5, <1>1, MulMono
    <3>2. QED
      BY <3>1, <2>3 DEF FirstId
  <2>6. CASE b + 1 <= A
    <3>1. (b + 1) * PerBlock <= A * PerBlock
      BY <2>2, <2>4, <2>6, <1>1, MulMono
    <3>2. (b + 1) * PerBlock = b * PerBlock + PerBlock
      BY <2>4, <1>1
    <3>3. QED
      BY <3>1, <3>2, <2>3 DEF FirstId
  <2>7. QED
    BY <2>2, <2>4, <2>5, <2>6
<1> DEFINE take == IF PerBlock < n - first THEN PerBlock ELSE n - first
<1>4. Take(b) = IF built < appended /\ first < built /\ first + take > built
                THEN built - first ELSE take
  BY DEF Take, Lesser, Gap
<1>5. InGap(b) <=> built < appended /\ first >= built /\ first + PerBlock <= appended
  BY DEF InGap, Gap
<1>6. ASSUME NEW id \in first .. first + PerBlock - 1
      PROVE  id \in HeldIds <=> id < n /\ (id < built \/ id >= appended)
  <2>1. id \in Nat
    BY <1>2
  <2>2. QED
    BY <2>1, <1>1 DEF HeldIds, Ids
<1> HIDE DEF first, built, appended, n
<1>7. take \in 0 .. PerBlock
  BY <1>1, <1>2
<1>8. Take(b) \in 0 .. PerBlock
  BY <1>1, <1>2, <1>4, <1>7
<1>9. ASSUME NEW id \in first .. first + PerBlock - 1
      PROVE  id \in HeldIds <=> ~InGap(b) /\ id < first + Take(b)
  <2>1. id \in Nat /\ first <= id /\ id < first + PerBlock
    BY <1>1, <1>2
  <2>2. first + take = IF PerBlock < n - first THEN first + PerBlock ELSE n
    BY <1>1, <1>2
  <2>3. CASE built = appended
    BY <2>1, <2>2, <2>3, <1>1, <1>2, <1>4, <1>5, <1>6
  <2>4. CASE built < appended
    BY <2>1, <2>2, <2>4, <1>1, <1>2, <1>3, <1>4, <1>5, <1>6
  <2>5. QED
    BY <2>3, <2>4, <1>1
<1>10. QED
  BY <1>8, <1>9 DEF first

---------------------------------------------------------------------------
(***************************************************************************)
(* The inductive invariant.                                                *)
(***************************************************************************)

StatsRecord == [scanned : Nat, offered : Nat, evicted : Nat, candidates : Nat,
                dropped : Nat, returned : Nat]

\* The reader: part i of the buffer holds the i-th block it says it holds.
ReaderInv ==
  /\ volume \in Volumes
  /\ pc \in {"scan", "rerank", "failed", "done"}
  /\ nextBlock \in 0 .. Blocks
  /\ held \in Nat \X Nat /\ held[1] <= held[2]
  /\ buf = [i \in 1 .. held[2] - held[1] |-> held[1] + i - 1]

Codes(f, n) == [i \in 1 .. n |-> [id |-> f + i - 1, cell |-> CellOf(f + i - 1)]]

Passed(f) == {id \in HeldIds : id < f}

ScoredTo(g, f) == DOMAIN g = {CellOf(id) : id \in Passed(f)}

\* The scan: ids below f are scored, and what is left of the run is every held
\* id from f to the block that is next.
ScanAt(f) ==
  /\ \E n \in Nat : run = Codes(f, n)
  /\ f + Len(run) <= FirstId(nextBlock)
  /\ \A id \in f .. FirstId(nextBlock) - 1 : id \in HeldIds <=> id < f + Len(run)
  /\ ScoredTo(scored, f)

ScoredInv ==
  /\ \A x \in DOMAIN scored : scored[x] \in Score
  /\ pc = "scan" => DOMAIN clean = DOMAIN scored /\ \A x \in DOMAIN clean : clean[x] \in Score
  /\ pc \in {"rerank", "done"} => \A id \in HeldIds : CellOf(id) \in DOMAIN scored

\* h is a heap of the best of S: all of it, or R better than the rest.
TopOf(h, S) ==
  /\ HeapGood(h) /\ Len(h) <= R
  /\ ToSet(h) \subseteq S
  /\ \A d \in S \ ToSet(h) : Len(h) = R /\ \A e \in ToSet(h) : WorseThan(d, e)

CountsInv ==
  /\ stats \in StatsRecord
  /\ stats.scanned = Cardinality(DOMAIN scored)
  /\ survivors \in Seq(Cands)
  /\ stats.candidates = stats.dropped + Len(survivors)
  /\ pc = "scan" => /\ stats.offered = stats.evicted + Len(heap)
                    /\ stats.candidates = 0

SlotsInv ==
  /\ slots \in Seq(Cands) /\ Inj(slots, 1 .. Len(slots))
  /\ ToSet(slots) = Best(Seen(scored))
  /\ stats.offered = stats.evicted + Len(slots)
  /\ stats.candidates <= Len(slots)

\* Those rescored come each from a slot of its own.
SurvivorsInv ==
  /\ \A i \in 1 .. Len(survivors) : \E j \in 1 .. stats.candidates : survivors[i].id = slots[j].id
  /\ \A i, j \in 1 .. Len(survivors) : survivors[i].id = survivors[j].id => i = j

DoneInv ==
  /\ stats.candidates = Len(slots)
  /\ out = SubSeq(SortDesc(survivors), 1, Lesser(K, Len(survivors)))

QueryInv ==
  /\ ReaderInv
  /\ \E f \in Nat : ScanAt(f)
  /\ ScoredInv
  /\ CountsInv
  /\ pc = "scan" => TopOf(heap, Seen(scored))
  /\ pc \in {"rerank", "done"} => SlotsInv /\ SurvivorsInv
  /\ pc = "done" => DoneInv

---------------------------------------------------------------------------
(***************************************************************************)
(* The best R of what is seen.                                             *)
(***************************************************************************)

\* What a heap is made of.
LEMMA HeapLen ==
  ASSUME NEW h, HeapGood(h)
  PROVE  /\ Len(h) \in Nat /\ h \in Seq(Cands)
         /\ \A k \in 1 .. Len(h) : h[k] \in ToSet(h) /\ h[k] \in Cands
         /\ \A c \in ToSet(h) : \E k \in 1 .. Len(h) : c = h[k]
         /\ Len(h) >= 1 => h[1] \in ToSet(h) /\ h[1] \in Cands
BY DEF HeapGood, ToSet

\* A heap with room takes a candidate, and stays the best of what was seen.
LEMMA TopAdds ==
  ASSUME NEW S \in SUBSET Cands, NEW h, TopOf(h, S), NEW c \in Cands, c \notin S, Len(h) < R
  PROVE  TopOf(SiftUp(Append(h, c), Len(h) + 1), S \cup {c})
<1> DEFINE up == SiftUp(Append(h, c), Len(h) + 1)
<1>1. HeapGood(h) /\ ToSet(h) = S /\ Len(h) \in Nat /\ R \in Nat
  <2>1. HeapGood(h) /\ ToSet(h) \subseteq S /\ \A d \in S \ ToSet(h) : Len(h) = R
    BY DEF TopOf
  <2>2. Len(h) \in Nat /\ R \in Nat
    BY <2>1, HeapLen, DepthAssumption
  <2>3. Len(h) # R
    BY <2>2
  <2>4. QED
    BY <2>1, <2>2, <2>3
<1>2. HeapTook(h, c, up)
  BY <1>1, SiftUpGood
<1> HIDE DEF up
<1>3. HeapGood(up) /\ Len(up) = Len(h) + 1 /\ ToSet(up) = S \cup {c}
  BY <1>1, <1>2 DEF HeapTook
<1>4. QED
  BY <1>1, <1>3 DEF TopOf, up

\* A full heap gives up its root for a better candidate.
LEMMA TopEvicts ==
  ASSUME NEW S \in SUBSET Cands, NEW h, TopOf(h, S), NEW c \in Cands, c \notin S,
         Len(h) >= R, WorseThan(h[1], c)
  PROVE  TopOf(SiftDown([h EXCEPT ![1] = c]), S \cup {c})
<1> DEFINE down == SiftDown([h EXCEPT ![1] = c])
<1>1. /\ HeapGood(h) /\ ToSet(h) \subseteq S /\ Len(h) = R /\ Len(h) >= 1 /\ R \in Nat
      /\ h[1] \in ToSet(h) /\ h[1] \in Cands
  <2>1. HeapGood(h) /\ ToSet(h) \subseteq S /\ Len(h) <= R
    BY DEF TopOf
  <2>2. Len(h) \in Nat /\ R \in Nat \ {0}
    BY <2>1, HeapLen, DepthAssumption
  <2>3. Len(h) = R /\ Len(h) >= 1
    BY <2>1, <2>2
  <2>4. QED
    BY <2>1, <2>2, <2>3, HeapLen
<1>2. RootReplaced(h, c, down)
  <2>1. c \notin ToSet(h)
    BY <1>1
  <2>2. QED
    BY <1>1, <2>1, ReplaceRootGood
<1> HIDE DEF down
<1>3. HeapGood(down) /\ Len(down) = R /\ ToSet(down) = (ToSet(h) \ {h[1]}) \cup {c}
  BY <1>1, <1>2 DEF RootReplaced
<1>4. ASSUME NEW e \in ToSet(h), e # h[1] PROVE WorseThan(h[1], e)
  <2>1. PICK k \in 1 .. Len(h) : e = h[k]
    BY <1>1, HeapLen
  <2>2. k # 1
    BY <2>1, <1>4
  <2>3. QED
    BY <2>1, <2>2, <1>1, RootWorst
<1>5. ASSUME NEW d \in (S \cup {c}) \ ToSet(down), NEW e \in ToSet(down)
      PROVE  WorseThan(d, e)
  <2>1. d \in S /\ d # c /\ d \in Cands /\ e \in Cands
    BY <1>1, <1>3
  <2>2. CASE d = h[1]
    BY <2>2, <1>3, <1>4
  <2>3. CASE d # h[1]
    <3>1. d \in S \ ToSet(h)
      BY <2>1, <2>3, <1>3
    <3>2. \A x \in ToSet(h) : WorseThan(d, x)
      BY <3>1 DEF TopOf
    <3>3. CASE e = c
      BY <3>2, <3>3, <2>1, <1>1, Transitive
    <3>4. CASE e # c
      BY <3>2, <3>4, <1>3
    <3>5. QED
      BY <3>3, <3>4
  <2>4. QED
    BY <2>2, <2>3
<1>6. ToSet(down) \subseteq S \cup {c}
  BY <1>1, <1>3
<1>7. R <= R
  BY <1>1
<1>8. TopOf(down, S \cup {c})
  BY <1>3, <1>5, <1>6, <1>7 DEF TopOf
<1>9. QED
  BY <1>8 DEF down

\* A full heap that turns a candidate away was right to.
LEMMA TopRejects ==
  ASSUME NEW S \in SUBSET Cands, NEW h, TopOf(h, S), NEW c \in Cands, c \notin S,
         Len(h) >= R, ~WorseThan(h[1], c)
  PROVE  TopOf(h, S \cup {c})
<1>1. /\ HeapGood(h) /\ ToSet(h) \subseteq S /\ Len(h) = R /\ Len(h) >= 1 /\ R \in Nat
      /\ h[1] \in ToSet(h) /\ h[1] \in Cands
  <2>1. HeapGood(h) /\ ToSet(h) \subseteq S /\ Len(h) <= R
    BY DEF TopOf
  <2>2. Len(h) \in Nat /\ R \in Nat \ {0}
    BY <2>1, HeapLen, DepthAssumption
  <2>3. Len(h) = R /\ Len(h) >= 1
    BY <2>1, <2>2
  <2>4. QED
    BY <2>1, <2>2, <2>3, HeapLen
<1>2. WorseThan(c, h[1])
  <2>1. c # h[1]
    BY <1>1
  <2>2. QED
    BY <1>1, <2>1, Total
<1>3. ASSUME NEW e \in ToSet(h) PROVE WorseThan(c, e)
  <2>1. PICK k \in 1 .. Len(h) : e = h[k]
    BY <1>1, HeapLen
  <2>2. CASE k = 1
    BY <2>1, <2>2, <1>2
  <2>3. CASE k # 1
    <3>1. WorseThan(h[1], h[k])
      BY <2>3, <1>1, RootWorst
    <3>2. h[k] \in Cands
      BY <1>1, HeapLen
    <3>3. QED
      BY <3>1, <3>2, <2>1, <1>1, <1>2, Transitive
  <2>4. QED
    BY <2>2, <2>3
<1>4. QED
  BY <1>1, <1>3 DEF TopOf

\* The best by the heap are the best by count: fewer than R are better.
LEMMA TopIsBest ==
  ASSUME NEW S \in SUBSET Cands, IsFiniteSet(S), NEW h, TopOf(h, S)
  PROVE  ToSet(h) = Best(S)
<1>1. HeapGood(h) /\ ToSet(h) \subseteq S /\ Len(h) <= R /\ Len(h) \in Nat /\ R \in Nat \ {0}
  BY HeapLen, DepthAssumption DEF TopOf
<1>2. ToSet(h) = Img(h, 1 .. Len(h)) /\ Inj(h, 1 .. Len(h))
  BY <1>1 DEF ToSet, Img, HeapGood
<1>3. IsFiniteSet(ToSet(h)) /\ Cardinality(ToSet(h)) = Len(h)
  BY <1>1, <1>2, ImgSize
<1>4. ASSUME NEW c \in ToSet(h) PROVE Cardinality(Better(S, c)) < R
  <2>1. Better(S, c) \subseteq ToSet(h) \ {c}
    <3>1. ASSUME NEW d \in S, WorseThan(c, d) PROVE d \in ToSet(h) \ {c}
      <4>1. c \in Cands /\ d \in Cands
        BY <1>1
      <4>2. ~WorseThan(d, c) /\ d # c
        BY <4>1, <3>1, Asymmetric, Irreflexive
      <4>3. QED
        BY <4>2 DEF TopOf
    <3>2. QED
      BY <3>1 DEF Better
  <2>2. IsFiniteSet(ToSet(h) \ {c}) /\ Cardinality(ToSet(h) \ {c}) = Len(h) - 1
    BY <1>3, FS_RemoveElement
  <2>3. Cardinality(Better(S, c)) <= Len(h) - 1 /\ Cardinality(Better(S, c)) \in Nat
    <3>1. IsFiniteSet(Better(S, c)) /\ Cardinality(Better(S, c)) <= Cardinality(ToSet(h) \ {c})
      BY <2>1, <2>2, FS_Subset
    <3>2. QED
      BY <3>1, <2>2, FS_CardinalityType
  <2>4. QED
    BY <2>3, <1>1
<1>5. ASSUME NEW d \in S, d \notin ToSet(h) PROVE ~(Cardinality(Better(S, d)) < R)
  <2>1. Len(h) = R /\ \A e \in ToSet(h) : WorseThan(d, e)
    BY <1>5 DEF TopOf
  <2>2. ToSet(h) \subseteq Better(S, d) /\ Better(S, d) \subseteq S
    BY <2>1, <1>1 DEF Better
  <2>3. IsFiniteSet(Better(S, d))
    BY <2>2, FS_Subset
  <2>4. Cardinality(ToSet(h)) <= Cardinality(Better(S, d)) /\ Cardinality(Better(S, d)) \in Nat
    BY <2>2, <2>3, FS_Subset, FS_CardinalityType
  <2>5. QED
    BY <2>1, <2>4, <1>1, <1>3
<1>6. QED
  BY <1>1, <1>4, <1>5 DEF Best

---------------------------------------------------------------------------
(***************************************************************************)
(* What is seen.                                                           *)
(***************************************************************************)

\* What the manifest holds is finite.
LEMMA HeldIdsNat == volume \in Volumes => HeldIds \subseteq Nat /\ IsFiniteSet(HeldIds)
<1> SUFFICES ASSUME volume \in Volumes PROVE HeldIds \subseteq Nat /\ IsFiniteSet(HeldIds)
  OBVIOUS
<1>1. 0 \in Int /\ volume.n - 1 \in Int
  BY VolumeIs
<1>2. IsFiniteSet(0 .. volume.n - 1)
  BY <1>1, FS_Interval, Zenon
<1>3. HeldIds \subseteq 0 .. volume.n - 1
  BY DEF HeldIds, Ids
<1>4. IsFiniteSet(HeldIds)
  BY <1>2, <1>3, FS_Subset
<1>5. QED
  BY <1>1, <1>3, <1>4

\* What is seen is a finite set of candidates.
LEMMA SeenType ==
  ASSUME volume \in Volumes, NEW g, \A x \in DOMAIN g : g[x] \in Score
  PROVE  Seen(g) \in SUBSET Cands /\ IsFiniteSet(Seen(g))
<1> DEFINE J == {i \in HeldIds : CellOf(i) \in DOMAIN g}
           F == [i \in J |-> Candidate(g[CellOf(i)], i)]
<1>1. HeldIds \subseteq Nat /\ IsFiniteSet(HeldIds)
  BY HeldIdsNat
<1>2. IsFiniteSet(J) /\ J \subseteq Nat
  BY <1>1, FS_Subset
<1>3. Seen(g) = {Candidate(g[CellOf(i)], i) : i \in J}
  BY DEF Seen
<1>4. \A i \in J : g[CellOf(i)] \in Int
  BY ScoreAssumption
<1> HIDE DEF J
<1>5. F \in Surjection(J, Seen(g))
  <2>1. F \in [J -> Seen(g)] /\ \A y \in Seen(g) : \E i \in J : F[i] = y
    BY <1>3
  <2>2. QED
    BY <2>1 DEF Surjection
<1>6. IsFiniteSet(Seen(g))
  BY <1>2, <1>5, FS_Surjection
<1>7. \A i \in J : Candidate(g[CellOf(i)], i) \in Cands
  BY <1>2, <1>4 DEF Candidate, Cands
<1>8. QED
  BY <1>3, <1>6, <1>7

PassesOne(f) == Passed(f + 1) = Passed(f) \cup {f}

\* The next held id is passed.
LEMMA PassedMore ==
  ASSUME volume \in Volumes, NEW f \in Nat, f \in HeldIds
  PROVE  PassesOne(f) /\ f \notin Passed(f)
<1>1. HeldIds \subseteq Nat
  BY HeldIdsNat
<1>2. ASSUME NEW i PROVE i \in Passed(f + 1) <=> i \in Passed(f) \cup {f}
  <2>1. i \in Nat => (i < f + 1 <=> i < f \/ i = f)
    OBVIOUS
  <2>2. QED
    BY <1>1, <2>1 DEF Passed
<1>3. f \notin Passed(f)
  BY DEF Passed
<1>4. Passed(f + 1) = Passed(f) \cup {f}
  BY <1>2
<1>5. QED
  BY <1>3, <1>4 DEF PassesOne

\* A held id is scored once it is passed, and no sooner.
LEMMA ScoredIsPassed ==
  ASSUME volume \in Volumes, NEW f \in Nat, NEW g, ScoredTo(g, f)
  PROVE  \A i \in HeldIds : CellOf(i) \in DOMAIN g <=> i \in Passed(f)
<1>1. HeldIds \subseteq Nat /\ Passed(f) \subseteq HeldIds
  BY HeldIdsNat DEF Passed
<1>2. ASSUME NEW i \in HeldIds, CellOf(i) \in DOMAIN g PROVE i \in Passed(f)
  <2>1. PICK k \in Passed(f) : CellOf(i) = CellOf(k)
    BY <1>2 DEF ScoredTo
  <2>2. i = k
    BY <2>1, <1>1, CellInjective
  <2>3. QED
    BY <2>1, <2>2
<1>3. ASSUME NEW i \in HeldIds, i \in Passed(f) PROVE CellOf(i) \in DOMAIN g
  BY <1>3 DEF ScoredTo
<1>4. QED
  BY <1>2, <1>3

\* One more id scored is one more candidate seen.
SeenMore(g, f, s) ==
  /\ Seen(With(g, CellOf(f), s)) = Seen(g) \cup {Candidate(s, f)}
  /\ Candidate(s, f) \notin Seen(g)
  /\ CellOf(f) \notin DOMAIN g
  /\ ScoredTo(With(g, CellOf(f), s), f + 1)

\* Scoring the cell of the next held id does that, whatever it scores.
LEMMA SeenGrows ==
  ASSUME volume \in Volumes, NEW f \in Nat, f \in HeldIds, NEW g, NEW s, ScoredTo(g, f)
  PROVE  SeenMore(g, f, s)
<1> DEFINE w == With(g, CellOf(f), s)
           J == {i \in HeldIds : CellOf(i) \in DOMAIN g}
<1>1. HeldIds \subseteq Nat
  BY HeldIdsNat
<1>2. CellOf(f) \notin DOMAIN g
  <2>1. f \notin Passed(f)
    BY PassedMore
  <2>2. QED
    BY <2>1, ScoredIsPassed
<1>3. /\ DOMAIN w = DOMAIN g \cup {CellOf(f)} /\ w[CellOf(f)] = s
      /\ \A x \in DOMAIN g : w[x] = g[x]
  BY <1>2 DEF With
<1> HIDE DEF w
<1>4. {i \in HeldIds : CellOf(i) \in DOMAIN w} = J \cup {f}
  <2>1. ASSUME NEW i \in HeldIds, CellOf(i) = CellOf(f) PROVE i = f
    BY <2>1, <1>1, CellInjective
  <2>2. QED
    BY <2>1, <1>3
<1>5. \A i \in J : w[CellOf(i)] = g[CellOf(i)]
  BY <1>3
<1>6. Seen(g) = {Candidate(g[CellOf(i)], i) : i \in J}
  BY DEF Seen
<1>7. Seen(w) = {Candidate(w[CellOf(i)], i) : i \in J \cup {f}}
  BY <1>4 DEF Seen
<1>8. f \notin J
  BY <1>2
<1> HIDE DEF J
<1>9. Seen(w) = Seen(g) \cup {Candidate(s, f)}
  <2>1. ASSUME NEW y PROVE y \in Seen(w) <=> y \in Seen(g) \cup {Candidate(s, f)}
    BY <1>3, <1>5, <1>6, <1>7
  <2>2. QED
    BY <2>1
<1>10. \A y \in Seen(g) : y.id # f
  BY <1>6, <1>8 DEF Candidate
<1>11. Candidate(s, f) \notin Seen(g)
  BY <1>10 DEF Candidate
<1>12. ScoredTo(w, f + 1)
  <2>1. DOMAIN g = {CellOf(i) : i \in Passed(f)}
    BY DEF ScoredTo
  <2>2. Passed(f + 1) = Passed(f) \cup {f}
    BY PassedMore DEF PassesOne
  <2>3. DOMAIN w = {CellOf(i) : i \in Passed(f + 1)}
    BY <1>3, <2>1, <2>2
  <2>4. QED
    BY <2>3 DEF ScoredTo
<1>13. QED
  BY <1>2, <1>9, <1>11, <1>12 DEF SeenMore, w

---------------------------------------------------------------------------
(***************************************************************************)
(* Steps of the scan.                                                      *)
(***************************************************************************)

\* What is scored is finite.
LEMMA ScoredFinite ==
  ASSUME volume \in Volumes, NEW f \in Nat, NEW g, ScoredTo(g, f)
  PROVE  IsFiniteSet(DOMAIN g)
<1> DEFINE P == Passed(f)
           F == [i \in P |-> CellOf(i)]
<1>1. DOMAIN g = {CellOf(i) : i \in P}
  BY DEF ScoredTo
<1>2. IsFiniteSet(P)
  <2>1. P \subseteq HeldIds /\ IsFiniteSet(HeldIds)
    BY HeldIdsNat DEF Passed
  <2>2. QED
    BY <2>1, FS_Subset
<1> HIDE DEF P
<1>3. F \in Surjection(P, DOMAIN g)
  <2>1. F \in [P -> DOMAIN g] /\ \A y \in DOMAIN g : \E i \in P : F[i] = y
    BY <1>1
  <2>2. QED
    BY <2>1 DEF Surjection
<1>4. QED
  BY <1>2, <1>3, FS_Surjection

\* A query starts with nothing scanned.
LEMMA QueryInit == Init => QueryInv
<1> SUFFICES ASSUME Init PROVE QueryInv
  OBVIOUS
<1>1. /\ volume \in Volumes /\ pc = "scan" /\ nextBlock = 0 /\ held = <<0, 0>> /\ buf = <<>>
      /\ run = <<>> /\ heap = <<>> /\ survivors = <<>> /\ stats = NoStats
      /\ scored = <<>> /\ clean = <<>>
  BY DEF Init
<1>2. PerBlock \in Nat \ {0} /\ Blocks \in Nat /\ R \in Nat
  BY <1>1, GeometryAssumption, DepthAssumption, BlocksHold
<1>3. ReaderInv
  <2>1. held[2] - held[1] = 0 /\ held[1] <= held[2] /\ held \in Nat \X Nat
    BY <1>1
  <2>2. buf = [i \in 1 .. held[2] - held[1] |-> held[1] + i - 1]
    BY <1>1, <2>1
  <2>3. QED
    BY <1>1, <1>2, <2>1, <2>2 DEF ReaderInv
<1>4. DOMAIN scored = {} /\ DOMAIN clean = {}
  BY <1>1
<1>5. ScanAt(0)
  <2>1. run = Codes(0, 0) /\ Len(run) = 0
    BY <1>1 DEF Codes
  <2>2. FirstId(nextBlock) = 0
    BY <1>1, <1>2 DEF FirstId
  <2>3. Passed(0) = {}
    <3>1. HeldIds \subseteq Nat
      BY <1>1, HeldIdsNat
    <3>2. \A i \in Nat : ~(i < 0)
      OBVIOUS
    <3>3. QED
      BY <3>1, <3>2 DEF Passed
  <2>4. ScoredTo(scored, 0)
    BY <1>4, <2>3 DEF ScoredTo
  <2>5. QED
    BY <2>1, <2>2, <2>4 DEF ScanAt
<1>6. ScoredInv
  BY <1>1, <1>4 DEF ScoredInv
<1>7. CountsInv
  <2>1. Cardinality(DOMAIN scored) = 0
    BY <1>4, FS_EmptySet
  <2>2. survivors \in Seq(Cands) /\ Len(survivors) = 0 /\ Len(heap) = 0
    BY <1>1
  <2>3. QED
    BY <1>1, <2>1, <2>2 DEF CountsInv, NoStats, StatsRecord
<1>8. TopOf(heap, Seen(scored))
  <2>1. Seen(scored) = {}
    BY <1>4 DEF Seen
  <2>2. heap \in Seq(Cands) /\ Len(heap) = 0 /\ ToSet(heap) = {}
    BY <1>1 DEF ToSet
  <2>3. HeapGood(heap)
    BY <2>2 DEF HeapGood, Inj, Ordered
  <2>4. QED
    BY <1>2, <2>1, <2>2, <2>3 DEF TopOf
<1>9. QED
  BY <1>1, <1>3, <1>5, <1>6, <1>7, <1>8 DEF QueryInv

\* The block an id between two blocks is in.
LEMMA BlockBetween ==
  ASSUME NEW a \in Nat, NEW c \in Nat, NEW id \in FirstId(a) .. FirstId(c) - 1
  PROVE  \E b \in a .. c - 1 : id \in FirstId(b) .. FirstId(b) + PerBlock - 1
<1> DEFINE q == id \div PerBlock
<1>1. PerBlock \in Nat \ {0}
  BY GeometryAssumption
<1>2. FirstId(a) \in Nat /\ FirstId(c) \in Nat /\ id \in Nat
      /\ FirstId(a) <= id /\ id < FirstId(c)
  BY <1>1 DEF FirstId
<1>3. q \in Nat /\ q * PerBlock <= id /\ id < q * PerBlock + PerBlock
  BY <1>2, BlockBounds
<1> HIDE DEF q
<1>4. q * PerBlock \in Nat
  BY <1>1, <1>3
<1>5. ~(q + 1 <= a)
  <2>1. q + 1 <= a => (q + 1) * PerBlock <= a * PerBlock
    BY <1>1, <1>3, MulMono
  <2>2. (q + 1) * PerBlock = q * PerBlock + PerBlock
    BY <1>1, <1>3
  <2>3. q + 1 <= a => q * PerBlock + PerBlock <= FirstId(a)
    BY <2>1, <2>2 DEF FirstId
  <2>4. QED
    BY <1>1, <1>2, <1>3, <1>4, <2>3
<1>6. ~(c <= q)
  <2>1. c <= q => c * PerBlock <= q * PerBlock
    BY <1>1, <1>3, MulMono
  <2>2. c <= q => FirstId(c) <= q * PerBlock
    BY <2>1 DEF FirstId
  <2>3. QED
    BY <1>2, <1>3, <1>4, <2>2
<1>7. q \in a .. c - 1
  BY <1>3, <1>5, <1>6
<1>8. id \in FirstId(q) .. FirstId(q) + PerBlock - 1
  BY <1>1, <1>2, <1>3, <1>4 DEF FirstId
<1>9. QED
  BY <1>7, <1>8

\* The buffer, after a refill or not, holds the block at its place.
BufferHolds(block) ==
  /\ held' \in Nat \X Nat /\ held'[1] <= held'[2]
  /\ buf' = [i \in 1 .. held'[2] - held'[1] |-> held'[1] + i - 1]
  /\ buf'[block - held'[1] + 1] = block

\* Whether the block was in the buffer already or is read now.
LEMMA RefillGood ==
  ASSUME ReaderInv, NEW block \in 0 .. Blocks - 1, Refill(block)
  PROVE  BufferHolds(block)
<1>1. /\ held \in Nat \X Nat /\ held[1] <= held[2] /\ block \in Nat /\ Blocks \in Nat
      /\ buf = [i \in 1 .. held[2] - held[1] |-> held[1] + i - 1]
      /\ Chunk \in Nat \ {0}
  BY BlocksHold, GeometryAssumption DEF ReaderInv
<1>2. held[1] \in Nat /\ held[2] \in Nat
  BY <1>1
<1>3. CASE held[1] <= block /\ block < held[2]
  <2>1. held' = held /\ buf' = buf
    BY <1>3 DEF Refill
  <2>2. block - held[1] + 1 \in 1 .. held[2] - held[1]
    BY <1>1, <1>2, <1>3
  <2>3. held[1] + (block - held[1] + 1) - 1 = block
    BY <1>1, <1>2
  <2>4. buf[block - held[1] + 1] = block
    BY <1>1, <2>2, <2>3
  <2>5. QED
    BY <1>1, <2>1, <2>4 DEF BufferHolds
<1>4. CASE ~(held[1] <= block /\ block < held[2])
  <2> DEFINE want == Lesser(Chunk, Blocks - block)
  <2>1. held' = <<block, block + want>> /\ buf' = [i \in 1 .. want |-> block + i - 1]
    BY <1>4 DEF Refill
  <2>2. want \in Nat \ {0}
    BY <1>1 DEF Lesser
  <2> HIDE DEF want
  <2>3. held'[1] = block /\ held'[2] = block + want
    BY <2>1
  <2>4. held'[2] - held'[1] = want /\ held' \in Nat \X Nat /\ held'[1] <= held'[2]
    BY <1>1, <2>1, <2>2, <2>3
  <2>5. block - held'[1] + 1 = 1 /\ 1 \in 1 .. want /\ block + 1 - 1 = block
    BY <1>1, <2>2, <2>3
  <2>6. buf' = [i \in 1 .. held'[2] - held'[1] |-> held'[1] + i - 1]
    BY <2>1, <2>3, <2>4
  <2>7. buf'[1] = block
    BY <2>1, <2>5
  <2>8. QED
    BY <2>4, <2>5, <2>6, <2>7 DEF BufferHolds
<1>5. QED
  BY <1>3, <1>4

\* No id of a block that is passed over is held.
LEMMA PassedOver ==
  ASSUME volume \in Volumes, NEW a \in 0 .. Blocks, NEW c \in 0 .. Blocks,
         \A b \in a .. c - 1 : InGap(b)
  PROVE  \A id \in FirstId(a) .. FirstId(c) - 1 : id \notin HeldIds
<1>1. Blocks \in Nat
  BY BlocksHold
<1>2. a \in Nat /\ c \in Nat
  BY <1>1
<1> SUFFICES ASSUME NEW id \in FirstId(a) .. FirstId(c) - 1 PROVE id \notin HeldIds
  OBVIOUS
<1>3. PICK b \in a .. c - 1 : id \in FirstId(b) .. FirstId(b) + PerBlock - 1
  BY <1>2, BlockBetween
<1>4. b \in 0 .. Blocks - 1 /\ InGap(b)
  BY <1>1, <1>2, <1>3
<1>5. QED
  BY <1>3, <1>4, BlockServes

\* The run served is every held id of the first block that has one to serve.
LEMMA NextRunScans ==
  ASSUME QueryInv, NextRun
  PROVE  ReaderInv' /\ \E f \in Nat : ScanAt(f)'
<1>1. /\ pc = "scan" /\ run = <<>>
      /\ pc' = pc /\ volume' = volume /\ scored' = scored
  BY DEF NextRun, history
<1>2. PICK block \in 0 .. Blocks - 1 :
        /\ Served(block) /\ Refill(block) /\ nextBlock' = block + 1
        /\ run' = [i \in 1 .. Take(block) |->
                     [id |-> FirstId(block) + i - 1,
                      cell |-> <<buf'[block - held'[1] + 1], i - 1>>]]
  BY DEF NextRun
<1>3. ReaderInv /\ volume \in Volumes
  BY DEF QueryInv, ReaderInv
<1>4. PerBlock \in Nat \ {0} /\ Blocks \in Nat
  BY <1>3, GeometryAssumption, BlocksHold
<1>5. block \in Nat /\ nextBlock \in 0 .. Blocks /\ nextBlock <= block /\ block + 1 \in 0 .. Blocks
      /\ nextBlock \in Nat /\ block \in 0 .. Blocks
  BY <1>2, <1>3, <1>4 DEF Served, ReaderInv
<1>6. BufferHolds(block)
  BY <1>2, <1>3, RefillGood
<1>7. Take(block) \in 0 .. PerBlock
  BY <1>3, BlockServes
<1>8. PICK n \in Nat : n = Take(block) /\ n <= PerBlock
  BY <1>4, <1>7
<1>9. PICK f \in Nat : f = FirstId(block)
  BY <1>4, <1>5 DEF FirstId
<1>10. f \in Nat /\ FirstId(nextBlock) \in Nat /\ FirstId(block + 1) = f + PerBlock
  <2>1. (block + 1) * PerBlock = block * PerBlock + PerBlock
    BY <1>4, <1>5
  <2>2. QED
    BY <1>4, <1>5, <1>9, <2>1 DEF FirstId
<1>11. run' = Codes(f, n)
  <2>1. ASSUME NEW i \in 1 .. n PROVE <<block, i - 1>> = CellOf(f + i - 1)
    <3>1. f = block * PerBlock
      BY <1>9 DEF FirstId
    <3>2. PICK a \in Nat : a = f + i - 1
      BY <1>9
    <3>3. block * PerBlock <= a /\ a < block * PerBlock + PerBlock
          /\ a - block * PerBlock = i - 1
      BY <1>4, <1>8, <1>9, <3>1, <3>2
    <3>4. a \div PerBlock = block /\ a % PerBlock = i - 1
      BY <1>5, <3>3, BlockUnique
    <3>5. QED
      BY <3>2, <3>4 DEF CellOf
  <2>2. run' = [i \in 1 .. n |-> [id |-> f + i - 1, cell |-> <<block, i - 1>>]]
    BY <1>2, <1>6, <1>8, <1>9 DEF BufferHolds
  <2>3. QED
    BY <2>1, <2>2 DEF Codes
<1>12. Len(run') = n
  BY <1>8, <1>11 DEF Codes
<1>13. PICK e \in Nat : ScanAt(e)
  BY DEF QueryInv
<1>14. e <= FirstId(nextBlock) /\ \A id \in e .. FirstId(nextBlock) - 1 : id \notin HeldIds
  <2>1. Len(run) = 0
    BY <1>1
  <2>2. /\ e + 0 <= FirstId(nextBlock)
        /\ \A id \in e .. FirstId(nextBlock) - 1 : id \in HeldIds <=> id < e + 0
    BY <1>13, <2>1 DEF ScanAt
  <2>3. QED
    BY <2>2, <1>10
<1>15. \A id \in FirstId(nextBlock) .. f - 1 : id \notin HeldIds
  BY <1>2, <1>3, <1>5, <1>9, PassedOver DEF Served
<1>16. FirstId(nextBlock) <= f
  BY <1>4, <1>5, <1>9, MulMono DEF FirstId
<1>17. HeldIds \subseteq Nat
  BY <1>3, HeldIdsNat
<1>18. Passed(f) = Passed(e)
  <2>1. ASSUME NEW id \in HeldIds PROVE id < f <=> id < e
    <3>1. id \in Nat
      BY <1>17
    <3>2. ~(e <= id /\ id < FirstId(nextBlock)) /\ ~(FirstId(nextBlock) <= id /\ id < f)
      BY <3>1, <1>10, <1>14, <1>15
    <3>3. QED
      BY <3>1, <3>2, <1>10, <1>14, <1>16
  <2>2. QED
    BY <2>1 DEF Passed
<1>19. ScoredTo(scored, f)
  BY <1>13, <1>18 DEF ScanAt, ScoredTo
<1>20. \A id \in f .. FirstId(block + 1) - 1 : id \in HeldIds <=> id < f + n
  <2>1. \A id \in f .. f + PerBlock - 1 : id \in HeldIds <=> ~InGap(block) /\ id < f + n
    BY <1>3, <1>8, <1>9, BlockServes
  <2>2. ~InGap(block)
    BY <1>2 DEF Served
  <2>3. FirstId(block + 1) - 1 = f + PerBlock - 1
    BY <1>4, <1>10
  <2>4. QED
    BY <2>1, <2>2, <2>3
<1>21. f + n <= FirstId(block + 1)
  BY <1>4, <1>8, <1>10
<1>22. HeldIds' = HeldIds /\ Blocks' = Blocks
  BY <1>1 DEF HeldIds, Ids, Blocks
<1>23. ScanAt(f)'
  <2>1. ScoredTo(scored, f)'
    BY <1>1, <1>19, <1>22 DEF ScoredTo, Passed
  <2>2. f + Len(run') <= FirstId(nextBlock')
    BY <1>2, <1>12, <1>21
  <2>3. \A id \in f .. FirstId(nextBlock') - 1 : id \in HeldIds' <=> id < f + Len(run')
    BY <1>2, <1>12, <1>20, <1>22
  <2>4. QED
    BY <1>8, <1>11, <2>1, <2>2, <2>3 DEF ScanAt
<1>24. ReaderInv'
  BY <1>1, <1>2, <1>3, <1>5, <1>6, <1>22 DEF ReaderInv, BufferHolds
<1>25. QED
  BY <1>10, <1>23, <1>24

SameScored == volume' = volume /\ scored' = scored
SeenKept == Seen(scored)' = Seen(scored)

\* A step that scores nothing leaves what is seen.
LEMMA SeenSame == SameScored => SeenKept /\ HeldIds' = HeldIds /\ Blocks' = Blocks
<1> SUFFICES ASSUME SameScored PROVE SeenKept /\ HeldIds' = HeldIds /\ Blocks' = Blocks
  OBVIOUS
<1>1. volume' = volume /\ scored' = scored
  BY DEF SameScored
<1>2. HeldIds' = HeldIds /\ Blocks' = Blocks
  BY <1>1 DEF HeldIds, Ids, Blocks
<1>3. Seen(scored)' = Seen(scored)
  BY <1>1, <1>2 DEF Seen
<1>4. QED
  BY <1>2, <1>3 DEF SeenKept

\* The reader and the scan do not move.
LEMMA ReaderStays ==
  ASSUME QueryInv, SameScored, UNCHANGED <<reader, run>>,
         pc' \in {"scan", "rerank", "failed", "done"}
  PROVE  ReaderInv' /\ \E f \in Nat : ScanAt(f)'
<1>1. HeldIds' = HeldIds /\ Blocks' = Blocks
  BY SeenSame
<1>2. volume' = volume /\ scored' = scored /\ nextBlock' = nextBlock /\ held' = held
      /\ buf' = buf /\ run' = run
  BY DEF SameScored, reader
<1>3. ReaderInv'
  BY <1>1, <1>2 DEF QueryInv, ReaderInv
<1>4. PICK f \in Nat : ScanAt(f)
  BY DEF QueryInv
<1>5. Passed(f)' = Passed(f)
  BY <1>1 DEF Passed
<1>6. ScoredTo(scored, f)'
  BY <1>2, <1>4, <1>5 DEF ScanAt, ScoredTo
<1>7. ScanAt(f)'
  BY <1>1, <1>2, <1>4, <1>6 DEF ScanAt
<1>8. QED
  BY <1>3, <1>7

\* The next run.
LEMMA NextRunGood == QueryInv /\ NextRun => QueryInv'
<1> SUFFICES ASSUME QueryInv, NextRun PROVE QueryInv'
  OBVIOUS
<1>1. ReaderInv' /\ \E f \in Nat : ScanAt(f)'
  BY NextRunScans
<1>2. /\ pc = "scan"
      /\ pc' = pc /\ volume' = volume /\ scored' = scored /\ clean' = clean
      /\ heap' = heap /\ survivors' = survivors /\ stats' = stats
  BY DEF NextRun, history
<1>3. SeenKept
  BY <1>2, SeenSame DEF SameScored
<1>4. ScoredInv'
  BY <1>2 DEF QueryInv, ScoredInv
<1>5. CountsInv'
  BY <1>2 DEF QueryInv, CountsInv
<1>6. TopOf(heap, Seen(scored))'
  BY <1>2, <1>3 DEF QueryInv, SeenKept
<1>7. QED
  BY <1>1, <1>2, <1>4, <1>5, <1>6 DEF QueryInv

\* A failed read.
LEMMA ReadFailsGood == QueryInv /\ ReadFails => QueryInv'
<1> SUFFICES ASSUME QueryInv, ReadFails PROVE QueryInv'
  OBVIOUS
<1>1. /\ pc' = "failed"
      /\ UNCHANGED <<volume, reader, run, heap, survivors, stats, history>>
  BY DEF ReadFails
<1>2. ReaderInv' /\ \E f \in Nat : ScanAt(f)'
  BY <1>1, ReaderStays DEF SameScored, history
<1>3. ScoredInv'
  BY <1>1 DEF QueryInv, ScoredInv, history
<1>4. CountsInv'
  BY <1>1 DEF QueryInv, CountsInv, history
<1>5. QED
  BY <1>1, <1>2, <1>3, <1>4 DEF QueryInv

\* The next record of a run, and the run without it.
LEMMA CodesNext ==
  ASSUME NEW f \in Nat, NEW n \in Nat, Codes(f, n) # <<>>
  PROVE  /\ n >= 1 /\ Len(Codes(f, n)) = n
         /\ Head(Codes(f, n)) = [id |-> f, cell |-> CellOf(f)]
         /\ Tail(Codes(f, n)) = Codes(f + 1, n - 1)
         /\ Len(Codes(f + 1, n - 1)) = n - 1
<1> DEFINE s == Codes(f, n)
           t == Codes(f + 1, n - 1)
<1>1. s = [i \in 1 .. n |-> [id |-> f + i - 1, cell |-> CellOf(f + i - 1)]]
  BY DEF Codes
<1>2. n >= 1
  <2>1. n = 0 => s = <<>>
    BY <1>1
  <2>2. QED
    BY <2>1
<1>3. t = [i \in 1 .. n - 1 |-> [id |-> (f + 1) + i - 1, cell |-> CellOf((f + 1) + i - 1)]]
  BY DEF Codes
<1> HIDE DEF s, t
<1>4. Len(s) = n /\ n - 1 \in Nat /\ Len(t) = n - 1
  BY <1>1, <1>2, <1>3
<1>5. 1 \in 1 .. n /\ f + 1 - 1 = f
  BY <1>2
<1>6. Head(s) = [id |-> f, cell |-> CellOf(f)]
  <2>1. Head(s) = s[1]
    BY <1>1, <1>5
  <2>2. QED
    BY <1>1, <1>5, <2>1
<1>7. Tail(s) = t
  <2>1. Tail(s) = [i \in 1 .. n - 1 |-> s[i + 1]]
    BY <1>1, <1>4
  <2>2. ASSUME NEW i \in 1 .. n - 1
        PROVE  s[i + 1] = [id |-> (f + 1) + i - 1, cell |-> CellOf((f + 1) + i - 1)]
    <3>1. i + 1 \in 1 .. n /\ f + (i + 1) - 1 = (f + 1) + i - 1
      BY <1>2
    <3>2. QED
      BY <1>1, <3>1
  <2>3. QED
    BY <1>3, <2>1, <2>2
<1>8. QED
  BY <1>2, <1>4, <1>6, <1>7 DEF s, t

\* What a record offered leaves of the heap: the best, with it among them.
HeapAfter(c, h) ==
  \/ WouldAccept(c) /\ h = Push(c).heap
  \/ ~WouldAccept(c) /\ h = heap

\* Offered a candidate it has not seen, the heap keeps the best, and reports an eviction.
LEMMA OfferedGood ==
  ASSUME NEW S \in SUBSET Cands, TopOf(heap, S), NEW c \in Cands, c \notin S,
         NEW h, HeapAfter(c, h)
  PROVE  /\ TopOf(h, S \cup {c})
         /\ WouldAccept(c) => /\ Push(c).evicted \in Nat
                              /\ Len(h) + Push(c).evicted = Len(heap) + 1
<1>1. HeapGood(heap) /\ Len(heap) \in Nat /\ R \in Nat \ {0}
  BY HeapLen, DepthAssumption DEF TopOf
<1>2. CASE Len(heap) < R
  <2>1. WouldAccept(c)
    BY <1>1, <1>2 DEF WouldAccept
  <2>2. Push(c) = [heap |-> SiftUp(Append(heap, c), Len(heap) + 1), evicted |-> 0]
    BY <1>2 DEF Push
  <2>3. h = SiftUp(Append(heap, c), Len(heap) + 1) /\ Push(c).evicted = 0
    BY <2>1, <2>2 DEF HeapAfter
  <2>4. TopOf(h, S \cup {c})
    BY <1>2, <2>3, TopAdds
  <2>5. Len(h) = Len(heap) + 1
    <3>1. c \notin ToSet(heap)
      BY DEF TopOf
    <3>2. HeapTook(heap, c, SiftUp(Append(heap, c), Len(heap) + 1))
      BY <1>1, <3>1, SiftUpGood
    <3>3. QED
      BY <2>3, <3>2 DEF HeapTook
  <2>6. QED
    BY <1>1, <2>3, <2>4, <2>5
<1>3. CASE Len(heap) >= R /\ WorseThan(heap[1], c)
  <2>1. WouldAccept(c) /\ ~(Len(heap) < R)
    BY <1>1, <1>3 DEF WouldAccept
  <2>2. Push(c) = [heap |-> SiftDown([heap EXCEPT ![1] = c]), evicted |-> 1]
    BY <2>1 DEF Push
  <2>3. h = SiftDown([heap EXCEPT ![1] = c]) /\ Push(c).evicted = 1
    BY <2>1, <2>2 DEF HeapAfter
  <2>4. TopOf(h, S \cup {c})
    BY <1>3, <2>3, TopEvicts
  <2>5. Len(h) = Len(heap)
    <3>1. c \notin ToSet(heap) /\ Len(heap) >= 1
      BY <1>1, <1>3 DEF TopOf
    <3>2. RootReplaced(heap, c, SiftDown([heap EXCEPT ![1] = c]))
      BY <1>1, <3>1, ReplaceRootGood
    <3>3. QED
      BY <2>3, <3>2 DEF RootReplaced
  <2>6. QED
    BY <1>1, <2>3, <2>4, <2>5
<1>4. CASE Len(heap) >= R /\ ~WorseThan(heap[1], c)
  <2>1. ~WouldAccept(c)
    BY <1>4 DEF WouldAccept
  <2>2. QED
    BY <1>4, <2>1, TopRejects DEF HeapAfter
<1>5. QED
  BY <1>1, <1>2, <1>3, <1>4

\* t is r with one more offered, and a more evicted.
OneMore(r, a, t) ==
  /\ t \in StatsRecord /\ t.scanned = r.scanned
  /\ t.offered = r.offered + 1 /\ t.evicted = r.evicted + a
  /\ t.candidates = r.candidates /\ t.dropped = r.dropped

\* The counters after an offer.
LEMMA OfferCounted ==
  ASSUME NEW r \in StatsRecord, NEW a \in Nat, NEW t,
         t = [r EXCEPT !.offered = @ + 1, !.evicted = @ + a]
  PROVE  OneMore(r, a, t)
<1>1. r.offered \in Nat /\ r.evicted \in Nat
  BY DEF StatsRecord
<1>2. r.offered + 1 \in Nat /\ r.evicted + a \in Nat
  BY <1>1
<1>3. t = [r EXCEPT !.offered = r.offered + 1, !.evicted = r.evicted + a]
  BY DEF StatsRecord
<1>4. /\ t.scanned = r.scanned
      /\ t.offered = r.offered + 1 /\ t.evicted = r.evicted + a
      /\ t.candidates = r.candidates /\ t.dropped = r.dropped
  BY <1>3 DEF StatsRecord
<1>5. t \in StatsRecord
  BY <1>2, <1>3 DEF StatsRecord
<1>6. QED
  BY <1>4, <1>5 DEF OneMore

\* A record scored and offered: the frontier moves by one id.
LEMMA OfferGood == QueryInv /\ Offer => QueryInv'
<1> SUFFICES ASSUME QueryInv, Offer PROVE QueryInv'
  OBVIOUS
<1>1. /\ pc = "scan" /\ run # <<>> /\ run' = Tail(run)
      /\ volume' = volume /\ pc' = pc /\ survivors' = survivors
      /\ nextBlock' = nextBlock /\ held' = held /\ buf' = buf
  BY DEF Offer, reader
<1>2. ReaderInv /\ volume \in Volumes
  BY DEF QueryInv, ReaderInv
<1>3. PICK f \in Nat : ScanAt(f)
  BY DEF QueryInv
<1>4. PICK n \in Nat : run = Codes(f, n)
  BY <1>3 DEF ScanAt
<1>5. /\ n >= 1 /\ Len(run) = n /\ Head(run) = [id |-> f, cell |-> CellOf(f)]
      /\ run' = Codes(f + 1, n - 1) /\ Len(run') = n - 1
  BY <1>1, <1>4, CodesNext
<1>6. PerBlock \in Nat \ {0} /\ FirstId(nextBlock) \in Nat
  <2>1. nextBlock \in Nat
    BY <1>2, BlocksHold DEF ReaderInv
  <2>2. QED
    BY <2>1, GeometryAssumption DEF FirstId
<1>7. /\ f + n <= FirstId(nextBlock)
      /\ \A id \in f .. FirstId(nextBlock) - 1 : id \in HeldIds <=> id < f + n
      /\ ScoredTo(scored, f)
  BY <1>3, <1>5 DEF ScanAt
<1>8. f \in HeldIds
  <2>1. f \in f .. FirstId(nextBlock) - 1 /\ f < f + n
    BY <1>5, <1>6, <1>7
  <2>2. QED
    BY <1>7, <2>1
<1>9. PICK pair \in Scores(CellOf(f)) :
        LET c == Candidate(pair[1], f)
            seen == [stats EXCEPT !.scanned = @ + 1]
        IN /\ scored' = With(scored, CellOf(f), pair[1])
           /\ clean' = With(clean, CellOf(f), pair[2])
           /\ \/ /\ WouldAccept(c)
                 /\ heap' = Push(c).heap
                 /\ stats' = [seen EXCEPT !.offered = @ + 1,
                                          !.evicted = @ + Push(c).evicted]
              \/ /\ ~WouldAccept(c)
                 /\ stats' = seen
                 /\ UNCHANGED heap
  <2>1. Head(run).id = f /\ Head(run).cell = CellOf(f)
    BY <1>5
  <2>2. QED
    BY <2>1 DEF Offer
<1> DEFINE s == pair[1]
           c == Candidate(s, f)
           cell == CellOf(f)
<1>10. SeenMore(scored, f, s)
  BY <1>2, <1>7, <1>8, SeenGrows
<1>11. cell \notin DOMAIN scored /\ ScoredTo(scored', f + 1)
       /\ c \notin Seen(scored) /\ Seen(scored') = Seen(scored) \cup {c}
  BY <1>9, <1>10 DEF SeenMore
<1>12. pair \in Score \X Score
  BY <1>9, <1>11 DEF Scores
<1>13. s \in Score /\ s \in Int /\ pair[2] \in Score
  BY <1>12, ScoreAssumption
<1>14. c \in Cands
  BY <1>13 DEF Candidate, Cands
<1>15. ScoredInv /\ CountsInv /\ TopOf(heap, Seen(scored))
  BY <1>1 DEF QueryInv
<1>16. Seen(scored) \in SUBSET Cands
  BY <1>2, <1>15, SeenType DEF ScoredInv
<1>17. HeapAfter(c, heap')
  BY <1>9 DEF HeapAfter
<1>18. /\ TopOf(heap', Seen(scored) \cup {c})
       /\ WouldAccept(c) => /\ Push(c).evicted \in Nat
                            /\ Len(heap') + Push(c).evicted = Len(heap) + 1
  <2> HIDE DEF c
  <2>1. QED
    BY <1>11, <1>14, <1>15, <1>16, <1>17, OfferedGood
<1>19. HeldIds' = HeldIds /\ Blocks' = Blocks
  BY <1>1 DEF HeldIds, Ids, Blocks
<1>20. ReaderInv'
  BY <1>1, <1>2, <1>19 DEF ReaderInv
<1>21. ScanAt(f + 1)'
  <2>1. ScoredTo(scored, f + 1)'
    BY <1>11, <1>19 DEF ScoredTo, Passed
  <2>2. f + 1 + Len(run') <= FirstId(nextBlock')
    BY <1>1, <1>5, <1>6, <1>7
  <2>3. ASSUME NEW id \in f + 1 .. FirstId(nextBlock') - 1
        PROVE  id \in HeldIds' <=> id < f + 1 + Len(run')
    <3>1. id \in f .. FirstId(nextBlock) - 1 /\ f + 1 + Len(run') = f + n
      BY <1>1, <1>5, <1>6, <2>3
    <3>2. QED
      BY <1>7, <1>19, <3>1
  <2>4. n - 1 \in Nat
    BY <1>5
  <2>5. QED
    BY <1>5, <2>1, <2>2, <2>3, <2>4 DEF ScanAt
<1>22. ScoredInv'
  <2>1. /\ \A x \in DOMAIN scored : scored[x] \in Score
        /\ DOMAIN clean = DOMAIN scored /\ \A x \in DOMAIN clean : clean[x] \in Score
    BY <1>1, <1>15 DEF ScoredInv
  <2>2. /\ DOMAIN scored' = DOMAIN scored \cup {cell} /\ DOMAIN clean' = DOMAIN clean \cup {cell}
        /\ \A x \in DOMAIN scored' : scored'[x] = IF x = cell THEN s ELSE scored[x]
        /\ \A x \in DOMAIN clean' : clean'[x] = IF x = cell THEN pair[2] ELSE clean[x]
    BY <1>9 DEF With
  <2> HIDE DEF cell
  <2>3. QED
    BY <1>1, <1>13, <2>1, <2>2 DEF ScoredInv
<1>23. Seen(scored)' = Seen(scored) \cup {c}
  <2>1. Seen(scored)' = Seen(scored')
    BY <1>19 DEF Seen
  <2>2. QED
    BY <1>11, <2>1
<1>24. Cardinality(DOMAIN scored') = Cardinality(DOMAIN scored) + 1
  <2>1. DOMAIN scored' = DOMAIN scored \cup {cell}
    BY <1>9 DEF With
  <2>2. IsFiniteSet(DOMAIN scored)
    BY <1>2, <1>7, ScoredFinite
  <2>3. QED
    BY <1>11, <2>1, <2>2, FS_AddElement
<1>25. CountsInv'
  <2>1. /\ stats \in StatsRecord /\ stats.scanned = Cardinality(DOMAIN scored)
        /\ survivors \in Seq(Cands) /\ stats.candidates = stats.dropped + Len(survivors)
        /\ stats.offered = stats.evicted + Len(heap) /\ stats.candidates = 0
    BY <1>1, <1>15 DEF CountsInv
  <2>2. Len(heap) \in Nat /\ Len(heap') \in Nat
    BY <1>15, <1>18, HeapLen DEF TopOf
  <2>3. CASE WouldAccept(c)
    <3> DEFINE seen == [stats EXCEPT !.scanned = @ + 1]
    <3>1. PICK ev \in Nat : /\ stats' = [seen EXCEPT !.offered = @ + 1, !.evicted = @ + ev]
                             /\ Len(heap') + ev = Len(heap) + 1
      BY <1>9, <1>18, <2>3
    <3>2. /\ seen \in StatsRecord /\ seen.scanned = stats.scanned + 1
          /\ seen.offered = stats.offered /\ seen.evicted = stats.evicted
          /\ seen.candidates = stats.candidates /\ seen.dropped = stats.dropped
      <4>1. stats.scanned + 1 \in Nat /\ seen = [stats EXCEPT !.scanned = stats.scanned + 1]
        BY <2>1 DEF StatsRecord
      <4> HIDE DEF seen
      <4>2. seen \in StatsRecord
        BY <2>1, <4>1 DEF StatsRecord
      <4>3. QED
        BY <2>1, <4>1, <4>2 DEF StatsRecord
    <3> HIDE DEF seen
    <3>3. OneMore(seen, ev, stats')
      BY <3>1, <3>2, OfferCounted
    <3>4. stats.evicted \in Nat /\ stats.offered \in Nat
      BY <2>1 DEF StatsRecord
    <3>5. stats'.offered = stats'.evicted + Len(heap')
      BY <2>1, <2>2, <3>1, <3>2, <3>3, <3>4 DEF OneMore
    <3>6. QED
      BY <1>1, <1>24, <2>1, <3>2, <3>3, <3>5 DEF CountsInv, OneMore
  <2>4. CASE ~WouldAccept(c)
    <3>1. stats' = [stats EXCEPT !.scanned = @ + 1] /\ heap' = heap
      BY <1>9, <2>4
    <3>2. /\ stats' \in StatsRecord /\ stats'.scanned = stats.scanned + 1
          /\ stats'.offered = stats.offered /\ stats'.evicted = stats.evicted
          /\ stats'.candidates = stats.candidates /\ stats'.dropped = stats.dropped
      <4>1. /\ stats.scanned + 1 \in Nat /\ stats \in StatsRecord
            /\ stats' = [stats EXCEPT !.scanned = stats.scanned + 1]
        BY <2>1, <3>1 DEF StatsRecord
      <4>2. stats' \in StatsRecord
        BY <4>1 DEF StatsRecord
      <4>3. QED
        BY <4>1, <4>2 DEF StatsRecord
    <3>3. QED
      BY <1>1, <1>24, <2>1, <3>1, <3>2 DEF CountsInv
  <2>5. QED
    BY <2>3, <2>4
<1>26. TopOf(heap, Seen(scored))'
  BY <1>18, <1>23
<1>27. f + 1 \in Nat
  OBVIOUS
<1>28. QED
  BY <1>1, <1>20, <1>21, <1>22, <1>25, <1>26, <1>27 DEF QueryInv

---------------------------------------------------------------------------
(***************************************************************************)
(* Steps after the scan.                                                   *)
(***************************************************************************)

\* Once no block is left to serve, every held id is scored.
LEMMA AllScored ==
  ASSUME ReaderInv, NEW f \in Nat, ScanAt(f), run = <<>>,
         ~\E block \in 0 .. Blocks - 1 : Served(block)
  PROVE  \A id \in HeldIds : CellOf(id) \in DOMAIN scored
<1>1. volume \in Volumes /\ Blocks \in Nat /\ PerBlock \in Nat \ {0}
      /\ nextBlock \in 0 .. Blocks /\ nextBlock \in Nat
  BY BlocksHold, GeometryAssumption DEF ReaderInv
<1> DEFINE Bad == {b \in nextBlock .. Blocks - 1 : ~InGap(b)}
<1>2. Bad = {}
  <2> SUFFICES ASSUME Bad # {} PROVE FALSE
    OBVIOUS
  <2>1. Bad \in SUBSET Nat
    BY <1>1
  <2>2. PICK b \in Bad : \A k \in Bad : b <= k
    <3> HIDE DEF Bad
    <3>1. QED
      BY <2>1, LeastNat
  <2>3. b \in 0 .. Blocks - 1 /\ nextBlock <= b /\ b < Blocks /\ ~InGap(b)
    BY <1>1, <2>2
  <2>4. ASSUME NEW k \in nextBlock .. b - 1 PROVE InGap(k)
    <3>1. k \in nextBlock .. Blocks - 1 /\ ~(b <= k)
      BY <1>1, <2>3, <2>4
    <3>2. QED
      BY <2>2, <3>1
  <2>5. Served(b)
    BY <2>3, <2>4 DEF Served
  <2>6. QED
    BY <2>3, <2>5
<1>3. \A b \in nextBlock .. Blocks - 1 : InGap(b)
  BY <1>2
<1>4. \A id \in FirstId(nextBlock) .. FirstId(Blocks) - 1 : id \notin HeldIds
  <2>1. Blocks \in 0 .. Blocks
    BY <1>1
  <2>2. QED
    BY <1>1, <1>3, <2>1, PassedOver
<1>5. FirstId(nextBlock) \in Nat /\ FirstId(Blocks) \in Nat
  BY <1>1 DEF FirstId
<1>6. f <= FirstId(nextBlock) /\ \A id \in f .. FirstId(nextBlock) - 1 : id \notin HeldIds
  <2>1. Len(run) = 0
    OBVIOUS
  <2>2. /\ f + 0 <= FirstId(nextBlock)
        /\ \A id \in f .. FirstId(nextBlock) - 1 : id \in HeldIds <=> id < f + 0
    BY <2>1 DEF ScanAt
  <2>3. QED
    BY <1>5, <2>2
<1>7. ASSUME NEW id \in HeldIds PROVE id \in Passed(f)
  <2>1. id \in Nat /\ id < volume.n /\ volume.n <= FirstId(Blocks) /\ volume.n \in Nat
    <3>1. volume.n <= FirstId(Blocks) /\ volume.n \in Nat
      BY <1>1, BlocksHold, VolumeIs
    <3>2. id \in 0 .. volume.n - 1
      BY <1>7 DEF HeldIds, Ids
    <3>3. QED
      BY <3>1, <3>2
  <2>2. ~(f <= id /\ id < FirstId(nextBlock)) /\ ~(FirstId(nextBlock) <= id /\ id < FirstId(Blocks))
    BY <1>4, <1>5, <1>6, <2>1
  <2>3. id < f
    BY <1>5, <1>6, <2>1, <2>2
  <2>4. QED
    BY <2>3 DEF Passed
<1>8. ScoredTo(scored, f)
  BY DEF ScanAt
<1>9. QED
  BY <1>1, <1>7, <1>8, ScoredIsPassed

\* The slots are the heap, best first.
LEMMA DrainSlots ==
  ASSUME QueryInv, Drain
  PROVE  SlotsInv' /\ SurvivorsInv'
<1>1. /\ pc = "scan" /\ slots' = DrainSorted(heap)
      /\ volume' = volume /\ survivors' = survivors /\ stats' = stats /\ scored' = scored
  BY DEF Drain
<1>2. /\ TopOf(heap, Seen(scored)) /\ volume \in Volumes
      /\ \A x \in DOMAIN scored : scored[x] \in Score
      /\ stats.offered = stats.evicted + Len(heap) /\ stats.candidates = 0
      /\ stats.candidates = stats.dropped + Len(survivors)
      /\ survivors \in Seq(Cands) /\ stats \in StatsRecord
  BY <1>1 DEF QueryInv, ReaderInv, ScoredInv, CountsInv
<1>3. HeapGood(heap) /\ Len(heap) \in Nat
  BY <1>2, HeapLen DEF TopOf
<1>4. /\ slots' \in Seq(Cands) /\ Len(slots') = Len(heap) /\ Descending(slots')
      /\ \A c : c \in ToSet(slots') <=> c \in ToSet(heap)
  BY <1>1, <1>3, DrainGood
<1>5. Inj(slots', 1 .. Len(slots'))
  BY <1>4, DescendingInj
<1>6. ToSet(heap) = Best(Seen(scored))
  <2>1. Seen(scored) \in SUBSET Cands /\ IsFiniteSet(Seen(scored))
    BY <1>2, SeenType
  <2>2. QED
    BY <1>2, <2>1, TopIsBest
<1>7. ToSet(slots') = Best(Seen(scored))
  BY <1>4, <1>6
<1>8. Best(Seen(scored))' = Best(Seen(scored))
  <2>1. Seen(scored)' = Seen(scored)
    BY <1>1, SeenSame DEF SameScored, SeenKept
  <2>2. QED
    BY <2>1 DEF Best, Better
<1>9. SlotsInv'
  <2>1. stats'.candidates <= Len(slots') /\ stats'.offered = stats'.evicted + Len(slots')
    BY <1>1, <1>2, <1>3, <1>4
  <2>2. QED
    BY <1>4, <1>5, <1>7, <1>8, <2>1 DEF SlotsInv
<1>10. SurvivorsInv'
  <2>1. Len(survivors) = 0
    BY <1>2 DEF StatsRecord
  <2>2. QED
    BY <1>1, <2>1 DEF SurvivorsInv
<1>11. QED
  BY <1>9, <1>10

\* The heap drained.
LEMMA DrainKeeps == QueryInv /\ Drain => QueryInv'
<1> SUFFICES ASSUME QueryInv, Drain PROVE QueryInv'
  OBVIOUS
<1>1. /\ pc = "scan" /\ run = <<>> /\ pc' = "rerank"
      /\ ~\E block \in 0 .. Blocks - 1 : Served(block)
      /\ UNCHANGED <<volume, reader, run, survivors, stats, scored>>
  BY DEF Drain
<1>2. ReaderInv' /\ \E f \in Nat : ScanAt(f)'
  BY <1>1, ReaderStays DEF SameScored
<1>3. HeldIds' = HeldIds
  BY <1>1, SeenSame DEF SameScored
<1>4. \A id \in HeldIds : CellOf(id) \in DOMAIN scored
  BY <1>1, AllScored DEF QueryInv
<1>5. ScoredInv'
  BY <1>1, <1>3, <1>4 DEF QueryInv, ScoredInv
<1>6. CountsInv'
  BY <1>1 DEF QueryInv, CountsInv
<1>7. SlotsInv' /\ SurvivorsInv'
  BY DrainSlots
<1>8. QED
  BY <1>1, <1>2, <1>5, <1>6, <1>7 DEF QueryInv

\* An id is seen once.
LEMMA SeenById ==
  ASSUME NEW g, NEW a \in Seen(g), NEW b \in Seen(g), a.id = b.id
  PROVE  a = b
<1>1. PICK i \in HeldIds : a = Candidate(g[CellOf(i)], i)
  BY DEF Seen
<1>2. PICK j \in HeldIds : b = Candidate(g[CellOf(j)], j)
  BY DEF Seen
<1>3. a.id = i /\ b.id = j
  BY <1>1, <1>2 DEF Candidate
<1>4. QED
  BY <1>1, <1>2, <1>3

\* An id is in one slot.
LEMMA SlotIds ==
  ASSUME SlotsInv, NEW j \in 1 .. Len(slots), NEW k \in 1 .. Len(slots),
         slots[j].id = slots[k].id
  PROVE  j = k
<1>1. slots \in Seq(Cands) /\ Inj(slots, 1 .. Len(slots)) /\ ToSet(slots) = Best(Seen(scored))
  BY DEF SlotsInv
<1>2. slots[j] \in ToSet(slots) /\ slots[k] \in ToSet(slots)
  BY <1>1 DEF ToSet
<1>3. slots[j] \in Seen(scored) /\ slots[k] \in Seen(scored)
  BY <1>1, <1>2 DEF Best
<1>4. slots[j] = slots[k]
  BY <1>3, SeenById
<1>5. QED
  BY <1>1, <1>4 DEF Inj

\* A record is rescored into r, or dropped.
LEMMA RescoredGood ==
  ASSUME SlotsInv, SurvivorsInv, survivors \in Seq(Cands), NEW d \in Nat,
         stats.candidates = d, d < Len(slots), NEW exact \in Exact,
         survivors' = Append(survivors, Candidate(exact, slots[d + 1].id)),
         stats'.candidates = d + 1, slots' = slots
  PROVE  SurvivorsInv' /\ survivors' \in Seq(Cands) /\ Len(survivors') = Len(survivors) + 1
<1> DEFINE n == Len(survivors)
           r == Candidate(exact, slots[d + 1].id)
<1>1. n \in Nat /\ slots \in Seq(Cands) /\ Len(slots) \in Nat
  BY DEF SlotsInv
<1>2. d + 1 \in 1 .. Len(slots) /\ slots[d + 1] \in Cands
  BY <1>1
<1>3. r.id = slots[d + 1].id /\ r \in Cands
  BY <1>2, ScoreAssumption DEF Candidate, Cands
<1> HIDE DEF r
<1>4. /\ survivors' \in Seq(Cands) /\ Len(survivors') = n + 1 /\ survivors'[n + 1] = r
      /\ \A i \in 1 .. n : survivors'[i] = survivors[i]
  BY <1>1, <1>3 DEF r
<1>5. \A i \in 1 .. n : \E j \in 1 .. d : survivors[i].id = slots[j].id
  BY DEF SurvivorsInv
<1>6. ASSUME NEW i \in 1 .. n PROVE survivors[i].id # r.id
  <2>1. PICK j \in 1 .. d : survivors[i].id = slots[j].id
    BY <1>5
  <2>2. j \in 1 .. Len(slots) /\ j # d + 1
    BY <1>1
  <2>3. slots[j].id # slots[d + 1].id
    BY <1>2, <2>2, SlotIds
  <2>4. QED
    BY <1>3, <2>1, <2>3
<1>7. \A i \in 1 .. n + 1 : i \in 1 .. n \/ i = n + 1
  BY <1>1
<1>8. \A j \in 1 .. d : j \in 1 .. d + 1
  OBVIOUS
<1>9. d + 1 \in 1 .. d + 1
  OBVIOUS
<1>10. ASSUME NEW i \in 1 .. n + 1 PROVE \E j \in 1 .. d + 1 : survivors'[i].id = slots[j].id
  <2>1. CASE i \in 1 .. n
    BY <2>1, <1>4, <1>5, <1>8
  <2>2. CASE i = n + 1
    BY <2>2, <1>3, <1>4, <1>9
  <2>3. QED
    BY <2>1, <2>2, <1>7
<1>11. ASSUME NEW i \in 1 .. n + 1, NEW j \in 1 .. n + 1, survivors'[i].id = survivors'[j].id
       PROVE  i = j
  <2>1. \A k \in 1 .. n : \A m \in 1 .. n : survivors[k].id = survivors[m].id => k = m
    BY DEF SurvivorsInv
  <2>2. QED
    BY <1>4, <1>6, <1>7, <1>11, <2>1
<1>12. SurvivorsInv'
  BY <1>4, <1>10, <1>11 DEF SurvivorsInv
<1>13. QED
  BY <1>4, <1>12

\* A candidate rescored or dropped.
LEMMA RescoreGood == QueryInv /\ Rescore => QueryInv'
<1> SUFFICES ASSUME QueryInv, Rescore PROVE QueryInv'
  OBVIOUS
<1>1. /\ pc = "rerank" /\ stats.candidates < Len(slots)
      /\ UNCHANGED <<volume, pc, reader, run, heap, slots, out, history>>
  BY DEF Rescore
<1>2. scored' = scored /\ clean' = clean /\ slots' = slots /\ pc' = pc /\ heap' = heap
      /\ volume' = volume
  BY <1>1 DEF history
<1>3. /\ ReaderInv /\ ScoredInv /\ CountsInv /\ SlotsInv /\ SurvivorsInv
      /\ stats \in StatsRecord /\ survivors \in Seq(Cands)
      /\ stats.candidates = stats.dropped + Len(survivors)
      /\ stats.offered = stats.evicted + Len(slots) /\ slots \in Seq(Cands)
  BY <1>1 DEF QueryInv, CountsInv, SlotsInv
<1> DEFINE d == stats.candidates
           seen == [stats EXCEPT !.candidates = @ + 1]
<1>4. d \in Nat /\ stats.dropped \in Nat /\ Len(survivors) \in Nat /\ Len(slots) \in Nat
  BY <1>3 DEF StatsRecord
<1>5. /\ seen \in StatsRecord /\ seen.candidates = d + 1 /\ seen.dropped = stats.dropped
      /\ seen.offered = stats.offered /\ seen.evicted = stats.evicted
      /\ seen.scanned = stats.scanned
  <2>1. seen = [stats EXCEPT !.candidates = d + 1] /\ d + 1 \in Nat /\ stats \in StatsRecord
    BY <1>3, <1>4
  <2> HIDE DEF d, seen
  <2>2. seen \in StatsRecord
    BY <2>1 DEF StatsRecord
  <2>3. seen.candidates = d + 1
    BY <2>1 DEF StatsRecord
  <2>4. QED
    BY <2>1, <2>2, <2>3 DEF StatsRecord
<1>6. \/ /\ \E exact \in Exact : survivors' = Append(survivors, Candidate(exact, slots[d + 1].id))
         /\ stats' = seen
      \/ /\ stats' = [seen EXCEPT !.dropped = @ + 1]
         /\ survivors' = survivors
  BY DEF Rescore
<1> HIDE DEF seen
<1>7. /\ stats' \in StatsRecord /\ stats'.candidates = d + 1
      /\ stats'.offered = stats.offered /\ stats'.evicted = stats.evicted
      /\ stats'.scanned = stats.scanned
      /\ survivors' \in Seq(Cands) /\ SurvivorsInv'
      /\ stats'.candidates = stats'.dropped + Len(survivors')
  <2>1. CASE /\ \E exact \in Exact :
                  survivors' = Append(survivors, Candidate(exact, slots[d + 1].id))
             /\ stats' = seen
    <3>1. PICK exact \in Exact : survivors' = Append(survivors, Candidate(exact, slots[d + 1].id))
      BY <2>1
    <3>2. stats'.candidates = d + 1
      BY <2>1, <1>5
    <3>3. SurvivorsInv' /\ survivors' \in Seq(Cands) /\ Len(survivors') = Len(survivors) + 1
      BY <1>1, <1>2, <1>3, <1>4, <3>1, <3>2, RescoredGood
    <3>4. stats'.candidates = stats'.dropped + Len(survivors')
      <4>1. stats'.dropped = stats.dropped /\ d = stats.dropped + Len(survivors)
        BY <1>3, <1>5, <2>1
      <4>2. d + 1 = stats.dropped + (Len(survivors) + 1)
        BY <1>4, <4>1
      <4>3. QED
        BY <3>2, <3>3, <4>1, <4>2
    <3>5. QED
      BY <1>5, <2>1, <3>3, <3>4
  <2>2. CASE stats' = [seen EXCEPT !.dropped = @ + 1] /\ survivors' = survivors
    <3>1. /\ stats' \in StatsRecord /\ stats'.candidates = d + 1
          /\ stats'.dropped = stats.dropped + 1
          /\ stats'.offered = stats.offered /\ stats'.evicted = stats.evicted
          /\ stats'.scanned = stats.scanned
      <4>1. stats' = [seen EXCEPT !.dropped = stats.dropped + 1] /\ stats.dropped + 1 \in Nat
        BY <1>4, <1>5, <2>2
      <4>2. stats' \in StatsRecord
        BY <1>5, <4>1 DEF StatsRecord
      <4>3. QED
        BY <1>5, <4>1, <4>2 DEF StatsRecord
    <3>2. SurvivorsInv'
      <4>1. \A j \in 1 .. d : j \in 1 .. d + 1
        BY <1>4
      <4>2. QED
        BY <1>2, <1>3, <2>2, <3>1, <4>1 DEF SurvivorsInv
    <3>3. QED
      BY <1>3, <1>4, <2>2, <3>1, <3>2
  <2>3. QED
    BY <1>6, <2>1, <2>2
<1>8. ReaderInv' /\ \E f \in Nat : ScanAt(f)'
  BY <1>1, <1>2, ReaderStays DEF SameScored
<1>9. ScoredInv'
  <2>1. HeldIds' = HeldIds
    BY <1>2, SeenSame DEF SameScored
  <2>2. QED
    BY <1>2, <1>3, <2>1 DEF ScoredInv
<1>10. CountsInv'
  BY <1>1, <1>2, <1>3, <1>7 DEF CountsInv
<1>11. SlotsInv'
  <2>1. Seen(scored)' = Seen(scored)
    BY <1>2, SeenSame DEF SameScored, SeenKept
  <2>2. Best(Seen(scored))' = Best(Seen(scored))
    BY <2>1 DEF Best, Better
  <2>3. stats'.candidates <= Len(slots)
    BY <1>1, <1>4, <1>7
  <2>4. QED
    BY <1>2, <1>3, <1>7, <2>2, <2>3 DEF SlotsInv
<1>12. QED
  BY <1>1, <1>2, <1>7, <1>8, <1>9, <1>10, <1>11 DEF QueryInv

\* The answer cut from the survivors.
LEMMA FinalizeGood == QueryInv /\ Finalize => QueryInv'
<1> SUFFICES ASSUME QueryInv, Finalize PROVE QueryInv'
  OBVIOUS
<1>1. /\ pc = "rerank" /\ pc' = "done" /\ stats.candidates = Len(slots)
      /\ out' = SubSeq(SortDesc(survivors), 1, Lesser(K, Len(survivors)))
      /\ stats' = [stats EXCEPT !.returned = Lesser(K, Len(survivors))]
      /\ UNCHANGED <<volume, reader, run, heap, slots, survivors, history>>
  BY DEF Finalize
<1>2. scored' = scored /\ clean' = clean /\ slots' = slots /\ survivors' = survivors
      /\ volume' = volume
  BY <1>1 DEF history
<1>3. /\ ScoredInv /\ CountsInv /\ SlotsInv /\ SurvivorsInv /\ stats \in StatsRecord
      /\ survivors \in Seq(Cands)
  BY <1>1 DEF QueryInv, CountsInv
<1>4. Lesser(K, Len(survivors)) \in Nat
  BY <1>3, DepthAssumption DEF Lesser
<1>5. /\ stats' \in StatsRecord /\ stats'.candidates = stats.candidates
      /\ stats'.dropped = stats.dropped /\ stats'.offered = stats.offered
      /\ stats'.evicted = stats.evicted /\ stats'.scanned = stats.scanned
  BY <1>1, <1>3, <1>4 DEF StatsRecord
<1>6. ReaderInv' /\ \E f \in Nat : ScanAt(f)'
  BY <1>1, <1>2, ReaderStays DEF SameScored
<1>7. ScoredInv'
  <2>1. HeldIds' = HeldIds
    BY <1>2, SeenSame DEF SameScored
  <2>2. QED
    BY <1>1, <1>2, <1>3, <2>1 DEF ScoredInv
<1>8. CountsInv'
  BY <1>1, <1>2, <1>3, <1>5 DEF CountsInv
<1>9. SlotsInv' /\ SurvivorsInv'
  <2>1. Seen(scored)' = Seen(scored)
    BY <1>2, SeenSame DEF SameScored, SeenKept
  <2>2. Best(Seen(scored))' = Best(Seen(scored))
    BY <2>1 DEF Best, Better
  <2>3. QED
    BY <1>2, <1>3, <1>5, <2>2 DEF SlotsInv, SurvivorsInv
<1>10. DoneInv'
  BY <1>1, <1>2, <1>5 DEF DoneInv
<1>11. QED
  BY <1>1, <1>6, <1>7, <1>8, <1>9, <1>10 DEF QueryInv

---------------------------------------------------------------------------
(***************************************************************************)
(* The invariant, and what follows from it.                                *)
(***************************************************************************)

\* Every step.
LEMMA QueryStep == QueryInv /\ [Next]_vars => QueryInv'
<1> SUFFICES ASSUME QueryInv, [Next]_vars PROVE QueryInv'
  OBVIOUS
<1>1. CASE NextRun
  BY <1>1, NextRunGood
<1>2. CASE Offer
  BY <1>2, OfferGood
<1>3. CASE ReadFails
  BY <1>3, ReadFailsGood
<1>4. CASE Drain
  BY <1>4, DrainKeeps
<1>5. CASE Rescore
  BY <1>5, RescoreGood
<1>6. CASE Finalize
  BY <1>6, FinalizeGood
<1>7. CASE UNCHANGED vars
  <2>1. /\ UNCHANGED <<reader, run>> /\ SameScored /\ pc' = pc /\ heap' = heap /\ slots' = slots
        /\ survivors' = survivors /\ out' = out /\ stats' = stats /\ clean' = clean
        /\ scored' = scored
    BY <1>7 DEF vars, history, SameScored
  <2>2. ReaderInv' /\ \E f \in Nat : ScanAt(f)'
    <3>1. pc \in {"scan", "rerank", "failed", "done"}
      BY DEF QueryInv, ReaderInv
    <3>2. QED
      BY <2>1, <3>1, ReaderStays
  <2>3. HeldIds' = HeldIds /\ Seen(scored)' = Seen(scored)
    BY <2>1, SeenSame DEF SeenKept
  <2>4. Best(Seen(scored))' = Best(Seen(scored))
    BY <2>3 DEF Best, Better
  <2>5. ScoredInv'
    BY <2>1, <2>3 DEF QueryInv, ScoredInv
  <2>6. CountsInv'
    BY <2>1 DEF QueryInv, CountsInv
  <2>7. pc' = "scan" => TopOf(heap, Seen(scored))'
    BY <2>1, <2>3 DEF QueryInv
  <2>8. pc' \in {"rerank", "done"} => SlotsInv' /\ SurvivorsInv'
    BY <2>1, <2>4 DEF QueryInv, SlotsInv, SurvivorsInv
  <2>9. pc' = "done" => DoneInv'
    BY <2>1 DEF QueryInv, DoneInv
  <2>10. QED
    BY <2>2, <2>5, <2>6, <2>7, <2>8, <2>9 DEF QueryInv
<1>8. QED
  BY <1>1, <1>2, <1>3, <1>4, <1>5, <1>6, <1>7 DEF Next

\* The invariant holds of every query.
LEMMA QueryInvariant == Spec => []QueryInv
<1>1. QED
  BY QueryInit, QueryStep, PTL DEF Spec

\* The counters.
LEMMA InvCounts == QueryInv => StatsAgree
BY DEF QueryInv, CountsInv, SlotsInv, StatsAgree

\* The counters account for every candidate of every query: what was offered is
\* held or was evicted, and what was read back survived or was dropped
\* (query.rs, QueryStats; heap.rs, `offer`; rerank.rs, `rerank`).
THEOREM CountersAgree == Spec => []StatsAgree
<1>1. QED
  BY QueryInvariant, InvCounts, PTL

\* The heap.
LEMMA InvHeap == QueryInv => HeapKeepsBest
<1> SUFFICES ASSUME QueryInv, pc = "scan" PROVE ToSet(heap) = Best(Seen(scored))
  BY DEF HeapKeepsBest
<1>1. /\ TopOf(heap, Seen(scored)) /\ volume \in Volumes
      /\ \A x \in DOMAIN scored : scored[x] \in Score
  BY DEF QueryInv, ReaderInv, ScoredInv
<1>2. Seen(scored) \in SUBSET Cands /\ IsFiniteSet(Seen(scored))
  BY <1>1, SeenType
<1>3. QED
  BY <1>1, <1>2, TopIsBest

\* At every moment of the scan, of any volume and for every depth R, the heap
\* holds the best R of what was scanned, ties to the lower id (heap.rs).
THEOREM HeapHoldsBest == Spec => []HeapKeepsBest
<1>1. QED
  BY QueryInvariant, InvHeap, PTL

\* The scan.
LEMMA InvScan == QueryInv => ScansHeldOnce
<1> SUFFICES ASSUME QueryInv PROVE ScansHeldOnce
  OBVIOUS
<1>1. PICK f \in Nat : ScanAt(f)
  BY DEF QueryInv
<1>2. volume \in Volumes /\ stats.scanned = Cardinality(DOMAIN scored) /\ ScoredTo(scored, f)
  BY <1>1 DEF QueryInv, ReaderInv, CountsInv, ScanAt
<1>3. \A cell \in DOMAIN scored : \E id \in HeldIds : cell = CellOf(id)
  BY <1>2 DEF ScoredTo, Passed
<1>4. ASSUME pc \in {"rerank", "done"} PROVE Cardinality(DOMAIN scored) = Cardinality(HeldIds)
  <2> DEFINE F == [i \in HeldIds |-> CellOf(i)]
  <2>1. HeldIds \subseteq Nat /\ IsFiniteSet(HeldIds)
    BY <1>2, HeldIdsNat
  <2>2. \A id \in HeldIds : CellOf(id) \in DOMAIN scored
    BY <1>4 DEF QueryInv, ScoredInv
  <2>3. F \in [HeldIds -> DOMAIN scored]
    BY <2>2
  <2>4. \A a, b \in HeldIds : F[a] = F[b] => a = b
    <3>1. ASSUME NEW a \in HeldIds, NEW b \in HeldIds, F[a] = F[b] PROVE a = b
      <4>1. a \in Nat /\ b \in Nat /\ CellOf(a) = CellOf(b)
        BY <2>1, <3>1
      <4>2. QED
        BY <4>1, CellInjective
    <3>2. QED
      BY <3>1
  <2>5. \A y \in DOMAIN scored : \E a \in HeldIds : F[a] = y
    BY <1>3
  <2> HIDE DEF F
  <2>6. F \in Bijection(HeldIds, DOMAIN scored)
    BY <2>3, <2>4, <2>5 DEF Bijection, Injection, Surjection, IsInjective
  <2>7. QED
    BY <2>1, <2>6, FS_Bijection DEF ExistsBijection
<1>5. QED
  BY <1>2, <1>3, <1>4 DEF ScansHeldOnce

\* Whatever is built, appended and left as a gap, the scan scores every vector
\* the manifest holds once and from its own code, and no padding or code of the
\* gap (source.rs, `next_run`).
THEOREM EachVectorScannedOnce == Spec => []ScansHeldOnce
<1>1. QED
  BY QueryInvariant, InvScan, PTL

\* A set covered by two is no larger than both.
LEMMA SubsetBound ==
  ASSUME NEW A, NEW B, NEW C, IsFiniteSet(B), IsFiniteSet(C), A \subseteq B \cup C
  PROVE  Cardinality(A) \in Nat /\ Cardinality(A) <= Cardinality(B) + Cardinality(C)
<1>1. IsFiniteSet(B \cup C)
      /\ Cardinality(B \cup C) = Cardinality(B) + Cardinality(C) - Cardinality(B \cap C)
  BY FS_Union
<1>2. IsFiniteSet(B \cap C)
  BY FS_Subset
<1>3. Cardinality(B) \in Nat /\ Cardinality(C) \in Nat /\ Cardinality(B \cap C) \in Nat
      /\ Cardinality(B \cup C) \in Nat
  BY <1>1, <1>2, FS_CardinalityType
<1>4. IsFiniteSet(A) /\ Cardinality(A) <= Cardinality(B \cup C)
  BY <1>1, FS_Subset
<1>5. Cardinality(A) \in Nat
  BY <1>4, FS_CardinalityType
<1>6. QED
  BY <1>1, <1>3, <1>4, <1>5

\* A vector better placed than the room intruders leave is among the best.
LEMMA InvIncumbent == QueryInv => IncumbentSurvives
<1> SUFFICES ASSUME QueryInv, pc = "scan", NEW c \in Seen(clean), c.id \notin Intruders,
                    Cardinality(Better(Seen(clean), c)) + 1 + Cardinality(Intruders) <= R
             PROVE  c \in ToSet(heap)
  BY DEF IncumbentSurvives
<1>1. /\ volume \in Volumes /\ DOMAIN clean = DOMAIN scored
      /\ \A x \in DOMAIN scored : scored[x] \in Score
      /\ \A x \in DOMAIN clean : clean[x] \in Score
  BY DEF QueryInv, ReaderInv, ScoredInv
<1>2. ToSet(heap) = Best(Seen(scored))
  BY InvHeap DEF HeapKeepsBest
<1>3. PICK i \in HeldIds : CellOf(i) \in DOMAIN clean /\ c = Candidate(clean[CellOf(i)], i)
  BY DEF Seen
<1>4. c \in Seen(scored)
  <2>1. c.id = i
    BY <1>3 DEF Candidate
  <2>2. CellOf(i) \in DOMAIN scored /\ scored[CellOf(i)] = clean[CellOf(i)]
    BY <1>1, <1>3, <2>1 DEF Intruders
  <2>3. c = Candidate(scored[CellOf(i)], i)
    BY <1>3, <2>2
  <2>4. QED
    BY <2>2, <2>3 DEF Seen
<1> DEFINE F == [j \in Intruders |-> Candidate(scored[CellOf(j)], j)]
           T == {F[j] : j \in Intruders}
<1>5. IsFiniteSet(Intruders) /\ IsFiniteSet(T) /\ Cardinality(T) <= Cardinality(Intruders)
  <2>1. IsFiniteSet(Intruders)
    <3>1. IsFiniteSet(HeldIds) /\ Intruders \subseteq HeldIds
      BY <1>1, HeldIdsNat DEF Intruders
    <3>2. QED
      BY <3>1, FS_Subset
  <2>2. F \in Surjection(Intruders, T)
    <3>1. F \in [Intruders -> T] /\ \A y \in T : \E j \in Intruders : F[j] = y
      OBVIOUS
    <3> HIDE DEF F, T
    <3>2. QED
      BY <3>1 DEF Surjection
  <2> HIDE DEF F, T
  <2>3. QED
    BY <2>1, <2>2, FS_Surjection
<1>6. Better(Seen(scored), c) \subseteq Better(Seen(clean), c) \cup T
  <2> SUFFICES ASSUME NEW d \in Seen(scored), WorseThan(c, d), d \notin T
               PROVE  d \in Better(Seen(clean), c)
    BY DEF Better
  <2>1. PICK j \in HeldIds : CellOf(j) \in DOMAIN scored /\ d = Candidate(scored[CellOf(j)], j)
    BY DEF Seen
  <2>2. j \notin Intruders
    BY <2>1
  <2>3. CellOf(j) \in DOMAIN clean /\ scored[CellOf(j)] = clean[CellOf(j)]
    BY <1>1, <2>1, <2>2 DEF Intruders
  <2>4. d = Candidate(clean[CellOf(j)], j)
    BY <2>1, <2>3
  <2>5. d \in Seen(clean)
    BY <2>3, <2>4 DEF Seen
  <2>6. QED
    BY <2>5 DEF Better
<1> HIDE DEF F, T
<1>7. IsFiniteSet(Better(Seen(clean), c))
  <2>1. IsFiniteSet(Seen(clean)) /\ Better(Seen(clean), c) \subseteq Seen(clean)
    BY <1>1, SeenType DEF Better
  <2>2. QED
    BY <2>1, FS_Subset
<1>8. /\ Cardinality(Better(Seen(scored), c)) \in Nat
      /\ Cardinality(Better(Seen(scored), c))
           <= Cardinality(Better(Seen(clean), c)) + Cardinality(T)
  BY <1>5, <1>6, <1>7, SubsetBound
<1>9. /\ Cardinality(Better(Seen(clean), c)) \in Nat /\ Cardinality(T) \in Nat
      /\ Cardinality(Intruders) \in Nat /\ R \in Nat
  BY <1>5, <1>7, FS_CardinalityType, DepthAssumption
<1>10. Cardinality(Better(Seen(scored), c)) < R
  BY <1>5, <1>8, <1>9
<1>11. QED
  BY <1>2, <1>4, <1>10 DEF Best

\* d vectors damaged without notice cost at most d places: one ranked so far up
\* undamaged that the intruders cannot fill the rest is never evicted (heap.rs).
THEOREM IncumbentKept == Spec => []IncumbentSurvives
<1>1. QED
  BY QueryInvariant, InvIncumbent, PTL

\* In a sequence sorted best first, the better ones are those before.
LEMMA BetterBefore ==
  ASSUME NEW s \in Seq(Cands), Descending(s), NEW j \in 1 .. Len(s)
  PROVE  Cardinality(Better(ToSet(s), s[j])) = j - 1
<1> DEFINE n == Len(s)
           B == Better(ToSet(s), s[j])
<1>1. n \in Nat /\ s \in [1 .. n -> Cands] /\ ToSet(s) = {s[k] : k \in 1 .. n} /\ j - 1 \in Nat
  BY DEF ToSet
<1>2. \A k \in 1 .. n : WorseThan(s[j], s[k]) <=> k \in 1 .. j - 1
  <2> SUFFICES ASSUME NEW k \in 1 .. n PROVE WorseThan(s[j], s[k]) <=> k < j
    BY <1>1
  <2>1. s[j] \in Cands /\ s[k] \in Cands
    BY <1>1
  <2>2. CASE k < j
    BY <2>2 DEF Descending
  <2>3. CASE k = j
    BY <2>1, <2>3, Irreflexive
  <2>4. CASE j < k
    <3>1. WorseThan(s[k], s[j])
      BY <2>4 DEF Descending
    <3>2. QED
      BY <2>1, <2>4, <3>1, Asymmetric
  <2>5. QED
    BY <2>2, <2>3, <2>4
<1>3. \A k \in 1 .. j - 1 : k \in 1 .. n
  BY <1>1
<1>4. B = Img(s, 1 .. j - 1)
  <2>1. ASSUME NEW y \in B PROVE y \in Img(s, 1 .. j - 1)
    <3>1. PICK k \in 1 .. n : y = s[k]
      BY <1>1, <2>1 DEF Better
    <3>2. WorseThan(s[j], s[k])
      BY <2>1, <3>1 DEF Better
    <3>3. k \in 1 .. j - 1
      BY <1>2, <3>2
    <3>4. QED
      BY <3>1, <3>3 DEF Img
  <2>2. ASSUME NEW y \in Img(s, 1 .. j - 1) PROVE y \in B
    <3>1. PICK k \in 1 .. j - 1 : y = s[k]
      BY <2>2 DEF Img
    <3>2. k \in 1 .. n /\ WorseThan(s[j], s[k])
      BY <1>2, <1>3, <3>1
    <3>3. QED
      BY <1>1, <3>1, <3>2 DEF Better
  <2>3. QED
    BY <2>1, <2>2
<1>5. Inj(s, 1 .. j - 1)
  BY <1>3, DescendingInj DEF Inj
<1> HIDE DEF B
<1>6. Cardinality(Img(s, 1 .. j - 1)) = j - 1
  BY <1>1, <1>5, ImgSize
<1>7. QED
  BY <1>4, <1>6 DEF B

\* What was drained, rescored and sorted, is the answer the documents give.
LEMMA InvAnswer == QueryInv => AnswerExact
<1> SUFFICES ASSUME QueryInv, pc = "done" PROVE AnswerExact
  BY DEF AnswerExact
<1>1. /\ SlotsInv /\ SurvivorsInv /\ DoneInv /\ survivors \in Seq(Cands) /\ slots \in Seq(Cands)
      /\ stats.candidates = stats.dropped + Len(survivors) /\ stats \in StatsRecord
      /\ ToSet(slots) = Best(Seen(scored))
  BY DEF QueryInv, CountsInv, SlotsInv
<1> DEFINE n == Len(survivors)
           sorted == SortDesc(survivors)
           take == Lesser(K, n)
           V == ToSet(survivors)
<1>2. Inj(survivors, 1 .. n)
  BY <1>1 DEF SurvivorsInv, Inj
<1>3. /\ sorted \in Seq(Cands) /\ Len(sorted) = n /\ Descending(sorted)
      /\ \A c : c \in ToSet(sorted) <=> c \in V
  <2> HIDE DEF V
  <2>1. QED
    BY <1>1, <1>2, SortGood DEF V
<1> HIDE DEF sorted
<1>4. n \in Nat /\ take \in Nat /\ take <= n /\ take <= K /\ K \in Nat \ {0}
      /\ (take = n \/ take = K)
  BY <1>1, DepthAssumption DEF Lesser
<1>5. out = SubSeq(sorted, 1, take)
  BY <1>1 DEF DoneInv, sorted
<1> HIDE DEF take
<1>6. Len(out) = take /\ (\A i \in 1 .. take : out[i] = sorted[i]) /\ out \in Seq(Cands)
  BY <1>3, <1>4, <1>5
<1>7. \A i \in 1 .. Len(out) - 1 : WorseThan(out[i + 1], out[i])
  <2> SUFFICES ASSUME NEW i \in 1 .. take - 1 PROVE WorseThan(out[i + 1], out[i])
    BY <1>6
  <2>1. i \in 1 .. take /\ i + 1 \in 1 .. take /\ i \in 1 .. n /\ i + 1 \in 1 .. n /\ i < i + 1
    BY <1>4
  <2>2. WorseThan(sorted[i + 1], sorted[i])
    BY <1>3, <2>1 DEF Descending
  <2>3. QED
    BY <1>6, <2>1, <2>2
<1>8. ToSet(sorted) = V
  BY <1>3
<1>9. \A j \in 1 .. n : Cardinality(Better(V, sorted[j])) = j - 1
  BY <1>3, <1>8, BetterBefore
<1>10. ASSUME NEW y PROVE y \in ToSet(out) <=> y \in V /\ Cardinality(Better(V, y)) < K
  <2> HIDE DEF V
  <2>1. ASSUME y \in ToSet(out) PROVE y \in V /\ Cardinality(Better(V, y)) < K
    <3>1. PICK j \in 1 .. take : y = out[j]
      BY <1>6, <2>1 DEF ToSet
    <3>2. j \in 1 .. n /\ j - 1 < K /\ y = sorted[j]
      BY <1>4, <1>6, <3>1
    <3>3. y \in ToSet(sorted)
      BY <1>3, <3>2 DEF ToSet
    <3>4. Cardinality(Better(V, y)) = j - 1
      BY <1>9, <3>2
    <3>5. QED
      BY <1>8, <3>2, <3>3, <3>4
  <2>2. ASSUME y \in V, Cardinality(Better(V, y)) < K PROVE y \in ToSet(out)
    <3>1. PICK j \in 1 .. n : y = sorted[j]
      BY <1>3, <1>8, <2>2 DEF ToSet
    <3>2. j - 1 < K
      BY <1>9, <2>2, <3>1
    <3>3. j \in 1 .. take
      BY <1>4, <3>2
    <3>4. y = out[j]
      BY <1>6, <3>1, <3>3
    <3>5. QED
      BY <1>6, <3>3, <3>4 DEF ToSet
  <2>3. QED
    BY <2>1, <2>2
<1>11. ToSet(out) = {c \in V : Cardinality(Better(V, c)) < K}
  BY <1>10
<1>12. {c.id : c \in V} \subseteq {c.id : c \in Best(Seen(scored))}
  <2> SUFFICES ASSUME NEW c \in V PROVE \E d \in Best(Seen(scored)) : c.id = d.id
    OBVIOUS
  <2>1. PICK i \in 1 .. n : c = survivors[i]
    BY <1>1 DEF ToSet
  <2>2. PICK j \in 1 .. stats.candidates : survivors[i].id = slots[j].id
    BY <1>1 DEF SurvivorsInv
  <2>3. j \in 1 .. Len(slots)
    BY <1>1, <2>2 DEF DoneInv
  <2>4. slots[j] \in ToSet(slots)
    BY <1>1, <2>3 DEF ToSet
  <2>5. QED
    BY <1>1, <2>1, <2>2, <2>4
<1>13. n + stats.dropped = Cardinality(Best(Seen(scored)))
  <2>1. Inj(slots, 1 .. Len(slots)) /\ Len(slots) \in Nat
    BY <1>1 DEF SlotsInv
  <2>2. Img(slots, 1 .. Len(slots)) = ToSet(slots)
    BY <1>1 DEF Img, ToSet
  <2>3. Cardinality(ToSet(slots)) = Len(slots)
    BY <2>1, <2>2, ImgSize
  <2>4. stats.dropped \in Nat /\ stats.candidates = Len(slots)
    BY <1>1 DEF DoneInv, StatsRecord
  <2>5. QED
    BY <1>1, <1>4, <2>3, <2>4
<1>14. QED
  BY <1>7, <1>11, <1>12, <1>13 DEF AnswerExact

\* The answer of a query that finishes is the best K of the candidates that
\* verified, sorted, and a dropped one is not replaced (rerank.rs, query.rs).
THEOREM AnswerIsExact == Spec => []AnswerExact
<1>1. QED
  BY QueryInvariant, InvAnswer, PTL

=============================================================================
