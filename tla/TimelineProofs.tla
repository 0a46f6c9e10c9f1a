---------------------------- MODULE TimelineProofs ---------------------------
(***************************************************************************)
(* Proofs about the chart of the timeline (module TimelineChart): how a    *)
(* row is found again, and which rows and dependencies are shown around    *)
(* the one that is selected.                                               *)
(***************************************************************************)
EXTENDS QuestionProofs

-----------------------------------------------------------------------------
(* The rows of the timeline: where they are, and how one is found again. *)
\* The offsets add up the heights above.
LEMMA OffsetsUnfold ==
    ASSUME NEW heights, Len(heights) \in Nat
    PROVE  \E g : /\ g[0] = 0 /\ OffsetsOf(heights) = [i \in 1 .. Len(heights) + 1 |-> g[i - 1]]
                  /\ \A n \in 1 .. Len(heights) : g[n] = g[n - 1] + heights[n]
<1> DEFINE N == Len(heights)
           zero == 0
           F(q, n) == q + heights[n]
           Defines(f, m) == f = [n \in 0 .. m |-> IF n = 0 THEN zero ELSE F(f[n - 1], n)]
           done == {m \in 0 .. N : \E f : Defines(f, m)}
<1>1. N \in Nat
  OBVIOUS
<1>2. OffsetsOf(heights) = [i \in 1 .. N + 1 |-> (CHOOSE f : Defines(f, N))[i - 1]]
  BY DEF OffsetsOf
<1> HIDE DEF F, N, zero
<1>3. 0 \in done
  <2> DEFINE f == [n \in 0 .. 0 |-> zero]
  <2>1. Defines(f, 0)
    OBVIOUS
  <2> HIDE DEF Defines, f
  <2> QED  BY <1>1, <2>1
<1>4. ASSUME NEW m \in 1 .. N, m - 1 \in done PROVE m \in done
  <2>1. PICK f : Defines(f, m - 1)
    BY <1>4
  <2>2. \A k \in 0 .. m - 1 : f[k] = IF k = 0 THEN zero ELSE F(f[k - 1], k)
    BY <2>1, Zenon
  <2> DEFINE g == [k \in 0 .. m |-> IF k = m THEN F(f[m - 1], m) ELSE f[k]]
  <2>3. g[m] = F(f[m - 1], m) /\ \A k \in 0 .. m - 1 : g[k] = f[k]
    BY <1>1
  <2>4. g = [k \in 0 .. m |-> g[k]]
    OBVIOUS
  <2> HIDE DEF g, Defines
  <2>5. \A k \in 0 .. m : g[k] = IF k = 0 THEN zero ELSE F(g[k - 1], k)
    <3> TAKE k \in 0 .. m
    <3>1. CASE k = m
      <4>1. m # 0 /\ m - 1 \in 0 .. m - 1
        OBVIOUS
      <4> QED  BY <2>3, <3>1, <4>1
    <3>2. CASE k # m
      <4>1. k \in 0 .. m - 1 /\ (k # 0 => k - 1 \in 0 .. m - 1)
        BY <3>2
      <4> QED  BY <2>2, <2>3, <4>1
    <3> QED  BY <3>1, <3>2
  <2>6. Defines(g, m)
    BY <2>4, <2>5 DEF Defines
  <2>7. m \in 0 .. N
    BY <1>1
  <2> QED  BY <2>6, <2>7
<1> HIDE DEF done
<1>5. 0 .. N \subseteq done
  BY <1>1, <1>3, <1>4, BoundedInduction
<1>6. N \in done
  BY <1>1, <1>5
<1> DEFINE g == CHOOSE f : Defines(f, N)
<1>7. Defines(g, N)
  <2> HIDE DEF Defines
  <2> QED  BY <1>6 DEF done
<1> HIDE DEF g
<1>8. \A n \in 0 .. N : g[n] = IF n = 0 THEN zero ELSE F(g[n - 1], n)
  BY <1>7, Zenon
<1>9. g[0] = zero /\ \A n \in 1 .. N : g[n] = F(g[n - 1], n)
  <2>1. 0 \in 0 .. N /\ \A n \in 1 .. N : n \in 0 .. N /\ n # 0
    BY <1>1
  <2> QED  BY <1>8, <2>1
<1>10. OffsetsOf(heights) = [i \in 1 .. N + 1 |-> g[i - 1]]
  BY <1>2 DEF g
<1> QED  BY <1>9, <1>10 DEF N, F, zero

\* The search for a row takes one turn after the other.
LEMMA FindUnfolds ==
    ASSUME NEW offsets, NEW heights, NEW y, Len(offsets) \in Nat
    PROVE  \E g : /\ g[0] = [lo |-> 1, hi |-> Len(offsets), found |-> 0] /\ FindBundleAtOffset(offsets, heights, y) = g[Len(offsets)].found
                  /\ \A n \in 1 .. Len(offsets) : g[n] = FindTurn(offsets, heights, y, g[n - 1])
<1> DEFINE N == Len(offsets)
           zero == [lo |-> 1, hi |-> Len(offsets), found |-> 0]
           F(q, n) == FindTurn(offsets, heights, y, q)
           Defines(f, m) == f = [n \in 0 .. m |-> IF n = 0 THEN zero ELSE F(f[n - 1], n)]
           done == {m \in 0 .. N : \E f : Defines(f, m)}
<1>1. N \in Nat
  OBVIOUS
<1>2. FindBundleAtOffset(offsets, heights, y) = (CHOOSE f : Defines(f, N))[N].found
  BY DEF FindBundleAtOffset
<1> HIDE DEF F, N, zero
<1>3. 0 \in done
  <2> DEFINE f == [n \in 0 .. 0 |-> zero]
  <2>1. Defines(f, 0)
    OBVIOUS
  <2> HIDE DEF Defines, f
  <2> QED  BY <1>1, <2>1
<1>4. ASSUME NEW m \in 1 .. N, m - 1 \in done PROVE m \in done
  <2>1. PICK f : Defines(f, m - 1)
    BY <1>4
  <2>2. \A k \in 0 .. m - 1 : f[k] = IF k = 0 THEN zero ELSE F(f[k - 1], k)
    BY <2>1, Zenon
  <2> DEFINE g == [k \in 0 .. m |-> IF k = m THEN F(f[m - 1], m) ELSE f[k]]
  <2>3. g[m] = F(f[m - 1], m) /\ \A k \in 0 .. m - 1 : g[k] = f[k]
    BY <1>1
  <2>4. g = [k \in 0 .. m |-> g[k]]
    OBVIOUS
  <2> HIDE DEF g, Defines
  <2>5. \A k \in 0 .. m : g[k] = IF k = 0 THEN zero ELSE F(g[k - 1], k)
    <3> TAKE k \in 0 .. m
    <3>1. CASE k = m
      <4>1. m # 0 /\ m - 1 \in 0 .. m - 1
        OBVIOUS
      <4> QED  BY <2>3, <3>1, <4>1
    <3>2. CASE k # m
      <4>1. k \in 0 .. m - 1 /\ (k # 0 => k - 1 \in 0 .. m - 1)
        BY <3>2
      <4> QED  BY <2>2, <2>3, <4>1
    <3> QED  BY <3>1, <3>2
  <2>6. Defines(g, m)
    BY <2>4, <2>5 DEF Defines
  <2>7. m \in 0 .. N
    BY <1>1
  <2> QED  BY <2>6, <2>7
<1> HIDE DEF done
<1>5. 0 .. N \subseteq done
  BY <1>1, <1>3, <1>4, BoundedInduction
<1>6. N \in done
  BY <1>1, <1>5
<1> DEFINE g == CHOOSE f : Defines(f, N)
<1>7. Defines(g, N)
  <2> HIDE DEF Defines
  <2> QED  BY <1>6 DEF done
<1> HIDE DEF g
<1>8. \A n \in 0 .. N : g[n] = IF n = 0 THEN zero ELSE F(g[n - 1], n)
  BY <1>7, Zenon
<1>9. g[0] = zero /\ \A n \in 1 .. N : g[n] = F(g[n - 1], n)
  <2>1. 0 \in 0 .. N /\ \A n \in 1 .. N : n \in 0 .. N /\ n # 0
    BY <1>1
  <2> QED  BY <1>8, <2>1
<1>10. FindBundleAtOffset(offsets, heights, y) = g[N].found
  BY <1>2 DEF g
<1> QED  BY <1>9, <1>10 DEF N, F, zero

\* So does the search for the first one in view; it ends a row further up, if there is one.
RowBefore(at) == Max({1, at.lo - 1})

LEMMA FirstUnfolds ==
    ASSUME NEW offsets, NEW top, Len(offsets) \in Nat
    PROVE  \E g : /\ g[0] = [lo |-> 1, hi |-> Len(offsets)] /\ FindFirstVisible(offsets, top) = RowBefore(g[Len(offsets)])
                  /\ \A n \in 1 .. Len(offsets) : g[n] = FirstTurn(offsets, top, g[n - 1])
<1> DEFINE N == Len(offsets)
           zero == [lo |-> 1, hi |-> Len(offsets)]
           F(q, n) == FirstTurn(offsets, top, q)
           Defines(f, m) == f = [n \in 0 .. m |-> IF n = 0 THEN zero ELSE F(f[n - 1], n)]
           done == {m \in 0 .. N : \E f : Defines(f, m)}
<1>1. N \in Nat
  OBVIOUS
<1>2. FindFirstVisible(offsets, top) = RowBefore((CHOOSE f : Defines(f, N))[N])
  BY DEF FindFirstVisible, RowBefore
<1> HIDE DEF F, N, zero
<1>3. 0 \in done
  <2> DEFINE f == [n \in 0 .. 0 |-> zero]
  <2>1. Defines(f, 0)
    OBVIOUS
  <2> HIDE DEF Defines, f
  <2> QED  BY <1>1, <2>1
<1>4. ASSUME NEW m \in 1 .. N, m - 1 \in done PROVE m \in done
  <2>1. PICK f : Defines(f, m - 1)
    BY <1>4
  <2>2. \A k \in 0 .. m - 1 : f[k] = IF k = 0 THEN zero ELSE F(f[k - 1], k)
    BY <2>1, Zenon
  <2> DEFINE g == [k \in 0 .. m |-> IF k = m THEN F(f[m - 1], m) ELSE f[k]]
  <2>3. g[m] = F(f[m - 1], m) /\ \A k \in 0 .. m - 1 : g[k] = f[k]
    BY <1>1
  <2>4. g = [k \in 0 .. m |-> g[k]]
    OBVIOUS
  <2> HIDE DEF g, Defines
  <2>5. \A k \in 0 .. m : g[k] = IF k = 0 THEN zero ELSE F(g[k - 1], k)
    <3> TAKE k \in 0 .. m
    <3>1. CASE k = m
      <4>1. m # 0 /\ m - 1 \in 0 .. m - 1
        OBVIOUS
      <4> QED  BY <2>3, <3>1, <4>1
    <3>2. CASE k # m
      <4>1. k \in 0 .. m - 1 /\ (k # 0 => k - 1 \in 0 .. m - 1)
        BY <3>2
      <4> QED  BY <2>2, <2>3, <4>1
    <3> QED  BY <3>1, <3>2
  <2>6. Defines(g, m)
    BY <2>4, <2>5 DEF Defines
  <2>7. m \in 0 .. N
    BY <1>1
  <2> QED  BY <2>6, <2>7
<1> HIDE DEF done
<1>5. 0 .. N \subseteq done
  BY <1>1, <1>3, <1>4, BoundedInduction
<1>6. N \in done
  BY <1>1, <1>5
<1> DEFINE g == CHOOSE f : Defines(f, N)
<1>7. Defines(g, N)
  <2> HIDE DEF Defines
  <2> QED  BY <1>6 DEF done
<1> HIDE DEF g
<1>8. \A n \in 0 .. N : g[n] = IF n = 0 THEN zero ELSE F(g[n - 1], n)
  BY <1>7, Zenon
<1>9. g[0] = zero /\ \A n \in 1 .. N : g[n] = F(g[n - 1], n)
  <2>1. 0 \in 0 .. N /\ \A n \in 1 .. N : n \in 0 .. N /\ n # 0
    BY <1>1
  <2> QED  BY <1>8, <2>1
<1>10. FindFirstVisible(offsets, top) = RowBefore(g[N])
  BY <1>2 DEF g
<1> QED  BY <1>9, <1>10 DEF N, F, zero

\* The rows of a chart, from the top: each so high, and below those before it.
AreRows(N, offsets, heights, height) ==
    /\ N \in Nat /\ height \in Nat /\ offsets \in [1 .. N -> Nat] /\ heights \in [1 .. N -> Nat]
    /\ offsets \in Seq(Nat) /\ Len(offsets) = N
    /\ \A i, j \in 1 .. N : i < j => offsets[i] + heights[i] <= offsets[j]
    /\ \A i \in 1 .. N : heights[i] >= 1 /\ offsets[i] + heights[i] <= height

LEMMA OffsetsAreRows ==
    ASSUME NEW N \in Nat, NEW heights \in [1 .. N -> Nat \ {0}]
    PROVE  AreRows(N, Front(OffsetsOf(heights)), heights, Last(OffsetsOf(heights)))
<1> DEFINE q == OffsetsOf(heights)
<1>1. heights \in Seq(Nat) /\ Len(heights) = N /\ \A i \in 1 .. N : heights[i] \in Nat /\ heights[i] >= 1
  BY LenProperties
<1>2. PICK g : /\ g[0] = 0 /\ q = [i \in 1 .. N + 1 |-> g[i - 1]]
               /\ \A n \in 1 .. N : g[n] = g[n - 1] + heights[n]
  BY <1>1, OffsetsUnfold
<1> HIDE DEF q
<1> DEFINE right == {n \in 0 .. N : g[n] \in Nat}
<1>3. 0 \in right
  BY <1>2
<1>4. ASSUME NEW n \in 1 .. N, n - 1 \in right PROVE n \in right
  BY <1>1, <1>2, <1>4
<1>5. \A n \in 0 .. N : g[n] \in Nat
  <2> HIDE DEF right
  <2>1. 0 .. N \subseteq right
    BY <1>3, <1>4, BoundedInduction
  <2> QED  BY <2>1 DEF right
<1> HIDE DEF right
<1> DEFINE after == {n \in 0 .. N : \A i \in 0 .. n : g[i] <= g[n]}
<1>6. 0 \in after
  BY <1>5
<1>7. ASSUME NEW n \in 1 .. N, n - 1 \in after PROVE n \in after
  <2>1. g[n] >= g[n - 1] /\ g[n] \in Nat /\ g[n - 1] \in Nat
    BY <1>1, <1>2, <1>5
  <2>2. ASSUME NEW i \in 0 .. n PROVE g[i] <= g[n]
    <3>1. CASE i = n
      BY <2>1, <3>1
    <3>2. CASE i # n
      <4>1. i \in 0 .. n - 1 /\ i \in 0 .. N
        BY <3>2
      <4>2. g[i] <= g[n - 1] /\ g[i] \in Nat
        BY <1>5, <1>7, <4>1
      <4> QED  BY <2>1, <4>2
    <3> QED  BY <3>1, <3>2
  <2> QED  BY <2>2
<1>8. \A n \in 0 .. N : \A i \in 0 .. n : g[i] <= g[n]
  <2> HIDE DEF after
  <2>1. 0 .. N \subseteq after
    BY <1>6, <1>7, BoundedInduction
  <2> QED  BY <2>1 DEF after
<1> HIDE DEF after
<1>9. q \in Seq(Nat) /\ Len(q) = N + 1 /\ \A i \in 1 .. N + 1 : q[i] = g[i - 1] /\ q[i] \in Nat
  <2>1. \A i \in 1 .. N + 1 : q[i] = g[i - 1] /\ q[i] \in Nat
    BY <1>2, <1>5
  <2>2. q \in [1 .. N + 1 -> Nat]
    BY <1>2, <1>5
  <2> QED  BY <2>1, <2>2, LenProperties
<1> DEFINE p == Front(q)
<1>10. p \in Seq(Nat) /\ Len(p) = N /\ \A i \in 1 .. N : p[i] = q[i]
  <2>1. \A i \in 1 .. N : q[i] \in Nat
    BY <1>9
  <2>2. /\ SubSeq(q, 1, N) \in Seq(Nat) /\ Len(SubSeq(q, 1, N)) = IF 1 <= N THEN N - 1 + 1 ELSE 0
        /\ \A i \in 1 .. N - 1 + 1 : SubSeq(q, 1, N)[i] = q[1 + i - 1]
    BY <2>1, SubSeqProperties
  <2>3. p = SubSeq(q, 1, N)
    <3>1. Len(q) - 1 = N
      BY <1>9
    <3> QED  BY <3>1 DEF Front
  <2>4. Len(p) = N
    BY <2>2, <2>3
  <2> QED  BY <2>2, <2>3, <2>4
<1>11. Last(q) = g[N]
  BY <1>9 DEF Last
<1> HIDE DEF p
<1>12. p \in [1 .. N -> Nat] /\ \A i \in 1 .. N : p[i] = g[i - 1] /\ p[i] + heights[i] = g[i]
  <2>1. p \in [1 .. N -> Nat]
    BY <1>10, LenProperties
  <2>2. ASSUME NEW i \in 1 .. N PROVE p[i] = g[i - 1] /\ p[i] + heights[i] = g[i]
    <3>1. p[i] = q[i]
      BY <1>10
    <3>2. q[i] = g[i - 1]
      BY <1>9
    <3>3. g[i] = g[i - 1] + heights[i]
      BY <1>2
    <3> QED  BY <3>1, <3>2, <3>3
  <2> QED  BY <2>1, <2>2
<1>13. \A i, j \in 1 .. N : i < j => p[i] + heights[i] <= p[j]
  <2> SUFFICES ASSUME NEW i \in 1 .. N, NEW j \in 1 .. N, i < j PROVE p[i] + heights[i] <= p[j]
    OBVIOUS
  <2>1. i \in 0 .. j - 1 /\ j - 1 \in 0 .. N
    OBVIOUS
  <2> QED  BY <1>8, <1>12, <2>1
<1>14. \A i \in 1 .. N : heights[i] >= 1 /\ p[i] + heights[i] <= g[N]
  <2> TAKE i \in 1 .. N
  <2>1. i \in 0 .. N /\ N \in 0 .. N
    OBVIOUS
  <2> QED  BY <1>1, <1>8, <1>12, <2>1
<1>15. g[N] \in Nat /\ heights \in [1 .. N -> Nat]
  BY <1>5
<1>16. AreRows(N, p, heights, g[N])
  BY <1>10, <1>12, <1>13, <1>14, <1>15 DEF AreRows
<1> QED  BY <1>11, <1>16 DEF p, q

\* A search among rows i of lo .. hi ends at the one at a height: each turn leaves fewer.
Searching(q, N, i, n) ==
    /\ q = [lo |-> q.lo, hi |-> q.hi, found |-> q.found] /\ q.lo \in Int /\ q.hi \in Int
    /\ 1 <= q.lo /\ q.hi <= N
    /\ \/ q.found = i
       \/ q.found = 0 /\ q.lo <= i /\ i <= q.hi /\ q.hi - q.lo + 1 + n <= N

LEMMA Halved ==
    ASSUME NEW a \in Int, NEW b \in Int, a <= b
    PROVE  LET mid == (a + b) \div 2 IN mid \in Int /\ a <= mid /\ mid <= b /\ (a < b => mid < b)
OBVIOUS

LEMMA TurnSearches ==
    ASSUME NEW N, NEW offsets, NEW heights, NEW height, AreRows(N, offsets, heights, height),
           NEW i \in 1 .. N, NEW y \in Int, offsets[i] <= y, y < offsets[i] + heights[i],
           NEW q, NEW n \in 1 .. N, Searching(q, N, i, n - 1)
    PROVE  Searching(FindTurn(offsets, heights, y, q), N, i, n)
<1> DEFINE mid == (q.lo + q.hi) \div 2
           r == FindTurn(offsets, heights, y, q)
<1>1. N \in Nat /\ \A k \in 1 .. N : offsets[k] \in Nat /\ heights[k] \in Nat
  BY DEF AreRows
<1>2. CASE q.found = i
  <2>1. r = q
    BY <1>2 DEF FindTurn
  <2> QED  BY <1>2, <2>1 DEF Searching
<1>3. CASE q.found # i
  <2>1. /\ q.found = 0 /\ q.lo <= i /\ i <= q.hi /\ q.hi - q.lo + 1 + (n - 1) <= N
        /\ q = [lo |-> q.lo, hi |-> q.hi, found |-> q.found]
        /\ q.lo \in Int /\ q.hi \in Int /\ 1 <= q.lo /\ q.hi <= N
    BY <1>3 DEF Searching
  <2>2. q.lo <= q.hi
    BY <2>1
  <2>3. mid \in Int /\ q.lo <= mid /\ mid <= q.hi
    BY <2>1, <2>2, Halved
  <2> HIDE DEF mid
  <2>4. mid \in 1 .. N
    BY <1>1, <2>1, <2>3
  <2>5. r = IF offsets[mid] > y THEN [q EXCEPT !.hi = mid - 1]
            ELSE IF offsets[mid] + heights[mid] <= y THEN [q EXCEPT !.lo = mid + 1]
            ELSE [q EXCEPT !.found = mid]
    BY <2>1, <2>2 DEF FindTurn, mid
  <2> HIDE DEF r
  <2>6. CASE offsets[mid] > y
    <3>1. r = [lo |-> q.lo, hi |-> mid - 1, found |-> q.found]
      BY <2>1, <2>5, <2>6
    <3>2. i < mid
      <4>1. mid < i => offsets[mid] + heights[mid] <= offsets[i]
        BY <2>4 DEF AreRows
      <4> QED  BY <1>1, <2>4, <2>6, <4>1
    <3>3. r.lo = q.lo /\ r.hi = mid - 1 /\ r.found = 0
      BY <2>1, <3>1
    <3>4. r.hi - r.lo + 1 + n <= N /\ r.lo \in Int /\ r.hi \in Int /\ 1 <= r.lo /\ r.hi <= N
          /\ r.lo <= i /\ i <= r.hi
      BY <1>1, <2>1, <2>3, <3>2, <3>3
    <3> QED  BY <2>1, <3>1, <3>3, <3>4 DEF Searching, r
  <2>7. CASE offsets[mid] <= y /\ offsets[mid] + heights[mid] <= y
    <3>1. r = [lo |-> mid + 1, hi |-> q.hi, found |-> q.found]
      BY <1>1, <2>1, <2>4, <2>5, <2>7
    <3>2. i > mid
      <4>1. i < mid => offsets[i] + heights[i] <= offsets[mid]
        BY <2>4 DEF AreRows
      <4> QED  BY <1>1, <2>4, <2>7, <4>1
    <3>3. r.lo = mid + 1 /\ r.hi = q.hi /\ r.found = 0
      BY <2>1, <3>1
    <3>4. r.hi - r.lo + 1 + n <= N /\ r.lo \in Int /\ r.hi \in Int /\ 1 <= r.lo /\ r.hi <= N
          /\ r.lo <= i /\ i <= r.hi
      BY <1>1, <2>1, <2>3, <3>2, <3>3
    <3> QED  BY <2>1, <3>1, <3>3, <3>4 DEF Searching, r
  <2>8. CASE offsets[mid] <= y /\ ~(offsets[mid] + heights[mid] <= y)
    <3>1. r = [lo |-> q.lo, hi |-> q.hi, found |-> mid]
      BY <1>1, <2>1, <2>4, <2>5, <2>8
    <3>2. mid = i
      <4>1. mid < i => offsets[mid] + heights[mid] <= offsets[i]
        BY <2>4 DEF AreRows
      <4>2. i < mid => offsets[i] + heights[i] <= offsets[mid]
        BY <2>4 DEF AreRows
      <4> QED  BY <1>1, <2>4, <2>8, <4>1, <4>2
    <3>3. r.lo = q.lo /\ r.hi = q.hi /\ r.found = i
      BY <3>1, <3>2
    <3> QED  BY <2>1, <3>1, <3>2, <3>3 DEF Searching, r
  <2> QED  BY <1>1, <2>4, <2>6, <2>7, <2>8
<1> QED  BY <1>2, <1>3

\* A row is found at every height it has.
LEMMA RowIsFound ==
    ASSUME NEW N, NEW offsets, NEW heights, NEW height, AreRows(N, offsets, heights, height),
           NEW i \in 1 .. N, NEW y \in Int, offsets[i] <= y, y < offsets[i] + heights[i]
    PROVE  FindBundleAtOffset(offsets, heights, y) = i
<1>1. N \in Nat /\ Len(offsets) = N
  BY DEF AreRows
<1>2. PICK g : /\ g[0] = [lo |-> 1, hi |-> N, found |-> 0]
               /\ FindBundleAtOffset(offsets, heights, y) = g[N].found
               /\ \A n \in 1 .. N : g[n] = FindTurn(offsets, heights, y, g[n - 1])
  BY <1>1, FindUnfolds
<1> DEFINE done == {n \in 0 .. N : Searching(g[n], N, i, n)}
<1>3. 0 \in done
  <2>1. g[0].lo = 1 /\ g[0].hi = N /\ g[0].found = 0
    BY <1>2
  <2>2. Searching(g[0], N, i, 0)
    BY <1>1, <1>2, <2>1 DEF Searching
  <2> QED  BY <1>1, <2>2
<1>4. ASSUME NEW n \in 1 .. N, n - 1 \in done PROVE n \in done
  <2>1. Searching(g[n - 1], N, i, n - 1)
    BY <1>4
  <2>2. PICK q : q = g[n - 1]
    OBVIOUS
  <2>3. Searching(FindTurn(offsets, heights, y, q), N, i, n)
    BY <2>1, <2>2, TurnSearches
  <2>4. Searching(g[n], N, i, n) /\ n \in 0 .. N
    BY <1>1, <1>2, <2>2, <2>3
  <2> QED  BY <2>4
<1> HIDE DEF done
<1>5. 0 .. N \subseteq done
  BY <1>1, <1>3, <1>4, BoundedInduction
<1>6. Searching(g[N], N, i, N)
  BY <1>1, <1>5 DEF done
<1> QED  BY <1>1, <1>2, <1>6 DEF Searching

\* Below the last row nothing is found.
LEMMA NoRowIsFound ==
    ASSUME NEW N, NEW offsets, NEW heights, NEW height, AreRows(N, offsets, heights, height)
    PROVE  FindBundleAtOffset(offsets, heights, height) = 0
<1>1. N \in Nat /\ Len(offsets) = N /\ height \in Nat
      /\ \A k \in 1 .. N : offsets[k] \in Nat /\ heights[k] \in Nat /\ heights[k] >= 1
                           /\ offsets[k] + heights[k] <= height
  BY DEF AreRows
<1>2. PICK g : /\ g[0] = [lo |-> 1, hi |-> N, found |-> 0]
               /\ FindBundleAtOffset(offsets, heights, height) = g[N].found
               /\ \A n \in 1 .. N : g[n] = FindTurn(offsets, heights, height, g[n - 1])
  <2>1. Len(offsets) = N /\ Len(offsets) \in Nat
    BY <1>1
  <2> QED  BY ONLY <2>1, FindUnfolds
<1> DEFINE Unfound(q) == /\ q = [lo |-> q.lo, hi |-> q.hi, found |-> 0]
                         /\ q.lo \in Int /\ q.hi \in Int /\ 1 <= q.lo /\ q.hi <= N
           done == {n \in 0 .. N : Unfound(g[n])}
<1>3. 0 \in done
  BY <1>1, <1>2
<1>4. ASSUME NEW n \in 1 .. N, n - 1 \in done PROVE n \in done
  <2>1. PICK q : q = g[n - 1]
    OBVIOUS
  <2>2. Unfound(q) /\ g[n] = FindTurn(offsets, heights, height, q)
    BY <1>2, <1>4, <2>1
  <2> DEFINE mid == (q.lo + q.hi) \div 2
  <2>3. CASE q.lo > q.hi
    <3>1. g[n] = q
      BY <2>2, <2>3 DEF FindTurn
    <3> QED  BY <1>1, <2>2, <3>1
  <2>4. CASE ~(q.lo > q.hi)
    <3>1. mid \in Int /\ q.lo <= mid /\ mid <= q.hi
      BY <2>2, <2>4, Halved
    <3>2. q.found = 0
      BY <2>2
    <3>3. FindTurn(offsets, heights, height, q) =
              IF offsets[mid] > height THEN [q EXCEPT !.hi = mid - 1]
              ELSE IF offsets[mid] + heights[mid] <= height THEN [q EXCEPT !.lo = mid + 1]
              ELSE [q EXCEPT !.found = mid]
      BY <2>4, <3>2 DEF FindTurn
    <3> HIDE DEF mid
    <3>4. mid \in 1 .. N
      BY <1>1, <2>2, <3>1
    <3>5. ~(offsets[mid] > height) /\ offsets[mid] + heights[mid] <= height
      BY <1>1, <3>4
    <3>6. g[n] = [q EXCEPT !.lo = mid + 1]
      BY <2>2, <3>3, <3>5
    <3>7. g[n] = [lo |-> mid + 1, hi |-> q.hi, found |-> 0]
      BY <2>2, <3>6
    <3> QED  BY <1>1, <2>2, <3>1, <3>7
  <2> QED  BY <2>3, <2>4
<1> HIDE DEF done
<1>5. 0 .. N \subseteq done
  BY <1>1, <1>3, <1>4, BoundedInduction
<1>6. Unfound(g[N])
  BY <1>1, <1>5 DEF done
<1> QED  BY <1>2, <1>6

\* What is above the first row in view ends above the view.
LEMMA FirstIsVisible ==
    ASSUME NEW N, NEW offsets, NEW heights, NEW height, AreRows(N, offsets, heights, height),
           NEW top \in Int, NEW j \in 1 .. N, offsets[j] + heights[j] > top
    PROVE  FindFirstVisible(offsets, top) \in Int /\ FindFirstVisible(offsets, top) <= j
<1>1. N \in Nat /\ N >= 1 /\ Len(offsets) = N
      /\ \A k \in 1 .. N : offsets[k] \in Nat /\ heights[k] \in Nat
  BY DEF AreRows
<1>2. PICK g : /\ g[0] = [lo |-> 1, hi |-> N]
               /\ FindFirstVisible(offsets, top) = RowBefore(g[N])
               /\ \A n \in 1 .. N : g[n] = FirstTurn(offsets, top, g[n - 1])
  <2>1. Len(offsets) = N /\ Len(offsets) \in Nat
    BY <1>1
  <2>2. PICK g : /\ g[0] = [lo |-> 1, hi |-> Len(offsets)]
                 /\ FindFirstVisible(offsets, top) = RowBefore(g[Len(offsets)])
                 /\ \A n \in 1 .. Len(offsets) : g[n] = FirstTurn(offsets, top, g[n - 1])
    BY ONLY <2>1, FirstUnfolds
  <2>3. g[0] = [lo |-> 1, hi |-> N] /\ FindFirstVisible(offsets, top) = RowBefore(g[N])
        /\ \A n \in 1 .. N : g[n] = FirstTurn(offsets, top, g[n - 1])
    BY <2>1, <2>2
  <2> QED  BY <2>3
<1> DEFINE Above(q) == /\ q = [lo |-> q.lo, hi |-> q.hi]
                       /\ q.lo \in Int /\ q.hi \in Int /\ 1 <= q.lo /\ q.lo <= q.hi /\ q.hi <= N
                       /\ q.lo > 1 => offsets[q.lo - 1] < top
           done == {n \in 0 .. N : Above(g[n])}
<1>3. 0 \in done
  BY <1>1, <1>2
<1>4. ASSUME NEW n \in 1 .. N, n - 1 \in done PROVE n \in done
  <2>1. PICK q : q = g[n - 1]
    OBVIOUS
  <2>2. Above(q) /\ g[n] = FirstTurn(offsets, top, q)
    BY <1>2, <1>4, <2>1
  <2> DEFINE mid == (q.lo + q.hi) \div 2
  <2>3. CASE q.lo >= q.hi
    <3>1. g[n] = q
      BY <2>2, <2>3 DEF FirstTurn
    <3> QED  BY <1>1, <2>2, <3>1
  <2>4. CASE ~(q.lo >= q.hi)
    <3>1. mid \in Int /\ q.lo <= mid /\ mid < q.hi
      BY <2>2, <2>4, Halved
    <3>2. FirstTurn(offsets, top, q) =
              IF offsets[mid] < top THEN [q EXCEPT !.lo = mid + 1] ELSE [q EXCEPT !.hi = mid]
      BY <2>4 DEF FirstTurn
    <3> HIDE DEF mid
    <3>3. CASE offsets[mid] < top
      <4>1. g[n] = [lo |-> mid + 1, hi |-> q.hi]
        BY <2>2, <3>2, <3>3
      <4>2. (mid + 1) - 1 = mid
        BY <3>1
      <4> QED  BY <1>1, <2>2, <3>1, <3>3, <4>1, <4>2
    <3>4. CASE ~(offsets[mid] < top)
      <4>1. g[n] = [lo |-> q.lo, hi |-> mid]
        BY <2>2, <3>2, <3>4
      <4> QED  BY <1>1, <2>2, <3>1, <4>1
    <3> QED  BY <3>3, <3>4
  <2> QED  BY <2>3, <2>4
<1> HIDE DEF done
<1>5. 0 .. N \subseteq done
  BY <1>1, <1>3, <1>4, BoundedInduction
<1>6. Above(g[N])
  BY <1>1, <1>5 DEF done
<1> DEFINE a == g[N].lo - 1
<1>7. a \in Int /\ a < N /\ (a >= 1 => offsets[a] < top)
  <2>1. g[N].lo \in Int /\ g[N].hi \in Int /\ g[N].lo <= g[N].hi /\ g[N].hi <= N
        /\ (g[N].lo > 1 => offsets[g[N].lo - 1] < top)
    BY <1>6
  <2> QED  BY <1>1, <2>1
<1> HIDE DEF a
<1>8. Max({1, a}) \in Int /\ Max({1, a}) = IF 1 >= a THEN 1 ELSE a
  BY <1>7, MaxOfTwo
<1>9. a <= j \/ a < 1
  <2> SUFFICES ASSUME a >= 1, j < a PROVE FALSE
    BY <1>7
  <2>1. a \in 1 .. N
    BY <1>1, <1>7
  <2>2. offsets[j] + heights[j] <= offsets[a]
    BY <2>1 DEF AreRows
  <2> QED  BY <1>1, <1>7, <2>1, <2>2
<1> QED  BY <1>2, <1>7, <1>8, <1>9 DEF a, RowBefore

\* The last row in view is not before any that begins above where the view ends.
LEMMA LastIsVisible ==
    ASSUME NEW N, NEW offsets, NEW heights, NEW height, AreRows(N, offsets, heights, height),
           NEW top \in Int, NEW j \in 1 .. N, offsets[j] + heights[j] > top, offsets[j] < top + RowH
    PROVE  FindLastVisible(offsets, heights, top, RowH) \in Int
           /\ j <= FindLastVisible(offsets, heights, top, RowH)
<1> DEFINE A == {1} \cup {i \in DOMAIN offsets : offsets[i] + heights[i] > top
                                                  /\ offsets[i] < top + RowH}
<1>1. N \in Nat /\ N >= 1 /\ DOMAIN offsets = 1 .. N
  BY DEF AreRows
<1>2. A \in SUBSET (0 .. N) /\ j \in A
  BY <1>1
<1>3. FindLastVisible(offsets, heights, top, RowH) = Max(A)
  BY DEF FindLastVisible
<1> HIDE DEF A
<1>4. Max(A) \in A /\ \A x \in A : Max(A) >= x
  BY <1>1, <1>2, LargestIn
<1>5. Max(A) \in 0 .. N /\ Max(A) >= j
  BY <1>2, <1>4
<1> QED  BY <1>1, <1>3, <1>5

-----------------------------------------------------------------------------
(* The lanes of a row, and what is on it. *)
\* Tests are put into lanes one at a time.
LEMMA LanesUnfold ==
    ASSUME NEW tests, Len(TestsByStart(tests)) \in Nat
    PROVE  \E g : /\ g[0] = [tails |-> <<>>, lanes |-> <<>>] /\ AssignLanes(tests) = g[Len(TestsByStart(tests))]
                  /\ \A n \in 1 .. Len(TestsByStart(tests)) : g[n] = PlaceInLane(g[n - 1], TestsByStart(tests)[n])
<1> DEFINE N == Len(TestsByStart(tests))
           zero == [tails |-> <<>>, lanes |-> <<>>]
           F(q, n) == PlaceInLane(q, TestsByStart(tests)[n])
           Defines(f, m) == f = [n \in 0 .. m |-> IF n = 0 THEN zero ELSE F(f[n - 1], n)]
           done == {m \in 0 .. N : \E f : Defines(f, m)}
<1>1. N \in Nat
  OBVIOUS
<1>2. AssignLanes(tests) = (CHOOSE f : Defines(f, N))[N]
  BY DEF AssignLanes
<1> HIDE DEF F, N, zero
<1>3. 0 \in done
  <2> DEFINE f == [n \in 0 .. 0 |-> zero]
  <2>1. Defines(f, 0)
    OBVIOUS
  <2> HIDE DEF Defines, f
  <2> QED  BY <1>1, <2>1
<1>4. ASSUME NEW m \in 1 .. N, m - 1 \in done PROVE m \in done
  <2>1. PICK f : Defines(f, m - 1)
    BY <1>4
  <2>2. \A k \in 0 .. m - 1 : f[k] = IF k = 0 THEN zero ELSE F(f[k - 1], k)
    BY <2>1, Zenon
  <2> DEFINE g == [k \in 0 .. m |-> IF k = m THEN F(f[m - 1], m) ELSE f[k]]
  <2>3. g[m] = F(f[m - 1], m) /\ \A k \in 0 .. m - 1 : g[k] = f[k]
    BY <1>1
  <2>4. g = [k \in 0 .. m |-> g[k]]
    OBVIOUS
  <2> HIDE DEF g, Defines
  <2>5. \A k \in 0 .. m : g[k] = IF k = 0 THEN zero ELSE F(g[k - 1], k)
    <3> TAKE k \in 0 .. m
    <3>1. CASE k = m
      <4>1. m # 0 /\ m - 1 \in 0 .. m - 1
        OBVIOUS
      <4> QED  BY <2>3, <3>1, <4>1
    <3>2. CASE k # m
      <4>1. k \in 0 .. m - 1 /\ (k # 0 => k - 1 \in 0 .. m - 1)
        BY <3>2
      <4> QED  BY <2>2, <2>3, <4>1
    <3> QED  BY <3>1, <3>2
  <2>6. Defines(g, m)
    BY <2>4, <2>5 DEF Defines
  <2>7. m \in 0 .. N
    BY <1>1
  <2> QED  BY <2>6, <2>7
<1> HIDE DEF done
<1>5. 0 .. N \subseteq done
  BY <1>1, <1>3, <1>4, BoundedInduction
<1>6. N \in done
  BY <1>1, <1>5
<1> DEFINE g == CHOOSE f : Defines(f, N)
<1>7. Defines(g, N)
  <2> HIDE DEF Defines
  <2> QED  BY <1>6 DEF done
<1> HIDE DEF g
<1>8. \A n \in 0 .. N : g[n] = IF n = 0 THEN zero ELSE F(g[n - 1], n)
  BY <1>7, Zenon
<1>9. g[0] = zero /\ \A n \in 1 .. N : g[n] = F(g[n - 1], n)
  <2>1. 0 \in 0 .. N /\ \A n \in 1 .. N : n \in 0 .. N /\ n # 0
    BY <1>1
  <2> QED  BY <1>8, <2>1
<1>10. AssignLanes(tests) = g[N]
  BY <1>2 DEF g
<1> QED  BY <1>9, <1>10 DEF N, F, zero

\* Tests in lanes: none begins in its lane before those put there earlier have ended.
LanesOf(S) == [item : S, lane : Nat]
AreLanes(q, S, sorted, n) ==
    /\ q = [tails |-> q.tails, lanes |-> q.lanes]
    /\ q.tails \in Seq(Int) /\ q.lanes \in Seq(LanesOf(S)) /\ Len(q.lanes) = n
    /\ \A k \in 1 .. n : /\ q.lanes[k].item = sorted[k] /\ q.lanes[k].lane + 1 \in 1 .. Len(q.tails)
                         /\ q.lanes[k].item.end <= q.tails[q.lanes[k].lane + 1]
    /\ \A k, l \in 1 .. n : k < l /\ q.lanes[k].lane = q.lanes[l].lane
                            => q.lanes[k].item.end <= q.lanes[l].item.start

LEMMA LeastOf ==
    ASSUME NEW A \in SUBSET Nat, A # {}
    PROVE  Min(A) \in A /\ \A x \in A : Min(A) <= x
<1>1. PICK n \in A : \A m \in A : n <= m
  BY SmallestNumber
<1> QED  BY <1>1 DEF Min

LEMMA NextIsPlaced ==
    ASSUME NEW S, \A x \in S : IsBar(x), NEW sorted \in Seq(S), NEW q, NEW n \in 1 .. Len(sorted),
           AreLanes(q, S, sorted, n - 1)
    PROVE  AreLanes(PlaceInLane(q, sorted[n]), S, sorted, n)
<1>1. PICK test \in S : test = sorted[n]
  BY LenProperties
<1>2. IsBar(test)
  OBVIOUS
<1>3. PICK tails \in Seq(Int) : tails = q.tails
  BY DEF AreLanes
<1>4. PICK lanes \in Seq(LanesOf(S)) : lanes = q.lanes
  BY DEF AreLanes
<1> DEFINE m == n - 1
           T == Len(tails)
<1>5. /\ m \in Nat /\ n = m + 1 /\ Len(lanes) = m /\ T \in Nat /\ DOMAIN tails = 1 .. T
      /\ \A t \in 1 .. T : tails[t] \in Int
  BY <1>3, <1>4, LenProperties DEF AreLanes
<1>6. \A k \in 1 .. m : /\ lanes[k].item = sorted[k] /\ lanes[k].lane + 1 \in 1 .. T
                        /\ lanes[k].item.end <= tails[lanes[k].lane + 1]
  BY <1>3, <1>4 DEF AreLanes
<1>7. \A k, l \in 1 .. m : k < l /\ lanes[k].lane = lanes[l].lane
                           => lanes[k].item.end <= lanes[l].item.start
  BY <1>3, <1>4 DEF AreLanes
<1>8. \A k \in 1 .. m : lanes[k] \in LanesOf(S)
  BY <1>5, LenProperties
<1>9. \A k \in 1 .. m : /\ lanes[k].item \in S /\ lanes[k].lane \in Nat
                        /\ lanes[k].item.end \in Int /\ lanes[k].item.start \in Int
  BY <1>8 DEF LanesOf, IsBar
<1> HIDE DEF m, T
<1> DEFINE free == {l \in DOMAIN tails : tails[l] <= test.start}
           r == PlaceInLane(q, test)
\* Wherever the test goes, its lane is free, and is known to be taken up to its end.
<1>10. ASSUME NEW lane \in Nat, NEW after \in Seq(Int), T <= Len(after), lane + 1 \in 1 .. Len(after),
              after[lane + 1] = test.end, \A t \in 1 .. T : t # lane + 1 => after[t] = tails[t],
              lane + 1 <= T => tails[lane + 1] <= test.start,
              r = [tails |-> after, lanes |-> Append(lanes, InLane(test, lane))]
       PROVE  AreLanes(r, S, sorted, n)
  <2> DEFINE new == InLane(test, lane)
             q2 == Append(lanes, new)
  <2>1. new \in LanesOf(S) /\ new.item = test /\ new.lane = lane
    BY <1>1 DEF LanesOf, InLane
  <2> HIDE DEF new
  <2>2. /\ q2 \in Seq(LanesOf(S)) /\ Len(q2) = m + 1 /\ q2[m + 1] = new
        /\ \A k \in 1 .. m : q2[k] = lanes[k]
    BY <1>5, <2>1, AppendProperties
  <2>3. r.tails = after /\ r.lanes = q2 /\ r = [tails |-> r.tails, lanes |-> r.lanes]
    BY <1>10 DEF new
  <2> HIDE DEF q2, r
  <2>4. Len(after) \in Nat /\ \A t \in 1 .. Len(after) : after[t] \in Int
    BY LenProperties
  <2>5. ASSUME NEW k \in 1 .. n
        PROVE  /\ q2[k].item = sorted[k] /\ q2[k].lane + 1 \in 1 .. Len(after)
               /\ q2[k].item.end <= after[q2[k].lane + 1]
    <3>1. CASE k = n
      <4>1. q2[k] = new
        BY <1>5, <2>2, <3>1
      <4>2. test.end \in Int
        BY <1>2 DEF IsBar
      <4> QED  BY <1>1, <1>10, <2>1, <3>1, <4>1, <4>2
    <3>2. CASE k # n
      <4>1. k \in 1 .. m /\ q2[k] = lanes[k]
        BY <1>5, <2>2, <3>2
      <4> DEFINE a == lanes[k].lane + 1
      <4>2. /\ lanes[k].item = sorted[k] /\ a \in 1 .. T /\ lanes[k].item.end <= tails[a]
            /\ lanes[k].item.end \in Int /\ tails[a] \in Int
        BY <1>5, <1>6, <1>9, <4>1
      <4> HIDE DEF a
      <4>3. a \in 1 .. Len(after)
        BY <1>5, <1>10, <2>4, <4>2
      <4>4. CASE a = lane + 1
        <5>1. tails[a] <= test.start /\ after[a] = test.end
          BY <1>5, <1>10, <4>2, <4>4
        <5>2. lanes[k].item.end <= after[a]
          BY <1>2, <4>2, <5>1 DEF IsBar
        <5> QED  BY <4>1, <4>2, <4>3, <5>2 DEF a
      <4>5. CASE a # lane + 1
        <5>1. after[a] = tails[a]
          BY <1>10, <4>2, <4>5
        <5> QED  BY <4>1, <4>2, <4>3, <5>1 DEF a
      <4> QED  BY <4>4, <4>5
    <3> QED  BY <3>1, <3>2
  <2>6. ASSUME NEW k \in 1 .. n, NEW l \in 1 .. n, k < l, q2[k].lane = q2[l].lane
        PROVE  q2[k].item.end <= q2[l].item.start
    <3>1. k \in 1 .. m /\ q2[k] = lanes[k]
      BY <1>5, <2>2, <2>6
    <3>2. CASE l = n
      <4>1. q2[l] = new
        BY <1>5, <2>2, <3>2
      <4>2. lanes[k].lane = lane
        BY <2>1, <2>6, <3>1, <4>1
      <4>3. /\ lane + 1 \in 1 .. T /\ lanes[k].item.end <= tails[lane + 1]
            /\ lanes[k].item.end \in Int /\ tails[lane + 1] \in Int
        BY <1>5, <1>6, <1>9, <3>1, <4>2
      <4>4. tails[lane + 1] <= test.start
        BY <1>5, <1>10, <4>3
      <4>5. lanes[k].item.end <= test.start
        BY <1>2, <4>3, <4>4 DEF IsBar
      <4> QED  BY <2>1, <3>1, <4>1, <4>5
    <3>3. CASE l # n
      <4>1. l \in 1 .. m /\ q2[l] = lanes[l]
        BY <1>5, <2>2, <3>3
      <4> QED  BY <1>7, <2>6, <3>1, <4>1
    <3> QED  BY <3>2, <3>3
  <2>7. Len(q2) = n
    BY <1>5, <2>2
  <2> QED  BY <2>2, <2>3, <2>5, <2>6, <2>7 DEF AreLanes
<1>11. CASE free = {}
  <2>1. r = [tails |-> Append(tails, test.end), lanes |-> Append(lanes, InLane(test, T))]
    BY <1>3, <1>4, <1>11 DEF PlaceInLane, T
  <2>2. test.end \in Int
    BY <1>2 DEF IsBar
  <2> DEFINE after == Append(tails, test.end)
  <2>3. after \in Seq(Int) /\ Len(after) = T + 1 /\ after[T + 1] = test.end
        /\ \A t \in 1 .. T : after[t] = tails[t]
    BY <2>2, AppendProperties DEF T
  <2> HIDE DEF after, r
  <2>4. PICK lane \in Nat : lane = T
    BY <1>5
  <2>5. /\ T <= Len(after) /\ lane + 1 \in 1 .. Len(after) /\ after[lane + 1] = test.end
        /\ ~ (lane + 1 <= T) /\ \A t \in 1 .. T : after[t] = tails[t]
    BY <1>5, <2>3, <2>4
  <2>6. r = [tails |-> after, lanes |-> Append(lanes, InLane(test, lane))]
    BY <2>1, <2>4 DEF after
  <2>7. AreLanes(r, S, sorted, n)
    BY <1>10, <2>3, <2>5, <2>6
  <2> QED  BY <1>1, <2>7 DEF r
<1>12. CASE free # {}
  <2>1. free \in SUBSET Nat
    BY <1>5
  <2> DEFINE first == Min(free)
             after == [tails EXCEPT ![first] = test.end]
  <2>2. first \in free
    BY <1>12, <2>1, LeastOf
  <2>3. r = [tails |-> after, lanes |-> Append(lanes, InLane(test, first - 1))]
    BY <1>3, <1>4, <1>12 DEF PlaceInLane
  <2> HIDE DEF first, r
  <2>4. first \in 1 .. T /\ tails[first] <= test.start
    BY <1>5, <2>2
  <2>5. test.end \in Int
    BY <1>2 DEF IsBar
  <2>6. after \in Seq(Int) /\ Len(after) = T /\ after[first] = test.end
        /\ \A t \in 1 .. T : t # first => after[t] = tails[t]
    BY <1>5, <2>4, <2>5, ExceptSeq DEF T
  <2> HIDE DEF after
  <2>7. PICK lane \in Nat : lane = first - 1 /\ lane + 1 = first
    BY <1>5, <2>4
  <2>8. r = [tails |-> after, lanes |-> Append(lanes, InLane(test, lane))]
    BY <2>3, <2>7
  <2>9. T <= Len(after) /\ lane + 1 \in 1 .. Len(after)
    BY <1>5, <2>4, <2>6, <2>7
  <2>10. AreLanes(r, S, sorted, n)
    BY <1>10, <2>4, <2>6, <2>7, <2>8, <2>9
  <2> QED  BY <1>1, <2>10 DEF r
<1> QED  BY <1>11, <1>12

\* Every test is in a lane, and those of one lane do not overlap.
LEMMA TestsAreInLanes ==
    ASSUME NEW tests, IsSequence(tests), \A t \in ToSet(tests) : IsBar(t)
    PROVE  LET placed == AssignLanes(tests)
           IN  /\ Len(placed.tails) \in Nat
               /\ \A k, l \in ToSet(placed.lanes) : k # l /\ k.lane = l.lane =>
                      k.item.end <= l.item.start \/ l.item.end <= k.item.start
               /\ \A t \in ToSet(tests) : \E l \in ToSet(placed.lanes) : l.item = t
               /\ \A l \in ToSet(placed.lanes) : l.item \in ToSet(tests)
<1> DEFINE S == ToSet(tests)
           placed == AssignLanes(tests)
<1>1. PICK sorted : sorted = TestsByStart(tests)
  OBVIOUS
<1>2. sorted \in Seq(S) /\ ToSet(sorted) = S
  <2>1. tests \in Seq(S)
    BY DEF IsSequence
  <2> HIDE DEF S
  <2>2. TestsByStart(tests) \in Seq(S) /\ ToSet(TestsByStart(tests)) = ToSet(tests)
    BY <2>1, SortedKeeps DEF TestsByStart
  <2> QED  BY <1>1, <2>2 DEF S
<1> HIDE DEF S
<1> DEFINE N == Len(sorted)
<1>3. N \in Nat /\ DOMAIN sorted = 1 .. N
  BY <1>2, LenProperties
<1>4. PICK g : /\ g[0] = [tails |-> <<>>, lanes |-> <<>>] /\ placed = g[N]
               /\ \A n \in 1 .. N : g[n] = PlaceInLane(g[n - 1], sorted[n])
  BY <1>1, <1>3, LanesUnfold
<1> HIDE DEF placed
<1> DEFINE done == {n \in 0 .. N : AreLanes(g[n], S, sorted, n)}
<1>5. 0 \in done
  <2>1. g[0].tails = <<>> /\ g[0].lanes = <<>>
    BY <1>4
  <2>2. AreLanes(g[0], S, sorted, 0)
    BY <1>4, <2>1 DEF AreLanes
  <2> QED  BY <1>3, <2>2
<1>6. ASSUME NEW n \in 1 .. N, n - 1 \in done PROVE n \in done
  <2>1. PICK q : q = g[n - 1]
    OBVIOUS
  <2>2. AreLanes(q, S, sorted, n - 1)
    BY <1>6, <2>1
  <2>3. \A x \in S : IsBar(x)
    BY DEF S
  <2>4. AreLanes(PlaceInLane(q, sorted[n]), S, sorted, n)
    BY <1>2, <2>2, <2>3, NextIsPlaced
  <2>5. AreLanes(g[n], S, sorted, n) /\ n \in 0 .. N
    BY <1>3, <1>4, <2>1, <2>4
  <2> QED  BY <2>5
<1> HIDE DEF done
<1>7. 0 .. N \subseteq done
  BY <1>3, <1>5, <1>6, BoundedInduction
<1>8. AreLanes(placed, S, sorted, N)
  BY <1>3, <1>4, <1>7 DEF done
<1>9. Len(placed.tails) \in Nat /\ DOMAIN placed.lanes = 1 .. N
  BY <1>8, LenProperties DEF AreLanes
<1>10. ASSUME NEW k \in ToSet(placed.lanes), NEW l \in ToSet(placed.lanes), k # l, k.lane = l.lane
       PROVE  k.item.end <= l.item.start \/ l.item.end <= k.item.start
  <2>1. PICK i \in 1 .. N : k = placed.lanes[i]
    BY <1>9 DEF ToSet
  <2>2. PICK j \in 1 .. N : l = placed.lanes[j]
    BY <1>9 DEF ToSet
  <2>3. i < j \/ j < i
    BY <1>3, <1>10, <2>1, <2>2
  <2>4. CASE i < j
    BY <1>8, <1>10, <2>1, <2>2, <2>4 DEF AreLanes
  <2>5. CASE j < i
    BY <1>8, <1>10, <2>1, <2>2, <2>5 DEF AreLanes
  <2> QED  BY <2>3, <2>4, <2>5
<1>11. ASSUME NEW t \in S PROVE \E l \in ToSet(placed.lanes) : l.item = t
  <2>1. PICK i \in 1 .. N : t = sorted[i]
    BY <1>2, <1>3 DEF ToSet
  <2>2. placed.lanes[i].item = t /\ placed.lanes[i] \in ToSet(placed.lanes)
    BY <1>8, <1>9, <2>1 DEF AreLanes, ToSet
  <2> QED  BY <2>2
<1>12. ASSUME NEW l \in ToSet(placed.lanes) PROVE l.item \in S
  <2>1. PICK j \in 1 .. N : l = placed.lanes[j]
    BY <1>9 DEF ToSet
  <2> QED  BY <1>2, <1>3, <1>8, <2>1 DEF AreLanes, ToSet
<1> QED  BY <1>9, <1>10, <1>11, <1>12 DEF placed, S

\* A bundle has the tests of its item, in lanes, and no other.
IsBundle(b, items) ==
    /\ b.item \in ToSet(items) /\ ~IsChip(b.item) /\ b.laneCount \in Nat
    /\ \A k, l \in ToSet(b.lanes) : k # l /\ k.lane = l.lane =>
           k.item.end <= l.item.start \/ l.item.end <= k.item.start
    /\ \A t \in ToSet(items) : IsChip(t) /\ t.parent = b.item.id =>
           \E l \in ToSet(b.lanes) : l.item = t
    /\ \A l \in ToSet(b.lanes) : l.item \in ToSet(items) /\ IsChip(l.item)

LEMMA BundlesAre ==
    ASSUME NEW items, IsSequence(items), \A x \in ToSet(items) : IsBar(x)
    PROVE  \E N \in Nat : /\ DOMAIN GroupIntoBundles(items) = 1 .. N
                          /\ \A i \in 1 .. N : IsBundle(GroupIntoBundles(items)[i], items)
                          /\ \A p \in ToSet(items) : ~IsChip(p) =>
                                 \E i \in 1 .. N : GroupIntoBundles(items)[i].item = p
<1> DEFINE kept == {x \in ToSet(items) : ~IsChip(x)}
           parents == Only(items, kept)
           earlier == {p \in Pairs(parents) : IsAbove(p[1], p[2])}
<1>1. IsSequence(parents) /\ ToSet(parents) = ToSet(items) \cap kept
  <2> HIDE DEF kept
  <2> QED  BY OnlyOwn
<1>2. PICK rows : rows = ParentsByStart(items)
  OBVIOUS
<1>3. rows = Sorted(parents, earlier)
  BY <1>2 DEF ParentsByStart
<1> HIDE DEF parents, earlier
<1>4. rows \in Seq(ToSet(parents)) /\ ToSet(rows) = ToSet(parents)
  <2>1. parents \in Seq(ToSet(parents))
    BY <1>1 DEF IsSequence
  <2>2. /\ Sorted(parents, earlier) \in Seq(ToSet(parents))
        /\ ToSet(Sorted(parents, earlier)) = ToSet(parents)
    BY <2>1, SortedKeeps
  <2> QED  BY <1>3, <2>2
<1> DEFINE N == Len(rows)
<1>5. N \in Nat /\ DOMAIN rows = 1 .. N /\ \A i \in 1 .. N : rows[i] \in ToSet(items) /\ ~IsChip(rows[i])
  <2>1. N \in Nat /\ DOMAIN rows = 1 .. N /\ \A i \in 1 .. N : rows[i] \in ToSet(parents)
    BY <1>4, LenProperties
  <2> QED  BY <1>1, <2>1 DEF kept
<1>6. GroupIntoBundles(items) = [i \in 1 .. N |-> BundleOf(items, rows[i])]
  BY <1>2, <1>5 DEF GroupIntoBundles
<1> HIDE DEF N
<1>7. ASSUME NEW i \in 1 .. N PROVE IsBundle(BundleOf(items, rows[i]), items)
  <2>1. PICK row \in ToSet(items) : row = rows[i] /\ ~IsChip(row)
    BY <1>5
  <2> DEFINE made == BundleOf(items, row)
             mine == {t \in ToSet(items) : IsChip(t) /\ t.parent = row.id}
  <2>2. PICK tests : tests = ChipsOf(items, row.id)
    OBVIOUS
  <2>3. IsSequence(tests) /\ ToSet(tests) = ToSet(items) \cap mine
    <3>1. tests = Only(items, mine)
      BY <2>2 DEF ChipsOf
    <3> HIDE DEF mine
    <3> QED  BY <3>1, OnlyOwn
  <2>4. \A t \in ToSet(tests) : IsBar(t)
    BY <2>3
  <2>5. PICK placed : placed = AssignLanes(tests)
    OBVIOUS
  <2>6. /\ Len(placed.tails) \in Nat
        /\ \A k, l \in ToSet(placed.lanes) : k # l /\ k.lane = l.lane =>
               k.item.end <= l.item.start \/ l.item.end <= k.item.start
        /\ \A t \in ToSet(tests) : \E l \in ToSet(placed.lanes) : l.item = t
        /\ \A l \in ToSet(placed.lanes) : l.item \in ToSet(tests)
    BY <2>3, <2>4, <2>5, TestsAreInLanes
  <2>7. made.item = row /\ made.lanes = placed.lanes /\ made.laneCount = Len(placed.tails)
    BY <2>2, <2>5 DEF BundleOf
  <2> HIDE DEF made
  <2>8. \A t \in ToSet(items) : IsChip(t) /\ t.parent = row.id => t \in ToSet(tests)
    BY <2>3
  <2>9. \A t \in ToSet(tests) : t \in ToSet(items) /\ IsChip(t)
    BY <2>3
  <2>10. IsBundle(made, items)
    BY <2>1, <2>6, <2>7, <2>8, <2>9 DEF IsBundle
  <2> QED  BY <2>1, <2>10 DEF made
<1>8. ASSUME NEW p \in ToSet(items), ~IsChip(p) PROVE \E i \in 1 .. N : BundleOf(items, rows[i]).item = p
  <2>1. PICK i \in 1 .. N : p = rows[i]
    BY <1>1, <1>4, <1>5, <1>8 DEF ToSet
  <2> QED  BY <2>1 DEF BundleOf
<1> DEFINE bundles == GroupIntoBundles(items)
<1>9. /\ DOMAIN bundles = 1 .. N
      /\ \A i \in 1 .. N : bundles[i] = BundleOf(items, rows[i])
  BY <1>6
<1> HIDE DEF bundles
<1>10. \A i \in 1 .. N : IsBundle(bundles[i], items)
  BY <1>7, <1>9
<1>11. \A p \in ToSet(items) : ~IsChip(p) => \E i \in 1 .. N : bundles[i].item = p
  BY <1>8, <1>9
<1>12. \E M \in Nat : /\ DOMAIN bundles = 1 .. M
                      /\ \A i \in 1 .. M : IsBundle(bundles[i], items)
                      /\ \A p \in ToSet(items) : ~IsChip(p) =>
                             \E i \in 1 .. M : bundles[i].item = p
  <2>1. N \in Nat
    BY <1>5 DEF N
  <2> QED  BY <2>1, <1>9, <1>10, <1>11
<1> QED  BY <1>12 DEF bundles

\* What is listed are items of the run; with its tests, if they are shown.
LEMMA ListedAreItems ==
    ASSUME NEW g, IsSequence(g.items), NEW f
    PROVE  LET data == FilteredData(g, f)
           IN  /\ IsSequence(data) /\ ToSet(data) \subseteq ToSet(g.items)
               /\ \A p \in ToSet(data), t \in ToSet(g.items) :
                      f.showTests /\ ~IsChip(p) /\ IsChip(t) /\ t.parent = p.id => t \in ToSet(data)
<1> DEFINE items == g.items
           parents == FilteredParents(g, f)
           shown == DisplayedParents(g, f, parents)
           mine == {t \in ToSet(items) : IsChip(t) /\ t.parent \in ItemIds(shown)}
           chips == Only(items, mine)
           data == FilteredData(g, f)
<1>1. IsSequence(parents) /\ ToSet(parents) \subseteq ToSet(items)
  BY OnlyOwn DEF FilteredParents
<1> HIDE DEF parents
<1>2. IsSequence(shown) /\ ToSet(shown) \subseteq ToSet(items)
  BY <1>1, OnlyOwn DEF DisplayedParents
<1> HIDE DEF shown
<1>3. IsSequence(chips) /\ ToSet(chips) = ToSet(items) \cap mine
  <2> HIDE DEF mine
  <2> QED  BY OnlyOwn
<1> HIDE DEF chips
<1>4. data = IF f.showTests THEN shown \o chips ELSE shown
  BY DEF FilteredData, WithChips, chips, mine, shown, parents
<1> HIDE DEF data
<1>5. CASE ~f.showTests
  <2>1. data = shown
    BY <1>4, <1>5
  <2> QED  BY <1>2, <1>5, <2>1 DEF data
<1>6. CASE f.showTests
  <2>1. data = shown \o chips
    BY <1>4, <1>6
  <2>2. IsSequence(data) /\ ToSet(data) = ToSet(shown) \cup ToSet(chips)
    BY <1>2, <1>3, <2>1, ConcatOwn
  <2>3. ASSUME NEW p \in ToSet(data), NEW t \in ToSet(items), ~IsChip(p), IsChip(t), t.parent = p.id
        PROVE  t \in ToSet(data)
    <3>1. p \in ToSet(shown)
      BY <1>3, <2>2, <2>3
    <3>2. p.id \in ItemIds(shown)
      BY <3>1 DEF ItemIds, ToSet
    <3> QED  BY <1>3, <2>2, <2>3, <3>2
  <2> QED  BY <1>2, <1>3, <2>2, <2>3 DEF data
<1> QED  BY <1>5, <1>6

\* The zoom keeps what it does not cut off.
LEMMA ZoomKeeps ==
    ASSUME NEW data, IsSequence(data), NEW window
    PROVE  LET seen == InWindow(data, window)
           IN  /\ IsSequence(seen) /\ ToSet(seen) \subseteq ToSet(data)
               /\ \A t \in ToSet(data) : window = FullRun \/ Overlaps(t, window) => t \in ToSet(seen)
<1> DEFINE kept == {i \in ToSet(data) :
                        Overlaps(i, window) \/ \E t \in ToSet(ChipsOf(data, i.id)) : Overlaps(t, window)}
<1>1. CASE window = FullRun
  BY <1>1 DEF InWindow
<1>2. CASE window # FullRun
  <2>1. InWindow(data, window) = Only(data, kept)
    BY <1>2 DEF InWindow
  <2>2. \A t \in ToSet(data) : Overlaps(t, window) => t \in kept
    OBVIOUS
  <2> HIDE DEF kept
  <2>3. IsSequence(Only(data, kept)) /\ ToSet(Only(data, kept)) = ToSet(data) \cap kept
    BY OnlyOwn
  <2> QED  BY <1>2, <2>1, <2>2, <2>3
<1> QED  BY <1>1, <1>2

\* A chart whose rows are of bundles.
IsChart(chart, g, f, N) ==
    /\ AreRows(N, chart.offsets, chart.heights, chart.height) /\ DOMAIN chart.bundles = 1 .. N
    /\ \A i \in 1 .. N : \A k, l \in ToSet(chart.bundles[i].lanes) : k # l /\ k.lane = l.lane =>
           k.item.end <= l.item.start \/ l.item.end <= k.item.start
    /\ \A i \in 1 .. N : \A t \in ToSet(g.items) :
           /\ f.showTests /\ IsChip(t) /\ t.parent = chart.bundles[i].item.id
           /\ f.window = FullRun \/ Overlaps(t, f.window)
           => \E l \in ToSet(chart.bundles[i].lanes) : l.item = t

LEMMA ChartIsOfRows ==
    ASSUME NEW g, IsSequence(g.items), \A x \in ToSet(g.items) : IsBar(x), NEW f
    PROVE  \E N \in Nat : IsChart(ChartOf(g, f), g, f, N)
<1> DEFINE data == FilteredData(g, f)
           seen == InWindow(data, f.window)
           bundles == GroupIntoBundles(seen)
           heights == [i \in DOMAIN bundles |-> BundleRowHeight(bundles[i], f.showTests)]
           chart == ChartOf(g, f)
<1>1. /\ chart.bundles = bundles /\ chart.heights = heights
      /\ chart.offsets = Front(OffsetsOf(heights)) /\ chart.height = Last(OffsetsOf(heights))
  BY DEF ChartOf, ChartOfData, ChartOfBundles, ChartOfRows, Chart
<1> HIDE DEF chart
<1>2. /\ IsSequence(data) /\ ToSet(data) \subseteq ToSet(g.items)
      /\ \A p \in ToSet(data), t \in ToSet(g.items) :
             f.showTests /\ ~IsChip(p) /\ IsChip(t) /\ t.parent = p.id => t \in ToSet(data)
  BY ListedAreItems
<1> HIDE DEF data
<1>3. /\ IsSequence(seen) /\ ToSet(seen) \subseteq ToSet(data)
      /\ \A t \in ToSet(data) : f.window = FullRun \/ Overlaps(t, f.window) => t \in ToSet(seen)
  BY <1>2, ZoomKeeps
<1> HIDE DEF seen
<1>4. \A x \in ToSet(seen) : IsBar(x)
  BY <1>2, <1>3
<1>5. PICK N \in Nat : DOMAIN bundles = 1 .. N /\ \A i \in 1 .. N : IsBundle(bundles[i], seen)
  BY <1>3, <1>4, BundlesAre
<1> HIDE DEF bundles
<1>6. heights \in [1 .. N -> Nat \ {0}]
  <2>1. ASSUME NEW i \in 1 .. N PROVE BundleRowHeight(bundles[i], f.showTests) \in Nat \ {0}
    <3>1. PICK count \in Nat : count = bundles[i].laneCount
      BY <1>5 DEF IsBundle
    <3>2. 44 + 5 + count * 14 + 5 \in Nat \ {0}
      OBVIOUS
    <3> QED  BY <3>1, <3>2 DEF BundleRowHeight, RowH, HullPad, TestLaneH
  <2> QED  BY <1>5, <2>1
<1> HIDE DEF heights
<1>7. AreRows(N, chart.offsets, chart.heights, chart.height)
  BY <1>1, <1>6, OffsetsAreRows
<1>8. ASSUME NEW i \in 1 .. N, NEW t \in ToSet(g.items), f.showTests, IsChip(t),
             t.parent = bundles[i].item.id, f.window = FullRun \/ Overlaps(t, f.window)
      PROVE  \E l \in ToSet(bundles[i].lanes) : l.item = t
  <2>1. bundles[i].item \in ToSet(data) /\ ~IsChip(bundles[i].item)
    BY <1>3, <1>5 DEF IsBundle
  <2>2. t \in ToSet(seen)
    BY <1>2, <1>3, <1>8, <2>1
  <2> QED  BY <1>5, <1>8, <2>2 DEF IsBundle
<1>9. \A i \in 1 .. N : \A k, l \in ToSet(bundles[i].lanes) : k # l /\ k.lane = l.lane =>
           k.item.end <= l.item.start \/ l.item.end <= k.item.start
  BY <1>5 DEF IsBundle
<1>10. IsChart(chart, g, f, N)
  BY <1>1, <1>5, <1>7, <1>8, <1>9 DEF IsChart
<1> QED  BY <1>10 DEF chart

LEMMA FoundOnChart ==
    ASSUME TimelineInv
    PROVE  RowsAreFound
<1> DEFINE chart == ChartOf(gantt, filters)
           offsets == chart.offsets
           heights == chart.heights
           LastLine(i) == offsets[i] + heights[i] - 1
<1>1. IsSequence(gantt.items) /\ \A x \in ToSet(gantt.items) : IsBar(x)
  BY DEF TimelineInv, AreBars, IsQueue, IsSequence, ToSet
<1>2. PICK N \in Nat : IsChart(chart, gantt, filters, N)
  BY <1>1, ChartIsOfRows
<1> HIDE DEF chart
<1>3. AreRows(N, offsets, heights, chart.height) /\ DOMAIN chart.bundles = 1 .. N
  BY <1>2 DEF IsChart
<1>4. \A i \in 1 .. N : offsets[i] \in Nat /\ heights[i] \in Nat /\ heights[i] >= 1
  BY <1>3 DEF AreRows
<1> HIDE DEF offsets, heights
<1>5. ASSUME NEW i \in 1 .. N, NEW y \in {offsets[i], LastLine(i)}
      PROVE  FindBundleAtOffset(offsets, heights, y) = i
  <2>1. y \in Int /\ offsets[i] <= y /\ y < offsets[i] + heights[i]
    BY <1>4
  <2> QED  BY <1>3, <2>1, RowIsFound
<1>6. FindBundleAtOffset(offsets, heights, chart.height) = 0
  BY <1>3, NoRowIsFound
<1>7. ASSUME NEW i \in 1 .. N, NEW j \in 1 .. N, NEW top \in {offsets[i], LastLine(i)},
             offsets[j] < top + RowH, LastLine(j) >= top
      PROVE  j \in VisibleRows(chart, top, RowH)
  <2>1. top \in Int /\ offsets[j] + heights[j] > top
    BY <1>4, <1>7
  <2> HIDE DEF LastLine
  <2>2. FindFirstVisible(offsets, top) \in Int /\ FindFirstVisible(offsets, top) <= j
    BY <1>3, <2>1, FirstIsVisible
  <2>3. FindLastVisible(offsets, heights, top, RowH) \in Int
        /\ j <= FindLastVisible(offsets, heights, top, RowH)
    BY <1>3, <1>7, <2>1, LastIsVisible
  <2> QED  BY <2>2, <2>3 DEF VisibleRows, offsets, heights
<1>8. ASSUME NEW i \in 1 .. N
      PROVE  /\ \A k, l \in ToSet(chart.bundles[i].lanes) : k # l /\ k.lane = l.lane =>
                    k.item.end <= l.item.start \/ l.item.end <= k.item.start
             /\ \A t \in ToSet(gantt.items) :
                    /\ filters.showTests /\ IsChip(t) /\ t.parent = chart.bundles[i].item.id
                    /\ filters.window = FullRun \/ Overlaps(t, filters.window)
                    => \E l \in ToSet(chart.bundles[i].lanes) : l.item = t
  BY <1>2 DEF IsChart
<1>9. ChartRowsAreFound(chart)
  BY <1>3, <1>5, <1>6, <1>7, <1>8 DEF ChartRowsAreFound, offsets, heights
<1> QED  BY <1>9 DEF RowsAreFound, chart

(* Of whatever run, however it is filtered and zoomed: every row is found again at every height *)
(* it has, and drawn wherever one scrolls to it; the tests of a lane do not overlap; and a test *)
(* is shown on the row of its parent (hit-test.ts:31, canvas-draw.ts:645).                      *)
THEOREM RowsAreFoundAlways == Spec => []RowsAreFound
<1>1. TimelineInv /\ [Next]_investigationVars => TimelineInv'
  BY TimelineStep
<1> QED  BY <1>1, InitTimeline, FoundOnChart, PTL DEF Spec

-----------------------------------------------------------------------------
(* The edges on the timeline.  Lists that hold each of their members once. *)
LEMMA OnceIs ==
    ASSUME NEW q
    PROVE  OnceEach(q) <=> IsSequence(q) /\ \A i, j \in 1 .. Len(q) : q[i] = q[j] => i = j
<1>1. IsSequence(q) => DOMAIN q = 1 .. Len(q)
  BY LenProperties DEF IsSequence
<1> QED  BY <1>1 DEF OnceEach, IsSequence

\* As many as their members.
LEMMA OnceIsCounted ==
    ASSUME NEW q, OnceEach(q)
    PROVE  IsFiniteSet(ToSet(q)) /\ Len(q) \in Nat /\ Cardinality(ToSet(q)) = Len(q)
<1>1. q \in Seq(ToSet(q)) /\ \A i, j \in 1 .. Len(q) : q[i] = q[j] => i = j
  BY OnceIs DEF IsSequence
<1>2. Cardinality(ToSet(q)) = Len(q)
  BY <1>1, NoneTwiceIs DEF NoneTwice
<1> DEFINE N == Len(q)
           T == ToSet(q)
<1>3. N \in Nat /\ DOMAIN q = 1 .. N /\ q = [i \in 1 .. N |-> q[i]]
  BY <1>1, LenProperties
<1>4. (\A i \in 1 .. N : q[i] \in T) /\ \A t \in T : \E i \in 1 .. N : q[i] = t
  BY <1>3 DEF ToSet
<1>5. q \in Surjection(1 .. N, T)
  <2> HIDE DEF N, T
  <2> QED  BY <1>3, <1>4 DEF Surjection
<1>6. IsFiniteSet(1 .. N)
  <2>1. 1 \in Int /\ N \in Int
    BY <1>3
  <2> HIDE DEF N, T
  <2> QED  BY ONLY <2>1, FS_Interval
<1>7. IsFiniteSet(T)
  <2> HIDE DEF N, T
  <2> QED  BY ONLY <1>5, <1>6, FS_Surjection
<1> QED  BY <1>2, <1>3, <1>7

LEMMA AppendOnce ==
    ASSUME NEW q, OnceEach(q), NEW x, x \notin ToSet(q)
    PROVE  OnceEach(Append(q, x)) /\ ToSet(Append(q, x)) = ToSet(q) \cup {x}
<1> DEFINE r == Append(q, x)
           N == Len(q)
<1>1. IsSequence(q) /\ \A i, j \in 1 .. N : q[i] = q[j] => i = j
  BY OnceIs
<1>2. IsSequence(r) /\ ToSet(r) = ToSet(q) \cup {x}
  BY <1>1, AppendOwn
<1>3. N \in Nat /\ \A i \in 1 .. N : q[i] \in ToSet(q)
  BY <1>1, OwnMembers DEF IsSequence
<1>4. Len(r) = N + 1 /\ r[N + 1] = x /\ \A i \in 1 .. N : r[i] = q[i]
  BY <1>1, AppendProperties DEF IsSequence
<1> HIDE DEF r, N
<1>5. \A i, j \in 1 .. N + 1 : r[i] = r[j] => i = j
  <2> SUFFICES ASSUME NEW i \in 1 .. N + 1, NEW j \in 1 .. N + 1, r[i] = r[j] PROVE i = j
    OBVIOUS
  <2>1. (i = N + 1 \/ i \in 1 .. N) /\ (j = N + 1 \/ j \in 1 .. N)
    BY <1>3
  <2> QED  BY <1>1, <1>3, <1>4, <2>1
<1> QED  BY <1>2, <1>4, <1>5, OnceIs DEF r

KeptOf(r, x, kept) == IF x \in kept THEN Append(r, x) ELSE r

LEMMA OnlyUnfolds ==
    ASSUME NEW s, NEW kept, Len(s) \in Nat
    PROVE  \E g : /\ g[0] = <<>> /\ Only(s, kept) = g[Len(s)]
                  /\ \A n \in 1 .. Len(s) : g[n] = KeptOf(g[n - 1], s[n], kept)
<1> DEFINE N == Len(s)
           zero == <<>>
           F(q, n) == KeptOf(q, s[n], kept)
           Defines(f, m) == f = [n \in 0 .. m |-> IF n = 0 THEN zero ELSE F(f[n - 1], n)]
           done == {m \in 0 .. N : \E f : Defines(f, m)}
<1>1. N \in Nat
  OBVIOUS
<1>2. Only(s, kept) = (CHOOSE f : Defines(f, N))[N]
  BY DEF Only, KeptOf
<1> HIDE DEF F, N, zero
<1>3. 0 \in done
  <2> DEFINE f == [n \in 0 .. 0 |-> zero]
  <2>1. Defines(f, 0)
    OBVIOUS
  <2> HIDE DEF Defines, f
  <2> QED  BY <1>1, <2>1
<1>4. ASSUME NEW m \in 1 .. N, m - 1 \in done PROVE m \in done
  <2>1. PICK f : Defines(f, m - 1)
    BY <1>4
  <2>2. \A k \in 0 .. m - 1 : f[k] = IF k = 0 THEN zero ELSE F(f[k - 1], k)
    BY <2>1, Zenon
  <2> DEFINE g == [k \in 0 .. m |-> IF k = m THEN F(f[m - 1], m) ELSE f[k]]
  <2>3. g[m] = F(f[m - 1], m) /\ \A k \in 0 .. m - 1 : g[k] = f[k]
    BY <1>1
  <2>4. g = [k \in 0 .. m |-> g[k]]
    OBVIOUS
  <2> HIDE DEF g, Defines
  <2>5. \A k \in 0 .. m : g[k] = IF k = 0 THEN zero ELSE F(g[k - 1], k)
    <3> TAKE k \in 0 .. m
    <3>1. CASE k = m
      <4>1. m # 0 /\ m - 1 \in 0 .. m - 1
        OBVIOUS
      <4> QED  BY <2>3, <3>1, <4>1
    <3>2. CASE k # m
      <4>1. k \in 0 .. m - 1 /\ (k # 0 => k - 1 \in 0 .. m - 1)
        BY <3>2
      <4> QED  BY <2>2, <2>3, <4>1
    <3> QED  BY <3>1, <3>2
  <2>6. Defines(g, m)
    BY <2>4, <2>5 DEF Defines
  <2>7. m \in 0 .. N
    BY <1>1
  <2> QED  BY <2>6, <2>7
<1> HIDE DEF done
<1>5. 0 .. N \subseteq done
  BY <1>1, <1>3, <1>4, BoundedInduction
<1>6. N \in done
  BY <1>1, <1>5
<1> DEFINE g == CHOOSE f : Defines(f, N)
<1>7. Defines(g, N)
  <2> HIDE DEF Defines
  <2> QED  BY <1>6 DEF done
<1> HIDE DEF g
<1>8. \A n \in 0 .. N : g[n] = IF n = 0 THEN zero ELSE F(g[n - 1], n)
  BY <1>7, Zenon
<1>9. g[0] = zero /\ \A n \in 1 .. N : g[n] = F(g[n - 1], n)
  <2>1. 0 \in 0 .. N /\ \A n \in 1 .. N : n \in 0 .. N /\ n # 0
    BY <1>1
  <2> QED  BY <1>8, <2>1
<1>10. Only(s, kept) = g[N]
  BY <1>2 DEF g
<1> QED  BY <1>9, <1>10 DEF N, F, zero

\* What is kept of a list, and the list sorted, hold once what the list does.
LEMMA OnlyOnce ==
    ASSUME NEW s, OnceEach(s), NEW kept
    PROVE  OnceEach(Only(s, kept)) /\ ToSet(Only(s, kept)) = ToSet(s) \cap kept
<1>1. IsSequence(s) /\ \A i, j \in 1 .. Len(s) : s[i] = s[j] => i = j
  BY OnceIs
<1> DEFINE N == Len(s)
<1>2. N \in Nat
  BY <1>1, OwnMembers DEF IsSequence
<1>3. PICK g : /\ g[0] = <<>> /\ Only(s, kept) = g[N]
               /\ \A n \in 1 .. N : g[n] = KeptOf(g[n - 1], s[n], kept)
  BY <1>2, OnlyUnfolds
<1> HIDE DEF N
<1> DEFINE done == {n \in 0 .. N : OnceEach(g[n]) /\ ToSet(g[n]) \subseteq FirstPart(s, n)}
<1>4. 0 \in done
  <2>1. OnceEach(<<>>) /\ ToSet(<<>>) = {}
    BY DEF OnceEach, ToSet
  <2> QED  BY <1>2, <1>3, <2>1
<1>5. ASSUME NEW n \in 1 .. N, n - 1 \in done PROVE n \in done
  <2> DEFINE q == g[n - 1]
  <2>1. OnceEach(q) /\ ToSet(q) \subseteq FirstPart(s, n - 1) /\ n \in 0 .. N
    BY <1>2, <1>5
  <2>2. \A i \in 1 .. n - 1 : i \in 1 .. N /\ i # n
    BY <1>2
  <2>3. s[n] \notin FirstPart(s, n - 1)
    BY <1>1, <2>2 DEF FirstPart, N
  <2>4. FirstPart(s, n - 1) \subseteq FirstPart(s, n) /\ s[n] \in FirstPart(s, n)
    BY <1>2 DEF FirstPart
  <2>5. g[n] = KeptOf(q, s[n], kept)
    BY <1>3
  <2> HIDE DEF q
  <2>6. OnceEach(Append(q, s[n])) /\ ToSet(Append(q, s[n])) = ToSet(q) \cup {s[n]}
    BY <2>1, <2>3, AppendOnce
  <2> QED  BY <2>1, <2>4, <2>5, <2>6 DEF KeptOf
<1> HIDE DEF done
<1>6. N \in done
  <2>1. 0 .. N \subseteq done
    BY <1>2, <1>4, <1>5, BoundedInduction
  <2> QED  BY <1>2, <2>1
<1>7. ToSet(Only(s, kept)) = ToSet(s) \cap kept
  BY <1>1, OnlyOwn
<1> QED  BY <1>3, <1>6, <1>7 DEF done

LEMMA SortedOnce ==
    ASSUME NEW s, OnceEach(s), NEW earlier
    PROVE  /\ OnceEach(Sorted(s, earlier)) /\ ToSet(Sorted(s, earlier)) = ToSet(s)
           /\ Len(Sorted(s, earlier)) = Len(s)
<1> DEFINE S == ToSet(s)
           N == Len(s)
           q == Sorted(s, earlier)
<1>1. s \in Seq(S) /\ N \in Nat /\ Cardinality(S) = N /\ \A n \in 1 .. N : s[n] \in S
  <2>1. s \in Seq(S)
    BY OnceIs DEF IsSequence
  <2> QED  BY <2>1, OnceIsCounted, OwnMembers
<1>2. q \in Seq(S) /\ ToSet(q) = S
  <2> HIDE DEF S
  <2> QED  BY <1>1, SortedKeeps DEF S
<1>3. PICK g \in [0 .. N -> Seq(S)] : Inserts(g, s, earlier)
  <2> HIDE DEF S
  <2> QED  BY <1>1, SortedInserts
<1>4. /\ g[0] = <<>> /\ \A n \in 1 .. N : g[n] = Insert(g[n - 1], s[n], earlier)
      /\ q = g[N]
  BY <1>3 DEF Inserts
<1> HIDE DEF S, N, q
<1> DEFINE done == {n \in 0 .. N : Len(g[n]) = n}
<1>5. 0 \in done
  BY <1>1, <1>4
<1>6. ASSUME NEW n \in 1 .. N, n - 1 \in done PROVE n \in done
  <2>1. g[n - 1] \in Seq(S) /\ s[n] \in S /\ n \in 0 .. N /\ n - 1 \in 0 .. N
    BY <1>1, <1>3
  <2>2. PICK r \in Seq(S), x \in S : r = g[n - 1] /\ x = s[n]
    BY <2>1
  <2>3. Len(Insert(r, x, earlier)) = Len(r) + 1
    BY InsertMembers
  <2> QED  BY <1>4, <1>6, <2>1, <2>2, <2>3
<1> HIDE DEF done
<1>7. 0 .. N \subseteq done
  BY <1>1, <1>5, <1>6, BoundedInduction
<1>8. Len(q) = N
  BY <1>1, <1>4, <1>7 DEF done
<1>9. \A i, j \in 1 .. Len(q) : q[i] = q[j] => i = j
  BY <1>1, <1>2, <1>8, NoneTwiceIs DEF NoneTwice
<1>10. IsSequence(q)
  BY <1>2 DEF IsSequence
<1>11. OnceEach(q)
  BY <1>9, <1>10, OnceIs
<1> QED  BY <1>2, <1>8, <1>11 DEF q, S, N

\* The neighbourhood, hop by hop.
Nearer(g, leg, within, ids) == ids \cup {w \in within : \E v \in ids : AdjacentTo(g, leg, v, w)}

LEMMA NearUnfolds ==
    ASSUME NEW g, NEW leg, NEW within, NEW from, NEW steps, steps \in Nat
    PROVE  \E h : /\ h[0] = Alone(from) /\ NearTo(g, leg, within, from, steps) = h[steps]
                  /\ \A n \in 1 .. steps : h[n] = Nearer(g, leg, within, h[n - 1])
<1> DEFINE N == steps
           zero == Alone(from)
           F(q, n) == Nearer(g, leg, within, q)
           Defines(f, m) == f = [n \in 0 .. m |-> IF n = 0 THEN zero ELSE F(f[n - 1], n)]
           done == {m \in 0 .. N : \E f : Defines(f, m)}
<1>1. N \in Nat
  OBVIOUS
<1>2. NearTo(g, leg, within, from, steps) = (CHOOSE f : Defines(f, N))[N]
  BY DEF NearTo, Nearer, Alone
<1> HIDE DEF F, N, zero
<1>3. 0 \in done
  <2> DEFINE f == [n \in 0 .. 0 |-> zero]
  <2>1. Defines(f, 0)
    OBVIOUS
  <2> HIDE DEF Defines, f
  <2> QED  BY <1>1, <2>1
<1>4. ASSUME NEW m \in 1 .. N, m - 1 \in done PROVE m \in done
  <2>1. PICK f : Defines(f, m - 1)
    BY <1>4
  <2>2. \A k \in 0 .. m - 1 : f[k] = IF k = 0 THEN zero ELSE F(f[k - 1], k)
    BY <2>1, Zenon
  <2> DEFINE h == [k \in 0 .. m |-> IF k = m THEN F(f[m - 1], m) ELSE f[k]]
  <2>3. h[m] = F(f[m - 1], m) /\ \A k \in 0 .. m - 1 : h[k] = f[k]
    BY <1>1
  <2>4. h = [k \in 0 .. m |-> h[k]]
    OBVIOUS
  <2> HIDE DEF h, Defines
  <2>5. \A k \in 0 .. m : h[k] = IF k = 0 THEN zero ELSE F(h[k - 1], k)
    <3> TAKE k \in 0 .. m
    <3>1. CASE k = m
      <4>1. m # 0 /\ m - 1 \in 0 .. m - 1
        OBVIOUS
      <4> QED  BY <2>3, <3>1, <4>1
    <3>2. CASE k # m
      <4>1. k \in 0 .. m - 1 /\ (k # 0 => k - 1 \in 0 .. m - 1)
        BY <3>2
      <4> QED  BY <2>2, <2>3, <4>1
    <3> QED  BY <3>1, <3>2
  <2>6. Defines(h, m)
    BY <2>4, <2>5 DEF Defines
  <2>7. m \in 0 .. N
    BY <1>1
  <2> QED  BY <2>6, <2>7
<1> HIDE DEF done
<1>5. 0 .. N \subseteq done
  BY <1>1, <1>3, <1>4, BoundedInduction
<1>6. N \in done
  BY <1>1, <1>5
<1> DEFINE h == CHOOSE f : Defines(f, N)
<1>7. Defines(h, N)
  <2> HIDE DEF Defines
  <2> QED  BY <1>6 DEF done
<1> HIDE DEF h
<1>8. \A n \in 0 .. N : h[n] = IF n = 0 THEN zero ELSE F(h[n - 1], n)
  BY <1>7, Zenon
<1>9. h[0] = zero /\ \A n \in 1 .. N : h[n] = F(h[n - 1], n)
  <2>1. 0 \in 0 .. N /\ \A n \in 1 .. N : n \in 0 .. N /\ n # 0
    BY <1>1
  <2> QED  BY <1>8, <2>1
<1>10. NearTo(g, leg, within, from, steps) = h[N]
  BY <1>2 DEF h
<1> QED  BY <1>9, <1>10 DEF N, F, zero

HalfFurther(g, ids, leg, reached) ==
    reached \cup (ids \cap UNION {ToSet(NeighboursOf(g, v, leg)) : v \in reached})

LEMMA HalfUnfolds ==
    ASSUME NEW g, NEW focus, NEW ids, NEW hops, NEW leg, hops \in Nat
    PROVE  \E h : /\ h[0] = Alone(focus) /\ NeighborhoodHalf(g, focus, ids, hops, leg) = h[hops]
                  /\ \A n \in 1 .. hops : h[n] = HalfFurther(g, ids, leg, h[n - 1])
<1> DEFINE N == hops
           zero == Alone(focus)
           F(q, n) == HalfFurther(g, ids, leg, q)
           Defines(f, m) == f = [n \in 0 .. m |-> IF n = 0 THEN zero ELSE F(f[n - 1], n)]
           done == {m \in 0 .. N : \E f : Defines(f, m)}
<1>1. N \in Nat
  OBVIOUS
<1>2. NeighborhoodHalf(g, focus, ids, hops, leg) = (CHOOSE f : Defines(f, N))[N]
  BY DEF NeighborhoodHalf, HalfFurther, Alone
<1> HIDE DEF F, N, zero
<1>3. 0 \in done
  <2> DEFINE f == [n \in 0 .. 0 |-> zero]
  <2>1. Defines(f, 0)
    OBVIOUS
  <2> HIDE DEF Defines, f
  <2> QED  BY <1>1, <2>1
<1>4. ASSUME NEW m \in 1 .. N, m - 1 \in done PROVE m \in done
  <2>1. PICK f : Defines(f, m - 1)
    BY <1>4
  <2>2. \A k \in 0 .. m - 1 : f[k] = IF k = 0 THEN zero ELSE F(f[k - 1], k)
    BY <2>1, Zenon
  <2> DEFINE h == [k \in 0 .. m |-> IF k = m THEN F(f[m - 1], m) ELSE f[k]]
  <2>3. h[m] = F(f[m - 1], m) /\ \A k \in 0 .. m - 1 : h[k] = f[k]
    BY <1>1
  <2>4. h = [k \in 0 .. m |-> h[k]]
    OBVIOUS
  <2> HIDE DEF h, Defines
  <2>5. \A k \in 0 .. m : h[k] = IF k = 0 THEN zero ELSE F(h[k - 1], k)
    <3> TAKE k \in 0 .. m
    <3>1. CASE k = m
      <4>1. m # 0 /\ m - 1 \in 0 .. m - 1
        OBVIOUS
      <4> QED  BY <2>3, <3>1, <4>1
    <3>2. CASE k # m
      <4>1. k \in 0 .. m - 1 /\ (k # 0 => k - 1 \in 0 .. m - 1)
        BY <3>2
      <4> QED  BY <2>2, <2>3, <4>1
    <3> QED  BY <3>1, <3>2
  <2>6. Defines(h, m)
    BY <2>4, <2>5 DEF Defines
  <2>7. m \in 0 .. N
    BY <1>1
  <2> QED  BY <2>6, <2>7
<1> HIDE DEF done
<1>5. 0 .. N \subseteq done
  BY <1>1, <1>3, <1>4, BoundedInduction
<1>6. N \in done
  BY <1>1, <1>5
<1> DEFINE h == CHOOSE f : Defines(f, N)
<1>7. Defines(h, N)
  <2> HIDE DEF Defines
  <2> QED  BY <1>6 DEF done
<1> HIDE DEF h
<1>8. \A n \in 0 .. N : h[n] = IF n = 0 THEN zero ELSE F(h[n - 1], n)
  BY <1>7, Zenon
<1>9. h[0] = zero /\ \A n \in 1 .. N : h[n] = F(h[n - 1], n)
  <2>1. 0 \in 0 .. N /\ \A n \in 1 .. N : n \in 0 .. N /\ n # 0
    BY <1>1
  <2> QED  BY <1>8, <2>1
<1>10. NeighborhoodHalf(g, focus, ids, hops, leg) = h[N]
  BY <1>2 DEF h
<1> QED  BY <1>9, <1>10 DEF N, F, zero

\* One hop more leads from where fewer led.
LEMMA NearSteps ==
    ASSUME NEW g, NEW leg, NEW within, NEW from, NEW k \in Nat
    PROVE  NearTo(g, leg, within, from, k + 1) = Nearer(g, leg, within, NearTo(g, leg, within, from, k))
<1>1. PICK h : /\ h[0] = Alone(from) /\ NearTo(g, leg, within, from, k + 1) = h[k + 1]
               /\ \A n \in 1 .. k + 1 : h[n] = Nearer(g, leg, within, h[n - 1])
  <2>1. PICK top : top = k + 1
    OBVIOUS
  <2>2. top \in Nat
    BY <2>1
  <2>3. \E h : /\ h[0] = Alone(from) /\ NearTo(g, leg, within, from, top) = h[top]
               /\ \A n \in 1 .. top : h[n] = Nearer(g, leg, within, h[n - 1])
    BY ONLY <2>2, NearUnfolds
  <2> QED  BY <2>1, <2>3
<1>2. PICK e : /\ e[0] = Alone(from) /\ NearTo(g, leg, within, from, k) = e[k]
               /\ \A n \in 1 .. k : e[n] = Nearer(g, leg, within, e[n - 1])
  BY NearUnfolds
<1> DEFINE done == {n \in 0 .. k : h[n] = e[n]}
<1>3. 0 \in done
  BY <1>1, <1>2
<1>4. ASSUME NEW n \in 1 .. k, n - 1 \in done PROVE n \in done
  <2>1. n \in 1 .. k + 1 /\ n \in 0 .. k
    OBVIOUS
  <2> QED  BY <1>1, <1>2, <1>4, <2>1
<1> HIDE DEF done
<1>5. 0 .. k \subseteq done
  BY <1>3, <1>4, BoundedInduction
<1>6. h[k] = e[k]
  BY <1>5 DEF done
<1>7. k + 1 \in 1 .. k + 1 /\ (k + 1) - 1 = k
  OBVIOUS
<1> QED  BY <1>1, <1>2, <1>6, <1>7

\* near[k]: what k hops or fewer lead to.
AreNear(near, g, leg, within, from) == near = [k \in Nat |-> NearTo(g, leg, within, from, k)]

LEMMA NearGrows ==
    ASSUME NEW near, NEW g, NEW leg, NEW within, NEW from, AreNear(near, g, leg, within, from)
    PROVE  /\ near[0] = {from}
           /\ \A k \in Nat : near[k + 1] = Nearer(g, leg, within, near[k])
           /\ \A k, m \in Nat : k <= m => near[k] \subseteq near[m]
           /\ \A k \in Nat : from \in near[k] /\ near[k] \subseteq within \cup {from}
<1>1. near[0] = {from}
  <2>1. PICK h : h[0] = Alone(from) /\ NearTo(g, leg, within, from, 0) = h[0]
    <3>1. 0 \in Nat
      OBVIOUS
    <3> QED  BY ONLY <3>1, NearUnfolds
  <2> QED  BY <2>1 DEF AreNear, Alone
<1>2. \A k \in Nat : near[k + 1] = Nearer(g, leg, within, near[k])
  BY NearSteps DEF AreNear
<1>3. \A k \in Nat : near[k] \subseteq near[k + 1]
  BY <1>2 DEF Nearer
<1>4. ASSUME NEW k \in Nat PROVE \A m \in Nat : k <= m => near[k] \subseteq near[m]
  <2> DEFINE T == {m \in Nat : k <= m => near[k] \subseteq near[m]}
  <2>1. 0 \in T
    <3>1. k <= 0 => k = 0
      OBVIOUS
    <3> QED  BY <3>1
  <2>2. ASSUME NEW m \in Nat, m \in T PROVE m + 1 \in T
    <3>1. k <= m + 1 => k <= m \/ k = m + 1
      OBVIOUS
    <3> QED  BY <1>3, <2>2, <3>1
  <2> HIDE DEF T
  <2>3. Nat \subseteq T
    BY <2>1, <2>2, SetInduction
  <2> QED  BY <2>3 DEF T
<1>5. \A k \in Nat : from \in near[k]
  <2>1. \A k \in Nat : 0 <= k
    OBVIOUS
  <2> QED  BY <1>1, <1>4, <2>1
<1>6. \A k \in Nat : near[k] \subseteq within \cup {from}
  <2> DEFINE T == {k \in Nat : near[k] \subseteq within \cup {from}}
  <2>1. 0 \in T
    BY <1>1
  <2>2. ASSUME NEW m \in Nat, m \in T PROVE m + 1 \in T
    BY <1>2, <2>2 DEF Nearer
  <2> HIDE DEF T
  <2>3. Nat \subseteq T
    BY <2>1, <2>2, SetInduction
  <2> QED  BY <2>3 DEF T
<1> QED  BY <1>1, <1>2, <1>4, <1>5, <1>6

\* Of a larger set no fewer are near.
LEMMA NearWidens ==
    ASSUME NEW near, NEW wide, NEW g, NEW leg, NEW within, NEW ids, NEW from, within \subseteq ids,
           AreNear(near, g, leg, within, from), AreNear(wide, g, leg, ids, from)
    PROVE  \A k \in Nat : near[k] \subseteq wide[k]
<1>1. near[0] = {from} /\ \A k \in Nat : near[k + 1] = Nearer(g, leg, within, near[k])
  BY NearGrows
<1>2. wide[0] = {from} /\ \A k \in Nat : wide[k + 1] = Nearer(g, leg, ids, wide[k])
  BY NearGrows
<1> DEFINE T == {k \in Nat : near[k] \subseteq wide[k]}
<1>3. 0 \in T
  BY <1>1, <1>2
<1>4. ASSUME NEW m \in Nat, m \in T PROVE m + 1 \in T
  BY <1>1, <1>2, <1>4 DEF Nearer
<1> HIDE DEF T
<1>5. Nat \subseteq T
  BY <1>3, <1>4, SetInduction
<1> QED  BY <1>5 DEF T

\* What is near was found at some hop, next to what was found before.
LEMMA NearIsNext ==
    ASSUME NEW near, NEW g, NEW leg, NEW within, NEW from, AreNear(near, g, leg, within, from),
           NEW k \in Nat, NEW x \in near[k], x # from
    PROVE  \E m \in 1 .. k : /\ x \in near[m] \ near[m - 1] /\ x \in within
                             /\ \E v \in near[m - 1] : AdjacentTo(g, leg, v, x)
<1>1. near[0] = {from} /\ \A n \in Nat : near[n + 1] = Nearer(g, leg, within, near[n])
  BY NearGrows
<1> DEFINE hops == {n \in Nat : x \in near[n]}
<1>2. PICK m \in hops : \A n \in hops : m <= n
  <2>1. hops \in SUBSET Nat /\ hops # {}
    OBVIOUS
  <2> HIDE DEF hops
  <2> QED  BY <2>1, SmallestNumber
<1>3. m \in Nat /\ m # 0 /\ m <= k /\ x \in near[m]
  BY <1>1, <1>2
<1>4. m - 1 \in Nat /\ (m - 1) + 1 = m /\ ~(m <= m - 1)
  BY <1>3
<1>5. x \notin near[m - 1]
  BY <1>2, <1>4
<1>6. near[m] = Nearer(g, leg, within, near[m - 1])
  BY <1>1, <1>4
<1>7. x \in within /\ \E v \in near[m - 1] : AdjacentTo(g, leg, v, x)
  BY <1>3, <1>5, <1>6 DEF Nearer
<1> QED  BY <1>3, <1>5, <1>7

\* The rows that a selection leaves are those that are near.
LEMMA HalfIsNear ==
    ASSUME NEW g, NEW focus, NEW ids, NEW hops, NEW leg, hops \in Nat
    PROVE  NeighborhoodHalf(g, focus, ids, hops, leg) = NearTo(g, leg, ids, focus, hops)
<1>1. PICK h : /\ h[0] = Alone(focus) /\ NearTo(g, leg, ids, focus, hops) = h[hops]
               /\ \A n \in 1 .. hops : h[n] = Nearer(g, leg, ids, h[n - 1])
  BY NearUnfolds
<1>2. PICK e : /\ e[0] = Alone(focus) /\ NeighborhoodHalf(g, focus, ids, hops, leg) = e[hops]
               /\ \A n \in 1 .. hops : e[n] = HalfFurther(g, ids, leg, e[n - 1])
  BY ONLY HalfUnfolds, hops \in Nat
<1>3. \A some : HalfFurther(g, ids, leg, some) = Nearer(g, leg, ids, some)
  <2> SUFFICES ASSUME NEW some PROVE HalfFurther(g, ids, leg, some) = Nearer(g, leg, ids, some)
    OBVIOUS
  <2>1. \A w : w \in UNION {ToSet(NeighboursOf(g, v, leg)) : v \in some}
               <=> \E v \in some : w \in ToSet(NeighboursOf(g, v, leg))
    OBVIOUS
  <2> QED  BY <2>1 DEF HalfFurther, Nearer, AdjacentTo
<1> DEFINE done == {n \in 0 .. hops : h[n] = e[n]}
<1>4. 0 \in done
  BY <1>1, <1>2
<1>5. ASSUME NEW n \in 1 .. hops, n - 1 \in done PROVE n \in done
  <2>1. n \in 0 .. hops
    OBVIOUS
  <2> QED  BY <1>1, <1>2, <1>3, <1>5, <2>1
<1> HIDE DEF done
<1>6. 0 .. hops \subseteq done
  BY <1>4, <1>5, BoundedInduction
<1>7. h[hops] = e[hops]
  BY <1>6 DEF done
<1> QED  BY <1>1, <1>2, <1>7

LEMMA VisitUnfolds ==
    ASSUME NEW chart, NEW leg, NEW hop, NEW found, NEW pairs, Len(pairs) \in Nat
    PROVE  \E g : /\ g[0] = found /\ VisitAll(chart, leg, hop, found, pairs) = g[Len(pairs)]
                  /\ \A n \in 1 .. Len(pairs) : g[n] = VisitNeighbor(chart, leg, hop, g[n - 1], pairs[n])
<1> DEFINE N == Len(pairs)
           zero == found
           F(q, n) == VisitNeighbor(chart, leg, hop, q, pairs[n])
           Defines(f, m) == f = [n \in 0 .. m |-> IF n = 0 THEN zero ELSE F(f[n - 1], n)]
           done == {m \in 0 .. N : \E f : Defines(f, m)}
<1>1. N \in Nat
  OBVIOUS
<1>2. VisitAll(chart, leg, hop, found, pairs) = (CHOOSE f : Defines(f, N))[N]
  BY DEF VisitAll
<1> HIDE DEF F, N, zero
<1>3. 0 \in done
  <2> DEFINE f == [n \in 0 .. 0 |-> zero]
  <2>1. Defines(f, 0)
    OBVIOUS
  <2> HIDE DEF Defines, f
  <2> QED  BY <1>1, <2>1
<1>4. ASSUME NEW m \in 1 .. N, m - 1 \in done PROVE m \in done
  <2>1. PICK f : Defines(f, m - 1)
    BY <1>4
  <2>2. \A k \in 0 .. m - 1 : f[k] = IF k = 0 THEN zero ELSE F(f[k - 1], k)
    BY <2>1, Zenon
  <2> DEFINE g == [k \in 0 .. m |-> IF k = m THEN F(f[m - 1], m) ELSE f[k]]
  <2>3. g[m] = F(f[m - 1], m) /\ \A k \in 0 .. m - 1 : g[k] = f[k]
    BY <1>1
  <2>4. g = [k \in 0 .. m |-> g[k]]
    OBVIOUS
  <2> HIDE DEF g, Defines
  <2>5. \A k \in 0 .. m : g[k] = IF k = 0 THEN zero ELSE F(g[k - 1], k)
    <3> TAKE k \in 0 .. m
    <3>1. CASE k = m
      <4>1. m # 0 /\ m - 1 \in 0 .. m - 1
        OBVIOUS
      <4> QED  BY <2>3, <3>1, <4>1
    <3>2. CASE k # m
      <4>1. k \in 0 .. m - 1 /\ (k # 0 => k - 1 \in 0 .. m - 1)
        BY <3>2
      <4> QED  BY <2>2, <2>3, <4>1
    <3> QED  BY <3>1, <3>2
  <2>6. Defines(g, m)
    BY <2>4, <2>5 DEF Defines
  <2>7. m \in 0 .. N
    BY <1>1
  <2> QED  BY <2>6, <2>7
<1> HIDE DEF done
<1>5. 0 .. N \subseteq done
  BY <1>1, <1>3, <1>4, BoundedInduction
<1>6. N \in done
  BY <1>1, <1>5
<1> DEFINE g == CHOOSE f : Defines(f, N)
<1>7. Defines(g, N)
  <2> HIDE DEF Defines
  <2> QED  BY <1>6 DEF done
<1> HIDE DEF g
<1>8. \A n \in 0 .. N : g[n] = IF n = 0 THEN zero ELSE F(g[n - 1], n)
  BY <1>7, Zenon
<1>9. g[0] = zero /\ \A n \in 1 .. N : g[n] = F(g[n - 1], n)
  <2>1. 0 \in 0 .. N /\ \A n \in 1 .. N : n \in 0 .. N /\ n # 0
    BY <1>1
  <2> QED  BY <1>8, <2>1
<1>10. VisitAll(chart, leg, hop, found, pairs) = g[N]
  BY <1>2 DEF g
<1> QED  BY <1>9, <1>10 DEF N, F, zero

FirstFound(id) == [edges |-> <<>>, seen |-> {}, next |-> <<id>>, truncated |-> FALSE]

LEMMA ExtendedUnfolds ==
    ASSUME NEW g, NEW chart, NEW id, NEW hops, NEW leg, hops \in Nat
    PROVE  \E h : /\ h[0] = FirstFound(id) /\ ExtendedEdges(g, chart, id, hops, leg) = h[hops].edges
                  /\ \A n \in 1 .. hops : h[n] = VisitFrontier(g, chart, leg, h[n - 1], n)
<1> DEFINE N == hops
           zero == FirstFound(id)
           F(q, n) == VisitFrontier(g, chart, leg, q, n)
           Defines(f, m) == f = [n \in 0 .. m |-> IF n = 0 THEN zero ELSE F(f[n - 1], n)]
           done == {m \in 0 .. N : \E f : Defines(f, m)}
<1>1. N \in Nat
  OBVIOUS
<1>2. ExtendedEdges(g, chart, id, hops, leg) = (CHOOSE f : Defines(f, N))[N].edges
  BY DEF ExtendedEdges, FirstFound
<1> HIDE DEF F, N, zero
<1>3. 0 \in done
  <2> DEFINE f == [n \in 0 .. 0 |-> zero]
  <2>1. Defines(f, 0)
    OBVIOUS
  <2> HIDE DEF Defines, f
  <2> QED  BY <1>1, <2>1
<1>4. ASSUME NEW m \in 1 .. N, m - 1 \in done PROVE m \in done
  <2>1. PICK f : Defines(f, m - 1)
    BY <1>4
  <2>2. \A k \in 0 .. m - 1 : f[k] = IF k = 0 THEN zero ELSE F(f[k - 1], k)
    BY <2>1, Zenon
  <2> DEFINE h == [k \in 0 .. m |-> IF k = m THEN F(f[m - 1], m) ELSE f[k]]
  <2>3. h[m] = F(f[m - 1], m) /\ \A k \in 0 .. m - 1 : h[k] = f[k]
    BY <1>1
  <2>4. h = [k \in 0 .. m |-> h[k]]
    OBVIOUS
  <2> HIDE DEF h, Defines
  <2>5. \A k \in 0 .. m : h[k] = IF k = 0 THEN zero ELSE F(h[k - 1], k)
    <3> TAKE k \in 0 .. m
    <3>1. CASE k = m
      <4>1. m # 0 /\ m - 1 \in 0 .. m - 1
        OBVIOUS
      <4> QED  BY <2>3, <3>1, <4>1
    <3>2. CASE k # m
      <4>1. k \in 0 .. m - 1 /\ (k # 0 => k - 1 \in 0 .. m - 1)
        BY <3>2
      <4> QED  BY <2>2, <2>3, <4>1
    <3> QED  BY <3>1, <3>2
  <2>6. Defines(h, m)
    BY <2>4, <2>5 DEF Defines
  <2>7. m \in 0 .. N
    BY <1>1
  <2> QED  BY <2>6, <2>7
<1> HIDE DEF done
<1>5. 0 .. N \subseteq done
  BY <1>1, <1>3, <1>4, BoundedInduction
<1>6. N \in done
  BY <1>1, <1>5
<1> DEFINE h == CHOOSE f : Defines(f, N)
<1>7. Defines(h, N)
  <2> HIDE DEF Defines
  <2> QED  BY <1>6 DEF done
<1> HIDE DEF h
<1>8. \A n \in 0 .. N : h[n] = IF n = 0 THEN zero ELSE F(h[n - 1], n)
  BY <1>7, Zenon
<1>9. h[0] = zero /\ \A n \in 1 .. N : h[n] = F(h[n - 1], n)
  <2>1. 0 \in 0 .. N /\ \A n \in 1 .. N : n \in 0 .. N /\ n # 0
    BY <1>1
  <2> QED  BY <1>8, <2>1
<1>10. ExtendedEdges(g, chart, id, hops, leg) = h[N].edges
  BY <1>2 DEF h
<1> QED  BY <1>9, <1>10 DEF N, F, zero

LEMMA MergeUnfolds ==
    ASSUME NEW edges, Len(edges) \in Nat
    PROVE  \E g : /\ g[0] = {} /\ MergeFocusEdges(edges) = g[Len(edges)]
                  /\ \A n \in 1 .. Len(edges) : g[n] = WithEdge(g[n - 1], edges[n])
<1> DEFINE N == Len(edges)
           zero == {}
           F(q, n) == WithEdge(q, edges[n])
           Defines(f, m) == f = [n \in 0 .. m |-> IF n = 0 THEN zero ELSE F(f[n - 1], n)]
           done == {m \in 0 .. N : \E f : Defines(f, m)}
<1>1. N \in Nat
  OBVIOUS
<1>2. MergeFocusEdges(edges) = (CHOOSE f : Defines(f, N))[N]
  BY DEF MergeFocusEdges
<1> HIDE DEF F, N, zero
<1>3. 0 \in done
  <2> DEFINE f == [n \in 0 .. 0 |-> zero]
  <2>1. Defines(f, 0)
    OBVIOUS
  <2> HIDE DEF Defines, f
  <2> QED  BY <1>1, <2>1
<1>4. ASSUME NEW m \in 1 .. N, m - 1 \in done PROVE m \in done
  <2>1. PICK f : Defines(f, m - 1)
    BY <1>4
  <2>2. \A k \in 0 .. m - 1 : f[k] = IF k = 0 THEN zero ELSE F(f[k - 1], k)
    BY <2>1, Zenon
  <2> DEFINE g == [k \in 0 .. m |-> IF k = m THEN F(f[m - 1], m) ELSE f[k]]
  <2>3. g[m] = F(f[m - 1], m) /\ \A k \in 0 .. m - 1 : g[k] = f[k]
    BY <1>1
  <2>4. g = [k \in 0 .. m |-> g[k]]
    OBVIOUS
  <2> HIDE DEF g, Defines
  <2>5. \A k \in 0 .. m : g[k] = IF k = 0 THEN zero ELSE F(g[k - 1], k)
    <3> TAKE k \in 0 .. m
    <3>1. CASE k = m
      <4>1. m # 0 /\ m - 1 \in 0 .. m - 1
        OBVIOUS
      <4> QED  BY <2>3, <3>1, <4>1
    <3>2. CASE k # m
      <4>1. k \in 0 .. m - 1 /\ (k # 0 => k - 1 \in 0 .. m - 1)
        BY <3>2
      <4> QED  BY <2>2, <2>3, <4>1
    <3> QED  BY <3>1, <3>2
  <2>6. Defines(g, m)
    BY <2>4, <2>5 DEF Defines
  <2>7. m \in 0 .. N
    BY <1>1
  <2> QED  BY <2>6, <2>7
<1> HIDE DEF done
<1>5. 0 .. N \subseteq done
  BY <1>1, <1>3, <1>4, BoundedInduction
<1>6. N \in done
  BY <1>1, <1>5
<1> DEFINE g == CHOOSE f : Defines(f, N)
<1>7. Defines(g, N)
  <2> HIDE DEF Defines
  <2> QED  BY <1>6 DEF done
<1> HIDE DEF g
<1>8. \A n \in 0 .. N : g[n] = IF n = 0 THEN zero ELSE F(g[n - 1], n)
  BY <1>7, Zenon
<1>9. g[0] = zero /\ \A n \in 1 .. N : g[n] = F(g[n - 1], n)
  <2>1. 0 \in 0 .. N /\ \A n \in 1 .. N : n \in 0 .. N /\ n # 0
    BY <1>1
  <2> QED  BY <1>8, <2>1
<1>10. MergeFocusEdges(edges) = g[N]
  BY <1>2 DEF g
<1> QED  BY <1>9, <1>10 DEF N, F, zero

\* A walk along one leg over what is on the chart; the ends of an edge; what was seen so far.
HopEnds(leg, v, n) == IF leg = "upstream" THEN <<n, v>> ELSE <<v, n>>
EndsOf(e) == <<e.from, e.to>>
IsWalk(w) ==
    /\ w.leg \in Legs /\ AreNear(w.near, w.g, w.leg, w.on, w.focus) /\ w.focus \in w.on
    /\ \A n : RowOf(w.chart, n) # {} <=> n \in w.on
    /\ \A v \in w.on : IsSequence(NeighboursOf(w.g, v, w.leg))
NearBefore(w, h) == IF h = 0 THEN {} ELSE w.near[h - 1]
IsEdgeAt(w, e, v, n) ==
    e.leg = w.leg /\ n \in w.on /\ AdjacentTo(w.g, w.leg, v, n) /\ EndsOf(e) = HopEnds(w.leg, v, n)
IsFarther(w, e, most) ==
    /\ e.hop \in 2 .. most
    /\ \E v \in w.near[e.hop - 1] \ w.near[e.hop - 2] : \E n : IsEdgeAt(w, e, v, n)
EndOnce(edges) == \A i, j \in 1 .. Len(edges) : EndsOf(edges[i]) = EndsOf(edges[j]) => i = j
IsKnown(w, s, q, from) ==
    \E v \in from : \E n \in w.on : /\ s = HopEnds(w.leg, v, n)
                                    /\ v = w.focus \/ \E e \in ToSet(q.edges) : EndsOf(e) = s
Walked(w, h, q) ==
    /\ IsSequence(q.edges) /\ EndOnce(q.edges)
    /\ \A e \in ToSet(q.edges) : IsFarther(w, e, h) /\ EndsOf(e) \in q.seen
    /\ \A s \in q.seen : IsKnown(w, s, q, NearBefore(w, h))
    /\ q.truncated \in BOOLEAN /\ (q.truncated => Len(q.edges) >= MaxExtendedEdges)
SeenAll(w, from, seen) ==
    \A v \in from : \A n \in w.on : AdjacentTo(w.g, w.leg, v, n) => HopEnds(w.leg, v, n) \in seen

LEMMA EndsTell ==
    ASSUME NEW leg, NEW v, NEW n, NEW x, NEW y, HopEnds(leg, v, n) = HopEnds(leg, x, y)
    PROVE  v = x /\ n = y
BY DEF HopEnds

LEMMA AlongHasEnds ==
    ASSUME NEW leg, NEW v, NEW n, NEW tier, NEW hop
    PROVE  LET e == EdgeAlong(leg, v, n, tier, hop)
           IN  EndsOf(e) = HopEnds(leg, v, n) /\ e.hop = hop /\ e.leg = leg
BY DEF EdgeAlong, EndsOf, HopEnds

\* One more neighbour that adds no edge, and one that does.
LEMMA WalkedOn ==
    ASSUME NEW w, NEW h, NEW q, NEW r, NEW v, NEW n, Walked(w, h, q), v \in NearBefore(w, h), n \in w.on,
           HopEnds(w.leg, v, n) \in q.seen \/ v = w.focus,
           r.edges = q.edges, r.seen = q.seen \cup {HopEnds(w.leg, v, n)}, r.truncated = FALSE
    PROVE  Walked(w, h, r)
<1>1. \A s \in q.seen : IsKnown(w, s, r, NearBefore(w, h))
  BY DEF Walked, IsKnown
<1>2. v = w.focus => IsKnown(w, HopEnds(w.leg, v, n), r, NearBefore(w, h))
  BY DEF IsKnown
<1> QED  BY <1>1, <1>2 DEF Walked

LEMMA WalkedFarther ==
    ASSUME NEW w, NEW h, NEW q, NEW r, NEW v, NEW n, NEW edge, Walked(w, h, q), h \in Nat, h >= 2,
           v \in w.near[h - 1] \ w.near[h - 2], IsEdgeAt(w, edge, v, n), edge.hop = h,
           EndsOf(edge) \notin q.seen,
           r.edges = Append(q.edges, edge), r.seen = q.seen \cup {EndsOf(edge)},
           r.truncated \in BOOLEAN, r.truncated => Len(r.edges) >= MaxExtendedEdges
    PROVE  Walked(w, h, r)
<1> DEFINE N == Len(q.edges)
<1>1. IsSequence(r.edges) /\ ToSet(r.edges) = ToSet(q.edges) \cup {edge}
  BY AppendOwn DEF Walked
<1>2. N \in Nat /\ \A i \in 1 .. N : q.edges[i] \in ToSet(q.edges)
  BY OwnMembers DEF Walked, IsSequence
<1>3. Len(r.edges) = N + 1 /\ r.edges[N + 1] = edge /\ \A i \in 1 .. N : r.edges[i] = q.edges[i]
  BY AppendProperties DEF Walked, IsSequence
<1>4. \A i \in 1 .. N : EndsOf(q.edges[i]) # EndsOf(edge)
  BY <1>2 DEF Walked
<1>5. \A i, j \in 1 .. N : EndsOf(q.edges[i]) = EndsOf(q.edges[j]) => i = j
  BY DEF Walked, EndOnce
<1> HIDE DEF N
<1>6. \A i, j \in 1 .. N + 1 : EndsOf(r.edges[i]) = EndsOf(r.edges[j]) => i = j
  <2> SUFFICES ASSUME NEW i \in 1 .. N + 1, NEW j \in 1 .. N + 1,
                      EndsOf(r.edges[i]) = EndsOf(r.edges[j]) PROVE i = j
    OBVIOUS
  <2>1. (i = N + 1 \/ i \in 1 .. N) /\ (j = N + 1 \/ j \in 1 .. N)
    BY <1>2
  <2> QED  BY <1>3, <1>4, <1>5, <2>1
<1>7. EndOnce(r.edges)
  BY <1>3, <1>6 DEF EndOnce
<1>8. IsFarther(w, edge, h)
  BY DEF IsFarther
<1>9. \A e \in ToSet(r.edges) : IsFarther(w, e, h) /\ EndsOf(e) \in r.seen
  BY <1>1, <1>8 DEF Walked
<1>10. \A s \in q.seen : IsKnown(w, s, r, NearBefore(w, h))
  BY <1>1 DEF Walked, IsKnown
<1>11. IsKnown(w, EndsOf(edge), r, NearBefore(w, h))
  <2>1. v \in NearBefore(w, h) /\ n \in w.on /\ EndsOf(edge) = HopEnds(w.leg, v, n) /\ edge \in ToSet(r.edges)
    BY <1>1 DEF NearBefore, IsEdgeAt
  <2> QED  BY <2>1 DEF IsKnown
<1> QED  BY <1>1, <1>7, <1>9, <1>10, <1>11 DEF Walked

\* Among the neighbours of one hop, when k of them were visited.
Visiting(w, h, pairs, k, q) ==
    /\ Walked(w, h, q)
    /\ ~q.truncated =>
           /\ SeenAll(w, NearBefore(w, h - 1), q.seen) /\ IsSequence(q.next)
           /\ \A j \in 1 .. k : pairs[j][2] \in w.on =>
                  HopEnds(w.leg, pairs[j][1], pairs[j][2]) \in q.seen /\ pairs[j][2] \in ToSet(q.next)
           /\ \A n \in ToSet(q.next) : n \in w.on /\ \E v \in w.near[h - 1] : AdjacentTo(w.g, w.leg, v, n)

LEMMA NextVisiting ==
    ASSUME NEW w, IsWalk(w), NEW h, h \in Nat, h >= 1, NEW pairs, NEW k, k \in Nat, k >= 1, NEW q,
           Visiting(w, h, pairs, k - 1, q), pairs[k][1] \in w.near[h - 1],
           AdjacentTo(w.g, w.leg, pairs[k][1], pairs[k][2])
    PROVE  Visiting(w, h, pairs, k, VisitNeighbor(w.chart, w.leg, h, q, pairs[k]))
<1> DEFINE pair == pairs[k]
<1>1. PICK v, n : v = pair[1] /\ n = pair[2]
  OBVIOUS
<1> DEFINE r == VisitNeighbor(w.chart, w.leg, h, q, pair)
           tier == IF w.leg = "upstream" THEN "primary" ELSE w.leg
           edge == EdgeAlong(w.leg, v, n, tier, h)
           s == HopEnds(w.leg, v, n)
           isNew == s \notin q.seen
           edges == IF isNew /\ h >= 2 THEN Append(q.edges, edge) ELSE q.edges
           full == isNew /\ h >= 2 /\ Len(edges) >= MaxExtendedEdges
           next == IF full \/ n \in ToSet(q.next) THEN q.next ELSE Append(q.next, n)
<1>2. v \in w.near[h - 1] /\ AdjacentTo(w.g, w.leg, v, n) /\ v \in NearBefore(w, h)
  BY <1>1 DEF NearBefore
<1>3. EndsOf(edge) = s /\ edge.hop = h /\ edge.leg = w.leg
  BY AlongHasEnds
<1>4. r = IF q.truncated \/ RowOf(w.chart, n) = {} THEN q
          ELSE [edges |-> edges, seen |-> q.seen \cup {s}, next |-> next, truncated |-> full]
  BY <1>1, <1>3 DEF VisitNeighbor, EndsOf
<1>5. \A j \in 1 .. k : j = k \/ j \in 1 .. k - 1
  OBVIOUS
<1>6. RowOf(w.chart, n) # {} <=> n \in w.on
  BY DEF IsWalk
<1> HIDE DEF r, edge, s
<1>7. CASE q.truncated
  BY <1>4, <1>7 DEF Visiting, r
<1>8. CASE ~q.truncated /\ n \notin w.on
  <2>1. r = q
    BY <1>4, <1>6, <1>8
  <2>2. \A j \in 1 .. k : pairs[j][2] \in w.on => j \in 1 .. k - 1
    BY <1>1, <1>5, <1>8
  <2> QED  BY <1>8, <2>1, <2>2 DEF Visiting, r
<1>9. CASE ~q.truncated /\ n \in w.on
  <2>1. r.edges = edges /\ r.seen = q.seen \cup {s} /\ r.next = next /\ r.truncated = full
    BY <1>4, <1>6, <1>9
  <2>2. SeenAll(w, NearBefore(w, h - 1), q.seen) /\ Walked(w, h, q) /\ IsSequence(q.next)
    BY <1>9 DEF Visiting
  <2>3. Walked(w, h, r)
    <3>1. CASE ~isNew
      <4>1. r.edges = q.edges /\ r.truncated = FALSE
        BY <2>1, <3>1
      <4> QED  BY <1>2, <1>9, <2>1, <2>2, <3>1, <4>1, WalkedOn DEF s
    <3>2. CASE h = 1
      <4>1. r.edges = q.edges /\ r.truncated = FALSE
        <5>1. ~(h >= 2)
          BY <3>2
        <5> QED  BY <2>1, <5>1
      <4>2. v = w.focus
        <5>1. w.near[0] = {w.focus}
          BY NearGrows DEF IsWalk
        <5> QED  BY <1>2, <3>2, <5>1
      <4> QED  BY <1>2, <1>9, <2>1, <2>2, <4>1, <4>2, WalkedOn DEF s
    <3>3. CASE isNew /\ h >= 2
      <4>1. v \notin w.near[h - 2]
        <5>1. NearBefore(w, h - 1) = w.near[h - 2]
          BY <3>3 DEF NearBefore
        <5> QED  BY <1>2, <1>9, <2>2, <3>3, <5>1 DEF SeenAll, s
      <4>2. IsEdgeAt(w, edge, v, n)
        BY <1>2, <1>3, <1>9 DEF IsEdgeAt, s
      <4>3. r.edges = Append(q.edges, edge) /\ (r.truncated <=> Len(r.edges) >= MaxExtendedEdges)
            /\ r.truncated \in BOOLEAN
        BY <2>1, <3>3
      <4> QED  BY <1>2, <1>3, <2>1, <2>2, <3>3, <4>1, <4>2, <4>3, WalkedFarther
    <3>4. h = 1 \/ h >= 2
      OBVIOUS
    <3> QED  BY <3>1, <3>2, <3>3, <3>4
  <2>4. ASSUME ~r.truncated
        PROVE  IsSequence(r.next) /\ ToSet(r.next) = ToSet(q.next) \cup {n}
    <3>1. r.next = IF n \in ToSet(q.next) THEN q.next ELSE Append(q.next, n)
      BY <2>1, <2>4
    <3> QED  BY <2>2, <3>1, AppendOwn
  <2>5. ASSUME ~r.truncated, NEW j \in 1 .. k, pairs[j][2] \in w.on
        PROVE  HopEnds(w.leg, pairs[j][1], pairs[j][2]) \in r.seen /\ pairs[j][2] \in ToSet(r.next)
    <3>1. CASE j = k
      BY <1>1, <2>1, <2>4, <2>5, <3>1 DEF s
    <3>2. CASE j \in 1 .. k - 1
      BY <1>9, <2>1, <2>4, <2>5, <3>2 DEF Visiting
    <3> QED  BY <1>5, <3>1, <3>2
  <2>6. ASSUME ~r.truncated, NEW m \in ToSet(r.next)
        PROVE  m \in w.on /\ \E x \in w.near[h - 1] : AdjacentTo(w.g, w.leg, x, m)
    BY <1>2, <1>9, <2>4, <2>6 DEF Visiting
  <2>7. SeenAll(w, NearBefore(w, h - 1), r.seen)
    BY <2>1, <2>2 DEF SeenAll
  <2>8. Visiting(w, h, pairs, k, r)
    <3> HIDE DEF edges, full, next
    <3> QED  BY <2>3, <2>4, <2>5, <2>6, <2>7 DEF Visiting
  <2> QED  BY <2>8 DEF r
<1> QED  BY <1>7, <1>8, <1>9

\* The neighbours of some ids, each with the id it is a neighbour of.
LEMMA PairsAre ==
    ASSUME NEW g, NEW leg, NEW ids, IsSequence(ids), \A v \in ToSet(ids) : IsSequence(NeighboursOf(g, v, leg))
    PROVE  LET pairs == NeighborPairs(g, leg, ids)
           IN  /\ IsSequence(pairs)
               /\ \A p \in ToSet(pairs) : p[1] \in ToSet(ids) /\ AdjacentTo(g, leg, p[1], p[2])
               /\ \A v \in ToSet(ids) : \A n : AdjacentTo(g, leg, v, n) => <<v, n>> \in ToSet(pairs)
<1> DEFINE N == Len(ids)
           Of(i) == [j \in 1 .. Len(NeighboursOf(g, ids[i], leg)) |-> <<ids[i], NeighboursOf(g, ids[i], leg)[j]>>]
           ss == [i \in 1 .. N |-> Of(i)]
           pairs == NeighborPairs(g, leg, ids)
<1>1. N \in Nat /\ DOMAIN ids = 1 .. N /\ \A i \in 1 .. N : ids[i] \in ToSet(ids)
  BY OwnMembers DEF IsSequence
<1>2. pairs = FlattenSeq(ss)
  BY DEF NeighborPairs
<1>3. ASSUME NEW i \in 1 .. N
      PROVE  /\ IsSequence(Of(i))
             /\ \A p : p \in ToSet(Of(i)) <=> \E n \in ToSet(NeighboursOf(g, ids[i], leg)) : p = <<ids[i], n>>
  <2>1. PICK ns : ns = NeighboursOf(g, ids[i], leg)
    OBVIOUS
  <2>2. PICK x : x = ids[i]
    OBVIOUS
  <2>3. IsSequence(ns) /\ Len(ns) \in Nat /\ DOMAIN ns = 1 .. Len(ns)
    BY <1>1, <2>1, OwnMembers DEF IsSequence
  <2> DEFINE m == Len(ns)
             row == [j \in 1 .. m |-> <<x, ns[j]>>]
  <2>4. Of(i) = row
    BY <2>1, <2>2
  <2> HIDE DEF Of
  <2>5. row = [j \in 1 .. m |-> row[j]] /\ \A j \in 1 .. m : row[j] = <<x, ns[j]>>
    OBVIOUS
  <2> HIDE DEF row, m
  <2>6. IsSequence(row) /\ DOMAIN row = 1 .. m
    BY <2>3, <2>5, OfPlaces DEF m
  <2>7. \A p : p \in ToSet(row) <=> \E j \in 1 .. m : p = <<x, ns[j]>>
    BY <2>5, <2>6 DEF ToSet
  <2>8. \A n : n \in ToSet(ns) <=> \E j \in 1 .. m : n = ns[j]
    BY <2>3 DEF ToSet, m
  <2>9. \A p : p \in ToSet(row) <=> \E n \in ToSet(ns) : p = <<x, n>>
    BY <2>7, <2>8
  <2> QED  BY <2>1, <2>2, <2>4, <2>6, <2>9
<1>4. ss = [i \in 1 .. N |-> ss[i]] /\ \A i \in 1 .. N : ss[i] = Of(i)
  OBVIOUS
<1> HIDE DEF ss, Of
<1>5. \A i \in 1 .. N : IsSequence(ss[i])
  BY <1>3, <1>4
<1> HIDE DEF N
<1>6. /\ IsSequence(FlattenSeq(ss))
      /\ \A p : p \in ToSet(FlattenSeq(ss)) <=> \E i \in 1 .. N : p \in ToSet(ss[i])
  BY <1>1, <1>4, <1>5, FlatHolds
<1>7. IsSequence(pairs)
  BY <1>2, <1>6
<1>8. ASSUME NEW p \in ToSet(pairs) PROVE p[1] \in ToSet(ids) /\ AdjacentTo(g, leg, p[1], p[2])
  <2>1. PICK i \in 1 .. N : p \in ToSet(Of(i))
    BY <1>2, <1>4, <1>6
  <2>2. PICK n \in ToSet(NeighboursOf(g, ids[i], leg)) : p = <<ids[i], n>>
    BY <1>3, <2>1
  <2> QED  BY <1>1, <2>2 DEF AdjacentTo
<1>9. ASSUME NEW v \in ToSet(ids), NEW n, AdjacentTo(g, leg, v, n) PROVE <<v, n>> \in ToSet(pairs)
  <2>1. PICK i \in 1 .. N : v = ids[i]
    BY <1>1 DEF ToSet
  <2>2. <<v, n>> \in ToSet(Of(i))
    BY <1>3, <1>9, <2>1 DEF AdjacentTo
  <2> QED  BY <1>2, <1>4, <1>6, <2>2
<1> HIDE DEF pairs
<1>10. \A v \in ToSet(ids) : \A n : AdjacentTo(g, leg, v, n) => <<v, n>> \in ToSet(pairs)
  BY <1>9
<1> QED  BY <1>7, <1>8, <1>10 DEF pairs

\* After a hop: all edges from what was nearer are seen, and what is new is to be visited.
HasVisited(w, h, q) ==
    /\ Walked(w, h, q)
    /\ ~q.truncated =>
           /\ SeenAll(w, NearBefore(w, h), q.seen) /\ IsSequence(q.next)
           /\ ToSet(q.next) \subseteq w.near[h] /\ w.near[h] \ NearBefore(w, h) \subseteq ToSet(q.next)

LEMMA HopIsVisited ==
    ASSUME NEW w, IsWalk(w), NEW h, h \in Nat, h >= 1, NEW q, HasVisited(w, h - 1, q)
    PROVE  HasVisited(w, h, VisitFrontier(w.g, w.chart, w.leg, q, h))
<1> DEFINE r == VisitFrontier(w.g, w.chart, w.leg, q, h)
           start == [edges |-> q.edges, seen |-> q.seen, next |-> <<>>, truncated |-> FALSE]
           pairs == NeighborPairs(w.g, w.leg, q.next)
<1>1. /\ w.near[0] = {w.focus}
      /\ \A k \in Nat : w.near[k + 1] = Nearer(w.g, w.leg, w.on, w.near[k])
      /\ \A k, m \in Nat : k <= m => w.near[k] \subseteq w.near[m]
      /\ \A k \in Nat : w.focus \in w.near[k] /\ w.near[k] \subseteq w.on \cup {w.focus}
  BY NearGrows DEF IsWalk
<1>2. h - 1 \in Nat /\ (h - 1) + 1 = h /\ NearBefore(w, h) = w.near[h - 1]
  BY DEF NearBefore
<1>3. NearBefore(w, h - 1) \subseteq NearBefore(w, h)
  <2>1. CASE h = 1
    BY <2>1 DEF NearBefore
  <2>2. CASE h # 1
    <3>1. h - 2 \in Nat /\ h - 2 <= h - 1 /\ (h - 1) - 1 = h - 2 /\ h - 1 # 0
      BY <2>2
    <3> QED  BY <1>1, <1>2, <3>1 DEF NearBefore
  <2> QED  BY <2>1, <2>2
<1>4. \A e : IsFarther(w, e, h - 1) => IsFarther(w, e, h)
  <2>1. \A x : x \in 2 .. h - 1 => x \in 2 .. h
    OBVIOUS
  <2> QED  BY <2>1 DEF IsFarther
<1>5. \A s : IsKnown(w, s, q, NearBefore(w, h - 1)) => IsKnown(w, s, q, NearBefore(w, h))
  BY <1>3 DEF IsKnown
<1>6. Walked(w, h, q)
  BY <1>4, <1>5 DEF HasVisited, Walked
<1>7. CASE q.truncated
  BY <1>6, <1>7 DEF VisitFrontier, HasVisited
<1>8. CASE ~q.truncated
  <2>1. r = VisitAll(w.chart, w.leg, h, start, pairs)
    BY <1>8 DEF VisitFrontier
  <2>2. /\ SeenAll(w, NearBefore(w, h - 1), q.seen) /\ IsSequence(q.next)
        /\ ToSet(q.next) \subseteq w.near[h - 1] /\ w.near[h - 1] \ NearBefore(w, h - 1) \subseteq ToSet(q.next)
    BY <1>8 DEF HasVisited
  <2>3. \A v \in ToSet(q.next) : v \in w.on /\ IsSequence(NeighboursOf(w.g, v, w.leg))
    <3>1. w.near[h - 1] \subseteq w.on
      BY <1>1, <1>2 DEF IsWalk
    <3> QED  BY <2>2, <3>1 DEF IsWalk
  <2>4. /\ IsSequence(pairs)
        /\ \A p \in ToSet(pairs) : p[1] \in ToSet(q.next) /\ AdjacentTo(w.g, w.leg, p[1], p[2])
        /\ \A v \in ToSet(q.next) : \A n : AdjacentTo(w.g, w.leg, v, n) => <<v, n>> \in ToSet(pairs)
    BY <2>2, <2>3, PairsAre
  <2>5. start.edges = q.edges /\ start.seen = q.seen /\ start.next = <<>> /\ start.truncated = FALSE
    OBVIOUS
  <2> HIDE DEF r, start, pairs
  <2> DEFINE N == Len(pairs)
  <2>6. N \in Nat /\ DOMAIN pairs = 1 .. N /\ \A k \in 1 .. N : pairs[k] \in ToSet(pairs)
    BY <2>4, OwnMembers DEF IsSequence
  <2>7. PICK f : /\ f[0] = start /\ r = f[N]
                 /\ \A n \in 1 .. N : f[n] = VisitNeighbor(w.chart, w.leg, h, f[n - 1], pairs[n])
    BY <2>1, <2>6, VisitUnfolds
  <2> HIDE DEF N
  <2> DEFINE done == {n \in 0 .. N : Visiting(w, h, pairs, n, f[n])}
  <2>8. 0 \in done
    <3>1. \A s \in start.seen : IsKnown(w, s, start, NearBefore(w, h))
      BY <1>6, <2>5 DEF Walked, IsKnown
    <3>2. Walked(w, h, start)
      BY <1>6, <2>5, <3>1 DEF Walked
    <3>3. IsSequence(start.next) /\ ToSet(start.next) = {}
      BY <2>5 DEF IsSequence, ToSet
    <3>4. Visiting(w, h, pairs, 0, start)
      BY <2>2, <2>5, <3>2, <3>3 DEF Visiting
    <3> QED  BY <2>6, <2>7, <3>4
  <2>9. ASSUME NEW n \in 1 .. N, n - 1 \in done PROVE n \in done
    <3>1. PICK before : before = f[n - 1]
      OBVIOUS
    <3>2. /\ Visiting(w, h, pairs, n - 1, before) /\ n \in Nat /\ n >= 1 /\ n \in 0 .. N
          /\ f[n] = VisitNeighbor(w.chart, w.leg, h, before, pairs[n])
      BY <2>6, <2>7, <2>9, <3>1
    <3>3. pairs[n][1] \in w.near[h - 1] /\ AdjacentTo(w.g, w.leg, pairs[n][1], pairs[n][2])
      BY <2>2, <2>4, <2>6
    <3>4. Visiting(w, h, pairs, n, VisitNeighbor(w.chart, w.leg, h, before, pairs[n]))
      BY <3>2, <3>3, NextVisiting
    <3> QED  BY <3>2, <3>4
  <2> HIDE DEF done
  <2>10. 0 .. N \subseteq done
    BY <2>6, <2>8, <2>9, BoundedInduction
  <2>11. Visiting(w, h, pairs, N, r)
    BY <2>6, <2>7, <2>10 DEF done
  <2>12. ASSUME ~r.truncated PROVE SeenAll(w, w.near[h - 1], r.seen)
    <3> SUFFICES ASSUME NEW v \in w.near[h - 1], NEW n \in w.on, AdjacentTo(w.g, w.leg, v, n)
                 PROVE  HopEnds(w.leg, v, n) \in r.seen
      BY DEF SeenAll
    <3>1. CASE v \in NearBefore(w, h - 1)
      BY <2>11, <2>12, <3>1 DEF Visiting, SeenAll
    <3>2. CASE v \notin NearBefore(w, h - 1)
      <4>1. <<v, n>> \in ToSet(pairs)
        BY <2>2, <2>4, <3>2
      <4>2. PICK j \in 1 .. N : pairs[j] = <<v, n>>
        BY <2>6, <4>1 DEF ToSet
      <4>3. pairs[j][1] = v /\ pairs[j][2] = n
        BY <4>2
      <4> QED  BY <2>11, <2>12, <4>3 DEF Visiting
    <3> QED  BY <3>1, <3>2
  <2>13. w.near[h] = Nearer(w.g, w.leg, w.on, w.near[h - 1])
    BY <1>1, <1>2
  <2>14. ASSUME ~r.truncated PROVE IsSequence(r.next) /\ ToSet(r.next) \subseteq w.near[h]
    BY <2>11, <2>13, <2>14 DEF Visiting, Nearer
  <2>15. ASSUME ~r.truncated, NEW n \in w.near[h] \ w.near[h - 1] PROVE n \in ToSet(r.next)
    <3>1. PICK v \in w.near[h - 1] : n \in w.on /\ AdjacentTo(w.g, w.leg, v, n)
      BY <2>13, <2>15 DEF Nearer
    <3>2. v \notin NearBefore(w, h - 1)
      <4>1. SUFFICES ASSUME v \in NearBefore(w, h - 1) PROVE n \in w.near[h - 1]
        BY <2>15
      <4>2. h - 1 # 0 /\ (h - 1) - 1 = h - 2 /\ v \in w.near[h - 2] /\ h - 2 \in Nat /\ (h - 2) + 1 = h - 1
        BY <1>2, <4>1 DEF NearBefore
      <4>3. w.near[h - 1] = Nearer(w.g, w.leg, w.on, w.near[h - 2])
        BY <1>1, <4>2
      <4> QED  BY <3>1, <4>2, <4>3 DEF Nearer
    <3>3. <<v, n>> \in ToSet(pairs)
      BY <2>2, <2>4, <3>1, <3>2
    <3>4. PICK j \in 1 .. N : pairs[j] = <<v, n>>
      BY <2>6, <3>3 DEF ToSet
    <3>5. pairs[j][2] = n
      BY <3>4
    <3> QED  BY <2>11, <2>15, <3>1, <3>5 DEF Visiting
  <2>16. HasVisited(w, h, r)
    BY <1>2, <2>11, <2>12, <2>14, <2>15 DEF HasVisited, Visiting
  <2> QED  BY <2>16 DEF r
<1> QED  BY <1>7, <1>8

\* The edges further away, each as far as it says and all of them if the walk was not cut short.
LEMMA ExtendedAreVisited ==
    ASSUME NEW w, IsWalk(w), NEW hops, hops \in Nat
    PROVE  \E q : q.edges = ExtendedEdges(w.g, w.chart, w.focus, hops, w.leg) /\ HasVisited(w, hops, q)
<1>1. PICK h : /\ h[0] = FirstFound(w.focus)
               /\ ExtendedEdges(w.g, w.chart, w.focus, hops, w.leg) = h[hops].edges
               /\ \A n \in 1 .. hops : h[n] = VisitFrontier(w.g, w.chart, w.leg, h[n - 1], n)
  BY ONLY hops \in Nat, ExtendedUnfolds
<1> DEFINE done == {n \in 0 .. hops : HasVisited(w, n, h[n])}
<1>2. 0 \in done
  <2> DEFINE q == FirstFound(w.focus)
             one == <<w.focus>>
             none == <<>>
  <2>1. q.edges = none /\ q.seen = {} /\ q.next = one /\ q.truncated = FALSE
    BY DEF FirstFound
  <2>2. IsSequence(none) /\ ToSet(none) = {} /\ Len(none) = 0
    BY DEF IsSequence, ToSet
  <2>3. IsSequence(one) /\ ToSet(one) = {w.focus}
    <3>1. one = Append(none, w.focus)
      OBVIOUS
    <3> HIDE DEF one, none
    <3>2. IsSequence(Append(none, w.focus)) /\ ToSet(Append(none, w.focus)) = ToSet(none) \cup {w.focus}
      BY ONLY <2>2, AppendOwn
    <3> QED  BY <2>2, <3>1, <3>2
  <2>4. w.near[0] = {w.focus}
    BY NearGrows DEF IsWalk
  <2> HIDE DEF q, one, none
  <2>5. Walked(w, 0, q)
    <3>1. EndOnce(none)
      BY <2>2 DEF EndOnce
    <3>2. q.truncated \in BOOLEAN /\ ~q.truncated
      BY <2>1
    <3> QED  BY <2>1, <2>2, <3>1, <3>2 DEF Walked
  <2>6. HasVisited(w, 0, q)
    BY <2>1, <2>3, <2>4, <2>5 DEF HasVisited, SeenAll, NearBefore
  <2> QED  BY <1>1, <2>6 DEF q
<1>3. ASSUME NEW n \in 1 .. hops, n - 1 \in done PROVE n \in done
  <2>1. PICK q : q = h[n - 1]
    OBVIOUS
  <2>2. HasVisited(w, n - 1, q) /\ n \in Nat /\ n >= 1 /\ n \in 0 .. hops
    BY <1>3, <2>1
  <2>3. HasVisited(w, n, VisitFrontier(w.g, w.chart, w.leg, q, n))
    BY <2>2, HopIsVisited
  <2> QED  BY <1>1, <2>1, <2>2, <2>3
<1> HIDE DEF done
<1>4. 0 .. hops \subseteq done
  BY <1>2, <1>3, BoundedInduction
<1>5. HasVisited(w, hops, h[hops])
  BY <1>4 DEF done
<1> QED  BY <1>1, <1>5

\* The neighbours of the row one points at that are on the chart, as many as may be drawn.
OwnNeighbours(w) == {n \in w.on : AdjacentTo(w.g, w.leg, w.focus, n)}
AreDirect(w, q) ==
    /\ IsSequence(q) /\ EndOnce(q)
    /\ \A e \in ToSet(q) : e.hop = 1 /\ \E n : IsEdgeAt(w, e, w.focus, n)
    /\ Len(q) = Min({MaxDirectEdges, Cardinality(OwnNeighbours(w))})
    /\ Len(q) < MaxDirectEdges =>
           \A n \in OwnNeighbours(w) : \E e \in ToSet(q) : EndsOf(e) = HopEnds(w.leg, w.focus, n)

LEMMA DirectAre ==
    ASSUME NEW w, IsWalk(w), OnceEach(NeighboursOf(w.g, w.focus, w.leg)), NEW focus, focus.id = w.focus
    PROVE  AreDirect(w, OneHopEdges(w.g, w.chart, focus, w.leg))
<1> DEFINE ids == NeighboursOf(w.g, w.focus, w.leg)
           kept == {n \in ToSet(ids) : RowOf(w.chart, n) # {}}
           near == OnChart(w.chart, ids)
           ranked == RankNeighborIds(w.chart.data, focus, near, w.leg)
           capped == ApplyNeighborCap(ranked)
           q == OneHopEdges(w.g, w.chart, focus, w.leg)
           S == OwnNeighbours(w)
           c == Min({Len(ranked), MaxDirectEdges})
<1>1. OnceEach(near) /\ ToSet(near) = S
  <2>1. near = Only(ids, kept)
    BY DEF OnChart
  <2>2. ToSet(ids) \cap kept = S
    BY DEF OwnNeighbours, IsWalk, AdjacentTo
  <2> HIDE DEF near, ids, kept, S
  <2>3. OnceEach(Only(ids, kept)) /\ ToSet(Only(ids, kept)) = ToSet(ids) \cap kept
    BY OnlyOnce DEF ids
  <2> QED  BY <2>1, <2>2, <2>3
<1> HIDE DEF near
<1>2. OnceEach(ranked) /\ ToSet(ranked) = S
  <2>1. PICK earlier : ranked = Sorted(near, earlier)
    BY DEF RankNeighborIds
  <2> HIDE DEF ranked, S
  <2> QED  BY <1>1, <2>1, SortedOnce
<1>3. \E tier : q = [i \in DOMAIN capped |-> EdgeAlong(w.leg, w.focus, capped[i], tier[i], 1)]
  <2> DEFINE Tier(id) == CASE w.leg = "downstream" -> "downstream"
                           [] w.leg = "upstream" /\ Siblings(ItemOf(w.chart.data, id), focus) -> "secondary"
                           [] OTHER -> "primary"
             tier == [i \in DOMAIN capped |-> Tier(capped[i])]
  <2>1. q = [i \in DOMAIN capped |-> EdgeAlong(w.leg, w.focus, capped[i], Tier(capped[i]), 1)]
    BY DEF OneHopEdges, near
  <2> HIDE DEF Tier, capped, q
  <2>2. q = [i \in DOMAIN capped |-> EdgeAlong(w.leg, w.focus, capped[i], tier[i], 1)]
    BY <2>1
  <2> HIDE DEF tier
  <2> QED  BY <2>2
<1>4. PICK tier : q = [i \in DOMAIN capped |-> EdgeAlong(w.leg, w.focus, capped[i], tier[i], 1)]
  BY <1>3
<1> DEFINE N == Len(ranked)
<1>5. /\ N \in Nat /\ Cardinality(S) = N /\ DOMAIN ranked = 1 .. N
      /\ (\A i \in 1 .. N : ranked[i] \in S) /\ (\A i, j \in 1 .. N : ranked[i] = ranked[j] => i = j)
  <2>1. IsSequence(ranked) /\ \A i, j \in 1 .. N : ranked[i] = ranked[j] => i = j
    BY <1>2, OnceIs
  <2>2. DOMAIN ranked = 1 .. N /\ \A i \in 1 .. N : ranked[i] \in ToSet(ranked)
    BY <2>1, OwnMembers DEF IsSequence
  <2> QED  BY <1>2, <2>1, <2>2, OnceIsCounted
<1>6. MaxDirectEdges \in Nat
  BY RunsOfGraphs
<1> HIDE DEF ranked, q, S, N
<1>7. c \in 0 .. N /\ c = (IF N <= MaxDirectEdges THEN N ELSE MaxDirectEdges)
      /\ Min({MaxDirectEdges, N}) = c
  <2>1. N \in Int /\ MaxDirectEdges \in Int
    BY <1>5, <1>6
  <2>2. /\ Min({N, MaxDirectEdges}) = IF N <= MaxDirectEdges THEN N ELSE MaxDirectEdges
        /\ Min({MaxDirectEdges, N}) = IF MaxDirectEdges <= N THEN MaxDirectEdges ELSE N
    BY ONLY <2>1, MinOfTwo
  <2> QED  BY <1>5, <1>6, <2>2 DEF N
<1>8. Len(capped) = c /\ DOMAIN capped = 1 .. c /\ \A i \in 1 .. c : capped[i] = ranked[i]
  <2>1. capped = SubSeq(ranked, 1, c)
    BY DEF ApplyNeighborCap
  <2> HIDE DEF capped, c
  <2>2. 1 \in Int /\ c \in Int /\ \A i \in 1 .. c : ranked[i] \in S
    BY <1>5, <1>7
  <2>3. /\ SubSeq(ranked, 1, c) \in Seq(S)
        /\ Len(SubSeq(ranked, 1, c)) = IF 1 <= c THEN c - 1 + 1 ELSE 0
        /\ \A i \in 1 .. c - 1 + 1 : SubSeq(ranked, 1, c)[i] = ranked[1 + i - 1]
    BY ONLY <2>2, SubSeqProperties
  <2>4. Len(capped) = c
    BY <1>7, <2>1, <2>3
  <2>5. DOMAIN capped = 1 .. c
    BY <2>1, <2>3, <2>4, LenProperties
  <2>6. \A i \in 1 .. c : i \in 1 .. c - 1 + 1 /\ 1 + i - 1 = i
    BY <2>2
  <2> QED  BY <2>1, <2>3, <2>4, <2>5, <2>6
<1> HIDE DEF capped, c
<1>9. q = [i \in 1 .. c |-> q[i]] /\ \A i \in 1 .. c : q[i] = EdgeAlong(w.leg, w.focus, ranked[i], tier[i], 1)
  BY <1>4, <1>8
<1>10. c \in Nat /\ \A i \in 1 .. c : i \in 1 .. N
  BY <1>5, <1>7
<1>11. IsSequence(q) /\ Len(q) = c /\ DOMAIN q = 1 .. c
  BY <1>9, <1>10, OfPlaces
<1>12. \A i \in 1 .. c : EndsOf(q[i]) = HopEnds(w.leg, w.focus, ranked[i]) /\ q[i].hop = 1 /\ q[i].leg = w.leg
  BY <1>9, AlongHasEnds
<1>13. EndOnce(q)
  <2> SUFFICES ASSUME NEW i \in 1 .. c, NEW j \in 1 .. c, EndsOf(q[i]) = EndsOf(q[j]) PROVE i = j
    BY <1>11 DEF EndOnce
  <2>1. ranked[i] = ranked[j]
    BY <1>12, EndsTell
  <2> QED  BY <1>5, <1>10, <2>1
<1>14. ASSUME NEW e \in ToSet(q) PROVE e.hop = 1 /\ \E n : IsEdgeAt(w, e, w.focus, n)
  <2>1. PICK i \in 1 .. c : e = q[i]
    BY <1>11 DEF ToSet
  <2>2. ranked[i] \in S
    BY <1>5, <1>10
  <2>3. IsEdgeAt(w, e, w.focus, ranked[i])
    BY <1>12, <2>1, <2>2 DEF IsEdgeAt, S, OwnNeighbours
  <2> QED  BY <1>12, <2>1, <2>3
<1>15. ASSUME Len(q) < MaxDirectEdges, NEW n \in S PROVE \E e \in ToSet(q) : EndsOf(e) = HopEnds(w.leg, w.focus, n)
  <2>1. c = N
    BY <1>5, <1>6, <1>7, <1>11, <1>15
  <2>2. PICK i \in 1 .. N : n = ranked[i]
    BY <1>2, <1>5 DEF ToSet
  <2>3. q[i] \in ToSet(q)
    BY <1>11, <2>1 DEF ToSet
  <2> QED  BY <1>12, <2>1, <2>2, <2>3
<1>16. AreDirect(w, q)
  BY <1>5, <1>7, <1>11, <1>13, <1>14, <1>15 DEF AreDirect, S
<1> QED  BY <1>16 DEF q

\* Of edges with different ends all stay.
LEMMA MergeKeepsAll ==
    ASSUME NEW edges, IsSequence(edges), \A a, b \in ToSet(edges) : EndsOf(a) = EndsOf(b) => a = b
    PROVE  MergeFocusEdges(edges) = ToSet(edges)
<1> DEFINE N == Len(edges)
<1>1. N \in Nat /\ DOMAIN edges = 1 .. N /\ \A n \in 1 .. N : edges[n] \in ToSet(edges)
  BY OwnMembers DEF IsSequence
<1>2. PICK g : /\ g[0] = {} /\ MergeFocusEdges(edges) = g[N]
               /\ \A n \in 1 .. N : g[n] = WithEdge(g[n - 1], edges[n])
  BY <1>1, MergeUnfolds
<1>3. \A n \in 1 .. N : FirstPart(edges, n) = FirstPart(edges, n - 1) \cup {edges[n]}
  BY <1>1, PartGrows
<1>4. \A n \in 0 .. N : FirstPart(edges, n) \subseteq ToSet(edges)
  BY <1>1 DEF FirstPart, ToSet
<1> DEFINE done == {n \in 0 .. N : g[n] = FirstPart(edges, n)}
<1>5. 0 \in done
  <2>1. FirstPart(edges, 0) = {}
    BY DEF FirstPart
  <2>2. 0 \in 0 .. N /\ g[0] = FirstPart(edges, 0)
    BY <1>1, <1>2, <2>1
  <2> HIDE DEF N
  <2> QED  BY <2>2
<1>6. ASSUME NEW n \in 1 .. N, n - 1 \in done PROVE n \in done
  <2>1. n \in 0 .. N /\ n - 1 \in 0 .. N /\ g[n - 1] = FirstPart(edges, n - 1)
    BY <1>1, <1>6
  <2>2. g[n - 1] \subseteq ToSet(edges) /\ edges[n] \in ToSet(edges)
    BY <1>1, <1>4, <2>1
  <2>3. \A m \in g[n - 1] : m.from = edges[n].from /\ m.to = edges[n].to => m = edges[n]
    BY <2>2 DEF EndsOf
  <2>4. WithEdge(g[n - 1], edges[n]) = g[n - 1] \cup {edges[n]}
    BY <2>3 DEF WithEdge
  <2> QED  BY <1>2, <1>3, <2>1, <2>4
<1> HIDE DEF done
<1>7. 0 .. N \subseteq done
  BY <1>1, <1>5, <1>6, BoundedInduction
<1>8. g[N] = FirstPart(edges, N)
  BY <1>1, <1>7 DEF done
<1>9. FirstPart(edges, N) = ToSet(edges)
  BY <1>1 DEF FirstPart, ToSet
<1> QED  BY <1>2, <1>8, <1>9

\* The walk from a row of the chart along a leg, and the edges that are found on it.
AlongLeg(g, chart, on, focus, leg) ==
    [g |-> g, chart |-> chart, on |-> on, focus |-> focus, leg |-> leg,
     near |-> [k \in Nat |-> NearTo(g, leg, on, focus, k)]]
IsFocused(g, chart, on, focus) ==
    /\ IsTimelineGraph(g) /\ on \subseteq ItemIds(g.items) /\ focus \in on
    /\ \A n : RowOf(chart, n) # {} <=> n \in on
AreEdges(w, depth, one, far) == AreDirect(w, one) /\ \E q : q.edges = far /\ HasVisited(w, depth, q)

LEMMA AlongIsWalk ==
    ASSUME NEW g, NEW chart, NEW on, NEW focus, IsFocused(g, chart, on, focus), NEW leg \in Legs,
           NEW w, w = AlongLeg(g, chart, on, focus, leg)
    PROVE  /\ IsWalk(w) /\ w.g = g /\ w.chart = chart /\ w.on = on /\ w.focus = focus /\ w.leg = leg
           /\ \A v \in on : OnceEach(NeighboursOf(g, v, leg))
<1>1. /\ w.g = g /\ w.chart = chart /\ w.on = on /\ w.focus = focus /\ w.leg = leg
      /\ w.near = [k \in Nat |-> NearTo(g, leg, on, focus, k)]
  BY DEF AlongLeg
<1>2. \A v \in on : OnceEach(NeighboursOf(g, v, leg))
  BY DEF IsFocused, IsTimelineGraph
<1>3. \A v \in on : IsSequence(NeighboursOf(g, v, leg))
  BY <1>2 DEF OnceEach, IsSequence
<1>4. IsWalk(w)
  BY <1>1, <1>3 DEF IsWalk, AreNear, IsFocused
<1> QED  BY <1>1, <1>2, <1>4

LEMMA LegHasEdges ==
    ASSUME NEW g, NEW chart, NEW on, NEW focus, IsFocused(g, chart, on, focus), NEW leg \in Legs,
           NEW item, item.id = focus, NEW hops, hops \in Nat
    PROVE  AreEdges(AlongLeg(g, chart, on, focus, leg), hops,
                    OneHopEdges(g, chart, item, leg), ExtendedEdges(g, chart, focus, hops, leg))
<1>1. PICK w : w = AlongLeg(g, chart, on, focus, leg)
  OBVIOUS
<1>2. /\ IsWalk(w) /\ w.g = g /\ w.chart = chart /\ w.focus = focus /\ w.leg = leg
      /\ OnceEach(NeighboursOf(g, focus, leg))
  <2>1. focus \in on
    BY DEF IsFocused
  <2>2. /\ IsWalk(w) /\ w.g = g /\ w.chart = chart /\ w.on = on /\ w.focus = focus /\ w.leg = leg
        /\ \A v \in on : OnceEach(NeighboursOf(g, v, leg))
    BY <1>1, AlongIsWalk
  <2> QED  BY <2>1, <2>2
<1>3. AreDirect(w, OneHopEdges(w.g, w.chart, item, w.leg))
  BY <1>2, DirectAre
<1>4. \E q : q.edges = ExtendedEdges(w.g, w.chart, w.focus, hops, w.leg) /\ HasVisited(w, hops, q)
  BY <1>2, ExtendedAreVisited
<1> QED  BY <1>1, <1>2, <1>3, <1>4 DEF AreEdges

\* What an edge is: one of its own, or one next to what is so far and no nearer.
LEMMA EdgeIsAlong ==
    ASSUME NEW w, IsWalk(w), NEW depth \in 1 .. 3, NEW one, NEW far, AreEdges(w, depth, one, far),
           NEW e, e \in ToSet(one) \/ e \in ToSet(far)
    PROVE  /\ e.hop \in 1 .. depth
           /\ e \in ToSet(one) <=> e.hop = 1
           /\ e \in ToSet(far) <=> e.hop \in 2 .. 3
           /\ \E v \in w.near[2] : \E n :
                 /\ IsEdgeAt(w, e, v, n) /\ (e.hop = 1 <=> v = w.focus)
                 /\ e.hop # 1 => v \in w.near[e.hop - 1] \ w.near[e.hop - 2]
<1>1. /\ \A k, m \in Nat : k <= m => w.near[k] \subseteq w.near[m]
      /\ \A k \in Nat : w.focus \in w.near[k]
  BY NearGrows DEF IsWalk
<1>2. ASSUME e \in ToSet(one) PROVE e.hop = 1 /\ \E n : IsEdgeAt(w, e, w.focus, n)
  BY <1>2 DEF AreEdges, AreDirect
<1>3. ASSUME e \in ToSet(far) PROVE IsFarther(w, e, depth)
  BY <1>3 DEF AreEdges, HasVisited, Walked
<1>4. ASSUME e \in ToSet(far)
      PROVE  /\ e.hop \in 2 .. 3 /\ e.hop <= depth
             /\ \E v \in w.near[2] : \E n : /\ IsEdgeAt(w, e, v, n) /\ v # w.focus
                                            /\ v \in w.near[e.hop - 1] \ w.near[e.hop - 2]
  <2>1. e.hop \in 2 .. depth /\ e.hop \in 2 .. 3 /\ e.hop <= depth
    BY <1>3, <1>4 DEF IsFarther
  <2>2. PICK h \in 2 .. 3 : h = e.hop
    BY <2>1
  <2>3. h - 1 \in Nat /\ h - 2 \in Nat /\ 2 \in Nat /\ h - 1 <= 2
    OBVIOUS
  <2>4. PICK v, n : v \in w.near[h - 1] \ w.near[h - 2] /\ IsEdgeAt(w, e, v, n)
    BY <1>3, <1>4, <2>2 DEF IsFarther
  <2>5. v \in w.near[2] /\ v # w.focus
    BY <1>1, <2>3, <2>4
  <2> QED  BY <2>1, <2>2, <2>4, <2>5
<1>5. w.focus \in w.near[2]
  BY <1>1
<1>6. CASE e \in ToSet(one)
  <2>1. e.hop = 1 /\ ~(e.hop \in 2 .. 3) /\ e.hop \in 1 .. depth
    BY <1>2, <1>6
  <2>2. e \notin ToSet(far)
    BY <1>4, <2>1
  <2> QED  BY <1>2, <1>5, <1>6, <2>1, <2>2
<1>7. CASE e \in ToSet(far)
  <2>1. e.hop \in 2 .. 3 /\ e.hop # 1 /\ e.hop \in 1 .. depth
    BY <1>4, <1>7
  <2>2. e \notin ToSet(one)
    BY <1>2, <2>1
  <2> QED  BY <1>4, <1>7, <2>1, <2>2
<1> QED  BY <1>6, <1>7

\* Edges of one leg with the same ends are the same.
LEMMA LegHasEdgeOnce ==
    ASSUME NEW w, IsWalk(w), NEW depth \in 1 .. 3, NEW one, NEW far, AreEdges(w, depth, one, far),
           NEW a \in ToSet(one) \cup ToSet(far), NEW b \in ToSet(one) \cup ToSet(far), EndsOf(a) = EndsOf(b)
    PROVE  a = b
<1>1. PICK v, n : IsEdgeAt(w, a, v, n) /\ (a.hop = 1 <=> v = w.focus)
  BY EdgeIsAlong
<1>2. PICK x, y : IsEdgeAt(w, b, x, y) /\ (b.hop = 1 <=> x = w.focus)
  BY EdgeIsAlong
<1>3. v = x
  <2>1. HopEnds(w.leg, v, n) = HopEnds(w.leg, x, y)
    BY <1>1, <1>2 DEF IsEdgeAt
  <2> QED  BY <2>1, EndsTell
<1>4. (a \in ToSet(one) <=> a.hop = 1) /\ (b \in ToSet(one) <=> b.hop = 1)
  BY EdgeIsAlong
<1>5. \A q : /\ IsSequence(q) /\ EndOnce(q) /\ a \in ToSet(q) /\ b \in ToSet(q)
             => a = b
  <2> SUFFICES ASSUME NEW q, IsSequence(q), EndOnce(q), a \in ToSet(q), b \in ToSet(q) PROVE a = b
    OBVIOUS
  <2>1. DOMAIN q = 1 .. Len(q)
    BY OwnMembers DEF IsSequence
  <2>2. PICK i \in 1 .. Len(q) : a = q[i]
    BY <2>1 DEF ToSet
  <2>3. PICK j \in 1 .. Len(q) : b = q[j]
    BY <2>1 DEF ToSet
  <2> QED  BY <2>2, <2>3 DEF EndOnce
<1>6. IsSequence(one) /\ EndOnce(one) /\ IsSequence(far) /\ EndOnce(far)
  BY DEF AreEdges, AreDirect, HasVisited, Walked
<1> QED  BY <1>1, <1>2, <1>3, <1>4, <1>5, <1>6

\* No edge is on both legs: the dependencies are not cyclic.
LEMMA LegsAreApart ==
    ASSUME NEW g, NEW chart, NEW on, NEW focus, IsFocused(g, chart, on, focus),
           NEW up, up = AlongLeg(g, chart, on, focus, "upstream"),
           NEW down, down = AlongLeg(g, chart, on, focus, "downstream"),
           NEW a, NEW b, NEW v \in up.near[2], NEW n, NEW x \in down.near[2], NEW y,
           IsEdgeAt(up, a, v, n), IsEdgeAt(down, b, x, y)
    PROVE  EndsOf(a) # EndsOf(b)
<1> SUFFICES ASSUME EndsOf(a) = EndsOf(b) PROVE FALSE
  OBVIOUS
<1> DEFINE ids == ItemIds(g.items)
           above == [k \in Nat |-> NearTo(g, "upstream", ids, focus, k)]
           below == [k \in Nat |-> NearTo(g, "downstream", ids, focus, k)]
<1>1. IsWalk(up) /\ up.g = g /\ up.on = on /\ up.focus = focus /\ up.leg = "upstream"
  BY AlongIsWalk DEF Legs
<1>2. IsWalk(down) /\ down.g = g /\ down.on = on /\ down.focus = focus /\ down.leg = "downstream"
  BY AlongIsWalk DEF Legs
<1>3. n = x /\ v = y
  BY <1>1, <1>2 DEF IsEdgeAt, HopEnds
<1>4. /\ AreNear(above, g, "upstream", ids, focus) /\ AreNear(below, g, "downstream", ids, focus)
      /\ on \subseteq ids
  BY DEF AreNear, IsFocused
<1>5. above[3] \cap below[3] = {focus} /\ ~AdjacentTo(g, "upstream", focus, focus)
  BY DEF IsFocused, IsTimelineGraph, MaxHops
<1> HIDE DEF above, below, ids
<1>6. \A k \in Nat : up.near[k] \subseteq above[k]
  <2>1. AreNear(up.near, g, "upstream", on, focus)
    BY <1>1 DEF IsWalk
  <2> QED  BY <1>4, <2>1, NearWidens
<1>7. \A k \in Nat : down.near[k] \subseteq below[k]
  <2>1. AreNear(down.near, g, "downstream", on, focus)
    BY <1>2 DEF IsWalk
  <2> QED  BY <1>4, <2>1, NearWidens
<1>8. /\ \A k \in Nat : up.near[k + 1] = Nearer(g, "upstream", on, up.near[k])
      /\ \A k \in Nat : down.near[k + 1] = Nearer(g, "downstream", on, down.near[k])
  BY <1>1, <1>2, NearGrows DEF IsWalk
<1>9. 2 \in Nat /\ 3 \in Nat /\ 2 + 1 = 3
  OBVIOUS
<1>10. n \in up.near[3] /\ v \in up.near[3]
  BY <1>1, <1>8, <1>9 DEF Nearer, IsEdgeAt
<1>11. y \in down.near[3] /\ x \in down.near[3]
  BY <1>2, <1>8, <1>9 DEF Nearer, IsEdgeAt
<1>12. n = focus /\ v = focus
  BY <1>3, <1>5, <1>6, <1>7, <1>9, <1>10, <1>11
<1> QED  BY <1>1, <1>5, <1>12 DEF IsEdgeAt

\* The edges of the legs that are asked for, of one and the other.
OfEach(legs, one, far) == UNION {ToSet(one[leg]) \cup ToSet(far[leg]) : leg \in legs}
AreFocusEdges(g, chart, on, focus, depth, one, far) ==
    \A leg \in Legs : AreEdges(AlongLeg(g, chart, on, focus, leg), depth, one[leg], far[leg])

LEMMA OfLegsAre ==
    ASSUME NEW direction, direction \in Legs \cup {"both"}, NEW up, NEW down, IsSequence(up), IsSequence(down)
    PROVE  /\ IsSequence(OfLegs(direction, up, down))
           /\ \A e : e \in ToSet(OfLegs(direction, up, down))
                     <=> ("upstream" \in LegsOf(direction) /\ e \in ToSet(up))
                         \/ ("downstream" \in LegsOf(direction) /\ e \in ToSet(down))
<1> DEFINE none == <<>>
<1>1. IsSequence(none) /\ ToSet(none) = {}
  BY DEF IsSequence, ToSet
<1> DEFINE p == IF "upstream" \in LegsOf(direction) THEN up ELSE none
           q == IF "downstream" \in LegsOf(direction) THEN down ELSE none
<1>2. OfLegs(direction, up, down) = p \o q
  BY DEF OfLegs
<1> HIDE DEF none
<1>3. IsSequence(p) /\ IsSequence(q)
  BY <1>1
<1>4. /\ \A e : e \in ToSet(p) <=> "upstream" \in LegsOf(direction) /\ e \in ToSet(up)
      /\ \A e : e \in ToSet(q) <=> "downstream" \in LegsOf(direction) /\ e \in ToSet(down)
  BY <1>1
<1> HIDE DEF p, q
<1>5. IsSequence(p \o q) /\ ToSet(p \o q) = ToSet(p) \cup ToSet(q)
  BY <1>3, ConcatOwn
<1> QED  BY <1>2, <1>4, <1>5

\* Whatever of both legs has the same ends is the same.
LEMMA EdgesDiffer ==
    ASSUME NEW g, NEW chart, NEW on, NEW focus, IsFocused(g, chart, on, focus), NEW depth \in 1 .. 3,
           NEW one, NEW far, AreFocusEdges(g, chart, on, focus, depth, one, far),
           NEW a \in OfEach(Legs, one, far), NEW b \in OfEach(Legs, one, far), EndsOf(a) = EndsOf(b)
    PROVE  a = b
<1>1. PICK k \in Legs : a \in ToSet(one[k]) \cup ToSet(far[k])
  BY DEF OfEach
<1>2. PICK l \in Legs : b \in ToSet(one[l]) \cup ToSet(far[l])
  BY DEF OfEach
<1>3. PICK wk : wk = AlongLeg(g, chart, on, focus, k)
  OBVIOUS
<1>4. PICK wl : wl = AlongLeg(g, chart, on, focus, l)
  OBVIOUS
<1>5. /\ IsWalk(wk) /\ AreEdges(wk, depth, one[k], far[k])
      /\ IsWalk(wl) /\ AreEdges(wl, depth, one[l], far[l])
  BY <1>3, <1>4, AlongIsWalk DEF AreFocusEdges
<1>6. CASE k = l
  BY <1>1, <1>2, <1>3, <1>4, <1>5, <1>6, LegHasEdgeOnce
<1>7. CASE k # l
  <2>1. PICK v, n : v \in wk.near[2] /\ IsEdgeAt(wk, a, v, n)
    BY <1>1, <1>5, EdgeIsAlong
  <2>2. PICK x, y : x \in wl.near[2] /\ IsEdgeAt(wl, b, x, y)
    BY <1>2, <1>5, EdgeIsAlong
  <2>3. CASE k = "upstream"
    <3>1. l = "downstream"
      BY <1>7, <2>3 DEF Legs
    <3> QED  BY <1>3, <1>4, <2>1, <2>2, <2>3, <3>1, LegsAreApart
  <2>4. CASE k = "downstream"
    <3>1. l = "upstream"
      BY <1>7, <2>4 DEF Legs
    <3> QED  BY <1>3, <1>4, <2>1, <2>2, <2>4, <3>1, LegsAreApart
  <2> QED  BY <2>3, <2>4 DEF Legs
<1> QED  BY <1>6, <1>7

\* What is drawn for a row: the edges of both legs, or of the one that is asked for.
LEMMA FocusEdgesAre ==
    ASSUME NEW g, NEW chart, NEW on, NEW focus, IsFocused(g, chart, on, focus), NEW f,
           f.depth \in 1 .. MaxHops, f.direction \in Legs \cup {"both"},
           focus \in ItemIds(chart.data)
    PROVE  \E one, far : /\ AreFocusEdges(g, chart, on, focus, f.depth, one, far)
                         /\ FocusEdges(g, f, chart, focus) = OfEach(LegsOf(f.direction), one, far)
<1> DEFINE item == ItemOf(chart.data, focus)
           hops == Min({f.depth, MaxHops})
           one == [leg \in Legs |-> OneHopEdges(g, chart, item, leg)]
           far == [leg \in Legs |-> ExtendedEdges(g, chart, focus, hops, leg)]
           direct == OfLegs(f.direction, one["upstream"], one["downstream"])
           further == OfLegs(f.direction, far["upstream"], far["downstream"])
           none == <<>>
           listed == direct \o (IF hops = 1 THEN none ELSE further)
<1>1. item.id = focus
  BY DEF ItemOf, ItemIds, ToSet
<1>2. hops = f.depth /\ hops \in 1 .. 3 /\ hops \in Nat
  <2>1. f.depth \in Int /\ MaxHops \in Int /\ f.depth <= MaxHops
    BY DEF MaxHops
  <2>2. Min({f.depth, MaxHops}) = f.depth
    BY <2>1, MinOfTwo
  <2> QED  BY <2>2 DEF MaxHops
<1>3. focus \in DOMAIN g.adjacency /\ RowOf(chart, focus) # {}
  BY DEF IsFocused, IsTimelineGraph
<1>4. FocusEdges(g, f, chart, focus) = MergeFocusEdges(listed)
  <2>1. /\ one["upstream"] = OneHopEdges(g, chart, item, "upstream")
        /\ one["downstream"] = OneHopEdges(g, chart, item, "downstream")
        /\ far["upstream"] = ExtendedEdges(g, chart, focus, hops, "upstream")
        /\ far["downstream"] = ExtendedEdges(g, chart, focus, hops, "downstream")
    BY DEF Legs
  <2> HIDE DEF one, far
  <2> QED  BY <1>3, <2>1 DEF FocusEdges
<1>5. ASSUME NEW leg \in Legs
      PROVE  AreEdges(AlongLeg(g, chart, on, focus, leg), f.depth, one[leg], far[leg])
  <2> HIDE DEF item, hops
  <2>1. one[leg] = OneHopEdges(g, chart, item, leg) /\ far[leg] = ExtendedEdges(g, chart, focus, hops, leg)
    OBVIOUS
  <2> HIDE DEF one, far
  <2> QED  BY <1>1, <1>2, <2>1, LegHasEdges
<1> HIDE DEF item, hops, one, far
<1>6. AreFocusEdges(g, chart, on, focus, f.depth, one, far)
  BY <1>5 DEF AreFocusEdges
<1>7. ASSUME NEW leg \in Legs PROVE IsSequence(one[leg]) /\ IsSequence(far[leg])
  BY <1>5 DEF AreEdges, AreDirect, HasVisited, Walked
<1>8. "upstream" \in Legs /\ "downstream" \in Legs /\ LegsOf(f.direction) \subseteq Legs
  BY DEF Legs, LegsOf
<1>9. /\ IsSequence(direct)
      /\ \A e : e \in ToSet(direct) <=> \E leg \in LegsOf(f.direction) : e \in ToSet(one[leg])
  <2>1. /\ IsSequence(direct)
        /\ \A e : e \in ToSet(direct)
                  <=> ("upstream" \in LegsOf(f.direction) /\ e \in ToSet(one["upstream"]))
                      \/ ("downstream" \in LegsOf(f.direction) /\ e \in ToSet(one["downstream"]))
    BY <1>7, <1>8, OfLegsAre
  <2> HIDE DEF direct
  <2> QED  BY <1>8, <2>1 DEF Legs
<1>10. /\ IsSequence(further)
       /\ \A e : e \in ToSet(further) <=> \E leg \in LegsOf(f.direction) : e \in ToSet(far[leg])
  <2>1. /\ IsSequence(further)
        /\ \A e : e \in ToSet(further)
                  <=> ("upstream" \in LegsOf(f.direction) /\ e \in ToSet(far["upstream"]))
                      \/ ("downstream" \in LegsOf(f.direction) /\ e \in ToSet(far["downstream"]))
    BY <1>7, <1>8, OfLegsAre
  <2> HIDE DEF further
  <2> QED  BY <1>8, <2>1 DEF Legs
<1> HIDE DEF direct, further
<1>11. IsSequence(none) /\ ToSet(none) = {}
  BY DEF IsSequence, ToSet
<1>12. ASSUME hops = 1, NEW leg \in Legs, NEW e \in ToSet(far[leg]) PROVE FALSE
  <2>1. IsWalk(AlongLeg(g, chart, on, focus, leg))
    BY AlongIsWalk
  <2>2. e.hop \in 1 .. f.depth /\ (e \in ToSet(far[leg]) <=> e.hop \in 2 .. 3)
    BY <1>2, <1>5, <1>12, <2>1, EdgeIsAlong
  <2> QED  BY <1>2, <1>12, <2>2
<1> DEFINE rest == IF hops = 1 THEN none ELSE further
<1> HIDE DEF none
<1>13. /\ IsSequence(rest)
       /\ \A e : e \in ToSet(rest) <=> \E leg \in LegsOf(f.direction) : e \in ToSet(far[leg])
  BY <1>8, <1>10, <1>11, <1>12
<1> HIDE DEF rest
<1>14. IsSequence(direct \o rest) /\ ToSet(direct \o rest) = ToSet(direct) \cup ToSet(rest)
  BY <1>9, <1>13, ConcatOwn
<1>15. listed = direct \o rest
  BY DEF rest
<1> HIDE DEF listed
<1>16. ToSet(listed) = OfEach(LegsOf(f.direction), one, far)
  <2>1. \A e : e \in OfEach(LegsOf(f.direction), one, far)
               <=> \E leg \in LegsOf(f.direction) : e \in ToSet(one[leg]) \/ e \in ToSet(far[leg])
    BY DEF OfEach
  <2> QED  BY <1>9, <1>13, <1>14, <1>15, <2>1
<1>17. OfEach(LegsOf(f.direction), one, far) \subseteq OfEach(Legs, one, far)
  BY <1>8 DEF OfEach
<1>18. \A a, b \in ToSet(listed) : EndsOf(a) = EndsOf(b) => a = b
  <2>1. f.depth \in 1 .. 3
    BY <1>2
  <2> QED  BY <1>6, <1>16, <1>17, <2>1, EdgesDiffer
<1>19. MergeFocusEdges(listed) = ToSet(listed)
  BY <1>14, <1>15, <1>18, MergeKeepsAll
<1> QED  BY <1>4, <1>6, <1>16, <1>19

\* The rows that are listed are no tests; without the tests there is nothing else.
LEMMA ListedParents ==
    ASSUME NEW g, IsSequence(g.items), NEW f
    PROVE  LET parents == FilteredParents(g, f)
               data == FilteredData(g, f)
           IN  /\ IsSequence(parents) /\ ToSet(parents) \subseteq ToSet(g.items)
               /\ {p \in ToSet(data) : ~IsChip(p)} = ToSet(DisplayedParents(g, f, parents))
               /\ ToSet(DisplayedParents(g, f, parents)) \subseteq ToSet(parents)
               /\ ~f.showTests => \A x \in ToSet(data) : ~IsChip(x)
<1> DEFINE items == g.items
           parents == FilteredParents(g, f)
           shown == DisplayedParents(g, f, parents)
           mine == {t \in ToSet(items) : IsChip(t) /\ t.parent \in ItemIds(shown)}
           chips == Only(items, mine)
           data == FilteredData(g, f)
<1>1. IsSequence(parents) /\ ToSet(parents) \subseteq ToSet(items) /\ \A p \in ToSet(parents) : ~IsChip(p)
  <2> DEFINE kept == {item \in ToSet(g.items) :
        /\ ~IsChip(item)
        /\ f.types # {} \/ IsDefaultTimelineResource(g, item)
        /\ f.statuses = {} \/ item.status \in f.statuses
        /\ EffectiveTypes(g, f) = {} \/ item.type \in EffectiveTypes(g, f)
        /\ MatchesTimelineQuery(item, f.query)
        /\ f.failuresOnly => ParentHasFailureSignal(g, item)}
  <2>1. parents = Only(items, kept)
    BY DEF FilteredParents
  <2>2. \A p \in kept : ~IsChip(p)
    OBVIOUS
  <2> HIDE DEF kept, parents
  <2>3. IsSequence(Only(items, kept)) /\ ToSet(Only(items, kept)) = ToSet(items) \cap kept
    BY OnlyOwn
  <2> QED  BY <2>1, <2>2, <2>3
<1> HIDE DEF parents
<1>2. IsSequence(shown) /\ ToSet(shown) \subseteq ToSet(parents)
  BY <1>1, OnlyOwn DEF DisplayedParents
<1> HIDE DEF shown
<1>3. IsSequence(chips) /\ ToSet(chips) = ToSet(items) \cap mine /\ \A t \in ToSet(chips) : IsChip(t)
  <2>1. \A t \in mine : IsChip(t)
    OBVIOUS
  <2> HIDE DEF mine
  <2> QED  BY <2>1, OnlyOwn
<1> HIDE DEF chips
<1>4. data = IF f.showTests THEN shown \o chips ELSE shown
  BY DEF FilteredData, WithChips, chips, mine, shown, parents
<1> HIDE DEF data
<1>5. CASE ~f.showTests
  <2>1. data = shown
    BY <1>4, <1>5
  <2> QED  BY <1>1, <1>2, <1>5, <2>1 DEF data, shown, parents
<1>6. CASE f.showTests
  <2>1. data = shown \o chips
    BY <1>4, <1>6
  <2>2. ToSet(data) = ToSet(shown) \cup ToSet(chips)
    BY <1>2, <1>3, <2>1, ConcatOwn
  <2>3. \A p : p \in ToSet(data) /\ ~IsChip(p) <=> p \in ToSet(shown)
    BY <1>1, <1>2, <1>3, <2>2
  <2>4. {p \in ToSet(data) : ~IsChip(p)} = ToSet(shown)
    BY <1>1, <1>2, <2>3
  <2> QED  BY <1>1, <1>2, <1>6, <2>4 DEF data, shown, parents
<1> QED  BY <1>5, <1>6

\* What is on the chart is listed; and the rows are the parents that are.
IsDrawn(chart, f, N) ==
    /\ DOMAIN chart.bundles = 1 .. N
    /\ \A i \in 1 .. N :
           /\ chart.bundles[i].item \in ToSet(chart.data) /\ ~IsChip(chart.bundles[i].item)
           /\ \A l \in ToSet(chart.bundles[i].lanes) : l.item \in ToSet(chart.data) /\ IsChip(l.item)
    /\ \A id : (\E i \in DOMAIN chart.rows : chart.rows[i].item.id = id)
               <=> \E p \in ToSet(chart.data) : ~IsChip(p) /\ p.id = id
    /\ f.window = FullRun => chart.bundles = chart.rows

LEMMA ChartIsDrawn ==
    ASSUME NEW g, IsSequence(g.items), \A x \in ToSet(g.items) : IsBar(x), NEW f, NEW chart, chart = ChartOf(g, f)
    PROVE  /\ chart.data = FilteredData(g, f) /\ IsSequence(chart.data)
           /\ ToSet(chart.data) \subseteq ToSet(g.items)
           /\ \E N \in Nat : IsDrawn(chart, f, N)
<1> DEFINE data == FilteredData(g, f)
           seen == InWindow(data, f.window)
           bundles == GroupIntoBundles(seen)
           rows == GroupIntoBundles(data)
<1>1. chart.data = data /\ chart.bundles = bundles /\ chart.rows = rows
  BY DEF ChartOf, ChartOfData, ChartOfBundles, ChartOfRows, Chart
<1>2. IsSequence(data) /\ ToSet(data) \subseteq ToSet(g.items)
  BY ListedAreItems
<1> HIDE DEF data
<1>3. IsSequence(seen) /\ ToSet(seen) \subseteq ToSet(data) /\ (f.window = FullRun => seen = data)
  BY <1>2, ZoomKeeps DEF InWindow
<1> HIDE DEF seen
<1>4. (\A x \in ToSet(seen) : IsBar(x)) /\ \A x \in ToSet(data) : IsBar(x)
  BY <1>2, <1>3
<1>5. PICK N \in Nat : DOMAIN bundles = 1 .. N /\ \A i \in 1 .. N : IsBundle(bundles[i], seen)
  BY <1>3, <1>4, BundlesAre
<1>6. PICK M \in Nat : /\ DOMAIN rows = 1 .. M /\ \A i \in 1 .. M : IsBundle(rows[i], data)
                       /\ \A p \in ToSet(data) : ~IsChip(p) => \E i \in 1 .. M : rows[i].item = p
  BY <1>2, <1>4, BundlesAre
<1>7. f.window = FullRun => bundles = rows
  BY <1>3
<1> HIDE DEF bundles, rows
<1>8. \A i \in 1 .. N : /\ bundles[i].item \in ToSet(data) /\ ~IsChip(bundles[i].item)
                        /\ \A l \in ToSet(bundles[i].lanes) : l.item \in ToSet(data) /\ IsChip(l.item)
  BY <1>3, <1>5 DEF IsBundle
<1>9. \A id : (\E i \in 1 .. M : rows[i].item.id = id)
              <=> \E p \in ToSet(data) : ~IsChip(p) /\ p.id = id
  BY <1>6 DEF IsBundle
<1>10. IsDrawn(chart, f, N)
  BY <1>1, <1>5, <1>6, <1>7, <1>8, <1>9 DEF IsDrawn
<1> QED  BY <1>1, <1>2, <1>10 DEF data

\* The ids of what is on the chart.
OnIds(chart) == {i.id : i \in {x \in ToSet(chart.data) : RowOf(chart, x.id) # {}}}

LEMMA OnIdsAre ==
    ASSUME NEW chart, NEW f, NEW N \in Nat, IsDrawn(chart, f, N)
    PROVE  \A n : RowOf(chart, n) # {} <=> n \in OnIds(chart)
<1> SUFFICES ASSUME NEW n, RowOf(chart, n) # {} PROVE n \in OnIds(chart)
  BY DEF OnIds
<1>1. PICK i \in 1 .. N : \/ chart.bundles[i].item.id = n
                          \/ \E k \in DOMAIN chart.bundles[i].lanes : chart.bundles[i].lanes[k].item.id = n
  BY DEF RowOf, IsDrawn
<1>2. \E x \in ToSet(chart.data) : x.id = n
  <2>1. CASE chart.bundles[i].item.id = n
    BY <2>1 DEF IsDrawn
  <2>2. CASE \E k \in DOMAIN chart.bundles[i].lanes : chart.bundles[i].lanes[k].item.id = n
    <3>1. PICK l \in ToSet(chart.bundles[i].lanes) : l.item.id = n
      BY <2>2 DEF ToSet
    <3> QED  BY <3>1 DEF IsDrawn
  <2> QED  BY <1>1, <2>1, <2>2
<1> QED  BY <1>2 DEF OnIds

\* What is on the chart has a place on it.
LEMMA OnHasCenter ==
    ASSUME NEW chart, NEW f, NEW N \in Nat, IsDrawn(chart, f, N),
           ~f.showTests => \A x \in ToSet(chart.data) : ~IsChip(x), NEW n, RowOf(chart, n) # {}
    PROVE  ParcelCenters(chart, f.showTests, n) # {}
<1>1. PICK i : i \in RowOf(chart, n)
  OBVIOUS
<1>2. /\ i \in 1 .. N
      /\ \/ chart.bundles[i].item.id = n
         \/ \E k \in DOMAIN chart.bundles[i].lanes : chart.bundles[i].lanes[k].item.id = n
  BY <1>1 DEF RowOf, IsDrawn
<1>3. chart.bundles[i].item.id # n => f.showTests
  <2> SUFFICES ASSUME chart.bundles[i].item.id # n, ~f.showTests PROVE FALSE
    OBVIOUS
  <2>1. PICK l \in ToSet(chart.bundles[i].lanes) : l.item.id = n
    BY <1>2 DEF ToSet
  <2> QED  BY <1>2, <2>1 DEF IsDrawn
<1> DEFINE none == <<>>
           own == <<chart.offsets[i] + BarPad + BarH \div 2>>
           l == CHOOSE x \in ToSet(chart.bundles[i].lanes) : x.item.id = n
           lane == <<ChipTop(chart.offsets[i], l.lane) + TestBarH \div 2>>
           c == IF chart.bundles[i].item.id = n THEN own ELSE IF ~f.showTests THEN none ELSE lane
<1>4. own # none /\ lane # none
  <2>1. Len(own) = 1 /\ Len(lane) = 1 /\ Len(none) = 0
    OBVIOUS
  <2> HIDE DEF own, lane, none
  <2> QED  BY <2>1
<1>5. c \in ParcelCenters(chart, f.showTests, n) <=> c # none
  <2> DEFINE Of(j) == IF chart.bundles[j].item.id = n THEN <<chart.offsets[j] + BarPad + BarH \div 2>>
                      ELSE IF ~f.showTests THEN <<>>
                      ELSE LET x == CHOOSE x \in ToSet(chart.bundles[j].lanes) : x.item.id = n
                           IN <<ChipTop(chart.offsets[j], x.lane) + TestBarH \div 2>>
  <2>1. c = Of(i)
    OBVIOUS
  <2>2. ParcelCenters(chart, f.showTests, n) = {d \in {Of(j) : j \in RowOf(chart, n)} : d # none}
    BY DEF ParcelCenters
  <2> HIDE DEF Of, c, none
  <2> QED  BY <1>1, <2>1, <2>2
<1> HIDE DEF own, lane, none
<1>6. c # none
  BY <1>3, <1>4
<1> QED  BY <1>5, <1>6

\* A selection that narrows the rows is one of them, or a test of one.
LEMMA FocusIsParent ==
    ASSUME NEW g, NoItem \notin ItemIds(g.items), NEW ids, NEW selected,
           ids \subseteq ItemIds(g.items), NeighborhoodFocus(g, selected, ids) # NoItem
    PROVE  NeighborhoodFocus(g, selected, ids) \in ids /\ selected # NoItem
<1> DEFINE some == {x \in ToSet(g.items) : x.id = selected /\ IsChip(x)}
           above == {t.parent : t \in some}
           focus == NeighborhoodFocus(g, selected, ids)
<1>1. focus = IF selected \in ids THEN selected
              ELSE IF above \subseteq ids /\ above # {} THEN CHOOSE p \in above : TRUE ELSE NoItem
  BY DEF NeighborhoodFocus
<1>2. selected = NoItem => some = {}
  BY DEF ItemIds, ToSet
<1>3. some = {} => above = {}
  OBVIOUS
<1> HIDE DEF some, above, focus
<1>4. focus \in ids
  <2>1. above # {} => (CHOOSE p \in above : TRUE) \in above
    OBVIOUS
  <2>2. focus # NoItem
    BY DEF focus
  <2> QED  BY <1>1, <2>1, <2>2
<1>5. selected # NoItem
  <2>1. focus # NoItem
    BY DEF focus
  <2> QED  BY <1>1, <1>2, <1>3, <2>1
<1> QED  BY <1>4, <1>5 DEF focus

\* The rows that are left are those that are near the selected one.
ListedIds(chart) == {chart.rows[i].item.id : i \in DOMAIN chart.rows}
NearRows(g, f, ids, focus) == UNION {NearTo(g, leg, ids, focus, f.depth) : leg \in LegsOf(f.direction)}
IsNarrowed(g, f, parents, focus) ==
    /\ IsTimelineGraph(g) /\ IsSequence(g.items) /\ (\A x \in ToSet(g.items) : IsBar(x))
    /\ f.depth \in 1 .. MaxHops /\ f.direction \in Legs \cup {"both"} /\ ~f.showAll
    /\ parents = ItemIds(FilteredParents(g, f))
    /\ focus = NeighborhoodFocus(g, f.selected, parents) /\ focus # NoItem

LEMMA RowsAreNear ==
    ASSUME NEW g, NEW f, NEW parents, NEW focus, IsNarrowed(g, f, parents, focus),
           NEW chart, chart = ChartOf(g, f)
    PROVE  /\ focus \in parents /\ parents \subseteq ItemIds(g.items)
           /\ ListedIds(chart) = NearRows(g, f, parents, focus)
<1> DEFINE listed == FilteredParents(g, f)
           shown == DisplayedParents(g, f, listed)
           near == NeighborhoodIds(g, f, parents)
           NearBy(leg) == NearTo(g, leg, parents, focus, f.depth)
<1>1. IsSequence(listed) /\ ToSet(listed) \subseteq ToSet(g.items)
  BY ListedParents DEF IsNarrowed
<1>2. {p \in ToSet(chart.data) : ~IsChip(p)} = ToSet(shown)
  <2>1. {p \in ToSet(FilteredData(g, f)) : ~IsChip(p)} = ToSet(shown)
    BY ListedParents DEF IsNarrowed
  <2>2. chart.data = FilteredData(g, f)
    BY ChartIsDrawn DEF IsNarrowed
  <2> QED  BY <2>1, <2>2
<1>3. \A id : (\E i \in DOMAIN chart.rows : chart.rows[i].item.id = id)
              <=> \E p \in ToSet(chart.data) : ~IsChip(p) /\ p.id = id
  <2>1. \E N \in Nat : IsDrawn(chart, f, N)
    BY ChartIsDrawn DEF IsNarrowed
  <2> QED  BY <2>1 DEF IsDrawn
<1>4. \A id : id \in parents <=> \E p \in ToSet(listed) : p.id = id
  BY DEF IsNarrowed, ItemIds, ToSet
<1>5. parents \subseteq ItemIds(g.items)
  BY <1>1, <1>4 DEF ItemIds, ToSet
<1>6. focus \in parents /\ f.selected # NoItem
  BY <1>5, FocusIsParent DEF IsNarrowed, IsTimelineGraph
<1>7. Min({f.depth, MaxHops}) = f.depth /\ f.depth \in Nat
  <2>1. f.depth \in Int /\ MaxHops \in Int /\ f.depth <= MaxHops /\ f.depth \in Nat
    BY DEF MaxHops, IsNarrowed
  <2> QED  BY <2>1, MinOfTwo
<1>8. near = UNION {NearBy(leg) : leg \in LegsOf(f.direction)}
  <2>1. focus \in DOMAIN g.adjacency /\ focus # NoItem /\ focus = NeighborhoodFocus(g, f.selected, parents)
    BY <1>5, <1>6 DEF IsNarrowed, IsTimelineGraph
  <2>2. near = UNION {NeighborhoodHalf(g, focus, parents, f.depth, leg) : leg \in LegsOf(f.direction)}
    BY <1>7, <2>1 DEF NeighborhoodIds
  <2>3. \A leg : NeighborhoodHalf(g, focus, parents, f.depth, leg) = NearBy(leg)
    <3> SUFFICES ASSUME NEW leg PROVE NeighborhoodHalf(g, focus, parents, f.depth, leg) = NearBy(leg)
      OBVIOUS
    <3>1. f.depth \in Nat
      BY <1>7
    <3> QED  BY ONLY <3>1, HalfIsNear
  <2> HIDE DEF near, NearBy
  <2> QED  BY <2>2, <2>3
<1>9. ASSUME NEW leg PROVE NearBy(leg) \subseteq parents
  <2> DEFINE far == [k \in Nat |-> NearTo(g, leg, parents, focus, k)]
  <2>1. AreNear(far, g, leg, parents, focus) /\ far[f.depth] = NearBy(leg)
    BY <1>7 DEF AreNear
  <2> HIDE DEF far, NearBy
  <2>2. \A k \in Nat : far[k] \subseteq parents \cup {focus}
    BY <2>1, NearGrows
  <2> QED  BY <1>6, <1>7, <2>1, <2>2
<1> HIDE DEF NearBy
<1>10. near \subseteq parents
  BY <1>8, <1>9
<1> HIDE DEF near
<1>11. \A p : p \in ToSet(shown) <=> p \in ToSet(listed) /\ p.id \in near
  <2> DEFINE kept == {p \in ToSet(listed) : p.id \in near}
  <2>1. shown = Only(listed, kept)
    BY <1>6 DEF DisplayedParents, near, IsNarrowed
  <2>2. \A p : p \in kept <=> p \in ToSet(listed) /\ p.id \in near
    OBVIOUS
  <2> HIDE DEF kept, listed, shown
  <2>3. ToSet(Only(listed, kept)) = ToSet(listed) \cap kept
    BY <1>1, OnlyOwn
  <2> QED  BY <2>1, <2>2, <2>3
<1> HIDE DEF shown, listed
<1>12. \A id : (\E i \in DOMAIN chart.rows : chart.rows[i].item.id = id) <=> id \in near
  BY <1>2, <1>3, <1>4, <1>10, <1>11
<1>13. {chart.rows[i].item.id : i \in DOMAIN chart.rows} = near
  BY <1>12
<1>14. UNION {NearBy(leg) : leg \in LegsOf(f.direction)} = NearRows(g, f, parents, focus)
  BY DEF NearRows, NearBy
<1> QED  BY <1>5, <1>6, <1>8, <1>13, <1>14 DEF ListedIds

\* The view of a run: what is drawn for the row one points at.
IsTimelineView(g, f, chart) ==
    /\ IsTimelineGraph(g) /\ IsSequence(g.items) /\ (\A x \in ToSet(g.items) : IsBar(x))
    /\ f.depth \in 1 .. MaxHops /\ f.direction \in Legs \cup {"both"} /\ chart = ChartOf(g, f)
FarEnd(e) == IF e.leg = "upstream" THEN e.to ELSE e.from
IsFromTo(g, leg, e, v, n) ==
    /\ e.leg = leg /\ FarEnd(e) = v /\ {e.from, e.to} = {v, n} /\ EndsOf(e) = HopEnds(leg, v, n)
    /\ AdjacentTo(g, "downstream", e.from, e.to)

LEMMA ViewIsFocused ==
    ASSUME NEW g, NEW f, NEW chart, IsTimelineView(g, f, chart), NEW focus \in OnIds(chart)
    PROVE  IsFocused(g, chart, OnIds(chart), focus) /\ focus \in ItemIds(chart.data)
<1>1. ToSet(chart.data) \subseteq ToSet(g.items) /\ \E N \in Nat : IsDrawn(chart, f, N)
  BY ChartIsDrawn DEF IsTimelineView
<1>2. OnIds(chart) \subseteq ItemIds(chart.data) /\ ItemIds(chart.data) \subseteq ItemIds(g.items)
  BY <1>1 DEF OnIds, ItemIds, ToSet
<1>3. \A n : RowOf(chart, n) # {} <=> n \in OnIds(chart)
  BY <1>1, OnIdsAre
<1> QED  BY <1>2, <1>3 DEF IsFocused, IsTimelineView

\* An edge of a leg leads from what is near on to what is next to it.
LEMMA EdgeHasEnds ==
    ASSUME NEW g, NEW chart, NEW on, NEW focus, IsFocused(g, chart, on, focus), NEW depth \in 1 .. 3,
           NEW one, NEW far, AreFocusEdges(g, chart, on, focus, depth, one, far), NEW leg \in Legs,
           NEW e, e \in ToSet(one[leg]) \/ e \in ToSet(far[leg])
    PROVE  /\ e.hop \in 1 .. depth
           /\ e \in ToSet(one[leg]) <=> e.hop = 1
           /\ e \in ToSet(far[leg]) <=> e.hop \in 2 .. 3
           /\ \E v, n : /\ IsFromTo(g, leg, e, v, n) /\ v \in on /\ n \in on
                        /\ e.hop = 1 => v = focus
                        /\ e.hop # 1 => v \in NearTo(g, leg, on, focus, e.hop - 1)
                                                \ NearTo(g, leg, on, focus, e.hop - 2)
<1>1. PICK w : w = AlongLeg(g, chart, on, focus, leg)
  OBVIOUS
<1>2. /\ IsWalk(w) /\ w.g = g /\ w.on = on /\ w.focus = focus /\ w.leg = leg
      /\ AreEdges(w, depth, one[leg], far[leg])
  BY <1>1, AlongIsWalk DEF AreFocusEdges
<1>3. /\ e.hop \in 1 .. depth
      /\ e \in ToSet(one[leg]) <=> e.hop = 1
      /\ e \in ToSet(far[leg]) <=> e.hop \in 2 .. 3
      /\ \E v \in w.near[2] : \E n :
            /\ IsEdgeAt(w, e, v, n) /\ (e.hop = 1 <=> v = w.focus)
            /\ e.hop # 1 => v \in w.near[e.hop - 1] \ w.near[e.hop - 2]
  BY <1>2, EdgeIsAlong
<1>4. PICK v, n : /\ v \in w.near[2] /\ IsEdgeAt(w, e, v, n) /\ (e.hop = 1 <=> v = w.focus)
                  /\ e.hop # 1 => v \in w.near[e.hop - 1] \ w.near[e.hop - 2]
  BY <1>3
<1>5. v \in on /\ n \in on
  <2>1. \A k \in Nat : w.near[k] \subseteq w.on \cup {w.focus}
    BY <1>2, NearGrows DEF IsWalk
  <2>2. 2 \in Nat
    OBVIOUS
  <2> QED  BY <1>2, <1>4, <2>1, <2>2 DEF IsWalk, IsEdgeAt
<1>6. IsFromTo(g, leg, e, v, n)
  <2>1. e.leg = leg /\ AdjacentTo(g, leg, v, n) /\ <<e.from, e.to>> = HopEnds(leg, v, n)
    BY <1>2, <1>4 DEF IsEdgeAt, EndsOf
  <2>2. v \in ItemIds(g.items) /\ n \in ItemIds(g.items)
    BY <1>5 DEF IsFocused
  <2>3. \A x, y \in ItemIds(g.items) : AdjacentTo(g, "upstream", x, y) <=> AdjacentTo(g, "downstream", y, x)
    BY DEF IsFocused, IsTimelineGraph
  <2>4. CASE leg = "upstream"
    <3>1. e.from = n /\ e.to = v
      BY <2>1, <2>4 DEF HopEnds
    <3> QED  BY <2>1, <2>2, <2>3, <2>4, <3>1 DEF IsFromTo, FarEnd, EndsOf
  <2>5. CASE leg = "downstream"
    <3>1. e.from = v /\ e.to = n
      BY <2>1, <2>5 DEF HopEnds
    <3> QED  BY <2>1, <2>5, <3>1 DEF IsFromTo, FarEnd, EndsOf
  <2> QED  BY <2>4, <2>5 DEF Legs
<1>7. ASSUME e.hop # 1
      PROVE  v \in NearTo(g, leg, on, focus, e.hop - 1) \ NearTo(g, leg, on, focus, e.hop - 2)
  <2>1. e.hop - 1 \in Nat /\ e.hop - 2 \in Nat
    BY <1>3, <1>7
  <2>2. \A k \in Nat : w.near[k] = NearTo(g, leg, on, focus, k)
    BY <1>1 DEF AlongLeg
  <2> QED  BY <1>4, <1>7, <2>1, <2>2
<1> QED  BY <1>2, <1>3, <1>4, <1>5, <1>6, <1>7

\* Everything that is found is drawn; nothing is found from what is not on the chart.
LEMMA DrawnAre ==
    ASSUME NEW g, NEW f, NEW chart, IsTimelineView(g, f, chart), NEW focus
    PROVE  LET on == OnIds(chart)
               edges == DrawnEdges(g, f, chart, focus)
           IN  /\ focus \notin on => edges = {}
               /\ focus \in on =>
                      \E one, far : /\ AreFocusEdges(g, chart, on, focus, f.depth, one, far)
                                    /\ edges = OfEach(LegsOf(f.direction), one, far)
<1> DEFINE on == OnIds(chart)
           found == FocusEdges(g, f, chart, focus)
           edges == DrawnEdges(g, f, chart, focus)
<1>1. edges = {e \in found : /\ ParcelCenters(chart, f.showTests, e.from) # {}
                             /\ ParcelCenters(chart, f.showTests, e.to) # {}}
  BY DEF DrawnEdges
<1>2. PICK N \in Nat : IsDrawn(chart, f, N)
  BY ChartIsDrawn DEF IsTimelineView
<1>3. \A n : RowOf(chart, n) # {} <=> n \in on
  BY <1>2, OnIdsAre
<1>4. CASE focus \notin on
  <2>1. found = {}
    BY <1>3, <1>4 DEF FocusEdges
  <2> HIDE DEF found, edges, on
  <2>2. edges = {}
    BY <1>1, <2>1
  <2> QED  BY <1>4, <2>2 DEF edges, on
<1>5. CASE focus \in on
  <2>1. IsFocused(g, chart, on, focus) /\ focus \in ItemIds(chart.data)
    BY <1>5, ViewIsFocused
  <2>2. f.depth \in 1 .. MaxHops /\ f.direction \in Legs \cup {"both"}
    BY DEF IsTimelineView
  <2> HIDE DEF found, edges, on
  <2>3. PICK one, far : /\ AreFocusEdges(g, chart, on, focus, f.depth, one, far)
                        /\ found = OfEach(LegsOf(f.direction), one, far)
    BY <2>1, <2>2, FocusEdgesAre DEF found
  <2>4. ASSUME NEW e \in found
        PROVE  ParcelCenters(chart, f.showTests, e.from) # {} /\ ParcelCenters(chart, f.showTests, e.to) # {}
    <3>1. PICK leg \in LegsOf(f.direction) : e \in ToSet(one[leg]) \/ e \in ToSet(far[leg])
      BY <2>3, <2>4 DEF OfEach
    <3>2. leg \in Legs /\ f.depth \in 1 .. 3
      BY <2>2, <3>1 DEF Legs, LegsOf, MaxHops
    <3>3. \E v, n : IsFromTo(g, leg, e, v, n) /\ v \in on /\ n \in on
      BY <2>1, <2>3, <3>1, <3>2, EdgeHasEnds
    <3>4. e.from \in on /\ e.to \in on
      BY <3>3 DEF IsFromTo
    <3>5. ~f.showTests => \A x \in ToSet(chart.data) : ~IsChip(x)
      <4>1. chart.data = FilteredData(g, f)
        BY ChartIsDrawn DEF IsTimelineView
      <4>2. ~f.showTests => \A x \in ToSet(FilteredData(g, f)) : ~IsChip(x)
        BY ListedParents DEF IsTimelineView
      <4> QED  BY <4>1, <4>2
    <3> QED  BY <1>2, <1>3, <3>4, <3>5, OnHasCenter
  <2>5. edges = found
    BY <1>1, <2>4
  <2> QED  BY <1>5, <2>3, <2>5 DEF edges, on
<1> QED  BY <1>4, <1>5

\* Every edge is a dependency, along a leg that is asked for, as far as it says.
LEMMA DrawnAreDependencies ==
    ASSUME IsTimelineView(gantt, filters, ChartOf(gantt, filters))
    PROVE  LET chart == ChartOf(gantt, filters)
           IN  EdgesAreDependencies(chart, DrawnEdges(gantt, filters, chart, EdgeFocus))
<1> DEFINE chart == ChartOf(gantt, filters)
           edges == DrawnEdges(gantt, filters, chart, EdgeFocus)
           on == OnIds(chart)
           legs == LegsOf(filters.direction)
           depth == filters.depth
<1>1. IsTimelineView(gantt, filters, chart)
  OBVIOUS
<1> HIDE DEF chart
<1>2. /\ EdgeFocus \notin on => edges = {}
      /\ EdgeFocus \in on => \E one, far : /\ AreFocusEdges(gantt, chart, on, EdgeFocus, depth, one, far)
                                          /\ edges = OfEach(legs, one, far)
  BY <1>1, DrawnAre
<1>3. legs \subseteq Legs /\ depth \in 1 .. 3
  BY <1>1 DEF IsTimelineView, Legs, LegsOf, MaxHops
<1> HIDE DEF edges, legs, depth
<1>4. ASSUME NEW e \in edges
      PROVE  /\ AdjacentTo(gantt, "downstream", e.from, e.to) /\ {e.from, e.to} \subseteq on
             /\ e.hop <= depth /\ e.leg \in legs
             /\ e.hop = 1 => FarEnd(e) = EdgeFocus
             /\ e.hop # 1 => FarEnd(e) \in NearTo(gantt, e.leg, on, EdgeFocus, e.hop - 1)
                                           \ NearTo(gantt, e.leg, on, EdgeFocus, e.hop - 2)
  <2>1. EdgeFocus \in on
    BY <1>2, <1>4
  <2>2. PICK one, far : /\ AreFocusEdges(gantt, chart, on, EdgeFocus, depth, one, far)
                        /\ edges = OfEach(legs, one, far)
    BY <1>2, <2>1
  <2>3. IsFocused(gantt, chart, on, EdgeFocus)
    BY <1>1, <2>1, ViewIsFocused
  <2>4. PICK leg \in legs : e \in ToSet(one[leg]) \/ e \in ToSet(far[leg])
    BY <1>4, <2>2 DEF OfEach
  <2>5. leg \in Legs
    BY <1>3, <2>4
  <2> HIDE DEF on
  <2>6. /\ e.hop \in 1 .. depth
        /\ \E v, n : /\ IsFromTo(gantt, leg, e, v, n) /\ v \in on /\ n \in on
                     /\ e.hop = 1 => v = EdgeFocus
                     /\ e.hop # 1 => v \in NearTo(gantt, leg, on, EdgeFocus, e.hop - 1)
                                            \ NearTo(gantt, leg, on, EdgeFocus, e.hop - 2)
    BY <1>3, <2>2, <2>3, <2>4, <2>5, EdgeHasEnds
  <2>7. e.hop <= depth
    BY <1>3, <2>6
  <2> QED  BY <2>4, <2>6, <2>7 DEF IsFromTo
<1>5. EdgesAreDependencies(chart, edges)
  BY <1>4 DEF EdgesAreDependencies, FarEnd, on, legs, depth, OnIds
<1> QED  BY <1>5 DEF chart, edges

\* Different ends make different edges, so that as many as listed are drawn.
LEMMA EdgesAreCounted ==
    ASSUME NEW q, IsSequence(q), EndOnce(q)
    PROVE  Len(q) \in Nat /\ Cardinality(ToSet(q)) = Len(q)
<1>1. \A i, j \in 1 .. Len(q) : q[i] = q[j] => i = j
  BY DEF EndOnce
<1>2. OnceEach(q)
  BY <1>1, OnceIs
<1> QED  BY <1>2, OnceIsCounted

\* The edges of one leg, of its own and the others.
LEMMA LegEdgesAre ==
    ASSUME NEW g, NEW chart, NEW on, NEW focus, IsFocused(g, chart, on, focus), NEW depth \in 1 .. 3,
           NEW one, NEW far, AreFocusEdges(g, chart, on, focus, depth, one, far),
           NEW legs \in SUBSET Legs, NEW edges, edges = OfEach(legs, one, far), NEW leg \in legs
    PROVE  /\ {e \in edges : e.hop = 1 /\ e.leg = leg} = ToSet(one[leg])
           /\ {e \in edges : e.leg = leg /\ e.hop \in {1}} = ToSet(one[leg])
           /\ {e \in edges : e.leg = leg /\ e.hop \in 2 .. MaxHops} = ToSet(far[leg])
<1>1. \A l \in legs : \A e : e \in ToSet(one[l]) \/ e \in ToSet(far[l])
                             => /\ e.leg = l
                                /\ e \in ToSet(one[l]) <=> e.hop = 1
                                /\ e \in ToSet(far[l]) <=> e.hop \in 2 .. 3
  <2> SUFFICES ASSUME NEW l \in legs, NEW e, e \in ToSet(one[l]) \/ e \in ToSet(far[l])
               PROVE  /\ e.leg = l
                      /\ e \in ToSet(one[l]) <=> e.hop = 1
                      /\ e \in ToSet(far[l]) <=> e.hop \in 2 .. 3
    OBVIOUS
  <2>1. l \in Legs
    OBVIOUS
  <2>2. /\ e \in ToSet(one[l]) <=> e.hop = 1
        /\ e \in ToSet(far[l]) <=> e.hop \in 2 .. 3
        /\ \E v, n : IsFromTo(g, l, e, v, n)
    BY <2>1, EdgeHasEnds
  <2> QED  BY <2>2 DEF IsFromTo
<1>2. \A e : e \in edges <=> \E l \in legs : e \in ToSet(one[l]) \/ e \in ToSet(far[l])
  BY DEF OfEach
<1> QED  BY <1>1, <1>2 DEF MaxHops

\* As many of its own dependencies as there are on the chart and may be drawn.
LEMMA DirectAreDrawn ==
    ASSUME IsTimelineView(gantt, filters, ChartOf(gantt, filters))
    PROVE  LET chart == ChartOf(gantt, filters)
           IN  DirectEdgesAreDrawn(chart, DrawnEdges(gantt, filters, chart, EdgeFocus))
<1> DEFINE chart == ChartOf(gantt, filters)
           edges == DrawnEdges(gantt, filters, chart, EdgeFocus)
           on == OnIds(chart)
           legs == LegsOf(filters.direction)
           depth == filters.depth
           Own(leg) == {n \in ItemIds(chart.data) : AdjacentTo(gantt, leg, EdgeFocus, n) /\ RowOf(chart, n) # {}}
           First(leg) == {e \in edges : e.hop = 1 /\ e.leg = leg}
<1>1. IsTimelineView(gantt, filters, chart)
  OBVIOUS
<1> HIDE DEF chart
<1>2. legs \subseteq Legs /\ depth \in 1 .. 3
  BY <1>1 DEF IsTimelineView, Legs, LegsOf, MaxHops
<1>3. ASSUME NEW leg \in legs, RowOf(chart, EdgeFocus) # {}
      PROVE  Cardinality(First(leg)) = Min({MaxDirectEdges, Cardinality(Own(leg))})
  <2>1. PICK N \in Nat : IsDrawn(chart, filters, N)
    BY <1>1, ChartIsDrawn DEF IsTimelineView
  <2>2. \A n : RowOf(chart, n) # {} <=> n \in on
    BY <2>1, OnIdsAre
  <2>3. EdgeFocus \in on
    BY <1>3, <2>2
  <2>4. PICK one, far : /\ AreFocusEdges(gantt, chart, on, EdgeFocus, depth, one, far)
                        /\ edges = OfEach(legs, one, far)
    BY <1>1, <2>3, DrawnAre
  <2>5. IsFocused(gantt, chart, on, EdgeFocus)
    BY <1>1, <2>3, ViewIsFocused
  <2>6. \A n : n \in on => n \in ItemIds(chart.data)
    BY DEF OnIds, ItemIds, ToSet
  <2>7. leg \in Legs /\ legs \in SUBSET Legs
    BY <1>2, <1>3
  <2> HIDE DEF on, legs, depth, edges
  <2>8. First(leg) = ToSet(one[leg])
    BY <1>2, <1>3, <2>4, <2>5, <2>7, LegEdgesAre
  <2>9. PICK w : w = AlongLeg(gantt, chart, on, EdgeFocus, leg)
    OBVIOUS
  <2>10. /\ w.g = gantt /\ w.on = on /\ w.focus = EdgeFocus /\ w.leg = leg
         /\ AreEdges(w, depth, one[leg], far[leg])
    BY <2>4, <2>5, <2>7, <2>9, AlongIsWalk DEF AreFocusEdges
  <2>11. /\ IsSequence(one[leg]) /\ EndOnce(one[leg])
         /\ Len(one[leg]) = Min({MaxDirectEdges, Cardinality(OwnNeighbours(w))})
    BY <2>10 DEF AreEdges, AreDirect
  <2>12. OwnNeighbours(w) = Own(leg)
    BY <2>2, <2>6, <2>10 DEF OwnNeighbours
  <2>13. Cardinality(ToSet(one[leg])) = Len(one[leg])
    BY <2>11, EdgesAreCounted
  <2> QED  BY <2>8, <2>11, <2>12, <2>13
<1> HIDE DEF First, Own
<1>4. DirectEdgesAreDrawn(chart, edges)
  BY <1>3 DEF DirectEdgesAreDrawn, First, Own, legs
<1> QED  BY <1>4 DEF chart, edges

\* What is near among more is near among fewer, if those are what is near.
LEMMA NearStays ==
    ASSUME NEW near, NEW some, NEW g, NEW leg, NEW within, NEW ids, NEW from, NEW top \in Nat,
           AreNear(near, g, leg, within, from), AreNear(some, g, leg, ids, from), near[top] \subseteq ids
    PROVE  \A k \in 0 .. top : near[k] \subseteq some[k]
<1>1. /\ near[0] = {from} /\ \A k \in Nat : near[k + 1] = Nearer(g, leg, within, near[k])
      /\ \A k, m \in Nat : k <= m => near[k] \subseteq near[m]
  BY NearGrows
<1>2. some[0] = {from} /\ \A k \in Nat : some[k + 1] = Nearer(g, leg, ids, some[k])
  BY NearGrows
<1> DEFINE done == {k \in 0 .. top : near[k] \subseteq some[k]}
<1>3. 0 \in done
  BY <1>1, <1>2
<1>4. ASSUME NEW n \in 1 .. top, n - 1 \in done PROVE n \in done
  <2>1. PICK k \in Nat : n = k + 1 /\ n - 1 = k
    <3>1. n - 1 \in Nat /\ n = (n - 1) + 1
      OBVIOUS
    <3> QED  BY <3>1
  <2>2. near[n] \subseteq ids
    BY <1>1
  <2>3. near[n] = Nearer(g, leg, within, near[k]) /\ some[n] = Nearer(g, leg, ids, some[k])
    BY <1>1, <1>2, <2>1
  <2>4. near[k] \subseteq some[k]
    BY <1>4, <2>1
  <2>5. near[n] \subseteq some[n]
    BY <2>2, <2>3, <2>4 DEF Nearer
  <2> QED  BY <2>5
<1> HIDE DEF done
<1>5. 0 .. top \subseteq done
  BY <1>3, <1>4, BoundedInduction
<1> QED  BY <1>5 DEF done

\* Unless there are too many, what is next to what is near has an edge.
LEMMA NextHasEdge ==
    ASSUME NEW w, IsWalk(w), NEW depth \in 1 .. 3, NEW one, NEW far, AreEdges(w, depth, one, far),
           Len(one) < MaxDirectEdges, Len(far) < MaxExtendedEdges,
           NEW v \in w.near[depth - 1], NEW x \in w.on, AdjacentTo(w.g, w.leg, v, x)
    PROVE  \E e : (e \in ToSet(one) \/ e \in ToSet(far)) /\ x \in {e.from, e.to}
<1>1. \A e : EndsOf(e) = HopEnds(w.leg, v, x) => x \in {e.from, e.to}
  BY DEF EndsOf, HopEnds
<1>2. CASE v = w.focus
  <2>1. x \in OwnNeighbours(w)
    BY <1>2 DEF OwnNeighbours
  <2>2. \E e \in ToSet(one) : EndsOf(e) = HopEnds(w.leg, w.focus, x)
    BY <2>1 DEF AreEdges, AreDirect
  <2> QED  BY <1>1, <1>2, <2>2
<1>3. CASE v # w.focus
  <2>1. PICK q : q.edges = far /\ HasVisited(w, depth, q)
    BY DEF AreEdges
  <2>2. Len(far) \in Nat /\ MaxExtendedEdges \in Nat
    BY <2>1, RunsOfGraphs, OwnMembers DEF HasVisited, Walked, IsSequence
  <2>3. ~q.truncated
    BY <2>1, <2>2 DEF HasVisited, Walked
  <2>4. HopEnds(w.leg, v, x) \in q.seen
    <3>1. v \in NearBefore(w, depth)
      BY DEF NearBefore
    <3> QED  BY <2>1, <2>3, <3>1 DEF HasVisited, SeenAll
  <2>5. IsKnown(w, HopEnds(w.leg, v, x), q, NearBefore(w, depth))
    BY <2>1, <2>4 DEF HasVisited, Walked
  <2>6. PICK y, n : /\ HopEnds(w.leg, v, x) = HopEnds(w.leg, y, n)
                    /\ y = w.focus \/ \E e \in ToSet(far) : EndsOf(e) = HopEnds(w.leg, v, x)
    BY <2>1, <2>5 DEF IsKnown
  <2>7. y = v
    BY <2>6, EndsTell
  <2> QED  BY <1>1, <1>3, <2>6, <2>7
<1> QED  BY <1>2, <1>3

\* A row that is near along a leg has an edge of it.
LEMMA NearHasEdge ==
    ASSUME NEW g, NEW chart, NEW on, NEW focus, IsFocused(g, chart, on, focus), NEW depth \in 1 .. 3,
           NEW one, NEW far, AreFocusEdges(g, chart, on, focus, depth, one, far), NEW leg \in Legs,
           Len(one[leg]) < MaxDirectEdges, Len(far[leg]) < MaxExtendedEdges,
           NEW ids, NearTo(g, leg, ids, focus, depth) \subseteq on,
           NEW x \in NearTo(g, leg, ids, focus, depth), x # focus
    PROVE  \E e : (e \in ToSet(one[leg]) \/ e \in ToSet(far[leg])) /\ x \in {e.from, e.to}
<1>1. PICK w : w = AlongLeg(g, chart, on, focus, leg)
  OBVIOUS
<1>2. /\ IsWalk(w) /\ w.g = g /\ w.on = on /\ w.focus = focus /\ w.leg = leg
      /\ AreEdges(w, depth, one[leg], far[leg])
  BY <1>1, AlongIsWalk DEF AreFocusEdges
<1> DEFINE near == [k \in Nat |-> NearTo(g, leg, ids, focus, k)]
<1>3. AreNear(near, g, leg, ids, focus) /\ near[depth] = NearTo(g, leg, ids, focus, depth)
  BY DEF AreNear
<1> HIDE DEF near
<1>4. AreNear(w.near, g, leg, on, focus)
  BY <1>2 DEF IsWalk
<1>5. depth \in Nat /\ near[depth] \subseteq on
  BY <1>3
<1>6. \A k \in 0 .. depth : near[k] \subseteq w.near[k]
  <2>1. PICK some : some = w.near
    OBVIOUS
  <2>2. AreNear(some, g, leg, on, focus)
    BY <1>4, <2>1
  <2>3. \A k \in 0 .. depth : near[k] \subseteq some[k]
    BY ONLY <1>3, <1>5, <2>2, NearStays
  <2> QED  BY <2>1, <2>3
<1>7. PICK m \in 1 .. depth : \E v \in near[m - 1] : AdjacentTo(g, leg, v, x)
  BY <1>3, <1>5, NearIsNext
<1>8. PICK v \in near[m - 1] : AdjacentTo(g, leg, v, x)
  BY <1>7
<1>9. v \in w.near[depth - 1]
  <2>1. m - 1 \in 0 .. depth /\ m - 1 \in Nat /\ depth - 1 \in Nat /\ m - 1 <= depth - 1
    OBVIOUS
  <2>2. \A k, n \in Nat : k <= n => w.near[k] \subseteq w.near[n]
    BY <1>4, NearGrows
  <2> QED  BY <1>6, <1>8, <2>1, <2>2
<1>10. x \in w.on
  BY <1>2
<1> QED  BY <1>2, <1>8, <1>9, <1>10, NextHasEdge

\* A selected row that is listed narrows the rows to what is near it.
LEMMA SelectedIsFocus ==
    ASSUME NEW g, NEW f, NEW chart, IsTimelineView(g, f, chart), ~f.showAll,
           NEW i \in DOMAIN chart.rows, chart.rows[i].item.id = f.selected
    PROVE  \E parents : /\ IsNarrowed(g, f, parents, f.selected)
                        /\ ListedIds(chart) = NearRows(g, f, parents, f.selected)
<1> DEFINE listed == FilteredParents(g, f)
           shown == DisplayedParents(g, f, listed)
           parents == ItemIds(listed)
<1>1. PICK N \in Nat : IsDrawn(chart, f, N)
  BY ChartIsDrawn DEF IsTimelineView
<1>2. \E p \in ToSet(chart.data) : ~IsChip(p) /\ p.id = f.selected
  BY <1>1 DEF IsDrawn
<1>3. /\ chart.data = FilteredData(g, f) /\ ToSet(listed) \subseteq ToSet(g.items)
      /\ {p \in ToSet(FilteredData(g, f)) : ~IsChip(p)} = ToSet(shown)
      /\ ToSet(shown) \subseteq ToSet(listed)
  BY ChartIsDrawn, ListedParents DEF IsTimelineView
<1> HIDE DEF listed, shown
<1>4. PICK p \in ToSet(listed) : p.id = f.selected /\ p \in ToSet(g.items)
  BY <1>2, <1>3
<1>5. f.selected \in parents
  BY <1>4 DEF ItemIds, ToSet
<1>6. f.selected # NoItem
  <2>1. f.selected \in ItemIds(g.items)
    BY <1>4 DEF ItemIds, ToSet
  <2> QED  BY <2>1 DEF IsTimelineView, IsTimelineGraph
<1> HIDE DEF parents
<1>7. NeighborhoodFocus(g, f.selected, parents) = f.selected
  BY <1>5 DEF NeighborhoodFocus
<1>8. IsNarrowed(g, f, parents, f.selected)
  BY <1>6, <1>7 DEF IsNarrowed, IsTimelineView, parents, listed
<1>9. chart = ChartOf(g, f)
  BY DEF IsTimelineView
<1> QED  BY <1>8, <1>9, RowsAreNear

\* The edges of a selected row connect every row that was kept for it, unless there are too many.
LEMMA RowsAreConnected ==
    ASSUME IsTimelineView(gantt, filters, ChartOf(gantt, filters))
    PROVE  LET chart == ChartOf(gantt, filters)
           IN  EdgesConnectRows(chart, DrawnEdges(gantt, filters, chart, EdgeFocus))
<1> DEFINE chart == ChartOf(gantt, filters)
           edges == DrawnEdges(gantt, filters, chart, EdgeFocus)
           on == OnIds(chart)
           legs == LegsOf(filters.direction)
           depth == filters.depth
           rows == {chart.bundles[i].item.id : i \in DOMAIN chart.bundles}
           Count(leg, hops) == Cardinality({e \in edges : e.leg = leg /\ e.hop \in hops})
<1>1. IsTimelineView(gantt, filters, chart)
  OBVIOUS
<1> HIDE DEF chart
<1>2. legs \subseteq Legs /\ depth \in 1 .. 3 /\ legs \in SUBSET Legs
  BY <1>1 DEF IsTimelineView, Legs, LegsOf, MaxHops
<1>3. ASSUME EdgeFocus = filters.selected, EdgeFocus \in rows, ~filters.showAll, filters.window = FullRun,
             \A leg \in legs : Count(leg, {1}) < MaxDirectEdges /\ Count(leg, 2 .. MaxHops) < MaxExtendedEdges,
             NEW x \in rows, x # EdgeFocus
      PROVE  \E e \in edges : x \in {e.from, e.to}
  <2>1. PICK N \in Nat : IsDrawn(chart, filters, N)
    BY <1>1, ChartIsDrawn DEF IsTimelineView
  <2>2. chart.bundles = chart.rows
    BY <1>3, <2>1 DEF IsDrawn
  <2>3. PICK i \in DOMAIN chart.rows : chart.rows[i].item.id = filters.selected
    BY <1>3, <2>2
  <2>4. PICK parents : rows = UNION {NearTo(gantt, leg, parents, filters.selected, depth) : leg \in legs}
    <3>1. PICK parents : ListedIds(chart) = NearRows(gantt, filters, parents, filters.selected)
      BY <1>1, <1>3, <2>3, SelectedIsFocus
    <3>2. ListedIds(chart) = rows
      BY <2>2 DEF ListedIds
    <3>3. NearRows(gantt, filters, parents, filters.selected) =
              UNION {NearTo(gantt, leg, parents, filters.selected, depth) : leg \in legs}
      BY DEF NearRows
    <3> QED  BY <3>1, <3>2, <3>3
  <2>5. rows \subseteq on
    <3>1. \A n : RowOf(chart, n) # {} <=> n \in on
      BY <2>1, OnIdsAre
    <3>2. \A n \in rows : RowOf(chart, n) # {}
      BY DEF RowOf
    <3> QED  BY <3>1, <3>2
  <2>6. EdgeFocus \in on
    BY <1>3, <2>5
  <2>7. PICK one, far : /\ AreFocusEdges(gantt, chart, on, EdgeFocus, depth, one, far)
                        /\ edges = OfEach(legs, one, far)
    BY <1>1, <2>6, DrawnAre
  <2>8. IsFocused(gantt, chart, on, EdgeFocus)
    BY <1>1, <2>6, ViewIsFocused
  <2> HIDE DEF on, legs, depth, edges, rows
  <2>9. PICK leg \in legs : x \in NearTo(gantt, leg, parents, EdgeFocus, depth)
    BY <1>3, <2>4
  <2>10. NearTo(gantt, leg, parents, EdgeFocus, depth) \subseteq on
    BY <1>3, <2>4, <2>5, <2>9
  <2>11. leg \in Legs
    BY <1>2, <2>9
  <2>12. /\ {e \in edges : e.leg = leg /\ e.hop \in {1}} = ToSet(one[leg])
         /\ {e \in edges : e.leg = leg /\ e.hop \in 2 .. MaxHops} = ToSet(far[leg])
    BY <1>2, <2>7, <2>8, <2>9, LegEdgesAre
  <2>13. /\ IsSequence(one[leg]) /\ EndOnce(one[leg]) /\ IsSequence(far[leg]) /\ EndOnce(far[leg])
    BY <2>7, <2>11 DEF AreFocusEdges, AreEdges, AreDirect, HasVisited, Walked
  <2>14. Len(one[leg]) = Count(leg, {1}) /\ Len(far[leg]) = Count(leg, 2 .. MaxHops)
    BY <2>12, <2>13, EdgesAreCounted
  <2>15. Len(one[leg]) < MaxDirectEdges /\ Len(far[leg]) < MaxExtendedEdges
    BY <1>3, <2>9, <2>14
  <2> HIDE DEF Count
  <2>16. \E e : (e \in ToSet(one[leg]) \/ e \in ToSet(far[leg])) /\ x \in {e.from, e.to}
    BY <1>2, <1>3, <2>7, <2>8, <2>9, <2>10, <2>11, <2>15, NearHasEdge
  <2> QED  BY <2>7, <2>9, <2>16 DEF OfEach
<1> HIDE DEF edges
<1>4. EdgesConnectRows(chart, edges)
  <2> SUFFICES ASSUME EdgeFocus = filters.selected, EdgeFocus \in rows, ~filters.showAll, filters.window = FullRun,
                      \A leg \in legs : Count(leg, {1}) < MaxDirectEdges /\ Count(leg, 2 .. MaxHops) < MaxExtendedEdges,
                      NEW x \in rows, x # EdgeFocus
               PROVE  x \in UNION {{e.from, e.to} : e \in edges}
    BY DEF EdgesConnectRows
  <2>1. PICK e \in edges : x \in {e.from, e.to}
    BY <1>3
  <2> QED  BY <2>1
<1> QED  BY <1>4 DEF chart, edges

\* A run that is a graph, and a depth and a direction that there are.
AskedInv ==
    /\ IsTimelineGraph(gantt)
    /\ filters.depth \in 1 .. MaxHops /\ filters.direction \in Legs \cup {"both"}
ChartInv == TimelineInv /\ AskedInv

LEMMA ChartIsShown ==
    ASSUME ChartInv
    PROVE  TimelineShowsNeighbourhood
<1> DEFINE chart == ChartOf(gantt, filters)
           edges == DrawnEdges(gantt, filters, chart, EdgeFocus)
           parents == ItemIds(FilteredParents(gantt, filters))
           focus == NeighborhoodFocus(gantt, filters.selected, parents)
<1>1. IsSequence(gantt.items) /\ \A x \in ToSet(gantt.items) : IsBar(x)
  BY DEF ChartInv, TimelineInv, AreBars, IsQueue, IsSequence, ToSet
<1>2. IsTimelineView(gantt, filters, chart)
  BY <1>1 DEF IsTimelineView, ChartInv, AskedInv
<1>3. EdgesAreDependencies(chart, edges)
  BY <1>2, DrawnAreDependencies
<1>4. DirectEdgesAreDrawn(chart, edges)
  BY <1>2, DirectAreDrawn
<1>5. EdgesConnectRows(chart, edges)
  BY <1>2, RowsAreConnected
<1>6. NarrowsToNear(chart)
  <2> SUFFICES ASSUME focus # NoItem, ~filters.showAll
               PROVE  ListedIds(chart) = NearRows(gantt, filters, parents, focus)
    BY DEF NarrowsToNear, ListedIds, NearRows
  <2>1. IsNarrowed(gantt, filters, parents, focus)
    BY <1>2 DEF IsTimelineView, IsNarrowed
  <2>2. PICK c, p, x : c = chart /\ p = parents /\ x = focus
    OBVIOUS
  <2> HIDE DEF parents, focus
  <2>3. c = ChartOf(gantt, filters) /\ IsNarrowed(gantt, filters, p, x)
    BY <2>1, <2>2
  <2>4. ListedIds(c) = NearRows(gantt, filters, p, x)
    BY ONLY <2>3, RowsAreNear
  <2> QED  BY <2>2, <2>4
<1> HIDE DEF edges, chart
<1>7. ChartShowsNeighbourhood(chart)
  BY <1>3, <1>4, <1>5, <1>6 DEF ChartShowsNeighbourhood, EdgesAreRight, edges
<1> QED  BY <1>7 DEF TimelineShowsNeighbourhood, chart

LEMMA IdleGraph ==
    ASSUME NEW g, g.items = <<>>, g.adjacency = <<>>
    PROVE  IsTimelineGraph(g)
<1>1. ItemIds(g.items) = {} /\ DOMAIN g.adjacency = {}
  BY DEF ItemIds
<1> QED  BY <1>1 DEF IsTimelineGraph

LEMMA InitChart == Init => ChartInv
<1> SUFFICES ASSUME Init PROVE ChartInv
  OBVIOUS
<1>1. TimelineInv
  BY InitTimeline
<1>2. CASE scene = "timeline"
  <2>1. PICK g \in TimelineRuns, d \in TimelineDefaults : \E selected : TimelineStart(g, d, selected)
    BY <1>2 DEF Init, StartTimeline
  <2>2. gantt = g /\ filters.depth = d.depth /\ filters.direction = d.direction
    BY <2>1 DEF TimelineStart
  <2> QED  BY <1>1, <2>2, RunsOfGraphs DEF ChartInv, AskedInv
<1>3. CASE scene # "timeline"
  <2>1. /\ gantt.items = <<>> /\ gantt.adjacency = <<>> /\ filters.depth = 2 /\ filters.direction = "both"
    BY <1>3 DEF Init, IdleTimeline, TimelineStart
  <2>2. IsTimelineGraph(gantt)
    BY <2>1, IdleGraph
  <2> QED  BY <1>1, <2>1, <2>2 DEF ChartInv, AskedInv, MaxHops
<1> QED  BY <1>2, <1>3

LEMMA AskedStep ==
    ASSUME AskedInv, TimelineInv, TimelineNext
    PROVE  AskedInv'
<1>1. filters = [x \in FilterFields |-> filters[x]]
  BY DEF TimelineInv, IsFilters
<1>2. gantt' = gantt
  BY DEF TimelineNext, ToggleTimelineStatus, ToggleTimelineType, ToggleShowTests, ToggleFailuresOnly,
         SearchTimeline, ClearTimelineFilters, SetTimelineDepth, SetTimelineDirection,
         ToggleNeighborhoodRows, PointerMove, PointerClick, PressEnter, PointerLeave, DragBrush,
         ResetZoom, SelectItem, SetFilters, Click
<1> DEFINE Same == filters'.depth = filters.depth /\ filters'.direction = filters.direction
           Right == filters'.depth \in 1 .. MaxHops /\ filters'.direction \in Legs \cup {"both"}
<1>3. Same => Right
  BY DEF AskedInv
<1>4. Right
  <2>1. CASE ToggleTimelineStatus \/ ToggleTimelineType \/ ToggleShowTests \/ ToggleFailuresOnly
    <3>1. Same
      BY <1>1, <2>1 DEF ToggleTimelineStatus, ToggleTimelineType, ToggleShowTests, ToggleFailuresOnly,
                        SetFilters, Click, FilterFields
    <3> QED  BY <1>3, <3>1
  <2>2. CASE SearchTimeline \/ ToggleNeighborhoodRows \/ DragBrush \/ ResetZoom
    <3>1. Same
      BY <1>1, <2>2 DEF SearchTimeline, ToggleNeighborhoodRows, DragBrush, ResetZoom,
                        SetFilters, Click, FilterFields
    <3> QED  BY <1>3, <3>1
  <2>3. CASE PointerMove \/ PointerClick \/ PressEnter \/ PointerLeave
    <3>1. \A id : SelectItem(id) => Same
      BY <1>1 DEF SelectItem, SetFilters, Click, FilterFields
    <3>2. Same
      BY <2>3, <3>1 DEF PointerMove, PointerClick, PressEnter, PointerLeave, Click
    <3> QED  BY <1>3, <3>2
  <2>4. CASE ClearTimelineFilters
    <3>1. filters'.depth = 2 /\ filters'.direction = "both"
      BY <1>1, <2>4 DEF ClearTimelineFilters, SetFilters, Click, FilterFields
    <3> QED  BY <3>1 DEF MaxHops
  <2>5. CASE SetTimelineDepth
    <3>1. filters'.depth \in 1 .. MaxHops /\ filters'.direction = filters.direction
      BY <1>1, <2>5 DEF SetTimelineDepth, SetFilters, Click, FilterFields
    <3> QED  BY <3>1 DEF AskedInv
  <2>6. CASE SetTimelineDirection
    <3>1. filters'.direction \in Legs \cup {"both"} /\ filters'.depth = filters.depth
      BY <1>1, <2>6 DEF SetTimelineDirection, SetFilters, Click, FilterFields
    <3> QED  BY <3>1 DEF AskedInv
  <2> QED  BY <2>1, <2>2, <2>3, <2>4, <2>5, <2>6 DEF TimelineNext
<1> QED  BY <1>2, <1>4 DEF AskedInv

LEMMA ChartStep ==
    ASSUME ChartInv, [Next]_investigationVars
    PROVE  ChartInv'
<1>1. TimelineInv'
  BY TimelineStep DEF ChartInv
<1>2. TimelineNext \/ UNCHANGED timelineVars
  BY DEF Next, investigationVars
<1>3. CASE TimelineNext
  BY <1>1, <1>3, AskedStep DEF ChartInv
<1>4. CASE UNCHANGED timelineVars
  BY <1>1, <1>4 DEF ChartInv, AskedInv, timelineVars
<1> QED  BY <1>2, <1>3, <1>4

(* Of whatever run, however it is filtered and zoomed: a selection narrows the rows to those   *)
(* that a chain of dependencies leads to within the depth; what is drawn for an item are       *)
(* dependencies between bars of the chart, each as far from it as it says; as many of its own  *)
(* as there are on the chart and may be drawn; and they connect every row that was kept, unless *)
(* there are more than may be drawn (edge-geometry.ts:425, 540).                               *)
THEOREM TimelineShowsNeighbourhoodAlways == Spec => []TimelineShowsNeighbourhood
<1>1. ChartInv /\ [Next]_investigationVars => ChartInv'
  BY ChartStep
<1> QED  BY <1>1, InitChart, ChartIsShown, PTL DEF Spec
=============================================================================
